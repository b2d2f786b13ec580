---------------------------- MODULE EchoPosition ----------------------------
(***************************************************************************)
(* The arithmetic EchoClient applies to an on-demand position before it    *)
(* reports it: a position past the end of the media, or within one second  *)
(* of it, counts as the end.  Positions and lengths are UInt64             *)
(* milliseconds; a length of 0 means "not known".  Swift traps on an       *)
(* unsigned underflow, so the subtraction must never see a length below    *)
(* one second; OneSecond is 1000 in the code.                              *)
(***************************************************************************)
EXTENDS Naturals

CONSTANT OneSecond

ASSUME OneSecondAssumption == OneSecond \in Nat \ {0}

\* Mutant: the second test of the code, for media shorter than a second, is
\* forgotten.
PositionExceedsNoShortMedia(length, position) ==
    length >= OneSecond /\ position >= length - OneSecond

PositionExceedsMediaLength(length, position) ==
    \/ length >= OneSecond /\ position >= length - OneSecond
    \/ length < OneSecond /\ length # 0

\* Mutant: clamps to one second before the end.
ClampToLastSecond(length, position) ==
    IF PositionExceedsMediaLength(length, position)
    THEN length - OneSecond ELSE position

PreventPositionExceedingMediaLength(length, position) ==
    IF PositionExceedsMediaLength(length, position) THEN length ELSE position

(* What the comment on positionExceedsMediaLength promises, without the    *)
(* case split that keeps the subtraction safe.                             *)
WithinASecondOfTheEnd(length, position) ==
    length # 0 /\ position + OneSecond >= length
=============================================================================
