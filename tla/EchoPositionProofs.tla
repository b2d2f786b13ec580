------------------------- MODULE EchoPositionProofs -------------------------
(* What the position arithmetic of EchoClient computes, for every length,  *)
(* every position and every value of OneSecond.                            *)
EXTENDS EchoPosition, TLAPS

(* The two tests of positionExceedsMediaLength, split so that the unsigned *)
(* subtraction cannot underflow, compute exactly "past the end, or within  *)
(* one second of it".                                                      *)
THEOREM ExceedsIsWithinASecond ==
    ASSUME NEW length \in Nat, NEW position \in Nat
    PROVE  PositionExceedsMediaLength(length, position)
               <=> WithinASecondOfTheEnd(length, position)
  BY OneSecondAssumption
     DEF PositionExceedsMediaLength, WithinASecondOfTheEnd

(* preventPositionExceedingMediaLength returns a position that is either   *)
(* the length itself or more than a second before it; a position it leaves *)
(* alone is unchanged, and applying it twice changes nothing.              *)
THEOREM ClampedPositionRespectsTheLength ==
    ASSUME NEW length \in Nat, NEW position \in Nat
    PROVE  LET p == PreventPositionExceedingMediaLength(length, position)
           IN  /\ p \in Nat
               /\ length # 0 => p = length \/ p + OneSecond < length
               /\ p # length => p = position
               /\ PreventPositionExceedingMediaLength(length, p) = p
  BY OneSecondAssumption
     DEF PreventPositionExceedingMediaLength, PositionExceedsMediaLength

(* Moving on in the media never makes a position that counts as the end    *)
(* count as the middle again: a pause at the end stays a pause at the end. *)
THEOREM ExceedsIsMonotone ==
    ASSUME NEW length \in Nat, NEW p \in Nat, NEW q \in Nat, p <= q,
           PositionExceedsMediaLength(length, p)
    PROVE  PositionExceedsMediaLength(length, q)
  BY OneSecondAssumption DEF PositionExceedsMediaLength
=============================================================================
