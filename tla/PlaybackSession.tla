-------------------------- MODULE PlaybackSession --------------------------
(***************************************************************************)
(* What the client promises the delegates about playback, without brokers, *)
(* positions, labels, enrichment or held plays.  The app chooses media and *)
(* asks for things; the delegates hear of one media, the one chosen last,  *)
(* and are shown a play only while a play is what the app asked for last.  *)
(* What the app asks may be answered at once or later, or not at all, but  *)
(* a pause, an end or a change of media is never overtaken by an earlier   *)
(* play.                                                                   *)
(***************************************************************************)
CONSTANTS MediaIds, NoMedia

VARIABLES
  enabled,
  chosen,    \* the media the app has chosen, until it ends
  subject,   \* the media the delegates report on
  wish,      \* the last thing the app asked for
  shown      \* the last thing the delegates were told

vars == <<enabled, chosen, subject, wish, shown>>

Stops == {"pause", "buffer", "move"}

Init ==
    /\ enabled \in BOOLEAN
    /\ chosen = NoMedia
    /\ subject = NoMedia
    /\ wish = "none"
    /\ shown = "none"

Active == enabled /\ chosen # NoMedia

Choose(m) ==
    /\ enabled
    /\ chosen' = m
    /\ subject' = m
    /\ wish' = "none"
    /\ shown' = "none"
    /\ UNCHANGED enabled

(* The client may be off, or without media: it hears, and does nothing.    *)
AskInVain(request) ==
    /\ ~Active
    /\ wish' = request
    /\ UNCHANGED <<enabled, chosen, subject, shown>>

(* A play is shown at once, or kept, or refused.                           *)
AskToPlay ==
    /\ Active
    /\ wish' = "play"
    /\ shown' \in {shown, "play"}
    /\ UNCHANGED <<enabled, chosen, subject>>

AskToStop ==
    /\ Active
    /\ wish' = "other"
    /\ shown' \in Stops
    /\ UNCHANGED <<enabled, chosen, subject>>

AskToEnd ==
    /\ Active
    /\ wish' = "end"
    /\ shown' = "end"
    /\ chosen' = NoMedia
    /\ UNCHANGED <<enabled, subject>>

(* Between two calls of the app: a play kept before is shown, live media   *)
(* moves on to its next broadcast, or the media has played to its end.     *)
FollowUp ==
    /\ Active
    /\ wish = "play"
    /\ shown' \in {"play", "pause"}
    /\ subject' \in {subject, chosen}
    /\ UNCHANGED <<enabled, chosen, wish>>

Forget ==
    /\ subject' = NoMedia
    /\ shown' = "none"
    /\ UNCHANGED <<enabled, chosen, wish>>

SwitchOff ==
    /\ enabled
    /\ enabled' = FALSE
    /\ chosen' = NoMedia
    /\ subject' = NoMedia
    /\ shown' = "none"
    /\ UNCHANGED wish

SwitchOn ==
    /\ ~enabled
    /\ enabled' = TRUE
    /\ UNCHANGED <<chosen, subject, wish, shown>>

Next ==
    \/ \E m \in MediaIds : Choose(m)
    \/ \E request \in {"play", "other", "end"} : AskInVain(request)
    \/ AskToPlay \/ AskToStop \/ AskToEnd
    \/ FollowUp
    \/ Forget \/ SwitchOff \/ SwitchOn

Spec == Init /\ [][Next]_vars
=============================================================================
