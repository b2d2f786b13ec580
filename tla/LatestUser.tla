----------------------------- MODULE LatestUser -----------------------------
(***************************************************************************)
(* What the client promises about users, without start, enable, pending    *)
(* users, storage or timers: a register with the user in effect.  The app  *)
(* gives users at any time; while the service runs the user in effect is   *)
(* the one given last, while it does not the user in effect stays as it    *)
(* is.  A restart of the process loses nothing of what is in effect.       *)
(***************************************************************************)
CONSTANTS Users, NoUser

VARIABLES running, given, inEffect

vars == <<running, given, inEffect>>

Init ==
    /\ running = FALSE
    /\ given \in Users
    /\ inEffect = NoUser

Give(user) ==
    /\ given' = user
    /\ inEffect' = IF running THEN user ELSE inEffect
    /\ UNCHANGED running

Resume ==
    /\ ~running
    /\ running' = TRUE
    /\ inEffect' = given
    /\ UNCHANGED given

Pause ==
    /\ running
    /\ running' = FALSE
    /\ UNCHANGED <<given, inEffect>>

Restart(user) ==
    /\ running' = FALSE
    /\ given' = user
    /\ UNCHANGED inEffect

Next == Resume \/ Pause \/ \E user \in Users : Give(user) \/ Restart(user)

Spec == Init /\ [][Next]_vars
=============================================================================
