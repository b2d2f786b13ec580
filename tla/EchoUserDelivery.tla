-------------------------- MODULE EchoUserDelivery --------------------------
(***************************************************************************)
(* Reporting a change of user across crashes.  EchoUser takes setBBCUser   *)
(* as one step; here it is cut at every call that leaves a trace outside   *)
(* the process: the helper persists the new user, a transition that cannot *)
(* be reported now is persisted, each delegate in turn is sent the event,  *)
(* and a postponed transition that has been sent is cleared.  The process  *)
(* may die between any two of them.                                        *)
(*                                                                         *)
(* ID v5 is on and events are enabled; the option to reset data on a user  *)
(* state change may differ from launch to launch.  Each change of user the *)
(* helper sees gets a number, a history value that travels with it so that *)
(* the events sent for it can be counted.                                  *)
(***************************************************************************)
EXTENDS EchoIdentity

CONSTANTS NumDelegates,   \* delegates are called in the order 1..NumDelegates
          MaxChanges,     \* bound: changes of user
          MaxCrashes      \* bound: crashes

ASSUME DeliveryAssumption ==
    /\ NumDelegates \in Nat \ {0}
    /\ MaxChanges \in Nat
    /\ MaxCrashes \in Nat

Delegates == 1..NumDelegates
Changes == 1..MaxChanges

VARIABLES
  resetData,  \* resetDataOnUserStateChangeEnabled of this launch
  pc,         \* how far setBBCUser has come; "idle" between calls
  result,     \* the helper's result, while setBBCUser runs
  next,       \* the delegate to be sent the event next
  stored,     \* UserPromiseHelper: the persisted user and transition
  change,     \* history: the change setBBCUser is about, 0 if none
  pending,    \* history: the change the persisted transition is about, or 0
  persisted,  \* history: the changes that were ever postponed
  changes,    \* history: how many changes there have been
  sent,       \* history: how often each delegate was sent each change
  cut,        \* history: how often the process died with the change in hand
  crashes     \* how often the process has died

vars == <<resetData, pc, result, next, stored, change, pending, persisted,
          changes, sent, cut, crashes>>

NoResult == [transition |-> "none", reason |-> NoReason, postponed |-> FALSE]

Init ==
    /\ resetData = FALSE
    /\ pc = "down"
    /\ result = NoResult
    /\ next = 1
    /\ stored = [user |-> NoUser, transition |-> "none"]
    /\ change = 0
    /\ pending = 0
    /\ persisted = {}
    /\ changes = 0
    /\ sent = [d \in Delegates |-> [c \in Changes |-> 0]]
    /\ cut = [c \in Changes |-> 0]
    /\ crashes = 0

-----------------------------------------------------------------------------
(* setBBCUser up to the return of UserPromiseHelper.setBBCUser, which has  *)
(* persisted the new user; first is TRUE for the first call of a launch.   *)
BeginSetBBCUser(user, first) ==
    \E r \in HelperResult(stored.user, stored.transition, user, first) :
      LET changed == Transition(stored.user, user) # "none"
      IN  /\ changed => changes < MaxChanges
          /\ changes' = IF changed THEN changes + 1 ELSE changes
          /\ change' = CASE changed -> changes + 1
                         [] r.postponed -> pending
                         [] OTHER -> 0
          /\ result' = r
          /\ stored' = [stored EXCEPT !.user = user]
          /\ pc' = "stored"

SetBBCUser(user) ==
    /\ pc = "idle"
    /\ BeginSetBBCUser(user, FALSE)
    /\ UNCHANGED <<resetData, next, pending, persisted, sent, cut, crashes>>

(* A new process: the initialiser keeps the user and start sets it.        *)
Launch(user) ==
    /\ pc = "down"
    /\ resetData' \in BOOLEAN
    /\ BeginSetBBCUser(user, TRUE)
    /\ UNCHANGED <<next, pending, persisted, sent, cut, crashes>>

(* setBBCUser is over: its local variables are gone.                       *)
Return ==
    /\ pc' = "idle"
    /\ result' = NoResult
    /\ change' = 0
    /\ next' = 1

PostponesStateChange(r) == resetData /\ r.reason = "userStateChange"

\* Mutant: the delegates stop, but the transition is not persisted.
ForgetUserStateTransition ==
    /\ pc = "stored"
    /\ PostponesStateChange(result)
    /\ Return
    /\ UNCHANGED <<resetData, stored, pending, persisted, changes, sent, cut,
                   crashes>>

(* resetDeviceId: the delegates stop, the transition is persisted and      *)
(* setBBCUser returns.                                                     *)
SetPostponedUserStateTransition ==
    /\ pc = "stored"
    /\ PostponesStateChange(result)
    /\ stored' = [stored EXCEPT !.transition = result.transition]
    /\ pending' = change
    /\ persisted' = persisted \cup {change}
    /\ Return
    /\ UNCHANGED <<resetData, changes, sent, cut, crashes>>

\* Mutant: the postponed transition is cleared before it is sent.
ClearThenSend ==
    /\ pc = "stored"
    /\ ~PostponesStateChange(result)
    /\ IF result.transition # "none" \/ result.reason # NoReason
       THEN pc' = "sending" /\ UNCHANGED <<result, change, next>>
       ELSE Return
    /\ stored' = IF result.postponed THEN [stored EXCEPT !.transition = "none"]
                 ELSE stored
    /\ pending' = IF result.postponed THEN 0 ELSE pending
    /\ UNCHANGED <<resetData, persisted, changes, sent, cut, crashes>>

(* There is something to report, or there is not.                          *)
PrepareEvent ==
    /\ pc = "stored"
    /\ ~PostponesStateChange(result)
    /\ IF result.transition # "none" \/ result.reason # NoReason
       THEN pc' = "sending" /\ UNCHANGED <<result, change, next>>
       ELSE Return
    /\ UNCHANGED <<resetData, stored, pending, persisted, changes, sent, cut, crashes>>

\* Mutant: the loop runs one past the last delegate.
SendOnePastTheLast ==
    /\ pc = "sending"
    /\ next \in 1..(NumDelegates + 1)
    /\ sent' = IF change = 0 \/ next \notin Delegates THEN sent
               ELSE [sent EXCEPT ![next][change] = @ + 1]
    /\ next' = next + 1
    /\ UNCHANGED <<resetData, pc, result, stored, change, pending, persisted,
                   changes, cut, crashes>>

(* One iteration of the loop over the delegates in sendUserUpdateEvent.    *)
(* The name and the labels of the event are left out.                      *)
SendToNextDelegate ==
    /\ pc = "sending"
    /\ next \in Delegates
    /\ sent' = IF change = 0 THEN sent
               ELSE [sent EXCEPT ![next][change] = @ + 1]
    /\ next' = next + 1
    /\ UNCHANGED <<resetData, pc, result, stored, change, pending, persisted,
                   changes, cut, crashes>>

\* Mutant: the postponed transition is not cleared.
FinishWithoutClearing ==
    /\ pc = "sending"
    /\ next = NumDelegates + 1
    /\ Return
    /\ UNCHANGED <<resetData, stored, pending, persisted, changes, sent, cut,
                   crashes>>

(* The end of sendUserUpdateEvent and of setBBCUser.                       *)
FinishSending ==
    /\ pc = "sending"
    /\ next = NumDelegates + 1
    /\ stored' = IF result.postponed THEN [stored EXCEPT !.transition = "none"]
                 ELSE stored
    /\ pending' = IF result.postponed THEN 0 ELSE pending
    /\ Return
    /\ UNCHANGED <<resetData, persisted, changes, sent, cut, crashes>>

(* The process dies: only what the helper persisted survives.              *)
Crash ==
    /\ pc # "down"
    /\ crashes < MaxCrashes
    /\ crashes' = crashes + 1
    /\ pc' = "down"
    /\ resetData' = FALSE
    /\ result' = NoResult
    /\ change' = 0
    /\ next' = 1
    /\ cut' = IF change = 0 THEN cut ELSE [cut EXCEPT ![change] = @ + 1]
    /\ UNCHANGED <<stored, pending, persisted, changes, sent>>

Next ==
    \/ \E user \in Users : SetBBCUser(user)
    \/ \E user \in Users : Launch(user)
    \/ SetPostponedUserStateTransition
    \/ PrepareEvent
    \/ SendToNextDelegate
    \/ FinishSending
    \/ Crash

Spec == Init /\ [][Next]_vars

-----------------------------------------------------------------------------
(* Properties.                                                             *)

(* Every variable has its type; the persisted transition is one the helper *)
(* can hand back.                                                          *)
TypeOK ==
    /\ resetData \in BOOLEAN
    /\ pc \in {"down", "idle", "stored", "sending"}
    /\ result \in UserPromiseHelperResult
    /\ next \in 1..(NumDelegates + 1)
    /\ stored \in [user : Users \cup {NoUser}, transition : Transitions]
    /\ change \in 0..changes
    /\ pending \in 0..changes
    /\ persisted \subseteq 1..changes
    /\ changes \in 0..MaxChanges
    /\ sent \in [Delegates -> [Changes -> Nat]]
    /\ cut \in [Changes -> Nat]
    /\ crashes \in 0..MaxCrashes

(* Every delegate has been sent an event for change c.                     *)
ReachedAll(c) == \A d \in Delegates : sent[d][c] > 0

(* A change the client has postponed survives every crash: it stays in     *)
(* storage until each delegate has been sent an event for it, or until a   *)
(* later change is postponed in its place.                                 *)
PostponedChangeSurvivesCrashes ==
    \A c \in persisted :
        \/ c = pending /\ stored.transition # "none"
        \/ ReachedAll(c)
        \/ \E later \in persisted : later > c

(* No change of user goes missing without a crash: each is in the hands of *)
(* setBBCUser, postponed or sent to every delegate, unless the process     *)
(* died while it was in hand.                                              *)
ChangesAreAccountedFor ==
    \A c \in 1..changes :
        c = change \/ c \in persisted \/ ReachedAll(c) \/ cut[c] > 0

(* A delegate is sent a change again only when a crash came between the    *)
(* first event and the clearing of the postponed transition, once per such *)
(* crash; a change that was not postponed is never sent again.             *)
RepeatsNeedACrash ==
    \A d \in Delegates, c \in 1..changes :
        sent[d][c] <= IF c \in persisted THEN 1 + cut[c] ELSE 1
=============================================================================
