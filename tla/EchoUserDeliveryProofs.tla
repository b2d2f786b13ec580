----------------------- MODULE EchoUserDeliveryProofs -----------------------
(***************************************************************************)
(* Theorems about EchoUserDelivery, for every number of delegates, changes *)
(* of user and crashes.  The inductive invariant says which change         *)
(* setBBCUser has in hand at each of its steps, which one is in storage,   *)
(* and how the events sent so far are accounted for by the position in the *)
(* loop over the delegates and by the crashes.                             *)
(***************************************************************************)
EXTENDS EchoUserDelivery, EchoIdentityProofs, TLAPS

(* Between two calls nothing is in hand, and the loop has not begun.       *)
NothingInHand ==
    /\ pc \in {"down", "idle"} => change = 0 /\ result = NoResult
    /\ pc # "sending" => next = 1

(* The persisted transition belongs to a change that was postponed.        *)
StorageIsConsistent ==
    IF stored.transition = "none" THEN pending = 0 ELSE pending \in persisted

(* The change in hand is the newest one, not postponed before, or the one  *)
(* in storage.                                                             *)
ChangeInHand ==
    /\ change # 0 =>
         /\ result.transition # "none"
         /\ IF result.postponed THEN change = pending
            ELSE change = changes /\ change \notin persisted
    /\ result.postponed => change = pending /\ stored.transition # "none"
    /\ result.reason = "userStateChange" => change # 0 /\ ~result.postponed

(* Has the loop passed delegate d with change c?                           *)
Passed(d, c) == IF c = change /\ d < next THEN 1 ELSE 0

(* The events sent for each change.                                        *)
EventsAreCounted ==
    \A d \in Delegates, c \in Changes :
        /\ c > changes => sent[d][c] = 0
        /\ Passed(d, c) <= sent[d][c]
        /\ c = change /\ c \notin persisted => sent[d][c] = Passed(d, c)
        /\ c = pending => sent[d][c] <= cut[c] + Passed(d, c)
        /\ sent[d][c] <= IF c \in persisted THEN 1 + cut[c] ELSE 1

(* The inductive invariant.                                                *)
IInv ==
    /\ TypeOK
    /\ NothingInHand
    /\ StorageIsConsistent
    /\ ChangeInHand
    /\ EventsAreCounted
    /\ PostponedChangeSurvivesCrashes
    /\ ChangesAreAccountedFor

(* The invariant holds on a new device.                                    *)
LEMMA InitInv == Init => IInv
<1> SUFFICES ASSUME Init PROVE IInv
  OBVIOUS
<1> USE DeliveryAssumption DEF Init, Delegates, Changes
<1>1. TypeOK
  <2>1. result \in UserPromiseHelperResult
    BY DEF NoResult, UserPromiseHelperResult, Transitions
  <2>2. stored \in [user : Users \cup {NoUser}, transition : Transitions]
    BY DEF Transitions
  <2>3. /\ sent \in [Delegates -> [Changes -> Nat]]
        /\ cut \in [Changes -> Nat]
    OBVIOUS
  <2>4. /\ next \in 1..(NumDelegates + 1)
        /\ changes \in 0..MaxChanges /\ crashes \in 0..MaxCrashes
        /\ change \in 0..changes /\ pending \in 0..changes
        /\ persisted \subseteq 1..changes
    OBVIOUS
  <2>5. resetData \in BOOLEAN /\ pc \in {"down", "idle", "stored", "sending"}
    OBVIOUS
  <2> HIDE DEF Init
  <2> QED
    BY <2>1, <2>2, <2>3, <2>4, <2>5 DEF TypeOK
<1>2. NothingInHand /\ StorageIsConsistent
  BY DEF NothingInHand, StorageIsConsistent
<1>3. ChangeInHand
  BY UserAssumption DEF ChangeInHand, NoResult, Reasons
<1>4. EventsAreCounted
  BY DEF EventsAreCounted, Passed
<1>5. PostponedChangeSurvivesCrashes /\ ChangesAreAccountedFor
  BY DEF PostponedChangeSurvivesCrashes, ChangesAreAccountedFor
<1> QED
  BY <1>1, <1>2, <1>3, <1>4, <1>5 DEF IInv

(* setBBCUser begins: the helper has answered and the user is persisted.   *)
LEMMA BeginInv ==
    ASSUME IInv, NEW user \in Users, pc \in {"down", "idle"}, resetData' \in BOOLEAN,
           NEW first, BeginSetBBCUser(user, first),
           UNCHANGED <<next, pending, persisted, sent, cut, crashes>>
    PROVE  IInv'
<1> USE DEF IInv
<1> DEFINE changed == Transition(stored.user, user) # "none"
<1>1. PICK r \in HelperResult(stored.user, stored.transition, user, first) :
        /\ changed => changes < MaxChanges
        /\ changes' = IF changed THEN changes + 1 ELSE changes
        /\ change' = CASE changed -> changes + 1
                       [] r.postponed -> pending
                       [] OTHER -> 0
        /\ result' = r
        /\ stored' = [stored EXCEPT !.user = user]
        /\ pc' = "stored"
  BY DEF BeginSetBBCUser
<1>2. /\ r \in UserPromiseHelperResult
      /\ r.postponed => ~changed /\ stored.transition # "none"
                        /\ r.transition = stored.transition
      /\ ~r.postponed => r.transition = Transition(stored.user, user)
      /\ r.reason = "userStateChange" => changed
  BY HelperResultType, HelperResultOrigin DEF TypeOK
<1> HIDE DEF changed
<1>3. /\ change' = IF changed THEN changes + 1 ELSE IF r.postponed THEN pending ELSE 0
      /\ r.postponed \in BOOLEAN
  BY <1>1, <1>2 DEF UserPromiseHelperResult
<1>4. /\ changes \in Nat /\ changes' \in changes..MaxChanges /\ pending \in 0..changes
      /\ change' \in 0..changes'
  BY <1>1, <1>3, DeliveryAssumption DEF TypeOK
<1>5. TypeOK'
  BY <1>1, <1>2, <1>4 DEF TypeOK
<1>6. NothingInHand'
  BY <1>1 DEF NothingInHand
<1>7. StorageIsConsistent' /\ stored'.transition = stored.transition
  BY <1>1 DEF StorageIsConsistent, TypeOK
<1>8. ChangeInHand'
  <2>1. changed => r.transition # "none"
    BY <1>2 DEF changed
  <2>2. changed => changes + 1 \notin persisted
    BY <1>4 DEF TypeOK
  <2> QED
    BY <1>1, <1>2, <1>3, <1>4, <1>7, <2>1, <2>2 DEF ChangeInHand
<1>9. EventsAreCounted'
  <2>1. next = 1 /\ change = 0
    BY DEF NothingInHand
  <2>2. \A d \in Delegates, c \in Changes : Passed(d, c)' = 0 /\ Passed(d, c) = 0
    BY <2>1 DEF Passed, Delegates
  <2>3. ASSUME NEW d \in Delegates, NEW c \in Changes, c = change', c \notin persisted
        PROVE  sent[d][c] = 0
    <3>1. c # 0 /\ (r.postponed => pending \in persisted)
      BY <1>2 DEF Changes, StorageIsConsistent
    <3>2. c = changes + 1
      BY <1>3, <2>3, <3>1
    <3> QED
      BY <1>4, <3>2 DEF EventsAreCounted
  <2>4. \A c \in Changes : c > changes' => c > changes
    BY <1>4 DEF Changes
  <2>5. sent' = sent /\ cut' = cut /\ pending' = pending /\ persisted' = persisted
    OBVIOUS
  <2> QED
    BY <2>2, <2>3, <2>4, <2>5 DEF EventsAreCounted
<1>10. PostponedChangeSurvivesCrashes'
  BY <1>7 DEF PostponedChangeSurvivesCrashes, ReachedAll
<1>11. ChangesAreAccountedFor'
  BY <1>1, <1>3, <1>4 DEF ChangesAreAccountedFor, ReachedAll, NothingInHand
<1> QED
  BY <1>5, <1>6, <1>7, <1>8, <1>9, <1>10, <1>11

(* The transition is postponed: the newest change takes the storage.       *)
LEMMA PostponeInv ==
    ASSUME IInv, SetPostponedUserStateTransition
    PROVE  IInv'
<1> USE DEF IInv
<1>1. /\ pc = "stored" /\ next = 1 /\ result.reason = "userStateChange"
      /\ stored' = [stored EXCEPT !.transition = result.transition]
      /\ pending' = change /\ persisted' = persisted \cup {change}
      /\ pc' = "idle" /\ result' = NoResult /\ change' = 0 /\ next' = 1
      /\ UNCHANGED <<resetData, changes, sent, cut, crashes>>
  BY DEF SetPostponedUserStateTransition, PostponesStateChange, Return, NothingInHand
<1>2. /\ change # 0 /\ change = changes /\ change \notin persisted
      /\ result.transition # "none" /\ ~result.postponed
  BY <1>1 DEF ChangeInHand
<1>3. /\ changes \in Nat /\ change \in 1..changes
      /\ \A c \in persisted : c \in Nat /\ c < change
  BY <1>2, DeliveryAssumption DEF TypeOK
<1>4. result' \in UserPromiseHelperResult /\ ~result'.postponed
      /\ result'.reason # "userStateChange"
  BY <1>1, UserAssumption
     DEF NoResult, UserPromiseHelperResult, Transitions, Reasons
<1>5. TypeOK'
  <2>1. stored' \in [user : Users \cup {NoUser}, transition : Transitions]
    BY <1>1 DEF TypeOK, UserPromiseHelperResult
  <2>2. persisted' \subseteq 1..changes
    BY <1>1, <1>3 DEF TypeOK
  <2> QED
    BY <1>1, <1>3, <1>4, <2>1, <2>2, DeliveryAssumption DEF TypeOK
<1>6. stored'.transition = result.transition
  BY <1>1 DEF TypeOK
<1>7. NothingInHand' /\ StorageIsConsistent' /\ ChangeInHand'
  BY <1>1, <1>2, <1>4, <1>6 DEF NothingInHand, StorageIsConsistent, ChangeInHand
<1>8. EventsAreCounted'
  <2>1. \A d \in Delegates, c \in Changes :
          /\ Passed(d, c) = 0 /\ Passed(d, c)' = 0
          /\ sent[d][c] \in Nat /\ cut[c] \in Nat
    BY <1>1 DEF Passed, Delegates, TypeOK
  <2>2. ASSUME NEW d \in Delegates, NEW c \in Changes
        PROVE  /\ c > changes => sent[d][c] = 0
               /\ c = change => sent[d][c] = 0
               /\ sent[d][c] <= IF c \in persisted' THEN 1 + cut[c] ELSE 1
    BY <1>1, <1>2, <2>1 DEF EventsAreCounted
  <2>3. \A c \in Changes : c # change'
    BY <1>1 DEF Changes
  <2>4. sent' = sent /\ cut' = cut /\ changes' = changes /\ pending' = change
    BY <1>1
  <2> QED
    BY <2>1, <2>2, <2>3, <2>4 DEF EventsAreCounted
<1>9. PostponedChangeSurvivesCrashes'
  BY <1>1, <1>2, <1>3, <1>6 DEF PostponedChangeSurvivesCrashes
<1>10. ChangesAreAccountedFor'
  BY <1>1 DEF ChangesAreAccountedFor, ReachedAll
<1> QED
  BY <1>5, <1>7, <1>8, <1>9, <1>10

(* The event is prepared, or there is none.                                *)
LEMMA PrepareInv ==
    ASSUME IInv, PrepareEvent
    PROVE  IInv'
<1> USE DEF IInv
<1>1. /\ pc = "stored" /\ next = 1
      /\ UNCHANGED <<resetData, stored, pending, persisted, changes, sent, cut, crashes>>
  BY DEF PrepareEvent, NothingInHand
<1>2. CASE pc' = "sending" /\ UNCHANGED <<result, change, next>>
  <2>1. TypeOK'
    BY <1>1, <1>2 DEF TypeOK
  <2>2. NothingInHand' /\ StorageIsConsistent' /\ ChangeInHand'
    BY <1>1, <1>2 DEF NothingInHand, StorageIsConsistent, ChangeInHand
  <2>3. EventsAreCounted'
    BY <1>1, <1>2 DEF EventsAreCounted, Passed
  <2>4. PostponedChangeSurvivesCrashes' /\ ChangesAreAccountedFor'
    BY <1>1, <1>2
       DEF PostponedChangeSurvivesCrashes, ChangesAreAccountedFor, ReachedAll
  <2> QED
    BY <2>1, <2>2, <2>3, <2>4
<1>3. CASE Return /\ result.transition = "none"
  <2>1. /\ pc' = "idle" /\ result' = NoResult /\ change' = 0 /\ next' = 1
        /\ change = 0
    BY <1>3 DEF Return, ChangeInHand
  <2>2. result' \in UserPromiseHelperResult /\ ~result'.postponed
        /\ result'.reason # "userStateChange"
    BY <2>1, UserAssumption
       DEF NoResult, UserPromiseHelperResult, Transitions, Reasons
  <2>3. TypeOK'
    BY <1>1, <2>1, <2>2, DeliveryAssumption DEF TypeOK
  <2>4. NothingInHand' /\ StorageIsConsistent' /\ ChangeInHand'
    BY <1>1, <2>1, <2>2 DEF NothingInHand, StorageIsConsistent, ChangeInHand
  <2>5. EventsAreCounted'
    BY <1>1, <2>1 DEF EventsAreCounted, Passed
  <2>6. PostponedChangeSurvivesCrashes' /\ ChangesAreAccountedFor'
    BY <1>1, <2>1
       DEF PostponedChangeSurvivesCrashes, ChangesAreAccountedFor, ReachedAll
  <2> QED
    BY <2>3, <2>4, <2>5, <2>6
<1> QED
  BY <1>2, <1>3 DEF PrepareEvent

(* One more delegate is sent the event.                                    *)
LEMMA SendInv ==
    ASSUME IInv, SendToNextDelegate
    PROVE  IInv'
<1> USE DEF IInv
<1>1. /\ pc = "sending" /\ next \in Delegates /\ next' = next + 1
      /\ sent' = IF change = 0 THEN sent ELSE [sent EXCEPT ![next][change] = @ + 1]
      /\ UNCHANGED <<resetData, pc, result, stored, change, pending, persisted,
                     changes, cut, crashes>>
  BY DEF SendToNextDelegate
<1>2. /\ next \in Nat /\ change \in Nat /\ changes \in Nat
      /\ change # 0 => change \in Changes
  BY <1>1, DeliveryAssumption DEF TypeOK, Delegates, Changes
<1>3. /\ sent' \in [Delegates -> [Changes -> Nat]]
      /\ \A d \in Delegates, c \in Changes :
           sent'[d][c] = sent[d][c] + (IF d = next /\ c = change THEN 1 ELSE 0)
  <2>1. CASE change = 0
    <3>1. sent' = sent /\ sent \in [Delegates -> [Changes -> Nat]]
      BY <1>1, <2>1 DEF TypeOK
    <3>2. \A d \in Delegates, c \in Changes : sent[d][c] \in Nat
      BY <3>1
    <3>3. \A c \in Changes : c # change
      BY <2>1, DeliveryAssumption DEF Changes
    <3> QED
      BY <3>1, <3>2, <3>3
  <2>2. CASE change # 0
    BY <1>1, <1>2, <2>2 DEF TypeOK
  <2> QED
    BY <2>1, <2>2
<1>4. TypeOK'
  <2>1. next' \in 1..(NumDelegates + 1)
    BY <1>1, DeliveryAssumption DEF Delegates
  <2> QED
    BY <1>1, <1>3, <2>1 DEF TypeOK
<1>5. NothingInHand' /\ StorageIsConsistent' /\ ChangeInHand'
  BY <1>1 DEF NothingInHand, StorageIsConsistent, ChangeInHand
<1>6. EventsAreCounted'
  <2> SUFFICES ASSUME NEW d \in Delegates, NEW c \in Changes
               PROVE  /\ c > changes => sent'[d][c] = 0
                      /\ Passed(d, c)' <= sent'[d][c]
                      /\ c = change /\ c \notin persisted => sent'[d][c] = Passed(d, c)'
                      /\ c = pending => sent'[d][c] <= cut[c] + Passed(d, c)'
                      /\ sent'[d][c] <= IF c \in persisted THEN 1 + cut[c] ELSE 1
    BY <1>1 DEF EventsAreCounted
  <2>1. Passed(d, c)' = Passed(d, c) + (IF d = next /\ c = change THEN 1 ELSE 0)
    BY <1>1, <1>2 DEF Passed, Delegates
  <2>2. /\ c > changes => sent[d][c] = 0
        /\ Passed(d, c) <= sent[d][c]
        /\ c = change /\ c \notin persisted => sent[d][c] = Passed(d, c)
        /\ c = pending => sent[d][c] <= cut[c] + Passed(d, c)
        /\ sent[d][c] <= IF c \in persisted THEN 1 + cut[c] ELSE 1
    BY DEF EventsAreCounted
  <2>3. /\ sent[d][c] \in Nat /\ cut[c] \in Nat /\ changes \in Nat /\ c \in Nat
        /\ Passed(d, c) \in {0, 1}
        /\ d = next => Passed(d, c) = 0
    BY <1>2, DeliveryAssumption DEF TypeOK, Passed, Changes
  <2>4. c = change => /\ c <= changes
                      /\ c \in persisted => c = pending
    BY <1>2 DEF TypeOK, ChangeInHand, Changes
  <2> QED
    BY <1>3, <2>1, <2>2, <2>3, <2>4
<1>7. \A c \in Changes : ReachedAll(c) => ReachedAll(c)'
  BY <1>3 DEF ReachedAll, TypeOK
<1>8. PostponedChangeSurvivesCrashes'
  BY <1>1, <1>7, DeliveryAssumption
     DEF PostponedChangeSurvivesCrashes, TypeOK, Changes
<1>9. ChangesAreAccountedFor'
  BY <1>1, <1>7, DeliveryAssumption DEF ChangesAreAccountedFor, TypeOK, Changes
<1> QED
  BY <1>4, <1>5, <1>6, <1>8, <1>9

(* The delegates have all been sent the event; a postponed transition that *)
(* was sent leaves the storage.                                            *)
LEMMA FinishInv ==
    ASSUME IInv, FinishSending
    PROVE  IInv'
<1> USE DEF IInv
<1>1. /\ pc = "sending" /\ next = NumDelegates + 1
      /\ stored' = IF result.postponed THEN [stored EXCEPT !.transition = "none"]
                   ELSE stored
      /\ pending' = IF result.postponed THEN 0 ELSE pending
      /\ pc' = "idle" /\ result' = NoResult /\ change' = 0 /\ next' = 1
      /\ UNCHANGED <<resetData, persisted, changes, sent, cut, crashes>>
  BY DEF FinishSending, Return
<1>2. /\ result' \in UserPromiseHelperResult /\ ~result'.postponed
      /\ result'.reason # "userStateChange"
  BY <1>1, UserAssumption
     DEF NoResult, UserPromiseHelperResult, Transitions, Reasons
<1>3. /\ stored' \in [user : Users \cup {NoUser}, transition : Transitions]
      /\ stored'.transition = IF result.postponed THEN "none" ELSE stored.transition
  BY <1>1 DEF TypeOK, Transitions
<1>4. TypeOK'
  BY <1>1, <1>2, <1>3, DeliveryAssumption DEF TypeOK
<1>5. NothingInHand' /\ ChangeInHand'
  BY <1>1, <1>2 DEF NothingInHand, ChangeInHand
<1>6. StorageIsConsistent'
  BY <1>1, <1>3 DEF StorageIsConsistent
<1>7. \A c \in Changes : c = change => ReachedAll(c)
  <2> SUFFICES ASSUME NEW d \in Delegates, NEW c \in Changes, c = change
               PROVE  sent[d][c] > 0
    BY DEF ReachedAll
  <2>1. Passed(d, c) = 1
    BY <1>1, DeliveryAssumption DEF Passed, Delegates
  <2>2. Passed(d, c) <= sent[d][c] /\ sent[d][c] \in Nat
    BY DEF EventsAreCounted, TypeOK
  <2> QED
    BY <2>1, <2>2
<1>8. EventsAreCounted'
  <2> SUFFICES ASSUME NEW d \in Delegates, NEW c \in Changes
               PROVE  /\ c > changes => sent[d][c] = 0
                      /\ Passed(d, c)' <= sent[d][c]
                      /\ c = change' /\ c \notin persisted
                           => sent[d][c] = Passed(d, c)'
                      /\ c = pending' => sent[d][c] <= cut[c] + Passed(d, c)'
                      /\ sent[d][c] <= IF c \in persisted THEN 1 + cut[c] ELSE 1
    BY <1>1 DEF EventsAreCounted
  <2>1. /\ c # 0 /\ sent[d][c] \in Nat /\ cut[c] \in Nat
    BY DeliveryAssumption DEF TypeOK, Changes
  <2>2. Passed(d, c)' = 0
    BY <1>1, <2>1 DEF Passed
  <2>3. c = pending' => c = pending /\ ~result.postponed
    BY <1>1, <2>1
  <2>4. c = pending' => c # change
    <3> HAVE c = pending'
    <3>1. c \in persisted
      BY <2>1, <2>3 DEF StorageIsConsistent
    <3> QED
      BY <2>1, <2>3, <3>1 DEF ChangeInHand
  <2>5. c = pending' => sent[d][c] <= cut[c]
    BY <2>1, <2>3, <2>4 DEF EventsAreCounted, Passed
  <2> QED
    BY <1>1, <2>1, <2>2, <2>5 DEF EventsAreCounted
<1>9. PostponedChangeSurvivesCrashes'
  <2>1. \A c \in persisted : c \in Changes
    BY DeliveryAssumption DEF TypeOK, Changes
  <2>2. result.postponed => change = pending
    BY DEF ChangeInHand
  <2> QED
    BY <1>1, <1>3, <1>7, <2>1, <2>2 DEF PostponedChangeSurvivesCrashes, ReachedAll
<1>10. ChangesAreAccountedFor'
  <2>1. \A c \in 1..changes : c \in Changes
    BY DeliveryAssumption DEF TypeOK, Changes
  <2> QED
    BY <1>1, <1>7, <2>1 DEF ChangesAreAccountedFor, ReachedAll
<1> QED
  BY <1>4, <1>5, <1>6, <1>8, <1>9, <1>10

(* The process dies: the change in hand is counted as cut.                 *)
LEMMA CrashInv ==
    ASSUME IInv, Crash
    PROVE  IInv'
<1> USE DEF IInv
<1>1. /\ crashes < MaxCrashes /\ crashes' = crashes + 1
      /\ pc' = "down" /\ resetData' = FALSE
      /\ result' = NoResult /\ change' = 0 /\ next' = 1
      /\ cut' = IF change = 0 THEN cut ELSE [cut EXCEPT ![change] = @ + 1]
      /\ UNCHANGED <<stored, pending, persisted, changes, sent>>
  BY DEF Crash
<1>2. /\ result' \in UserPromiseHelperResult /\ ~result'.postponed
      /\ result'.reason # "userStateChange"
  BY <1>1, UserAssumption
     DEF NoResult, UserPromiseHelperResult, Transitions, Reasons
<1>3. change # 0 => change \in Changes
  BY DeliveryAssumption DEF TypeOK, Changes
<1>4. /\ cut' \in [Changes -> Nat]
      /\ \A c \in Changes : cut'[c] = cut[c] + (IF c = change THEN 1 ELSE 0)
  <2>1. CASE change = 0
    <3>1. \A c \in Changes : c # change
      BY <2>1, DeliveryAssumption DEF Changes
    <3> QED
      BY <1>1, <2>1, <3>1 DEF TypeOK
  <2>2. CASE change # 0
    BY <1>1, <1>3, <2>2 DEF TypeOK
  <2> QED
    BY <2>1, <2>2
<1>5. TypeOK'
  <2>1. crashes' \in 0..MaxCrashes /\ next' \in 1..(NumDelegates + 1)
        /\ change' \in 0..changes
    BY <1>1, DeliveryAssumption DEF TypeOK
  <2> QED
    BY <1>1, <1>2, <1>4, <2>1 DEF TypeOK
<1>6. NothingInHand' /\ StorageIsConsistent' /\ ChangeInHand'
  BY <1>1, <1>2 DEF NothingInHand, StorageIsConsistent, ChangeInHand
<1>7. EventsAreCounted'
  <2> SUFFICES ASSUME NEW d \in Delegates, NEW c \in Changes
               PROVE  /\ c > changes => sent[d][c] = 0
                      /\ Passed(d, c)' <= sent[d][c]
                      /\ c = change' /\ c \notin persisted
                           => sent[d][c] = Passed(d, c)'
                      /\ c = pending => sent[d][c] <= cut'[c] + Passed(d, c)'
                      /\ sent[d][c] <= IF c \in persisted THEN 1 + cut'[c] ELSE 1
    BY <1>1 DEF EventsAreCounted
  <2>1. /\ c # 0 /\ sent[d][c] \in Nat /\ cut[c] \in Nat
    BY DeliveryAssumption DEF TypeOK, Changes
  <2>2. Passed(d, c)' = 0 /\ Passed(d, c) \in {0, IF c = change THEN 1 ELSE 0}
    BY <1>1, <2>1 DEF Passed
  <2>3. /\ c > changes => sent[d][c] = 0
        /\ c = pending => sent[d][c] <= cut[c] + Passed(d, c)
        /\ sent[d][c] <= IF c \in persisted THEN 1 + cut[c] ELSE 1
    BY DEF EventsAreCounted
  <2>4. cut'[c] = cut[c] + (IF c = change THEN 1 ELSE 0)
    BY <1>4
  <2> QED
    BY <1>1, <2>1, <2>2, <2>3, <2>4
<1>8. PostponedChangeSurvivesCrashes'
  BY <1>1 DEF PostponedChangeSurvivesCrashes, ReachedAll
<1>9. ChangesAreAccountedFor'
  <2>1. \A c \in 1..changes : c \in Changes
    BY DeliveryAssumption DEF TypeOK, Changes
  <2>2. \A c \in Changes : cut[c] \in Nat
    BY DEF TypeOK
  <2> QED
    BY <1>1, <1>4, <2>1, <2>2 DEF ChangesAreAccountedFor, ReachedAll
<1> QED
  BY <1>5, <1>6, <1>7, <1>8, <1>9

(* Every step preserves the invariant.                                     *)
LEMMA NextInv == IInv /\ [Next]_vars => IInv'
<1> SUFFICES ASSUME IInv, [Next]_vars PROVE IInv'
  OBVIOUS
<1>1. ASSUME NEW user \in Users, SetBBCUser(user) PROVE IInv'
  <2>1. resetData' \in BOOLEAN
    BY <1>1 DEF SetBBCUser, IInv, TypeOK
  <2> QED
    BY <1>1, <2>1, BeginInv DEF SetBBCUser
<1>2. ASSUME NEW user \in Users, Launch(user) PROVE IInv'
  BY <1>2, BeginInv DEF Launch
<1>3. CASE SetPostponedUserStateTransition
  BY <1>3, PostponeInv
<1>4. CASE PrepareEvent
  BY <1>4, PrepareInv
<1>5. CASE SendToNextDelegate
  BY <1>5, SendInv
<1>6. CASE FinishSending
  BY <1>6, FinishInv
<1>7. CASE Crash
  BY <1>7, CrashInv
<1>8. CASE UNCHANGED vars
  BY <1>8
     DEF vars, IInv, TypeOK, NothingInHand, StorageIsConsistent, ChangeInHand,
         EventsAreCounted, Passed, PostponedChangeSurvivesCrashes,
         ChangesAreAccountedFor, ReachedAll
<1> QED
  BY <1>1, <1>2, <1>3, <1>4, <1>5, <1>6, <1>7, <1>8 DEF Next

(* The inductive invariant holds in every reachable state.                 *)
THEOREM DeliveryInvariance == Spec => []IInv
  BY InitInv, NextInv, PTL DEF Spec

(* Every variable keeps its type, however setBBCUser is cut by crashes; in *)
(* particular the transition the helper persists is one it can hand back.  *)
THEOREM DeliveryTypeCorrect == Spec => []TypeOK
<1>1. IInv => TypeOK
  BY DEF IInv
<1> QED
  BY <1>1, DeliveryInvariance, PTL

(* A postponed change of user stays in storage until every delegate has    *)
(* been sent it or a later change is postponed, whatever crashes happen.   *)
THEOREM PostponedChangeIsSafe == Spec => []PostponedChangeSurvivesCrashes
<1>1. IInv => PostponedChangeSurvivesCrashes
  BY DEF IInv
<1> QED
  BY <1>1, DeliveryInvariance, PTL

(* Each change of user is in hand, postponed, sent to every delegate or    *)
(* was in hand when the process died.                                      *)
THEOREM NoChangeIsLost == Spec => []ChangesAreAccountedFor
<1>1. IInv => ChangesAreAccountedFor
  BY DEF IInv
<1> QED
  BY <1>1, DeliveryInvariance, PTL

(* A delegate is sent a change of user at most once more than the process  *)
(* died with it in hand, and at most once when it was never postponed.     *)
THEOREM RepeatsAreCounted == Spec => []RepeatsNeedACrash
<1>1. IInv => RepeatsNeedACrash
  <2> SUFFICES ASSUME IInv PROVE RepeatsNeedACrash
    OBVIOUS
  <2>1. \A c \in 1..changes : c \in Changes
    BY DeliveryAssumption DEF IInv, TypeOK, Changes
  <2> QED
    BY <2>1 DEF RepeatsNeedACrash, IInv, EventsAreCounted
<1> QED
  BY <1>1, DeliveryInvariance, PTL
=============================================================================
