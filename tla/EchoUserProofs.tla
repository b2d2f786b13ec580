--------------------------- MODULE EchoUserProofs ---------------------------
(***************************************************************************)
(* Theorems about EchoUser, for every set of users, tokens and             *)
(* configurations.  The inductive invariant says where the latest user is  *)
(* at each point of the lifecycle: kept for a later start or enable, or    *)
(* stored and shown to the delegates, but never nowhere and never both.    *)
(***************************************************************************)
EXTENDS EchoUser, EchoIdentityProofs, TLAPS

(* Before start there is a user for start to set.                          *)
UserAwaitsTheStart ==
    /\ ~hasStarted => bbcUserSetWhileDisabled # NoUser
    /\ phase = "init" => ~hasStarted

(* With ID v5 on and the reset off, the latest user is either kept, while  *)
(* events are off, or stored and labelled.                                 *)
LatestUserIsKept ==
    KeepsTheLatest =>
        /\ timers = {}
        /\ IF bbcUserSetWhileDisabled = NoUser
           THEN hasStarted /\ stored.user = latest /\ dlg.user = latest
           ELSE bbcUserSetWhileDisabled = latest /\ ~EventsEnabled

(* From start on, enabled or not, the delegates use the stored device id.  *)
StartedDelegatesUseTheStoredDeviceId ==
    hasStarted /\ config.idv5 => dlg.deviceId = stored.deviceId

(* The inductive invariant.                                                *)
IInv ==
    /\ TypeOK
    /\ TimerBelongsToItsUser
    /\ UserAwaitsTheStart
    /\ LatestUserIsKept
    /\ StartedDelegatesUseTheStoredDeviceId

-----------------------------------------------------------------------------
(* The pieces of setBBCUser.                                               *)

(* tokenState has three answers, and a valid token is a token.             *)
LEMMA TokenStateType ==
    ASSUME NEW user \in BBCUser
    PROVE  /\ TokenState(user) \in {"valid", "expired", "validNoTimestamp"}
           /\ TokenState(user) = "valid" => user.token \in Tokens
  BY UserAssumption DEF TokenState, BBCUser

(* resetUserData leaves at most one timer, the one of userForTimer.        *)
LEMMA ResetUserDataTimer ==
    ASSUME TypeOK, TimerBelongsToItsUser, NEW user \in BBCUser, NEW previous,
           ResetUserData(user, previous)
    PROVE  /\ userForTimer' \in BBCUser \cup {NoUser}
           /\ timers' \subseteq Tokens
           /\ TimerBelongsToItsUser'
<1>1. CASE TokenState(user) = "valid"
  <2>1. userForTimer' = user /\ timers' = {user.token}
    BY <1>1 DEF ResetUserData, ScheduleTokenExpiry, RemoveSchedule
  <2> QED
    BY <1>1, <2>1, TokenStateType, UserAssumption DEF TimerBelongsToItsUser
<1>2. CASE TokenState(user) # "valid"
  <2>1. userForTimer' = userForTimer /\ timers' \subseteq timers
    BY <1>2 DEF ResetUserData, RemoveSchedule
  <2> QED
    BY <2>1 DEF TypeOK, TimerBelongsToItsUser
<1> QED
  BY <1>1, <1>2

(* What setBBCUser does once events are enabled: the types are kept, the   *)
(* timer stays its user's, the delegates get the stored device id, and     *)
(* with the reset off the user is stored, labelled and no longer pending.  *)
LEMMA UpdateUserEffect ==
    ASSUME TypeOK, TimerBelongsToItsUser, NEW user \in BBCUser,
           NEW leftover \in BBCUser \cup {NoUser}, UpdateUser(user, leftover)
    PROVE  /\ previousUser' \in BBCUser \cup {NoUser}
           /\ bbcUserSetWhileDisabled' \in {leftover, NoUser}
           /\ userForTimer' \in BBCUser \cup {NoUser}
           /\ timers' \subseteq Tokens
           /\ stored' \in [user : BBCUser \cup {NoUser}, deviceId : {0, 1},
                           postponed : Transitions]
           /\ dlg' \in [user : BBCUser,
                        tokenState : {"valid", "expired", "validNoTimestamp"},
                        deviceId : {0, 1, HardwareId}, stateChanged : BOOLEAN]
           /\ TimerBelongsToItsUser'
           /\ config.idv5 => dlg'.deviceId = stored'.deviceId
           /\ KeepsTheLatest => /\ bbcUserSetWhileDisabled' = NoUser
                                /\ stored'.user = user
                                /\ dlg'.user = user
                                /\ timers' = timers
<1>1. CASE ~config.idv5
  BY <1>1 DEF UpdateUser, TypeOK, TimerBelongsToItsUser, KeepsTheLatest
<1>2. CASE config.idv5
  <2>1. PICK r \in HelperResult(stored.user, stored.postponed, user,
                               previousUser = NoUser) :
          /\ IF config.reset
             THEN ResetUserData(user, IF previousUser = NoUser THEN stored.user
                                      ELSE previousUser)
             ELSE UNCHANGED <<userForTimer, timers>>
          /\ IF PostponesStateChange(r)
             THEN PostponeStateChange(user, r, leftover)
             ELSE AcceptUser(user, r)
    BY <1>2 DEF UpdateUser
  <2>2. r \in UserPromiseHelperResult
    BY HelperResultType DEF TypeOK
  <2>3. NewDeviceId(r.reason) \in {0, 1}
    BY DEF NewDeviceId, TypeOK
  <2>4. /\ userForTimer' \in BBCUser \cup {NoUser}
        /\ timers' \subseteq Tokens
        /\ TimerBelongsToItsUser'
    <3>1. CASE config.reset
      BY <2>1, <3>1, ResetUserDataTimer
    <3>2. CASE ~config.reset
      BY <2>1, <3>2 DEF TypeOK, TimerBelongsToItsUser
    <3> QED
      BY <3>1, <3>2
  <2>5. CASE PostponesStateChange(r)
    <3>1. PostponeStateChange(user, r, leftover)
      BY <2>1, <2>5
    <3>2. ~KeepsTheLatest
      BY <2>5 DEF PostponesStateChange, KeepsTheLatest
    <3> QED
      BY <2>2, <2>3, <2>4, <3>1, <3>2
         DEF PostponeStateChange, TypeOK, UserPromiseHelperResult
  <2>6. CASE ~PostponesStateChange(r)
    <3>1. AcceptUser(user, r)
      BY <2>1, <2>6
    <3>2. KeepsTheLatest => timers' = timers
      BY <2>1 DEF KeepsTheLatest
    <3>3. "none" \in Transitions
      BY DEF Transitions
    <3> QED
      BY <2>2, <2>3, <2>4, <3>1, <3>2, <3>3, TokenStateType
         DEF AcceptUser, TypeOK, UserPromiseHelperResult
  <2> QED
    BY <2>5, <2>6
<1> QED
  BY <1>1, <1>2 DEF TypeOK, Config

(* start with its guards passed, on a client that has not started.         *)
LEMMA StartClientEffect ==
    ASSUME IInv, ~hasStarted, StartClient
    PROVE  /\ hasStarted'
           /\ UpdateUser(bbcUserSetWhileDisabled, bbcUserSetWhileDisabled)
           /\ bbcUserSetWhileDisabled \in BBCUser
           /\ KeepsTheLatest => bbcUserSetWhileDisabled = latest
  BY DEF IInv, TypeOK, UserAwaitsTheStart, LatestUserIsKept, StartClient

(* What a step of the user or of the lifecycle has to show, given that it  *)
(* ran setBBCUser with events enabled.                                     *)
LEMMA UpdateUserInv ==
    ASSUME IInv, NEW user \in BBCUser, NEW leftover \in BBCUser \cup {NoUser},
           UpdateUser(user, leftover),
           hasStarted' = TRUE, phase' = "live", echoEnabled' \in BOOLEAN,
           latest' \in BBCUser, KeepsTheLatest => latest' = user,
           config' = config, expired' = expired
    PROVE  IInv'
<1>1. TypeOK /\ TimerBelongsToItsUser
  BY DEF IInv
<1>2. TypeOK'
  BY <1>1, UpdateUserEffect DEF TypeOK
<1>3. TimerBelongsToItsUser'
  BY <1>1, UpdateUserEffect
<1>4. UserAwaitsTheStart'
  BY DEF UserAwaitsTheStart
<1>5. LatestUserIsKept'
  BY <1>1, UpdateUserEffect DEF IInv, LatestUserIsKept, KeepsTheLatest
<1>6. StartedDelegatesUseTheStoredDeviceId'
  BY <1>1, UpdateUserEffect DEF StartedDelegatesUseTheStoredDeviceId
<1> QED
  BY <1>2, <1>3, <1>4, <1>5, <1>6 DEF IInv

-----------------------------------------------------------------------------
(* The invariant holds when the first client has been created.             *)
LEMMA InitInv == Init => IInv
<1> SUFFICES ASSUME Init PROVE IInv
  OBVIOUS
<1> USE DEF Init
<1>1. latest \in BBCUser /\ latest # NoUser
  BY UserAssumption
<1>2. dlg \in [user : BBCUser,
               tokenState : {"valid", "expired", "validNoTimestamp"},
               deviceId : {0, 1, HardwareId}, stateChanged : BOOLEAN]
  BY <1>1, TokenStateType DEF FreshDelegates
<1>3. config \in Config
  BY ConfigAssumption
<1>4. TypeOK
  BY <1>1, <1>2, <1>3 DEF TypeOK, Config, Transitions
<1> QED
  BY <1>1, <1>4 DEF IInv, TimerBelongsToItsUser, UserAwaitsTheStart,
     LatestUserIsKept, StartedDelegatesUseTheStoredDeviceId, EventsEnabled

(* Every step of the app, of the timer and of the process keeps it.        *)
LEMMA NextInv == IInv /\ [Next]_vars => IInv'
<1> SUFFICES ASSUME IInv, [Next]_vars PROVE IInv'
  OBVIOUS
<1> TypeOK /\ TimerBelongsToItsUser
  BY DEF IInv
<1>1. ASSUME NEW user \in Users, SetBBCUser(user)
      PROVE  IInv'
  <2>1. user \in BBCUser /\ user # NoUser
    BY UserAssumption
  <2>2. CASE EventsEnabled
    BY <1>1, <2>1, <2>2, UpdateUserInv
       DEF SetBBCUser, lifecycle, TypeOK, EventsEnabled
  <2>3. CASE ~EventsEnabled
    <3>1. TypeOK'
      BY <1>1, <2>1, <2>3 DEF SetBBCUser, KeepUserForLater, lifecycle, TypeOK
    <3> QED
      BY <1>1, <2>1, <2>3, <3>1
         DEF SetBBCUser, KeepUserForLater, lifecycle, IInv, TimerBelongsToItsUser,
             UserAwaitsTheStart, LatestUserIsKept, KeepsTheLatest, EventsEnabled,
             StartedDelegatesUseTheStoredDeviceId
  <2> QED
    BY <2>2, <2>3
<1>2. ASSUME NEW user \in Users, Relaunch(user)
      PROVE  IInv'
  <2>1. user \in BBCUser /\ user # NoUser
    BY UserAssumption
  <2>2. dlg' \in [user : BBCUser,
                  tokenState : {"valid", "expired", "validNoTimestamp"},
                  deviceId : {0, 1, HardwareId}, stateChanged : BOOLEAN]
    BY <1>2, <2>1, TokenStateType DEF Relaunch, FreshDelegates
  <2>3. TypeOK'
    BY <1>2, <2>1, <2>2 DEF Relaunch, TypeOK, Config
  <2> QED
    BY <1>2, <2>1, <2>3
       DEF Relaunch, IInv, TimerBelongsToItsUser, UserAwaitsTheStart,
           LatestUserIsKept, StartedDelegatesUseTheStoredDeviceId, EventsEnabled
<1>3. CASE FinishInit
  <2>1. ~hasStarted
    BY <1>3 DEF FinishInit, IInv, UserAwaitsTheStart
  <2>2. CASE echoEnabled /\ config.autoStart
    <3>1. StartClient /\ hasStarted' = TRUE
      BY <1>3, <2>2 DEF FinishInit, StartClient
    <3> QED
      BY <1>3, <2>1, <3>1, StartClientEffect, UpdateUserInv DEF FinishInit, TypeOK
  <2>3. CASE ~(echoEnabled /\ config.autoStart)
    <3>1. TypeOK'
      BY <1>3, <2>3 DEF FinishInit, TypeOK
    <3> QED
      BY <1>3, <2>1, <2>3, <3>1
         DEF FinishInit, IInv, TimerBelongsToItsUser, UserAwaitsTheStart,
             LatestUserIsKept, KeepsTheLatest, EventsEnabled,
             StartedDelegatesUseTheStoredDeviceId
  <2> QED
    BY <2>2, <2>3
<1>4. CASE Start
  <2>1. StartClient /\ ~hasStarted /\ hasStarted' = TRUE
    BY <1>4 DEF Start, StartClient
  <2> QED
    BY <1>4, <2>1, StartClientEffect, UpdateUserInv DEF Start, TypeOK
<1>5. CASE Enable
  <2>1. CASE ~hasStarted /\ config.autoStart
    <3>1. StartClient /\ hasStarted' = TRUE
      BY <1>5, <2>1 DEF Enable, DeliverOrStart, StartClient
    <3> QED
      BY <1>5, <2>1, <3>1, StartClientEffect, UpdateUserInv DEF Enable, TypeOK
  <2>2. CASE hasStarted /\ bbcUserSetWhileDisabled # NoUser
    <3>1. /\ UpdateUser(bbcUserSetWhileDisabled, NoUser)
          /\ hasStarted' = TRUE
      BY <1>5, <2>2 DEF Enable, DeliverOrStart, TypeOK
    <3>2. /\ bbcUserSetWhileDisabled \in BBCUser
          /\ KeepsTheLatest => bbcUserSetWhileDisabled = latest
      BY <2>2 DEF IInv, TypeOK, LatestUserIsKept
    <3> QED
      BY <1>5, <3>1, <3>2, UpdateUserInv DEF Enable, TypeOK
  <2>3. CASE \/ hasStarted /\ bbcUserSetWhileDisabled = NoUser
             \/ ~hasStarted /\ ~config.autoStart
    <3>1. UNCHANGED <<config, phase, hasStarted, previousUser, timers, stored, dlg,
                      bbcUserSetWhileDisabled, userForTimer, expired, latest>>
      BY <1>5, <2>3 DEF Enable, DeliverOrStart
    <3>2. TypeOK'
      BY <1>5, <3>1 DEF Enable, TypeOK
    <3> QED
      BY <1>5, <2>3, <3>1, <3>2
         DEF Enable, IInv, TimerBelongsToItsUser, UserAwaitsTheStart,
             LatestUserIsKept, KeepsTheLatest, EventsEnabled,
             StartedDelegatesUseTheStoredDeviceId
  <2> QED
    BY <2>1, <2>2, <2>3
<1>6. CASE Disable
  <2>1. TypeOK'
    BY <1>6 DEF Disable, TypeOK
  <2> QED
    BY <1>6, <2>1
       DEF Disable, IInv, TimerBelongsToItsUser, UserAwaitsTheStart,
           LatestUserIsKept, KeepsTheLatest, EventsEnabled,
           StartedDelegatesUseTheStoredDeviceId
<1>7. ASSUME NEW t \in Tokens, ExpireToken(t)
      PROVE  IInv'
  <2>1. userForTimer \in BBCUser /\ userForTimer.token = t /\ timers' = {}
    BY <1>7 DEF ExpireToken, TypeOK, TimerBelongsToItsUser
  <2>2. TypeOK'
    BY <1>7, <2>1, TokenStateType DEF ExpireToken, lifecycle, TypeOK
  <2>3. ~KeepsTheLatest
    BY <1>7 DEF ExpireToken, IInv, LatestUserIsKept
  <2>4. dlg'.deviceId = dlg.deviceId
    BY <1>7 DEF ExpireToken, TypeOK
  <2> QED
    BY <1>7, <2>1, <2>2, <2>3, <2>4
       DEF ExpireToken, lifecycle, IInv, TimerBelongsToItsUser,
           UserAwaitsTheStart, LatestUserIsKept, KeepsTheLatest,
           StartedDelegatesUseTheStoredDeviceId
<1>8. ASSUME NEW t \in Tokens, TimePasses(t)
      PROVE  IInv'
  <2>1. TypeOK'
    BY <1>8 DEF TimePasses, lifecycle, TypeOK
  <2> QED
    BY <1>8, <2>1
       DEF TimePasses, lifecycle, IInv, TimerBelongsToItsUser,
           UserAwaitsTheStart, LatestUserIsKept, KeepsTheLatest, EventsEnabled,
           StartedDelegatesUseTheStoredDeviceId
<1>9. CASE UNCHANGED vars
  <2>1. TypeOK'
    BY <1>9 DEF vars, TypeOK
  <2> QED
    BY <1>9, <2>1
       DEF vars, IInv, TimerBelongsToItsUser, UserAwaitsTheStart,
           LatestUserIsKept, KeepsTheLatest, EventsEnabled,
           StartedDelegatesUseTheStoredDeviceId
<1> QED
  BY <1>1, <1>2, <1>3, <1>4, <1>5, <1>6, <1>7, <1>8, <1>9 DEF Next

(* The inductive invariant holds in every state the client reaches.        *)
THEOREM UserInvariance == Spec => []IInv
  BY InitInv, NextInv, PTL DEF Spec

(* Every variable keeps its type.                                          *)
THEOREM UserTypeCorrect == Spec => []TypeOK
<1>1. IInv => TypeOK
  BY DEF IInv
<1> QED
  BY <1>1, UserInvariance, PTL

(* Whatever mixture of setBBCUser, disable, enable, start and relaunch     *)
(* came before, the persisted user is the last one the app gave.           *)
THEOREM NoUserIsLost == Spec => []StoredUserIsLatest
<1>1. IInv => StoredUserIsLatest
  BY DEF IInv, LatestUserIsKept, KeepsTheLatest, StoredUserIsLatest, Running
<1> QED
  BY <1>1, UserInvariance, PTL

(* The same for the labels the delegates attach to every event.            *)
THEOREM NoUserIsMislabelled == Spec => []LabelledUserIsLatest
<1>1. IInv => LabelledUserIsLatest
  BY DEF IInv, LatestUserIsKept, KeepsTheLatest, LabelledUserIsLatest, Running
<1> QED
  BY <1>1, UserInvariance, PTL

(* A started client reports under the persisted device id, also after a    *)
(* reset that makes setBBCUser return early.                               *)
THEOREM DeviceIdIsCurrent == Spec => []DelegatesUseTheStoredDeviceId
<1>1. IInv => DelegatesUseTheStoredDeviceId
  BY DEF IInv, StartedDelegatesUseTheStoredDeviceId,
         DelegatesUseTheStoredDeviceId, Running, EventsEnabled
<1> QED
  BY <1>1, UserInvariance, PTL

(* scheduleTokenExpiry, removeSchedule and expireToken leave at most one   *)
(* timer, the one of the user it will re-label.                            *)
THEOREM TimerIsItsUsers == Spec => []TimerBelongsToItsUser
<1>1. IInv => TimerBelongsToItsUser
  BY DEF IInv
<1> QED
  BY <1>1, UserInvariance, PTL

-----------------------------------------------------------------------------
(* The refinement of LatestUser.                                           *)

(* A step that starts or resumes the service of a client that keeps the    *)
(* latest user, or that does nothing a register shows.                     *)
LEMMA ResumeSimulated ==
    ASSUME IInv, ~(KeepsTheLatest /\ Running), config' = config, latest' = latest,
           \/ KeepsTheLatest /\ Running' /\ stored'.user = latest
           \/ ~KeepsTheLatest \/ (~Running' /\ stored' = stored)
    PROVE  [StoredRegister!Next]_(StoredRegister!vars)
<1>1. KeepsTheLatest' = KeepsTheLatest
  BY DEF KeepsTheLatest
<1>2. CASE KeepsTheLatest /\ Running' /\ stored'.user = latest
  <2>1. StoredRegister!Resume
    BY <1>1, <1>2 DEF StoredRegister!Resume
  <2> QED
    BY <2>1 DEF StoredRegister!Next
<1>3. CASE ~KeepsTheLatest \/ (~Running' /\ stored' = stored)
  <2>1. UNCHANGED StoredRegister!vars
    BY <1>1, <1>3 DEF StoredRegister!vars, KeepsTheLatest, Running, EventsEnabled
  <2> QED
    BY <2>1
<1> QED
  BY <1>2, <1>3

(* Every step of the client is a step of the register or changes nothing   *)
(* the register shows.                                                     *)
LEMMA RegisterStep ==
    IInv /\ [Next]_vars => [StoredRegister!Next]_(StoredRegister!vars)
<1> SUFFICES ASSUME IInv, [Next]_vars
             PROVE  [StoredRegister!Next]_(StoredRegister!vars)
  OBVIOUS
<1> TypeOK /\ TimerBelongsToItsUser
  BY DEF IInv
<1>1. ASSUME NEW user \in Users, SetBBCUser(user)
      PROVE  StoredRegister!Next
  <2>1. config' = config /\ latest' = user /\ Running' = Running
    BY <1>1 DEF SetBBCUser, lifecycle, Running, EventsEnabled
  <2>2. CASE KeepsTheLatest /\ EventsEnabled
    <3>1. stored'.user = user
      BY <1>1, <2>2, UpdateUserEffect, UserAssumption DEF SetBBCUser, TypeOK
    <3>2. StoredRegister!Give(user)
      BY <1>1, <2>1, <2>2, <3>1
         DEF StoredRegister!Give, KeepsTheLatest, SetBBCUser, Running
    <3> QED
      BY <3>2 DEF StoredRegister!Next
  <2>3. CASE ~(KeepsTheLatest /\ EventsEnabled)
    <3>1. KeepsTheLatest => stored' = stored
      BY <1>1, <2>3 DEF SetBBCUser, KeepUserForLater
    <3>2. StoredRegister!Give(user)
      BY <2>1, <2>3, <3>1
         DEF StoredRegister!Give, KeepsTheLatest, Running
    <3> QED
      BY <3>2 DEF StoredRegister!Next
  <2> QED
    BY <2>2, <2>3
<1>2. ASSUME NEW user \in Users, Relaunch(user)
      PROVE  StoredRegister!Next
  <2>1. StoredRegister!Restart(user)
    BY <1>2 DEF Relaunch, StoredRegister!Restart, KeepsTheLatest, Running
  <2> QED
    BY <2>1 DEF StoredRegister!Next
<1>3. CASE FinishInit
  <2>1. ~hasStarted /\ ~Running
    BY <1>3 DEF FinishInit, IInv, UserAwaitsTheStart, Running
  <2>2. CASE echoEnabled /\ config.autoStart
    <3>1. StartClient
      BY <1>3, <2>2 DEF FinishInit
    <3>2. KeepsTheLatest => Running' /\ stored'.user = latest
      BY <1>3, <2>1, <2>2, <3>1, StartClientEffect, UpdateUserEffect
         DEF FinishInit, Running, EventsEnabled
    <3> QED
      BY <1>3, <2>1, <3>2, ResumeSimulated DEF FinishInit
  <2>3. CASE ~(echoEnabled /\ config.autoStart)
    BY <1>3, <2>1, <2>3, ResumeSimulated DEF FinishInit, Running, EventsEnabled
  <2> QED
    BY <2>2, <2>3
<1>4. CASE Start
  <2>1. StartClient /\ ~hasStarted /\ ~Running
    BY <1>4 DEF Start, Running, EventsEnabled
  <2>2. KeepsTheLatest => Running' /\ stored'.user = latest
    BY <1>4, <2>1, StartClientEffect, UpdateUserEffect
       DEF Start, Running, EventsEnabled
  <2> QED
    BY <1>4, <2>1, <2>2, ResumeSimulated DEF Start
<1>5. CASE Enable
  <2>1. ~Running /\ config' = config /\ latest' = latest /\ phase' = "live"
        /\ echoEnabled' = TRUE
    BY <1>5 DEF Enable, Running, EventsEnabled
  <2>2. CASE ~hasStarted /\ config.autoStart
    <3>1. StartClient
      BY <1>5, <2>2 DEF Enable, DeliverOrStart
    <3>2. KeepsTheLatest => Running' /\ stored'.user = latest
      BY <2>1, <2>2, <3>1, StartClientEffect, UpdateUserEffect
         DEF Running, EventsEnabled
    <3> QED
      BY <2>1, <3>2, ResumeSimulated
  <2>3. CASE ~hasStarted /\ ~config.autoStart
    BY <1>5, <2>1, <2>3, ResumeSimulated
       DEF Enable, DeliverOrStart, Running, EventsEnabled
  <2>4. CASE hasStarted /\ bbcUserSetWhileDisabled = NoUser
    <3>1. KeepsTheLatest => Running' /\ stored'.user = latest
      BY <1>5, <2>1, <2>4
         DEF Enable, DeliverOrStart, Running, EventsEnabled, IInv, LatestUserIsKept
    <3> QED
      BY <2>1, <3>1, ResumeSimulated
  <2>5. CASE hasStarted /\ bbcUserSetWhileDisabled # NoUser
    <3>1. UpdateUser(bbcUserSetWhileDisabled, NoUser) /\ hasStarted' = hasStarted
      BY <1>5, <2>5 DEF Enable, DeliverOrStart
    <3>2. KeepsTheLatest => Running' /\ stored'.user = latest
      BY <2>1, <2>5, <3>1, UpdateUserEffect
         DEF Running, EventsEnabled, IInv, LatestUserIsKept, TypeOK
    <3> QED
      BY <2>1, <3>2, ResumeSimulated
  <2> QED
    BY <2>2, <2>3, <2>4, <2>5
<1>6. CASE Disable
  <2>1. ~Running' /\ config' = config /\ latest' = latest /\ stored' = stored
    BY <1>6 DEF Disable, Running, EventsEnabled
  <2>2. CASE KeepsTheLatest /\ Running
    <3>1. StoredRegister!Pause
      BY <2>1, <2>2 DEF StoredRegister!Pause, KeepsTheLatest
    <3> QED
      BY <3>1 DEF StoredRegister!Next
  <2>3. CASE ~(KeepsTheLatest /\ Running)
    BY <2>1, <2>3, ResumeSimulated
  <2> QED
    BY <2>2, <2>3
<1>7. ASSUME NEW t \in Tokens, ExpireToken(t) \/ TimePasses(t)
      PROVE  UNCHANGED StoredRegister!vars
  BY <1>7 DEF ExpireToken, TimePasses, lifecycle, StoredRegister!vars,
     KeepsTheLatest, Running, EventsEnabled
<1>8. CASE UNCHANGED vars
  BY <1>8 DEF vars, StoredRegister!vars, KeepsTheLatest, Running, EventsEnabled
<1> QED
  BY <1>1, <1>2, <1>3, <1>4, <1>5, <1>6, <1>7, <1>8 DEF Next

(* The client implements the abstract register of the latest user, with    *)
(* start, enable, disable, token timers and restarts all hidden.           *)
THEOREM RegisterRefinement == Spec => ImplementsLatestUser
<1>1. Init => StoredRegister!Init
  BY DEF Init, StoredRegister!Init, KeepsTheLatest, Running
<1> QED
  BY <1>1, RegisterStep, UserInvariance, PTL
     DEF Spec, ImplementsLatestUser, StoredRegister!Spec
=============================================================================
