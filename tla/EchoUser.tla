------------------------------ MODULE EchoUser ------------------------------
(***************************************************************************)
(* The user side of EchoClient: starting, enabling and disabling the       *)
(* library, the BBC user the app signs in and out, the identity the        *)
(* UserPromiseHelper keeps in persistent storage, and the timer that       *)
(* re-evaluates the user's labels when the token expires.                  *)
(*                                                                         *)
(* The passing of time puts tokens in the set expired.  Each public method *)
(* and each timer callback is one action; the process may die between any  *)
(* two of them, which loses everything but the persistent storage.         *)
(***************************************************************************)
EXTENDS EchoIdentity

CONSTANTS HardwareId,     \* the device id delegates are created with
          Configs         \* the configurations the app may choose from

(* The options that matter here.  The reset on user state change is only   *)
(* read when ID v5 is on.                                                  *)
Config == {c \in [enabled : BOOLEAN, autoStart : BOOLEAN, idv5 : BOOLEAN,
                  reset : BOOLEAN] : c.reset => c.idv5}

ASSUME ConfigAssumption == Configs \subseteq Config

VARIABLES
  config,      \* the options read once, when the client is created
  phase,       \* "init" while the initialiser of EchoClient runs, then "live"
  echoEnabled,
  hasStarted,
  previousUser,
  bbcUserSetWhileDisabled,
  userForTimer,
  timers,      \* the tokens for whose expiry a valid Timer is in the run loop
  expired,     \* the tokens whose time has passed
  stored,      \* UserPromiseHelper: the persisted user and device id, and the
               \* persisted transition that has not been sent yet
  dlg,         \* what the delegates have been told about the user
  latest       \* history: the last user the app gave the client

vars == <<config, phase, echoEnabled, hasStarted, previousUser,
          bbcUserSetWhileDisabled, userForTimer, timers, expired, stored, dlg,
          latest>>

lifecycle == <<config, phase, echoEnabled, hasStarted>>

EventsEnabled == echoEnabled /\ hasStarted

(* BBCUser.tokenState()                                                    *)
TokenState(user) ==
    IF user = NoUser \/ user.token = NoToken THEN "validNoTimestamp"
    ELSE IF user.token \in expired THEN "expired" ELSE "valid"

-----------------------------------------------------------------------------
(* Device ids only matter up to "the same" and "a new one".                *)
NewDeviceId(reason) ==
    IF reason = NoReason THEN stored.deviceId ELSE 1 - stored.deviceId

-----------------------------------------------------------------------------
(* The token timer.                                                        *)

\* Mutant: scheduling a new timer leaves the old one in the run loop.
KeepSchedule == timers

RemoveSchedule == {}

ScheduleTokenExpiry(user) ==
    /\ userForTimer' = user
    /\ timers' = RemoveSchedule \cup
                 (IF TokenState(user) = "valid" THEN {user.token} ELSE {})

\* Mutant: a user without a timestamp gets a timer as well.
ScheduleEveryUser(user, previous) ==
    IF TokenState(user) # "expired"
    THEN userForTimer' = user /\ timers' = {user.token}
    ELSE /\ timers' = IF TokenState(previous) # "expired" THEN RemoveSchedule
                      ELSE timers
         /\ UNCHANGED userForTimer

(* resetUserData; clearing the delegates' caches leaves no state here.     *)
ResetUserData(user, previous) ==
    IF TokenState(user) = "valid" THEN ScheduleTokenExpiry(user)
    ELSE /\ timers' = IF TokenState(user) = "expired" /\ TokenState(previous) # "expired"
                      THEN RemoveSchedule ELSE timers
         /\ UNCHANGED userForTimer

ExpireToken(t) ==
    /\ phase = "live"
    /\ t \in timers
    /\ t \in expired
    /\ dlg' = IF userForTimer = NoUser THEN dlg
              ELSE [dlg EXCEPT !.user = userForTimer,
                               !.tokenState = TokenState(userForTimer)]
    /\ userForTimer' = NoUser
    /\ timers' = timers \ {t}
    /\ UNCHANGED <<lifecycle, previousUser, bbcUserSetWhileDisabled, expired,
                   stored, latest>>

TimePasses(t) ==
    /\ t \notin expired
    /\ expired' = expired \cup {t}
    /\ UNCHANGED <<lifecycle, previousUser, bbcUserSetWhileDisabled,
                   userForTimer, timers, stored, dlg, latest>>

-----------------------------------------------------------------------------
(* Setting the user.                                                       *)

(* Reset by the user's change of state: the event is postponed to the next *)
(* start and setBBCUser returns before its last two assignments.           *)
PostponesStateChange(result) ==
    config.reset /\ result.reason = "userStateChange"

\* Mutant: the delegates are not told the new device id.
PostponeWithoutDeviceId(user, result, leftover) ==
    /\ stored' = [user |-> user, deviceId |-> NewDeviceId(result.reason),
                  postponed |-> result.transition]
    /\ dlg' = [dlg EXCEPT !.stateChanged = TRUE]
    /\ previousUser' = IF previousUser = NoUser THEN stored.user ELSE previousUser
    /\ bbcUserSetWhileDisabled' = leftover

PostponeStateChange(user, result, leftover) ==
    /\ stored' = [user |-> user, deviceId |-> NewDeviceId(result.reason),
                  postponed |-> result.transition]
    /\ dlg' = [dlg EXCEPT !.deviceId = NewDeviceId(result.reason),
                          !.stateChanged = TRUE]
    /\ previousUser' = IF previousUser = NoUser THEN stored.user ELSE previousUser
    /\ bbcUserSetWhileDisabled' = leftover

\* Mutant: the user's labels are only refreshed when there is an event to send.
RelabelOnEventOnly(user, result) ==
    /\ stored' = [user |-> user, deviceId |-> NewDeviceId(result.reason),
                  postponed |-> IF result.postponed THEN "none" ELSE stored.postponed]
    /\ dlg' = IF result.transition = "none"
              THEN [dlg EXCEPT !.deviceId = NewDeviceId(result.reason)]
              ELSE [dlg EXCEPT !.user = user, !.tokenState = TokenState(user),
                               !.deviceId = NewDeviceId(result.reason)]
    /\ previousUser' = user
    /\ bbcUserSetWhileDisabled' = NoUser

\* Mutant: the user kept for later is not forgotten once it has been set.
AcceptUserKeepPending(user, result) ==
    /\ stored' = [user |-> user, deviceId |-> NewDeviceId(result.reason),
                  postponed |-> IF result.postponed THEN "none" ELSE stored.postponed]
    /\ dlg' = [dlg EXCEPT !.user = user, !.tokenState = TokenState(user),
                          !.deviceId = NewDeviceId(result.reason)]
    /\ previousUser' = user
    /\ UNCHANGED bbcUserSetWhileDisabled

(* The normal end of setBBCUser: the delegates' user labels are updated,   *)
(* the event is sent and a postponed transition that was sent is cleared.  *)
AcceptUser(user, result) ==
    /\ stored' = [user |-> user, deviceId |-> NewDeviceId(result.reason),
                  postponed |-> IF result.postponed THEN "none" ELSE stored.postponed]
    /\ dlg' = [dlg EXCEPT !.user = user, !.tokenState = TokenState(user),
                          !.deviceId = NewDeviceId(result.reason)]
    /\ previousUser' = user
    /\ bbcUserSetWhileDisabled' = NoUser

(* setBBCUser once events are enabled.  leftover is what becomes of        *)
(* bbcUserSetWhileDisabled when setBBCUser returns early.  There is no     *)
(* previous user only when the helper is asked for the first time in this  *)
(* launch.                                                                 *)
UpdateUser(user, leftover) ==
    IF ~config.idv5
    THEN /\ previousUser' = user
         /\ bbcUserSetWhileDisabled' = leftover
         /\ UNCHANGED <<userForTimer, timers, stored, dlg>>
    ELSE \E result \in HelperResult(stored.user, stored.postponed, user,
                                      previousUser = NoUser) :
           /\ IF config.reset
              THEN ResetUserData(user, IF previousUser = NoUser THEN stored.user
                                       ELSE previousUser)
              ELSE UNCHANGED <<userForTimer, timers>>
           /\ IF PostponesStateChange(result)
              THEN PostponeStateChange(user, result, leftover)
              ELSE AcceptUser(user, result)

KeepUserForLater(user) ==
    /\ bbcUserSetWhileDisabled' = user
    /\ UNCHANGED <<previousUser, userForTimer, timers, stored, dlg>>

SetBBCUser(user) ==
    /\ phase = "live"
    /\ latest' = user
    /\ IF EventsEnabled
       THEN UpdateUser(user, bbcUserSetWhileDisabled)
       ELSE KeepUserForLater(user)
    /\ UNCHANGED <<lifecycle, expired>>

-----------------------------------------------------------------------------
(* Lifecycle.                                                              *)

(* start, once its guards have passed.                                     *)
StartClient ==
    /\ hasStarted' = TRUE
    /\ IF bbcUserSetWhileDisabled = NoUser
       THEN UNCHANGED <<previousUser, bbcUserSetWhileDisabled, userForTimer,
                        timers, stored, dlg>>
       ELSE UpdateUser(bbcUserSetWhileDisabled, bbcUserSetWhileDisabled)

Start ==
    /\ phase = "live"
    /\ echoEnabled
    /\ ~hasStarted
    /\ StartClient
    /\ UNCHANGED <<config, phase, echoEnabled, expired, latest>>

(* What enable does after the flag and the delegates are switched on.      *)
DeliverOrStart ==
    IF hasStarted
    THEN /\ IF bbcUserSetWhileDisabled = NoUser
            THEN UNCHANGED <<previousUser, bbcUserSetWhileDisabled,
                             userForTimer, timers, stored, dlg>>
            ELSE UpdateUser(bbcUserSetWhileDisabled, NoUser)
         /\ UNCHANGED hasStarted
    ELSE IF config.autoStart THEN StartClient
    ELSE UNCHANGED <<hasStarted, previousUser, bbcUserSetWhileDisabled,
                     userForTimer, timers, stored, dlg>>

Enable ==
    /\ phase = "live"
    /\ ~echoEnabled
    /\ echoEnabled' = TRUE
    /\ DeliverOrStart
    /\ UNCHANGED <<config, phase, expired, latest>>

\* Mutant: disabling cancels the timer, and nothing schedules it again.
DisableCancelsTimer ==
    /\ phase = "live"
    /\ echoEnabled
    /\ echoEnabled' = FALSE
    /\ timers' = {}
    /\ UNCHANGED <<config, phase, hasStarted, previousUser,
                   bbcUserSetWhileDisabled, userForTimer, expired, stored, dlg,
                   latest>>

Disable ==
    /\ phase = "live"
    /\ echoEnabled
    /\ echoEnabled' = FALSE
    /\ UNCHANGED <<config, phase, hasStarted, previousUser, bbcUserSetWhileDisabled,
                   userForTimer, timers, expired, stored, dlg, latest>>

(* The initialiser up to the validation of the configuration: the options  *)
(* are read, the user is kept for start(), the delegates are created with  *)
(* the user and the hardware's device id.                                  *)
FreshDelegates(user) ==
    [user |-> user, tokenState |-> TokenState(user), deviceId |-> HardwareId,
     stateChanged |-> FALSE]

(* The rest of the initialiser.                                            *)
FinishInit ==
    /\ phase = "init"
    /\ phase' = "live"
    /\ IF echoEnabled /\ config.autoStart THEN StartClient
       ELSE UNCHANGED <<hasStarted, previousUser, bbcUserSetWhileDisabled,
                        userForTimer, timers, stored, dlg>>
    /\ UNCHANGED <<config, echoEnabled, expired, latest>>

(* The process dies and is launched again with some user: only what the    *)
(* helper persisted survives.                                              *)
Relaunch(user) ==
    /\ phase' = "init"
    /\ echoEnabled' = config.enabled
    /\ hasStarted' = FALSE
    /\ previousUser' = NoUser
    /\ bbcUserSetWhileDisabled' = user
    /\ userForTimer' = NoUser
    /\ timers' = {}
    /\ dlg' = FreshDelegates(user)
    /\ latest' = user
    /\ UNCHANGED <<config, expired, stored>>

Init ==
    /\ config \in Configs
    /\ phase = "init"
    /\ echoEnabled = config.enabled
    /\ hasStarted = FALSE
    /\ previousUser = NoUser
    /\ latest \in Users
    /\ bbcUserSetWhileDisabled = latest
    /\ userForTimer = NoUser
    /\ timers = {}
    /\ expired = {}
    /\ stored = [user |-> NoUser, deviceId |-> 0, postponed |-> "none"]
    /\ dlg = FreshDelegates(latest)

Next ==
    \/ \E user \in Users : SetBBCUser(user)
    \/ \E user \in Users : Relaunch(user)
    \/ FinishInit
    \/ Start
    \/ Enable
    \/ Disable
    \/ \E t \in Tokens : ExpireToken(t)
    \/ \E t \in Tokens : TimePasses(t)

(* A Timer in the run loop fires once its time has come.                   *)
Spec == Init /\ [][Next]_vars
FairSpec == Spec /\ \A t \in Tokens : WF_vars(ExpireToken(t))

-----------------------------------------------------------------------------
(* Properties.                                                             *)

Running == phase = "live" /\ EventsEnabled

(* Every variable has its type.                                            *)
TypeOK ==
    /\ config \in Config
    /\ phase \in {"init", "live"}
    /\ echoEnabled \in BOOLEAN
    /\ hasStarted \in BOOLEAN
    /\ previousUser \in BBCUser \cup {NoUser}
    /\ bbcUserSetWhileDisabled \in BBCUser \cup {NoUser}
    /\ userForTimer \in BBCUser \cup {NoUser}
    /\ timers \subseteq Tokens
    /\ expired \subseteq Tokens
    /\ stored \in [user : BBCUser \cup {NoUser}, deviceId : {0, 1},
                   postponed : Transitions]
    /\ dlg \in [user : BBCUser,
                tokenState : {"valid", "expired", "validNoTimestamp"},
                deviceId : {0, 1, HardwareId}, stateChanged : BOOLEAN]
    /\ latest \in BBCUser

(* A user is never lost on the way: whatever mixture of disable, enable,   *)
(* start, relaunch and setBBCUser came before, once events are enabled the *)
(* persisted user is the last one the app gave (with ID v5 on and the      *)
(* reset on state change off).                                             *)
StoredUserIsLatest ==
    Running /\ config.idv5 /\ ~config.reset => stored.user = latest

(* The same for the labels the delegates attach to every event.            *)
LabelledUserIsLatest ==
    Running /\ config.idv5 /\ ~config.reset => dlg.user = latest

(* A delegate never reports under a device id other than the persisted     *)
(* one, not even when setBBCUser returns early.                            *)
DelegatesUseTheStoredDeviceId ==
    Running /\ config.idv5 => dlg.deviceId = stored.deviceId

(* The timer in the run loop, if any, is the one of the user it will       *)
(* re-label, and there is at most one: no user is labelled as expired      *)
(* before its own token has expired.                                       *)
TimerBelongsToItsUser ==
    \A t \in timers : userForTimer # NoUser /\ userForTimer.token = t

(* With ID v5 on and the reset on state change off, the client implements  *)
(* the register of LatestUser in the user it persists: users kept while    *)
(* disabled or before start, their delivery by whichever of start, enable  *)
(* and the initialiser comes first, token timers and restarts are          *)
(* invisible, and nothing reaches the storage while events are off.  A     *)
(* client with other options is a register that never runs.                *)
KeepsTheLatest == config.idv5 /\ ~config.reset
StoredRegister ==
    INSTANCE LatestUser WITH
        running <- KeepsTheLatest /\ Running,
        given <- latest,
        inEffect <- IF KeepsTheLatest THEN stored.user ELSE NoUser
ImplementsLatestUser == StoredRegister!Spec

(* A user whose labels were given with a valid token is labelled again     *)
(* once the token has expired (with the reset on state change on, unless   *)
(* a state change has taken the delegates out of service).                 *)
ExpiredTokenIsRelabelled ==
    \A t \in Tokens :
        (/\ phase = "live" /\ config.reset /\ ~dlg.stateChanged
         /\ dlg.tokenState = "valid" /\ dlg.user.token = t /\ hasStarted
         /\ t \in expired)
        ~> \/ dlg.tokenState # "valid" \/ dlg.user.token # t
           \/ dlg.stateChanged \/ phase = "init"

-----------------------------------------------------------------------------
(* What the repository says of the program and the code does not do.       *)

(* The comment at the end of setBBCUser: once a user has been set, no user *)
(* kept from before start() is pending; so enable() never puts back a user *)
(* the app has replaced.                                                   *)
NoUserIsPutBack == Running /\ config.idv5 => stored.user = latest

(* testSetNewUserShouldUpdateBBCUserLabels: the delegates' labels are      *)
(* those of the user that was set last, also after the timer of an earlier *)
(* user has fired.                                                         *)
NewUserIsLabelled ==
    Running /\ config.idv5 /\ ~dlg.stateChanged => dlg.user = latest
=============================================================================
