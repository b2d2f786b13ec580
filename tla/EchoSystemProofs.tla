-------------------------- MODULE EchoSystemProofs --------------------------
(***************************************************************************)
(* Theorems about EchoSystem, for every value of its constants.  The user  *)
(* side is an EchoUser and the playback side keeps the inductive invariant *)
(* of EchoPlaybackProofs, so the system's invariant is the conjunction of  *)
(* the two with what joins them: a client that is off, or still in its     *)
(* initialiser, reports nothing and has no media.                          *)
(*                                                                         *)
(* PP names the theorems of the playback side.  Playback, in EchoSystem,   *)
(* is the same module with the same substitution, but the provers take the *)
(* two for different operators, and the first lemmas say they are equal.   *)
(***************************************************************************)
EXTENDS EchoSystem, EchoUserProofs, TLAPS

PP == INSTANCE EchoPlaybackProofs WITH dlg <- avDlg

(* A client that is off or being created is silent and has no media.       *)
OffIsSilent ==
    /\ ~echoEnabled \/ phase = "init" => event.name = "none"
    /\ phase = "init" => media = NoMedia

(* The inductive invariant.                                                *)
SystemInv ==
    /\ IInv
    /\ PP!IInv
    /\ OffIsSilent

-----------------------------------------------------------------------------
(* The actions EchoSystem takes from EchoPlayback are those the theorems   *)
(* of EchoPlaybackProofs are about.                                        *)

(* The fields of a new client.                                             *)
LEMMA SameInit == Playback!Init => PP!Init
  BY DEF Playback!Init, PP!Init, Playback!NoEvent, PP!NoEvent,
         Playback!NoEssLabels, PP!NoEssLabels, Playback!EssKeys, PP!EssKeys,
         Playback!NothingWanted, PP!NothingWanted

(* setMedia and setMediaLength.                                            *)
LEMMA SameAppSetsMedia == Playback!AppSetsMedia => PP!AppSetsMedia
  BY DEF Playback!AppSetsMedia, PP!AppSetsMedia, Playback!SetMedia,
         PP!SetMedia, Playback!SetMediaLength, PP!SetMediaLength,
         Playback!InitBroker, PP!InitBroker, Playback!IsFree, PP!IsFree,
         Playback!StopBroker, PP!StopBroker, Playback!NewMedia, PP!NewMedia,
         Playback!LabelsAfterSetMedia, PP!LabelsAfterSetMedia,
         Playback!NoEssLabels, PP!NoEssLabels, Playback!EssKeys, PP!EssKeys,
         Playback!TellDelegates, PP!TellDelegates, Playback!NoEvent,
         PP!NoEvent, Playback!NothingWanted, PP!NothingWanted

(* avPlayEvent.                                                            *)
LEMMA SameAvPlayEvent ==
    ASSUME NEW p, NEW l, NEW s, Playback!AvPlayEvent(p, l, s)
    PROVE  PP!AvPlayEvent(p, l, s)
  BY DEF Playback!AvPlayEvent, PP!AvPlayEvent, Playback!PlayExceedsLength,
         PP!PlayExceedsLength, Playback!PositionExceedsMediaLength,
         PP!PositionExceedsMediaLength, Playback!BrokersAfterPlay,
         PP!BrokersAfterPlay, Playback!StartBroker, PP!StartBroker,
         Playback!HoldPlay, PP!HoldPlay, Playback!ReportPlay, PP!ReportPlay,
         Playback!PlayPosition, PP!PlayPosition, Playback!Reportable,
         PP!Reportable, Playback!Report, PP!Report, Playback!NoEvent,
         PP!NoEvent

(* The other audio/video events.                                           *)
LEMMA SameAvEvents ==
    ASSUME NEW p, NEW l
    PROVE  /\ Playback!AvPauseEvent(p, l) => PP!AvPauseEvent(p, l)
           /\ Playback!AvBufferEvent(p, l) => PP!AvBufferEvent(p, l)
           /\ Playback!AvMoveEvent(p, l) => PP!AvMoveEvent(p, l)
           /\ Playback!AvEndEvent(p, l) => PP!AvEndEvent(p, l)
           /\ Playback!AvUserActionEvent(p, l) => PP!AvUserActionEvent(p, l)
  BY DEF Playback!AvPauseEvent, PP!AvPauseEvent, Playback!AvBufferEvent,
         PP!AvBufferEvent, Playback!AvMoveEvent, PP!AvMoveEvent,
         Playback!AvEndEvent, PP!AvEndEvent, Playback!AvUserActionEvent,
         PP!AvUserActionEvent, Playback!Reportable, PP!Reportable,
         Playback!Report, PP!Report, Playback!NoEvent, PP!NoEvent,
         Playback!AvNavigationEvent, PP!AvNavigationEvent,
         Playback!StopBroker, PP!StopBroker, Playback!AvPosition,
         PP!AvPosition, Playback!PreventPositionExceedingMediaLength,
         PP!PreventPositionExceedingMediaLength,
         Playback!PositionExceedsMediaLength, PP!PositionExceedsMediaLength

(* What the app reports.                                                   *)
LEMMA SameAppReports == Playback!AppReports => PP!AppReports
  BY SameAvPlayEvent, SameAvEvents
     DEF Playback!AppReports,
         PP!AppReports, Playback!Request, PP!Request, Playback!IgnoredEvent,
         PP!IgnoredEvent, Playback!Reportable, PP!Reportable,
         Playback!NoEvent, PP!NoEvent

(* What the app configures.                                                *)
LEMMA SameAppConfigures ==
    /\ Playback!SetPlayerDelegate => PP!SetPlayerDelegate
    /\ Playback!GetComScoreDeviceID => PP!GetComScoreDeviceID
    /\ \A mode \in CacheModes : Playback!SetCacheMode(mode) => PP!SetCacheMode(mode)
    /\ Playback!Enable => PP!Enable
    /\ Playback!Disable => PP!Disable
  BY DEF Playback!SetPlayerDelegate, PP!SetPlayerDelegate,
         Playback!GetComScoreDeviceID, PP!GetComScoreDeviceID,
         Playback!SetCacheMode, PP!SetCacheMode, Playback!Enable, PP!Enable,
         Playback!Disable, PP!Disable, Playback!ClearMedia, PP!ClearMedia,
         Playback!StopBroker, PP!StopBroker, Playback!NoEssLabels,
         PP!NoEssLabels, Playback!EssKeys, PP!EssKeys, Playback!NoEvent,
         PP!NoEvent

(* The calls of a broker.                                                  *)
LEMMA SameBrokerCalls == Playback!BrokerCalls => PP!BrokerCalls
<1>1. ASSUME NEW b \in Brokers
      PROVE  /\ Playback!PlayheadAdvances(b) => PP!PlayheadAdvances(b)
             /\ Playback!LiveMediaUpdate(b) => PP!LiveMediaUpdate(b)
             /\ Playback!LiveTimestampUpdate(b) => PP!LiveTimestampUpdate(b)
             /\ Playback!SetEssSuccess(b) => PP!SetEssSuccess(b)
             /\ Playback!SetEssError(b) => PP!SetEssError(b)
    BY <1>1 DEF Playback!PlayheadAdvances, PP!PlayheadAdvances,
           Playback!LiveMediaUpdate, PP!LiveMediaUpdate,
           Playback!LiveTimestampUpdate, PP!LiveTimestampUpdate,
           Playback!SetEssSuccess, PP!SetEssSuccess, Playback!SetEssError,
           PP!SetEssError, Playback!AddEssLabels, PP!AddEssLabels,
           Playback!RunningLive, PP!RunningLive, Playback!EssKeys,
           PP!EssKeys, Playback!NoEvent, PP!NoEvent
<1>2. ASSUME NEW b \in Brokers, Playback!ReleaseSuppressedPlay(b)
      PROVE  PP!ReleaseSuppressedPlay(b)
    BY <1>2, SameAvPlayEvent DEF Playback!ReleaseSuppressedPlay,
           PP!ReleaseSuppressedPlay, Playback!RunningLive, PP!RunningLive,
           Playback!NoEvent, PP!NoEvent
<1>3. ASSUME NEW b \in Brokers
      PROVE  /\ Playback!SendHeartbeat(b) => PP!SendHeartbeat(b)
             /\ Playback!PauseAtMediaLength(b) => PP!PauseAtMediaLength(b)
    BY <1>3, SameAvEvents DEF Playback!SendHeartbeat, PP!SendHeartbeat,
           Playback!PauseAtMediaLength, PP!PauseAtMediaLength,
           Playback!RunningOnDemand, PP!RunningOnDemand
<1> QED
  BY <1>1, <1>2, <1>3 DEF Playback!BrokerCalls, PP!BrokerCalls

(* A step of the playback side, enable and disable are steps of an         *)
(* EchoPlayback.                                                           *)
LEMMA PlaybackSideSteps == PlaybackStep \/ EnableAll \/ DisableAll => PP!Next
  BY SameAppSetsMedia, SameAppReports, SameAppConfigures, SameBrokerCalls
     DEF PlaybackStep, EnableAll, DisableAll, PP!Next, PP!AppConfigures

(* The constants of the system are constants of an EchoPlayback, so its    *)
(* lemmas apply.                                                           *)
LEMMA PlaybackFacts ==
    /\ PP!Init => PP!IInv
    /\ PP!IInv /\ [PP!Next]_(PP!vars) => PP!IInv'
    /\ PP!IInv /\ PP!Next => event' = PP!NoEvent \/ echoEnabled
    /\ PP!IInv /\ event' = PP!NoEvent
       /\ UNCHANGED <<echoEnabled, playerDelegate, media, broker, brokers,
                      mediaActive, suppressingPlayEvent,
                      suppressedPlayEventLabels, cacheMode, essLabels, avDlg,
                      wanted>>
       => PP!IInv'
<1> USE SystemAssumption
    DEF Playback!MediaIds, Playback!MediaObject, PP!MediaIds, PP!MediaObject
<1>1. PP!Init => PP!IInv
  BY PP!InitInv
<1>2. PP!IInv /\ [PP!Next]_(PP!vars) => PP!IInv'
  BY PP!NextInv
<1>3. PP!IInv /\ PP!Next => event' = PP!NoEvent \/ echoEnabled
  BY PP!ReportsNeedEnabled
<1>4. ASSUME PP!IInv, event' = PP!NoEvent,
             UNCHANGED <<echoEnabled, playerDelegate, media, broker, brokers,
                         mediaActive, suppressingPlayEvent,
                         suppressedPlayEventLabels, cacheMode, essLabels, avDlg,
                         wanted>>
      PROVE  PP!IInv'
  BY <1>4, PP!SilentStep
<1> QED
  BY <1>1, <1>2, <1>3, <1>4

-----------------------------------------------------------------------------
(* Every step of the system is a step of an EchoUser or leaves it alone.   *)
LEMMA UserSideSteps == [SystemNext]_systemVars => [Next]_vars
  BY DEF SystemNext, systemVars, UserStep, PlaybackStep, EnableAll, DisableAll,
         RelaunchAll, Next

(* The invariant holds when the first client has been created.             *)
LEMMA SystemInitInv == SystemInit => SystemInv
<1> SUFFICES ASSUME SystemInit PROVE SystemInv
  OBVIOUS
<1>1. IInv
  BY InitInv DEF SystemInit
<1>2. PP!Init
  BY SameInit DEF SystemInit
<1>3. OffIsSilent
  BY <1>2 DEF PP!Init, PP!NoEvent, OffIsSilent
<1> QED
  BY <1>1, <1>2, <1>3, PlaybackFacts DEF SystemInv

(* The next process starts with a playback side as the first one did.      *)
LEMMA RelaunchInv ==
    ASSUME IInv, NEW user \in Users, RelaunchAll(user)
    PROVE  PP!IInv' /\ OffIsSilent'
<1>1. echoEnabled' \in BOOLEAN
  BY DEF RelaunchAll, Relaunch, IInv, TypeOK, Config
<1>2. PP!Init'
  BY <1>1 DEF RelaunchAll, Playback!Init, PP!Init, Playback!NoEvent, PP!NoEvent,
         Playback!NoEssLabels, PP!NoEssLabels, Playback!EssKeys, PP!EssKeys,
         Playback!NothingWanted, PP!NothingWanted
<1>3. (PP!Init => PP!IInv)'
  BY PlaybackFacts, PTL
<1>4. OffIsSilent'
  BY DEF RelaunchAll, Playback!NoEvent, OffIsSilent
<1> QED
  BY <1>2, <1>3, <1>4

(* Every step of the system keeps the invariant.                           *)
LEMMA SystemNextInv == SystemInv /\ [SystemNext]_systemVars => SystemInv'
<1> SUFFICES ASSUME SystemInv, [SystemNext]_systemVars PROVE SystemInv'
  OBVIOUS
<1>1. IInv /\ PP!IInv /\ OffIsSilent
  BY DEF SystemInv
<1>2. IInv'
  BY <1>1, UserSideSteps, NextInv
<1>3. CASE UserStep
  <2>1. echoEnabled' = echoEnabled
    BY <1>3 DEF UserStep, SetBBCUser, FinishInit, Start, ExpireToken, TimePasses,
                lifecycle
  <2>2. event' = PP!NoEvent
    BY <1>3 DEF UserStep, Playback!NoEvent, PP!NoEvent
  <2>3. PP!IInv'
    BY <1>1, <1>3, <2>1, <2>2, PlaybackFacts DEF UserStep
  <2>4. phase' = "init" => phase = "init"
    BY <1>3 DEF UserStep, SetBBCUser, FinishInit, Start, ExpireToken, TimePasses,
                lifecycle
  <2>5. OffIsSilent'
    BY <1>1, <1>3, <2>2, <2>4 DEF UserStep, PP!NoEvent, OffIsSilent
  <2> QED
    BY <1>2, <2>3, <2>5 DEF SystemInv
<1>4. CASE PlaybackStep
  <2>1. PP!IInv' /\ (event' = PP!NoEvent \/ echoEnabled)
    BY <1>1, <1>4, PlaybackSideSteps, PlaybackFacts
  <2>2. OffIsSilent'
    BY <1>4, <2>1 DEF PlaybackStep, vars, PP!NoEvent, OffIsSilent
  <2> QED
    BY <1>2, <2>1, <2>2 DEF SystemInv
<1>5. CASE EnableAll \/ DisableAll
  <2>1. PP!IInv'
    BY <1>1, <1>5, PlaybackSideSteps, PlaybackFacts
  <2>2. event' = PP!NoEvent /\ phase' = "live"
    BY <1>5 DEF EnableAll, DisableAll, Enable, Disable, Playback!Enable,
                Playback!Disable, Playback!NoEvent, PP!NoEvent
  <2>3. OffIsSilent'
    BY <2>2 DEF PP!NoEvent, OffIsSilent
  <2> QED
    BY <1>2, <2>1, <2>3 DEF SystemInv
<1>6. ASSUME NEW user \in Users, RelaunchAll(user)
      PROVE  SystemInv'
  BY <1>1, <1>2, <1>6, RelaunchInv DEF SystemInv
<1>7. CASE UNCHANGED systemVars
  <2>1. UNCHANGED PP!vars
    BY <1>7 DEF systemVars, vars, playbackVars, PP!vars
  <2>2. PP!IInv'
    BY <1>1, <2>1, PlaybackFacts
  <2>3. OffIsSilent'
    BY <1>1, <1>7 DEF systemVars, vars, playbackVars, OffIsSilent
  <2> QED
    BY <1>2, <2>2, <2>3 DEF SystemInv
<1> QED
  BY <1>3, <1>4, <1>5, <1>6, <1>7 DEF SystemNext

(* The inductive invariant holds in every state of the composed client.    *)
THEOREM SystemInvariance == SystemSpec => []SystemInv
  BY SystemInitInv, SystemNextInv, PTL DEF SystemSpec

(* The composed client is an EchoUser: enable and disable do to the user   *)
(* side what they do when there is no playback, so the theorems of         *)
(* EchoUserProofs, the refinement of LatestUser included, hold of it too.  *)
THEOREM SystemIsAUser == SystemSpec => Spec
<1>1. SystemInit => Init
  BY DEF SystemInit
<1> QED
  BY <1>1, UserSideSteps, PTL DEF SystemSpec, Spec

(* What is proved of the playback side alone holds with users coming and   *)
(* going and processes dying: only the client's broker runs, no callback   *)
(* reports a play nobody asked for, no label of the stream outlives its    *)
(* media, and the delegates follow the client.                             *)
THEOREM PlaybackStaysSafe ==
    SystemSpec => [](/\ Playback!OnlyTheCurrentBrokerRuns
                     /\ Playback!ReportedPlayWasRequested
                     /\ Playback!LabelsDescribeTheMedia
                     /\ Playback!DelegatesFollowTheClient)
<1>1. SystemInv => /\ Playback!OnlyTheCurrentBrokerRuns
                   /\ Playback!ReportedPlayWasRequested
                   /\ Playback!LabelsDescribeTheMedia
                   /\ Playback!DelegatesFollowTheClient
  BY DEF SystemInv, PP!IInv, PP!PlayingIsActive,
         Playback!OnlyTheCurrentBrokerRuns, PP!OnlyTheCurrentBrokerRuns,
         Playback!ReportedPlayWasRequested,
         Playback!LabelsDescribeTheMedia, PP!LabelsDescribeTheMedia,
         Playback!NoEssLabels, PP!NoEssLabels, Playback!EssKeys, PP!EssKeys,
         Playback!DelegatesFollowTheClient, PP!DelegatesFollowTheClient
<1> QED
  BY <1>1, SystemInvariance, PTL

(* While the library is off or being created nothing is reported and there *)
(* is no media and no running broker for the next user to inherit.         *)
THEOREM NothingIsCarriedOver == SystemSpec => []NothingPlaysAcrossADisable
<1>1. SystemInv => NothingPlaysAcrossADisable
  <2> SUFFICES ASSUME SystemInv, ~echoEnabled \/ phase = "init"
               PROVE  /\ event.name = "none"
                      /\ media = NoMedia
                      /\ \A b \in Brokers : ~brokers[b].running
                      /\ avDlg.reported # "play"
    BY DEF NothingPlaysAcrossADisable
  <2>1. event.name = "none" /\ media = NoMedia
    BY DEF SystemInv, OffIsSilent, PP!IInv, PP!BrokerServesTheMedia
  <2>2. \A b \in Brokers : ~brokers[b].running
    BY <2>1 DEF SystemInv, PP!IInv, PP!OnlyTheCurrentBrokerRuns
  <2>3. avDlg.reported # "play"
    BY <2>1 DEF SystemInv, PP!IInv, PP!PlayingIsActive, PP!Reportable
  <2> QED
    BY <2>1, <2>2, <2>3
<1> QED
  BY <1>1, SystemInvariance, PTL

(* Every audio/video event of a started client, from the app or from a     *)
(* broker, carries the labels of the latest user and the stored device id. *)
THEOREM EventsNameTheLatestUser == SystemSpec => []EventsCarryTheLatestUser
<1>1. SystemInv => EventsCarryTheLatestUser
  <2> SUFFICES ASSUME SystemInv, event.name # "none", hasStarted, config.idv5,
                      ~config.reset
               PROVE  dlg.user = latest /\ dlg.deviceId = stored.deviceId
    BY DEF EventsCarryTheLatestUser
  <2>1. EventsEnabled
    BY DEF SystemInv, OffIsSilent, EventsEnabled
  <2> QED
    BY <2>1 DEF SystemInv, IInv, LatestUserIsKept, KeepsTheLatest,
                StartedDelegatesUseTheStoredDeviceId
<1> QED
  BY <1>1, SystemInvariance, PTL
=============================================================================
