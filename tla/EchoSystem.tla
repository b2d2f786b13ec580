----------------------------- MODULE EchoSystem -----------------------------
(***************************************************************************)
(* The client as a whole: the user side (EchoUser) and the playback side   *)
(* (EchoPlayback) of one object.  They share echoEnabled and meet in       *)
(* enable, which switches both on and delivers a user kept in the          *)
(* meantime, in disable, which clears the media first, and in the death of *)
(* the process, which takes the media, the brokers and their timers with   *)
(* it.  Every other step belongs to one side and leaves the other alone.   *)
(***************************************************************************)
EXTENDS EchoUser

CONSTANTS OneSecond, LiveMedia, OnDemandMedia, Lengths, Positions, MaxPosition,
          Brokers, Labels, CacheModes, NoMedia, NoBroker, NoLabels,
          PauseAtLengthLabels

VARIABLES playerDelegate, media, broker, brokers, mediaActive,
          suppressingPlayEvent, suppressedPlayEventLabels, cacheMode,
          essLabels, avDlg, event, wanted

Playback == INSTANCE EchoPlayback WITH dlg <- avDlg

(* What EchoPlayback assumes of its constants.                             *)
ASSUME SystemAssumption ==
    /\ OneSecond \in Nat \ {0}
    /\ LiveMedia \cap OnDemandMedia = {}
    /\ MaxPosition \in Nat
    /\ Lengths \subseteq Nat /\ 0 \in Lengths
    /\ Positions \subseteq Nat
    /\ NoBroker \notin Brokers
    /\ NoMedia \notin Playback!MediaIds /\ NoMedia \notin Playback!MediaObject

playbackVars == <<playerDelegate, media, broker, brokers, mediaActive,
                  suppressingPlayEvent, suppressedPlayEventLabels, cacheMode,
                  essLabels, avDlg, event, wanted>>

systemVars == <<vars, playbackVars>>

SystemInit ==
    /\ Init
    /\ Playback!Init

(* The user side moves: no audio/video event is reported.                  *)
UserStep ==
    /\ \/ \E user \in Users : SetBBCUser(user)
       \/ FinishInit
       \/ Start
       \/ \E t \in Tokens : ExpireToken(t) \/ TimePasses(t)
    /\ event' = Playback!NoEvent
    /\ UNCHANGED <<playerDelegate, media, broker, brokers, mediaActive,
                   suppressingPlayEvent, suppressedPlayEventLabels, cacheMode,
                   essLabels, avDlg, wanted>>

(* The playback side moves.                                                *)
PlaybackStep ==
    /\ phase = "live"
    /\ \/ Playback!AppSetsMedia
       \/ Playback!AppReports
       \/ Playback!SetPlayerDelegate
       \/ Playback!GetComScoreDeviceID
       \/ \E mode \in CacheModes : Playback!SetCacheMode(mode)
       \/ Playback!BrokerCalls
    /\ UNCHANGED vars

EnableAll == Enable /\ Playback!Enable

DisableAll == Disable /\ Playback!Disable

(* The process dies; the next one starts with no media and no brokers.     *)
RelaunchAll(user) ==
    /\ Relaunch(user)
    /\ playerDelegate' = FALSE
    /\ media' = NoMedia
    /\ broker' = NoBroker
    /\ brokers' = [b \in Brokers |-> [id |-> NoMedia, live |-> FALSE,
                                      running |-> FALSE, pos |-> 0]]
    /\ mediaActive' = FALSE
    /\ suppressingPlayEvent' = FALSE
    /\ suppressedPlayEventLabels' = NoLabels
    /\ cacheMode' \in CacheModes
    /\ essLabels' = Playback!NoEssLabels
    /\ avDlg' = [media |-> NoMedia, broker |-> NoBroker, length |-> 0,
                 reported |-> "none", played |-> FALSE]
    /\ event' = Playback!NoEvent
    /\ wanted' = Playback!NothingWanted

SystemNext ==
    \/ UserStep
    \/ PlaybackStep
    \/ EnableAll
    \/ DisableAll
    \/ \E user \in Users : RelaunchAll(user)

SystemSpec == SystemInit /\ [][SystemNext]_systemVars

-----------------------------------------------------------------------------
(* Properties.                                                             *)

(* Every audio/video event of a started client, whether the app reports it *)
(* or a broker does, carries the labels of the user the app set last and   *)
(* the persisted device id (with ID v5 on and the reset on state change    *)
(* off): users delivered late by enable or start are there before the      *)
(* first event, and no broker reports between the two.                     *)
EventsCarryTheLatestUser ==
    event.name # "none" /\ hasStarted /\ config.idv5 /\ ~config.reset =>
        dlg.user = latest /\ dlg.deviceId = stored.deviceId

(* While the library is off or being created nothing is reported, and what *)
(* a user delivered by enable finds is a client without media and without  *)
(* running brokers: a playback is never carried over from the user before  *)
(* to the user after.                                                      *)
NothingPlaysAcrossADisable ==
    ~echoEnabled \/ phase = "init" =>
        /\ event.name = "none"
        /\ media = NoMedia
        /\ \A b \in Brokers : ~brokers[b].running
        /\ avDlg.reported # "play"
=============================================================================
