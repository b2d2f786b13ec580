---------------------------- MODULE EchoPlayback ----------------------------
(***************************************************************************)
(* The playback side of EchoClient: the media being measured, the broker   *)
(* that follows its position, the audio/video events the app reports and   *)
(* the calls the broker makes back into the client.  Every public method   *)
(* and every callback runs to completion on the main run loop, so each is  *)
(* one action; what interleaves is the order in which the app and the      *)
(* timers of the brokers call.                                             *)
(*                                                                         *)
(* All delegates receive the same calls in the same order, so one record,  *)
(* dlg, stands for what each of them has been told.                        *)
(***************************************************************************)
EXTENDS EchoPosition

CONSTANTS LiveMedia,       \* the live media the app may set
          OnDemandMedia,   \* the on-demand media the app may set
          Lengths,         \* media lengths the app may give (0: not known)
          Positions,       \* positions the app may give
          MaxPosition,     \* bound: a broker's playhead stops counting here
          Brokers,         \* broker objects
          Labels,          \* event labels the app may give
          CacheModes,      \* offline, all
          NoMedia, NoBroker, NoLabels, PauseAtLengthLabels

MediaIds == LiveMedia \cup OnDemandMedia

(* The labels clearMedia removes, except ESSEnriched, which the client     *)
(* never adds.                                                             *)
EssKeys == {"MediaTimestamp", "ESSEnabled", "ESSSuccess", "ESSError",
            "ESSStatusCode"}

ASSUME PlaybackAssumption ==
    /\ LiveMedia \cap OnDemandMedia = {}
    /\ MaxPosition \in Nat
    /\ Lengths \subseteq Nat /\ 0 \in Lengths
    /\ Positions \subseteq Nat
    /\ NoBroker \notin Brokers /\ NoMedia \notin MediaIds

(* The Media object the client keeps.                                      *)
MediaObject == [id : MediaIds, live : BOOLEAN, enriched : BOOLEAN,
                length : Nat, isPlaying : BOOLEAN, isBuffering : BOOLEAN]

BrokerObject == [id : MediaIds \cup {NoMedia}, live : BOOLEAN,
                 running : BOOLEAN, pos : Nat]

ASSUME NoMediaAssumption == NoMedia \notin MediaObject

EventLabels == Labels \cup {NoLabels, PauseAtLengthLabels}
EventNames == {"none", "play", "pause", "buffer", "end", "move", "userAction",
               "liveMediaUpdate"}

VARIABLES
  echoEnabled,
  playerDelegate,            \* has setPlayerDelegate been called?
  media,                     \* the client's Media object, or NoMedia
  broker,                    \* the client's broker, or NoBroker
  brokers,                   \* the broker objects themselves
  mediaActive,
  suppressingPlayEvent,
  suppressedPlayEventLabels,
  cacheMode,
  essLabels,  \* for each ESS label the delegates hold, the media it describes
  dlg,        \* what the delegates have been told about the media
  event,      \* history: the audio/video call this step made to the delegates
  wanted      \* history: the last audio/video call the app made for the media

vars == <<echoEnabled, playerDelegate, media, broker, brokers, mediaActive,
          suppressingPlayEvent, suppressedPlayEventLabels, cacheMode,
          essLabels, dlg, event, wanted>>

NoEvent == [name |-> "none", pos |-> 0, labels |-> NoLabels]
NoEssLabels == [k \in EssKeys |-> NoMedia]
NothingWanted == [request |-> "none", labels |-> NoLabels]

Init ==
    /\ echoEnabled \in BOOLEAN
    /\ playerDelegate = FALSE
    /\ media = NoMedia
    /\ broker = NoBroker
    /\ brokers = [b \in Brokers |-> [id |-> NoMedia, live |-> FALSE,
                                     running |-> FALSE, pos |-> 0]]
    /\ mediaActive = FALSE
    /\ suppressingPlayEvent = FALSE
    /\ suppressedPlayEventLabels = NoLabels
    /\ cacheMode \in CacheModes
    /\ essLabels = NoEssLabels
    /\ dlg = [media |-> NoMedia, broker |-> NoBroker, length |-> 0,
              reported |-> "none", played |-> FALSE]
    /\ event = NoEvent
    /\ wanted = NothingWanted

-----------------------------------------------------------------------------
(* Brokers: external classes, modelled from the calls the client makes.    *)

\* Mutant: the broker goes on ticking.
KeepBrokerRunning == brokers

StopBroker ==
    IF broker = NoBroker THEN brokers
    ELSE [brokers EXCEPT ![broker].running = FALSE]

StartBroker(heap) ==
    IF broker = NoBroker THEN heap ELSE [heap EXCEPT ![broker].running = TRUE]

(* A broker object nobody refers to any more: not the client's, and not    *)
(* kept alive by its own timer.                                            *)
IsFree(b) == b # broker /\ ~brokers[b].running

(* The playhead of a running broker advances.                              *)
PlayheadAdvances(b) ==
    /\ brokers[b].running
    /\ brokers[b].pos < MaxPosition
    /\ brokers' = [brokers EXCEPT ![b].pos = @ + 1]
    /\ event' = NoEvent
    /\ UNCHANGED <<echoEnabled, playerDelegate, media, broker, mediaActive,
                   suppressingPlayEvent, suppressedPlayEventLabels, cacheMode,
                   essLabels, dlg, wanted>>

-----------------------------------------------------------------------------
(* Setting and clearing the media.                                         *)

SetPlayerDelegate ==
    /\ playerDelegate' = TRUE
    /\ event' = NoEvent
    /\ UNCHANGED <<echoEnabled, media, broker, brokers, mediaActive,
                   suppressingPlayEvent, suppressedPlayEventLabels, cacheMode,
                   essLabels, dlg, wanted>>

(* initBroker, after clearMedia has stopped and dropped the old broker.    *)
(* essUrl always has a value: the default configuration gives it one and   *)
(* an empty user value does not override it.                               *)
InitBroker(m) ==
    IF playerDelegate
    THEN \E b \in Brokers :
           /\ IsFree(b)
           /\ broker' = b
           /\ brokers' = [StopBroker EXCEPT ![b] =
                [id |-> m, live |-> m \in LiveMedia, running |-> FALSE, pos |-> 0]]
    ELSE broker' = NoBroker /\ brokers' = StopBroker

(* The clone of the app's Media, which may be marked as enriched already.  *)
NewMedia(m, length, enriched) ==
    [id |-> m, live |-> m \in LiveMedia, enriched |-> enriched,
     length |-> length, isPlaying |-> FALSE, isBuffering |-> FALSE]

\* Mutant: the labels of the previous media are not removed.
KeepLabelsAfterSetMedia(m) == [essLabels EXCEPT !["ESSEnabled"] = m]

(* clearMedia removes every ESS label; setMedia then adds ESSEnabled.      *)
LabelsAfterSetMedia(m) == [NoEssLabels EXCEPT !["ESSEnabled"] = m]

\* Mutant: the delegates are not given the new broker.
TellDelegatesMediaOnly(m, length) ==
    [dlg EXCEPT !.media = m, !.length = length, !.reported = "none",
                !.played = FALSE]

(* setBroker, when there is a broker, and setMedia on every delegate.      *)
TellDelegates(m, length) ==
    [media |-> m, broker |-> IF broker' = NoBroker THEN dlg.broker ELSE broker',
     length |-> length, reported |-> "none", played |-> FALSE]

SetMedia(m, length, enriched) ==
    /\ echoEnabled
    /\ InitBroker(m)
    /\ media' = NewMedia(m, length, enriched)
    /\ essLabels' = LabelsAfterSetMedia(m)
    /\ dlg' = TellDelegates(m, length)
    /\ event' = NoEvent
    /\ wanted' = NothingWanted
    /\ UNCHANGED <<echoEnabled, playerDelegate, mediaActive,
                   suppressingPlayEvent, suppressedPlayEventLabels, cacheMode>>

(* The whole of clearMedia.                                                *)
ClearMedia ==
    /\ media' = NoMedia
    /\ brokers' = StopBroker
    /\ broker' = NoBroker
    /\ essLabels' = NoEssLabels
    /\ dlg' = [dlg EXCEPT !.media = NoMedia, !.reported = "none",
                          !.played = FALSE]

SetMediaLength(length) ==
    /\ media # NoMedia
    /\ ~media.live
    /\ dlg' = IF length > 0 THEN [dlg EXCEPT !.length = length] ELSE dlg
    /\ media' = [media EXCEPT !.length = length]
    /\ event' = NoEvent
    /\ UNCHANGED <<echoEnabled, playerDelegate, broker, brokers, mediaActive,
                   suppressingPlayEvent, suppressedPlayEventLabels, cacheMode,
                   essLabels, wanted>>

(* getComScoreDeviceID clears the media of every delegate on its way to    *)
(* the identifier it returns.                                              *)
GetComScoreDeviceID ==
    /\ dlg' = [dlg EXCEPT !.media = NoMedia, !.reported = "none"]
    /\ event' = NoEvent
    /\ UNCHANGED <<echoEnabled, playerDelegate, media, broker, brokers,
                   mediaActive, suppressingPlayEvent,
                   suppressedPlayEventLabels, cacheMode, essLabels, wanted>>

Enable ==
    /\ ~echoEnabled
    /\ echoEnabled' = TRUE
    /\ event' = NoEvent
    /\ UNCHANGED <<playerDelegate, media, broker, brokers, mediaActive,
                   suppressingPlayEvent, suppressedPlayEventLabels, cacheMode,
                   essLabels, dlg, wanted>>

Disable ==
    /\ echoEnabled
    /\ ClearMedia
    /\ echoEnabled' = FALSE
    /\ event' = NoEvent
    /\ UNCHANGED <<playerDelegate, mediaActive, suppressingPlayEvent,
                   suppressedPlayEventLabels, cacheMode, wanted>>

-----------------------------------------------------------------------------
(* Audio/video events.                                                     *)

(* The guards every av...Event method starts with.                         *)
Reportable == echoEnabled /\ media # NoMedia

(* The position an event other than play is reported with.                 *)
AvPosition(position) ==
    IF broker = NoBroker THEN position
    ELSE IF media.live THEN brokers[broker].pos
    ELSE PreventPositionExceedingMediaLength(media.length, position)

(* for delegate in delegates { delegate.av...Event(at:eventLabels:) }      *)
Report(name, position, labels) ==
    /\ event' = [name |-> name, pos |-> position, labels |-> labels]
    /\ dlg' = IF name = "userAction" THEN dlg
              ELSE [dlg EXCEPT !.reported = name,
                               !.played = name = "play" \/ (@ /\ name # "end")]

(* What the app asked for, whether or not the client acts on it.           *)
Request(request, labels) == wanted' = [request |-> request, labels |-> labels]

(* An av...Event call the client ignores: disabled, or no media.           *)
IgnoredEvent(request, labels) ==
    /\ ~Reportable
    /\ Request(request, labels)
    /\ event' = NoEvent
    /\ UNCHANGED <<echoEnabled, playerDelegate, media, broker, brokers,
                   mediaActive, suppressingPlayEvent,
                   suppressedPlayEventLabels, cacheMode, essLabels, dlg>>

PlayExceedsLength(position) ==
    /\ broker # NoBroker
    /\ ~media.live
    /\ PositionExceedsMediaLength(media.length, position)

\* Mutant: a play that is held back does not restart the broker.
RestartUnlessEnriched(position) ==
    IF media.enriched THEN brokers
    ELSE StartBroker(IF broker = NoBroker \/ media.live THEN brokers
                     ELSE [brokers EXCEPT ![broker].pos = position])

(* The broker's part of avPlayEvent: on-demand brokers are told the        *)
(* position, and every broker is started.                                  *)
BrokersAfterPlay(position) ==
    StartBroker(IF broker = NoBroker \/ media.live THEN brokers
                ELSE [brokers EXCEPT ![broker].pos = position])

PlayPosition(position) ==
    IF broker # NoBroker /\ media.live THEN brokers[broker].pos ELSE position

\* Mutant: the reported play does not lock the cache mode.
ReportPlayUnlocked(position, labels) ==
    /\ Report("play", PlayPosition(position), labels)
    /\ media' = [media EXCEPT !.isPlaying = TRUE, !.isBuffering = FALSE]
    /\ UNCHANGED <<mediaActive, suppressedPlayEventLabels>>

ReportPlay(position, labels) ==
    /\ Report("play", PlayPosition(position), labels)
    /\ media' = [media EXCEPT !.isPlaying = TRUE, !.isBuffering = FALSE]
    /\ mediaActive' = TRUE
    /\ UNCHANGED suppressedPlayEventLabels

\* Mutant: the labels of a held play are forgotten.
HoldPlayWithoutLabels(labels) ==
    /\ event' = NoEvent
    /\ UNCHANGED <<media, mediaActive, dlg, suppressedPlayEventLabels>>

HoldPlay(labels) ==
    /\ suppressedPlayEventLabels' = labels
    /\ event' = NoEvent
    /\ UNCHANGED <<media, mediaActive, dlg>>

(* avPlayEvent; suppressing is the value suppressingPlayEvent has when it  *)
(* is called, which releaseSuppressedPlay has just made FALSE.             *)
AvPlayEvent(position, labels, suppressing) ==
    /\ Reportable
    /\ suppressingPlayEvent' = suppressing
    /\ IF PlayExceedsLength(position)
       THEN /\ event' = NoEvent
            /\ UNCHANGED <<media, brokers, mediaActive, dlg,
                           suppressedPlayEventLabels>>
       ELSE /\ brokers' = BrokersAfterPlay(position)
            /\ IF media.live /\ media.enriched /\ suppressing
               THEN HoldPlay(labels)
               ELSE ReportPlay(position, labels)
    /\ UNCHANGED <<echoEnabled, playerDelegate, broker, cacheMode, essLabels>>

\* Mutant: the broker of paused media is not stopped.
NavigationWithoutStop ==
    /\ brokers' = brokers
    /\ suppressingPlayEvent' =
         (suppressingPlayEvent \/ (media.live /\ media.enriched))

(* avNavigationEvent: what pause, buffer, end, rewind, fast-forward and    *)
(* seek have in common.                                                    *)
AvNavigationEvent ==
    /\ brokers' = StopBroker
    /\ suppressingPlayEvent' =
         (suppressingPlayEvent \/ (media.live /\ media.enriched))

AvPauseEvent(position, labels) ==
    /\ Reportable
    /\ AvNavigationEvent
    /\ media' = [media EXCEPT !.isPlaying = FALSE]
    /\ Report("pause", AvPosition(position), labels)
    /\ UNCHANGED <<echoEnabled, playerDelegate, broker, mediaActive,
                   suppressedPlayEventLabels, cacheMode, essLabels>>

AvBufferEvent(position, labels) ==
    /\ Reportable
    /\ AvNavigationEvent
    /\ media' = [media EXCEPT !.isPlaying = FALSE, !.isBuffering = TRUE]
    /\ Report("buffer", AvPosition(position), labels)
    /\ UNCHANGED <<echoEnabled, playerDelegate, broker, mediaActive,
                   suppressedPlayEventLabels, cacheMode, essLabels>>

AvEndEvent(position, labels) ==
    /\ Reportable
    /\ AvNavigationEvent
    /\ Report("end", AvPosition(position), labels)
    /\ media' = NoMedia
    /\ mediaActive' = FALSE
    /\ UNCHANGED <<echoEnabled, playerDelegate, broker,
                   suppressedPlayEventLabels, cacheMode, essLabels>>

(* avRewindEvent, avFastForwardEvent and avSeekEvent.                      *)
AvMoveEvent(position, labels) ==
    /\ Reportable
    /\ AvNavigationEvent
    /\ Report("move", AvPosition(position), labels)
    /\ UNCHANGED <<echoEnabled, playerDelegate, media, broker, mediaActive,
                   suppressedPlayEventLabels, cacheMode, essLabels>>

AvUserActionEvent(position, labels) ==
    /\ Reportable
    /\ Report("userAction", AvPosition(position), labels)
    /\ UNCHANGED <<echoEnabled, playerDelegate, media, broker, brokers,
                   mediaActive, suppressingPlayEvent,
                   suppressedPlayEventLabels, cacheMode, essLabels>>

SetCacheMode(mode) ==
    /\ ~mediaActive
    /\ cacheMode' = mode
    /\ event' = NoEvent
    /\ UNCHANGED <<echoEnabled, playerDelegate, media, broker, brokers,
                   mediaActive, suppressingPlayEvent,
                   suppressedPlayEventLabels, essLabels, dlg, wanted>>

-----------------------------------------------------------------------------
(* Calls of a running broker into the client (LiveProtocol and             *)
(* OnDemandProtocol).  A broker calls from its own timer, so only between  *)
(* start() and stop().                                                     *)

RunningLive(b) == brokers[b].running /\ brokers[b].live
RunningOnDemand(b) == brokers[b].running /\ ~brokers[b].live

(* The broker found the broadcast on air: it hands over a new, enriched    *)
(* Media and resets its playhead.  The delegates end the old clip and play *)
(* the new one.  Whether the new Media inherits the playing and buffering  *)
(* flags of the old one is up to the broker.                               *)
LiveMediaUpdate(b) ==
    /\ RunningLive(b)
    /\ \E inherits \in BOOLEAN :
         media' = [id |-> brokers[b].id, live |-> TRUE, enriched |-> TRUE,
                   length |-> 0,
                   isPlaying |-> inherits /\ media # NoMedia /\ media.isPlaying,
                   isBuffering |-> inherits /\ media # NoMedia /\ media.isBuffering]
    /\ suppressingPlayEvent' = FALSE
    /\ brokers' = [brokers EXCEPT ![b].pos = 0]
    /\ dlg' = [dlg EXCEPT !.media = brokers[b].id, !.length = 0,
                          !.reported = "play"]
    /\ event' = [name |-> "liveMediaUpdate", pos |-> brokers[b].pos,
                 labels |-> NoLabels]
    /\ UNCHANGED <<echoEnabled, playerDelegate, broker, mediaActive,
                   suppressedPlayEventLabels, cacheMode, essLabels, wanted>>

ReleaseSuppressedPlay(b) ==
    /\ RunningLive(b)
    /\ echoEnabled
    /\ broker # NoBroker
    /\ suppressingPlayEvent
    /\ IF media = NoMedia
       THEN /\ suppressingPlayEvent' = FALSE
            /\ event' = NoEvent
            /\ UNCHANGED <<echoEnabled, playerDelegate, media, broker, brokers,
                           mediaActive, suppressedPlayEventLabels, cacheMode,
                           essLabels, dlg>>
       ELSE AvPlayEvent(brokers[broker].pos, suppressedPlayEventLabels, FALSE)
    /\ UNCHANGED wanted

(* liveTimestampUpdate, setEssSuccess and setEssError only add labels      *)
(* (setEssError also calls liveEnrichmentFailed on the delegates).         *)
AddEssLabels(b, keys) ==
    /\ RunningLive(b)
    /\ essLabels' = [k \in EssKeys |-> IF k \in keys THEN brokers[b].id
                                       ELSE essLabels[k]]
    /\ event' = NoEvent
    /\ UNCHANGED <<echoEnabled, playerDelegate, media, broker, brokers,
                   mediaActive, suppressingPlayEvent,
                   suppressedPlayEventLabels, cacheMode, dlg, wanted>>

LiveTimestampUpdate(b) == AddEssLabels(b, {"MediaTimestamp"})
SetEssSuccess(b) == AddEssLabels(b, {"ESSSuccess"})
SetEssError(b) ==
    \E statusCode \in BOOLEAN :
        AddEssLabels(b, IF statusCode THEN {"ESSError", "ESSStatusCode"}
                        ELSE {"ESSError"})

(* sendHeartbeat, from either kind of broker.                              *)
SendHeartbeat(b) ==
    /\ brokers[b].running
    /\ AvUserActionEvent(brokers[b].pos, NoLabels)
    /\ UNCHANGED wanted

(* An on-demand broker pauses the media when its position reaches the      *)
(* length of the media.                                                    *)
PauseAtMediaLength(b) ==
    /\ RunningOnDemand(b)
    /\ media # NoMedia
    /\ media.length # 0
    /\ brokers[b].pos >= media.length
    /\ AvPauseEvent(media.length, PauseAtLengthLabels)
    /\ UNCHANGED wanted

-----------------------------------------------------------------------------
AppSetsMedia ==
    \/ \E m \in LiveMedia, enriched \in BOOLEAN : SetMedia(m, 0, enriched)
    \/ \E m \in OnDemandMedia, l \in Lengths : SetMedia(m, l, FALSE)
    \/ \E l \in Lengths : SetMediaLength(l)

AppReports ==
    \E p \in Positions, l \in Labels \cup {NoLabels} :
      \/ AvPlayEvent(p, l, suppressingPlayEvent) /\ Request("play", l)
      \/ AvPauseEvent(p, l) /\ Request("other", l)
      \/ AvBufferEvent(p, l) /\ Request("other", l)
      \/ AvMoveEvent(p, l) /\ Request("other", l)
      \/ AvEndEvent(p, l) /\ Request("end", l)
      \/ AvUserActionEvent(p, l) /\ UNCHANGED wanted
      \/ \E r \in {"play", "other", "end"} : IgnoredEvent(r, l)

AppConfigures ==
    \/ SetPlayerDelegate
    \/ GetComScoreDeviceID
    \/ Enable
    \/ Disable
    \/ \E mode \in CacheModes : SetCacheMode(mode)

BrokerCalls ==
    \E b \in Brokers :
      \/ PlayheadAdvances(b)
      \/ LiveMediaUpdate(b)
      \/ ReleaseSuppressedPlay(b)
      \/ LiveTimestampUpdate(b)
      \/ SetEssSuccess(b)
      \/ SetEssError(b)
      \/ SendHeartbeat(b)
      \/ PauseAtMediaLength(b)

Next == AppSetsMedia \/ AppReports \/ AppConfigures \/ BrokerCalls

Spec == Init /\ [][Next]_vars

(* The timer of a running live broker keeps firing, and each time the      *)
(* broker either finds a new broadcast or lets the play through.           *)
LiveBrokerDecides ==
    \E b \in Brokers : LiveMediaUpdate(b) \/ ReleaseSuppressedPlay(b)

FairSpec == Spec /\ WF_vars(LiveBrokerDecides)

-----------------------------------------------------------------------------
(* Properties.                                                             *)

(* Every variable has its type; positions and lengths stay unsigned.       *)
TypeOK ==
    /\ echoEnabled \in BOOLEAN
    /\ playerDelegate \in BOOLEAN
    /\ media \in MediaObject \cup {NoMedia}
    /\ broker \in Brokers \cup {NoBroker}
    /\ brokers \in [Brokers -> BrokerObject]
    /\ mediaActive \in BOOLEAN
    /\ suppressingPlayEvent \in BOOLEAN
    /\ suppressedPlayEventLabels \in EventLabels
    /\ cacheMode \in CacheModes
    /\ essLabels \in [EssKeys -> MediaIds \cup {NoMedia}]
    /\ dlg \in [media : MediaIds \cup {NoMedia}, broker : Brokers \cup {NoBroker},
                length : Nat, reported : EventNames, played : BOOLEAN]
    /\ event \in [name : EventNames, pos : Nat, labels : EventLabels]
    /\ wanted \in [request : {"none", "play", "other", "end"},
                   labels : EventLabels]

(* A broker whose timer is running is the client's own, and the client is  *)
(* enabled and has media: no callback of an old broker, and no heartbeat   *)
(* that would be thrown away, can arrive after setMedia, avEndEvent or     *)
(* disable.                                                                *)
OnlyTheCurrentBrokerRuns ==
    \A b \in Brokers :
        brokers[b].running => b = broker /\ media # NoMedia /\ echoEnabled

(* Live media the app wants to play is followed by a live broker that was  *)
(* made for it and runs, whatever was paused, updated, enriched or set     *)
(* before: a play held back for enriched media has the one object that can *)
(* call releaseSuppressedPlay.  Only a client that had no player delegate  *)
(* at setMedia has no broker, and then nobody releases a held play.        *)
LivePlayHasItsBroker ==
    Reportable /\ media.live /\ wanted.request = "play" /\ broker # NoBroker =>
        /\ brokers[broker].running
        /\ brokers[broker].live
        /\ brokers[broker].id = media.id

(* The client's broker was made for the client's media, and a disabled     *)
(* client has neither.                                                     *)
BrokerServesTheMedia ==
    /\ media # NoMedia /\ broker # NoBroker => brokers[broker].id = media.id
    /\ ~echoEnabled => media = NoMedia /\ broker = NoBroker

(* Playing, as the delegates or a running broker see it, means that the    *)
(* app asked for it last; and from the first avPlayEvent the delegates are *)
(* sent for a media the cache mode is locked, until that media ends, is    *)
(* replaced or is cleared by disable.                                      *)
PlayingIsActive ==
    /\ dlg.reported = "play" => Reportable /\ wanted.request = "play"
    /\ \A b \in Brokers : brokers[b].running => wanted.request = "play"
    /\ dlg.played => Reportable /\ mediaActive

(* The delegates are never told that the media plays while the last thing  *)
(* the app asked for is something else: neither liveMediaUpdate nor        *)
(* releaseSuppressedPlay can restart media the app has paused, ended or    *)
(* replaced.                                                               *)
ReportedPlayWasRequested == dlg.reported = "play" => wanted.request = "play"

(* The ESS labels the delegates hold describe the media they report on:    *)
(* none outlives its media into the next setMedia or a disable.            *)
LabelsDescribeTheMedia ==
    /\ media # NoMedia => \A k \in EssKeys : essLabels[k] \in {NoMedia, media.id}
    /\ ~echoEnabled => essLabels = NoEssLabels

(* The delegates never report on another media, or consult another broker, *)
(* than the client's: setMedia and liveMediaUpdate reach them whole.       *)
DelegatesFollowTheClient ==
    media # NoMedia =>
        /\ dlg.media \in {NoMedia, media.id}
        /\ broker # NoBroker => dlg.broker = broker

(* setCacheMode never takes effect once the delegates have been sent an    *)
(* avPlayEvent for the media, paused or not, until the media is ended,     *)
(* replaced or cleared.  (A media whose plays have all been held back is   *)
(* not locked, not even when a live update makes the delegates play it.)   *)
CacheModeFixedOncePlayed ==
    [][cacheMode' # cacheMode => ~dlg.played]_vars

(* The position of on-demand media followed by a broker is reported either *)
(* exactly as its length or at least a second before it, and a play is     *)
(* never reported at the end.                                              *)
OnDemandPositionsRespectTheLength ==
    [][\/ event'.name = "none" \/ broker = NoBroker \/ media = NoMedia
       \/ media.live \/ media.length = 0
       \/ event'.pos + OneSecond < media.length
       \/ event'.name # "play" /\ event'.pos = media.length]_vars

(* A play reaches the delegates with the labels of the latest avPlayEvent, *)
(* at once or when the broker releases it, never with the labels of a play *)
(* superseded in the meantime.  The one exception is a flag that neither   *)
(* setMedia nor avEndEvent resets: it lets the broker of the next media,   *)
(* not yet enriched, release a play with the labels of the media before.   *)
PlayCarriesItsLabels ==
    [][event'.name = "play"
           => \/ event'.labels = wanted'.labels
              \/ suppressingPlayEvent /\ ~media.enriched]_vars

(* The client implements the abstract playback session: brokers, timers,   *)
(* enrichment, held plays and clamped positions never show the delegates   *)
(* anything the session does not allow, in particular no play the app has  *)
(* taken back and no media it has left.                                    *)
Session ==
    INSTANCE PlaybackSession WITH
        enabled <- echoEnabled,
        chosen <- IF media = NoMedia THEN NoMedia ELSE media.id,
        subject <- dlg.media,
        wish <- wanted.request,
        shown <- dlg.reported
ImplementsSession == Session!Spec

(* A play held back for enriched live media that has a broker is reported, *)
(* unless the app changes its mind: the broker that releases it has been   *)
(* restarted.                                                              *)
HeldPlayIsResolved ==
    (media # NoMedia /\ media.enriched /\ wanted.request = "play"
        /\ suppressingPlayEvent /\ broker # NoBroker)
    ~> (dlg.reported = "play" \/ wanted.request # "play" \/ media = NoMedia)

-----------------------------------------------------------------------------
(* What the repository says of the program and the code does not do.       *)

(* "Set media length ignores zero values for on-demand content": the       *)
(* length the client clamps positions with is the one the delegates know.  *)
ZeroLengthIsIgnored ==
    media # NoMedia /\ ~media.live => media.length = dlg.length

(* "Cannot call setCacheMode() after avPlayEvent() and before              *)
(* avEndEvent()", testSetCacheModeDelegatesAfterPlayThenEnd: after         *)
(* avEndEvent the cache mode can be set again.                             *)
CacheModeFreeAfterEnd ==
    echoEnabled /\ wanted.request = "end" => ~mediaActive

(* testAvPlayEventPreReqsEnforced and its siblings, "Do not set the        *)
(* required Media object": delegates that hold no media are sent no        *)
(* audio/video event.                                                      *)
EventsFindMediaInTheDelegates == event.name # "none" => dlg.media # NoMedia
=============================================================================
