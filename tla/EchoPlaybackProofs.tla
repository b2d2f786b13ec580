------------------------- MODULE EchoPlaybackProofs -------------------------
(***************************************************************************)
(* Theorems about EchoPlayback, for every set of media, brokers, lengths,  *)
(* positions and labels.  The inductive invariant IInv joins the type      *)
(* invariant and the safety invariants: each needs the others, because     *)
(* whether a callback can come at all depends on which broker runs.        *)
(***************************************************************************)
EXTENDS EchoPlayback, TLAPS

(* The inductive invariant.                                               *)
IInv ==
    /\ TypeOK
    /\ OnlyTheCurrentBrokerRuns
    /\ BrokerServesTheMedia
    /\ PlayingIsActive
    /\ LabelsDescribeTheMedia
    /\ DelegatesFollowTheClient

(* The fields of a new client have their types.                            *)
LEMMA InitTypeOK == Init => TypeOK
<1> SUFFICES ASSUME Init PROVE TypeOK
  OBVIOUS
<1> USE DEF Init
<1>1. brokers \in [Brokers -> BrokerObject]
  BY DEF BrokerObject
<1>2. essLabels \in [EssKeys -> MediaIds \cup {NoMedia}]
  BY DEF NoEssLabels
<1>3. dlg \in [media : MediaIds \cup {NoMedia}, broker : Brokers \cup {NoBroker},
               length : Nat, reported : EventNames, played : BOOLEAN]
  BY DEF EventNames
<1>4. /\ event \in [name : EventNames, pos : Nat, labels : EventLabels]
      /\ wanted \in [request : {"none", "play", "other", "end"}, labels : EventLabels]
  BY DEF EventNames, NoEvent, EventLabels, NothingWanted
<1> QED
  BY <1>1, <1>2, <1>3, <1>4 DEF TypeOK, EventLabels

(* broker.stop() changes nothing but the timer of the client's broker.     *)
LEMMA StopBrokerType ==
    ASSUME TypeOK
    PROVE  /\ StopBroker \in [Brokers -> BrokerObject]
           /\ \A b \in Brokers :
                /\ StopBroker[b].running = (brokers[b].running /\ b # broker)
                /\ StopBroker[b].live = brokers[b].live
                /\ StopBroker[b].id = brokers[b].id
                /\ StopBroker[b].pos = brokers[b].pos
<1>1. CASE broker = NoBroker
  BY <1>1, PlaybackAssumption DEF TypeOK, StopBroker, BrokerObject
<1>2. CASE broker \in Brokers
  <2>1. StopBroker = [brokers EXCEPT ![broker].running = FALSE]
    BY <1>2, PlaybackAssumption DEF StopBroker
  <2> QED
    BY <1>2, <2>1 DEF TypeOK, BrokerObject
<1> QED
  BY <1>1, <1>2 DEF TypeOK

(* avPlayEvent starts the client's broker, may move its playhead, and      *)
(* changes no other broker.                                                *)
LEMMA BrokersAfterPlayType ==
    ASSUME TypeOK, NEW p \in Nat, media # NoMedia
    PROVE  /\ BrokersAfterPlay(p) \in [Brokers -> BrokerObject]
           /\ \A b \in Brokers :
                /\ BrokersAfterPlay(p)[b].running = (brokers[b].running \/ b = broker)
                /\ BrokersAfterPlay(p)[b].live = brokers[b].live
                /\ BrokersAfterPlay(p)[b].id = brokers[b].id
<1>1. CASE broker = NoBroker
  BY <1>1, PlaybackAssumption DEF TypeOK, BrokersAfterPlay, StartBroker, BrokerObject
<1>2. CASE broker # NoBroker
  <2> DEFINE heap == IF broker = NoBroker \/ media.live THEN brokers
                     ELSE [brokers EXCEPT ![broker].pos = p]
  <2>1. /\ heap \in [Brokers -> BrokerObject]
        /\ \A b \in Brokers : /\ heap[b].running = brokers[b].running
                              /\ heap[b].live = brokers[b].live
                              /\ heap[b].id = brokers[b].id
    BY <1>2 DEF TypeOK, BrokerObject
  <2>2. BrokersAfterPlay(p) = [heap EXCEPT ![broker].running = TRUE]
    BY <1>2 DEF BrokersAfterPlay, StartBroker
  <2>3. broker \in Brokers
    BY <1>2 DEF TypeOK
  <2> HIDE DEF heap
  <2> QED
    BY <2>1, <2>2, <2>3 DEF BrokerObject
<1> QED
  BY <1>1, <1>2

(* A reported position is a natural number.                                *)
LEMMA AvPositionType ==
    ASSUME TypeOK, media # NoMedia, NEW p \in Nat
    PROVE  AvPosition(p) \in Nat
  BY DEF TypeOK, MediaObject, BrokerObject, AvPosition,
         PreventPositionExceedingMediaLength

(* Reporting an event keeps the types of the history and of the delegates. *)
LEMMA ReportType ==
    ASSUME TypeOK, NEW name \in EventNames, NEW p \in Nat, NEW l \in EventLabels,
           Report(name, p, l)
    PROVE  /\ event' \in [name : EventNames, pos : Nat, labels : EventLabels]
           /\ dlg' \in [media : MediaIds \cup {NoMedia}, broker : Brokers \cup {NoBroker},
                        length : Nat, reported : EventNames, played : BOOLEAN]
  BY DEF TypeOK, Report

(* avPlayEvent marks the media as played, avEndEvent removes the mark.     *)
LEMMA ReportPlayed ==
    ASSUME TypeOK, NEW name, NEW p, NEW l, Report(name, p, l), name # "userAction"
    PROVE  dlg'.played <=> name = "play" \/ (dlg.played /\ name # "end")
  BY DEF TypeOK, Report

(* A broker that can call back was made for one of the app's media.        *)
LEMMA RunningBrokerHasMedia ==
    ASSUME IInv, NEW b \in Brokers, brokers[b].running
    PROVE  /\ b = broker /\ media # NoMedia /\ media \in MediaObject
           /\ brokers[b].id = media.id /\ brokers[b].id \in MediaIds
           /\ echoEnabled
  BY PlaybackAssumption
     DEF IInv, TypeOK, MediaObject, OnlyTheCurrentBrokerRuns, BrokerServesTheMedia

(* Every step keeps the types.                                             *)
LEMMA NextTypeOK == IInv /\ [Next]_vars => TypeOK'
<1> SUFFICES ASSUME IInv, [Next]_vars PROVE TypeOK'
  OBVIOUS
<1> TypeOK
  BY DEF IInv
<1> USE DEF TypeOK
<1>1. ASSUME NEW m \in MediaIds, NEW l \in Nat, NEW e \in BOOLEAN,
             SetMedia(m, l, e)
      PROVE  TypeOK'
  <2>1. media' \in MediaObject
    BY <1>1 DEF SetMedia, NewMedia, MediaObject
  <2>2. /\ brokers' \in [Brokers -> BrokerObject]
        /\ broker' \in Brokers \cup {NoBroker}
    <3>1. CASE ~playerDelegate
      BY <1>1, <3>1, StopBrokerType DEF SetMedia, InitBroker
    <3>2. CASE playerDelegate
      <4>1. PICK b \in Brokers :
              /\ broker' = b
              /\ brokers' = [StopBroker EXCEPT ![b] =
                   [id |-> m, live |-> m \in LiveMedia, running |-> FALSE, pos |-> 0]]
        BY <1>1, <3>2 DEF SetMedia, InitBroker
      <4>2. [id |-> m, live |-> m \in LiveMedia, running |-> FALSE, pos |-> 0]
              \in BrokerObject
        BY DEF BrokerObject
      <4> QED
        BY <4>1, <4>2, StopBrokerType
    <3> QED
      BY <3>1, <3>2
  <2>3. essLabels' \in [EssKeys -> MediaIds \cup {NoMedia}]
    BY <1>1 DEF SetMedia, LabelsAfterSetMedia, NoEssLabels, EssKeys
  <2>4. dlg' \in [media : MediaIds \cup {NoMedia}, broker : Brokers \cup {NoBroker},
                  length : Nat, reported : EventNames, played : BOOLEAN]
    BY <1>1, <2>2 DEF SetMedia, TellDelegates, EventNames
  <2> QED
    BY <1>1, <2>1, <2>2, <2>3, <2>4
       DEF SetMedia, NoEvent, NothingWanted, EventNames, EventLabels
<1>2. ASSUME NEW l \in Lengths, SetMediaLength(l)
      PROVE  TypeOK'
  BY <1>2, PlaybackAssumption
     DEF SetMediaLength, NoEvent, MediaObject, EventNames, EventLabels
<1>3. ASSUME NEW p \in Nat, NEW l \in EventLabels, NEW s \in BOOLEAN,
             AvPlayEvent(p, l, s), wanted' = wanted \/ Request("play", l)
      PROVE  TypeOK'
  <2>1. /\ media \in MediaObject
        /\ BrokersAfterPlay(p) \in [Brokers -> BrokerObject]
    BY <1>3, BrokersAfterPlayType DEF AvPlayEvent, Reportable
  <2>2. wanted' \in [request : {"none", "play", "other", "end"}, labels : EventLabels]
    BY <1>3 DEF Request
  <2>3. CASE ReportPlay(p, l) /\ brokers' = BrokersAfterPlay(p)
    <3>1. PlayPosition(p) \in Nat
      BY DEF PlayPosition, BrokerObject
    <3>2. media' \in MediaObject
      BY <2>1, <2>3 DEF ReportPlay, MediaObject
    <3>3. /\ event' \in [name : EventNames, pos : Nat, labels : EventLabels]
          /\ dlg' \in [media : MediaIds \cup {NoMedia}, broker : Brokers \cup {NoBroker},
                       length : Nat, reported : EventNames, played : BOOLEAN]
      BY <1>3, <2>3, <3>1, ReportType DEF ReportPlay, EventNames
    <3> QED
      BY <1>3, <2>1, <2>2, <2>3, <3>2, <3>3 DEF AvPlayEvent, ReportPlay
  <2>4. CASE HoldPlay(l) /\ brokers' = BrokersAfterPlay(p)
    BY <1>3, <2>1, <2>2, <2>4
       DEF AvPlayEvent, HoldPlay, NoEvent, EventNames, EventLabels
  <2>5. CASE /\ event' = NoEvent
             /\ UNCHANGED <<media, brokers, mediaActive, dlg, suppressedPlayEventLabels>>
    BY <1>3, <2>2, <2>5 DEF AvPlayEvent, NoEvent, EventNames, EventLabels
  <2> QED
    BY <1>3, <2>3, <2>4, <2>5 DEF AvPlayEvent
<1>4. ASSUME NEW p \in Nat, NEW l \in EventLabels, NEW r \in {"other", "end"},
             \/ AvPauseEvent(p, l)
             \/ AvBufferEvent(p, l)
             \/ AvEndEvent(p, l)
             \/ AvMoveEvent(p, l),
             wanted' = wanted \/ Request(r, l)
      PROVE  TypeOK'
  <2>1. media \in MediaObject /\ AvPosition(p) \in Nat
    BY <1>4, AvPositionType
       DEF AvPauseEvent, AvBufferEvent, AvEndEvent, AvMoveEvent, Reportable
  <2>2. /\ event' \in [name : EventNames, pos : Nat, labels : EventLabels]
        /\ dlg' \in [media : MediaIds \cup {NoMedia}, broker : Brokers \cup {NoBroker},
                     length : Nat, reported : EventNames, played : BOOLEAN]
    BY <1>4, <2>1, ReportType
       DEF AvPauseEvent, AvBufferEvent, AvEndEvent, AvMoveEvent, EventNames
  <2>3. wanted' \in [request : {"none", "play", "other", "end"}, labels : EventLabels]
    BY <1>4 DEF Request
  <2>4. /\ brokers' \in [Brokers -> BrokerObject]
        /\ suppressingPlayEvent' \in BOOLEAN
    BY <1>4, <2>1, StopBrokerType
       DEF AvPauseEvent, AvBufferEvent, AvEndEvent, AvMoveEvent,
           AvNavigationEvent, MediaObject
  <2>5. media' \in MediaObject \cup {NoMedia} /\ mediaActive' \in BOOLEAN
    BY <1>4, <2>1
       DEF AvPauseEvent, AvBufferEvent, AvEndEvent, AvMoveEvent, MediaObject
  <2> QED
    BY <1>4, <2>2, <2>3, <2>4, <2>5
       DEF AvPauseEvent, AvBufferEvent, AvEndEvent, AvMoveEvent
<1>5. ASSUME NEW p \in Nat, NEW l \in EventLabels, AvUserActionEvent(p, l),
             UNCHANGED wanted
      PROVE  TypeOK'
  <2>1. AvPosition(p) \in Nat
    BY <1>5, AvPositionType DEF AvUserActionEvent, Reportable
  <2> QED
    BY <1>5, <2>1, ReportType DEF AvUserActionEvent, EventNames
<1>6. ASSUME NEW r \in {"play", "other", "end"}, NEW l \in EventLabels,
             IgnoredEvent(r, l)
      PROVE  TypeOK'
  BY <1>6 DEF IgnoredEvent, Request, NoEvent, EventNames, EventLabels
<1>7. ASSUME SetPlayerDelegate \/ GetComScoreDeviceID \/ Enable
      PROVE  TypeOK'
  <2>1. dlg' \in [media : MediaIds \cup {NoMedia}, broker : Brokers \cup {NoBroker},
                  length : Nat, reported : EventNames, played : BOOLEAN]
    BY <1>7 DEF SetPlayerDelegate, GetComScoreDeviceID, Enable, EventNames
  <2>2. event' \in [name : EventNames, pos : Nat, labels : EventLabels]
    BY <1>7 DEF SetPlayerDelegate, GetComScoreDeviceID, Enable, NoEvent,
                EventNames, EventLabels
  <2> QED
    BY <1>7, <2>1, <2>2 DEF SetPlayerDelegate, GetComScoreDeviceID, Enable
<1>8. ASSUME Disable
      PROVE  TypeOK'
  <2>1. brokers' \in [Brokers -> BrokerObject]
    BY <1>8, StopBrokerType DEF Disable, ClearMedia
  <2> QED
    BY <1>8, <2>1
       DEF Disable, ClearMedia, NoEssLabels, NoEvent, EventNames, EventLabels
<1>9. ASSUME NEW mode \in CacheModes, SetCacheMode(mode)
      PROVE  TypeOK'
  BY <1>9 DEF SetCacheMode, NoEvent, EventNames, EventLabels
<1>10. ASSUME NEW b \in Brokers, PlayheadAdvances(b)
       PROVE  TypeOK'
  <2>1. brokers' \in [Brokers -> BrokerObject]
    BY <1>10, PlaybackAssumption DEF PlayheadAdvances, BrokerObject
  <2> QED
    BY <1>10, <2>1 DEF PlayheadAdvances, NoEvent, EventNames, EventLabels
<1>11. ASSUME NEW b \in Brokers, LiveMediaUpdate(b), brokers[b].id \in MediaIds
       PROVE  TypeOK'
  <2>1. brokers' \in [Brokers -> BrokerObject]
    BY <1>11 DEF LiveMediaUpdate, BrokerObject
  <2>2. media' \in MediaObject
    BY <1>11 DEF LiveMediaUpdate, MediaObject
  <2>3. /\ event' \in [name : EventNames, pos : Nat, labels : EventLabels]
        /\ dlg' \in [media : MediaIds \cup {NoMedia}, broker : Brokers \cup {NoBroker},
                     length : Nat, reported : EventNames, played : BOOLEAN]
    BY <1>11 DEF LiveMediaUpdate, BrokerObject, EventNames, EventLabels
  <2> QED
    BY <1>11, <2>1, <2>2, <2>3 DEF LiveMediaUpdate
<1>12. ASSUME NEW b \in Brokers, NEW keys \in SUBSET EssKeys, AddEssLabels(b, keys)
       PROVE  TypeOK'
  <2>1. essLabels' \in [EssKeys -> MediaIds \cup {NoMedia}]
    BY <1>12 DEF AddEssLabels, BrokerObject
  <2> QED
    BY <1>12, <2>1 DEF AddEssLabels, NoEvent, EventNames, EventLabels
<1>13. CASE AppSetsMedia
  <2>1. /\ \A m \in LiveMedia : m \in MediaIds /\ 0 \in Nat
        /\ \A m \in OnDemandMedia : m \in MediaIds
        /\ \A l \in Lengths : l \in Nat
    BY PlaybackAssumption DEF MediaIds
  <2> QED
    <3>1. CASE \E m \in LiveMedia, e \in BOOLEAN : SetMedia(m, 0, e)
      BY <3>1, <1>1, <2>1
    <3>2. CASE \E m \in OnDemandMedia, l \in Lengths : SetMedia(m, l, FALSE)
      BY <3>2, <1>1, <2>1
    <3>3. CASE \E l \in Lengths : SetMediaLength(l)
      BY <3>3, <1>2
    <3> QED
      BY <1>13, <3>1, <3>2, <3>3 DEF AppSetsMedia
<1>14. CASE AppReports
  <2>1. PICK p \in Positions, l \in Labels \cup {NoLabels} :
          \/ AvPlayEvent(p, l, suppressingPlayEvent) /\ Request("play", l)
          \/ AvPauseEvent(p, l) /\ Request("other", l)
          \/ AvBufferEvent(p, l) /\ Request("other", l)
          \/ AvMoveEvent(p, l) /\ Request("other", l)
          \/ AvEndEvent(p, l) /\ Request("end", l)
          \/ AvUserActionEvent(p, l) /\ UNCHANGED wanted
          \/ \E r \in {"play", "other", "end"} : IgnoredEvent(r, l)
    BY <1>14 DEF AppReports
  <2>2. p \in Nat /\ l \in EventLabels
    BY PlaybackAssumption DEF EventLabels
  <2> QED
    BY <2>1, <2>2, <1>3, <1>4, <1>5, <1>6
<1>15. CASE AppConfigures
  BY <1>15, <1>7, <1>8, <1>9 DEF AppConfigures
<1>16. CASE BrokerCalls
  <2>1. PICK b \in Brokers :
          \/ PlayheadAdvances(b)
          \/ LiveMediaUpdate(b)
          \/ ReleaseSuppressedPlay(b)
          \/ LiveTimestampUpdate(b)
          \/ SetEssSuccess(b)
          \/ SetEssError(b)
          \/ SendHeartbeat(b)
          \/ PauseAtMediaLength(b)
    BY <1>16 DEF BrokerCalls
  <2>2. /\ brokers[b].running
        /\ brokers[b].id \in MediaIds
        /\ brokers[b].pos \in Nat
        /\ broker = b /\ media \in MediaObject /\ media # NoMedia
    BY <2>1, RunningBrokerHasMedia
       DEF PlayheadAdvances, LiveMediaUpdate, ReleaseSuppressedPlay,
           LiveTimestampUpdate, SetEssSuccess, SetEssError, AddEssLabels,
           SendHeartbeat, PauseAtMediaLength, RunningLive, RunningOnDemand,
           BrokerObject
  <2>3. CASE ReleaseSuppressedPlay(b)
    BY <2>2, <2>3, <1>3 DEF ReleaseSuppressedPlay
  <2>4. CASE SendHeartbeat(b)
    BY <2>2, <2>4, <1>5 DEF SendHeartbeat, EventLabels
  <2>5. CASE PauseAtMediaLength(b)
    BY <2>2, <2>5, <1>4 DEF PauseAtMediaLength, EventLabels, MediaObject
  <2>6. CASE LiveTimestampUpdate(b) \/ SetEssSuccess(b) \/ SetEssError(b)
    BY <2>6, <1>12 DEF LiveTimestampUpdate, SetEssSuccess, SetEssError, EssKeys
  <2> QED
    BY <2>1, <2>2, <2>3, <2>4, <2>5, <2>6, <1>10, <1>11
<1>17. CASE UNCHANGED vars
  BY <1>17 DEF vars
<1> QED
  BY <1>13, <1>14, <1>15, <1>16, <1>17 DEF Next

(* The safety part of IInv.                                                *)
SafetyInv ==
    /\ OnlyTheCurrentBrokerRuns
    /\ BrokerServesTheMedia
    /\ PlayingIsActive
    /\ LabelsDescribeTheMedia
    /\ DelegatesFollowTheClient

(* setMedia leaves no broker running, and makes the new one for the media. *)
LEMMA SetMediaStopsBrokers ==
    ASSUME IInv, NEW m, NEW l, NEW e, SetMedia(m, l, e)
    PROVE  /\ \A b \in Brokers : ~brokers'[b].running
           /\ broker' \in Brokers => brokers'[broker'].id = m
           /\ broker' \in Brokers \cup {NoBroker}
<1>1. \A b \in Brokers : ~StopBroker[b].running
  BY StopBrokerType DEF IInv, OnlyTheCurrentBrokerRuns
<1>2. CASE ~playerDelegate
  BY <1>1, <1>2, PlaybackAssumption DEF SetMedia, InitBroker
<1>3. CASE playerDelegate
  <2>1. PICK b \in Brokers :
          /\ broker' = b
          /\ brokers' = [StopBroker EXCEPT ![b] =
               [id |-> m, live |-> m \in LiveMedia, running |-> FALSE, pos |-> 0]]
    BY <1>3 DEF SetMedia, InitBroker
  <2> QED
    BY <1>1, <2>1, StopBrokerType DEF IInv
<1> QED
  BY <1>2, <1>3

(* setMedia: every broker is stopped and the new one serves the new media. *)
LEMMA SetMediaSafe ==
    ASSUME IInv, TypeOK', NEW m \in MediaIds, NEW l \in Nat, NEW e \in BOOLEAN,
           SetMedia(m, l, e)
    PROVE  SafetyInv'
<1> TypeOK
  BY DEF IInv
<1>1. /\ media' = NewMedia(m, l, e) /\ media' # NoMedia
      /\ media'.id = m
  <2>1. media' = NewMedia(m, l, e)
    BY DEF SetMedia
  <2>2. NewMedia(m, l, e) \in MediaObject
    BY DEF NewMedia, MediaObject
  <2> QED
    BY <2>1, <2>2, NoMediaAssumption DEF NewMedia
<1>2. /\ \A b \in Brokers : ~brokers'[b].running
      /\ broker' # NoBroker => brokers'[broker'].id = m
  BY SetMediaStopsBrokers
<1>3. OnlyTheCurrentBrokerRuns' /\ BrokerServesTheMedia'
  BY <1>1, <1>2
     DEF SetMedia, OnlyTheCurrentBrokerRuns, BrokerServesTheMedia
<1>4. PlayingIsActive'
  BY <1>1, <1>2 DEF SetMedia, TellDelegates, PlayingIsActive
<1>5. LabelsDescribeTheMedia'
  BY <1>1 DEF SetMedia, LabelsAfterSetMedia, NoEssLabels, LabelsDescribeTheMedia
<1>6. DelegatesFollowTheClient'
  BY <1>1 DEF SetMedia, TellDelegates, DelegatesFollowTheClient
<1> QED
  BY <1>3, <1>4, <1>5, <1>6 DEF SafetyInv

(* avPlayEvent, from the app or from releaseSuppressedPlay: it may start   *)
(* the client's broker, and a reported play makes the media active.        *)
LEMMA PlaySafe ==
    ASSUME IInv, TypeOK', NEW p \in Nat, NEW l \in EventLabels, NEW s \in BOOLEAN,
           AvPlayEvent(p, l, s), wanted'.request = "play"
    PROVE  SafetyInv'
<1> TypeOK
  BY DEF IInv
<1>1. /\ media \in MediaObject /\ media # NoMedia /\ echoEnabled
      /\ media' \in MediaObject /\ media' # NoMedia
      /\ media'.id = media.id /\ media'.live = media.live
      /\ media'.enriched = media.enriched
  <2>1. media \in MediaObject /\ media # NoMedia /\ echoEnabled
    BY DEF AvPlayEvent, Reportable, TypeOK
  <2>2. CASE media' = media
    BY <2>1, <2>2
  <2>3. CASE media' = [media EXCEPT !.isPlaying = TRUE, !.isBuffering = FALSE]
    BY <2>1, <2>3, NoMediaAssumption DEF MediaObject
  <2> QED
    BY <2>1, <2>2, <2>3 DEF AvPlayEvent, HoldPlay, ReportPlay
<1>2. /\ \A b \in Brokers : brokers'[b].running => b = broker
      /\ \A b \in Brokers : /\ brokers'[b].live = brokers[b].live
                            /\ brokers'[b].id = brokers[b].id
  BY <1>1, BrokersAfterPlayType
     DEF AvPlayEvent, IInv, OnlyTheCurrentBrokerRuns
<1>3. UNCHANGED <<broker, essLabels, echoEnabled>>
  BY DEF AvPlayEvent
<1>4. dlg'.media = dlg.media /\ dlg'.broker = dlg.broker
  BY DEF AvPlayEvent, HoldPlay, ReportPlay, Report, TypeOK
<1>5. mediaActive' \/ (mediaActive' = mediaActive /\ dlg' = dlg)
  BY DEF AvPlayEvent, HoldPlay, ReportPlay
<1>6. OnlyTheCurrentBrokerRuns' /\ BrokerServesTheMedia'
  BY <1>1, <1>2, <1>3
     DEF IInv, TypeOK, OnlyTheCurrentBrokerRuns, BrokerServesTheMedia
<1>7. PlayingIsActive'
  BY <1>1, <1>3, <1>5 DEF IInv, PlayingIsActive, Reportable
<1>8. LabelsDescribeTheMedia' /\ DelegatesFollowTheClient'
  BY <1>1, <1>3, <1>4
     DEF IInv, LabelsDescribeTheMedia, DelegatesFollowTheClient, NoEssLabels
<1> QED
  BY <1>6, <1>7, <1>8 DEF SafetyInv

(* Pause, buffer, end and the three moves stop the broker and report       *)
(* something other than play.                                              *)
LEMMA NavigationSafe ==
    ASSUME IInv, TypeOK', NEW p \in Nat, NEW l \in EventLabels,
           \/ AvPauseEvent(p, l)
           \/ AvBufferEvent(p, l)
           \/ AvEndEvent(p, l)
           \/ AvMoveEvent(p, l)
    PROVE  SafetyInv'
<1> TypeOK
  BY DEF IInv
<1> USE DEF AvPauseEvent, AvBufferEvent, AvEndEvent, AvMoveEvent
<1>1. media \in MediaObject /\ media # NoMedia /\ echoEnabled
  BY DEF Reportable, TypeOK
<1>2. \/ media' = NoMedia
      \/ /\ media' # NoMedia
         /\ media'.id = media.id /\ media'.live = media.live
         /\ media'.enriched = media.enriched
         /\ mediaActive' = mediaActive
  BY <1>1, NoMediaAssumption DEF MediaObject
<1>3. /\ \A b \in Brokers : ~brokers'[b].running
      /\ \A b \in Brokers : /\ brokers'[b].live = brokers[b].live
                            /\ brokers'[b].id = brokers[b].id
  BY StopBrokerType DEF AvNavigationEvent, IInv, OnlyTheCurrentBrokerRuns
<1>4. UNCHANGED <<broker, essLabels, echoEnabled>>
  OBVIOUS
<1>5. /\ dlg'.media = dlg.media /\ dlg'.broker = dlg.broker
      /\ dlg'.reported # "play"
  BY DEF Report, TypeOK
<1>6. dlg'.played => dlg.played /\ media' # NoMedia
  <2>1. CASE AvEndEvent(p, l)
    <3>1. ~dlg'.played
      BY <2>1, ReportPlayed
    <3> QED
      BY <3>1
  <2>2. CASE AvPauseEvent(p, l) \/ AvBufferEvent(p, l) \/ AvMoveEvent(p, l)
    <3>1. dlg'.played => dlg.played
      BY <2>2, ReportPlayed
    <3>2. media' # NoMedia
      BY <1>1, <2>2, NoMediaAssumption DEF MediaObject
    <3> QED
      BY <3>1, <3>2
  <2> QED
    BY <2>1, <2>2
<1>7. OnlyTheCurrentBrokerRuns' /\ BrokerServesTheMedia'
  BY <1>1, <1>2, <1>3, <1>4
     DEF IInv, TypeOK, OnlyTheCurrentBrokerRuns, BrokerServesTheMedia
<1>8. PlayingIsActive'
  BY <1>1, <1>2, <1>3, <1>4, <1>5, <1>6 DEF IInv, PlayingIsActive, Reportable
<1>9. LabelsDescribeTheMedia' /\ DelegatesFollowTheClient'
  BY <1>1, <1>2, <1>4, <1>5
     DEF IInv, LabelsDescribeTheMedia, DelegatesFollowTheClient, NoEssLabels
<1> QED
  BY <1>7, <1>8, <1>9 DEF SafetyInv

(* liveMediaUpdate: the enriched media is that of the broker which calls,  *)
(* and this is the client's.                                               *)
LEMMA LiveMediaUpdateSafe ==
    ASSUME IInv, TypeOK', NEW b \in Brokers, LiveMediaUpdate(b)
    PROVE  SafetyInv'
<1> TypeOK
  BY DEF IInv
<1>1. /\ b = broker /\ media # NoMedia /\ echoEnabled
      /\ brokers[b].id = media.id /\ brokers[b].id \in MediaIds
      /\ brokers[b].live /\ brokers[b].running
      /\ wanted.request = "play"
  BY RunningBrokerHasMedia
     DEF LiveMediaUpdate, RunningLive, IInv, PlayingIsActive
<1>2. /\ media' # NoMedia /\ media'.id = brokers[b].id
      /\ media'.live /\ media'.enriched
  <2>1. PICK playing \in BOOLEAN, buffering \in BOOLEAN :
          media' = [id |-> brokers[b].id, live |-> TRUE, enriched |-> TRUE,
                    length |-> 0, isPlaying |-> playing, isBuffering |-> buffering]
    BY <1>1 DEF LiveMediaUpdate
  <2>2. media' \in MediaObject
    BY <1>1, <2>1 DEF MediaObject
  <2> QED
    BY <2>1, <2>2, NoMediaAssumption
<1>3. \A c \in Brokers : /\ brokers'[c].running = brokers[c].running
                         /\ brokers'[c].live = brokers[c].live
                         /\ brokers'[c].id = brokers[c].id
  BY DEF LiveMediaUpdate, TypeOK, BrokerObject
<1>4. UNCHANGED <<broker, essLabels, echoEnabled, mediaActive, wanted>>
  BY DEF LiveMediaUpdate
<1>5. /\ dlg'.media = brokers[b].id /\ dlg'.broker = dlg.broker
      /\ dlg'.played = dlg.played
  BY DEF LiveMediaUpdate, TypeOK
<1>6. OnlyTheCurrentBrokerRuns' /\ BrokerServesTheMedia'
  <2>1. broker' = b /\ broker' # NoBroker /\ echoEnabled'
    BY <1>1, <1>4, PlaybackAssumption
  <2>2. brokers'[broker'].live /\ brokers'[broker'].id = media'.id
    BY <1>1, <1>2, <1>3, <2>1
  <2>3. \A c \in Brokers : brokers'[c].running => c = broker'
    BY <1>3, <1>4 DEF IInv, OnlyTheCurrentBrokerRuns
  <2> QED
    BY <1>2, <2>1, <2>2, <2>3
       DEF OnlyTheCurrentBrokerRuns, BrokerServesTheMedia
<1>7. PlayingIsActive'
  BY <1>1, <1>2, <1>4, <1>5 DEF IInv, PlayingIsActive, Reportable
<1>8. LabelsDescribeTheMedia' /\ DelegatesFollowTheClient'
  BY <1>1, <1>2, <1>4, <1>5
     DEF IInv, LabelsDescribeTheMedia, DelegatesFollowTheClient
<1> QED
  BY <1>6, <1>7, <1>8 DEF SafetyInv

(* A label added by a callback describes the client's media.               *)
LEMMA AddEssLabelsSafe ==
    ASSUME IInv, NEW b \in Brokers, NEW keys \in SUBSET EssKeys, AddEssLabels(b, keys)
    PROVE  SafetyInv'
<1>1. media # NoMedia /\ brokers[b].id = media.id /\ echoEnabled
  BY RunningBrokerHasMedia DEF AddEssLabels, RunningLive
<1>2. LabelsDescribeTheMedia'
  BY <1>1 DEF AddEssLabels, IInv, LabelsDescribeTheMedia
<1> QED
  BY <1>2
     DEF AddEssLabels, IInv, SafetyInv, OnlyTheCurrentBrokerRuns,
         BrokerServesTheMedia, PlayingIsActive,
         DelegatesFollowTheClient, Reportable

(* disable leaves no running broker, no media and no label.                *)
LEMMA DisableSafe == IInv /\ Disable => SafetyInv'
<1> SUFFICES ASSUME IInv, Disable PROVE SafetyInv'
  OBVIOUS
<1>1. \A b \in Brokers : ~brokers'[b].running
  BY StopBrokerType DEF IInv, OnlyTheCurrentBrokerRuns, Disable, ClearMedia
<1>2. dlg'.reported = "none" /\ ~dlg'.played
  BY DEF IInv, TypeOK, Disable, ClearMedia
<1> QED
  BY <1>1, <1>2
     DEF Disable, ClearMedia, SafetyInv, OnlyTheCurrentBrokerRuns,
         BrokerServesTheMedia, PlayingIsActive,
         LabelsDescribeTheMedia, DelegatesFollowTheClient, NoEssLabels

(* The playhead is not part of the safety invariants.                      *)
LEMMA PlayheadAdvancesSafe ==
    ASSUME IInv, NEW b \in Brokers, PlayheadAdvances(b)
    PROVE  SafetyInv'
<1>1. \A c \in Brokers : /\ brokers'[c].running = brokers[c].running
                         /\ brokers'[c].live = brokers[c].live
                         /\ brokers'[c].id = brokers[c].id
  BY DEF PlayheadAdvances, IInv, TypeOK, BrokerObject
<1> QED
  BY <1>1, PlaybackAssumption
     DEF PlayheadAdvances, IInv, TypeOK, SafetyInv, OnlyTheCurrentBrokerRuns,
         BrokerServesTheMedia, PlayingIsActive,
         LabelsDescribeTheMedia, DelegatesFollowTheClient, NoEssLabels, Reportable

(* setMediaLength changes neither the identity nor the kind of the media.  *)
LEMMA SetMediaLengthSafe ==
    ASSUME IInv, NEW l \in Nat, SetMediaLength(l)
    PROVE  SafetyInv'
<1>1. /\ media \in MediaObject /\ media' # NoMedia
      /\ media'.id = media.id /\ media'.live = media.live
      /\ media'.enriched = media.enriched
  BY NoMediaAssumption DEF SetMediaLength, IInv, TypeOK, MediaObject
<1>2. /\ dlg'.media = dlg.media /\ dlg'.broker = dlg.broker
      /\ dlg'.reported = dlg.reported /\ dlg'.played = dlg.played
  BY DEF SetMediaLength, IInv, TypeOK
<1> QED
  BY <1>1, <1>2
     DEF SetMediaLength, IInv, TypeOK, SafetyInv, OnlyTheCurrentBrokerRuns,
         BrokerServesTheMedia, PlayingIsActive,
         LabelsDescribeTheMedia, DelegatesFollowTheClient, NoEssLabels, Reportable

(* The actions that change neither the media, nor a broker, nor a label.   *)
LEMMA OtherActionsSafe ==
    ASSUME IInv,
           \/ SetPlayerDelegate
           \/ GetComScoreDeviceID
           \/ Enable
           \/ \E mode \in CacheModes : SetCacheMode(mode)
           \/ \E p \in Nat, l \in EventLabels :
                  AvUserActionEvent(p, l) /\ UNCHANGED wanted
           \/ \E r \in {"play", "other", "end"}, l \in EventLabels : IgnoredEvent(r, l)
           \/ UNCHANGED vars
    PROVE  SafetyInv'
<1>1. UNCHANGED <<media, broker, brokers, mediaActive, essLabels>>
  BY DEF SetPlayerDelegate, GetComScoreDeviceID, Enable, SetCacheMode,
         AvUserActionEvent, IgnoredEvent, vars
<1>2. echoEnabled' = echoEnabled \/ (~echoEnabled /\ echoEnabled')
  BY DEF SetPlayerDelegate, GetComScoreDeviceID, Enable, SetCacheMode,
         AvUserActionEvent, IgnoredEvent, vars
<1>3. /\ dlg'.broker = dlg.broker
      /\ dlg'.media \in {dlg.media, NoMedia}
      /\ dlg'.reported = dlg.reported \/ dlg'.reported = "none"
      /\ dlg'.played = dlg.played
  BY DEF SetPlayerDelegate, GetComScoreDeviceID, Enable, SetCacheMode,
         AvUserActionEvent, IgnoredEvent, Report, vars, IInv, TypeOK
<1>4. wanted' = wanted \/ (~Reportable /\ UNCHANGED <<echoEnabled, dlg>>)
  BY DEF SetPlayerDelegate, GetComScoreDeviceID, Enable, SetCacheMode,
         AvUserActionEvent, IgnoredEvent, vars
<1>5. OnlyTheCurrentBrokerRuns' /\ BrokerServesTheMedia'
  BY <1>1, <1>2
     DEF IInv, OnlyTheCurrentBrokerRuns, BrokerServesTheMedia
<1>6. PlayingIsActive'
  BY <1>1, <1>2, <1>3, <1>4
     DEF IInv, PlayingIsActive, OnlyTheCurrentBrokerRuns, Reportable
<1>7. LabelsDescribeTheMedia' /\ DelegatesFollowTheClient'
  BY <1>1, <1>2, <1>3
     DEF IInv, LabelsDescribeTheMedia, DelegatesFollowTheClient, NoEssLabels
<1> QED
  BY <1>5, <1>6, <1>7 DEF SafetyInv

(* Every step preserves the inductive invariant.                           *)
LEMMA NextInv == IInv /\ [Next]_vars => IInv'
<1> SUFFICES ASSUME IInv, [Next]_vars PROVE IInv'
  OBVIOUS
<1>1. TypeOK'
  BY NextTypeOK
<1>2. TypeOK
  BY DEF IInv
<1>3. CASE AppSetsMedia
  <2>1. /\ \A m \in LiveMedia : m \in MediaIds /\ 0 \in Nat
        /\ \A m \in OnDemandMedia : m \in MediaIds
        /\ \A l \in Lengths : l \in Nat
    BY PlaybackAssumption DEF MediaIds
  <2> QED
    BY <1>1, <1>3, <2>1, SetMediaSafe, SetMediaLengthSafe DEF AppSetsMedia, SafetyInv, IInv
<1>4. CASE AppReports
  <2>1. PICK p \in Positions, l \in Labels \cup {NoLabels} :
          \/ AvPlayEvent(p, l, suppressingPlayEvent) /\ Request("play", l)
          \/ AvPauseEvent(p, l) /\ Request("other", l)
          \/ AvBufferEvent(p, l) /\ Request("other", l)
          \/ AvMoveEvent(p, l) /\ Request("other", l)
          \/ AvEndEvent(p, l) /\ Request("end", l)
          \/ AvUserActionEvent(p, l) /\ UNCHANGED wanted
          \/ \E r \in {"play", "other", "end"} : IgnoredEvent(r, l)
    BY <1>4 DEF AppReports
  <2>2. p \in Nat /\ l \in EventLabels
    BY PlaybackAssumption DEF EventLabels
  <2>3. CASE AvPlayEvent(p, l, suppressingPlayEvent) /\ Request("play", l)
    <3>1. wanted'.request = "play" /\ suppressingPlayEvent \in BOOLEAN
      BY <1>2, <2>3 DEF Request, TypeOK
    <3> QED
      BY <1>1, <2>2, <2>3, <3>1, PlaySafe DEF SafetyInv, IInv
  <2>4. CASE \/ AvPauseEvent(p, l) \/ AvBufferEvent(p, l)
             \/ AvMoveEvent(p, l) \/ AvEndEvent(p, l)
    BY <1>1, <2>2, <2>4, NavigationSafe DEF SafetyInv, IInv
  <2>5. CASE \/ AvUserActionEvent(p, l) /\ UNCHANGED wanted
             \/ \E r \in {"play", "other", "end"} : IgnoredEvent(r, l)
    BY <1>1, <2>2, <2>5, OtherActionsSafe DEF SafetyInv, IInv
  <2> QED
    BY <2>1, <2>3, <2>4, <2>5
<1>5. CASE AppConfigures
  BY <1>1, <1>5, DisableSafe, OtherActionsSafe DEF AppConfigures, SafetyInv, IInv
<1>6. CASE BrokerCalls
  <2>1. PICK b \in Brokers :
          \/ PlayheadAdvances(b)
          \/ LiveMediaUpdate(b)
          \/ ReleaseSuppressedPlay(b)
          \/ LiveTimestampUpdate(b)
          \/ SetEssSuccess(b)
          \/ SetEssError(b)
          \/ SendHeartbeat(b)
          \/ PauseAtMediaLength(b)
    BY <1>6 DEF BrokerCalls
  <2>2. /\ brokers[b].running
        /\ brokers[b].pos \in Nat
        /\ broker = b /\ media \in MediaObject /\ media # NoMedia
    BY <1>2, <2>1, RunningBrokerHasMedia
       DEF PlayheadAdvances, LiveMediaUpdate, ReleaseSuppressedPlay,
           LiveTimestampUpdate, SetEssSuccess, SetEssError, AddEssLabels,
           SendHeartbeat, PauseAtMediaLength, RunningLive, RunningOnDemand,
           BrokerObject, TypeOK
  <2>3. CASE ReleaseSuppressedPlay(b)
    <3>1. wanted'.request = "play"
      BY <2>2, <2>3 DEF ReleaseSuppressedPlay, IInv, PlayingIsActive
    <3>2. AvPlayEvent(brokers[b].pos, suppressedPlayEventLabels, FALSE)
      BY <2>2, <2>3 DEF ReleaseSuppressedPlay
    <3>3. suppressedPlayEventLabels \in EventLabels
      BY <1>2 DEF TypeOK
    <3> QED
      BY <1>1, <2>2, <3>1, <3>2, <3>3, PlaySafe DEF SafetyInv, IInv
  <2>4. CASE SendHeartbeat(b)
    <3>1. AvUserActionEvent(brokers[b].pos, NoLabels) /\ UNCHANGED wanted
      BY <2>4 DEF SendHeartbeat
    <3>2. NoLabels \in EventLabels
      BY DEF EventLabels
    <3> QED
      BY <1>1, <2>2, <3>1, <3>2, OtherActionsSafe DEF SafetyInv, IInv
  <2>5. CASE PauseAtMediaLength(b)
    <3>1. AvPauseEvent(media.length, PauseAtLengthLabels)
      BY <2>5 DEF PauseAtMediaLength
    <3>2. media.length \in Nat /\ PauseAtLengthLabels \in EventLabels
      BY <2>2 DEF MediaObject, EventLabels
    <3> QED
      BY <1>1, <3>1, <3>2, NavigationSafe DEF SafetyInv, IInv
  <2>6. CASE LiveTimestampUpdate(b) \/ SetEssSuccess(b) \/ SetEssError(b)
    <3>1. PICK keys \in SUBSET EssKeys : AddEssLabels(b, keys)
      BY <2>6 DEF LiveTimestampUpdate, SetEssSuccess, SetEssError, EssKeys
    <3> QED
      BY <1>1, <3>1, AddEssLabelsSafe DEF SafetyInv, IInv
  <2>7. CASE PlayheadAdvances(b) \/ LiveMediaUpdate(b)
    BY <1>1, <2>7, PlayheadAdvancesSafe, LiveMediaUpdateSafe DEF SafetyInv, IInv
  <2> QED
    BY <2>1, <2>3, <2>4, <2>5, <2>6, <2>7
<1>7. CASE UNCHANGED vars
  BY <1>1, <1>7, OtherActionsSafe DEF SafetyInv, IInv
<1> QED
  BY <1>3, <1>4, <1>5, <1>6, <1>7 DEF Next

(* The invariant holds before the first media is set.                      *)
LEMMA InitInv == Init => IInv
<1> SUFFICES ASSUME Init PROVE IInv
  OBVIOUS
<1>1. TypeOK
  BY InitTypeOK
<1> QED
  BY <1>1
     DEF Init, IInv, OnlyTheCurrentBrokerRuns, BrokerServesTheMedia,
         PlayingIsActive, LabelsDescribeTheMedia,
         DelegatesFollowTheClient

(* The inductive invariant holds in every state the client reaches.        *)
THEOREM Invariance == Spec => []IInv
  BY InitInv, NextInv, PTL DEF Spec

(* Every variable keeps its type: in particular the unsigned positions and *)
(* lengths never go below zero.                                            *)
THEOREM TypeCorrect == Spec => []TypeOK
<1>1. IInv => TypeOK
  BY DEF IInv
<1> QED
  BY <1>1, Invariance, PTL

(* setMedia, avEndEvent, clearMedia and disable leave no broker but the    *)
(* client's own running, whatever the order of the app's calls.            *)
THEOREM NoStrayBroker == Spec => []OnlyTheCurrentBrokerRuns
<1>1. IInv => OnlyTheCurrentBrokerRuns
  BY DEF IInv
<1> QED
  BY <1>1, Invariance, PTL

(* No callback of a broker reports a play the app has not asked for.       *)
THEOREM NoUnrequestedPlay == Spec => []ReportedPlayWasRequested
<1>1. IInv => ReportedPlayWasRequested
  BY DEF IInv, PlayingIsActive, ReportedPlayWasRequested
<1> QED
  BY <1>1, Invariance, PTL

(* No ESS label is reported with a media it does not describe.             *)
THEOREM LabelsAreCurrent == Spec => []LabelsDescribeTheMedia
<1>1. IInv => LabelsDescribeTheMedia
  BY DEF IInv
<1> QED
  BY <1>1, Invariance, PTL

(* The delegates and the client agree on the media and on the broker.      *)
THEOREM DelegatesAgree == Spec => []DelegatesFollowTheClient
<1>1. IInv => DelegatesFollowTheClient
  BY DEF IInv
<1> QED
  BY <1>1, Invariance, PTL

(* The cache mode is never changed under media that has been reported as   *)
(* playing, until it is ended, replaced or cleared.                        *)
THEOREM CacheModeIsFixed == Spec => CacheModeFixedOncePlayed
<1>1. IInv /\ [Next]_vars => [cacheMode' # cacheMode => ~dlg.played]_vars
  <2> SUFFICES ASSUME IInv, Next, cacheMode' # cacheMode
               PROVE  ~dlg.played
    BY DEF vars
  <2>1. \E mode \in CacheModes : SetCacheMode(mode)
    BY DEF Next, AppSetsMedia, AppReports, AppConfigures, BrokerCalls,
           SetMedia, SetMediaLength, AvPlayEvent, AvPauseEvent, AvBufferEvent,
           AvMoveEvent, AvEndEvent, AvUserActionEvent, IgnoredEvent,
           SetPlayerDelegate, GetComScoreDeviceID, Enable, Disable,
           PlayheadAdvances, LiveMediaUpdate, ReleaseSuppressedPlay,
           LiveTimestampUpdate, SetEssSuccess, SetEssError, AddEssLabels,
           SendHeartbeat, PauseAtMediaLength
  <2> QED
    BY <2>1 DEF SetCacheMode, IInv, PlayingIsActive
<1> QED
  BY <1>1, Invariance, PTL DEF Spec, CacheModeFixedOncePlayed

(* Media that plays, as the delegates or a broker see it, was asked for,   *)
(* and an avPlayEvent that reached the delegates has locked the cache mode.*)
THEOREM PlayingLocksTheCacheMode == Spec => []PlayingIsActive
<1>1. IInv => PlayingIsActive
  BY DEF IInv
<1> QED
  BY <1>1, Invariance, PTL

-----------------------------------------------------------------------------
(* What a step can be, with the parameters of the callbacks resolved: a    *)
(* broker that calls is the client's own.                                  *)

ReleasedPlay ==
    /\ broker \in Brokers /\ brokers[broker].running /\ suppressingPlayEvent
    /\ AvPlayEvent(brokers[broker].pos, suppressedPlayEventLabels, FALSE)
    /\ UNCHANGED wanted

PausedAtLength ==
    /\ broker \in Brokers /\ brokers[broker].running /\ ~brokers[broker].live
    /\ AvPauseEvent(media.length, PauseAtLengthLabels)
    /\ UNCHANGED wanted

(* The steps that neither report anything nor touch what the app asked for.*)
QuietStep ==
    \/ SetPlayerDelegate
    \/ \E mode \in CacheModes : SetCacheMode(mode)
    \/ \E b \in Brokers : PlayheadAdvances(b)
    \/ \E b \in Brokers, keys \in SUBSET EssKeys : AddEssLabels(b, keys)
    \/ \E l \in Nat : SetMediaLength(l)

Step ==
    \/ \E m \in MediaIds, l \in Nat, e \in BOOLEAN :
         SetMedia(m, l, e) /\ (e => m \in LiveMedia)
    \/ \E p \in Nat, l \in EventLabels :
         \/ AvPlayEvent(p, l, suppressingPlayEvent) /\ Request("play", l)
         \/ AvPauseEvent(p, l) /\ Request("other", l)
         \/ AvBufferEvent(p, l) /\ Request("other", l)
         \/ AvMoveEvent(p, l) /\ Request("other", l)
         \/ AvEndEvent(p, l) /\ Request("end", l)
         \/ AvUserActionEvent(p, l) /\ UNCHANGED wanted
    \/ \E r \in {"play", "other", "end"}, l \in EventLabels : IgnoredEvent(r, l)
    \/ GetComScoreDeviceID
    \/ Enable
    \/ Disable
    \/ \E b \in Brokers : LiveMediaUpdate(b)
    \/ ReleasedPlay
    \/ PausedAtLength
    \/ QuietStep

LEMMA StepCases == ASSUME IInv, Next PROVE Step
<1>1. CASE AppSetsMedia
  <2>1. /\ \A m \in LiveMedia : m \in MediaIds /\ 0 \in Nat
        /\ \A m \in OnDemandMedia : m \in MediaIds
        /\ \A l \in Lengths : l \in Nat
    BY PlaybackAssumption DEF MediaIds
  <2> QED
    BY <1>1, <2>1 DEF AppSetsMedia, Step, QuietStep
<1>2. CASE AppReports
  <2>1. PICK p \in Positions, l \in Labels \cup {NoLabels} :
          \/ AvPlayEvent(p, l, suppressingPlayEvent) /\ Request("play", l)
          \/ AvPauseEvent(p, l) /\ Request("other", l)
          \/ AvBufferEvent(p, l) /\ Request("other", l)
          \/ AvMoveEvent(p, l) /\ Request("other", l)
          \/ AvEndEvent(p, l) /\ Request("end", l)
          \/ AvUserActionEvent(p, l) /\ UNCHANGED wanted
          \/ \E r \in {"play", "other", "end"} : IgnoredEvent(r, l)
    BY <1>2 DEF AppReports
  <2>2. p \in Nat /\ l \in EventLabels
    BY PlaybackAssumption DEF EventLabels
  <2> QED
    BY <2>1, <2>2 DEF Step
<1>3. CASE AppConfigures
  BY <1>3 DEF AppConfigures, Step, QuietStep
<1>4. CASE BrokerCalls
  <2>1. PICK b \in Brokers :
          \/ PlayheadAdvances(b)
          \/ LiveMediaUpdate(b)
          \/ ReleaseSuppressedPlay(b)
          \/ LiveTimestampUpdate(b)
          \/ SetEssSuccess(b)
          \/ SetEssError(b)
          \/ SendHeartbeat(b)
          \/ PauseAtMediaLength(b)
    BY <1>4 DEF BrokerCalls
  <2>2. CASE ReleaseSuppressedPlay(b)
    <3>1. brokers[b].running /\ b = broker /\ media # NoMedia
      BY <2>2, RunningBrokerHasMedia DEF ReleaseSuppressedPlay, RunningLive
    <3>2. ReleasedPlay
      BY <2>2, <3>1 DEF ReleaseSuppressedPlay, ReleasedPlay
    <3> QED
      BY <3>2 DEF Step
  <2>3. CASE SendHeartbeat(b)
    <3>1. brokers[b].pos \in Nat /\ NoLabels \in EventLabels
      BY DEF IInv, TypeOK, BrokerObject, EventLabels
    <3> QED
      BY <2>3, <3>1 DEF SendHeartbeat, Step
  <2>4. CASE PauseAtMediaLength(b)
    <3>1. brokers[b].running /\ b = broker
      BY <2>4, RunningBrokerHasMedia DEF PauseAtMediaLength, RunningOnDemand
    <3>2. PausedAtLength
      BY <2>4, <3>1 DEF PauseAtMediaLength, PausedAtLength, RunningOnDemand
    <3> QED
      BY <3>2 DEF Step
  <2>5. CASE LiveTimestampUpdate(b) \/ SetEssSuccess(b) \/ SetEssError(b)
    <3>1. PICK keys \in SUBSET EssKeys : AddEssLabels(b, keys)
      BY <2>5 DEF LiveTimestampUpdate, SetEssSuccess, SetEssError, EssKeys
    <3> QED
      BY <3>1 DEF Step, QuietStep
  <2> QED
    BY <2>1, <2>2, <2>3, <2>4, <2>5 DEF Step, QuietStep
<1> QED
  BY <1>1, <1>2, <1>3, <1>4 DEF Next

(* What avPlayEvent does, whoever calls it.                                *)
LEMMA PlayEffect ==
    ASSUME IInv, NEW p \in Nat, NEW l, NEW s, AvPlayEvent(p, l, s)
    PROVE  /\ media \in MediaObject /\ media # NoMedia /\ echoEnabled
           /\ media' # NoMedia /\ media'.id = media.id /\ media'.live = media.live
           /\ media'.enriched = media.enriched
           /\ UNCHANGED <<broker, echoEnabled>>
           /\ \A b \in Brokers : /\ brokers'[b].live = brokers[b].live
                                 /\ brokers'[b].id = brokers[b].id
           /\ media.live /\ broker \in Brokers => brokers'[broker].running
           /\ dlg'.media = dlg.media /\ dlg'.reported \in {dlg.reported, "play"}
           /\ suppressingPlayEvent' = s
<1>1. media \in MediaObject /\ media # NoMedia /\ echoEnabled
  BY DEF AvPlayEvent, Reportable, IInv, TypeOK
<1>2. media' # NoMedia /\ media'.id = media.id /\ media'.live = media.live
      /\ media'.enriched = media.enriched
  <2>1. CASE media' = media
    BY <1>1, <2>1
  <2>2. CASE media' = [media EXCEPT !.isPlaying = TRUE, !.isBuffering = FALSE]
    BY <1>1, <2>2, NoMediaAssumption DEF MediaObject
  <2> QED
    BY <2>1, <2>2 DEF AvPlayEvent, HoldPlay, ReportPlay
<1>3. \A b \in Brokers : brokers'[b].live = brokers[b].live
                         /\ brokers'[b].id = brokers[b].id
  BY <1>1, BrokersAfterPlayType DEF AvPlayEvent, IInv
<1>4. media.live /\ broker \in Brokers => brokers'[broker].running
  BY <1>1, BrokersAfterPlayType DEF AvPlayEvent, PlayExceedsLength, IInv
<1>5. dlg'.media = dlg.media /\ dlg'.reported \in {dlg.reported, "play"}
  BY DEF AvPlayEvent, HoldPlay, ReportPlay, Report, IInv, TypeOK
<1> QED
  BY <1>1, <1>2, <1>3, <1>5, <1>4 DEF AvPlayEvent

(* A play that is reported at all was not at the end of its media.         *)
LEMMA PlayEventEffect ==
    ASSUME NEW p, NEW l, NEW s, AvPlayEvent(p, l, s)
    PROVE  \/ event' = NoEvent
           \/ /\ event' = [name |-> "play", pos |-> PlayPosition(p), labels |-> l]
              /\ ~PlayExceedsLength(p)
  BY DEF AvPlayEvent, HoldPlay, ReportPlay, Report

(* What pause, buffer, end and the moves have in common.                   *)
LEMMA NavigationEffect ==
    ASSUME IInv, NEW p, NEW l,
           \/ AvPauseEvent(p, l)
           \/ AvBufferEvent(p, l)
           \/ AvEndEvent(p, l)
           \/ AvMoveEvent(p, l)
    PROVE  /\ media \in MediaObject /\ media # NoMedia /\ echoEnabled
           /\ UNCHANGED <<broker, echoEnabled>>
           /\ AvEndEvent(p, l) => media' = NoMedia
           /\ ~AvEndEvent(p, l) =>
                /\ media' # NoMedia
                /\ media'.id = media.id /\ media'.live = media.live
                /\ media'.enriched = media.enriched
           /\ \A b \in Brokers : /\ ~brokers'[b].running
                                 /\ brokers'[b].live = brokers[b].live
                                 /\ brokers'[b].id = brokers[b].id
           /\ dlg'.media = dlg.media
           /\ event'.name # "play" /\ event'.pos = AvPosition(p)
<1>1. media \in MediaObject /\ media # NoMedia /\ echoEnabled
  BY DEF AvPauseEvent, AvBufferEvent, AvEndEvent, AvMoveEvent, Reportable, IInv,
         TypeOK
<1>2. ~AvEndEvent(p, l) => /\ media' # NoMedia
                           /\ media'.id = media.id /\ media'.live = media.live
                           /\ media'.enriched = media.enriched
  BY <1>1, NoMediaAssumption DEF AvPauseEvent, AvBufferEvent, AvMoveEvent, MediaObject
<1>3. \A b \in Brokers : /\ ~brokers'[b].running
                         /\ brokers'[b].live = brokers[b].live
                         /\ brokers'[b].id = brokers[b].id
  BY StopBrokerType
     DEF AvPauseEvent, AvBufferEvent, AvEndEvent, AvMoveEvent, AvNavigationEvent,
         IInv, OnlyTheCurrentBrokerRuns
<1>4. /\ UNCHANGED <<broker, echoEnabled>>
      /\ AvEndEvent(p, l) => media' = NoMedia
  BY DEF AvPauseEvent, AvBufferEvent, AvEndEvent, AvMoveEvent
<1>5. dlg'.media = dlg.media
  BY DEF AvPauseEvent, AvBufferEvent, AvEndEvent, AvMoveEvent, Report, IInv, TypeOK
<1>6. event'.name # "play" /\ event'.pos = AvPosition(p)
  BY DEF AvPauseEvent, AvBufferEvent, AvEndEvent, AvMoveEvent, Report
<1> QED
  BY <1>1, <1>2, <1>3, <1>4, <1>5, <1>6

(* No event is reported by the steps that report none.                     *)
LEMMA QuietEffect ==
    ASSUME IInv, QuietStep
    PROVE  /\ event' = NoEvent
           /\ UNCHANGED <<echoEnabled, broker, suppressingPlayEvent,
                          suppressedPlayEventLabels, wanted>>
           /\ media' = NoMedia <=> media = NoMedia
           /\ media # NoMedia => /\ media'.id = media.id
                                 /\ media'.live = media.live
                                 /\ media'.enriched = media.enriched
           /\ \A b \in Brokers : /\ brokers'[b].running = brokers[b].running
                                 /\ brokers'[b].live = brokers[b].live
                                 /\ brokers'[b].id = brokers[b].id
           /\ dlg'.media = dlg.media /\ dlg'.reported = dlg.reported
<1>1. /\ event' = NoEvent
      /\ UNCHANGED <<echoEnabled, broker, suppressingPlayEvent,
                     suppressedPlayEventLabels, wanted>>
  BY DEF QuietStep, SetPlayerDelegate, SetCacheMode, PlayheadAdvances,
         AddEssLabels, SetMediaLength
<1>2. /\ media' = NoMedia <=> media = NoMedia
      /\ media # NoMedia => /\ media'.id = media.id
                            /\ media'.live = media.live
                            /\ media'.enriched = media.enriched
  <2>1. CASE media' = media
    BY <2>1
  <2>2. CASE \E l \in Nat : SetMediaLength(l)
    BY <2>2, NoMediaAssumption DEF SetMediaLength, IInv, TypeOK, MediaObject
  <2> QED
    BY <2>1, <2>2 DEF QuietStep, SetPlayerDelegate, SetCacheMode,
                      PlayheadAdvances, AddEssLabels
<1>3. \A b \in Brokers : /\ brokers'[b].running = brokers[b].running
                         /\ brokers'[b].live = brokers[b].live
                         /\ brokers'[b].id = brokers[b].id
  <2>1. CASE brokers' = brokers
    BY <2>1
  <2>2. CASE \E b \in Brokers : PlayheadAdvances(b)
    BY <2>2 DEF PlayheadAdvances, IInv, TypeOK, BrokerObject
  <2> QED
    BY <2>1, <2>2 DEF QuietStep, SetPlayerDelegate, SetCacheMode, AddEssLabels,
                      SetMediaLength
<1>4. dlg'.media = dlg.media /\ dlg'.reported = dlg.reported
  BY DEF QuietStep, SetPlayerDelegate, SetCacheMode, PlayheadAdvances,
         AddEssLabels, SetMediaLength, IInv, TypeOK
<1> QED
  BY <1>1, <1>2, <1>3, <1>4

-----------------------------------------------------------------------------
(* The kind of the broker is the kind of the media, which is why a live    *)
(* broker never reports on-demand media; and only live media is enriched.  *)

KindsAgree ==
    /\ \A b \in Brokers : brokers[b].live <=> brokers[b].id \in LiveMedia
    /\ media # NoMedia => /\ media.live <=> media.id \in LiveMedia
                          /\ media.enriched => media.live

LEMMA KindsInit == Init => KindsAgree
  BY PlaybackAssumption DEF Init, KindsAgree, MediaIds

(* Every step keeps the kinds: only setMedia makes a broker, and it makes  *)
(* it for the media it sets; liveMediaUpdate keeps the identity.           *)
LEMMA KindsNext == IInv /\ KindsAgree /\ [Next]_vars => KindsAgree'
<1> SUFFICES ASSUME IInv, KindsAgree, [Next]_vars PROVE KindsAgree'
  OBVIOUS
<1>1. ASSUME NEW m \in MediaIds, NEW l \in Nat, NEW e \in BOOLEAN,
             SetMedia(m, l, e), e => m \in LiveMedia
      PROVE  KindsAgree'
  <2>1. /\ media'.id = m /\ (media'.live <=> m \in LiveMedia)
        /\ media'.enriched => media'.live
    BY <1>1 DEF SetMedia, NewMedia
  <2>2. /\ StopBroker \in [Brokers -> BrokerObject]
        /\ \A b \in Brokers : StopBroker[b].live <=> StopBroker[b].id \in LiveMedia
    BY StopBrokerType DEF IInv, KindsAgree
  <2>3. \A b \in Brokers : brokers'[b].live <=> brokers'[b].id \in LiveMedia
    <3>1. CASE ~playerDelegate
      BY <1>1, <2>2, <3>1 DEF SetMedia, InitBroker
    <3>2. CASE playerDelegate
      <4>1. PICK c \in Brokers :
              brokers' = [StopBroker EXCEPT ![c] =
                 [id |-> m, live |-> m \in LiveMedia, running |-> FALSE, pos |-> 0]]
        BY <1>1, <3>2 DEF SetMedia, InitBroker
      <4> QED
        BY <2>2, <4>1
    <3> QED
      BY <3>1, <3>2
  <2> QED
    BY <2>1, <2>3 DEF KindsAgree
<1>2. ASSUME NEW p \in Nat, NEW l, NEW s, AvPlayEvent(p, l, s)
      PROVE  KindsAgree'
  BY <1>2, PlayEffect DEF KindsAgree
<1>3. ASSUME NEW p, NEW l,
             \/ AvPauseEvent(p, l) \/ AvBufferEvent(p, l)
             \/ AvMoveEvent(p, l) \/ AvEndEvent(p, l)
      PROVE  KindsAgree'
  BY <1>3, NavigationEffect DEF KindsAgree
<1>4. ASSUME NEW b \in Brokers, LiveMediaUpdate(b)
      PROVE  KindsAgree'
  <2>1. /\ media'.id = brokers[b].id /\ media'.live
        /\ brokers[b].live
        /\ \A c \in Brokers : brokers'[c].live = brokers[c].live
                               /\ brokers'[c].id = brokers[c].id
    BY <1>4 DEF LiveMediaUpdate, RunningLive, IInv, TypeOK, BrokerObject
  <2> QED
    BY <2>1 DEF KindsAgree
<1>5. CASE Disable
  BY <1>5, StopBrokerType DEF Disable, ClearMedia, KindsAgree, IInv
<1>6. CASE QuietStep
  BY <1>6, QuietEffect DEF KindsAgree
<1>7. CASE UNCHANGED <<media, brokers>>
  BY <1>7 DEF KindsAgree
<1>8. ReleasedPlay => KindsAgree'
  BY <1>2 DEF ReleasedPlay, IInv, TypeOK, BrokerObject
<1>9. PausedAtLength => KindsAgree'
  BY <1>3 DEF PausedAtLength
<1>10. \/ GetComScoreDeviceID \/ Enable
       \/ \E p \in Nat, l \in EventLabels : AvUserActionEvent(p, l)
       \/ \E r \in {"play", "other", "end"}, l \in EventLabels : IgnoredEvent(r, l)
       \/ UNCHANGED vars
       => UNCHANGED <<media, brokers>>
  BY DEF GetComScoreDeviceID, Enable, AvUserActionEvent, IgnoredEvent, vars
<1>11. Step \/ UNCHANGED vars
  BY StepCases
<1> QED
  BY <1>1, <1>2, <1>3, <1>4, <1>5, <1>6, <1>7, <1>8, <1>9, <1>10, <1>11 DEF Step

(* A broker and the media it serves are of one kind in every state.        *)
LEMMA KindsInvariance == Spec => []KindsAgree
  BY KindsInit, KindsNext, Invariance, PTL DEF Spec

(* Every step keeps a broker at work for live media the app wants to play: *)
(* only avPlayEvent makes the app's wish a play, and it starts the broker; *)
(* the one callback that stops a broker comes from an on-demand one.       *)
LEMMA LivePlayNext ==
    IInv /\ KindsAgree /\ LivePlayHasItsBroker /\ [Next]_vars
        => LivePlayHasItsBroker'
<1> SUFFICES ASSUME IInv, KindsAgree, LivePlayHasItsBroker, [Next]_vars
             PROVE  LivePlayHasItsBroker'
  OBVIOUS
<1>1. ASSUME NEW m \in MediaIds, NEW l \in Nat, NEW e \in BOOLEAN,
             SetMedia(m, l, e)
      PROVE  LivePlayHasItsBroker'
  BY <1>1 DEF SetMedia, NothingWanted, LivePlayHasItsBroker
<1>2. ASSUME NEW p \in Nat, NEW l, NEW s, AvPlayEvent(p, l, s)
      PROVE  LivePlayHasItsBroker'
  <2>1. broker \in Brokers \cup {NoBroker}
    BY DEF IInv, TypeOK
  <2> QED
    BY <1>2, <2>1, PlayEffect
       DEF LivePlayHasItsBroker, Reportable, KindsAgree, IInv, BrokerServesTheMedia
<1>3. ASSUME NEW p, NEW l, NEW r \in {"other", "end"}, Request(r, l)
      PROVE  LivePlayHasItsBroker'
  BY <1>3 DEF Request, LivePlayHasItsBroker
<1>4. ASSUME NEW b \in Brokers, LiveMediaUpdate(b)
      PROVE  LivePlayHasItsBroker'
  <2>1. b = broker /\ brokers[b].running /\ brokers[b].live
    BY <1>4, RunningBrokerHasMedia DEF LiveMediaUpdate, RunningLive
  <2>2. /\ broker' = broker /\ media'.id = brokers[b].id
        /\ brokers'[b].running /\ brokers'[b].live
        /\ brokers'[b].id = brokers[b].id
    BY <1>4, <2>1 DEF LiveMediaUpdate, IInv, TypeOK, BrokerObject
  <2> QED
    BY <2>1, <2>2 DEF LivePlayHasItsBroker
<1>5. CASE Disable
  BY <1>5 DEF Disable, LivePlayHasItsBroker, Reportable
<1>6. CASE QuietStep
  <2>1. broker \in Brokers \cup {NoBroker}
    BY DEF IInv, TypeOK
  <2> QED
    BY <1>6, <2>1, QuietEffect DEF LivePlayHasItsBroker, Reportable
<1>7. CASE UNCHANGED <<echoEnabled, media, broker, brokers, wanted>>
  BY <1>7 DEF LivePlayHasItsBroker, Reportable
<1>8. ASSUME NEW r, NEW l, IgnoredEvent(r, l)
      PROVE  LivePlayHasItsBroker'
  BY <1>8 DEF IgnoredEvent, LivePlayHasItsBroker, Reportable
<1>9. CASE Enable
  <2>1. broker' = NoBroker
    BY <1>9 DEF Enable, IInv, BrokerServesTheMedia
  <2> QED
    BY <2>1 DEF LivePlayHasItsBroker
<1>10. CASE ReleasedPlay
  <2>1. brokers[broker].pos \in Nat
    BY <1>10 DEF ReleasedPlay, IInv, TypeOK, BrokerObject
  <2> QED
    BY <1>2, <1>10, <2>1 DEF ReleasedPlay
<1>11. CASE PausedAtLength
  <2>1. /\ media # NoMedia /\ echoEnabled /\ broker # NoBroker
        /\ ~brokers[broker].live /\ brokers[broker].id = media.id
        /\ broker \in Brokers
    BY <1>11, RunningBrokerHasMedia, PlaybackAssumption DEF PausedAtLength
  <2>2. ~media.live
    BY <2>1 DEF KindsAgree
  <2>3. ~AvEndEvent(media.length, PauseAtLengthLabels) =>
          media'.live = media.live
    BY <1>11, NavigationEffect DEF PausedAtLength
  <2>4. media' = NoMedia \/ media'.live = media.live
    BY <1>11, <2>3, NavigationEffect DEF PausedAtLength
  <2> QED
    BY <2>2, <2>4 DEF LivePlayHasItsBroker, Reportable
<1>12. \/ GetComScoreDeviceID
       \/ \E p \in Nat, l \in EventLabels : AvUserActionEvent(p, l) /\ UNCHANGED wanted
       \/ UNCHANGED vars
       => UNCHANGED <<echoEnabled, media, broker, brokers, wanted>>
  BY DEF GetComScoreDeviceID, AvUserActionEvent, vars
<1>13. Step \/ UNCHANGED vars
  BY StepCases
<1> QED
  BY <1>1, <1>2, <1>3, <1>4, <1>5, <1>6, <1>7, <1>8, <1>9, <1>10, <1>11, <1>12,
     <1>13
     DEF Step

(* Live media the app wants to play, and that has a broker at all, has its *)
(* own live broker running: a held play can be released.                   *)
THEOREM LivePlayIsFollowed == Spec => []LivePlayHasItsBroker
<1>1. Init => LivePlayHasItsBroker
  BY DEF Init, LivePlayHasItsBroker
<1> QED
  BY <1>1, LivePlayNext, Invariance, KindsInvariance, PTL DEF Spec

(* A position that passes the test of avPlayEvent, or the clamp of the     *)
(* other events, respects the length.                                      *)
LEMMA ReportedPositions ==
    ASSUME IInv, NEW p \in Nat, broker # NoBroker, media # NoMedia, ~media.live,
           media.length # 0
    PROVE  /\ ~PlayExceedsLength(p) => PlayPosition(p) + OneSecond < media.length
           /\ \/ AvPosition(p) + OneSecond < media.length
              \/ AvPosition(p) = media.length
<1>1. media.length \in Nat
  BY DEF IInv, TypeOK, MediaObject
<1>2. ~PlayExceedsLength(p) => PlayPosition(p) + OneSecond < media.length
  BY <1>1, OneSecondAssumption
     DEF PlayExceedsLength, PlayPosition, PositionExceedsMediaLength
<1>3. \/ AvPosition(p) + OneSecond < media.length
      \/ AvPosition(p) = media.length
  BY <1>1, OneSecondAssumption
     DEF AvPosition, PreventPositionExceedingMediaLength, PositionExceedsMediaLength
<1> QED
  BY <1>2, <1>3

(* Positions of on-demand media reach the delegates clamped: none lies     *)
(* within a second of the end without being the end, and no play starts    *)
(* there.                                                                  *)
THEOREM PositionsRespectTheLength == Spec => OnDemandPositionsRespectTheLength
<1>1. IInv /\ KindsAgree /\ [Next]_vars
        => [\/ event'.name = "none" \/ broker = NoBroker \/ media = NoMedia
            \/ media.live \/ media.length = 0
            \/ event'.pos + OneSecond < media.length
            \/ event'.name # "play" /\ event'.pos = media.length]_vars
  <2> SUFFICES ASSUME IInv, KindsAgree, Next, event'.name # "none",
                      broker # NoBroker, media # NoMedia, ~media.live,
                      media.length # 0
               PROVE  \/ event'.pos + OneSecond < media.length
                      \/ event'.name # "play" /\ event'.pos = media.length
    OBVIOUS
  <2> DEFINE Goal == \/ event'.pos + OneSecond < media.length
                     \/ event'.name # "play" /\ event'.pos = media.length
  <2>1. event' # NoEvent
    BY DEF NoEvent
  <2>2. ASSUME NEW p \in Nat, NEW l, NEW s, AvPlayEvent(p, l, s)
        PROVE  Goal
    <3>1. event' = [name |-> "play", pos |-> PlayPosition(p), labels |-> l]
          /\ ~PlayExceedsLength(p)
      BY <2>1, <2>2, PlayEventEffect
    <3> QED
      BY <3>1, ReportedPositions
  <2>3. ASSUME NEW p \in Nat, NEW l,
               \/ AvPauseEvent(p, l) \/ AvBufferEvent(p, l)
               \/ AvMoveEvent(p, l) \/ AvEndEvent(p, l)
        PROVE  Goal
    BY <2>3, NavigationEffect, ReportedPositions
  <2>4. ASSUME NEW p \in Nat, NEW l, AvUserActionEvent(p, l)
        PROVE  Goal
    <3>1. event'.name # "play" /\ event'.pos = AvPosition(p)
      BY <2>4 DEF AvUserActionEvent, Report
    <3> QED
      BY <3>1, ReportedPositions
  <2>5. ASSUME NEW b \in Brokers, LiveMediaUpdate(b)
        PROVE  FALSE
    <3>1. brokers[b].live /\ brokers[b].id = media.id
      BY <2>5, RunningBrokerHasMedia DEF LiveMediaUpdate, RunningLive
    <3> QED
      BY <3>1 DEF KindsAgree
  <2>6. ReleasedPlay => Goal
    BY <2>2 DEF ReleasedPlay, IInv, TypeOK, BrokerObject
  <2>7. PausedAtLength => Goal
    BY <2>3 DEF PausedAtLength, IInv, TypeOK, MediaObject
  <2>8. ~QuietStep
    BY <2>1, QuietEffect
  <2>9. /\ ~GetComScoreDeviceID /\ ~Enable /\ ~Disable
        /\ \A m \in MediaIds, l \in Nat, e \in BOOLEAN : ~SetMedia(m, l, e)
        /\ \A r \in {"play", "other", "end"}, l \in EventLabels : ~IgnoredEvent(r, l)
    BY <2>1 DEF GetComScoreDeviceID, Enable, Disable, SetMedia, IgnoredEvent
  <2> HIDE DEF Goal
  <2>10. Goal
    BY <2>2, <2>3, <2>4, <2>5, <2>6, <2>7, <2>8, <2>9, StepCases DEF Step, IInv, TypeOK
  <2> QED
    BY <2>10 DEF Goal
<1> QED
  BY <1>1, KindsInvariance, Invariance, PTL DEF Spec, OnDemandPositionsRespectTheLength

-----------------------------------------------------------------------------
(* While a play is held back and its broker runs, the labels the client    *)
(* has kept are those of the app's latest avPlayEvent.                     *)

KeptLabelsAreTheLatest ==
    /\ suppressingPlayEvent /\ media # NoMedia /\ media.enriched
    /\ broker \in Brokers /\ brokers[broker].running
    => suppressedPlayEventLabels = wanted.labels

LEMMA KeptLabelsInit == Init => KeptLabelsAreTheLatest
  BY DEF Init, KeptLabelsAreTheLatest

(* A play replaces the kept labels; everything else that could make them   *)
(* stale stops the broker, drops the media or ends the holding back.       *)
LEMMA KeptLabelsNext ==
    IInv /\ KindsAgree /\ KeptLabelsAreTheLatest /\ [Next]_vars
        => KeptLabelsAreTheLatest'
<1> SUFFICES ASSUME IInv, KindsAgree, KeptLabelsAreTheLatest, [Next]_vars
             PROVE  KeptLabelsAreTheLatest'
  OBVIOUS
<1>1. ASSUME NEW m \in MediaIds, NEW l \in Nat, NEW e \in BOOLEAN,
             SetMedia(m, l, e)
      PROVE  KeptLabelsAreTheLatest'
  BY <1>1, SetMediaStopsBrokers DEF KeptLabelsAreTheLatest
<1>2. ASSUME NEW p \in Nat, NEW l \in EventLabels,
             AvPlayEvent(p, l, suppressingPlayEvent), Request("play", l)
      PROVE  KeptLabelsAreTheLatest'
  <2>1. suppressingPlayEvent' = suppressingPlayEvent /\ wanted'.labels = l
        /\ media # NoMedia /\ media'.enriched = media.enriched
    BY <1>2, PlayEffect DEF Request
  <2>2. media.enriched /\ suppressingPlayEvent => suppressedPlayEventLabels' = l
    <3> HAVE media.enriched /\ suppressingPlayEvent
    <3>1. media.live
      BY <2>1 DEF KindsAgree
    <3>2. ~PlayExceedsLength(p)
      BY <3>1 DEF PlayExceedsLength
    <3> QED
      BY <1>2, <3>1, <3>2 DEF AvPlayEvent, HoldPlay
  <2> QED
    BY <2>1, <2>2 DEF KeptLabelsAreTheLatest
<1>3. ASSUME NEW p, NEW l,
             \/ AvPauseEvent(p, l) \/ AvBufferEvent(p, l)
             \/ AvMoveEvent(p, l) \/ AvEndEvent(p, l)
      PROVE  KeptLabelsAreTheLatest'
  BY <1>3, NavigationEffect DEF KeptLabelsAreTheLatest
<1>4. ASSUME NEW b \in Brokers, LiveMediaUpdate(b)
      PROVE  KeptLabelsAreTheLatest'
  BY <1>4 DEF LiveMediaUpdate, KeptLabelsAreTheLatest
<1>5. CASE Disable
  BY <1>5 DEF Disable, ClearMedia, KeptLabelsAreTheLatest
<1>6. CASE QuietStep
  BY <1>6, QuietEffect DEF KeptLabelsAreTheLatest
<1>7. CASE UNCHANGED <<suppressingPlayEvent, media, broker, brokers,
                       suppressedPlayEventLabels, wanted>>
  BY <1>7 DEF KeptLabelsAreTheLatest
<1>8. ASSUME NEW r, NEW l, IgnoredEvent(r, l)
      PROVE  KeptLabelsAreTheLatest'
  <2>1. media = NoMedia /\ media' = media
    BY <1>8 DEF IgnoredEvent, Reportable, IInv, BrokerServesTheMedia
  <2> QED
    BY <2>1 DEF KeptLabelsAreTheLatest
<1>9. ReleasedPlay => KeptLabelsAreTheLatest'
  BY DEF ReleasedPlay, AvPlayEvent, KeptLabelsAreTheLatest
<1>10. PausedAtLength => KeptLabelsAreTheLatest'
  BY <1>3 DEF PausedAtLength
<1>11. \/ GetComScoreDeviceID \/ Enable
       \/ \E p \in Nat, l \in EventLabels : AvUserActionEvent(p, l) /\ UNCHANGED wanted
       \/ UNCHANGED vars
       => UNCHANGED <<suppressingPlayEvent, media, broker, brokers,
                      suppressedPlayEventLabels, wanted>>
  BY DEF GetComScoreDeviceID, Enable, AvUserActionEvent, vars
<1>12. Step \/ UNCHANGED vars
  BY StepCases
<1> QED
  BY <1>1, <1>2, <1>3, <1>4, <1>5, <1>6, <1>7, <1>8, <1>9, <1>10, <1>11, <1>12
     DEF Step

(* A play, reported at once or released later, carries the labels of the   *)
(* app's latest avPlayEvent, unless a flag left over from earlier media    *)
(* lets the broker of media not yet enriched release a play.               *)
THEOREM PlaysCarryTheirLabels == Spec => PlayCarriesItsLabels
<1>1. IInv /\ KeptLabelsAreTheLatest /\ [Next]_vars
        => [event'.name = "play"
              => \/ event'.labels = wanted'.labels
                 \/ suppressingPlayEvent /\ ~media.enriched]_vars
  <2> SUFFICES ASSUME IInv, KeptLabelsAreTheLatest, Next, event'.name = "play",
                      ~(suppressingPlayEvent /\ ~media.enriched)
               PROVE  event'.labels = wanted'.labels
    OBVIOUS
  <2>1. event' # NoEvent
    BY DEF NoEvent
  <2>2. ASSUME NEW p \in Nat, NEW l \in EventLabels,
               AvPlayEvent(p, l, suppressingPlayEvent), Request("play", l)
        PROVE  event'.labels = wanted'.labels
    BY <2>1, <2>2, PlayEventEffect DEF Request
  <2>3. ReleasedPlay => event'.labels = wanted'.labels
    <3> HAVE ReleasedPlay
    <3>1. AvPlayEvent(brokers[broker].pos, suppressedPlayEventLabels, FALSE)
      BY DEF ReleasedPlay
    <3>2. event'.labels = suppressedPlayEventLabels
      <4>1. event' = [name |-> "play", pos |-> PlayPosition(brokers[broker].pos),
                      labels |-> suppressedPlayEventLabels]
        BY <2>1, <3>1, PlayEventEffect
      <4> QED
        BY <4>1
    <3>3. suppressedPlayEventLabels = wanted.labels
      BY <3>1 DEF ReleasedPlay, AvPlayEvent, Reportable, KeptLabelsAreTheLatest
    <3> QED
      BY <3>2, <3>3 DEF ReleasedPlay
  <2>4. /\ \A p, l : /\ ~AvPauseEvent(p, l) /\ ~AvBufferEvent(p, l)
                     /\ ~AvMoveEvent(p, l) /\ ~AvEndEvent(p, l)
                     /\ ~AvUserActionEvent(p, l)
        /\ \A b \in Brokers : ~LiveMediaUpdate(b)
        /\ ~PausedAtLength
    <3>1. \A p, l : ~Report("pause", p, l) /\ ~Report("buffer", p, l)
                   /\ ~Report("move", p, l) /\ ~Report("end", p, l)
                   /\ ~Report("userAction", p, l)
      BY DEF Report
    <3>2. \A b \in Brokers : ~LiveMediaUpdate(b)
      BY DEF LiveMediaUpdate
    <3> QED
      BY <3>1, <3>2
         DEF AvPauseEvent, AvBufferEvent, AvMoveEvent, AvEndEvent,
             AvUserActionEvent, PausedAtLength
  <2>5. /\ ~GetComScoreDeviceID /\ ~Enable /\ ~Disable
        /\ \A m \in MediaIds, l \in Nat, e \in BOOLEAN : ~SetMedia(m, l, e)
        /\ \A r \in {"play", "other", "end"}, l \in EventLabels : ~IgnoredEvent(r, l)
    BY <2>1 DEF GetComScoreDeviceID, Enable, Disable, SetMedia, IgnoredEvent
  <2>6. ~QuietStep
    BY <2>1, QuietEffect
  <2> QED
    BY <2>2, <2>3, <2>4, <2>5, <2>6, StepCases DEF Step
<1>2. Spec => []KeptLabelsAreTheLatest
  BY KeptLabelsInit, KeptLabelsNext, Invariance, KindsInvariance, PTL DEF Spec
<1> QED
  BY <1>1, <1>2, Invariance, PTL DEF Spec, PlayCarriesItsLabels

-----------------------------------------------------------------------------
(* The refinement of PlaybackSession.                                      *)

(* A request of the app the client acts on, seen from the session.         *)
LEMMA SessionNavigation ==
    ASSUME IInv, NEW p, NEW l,
           \/ AvPauseEvent(p, l) \/ AvBufferEvent(p, l) \/ AvMoveEvent(p, l),
           Request("other", l)
    PROVE  Session!AskToStop
<1>1. dlg'.reported \in {"pause", "buffer", "move"}
  BY DEF AvPauseEvent, AvBufferEvent, AvMoveEvent, Report, IInv, TypeOK
<1>2. /\ media \in MediaObject /\ media # NoMedia /\ echoEnabled
      /\ echoEnabled' = echoEnabled
      /\ media' # NoMedia /\ media'.id = media.id
      /\ dlg'.media = dlg.media
  <2>1. ~AvEndEvent(p, l)
    BY <1>1 DEF AvEndEvent, Report, IInv, TypeOK
  <2> QED
    BY <2>1, NavigationEffect
<1>3. media.id # NoMedia
  BY <1>2, PlaybackAssumption DEF MediaObject
<1>4. wanted'.request = "other"
  BY DEF Request
<1> QED
  BY <1>1, <1>2, <1>3, <1>4 DEF Session!AskToStop, Session!Active, Session!Stops

(* Every step of the client is a step of the session or changes nothing it *)
(* shows: callbacks of the broker come to follow-ups of a play the app     *)
(* still wants, because only then does a broker run.                       *)
LEMMA SessionStep == IInv /\ [Next]_vars => [Session!Next]_(Session!vars)
<1> SUFFICES ASSUME IInv, [Next]_vars PROVE [Session!Next]_(Session!vars)
  OBVIOUS
<1> DEFINE Goal == [Session!Next]_(Session!vars)
<1>0. media # NoMedia => media \in MediaObject /\ media.id \in MediaIds
                         /\ media.id # NoMedia
  BY PlaybackAssumption DEF IInv, TypeOK, MediaObject
<1>1. ASSUME NEW m \in MediaIds, NEW l \in Nat, NEW e \in BOOLEAN,
             SetMedia(m, l, e)
      PROVE  Goal
  <2>1. media' = NewMedia(m, l, e) /\ media' # NoMedia /\ media'.id = m
    <3>1. NewMedia(m, l, e) \in MediaObject /\ NewMedia(m, l, e).id = m
      BY DEF NewMedia, MediaObject
    <3> QED
      BY <1>1, <3>1, NoMediaAssumption DEF SetMedia
  <2>2. dlg'.media = m /\ dlg'.reported = "none" /\ wanted'.request = "none"
        /\ echoEnabled /\ echoEnabled' = echoEnabled
    BY <1>1 DEF SetMedia, TellDelegates, NothingWanted
  <2>3. Session!Choose(m)
    BY <2>1, <2>2 DEF Session!Choose
  <2> QED
    BY <2>3 DEF Session!Next
<1>2. ASSUME NEW p \in Nat, NEW l \in EventLabels,
             AvPlayEvent(p, l, suppressingPlayEvent), Request("play", l)
      PROVE  Goal
  <2>1. /\ media # NoMedia /\ echoEnabled /\ echoEnabled' = echoEnabled
        /\ media' # NoMedia /\ media'.id = media.id
        /\ dlg'.media = dlg.media /\ dlg'.reported \in {dlg.reported, "play"}
    BY <1>2, PlayEffect
  <2>2. wanted'.request = "play"
    BY <1>2 DEF Request
  <2>3. Session!AskToPlay
    BY <1>0, <2>1, <2>2 DEF Session!AskToPlay, Session!Active
  <2> QED
    BY <2>3 DEF Session!Next
<1>3. ASSUME NEW p \in Nat, NEW l \in EventLabels, Request("other", l),
             AvPauseEvent(p, l) \/ AvBufferEvent(p, l) \/ AvMoveEvent(p, l)
      PROVE  Goal
  <2>1. Session!AskToStop
    BY <1>3, SessionNavigation
  <2> QED
    BY <2>1 DEF Session!Next
<1>4. ASSUME NEW p \in Nat, NEW l \in EventLabels, AvEndEvent(p, l),
             Request("end", l)
      PROVE  Goal
  <2>1. /\ media # NoMedia /\ echoEnabled /\ echoEnabled' = echoEnabled
        /\ media' = NoMedia /\ dlg'.media = dlg.media
    BY <1>4, NavigationEffect
  <2>2. wanted'.request = "end" /\ dlg'.reported = "end"
    BY <1>4 DEF Request, AvEndEvent, Report, IInv, TypeOK
  <2>3. Session!AskToEnd
    BY <1>0, <2>1, <2>2 DEF Session!AskToEnd, Session!Active
  <2> QED
    BY <2>3 DEF Session!Next
<1>5. ASSUME NEW r \in {"play", "other", "end"}, NEW l \in EventLabels,
             IgnoredEvent(r, l)
      PROVE  Goal
  <2>1. /\ ~(echoEnabled /\ media # NoMedia) /\ wanted'.request = r
        /\ UNCHANGED <<echoEnabled, media, dlg>>
    BY <1>5 DEF IgnoredEvent, Request, Reportable
  <2>2. Session!AskInVain(r)
    BY <2>1 DEF Session!AskInVain, Session!Active
  <2> QED
    BY <2>2 DEF Session!Next
<1>6. ASSUME GetComScoreDeviceID
      PROVE  Goal
  <2>1. dlg'.media = NoMedia /\ dlg'.reported = "none"
        /\ UNCHANGED <<echoEnabled, media, wanted>>
    BY <1>6 DEF GetComScoreDeviceID, IInv, TypeOK
  <2>2. Session!Forget
    BY <2>1 DEF Session!Forget
  <2> QED
    BY <2>2 DEF Session!Next
<1>7. ASSUME Enable
      PROVE  Goal
  <2>1. Session!SwitchOn
    BY <1>7 DEF Enable, Session!SwitchOn
  <2> QED
    BY <2>1 DEF Session!Next
<1>8. ASSUME Disable
      PROVE  Goal
  <2>1. /\ echoEnabled /\ echoEnabled' = FALSE /\ media' = NoMedia
        /\ dlg'.media = NoMedia /\ dlg'.reported = "none" /\ UNCHANGED wanted
    BY <1>8 DEF Disable, ClearMedia, IInv, TypeOK
  <2>2. Session!SwitchOff
    BY <2>1 DEF Session!SwitchOff
  <2> QED
    BY <2>2 DEF Session!Next
<1>9. ASSUME NEW b \in Brokers, LiveMediaUpdate(b)
      PROVE  Goal
  <2>1. /\ media # NoMedia /\ echoEnabled /\ wanted.request = "play"
        /\ brokers[b].id = media.id /\ brokers[b].id \in MediaIds
    BY <1>9, RunningBrokerHasMedia
       DEF LiveMediaUpdate, RunningLive, IInv, PlayingIsActive
  <2>2. media' # NoMedia /\ media'.id = media.id
    <3>1. PICK playing \in BOOLEAN, buffering \in BOOLEAN :
            media' = [id |-> brokers[b].id, live |-> TRUE, enriched |-> TRUE,
                      length |-> 0, isPlaying |-> playing, isBuffering |-> buffering]
      BY <1>9 DEF LiveMediaUpdate
    <3>2. media' \in MediaObject
      BY <2>1, <3>1 DEF MediaObject
    <3> QED
      BY <2>1, <3>1, <3>2, NoMediaAssumption
  <2>3. dlg'.media = media.id /\ dlg'.reported = "play"
        /\ UNCHANGED <<echoEnabled, wanted>>
    BY <1>9, <2>1 DEF LiveMediaUpdate, IInv, TypeOK
  <2>4. Session!FollowUp
    BY <1>0, <2>1, <2>2, <2>3 DEF Session!FollowUp, Session!Active
  <2> QED
    BY <2>4 DEF Session!Next
<1>10. ASSUME ReleasedPlay
       PROVE  Goal
  <2>1. wanted.request = "play" /\ UNCHANGED wanted
    BY <1>10 DEF ReleasedPlay, IInv, PlayingIsActive
  <2>2. /\ media # NoMedia /\ echoEnabled /\ echoEnabled' = echoEnabled
        /\ media' # NoMedia /\ media'.id = media.id
        /\ dlg'.media = dlg.media /\ dlg'.reported \in {dlg.reported, "play"}
    BY <1>10, PlayEffect DEF ReleasedPlay, IInv, TypeOK, BrokerObject
  <2>3. CASE dlg'.reported = "play"
    <3>1. Session!FollowUp
      BY <1>0, <2>1, <2>2, <2>3 DEF Session!FollowUp, Session!Active
    <3> QED
      BY <3>1 DEF Session!Next
  <2>4. CASE dlg'.reported = dlg.reported
    BY <2>1, <2>2, <2>4 DEF Session!vars
  <2> QED
    BY <2>2, <2>3, <2>4
<1>11. ASSUME PausedAtLength
       PROVE  Goal
  <2>1. wanted.request = "play" /\ UNCHANGED wanted
    BY <1>11 DEF PausedAtLength, IInv, PlayingIsActive
  <2>2. dlg'.reported = "pause"
    BY <1>11 DEF PausedAtLength, AvPauseEvent, Report, IInv, TypeOK
  <2>3. /\ media # NoMedia /\ echoEnabled /\ echoEnabled' = echoEnabled
        /\ media' # NoMedia /\ media'.id = media.id /\ dlg'.media = dlg.media
    <3>1. ~AvEndEvent(media.length, PauseAtLengthLabels)
      BY <2>2 DEF AvEndEvent, Report, IInv, TypeOK
    <3> QED
      BY <1>11, <3>1, NavigationEffect DEF PausedAtLength
  <2>4. Session!FollowUp
    BY <1>0, <2>1, <2>2, <2>3 DEF Session!FollowUp, Session!Active
  <2> QED
    BY <2>4 DEF Session!Next
<1>12. ASSUME NEW p \in Nat, NEW l \in EventLabels, AvUserActionEvent(p, l),
              UNCHANGED wanted
       PROVE  Goal
  BY <1>12 DEF AvUserActionEvent, Report, Session!vars
<1>13. ASSUME QuietStep
       PROVE  Goal
  BY <1>13, QuietEffect DEF Session!vars
<1>14. ASSUME UNCHANGED vars
       PROVE  Goal
  BY <1>14 DEF vars, Session!vars
<1>15. Step \/ UNCHANGED vars
  BY StepCases
<1> HIDE DEF Goal
<1>16. Goal
  BY <1>1, <1>2, <1>3, <1>4, <1>5, <1>6, <1>7, <1>8, <1>9, <1>10, <1>11, <1>12,
     <1>13, <1>14, <1>15
     DEF Step
<1> QED
  BY <1>16 DEF Goal

(* The client implements the abstract playback session.                    *)
THEOREM SessionRefinement == Spec => ImplementsSession
<1>1. Init => Session!Init
  BY DEF Init, Session!Init, NothingWanted
<1> QED
  BY <1>1, SessionStep, Invariance, PTL DEF Spec, ImplementsSession, Session!Spec

-----------------------------------------------------------------------------
(* What a composition with the rest of the client needs.                   *)

(* A step that reports something is a step of an enabled client.           *)
LEMMA ReportsNeedEnabled == ASSUME IInv, Next PROVE event' = NoEvent \/ echoEnabled
<1> SUFFICES ASSUME event' # NoEvent PROVE echoEnabled
  OBVIOUS
<1>1. ASSUME NEW p, NEW l, NEW s,
             \/ AvPlayEvent(p, l, s) \/ AvPauseEvent(p, l) \/ AvBufferEvent(p, l)
             \/ AvMoveEvent(p, l) \/ AvEndEvent(p, l) \/ AvUserActionEvent(p, l)
      PROVE  echoEnabled
  BY <1>1 DEF AvPlayEvent, AvPauseEvent, AvBufferEvent, AvMoveEvent, AvEndEvent,
              AvUserActionEvent, Reportable
<1>2. ASSUME NEW b \in Brokers, LiveMediaUpdate(b)
      PROVE  echoEnabled
  BY <1>2, RunningBrokerHasMedia DEF LiveMediaUpdate, RunningLive
<1>3. ReleasedPlay \/ PausedAtLength => echoEnabled
  BY <1>1 DEF ReleasedPlay, PausedAtLength
<1>4. ~QuietStep
  BY QuietEffect
<1>5. /\ ~GetComScoreDeviceID /\ ~Enable /\ ~Disable
      /\ \A m \in MediaIds, l \in Nat, e \in BOOLEAN : ~SetMedia(m, l, e)
      /\ \A r \in {"play", "other", "end"}, l \in EventLabels : ~IgnoredEvent(r, l)
  BY DEF GetComScoreDeviceID, Enable, Disable, SetMedia, IgnoredEvent
<1> QED
  BY <1>1, <1>2, <1>3, <1>4, <1>5, StepCases DEF Step

(* The invariant says nothing of event but its type.                       *)
LEMMA SilentStep ==
    ASSUME IInv, event' = NoEvent,
           UNCHANGED <<echoEnabled, playerDelegate, media, broker, brokers,
                       mediaActive, suppressingPlayEvent,
                       suppressedPlayEventLabels, cacheMode, essLabels, dlg,
                       wanted>>
    PROVE  IInv'
<1>1. event' \in [name : EventNames, pos : Nat, labels : EventLabels]
  BY DEF NoEvent, EventNames, EventLabels
<1>2. TypeOK'
  BY <1>1 DEF IInv, TypeOK
<1> QED
  BY <1>2
     DEF IInv, OnlyTheCurrentBrokerRuns, BrokerServesTheMedia,
         PlayingIsActive, LabelsDescribeTheMedia,
         DelegatesFollowTheClient, Reportable, NoEssLabels
=============================================================================
