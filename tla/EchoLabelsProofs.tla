-------------------------- MODULE EchoLabelsProofs --------------------------
(***************************************************************************)
(* Theorems about EchoLabels, for every set of keys, values and labels the *)
(* app may give, and for every idempotent way of cleaning them.            *)
(***************************************************************************)
EXTENDS EchoLabels, TLAPS

CleanKeys == {CleanKey[k] : k \in Keys}

(* Cleaning the dictionary once more changes none of its keys and values.  *)
WellCleaned(d) ==
    \A c \in DOMAIN d : CleanKey[c] = c /\ CleanValue[c][d[c]] = d[c]

-----------------------------------------------------------------------------
(* Dictionaries.                                                           *)

(* A dictionary of the app is a function on some of the keys.              *)
LEMMA DictionaryShape ==
    ASSUME NEW d \in Dictionary
    PROVE  DOMAIN d \subseteq Keys /\ d \in [DOMAIN d -> Values]
  BY DEF Dictionary

(* A function on clean keys is a clean dictionary.                         *)
LEMMA CleanDictionaryIntro ==
    ASSUME NEW ks \in SUBSET CleanKeys, NEW f \in [ks -> Values]
    PROVE  f \in CleanDictionary
  BY DEF CleanDictionary, CleanKeys

(* A clean dictionary is a function on some of the clean keys.             *)
LEMMA CleanDictionaryShape ==
    ASSUME NEW f \in CleanDictionary
    PROVE  DOMAIN f \subseteq CleanKeys /\ f \in [DOMAIN f -> Values]
  BY DEF CleanDictionary, CleanKeys

(* Clean dictionaries are dictionaries, and NoLabels is none of them.      *)
LEMMA CleanDictionariesAreDictionaries ==
    ASSUME NEW f \in CleanDictionary
    PROVE  f \in Dictionary /\ f # NoLabels
<1>1. DOMAIN f \subseteq Keys /\ f \in [DOMAIN f -> Values]
  BY CleanDictionaryShape, LabelAssumption DEF CleanKeys
<1> QED
  BY <1>1, DictionaryAssumption DEF Dictionary

(* Merging keeps dictionaries clean and the keys of both.                  *)
LEMMA MergeClean ==
    ASSUME NEW f \in CleanDictionary, NEW g \in CleanDictionary
    PROVE  /\ Merge(f, g) \in CleanDictionary
           /\ DOMAIN Merge(f, g) = DOMAIN f \cup DOMAIN g
<1>1. /\ DOMAIN f \subseteq CleanKeys /\ f \in [DOMAIN f -> Values]
      /\ DOMAIN g \subseteq CleanKeys /\ g \in [DOMAIN g -> Values]
  BY CleanDictionaryShape
<1>2. Merge(f, g) \in [DOMAIN f \cup DOMAIN g -> Values]
  BY <1>1 DEF Merge
<1> QED
  BY <1>1, <1>2, CleanDictionaryIntro

(* So does setting one clean key.                                          *)
LEMMA PutClean ==
    ASSUME NEW f \in CleanDictionary, NEW k \in CleanKeys, NEW v \in Values
    PROVE  /\ Put(f, k, v) \in CleanDictionary
           /\ DOMAIN Put(f, k, v) = DOMAIN f \cup {k}
<1>1. DOMAIN f \subseteq CleanKeys /\ f \in [DOMAIN f -> Values]
  BY CleanDictionaryShape
<1>2. Put(f, k, v) \in [DOMAIN f \cup {k} -> Values]
  BY <1>1 DEF Put
<1> QED
  BY <1>1, <1>2, CleanDictionaryIntro

(* So does removing keys.                                                  *)
LEMMA WithoutClean ==
    ASSUME NEW f \in CleanDictionary, NEW ks
    PROVE  /\ Without(f, ks) \in CleanDictionary
           /\ DOMAIN Without(f, ks) = DOMAIN f \ ks
<1>1. DOMAIN f \subseteq CleanKeys /\ f \in [DOMAIN f -> Values]
  BY CleanDictionaryShape
<1>2. Without(f, ks) \in [DOMAIN f \ ks -> Values]
  BY <1>1 DEF Without, Restrict
<1> QED
  BY <1>1, <1>2, CleanDictionaryIntro

(* The keys the client uses for its own labels and for managed labels are  *)
(* clean and not empty, so removeLabels finds them.                        *)
LEMMA OwnKeysAreClean ==
    /\ EssKeys \cup ManagedKeys \subseteq CleanKeys
    /\ SanitiseKeys(EssKeys) = EssKeys
  BY LabelAssumption DEF CleanKeys, SanitiseKeys

(* Cleaning a value gives a value.                                         *)
LEMMA CleanValueType ==
    ASSUME NEW k \in Keys, NEW v \in Values
    PROVE  CleanValue[k][v] \in Values
  BY LabelAssumption

-----------------------------------------------------------------------------
(* Cleaning.                                                               *)

(* Whatever order the dictionary is traversed in, the result is clean, and *)
(* its keys are the clean forms of the keys given.                         *)
LEMMA SanitiseCleans ==
    ASSUME NEW d \in Dictionary, NEW clean \in SanitiseLabels(d)
    PROVE  /\ clean \in CleanDictionary
           /\ DOMAIN clean = {CleanKey[k] : k \in DOMAIN d}
           /\ WellCleaned(clean)
<1> DEFINE keys == {CleanKey[k] : k \in DOMAIN d}
<1>1. PICK last \in [keys -> DOMAIN d] :
        clean = [c \in keys |-> CleanValue[c][d[last[c]]]]
  BY DEF SanitiseLabels
<1>2. DOMAIN d \subseteq Keys /\ d \in [DOMAIN d -> Values]
  BY DictionaryShape
<1>3. \A c \in keys : c \in Keys /\ c \in CleanKeys /\ CleanKey[c] = c
  BY <1>2, LabelAssumption DEF CleanKeys
<1>4. \A c \in keys : d[last[c]] \in Values
  BY <1>1, <1>2
<1> HIDE DEF keys
<1>5. clean \in [keys -> Values]
  BY <1>1, <1>3, <1>4, CleanValueType
<1>6. \A c \in keys : CleanValue[c][clean[c]] = clean[c]
  BY <1>1, <1>3, <1>4, LabelAssumption
<1>7. WellCleaned(clean)
  BY <1>3, <1>5, <1>6 DEF WellCleaned
<1>8. clean \in CleanDictionary
  BY <1>3, <1>5, CleanDictionaryIntro
<1> QED
  BY <1>5, <1>7, <1>8 DEF keys

(* Cleaning is deterministic the second time: in a clean dictionary no two *)
(* keys collide, so the order does not matter, and nothing changes.        *)
LEMMA SanitiseTwice ==
    ASSUME NEW d \in CleanDictionary, WellCleaned(d),
           NEW clean \in SanitiseLabels(d)
    PROVE  clean = d
<1> DEFINE keys == {CleanKey[k] : k \in DOMAIN d}
<1>1. PICK last \in [keys -> DOMAIN d] :
        /\ \A c \in keys : CleanKey[last[c]] = c
        /\ clean = [c \in keys |-> CleanValue[c][d[last[c]]]]
  BY DEF SanitiseLabels
<1>2. keys = DOMAIN d
  BY DEF WellCleaned
<1>3. d \in [DOMAIN d -> Values]
  BY CleanDictionaryShape
<1> HIDE DEF keys
<1>4. \A c \in DOMAIN d : last[c] = c
  BY <1>1, <1>2 DEF WellCleaned
<1>5. \A c \in DOMAIN d : clean[c] = d[c]
  BY <1>1, <1>2, <1>4 DEF WellCleaned
<1>6. clean = [c \in DOMAIN d |-> d[c]]
  BY <1>1, <1>2, <1>5
<1> QED
  BY <1>3, <1>6

(* Event labels, if there are any, are cleaned.                            *)
LEMMA SanitiseOptionalCleans ==
    ASSUME NEW d \in Dictionaries \cup {NoLabels}, NEW clean \in SanitiseOptional(d)
    PROVE  /\ clean \in CleanDictionary \cup {NoLabels}
           /\ clean # NoLabels => WellCleaned(clean)
<1>1. CASE d = NoLabels
  BY <1>1 DEF SanitiseOptional
<1>2. CASE d # NoLabels
  <2>1. d \in Dictionary /\ clean \in SanitiseLabels(d)
    BY <1>2, DictionaryAssumption DEF SanitiseOptional
  <2> QED
    BY <2>1, SanitiseCleans
<1> QED
  BY <1>1, <1>2

-----------------------------------------------------------------------------
(* The inductive invariant.                                                *)

(* Media is there only while the library is enabled, so the client's own   *)
(* labels are only ever added while it is.                                 *)
MediaNeedsEnabled == media => echoEnabled

(* The flag the client keeps tells the truth about the delegates.          *)
FlagTellsTheTruth == counterNameSet => counter

(* The labels of a held play are those it arrived with, and cleaning them  *)
(* once more would not change them.                                        *)
HeldLabelsAreClean ==
    /\ held = promised
    /\ held # NoLabels => WellCleaned(held)

IInv ==
    /\ TypeOK
    /\ EveryLabelIsWanted
    /\ MediaNeedsEnabled
    /\ FlagTellsTheTruth
    /\ UserActionsHaveACounterName
    /\ HeldLabelsAreClean

(* No event is a well-formed value of event.                               *)
LEMMA NoEventType ==
    /\ NoEvent \in [name : {"none", "view", "userAction", "error", "heldPlay"},
                    labels : CleanDictionary \cup {NoLabels}]
    /\ NoEvent.name = "none"
  BY DEF NoEvent

(* The invariant holds initially.                                          *)
LEMMA InitInv == Init => IInv
<1> SUFFICES ASSUME Init PROVE IInv
  OBVIOUS
<1>1. labels \in CleanDictionary /\ DOMAIN labels = {}
  <2>1. labels \in [{} -> Values] /\ DOMAIN labels = {}
    BY DEF Init, NoDictionary
  <2> QED
    BY <2>1, CleanDictionaryIntro
<1>2. TypeOK
  BY <1>1, NoEventType DEF Init, TypeOK
<1> QED
  BY <1>1, <1>2, NoEventType
     DEF Init, IInv, EveryLabelIsWanted, MediaNeedsEnabled, FlagTellsTheTruth,
         UserActionsHaveACounterName, HeldLabelsAreClean

(* A step that touches only the labels and what the app asked for keeps    *)
(* the rest of the invariant.                                              *)
LEMMA LabelStep ==
    ASSUME IInv, labels' \in CleanDictionary, added' \subseteq Keys,
           event' = NoEvent, EveryLabelIsWanted',
           UNCHANGED <<echoEnabled, counterNameSet, media, held, counter, promised>>
    PROVE  IInv'
  BY NoEventType
     DEF IInv, TypeOK, MediaNeedsEnabled, FlagTellsTheTruth,
         UserActionsHaveACounterName, HeldLabelsAreClean

(* A step that only sends an event keeps the labels wanted.                *)
LEMMA EventStep ==
    ASSUME IInv, UNCHANGED <<echoEnabled, media, labels, added>>,
           counterNameSet' \in BOOLEAN, counter' \in BOOLEAN,
           FlagTellsTheTruth', UserActionsHaveACounterName',
           held' \in CleanDictionary \cup {NoLabels}, HeldLabelsAreClean',
           event' \in [name : {"none", "view", "userAction", "error", "heldPlay"},
                       labels : CleanDictionary \cup {NoLabels}]
    PROVE  IInv'
  BY DEF IInv, TypeOK, EveryLabelIsWanted, MediaNeedsEnabled, HeldLabelsAreClean

(* Every step preserves the invariant.                                     *)
LEMMA NextInv == IInv /\ [Next]_vars => IInv'
<1> SUFFICES ASSUME IInv, [Next]_vars PROVE IInv'
  OBVIOUS
<1>0. /\ labels \in CleanDictionary /\ added \subseteq Keys
      /\ Keys \cap EssKeys = EssKeys /\ CleanKeys \subseteq Keys
      /\ held \in CleanDictionary \cup {NoLabels}
      /\ echoEnabled \in BOOLEAN /\ media \in BOOLEAN
      /\ counterNameSet \in BOOLEAN /\ counter \in BOOLEAN
  BY LabelAssumption DEF IInv, TypeOK, CleanKeys
<1>1. ASSUME NEW d \in Dictionaries, AddLabels(d) PROVE IInv'
  <2>1. PICK clean \in SanitiseLabels(d) : labels' = Merge(labels, clean)
    BY <1>1 DEF AddLabels
  <2>2. d \in Dictionary /\ DOMAIN d \subseteq Keys
    BY DictionaryAssumption, DictionaryShape
  <2>3. /\ clean \in CleanDictionary
        /\ DOMAIN clean = {CleanKey[k] : k \in DOMAIN d}
    BY <2>2, SanitiseCleans
  <2>4. /\ labels' \in CleanDictionary
        /\ DOMAIN labels' = DOMAIN labels \cup {CleanKey[k] : k \in DOMAIN d}
    BY <1>0, <2>1, <2>3, MergeClean
  <2>5. added' = added \cup DOMAIN d /\ echoEnabled' = echoEnabled
    BY <1>1 DEF AddLabels
  <2>6. EveryLabelIsWanted'
    BY <2>4, <2>5 DEF EveryLabelIsWanted, IInv
  <2> QED
    BY <1>0, <1>1, <2>2, <2>4, <2>5, <2>6, LabelStep DEF AddLabels
<1>2. ASSUME NEW k \in ManagedKeys, NEW v \in Values, AddManagedLabel(k, v)
      PROVE  IInv'
  <2>1. k \in Keys /\ k \in CleanKeys /\ CleanKey[k] = k
    BY LabelAssumption, OwnKeysAreClean
  <2>2. labels' = Put(labels, k, CleanValue[k][v]) /\ added' = added \cup {k}
        /\ echoEnabled' = echoEnabled
    BY <1>2 DEF AddManagedLabel
  <2>3. /\ labels' \in CleanDictionary
        /\ DOMAIN labels' = DOMAIN labels \cup {k}
    BY <1>0, <2>1, <2>2, CleanValueType, PutClean
  <2>4. EveryLabelIsWanted'
    BY <2>1, <2>2, <2>3 DEF EveryLabelIsWanted, IInv
  <2> QED
    BY <1>0, <1>2, <2>1, <2>2, <2>3, <2>4, LabelStep DEF AddManagedLabel
<1>3. ASSUME NEW k \in Keys, RemoveLabels({k}) PROVE IInv'
  <2>1. /\ labels' = Without(labels, SanitiseKeys({k})) /\ added' = added \ {k}
        /\ echoEnabled' = echoEnabled
    BY <1>3 DEF RemoveLabels
  <2>2. /\ labels' \in CleanDictionary
        /\ DOMAIN labels' = DOMAIN labels \ SanitiseKeys({k})
    BY <1>0, <2>1, WithoutClean
  <2>3. \A c \in DOMAIN labels' \ {EmptyKey} : c # CleanKey[k]
    BY <2>2 DEF SanitiseKeys
  <2>4. EveryLabelIsWanted'
    BY <2>1, <2>2, <2>3 DEF EveryLabelIsWanted, IInv
  <2> QED
    BY <1>0, <1>3, <2>1, <2>2, <2>4, LabelStep DEF RemoveLabels
<1>4. /\ WithoutEssLabels \in CleanDictionary
      /\ DOMAIN WithoutEssLabels = DOMAIN labels \ EssKeys
  BY <1>0, WithoutClean, OwnKeysAreClean DEF WithoutEssLabels
<1>5. ASSUME NEW v \in Values, SetMedia(v) PROVE IInv'
  <2>1. /\ echoEnabled /\ echoEnabled' = echoEnabled /\ media' = TRUE
        /\ labels' = Put(WithoutEssLabels, EssEnabled, CleanValue[EssEnabled][v])
        /\ event' = NoEvent
        /\ UNCHANGED <<counterNameSet, held, counter, promised, added>>
    BY <1>5 DEF SetMedia
  <2>2. EssEnabled \in CleanKeys /\ EssEnabled \in Keys /\ EssEnabled \in EssKeys
    BY LabelAssumption, OwnKeysAreClean
  <2>3. /\ labels' \in CleanDictionary
        /\ DOMAIN labels' = (DOMAIN labels \ EssKeys) \cup {EssEnabled}
    BY <1>4, <2>1, <2>2, CleanValueType, PutClean
  <2>4. EveryLabelIsWanted'
    BY <2>1, <2>2, <2>3 DEF EveryLabelIsWanted, IInv
  <2> QED
    BY <2>1, <2>3, <2>4, NoEventType
       DEF IInv, TypeOK, MediaNeedsEnabled, FlagTellsTheTruth,
           UserActionsHaveACounterName, HeldLabelsAreClean
<1>6. ASSUME NEW k \in EssKeys \ {EssEnabled}, NEW v \in Values, AddEssLabel(k, v)
      PROVE  IInv'
  <2>1. k \in Keys /\ k \in CleanKeys /\ k \in EssKeys
    BY LabelAssumption, OwnKeysAreClean
  <2>2. /\ labels' = Put(labels, k, CleanValue[k][v])
        /\ echoEnabled' = echoEnabled /\ added' = added /\ media
    BY <1>6 DEF AddEssLabel
  <2>3. /\ labels' \in CleanDictionary
        /\ DOMAIN labels' = DOMAIN labels \cup {k}
    BY <1>0, <2>1, <2>2, CleanValueType, PutClean
  <2>4. EveryLabelIsWanted'
    BY <2>1, <2>2, <2>3 DEF EveryLabelIsWanted, IInv, MediaNeedsEnabled
  <2> QED
    BY <1>0, <1>6, <2>2, <2>3, <2>4, LabelStep DEF AddEssLabel
<1>7. CASE AvEndEvent
  BY <1>7, NoEventType
     DEF AvEndEvent, IInv, TypeOK, EveryLabelIsWanted, MediaNeedsEnabled,
         FlagTellsTheTruth, UserActionsHaveACounterName, HeldLabelsAreClean
<1>8. CASE Disable
  <2>1. /\ echoEnabled' = FALSE /\ media' = FALSE /\ labels' = WithoutEssLabels
        /\ event' = NoEvent
        /\ UNCHANGED <<counterNameSet, held, counter, promised, added>>
    BY <1>8 DEF Disable
  <2>2. EveryLabelIsWanted'
    BY <1>4, <2>1 DEF EveryLabelIsWanted, IInv
  <2> QED
    BY <1>4, <2>1, <2>2, NoEventType
       DEF IInv, TypeOK, MediaNeedsEnabled, FlagTellsTheTruth,
           UserActionsHaveACounterName, HeldLabelsAreClean
<1>9. CASE Enable
  BY <1>9, NoEventType
     DEF Enable, IInv, TypeOK, EveryLabelIsWanted, MediaNeedsEnabled,
         FlagTellsTheTruth, UserActionsHaveACounterName, HeldLabelsAreClean
<1>10. CASE SetCounterName
  BY <1>10, <1>0, EventStep, NoEventType
     DEF SetCounterName, IInv, FlagTellsTheTruth, UserActionsHaveACounterName,
         HeldLabelsAreClean
<1>11. ASSUME NEW d \in Dictionaries \cup {NoLabels},
              ViewEvent(d) \/ UserActionEvent(d) \/ ErrorEvent(d)
       PROVE  IInv'
  <2>1. PICK clean \in SanitiseOptional(d), name \in {"view", "userAction", "error"} :
          /\ event' = [name |-> name, labels |-> clean]
          /\ name = "userAction" => counterNameSet /\ counter' = counter
    BY <1>11 DEF ViewEvent, UserActionEvent, ErrorEvent
  <2>2. clean \in CleanDictionary \cup {NoLabels}
    BY SanitiseOptionalCleans
  <2>3. /\ UNCHANGED <<echoEnabled, media, held, labels, promised, added>>
        /\ \/ counterNameSet' = TRUE /\ counter' = TRUE
           \/ counterNameSet' = counterNameSet /\ counter' = counter
    BY <1>11 DEF ViewEvent, UserActionEvent, ErrorEvent
  <2>4. FlagTellsTheTruth'
    BY <2>3 DEF FlagTellsTheTruth, IInv
  <2>5. UserActionsHaveACounterName'
    BY <2>1 DEF UserActionsHaveACounterName, FlagTellsTheTruth, IInv
  <2>6. HeldLabelsAreClean'
    BY <2>3 DEF HeldLabelsAreClean, IInv
  <2> QED
    BY <1>0, <2>1, <2>2, <2>3, <2>4, <2>5, <2>6, EventStep
<1>12. ASSUME NEW d \in Dictionaries \cup {NoLabels}, HoldPlay(d) PROVE IInv'
  <2>1. PICK clean \in SanitiseOptional(d) : held' = clean /\ promised' = clean
    BY <1>12 DEF HoldPlay, KeepForLater
  <2>2. /\ event' = NoEvent
        /\ UNCHANGED <<echoEnabled, counterNameSet, media, labels, counter, added>>
    BY <1>12 DEF HoldPlay
  <2>3. held' \in CleanDictionary \cup {NoLabels} /\ HeldLabelsAreClean'
    BY <2>1, SanitiseOptionalCleans DEF HeldLabelsAreClean, WellCleaned
  <2> QED
    BY <1>0, <2>2, <2>3, EventStep, NoEventType
       DEF IInv, FlagTellsTheTruth, UserActionsHaveACounterName
<1>13. CASE ReleasePlay
  <2>1. PICK clean \in SanitiseOptional(held) :
          event' = [name |-> "heldPlay", labels |-> clean]
    BY <1>13 DEF ReleasePlay
  <2>2. clean = held
    BY <1>0, SanitiseTwice DEF SanitiseOptional, IInv, HeldLabelsAreClean
  <2>3. UNCHANGED <<echoEnabled, counterNameSet, media, held, labels, counter,
                    promised, added>>
    BY <1>13 DEF ReleasePlay
  <2>4. FlagTellsTheTruth' /\ UserActionsHaveACounterName' /\ HeldLabelsAreClean'
    BY <2>1, <2>3
       DEF IInv, FlagTellsTheTruth, UserActionsHaveACounterName, HeldLabelsAreClean
  <2> QED
    BY <1>0, <2>1, <2>2, <2>3, <2>4, EventStep
<1>14. CASE UNCHANGED vars
  BY <1>14
     DEF vars, IInv, TypeOK, EveryLabelIsWanted, MediaNeedsEnabled,
         FlagTellsTheTruth, UserActionsHaveACounterName, HeldLabelsAreClean
<1> QED
  BY <1>1, <1>2, <1>3, <1>5, <1>6, <1>7, <1>8, <1>9, <1>10, <1>11, <1>12,
     <1>13, <1>14
     DEF Next

(* The inductive invariant holds in every reachable state.                 *)
THEOREM LabelInvariance == Spec => []IInv
  BY InitInv, NextInv, PTL DEF Spec

(* Every variable keeps its type: whatever the app gives, what reaches the *)
(* delegates has clean keys.                                               *)
THEOREM LabelTypeCorrect == Spec => []TypeOK
<1>1. IInv => TypeOK
  BY DEF IInv
<1> QED
  BY <1>1, LabelInvariance, PTL

(* The delegates hold no label that nobody wants: each was added under a   *)
(* key the app has not removed since, or belongs to the client's media and *)
(* is gone once the library is disabled.                                   *)
THEOREM NoUnwantedLabel == Spec => []EveryLabelIsWanted
<1>1. IInv => EveryLabelIsWanted
  BY DEF IInv
<1> QED
  BY <1>1, LabelInvariance, PTL

(* A user action reaches only delegates that have a counter name.          *)
THEOREM CounterNameComesFirst == Spec => []UserActionsHaveACounterName
<1>1. IInv => UserActionsHaveACounterName
  BY DEF IInv
<1> QED
  BY <1>1, LabelInvariance, PTL

(* A held play is reported with the labels it arrived with, although they  *)
(* are cleaned a second time in an unknown order.                          *)
THEOREM HeldLabelsAreKept == Spec => HeldPlayKeepsItsLabels
<1>1. IInv /\ [Next]_vars
        => [event'.name = "heldPlay" => event'.labels = promised]_vars
  <2> SUFFICES ASSUME IInv, Next, event'.name = "heldPlay"
               PROVE  event'.labels = promised
    OBVIOUS
  <2>1. ReleasePlay
    <3>1. event' # NoEvent
      BY NoEventType
    <3>2. ASSUME NEW d \in Dictionaries \cup {NoLabels}
          PROVE  ~ViewEvent(d) /\ ~UserActionEvent(d) /\ ~ErrorEvent(d) /\ ~HoldPlay(d)
      <4>1. ~ViewEvent(d)
        BY DEF ViewEvent
      <4>2. ~UserActionEvent(d)
        BY DEF UserActionEvent
      <4>3. ~ErrorEvent(d)
        BY DEF ErrorEvent
      <4>4. ~HoldPlay(d)
        BY <3>1 DEF HoldPlay
      <4> QED
        BY <4>1, <4>2, <4>3, <4>4
    <3> QED
      BY <3>1, <3>2
         DEF Next, AddLabels, AddManagedLabel, RemoveLabels, SetMedia,
             AddEssLabel, AvEndEvent, Disable, Enable, SetCounterName
  <2>2. PICK clean \in SanitiseOptional(held) :
          event' = [name |-> "heldPlay", labels |-> clean]
    BY <2>1 DEF ReleasePlay
  <2>3. clean = held
    BY SanitiseTwice DEF SanitiseOptional, IInv, TypeOK, HeldLabelsAreClean
  <2> QED
    BY <2>2, <2>3 DEF IInv, HeldLabelsAreClean
<1> QED
  BY <1>1, LabelInvariance, PTL DEF Spec, HeldPlayKeepsItsLabels
=============================================================================
