----------------------------- MODULE EchoLabels -----------------------------
(***************************************************************************)
(* Labels and app events.  Labels are dictionaries: persistent ones are    *)
(* handed to the delegates and attached to everything they report, event   *)
(* labels go with one event.  The client cleans keys and values first, so  *)
(* different keys of the app can become the same key, or no key at all.    *)
(* The client adds and removes labels of its own for the media it plays.   *)
(*                                                                         *)
(* The LabelCleanser is not part of the repository: cleaning is a pair of  *)
(* functions of which only idempotence is assumed.                         *)
(***************************************************************************)
EXTENDS EchoDictionary

CONSTANTS Keys,           \* label keys, raw and clean
          Values,         \* label values, raw and clean
          EmptyKey, EmptyValue,
          CleanKey,       \* cleanLabelKey
          CleanValue,     \* cleanLabelValue, for each clean key
          EssKeys,        \* the keys clearMedia removes
          EssEnabled,     \* the one of them setMedia adds
          ManagedKeys,    \* the names of managed labels
          Dictionaries,   \* the labels the app may give
          NoLabels

ASSUME LabelAssumption ==
    /\ CleanKey \in [Keys -> Keys]
    /\ \A k \in Keys : CleanKey[CleanKey[k]] = CleanKey[k]
    /\ CleanValue \in [Keys -> [Values -> Values]]
    /\ \A k \in Keys, v \in Values :
           CleanValue[k][CleanValue[k][v]] = CleanValue[k][v]
    /\ EssEnabled \in EssKeys
    /\ EssKeys \subseteq Keys /\ ManagedKeys \subseteq Keys
    /\ \A k \in EssKeys \cup ManagedKeys : CleanKey[k] = k
    /\ EmptyKey \in Keys /\ CleanKey[EmptyKey] = EmptyKey
    /\ EmptyKey \notin EssKeys \cup ManagedKeys
    /\ EmptyValue \in Values

Dictionary == UNION {[ks -> Values] : ks \in SUBSET Keys}

ASSUME DictionaryAssumption ==
    /\ Dictionaries \subseteq Dictionary
    /\ NoLabels \notin Dictionary

VARIABLES
  echoEnabled,
  counterNameSet,
  media,      \* has the client media?
  held,       \* suppressedPlayEventLabels
  labels,     \* the persistent labels the delegates hold
  counter,    \* have the delegates been given a counter name since creation?
  event,      \* history: the event sent to the delegates in this step
  promised,   \* history: the labels of the held play as cleaned on arrival
  added       \* history: the keys the app has added and not removed since

vars == <<echoEnabled, counterNameSet, media, held, labels, counter, event,
          promised, added>>

NoEvent == [name |-> "none", labels |-> NoLabels]
NoDictionary == [k \in {} |-> EmptyValue]

Init ==
    /\ echoEnabled \in BOOLEAN
    /\ counterNameSet = FALSE
    /\ media = FALSE
    /\ held = NoLabels
    /\ labels = NoDictionary
    /\ counter = FALSE
    /\ event = NoEvent
    /\ promised = NoLabels
    /\ added = {}

-----------------------------------------------------------------------------
(* Cleaning.                                                               *)

(* sanitiseLabels([String: String]): a Swift dictionary is traversed in no *)
(* particular order, so of the keys that clean to the same key any may     *)
(* come last and give the value.                                           *)
SanitiseLabels(d) ==
    LET clean == {CleanKey[k] : k \in DOMAIN d}
        orders == {last \in [clean -> DOMAIN d] :
                       \A c \in clean : CleanKey[last[c]] = c}
    IN  {[c \in clean |-> CleanValue[c][d[last[c]]]] : last \in orders}

(* Event labels are optional.                                              *)
SanitiseOptional(d) == IF d = NoLabels THEN {NoLabels} ELSE SanitiseLabels(d)

\* Mutant: the keys to remove are not cleaned.
SanitiseNoKeys(ks) == ks \ {EmptyKey}

(* sanitiseLabels([String]): keys that clean to nothing are dropped.       *)
SanitiseKeys(ks) == {CleanKey[k] : k \in ks} \ {EmptyKey}

-----------------------------------------------------------------------------
(* Persistent labels.                                                      *)

AddLabels(d) ==
    /\ \E clean \in SanitiseLabels(d) : labels' = Merge(labels, clean)
    /\ added' = added \cup DOMAIN d
    /\ event' = NoEvent
    /\ UNCHANGED <<echoEnabled, counterNameSet, media, held, counter, promised>>

AddManagedLabel(k, v) ==
    /\ v # EmptyValue
    /\ labels' = Put(labels, k, CleanValue[k][v])
    /\ added' = added \cup {k}
    /\ event' = NoEvent
    /\ UNCHANGED <<echoEnabled, counterNameSet, media, held, counter, promised>>

RemoveLabels(ks) ==
    /\ labels' = Without(labels, SanitiseKeys(ks))
    /\ added' = added \ ks
    /\ event' = NoEvent
    /\ UNCHANGED <<echoEnabled, counterNameSet, media, held, counter, promised>>

(* What clearMedia does to the labels.                                     *)
WithoutEssLabels == Without(labels, SanitiseKeys(EssKeys))

(* setMedia: clearMedia, then ESSEnabled is added.                         *)
SetMedia(v) ==
    /\ echoEnabled
    /\ media' = TRUE
    /\ labels' = Put(WithoutEssLabels, EssEnabled, CleanValue[EssEnabled][v])
    /\ event' = NoEvent
    /\ UNCHANGED <<echoEnabled, counterNameSet, held, counter, promised, added>>

(* The labels a broker has the client add: liveTimestampUpdate,            *)
(* setEssSuccess and setEssError.                                          *)
AddEssLabel(k, v) ==
    /\ media
    /\ labels' = Put(labels, k, CleanValue[k][v])
    /\ event' = NoEvent
    /\ UNCHANGED <<echoEnabled, counterNameSet, media, held, counter, promised,
                   added>>

Disable ==
    /\ echoEnabled
    /\ echoEnabled' = FALSE
    /\ media' = FALSE
    /\ labels' = WithoutEssLabels
    /\ event' = NoEvent
    /\ UNCHANGED <<counterNameSet, held, counter, promised, added>>

Enable ==
    /\ ~echoEnabled
    /\ echoEnabled' = TRUE
    /\ event' = NoEvent
    /\ UNCHANGED <<counterNameSet, media, held, labels, counter, promised,
                   added>>

(* avEndEvent forgets the media but removes no label.                      *)
AvEndEvent ==
    /\ echoEnabled
    /\ media
    /\ media' = FALSE
    /\ event' = NoEvent
    /\ UNCHANGED <<echoEnabled, counterNameSet, held, labels, counter, promised,
                   added>>

-----------------------------------------------------------------------------
(* App events.                                                             *)

ViewEvent(d) ==
    /\ echoEnabled
    /\ counterNameSet' = TRUE
    /\ counter' = TRUE
    /\ \E clean \in SanitiseOptional(d) :
           event' = [name |-> "view", labels |-> clean]
    /\ UNCHANGED <<echoEnabled, media, held, labels, promised, added>>

\* Mutant: the counter name is only remembered, not passed on, while disabled.
SetCounterNameWhenEnabled ==
    /\ counterNameSet' = TRUE
    /\ counter' = (counter \/ echoEnabled)
    /\ event' = NoEvent
    /\ UNCHANGED <<echoEnabled, media, held, labels, promised, added>>

(* Not guarded by echoEnabled.                                             *)
SetCounterName ==
    /\ counterNameSet' = TRUE
    /\ counter' = TRUE
    /\ event' = NoEvent
    /\ UNCHANGED <<echoEnabled, media, held, labels, promised, added>>

UserActionEvent(d) ==
    /\ echoEnabled
    /\ counterNameSet
    /\ \E clean \in SanitiseOptional(d) :
           event' = [name |-> "userAction", labels |-> clean]
    /\ UNCHANGED <<echoEnabled, counterNameSet, media, held, labels, counter,
                   promised, added>>

\* Mutant: the labels of an error are passed on as they are.
ErrorEventUncleaned(d) ==
    /\ echoEnabled
    /\ event' = [name |-> "error", labels |-> d]
    /\ UNCHANGED <<echoEnabled, counterNameSet, media, held, labels, counter,
                   promised, added>>

ErrorEvent(d) ==
    /\ echoEnabled
    /\ \E clean \in SanitiseOptional(d) :
           event' = [name |-> "error", labels |-> clean]
    /\ UNCHANGED <<echoEnabled, counterNameSet, media, held, labels, counter,
                   promised, added>>

\* Mutant: the labels of a held play are kept as the app gave them.
KeepRaw(d, clean) == d

(* What avPlayEvent keeps of a play it holds back.                         *)
KeepForLater(d, clean) == clean

(* avPlayEvent for media whose play is held back.  Which plays are held and *)
(* when they are released is the subject of EchoPlayback; here both may    *)
(* happen whenever there is media.                                         *)
HoldPlay(d) ==
    /\ echoEnabled
    /\ media
    /\ \E clean \in SanitiseOptional(d) :
           /\ held' = KeepForLater(d, clean)
           /\ promised' = clean
    /\ event' = NoEvent
    /\ UNCHANGED <<echoEnabled, counterNameSet, media, labels, counter, added>>

(* releaseSuppressedPlay hands the kept labels to avPlayEvent, which       *)
(* cleans them once more.                                                  *)
ReleasePlay ==
    /\ echoEnabled
    /\ media
    /\ \E clean \in SanitiseOptional(held) :
           event' = [name |-> "heldPlay", labels |-> clean]
    /\ UNCHANGED <<echoEnabled, counterNameSet, media, held, labels, counter,
                   promised, added>>

Next ==
    \/ \E d \in Dictionaries : AddLabels(d)
    \/ \E k \in ManagedKeys, v \in Values : AddManagedLabel(k, v)
    \/ \E k \in Keys : RemoveLabels({k})
    \/ \E v \in Values : SetMedia(v)
    \/ \E k \in EssKeys \ {EssEnabled}, v \in Values : AddEssLabel(k, v)
    \/ AvEndEvent
    \/ Disable
    \/ Enable
    \/ SetCounterName
    \/ \E d \in Dictionaries \cup {NoLabels} :
         ViewEvent(d) \/ UserActionEvent(d) \/ ErrorEvent(d) \/ HoldPlay(d)
    \/ ReleasePlay

Spec == Init /\ [][Next]_vars

-----------------------------------------------------------------------------
(* Properties.                                                             *)

CleanDictionary ==
    UNION {[ks -> Values] : ks \in SUBSET {CleanKey[k] : k \in Keys}}

(* Every variable has its type, and what the delegates hold is clean.      *)
TypeOK ==
    /\ echoEnabled \in BOOLEAN
    /\ counterNameSet \in BOOLEAN
    /\ media \in BOOLEAN
    /\ held \in CleanDictionary \cup {NoLabels}
    /\ labels \in CleanDictionary
    /\ counter \in BOOLEAN
    /\ event \in [name : {"none", "view", "userAction", "error", "heldPlay"},
                  labels : CleanDictionary \cup {NoLabels}]
    /\ promised \in CleanDictionary \cup {NoLabels}
    /\ added \subseteq Keys

(* Of the labels the delegates hold, each was asked for: by the app, under *)
(* a key that cleans to the label's and that it has not removed since, or  *)
(* by the client for its media, and those are gone once it is disabled.    *)
(* So a label is gone for good when every key it was added under has been  *)
(* removed.  Labels whose key cleans to nothing are the exception: they    *)
(* are added, and removeLabels drops their key.                            *)
EveryLabelIsWanted ==
    \A k \in DOMAIN labels \ {EmptyKey} :
        \/ \E raw \in added : CleanKey[raw] = k
        \/ k \in EssKeys /\ echoEnabled

(* A held play is reported with the labels it would have been reported     *)
(* with at once, although they are cleaned a second time and a Swift       *)
(* dictionary has no order: cleaned keys no longer collide.                *)
HeldPlayKeepsItsLabels ==
    [][event'.name = "heldPlay" => event'.labels = promised]_vars

(* A user action of the app reaches the delegates only after they have     *)
(* been given a counter name, whichever call gave it and whether or not    *)
(* the library was enabled then.                                           *)
UserActionsHaveACounterName == event.name = "userAction" => counter
=============================================================================
