# Echo client: a TLA+ model of `EchoClient`

Echo is the BBC's analytics client for iOS and tvOS. An app calls one object,
`EchoClient` (`src/Echo/EchoClient.swift`, 1262 lines), which keeps the playback
and user state and forwards what happens to a list of analytics *delegates*
(ATInternet, comScore, Spring). This directory models that object, checks it
with TLC on small instances and proves its safety properties with TLAPS.

## Inventory

The repository ships the client, stubs of the delegates, vendored binary
frameworks and tests. The classes the client works with (brokers, playhead,
schedule, `UserPromiseHelper`, `BBCUser`, `Media`, `LabelCleanser`, reporting
profiles) are not in the source; the tests and the client's calls show how they
are used, and the parts of the model that stand for them are marked external.

| component | state | operations | what makes it correct |
|---|---|---|---|
| playback session | `media`, `broker`, `mediaActive`, `suppressingPlayEvent`, `suppressedPlayEventLabels`, `cacheMode` | `setMedia`, `clearMedia`, `setMediaLength`, nine `av...Event`s, `setCacheMode`, `getComScoreDeviceID` | delegates and client agree on media and broker; positions respect the length; the cache mode is locked once a play has been reported |
| broker callbacks | the same, and the ESS labels held by the delegates | `liveMediaUpdate`, `liveTimestampUpdate`, `setEssError`, `setEssSuccess`, `releaseSuppressedPlay`, `sendHeartbeat` | no callback acts for media the app has left; a held play that has a broker is reported or taken back; a play carries the labels of the app's latest one (with one exception, below); no ESS label outlives its media into the next `setMedia` or a `disable` |
| position arithmetic | none | `positionExceedsMediaLength`, `preventPositionExceedingMediaLength` | exact, without unsigned underflow |
| user state | `previousUser`, `bbcUserSetWhileDisabled`, the helper's storage, the delegates' user labels and device id | `setBBCUser` and its helpers | the last user wins, whatever order of start, enable and disable delivers it |
| token timer | `timer`, `userForTimer` | `scheduleTokenExpiry`, `removeSchedule`, `expireToken` | one timer, for the right user, that fires |
| user event delivery | the helper's stored user and postponed transition | `setBBCUser`, `resetDeviceId`, `sendUserUpdateEvent` step by step | no change of user is lost on the way to the delegates, whenever the process dies |
| lifecycle | `echoEnabled`, `autoStart`, `_hasStarted` | initialiser, `start`, `enable`, `disable` | the user and the playback side switch together |
| labels and app events | `counterNameSet`, the labels held by the delegates | `addLabels`, `addManagedLabel`, `removeLabels`, `viewEvent`, `userActionEvent`, `errorEvent`, `setCounterName` | what is added can be removed, colliding keys do no harm, labels kept for later arrive unchanged |
| configuration | the collated options | `collateConfig`, `getDefaultConfig`, `isValidConfig`, `validateConfigField`, the throwing initialiser | precedence of the sources; a validated switch is never off because of junk; a throw leaves no half-started client |
| pass-through setters | none | producer, destination, player name, volume, ... | nothing to check: each forwards its argument |

How they interact: the app calls the client; the client starts and stops a
broker, whose timers call the client back; the client calls the delegates
synchronously and in order; `setBBCUser` reads and writes the helper's
persistent storage; a `Timer` calls `expireToken`. Everything runs on the main
run loop, so a method is never interrupted by another one. What makes the code
hard is therefore not preemption but the *order* of calls: broker callbacks
between any two calls of the app, a play held back until a callback releases
it, users set while disabled or before start and delivered later, a timer that
outlives the user it was made for, and a process that dies between any two
calls and keeps only the storage.

## Modules

**`EchoPosition`** holds the two operators of the position arithmetic, with the
case split that keeps the unsigned subtraction from underflowing, and the
reference definition `WithinASecondOfTheEnd` from the comment in the code.

**`EchoPlayback`** (extends `EchoPosition`) is the playback session with its
broker callbacks. Each public method and each callback is one action and models
the whole method, the trailing calls included: `SetMedia` contains `clearMedia`,
`addLabel`, `initBroker` and the calls to the delegates; `Disable` contains
`clearMedia`. State follows the fields of the class. In addition

- `brokers` is the heap of broker objects (external): which media each was made
  for, whether its timer runs, and its playhead. `stop()` clears `running`, and
  a broker calls back only while it runs. An object is reused only when it is
  neither the client's nor running, so a stray broker, if the client left one,
  would stay around and call back;
- `dlg` is what the delegates have been told: media, broker, length, the last
  audio/video event, and whether they have been sent a play for this media.
  All delegates get the same calls, so one record does;
- `essLabels` maps each label of the live stream to the media it describes;
- `event` and `wanted` are history variables: the call made to the delegates in
  this step, and the last thing the app asked for.

`initBroker` falls back to an on-demand broker when there is no ESS URL; that
cannot happen, because the default configuration sets one and empty user values
do not override it, so the kind of the broker is the kind of the media.
Labels are model values: sanitising is applied before every use and the
properties only ask *which* labels arrive. A live media update carries a new
`Media`; whether the broker copies the playing and buffering flags into it is
left open. `setMedia` clones what the app gives it, so live media may come in
already marked as enriched, as the test at `EchoClientAVBehavioursTests:820`
does: its first play after a pause is held although no broker has enriched it.
The flag is only read together with `isLive`, hence on-demand media is set
without it. An app may call an event method that is ignored (`IgnoredEvent`):
disabled or no media.

**`PlaybackSession`** is the abstract session: chosen media, what the delegates
report on, what the app asked for last, what the delegates were shown last. It
knows no brokers, positions, enrichment or held plays. `EchoPlayback` implements
it (`Session == INSTANCE PlaybackSession WITH ...`, `ImplementsSession`), with
the media, `dlg` and the history variable `wanted` as refinement mapping.

**`EchoIdentity`** holds users and the external `UserPromiseHelper`. A user is
an identity and a token; `HelperResult` gives every combination of transition,
reset reason and "postponed" flag that is consistent with what is stored. The
reset for an upgrade of the library can only be the answer to the first call of
a launch.

**`EchoUser`** (extends `EchoIdentity`) is the user state, the token timer and
the lifecycle. A token stands for its refresh timestamp and time passing moves
tokens into `expired`. Device ids are modelled up to "the same" and "a new one".
`Relaunch` is a crash or restart at any point between two calls, also between
the two halves of the initialiser, and keeps only `stored`. The four options
that matter are chosen in `Init`; the reset on user state change is only read
when ID v5 is on, as in the initialiser.

**`LatestUser`** is the abstract register "the user in effect is the one given
last while the service runs". `EchoUser` implements it in the user it persists
(`ImplementsLatestUser`) when ID v5 is on and the reset on state change off; a
client with other options is mapped to a register that never runs.

**`EchoUserDelivery`** (extends `EchoIdentity`) cuts `setBBCUser` where a crash
matters: after the helper has persisted the user, after a transition has been
postponed, before each delegate of the loop in `sendUserUpdateEvent`, and before
the postponed transition is cleared. `Crash` may come between any two of these
steps. Every change of user carries a number (a history value), so that the
events sent for it can be counted per delegate; `cut` counts the crashes that
hit a change in hand. Names and labels of the event are left out. Events are
enabled and ID v5 is on; the reset option may change from launch to launch.

**`EchoDictionary`** has the three operations on Swift dictionaries that the next
two modules use: merge, assignment to a key, removal of keys.

**`EchoLabels`** (extends `EchoDictionary`) has the persistent labels as a dictionary the delegates hold,
and the app events. Cleaning is a pair of constants of which only idempotence is
assumed (the `LabelCleanser` is not in the repository). A Swift dictionary has
no order, so `SanitiseLabels` is the set of results over all orders: of keys
that clean to the same key, any may win. Whether a play is held is
`EchoPlayback`'s subject; here it may be held and released whenever there is
media, and the question is what becomes of its labels, which are cleaned twice.

**`EchoConfig`** (extends `EchoDictionary`) has `collateConfig`, `getDefaultConfig`, `isValidConfig` and
`validateConfigField` as operators and the initialiser as an action: read the
options, set the process-wide debug level, clear the cookies, create delegates,
and only then throw or start. The app may try again after a throw and may
replace its client; debug level and cookies are shared. `Sources`, the
dictionaries in the order of precedence, is the reference for the merge. The
history variables `tried` and `made` are the dictionary of the latest attempt
and the one the present client was made from, so that its fields can be compared
with what the app, the profile and the defaults say (`Says`).

**`EchoSystem`** (extends `EchoUser`, instantiates `EchoPlayback`) is the
composition. The two sides share `echoEnabled`; `enable`, `disable` and the
death of the process are joint actions, all others belong to one side.

The modules named `...Proofs` hold the theorems of the module they are named
after; those named `MC...` are the TLC instances.

## Runs

| run | instance | shows |
|---|---|---|
| `playback_live` | 2 live media, 2 brokers, 1 label; 808 000 states | callbacks of any broker in any order never restart media the app has left, nor leave its ESS labels on the next; live media that should play has its own running broker; a play carries the latest labels, with the exception below; a held play that has a broker is resolved |
| `playback_on_demand` | 1 live, 1 on-demand media, lengths 0, 1, 3 with a "second" of 2; 442 000 states | brokers are stopped in time, delegates and client agree, positions respect the length, the cache mode is locked once a play has been reported; the abstract session is implemented |
| `user_state` | 5 users, 2 tokens, all configurations; 337 000 states | the last user and the device id are never lost, the timer is the right user's, an expired token is noticed; the abstract register is implemented |
| `user_delivery` | 2 delegates, crashes between any two steps; 169 000 states | a change of user is in hand, postponed, sent to all or cut by a crash; a postponed one survives crashes; repeats are counted by crashes |
| `labels` | keys that collide, that vanish and that are the client's own; 150 000 states | no label nobody wants, held labels arrive unchanged, user actions have a counter name |
| `config` | every option good, bad, empty or missing, profiles known and unknown, several clients in a row; 14 000 states | precedence, no missing option, a client's fields mean what its sources say, no start after a throw, cookies |
| `system` | 1 live media, 2 users, 2 configurations; 683 000 states | every audio/video event carries the latest user; nothing plays across a disable |
| `zero_length`, `cache_mode_after_end`, `device_id_query`, `user_put_back`, `user_labels` | as above | disagreements between code and tests, comments or messages (below) |

*Bounds.* Two brokers are enough: `setMedia` stops the old one before it makes
the new one, so a third appears only if a stray one is left, which two already
show. Two live media tell "this media" from "another". `OneSecond = 2` with
lengths 0, 1 and 3 gives unknown, below a second and above a second, and the
positions 0 and 2 fall before and inside the last second. `MaxPosition` only
stops the playhead from counting for ever; it lies at the longest length, so
that a broker can reach the end. The users of `user_state` are signed out, one
user with two tokens and without a token timestamp, and another user: every
state of the token and the timer. `EchoUser` does not tell one transition from
another; `user_delivery`, whose instance also has a user with personalisation
off, has every kind of transition. Broker objects are interchangeable, hence the symmetry of
`playback_on_demand` and `system`; runs with a liveness property use none. The
view of `system` leaves out the ESS labels, which no guard and no property of
that run reads. `MaxChanges` and `MaxCrashes` bound `EchoUserDelivery`: three
changes let a postponed transition meet a second one and be replaced by it
after a first was sent, and two crashes let the same event be cut twice. Two delegates are the first and the
last of the loop. In `config` one bad option at a time is enough, because the
validation is a conjunction over the options.

*Fairness.* `EchoPlayback!FairSpec` assumes that a running live broker in the
end either finds the broadcast on air (`LiveMediaUpdate`) or lets the play
through (`ReleaseSuppressedPlay`): its update timer repeats while it runs and
each update ends in one or the other. The broker is external: this is read from
the callbacks it has, and no test of the repository pins it down. Nothing is
assumed of the app.
`EchoUser!FairSpec` assumes that a valid `Timer` in the run loop fires when its
time has come.

*Disagreements found.*

- `zero_length`: `setMediaLength(0)` is said to be ignored, but it sets the
  client's length to 0 and so switches clamping off.
- `cache_mode_after_end`: play, disable, `avEndEvent` (ignored), enable leaves
  `mediaActive` set, so `setCacheMode` is refused although nothing plays.
- `device_id_query`: `getComScoreDeviceID` clears the media of every delegate;
  later events reach delegates without media.
- `user_put_back`: with the reset on state change on, the early return of
  `setBBCUser` leaves the user kept for `start()` pending, and the next
  `enable()` puts that user back over a newer one.
- `user_labels`: setting a user without a token timestamp does not cancel the
  timer of the user before, here the same identity set again later in the launch
  without its timestamp; when the timer fires, the delegates are labelled with
  the user as set before.

For the last two the passing run states what does hold: with the reset option
off, stored and labelled user are always the latest.

*Further observations*, not the subject of a run:

- The comment in `sendUserUpdateEvent` says that clearing the postponed
  transition ensures "we only send the event once". It is cleared after the
  loop, so delivery is at least once: `RepeatsNeedACrash` states exactly how
  often, one repeat per crash with the event in hand.
- Live media the app hands in already enriched, to a client without a player
  delegate, has no broker. A pause sets `suppressingPlayEvent` all the same (line
  684), the next play is held (446), and `releaseSuppressedPlay` (206) never
  comes: that play is lost. `LivePlayHasItsBroker` and `HeldPlayIsResolved`
  therefore speak of media with a broker.
- Such media with a broker, paused before its first play: the play is held, and
  a live update then has the delegates play it while `mediaActive` is false. So
  `setCacheMode` (693) is accepted, contrary to its own message (699) and to the
  sense of `testSetCacheModeDoesNotDelegateAfterPlay`.
  `CacheModeFixedOncePlayed` counts from the first play reported.
- Neither `clearMedia` (from 356) nor `avEndEvent` resets
  `suppressingPlayEvent`. If it is left set, the play of the next live media,
  not yet enriched, is reported at once and reported again by that media's
  broker (206-208), the second time with the labels of the play held for the
  media before. `PlayCarriesItsLabels` excepts exactly this case.
- The initialiser sets the debug level and clears the cookies before it
  validates: an attempt that throws changes the one and, without ID v5, clears
  the cookies of the client that stays in use.
- `comscoreResetDataOnUserStateChange` (126) and `echoDebug` (90-104) are not
  validated: any junk value switches them off, as the tests expect of the second.
  `OptionsMeanWhatTheySay` says so.
- A postponed transition picked up in a start that also resets the device id for
  an upgrade goes out under the name of the upgrade (lines 843-846) and is then
  cleared; its own name is never reported.
- `userActionEvent` says it is "not available before a call to viewEvent";
  `setCounterName` opens it too, also while disabled.
  `UserActionsHaveACounterName` states what does hold.
- A label whose key cleans to nothing can be added but never removed:
  `sanitiseLabels` drops empty keys from the list of keys to remove and not from
  the dictionary of labels to add. `EveryLabelIsWanted` excepts it.
- The catching branch of `ObjCHelper.catchException` has no `return`, so its
  result is undefined and a Swift caller may not see the error. Nothing in the
  repository calls it.

## Proofs

The theorems hold for every value of the constants that satisfies the named
`ASSUME`s. All have the same shape: an inductive invariant (`IInv`, or
`SystemInv`), the lemmas that `Init` establishes it and that every action
preserves it, and one theorem per property that follows from it.

**`EchoPositionProofs`**: for every length, position and `OneSecond`, the split
test of the code is exactly "within a second of the end"; clamping returns the
length or a position more than a second before it, is idempotent, and changes
nothing else; exceeding is monotone in the position. The only assumption is that
`OneSecond` is positive.

**`EchoPlaybackProofs`**: `TypeOK`, `OnlyTheCurrentBrokerRuns`,
`PlayingIsActive`, `ReportedPlayWasRequested`, `LabelsDescribeTheMedia` and `DelegatesFollowTheClient` are invariants, by one
inductive invariant. No conjunct is inductive alone, because what a callback may
do depends on which broker can still call. `OnlyTheCurrentBrokerRuns` says a
caller is the client's broker; `BrokerServesTheMedia` adds that this broker was
made for the client's media, so its labels and updates are about that media;
`PlayingIsActive` adds that a running broker implies an unrevoked request to
play, which is what makes the play reported by a callback a requested one, and
that a play once reported keeps `mediaActive` set. On top of it, with `StepCases`
to name the possible steps once the caller of a callback is known:

- `CacheModeFixedOncePlayed`;
- `LivePlayHasItsBroker` (`LivePlayNext`), which also needs `KindsAgree`: a live
  broker for live media, an on-demand one for on-demand media, and only live
  media enriched;
- `OnDemandPositionsRespectTheLength`, which needs `KindsAgree` too: otherwise a
  callback could report a position that nobody clamped;
- `PlayCarriesItsLabels`, which also needs `KeptLabelsAreTheLatest`
  (while a play is held and the broker runs, the kept labels are those of the
  app's last play: everything that would make them stale stops the broker);
- `ImplementsSession`: `SessionStep` maps every step to a step of
  `PlaybackSession` or to a stutter.

The assumptions are that live and on-demand media are disjoint, lengths and
positions are natural numbers, and the "none" values are not members of the sets
they extend.

**`EchoIdentityProofs`**: the types of `Transition` and `HelperResult`, and
where the transition of a result comes from.

**`EchoUserProofs`**: `TypeOK`, `StoredUserIsLatest`, `LabelledUserIsLatest`,
`DelegatesUseTheStoredDeviceId` and `TimerBelongsToItsUser`. The properties
speak of a running client only; the invariant has to say where the latest user
waits meanwhile. `LatestUserIsKept`: it is either in `bbcUserSetWhileDisabled`,
with events off, or stored and labelled, and no timer can re-label it.
`UserAwaitsTheStart`: before `start` there is a user for it to set.
`StartedDelegatesUseTheStoredDeviceId` extends the device id to the disabled
client. `ImplementsLatestUser` follows by `RegisterStep`. The assumptions are
that the special identities, tokens and reasons are distinct from the ordinary
ones, and that the reset option comes with ID v5, as the initialiser makes sure.

**`EchoUserDeliveryProofs`**: `TypeOK`, `PostponedChangeSurvivesCrashes`,
`ChangesAreAccountedFor` and `RepeatsNeedACrash`, for any number of delegates,
changes and crashes. The strengthening ties the loop to what was sent:
`Passed(d, c)` says whether the loop has passed a delegate with the change in
hand, and `EventsAreCounted` relates it to the events sent and the crashes;
`ChangeInHand` and `StorageIsConsistent` say which change the loop and the
storage hold.

**`EchoLabelsProofs`**: `TypeOK`, `EveryLabelIsWanted`,
`UserActionsHaveACounterName` and `HeldPlayKeepsItsLabels`, for every pair of
cleaning functions that are idempotent and leave the client's own keys alone.
The last one rests on two lemmas about `SanitiseLabels`: whatever the order of
the dictionary, the result is clean (`SanitiseCleans`), and a clean dictionary
has one result, itself (`SanitiseTwice`). The invariant adds that media needs
the library enabled, that the flag of the client tells the truth about the
delegates, and that held labels are clean.

**`EchoConfigProofs`**: `CollatedByPrecedence`, `NoOptionIsMissing`,
`OptionsMeanWhatTheySay`, `OnlyValidClientsStart` and `NoCookiesWithoutIdv5`, for
any defaults of the delegates, any profiles and any configuration of the user.
The first two are facts about the merge and hold of every configuration; the
others need the invariant that a client exists only with a valid configuration.
`OptionsMeanWhatTheySay` also needs `ReadFromConfig`, that the fields are those
of the configuration collated from `made`, and `SaidIsCollated`, which takes a
collated value back to the source that says it.
`ConfigAssumption` says that no delegate and no profile gives one of the
client's own options an empty value: unlike the user's, such a value would
override the default.

**`EchoSystemProofs`**: `EventsCarryTheLatestUser` and
`NothingPlaysAcrossADisable` of the composition; `SystemIsAUser`
(`SystemSpec => Spec`), by which all that is proved of `EchoUser` holds of it;
and `PlaybackStaysSafe`, the safety invariants of `EchoPlayback` in it.
The playback side of the system is not an `EchoPlayback`, which never
relaunches; its inductive invariant holds all the same, because the next process
starts in an initial state of it. `SystemInv` joins the two invariants by
`OffIsSilent`: a client that is off or in its initialiser reports nothing and
has no media. `SystemAssumption` repeats what `EchoPlayback` assumes.

Only model-checked: the liveness properties `HeldPlayIsResolved` and
`ExpiredTokenIsRelabelled`, since liveness under fairness is out of the prover's
reach, and the five runs that show a violation.

## Not modelled

- The delegates (stubs of a few lines in the repository) and the vendored
  frameworks under `Libraries/`. The latter are binaries; their headers, most of
  them generated, make up almost all the C-family lines of the repository
  and only declare interfaces, so there is no behaviour in them to model. The
  program itself is `EchoClient.swift`; about four fifths of its
  lines of code are mapped, and most of the rest are the pass-through setters.
- The pass-through setters, which keep no state: each forwards its argument.
- `ObjCHelper`: one stateless function that nothing calls (see above).
- Logging, the text of labels, counter names and errors, the registration of the
  notification observers, and the choice of the device id from the option
  `echoDeviceID`.
- Calls into the client from other threads than the main one: the class has no
  locks, and its timers run on the run loop it is used from. `broker.start()` is
  taken not to call back before it returns.
- A crash in the middle of a method other than `setBBCUser`: apart from the
  cookies the initialiser clears, no other method writes persistent state.

## Plan

Every safety property and both refinements that a run checks have a theorem.
What could still be said:

1. `EchoConfig` and `EchoUser` meet in the initialiser: a composition would show
   that the options `EchoUser` starts with are those of a valid configuration.
2. What holds of the stored and the labelled user with the reset on state change
   on, short of the two disagreements above.
