# ha-ecovacs-mower, specified

A TLA+ project kept beside `custom_components/ecovacs_mower`: modules that model
the parts of the integration that keep state, TLC configurations that check them
on small instances, and proofs that TLAPS checks for every instance. Line numbers
are those of the source files; `PROJECT.json` ("map") gives the lines of every
definition.

## 1. The system

A robot mower talks to Home Assistant through the Ecovacs cloud. The library
`deebot_client` (external) owns the MQTT connection, the REST commands and, per
mower, an **event bus**; this integration patches the messages and commands it
lacks (`deebot_patch/`) and builds entities on the bus. Everything runs on one
asyncio loop. What makes it hard is everywhere the same:

* pushes are lost, late, repeated or missing on some firmware; answers come late;
* the bus drops an event that equals the last of its type, turns `IDLE` after
  `DOCKED` into `DOCKED`, replays the last event to a new subscriber, and runs
  every callback as a task of its own, in order but later;
* each `await` in a command lets other commands and pushes in.

Of what is not in this repository only that behaviour is modelled, as far as the
code relies on it; those definitions are marked external in the map.

### Components

| component | state | operations | interacts with | hard | what makes it correct |
|---|---|---|---|---|---|
| State precedence (`state_precedence.py`, `messages.py`, `commands.py`, `zonal.py`) | per mower: `docked`, `suppressed`, `job_type`, `edge_at`, `left_at`; the bus's last state | pushes of clean info, charge info, charge state, errors, position, bury points; the two-step refresh; start, pause and task commands; the dock command, whose answer is the library's | publishes `StateEvent`, is read by every command | two messages make a departure, in either order and within a window; the refresh has two awaits; a paused report on the dock must not be shown | docked is shown docked; a departure needs both halves; a suspended job is resumed and not restarted |
| Fault latch (`fault.py`, fault sensor and button) | latched code, description; the sensor's value | error, state, press, subscribe | bus; sensor; the polling alone makes a silent mower speak | zeros, repeats, order of tasks; the latch has no timer | only recovery or a press clears; the sensor agrees; a recovered fault is released |
| Polling (`controller.py` 399-525, `lawn_mower.py`) | the timer, device list, last network event | status events, nudge of a command, tick, teardown, setup | refresh commands; the same events as the latch | lost pushes; awaits in teardown | what is shown out is polled; what parked is shown |
| Area parameters (`areas.py`, `area_numbers.py`) | areas, answer counts, one pending write per area with its lock | row arrives, write one parameter | the mower takes only whole sets | two writes, stale rows, half rows | a write reverts nothing, nothing untaken is resent |
| Progress sensor (`sensor.py` 618-933) | last state, job-over latch, figure | three callbacks | states, stats, bury points | three sources that disagree on what a job is | the figure of a job does not fall; completion stays |
| Job event entities (`event.py`) | last ending, last start, who speaks first | two callbacks, add, remove | replays of the bus | two sources of one ending | each is fired once |
| Command families (`families.py`, adaptive commands) | selected family, attempted families | every adaptive command | several commands at once | a lost answer looks like an unsupported command | no command twice, the spoken family is learned |
| Map plan and store (`map_messages.py`, `geometry.py`, `map.py`, `controller.py` 290-397) | fragments, last event, map, store, delayed save | fragment, row, stop, save, load, teardown | bus, Home Assistant store | lost fragments, job ends, reloads, crashes, two readings of the rows | what is drawn is what was told; changes are stored |
| Paired settings (`switch.py`, `number.py`) | each entity's copy of both halves | report, set, refresh | the mower takes only pairs | unreadable or lost reports, two writers | no half is made up |
| Map image (`image.py`) | `image_last_updated`, the trailing refresh | map events, added, removed | the controller's map, the frontend | positions come in bursts; a refresh pending when the entity goes | the last change is written; positions are throttled |
| Authentication, config flow (`authentication.py`, `config_flow.py`, `__init__.py`, `controller.py` 279-286) | account pair in memory, in the entry and in the flow; the flow's step and device ID | forms, code verification, connection check, setup, renewal, persisting | the vendor; the entry is written by flow and controller | a pair expires, a password changes, any call fails; restarts between | a verified account is not asked again, its entry comes up when it connects |
| Activity sensor (`sensor.py` 270-314, 553-616), lawn mower (`lawn_mower.py`) | last state, rain | two callbacks; start, pause, dock | bus | rain is told once, other triggers follow, its end is not announced | a rain stop is told until the mower cuts again, save in an error |
| Rendering, hardware tables, diagnostics, utilities, import-time patches | none that changes | pure functions | | | |

All but the last row are modelled, some in part; *Not modelled* says what is left out and why.

## 2. Modules and code

`MowerState` is the core: state precedence is what every other part reads.

* **Departure** - the promise, without the code's mechanism: mowing is inferred only
  on an announcement and an unplugging at most `Window` apart that no message of the mower settled; the
  answer to a command or a query may be shown in between (`Answer`) and settles nothing.
  It remembers the latest fact of each kind; the code keeps only the half that waits.
* **MowerState** - `MowerStateRecord` (variables `docked`, `suppressed`, `jobType`,
  `edgeAt`, `leftAt`), the bus's `lastState`, the clock `now`, how far a refresh is
  (`refresh`), the command last sent (`sent`). One action per message handler
  (`CleanInfoPush`, `ChargeInfoPush`, `ChargePush`, `UnplugPush`, `ErrorPush`,
  `PosAway`, `JobEdge`, `ReturnStart`), per await of the refresh (`RefreshStart`,
  `ChargeAnswer`, `CleanAnswer`, `NoCleanAnswer`) and per command (`CleanCommand`,
  `MowTask`); `DockAnswer` is the answer to the dock command, which the library publishes and the record does
  not hear of (`lawn_mower.py` 150-152); `Restart` is the entry unloading and loading.
* **MowerStateHistory** - the same with history variables that restrict nothing, and
  the refinement mapping to `Departure`. `answered` says that a dock command's answer is what is shown. **MCMowerState** gives the constants.
* **MowerStateProofs** - theorems about both, and the refinement.
* **MowerBus** - one mower's event bus as the controller's subscribers use it: the last event of
  each type, and the queue of events whose callbacks have still to run. A repetition is
  dropped, an error publishes `ERROR` first.
* **FaultLatch** - `_on_error`, `_on_state`, `clear_by_request` and the sensor's subscription, as
  handlers on that bus (`OnError`, `OnState`, `ClearByRequest`, `Subscribe`).
* **Polling** - `on_status`, `start_polling`, `_poll`, and the refresh commands with their answers, as
  `OnStatus`, `MowCommand`, `Tick`, `UpdateEntity`, `MowerAnswers`, `AnswerRead`, `AnswerLost`, `NetworkAnswer`.
* **Controller** - latch and polling together: one `StateEvent` runs `on_status` and then the latch's
  `_on_state` (`RunState`). It adds the pushes, the unloading (`Teardown`, `TeardownDevice`: one for each stretch
  between awaits) and the setup anew, which knows no old timer. Repeated states of the
  precedence record are `MowerState`'s: `PAUSED` stands for every other state. **MCController** gives the codes.
* **Login** - every step of the config flow (`Submit`, the code form, the check, `Finish`) and of
  reauthentication, the entry's setup by the controller, which a failed connection leaves to be tried again or,
  when it is no `DeebotError`, in a setup error (`FailedSetup`, `controller.py` 279-286), renewal and persisting of the account pair, against
  a vendor whose accounts want no code, one per device, or one per login by password. One
  flow at a time.
* **MapImage** - the controller's map callbacks and `_bump` with its throttle: `OnPositions` skips or
  leaves a trailing refresh, every other event is `Bump`, `Trailing` is the refresh; `AddImage`, `RemoveImage`.
  The tasks made before a removal run after it and may leave a refresh to the entity that is gone; added again, it
  has its `image_last_updated` and that refresh still.
* **Activity** - `_activity` and the two callbacks of the activity sensor, operators on the variable `rain`
  that **Progress** runs beside its own: one event, both sensors.
* **AreaWrite** - `async_set_native_value` cut at its awaits: `Call`, `Begin` (lock
  taken, base chosen, command sent), `CommandTaken` (by the mower), `Confirmed` or
  `Unconfirmed`. `Merge` is `apply_area_parameters`. A parameter is a key; its numeric
  conversions are not modelled.
* **Progress** - `_on_stats`, `_on_state`, `_on_job_edge` (with `Complete`, the guard against a completion whose
  areas cannot be read), the activity sensor's `_on_trigger`, and the mower with its jobs, errors and recoveries. A record of `Mowers` says how a firmware differs; **MCProgress** lists four. `DOCKED` stands for
  `RETURNING` too.
* **JobEvents** - `_on_report`, `_on_job_edge` of the ending, `_on_job_edge` of the start,
  adding with replays.
* **MapPlan** - `FragmentBuffer`, `OnMapTrack`, `reset_remaining_plan`, the bus, `MowerMap`,
  delayed save, `from_dict`, a store that is discarded (`SetupDiscarding`), teardown and `Crash`. A row is a key with a length; geometry
  is not modelled.
* **RainSetting** - `OnRainDelay`, `EcovacsRainDetectionSwitch`, `EcovacsRainDelayNumber`. Animal
  protection is the instance with the switch alone and the window for the delay.
* **Families** - `_AdaptiveFamily._execute` cut at its awaits (`Send`, `FallBack`, `Finish`),
  `commit`, `note_attempt`, and the map request that alone starts with a fixed family
  (`FirstFamily`).
* **FamiliesProofs**, **ControllerProofs**, **AreaWriteProofs**, **MapPlanProofs**, **JobEventsProofs**,
  **LoginProofs**, **ProgressProofs** - the theorems of those modules. `AreaWriteProofs` extends `RainSetting`
  too, the other setting that is written whole, and `MapPlanProofs` extends `MapImage`, which shows the same
  map; so no name of these pairs is the same (`RainNext`, `ImageNext`).

A callback of the bus is an entry of `tasks`; an await ends an action; a history
variable says so where it is declared. What a module leaves out its header says.

## 3. Runs

| run | question | bounds |
|---|---|---|
| MCMowerState | Does what is shown agree with the record, in every interleaving? Is a suspended job resumed? Does the record keep `Departure`? | `Window = 1`, `MaxTime = 2`: stamps that are equal, at the edge of the window and beyond it; the job types that the code tells apart |
| MCMowerStateEnded | Does the end of a job end it? It does not, see Findings | the same |
| MCController | Do latch and sensor follow the events? Is a mower shown out polled? Do parking, a start, the signal at home and a recovery come to be shown though every push is lost? | two codes; two events waiting, three with an error's own state |
| MCLogin | Is an account asked only when it must be, and does a verified one come up, unless setup stops at an error? | two accounts of any kind, two passwords, two devices, four pairs of an account told apart: as many as entry, controller and flow can hold beside a new one |
| MCLoginOther | Is the pair that is stored the account's own? It is not, see Findings | the same |
| MCMapImage | Is the last change written, and are positions throttled? | three places, two outlines, an interval of two ticks, two events waiting |
| MCAreaWrite | Do writes to one area revert or resend anything they should not? | two parameters of two values, two callers, two calls, two rows arriving; rows that may lack a key, and rows that are never older than a write |
| MCProgress | Does the figure of a job ever fall or vanish, is a running job shown, and is a rain stop told for as long as it lasts? | `Full = 1`, a job may overshoot; two callbacks waiting, three with a trigger's own state; four mowers: one that zeroes its statistics and loses announcements (one job), one that keeps them and announces (two jobs, so the second meets what the first left), one whose answers are late (one job), one that rain stops and that meets errors (one job, stopped as often as it likes). Proved for any number of jobs and any mowers |
| MCJobEvents | Is each ending and each start fired once? | two jobs, five events, so both sources tell of both endings |
| MCMapPlan | Does the map draw what was told, and is it stored? | two rows, two jobs, two answers of two fragments, one restart or crash, one transfer in the buffer (16 in the code: the limit is met by the second transfer), two messages on the wire: what finds no room there is lost, a stop included; one callback waiting, `MaxTasks = 1` (the safety properties are proved for any bound) |
| MCRainSetting | Is a half of a pair ever made up, and is a confirmed write shown? | two delays, both entities, two changes by the app or the entities together; an entity has one call at a time |
| MCFamilies | Does a command try a family twice, is a reachable mower always confirmed? | a start, a poll and a map request at once, two lost answers, one firmware update |

A hazard of this code takes two or three messages in a bad order, with one step
of a command between them; every bound leaves room for that and for one thing more. The
counters in the guards (`MaxTasks`, `MaxChanges`, `MaxCalls`, `MaxAnswers`, `MaxJobs`,
`MaxEvents`, `MaxRestarts`, `MaxWire`, `MaxWaiting`, `MaxBlips`, `MaxUpdates`, `MaxTime`) are there for
TLC; only `MaxBatches` exists in the code. One code, pair, place or account more meets no guard that two
do not meet. `MCMapPlan` and `MCRainSetting` switch deadlock checking off: when the
counters are used up nothing is left to do. Symmetry is used in the area runs,
whose properties are safety properties.

### What they show

* *MowerState*: a mower recorded as docked is shown docked or in error, or returning by the answer to a dock
  command and by nothing else (`DockedIsShown`, issue #67); what the mower described as a job and never ended is resumed
  (`SuspendedJobResumed`, issue #104); `DepartureKept` is the refinement.
* *Controller*: whenever the tasks have run, the latch is empty after a recovery, holds what the bus
  passed on since, and the sensor agrees (`FaultFollowsEvents`, issue #53); `ShownOutIsPolled`; and with
  every push lost `ParkedIsShown`, `StartedRunIsShown`, `HomeSignalIsRead` (issue #139), `RecoveredFaultClears`.
  The last needs both components: the latch has no timer, and the polling does not stop for an error.
* *Login*: an account verified in this flow or for this entry is asked for a code again only after
  the vendor dropped its pair and gave it no other way in (`AskedOnlyWhenNeeded`, issue #21); its entry comes
  up, over failed calls, reloads and renewals, or stops at a connection error that is not retried, and never ends in
  a reauthentication (`VerifiedComesUp`).
* *MapImage*: `LastIsWritten` (a map event that reached the callbacks is written in the end, a skipped
  position included), `PositionsAreThrottled`; a refresh is always for the end of the interval, also one left to a
  removed entity (`ImageTypeOK`).
* *AreaWrite*: `OnlyTakenIsResent`, and `NoLostUpdate` where rows are not
  older than a write.
* *Progress*: `FigureNeverFalls` (answers in time; and never back to unknown, however late they are and though a
  completion cannot be read), `RunningJobIsShown` (for jobs that are announced), `RainStopIsTold` (answers in time;
  an error is shown instead of the rain, by design, `sensor.py` 288-291, and the rain again after it).
* *JobEvents*: `FiredOnce` (by both entities, whichever source told first), `AnnouncedEndingFires`.
* *MapPlan*: `DrawnAsReported` (the plan last reported, none of an ended job, coverage never as a plan),
  `NoTornPlan`, `CoverageSurvives`, `DrawnIsStored` (every change, the reset that empties a plan included).
* *RainSetting*: `OnlyReportedIsResent`, `WrittenIsShown`.
* *Families*: `OncePerFamily`, `SpokenFamilyKept`, `ReachableIsConfirmed`, `FamilyIsLearned`.

For each property of a passing run `PROJECT.json` names a mutated form of the code that breaks it
(`FigureNeverFalls` has two, one for the fall and one for the return to unknown); the forms stand in the modules before the definitions they replace.

### Fairness

* The event loop runs every scheduled callback and every due timer: weak fairness of
  `RunEvent`, `Callback`, `OnEvent`, `OnRows`, `DelayedSave`, `TeardownDevice`, `Tick`, `Trailing`.
* A command that is awaited returns: weak fairness of `FallBack`, `Finish` and of the
  mower's answers to them, which a timeout turns into an answer in the code; of `NetworkAnswer`.
* The tick polls again and again, and not every answer is lost: strong
  fairness of `MowerAnswers` and `AnswerArrives` in `Controller`, of `Poll`, `Stats` and of a due announcement
  in `Progress`. Without it the mower is simply offline.
* Home Assistant retries a setup that is not ready: strong fairness, in `Login`, of a setup leaving "trying", for
  whatever reason. Nothing retries a setup error but a reload.
* In `Families` the poll is sent again and again (`Send("poll")`). The lost answers
  and updates are finitely many there.
* Pushes, the app, commands and crashes have no fairness.

### Findings

1. *MCMowerStateEnded*. `end_job` (`state_precedence.py` 114-123) forgets the job type and says "A
   later start begins a new ``auto`` job." A PAUSED that is withheld on the dock stays
   withheld, so `_effective_action` still sees a suspended job and sends RESUME.
2. *MCLoginOther*. A pair that a verification gave is kept in the flow and carried into the next submit
   of the form (`config_flow.py` 328) whatever username is typed there; 179-182 says "Never with
   credentials for a username the user is newly typing here: there is nothing to seed with in that case, so a
   wrong password still surfaces as invalid_auth". Code right, check failed, another username typed: that
   entry is made, its password unchecked, with the pair of the first.

Seen while modelling, and claimed by no run. The models contain these steps unless it says otherwise; the
properties say what does hold, and the conditions they carry name them.

* The dock command's answer is published past the record: a mower already recorded as docked is shown returning
  until its next report, one that answers that it is docked is not recorded so, and a half of a departure that waits is
  still completed by what comes after the answer (`lawn_mower.py` 150-152).
* A second start before the first is answered is sent as a resume (`commands.py` 527). An
  idle mower last shown docked is shown docked by the bus's rewrite.
* A fault that comes back after it was cleared by hand is dropped by the bus as a repetition (`fault.py` 122-127).
* A DOCKED callback already queued stops the tick a command has just begun (`controller.py` 436). The tick
  a refused start began is stopped by nothing, for every answer repeats DOCKED, though 479-480 says "The tick
  only runs while the mower is out, so a parked mower is never asked".
* A state handled while teardown awaits starts a timer that nobody cancels (511), and rows handled there leave a
  delayed save to a store no longer used (515). A Wi-Fi signal read in the yard stays when a run ends unpolled (430).
* A row given before a write and arriving after it moves the count of answers: the next write of the area starts
  from the old snapshot and reverts the first (`area_numbers.py` 542), which 351-355 mean to prevent.
* A CLEANING answer overtaken by the end of its job erases the completion (`sensor.py` 835), one overtaken by a rain
  stop its reason (596); a job whose announcement is lost stays behind the latch (821). Not in the
  model: the activity sensor, added again, is replayed a rain trigger long over (582).
* A half of a pair that the app changes between report and write is written back (`number.py` 213).
* The vendor may take the code and the login after it fail: the device is verified, its ID
  forgotten with the flow, and another code is asked for (`config_flow.py` 364). Not in the model: two flows may
  both pass the check at 325 and make two entries of one account.
* A connection error in the setup "has to reach the caller, which turns it into ConfigEntryNotReady"
  (`tests/deebot_patch/test_authentication.py` 129-130); `initialize` does so for a `DeebotError` alone
  (`controller.py` 285), and one of aiohttp or a timeout ends the setup without a retry.
* A position whose task runs after the image was removed leaves a timer behind (`image.py` 201); it writes nothing.
* The labels drawn follow `MowerAreaEvent`, to which the image does not subscribe: a renamed area is
  written with the next event of another kind.

## 4. Proofs

Proved for every value of the constants, under the named assumptions of the modules:

* a value that stands for "none" is none of those it is added to (`NoneAssumption`; `NothingAssumption`
  in `MapImage`, `AbsentAssumption` and `RainReportsAssumption` in `RainSetting`, `CodesAssumption` for the
  codes and states of the bus);
* window, interval and bounds are numbers (`TimeAssumption`, `IntervalAssumption`, `MaxTasksAssumption`,
  `BatchesAssumption`, `BoundsAssumption`, `RainBoundsAssumption`); a map has finitely many rows (`RowsAssumption`);
* the values the code names exist: its job types (`JobTypesAssumption`), polling as a command
  (`CommandsAssumption`); entities, kinds of reporting and firmwares are among those the models tell apart
  (`EntitiesAssumption`, `ReportsAssumption`, `MowersAssumption`);
* a device ID can be made (`DevicesAssumption`), and the vendor always has a pair that is neither the one
  it gave last nor the one used (`IdsAssumption`).

Every safety property of a passing run is proved: the type invariant of each module, the other invariants,
and the action properties. The inductive invariant is `IInv` unless another is named.

* **MowerStateProofs** - `TypeCorrect`, `DockedShown`, `WithheldOnDock` (a report is withheld only while the
  mower is recorded as docked; proved, checked by no run of its own), `OneHalfOnly`.
  `IInv == TypeOK /\ Safe`, with `Safe` `WithheldOnlyOnDock` and `OneHalfWaits` (at most one half of a
  departure waits) together: whether something may be withheld depends on `docked`, and a bury point or
  an unplugging that completes a departure clears it. `CleanInfoSafe` and `EvidenceSafe` treat the
  two handlers that touch most of the record; `NextSafe` has one step per action.
  `SuspendedResumes` is about the history: a job described by its type is remembered by its
  type (`TypedIsRemembered`), and `HistorySteps` carries the rest over, for the history restricts nothing.
  `DockedShown == HSpec => []DockedIsShown` needs the history too: what a docked mower is shown as was shown by its
  messages (`ShownOnDock`), or by the dock answer that `answered` remembers.
  `DepartureRefinement == HSpec => DepartureKept`: the record keeps one
  waiting half, the promise both latest facts; `Halves` says that they agree on every fact that
  could still be paired (a stamp that was dropped is out of the window or settled). Each step of `HNext`
  maps to one of `Departure` or to a stutter.
* **FamiliesProofs** - `TypeCorrect`, `TriedOnce`, `Confirmed`, `Kept`, from `Invariant`. `IInv` adds `Heard`: of a command
  that nothing disturbed, the answer tells whether the mower speaks the family it was sent in, and a
  first family it left is one the mower does not speak. With two families
  the second must then be spoken.
* **ControllerProofs** - `FaultFollows`, `ShownOutPolled` and `TypeCorrect`, from `Invariant`. What the properties
  say holds when no task waits, so `IInv` says which waiting task will bring it about: the last
  of its kind (`Ends`: one of these is in the queue, with none of those behind it; `Free`: none is there).
  `RecoverySettles` and `NewsIsHeld` do so for the latch, `SensorFollows` for the sensor,
  `StatusFollows` for the tick. `LastFaultIsCode` is why the bus never drops a change of the latch,
  and `DownIsEmpty` what a setup anew starts from. `Behind`, `Arrives` and `Ran` are the facts about
  the queue on which each step rests.
* **AreaWriteProofs** - `OnlyTakenResent`, `TypeCorrect`, from `SourcesKnown`: whatever a write may be based on (the
  snapshot, a row on its way, the last write) holds only values the mower has held. A write
  that timed out is none of these, which is the point: it may never have been taken. `WriteKnown` follows
  a write from its base to its confirmation. `WritesAreKept` needs more, where rows are prompt (`PromptInv`):
  the mower agrees with all that stands confirmed; so does the base the next write would take, but for a write
  taken and not yet recorded; and the count of answers a write was based on is the present one until the
  mower takes it (`Current`).
  For `RainSetting`, `RainTypeCorrect` and `OnlyReportedResent`, from `ReportsHad`: every report, on its way,
  waiting in a queue or held by an entity, says what the mower has had.
* **MapPlanProofs** - `DrawnCorrect`, `PlansAreWhole`, `CoverageStays`, `TypeCorrect`, from `Invariant`. The map lags
  behind the messages by the events that wait: a row is what was told, or the last event
  that tells of it brings it (`Follows`). `LastIsReported` is why the bus drops only what
  is no news; `SavedIsMap` and `DownIsQuiet` what a reload reads back; `DrawnIsPlanned` that nothing told as
  coverage is ever drawn as a plan; `CoverageMerges` that coverage is never replaced; `StopIsLast` that the
  stop of the last job leaves nothing, and nothing follows it; `FragmentsAgree` that fragments of one batch,
  on the wire and in the buffer, are of one plan.
  For `MapImage`, `ImageTypeCorrect` and `Throttled`: a refresh that waits and the age of the image make up one
  interval, whether the entity is there or not, for no removal or addition moves one without the other.
* **JobEventsProofs** - `EndingFires`, `TypeCorrect`. An ending that is not fired must be the one last fired
  (`EndingWasFired`), or an announcement stood down, and `SeenWasHeard` says that only a report of an
  ending stands them down. `FiresOnce` is about order, with an invariant of its own beside `IInv` (`OInv`): an event is known
  by its number (`Numbered`); a job is reported over once and announced over once (`ToldOnce`); what waits
  for a callback is at or after what that has fired, and the last event on the bus, which a replay repeats, at or after
  both (`InOrder`, `LastFired`). That one ending is told by one source rests on the first report of an
  ending being younger than every announcement ahead of it (`FirstReport`), or missed while nobody
  listened (`MissedReport`).
* **LoginProofs** - `AskedRightly`, `TypeCorrect`. Three places hold a pair and two a device. `PairsKept`: the pair
  got last is in the entry or, before there is one, in the flow's input, and the controller holds no other.
  `StepsSettled`: what a step of the flow has settled before it. `DeviceKept`: every account that was proved
  was proved on the device of the next login.
* **ProgressProofs** - `RainIsTold`, `FigureRises`, `TypeCorrect`. Both are about the events that wait. `Weather`: the
  last word on the state is on its way to the sensor (`Hears`); when the mower cuts, every rain that waits has a
  CLEANING behind it (`RainEnds`); while it is wet the last rain has none (`RainStays`) and
  the mower says that it stands or is in error (`Standing`). `InTurn`, where no
  answer is late: the jobs come one after another (`Ordered`), the figures of each grow (`Growing`), its stop is
  behind all that may reset it (`StopIsLast`), and no latch lets a job reset what is shown of it
  (`NothingResets`). That the figure does not go back to unknown needs no order: nothing that cannot be read is
  written (`Handled`).

Two of these proofs found errors of the models, which are corrected. `MapPlan` took for the last stop any stop that
arrived while no job ran, so one of an earlier job, overtaken, counted; a bound on the wire had kept the run from
showing it. A stop now says its job. In `Login` two ways through a form overlapped.

Only model-checked: the liveness properties, for fairness and ENABLED are beyond the prover (`ParkedIsShown`,
`StartedRunIsShown`, `HomeSignalIsRead`, `RecoveredFaultClears`, `VerifiedComesUp`, `LastIsWritten`,
`RunningJobIsShown`, `DrawnIsStored`, `WrittenIsShown`, `FamilyIsLearned`), and the two findings, which are
counterexamples. Not proved either: that the histories restrict nothing, which for `MowerState` is `HistorySteps` in one
direction, and in the other modules is how their histories are written.

## 5. Not modelled

* Map rendering, hardware tables, diagnostics, debug log, constants, errors: no state
  that changes after start.
* Device discovery and entity set-up: they run once; areas found later add entities.
* The area inventory (`getAreaSet`: fragments, names, removal of areas) and the beacons; labels, obstacles,
  no-go zones, covered area and position on the map, each replaced whole by its last message.
* The activity sensor added again, the lawn mower entity's table from states to activities, the beacons' sensors.
* Two config flows at once; the validation of self-hosted URLs and certificates, which is one way of the form
  coming back; the token's own refresh inside the library.
* A save that fails in teardown (`controller.py` 515-520) or later: the store is left as by a crash at that moment,
  after which the setup goes on from what was stored last.
* The image's content and the rendering in the executor: what is written is the map at that time.
* Formats, units, numeric conversions, wording and logging.

## 6. Plan

Done, in this order: Departure and MowerState with its history and proofs; AreaWrite; Progress; JobEvents;
MapPlan; RainSetting; Families and its proofs; FaultLatch and Polling on one bus as Controller; Login;
MapImage; the activity sensor beside Progress; the proofs of Controller, AreaWrite, RainSetting,
MapImage and JobEvents; those of MapPlan, Login, Progress and of the suspended job, the fired endings and
the writes that are kept.

Next, in order of weight:

1. The area inventory as part of `AreaWrite`: an area removed and found again, with a write pending.
2. The beacons (`messages.py` 526-761, `sensor.py` 480-519): a polled reading against pushed ones, dropped and reset.
3. The activity sensor's replays; the lawn mower's commands over `MowerState` and `Controller` together.
4. Promises without the mechanism, as `Departure` is for `MowerState`: for `AreaWrite` one atomic write after
   another, for `MapPlan` a map that is replaced and merged at once; then their refinement.
