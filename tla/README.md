# TLA+ models of insomniaTV

insomniaTV is an ESP32 firmware that switches off a television nobody watches.
Sensors tell whether the TV is on; after a time without activity the volume is
lowered step by step, and if still nobody reacts the TV is switched off over
the network. The code is C++ on Arduino and FreeRTOS, in `src/src`.

This directory holds TLA+ models of it, the TLC configurations that check them,
and proofs. Check a model with `tlc -config X.cfg M.tla` (the run table below
pairs them), the proofs of a module with `tlapm M.tla` (section 4). A definition
with a comment that begins with *Mutant* is a plausible bug; `PROJECT.json`
says which definition it stands in for and which property then fails.

## 1. The system

### Tasks

All tasks have priority 1, so FreeRTOS slices time between them and may switch
at any instruction. They share objects without a common lock.

| task | does |
|---|---|
| `setup()`, then `loop()` | wires everything; then `SleepStateMachine::tick`, `RampScheduler::tick`, `delay(100)` for ever |
| `sensor_tick` | `SensorManager::tick`, `TvStateMachine::tick`; runs the callbacks: readings to the TV state machine, presence and TV-on to the sleep state machine. Started *before* `setup()` builds any of these |
| `wifi_watchdog` | `WifiSetup::checkConnectivity` every 30 s, also from before `begin()` |
| web server | every HTTP request; runs the reload callback into the state machines |
| `tv_voldown`, `tv_poweroff`, `tv_pair`, discovery, reboot | one per operation, short-lived |
| `status_led` | an LED |

### Components

| component | state | operations | correct when | model |
|---|---|---|---|---|
| Sleep cycle: `SleepStateMachine`, `RampScheduler` | state, idle clock, timing; active, step count, step clock | `tick`, `onIrActivity`, `onTvPoweredOn`, `onRampComplete`, `start`, `stop`, setters | state and scheduler agree; nothing comes early; activity stops a ramp; an idle TV is switched off | `SleepCycle`, `SleepTasks` |
| TV power state: `SensorManager`, `TvStateMachine` | sensors, last values; readings, votes, state, subscribers | `init`, `tick`; `begin`, `onSensorUpdate`, `tick`, `subscribe` | the state follows the readings and its listener follows the state | `TvFusion` |
| Configuration: `ConfigManager` | the configuration, its file, a temporary file | `load`, `save`, `get`, `set`, `validate`, `repairInvalid` | survives power cuts; no change is lost; timing reaches the machines | `ConfigStore` |
| Samsung TV: `SamsungTvController` | credentials, pairing state, busy flag, start volume, a mutex | `rampStep`, `powerOff`; `pair`, `configure` | a ramp silences; power-off never switches on; operations end; credentials are of one TV and kept | `SamsungControl`, `SamsungPairing` |
| Samsung transport | a WebSocket, HTTP requests | `sendKey`, `setVolume`, `getPowerState`, `requestToken` | a key goes out only on a socket the TV has accepted | by its outcomes in `SamsungControl`; socket, event and deadline in `SamsungPairing` |
| Web server | body buffer, upload file, `Update`, sensor list | the HTTP API | requests do not mix; what is answered "ok" is kept | `WebUploads`; its other requests are actions of the modules they act on |
| Firmware update | what `Update` has written, its error | `flash` | the next boot is the image that was sent | `WebUploads` |
| WiFi setup and watchdog | failures, rejoins, portal flag, the access point to avoid | `begin`, `checkConnectivity`, `selectAccessPoint`, reset button | rejoins before it restarts, restarts in the end, finds a working access point | `WifiWatchdog` |
| UPnP discovery | list of devices, a flag | `scan`, `clear`, reading the list | devices are listed once, all that answered are listed | `Discovery` |
| Sensors | last value | `read` | — | a reading, in `TvFusion`; the UPnP sensor in `Discovery` |

### What is hard

The unit tests drive each class from one thread and with one call at a time. What
they do not reach is in `PROJECT.json`, `hazards`, line by line: handlers of
three tasks interleaving inside unlocked classes; start-up while a task already
polls; a clock and a counter that wrap; reloads in the middle of a ramp; two
writers of one file and a power cut between any two of their steps; operations
on the TV that overlap, fail half-way or find the TV changed by its viewer;
two pairings, a power-off and a restart around one set of credentials; the
pieces of several requests in one buffer; access points that accept the device
and pass nothing; a scan that a second one wipes.

## 2. The modules

```
SleepSequence  <--refines--  SleepCycle  <--extends--  MCSleepCycle, SleepCycleProofs
                             (same code, finer steps)  SleepTasks <-- SleepTasksProofs
TvFusion       <-- MCTvFusion, TvFusionProofs
ConfigStore    <-- MCConfigStore, ConfigStoreProofs
SamsungControl <-- MCSamsungControl, SamsungControlProofs
SamsungPairing <-- SamsungPairingProofs
WebUploads     <-- MCWebUploads, WebUploadsProofs
WifiWatchdog   <-- MCWifiWatchdog, NetworkProofs
Discovery      <-- NetworkProofs
```

**SleepSequence** is the promise: the state diagram at the top of
`SleepStateMachine.h` with the commands it sends, without any clock.

**SleepCycle** is both classes as `main.cpp` wires them, one action per call.
`SleepTick` and `RampTick` are the two ticks, in the order of `loop()`, `Delay`
the pause; `Activity`, `TvReport` and `Reload` are the calls of the other tasks.
The clock is the `uint32_t` counter, modulo `ClockMod`; `Elapsed` is its unsigned
subtraction. `POWERING_OFF` and `FALLBACK_OFF` are entered and left within one
tick and do not appear. `quiet`, `sinceStep` and `steps` are history: true time
and commands sent, to compare the code's own variables with.

**SleepTasks** is the same code with each load and store of a shared member as a
step of its own, in three tasks: `at` and `sensor` are the places where the loop
and the sensor task stand; the web task stores one setting at a time, and needs
no place, since a series of reloads can store any setting next. Reading the clock
and storing what was read count as one step, and the order of the operands of
`clock_.nowMs() - lastActivityMs_` is open, as C++ leaves it.

**TvFusion** is a poll of `SensorManager` in its critical sections
(`TakeSnapshot`, `ReadSensors`, `CompareReads`), the delivery of changes one by
one (`Deliver`), `TvTick`, and the steps of `setup()` and of the web server's
`init()` that interleave with them (`AddSensor`, `MakeMachine`, `BeginMachine`,
`Watch`, `Reconfigure`). The float confidence is an exact comparison of integers
(`Confident`); a quotient of exactly 3/10 rounds to `3.0f` and is not above it.

**ConfigStore** has two writers, the web task and the pairing task. A request is
`Get`, `Set`, `Take`, `Apply`, `Serialize`: `set()` stores the configuration, and its
callback then reads it and hands the timing to the state machines, each a step of
its own; the three setters are one, since they take their values from one
reading. Writing is `OpenTmp`, `PrintTmp`, `RemoveFile`, `RenameTmp`, for `save()` and
for the editor (`Edit`, then `LoadEdited` or `LoadFails`) alike; it fails where `save()`
returns `WriteFailed` (`OpenFails`, `RenameFails`). The other requests that touch the
file are here too: its upload, whose temporary file stays open between the
pieces or for good, its deletion and its download. `Restart` comes between any two
steps. `overlapped` records that two writes were under way at once, `kept` that the
last one succeeded, `outdated` and `stale` a callback that applies what it had read of
an older configuration. LittleFS is external: open truncates, remove and rename are
atomic, and a file that is open is neither removed nor renamed.

**SamsungControl** has a task per operation: `Enter` reads the settings, `Acquire`
takes `opMutex_`, then `SkipStep`, `BeginStep`, `SetVolume`, `Press`, `Pressed`
for a ramp step, `Query` and `Key` for a power-off. A request to the TV is one
step and may fail, in which case it may still have reached the TV. The viewer
uses the remote control between any two requests.

**SamsungPairing** follows a pairing task from `POST /api/tv/pair` to the end of
`pair()`: `PostPair`, `Claim` (`busy_.exchange`), `SetWaiting`, the socket
(`SocketUp`, then `Connected`, `Refused` or `Deadline`), `FetchMac`, `Store`, the
callback in `main.cpp` (`SetConfig`, `SaveConfig`, `WriteConfig`), `Announce` or `Fail`,
and `Release`. Two of them race with the web task, which changes another setting by
way of a copy of the whole configuration (`GetSettings`, `SetSettings`, `SaveSettings`,
`WriteSettings`), with a power-off that copies the credentials (`CopyCredentials`) and
uses them later, and with `Restart` at any step. A save takes its text of the
configuration in one step and writes it in another, which may fail and may then have
removed the file. `overwritten` records that a request has put back what it had read
before a pairing. A token is identified with the TV it came from, so that mixing them
shows. The MAC, which is stored beside them and only displayed, is left out.

**WifiWatchdog** is `WifiSetup` with its watchdog: `AutoConnect`, the portal, and the
30-second check: `Answered`, `NeverAnswered` (no gateway answered since boot),
`CountFailure`, `Rejoin`, `ScanAndJoin` with `selectAccessPoint`, `GiveUp`.
`SelectAccessPoint` is the set of what the code may pick: it takes the first of
the strongest, and the scan reports access points in any order. The network is
external: an access point is good, gone, or *deaf*, i.e. it accepts the device but no
ping comes back, and `Join` is the driver: `WiFi.begin()` without arguments is taken to
join any access point of the SSID, although the rejoin before it may have named one
by its BSSID (`WifiSetup.cpp:51`). `silent` counts the
unanswered checks in a row, to compare the code's two counters with.

**WebUploads** is the requests whose body comes in pieces: `EditFirst`,
`EditLast`, `EditRefused`; `UploadFirst`, `UploadLast`, `UploadDropped`;
`UpdateFirst`, `UpdateLast`, `UpdateEmpty`. The handlers run on one task, but the
pieces of several clients arrive in any order and share `_editBodyBuffer`, the
static file of the upload and `Update`. `EditLast` and `UploadLast` end with the old
file removed; `Rename` is the rest of either callback, and only `Restart` can come
between. Clients are cut off (`Disconnect`), files are downloaded and deleted, the
disk may be full, the device restarts.
`alone`, `spoiled`, `excused` and `cutOff` are history: which request had no other of
its kind in between, which file got what nobody sent, which one may be missing,
which one a restart found removed.

**Discovery** is the list of TVs, each access under the lock a step: `PostScan`,
`Clear`, `BeginScan` or `TurnAway`, `HearAgain`, `HearNew`, then the request for
the description outside the lock, `Enter` or `Unnamed`, and `EndScan`. Devices in
`Addressless` have a location from which no IP can be cut; they pass the search for a
duplicate every time, and `MaxTvs` bounds the list where they are added. Its
specification is called `DiscoverySpec`, so that `NetworkProofs` can extend both
this module and `WifiWatchdog`.

## 3. The runs

Times are for two workers. Every property of a passing run has a mutant in
`PROJECT.json` that the run refutes.

| run | checks | states | shows |
|---|---|---|---|
| `sleep_cycle` | `TypeOK` `SchedulerFollowsState` `TimersExact` `StepsCounted` `PowerOffIsEarned` `RampIsEarned` `ImplementsSequence` `IdleTvIsPoweredOff` | 309 k, 1 min | with atomic calls the two classes are right |
| `sleep_tasks` | `TypeOK` `NoStuckRamp` `StepsAreThisRamps` `StrayRampEnds` `IdleTvIsPoweredOff` | 287 k, 40 s | what remains right with the calls taken apart: nothing gets stuck, and races heal |
| `sleep_tasks_cancel` | `CancelledRampStops` | violated | a cancel that overtakes the start leaves the scheduler running |
| `tv_fusion` | `TypeOK` `BeliefsAreLastReadings` `ListenerIsUpToDate` `OneReadingNeverFlips` `StateFollowsReadings` | 105 k, 25 s | nothing is outdated, and the readings decide in the end |
| `config_store` | `TypeOK` `NeverTorn` `NeverBothGone` `TimingFollowsConfig` `RestartKeepsConfig` | 4.1 M, 1 min | never half a file; writes that do not overlap keep a complete one at every moment, and a restart after a save that succeeded changes nothing; the timing is the configured one unless an older callback ends last |
| `config_store_power` | `PowerCutLeavesAFile` | violated | remove, power cut, no file |
| `samsung_control` | `RampSilences` `VolumeOnlyFalls` `NeverTurnsOn` | 35 k | three tasks and a bad network |
| `samsung_control_viewer` | `TypeOK` `PowerOffSwitchesOff` `EveryOperationEnds` | 165 k, 1 min | a viewer who interferes |
| `samsung_pairing` | `TokenFitsHost` `PairedIsKept` `FailureKeepsTheOldTv` `PairingEnds` | 280 k, 1 min | credentials are of one TV, kept once declared unless a save fails or an older configuration is put back, and a failure costs nothing; every pairing ends and frees the controller |
| `wifi_watchdog` | `TypeOK` `CountersAddUp` `RestartsOnTime` `Recovers` | 8 k, 4 s | the restart comes exactly when it should, and a good access point is found before |
| `web_uploads` | `FilesAreWhole` `OkIsKept` | 761 k, 40 s | outside overlaps, a file is one whole body and is lost only between remove and rename, and "ok" is true |
| `discovery` | `FoundOnce` | 22 k | the lock taken twice per device is enough, as long as one scan runs |

### Bounds, and why they are enough

- *Sleep cycle.* A clock of 8 values with timeouts 2 and 3 and intervals 2 and 3:
  the clock wraps within idle periods and within ramps, in every alignment, since
  the start value is arbitrary. Up to three steps; a reload can lower the limit
  below the steps taken, or to zero. The step counter has four values, so
  passing a limit of three would wrap it. Zero timeouts and intervals are left
  to the proofs. True time saturates at `ClockMod`: beyond a full turn nothing
  is claimed about it.
- *Sleep tasks.* A clock of four, timeout 2, interval 1, limits 1 and 2, which a reload
  may change at any step. The races need one ramp to be cancelled at any of its
  steps and a next one to begin, which happens many times over. `MaxAdvance` is
  1: one tick per iteration.
- *TV fusion.* The weights of `main.cpp` for a ping and a Samsung sensor, both
  configured at boot, deleted and added at will. Votes are counted up to the
  hysteresis of 2, after which the code does not tell them apart.
- *Configuration.* Three contents of the behavior section (default, another, out of
  range), two of each other section: as many as it takes to tell a section
  kept from a section reset. The editor saves one that is out of range, since it
  does not validate (section 6); an upload is a configuration or anything else. In
  `config_store` no request changes the sensors (`SensorLists` is empty): `ConfigStore`
  treats that section like the behavior section, only without validation, and the
  violation run and the proofs have it.
- *Samsung control.* A volume of up to 4 (3 with the viewer) with totals that divide it
  and totals that do not; three tasks, two where the viewer interferes. A step is
  issued while another is under way only if that one is pressing keys, because
  steps are minutes apart and everything else has timeouts of seconds. All tasks
  of a ramp are through before the first step of the next. `MaxVolume` is at most
  a typical volume plus the extra presses: the setting is the user's estimate of
  the loudest, and `RampSilences` says the key method is right if it is.
- *Pairing.* Two TVs (the one paired and another), two pairing tasks and the power-off:
  as many as can be told apart, since a third pairing meets what the second did.
- *Watchdog.* The limits are those of the code, 4 and 3. Three access points of ours:
  one to lose, one that is deaf, one that works; and a stronger one of the
  neighbour's, which must never be chosen.
- *Uploads.* Three requests of any kind, with bodies of two pieces, so that a piece can
  fall between the two of another, and two paths, of which one must hold JSON.
  Requests are interchangeable (symmetry; no liveness is checked).
- *Discovery.* Three tasks and three devices, one of them without an IP, each answering
  as often as it likes. That one is added only to a list of fewer than four
  (`MaxTvs`), one more than there are devices, so that it is listed twice.

### Fairness

- `loop()` never stops and each iteration takes at least its delay: weak fairness of
  the ticks and of `Delay` in `SleepCycle`, of `LoopStep` and `ClockTick` in `SleepTasks`.
- A handler that has begun goes on, since equal priorities share the processor:
  `SensorHandler` in `SleepTasks`, `Poll` and `Setup` in `TvFusion`, whose blocking
  reads all have timeouts.
- Every request to the TV has a timeout: `TaskStep` in `SamsungControl` and `Pair` in
  `SamsungPairing`. A FreeRTOS mutex is handed to the longest waiter of the highest
  priority, and all have the same: strong fairness of `Acquire`.
- The watchdog task checks for ever, `begin()` goes on, and the driver joins an
  access point that is there: `Check`, `ScanAndJoin`, `Setup` and `Join` in
  `WifiWatchdog`.

Nobody is assumed to show up, change the TV, reload anything or press the reset
button, no request is assumed to succeed, and the portal waits for a user who may
never come. The liveness properties say so: an idle TV is switched off *unless*
activity, power reports or TV-off readings go on for ever, and `Recovers` speaks of
a network that has settled, with at most one deaf access point.

## 4. What is proved

Eight modules hold proofs; `tlapm SleepCycleProofs.tla`, and so on for each, checks
them. Every theorem is about `Spec` for all values of the constants that satisfy
the module's assumption: any number of tasks, TVs, sensors or devices, any limit,
contents or clock width (the two writers of the configuration stay two). TLC's runs
check the same formulas on the instances above.

| module | proved | inductive invariant |
|---|---|---|
| `SleepCycleProofs` | `TypeOK` `SchedulerFollowsState` `StepsCounted` `TimersExact` `RampIsEarned` `PowerOffIsEarned` `ImplementsSequence` | `CountInv`, `TimerInv`, `EarnedInv` |
| `SleepTasksProofs` | `TypeOK` `NoStuckRamp` `StepsAreThisRamps` | `TasksInv` |
| `TvFusionProofs` | `TypeOK` `BeliefsAreLastReadings` `ListenerIsUpToDate` `OneReadingNeverFlips` | `FusionInv` |
| `ConfigStoreProofs` | `TypeOK` `NeverTorn` `NeverBothGone` `TimingFollowsConfig` `RestartKeepsConfig` | `StoreInv` |
| `SamsungControlProofs` | `TypeOK` `RampSilences` `VolumeOnlyFalls` `NeverTurnsOn` `PowerOffSwitchesOff` | `ControlInv`, `RampInv`, `PowerInv` |
| `SamsungPairingProofs` | `TypeOK` `TokenFitsHost` `PairedIsKept` `FailureKeepsTheOldTv` | `PairingInv` |
| `NetworkProofs` | `TypeOK` `CountersAddUp` `RestartsOnTime` of the watchdog; `FoundOnce` of discovery | `WatchdogInv`; `ListInv` |
| `WebUploadsProofs` | `FilesAreWhole` `OkIsKept` | `UploadsInv` |

**Sleep cycle.** `SleepCycleAssumption` says that a timeout or interval plus one late
iteration of `loop()` is shorter than a turn of the clock (two hours against 49
days), limits fit the 8-bit counter, and `MinTimeout` and `MinInterval` are lower
bounds; zero timeouts, intervals and limits are included.

1. `CountInv` joins `TypeOK`, `SchedulerFollowsState` and `StepsCounted` with
   `VerifyingHasSteps`. None is inductive alone: that the counter stays in range
   needs the scheduler to stop at the limit, which needs the state to be RAMPING
   when it reports, which is `SchedulerFollowsState`; and a power-off with no step
   before it is excluded only by `VerifyingHasSteps`.
2. `TimerInv` strengthens `TimersExact`: it also bounds how far a timer can run
   past its timeout before the next tick of `loop()` looks at it, which is
   where the assumption on a late iteration enters. Without that bound a
   timer could run past a full turn and its difference be short.
3. `EarnedInv` says how much true time a sequence with `n` steps has behind it, in
   each state. It needs `CountInv` and `TimerInv` in every step.

`SequenceImplemented` maps `phase` to the state and `command` to the event; the
mapping needs `CountInv` for `steps`.

**Sleep tasks.** With the calls taken apart, nothing says any more that the counter is
below the limit while the scheduler is active: a reload may have lowered it. What
survives is `CountFits`: wherever a step may still follow there is room for one
more, because the loop task compares after every increment and only it
increments. `NoStuckRamp` and `StepsAreThisRamps` are inductive given that.

**TV fusion.** `ReadsFit` says that what a poll has read is what the manager remembers
once it has compared, and that changes are under way only then; without it a
change on its way could be older than what the manager remembers.
`BootFits` ties the places of `setup()` to the subscriptions. `OneReadingNeverFlips`
needs `VotesFit`: before the first delivery of a poll the vote is an older one, and
after one the tick evaluates nothing. It is proved for `HysteresisCount >= 2` (the
code has 2); with 1 it is false.

**Configuration.** Two parts of `StoreInv` hold whatever overlaps. `WholeFits` says where
a whole text is in the temporary file, and a rename is refused while the file is
open, so no half-written file gets in place: that is `NeverTorn`. `TimingFits` says that
a callback under way holds the current timing unless it is in `outdated`. The rest
holds as long as no two writes have overlapped: one write at a time, its text in the
temporary file and then in the file (`HadFits`, `TextFits`), and that text is the
configuration, unless the write has failed, or a newer `set()` has still to be
saved.

**Samsung control.** `ControlInv` is the types and who may do what: a task that works
on the TV has the mutex, and a step that has begun is one of its ramp. It holds
whatever the viewer does, on any network. The other two invariants build on it.

*Ramp.* `RampInv` assumes `Undisturbed`: the viewer leaves the volume and the settings
alone, as in the run `samsung_control`. The scheduler numbers the steps, and the
first has begun before the second is issued (`StepsFit`). From then on there are
two cases.

- The volume was read (`SetMethod`): steps do not overlap, the volume is never
  below the target of the last step issued, and equal to it once that step is
  through, unless a request was lost (`missed`). The target of the last step
  is zero.
- It was not (`KeyMethod`): the volume is at most the number of presses still to come.
  That number is a sum over tasks and steps, which would need induction. The
  invariant avoids it: the presses of a whole ramp are numbered, from
  1 to `typical + ExtraPresses`, step `n` has those from `Until(n - 1) + 1` to `Until(n)`,
  and `Owed` is the set of the numbers in some task's hands or not yet issued. A
  press removes one element of `Owed`, and everything else leaves it as it is.
  It begins with at least `MaxVolume` elements, by `SamsungControlAssumption`,
  and is empty in the end.

`RampSilences` needs `0 \notin Totals` on top. `ConfigManager.cpp:123` refuses a ramp
of no steps and `:163` repairs one; only a file edited by hand brings it in, and
such a ramp does nothing. `VolumeOnlyFalls` holds for it too.

*Power-off.* `PowerInv` says that whoever works on the TV has the mutex and that the
TV is on while the power key, a toggle, is on its way. This is where the viewer
must be excluded: the theorems assume `Unattended`, that nobody switches the TV
off by hand (section 6 has the case), and `SwitchesOff` also that requests reach
the TV (`~Flaky`).

**Pairing.** `OneAtATime` is the heart: one task is between setting `busy_` and clearing
it. `JobFits`, `AskingFits` and `EndingFits` then say, place by place, how that
task's copies, the credentials in memory, the configuration and the file relate.
`ConfigFits` and `SettingsFit` bring in the other writer: what a settings request
holds is the configuration as it is, unless it is `outdated`, and only what is
`outdated` makes the configuration `overwritten`.

**Watchdog.** The counters stay below their limits and multiply up to the checks missed
in a row; the rest is arithmetic on a product of two constants (`ProductGrows`),
which the SMT solver needs spelled out. `TypeOK` is proved over it; its one
interesting case is that a rejoin picks an access point with our SSID, or none,
whatever the scan reports.

**Uploads.** `UploadsInv` says what each shared buffer holds, as far as a request that
is `alone` can rely on it: an edit finds its first piece and nothing else in the
buffer (`EditFits`), an upload its own file open, with its first piece or less
(`UploadFits`), and an image finds `Update` running or in error (`UpdateFits`). What is
about to be renamed is then the body of its request (`RenameFits`), and the file
becomes that, or is counted as `spoiled`. `ReadIsThere` is needed for a rename that a
download refuses: the remove was refused as well. The assumption adds that `None`,
the content of a file that is not there, is neither a request, a path, a content
nor a replacement.

**Discovery.** `AllDifferent` speaks of devices with an IP. `OneScan` says
`_isScanning` lets one task through. Then the gap between
the search for a duplicate and the entry is harmless (`FetchFits`): the only others
that touch the list are those that clear it.

Only model-checked: the liveness properties (`IdleTvIsPoweredOff` of both sleep models,
`StrayRampEnds`, `StateFollowsReadings`, `EveryOperationEnds`, `PairingEnds`, `Recovers`),
as fairness and ENABLED are outside the proof system's reach. Every invariant and
every action property of a passing run is proved.

## 5. Abstractions worth knowing

- Copying a `Config` or a sensor list is one step, as is one `subscribe`.
- A remove or rename may be refused in `WebUploads` and `ConfigStore`, and a file may
  not open. A write may be short (full flash) in `WebUploads` only. Files that lack a
  section, or that exist and cannot be read, are not modelled.
- An answer, once sent, is taken to arrive. A restart inside a callback is like one
  before or after it, except between the remove and the rename of a file.
- LittleFS as both modules use it: opening for writing truncates, a file that is open
  is neither removed nor renamed. `Update` is external, by its `begin`, `write`,
  `end` and error flag: a `begin` that fails is taken to leave an error, which the
  Arduino core does for all causes but a buffer it cannot allocate. The WiFi driver,
  the WebSocket library and the TV are external too.
- In `SamsungControl` the TV is paired, and creating a task never fails (`Tasks` bounds
  them); the retries inside the WebSocket library are part of a request's outcome.
- Texts are left out: JSON, SOAP, base64, SSDP answers, XML descriptions. Where a
  parser decides, its possible results are a set (`PowerStates`, `ReadVolumes`,
  `EventTokens`, `Answers`).
- `sendPowerCommand`, `registerSensor`, `removeSensor` and `volumeDown` are called by
  nobody and left out.
- In `TvFusion` the evaluation under the lock and the notification after it are one
  step: two call sites that notify in the wrong order are not in the model.
- The detection sensors of the TV state machine are set at boot only, as in the code:
  a sensor added later is polled but does not vote.

Not modelled: the infrared driver (stubs: `receive` never decodes, `send` does
nothing) and the activity tracker behind it, the debounce of the GPIO input (it
never accepts a change, see below), the web page, authentication, the probe and
the read-only routes, ArduinoOTA, the HAL interfaces, the `NetworkChecker` and
`FileSystemManager` classes (built by nobody), the texts of the protocols (the
unit tests hold them to known vectors), build scripts.

## 6. Observations

Where a violation run stands for an observation, it is named; its trace is the
shortest there is. The others came up while writing the models; where a property
exempts one, its comment says so.

Sleep cycle and fusion:

- A cancel between `current_ = RAMPING` and `RampScheduler::start`
  (`SleepStateMachine.cpp:31`) leaves the scheduler lowering the volume in
  MONITORING. `docs/spec/spec.md:22` says a cancelled ramp does not
  (`sleep_tasks_cancel`).
- Activity between the test and the store in `onRampComplete`
  (`SleepStateMachine.cpp:87`) is overwritten, and the sequence goes on to power-off.
- The operands of the idle-time difference are read apart
  (`SleepStateMachine.cpp:24`): activity in between makes it huge, and a ramp begins at once.
- A sensor polled during `setup()` (`main.cpp:210-215`) has no vote until its reading
  changes, where `docs/spec/spec.md:35` lets every sensor vote. A sensor that is
  added or deleted later changes the votes at the next boot only.
- Two sensors that change in one poll satisfy a hysteresis of 2 polls
  (`TvStateMachine.cpp:122`, against `TvStateMachine.h:74`).
- The GPIO sensor restarts its debounce time on every reading that differs
  (`GpioInputSensor.cpp:38`) and so never accepts a change; `docs/SENSORS.md:35`
  calls it a digital input with debounce.

Configuration and files:

- `save()` removes the file before the rename, and `load()` ignores the temporary file
  (`ConfigManager.cpp:79`; `config_store_power`). The editor and the upload replace files
  the same way (`WebServer.cpp:647`, `:742`).
- `set()` is not atomic (`ConfigManager.cpp:100`, against `ConfigManager.h:103`): its
  callback may apply what another task has replaced, and the state machines keep the
  old timing until the next change.
- A settings request sets and saves its copy of the whole configuration: a pairing that
  completes in between is undone, in memory and on file, although the page says
  paired (`WebServer.cpp:545`, `main.cpp:200`). Two saves at
  once may also leave neither file (`ConfigManager.cpp:80`).
- A save that fails is reported to callers who do not look (`main.cpp:205`): the
  configuration then lives in memory only. It fails while the file is downloaded,
  while an upload of it that was cut off holds the temporary file (until the next
  upload), and when nothing can be created. Once the upload is let go between another
  task's close and rename, what is renamed is a part of a file (`WebServer.cpp:729`).
- The file editor loads what `validate` would refuse (`WebServer.cpp:655`); two edits at
  once share a buffer (`WebServer.cpp:611`), and the parse error of what they mix is
  ignored (`:621`). An edit of a file whose upload was cut off removes it and cannot
  rename (`WebServer.cpp:648`).
- Uploads at the same time mix in one static file, and are always answered 200
  (`WebServer.cpp:721`, against `:713`, which calls the upload atomic). Short writes on a full flash go unnoticed.
- After an image that was cut off, the next update fails once; `POST /update` without a
  file restarts the device (`WebServer.cpp:283`).
- A sensor `POST` in several pieces is parsed piece by piece (`WebServer.cpp:189`).

Samsung TV:

- Each ramp step sets a fraction of the volume read on step 1
  (`SamsungTvController.cpp:158`), possibly above what the viewer chose meanwhile;
  `SamsungTvController.h:89` says a step lowers the volume.
- A TV switched off between the query and `KEY_POWER` is switched on
  (`SamsungTvController.cpp:186`).
- The result of `sendTXT` is ignored (`ArduinoSamsungTransport.cpp:93`): a key that was
  not sent counts as sent.
- Of two pairing requests answered 202, the second is dropped. A TV that does not tell
  its MAC inherits that of the TV before.
- A `typical_volume` of 255 from an edited file is cast to 8 bits after the extra
  presses are added (`SamsungTvController.cpp:156`).

Network:

- A device that boots onto an access point that passes nothing never rejoins nor
  restarts, as it has not had an answer yet (`WifiWatchdog.cpp:28`).
- A restart while the network is away ends in a portal that waits for a user; the reset
  button is polled only after `begin()` has returned.
- A device whose location yields no IP (`http://192.168.1.5`, without port and path) is
  listed once per answer, since the search for a duplicate wants an IP
  (`SamsungTvDiscovery.cpp:110`).
- A second `POST /api/scan` wipes what the first has found so far, and the list is empty
  after a boot, so a UPnP sensor votes "off" until somebody scans (`WebServer.cpp:353`).

## 7. What is left

- A composition of fusion, sleep cycle and TV control, for the end-to-end promise: a
  watched TV is left alone and an unwatched one goes off. Each hand-over is
  checked in the component (`ListenerIsUpToDate`, `IdleTvIsPoweredOff`,
  `PowerOffSwitchesOff`); the product of the state spaces is too large as it is, and would
  need an abstract specification of `TvFusion` and of `SamsungControl`.
- Short writes and unreadable files in `ConfigStore`.
