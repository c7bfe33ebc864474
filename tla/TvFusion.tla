------------------------------ MODULE TvFusion ------------------------------
(***************************************************************************)
(* SensorManager and TvStateMachine: how sensor readings become the TV's   *)
(* power state.                                                            *)
(*                                                                         *)
(* The sensor task polls: it copies the list of sensors under the          *)
(* manager's lock, reads them without it, compares with the last values    *)
(* under the lock again, then hands each change to TvStateMachine outside  *)
(* it, and finally calls TvStateMachine::tick.  Meanwhile setup() builds   *)
(* the manager, the TV state machine and its subscriptions, and the web    *)
(* server rebuilds the manager's sensors one by one when the user adds or  *)
(* deletes one.  A step is one critical section, or one call made outside. *)
(*                                                                         *)
(* `settled` and `heard` are history variables.                            *)
(***************************************************************************)
EXTENDS Integers, FiniteSets, FiniteSetsExt

CONSTANTS
  Sensors,           \* sensor ids, numbered in the order of std::map
  AtBoot,            \* the ids in the configuration file at boot
  Presence,          \* ids that report a person, not the TV: presence_phone
  Weight,            \* weight of each sensor's vote
  HysteresisCount    \* equal votes needed to change the state (2)

ASSUME TvFusionAssumption ==
  /\ Sensors \subseteq Nat /\ IsFiniteSet(Sensors)
  /\ AtBoot \subseteq Sensors /\ Presence \subseteq Sensors
  /\ Weight \in [Sensors -> Nat \ {0}]
  /\ HysteresisCount \in Nat \ {0}

VARIABLES
  world,             \* what a read() of each sensor would return now
  config,            \* ids in the configuration
  (* SensorManager *)
  sensors,           \* registered sensors
  lastValues,        \* last value seen by tick(), "none" before the first
  subscribed,        \* TvStateMachine gets value changes
  (* the sensor task *)
  poll,              \* where it is
  snapshot,          \* the sensors it copied
  reads,             \* what it read, "none" for sensors not read
  changes,           \* readings still to be delivered
  (* TvStateMachine *)
  detection,         \* sensors whose readings count
  values,            \* last delivered reading, "none" before the first
  current,           \* currentState_
  lastVote,          \* lastVote_
  votes,             \* consecutiveVotes_
  updated,           \* updatedSinceTick_
  (* setup() and the web server *)
  boot,              \* how far setup() is
  loading,           \* ids SensorManager::init has still to add
  watched,           \* the sleep state machine gets power changes
  (* history *)
  settled,           \* lastVote was already there when this poll began
  delivered,         \* readings delivered in this poll, up to two
  heard              \* last power state the sleep state machine was told

manager == <<sensors, lastValues, subscribed>>
task    == <<poll, snapshot, reads, changes>>
machine == <<detection, values, current, lastVote, votes, updated>>
wiring  == <<boot, loading, config, watched>>
vars == <<world, manager, task, machine, wiring, settled, delivered, heard>>

Readings == {"none", "true", "false"}
Powers   == {"UNKNOWN", "ON", "OFF"}
Nothing  == [s \in Sensors |-> "none"]

\* Counting beyond the hysteresis makes no difference.
Capped(n) == IF n > HysteresisCount THEN HysteresisCount ELSE n

Init ==
  /\ world \in [Sensors -> {"true", "false"}]
  /\ config = AtBoot
  /\ sensors = {} /\ lastValues = Nothing /\ subscribed = FALSE
  /\ poll = "idle" /\ snapshot = {} /\ reads = Nothing /\ changes = {}
  /\ detection = {} /\ values = Nothing
  /\ current = "UNKNOWN" /\ lastVote = "UNKNOWN" /\ votes = 0
  /\ updated = FALSE
  /\ boot = "init" /\ loading = AtBoot /\ watched = FALSE
  /\ settled = FALSE /\ delivered = 0 /\ heard = "none"

-----------------------------------------------------------------------------
(* TvStateMachine.                                                         *)

\* Total weight of a set of sensors.
WeightOf[T \in SUBSET Sensors] ==
  IF T = {} THEN 0 ELSE Weight[Min(T)] + WeightOf[T \ {Min(T)}]

\* The weight of the detection sensors that read r.
WeightReading(v, r) == WeightOf[{s \in detection : v[s] = r}]

\* The weights for and against whose confidence, votes / maxVotes * 10, is
\* above 3.  A quotient of exactly 3/10 rounds to 3.0f, so this comparison of
\* integers is the float comparison of the code.
Confident ==
  {c \in (0 .. WeightOf[Sensors]) \X (0 .. WeightOf[Sensors]) :
     10 * (c[1] - c[2]) > 3 * (c[1] + c[2])}

\* calculateConfidence and the thresholds of evaluateState.
VoteOf(v) ==
  LET for     == WeightReading(v, "true")
      against == WeightReading(v, "false")
  IN  CASE <<for, against>> \in Confident -> "ON"
        [] <<against, for>> \in Confident -> "OFF"
        [] OTHER -> "UNKNOWN"

\* Mutant: one contrary vote does not start the count again.
EvaluateKeepCount(v) ==
  LET vote == VoteOf(v)
      n    == Capped(votes + 1)
  IN  /\ lastVote' = vote /\ votes' = n
      /\ settled' = (settled /\ vote = lastVote)
      /\ current' = IF n >= HysteresisCount THEN vote ELSE current

\* evaluateState on the readings v.
Evaluate(v) ==
  LET vote == VoteOf(v)
      n    == IF vote = lastVote THEN Capped(votes + 1) ELSE 1
  IN  /\ lastVote' = vote /\ votes' = n
      /\ settled' = (settled /\ vote = lastVote)
      /\ current' = IF n >= HysteresisCount THEN vote ELSE current

\* Subscribers are called when the state changed.
Notify == heard' = IF watched /\ current' # current THEN current' ELSE heard

-----------------------------------------------------------------------------
(* The sensor task.                                                        *)

TakeSnapshot ==
  /\ poll = "idle" /\ poll' = "read"
  /\ snapshot' = sensors
  /\ settled' = TRUE /\ delivered' = 0
  /\ UNCHANGED <<world, manager, reads, changes, machine, wiring, heard>>

\* The reads block, so the sensors may have been replaced meanwhile.
ReadSensors ==
  /\ poll = "read" /\ poll' = "compare"
  /\ reads' = [s \in Sensors |-> IF s \in snapshot THEN world[s] ELSE "none"]
  /\ snapshot' = {}
  /\ UNCHANGED <<world, manager, changes, machine, wiring, settled, delivered, heard>>

\* Mutant: the sensors registered by now are compared, read or not.
CompareRegistered ==
  /\ poll = "compare" /\ poll' = "deliver"
  /\ LET new == {s \in sensors : reads[s] # lastValues[s]}
     IN  /\ lastValues' = [s \in Sensors |-> IF s \in new THEN reads[s]
                                             ELSE lastValues[s]]
         /\ changes' = IF subscribed THEN new ELSE {}
  /\ UNCHANGED <<world, sensors, subscribed, snapshot, reads, machine, wiring,
                 settled, delivered, heard>>

\* First readings and changed readings are remembered, and delivered to those
\* who have subscribed by now.
CompareReads ==
  /\ poll = "compare" /\ poll' = "deliver"
  /\ LET new == {s \in Sensors : reads[s] # "none" /\ reads[s] # lastValues[s]}
     IN  /\ lastValues' = [s \in Sensors |-> IF s \in new THEN reads[s]
                                             ELSE lastValues[s]]
         /\ changes' = IF subscribed THEN new ELSE {}
  /\ UNCHANGED <<world, sensors, subscribed, snapshot, reads, machine, wiring,
                 settled, delivered, heard>>

\* Mutant: readings of sensors that were removed meanwhile are dropped.
DeliverRegistered ==
  /\ poll = "deliver" /\ changes # {}
  /\ LET s == Min(changes)
         v == [values EXCEPT ![s] = reads[s]]
     IN  /\ changes' = changes \ {s}
         /\ IF s \in sensors
              THEN values' = v /\ updated' = TRUE /\ Evaluate(v)
              ELSE UNCHANGED <<values, updated, lastVote, votes, settled, current>>
  /\ delivered' = IF delivered = 0 THEN 1 ELSE 2
  /\ Notify
  /\ UNCHANGED <<world, manager, poll, snapshot, reads, detection, wiring>>

\* TvStateMachine::onSensorUpdate, in the order of std::map.
Deliver ==
  /\ poll = "deliver" /\ changes # {}
  /\ LET s == Min(changes)
         v == [values EXCEPT ![s] = reads[s]]
     IN  /\ changes' = changes \ {s}
         /\ values' = v
         /\ updated' = TRUE
         /\ Evaluate(v)
  /\ delivered' = IF delivered = 0 THEN 1 ELSE 2
  /\ Notify
  /\ UNCHANGED <<world, manager, poll, snapshot, reads, detection, wiring>>

\* Mutant: nothing is evaluated when no reading changed.
TvTickIdle ==
  /\ poll = "deliver" /\ changes = {} /\ poll' = "idle"
  /\ reads' = Nothing
  /\ updated' = FALSE
  /\ UNCHANGED <<world, manager, snapshot, changes, detection, values, current,
                 lastVote, votes, wiring, settled, delivered, heard>>

\* Mutant: a state that a tick brought about is not announced.
TvTickSilent ==
  /\ poll = "deliver" /\ changes = {} /\ poll' = "idle"
  /\ reads' = Nothing
  /\ updated' = FALSE
  /\ IF updated THEN UNCHANGED <<lastVote, votes, settled, current>>
                ELSE Evaluate(values)
  /\ UNCHANGED <<world, manager, snapshot, changes, detection, values, wiring,
                 delivered, heard>>

\* TvStateMachine::tick: evaluate again if nothing was delivered since the
\* last tick.  Before setup() has made the machine there is nothing to tick.
TvTick ==
  /\ poll = "deliver" /\ changes = {} /\ poll' = "idle"
  /\ reads' = Nothing
  /\ IF boot = "init"
       THEN UNCHANGED <<updated, lastVote, votes, settled, current, heard>>
       ELSE /\ updated' = FALSE
            /\ IF updated THEN UNCHANGED <<lastVote, votes, settled, current>>
                          ELSE Evaluate(values)
            /\ Notify
  /\ UNCHANGED <<world, manager, snapshot, changes, detection, values, wiring,
                 delivered>>

Poll == TakeSnapshot \/ ReadSensors \/ CompareReads \/ Deliver \/ TvTick

-----------------------------------------------------------------------------
(* SensorManager::init: clear, then add the configured sensors one by one, *)
(* each under the lock.  setup() and the web server call it.               *)

AddSensor ==
  /\ \E s \in loading : /\ s = Min(loading)
                        /\ sensors' = sensors \cup {s}
                        /\ loading' = loading \ {s}
  /\ UNCHANGED <<world, lastValues, subscribed, task, machine, boot, config,
                 watched, settled, delivered, heard>>

\* The constructor of TvStateMachine subscribes to value changes.
MakeMachine ==
  /\ boot = "init" /\ loading = {} /\ boot' = "begin"
  /\ subscribed' = TRUE
  /\ UNCHANGED <<world, sensors, lastValues, task, machine, loading, config,
                 watched, settled, delivered, heard>>

\* TvStateMachine::begin sets the detection sensors and forgets the rest.
BeginMachine ==
  /\ boot = "begin" /\ boot' = "watch"
  /\ detection' = config \ Presence
  /\ values' = Nothing
  /\ current' = "UNKNOWN" /\ lastVote' = "UNKNOWN" /\ votes' = 0
  /\ settled' = FALSE
  /\ UNCHANGED <<world, manager, task, loading, config, watched, delivered,
                 heard, updated>>

\* The sleep state machine subscribes to power changes.
Watch ==
  /\ boot = "watch" /\ boot' = "done"
  /\ watched' = TRUE
  /\ UNCHANGED <<world, manager, task, machine, loading, config, settled, delivered, heard>>

Setup == AddSensor \/ MakeMachine \/ BeginMachine \/ Watch

\* POST and DELETE /api/sensors: a new configuration, and init() starts over.
\* The detection sensors stay those of the boot.
Reconfigure(c) ==
  /\ boot = "done" /\ loading = {}
  /\ config' = c
  /\ sensors' = {} /\ loading' = c
  /\ UNCHANGED <<world, lastValues, subscribed, task, machine, boot, watched,
                 settled, delivered, heard>>

\* What a sensor would see changes by itself.
WorldChanges(s) ==
  /\ world' = [world EXCEPT ![s] = IF @ = "true" THEN "false" ELSE "true"]
  /\ UNCHANGED <<manager, task, machine, wiring, settled, delivered, heard>>

Next ==
  \/ Poll
  \/ Setup
  \/ \E c \in SUBSET Sensors : Reconfigure(c)
  \/ \E s \in Sensors : WorldChanges(s)

Spec == Init /\ [][Next]_vars

\* Both tasks have equal priority, and every blocking read has a timeout.
FairSpec == Spec /\ WF_vars(Poll) /\ WF_vars(Setup)

-----------------------------------------------------------------------------
TypeOK ==
  /\ world \in [Sensors -> {"true", "false"}]
  /\ config \subseteq Sensors
  /\ sensors \subseteq Sensors /\ lastValues \in [Sensors -> Readings]
  /\ subscribed \in BOOLEAN
  /\ poll \in {"idle", "read", "compare", "deliver"}
  /\ snapshot \subseteq Sensors
  /\ reads \in [Sensors -> Readings]
  /\ changes \subseteq {s \in Sensors : reads[s] # "none"}
  /\ detection \subseteq Sensors /\ values \in [Sensors -> Readings]
  /\ current \in Powers /\ lastVote \in Powers
  /\ votes \in 0 .. HysteresisCount /\ updated \in BOOLEAN
  /\ boot \in {"init", "begin", "watch", "done"}
  /\ loading \subseteq Sensors /\ watched \in BOOLEAN
  /\ settled \in BOOLEAN /\ delivered \in 0 .. 2 /\ heard \in Powers \cup {"none"}

AtRest == poll = "idle"

\* What TvStateMachine believes about a sensor it has heard of is what the
\* manager saw last, whichever sensors were added or deleted during the poll;
\* only the readings on their way to it are newer.
BeliefsAreLastReadings ==
  \A s \in Sensors \ changes : values[s] \in {"none", lastValues[s]}

\* The sleep state machine is never left with an outdated power state: once it
\* was told one, between polls it knows the current one.
ListenerIsUpToDate == heard # "none" /\ AtRest => heard = current

\* No single reading flips the state: a change of state rests on a vote that
\* outlived a poll, or on two readings in this one.
OneReadingNeverFlips ==
  [][current' # current /\ boot' = boot => settled' \/ delivered' = 2]_vars

ReadingsSay(p) == VoteOf(values) = p

\* Readings that stop changing decide the state: it comes to be what the
\* readings say, and stays, however long ago the last change was delivered.
StateFollowsReadings ==
  /\ []<>~ReadingsSay("ON") \/ <>[](current = "ON")
  /\ []<>~ReadingsSay("OFF") \/ <>[](current = "OFF")
  /\ []<>~ReadingsSay("UNKNOWN") \/ <>[](current = "UNKNOWN")

=============================================================================
