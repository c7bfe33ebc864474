--------------------------- MODULE TvFusionProofs ---------------------------
(***************************************************************************)
(* The safety of TvFusion for any sensors, weights and hysteresis.         *)
(***************************************************************************)
EXTENDS TvFusion, TLAPS

-----------------------------------------------------------------------------
(* The inductive invariant.                                                *)

\* What a poll has read is what the manager remembers once it has compared, and
\* changes are on their way only then, and only to a subscriber.
ReadsFit ==
  /\ poll # "deliver" => changes = {}
  /\ poll = "deliver" => \A s \in Sensors : reads[s] \in {"none", lastValues[s]}
  /\ ~subscribed => changes = {} /\ values = Nothing

\* The sleep state machine has not heard a power state that is not the current one.
HeardFits == heard # "none" => watched /\ heard = current

BootFits ==
  /\ boot = "init" <=> ~subscribed
  /\ watched <=> boot = "done"

\* Until something was delivered, a poll rests on an earlier vote or on none; and
\* once it was, its tick evaluates nothing.
VotesFit ==
  /\ poll # "idle" /\ delivered = 0 => settled \/ votes = 0
  /\ poll # "idle" /\ delivered > 0 => updated

FusionInv ==
  TypeOK /\ ReadsFit /\ HeardFits /\ BootFits /\ VotesFit /\ BeliefsAreLastReadings

-----------------------------------------------------------------------------
(* Votes.                                                                  *)

\* A vote is a power state.
LEMMA VoteType == \A v : VoteOf(v) \in Powers
BY DEF VoteOf, Powers

\* Evaluating keeps the types.
LEMMA EvaluateType ==
  ASSUME TypeOK, NEW v, Evaluate(v)
  PROVE  /\ current' \in Powers /\ lastVote' \in Powers
         /\ votes' \in 0 .. HysteresisCount /\ settled' \in BOOLEAN
<1>1. current' \in Powers /\ lastVote' \in Powers
  BY VoteType DEF Evaluate, TypeOK
<1>2. votes' \in 0 .. HysteresisCount
  BY TvFusionAssumption DEF Evaluate, Capped, TypeOK
<1>3. settled' \in BOOLEAN
  <2>1. settled' = (settled /\ VoteOf(v) = lastVote)
    BY DEF Evaluate
  <2>2. QED
    BY <2>1, Zenon
<1>4. QED
  BY <1>1, <1>2, <1>3

\* A state that changes rests on a vote that is repeated, and so on an earlier one.
LEMMA EvaluateFlips ==
  ASSUME TypeOK, NEW v, Evaluate(v), current' # current, HysteresisCount >= 2
  PROVE  votes > 0 /\ settled' = settled
<1>1. VoteOf(v) = lastVote /\ votes > 0
  BY TvFusionAssumption DEF Evaluate, Capped, TypeOK
<1>2. settled' = (settled /\ VoteOf(v) = lastVote)
  BY DEF Evaluate
<1>3. settled \in BOOLEAN
  BY DEF TypeOK
<1>4. QED
  BY <1>1, <1>2, <1>3

-----------------------------------------------------------------------------
(* Every step keeps the invariant.                                         *)

\* At boot nothing is read, voted or heard.
LEMMA FusionInit == Init => FusionInv
<1> SUFFICES ASSUME Init
             PROVE  FusionInv
  OBVIOUS
<1> USE TvFusionAssumption DEF Init
<1>1. TypeOK
  <2>1. Nothing \in [Sensors -> Readings]
    BY DEF Nothing, Readings
  <2>2. votes \in 0 .. HysteresisCount /\ delivered \in 0 .. 2
    OBVIOUS
  <2>3. QED
    BY <2>1, <2>2 DEF TypeOK, Powers
<1>2. ReadsFit /\ HeardFits /\ BootFits /\ VotesFit
  BY DEF ReadsFit, HeardFits, BootFits, VotesFit
<1>3. BeliefsAreLastReadings
  BY DEF BeliefsAreLastReadings, Nothing
<1>4. QED
  BY <1>1, <1>2, <1>3 DEF FusionInv

USE TvFusionAssumption DEF manager, task, machine, wiring

\* A poll copies the list of sensors.
LEMMA TakeSnapshotInv ==
  ASSUME FusionInv, TakeSnapshot
  PROVE  FusionInv'
<1>1. TypeOK'
  BY DEF FusionInv, TypeOK, TakeSnapshot
<1>2. ReadsFit'
  BY DEF FusionInv, ReadsFit, TakeSnapshot
<1>3. HeardFits'
  BY DEF FusionInv, HeardFits, TakeSnapshot
<1>4. BootFits'
  BY DEF FusionInv, BootFits, TakeSnapshot
<1>5. VotesFit'
  BY DEF VotesFit, TakeSnapshot
<1>6. BeliefsAreLastReadings'
  BY DEF FusionInv, BeliefsAreLastReadings, TakeSnapshot
<1>7. QED
  BY <1>1, <1>2, <1>3, <1>4, <1>5, <1>6 DEF FusionInv

\* A poll reads every sensor of its copy.
LEMMA ReadSensorsInv ==
  ASSUME FusionInv, ReadSensors
  PROVE  FusionInv'
<1>1. TypeOK'
  <2>1. reads' \in [Sensors -> Readings] /\ changes' = {}
    BY DEF FusionInv, TypeOK, ReadsFit, Readings, ReadSensors
  <2>2. QED
    BY <2>1 DEF FusionInv, TypeOK, ReadSensors
<1>2. ReadsFit'
  BY DEF FusionInv, ReadsFit, ReadSensors
<1>3. HeardFits'
  BY DEF FusionInv, HeardFits, ReadSensors
<1>4. BootFits'
  BY DEF FusionInv, BootFits, ReadSensors
<1>5. VotesFit'
  BY DEF FusionInv, VotesFit, ReadSensors
<1>6. BeliefsAreLastReadings'
  BY DEF FusionInv, BeliefsAreLastReadings, ReadSensors
<1>7. QED
  BY <1>1, <1>2, <1>3, <1>4, <1>5, <1>6 DEF FusionInv

\* A poll compares with the last values: what differs is delivered, and only
\* to a subscriber.
LEMMA CompareReadsInv ==
  ASSUME FusionInv, CompareReads
  PROVE  FusionInv'
<1>1. TypeOK'
  BY DEF FusionInv, TypeOK, CompareReads
<1>2. ReadsFit'
  BY DEF FusionInv, ReadsFit, CompareReads
<1>3. HeardFits'
  BY DEF FusionInv, HeardFits, CompareReads
<1>4. BootFits'
  BY DEF FusionInv, BootFits, CompareReads
<1>5. VotesFit'
  BY DEF FusionInv, VotesFit, CompareReads
<1>6. BeliefsAreLastReadings'
  BY DEF FusionInv, ReadsFit, BeliefsAreLastReadings, Nothing, CompareReads
<1>7. QED
  BY <1>1, <1>2, <1>3, <1>4, <1>5, <1>6 DEF FusionInv

\* One change reaches the TV state machine: it holds what the poll read, and
\* votes at once.
LEMMA DeliverInv ==
  ASSUME FusionInv, Deliver
  PROVE  FusionInv'
<1>1. TypeOK'
  <2>1. PICK s, v : /\ v = [values EXCEPT ![s] = reads[s]] /\ Evaluate(v)
                    /\ values' = v /\ changes' = changes \ {s} /\ updated' = TRUE
    BY DEF Deliver
  <2>2. values' \in [Sensors -> Readings] /\ changes' \subseteq changes
    BY <2>1 DEF FusionInv, TypeOK
  <2>3. /\ current' \in Powers /\ lastVote' \in Powers
        /\ votes' \in 0 .. HysteresisCount /\ settled' \in BOOLEAN
    BY <2>1, EvaluateType DEF FusionInv
  <2>4. heard' \in Powers \cup {"none"} /\ delivered' \in 0 .. 2
    BY <2>3 DEF FusionInv, TypeOK, Notify, Deliver
  <2>5. QED
    BY <2>1, <2>2, <2>3, <2>4 DEF FusionInv, TypeOK, Deliver
<1>2. ReadsFit'
  BY DEF FusionInv, ReadsFit, Deliver
<1>3. HeardFits'
  BY DEF FusionInv, HeardFits, Notify, Deliver
<1>4. BootFits'
  BY DEF FusionInv, BootFits, Deliver
<1>5. VotesFit'
  BY DEF VotesFit, Deliver
<1>6. BeliefsAreLastReadings'
  BY DEF FusionInv, TypeOK, ReadsFit, BeliefsAreLastReadings, Deliver
<1>7. QED
  BY <1>1, <1>2, <1>3, <1>4, <1>5, <1>6 DEF FusionInv

\* The tick after the poll votes only if nothing was delivered.
LEMMA TvTickInv ==
  ASSUME FusionInv, TvTick
  PROVE  FusionInv'
<1>1. TypeOK'
  <2>1. reads' \in [Sensors -> Readings] /\ changes' = {}
    BY DEF TvTick, Nothing, Readings
  <2>2. /\ current' \in Powers /\ lastVote' \in Powers
        /\ votes' \in 0 .. HysteresisCount /\ settled' \in BOOLEAN
    BY EvaluateType DEF FusionInv, TypeOK, TvTick
  <2>3. heard' \in Powers \cup {"none"} /\ updated' \in BOOLEAN
    BY <2>2 DEF FusionInv, TypeOK, Notify, TvTick
  <2>4. QED
    BY <2>1, <2>2, <2>3 DEF FusionInv, TypeOK, TvTick
<1>2. ReadsFit'
  BY DEF FusionInv, ReadsFit, TvTick
<1>3. HeardFits'
  BY DEF FusionInv, HeardFits, Notify, TvTick
<1>4. BootFits'
  BY DEF FusionInv, BootFits, TvTick
<1>5. VotesFit'
  BY DEF VotesFit, TvTick
<1>6. BeliefsAreLastReadings'
  BY DEF FusionInv, BeliefsAreLastReadings, TvTick
<1>7. QED
  BY <1>1, <1>2, <1>3, <1>4, <1>5, <1>6 DEF FusionInv

\* setup() adds one sensor after another, while polls go on.
LEMMA AddSensorInv ==
  ASSUME FusionInv, AddSensor
  PROVE  FusionInv'
<1>1. TypeOK'
  <2>1. sensors' \subseteq Sensors /\ loading' \subseteq Sensors
    BY DEF FusionInv, TypeOK, AddSensor
  <2>2. QED
    BY <2>1 DEF FusionInv, TypeOK, AddSensor
<1>2. ReadsFit'
  BY DEF FusionInv, ReadsFit, AddSensor
<1>3. HeardFits'
  BY DEF FusionInv, HeardFits, AddSensor
<1>4. BootFits'
  BY DEF FusionInv, BootFits, AddSensor
<1>5. VotesFit'
  BY DEF FusionInv, VotesFit, AddSensor
<1>6. BeliefsAreLastReadings'
  BY DEF FusionInv, BeliefsAreLastReadings, AddSensor
<1>7. QED
  BY <1>1, <1>2, <1>3, <1>4, <1>5, <1>6 DEF FusionInv

\* setup() subscribes the new TV state machine to the changes.
LEMMA MakeMachineInv ==
  ASSUME FusionInv, MakeMachine
  PROVE  FusionInv'
<1>1. TypeOK'
  BY DEF FusionInv, TypeOK, MakeMachine
<1>2. ReadsFit'
  BY DEF FusionInv, ReadsFit, MakeMachine
<1>3. HeardFits'
  BY DEF FusionInv, HeardFits, MakeMachine
<1>4. BootFits'
  BY DEF FusionInv, BootFits, MakeMachine
<1>5. VotesFit'
  BY DEF FusionInv, VotesFit, MakeMachine
<1>6. BeliefsAreLastReadings'
  BY DEF FusionInv, BeliefsAreLastReadings, MakeMachine
<1>7. QED
  BY <1>1, <1>2, <1>3, <1>4, <1>5, <1>6 DEF FusionInv

\* begin() chooses the sensors that vote, and starts without votes.
LEMMA BeginMachineInv ==
  ASSUME FusionInv, BeginMachine
  PROVE  FusionInv'
<1>1. TypeOK'
  <2>1. values' \in [Sensors -> Readings] /\ votes' \in 0 .. HysteresisCount
    BY DEF BeginMachine, Nothing, Readings
  <2>2. detection' \subseteq Sensors
    BY DEF FusionInv, TypeOK, BeginMachine
  <2>3. QED
    BY <2>1, <2>2 DEF FusionInv, TypeOK, BeginMachine, Powers
<1>2. ReadsFit'
  BY DEF FusionInv, ReadsFit, BeginMachine
<1>3. HeardFits'
  BY DEF FusionInv, HeardFits, BootFits, BeginMachine
<1>4. BootFits'
  BY DEF FusionInv, BootFits, BeginMachine
<1>5. VotesFit'
  BY DEF FusionInv, VotesFit, BeginMachine
<1>6. BeliefsAreLastReadings'
  BY DEF BeliefsAreLastReadings, Nothing, BeginMachine
<1>7. QED
  BY <1>1, <1>2, <1>3, <1>4, <1>5, <1>6 DEF FusionInv

\* The sleep machine subscribes last and hears nothing of what was before.
LEMMA WatchInv ==
  ASSUME FusionInv, Watch
  PROVE  FusionInv'
<1>1. TypeOK'
  BY DEF FusionInv, TypeOK, Watch
<1>2. ReadsFit'
  BY DEF FusionInv, ReadsFit, Watch
<1>3. HeardFits'
  BY DEF FusionInv, HeardFits, Watch
<1>4. BootFits'
  BY DEF FusionInv, BootFits, Watch
<1>5. VotesFit'
  BY DEF FusionInv, VotesFit, Watch
<1>6. BeliefsAreLastReadings'
  BY DEF FusionInv, BeliefsAreLastReadings, Watch
<1>7. QED
  BY <1>1, <1>2, <1>3, <1>4, <1>5, <1>6 DEF FusionInv

\* A request replaces the sensors while polls go on.
LEMMA ReconfigureInv ==
  ASSUME FusionInv, NEW c \in SUBSET Sensors, Reconfigure(c)
  PROVE  FusionInv'
<1>1. TypeOK'
  BY DEF FusionInv, TypeOK, Reconfigure
<1>2. ReadsFit'
  BY DEF FusionInv, ReadsFit, Reconfigure
<1>3. HeardFits'
  BY DEF FusionInv, HeardFits, Reconfigure
<1>4. BootFits'
  BY DEF FusionInv, BootFits, Reconfigure
<1>5. VotesFit'
  BY DEF FusionInv, VotesFit, Reconfigure
<1>6. BeliefsAreLastReadings'
  BY DEF FusionInv, BeliefsAreLastReadings, Reconfigure
<1>7. QED
  BY <1>1, <1>2, <1>3, <1>4, <1>5, <1>6 DEF FusionInv

\* What the sensors see changes at any moment.
LEMMA WorldChangesInv ==
  ASSUME FusionInv, NEW s \in Sensors, WorldChanges(s)
  PROVE  FusionInv'
<1>1. TypeOK'
  BY DEF FusionInv, TypeOK, WorldChanges
<1>2. ReadsFit'
  BY DEF FusionInv, ReadsFit, WorldChanges
<1>3. HeardFits'
  BY DEF FusionInv, HeardFits, WorldChanges
<1>4. BootFits'
  BY DEF FusionInv, BootFits, WorldChanges
<1>5. VotesFit'
  BY DEF FusionInv, VotesFit, WorldChanges
<1>6. BeliefsAreLastReadings'
  BY DEF FusionInv, BeliefsAreLastReadings, WorldChanges
<1>7. QED
  BY <1>1, <1>2, <1>3, <1>4, <1>5, <1>6 DEF FusionInv

\* Every step keeps the invariant.
LEMMA FusionStep == FusionInv /\ [Next]_vars => FusionInv'
<1> SUFFICES ASSUME FusionInv, [Next]_vars
             PROVE  FusionInv'
  OBVIOUS
<1>1. CASE Poll
  BY <1>1, TakeSnapshotInv, ReadSensorsInv, CompareReadsInv, DeliverInv, TvTickInv
  DEF Poll
<1>2. CASE Setup
  BY <1>2, AddSensorInv, MakeMachineInv, BeginMachineInv, WatchInv DEF Setup
<1>3. CASE \E c \in SUBSET Sensors : Reconfigure(c)
  BY <1>3, ReconfigureInv
<1>4. CASE \E s \in Sensors : WorldChanges(s)
  BY <1>4, WorldChangesInv
<1>5. CASE UNCHANGED vars
  BY <1>5 DEF vars, FusionInv, TypeOK, ReadsFit, HeardFits, BootFits, VotesFit,
     BeliefsAreLastReadings
<1>6. QED
  BY <1>1, <1>2, <1>3, <1>4, <1>5 DEF Next

-----------------------------------------------------------------------------
(* The theorems.                                                           *)

\* The parts of FusionInv hold in every reachable state.
THEOREM FusionInvariance == Spec => []FusionInv
<1>1. QED
  BY FusionInit, FusionStep, PTL DEF Spec

\* Every variable has its type.
THEOREM TypeCorrect == Spec => []TypeOK
<1>1. FusionInv => TypeOK
  BY DEF FusionInv
<1>2. QED
  BY <1>1, FusionInvariance, PTL

\* Between polls the TV state machine believes of each sensor what the sensor
\* manager last read: no change is lost on the way, whatever is reconfigured.
THEOREM BeliefsHold == Spec => []BeliefsAreLastReadings
<1>1. FusionInv => BeliefsAreLastReadings
  BY DEF FusionInv
<1>2. QED
  BY <1>1, FusionInvariance, PTL

\* The power state the sleep machine last heard of is the one the fusion
\* holds.
THEOREM ListenerHears == Spec => []ListenerIsUpToDate
<1>1. FusionInv => ListenerIsUpToDate
  BY DEF FusionInv, HeardFits, ListenerIsUpToDate
<1>2. QED
  BY <1>1, FusionInvariance, PTL

\* Where two votes are asked for, the power state never changes on the
\* readings of one poll that delivered a single change: it takes a repeated
\* vote.
THEOREM NeverFlips == HysteresisCount >= 2 => (Spec => OneReadingNeverFlips)
<1> SUFFICES ASSUME HysteresisCount >= 2
             PROVE  Spec => OneReadingNeverFlips
  OBVIOUS
<1>1. FusionInv /\ FusionInv' /\ [Next]_vars =>
        [current' # current /\ boot' = boot => settled' \/ delivered' = 2]_vars
  <2> SUFFICES ASSUME FusionInv, FusionInv', Next, current' # current, boot' = boot
               PROVE  settled' \/ delivered' = 2
    OBVIOUS
  <2>1. CASE Deliver
    <3>1. votes > 0 /\ settled' = settled
      BY <2>1, EvaluateFlips DEF Deliver, FusionInv
    <3>2. CASE delivered = 0
      BY <2>1, <3>1, <3>2 DEF Deliver, FusionInv, VotesFit
    <3>3. CASE delivered # 0
      BY <2>1, <3>3 DEF Deliver
    <3>4. QED
      BY <3>2, <3>3
  <2>2. CASE TvTick
    <3>1. ~updated /\ Evaluate(values) /\ poll = "deliver"
      BY <2>2 DEF TvTick
    <3>2. votes > 0 /\ settled' = settled
      BY <3>1, EvaluateFlips DEF FusionInv
    <3>3. QED
      BY <3>1, <3>2 DEF FusionInv, TypeOK, VotesFit
  <2>3. QED
    BY <2>1, <2>2 DEF Next, Poll, TakeSnapshot, ReadSensors, CompareReads, Setup,
       AddSensor,
       MakeMachine, BeginMachine, Watch, Reconfigure, WorldChanges
<1>2. QED
  BY <1>1, FusionInvariance, PTL DEF Spec, OneReadingNeverFlips
=============================================================================
