-------------------------- MODULE SleepTasksProofs --------------------------
(***************************************************************************)
(* The safety of SleepTasks, every load and store of the three tasks       *)
(* interleaved, for every clock, timeout, interval and step limit.         *)
(***************************************************************************)
EXTENDS SleepTasks, TLAPS

-----------------------------------------------------------------------------
(* The inductive invariant.                                                *)

\* The counter does not wrap: wherever a step may follow, there is room for one
\* more, although the sensor task may stop the scheduler, and the web task may
\* change the limit, at any moment.  And a ramp ends only after a step.
CountFits ==
  /\ at \in {"due", "step_clock", "step", "count"} => stepCount + 1 < StepMod
  /\ active /\ at \notin {"start_count", "limit", "finish"} => stepCount + 1 < StepMod
  /\ at \in {"limit", "finish", "complete", "verifying"} => stepCount > 0

TasksInv == TypeOK /\ NoStuckRamp /\ StepsAreThisRamps /\ CountFits

-----------------------------------------------------------------------------
(* Every step keeps the invariant.                                         *)

\* At boot the sleep machine monitors and the scheduler is stopped.
LEMMA TasksInit == Init => TasksInv
<1> SUFFICES ASSUME Init
             PROVE  TasksInv
  OBVIOUS
<1> USE SleepTasksAssumption DEF Init
<1>1. TypeOK
  <2>1. 0 \in 0 .. ClockMod - 1 /\ 0 \in 0 .. StepMod - 1 /\ 0 \in 0 .. MaxAdvance
    OBVIOUS
  <2>2. reading \in [of : {"none", "now", "lastActivity"}, value : 0 .. ClockMod - 1]
    BY <2>1 DEF NoReading
  <2>3. QED
    BY <2>1, <2>2 DEF TypeOK, Labels, Powers
<1>2. NoStuckRamp /\ StepsAreThisRamps /\ CountFits
  BY DEF NoStuckRamp, StepsAreThisRamps, CountFits
<1>3. QED
  BY <1>1, <1>2 DEF TasksInv

USE SleepTasksAssumption
    DEF Step, Sense, LoopOwn, SensorOwn, settings, ramp, RestartIdleClock

\* tick() reads current_ and branches; nothing changes yet.
LEMMA ReadStateInv ==
  ASSUME TasksInv, ReadState
  PROVE  TasksInv'
<1>1. TypeOK'
  BY DEF TasksInv, TypeOK, Labels, ReadState
<1>2. NoStuckRamp'
  BY DEF TasksInv, NoStuckRamp, ReadState
<1>3. StepsAreThisRamps'
  BY DEF TasksInv, StepsAreThisRamps, ReadState
<1>4. CountFits'
  BY DEF TasksInv, CountFits, ReadState
<1>5. QED
  BY <1>1, <1>2, <1>3, <1>4 DEF TasksInv

\* One operand of now - lastActivityMs_ is read.
LEMMA ReadOperandInv ==
  ASSUME TasksInv, ReadOperand
  PROVE  TasksInv'
<1>1. TypeOK'
  BY DEF TasksInv, TypeOK, Labels, ReadOperand
<1>2. NoStuckRamp'
  BY DEF TasksInv, NoStuckRamp, ReadOperand
<1>3. StepsAreThisRamps'
  BY DEF TasksInv, StepsAreThisRamps, ReadOperand
<1>4. CountFits'
  BY DEF TasksInv, CountFits, ReadOperand
<1>5. QED
  BY <1>1, <1>2, <1>3, <1>4 DEF TasksInv

\* The other operand is read and the difference compared with the timeout.
LEMMA CompareInv ==
  ASSUME TasksInv, Compare
  PROVE  TasksInv'
<1>1. TypeOK'
  <2>1. reading' \in [of : {"none", "now", "lastActivity"}, value : 0 .. ClockMod - 1]
    BY DEF Compare, NoReading
  <2>2. at' \in Labels
    BY DEF Compare, Labels
  <2>3. QED
    BY <2>1, <2>2 DEF TasksInv, TypeOK, Compare
<1>2. NoStuckRamp'
  BY DEF TasksInv, NoStuckRamp, Compare
<1>3. StepsAreThisRamps'
  BY DEF TasksInv, StepsAreThisRamps, Compare
<1>4. CountFits'
  BY DEF TasksInv, CountFits, Compare
<1>5. QED
  BY <1>1, <1>2, <1>3, <1>4 DEF TasksInv

\* The TV state is read: the ramp may begin.
LEMMA ReadTvInv ==
  ASSUME TasksInv, ReadTv
  PROVE  TasksInv'
<1>1. TypeOK'
  BY DEF TasksInv, TypeOK, Labels, ReadTv
<1>2. NoStuckRamp'
  BY DEF TasksInv, NoStuckRamp, ReadTv
<1>3. StepsAreThisRamps'
  BY DEF TasksInv, StepsAreThisRamps, ReadTv
<1>4. CountFits'
  BY DEF TasksInv, CountFits, ReadTv
<1>5. QED
  BY <1>1, <1>2, <1>3, <1>4 DEF TasksInv

\* The TV is off: the idle clock is restarted instead of a ramp.
LEMMA RearmInv ==
  ASSUME TasksInv, Rearm
  PROVE  TasksInv'
<1>1. TypeOK'
  BY DEF TasksInv, TypeOK, Labels, Rearm
<1>2. NoStuckRamp'
  BY DEF TasksInv, NoStuckRamp, Rearm
<1>3. StepsAreThisRamps'
  BY DEF TasksInv, StepsAreThisRamps, Rearm
<1>4. CountFits'
  BY DEF TasksInv, CountFits, Rearm
<1>5. QED
  BY <1>1, <1>2, <1>3, <1>4 DEF TasksInv

\* current_ = RAMPING comes before rampScheduler_.start(): the loop task is
\* still on its way to it.
LEMMA BeginRampInv ==
  ASSUME TasksInv, BeginRamp
  PROVE  TasksInv'
<1>1. TypeOK'
  BY DEF TasksInv, TypeOK, Labels, BeginRamp
<1>2. NoStuckRamp'
  BY DEF NoStuckRamp, BeginRamp
<1>3. StepsAreThisRamps'
  BY DEF StepsAreThisRamps, BeginRamp
<1>4. CountFits'
  BY DEF TasksInv, CountFits, BeginRamp
<1>5. QED
  BY <1>1, <1>2, <1>3, <1>4 DEF TasksInv

\* start() sets the clock, the count and active_, one store after the other.
LEMMA StartRampInv ==
  ASSUME TasksInv, StartRamp
  PROVE  TasksInv'
<1>1. TypeOK'
  <2>1. at' \in Labels /\ active' \in BOOLEAN
    BY DEF TasksInv, TypeOK, Labels, StartRamp
  <2>2. stepCount' \in 0 .. StepMod - 1 /\ lastStep' \in 0 .. ClockMod - 1
    BY DEF TasksInv, TypeOK, StartRamp
  <2>3. QED
    BY <2>1, <2>2 DEF TasksInv, TypeOK, StartRamp
<1>2. NoStuckRamp'
  BY DEF TasksInv, NoStuckRamp, StartRamp
<1>3. StepsAreThisRamps'
  BY DEF TasksInv, StepsAreThisRamps, StartRamp
<1>4. CountFits'
  BY DEF TasksInv, CountFits, StartRamp
<1>5. QED
  BY <1>1, <1>2, <1>3, <1>4 DEF TasksInv

\* VERIFYING looks at the TV.
LEMMA VerifyInv ==
  ASSUME TasksInv, Verify
  PROVE  TasksInv'
<1>1. TypeOK'
  BY DEF TasksInv, TypeOK, Labels, Verify
<1>2. NoStuckRamp'
  BY DEF TasksInv, NoStuckRamp, Verify
<1>3. StepsAreThisRamps'
  BY DEF TasksInv, StepsAreThisRamps, Verify
<1>4. CountFits'
  BY DEF TasksInv, CountFits, Verify
<1>5. QED
  BY <1>1, <1>2, <1>3, <1>4 DEF TasksInv

\* A TV that is not off is about to be switched off.
LEMMA DecideInv ==
  ASSUME TasksInv, Decide
  PROVE  TasksInv'
<1>1. TypeOK'
  BY DEF TasksInv, TypeOK, Labels, Decide
<1>2. NoStuckRamp'
  BY DEF NoStuckRamp, Decide
<1>3. StepsAreThisRamps'
  BY DEF TasksInv, StepsAreThisRamps, Decide
<1>4. CountFits'
  BY DEF TasksInv, CountFits, Decide
<1>5. QED
  BY <1>1, <1>2, <1>3, <1>4 DEF TasksInv

\* The power-off is handed to its task.
LEMMA SendPowerOffInv ==
  ASSUME TasksInv, SendPowerOff
  PROVE  TasksInv'
<1>1. TypeOK'
  BY DEF TasksInv, TypeOK, Labels, SendPowerOff
<1>2. NoStuckRamp'
  BY DEF TasksInv, NoStuckRamp, SendPowerOff
<1>3. StepsAreThisRamps'
  BY DEF TasksInv, StepsAreThisRamps, SendPowerOff
<1>4. CountFits'
  BY DEF TasksInv, CountFits, SendPowerOff
<1>5. QED
  BY <1>1, <1>2, <1>3, <1>4 DEF TasksInv

\* The sequence ends and the machine monitors again.
LEMMA ResetInv ==
  ASSUME TasksInv, Reset
  PROVE  TasksInv'
<1>1. TypeOK'
  BY DEF TasksInv, TypeOK, Labels, Reset
<1>2. NoStuckRamp'
  BY DEF TasksInv, NoStuckRamp, Reset
<1>3. StepsAreThisRamps'
  BY DEF TasksInv, StepsAreThisRamps, Reset
<1>4. CountFits'
  BY DEF TasksInv, CountFits, Reset
<1>5. QED
  BY <1>1, <1>2, <1>3, <1>4 DEF TasksInv

\* The scheduler tick reads active_: only a ramp that is still on has room
\* for a step.
LEMMA ReadActiveInv ==
  ASSUME TasksInv, ReadActive
  PROVE  TasksInv'
<1>1. TypeOK'
  BY DEF TasksInv, TypeOK, Labels, ReadActive
<1>2. NoStuckRamp'
  BY DEF TasksInv, NoStuckRamp, ReadActive
<1>3. StepsAreThisRamps'
  BY DEF TasksInv, StepsAreThisRamps, ReadActive
<1>4. CountFits'
  BY DEF TasksInv, CountFits, ReadActive
<1>5. QED
  BY <1>1, <1>2, <1>3, <1>4 DEF TasksInv

\* The interval is compared.
LEMMA DueInv ==
  ASSUME TasksInv, Due
  PROVE  TasksInv'
<1>1. TypeOK'
  BY DEF TasksInv, TypeOK, Labels, Due
<1>2. NoStuckRamp'
  BY DEF TasksInv, NoStuckRamp, Due
<1>3. StepsAreThisRamps'
  BY DEF TasksInv, StepsAreThisRamps, Due
<1>4. CountFits'
  BY DEF TasksInv, CountFits, Due
<1>5. QED
  BY <1>1, <1>2, <1>3, <1>4 DEF TasksInv

\* lastStepMs_ is set.
LEMMA SetStepClockInv ==
  ASSUME TasksInv, SetStepClock
  PROVE  TasksInv'
<1>1. TypeOK'
  BY DEF TasksInv, TypeOK, Labels, SetStepClock
<1>2. NoStuckRamp'
  BY DEF TasksInv, NoStuckRamp, SetStepClock
<1>3. StepsAreThisRamps'
  BY DEF TasksInv, StepsAreThisRamps, SetStepClock
<1>4. CountFits'
  BY DEF TasksInv, CountFits, SetStepClock
<1>5. QED
  BY <1>1, <1>2, <1>3, <1>4 DEF TasksInv

\* The volume step is sent: it is one more of this ramp, unless the ramp has
\* been cancelled meanwhile.
LEMMA VolumeDownInv ==
  ASSUME TasksInv, VolumeDown
  PROVE  TasksInv'
<1>1. TypeOK'
  BY DEF TasksInv, TypeOK, Labels, VolumeDown
<1>2. NoStuckRamp'
  BY DEF TasksInv, NoStuckRamp, VolumeDown
<1>3. StepsAreThisRamps'
  BY DEF TasksInv, TypeOK, StepsAreThisRamps, CountFits, VolumeDown
<1>4. CountFits'
  BY DEF TasksInv, CountFits, VolumeDown
<1>5. QED
  BY <1>1, <1>2, <1>3, <1>4 DEF TasksInv

\* stepCount_ is incremented and does not wrap, as it was below the limit
\* when the step began.
LEMMA CountInv ==
  ASSUME TasksInv, Count
  PROVE  TasksInv'
<1>1. TypeOK'
  BY DEF TasksInv, TypeOK, Labels, Count
<1>2. NoStuckRamp'
  BY DEF TasksInv, NoStuckRamp, Count
<1>3. StepsAreThisRamps'
  BY DEF TasksInv, StepsAreThisRamps, CountFits, Count
<1>4. CountFits'
  BY DEF TasksInv, TypeOK, CountFits, Count
<1>5. QED
  BY <1>1, <1>2, <1>3, <1>4 DEF TasksInv

\* The count is compared with the limit.
LEMMA LimitInv ==
  ASSUME TasksInv, Limit
  PROVE  TasksInv'
<1>1. TypeOK'
  BY DEF TasksInv, TypeOK, Labels, Limit
<1>2. NoStuckRamp'
  BY DEF TasksInv, NoStuckRamp, Limit
<1>3. StepsAreThisRamps'
  BY DEF TasksInv, StepsAreThisRamps, Limit
<1>4. CountFits'
  BY DEF TasksInv, TypeOK, CountFits, Limit
<1>5. QED
  BY <1>1, <1>2, <1>3, <1>4 DEF TasksInv

\* The last step of a ramp stops the scheduler.
LEMMA FinishInv ==
  ASSUME TasksInv, Finish
  PROVE  TasksInv'
<1>1. TypeOK'
  BY DEF TasksInv, TypeOK, Labels, Finish
<1>2. NoStuckRamp'
  BY DEF NoStuckRamp, Finish
<1>3. StepsAreThisRamps'
  BY DEF TasksInv, StepsAreThisRamps, Finish
<1>4. CountFits'
  BY DEF TasksInv, CountFits, Finish
<1>5. QED
  BY <1>1, <1>2, <1>3, <1>4 DEF TasksInv

\* onRampComplete() tests current_.
LEMMA CompleteInv ==
  ASSUME TasksInv, Complete
  PROVE  TasksInv'
<1>1. TypeOK'
  BY DEF TasksInv, TypeOK, Labels, Complete
<1>2. NoStuckRamp'
  BY DEF NoStuckRamp, Complete
<1>3. StepsAreThisRamps'
  BY DEF TasksInv, StepsAreThisRamps, Complete
<1>4. CountFits'
  BY DEF TasksInv, CountFits, Complete
<1>5. QED
  BY <1>1, <1>2, <1>3, <1>4 DEF TasksInv

\* ... and sets it, after a step of this ramp at least.
LEMMA SetVerifyingInv ==
  ASSUME TasksInv, SetVerifying
  PROVE  TasksInv'
<1>1. TypeOK'
  BY DEF TasksInv, TypeOK, Labels, SetVerifying
<1>2. NoStuckRamp'
  BY DEF NoStuckRamp, SetVerifying
<1>3. StepsAreThisRamps'
  BY DEF TasksInv, StepsAreThisRamps, CountFits, SetVerifying
<1>4. CountFits'
  BY DEF TasksInv, CountFits, SetVerifying
<1>5. QED
  BY <1>1, <1>2, <1>3, <1>4 DEF TasksInv

\* The loop sleeps and begins anew.
LEMMA WakeInv ==
  ASSUME TasksInv, Wake
  PROVE  TasksInv'
<1>1. TypeOK'
  BY DEF TasksInv, TypeOK, Labels, Wake
<1>2. NoStuckRamp'
  BY DEF TasksInv, NoStuckRamp, Wake
<1>3. StepsAreThisRamps'
  BY DEF TasksInv, StepsAreThisRamps, Wake
<1>4. CountFits'
  BY DEF TasksInv, CountFits, Wake
<1>5. QED
  BY <1>1, <1>2, <1>3, <1>4 DEF TasksInv

\* The clock goes on between any two steps.
LEMMA ClockTickInv ==
  ASSUME TasksInv, ClockTick
  PROVE  TasksInv'
<1>1. TypeOK'
  BY DEF TasksInv, TypeOK, ClockTick
<1>2. NoStuckRamp'
  BY DEF TasksInv, NoStuckRamp, ClockTick
<1>3. StepsAreThisRamps'
  BY DEF TasksInv, StepsAreThisRamps, ClockTick
<1>4. CountFits'
  BY DEF TasksInv, CountFits, ClockTick
<1>5. QED
  BY <1>1, <1>2, <1>3, <1>4 DEF TasksInv

\* Activity on the sensor task reads current_.
LEMMA ActivityReadInv ==
  ASSUME TasksInv, ActivityRead
  PROVE  TasksInv'
<1>1. TypeOK'
  BY DEF TasksInv, TypeOK, ActivityRead
<1>2. NoStuckRamp'
  BY DEF TasksInv, NoStuckRamp, ActivityRead
<1>3. StepsAreThisRamps'
  BY DEF TasksInv, StepsAreThisRamps, ActivityRead
<1>4. CountFits'
  BY DEF TasksInv, CountFits, ActivityRead
<1>5. QED
  BY <1>1, <1>2, <1>3, <1>4 DEF TasksInv

\* It stops the scheduler, in the middle of whatever the loop task does.
LEMMA ActivityStopInv ==
  ASSUME TasksInv, ActivityStop
  PROVE  TasksInv'
<1>1. TypeOK'
  BY DEF TasksInv, TypeOK, Labels, Powers, ActivityStop
<1>2. NoStuckRamp'
  BY DEF NoStuckRamp, ActivityStop
<1>3. StepsAreThisRamps'
  BY DEF TasksInv, StepsAreThisRamps, ActivityStop
<1>4. CountFits'
  BY DEF TasksInv, CountFits, ActivityStop
<1>5. QED
  BY <1>1, <1>2, <1>3, <1>4 DEF TasksInv

\* It sets MONITORING after the scheduler has been stopped.
LEMMA ActivityStateInv ==
  ASSUME TasksInv, ActivityState
  PROVE  TasksInv'
<1>1. TypeOK'
  BY DEF TasksInv, TypeOK, ActivityState
<1>2. NoStuckRamp'
  BY DEF NoStuckRamp, ActivityState
<1>3. StepsAreThisRamps'
  BY DEF TasksInv, StepsAreThisRamps, ActivityState
<1>4. CountFits'
  BY DEF TasksInv, CountFits, ActivityState
<1>5. QED
  BY <1>1, <1>2, <1>3, <1>4 DEF TasksInv

\* It restarts the idle clock.
LEMMA ActivityClockInv ==
  ASSUME TasksInv, ActivityClock
  PROVE  TasksInv'
<1>1. TypeOK'
  BY DEF TasksInv, TypeOK, ActivityClock
<1>2. NoStuckRamp'
  BY DEF TasksInv, NoStuckRamp, ActivityClock
<1>3. StepsAreThisRamps'
  BY DEF TasksInv, StepsAreThisRamps, ActivityClock
<1>4. CountFits'
  BY DEF TasksInv, CountFits, ActivityClock
<1>5. QED
  BY <1>1, <1>2, <1>3, <1>4 DEF TasksInv

\* The fusion reports a new TV state.
LEMMA TvReportInv ==
  ASSUME TasksInv, NEW p \in Powers, TvReport(p)
  PROVE  TasksInv'
<1>1. TypeOK'
  BY DEF TasksInv, TypeOK, TvReport
<1>2. NoStuckRamp'
  BY DEF TasksInv, NoStuckRamp, TvReport
<1>3. StepsAreThisRamps'
  BY DEF TasksInv, StepsAreThisRamps, TvReport
<1>4. CountFits'
  BY DEF TasksInv, CountFits, TvReport
<1>5. QED
  BY <1>1, <1>2, <1>3, <1>4 DEF TasksInv

\* A TV that comes on reads the clock ...
LEMMA TvOnReadInv ==
  ASSUME TasksInv, TvOnRead
  PROVE  TasksInv'
<1>1. TypeOK'
  BY DEF TasksInv, TypeOK, TvOnRead
<1>2. NoStuckRamp'
  BY DEF TasksInv, NoStuckRamp, TvOnRead
<1>3. StepsAreThisRamps'
  BY DEF TasksInv, StepsAreThisRamps, TvOnRead
<1>4. CountFits'
  BY DEF TasksInv, CountFits, TvOnRead
<1>5. QED
  BY <1>1, <1>2, <1>3, <1>4 DEF TasksInv

\* ... and restarts the idle clock.
LEMMA TvOnClockInv ==
  ASSUME TasksInv, TvOnClock
  PROVE  TasksInv'
<1>1. TypeOK'
  BY DEF TasksInv, TypeOK, TvOnClock
<1>2. NoStuckRamp'
  BY DEF TasksInv, NoStuckRamp, TvOnClock
<1>3. StepsAreThisRamps'
  BY DEF TasksInv, StepsAreThisRamps, TvOnClock
<1>4. CountFits'
  BY DEF TasksInv, CountFits, TvOnClock
<1>5. QED
  BY <1>1, <1>2, <1>3, <1>4 DEF TasksInv

\* A POST changes timeout, interval and limit at any moment.
LEMMA ReloadInv ==
  ASSUME TasksInv, Reload
  PROVE  TasksInv'
<1>1. TypeOK'
  BY DEF TasksInv, TypeOK, Reload
<1>2. NoStuckRamp'
  BY DEF TasksInv, NoStuckRamp, Reload
<1>3. StepsAreThisRamps'
  BY DEF TasksInv, StepsAreThisRamps, Reload
<1>4. CountFits'
  BY DEF TasksInv, CountFits, Reload
<1>5. QED
  BY <1>1, <1>2, <1>3, <1>4 DEF TasksInv

\* Every step of every task keeps the invariant.
LEMMA TasksStep == TasksInv /\ [Next]_vars => TasksInv'
<1> SUFFICES ASSUME TasksInv, [Next]_vars
             PROVE  TasksInv'
  OBVIOUS
<1>1. CASE LoopStep
  BY <1>1, ReadStateInv, ReadOperandInv, CompareInv, ReadTvInv, RearmInv,
     BeginRampInv, StartRampInv, VerifyInv, DecideInv, SendPowerOffInv, ResetInv,
     ReadActiveInv, DueInv, SetStepClockInv, VolumeDownInv, CountInv, LimitInv,
     FinishInv, CompleteInv, SetVerifyingInv, WakeInv DEF LoopStep
<1>2. CASE ClockTick
  BY <1>2, ClockTickInv
<1>3. CASE SensorStep
  BY <1>3, ActivityReadInv, ActivityStopInv, ActivityStateInv, ActivityClockInv,
     TvReportInv, TvOnReadInv, TvOnClockInv DEF SensorStep, SensorHandler
<1>4. CASE Reload
  BY <1>4, ReloadInv
<1>5. CASE UNCHANGED vars
  BY <1>5 DEF vars, TasksInv, TypeOK, NoStuckRamp, StepsAreThisRamps, CountFits
<1>6. QED
  BY <1>1, <1>2, <1>3, <1>4, <1>5 DEF Next

-----------------------------------------------------------------------------
(* The theorems.                                                           *)

\* The parts of TasksInv hold in every reachable state.
THEOREM TasksInvariance == Spec => []TasksInv
<1>1. QED
  BY TasksInit, TasksStep, PTL DEF Spec

\* Every variable has its type; in particular stepCount_ never wraps.
THEOREM TypeCorrect == Spec => []TypeOK
<1>1. TasksInv => TypeOK
  BY DEF TasksInv
<1>2. QED
  BY <1>1, TasksInvariance, PTL

\* However loads and stores of the tasks fall between one another, the
\* machine is never left RAMPING with the scheduler stopped and nobody about
\* to start it.
THEOREM NeverStuck == Spec => []NoStuckRamp
<1>1. TasksInv => NoStuckRamp
  BY DEF TasksInv
<1>2. QED
  BY <1>1, TasksInvariance, PTL

\* The volume steps a sequence counts are those it sent: none of an earlier
\* ramp, none lost.
THEOREM StepsCounted == Spec => []StepsAreThisRamps
<1>1. TasksInv => StepsAreThisRamps
  BY DEF TasksInv
<1>2. QED
  BY <1>1, TasksInvariance, PTL
=============================================================================
