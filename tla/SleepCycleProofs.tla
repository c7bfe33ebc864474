-------------------------- MODULE SleepCycleProofs --------------------------
(***************************************************************************)
(* The safety of SleepCycle for every clock width, timeout, interval and   *)
(* step limit.                                                             *)
(***************************************************************************)
EXTENDS SleepCycle, TLAPS

-----------------------------------------------------------------------------
(* The clock.                                                              *)

\* No time has passed between a reading of the clock and itself.
LEMMA ElapsedSelf ==
  ASSUME NEW t \in Nat
  PROVE  Elapsed(t, t) = 0
BY DEF Elapsed

\* Wrapping or not, the clock measures what has passed since t as long as
\* that is less than a full turn.
LEMMA ElapsedLater ==
  ASSUME NEW n \in 0 .. ClockMod - 1, NEW t \in 0 .. ClockMod - 1,
         NEW d \in Nat, Elapsed(n, t) + d < ClockMod
  PROVE  Elapsed(Later(n, d), t) = Elapsed(n, t) + d
BY SleepCycleAssumption DEF Elapsed, Later

\* The clock stays in its range.
LEMMA LaterInRange ==
  ASSUME NEW n \in 0 .. ClockMod - 1, NEW d \in 0 .. MaxAdvance
  PROVE  Later(n, d) \in 0 .. ClockMod - 1
BY SleepCycleAssumption DEF Later

-----------------------------------------------------------------------------
(* Type correctness.  The bound of `steps` needs the step counter not to   *)
(* wrap, so the invariant is proved together with SchedulerFollowsState    *)
(* and StepsCounted.                                                       *)

\* A sequence that reached VERIFYING sent at least one volume step.
VerifyingHasSteps == state = "VERIFYING" => steps > 0

CountInv == TypeOK /\ SchedulerFollowsState /\ StepsCounted /\ VerifyingHasSteps

\* The parts of CountInv hold in every reachable state.
THEOREM CountInvariant == Spec => []CountInv
<1> USE SleepCycleAssumption
<1>1. Init => CountInv
  <2> SUFFICES ASSUME Init
               PROVE  CountInv
    OBVIOUS
  <2>1. TypeOK
    <3>1. now \in 0 .. ClockMod - 1 /\ lastActivity \in 0 .. ClockMod - 1
      BY DEF Init
    <3>2. lastStep \in 0 .. ClockMod - 1 /\ stepCount \in 0 .. StepMod - 1
      BY DEF Init
    <3>3. quiet \in 0 .. ClockMod /\ sinceStep \in 0 .. ClockMod
          /\ steps \in 0 .. StepMod - 1
      BY DEF Init
    <3>4. active \in BOOLEAN
      BY DEF Init
    <3>5. timeout \in Timeouts /\ interval \in Intervals /\ maxSteps \in StepLimits
      BY DEF Init
    <3>6. QED
      BY <3>1, <3>2, <3>3, <3>4, <3>5 DEF Init, TypeOK, States, Powers, Events
  <2>2. SchedulerFollowsState
    BY DEF Init, SchedulerFollowsState
  <2>3. StepsCounted /\ VerifyingHasSteps
    BY DEF Init, StepsCounted, VerifyingHasSteps
  <2>4. QED
    BY <2>1, <2>2, <2>3 DEF CountInv
<1>2. CountInv /\ [Next]_vars => CountInv'
  <2> SUFFICES ASSUME CountInv, [Next]_vars
               PROVE  CountInv'
    OBVIOUS
  <2> USE DEF CountInv, TypeOK, States, Powers, Events,
              SchedulerFollowsState, StepsCounted, VerifyingHasSteps
  <2>1. CASE SleepTick
    <3>1. CASE TickNothing
      BY <2>1, <3>1 DEF SleepTick, TickNothing, settings, ramp, idle
    <3>2. CASE TickIdleTvOff
      BY <2>1, <3>2 DEF SleepTick, TickIdleTvOff, RestartIdleClock,
                        settings, ramp
    <3>3. CASE TickBeginRamp
      BY <2>1, <3>3 DEF SleepTick, TickBeginRamp, StartRamp, settings, idle
    <3>4. CASE TickVerifiedOff
      BY <2>1, <3>4 DEF SleepTick, TickVerifiedOff, ResetToMonitoring,
                        RestartIdleClock, settings
    <3>5. CASE TickPowerOff
      BY <2>1, <3>5 DEF SleepTick, TickPowerOff, ResetToMonitoring,
                        RestartIdleClock, settings
    <3>6. QED
      BY <2>1, <3>1, <3>2, <3>3, <3>4, <3>5 DEF SleepTick
  <2>2. CASE RampTick
    <3>1. CASE RampNothing
      BY <2>2, <3>1 DEF RampTick, RampNothing, settings, ramp, idle
    <3>2. CASE RampStep
      <4>1. active /\ state = "RAMPING" /\ steps = stepCount
        BY <3>2 DEF RampStep, StepDue
      <4>2. stepCount' = stepCount + 1 /\ steps' = stepCount + 1
        BY <3>2, <4>1 DEF RampStep, Increment
      <4>3. active' <=> stepCount + 1 < maxSteps
        BY <3>2, <4>2 DEF RampStep
      <4>4. active' \in BOOLEAN
        BY <3>2 DEF RampStep
      <4>5. state' = IF active' THEN "RAMPING" ELSE "VERIFYING"
        BY <3>2, <4>1 DEF RampStep
      <4>6. TypeOK'
        BY <2>2, <3>2, <4>1, <4>2, <4>4, <4>5 DEF RampTick, RampStep, settings, idle
      <4>7. SchedulerFollowsState'
        BY <4>5
      <4>8. StepsCounted' /\ VerifyingHasSteps'
        BY <4>2, <4>3, <4>5
      <4>9. QED
        BY <4>6, <4>7, <4>8
    <3>3. QED
      BY <2>2, <3>1, <3>2 DEF RampTick
  <2>3. CASE Delay
    <3>1. PICK d \in 1 .. MaxAdvance :
             /\ now' = Later(now, d)
             /\ quiet' = Lapse(quiet, d)
             /\ sinceStep' = Lapse(sinceStep, d)
      BY <2>3 DEF Delay
    <3>2. now' \in 0 .. ClockMod - 1
      BY <3>1, LaterInRange
    <3>3. quiet' \in 0 .. ClockMod /\ sinceStep' \in 0 .. ClockMod
      BY <3>1 DEF Lapse
    <3>4. UNCHANGED <<state, active, stepCount, steps>>
      BY <2>3 DEF Delay
    <3>5. TypeOK'
      BY <2>3, <3>2, <3>3 DEF Delay, settings
    <3>6. SchedulerFollowsState'
      BY <3>4, Zenon
    <3>7. StepsCounted' /\ VerifyingHasSteps'
      BY <3>4, Zenon
    <3> HIDE DEF TypeOK, SchedulerFollowsState, StepsCounted, VerifyingHasSteps
    <3>8. QED
      BY <3>5, <3>6, <3>7
  <2>4. CASE Activity
    <3>1. ~active' /\ active' \in BOOLEAN
      BY <2>4 DEF Activity, ResetToMonitoring
    <3>2. state' = "MONITORING" /\ steps' = 0
      BY <2>4 DEF Activity, ResetToMonitoring
    <3>3. UNCHANGED <<now, loop, tvPower, timeout, interval, maxSteps,
                      stepCount, lastStep, sinceStep>>
          /\ event' = "activity" /\ lastActivity' = now /\ quiet' = 0
      BY <2>4 DEF Activity, ResetToMonitoring, RestartIdleClock, settings
    <3>4. QED
      BY <3>1, <3>2, <3>3
  <2>5. ASSUME NEW p \in Powers, TvReport(p)
        PROVE  CountInv'
    BY <2>5 DEF TvReport, RestartIdleClock, settings, ramp, idle
  <2>6. ASSUME NEW t \in Timeouts, NEW i \in Intervals, NEW m \in StepLimits,
               Reload(t, i, m)
        PROVE  CountInv'
    BY <2>6 DEF Reload, ramp, idle
  <2>7. CASE UNCHANGED vars
    BY <2>7 DEF vars, settings, ramp, idle
  <2>8. QED
    BY <2>1, <2>2, <2>3, <2>4, <2>5, <2>6, <2>7 DEF Next
<1>3. QED
  BY <1>1, <1>2, PTL DEF Spec

\* TypeOK is an invariant, for every width of the clock and of the counter.
THEOREM TypeCorrect == Spec => []TypeOK
BY CountInvariant, PTL DEF CountInv

\* A ramp runs exactly while the state machine is RAMPING.
THEOREM SchedulerFollowsStateHolds == Spec => []SchedulerFollowsState
BY CountInvariant, PTL DEF CountInv

\* Steps are numbered without a gap and the 8-bit counter never wraps.
THEOREM StepsCountedHolds == Spec => []StepsCounted
BY CountInvariant, PTL DEF CountInv

-----------------------------------------------------------------------------
(* The timers.  loop() looks at each of them between any two advances of   *)
(* the clock, so what it has not acted on yet is short of a full turn.     *)

IdleTimer ==
  state = "MONITORING" =>
    /\ Elapsed(now, lastActivity) = quiet
    /\ quiet < ClockMod
    /\ loop # "sleep" => quiet + MaxAdvance < ClockMod

StepTimer ==
  active =>
    /\ Elapsed(now, lastStep) = sinceStep
    /\ sinceStep < ClockMod
    /\ loop = "delay" => sinceStep + MaxAdvance < ClockMod

TimerInv == IdleTimer /\ StepTimer

\* One advance of the clock keeps a timer exact.
LEMMA TimerAdvance ==
  ASSUME NEW n \in 0 .. ClockMod - 1, NEW t \in 0 .. ClockMod - 1,
         NEW q \in Nat, NEW d \in 1 .. MaxAdvance,
         Elapsed(n, t) = q, q + MaxAdvance < ClockMod
  PROVE  /\ Elapsed(Later(n, d), t) = Lapse(q, d)
         /\ Lapse(q, d) = q + d
         /\ q + d < ClockMod
<1>1. q + d < ClockMod
  BY SleepCycleAssumption
<1>2. Elapsed(Later(n, d), t) = q + d
  BY <1>1, ElapsedLater
<1>3. QED
  BY <1>1, <1>2 DEF Lapse

\* TimerInv holds in every reachable state.
THEOREM TimerInvariant == Spec => []TimerInv
<1> USE SleepCycleAssumption
<1>1. Init => TimerInv
  <2> SUFFICES ASSUME Init
               PROVE  TimerInv
    OBVIOUS
  <2>1. Elapsed(now, lastActivity) = 0
    BY ElapsedSelf DEF Init
  <2>2. QED
    BY <2>1 DEF Init, TimerInv, IdleTimer, StepTimer
<1>2. CountInv /\ CountInv' /\ TimerInv /\ [Next]_vars => TimerInv'
  <2> SUFFICES ASSUME CountInv, CountInv', TimerInv, [Next]_vars
               PROVE  TimerInv'
    OBVIOUS
  <2>0. /\ now \in Nat /\ now' \in Nat /\ quiet \in Nat /\ sinceStep \in Nat
        /\ now \in 0 .. ClockMod - 1 /\ lastActivity \in 0 .. ClockMod - 1
        /\ lastStep \in 0 .. ClockMod - 1
        /\ timeout \in Timeouts /\ interval \in Intervals
        /\ loop \in {"sleep", "ramp", "delay"}
    BY DEF CountInv, TypeOK
  <2>a. active <=> state = "RAMPING"
    BY DEF CountInv, SchedulerFollowsState
  <2>b. active' <=> state' = "RAMPING"
    BY DEF CountInv, SchedulerFollowsState
  <2>c. Elapsed(now, now) = 0
    BY <2>0, ElapsedSelf
  <2>d. ASSUME ResetToMonitoring, now' = now
        PROVE  TimerInv'
    <3>1. state' = "MONITORING" /\ lastActivity' = now /\ quiet' = 0
      BY <2>d DEF ResetToMonitoring, RestartIdleClock
    <3>2. IdleTimer'
      BY <3>1, <2>c, <2>d DEF IdleTimer
    <3>3. StepTimer'
      BY <3>1, <2>b DEF StepTimer
    <3>4. QED
      BY <3>2, <3>3 DEF TimerInv
  <2>1. CASE SleepTick
    <3>0. loop = "sleep" /\ loop' = "ramp" /\ now' = now /\ timeout' = timeout
      BY <2>1 DEF SleepTick, settings
    <3>1. CASE TickNothing
      <4>1. UNCHANGED <<state, lastActivity, quiet, active, lastStep, sinceStep>>
        BY <3>1 DEF TickNothing, ramp, idle
      <4>2. state = "MONITORING" => quiet < timeout
        <5>1. CASE state = "MONITORING"
          <6>1. ~(quiet >= timeout)
            BY <3>1, <5>1 DEF TickNothing, IdleLongEnough, TimerInv, IdleTimer
          <6>2. QED
            BY <6>1, <2>0
        <5>2. QED
          BY <5>1
      <4>3. state = "MONITORING" => quiet + MaxAdvance < ClockMod
        BY <4>2, <2>0
      <4>4. IdleTimer'
        BY <3>0, <4>1, <4>3 DEF TimerInv, IdleTimer
      <4>5. StepTimer'
        BY <3>0, <4>1 DEF TimerInv, StepTimer
      <4>6. QED
        BY <4>4, <4>5 DEF TimerInv
    <3>2. CASE TickIdleTvOff
      <4>1. /\ state = "MONITORING" /\ state' = "MONITORING"
            /\ lastActivity' = now /\ quiet' = 0
        BY <3>2 DEF TickIdleTvOff, RestartIdleClock
      <4>2. IdleTimer'
        BY <3>0, <4>1, <2>c DEF IdleTimer
      <4>3. StepTimer'
        BY <4>1, <2>b DEF StepTimer
      <4>4. QED
        BY <4>2, <4>3 DEF TimerInv
    <3>3. CASE TickBeginRamp
      <4>1. state' = "RAMPING" /\ lastStep' = now /\ sinceStep' = 0
        BY <3>3 DEF TickBeginRamp, StartRamp
      <4>2. IdleTimer'
        BY <4>1 DEF IdleTimer
      <4>3. StepTimer'
        BY <3>0, <4>1, <2>c DEF StepTimer
      <4>4. QED
        BY <4>2, <4>3 DEF TimerInv
    <3>4. CASE TickVerifiedOff
      BY <3>0, <3>4, <2>d DEF TickVerifiedOff
    <3>5. CASE TickPowerOff
      BY <3>0, <3>5, <2>d DEF TickPowerOff
    <3>6. QED
      BY <2>1, <3>1, <3>2, <3>3, <3>4, <3>5 DEF SleepTick
  <2>2. CASE RampTick
    <3>0. /\ loop = "ramp" /\ loop' = "delay" /\ now' = now
          /\ lastActivity' = lastActivity /\ quiet' = quiet
      BY <2>2 DEF RampTick, idle
    <3>1. CASE RampNothing
      <4>1. UNCHANGED <<state, active, lastStep, sinceStep>>
        BY <3>1 DEF RampNothing, ramp
      <4>2. active => sinceStep + MaxAdvance < ClockMod
        <5>1. active => ~(sinceStep >= interval)
          BY <3>1 DEF RampNothing, StepDue, TimerInv, StepTimer
        <5>2. QED
          BY <5>1, <2>0
      <4>3. StepTimer'
        BY <3>0, <4>1, <4>2 DEF TimerInv, StepTimer
      <4>4. IdleTimer'
        BY <3>0, <4>1 DEF TimerInv, IdleTimer
      <4>5. QED
        BY <4>3, <4>4 DEF TimerInv
    <3>2. CASE RampStep
      <4>1. active /\ lastStep' = now /\ sinceStep' = 0
        BY <3>2 DEF RampStep, StepDue
      <4>2. state' # "MONITORING"
        BY <3>2, <4>1, <2>a DEF RampStep
      <4>3. StepTimer'
        BY <3>0, <4>1, <2>c DEF StepTimer
      <4>4. IdleTimer'
        BY <4>2 DEF IdleTimer
      <4>5. QED
        BY <4>3, <4>4 DEF TimerInv
    <3>3. QED
      BY <2>2, <3>1, <3>2 DEF RampTick
  <2>3. CASE Delay
    <3>0. /\ loop = "delay" /\ loop' = "sleep"
          /\ UNCHANGED <<state, active, lastActivity, lastStep>>
      BY <2>3 DEF Delay
    <3>1. PICK d \in 1 .. MaxAdvance :
             /\ now' = Later(now, d)
             /\ quiet' = Lapse(quiet, d)
             /\ sinceStep' = Lapse(sinceStep, d)
      BY <2>3 DEF Delay
    <3>2. IdleTimer'
      <4>1. CASE state = "MONITORING"
        <5>1. Elapsed(now, lastActivity) = quiet /\ quiet + MaxAdvance < ClockMod
          BY <3>0, <4>1 DEF TimerInv, IdleTimer
        <5>2. Elapsed(now', lastActivity) = quiet' /\ quiet' < ClockMod
          BY <3>1, <5>1, <2>0, TimerAdvance
        <5>3. QED
          BY <3>0, <5>2 DEF IdleTimer
      <4>2. QED
        BY <3>0, <4>1 DEF IdleTimer
    <3>3. StepTimer'
      <4>1. CASE active
        <5>1. Elapsed(now, lastStep) = sinceStep /\ sinceStep + MaxAdvance < ClockMod
          BY <3>0, <4>1 DEF TimerInv, StepTimer
        <5>2. Elapsed(now', lastStep) = sinceStep' /\ sinceStep' < ClockMod
          BY <3>1, <5>1, <2>0, TimerAdvance
        <5>3. QED
          BY <3>0, <5>2 DEF StepTimer
      <4>2. QED
        BY <3>0, <4>1 DEF StepTimer
    <3>4. QED
      BY <3>2, <3>3 DEF TimerInv
  <2>4. CASE Activity
    BY <2>4, <2>d DEF Activity
  <2>5. ASSUME NEW p \in Powers, TvReport(p)
        PROVE  TimerInv'
    <3>0. UNCHANGED <<now, loop, state, active, lastStep, sinceStep>>
      BY <2>5 DEF TvReport, ramp
    <3>1. \/ lastActivity' = now /\ quiet' = 0
          \/ UNCHANGED <<lastActivity, quiet>>
      BY <2>5 DEF TvReport, RestartIdleClock, idle
    <3>2. StepTimer'
      BY <3>0 DEF TimerInv, StepTimer
    <3>3. IdleTimer'
      BY <3>0, <3>1, <2>c DEF TimerInv, IdleTimer
    <3>4. QED
      BY <3>2, <3>3 DEF TimerInv
  <2>6. ASSUME NEW t \in Timeouts, NEW i \in Intervals, NEW m \in StepLimits,
               Reload(t, i, m)
        PROVE  TimerInv'
    <3>1. UNCHANGED <<now, loop, state, lastActivity, quiet, active, lastStep,
                      sinceStep>>
      BY <2>6 DEF Reload, ramp, idle
    <3>2. QED
      BY <3>1 DEF TimerInv, IdleTimer, StepTimer
  <2>7. CASE UNCHANGED vars
    <3>1. UNCHANGED <<now, loop, state, lastActivity, quiet, active, lastStep,
                      sinceStep>>
      BY <2>7 DEF vars, ramp, idle
    <3>2. QED
      BY <3>1 DEF TimerInv, IdleTimer, StepTimer
  <2>8. QED
    BY <2>1, <2>2, <2>3, <2>4, <2>5, <2>6, <2>7 DEF Next
<1>3. QED
  BY <1>1, <1>2, CountInvariant, PTL DEF Spec

\* Clock differences are true time, on either side of a wrap.
THEOREM TimersExactHolds == Spec => []TimersExact
<1>1. TimerInv => TimersExact
  BY DEF TimerInv, IdleTimer, StepTimer, TimersExact
<1>2. QED
  BY <1>1, TimerInvariant, PTL

-----------------------------------------------------------------------------
(* A sequence earns its power-off: a timeout, then an interval per step.   *)

EarnedInv ==
  /\ state = "RAMPING"   => QuietFor(EarnedTime(steps) + sinceStep)
  /\ state = "VERIFYING" => QuietFor(EarnedTime(steps))

\* Each step adds an interval to the time a sequence takes.
LEMMA EarnedTimeStep ==
  ASSUME NEW n \in Nat
  PROVE  /\ EarnedTime(n) \in Nat
         /\ EarnedTime(0) = MinTimeout
         /\ EarnedTime(n + 1) = EarnedTime(n) + MinInterval
<1>1. MinTimeout \in Nat /\ MinInterval \in Nat
  BY SleepCycleAssumption
<1>2. (n + 1) * MinInterval = n * MinInterval + MinInterval
  BY <1>1
<1>3. n * MinInterval \in Nat /\ 0 * MinInterval = 0
  BY <1>1
<1>4. QED
  BY <1>1, <1>2, <1>3 DEF EarnedTime

\* EarnedInv holds in every reachable state.
THEOREM EarnedInvariant == Spec => []EarnedInv
<1>1. Init => EarnedInv
  BY DEF Init, EarnedInv
<1>2. CountInv /\ CountInv' /\ TimerInv /\ EarnedInv /\ [Next]_vars => EarnedInv'
  <2> SUFFICES ASSUME CountInv, CountInv', TimerInv, EarnedInv, [Next]_vars
               PROVE  EarnedInv'
    OBVIOUS
  <2>0. /\ quiet \in 0 .. ClockMod /\ sinceStep \in 0 .. ClockMod
        /\ steps \in Nat /\ timeout \in Timeouts /\ interval \in Intervals
        /\ ClockMod \in Nat /\ MinInterval \in Nat /\ MinTimeout \in Nat
    BY SleepCycleAssumption DEF CountInv, TypeOK
  <2>a. active <=> state = "RAMPING"
    BY DEF CountInv, SchedulerFollowsState
  <2>b. EarnedTime(steps) \in Nat
    BY <2>0, EarnedTimeStep
  <2>c. MinTimeout <= timeout /\ MinInterval <= interval
    BY <2>0, SleepCycleAssumption
  <2>1. CASE SleepTick
    <3>1. CASE TickNothing
      BY <3>1 DEF TickNothing, ramp, idle, EarnedInv, QuietFor
    <3>2. CASE TickIdleTvOff
      BY <3>2 DEF TickIdleTvOff, EarnedInv
    <3>3. CASE TickBeginRamp
      <4>1. /\ state = "MONITORING" /\ state' = "RAMPING"
            /\ sinceStep' = 0 /\ quiet' = quiet /\ steps' = steps
        BY <3>3 DEF TickBeginRamp, StartRamp, idle
      <4>2. steps = 0 /\ quiet >= timeout
        BY <3>3, <4>1 DEF TickBeginRamp, IdleLongEnough, TimerInv, IdleTimer,
                          CountInv, StepsCounted
      <4>3. EarnedTime(steps) = MinTimeout
        BY <4>2, EarnedTimeStep
      <4>4. quiet \in Nat /\ timeout \in Nat
        BY <2>0, SleepCycleAssumption
      <4>5. quiet >= EarnedTime(steps) + 0
        BY <4>2, <4>3, <4>4, <2>0, <2>c
      <4>6. QED
        BY <4>1, <4>5 DEF EarnedInv, QuietFor
    <3>4. CASE TickVerifiedOff
      BY <3>4 DEF TickVerifiedOff, ResetToMonitoring, EarnedInv
    <3>5. CASE TickPowerOff
      BY <3>5 DEF TickPowerOff, ResetToMonitoring, EarnedInv
    <3>6. QED
      BY <2>1, <3>1, <3>2, <3>3, <3>4, <3>5 DEF SleepTick
  <2>2. CASE RampTick
    <3>0. quiet' = quiet
      BY <2>2 DEF RampTick, idle
    <3>1. CASE RampNothing
      BY <3>0, <3>1 DEF RampNothing, ramp, EarnedInv, QuietFor
    <3>2. CASE RampStep
      <4>1. /\ active /\ sinceStep' = 0 /\ steps' = steps + 1
            /\ state' \in {"RAMPING", "VERIFYING"}
        BY <3>2, <2>a DEF RampStep, StepDue
      <4>2. sinceStep >= interval
        BY <3>2, <4>1 DEF RampStep, StepDue, TimerInv, StepTimer
      <4>3. QuietFor(EarnedTime(steps) + sinceStep)
        BY <4>1, <2>a DEF EarnedInv
      <4>4. EarnedTime(steps + 1) = EarnedTime(steps) + MinInterval
        BY <2>0, EarnedTimeStep
      <4>5. interval \in Nat
        BY <2>0, SleepCycleAssumption
      <4>6. sinceStep >= MinInterval
        BY <4>2, <4>5, <2>0, <2>c
      <4>7. quiet = ClockMod \/ quiet >= EarnedTime(steps + 1)
        BY <4>3, <4>4, <4>6, <2>0, <2>b DEF QuietFor
      <4>8. EarnedTime(steps + 1) + 0 = EarnedTime(steps + 1)
        BY <4>4, <2>0, <2>b
      <4>9. QED
        BY <3>0, <4>1, <4>7, <4>8 DEF EarnedInv, QuietFor
    <3>3. QED
      BY <2>2, <3>1, <3>2 DEF RampTick
  <2>3. CASE Delay
    <3>0. UNCHANGED <<state, steps>> /\ loop = "delay"
      BY <2>3 DEF Delay
    <3>1. PICK d \in 1 .. MaxAdvance :
             /\ quiet' = Lapse(quiet, d)
             /\ sinceStep' = Lapse(sinceStep, d)
      BY <2>3 DEF Delay
    <3>2. MaxAdvance \in Nat
      BY SleepCycleAssumption
    <3>3. quiet' = ClockMod \/ quiet' = quiet + d
      BY <3>1 DEF Lapse
    <3>4. quiet = ClockMod => quiet' = ClockMod
      BY <3>1, <3>2, <2>0 DEF Lapse
    <3>5. CASE state = "RAMPING"
      <4>1. sinceStep + MaxAdvance < ClockMod
        BY <3>0, <3>5, <2>a DEF TimerInv, StepTimer
      <4>2. sinceStep' = sinceStep + d
        BY <3>1, <3>2, <4>1, <2>0 DEF Lapse
      <4>3. quiet = ClockMod \/ quiet >= EarnedTime(steps) + sinceStep
        BY <3>5 DEF EarnedInv, QuietFor
      <4>4. quiet' = ClockMod \/ quiet' >= EarnedTime(steps) + sinceStep'
        BY <3>2, <3>3, <3>4, <4>2, <4>3, <2>0, <2>b
      <4>5. QED
        BY <3>0, <3>5, <4>4 DEF EarnedInv, QuietFor
    <3>6. CASE state = "VERIFYING"
      <4>1. quiet = ClockMod \/ quiet >= EarnedTime(steps)
        BY <3>6 DEF EarnedInv, QuietFor
      <4>2. quiet' = ClockMod \/ quiet' >= EarnedTime(steps)
        BY <3>2, <3>3, <3>4, <4>1, <2>0, <2>b
      <4>3. QED
        BY <3>0, <3>6, <4>2 DEF EarnedInv, QuietFor
    <3>7. CASE state = "MONITORING"
      BY <3>0, <3>7 DEF EarnedInv
    <3>8. QED
      BY <3>5, <3>6, <3>7 DEF CountInv, TypeOK, States
  <2>4. CASE Activity
    BY <2>4 DEF Activity, ResetToMonitoring, EarnedInv
  <2>5. ASSUME NEW p \in Powers, TvReport(p)
        PROVE  EarnedInv'
    <3>1. UNCHANGED <<state, steps, sinceStep>>
      BY <2>5 DEF TvReport, ramp
    <3>2. state # "MONITORING" => quiet' = quiet
      BY <2>5 DEF TvReport, idle
    <3>3. QED
      BY <3>1, <3>2 DEF EarnedInv, QuietFor
  <2>6. ASSUME NEW t \in Timeouts, NEW i \in Intervals, NEW m \in StepLimits,
               Reload(t, i, m)
        PROVE  EarnedInv'
    BY <2>6 DEF Reload, ramp, idle, EarnedInv, QuietFor
  <2>7. CASE UNCHANGED vars
    BY <2>7 DEF vars, ramp, idle, EarnedInv, QuietFor
  <2>8. QED
    BY <2>1, <2>2, <2>3, <2>4, <2>5, <2>6, <2>7 DEF Next
<1>3. QED
  BY <1>1, <1>2, CountInvariant, TimerInvariant, PTL DEF Spec

\* Only a step that leaves the loop task's verification sends the command.
LEMMA PowerOffStep ==
  ASSUME [Next]_vars, event' = "power_off", vars' # vars
  PROVE  TickPowerOff
BY DEF Next, SleepTick, RampTick, Delay, Activity, TvReport, Reload,
       TickNothing, TickIdleTvOff, TickBeginRamp, TickVerifiedOff,
       RampNothing, RampStep

\* The power command is sent only after a whole timeout and a whole interval
\* for every volume step, of which there is at least one.
THEOREM PowerOffIsEarnedHolds == Spec => PowerOffIsEarned
<1>1. CountInv /\ EarnedInv /\ [Next]_vars =>
        [event' = "power_off" =>
           /\ tvPower # "OFF"
           /\ steps > 0
           /\ QuietFor(EarnedTime(steps))]_vars
  <2> SUFFICES ASSUME CountInv, EarnedInv, [Next]_vars,
                      event' = "power_off", vars' # vars
               PROVE  tvPower # "OFF" /\ steps > 0 /\ QuietFor(EarnedTime(steps))
    OBVIOUS
  <2>1. state = "VERIFYING" /\ tvPower # "OFF"
    BY PowerOffStep DEF TickPowerOff
  <2>2. QED
    BY <2>1 DEF CountInv, VerifyingHasSteps, EarnedInv
<1>2. QED
  BY <1>1, CountInvariant, EarnedInvariant, PTL DEF Spec, PowerOffIsEarned

\* A ramp begins only after a whole timeout of true time.
THEOREM RampIsEarnedHolds == Spec => RampIsEarned
<1>1. TimerInv /\ [Next]_vars =>
        [state = "MONITORING" /\ state' = "RAMPING" => quiet >= timeout]_vars
  <2> SUFFICES ASSUME TimerInv, [Next]_vars,
                      state = "MONITORING", state' = "RAMPING"
               PROVE  quiet >= timeout
    OBVIOUS
  <2>1. TickBeginRamp
    BY DEF Next, SleepTick, RampTick, Delay, Activity, TvReport, Reload, vars,
           TickNothing, TickIdleTvOff, TickVerifiedOff, TickPowerOff,
           RampNothing, RampStep, ResetToMonitoring
  <2>2. QED
    BY <2>1 DEF TickBeginRamp, IdleLongEnough, TimerInv, IdleTimer
<1>2. QED
  BY <1>1, TimerInvariant, PTL DEF Spec, RampIsEarned

-----------------------------------------------------------------------------
(* SleepCycle implements SleepSequence.                                    *)

\* Every behaviour of the two classes is a behaviour of the promised diagram.
THEOREM SequenceImplemented == Spec => ImplementsSequence
<1> USE DEF Sequence!Init, Sequence!Begin, Sequence!Step, Sequence!PowerOff,
            Sequence!GiveUp, Sequence!Quiet, Sequence!vars
<1>1. Init => Sequence!Init
  BY DEF Init
<1>2. CountInv /\ CountInv' /\ [Next]_vars => [Sequence!Next]_(Sequence!vars)
  <2> SUFFICES ASSUME CountInv, CountInv', [Next]_vars
               PROVE  Sequence!Next \/ UNCHANGED Sequence!vars
    OBVIOUS
  <2>0. steps \in Nat /\ steps' \in 0 .. StepMod - 1 /\ StepMod \in Nat
    BY SleepCycleAssumption DEF CountInv, TypeOK
  <2>1. CASE SleepTick
    <3>1. CASE TickNothing
      <4>1. Sequence!Quiet
        BY <3>1 DEF TickNothing
      <4>2. QED
        BY <4>1 DEF Sequence!Next
    <3>2. CASE TickIdleTvOff
      <4>1. Sequence!Quiet
        BY <3>2 DEF TickIdleTvOff
      <4>2. QED
        BY <4>1 DEF Sequence!Next
    <3>3. CASE TickBeginRamp
      <4>1. Sequence!Begin
        BY <3>3 DEF TickBeginRamp, CountInv, StepsCounted
      <4>2. QED
        BY <4>1 DEF Sequence!Next
    <3>4. CASE TickVerifiedOff
      <4>1. Sequence!GiveUp
        BY <3>4 DEF TickVerifiedOff, ResetToMonitoring
      <4>2. QED
        BY <4>1 DEF Sequence!Next
    <3>5. CASE TickPowerOff
      <4>1. Sequence!PowerOff
        BY <3>5 DEF TickPowerOff, ResetToMonitoring, CountInv, VerifyingHasSteps
      <4>2. QED
        BY <4>1 DEF Sequence!Next
    <3>6. QED
      BY <2>1, <3>1, <3>2, <3>3, <3>4, <3>5 DEF SleepTick
  <2>2. CASE RampTick
    <3>1. CASE RampNothing
      <4>1. Sequence!Quiet
        BY <3>1 DEF RampNothing
      <4>2. QED
        BY <4>1 DEF Sequence!Next
    <3>2. CASE RampStep
      <4>1. state = "RAMPING"
        BY <3>2 DEF RampStep, StepDue, CountInv, SchedulerFollowsState
      <4>2. steps' = steps + 1 /\ steps + 1 < StepMod
        BY <3>2, <2>0 DEF RampStep
      <4>3. state' \in {"RAMPING", "VERIFYING"} /\ event' = "volume_down"
        BY <3>2, <4>1 DEF RampStep
      <4>4. Sequence!Step
        BY <4>1, <4>2, <4>3
      <4>5. QED
        BY <4>4 DEF Sequence!Next
    <3>3. QED
      BY <2>2, <3>1, <3>2 DEF RampTick
  <2>3. CASE Delay
    <3>1. Sequence!Quiet
      BY <2>3 DEF Delay
    <3>2. QED
      BY <3>1 DEF Sequence!Next
  <2>4. CASE Activity
    <3>1. Sequence!GiveUp
      BY <2>4 DEF Activity, ResetToMonitoring
    <3>2. QED
      BY <3>1 DEF Sequence!Next
  <2>5. ASSUME NEW p \in Powers, TvReport(p)
        PROVE  Sequence!Next
    <3>1. Sequence!Quiet
      BY <2>5 DEF TvReport
    <3>2. QED
      BY <3>1 DEF Sequence!Next
  <2>6. ASSUME NEW t \in Timeouts, NEW i \in Intervals, NEW m \in StepLimits,
               Reload(t, i, m)
        PROVE  Sequence!Next
    <3>1. Sequence!Quiet
      BY <2>6 DEF Reload
    <3>2. QED
      BY <3>1 DEF Sequence!Next
  <2>7. CASE UNCHANGED vars
    BY <2>7 DEF vars
  <2>8. QED
    BY <2>1, <2>2, <2>3, <2>4, <2>5, <2>6, <2>7 DEF Next
<1>3. QED
  BY <1>1, <1>2, CountInvariant, PTL DEF Spec, ImplementsSequence, Sequence!Spec
=============================================================================
