----------------------------- MODULE SleepCycle -----------------------------
(***************************************************************************)
(* SleepStateMachine and RampScheduler as main.cpp wires them: loop()      *)
(* ticks the state machine, then the scheduler, then sleeps; the presence  *)
(* sensor reports activity, the TV state machine reports power changes and *)
(* a configuration reload changes the timing.  Every call is one action    *)
(* here, which is how the unit tests drive the two classes; SleepTasks     *)
(* takes the calls apart.                                                  *)
(*                                                                         *)
(* The clock is the firmware's uint32_t millisecond counter, so it wraps   *)
(* and differences are taken modulo ClockMod.  `quiet`, `sinceStep`,       *)
(* `steps` and `event` are history variables: the code never reads them.   *)
(***************************************************************************)
EXTENDS Naturals

CONSTANTS
  ClockMod,          \* number of values of the clock (2^32)
  StepMod,           \* number of values of the step counter (256)
  MaxAdvance,        \* the most time one iteration of loop() takes
  Timeouts,          \* inactivity timeouts configuration may hold
  Intervals,         \* ramp intervals configuration may hold
  StepLimits,        \* max_ramp_steps_before_poweroff it may hold
  MinTimeout,        \* no timeout is shorter
  MinInterval        \* no interval is shorter

\* Any timeout or interval, plus one late iteration of loop(), is shorter
\* than a full turn of the clock: 120 min against 49 days.
ASSUME SleepCycleAssumption ==
  /\ ClockMod \in Nat /\ StepMod \in Nat /\ MaxAdvance \in Nat
  /\ 0 < MaxAdvance /\ MaxAdvance < ClockMod /\ 1 < StepMod
  /\ Timeouts \subseteq Nat /\ \A t \in Timeouts : t + MaxAdvance < ClockMod
  /\ Intervals \subseteq Nat /\ \A i \in Intervals : i + MaxAdvance < ClockMod
  /\ StepLimits \subseteq 0 .. StepMod - 1
  /\ MinTimeout \in Nat /\ \A t \in Timeouts : MinTimeout <= t
  /\ MinInterval \in Nat /\ \A i \in Intervals : MinInterval <= i

VARIABLES
  now,               \* IClock::nowMs()
  loop,              \* what loop() does next
  state,             \* SleepStateMachine::current_
  lastActivity,      \* SleepStateMachine::lastActivityMs_
  timeout,           \* SleepStateMachine::inactivityTimeoutMs_
  active,            \* RampScheduler::active_
  stepCount,         \* RampScheduler::step_count_
  lastStep,          \* RampScheduler::last_step_ms_
  interval,          \* RampScheduler::interval_ms_
  maxSteps,          \* RampScheduler::max_steps_
  tvPower,           \* TvStateMachine::getPowerState()
  quiet,             \* true time since the idle clock was last restarted
  sinceStep,         \* true time since the last ramp start or ramp step
  steps,             \* volume-down commands sent since the idle clock restarted
  event              \* what the last action did that someone can notice

settings == <<timeout, interval, maxSteps>>
ramp     == <<active, stepCount, lastStep, sinceStep>>
idle     == <<lastActivity, quiet>>
vars == <<now, loop, state, tvPower, steps, event, settings, ramp, idle>>

States == {"MONITORING", "RAMPING", "VERIFYING"}
Powers == {"UNKNOWN", "ON", "OFF"}
Events == {"none", "activity", "tv_on", "volume_down", "power_off"}

-----------------------------------------------------------------------------
\* Mutant: a difference that does not survive the wrap of the counter.
ElapsedNoWrap(n, t) == IF n >= t THEN n - t ELSE 0

\* uint32_t subtraction: the time from t to n on a clock that wraps.
Elapsed(n, t) == IF n >= t THEN n - t ELSE n + ClockMod - t

\* Mutant: a clock that never wraps.
LaterNoWrap(n, d) == n + d

\* The clock d later.
Later(n, d) == IF n + d < ClockMod THEN n + d ELSE n + d - ClockMod

\* uint8_t increment.
Increment(n) == IF n + 1 < StepMod THEN n + 1 ELSE 0

\* True time does not wrap; past a full turn of the clock its value is moot.
Lapse(q, d) == IF q + d < ClockMod THEN q + d ELSE ClockMod

Init ==
  /\ now \in 0 .. ClockMod - 1
  /\ loop = "sleep"
  /\ state = "MONITORING"
  /\ lastActivity = now
  /\ timeout \in Timeouts /\ interval \in Intervals /\ maxSteps \in StepLimits
  /\ active = FALSE /\ stepCount = 0 /\ lastStep = 0
  /\ tvPower = "UNKNOWN"
  /\ quiet = 0 /\ sinceStep = 0 /\ steps = 0
  /\ event = "none"

-----------------------------------------------------------------------------
\* Restart of the idle clock at this instant.
RestartIdleClock == lastActivity' = now /\ quiet' = 0

\* Mutant: the scheduler is not told that the ramp was abandoned.
ResetWithoutCancel ==
  /\ state' = "MONITORING"
  /\ steps' = 0
  /\ RestartIdleClock
  /\ UNCHANGED ramp

\* SleepStateMachine::resetToMonitoring: cancel a ramp under way, then
\* monitor again from now.
ResetToMonitoring ==
  /\ active' = IF state = "RAMPING" THEN FALSE ELSE active
  /\ state' = "MONITORING"
  /\ steps' = 0
  /\ RestartIdleClock
  /\ UNCHANGED <<stepCount, lastStep, sinceStep>>

\* Mutant: the step counter of the last ramp is kept.
StartRampKeepCount ==
  /\ active' = TRUE
  /\ lastStep' = now
  /\ sinceStep' = 0
  /\ UNCHANGED stepCount

\* Mutant: the first interval is counted from the last ramp.
StartRampKeepClock ==
  /\ active' = TRUE
  /\ stepCount' = 0
  /\ sinceStep' = 0
  /\ UNCHANGED lastStep

\* RampScheduler::start.
StartRamp ==
  /\ active' = TRUE
  /\ stepCount' = 0
  /\ lastStep' = now
  /\ sinceStep' = 0

IdleLongEnough == Elapsed(now, lastActivity) >= timeout

\* SleepStateMachine::tick, one disjunct per way through the switch.
TickNothing ==
  /\ state = "RAMPING" \/ (state = "MONITORING" /\ ~IdleLongEnough)
  /\ event' = "none"
  /\ UNCHANGED <<state, steps, ramp, idle>>

TickIdleTvOff ==
  /\ state = "MONITORING" /\ IdleLongEnough /\ tvPower = "OFF"
  /\ RestartIdleClock
  /\ event' = "none"
  /\ UNCHANGED <<state, steps, ramp>>

TickBeginRamp ==
  /\ state = "MONITORING" /\ IdleLongEnough /\ tvPower # "OFF"
  /\ state' = "RAMPING"
  /\ StartRamp
  /\ event' = "none"
  /\ UNCHANGED <<steps, idle>>

TickVerifiedOff ==
  /\ state = "VERIFYING" /\ tvPower = "OFF"
  /\ ResetToMonitoring
  /\ event' = "none"

\* Mutant: the machine stays where it is and sends the command again.
TickPowerOffStays ==
  /\ state = "VERIFYING" /\ tvPower # "OFF"
  /\ event' = "power_off"
  /\ UNCHANGED <<state, steps, ramp, idle>>

\* POWERING_OFF and FALLBACK_OFF are left in the same call: both send the
\* power command and go back to MONITORING.
TickPowerOff ==
  /\ state = "VERIFYING" /\ tvPower # "OFF"
  /\ ResetToMonitoring
  /\ event' = "power_off"

SleepTick ==
  /\ loop = "sleep" /\ loop' = "ramp"
  /\ TickNothing \/ TickIdleTvOff \/ TickBeginRamp
       \/ TickVerifiedOff \/ TickPowerOff
  /\ UNCHANGED <<now, tvPower, settings>>

-----------------------------------------------------------------------------
StepDue == active /\ Elapsed(now, lastStep) >= interval

RampNothing ==
  /\ ~StepDue
  /\ event' = "none"
  /\ UNCHANGED <<state, steps, ramp>>

\* A volume-down command; the last one stops the scheduler and calls
\* SleepStateMachine::onRampComplete, which acts only while RAMPING.
RampStep ==
  /\ StepDue
  /\ lastStep' = now /\ sinceStep' = 0
  /\ stepCount' = Increment(stepCount)
  /\ active' = (stepCount' < maxSteps)
  /\ state' = IF ~active' /\ state = "RAMPING" THEN "VERIFYING" ELSE state
  /\ steps' = steps + 1
  /\ event' = "volume_down"

RampTick ==
  /\ loop = "ramp" /\ loop' = "delay"
  /\ RampNothing \/ RampStep
  /\ UNCHANGED <<now, tvPower, settings, idle>>

\* delay(100) at the end of loop(): the only place time is seen to pass.
Delay ==
  /\ loop = "delay" /\ loop' = "sleep"
  /\ \E d \in 1 .. MaxAdvance :
       /\ now' = Later(now, d)
       /\ quiet' = Lapse(quiet, d)
       /\ sinceStep' = Lapse(sinceStep, d)
  /\ event' = "none"
  /\ UNCHANGED <<state, tvPower, steps, settings, lastActivity, active,
                 stepCount, lastStep>>

-----------------------------------------------------------------------------
\* SleepStateMachine::onIrActivity, from the presence sensor.
Activity ==
  /\ ResetToMonitoring
  /\ event' = "activity"
  /\ UNCHANGED <<now, loop, tvPower, settings>>

\* Mutant: the idle clock is not restarted when the TV comes on.
TvReportForgotten(p) ==
  /\ p # tvPower
  /\ tvPower' = p
  /\ event' = IF p = "ON" THEN "tv_on" ELSE "none"
  /\ IF p = "ON" /\ state = "MONITORING" THEN quiet' = 0 ELSE UNCHANGED quiet
  /\ UNCHANGED <<now, loop, state, steps, settings, ramp, lastActivity>>

\* TvStateMachine changes its mind; ON reaches onTvPoweredOn, which restarts
\* the idle clock unless a sequence is under way.
TvReport(p) ==
  /\ p # tvPower
  /\ tvPower' = p
  /\ IF p = "ON" /\ state = "MONITORING" THEN RestartIdleClock
                                         ELSE UNCHANGED idle
  /\ event' = IF p = "ON" THEN "tv_on" ELSE "none"
  /\ UNCHANGED <<now, loop, state, steps, settings, ramp>>

\* Mutant: a reload restarts the idle clock.
ReloadRestartsClock(t, i, m) ==
  /\ timeout' = t /\ interval' = i /\ maxSteps' = m
  /\ RestartIdleClock
  /\ event' = "none"
  /\ UNCHANGED <<now, loop, state, tvPower, steps, ramp>>

\* ConfigManager's change callback: new timing, idle clock untouched.
Reload(t, i, m) ==
  /\ timeout' = t /\ interval' = i /\ maxSteps' = m
  /\ event' = "none"
  /\ UNCHANGED <<now, loop, state, tvPower, steps, ramp, idle>>

Next ==
  \/ SleepTick
  \/ RampTick
  \/ Delay
  \/ Activity
  \/ \E p \in Powers : TvReport(p)
  \/ \E t \in Timeouts, i \in Intervals, m \in StepLimits : Reload(t, i, m)

Spec == Init /\ [][Next]_vars

\* FreeRTOS keeps running the loop task, and every iteration takes time.
LoopFairness == WF_vars(SleepTick) /\ WF_vars(RampTick) /\ WF_vars(Delay)

FairSpec == Spec /\ LoopFairness

-----------------------------------------------------------------------------
TypeOK ==
  /\ now \in 0 .. ClockMod - 1
  /\ loop \in {"sleep", "ramp", "delay"}
  /\ state \in States
  /\ lastActivity \in 0 .. ClockMod - 1
  /\ timeout \in Timeouts /\ interval \in Intervals /\ maxSteps \in StepLimits
  /\ active \in BOOLEAN
  /\ stepCount \in 0 .. StepMod - 1
  /\ lastStep \in 0 .. ClockMod - 1
  /\ tvPower \in Powers
  /\ quiet \in 0 .. ClockMod
  /\ sinceStep \in 0 .. ClockMod
  /\ steps \in 0 .. StepMod - 1
  /\ event \in Events

\* The scheduler runs exactly while the state machine is RAMPING: no ramp goes
\* on behind the back of a machine that is monitoring again, and no RAMPING
\* state waits for a scheduler that has stopped (RampScheduler and
\* SleepStateMachine only know each other through the callbacks of main.cpp).
SchedulerFollowsState == active <=> state = "RAMPING"

\* The differences of clock readings that the code compares with its timeout
\* and its interval are the time that really went by, on either side of a wrap
\* of the millisecond counter.
TimersExact ==
  /\ state = "MONITORING" => Elapsed(now, lastActivity) = quiet
  /\ active => Elapsed(now, lastStep) = sinceStep

\* The step number handed to the volume task is the number of commands sent in
\* this ramp, and the 8-bit counter never wraps, also when a reload lowers or
\* raises the limit in the middle of a ramp.
StepsCounted ==
  /\ active => steps = stepCount /\ stepCount + 1 < StepMod
  /\ state = "MONITORING" => steps = 0

\* The least time in which a sequence can get to its n-th volume step.
EarnedTime(n) == MinTimeout + n * MinInterval

\* t or more since the idle clock restarted.
QuietFor(t) == quiet = ClockMod \/ quiet >= t

\* The power command goes out only after a full idle timeout, then at least one
\* volume step, each a full interval after the one before: nothing hurries it,
\* whatever reloads, TV reports and cancelled ramps came before.
PowerOffIsEarned ==
  [][event' = "power_off" =>
       /\ tvPower # "OFF"
       /\ steps > 0
       /\ QuietFor(EarnedTime(steps))]_vars

\* A ramp begins only when nobody showed up, the TV did not come on and no
\* sequence ended for a whole timeout, counted in true time.
RampIsEarned ==
  [][state = "MONITORING" /\ state' = "RAMPING" => quiet >= timeout]_vars

\* An ON television that nobody watches is switched off, again and again:
\* either there is activity for ever, or the TV keeps going off or coming on,
\* or the power command keeps being sent.
IdleTvIsPoweredOff ==
  \/ []<>(event = "activity")
  \/ []<>(tvPower = "OFF" \/ event = "tv_on")
  \/ []<>(event = "power_off")

\* The sequence promised by SleepStateMachine.h.
Sequence == INSTANCE SleepSequence WITH
  phase   <- state,
  command <- IF event \in {"volume_down", "power_off"} THEN event ELSE "none"

ImplementsSequence == Sequence!Spec
=============================================================================
