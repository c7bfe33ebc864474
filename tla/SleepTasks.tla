----------------------------- MODULE SleepTasks -----------------------------
(***************************************************************************)
(* SleepStateMachine and RampScheduler with their handlers taken apart.    *)
(*                                                                         *)
(* Neither class holds a lock, and three tasks of equal priority call into *)
(* them: the loop task (both ticks), the sensor task (onIrActivity from    *)
(* the presence sensor, onTvPoweredOn from TvStateMachine) and the web     *)
(* server's task (the reload callback).  FreeRTOS may switch tasks between *)
(* any two machine instructions, so a step of this module is one load or   *)
(* one store of a shared member; reading the clock and storing the reading *)
(* count as one.  `at` and `sensor` say where the first two tasks are; the *)
(* web task only stores settings, one member each, in any order that a     *)
(* series of reloads can bring.                                            *)
(*                                                                         *)
(* The order in which `clock_.nowMs() - lastActivityMs_` evaluates its two *)
(* operands is unspecified, so the step that reads them picks an order.    *)
(*                                                                         *)
(* `rampSteps` and `event` are history variables.                          *)
(***************************************************************************)
EXTENDS Naturals

CONSTANTS
  ClockMod,          \* number of values of the clock (2^32)
  StepMod,           \* number of values of the step counter (256)
  MaxAdvance,        \* the most time one iteration of loop() takes
  Timeouts,          \* inactivity timeouts configuration may hold
  Intervals,         \* ramp intervals configuration may hold
  StepLimits         \* max_ramp_steps_before_poweroff it may hold

ASSUME SleepTasksAssumption ==
  /\ ClockMod \in Nat /\ StepMod \in Nat /\ MaxAdvance \in Nat
  /\ 0 < MaxAdvance /\ MaxAdvance < ClockMod /\ 1 < StepMod
  /\ Timeouts \subseteq Nat /\ \A t \in Timeouts : t + MaxAdvance < ClockMod
  /\ Intervals \subseteq Nat /\ \A i \in Intervals : i + MaxAdvance < ClockMod
  /\ StepLimits \subseteq 0 .. StepMod - 1

VARIABLES
  now,               \* IClock::nowMs()
  lag,               \* time the current iteration of loop() has taken
  at,                \* where the loop task is
  reading,           \* the operand it has read: which one, and its value
  sensor,            \* where the sensor task is
  state,             \* SleepStateMachine::current_
  lastActivity,      \* SleepStateMachine::lastActivityMs_
  timeout,           \* SleepStateMachine::inactivityTimeoutMs_
  active,            \* RampScheduler::active_
  stepCount,         \* RampScheduler::step_count_
  lastStep,          \* RampScheduler::last_step_ms_
  interval,          \* RampScheduler::interval_ms_
  maxSteps,          \* RampScheduler::max_steps_
  tvPower,           \* TvStateMachine::getPowerState()
  rampSteps,         \* volume-down commands sent since the last ramp began
  event              \* what the last step did that someone can notice

settings == <<timeout, interval, maxSteps>>
ramp     == <<active, stepCount, lastStep>>
vars == <<now, lag, at, reading, sensor, state, tvPower, event,
          settings, ramp, lastActivity, rampSteps>>

Powers == {"UNKNOWN", "ON", "OFF"}
NoReading == [of |-> "none", value |-> 0]

Elapsed(n, t) == IF n >= t THEN n - t ELSE n + ClockMod - t

Init ==
  /\ now = 0 /\ lag = 0
  /\ at = "tick" /\ reading = NoReading
  /\ sensor = "poll"
  /\ state = "MONITORING" /\ lastActivity = 0
  /\ timeout \in Timeouts /\ interval \in Intervals /\ maxSteps \in StepLimits
  /\ active = FALSE /\ stepCount = 0 /\ lastStep = 0
  /\ tvPower = "UNKNOWN"
  /\ rampSteps = 0
  /\ event = "none"

RestartIdleClock == lastActivity' = now

-----------------------------------------------------------------------------
(* The loop task.  Step moves it from one label to the next.               *)

Step(from, to) == at = from /\ at' = to

\* What the other tasks own stays as it is in a step of the loop task.
LoopOwn == UNCHANGED <<now, sensor, tvPower, settings>>

\* SleepStateMachine::tick reads current_.
ReadState ==
  /\ \/ state = "MONITORING" /\ Step("tick", "read")
     \/ state = "RAMPING"    /\ Step("tick", "ramp")
     \/ state = "VERIFYING"  /\ Step("tick", "verify")
  /\ event' = "none"
  /\ LoopOwn /\ UNCHANGED <<lag, reading, state, ramp, lastActivity, rampSteps>>

\* The first operand of nowMs() - lastActivityMs_, whichever that is.
ReadOperand ==
  /\ Step("read", "compare")
  /\ reading' \in {[of |-> "now", value |-> now],
                   [of |-> "lastActivity", value |-> lastActivity]}
  /\ event' = "none"
  /\ LoopOwn /\ UNCHANGED <<lag, state, ramp, lastActivity, rampSteps>>

\* The second operand, and the comparison with the timeout.
IdleTime == IF reading.of = "now" THEN Elapsed(reading.value, lastActivity)
                                  ELSE Elapsed(now, reading.value)
Compare ==
  /\ IF IdleTime >= timeout THEN Step("compare", "tv") ELSE Step("compare", "ramp")
  /\ reading' = NoReading
  /\ event' = "none"
  /\ LoopOwn /\ UNCHANGED <<lag, state, ramp, lastActivity, rampSteps>>

\* getPowerState, under the TV state machine's own lock.
ReadTv ==
  /\ IF tvPower = "OFF" THEN Step("tv", "rearm") ELSE Step("tv", "begin")
  /\ event' = "none"
  /\ LoopOwn /\ UNCHANGED <<lag, reading, state, ramp, lastActivity, rampSteps>>

Rearm ==
  /\ Step("rearm", "ramp")
  /\ RestartIdleClock
  /\ event' = "none"
  /\ LoopOwn /\ UNCHANGED <<lag, reading, state, ramp, rampSteps>>

BeginRamp ==
  /\ Step("begin", "start_active")
  /\ state' = "RAMPING"
  /\ rampSteps' = 0
  /\ event' = "none"
  /\ LoopOwn /\ UNCHANGED <<lag, reading, ramp, lastActivity>>

\* Mutant: the step counter is not reset.
StartRampKeepCount ==
  /\ \/ /\ Step("start_active", "start_clock")
        /\ active' = TRUE /\ UNCHANGED <<stepCount, lastStep>>
     \/ /\ Step("start_clock", "ramp")
        /\ lastStep' = now /\ UNCHANGED <<active, stepCount>>
  /\ event' = "none"
  /\ LoopOwn /\ UNCHANGED <<lag, reading, state, lastActivity, rampSteps>>

\* RampScheduler::start, one member at a time.
StartRamp ==
  /\ \/ /\ Step("start_active", "start_count")
        /\ active' = TRUE /\ UNCHANGED <<stepCount, lastStep>>
     \/ /\ Step("start_count", "start_clock")
        /\ stepCount' = 0 /\ UNCHANGED <<active, lastStep>>
     \/ /\ Step("start_clock", "ramp")
        /\ lastStep' = now /\ UNCHANGED <<active, stepCount>>
  /\ event' = "none"
  /\ LoopOwn /\ UNCHANGED <<lag, reading, state, lastActivity, rampSteps>>

\* VERIFYING: a TV that is off ends the sequence, any other is switched off.
Verify ==
  /\ IF tvPower = "OFF" THEN Step("verify", "reset_state")
                        ELSE Step("verify", "decide")
  /\ event' = "none"
  /\ LoopOwn /\ UNCHANGED <<lag, reading, state, ramp, lastActivity, rampSteps>>

Decide ==
  /\ Step("decide", "send")
  /\ state' = "POWERING_OFF"
  /\ event' = "none"
  /\ LoopOwn /\ UNCHANGED <<lag, reading, ramp, lastActivity, rampSteps>>

SendPowerOff ==
  /\ Step("send", "reset_state")
  /\ event' = "power_off"
  /\ LoopOwn /\ UNCHANGED <<lag, reading, state, ramp, lastActivity, rampSteps>>

\* resetToMonitoring from tick(): only the loop task makes the state RAMPING,
\* so it never is here and there is nothing to cancel.
Reset ==
  /\ \/ /\ Step("reset_state", "reset_clock")
        /\ state' = "MONITORING" /\ UNCHANGED lastActivity
     \/ /\ Step("reset_clock", "ramp")
        /\ RestartIdleClock /\ UNCHANGED state
  /\ event' = "none"
  /\ LoopOwn /\ UNCHANGED <<lag, reading, ramp, rampSteps>>

-----------------------------------------------------------------------------
(* RampScheduler::tick.                                                    *)

ReadActive ==
  /\ IF active THEN Step("ramp", "due") ELSE Step("ramp", "delay")
  /\ event' = "none"
  /\ LoopOwn /\ UNCHANGED <<lag, reading, state, ramp, lastActivity, rampSteps>>

Due ==
  /\ IF Elapsed(now, lastStep) >= interval THEN Step("due", "step_clock")
                                           ELSE Step("due", "delay")
  /\ event' = "none"
  /\ LoopOwn /\ UNCHANGED <<lag, reading, state, ramp, lastActivity, rampSteps>>

SetStepClock ==
  /\ Step("step_clock", "step")
  /\ lastStep' = now
  /\ event' = "none"
  /\ LoopOwn /\ UNCHANGED <<lag, reading, state, active, stepCount, lastActivity, rampSteps>>

VolumeDown ==
  /\ Step("step", "count")
  /\ rampSteps' = IF rampSteps + 1 < StepMod THEN rampSteps + 1 ELSE rampSteps
  /\ event' = "volume_down"
  /\ LoopOwn /\ UNCHANGED <<lag, reading, state, ramp, lastActivity>>

Count ==
  /\ Step("count", "limit")
  /\ stepCount' = IF stepCount + 1 < StepMod THEN stepCount + 1 ELSE 0
  /\ event' = "none"
  /\ LoopOwn /\ UNCHANGED <<lag, reading, state, active, lastStep, lastActivity, rampSteps>>

\* Mutant: the ramp ends one step after its limit.
LimitStrict ==
  /\ IF stepCount > maxSteps THEN Step("limit", "finish") ELSE Step("limit", "delay")
  /\ event' = "none"
  /\ LoopOwn /\ UNCHANGED <<lag, reading, state, ramp, lastActivity, rampSteps>>

Limit ==
  /\ IF stepCount >= maxSteps THEN Step("limit", "finish") ELSE Step("limit", "delay")
  /\ event' = "none"
  /\ LoopOwn /\ UNCHANGED <<lag, reading, state, ramp, lastActivity, rampSteps>>

Finish ==
  /\ Step("finish", "complete")
  /\ active' = FALSE
  /\ event' = "none"
  /\ LoopOwn /\ UNCHANGED <<lag, reading, state, stepCount, lastStep, lastActivity, rampSteps>>

\* Mutant: the end of a ramp is not reported while the TV seems off.
CompleteUnlessOff ==
  /\ IF state = "RAMPING" /\ tvPower # "OFF" THEN Step("complete", "verifying")
                                             ELSE Step("complete", "delay")
  /\ event' = "none"
  /\ LoopOwn /\ UNCHANGED <<lag, reading, state, ramp, lastActivity, rampSteps>>

\* SleepStateMachine::onRampComplete looks, then sets.
Complete ==
  /\ IF state = "RAMPING" THEN Step("complete", "verifying")
                          ELSE Step("complete", "delay")
  /\ event' = "none"
  /\ LoopOwn /\ UNCHANGED <<lag, reading, state, ramp, lastActivity, rampSteps>>

SetVerifying ==
  /\ Step("verifying", "delay")
  /\ state' = "VERIFYING"
  /\ event' = "none"
  /\ LoopOwn /\ UNCHANGED <<lag, reading, ramp, lastActivity, rampSteps>>

\* delay(100): an iteration of loop() takes time.
Wake ==
  /\ Step("delay", "tick")
  /\ lag > 0 /\ lag' = 0
  /\ event' = "none"
  /\ LoopOwn /\ UNCHANGED <<reading, state, ramp, lastActivity, rampSteps>>

LoopStep ==
  \/ ReadState \/ ReadOperand \/ Compare \/ ReadTv \/ Rearm \/ BeginRamp
  \/ StartRamp \/ Verify \/ Decide \/ SendPowerOff \/ Reset
  \/ ReadActive \/ Due \/ SetStepClock \/ VolumeDown \/ Count \/ Limit
  \/ Finish \/ Complete \/ SetVerifying \/ Wake

\* Mutant: the clock does not wrap.
ClockTickNoWrap ==
  /\ lag < MaxAdvance /\ lag' = lag + 1
  /\ now' = now + 1
  /\ event' = "none"
  /\ UNCHANGED <<at, reading, sensor, state, tvPower, settings, ramp,
                 lastActivity, rampSteps>>

\* The clock may tick between any two steps of any task, but not faster than
\* loop() comes round.
ClockTick ==
  /\ lag < MaxAdvance /\ lag' = lag + 1
  /\ now' = IF now + 1 < ClockMod THEN now + 1 ELSE 0
  /\ event' = "none"
  /\ UNCHANGED <<at, reading, sensor, state, tvPower, settings, ramp,
                 lastActivity, rampSteps>>

-----------------------------------------------------------------------------
(* The sensor task.                                                        *)

SensorOwn == UNCHANGED <<now, lag, at, reading, settings>>

Sense(from, to) == sensor = from /\ sensor' = to

\* onIrActivity, i.e. resetToMonitoring: look whether there is a ramp ...
ActivityRead ==
  /\ \/ state = "RAMPING" /\ Sense("poll", "stop")
     \/ state # "RAMPING" /\ Sense("poll", "set_state")
  /\ event' = "none"
  /\ SensorOwn /\ UNCHANGED <<state, tvPower, ramp, lastActivity, rampSteps>>

\* ... cancel it: RampScheduler::stop ...
ActivityStop ==
  /\ Sense("stop", "set_state")
  /\ active' = FALSE
  /\ event' = "none"
  /\ SensorOwn /\ UNCHANGED <<state, tvPower, stepCount, lastStep, lastActivity, rampSteps>>

\* Mutant: only the scheduler is stopped, the state is left to the next tick.
ActivityKeepRamping ==
  /\ Sense("set_state", "set_clock")
  /\ state' = IF state = "RAMPING" THEN state ELSE "MONITORING"
  /\ event' = "none"
  /\ SensorOwn /\ UNCHANGED <<tvPower, ramp, lastActivity, rampSteps>>

\* ... monitor again ...
ActivityState ==
  /\ Sense("set_state", "set_clock")
  /\ state' = "MONITORING"
  /\ event' = "none"
  /\ SensorOwn /\ UNCHANGED <<tvPower, ramp, lastActivity, rampSteps>>

\* ... from now.
ActivityClock ==
  /\ Sense("set_clock", "poll")
  /\ RestartIdleClock
  /\ event' = "activity"
  /\ SensorOwn /\ UNCHANGED <<state, tvPower, ramp, rampSteps>>

\* TvStateMachine sets its state under its lock and notifies outside it.
TvReport(p) ==
  /\ p # tvPower
  /\ tvPower' = p
  /\ IF p = "ON" THEN Sense("poll", "tv_on") ELSE Sense("poll", "poll")
  /\ event' = IF p = "ON" THEN "tv_on" ELSE "none"
  /\ SensorOwn /\ UNCHANGED <<state, ramp, lastActivity, rampSteps>>

\* onTvPoweredOn looks at the state, then restarts the idle clock.
TvOnRead ==
  /\ IF state = "MONITORING" THEN Sense("tv_on", "tv_clock")
                             ELSE Sense("tv_on", "poll")
  /\ event' = "none"
  /\ SensorOwn /\ UNCHANGED <<state, tvPower, ramp, lastActivity, rampSteps>>

TvOnClock ==
  /\ Sense("tv_clock", "poll")
  /\ RestartIdleClock
  /\ event' = "none"
  /\ SensorOwn /\ UNCHANGED <<state, tvPower, ramp, rampSteps>>

SensorHandler == ActivityStop \/ ActivityState \/ ActivityClock
                   \/ TvOnRead \/ TvOnClock

SensorStep == ActivityRead \/ SensorHandler \/ \E p \in Powers : TvReport(p)

-----------------------------------------------------------------------------
(* The web task: the reload callback's three setters.                      *)

Reload ==
  /\ \/ timeout' \in Timeouts /\ UNCHANGED <<interval, maxSteps>>
     \/ interval' \in Intervals /\ UNCHANGED <<timeout, maxSteps>>
     \/ maxSteps' \in StepLimits /\ UNCHANGED <<timeout, interval>>
  /\ event' = "none"
  /\ UNCHANGED <<now, lag, at, reading, sensor, state, tvPower, ramp,
                 lastActivity, rampSteps>>

Next == LoopStep \/ ClockTick \/ SensorStep \/ Reload

Spec == Init /\ [][Next]_vars

\* Equal priorities are time-sliced, so no task waits for ever, and the clock
\* never stops.  Nothing makes anybody show up, the TV change or a reload come.
FairSpec == /\ Spec
            /\ WF_vars(LoopStep) /\ WF_vars(ClockTick) /\ WF_vars(SensorHandler)

-----------------------------------------------------------------------------
Labels == {"tick", "read", "compare", "tv", "rearm", "begin", "start_active",
           "start_count", "start_clock", "verify", "decide", "send",
           "reset_state", "reset_clock", "ramp", "due", "step_clock", "step",
           "count", "limit", "finish", "complete", "verifying", "delay"}

TypeOK ==
  /\ now \in 0 .. ClockMod - 1 /\ lag \in 0 .. MaxAdvance
  /\ at \in Labels
  /\ reading \in [of : {"none", "now", "lastActivity"}, value : 0 .. ClockMod - 1]
  /\ sensor \in {"poll", "stop", "set_state", "set_clock", "tv_on", "tv_clock"}
  /\ state \in {"MONITORING", "RAMPING", "VERIFYING", "POWERING_OFF"}
  /\ lastActivity \in 0 .. ClockMod - 1
  /\ timeout \in Timeouts /\ interval \in Intervals /\ maxSteps \in StepLimits
  /\ active \in BOOLEAN /\ stepCount \in 0 .. StepMod - 1
  /\ lastStep \in 0 .. ClockMod - 1
  /\ tvPower \in Powers
  /\ rampSteps \in 0 .. StepMod - 1
  /\ event \in {"none", "activity", "tv_on", "volume_down", "power_off"}

\* However the tasks interleave, a RAMPING state is never left without its
\* scheduler: where they differ, the loop task is about to start it or to
\* move on, or the sensor task is about to leave RAMPING.  Otherwise the
\* machine would wait for an onRampComplete that never comes.
NoStuckRamp ==
  state = "RAMPING" /\ ~active =>
    at \in {"start_active", "complete", "verifying"} \/ sensor = "set_state"

\* The counter that numbers the volume steps counts this ramp's commands, also
\* after a ramp that was cancelled half-way through its start, and power-off is
\* considered only after at least one.
StepsAreThisRamps ==
  /\ rampSteps = CASE at \in {"start_active", "start_count"} -> 0
                   [] at = "count" -> stepCount + 1
                   [] OTHER -> stepCount
  /\ state = "VERIFYING" => rampSteps > 0

\* A scheduler that a race left running stops by itself once activity does.
StrayRampEnds == []<>(~active) \/ []<>(event = "activity")

\* No interleaving keeps an unwatched television on for ever.
IdleTvIsPoweredOff ==
  \/ []<>(event = "activity")
  \/ []<>(tvPower = "OFF" \/ event = "tv_on")
  \/ []<>(event = "power_off")

\* docs/spec/spec.md: "Any activity returns to MONITORING and stops the
\* scheduler, so a cancelled ramp does not keep lowering the volume."
CancelledRampStops ==
  state = "MONITORING" /\ at = "delay" /\ sensor = "poll" => ~active
=============================================================================
