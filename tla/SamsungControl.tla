---------------------------- MODULE SamsungControl ----------------------------
(***************************************************************************)
(* SamsungTvController's operations on the television, each in a           *)
(* short-lived task of its own: a ramp step for every callback of the      *)
(* ramp scheduler, a power-off at the end of the sequence or at the push   *)
(* of the test button.  opMutex_ lets one operation through at a time;     *)
(* between the requests of an operation the viewer may use the remote      *)
(* control, and a request may fail.  A step is one request to the TV.      *)
(*                                                                         *)
(* The TV is paired throughout.  `missed` and `finished` are history       *)
(* variables.                                                              *)
(***************************************************************************)
EXTENDS Integers

CONSTANTS
  Tasks,             \* as many network tasks as live at once
  MaxVolume,         \* loudest setting of the TV
  Totals,            \* max_ramp_steps_before_poweroff
  Typicals,          \* typical_volume
  ExtraPresses,      \* kLastStepExtraPresses
  Disturbances,      \* what the viewer does: "volume", "on", "off", "settings"
  Flaky              \* requests to a TV that is on may fail

Free == "free"       \* opMutex_ is not held

\* typical_volume is the user's estimate of the loudest he listens.
ASSUME SamsungControlAssumption ==
  /\ MaxVolume \in Nat /\ ExtraPresses \in Nat
  /\ Totals \subseteq Nat /\ Typicals \subseteq Nat
  /\ \A p \in Typicals : MaxVolume <= p + ExtraPresses
  /\ Disturbances \subseteq {"volume", "on", "off", "settings"}
  /\ Flaky \in BOOLEAN
  /\ Free \notin Tasks

VARIABLES
  power, volume,     \* the TV
  total, typical,    \* the settings
  ramping,           \* the ramp scheduler is active
  issued,            \* steps it has issued in this ramp
  task,              \* what each task is doing
  lock,              \* the task that holds opMutex_
  startVolume,       \* rampStartVolume_
  finished,          \* the last ramp issued all its steps
  missed             \* a request the volume depends on failed in this ramp,
                     \* or found the TV off

tv        == <<power, volume>>
settings  == <<total, typical>>
scheduler == <<ramping, issued, finished>>
vars == <<tv, settings, scheduler, task, lock, startVolume, missed>>

Unread == -1         \* the start volume could not be read
Idle == [op |-> "none", at |-> "idle", step |-> 0, total |-> 0, presses |-> 0]

Init ==
  /\ power \in {"on", "off"} /\ volume \in 0 .. MaxVolume
  /\ total \in Totals /\ typical \in Typicals
  /\ ramping = FALSE /\ issued = 0 /\ finished = FALSE
  /\ task = [t \in Tasks |-> Idle]
  /\ lock = Free
  /\ startVolume = Unread
  /\ missed = FALSE

Steps == {t \in Tasks : task[t].op = "step"}

\* A request to a TV that is off, or over a bad network, may go either way.
Answers == IF Flaky \/ power = "off" THEN BOOLEAN ELSE {TRUE}

\* parseSamsungVolume: -1 without a number in the answer, or without an answer.
ReadVolumes == {IF ok THEN volume ELSE Unread : ok \in Answers}

\* parseSamsungPower: what the TV tells, or that it does not.
PowerStates == {IF ok THEN power ELSE "unknown" : ok \in Answers}

-----------------------------------------------------------------------------
(* The sleep sequence, seen from here.                                     *)

\* An idle timeout and an interval go by before a ramp's first step, so the
\* tasks of the last ramp are through.
BeginRamp ==
  /\ ~ramping /\ Steps = {}
  /\ ramping' = TRUE /\ issued' = 0 /\ finished' = FALSE /\ missed' = FALSE
  /\ UNCHANGED <<tv, settings, task, lock, startVolume>>

CancelRamp ==
  /\ ramping /\ ramping' = FALSE
  /\ UNCHANGED <<tv, settings, issued, finished, task, lock, startVolume, missed>>

\* Steps are a minute or more apart: only a step that presses a key over and
\* over, each press a TLS handshake, can still be under way at the next.
InTime == Steps = {} \/ \E t \in Steps : task[t].at = "press"

IssueStep(t) ==
  /\ ramping /\ task[t] = Idle /\ InTime
  /\ task' = [task EXCEPT ![t] = [@ EXCEPT !.op = "step", !.at = "new",
                                           !.step = issued + 1]]
  /\ issued' = issued + 1
  /\ ramping' = (issued' < total) /\ finished' = ~ramping'
  /\ UNCHANGED <<tv, settings, lock, startVolume, missed>>

\* The end of the sequence, or POST /api/tv/power-off.
IssuePowerOff(t) ==
  /\ task[t] = Idle
  /\ task' = [task EXCEPT ![t] = [@ EXCEPT !.op = "off", !.at = "new"]]
  /\ UNCHANGED <<tv, settings, scheduler, lock, startVolume, missed>>

-----------------------------------------------------------------------------
(* A task.                                                                 *)

At(t, label) == task[t].at = label
GoTo(t, label) == task' = [task EXCEPT ![t].at = label]

\* The operation returns, and opMutex_ with it.
Return(t) == task' = [task EXCEPT ![t] = Idle] /\ lock' = Free

\* samsungVolumeDownTask reads the settings before it calls rampStep.
Enter(t) ==
  /\ At(t, "new")
  /\ task' = [task EXCEPT ![t] = [@ EXCEPT !.at = "wait", !.total = total]]
  /\ UNCHANGED <<tv, settings, scheduler, lock, startVolume, missed>>

\* Mutant: operations are not serialized.
AcquireUnlocked(t) ==
  /\ At(t, "wait")
  /\ lock' = t
  /\ GoTo(t, IF task[t].op = "step" THEN "step" ELSE "query")
  /\ UNCHANGED <<tv, settings, scheduler, startVolume, missed>>

\* Mutant: an operation gives up when another one is in flight.
AcquireOrGiveUp(t) ==
  /\ At(t, "wait")
  /\ IF lock = Free
       THEN lock' = t /\ GoTo(t, IF task[t].op = "step" THEN "step" ELSE "query")
       ELSE task' = [task EXCEPT ![t] = Idle] /\ UNCHANGED lock
  /\ UNCHANGED <<tv, settings, scheduler, startVolume, missed>>

Acquire(t) ==
  /\ At(t, "wait") /\ lock = Free
  /\ lock' = t
  /\ GoTo(t, IF task[t].op = "step" THEN "step" ELSE "query")
  /\ UNCHANGED <<tv, settings, scheduler, startVolume, missed>>

\* Mutant: the presses of a step are the quotient, the remainder is lost.
PressesRounded(step, of) ==
  typical \div of + (IF step = of THEN ExtraPresses ELSE 0)

\* The presses of a step: the total is spread evenly, with a margin at the end.
Presses(step, of) ==
  ((typical * step) \div of) - ((typical * (step - 1)) \div of)
    + (IF step = of THEN ExtraPresses ELSE 0)

\* Without steps to spread the volume over there is nothing to do.
SkipStep(t) ==
  /\ At(t, "step") /\ task[t].total = 0
  /\ Return(t)
  /\ UNCHANGED <<tv, settings, scheduler, startVolume, missed>>

\* Mutant: the step number is not limited to the total.
BeginStepUnclamped(t) ==
  /\ At(t, "step") /\ task[t].total > 0
  /\ IF task[t].step <= 1
       THEN startVolume' \in ReadVolumes
       ELSE UNCHANGED startVolume
  /\ task' = [task EXCEPT ![t].at = IF startVolume' = Unread THEN "press" ELSE "set",
                          ![t].presses = Presses(task[t].step, task[t].total)]
  /\ UNCHANGED <<tv, settings, scheduler, lock, missed>>

\* Mutant: the volume is read only once.
BeginStepStale(t) ==
  /\ At(t, "step") /\ task[t].total > 0
  /\ LET of == task[t].total
         n  == IF task[t].step > of THEN of ELSE task[t].step
     IN  /\ IF task[t].step <= 1 /\ startVolume = Unread
              THEN startVolume' \in ReadVolumes
              ELSE UNCHANGED startVolume
         /\ task' = [task EXCEPT ![t] =
              [@ EXCEPT !.at = IF startVolume' = Unread THEN "press" ELSE "set",
                        !.step = n, !.presses = Presses(n, of)]]
  /\ UNCHANGED <<tv, settings, scheduler, lock, missed>>

\* rampStep: read the volume on the first step, limit the step number, and
\* choose between setting the volume and pressing the key.
BeginStep(t) ==
  /\ At(t, "step") /\ task[t].total > 0
  /\ LET of == task[t].total
         n  == IF task[t].step > of THEN of ELSE task[t].step
     IN  /\ IF task[t].step <= 1
              THEN startVolume' \in ReadVolumes
              ELSE UNCHANGED startVolume
         /\ task' = [task EXCEPT ![t] =
              [@ EXCEPT !.at = IF startVolume' = Unread THEN "press" ELSE "set",
                        !.step = n, !.presses = Presses(n, of)]]
  /\ UNCHANGED <<tv, settings, scheduler, lock, missed>>

\* A request that times out may yet have reached the TV.
SetVolume(t) ==
  /\ At(t, "set")
  /\ LET target == (startVolume * (task[t].total - task[t].step)) \div task[t].total
     IN  \E ok \in Answers :
           /\ \/ volume' = IF power = "on" THEN target ELSE volume
              \/ ~ok /\ UNCHANGED volume
           /\ missed' = (~ok \/ power = "off")
  /\ Return(t)
  /\ UNCHANGED <<power, settings, scheduler, startVolume>>

\* Mutant: a failed press leaves the operation open.
PressKeepLock(t) ==
  /\ At(t, "press") /\ task[t].presses > 0
  /\ \E ok, sent \in Answers :
       IF ok
         THEN /\ volume' = IF sent /\ power = "on" /\ volume > 0 THEN volume - 1 ELSE volume
              /\ missed' = (missed \/ ~sent \/ power = "off")
              /\ task' = [task EXCEPT ![t].presses = @ - 1]
              /\ UNCHANGED lock
         ELSE /\ missed' = TRUE
              /\ task' = [task EXCEPT ![t] = Idle]
              /\ UNCHANGED <<lock, volume>>
  /\ UNCHANGED <<power, settings, scheduler, startVolume>>

\* pressVolumeDown: KEY_VOLDOWN again and again, until one fails.  The transport
\* reports success once the TV has accepted it, whether or not the key was sent.
Press(t) ==
  /\ At(t, "press") /\ task[t].presses > 0
  /\ \E ok, sent \in Answers :
       IF ok
         THEN /\ volume' = IF sent /\ power = "on" /\ volume > 0 THEN volume - 1 ELSE volume
              /\ missed' = (missed \/ ~sent \/ power = "off")
              /\ task' = [task EXCEPT ![t].presses = @ - 1]
              /\ UNCHANGED lock
         ELSE /\ missed' = TRUE
              /\ Return(t)
              /\ UNCHANGED volume
  /\ UNCHANGED <<power, settings, scheduler, startVolume>>

Pressed(t) ==
  /\ At(t, "press") /\ task[t].presses = 0
  /\ Return(t)
  /\ UNCHANGED <<tv, settings, scheduler, startVolume, missed>>

\* powerOff: KEY_POWER toggles, so ask for PowerState first.
Query(t) ==
  /\ At(t, "query")
  /\ \E told \in PowerStates :
       IF told = "on" THEN GoTo(t, "key") /\ UNCHANGED lock ELSE Return(t)
  /\ UNCHANGED <<tv, settings, scheduler, startVolume, missed>>

Key(t) ==
  /\ At(t, "key")
  /\ \E sent \in Answers :
       power' = CASE ~sent -> power
                  [] sent /\ power = "on" -> "off"
                  [] sent /\ power = "off" -> "on"
  /\ Return(t)
  /\ UNCHANGED <<volume, settings, scheduler, startVolume, missed>>

TaskStep(t) == \/ Enter(t) \/ SkipStep(t) \/ BeginStep(t) \/ SetVolume(t)
               \/ Press(t) \/ Pressed(t) \/ Query(t) \/ Key(t)

-----------------------------------------------------------------------------
(* The viewer, and the settings page.                                      *)

RemoteVolume ==
  /\ "volume" \in Disturbances /\ power = "on"
  /\ volume' \in 0 .. MaxVolume
  /\ UNCHANGED <<power, settings, scheduler, task, lock, startVolume, missed>>

RemotePower(p) ==
  /\ p \in Disturbances /\ power # p
  /\ power' = p
  /\ UNCHANGED <<volume, settings, scheduler, task, lock, startVolume, missed>>

ChangeSettings ==
  /\ "settings" \in Disturbances
  /\ total' \in Totals /\ typical' \in Typicals
  /\ UNCHANGED <<tv, scheduler, task, lock, startVolume, missed>>

Next ==
  \/ BeginRamp \/ CancelRamp
  \/ \E t \in Tasks : \/ IssueStep(t) \/ IssuePowerOff(t)
                      \/ Acquire(t) \/ TaskStep(t)
  \/ RemoteVolume \/ (\E p \in {"on", "off"} : RemotePower(p)) \/ ChangeSettings

Spec == Init /\ [][Next]_vars

\* Requests have timeouts, and a mutex wakes the task that waited longest.
FairSpec == Spec /\ \A t \in Tasks : WF_vars(TaskStep(t)) /\ SF_vars(Acquire(t))

-----------------------------------------------------------------------------
TypeOK ==
  /\ power \in {"on", "off"} /\ volume \in 0 .. MaxVolume
  /\ total \in Totals /\ typical \in Typicals
  /\ ramping \in BOOLEAN /\ issued \in Nat /\ finished \in BOOLEAN
  /\ task \in [Tasks -> [op : {"none", "step", "off"},
                         at : {"idle", "new", "wait", "step", "set", "press",
                               "query", "key"},
                         step : Nat, total : Totals \cup {0}, presses : Nat]]
  /\ lock \in Tasks \cup {Free}
  /\ startVolume \in 0 .. MaxVolume \cup {Unread}
  /\ missed \in BOOLEAN

\* A ramp that issued all its steps leaves the TV silent once its tasks are
\* through, whether it could read the volume or pressed the key, unless one of
\* the requests that mattered failed or found the TV off.
RampSilences == finished /\ Steps = {} /\ ~missed => volume = 0

\* SamsungTvController.h: a ramp step lowers the volume.  No request of a ramp raises
\* it, whatever steps wait, fail or overlap: as long as the viewer leaves it alone.
VolumeOnlyFalls == [][\A t \in Tasks : SetVolume(t) \/ Press(t) => volume' <= volume]_vars

\* KEY_POWER is a toggle, and yet no number of power-offs, from the sequence and
\* from the test button, in any order, switches the TV on (a viewer who switches
\* it off between the query and the key is another matter).
NeverTurnsOn ==
  [][\A t \in Tasks : TaskStep(t) /\ power = "off" => power' = "off"]_vars

\* A ramp step in flight does not make a power-off fail: when one returns, a
\* TV within reach is off.
PowerOffSwitchesOff ==
  [][\A t \in Tasks : task[t].op = "off" /\ task'[t] = Idle => power' = "off"]_vars

\* Every operation ends, and gives the next one its turn.
EveryOperationEnds == \A t \in Tasks : task[t] # Idle ~> task[t] = Idle
=============================================================================
