---------------------------- MODULE SleepSequence ----------------------------
(***************************************************************************)
(* What the sleep sequence promises, without clocks, timeouts or the ramp  *)
(* scheduler: the state diagram at the top of SleepStateMachine.h, with    *)
(* the volume-down commands that the ramp sends on the way to power-off.   *)
(*                                                                         *)
(* `steps` counts the volume-down commands of the sequence under way and   *)
(* `command` is what the last step sent to the TV.                         *)
(***************************************************************************)
EXTENDS Naturals

CONSTANT StepMod     \* one more than the largest number of steps in a ramp

VARIABLES
  phase,             \* where the sequence is
  steps,             \* volume-down commands sent since the sequence began
  command            \* the command of the last step

vars == <<phase, steps, command>>

Phases   == {"MONITORING", "RAMPING", "VERIFYING"}
Commands == {"none", "volume_down", "power_off"}

Init == phase = "MONITORING" /\ steps = 0 /\ command = "none"

\* MONITORING -- (inactivity timeout) --> RAMPING
Begin == /\ phase = "MONITORING"
         /\ phase' = "RAMPING"
         /\ steps' = 0
         /\ command' = "none"

\* One volume-down command; the last one hands over to VERIFYING.
Step == /\ phase = "RAMPING"
        /\ steps + 1 < StepMod
        /\ steps' = steps + 1
        /\ phase' \in {"RAMPING", "VERIFYING"}
        /\ command' = "volume_down"

\* VERIFYING -- (TV on or unknown) --> power-off --> MONITORING.
\* Only a sequence that sent its volume steps ends in a power-off.
PowerOff == /\ phase = "VERIFYING"
            /\ steps > 0
            /\ phase' = "MONITORING"
            /\ steps' = 0
            /\ command' = "power_off"

\* Activity in any phase, or a TV found off: back to MONITORING, nothing sent.
GiveUp == /\ phase' = "MONITORING"
          /\ steps' = 0
          /\ command' = "none"

\* A step that sends nothing and leaves the sequence where it is.
Quiet == /\ command' = "none"
         /\ UNCHANGED <<phase, steps>>

Next == Begin \/ Step \/ PowerOff \/ GiveUp \/ Quiet

Spec == Init /\ [][Next]_vars
=============================================================================
