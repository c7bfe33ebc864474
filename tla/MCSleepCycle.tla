---------------------------- MODULE MCSleepCycle ----------------------------
(***************************************************************************)
(* SleepCycle on a clock of a few ticks.  The timing is the smallest in    *)
(* which a timeout spans several iterations of loop(), the clock wraps     *)
(* within an idle period and within a ramp, and a reload can lower the     *)
(* step limit below the steps already taken, or to the zero that           *)
(* validate() refuses but a hot reload lets through.                       *)
(***************************************************************************)
EXTENDS SleepCycle

ReloadedTimeouts  == {2, 3}
ReloadedIntervals == {2, 3}
ReloadedLimits    == {0, 1, 3}
=============================================================================
