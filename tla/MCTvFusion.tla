----------------------------- MODULE MCTvFusion -----------------------------
(***************************************************************************)
(* TvFusion with the default weights of main.cpp: samsung_tv 5, ping 3,    *)
(* and a third sensor that reports presence or is added while running.     *)
(***************************************************************************)
EXTENDS TvFusion

TwoSensors   == {1, 2}
ThreeSensors == {1, 2, 3}
Weights      == [s \in Sensors |-> CASE s = 1 -> 3 [] s = 2 -> 5 [] OTHER -> 2]
=============================================================================
