--------------------------- MODULE MCSamsungControl ---------------------------
(* SamsungControl with interchangeable tasks. *)
EXTENDS SamsungControl, TLC

CONSTANTS t1, t2, t3

TwoTasks   == {t1, t2}
ThreeTasks == {t1, t2, t3}
Symmetric  == Permutations(Tasks)
=============================================================================
