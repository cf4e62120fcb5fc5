------------------------------ MODULE MCManager ------------------------------
(***************************************************************************)
(* Small instances of Manager for TLC.                                     *)
(***************************************************************************)
EXTENDS Manager, TLC

CONSTANTS t1, t2, t3, t4, i1, i2

ThreeTasks == {t1, t2, t3}
FourTasks  == {t1, t2, t3, t4}
OneInterface  == {i1}
TwoInterfaces == {i1, i2}

\* Task nodes are pointers the pool never looks into.
TaskSymmetry == Permutations(Tasks)
===============================================================================
