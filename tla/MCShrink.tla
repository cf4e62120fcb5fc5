---------------------------------- MODULE MCShrink ----------------------------------
(***************************************************************************)
(* Small instances of Shrink for TLC.                                      *)
(***************************************************************************)
EXTENDS Shrink

CONSTANTS t1, t2, t3, i1

ThreeTasks == {t1, t2, t3}
OneInterface == {i1}
===============================================================================
