-------------------------------- MODULE Processes --------------------------------
(***************************************************************************)
(* The worker processes of LikeNginx, known by their process ids.          *)
(***************************************************************************)
EXTENDS FiniteSets

CONSTANT Workers

ASSUME ProcessesAssumption == IsFiniteSet(Workers)
===============================================================================
