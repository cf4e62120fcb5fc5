-------------------------------- MODULE MCDatapipe --------------------------------
(***************************************************************************)
(* Small instances of Datapipe for TLC.                                    *)
(***************************************************************************)
EXTENDS Datapipe
===============================================================================
