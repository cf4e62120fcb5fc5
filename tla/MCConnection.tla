------------------------------ MODULE MCConnection ------------------------------
(***************************************************************************)
(* Small instances of Connection for TLC.  Descriptors 15 and 16 are the   *)
(* last within the table as it is allocated first and the first beyond it. *)
(***************************************************************************)
EXTENDS Connection

OneFd  == {15}
TwoFds == {15, 16}
ShortResponse   == {1}
AnyResponse     == {1, 2}
===============================================================================
