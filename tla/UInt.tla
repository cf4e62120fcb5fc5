---------------------------------- MODULE UInt ----------------------------------
(***************************************************************************)
(* The unsigned int fields of the thread pool (ThreadPools/queue.h) and of *)
(* a worker process (LikeNginx/worker.h), which wrap round.                *)
(***************************************************************************)
EXTENDS Integers

CONSTANT UIntMod   \* 2^32; a small number in a cfg

ASSUME UIntAssumption == UIntMod \in Nat \ {0}

\* Fault: counters of unbounded width.
WrapNever(n) == n

\* The value of an unsigned int field after n is stored in it.  Every n here
\* is within one modulus of the range, so this is n % UIntMod.
Wrap(n) == IF n < 0 THEN n + UIntMod
           ELSE IF n >= UIntMod THEN n - UIntMod
           ELSE n

\* The conversion of an unsigned int to int.
AsInt(u) == IF 2 * u < UIntMod THEN u ELSE u - UIntMod
===============================================================================
