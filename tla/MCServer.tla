-------------------------------- MODULE MCServer --------------------------------
(***************************************************************************)
(* Small instances of Server for TLC.                                      *)
(***************************************************************************)
EXTENDS Server, TLC

CONSTANTS p1, p2

TwoWorkers == {p1, p2}

WorkerSymmetry == Permutations(Workers)

\* ZombiesReaped and Served for one of the workers, which the specification treats
\* alike: SYMMETRY is not for liveness, and one formula costs TLC half of two.
Worker1Reaped == Reaped(p1)

\* A waiting connection is accepted while this worker lives (see Served).
Worker1Serves == ServedWith(p1)
===============================================================================
