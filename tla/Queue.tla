--------------------------------- MODULE Queue ---------------------------------
(***************************************************************************)
(* What ThreadPools/queue.h shares between the two pools: the task nodes,  *)
(* known by address only, and the unsigned int fields of both structures.  *)
(***************************************************************************)
EXTENDS UInt

CONSTANTS Tasks,    \* the task nodes the interface threads hand in
          NoTask    \* the NULL task pointer

ASSUME QueueAssumption == NoTask \notin Tasks
===============================================================================
