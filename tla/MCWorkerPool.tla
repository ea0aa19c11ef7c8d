---------------------------- MODULE MCWorkerPool ----------------------------
(* The worker pool on small instances.                                     *)
EXTENDS WorkerPool

CONSTANTS r1, r2, r3

\* Two runs of two elements each: the first run starts a set, the second finds
\* it, finds it dead, or finds none.
TwoEach == [r \in Runs |-> 2]

\* Three runs: two elements, one, and none.
TwoOneNone == [r \in Runs |-> CASE r = r1 -> 2 [] r = r2 -> 1 [] OTHER -> 0]
=============================================================================
