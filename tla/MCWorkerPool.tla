---------------------------- MODULE MCWorkerPool ----------------------------
(* Small instances of WorkerPool for TLC. *)
EXTENDS WorkerPool

CONSTANTS o1, o2, o3, o4, w1, w2

\* o1 is urgent; o2 and o3 are equal; o4 is concurrent.
MCPriority == [o \in Ops |-> IF o = o1 THEN 4 ELSE 0]

\* The default count and counts on both sides of the pool's size.
MCCounts == {DefaultCount, 0, 1}

\* Workers are alike, and so are clients.
MCSymmetry == Permutations({w1, w2}) \cup Permutations(Clients)
=============================================================================
