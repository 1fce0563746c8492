---------------------------- MODULE MCHandoffPool ----------------------------
(* Small instances of HandoffPool for TLC. *)
EXTENDS HandoffPool

CONSTANTS o1, o2, o3, e1, e2

\* o1 is urgent; the others are equal.
MCPriority == [o \in Ops |-> IF o = o1 THEN 4 ELSE 0]

\* The default count and a count below the pool's size.
MCCounts == {DefaultCount, 1}

\* The engine's threads are alike, and so are clients.
MCSymmetry == Permutations({e1, e2}) \cup Permutations(Clients)
=============================================================================
