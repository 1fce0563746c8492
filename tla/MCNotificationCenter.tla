------------------------ MODULE MCNotificationCenter -------------------------
(* A small instance of NotificationCenter for TLC. *)
EXTENDS NotificationCenter, TLC

CONSTANTS n1, n2, o1

\* Two names in stripes of their own.
MCStripeOf == [n \in Names |-> IF n = n1 THEN 1 ELSE 2]

\* Observers of a name, of an object and of everything.
MCAdditions == {<<n1, Nil>>, <<Nil, o1>>}

\* Everything an observer is registered for, and all observers of a name.
MCRemovals == {NilKey, <<n1, Nil>>}

MCPosts == {<<n1, o1>>, <<n2, o1>>}

\* Threads are alike, and so are pieces of memory.
MCSymmetry == Permutations(Threads) \cup Permutations(Slots)
=============================================================================
