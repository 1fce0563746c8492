-------------------------- MODULE MCThreadPerform --------------------------
(* Three performers from other threads and one of the loop's own for TLC. *)
EXTENDS ThreadPerform, TLC

CONSTANTS p1, p2, p3, own, m1, m2

MCModesOf == (p1 :> {m1}) @@ (p2 :> {m1, m2}) @@ (p3 :> {m2}) @@ (own :> {m1, m2})
MCOrder == (p1 :> 0) @@ (p2 :> 0) @@ (p3 :> 0) @@ (own :> 1)
=============================================================================
