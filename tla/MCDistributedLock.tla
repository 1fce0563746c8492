-------------------------- MODULE MCDistributedLock --------------------------
(* Small instances of DistributedLock for TLC. *)
EXTENDS DistributedLock, TLC

\* The objects are alike.
MCSymmetry == Permutations(Objects)
=============================================================================
