--------------------------- MODULE BoundedExecutor ---------------------------
(***************************************************************************)
(* What an operation queue promises of the operations given to it,         *)
(* whatever runs them.  An operation goes through its phases once and in   *)
(* order; one is started only while the queue is not suspended and fewer   *)
(* operations than the limit hold a slot, and never before one of a higher *)
(* priority that waits.  The slot is kept until after the operation has    *)
(* finished.  (Headers/Foundation/NSOperation.h, and -execute in           *)
(* Source/NSOperation.m.)                                                  *)
(***************************************************************************)
EXTENDS Integers, FiniteSets

CONSTANTS
    Ops, Priority,
    Limits        \* the limits that can be set

VARIABLES
    phase,        \* of each operation
    limit, suspended

bvars == <<phase, limit, suspended>>

Phases == {"new", "waiting", "started", "running", "finished", "released"}

BoundedInit ==
    /\ phase = [o \in Ops |-> "new"]
    /\ limit \in Limits
    /\ suspended = FALSE

\* The operations that hold a slot.
Slots == {o \in Ops : phase[o] \in {"started", "running", "finished"}}

Move(o, from, to) ==
    /\ phase[o] = from
    /\ phase' = [phase EXCEPT ![o] = to]
    /\ UNCHANGED <<limit, suspended>>

Submit(o) == Move(o, "new", "waiting")

\* The operation is started: it runs at once or when a thread takes it.
Start(o) ==
    /\ ~suspended
    /\ Cardinality(Slots) < limit
    /\ \A p \in Ops : phase[p] = "waiting" => Priority[p] <= Priority[o]
    /\ Move(o, "waiting", "started") \/ Move(o, "waiting", "running")

Run(o) == Move(o, "started", "running")

Finish(o) == Move(o, "running", "finished")

Release(o) == Move(o, "finished", "released")

Suspend ==
    /\ suspended' \in BOOLEAN
    /\ UNCHANGED <<phase, limit>>

SetLimit ==
    /\ limit' \in Limits
    /\ UNCHANGED <<phase, suspended>>

BoundedNext ==
    \/ \E o \in Ops :
           Submit(o) \/ Start(o) \/ Run(o) \/ Finish(o) \/ Release(o)
    \/ Suspend
    \/ SetLimit

BoundedSpec == BoundedInit /\ [][BoundedNext]_bvars
=============================================================================
