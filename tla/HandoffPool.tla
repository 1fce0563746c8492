----------------------------- MODULE HandoffPool -----------------------------
(***************************************************************************)
(* The queues that leave their operations to another engine (Source/       *)
(* NSOperation.m): GSDispatchOperationQueueImpl, which passes each one to  *)
(* dispatch_async_f, and the main queue, which passes each one to the main *)
(* thread with performSelectorOnMainThread:.  In both, -execute collects   *)
(* the operations it starts and hands them over after the unlock.          *)
(*                                                                         *)
(* The engine is external: it takes what it was handed in order, on as     *)
(* many threads as it has (one, the main thread, for the main queue).      *)
(***************************************************************************)
EXTENDS QueueCore

Engines == Runners \ Concurrent

VARIABLES
    collected,    \* operationsToStart or mainQueueOperations of each thread
    handed        \* what the engine has been handed and not begun

handoffVars == <<coreVars, collected, handed>>

HandoffInit ==
    /\ CoreInit
    /\ pc = [t \in Threads |-> IF t \in Clients THEN "idle" ELSE "none"]
    /\ collected = [t \in Threads |-> <<>>]
    /\ handed = <<>>

\* One turn of the loop of -execute.
Collect(t) ==
    /\ pc[t] = "execute"
    /\ lock = t
    /\ CanStart
    /\ TakeHead
    /\ collected' = [collected EXCEPT ![t] = Append(@, Head(waiting))]
    /\ UNCHANGED <<lock, operations, maxThreads, suspended, finished, pc, cur, handed>>

\* The loop is over; the unlocked thread has what it collected to hand over.
CollectEnds(t) ==
    /\ LeaveExecute(t, "handoff")
    /\ UNCHANGED <<collected, handed>>

HandOver(t) ==
    /\ pc[t] = "handoff"
    /\ collected[t] # <<>>
    /\ handed' = Append(handed, Head(collected[t]))
    /\ collected' = [collected EXCEPT ![t] = Tail(@)]
    /\ UNCHANGED coreVars

\* Everything is handed over: the call is over.
HandoffEnds(t) ==
    /\ pc[t] = "handoff"
    /\ collected[t] = <<>>
    /\ pc' = [pc EXCEPT ![t] = IF t \in Clients THEN "idle" ELSE "none"]
    /\ UNCHANGED <<lock, operations, waiting, executing, maxThreads, suspended,
                   finished, cur, collected, handed>>

\* Variant: an operation is begun and left in the list.
Begin_Kept(e) ==
    LET o == Head(handed)
        t == IF o \in Concurrent THEN o ELSE e
    IN  /\ pc[e] = "none"
        /\ handed # <<>>
        /\ pc' = [pc EXCEPT ![t] = "run"]
        /\ cur' = [cur EXCEPT ![t] = o]
        /\ UNCHANGED <<lock, operations, waiting, executing, maxThreads, suspended,
                       finished, collected, handed>>

\* -_main: of the next operation, on a thread of the engine.  It starts the
\* operation; one that is concurrent goes on by itself, on a thread of its own
\* that bears its name, and is not finished by -_main:.
Begin(e) ==
    LET o == Head(handed)
        t == IF o \in Concurrent THEN o ELSE e
    IN  /\ pc[e] = "none"
        /\ handed # <<>>
        /\ handed' = Tail(handed)
        /\ pc' = [pc EXCEPT ![t] = "run"]
        /\ cur' = [cur EXCEPT ![t] = o]
        /\ UNCHANGED <<lock, operations, waiting, executing, maxThreads, suspended,
                       finished, collected>>

ThreadStep(t) ==
    \/ /\ EnterExecute(t) \/ FinishOp(t) \/ Retire(t) \/ RemoveOp(t)
       /\ UNCHANGED <<collected, handed>>
    \/ Collect(t)
    \/ CollectEnds(t)
    \/ HandOver(t)
    \/ HandoffEnds(t)

HandoffNext ==
    \/ \E c \in Clients : ClientCall(c) /\ UNCHANGED <<collected, handed>>
    \/ \E t \in Threads : ThreadStep(t)
    \/ \E e \in Engines : Begin(e)

HandoffSpec == HandoffInit /\ [][HandoffNext]_handoffVars

\* Threads make progress (a mutex that is free again and again is acquired in
\* the end), operations end, and the engine runs what it is handed.
HandoffFairness ==
    /\ \A t \in Threads : SF_handoffVars(ThreadStep(t))
    /\ \A e \in Engines : WF_handoffVars(Begin(e))

HandoffFairSpec == HandoffSpec /\ HandoffFairness

-----------------------------------------------------------------------------
HandoffTypeOK ==
    /\ CoreTypeOK
    /\ pc \in [Threads -> {"idle", "enter", "execute", "handoff", "none",
                           "run", "retire", "remove"}]
    /\ collected \in [Threads -> Seq(Ops)]
    /\ handed \in Seq(Ops)

Started == ToSet(handed) \cup UNION {ToSet(collected[t]) : t \in Threads}

\* Every started operation is on its way to the engine exactly once: what
\* -execute collected under the lock is neither lost nor handed over twice
\* when several threads hand over at the same time.
OnOneWay ==
    /\ Distinct(waiting) /\ Distinct(handed)
    /\ Waiting \cap Started = {}
    /\ (Waiting \cup Started) \cap Running = {}
    /\ \A t \in Threads :
          /\ Distinct(collected[t])
          /\ ToSet(collected[t]) \cap ToSet(handed) = {}
          /\ \A u \in Threads \ {t} : ToSet(collected[t]) \cap ToSet(collected[u]) = {}

\* The count -execute compares with the limit is the number of operations that
\* were started and have not been retired, those being handed over included.
HandoffSlotsCounted == executing = Cardinality(Started \cup Running)

HandoffPhase(o) ==
    IF o \in Waiting THEN "waiting"
    ELSE IF o \in Started THEN "started"
    ELSE IF \E t \in Threads : pc[t] = "run" /\ cur[t] = o THEN "running"
    ELSE IF \E t \in Threads : pc[t] = "retire" /\ cur[t] = o THEN "finished"
    ELSE IF o \in finished THEN "released"
    ELSE "new"

HandoffBE == INSTANCE BoundedExecutor
        WITH phase <- [o \in Ops |-> HandoffPhase(o)], limit <- Limit

\* A queue that hands its operations over is a bounded executor too.
HandoffImplements == HandoffBE!BoundedSpec
=============================================================================
