----------------------------- MODULE WorkerPool -----------------------------
(***************************************************************************)
(* GSThreadOperationQueueImpl (Source/NSOperation.m): started operations   *)
(* are put in _starting, a list under the condition lock _cond, and taken  *)
(* from it by worker threads.  -execute detaches a new worker while there  *)
(* are fewer than the limit; a worker that finds nothing to do for five    *)
(* seconds ends.                                                           *)
(*                                                                         *)
(* A critical section of _cond is one step: its owner waits for nothing    *)
(* else.  An operation whose isConcurrent is YES is started by -execute    *)
(* itself and finishes on a thread of its own, which bears its name here.  *)
(***************************************************************************)
EXTENDS QueueCore

CONSTANT
    DetachCanFail    \* whether creating a thread can fail

Workers == Runners \ Concurrent

ASSUME PoolAssumption ==
    /\ IsFiniteSet(Runners)
    /\ DetachCanFail \in BOOLEAN

VARIABLES
    starting,        \* _starting
    cond,            \* the condition of _cond
    threadCount      \* _threadCount

vars == <<coreVars, starting, cond, threadCount>>

Init ==
    /\ CoreInit
    /\ pc = [t \in Threads |-> IF t \in Clients THEN "idle" ELSE "none"]
    /\ starting = <<>>
    /\ cond = "Idle"
    /\ threadCount = 0

\* A thread's place in -execute.
InLoop(t) == pc[t] = "execute" /\ lock = t /\ CanStart

\* [op start] of a concurrent operation, called in the loop of -execute.
StartConcurrent(t) ==
    /\ InLoop(t)
    /\ Head(waiting) \in Concurrent
    /\ TakeHead
    /\ pc' = [pc EXCEPT ![Head(waiting)] = "run"]
    /\ cur' = [cur EXCEPT ![Head(waiting)] = Head(waiting)]
    /\ UNCHANGED <<lock, operations, maxThreads, suspended, finished,
                   starting, cond, threadCount>>

\* An ordinary operation is put in _starting and _cond says there is work.
Hand(t) ==
    /\ InLoop(t)
    /\ Head(waiting) \notin Concurrent
    /\ TakeHead
    /\ starting' = Append(starting, Head(waiting))
    /\ cond' = "HasWork"
    /\ UNCHANGED <<lock, operations, maxThreads, suspended, finished, cur>>

\* There are fewer workers than the limit: one more is created,
HandToNewThread(t, w) ==
    /\ Hand(t)
    /\ threadCount < Limit
    /\ pc[w] = "none"
    /\ threadCount' = threadCount + 1
    /\ pc' = [pc EXCEPT ![w] = "name"]

\* Variant: the failure leaves the thread counted.
HandDetachFails_Counted(t) ==
    /\ DetachCanFail
    /\ Hand(t)
    /\ threadCount < Limit
    /\ threadCount' = threadCount + 1
    /\ UNCHANGED pc

\* or cannot be created, which is logged and otherwise ignored.
HandDetachFails(t) ==
    /\ DetachCanFail
    /\ Hand(t)
    /\ threadCount < Limit
    /\ UNCHANGED <<threadCount, pc>>

\* The pool has as many workers as it may have.
HandToPool(t) ==
    /\ Hand(t)
    /\ threadCount >= Limit
    /\ UNCHANGED <<threadCount, pc>>

\* The loop of -execute is over.  A client is back from its call; a worker
\* looks for more work; a concurrent operation's thread has nothing left.
ExecuteEnds(t) ==
    /\ LeaveExecute(t, IF t \in Clients THEN "idle"
                       ELSE IF t \in Workers THEN "poll" ELSE "none")
    /\ UNCHANGED <<starting, cond, threadCount>>

\* A new worker reads the queue's name under the queue's lock.
NameThread(w) ==
    /\ w \in Workers
    /\ pc[w] = "name"
    /\ lock = None
    /\ pc' = [pc EXCEPT ![w] = "poll"]
    /\ UNCHANGED <<lock, operations, waiting, executing, maxThreads, suspended,
                   finished, cur, starting, cond, threadCount>>

\* Variant: the operation is run but not taken off the list.
TakeFirst_Kept(w) ==
    /\ cur' = [cur EXCEPT ![w] = Head(starting)]
    /\ UNCHANGED starting
    /\ cond' = IF Len(starting) > 1 THEN "HasWork" ELSE "Idle"
    /\ pc' = [pc EXCEPT ![w] = "run"]
    /\ UNCHANGED <<lock, operations, waiting, executing, maxThreads, suspended,
                   finished, threadCount>>

\* Variant: the condition is reset although operations are left.
TakeFirst_Idle(w) ==
    /\ cur' = [cur EXCEPT ![w] = Head(starting)]
    /\ starting' = Tail(starting)
    /\ cond' = "Idle"
    /\ pc' = [pc EXCEPT ![w] = "run"]
    /\ UNCHANGED <<lock, operations, waiting, executing, maxThreads, suspended,
                   finished, threadCount>>

\* A worker that holds _cond takes the first operation, sets the condition for
\* the others and starts the operation.
TakeFirst(w) ==
    /\ cur' = [cur EXCEPT ![w] = Head(starting)]
    /\ starting' = Tail(starting)
    /\ cond' = IF Len(starting) > 1 THEN "HasWork" ELSE "Idle"
    /\ pc' = [pc EXCEPT ![w] = "run"]
    /\ UNCHANGED <<lock, operations, waiting, executing, maxThreads, suspended,
                   finished, threadCount>>

\* lockWhenCondition:beforeDate: succeeds.  (With nothing in the list the code
\* would leave the condition Idle and go round; WorkSignalled says that this
\* does not happen.)
TakeWork(w) ==
    /\ pc[w] = "poll"
    /\ cond = "HasWork"
    /\ starting # <<>>
    /\ TakeFirst(w)

\* lockWhenCondition:beforeDate: fails.  It does not look at the condition
\* again after its timeout, so this can happen while there is work.
TimeOut(w) ==
    /\ pc[w] = "poll"
    /\ pc' = [pc EXCEPT ![w] = "recheck"]
    /\ UNCHANGED <<lock, operations, waiting, executing, maxThreads, suspended,
                   finished, cur, starting, cond, threadCount>>

\* After the timeout the list is looked at again, under _cond.
TakeLateWork(w) ==
    /\ pc[w] = "recheck"
    /\ starting # <<>>
    /\ TakeFirst(w)

GiveUp(w) ==
    /\ pc[w] = "recheck"
    /\ starting = <<>>
    /\ pc' = [pc EXCEPT ![w] = "leave"]
    /\ UNCHANGED <<lock, operations, waiting, executing, maxThreads, suspended,
                   finished, cur, starting, cond, threadCount>>

\* The worker is no longer counted, and ends.
EndThread(w) ==
    /\ pc[w] = "leave"
    /\ lock = None
    /\ threadCount' = threadCount - 1
    /\ pc' = [pc EXCEPT ![w] = "none"]
    /\ UNCHANGED <<lock, operations, waiting, executing, maxThreads, suspended,
                   finished, cur, starting, cond>>

\* What a thread does in -execute.
StartNext(t) ==
    \/ StartConcurrent(t)
    \/ \E w \in Workers : HandToNewThread(t, w)
    \/ HandDetachFails(t)
    \/ HandToPool(t)

\* What a thread does to an operation it has run.
AfterRun(t) ==
    /\ Retire(t) \/ RemoveOp(t)
    /\ UNCHANGED <<starting, cond, threadCount>>

\* Steps of -execute and of the observer method.
QueueStep(t) ==
    \/ EnterExecute(t) /\ UNCHANGED <<starting, cond, threadCount>>
    \/ StartNext(t)
    \/ ExecuteEnds(t)
    \/ FinishOp(t) /\ UNCHANGED <<starting, cond, threadCount>>
    \/ AfterRun(t)

GetWork(w) == TakeWork(w) \/ TakeLateWork(w)

Next ==
    \/ \E c \in Clients :
           ClientCall(c) /\ UNCHANGED <<starting, cond, threadCount>>
    \/ \E t \in Threads : QueueStep(t)
    \/ \E w \in Workers :
           NameThread(w) \/ GetWork(w) \/ TimeOut(w) \/ GiveUp(w) \/ EndThread(w)

Spec == Init /\ [][Next]_vars

\* Threads make progress: a mutex that is free again and again is acquired in
\* the end, operations end, and a worker that can have work gets it.  Clients
\* need not call, and timeouts need not occur.
Fairness ==
    /\ \A t \in Threads : SF_vars(QueueStep(t))
    /\ \A w \in Workers :
          SF_vars(NameThread(w)) /\ SF_vars(EndThread(w)) /\ WF_vars(GetWork(w))

FairSpec == Spec /\ Fairness

-----------------------------------------------------------------------------
TypeOK ==
    /\ CoreTypeOK
    /\ pc \in [Threads -> {"idle", "enter", "execute", "none", "name", "poll",
                           "recheck", "leave", "run", "retire", "remove"}]
    /\ starting \in Seq(Ops)
    /\ cond \in {"Idle", "HasWork"}
    /\ threadCount \in Nat

Starting == ToSet(starting)

\* An operation in the queue waits, or has been started and not yet taken by
\* a worker, or is run by one thread: it is never in two of these places, and
\* in none of them again once its slot is given back.
OnePlace ==
    /\ Distinct(waiting) /\ Distinct(starting)
    /\ Waiting \cap Starting = {}
    /\ (Waiting \cup Starting) \cap Running = {}
    /\ Waiting \cup Starting \cup Running \subseteq operations
    /\ (Waiting \cup Starting) \cap finished = {}
    /\ \A t, u \in Threads : cur[t] = cur[u] /\ cur[t] # None => t = u

\* The count -execute compares with the limit is the number of operations that
\* were started and have not been retired (NSOperation.m:1266 and 1500).
SlotsCounted == executing = Cardinality(Starting \cup Running)

\* _cond says HasWork exactly when there is something in the list, so no
\* worker sleeps beside work and none is woken for nothing (the two
\* unlockWithCondition: of -_thread: and the one of -execute).
WorkSignalled == (cond = "HasWork") <=> (starting # <<>>)

LiveWorkers == {w \in Workers : pc[w] # "none"}

\* _threadCount is the number of workers that exist, and a failed detach, a
\* timeout or a lowered limit never lets the pool outgrow the largest limit.
ThreadsCounted ==
    /\ threadCount = Cardinality(LiveWorkers)
    /\ \E n \in Limits : threadCount <= n

\* Operations of the same priority are served first come, first served: an
\* operation that is added goes behind all those of its priority, and those
\* that wait never change places (GSArray.m:1107, NSOperation.m:1296).  That the
\* first of them is the one that is started is part of ImplementsBoundedExecutor.
FirstComeFirstServed ==
    [][\A o \in ToSet(waiting') :
          Before(waiting', o) =
              IF o \in Waiting THEN Before(waiting, o) \cap ToSet(waiting')
              ELSE {p \in Waiting : Priority[p] = Priority[o]}]_vars

-----------------------------------------------------------------------------
\* The refinement: where each operation is in its life.
Phase(o) ==
    IF o \in Waiting THEN "waiting"
    ELSE IF o \in Starting THEN "started"
    ELSE IF \E t \in Threads : pc[t] = "run" /\ cur[t] = o THEN "running"
    ELSE IF \E t \in Threads : pc[t] = "retire" /\ cur[t] = o THEN "finished"
    ELSE IF o \in finished THEN "released"
    ELSE "new"

BE == INSTANCE BoundedExecutor
        WITH phase <- [o \in Ops |-> Phase(o)], limit <- Limit

\* The pool is a bounded executor: no interleaving of calls, workers, timeouts
\* and failures starts an operation twice, beyond the limit, out of order or
\* while the queue is suspended.
ImplementsBoundedExecutor == BE!BoundedSpec
=============================================================================
