------------------------------ MODULE QueueCore ------------------------------
(***************************************************************************)
(* What every NSOperationQueue does under its own lock (Source/           *)
(* NSOperation.m): operations are added, wait in order of priority, hold a *)
(* slot from the moment -execute starts them until their isFinished        *)
(* notification is handled, and leave the queue.  How a started operation  *)
(* reaches a thread is left to the modules that extend this one:           *)
(* WorkerPool (GSThreadOperationQueueImpl) and HandoffPool                 *)
(* (GSDispatchOperationQueueImpl, and the main queue).                     *)
(*                                                                         *)
(* Operations are ready when they are added and keep their priority.  The  *)
(* queue's lock is recursive; a thread that holds it is in the loop of     *)
(* -execute, every other critical section is a single step.                *)
(***************************************************************************)
EXTENDS Integers, Sequences, FiniteSets, SequencesExt, Lists

CONSTANTS
    Ops,          \* the operations
    Clients,      \* threads that use the queue
    Runners,      \* threads on which operations run
    Concurrent,   \* the operations that are concurrent, each with a thread of its own
                  \* that bears its name
    Priority,     \* queuePriority of each operation
    InitialCount, \* maxThreads after -init (the default) or -_initMainQueue (1)
    Counts,       \* the counts passed to setMaxConcurrentOperationCount:
    Flags,        \* the flags passed to setSuspended:
    PoolSize,     \* maxConcurrent, the limit when the count is the default
    None

\* NSOperationQueueDefaultMaxConcurrentOperationCount
DefaultCount == -1

ASSUME CoreAssumption ==
    /\ IsFiniteSet(Ops)
    /\ Clients \cap Runners = {}
    /\ Concurrent \subseteq Ops
    /\ Concurrent \subseteq Runners
    /\ Priority \in [Ops -> Int]
    /\ InitialCount \in Nat \cup {DefaultCount}
    /\ Counts \subseteq Nat \cup {DefaultCount}
    /\ Flags \subseteq BOOLEAN
    /\ PoolSize \in Nat
    /\ None \notin Ops \cup Clients \cup Runners

Threads == Clients \cup Runners

VARIABLES
    lock,         \* the thread that holds the queue's lock, or None
    operations,   \* operations in the queue
    waiting,      \* those that have not been started, in order
    executing,    \* the count of started operations
    maxThreads, suspended,
    finished,     \* operations whose isFinished is YES
    pc,           \* what each thread is about to do
    cur           \* the operation each thread is running, or None

coreVars ==
    <<lock, operations, waiting, executing, maxThreads, suspended, finished, pc, cur>>

CoreInit ==
    /\ lock = None
    /\ operations = {}
    /\ waiting = <<>>
    /\ executing = 0
    /\ maxThreads = InitialCount
    /\ suspended = FALSE
    /\ finished = {}
    /\ cur = [t \in Threads |-> None]

\* The count -execute compares with: the default stands for the pool's size.
Limit == IF maxThreads = DefaultCount THEN PoolSize ELSE maxThreads

\* compareByQueuePriority of o with p is NSOrderedAscending, or NSOrderedDescending.
GoesBefore(o, p) == Priority[o] > Priority[p]
GoesAfter(o, p) == Priority[o] < Priority[p]

\* The for loop of -[GSArray insertionPosition:usingFunction:context:].
Search(s, o) ==
    BinarySearch(Len(s), {i \in 0..Len(s) - 1 : GoesBefore(o, s[i + 1])},
                         {i \in 0..Len(s) - 1 : GoesAfter(o, s[i + 1])})

\* A mutant: the loop that skips equal elements is missing.
InsertionIndex_NoSkip(s, o) == Search(s, o)

\* The whole method: from that index on, elements before which o does not go are
\* skipped.
InsertionIndex(s, o) ==
    LET index == Search(s, o)
    IN  CHOOSE i \in index..Len(s) :
            /\ i < Len(s) => GoesBefore(o, s[i + 1])
            /\ \A j \in index + 1..i : ~GoesBefore(o, s[j])

InsertWaiting(o) == waiting' = InsertAt(waiting, InsertionIndex(waiting, o) + 1, o)

\* -addOperation: of an operation the queue does not hold and that has not
\* finished.  It is ready, so the queue tells itself at once: the operation is
\* put among those waiting and -execute is entered.  The lock, taken at the
\* beginning, is kept until -execute returns.
AddOperation(c, o) ==
    /\ pc[c] = "idle"
    /\ lock = None
    /\ o \notin operations \cup finished
    /\ lock' = c
    /\ operations' = operations \cup {o}
    /\ InsertWaiting(o)
    /\ pc' = [pc EXCEPT ![c] = "execute"]
    /\ UNCHANGED <<executing, maxThreads, suspended, finished, cur>>

\* -setSuspended:, which ends with a call of -execute after the unlock.
SetSuspended(c, flag) ==
    /\ pc[c] = "idle"
    /\ lock = None
    /\ suspended' = flag
    /\ pc' = [pc EXCEPT ![c] = "enter"]
    /\ UNCHANGED <<lock, operations, waiting, executing, maxThreads, finished, cur>>

\* -setMaxConcurrentOperationCount:, likewise.
SetMaxConcurrentOperationCount(c, cnt) ==
    /\ pc[c] = "idle"
    /\ lock = None
    /\ maxThreads' = cnt
    /\ pc' = [pc EXCEPT ![c] = "enter"]
    /\ UNCHANGED <<lock, operations, waiting, executing, suspended, finished, cur>>

\* The beginning of -execute.
EnterExecute(t) ==
    /\ pc[t] = "enter"
    /\ lock = None
    /\ lock' = t
    /\ pc' = [pc EXCEPT ![t] = "execute"]
    /\ UNCHANGED <<operations, waiting, executing, maxThreads, suspended, finished, cur>>

\* Variant: one operation more than the limit is started.
CanStart_OneMore ==
    /\ ~suspended
    /\ Limit >= executing
    /\ waiting # <<>>

\* The condition of the loop in -execute.
CanStart ==
    /\ ~suspended
    /\ Limit > executing
    /\ waiting # <<>>

\* What the loop does first: take the first operation and count it.
TakeHead ==
    /\ waiting' = Tail(waiting)
    /\ executing' = executing + 1

\* The loop is over and the lock released; the thread goes on with next.
LeaveExecute(t, next) ==
    /\ pc[t] = "execute"
    /\ lock = t
    /\ ~CanStart
    /\ lock' = None
    /\ pc' = [pc EXCEPT ![t] = next]
    /\ UNCHANGED <<operations, waiting, executing, maxThreads, suspended, finished, cur>>

\* -[NSOperation start] has run -main (or not, if it was cancelled or raised)
\* and -_finish sets isFinished: the queue, an observer, is told.
FinishOp(t) ==
    /\ pc[t] = "run"
    /\ finished' = finished \cup {cur[t]}
    /\ pc' = [pc EXCEPT ![t] = "retire"]
    /\ UNCHANGED <<lock, operations, waiting, executing, maxThreads, suspended, cur>>

\* Variant: the slot is given back a second time when the operation leaves.
RemoveOp_Uncount(t) ==
    /\ pc[t] = "remove"
    /\ lock = None
    /\ operations' = operations \ {cur[t]}
    /\ executing' = executing - 1
    /\ cur' = [cur EXCEPT ![t] = None]
    /\ pc' = [pc EXCEPT ![t] = "enter"]
    /\ UNCHANGED <<lock, waiting, maxThreads, suspended, finished>>

\* Variant: the slot is not given back.
Retire_Kept(t) ==
    /\ pc[t] = "retire"
    /\ lock = None
    /\ pc' = [pc EXCEPT ![t] = "remove"]
    /\ UNCHANGED <<lock, operations, waiting, executing, maxThreads, suspended, finished, cur>>

\* The isFinished branch of the queue's observer method: first section ...
Retire(t) ==
    /\ pc[t] = "retire"
    /\ lock = None
    /\ executing' = executing - 1
    /\ pc' = [pc EXCEPT ![t] = "remove"]
    /\ UNCHANGED <<lock, operations, waiting, maxThreads, suspended, finished, cur>>

\* ... and second section, after which -execute is called.
RemoveOp(t) ==
    /\ pc[t] = "remove"
    /\ lock = None
    /\ operations' = operations \ {cur[t]}
    /\ cur' = [cur EXCEPT ![t] = None]
    /\ pc' = [pc EXCEPT ![t] = "enter"]
    /\ UNCHANGED <<lock, waiting, executing, maxThreads, suspended, finished>>

ClientCall(c) ==
    \/ \E o \in Ops : AddOperation(c, o)
    \/ \E flag \in Flags : SetSuspended(c, flag)
    \/ \E cnt \in Counts : SetMaxConcurrentOperationCount(c, cnt)

-----------------------------------------------------------------------------
\* Higher priorities first (the order of compareByQueuePriority).
InPriorityOrder(s) ==
    \A i, j \in DOMAIN s : i < j => Priority[s[i]] >= Priority[s[j]]

\* The operations that come before o in s and have its priority.
Before(s, o) ==
    {p \in Ops : \E i, j \in DOMAIN s :
        i < j /\ s[i] = p /\ s[j] = o /\ Priority[p] = Priority[o]}

CoreTypeOK ==
    /\ lock \in Threads \cup {None}
    /\ operations \subseteq Ops
    /\ waiting \in Seq(Ops)
    /\ executing \in Nat
    /\ maxThreads \in Counts \cup {InitialCount}
    /\ suspended \in BOOLEAN
    /\ finished \subseteq Ops
    /\ cur \in [Threads -> Ops \cup {None}]

\* The limits that can be in force.
Limits == {IF n = DefaultCount THEN PoolSize ELSE n : n \in Counts \cup {InitialCount}}

\* Threads that hold an operation's slot.
Holding(t) == pc[t] \in {"run", "retire"}

Running == {o \in Ops : \E t \in Threads : Holding(t) /\ cur[t] = o}

Waiting == ToSet(waiting)

\* Exactly the thread in the loop of -execute holds the queue's lock.
LockHeldInLoop == \A t \in Threads : pc[t] = "execute" <=> lock = t

\* The operations that wait are in order of priority.
WaitingInOrder == InPriorityOrder(waiting)

\* Every operation that was added is run and leaves the queue, unless the queue
\* is suspended in between.
EveryOperationRuns ==
    \A o \in Ops : o \in operations ~> (o \notin operations \/ suspended)
=============================================================================
