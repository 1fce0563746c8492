----------------------------- MODULE Operation ------------------------------
(***************************************************************************)
(* NSOperation (Source/NSOperation.m): operations depend on each other.    *)
(* An operation is ready when every dependency has finished or when it is  *)
(* cancelled.  It learns that a dependency finished by observing its       *)
(* isFinished key.  Each operation has a recursive lock; a thread that     *)
(* finishes an operation holds that operation's lock while it tells the    *)
(* observers, each of which takes its own.  The queue is an observer too:  *)
(* of isReady until the operation is ready, then of isFinished.            *)
(*                                                                         *)
(* A change of isReady has three steps (-willChangeValueForKey:, the       *)
(* assignment with -didChangeValueForKey:, and the delivery), between      *)
(* which a client may be adding the operation to the queue under the       *)
(* queue's lock.  Who is told that an operation is ready takes it off an   *)
(* observation that may be gone; the exception this raises passes through  *)
(* methods that hold locks and do not give them back.                      *)
(*                                                                         *)
(* Otherwise the queue is reduced to sets, and has a slot for every        *)
(* operation that is ready (QueueCore has the slots and the order).  The   *)
(* flags isFinished, isCancelled and isExecuting of one operation are read *)
(* without its lock.                                                       *)
(***************************************************************************)
EXTENDS Naturals, Sequences, FiniteSets, SequencesExt, Lists

CONSTANTS
    Ops,
    Clients,      \* threads that set up, cancel and wait for operations
    Runners,      \* threads of a queue
    Edges,        \* pairs <<o, d>>: o may be given the dependency d
    LateAddition, \* whether one is given to or taken from an operation in a queue
    AddWhileRunning, \* whether an operation is added while a dependency is run
    Cancellable,  \* operations that a client may cancel
    WaitedFor,    \* operations that a client may wait for
    Queue,        \* the queue, as an observer and as the owner of a lock
    None

ASSUME OperationAssumption ==
    /\ Clients \cap Runners = {}
    /\ Edges \subseteq {e \in Ops \X Ops : e[1] # e[2]}
    /\ LateAddition \in BOOLEAN
    /\ AddWhileRunning \in BOOLEAN
    /\ Cancellable \subseteq Ops
    /\ WaitedFor \subseteq Ops
    /\ Queue \notin Ops
    /\ None \notin Ops \cup {Queue} \cup Clients \cup Runners

Threads == Clients \cup Runners

\* Who observes an operation, and who has a lock.
Objects == Ops \cup {Queue}

VARIABLES
    lock,         \* the thread that holds each object's lock, or None
    kept,         \* objects whose lock an exception left locked
    dependencies,
    ready, cancelled, executing, finished, \* operations whose flag is YES
    observers,    \* who observes isFinished of each operation, in order
    changing,     \* those among them a -willChangeValueForKey: has noted
    released,     \* operations whose cond says Finished
    queued,       \* operations that were added to a queue
    awaited,      \* those of them whose isReady the queue observes
    waiting,      \* those that were ready and have not been taken
    noted,        \* threads whose change of isReady the queue is to be told of
    pc, cur,
    dep,          \* the dependency a client adds
    todo,         \* the observers a thread has yet to tell
    ran           \* operations whose -main was entered

flags == <<ready, cancelled, executing, finished>>
queue == <<queued, awaited, waiting>>
locks == <<lock, kept>>
vars == <<locks, dependencies, flags, observers, changing, released, queue, noted, pc,
          cur, dep, todo, ran>>

Init ==
    /\ lock = [x \in Objects |-> None]
    /\ kept = {}
    /\ dependencies = [o \in Ops |-> {}]
    /\ ready = Ops
    /\ cancelled = {}
    /\ executing = {}
    /\ finished = {}
    /\ observers = [o \in Ops |-> <<o>>]  \* each observes itself
    /\ changing = [o \in Ops |-> <<>>]
    /\ released = {}
    /\ queued = {}
    /\ awaited = {}
    /\ waiting = {}
    /\ noted = {}
    /\ pc = [t \in Threads |-> "idle"]
    /\ cur = [t \in Threads |-> None]
    /\ dep = [t \in Threads |-> None]
    /\ todo = [t \in Threads |-> <<>>]
    /\ ran = {}

\* The list without o, which is no longer an observer.
Without(s, o) == Only(s, {i \in 1..Len(s) : s[i] # o})

-----------------------------------------------------------------------------
\* The locks are recursive: who has one may take it again.
Free(x, t) == lock[x] \in {None, t}

\* The locks once those of S are given back, which those that are kept are not.
Unlocked(S) == [x \in Objects |-> IF x \in S \ kept THEN None ELSE lock[x]]

\* The operation whose isReady the thread changes: a client that of its own
\* call, a thread of the queue that of the dependent it tells.
Target(t) == IF t \in Clients THEN cur[t] ELSE Head(todo[t])

\* -willChangeValueForKey: @"isReady" notes who observes that.
Note(t, o) == noted' = IF o \in awaited THEN noted \cup {t} ELSE noted

\* The assignment, and what -didChangeValueForKey: collects of the noted: who
\* left before, and who came after, is not told.
SetReady(t) ==
    /\ pc[t] \in {"ready", "unready"}
    /\ ready' = IF pc[t] = "ready" THEN ready \cup {Target(t)} ELSE ready \ {Target(t)}
    /\ noted' = IF Target(t) \in awaited THEN noted ELSE noted \ {t}
    /\ pc' = [pc EXCEPT ![t] = "report"]
    /\ UNCHANGED <<locks, dependencies, cancelled, executing, finished, observers, changing,
                   released, queue, cur, dep, todo, ran>>

\* The queue observes isReady no more and finds a slot for the operation, from
\* when on it observes isFinished.
React(o) ==
    /\ awaited' = awaited \ {o}
    /\ waiting' = waiting \cup {o}
    /\ observers' = [observers EXCEPT ![o] = Append(@, Queue)]

\* After the delivery a client returns; a thread of the queue goes on telling.
Resume(t) ==
    /\ lock' = Unlocked({Target(t)})
    /\ pc' = [pc EXCEPT ![t] = IF t \in Clients THEN "idle" ELSE "notify"]
    /\ cur' = [cur EXCEPT ![t] = IF t \in Clients THEN None ELSE @]
    /\ todo' = [todo EXCEPT ![t] = IF t \in Clients THEN <<>> ELSE Tail(@)]

\* -removeObserver:forKeyPath: raises in the queue's method.  Neither that nor
\* -_updateReadyState nor -_finish gives its lock back, and a change of
\* isCancelled or dependencies around it is not ended, whose lock is the
\* operation's too.  Who was still to be told is forgotten; a thread of the
\* queue logs the exception and calls -_finish.
Raise(t) ==
    /\ lock' = [lock EXCEPT ![Queue] = t]
    /\ kept' = kept \cup {Queue, Target(t), cur[t]}
    /\ pc' = [pc EXCEPT ![t] = IF t \in Clients THEN "idle" ELSE "finish"]
    /\ cur' = [cur EXCEPT ![t] = IF t \in Clients THEN None ELSE @]
    /\ todo' = [todo EXCEPT ![t] = <<>>]

\* The delivery: the queue is told, unless it was not among the collected.
Report(t) ==
    /\ pc[t] = "report"
    /\ IF t \notin noted
       THEN Resume(t) /\ UNCHANGED <<kept, awaited, waiting, observers>>
       ELSE /\ Free(Queue, t)
            /\ IF Target(t) \in awaited
               THEN React(Target(t)) /\ Resume(t) /\ kept' = kept
               ELSE Raise(t) /\ UNCHANGED <<awaited, waiting, observers>>
    /\ noted' = noted \ {t}
    /\ UNCHANGED <<dependencies, flags, changing, released, queued, dep, ran>>

-----------------------------------------------------------------------------
\* The client may change the dependencies of o.
MayChange(o) == LateAddition \/ o \notin queued

\* The client may add o to the queue: none of its dependencies can be between
\* its execution and the last of the notifications of its end.
MayAdd(o) ==
    AddWhileRunning \/ \A d \in dependencies[o] : d \notin queued \/ d \in released

\* Only if it is possible for the dependency to make a difference is it watched.
Matters(o, d) == d \notin finished /\ o \notin cancelled \cup executing \cup finished

\* -addDependency:, up to the decision whether to watch the dependency.
AddDependency(c, o, d) ==
    /\ pc[c] = "idle"
    /\ <<o, d>> \in Edges
    /\ MayChange(o) /\ MayChange(d)
    /\ Free(o, c)
    /\ d \notin dependencies[o]
    /\ dependencies' = [dependencies EXCEPT ![o] = @ \cup {d}]
    /\ IF Matters(o, d)
       THEN /\ lock' = [lock EXCEPT ![o] = c]
            /\ pc' = [pc EXCEPT ![c] = "watch"]
            /\ cur' = [cur EXCEPT ![c] = o]
            /\ dep' = [dep EXCEPT ![c] = d]
       ELSE UNCHANGED <<lock, pc, cur, dep>>
    /\ UNCHANGED <<kept, flags, observers, changing, released, queue, noted, todo, ran>>

\* The rest of -addDependency:; if the operation was ready, it becomes not ready.
Watch(c) ==
    /\ pc[c] = "watch"
    /\ observers' = [observers EXCEPT ![dep[c]] = Append(@, cur[c])]
    /\ dep' = [dep EXCEPT ![c] = None]
    /\ IF cur[c] \in ready
       THEN /\ Note(c, cur[c])
            /\ pc' = [pc EXCEPT ![c] = "unready"]
            /\ UNCHANGED <<lock, cur>>
       ELSE /\ lock' = Unlocked({cur[c]})
            /\ pc' = [pc EXCEPT ![c] = "idle"]
            /\ cur' = [cur EXCEPT ![c] = None]
            /\ noted' = noted
    /\ UNCHANGED <<kept, dependencies, flags, changing, released, queue, todo, ran>>

\* Variant: it is enough that one of several dependencies has finished.
MakesReady_Any(o, deps) == o \notin ready /\ (deps = {} \/ deps \cap finished # {})

\* -_updateReadyState of o, whose dependencies are deps, changes isReady.
MakesReady(o, deps) == o \notin ready /\ deps \subseteq finished

\* Variant: the operation looks at its readiness before the dependency is gone.
RemoveDependency_Early(c, o, d) ==
    /\ pc[c] = "idle"
    /\ MayChange(o)
    /\ Free(o, c)
    /\ d \in dependencies[o]
    /\ \E i \in DOMAIN observers[d] : observers[d][i] = o
    /\ observers' = [observers EXCEPT ![d] = Without(@, o)]
    /\ changing' = [changing EXCEPT ![d] = Without(@, o)]
    /\ dependencies' = [dependencies EXCEPT ![o] = @ \ {d}]
    /\ IF MakesReady(o, dependencies[o])
       THEN /\ Note(c, o)
            /\ lock' = [lock EXCEPT ![o] = c]
            /\ pc' = [pc EXCEPT ![c] = "ready"]
            /\ cur' = [cur EXCEPT ![c] = o]
       ELSE UNCHANGED <<noted, lock, pc, cur>>
    /\ UNCHANGED <<kept, flags, released, queue, dep, todo, ran>>

\* -removeDependency:.  It begins with -removeObserver:forKeyPath:; when o never
\* observed d, that raises an exception, which is logged, and nothing changes.
RemoveDependency(c, o, d) ==
    /\ pc[c] = "idle"
    /\ MayChange(o)
    /\ Free(o, c)
    /\ d \in dependencies[o]
    /\ \E i \in DOMAIN observers[d] : observers[d][i] = o
    /\ observers' = [observers EXCEPT ![d] = Without(@, o)]
    /\ changing' = [changing EXCEPT ![d] = Without(@, o)]
    /\ dependencies' = [dependencies EXCEPT ![o] = @ \ {d}]
    /\ IF MakesReady(o, dependencies[o] \ {d})
       THEN /\ Note(c, o)
            /\ lock' = [lock EXCEPT ![o] = c]
            /\ pc' = [pc EXCEPT ![c] = "ready"]
            /\ cur' = [cur EXCEPT ![c] = o]
       ELSE UNCHANGED <<noted, lock, pc, cur>>
    /\ UNCHANGED <<kept, flags, released, queue, dep, todo, ran>>

\* -cancel of an operation that is neither cancelled nor finished.
Cancel(c, o) ==
    /\ pc[c] = "idle"
    /\ Free(o, c)
    /\ o \notin cancelled \cup finished
    /\ cancelled' = cancelled \cup {o}
    /\ IF o \notin ready
       THEN /\ Note(c, o)
            /\ lock' = [lock EXCEPT ![o] = c]
            /\ pc' = [pc EXCEPT ![c] = "ready"]
            /\ cur' = [cur EXCEPT ![c] = o]
       ELSE UNCHANGED <<noted, lock, pc, cur>>
    /\ UNCHANGED <<kept, dependencies, ready, executing, finished, observers, changing,
                   released, queue, dep, todo, ran>>

\* -[NSOperationQueue addOperation:]: the queue's lock is taken, and the queue
\* observes isReady ...
AddToQueue(c, o) ==
    /\ pc[c] = "idle"
    /\ MayAdd(o)
    /\ Free(Queue, c)
    /\ o \notin queued \cup finished
    /\ queued' = queued \cup {o}
    /\ awaited' = awaited \cup {o}
    /\ lock' = [lock EXCEPT ![Queue] = c]
    /\ pc' = [pc EXCEPT ![c] = "test"]
    /\ cur' = [cur EXCEPT ![c] = o]
    /\ UNCHANGED <<kept, dependencies, flags, observers, changing, released, waiting, noted,
                   dep, todo, ran>>

\* Variant: the operation gets a slot whether it is ready or not.
TestReady_Any(c) ==
    /\ pc[c] = "test"
    /\ React(cur[c])
    /\ lock' = Unlocked({Queue})
    /\ pc' = [pc EXCEPT ![c] = "idle"]
    /\ cur' = [cur EXCEPT ![c] = None]
    /\ UNCHANGED <<kept, dependencies, flags, changing, released, queued, noted, dep, todo,
                   ran>>

\* Variant: it is left to the notification to tell the queue.
TestReady_None(c) ==
    /\ pc[c] = "test"
    /\ lock' = Unlocked({Queue})
    /\ pc' = [pc EXCEPT ![c] = "idle"]
    /\ cur' = [cur EXCEPT ![c] = None]
    /\ UNCHANGED <<kept, dependencies, flags, observers, changing, released, queue, noted,
                   dep, todo, ran>>

\* ... and if the operation is ready by now, it reacts to that at once.
TestReady(c) ==
    /\ pc[c] = "test"
    /\ IF cur[c] \in ready THEN React(cur[c]) ELSE UNCHANGED <<awaited, waiting, observers>>
    /\ lock' = Unlocked({Queue})
    /\ pc' = [pc EXCEPT ![c] = "idle"]
    /\ cur' = [cur EXCEPT ![c] = None]
    /\ UNCHANGED <<kept, dependencies, flags, changing, released, queued, noted, dep, todo,
                   ran>>

\* -waitUntilFinished: the caller waits for the condition Finished ...
WaitUntilFinished(c, o) ==
    /\ pc[c] = "idle"
    /\ pc' = [pc EXCEPT ![c] = "wait"]
    /\ cur' = [cur EXCEPT ![c] = o]
    /\ UNCHANGED <<locks, dependencies, flags, observers, changing, released, queue, noted,
                   dep, todo, ran>>

\* ... and returns.
WaitReturns(c) ==
    /\ pc[c] = "wait"
    /\ cur[c] \in released
    /\ pc' = [pc EXCEPT ![c] = "idle"]
    /\ cur' = [cur EXCEPT ![c] = None]
    /\ UNCHANGED <<locks, dependencies, flags, observers, changing, released, queue, noted,
                   dep, todo, ran>>

-----------------------------------------------------------------------------
\* A thread of the queue takes an operation, which it will -start and -_finish.
Take(r, o) ==
    /\ pc[r] = "idle"
    /\ o \in waiting
    /\ waiting' = waiting \ {o}
    /\ cur' = [cur EXCEPT ![r] = o]
    /\ pc' = [pc EXCEPT ![r] = "start"]
    /\ UNCHANGED <<locks, dependencies, flags, observers, changing, released, queued,
                   awaited, noted, dep, todo, ran>>

\* What -start insists on.
MayStart(o) == o \in ready /\ o \notin executing \cup finished

\* The locked part of -start.  It raises an exception when the operation may
\* not start; the thread logs it and calls -_finish.
Start(r) ==
    /\ pc[r] = "start"
    /\ Free(cur[r], r)
    /\ IF MayStart(cur[r])
       THEN /\ executing' = executing \cup {cur[r]}
            /\ pc' = [pc EXCEPT ![r] = "main"]
       ELSE /\ executing' = executing
            /\ pc' = [pc EXCEPT ![r] = "finish"]
    /\ UNCHANGED <<locks, dependencies, ready, cancelled, finished, observers, changing,
                   released, queue, noted, cur, dep, todo, ran>>

\* -start calls -main unless the operation was cancelled.
Main(r) ==
    /\ pc[r] = "main"
    /\ ran' = IF cur[r] \in cancelled THEN ran ELSE ran \cup {cur[r]}
    /\ pc' = [pc EXCEPT ![r] = "finish"]
    /\ UNCHANGED <<locks, dependencies, flags, observers, changing, released, queue, noted,
                   cur, dep, todo>>

\* -_finish: -willChangeValueForKey: notes who observes isFinished.
Finish(r) ==
    /\ pc[r] = "finish"
    /\ Free(cur[r], r)
    /\ IF cur[r] \in finished
       THEN /\ pc' = [pc EXCEPT ![r] = "idle"]
            /\ cur' = [cur EXCEPT ![r] = None]
            /\ UNCHANGED <<lock, changing>>
       ELSE /\ lock' = [lock EXCEPT ![cur[r]] = r]
            /\ changing' = [changing EXCEPT ![cur[r]] = observers[cur[r]]]
            /\ pc' = [pc EXCEPT ![r] = "change"]
            /\ cur' = cur
    /\ UNCHANGED <<kept, dependencies, flags, observers, released, queue, noted, dep, todo,
                   ran>>

\* Variant: the observers are told in the order in which they registered.
SetFinished_InOrder(r) ==
    /\ pc[r] = "change"
    /\ executing' = executing \ {cur[r]}
    /\ finished' = finished \cup {cur[r]}
    /\ todo' = [todo EXCEPT ![r] = changing[cur[r]]]
    /\ changing' = [changing EXCEPT ![cur[r]] = <<>>]
    /\ pc' = [pc EXCEPT ![r] = "notify"]
    /\ UNCHANGED <<locks, dependencies, ready, cancelled, observers, released, queue, noted,
                   cur, dep, ran>>

\* Variant: the loop over the observers stops before the first one.
SetFinished_ButFirst(r) ==
    /\ pc[r] = "change"
    /\ executing' = executing \ {cur[r]}
    /\ finished' = finished \cup {cur[r]}
    /\ todo' = [todo EXCEPT ![r] = Reverse(Tail(changing[cur[r]]))]
    /\ changing' = [changing EXCEPT ![cur[r]] = <<>>]
    /\ pc' = [pc EXCEPT ![r] = "notify"]
    /\ UNCHANGED <<locks, dependencies, ready, cancelled, observers, released, queue, noted,
                   cur, dep, ran>>

\* The flags change, and -didChangeValueForKey: collects those of the noted
\* observers that are still registered, the last one first.
SetFinished(r) ==
    /\ pc[r] = "change"
    /\ executing' = executing \ {cur[r]}
    /\ finished' = finished \cup {cur[r]}
    /\ todo' = [todo EXCEPT ![r] = Reverse(changing[cur[r]])]
    /\ changing' = [changing EXCEPT ![cur[r]] = <<>>]
    /\ pc' = [pc EXCEPT ![r] = "notify"]
    /\ UNCHANGED <<locks, dependencies, ready, cancelled, observers, released, queue, noted,
                   cur, dep, ran>>

\* The operation's own observer method: those who wait for it may go on.
TellItself(r) ==
    /\ pc[r] = "notify"
    /\ todo[r] # <<>>
    /\ Head(todo[r]) = cur[r]
    /\ todo' = [todo EXCEPT ![r] = Tail(@)]
    /\ observers' = [observers EXCEPT ![cur[r]] = Without(@, cur[r])]
    /\ released' = released \cup {cur[r]}
    /\ UNCHANGED <<locks, dependencies, flags, changing, queue, noted, pc, cur, dep, ran>>

\* The queue's observer method for isFinished.
TellQueue(r) ==
    /\ pc[r] = "notify"
    /\ todo[r] # <<>>
    /\ Head(todo[r]) = Queue
    /\ Free(Queue, r)
    /\ todo' = [todo EXCEPT ![r] = Tail(@)]
    /\ observers' = [observers EXCEPT ![cur[r]] = Without(@, Queue)]
    /\ UNCHANGED <<locks, dependencies, flags, changing, released, queue, noted, pc, cur,
                   dep, ran>>

\* The observer method of an operation that depends on it.
TellDependent(r) ==
    /\ pc[r] = "notify"
    /\ todo[r] # <<>>
    /\ LET o == Head(todo[r]) IN
       /\ o \notin {cur[r], Queue}
       /\ Free(o, r)
       /\ IF MakesReady(o, dependencies[o])
          THEN /\ Note(r, o)
               /\ lock' = [lock EXCEPT ![o] = r]
               /\ pc' = [pc EXCEPT ![r] = "ready"]
               /\ todo' = todo
          ELSE /\ todo' = [todo EXCEPT ![r] = Tail(@)]
               /\ UNCHANGED <<noted, lock, pc>>
    /\ UNCHANGED <<kept, dependencies, flags, observers, changing, released, queue, cur, dep,
                   ran>>

\* The end of -_finish.  The thread calls it again after -start and finds a
\* finished operation.
EndFinish(r) ==
    /\ pc[r] = "notify"
    /\ todo[r] = <<>>
    /\ lock' = Unlocked({cur[r]})
    /\ pc' = [pc EXCEPT ![r] = "finish"]
    /\ UNCHANGED <<kept, dependencies, flags, observers, changing, released, queue, noted,
                   cur, dep, todo, ran>>

-----------------------------------------------------------------------------
ClientCall(c) ==
    \E o \in Ops :
        \/ \E d \in Ops : AddDependency(c, o, d) \/ RemoveDependency(c, o, d)
        \/ o \in Cancellable /\ Cancel(c, o)
        \/ AddToQueue(c, o)
        \/ o \in WaitedFor /\ WaitUntilFinished(c, o)

ClientStep(c) ==
    Watch(c) \/ SetReady(c) \/ Report(c) \/ TestReady(c) \/ WaitReturns(c)

RunnerStep(r) ==
    \/ \E o \in Ops : Take(r, o)
    \/ Start(r) \/ Main(r) \/ Finish(r) \/ SetFinished(r)
    \/ TellItself(r) \/ TellQueue(r) \/ TellDependent(r)
    \/ SetReady(r) \/ Report(r) \/ EndFinish(r)

Next ==
    \/ \E c \in Clients : ClientCall(c) \/ ClientStep(c)
    \/ \E r \in Runners : RunnerStep(r)

Spec == Init /\ [][Next]_vars

\* A thread that wants a free lock gets it in the end; a client that has begun
\* a call goes on with it, but need not make any call.
FairSpec ==
    /\ Spec
    /\ \A c \in Clients : SF_vars(ClientStep(c))
    /\ \A r \in Runners : SF_vars(RunnerStep(r))

-----------------------------------------------------------------------------
TypeOK ==
    /\ lock \in [Objects -> Threads \cup {None}]
    /\ kept \subseteq Objects
    /\ dependencies \in [Ops -> SUBSET Ops]
    /\ ready \subseteq Ops /\ cancelled \subseteq Ops
    /\ executing \subseteq Ops /\ finished \subseteq Ops
    /\ observers \in [Ops -> Seq(Objects)]
    /\ changing \in [Ops -> Seq(Objects)]
    /\ released \subseteq finished
    /\ queued \subseteq Ops
    /\ awaited \subseteq queued
    /\ waiting \subseteq queued
    /\ noted \subseteq {t \in Threads : pc[t] \in {"ready", "unready", "report"}}
    /\ pc \in [Threads -> {"idle", "watch", "test", "ready", "unready", "report", "wait",
                           "start", "main", "finish", "change", "notify"}]
    /\ cur \in [Threads -> Ops \cup {None}]
    /\ dep \in [Threads -> Ops \cup {None}]
    /\ todo \in [Threads -> Seq(Objects)]
    /\ ran \subseteq Ops

\* An operation that nobody cancelled begins to execute only when every
\* dependency it has at that moment has finished (Headers/Foundation/
\* NSOperation.h, -addDependency:).  Threads that finish dependencies, clients
\* that add and remove them, and the thread that starts the operation each act
\* under a different lock.
StartsAfterDependencies ==
    [][\A o \in Ops : (o \in executing' \ executing /\ o \notin cancelled)
           => dependencies[o] \subseteq finished]_vars

\* An operation that is not ready has a dependency that will tell it, one that has
\* not finished, or a thread is about to tell it or to make it ready; and one that
\* the queue has not noticed is not ready, or a thread is about to tell the queue.
\* Readiness changes in three steps, the queue looks at it in two, and none of the
\* five is under a lock of both.
NoLostWakeup ==
    /\ \A o \in Ops \ ready :
          \/ \E d \in dependencies[o] \ finished :
                 \E i \in DOMAIN observers[d] : observers[d][i] = o
          \/ \E t \in Threads : \E i \in DOMAIN todo[t] : todo[t][i] = o
          \/ \E c \in Clients : pc[c] = "ready" /\ cur[c] = o
    /\ \A o \in awaited \cap ready :
          \/ \E c \in Clients : pc[c] = "test" /\ cur[c] = o
          \/ \E t \in noted : pc[t] = "report" /\ Target(t) = o

\* An operation that has finished has been through -main or was cancelled:
\* -_finish is never reached by an operation that -start refused.
FinishedHasRun == finished \subseteq ran \cup cancelled

\* No waiter is released twice or before time: a caller of -waitUntilFinished goes
\* on only after the operation's flag is set and every observer registered after
\* init was told of it.
ReleasedLast ==
    \A o \in released : o \in finished /\ \A t \in Threads : cur[t] = o => todo[t] = <<>>

\* When every operation has been given to a queue, every operation finishes: no
\* notification is lost on the way, and no two threads that finish operations
\* wait for each other's locks.
EveryOperationFinishes == (queued = Ops) ~> (finished = Ops)

\* ... and every caller of -waitUntilFinished goes on: "This method blocks the
\* current thread until the receiver finishes" (Headers/Foundation/NSOperation.h).
WaitersReturn ==
    \A c \in Clients : (queued = Ops /\ pc[c] = "wait") ~> (pc[c] = "idle")
=============================================================================
