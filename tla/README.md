# Verification of GNUstep Base

This directory holds a verification development for GNUstep Base, the library
of non-graphical Objective-C classes (Foundation). It contains TLA+ models of
those parts of the library in which threads or processes interact, TLC
configurations that check the models on small instances, and proofs, checked
by TLAPS, of what holds for every instance. `PROJECT.json` says which lines of
the source each definition stands for.

To repeat a check: `tlc -config MCWorkerPool.cfg MCWorkerPool`. To repeat a
proof: `tlapm OperationQueue_proofs.tla`.

## 1. The system

Most of the library is sequential: strings, numbers, collections, formatters,
parsers. Its core logic, and the part that tests reach least, is in the classes
that threads share and in those that talk to other processes.

| Component | State | Operations | Interaction | What makes it hard, and what makes it correct |
|---|---|---|---|---|
| `NSOperationQueue` (NSOperation.m) | operations, waiting ones in order, count of started ones, limit, suspension; one recursive lock | add, suspend, set limit, `-execute`, the observer of `isFinished` | observes operations; hands them to threads, to libdispatch or to the main thread | `-execute` runs in many threads; operations are counted in one critical section and removed in another. *Each runs once, in order, within the limit, and all run.* |
| `GSThreadOperationQueueImpl` | `_starting` under a condition lock, count of threads | detach, take, time out, end | under two locks, never both at a time in a worker | workers that end race with new work; detaching fails. *The accounts agree; no work is forgotten.* |
| `GSDispatchOperationQueueImpl`, main queue | what `-execute` has collected | hand over | after the unlock | several threads hand over. *Nothing is lost or run twice.* |
| `NSOperation` | dependencies, four flags, observers; one lock each | add and remove dependency, cancel, start, finish, wait | observes its dependencies, is observed by the queue and itself | the finisher tells others while it holds its own lock; the queue is told of readiness and asks for it, too. *None starts before its dependencies, none is forgotten, waiters return.* |
| `NSConditionLock`, `NSCondition` (NSLock.m) | a mutex, a condition variable, a value | lock in six ways, unlock in two | pthreads | spurious and late wake-ups. *A lock taken in one step when the value is right.* |
| `NSNotificationCenter` | lists by name and object, counts, free list; a global lock and one for each stripe | add, remove, post | posts call observers without locks | two sections with a gap; memory that is used again; three ways to lock. *No race, no leak, no circle; who stays is told.* |
| `NSDistributedLock` | a directory and its date, the date each object remembers | try, unlock, break | processes through the file system | no atomicity beyond `mkdir`; processes die. *A race for a free lock has one winner; a directory has an object that remembers it as its own.* |
| Key-value observing (NSKVOSupport.m) | observers by key, change sets, locks of objects | add, remove, will and did change | used by NSOperation | delivery after the locks are dropped, nested changes |
| `NSNotificationQueue` | two queues for each thread | enqueue, coalesce, dequeue, flush | run loop, notification center | re-entrancy while a snapshot is posted |
| `NSRunLoop`, `NSTimer` | modes with timers, performers, watchers | run, fire, cancel | everything asynchronous in one thread | nested runs, cancellation during a batch |
| `NSThread` performers (NSThread.m, NSRunLoop.m, GSRunLoopCtxt.m) | list of performers and a pipe for each thread; performers by mode and order | perform on a thread, schedule, cancel, check and poll of the loop, end of the thread | callers in other threads; what is fired runs the loop again | the pipe is full, runs within runs, the thread ends. *Each is fired once, in order; who waits is released.* |
| Name server `gdomap` (Tools/gdomap.c): names | a sorted array of names; tables of channels; descriptors | register, look up, unregister, list; accept, read, write, clear a channel | clients over TCP, programs whose ports it names | requests in pieces, clients that give up, descriptors used again, programs that end. *Answers were true; a name in use is not grabbed.* |
| Name server `gdomap`: other servers | list of servers with the last contacts; messages to be sent | probe, answer, expire | other daemons over UDP | lost and late datagrams, daemons that end. *Who runs is found, who ended is dropped, others are not.* |
| Distributed objects (NSConnection.m) | maps of proxies and replies, sequence numbers | request, reply, time out, invalidate | ports, run loop | late replies, invalidation while waiting |
| `NSUserDefaults` | domains, the file, a distributed lock | lock, synchronize, write | `NSDistributedLock` | two processes, broken locks |
| `NSUndoManager`, `NSCache`, `NSProgress`, `NSIndexSet`, sorting | sequential | | | long sequences of legal calls, boundaries |
| `NSTask`, file handles, streams, URL loading, `gdnc` | | | the operating system, libcurl, other hosts | signals, callbacks |

`PROJECT.json` lists every component with its status, and under "hazards" what
can go wrong in each, at its line.

## 2. The modules

A name that begins with MC is a small instance for TLC; one that ends with
`_proofs` holds theorems, sometimes about several components: OperationQueue_proofs
about QueueCore, WorkerPool and HandoffPool, Lock_proofs about ConditionLock and
DistributedLock, which therefore share no names.

### Lists

What several parts do with their lists, as functions that can be reasoned about:
`Only` (the elements at some places, in order: the deletion from an array, the
removal of an observer) and `BinarySearch` (the loop that GSArray and `gdomap`
both have, with the two sides of the element as parameters).

### QueueCore, WorkerPool, HandoffPool, BoundedExecutor

QueueCore is what every queue does under its own lock, and it is not a
specification by itself. `Search` and `InsertionIndex` are
`-[GSArray insertionPosition:usingFunction:context:]` with the comparator of
`NSOperationQueue`: the `for` loop is `BinarySearch`, and the skip of equal
elements follows. WorkerPool and HandoffPool extend it with the ways in which a
started operation reaches a thread.

| In the model | In NSOperation.m |
|---|---|
| `lock` | `internal->lock`; free between steps unless a thread is in the loop of `-execute` |
| `operations`, `waiting`, `executing`, `maxThreads`, `suspended` | the variables of that name in `internal` (`count` of the limit as `maxThreads`) |
| `starting`, `cond`, `threadCount` | `_starting`, `_cond`, `_threadCount` |
| `collected`, `handed` | `operationsToStart`; what libdispatch or the main thread's run loop has |
| `AddOperation`, `SetSuspended`, `SetMaxConcurrentOperationCount` | the methods; each goes on to `-execute` |
| `EnterExecute`, `StartConcurrent`/`HandToNewThread`/`HandDetachFails`/`HandToPool`, `ExecuteEnds` | the turns of the loop of `-execute`, one action for each way through it |
| `NameThread`, `TakeWork`, `TimeOut`, `TakeLateWork`, `GiveUp`, `EndThread` | `-_thread:` |
| `FinishOp`, `Retire`, `RemoveOp` | `-_finish`, and the two critical sections of the observer method |

`FirstComeFirstServed` says where an operation is inserted and that the order of those
that wait does not change; that the first of them is taken is in BoundedExecutor.

The gap between `GiveUp` (the worker unlocks `_cond`) and `EndThread` (it takes
the queue's lock and is counted no more) is in the code, and is where the run
`worker_pool_idle_exit` finds an operation that is never run.

BoundedExecutor is what a queue promises: an operation goes through its phases
once, starts only within the limit and in order of priority, and keeps its slot
until after it has finished. `ImplementsBoundedExecutor` and `HandoffImplements`
say that WorkerPool and HandoffPool implement it; the mappings give each operation
its phase (`Phase`, `HandoffPhase`) from the place where it is.

`_cond` and the queue's lock are taken in one step here. For `_cond` this is
justified by the theorem `Refinement` of Lock_proofs.

### Operation

Dependencies, readiness and the end of operations that are not concurrent, with
the lock of each operation and that of the queue, both recursive.

| In the model | In NSOperation.m and NSKVOSupport.m |
|---|---|
| `ready`, `cancelled`, `executing`, `finished` | the four flags |
| `observers`, `changing`, `todo` | who observes `isFinished` of an operation; what `-willChangeValueForKey:` noted; whom `-didChangeValueForKey:` has still to tell, last noted first |
| `awaited`, `noted` | the operations whose `isReady` the queue observes; the threads whose change of `isReady` has noted the queue |
| `released` | the condition lock of `-waitUntilFinished` says Finished |
| `kept` | objects whose lock an exception left locked |
| `AddDependency`, `Watch` | `-addDependency:`, before and after the flag of the dependency is read without its lock (126) |
| `RemoveDependency`, `Cancel` | the methods, up to the change of `isReady` |
| `AddToQueue`, `TestReady` | `-addOperation:`, before and after the queue is an observer of `isReady` (923); the queue's lock is held over both |
| `Note`, `SetReady`, `Report` | a change of `isReady` (549 to 551): `-willChangeValueForKey:`, the assignment with what `-didChangeValueForKey:` collects, the delivery |
| `React`, `Raise` | what the queue's observer method does with `isReady` (1279 to 1303): it stops to observe that, finds a slot and observes `isFinished`; or `-removeObserver:` raises, since another thread has done so before |
| `Take`, `Start`, `Main` | a worker of the queue, and `-start` |
| `Finish`, `SetFinished`, `TellItself`, `TellDependent`, `TellQueue`, `EndFinish` | `-_finish`, whose lock is held from the first to the last |

An exception in the delivery passes through the queue's observer method,
`-_updateReadyState` and, in a worker, the observer methods and `-_finish`: none of
them gives its lock back, and the observers that were still to be told are
forgotten. `Raise` does that. Two constants say what clients do: `LateAddition`
(dependencies of an operation that is in a queue are changed) and
`AddWhileRunning` (an operation is added to the queue while one of its dependencies
is between its execution and the last notification of its end). The queue is
reduced to sets and has a slot for every operation; slots and order are in QueueCore.

### ConditionLock, ConditionalLock

Every way to take and give back an `NSConditionLock`, step by step over a
pthread mutex and a condition variable: a wait releases the mutex and begins in
one step, may end without a signal (`WakeUp`) or at its date (`TimeOut`), and
gets the mutex back before it returns (`Reacquire`). ConditionalLock is the
promise: a lock with a value that is taken in one step.

### NotificationCenter

A call is a sequence: it begins (`AddObserver`, `RemoveObserver`, `Post`), takes
its locks one after another (`Lock`; adding and removing take all of them, a
post that of its name's stripe, and the global one if there may be observers
without a name), has one critical section (`Insert`, `Purge`, `Gather`), and
unlocks. A post goes on: it looks at each observation it has gathered (`Look`),
tells its observer (`Tell`), and needs the same locks again (`Delivered`) to let
the observations go (`Clean`). `posting` and `receiver` are the count and the
strong reference of an observation, `linked` stands for `next != 0`, `free` for
the free list. `Release` is the last release of an observer from outside.
An observer that raises is caught and logged, and the post goes on to the next
(1356-1380). `due` is a history variable, for the property `EveryoneTold` only.

### DistributedLock

`-tryLock`, `-unlock` and `-breakLock`, one step for each call on the file
system, so that objects in several processes interleave between the test for a
path and `mkdir`, and between `mkdir` and the read of the date. A process that
dies is an object that takes no further step. `stage` is what an object is about
to ask of the file system, `Absent` the date of a directory that does not exist,
`UnlockDirectory` is `-unlock`. The clock of the file system is `now`; two
directories may bear the same date.

### NameMap, NameServer

NameMap is the array of registered names and its four functions, as operators on
the array's value; a name is its rank in the order of `compare()`. NameServer is
the daemon with its clients. A daemon is one thread, so each handler that
`handle_io()` calls is one action: `Accept`, `ReadPart` and `ReadEnd` (a request
comes in pieces, or its end does), one action for each kind of request in
`handle_request()`, `Write`. `readFds`, `writeFds`, `rInfo`, `wInfo` are the
daemon's variables of nearly the same names, `fd` and `conn` what the kernel
knows of descriptors and connections; a descriptor that was closed is given out
again. A client's call is `TryHost`, then `Read` or `Fail` (a timeout may come at
any moment); a call with the host `*` asks for the servers and then looks the
name up at each. `Listen` is any program that binds or releases a port,
`Restart` a daemon that is killed, `Scarcity` the begin or the end of a time in which
`socket()` or `setsockopt()` fails in a daemon (`short`): it then answers a lookup with
a port it has not tried, and gives no name to another port (`IsGone`). A program that
names no port registers port 0, which a new name does not get and an old one may. `saw` is a history variable: the replies that
were true at some moment of the call.

### ServerProbing

The same daemons among each other. `Start`, `Idle` (ten seconds without
traffic), `Send` and `Receive` are the turns of the loop of `handle_io()` that
concern probes, with `PrbAdd` and `PrbTim` as operators on the list. Datagrams
are a set: they are delayed and reordered, `Lose` loses one, and `Crash` ends a
daemon. Time is an age for each entry and for the last probe, which only `Tick`
increases. `lapsed` is a history variable: the servers with which something was
lost since the last contact.

### ThreadPerform

`Call` and `AddPerformer` are the two halves of `-performSelector:onThread:...`
in the caller; the list of performers and the pipe are what it shares with the
thread. The loop is a stack of runs, since what is fired may run the loop again.
`todo` holds the stages that are left of a run's course: `check`
(`-_checkPerformers:`, one action, which takes the performers of a mode out of
all modes), `events` (a timer or an input may fire), `pipe` (the poll). A mode
without timers and inputs has a course of its own, as `-runMode:beforeDate:` and
`-acceptInputForMode:beforeDate:` treat it differently. `Finish` and
`Invalidate` are the end of the thread. Orders are compared as they were given; the
code keeps them as `unsigned` (NSRunLoop.m:85) and compares that with an `NSUInteger`
(1611), which is the same below 2^32. Performers from other threads have order 0.

## 3. The runs

| Run | Instance | Result |
|---|---|---|
| worker_pool | two clients, four operations (one urgent, two equal, one concurrent), two workers, limits 0, 1, default; suspension; failing detaches; 337,000 states | type, accounts, order; implements BoundedExecutor |
| worker_pool_idle_exit | one client, two operations, a serial queue | **violated**: an operation is never run (finding) |
| handoff_pool | one client, three operations, two engine threads, limits 1 and default, suspension | nothing is lost or handed over twice; implements BoundedExecutor; every operation runs unless the queue is suspended |
| operations | three operations, each pair of which may be given a dependency (a diamond at most), two runners, cancellation, a waiting client; dependencies before queueing, no operation queued while a dependency is being run and told of; 429,000 states | dependencies first, no forgotten operation, no deadlock among finishers, waiters return |
| operation_added_while_running | two operations, one of which depends on the other and is queued at any time | **violated**: who waits for the dependency waits for ever (finding) |
| distributed_lock | four objects that lock, unlock and break, three dates | a directory has an object that has it, or is about to have or to remove it |
| distributed_lock_retry | two objects that lock and unlock, nobody breaks | **violated**: both have the lock (finding) |
| condition_lock | three threads, two values, every call | nobody forgotten, a lock taken in one step; waiters are served and calls with a date return |
| notification_center | three threads, an observer, two pieces of memory, two stripes, registration by name and by object; 664,000 states | the six properties of the module |
| name_service | two hosts, two clients (one calls twice), nine calls on two names and two ports, one of them a registration for the other protocol and without a port, one port that programs bind and release, requests in two pieces, one restart of a daemon or one shortage of the first; 1,158,000 states | names are found, tables and descriptors agree, answers were true, live names stay |
| server_probing | three hosts, one outside the network of the others and known by configuration; one daemon probes; one may end and start again; 54,000 states | list in order of contact, no drop without a loss, who runs is found, who ended is forgotten |
| thread_perform | three performers from other threads with one, the other, or both of two modes, one local performer of a later order; a pipe of two bytes; two levels of runs; the thread may end | each fired once, in order; the pipe is signalled; callers are released |

Why the bounds are enough to meet the cases: in worker_pool the two equal
operations show their order, the urgent one overtakes them, the limit is both
below and equal to the number of workers, and a worker can time out while
another ends. Four operations exceed every limit. In operations the diamond has
an operation that waits for two, and two threads that finish both at the same
time. In notification_center two threads post different names while a third
adds, removes or posts; two pieces of memory are enough to be given back and
used again while a post is on its way. In distributed_lock a fourth object is
needed for one that breaks while two others race and a third has just lost. In
condition_lock a third thread takes the lock between the wake-up of another and
its return from the wait. In name_service the second call of a client takes the
descriptor and the connection that the first one left, while the other client's
request is half read; two names are the least that can be in the wrong order,
and two registrations of one name with different ports compete, the second for
TCP, or for UDP without a port. A client that stops has written one piece of its
request at least (`Writes`; the theorems are about none as well), and restarts and
shortages share the bound `MaxFaults`. In
server_probing a list of two shows its order, and the ages stop where nothing
tells them from later ones. In thread_perform the pipe of two bytes is full
with three callers, and a run within a run meets an outer one that has taken a
performer. Every action of every module occurs in a passing run.

A run is kept for each question that no other answers. What a proof says for
every instance is not always checked again: the type invariants of HandoffPool,
Operation, ServerProbing, ThreadPerform and the locks are theorems
(`HandoffTypeCorrect`, `TypeCorrect`, `DistributedTypeCorrect`), and no invariants
of a run.

Deadlock is checked in worker_pool, handoff_pool, distributed_lock,
distributed_lock_retry, condition_lock, notification_center, name_service and
server_probing. It is not where the system really stops: when all operations
have finished, when one is stuck (as two of the violation runs show), or when
the thread of ThreadPerform has ended.

### Fairness

A temporal property is checked under a specification that says what the
schedulers do. Threads that want a mutex that is free again and again get it
(strong fairness of the steps that take one): pthread mutexes make no such
promise in general, but no thread here keeps a lock or takes it again for ever.
Otherwise a thread that can go on does (weak fairness). A call with a date is
late in the end (strong fairness of `TimeOut` in ConditionLock: waits that end
without a signal put it off finitely often). Nobody is obliged to call, to wake
up without a signal, to time out early, to cancel or to suspend.
The engine of HandoffPool runs what it is handed, as libdispatch and the main
run loop promise. In ServerProbing the clock goes on, a message in a daemon's
queue is sent, a datagram that is sent again and again arrives at last (strong
fairness), and a daemon to whom a probe is due again and again is idle for ten
seconds at last: the code probes and expires only then, and a network that never
leaves it idle starves both. Nobody is obliged to end or to lose anything. In
ThreadPerform callers go on, a run of the loop goes on as its limit date comes, a
method that is fired and runs the loop within itself ends all the same (strong
fairness for each depth), and the thread runs its loop again and again in every
mode that performers ask for; it may end at any time.

### Findings

1. *worker_pool_idle_exit.* A worker that has found the list empty is counted
   until it has the queue's lock. An operation started in between is handed to
   a pool that seems full, and if that was the only worker it is never run.
2. *operation_added_while_running.* `-addOperation:` registers the queue as an
   observer of `isReady` (NSOperation.m:923) and asks `isReady` afterwards (932),
   not under the operation's lock. A thread that finishes the last dependency
   meanwhile has noted the queue and set the flag, and waits for the queue's lock
   (1283). The client handles the operation and takes the observer off; the
   finisher's removal raises, and the exception leaves the locks of the queue, of
   the operation and of its dependency locked. The dependency has not told itself
   that it has finished, so that `-waitUntilFinished` of it does not return, and no
   other thread can use the queue any more.
3. *distributed_lock_retry.* The second attempt of `-tryLock` takes a directory
   that another process has just made for its own.

The passing run of Operation therefore has one client, which gives operations their
dependencies before it queues them, and queues none while one of its dependencies is
between its execution and the last notification of its end. `NoLostWakeup` is
violated without any part of this:

- with `LateAddition`: `-addDependency:` reads `isFinished` of the dependency (126)
  and registers as an observer afterwards. A dependency that finishes in between
  never tells, and the operation is never ready;
- with `AddWhileRunning`: the client registers the queue after the finisher has noted
  the observers of `isReady`, and asks before the flag is set. Neither tells the
  queue that the operation is ready;
- with a second client, which removes a dependency while the first adds the
  operation: the same, in the two methods of the clients.

Other behaviour that a user of these classes should know, seen while modelling
and not the subject of a run:

- A dependency added to an operation that already waits in a queue makes
  `-start` raise; the worker calls `-_finish` all the same (NSOperation.m:1475),
  so the operation is finished and has not run. `FinishedHaveRun` below is the
  theorem with the assumption that excludes it.
- The comment of `-postNotificationName:object:userInfo:` (NSNotificationCenter.m:1438-1440)
  says that no exception handler is wrapped round the messages to observers, and that
  later observers are not told when one raises. The code has the handler (1356-1380)
  and tells them; `EveryoneTold` says what the code does.
- A directory of `NSDistributedLock` whose owner died is there until somebody breaks the
  lock, and `-unlock` or `-breakLock` may remove the directory of a new owner, as dates
  are compared before the removal. `NoOrphan` holds all the same: the dead object
  remembers the directory as its own, and the new owner's is gone, not left behind.
- A thread that ends after its loop has taken a performer out of the modes
  releases nobody who waits for it; `CallersReleased` has that exception. A
  performer that is already in a batch is fired although it is cancelled
  meanwhile. A run within a run fires later performers before the rest of the
  outer batch, although the header speaks of the order in which they were added;
  `OrderKept` says so. In a mode without timers and inputs `-runMode:beforeDate:`
  returns before it looks at the pipe.
- `gdomap` finds out whether the holder of a name is alive by binding the old port
  with a socket of the new request's protocol (gdomap.c:2835-2871). A registration
  for UDP therefore takes the name of a program that serves TCP, against the comment
  at gdomap.c:2826 ("the occasional registration failure MUST be better than
  permitting a process to grab a name already in use!"). `LiveNamesStay` has this
  as its exception `otherNet`, and the run has such a registration.
- A daemon of `gdomap` that has no descriptor left for a test answers lookups with ports
  it has not tried (2968-2989), of servers that have gone too. `AnswersAreTrue` says so.
- A registration of the same name and port with another type is answered with
  success ("so everything is already ok", gdomap.c:2832) and leaves the old type.
  `AnswersAreTrue` says so: what a successful registration promises is the name with
  its port, not its type.
- A daemon whose plist names it probes, but those it names may have rarer probes
  than the thirty minutes after which a silent server is dropped.

## 4. The proofs

The theorems hold for any sets of threads, operations, names and objects, any
priorities and limits. They assume what the modules state of their constants and
nothing else: `CoreAssumption` and `PoolAssumption` (QueueCore, WorkerPool),
`OperationAssumption`, `LockAssumption`, `DistributedAssumption`,
`CenterAssumption`, `ServerAssumption`, `ProbingAssumption` and
`PerformAssumption`. These say that sorts are disjoint, that functions on the
constants have their domains, and, where something is counted, that a set is
finite; each is cited by name where a proof needs it. Four theorems have a
hypothesis of their own, named below. Every safety property that a passing run
checks is stated by a theorem.

*Lists_proofs* has what the others need of lists: what inserting, appending and
taking the head do to the elements and to their order, what `Only` leaves
(`OnlySelects`: there is an increasing map from the places of the result onto the
places that were to stay), and where a binary search ends (`BinarySearchFinds`).
Recursive functions are proved to exist and to have their properties from the
least number that would be an exception (`LeastNumber`), as the induction theorems
of the library cannot be used.

*OperationQueue_proofs.* `InsertionIndexCorrect`: for every ordered list and every
operation the search ends and gives the place behind the last element of the same
or a higher priority. For WorkerPool, `Inv` is the conjunction of the properties
that the run checks with `LockHeldInLoop`, `WaitingInOrder`, `ThreadRoles` (what
each kind of thread can be doing) and `CurAgrees` (whoever has an operation is
running or retiring it). The last two are what makes it inductive: that an
operation is in one place needs that no two threads have it, and the count of slots
needs that a thread that retires an operation is its only runner. There is one
lemma for each action. `ServedInOrder` is an action property from the same
invariant. `PoolImplementsBoundedExecutor` shows that each step moves at most one
operation by one phase (`OneMoves`), that the abstract slots are the started and
running operations (`SlotsAre`, with `SlotsCounted`), and that the head of
`waiting` has the highest priority (`HeadMayStart`, with `WaitingInOrder`).

For HandoffPool the argument is the same where a started operation is in the
collection of one of many threads or in the engine's list: `HandoffOnePlace` adds
to `OnOneWay` that nothing on its way has finished and that no two threads have an
operation. `HandOverFacts` is the heart: what leaves a collection is in no other
place, so it is in one place afterwards, and the slots are the same.
`HandoffImplementsBoundedExecutor` maps `Collect` to a start, `Begin` to a run and
`HandOver` to a stutter.

*Operation_proofs.* A step of the model is one of a thread (`Step`), and leaves what
belongs to the others (`OthersKeep`, `Respects`). On `Located` (the types, and which
thread has which lock) the invariants are built one on top of the other. `OrderInv`: an
operation that is ready, undecided and not being changed has finished dependencies, and
so has one that is about to be made ready, since whoever changes it has its lock.
`DependenciesFirst` follows, whenever dependencies are added, late ones included.
`LastInv` adds that an operation which has not finished is the first of its own
observers, in the list and in what `-willChangeValueForKey:` noted, and the last of those
that a thread has still to tell; so `WaitersAreToldLast`, again for any use of the class.

`PlaceInv` follows an operation of a queue from the queue to one thread, and says
that it does not lose its readiness there; `FinishedHaveRun` needs it and the
hypothesis `Orderly`: one client, which gives operations their dependencies before
it queues them, as the run operations has it.

`NoWakeupIsLost` has the hypotheses `Orderly` and `AddWhileRunning = FALSE`. `WakeInv`
is about operations that wait for dependencies: who depends on an operation that has not
finished observes it, or is in the gap of `-addDependency:` (`Observed`); a dependency in
that gap is in no queue (`WatchInTime`), so it cannot finish there; whoever observes
an operation was noted when its end was announced (`AllNoted`). `TellInv` is about the
queue that waits for readiness: while the client looks at an operation that it has added,
no thread has that operation to tell of anything (`Alone`); whoever is to tell the queue
finds it an observer (`ToldOnce`), so nothing raises and `kept` stays empty. Without the
last hypothesis finding 2 occurs, without the others the three violations named there.

`FinishersMakeWay` says of any dependencies without a circle (its hypothesis
`Acyclic`, which the diamond of the run satisfies) that threads do not wait for each
other's locks in a circle as long as no exception left one locked. Whoever waits for the
lock of an operation or of the queue, and is waited for, tells the observers of an
operation that it finishes; whom it tells depends on that operation (`OnlyDependents`), or
is the queue, whose lock nobody keeps while it waits for another (`LocksHaveHolders`). So
of a group of such threads the one whose operation depends on no other's of the group
waits for none of them. This and `NoWakeupIsLost` are the safety half of
`EveryOperationFinishes`. `TypeCorrect` has the types.

*Lock_proofs.* `LockInv` adds to the checked invariants that a thread which is not
in a call has no arguments; `Refinement` maps the return from a call with the lock
to the one step of ConditionalLock, the rest to stutters. `OneWinner`: as long as
nobody unlocks or breaks (its hypothesis), the race for the directory of a
distributed lock has one winner (`RaceInv`); without the hypothesis finding 3
occurs. `NoOrphanAlways` has no hypothesis.

*NotificationCenter_proofs.* `LocksInv` says which locks a thread needs and has:
those it has are the first of those it needs. From it alone follows
`WaitingIsNotCircular`: of threads that wait, take one that waits for the last
lock; its owner waits only for a later one. `TableInv` adds `ArrayInv`: what a
post has gathered still has a key that concerns it, and a key without a name
only if the global lock is among those it takes again. This needs that a counted
observation is not given back, hence `PostingCounted` and `FreedWhenDone`, which
count with the cardinality of the posts that refer to an observation. Then
whoever touches a list has its lock (`TouchedIsLocked`), and `RaceFree` follows.
`ToldInv` follows those still to be told from the lists to the array, and needs
that the flag for observations without a name is raised no later than such an
observation is linked.

*NameServer_proofs.* First the operators: insertion at the place that the search
gives keeps the array in order (`MapAddFacts`), deletion and a changed port do too,
and in an ordered array `map_by_name()` finds every name that is there
(`MapByNameFinds`). Then the invariant `IInv`, whose parts are: the types; a
connection that both ends have closed is gone (`ConnsKept`); the arrays are in
order; the tables and the descriptors agree (`TablesAgree`, as checked); a client
has exactly one open connection while it waits, and it carries what the client asks
now (`ClientsConnected`); whatever is true at this moment of the call has been seen
(`Seen`); and a reply that was written, or is waiting to be written to a client that
still listens, was seen by that client (`RepliesSeen`). What was seen includes, for a lookup, the port of
an entry whose daemon could make no socket at that moment: `TruthTold` promises no more
than the code, which answers with a port that it has not tried. `ClientsConnected` is what
keeps a late reply on a descriptor that is used again from the wrong client. Steps
are sorted by what they do to connections: those in which no client moves
(`NoClientMoves`, every step of a daemon, `DaemonMoves`) and those of one client
(`MoveKeeps`), so that the parts about replies are shown twice and not once for each
of the actions. `NamesAreFound`, `AnswersAreTrue` and, by cases on the action,
`LiveNamesStay` follow.

*ServerProbing_proofs.* `ListInOrder` is inductive with the types: a contact goes
to the end with age 0, time adds to all ages alike, and what `Only` leaves keeps
its order. For `NoFalseDrop` the invariant is `ProbeIsUnderWay`: a server that was
probed after its last contact, and with which nothing was lost since, has its
probe or its reply on the way. It fails to be inductive without `lapsed` losing
exactly the servers that are contacted or dropped, and without lists that name a
server once. `DropsAreExcused` is the action property that follows: what
`PrbTim` drops was probed.

*ThreadPerform_proofs.* `HandedAreSignalled` is inductive with the types. For
`InOnePlace` the invariant has one formula for each performer, `Placed`: it is
given exactly when it is in the thread's list, in the lists of the modes or in a
run; these exclude each other; and if it is in one mode it is in all of its modes.
With it goes `EachOnce`, no list has a performer twice. The insertion of a whole
list of performers into the lists of their modes is a recursive function, and is
treated as such. `OrderKept` is an action property; its invariant `Ordered`
compares every list with the history of the performers as they were added: what
the thread was handed last was added after everything that the loop has, and what
a run has taken was added before what is left in the modes of that run.

Only model-checked: the liveness properties (`EveryOperationRuns`,
`EveryOperationFinishes`, `WaitersReturn`, `WaitersServed`, `DatedCallsReturn`,
`LiveAreFound`, `DeadAreForgotten`, `CallersReleased`), since liveness under
fairness is beyond the prover, and that no instance is stuck (the absence of
deadlock in the runs that check it).

## 5. What is not modelled

In the modelled components: changes of `queuePriority` of an operation in a
queue, operations that become ready while they are in one (Operation has them,
without slots and order), `-waitUntilAllOperationsAreFinished`, completion
blocks, `-dealloc`; the raising of exceptions by callers that use a lock wrongly;
observers that belong to their observation (blocks) and the caches of map tables
of the notification center; what an observer does in the posting thread itself
(other threads do it in the model, and the post holds no lock meanwhile);
`-lockDate`; the packets of equal requests over UDP and the old byte orders of `gdomap`;
replies of `gdomap` that are written in pieces, hosts with several
addresses, networks on which broadcasts are not possible; the timers and watchers
of the run loop (a timer or an input is something that fires). That a connection
to `gdomap` is answered in the end is not checked: a client gives up after its
timeout in any case. That every operation of a pool runs is checked only where it
fails (worker_pool_idle_exit); for the queues that hand over it is checked in
handoff_pool. The order of memory accesses without a lock is taken to be
sequential.

The components with the status not_modelled are, first, those of section 6;
second, those that are calls of the operating system or of another library
(files, sockets, TLS, libcurl); third, those that are pure functions over text
and tables, or sequential containers that their tests cover.

Most of the library is Objective-C, and `PROJECT.json` maps the definitions to
its `.m` files; of the files in C, which are mostly headers and tables of
characters and time zones, only `gdomap.c` has behaviour of the kind modelled
here. The share of the C lines that are mapped is therefore small, and says
little of what is modelled.

## 6. What would come next

In order of importance:

1. The protocol of NSKVOSupport.m, to replace what Operation takes from it; the
   promise: each registered observer is told of each change once, in order.
2. NSNotificationQueue over NotificationCenter and the loop of ThreadPerform:
   coalescing, and items that are dequeued while a snapshot is posted.
3. The queue's observer method with `isReady` and `queuePriority` that arrive
   late or twice, which composes QueueCore with Operation.
4. The lock of the `NSUserDefaults` file over DistributedLock, with the broken
   locks and the 66 seconds.
5. Requests and replies of NSConnection; the promise: each request is answered
   or raises, once.
6. Proofs: every safety property of a passing run is a theorem now. What is left is
   the safety half of the other liveness properties, as `NoWakeupIsLost` and
   `FinishersMakeWay` are for `EveryOperationFinishes`: that a caller of ThreadPerform
   who waits is known to the thread or was released, for one.
