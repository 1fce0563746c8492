--------------------------- MODULE Operation_proofs ---------------------------
(***************************************************************************)
(* However many operations, dependencies, clients and threads there are,   *)
(* and whenever dependencies are added and removed, an operation that was  *)
(* not cancelled begins to execute after its dependencies have finished,   *)
(* and who waits for an operation goes on after its observers were told.   *)
(* If one client prepares operations before it queues them, none finishes  *)
(* without having run; if besides it adds none while a dependency is being *)
(* run, no notification is lost and no exception leaves a lock locked; and *)
(* without a circle of dependencies, as long as no lock was left locked,   *)
(* no circle of threads waits for itself.                                  *)
(***************************************************************************)
EXTENDS Operation, Lists_proofs

-----------------------------------------------------------------------------
\* What the code does with its lists of observers.

\* o is the first of the observers s, and only that.
OwnFirst(o, s) ==
    /\ Len(s) >= 1
    /\ s[1] = o
    /\ \A i \in 2..Len(s) : s[i] # o

\* o is the last of those in s that are still to be told, and only that.
OwnLast(o, s) ==
    /\ Len(s) >= 1
    /\ s[Len(s)] = o
    /\ \A i \in 1..(Len(s) - 1) : s[i] # o

\* What -removeObserver:forKeyPath: leaves.
LEMMA WithoutOther ==
    ASSUME NEW s \in Seq(Objects), NEW p
    PROVE  /\ Without(s, p) \in Seq(Objects)
           /\ \A o \in Ops : o # p /\ OwnFirst(o, s) => OwnFirst(o, Without(s, p))
<1> DEFINE places == {i \in 1..Len(s) : s[i] # p}
           t == Without(s, p)
<1>1. t = Only(s, places)
  BY DEF Without
<1>2. t \in Seq(Objects) /\ Selects(t, s, places, Len(s))
  BY <1>1, OnlySelects
<1>3. Len(s) \in Nat /\ Len(t) \in Nat
  BY <1>2
<1> HIDE DEF t
<1>4. ASSUME NEW o \in Ops, o # p, OwnFirst(o, s)
      PROVE  OwnFirst(o, t)
  <2>1. Len(s) >= 1 /\ s[1] = o /\ \A i \in 2..Len(s) : s[i] # o
    BY <1>4 DEF OwnFirst
  <2>2. PICK f \in [1..Len(t) -> places \cap (1..Len(s))] :
            /\ \A i \in 1..Len(t) : t[i] = s[f[i]]
            /\ \A i, j \in 1..Len(t) : i < j => f[i] < f[j]
            /\ \A k \in places \cap (1..Len(s)) : \E i \in 1..Len(t) : f[i] = k
    BY <1>2 DEF Selects
  <2>3. 1 \in places \cap (1..Len(s))
    BY <1>3, <1>4, <2>1
  <2>4. PICK i \in 1..Len(t) : f[i] = 1
    BY <2>2, <2>3
  <2>5. \A j \in 1..Len(t) : f[j] \in 1..Len(s)
    BY <2>2
  <2>6. Len(t) >= 1 /\ 1 \in 1..Len(t)
    BY <1>3
  <2>7. i = 1
    <3>1. ~(1 < i)
      BY <2>2, <2>4, <2>5, <2>6
    <3>2. QED
      BY <3>1
  <2>8. t[1] = o
    BY <2>1, <2>2, <2>4, <2>6, <2>7
  <2>9. ASSUME NEW j \in 2..Len(t) PROVE t[j] # o
    <3>1. j \in 1..Len(t) /\ 1 < j
      OBVIOUS
    <3>2. f[1] < f[j] /\ f[j] \in 1..Len(s)
      BY <2>2, <2>5, <2>6, <3>1
    <3>3. f[j] \in 2..Len(s)
      BY <3>2, <2>4, <2>7
    <3>4. QED
      BY <2>1, <2>2, <3>1, <3>3
  <2>10. QED
    BY <2>6, <2>8, <2>9 DEF OwnFirst
<1>5. QED
  BY <1>2, <1>4 DEF t

\* An observer that comes later does not take the first place.
LEMMA AppendOther ==
    ASSUME NEW s \in Seq(Objects), NEW p \in Objects
    PROVE  /\ Append(s, p) \in Seq(Objects)
           /\ \A o \in Ops : o # p /\ OwnFirst(o, s) => OwnFirst(o, Append(s, p))
<1>1. /\ Append(s, p) \in Seq(Objects) /\ Len(Append(s, p)) = Len(s) + 1
      /\ \A i \in 1..Len(s) : Append(s, p)[i] = s[i]
      /\ Append(s, p)[Len(s) + 1] = p
      /\ Len(s) \in Nat
  BY AppendProperties
<1>2. QED
  BY <1>1 DEF OwnFirst

\* Told in the reverse order, the first comes last.
LEMMA ReverseLast ==
    ASSUME NEW s \in Seq(Objects), NEW o \in Ops, OwnFirst(o, s)
    PROVE  OwnLast(o, Reverse(s))
<1> DEFINE t == Reverse(s)
<1>1. Len(s) \in Nat /\ Len(s) >= 1 /\ s[1] = o /\ \A i \in 2..Len(s) : s[i] # o
  BY DEF OwnFirst
<1>2. Len(t) = Len(s) /\ \A i \in 1..Len(s) : t[i] = s[(Len(s) - i) + 1]
  BY <1>1 DEF Reverse
<1> HIDE DEF t
<1>3. \A i \in 1..(Len(s) - 1) : i \in 1..Len(s) /\ (Len(s) - i) + 1 \in 2..Len(s)
  BY <1>1
<1>4. Len(s) \in 1..Len(s) /\ (Len(s) - Len(s)) + 1 = 1
  BY <1>1
<1>5. OwnLast(o, t)
  BY <1>1, <1>2, <1>3, <1>4 DEF OwnLast
<1>6. QED
  BY <1>5 DEF t

\* Reverse of a list is a list of the same elements.
LEMMA ReverseTyped ==
    ASSUME NEW s \in Seq(Objects)
    PROVE  Reverse(s) \in Seq(Objects)
<1>1. Len(s) \in Nat /\ \A i \in 1..Len(s) : s[i] \in Objects
  BY ElementOfSeq
<1>2. \A i \in 1..Len(s) : (Len(s) - i) + 1 \in 1..Len(s)
  BY <1>1
<1>3. Reverse(s) \in [1..Len(s) -> Objects]
  BY <1>1, <1>2 DEF Reverse
<1>4. QED
  BY <1>1, <1>3

\* The others are told first, and the operation last.
LEMMA TailLast ==
    ASSUME NEW s \in Seq(Objects), NEW o \in Ops, OwnLast(o, s)
    PROVE  /\ s # <<>> /\ Tail(s) \in Seq(Objects)
           /\ Head(s) = o => Tail(s) = <<>>
           /\ Head(s) # o => OwnLast(o, Tail(s))
<1>1. Len(s) \in Nat /\ Len(s) >= 1 /\ s[Len(s)] = o /\ \A i \in 1..(Len(s) - 1) : s[i] # o
  BY DEF OwnLast
<1>2. s # <<>> /\ Head(s) = s[1]
  BY <1>1
<1>3. /\ Tail(s) \in Seq(Objects) /\ Len(Tail(s)) = Len(s) - 1
      /\ \A i \in 1..(Len(s) - 1) : Tail(s)[i] = s[i + 1]
  <2>1. /\ Tail(s) \in Seq(Objects) /\ Len(Tail(s)) = Len(s) - 1
        /\ \A i \in 1..Len(Tail(s)) : Tail(s)[i] = s[i + 1]
    BY <1>2, HeadTailProperties
  <2>2. QED
    BY <2>1
<1>4. CASE Len(s) = 1
  <2>1. Head(s) = o /\ Tail(s) = <<>>
    BY <1>1, <1>2, <1>4, TailSet
  <2>2. QED
    BY <1>2, <1>3, <2>1
<1>5. CASE Len(s) > 1
  <2>1. Head(s) # o
    BY <1>1, <1>2, <1>5
  <2>2. \A i \in 1..(Len(s) - 2) : i \in 1..(Len(s) - 1) /\ i + 1 \in 1..(Len(s) - 1)
    BY <1>1
  <2>3. Len(s) - 1 \in 1..(Len(s) - 1) /\ (Len(s) - 1) + 1 = Len(s)
    BY <1>1, <1>5
  <2>4. OwnLast(o, Tail(s))
    BY <1>1, <1>3, <1>5, <2>2, <2>3 DEF OwnLast
  <2>5. QED
    BY <1>2, <1>3, <2>1, <2>4
<1>6. QED
  BY <1>1, <1>4, <1>5

\* Everybody else stays an observer.
LEMMA WithoutSet ==
    ASSUME NEW s \in Seq(Objects), NEW p
    PROVE  ToSet(Without(s, p)) = ToSet(s) \ {p}
<1> DEFINE places == {i \in 1..Len(s) : s[i] # p}
           t == Without(s, p)
<1>1. t \in Seq(Objects) /\ Selects(t, s, places, Len(s))
  BY OnlySelects DEF Without
<1>2. DOMAIN s = 1..Len(s) /\ DOMAIN t = 1..Len(t)
  BY <1>1
<1> HIDE DEF t
<1>3. PICK f \in [1..Len(t) -> places \cap (1..Len(s))] :
          /\ \A i \in 1..Len(t) : t[i] = s[f[i]]
          /\ \A i, j \in 1..Len(t) : i < j => f[i] < f[j]
          /\ \A k \in places \cap (1..Len(s)) : \E i \in 1..Len(t) : f[i] = k
  BY <1>1 DEF Selects
<1>4. \A i \in 1..Len(t) : t[i] \in ToSet(s) \ {p}
  BY <1>2, <1>3 DEF ToSet
<1>5. \A k \in 1..Len(s) : s[k] # p => s[k] \in ToSet(t)
  <2> SUFFICES ASSUME NEW k \in 1..Len(s), s[k] # p PROVE s[k] \in ToSet(t)
    OBVIOUS
  <2>1. PICK i \in 1..Len(t) : f[i] = k
    BY <1>3
  <2>2. QED
    BY <1>2, <1>3, <2>1 DEF ToSet
<1>6. QED
  BY <1>2, <1>4, <1>5 DEF ToSet, t

LEMMA ReverseSet ==
    ASSUME NEW s \in Seq(Objects)
    PROVE  ToSet(Reverse(s)) = ToSet(s)
<1> DEFINE t == Reverse(s)
<1>1. Len(s) \in Nat /\ DOMAIN s = 1..Len(s)
  OBVIOUS
<1>2. DOMAIN t = 1..Len(s) /\ \A i \in 1..Len(s) : t[i] = s[(Len(s) - i) + 1]
  BY DEF Reverse
<1> HIDE DEF t
<1>3. \A i \in 1..Len(s) : (Len(s) - i) + 1 \in 1..Len(s)
                           /\ (Len(s) - ((Len(s) - i) + 1)) + 1 = i
  BY <1>1
<1>4. \A i \in 1..Len(s) : t[i] \in ToSet(s) /\ s[i] \in ToSet(t)
  BY <1>1, <1>2, <1>3 DEF ToSet
<1>5. QED
  BY <1>1, <1>2, <1>4 DEF ToSet, t

\* Who is not told now is told later.
LEMMA TailKeeps ==
    ASSUME NEW s \in Seq(Objects), s # <<>>
    PROVE  ToSet(s) \subseteq {Head(s)} \cup ToSet(Tail(s))
<1> DEFINE t == Tail(s)
<1>1. /\ Len(s) \in Nat /\ Len(s) >= 1 /\ DOMAIN s = 1..Len(s) /\ Head(s) = s[1]
      /\ t \in Seq(Objects) /\ Len(t) = Len(s) - 1 /\ \A i \in 1..Len(t) : t[i] = s[i + 1]
  BY HeadTailProperties, EmptySeq
<1> HIDE DEF t
<1>2. \A i \in 1..Len(s) : i # 1 => i - 1 \in 1..Len(t) /\ (i - 1) + 1 = i
  BY <1>1
<1>3. DOMAIN t = 1..Len(t)
  BY <1>1
<1>4. \A i \in 1..Len(s) : i # 1 => s[i] \in ToSet(t)
  <2> SUFFICES ASSUME NEW i \in 1..Len(s), i # 1 PROVE s[i] \in ToSet(t)
    OBVIOUS
  <2>1. s[i] = t[i - 1]
    BY <1>1, <1>2
  <2>2. QED
    BY <1>2, <1>3, <2>1 DEF ToSet
<1>5. QED
  BY <1>1, <1>4 DEF ToSet, t

LEMMA TailSubset ==
    ASSUME NEW s \in Seq(Objects), s # <<>>
    PROVE  ToSet(Tail(s)) \subseteq ToSet(s)
<1> DEFINE t == Tail(s)
<1>1. /\ Len(s) \in Nat /\ Len(s) >= 1 /\ DOMAIN s = 1..Len(s)
      /\ t \in Seq(Objects) /\ Len(t) = Len(s) - 1 /\ \A i \in 1..Len(t) : t[i] = s[i + 1]
  BY HeadTailProperties, EmptySeq
<1> HIDE DEF t
<1>2. \A i \in 1..Len(t) : i + 1 \in 1..Len(s)
  BY <1>1
<1>3. DOMAIN t = 1..Len(t)
  BY <1>1
<1>4. QED
  BY <1>1, <1>2, <1>3 DEF ToSet, t

\* The lists of observers.
ObserverLists == Seq(Objects)

\* Whatever the code does with a list of observers, it stays one.
LEMMA ListSteps ==
    ASSUME NEW s \in ObserverLists
    PROVE  /\ \A p \in Objects : Append(s, p) \in ObserverLists
           /\ \A p : Without(s, p) \in ObserverLists
           /\ Reverse(s) \in ObserverLists
           /\ <<>> \in ObserverLists
           /\ s # <<>> => Head(s) \in Objects /\ Tail(s) \in ObserverLists
BY AppendOther, WithoutOther, ReverseTyped, HeadTailProperties DEF ObserverLists

-----------------------------------------------------------------------------
\* A thread changes an isReady, or has done so and has yet to say that.
ChangingPcs == {"ready", "unready", "report"}

\* A thread of the queue tells the observers of the operation it has finished.
TellingPcs == {"notify", "ready", "report"}

\* What the threads are with.
Typed ==
    /\ lock \in [Objects -> Threads \cup {None}]
    /\ kept \subseteq Objects
    /\ dependencies \in [Ops -> SUBSET Ops]
    /\ pc \in [Threads -> {"idle", "watch", "test", "ready", "unready", "report", "wait",
                           "start", "main", "finish", "change", "notify"}]
    /\ cur \in [Threads -> Ops \cup {None}]
    /\ dep \in [Threads -> Ops \cup {None}]
    /\ \A c \in Clients : pc[c] \in {"idle", "watch", "test", "wait"} \cup ChangingPcs
    /\ \A r \in Runners :
           pc[r] \in {"idle", "start", "main", "finish", "change"} \cup TellingPcs
    /\ \A t \in Threads : pc[t] # "idle" => cur[t] \in Ops
    /\ \A t \in Threads : pc[t] = "watch" => dep[t] \in Ops

\* What they have to tell.
ListsTyped ==
    /\ observers \in [Ops -> ObserverLists]
    /\ changing \in [Ops -> ObserverLists]
    /\ todo \in [Threads -> ObserverLists]
    /\ \A r \in Runners : pc[r] \in ChangingPcs =>
           todo[r] # <<>> /\ Head(todo[r]) \in Ops \ {cur[r]}

LEMMA TargetTyped ==
    ASSUME Typed, ListsTyped, NEW t \in Threads, pc[t] \in ChangingPcs
    PROVE  /\ cur[t] \in Ops /\ Target(t) \in Ops
           /\ t \in Clients => Target(t) = cur[t]
           /\ t \in Runners => /\ Target(t) = Head(todo[t]) /\ Target(t) # cur[t]
                               /\ todo[t] # <<>> /\ pc[t] # "unready"
BY OperationAssumption DEF Typed, ListsTyped, Target, Threads, ChangingPcs, TellingPcs

LEMMA TypedInit == Init => Typed /\ ListsTyped
<1>1. <<>> \in ObserverLists /\ \A o \in Ops : <<o>> \in ObserverLists
  BY DEF Objects, ObserverLists
<1>2. ASSUME Init PROVE Typed
  BY <1>2, OperationAssumption DEF Init, Typed, Threads, TellingPcs
<1>3. ASSUME Init PROVE ListsTyped
  BY <1>1, <1>3 DEF Init, ListsTyped, Threads, ChangingPcs
<1>4. QED
  BY <1>2, <1>3

\* A step of a thread.
Step(t) ==
    \/ t \in Clients /\ (ClientCall(t) \/ ClientStep(t))
    \/ t \in Runners /\ RunnerStep(t)

\* A thread acts on its own variables.
OthersKeep(t) ==
    \A u \in Threads \ {t} :
        pc'[u] = pc[u] /\ cur'[u] = cur[u] /\ dep'[u] = dep[u] /\ todo'[u] = todo[u]

LEMMA StepsAreOfThreads ==
    ASSUME [Next]_vars
    PROVE  UNCHANGED vars \/ \E t \in Threads : Step(t)
BY DEF Next, Step, Threads

LEMMA CallKeepsOthers ==
    ASSUME Typed, ListsTyped, NEW c \in Clients, ClientCall(c)
    PROVE  OthersKeep(c)
<1>1. ASSUME NEW o \in Ops, NEW d \in Ops, AddDependency(c, o, d) \/ RemoveDependency(c, o, d)
      PROVE  OthersKeep(c)
  BY <1>1 DEF AddDependency, RemoveDependency, Typed, ListsTyped, OthersKeep, Threads
<1>2. ASSUME NEW o \in Ops, Cancel(c, o) \/ AddToQueue(c, o) \/ WaitUntilFinished(c, o)
      PROVE  OthersKeep(c)
  BY <1>2 DEF Cancel, AddToQueue, WaitUntilFinished, Typed, ListsTyped, OthersKeep, Threads
<1>3. QED
  BY <1>1, <1>2 DEF ClientCall

LEMMA ChangeKeepsOthers ==
    ASSUME Typed, ListsTyped, NEW t \in Threads, SetReady(t) \/ Report(t)
    PROVE  OthersKeep(t)
BY DEF SetReady, Report, Resume, Raise, Typed, ListsTyped, OthersKeep

LEMMA ClientKeepsOthers ==
    ASSUME Typed, ListsTyped, NEW c \in Clients, Watch(c) \/ TestReady(c) \/ WaitReturns(c)
    PROVE  OthersKeep(c)
BY DEF Watch, TestReady, WaitReturns, Typed, ListsTyped, OthersKeep, Threads

LEMMA RunnerKeepsOthers ==
    ASSUME Typed, ListsTyped, NEW r \in Runners, RunnerStep(r), ~(SetReady(r) \/ Report(r))
    PROVE  OthersKeep(r)
BY DEF RunnerStep, Take, Start, Main, Finish, SetFinished, TellItself, TellQueue,
       TellDependent, EndFinish, Typed, ListsTyped, OthersKeep, Threads

LEMMA OthersAreKept ==
    ASSUME Typed, ListsTyped, NEW t \in Threads, Step(t)
    PROVE  /\ OthersKeep(t)
           /\ \A u \in Threads \ {t} : Target(u)' = Target(u)
<1>1. OthersKeep(t)
  BY CallKeepsOthers, ChangeKeepsOthers, ClientKeepsOthers, RunnerKeepsOthers
     DEF Step, ClientStep, Threads
<1>2. QED
  BY <1>1 DEF OthersKeep, Target

LEMMA CallKeepsTypes ==
    ASSUME Typed, ListsTyped, NEW c \in Clients, ClientCall(c)
    PROVE  Typed' /\ ListsTyped'
<1>1. c \in Threads /\ c \notin Runners
  BY OperationAssumption DEF Threads
<1>2. ASSUME NEW o \in Ops, NEW d \in Ops, AddDependency(c, o, d)
      PROVE  Typed' /\ ListsTyped'
  <2>1. Typed'
    BY <1>1, <1>2 DEF AddDependency, Typed, Threads, Objects, ChangingPcs, TellingPcs
  <2>2. ListsTyped'
    BY <1>1, <1>2 DEF AddDependency, Typed, ListsTyped, Threads
  <2>3. QED
    BY <2>1, <2>2
<1>3. ASSUME NEW o \in Ops, NEW d \in Ops, RemoveDependency(c, o, d)
      PROVE  Typed' /\ ListsTyped'
  <2>1. Typed'
    BY <1>1, <1>3 DEF RemoveDependency, Typed, Threads, Objects, ChangingPcs, TellingPcs
  <2>2. /\ observers[d] \in ObserverLists /\ changing[d] \in ObserverLists
        /\ Without(observers[d], o) \in ObserverLists /\ Without(changing[d], o) \in ObserverLists
    BY ListSteps DEF ListsTyped
  <2>3. ListsTyped'
    BY <1>1, <1>3, <2>2 DEF RemoveDependency, Typed, ListsTyped, Threads
  <2>4. QED
    BY <2>1, <2>3
<1>4. ASSUME NEW o \in Ops, Cancel(c, o) \/ AddToQueue(c, o) \/ WaitUntilFinished(c, o)
      PROVE  Typed' /\ ListsTyped'
  <2>1. Typed'
    BY <1>1, <1>4 DEF Cancel, AddToQueue, WaitUntilFinished, Typed, Threads, Objects,
                      ChangingPcs, TellingPcs, locks
  <2>2. ListsTyped'
    BY <1>1, <1>4 DEF Cancel, AddToQueue, WaitUntilFinished, Typed, ListsTyped, Threads
  <2>3. QED
    BY <2>1, <2>2
<1>5. QED
  BY <1>2, <1>3, <1>4 DEF ClientCall

LEMMA UnlockedTyped ==
    ASSUME Typed, NEW S
    PROVE  Unlocked(S) \in [Objects -> Threads \cup {None}]
BY DEF Typed, Unlocked

LEMMA SetReadyKeepsTypes ==
    ASSUME Typed, ListsTyped, NEW t \in Threads, SetReady(t)
    PROVE  Typed' /\ ListsTyped'
<1>1. pc[t] \in ChangingPcs /\ cur[t] \in Ops
  BY TargetTyped DEF SetReady, ChangingPcs
<1>2. Typed'
  BY <1>1 DEF SetReady, Typed, Threads, ChangingPcs, TellingPcs, locks
<1>3. ListsTyped'
  BY <1>1 DEF SetReady, Typed, ListsTyped, Threads, ChangingPcs
<1>4. QED
  BY <1>2, <1>3

LEMMA ReportKeepsTypes ==
    ASSUME Typed, ListsTyped, NEW t \in Threads, Report(t)
    PROVE  Typed' /\ ListsTyped'
<1> DEFINE o == Target(t)
<1>1. /\ pc[t] = "report" /\ cur[t] \in Ops /\ o \in Ops /\ o \in Objects
      /\ cur[t] \in Objects /\ Queue \in Objects
      /\ t \in Runners => todo[t] # <<>>
      /\ t \in Clients \/ t \in Runners
      /\ ~(t \in Clients /\ t \in Runners)
  BY TargetTyped, OperationAssumption DEF Report, ChangingPcs, Objects, Threads
<1>2. /\ UNCHANGED <<dependencies, changing, dep>>
      /\ \/ Resume(t) /\ kept' = kept
         \/ Raise(t)
      /\ observers' = observers \/ observers' = [observers EXCEPT ![o] = Append(@, Queue)]
  BY DEF Report, React
<1> HIDE DEF o
<1>3. lock' \in [Objects -> Threads \cup {None}] /\ kept' \subseteq Objects
  BY <1>1, <1>2, UnlockedTyped DEF Resume, Raise, Typed, o
<1>4. /\ cur' \in [Threads -> Ops \cup {None}]
      /\ t \in Runners => cur'[t] = cur[t] /\ pc'[t] \in {"notify", "finish"}
      /\ t \in Clients => cur'[t] = None /\ pc'[t] = "idle"
      /\ pc' \in [Threads -> {"idle", "watch", "test", "ready", "unready", "report", "wait",
                              "start", "main", "finish", "change", "notify"}]
  BY <1>1, <1>2 DEF Resume, Raise, Typed
<1>5. OthersKeep(t)
  BY ChangeKeepsOthers
<1>6. Typed'
  BY <1>1, <1>2, <1>3, <1>4, <1>5
     DEF Typed, OthersKeep, Threads, ChangingPcs, TellingPcs
<1>7. todo' \in [Threads -> ObserverLists]
  <2>1. todo[t] \in ObserverLists /\ <<>> \in ObserverLists
    BY ListSteps DEF ListsTyped
  <2>2. t \in Runners => Tail(todo[t]) \in ObserverLists
    BY <1>1, <2>1, ListSteps
  <2>3. QED
    BY <1>1, <1>2, <2>1, <2>2 DEF Resume, Raise, ListsTyped
<1>8. observers' \in [Ops -> ObserverLists]
  <2>1. Append(observers[o], Queue) \in ObserverLists
    BY <1>1, ListSteps DEF ListsTyped
  <2>2. QED
    BY <1>2, <2>1 DEF ListsTyped
<1>9. ListsTyped'
  BY <1>1, <1>2, <1>4, <1>5, <1>7, <1>8 DEF ListsTyped, OthersKeep, ChangingPcs, Threads
<1>10. QED
  BY <1>6, <1>9

LEMMA ClientStepKeepsTypes ==
    ASSUME Typed, ListsTyped, NEW c \in Clients, Watch(c) \/ TestReady(c) \/ WaitReturns(c)
    PROVE  Typed' /\ ListsTyped'
<1>1. /\ c \in Threads /\ c \notin Runners /\ cur[c] \in Ops /\ cur[c] \in Objects
      /\ Queue \in Objects /\ (pc[c] = "watch" => dep[c] \in Ops)
  BY OperationAssumption DEF Watch, TestReady, WaitReturns, Typed, Threads, Objects
<1>2. Typed'
  BY <1>1, UnlockedTyped DEF Watch, TestReady, WaitReturns, Typed, Threads, ChangingPcs,
                               locks
<1>3. observers' \in [Ops -> ObserverLists]
  <2>1. \/ observers' = observers
        \/ observers' = [observers EXCEPT ![cur[c]] = Append(@, Queue)]
        \/ pc[c] = "watch" /\ observers' = [observers EXCEPT ![dep[c]] = Append(@, cur[c])]
    BY DEF Watch, TestReady, WaitReturns, React
  <2>2. \A d \in Ops, p \in Objects : Append(observers[d], p) \in ObserverLists
    BY ListSteps DEF ListsTyped
  <2>3. CASE observers' = [observers EXCEPT ![cur[c]] = Append(@, Queue)]
    BY <1>1, <2>2, <2>3 DEF ListsTyped
  <2>4. CASE pc[c] = "watch" /\ observers' = [observers EXCEPT ![dep[c]] = Append(@, cur[c])]
    BY <1>1, <2>2, <2>4 DEF ListsTyped
  <2>5. QED
    BY <2>1, <2>3, <2>4 DEF ListsTyped
<1>4. OthersKeep(c) /\ UNCHANGED <<changing, todo>>
  BY ClientKeepsOthers DEF Watch, TestReady, WaitReturns
<1>5. ListsTyped'
  BY <1>1, <1>3, <1>4 DEF ListsTyped, OthersKeep, Threads
<1>6. QED
  BY <1>2, <1>5

LEMMA StartKeepsTypes ==
    ASSUME Typed, ListsTyped, NEW r \in Runners,
           (\E o \in Ops : Take(r, o)) \/ Start(r) \/ Main(r) \/ EndFinish(r)
    PROVE  Typed' /\ ListsTyped'
<1>1. r \in Threads /\ r \notin Clients
  BY OperationAssumption DEF Threads
<1>2. Typed'
  BY <1>1, UnlockedTyped DEF Take, Start, Main, EndFinish, Typed, Threads, TellingPcs,
                               locks
<1>3. ListsTyped'
  BY <1>1 DEF Take, Start, Main, EndFinish, Typed, ListsTyped, Threads, ChangingPcs
<1>4. QED
  BY <1>2, <1>3

LEMMA FinishKeepsTypes ==
    ASSUME Typed, ListsTyped, NEW r \in Runners, Finish(r) \/ SetFinished(r)
    PROVE  Typed' /\ ListsTyped'
<1>1. /\ r \in Threads /\ r \notin Clients /\ cur[r] \in Ops /\ cur[r] \in Objects
  BY OperationAssumption DEF Finish, SetFinished, Typed, Threads, Objects
<1>2. /\ observers[cur[r]] \in ObserverLists /\ <<>> \in ObserverLists
      /\ Reverse(changing[cur[r]]) \in ObserverLists
  BY <1>1, ListSteps DEF ListsTyped
<1>3. Typed'
  BY <1>1 DEF Finish, SetFinished, Typed, Threads, TellingPcs, locks
<1>4. changing' \in [Ops -> ObserverLists] /\ todo' \in [Threads -> ObserverLists]
  <2>1. \/ changing' = changing
        \/ changing' = [changing EXCEPT ![cur[r]] = observers[cur[r]]]
        \/ changing' = [changing EXCEPT ![cur[r]] = <<>>]
    BY DEF Finish, SetFinished
  <2>2. todo' = todo \/ todo' = [todo EXCEPT ![r] = Reverse(changing[cur[r]])]
    BY DEF Finish, SetFinished
  <2>3. QED
    BY <1>1, <1>2, <2>1, <2>2 DEF ListsTyped
<1>5. OthersKeep(r)
  BY RunnerKeepsOthers DEF RunnerStep, Finish, SetFinished, SetReady, Report
<1>6. pc'[r] \notin ChangingPcs /\ observers' = observers
  BY <1>1 DEF Finish, SetFinished, Typed, ChangingPcs
<1>7. ListsTyped'
  BY <1>4, <1>5, <1>6 DEF ListsTyped, OthersKeep, Threads
<1>8. QED
  BY <1>3, <1>7

LEMMA TellKeepsTypes ==
    ASSUME Typed, ListsTyped, NEW r \in Runners,
           TellItself(r) \/ TellQueue(r) \/ TellDependent(r)
    PROVE  Typed' /\ ListsTyped'
<1>1. /\ r \in Threads /\ r \notin Clients /\ cur[r] \in Ops /\ pc[r] = "notify"
      /\ todo[r] # <<>> /\ todo[r] \in ObserverLists
  BY OperationAssumption DEF TellItself, TellQueue, TellDependent, Typed, ListsTyped, Threads
<1>2. /\ Head(todo[r]) \in Objects /\ Tail(todo[r]) \in ObserverLists
      /\ \A p : Without(observers[cur[r]], p) \in ObserverLists
  BY <1>1, ListSteps DEF ListsTyped
<1>3. Typed'
  BY <1>1, <1>2 DEF TellItself, TellQueue, TellDependent, Typed, Objects, Threads,
                    TellingPcs, locks
<1>4. todo' \in [Threads -> ObserverLists] /\ observers' \in [Ops -> ObserverLists]
  <2>1. todo' = todo \/ todo' = [todo EXCEPT ![r] = Tail(@)]
    BY DEF TellItself, TellQueue, TellDependent
  <2>2. observers' = observers \/ \E p : observers' = [observers EXCEPT ![cur[r]] = Without(@, p)]
    BY DEF TellItself, TellQueue, TellDependent
  <2>3. todo' \in [Threads -> ObserverLists]
    BY <1>1, <1>2, <2>1 DEF ListsTyped
  <2>4. ASSUME NEW p, observers' = [observers EXCEPT ![cur[r]] = Without(@, p)]
        PROVE  observers' \in [Ops -> ObserverLists]
    BY <1>1, <1>2, <2>4 DEF ListsTyped
  <2>5. QED
    BY <2>2, <2>3, <2>4 DEF ListsTyped
<1>5. pc'[r] \in ChangingPcs => todo'[r] # <<>> /\ Head(todo'[r]) \in Ops \ {cur'[r]}
  BY <1>1, <1>2 DEF TellItself, TellQueue, TellDependent, Typed, Objects, ChangingPcs
<1>6. OthersKeep(r)
  BY RunnerKeepsOthers DEF RunnerStep, TellItself, TellQueue, TellDependent, SetReady, Report
<1>7. changing' = changing
  BY DEF TellItself, TellQueue, TellDependent
<1>8. ListsTyped'
  BY <1>4, <1>5, <1>6, <1>7 DEF ListsTyped, OthersKeep, Threads
<1>9. QED
  BY <1>3, <1>8

LEMMA StepKeepsTypes ==
    ASSUME Typed, ListsTyped, [Next]_vars
    PROVE  Typed' /\ ListsTyped'
<1>1. ASSUME NEW t \in Threads, Step(t) PROVE Typed' /\ ListsTyped'
  BY <1>1, CallKeepsTypes, SetReadyKeepsTypes, ReportKeepsTypes, ClientStepKeepsTypes,
     StartKeepsTypes, FinishKeepsTypes, TellKeepsTypes DEF Step, ClientStep, RunnerStep
<1>2. CASE UNCHANGED vars
  BY <1>2 DEF vars, locks, Typed, ListsTyped
<1>3. QED
  BY <1>1, <1>2, StepsAreOfThreads

-----------------------------------------------------------------------------
\* The pcs at which a thread has the lock of its operation.
LockingPcs == {"watch", "change"} \cup ChangingPcs \cup TellingPcs

\* A thread that is in the middle of a method has the lock the method took.
HoldsLocks ==
    /\ \A t \in Threads : pc[t] \in LockingPcs => lock[cur[t]] = t
    /\ \A t \in Threads : pc[t] \in ChangingPcs => lock[Target(t)] = t
    /\ \A t \in Threads : pc[t] = "test" => lock[Queue] = t

\* A step takes no lock of another thread and gives none back.
Respects(t) == \A x \in Objects : lock[x] \notin {None, t} => lock'[x] = lock[x]

OwnLocks(t) ==
    /\ pc'[t] \in LockingPcs => lock'[cur'[t]] = t
    /\ pc'[t] \in ChangingPcs => lock'[Target(t)'] = t
    /\ pc'[t] = "test" => lock'[Queue] = t

Located == Typed /\ ListsTyped /\ HoldsLocks

LEMMA LocatedInit == Init => Located
BY TypedInit DEF Init, Located, HoldsLocks, LockingPcs, ChangingPcs, TellingPcs

LEMMA UnlockedOne ==
    ASSUME NEW x \in Objects, NEW t, lock[x] = t, lock' = Unlocked({x})
    PROVE  /\ Respects(t)
           /\ \A y \in Objects : y # x => lock'[y] = lock[y]
BY DEF Respects, Unlocked

LEMMA CallLocks ==
    ASSUME Located, NEW c \in Clients, ClientCall(c)
    PROVE  Respects(c) /\ OwnLocks(c)
<1>1. /\ c \in Threads /\ c \notin Runners /\ pc[c] = "idle" /\ Ops \subseteq Objects
      /\ Queue \in Objects /\ Target(c)' = cur'[c] /\ DOMAIN lock = Objects
      /\ DOMAIN pc = Threads /\ DOMAIN cur = Threads
  BY OperationAssumption
     DEF Located, Typed, Threads, ClientCall, AddDependency, RemoveDependency, Cancel,
         AddToQueue, WaitUntilFinished, Objects, Target
<1>2. ASSUME NEW o \in Ops, NEW d \in Ops, AddDependency(c, o, d)
      PROVE  Respects(c) /\ OwnLocks(c)
  BY <1>1, <1>2 DEF AddDependency, Free, Respects, OwnLocks, LockingPcs, ChangingPcs, TellingPcs
<1>3. ASSUME NEW o \in Ops, NEW d \in Ops, RemoveDependency(c, o, d)
      PROVE  Respects(c) /\ OwnLocks(c)
  BY <1>1, <1>3 DEF RemoveDependency, Free, Respects, OwnLocks, LockingPcs, ChangingPcs, TellingPcs
<1>4. ASSUME NEW o \in Ops, Cancel(c, o)
      PROVE  Respects(c) /\ OwnLocks(c)
  BY <1>1, <1>4 DEF Cancel, Free, Respects, OwnLocks, LockingPcs, ChangingPcs, TellingPcs
<1>5. ASSUME NEW o \in Ops, AddToQueue(c, o) \/ WaitUntilFinished(c, o)
      PROVE  Respects(c) /\ OwnLocks(c)
  BY <1>1, <1>5 DEF AddToQueue, WaitUntilFinished, locks, Free, Respects, OwnLocks,
                    LockingPcs, ChangingPcs, TellingPcs
<1>6. QED
  BY <1>2, <1>3, <1>4, <1>5 DEF ClientCall

LEMMA ClientLocks ==
    ASSUME Located, NEW c \in Clients, Watch(c) \/ TestReady(c) \/ WaitReturns(c)
    PROVE  Respects(c) /\ OwnLocks(c)
<1>1. /\ c \in Threads /\ c \notin Runners /\ Ops \subseteq Objects /\ cur[c] \in Ops
      /\ Queue \in Objects /\ Target(c)' = cur'[c] /\ DOMAIN pc = Threads
  BY OperationAssumption
     DEF Located, Typed, Threads, Watch, TestReady, WaitReturns, Objects, Target
<1>2. CASE Watch(c)
  <2>1. lock[cur[c]] = c
    BY <1>1, <1>2 DEF Watch, Located, HoldsLocks, LockingPcs
  <2>2. lock' = lock \/ lock' = Unlocked({cur[c]})
    BY <1>2 DEF Watch
  <2>3. Respects(c)
    BY <1>1, <2>1, <2>2, UnlockedOne DEF Respects
  <2>4. OwnLocks(c)
    BY <1>1, <1>2, <2>1 DEF Watch, OwnLocks, LockingPcs, ChangingPcs, TellingPcs
  <2>5. QED
    BY <2>3, <2>4
<1>3. CASE TestReady(c)
  <2>1. lock[Queue] = c /\ lock' = Unlocked({Queue}) /\ pc' = [pc EXCEPT ![c] = "idle"]
    BY <1>1, <1>3 DEF TestReady, Located, HoldsLocks
  <2>2. Respects(c)
    BY <1>1, <2>1, UnlockedOne
  <2>3. QED
    BY <1>1, <2>1, <2>2 DEF OwnLocks, LockingPcs, ChangingPcs, TellingPcs
<1>4. CASE WaitReturns(c)
  BY <1>1, <1>4 DEF WaitReturns, locks, Respects, OwnLocks, LockingPcs, ChangingPcs, TellingPcs
<1>5. QED
  BY <1>2, <1>3, <1>4

LEMMA ChangeLocks ==
    ASSUME Located, NEW t \in Threads, SetReady(t) \/ Report(t)
    PROVE  Respects(t) /\ OwnLocks(t)
<1>1. /\ pc[t] \in ChangingPcs /\ cur[t] \in Ops /\ Target(t) \in Ops
      /\ lock[cur[t]] = t /\ lock[Target(t)] = t
      /\ Ops \subseteq Objects /\ Queue \in Objects /\ Queue \notin Ops
      /\ DOMAIN pc = Threads /\ DOMAIN cur = Threads /\ DOMAIN lock = Objects
      /\ t \in Runners => Target(t) # cur[t]
  BY TargetTyped, OperationAssumption
     DEF SetReady, Report, Located, HoldsLocks, ChangingPcs, LockingPcs, Typed, Objects
<1>2. CASE SetReady(t)
  <2>1. Target(t)' = Target(t) /\ cur' = cur /\ lock' = lock
    BY <1>2 DEF SetReady, Target, locks
  <2>2. pc'[t] = "report"
    BY <1>1, <1>2 DEF SetReady
  <2>3. QED
    BY <1>1, <2>1, <2>2 DEF Respects, OwnLocks, LockingPcs
<1>3. CASE Report(t) /\ Resume(t)
  <2>1. lock' = Unlocked({Target(t)})
    BY <1>3 DEF Resume
  <2>2. Respects(t) /\ \A y \in Objects : y # Target(t) => lock'[y] = lock[y]
    BY <1>1, <2>1, UnlockedOne
  <2>3. /\ t \in Clients => pc'[t] = "idle"
        /\ t \notin Clients => pc'[t] = "notify" /\ cur'[t] = cur[t]
    BY <1>1, <1>3 DEF Resume
  <2>4. QED
    BY <1>1, <2>2, <2>3 DEF OwnLocks, LockingPcs, ChangingPcs, TellingPcs, Threads
<1>4. CASE Report(t) /\ ~Resume(t)
  <2>1. Raise(t) /\ Free(Queue, t)
    BY <1>4 DEF Report
  <2>2. lock' = [lock EXCEPT ![Queue] = t] /\ pc'[t] \in {"idle", "finish"}
    BY <1>1, <2>1 DEF Raise
  <2>3. QED
    BY <1>1, <2>1, <2>2 DEF Respects, OwnLocks, Free, LockingPcs, ChangingPcs, TellingPcs
<1>5. QED
  BY <1>2, <1>3, <1>4 DEF Report

LEMMA RunnerLocks ==
    ASSUME Located, NEW r \in Runners, RunnerStep(r), ~(SetReady(r) \/ Report(r))
    PROVE  Respects(r) /\ OwnLocks(r)
<1>1. /\ r \in Threads /\ r \notin Clients /\ Ops \subseteq Objects /\ Queue \in Objects
      /\ DOMAIN pc = Threads /\ DOMAIN lock = Objects /\ DOMAIN cur = Threads
      /\ pc[r] # "idle" => cur[r] \in Ops
      /\ pc[r] \in LockingPcs => lock[cur[r]] = r
  BY OperationAssumption DEF Threads, Objects, Located, Typed, HoldsLocks
<1>2. ASSUME (\E o \in Ops : Take(r, o)) \/ Start(r) \/ Main(r)
      PROVE  Respects(r) /\ OwnLocks(r)
  BY <1>1, <1>2 DEF Take, Start, Main, locks, Respects, OwnLocks, LockingPcs, ChangingPcs, TellingPcs
<1>3. CASE Finish(r)
  BY <1>1, <1>3 DEF Finish, Free, Respects, OwnLocks, LockingPcs, ChangingPcs, TellingPcs
<1>4. CASE SetFinished(r) \/ TellItself(r) \/ TellQueue(r)
  BY <1>1, <1>4 DEF SetFinished, TellItself, TellQueue, locks, Respects, OwnLocks, LockingPcs,
                    ChangingPcs, TellingPcs
<1>5. CASE TellDependent(r)
  <2>1. /\ pc[r] = "notify" /\ cur[r] \in Ops /\ lock[cur[r]] = r /\ cur' = cur
        /\ todo[r] # <<>> /\ todo[r] \in ObserverLists
    BY <1>1, <1>5 DEF TellDependent, LockingPcs, TellingPcs, Located, ListsTyped
  <2>2. Head(todo[r]) \in Objects
    BY <2>1, ListSteps
  <2>3. Target(r)' = Head(todo'[r])
    BY <1>1 DEF Target
  <2>4. CASE lock' = lock /\ pc' = pc
    BY <1>1, <2>1, <2>4 DEF Respects, OwnLocks, LockingPcs, ChangingPcs, TellingPcs
  <2>5. CASE /\ lock' = [lock EXCEPT ![Head(todo[r])] = r] /\ Free(Head(todo[r]), r)
             /\ todo' = todo
    <3>1. /\ lock'[Head(todo[r])] = r /\ lock'[cur[r]] = r
          /\ \A x \in Objects : x # Head(todo[r]) => lock'[x] = lock[x]
      BY <1>1, <2>1, <2>2, <2>5
    <3>2. Respects(r)
      BY <2>2, <2>5, <3>1 DEF Respects, Free
    <3>3. pc'[r] # "test"
      BY <1>1, <1>5, <2>1 DEF TellDependent
    <3>4. QED
      BY <2>1, <2>3, <2>5, <3>1, <3>2, <3>3 DEF OwnLocks
  <2>6. QED
    BY <1>5, <2>4, <2>5 DEF TellDependent
<1>6. CASE EndFinish(r)
  <2>1. /\ lock[cur[r]] = r /\ cur[r] \in Objects /\ lock' = Unlocked({cur[r]})
        /\ pc' = [pc EXCEPT ![r] = "finish"]
    BY <1>1, <1>6 DEF EndFinish, LockingPcs, TellingPcs
  <2>2. Respects(r)
    BY <2>1, UnlockedOne
  <2>3. QED
    BY <1>1, <2>1, <2>2 DEF OwnLocks, LockingPcs, ChangingPcs, TellingPcs
<1>7. QED
  BY <1>2, <1>3, <1>4, <1>5, <1>6 DEF RunnerStep

LEMMA StepRespects ==
    ASSUME Located, NEW t \in Threads, Step(t)
    PROVE  Respects(t) /\ OwnLocks(t)
BY CallLocks, ClientLocks, ChangeLocks, RunnerLocks DEF Step, ClientStep, Threads

LEMMA StepLocates == Located /\ [Next]_vars => Located'
<1> SUFFICES ASSUME Located, [Next]_vars PROVE HoldsLocks'
  BY StepKeepsTypes DEF Located
<1>1. ASSUME NEW t \in Threads, Step(t), NEW u \in Threads
      PROVE  /\ pc'[u] \in LockingPcs => lock'[cur'[u]] = u
             /\ pc'[u] \in ChangingPcs => lock'[Target(u)'] = u
             /\ pc'[u] = "test" => lock'[Queue] = u
  <2>1. CASE u = t
    BY <1>1, <2>1, StepRespects DEF OwnLocks
  <2>2. CASE u # t
    <3>1. pc'[u] = pc[u] /\ cur'[u] = cur[u] /\ Target(u)' = Target(u)
      BY <1>1, <2>2, OthersAreKept DEF Located, OthersKeep
    <3>2. \A x \in Objects : lock[x] = u => lock'[x] = u
      BY <1>1, <2>2, StepRespects, OperationAssumption DEF Respects, Threads
    <3>3. /\ pc[u] \in LockingPcs => cur[u] \in Objects
          /\ pc[u] \in ChangingPcs => Target(u) \in Objects
          /\ Queue \in Objects
      BY TargetTyped DEF Located, Typed, LockingPcs, ChangingPcs, TellingPcs, Objects
    <3>4. QED
      BY <3>1, <3>2, <3>3 DEF Located, HoldsLocks
  <2>3. QED
    BY <2>1, <2>2
<1>2. CASE UNCHANGED vars
  BY <1>2 DEF vars, locks, Located, HoldsLocks, Target
<1>3. QED
  BY <1>1, <1>2, StepsAreOfThreads DEF HoldsLocks

-----------------------------------------------------------------------------
\* A client gives o a dependency and has not yet said that o is not ready.
BeingChanged(o) == \E t \in Threads : pc[t] \in {"watch", "unready"} /\ cur[t] = o

\* The operations whose readiness still means something.
Undecided(o) == o \notin cancelled \cup executing \cup finished

\* A ready operation that nobody changes is one whose dependencies have all
\* finished, and so is one that is made ready now.
InOrder ==
    /\ \A t \in Threads : pc[t] = "ready" =>
           Target(t) \in cancelled \/ dependencies[Target(t)] \subseteq finished
    /\ \A o \in Ops : o \in ready /\ Undecided(o) /\ ~BeingChanged(o)
           => dependencies[o] \subseteq finished

OrderInv == Located /\ InOrder

LEMMA OrderInvInit == Init => OrderInv
BY LocatedInit DEF Init, OrderInv, InOrder

\* A step that leaves the dependencies as they are.
LEMMA OrderIsKept ==
    ASSUME OrderInv, NEW t \in Threads, Step(t),
           dependencies' = dependencies,
           finished \subseteq finished', cancelled \subseteq cancelled',
           executing \subseteq executing' \cup finished',
           pc'[t] = "ready" =>
               Target(t)' \in cancelled' \/ dependencies[Target(t)'] \subseteq finished,
           \A o \in ready' \ ready : o \in cancelled \/ dependencies[o] \subseteq finished,
           pc[t] \in {"watch", "unready"} /\ cur[t] \in ready' =>
               pc'[t] \in {"watch", "unready"} /\ cur'[t] = cur[t]
    PROVE  InOrder'
<1>1. \A u \in Threads \ {t} :
          pc'[u] = pc[u] /\ cur'[u] = cur[u] /\ Target(u)' = Target(u)
  BY OthersAreKept DEF OrderInv, Located, OthersKeep
<1>2. ASSUME NEW u \in Threads, pc'[u] = "ready"
      PROVE  Target(u)' \in cancelled' \/ dependencies'[Target(u)'] \subseteq finished'
  BY <1>1, <1>2 DEF OrderInv, InOrder
<1>3. ASSUME NEW o \in Ops, o \in ready', Undecided(o)', ~BeingChanged(o)'
      PROVE  dependencies'[o] \subseteq finished'
  <2>1. Undecided(o)
    BY <1>3 DEF Undecided
  <2>2. ~BeingChanged(o)
    BY <1>1, <1>3 DEF BeingChanged
  <2>3. QED
    BY <1>3, <2>1, <2>2 DEF OrderInv, InOrder, Undecided
<1>4. QED
  BY <1>2, <1>3 DEF InOrder

LEMMA CallKeepsOrder ==
    ASSUME OrderInv, NEW c \in Clients, ClientCall(c)
    PROVE  InOrder'
<1>1. /\ c \in Threads /\ c \notin Runners /\ pc[c] = "idle" /\ Target(c)' = cur'[c]
      /\ DOMAIN pc = Threads /\ DOMAIN cur = Threads /\ Step(c)
      /\ dependencies \in [Ops -> SUBSET Ops]
      /\ \A u \in Threads \ {c} :
             pc'[u] = pc[u] /\ cur'[u] = cur[u] /\ Target(u)' = Target(u)
  <2>1. c \in Threads /\ c \notin Runners /\ Step(c)
    BY OperationAssumption DEF Threads, Step
  <2>2. QED
    BY <2>1, OthersAreKept
       DEF OrderInv, Located, Typed, OthersKeep, ClientCall, AddDependency, RemoveDependency,
           Cancel, AddToQueue, WaitUntilFinished, Target
<1>2. \A u \in Threads : pc[u] = "ready" => lock[Target(u)] = u /\ Target(u) \in Ops
  BY TargetTyped DEF OrderInv, Located, HoldsLocks, ChangingPcs
<1>3. ASSUME NEW o \in Ops, NEW d \in Ops, AddDependency(c, o, d)
      PROVE  InOrder'
  <2>1. /\ UNCHANGED flags /\ Free(o, c)
        /\ dependencies' = [dependencies EXCEPT ![o] = @ \cup {d}]
    BY <1>3 DEF AddDependency
  <2>2. \A p \in Ops : p # o => dependencies'[p] = dependencies[p]
    BY <1>1, <2>1
  <2>3. /\ pc'[c] # "ready"
        /\ Matters(o, d) => pc'[c] = "watch" /\ cur'[c] = o
    BY <1>1, <1>3 DEF AddDependency
  <2>4. ASSUME NEW u \in Threads, pc'[u] = "ready"
        PROVE  Target(u)' \in cancelled' \/ dependencies'[Target(u)'] \subseteq finished'
    <3>1. u # c /\ pc[u] = "ready" /\ Target(u)' = Target(u)
      BY <1>1, <2>3, <2>4
    <3>2. Target(u) # o
      BY <1>2, <2>1, <3>1, OperationAssumption DEF Free, Threads
    <3>3. QED
      BY <1>2, <2>1, <2>2, <3>1, <3>2 DEF OrderInv, InOrder, flags
  <2>5. ASSUME NEW p \in Ops, p \in ready', Undecided(p)', ~BeingChanged(p)'
        PROVE  dependencies'[p] \subseteq finished'
    <3>1. p \in ready /\ Undecided(p) /\ ~BeingChanged(p) /\ finished' = finished
      BY <1>1, <2>1, <2>5 DEF Undecided, BeingChanged, flags
    <3>2. dependencies[p] \subseteq finished
      BY <3>1 DEF OrderInv, InOrder
    <3>3. p = o => d \in finished
      BY <1>1, <2>3, <2>5, <3>1 DEF Matters, Undecided, BeingChanged
    <3>4. QED
      BY <1>1, <2>1, <2>2, <3>1, <3>2, <3>3
  <2>6. QED
    BY <2>4, <2>5 DEF InOrder
<1>4. ASSUME NEW o \in Ops, NEW d \in Ops, RemoveDependency(c, o, d)
      PROVE  InOrder'
  <2>1. /\ UNCHANGED flags
        /\ \A p \in Ops : dependencies'[p] \subseteq dependencies[p]
        /\ pc'[c] = "ready" => cur'[c] = o /\ dependencies'[o] \subseteq finished
    BY <1>1, <1>4 DEF RemoveDependency, MakesReady
  <2>2. \A p \in Ops : ~BeingChanged(p)' => ~BeingChanged(p)
    BY <1>1 DEF BeingChanged
  <2>3. ASSUME NEW u \in Threads, pc'[u] = "ready"
        PROVE  Target(u)' \in cancelled' \/ dependencies'[Target(u)'] \subseteq finished'
    <3>1. CASE u = c
      BY <1>1, <2>1, <2>3, <3>1 DEF flags
    <3>2. CASE u # c
      BY <1>1, <1>2, <2>1, <2>3, <3>2 DEF OrderInv, InOrder, flags
    <3>3. QED
      BY <3>1, <3>2
  <2>4. ASSUME NEW p \in Ops, p \in ready', Undecided(p)', ~BeingChanged(p)'
        PROVE  dependencies'[p] \subseteq finished'
    <3>1. p \in ready /\ Undecided(p) /\ finished' = finished
      BY <2>1, <2>4 DEF Undecided, flags
    <3>2. dependencies[p] \subseteq finished
      BY <2>2, <2>4, <3>1 DEF OrderInv, InOrder
    <3>3. QED
      BY <2>1, <3>1, <3>2
  <2>5. QED
    BY <2>3, <2>4 DEF InOrder
<1>5. ASSUME NEW o \in Ops, Cancel(c, o)
      PROVE  InOrder'
  <2>1. /\ UNCHANGED <<dependencies, ready, executing, finished>>
        /\ cancelled' = cancelled \cup {o}
        /\ pc'[c] = "ready" => cur'[c] = o
    BY <1>1, <1>5 DEF Cancel
  <2>2. QED
    BY <1>1, <2>1, OrderIsKept
<1>6. ASSUME NEW o \in Ops, AddToQueue(c, o) \/ WaitUntilFinished(c, o)
      PROVE  InOrder'
  <2>1. UNCHANGED <<dependencies, flags>> /\ pc'[c] # "ready"
    BY <1>1, <1>6 DEF AddToQueue, WaitUntilFinished
  <2>2. QED
    BY <1>1, <2>1, OrderIsKept DEF flags
<1>7. QED
  BY <1>3, <1>4, <1>5, <1>6 DEF ClientCall

LEMMA ChangeKeepsOrder ==
    ASSUME OrderInv, NEW t \in Threads, SetReady(t) \/ Report(t), Step(t)
    PROVE  InOrder'
<1>1. /\ pc[t] \in ChangingPcs /\ DOMAIN pc = Threads
      /\ t \in Runners => pc[t] # "unready"
      /\ t \in Clients => Target(t) = cur[t]
      /\ t \in Clients \/ t \in Runners
  BY TargetTyped DEF SetReady, Report, OrderInv, Located, ChangingPcs, Typed, Threads
<1>2. UNCHANGED <<dependencies, cancelled, executing, finished>>
  BY DEF SetReady, Report, flags
<1>3. pc'[t] \in {"report", "idle", "notify", "finish"}
  BY <1>1 DEF SetReady, Report, Resume, Raise
<1>4. \A o \in ready' \ ready : o \in cancelled \/ dependencies[o] \subseteq finished
  BY DEF SetReady, Report, OrderInv, InOrder, flags
<1>5. pc[t] \in {"watch", "unready"} => cur[t] \notin ready'
  BY <1>1 DEF SetReady, Report, ChangingPcs
<1>6. QED
  BY <1>1, <1>2, <1>3, <1>4, <1>5, OrderIsKept

LEMMA ClientStepKeepsOrder ==
    ASSUME OrderInv, NEW c \in Clients, Watch(c) \/ TestReady(c) \/ WaitReturns(c), Step(c)
    PROVE  InOrder'
<1>1. c \in Threads /\ DOMAIN pc = Threads /\ DOMAIN cur = Threads
  BY DEF OrderInv, Located, Typed, Threads
<1>2. UNCHANGED <<dependencies, flags>>
  BY DEF Watch, TestReady, WaitReturns
<1>3. pc'[c] # "ready"
  BY <1>1 DEF Watch, TestReady, WaitReturns
<1>4. pc[c] \in {"watch", "unready"} /\ cur[c] \in ready' =>
          pc'[c] \in {"watch", "unready"} /\ cur'[c] = cur[c]
  BY <1>1, <1>2 DEF Watch, TestReady, WaitReturns, flags
<1>5. QED
  BY <1>1, <1>2, <1>3, <1>4, OrderIsKept DEF flags

LEMMA RunnerKeepsOrder ==
    ASSUME OrderInv, NEW r \in Runners, RunnerStep(r), ~(SetReady(r) \/ Report(r)), Step(r)
    PROVE  InOrder'
<1>1. /\ r \in Threads /\ r \notin Clients /\ DOMAIN pc = Threads
      /\ pc[r] \notin {"watch", "unready"}
  BY OperationAssumption DEF OrderInv, Located, Typed, Threads, RunnerStep, SetReady, Report,
     Take, Start, Main, Finish, SetFinished, TellItself, TellQueue, TellDependent, EndFinish
<1>2. /\ dependencies' = dependencies /\ ready' = ready /\ cancelled' = cancelled
      /\ finished \subseteq finished' /\ executing \subseteq executing' \cup finished'
  BY DEF RunnerStep, SetReady, Report, Take, Start, Main, Finish, SetFinished, TellItself,
         TellQueue, TellDependent, EndFinish, flags
<1>3. ASSUME pc'[r] = "ready"
      PROVE  Target(r)' \in cancelled' \/ dependencies[Target(r)'] \subseteq finished
  <2>1. TellDependent(r)
    BY <1>1, <1>3 DEF RunnerStep, SetReady, Report, Take, Start, Main, Finish, SetFinished,
       TellItself, TellQueue, EndFinish
  <2>2. MakesReady(Head(todo[r]), dependencies[Head(todo[r])]) /\ todo' = todo
    BY <1>1, <1>3, <2>1 DEF TellDependent
  <2>3. QED
    BY <1>1, <2>2 DEF MakesReady, Target
<1>4. QED
  BY <1>1, <1>2, <1>3, OrderIsKept

LEMMA StepKeepsOrder == OrderInv /\ [Next]_vars => OrderInv'
<1> SUFFICES ASSUME OrderInv, [Next]_vars PROVE InOrder'
  BY StepLocates DEF OrderInv
<1>1. ASSUME NEW t \in Threads, Step(t) PROVE InOrder'
  BY <1>1, CallKeepsOrder, ChangeKeepsOrder, ClientStepKeepsOrder, RunnerKeepsOrder
     DEF Step, ClientStep, Threads
<1>2. CASE UNCHANGED vars
  BY <1>2 DEF vars, flags, OrderInv, InOrder, Undecided, BeingChanged, Target
<1>3. QED
  BY <1>1, <1>2, StepsAreOfThreads

\* One step: no action but -start lets an operation execute, and -start under the
\* operation's lock, when nobody is half way through -addDependency:.
LEMMA StepInOrder ==
    ASSUME OrderInv, [Next]_vars
    PROVE  \A o \in Ops : (o \in executing' \ executing /\ o \notin cancelled)
               => dependencies[o] \subseteq finished
<1>1. ASSUME NEW r \in Runners, Start(r), NEW o \in executing' \ executing, o \notin cancelled
      PROVE  dependencies[o] \subseteq finished
  <2>1. o = cur[r] /\ Free(o, r) /\ MayStart(o) /\ pc[r] = "start"
    BY <1>1 DEF Start
  <2>2. o \in Ops /\ r \in Threads
    BY <2>1 DEF OrderInv, Located, Typed, Threads
  <2>3. ~BeingChanged(o)
    BY <2>1, <2>2, OperationAssumption
       DEF BeingChanged, OrderInv, Located, HoldsLocks, LockingPcs, ChangingPcs, Free, Threads
  <2>4. QED
    BY <1>1, <2>1, <2>2, <2>3 DEF OrderInv, InOrder, MayStart, Undecided
<1>2. ASSUME NEW r \in Runners, RunnerStep(r), ~Start(r)
      PROVE  executing' \subseteq executing
  BY <1>2 DEF RunnerStep, Take, Main, Finish, SetFinished, TellItself, TellQueue,
              TellDependent, SetReady, Report, EndFinish, flags
<1>3. ASSUME NEW c \in Clients, ClientCall(c) \/ ClientStep(c)
      PROVE  executing' = executing
  BY <1>3 DEF ClientCall, ClientStep, AddDependency, RemoveDependency, Cancel, AddToQueue,
              WaitUntilFinished, Watch, SetReady, Report, TestReady, WaitReturns, flags
<1>4. QED
  BY <1>1, <1>2, <1>3 DEF Next, vars, flags

\* Headers/Foundation/NSOperation.h, -addDependency:: "The receiver is not
\* considered ready to execute until all of its dependencies have finished
\* executing."
THEOREM DependenciesFirst == Spec => StartsAfterDependencies
<1>1. OrderInv /\ [Next]_vars =>
        [\A o \in Ops : (o \in executing' \ executing /\ o \notin cancelled)
             => dependencies[o] \subseteq finished]_vars
  BY StepInOrder
<1>2. QED
  BY <1>1, OrderInvInit, StepKeepsOrder, PTL DEF Spec, StartsAfterDependencies

-----------------------------------------------------------------------------
\* An operation of the queue waits to be ready, waits for a thread or is with a
\* thread, and is in one of these places at a time; it leaves the first of them
\* when it is ready, which it stays.
Places ==
    /\ waiting \subseteq ready /\ awaited \cap waiting = {}
    /\ awaited \cup waiting \cup executing \cup finished \subseteq queued
    /\ (awaited \cup waiting) \cap (executing \cup finished) = {}
    /\ finished \subseteq ran \cup cancelled

\* A thread of the queue has an operation that no other has.
RunnerPlaces ==
    \A r \in Runners :
        /\ pc[r] # "idle" =>
             /\ cur[r] \in queued \ (awaited \cup waiting)
             /\ \A s \in Runners : pc[s] # "idle" /\ cur[s] = cur[r] => s = r
        /\ pc[r] = "start" => MayStart(cur[r])
        /\ pc[r] \in {"finish", "change"} \cup TellingPcs => cur[r] \in ran \cup cancelled
        /\ pc[r] = "report" => Target(r) \in ready

\* A client makes an operation not ready only before it is queued.
ClientPlaces ==
    \A c \in Clients :
        /\ pc[c] \in {"watch", "unready"} => cur[c] \notin queued
        /\ pc[c] = "test" => cur[c] \in awaited
        /\ pc[c] = "report" => cur[c] \in ready \/ cur[c] \notin queued

PlaceInv == Places /\ RunnerPlaces /\ ClientPlaces

\* One client, which prepares an operation before it queues it.
Orderly == LateAddition = FALSE /\ \E c : Clients = {c}

LEMMA PlaceInvInit == Init => PlaceInv
BY OperationAssumption
   DEF Init, PlaceInv, Places, RunnerPlaces, ClientPlaces, TellingPcs, Threads

LEMMA ClientKeepsPlaces ==
    ASSUME Orderly, OrderInv, PlaceInv, NEW c \in Clients,
           ClientCall(c) \/ Watch(c) \/ TestReady(c) \/ WaitReturns(c), Step(c)
    PROVE  PlaceInv'
<1>1. /\ c \in Threads /\ c \notin Runners /\ Clients = {c}
      /\ DOMAIN pc = Threads /\ DOMAIN cur = Threads
      /\ \A r \in Runners : r \in Threads /\ pc'[r] = pc[r] /\ cur'[r] = cur[r]
                            /\ Target(r)' = Target(r)
  BY OperationAssumption, OthersAreKept
     DEF Orderly, OrderInv, Located, Typed, OthersKeep, Threads
<1>2. /\ executing' = executing /\ finished' = finished /\ ran' = ran
      /\ ready' = ready /\ cancelled \subseteq cancelled' /\ queued \subseteq queued'
  BY DEF ClientCall, Watch, TestReady, WaitReturns, AddDependency, RemoveDependency, Cancel,
         AddToQueue, WaitUntilFinished, flags, queue
<1>3. CASE UNCHANGED queue
  <2>1. Places' /\ RunnerPlaces'
    BY <1>1, <1>2, <1>3 DEF PlaceInv, Places, RunnerPlaces, MayStart, queue
  <2>2. ASSUME NEW o \in Ops, NEW d \in Ops, AddDependency(c, o, d) \/ RemoveDependency(c, o, d)
        PROVE  pc'[c] \in {"idle", "watch", "ready"} /\ (pc'[c] = "watch" => cur'[c] \notin queued)
    BY <1>1, <2>2 DEF AddDependency, RemoveDependency, MayChange, Orderly
  <2>3. ASSUME NEW o \in Ops, Cancel(c, o) \/ AddToQueue(c, o) \/ WaitUntilFinished(c, o)
        PROVE  pc'[c] \in {"idle", "ready", "wait"}
    BY <1>1, <1>3, <2>3 DEF Cancel, AddToQueue, WaitUntilFinished, queue
  <2>4. ASSUME Watch(c) \/ TestReady(c) \/ WaitReturns(c)
        PROVE  \/ pc'[c] = "idle"
               \/ pc[c] = "watch" /\ pc'[c] = "unready" /\ cur'[c] = cur[c]
    BY <1>1, <2>4 DEF Watch, TestReady, WaitReturns
  <2>5. ClientPlaces'
    BY <1>1, <1>3, <2>2, <2>3, <2>4 DEF ClientCall, PlaceInv, ClientPlaces, queue
  <2>6. QED
    BY <2>1, <2>5 DEF PlaceInv
<1>4. CASE TestReady(c) /\ cur[c] \in ready
  <2>1. /\ awaited' = awaited \ {cur[c]} /\ waiting' = waiting \cup {cur[c]}
        /\ queued' = queued /\ pc'[c] = "idle" /\ cur[c] \in awaited
    BY <1>1, <1>4 DEF TestReady, React, PlaceInv, ClientPlaces
  <2>2. Places'
    BY <1>2, <1>4, <2>1 DEF PlaceInv, Places
  <2>3. RunnerPlaces'
    BY <1>1, <1>2, <2>1 DEF PlaceInv, Places, RunnerPlaces, MayStart
  <2>4. ClientPlaces'
    BY <1>1, <2>1 DEF ClientPlaces
  <2>5. QED
    BY <2>2, <2>3, <2>4 DEF PlaceInv
<1>5. ASSUME NEW o \in Ops, AddToQueue(c, o)
      PROVE  PlaceInv'
  <2>1. /\ awaited' = awaited \cup {o} /\ waiting' = waiting /\ o \notin queued
        /\ queued' = queued \cup {o} /\ pc'[c] = "test" /\ cur'[c] = o
    BY <1>1, <1>5 DEF AddToQueue
  <2>2. Places'
    BY <1>2, <2>1 DEF PlaceInv, Places
  <2>3. RunnerPlaces'
    BY <1>1, <1>2, <2>1 DEF PlaceInv, Places, RunnerPlaces, MayStart
  <2>4. ClientPlaces'
    BY <1>1, <2>1 DEF ClientPlaces
  <2>5. QED
    BY <2>2, <2>3, <2>4 DEF PlaceInv
<1>6. QED
  BY <1>3, <1>4, <1>5
     DEF ClientCall, Watch, TestReady, WaitReturns, AddDependency, RemoveDependency, Cancel,
         WaitUntilFinished, queue

LEMMA SetReadyKeepsPlaces ==
    ASSUME Orderly, OrderInv, PlaceInv, NEW t \in Threads, SetReady(t), Step(t)
    PROVE  PlaceInv'
<1> DEFINE o == Target(t)
<1>1. /\ o \in Ops /\ pc'[t] = "report" /\ cur' = cur
      /\ \A u \in Threads : Target(u)' = Target(u)
      /\ \A u \in Threads \ {t} : pc'[u] = pc[u]
      /\ t \in Clients => o = cur[t]
      /\ pc[t] = "unready" => t \in Clients /\ t \notin Runners
      /\ \A u \in Threads \ {t} : pc[u] \in ChangingPcs => Target(u) # o
      /\ t \in Runners => pc[t] \in TellingPcs
  <2>1. pc[t] \in ChangingPcs /\ lock[o] = t
    BY DEF SetReady, ChangingPcs, OrderInv, Located, HoldsLocks
  <2>2. \A u \in Threads : Target(u)' = Target(u)
    BY DEF SetReady, Target
  <2>3. \A u \in Threads \ {t} : pc[u] \in ChangingPcs => Target(u) # o
    BY <2>1 DEF OrderInv, Located, HoldsLocks
  <2>4. pc'[t] = "report" /\ cur' = cur /\ \A u \in Threads \ {t} : pc'[u] = pc[u]
    BY DEF SetReady, OrderInv, Located, Typed
  <2>5. /\ o \in Ops
        /\ t \in Clients => o = cur[t]
        /\ pc[t] = "unready" => t \in Clients /\ t \notin Runners
        /\ t \in Runners => pc[t] \in TellingPcs
    BY <2>1, TargetTyped DEF OrderInv, Located, Threads, ChangingPcs, TellingPcs
  <2>6. QED
    BY <2>2, <2>3, <2>4, <2>5
<1>2. /\ ready' = IF pc[t] = "ready" THEN ready \cup {o} ELSE ready \ {o}
      /\ pc[t] # "ready" => pc[t] = "unready" /\ o \notin queued
      /\ UNCHANGED <<cancelled, executing, finished, queued, awaited, waiting, ran>>
  BY <1>1 DEF SetReady, PlaceInv, ClientPlaces, queue
<1> HIDE DEF o
<1>3. Places'
  BY <1>2 DEF PlaceInv, Places
<1>4. RunnerPlaces'
  <2> SUFFICES ASSUME NEW r \in Runners
               PROVE  /\ pc'[r] # "idle" =>
                           /\ cur[r] \in queued \ (awaited \cup waiting)
                           /\ \A s \in Runners : pc'[s] # "idle" /\ cur[s] = cur[r] => s = r
                      /\ pc'[r] = "start" => MayStart(cur[r])'
                      /\ pc'[r] \in {"finish", "change"} \cup TellingPcs =>
                             cur[r] \in ran \cup cancelled
                      /\ pc'[r] = "report" => Target(r) \in ready'
    BY <1>1, <1>2 DEF RunnerPlaces, Threads
  <2>1. r \in Threads /\ \A u \in Threads : pc'[u] # "idle" <=> pc[u] # "idle"
    BY <1>1 DEF Threads, SetReady
  <2>2. pc'[r] = "start" => MayStart(cur[r])'
    BY <1>1, <1>2, <2>1 DEF PlaceInv, RunnerPlaces, MayStart
  <2>3. pc'[r] = "report" => Target(r) \in ready'
    BY <1>1, <1>2, <2>1 DEF PlaceInv, RunnerPlaces, ChangingPcs, o
  <2>4. QED
    BY <1>1, <1>2, <2>1, <2>2, <2>3 DEF PlaceInv, RunnerPlaces, Threads, TellingPcs
<1>5. ClientPlaces'
  BY <1>1, <1>2 DEF PlaceInv, ClientPlaces, Orderly, Threads, o
<1>6. QED
  BY <1>3, <1>4, <1>5 DEF PlaceInv

LEMMA ReportKeepsPlaces ==
    ASSUME Orderly, OrderInv, PlaceInv, NEW t \in Threads, Report(t), Step(t)
    PROVE  PlaceInv'
<1> DEFINE o == Target(t)
<1>1. /\ pc[t] = "report" /\ o \in Ops
      /\ \A u \in Threads \ {t} :
             pc'[u] = pc[u] /\ cur'[u] = cur[u] /\ Target(u)' = Target(u)
      /\ t \in Clients => pc'[t] = "idle" /\ t \notin Runners /\ o = cur[t]
      /\ t \in Runners => pc'[t] \in {"notify", "finish"} /\ cur'[t] = cur[t]
      /\ t \in Clients \/ t \in Runners
  BY OthersAreKept, TargetTyped, OperationAssumption
     DEF Report, Resume, Raise, OrderInv, Located, Typed, ChangingPcs, OthersKeep, Threads
<1>2. UNCHANGED <<ready, cancelled, executing, finished, queued, ran>>
  BY DEF Report, flags
<1>3. \/ UNCHANGED <<awaited, waiting>>
      \/ /\ awaited' = awaited \ {o} /\ waiting' = waiting \cup {o} /\ o \in awaited
         /\ Free(Queue, t)
  BY DEF Report, React
<1> HIDE DEF o
<1>4. o \in awaited => o \in ready
  BY <1>1 DEF PlaceInv, Places, RunnerPlaces, ClientPlaces, o
<1>5. Places'
  BY <1>2, <1>3, <1>4 DEF PlaceInv, Places
<1>6. RunnerPlaces'
  BY <1>1, <1>2, <1>3 DEF PlaceInv, Places, RunnerPlaces, MayStart, TellingPcs, Threads
<1>7. ASSUME NEW c \in Clients, pc'[c] = "test"
      PROVE  cur'[c] \in awaited'
  <2>1. c # t /\ pc[c] = "test" /\ c \in Threads /\ cur'[c] = cur[c]
    BY <1>1, <1>7 DEF Threads
  <2>2. lock[Queue] = c /\ c # None
    BY <2>1, OperationAssumption DEF OrderInv, Located, HoldsLocks, Threads
  <2>3. UNCHANGED <<awaited, waiting>>
    BY <1>3, <2>1, <2>2 DEF Free
  <2>4. QED
    BY <2>1, <2>3 DEF PlaceInv, ClientPlaces
<1>8. ClientPlaces'
  BY <1>1, <1>2, <1>7 DEF PlaceInv, ClientPlaces, Threads
<1>9. QED
  BY <1>5, <1>6, <1>8 DEF PlaceInv

LEMMA RunnerKeepsPlaces ==
    ASSUME Orderly, OrderInv, PlaceInv, NEW r \in Runners, RunnerStep(r),
           ~(SetReady(r) \/ Report(r)), Step(r)
    PROVE  PlaceInv'
<1>1. /\ r \in Threads /\ r \notin Clients /\ DOMAIN pc = Threads /\ DOMAIN cur = Threads
      /\ \A u \in Threads \ {r} :
             pc'[u] = pc[u] /\ cur'[u] = cur[u] /\ Target(u)' = Target(u)
  BY OperationAssumption, OthersAreKept DEF OrderInv, Located, Typed, OthersKeep, Threads
<1>2. /\ ready' = ready /\ cancelled' = cancelled /\ queued' = queued /\ awaited' = awaited
      /\ waiting' \subseteq waiting
  BY DEF RunnerStep, SetReady, Report, Take, Start, Main, Finish, SetFinished, TellItself,
         TellQueue, TellDependent, EndFinish, flags, queue
<1>3. ClientPlaces'
  BY <1>1, <1>2 DEF PlaceInv, ClientPlaces, Threads
<1>4. ASSUME NEW o \in Ops, Take(r, o)
      PROVE  Places' /\ RunnerPlaces'
  <2>1. /\ o \in waiting /\ waiting' = waiting \ {o} /\ pc'[r] = "start" /\ cur'[r] = o
        /\ UNCHANGED <<executing, finished, ran>>
    BY <1>1, <1>4 DEF Take, flags
  <2>2. Places'
    BY <1>2, <2>1 DEF PlaceInv, Places
  <2>3. RunnerPlaces'
    BY <1>1, <1>2, <2>1 DEF PlaceInv, Places, RunnerPlaces, MayStart, TellingPcs, Threads
  <2>4. QED
    BY <2>2, <2>3
<1>5. CASE Start(r)
  <2>1. /\ pc[r] = "start" /\ executing' = executing \cup {cur[r]} /\ pc'[r] = "main"
        /\ cur' = cur /\ UNCHANGED <<finished, ran, waiting>>
    BY <1>1, <1>5 DEF Start, PlaceInv, RunnerPlaces, queue
  <2>2. Places'
    BY <1>2, <2>1 DEF PlaceInv, Places, RunnerPlaces
  <2>3. RunnerPlaces'
    BY <1>1, <1>2, <2>1 DEF PlaceInv, Places, RunnerPlaces, MayStart, TellingPcs, Threads
  <2>4. QED
    BY <1>3, <2>2, <2>3 DEF PlaceInv
<1>6. CASE Main(r)
  <2>1. /\ pc[r] = "main" /\ pc'[r] = "finish" /\ cur' = cur
        /\ cur[r] \in ran' \cup cancelled /\ ran \subseteq ran'
        /\ UNCHANGED <<executing, finished, waiting>>
    BY <1>1, <1>6 DEF Main, flags, queue
  <2>2. Places'
    BY <1>2, <2>1 DEF PlaceInv, Places
  <2>3. RunnerPlaces'
    BY <1>1, <1>2, <2>1 DEF PlaceInv, RunnerPlaces, MayStart, TellingPcs, Threads
  <2>4. QED
    BY <1>3, <2>2, <2>3 DEF PlaceInv
<1>7. CASE SetFinished(r)
  <2>1. /\ pc[r] = "change" /\ pc'[r] = "notify" /\ cur' = cur
        /\ executing' = executing \ {cur[r]} /\ finished' = finished \cup {cur[r]}
        /\ UNCHANGED <<ran, waiting>>
    BY <1>1, <1>7 DEF SetFinished, queue
  <2>2. Places'
    BY <1>2, <2>1 DEF PlaceInv, Places, RunnerPlaces
  <2>3. RunnerPlaces'
    BY <1>1, <1>2, <2>1 DEF PlaceInv, Places, RunnerPlaces, MayStart, TellingPcs, Threads
  <2>4. QED
    BY <1>3, <2>2, <2>3 DEF PlaceInv
<1>8. CASE Finish(r) \/ TellItself(r) \/ TellQueue(r) \/ TellDependent(r) \/ EndFinish(r)
  <2>1. /\ UNCHANGED <<executing, finished, ran, waiting>>
        /\ \/ /\ pc[r] \in {"finish", "notify"} /\ cur'[r] = cur[r]
              /\ pc'[r] \in {"finish", "change", "notify", "ready"}
           \/ pc'[r] = "idle"
    BY <1>1, <1>8 DEF Finish, TellItself, TellQueue, TellDependent, EndFinish, flags, queue
  <2>2. Places'
    BY <1>2, <2>1 DEF PlaceInv, Places
  <2>3. RunnerPlaces'
    BY <1>1, <1>2, <2>1 DEF PlaceInv, RunnerPlaces, MayStart, TellingPcs, Threads
  <2>4. QED
    BY <1>3, <2>2, <2>3 DEF PlaceInv
<1>9. QED
  BY <1>3, <1>4, <1>5, <1>6, <1>7, <1>8 DEF RunnerStep, PlaceInv

LEMMA StepKeepsPlaces == Orderly /\ OrderInv /\ PlaceInv /\ [Next]_vars => PlaceInv'
<1> SUFFICES ASSUME Orderly, OrderInv, PlaceInv, [Next]_vars PROVE PlaceInv'
  OBVIOUS
<1>1. ASSUME NEW t \in Threads, Step(t) PROVE PlaceInv'
  BY <1>1, ClientKeepsPlaces, SetReadyKeepsPlaces, ReportKeepsPlaces, RunnerKeepsPlaces
     DEF Step, ClientStep, Threads
<1>2. CASE UNCHANGED vars
  BY <1>2 DEF vars, flags, queue, PlaceInv, Places, RunnerPlaces, ClientPlaces, MayStart, Target
<1>3. QED
  BY <1>1, <1>2, StepsAreOfThreads

\* When one client gives operations their dependencies before it queues them, an
\* operation that has finished went through -main or was cancelled: no thread of the
\* queue is refused by -start and calls -_finish all the same, and none runs an
\* operation that another has.
THEOREM FinishedHaveRun == Orderly => (Spec => []FinishedHasRun)
<1> SUFFICES ASSUME Orderly PROVE Spec => []FinishedHasRun
  OBVIOUS
<1>1. OrderInv /\ PlaceInv /\ [Next]_vars => (OrderInv /\ PlaceInv)'
  BY StepKeepsOrder, StepKeepsPlaces
<1>2. PlaceInv => FinishedHasRun
  BY DEF PlaceInv, Places, FinishedHasRun
<1>3. QED
  BY <1>1, <1>2, OrderInvInit, PlaceInvInit, PTL DEF Spec

-----------------------------------------------------------------------------
\* An operation does not depend on itself, and only a thread of the queue that
\* finishes an operation has somebody to tell.
ListsInv ==
    /\ finished \subseteq Ops
    /\ released \subseteq finished
    /\ \A o \in Ops : o \notin dependencies[o]
    /\ \A t \in Threads : pc[t] = "watch" => dep[t] # cur[t]
    /\ \A t \in Threads : todo[t] # <<>> => t \in Runners /\ pc[t] \in TellingPcs

\* Until an operation has finished it is its own first observer, so the thread that
\* finishes it tells it last.
SelfFirst ==
    /\ \A o \in Ops \ finished : OwnFirst(o, observers[o])
    /\ \A t \in Threads : pc[t] = "change" =>
           cur[t] \notin finished /\ OwnFirst(cur[t], changing[cur[t]])
    /\ \A r \in Runners : pc[r] \in TellingPcs =>
           /\ cur[r] \in finished
           /\ \/ todo[r] = <<>>
              \/ OwnLast(cur[r], todo[r]) /\ cur[r] \notin released

LastInv == OrderInv /\ ListsInv /\ SelfFirst

LEMMA LastInvInit == Init => LastInv
<1> SUFFICES ASSUME Init PROVE ListsInv /\ SelfFirst
  BY OrderInvInit DEF LastInv
<1>1. \A o \in Ops : OwnFirst(o, <<o>>)
  BY DEF OwnFirst
<1>2. QED
  BY <1>1 DEF Init, ListsInv, SelfFirst, TellingPcs, Threads

\* Adding and removing another observer does not take an operation its place.
LEMMA OthersBehind ==
    ASSUME NEW s \in ObserverLists, NEW o \in Ops, OwnFirst(o, s)
    PROVE  /\ \A p : p # o => OwnFirst(o, Without(s, p))
           /\ \A p \in Objects : p # o => OwnFirst(o, Append(s, p))
           /\ OwnLast(o, Reverse(s))
BY WithoutOther, AppendOther, ReverseLast DEF ObserverLists

LEMMA TailBehind ==
    ASSUME NEW s \in ObserverLists, NEW o \in Ops, OwnLast(o, s)
    PROVE  /\ s # <<>>
           /\ Head(s) = o => Tail(s) = <<>>
           /\ Head(s) # o => OwnLast(o, Tail(s))
BY TailLast DEF ObserverLists

\* The steps of a client, and the reports of a thread of the queue.
LEMMA ObserversStayBehind ==
    ASSUME LastInv, NEW t \in Threads, Step(t), UNCHANGED <<finished, released>>,
           \A o \in Ops \ finished : OwnFirst(o, observers'[o]),
           \A o \in Ops \ finished : OwnFirst(o, changing[o]) => OwnFirst(o, changing'[o]),
           \A o \in Ops : o \notin dependencies'[o],
           pc'[t] = "watch" => dep'[t] # cur'[t],
           todo'[t] # <<>> => t \in Runners /\ pc'[t] \in TellingPcs,
           pc'[t] # "change",
           t \in Runners /\ pc'[t] \in TellingPcs =>
               pc[t] \in TellingPcs /\ cur'[t] = cur[t] /\ todo'[t] \in {todo[t], Tail(todo[t])},
           t \in Runners /\ todo'[t] # todo[t] => todo[t] # <<>> /\ Head(todo[t]) # cur[t]
    PROVE  ListsInv' /\ SelfFirst'
<1>1. \A u \in Threads \ {t} :
          pc'[u] = pc[u] /\ cur'[u] = cur[u] /\ dep'[u] = dep[u] /\ todo'[u] = todo[u]
  BY OthersAreKept DEF LastInv, OrderInv, Located, OthersKeep
<1>2. ListsInv'
  BY <1>1 DEF LastInv, ListsInv
<1>3. ASSUME NEW u \in Threads, pc'[u] = "change"
      PROVE  cur'[u] \notin finished' /\ OwnFirst(cur'[u], changing'[cur'[u]])
  <2>1. u # t /\ pc[u] = "change" /\ cur'[u] = cur[u] /\ cur[u] \in Ops
    BY <1>1, <1>3 DEF LastInv, OrderInv, Located, Typed
  <2>2. QED
    BY <2>1 DEF LastInv, SelfFirst
<1>4. ASSUME NEW r \in Runners, pc'[r] \in TellingPcs
      PROVE  /\ cur'[r] \in finished'
             /\ \/ todo'[r] = <<>>
                \/ OwnLast(cur'[r], todo'[r]) /\ cur'[r] \notin released'
  <2>1. r \in Threads /\ pc[r] \in TellingPcs /\ cur'[r] = cur[r]
    BY <1>1, <1>4 DEF Threads
  <2>2. cur[r] \in Ops /\ todo[r] \in ObserverLists
    BY <2>1 DEF LastInv, OrderInv, Located, Typed, ListsTyped, TellingPcs
  <2>3. CASE todo'[r] = todo[r]
    BY <2>1, <2>3 DEF LastInv, SelfFirst
  <2>4. CASE todo'[r] # todo[r]
    <3>1. r = t /\ todo[r] # <<>> /\ todo'[r] = Tail(todo[r]) /\ Head(todo[r]) # cur[r]
      BY <1>1, <1>4, <2>1, <2>4
    <3>2. OwnLast(cur[r], todo[r]) /\ cur[r] \notin released
      BY <2>1, <3>1 DEF LastInv, SelfFirst
    <3>3. OwnLast(cur[r], Tail(todo[r]))
      BY <2>2, <3>1, <3>2, TailBehind
    <3>4. QED
      BY <2>1, <3>1, <3>2, <3>3 DEF LastInv, SelfFirst
  <2>5. QED
    BY <2>3, <2>4
<1>5. QED
  BY <1>2, <1>3, <1>4 DEF SelfFirst

LEMMA CallKeepsLast ==
    ASSUME LastInv, NEW c \in Clients, ClientCall(c), Step(c)
    PROVE  ListsInv' /\ SelfFirst'
<1>1. /\ c \in Threads /\ c \notin Runners /\ UNCHANGED <<finished, released, todo>>
      /\ pc'[c] # "change" /\ todo[c] = <<>> /\ DOMAIN pc = Threads
      /\ DOMAIN cur = Threads /\ DOMAIN dep = Threads
      /\ \A p \in Ops : observers[p] \in ObserverLists /\ changing[p] \in ObserverLists
  <2>1. c \in Threads /\ c \notin Runners
    BY OperationAssumption DEF Threads
  <2>2. UNCHANGED <<finished, released, todo>>
    BY DEF ClientCall, AddDependency, RemoveDependency, Cancel, AddToQueue, WaitUntilFinished,
           flags
  <2>3. todo[c] = <<>>
    BY <2>1 DEF LastInv, ListsInv
  <2>4. /\ \A p \in Ops : observers[p] \in ObserverLists /\ changing[p] \in ObserverLists
        /\ DOMAIN pc = Threads /\ DOMAIN cur = Threads /\ DOMAIN dep = Threads
    BY DEF LastInv, OrderInv, Located, Typed, ListsTyped
  <2>5. pc'[c] # "change"
    BY <2>1, <2>4 DEF ClientCall, AddDependency, RemoveDependency, Cancel, AddToQueue,
                      WaitUntilFinished
  <2>6. QED
    BY <2>1, <2>2, <2>3, <2>4, <2>5
<1>2. ASSUME NEW o \in Ops, NEW d \in Ops, RemoveDependency(c, o, d)
      PROVE  ListsInv' /\ SelfFirst'
  <2>1. o # d
    BY <1>2 DEF RemoveDependency, LastInv, ListsInv
  <2>2. /\ \A p \in Ops : OwnFirst(p, observers[p]) => OwnFirst(p, observers'[p])
        /\ \A p \in Ops : OwnFirst(p, changing[p]) => OwnFirst(p, changing'[p])
    <3>1. /\ observers' = [observers EXCEPT ![d] = Without(@, o)]
          /\ changing' = [changing EXCEPT ![d] = Without(@, o)]
          /\ DOMAIN observers = Ops /\ DOMAIN changing = Ops
      BY <1>2 DEF RemoveDependency, LastInv, OrderInv, Located, ListsTyped
    <3>2. /\ OwnFirst(d, observers[d]) => OwnFirst(d, Without(observers[d], o))
          /\ OwnFirst(d, changing[d]) => OwnFirst(d, Without(changing[d], o))
      BY <1>1, <2>1, OthersBehind
    <3>3. QED
      BY <3>1, <3>2
  <2>3. \A p \in Ops : p \notin dependencies'[p]
    BY <1>2 DEF RemoveDependency, LastInv, ListsInv, OrderInv, Located, Typed
  <2>4. pc'[c] # "watch"
    BY <1>1, <1>2 DEF RemoveDependency
  <2>5. QED
    BY <1>1, <2>2, <2>3, <2>4, ObserversStayBehind DEF LastInv, SelfFirst
<1>3. ASSUME NEW o \in Ops, NEW d \in Ops, AddDependency(c, o, d)
      PROVE  ListsInv' /\ SelfFirst'
  <2>1. o # d /\ UNCHANGED <<observers, changing>>
    BY <1>3, OperationAssumption DEF AddDependency
  <2>2. \A p \in Ops : p \notin dependencies'[p]
    BY <1>3, <2>1 DEF AddDependency, LastInv, ListsInv, OrderInv, Located, Typed
  <2>3. pc'[c] = "watch" => dep'[c] # cur'[c]
    BY <1>1, <1>3, <2>1 DEF AddDependency
  <2>4. QED
    BY <1>1, <2>1, <2>2, <2>3, ObserversStayBehind DEF LastInv, SelfFirst
<1>4. ASSUME NEW o \in Ops, Cancel(c, o) \/ AddToQueue(c, o) \/ WaitUntilFinished(c, o)
      PROVE  ListsInv' /\ SelfFirst'
  <2>1. UNCHANGED <<dependencies, observers, changing>> /\ pc'[c] # "watch"
    BY <1>1, <1>4 DEF Cancel, AddToQueue, WaitUntilFinished
  <2>2. QED
    BY <1>1, <2>1, ObserversStayBehind DEF LastInv, ListsInv, SelfFirst
<1>5. QED
  BY <1>2, <1>3, <1>4 DEF ClientCall

LEMMA ClientStepKeepsLast ==
    ASSUME LastInv, NEW c \in Clients, Watch(c) \/ TestReady(c) \/ WaitReturns(c), Step(c)
    PROVE  ListsInv' /\ SelfFirst'
<1>1. /\ c \in Threads /\ c \notin Runners /\ UNCHANGED <<finished, released, todo>>
      /\ pc'[c] \in {"idle", "unready"} /\ todo[c] = <<>>
      /\ UNCHANGED <<changing, dependencies>>
      /\ cur[c] \in Ops /\ Queue \notin Ops
  BY OperationAssumption
     DEF Watch, TestReady, WaitReturns, LastInv, ListsInv, OrderInv, Located, Typed, Threads, flags
<1>2. \A p \in Ops \ finished : OwnFirst(p, observers'[p])
  <2>1. \/ observers' = observers
        \/ observers' = [observers EXCEPT ![cur[c]] = Append(@, Queue)]
        \/ pc[c] = "watch" /\ observers' = [observers EXCEPT ![dep[c]] = Append(@, cur[c])]
    BY DEF Watch, TestReady, WaitReturns, React
  <2>2. pc[c] = "watch" => dep[c] # cur[c] /\ dep[c] \in Ops
    BY <1>1 DEF LastInv, ListsInv, OrderInv, Located, Typed
  <2>3. \A p \in Ops, q \in Objects : p # q /\ OwnFirst(p, observers[p])
                                          => OwnFirst(p, Append(observers[p], q))
    BY OthersBehind DEF LastInv, OrderInv, Located, ListsTyped
  <2>4. DOMAIN observers = Ops /\ \A p \in Ops \ finished : OwnFirst(p, observers[p])
    BY DEF LastInv, SelfFirst, OrderInv, Located, ListsTyped
  <2>5. CASE observers' = [observers EXCEPT ![cur[c]] = Append(@, Queue)]
    BY <1>1, <2>3, <2>4, <2>5 DEF Objects
  <2>6. CASE pc[c] = "watch" /\ observers' = [observers EXCEPT ![dep[c]] = Append(@, cur[c])]
    BY <1>1, <2>2, <2>3, <2>4, <2>6 DEF Objects
  <2>7. QED
    BY <2>1, <2>4, <2>5, <2>6
<1>3. QED
  BY <1>1, <1>2, ObserversStayBehind DEF LastInv, ListsInv

LEMMA ChangeKeepsLast ==
    ASSUME LastInv, NEW t \in Threads, SetReady(t) \/ Report(t), Step(t)
    PROVE  ListsInv' /\ SelfFirst'
<1>1. /\ pc[t] \in ChangingPcs /\ Target(t) \in Ops /\ Queue \notin Ops
      /\ t \in Runners => /\ Target(t) = Head(todo[t]) /\ Target(t) # cur[t]
                          /\ todo[t] # <<>> /\ pc[t] \in TellingPcs
      /\ t \in Clients => todo[t] = <<>> /\ t \notin Runners
      /\ t \in Clients \/ t \in Runners
      /\ DOMAIN pc = Threads /\ DOMAIN todo = Threads /\ DOMAIN cur = Threads
  <2>1. pc[t] \in ChangingPcs
    BY DEF SetReady, Report, ChangingPcs
  <2>2. /\ Target(t) \in Ops
        /\ t \in Runners => /\ Target(t) = Head(todo[t]) /\ Target(t) # cur[t]
                            /\ todo[t] # <<>> /\ pc[t] \in TellingPcs
    BY <2>1, TargetTyped DEF LastInv, OrderInv, Located, ChangingPcs, TellingPcs
  <2>3. QED
    BY <2>1, <2>2, OperationAssumption
       DEF LastInv, ListsInv, OrderInv, Located, Typed, ListsTyped, Threads
<1>2. UNCHANGED <<finished, released, changing, dependencies>>
  BY DEF SetReady, Report, flags
<1>3. \A p \in Ops \ finished : OwnFirst(p, observers'[p])
  <2>1. \/ observers' = observers
        \/ observers' = [observers EXCEPT ![Target(t)] = Append(@, Queue)]
    BY DEF SetReady, Report, React
  <2>2. \A p \in Ops : OwnFirst(p, observers[p]) => OwnFirst(p, Append(observers[p], Queue))
    BY OthersBehind, OperationAssumption DEF LastInv, OrderInv, Located, ListsTyped, Objects
  <2>3. QED
    BY <1>1, <2>1, <2>2 DEF LastInv, SelfFirst, OrderInv, Located, ListsTyped
<1>4. /\ pc'[t] \notin {"watch", "change"}
      /\ t \in Clients => todo'[t] = <<>>
      /\ t \in Runners => \/ pc'[t] = "report" /\ cur' = cur /\ todo' = todo
                          \/ pc'[t] = "notify" /\ cur'[t] = cur[t] /\ todo'[t] = Tail(todo[t])
                          \/ pc'[t] = "finish" /\ todo'[t] = <<>>
  BY <1>1 DEF SetReady, Report, Resume, Raise
<1>5. \A p \in Ops : p \notin dependencies'[p]
  BY <1>2 DEF LastInv, ListsInv
<1>6. /\ todo'[t] # <<>> => t \in Runners /\ pc'[t] \in TellingPcs
      /\ t \in Runners /\ pc'[t] \in TellingPcs =>
             pc[t] \in TellingPcs /\ cur'[t] = cur[t] /\ todo'[t] \in {todo[t], Tail(todo[t])}
      /\ t \in Runners /\ todo'[t] # todo[t] => todo[t] # <<>> /\ Head(todo[t]) # cur[t]
  BY <1>1, <1>4 DEF TellingPcs
<1>7. QED
  BY <1>2, <1>3, <1>4, <1>5, <1>6, ObserversStayBehind

LEMMA TellKeepsLast ==
    ASSUME LastInv, NEW r \in Runners, Step(r),
           \/ TellQueue(r) \/ TellDependent(r) \/ EndFinish(r)
           \/ Start(r) \/ Main(r) \/ \E o \in Ops : Take(r, o)
    PROVE  ListsInv' /\ SelfFirst'
<1>1. /\ r \in Threads /\ Queue \notin Ops /\ DOMAIN pc = Threads /\ DOMAIN todo = Threads
      /\ DOMAIN cur = Threads /\ (pc[r] # "idle" => cur[r] \in Ops)
      /\ todo[r] # <<>> => pc[r] \in TellingPcs
  BY OperationAssumption DEF LastInv, ListsInv, OrderInv, Located, Typed, ListsTyped, Threads
<1>2. UNCHANGED <<finished, released, changing, dependencies>>
  BY DEF TellQueue, TellDependent, EndFinish, Take, Start, Main, flags
<1>3. \A p \in Ops \ finished : OwnFirst(p, observers'[p])
  <2>1. CASE TellQueue(r)
    <3>1. cur[r] \in finished /\ observers' = [observers EXCEPT ![cur[r]] = Without(@, Queue)]
      BY <2>1 DEF TellQueue, LastInv, SelfFirst, TellingPcs
    <3>2. QED
      BY <3>1 DEF LastInv, SelfFirst, OrderInv, Located, ListsTyped
  <2>2. CASE ~TellQueue(r)
    <3>1. observers' = observers
      BY <2>2 DEF TellDependent, EndFinish, Take, Start, Main
    <3>2. QED
      BY <3>1 DEF LastInv, SelfFirst
  <2>3. QED
    BY <2>1, <2>2
<1>4. /\ pc'[r] \notin {"watch", "change"}
      /\ \/ /\ pc[r] = "notify" /\ pc'[r] \in TellingPcs /\ cur' = cur
            /\ \/ todo' = todo
               \/ todo[r] # <<>> /\ todo'[r] = Tail(todo[r]) /\ Head(todo[r]) # cur[r]
         \/ todo' = todo /\ todo[r] = <<>> /\ pc'[r] \notin TellingPcs
  <2>1. CASE TellQueue(r)
    BY <1>1, <2>1 DEF TellQueue, TellingPcs
  <2>2. CASE TellDependent(r)
    BY <1>1, <2>2 DEF TellDependent, TellingPcs
  <2>3. CASE EndFinish(r) \/ Start(r) \/ Main(r) \/ \E o \in Ops : Take(r, o)
    BY <1>1, <2>3 DEF EndFinish, Start, Main, Take, TellingPcs
  <2>4. QED
    BY <2>1, <2>2, <2>3
<1>5. \A p \in Ops : p \notin dependencies'[p]
  BY <1>2 DEF LastInv, ListsInv
<1>6. /\ todo'[r] # <<>> => r \in Runners /\ pc'[r] \in TellingPcs
      /\ r \in Runners /\ pc'[r] \in TellingPcs =>
             pc[r] \in TellingPcs /\ cur'[r] = cur[r] /\ todo'[r] \in {todo[r], Tail(todo[r])}
      /\ r \in Runners /\ todo'[r] # todo[r] => todo[r] # <<>> /\ Head(todo[r]) # cur[r]
  BY <1>4 DEF TellingPcs
<1>7. QED
  BY <1>1, <1>2, <1>3, <1>4, <1>5, <1>6, ObserversStayBehind

\* Who else has a lock of an operation has that of another.
LEMMA OthersElsewhere ==
    ASSUME LastInv, NEW r \in Threads, cur[r] \in Ops, Free(cur[r], r)
    PROVE  \A u \in Threads \ {r} : pc[u] \in LockingPcs => cur[u] # cur[r] /\ cur[u] \in Ops
BY OperationAssumption
   DEF LastInv, OrderInv, Located, HoldsLocks, Typed, Free, LockingPcs, ChangingPcs,
       TellingPcs, Threads

LEMMA FinishKeepsLast ==
    ASSUME LastInv, NEW r \in Runners, Finish(r), Step(r)
    PROVE  ListsInv' /\ SelfFirst'
<1>1. /\ r \in Threads /\ cur[r] \in Ops /\ DOMAIN changing = Ops /\ DOMAIN pc = Threads
      /\ pc[r] = "finish" /\ todo[r] = <<>>
      /\ \A u \in Threads \ {r} : pc'[u] = pc[u] /\ cur'[u] = cur[u]
      /\ UNCHANGED <<finished, released, dependencies, observers, dep, todo>>
      /\ \A u \in Threads \ {r} : pc[u] = "change" => cur[u] # cur[r] /\ cur[u] \in Ops
  <2>1. r \in Threads /\ cur[r] \in Ops /\ pc[r] = "finish" /\ todo[r] = <<>>
    BY DEF Finish, LastInv, ListsInv, OrderInv, Located, Typed, TellingPcs, Threads
  <2>2. \A u \in Threads \ {r} : pc'[u] = pc[u] /\ cur'[u] = cur[u]
    BY <2>1, OthersAreKept DEF LastInv, OrderInv, Located, OthersKeep
  <2>3. \A u \in Threads \ {r} : pc[u] = "change" => cur[u] # cur[r] /\ cur[u] \in Ops
    BY <2>1, OthersElsewhere DEF Finish, LockingPcs
  <2>4. QED
    BY <2>1, <2>2, <2>3 DEF Finish, LastInv, OrderInv, Located, Typed, ListsTyped, flags
<1>2. \/ /\ cur[r] \in finished /\ pc'[r] = "idle" /\ changing' = changing
      \/ /\ cur[r] \notin finished /\ pc'[r] = "change" /\ cur' = cur
         /\ changing' = [changing EXCEPT ![cur[r]] = observers[cur[r]]]
  BY <1>1 DEF Finish
<1>3. ListsInv'
  BY <1>1, <1>2 DEF LastInv, ListsInv, TellingPcs
<1>4. ASSUME NEW u \in Threads, pc'[u] = "change"
      PROVE  cur'[u] \notin finished /\ OwnFirst(cur'[u], changing'[cur'[u]])
  <2>1. CASE u = r
    BY <1>1, <1>2, <1>4, <2>1 DEF LastInv, SelfFirst
  <2>2. CASE u # r
    BY <1>1, <1>2, <1>4, <2>2 DEF LastInv, SelfFirst
  <2>3. QED
    BY <2>1, <2>2
<1>5. \A u \in Runners : pc'[u] \in TellingPcs => pc[u] \in TellingPcs /\ cur'[u] = cur[u]
  BY <1>1, <1>2 DEF Threads, TellingPcs
<1>6. SelfFirst'
  BY <1>1, <1>4, <1>5 DEF LastInv, SelfFirst
<1>7. QED
  BY <1>3, <1>6

LEMMA SetFinishedKeepsLast ==
    ASSUME LastInv, NEW r \in Runners, SetFinished(r), Step(r)
    PROVE  ListsInv' /\ SelfFirst'
<1>1. /\ r \in Threads /\ cur[r] \in Ops /\ pc[r] = "change" /\ cur[r] \notin finished
      /\ OwnFirst(cur[r], changing[cur[r]]) /\ changing[cur[r]] \in ObserverLists
      /\ cur[r] \notin released /\ Free(cur[r], r)
  BY DEF SetFinished, LastInv, ListsInv, SelfFirst, OrderInv, Located, Typed, HoldsLocks,
         ListsTyped, LockingPcs, Free, Threads
<1>2. /\ \A u \in Threads \ {r} : pc'[u] = pc[u] /\ cur'[u] = cur[u] /\ todo'[u] = todo[u]
      /\ \A u \in Threads \ {r} : pc[u] \in LockingPcs => cur[u] # cur[r]
  BY <1>1, OthersAreKept, OthersElsewhere DEF LastInv, OrderInv, Located, OthersKeep
<1>3. /\ UNCHANGED <<dependencies, observers, released, cur, dep>>
      /\ finished' = finished \cup {cur[r]} /\ pc'[r] = "notify"
      /\ todo'[r] = Reverse(changing[cur[r]])
      /\ \A o \in Ops : o # cur[r] => changing'[o] = changing[o]
  BY <1>1 DEF SetFinished, LastInv, OrderInv, Located, Typed, ListsTyped
<1>4. OwnLast(cur[r], todo'[r])
  BY <1>1, <1>3, OthersBehind
<1>5. ListsInv'
  BY <1>1, <1>2, <1>3 DEF LastInv, ListsInv, TellingPcs
<1>6. ASSUME NEW u \in Threads, pc'[u] = "change"
      PROVE  cur'[u] \notin finished' /\ OwnFirst(cur'[u], changing'[cur'[u]])
  <2>1. u # r /\ pc[u] = "change" /\ cur[u] # cur[r] /\ cur[u] \in Ops
    BY <1>2, <1>3, <1>6 DEF LastInv, OrderInv, Located, Typed, LockingPcs
  <2>2. QED
    BY <1>3, <2>1 DEF LastInv, SelfFirst
<1>7. ASSUME NEW u \in Runners, pc'[u] \in TellingPcs
      PROVE  /\ cur'[u] \in finished'
             /\ \/ todo'[u] = <<>>
                \/ OwnLast(cur'[u], todo'[u]) /\ cur'[u] \notin released'
  <2>1. CASE u = r
    BY <1>1, <1>3, <1>4, <2>1
  <2>2. CASE u # r
    BY <1>2, <1>3, <1>7, <2>2 DEF LastInv, SelfFirst, Threads
  <2>3. QED
    BY <2>1, <2>2
<1>8. SelfFirst'
  BY <1>3, <1>6, <1>7 DEF LastInv, SelfFirst
<1>9. QED
  BY <1>5, <1>8

LEMMA TellItselfKeepsLast ==
    ASSUME LastInv, NEW r \in Runners, TellItself(r), Step(r)
    PROVE  ListsInv' /\ SelfFirst'
<1>1. /\ r \in Threads /\ cur[r] \in Ops /\ pc[r] = "notify" /\ cur[r] \in finished
      /\ todo[r] \in ObserverLists /\ OwnLast(cur[r], todo[r]) /\ Free(cur[r], r)
      /\ Head(todo[r]) = cur[r]
  BY DEF TellItself, LastInv, SelfFirst, OrderInv, Located, Typed, HoldsLocks, ListsTyped,
         LockingPcs, TellingPcs, Free, Threads
<1>2. \A u \in Threads \ {r} : pc[u] \in LockingPcs => cur[u] # cur[r]
  BY <1>1, OthersElsewhere
<1>3. /\ UNCHANGED <<dependencies, changing, finished, pc, cur, dep>>
      /\ released' = released \cup {cur[r]}
      /\ todo'[r] = <<>>
      /\ \A u \in Threads \ {r} : todo'[u] = todo[u]
      /\ \A o \in Ops : o # cur[r] => observers'[o] = observers[o]
  <2>1. Tail(todo[r]) = <<>>
    BY <1>1, TailBehind
  <2>2. QED
    BY <1>1, <2>1 DEF TellItself, LastInv, OrderInv, Located, ListsTyped, flags
<1>4. ListsInv'
  BY <1>1, <1>3 DEF LastInv, ListsInv
<1>5. SelfFirst'
  BY <1>1, <1>2, <1>3 DEF LastInv, SelfFirst, LockingPcs, Threads
<1>6. QED
  BY <1>4, <1>5

LEMMA StepKeepsLast == LastInv /\ [Next]_vars => LastInv'
<1> SUFFICES ASSUME LastInv, [Next]_vars PROVE ListsInv' /\ SelfFirst'
  BY StepKeepsOrder DEF LastInv
<1>1. ASSUME NEW t \in Threads, Step(t) PROVE ListsInv' /\ SelfFirst'
  BY <1>1, CallKeepsLast, ClientStepKeepsLast, ChangeKeepsLast, TellKeepsLast,
     FinishKeepsLast, SetFinishedKeepsLast, TellItselfKeepsLast
     DEF Step, ClientStep, RunnerStep, Threads
<1>2. CASE UNCHANGED vars
  BY <1>2 DEF vars, flags, LastInv, ListsInv, SelfFirst
<1>3. QED
  BY <1>1, <1>2, StepsAreOfThreads

\* Whatever the dependencies, and whenever they change: a caller of
\* -waitUntilFinished goes on only after the operation's flag is set and every
\* observer that was registered for it has been told, because the operation, its own
\* first observer, is told last.
THEOREM WaitersAreToldLast == Spec => []ReleasedLast
<1>1. LastInv => ReleasedLast
  BY DEF LastInv, ListsInv, SelfFirst, ReleasedLast
<1>2. QED
  BY <1>1, LastInvInit, StepKeepsLast, PTL DEF Spec

-----------------------------------------------------------------------------
\* Who is in the list of observers, and who is still to be told, after each step.
LEMMA SetSteps ==
    ASSUME NEW s \in ObserverLists
    PROVE  /\ \A p \in Objects : ToSet(Append(s, p)) = ToSet(s) \cup {p}
           /\ \A p : ToSet(Without(s, p)) = ToSet(s) \ {p}
           /\ ToSet(Reverse(s)) = ToSet(s)
           /\ ToSet(<<>>) = {}
           /\ s # <<>> => /\ ToSet(s) \subseteq {Head(s)} \cup ToSet(Tail(s))
                          /\ ToSet(Tail(s)) \subseteq ToSet(s)
                          /\ Head(s) \in ToSet(s)
<1>1. s \in Seq(Objects)
  BY DEF ObserverLists
<1>2. ToSet(<<>>) = {}
  BY DEF ToSet
<1>3. s # <<>> => Head(s) \in ToSet(s)
  <2>1. s # <<>> => Head(s) = s[1] /\ 1 \in DOMAIN s
    BY <1>1, HeadTailProperties, EmptySeq
  <2>2. QED
    BY <2>1 DEF ToSet
<1>4. QED
  BY <1>1, <1>2, <1>3, AppendSet, WithoutSet, ReverseSet, TailKeeps, TailSubset

\* An operation that executes or has finished is ready, as is one that a thread of the
\* queue has and one that is cancelled, unless the client is about to make it ready.
DecidedReady ==
    /\ executing \cup finished \subseteq ready
    /\ \A r \in Runners : pc[r] # "idle" => cur[r] \in ready
    /\ \A o \in cancelled \ ready : \E c \in Clients : pc[c] = "ready" /\ cur[c] = o

\* A dependency that is not yet observed, and one that makes an operation not ready, is
\* in no queue, so it cannot finish before that.
WatchInTime ==
    \A c \in Clients :
        /\ pc[c] = "watch" => /\ cur[c] \notin cancelled
                              /\ dep[c] \notin queued
                              /\ dep[c] \in dependencies[cur[c]]
        /\ pc[c] = "unready" =>
               /\ cur[c] \notin cancelled
               /\ \E d \in dependencies[cur[c]] \ queued : cur[c] \in ToSet(observers[d])

\* Who depends on an operation that has not finished observes it, or is about to.
Observed ==
    \A o \in Ops : Undecided(o) => \A d \in dependencies[o] \ finished :
        \/ o \in ToSet(observers[d])
        \/ \E c \in Clients : pc[c] = "watch" /\ cur[c] = o /\ dep[c] = d

\* The thread that finishes an operation has noted all who observe it.
AllNoted ==
    \A r \in Runners : pc[r] = "change" =>
        ToSet(observers[cur[r]]) \subseteq ToSet(changing[cur[r]])

\* An operation that is not ready will be told by a dependency, or is being made ready.
WillBeTold ==
    \A o \in Ops \ ready :
        \/ \E d \in dependencies[o] \ finished : o \in ToSet(observers[d])
        \/ \E r \in Runners : o \in ToSet(todo[r]) /\ cur[r] \in dependencies[o]
        \/ \E c \in Clients : pc[c] = "ready" /\ cur[c] = o

\* Whoever is to tell the queue that an operation is ready finds it observing that.
ToldOnce ==
    /\ kept = {}
    /\ \A t \in Threads : pc[t] = "ready" => Target(t) \notin ready
    /\ \A t \in noted :
           t \in Threads /\ pc[t] \in {"ready", "report"} /\ Target(t) \in awaited
    /\ \A t \in Threads : pc[t] = "ready" /\ Target(t) \in awaited => t \in noted

\* While the client looks at an operation it has just added, no thread tells the queue
\* of that operation, because none has to tell the operation.
Alone ==
    \A c \in Clients : pc[c] = "test" =>
        /\ \A d \in dependencies[cur[c]] : d \notin queued \/ d \in released
        /\ \A r \in Runners : pc[r] = "ready" \/ r \in noted => Target(r) # cur[c]

\* That an operation is ready is noticed by the client that looks, or by a report.
Noticed ==
    \A o \in awaited \cap ready :
        \/ \E c \in Clients : pc[c] = "test" /\ cur[c] = o
        \/ \E t \in noted : pc[t] = "report" /\ Target(t) = o

WakeInv == DecidedReady /\ WatchInTime /\ Observed /\ AllNoted /\ WillBeTold
TellInv == ToldOnce /\ Alone /\ Noticed

\* The facts the steps below start from.
Settled == LastInv /\ PlaceInv /\ WakeInv /\ TellInv

LEMMA SettledInit == Init => Settled
<1> SUFFICES ASSUME Init PROVE WakeInv /\ TellInv
  BY LastInvInit, PlaceInvInit DEF Settled
<1>1. WakeInv
  BY OperationAssumption
     DEF Init, WakeInv, DecidedReady, WatchInTime, Observed, AllNoted, WillBeTold, Threads
<1>2. TellInv
  BY DEF Init, TellInv, ToldOnce, Alone, Noticed, Threads
<1>3. QED
  BY <1>1, <1>2

\* What all steps below use.
LEMMA StepFacts ==
    ASSUME Settled, NEW t \in Threads, Step(t)
    PROVE  /\ OrderInv /\ Located /\ Typed /\ ListsTyped
           /\ \A u \in Threads \ {t} :
                  /\ pc'[u] = pc[u] /\ cur'[u] = cur[u] /\ dep'[u] = dep[u]
                  /\ todo'[u] = todo[u] /\ Target(u)' = Target(u)
           /\ DOMAIN pc = Threads /\ DOMAIN cur = Threads /\ DOMAIN dep = Threads
           /\ DOMAIN todo = Threads /\ DOMAIN observers = Ops /\ DOMAIN changing = Ops
           /\ \A d \in Ops : dependencies[d] \subseteq Ops /\ d \notin dependencies[d]
           /\ \A d \in Ops : observers[d] \in ObserverLists /\ changing[d] \in ObserverLists
           /\ todo[t] \in ObserverLists
           /\ t \in Runners <=> t \notin Clients
           /\ pc[t] # "idle" => cur[t] \in Ops
<1>1. OrderInv /\ Located /\ Typed /\ ListsTyped /\ ListsInv
  BY DEF Settled, LastInv, OrderInv, Located
<1>2. QED
  BY <1>1, OthersAreKept, OperationAssumption
     DEF Typed, ListsTyped, ListsInv, OthersKeep, Threads

\* A step that leaves dependencies alone, takes back no readiness, finishes nothing and
\* forgets to tell nobody.
LEMMA WakeIsKept ==
    ASSUME Settled, NEW t \in Threads, Step(t),
           UNCHANGED <<dependencies, cancelled, finished>>,
           executing \subseteq executing', executing' \subseteq executing \cup ready,
           ready \subseteq ready',
           \A d \in Ops : \A p \in Ops \ {d} :
               p \in ToSet(observers[d]) => p \in ToSet(observers'[d]),
           t \in Runners /\ pc'[t] # "idle" => cur'[t] \in ready',
           t \in Runners => \A p \in Ops \ ready' :
               p \in ToSet(todo[t]) =>
                   \/ p \in ToSet(todo'[t]) /\ cur'[t] = cur[t]
                   \/ \E d \in dependencies[p] \ finished : p \in ToSet(observers[d]),
           t \in Clients /\ pc[t] = "ready" => cur[t] \in ready',
           t \in Clients /\ pc[t] = "watch" => cur[t] \in ToSet(observers'[dep[t]])
    PROVE  DecidedReady' /\ Observed' /\ WillBeTold'
<1>1. /\ \A u \in Threads \ {t} : pc'[u] = pc[u] /\ cur'[u] = cur[u] /\ dep'[u] = dep[u]
                                  /\ todo'[u] = todo[u]
      /\ \A d \in Ops : dependencies[d] \subseteq Ops /\ d \notin dependencies[d]
  BY StepFacts
<1>2. DecidedReady'
  BY <1>1 DEF Settled, WakeInv, DecidedReady, Threads
<1>3. \A p \in Ops : \A d \in dependencies[p] :
          p \in ToSet(observers[d]) => p \in ToSet(observers'[d])
  BY <1>1
<1>4. Observed'
  <2> SUFFICES ASSUME NEW o \in Ops, Undecided(o)', NEW d \in dependencies[o] \ finished
               PROVE  \/ o \in ToSet(observers'[d])
                      \/ \E c \in Clients : pc'[c] = "watch" /\ cur'[c] = o /\ dep'[c] = d
    BY DEF Observed
  <2>1. Undecided(o)
    BY DEF Undecided
  <2>2. CASE o \in ToSet(observers[d])
    BY <1>3, <2>2
  <2>3. CASE \E c \in Clients : pc[c] = "watch" /\ cur[c] = o /\ dep[c] = d
    BY <1>1, <2>3 DEF Threads
  <2>4. QED
    BY <2>1, <2>2, <2>3 DEF Settled, WakeInv, Observed
<1>5. WillBeTold'
  <2> SUFFICES ASSUME NEW o \in Ops, o \notin ready'
               PROVE  \/ \E d \in dependencies[o] \ finished : o \in ToSet(observers'[d])
                      \/ \E r \in Runners : o \in ToSet(todo'[r]) /\ cur'[r] \in dependencies[o]
                      \/ \E c \in Clients : pc'[c] = "ready" /\ cur'[c] = o
    BY DEF WillBeTold
  <2>1. CASE \E d \in dependencies[o] \ finished : o \in ToSet(observers[d])
    BY <1>3, <2>1
  <2>2. CASE \E r \in Runners : o \in ToSet(todo[r]) /\ cur[r] \in dependencies[o]
    <3>1. PICK r \in Runners : o \in ToSet(todo[r]) /\ cur[r] \in dependencies[o]
      BY <2>2
    <3>2. CASE r = t
      BY <1>3, <3>1, <3>2
    <3>3. CASE r # t
      BY <1>1, <3>1, <3>3 DEF Threads
    <3>4. QED
      BY <3>2, <3>3
  <2>3. CASE \E c \in Clients : pc[c] = "ready" /\ cur[c] = o
    BY <1>1, <2>3 DEF Threads
  <2>4. QED
    BY <2>1, <2>2, <2>3 DEF Settled, WakeInv, WillBeTold
<1>6. QED
  BY <1>2, <1>4, <1>5

LEMMA AddDependencyWakes ==
    ASSUME Orderly, Settled, NEW c \in Clients, NEW o \in Ops, NEW d \in Ops,
           AddDependency(c, o, d), Step(c)
    PROVE  WakeInv'
<1>1. /\ c \in Threads /\ c \notin Runners /\ d \notin queued /\ pc[c] = "idle"
      /\ Clients = {c} /\ dependencies \in [Ops -> SUBSET Ops]
      /\ \A r \in Runners : pc'[r] = pc[r] /\ cur'[r] = cur[r]
  <2>1. c \in Threads
    BY DEF Threads
  <2>2. QED
    BY <2>1, StepFacts DEF AddDependency, Orderly, MayChange, Threads, Typed
<1>2. /\ UNCHANGED <<ready, cancelled, executing, finished, observers, changing, queued, todo>>
      /\ dependencies' = [dependencies EXCEPT ![o] = @ \cup {d}]
      /\ \/ Matters(o, d) /\ pc'[c] = "watch" /\ cur'[c] = o /\ dep'[c] = d
         \/ ~Matters(o, d) /\ pc'[c] = "idle"
  BY <1>1, StepFacts DEF AddDependency, flags, queue
<1>3. \A p \in Ops : /\ dependencies[p] \subseteq dependencies'[p]
                     /\ dependencies'[p] \subseteq dependencies[p] \cup {d}
                     /\ p # o => dependencies'[p] = dependencies[p]
  BY <1>1, <1>2
<1>4. DecidedReady'
  BY <1>1, <1>2 DEF Settled, WakeInv, DecidedReady
<1>5. WatchInTime'
  BY <1>1, <1>2 DEF WatchInTime, Matters
<1>6. Observed'
  <2> SUFFICES ASSUME NEW p \in Ops, Undecided(p), NEW e \in dependencies'[p] \ finished
               PROVE  \/ p \in ToSet(observers[e])
                      \/ pc'[c] = "watch" /\ cur'[c] = p /\ dep'[c] = e
    BY <1>1, <1>2 DEF Observed, Undecided
  <2>1. CASE e \in dependencies[p]
    BY <1>1, <2>1 DEF Settled, WakeInv, Observed
  <2>2. CASE e \notin dependencies[p]
    BY <1>2, <1>3, <2>2 DEF Matters, Undecided
  <2>3. QED
    BY <2>1, <2>2
<1>7. AllNoted'
  BY <1>1, <1>2 DEF Settled, WakeInv, AllNoted
<1>8. WillBeTold'
  <2> SUFFICES ASSUME NEW p \in Ops \ ready
               PROVE  \/ \E e \in dependencies'[p] \ finished : p \in ToSet(observers[e])
                      \/ \E r \in Runners : p \in ToSet(todo[r]) /\ cur'[r] \in dependencies'[p]
    BY <1>2 DEF WillBeTold
  <2>1. \/ \E e \in dependencies[p] \ finished : p \in ToSet(observers[e])
        \/ \E r \in Runners : p \in ToSet(todo[r]) /\ cur[r] \in dependencies[p]
    BY <1>1 DEF Settled, WakeInv, WillBeTold
  <2>2. QED
    BY <1>1, <1>3, <2>1
<1>9. QED
  BY <1>4, <1>5, <1>6, <1>7, <1>8 DEF WakeInv

LEMMA RemoveDependencyWakes ==
    ASSUME Orderly, Settled, NEW c \in Clients, NEW o \in Ops, NEW d \in Ops,
           RemoveDependency(c, o, d), Step(c)
    PROVE  WakeInv'
<1>1. /\ c \in Threads /\ c \notin Runners /\ pc[c] = "idle" /\ Clients = {c}
      /\ \A p \in Ops : dependencies[p] \subseteq Ops
      /\ \A r \in Runners : r \in Threads /\ pc'[r] = pc[r] /\ cur'[r] = cur[r]
  <2>1. c \in Threads
    BY DEF Threads
  <2>2. QED
    BY <2>1, StepFacts DEF RemoveDependency, Orderly, Threads
<1>2. /\ UNCHANGED <<ready, cancelled, executing, finished, queued, todo>>
      /\ \/ MakesReady(o, dependencies[o] \ {d}) /\ pc'[c] = "ready" /\ cur'[c] = o
         \/ ~MakesReady(o, dependencies[o] \ {d}) /\ pc'[c] = "idle"
  BY <1>1, StepFacts DEF RemoveDependency, flags, queue
<1>3. /\ \A p \in Ops : p # d => observers'[p] = observers[p] /\ changing'[p] = changing[p]
      /\ ToSet(observers'[d]) = ToSet(observers[d]) \ {o}
      /\ ToSet(changing'[d]) = ToSet(changing[d]) \ {o}
  BY <1>1, StepFacts, SetSteps DEF RemoveDependency
<1>4. /\ \A p \in Ops : p # o => dependencies'[p] = dependencies[p]
      /\ dependencies'[o] = dependencies[o] \ {d}
  BY <1>1, StepFacts DEF RemoveDependency, Typed
<1>5. DecidedReady'
  BY <1>1, <1>2 DEF Settled, WakeInv, DecidedReady
<1>6. WatchInTime'
  BY <1>1, <1>2 DEF WatchInTime
<1>7. ASSUME NEW p \in Ops, Undecided(p), NEW e \in dependencies'[p] \ finished
      PROVE  p \in ToSet(observers'[e])
  <2>1. e \in dependencies[p] /\ e \in Ops /\ (p # o \/ e # d)
    BY <1>1, <1>4, <1>7
  <2>2. p \in ToSet(observers[e])
    BY <1>1, <1>7, <2>1 DEF Settled, WakeInv, Observed
  <2>3. QED
    BY <1>3, <2>1, <2>2
<1>8. Observed'
  BY <1>2, <1>7 DEF Observed, Undecided
<1>9. AllNoted'
  <2>1. \A r \in Runners : pc[r] = "change" => cur[r] \in Ops
    BY <1>1, StepFacts DEF Typed
  <2>2. QED
    BY <1>1, <1>3, <2>1 DEF Settled, WakeInv, AllNoted
<1>10. WillBeTold'
  <2> SUFFICES ASSUME NEW p \in Ops \ ready
               PROVE  \/ \E e \in dependencies'[p] \ finished : p \in ToSet(observers'[e])
                      \/ \E r \in Runners : p \in ToSet(todo[r]) /\ cur[r] \in dependencies'[p]
                      \/ pc'[c] = "ready" /\ cur'[c] = p
    BY <1>1, <1>2 DEF WillBeTold
  <2>1. CASE p # o
    <3>1. \/ \E e \in dependencies[p] \ finished : p \in ToSet(observers[e])
          \/ \E r \in Runners : p \in ToSet(todo[r]) /\ cur[r] \in dependencies[p]
      BY <1>1 DEF Settled, WakeInv, WillBeTold
    <3>2. \A e \in dependencies[p] : p \in ToSet(observers[e]) => p \in ToSet(observers'[e])
      BY <1>1, <1>3, <2>1
    <3>3. QED
      BY <1>4, <2>1, <3>1, <3>2
  <2>2. CASE p = o /\ ~MakesReady(o, dependencies[o] \ {d})
    <3>1. PICK e \in dependencies'[o] : e \notin finished
      BY <1>4, <2>2 DEF MakesReady
    <3>2. Undecided(o)
      BY <1>1, <2>2 DEF Settled, WakeInv, DecidedReady, Undecided
    <3>3. QED
      BY <1>7, <2>2, <3>1, <3>2
  <2>3. QED
    BY <1>2, <2>1, <2>2
<1>11. QED
  BY <1>5, <1>6, <1>8, <1>9, <1>10 DEF WakeInv

LEMMA CancelWakes ==
    ASSUME Orderly, Settled, NEW c \in Clients, NEW o \in Ops, Cancel(c, o), Step(c)
    PROVE  WakeInv'
<1>1. /\ c \in Threads /\ c \notin Runners /\ pc[c] = "idle" /\ Clients = {c}
      /\ \A r \in Runners : pc'[r] = pc[r] /\ cur'[r] = cur[r]
  <2>1. c \in Threads
    BY DEF Threads
  <2>2. QED
    BY <2>1, StepFacts DEF Cancel, Orderly, Threads
<1>2. /\ UNCHANGED <<ready, dependencies, executing, finished, observers, changing, queued, todo>>
      /\ cancelled' = cancelled \cup {o}
      /\ \/ o \in ready /\ pc'[c] = "idle"
         \/ o \notin ready /\ pc'[c] = "ready" /\ cur'[c] = o
  BY <1>1, StepFacts DEF Cancel, queue
<1>3. DecidedReady' /\ WatchInTime' /\ AllNoted'
  BY <1>1, <1>2 DEF Settled, WakeInv, DecidedReady, WatchInTime, AllNoted
<1>4. Observed' /\ WillBeTold'
  BY <1>1, <1>2 DEF Settled, WakeInv, Observed, WillBeTold, Undecided
<1>5. QED
  BY <1>3, <1>4 DEF WakeInv

\* The other calls leave the observers and the dependencies alone.
LEMMA OtherCallsWake ==
    ASSUME Orderly, Settled, NEW c \in Clients, Step(c),
           \/ \E o \in Ops : AddToQueue(c, o) \/ WaitUntilFinished(c, o)
           \/ WaitReturns(c)
    PROVE  WakeInv'
<1>1. /\ c \in Threads /\ c \notin Runners /\ pc[c] \in {"idle", "wait"} /\ Clients = {c}
      /\ pc'[c] \in {"idle", "wait", "test"}
      /\ \A r \in Runners : pc'[r] = pc[r] /\ cur'[r] = cur[r]
  <2>1. c \in Threads
    BY DEF Threads
  <2>2. QED
    BY <2>1, StepFacts DEF AddToQueue, WaitUntilFinished, WaitReturns, Orderly, Threads
<1>2. UNCHANGED <<dependencies, flags, observers, changing, todo>>
  BY DEF AddToQueue, WaitUntilFinished, WaitReturns
<1>3. DecidedReady' /\ Observed' /\ WillBeTold'
  BY <1>1, <1>2 DEF Settled, WakeInv, DecidedReady, Observed, WillBeTold, Undecided, flags
<1>4. WatchInTime' /\ AllNoted'
  BY <1>1, <1>2 DEF Settled, WakeInv, WatchInTime, AllNoted
<1>5. QED
  BY <1>3, <1>4 DEF WakeInv

LEMMA WatchWakes ==
    ASSUME Orderly, Settled, NEW c \in Clients, Watch(c), Step(c)
    PROVE  WakeInv'
<1> DEFINE o == cur[c]
           d == dep[c]
<1>1. /\ c \in Threads /\ c \notin Runners /\ o \in Ops /\ d \in Ops /\ o # d
      /\ pc[c] = "watch" /\ Clients = {c} /\ o \in Objects
      /\ o \notin cancelled /\ d \notin queued /\ d \in dependencies[o]
  <2>1. c \in Threads /\ pc[c] = "watch"
    BY DEF Threads, Watch
  <2>2. QED
    BY <2>1, StepFacts
       DEF Orderly, Settled, WakeInv, WatchInTime, LastInv, ListsInv, Typed, Objects
<1>2. /\ UNCHANGED <<dependencies, flags, changing, queued, todo>>
      /\ observers' = [observers EXCEPT ![d] = Append(@, o)]
      /\ pc'[c] \in {"idle", "unready"} /\ (pc'[c] = "unready" => cur'[c] = o)
  BY <1>1, StepFacts DEF Watch, queue
<1>3. /\ \A p \in Ops : ToSet(observers[p]) \subseteq ToSet(observers'[p])
      /\ \A p \in Ops : p # d => observers'[p] = observers[p]
      /\ o \in ToSet(observers'[d])
  <2>1. ToSet(Append(observers[d], o)) = ToSet(observers[d]) \cup {o}
    BY <1>1, StepFacts, SetSteps
  <2>2. QED
    BY <1>1, <1>2, <2>1, StepFacts
<1>4. DecidedReady' /\ Observed' /\ WillBeTold'
  BY <1>1, <1>2, <1>3, WakeIsKept DEF flags
<1>5. WatchInTime'
  BY <1>1, <1>2, <1>3 DEF WatchInTime, flags
<1>6. AllNoted'
  <2>1. \A r \in Runners : pc'[r] = "change" =>
            pc[r] = "change" /\ cur'[r] = cur[r] /\ cur[r] # d /\ cur[r] \in Ops
    BY <1>1, StepFacts DEF Settled, PlaceInv, RunnerPlaces, Typed, Threads
  <2>2. QED
    BY <1>2, <1>3, <2>1 DEF Settled, WakeInv, AllNoted
<1>7. QED
  BY <1>4, <1>5, <1>6 DEF WakeInv

LEMMA TestReadyWakes ==
    ASSUME Orderly, Settled, NEW c \in Clients, TestReady(c), Step(c)
    PROVE  WakeInv'
<1>1. /\ c \in Threads /\ c \notin Runners /\ cur[c] \in Ops /\ pc[c] = "test"
      /\ Clients = {c} /\ Queue \in Objects /\ cur[c] \in awaited
  <2>1. c \in Threads /\ pc[c] = "test"
    BY DEF Threads, TestReady
  <2>2. QED
    BY <2>1, StepFacts DEF Orderly, Settled, PlaceInv, ClientPlaces, Objects
<1>2. /\ UNCHANGED <<dependencies, flags, changing, queued, todo>> /\ pc'[c] = "idle"
      /\ \/ observers' = observers
         \/ observers' = [observers EXCEPT ![cur[c]] = Append(@, Queue)]
  BY <1>1, StepFacts DEF TestReady, React
<1>3. /\ \A p \in Ops : ToSet(observers[p]) \subseteq ToSet(observers'[p])
      /\ \A p \in Ops : p # cur[c] => observers'[p] = observers[p]
  <2>1. ToSet(Append(observers[cur[c]], Queue)) = ToSet(observers[cur[c]]) \cup {Queue}
    BY <1>1, StepFacts, SetSteps
  <2>2. QED
    BY <1>1, <1>2, <2>1, StepFacts
<1>4. DecidedReady' /\ Observed' /\ WillBeTold'
  BY <1>1, <1>2, <1>3, WakeIsKept DEF flags
<1>5. WatchInTime'
  BY <1>1, <1>2 DEF WatchInTime
<1>6. AllNoted'
  <2>1. \A r \in Runners : pc'[r] = "change" =>
            pc[r] = "change" /\ cur'[r] = cur[r] /\ cur[r] # cur[c] /\ cur[r] \in Ops
    BY <1>1, StepFacts DEF Settled, PlaceInv, RunnerPlaces, Typed, Threads
  <2>2. QED
    BY <1>2, <1>3, <2>1 DEF Settled, WakeInv, AllNoted
<1>7. QED
  BY <1>4, <1>5, <1>6 DEF WakeInv

LEMMA SetReadyWakes ==
    ASSUME Orderly, Settled, NEW t \in Threads, SetReady(t), Step(t)
    PROVE  WakeInv'
<1> DEFINE o == Target(t)
<1>1. /\ o \in Ops /\ pc[t] \in {"ready", "unready"} /\ pc'[t] = "report" /\ cur' = cur
      /\ \A u \in Threads \ {t} : pc'[u] = pc[u] /\ dep'[u] = dep[u]
      /\ t \in Clients => o = cur[t]
      /\ pc[t] = "unready" => t \in Clients /\ Clients = {t}
  <2>1. pc[t] \in ChangingPcs
    BY DEF SetReady, ChangingPcs
  <2>2. QED
    BY <2>1, StepFacts, TargetTyped DEF SetReady, Orderly, Threads
<1>2. /\ UNCHANGED <<dependencies, cancelled, executing, finished, observers, changing,
                     queued, cur, todo>>
      /\ ready' = IF pc[t] = "ready" THEN ready \cup {o} ELSE ready \ {o}
  BY DEF SetReady, queue
<1> HIDE DEF o
<1>3. WatchInTime' /\ AllNoted'
  BY <1>1, <1>2 DEF Settled, WakeInv, WatchInTime, AllNoted, Threads
<1>4. CASE pc[t] = "ready"
  <2>1. t \in Runners /\ pc'[t] # "idle" => cur'[t] \in ready'
    BY <1>1, <1>2, <1>4 DEF Settled, WakeInv, DecidedReady
  <2>2. DecidedReady' /\ Observed' /\ WillBeTold'
    BY <1>1, <1>2, <1>4, <2>1, WakeIsKept
  <2>3. QED
    BY <1>3, <2>2 DEF WakeInv
<1>5. CASE pc[t] = "unready"
  <2>1. /\ Clients = {t} /\ o = cur[t] /\ o \notin queued /\ o \notin cancelled
        /\ \E d \in dependencies[o] \ finished : o \in ToSet(observers[d])
    BY <1>1, <1>5
       DEF Settled, WakeInv, WatchInTime, PlaceInv, Places, ClientPlaces
  <2>2. \A r \in Runners : pc'[r] = pc[r] /\ (pc[r] # "idle" => cur[r] # o)
    BY <1>1, <2>1, StepFacts DEF Settled, PlaceInv, RunnerPlaces, Threads
  <2>3. DecidedReady'
    BY <1>1, <1>2, <1>5, <2>1, <2>2 DEF Settled, PlaceInv, Places, WakeInv, DecidedReady
  <2>4. Observed'
    BY <1>1, <1>2, <1>5, <2>1 DEF Settled, WakeInv, Observed, Undecided
  <2>5. WillBeTold'
    BY <1>1, <1>2, <1>5, <2>1, <2>2 DEF Settled, WakeInv, WillBeTold
  <2>6. QED
    BY <1>3, <2>3, <2>4, <2>5 DEF WakeInv
<1>6. QED
  BY <1>1, <1>4, <1>5

\* Nothing is reported twice, so no exception is raised.
LEMMA ReportResumes ==
    ASSUME Settled, NEW t \in Threads, Report(t), Step(t)
    PROVE  /\ Resume(t) /\ kept' = kept
           /\ \/ t \notin noted /\ UNCHANGED <<awaited, waiting, observers>>
              \/ t \in noted /\ Target(t) \in awaited /\ Free(Queue, t) /\ React(Target(t))
BY DEF Report, Settled, TellInv, ToldOnce

LEMMA ReportWakes ==
    ASSUME Orderly, Settled, NEW t \in Threads, Report(t), Step(t)
    PROVE  WakeInv'
<1> DEFINE o == Target(t)
<1>1. /\ pc[t] = "report" /\ o \in Ops /\ o \in Objects /\ Queue \in Objects
      /\ t \in Clients => pc'[t] = "idle"
      /\ t \in Runners => /\ pc'[t] = "notify" /\ cur'[t] = cur[t] /\ todo[t] # <<>>
                          /\ todo'[t] = Tail(todo[t]) /\ o = Head(todo[t]) /\ o \in ready
                          /\ cur[t] \in ready
      /\ t \in Clients \/ t \in Runners
  <2>1. pc[t] = "report" /\ pc[t] \in ChangingPcs
    BY DEF Report, ChangingPcs
  <2>2. o \in Ops /\ (t \in Runners => o = Head(todo[t]) /\ todo[t] # <<>>)
    BY <2>1, StepFacts, TargetTyped
  <2>3. /\ t \in Clients => pc'[t] = "idle"
        /\ t \in Runners => pc'[t] = "notify" /\ cur'[t] = cur[t] /\ todo'[t] = Tail(todo[t])
    BY StepFacts, ReportResumes DEF Resume
  <2>4. t \in Runners => o \in ready /\ cur[t] \in ready
    BY <2>1 DEF Settled, PlaceInv, RunnerPlaces, WakeInv, DecidedReady
  <2>5. QED
    BY <2>1, <2>2, <2>3, <2>4 DEF Objects, Threads
<1>2. /\ UNCHANGED <<dependencies, flags, changing, queued>>
      /\ \/ observers' = observers
         \/ o \in awaited /\ observers' = [observers EXCEPT ![o] = Append(@, Queue)]
  BY ReportResumes DEF Report, React
<1> HIDE DEF o
<1>3. /\ \A p \in Ops : ToSet(observers[p]) \subseteq ToSet(observers'[p])
      /\ \A p \in Ops : p \notin awaited => observers'[p] = observers[p]
  <2>1. ToSet(Append(observers[o], Queue)) = ToSet(observers[o]) \cup {Queue}
    BY <1>1, StepFacts, SetSteps
  <2>2. QED
    BY <1>1, <1>2, <2>1, StepFacts
<1>4. t \in Runners => \A p \in Ops \ ready : p \in ToSet(todo[t]) => p \in ToSet(todo'[t])
  <2>1. t \in Runners => ToSet(todo[t]) \subseteq {Head(todo[t])} \cup ToSet(Tail(todo[t]))
    BY <1>1, StepFacts, SetSteps
  <2>2. QED
    BY <1>1, <2>1
<1>5. DecidedReady' /\ Observed' /\ WillBeTold'
  BY <1>1, <1>2, <1>3, <1>4, WakeIsKept DEF flags
<1>6. \A u \in Threads \ {t} : pc'[u] = pc[u] /\ cur'[u] = cur[u] /\ dep'[u] = dep[u]
  BY StepFacts
<1>7. \A c \in Clients : pc'[c] \in {"watch", "unready"} =>
          pc[c] = pc'[c] /\ cur'[c] = cur[c] /\ dep'[c] = dep[c] /\ cur[c] \in Ops
  BY <1>1, <1>6, StepFacts DEF Typed, Threads
<1>8. WatchInTime'
  <2>1. \A p \in Ops : dependencies[p] \subseteq Ops
    BY StepFacts
  <2>2. QED
    BY <1>2, <1>3, <1>7, <2>1 DEF Settled, WakeInv, WatchInTime, flags
<1>9. AllNoted'
  <2>1. \A r \in Runners : pc'[r] = "change" =>
            pc[r] = "change" /\ cur'[r] = cur[r] /\ cur[r] \notin awaited /\ cur[r] \in Ops
    BY <1>1, <1>6, StepFacts DEF Settled, PlaceInv, RunnerPlaces, Typed, Threads
  <2>2. QED
    BY <1>2, <1>3, <2>1 DEF Settled, WakeInv, AllNoted
<1>10. QED
  BY <1>5, <1>8, <1>9 DEF WakeInv

\* A step of a thread of the queue that leaves the clients and the dependencies alone
\* and takes no observer from an operation that is in no queue.
LEMMA RunnerWakes ==
    ASSUME Settled, NEW r \in Runners, Step(r),
           UNCHANGED <<dependencies, cancelled, ready, queued>>,
           executing \subseteq executing', executing' \subseteq executing \cup ready,
           finished' = finished,
           \A d \in Ops : \A p \in Ops \ {d} :
               p \in ToSet(observers[d]) => p \in ToSet(observers'[d]),
           \A d \in Ops : observers'[d] # observers[d] => pc[r] # "idle" /\ d = cur[r],
           \A d \in Ops : changing'[d] # changing[d] =>
               pc[r] # "idle" /\ d = cur[r] /\ changing'[d] = observers[d],
           pc'[r] = "change" => cur'[r] = cur[r] /\ changing'[cur[r]] = observers'[cur[r]],
           pc'[r] # "idle" => cur'[r] \in ready,
           todo[r] # <<>> => \A p \in Ops \ ready : p \in ToSet(todo[r]) =>
                   \/ p \in ToSet(todo'[r]) /\ cur'[r] = cur[r]
                   \/ \E d \in dependencies[p] \ finished : p \in ToSet(observers[d])
    PROVE  WakeInv'
<1>1. /\ r \in Threads /\ r \notin Clients
      /\ \A u \in Threads \ {r} : pc'[u] = pc[u] /\ cur'[u] = cur[u] /\ dep'[u] = dep[u]
      /\ pc[r] # "idle" => cur[r] \in Ops /\ cur[r] \in queued
      /\ \A d \in Ops : dependencies[d] \subseteq Ops
  <2>1. r \in Threads
    BY DEF Threads
  <2>2. QED
    BY <2>1, StepFacts DEF Settled, PlaceInv, RunnerPlaces
<1>2. DecidedReady' /\ Observed' /\ WillBeTold'
  <2>1. todo[r] = <<>> => ToSet(todo[r]) = {}
    BY DEF ToSet
  <2>2. QED
    BY <1>1, <2>1, WakeIsKept
<1>3. WatchInTime'
  <2>1. \A c \in Clients : c \in Threads \ {r}
    BY <1>1 DEF Threads
  <2>2. \A d \in Ops \ queued : observers'[d] = observers[d]
    BY <1>1
  <2>3. \A c \in Clients : pc[c] = "unready" => cur[c] \in Ops
    BY <2>1 DEF Settled, LastInv, OrderInv, Located, Typed
  <2>4. QED
    BY <1>1, <2>1, <2>2, <2>3 DEF Settled, WakeInv, WatchInTime
<1>4. AllNoted'
  <2> SUFFICES ASSUME NEW s \in Runners, pc'[s] = "change"
               PROVE  ToSet(observers'[cur'[s]]) \subseteq ToSet(changing'[cur'[s]])
    BY DEF AllNoted
  <2>1. CASE s = r
    BY <2>1
  <2>2. CASE s # r
    <3>1. s \in Threads /\ pc[s] = "change" /\ cur'[s] = cur[s] /\ cur[s] \in Ops
      BY <1>1, <2>2 DEF Threads, Settled, LastInv, OrderInv, Located, Typed
    <3>2. pc[r] # "idle" => cur[r] # cur[s]
      BY <2>2, <3>1 DEF Settled, PlaceInv, RunnerPlaces
    <3>3. observers'[cur[s]] = observers[cur[s]] /\ changing'[cur[s]] = changing[cur[s]]
      BY <3>1, <3>2
    <3>4. QED
      BY <3>1, <3>3 DEF Settled, WakeInv, AllNoted
  <2>3. QED
    BY <2>1, <2>2
<1>5. QED
  BY <1>2, <1>3, <1>4 DEF WakeInv

\* What the lemmas on the threads of the queue start from.
LEMMA RunnerFacts ==
    ASSUME Settled, NEW r \in Runners, Step(r)
    PROVE  /\ r \in Threads /\ r \notin Clients
           /\ DOMAIN pc = Threads /\ DOMAIN cur = Threads /\ DOMAIN todo = Threads
           /\ DOMAIN observers = Ops /\ DOMAIN changing = Ops
           /\ pc[r] # "idle" => cur[r] \in Ops /\ cur[r] \in ready
           /\ pc[r] \notin TellingPcs => todo[r] = <<>>
           /\ todo[r] \in ObserverLists
           /\ \A p \in Ops : observers[p] \in ObserverLists
<1>1. r \in Threads
  BY DEF Threads
<1>2. QED
  BY <1>1, StepFacts
     DEF Settled, WakeInv, DecidedReady, LastInv, ListsInv

LEMMA RunWakes ==
    ASSUME Settled, NEW r \in Runners, Step(r),
           (\E o \in Ops : Take(r, o)) \/ Start(r) \/ Main(r) \/ EndFinish(r)
    PROVE  WakeInv'
<1>1. ASSUME NEW o \in Ops, Take(r, o)
      PROVE  WakeInv'
  <2>1. /\ UNCHANGED <<dependencies, flags, observers, changing, queued, todo>>
        /\ pc[r] = "idle" /\ pc'[r] = "start" /\ cur'[r] = o /\ o \in ready /\ todo[r] = <<>>
    BY <1>1, RunnerFacts DEF Take, TellingPcs, Settled, PlaceInv, Places
  <2>2. QED
    BY <2>1, RunnerWakes DEF flags
<1>2. CASE Start(r)
  <2>1. /\ UNCHANGED <<dependencies, cancelled, ready, finished, observers, changing, queued,
                       todo, cur>>
        /\ pc[r] = "start" /\ pc'[r] \in {"main", "finish"} /\ todo[r] = <<>>
        /\ executing \subseteq executing' /\ executing' \subseteq executing \cup ready
    BY <1>2, RunnerFacts DEF Start, MayStart, TellingPcs, queue
  <2>2. QED
    BY <2>1, RunnerFacts, RunnerWakes
<1>3. CASE Main(r) \/ EndFinish(r)
  <2>1. /\ UNCHANGED <<dependencies, flags, observers, changing, queued, todo, cur>>
        /\ pc[r] # "idle" /\ pc'[r] = "finish" /\ todo[r] = <<>>
    BY <1>3, RunnerFacts DEF Main, EndFinish, TellingPcs, queue
  <2>2. QED
    BY <2>1, RunnerFacts, RunnerWakes DEF flags
<1>4. QED
  BY <1>1, <1>2, <1>3

LEMMA FinishWakes ==
    ASSUME Settled, NEW r \in Runners, Finish(r), Step(r)
    PROVE  WakeInv'
<1>1. /\ UNCHANGED <<dependencies, flags, observers, queued, todo>>
      /\ pc[r] = "finish" /\ todo[r] = <<>> /\ cur[r] \in Ops /\ cur[r] \in ready
      /\ \/ changing' = changing /\ pc'[r] = "idle"
         \/ /\ changing' = [changing EXCEPT ![cur[r]] = observers[cur[r]]]
            /\ pc'[r] = "change" /\ cur' = cur
  BY RunnerFacts DEF Finish, TellingPcs, queue
<1>2. /\ \A d \in Ops : changing'[d] # changing[d] =>
             d = cur[r] /\ changing'[d] = observers[d]
      /\ pc'[r] = "change" => cur'[r] = cur[r] /\ changing'[cur[r]] = observers'[cur[r]]
  BY <1>1, RunnerFacts
<1>3. QED
  BY <1>1, <1>2, RunnerWakes DEF flags

LEMMA SetFinishedWakes ==
    ASSUME Settled, NEW r \in Runners, SetFinished(r), Step(r)
    PROVE  WakeInv'
<1> DEFINE d == cur[r]
<1>1. /\ UNCHANGED <<dependencies, cancelled, ready, observers, queued, cur>>
      /\ pc[r] = "change" /\ pc'[r] = "notify" /\ todo[r] = <<>> /\ d \in Ops /\ d \in ready
      /\ executing' = executing \ {d} /\ finished' = finished \cup {d}
      /\ todo'[r] = Reverse(changing[d])
      /\ \A p \in Ops : p # d => changing'[p] = changing[p]
  BY RunnerFacts DEF SetFinished, TellingPcs, queue
<1>2. /\ r \in Threads /\ r \notin Clients
      /\ \A u \in Threads \ {r} : pc'[u] = pc[u] /\ dep'[u] = dep[u] /\ todo'[u] = todo[u]
      /\ changing[d] \in ObserverLists
      /\ \A p \in Ops : dependencies[p] \subseteq Ops
  BY <1>1, RunnerFacts, StepFacts
<1>3. ToSet(observers[d]) \subseteq ToSet(todo'[r])
  <2>1. ToSet(Reverse(changing[d])) = ToSet(changing[d])
    BY <1>2, SetSteps
  <2>2. QED
    BY <1>1, <2>1 DEF Settled, WakeInv, AllNoted
<1> HIDE DEF d
<1>4. DecidedReady'
  BY <1>1, <1>2 DEF Settled, WakeInv, DecidedReady, Threads
<1>5. WatchInTime'
  BY <1>1, <1>2 DEF Settled, WakeInv, WatchInTime, Threads
<1>6. Observed'
  BY <1>1, <1>2 DEF Settled, WakeInv, Observed, Undecided, Threads
<1>7. AllNoted'
  <2>1. \A s \in Runners : pc'[s] = "change" => pc[s] = "change" /\ cur[s] # d /\ cur[s] \in Ops
    BY <1>1, <1>2
       DEF d, Settled, PlaceInv, RunnerPlaces, LastInv, OrderInv, Located, Typed, Threads
  <2>2. QED
    BY <1>1, <2>1 DEF Settled, WakeInv, AllNoted
<1>8. WillBeTold'
  <2> SUFFICES ASSUME NEW o \in Ops \ ready
               PROVE  \/ \E e \in dependencies[o] \ finished' : o \in ToSet(observers[e])
                      \/ \E s \in Runners : o \in ToSet(todo'[s]) /\ cur[s] \in dependencies[o]
                      \/ \E c \in Clients : pc'[c] = "ready" /\ cur[c] = o
    BY <1>1 DEF WillBeTold
  <2>1. CASE \E e \in dependencies[o] \ finished : o \in ToSet(observers[e])
    <3>1. PICK e \in dependencies[o] \ finished : o \in ToSet(observers[e])
      BY <2>1
    <3>2. CASE e = d
      BY <1>3, <3>1, <3>2 DEF d
    <3>3. CASE e # d
      BY <1>1, <3>1, <3>3
    <3>4. QED
      BY <3>2, <3>3
  <2>2. CASE \E s \in Runners : o \in ToSet(todo[s]) /\ cur[s] \in dependencies[o]
    <3>1. ToSet(todo[r]) = {}
      BY <1>1 DEF ToSet
    <3>2. QED
      BY <1>2, <2>2, <3>1 DEF Threads
  <2>3. CASE \E c \in Clients : pc[c] = "ready" /\ cur[c] = o
    BY <1>2, <2>3 DEF Threads
  <2>4. QED
    BY <2>1, <2>2, <2>3 DEF Settled, WakeInv, WillBeTold
<1>9. QED
  BY <1>4, <1>5, <1>6, <1>7, <1>8 DEF WakeInv

LEMMA TellItselfWakes ==
    ASSUME Settled, NEW r \in Runners, TellItself(r) \/ TellQueue(r), Step(r)
    PROVE  WakeInv'
<1> DEFINE h == Head(todo[r])
<1>1. /\ UNCHANGED <<dependencies, flags, changing, queued, pc, cur>>
      /\ pc[r] = "notify" /\ cur[r] \in Ops /\ cur[r] \in ready /\ todo[r] # <<>>
      /\ h = cur[r] \/ h = Queue
      /\ observers' = [observers EXCEPT ![cur[r]] = Without(@, h)]
      /\ todo'[r] = Tail(todo[r])
  BY RunnerFacts DEF TellItself, TellQueue, queue
<1>2. \A p \in Ops \ ready : p \in ToSet(todo[r]) => p \in ToSet(todo'[r])
  <2>1. ToSet(todo[r]) \subseteq {h} \cup ToSet(Tail(todo[r]))
    BY <1>1, RunnerFacts, SetSteps
  <2>2. QED
    BY <1>1, <2>1, OperationAssumption
<1>3. /\ \A d \in Ops : \A p \in Ops \ {d} :
             p \in ToSet(observers[d]) => p \in ToSet(observers'[d])
      /\ \A d \in Ops : d # cur[r] => observers'[d] = observers[d]
  <2>1. ToSet(Without(observers[cur[r]], h)) = ToSet(observers[cur[r]]) \ {h}
    BY <1>1, RunnerFacts, SetSteps
  <2>2. QED
    BY <1>1, <2>1, RunnerFacts, OperationAssumption
<1>4. QED
  BY <1>1, <1>2, <1>3, RunnerWakes DEF flags

LEMMA TellDependentWakes ==
    ASSUME Settled, NEW r \in Runners, TellDependent(r), Step(r)
    PROVE  WakeInv'
<1> DEFINE o == Head(todo[r])
<1>1. /\ UNCHANGED <<dependencies, flags, observers, changing, queued, cur>>
      /\ pc[r] = "notify" /\ cur[r] \in Ops /\ cur[r] \in ready /\ todo[r] # <<>>
      /\ pc'[r] \in {"notify", "ready"} /\ Free(o, r) /\ o # Queue
      /\ \/ todo' = todo
         \/ ~MakesReady(o, dependencies[o]) /\ todo'[r] = Tail(todo[r])
  BY RunnerFacts DEF TellDependent, queue
<1>2. ToSet(todo[r]) \subseteq {o} \cup ToSet(Tail(todo[r])) /\ o \in Ops
  <2>1. o \in Objects
    BY <1>1, RunnerFacts, ListSteps
  <2>2. QED
    BY <1>1, <2>1, RunnerFacts, SetSteps DEF Objects
<1> HIDE DEF o
<1>3. ASSUME NEW c \in Clients, pc[c] \in {"ready", "watch"}
      PROVE  cur[c] # o
  <2>1. c \in Threads /\ c # r /\ lock[cur[c]] = c /\ r # None /\ c # None
    BY <1>3, RunnerFacts, OperationAssumption
       DEF Threads, Settled, LastInv, OrderInv, Located, HoldsLocks, LockingPcs, ChangingPcs
  <2>2. QED
    BY <1>1, <2>1 DEF Free
<1>4. ASSUME o \notin ready, ~MakesReady(o, dependencies[o])
      PROVE  \E e \in dependencies[o] \ finished : o \in ToSet(observers[e])
  <2>1. PICK e \in dependencies[o] : e \notin finished
    BY <1>4 DEF MakesReady
  <2>2. Undecided(o)
    BY <1>2, <1>3, <1>4 DEF Settled, WakeInv, DecidedReady, Undecided
  <2>3. QED
    BY <1>2, <1>3, <2>1, <2>2 DEF Settled, WakeInv, Observed
<1>5. \A p \in Ops \ ready : p \in ToSet(todo[r]) =>
          \/ p \in ToSet(todo'[r]) /\ cur'[r] = cur[r]
          \/ \E d \in dependencies[p] \ finished : p \in ToSet(observers[d])
  BY <1>1, <1>2, <1>4
<1>6. QED
  BY <1>1, <1>5, RunnerWakes DEF flags

LEMMA StepWakes ==
    ASSUME Orderly, Settled, NEW t \in Threads, Step(t)
    PROVE  WakeInv'
<1>1. ASSUME t \in Clients, ClientCall(t)
      PROVE  WakeInv'
  BY <1>1, AddDependencyWakes, RemoveDependencyWakes, CancelWakes, OtherCallsWake
     DEF ClientCall
<1>2. ASSUME t \in Clients, ClientStep(t)
      PROVE  WakeInv'
  BY <1>2, WatchWakes, SetReadyWakes, ReportWakes, TestReadyWakes, OtherCallsWake
     DEF ClientStep
<1>3. ASSUME t \in Runners, RunnerStep(t)
      PROVE  WakeInv'
  BY <1>3, RunWakes, FinishWakes, SetFinishedWakes, TellItselfWakes, TellDependentWakes,
     SetReadyWakes, ReportWakes
     DEF RunnerStep
<1>4. QED
  BY <1>1, <1>2, <1>3 DEF Step

-----------------------------------------------------------------------------
\* Nobody is left to tell an operation whose dependencies have all finished, with
\* the thread that finished each one done, unless a client is about to.
LEMMA NobodyTells ==
    ASSUME Settled, NEW o \in Ops \ ready, dependencies[o] \subseteq finished,
           \A d \in dependencies[o] : d \notin queued \/ d \in released,
           \A c \in Clients : ~(pc[c] = "ready" /\ cur[c] = o)
    PROVE  FALSE
<1>1. PICK r \in Runners : o \in ToSet(todo[r]) /\ cur[r] \in dependencies[o]
  BY DEF Settled, WakeInv, WillBeTold
<1>2. todo[r] # <<>>
  BY <1>1 DEF ToSet
<1>3. r \in Threads /\ pc[r] \in TellingPcs
  BY <1>2 DEF Threads, Settled, LastInv, ListsInv
<1>4. cur[r] \notin released
  BY <1>2, <1>3 DEF Settled, LastInv, SelfFirst
<1>5. cur[r] \in queued
  BY <1>3 DEF TellingPcs, Settled, PlaceInv, RunnerPlaces
<1>6. QED
  BY <1>1, <1>4, <1>5

\* Two threads that change an isReady change that of two operations.
LEMMA OneChanges ==
    ASSUME Settled, NEW t \in Threads, NEW u \in Threads \ {t},
           pc[t] \in ChangingPcs, pc[u] \in ChangingPcs
    PROVE  Target(u) # Target(t)
BY DEF Settled, LastInv, OrderInv, Located, HoldsLocks

\* Who is to tell the queue changes an isReady.
LEMMA NotedChange ==
    ASSUME Settled, NEW t \in noted
    PROVE  t \in Threads /\ pc[t] \in ChangingPcs
BY DEF Settled, TellInv, ToldOnce, ChangingPcs

\* A step that neither changes an isReady nor looks at one.
LEMMA TellIsKept ==
    ASSUME Orderly, Settled, NEW t \in Threads, Step(t),
           UNCHANGED <<kept, noted, ready, awaited>>,
           released \subseteq released',
           t \in Runners => UNCHANGED <<queued, dependencies>>,
           pc[t] \notin {"ready", "report", "test"},
           pc'[t] \notin {"ready", "report", "test"}
    PROVE  TellInv'
<1>1. /\ \A u \in Threads \ {t} :
             pc'[u] = pc[u] /\ cur'[u] = cur[u] /\ Target(u)' = Target(u)
      /\ t \in Clients => Clients = {t}
      /\ t \in Clients \/ t \in Runners
      /\ t \notin noted
  BY StepFacts DEF Orderly, Threads, Settled, TellInv, ToldOnce
<1>2. noted \subseteq Threads
  BY NotedChange
<1>3. ToldOnce'
  BY <1>1, <1>2 DEF Settled, TellInv, ToldOnce
<1>4. Alone'
  BY <1>1, <1>2 DEF Settled, TellInv, Alone, Threads
<1>5. Noticed'
  BY <1>1, <1>2 DEF Settled, TellInv, Noticed, Threads
<1>6. QED
  BY <1>3, <1>4, <1>5 DEF TellInv

\* What the lemmas on single steps start from.
LEMMA TellFacts ==
    ASSUME Orderly, Settled, NEW t \in Threads, Step(t)
    PROVE  /\ \A u \in Threads \ {t} :
                  pc'[u] = pc[u] /\ cur'[u] = cur[u] /\ Target(u)' = Target(u)
           /\ t \in Clients => Clients = {t} /\ t \notin Runners
           /\ t \in Clients \/ t \in Runners
           /\ noted \subseteq Threads
           /\ DOMAIN pc = Threads /\ DOMAIN cur = Threads
BY NotedChange, StepFacts DEF Orderly, Threads

\* A client is to tell the queue that an operation, which was not ready, is.
LEMMA ClientWillTell ==
    ASSUME Orderly, Settled, NEW c \in Clients, NEW o \in Ops, Step(c), o \notin ready,
           pc[c] = "idle", pc'[c] = "ready", cur'[c] = o, Note(c, o),
           UNCHANGED <<kept, ready, awaited>>
    PROVE  TellInv'
<1>1. c \in Threads /\ Target(c)' = o /\ c \notin noted
  BY DEF Threads, Target, Settled, TellInv, ToldOnce
<1>2. noted \subseteq noted' /\ noted' \subseteq noted \cup {c} /\ (c \in noted' <=> o \in awaited)
  BY <1>1 DEF Note
<1>3. ToldOnce'
  BY <1>1, <1>2, TellFacts DEF Settled, TellInv, ToldOnce
<1>4. Alone'
  BY <1>1, TellFacts DEF Alone
<1>5. Noticed'
  BY <1>1, <1>2, TellFacts DEF Settled, TellInv, Noticed, Threads
<1>6. QED
  BY <1>3, <1>4, <1>5 DEF TellInv

LEMMA TellDependentTells ==
    ASSUME Orderly, Settled, NEW r \in Runners, TellDependent(r), Step(r)
    PROVE  TellInv'
<1> DEFINE o == Head(todo[r])
<1>1. /\ r \in Threads /\ r \notin Clients /\ pc[r] = "notify" /\ r \notin noted
      /\ UNCHANGED <<kept, flags, released, awaited, queued, dependencies, cur>>
      /\ \/ /\ MakesReady(o, dependencies[o]) /\ Note(r, o) /\ todo' = todo
            /\ pc'[r] = "ready"
         \/ noted' = noted /\ pc'[r] = "notify"
  BY RunnerFacts
     DEF TellDependent, queue, Settled, TellInv, ToldOnce
<1>2. CASE noted' = noted /\ pc'[r] = "notify"
  BY <1>1, <1>2, TellIsKept DEF flags
<1>3. CASE /\ MakesReady(o, dependencies[o]) /\ Note(r, o) /\ todo' = todo
           /\ pc'[r] = "ready"
  <2>1. /\ o \in Ops /\ o \notin ready /\ dependencies[o] \subseteq finished
        /\ Target(r)' = o /\ Target(r) = o
    <3>1. o \in Objects /\ o # Queue
      BY RunnerFacts, ListSteps DEF TellDependent
    <3>2. QED
      BY <1>1, <1>3, <3>1 DEF MakesReady, Objects, Target
  <2> HIDE DEF o
  <2>2. noted \subseteq noted' /\ noted' \subseteq noted \cup {r} /\ (r \in noted' <=> o \in awaited)
    BY <1>1, <1>3 DEF Note
  <2>3. ToldOnce'
    BY <1>1, <1>3, <2>1, <2>2, TellFacts DEF Settled, TellInv, ToldOnce, flags
  <2>4. ASSUME NEW c \in Clients, pc[c] = "test"
        PROVE  cur[c] # o
    BY <2>1, <2>4, NobodyTells DEF Settled, TellInv, Alone, Orderly
  <2>5. \A c \in Clients : pc'[c] = pc[c] /\ cur'[c] = cur[c]
    BY <1>1, TellFacts DEF Threads
  <2>6. Alone'
    <3> SUFFICES ASSUME NEW c \in Clients, pc[c] = "test"
                 PROVE  /\ \A d \in dependencies[cur[c]] : d \notin queued \/ d \in released
                        /\ \A s \in Runners : pc'[s] = "ready" \/ s \in noted' =>
                               Target(s)' # cur[c]
      BY <1>1, <2>5 DEF Alone
    <3>1. /\ \A d \in dependencies[cur[c]] : d \notin queued \/ d \in released
          /\ \A s \in Runners : pc[s] = "ready" \/ s \in noted => Target(s) # cur[c]
      BY DEF Settled, TellInv, Alone
    <3>2. QED
      BY <2>1, <2>2, <2>4, <3>1, TellFacts, <1>1 DEF Threads
  <2>7. Noticed'
    BY <1>1, <2>2, <2>5, TellFacts DEF Settled, TellInv, Noticed, flags
  <2>8. QED
    BY <2>3, <2>6, <2>7 DEF TellInv
<1>4. QED
  BY <1>1, <1>2, <1>3

LEMMA SetReadyTells ==
    ASSUME Orderly, Settled, NEW t \in Threads, SetReady(t), Step(t)
    PROVE  TellInv'
<1> DEFINE o == Target(t)
<1>1. /\ pc[t] \in {"ready", "unready"} /\ pc[t] \in ChangingPcs /\ pc'[t] = "report"
      /\ Target(t)' = o /\ o \in Ops
      /\ UNCHANGED <<kept, released, awaited, queued, dependencies, cur>>
      /\ ready' = IF pc[t] = "ready" THEN ready \cup {o} ELSE ready \ {o}
      /\ noted' = IF o \in awaited THEN noted ELSE noted \ {t}
  <2>1. pc[t] \in ChangingPcs
    BY DEF SetReady, ChangingPcs
  <2>2. Target(t)' = o
    BY DEF SetReady, Target
  <2>3. pc'[t] = "report" /\ o \in Ops
    BY <2>1, StepFacts, TargetTyped DEF SetReady
  <2>4. QED
    BY <2>1, <2>2, <2>3 DEF SetReady, locks, queue
<1>2. \A u \in Threads \ {t} : pc[u] \in ChangingPcs => Target(u) # o
  BY <1>1, OneChanges
<1>3. pc[t] = "unready" => o \notin awaited /\ t \notin noted /\ t \in Clients
  <2>1. pc[t] = "unready" => t \in Clients /\ o = cur[t]
    BY <1>1, StepFacts, TargetTyped, TellFacts
  <2>2. QED
    BY <2>1 DEF Settled, PlaceInv, Places, ClientPlaces, TellInv, ToldOnce
<1>4. t \in noted' <=> t \in noted /\ o \in awaited
  BY <1>1
<1>5. \A u \in Threads \ {t} : u \in noted' <=> u \in noted
  BY <1>1
<1> HIDE DEF o
<1>6. ToldOnce'
  <2>1. ASSUME NEW u \in Threads, pc'[u] = "ready"
        PROVE  Target(u)' \notin ready' /\ (Target(u)' \in awaited' => u \in noted')
    <3>1. u # t /\ pc[u] = "ready" /\ Target(u)' = Target(u) /\ Target(u) # o
      BY <1>1, <1>2, <2>1, TellFacts DEF ChangingPcs
    <3>2. QED
      BY <1>1, <1>5, <3>1 DEF Settled, TellInv, ToldOnce
  <2>2. ASSUME NEW u \in noted'
        PROVE  u \in Threads /\ pc'[u] \in {"ready", "report"} /\ Target(u)' \in awaited'
    <3>1. u \in noted
      BY <1>1, <2>2
    <3>2. QED
      BY <1>1, <1>4, <2>2, <3>1, TellFacts DEF Settled, TellInv, ToldOnce
  <2>3. QED
    BY <1>1, <2>1, <2>2 DEF Settled, TellInv, ToldOnce
<1>7. Alone'
  <2>1. CASE t \in Clients
    BY <1>1, <2>1, TellFacts DEF Alone
  <2>2. CASE t \notin Clients
    <3> SUFFICES ASSUME NEW c \in Clients, pc'[c] = "test", NEW s \in Runners,
                        pc'[s] = "ready" \/ s \in noted'
                 PROVE  Target(s)' # cur[c]
      BY <1>1, <2>2, TellFacts DEF Settled, TellInv, Alone, Threads
    <3>1. pc[c] = "test" /\ s \in Threads
      BY <2>2, TellFacts DEF Threads
    <3>2. (pc[s] = "ready" \/ s \in noted) /\ Target(s)' = Target(s)
      BY <1>1, <1>3, <2>2, <3>1, TellFacts DEF o
    <3>3. QED
      BY <3>1, <3>2 DEF Settled, TellInv, Alone
  <2>3. QED
    BY <2>1, <2>2
<1>8. Noticed'
  <2> SUFFICES ASSUME NEW p \in awaited \cap ready'
               PROVE  \/ \E c \in Clients : pc'[c] = "test" /\ cur'[c] = p
                      \/ \E u \in noted' : pc'[u] = "report" /\ Target(u)' = p
    BY <1>1 DEF Noticed
  <2>1. CASE p \in ready
    <3>1. CASE \E c \in Clients : pc[c] = "test" /\ cur[c] = p
      BY <1>1, <3>1, TellFacts DEF Threads
    <3>2. CASE \E u \in noted : pc[u] = "report" /\ Target(u) = p
      BY <1>1, <1>5, <3>2, TellFacts
    <3>3. QED
      BY <2>1, <3>1, <3>2 DEF Settled, TellInv, Noticed
  <2>2. CASE p \notin ready
    <3>1. p = o /\ pc[t] = "ready"
      BY <1>1, <2>2
    <3>2. t \in noted
      BY <3>1 DEF o, Settled, TellInv, ToldOnce
    <3>3. QED
      BY <1>1, <1>4, <3>1, <3>2
  <2>3. QED
    BY <2>1, <2>2
<1>9. QED
  BY <1>6, <1>7, <1>8 DEF TellInv

LEMMA ReportTells ==
    ASSUME Orderly, Settled, NEW t \in Threads, Report(t), Step(t)
    PROVE  TellInv'
<1> DEFINE o == Target(t)
<1>1. /\ pc[t] = "report" /\ pc[t] \in ChangingPcs /\ pc'[t] \in {"idle", "notify"}
      /\ UNCHANGED <<kept, flags, released, queued, dependencies>>
      /\ noted' = noted \ {t}
      /\ awaited' = IF t \in noted THEN awaited \ {o} ELSE awaited
  <2>1. pc[t] = "report" /\ pc'[t] \in {"idle", "notify"}
    BY ReportResumes, TellFacts DEF Report, Resume
  <2>2. QED
    BY <2>1, ReportResumes DEF Report, React, ChangingPcs
<1>2. \A u \in Threads \ {t} : pc[u] \in ChangingPcs => Target(u) # o
  BY <1>1, OneChanges
<1> HIDE DEF o
<1>3. ToldOnce'
  <2>1. ASSUME NEW u \in noted'
        PROVE  u \in Threads /\ pc'[u] \in {"ready", "report"} /\ Target(u)' \in awaited'
    <3>1. u \in noted /\ u \in Threads \ {t}
      BY <1>1, <2>1, TellFacts
    <3>2. pc[u] \in {"ready", "report"} /\ Target(u) \in awaited /\ Target(u) # o
      BY <1>2, <3>1, NotedChange DEF Settled, TellInv, ToldOnce
    <3>3. QED
      BY <1>1, <3>1, <3>2, TellFacts
  <2>2. QED
    BY <1>1, <2>1, TellFacts DEF Settled, TellInv, ToldOnce, flags
<1>4. Alone'
  BY <1>1, TellFacts DEF Settled, TellInv, Alone, Threads
<1>5. Noticed'
  <2> SUFFICES ASSUME NEW p \in awaited' \cap ready
               PROVE  \/ \E c \in Clients : pc'[c] = "test" /\ cur'[c] = p
                      \/ \E u \in noted' : pc'[u] = "report" /\ Target(u)' = p
    BY <1>1 DEF Noticed, flags
  <2>1. CASE \E c \in Clients : pc[c] = "test" /\ cur[c] = p
    BY <1>1, <2>1, TellFacts DEF Threads
  <2>2. CASE \E u \in noted : pc[u] = "report" /\ Target(u) = p
    BY <1>1, <2>2, TellFacts DEF o
  <2>3. QED
    BY <1>1, <2>1, <2>2 DEF Settled, TellInv, Noticed
<1>6. QED
  BY <1>3, <1>4, <1>5 DEF TellInv

LEMMA AddToQueueTells ==
    ASSUME Orderly, AddWhileRunning = FALSE, Settled, NEW c \in Clients, NEW o \in Ops,
           AddToQueue(c, o), Step(c)
    PROVE  TellInv'
<1>1. /\ c \in Threads /\ c \notin Runners /\ Clients = {c} /\ pc[c] = "idle" /\ c \notin noted
      /\ UNCHANGED <<kept, flags, released, dependencies, noted>>
      /\ pc'[c] = "test" /\ cur'[c] = o /\ o \notin queued
      /\ awaited' = awaited \cup {o} /\ queued' = queued \cup {o}
      /\ \A d \in dependencies[o] : d \notin queued \/ d \in released
  <2>1. c \in Threads
    BY DEF Threads
  <2>2. QED
    BY <2>1, TellFacts DEF AddToQueue, MayAdd, Settled, TellInv, ToldOnce
<1>2. \A t \in Threads \ {c} :
          pc'[t] = pc[t] /\ cur'[t] = cur[t] /\ Target(t)' = Target(t)
  BY <1>1, TellFacts
<1>3. ASSUME NEW r \in Threads, pc[r] = "ready", Target(r) = o
      PROVE  FALSE
  <2>1. o \notin ready
    BY <1>3 DEF Settled, TellInv, ToldOnce
  <2>2. o \notin cancelled
    BY <1>1, <2>1 DEF Settled, WakeInv, DecidedReady
  <2>3. dependencies[o] \subseteq finished
    BY <1>3, <2>2 DEF Settled, LastInv, OrderInv, InOrder
  <2>4. QED
    BY <1>1, <2>1, <2>3, NobodyTells
<1>4. \A t \in noted : Target(t) # o
  BY <1>1 DEF Settled, TellInv, ToldOnce, PlaceInv, Places
<1>5. ToldOnce'
  <2>1. ASSUME NEW u \in Threads, pc'[u] = "ready"
        PROVE  Target(u)' \notin ready' /\ (Target(u)' \in awaited' => u \in noted')
    <3>1. u # c /\ pc[u] = "ready" /\ Target(u)' = Target(u) /\ Target(u) # o
      BY <1>1, <1>2, <1>3, <2>1
    <3>2. QED
      BY <1>1, <3>1 DEF Settled, TellInv, ToldOnce, flags
  <2>2. ASSUME NEW u \in noted'
        PROVE  u \in Threads /\ pc'[u] \in {"ready", "report"} /\ Target(u)' \in awaited'
    BY <1>1, <1>2, <2>2 DEF Settled, TellInv, ToldOnce
  <2>3. QED
    BY <1>1, <2>1, <2>2 DEF Settled, TellInv, ToldOnce
<1>6. Alone'
  <2>1. o \notin dependencies[o]
    BY DEF Settled, LastInv, ListsInv
  <2>2. ASSUME NEW r \in Runners, pc'[r] = "ready" \/ r \in noted'
        PROVE  Target(r)' # o
    BY <1>1, <1>2, <1>3, <1>4, <2>2 DEF Threads
  <2>3. QED
    BY <1>1, <2>1, <2>2 DEF Alone
<1>7. Noticed'
  <2> SUFFICES ASSUME NEW p \in awaited' \cap ready
               PROVE  \/ pc'[c] = "test" /\ cur'[c] = p
                      \/ \E u \in noted : pc'[u] = "report" /\ Target(u)' = p
    BY <1>1 DEF Noticed, flags
  <2>1. noted \subseteq Threads \ {c}
    BY <1>1, TellFacts
  <2>2. QED
    BY <1>1, <1>2, <2>1 DEF Settled, TellInv, Noticed
<1>8. QED
  BY <1>5, <1>6, <1>7 DEF TellInv

LEMMA TestReadyTells ==
    ASSUME Orderly, Settled, NEW c \in Clients, TestReady(c), Step(c)
    PROVE  TellInv'
<1> DEFINE o == cur[c]
<1>1. /\ c \in Threads /\ Clients = {c} /\ pc[c] = "test" /\ pc'[c] = "idle" /\ c \notin noted
      /\ UNCHANGED <<kept, flags, released, queued, dependencies, noted>>
      /\ awaited' = IF o \in ready THEN awaited \ {o} ELSE awaited
  <2>1. c \in Threads
    BY DEF Threads
  <2>2. QED
    BY <2>1, TellFacts DEF TestReady, React, Settled, TellInv, ToldOnce
<1>2. \A t \in Threads \ {c} :
          pc'[t] = pc[t] /\ cur'[t] = cur[t] /\ Target(t)' = Target(t)
  BY <1>1, TellFacts
<1>3. noted \subseteq Threads \ {c} /\ noted \subseteq Runners
  BY <1>1, TellFacts DEF Threads
<1>4. \A t \in noted : Target(t) # o
  BY <1>1, <1>3 DEF Settled, TellInv, Alone
<1> HIDE DEF o
<1>5. ToldOnce'
  <2>1. ASSUME NEW u \in Threads, pc'[u] = "ready"
        PROVE  Target(u)' \notin ready' /\ (Target(u)' \in awaited' => u \in noted')
    BY <1>1, <1>2, <2>1 DEF Settled, TellInv, ToldOnce, flags
  <2>2. ASSUME NEW u \in noted'
        PROVE  u \in Threads /\ pc'[u] \in {"ready", "report"} /\ Target(u)' \in awaited'
    BY <1>1, <1>2, <1>3, <1>4, <2>2 DEF Settled, TellInv, ToldOnce
  <2>3. QED
    BY <1>1, <2>1, <2>2 DEF Settled, TellInv, ToldOnce
<1>6. Alone'
  BY <1>1 DEF Alone
<1>7. Noticed'
  <2> SUFFICES ASSUME NEW p \in awaited' \cap ready
               PROVE  \E u \in noted : pc'[u] = "report" /\ Target(u)' = p
    BY <1>1 DEF Noticed, flags
  <2>1. p # o /\ p \in awaited
    BY <1>1
  <2>2. QED
    BY <1>1, <1>2, <1>3, <2>1 DEF o, Settled, TellInv, Noticed
<1>8. QED
  BY <1>5, <1>6, <1>7 DEF TellInv

LEMMA CallTells ==
    ASSUME Orderly, AddWhileRunning = FALSE, Settled, NEW c \in Clients, Step(c),
           ClientCall(c)
    PROVE  TellInv'
<1>1. /\ c \in Threads /\ c \notin Runners /\ pc[c] = "idle" /\ DOMAIN pc = Threads
      /\ DOMAIN cur = Threads
  <2>1. c \in Threads
    BY DEF Threads
  <2>2. QED
    BY <2>1, TellFacts
       DEF ClientCall, AddDependency, RemoveDependency, Cancel, AddToQueue, WaitUntilFinished
<1>2. ASSUME NEW o \in Ops, NEW d \in Ops, AddDependency(c, o, d)
      PROVE  TellInv'
  <2>1. /\ UNCHANGED <<kept, noted, ready, awaited, released>>
        /\ pc'[c] \in {"idle", "watch"}
    BY <1>1, <1>2 DEF AddDependency, flags, queue
  <2>2. QED
    BY <1>1, <2>1, TellIsKept
<1>3. ASSUME NEW o \in Ops, NEW d \in Ops, RemoveDependency(c, o, d)
      PROVE  TellInv'
  <2>1. /\ UNCHANGED <<kept, ready, awaited, released>>
        /\ \/ noted' = noted /\ pc'[c] = "idle"
           \/ o \notin ready /\ Note(c, o) /\ pc'[c] = "ready" /\ cur'[c] = o
    BY <1>1, <1>3 DEF RemoveDependency, MakesReady, flags, queue
  <2>2. QED
    BY <1>1, <2>1, TellIsKept, ClientWillTell
<1>4. ASSUME NEW o \in Ops, Cancel(c, o)
      PROVE  TellInv'
  <2>1. /\ UNCHANGED <<kept, ready, awaited, released>>
        /\ \/ noted' = noted /\ pc'[c] = "idle"
           \/ o \notin ready /\ Note(c, o) /\ pc'[c] = "ready" /\ cur'[c] = o
    BY <1>1, <1>4 DEF Cancel, queue
  <2>2. QED
    BY <1>1, <2>1, TellIsKept, ClientWillTell
<1>5. ASSUME NEW o \in Ops, WaitUntilFinished(c, o)
      PROVE  TellInv'
  <2>1. UNCHANGED <<kept, noted, ready, awaited, released>> /\ pc'[c] = "wait"
    BY <1>1, <1>5 DEF WaitUntilFinished, locks, flags, queue
  <2>2. QED
    BY <1>1, <2>1, TellIsKept
<1>6. QED
  BY <1>2, <1>3, <1>4, <1>5, AddToQueueTells DEF ClientCall

LEMMA ClientStepTells ==
    ASSUME Orderly, Settled, NEW c \in Clients, Step(c), Watch(c) \/ WaitReturns(c)
    PROVE  TellInv'
<1>1. /\ c \in Threads /\ c \notin Runners /\ DOMAIN pc = Threads
  <2>1. c \in Threads
    BY DEF Threads
  <2>2. QED
    BY <2>1, TellFacts
<1>2. CASE Watch(c)
  <2>1. cur[c] \notin awaited
    BY <1>2 DEF Watch, Settled, PlaceInv, Places, ClientPlaces
  <2>2. /\ UNCHANGED <<kept, noted, ready, awaited, released>>
        /\ pc[c] = "watch" /\ pc'[c] \in {"idle", "unready"}
    BY <1>1, <1>2, <2>1 DEF Watch, Note, flags, queue
  <2>3. QED
    BY <1>1, <2>2, TellIsKept
<1>3. CASE WaitReturns(c)
  <2>1. /\ UNCHANGED <<kept, noted, ready, awaited, released>>
        /\ pc[c] = "wait" /\ pc'[c] = "idle"
    BY <1>1, <1>3 DEF WaitReturns, locks, flags, queue
  <2>2. QED
    BY <1>1, <2>1, TellIsKept
<1>4. QED
  BY <1>2, <1>3

LEMMA RunTells ==
    ASSUME Orderly, Settled, NEW r \in Runners, Step(r),
           \/ \E o \in Ops : Take(r, o)
           \/ Start(r) \/ Main(r) \/ Finish(r) \/ SetFinished(r) \/ TellItself(r)
           \/ TellQueue(r) \/ EndFinish(r)
    PROVE  TellInv'
<1>1. r \in Threads /\ r \notin Clients /\ DOMAIN pc = Threads
  BY RunnerFacts
<1>2. /\ UNCHANGED <<kept, noted, ready, awaited, queued, dependencies>>
      /\ released \subseteq released'
  BY DEF Take, Start, Main, Finish, SetFinished, TellItself, TellQueue, EndFinish, locks,
         flags, queue
<1>3. pc[r] \notin {"ready", "report", "test"} /\ pc'[r] \notin {"ready", "report", "test"}
  BY <1>1 DEF Take, Start, Main, Finish, SetFinished, TellItself, TellQueue, EndFinish
<1>4. QED
  BY <1>1, <1>2, <1>3, TellIsKept

LEMMA StepTells ==
    ASSUME Orderly, AddWhileRunning = FALSE, Settled, NEW t \in Threads, Step(t)
    PROVE  TellInv'
<1>1. ASSUME t \in Clients, ClientCall(t) \/ ClientStep(t)
      PROVE  TellInv'
  BY <1>1, CallTells, ClientStepTells, SetReadyTells, ReportTells, TestReadyTells
     DEF ClientStep
<1>2. ASSUME t \in Runners, RunnerStep(t)
      PROVE  TellInv'
  BY <1>2, RunTells, TellDependentTells, SetReadyTells, ReportTells DEF RunnerStep
<1>3. QED
  BY <1>1, <1>2 DEF Step

LEMMA StepSettles ==
    Orderly /\ AddWhileRunning = FALSE /\ Settled /\ [Next]_vars => Settled'
<1> SUFFICES ASSUME Orderly, AddWhileRunning = FALSE, Settled, [Next]_vars PROVE Settled'
  OBVIOUS
<1>1. LastInv' /\ PlaceInv'
  BY StepKeepsLast, StepKeepsPlaces DEF Settled, LastInv
<1>2. CASE UNCHANGED vars
  <2>1. \A t \in Threads : Target(t)' = Target(t)
    BY <1>2 DEF vars, Target
  <2>2. noted \subseteq Threads
    BY NotedChange
  <2>3. TellInv'
    BY <1>2, <2>1, <2>2
       DEF vars, locks, flags, queue, Settled, TellInv, ToldOnce, Alone, Noticed, Threads
  <2>4. WakeInv'
    BY <1>2
       DEF vars, locks, flags, queue, Settled, WakeInv, DecidedReady, WatchInTime, Observed,
           Undecided, AllNoted, WillBeTold
  <2>5. QED
    BY <1>1, <2>3, <2>4 DEF Settled
<1>3. ASSUME NEW t \in Threads, Step(t)
      PROVE  WakeInv' /\ TellInv'
  BY <1>3, StepWakes, StepTells
<1>4. QED
  BY <1>1, <1>2, <1>3, StepsAreOfThreads DEF Settled

\* When one client prepares each operation before it queues it, and adds none while one of
\* its dependencies is between its execution and the last of its notifications,
\* (1) an operation that is not ready will be told so by a dependency that observes it, by
\* a thread that has finished one or by the client that cancels it, and what the queue has
\* not noticed it will be told: -_updateReadyState with its notifications, the addition to
\* the queue and the removal of observers (NSOperation.m:108-208, 509-563, 905-943 and
\* 1254-1299) lose none, and (2) no removal of an observer raises an exception, so no
\* lock is left locked.
THEOREM NoWakeupIsLost ==
    Orderly /\ AddWhileRunning = FALSE => (Spec => [](NoLostWakeup /\ kept = {}))
<1> SUFFICES ASSUME Orderly, AddWhileRunning = FALSE
             PROVE  Spec => [](NoLostWakeup /\ kept = {})
  OBVIOUS
<1>1. ASSUME Settled
      PROVE  NoLostWakeup /\ kept = {}
  <2>1. ASSUME NEW o \in Ops \ ready
        PROVE  \/ \E d \in dependencies[o] \ finished :
                      \E i \in DOMAIN observers[d] : observers[d][i] = o
               \/ \E t \in Threads : \E i \in DOMAIN todo[t] : todo[t][i] = o
               \/ \E c \in Clients : pc[c] = "ready" /\ cur[c] = o
    <3>1. CASE \E d \in dependencies[o] \ finished : o \in ToSet(observers[d])
      BY <3>1 DEF ToSet
    <3>2. CASE \E r \in Runners : o \in ToSet(todo[r])
      BY <3>2 DEF ToSet, Threads
    <3>3. QED
      BY <1>1, <3>1, <3>2 DEF Settled, WakeInv, WillBeTold
  <2>2. QED
    BY <1>1, <2>1 DEF NoLostWakeup, Settled, TellInv, ToldOnce, Noticed
<1>2. Settled /\ [Next]_vars => Settled'
  BY StepSettles
<1>3. QED
  BY <1>1, <1>2, SettledInit, PTL DEF Spec

-----------------------------------------------------------------------------
\* The flags and the queue, on top of LastInv; a client looks at what it has queued.
FlagsTyped ==
    /\ ready \subseteq Ops /\ cancelled \subseteq Ops
    /\ executing \subseteq Ops /\ ran \subseteq Ops
    /\ queued \subseteq Ops /\ awaited \subseteq queued /\ waiting \subseteq queued
    /\ noted \subseteq {t \in Threads : pc[t] \in ChangingPcs}
    /\ \A c \in Clients : pc[c] = "test" => cur[c] \in queued

\* A step keeps them when the thread does.
LEMMA FlagsAreKept ==
    ASSUME LastInv, FlagsTyped, NEW t \in Threads, Step(t),
           ready' \subseteq Ops, cancelled' \subseteq Ops, executing' \subseteq Ops, ran' \subseteq Ops,
           queued \subseteq queued', queued' \subseteq Ops,
           awaited' \subseteq queued', waiting' \subseteq queued',
           noted' \subseteq noted \cup {t}, t \in noted' => pc'[t] \in ChangingPcs,
           t \in Clients /\ pc'[t] = "test" => cur'[t] \in queued'
    PROVE  FlagsTyped'
<1>1. \A u \in Threads \ {t} : pc'[u] = pc[u] /\ cur'[u] = cur[u]
  BY OthersAreKept DEF LastInv, OrderInv, Located, OthersKeep
<1>2. noted' \subseteq {u \in Threads : pc'[u] \in ChangingPcs}
  BY <1>1 DEF FlagsTyped
<1>3. \A c \in Clients : pc'[c] = "test" => cur'[c] \in queued'
  BY <1>1 DEF FlagsTyped, Threads
<1>4. QED
  BY <1>2, <1>3 DEF FlagsTyped

LEMMA CallKeepsFlags ==
    ASSUME LastInv, FlagsTyped, NEW c \in Clients, ClientCall(c), Step(c)
    PROVE  FlagsTyped'
<1>1. c \in Threads /\ pc[c] = "idle" /\ DOMAIN pc = Threads /\ DOMAIN cur = Threads
  BY DEF Threads, ClientCall, AddDependency, RemoveDependency, Cancel, AddToQueue,
         WaitUntilFinished, LastInv, OrderInv, Located, Typed
<1>2. c \notin noted
  BY <1>1 DEF FlagsTyped, ChangingPcs
<1>3. /\ noted' # noted => noted' = noted \cup {c} /\ pc'[c] = "ready"
      /\ pc'[c] = "test" => cur'[c] \in queued'
  BY <1>1 DEF ClientCall, AddDependency, RemoveDependency, Cancel, AddToQueue,
              WaitUntilFinished, Note
<1>4. /\ ready' = ready /\ executing' = executing /\ ran' = ran /\ cancelled' \subseteq Ops
      /\ queued \subseteq queued' /\ queued' \subseteq Ops
      /\ awaited' \subseteq queued' /\ waiting' = waiting
  BY DEF ClientCall, AddDependency, RemoveDependency, Cancel, AddToQueue, WaitUntilFinished,
         FlagsTyped, flags, queue
<1>5. ready' \subseteq Ops /\ executing' \subseteq Ops /\ ran' \subseteq Ops /\ waiting' \subseteq queued'
  BY <1>4 DEF FlagsTyped
<1>6. QED
  BY <1>1, <1>2, <1>3, <1>4, <1>5, FlagsAreKept DEF ChangingPcs

LEMMA ClientStepKeepsFlags ==
    ASSUME LastInv, FlagsTyped, NEW c \in Clients,
           Watch(c) \/ TestReady(c) \/ WaitReturns(c), Step(c)
    PROVE  FlagsTyped'
<1>1. /\ c \in Threads /\ pc[c] \in {"watch", "test", "wait"} /\ DOMAIN pc = Threads
      /\ cur[c] \in Ops /\ UNCHANGED <<flags, queued, ran>>
      /\ pc[c] = "test" => cur[c] \in queued
  BY DEF Threads, Watch, TestReady, WaitReturns, LastInv, OrderInv, Located, Typed, FlagsTyped,
         queue
<1>2. c \notin noted
  BY <1>1 DEF FlagsTyped, ChangingPcs
<1>3. /\ noted' # noted => noted' = noted \cup {c} /\ pc'[c] = "unready"
      /\ pc'[c] # "test"
  BY <1>1 DEF Watch, TestReady, WaitReturns, Note
<1>4. awaited' \subseteq queued' /\ waiting' \subseteq queued'
  BY <1>1 DEF Watch, TestReady, React, WaitReturns, FlagsTyped, queue
<1>5. QED
  BY <1>1, <1>2, <1>3, <1>4, FlagsAreKept DEF FlagsTyped, flags, ChangingPcs

LEMMA ChangeKeepsFlags ==
    ASSUME LastInv, FlagsTyped, NEW t \in Threads, SetReady(t) \/ Report(t), Step(t)
    PROVE  FlagsTyped'
<1>1. /\ Target(t) \in Ops /\ DOMAIN pc = Threads
      /\ UNCHANGED <<cancelled, executing, queued, ran>>
  BY TargetTyped
     DEF SetReady, Report, ChangingPcs, LastInv, OrderInv, Located, Typed, flags, queue
<1>2. CASE SetReady(t)
  <2>1. ready' \subseteq Ops
    BY <1>1, <1>2 DEF SetReady, FlagsTyped
  <2>2. noted' \subseteq noted /\ pc'[t] = "report" /\ UNCHANGED <<awaited, waiting>>
    BY <1>1, <1>2 DEF SetReady, queue
  <2>3. QED
    BY <1>1, <2>1, <2>2, FlagsAreKept DEF FlagsTyped, ChangingPcs
<1>3. CASE Report(t)
  <2>1. noted' = noted \ {t} /\ ready' = ready /\ pc'[t] # "test"
    BY <1>1, <1>3 DEF Report, Resume, Raise, flags
  <2>2. awaited' \subseteq queued' /\ waiting' \subseteq queued'
    BY <1>1, <1>3 DEF Report, React, FlagsTyped
  <2>3. QED
    BY <1>1, <2>1, <2>2, FlagsAreKept DEF FlagsTyped
<1>4. QED
  BY <1>2, <1>3

LEMMA RunnerKeepsFlags ==
    ASSUME LastInv, FlagsTyped, NEW r \in Runners, RunnerStep(r), Step(r),
           ~(SetReady(r) \/ Report(r))
    PROVE  FlagsTyped'
<1>1. /\ r \in Threads /\ r \notin Clients /\ DOMAIN pc = Threads
      /\ pc[r] # "idle" => cur[r] \in Ops
  BY OperationAssumption DEF Threads, LastInv, OrderInv, Located, Typed
<1>2. /\ UNCHANGED <<ready, cancelled, queued, awaited>> /\ waiting' \subseteq waiting
      /\ executing' \subseteq Ops /\ ran' \subseteq Ops
  BY <1>1 DEF RunnerStep, Take, Start, Main, Finish, SetFinished, TellItself, TellQueue,
              TellDependent, EndFinish, FlagsTyped, flags, queue
<1>3. noted' # noted => noted' = noted \cup {r} /\ pc'[r] = "ready"
  BY <1>1 DEF RunnerStep, Take, Start, Main, Finish, SetFinished, TellItself, TellQueue,
              TellDependent, EndFinish, Note
<1>4. r \notin noted
  <2>1. pc[r] \notin ChangingPcs
    BY <1>1 DEF RunnerStep, Take, Start, Main, Finish, SetFinished, TellItself, TellQueue,
                TellDependent, EndFinish, ChangingPcs
  <2>2. QED
    BY <2>1 DEF FlagsTyped
<1>5. QED
  BY <1>1, <1>2, <1>3, <1>4, FlagsAreKept DEF FlagsTyped, ChangingPcs

LEMMA StepKeepsFlags == LastInv /\ FlagsTyped /\ [Next]_vars => FlagsTyped'
<1> SUFFICES ASSUME LastInv, FlagsTyped, [Next]_vars PROVE FlagsTyped'
  OBVIOUS
<1>1. CASE UNCHANGED vars
  BY <1>1 DEF vars, flags, queue, FlagsTyped
<1>2. ASSUME NEW t \in Threads, Step(t)
      PROVE  FlagsTyped'
  BY <1>2, CallKeepsFlags, ClientStepKeepsFlags, ChangeKeepsFlags, RunnerKeepsFlags
     DEF Step, ClientStep
<1>3. QED
  BY <1>1, <1>2, StepsAreOfThreads

\* Every variable keeps its type; a waiter is released only after the flag is set, the
\* queue observes only what was added to it, and only a thread that changes an isReady
\* has the queue to tell of that.
THEOREM TypeCorrect == Spec => []TypeOK
<1>1. Init => LastInv /\ FlagsTyped
  BY LastInvInit, OperationAssumption DEF Init, FlagsTyped, Threads
<1>2. LastInv /\ FlagsTyped /\ [Next]_vars => (LastInv /\ FlagsTyped)'
  BY StepKeepsLast, StepKeepsFlags
<1>3. LastInv /\ FlagsTyped => TypeOK
  BY DEF LastInv, OrderInv, Located, Typed, ListsInv, ListsTyped, ObserverLists, ChangingPcs,
         FlagsTyped, TypeOK
<1>4. QED
  BY <1>1, <1>2, <1>3, PTL DEF Spec

-----------------------------------------------------------------------------
\* Who observes an operation, or is to be told of its end, may depend on it.
DependsOn(s, d) == \A o \in ToSet(s) : o \in {d, Queue} \/ <<o, d>> \in Edges

OnlyDependents ==
    /\ \A d \in Ops : DependsOn(observers[d], d) /\ DependsOn(changing[d], d)
    /\ \A t \in Threads : DependsOn(todo[t], cur[t])
    /\ \A t \in Threads : pc[t] = "watch" => <<cur[t], dep[t]>> \in Edges

LEMMA OnlyDependentsInit == Init => OnlyDependents
<1>1. \A d : DependsOn(<<>>, d) /\ DependsOn(<<d>>, d)
  BY DEF DependsOn, ToSet
<1>2. ASSUME Init
      PROVE  /\ \A d \in Ops : observers[d] = <<d>> /\ changing[d] = <<>>
             /\ \A t \in Threads : todo[t] = <<>> /\ pc[t] = "idle"
  BY <1>2 DEF Init
<1>3. QED
  BY <1>1, <1>2 DEF OnlyDependents

LEMMA DependsSteps ==
    ASSUME NEW s \in ObserverLists, NEW d, DependsOn(s, d)
    PROVE  /\ \A p : DependsOn(Without(s, p), d)
           /\ \A p \in Objects : p = Queue \/ <<p, d>> \in Edges => DependsOn(Append(s, p), d)
           /\ DependsOn(Reverse(s), d)
           /\ s # <<>> => DependsOn(Tail(s), d)
           /\ \A e : DependsOn(<<>>, e)
BY SetSteps DEF DependsOn

\* A step keeps this when the thread does.
LEMMA DependentsAreKept ==
    ASSUME LastInv, OnlyDependents, NEW t \in Threads, Step(t),
           \A d \in Ops : DependsOn(observers'[d], d) /\ DependsOn(changing'[d], d),
           DependsOn(todo'[t], cur'[t]),
           pc'[t] = "watch" => <<cur'[t], dep'[t]>> \in Edges
    PROVE  OnlyDependents'
<1>1. \A u \in Threads \ {t} :
          pc'[u] = pc[u] /\ cur'[u] = cur[u] /\ dep'[u] = dep[u] /\ todo'[u] = todo[u]
  BY OthersAreKept DEF LastInv, OrderInv, Located, OthersKeep
<1>2. QED
  BY <1>1 DEF OnlyDependents

\* What the lemmas below start from.
LEMMA DependentFacts ==
    ASSUME LastInv, OnlyDependents, NEW t \in Threads
    PROVE  /\ \A d \in Ops : /\ observers[d] \in ObserverLists /\ changing[d] \in ObserverLists
                             /\ DependsOn(observers[d], d) /\ DependsOn(changing[d], d)
           /\ todo[t] \in ObserverLists /\ DependsOn(todo[t], cur[t])
           /\ \A e : DependsOn(<<>>, e)
           /\ pc[t] \notin TellingPcs \/ t \notin Runners => todo[t] = <<>>
           /\ pc[t] # "idle" => cur[t] \in Ops
           /\ DOMAIN pc = Threads /\ DOMAIN cur = Threads /\ DOMAIN dep = Threads
           /\ DOMAIN todo = Threads /\ DOMAIN observers = Ops /\ DOMAIN changing = Ops
           /\ t \in Runners => t \notin Clients
           /\ Queue \in Objects /\ Ops \subseteq Objects
<1>1. \A e : DependsOn(<<>>, e)
  BY DEF DependsOn, ToSet
<1>2. QED
  BY <1>1, OperationAssumption
     DEF LastInv, OrderInv, Located, Typed, ListsTyped, ListsInv, OnlyDependents, Objects

LEMMA CallKeepsDependents ==
    ASSUME LastInv, OnlyDependents, NEW c \in Clients, ClientCall(c), Step(c)
    PROVE  OnlyDependents'
<1>1. /\ c \in Threads /\ c \notin Runners /\ todo' = todo /\ pc[c] = "idle"
      /\ todo[c] = <<>>
  <2>1. c \in Threads /\ c \notin Runners
    BY OperationAssumption DEF Threads
  <2>2. QED
    BY <2>1, DependentFacts
       DEF ClientCall, AddDependency, RemoveDependency, Cancel, AddToQueue, WaitUntilFinished
<1>2. DependsOn(todo'[c], cur'[c])
  BY <1>1, DependentFacts
<1>3. ASSUME NEW o \in Ops, NEW d \in Ops, RemoveDependency(c, o, d)
      PROVE  OnlyDependents'
  <2>1. /\ DependsOn(Without(observers[d], o), d) /\ DependsOn(Without(changing[d], o), d)
    BY <1>1, DependentFacts, DependsSteps
  <2>2. /\ observers' = [observers EXCEPT ![d] = Without(@, o)]
        /\ changing' = [changing EXCEPT ![d] = Without(@, o)]
        /\ pc'[c] # "watch"
    BY <1>1, <1>3, DependentFacts DEF RemoveDependency
  <2>3. \A e \in Ops : DependsOn(observers'[e], e) /\ DependsOn(changing'[e], e)
    BY <1>1, <2>1, <2>2, DependentFacts
  <2>4. QED
    BY <1>1, <1>2, <2>2, <2>3, DependentsAreKept
<1>4. ASSUME ~\E o \in Ops : \E d \in Ops : RemoveDependency(c, o, d)
      PROVE  OnlyDependents'
  <2>1. UNCHANGED <<observers, changing>>
    BY <1>4 DEF ClientCall, AddDependency, Cancel, AddToQueue, WaitUntilFinished
  <2>2. pc'[c] = "watch" => <<cur'[c], dep'[c]>> \in Edges
    BY <1>1, <1>4, DependentFacts
       DEF ClientCall, AddDependency, Cancel, AddToQueue, WaitUntilFinished
  <2>3. QED
    BY <1>1, <1>2, <2>1, <2>2, DependentFacts, DependentsAreKept
<1>5. QED
  BY <1>3, <1>4

LEMMA ClientStepKeepsDependents ==
    ASSUME LastInv, OnlyDependents, NEW c \in Clients,
           Watch(c) \/ TestReady(c) \/ WaitReturns(c), Step(c)
    PROVE  OnlyDependents'
<1>1. /\ c \in Threads /\ c \notin Runners /\ UNCHANGED <<changing, todo>>
      /\ pc[c] \in {"watch", "test", "wait"} /\ todo[c] = <<>> /\ pc'[c] # "watch"
      /\ cur[c] \in Ops
  <2>1. c \in Threads /\ c \notin Runners
    BY OperationAssumption DEF Threads
  <2>2. QED
    BY <2>1, DependentFacts DEF Watch, TestReady, WaitReturns
<1>2. DependsOn(todo'[c], cur'[c])
  BY <1>1, DependentFacts
<1>3. \A d \in Ops : DependsOn(observers'[d], d)
  <2>1. CASE Watch(c)
    <3>1. dep[c] \in Ops /\ <<cur[c], dep[c]>> \in Edges
      BY <1>1, <2>1 DEF Watch, OnlyDependents, LastInv, OrderInv, Located, Typed
    <3>2. DependsOn(Append(observers[dep[c]], cur[c]), dep[c])
      BY <1>1, <3>1, DependentFacts, DependsSteps
    <3>3. observers' = [observers EXCEPT ![dep[c]] = Append(@, cur[c])]
      BY <2>1 DEF Watch
    <3>4. QED
      BY <1>1, <3>1, <3>2, <3>3, DependentFacts
  <2>2. CASE TestReady(c)
    <3>1. DependsOn(Append(observers[cur[c]], Queue), cur[c])
      BY <1>1, DependentFacts, DependsSteps
    <3>2. \/ observers' = observers
          \/ observers' = [observers EXCEPT ![cur[c]] = Append(@, Queue)]
      BY <2>2 DEF TestReady, React
    <3>3. QED
      BY <1>1, <3>1, <3>2, DependentFacts
  <2>3. CASE WaitReturns(c)
    BY <1>1, <2>3, DependentFacts DEF WaitReturns
  <2>4. QED
    BY <2>1, <2>2, <2>3
<1>4. \A d \in Ops : DependsOn(changing'[d], d)
  BY <1>1, DependentFacts
<1>5. QED
  BY <1>1, <1>2, <1>3, <1>4, DependentsAreKept

LEMMA ChangeKeepsDependents ==
    ASSUME LastInv, OnlyDependents, NEW t \in Threads, SetReady(t) \/ Report(t), Step(t)
    PROVE  OnlyDependents'
<1>1. /\ changing' = changing /\ pc[t] \in ChangingPcs /\ pc'[t] # "watch"
      /\ cur[t] \in Ops /\ Target(t) \in Ops
      /\ t \in Runners => todo[t] # <<>>
  <2>1. pc[t] \in ChangingPcs
    BY DEF SetReady, Report, ChangingPcs
  <2>2. QED
    BY <2>1, DependentFacts, TargetTyped
       DEF SetReady, Report, Resume, Raise, LastInv, OrderInv, Located
<1>2. DependsOn(todo'[t], cur'[t])
  <2>1. \/ todo'[t] = <<>>
        \/ cur'[t] = cur[t] /\ todo'[t] = todo[t]
        \/ t \in Runners /\ cur'[t] = cur[t] /\ todo'[t] = Tail(todo[t])
    BY DependentFacts DEF SetReady, Report, Resume, Raise, Threads
  <2>2. todo[t] # <<>> => DependsOn(Tail(todo[t]), cur[t])
    BY DependentFacts, DependsSteps
  <2>3. QED
    BY <1>1, <2>1, <2>2, DependentFacts
<1>3. \A d \in Ops : DependsOn(observers'[d], d)
  <2>1. DependsOn(Append(observers[Target(t)], Queue), Target(t))
    BY <1>1, DependentFacts, DependsSteps
  <2>2. \/ observers' = observers
        \/ observers' = [observers EXCEPT ![Target(t)] = Append(@, Queue)]
    BY DEF SetReady, Report, React
  <2>3. QED
    BY <1>1, <2>1, <2>2, DependentFacts
<1>4. \A d \in Ops : DependsOn(changing'[d], d)
  BY <1>1, DependentFacts
<1>5. QED
  BY <1>1, <1>2, <1>3, <1>4, DependentsAreKept

LEMMA RunnerKeepsDependents ==
    ASSUME LastInv, OnlyDependents, NEW r \in Runners, RunnerStep(r), Step(r),
           ~(SetReady(r) \/ Report(r))
    PROVE  OnlyDependents'
<1>1. /\ r \in Threads /\ pc'[r] # "watch" /\ (pc[r] # "idle" => cur[r] \in Ops)
  <2>1. r \in Threads
    BY DEF Threads
  <2>2. QED
    BY <2>1, DependentFacts
       DEF RunnerStep, Take, Start, Main, Finish, SetFinished, TellItself, TellQueue,
           TellDependent, EndFinish
<1>2. CASE (\E o \in Ops : Take(r, o)) \/ Start(r) \/ Main(r) \/ EndFinish(r) \/ Finish(r)
  <2>1. /\ UNCHANGED <<observers, todo>> /\ todo[r] = <<>>
        /\ \/ changing' = changing
           \/ cur[r] \in Ops /\ changing' = [changing EXCEPT ![cur[r]] = observers[cur[r]]]
    BY <1>1, <1>2, DependentFacts DEF Take, Start, Main, EndFinish, Finish, TellingPcs
  <2>2. \A d \in Ops : DependsOn(observers'[d], d) /\ DependsOn(changing'[d], d)
    BY <1>1, <2>1, DependentFacts
  <2>3. DependsOn(todo'[r], cur'[r])
    BY <1>1, <2>1, DependentFacts
  <2>4. QED
    BY <1>1, <2>2, <2>3, DependentsAreKept
<1>3. CASE SetFinished(r)
  <2>1. /\ UNCHANGED <<observers, cur>> /\ cur[r] \in Ops
        /\ todo'[r] = Reverse(changing[cur[r]])
        /\ changing' = [changing EXCEPT ![cur[r]] = <<>>]
    BY <1>1, <1>3, DependentFacts DEF SetFinished
  <2>2. DependsOn(Reverse(changing[cur[r]]), cur[r])
    BY <1>1, <2>1, DependentFacts, DependsSteps
  <2>3. \A d \in Ops : DependsOn(changing'[d], d)
    BY <1>1, <2>1, DependentFacts
  <2>4. QED
    BY <1>1, <2>1, <2>2, <2>3, DependentFacts, DependentsAreKept
<1>4. CASE TellItself(r) \/ TellQueue(r)
  <2>1. /\ UNCHANGED <<changing, cur>> /\ cur[r] \in Ops /\ todo[r] # <<>>
        /\ todo'[r] = Tail(todo[r])
        /\ \E p \in {cur[r], Queue} : observers' = [observers EXCEPT ![cur[r]] = Without(@, p)]
    BY <1>1, <1>4, DependentFacts DEF TellItself, TellQueue
  <2>2. DependsOn(Tail(todo[r]), cur[r])
    BY <1>1, <2>1, DependentFacts, DependsSteps
  <2>3. \A p : DependsOn(Without(observers[cur[r]], p), cur[r])
    BY <1>1, <2>1, DependentFacts, DependsSteps
  <2>4. \A d \in Ops : DependsOn(observers'[d], d)
    BY <1>1, <2>1, <2>3, DependentFacts
  <2>5. QED
    BY <1>1, <2>1, <2>2, <2>4, DependentFacts, DependentsAreKept
<1>5. CASE TellDependent(r)
  <2>1. /\ UNCHANGED <<observers, changing, cur>> /\ todo[r] # <<>>
        /\ todo'[r] = todo[r] \/ todo'[r] = Tail(todo[r])
    BY <1>1, <1>5, DependentFacts DEF TellDependent
  <2>2. DependsOn(Tail(todo[r]), cur[r])
    BY <1>1, <2>1, DependentFacts, DependsSteps
  <2>3. QED
    BY <1>1, <2>1, <2>2, DependentFacts, DependentsAreKept
<1>6. QED
  BY <1>2, <1>3, <1>4, <1>5 DEF RunnerStep

LEMMA StepKeepsDependents == LastInv /\ OnlyDependents /\ [Next]_vars => OnlyDependents'
<1> SUFFICES ASSUME LastInv, OnlyDependents, [Next]_vars PROVE OnlyDependents'
  OBVIOUS
<1>1. CASE UNCHANGED vars
  BY <1>1 DEF vars, OnlyDependents
<1>2. ASSUME NEW t \in Threads, Step(t)
      PROVE  OnlyDependents'
  BY <1>2, CallKeepsDependents, ClientStepKeepsDependents, ChangeKeepsDependents,
     RunnerKeepsDependents
     DEF Step, ClientStep
<1>3. QED
  BY <1>1, <1>2, StepsAreOfThreads

\* Thread t has the lock of x because of what it does.
Holds(t, x) ==
    \/ pc[t] = "test" /\ x = Queue
    \/ pc[t] \in LockingPcs /\ x = cur[t]
    \/ pc[t] \in ChangingPcs /\ x = Target(t)

\* No lock is held but those, and those that an exception left locked.
LocksHaveHolders ==
    \A x \in Objects \ kept : \A t \in Threads : lock[x] = t => Holds(t, x)

LEMMA LocksHaveHoldersInit == Init => LocksHaveHolders
BY OperationAssumption DEF Init, LocksHaveHolders, Threads

\* A step keeps this when the thread gives back what it no longer has a reason to hold.
LEMMA HoldersAreKept ==
    ASSUME LastInv, LocksHaveHolders, NEW t \in Threads, Step(t),
           \A x \in Objects : lock'[x] \in {lock[x], t, None},
           \A x \in Objects \ kept' :
               lock'[x] = t /\ (lock[x] = t => Holds(t, x)) => Holds(t, x)',
           kept \subseteq kept'
    PROVE  LocksHaveHolders'
<1>1. /\ \A u \in Threads \ {t} : Target(u)' = Target(u)
      /\ \A u \in Threads \ {t} : pc'[u] = pc[u] /\ cur'[u] = cur[u]
  BY OthersAreKept DEF LastInv, OrderInv, Located, OthersKeep
<1>2. \A u \in Threads \ {t} : \A x : Holds(u, x) => Holds(u, x)'
  BY <1>1 DEF Holds
<1> SUFFICES ASSUME NEW x \in Objects, x \notin kept', NEW u \in Threads, lock'[x] = u
             PROVE  Holds(u, x)'
  BY DEF LocksHaveHolders
<1>3. lock[x] = u => Holds(u, x)
  BY DEF LocksHaveHolders
<1>4. CASE u = t
  BY <1>3, <1>4
<1>5. CASE u # t
  <2>1. lock[x] = u
    BY <1>5, OperationAssumption DEF Threads
  <2>2. QED
    BY <1>2, <1>3, <1>5, <2>1
<1>6. QED
  BY <1>4, <1>5

\* What the lemmas below start from.
LEMMA HolderFacts ==
    ASSUME LastInv, NEW t \in Threads
    PROVE  /\ DOMAIN pc = Threads /\ DOMAIN cur = Threads /\ DOMAIN lock = Objects
           /\ pc[t] # "idle" => cur[t] \in Ops
           /\ Ops \subseteq Objects /\ Queue \in Objects /\ Queue \notin Ops
           /\ t # None
           /\ t \in Clients => t \notin Runners
           /\ t \in Runners => t \notin Clients
BY OperationAssumption DEF LastInv, OrderInv, Located, Typed, Objects, Threads

LEMMA CallKeepsHolders ==
    ASSUME LastInv, LocksHaveHolders, NEW c \in Clients, ClientCall(c), Step(c)
    PROVE  LocksHaveHolders'
<1>1. c \in Threads /\ pc[c] = "idle" /\ kept' = kept
  BY DEF ClientCall, AddDependency, RemoveDependency, Cancel, AddToQueue, WaitUntilFinished,
         locks, Threads
<1>2. \A x : ~Holds(c, x)
  BY <1>1 DEF Holds, LockingPcs, ChangingPcs, TellingPcs
<1>3. ASSUME UNCHANGED lock
      PROVE  LocksHaveHolders'
  BY <1>1, <1>2, <1>3, HoldersAreKept
<1>4. ASSUME NEW o \in Ops, lock' = [lock EXCEPT ![o] = c], cur'[c] = o,
             pc'[c] \in LockingPcs
      PROVE  LocksHaveHolders'
  <2>1. \A x \in Objects : lock'[x] = IF x = o THEN c ELSE lock[x]
    BY <1>1, <1>4, HolderFacts
  <2>2. Holds(c, o)'
    BY <1>4 DEF Holds
  <2>3. QED
    BY <1>1, <1>2, <2>1, <2>2, HoldersAreKept
<1>5. ASSUME lock' = [lock EXCEPT ![Queue] = c], pc'[c] = "test"
      PROVE  LocksHaveHolders'
  <2>1. \A x \in Objects : lock'[x] = IF x = Queue THEN c ELSE lock[x]
    BY <1>1, <1>5, HolderFacts
  <2>2. Holds(c, Queue)'
    BY <1>5 DEF Holds
  <2>3. QED
    BY <1>1, <1>2, <2>1, <2>2, HoldersAreKept
<1>6. ASSUME NEW o \in Ops, NEW d \in Ops,
             \/ AddDependency(c, o, d) \/ RemoveDependency(c, o, d)
             \/ Cancel(c, o) \/ WaitUntilFinished(c, o)
      PROVE  LocksHaveHolders'
  <2>1. \/ UNCHANGED lock
        \/ lock' = [lock EXCEPT ![o] = c] /\ cur'[c] = o /\ pc'[c] \in LockingPcs
    BY <1>1, <1>6, HolderFacts
       DEF AddDependency, RemoveDependency, Cancel, WaitUntilFinished, locks, LockingPcs,
           ChangingPcs
  <2>2. QED
    BY <1>3, <1>4, <2>1
<1>7. ASSUME NEW o \in Ops, AddToQueue(c, o)
      PROVE  LocksHaveHolders'
  BY <1>1, <1>5, <1>7, HolderFacts DEF AddToQueue
<1>8. QED
  BY <1>6, <1>7 DEF ClientCall

\* A thread gives back the lock of x, the only one it has no reason to hold from now on.
LEMMA UnlockKeepsHolders ==
    ASSUME LastInv, LocksHaveHolders, NEW t \in Threads, Step(t), NEW x \in Objects,
           lock' = Unlocked({x}), kept' = kept,
           \A y \in Objects \ {x} : Holds(t, y) => Holds(t, y)'
    PROVE  LocksHaveHolders'
<1>1. \A y \in Objects : lock'[y] = IF y = x /\ x \notin kept THEN None ELSE lock[y]
  BY DEF Unlocked
<1>2. QED
  BY <1>1, HolderFacts, HoldersAreKept

\* A thread takes and gives back no lock.
LEMMA SameLocksKeepHolders ==
    ASSUME LastInv, LocksHaveHolders, NEW t \in Threads, Step(t), UNCHANGED locks,
           \A y \in Objects : Holds(t, y) => Holds(t, y)'
    PROVE  LocksHaveHolders'
BY HoldersAreKept DEF locks

LEMMA ClientStepKeepsHolders ==
    ASSUME LastInv, LocksHaveHolders, NEW c \in Clients,
           Watch(c) \/ TestReady(c) \/ WaitReturns(c), Step(c)
    PROVE  LocksHaveHolders'
<1>1. c \in Threads
  BY DEF Threads
<1>2. CASE Watch(c)
  <2>1. pc[c] = "watch" /\ cur[c] \in Objects /\ kept' = kept
    BY <1>1, <1>2, HolderFacts DEF Watch
  <2>2. \A y : Holds(c, y) => y = cur[c]
    BY <1>1, <2>1 DEF Holds, ChangingPcs
  <2>3. CASE lock' = Unlocked({cur[c]})
    BY <1>1, <2>1, <2>2, <2>3, UnlockKeepsHolders
  <2>4. CASE lock' = lock /\ cur' = cur /\ pc' = [pc EXCEPT ![c] = "unready"]
    <3>1. \A y : y = cur[c] => Holds(c, y)'
      BY <1>1, <2>4, HolderFacts DEF Holds, LockingPcs, ChangingPcs
    <3>2. QED
      BY <1>1, <2>1, <2>2, <2>4, <3>1, SameLocksKeepHolders DEF locks
  <2>5. QED
    BY <1>2, <2>3, <2>4 DEF Watch
<1>3. CASE TestReady(c)
  <2>1. pc[c] = "test" /\ Queue \in Objects /\ kept' = kept /\ lock' = Unlocked({Queue})
    BY <1>1, <1>3, HolderFacts DEF TestReady
  <2>2. \A y : Holds(c, y) => y = Queue
    BY <1>1, <2>1 DEF Holds, LockingPcs, ChangingPcs, TellingPcs
  <2>3. QED
    BY <1>1, <2>1, <2>2, UnlockKeepsHolders
<1>4. CASE WaitReturns(c)
  <2>1. pc[c] = "wait" /\ UNCHANGED locks
    BY <1>4 DEF WaitReturns
  <2>2. \A y : ~Holds(c, y)
    BY <1>1, <2>1 DEF Holds, LockingPcs, ChangingPcs, TellingPcs
  <2>3. QED
    BY <1>1, <2>1, <2>2, SameLocksKeepHolders
<1>5. QED
  BY <1>2, <1>3, <1>4

LEMMA ChangeKeepsHolders ==
    ASSUME LastInv, LocksHaveHolders, NEW t \in Threads, SetReady(t) \/ Report(t), Step(t)
    PROVE  LocksHaveHolders'
<1>1. /\ pc[t] \in ChangingPcs /\ cur[t] \in Ops /\ Target(t) \in Ops
      /\ t \in Clients => Target(t) = cur[t]
      /\ \A y : Holds(t, y) <=> y \in {cur[t], Target(t)}
  <2>1. pc[t] \in ChangingPcs
    BY DEF SetReady, Report, ChangingPcs
  <2>2. QED
    BY <2>1, TargetTyped
       DEF LastInv, OrderInv, Located, Holds, LockingPcs, ChangingPcs
<1>2. CASE SetReady(t)
  <2>1. Target(t)' = Target(t) /\ cur' = cur /\ pc'[t] = "report" /\ UNCHANGED locks
    BY <1>2, HolderFacts DEF SetReady, Target
  <2>2. \A y : Holds(t, y) => Holds(t, y)'
    BY <1>1, <2>1 DEF Holds, LockingPcs, ChangingPcs
  <2>3. QED
    BY <2>1, <2>2, SameLocksKeepHolders
<1>3. CASE Resume(t) /\ kept' = kept
  <2>1. lock' = Unlocked({Target(t)}) /\ Target(t) \in Objects
    BY <1>1, <1>3, HolderFacts DEF Resume
  <2>2. ASSUME NEW y \in Objects \ {Target(t)}, Holds(t, y)
        PROVE  Holds(t, y)'
    <3>1. y = cur[t] /\ t \notin Clients
      BY <1>1, <2>2
    <3>2. cur'[t] = cur[t] /\ pc'[t] = "notify"
      BY <1>3, <3>1, HolderFacts DEF Resume
    <3>3. QED
      BY <3>1, <3>2 DEF Holds, LockingPcs, TellingPcs
  <2>3. QED
    BY <1>3, <2>1, <2>2, UnlockKeepsHolders
<1>4. CASE Raise(t)
  <2>1. /\ \A x \in Objects : lock'[x] = IF x = Queue THEN t ELSE lock[x]
        /\ kept' = kept \cup {Queue, Target(t), cur[t]}
    BY <1>4, HolderFacts DEF Raise
  <2>2. QED
    BY <1>1, <2>1, HoldersAreKept
<1>5. QED
  BY <1>2, <1>3, <1>4 DEF Report

LEMMA RunnerKeepsHolders ==
    ASSUME LastInv, LocksHaveHolders, NEW r \in Runners, RunnerStep(r), Step(r),
           ~(SetReady(r) \/ Report(r))
    PROVE  LocksHaveHolders'
<1>1. r \in Threads /\ r \notin Clients /\ (pc[r] # "idle" => cur[r] \in Ops)
      /\ DOMAIN pc = Threads /\ DOMAIN cur = Threads /\ kept' = kept
      /\ Ops \subseteq Objects
  <2>1. r \in Threads
    BY DEF Threads
  <2>2. QED
    BY <2>1, HolderFacts
       DEF RunnerStep, Take, Start, Main, Finish, SetFinished, TellItself, TellQueue,
           TellDependent, EndFinish, locks
<1>2. CASE (\E o \in Ops : Take(r, o)) \/ Start(r) \/ Main(r)
  <2>1. pc[r] \in {"idle", "start", "main"} /\ UNCHANGED locks
    BY <1>2 DEF Take, Start, Main
  <2>2. \A y : ~Holds(r, y)
    BY <2>1 DEF Holds, LockingPcs, ChangingPcs, TellingPcs
  <2>3. QED
    BY <1>1, <2>1, <2>2, SameLocksKeepHolders
<1>3. CASE Finish(r)
  <2>1. pc[r] = "finish"
    BY <1>3 DEF Finish
  <2>2. \A y : ~Holds(r, y)
    BY <2>1 DEF Holds, LockingPcs, ChangingPcs, TellingPcs
  <2>3. CASE UNCHANGED lock
    BY <1>1, <2>2, <2>3, SameLocksKeepHolders DEF locks
  <2>4. CASE lock' = [lock EXCEPT ![cur[r]] = r] /\ cur' = cur /\ pc' = [pc EXCEPT ![r] = "change"]
    <3>1. \A x \in Objects : lock'[x] = IF x = cur[r] THEN r ELSE lock[x]
      BY <1>1, <2>4, HolderFacts
    <3>2. \A x : x = cur[r] => Holds(r, x)'
      BY <1>1, <2>4 DEF Holds, LockingPcs
    <3>3. QED
      BY <1>1, <2>2, <3>1, <3>2, HoldersAreKept
  <2>5. QED
    BY <1>3, <2>3, <2>4 DEF Finish
<1>4. CASE SetFinished(r) \/ TellItself(r) \/ TellQueue(r)
  <2>1. pc[r] \in {"change", "notify"} /\ pc'[r] = "notify" /\ cur' = cur /\ UNCHANGED locks
    BY <1>1, <1>4 DEF SetFinished, TellItself, TellQueue
  <2>2. \A y : Holds(r, y) => Holds(r, y)'
    BY <2>1 DEF Holds, LockingPcs, ChangingPcs, TellingPcs
  <2>3. QED
    BY <1>1, <2>1, <2>2, SameLocksKeepHolders
<1>5. CASE TellDependent(r)
  <2> DEFINE o == Head(todo[r])
  <2>1. /\ pc[r] = "notify" /\ cur' = cur /\ todo[r] # <<>> /\ Target(r)' = Head(todo'[r])
        /\ \/ lock' = lock /\ pc' = pc
           \/ /\ lock' = [lock EXCEPT ![o] = r] /\ pc' = [pc EXCEPT ![r] = "ready"]
              /\ todo' = todo
    BY <1>1, <1>5 DEF TellDependent, Target
  <2>2. \A y : Holds(r, y) <=> y = cur[r]
    BY <2>1 DEF Holds, LockingPcs, ChangingPcs, TellingPcs
  <2>3. \A y : y = cur[r] => Holds(r, y)'
    BY <1>1, <2>1 DEF Holds, LockingPcs, ChangingPcs, TellingPcs
  <2>4. CASE lock' = lock /\ pc' = pc
    BY <1>1, <2>2, <2>3, <2>4, SameLocksKeepHolders DEF locks
  <2>5. CASE /\ lock' = [lock EXCEPT ![o] = r] /\ pc' = [pc EXCEPT ![r] = "ready"]
             /\ todo' = todo
    <3>1. \A x \in Objects : lock'[x] = IF x = o THEN r ELSE lock[x]
      BY <1>1, <2>5, HolderFacts
    <3>2. \A x : x = o => Holds(r, x)'
      BY <1>1, <2>1, <2>5 DEF Holds, ChangingPcs
    <3>3. QED
      BY <1>1, <2>2, <2>3, <3>1, <3>2, HoldersAreKept
  <2>6. QED
    BY <2>1, <2>4, <2>5
<1>6. CASE EndFinish(r)
  <2>1. /\ pc[r] = "notify" /\ cur[r] \in Objects /\ lock' = Unlocked({cur[r]})
    BY <1>1, <1>6 DEF EndFinish
  <2>2. \A y : Holds(r, y) => y = cur[r]
    BY <2>1 DEF Holds, ChangingPcs
  <2>3. QED
    BY <1>1, <2>1, <2>2, UnlockKeepsHolders
<1>7. QED
  BY <1>2, <1>3, <1>4, <1>5, <1>6 DEF RunnerStep

LEMMA StepKeepsHolders == LastInv /\ LocksHaveHolders /\ [Next]_vars => LocksHaveHolders'
<1> SUFFICES ASSUME LastInv, LocksHaveHolders, [Next]_vars PROVE LocksHaveHolders'
  OBVIOUS
<1>1. CASE UNCHANGED vars
  BY <1>1 DEF vars, locks, LocksHaveHolders, Holds, Target
<1>2. ASSUME NEW t \in Threads, Step(t)
      PROVE  LocksHaveHolders'
  BY <1>2, CallKeepsHolders, ClientStepKeepsHolders, ChangeKeepsHolders, RunnerKeepsHolders
     DEF Step, ClientStep
<1>3. QED
  BY <1>1, <1>2, StepsAreOfThreads

\* The lock a thread needs for its next step.
Wants(t, x) ==
    \/ pc[t] \in {"start", "finish"} /\ x = cur[t]
    \/ pc[t] = "notify" /\ todo[t] # <<>> /\ x = Head(todo[t]) /\ x # cur[t]
    \/ pc[t] = "report" /\ t \in noted /\ x = Queue

\* Thread t cannot go on because another thread, u, has the lock it needs.
WaitsFor(t, u) == t # u /\ \E x \in Objects : Wants(t, x) /\ lock[x] = u

\* No threads wait for each other in a circle: in any group of them there is one that
\* waits for none of the group.
NoCircleOfFinishers ==
    \A group \in (SUBSET Threads) \ {{}} : \E t \in group : \A u \in group : ~WaitsFor(t, u)

\* The dependencies that may be given have no circle.
Acyclic ==
    \A S \in (SUBSET Ops) \ {{}} : \E d \in S : \A o \in S : <<o, d>> \notin Edges

\* A thread that is waited for and waits tells its observers and waits for one of them.
LEMMA WaitingTells ==
    ASSUME LastInv, OnlyDependents, LocksHaveHolders, kept = {},
           NEW s \in Threads, NEW t \in Threads, NEW u \in Threads,
           WaitsFor(s, t), WaitsFor(t, u), \E w \in Threads : WaitsFor(u, w)
    PROVE  /\ pc[t] = "notify" /\ cur[t] \in Ops
           /\ \E x \in Ops : <<x, cur[t]>> \in Edges /\ lock[x] = u
<1>1. PICK y \in Objects : Wants(s, y) /\ lock[y] = t
  BY DEF WaitsFor
<1>2. Holds(t, y)
  BY <1>1 DEF LocksHaveHolders
<1>3. PICK x \in Objects : Wants(t, x) /\ lock[x] = u /\ t # u
  BY DEF WaitsFor
<1>4. Holds(u, x)
  BY <1>3 DEF LocksHaveHolders
<1>5. x # Queue
  <2>1. SUFFICES ASSUME x = Queue PROVE FALSE
    OBVIOUS
  <2>2. pc[u] = "test"
    BY <1>4, <2>1, TargetTyped, HolderFacts
       DEF Holds, LockingPcs, ChangingPcs, TellingPcs, LastInv, OrderInv, Located, Typed
  <2>3. PICK w \in Threads : WaitsFor(u, w)
    OBVIOUS
  <2>4. QED
    BY <2>2, <2>3 DEF WaitsFor, Wants
<1>6. pc[t] = "notify" /\ todo[t] # <<>> /\ x = Head(todo[t]) /\ x # cur[t]
  <2>1. pc[t] \notin {"start", "finish"}
    BY <1>2 DEF Holds, LockingPcs, ChangingPcs, TellingPcs
  <2>2. QED
    BY <1>3, <1>5, <2>1 DEF Wants
<1>7. cur[t] \in Ops /\ todo[t] \in ObserverLists /\ DependsOn(todo[t], cur[t])
  BY <1>6, DependentFacts
<1>8. x \in ToSet(todo[t])
  BY <1>6, <1>7, SetSteps
<1>9. x \in Ops /\ <<x, cur[t]>> \in Edges
  BY <1>5, <1>6, <1>7, <1>8 DEF DependsOn, Objects
<1>10. QED
  BY <1>3, <1>6, <1>7, <1>9

\* If the dependencies that may be given have no circle, threads that finish operations,
\* each of which holds its operation's lock and takes those of the dependents and of the
\* queue one after the other, never wait for each other in a circle, nor for the threads
\* that start operations, add them or change them (NSOperation.m:504-563, 905-943,
\* 1254-1299): the one whose operation depends on none of the others' waits for none of
\* them.  This is so as long as no exception has left a lock locked.
THEOREM FinishersMakeWay == Acyclic => (Spec => [](kept = {} => NoCircleOfFinishers))
<1> SUFFICES ASSUME Acyclic PROVE Spec => [](kept = {} => NoCircleOfFinishers)
  OBVIOUS
<1> DEFINE Inv == LastInv /\ OnlyDependents /\ LocksHaveHolders
<1>1. Inv => (kept = {} => NoCircleOfFinishers)
  <2> SUFFICES ASSUME Inv, kept = {}, NEW group \in (SUBSET Threads) \ {{}},
                      \A t \in group : \E u \in group : WaitsFor(t, u)
               PROVE  FALSE
    BY DEF NoCircleOfFinishers
  <2> DEFINE Held == {t \in group : \E s \in group : WaitsFor(s, t)}
             S == {cur[t] : t \in Held}
  <2>1. ASSUME NEW t \in Held
        PROVE  /\ pc[t] = "notify" /\ cur[t] \in Ops
               /\ \E u \in Held : \E x \in Ops : <<x, cur[t]>> \in Edges /\ lock[x] = u
    <3>1. PICK s \in group : WaitsFor(s, t)
      OBVIOUS
    <3>2. PICK u \in group : WaitsFor(t, u)
      OBVIOUS
    <3>3. u \in Held
      BY <3>2
    <3>4. \E w \in Threads : WaitsFor(u, w)
      OBVIOUS
    <3>5. QED
      BY <3>1, <3>2, <3>3, <3>4, WaitingTells
  <2>2. S \in (SUBSET Ops) \ {{}}
    <3>1. PICK t \in group : TRUE
      OBVIOUS
    <3>2. PICK u \in group : WaitsFor(t, u)
      OBVIOUS
    <3>3. u \in Held
      BY <3>2
    <3>4. QED
      BY <2>1, <3>3
  <2>3. PICK d \in S : \A o \in S : <<o, d>> \notin Edges
    BY <2>2 DEF Acyclic
  <2>4. PICK t \in Held : cur[t] = d
    BY <2>3
  <2>5. PICK u \in Held : \E x \in Ops : <<x, d>> \in Edges /\ lock[x] = u
    BY <2>1, <2>4
  <2>6. PICK x \in Ops : <<x, d>> \in Edges /\ lock[x] = u
    BY <2>5
  <2>7. pc[u] = "notify"
    BY <2>1
  <2>8. Holds(u, x)
    BY <2>6 DEF LocksHaveHolders, Objects
  <2>9. x = cur[u]
    BY <2>6, <2>7, <2>8, OperationAssumption DEF Holds, ChangingPcs
  <2>10. QED
    BY <2>3, <2>6, <2>9
<1>2. Inv /\ [Next]_vars => Inv'
  BY StepKeepsLast, StepKeepsDependents, StepKeepsHolders
<1>3. Init => Inv
  BY LastInvInit, OnlyDependentsInit, LocksHaveHoldersInit
<1>4. QED
  BY <1>1, <1>2, <1>3, PTL DEF Spec
=============================================================================
