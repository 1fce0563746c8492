----------------------------- MODULE Lock_proofs -----------------------------
(***************************************************************************)
(* The locks.  For any number of threads and values: one thread at a time  *)
(* has an NSConditionLock, no wake-up is lost, and the lock over a         *)
(* condition variable is the lock that is taken in one step.  For any      *)
(* number of objects: the directory of a distributed lock is never left    *)
(* without one that answers for it, and one of those that race for a free  *)
(* lock gets it.  (Once locks are released, see the run                    *)
(* distributed_lock_retry.)                                                *)
(***************************************************************************)
EXTENDS ConditionLock, DistributedLock, TLAPS

-----------------------------------------------------------------------------
(***************************************************************************)
(* NSConditionLock.                                                        *)
(***************************************************************************)
\* What a thread that is refused has asked for, and that a thread outside a
\* call has no arguments left.
CallsMatch ==
    \A t \in Threads :
        /\ pc[t] = "late" => call[t].mode = "before"
        /\ pc[t] = "refused" => call[t].mode # "lock"
        /\ pc[t] \in {"idle", "held", "release"} => call[t] = NoCall

LockInv == TypeOK /\ OneInside /\ NoSleeperForgotten /\ CallsMatch

LEMMA InitLockInv == Init => LockInv
BY LockAssumption
   DEF Init, LockInv, TypeOK, OneInside, NoSleeperForgotten, CallsMatch, Inside, Calls, Modes, NoCall

LEMMA NoCallIsCall == NoCall \in Calls
BY DEF NoCall, Calls, Modes

\* Every step keeps the invariant: the comparison and the sleep are made with the
\* mutex, and so is the change of the value.
LEMMA StepLockInv ==
    ASSUME LockInv, [Next]_vars
    PROVE  LockInv'
<1> USE LockAssumption, NoCallIsCall
       DEF LockInv, TypeOK, OneInside, NoSleeperForgotten, CallsMatch, Inside
<1>1. ASSUME NEW t \in Threads, NEW c \in Calls, Ask(t, c)
      PROVE  LockInv'
  BY <1>1 DEF Ask
<1>2. ASSUME NEW t \in Threads, Acquire(t)
      PROVE  LockInv'
  BY <1>2 DEF Acquire, Go, Return
<1>3. ASSUME NEW t \in Threads, Reacquire(t)
      PROVE  LockInv'
  BY <1>3 DEF Reacquire, Go, Return
<1>4. ASSUME NEW t \in Threads, Own(t)
      PROVE  LockInv'
  <2>1. CASE CannotAcquire(t)
    BY <2>1 DEF CannotAcquire, Return
  <2>2. CASE Meets(t)
    BY <2>2 DEF Meets, Return
  <2>3. CASE Sleep(t)
    BY <2>3 DEF Sleep, Go
  <2>4. CASE Fails(t)
    BY <2>4 DEF Fails, Go
  <2>5. CASE Refuse(t)
    BY <2>5 DEF Refuse, Return
  <2>6. CASE Release(t)
    BY <2>6 DEF Release, Return
  <2>7. QED
    BY <1>4, <2>1, <2>2, <2>3, <2>4, <2>5, <2>6 DEF Own
<1>5. ASSUME NEW t \in Threads, WakeUp(t) \/ TimeOut(t)
      PROVE  LockInv'
  BY <1>5 DEF WakeUp, TimeOut, Go
<1>6. ASSUME NEW t \in Threads, Unlock(t)
      PROVE  LockInv'
  BY <1>6 DEF Unlock, Return
<1>7. ASSUME NEW t \in Threads, NEW v \in Conditions, UnlockWithCondition(t, v)
      PROVE  LockInv'
  BY <1>7 DEF UnlockWithCondition
<1>8. CASE UNCHANGED vars
  BY <1>8 DEF vars
<1>9. QED
  BY <1>1, <1>2, <1>3, <1>4, <1>5, <1>6, <1>7, <1>8 DEF Next, Leave

\* One thread at a time has the lock, and a thread does not sleep while the value
\* is the one it waits for.
THEOREM LockAlways == Spec => [](OneInside /\ NoSleeperForgotten)
<1>1. LockInv /\ [Next]_vars => LockInv'
  BY StepLockInv
<1>2. LockInv => OneInside /\ NoSleeperForgotten
  BY DEF LockInv
<1>3. QED
  BY InitLockInv, <1>1, <1>2, PTL DEF Spec

\* Every variable of the lock keeps its type.
THEOREM TypeCorrect == Spec => []TypeOK
<1>1. LockInv /\ [Next]_vars => LockInv'
  BY StepLockInv
<1>2. LockInv => TypeOK
  BY DEF LockInv
<1>3. QED
  BY InitLockInv, <1>1, <1>2, PTL DEF Spec

-----------------------------------------------------------------------------
\* What the threads look like from outside.
States == [t \in Threads |-> State(t)]

LEMMA InitImplements == Init => Abstract!LockInit
BY DEF Init, Abstract!LockInit, State, Waits, NoCall, Abstract!NoCall

\* A thread that gets the lock here gets it there.
LEMMA GetImplements ==
    ASSUME LockInv, NEW t \in Threads,
           Waits(t), owner \in {None, t}, call[t].want \in {value, Any},
           UNCHANGED value, Return(t, "held")
    PROVE  Abstract!Get(t)
<1> USE DEF LockInv, TypeOK, OneInside, Inside
<1>1. States[t] = "waiting"
  BY DEF States, State, Waits
<1>2. \A u \in Threads : States[u] # "held"
  BY LockAssumption DEF States, State, Waits
<1>3. States' = [States EXCEPT ![t] = "held"]
  BY DEF States, State, Waits, Return
<1>4. QED
  BY <1>1, <1>2, <1>3
     DEF States, Return, Abstract!Get, Abstract!Free, Abstract!Become, NoCall, Abstract!NoCall

\* A thread that is refused here is refused there.
LEMMA RefuseImplements ==
    ASSUME LockInv, NEW t \in Threads,
           pc[t] \in {"ask", "refused"}, call[t].mode # "lock",
           UNCHANGED value, Return(t, "idle")
    PROVE  Abstract!BeRefused(t)
<1> USE DEF LockInv, TypeOK
<1>1. States[t] = "waiting"
  BY DEF States, State, Waits
<1>2. States' = [States EXCEPT ![t] = "idle"]
  BY DEF States, State, Waits, Return
<1>3. QED
  BY <1>1, <1>2
     DEF States, Return, Abstract!BeRefused, Abstract!Become, NoCall, Abstract!NoCall

\* A thread that goes from one place inside a call to another does nothing there.
LEMMA GoStutters ==
    ASSUME LockInv, NEW t \in Threads, NEW next,
           next \in {"ask", "test", "asleep", "awake", "late", "refused"},
           Waits(t), Go(t, next), UNCHANGED value
    PROVE  UNCHANGED <<value, States, call>>
BY DEF LockInv, TypeOK, States, State, Waits, Go

\* Every step is a step of the abstract lock or leaves it alone.
LEMMA StepImplements ==
    ASSUME LockInv, [Next]_vars
    PROVE  [Abstract!LockNext]_<<value, States, call>>
<1> USE DEF Abstract!LockNext
<1>1. ASSUME NEW t \in Threads, NEW c \in Calls, Ask(t, c)
      PROVE  Abstract!Ask(t)
  <2>1. States[t] = "idle" /\ States' = [States EXCEPT ![t] = "waiting"]
    BY <1>1 DEF Ask, LockInv, TypeOK, States, State, Waits
  <2>2. QED
    BY <1>1, <2>1
       DEF Ask, States, Abstract!Ask, Abstract!Become, Calls, Modes, Abstract!Calls
<1>2. ASSUME NEW t \in Threads, Acquire(t)
      PROVE  [Abstract!LockNext]_<<value, States, call>>
  <2>1. CASE call[t].want = Any
    BY <1>2, <2>1, GetImplements DEF Acquire, Waits
  <2>2. CASE call[t].want # Any
    BY <1>2, <2>2, GoStutters DEF Acquire, Waits
  <2>3. QED
    BY <2>1, <2>2
<1>3. ASSUME NEW t \in Threads, Reacquire(t)
      PROVE  UNCHANGED <<value, States, call>>
  BY <1>3, GoStutters DEF Reacquire, Waits
<1>4. ASSUME NEW t \in Threads, Own(t)
      PROVE  [Abstract!LockNext]_<<value, States, call>>
  <2>1. CASE CannotAcquire(t)
    BY <2>1, RefuseImplements DEF CannotAcquire
  <2>2. CASE Meets(t)
    BY <2>2, GetImplements DEF Meets, Waits, LockInv, OneInside, Inside
  <2>3. CASE Sleep(t)
    BY <2>3, GoStutters DEF Sleep, Waits
  <2>4. CASE Fails(t)
    BY <2>4, GoStutters DEF Fails, Waits
  <2>5. CASE Refuse(t)
    BY <2>5, RefuseImplements DEF Refuse, LockInv, CallsMatch
  <2>6. CASE Release(t)
    BY <2>6 DEF Release, Return, LockInv, TypeOK, CallsMatch, States, State, Waits
  <2>7. QED
    BY <1>4, <2>1, <2>2, <2>3, <2>4, <2>5, <2>6 DEF Own
<1>5. ASSUME NEW t \in Threads, WakeUp(t) \/ TimeOut(t)
      PROVE  UNCHANGED <<value, States, call>>
  BY <1>5, GoStutters DEF WakeUp, TimeOut, Waits
<1>6. ASSUME NEW t \in Threads, Unlock(t)
      PROVE  Abstract!GiveBack(t)
  <2>1. States[t] = "held" /\ States' = [States EXCEPT ![t] = "idle"]
    BY <1>6 DEF Unlock, Return, LockInv, TypeOK, States, State, Waits
  <2>2. QED
    BY <1>6, <2>1
       DEF Unlock, Return, LockInv, TypeOK, States, Abstract!GiveBack, Abstract!Become,
           NoCall, Abstract!NoCall
<1>7. ASSUME NEW t \in Threads, NEW v \in Conditions, UnlockWithCondition(t, v)
      PROVE  Abstract!GiveBack(t)
  <2>1. States[t] = "held" /\ States' = [States EXCEPT ![t] = "idle"]
    BY <1>7 DEF UnlockWithCondition, LockInv, TypeOK, States, State, Waits
  <2>2. call' = [call EXCEPT ![t] = NoCall]
    BY <1>7 DEF UnlockWithCondition, LockInv, TypeOK, CallsMatch
  <2>3. QED
    BY <1>7, <2>1, <2>2
       DEF UnlockWithCondition, States, Abstract!GiveBack, Abstract!Become, NoCall, Abstract!NoCall
<1>8. CASE UNCHANGED vars
  BY <1>8 DEF vars, States, State, Waits
<1>9. QED
  BY <1>1, <1>2, <1>3, <1>4, <1>5, <1>6, <1>7, <1>8 DEF Next, Leave

\* NSConditionLock is a lock that is taken in one step when its condition is met,
\* and that refuses only calls with a date and calls that only try.
THEOREM Refinement == Spec => ImplementsConditionalLock
<1>1. LockInv /\ [Next]_vars => LockInv'
  BY StepLockInv
<1>2. LockInv /\ [Next]_vars => [Abstract!LockNext]_<<value, States, call>>
  BY StepImplements
<1>3. QED
  BY InitLockInv, InitImplements, <1>1, <1>2, PTL
     DEF Spec, ImplementsConditionalLock, Abstract!LockSpec, States

-----------------------------------------------------------------------------
(***************************************************************************)
(* NSDistributedLock.                                                      *)
(***************************************************************************)
\* An object that has made the directory, whatever it has still to do.
Winner(o) == Holds(o) \/ stage[o] \in {"attributes", "date"}

\* While nobody removes the directory, the second attempt of -tryLock is not
\* made, and there is one winner as soon as there is a directory.
RaceInv ==
    /\ dir \in Nat \cup {Absent}
    /\ now \in Nat
    /\ lockTime \in [Objects -> Nat \cup {Absent}]
    /\ stage \in [Objects -> {"idle", "make", "attributes", "check", "date"}]
    /\ \A o \in Objects : stage[o] = "check" => dir # Absent
    /\ \A o \in Objects : Winner(o) => dir # Absent
    /\ \A o, p \in Objects : Winner(o) /\ Winner(p) => o = p

\* A race for a free lock has at most one winner, for every number of objects
\* that call -tryLock at the same time: all depends on mkdir() (see the comment
\* at NSDistributedLock.m:229).
THEOREM OneWinner ==
    ASSUME Unlockers = {}, Breakers = {}
    PROVE  DistributedSpec => []Exclusive
<1> USE DistributedAssumption
<1>1. DistributedInit => RaceInv
  BY DEF DistributedInit, RaceInv, Winner, Holds
<1>2. RaceInv /\ [DistributedNext]_distributedVars => RaceInv'
  <2> SUFFICES ASSUME RaceInv, [DistributedNext]_distributedVars PROVE RaceInv'
    OBVIOUS
  <2>1. ASSUME NEW o \in Objects, TryLock(o)
        PROVE  RaceInv'
    BY <2>1 DEF TryLock, GoTo, RaceInv, Winner, Holds
  <2>2. ASSUME NEW o \in Objects, TryLockStep(o)
        PROVE  RaceInv'
    <3>1. CASE MakeDirectory(o, "make", "attributes", "check")
      <4>1. CASE dir = Absent
        BY <3>1, <4>1 DEF MakeDirectory, GoTo, RaceInv, Winner, Holds
      <4>2. CASE dir # Absent
        BY <3>1, <4>2 DEF MakeDirectory, GoTo, RaceInv, Winner, Holds
      <4>3. QED
        BY <4>1, <4>2
    <3>2. CASE SetAttributes(o, "attributes", "check")
      <4>1. dir # Absent /\ stage[o] = "attributes" /\ stage' = [stage EXCEPT ![o] = "date"]
        BY <3>2 DEF SetAttributes, GoTo, RaceInv, Winner
      <4>2. UNCHANGED <<dir, now, lockTime>>
        BY <3>2 DEF SetAttributes
      <4>3. QED
        BY <4>1, <4>2 DEF RaceInv, Winner, Holds
    <3>3. CASE CheckExists(o)
      <4>1. dir # Absent /\ stage[o] = "check" /\ stage' = [stage EXCEPT ![o] = "idle"]
        BY <3>3 DEF CheckExists, GoTo, RaceInv
      <4>2. UNCHANGED <<dir, now, lockTime>>
        BY <3>3 DEF CheckExists
      <4>3. QED
        BY <4>1, <4>2 DEF RaceInv, Winner, Holds
    <3>4. CASE ReadDate(o)
      BY <3>4 DEF ReadDate, GoTo, RaceInv, Winner, Holds
    <3>5. ~MakePath(o) /\ ~LookAgain(o)
      BY DEF MakePath, LookAgain, RaceInv
    <3>6. ~MakeDirectory(o, "remake", "reattributes", "idle")
      BY DEF MakeDirectory, RaceInv
    <3>7. ~SetAttributes(o, "reattributes", "idle")
      BY DEF SetAttributes, RaceInv
    <3>8. QED
      BY <2>2, <3>1, <3>2, <3>3, <3>4, <3>5, <3>6, <3>7 DEF TryLockStep
  <2>3. ASSUME NEW o \in Objects, RemoveDirectory(o)
        PROVE  FALSE
    BY <2>3 DEF RemoveDirectory, RaceInv
  <2>4. CASE Tick
    BY <2>4 DEF Tick, RaceInv, Winner, Holds
  <2>5. CASE UNCHANGED distributedVars
    BY <2>5 DEF distributedVars, RaceInv, Winner, Holds
  <2>6. QED
    BY <2>1, <2>2, <2>3, <2>4, <2>5 DEF DistributedNext
<1>3. RaceInv => Exclusive
  BY DEF RaceInv, Exclusive, Winner
<1>4. QED
  BY <1>1, <1>2, <1>3, PTL DEF DistributedSpec

\* Without a bound on the objects: the directory that was made, the date that was
\* remembered and the removal that was decided follow each other without a gap.
OrphanInv ==
    /\ DOMAIN lockTime = Objects
    /\ DOMAIN stage = Objects
    /\ NoOrphan

\* The object that answers for the directory goes on to answer for it, or the
\* directory is gone, however the calls of any number of objects interleave.
THEOREM NoOrphanAlways == DistributedSpec => []NoOrphan
<1> USE DistributedAssumption DEF GoTo
<1>1. DistributedInit => OrphanInv
  BY DEF DistributedInit, OrphanInv, NoOrphan
<1>2. OrphanInv /\ [DistributedNext]_distributedVars => OrphanInv'
  <2> SUFFICES ASSUME OrphanInv, [DistributedNext]_distributedVars PROVE OrphanInv'
    OBVIOUS
  <2>1. ASSUME NEW o \in Objects, TryLock(o)
        PROVE  OrphanInv'
    BY <2>1 DEF TryLock, OrphanInv, NoOrphan, Answers
  <2>2. ASSUME NEW o \in Objects, NEW from, NEW failed,
               from \notin {"attributes", "reattributes", "date", "remove"},
               \E made \in {"attributes", "reattributes"} :
                   MakeDirectory(o, from, made, failed)
        PROVE  OrphanInv'
    BY <2>2 DEF MakeDirectory, OrphanInv, NoOrphan, Answers
  <2>3. ASSUME NEW o \in Objects, NEW from, NEW failed, SetAttributes(o, from, failed)
        PROVE  OrphanInv'
    BY <2>3 DEF SetAttributes, OrphanInv, NoOrphan, Answers
  <2>4. ASSUME NEW o \in Objects, CheckExists(o) \/ MakePath(o) \/ LookAgain(o) \/ ReadDate(o)
        PROVE  OrphanInv'
    BY <2>4 DEF CheckExists, MakePath, LookAgain, ReadDate, OrphanInv, NoOrphan, Answers
  <2>5. ASSUME NEW o \in Objects, TryLockStep(o)
        PROVE  OrphanInv'
    BY <2>2, <2>3, <2>4, <2>5 DEF TryLockStep
  <2>6. ASSUME NEW o \in Objects, UnlockDirectory(o) \/ BreakLock(o)
        PROVE  OrphanInv'
    BY <2>6 DEF UnlockDirectory, BreakLock, OrphanInv, NoOrphan, Answers
  <2>7. ASSUME NEW o \in Objects, RemoveDirectory(o)
        PROVE  OrphanInv'
    BY <2>7 DEF RemoveDirectory, OrphanInv, NoOrphan
  <2>8. CASE Tick
    BY <2>8 DEF Tick, OrphanInv, NoOrphan, Answers
  <2>9. CASE UNCHANGED distributedVars
    BY <2>9 DEF distributedVars, OrphanInv, NoOrphan, Answers
  <2>10. QED
    BY <2>1, <2>5, <2>6, <2>7, <2>8, <2>9 DEF DistributedNext
<1>3. OrphanInv => NoOrphan
  BY DEF OrphanInv
<1>4. QED
  BY <1>1, <1>2, <1>3, PTL DEF DistributedSpec

\* The variables keep their types: a date is one that the clock has shown.
THEOREM DistributedTypeCorrect == DistributedSpec => []DistributedTypeOK
<1> USE DistributedAssumption
<1>1. DistributedInit => DistributedTypeOK
  BY DEF DistributedInit, DistributedTypeOK
<1>2. DistributedTypeOK /\ [DistributedNext]_distributedVars => DistributedTypeOK'
  <2> SUFFICES ASSUME DistributedTypeOK, [DistributedNext]_distributedVars
               PROVE  DistributedTypeOK'
    OBVIOUS
  <2> USE DEF DistributedTypeOK, GoTo
  <2>1. ASSUME NEW o \in Objects, TryLock(o) \/ RemoveDirectory(o)
        PROVE  DistributedTypeOK'
    BY <2>1 DEF TryLock, RemoveDirectory
  <2>2. ASSUME NEW o \in Objects, TryLockStep(o)
        PROVE  DistributedTypeOK'
    BY <2>2 DEF TryLockStep, MakeDirectory, SetAttributes, CheckExists, MakePath, LookAgain,
                ReadDate
  <2>3. ASSUME NEW o \in Objects, UnlockDirectory(o) \/ BreakLock(o)
        PROVE  DistributedTypeOK'
    BY <2>3 DEF UnlockDirectory, BreakLock
  <2>4. CASE Tick \/ UNCHANGED distributedVars
    BY <2>4 DEF Tick, distributedVars
  <2>5. QED
    BY <2>1, <2>2, <2>3, <2>4 DEF DistributedNext
<1>3. QED
  BY <1>1, <1>2, PTL DEF DistributedSpec
=============================================================================
