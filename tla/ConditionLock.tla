---------------------------- MODULE ConditionLock ----------------------------
(***************************************************************************)
(* NSConditionLock on top of NSCondition (Source/NSLock.m).  A mutex, a    *)
(* condition variable and a value: a thread asks for the lock, or for the  *)
(* lock when the value is the one it wants, for good, until a date or at   *)
(* once.  NSOperationQueue puts its workers to sleep with it (_cond), and  *)
(* NSOperation those who wait for its end.                                 *)
(*                                                                         *)
(* pthread_mutex_t and pthread_cond_t are external: a wait releases the    *)
(* mutex and goes to sleep in one step, may end without a signal, and gets *)
(* the mutex back before it returns, after a timeout too.  Values fit in   *)
(* the int that holds them.                                                *)
(***************************************************************************)
EXTENDS Naturals, FiniteSets

CONSTANTS
    Threads,
    Conditions,   \* the values of the condition
    Initial,      \* the one passed to -initWithCondition:
    Any,          \* for a call that asks for no condition
    None

Modes == {"lock", "before", "try"}
Calls == [want : Conditions \cup {Any}, mode : Modes]
NoCall == [want |-> Any, mode |-> "lock"]

ASSUME LockAssumption ==
    /\ Initial \in Conditions
    /\ Any \notin Conditions
    /\ None \notin Threads

VARIABLES
    owner,        \* the thread that has the mutex of the NSCondition
    value,        \* _condition_value
    pc,           \* where the thread is, "idle" outside this class
    call          \* the arguments of the call it waits in

vars == <<owner, value, pc, call>>

\* -initWithCondition:
Init ==
    /\ owner = None
    /\ value = Initial
    /\ pc = [t \in Threads |-> "idle"]
    /\ call = [t \in Threads |-> NoCall]

Go(t, next) ==
    /\ pc' = [pc EXCEPT ![t] = next]
    /\ UNCHANGED call

\* The call returns: its arguments are gone.
Return(t, next) ==
    /\ pc' = [pc EXCEPT ![t] = next]
    /\ call' = [call EXCEPT ![t] = NoCall]

\* -lock, -lockWhenCondition:, -lockBeforeDate:, -lockWhenCondition:beforeDate:,
\* -tryLock and -tryLockWhenCondition:, by the value wanted and the patience.
Ask(t, c) ==
    /\ pc[t] = "idle"
    /\ pc' = [pc EXCEPT ![t] = "ask"]
    /\ call' = [call EXCEPT ![t] = c]
    /\ UNCHANGED <<owner, value>>

\* The mutex is free.
Acquire(t) ==
    /\ pc[t] = "ask"
    /\ owner = None
    /\ owner' = t
    /\ IF call[t].want = Any THEN Return(t, "held") ELSE Go(t, "test")
    /\ UNCHANGED value

\* pthread_mutex_trylock() has failed, and the date, if there is one, has passed.
CannotAcquire(t) ==
    /\ pc[t] = "ask"
    /\ owner # None
    /\ call[t].mode # "lock"
    /\ Return(t, "idle")
    /\ UNCHANGED <<owner, value>>

\* The condition is met.
Meets(t) ==
    /\ pc[t] = "test"
    /\ value = call[t].want
    /\ Return(t, "held")
    /\ UNCHANGED <<owner, value>>

\* Variant: the thread goes to sleep and keeps the mutex.
Sleep_Locked(t) ==
    /\ pc[t] = "test"
    /\ value # call[t].want
    /\ call[t].mode # "try"
    /\ Go(t, "asleep")
    /\ UNCHANGED <<owner, value>>

\* It is not: the thread waits for a change ...
Sleep(t) ==
    /\ pc[t] = "test"
    /\ value # call[t].want
    /\ call[t].mode # "try"
    /\ owner' = None
    /\ Go(t, "asleep")
    /\ UNCHANGED value

\* ... or only tried.
Fails(t) ==
    /\ pc[t] = "test"
    /\ value # call[t].want
    /\ call[t].mode = "try"
    /\ Go(t, "refused")
    /\ UNCHANGED <<owner, value>>

\* pthread_cond_wait() may end at any time.
WakeUp(t) ==
    /\ pc[t] = "asleep"
    /\ Go(t, "awake")
    /\ UNCHANGED <<owner, value>>

\* pthread_cond_timedwait() ends at the date.
TimeOut(t) ==
    /\ pc[t] = "asleep"
    /\ call[t].mode = "before"
    /\ Go(t, "late")
    /\ UNCHANGED <<owner, value>>

\* Variant: a wait that was signalled is taken to have found the condition.
Reacquire_Once(t) ==
    /\ pc[t] \in {"awake", "late"}
    /\ owner = None
    /\ owner' = t
    /\ IF pc[t] = "awake" THEN Return(t, "held") ELSE Go(t, "refused")
    /\ UNCHANGED value

\* The wait returns with the mutex: the loop goes round, or the date has passed
\* and -lockWhenCondition:beforeDate: gives up without another look.
Reacquire(t) ==
    /\ pc[t] \in {"awake", "late"}
    /\ owner = None
    /\ owner' = t
    /\ Go(t, IF pc[t] = "awake" THEN "test" ELSE "refused")
    /\ UNCHANGED value

\* The call returns NO.
Refuse(t) ==
    /\ pc[t] = "refused"
    /\ owner' = None
    /\ Return(t, "idle")
    /\ UNCHANGED value

\* -unlock, of a thread that has the lock.
Unlock(t) ==
    /\ pc[t] = "held"
    /\ owner' = None
    /\ Return(t, "idle")
    /\ UNCHANGED value

\* Variant: one of the sleeping threads is woken, not all of them.
UnlockWithCondition_Signal(t, v) ==
    /\ pc[t] = "held"
    /\ value' = v
    /\ LET asleep == {u \in Threads : pc[u] = "asleep"}
       IN  \E woken \in SUBSET asleep :
              /\ Cardinality(woken) = IF asleep = {} THEN 0 ELSE 1
              /\ pc' = [u \in Threads |-> IF u = t THEN "release"
                                          ELSE IF u \in woken THEN "awake" ELSE pc[u]]
    /\ UNCHANGED <<owner, call>>

\* -unlockWithCondition: sets the value and wakes all who sleep ...
UnlockWithCondition(t, v) ==
    /\ pc[t] = "held"
    /\ value' = v
    /\ pc' = [u \in Threads |-> IF u = t THEN "release"
                                ELSE IF pc[u] = "asleep" THEN "awake" ELSE pc[u]]
    /\ UNCHANGED <<owner, call>>

\* ... and gives the mutex back.
Release(t) ==
    /\ pc[t] = "release"
    /\ owner' = None
    /\ Return(t, "idle")
    /\ UNCHANGED value

Leave(t) == Unlock(t) \/ \E v \in Conditions : UnlockWithCondition(t, v)

\* The steps of a call for which the thread needs nobody.
Own(t) == CannotAcquire(t) \/ Meets(t) \/ Sleep(t) \/ Fails(t) \/ Refuse(t) \/ Release(t)

Next ==
    \E t \in Threads :
        \/ \E c \in Calls : Ask(t, c)
        \/ Acquire(t) \/ Reacquire(t)
        \/ Own(t)
        \/ WakeUp(t) \/ TimeOut(t)
        \/ Leave(t)

Spec == Init /\ [][Next]_vars

\* A mutex that is free again and again is acquired in the end, and whoever has
\* the lock gives it back.  A date comes, and a wait that begins after it is late
\* at once: waits that end without a signal put it off only finitely often.
\* Nobody need ask, and no wait need end without a signal.
FairSpec ==
    /\ Spec
    /\ \A t \in Threads :
          /\ SF_vars(Acquire(t) \/ Reacquire(t))
          /\ SF_vars(TimeOut(t))
          /\ WF_vars(Own(t) \/ Leave(t))

-----------------------------------------------------------------------------
TypeOK ==
    /\ owner \in Threads \cup {None}
    /\ value \in Conditions
    /\ pc \in [Threads -> {"idle", "ask", "test", "held", "asleep", "awake", "late",
                           "refused", "release"}]
    /\ call \in [Threads -> Calls]

\* Where a thread has the mutex.
Inside(t) == pc[t] \in {"test", "held", "refused", "release"}

\* The mutex is with the thread that is inside, and nobody else is: one thread
\* has the lock, and no return from a wait, late or not, lets a second one in.
OneInside == \A t \in Threads : Inside(t) <=> owner = t

\* No thread sleeps although the condition it waits for is met: the comparison,
\* the beginning of the wait and the broadcast leave no gap.
NoSleeperForgotten == \A t \in Threads : pc[t] = "asleep" => call[t].want # value

Waits(t) == pc[t] \in {"ask", "test", "asleep", "awake", "late", "refused"}

\* A thread that waits for a value gets the lock, or is refused, once the
\* value stays.
WaiterServed(t) ==
    \A v \in Conditions :
        <>[](value = v) => ((Waits(t) /\ call[t].want = v) ~> ~Waits(t))

\* A call with a date comes back, whatever the condition.
DatedCallReturns(t) == (Waits(t) /\ call[t].mode # "lock") ~> ~Waits(t)

-----------------------------------------------------------------------------
State(t) ==
    IF pc[t] = "held" THEN "held" ELSE IF Waits(t) THEN "waiting" ELSE "idle"

Abstract == INSTANCE ConditionalLock
                WITH state <- [t \in Threads |-> State(t)]

\* Seen from outside it is a lock that is taken in one step by a thread whose
\* condition is met.
ImplementsConditionalLock == Abstract!LockSpec
=============================================================================
