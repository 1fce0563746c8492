-------------------------- MODULE NotificationCenter --------------------------
(***************************************************************************)
(* NSNotificationCenter (Source/NSNotificationCenter.m): observations in   *)
(* lists by name and object, a lock for each stripe of names and one for   *)
(* the observations without a name.  A post gathers the observations it    *)
(* concerns under its locks, tells their observers without any, and takes  *)
(* the same locks again to let the observations go.  Whoever adds or       *)
(* removes takes every lock.                                               *)
(*                                                                         *)
(* An observation is a piece of memory from a free list.  It refers to its *)
(* observer weakly, and strongly while a post is about to tell it.  What   *)
(* an observer does when it is told is done by other threads here: the     *)
(* post holds no lock meanwhile.  Observers that belong to their           *)
(* observation (addObserverForName:object:queue:usingBlock:) are left out. *)
(***************************************************************************)
EXTENDS Naturals, FiniteSets

CONSTANTS
    Threads, Names, Objects,
    Observers,
    Slots,        \* the memory for observations
    Stripes,      \* NCSTRIPES
    StripeOf,     \* the hash of a name, by stripe: 1 .. Stripes
    Additions,    \* the names and objects clients register for
    Removals,     \* those they remove
    Posts,        \* those they post
    Nil           \* no name, no object, no observer, no thread

NameOrNil == Names \cup {Nil}
Keys == NameOrNil \X (Objects \cup {Nil})
NilKey == <<Nil, Nil>>

\* globalLock, and the locks of the stripes in the order of their indices.
Global == 0
Locks == Global .. Stripes

ASSUME CenterAssumption ==
    /\ Stripes \in Nat
    /\ StripeOf \in [Names -> 1 .. Stripes]
    /\ Nil \notin Names \cup Objects \cup Observers \cup Threads
    /\ IsFiniteSet(Threads)
    /\ Additions \subseteq Keys /\ Removals \subseteq Keys
    /\ Posts \subseteq Names \X (Objects \cup {Nil})

VARIABLES
    owner,        \* of each lock
    linked,       \* observations in a list: their next is not 0
    free,         \* observations in freeList
    key, observer,
    posting,      \* the posts that refer to an observation
    receiver,     \* whether it has a strong reference to its observer
    anyNameless,
    retained,     \* observers that something else keeps alive
    pc, call,     \* what a thread does, and with which arguments
    need,         \* the locks it needs for that
    array,        \* the observations a post has gathered
    todo, target, \* those not looked at yet, and the one being told
    due           \* history: those registered when it began, still not told

table == <<linked, free, key, observer, posting, receiver, anyNameless>>
vars == <<owner, table, retained, pc, call, need, array, todo, target, due>>

NoCall == [observer |-> Nil, key |-> NilKey]

Init ==
    /\ owner = [l \in Locks |-> Nil]
    /\ linked = {} /\ free = Slots
    /\ key = [s \in Slots |-> NilKey]
    /\ observer = [s \in Slots |-> Nil]
    /\ posting = [s \in Slots |-> 0]
    /\ receiver = [s \in Slots |-> FALSE]
    /\ anyNameless = FALSE
    /\ retained = Observers
    /\ pc = [t \in Threads |-> "idle"]
    /\ call = [t \in Threads |-> NoCall]
    /\ need = [t \in Threads |-> {}]
    /\ array = [t \in Threads |-> {}]
    /\ todo = [t \in Threads |-> {}]
    /\ target = [t \in Threads |-> Nil]
    /\ due = [t \in Threads |-> {}]

\* An observer is deallocated when nothing refers to it strongly.
Alive(x) == x \in retained \/ \E s \in Slots : receiver[s] /\ observer[s] = x

Held(t) == {l \in Locks : owner[l] = t}

Sections == {"add", "remove", "gather", "clean"}

\* Variant: the locks are taken in any order.
IsNextLock_Any(t, l) == l \in need[t] \ Held(t)

\* The global lock first, then the stripes in index order.
IsNextLock(t, l) ==
    /\ l \in need[t] \ Held(t)
    /\ \A m \in need[t] \ Held(t) : l <= m

Lock(t) ==
    /\ pc[t] \in Sections
    /\ \E l \in Locks :
          /\ IsNextLock(t, l)
          /\ owner[l] = Nil
          /\ owner' = [owner EXCEPT ![l] = t]
    /\ UNCHANGED <<table, retained, pc, call, need, array, todo, target, due>>

\* The thread has all the locks that its critical section needs.
Inside(t) == pc[t] \in Sections /\ need[t] \subseteq Held(t)

UnlockAll(t) == owner' = [l \in Locks |-> IF owner[l] = t THEN Nil ELSE owner[l]]

\* A thread calls the center, for which it needs locks.
Begin(t, section, locks, c) ==
    /\ pc[t] = "idle"
    /\ pc' = [pc EXCEPT ![t] = section]
    /\ need' = [need EXCEPT ![t] = locks]
    /\ call' = [call EXCEPT ![t] = c]

\* The call returns.
Return(t) ==
    /\ pc' = [pc EXCEPT ![t] = "idle"]
    /\ need' = [need EXCEPT ![t] = {}]
    /\ call' = [call EXCEPT ![t] = NoCall]

-----------------------------------------------------------------------------
\* -addObserver:selector:name:object:.  There is memory: the guard keeps to the
\* bound that Slots sets.
AddObserver(t, x, k) ==
    /\ x \in retained
    /\ Cardinality({u \in Threads : pc[u] = "add"}) < Cardinality(free)
    /\ Begin(t, "add", Locks, [observer |-> x, key |-> k])
    /\ UNCHANGED <<owner, table, retained, array, todo, target, due>>

\* Variant: the flag is raised for observers of everything only.
RaiseFlag_Wildcard(k) == anyNameless' = (anyNameless \/ k = NilKey)

\* A post need no longer look only at the lists of its name.
RaiseFlag(k) == anyNameless' = (anyNameless \/ k[1] = Nil)

\* An observation is taken from the free list and put in its list.
Insert(t) ==
    /\ pc[t] = "add" /\ Inside(t)
    /\ \E s \in free :
          /\ free' = free \ {s}
          /\ linked' = linked \cup {s}
          /\ key' = [key EXCEPT ![s] = call[t].key]
          /\ observer' = [observer EXCEPT ![s] = call[t].observer]
    /\ RaiseFlag(call[t].key)
    /\ UnlockAll(t)
    /\ Return(t)
    /\ UNCHANGED <<posting, receiver, retained, array, todo, target, due>>

\* -removeObserver:name:object:, in which Nil stands for all.
RemoveObserver(t, x, k) ==
    /\ x # Nil \/ k # NilKey
    /\ Begin(t, "remove", Locks, [observer |-> x, key |-> k])
    /\ UNCHANGED <<owner, table, retained, array, todo, target, due>>

\* Variant: an observation that is removed is given back at once.
Discard_Now(gone) ==
    /\ linked' = linked \ gone
    /\ free' = free \cup gone
    /\ due' = [u \in Threads |-> due[u] \ gone]

\* obsFree(): the observations are in no list any more, and their memory is
\* given back unless a post still refers to them.
Discard(gone) ==
    /\ linked' = linked \ gone
    /\ free' = free \cup {s \in gone : posting[s] = 0}
    /\ due' = [u \in Threads |-> due[u] \ gone]

\* The lists that match are purged of the observer, and of observers that have
\* been deallocated.
Purge(t) ==
    /\ pc[t] = "remove" /\ Inside(t)
    /\ LET c == call[t]
           Visited(k) == c.key[1] \in {Nil, k[1]} /\ c.key[2] \in {Nil, k[2]}
       IN  Discard({s \in linked :
                      /\ Visited(key[s])
                      /\ \/ c.observer \in {Nil, observer[s]}
                         \/ ~Alive(observer[s])})
    /\ UnlockAll(t)
    /\ Return(t)
    /\ UNCHANGED <<key, observer, posting, receiver, anyNameless, retained, array,
                   todo, target>>

-----------------------------------------------------------------------------
\* Observations for k concern a post of p.
Concerns(k, p) == k[1] \in {Nil, p[1]} /\ k[2] \in {Nil, p[2]}

\* -_postAndRelease:.  Whether there may be observations without a name is read
\* before any lock is taken, and once.
Post(t, p) ==
    /\ Begin(t, "gather",
             {StripeOf[p[1]]} \cup (IF anyNameless THEN {Global} ELSE {}),
             [observer |-> Nil, key |-> p])
    /\ due' = [due EXCEPT ![t] = {s \in linked : Concerns(key[s], p)}]
    /\ UNCHANGED <<owner, table, retained, array, todo, target>>

\* The observations in the lists the post looks at.
Reached(t) ==
    {s \in linked :
        /\ Concerns(key[s], call[t].key)
        /\ key[s][1] # Nil \/ Global \in need[t]}

\* addPost(): those whose observer is alive get a strong reference to it and are
\* counted, the others are discarded.
Gather(t) ==
    /\ pc[t] = "gather" /\ Inside(t)
    /\ LET found == {s \in Reached(t) : Alive(observer[s])}
       IN  /\ Discard(Reached(t) \ found)
           /\ posting' = [s \in Slots |-> posting[s] + IF s \in found THEN 1 ELSE 0]
           /\ receiver' = [s \in Slots |-> receiver[s] \/ s \in found]
           /\ array' = [array EXCEPT ![t] = found]
           /\ todo' = [todo EXCEPT ![t] = found]
           /\ IF found = {}
              THEN Return(t)
              ELSE pc' = [pc EXCEPT ![t] = "deliver"] /\ UNCHANGED <<call, need>>
    /\ UnlockAll(t)
    /\ UNCHANGED <<key, observer, anyNameless, retained, target>>

\* An observation that has been removed in the meantime is passed over.
Look(t) ==
    /\ pc[t] = "deliver"
    /\ \E s \in todo[t] :
          /\ todo' = [todo EXCEPT ![t] = @ \ {s}]
          /\ IF s \in linked
             THEN /\ pc' = [pc EXCEPT ![t] = "tell"]
                  /\ target' = [target EXCEPT ![t] = s]
             ELSE UNCHANGED <<pc, target>>
    /\ UNCHANGED <<owner, table, retained, call, need, array, due>>

\* The receiver is told, and what it raises is caught.
Tell(t) ==
    /\ pc[t] = "tell"
    /\ pc' = [pc EXCEPT ![t] = "deliver"]
    /\ target' = [target EXCEPT ![t] = Nil]
    /\ due' = [due EXCEPT ![t] = @ \ {target[t]}]
    /\ UNCHANGED <<owner, table, retained, call, need, array, todo>>

\* Variant: the second time only the lock of the stripe is taken.
Delivered_Stripe(t) ==
    /\ pc[t] = "deliver"
    /\ todo[t] = {}
    /\ pc' = [pc EXCEPT ![t] = "clean"]
    /\ need' = [need EXCEPT ![t] = @ \ {Global}]
    /\ UNCHANGED <<owner, table, retained, call, array, todo, target, due>>

\* All have been told, and the locks are needed again.
Delivered(t) ==
    /\ pc[t] = "deliver"
    /\ todo[t] = {}
    /\ pc' = [pc EXCEPT ![t] = "clean"]
    /\ UNCHANGED <<owner, table, retained, call, need, array, todo, target, due>>

\* Variant: an observation that was removed during the post is not counted down.
CountDown_Linked(t, s) == s \in array[t] /\ s \in linked

\* Variant: the lists are walked a second time instead of the array.
CountDown_Again(t, s) == s \in linked /\ Concerns(key[s], call[t].key)

CountDown(t, s) == s \in array[t]

\* obsDone(): the last post lets the observer go, and gives the memory back if
\* the observation has been removed.
Clean(t) ==
    /\ pc[t] = "clean" /\ Inside(t)
    /\ LET last == {s \in array[t] : posting[s] = 1}
       IN  /\ posting' = [s \in Slots |-> posting[s] - IF CountDown(t, s) THEN 1 ELSE 0]
           /\ receiver' = [s \in Slots |-> receiver[s] /\ s \notin last]
           /\ free' = free \cup (last \ linked)
    /\ array' = [array EXCEPT ![t] = {}]
    /\ UnlockAll(t)
    /\ Return(t)
    /\ UNCHANGED <<linked, key, observer, anyNameless, retained, todo, target, due>>

\* An observer loses its last reference from outside.
Release(x) ==
    /\ x \in retained
    /\ \A t \in Threads : pc[t] = "add" => call[t].observer # x
    /\ retained' = retained \ {x}
    /\ UNCHANGED <<owner, table, pc, call, need, array, todo, target, due>>

\* The steps of a call.
Step(t) ==
    Insert(t) \/ Purge(t) \/ Gather(t) \/ Look(t) \/ Tell(t) \/ Delivered(t) \/ Clean(t)

Next ==
    \/ \E t \in Threads :
          \/ \E x \in Observers, k \in Additions : AddObserver(t, x, k)
          \/ \E x \in Observers \cup {Nil}, k \in Removals : RemoveObserver(t, x, k)
          \/ \E p \in Posts : Post(t, p)
          \/ Lock(t)
          \/ Step(t)
    \/ \E x \in Observers : Release(x)

Spec == Init /\ [][Next]_vars

-----------------------------------------------------------------------------
TypeOK ==
    /\ owner \in [Locks -> Threads \cup {Nil}]
    /\ linked \subseteq Slots /\ free \subseteq Slots
    /\ key \in [Slots -> Keys]
    /\ observer \in [Slots -> Observers \cup {Nil}]
    /\ posting \in [Slots -> Nat]
    /\ receiver \in [Slots -> BOOLEAN]
    /\ anyNameless \in BOOLEAN
    /\ retained \subseteq Observers
    /\ pc \in [Threads -> Sections \cup {"idle", "deliver", "tell"}]
    /\ call \in [Threads -> [observer : Observers \cup {Nil}, key : Keys]]
    /\ need \in [Threads -> SUBSET Locks]
    /\ array \in [Threads -> SUBSET Slots] /\ todo \in [Threads -> SUBSET Slots]
    /\ target \in [Threads -> Slots \cup {Nil}]
    /\ due \in [Threads -> SUBSET Slots]

\* The count of an observation is the number of posts that refer to it, although
\* different posts change it under the locks of different stripes, and it has a
\* strong reference to its observer exactly as long.
PostingCounted ==
    \A s \in Slots :
        /\ posting[s] = Cardinality({t \in Threads : s \in array[t]})
        /\ receiver[s] <=> posting[s] > 0

\* The memory of an observation is given back once, when it has been removed and
\* no post refers to it: by the one who removes it or by the last post, whoever
\* comes later.  No post ever finds another observation in its place.
FreedWhenDone == \A s \in Slots : s \in free <=> (s \notin linked /\ posting[s] = 0)

\* The lists and counts a critical section reads and writes.
Touches(t) ==
    IF ~Inside(t) THEN {}
    ELSE IF pc[t] = "clean" THEN {key[s] : s \in array[t]}
    ELSE IF pc[t] = "gather"
         THEN {k \in Keys : Concerns(k, call[t].key) /\ (k[1] # Nil \/ Global \in need[t])}
         ELSE Keys

\* No two threads are in sections that touch the same list: the locks a post
\* takes are enough for what it looks at and for what it lets go later.
RaceFree == \A t, u \in Threads : t # u => Touches(t) \cap Touches(u) = {}

\* Whoever was registered when the post began, and has not been removed or
\* deallocated since, has been told when it ends, although a post that sees no
\* observation without a name does not look for any.
EveryoneTold == \A t \in Threads : pc[t] \in {"clean", "idle"} => due[t] = {}

\* The thread cannot go on before the other one has unlocked.
WaitsFor(t, u) == \E l \in Locks : IsNextLock(t, l) /\ owner[l] = u

\* Of threads that wait, one waits for a thread that does not: the order of the
\* locks is the same for those that take all, those that take a stripe, and those
\* that take a stripe and the global lock.
NoCircularWait ==
    \A S \in SUBSET Threads :
        S # {} => \E t \in S : \A u \in S : ~WaitsFor(t, u)
=============================================================================
