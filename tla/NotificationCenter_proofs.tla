----------------------- MODULE NotificationCenter_proofs -----------------------
(***************************************************************************)
(* For any number of threads, names, stripes and observations: the locks   *)
(* of a notification center exclude all who touch the same list, nobody    *)
(* waits in a circle, and whoever stays registered is told.                *)
(***************************************************************************)
EXTENDS NotificationCenter, FiniteSetTheorems, WellFoundedInduction, TLAPS

Posting(t) == pc[t] \in {"gather", "deliver", "tell", "clean"}

LockType ==
    /\ owner \in [Locks -> Threads \cup {Nil}]
    /\ pc \in [Threads -> Sections \cup {"idle", "deliver", "tell"}]
    /\ call \in [Threads -> [observer : Observers \cup {Nil}, key : Keys]]
    /\ need \in [Threads -> SUBSET Locks]

\* The locks of a post: that of its name's stripe, and perhaps the global one.
PostLocks(t) ==
    /\ call[t].key \in Posts
    /\ need[t] \in {{StripeOf[call[t].key[1]]}, {StripeOf[call[t].key[1]], Global}}

\* The locks of a thread: those it needs, from the first on, and none while it
\* is not in a critical section or on the way to one.
LocksInv ==
    /\ LockType
    /\ \A t \in Threads :
          /\ pc[t] = "idle" => need[t] = {}
          /\ pc[t] \in {"add", "remove"} => need[t] = Locks
          /\ Posting(t) => PostLocks(t)
          /\ Held(t) \subseteq need[t]
          /\ pc[t] \notin Sections => Held(t) = {}
          /\ \A l \in Held(t), m \in need[t] \ Held(t) : l < m

LEMMA InitLocks == Init => LocksInv
BY CenterAssumption
   DEF Init, LocksInv, LockType, Posting, Held, Sections, NoCall, NilKey, Keys, NameOrNil, Locks

\* The locks of a post are locks.
LEMMA PostNeeds ==
    ASSUME NEW p \in Posts
    PROVE  /\ p \in Keys /\ p[1] \in Names
           /\ StripeOf[p[1]] \in Locks /\ Global \in Locks /\ StripeOf[p[1]] # Global
BY CenterAssumption DEF Keys, NameOrNil, Locks, Global

\* A thread that begins a call holds nothing yet.
LEMMA BeginLocks ==
    ASSUME LocksInv, NEW t \in Threads, NEW section \in {"add", "remove", "gather"},
           NEW locks \in SUBSET Locks, NEW c \in [observer : Observers \cup {Nil}, key : Keys],
           section # "gather" => locks = Locks,
           section = "gather" =>
               /\ c.key \in Posts
               /\ locks \in {{StripeOf[c.key[1]]}, {StripeOf[c.key[1]], Global}},
           Begin(t, section, locks, c), UNCHANGED owner
    PROVE  LocksInv'
<1>1. Held(t) = {}
  BY DEF LocksInv, Begin, Sections
<1>2. \A u \in Threads : Held(u)' = Held(u)
  BY DEF Held
<1>3. LockType'
  BY DEF LocksInv, LockType, Begin, Sections
<1>4. \A u \in Threads : u # t => /\ pc'[u] = pc[u] /\ need'[u] = need[u] /\ call'[u] = call[u]
  BY DEF LocksInv, LockType, Begin
<1>5. pc'[t] = section /\ need'[t] = locks /\ call'[t] = c
  BY DEF LocksInv, LockType, Begin
<1>6. QED
  BY <1>1, <1>2, <1>3, <1>4, <1>5 DEF LocksInv, Posting, PostLocks, Sections

\* A thread that unlocks holds nothing any more.
LEMMA UnlockLocks ==
    ASSUME LocksInv, NEW t \in Threads, UnlockAll(t),
           \/ Return(t)
           \/ /\ pc[t] = "gather" /\ pc' = [pc EXCEPT ![t] = "deliver"]
              /\ UNCHANGED <<call, need>>
    PROVE  LocksInv'
<1>1. Held(t)' = {} /\ \A u \in Threads : u # t => Held(u)' = Held(u)
  BY CenterAssumption DEF UnlockAll, Held, LocksInv, LockType
<1>2. LockType'
  <2>1. NoCall \in [observer : Observers \cup {Nil}, key : Keys]
    BY DEF NoCall, NilKey, Keys, NameOrNil
  <2>2. owner' \in [Locks -> Threads \cup {Nil}]
    BY DEF LocksInv, LockType, UnlockAll
  <2>3. CASE Return(t)
    BY <2>1, <2>2, <2>3 DEF LocksInv, LockType, Return
  <2>4. CASE pc' = [pc EXCEPT ![t] = "deliver"] /\ UNCHANGED <<call, need>>
    BY <2>2, <2>4 DEF LocksInv, LockType
  <2>5. QED
    BY <2>3, <2>4
<1>3. \A u \in Threads : u # t => /\ pc'[u] = pc[u] /\ need'[u] = need[u] /\ call'[u] = call[u]
  BY DEF LocksInv, LockType, Return
<1>4. \/ pc'[t] = "idle" /\ need'[t] = {}
      \/ pc[t] = "gather" /\ pc'[t] = "deliver" /\ need'[t] = need[t] /\ call'[t] = call[t]
  BY DEF LocksInv, LockType, Return
<1>5. QED
  BY <1>1, <1>2, <1>3, <1>4 DEF LocksInv, Posting, PostLocks, Sections

\* A thread takes the first lock it needs and has not.
LEMMA LockLocks ==
    ASSUME LocksInv, NEW t \in Threads, Lock(t)
    PROVE  LocksInv'
<1>1. PICK l \in Locks : /\ IsNextLock(t, l) /\ owner[l] = Nil
                         /\ owner' = [owner EXCEPT ![l] = t]
  BY DEF Lock
<1>2. Held(t)' = Held(t) \cup {l}
  BY <1>1 DEF Held, LocksInv, LockType
<1>3. \A u \in Threads : u # t => Held(u)' = Held(u)
  BY <1>1, CenterAssumption DEF Held, LocksInv, LockType
<1>4. \A k \in need[t] \ (Held(t) \cup {l}) : l < k
  BY <1>1, CenterAssumption DEF IsNextLock, LocksInv, LockType, Locks, Global
<1>5. LockType' /\ pc[t] \in Sections /\ UNCHANGED <<pc, call, need>>
  BY <1>1 DEF Lock, LocksInv, LockType
<1>6. l \in need[t]
  BY <1>1 DEF IsNextLock
<1>7. QED
  BY <1>2, <1>3, <1>4, <1>5, <1>6 DEF LocksInv, Posting, PostLocks

\* Between its critical sections a post holds nothing.
LEMMA MoveLocks ==
    ASSUME LocksInv, NEW t \in Threads, NEW next \in {"deliver", "tell", "clean"},
           pc[t] \in {"deliver", "tell"}, pc' = [pc EXCEPT ![t] = next],
           UNCHANGED <<owner, call, need>>
    PROVE  LocksInv'
<1>1. \A u \in Threads : Held(u)' = Held(u)
  BY DEF Held
<1>2. LockType'
  BY DEF LocksInv, LockType, Sections
<1>3. \A u \in Threads : /\ u # t => pc'[u] = pc[u]
                         /\ need'[u] = need[u] /\ call'[u] = call[u]
  BY DEF LocksInv, LockType
<1>4. pc'[t] = next
  BY DEF LocksInv, LockType
<1>5. QED
  BY <1>1, <1>2, <1>3, <1>4 DEF LocksInv, Posting, PostLocks, Sections

LEMMA StepLocks ==
    ASSUME LocksInv, [Next]_vars
    PROVE  LocksInv'
<1> USE CenterAssumption
<1>1. ASSUME NEW t \in Threads, NEW x \in Observers, NEW k \in Additions, AddObserver(t, x, k)
      PROVE  LocksInv'
  <2>1. /\ Begin(t, "add", Locks, [observer |-> x, key |-> k]) /\ UNCHANGED owner
        /\ [observer |-> x, key |-> k] \in [observer : Observers \cup {Nil}, key : Keys]
    BY <1>1 DEF AddObserver
  <2>2. QED
    BY <2>1, BeginLocks
<1>2. ASSUME NEW t \in Threads, NEW x \in Observers \cup {Nil}, NEW k \in Removals,
             RemoveObserver(t, x, k)
      PROVE  LocksInv'
  <2>1. /\ Begin(t, "remove", Locks, [observer |-> x, key |-> k]) /\ UNCHANGED owner
        /\ [observer |-> x, key |-> k] \in [observer : Observers \cup {Nil}, key : Keys]
    BY <1>2 DEF RemoveObserver
  <2>2. QED
    BY <2>1, BeginLocks
<1>3. ASSUME NEW t \in Threads, NEW p \in Posts, Post(t, p)
      PROVE  LocksInv'
  <2> DEFINE locks == {StripeOf[p[1]]} \cup (IF anyNameless THEN {Global} ELSE {})
  <2>1. /\ Begin(t, "gather", locks, [observer |-> Nil, key |-> p]) /\ UNCHANGED owner
        /\ [observer |-> Nil, key |-> p] \in [observer : Observers \cup {Nil}, key : Keys]
    BY <1>3, PostNeeds DEF Post
  <2>2. /\ locks \in {{StripeOf[p[1]]}, {StripeOf[p[1]], Global}}
        /\ locks \in SUBSET Locks
    BY PostNeeds
  <2> HIDE DEF locks
  <2>3. QED
    BY <2>1, <2>2, BeginLocks
<1>4. ASSUME NEW t \in Threads, Lock(t)
      PROVE  LocksInv'
  BY <1>4, LockLocks
<1>5. ASSUME NEW t \in Threads, Step(t)
      PROVE  LocksInv'
  <2>1. CASE Insert(t) \/ Purge(t) \/ Clean(t)
    BY <2>1, UnlockLocks DEF Insert, Purge, Clean
  <2>2. CASE Gather(t)
    BY <2>2, UnlockLocks DEF Gather
  <2>3. CASE Look(t)
    <3>1. \/ pc' = [pc EXCEPT ![t] = "tell"]
          \/ UNCHANGED pc
      BY <2>3 DEF Look
    <3>2. pc[t] = "deliver" /\ UNCHANGED <<owner, call, need>>
      BY <2>3 DEF Look
    <3>3. CASE pc' = [pc EXCEPT ![t] = "tell"]
      BY <3>2, <3>3, MoveLocks
    <3>4. CASE UNCHANGED pc
      BY <3>2, <3>4 DEF LocksInv, LockType, Posting, PostLocks, Held
    <3>5. QED
      BY <3>1, <3>3, <3>4
  <2>4. CASE Tell(t)
    BY <2>4, MoveLocks DEF Tell
  <2>5. CASE Delivered(t)
    BY <2>5, MoveLocks DEF Delivered
  <2>6. QED
    BY <1>5, <2>1, <2>2, <2>3, <2>4, <2>5 DEF Step
<1>6. CASE \E x \in Observers : Release(x)
  BY <1>6 DEF Release, LocksInv, LockType, Posting, PostLocks, Held
<1>7. CASE UNCHANGED vars
  BY <1>7 DEF vars, LocksInv, LockType, Posting, PostLocks, Held
<1>8. QED
  BY <1>1, <1>2, <1>3, <1>4, <1>5, <1>6, <1>7 DEF Next

-----------------------------------------------------------------------------
(* Nobody waits in a circle. *)

\* Among locks there is a last one.
LEMMA LastLock ==
    ASSUME NEW W, W \subseteq Locks, W # {}
    PROVE  \E l \in W : \A m \in W : m <= l
<1> DEFINE R == OpToRel(<, Nat)
           T == {Stripes - l : l \in W}
<1>1. IsWellFoundedOn(R, Nat)
  BY NatLessThanWellFounded
<1>2. \A x, y \in Nat : y < x => <<y, x>> \in R
  BY DEF OpToRel
<1> HIDE DEF R
<1>3. T \subseteq Nat /\ T # {}
  <2>1. \A l \in W : Stripes - l \in Nat
    BY CenterAssumption DEF Locks, Global
  <2>2. QED
    BY <2>1
<1>4. PICK x \in T : \A y \in T : ~(<<y, x>> \in R)
  <2> HIDE DEF T
  <2>1. QED
    BY <1>1, <1>3, WFMin
<1>5. PICK l \in W : x = Stripes - l
  BY <1>4
<1>6. ASSUME NEW m \in W PROVE m <= l
  <2>1. Stripes - m \in T /\ Stripes - m \in Nat /\ x \in Nat
    BY <1>3
  <2>2. ~(Stripes - m < x)
    BY <1>2, <1>4, <2>1
  <2>3. m \in 0 .. Stripes /\ l \in 0 .. Stripes /\ Stripes \in Nat
    BY CenterAssumption DEF Locks, Global
  <2>4. QED
    BY <1>5, <2>2, <2>3
<1>7. QED
  BY <1>6

LEMMA WaitingEnds == LocksInv => NoCircularWait
<1> SUFFICES ASSUME LocksInv, NEW S \in SUBSET Threads, S # {},
                    \A t \in S : \E u \in S : WaitsFor(t, u)
             PROVE  FALSE
  BY DEF NoCircularWait
<1> DEFINE Wanted == {l \in Locks : \E t \in S : IsNextLock(t, l)}
<1>1. Wanted \subseteq Locks /\ Wanted # {}
  BY DEF WaitsFor
<1>2. PICK l \in Wanted : \A m \in Wanted : m <= l
  <2> HIDE DEF Wanted
  <2>1. QED
    BY <1>1, LastLock
<1>3. PICK t \in S : IsNextLock(t, l)
  BY <1>2
<1>4. PICK u \in S, k \in Locks : IsNextLock(t, k) /\ owner[k] = u
  BY <1>3 DEF WaitsFor
<1>5. k = l
  BY <1>2, <1>3, <1>4, CenterAssumption DEF IsNextLock, Locks, Global
<1>6. PICK m \in Locks : IsNextLock(u, m)
  BY DEF WaitsFor
<1>7. l < m
  BY <1>4, <1>5, <1>6 DEF LocksInv, IsNextLock, Held
<1>8. m <= l
  BY <1>2, <1>6
<1>9. QED
  BY <1>1, <1>2, <1>7, <1>8, CenterAssumption DEF Locks, Global

(***************************************************************************)
(* The locks of -addObserver:, -removeObserver: and the two sections of    *)
(* -_postAndRelease: are taken in one order: of threads that wait, one     *)
(* waits for a thread that does not.                                       *)
(***************************************************************************)
THEOREM WaitingIsNotCircular == Spec => []NoCircularWait
<1>1. LocksInv /\ [Next]_vars => LocksInv'
  BY StepLocks
<1>2. QED
  BY InitLocks, <1>1, WaitingEnds, PTL DEF Spec

-----------------------------------------------------------------------------
(* Observations are counted and given back. *)

Delivering(t) == pc[t] \in {"deliver", "tell", "clean"}

\* What a post has gathered concerns it, by a list whose lock it needs again.
ArrayOf(t) ==
    /\ array[t] # {} => Delivering(t)
    /\ todo[t] \subseteq array[t]
    /\ pc[t] = "clean" => todo[t] = {}
    /\ \A s \in array[t] : /\ Concerns(key[s], call[t].key)
                           /\ key[s][1] = Nil => Global \in need[t]

ArrayInv == \A t \in Threads : ArrayOf(t)

TableInv == TypeOK /\ LocksInv /\ ArrayInv /\ PostingCounted /\ FreedWhenDone

Referring(s) == {t \in Threads : s \in array[t]}

\* An observation in an array has been counted.
LEMMA Counted ==
    ASSUME PostingCounted, TypeOK, NEW t \in Threads, NEW s \in array[t]
    PROVE  s \in Slots /\ posting[s] \in Nat /\ posting[s] > 0
<1>1. s \in Slots /\ posting[s] \in Nat
  BY DEF TypeOK
<1>2. posting[s] = Cardinality(Referring(s)) /\ t \in Referring(s) /\ IsFiniteSet(Referring(s))
  BY <1>1, FS_Subset, CenterAssumption DEF PostingCounted, Referring, CenterAssumption
<1>3. posting[s] # 0
  BY <1>2, FS_EmptySet
<1>4. QED
  BY <1>1, <1>3

LEMMA InitTable == Init => TableInv
<1> SUFFICES ASSUME Init PROVE TableInv
  OBVIOUS
<1>1. LocksInv
  BY InitLocks
<1>2. TypeOK
  BY <1>1 DEF Init, TypeOK, LocksInv, LockType, NilKey, Keys, NameOrNil
<1>3. ArrayInv
  BY DEF Init, ArrayInv, ArrayOf
<1>4. \A s \in Slots : {t \in Threads : s \in array[t]} = {}
  BY DEF Init
<1>5. Cardinality({}) = 0
  BY FS_EmptySet
<1>6. PostingCounted
  <2>1. \A s \in Slots : posting[s] = 0 /\ receiver[s] = FALSE
    BY DEF Init
  <2>2. QED
    BY <1>4, <1>5, <2>1 DEF PostingCounted
<1>7. FreedWhenDone
  BY DEF Init, FreedWhenDone
<1>8. QED
  BY <1>1, <1>2, <1>3, <1>6, <1>7 DEF TableInv

LEMMA StepType ==
    ASSUME TableInv, LocksInv', [Next]_vars
    PROVE  TypeOK'
<1> USE DEF LocksInv, LockType
<1>1. CASE \E t \in Threads, x \in Observers, k \in Additions : AddObserver(t, x, k)
  BY <1>1 DEF AddObserver, TypeOK, TableInv, table
<1>2. CASE \E t \in Threads, x \in Observers \cup {Nil}, k \in Removals : RemoveObserver(t, x, k)
  BY <1>2 DEF RemoveObserver, TypeOK, TableInv, table
<1>3. CASE \E t \in Threads, p \in Posts : Post(t, p)
  BY <1>3 DEF Post, TypeOK, TableInv, table
<1>4. CASE \E t \in Threads : Lock(t)
  BY <1>4 DEF Lock, TypeOK, TableInv, table
<1>5. CASE \E t \in Threads : Insert(t)
  BY <1>5 DEF Insert, RaiseFlag, TypeOK, TableInv
<1>6. CASE \E t \in Threads : Purge(t)
  BY <1>6 DEF Purge, Discard, TypeOK, TableInv
<1>7. CASE \E t \in Threads : Gather(t)
  BY <1>7 DEF Gather, Discard, Reached, TypeOK, TableInv
<1>8. CASE \E t \in Threads : Look(t)
  BY <1>8 DEF Look, TypeOK, TableInv, table
<1>9. CASE \E t \in Threads : Tell(t) \/ Delivered(t)
  BY <1>9 DEF Tell, Delivered, TypeOK, TableInv, table
<1>10. CASE \E t \in Threads : Clean(t)
  <2>1. PICK t \in Threads : Clean(t)
    BY <1>10
  <2>2. \A s \in array[t] : posting[s] > 0
    BY Counted DEF TableInv
  <2>3. posting' \in [Slots -> Nat]
    <3>1. posting' = [s \in Slots |-> posting[s] - IF s \in array[t] THEN 1 ELSE 0]
      BY <2>1 DEF Clean, CountDown
    <3>2. \A s \in Slots : posting[s] \in Nat
      BY DEF TypeOK, TableInv
    <3>3. QED
      BY <2>2, <3>1, <3>2
  <2>4. QED
    BY <2>1, <2>3 DEF Clean, TypeOK, TableInv
<1>11. CASE \E x \in Observers : Release(x)
  BY <1>11 DEF Release, TypeOK, TableInv, table
<1>12. CASE UNCHANGED vars
  BY <1>12 DEF vars, table, TypeOK, TableInv
<1>13. QED
  BY <1>1, <1>2, <1>3, <1>4, <1>5, <1>6, <1>7, <1>8, <1>9, <1>10, <1>11, <1>12 DEF Next, Step

LEMMA StepArray ==
    ASSUME TableInv, LocksInv', [Next]_vars
    PROVE  ArrayInv'
<1> USE DEF LocksInv, LockType
<1>1. CASE \E t \in Threads, x \in Observers, k \in Additions : AddObserver(t, x, k)
  BY <1>1 DEF AddObserver, Begin, ArrayInv, ArrayOf, Delivering, TypeOK, TableInv, table
<1>2. CASE \E t \in Threads, x \in Observers \cup {Nil}, k \in Removals : RemoveObserver(t, x, k)
  BY <1>2 DEF RemoveObserver, Begin, ArrayInv, ArrayOf, Delivering, TypeOK, TableInv, table
<1>3. CASE \E t \in Threads, p \in Posts : Post(t, p)
  BY <1>3 DEF Post, Begin, ArrayInv, ArrayOf, Delivering, TypeOK, TableInv, table
<1>4. CASE \E t \in Threads : Lock(t)
  BY <1>4 DEF Lock, ArrayInv, ArrayOf, Delivering, TypeOK, TableInv, table
<1>5. CASE \E t \in Threads : Insert(t)
  <2>1. PICK t \in Threads : Insert(t)
    BY <1>5
  <2>2. PICK r \in free : key' = [key EXCEPT ![r] = call[t].key]
    BY <2>1 DEF Insert
  <2>3. \A u \in Threads : r \notin array[u]
    BY <2>2, Counted DEF TableInv, FreedWhenDone
  <2>4. \A u \in Threads : \A s \in array[u] : key'[s] = key[s]
    BY <2>2, <2>3 DEF TypeOK, TableInv
  <2>5. array[t] = {} /\ UNCHANGED <<array, todo>>
    BY <2>1 DEF Insert, ArrayInv, ArrayOf, Delivering, TableInv
  <2>6. \A u \in Threads : u # t => pc'[u] = pc[u] /\ call'[u] = call[u] /\ need'[u] = need[u]
    BY <2>1 DEF Insert, Return, TypeOK, TableInv
  <2>7. QED
    BY <2>4, <2>5, <2>6 DEF ArrayInv, ArrayOf, Delivering, Concerns, TableInv
<1>6. CASE \E t \in Threads : Purge(t)
  BY <1>6 DEF Purge, Return, ArrayInv, ArrayOf, Delivering, TypeOK, TableInv
<1>7. CASE \E t \in Threads : Gather(t)
  <2>1. PICK t \in Threads : Gather(t)
    BY <1>7
  <2> DEFINE found == {s \in Reached(t) : Alive(observer[s])}
  <2>2. /\ array' = [array EXCEPT ![t] = found] /\ todo' = [todo EXCEPT ![t] = found]
        /\ key' = key
    BY <2>1 DEF Gather
  <2>3. \/ found = {} /\ pc'[t] = "idle"
        \/ pc'[t] = "deliver" /\ call'[t] = call[t] /\ need'[t] = need[t]
    BY <2>1 DEF Gather, Return, TypeOK, TableInv
  <2>4. \A s \in found : /\ Concerns(key[s], call[t].key)
                         /\ key[s][1] = Nil => Global \in need[t]
    BY DEF Reached
  <2>5. \A u \in Threads : u # t => pc'[u] = pc[u] /\ call'[u] = call[u] /\ need'[u] = need[u]
    BY <2>1 DEF Gather, Return, TypeOK, TableInv
  <2> HIDE DEF found
  <2>6. \A u \in Threads : u # t => array'[u] = array[u] /\ todo'[u] = todo[u]
    BY <2>2 DEF TypeOK, TableInv
  <2>7. array'[t] = found /\ todo'[t] = found
    BY <2>2 DEF TypeOK, TableInv
  <2>8. ArrayOf(t)'
    <3>1. CASE found = {} /\ pc'[t] = "idle"
      BY <2>7, <3>1 DEF ArrayOf
    <3>2. CASE pc'[t] = "deliver" /\ call'[t] = call[t] /\ need'[t] = need[t]
      <4>1. ASSUME NEW s \in array'[t]
            PROVE  Concerns(key'[s], call'[t].key) /\ (key'[s][1] = Nil => Global \in need'[t])
        <5>1. key'[s] = key[s] /\ s \in found
          BY <2>2, <2>7
        <5>2. Concerns(key[s], call[t].key) /\ (key[s][1] = Nil => Global \in need[t])
          BY <2>4, <5>1
        <5>3. QED
          BY <3>2, <5>1, <5>2
      <4>2. QED
        BY <2>7, <3>2, <4>1 DEF ArrayOf, Delivering
    <3>3. QED
      BY <2>3, <3>1, <3>2
  <2>9. ASSUME NEW u \in Threads, u # t PROVE ArrayOf(u)'
    <3>1. ArrayOf(u)
      BY DEF ArrayInv, TableInv
    <3>2. QED
      BY <2>2, <2>5, <2>6, <2>9, <3>1 DEF ArrayOf, Delivering
  <2>10. QED
    BY <2>8, <2>9 DEF ArrayInv
<1>8. CASE \E t \in Threads : Look(t)
  BY <1>8 DEF Look, ArrayInv, ArrayOf, Delivering, TypeOK, TableInv, table
<1>9. CASE \E t \in Threads : Tell(t) \/ Delivered(t)
  BY <1>9 DEF Tell, Delivered, ArrayInv, ArrayOf, Delivering, TypeOK, TableInv, table
<1>10. CASE \E t \in Threads : Clean(t)
  <2>1. PICK t \in Threads : Clean(t)
    BY <1>10
  <2>2. UNCHANGED <<key, todo>> /\ array' = [array EXCEPT ![t] = {}] /\ Return(t)
    BY <2>1 DEF Clean
  <2>3. todo[t] = {}
    BY <2>1 DEF Clean, ArrayInv, ArrayOf, TableInv
  <2>4. array'[t] = {} /\ pc'[t] = "idle"
    BY <2>2 DEF Return, TypeOK, TableInv
  <2>5. \A u \in Threads : u # t => /\ pc'[u] = pc[u] /\ call'[u] = call[u] /\ need'[u] = need[u]
                                  /\ array'[u] = array[u]
    BY <2>2 DEF Return, TypeOK, TableInv
  <2>6. QED
    BY <2>2, <2>3, <2>4, <2>5 DEF ArrayInv, ArrayOf, Delivering, Concerns, TableInv
<1>11. CASE \E x \in Observers : Release(x)
  BY <1>11 DEF Release, ArrayInv, ArrayOf, Delivering, TypeOK, TableInv, table
<1>12. CASE UNCHANGED vars
  BY <1>12 DEF vars, table, ArrayInv, ArrayOf, Delivering, TypeOK, TableInv
<1>13. QED
  BY <1>1, <1>2, <1>3, <1>4, <1>5, <1>6, <1>7, <1>8, <1>9, <1>10, <1>11, <1>12 DEF Next, Step

\* Most steps leave the counts and the memory alone.
LEMMA SameCounts ==
    ASSUME TableInv, UNCHANGED <<linked, free, posting, receiver, array>>
    PROVE  PostingCounted' /\ FreedWhenDone'
BY DEF TableInv, PostingCounted, FreedWhenDone

LEMMA GatherCounts ==
    ASSUME TableInv, NEW t \in Threads, Gather(t)
    PROVE  PostingCounted' /\ FreedWhenDone'
<1> DEFINE found == {s \in Reached(t) : Alive(observer[s])}
           gone == Reached(t) \ found
<1>1. /\ linked' = linked \ gone
      /\ free' = free \cup {s \in gone : posting[s] = 0}
      /\ posting' = [s \in Slots |-> posting[s] + IF s \in found THEN 1 ELSE 0]
      /\ receiver' = [s \in Slots |-> receiver[s] \/ s \in found]
      /\ array' = [array EXCEPT ![t] = found]
  BY DEF Gather, Discard
<1>2. found \subseteq linked /\ gone \subseteq linked /\ found \cap gone = {} /\ linked \subseteq Slots
  BY DEF Reached, TableInv, TypeOK
<1>3. array[t] = {}
  BY DEF Gather, TableInv, ArrayInv, ArrayOf, Delivering
<1> HIDE DEF found, gone
<1>4. ASSUME NEW s \in Slots
      PROVE  /\ posting'[s] = Cardinality({u \in Threads : s \in array'[u]})
             /\ receiver'[s] <=> posting'[s] > 0
  <2>1. posting[s] = Cardinality(Referring(s)) /\ posting[s] \in Nat
    BY DEF TableInv, TypeOK, PostingCounted, Referring
  <2>2. IsFiniteSet(Referring(s))
    BY FS_Subset, CenterAssumption DEF Referring
  <2>3. \A u \in Threads : array'[u] = IF u = t THEN found ELSE array[u]
    BY <1>1 DEF TableInv, TypeOK
  <2>4. CASE s \in found
    <3>1. t \notin Referring(s)
      BY <1>3 DEF Referring
    <3>2. {u \in Threads : s \in array'[u]} = Referring(s) \cup {t}
      BY <2>3, <2>4 DEF Referring
    <3>3. Cardinality(Referring(s) \cup {t}) = posting[s] + 1
      BY <2>1, <2>2, <3>1, FS_AddElement
    <3>4. posting'[s] = posting[s] + 1
      BY <1>1, <2>4
    <3>5. receiver'[s]
      BY <1>1, <2>4
    <3>6. posting'[s] > 0
      BY <2>1, <3>4
    <3>7. QED
      BY <3>2, <3>3, <3>4, <3>5, <3>6
  <2>5. CASE s \notin found
    <3>1. {u \in Threads : s \in array'[u]} = Referring(s)
      BY <1>3, <2>3, <2>5 DEF Referring
    <3>2. posting'[s] = posting[s]
      BY <1>1, <2>1, <2>5
    <3>3. receiver'[s] <=> receiver[s]
      BY <1>1, <2>5 DEF TableInv, TypeOK
    <3>4. receiver[s] <=> posting[s] > 0
      BY DEF TableInv, PostingCounted
    <3>5. QED
      BY <2>1, <3>1, <3>2, <3>3, <3>4
  <2>6. QED
    BY <2>4, <2>5
<1>5. FreedWhenDone'
  <2>1. ASSUME NEW s \in Slots
        PROVE  s \in free' <=> (s \notin linked' /\ posting'[s] = 0)
    <3>1. s \in free <=> (s \notin linked /\ posting[s] = 0)
      BY DEF TableInv, FreedWhenDone
    <3>2. posting'[s] = IF s \in found THEN posting[s] + 1 ELSE posting[s]
      BY <1>1 DEF TableInv, TypeOK
    <3>3. posting[s] \in Nat
      BY DEF TableInv, TypeOK
    <3>4. QED
      BY <1>1, <1>2, <3>1, <3>2, <3>3
  <2>2. QED
    BY <2>1 DEF FreedWhenDone
<1>6. QED
  BY <1>4, <1>5 DEF PostingCounted

LEMMA CleanCounts ==
    ASSUME TableInv, NEW t \in Threads, Clean(t)
    PROVE  PostingCounted' /\ FreedWhenDone'
<1> DEFINE last == {s \in array[t] : posting[s] = 1}
<1>1. /\ linked' = linked
      /\ free' = free \cup (last \ linked)
      /\ posting' = [s \in Slots |-> posting[s] - IF s \in array[t] THEN 1 ELSE 0]
      /\ receiver' = [s \in Slots |-> receiver[s] /\ s \notin last]
      /\ array' = [array EXCEPT ![t] = {}]
  BY DEF Clean, CountDown
<1>2. \A s \in array[t] : posting[s] > 0
  BY Counted DEF TableInv
<1>3. ASSUME NEW s \in Slots
      PROVE  /\ posting'[s] = Cardinality({u \in Threads : s \in array'[u]})
             /\ receiver'[s] <=> posting'[s] > 0
             /\ s \in free' <=> (s \notin linked' /\ posting'[s] = 0)
  <2>1. posting[s] = Cardinality(Referring(s)) /\ posting[s] \in Nat
    BY DEF TableInv, TypeOK, PostingCounted, Referring
  <2>2. IsFiniteSet(Referring(s))
    BY FS_Subset, CenterAssumption DEF Referring
  <2>3. \A u \in Threads : array'[u] = IF u = t THEN {} ELSE array[u]
    BY <1>1 DEF TableInv, TypeOK
  <2>4. receiver[s] \in BOOLEAN /\ (receiver[s] <=> posting[s] > 0)
    BY DEF TableInv, TypeOK, PostingCounted
  <2>5. s \in free <=> (s \notin linked /\ posting[s] = 0)
    BY DEF TableInv, FreedWhenDone
  <2>6. posting'[s] = IF s \in array[t] THEN posting[s] - 1 ELSE posting[s]
    BY <1>1, <2>1
  <2>7. receiver'[s] <=> (receiver[s] /\ ~(s \in array[t] /\ posting[s] = 1))
    BY <1>1, <2>4
  <2>8. s \in free' <=> (s \in free \/ (s \in array[t] /\ posting[s] = 1 /\ s \notin linked))
    BY <1>1
  <2>9. receiver'[s] <=> posting'[s] > 0
    BY <1>2, <2>1, <2>4, <2>6, <2>7
  <2>10. s \in free' <=> (s \notin linked' /\ posting'[s] = 0)
    BY <1>1, <1>2, <2>1, <2>5, <2>6, <2>8
  <2>11. CASE s \in array[t]
    <3>1. t \in Referring(s)
      BY <2>11 DEF Referring
    <3>2. {u \in Threads : s \in array'[u]} = Referring(s) \ {t}
      BY <2>3 DEF Referring
    <3>3. Cardinality(Referring(s) \ {t}) = posting[s] - 1
      BY <2>1, <2>2, <3>1, FS_RemoveElement
    <3>4. QED
      BY <2>6, <2>9, <2>10, <2>11, <3>2, <3>3
  <2>12. CASE s \notin array[t]
    <3>1. {u \in Threads : s \in array'[u]} = Referring(s)
      BY <2>3, <2>12 DEF Referring
    <3>2. QED
      BY <2>1, <2>6, <2>9, <2>10, <2>12, <3>1
  <2>13. QED
    BY <2>11, <2>12
<1>4. QED
  BY <1>3 DEF PostingCounted, FreedWhenDone

LEMMA StepCounts ==
    ASSUME TableInv, [Next]_vars
    PROVE  PostingCounted' /\ FreedWhenDone'
<1>1. CASE \E t \in Threads : Gather(t)
  BY <1>1, GatherCounts
<1>2. CASE \E t \in Threads : Clean(t)
  BY <1>2, CleanCounts
<1>3. CASE \E t \in Threads : Insert(t)
  <2>1. PICK t \in Threads : Insert(t)
    BY <1>3
  <2>2. PICK r \in free : free' = free \ {r} /\ linked' = linked \cup {r}
    BY <2>1 DEF Insert
  <2>3. UNCHANGED <<posting, receiver, array>>
    BY <2>1 DEF Insert
  <2>4. QED
    BY <2>2, <2>3 DEF TableInv, PostingCounted, FreedWhenDone
<1>4. CASE \E t \in Threads : Purge(t)
  <2>1. PICK t \in Threads : Purge(t)
    BY <1>4
  <2>2. UNCHANGED <<posting, receiver, array>>
    BY <2>1 DEF Purge
  <2>3. PICK gone \in SUBSET linked : Discard(gone)
    BY <2>1 DEF Purge
  <2>4. QED
    BY <2>2, <2>3 DEF Discard, TableInv, PostingCounted, FreedWhenDone
<1>5. CASE \E t \in Threads :
              \/ \E x \in Observers, k \in Additions : AddObserver(t, x, k)
              \/ \E x \in Observers \cup {Nil}, k \in Removals : RemoveObserver(t, x, k)
              \/ \E p \in Posts : Post(t, p)
              \/ Lock(t) \/ Look(t) \/ Tell(t) \/ Delivered(t)
  BY <1>5, SameCounts DEF AddObserver, RemoveObserver, Post, Lock, Look, Tell, Delivered, table
<1>6. CASE (\E x \in Observers : Release(x)) \/ UNCHANGED vars
  BY <1>6, SameCounts DEF Release, vars, table
<1>7. QED
  BY <1>1, <1>2, <1>3, <1>4, <1>5, <1>6 DEF Next, Step

-----------------------------------------------------------------------------
(* The locks exclude all who touch the same list. *)

LockOf(k) == IF k[1] = Nil THEN Global ELSE StripeOf[k[1]]

\* Whoever touches a list holds its lock.
LEMMA TouchedIsLocked ==
    ASSUME TableInv, NEW t \in Threads, NEW k \in Touches(t)
    PROVE  LockOf(k) \in Locks /\ owner[LockOf(k)] = t
<1>1. need[t] \subseteq Held(t) /\ pc[t] \in Sections
  BY DEF Touches, Inside
<1>2. \A l \in need[t] : l \in Locks /\ owner[l] = t
  BY <1>1 DEF Held
<1>3. CASE pc[t] \in {"add", "remove"}
  <2>1. need[t] = Locks
    BY <1>3 DEF TableInv, LocksInv
  <2>2. k \in Keys
    BY <1>3 DEF Touches
  <2>3. LockOf(k) \in Locks
    BY <2>2, CenterAssumption DEF LockOf, Keys, NameOrNil, Locks, Global
  <2>4. QED
    BY <1>2, <2>1, <2>3
<1>4. CASE pc[t] \in {"gather", "clean"}
  <2>1. PostLocks(t)
    BY <1>4 DEF TableInv, LocksInv, Posting
  <2>2. Concerns(k, call[t].key) /\ (k[1] = Nil => Global \in need[t])
    BY <1>4 DEF Touches, TableInv, ArrayInv, ArrayOf
  <2>3. LockOf(k) \in need[t]
    BY <2>1, <2>2 DEF LockOf, PostLocks, Concerns
  <2>4. QED
    BY <1>2, <2>3
<1>5. QED
  BY <1>1, <1>3, <1>4 DEF Sections

LEMMA LockedApart == TableInv => RaceFree
<1> SUFFICES ASSUME TableInv, NEW t \in Threads, NEW u \in Threads, t # u,
                    NEW k \in Touches(t) \cap Touches(u)
             PROVE  FALSE
  BY DEF RaceFree
<1>1. owner[LockOf(k)] = t /\ owner[LockOf(k)] = u
  BY TouchedIsLocked
<1>2. QED
  BY <1>1

LEMMA TableAlways == Spec => []TableInv
<1>1. ASSUME TableInv, [Next]_vars PROVE TableInv'
  <2>1. LocksInv'
    BY <1>1, StepLocks DEF TableInv
  <2>2. QED
    BY <1>1, <2>1, StepType, StepArray, StepCounts DEF TableInv
<1>2. QED
  BY InitTable, <1>1, PTL DEF Spec

(***************************************************************************)
(* The two sections of a post, and those of whoever adds or removes, never *)
(* touch the same list at a time: the stripe of the name, and the global   *)
(* lock if it was taken the first time, are enough for obsDone() as well.  *)
(***************************************************************************)
THEOREM ListsAreLocked == Spec => []RaceFree
BY TableAlways, LockedApart, PTL

(***************************************************************************)
(* The count that addPost() and obsDone() keep is the number of posts that *)
(* refer to the observation, and the observer is retained as long.         *)
(***************************************************************************)
THEOREM PostsAreCounted == Spec => []PostingCounted
<1>1. TableInv => PostingCounted
  BY DEF TableInv
<1>2. QED
  BY TableAlways, <1>1, PTL

(***************************************************************************)
(* obsFree() gives the memory of an observation back exactly when it is in *)
(* no list and no post refers to it.                                       *)
(***************************************************************************)
THEOREM MemoryIsGivenBack == Spec => []FreedWhenDone
<1>1. TableInv => FreedWhenDone
  BY DEF TableInv
<1>2. QED
  BY TableAlways, <1>1, PTL

\* Variables keep their types.
THEOREM Typed == Spec => []TypeOK
<1>1. TableInv => TypeOK
  BY DEF TableInv
<1>2. QED
  BY TableAlways, <1>1, PTL

-----------------------------------------------------------------------------
(* Whoever stays registered is told. *)

FlagInv == \A s \in linked : key[s][1] = Nil => anyNameless

\* Where those who must still be told are.
DueOf(t) ==
    /\ due[t] \subseteq linked
    /\ pc[t] = "gather" => due[t] \subseteq Reached(t)
    /\ pc[t] = "deliver" => due[t] \subseteq todo[t]
    /\ pc[t] = "tell" => due[t] \subseteq todo[t] \cup {target[t]}
    /\ pc[t] \notin {"gather", "deliver", "tell"} => due[t] = {}

DueInv == \A t \in Threads : DueOf(t)

ToldInv == FlagInv /\ DueInv

LEMMA InitTold == Init => ToldInv
BY DEF Init, ToldInv, FlagInv, DueInv, DueOf

LEMMA StepFlag ==
    ASSUME TypeOK, FlagInv, [Next]_vars
    PROVE  FlagInv'
<1>1. CASE \E t \in Threads : Insert(t)
  <2>1. PICK t \in Threads : Insert(t)
    BY <1>1
  <2>2. PICK r \in Slots : linked' = linked \cup {r} /\ key' = [key EXCEPT ![r] = call[t].key]
    BY <2>1 DEF Insert, TypeOK
  <2>3. anyNameless' = (anyNameless \/ call[t].key[1] = Nil)
    BY <2>1 DEF Insert, RaiseFlag
  <2>4. ASSUME NEW s \in linked', key'[s][1] = Nil
        PROVE  anyNameless'
    BY <2>2, <2>3, <2>4 DEF FlagInv, TypeOK
  <2>5. QED
    BY <2>4 DEF FlagInv
<1>2. CASE \E t \in Threads : Purge(t) \/ Gather(t)
  BY <1>2 DEF Purge, Gather, Discard, FlagInv
<1>3. CASE \/ \E t \in Threads :
                 \/ \E x \in Observers, k \in Additions : AddObserver(t, x, k)
                 \/ \E x \in Observers \cup {Nil}, k \in Removals : RemoveObserver(t, x, k)
                 \/ \E p \in Posts : Post(t, p)
                 \/ Lock(t) \/ Look(t) \/ Tell(t) \/ Delivered(t) \/ Clean(t)
           \/ \E x \in Observers : Release(x)
           \/ UNCHANGED vars
  <2>1. UNCHANGED <<linked, key, anyNameless>>
    BY <1>3 DEF AddObserver, RemoveObserver, Post, Lock, Look, Tell, Delivered, Clean, Release,
                vars, table
  <2>2. QED
    BY <2>1 DEF FlagInv
<1>4. QED
  BY <1>1, <1>2, <1>3 DEF Next, Step

\* Other threads may add observations, and remove them.
LEMMA OthersDue ==
    ASSUME TypeOK, NEW u \in Threads, DueOf(u),
           pc'[u] = pc[u], call'[u] = call[u], need'[u] = need[u],
           todo'[u] = todo[u], target'[u] = target[u],
           due'[u] \subseteq due[u] \cap linked',
           \A s \in linked : key'[s] = key[s]
    PROVE  DueOf(u)'
BY DEF DueOf, Reached

LEMMA StepDue ==
    ASSUME TableInv, ToldInv, [Next]_vars
    PROVE  DueInv'
<1>0. TypeOK /\ \A u \in Threads : DueOf(u)
  BY DEF TableInv, ToldInv, DueInv
<1> USE DEF TypeOK
<1>1. CASE \E t \in Threads, x \in Observers, k \in Additions : AddObserver(t, x, k)
  BY <1>0, <1>1 DEF AddObserver, Begin, DueInv, DueOf, Reached, table
<1>2. CASE \E t \in Threads, x \in Observers \cup {Nil}, k \in Removals : RemoveObserver(t, x, k)
  BY <1>0, <1>2 DEF RemoveObserver, Begin, DueInv, DueOf, Reached, table
<1>3. CASE \E t \in Threads, p \in Posts : Post(t, p)
  <2>1. PICK t \in Threads, p \in Posts : Post(t, p)
    BY <1>3
  <2>2. /\ due'[t] = {s \in linked : Concerns(key[s], p)}
        /\ pc'[t] = "gather" /\ call'[t].key = p
        /\ anyNameless => Global \in need'[t]
        /\ UNCHANGED <<linked, key, todo, target>>
    BY <1>0, <2>1 DEF Post, Begin, table
  <2>3. \A s \in due'[t] : key[s][1] # Nil \/ Global \in need'[t]
    BY <2>2 DEF ToldInv, FlagInv
  <2>4. DueOf(t)'
    BY <2>2, <2>3 DEF DueOf, Reached
  <2>5. ASSUME NEW u \in Threads, u # t PROVE DueOf(u)'
    <3>1. /\ pc'[u] = pc[u] /\ call'[u] = call[u] /\ need'[u] = need[u]
          /\ due'[u] = due[u]
      BY <1>0, <2>1, <2>5 DEF Post, Begin
    <3>2. due[u] \subseteq linked
      BY <1>0 DEF DueOf
    <3>3. QED
      BY <1>0, <2>2, <3>1, <3>2, OthersDue
  <2>6. QED
    BY <2>4, <2>5 DEF DueInv, DueOf
<1>4. CASE \E t \in Threads : Lock(t)
  BY <1>0, <1>4 DEF Lock, DueInv, DueOf, Reached, table
<1>5. CASE \E t \in Threads : Insert(t)
  <2>1. PICK t \in Threads : Insert(t)
    BY <1>5
  <2>2. PICK r \in free : linked' = linked \cup {r} /\ key' = [key EXCEPT ![r] = call[t].key]
    BY <2>1 DEF Insert
  <2>3. r \notin linked
    BY <2>2 DEF TableInv, FreedWhenDone
  <2>4. \A s \in linked : key'[s] = key[s]
    BY <1>0, <2>2, <2>3
  <2>5. due[t] = {} /\ pc'[t] = "idle" /\ UNCHANGED <<due, todo, target>>
    BY <1>0, <2>1 DEF Insert, Return, DueOf
  <2>6. DueOf(t)'
    BY <2>5 DEF DueOf
  <2>7. ASSUME NEW u \in Threads, u # t PROVE DueOf(u)'
    <3>1. /\ pc'[u] = pc[u] /\ call'[u] = call[u] /\ need'[u] = need[u]
      BY <1>0, <2>1, <2>7 DEF Insert, Return
    <3>2. due[u] \subseteq linked
      BY <1>0 DEF DueOf
    <3>3. QED
      BY <1>0, <2>2, <2>4, <2>5, <3>1, <3>2, OthersDue
  <2>8. QED
    BY <2>6, <2>7 DEF DueInv, DueOf
<1>6. CASE \E t \in Threads : Purge(t)
  <2>1. PICK t \in Threads : Purge(t)
    BY <1>6
  <2>2. PICK gone \in SUBSET linked : Discard(gone)
    BY <2>1 DEF Purge
  <2>3. /\ linked' = linked \ gone /\ UNCHANGED <<key, todo, target>>
        /\ \A u \in Threads : due'[u] = due[u] \ gone
    BY <1>0, <2>1, <2>2 DEF Purge, Discard
  <2>4. due[t] = {} /\ pc'[t] = "idle"
    BY <1>0, <2>1 DEF Purge, Return, DueOf
  <2>5. DueOf(t)'
    BY <2>3, <2>4 DEF DueOf
  <2>6. ASSUME NEW u \in Threads, u # t PROVE DueOf(u)'
    <3>1. /\ pc'[u] = pc[u] /\ call'[u] = call[u] /\ need'[u] = need[u]
      BY <1>0, <2>1, <2>6 DEF Purge, Return
    <3>2. due[u] \subseteq linked
      BY <1>0 DEF DueOf
    <3>3. QED
      BY <1>0, <2>3, <3>1, <3>2, OthersDue
  <2>7. QED
    BY <2>5, <2>6 DEF DueInv, DueOf
<1>7. CASE \E t \in Threads : Gather(t)
  <2>1. PICK t \in Threads : Gather(t)
    BY <1>7
  <2> DEFINE found == {s \in Reached(t) : Alive(observer[s])}
             gone == Reached(t) \ found
  <2>2. /\ linked' = linked \ gone /\ UNCHANGED <<key, target>>
        /\ todo' = [todo EXCEPT ![t] = found]
        /\ \A u \in Threads : due'[u] = due[u] \ gone
    BY <1>0, <2>1 DEF Gather, Discard
  <2>3. due[t] \subseteq Reached(t) /\ due[t] \subseteq linked
    BY <1>0, <2>1 DEF Gather, DueOf
  <2>4. found \subseteq linked \ gone /\ due[t] \ gone \subseteq found
    BY <2>3 DEF Reached
  <2>5. \/ found = {} /\ pc'[t] = "idle"
        \/ pc'[t] = "deliver"
    BY <1>0, <2>1 DEF Gather, Return
  <2>6. \A u \in Threads : u # t => /\ pc'[u] = pc[u] /\ call'[u] = call[u] /\ need'[u] = need[u]
                                  /\ todo'[u] = todo[u]
    BY <1>0, <2>1 DEF Gather, Return
  <2> HIDE DEF found, gone
  <2>7. DueOf(t)'
    <3>1. todo'[t] = found /\ due'[t] = due[t] \ gone
      BY <1>0, <2>2
    <3>2. due'[t] \subseteq todo'[t] /\ due'[t] \subseteq linked'
      BY <2>2, <2>4, <3>1
    <3>3. found = {} => due'[t] = {}
      BY <3>1, <3>2
    <3>4. QED
      BY <2>5, <3>2, <3>3 DEF DueOf
  <2>8. ASSUME NEW u \in Threads, u # t PROVE DueOf(u)'
    <3>1. due[u] \subseteq linked
      BY <1>0 DEF DueOf
    <3>2. QED
      BY <1>0, <2>2, <2>6, <2>8, <3>1, OthersDue
  <2>9. QED
    BY <2>7, <2>8 DEF DueInv, DueOf
<1>8. CASE \E t \in Threads : Look(t)
  BY <1>0, <1>8 DEF Look, DueInv, DueOf, Reached, table
<1>9. CASE \E t \in Threads : Tell(t)
  BY <1>0, <1>9 DEF Tell, DueInv, DueOf, Reached, table
<1>10. CASE \E t \in Threads : Delivered(t)
  BY <1>0, <1>10 DEF Delivered, DueInv, DueOf, Reached, table
<1>11. CASE \E t \in Threads : Clean(t)
  BY <1>0, <1>11 DEF Clean, Return, DueInv, DueOf, Reached
<1>12. CASE (\E x \in Observers : Release(x)) \/ UNCHANGED vars
  BY <1>0, <1>12 DEF Release, vars, DueInv, DueOf, Reached, table
<1>13. QED
  BY <1>1, <1>2, <1>3, <1>4, <1>5, <1>6, <1>7, <1>8, <1>9, <1>10, <1>11, <1>12 DEF Next, Step

(***************************************************************************)
(* A post that sees no observation without a name does not look for any,   *)
(* and gathers under locks it then drops: still it has told all who were   *)
(* registered when it began and stayed.                                    *)
(***************************************************************************)
THEOREM StayingIsBeingTold == Spec => []EveryoneTold
<1>1. ASSUME TableInv, ToldInv, [Next]_vars PROVE ToldInv'
  <2>1. TypeOK /\ FlagInv
    BY <1>1 DEF TableInv, ToldInv
  <2>2. FlagInv'
    BY <1>1, <2>1, StepFlag
  <2>3. DueInv'
    BY <1>1, StepDue
  <2>4. QED
    BY <2>2, <2>3 DEF ToldInv
<1>2. ToldInv => EveryoneTold
  BY DEF ToldInv, DueInv, DueOf, EveryoneTold
<1>3. QED
  BY InitTold, <1>1, <1>2, TableAlways, PTL DEF Spec
=============================================================================
