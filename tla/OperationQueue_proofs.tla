----------------------- MODULE OperationQueue_proofs -----------------------
(***************************************************************************)
(* The queues keep their accounts for every set of operations, clients and *)
(* threads, every priority and every sequence of limits, and they          *)
(* implement BoundedExecutor: a queue with worker threads, and a queue     *)
(* that hands its operations to another engine, which loses none of them   *)
(* and hands none over twice.                                              *)
(***************************************************************************)
EXTENDS WorkerPool, HandoffPool, Lists_proofs

-----------------------------------------------------------------------------
(***************************************************************************)
(* QueueCore: the place and the order of the operations that wait.         *)
(***************************************************************************)
\* In an ordered list the search ends where nothing before is to go behind o.
LEMMA SearchFinds ==
    ASSUME NEW s \in Seq(Ops), NEW o \in Ops, InPriorityOrder(s)
    PROVE  /\ Search(s, o) \in 0..Len(s)
           /\ \A i \in 1..Search(s, o) : Priority[s[i]] >= Priority[o]
<1> DEFINE n == Len(s)
           lefts == {i \in 0..n - 1 : GoesBefore(o, s[i + 1])}
           rights == {i \in 0..n - 1 : GoesAfter(o, s[i + 1])}
           k == BinarySearch(n, lefts, rights)
<1>0. /\ n \in Nat /\ DOMAIN s = 1..n
      /\ \A i \in 1..n : Priority[s[i]] \in Int
      /\ Priority[o] \in Int
  BY LenProperties, ElementOfSeq, CoreAssumption
<1>1. \A i, j \in 0..(n - 1) : i <= j => Priority[s[i + 1]] >= Priority[s[j + 1]]
  BY <1>0 DEF InPriorityOrder
<1>2. \A i, j \in 0..(n - 1) :
          i <= j => (i \in lefts => j \in lefts) /\ (j \in rights => i \in rights)
  BY <1>0, <1>1 DEF GoesBefore, GoesAfter
<1>3. /\ k \in 0..n
      /\ \/ k < n /\ k \notin lefts \cup rights
         \/ /\ \A j \in 0..(k - 1) : j \in rights
            /\ \A j \in k..(n - 1) : j \in lefts
  <2> HIDE DEF lefts, rights
  <2>1. QED
    BY <1>0, <1>2, BinarySearchFinds
<1> HIDE DEF k
<1>4. ASSUME NEW i \in 1..k PROVE Priority[s[i]] >= Priority[o]
  <2>1. i - 1 \in 0..(n - 1) /\ (i - 1) + 1 = i /\ i - 1 <= k - 1
    BY <1>0, <1>3
  <2>2. CASE k < n /\ k \notin lefts \cup rights
    <3>1. i - 1 <= k /\ k \in 0..(n - 1)
      BY <1>0, <1>3, <2>1, <2>2
    <3>2. i - 1 \notin lefts
      BY <1>2, <2>1, <2>2, <3>1
    <3>3. QED
      BY <1>0, <2>1, <3>2 DEF GoesBefore
  <2>3. CASE \A j \in 0..(k - 1) : j \in rights
    <3>1. i - 1 \in rights
      BY <1>3, <2>1, <2>3
    <3>2. QED
      BY <1>0, <2>1, <3>1 DEF GoesAfter
  <2>4. QED
    BY <1>3, <2>2, <2>3
<1>5. Search(s, o) = k
  BY DEF Search, k
<1>6. QED
  BY <1>3, <1>4, <1>5

\* Where an operation belongs: after every one of the same or a higher priority, and
\* before every one of a lower priority.
IsInsertionPoint(s, k, o) ==
    /\ \A i \in 1..k : Priority[s[i]] >= Priority[o]
    /\ \A i \in (k + 1)..Len(s) : Priority[s[i]] < Priority[o]

\* The index that -insertionPosition:usingFunction:context: returns for an ordered list
\* of any length is the insertion point, so that equal priorities are served in the
\* order in which they came.
THEOREM InsertionIndexCorrect ==
    ASSUME NEW s \in Seq(Ops), NEW o \in Ops, InPriorityOrder(s)
    PROVE  /\ InsertionIndex(s, o) \in 0..Len(s)
           /\ IsInsertionPoint(s, InsertionIndex(s, o), o)
<1> DEFINE n == Len(s)
           index == Search(s, o)
           Stops(i) == i < n => GoesBefore(o, s[i + 1])
           Skipped(i) == \A j \in index + 1..i : ~GoesBefore(o, s[j])
           T == {i \in index..n : Stops(i)}
<1>0. /\ n \in Nat /\ DOMAIN s = 1..n
      /\ \A i \in 1..n : Priority[s[i]] \in Int
      /\ Priority[o] \in Int
  BY LenProperties, ElementOfSeq, CoreAssumption
<1>1. index \in 0..n /\ \A i \in 1..index : Priority[s[i]] >= Priority[o]
  BY <1>0, SearchFinds
<1> HIDE DEF index
<1>2. \E i \in index..n : Stops(i) /\ Skipped(i)
  <2>1. T \subseteq Nat /\ n \in T
    BY <1>0, <1>1
  <2>2. PICK i \in T : \A m \in T : i <= m
    <3> HIDE DEF T
    <3>1. QED
      BY <2>1, LeastNumber
  <2>3. \A j \in index + 1..i : ~GoesBefore(o, s[j])
    <3> SUFFICES ASSUME NEW j \in index + 1..i, GoesBefore(o, s[j]) PROVE FALSE
      OBVIOUS
    <3>1. j - 1 \in index..n /\ (j - 1) + 1 = j /\ j - 1 < i
      BY <1>0, <1>1, <2>1
    <3>2. j - 1 \in T
      BY <3>1
    <3>3. i <= j - 1 /\ i \in Nat
      <4> HIDE DEF T
      <4>1. QED
        BY <2>1, <2>2, <3>2
    <3>4. j \in Nat
      BY <1>0, <1>1, <3>3
    <3>5. QED
      BY <3>1, <3>3, <3>4
  <2>4. QED
    BY <2>2, <2>3
<1>3. InsertionIndex(s, o) = CHOOSE i \in index..n : Stops(i) /\ Skipped(i)
  BY DEF InsertionIndex, index
<1> DEFINE k == InsertionIndex(s, o)
<1>4. k \in index..n /\ Stops(k) /\ Skipped(k)
  BY <1>2, <1>3
<1> HIDE DEF k
<1>5. k \in 0..n
  BY <1>0, <1>1, <1>4
<1>6. \A i \in 1..k : Priority[s[i]] >= Priority[o]
  <2> SUFFICES ASSUME NEW i \in 1..k PROVE Priority[s[i]] >= Priority[o]
    OBVIOUS
  <2>1. CASE i <= index
    BY <1>1, <2>1
  <2>2. CASE i > index
    <3>1. i \in index + 1..k /\ i \in 1..n
      BY <1>0, <1>1, <1>5, <2>2
    <3>2. ~(Priority[o] > Priority[s[i]])
      BY <1>4, <3>1 DEF GoesBefore
    <3>3. QED
      BY <1>0, <3>1, <3>2
  <2>3. QED
    BY <1>1, <1>5, <2>1, <2>2
<1>7. \A i \in (k + 1)..n : Priority[s[i]] < Priority[o]
  <2> SUFFICES ASSUME NEW i \in (k + 1)..n PROVE Priority[s[i]] < Priority[o]
    OBVIOUS
  <2>1. k + 1 \in 1..n /\ i \in 1..n /\ k < n /\ k + 1 <= i
    BY <1>0, <1>5
  <2>2. Priority[o] > Priority[s[k + 1]]
    BY <1>4, <2>1 DEF GoesBefore
  <2>3. Priority[s[k + 1]] >= Priority[s[i]]
    BY <1>0, <2>1 DEF InPriorityOrder
  <2>4. QED
    BY <1>0, <2>1, <2>2, <2>3
<1>8. QED
  BY <1>5, <1>6, <1>7 DEF IsInsertionPoint, k

\* So a new operation is put where it belongs among those waiting.
LEMMA InsertWaitingPoint ==
    ASSUME NEW o \in Ops, waiting \in Seq(Ops), InPriorityOrder(waiting), InsertWaiting(o)
    PROVE  \E k \in 0..Len(waiting) :
               IsInsertionPoint(waiting, k, o) /\ waiting' = InsertAt(waiting, k + 1, o)
<1>1. /\ InsertionIndex(waiting, o) \in 0..Len(waiting)
      /\ IsInsertionPoint(waiting, InsertionIndex(waiting, o), o)
  BY InsertionIndexCorrect
<1>2. QED
  BY <1>1 DEF InsertWaiting

-----------------------------------------------------------------------------
(* The order of a list into which an operation is inserted. *)

\* Where the elements of a list are when one has been inserted.
LEMMA InsertAtPlaces ==
    ASSUME NEW s \in Seq(Ops), NEW o \in Ops, NEW k \in 0..Len(s)
    PROVE  /\ Len(s) \in Nat /\ k \in Nat /\ k <= Len(s) /\ DOMAIN s = 1..Len(s)
           /\ \A i \in 1..Len(s) : s[i] \in Ops
           /\ DOMAIN InsertAt(s, k + 1, o) = 1..(Len(s) + 1)
           /\ \A i \in 1..(Len(s) + 1) :
                 InsertAt(s, k + 1, o)[i] =
                     IF i <= k THEN s[i] ELSE IF i = k + 1 THEN o ELSE s[i - 1]
<1>1. /\ Len(s) \in Nat /\ k \in Nat /\ k <= Len(s) /\ DOMAIN s = 1..Len(s)
      /\ \A i \in 1..Len(s) : s[i] \in Ops
  BY LenProperties, ElementOfSeq
<1>2. InsertAt(s, k + 1, o) \in Seq(Ops) /\ IsSpliced(InsertAt(s, k + 1, o), s, k, o)
  BY InsertAtElements
<1>3. DOMAIN InsertAt(s, k + 1, o) = 1..(Len(s) + 1)
  BY <1>1, <1>2, LenProperties DEF IsSpliced
<1>4. QED
  BY <1>1, <1>2, <1>3 DEF IsSpliced

\* A list in order of priority stays in order when its first element is taken
\* and when one is inserted where the search puts it.
LEMMA InOrderTail ==
    ASSUME NEW s \in Seq(Ops), s # <<>>, InPriorityOrder(s)
    PROVE  /\ InPriorityOrder(Tail(s))
           /\ \A i \in DOMAIN s : Priority[s[i]] <= Priority[Head(s)]
<1>0. /\ Len(s) \in Nat /\ Len(s) >= 1 /\ DOMAIN s = 1..Len(s)
      /\ \A i \in 1..Len(s) : s[i] \in Ops
  BY LenProperties, EmptySeq, ElementOfSeq
<1>1. /\ Head(s) = s[1]
      /\ DOMAIN Tail(s) = 1..(Len(s) - 1)
      /\ \A i \in 1..(Len(s) - 1) : Tail(s)[i] = s[i + 1]
  <2>1. /\ Tail(s) \in Seq(Ops) /\ Len(Tail(s)) = Len(s) - 1
        /\ \A i \in 1..Len(Tail(s)) : Tail(s)[i] = s[i + 1]
    BY <1>0, HeadTailProperties
  <2>2. QED
    BY <1>0, <2>1, LenProperties
<1>2. \A i \in 1..Len(s) : Priority[s[i]] \in Int
  BY <1>0, CoreAssumption
<1>3. InPriorityOrder(Tail(s))
  BY <1>0, <1>1 DEF InPriorityOrder
<1>4. \A i \in DOMAIN s : Priority[s[i]] <= Priority[Head(s)]
  <2> SUFFICES ASSUME NEW i \in 1..Len(s) PROVE Priority[s[i]] <= Priority[s[1]]
    BY <1>0, <1>1
  <2>1. CASE i = 1
    BY <2>1, <1>2
  <2>2. CASE i > 1
    <3>1. 1 \in 1..Len(s)
      BY <1>0
    <3>2. Priority[s[1]] >= Priority[s[i]]
      BY <2>2, <3>1, <1>0 DEF InPriorityOrder
    <3>3. QED
      BY <3>1, <3>2, <1>2
  <2>3. QED
    BY <2>1, <2>2
<1>5. QED
  BY <1>3, <1>4

LEMMA InOrderInsert ==
    ASSUME NEW s \in Seq(Ops), NEW o \in Ops, NEW k \in 0..Len(s),
           InPriorityOrder(s), IsInsertionPoint(s, k, o)
    PROVE  InPriorityOrder(InsertAt(s, k + 1, o))
<1> DEFINE t == InsertAt(s, k + 1, o)
<1>0. /\ Len(s) \in Nat /\ k \in Nat /\ k <= Len(s) /\ DOMAIN s = 1..Len(s)
      /\ \A i \in 1..Len(s) : s[i] \in Ops
      /\ DOMAIN t = 1..(Len(s) + 1)
      /\ \A i \in 1..(Len(s) + 1) :
            t[i] = IF i <= k THEN s[i] ELSE IF i = k + 1 THEN o ELSE s[i - 1]
  BY InsertAtPlaces
<1> HIDE DEF t
<1>1. Priority[o] \in Int /\ \A i \in 1..Len(s) : Priority[s[i]] \in Int
  BY <1>0, CoreAssumption
<1>2. /\ \A i \in 1..k : Priority[s[i]] >= Priority[o]
      /\ \A i \in (k + 1)..Len(s) : Priority[s[i]] < Priority[o]
      /\ \A i, j \in 1..Len(s) : i < j => Priority[s[i]] >= Priority[s[j]]
  BY <1>0 DEF IsInsertionPoint, InPriorityOrder
<1>3. SUFFICES ASSUME NEW i \in 1..(Len(s) + 1), NEW j \in 1..(Len(s) + 1), i < j
               PROVE Priority[t[i]] >= Priority[t[j]]
  BY <1>0 DEF InPriorityOrder, t
<1>4. CASE j <= k
  BY <1>0, <1>2, <1>3, <1>4
<1>5. CASE j = k + 1
  BY <1>0, <1>2, <1>3, <1>5
<1>6. CASE j > k + 1 /\ i = k + 1
  <2>1. j - 1 \in (k + 1)..Len(s) /\ j - 1 \in 1..Len(s) /\ t[j] = s[j - 1] /\ t[i] = o
    BY <1>0, <1>3, <1>6
  <2>2. QED
    BY <2>1, <1>1, <1>2
<1>7. CASE j > k + 1 /\ i < k + 1
  <2>1. j - 1 \in 1..Len(s) /\ t[j] = s[j - 1] /\ i \in 1..Len(s) /\ t[i] = s[i] /\ i < j - 1
    BY <1>0, <1>3, <1>7
  <2>2. QED
    BY <2>1, <1>2
<1>8. CASE j > k + 1 /\ i > k + 1
  <2>1. /\ j - 1 \in 1..Len(s) /\ t[j] = s[j - 1]
        /\ i - 1 \in 1..Len(s) /\ t[i] = s[i - 1] /\ i - 1 < j - 1
    BY <1>0, <1>3, <1>8
  <2>2. QED
    BY <2>1, <1>2
<1>9. QED
  BY <1>0, <1>3, <1>4, <1>5, <1>6, <1>7, <1>8

\* Taking the first element changes nothing in the order of the others.
LEMMA BeforeTail ==
    ASSUME NEW s \in Seq(Ops), s # <<>>, Distinct(s), NEW o \in ToSet(Tail(s))
    PROVE  Before(Tail(s), o) = Before(s, o) \cap ToSet(Tail(s))
<1> DEFINE t == Tail(s)
<1>0. /\ Len(s) \in Nat /\ Len(s) >= 1 /\ DOMAIN s = 1..Len(s)
      /\ DOMAIN t = 1..(Len(s) - 1)
      /\ \A i \in 1..(Len(s) - 1) : t[i] = s[i + 1]
  <2>1. Len(s) \in Nat /\ Len(s) >= 1 /\ DOMAIN s = 1..Len(s)
    BY LenProperties, EmptySeq
  <2>2. /\ t \in Seq(Ops) /\ Len(t) = Len(s) - 1
        /\ \A i \in 1..Len(t) : t[i] = s[i + 1]
    BY <2>1, HeadTailProperties
  <2>3. QED
    BY <2>1, <2>2, LenProperties
<1> HIDE DEF t
<1>1. Before(t, o) \subseteq Before(s, o) \cap ToSet(t)
  <2> SUFFICES ASSUME NEW p \in Before(t, o) PROVE p \in Before(s, o) /\ p \in ToSet(t)
    OBVIOUS
  <2>1. PICK i \in DOMAIN t, j \in DOMAIN t :
            i < j /\ t[i] = p /\ t[j] = o /\ Priority[p] = Priority[o]
    BY DEF Before
  <2>2. i + 1 \in DOMAIN s /\ j + 1 \in DOMAIN s /\ i + 1 < j + 1
    BY <1>0, <2>1
  <2>3. s[i + 1] = p /\ s[j + 1] = o /\ p \in Ops
    BY <1>0, <2>1 DEF Before
  <2>4. QED
    BY <2>1, <2>2, <2>3 DEF Before, ToSet
<1>2. Before(s, o) \cap ToSet(t) \subseteq Before(t, o)
  <2> SUFFICES ASSUME NEW p \in Before(s, o), p \in ToSet(t) PROVE p \in Before(t, o)
    OBVIOUS
  <2>1. PICK i \in DOMAIN s, j \in DOMAIN s :
            i < j /\ s[i] = p /\ s[j] = o /\ Priority[p] = Priority[o]
    BY DEF Before
  <2>2. PICK m \in DOMAIN t : t[m] = p
    BY DEF ToSet
  <2>3. m + 1 \in DOMAIN s /\ s[m + 1] = p
    BY <1>0, <2>2
  <2>4. i = m + 1
    BY <2>1, <2>3 DEF Distinct
  <2>5. /\ i - 1 \in DOMAIN t /\ j - 1 \in DOMAIN t /\ i - 1 < j - 1
        /\ (i - 1) + 1 = i /\ (j - 1) + 1 = j
    BY <1>0, <2>1, <2>2, <2>4
  <2>6. t[i - 1] = p /\ t[j - 1] = o /\ p \in Ops
    BY <1>0, <2>1, <2>5 DEF Before
  <2>7. QED
    BY <2>1, <2>5, <2>6 DEF Before
<1>3. QED
  BY <1>1, <1>2 DEF t

\* Inserting an operation where the search puts it leaves the order of the
\* others alone and comes after all those of the same priority.
LEMMA BeforeInsert ==
    ASSUME NEW s \in Seq(Ops), NEW q \in Ops, q \notin ToSet(s), NEW k \in 0..Len(s),
           IsInsertionPoint(s, k, q)
    PROVE  LET r == InsertAt(s, k + 1, q)
           IN  /\ \A o \in ToSet(s) : Before(r, o) = Before(s, o) \cap ToSet(r)
               /\ Before(r, q) = {p \in ToSet(s) : Priority[p] = Priority[q]}
<1> DEFINE r == InsertAt(s, k + 1, q)
           place(i) == IF i <= k THEN i ELSE i + 1
<1>0. /\ Len(s) \in Nat /\ k \in Nat /\ k <= Len(s) /\ DOMAIN s = 1..Len(s)
      /\ \A i \in 1..Len(s) : s[i] \in Ops
      /\ DOMAIN r = 1..(Len(s) + 1)
      /\ \A i \in 1..(Len(s) + 1) :
            r[i] = IF i <= k THEN s[i] ELSE IF i = k + 1 THEN q ELSE s[i - 1]
  BY InsertAtPlaces
<1> HIDE DEF r
<1>1. /\ \A i \in 1..k : Priority[s[i]] >= Priority[q]
      /\ \A i \in (k + 1)..Len(s) : Priority[s[i]] < Priority[q]
      /\ Priority[q] \in Int
  BY CoreAssumption DEF IsInsertionPoint
<1>2. \A i \in DOMAIN s : place(i) \in DOMAIN r /\ r[place(i)] = s[i]
  BY <1>0
<1>3. \A i, j \in DOMAIN s : i < j => place(i) < place(j)
  BY <1>0
<1>4. \A i \in DOMAIN r : i # k + 1 => \E m \in DOMAIN s : i = place(m) /\ r[i] = s[m]
  <2> SUFFICES ASSUME NEW i \in DOMAIN r, i # k + 1
               PROVE  \E m \in DOMAIN s : i = place(m) /\ r[i] = s[m]
    OBVIOUS
  <2>1. CASE i <= k
    BY <1>0, <2>1
  <2>2. CASE i > k
    <3>1. i - 1 \in DOMAIN s /\ i = place(i - 1) /\ r[i] = s[i - 1]
      BY <1>0, <2>2
    <3>2. QED
      BY <3>1
  <2>3. QED
    BY <1>0, <2>1, <2>2
<1>5. k + 1 \in DOMAIN r /\ r[k + 1] = q
  BY <1>0
<1>6. \A i, j \in DOMAIN s : place(i) < place(j) => i < j
  BY <1>0
<1>7. \A i \in DOMAIN s : place(i) < k + 1 <=> i <= k
  BY <1>0
<1> HIDE DEF place
<1>8. ToSet(r) = ToSet(s) \cup {q}
  BY <1>2, <1>4, <1>5 DEF ToSet
<1>9. ASSUME NEW o \in ToSet(s)
      PROVE  Before(r, o) \subseteq Before(s, o)
  <2> SUFFICES ASSUME NEW p \in Before(r, o) PROVE p \in Before(s, o)
    OBVIOUS
  <2>1. PICK i \in DOMAIN r, j \in DOMAIN r :
            i < j /\ r[i] = p /\ r[j] = o /\ Priority[p] = Priority[o] /\ p \in Ops
    BY DEF Before
  <2>2. o # q
    BY <1>9
  <2>3. PICK n \in DOMAIN s : j = place(n) /\ o = s[n]
    BY <1>4, <1>5, <2>1, <2>2
  <2>4. i # k + 1
    <3> SUFFICES ASSUME i = k + 1 PROVE FALSE
      OBVIOUS
    <3>1. p = q /\ ~(place(n) < k + 1)
      BY <1>0, <1>5, <2>1, <2>3
    <3>2. n \in (k + 1)..Len(s)
      BY <1>0, <1>7, <3>1
    <3>3. Priority[o] < Priority[q]
      BY <1>1, <2>3, <3>2
    <3>4. QED
      BY <1>1, <2>1, <3>1, <3>3
  <2>5. PICK m \in DOMAIN s : i = place(m) /\ p = s[m]
    BY <1>4, <2>1, <2>4
  <2>6. m < n
    BY <1>6, <2>1, <2>3, <2>5
  <2>7. QED
    BY <2>1, <2>3, <2>5, <2>6 DEF Before
<1>10. ASSUME NEW o \in ToSet(s)
       PROVE  Before(s, o) \subseteq Before(r, o)
  <2> SUFFICES ASSUME NEW p \in Before(s, o) PROVE p \in Before(r, o)
    OBVIOUS
  <2>1. PICK i \in DOMAIN s, j \in DOMAIN s :
            i < j /\ s[i] = p /\ s[j] = o /\ Priority[p] = Priority[o] /\ p \in Ops
    BY DEF Before
  <2>2. QED
    BY <1>2, <1>3, <2>1 DEF Before
<1>11. ASSUME NEW o \in ToSet(s)
       PROVE  Before(r, o) = Before(s, o) \cap ToSet(r)
  <2>1. Before(s, o) \subseteq ToSet(s)
    BY DEF Before, ToSet
  <2>2. QED
    BY <1>8, <1>9, <1>10, <1>11, <2>1
<1>12. Before(r, q) = {p \in ToSet(s) : Priority[p] = Priority[q]}
  <2>1. ASSUME NEW p \in Before(r, q)
        PROVE  p \in ToSet(s) /\ Priority[p] = Priority[q]
    <3>1. PICK i \in DOMAIN r, j \in DOMAIN r :
              i < j /\ r[i] = p /\ r[j] = q /\ Priority[p] = Priority[q]
      BY <2>1 DEF Before
    <3>2. j = k + 1
      BY <1>4, <3>1 DEF ToSet
    <3>3. i # k + 1
      BY <1>0, <3>1, <3>2
    <3>4. QED
      BY <1>4, <3>1, <3>3 DEF ToSet
  <2>2. ASSUME NEW p \in ToSet(s), Priority[p] = Priority[q]
        PROVE  p \in Before(r, q)
    <3>1. PICK i \in DOMAIN s : s[i] = p
      BY <2>2 DEF ToSet
    <3>2. p \in Ops
      BY <1>0, <3>1
    <3>3. ~(i \in (k + 1)..Len(s))
      BY <1>1, <2>2, <3>1
    <3>4. place(i) < k + 1
      BY <1>0, <1>7, <3>3
    <3>5. QED
      BY <1>2, <1>5, <2>2, <3>1, <3>2, <3>4 DEF Before
  <2>3. QED
    BY <2>1, <2>2
<1>13. QED
  BY <1>11, <1>12 DEF r

-----------------------------------------------------------------------------
(* The limit, and the operations that run. *)

\* The limit in force is one of those that can be set.
LEMMA LimitFacts ==
    ASSUME CoreTypeOK
    PROVE  Limit \in Limits /\ Limit \in Int /\ Limits \subseteq Nat
<1>1. maxThreads \in Counts \cup {InitialCount}
  BY DEF CoreTypeOK
<1>2. Limit \in Limits
  BY <1>1 DEF Limit, Limits
<1>3. Limits \subseteq Nat
  BY CoreAssumption DEF Limits, DefaultCount
<1>4. QED
  BY <1>2, <1>3

\* Operations a thread is running, and those it has run and not retired.
Begun == {o \in Ops : \E t \in Threads : pc[t] = "run" /\ cur[t] = o}
Ended == {o \in Ops : \E t \in Threads : pc[t] = "retire" /\ cur[t] = o}

-----------------------------------------------------------------------------
(***************************************************************************)
(* WorkerPool: the accounts, and the refinement.                           *)
(***************************************************************************)
\* What each kind of thread can be doing.  A concurrent operation's thread
\* does something only from the start of the operation on.
ThreadRoles ==
    /\ \A t \in Clients : pc[t] \in {"idle", "enter", "execute"}
    /\ \A t \in Workers : pc[t] \in {"none", "name", "poll", "recheck", "leave",
                                     "run", "retire", "remove", "enter", "execute"}
    /\ \A t \in Concurrent :
          /\ pc[t] \in {"none", "run", "retire", "remove", "enter", "execute"}
          /\ pc[t] \in {"retire", "remove", "enter", "execute"} => t \in finished
          /\ cur[t] \in {None, t}

\* A thread has an operation while it runs and retires it; the operation has
\* finished exactly when it is no longer running.
CurAgrees ==
    \A t \in Threads :
       /\ (cur[t] # None) <=> (pc[t] \in {"run", "retire", "remove"})
       /\ cur[t] # None => /\ cur[t] \in operations
                           /\ cur[t] \notin Waiting \cup Starting
                           /\ cur[t] \in finished <=> pc[t] # "run"

\* The inductive invariant.
Inv ==
    /\ TypeOK
    /\ LockHeldInLoop
    /\ OnePlace
    /\ SlotsCounted
    /\ WorkSignalled
    /\ ThreadsCounted
    /\ WaitingInOrder
    /\ ThreadRoles
    /\ CurAgrees

-----------------------------------------------------------------------------
\* The threads, as the constants' assumptions give them.
LEMMA ThreadFacts ==
    /\ Threads = Clients \cup Workers \cup Concurrent
    /\ Clients \cap Workers = {} /\ Clients \cap Concurrent = {}
    /\ Workers \cap Concurrent = {}
    /\ None \notin Threads /\ None \notin Ops
    /\ Concurrent \subseteq Ops
    /\ IsFiniteSet(Workers)
  BY CoreAssumption, PoolAssumption, FS_Difference DEF Threads, Workers

\* The slots are finitely many.
LEMMA SlotsFinite ==
    ASSUME TypeOK
    PROVE  IsFiniteSet(Starting \cup Running) /\ Cardinality(Starting \cup Running) \in Nat
<1>1. Starting \subseteq Ops
  BY LenProperties, ElementOfSeq DEF TypeOK, Starting, ToSet
<1>2. Running \subseteq Ops
  BY DEF Running
<1>3. QED
  BY <1>1, <1>2, CoreAssumption, FS_Subset, FS_CardinalityType

\* A thread that goes from one place outside an operation to another.
LEMMA RunningUnmoved ==
    ASSUME NEW t \in Threads, NEW next, TypeOK,
           ~Holding(t), next \notin {"run", "retire"},
           cur' = cur, pc' = [pc EXCEPT ![t] = next]
    PROVE  Running' = Running
  BY DEF Running, Holding, TypeOK

LEMMA AddOperationInv ==
    ASSUME Inv, NEW c \in Clients, NEW o \in Ops, AddOperation(c, o),
           UNCHANGED <<starting, cond, threadCount>>
    PROVE  Inv'
<1> USE ThreadFacts
<1>0. c \in Threads /\ c # None /\ c \notin Workers
  OBVIOUS
<1>1. PICK k \in 0..Len(waiting) :
          IsInsertionPoint(waiting, k, o) /\ waiting' = InsertAt(waiting, k + 1, o)
  BY InsertWaitingPoint DEF AddOperation, Inv, TypeOK, CoreTypeOK, WaitingInOrder
<1>2. waiting \in Seq(Ops)
  BY DEF Inv, TypeOK, CoreTypeOK
<1>3. /\ waiting' \in Seq(Ops)
      /\ Waiting' = Waiting \cup {o}
      /\ o \notin Waiting => Distinct(waiting')
  BY <1>1, <1>2, InsertAtElements, InsertAtSet DEF Inv, OnePlace, Waiting
<1>4. Starting' = Starting
  BY DEF Starting
<1>5. Running' = Running
  <2>1. ~Holding(c) /\ cur' = cur /\ pc' = [pc EXCEPT ![c] = "execute"]
    BY DEF AddOperation, Holding
  <2>2. QED
    BY <1>0, <2>1, RunningUnmoved DEF Inv
<1>6. TypeOK'
  BY <1>0, <1>3 DEF Inv, TypeOK, CoreTypeOK, AddOperation
<1>7. LockHeldInLoop'
  BY <1>0 DEF Inv, TypeOK, LockHeldInLoop, AddOperation
<1>8. OnePlace'
  BY <1>3, <1>4, <1>5 DEF Inv, OnePlace, AddOperation
<1>9. SlotsCounted'
  BY <1>4, <1>5 DEF Inv, SlotsCounted, AddOperation
<1>10. WorkSignalled' /\ ThreadsCounted'
  BY <1>0 DEF Inv, TypeOK, WorkSignalled, ThreadsCounted, LiveWorkers, AddOperation
<1>11. WaitingInOrder'
  BY <1>1, <1>2, InOrderInsert DEF Inv, WaitingInOrder
<1>12. ThreadRoles'
  BY <1>0 DEF Inv, TypeOK, ThreadRoles, AddOperation
<1>13. CurAgrees'
  BY <1>0, <1>3, <1>4 DEF Inv, TypeOK, CurAgrees, AddOperation
<1>14. QED
  BY <1>6, <1>7, <1>8, <1>9, <1>10, <1>11, <1>12, <1>13 DEF Inv

\* A step that moves one thread from one place outside an operation to another
\* and touches no operation.
LEMMA QuietStep ==
    ASSUME Inv, NEW t \in Threads, NEW next,
           pc' = [pc EXCEPT ![t] = next],
           pc[t] \notin {"run", "retire", "remove"},
           next \notin {"run", "retire", "remove"},
           UNCHANGED <<operations, waiting, executing, finished, cur, starting, cond>>,
           TypeOK', LockHeldInLoop', ThreadsCounted', ThreadRoles'
    PROVE  Inv'
<1>1. Running' = Running
  BY RunningUnmoved DEF Inv, Holding
<1>2. Waiting' = Waiting /\ Starting' = Starting
  BY DEF Waiting, Starting
<1>3. OnePlace' /\ SlotsCounted' /\ WorkSignalled' /\ WaitingInOrder'
  BY <1>1, <1>2 DEF Inv, OnePlace, SlotsCounted, WorkSignalled, WaitingInOrder
<1>4. CurAgrees'
  BY <1>2 DEF Inv, TypeOK, CurAgrees
<1>5. QED
  BY <1>3, <1>4 DEF Inv

\* The same when no worker comes or goes.
LEMMA PcStep ==
    ASSUME Inv, NEW t \in Threads, NEW next,
           pc' = [pc EXCEPT ![t] = next],
           pc[t] \notin {"run", "retire", "remove"},
           next \notin {"run", "retire", "remove"},
           t \in Workers => (pc[t] # "none" /\ next # "none"),
           UNCHANGED <<operations, waiting, executing, finished, cur, starting, cond,
                       threadCount>>,
           TypeOK', LockHeldInLoop', ThreadRoles'
    PROVE  Inv'
<1>1. LiveWorkers' = LiveWorkers
  BY ThreadFacts DEF Inv, TypeOK, LiveWorkers
<1>2. ThreadsCounted'
  BY <1>1 DEF Inv, ThreadsCounted
<1>3. QED
  BY <1>2, QuietStep

LEMMA SetSuspendedInv ==
    ASSUME Inv, NEW c \in Clients, NEW flag \in Flags, SetSuspended(c, flag),
           UNCHANGED <<starting, cond, threadCount>>
    PROVE  Inv'
<1> USE ThreadFacts
<1>1. TypeOK' /\ LockHeldInLoop' /\ ThreadRoles'
  BY CoreAssumption
     DEF Inv, TypeOK, CoreTypeOK, LockHeldInLoop, ThreadRoles, SetSuspended
<1>2. QED
  BY <1>1, PcStep DEF SetSuspended

LEMMA SetMaxInv ==
    ASSUME Inv, NEW c \in Clients, NEW cnt \in Counts,
           SetMaxConcurrentOperationCount(c, cnt),
           UNCHANGED <<starting, cond, threadCount>>
    PROVE  Inv'
<1> USE ThreadFacts
<1>1. TypeOK' /\ LockHeldInLoop' /\ ThreadRoles'
  BY CoreAssumption DEF Inv, TypeOK, CoreTypeOK, LockHeldInLoop, ThreadRoles,
                        SetMaxConcurrentOperationCount
<1>2. QED
  BY <1>1, PcStep DEF SetMaxConcurrentOperationCount

LEMMA EnterExecuteInv ==
    ASSUME Inv, NEW t \in Threads, EnterExecute(t),
           UNCHANGED <<starting, cond, threadCount>>
    PROVE  Inv'
<1> USE ThreadFacts
<1>1. TypeOK' /\ LockHeldInLoop' /\ ThreadRoles'
  BY DEF Inv, TypeOK, CoreTypeOK, LockHeldInLoop, ThreadRoles, EnterExecute
<1>2. QED
  BY <1>1, PcStep DEF EnterExecute

LEMMA ExecuteEndsInv ==
    ASSUME Inv, NEW t \in Threads, ExecuteEnds(t)
    PROVE  Inv'
<1> USE ThreadFacts
<1> DEFINE next == IF t \in Clients THEN "idle" ELSE IF t \in Workers THEN "poll" ELSE "none"
<1>1. /\ pc[t] = "execute" /\ pc' = [pc EXCEPT ![t] = next]
      /\ UNCHANGED <<operations, waiting, executing, maxThreads, suspended, finished,
                     cur, starting, cond, threadCount>>
      /\ lock = t /\ lock' = None
  BY DEF ExecuteEnds, LeaveExecute
<1>2. /\ next \in {"idle", "poll", "none"}
      /\ t \in Clients => next = "idle"
      /\ t \in Workers => next = "poll"
      /\ t \in Concurrent => next = "none"
  OBVIOUS
<1> HIDE DEF next
<1>3. TypeOK' /\ LockHeldInLoop' /\ ThreadRoles'
  BY <1>1, <1>2 DEF Inv, TypeOK, CoreTypeOK, LockHeldInLoop, ThreadRoles
<1>4. QED
  BY <1>1, <1>2, <1>3, PcStep

LEMMA NameThreadInv ==
    ASSUME Inv, NEW w \in Workers, NameThread(w)
    PROVE  Inv'
<1> USE ThreadFacts
<1>1. TypeOK' /\ LockHeldInLoop' /\ ThreadRoles'
  BY DEF Inv, TypeOK, CoreTypeOK, LockHeldInLoop, ThreadRoles, NameThread
<1>2. QED
  BY <1>1, PcStep DEF NameThread

LEMMA TimeOutInv ==
    ASSUME Inv, NEW w \in Workers, TimeOut(w)
    PROVE  Inv'
<1> USE ThreadFacts
<1>1. TypeOK' /\ LockHeldInLoop' /\ ThreadRoles'
  BY DEF Inv, TypeOK, CoreTypeOK, LockHeldInLoop, ThreadRoles, TimeOut
<1>2. QED
  BY <1>1, PcStep DEF TimeOut

LEMMA GiveUpInv ==
    ASSUME Inv, NEW w \in Workers, GiveUp(w)
    PROVE  Inv'
<1> USE ThreadFacts
<1>1. TypeOK' /\ LockHeldInLoop' /\ ThreadRoles'
  BY DEF Inv, TypeOK, CoreTypeOK, LockHeldInLoop, ThreadRoles, GiveUp
<1>2. QED
  BY <1>1, PcStep DEF GiveUp

LEMMA EndThreadInv ==
    ASSUME Inv, NEW w \in Workers, EndThread(w)
    PROVE  Inv'
<1> USE ThreadFacts
<1>1. LiveWorkers' = LiveWorkers \ {w} /\ w \in LiveWorkers
  BY DEF Inv, TypeOK, LiveWorkers, EndThread
<1>2. IsFiniteSet(LiveWorkers)
  BY FS_Subset DEF LiveWorkers
<1>3. /\ Cardinality(LiveWorkers') = Cardinality(LiveWorkers) - 1
      /\ Cardinality(LiveWorkers') \in Nat
  BY <1>1, <1>2, FS_RemoveElement, FS_CardinalityType
<1>4. Limits \subseteq Int /\ Limits' = Limits
  BY CoreAssumption DEF Limits, DefaultCount
<1>5. ThreadsCounted' /\ threadCount' \in Nat
  BY <1>3, <1>4 DEF Inv, TypeOK, ThreadsCounted, EndThread
<1>6. TypeOK' /\ LockHeldInLoop' /\ ThreadRoles'
  BY <1>5 DEF Inv, TypeOK, CoreTypeOK, LockHeldInLoop, ThreadRoles, EndThread
<1>7. QED
  BY <1>5, <1>6, QuietStep DEF EndThread

\* What the loop of -execute takes: the first of those waiting, which has not
\* been started, run or finished; a slot more is counted.
LEMMA HeadFacts ==
    ASSUME Inv, waiting # <<>>
    PROVE  /\ Head(waiting) \in Waiting /\ Head(waiting) \in Ops
           /\ Head(waiting) \in operations /\ Head(waiting) \notin finished
           /\ Head(waiting) \notin Starting \cup Running
           /\ \A t \in Threads : cur[t] # Head(waiting)
           /\ Tail(waiting) \in Seq(Ops)
           /\ ToSet(Tail(waiting)) = Waiting \ {Head(waiting)}
           /\ Distinct(Tail(waiting))
           /\ InPriorityOrder(Tail(waiting))
<1>1. waiting \in Seq(Ops) /\ Distinct(waiting) /\ InPriorityOrder(waiting)
  BY DEF Inv, TypeOK, CoreTypeOK, OnePlace, WaitingInOrder
<1>2. /\ Head(waiting) \in Waiting /\ Head(waiting) \in Ops
      /\ Tail(waiting) \in Seq(Ops)
      /\ ToSet(Tail(waiting)) = Waiting \ {Head(waiting)}
      /\ Distinct(Tail(waiting))
      /\ InPriorityOrder(Tail(waiting))
  BY <1>1, TailSet, InOrderTail DEF Waiting
<1>3. QED
  BY <1>2, ThreadFacts DEF Inv, OnePlace, CurAgrees

LEMMA OneMoreSlot ==
    ASSUME Inv, NEW o \in Ops, o \notin Starting \cup Running,
           (Starting \cup Running)' = (Starting \cup Running) \cup {o},
           executing' = executing + 1
    PROVE  SlotsCounted' /\ executing' \in Nat
<1>1. Cardinality((Starting \cup Running)') = Cardinality(Starting \cup Running) + 1
  BY SlotsFinite, FS_AddElement DEF Inv
<1>2. QED
  BY <1>1, SlotsFinite DEF Inv, TypeOK, CoreTypeOK, SlotsCounted

LEMMA StartConcurrentInv ==
    ASSUME Inv, NEW t \in Threads, StartConcurrent(t)
    PROVE  Inv'
<1> USE ThreadFacts
<1> DEFINE o == Head(waiting)
<1>0. /\ waiting # <<>> /\ o \in Concurrent /\ o \in Threads
      /\ pc[t] = "execute" /\ lock = t
      /\ waiting' = Tail(waiting) /\ executing' = executing + 1
      /\ pc' = [pc EXCEPT ![o] = "run"] /\ cur' = [cur EXCEPT ![o] = o]
      /\ UNCHANGED <<lock, operations, maxThreads, suspended, finished,
                     starting, cond, threadCount>>
  BY DEF StartConcurrent, InLoop, CanStart, TakeHead
<1>1. /\ o \in Waiting /\ o \in Ops /\ o \in operations /\ o \notin finished
      /\ o \notin Starting \cup Running
      /\ \A u \in Threads : cur[u] # o
      /\ waiting' \in Seq(Ops)
      /\ Waiting' = Waiting \ {o}
      /\ Distinct(waiting')
      /\ InPriorityOrder(waiting')
  BY <1>0, HeadFacts DEF Waiting
<1> HIDE DEF o
<1>2. pc[o] = "none" /\ cur[o] = None /\ t # o
  BY <1>0, <1>1 DEF Inv, ThreadRoles, CurAgrees
<1>3. Running' = Running \cup {o}
  BY <1>0, <1>1, <1>2 DEF Inv, TypeOK, CoreTypeOK, Running, Holding
<1>4. Starting' = Starting
  BY <1>0 DEF Starting
<1>5. SlotsCounted' /\ executing' \in Nat
  BY <1>0, <1>1, <1>3, <1>4, OneMoreSlot
<1>6. TypeOK'
  BY <1>0, <1>1, <1>5 DEF Inv, TypeOK, CoreTypeOK
<1>7. LockHeldInLoop'
  BY <1>0, <1>2 DEF Inv, TypeOK, LockHeldInLoop
<1>8. OnePlace'
  BY <1>0, <1>1, <1>3, <1>4 DEF Inv, TypeOK, CoreTypeOK, OnePlace
<1>9. LiveWorkers' = LiveWorkers
  BY <1>0, <1>2 DEF Inv, TypeOK, LiveWorkers
<1>10. WorkSignalled' /\ ThreadsCounted' /\ WaitingInOrder'
  BY <1>0, <1>1, <1>9 DEF Inv, WorkSignalled, ThreadsCounted, WaitingInOrder, Limits
<1>11. ThreadRoles'
  BY <1>0, <1>2 DEF Inv, TypeOK, CoreTypeOK, ThreadRoles
<1>12. CurAgrees'
  BY <1>0, <1>1, <1>2, <1>4 DEF Inv, TypeOK, CoreTypeOK, CurAgrees
<1>13. QED
  BY <1>5, <1>6, <1>7, <1>8, <1>10, <1>11, <1>12 DEF Inv

\* An ordinary operation is put in the list, whatever becomes of the workers.
LEMMA HandKeeps ==
    ASSUME Inv, NEW t \in Threads, Hand(t), NEW w \in Threads, NEW next,
           ~Holding(w), next \notin {"run", "retire"},
           pc' = pc \/ pc' = [pc EXCEPT ![w] = next]
    PROVE  /\ waiting' \in Seq(Ops) /\ starting' \in Seq(Ops) /\ executing' \in Nat
           /\ Running' = Running
           /\ Waiting' = Waiting \ {Head(waiting)}
           /\ Starting' = Starting \cup {Head(waiting)}
           /\ Head(waiting) \in Ops
           /\ Head(waiting) \in Waiting
           /\ \A u \in Threads : cur[u] # Head(waiting)
           /\ OnePlace' /\ SlotsCounted' /\ WorkSignalled' /\ WaitingInOrder'
<1> USE ThreadFacts
<1> DEFINE o == Head(waiting)
<1>0. /\ waiting # <<>>
      /\ waiting' = Tail(waiting) /\ executing' = executing + 1
      /\ starting' = Append(starting, o) /\ cond' = "HasWork"
      /\ UNCHANGED <<lock, operations, maxThreads, suspended, finished, cur>>
  BY DEF Hand, InLoop, CanStart, TakeHead
<1>1. /\ o \in Waiting /\ o \in Ops /\ o \in operations /\ o \notin finished
      /\ o \notin Starting \cup Running
      /\ \A u \in Threads : cur[u] # o
      /\ waiting' \in Seq(Ops)
      /\ Waiting' = Waiting \ {o}
      /\ Distinct(waiting')
      /\ InPriorityOrder(waiting')
  BY <1>0, HeadFacts DEF Waiting
<1>2. starting \in Seq(Ops) /\ Distinct(starting) /\ o \notin ToSet(starting)
  BY <1>1 DEF Inv, TypeOK, OnePlace, Starting
<1>3. /\ starting' \in Seq(Ops) /\ starting' # <<>>
      /\ Starting' = Starting \cup {o}
      /\ Distinct(starting')
  BY <1>0, <1>1, <1>2, AppendSet DEF Starting
<1> HIDE DEF o
<1>4. Running' = Running
  BY <1>0, RunningUnmoved DEF Inv, Running, Holding
<1>5. SlotsCounted' /\ executing' \in Nat
  BY <1>0, <1>1, <1>3, <1>4, OneMoreSlot
<1>6. OnePlace'
  BY <1>0, <1>1, <1>3, <1>4 DEF Inv, OnePlace
<1>7. WorkSignalled' /\ WaitingInOrder'
  BY <1>0, <1>1, <1>3 DEF Inv, WorkSignalled, WaitingInOrder
<1>8. QED
  BY <1>1, <1>3, <1>4, <1>5, <1>6, <1>7 DEF o

LEMMA HandToNewThreadInv ==
    ASSUME Inv, NEW t \in Threads, NEW w \in Workers, HandToNewThread(t, w)
    PROVE  Inv'
<1> USE ThreadFacts
<1>1. /\ pc[t] = "execute" /\ lock = t /\ t # w
      /\ pc[w] = "none" /\ pc' = [pc EXCEPT ![w] = "name"]
      /\ threadCount < Limit /\ threadCount' = threadCount + 1
      /\ cond' = "HasWork"
      /\ UNCHANGED <<lock, operations, maxThreads, suspended, finished, cur>>
  BY DEF HandToNewThread, Hand, InLoop
<1>2. /\ waiting' \in Seq(Ops) /\ starting' \in Seq(Ops) /\ executing' \in Nat
      /\ (Waiting \cup Starting)' = Waiting \cup Starting
      /\ OnePlace' /\ SlotsCounted' /\ WorkSignalled' /\ WaitingInOrder'
  <2>1. Hand(t) /\ ~Holding(w) /\ w \in Threads /\ "name" \notin {"run", "retire"}
    BY <1>1 DEF HandToNewThread, Holding
  <2>2. /\ waiting' \in Seq(Ops) /\ starting' \in Seq(Ops) /\ executing' \in Nat
        /\ Waiting' = Waiting \ {Head(waiting)}
        /\ Starting' = Starting \cup {Head(waiting)}
        /\ Head(waiting) \in Waiting
        /\ OnePlace' /\ SlotsCounted' /\ WorkSignalled' /\ WaitingInOrder'
    <3>1. pc' = [pc EXCEPT ![w] = "name"]
      BY <1>1
    <3>2. QED
      BY <2>1, <3>1, HandKeeps, Zenon
  <2>3. QED
    BY <2>2
<1>3. LiveWorkers' = LiveWorkers \cup {w} /\ w \notin LiveWorkers
  BY <1>1 DEF Inv, TypeOK, LiveWorkers
<1>4. IsFiniteSet(LiveWorkers)
  BY FS_Subset DEF LiveWorkers
<1>5. Cardinality(LiveWorkers') = Cardinality(LiveWorkers) + 1
  BY <1>3, <1>4, FS_AddElement
<1>6. Limit \in Limits /\ Limit \in Int
  BY LimitFacts DEF Inv, TypeOK
<1>7. ThreadsCounted' /\ threadCount' \in Nat
  BY <1>1, <1>5, <1>6 DEF Inv, TypeOK, ThreadsCounted, Limits
<1>8. TypeOK' /\ LockHeldInLoop' /\ ThreadRoles'
  BY <1>1, <1>2, <1>7 DEF Inv, TypeOK, CoreTypeOK, LockHeldInLoop, ThreadRoles
<1>9. CurAgrees'
  BY <1>1, <1>2 DEF Inv, TypeOK, CurAgrees
<1>10. QED
  BY <1>2, <1>7, <1>8, <1>9 DEF Inv

\* The same when no worker is created.
LEMMA HandToOldThreadsInv ==
    ASSUME Inv, NEW t \in Threads, Hand(t), UNCHANGED <<threadCount, pc>>
    PROVE  Inv'
<1> USE ThreadFacts
<1>1. /\ pc[t] = "execute" /\ lock = t
      /\ UNCHANGED <<lock, operations, maxThreads, suspended, finished, cur>>
      /\ cond' = "HasWork"
  BY DEF Hand, InLoop
<1>2. /\ waiting' \in Seq(Ops) /\ starting' \in Seq(Ops) /\ executing' \in Nat
      /\ (Waiting \cup Starting)' = Waiting \cup Starting
      /\ OnePlace' /\ SlotsCounted' /\ WorkSignalled' /\ WaitingInOrder'
  BY <1>1, HandKeeps DEF Holding
<1>3. TypeOK' /\ LockHeldInLoop' /\ ThreadRoles' /\ ThreadsCounted'
  BY <1>1, <1>2 DEF Inv, TypeOK, CoreTypeOK, LockHeldInLoop, ThreadRoles,
                    ThreadsCounted, LiveWorkers, Limits
<1>4. CurAgrees'
  BY <1>1, <1>2 DEF Inv, TypeOK, CurAgrees
<1>5. QED
  BY <1>2, <1>3, <1>4 DEF Inv

LEMMA FinishOpInv ==
    ASSUME Inv, NEW t \in Threads, FinishOp(t),
           UNCHANGED <<starting, cond, threadCount>>
    PROVE  Inv'
<1> USE ThreadFacts
<1>1. /\ pc[t] = "run" /\ pc' = [pc EXCEPT ![t] = "retire"]
      /\ finished' = finished \cup {cur[t]}
      /\ UNCHANGED <<lock, operations, waiting, executing, maxThreads, suspended, cur>>
  BY DEF FinishOp
<1>2. /\ cur[t] \in Ops /\ cur[t] # None /\ cur[t] \notin Waiting \cup Starting
      /\ \A u \in Threads : cur[u] = cur[t] => u = t
  BY <1>1 DEF Inv, TypeOK, CoreTypeOK, CurAgrees, OnePlace
<1>3. Running' = Running
  BY <1>1 DEF Inv, TypeOK, Running, Holding
<1>4. Waiting' = Waiting /\ Starting' = Starting
  BY <1>1 DEF Waiting, Starting
<1>5. TypeOK' /\ LockHeldInLoop'
  BY <1>1, <1>2 DEF Inv, TypeOK, CoreTypeOK, LockHeldInLoop
<1>6. OnePlace' /\ SlotsCounted' /\ WorkSignalled' /\ WaitingInOrder'
  BY <1>1, <1>2, <1>3, <1>4
     DEF Inv, OnePlace, SlotsCounted, WorkSignalled, WaitingInOrder
<1>7. LiveWorkers' = LiveWorkers
  BY <1>1 DEF Inv, TypeOK, LiveWorkers
<1>8. ThreadsCounted'
  BY <1>7 DEF Inv, ThreadsCounted, Limits
<1>9. ThreadRoles'
  BY <1>1, <1>2 DEF Inv, TypeOK, CoreTypeOK, ThreadRoles
<1>10. CurAgrees'
  BY <1>1, <1>2, <1>4 DEF Inv, TypeOK, CurAgrees
<1>11. QED
  BY <1>5, <1>6, <1>8, <1>9, <1>10 DEF Inv

LEMMA RetireInv ==
    ASSUME Inv, NEW t \in Threads, Retire(t),
           UNCHANGED <<starting, cond, threadCount>>
    PROVE  Inv'
<1> USE ThreadFacts
<1>1. /\ pc[t] = "retire" /\ pc' = [pc EXCEPT ![t] = "remove"]
      /\ executing' = executing - 1
      /\ UNCHANGED <<lock, operations, waiting, maxThreads, suspended, finished, cur>>
  BY DEF Retire
<1>2. /\ cur[t] \in Ops /\ cur[t] # None /\ cur[t] \notin Waiting \cup Starting
      /\ \A u \in Threads : cur[u] = cur[t] => u = t
  BY <1>1 DEF Inv, TypeOK, CoreTypeOK, CurAgrees, OnePlace
<1>3. Running' = Running \ {cur[t]} /\ cur[t] \in Running
  BY <1>1, <1>2 DEF Inv, TypeOK, Running, Holding
<1>4. Waiting' = Waiting /\ Starting' = Starting
  BY <1>1 DEF Waiting, Starting
<1>5. (Starting \cup Running)' = (Starting \cup Running) \ {cur[t]}
  BY <1>2, <1>3, <1>4
<1>6. /\ Cardinality((Starting \cup Running)') = Cardinality(Starting \cup Running) - 1
      /\ Cardinality((Starting \cup Running)') \in Nat
  BY <1>3, <1>5, SlotsFinite, FS_RemoveElement, FS_CardinalityType DEF Inv
<1>7. SlotsCounted' /\ executing' \in Nat
  BY <1>1, <1>6 DEF Inv, SlotsCounted
<1>8. TypeOK' /\ LockHeldInLoop'
  BY <1>1, <1>7 DEF Inv, TypeOK, CoreTypeOK, LockHeldInLoop
<1>9. OnePlace' /\ WorkSignalled' /\ WaitingInOrder'
  BY <1>1, <1>3, <1>4 DEF Inv, OnePlace, WorkSignalled, WaitingInOrder
<1>10. LiveWorkers' = LiveWorkers
  BY <1>1 DEF Inv, TypeOK, LiveWorkers
<1>11. ThreadsCounted'
  BY <1>10 DEF Inv, ThreadsCounted, Limits
<1>12. ThreadRoles' /\ CurAgrees'
  BY <1>1, <1>4 DEF Inv, TypeOK, ThreadRoles, CurAgrees
<1>13. QED
  BY <1>7, <1>8, <1>9, <1>11, <1>12 DEF Inv

LEMMA RemoveOpInv ==
    ASSUME Inv, NEW t \in Threads, RemoveOp(t),
           UNCHANGED <<starting, cond, threadCount>>
    PROVE  Inv'
<1> USE ThreadFacts
<1>1. /\ pc[t] = "remove" /\ pc' = [pc EXCEPT ![t] = "enter"]
      /\ operations' = operations \ {cur[t]}
      /\ cur' = [cur EXCEPT ![t] = None]
      /\ UNCHANGED <<lock, waiting, executing, maxThreads, suspended, finished>>
  BY DEF RemoveOp
<1>2. /\ cur[t] \in Ops /\ cur[t] # None /\ cur[t] \notin Waiting \cup Starting
      /\ cur[t] \in finished
      /\ \A u \in Threads : cur[u] = cur[t] => u = t
  BY <1>1 DEF Inv, TypeOK, CoreTypeOK, CurAgrees, OnePlace
<1>3. Running' = Running /\ cur[t] \notin Running
  BY <1>1, <1>2 DEF Inv, TypeOK, CoreTypeOK, Running, Holding
<1>4. Waiting' = Waiting /\ Starting' = Starting
  BY <1>1 DEF Waiting, Starting
<1>5. TypeOK' /\ LockHeldInLoop'
  BY <1>1 DEF Inv, TypeOK, CoreTypeOK, LockHeldInLoop
<1>6. OnePlace'
  BY <1>1, <1>2, <1>3, <1>4 DEF Inv, TypeOK, CoreTypeOK, OnePlace
<1>7. SlotsCounted' /\ WorkSignalled' /\ WaitingInOrder'
  BY <1>1, <1>3, <1>4 DEF Inv, SlotsCounted, WorkSignalled, WaitingInOrder
<1>8. LiveWorkers' = LiveWorkers
  BY <1>1 DEF Inv, TypeOK, LiveWorkers
<1>9. ThreadsCounted'
  BY <1>8 DEF Inv, ThreadsCounted, Limits
<1>10. ThreadRoles'
  BY <1>1, <1>2 DEF Inv, TypeOK, CoreTypeOK, ThreadRoles
<1>11. CurAgrees'
  BY <1>1, <1>2, <1>4 DEF Inv, TypeOK, CoreTypeOK, CurAgrees
<1>12. QED
  BY <1>5, <1>6, <1>7, <1>9, <1>10, <1>11 DEF Inv

LEMMA GetWorkInv ==
    ASSUME Inv, NEW w \in Workers, GetWork(w)
    PROVE  Inv'
<1> USE ThreadFacts
<1> DEFINE o == Head(starting)
<1>1. /\ pc[w] \in {"poll", "recheck"} /\ starting # <<>>
      /\ pc' = [pc EXCEPT ![w] = "run"] /\ cur' = [cur EXCEPT ![w] = o]
      /\ starting' = Tail(starting)
      /\ cond' = IF Len(starting) > 1 THEN "HasWork" ELSE "Idle"
      /\ UNCHANGED <<lock, operations, waiting, executing, maxThreads, suspended,
                     finished, threadCount>>
  BY DEF GetWork, TakeWork, TakeLateWork, TakeFirst
<1>2. starting \in Seq(Ops) /\ Distinct(starting)
  BY DEF Inv, TypeOK, OnePlace
<1>3. /\ o \in Starting /\ o \in Ops
      /\ starting' \in Seq(Ops)
      /\ (starting' = <<>>) <=> (Len(starting) <= 1)
      /\ Starting' = Starting \ {o}
      /\ Distinct(starting')
  BY <1>1, <1>2, TailSet DEF Starting
<1> HIDE DEF o
<1>4. /\ o \notin Waiting /\ o \notin Running /\ o \in operations /\ o \notin finished
      /\ \A u \in Threads : cur[u] # o
      /\ cur[w] = None /\ o # None
  BY <1>1, <1>3 DEF Inv, OnePlace, CurAgrees
<1>5. Running' = Running \cup {o}
  BY <1>1, <1>3, <1>4 DEF Inv, TypeOK, CoreTypeOK, Running, Holding
<1>6. (Starting \cup Running)' = Starting \cup Running
  BY <1>3, <1>5
<1>7. Waiting' = Waiting
  BY <1>1 DEF Waiting
<1>8. SlotsCounted'
  BY <1>1, <1>6 DEF Inv, SlotsCounted
<1>9. Len(starting) \in Nat
  BY <1>2, LenProperties
<1>10. TypeOK' /\ LockHeldInLoop' /\ WorkSignalled'
  BY <1>1, <1>3, <1>9 DEF Inv, TypeOK, CoreTypeOK, LockHeldInLoop, WorkSignalled
<1>11. OnePlace'
  BY <1>1, <1>3, <1>4, <1>5, <1>7 DEF Inv, TypeOK, CoreTypeOK, OnePlace
<1>12. WaitingInOrder'
  BY <1>1 DEF Inv, WaitingInOrder
<1>13. LiveWorkers' = LiveWorkers
  BY <1>1 DEF Inv, TypeOK, LiveWorkers
<1>14. ThreadsCounted'
  BY <1>1, <1>13 DEF Inv, ThreadsCounted, Limits
<1>15. ThreadRoles'
  BY <1>1 DEF Inv, TypeOK, CoreTypeOK, ThreadRoles
<1>16. CurAgrees'
  BY <1>1, <1>3, <1>4, <1>7 DEF Inv, TypeOK, CoreTypeOK, CurAgrees
<1>17. QED
  BY <1>8, <1>10, <1>11, <1>12, <1>14, <1>15, <1>16 DEF Inv

LEMMA InitInv == Init => Inv
<1> USE ThreadFacts
<1> SUFFICES ASSUME Init PROVE Inv
  OBVIOUS
<1>1. /\ lock = None /\ operations = {} /\ waiting = <<>> /\ executing = 0
      /\ maxThreads = InitialCount /\ suspended = FALSE /\ finished = {}
      /\ cur = [t \in Threads |-> None]
      /\ pc = [t \in Threads |-> IF t \in Clients THEN "idle" ELSE "none"]
      /\ starting = <<>> /\ cond = "Idle" /\ threadCount = 0
  BY DEF Init, CoreInit
<1>2. Waiting = {} /\ Starting = {} /\ Running = {} /\ LiveWorkers = {}
  <2>1. <<>> \in Seq(Ops) /\ Len(<<>>) = 0
    OBVIOUS
  <2>2. Waiting = {} /\ Starting = {}
    BY <1>1, <2>1, EmptySeq DEF Waiting, Starting, ToSet
  <2>3. Running = {} /\ LiveWorkers = {}
    BY <1>1 DEF Running, Holding, LiveWorkers
  <2>4. QED
    BY <2>2, <2>3
<1>3. TypeOK
  <2>1. <<>> \in Seq(Ops)
    OBVIOUS
  <2>2. pc \in [Threads -> {"idle", "none"}] /\ cur \in [Threads -> Ops \cup {None}]
    BY <1>1
  <2>3. pc \in [Threads -> {"idle", "enter", "execute", "none", "name", "poll",
                           "recheck", "leave", "run", "retire", "remove"}]
    BY <2>2
  <2>4. CoreTypeOK
    BY <1>1, <2>1, <2>2 DEF CoreTypeOK
  <2>5. QED
    BY <1>1, <2>1, <2>3, <2>4 DEF TypeOK
<1>4. LockHeldInLoop /\ WorkSignalled /\ WaitingInOrder /\ OnePlace
  BY <1>1, <1>2 DEF LockHeldInLoop, WorkSignalled, WaitingInOrder, InPriorityOrder,
                    OnePlace, Distinct
<1>5. SlotsCounted
  <2>1. Starting \cup Running = {}
    BY <1>2
  <2>2. QED
    BY <1>1, <2>1, FS_EmptySet DEF SlotsCounted
<1>6. ThreadsCounted
  <2>1. Limit \in Limits /\ 0 <= Limit
    BY <1>3, LimitFacts DEF TypeOK
  <2>2. QED
    BY <1>1, <1>2, <2>1, FS_EmptySet DEF ThreadsCounted
<1>7. ThreadRoles /\ CurAgrees
  BY <1>1 DEF ThreadRoles, CurAgrees
<1>8. QED
  BY <1>3, <1>4, <1>5, <1>6, <1>7 DEF Inv

LEMMA StepInv == Inv /\ [Next]_vars => Inv'
<1> SUFFICES ASSUME Inv, [Next]_vars PROVE Inv'
  OBVIOUS
<1>1. ASSUME NEW c \in Clients, ClientCall(c), UNCHANGED <<starting, cond, threadCount>>
      PROVE  Inv'
  BY <1>1, AddOperationInv, SetSuspendedInv, SetMaxInv DEF ClientCall
<1>2. ASSUME NEW t \in Threads, QueueStep(t)
      PROVE  Inv'
  <2>1. CASE EnterExecute(t) /\ UNCHANGED <<starting, cond, threadCount>>
    BY <2>1, EnterExecuteInv
  <2>2. CASE StartNext(t)
    BY <2>2, StartConcurrentInv, HandToNewThreadInv, HandToOldThreadsInv
       DEF StartNext, HandDetachFails, HandToPool
  <2>3. CASE ExecuteEnds(t)
    BY <2>3, ExecuteEndsInv
  <2>4. CASE FinishOp(t) /\ UNCHANGED <<starting, cond, threadCount>>
    BY <2>4, FinishOpInv
  <2>5. CASE AfterRun(t)
    BY <2>5, RetireInv, RemoveOpInv DEF AfterRun
  <2>6. QED
    BY <1>2, <2>1, <2>2, <2>3, <2>4, <2>5 DEF QueueStep
<1>3. ASSUME NEW w \in Workers,
             NameThread(w) \/ GetWork(w) \/ TimeOut(w) \/ GiveUp(w) \/ EndThread(w)
      PROVE  Inv'
  BY <1>3, NameThreadInv, GetWorkInv, TimeOutInv, GiveUpInv, EndThreadInv
<1>4. CASE UNCHANGED vars
  <2>1. UNCHANGED <<lock, operations, waiting, executing, maxThreads, suspended,
                    finished, pc, cur, starting, cond, threadCount>>
    BY <1>4 DEF vars, coreVars
  <2>2. /\ Waiting' = Waiting /\ Starting' = Starting /\ Running' = Running
        /\ LiveWorkers' = LiveWorkers
    BY <2>1 DEF Waiting, Starting, Running, Holding, LiveWorkers
  <2>3. TypeOK' /\ LockHeldInLoop' /\ WaitingInOrder' /\ WorkSignalled'
    BY <2>1 DEF Inv, TypeOK, CoreTypeOK, LockHeldInLoop, WaitingInOrder, WorkSignalled
  <2>4. OnePlace' /\ SlotsCounted' /\ ThreadsCounted'
    BY <2>1, <2>2 DEF Inv, OnePlace, SlotsCounted, ThreadsCounted, Limits
  <2>5. ThreadRoles' /\ CurAgrees'
    BY <2>1, <2>2 DEF Inv, ThreadRoles, CurAgrees
  <2>6. QED
    BY <2>3, <2>4, <2>5 DEF Inv
<1>5. QED
  BY <1>1, <1>2, <1>3, <1>4 DEF Next

\* Everything the pool keeps about its operations and its workers holds in every
\* state it can reach.
THEOREM PoolInvariant == Spec => []Inv
  BY InitInv, StepInv, PTL DEF Spec

\* The values of the pool's variables are of the kinds the code gives them:
\* neither the count of started operations nor that of workers goes below zero.
THEOREM TypeCorrect == Spec => []TypeOK
<1>1. Inv => TypeOK
  BY DEF Inv
<1>2. QED
  BY <1>1, PoolInvariant, PTL

\* An operation is never in two of the places where it can wait, be started or
\* run, and two threads never run it.
THEOREM OnePlaceAlways == Spec => []OnePlace
<1>1. Inv => OnePlace
  BY DEF Inv
<1>2. QED
  BY <1>1, PoolInvariant, PTL

\* The count -execute compares with the limit is exact.
THEOREM SlotsCountedAlways == Spec => []SlotsCounted
<1>1. Inv => SlotsCounted
  BY DEF Inv
<1>2. QED
  BY <1>1, PoolInvariant, PTL

\* The condition lock says there is work exactly when there is.
THEOREM WorkSignalledAlways == Spec => []WorkSignalled
<1>1. Inv => WorkSignalled
  BY DEF Inv
<1>2. QED
  BY <1>1, PoolInvariant, PTL

\* The pool counts its workers exactly and is never larger than the largest
\* limit, though threads are detached under the queue's lock and count
\* themselves out under it much later.
THEOREM ThreadsCountedAlways == Spec => []ThreadsCounted
<1>1. Inv => ThreadsCounted
  BY DEF Inv
<1>2. QED
  BY <1>1, PoolInvariant, PTL

\* The queue stays in order of priority.
THEOREM WaitingInOrderAlways == Spec => []WaitingInOrder
<1>1. Inv => WaitingInOrder
  BY DEF Inv
<1>2. QED
  BY <1>1, PoolInvariant, PTL

\* Exactly the thread in the loop of -execute holds the queue's lock, whatever
\* observers, workers and clients enter it.
THEOREM LockHeldInLoopAlways == Spec => []LockHeldInLoop
<1>1. Inv => LockHeldInLoop
  BY DEF Inv
<1>2. QED
  BY <1>1, PoolInvariant, PTL

-----------------------------------------------------------------------------
\* The order among operations of one priority: what FirstComeFirstServed says of
\* a step.
KeepsOrder ==
    \A o \in ToSet(waiting') :
        Before(waiting', o) =
            IF o \in Waiting THEN Before(waiting, o) \cap ToSet(waiting')
            ELSE {p \in Waiting : Priority[p] = Priority[o]}

LEMMA SameOrder ==
    ASSUME waiting' = waiting
    PROVE  KeepsOrder
<1>1. \A o \in Ops : Before(waiting, o) \subseteq ToSet(waiting)
  BY DEF Before, ToSet
<1>2. \A o : Before(waiting, o) \subseteq ToSet(waiting)
  BY DEF Before, ToSet
<1>3. QED
  BY <1>2 DEF KeepsOrder, Waiting

LEMMA TailKeepsOrder ==
    ASSUME Inv, waiting # <<>>, waiting' = Tail(waiting)
    PROVE  KeepsOrder
<1>1. waiting \in Seq(Ops) /\ Distinct(waiting)
  BY DEF Inv, TypeOK, CoreTypeOK, OnePlace
<1>2. ToSet(Tail(waiting)) \subseteq Waiting
  BY HeadFacts
<1>3. \A o \in ToSet(Tail(waiting)) :
          Before(Tail(waiting), o) = Before(waiting, o) \cap ToSet(Tail(waiting))
  BY <1>1, BeforeTail
<1>4. QED
  BY <1>2, <1>3 DEF KeepsOrder

LEMMA InsertKeepsOrder ==
    ASSUME Inv, NEW c \in Clients, NEW q \in Ops, AddOperation(c, q)
    PROVE  KeepsOrder
<1>1. PICK k \in 0..Len(waiting) :
          IsInsertionPoint(waiting, k, q) /\ waiting' = InsertAt(waiting, k + 1, q)
  BY InsertWaitingPoint DEF AddOperation, Inv, TypeOK, CoreTypeOK, WaitingInOrder
<1>2. waiting \in Seq(Ops) /\ q \notin ToSet(waiting)
  BY DEF Inv, TypeOK, CoreTypeOK, OnePlace, AddOperation, Waiting
<1>3. ToSet(waiting') = ToSet(waiting) \cup {q}
  BY <1>1, <1>2, InsertAtSet
<1>4. /\ \A o \in ToSet(waiting) :
             Before(waiting', o) = Before(waiting, o) \cap ToSet(waiting')
      /\ Before(waiting', q) = {p \in ToSet(waiting) : Priority[p] = Priority[q]}
  BY <1>1, <1>2, BeforeInsert
<1>5. QED
  BY <1>2, <1>3, <1>4 DEF KeepsOrder, Waiting

\* Operations of the same priority are served first come, first served.
THEOREM ServedInOrder == Spec => FirstComeFirstServed
<1>1. Inv /\ [Next]_vars => [KeepsOrder]_vars
  <2> SUFFICES ASSUME Inv, [Next]_vars PROVE KeepsOrder
    OBVIOUS
  <2>1. ASSUME NEW c \in Clients, ClientCall(c)
        PROVE  KeepsOrder
    BY <2>1, InsertKeepsOrder, SameOrder
       DEF ClientCall, SetSuspended, SetMaxConcurrentOperationCount
  <2>2. ASSUME NEW t \in Threads, QueueStep(t)
        PROVE  KeepsOrder
    <3>1. (waiting # <<>> /\ waiting' = Tail(waiting)) \/ waiting' = waiting
      BY <2>2 DEF QueueStep, EnterExecute, StartNext, StartConcurrent, HandToNewThread,
                  HandDetachFails, HandToPool, Hand, InLoop, CanStart, TakeHead,
                  ExecuteEnds, LeaveExecute, FinishOp, AfterRun, Retire, RemoveOp
    <3>2. QED
      BY <3>1, TailKeepsOrder, SameOrder
  <2>3. ASSUME NEW w \in Workers,
               NameThread(w) \/ GetWork(w) \/ TimeOut(w) \/ GiveUp(w) \/ EndThread(w)
        PROVE  KeepsOrder
    BY <2>3, SameOrder DEF NameThread, GetWork, TakeWork, TakeLateWork, TakeFirst, TimeOut,
                           GiveUp, EndThread
  <2>4. CASE UNCHANGED vars
    BY <2>4, SameOrder DEF vars, coreVars
  <2>5. QED
    BY <2>1, <2>2, <2>3, <2>4 DEF Next
<1>2. QED
  BY <1>1, PoolInvariant, PTL DEF Spec, FirstComeFirstServed, KeepsOrder

-----------------------------------------------------------------------------
\* The phase of an operation, by the set that holds it.
LEMMA PhaseBySet ==
    ASSUME NEW o \in Ops
    PROVE  Phase(o) = IF o \in Waiting THEN "waiting"
                      ELSE IF o \in Starting THEN "started"
                      ELSE IF o \in Begun THEN "running"
                      ELSE IF o \in Ended THEN "finished"
                      ELSE IF o \in finished THEN "released" ELSE "new"
  BY DEF Phase, Begun, Ended

LEMMA PhaseBySetPrime ==
    ASSUME NEW o \in Ops
    PROVE  Phase(o)' = IF o \in Waiting' THEN "waiting"
                       ELSE IF o \in Starting' THEN "started"
                       ELSE IF o \in Begun' THEN "running"
                       ELSE IF o \in Ended' THEN "finished"
                       ELSE IF o \in finished' THEN "released" ELSE "new"
  BY DEF Phase, Begun, Ended

\* Two threads never have the same operation, and it is in no list.
LEMMA BegunEnded ==
    ASSUME Inv
    PROVE  /\ Running = Begun \cup Ended
           /\ Begun \cap Ended = {} /\ Begun \cap finished = {}
           /\ Ended \subseteq finished
           /\ (Begun \cup Ended) \cap (Waiting \cup Starting) = {}
  BY DEF Inv, OnePlace, CurAgrees, Running, Holding, Begun, Ended

\* A step that moves no operation from one set to another stutters.
LEMMA PhasesKept ==
    ASSUME Waiting' = Waiting, Starting' = Starting, Begun' = Begun, Ended' = Ended,
           finished' = finished
    PROVE  [o \in Ops |-> Phase(o)]' = [o \in Ops |-> Phase(o)]
<1>1. \A o \in Ops : Phase(o)' = Phase(o)
  BY PhaseBySet, PhaseBySetPrime
<1>2. QED
  BY <1>1

\* A step that moves one.
LEMMA OneMoves ==
    ASSUME NEW o \in Ops, NEW to, Phase(o)' = to,
           \A p \in Ops \ {o} : Phase(p)' = Phase(p),
           UNCHANGED <<maxThreads, suspended>>
    PROVE  BE!Move(o, Phase(o), to)
<1>1. [p \in Ops |-> Phase(p)]' = [[p \in Ops |-> Phase(p)] EXCEPT ![o] = to]
  OBVIOUS
<1>2. Limit' = Limit
  BY DEF Limit
<1>3. QED
  BY <1>1, <1>2 DEF BE!Move

\* BoundedExecutor counts with the same function.
LEMMA SameCardinality ==
    ASSUME NEW S
    PROVE  BE!Cardinality(S) = Cardinality(S)
  BY DEF BE!Cardinality, Cardinality, BE!IsFiniteSet, IsFiniteSet

\* The slots of BoundedExecutor are those that -execute counts.
LEMMA SlotsAre ==
    ASSUME Inv
    PROVE  BE!Slots = Starting \cup Running /\ Cardinality(BE!Slots) = executing
<1>1. \A o \in Ops : Phase(o) \in {"started", "running", "finished"}
                         <=> o \in Starting \cup Running
  BY PhaseBySet, BegunEnded DEF Inv, OnePlace
<1>2. Starting \cup Running \subseteq Ops
  BY DEF Inv, OnePlace, TypeOK, CoreTypeOK
<1>3. BE!Slots = Starting \cup Running
  BY <1>1, <1>2 DEF BE!Slots
<1>4. QED
  BY <1>3 DEF Inv, SlotsCounted

\* The operation -execute starts is one that BoundedExecutor may start.
LEMMA HeadMayStart ==
    ASSUME Inv, CanStart
    PROVE  /\ ~suspended /\ Cardinality(BE!Slots) < Limit
           /\ Phase(Head(waiting)) = "waiting"
           /\ \A p \in Ops : [o \in Ops |-> Phase(o)][p] = "waiting"
                               => Priority[p] <= Priority[Head(waiting)]
<1>1. ~suspended /\ Limit > executing /\ waiting # <<>>
  BY DEF CanStart
<1>2. Cardinality(BE!Slots) < Limit
  BY <1>1, SlotsAre, LimitFacts DEF Inv, TypeOK, CoreTypeOK
<1>3. waiting \in Seq(Ops) /\ Len(waiting) \in Nat \ {0} /\ Head(waiting) = waiting[1]
  BY <1>1, LenProperties, EmptySeq DEF Inv, TypeOK, CoreTypeOK
<1>4. \A p \in Ops : Phase(p) = "waiting" => p \in Waiting
  BY PhaseBySet
<1>5. ASSUME NEW p \in Waiting
      PROVE  Priority[p] <= Priority[Head(waiting)]
  <2>1. PICK i \in DOMAIN waiting : p = waiting[i]
    BY <1>5 DEF Waiting, ToSet
  <2>2. DOMAIN waiting = 1..Len(waiting)
    BY <1>3, LenProperties
  <2>3. Priority[waiting[1]] \in Int /\ Priority[waiting[i]] \in Int
    BY <1>3, <2>1, <2>2, ElementOfSeq, CoreAssumption
  <2>4. i = 1 \/ Priority[waiting[1]] >= Priority[waiting[i]]
    BY <1>3, <2>1, <2>2 DEF Inv, WaitingInOrder, InPriorityOrder
  <2>5. QED
    BY <1>3, <2>1, <2>3, <2>4
<1>6. Phase(Head(waiting)) = "waiting"
  BY <1>1, HeadFacts, PhaseBySet
<1>7. QED
  BY <1>1, <1>2, <1>4, <1>5, <1>6

LEMMA AddOperationRefines ==
    ASSUME Inv, NEW c \in Clients, NEW o \in Ops, AddOperation(c, o),
           UNCHANGED <<starting, cond, threadCount>>
    PROVE  BE!Submit(o)
<1> USE ThreadFacts
<1>1. /\ pc[c] = "idle" /\ pc' = [pc EXCEPT ![c] = "execute"] /\ c \in Threads
      /\ o \notin operations \cup finished
      /\ UNCHANGED <<maxThreads, suspended, finished, cur>>
  BY DEF AddOperation
<1>2. Begun' = Begun /\ Ended' = Ended
  BY <1>1 DEF Inv, TypeOK, Begun, Ended
<1>3. Starting' = Starting
  BY DEF Starting
<1>4. Waiting' = Waiting \cup {o}
  <2>1. PICK k \in 0..Len(waiting) : waiting' = InsertAt(waiting, k + 1, o)
    BY InsertWaitingPoint DEF AddOperation, Inv, TypeOK, CoreTypeOK, WaitingInOrder
  <2>2. waiting \in Seq(Ops)
    BY DEF Inv, TypeOK, CoreTypeOK
  <2>3. QED
    BY <2>1, <2>2, InsertAtSet DEF Inv, OnePlace, Waiting
<1>5. o \notin Waiting \cup Starting \cup Begun \cup Ended
  BY <1>1, BegunEnded DEF Inv, OnePlace
<1>6. Phase(o) = "new" /\ Phase(o)' = "waiting"
  BY <1>1, <1>4, <1>5, PhaseBySet, PhaseBySetPrime
<1>7. \A p \in Ops \ {o} : Phase(p)' = Phase(p)
  BY <1>1, <1>2, <1>3, <1>4, PhaseBySet, PhaseBySetPrime
<1>8. BE!Move(o, Phase(o), "waiting")
  BY <1>1, <1>6, <1>7, OneMoves
<1>9. QED
  BY <1>6, <1>8 DEF BE!Submit

\* Steps that only concern the accounts of the pool.
LEMMA QuietRefines ==
    ASSUME Inv, NEW t \in Threads, NEW next,
           pc' = [pc EXCEPT ![t] = next],
           pc[t] \notin {"run", "retire"}, next \notin {"run", "retire"},
           cur' = cur \/ cur' = [cur EXCEPT ![t] = None],
           UNCHANGED <<waiting, finished, starting>>
    PROVE  [o \in Ops |-> Phase(o)]' = [o \in Ops |-> Phase(o)]
<1>1. Begun' = Begun /\ Ended' = Ended
  BY ThreadFacts DEF Inv, TypeOK, CoreTypeOK, Begun, Ended
<1>2. Waiting' = Waiting /\ Starting' = Starting
  BY DEF Waiting, Starting
<1>3. QED
  BY <1>1, <1>2, PhasesKept

LEMMA StartConcurrentRefines ==
    ASSUME Inv, NEW t \in Threads, StartConcurrent(t), NEW o \in Ops, o = Head(waiting)
    PROVE  BE!Start(o)
<1> USE ThreadFacts
<1>0. /\ waiting # <<>> /\ CanStart /\ o \in Concurrent
      /\ waiting' = Tail(waiting)
      /\ pc' = [pc EXCEPT ![o] = "run"] /\ cur' = [cur EXCEPT ![o] = o]
      /\ UNCHANGED <<maxThreads, suspended, finished, starting>>
  BY DEF StartConcurrent, InLoop, CanStart, TakeHead
<1>1. /\ o \in Waiting /\ o \in Ops /\ o \notin Starting \cup Running
      /\ \A u \in Threads : cur[u] # o
      /\ Waiting' = Waiting \ {o}
  BY <1>0, HeadFacts DEF Waiting
<1>2. /\ ~suspended /\ Cardinality(BE!Slots) < Limit /\ Phase(o) = "waiting"
      /\ \A p \in Ops : [q \in Ops |-> Phase(q)][p] = "waiting"
                           => Priority[p] <= Priority[o]
  BY <1>0, HeadMayStart
<1>3. o \in Threads /\ cur[o] = None /\ pc[o] \notin {"run", "retire"}
  BY <1>0, <1>1 DEF Inv, ThreadRoles, CurAgrees
<1>4. Begun' = Begun \cup {o} /\ Ended' = Ended /\ Starting' = Starting
  BY <1>0, <1>1, <1>3 DEF Inv, TypeOK, CoreTypeOK, Begun, Ended, Starting
<1>5. Phase(o)' = "running"
  BY <1>1, <1>4, PhaseBySetPrime
<1>6. \A p \in Ops \ {o} : Phase(p)' = Phase(p)
  BY <1>0, <1>1, <1>4, PhaseBySet, PhaseBySetPrime
<1>7. BE!Move(o, "waiting", "running")
  BY <1>0, <1>1, <1>2, <1>5, <1>6, OneMoves
<1>8. QED
  BY <1>2, <1>7, SameCardinality DEF BE!Start

LEMMA HandRefines ==
    ASSUME Inv, NEW t \in Threads, Hand(t), NEW w \in Threads, ~Holding(w),
           pc' = pc \/ pc' = [pc EXCEPT ![w] = "name"],
           NEW o \in Ops, o = Head(waiting)
    PROVE  BE!Start(o)
<1>0. CanStart /\ UNCHANGED <<maxThreads, suspended, finished, cur>>
  BY DEF Hand, InLoop
<1>1. /\ o \in Ops /\ o \in Waiting
      /\ Waiting' = Waiting \ {o} /\ Starting' = Starting \cup {o}
  BY HandKeeps
<1>2. /\ ~suspended /\ Cardinality(BE!Slots) < Limit /\ Phase(o) = "waiting"
      /\ \A p \in Ops : [q \in Ops |-> Phase(q)][p] = "waiting"
                           => Priority[p] <= Priority[o]
  BY <1>0, HeadMayStart
<1>3. Begun' = Begun /\ Ended' = Ended
  BY <1>0 DEF Inv, TypeOK, Begun, Ended, Holding
<1>4. Phase(o)' = "started"
  BY <1>1, PhaseBySetPrime
<1>5. \A p \in Ops \ {o} : Phase(p)' = Phase(p)
  BY <1>0, <1>1, <1>3, PhaseBySet, PhaseBySetPrime
<1>6. BE!Move(o, "waiting", "started")
  BY <1>0, <1>1, <1>2, <1>4, <1>5, OneMoves
<1>7. QED
  BY <1>2, <1>6, SameCardinality DEF BE!Start

LEMMA GetWorkRefines ==
    ASSUME Inv, NEW w \in Workers, GetWork(w), NEW o \in Ops, o = Head(starting)
    PROVE  BE!Run(o)
<1> USE ThreadFacts
<1>1. /\ pc[w] \in {"poll", "recheck"} /\ starting # <<>>
      /\ pc' = [pc EXCEPT ![w] = "run"] /\ cur' = [cur EXCEPT ![w] = o]
      /\ starting' = Tail(starting)
      /\ UNCHANGED <<waiting, maxThreads, suspended, finished>>
  BY DEF GetWork, TakeWork, TakeLateWork, TakeFirst
<1>2. starting \in Seq(Ops) /\ Distinct(starting)
  BY DEF Inv, TypeOK, OnePlace
<1>3. o \in Starting /\ o \in Ops /\ Starting' = Starting \ {o}
  BY <1>1, <1>2, TailSet DEF Starting
<1>4. o \notin Waiting /\ o \notin Begun \cup Ended /\ cur[w] = None /\ o # None
  BY <1>1, <1>3, BegunEnded DEF Inv, OnePlace, CurAgrees
<1>5. Begun' = Begun \cup {o} /\ Ended' = Ended
  BY <1>1, <1>3, <1>4 DEF Inv, TypeOK, CoreTypeOK, Begun, Ended
<1>6. Waiting' = Waiting
  BY <1>1 DEF Waiting
<1>7. Phase(o) = "started" /\ Phase(o)' = "running"
  BY <1>3, <1>4, <1>5, <1>6, PhaseBySet, PhaseBySetPrime
<1>8. \A p \in Ops \ {o} : Phase(p)' = Phase(p)
  BY <1>1, <1>3, <1>5, <1>6, PhaseBySet, PhaseBySetPrime
<1>9. BE!Move(o, "started", "running")
  BY <1>1, <1>3, <1>7, <1>8, OneMoves
<1>10. QED
  BY <1>7, <1>9 DEF BE!Run

LEMMA FinishOpRefines ==
    ASSUME Inv, NEW t \in Threads, FinishOp(t), starting' = starting,
           NEW o \in Ops, o = cur[t]
    PROVE  BE!Finish(o)
<1> USE ThreadFacts
<1>1. /\ pc[t] = "run" /\ pc' = [pc EXCEPT ![t] = "retire"]
      /\ finished' = finished \cup {o}
      /\ UNCHANGED <<waiting, maxThreads, suspended, cur>>
  BY DEF FinishOp
<1>2. o # None /\ \A u \in Threads : cur[u] = o => u = t
  BY <1>1 DEF Inv, OnePlace
<1>3. Begun' = Begun \ {o} /\ Ended' = Ended \cup {o} /\ o \in Begun
  BY <1>1, <1>2 DEF Inv, TypeOK, Begun, Ended
<1>4. Waiting' = Waiting /\ Starting' = Starting
  BY <1>1 DEF Waiting, Starting
<1>5. o \notin Waiting \cup Starting \cup Ended
  BY <1>3, BegunEnded
<1>6. Phase(o) = "running" /\ Phase(o)' = "finished"
  BY <1>3, <1>4, <1>5, PhaseBySet, PhaseBySetPrime
<1>7. \A p \in Ops \ {o} : Phase(p)' = Phase(p)
  BY <1>1, <1>3, <1>4, PhaseBySet, PhaseBySetPrime
<1>8. BE!Move(o, "running", "finished")
  BY <1>1, <1>6, <1>7, OneMoves
<1>9. QED
  BY <1>8 DEF BE!Finish

LEMMA RetireRefines ==
    ASSUME Inv, NEW t \in Threads, Retire(t), starting' = starting,
           NEW o \in Ops, o = cur[t]
    PROVE  BE!Release(o)
<1> USE ThreadFacts
<1>1. /\ pc[t] = "retire" /\ pc' = [pc EXCEPT ![t] = "remove"]
      /\ UNCHANGED <<waiting, maxThreads, suspended, finished, cur>>
  BY DEF Retire
<1>2. o # None /\ \A u \in Threads : cur[u] = o => u = t
  BY <1>1 DEF Inv, OnePlace
<1>3. Begun' = Begun /\ Ended' = Ended \ {o} /\ o \in Ended
  BY <1>1, <1>2 DEF Inv, TypeOK, Begun, Ended
<1>4. Waiting' = Waiting /\ Starting' = Starting
  BY <1>1 DEF Waiting, Starting
<1>5. o \notin Waiting \cup Starting \cup Begun /\ o \in finished
  BY <1>3, BegunEnded
<1>6. Phase(o) = "finished" /\ Phase(o)' = "released"
  BY <1>1, <1>3, <1>4, <1>5, PhaseBySet, PhaseBySetPrime
<1>7. \A p \in Ops \ {o} : Phase(p)' = Phase(p)
  BY <1>1, <1>3, <1>4, PhaseBySet, PhaseBySetPrime
<1>8. BE!Move(o, "finished", "released")
  BY <1>1, <1>6, <1>7, OneMoves
<1>9. QED
  BY <1>8 DEF BE!Release

LEMMA InitRefines == Init => BE!BoundedInit
<1> USE ThreadFacts
<1> SUFFICES ASSUME Init PROVE BE!BoundedInit
  OBVIOUS
<1>1. Inv
  BY InitInv
<1>2. /\ waiting = <<>> /\ starting = <<>> /\ finished = {} /\ suspended = FALSE
      /\ cur = [t \in Threads |-> None]
  BY DEF Init, CoreInit
<1>3. Waiting = {} /\ Starting = {}
  BY <1>2, EmptySeq DEF Waiting, Starting, ToSet
<1>4. Begun = {} /\ Ended = {}
  BY <1>2 DEF Begun, Ended
<1>5. \A o \in Ops : Phase(o) = "new"
  BY <1>2, <1>3, <1>4, PhaseBySet
<1>6. Limit \in Limits
  BY <1>1, LimitFacts DEF Inv, TypeOK
<1>7. QED
  BY <1>2, <1>5, <1>6 DEF BE!BoundedInit

LEMMA StepRefines == Inv /\ Inv' /\ [Next]_vars => [BE!BoundedNext]_BE!bvars
<1> USE ThreadFacts
<1> SUFFICES ASSUME Inv, Inv', [Next]_vars
             PROVE  BE!BoundedNext \/ UNCHANGED BE!bvars
  OBVIOUS
<1> DEFINE phases == [o \in Ops |-> Phase(o)]
<1>0. phases' = phases /\ maxThreads' = maxThreads /\ suspended' = suspended
         => UNCHANGED BE!bvars
  BY DEF BE!bvars, Limit
<1>1. ASSUME NEW c \in Clients, ClientCall(c), UNCHANGED <<starting, cond, threadCount>>
      PROVE  BE!BoundedNext
  <2>1. ASSUME NEW o \in Ops, AddOperation(c, o)
        PROVE  BE!BoundedNext
    BY <1>1, <2>1, AddOperationRefines DEF BE!BoundedNext
  <2>2. ASSUME NEW flag \in Flags, SetSuspended(c, flag)
        PROVE  BE!BoundedNext
    <3>1. phases' = phases
      <4>1. /\ pc[c] = "idle" /\ c \in Threads
            /\ \E next \in {"enter"} : pc' = [pc EXCEPT ![c] = next]
            /\ UNCHANGED <<waiting, finished, cur>>
        BY <2>2 DEF SetSuspended
      <4>2. QED
        BY <1>1, <4>1, QuietRefines
    <3>2. suspended' \in BOOLEAN /\ Limit' = Limit
      BY <2>2, CoreAssumption DEF SetSuspended, Limit
    <3>3. QED
      BY <3>1, <3>2 DEF BE!BoundedNext, BE!Suspend
  <2>3. ASSUME NEW cnt \in Counts, SetMaxConcurrentOperationCount(c, cnt)
        PROVE  BE!BoundedNext
    <3>1. phases' = phases
      <4>1. /\ pc[c] = "idle" /\ c \in Threads
            /\ \E next \in {"enter"} : pc' = [pc EXCEPT ![c] = next]
            /\ UNCHANGED <<waiting, finished, cur>>
        BY <2>3 DEF SetMaxConcurrentOperationCount
      <4>2. QED
        BY <1>1, <4>1, QuietRefines
    <3>2. suspended' = suspended /\ maxThreads' = cnt
      BY <2>3 DEF SetMaxConcurrentOperationCount
    <3>3. Limit' \in Limits
      BY <3>2 DEF Limit, Limits
    <3>4. QED
      BY <3>1, <3>2, <3>3 DEF BE!BoundedNext, BE!SetLimit
  <2>4. QED
    BY <1>1, <2>1, <2>2, <2>3 DEF ClientCall
<1>2. ASSUME NEW t \in Threads, QueueStep(t)
      PROVE  BE!BoundedNext \/ UNCHANGED BE!bvars
  <2>1. CASE EnterExecute(t) /\ UNCHANGED <<starting, cond, threadCount>>
    <3>1. /\ pc[t] = "enter"
          /\ \E next \in {"execute"} : pc' = [pc EXCEPT ![t] = next]
          /\ UNCHANGED <<waiting, maxThreads, suspended, finished, cur, starting>>
      BY <2>1 DEF EnterExecute
    <3>2. phases' = phases
      BY <3>1, QuietRefines
    <3>3. QED
      BY <1>0, <3>1, <3>2
  <2>2. CASE StartNext(t)
    <3>1. PICK o \in Ops : o = Head(waiting)
      BY <2>2, HeadFacts DEF StartNext, StartConcurrent, HandToNewThread, HandDetachFails,
                             HandToPool, Hand, InLoop, CanStart
    <3>2. BE!Start(o)
      <4>1. CASE StartConcurrent(t)
        BY <3>1, <4>1, StartConcurrentRefines
      <4>2. CASE \E w \in Workers : HandToNewThread(t, w)
        <5>1. PICK w \in Workers : HandToNewThread(t, w)
          BY <4>2
        <5>2. /\ w \in Threads /\ Hand(t) /\ pc' = [pc EXCEPT ![w] = "name"]
              /\ pc[w] \notin {"run", "retire"}
          BY <5>1 DEF HandToNewThread
        <5>3. ~Holding(w)
          BY <5>2 DEF Holding
        <5>4. QED
          BY <3>1, <5>2, <5>3, HandRefines
      <4>3. CASE HandDetachFails(t) \/ HandToPool(t)
        <5>1. Hand(t) /\ pc' = pc /\ pc[t] = "execute"
          BY <4>3 DEF HandDetachFails, HandToPool, Hand, InLoop
        <5>2. ~Holding(t)
          BY <5>1 DEF Holding
        <5>3. QED
          BY <3>1, <5>1, <5>2, HandRefines
      <4>4. QED
        BY <2>2, <4>1, <4>2, <4>3 DEF StartNext
    <3>3. QED
      BY <3>2 DEF BE!BoundedNext
  <2>3. CASE ExecuteEnds(t)
    <3>1. PICK next \in {"idle", "poll", "none"} : pc' = [pc EXCEPT ![t] = next]
      BY <2>3, Zenon DEF ExecuteEnds, LeaveExecute
    <3>2. /\ pc[t] = "execute"
          /\ UNCHANGED <<waiting, maxThreads, suspended, finished, cur, starting>>
      BY <2>3 DEF ExecuteEnds, LeaveExecute
    <3>3. phases' = phases
      BY <3>1, <3>2, QuietRefines
    <3>4. QED
      BY <1>0, <3>2, <3>3
  <2>4. CASE FinishOp(t) /\ UNCHANGED <<starting, cond, threadCount>>
    <3>1. PICK o \in Ops : o = cur[t]
      BY <2>4 DEF FinishOp, Inv, TypeOK, CoreTypeOK, CurAgrees
    <3>2. QED
      BY <2>4, <3>1, FinishOpRefines DEF BE!BoundedNext
  <2>5. CASE AfterRun(t)
    <3>1. CASE Retire(t)
      <4>1. PICK o \in Ops : o = cur[t]
        BY <3>1 DEF Retire, Inv, TypeOK, CoreTypeOK, CurAgrees
      <4>2. QED
        BY <2>5, <3>1, <4>1, RetireRefines DEF AfterRun, BE!BoundedNext
    <3>2. CASE RemoveOp(t)
      <4>1. /\ pc[t] = "remove"
            /\ \E next \in {"enter"} : pc' = [pc EXCEPT ![t] = next]
            /\ cur' = [cur EXCEPT ![t] = None]
            /\ UNCHANGED <<waiting, maxThreads, suspended, finished, starting>>
        BY <2>5, <3>2 DEF AfterRun, RemoveOp
      <4>2. phases' = phases
        BY <4>1, QuietRefines
      <4>3. QED
        BY <1>0, <4>1, <4>2
    <3>3. QED
      BY <2>5, <3>1, <3>2 DEF AfterRun
  <2>6. QED
    BY <1>2, <2>1, <2>2, <2>3, <2>4, <2>5 DEF QueueStep
<1>3. ASSUME NEW w \in Workers,
             NameThread(w) \/ GetWork(w) \/ TimeOut(w) \/ GiveUp(w) \/ EndThread(w)
      PROVE  BE!BoundedNext \/ UNCHANGED BE!bvars
  <2>1. CASE GetWork(w)
    <3>1. starting # <<>>
      BY <2>1 DEF GetWork, TakeWork, TakeLateWork
    <3>2. PICK o \in Ops : o = Head(starting)
      BY <3>1, TailSet DEF Inv, TypeOK, OnePlace
    <3>3. QED
      BY <2>1, <3>2, GetWorkRefines DEF BE!BoundedNext
  <2>2. CASE NameThread(w) \/ TimeOut(w) \/ GiveUp(w) \/ EndThread(w)
    <3>1. PICK next \in {"poll", "recheck", "leave", "none"} : pc' = [pc EXCEPT ![w] = next]
      BY <2>2 DEF NameThread, TimeOut, GiveUp, EndThread
    <3>2. /\ pc[w] \notin {"run", "retire"}
          /\ UNCHANGED <<waiting, maxThreads, suspended, finished, cur, starting>>
      BY <2>2 DEF NameThread, TimeOut, GiveUp, EndThread
    <3>3. phases' = phases
      BY <3>1, <3>2, QuietRefines
    <3>4. QED
      BY <1>0, <3>2, <3>3
  <2>3. QED
    BY <1>3, <2>1, <2>2
<1>4. CASE UNCHANGED vars
  <2>1. UNCHANGED <<waiting, maxThreads, suspended, finished, pc, cur, starting>>
    BY <1>4 DEF vars, coreVars
  <2>2. phases' = phases
    BY <2>1 DEF Phase, Waiting, Starting
  <2>3. QED
    BY <1>0, <2>1, <2>2
<1>5. QED
  BY <1>1, <1>2, <1>3, <1>4 DEF Next

\* The pool is a bounded executor: every behaviour of -execute, the observer
\* method and the workers, seen through the phase of each operation, starts an
\* operation once, in order of priority, within the limit and while the queue is
\* not suspended.
THEOREM PoolImplementsBoundedExecutor == Spec => ImplementsBoundedExecutor
<1>1. Init => BE!BoundedInit
  BY InitRefines
<1>2. Inv /\ Inv' /\ [Next]_vars => [BE!BoundedNext]_BE!bvars
  BY StepRefines
<1>3. QED
  BY <1>1, <1>2, PoolInvariant, PTL DEF Spec, ImplementsBoundedExecutor, BE!BoundedSpec

-----------------------------------------------------------------------------
(***************************************************************************)
(* HandoffPool: the accounts, and the refinement.                          *)
(***************************************************************************)
\* An operation is in one place only, and in none after its end.
HandoffOnePlace ==
    /\ OnOneWay
    /\ Waiting \cup Started \cup Running \subseteq operations
    /\ (Waiting \cup Started) \cap finished = {}
    /\ \A t, u \in Threads : cur[t] = cur[u] /\ cur[t] # None => t = u

\* What each kind of thread can be doing.  A concurrent operation's thread
\* does something only from the start of the operation on.
HandoffThreadRoles ==
    /\ \A t \in Clients : pc[t] \in {"idle", "enter", "execute", "handoff"}
    /\ \A t \in Engines : pc[t] \in {"none", "run", "retire", "remove", "enter",
                                     "execute", "handoff"}
    /\ \A t \in Concurrent :
          /\ pc[t] \in {"none", "run", "retire", "remove", "enter", "execute", "handoff"}
          /\ pc[t] \in {"retire", "remove", "enter", "execute", "handoff"} => t \in finished
          /\ cur[t] \in {None, t}

\* A thread has an operation while it runs and retires it; the operation has
\* finished exactly when it is no longer running.
HandoffCurAgrees ==
    \A t \in Threads :
       /\ (cur[t] # None) <=> (pc[t] \in {"run", "retire", "remove"})
       /\ cur[t] # None => /\ cur[t] \in operations
                           /\ cur[t] \notin Waiting \cup Started
                           /\ cur[t] \in finished <=> pc[t] # "run"

\* The inductive invariant.
HandoffInv ==
    /\ HandoffTypeOK
    /\ LockHeldInLoop
    /\ HandoffOnePlace
    /\ HandoffSlotsCounted
    /\ WaitingInOrder
    /\ HandoffThreadRoles
    /\ HandoffCurAgrees

-----------------------------------------------------------------------------
\* The threads, as the constants' assumptions give them.
LEMMA HandoffThreadFacts ==
    /\ Threads = Clients \cup Engines \cup Concurrent
    /\ Clients \cap Engines = {} /\ Clients \cap Concurrent = {}
    /\ Engines \cap Concurrent = {}
    /\ None \notin Threads /\ None \notin Ops
    /\ Concurrent \subseteq Ops
  BY CoreAssumption DEF Threads, Engines

\* What has been started, element by element.
LEMMA StartedIs ==
    \A o : o \in Started <=> \/ o \in ToSet(handed)
                             \/ \E t \in Threads : o \in ToSet(collected[t])
  BY DEF Started

LEMMA StartedIsPrime ==
    \A o : o \in Started' <=> \/ o \in ToSet(handed')
                              \/ \E t \in Threads : o \in ToSet(collected'[t])
  BY DEF Started

\* The slots are finitely many.
LEMMA HandoffSlotsFinite ==
    ASSUME HandoffTypeOK
    PROVE  IsFiniteSet(Started \cup Running) /\ Cardinality(Started \cup Running) \in Nat
<1>1. ToSet(handed) \subseteq Ops
  BY LenProperties, ElementOfSeq DEF HandoffTypeOK, ToSet
<1>2. ASSUME NEW t \in Threads
      PROVE  ToSet(collected[t]) \subseteq Ops
  <2>1. collected[t] \in Seq(Ops)
    BY DEF HandoffTypeOK
  <2>2. QED
    BY <2>1, LenProperties, ElementOfSeq DEF ToSet
<1>3. Started \subseteq Ops
  BY <1>1, <1>2, StartedIs
<1>4. Running \subseteq Ops
  BY DEF Running
<1>5. QED
  BY <1>3, <1>4, CoreAssumption, FS_Subset, FS_CardinalityType

\* A thread that goes from one place outside an operation to another.
LEMMA HandoffRunningUnmoved ==
    ASSUME NEW t \in Threads, NEW next, HandoffTypeOK,
           ~Holding(t), next \notin {"run", "retire"},
           cur' = cur, pc' = [pc EXCEPT ![t] = next]
    PROVE  Running' = Running
  BY DEF Running, Holding, HandoffTypeOK

-----------------------------------------------------------------------------
\* The calls of clients.

LEMMA HandoffAddOperationInv ==
    ASSUME HandoffInv, NEW c \in Clients, NEW o \in Ops, AddOperation(c, o),
           UNCHANGED <<collected, handed>>
    PROVE  HandoffInv'
<1> USE HandoffThreadFacts
<1>0. c \in Threads /\ c # None /\ c \notin Engines
  OBVIOUS
<1>1. PICK k \in 0..Len(waiting) :
          IsInsertionPoint(waiting, k, o) /\ waiting' = InsertAt(waiting, k + 1, o)
  BY InsertWaitingPoint DEF AddOperation, HandoffInv, HandoffTypeOK, CoreTypeOK,
       WaitingInOrder
<1>2. waiting \in Seq(Ops)
  BY DEF HandoffInv, HandoffTypeOK, CoreTypeOK
<1>3. /\ waiting' \in Seq(Ops)
      /\ Waiting' = Waiting \cup {o}
      /\ o \notin Waiting => Distinct(waiting')
  BY <1>1, <1>2, InsertAtElements, InsertAtSet DEF HandoffInv, HandoffOnePlace, OnOneWay,
       Waiting
<1>4. Started' = Started
  BY DEF Started
<1>5. Running' = Running
  <2>1. ~Holding(c) /\ cur' = cur /\ pc' = [pc EXCEPT ![c] = "execute"]
    BY DEF AddOperation, Holding
  <2>2. QED
    BY <1>0, <2>1, HandoffRunningUnmoved DEF HandoffInv
<1>6. HandoffTypeOK'
  BY <1>0, <1>3 DEF HandoffInv, HandoffTypeOK, CoreTypeOK, AddOperation
<1>7. LockHeldInLoop'
  BY <1>0 DEF HandoffInv, HandoffTypeOK, LockHeldInLoop, AddOperation
<1>8. HandoffOnePlace'
  BY <1>3, <1>4, <1>5 DEF HandoffInv, HandoffOnePlace, OnOneWay, AddOperation
<1>9. HandoffSlotsCounted'
  BY <1>4, <1>5 DEF HandoffInv, HandoffSlotsCounted, AddOperation
<1>10. WaitingInOrder'
  BY <1>1, <1>2, InOrderInsert DEF HandoffInv, WaitingInOrder
<1>11. HandoffThreadRoles'
  BY <1>0 DEF HandoffInv, HandoffTypeOK, HandoffThreadRoles, AddOperation
<1>12. HandoffCurAgrees'
  BY <1>0, <1>3, <1>4 DEF HandoffInv, HandoffTypeOK, HandoffCurAgrees, AddOperation
<1>13. QED
  BY <1>6, <1>7, <1>8, <1>9, <1>10, <1>11, <1>12 DEF HandoffInv

\* A step that moves one thread from one place outside an operation to another
\* and touches no operation.
LEMMA HandoffQuietStep ==
    ASSUME HandoffInv, NEW t \in Threads, NEW next,
           pc' = [pc EXCEPT ![t] = next],
           pc[t] \notin {"run", "retire", "remove"},
           next \notin {"run", "retire", "remove"},
           UNCHANGED <<operations, waiting, executing, finished, cur, collected, handed>>,
           HandoffTypeOK', LockHeldInLoop', HandoffThreadRoles'
    PROVE  HandoffInv'
<1>1. Running' = Running
  BY HandoffRunningUnmoved DEF HandoffInv, Holding
<1>2. Waiting' = Waiting /\ Started' = Started
  BY DEF Waiting, Started
<1>3. HandoffOnePlace' /\ HandoffSlotsCounted' /\ WaitingInOrder'
  BY <1>1, <1>2 DEF HandoffInv, HandoffOnePlace, OnOneWay, HandoffSlotsCounted,
       WaitingInOrder
<1>4. HandoffCurAgrees'
  BY <1>2 DEF HandoffInv, HandoffTypeOK, HandoffCurAgrees
<1>5. QED
  BY <1>3, <1>4 DEF HandoffInv

LEMMA HandoffSetSuspendedInv ==
    ASSUME HandoffInv, NEW c \in Clients, NEW flag \in Flags, SetSuspended(c, flag),
           UNCHANGED <<collected, handed>>
    PROVE  HandoffInv'
<1> USE HandoffThreadFacts
<1>1. HandoffTypeOK' /\ LockHeldInLoop' /\ HandoffThreadRoles'
  BY CoreAssumption
     DEF HandoffInv, HandoffTypeOK, CoreTypeOK, LockHeldInLoop, HandoffThreadRoles,
          SetSuspended
<1>2. QED
  BY <1>1, HandoffQuietStep DEF SetSuspended

LEMMA HandoffSetMaxInv ==
    ASSUME HandoffInv, NEW c \in Clients, NEW cnt \in Counts,
           SetMaxConcurrentOperationCount(c, cnt),
           UNCHANGED <<collected, handed>>
    PROVE  HandoffInv'
<1> USE HandoffThreadFacts
<1>1. HandoffTypeOK' /\ LockHeldInLoop' /\ HandoffThreadRoles'
  BY CoreAssumption DEF HandoffInv, HandoffTypeOK, CoreTypeOK, LockHeldInLoop,
       HandoffThreadRoles,
                        SetMaxConcurrentOperationCount
<1>2. QED
  BY <1>1, HandoffQuietStep DEF SetMaxConcurrentOperationCount

-----------------------------------------------------------------------------
\* The steps of -execute.

LEMMA HandoffEnterExecuteInv ==
    ASSUME HandoffInv, NEW t \in Threads, EnterExecute(t), UNCHANGED <<collected, handed>>
    PROVE  HandoffInv'
<1> USE HandoffThreadFacts
<1>1. HandoffTypeOK' /\ LockHeldInLoop' /\ HandoffThreadRoles'
  BY DEF HandoffInv, HandoffTypeOK, CoreTypeOK, LockHeldInLoop, HandoffThreadRoles,
       EnterExecute
<1>2. QED
  BY <1>1, HandoffQuietStep DEF EnterExecute

LEMMA CollectEndsInv ==
    ASSUME HandoffInv, NEW t \in Threads, CollectEnds(t)
    PROVE  HandoffInv'
<1> USE HandoffThreadFacts
<1>1. HandoffTypeOK' /\ LockHeldInLoop' /\ HandoffThreadRoles'
  BY DEF HandoffInv, HandoffTypeOK, CoreTypeOK, LockHeldInLoop, HandoffThreadRoles,
       CollectEnds, LeaveExecute
<1>2. QED
  BY <1>1, HandoffQuietStep DEF CollectEnds, LeaveExecute

LEMMA HandoffEndsInv ==
    ASSUME HandoffInv, NEW t \in Threads, HandoffEnds(t)
    PROVE  HandoffInv'
<1> USE HandoffThreadFacts
<1> DEFINE next == IF t \in Clients THEN "idle" ELSE "none"
<1>1. /\ pc[t] = "handoff" /\ pc' = [pc EXCEPT ![t] = next]
      /\ UNCHANGED <<lock, operations, waiting, executing, maxThreads, suspended, finished,
                     cur, collected, handed>>
  BY DEF HandoffEnds
<1>2. next \in {"idle", "none"} /\ (t \in Clients <=> next = "idle")
  OBVIOUS
<1> HIDE DEF next
<1>3. HandoffTypeOK' /\ LockHeldInLoop' /\ HandoffThreadRoles'
  BY <1>1, <1>2 DEF HandoffInv, HandoffTypeOK, CoreTypeOK, LockHeldInLoop,
       HandoffThreadRoles
<1>4. QED
  BY <1>1, <1>2, <1>3, HandoffQuietStep

\* What the loop of -execute takes: the first of those waiting, which has not
\* been started, run or finished.
LEMMA HandoffHeadFacts ==
    ASSUME HandoffInv, waiting # <<>>
    PROVE  /\ Head(waiting) \in Waiting /\ Head(waiting) \in Ops
           /\ Head(waiting) \in operations /\ Head(waiting) \notin finished
           /\ Head(waiting) \notin Started \cup Running
           /\ \A t \in Threads : cur[t] # Head(waiting)
           /\ Tail(waiting) \in Seq(Ops)
           /\ ToSet(Tail(waiting)) = Waiting \ {Head(waiting)}
           /\ Distinct(Tail(waiting))
           /\ InPriorityOrder(Tail(waiting))
<1>1. waiting \in Seq(Ops) /\ Distinct(waiting) /\ InPriorityOrder(waiting)
  BY DEF HandoffInv, HandoffTypeOK, CoreTypeOK, HandoffOnePlace, OnOneWay, WaitingInOrder
<1>2. /\ Head(waiting) \in Waiting /\ Head(waiting) \in Ops
      /\ Tail(waiting) \in Seq(Ops)
      /\ ToSet(Tail(waiting)) = Waiting \ {Head(waiting)}
      /\ Distinct(Tail(waiting))
      /\ InPriorityOrder(Tail(waiting))
  BY <1>1, TailSet, InOrderTail DEF Waiting
<1>3. QED
  BY <1>2, HandoffThreadFacts DEF HandoffInv, HandoffOnePlace, OnOneWay, HandoffCurAgrees

\* It is counted, and goes to the end of what the thread has collected.
LEMMA CollectFacts ==
    ASSUME HandoffInv, NEW t \in Threads, Collect(t)
    PROVE  LET o == Head(waiting)
           IN  /\ o \in Ops /\ o \in Waiting
               /\ waiting' \in Seq(Ops) /\ collected' \in [Threads -> Seq(Ops)]
               /\ Waiting' = Waiting \ {o}
               /\ Started' = Started \cup {o}
               /\ Running' = Running
               /\ HandoffOnePlace'
               /\ InPriorityOrder(waiting')
<1> USE HandoffThreadFacts
<1> DEFINE o == Head(waiting)
<1>0. /\ waiting # <<>> /\ waiting' = Tail(waiting)
      /\ collected' = [collected EXCEPT ![t] = Append(collected[t], o)]
      /\ UNCHANGED <<lock, operations, maxThreads, suspended, finished, pc, cur, handed>>
  BY DEF Collect, CanStart, TakeHead
<1>1. /\ o \in Waiting /\ o \in Ops /\ o \in operations /\ o \notin finished
      /\ o \notin Started \cup Running
      /\ \A u \in Threads : cur[u] # o
      /\ waiting' \in Seq(Ops)
      /\ Waiting' = Waiting \ {o}
      /\ Distinct(waiting')
      /\ InPriorityOrder(waiting')
  BY <1>0, HandoffHeadFacts DEF Waiting
<1> HIDE DEF o
<1>2. /\ collected \in [Threads -> Seq(Ops)] /\ collected[t] \in Seq(Ops)
      /\ Distinct(collected[t]) /\ o \notin ToSet(collected[t])
  BY <1>1, StartedIs DEF HandoffInv, HandoffTypeOK, HandoffOnePlace, OnOneWay
<1>3. /\ Append(collected[t], o) \in Seq(Ops)
      /\ ToSet(Append(collected[t], o)) = ToSet(collected[t]) \cup {o}
      /\ Distinct(Append(collected[t], o))
  BY <1>1, <1>2, AppendSet
<1>4. /\ collected' \in [Threads -> Seq(Ops)]
      /\ ToSet(collected'[t]) = ToSet(collected[t]) \cup {o}
      /\ Distinct(collected'[t])
      /\ \A u \in Threads \ {t} : collected'[u] = collected[u]
  BY <1>0, <1>2, <1>3
<1>5. Started' = Started \cup {o}
  BY <1>0, <1>4, StartedIs, StartedIsPrime
<1>6. Running' = Running
  BY <1>0 DEF Running, Holding
<1>7. o \notin ToSet(handed) /\ \A u \in Threads : o \notin ToSet(collected[u])
  BY <1>1, StartedIs
<1>8. OnOneWay'
  <2>1. /\ Distinct(waiting') /\ Distinct(handed')
        /\ Waiting' \cap Started' = {}
        /\ (Waiting' \cup Started') \cap Running' = {}
    BY <1>0, <1>1, <1>5, <1>6 DEF HandoffInv, HandoffOnePlace, OnOneWay
  <2>2. ASSUME NEW u \in Threads
        PROVE  /\ Distinct(collected'[u])
               /\ ToSet(collected'[u]) \cap ToSet(handed') = {}
    BY <1>0, <1>4, <1>7 DEF HandoffInv, HandoffOnePlace, OnOneWay
  <2>3. ASSUME NEW u \in Threads, NEW v \in Threads \ {u}
        PROVE  ToSet(collected'[u]) \cap ToSet(collected'[v]) = {}
    <3>1. ToSet(collected[u]) \cap ToSet(collected[v]) = {}
      BY DEF HandoffInv, HandoffOnePlace, OnOneWay
    <3>2. CASE u = t
      BY <1>4, <1>7, <3>1, <3>2
    <3>3. CASE v = t
      BY <1>4, <1>7, <3>1, <3>3
    <3>4. CASE u # t /\ v # t
      BY <1>4, <3>1, <3>4
    <3>5. QED
      BY <3>2, <3>3, <3>4
  <2>4. QED
    BY <2>1, <2>2, <2>3 DEF OnOneWay
<1>9. HandoffOnePlace'
  BY <1>0, <1>1, <1>5, <1>6, <1>8 DEF HandoffInv, HandoffOnePlace
<1>10. QED
  BY <1>1, <1>4, <1>5, <1>6, <1>9 DEF o

LEMMA CollectInv ==
    ASSUME HandoffInv, NEW t \in Threads, Collect(t)
    PROVE  HandoffInv'
<1>0. /\ executing' = executing + 1
      /\ UNCHANGED <<lock, operations, maxThreads, suspended, finished, pc, cur, handed>>
      /\ waiting # <<>>
  BY DEF Collect, TakeHead, CanStart
<1>1. PICK o \in Ops :
          /\ waiting' \in Seq(Ops) /\ collected' \in [Threads -> Seq(Ops)]
          /\ o \in Waiting /\ o \notin Started \cup Running
          /\ Waiting' = Waiting \ {o} /\ Started' = Started \cup {o} /\ Running' = Running
          /\ HandoffOnePlace' /\ InPriorityOrder(waiting')
  BY <1>0, CollectFacts, HandoffHeadFacts
<1>2. (Started \cup Running)' = (Started \cup Running) \cup {o}
  BY <1>1
<1>3. Cardinality((Started \cup Running)') = Cardinality(Started \cup Running) + 1
  BY <1>1, <1>2, HandoffSlotsFinite, FS_AddElement DEF HandoffInv
<1>4. HandoffSlotsCounted' /\ executing' \in Nat
  BY <1>0, <1>3, HandoffSlotsFinite DEF HandoffInv, HandoffSlotsCounted
<1>5. HandoffTypeOK' /\ LockHeldInLoop' /\ HandoffThreadRoles' /\ WaitingInOrder'
  BY <1>0, <1>1, <1>4
     DEF HandoffInv, HandoffTypeOK, CoreTypeOK, LockHeldInLoop, HandoffThreadRoles,
          WaitingInOrder
<1>6. HandoffCurAgrees'
  BY <1>0, <1>1 DEF HandoffInv, HandoffCurAgrees
<1>7. QED
  BY <1>1, <1>4, <1>5, <1>6 DEF HandoffInv

\* An operation goes from what a thread has collected to the engine's list: it
\* stays started, and stays in one list.
LEMMA HandOverFacts ==
    ASSUME HandoffInv, NEW t \in Threads, HandOver(t)
    PROVE  /\ handed' \in Seq(Ops) /\ collected' \in [Threads -> Seq(Ops)]
           /\ Started' = Started /\ Running' = Running /\ Waiting' = Waiting
           /\ HandoffOnePlace'
<1> DEFINE o == Head(collected[t])
<1>0. /\ collected[t] # <<>>
      /\ handed' = Append(handed, o)
      /\ collected' = [collected EXCEPT ![t] = Tail(collected[t])]
      /\ UNCHANGED <<lock, operations, waiting, executing, maxThreads, suspended,
                     finished, pc, cur>>
  BY DEF HandOver, coreVars
<1>1. /\ collected \in [Threads -> Seq(Ops)] /\ collected[t] \in Seq(Ops)
      /\ Distinct(collected[t]) /\ handed \in Seq(Ops) /\ Distinct(handed)
  BY DEF HandoffInv, HandoffTypeOK, HandoffOnePlace, OnOneWay
<1>2. /\ o \in Ops /\ o \in ToSet(collected[t])
      /\ Tail(collected[t]) \in Seq(Ops)
      /\ ToSet(Tail(collected[t])) = ToSet(collected[t]) \ {o}
      /\ Distinct(Tail(collected[t]))
  BY <1>0, <1>1, TailSet
<1> HIDE DEF o
<1>3. /\ o \notin ToSet(handed)
      /\ \A u \in Threads \ {t} : o \notin ToSet(collected[u])
  BY <1>2 DEF HandoffInv, HandoffOnePlace, OnOneWay
<1>4. /\ handed' \in Seq(Ops) /\ Distinct(handed')
      /\ ToSet(handed') = ToSet(handed) \cup {o}
  BY <1>0, <1>1, <1>2, <1>3, AppendSet
<1>5. /\ collected' \in [Threads -> Seq(Ops)]
      /\ ToSet(collected'[t]) = ToSet(collected[t]) \ {o}
      /\ Distinct(collected'[t])
      /\ \A u \in Threads \ {t} : collected'[u] = collected[u]
  BY <1>0, <1>1, <1>2
<1>6. Started' = Started
  <2>1. ASSUME NEW p
        PROVE  p \in Started' <=> p \in Started
    <3>1. p \in ToSet(handed') <=> p \in ToSet(handed) \/ p = o
      BY <1>4
    <3>2. \A u \in Threads : p \in ToSet(collected'[u])
                                <=> p \in ToSet(collected[u]) /\ ~(u = t /\ p = o)
      BY <1>5
    <3>3. CASE p = o
      BY <1>2, <3>1, <3>3, StartedIs, StartedIsPrime
    <3>4. CASE p # o
      BY <3>1, <3>2, <3>4, StartedIs, StartedIsPrime, Zenon
    <3>5. QED
      BY <3>3, <3>4
  <2>2. QED
    BY <2>1
<1>7. Running' = Running /\ Waiting' = Waiting
  BY <1>0 DEF Running, Holding, Waiting
<1>8. OnOneWay'
  <2>1. /\ Distinct(waiting') /\ Distinct(handed')
        /\ Waiting' \cap Started' = {}
        /\ (Waiting' \cup Started') \cap Running' = {}
    BY <1>0, <1>4, <1>6, <1>7 DEF HandoffInv, HandoffOnePlace, OnOneWay
  <2>2. ASSUME NEW u \in Threads
        PROVE  /\ Distinct(collected'[u])
               /\ ToSet(collected'[u]) \cap ToSet(handed') = {}
    BY <1>3, <1>4, <1>5 DEF HandoffInv, HandoffOnePlace, OnOneWay
  <2>3. ASSUME NEW u \in Threads, NEW v \in Threads \ {u}
        PROVE  ToSet(collected'[u]) \cap ToSet(collected'[v]) = {}
    BY <1>5 DEF HandoffInv, HandoffOnePlace, OnOneWay
  <2>4. QED
    BY <2>1, <2>2, <2>3 DEF OnOneWay
<1>9. HandoffOnePlace'
  BY <1>0, <1>6, <1>7, <1>8 DEF HandoffInv, HandoffOnePlace
<1>10. QED
  BY <1>4, <1>5, <1>6, <1>7, <1>9

LEMMA HandOverInv ==
    ASSUME HandoffInv, NEW t \in Threads, HandOver(t)
    PROVE  HandoffInv'
<1>0. UNCHANGED <<lock, operations, waiting, executing, maxThreads, suspended,
                  finished, pc, cur>>
  BY DEF HandOver, coreVars
<1>1. /\ handed' \in Seq(Ops) /\ collected' \in [Threads -> Seq(Ops)]
      /\ Started' = Started /\ Running' = Running /\ Waiting' = Waiting /\ HandoffOnePlace'
  BY HandOverFacts
<1>2. HandoffTypeOK' /\ LockHeldInLoop' /\ HandoffThreadRoles' /\ WaitingInOrder'
  BY <1>0, <1>1 DEF HandoffInv, HandoffTypeOK, CoreTypeOK, LockHeldInLoop,
       HandoffThreadRoles, WaitingInOrder
<1>3. HandoffSlotsCounted' /\ HandoffCurAgrees'
  BY <1>0, <1>1 DEF HandoffInv, HandoffSlotsCounted, HandoffCurAgrees
<1>4. QED
  BY <1>1, <1>2, <1>3 DEF HandoffInv

-----------------------------------------------------------------------------
\* The life of an operation on a thread of the engine.

\* What a thread has that runs or retires an operation.
LEMMA HolderFacts ==
    ASSUME HandoffInv, NEW t \in Threads, pc[t] \in {"run", "retire", "remove"}
    PROVE  /\ cur[t] \in Ops /\ cur[t] # None /\ cur[t] \notin Waiting \cup Started
           /\ \A u \in Threads : cur[u] = cur[t] => u = t
  BY DEF HandoffInv, HandoffTypeOK, CoreTypeOK, HandoffCurAgrees, HandoffOnePlace

LEMMA HandoffFinishOpInv ==
    ASSUME HandoffInv, NEW t \in Threads, FinishOp(t), UNCHANGED <<collected, handed>>
    PROVE  HandoffInv'
<1> USE HandoffThreadFacts
<1>1. /\ pc[t] = "run" /\ pc' = [pc EXCEPT ![t] = "retire"]
      /\ finished' = finished \cup {cur[t]}
      /\ UNCHANGED <<lock, operations, waiting, executing, maxThreads, suspended, cur>>
  BY DEF FinishOp
<1>2. /\ cur[t] \in Ops /\ cur[t] # None /\ cur[t] \notin Waiting \cup Started
      /\ \A u \in Threads : cur[u] = cur[t] => u = t
  BY <1>1, HolderFacts
<1>3. Running' = Running
  BY <1>1 DEF HandoffInv, HandoffTypeOK, Running, Holding
<1>4. Waiting' = Waiting /\ Started' = Started
  BY <1>1 DEF Waiting, Started
<1>5. HandoffTypeOK' /\ LockHeldInLoop'
  BY <1>1, <1>2 DEF HandoffInv, HandoffTypeOK, CoreTypeOK, LockHeldInLoop
<1>6. HandoffOnePlace' /\ HandoffSlotsCounted' /\ WaitingInOrder'
  BY <1>1, <1>2, <1>3, <1>4
     DEF HandoffInv, HandoffOnePlace, OnOneWay, HandoffSlotsCounted, WaitingInOrder
<1>7. HandoffThreadRoles'
  BY <1>1, <1>2 DEF HandoffInv, HandoffTypeOK, CoreTypeOK, HandoffThreadRoles
<1>8. HandoffCurAgrees'
  BY <1>1, <1>2, <1>4 DEF HandoffInv, HandoffTypeOK, HandoffCurAgrees
<1>9. QED
  BY <1>5, <1>6, <1>7, <1>8 DEF HandoffInv

LEMMA HandoffRetireInv ==
    ASSUME HandoffInv, NEW t \in Threads, Retire(t), UNCHANGED <<collected, handed>>
    PROVE  HandoffInv'
<1> USE HandoffThreadFacts
<1>1. /\ pc[t] = "retire" /\ pc' = [pc EXCEPT ![t] = "remove"]
      /\ executing' = executing - 1
      /\ UNCHANGED <<lock, operations, waiting, maxThreads, suspended, finished, cur>>
  BY DEF Retire
<1>2. /\ cur[t] \in Ops /\ cur[t] # None /\ cur[t] \notin Waiting \cup Started
      /\ \A u \in Threads : cur[u] = cur[t] => u = t
  BY <1>1, HolderFacts
<1>3. Running' = Running \ {cur[t]} /\ cur[t] \in Running
  BY <1>1, <1>2 DEF HandoffInv, HandoffTypeOK, Running, Holding
<1>4. Waiting' = Waiting /\ Started' = Started
  BY <1>1 DEF Waiting, Started
<1>5. (Started \cup Running)' = (Started \cup Running) \ {cur[t]}
  BY <1>2, <1>3, <1>4
<1>6. /\ Cardinality((Started \cup Running)') = Cardinality(Started \cup Running) - 1
      /\ Cardinality((Started \cup Running)') \in Nat
  BY <1>3, <1>5, HandoffSlotsFinite, FS_RemoveElement, FS_CardinalityType DEF HandoffInv
<1>7. HandoffSlotsCounted' /\ executing' \in Nat
  BY <1>1, <1>6 DEF HandoffInv, HandoffSlotsCounted
<1>8. HandoffTypeOK' /\ LockHeldInLoop'
  BY <1>1, <1>7 DEF HandoffInv, HandoffTypeOK, CoreTypeOK, LockHeldInLoop
<1>9. HandoffOnePlace' /\ WaitingInOrder'
  BY <1>1, <1>3, <1>4 DEF HandoffInv, HandoffOnePlace, OnOneWay, WaitingInOrder
<1>10. HandoffThreadRoles' /\ HandoffCurAgrees'
  BY <1>1, <1>4 DEF HandoffInv, HandoffTypeOK, HandoffThreadRoles, HandoffCurAgrees
<1>11. QED
  BY <1>7, <1>8, <1>9, <1>10 DEF HandoffInv

LEMMA HandoffRemoveOpInv ==
    ASSUME HandoffInv, NEW t \in Threads, RemoveOp(t), UNCHANGED <<collected, handed>>
    PROVE  HandoffInv'
<1> USE HandoffThreadFacts
<1>1. /\ pc[t] = "remove" /\ pc' = [pc EXCEPT ![t] = "enter"]
      /\ operations' = operations \ {cur[t]}
      /\ cur' = [cur EXCEPT ![t] = None]
      /\ UNCHANGED <<lock, waiting, executing, maxThreads, suspended, finished>>
  BY DEF RemoveOp
<1>2. /\ cur[t] \in Ops /\ cur[t] # None /\ cur[t] \notin Waiting \cup Started
      /\ \A u \in Threads : cur[u] = cur[t] => u = t
  BY <1>1, HolderFacts
<1>3. Running' = Running /\ cur[t] \notin Running
  BY <1>1, <1>2 DEF HandoffInv, HandoffTypeOK, CoreTypeOK, Running, Holding
<1>4. Waiting' = Waiting /\ Started' = Started
  BY <1>1 DEF Waiting, Started
<1>5. HandoffTypeOK' /\ LockHeldInLoop'
  BY <1>1 DEF HandoffInv, HandoffTypeOK, CoreTypeOK, LockHeldInLoop
<1>6. HandoffOnePlace'
  BY <1>1, <1>2, <1>3, <1>4 DEF HandoffInv, HandoffTypeOK, CoreTypeOK, HandoffOnePlace,
       OnOneWay
<1>7. HandoffSlotsCounted' /\ WaitingInOrder'
  BY <1>1, <1>3, <1>4 DEF HandoffInv, HandoffSlotsCounted, WaitingInOrder
<1>8. HandoffThreadRoles'
  BY <1>1, <1>2 DEF HandoffInv, HandoffTypeOK, CoreTypeOK, HandoffThreadRoles,
       HandoffCurAgrees
<1>9. HandoffCurAgrees'
  BY <1>1, <1>2, <1>4 DEF HandoffInv, HandoffTypeOK, CoreTypeOK, HandoffCurAgrees
<1>10. QED
  BY <1>5, <1>6, <1>7, <1>8, <1>9 DEF HandoffInv

\* The engine takes the first operation it was handed, to a thread that has none.
LEMMA BeginFacts ==
    ASSUME HandoffInv, NEW e \in Engines, Begin(e)
    PROVE  \E o \in Ops : \E t \in Threads :
               /\ o = Head(handed)
               /\ o \in Concurrent => t = o
               /\ o \notin Concurrent => t = e
               /\ pc[t] = "none" /\ cur[t] = None
               /\ pc' = [pc EXCEPT ![t] = "run"] /\ cur' = [cur EXCEPT ![t] = o]
               /\ handed' \in Seq(Ops) /\ Distinct(handed')
               /\ o \in ToSet(handed) /\ ToSet(handed') = ToSet(handed) \ {o}
               /\ o \in Started /\ o \notin Waiting \cup Running
               /\ o \in operations /\ o \notin finished
               /\ \A u \in Threads : cur[u] # o
               /\ Started' = Started \ {o}
               /\ Running' = Running \cup {o}
<1> USE HandoffThreadFacts
<1> DEFINE o == Head(handed)
           t == IF o \in Concurrent THEN o ELSE e
<1>1. /\ pc[e] = "none" /\ handed # <<>> /\ handed' = Tail(handed)
      /\ pc' = [pc EXCEPT ![t] = "run"] /\ cur' = [cur EXCEPT ![t] = o]
      /\ UNCHANGED collected
  BY DEF Begin
<1>2. handed \in Seq(Ops) /\ Distinct(handed)
  BY DEF HandoffInv, HandoffTypeOK, HandoffOnePlace, OnOneWay
<1>3. /\ o \in Ops /\ o \in ToSet(handed)
      /\ handed' \in Seq(Ops) /\ Distinct(handed')
      /\ ToSet(handed') = ToSet(handed) \ {o}
  BY <1>1, <1>2, TailSet
<1>4. t \in Threads /\ (o \in Concurrent => t = o) /\ (o \notin Concurrent => t = e)
  BY <1>3
<1> HIDE DEF o, t
<1>5. o \in Started
  BY <1>3, StartedIs
<1>6. /\ o \notin Waiting \cup Running /\ o \in operations /\ o \notin finished
      /\ \A u \in Threads : cur[u] # o
  BY <1>3, <1>5 DEF HandoffInv, HandoffOnePlace, OnOneWay, HandoffCurAgrees
<1>7. pc[t] = "none" /\ cur[t] = None
  <2>1. CASE o \in Concurrent
    BY <1>4, <1>6, <2>1 DEF HandoffInv, HandoffThreadRoles, HandoffCurAgrees
  <2>2. CASE o \notin Concurrent
    BY <1>1, <1>4, <2>2 DEF HandoffInv, HandoffCurAgrees
  <2>3. QED
    BY <2>1, <2>2
<1>8. \A u \in Threads : o \notin ToSet(collected[u])
  BY <1>3 DEF HandoffInv, HandoffOnePlace, OnOneWay
<1>9. Started' = Started \ {o}
  BY <1>1, <1>3, <1>8, StartedIs, StartedIsPrime
<1>10. Running' = Running \cup {o}
  BY <1>1, <1>3, <1>4, <1>6, <1>7 DEF HandoffInv, HandoffTypeOK, CoreTypeOK, Running,
       Holding
<1>11. QED
  BY <1>1, <1>3, <1>4, <1>5, <1>6, <1>7, <1>9, <1>10 DEF o

LEMMA BeginInv ==
    ASSUME HandoffInv, NEW e \in Engines, Begin(e)
    PROVE  HandoffInv'
<1> USE HandoffThreadFacts
<1>1. UNCHANGED <<lock, operations, waiting, executing, maxThreads, suspended,
                  finished, collected>>
  BY DEF Begin
<1>2. PICK o \in Ops, t \in Threads :
               /\ o \in Concurrent => t = o
               /\ o \notin Concurrent => t = e
               /\ pc[t] = "none" /\ cur[t] = None
               /\ pc' = [pc EXCEPT ![t] = "run"] /\ cur' = [cur EXCEPT ![t] = o]
               /\ handed' \in Seq(Ops) /\ Distinct(handed')
               /\ ToSet(handed') = ToSet(handed) \ {o}
               /\ o \in Started /\ o \notin Waiting \cup Running
               /\ o \in operations /\ o \notin finished
               /\ \A u \in Threads : cur[u] # o
               /\ Started' = Started \ {o}
               /\ Running' = Running \cup {o}
  BY BeginFacts
<1>3. Waiting' = Waiting
  BY <1>1 DEF Waiting
<1>4. HandoffTypeOK' /\ LockHeldInLoop' /\ WaitingInOrder'
  BY <1>1, <1>2 DEF HandoffInv, HandoffTypeOK, CoreTypeOK, LockHeldInLoop, WaitingInOrder
<1>5. OnOneWay'
  <2>1. /\ Distinct(waiting') /\ Distinct(handed')
        /\ Waiting' \cap Started' = {}
        /\ (Waiting' \cup Started') \cap Running' = {}
    <3>1. /\ Distinct(waiting) /\ Waiting \cap Started = {}
          /\ (Waiting \cup Started) \cap Running = {}
      BY DEF HandoffInv, HandoffOnePlace, OnOneWay
    <3>2. QED
      BY <1>1, <1>2, <1>3, <3>1
  <2>2. ASSUME NEW u \in Threads
        PROVE  /\ Distinct(collected'[u])
               /\ ToSet(collected'[u]) \cap ToSet(handed') = {}
               /\ \A v \in Threads \ {u} :
                     ToSet(collected'[u]) \cap ToSet(collected'[v]) = {}
    <3>1. /\ Distinct(collected[u])
          /\ ToSet(collected[u]) \cap ToSet(handed) = {}
          /\ \A v \in Threads \ {u} : ToSet(collected[u]) \cap ToSet(collected[v]) = {}
      BY DEF HandoffInv, HandoffOnePlace, OnOneWay
    <3>2. QED
      BY <1>1, <1>2, <3>1
  <2>3. QED
    BY <2>1, <2>2 DEF OnOneWay
<1>6. HandoffOnePlace'
  BY <1>1, <1>2, <1>3, <1>5 DEF HandoffInv, HandoffTypeOK, CoreTypeOK, HandoffOnePlace
<1>7. (Started \cup Running)' = Started \cup Running
  BY <1>2
<1>8. HandoffSlotsCounted'
  BY <1>1, <1>7 DEF HandoffInv, HandoffSlotsCounted
<1>9. HandoffThreadRoles'
  BY <1>1, <1>2 DEF HandoffInv, HandoffTypeOK, CoreTypeOK, HandoffThreadRoles
<1>10. HandoffCurAgrees'
  BY <1>1, <1>2, <1>3 DEF HandoffInv, HandoffTypeOK, CoreTypeOK, HandoffCurAgrees
<1>11. QED
  BY <1>4, <1>6, <1>8, <1>9, <1>10 DEF HandoffInv

-----------------------------------------------------------------------------
LEMMA HandoffInitInv == HandoffInit => HandoffInv
<1> USE HandoffThreadFacts
<1> SUFFICES ASSUME HandoffInit PROVE HandoffInv
  OBVIOUS
<1>1. /\ lock = None /\ operations = {} /\ waiting = <<>> /\ executing = 0
      /\ maxThreads = InitialCount /\ suspended = FALSE /\ finished = {}
      /\ cur = [t \in Threads |-> None]
      /\ pc = [t \in Threads |-> IF t \in Clients THEN "idle" ELSE "none"]
      /\ collected = [t \in Threads |-> <<>>] /\ handed = <<>>
  BY DEF HandoffInit, CoreInit
<1>2. <<>> \in Seq(Ops) /\ Len(<<>>) = 0 /\ ToSet(<<>>) = {} /\ Distinct(<<>>)
  BY EmptySeq DEF ToSet, Distinct
<1>3. \A t \in Threads : collected[t] = <<>>
  BY <1>1
<1>4. Waiting = {} /\ Started = {} /\ Running = {}
  <2>1. Waiting = {} /\ Running = {}
    BY <1>1, <1>2 DEF Waiting, Running, Holding
  <2>2. Started = {}
    BY <1>1, <1>2, <1>3, StartedIs
  <2>3. QED
    BY <2>1, <2>2
<1>5. HandoffTypeOK
  <2>1. pc \in [Threads -> {"idle", "none"}] /\ cur \in [Threads -> Ops \cup {None}]
    BY <1>1
  <2>2. pc \in [Threads -> {"idle", "enter", "execute", "handoff", "none",
                           "run", "retire", "remove"}]
    BY <2>1
  <2>3. collected \in [Threads -> Seq(Ops)] /\ handed \in Seq(Ops)
    BY <1>1, <1>2
  <2>4. CoreTypeOK
    BY <1>1, <1>2, <2>1 DEF CoreTypeOK
  <2>5. QED
    BY <2>2, <2>3, <2>4 DEF HandoffTypeOK
<1>6. LockHeldInLoop /\ WaitingInOrder
  BY <1>1 DEF LockHeldInLoop, WaitingInOrder, InPriorityOrder
<1>7. OnOneWay
  <2>1. Distinct(waiting) /\ Distinct(handed)
    BY <1>1, <1>2
  <2>2. \A t \in Threads : Distinct(collected[t]) /\ ToSet(collected[t]) = {}
    BY <1>2, <1>3
  <2>3. QED
    BY <1>4, <2>1, <2>2 DEF OnOneWay
<1>8. HandoffOnePlace
  BY <1>1, <1>4, <1>7 DEF HandoffOnePlace
<1>9. HandoffSlotsCounted
  <2>1. Started \cup Running = {}
    BY <1>4
  <2>2. QED
    BY <1>1, <2>1, FS_EmptySet DEF HandoffSlotsCounted
<1>10. HandoffThreadRoles /\ HandoffCurAgrees
  BY <1>1 DEF HandoffThreadRoles, HandoffCurAgrees
<1>11. QED
  BY <1>5, <1>6, <1>8, <1>9, <1>10 DEF HandoffInv

LEMMA HandoffStepInv == HandoffInv /\ [HandoffNext]_handoffVars => HandoffInv'
<1> SUFFICES ASSUME HandoffInv, [HandoffNext]_handoffVars PROVE HandoffInv'
  OBVIOUS
<1>1. ASSUME NEW c \in Clients, ClientCall(c), UNCHANGED <<collected, handed>>
      PROVE  HandoffInv'
  BY <1>1, HandoffAddOperationInv, HandoffSetSuspendedInv, HandoffSetMaxInv DEF ClientCall
<1>2. ASSUME NEW t \in Threads, ThreadStep(t)
      PROVE  HandoffInv'
  BY <1>2, HandoffEnterExecuteInv, HandoffFinishOpInv, HandoffRetireInv, HandoffRemoveOpInv, CollectInv,
     CollectEndsInv, HandOverInv, HandoffEndsInv DEF ThreadStep
<1>3. ASSUME NEW e \in Engines, Begin(e)
      PROVE  HandoffInv'
  BY <1>3, BeginInv
<1>4. CASE UNCHANGED handoffVars
  <2>1. UNCHANGED <<lock, operations, waiting, executing, maxThreads, suspended,
                    finished, pc, cur, collected, handed>>
    BY <1>4 DEF handoffVars, coreVars
  <2>2. Waiting' = Waiting /\ Started' = Started /\ Running' = Running
    BY <2>1 DEF Waiting, Started, Running, Holding
  <2>3. HandoffTypeOK' /\ LockHeldInLoop' /\ WaitingInOrder'
    BY <2>1 DEF HandoffInv, HandoffTypeOK, CoreTypeOK, LockHeldInLoop, WaitingInOrder
  <2>4. HandoffOnePlace' /\ HandoffSlotsCounted'
    BY <2>1, <2>2 DEF HandoffInv, HandoffOnePlace, OnOneWay, HandoffSlotsCounted
  <2>5. HandoffThreadRoles' /\ HandoffCurAgrees'
    BY <2>1, <2>2 DEF HandoffInv, HandoffThreadRoles, HandoffCurAgrees
  <2>6. QED
    BY <2>3, <2>4, <2>5 DEF HandoffInv
<1>5. QED
  BY <1>1, <1>2, <1>3, <1>4 DEF HandoffNext

\* Everything the queue and the engine keep about operations agrees in every state
\* they can reach.
THEOREM HandoffInvariant == HandoffSpec => []HandoffInv
  BY HandoffInitInv, HandoffStepInv, PTL DEF HandoffSpec

\* The values of the queue's variables are of the kinds the code gives them: the
\* count of started operations does not go below zero.
THEOREM HandoffTypeCorrect == HandoffSpec => []HandoffTypeOK
<1>1. HandoffInv => HandoffTypeOK
  BY DEF HandoffInv
<1>2. QED
  BY <1>1, HandoffInvariant, PTL

\* However many threads collect operations in -execute and hand them over after
\* the unlock, each is on its way to the engine exactly once.
THEOREM OnOneWayAlways == HandoffSpec => []OnOneWay
<1>1. HandoffInv => OnOneWay
  BY DEF HandoffInv, HandoffOnePlace
<1>2. QED
  BY <1>1, HandoffInvariant, PTL

\* The count -execute compares with the limit is exact, operations that are still
\* being handed over included.
THEOREM HandoffSlotsCountedAlways == HandoffSpec => []HandoffSlotsCounted
<1>1. HandoffInv => HandoffSlotsCounted
  BY DEF HandoffInv
<1>2. QED
  BY <1>1, HandoffInvariant, PTL

-----------------------------------------------------------------------------
\* The refinement.

\* The phase of an operation, by the set that holds it.
LEMMA HandoffPhaseBySet ==
    ASSUME NEW o \in Ops
    PROVE  HandoffPhase(o) = IF o \in Waiting THEN "waiting"
                      ELSE IF o \in Started THEN "started"
                      ELSE IF o \in Begun THEN "running"
                      ELSE IF o \in Ended THEN "finished"
                      ELSE IF o \in finished THEN "released" ELSE "new"
  BY DEF HandoffPhase, Begun, Ended

LEMMA HandoffPhaseBySetPrime ==
    ASSUME NEW o \in Ops
    PROVE  HandoffPhase(o)' = IF o \in Waiting' THEN "waiting"
                       ELSE IF o \in Started' THEN "started"
                       ELSE IF o \in Begun' THEN "running"
                       ELSE IF o \in Ended' THEN "finished"
                       ELSE IF o \in finished' THEN "released" ELSE "new"
  BY DEF HandoffPhase, Begun, Ended

\* Two threads never have the same operation, and it is in no list.
LEMMA HandoffBegunEnded ==
    ASSUME HandoffInv
    PROVE  /\ Running = Begun \cup Ended
           /\ Begun \cap Ended = {} /\ Begun \cap finished = {}
           /\ Ended \subseteq finished
           /\ (Begun \cup Ended) \cap (Waiting \cup Started) = {}
  BY DEF HandoffInv, HandoffOnePlace, OnOneWay, HandoffCurAgrees, Running, Holding,
       Begun, Ended

\* A step that moves no operation from one set to another stutters.
LEMMA HandoffPhasesKept ==
    ASSUME Waiting' = Waiting, Started' = Started, Begun' = Begun, Ended' = Ended,
           finished' = finished
    PROVE  [o \in Ops |-> HandoffPhase(o)]' = [o \in Ops |-> HandoffPhase(o)]
<1>1. \A o \in Ops : HandoffPhase(o)' = HandoffPhase(o)
  BY HandoffPhaseBySet, HandoffPhaseBySetPrime
<1>2. QED
  BY <1>1

\* A step that moves one.
LEMMA HandoffOneMoves ==
    ASSUME NEW o \in Ops, NEW to, HandoffPhase(o)' = to,
           \A p \in Ops \ {o} : HandoffPhase(p)' = HandoffPhase(p),
           UNCHANGED <<maxThreads, suspended>>
    PROVE  HandoffBE!Move(o, HandoffPhase(o), to)
<1>1. [p \in Ops |-> HandoffPhase(p)]' = [[p \in Ops |-> HandoffPhase(p)] EXCEPT ![o] = to]
  OBVIOUS
<1>2. Limit' = Limit
  BY DEF Limit
<1>3. QED
  BY <1>1, <1>2 DEF HandoffBE!Move

\* BoundedExecutor counts with the same function.
LEMMA HandoffSameCardinality ==
    ASSUME NEW S
    PROVE  HandoffBE!Cardinality(S) = Cardinality(S)
  BY DEF HandoffBE!Cardinality, Cardinality, HandoffBE!IsFiniteSet, IsFiniteSet

\* The slots of BoundedExecutor are those that -execute counts.
LEMMA HandoffSlotsAre ==
    ASSUME HandoffInv
    PROVE  HandoffBE!Slots = Started \cup Running /\ Cardinality(HandoffBE!Slots) = executing
<1>1. \A o \in Ops : HandoffPhase(o) \in {"started", "running", "finished"}
                         <=> o \in Started \cup Running
  BY HandoffPhaseBySet, HandoffBegunEnded DEF HandoffInv, HandoffOnePlace, OnOneWay
<1>2. Started \cup Running \subseteq Ops
  BY DEF HandoffInv, HandoffOnePlace, HandoffTypeOK, CoreTypeOK
<1>3. HandoffBE!Slots = Started \cup Running
  BY <1>1, <1>2 DEF HandoffBE!Slots
<1>4. QED
  BY <1>3 DEF HandoffInv, HandoffSlotsCounted

\* The operation -execute starts is one that BoundedExecutor may start.
LEMMA HandoffHeadMayStart ==
    ASSUME HandoffInv, CanStart
    PROVE  /\ ~suspended /\ Cardinality(HandoffBE!Slots) < Limit
           /\ HandoffPhase(Head(waiting)) = "waiting"
           /\ \A p \in Ops : [o \in Ops |-> HandoffPhase(o)][p] = "waiting"
                               => Priority[p] <= Priority[Head(waiting)]
<1>1. ~suspended /\ Limit > executing /\ waiting # <<>>
  BY DEF CanStart
<1>2. Cardinality(HandoffBE!Slots) < Limit
  BY <1>1, HandoffSlotsAre, LimitFacts DEF HandoffInv, HandoffTypeOK, CoreTypeOK
<1>3. waiting \in Seq(Ops) /\ InPriorityOrder(waiting)
  BY DEF HandoffInv, HandoffTypeOK, CoreTypeOK, WaitingInOrder
<1>4. \A p \in Ops : HandoffPhase(p) = "waiting" => p \in Waiting
  BY HandoffPhaseBySet
<1>5. \A p \in Waiting : Priority[p] <= Priority[Head(waiting)]
  BY <1>1, <1>3, InOrderTail DEF Waiting, ToSet
<1>6. HandoffPhase(Head(waiting)) = "waiting"
  BY <1>1, HandoffHeadFacts, HandoffPhaseBySet
<1>7. QED
  BY <1>1, <1>2, <1>4, <1>5, <1>6

LEMMA HandoffAddOperationRefines ==
    ASSUME HandoffInv, NEW c \in Clients, NEW o \in Ops, AddOperation(c, o),
           UNCHANGED <<collected, handed>>
    PROVE  HandoffBE!Submit(o)
<1> USE HandoffThreadFacts
<1>1. /\ pc[c] = "idle" /\ pc' = [pc EXCEPT ![c] = "execute"] /\ c \in Threads
      /\ o \notin operations \cup finished
      /\ UNCHANGED <<maxThreads, suspended, finished, cur>>
  BY DEF AddOperation
<1>2. Begun' = Begun /\ Ended' = Ended
  BY <1>1 DEF HandoffInv, HandoffTypeOK, Begun, Ended
<1>3. Started' = Started
  BY DEF Started
<1>4. Waiting' = Waiting \cup {o}
  <2>1. PICK k \in 0..Len(waiting) : waiting' = InsertAt(waiting, k + 1, o)
    BY InsertWaitingPoint DEF AddOperation, HandoffInv, HandoffTypeOK, CoreTypeOK,
         WaitingInOrder
  <2>2. waiting \in Seq(Ops)
    BY DEF HandoffInv, HandoffTypeOK, CoreTypeOK
  <2>3. QED
    BY <2>1, <2>2, InsertAtSet DEF Waiting
<1>5. o \notin Waiting \cup Started \cup Begun \cup Ended
  BY <1>1, HandoffBegunEnded DEF HandoffInv, HandoffOnePlace
<1>6. HandoffPhase(o) = "new" /\ HandoffPhase(o)' = "waiting"
  BY <1>1, <1>4, <1>5, HandoffPhaseBySet, HandoffPhaseBySetPrime
<1>7. \A p \in Ops \ {o} : HandoffPhase(p)' = HandoffPhase(p)
  BY <1>1, <1>2, <1>3, <1>4, HandoffPhaseBySet, HandoffPhaseBySetPrime
<1>8. HandoffBE!Move(o, HandoffPhase(o), "waiting")
  BY <1>1, <1>6, <1>7, HandoffOneMoves
<1>9. QED
  BY <1>6, <1>8 DEF HandoffBE!Submit

\* Steps that only concern the accounts of the queue.
LEMMA HandoffQuietRefines ==
    ASSUME HandoffInv, NEW t \in Threads, NEW next,
           pc' = [pc EXCEPT ![t] = next],
           pc[t] \notin {"run", "retire"}, next \notin {"run", "retire"},
           cur' = cur \/ cur' = [cur EXCEPT ![t] = None],
           UNCHANGED <<waiting, finished, collected, handed>>
    PROVE  [o \in Ops |-> HandoffPhase(o)]' = [o \in Ops |-> HandoffPhase(o)]
<1>1. Begun' = Begun /\ Ended' = Ended
  BY HandoffThreadFacts DEF HandoffInv, HandoffTypeOK, CoreTypeOK, Begun, Ended
<1>2. Waiting' = Waiting /\ Started' = Started
  BY DEF Waiting, Started
<1>3. QED
  BY <1>1, <1>2, HandoffPhasesKept

LEMMA CollectRefines ==
    ASSUME HandoffInv, NEW t \in Threads, Collect(t), NEW o \in Ops, o = Head(waiting)
    PROVE  HandoffBE!Start(o)
<1>0. CanStart /\ UNCHANGED <<maxThreads, suspended, finished, pc, cur>>
  BY DEF Collect
<1>1. o \in Waiting /\ Waiting' = Waiting \ {o} /\ Started' = Started \cup {o}
  BY CollectFacts
<1>2. /\ ~suspended /\ Cardinality(HandoffBE!Slots) < Limit /\ HandoffPhase(o) = "waiting"
      /\ \A p \in Ops : [q \in Ops |-> HandoffPhase(q)][p] = "waiting"
                           => Priority[p] <= Priority[o]
  BY <1>0, HandoffHeadMayStart
<1>3. Begun' = Begun /\ Ended' = Ended
  BY <1>0 DEF Begun, Ended
<1>4. HandoffPhase(o)' = "started"
  BY <1>1, HandoffPhaseBySetPrime
<1>5. \A p \in Ops \ {o} : HandoffPhase(p)' = HandoffPhase(p)
  BY <1>0, <1>1, <1>3, HandoffPhaseBySet, HandoffPhaseBySetPrime
<1>6. HandoffBE!Move(o, "waiting", "started")
  BY <1>0, <1>2, <1>4, <1>5, HandoffOneMoves
<1>7. QED
  BY <1>2, <1>6, HandoffSameCardinality DEF HandoffBE!Start

LEMMA BeginRefines ==
    ASSUME HandoffInv, NEW e \in Engines, Begin(e)
    PROVE  \E o \in Ops : HandoffBE!Run(o)
<1> USE HandoffThreadFacts
<1>1. UNCHANGED <<waiting, maxThreads, suspended, finished>>
  BY DEF Begin
<1>2. PICK o \in Ops, t \in Threads :
               /\ pc[t] = "none" /\ cur[t] = None
               /\ pc' = [pc EXCEPT ![t] = "run"] /\ cur' = [cur EXCEPT ![t] = o]
               /\ o \in Started /\ o \notin Waiting \cup Running
               /\ \A u \in Threads : cur[u] # o
               /\ Started' = Started \ {o}
  BY BeginFacts
<1>3. Waiting' = Waiting
  BY <1>1 DEF Waiting
<1>4. o \notin Begun \cup Ended
  BY <1>2, HandoffBegunEnded
<1>5. Begun' = Begun \cup {o} /\ Ended' = Ended
  BY <1>2 DEF HandoffInv, HandoffTypeOK, CoreTypeOK, Begun, Ended
<1>6. HandoffPhase(o) = "started" /\ HandoffPhase(o)' = "running"
  BY <1>2, <1>3, <1>5, HandoffPhaseBySet, HandoffPhaseBySetPrime
<1>7. \A p \in Ops \ {o} : HandoffPhase(p)' = HandoffPhase(p)
  BY <1>1, <1>2, <1>3, <1>5, HandoffPhaseBySet, HandoffPhaseBySetPrime
<1>8. HandoffBE!Move(o, "started", "running")
  BY <1>1, <1>6, <1>7, HandoffOneMoves
<1>9. QED
  BY <1>8 DEF HandoffBE!Run

LEMMA HandoffFinishOpRefines ==
    ASSUME HandoffInv, NEW t \in Threads, FinishOp(t), UNCHANGED <<collected, handed>>,
           NEW o \in Ops, o = cur[t]
    PROVE  HandoffBE!Finish(o)
<1> USE HandoffThreadFacts
<1>1. /\ pc[t] = "run" /\ pc' = [pc EXCEPT ![t] = "retire"]
      /\ finished' = finished \cup {o}
      /\ UNCHANGED <<waiting, maxThreads, suspended, cur>>
  BY DEF FinishOp
<1>2. o # None /\ \A u \in Threads : cur[u] = o => u = t
  BY <1>1, HolderFacts
<1>3. Begun' = Begun \ {o} /\ Ended' = Ended \cup {o} /\ o \in Begun
  BY <1>1, <1>2 DEF HandoffInv, HandoffTypeOK, Begun, Ended
<1>4. Waiting' = Waiting /\ Started' = Started
  BY <1>1 DEF Waiting, Started
<1>5. o \notin Waiting \cup Started \cup Ended
  BY <1>3, HandoffBegunEnded
<1>6. HandoffPhase(o) = "running" /\ HandoffPhase(o)' = "finished"
  BY <1>3, <1>4, <1>5, HandoffPhaseBySet, HandoffPhaseBySetPrime
<1>7. \A p \in Ops \ {o} : HandoffPhase(p)' = HandoffPhase(p)
  BY <1>1, <1>3, <1>4, HandoffPhaseBySet, HandoffPhaseBySetPrime
<1>8. HandoffBE!Move(o, "running", "finished")
  BY <1>1, <1>6, <1>7, HandoffOneMoves
<1>9. QED
  BY <1>8 DEF HandoffBE!Finish

LEMMA HandoffRetireRefines ==
    ASSUME HandoffInv, NEW t \in Threads, Retire(t), UNCHANGED <<collected, handed>>,
           NEW o \in Ops, o = cur[t]
    PROVE  HandoffBE!Release(o)
<1> USE HandoffThreadFacts
<1>1. /\ pc[t] = "retire" /\ pc' = [pc EXCEPT ![t] = "remove"]
      /\ UNCHANGED <<waiting, maxThreads, suspended, finished, cur>>
  BY DEF Retire
<1>2. o # None /\ \A u \in Threads : cur[u] = o => u = t
  BY <1>1, HolderFacts
<1>3. Begun' = Begun /\ Ended' = Ended \ {o} /\ o \in Ended
  BY <1>1, <1>2 DEF HandoffInv, HandoffTypeOK, Begun, Ended
<1>4. Waiting' = Waiting /\ Started' = Started
  BY <1>1 DEF Waiting, Started
<1>5. o \notin Waiting \cup Started \cup Begun /\ o \in finished
  BY <1>3, HandoffBegunEnded
<1>6. HandoffPhase(o) = "finished" /\ HandoffPhase(o)' = "released"
  BY <1>1, <1>3, <1>4, <1>5, HandoffPhaseBySet, HandoffPhaseBySetPrime
<1>7. \A p \in Ops \ {o} : HandoffPhase(p)' = HandoffPhase(p)
  BY <1>1, <1>3, <1>4, HandoffPhaseBySet, HandoffPhaseBySetPrime
<1>8. HandoffBE!Move(o, "finished", "released")
  BY <1>1, <1>6, <1>7, HandoffOneMoves
<1>9. QED
  BY <1>8 DEF HandoffBE!Release

LEMMA HandoffInitRefines == HandoffInit => HandoffBE!BoundedInit
<1> SUFFICES ASSUME HandoffInit PROVE HandoffBE!BoundedInit
  OBVIOUS
<1>1. HandoffInv
  BY HandoffInitInv
<1>2. operations = {} /\ finished = {} /\ suspended = FALSE
  BY DEF HandoffInit, CoreInit
<1>3. Waiting = {} /\ Started = {} /\ Running = {}
  BY <1>1, <1>2 DEF HandoffInv, HandoffOnePlace
<1>4. Begun = {} /\ Ended = {}
  BY <1>1, <1>3, HandoffBegunEnded
<1>5. \A o \in Ops : HandoffPhase(o) = "new"
  BY <1>2, <1>3, <1>4, HandoffPhaseBySet
<1>6. Limit \in Limits
  BY <1>1, LimitFacts DEF HandoffInv, HandoffTypeOK
<1>7. QED
  BY <1>2, <1>5, <1>6 DEF HandoffBE!BoundedInit

LEMMA HandoffStepRefines ==
    HandoffInv /\ [HandoffNext]_handoffVars => [HandoffBE!BoundedNext]_HandoffBE!bvars
<1> USE HandoffThreadFacts
<1> SUFFICES ASSUME HandoffInv, [HandoffNext]_handoffVars
             PROVE  HandoffBE!BoundedNext \/ UNCHANGED HandoffBE!bvars
  OBVIOUS
<1> DEFINE phases == [o \in Ops |-> HandoffPhase(o)]
<1>0. phases' = phases /\ maxThreads' = maxThreads /\ suspended' = suspended
         => UNCHANGED HandoffBE!bvars
  BY DEF HandoffBE!bvars, Limit
<1>1. ASSUME NEW c \in Clients, ClientCall(c), UNCHANGED <<collected, handed>>
      PROVE  HandoffBE!BoundedNext
  <2>1. ASSUME NEW o \in Ops, AddOperation(c, o)
        PROVE  HandoffBE!BoundedNext
    BY <1>1, <2>1, HandoffAddOperationRefines DEF HandoffBE!BoundedNext
  <2>2. ASSUME NEW flag \in Flags, SetSuspended(c, flag)
        PROVE  HandoffBE!BoundedNext
    <3>1. phases' = phases
      <4>1. /\ pc[c] = "idle" /\ c \in Threads
            /\ \E next \in {"enter"} : pc' = [pc EXCEPT ![c] = next]
            /\ UNCHANGED <<waiting, finished, cur>>
        BY <2>2 DEF SetSuspended
      <4>2. QED
        BY <1>1, <4>1, HandoffQuietRefines
    <3>2. suspended' \in BOOLEAN /\ Limit' = Limit
      BY <2>2, CoreAssumption DEF SetSuspended, Limit
    <3>3. QED
      BY <3>1, <3>2 DEF HandoffBE!BoundedNext, HandoffBE!Suspend
  <2>3. ASSUME NEW cnt \in Counts, SetMaxConcurrentOperationCount(c, cnt)
        PROVE  HandoffBE!BoundedNext
    <3>1. phases' = phases
      <4>1. /\ pc[c] = "idle" /\ c \in Threads
            /\ \E next \in {"enter"} : pc' = [pc EXCEPT ![c] = next]
            /\ UNCHANGED <<waiting, finished, cur>>
        BY <2>3 DEF SetMaxConcurrentOperationCount
      <4>2. QED
        BY <1>1, <4>1, HandoffQuietRefines
    <3>2. suspended' = suspended /\ maxThreads' = cnt
      BY <2>3 DEF SetMaxConcurrentOperationCount
    <3>3. Limit' \in Limits
      BY <3>2 DEF Limit, Limits
    <3>4. QED
      BY <3>1, <3>2, <3>3 DEF HandoffBE!BoundedNext, HandoffBE!SetLimit
  <2>4. QED
    BY <1>1, <2>1, <2>2, <2>3 DEF ClientCall
<1>2. ASSUME NEW t \in Threads, ThreadStep(t)
      PROVE  HandoffBE!BoundedNext \/ UNCHANGED HandoffBE!bvars
  <2>1. CASE EnterExecute(t) /\ UNCHANGED <<collected, handed>>
    <3>1. /\ pc[t] = "enter"
          /\ \E next \in {"execute"} : pc' = [pc EXCEPT ![t] = next]
          /\ UNCHANGED <<waiting, maxThreads, suspended, finished, cur, collected, handed>>
      BY <2>1 DEF EnterExecute
    <3>2. phases' = phases
      BY <3>1, HandoffQuietRefines
    <3>3. QED
      BY <1>0, <3>1, <3>2
  <2>2. CASE Collect(t)
    <3>1. PICK o \in Ops : o = Head(waiting)
      BY <2>2, HandoffHeadFacts DEF Collect, CanStart
    <3>2. QED
      BY <2>2, <3>1, CollectRefines DEF HandoffBE!BoundedNext
  <2>3. CASE CollectEnds(t) \/ HandoffEnds(t)
    <3>1. PICK next \in {"idle", "none", "handoff"} : pc' = [pc EXCEPT ![t] = next]
      BY <2>3, Zenon DEF CollectEnds, LeaveExecute, HandoffEnds
    <3>2. /\ pc[t] \in {"execute", "handoff"}
          /\ UNCHANGED <<waiting, maxThreads, suspended, finished, cur, collected, handed>>
      BY <2>3 DEF CollectEnds, LeaveExecute, HandoffEnds
    <3>3. phases' = phases
      BY <3>1, <3>2, HandoffQuietRefines
    <3>4. QED
      BY <1>0, <3>2, <3>3
  <2>4. CASE HandOver(t)
    <3>1. UNCHANGED <<maxThreads, suspended, finished, pc, cur>>
      BY <2>4 DEF HandOver, coreVars
    <3>2. Waiting' = Waiting /\ Started' = Started
      BY <2>4, HandOverFacts
    <3>3. Begun' = Begun /\ Ended' = Ended
      BY <3>1 DEF Begun, Ended
    <3>4. phases' = phases
      BY <3>1, <3>2, <3>3, HandoffPhasesKept
    <3>5. QED
      BY <1>0, <3>1, <3>4
  <2>5. CASE FinishOp(t) /\ UNCHANGED <<collected, handed>>
    <3>1. PICK o \in Ops : o = cur[t]
      BY <2>5, HolderFacts DEF FinishOp
    <3>2. QED
      BY <2>5, <3>1, HandoffFinishOpRefines DEF HandoffBE!BoundedNext
  <2>6. CASE Retire(t) /\ UNCHANGED <<collected, handed>>
    <3>1. PICK o \in Ops : o = cur[t]
      BY <2>6, HolderFacts DEF Retire
    <3>2. QED
      BY <2>6, <3>1, HandoffRetireRefines DEF HandoffBE!BoundedNext
  <2>7. CASE RemoveOp(t) /\ UNCHANGED <<collected, handed>>
    <3>1. /\ pc[t] = "remove"
          /\ \E next \in {"enter"} : pc' = [pc EXCEPT ![t] = next]
          /\ cur' = [cur EXCEPT ![t] = None]
          /\ UNCHANGED <<waiting, maxThreads, suspended, finished, collected, handed>>
      BY <2>7 DEF RemoveOp
    <3>2. phases' = phases
      BY <3>1, HandoffQuietRefines
    <3>3. QED
      BY <1>0, <3>1, <3>2
  <2>8. QED
    BY <1>2, <2>1, <2>2, <2>3, <2>4, <2>5, <2>6, <2>7 DEF ThreadStep
<1>3. ASSUME NEW e \in Engines, Begin(e)
      PROVE  HandoffBE!BoundedNext
  BY <1>3, BeginRefines DEF HandoffBE!BoundedNext
<1>4. CASE UNCHANGED handoffVars
  <2>1. UNCHANGED <<waiting, maxThreads, suspended, finished, pc, cur, collected, handed>>
    BY <1>4 DEF handoffVars, coreVars
  <2>2. phases' = phases
    BY <2>1 DEF HandoffPhase, Waiting, Started
  <2>3. QED
    BY <1>0, <2>1, <2>2
<1>5. QED
  BY <1>1, <1>2, <1>3, <1>4 DEF HandoffNext

\* A queue that hands its operations over is a bounded executor: every behaviour of
\* -execute, the observer method and the engine, seen through the phase of each
\* operation, starts an operation once, in order of priority, within the limit and
\* while the queue is not suspended.
THEOREM HandoffImplementsBoundedExecutor == HandoffSpec => HandoffImplements
<1>1. HandoffInit => HandoffBE!BoundedInit
  BY HandoffInitRefines
<1>2. HandoffInv /\ [HandoffNext]_handoffVars => [HandoffBE!BoundedNext]_HandoffBE!bvars
  BY HandoffStepRefines
<1>3. QED
  BY <1>1, <1>2, HandoffInvariant, PTL DEF HandoffSpec, HandoffImplements,
       HandoffBE!BoundedSpec
=============================================================================
