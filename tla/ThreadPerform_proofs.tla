------------------------ MODULE ThreadPerform_proofs ------------------------
(***************************************************************************)
(* For any performers, modes, orders, size of the pipe and depth of runs:  *)
(* a performer is in one place until it is done, a thread that was handed  *)
(* performers has a byte in its pipe, and performers from other threads    *)
(* are fired in the order in which they were added.                        *)
(***************************************************************************)
EXTENDS ThreadPerform, Lists_proofs

-----------------------------------------------------------------------------
(***************************************************************************)
(* The lists of performers.                                                *)
(***************************************************************************)
\* p was added before q, g being the performers as they were added.
Earlier(g, p, q) == \E i, j \in 1..Len(g) : i < j /\ g[i] = p /\ g[j] = q

\* The list has its performers from other threads as they were added.
AsGiven(g, list) == \A i, j \in 1..Len(list) : Earlier(g, list[i], list[j]) => i < j

ByOrder(list) == \A i, j \in 1..Len(list) : i < j => Order[list[i]] <= Order[list[j]]

\* What stays in a list stays as it is.
LEMMA WithoutFacts ==
    ASSUME NEW list \in Seq(Performs), NEW ps
    PROVE  /\ Without(list, ps) \in Seq(Performs)
           /\ \A p : Contains(Without(list, ps), p) <=> Contains(list, p) /\ p \notin ps
           /\ Distinct(list) => Distinct(Without(list, ps))
           /\ ByOrder(list) => ByOrder(Without(list, ps))
           /\ \A g : AsGiven(g, list) => AsGiven(g, Without(list, ps))
<1> DEFINE places == {i \in 1..Len(list) : list[i] \notin ps}
           r == Without(list, ps)
<1>1. r \in Seq(Performs) /\ Selects(r, list, places, Len(list))
  BY OnlySelects DEF Without
<1> HIDE DEF r
<1>2. PICK f \in [1..Len(r) -> places \cap (1..Len(list))] :
          /\ \A i \in 1..Len(r) : r[i] = list[f[i]]
          /\ \A i, j \in 1..Len(r) : i < j => f[i] < f[j]
          /\ \A k \in places \cap (1..Len(list)) : \E i \in 1..Len(r) : f[i] = k
  BY <1>1 DEF Selects
<1>3. Len(r) \in Nat /\ DOMAIN r = 1..Len(r) /\ Len(list) \in Nat /\ DOMAIN list = 1..Len(list)
  BY <1>1
<1>4. \A p : Contains(r, p) <=> Contains(list, p) /\ p \notin ps
  BY <1>2 DEF Contains
<1>5. Distinct(list) => Distinct(r)
  <2>1. \A i, j \in 1..Len(r) : f[i] = f[j] => i = j
    BY <1>2, <1>3
  <2>2. QED
    BY <1>2, <1>3, <2>1 DEF Distinct
<1>6. ByOrder(list) => ByOrder(r)
  BY <1>2 DEF ByOrder
<1>7. ASSUME NEW g, AsGiven(g, list) PROVE AsGiven(g, r)
  <2> SUFFICES ASSUME NEW i \in 1..Len(r), NEW j \in 1..Len(r), Earlier(g, r[i], r[j])
               PROVE  i < j
    BY DEF AsGiven
  <2>1. f[i] < f[j]
    BY <1>2, <1>7 DEF AsGiven
  <2>2. f[i] \in Nat /\ f[j] \in Nat /\ (j < i => f[j] < f[i])
    BY <1>2
  <2>3. QED
    BY <1>3, <2>1, <2>2
<1>8. QED
  BY <1>1, <1>4, <1>5, <1>6, <1>7 DEF r

\* A performer goes behind those of its order, and before those of a higher one.
LEMMA InsertPlace ==
    ASSUME NEW list \in Seq(Performs), NEW p \in Performs
    PROVE  \E k \in 0..Len(list) :
               /\ Insert(list, p) \in Seq(Performs)
               /\ IsSpliced(Insert(list, p), list, k, p)
               /\ \A j \in 1..k : Order[list[j]] <= Order[p]
               /\ k < Len(list) => Order[list[k + 1]] > Order[p]
<1> DEFINE Stops(i) == i <= Len(list) => Order[list[i]] > Order[p]
           Place(i) == Stops(i) /\ \A j \in 1..i - 1 : Order[list[j]] <= Order[p]
           T == {i \in 1..Len(list) + 1 : Stops(i)}
<1>0. /\ Len(list) \in Nat /\ Order[p] \in Nat
      /\ \A i \in 1..Len(list) : list[i] \in Performs /\ Order[list[i]] \in Nat
  BY PerformAssumption, ElementOfSeq
<1>1. PICK i \in T : \A j \in T : i <= j
  <2>1. T \in SUBSET Nat /\ Len(list) + 1 \in T
    BY <1>0
  <2> HIDE DEF T
  <2>2. QED
    BY <2>1, LeastNumber
<1>2. \A j \in 1..i - 1 : ~Stops(j)
  BY <1>0, <1>1
<1>3. Place(i)
  BY <1>0, <1>1, <1>2
<1> DEFINE c == CHOOSE j \in 1..Len(list) + 1 : Place(j)
<1>4. c \in 1..Len(list) + 1 /\ Place(c)
  BY <1>1, <1>3
<1>5. Insert(list, p) = InsertAt(list, c, p)
  BY DEF Insert
<1> HIDE DEF c
<1>6. c - 1 \in 0..Len(list) /\ (c - 1) + 1 = c
  BY <1>0, <1>4
<1>7. Insert(list, p) \in Seq(Performs) /\ IsSpliced(Insert(list, p), list, c - 1, p)
  BY <1>5, <1>6, InsertAtElements
<1>8. (\A j \in 1..c - 1 : Order[list[j]] <= Order[p]) /\ (c - 1 < Len(list) => Order[list[c]] > Order[p])
  BY <1>0, <1>4, <1>6
<1>9. QED
  BY <1>6, <1>7, <1>8

\* Where the elements of a list are when one has been inserted.
LEMMA SplicedPlaces ==
    ASSUME NEW list \in Seq(Performs), NEW r \in Seq(Performs), NEW p, NEW k \in 0..Len(list),
           IsSpliced(r, list, k, p)
    PROVE  /\ Len(r) = Len(list) + 1 /\ Len(list) \in Nat /\ k + 1 \in 1..Len(r)
           /\ r[k + 1] = p
           /\ \A i \in 1..Len(r) : i < k + 1 => i \in 1..Len(list) /\ r[i] = list[i]
           /\ \A i \in 1..Len(r) : i > k + 1 => i - 1 \in 1..Len(list) /\ r[i] = list[i - 1]
           /\ \A i \in 1..Len(list) : i <= k => i \in 1..Len(r) /\ r[i] = list[i]
           /\ \A i \in 1..Len(list) : i > k => i + 1 \in 1..Len(r) /\ r[i + 1] = list[i]
  BY DEF IsSpliced

\* A performer more, and the order is kept if those that were added before it have no
\* higher order and none of the list was added after it.
LEMMA InsertFacts ==
    ASSUME NEW list \in Seq(Performs), NEW p \in Performs
    PROVE  /\ Insert(list, p) \in Seq(Performs)
           /\ \A q : Contains(Insert(list, p), q) <=> Contains(list, q) \/ q = p
           /\ Distinct(list) /\ ~Contains(list, p) => Distinct(Insert(list, p))
           /\ ByOrder(list) => ByOrder(Insert(list, p))
           /\ \A g : /\ ByOrder(list) /\ AsGiven(g, list)
                     /\ ~Earlier(g, p, p)
                     /\ \A q : Contains(list, q) => /\ ~Earlier(g, p, q)
                                                    /\ Earlier(g, q, p) => Order[q] <= Order[p]
                     => AsGiven(g, Insert(list, p))
<1> DEFINE r == Insert(list, p)
<1>1. PICK k \in 0..Len(list) :
          /\ r \in Seq(Performs)
          /\ IsSpliced(r, list, k, p)
          /\ \A j \in 1..k : Order[list[j]] <= Order[p]
          /\ k < Len(list) => Order[list[k + 1]] > Order[p]
  BY InsertPlace
<1> HIDE DEF r
<1>2. /\ Len(r) = Len(list) + 1 /\ Len(list) \in Nat /\ k + 1 \in 1..Len(r)
      /\ r[k + 1] = p
      /\ \A i \in 1..Len(r) : i < k + 1 => i \in 1..Len(list) /\ r[i] = list[i]
      /\ \A i \in 1..Len(r) : i > k + 1 => i - 1 \in 1..Len(list) /\ r[i] = list[i - 1]
      /\ \A i \in 1..Len(list) : i <= k => i \in 1..Len(r) /\ r[i] = list[i]
      /\ \A i \in 1..Len(list) : i > k => i + 1 \in 1..Len(r) /\ r[i + 1] = list[i]
  BY <1>1, SplicedPlaces
<1>3. DOMAIN r = 1..Len(r) /\ DOMAIN list = 1..Len(list) /\ k \in Nat
  BY <1>1
<1>4. \A i \in 1..Len(r) : i < k + 1 \/ i = k + 1 \/ i > k + 1
  BY <1>2, <1>3
<1>5. \A q : Contains(r, q) <=> Contains(list, q) \/ q = p
  <2> SUFFICES ASSUME NEW q PROVE Contains(r, q) <=> Contains(list, q) \/ q = p
    OBVIOUS
  <2>1. Contains(r, q) => Contains(list, q) \/ q = p
    BY <1>2, <1>4 DEF Contains
  <2>2. ASSUME NEW i \in 1..Len(list), list[i] = q PROVE Contains(r, q)
    BY <1>2, <1>3, <2>2 DEF Contains
  <2>3. Contains(r, p)
    BY <1>2 DEF Contains
  <2>4. QED
    BY <2>1, <2>2, <2>3 DEF Contains
<1>6. ASSUME Distinct(list), ~Contains(list, p) PROVE Distinct(r)
  <2> SUFFICES ASSUME NEW i \in 1..Len(r), NEW j \in 1..Len(r), r[i] = r[j], i < j PROVE FALSE
    BY <1>2, <1>3 DEF Distinct
  <2>1. \A n \in 1..Len(list) : list[n] # p
    BY <1>6 DEF Contains
  <2>2. CASE i = k + 1
    BY <1>2, <1>3, <2>1, <2>2
  <2>3. CASE j = k + 1
    BY <1>2, <1>3, <2>1, <2>3
  <2>4. CASE j < k + 1
    BY <1>2, <1>3, <1>6, <2>4 DEF Distinct
  <2>5. CASE i > k + 1
    <3>1. /\ i - 1 \in 1..Len(list) /\ r[i] = list[i - 1]
          /\ j - 1 \in 1..Len(list) /\ r[j] = list[j - 1]
      BY <1>2, <1>3, <2>5
    <3>2. i - 1 = j - 1
      BY <1>3, <1>6, <3>1 DEF Distinct
    <3>3. QED
      BY <3>2
  <2>6. CASE i < k + 1 /\ j > k + 1
    <3>1. /\ i \in 1..Len(list) /\ r[i] = list[i]
          /\ j - 1 \in 1..Len(list) /\ r[j] = list[j - 1]
      BY <1>2, <1>3, <2>6
    <3>2. i = j - 1
      BY <1>3, <1>6, <3>1 DEF Distinct
    <3>3. QED
      BY <1>3, <2>6, <3>2
  <2>7. QED
    BY <1>4, <2>2, <2>3, <2>4, <2>5, <2>6
<1>7. Order[p] \in Nat /\ \A i \in 1..Len(list) : Order[list[i]] \in Nat
  BY PerformAssumption, ElementOfSeq
<1>8. ASSUME ByOrder(list) PROVE ByOrder(r)
  <2> SUFFICES ASSUME NEW i \in 1..Len(r), NEW j \in 1..Len(r), i < j
               PROVE  Order[r[i]] <= Order[r[j]]
    BY DEF ByOrder
  <2>1. CASE j < k + 1
    BY <1>2, <1>3, <1>8, <2>1 DEF ByOrder
  <2>2. CASE j = k + 1
    BY <1>1, <1>2, <1>3, <2>2
  <2>3. CASE j > k + 1
    <3>1. j - 1 \in 1..Len(list) /\ r[j] = list[j - 1] /\ k + 1 <= j - 1
      BY <1>2, <1>3, <2>3
    <3>2. Order[list[k + 1]] <= Order[r[j]] /\ Order[p] < Order[list[k + 1]]
      <4>1. k < Len(list) /\ k + 1 \in 1..Len(list)
        BY <1>2, <1>3, <3>1
      <4>2. CASE k + 1 < j - 1
        BY <1>1, <1>7, <1>8, <3>1, <4>1, <4>2 DEF ByOrder
      <4>3. CASE k + 1 = j - 1
        BY <1>1, <1>7, <3>1, <4>1, <4>3
      <4>4. QED
        BY <1>3, <3>1, <4>2, <4>3
    <3>3. CASE i > k + 1
      <4>1. i - 1 \in 1..Len(list) /\ r[i] = list[i - 1] /\ i - 1 < j - 1
        BY <1>2, <1>3, <3>3
      <4>2. QED
        BY <1>8, <3>1, <4>1 DEF ByOrder
    <3>4. CASE i = k + 1
      BY <1>2, <1>3, <1>7, <3>1, <3>2, <3>4
    <3>5. CASE i < k + 1
      <4>1. i \in 1..Len(list) /\ r[i] = list[i] /\ i < j - 1
        BY <1>2, <1>3, <3>1, <3>5
      <4>2. QED
        BY <1>8, <3>1, <4>1 DEF ByOrder
    <3>6. QED
      BY <1>4, <3>3, <3>4, <3>5
  <2>4. QED
    BY <1>4, <2>1, <2>2, <2>3
<1>9. ASSUME NEW g, ByOrder(list), AsGiven(g, list), ~Earlier(g, p, p),
             \A q : Contains(list, q) => /\ ~Earlier(g, p, q)
                                         /\ Earlier(g, q, p) => Order[q] <= Order[p]
      PROVE  AsGiven(g, r)
  <2> SUFFICES ASSUME NEW i \in 1..Len(r), NEW j \in 1..Len(r), Earlier(g, r[i], r[j]),
                      ~(i < j)
               PROVE  FALSE
    BY DEF AsGiven
  <2>0. \A n \in 1..Len(list) : /\ ~Earlier(g, p, list[n])
                                /\ Earlier(g, list[n], p) => Order[list[n]] <= Order[p]
    BY <1>9 DEF Contains
  <2>1. i # k + 1
    <3> SUFFICES ASSUME i = k + 1 PROVE FALSE
      OBVIOUS
    <3>1. CASE j = k + 1
      BY <1>2, <1>9, <3>1
    <3>2. CASE j # k + 1
      BY <1>2, <1>3, <2>0, <3>2
    <3>3. QED
      BY <3>1, <3>2
  <2>2. CASE j = k + 1
    <3>1. i - 1 \in 1..Len(list) /\ r[i] = list[i - 1] /\ k + 1 <= i - 1
      BY <1>2, <1>3, <2>1, <2>2
    <3>2. Order[list[i - 1]] <= Order[p]
      BY <1>2, <2>0, <2>2, <3>1
    <3>3. k < Len(list) /\ k + 1 \in 1..Len(list)
      BY <1>2, <1>3, <3>1
    <3>4. Order[list[k + 1]] <= Order[list[i - 1]]
      <4>1. CASE k + 1 < i - 1
        BY <1>9, <3>1, <3>3, <4>1 DEF ByOrder
      <4>2. CASE k + 1 = i - 1
        BY <1>7, <3>1, <4>2
      <4>3. QED
        BY <1>3, <3>1, <4>1, <4>2
    <3>5. QED
      BY <1>1, <1>7, <3>1, <3>2, <3>3, <3>4
  <2>3. CASE j # k + 1
    <3> DEFINE Old(n) == IF n < k + 1 THEN n ELSE n - 1
    <3>1. \A n \in {i, j} : Old(n) \in 1..Len(list) /\ r[n] = list[Old(n)]
      BY <1>2, <1>4, <2>1, <2>3
    <3>2. Old(i) < Old(j)
      BY <1>9, <3>1 DEF AsGiven
    <3>3. QED
      BY <1>2, <1>3, <3>2
  <2>4. QED
    BY <2>2, <2>3
<1>10. QED
  BY <1>1, <1>5, <1>6, <1>8, <1>9 DEF r

\* A performer more in each of its modes.
LEMMA InsertAllFacts ==
    ASSUME NEW lists \in [Modes -> Seq(Performs)], NEW p \in Performs
    PROVE  /\ InsertAll(lists, p) \in [Modes -> Seq(Performs)]
           /\ \A m \in Modes :
                  InsertAll(lists, p)[m] = IF m \in ModesOf[p] THEN Insert(lists[m], p) ELSE lists[m]
<1>1. \A m \in Modes : Insert(lists[m], p) \in Seq(Performs) /\ lists[m] \in Seq(Performs)
  BY InsertFacts
<1>2. QED
  BY <1>1 DEF InsertAll

\* One step of the recursion of InsertEach.
StepInsert(f, lists, ps, n) == IF n = 0 THEN lists ELSE InsertAll(f[n - 1], ps[n])

LEMMA InsertEachExists ==
    ASSUME NEW lists, NEW ps, Len(ps) \in Nat
    PROVE  \E f : f = [n \in 0..Len(ps) |-> StepInsert(f, lists, ps, n)]
<1> DEFINE Good(k) == \E f : f = [n \in 0..k |-> StepInsert(f, lists, ps, n)]
           T == {k \in Nat : Good(k)}
<1>1. Good(0)
  <2> DEFINE f == [n \in 0..0 |-> lists]
  <2>1. f = [n \in 0..0 |-> StepInsert(f, lists, ps, n)]
    BY DEF StepInsert
  <2>2. QED
    BY <2>1
<1>2. ASSUME NEW k \in Nat, Good(k) PROVE Good(k + 1)
  <2>1. PICK f : f = [n \in 0..k |-> StepInsert(f, lists, ps, n)]
    BY <1>2
  <2> DEFINE g == [n \in 0..(k + 1) |-> StepInsert(f, lists, ps, n)]
  <2>2. \A n \in 0..k : n \in 0..(k + 1) /\ g[n] = f[n]
    BY <2>1
  <2>3. \A n \in 0..(k + 1) : n # 0 => f[n - 1] = g[n - 1]
    <3> HIDE DEF g
    <3>1. \A n \in 0..(k + 1) : n # 0 => n - 1 \in 0..k
      OBVIOUS
    <3>2. QED
      BY <2>2, <3>1
  <2>4. \A n \in 0..(k + 1) : StepInsert(f, lists, ps, n) = StepInsert(g, lists, ps, n)
    <3> HIDE DEF g
    <3>1. QED
      BY <2>3 DEF StepInsert
  <2>5. g = [n \in 0..(k + 1) |-> StepInsert(g, lists, ps, n)]
    BY <2>4
  <2>6. QED
    BY <2>5
<1> HIDE DEF Good
<1>3. Len(ps) \in T
  <2>1. 0 \in T /\ \A k \in T : k + 1 \in T
    BY <1>1, <1>2
  <2> HIDE DEF T
  <2>2. QED
    BY <2>1, Induction
<1>4. QED
  BY <1>3 DEF Good

\* The first n performers of ps can go behind what is in the list.
MayFollow(g, list, ps) ==
    /\ ByOrder(list) /\ AsGiven(g, list) /\ AsGiven(g, ps)
    /\ \A q : Contains(g, q) => q \in Remote
    /\ \A p, q : Contains(ps, p) /\ Contains(list, q) => ~Earlier(g, p, q)

\* Performers handed over go to their modes, each once and in their order.
LEMMA InsertEachFacts ==
    ASSUME NEW lists \in [Modes -> Seq(Performs)], NEW ps \in Seq(Performs)
    PROVE  /\ InsertEach(lists, ps) \in [Modes -> Seq(Performs)]
           /\ \A m \in Modes :
                  /\ \A q : Contains(InsertEach(lists, ps)[m], q) <=>
                                Contains(lists[m], q) \/ (Contains(ps, q) /\ m \in ModesOf[q])
                  /\ ByOrder(lists[m]) => ByOrder(InsertEach(lists, ps)[m])
                  /\ /\ Distinct(lists[m]) /\ Distinct(ps)
                     /\ \A q : ~(Contains(lists[m], q) /\ Contains(ps, q))
                     => Distinct(InsertEach(lists, ps)[m])
                  /\ \A g : MayFollow(g, lists[m], ps) => AsGiven(g, InsertEach(lists, ps)[m])
<1> DEFINE F == CHOOSE f : f = [n \in 0..Len(ps) |-> StepInsert(f, lists, ps, n)]
<1>0. Len(ps) \in Nat /\ DOMAIN ps = 1..Len(ps) /\ \A n \in 1..Len(ps) : ps[n] \in Performs
  OBVIOUS
<1>1. F = [n \in 0..Len(ps) |-> StepInsert(F, lists, ps, n)]
  <2>1. \E f : f = [n \in 0..Len(ps) |-> StepInsert(f, lists, ps, n)]
    BY <1>0, InsertEachExists
  <2>2. QED
    BY <2>1
<1>2. InsertEach(lists, ps) = F[Len(ps)]
  BY DEF InsertEach, StepInsert
<1> HIDE DEF F
<1>3. /\ F[0] = lists
      /\ \A n \in 1..Len(ps) : F[n] = InsertAll(F[n - 1], ps[n])
  <2>1. \A n \in 0..Len(ps) : F[n] = StepInsert(F, lists, ps, n)
    BY <1>1
  <2>2. QED
    BY <1>0, <2>1 DEF StepInsert
<1> DEFINE Before(n, q) == \E i \in 1..n : ps[i] = q
           Apart(m) == /\ Distinct(lists[m]) /\ Distinct(ps)
                       /\ \A q : ~(Contains(lists[m], q) /\ Contains(ps, q))
           Good(n) ==
               /\ F[n] \in [Modes -> Seq(Performs)]
               /\ \A m \in Modes :
                      /\ \A q : Contains(F[n][m], q) <=>
                                    Contains(lists[m], q) \/ (Before(n, q) /\ m \in ModesOf[q])
                      /\ ByOrder(lists[m]) => ByOrder(F[n][m])
                      /\ Apart(m) => Distinct(F[n][m])
                      /\ \A g : MayFollow(g, lists[m], ps) => AsGiven(g, F[n][m])
           T == {n \in Nat : n <= Len(ps) => Good(n)}
<1>4. Good(0)
  <2>1. \A q : ~Before(0, q)
    OBVIOUS
  <2> HIDE DEF Before
  <2>2. QED
    BY <1>3, <2>1 DEF MayFollow
<1>5. ASSUME NEW n \in 1..Len(ps), Good(n - 1) PROVE Good(n)
  <2> DEFINE p == ps[n]
             old == F[n - 1]
  <2>1. p \in Performs /\ old \in [Modes -> Seq(Performs)] /\ F[n] = InsertAll(old, p)
    BY <1>0, <1>3, <1>5
  <2>2. /\ F[n] \in [Modes -> Seq(Performs)]
        /\ \A m \in Modes : F[n][m] = IF m \in ModesOf[p] THEN Insert(old[m], p) ELSE old[m]
    <3> HIDE DEF p, old
    <3>1. old \in [Modes -> Seq(Performs)] /\ p \in Performs
      BY <2>1
    <3>2. /\ InsertAll(old, p) \in [Modes -> Seq(Performs)]
          /\ \A m \in Modes :
                 InsertAll(old, p)[m] = IF m \in ModesOf[p] THEN Insert(old[m], p) ELSE old[m]
      BY ONLY <3>1, InsertAllFacts
    <3>3. QED
      BY <2>1, <3>2
  <2>3. \A q : Before(n, q) <=> Before(n - 1, q) \/ q = p
    <3>1. \A i \in 1..n : i \in 1..(n - 1) \/ i = n
      BY <1>0
    <3>2. 1..(n - 1) \subseteq 1..n /\ n \in 1..n
      BY <1>0
    <3>3. QED
      BY <3>1, <3>2
  <2>4. ASSUME NEW m \in Modes
        PROVE  /\ \A q : Contains(F[n][m], q) <=>
                             Contains(lists[m], q) \/ (Before(n, q) /\ m \in ModesOf[q])
               /\ ByOrder(lists[m]) => ByOrder(F[n][m])
               /\ Apart(m) => Distinct(F[n][m])
               /\ \A g : MayFollow(g, lists[m], ps) => AsGiven(g, F[n][m])
    <3>0. old[m] \in Seq(Performs)
      BY <2>1
    <3>1. /\ \A q : Contains(old[m], q) <=>
                             Contains(lists[m], q) \/ (Before(n - 1, q) /\ m \in ModesOf[q])
          /\ ByOrder(lists[m]) => ByOrder(old[m])
          /\ Apart(m) => Distinct(old[m])
          /\ \A g : MayFollow(g, lists[m], ps) => AsGiven(g, old[m])
      BY <1>5
    <3> HIDE DEF old
    <3>2. CASE m \notin ModesOf[p]
      <4> HIDE DEF Before, Apart
      <4>1. F[n][m] = old[m]
        BY <2>2, <3>2
      <4>2. QED
        BY <2>3, <3>1, <3>2, <4>1
    <3>3. CASE m \in ModesOf[p]
      <4>1. F[n][m] = Insert(old[m], p)
        BY <2>2, <3>3
      <4>2. \A q : Contains(F[n][m], q) <=> Contains(old[m], q) \/ q = p
        BY <2>1, <3>0, <4>1, InsertFacts
      <4>3. \A q : Contains(F[n][m], q) <=>
                       Contains(lists[m], q) \/ (Before(n, q) /\ m \in ModesOf[q])
        <5> HIDE DEF Before, p
        <5>1. QED
          BY <2>3, <3>1, <3>3, <4>2
      <4>4. ByOrder(lists[m]) => ByOrder(F[n][m])
        BY <2>1, <3>0, <3>1, <4>1, InsertFacts
      <4>5. Apart(m) => Distinct(F[n][m])
        <5> SUFFICES ASSUME Apart(m) PROVE Distinct(F[n][m])
          OBVIOUS
        <5>1. ~Contains(lists[m], p)
          BY <1>0 DEF Contains
        <5>2. ~Before(n - 1, p)
          BY <1>0 DEF Distinct
        <5>3. ~Contains(old[m], p) /\ Distinct(old[m])
          <6> HIDE DEF Before, Apart
          <6>1. QED
            BY <3>1, <5>1, <5>2
        <5>4. QED
          BY <2>1, <3>0, <4>1, <5>3, InsertFacts
      <4>6. ASSUME NEW g, MayFollow(g, lists[m], ps) PROVE AsGiven(g, F[n][m])
        <5>1. ByOrder(old[m]) /\ AsGiven(g, old[m])
          BY <3>1, <4>6 DEF MayFollow
        <5>2. ~Earlier(g, p, p)
          BY <1>0, <4>6 DEF MayFollow, AsGiven
        <5>3. ASSUME NEW q, Contains(old[m], q) PROVE ~Earlier(g, p, q)
          <6>1. CASE Contains(lists[m], q)
            <7>1. Contains(ps, p)
              BY <1>0 DEF Contains
            <7>2. QED
              BY <4>6, <6>1, <7>1 DEF MayFollow
          <6>2. CASE Before(n - 1, q)
            <7>1. PICK i \in 1..(n - 1) : ps[i] = q
              BY <6>2
            <7>2. i \in 1..Len(ps) /\ ~(n < i)
              BY <1>0
            <7>3. QED
              BY <4>6, <7>1, <7>2 DEF MayFollow, AsGiven
          <6>3. QED
            <7> HIDE DEF Before
            <7>1. QED
              BY <3>1, <5>3, <6>1, <6>2
        <5>4. ASSUME NEW q, Earlier(g, q, p) PROVE Order[q] <= Order[p]
          <6>1. Contains(g, q) /\ Contains(g, p)
            BY <5>4 DEF Earlier, Contains
          <6>2. q \in Remote /\ p \in Remote
            BY <4>6, <6>1 DEF MayFollow
          <6>3. QED
            BY <6>2, PerformAssumption DEF Remote
        <5> HIDE DEF p
        <5>5. QED
          BY <2>1, <3>0, <4>1, <5>1, <5>2, <5>3, <5>4, InsertFacts
      <4>7. QED
        BY <4>3, <4>4, <4>5, <4>6
    <3>4. QED
      BY <3>2, <3>3
  <2>5. QED
    BY <2>2, <2>4
<1> HIDE DEF Good
<1>6. Len(ps) \in T
  <2>1. 0 \in T
    BY <1>4
  <2>2. ASSUME NEW n \in T PROVE n + 1 \in T
    <3>1. n + 1 <= Len(ps) => n + 1 \in 1..Len(ps) /\ (n + 1) - 1 = n /\ n <= Len(ps)
      BY <1>0
    <3>2. QED
      BY <1>5, <3>1
  <2> HIDE DEF T
  <2>3. QED
    BY <1>0, <2>1, <2>2, Induction
<1>7. Good(Len(ps))
  BY <1>0, <1>6
<1>8. \A q : Before(Len(ps), q) <=> Contains(ps, q)
  BY DEF Contains
<1>9. QED
  BY <1>2, <1>7, <1>8 DEF Good

\* What the order of a list says of its parts, and of one with an element more.
LEMMA AsGivenFacts ==
    ASSUME NEW S, NEW list \in Seq(S)
    PROVE  /\ \A g : AsGiven(g, <<>>)
           /\ list # <<>> => \A g : AsGiven(g, list) => AsGiven(g, Tail(list))
           /\ \A g : \A p \in S : /\ AsGiven(g, list)
                                  /\ \A q : ~Earlier(g, p, q)
                                  => AsGiven(g, Append(list, p))
<1>1. Len(list) \in Nat /\ \A i \in 1..Len(list) : list[i] \in S
  OBVIOUS
<1>2. \A g : AsGiven(g, <<>>)
  BY DEF AsGiven
<1>3. ASSUME list # <<>>, NEW g, AsGiven(g, list) PROVE AsGiven(g, Tail(list))
  <2>1. /\ Len(Tail(list)) = Len(list) - 1
        /\ \A i \in 1..(Len(list) - 1) : Tail(list)[i] = list[i + 1] /\ i + 1 \in 1..Len(list)
    BY <1>1, <1>3
  <2> SUFFICES ASSUME NEW i \in 1..Len(Tail(list)), NEW j \in 1..Len(Tail(list)),
                      Earlier(g, Tail(list)[i], Tail(list)[j])
               PROVE  i < j
    BY DEF AsGiven
  <2>2. i + 1 < j + 1
    BY <1>3, <2>1 DEF AsGiven
  <2>3. QED
    BY <2>1, <2>2
<1>4. ASSUME NEW g, NEW p \in S, AsGiven(g, list), \A q : ~Earlier(g, p, q)
      PROVE  AsGiven(g, Append(list, p))
  <2> DEFINE r == Append(list, p)
  <2>1. /\ Len(r) = Len(list) + 1 /\ r[Len(list) + 1] = p
        /\ \A i \in 1..Len(list) : r[i] = list[i]
    BY AppendProperties
  <2> HIDE DEF r
  <2> SUFFICES ASSUME NEW i \in 1..Len(r), NEW j \in 1..Len(r), Earlier(g, r[i], r[j])
               PROVE  i < j
    BY DEF AsGiven, r
  <2>2. i # Len(list) + 1
    BY <1>4, <2>1
  <2>3. i \in 1..Len(list) /\ r[i] = list[i]
    BY <1>1, <2>1, <2>2
  <2>4. CASE j = Len(list) + 1
    BY <1>1, <2>3, <2>4
  <2>5. CASE j # Len(list) + 1
    <3>1. j \in 1..Len(list) /\ r[j] = list[j]
      BY <1>1, <2>1, <2>5
    <3>2. QED
      BY <1>4, <2>3, <3>1 DEF AsGiven
  <2>6. QED
    BY <2>4, <2>5
<1>5. QED
  BY <1>2, <1>3, <1>4

\* What was added before what, when one more performer is added.
LEMMA EarlierFacts ==
    ASSUME NEW g \in Seq(Performs)
    PROVE  /\ \A a, b : Earlier(g, a, b) => Contains(g, a) /\ Contains(g, b)
           /\ \A p \in Performs : \A a, b :
                  Earlier(Append(g, p), a, b) <=> Earlier(g, a, b) \/ (Contains(g, a) /\ b = p)
<1>1. \A a, b : Earlier(g, a, b) => Contains(g, a) /\ Contains(g, b)
  BY DEF Earlier, Contains
<1>2. ASSUME NEW p \in Performs, NEW a, NEW b
      PROVE  Earlier(Append(g, p), a, b) <=> Earlier(g, a, b) \/ (Contains(g, a) /\ b = p)
  <2> DEFINE h == Append(g, p)
  <2>1. /\ Len(g) \in Nat /\ Len(h) = Len(g) + 1 /\ h[Len(g) + 1] = p
        /\ \A i \in 1..Len(g) : h[i] = g[i]
    BY AppendProperties
  <2> HIDE DEF h
  <2>2. ASSUME Earlier(h, a, b) PROVE Earlier(g, a, b) \/ (Contains(g, a) /\ b = p)
    <3>1. PICK i \in 1..Len(h), j \in 1..Len(h) : i < j /\ h[i] = a /\ h[j] = b
      BY <2>2 DEF Earlier
    <3>2. i \in 1..Len(g) /\ g[i] = a
      BY <2>1, <3>1
    <3>3. CASE j = Len(g) + 1
      BY <2>1, <3>1, <3>2, <3>3 DEF Contains
    <3>4. CASE j # Len(g) + 1
      <4>1. j \in 1..Len(g) /\ g[j] = b
        BY <2>1, <3>1, <3>4
      <4>2. QED
        BY <3>1, <3>2, <4>1 DEF Earlier
    <3>5. QED
      BY <3>3, <3>4
  <2>3. ASSUME Earlier(g, a, b) PROVE Earlier(h, a, b)
    <3>1. PICK i \in 1..Len(g), j \in 1..Len(g) : i < j /\ g[i] = a /\ g[j] = b
      BY <2>3 DEF Earlier
    <3>2. i \in 1..Len(h) /\ j \in 1..Len(h) /\ h[i] = a /\ h[j] = b
      BY <2>1, <3>1
    <3>3. QED
      BY <3>1, <3>2 DEF Earlier
  <2>4. ASSUME Contains(g, a), b = p PROVE Earlier(h, a, b)
    <3>1. PICK i \in 1..Len(g) : g[i] = a
      BY <2>4 DEF Contains
    <3>2. /\ i \in 1..Len(h) /\ Len(g) + 1 \in 1..Len(h) /\ i < Len(g) + 1
          /\ h[i] = a /\ h[Len(g) + 1] = b
      BY <2>1, <2>4, <3>1
    <3>3. QED
      BY <3>2 DEF Earlier
  <2>5. QED
    BY <2>2, <2>3, <2>4 DEF h
<1>3. QED
  BY <1>1, <1>2

\* What is in the list with an element more, or without its first one.
LEMMA ContainsFacts ==
    ASSUME NEW S, NEW list \in Seq(S)
    PROVE  /\ \A q : ~Contains(<<>>, q)
           /\ \A q : Contains(list, q) => list # <<>> /\ q \in S
           /\ \A p \in S : /\ \A q : Contains(Append(list, p), q) <=> Contains(list, q) \/ q = p
                           /\ Distinct(list) /\ ~Contains(list, p) => Distinct(Append(list, p))
           /\ list # <<>> =>
                  /\ Head(list) \in S /\ Tail(list) \in Seq(S)
                  /\ \A q : Contains(list, q) <=> Contains(Tail(list), q) \/ q = Head(list)
                  /\ Distinct(list) => /\ Distinct(Tail(list))
                                       /\ ~Contains(Tail(list), Head(list))
<1>1. \A s \in Seq(S) : \A q : Contains(s, q) <=> q \in ToSet(s)
  BY DEF Contains, ToSet
<1>2. \A q : ~Contains(<<>>, q)
  BY DEF Contains
<1>3. \A q : Contains(list, q) => list # <<>> /\ q \in S
  BY DEF Contains
<1>4. ASSUME NEW p \in S
      PROVE  /\ \A q : Contains(Append(list, p), q) <=> Contains(list, q) \/ q = p
             /\ Distinct(list) /\ ~Contains(list, p) => Distinct(Append(list, p))
  <2>1. /\ Append(list, p) \in Seq(S)
        /\ ToSet(Append(list, p)) = ToSet(list) \cup {p}
        /\ Distinct(list) /\ p \notin ToSet(list) => Distinct(Append(list, p))
    BY AppendSet
  <2>2. QED
    BY <1>1, <2>1
<1>5. ASSUME list # <<>>
      PROVE  /\ Head(list) \in S /\ Tail(list) \in Seq(S)
             /\ \A q : Contains(list, q) <=> Contains(Tail(list), q) \/ q = Head(list)
             /\ Distinct(list) => /\ Distinct(Tail(list))
                                  /\ ~Contains(Tail(list), Head(list))
  <2>1. /\ Head(list) \in S /\ Tail(list) \in Seq(S)
        /\ Distinct(list) => /\ ToSet(Tail(list)) = ToSet(list) \ {Head(list)}
                             /\ Distinct(Tail(list))
    BY <1>5, TailSet
  <2>2. /\ Len(list) \in Nat /\ Len(list) >= 1 /\ Head(list) = list[1]
        /\ Len(Tail(list)) = Len(list) - 1
        /\ \A i \in 1..(Len(list) - 1) : Tail(list)[i] = list[i + 1]
    BY <1>5
  <2>3. ASSUME NEW q, Contains(list, q) PROVE Contains(Tail(list), q) \/ q = Head(list)
    <3>1. PICK i \in 1..Len(list) : list[i] = q
      BY <2>3 DEF Contains
    <3>2. i # 1 => i - 1 \in 1..Len(Tail(list)) /\ Tail(list)[i - 1] = q
      BY <2>2, <3>1
    <3>3. QED
      BY <2>2, <3>1, <3>2 DEF Contains
  <2>4. ASSUME NEW q, Contains(Tail(list), q) PROVE Contains(list, q)
    <3>1. PICK i \in 1..Len(Tail(list)) : Tail(list)[i] = q
      BY <2>4 DEF Contains
    <3>2. i + 1 \in 1..Len(list) /\ list[i + 1] = q
      BY <2>2, <3>1
    <3>3. QED
      BY <3>2 DEF Contains
  <2>5. Contains(list, Head(list))
    BY <2>2 DEF Contains
  <2>6. QED
    BY <1>1, <2>1, <2>3, <2>4, <2>5
<1>6. QED
  BY <1>2, <1>3, <1>4, <1>5

-----------------------------------------------------------------------------
(***************************************************************************)
(* The runs of the loop.                                                   *)
(***************************************************************************)
\* The k-th run has taken p and not yet fired it; it is firing p.
Taken(runs, k, p) == k \in 1..Len(runs) /\ Contains(runs[k].batch, p)
Fires(runs, k, p) == k \in 1..Len(runs) /\ runs[k].firing = p

\* p is in a mode of the loop.
Listed(lists, p) == \E m \in Modes : Contains(lists[m], p)

LEMMA RunFacts ==
    ASSUME stack \in Seq(RunType), Running
    PROVE  /\ Run \in RunType /\ Len(stack) \in 1..Len(stack) /\ Run = stack[Len(stack)]
           /\ Run.mode \in Modes /\ Run.batch \in Seq(Performs)
           /\ Run.todo \in Seq({"check", "events", "pipe"})
           /\ Run.firing \in Performs \cup {Source, None}
<1>1. Len(stack) \in Nat /\ Len(stack) \in 1..Len(stack)
  BY DEF Running
<1>2. Run = stack[Len(stack)]
  BY DEF Run
<1>3. Run \in RunType
  BY <1>1, <1>2, ElementOfSeq
<1>4. QED
  BY <1>1, <1>2, <1>3 DEF RunType

\* The innermost run goes on, and the others stay as they are.
LEMMA WithRunFacts ==
    ASSUME stack \in Seq(RunType), Running, NEW run \in RunType
    PROVE  /\ WithRun(run) \in Seq(RunType)
           /\ Len(WithRun(run)) = Len(stack)
           /\ \A k \in 1..Len(stack) :
                  /\ WithRun(run)[k].mode = IF k = Len(stack) THEN run.mode ELSE stack[k].mode
                  /\ WithRun(run)[k].batch = IF k = Len(stack) THEN run.batch
                                                               ELSE stack[k].batch
           /\ \A k, p : Taken(WithRun(run), k, p) <=>
                            IF k = Len(stack) THEN Contains(run.batch, p) ELSE Taken(stack, k, p)
           /\ \A k, p : Fires(WithRun(run), k, p) <=>
                            IF k = Len(stack) THEN run.firing = p ELSE Fires(stack, k, p)
<1> DEFINE w == WithRun(run)
<1>1. Len(stack) \in 1..Len(stack)
  BY RunFacts
<1>2. /\ w \in Seq(RunType) /\ Len(w) = Len(stack)
      /\ \A k \in 1..Len(stack) : w[k] = IF k = Len(stack) THEN run ELSE stack[k]
  BY <1>1, ExceptSeq DEF WithRun
<1> HIDE DEF w
<1>3. QED
  BY <1>1, <1>2 DEF Taken, Fires, w

\* A run within the others begins.
LEMMA PushFacts ==
    ASSUME stack \in Seq(RunType), NEW run \in RunType
    PROVE  /\ Append(stack, run) \in Seq(RunType)
           /\ Len(stack) \in Nat
           /\ Len(Append(stack, run)) = Len(stack) + 1
           /\ Append(stack, run)[Len(stack) + 1] = run
           /\ \A k \in 1..Len(stack) : Append(stack, run)[k] = stack[k]
           /\ \A k, p : Taken(Append(stack, run), k, p) <=>
                            Taken(stack, k, p) \/ (k = Len(stack) + 1 /\ Contains(run.batch, p))
           /\ \A k, p : Fires(Append(stack, run), k, p) <=>
                            Fires(stack, k, p) \/ (k = Len(stack) + 1 /\ run.firing = p)
<1> DEFINE w == Append(stack, run)
<1>1. /\ w \in Seq(RunType) /\ Len(stack) \in Nat /\ Len(w) = Len(stack) + 1
      /\ w[Len(stack) + 1] = run
      /\ \A k \in 1..Len(stack) : w[k] = stack[k]
  BY AppendProperties
<1>2. \A k : k \in 1..(Len(stack) + 1) <=> k \in 1..Len(stack) \/ k = Len(stack) + 1
  BY <1>1
<1> HIDE DEF w
<1>3. QED
  BY <1>1, <1>2 DEF Taken, Fires, w

\* The innermost run ends.
LEMMA PopFacts ==
    ASSUME stack \in Seq(RunType), Running
    PROVE  /\ Front(stack) \in Seq(RunType)
           /\ Len(Front(stack)) = Len(stack) - 1
           /\ \A k \in 1..(Len(stack) - 1) : Front(stack)[k] = stack[k]
           /\ \A k, p : Taken(Front(stack), k, p) <=> Taken(stack, k, p) /\ k # Len(stack)
           /\ \A k, p : Fires(Front(stack), k, p) <=> Fires(stack, k, p) /\ k # Len(stack)
<1>1. Len(stack) \in Nat \ {0} /\ Len(stack) \in 1..Len(stack)
  BY RunFacts
<1> DEFINE w == Front(stack)
<1>2. /\ w \in Seq(RunType)
      /\ Len(w) = Len(stack) - 1
      /\ \A k \in 1..(Len(stack) - 1) : w[k] = stack[k]
  <2>1. PICK n \in Nat : n = Len(stack) - 1
    BY <1>1
  <2>2. w = SubSeq(stack, 1, n)
    BY <2>1 DEF Front
  <2>3. n - 1 + 1 = n /\ \A k \in 1..n : 1 + k - 1 = k /\ stack[k] \in RunType
    BY <1>1, <2>1
  <2> HIDE DEF w
  <2>4. /\ w \in Seq(RunType)
        /\ Len(w) = IF 1 <= n THEN n - 1 + 1 ELSE 0
        /\ \A k \in 1..(n - 1 + 1) : w[k] = stack[1 + k - 1]
    BY <2>2, <2>3, SubSeqProperties
  <2>5. Len(w) = n /\ \A k \in 1..n : w[k] = stack[k]
    BY <2>3, <2>4
  <2>6. QED
    BY <2>1, <2>4, <2>5
<1>3. \A k : k \in 1..(Len(stack) - 1) <=> k \in 1..Len(stack) /\ k # Len(stack)
  BY <1>1
<1> HIDE DEF w
<1>4. QED
  BY <1>2, <1>3 DEF Taken, Fires, w

LEMMA Courses ==
    ASSUME NEW m \in Modes
    PROVE  {Accept(m), Course(m)} \subseteq Seq({"check", "events", "pipe"})
<1>0. \A S : \A a, b, c \in S : /\ <<c>> \in Seq(S) /\ <<c, a>> \in Seq(S)
                                 /\ <<c, b, c>> \in Seq(S) /\ <<c, a, b, a, c>> \in Seq(S)
  OBVIOUS
<1>1. /\ Accept(m) \in Seq({"check", "events", "pipe"})
      /\ <<"check", "events">> \in Seq({"check", "events", "pipe"})
      /\ <<"check">> \in Seq({"check", "events", "pipe"})
  BY <1>0, Zenon DEF Accept
<1>2. Course(m) \in Seq({"check", "events", "pipe"})
  BY <1>1, ConcatProperties DEF Course
<1>3. QED
  BY <1>1, <1>2

\* Only performers from other threads are on their way to the thread.
Typed == TypeOK /\ \A p \in Performs : status[p] = "called" => p \in Remote

LEMMA InitType == Init => Typed
<1>1. \A S : <<>> \in Seq(S)
  OBVIOUS
<1>2. 0 \in 0..PipeSize
  BY PerformAssumption
<1>3. QED
  BY <1>1, <1>2 DEF Init, Typed, TypeOK

LEMMA NextType == Typed /\ [Next]_vars => Typed'
<1> SUFFICES ASSUME Typed, [Next]_vars PROVE Typed'
  OBVIOUS
<1> USE DEF TypeOK, Typed
<1>0. PipeSize \in Nat \ {0} /\ stack \in Seq(RunType)
      /\ 0 \in 0..PipeSize /\ <<>> \in Seq(Remote)
  BY PerformAssumption
<1>1. ASSUME NEW p \in Performs, Call(p) PROVE Typed'
  BY <1>1 DEF Call
<1>2. ASSUME NEW p \in Performs, AddPerformer(p) PROVE Typed'
  <2>1. CASE status' = [status EXCEPT ![p] = "given"]
    <3>1. p \in Remote /\ status[p] = "called"
      BY <1>2 DEF AddPerformer
    <3>2. CASE bytes' = bytes + 1 /\ performers' = Append(performers, p) /\ given' = Append(given, p)
      <4>1. bytes' \in 0..PipeSize \/ ~(bytes < PipeSize)
        BY <1>0, <3>2
      <4>2. performers' \in Seq(Remote) /\ given' \in Seq(Remote)
        BY <3>1, <3>2
      <4>3. QED
        BY <1>0, <1>2, <2>1, <3>2, <4>1, <4>2 DEF AddPerformer
    <3>3. CASE status' = [status EXCEPT ![p] = "invalid"]
      BY <1>2, <3>3 DEF AddPerformer
    <3>4. QED
      BY <1>2, <3>2, <3>3 DEF AddPerformer
  <2>2. CASE status' = [status EXCEPT ![p] = "invalid"]
    BY <1>2, <2>2 DEF AddPerformer
  <2>3. QED
    BY <1>2, <2>1, <2>2 DEF AddPerformer
<1>3. ASSUME NEW p \in Performs, Schedule(p) PROVE Typed'
  BY <1>3, InsertAllFacts DEF Schedule
<1>4. ASSUME NEW p \in Performs, Cancel(p) PROVE Typed'
  BY <1>4, WithoutFacts DEF Cancel
<1>5. ASSUME NEW m \in Modes, RunLoop(m) PROVE Typed'
  <2>1. PICK todo \in {Accept(m), Course(m)} :
            stack' = Append(stack, [mode |-> m, todo |-> todo, batch |-> <<>>, firing |-> None])
    BY <1>5 DEF RunLoop
  <2>2. [mode |-> m, todo |-> todo, batch |-> <<>>, firing |-> None] \in RunType
    BY <2>1, Courses DEF RunType
  <2>3. QED
    BY <1>0, <1>5, <2>1, <2>2 DEF RunLoop
<1>6. ASSUME Running, NEW run \in RunType PROVE WithRun(run) \in Seq(RunType)
  BY <1>0, <1>6, WithRunFacts
<1>7. ASSUME Running, Run.todo # <<>>
      PROVE  Tail(Run.todo) \in Seq({"check", "events", "pipe"})
  BY <1>0, <1>7, RunFacts
<1>8. CASE Check
  <2>1. Running /\ Run.todo # <<>>
    BY <1>8 DEF Check, At
  <2>2. Run \in RunType /\ contexts[Run.mode] \in Seq(Performs)
    BY <1>0, <2>1, RunFacts
  <2>3. [Run EXCEPT !.todo = Tail(@), !.batch = contexts[Run.mode]] \in RunType
    BY <1>7, <2>1, <2>2 DEF RunType
  <2>4. QED
    BY <1>6, <1>8, <2>1, <2>3, WithoutFacts DEF Check
<1>9. CASE FireNext
  <2>1. Running /\ Run.batch # <<>>
    BY <1>9 DEF FireNext
  <2>2. /\ Run \in RunType
        /\ Head(Run.batch) \in Performs /\ Tail(Run.batch) \in Seq(Performs)
    BY <1>0, <2>1, RunFacts
  <2>3. [Run EXCEPT !.firing = Head(Run.batch), !.batch = Tail(@)] \in RunType
    BY <2>2 DEF RunType
  <2>4. QED
    BY <1>6, <1>9, <2>1, <2>3 DEF FireNext
<1>10. CASE Events
  <2>1. Running /\ Run.todo # <<>> /\ Run \in RunType
    BY <1>0, <1>10, RunFacts DEF Events, At
  <2>2. \A what \in {Source, None} :
            [Run EXCEPT !.todo = Tail(@), !.firing = what] \in RunType
    BY <1>7, <2>1 DEF RunType
  <2>3. QED
    BY <1>6, <1>10, <2>1, <2>2 DEF Events
<1>11. CASE EndFire
  <2>1. Running /\ Run \in RunType
    BY <1>0, <1>11, RunFacts DEF EndFire
  <2>2. [Run EXCEPT !.firing = None] \in RunType
    BY <2>1 DEF RunType
  <2>3. QED
    BY <1>6, <1>11, <2>1, <2>2 DEF EndFire
<1>12. CASE Poll
  <2>1. Running /\ Run.todo # <<>> /\ Run \in RunType
    BY <1>0, <1>12, RunFacts DEF Poll, At
  <2>2. [Run EXCEPT !.todo = Tail(@)] \in RunType
    BY <1>7, <2>1 DEF RunType
  <2>3. performers \in Seq(Performs)
    BY DEF Remote
  <2>4. InsertEach(contexts, performers) \in [Modes -> Seq(Performs)]
    BY <2>3, InsertEachFacts
  <2>5. stack' \in Seq(RunType)
    BY <1>6, <1>12, <2>1, <2>2 DEF Poll
  <2>6. CASE bytes > 0
    BY <1>0, <1>12, <2>4, <2>5, <2>6 DEF Poll, InfoFire
  <2>7. CASE ~(bytes > 0)
    BY <1>12, <2>5, <2>7 DEF Poll
  <2>8. QED
    BY <2>6, <2>7
<1>13. CASE Return
  BY <1>0, <1>13, PopFacts DEF Return
<1>14. CASE Finish
  BY <1>14 DEF Finish
<1>15. CASE Invalidate
  <2>1. status' \in [Performs -> {"new", "called", "refused", "given", "cancelled", "invalid", "done"}]
        /\ \A p \in Performs : status'[p] = "called" => status[p] = "called"
    BY <1>15 DEF Invalidate
  <2>2. QED
    BY <1>0, <1>15, <2>1 DEF Invalidate
<1>16. CASE UNCHANGED vars
  BY <1>16 DEF vars
<1>17. QED
  BY <1>1, <1>2, <1>3, <1>4, <1>5, <1>8, <1>9, <1>10, <1>11, <1>12, <1>13, <1>14,
     <1>15, <1>16 DEF Next, LoopStep

\* The values have the types the code gives them, however many performers and runs of
\* the loop there are and whatever the size of the pipe.
THEOREM TypeCorrect == Spec => []TypeOK
<1>1. Init => Typed
  BY InitType
<1>2. Typed /\ [Next]_vars => Typed'
  BY NextType
<1>3. Typed => TypeOK
  BY DEF Typed
<1>4. QED
  BY <1>1, <1>2, <1>3, PTL DEF Spec

\* A thread that was handed performers has a byte in its pipe.
THEOREM HandedSignalled == Spec => []HandedAreSignalled
<1> DEFINE Inv == Typed /\ HandedAreSignalled
<1>1. Init => Inv
  BY InitType DEF Init, HandedAreSignalled
<1>2. Inv /\ [Next]_vars => Inv'
  <2> SUFFICES ASSUME Typed, HandedAreSignalled, [Next]_vars PROVE HandedAreSignalled'
    BY NextType
  <2> USE DEF HandedAreSignalled
  <2>1. ASSUME NEW p \in Performs, Call(p) \/ Schedule(p) \/ Cancel(p)
        PROVE  HandedAreSignalled'
    BY <2>1 DEF Call, Schedule, Cancel
  <2>2. ASSUME NEW p \in Performs, AddPerformer(p) PROVE HandedAreSignalled'
    BY <2>2, PerformAssumption DEF AddPerformer, Typed, TypeOK
  <2>3. ASSUME NEW m \in Modes, RunLoop(m) PROVE HandedAreSignalled'
    BY <2>3 DEF RunLoop
  <2>4. CASE Check \/ FireNext \/ Events \/ EndFire \/ Return
    BY <2>4 DEF Check, FireNext, Events, EndFire, Return
  <2>5. CASE Poll
    BY <2>5 DEF Poll, InfoFire
  <2>6. CASE Finish \/ Invalidate
    BY <2>6 DEF Finish, Invalidate
  <2>7. CASE UNCHANGED vars
    BY <2>7 DEF vars
  <2>8. QED
    BY <2>1, <2>2, <2>3, <2>4, <2>5, <2>6, <2>7 DEF Next, LoopStep
<1>3. QED
  BY <1>1, <1>2, PTL DEF Spec

-----------------------------------------------------------------------------
(***************************************************************************)
(* A performer is in one place.  The invariant says which performers have  *)
(* a place at all, and what excludes what, one performer at a time.        *)
(***************************************************************************)
Placed(p) ==
    /\ status[p] = "given" <=> \/ Contains(performers, p)
                               \/ Listed(contexts, p)
                               \/ \E k : Taken(stack, k, p) \/ Fires(stack, k, p)
    /\ ~(Contains(performers, p) /\ Listed(contexts, p))
    /\ \A k : Taken(stack, k, p) \/ Fires(stack, k, p) =>
                  ~Contains(performers, p) /\ ~Listed(contexts, p)
    /\ \A j, k : /\ ~(Taken(stack, j, p) /\ Fires(stack, k, p))
                 /\ Taken(stack, j, p) /\ Taken(stack, k, p) => j = k
                 /\ Fires(stack, j, p) /\ Fires(stack, k, p) => j = k
    /\ Listed(contexts, p) => \A m \in Modes : m \in ModesOf[p] <=> Contains(contexts[m], p)

EachOnce ==
    /\ Distinct(performers)
    /\ \A m \in Modes : Distinct(contexts[m])
    /\ \A k \in 1..Len(stack) : Distinct(stack[k].batch)

PlaceInv == Typed /\ EachOnce /\ \A p \in Performs : Placed(p)

\* What the steps of the loop do to the places.
LEMMA CheckFacts ==
    ASSUME TypeOK, Check
    PROVE  /\ UNCHANGED <<status, performers, given>>
           /\ Run \in RunType /\ Run = stack[Len(stack)] /\ Len(stack) \in 1..Len(stack)
           /\ Len(stack') = Len(stack)
           /\ \A k \in 1..Len(stack) :
                  /\ stack'[k].mode = stack[k].mode
                  /\ stack'[k].batch = IF k = Len(stack) THEN contexts[Run.mode] ELSE stack[k].batch
           /\ \A p : ~Taken(stack, Len(stack), p)
           /\ \A k, p : Taken(stack', k, p) <=> IF k = Len(stack) THEN Contains(contexts[Run.mode], p)
                                                                  ELSE Taken(stack, k, p)
           /\ \A k, p : Fires(stack', k, p) <=> Fires(stack, k, p)
           /\ \A m \in Modes :
                  /\ contexts'[m] = Without(contexts[m], ToSet(contexts[Run.mode]))
                  /\ \A p : Contains(contexts'[m], p) <=> /\ Contains(contexts[m], p)
                                                          /\ ~Contains(contexts[Run.mode], p)
<1> DEFINE batch == contexts[Run.mode]
           run == [Run EXCEPT !.todo = Tail(@), !.batch = batch]
<1>1. stack \in Seq(RunType) /\ Running /\ Run.todo # <<>> /\ Run.batch = <<>>
  BY DEF TypeOK, Check, At
<1>2. /\ Run \in RunType /\ Len(stack) \in 1..Len(stack) /\ Run = stack[Len(stack)]
      /\ batch \in Seq(Performs) /\ Tail(Run.todo) \in Seq({"check", "events", "pipe"})
  BY <1>1, RunFacts DEF TypeOK
<1>3. /\ run \in RunType /\ run.mode = Run.mode /\ run.batch = batch /\ run.firing = Run.firing
  BY <1>2 DEF RunType
<1>4. /\ stack' = WithRun(run)
      /\ contexts' = [m \in Modes |-> Without(contexts[m], ToSet(batch))]
      /\ UNCHANGED <<status, performers, given>>
  BY DEF Check
<1> HIDE DEF run
<1>5. /\ Len(stack') = Len(stack)
      /\ \A k \in 1..Len(stack) :
             /\ stack'[k].mode = IF k = Len(stack) THEN run.mode ELSE stack[k].mode
             /\ stack'[k].batch = IF k = Len(stack) THEN run.batch ELSE stack[k].batch
      /\ \A k, p : Taken(stack', k, p) <=>
                       IF k = Len(stack) THEN Contains(run.batch, p) ELSE Taken(stack, k, p)
      /\ \A k, p : Fires(stack', k, p) <=>
                       IF k = Len(stack) THEN run.firing = p ELSE Fires(stack, k, p)
  BY <1>1, <1>3, <1>4, WithRunFacts
<1>6. \A p : Fires(stack, Len(stack), p) <=> Run.firing = p
  BY <1>2 DEF Fires
<1>7. \A p : ~Taken(stack, Len(stack), p)
  BY <1>1, <1>2 DEF Taken, Contains
<1>8. \A p : p \in ToSet(batch) <=> Contains(batch, p)
  BY <1>2 DEF ToSet, Contains
<1>9. \A m \in Modes :
          /\ contexts'[m] = Without(contexts[m], ToSet(batch))
          /\ \A p : Contains(contexts'[m], p) <=> Contains(contexts[m], p) /\ ~Contains(batch, p)
  BY <1>4, <1>8, WithoutFacts DEF TypeOK
<1>10. \A k \in 1..Len(stack) :
           /\ stack'[k].mode = stack[k].mode
           /\ stack'[k].batch = IF k = Len(stack) THEN contexts[Run.mode] ELSE stack[k].batch
  BY <1>2, <1>3, <1>5
<1>11. \A k, p : Taken(stack', k, p) <=> IF k = Len(stack) THEN Contains(contexts[Run.mode], p)
                                                           ELSE Taken(stack, k, p)
  BY <1>3, <1>5
<1>12. \A k, p : Fires(stack', k, p) <=> Fires(stack, k, p)
  BY <1>3, <1>5, <1>6
<1> HIDE DEF batch
<1>13. /\ \A m \in Modes : contexts'[m] = Without(contexts[m], ToSet(contexts[Run.mode]))
       /\ \A m \in Modes : \A p :
              Contains(contexts'[m], p) <=> Contains(contexts[m], p) /\ ~Contains(contexts[Run.mode], p)
  BY <1>9 DEF batch
<1>14. QED
  BY <1>2, <1>4, <1>5, <1>7, <1>10, <1>11, <1>12, <1>13

LEMMA FireNextFacts ==
    ASSUME TypeOK, FireNext
    PROVE  /\ UNCHANGED <<status, performers, contexts, given>>
           /\ Run.batch \in Seq(Performs) /\ Run.batch # <<>> /\ Run = stack[Len(stack)]
           /\ Head(Run.batch) \in Performs
           /\ Len(stack) \in 1..Len(stack) /\ Len(stack') = Len(stack)
           /\ \A k \in 1..Len(stack) :
                  /\ stack'[k].mode = stack[k].mode
                  /\ stack'[k].batch = IF k = Len(stack) THEN Tail(Run.batch) ELSE stack[k].batch
           /\ \A p \in Performs : ~Fires(stack, Len(stack), p)
           /\ \A p : Taken(stack, Len(stack), p) <=> Contains(Run.batch, p)
           /\ \A k, p : Taken(stack', k, p) <=> IF k = Len(stack) THEN Contains(Tail(Run.batch), p)
                                                                  ELSE Taken(stack, k, p)
           /\ \A k, p : Fires(stack', k, p) <=> IF k = Len(stack) THEN p = Head(Run.batch)
                                                                  ELSE Fires(stack, k, p)
<1> DEFINE run == [Run EXCEPT !.firing = Head(Run.batch), !.batch = Tail(@)]
<1>1. stack \in Seq(RunType) /\ Running /\ Run.firing = None /\ Run.batch # <<>>
  BY DEF TypeOK, FireNext
<1>2. /\ Run \in RunType /\ Len(stack) \in 1..Len(stack) /\ Run = stack[Len(stack)]
      /\ Run.batch \in Seq(Performs)
      /\ Head(Run.batch) \in Performs /\ Tail(Run.batch) \in Seq(Performs)
  BY <1>1, RunFacts
<1>3. /\ run \in RunType /\ run.mode = Run.mode
      /\ run.batch = Tail(Run.batch) /\ run.firing = Head(Run.batch)
  BY <1>2 DEF RunType
<1>4. stack' = WithRun(run) /\ UNCHANGED <<status, performers, contexts, given>>
  BY DEF FireNext
<1> HIDE DEF run
<1>5. /\ Len(stack') = Len(stack)
      /\ \A k \in 1..Len(stack) :
             /\ stack'[k].mode = IF k = Len(stack) THEN run.mode ELSE stack[k].mode
             /\ stack'[k].batch = IF k = Len(stack) THEN run.batch ELSE stack[k].batch
      /\ \A k, p : Taken(stack', k, p) <=>
                       IF k = Len(stack) THEN Contains(run.batch, p) ELSE Taken(stack, k, p)
      /\ \A k, p : Fires(stack', k, p) <=>
                       IF k = Len(stack) THEN run.firing = p ELSE Fires(stack, k, p)
  BY <1>1, <1>3, <1>4, WithRunFacts
<1>6. /\ \A p : Taken(stack, Len(stack), p) <=> Contains(Run.batch, p)
      /\ \A p \in Performs : ~Fires(stack, Len(stack), p)
  BY <1>1, <1>2, PerformAssumption DEF Taken, Fires
<1>7. QED
  BY <1>1, <1>2, <1>3, <1>4, <1>5, <1>6

\* Steps of the innermost run that neither take nor begin to fire a performer.
LEMMA GoOnFacts ==
    ASSUME TypeOK, Running, NEW run \in RunType, run.mode = Run.mode, run.batch = Run.batch,
           stack' = WithRun(run)
    PROVE  /\ Run = stack[Len(stack)] /\ Run \in RunType
           /\ Len(stack) \in 1..Len(stack) /\ Len(stack') = Len(stack)
           /\ \A k \in 1..Len(stack) : /\ stack'[k].mode = stack[k].mode
                                       /\ stack'[k].batch = stack[k].batch
           /\ \A p : Fires(stack, Len(stack), p) <=> Run.firing = p
           /\ \A k, p : Taken(stack', k, p) <=> Taken(stack, k, p)
           /\ \A k, p : Fires(stack', k, p) <=> IF k = Len(stack) THEN run.firing = p
                                                                  ELSE Fires(stack, k, p)
<1>1. stack \in Seq(RunType)
  BY DEF TypeOK
<1>2. Run \in RunType /\ Len(stack) \in 1..Len(stack) /\ Run = stack[Len(stack)]
  BY <1>1, RunFacts
<1>3. /\ Len(stack') = Len(stack)
      /\ \A k \in 1..Len(stack) :
             /\ stack'[k].mode = IF k = Len(stack) THEN run.mode ELSE stack[k].mode
             /\ stack'[k].batch = IF k = Len(stack) THEN run.batch ELSE stack[k].batch
      /\ \A k, p : Taken(stack', k, p) <=>
                       IF k = Len(stack) THEN Contains(run.batch, p) ELSE Taken(stack, k, p)
      /\ \A k, p : Fires(stack', k, p) <=>
                       IF k = Len(stack) THEN run.firing = p ELSE Fires(stack, k, p)
  BY <1>1, WithRunFacts
<1>4. /\ \A p : Taken(stack, Len(stack), p) <=> Contains(Run.batch, p)
      /\ \A p : Fires(stack, Len(stack), p) <=> Run.firing = p
  BY <1>2 DEF Taken, Fires
<1>5. QED
  BY <1>2, <1>3, <1>4

LEMMA EventsFacts ==
    ASSUME TypeOK, Events
    PROVE  /\ UNCHANGED <<status, performers, contexts, given>>
           /\ Len(stack) \in 1..Len(stack) /\ Len(stack') = Len(stack)
           /\ \A k \in 1..Len(stack) : /\ stack'[k].mode = stack[k].mode
                                       /\ stack'[k].batch = stack[k].batch
           /\ \A k, p : Taken(stack', k, p) <=> Taken(stack, k, p)
           /\ \A k : \A p \in Performs : Fires(stack', k, p) <=> Fires(stack, k, p)
<1>1. /\ stack \in Seq(RunType) /\ Running /\ Run.firing = None /\ Run.todo # <<>>
      /\ UNCHANGED <<status, performers, contexts, given>>
  BY DEF TypeOK, Events, At
<1>2. PICK what \in {Source, None} :
          stack' = WithRun([Run EXCEPT !.todo = Tail(@), !.firing = what])
  BY DEF Events
<1> DEFINE run == [Run EXCEPT !.todo = Tail(@), !.firing = what]
<1>3. /\ run \in RunType /\ run.mode = Run.mode /\ run.batch = Run.batch /\ run.firing = what
  <2>1. Run \in RunType /\ Tail(Run.todo) \in Seq({"check", "events", "pipe"})
    BY <1>1, RunFacts
  <2>2. QED
    BY <1>2, <2>1 DEF RunType
<1>4. stack' = WithRun(run)
  BY <1>2
<1> HIDE DEF run
<1>5. /\ Len(stack) \in 1..Len(stack) /\ Len(stack') = Len(stack)
      /\ \A k \in 1..Len(stack) : /\ stack'[k].mode = stack[k].mode
                                  /\ stack'[k].batch = stack[k].batch
      /\ \A p : Fires(stack, Len(stack), p) <=> Run.firing = p
      /\ \A k, p : Taken(stack', k, p) <=> Taken(stack, k, p)
      /\ \A k, p : Fires(stack', k, p) <=> IF k = Len(stack) THEN run.firing = p
                                                             ELSE Fires(stack, k, p)
  BY <1>1, <1>3, <1>4, GoOnFacts
<1>6. \A p \in Performs : p # what /\ p # None
  BY <1>2, PerformAssumption
<1>7. QED
  BY <1>1, <1>3, <1>5, <1>6

LEMMA EndFireFacts ==
    ASSUME TypeOK, EndFire
    PROVE  /\ UNCHANGED <<performers, contexts, given>>
           /\ \A p \in Performs :
                  status'[p] = IF Fires(stack, Len(stack), p) THEN "done" ELSE status[p]
           /\ Len(stack) \in 1..Len(stack) /\ Len(stack') = Len(stack)
           /\ \A k \in 1..Len(stack) : /\ stack'[k].mode = stack[k].mode
                                       /\ stack'[k].batch = stack[k].batch
           /\ \A k, p : Taken(stack', k, p) <=> Taken(stack, k, p)
           /\ \A k : \A p \in Performs : Fires(stack', k, p) <=> Fires(stack, k, p) /\ k # Len(stack)
<1> DEFINE run == [Run EXCEPT !.firing = None]
<1>1. /\ stack \in Seq(RunType) /\ Running
      /\ UNCHANGED <<performers, contexts, given>>
      /\ \A p \in Performs : status'[p] = IF p = Run.firing THEN "done" ELSE status[p]
      /\ stack' = WithRun(run)
  BY DEF TypeOK, EndFire
<1>2. /\ run \in RunType /\ run.mode = Run.mode /\ run.batch = Run.batch /\ run.firing = None
  <2>1. Run \in RunType
    BY <1>1, RunFacts
  <2>2. QED
    BY <2>1 DEF RunType
<1> HIDE DEF run
<1>3. /\ Len(stack) \in 1..Len(stack) /\ Len(stack') = Len(stack)
      /\ \A k \in 1..Len(stack) : /\ stack'[k].mode = stack[k].mode
                                  /\ stack'[k].batch = stack[k].batch
      /\ \A p : Fires(stack, Len(stack), p) <=> Run.firing = p
      /\ \A k, p : Taken(stack', k, p) <=> Taken(stack, k, p)
      /\ \A k, p : Fires(stack', k, p) <=> IF k = Len(stack) THEN run.firing = p
                                                             ELSE Fires(stack, k, p)
  BY <1>1, <1>2, GoOnFacts
<1>4. \A p \in Performs : p # None
  BY PerformAssumption
<1>5. QED
  BY <1>1, <1>2, <1>3, <1>4

\* A poll: the pipe is fired, or nothing but the course of the run changes.
LEMMA PollFacts ==
    ASSUME TypeOK, Poll
    PROVE  /\ UNCHANGED <<status, given>>
           /\ Len(stack) \in 1..Len(stack) /\ Len(stack') = Len(stack)
           /\ \A k \in 1..Len(stack) : /\ stack'[k].mode = stack[k].mode
                                       /\ stack'[k].batch = stack[k].batch
           /\ \A k, p : Taken(stack', k, p) <=> Taken(stack, k, p)
           /\ \A k, p : Fires(stack', k, p) <=> Fires(stack, k, p)
           /\ \/ UNCHANGED <<performers, contexts>>
              \/ performers' = <<>> /\ contexts' = InsertEach(contexts, performers)
<1> DEFINE run == [Run EXCEPT !.todo = Tail(@)]
<1>1. /\ stack \in Seq(RunType) /\ Running /\ Run.todo # <<>>
      /\ UNCHANGED <<status, given>>
      /\ stack' = WithRun(run)
      /\ \/ UNCHANGED <<performers, contexts>>
         \/ performers' = <<>> /\ contexts' = InsertEach(contexts, performers)
  BY DEF TypeOK, Poll, At, InfoFire
<1>2. /\ run \in RunType /\ run.mode = Run.mode /\ run.batch = Run.batch
      /\ run.firing = Run.firing
  <2>1. Run \in RunType /\ Tail(Run.todo) \in Seq({"check", "events", "pipe"})
    BY <1>1, RunFacts
  <2>2. QED
    BY <2>1 DEF RunType
<1> HIDE DEF run
<1>3. /\ Len(stack) \in 1..Len(stack) /\ Len(stack') = Len(stack)
      /\ \A k \in 1..Len(stack) : /\ stack'[k].mode = stack[k].mode
                                  /\ stack'[k].batch = stack[k].batch
      /\ \A p : Fires(stack, Len(stack), p) <=> Run.firing = p
      /\ \A k, p : Taken(stack', k, p) <=> Taken(stack, k, p)
      /\ \A k, p : Fires(stack', k, p) <=> IF k = Len(stack) THEN run.firing = p
                                                             ELSE Fires(stack, k, p)
  BY <1>1, <1>2, GoOnFacts
<1>4. QED
  BY <1>1, <1>2, <1>3

LEMMA ReturnFacts ==
    ASSUME TypeOK, Return
    PROVE  /\ UNCHANGED <<status, performers, contexts, given>>
           /\ Len(stack) \in 1..Len(stack) /\ Len(stack') = Len(stack) - 1
           /\ \A k \in 1..(Len(stack) - 1) : stack'[k] = stack[k]
           /\ \A p : ~Taken(stack, Len(stack), p)
           /\ \A p \in Performs : ~Fires(stack, Len(stack), p)
           /\ \A k, p : Taken(stack', k, p) <=> Taken(stack, k, p) /\ k # Len(stack)
           /\ \A k, p : Fires(stack', k, p) <=> Fires(stack, k, p) /\ k # Len(stack)
<1>1. /\ stack \in Seq(RunType) /\ Running /\ Run.batch = <<>> /\ Run.firing = None
      /\ UNCHANGED <<status, performers, contexts, given>>
      /\ stack' = Front(stack)
  BY DEF TypeOK, Return
<1>2. Run \in RunType /\ Len(stack) \in 1..Len(stack) /\ Run = stack[Len(stack)]
  BY <1>1, RunFacts
<1>3. /\ \A p : ~Taken(stack, Len(stack), p)
      /\ \A p \in Performs : ~Fires(stack, Len(stack), p)
  BY <1>1, <1>2, PerformAssumption DEF Taken, Fires, Contains
<1>4. /\ Len(stack') = Len(stack) - 1
      /\ \A k \in 1..(Len(stack) - 1) : stack'[k] = stack[k]
      /\ \A k, p : Taken(stack', k, p) <=> Taken(stack, k, p) /\ k # Len(stack)
      /\ \A k, p : Fires(stack', k, p) <=> Fires(stack, k, p) /\ k # Len(stack)
  BY <1>1, PopFacts
<1>5. QED
  BY <1>1, <1>2, <1>3, <1>4

LEMMA RunLoopFacts ==
    ASSUME TypeOK, NEW m \in Modes, RunLoop(m)
    PROVE  /\ UNCHANGED <<status, performers, contexts, given>>
           /\ Len(stack) \in Nat /\ Len(stack') = Len(stack) + 1
           /\ stack'[Len(stack) + 1].batch = <<>>
           /\ \A k \in 1..Len(stack) : stack'[k] = stack[k]
           /\ \A k, p : Taken(stack', k, p) <=> Taken(stack, k, p)
           /\ \A k : \A p \in Performs : Fires(stack', k, p) <=> Fires(stack, k, p)
<1>1. PICK todo \in {Accept(m), Course(m)} :
          stack' = Append(stack, [mode |-> m, todo |-> todo, batch |-> <<>>, firing |-> None])
  BY DEF RunLoop
<1> DEFINE run == [mode |-> m, todo |-> todo, batch |-> <<>>, firing |-> None]
<1>2. run \in RunType /\ run.batch = <<>> /\ run.firing = None
  BY <1>1, Courses DEF RunType
<1>3. /\ stack \in Seq(RunType) /\ stack' = Append(stack, run)
      /\ UNCHANGED <<status, performers, contexts, given>>
  BY <1>1 DEF TypeOK, RunLoop
<1> HIDE DEF run
<1>4. /\ Len(stack) \in Nat /\ Len(stack') = Len(stack) + 1
      /\ stack'[Len(stack) + 1] = run
      /\ \A k \in 1..Len(stack) : stack'[k] = stack[k]
      /\ \A k, p : Taken(stack', k, p) <=>
                       Taken(stack, k, p) \/ (k = Len(stack) + 1 /\ Contains(run.batch, p))
      /\ \A k, p : Fires(stack', k, p) <=>
                       Fires(stack, k, p) \/ (k = Len(stack) + 1 /\ run.firing = p)
  BY <1>2, <1>3, PushFacts
<1>5. /\ \A p : ~Contains(<<>>, p)
      /\ \A p \in Performs : p # None
  BY PerformAssumption DEF Contains
<1>6. QED
  BY <1>2, <1>3, <1>4, <1>5

\* A performer of which nothing that places it has changed stays where it is.
LEMMA SamePlace ==
    ASSUME NEW q \in Performs, Placed(q),
           status'[q] = "given" <=> status[q] = "given",
           Contains(performers', q) <=> Contains(performers, q),
           \A m \in Modes : Contains(contexts'[m], q) <=> Contains(contexts[m], q),
           \A k : Taken(stack', k, q) <=> Taken(stack, k, q),
           \A k : Fires(stack', k, q) <=> Fires(stack, k, q)
    PROVE  Placed(q)'
<1>1. Listed(contexts', q) <=> Listed(contexts, q)
  BY DEF Listed
<1>2. QED
  BY <1>1, Zenon DEF Placed

LEMMA InitPlaced == Init => PlaceInv
<1> SUFFICES ASSUME Init PROVE PlaceInv
  OBVIOUS
<1>1. Typed
  BY InitType
<1>2. \A q : ~Contains(<<>>, q)
  BY DEF Contains
<1>3. Distinct(<<>>) /\ Len(<<>>) = 0
  BY DEF Distinct
<1>4. \A q : ~Listed(contexts, q) /\ ~Contains(performers, q)
  BY <1>2 DEF Init, Listed
<1>5. \A k, q : ~Taken(stack, k, q) /\ ~Fires(stack, k, q)
  BY <1>3 DEF Init, Taken, Fires
<1>6. \A q \in Performs : status[q] # "given"
  BY DEF Init
<1>7. EachOnce
  BY <1>3 DEF Init, EachOnce
<1>8. QED
  BY <1>1, <1>4, <1>5, <1>6, <1>7 DEF PlaceInv, Placed

LEMMA NextPlaced == PlaceInv /\ [Next]_vars => PlaceInv'
<1> SUFFICES ASSUME PlaceInv, [Next]_vars PROVE EachOnce' /\ \A q \in Performs : Placed(q)'
  BY NextType DEF PlaceInv
<1>0. Typed /\ TypeOK /\ EachOnce /\ \A q \in Performs : Placed(q)
  BY DEF PlaceInv, Typed
<1>a. /\ status \in [Performs -> {"new", "called", "refused", "given", "cancelled", "invalid", "done"}]
      /\ performers \in Seq(Performs) /\ contexts \in [Modes -> Seq(Performs)]
  BY <1>0 DEF TypeOK, Remote
<1>1. ASSUME NEW p \in Performs, Call(p)
      PROVE  EachOnce' /\ \A q \in Performs : Placed(q)'
  <2>1. \A q \in Performs : status'[q] = "given" <=> status[q] = "given"
    BY <1>1, <1>a DEF Call
  <2>2. UNCHANGED <<performers, contexts, stack>>
    BY <1>1 DEF Call
  <2>3. QED
    BY <1>0, <2>1, <2>2, SamePlace DEF EachOnce
<1>2. ASSUME NEW p \in Performs, AddPerformer(p)
      PROVE  EachOnce' /\ \A q \in Performs : Placed(q)'
  <2>1. status[p] = "called" /\ UNCHANGED <<contexts, stack>>
    BY <1>2 DEF AddPerformer
  <2>2. ~Contains(performers, p) /\ ~Listed(contexts, p)
        /\ \A k : ~Taken(stack, k, p) /\ ~Fires(stack, k, p)
    BY <1>0, <2>1 DEF Placed
  <2>3. CASE performers' = Append(performers, p) /\ status' = [status EXCEPT ![p] = "given"]
    <3>1. /\ \A q : Contains(performers', q) <=> Contains(performers, q) \/ q = p
          /\ Distinct(performers')
      BY <1>0, <1>a, <2>2, <2>3, ContainsFacts DEF EachOnce
    <3>2. status'[p] = "given" /\ \A q \in Performs : q # p => status'[q] = status[q]
      BY <1>a, <2>3
    <3>3. Placed(p)'
      <4>1. ~Listed(contexts', p) /\ \A k : ~Taken(stack', k, p) /\ ~Fires(stack', k, p)
        BY <2>1, <2>2
      <4>2. QED
        BY <3>1, <3>2, <4>1 DEF Placed
    <3>4. ASSUME NEW q \in Performs, q # p PROVE Placed(q)'
      BY <1>0, <2>1, <3>1, <3>2, <3>4, SamePlace
    <3>5. QED
      BY <1>0, <2>1, <3>1, <3>3, <3>4 DEF EachOnce
  <2>4. CASE UNCHANGED performers /\ status' = [status EXCEPT ![p] = "invalid"]
    <3>1. \A q \in Performs : status'[q] = "given" <=> status[q] = "given"
      BY <1>a, <2>1, <2>4
    <3>2. QED
      BY <1>0, <2>1, <2>4, <3>1, SamePlace DEF EachOnce
  <2>5. QED
    BY <1>2, <2>3, <2>4 DEF AddPerformer
<1>3. ASSUME NEW p \in Performs, Schedule(p)
      PROVE  EachOnce' /\ \A q \in Performs : Placed(q)'
  <2>1. /\ status[p] = "new" /\ UNCHANGED <<performers, stack>>
        /\ status' = [status EXCEPT ![p] = "given"]
        /\ contexts' = InsertAll(contexts, p)
    BY <1>3 DEF Schedule
  <2>2. ~Contains(performers, p) /\ ~Listed(contexts, p)
        /\ \A k : ~Taken(stack, k, p) /\ ~Fires(stack, k, p)
    BY <1>0, <2>1 DEF Placed
  <2>3. \A m \in Modes : contexts'[m] = IF m \in ModesOf[p] THEN Insert(contexts[m], p) ELSE contexts[m]
    BY <1>a, <2>1, InsertAllFacts
  <2>4. ASSUME NEW m \in Modes
        PROVE  /\ \A q : Contains(contexts'[m], q) <=>
                             Contains(contexts[m], q) \/ (q = p /\ m \in ModesOf[p])
               /\ Distinct(contexts'[m])
    <3>1. ~Contains(contexts[m], p) /\ Distinct(contexts[m]) /\ contexts[m] \in Seq(Performs)
      BY <1>0, <1>a, <2>2 DEF Listed, EachOnce
    <3>2. QED
      BY <2>3, <3>1, InsertFacts
  <2>5. status'[p] = "given" /\ \A q \in Performs : q # p => status'[q] = status[q]
    BY <1>a, <2>1
  <2>6. Placed(p)'
    <3>1. \E m \in Modes : m \in ModesOf[p]
      BY PerformAssumption
    <3>2. /\ Listed(contexts', p)
          /\ \A m \in Modes : m \in ModesOf[p] <=> Contains(contexts'[m], p)
      BY <2>2, <2>4, <3>1 DEF Listed
    <3>3. ~Contains(performers', p) /\ \A k : ~Taken(stack', k, p) /\ ~Fires(stack', k, p)
      BY <2>1, <2>2
    <3>4. QED
      BY <2>5, <3>2, <3>3 DEF Placed
  <2>7. ASSUME NEW q \in Performs, q # p PROVE Placed(q)'
    BY <1>0, <2>1, <2>4, <2>5, <2>7, SamePlace
  <2>8. QED
    BY <1>0, <2>1, <2>4, <2>6, <2>7 DEF EachOnce
<1>4. ASSUME NEW p \in Performs, Cancel(p)
      PROVE  EachOnce' /\ \A q \in Performs : Placed(q)'
  <2>1. /\ Listed(contexts, p) /\ UNCHANGED <<performers, stack>>
        /\ status' = [status EXCEPT ![p] = "cancelled"]
        /\ contexts' = [m \in Modes |-> Without(contexts[m], {p})]
    BY <1>4 DEF Cancel, Listed
  <2>2. ~Contains(performers, p) /\ \A k : ~Taken(stack, k, p) /\ ~Fires(stack, k, p)
    BY <1>0, <2>1 DEF Placed
  <2>3. ASSUME NEW m \in Modes
        PROVE  /\ \A q : Contains(contexts'[m], q) <=> Contains(contexts[m], q) /\ q # p
               /\ Distinct(contexts'[m])
    BY <1>0, <1>a, <2>1, WithoutFacts DEF EachOnce
  <2>4. status'[p] # "given" /\ \A q \in Performs : q # p => status'[q] = status[q]
    BY <1>a, <2>1
  <2>5. Placed(p)'
    <3>1. ~Listed(contexts', p)
      BY <2>3 DEF Listed
    <3>2. ~Contains(performers', p) /\ \A k : ~Taken(stack', k, p) /\ ~Fires(stack', k, p)
      BY <2>1, <2>2
    <3>3. QED
      BY <2>4, <3>1, <3>2 DEF Placed
  <2>6. ASSUME NEW q \in Performs, q # p PROVE Placed(q)'
    BY <1>0, <2>1, <2>3, <2>4, <2>6, SamePlace
  <2>7. QED
    BY <1>0, <2>1, <2>3, <2>5, <2>6 DEF EachOnce
<1>5. ASSUME NEW m \in Modes, RunLoop(m)
      PROVE  EachOnce' /\ \A q \in Performs : Placed(q)'
  <2>1. /\ UNCHANGED <<status, performers, contexts>>
        /\ Len(stack) \in Nat /\ Len(stack') = Len(stack) + 1
        /\ stack'[Len(stack) + 1].batch = <<>>
        /\ \A k \in 1..Len(stack) : stack'[k] = stack[k]
        /\ \A k, p : Taken(stack', k, p) <=> Taken(stack, k, p)
        /\ \A k : \A p \in Performs : Fires(stack', k, p) <=> Fires(stack, k, p)
    BY <1>0, <1>5, RunLoopFacts
  <2>2. \A q \in Performs : Placed(q)'
    BY <1>0, <2>1, SamePlace
  <2>3. Distinct(<<>>)
    BY DEF Distinct
  <2>4. \A k \in 1..Len(stack') : Distinct(stack'[k].batch)
    <3>1. \A k \in 1..Len(stack') : k \in 1..Len(stack) \/ k = Len(stack) + 1
      BY <2>1
    <3>2. QED
      BY <1>0, <2>1, <2>3, <3>1 DEF EachOnce
  <2>5. QED
    BY <1>0, <2>1, <2>2, <2>4 DEF EachOnce
<1>6. CASE Check
  <2> DEFINE d == Len(stack)
             here == contexts[Run.mode]
  <2>1. /\ UNCHANGED <<status, performers>>
        /\ Run \in RunType /\ d \in 1..Len(stack) /\ Len(stack') = Len(stack)
        /\ \A k \in 1..Len(stack) : stack'[k].batch = IF k = d THEN here ELSE stack[k].batch
        /\ \A p : ~Taken(stack, d, p)
        /\ \A k, p : Taken(stack', k, p) <=> IF k = d THEN Contains(here, p) ELSE Taken(stack, k, p)
        /\ \A k, p : Fires(stack', k, p) <=> Fires(stack, k, p)
        /\ \A m \in Modes :
               /\ contexts'[m] = Without(contexts[m], ToSet(here))
               /\ \A p : Contains(contexts'[m], p) <=> Contains(contexts[m], p) /\ ~Contains(here, p)
    BY <1>0, <1>6, CheckFacts
  <2>2. Run.mode \in Modes /\ here \in Seq(Performs)
    BY <1>a, <2>1 DEF RunType
  <2>3. EachOnce'
    <3>1. \A m \in Modes : Distinct(contexts'[m])
      BY <1>0, <1>a, <2>1, WithoutFacts DEF EachOnce
    <3>2. \A k \in 1..Len(stack') : Distinct(stack'[k].batch)
      BY <1>0, <2>1, <2>2 DEF EachOnce
    <3>3. QED
      BY <1>0, <2>1, <3>1, <3>2 DEF EachOnce
  <2> HIDE DEF d, here
  <2>4. ASSUME NEW q \in Performs, ~Contains(here, q) PROVE Placed(q)'
    BY <1>0, <2>1, <2>4, SamePlace
  <2>5. ASSUME NEW q \in Performs, Contains(here, q) PROVE Placed(q)'
    <3>1. Listed(contexts, q)
      BY <2>2, <2>5 DEF Listed, here
    <3>2. /\ status[q] = "given" /\ ~Contains(performers, q)
          /\ \A k : ~Taken(stack, k, q) /\ ~Fires(stack, k, q)
      BY <1>0, <3>1 DEF Placed
    <3>3. ~Listed(contexts', q)
      BY <2>1, <2>5 DEF Listed
    <3>4. \A k : Taken(stack', k, q) <=> k = d
      BY <2>1, <2>5, <3>2
    <3>5. \A k : ~Fires(stack', k, q)
      BY <2>1, <3>2
    <3>6. status'[q] = "given" /\ ~Contains(performers', q)
      BY <2>1, <3>2
    <3>7. QED
      BY <3>3, <3>4, <3>5, <3>6 DEF Placed
  <2>6. QED
    BY <2>3, <2>4, <2>5
<1>7. CASE FireNext
  <2> DEFINE d == Len(stack)
             batch == Run.batch
             first == Head(batch)
  <2>1. /\ UNCHANGED <<status, performers, contexts>>
        /\ batch \in Seq(Performs) /\ batch # <<>> /\ Run = stack[d]
        /\ first \in Performs
        /\ d \in 1..Len(stack) /\ Len(stack') = Len(stack)
        /\ \A k \in 1..Len(stack) : stack'[k].batch = IF k = d THEN Tail(batch) ELSE stack[k].batch
        /\ \A p \in Performs : ~Fires(stack, d, p)
        /\ \A p : Taken(stack, d, p) <=> Contains(batch, p)
        /\ \A k, p : Taken(stack', k, p) <=>
                         IF k = d THEN Contains(Tail(batch), p) ELSE Taken(stack, k, p)
        /\ \A k, p : Fires(stack', k, p) <=> IF k = d THEN p = first ELSE Fires(stack, k, p)
    BY <1>0, <1>7, FireNextFacts
  <2>2. Distinct(batch)
    BY <1>0, <2>1 DEF EachOnce
  <2>3. /\ \A q : Contains(batch, q) <=> Contains(Tail(batch), q) \/ q = first
        /\ Distinct(Tail(batch)) /\ ~Contains(Tail(batch), first)
    BY <2>1, <2>2, ContainsFacts
  <2>4. EachOnce'
    BY <1>0, <2>1, <2>3 DEF EachOnce
  <2> HIDE DEF d, batch, first
  <2>5. PICK c \in Performs : c = first
    BY <2>1
  <2>6. ASSUME NEW q \in Performs, q # c PROVE Placed(q)'
    BY <1>0, <2>1, <2>3, <2>5, <2>6, SamePlace
  <2>7. Placed(c)'
    <3>1. Taken(stack, d, c)
      BY <2>1, <2>3, <2>5
    <3>2. /\ status[c] = "given" /\ ~Contains(performers, c) /\ ~Listed(contexts, c)
          /\ \A k : Taken(stack, k, c) => k = d
          /\ \A k : ~Fires(stack, k, c)
      BY <1>0, <2>1, <3>1 DEF Placed
    <3>3. \A k : ~Taken(stack', k, c)
      BY <2>1, <2>3, <2>5, <3>2
    <3>4. \A k : Fires(stack', k, c) <=> k = d
      BY <2>1, <2>5, <3>2
    <3>5. status'[c] = "given" /\ ~Contains(performers', c) /\ ~Listed(contexts', c)
      BY <2>1, <3>2
    <3>6. QED
      BY <3>3, <3>4, <3>5 DEF Placed
  <2>8. QED
    BY <2>4, <2>6, <2>7
<1>8. CASE Events
  <2>1. /\ UNCHANGED <<status, performers, contexts>> /\ Len(stack') = Len(stack)
        /\ \A k \in 1..Len(stack) : stack'[k].batch = stack[k].batch
        /\ \A k, p : Taken(stack', k, p) <=> Taken(stack, k, p)
        /\ \A k : \A p \in Performs : Fires(stack', k, p) <=> Fires(stack, k, p)
    BY <1>0, <1>8, EventsFacts
  <2>2. QED
    BY <1>0, <2>1, SamePlace DEF EachOnce
<1>9. CASE EndFire
  <2> DEFINE d == Len(stack)
  <2>1. /\ UNCHANGED <<performers, contexts>> /\ Len(stack') = Len(stack)
        /\ \A p \in Performs : status'[p] = IF Fires(stack, d, p) THEN "done" ELSE status[p]
        /\ \A k \in 1..Len(stack) : stack'[k].batch = stack[k].batch
        /\ \A k, p : Taken(stack', k, p) <=> Taken(stack, k, p)
        /\ \A k : \A p \in Performs : Fires(stack', k, p) <=> Fires(stack, k, p) /\ k # d
    BY <1>0, <1>9, EndFireFacts
  <2> HIDE DEF d
  <2>2. EachOnce'
    BY <1>0, <2>1 DEF EachOnce
  <2>3. ASSUME NEW q \in Performs, ~Fires(stack, d, q) PROVE Placed(q)'
    BY <1>0, <2>1, <2>3, SamePlace
  <2>4. ASSUME NEW q \in Performs, Fires(stack, d, q) PROVE Placed(q)'
    <3>1. /\ ~Contains(performers, q) /\ ~Listed(contexts, q)
          /\ \A k : ~Taken(stack, k, q)
          /\ \A k : Fires(stack, k, q) => k = d
      BY <1>0, <2>4 DEF Placed
    <3>2. /\ \A k : ~Taken(stack', k, q) /\ ~Fires(stack', k, q)
          /\ ~Contains(performers', q) /\ ~Listed(contexts', q)
          /\ status'[q] # "given"
      BY <2>1, <2>4, <3>1
    <3>3. QED
      BY <3>2 DEF Placed
  <2>5. QED
    BY <2>2, <2>3, <2>4
<1>10. CASE Poll
  <2>1. /\ UNCHANGED status /\ Len(stack') = Len(stack)
        /\ \A k \in 1..Len(stack) : stack'[k].batch = stack[k].batch
        /\ \A k, p : Taken(stack', k, p) <=> Taken(stack, k, p)
        /\ \A k, p : Fires(stack', k, p) <=> Fires(stack, k, p)
        /\ \/ UNCHANGED <<performers, contexts>>
           \/ performers' = <<>> /\ contexts' = InsertEach(contexts, performers)
    BY <1>0, <1>10, PollFacts
  <2>2. CASE UNCHANGED <<performers, contexts>>
    BY <1>0, <2>1, <2>2, SamePlace DEF EachOnce
  <2>3. CASE performers' = <<>> /\ contexts' = InsertEach(contexts, performers)
    <3>1. \A m \in Modes : \A q : ~(Contains(contexts[m], q) /\ Contains(performers, q))
      <4> SUFFICES ASSUME NEW m \in Modes, NEW q, Contains(contexts[m], q), Contains(performers, q)
                   PROVE  FALSE
        OBVIOUS
      <4>1. q \in Performs /\ Listed(contexts, q)
        BY <1>a, ContainsFacts DEF Listed
      <4>2. QED
        BY <1>0, <4>1 DEF Placed
    <3>2. \A m \in Modes :
              /\ \A q : Contains(contexts'[m], q) <=>
                            Contains(contexts[m], q) \/ (Contains(performers, q) /\ m \in ModesOf[q])
              /\ Distinct(contexts'[m])
      BY <1>0, <1>a, <2>3, <3>1, InsertEachFacts DEF EachOnce
    <3>3. (\A q : ~Contains(performers', q)) /\ Distinct(performers')
      BY <2>3 DEF Contains, Distinct
    <3>4. EachOnce'
      BY <1>0, <2>1, <3>2, <3>3 DEF EachOnce
    <3>5. ASSUME NEW q \in Performs, ~Contains(performers, q) PROVE Placed(q)'
      BY <1>0, <2>1, <3>2, <3>3, <3>5, SamePlace
    <3>6. ASSUME NEW q \in Performs, Contains(performers, q) PROVE Placed(q)'
      <4>1. /\ status[q] = "given" /\ ~Listed(contexts, q)
            /\ \A k : ~Taken(stack, k, q) /\ ~Fires(stack, k, q)
        BY <1>0, <3>6 DEF Placed
      <4>2. \A m \in Modes : Contains(contexts'[m], q) <=> m \in ModesOf[q]
        BY <3>2, <3>6, <4>1 DEF Listed
      <4>3. Listed(contexts', q)
        BY <4>2, PerformAssumption DEF Listed
      <4>4. /\ status'[q] = "given" /\ ~Contains(performers', q)
            /\ \A k : ~Taken(stack', k, q) /\ ~Fires(stack', k, q)
        BY <2>1, <3>3, <4>1
      <4>5. QED
        BY <4>2, <4>3, <4>4 DEF Placed
    <3>7. QED
      BY <3>4, <3>5, <3>6
  <2>4. QED
    BY <2>1, <2>2, <2>3
<1>11. CASE Return
  <2>1. /\ UNCHANGED <<status, performers, contexts>>
        /\ Len(stack) \in 1..Len(stack) /\ Len(stack') = Len(stack) - 1
        /\ \A k \in 1..(Len(stack) - 1) : stack'[k] = stack[k]
        /\ \A p : ~Taken(stack, Len(stack), p)
        /\ \A p \in Performs : ~Fires(stack, Len(stack), p)
        /\ \A k, p : Taken(stack', k, p) <=> Taken(stack, k, p) /\ k # Len(stack)
        /\ \A k, p : Fires(stack', k, p) <=> Fires(stack, k, p) /\ k # Len(stack)
    BY <1>0, <1>11, ReturnFacts
  <2>2. \A q \in Performs : Placed(q)'
    BY <1>0, <2>1, SamePlace
  <2>3. \A k \in 1..Len(stack') : k \in 1..Len(stack) /\ stack'[k] = stack[k]
    BY <2>1
  <2>4. QED
    BY <1>0, <2>1, <2>2, <2>3 DEF EachOnce
<1>12. CASE Finish
  <2>1. UNCHANGED <<status, performers, contexts, stack>>
    BY <1>12 DEF Finish
  <2>2. QED
    BY <1>0, <2>1, SamePlace DEF EachOnce
<1>13. CASE Invalidate
  <2>1. /\ performers' = <<>> /\ UNCHANGED <<contexts, stack>>
        /\ \A q \in Performs : status'[q] = IF Contains(performers, q) THEN "invalid" ELSE status[q]
    BY <1>13 DEF Invalidate
  <2>2. (\A q : ~Contains(performers', q)) /\ Distinct(performers')
    BY <2>1 DEF Contains, Distinct
  <2>3. EachOnce'
    BY <1>0, <2>1, <2>2 DEF EachOnce
  <2>4. ASSUME NEW q \in Performs, ~Contains(performers, q) PROVE Placed(q)'
    BY <1>0, <2>1, <2>2, <2>4, SamePlace
  <2>5. ASSUME NEW q \in Performs, Contains(performers, q) PROVE Placed(q)'
    <3>1. ~Listed(contexts, q) /\ \A k : ~Taken(stack, k, q) /\ ~Fires(stack, k, q)
      BY <1>0, <2>5 DEF Placed
    <3>2. /\ ~Listed(contexts', q) /\ \A k : ~Taken(stack', k, q) /\ ~Fires(stack', k, q)
          /\ status'[q] # "given" /\ ~Contains(performers', q)
      BY <2>1, <2>2, <2>5, <3>1
    <3>3. QED
      BY <3>2 DEF Placed
  <2>6. QED
    BY <2>3, <2>4, <2>5
<1>14. CASE UNCHANGED vars
  <2>1. UNCHANGED <<status, performers, contexts, stack>>
    BY <1>14 DEF vars
  <2>2. QED
    BY <1>0, <2>1, SamePlace DEF EachOnce
<1>15. QED
  BY <1>1, <1>2, <1>3, <1>4, <1>5, <1>6, <1>7, <1>8, <1>9, <1>10, <1>11, <1>12, <1>13,
     <1>14 DEF Next, LoopStep

\* A performer that was accepted is in one place until it is done, whatever runs within
\* what, so that it is fired once, and not when it is done or was cancelled.
THEOREM OnePlace == Spec => []InOnePlace
<1>1. PlaceInv => InOnePlace
  <2> SUFFICES ASSUME PlaceInv PROVE InOnePlace
    OBVIOUS
  <2>0. EachOnce /\ \A p \in Performs : Placed(p)
    BY DEF PlaceInv
  <2>1. \A p : InLoop(p) <=> Listed(contexts, p)
    BY DEF InLoop, Listed
  <2>2. \A p : InBatch(p) <=> \E k : Taken(stack, k, p)
    BY DEF InBatch, Taken
  <2>3. \A p : Firing(p) <=> \E k : Fires(stack, k, p)
    BY DEF Firing, Fires
  <2>4. ASSUME NEW p \in Performs
        PROVE  LET places == {x \in {"info", "loop", "batch", "firing"} :
                                 \/ x = "info" /\ Contains(performers, p)
                                 \/ x = "loop" /\ InLoop(p)
                                 \/ x = "batch" /\ InBatch(p)
                                 \/ x = "firing" /\ Firing(p)}
               IN  /\ status[p] = "given" => \E x \in places : places = {x}
                   /\ status[p] # "given" => places = {}
                   /\ InLoop(p) => \A m \in Modes : m \in ModesOf[p] <=> Contains(contexts[m], p)
    <3>1. /\ status[p] = "given" <=> Contains(performers, p) \/ InLoop(p) \/ InBatch(p) \/ Firing(p)
          /\ ~(Contains(performers, p) /\ InLoop(p))
          /\ InBatch(p) \/ Firing(p) => ~Contains(performers, p) /\ ~InLoop(p)
          /\ ~(InBatch(p) /\ Firing(p))
          /\ InLoop(p) => \A m \in Modes : m \in ModesOf[p] <=> Contains(contexts[m], p)
      BY <2>0, <2>1, <2>2, <2>3 DEF Placed
    <3>2. QED
      BY <3>1
  <2>5. /\ \A m \in Modes : Distinct(contexts[m])
        /\ Distinct(performers)
        /\ \A i \in 1..Len(stack) : Distinct(stack[i].batch)
    BY <2>0 DEF EachOnce
  <2>6. ASSUME NEW i \in 1..Len(stack), NEW j \in 1..Len(stack), NEW p \in Performs
        PROVE  /\ Contains(stack[i].batch, p) /\ Contains(stack[j].batch, p) => i = j
               /\ stack[i].firing = p /\ stack[j].firing = p => i = j
    <3>1. /\ Taken(stack, i, p) /\ Taken(stack, j, p) => i = j
          /\ Fires(stack, i, p) /\ Fires(stack, j, p) => i = j
      BY <2>0 DEF Placed
    <3>2. QED
      BY <3>1 DEF Taken, Fires
  <2>7. QED
    BY <2>4, <2>5, <2>6 DEF InOnePlace
<1>2. QED
  BY InitPlaced, NextPlaced, <1>1, PTL DEF Spec

-----------------------------------------------------------------------------
(***************************************************************************)
(* The order of performers from other threads.  What is with the thread's  *)
(* info was added after everything that the loop has, and what a run has   *)
(* taken was added before what is left in the modes of that run.           *)
(***************************************************************************)
Ordered ==
    /\ \A p \in Performs : status[p] \in {"new", "called"} => ~Contains(given, p)
    /\ AsGiven(given, performers)
    /\ \A m \in Modes : AsGiven(given, contexts[m]) /\ ByOrder(contexts[m])
    /\ \A k \in 1..Len(stack) : AsGiven(given, stack[k].batch)
    /\ \A p, q : Earlier(given, p, q) =>
           /\ Contains(performers, p) /\ status[q] = "given" => Contains(performers, q)
           /\ \A k : Taken(stack, k, q) /\ Listed(contexts, p) => stack[k].mode \notin ModesOf[p]

OrderInv == PlaceInv /\ Ordered

\* Steps that move no performer from a list to another.
LEMMA SameOrder ==
    ASSUME Typed, Ordered, given' = given,
           \A p \in Performs : status'[p] \in {"new", "called"} => status[p] \in {"new", "called"},
           \A p \in Performs : status'[p] = "given" => status[p] = "given",
           performers' = performers, contexts' = contexts,
           \A k \in 1..Len(stack') : AsGiven(given, stack'[k].batch),
           \A k, p : Taken(stack', k, p) => Taken(stack, k, p) /\ stack'[k].mode = stack[k].mode
    PROVE  Ordered'
<1>1. \A p, q : Earlier(given, p, q) => q \in Performs
  <2>1. given \in Seq(Performs)
    BY DEF Typed, TypeOK, Remote
  <2>2. QED
    BY <2>1, EarlierFacts, ContainsFacts
<1>2. \A p, q : Earlier(given, p, q) =>
          /\ Contains(performers, p) /\ status'[q] = "given" => Contains(performers, q)
          /\ \A k : Taken(stack', k, q) /\ Listed(contexts, p) => stack'[k].mode \notin ModesOf[p]
  BY <1>1 DEF Ordered
<1>3. QED
  BY <1>2 DEF Ordered

LEMMA NextOrdered == OrderInv /\ [Next]_vars => Ordered'
<1> SUFFICES ASSUME OrderInv, [Next]_vars PROVE Ordered'
  OBVIOUS
<1>0. /\ Typed /\ TypeOK /\ Ordered /\ \A q \in Performs : Placed(q)
      /\ status \in [Performs -> {"new", "called", "refused", "given", "cancelled", "invalid", "done"}]
      /\ performers \in Seq(Performs) /\ contexts \in [Modes -> Seq(Performs)]
      /\ given \in Seq(Performs) /\ stack \in Seq(RunType)
  BY DEF OrderInv, PlaceInv, Typed, TypeOK, Remote
<1>a. \A q : Contains(given, q) => q \in Remote /\ q \in Performs
  BY <1>0, ContainsFacts DEF TypeOK, Remote
<1>b. \A p, q : Earlier(given, p, q) => Contains(given, p) /\ Contains(given, q)
  BY <1>0, EarlierFacts
<1>1. ASSUME NEW p \in Performs, Call(p) PROVE Ordered'
  <2>1. /\ UNCHANGED <<performers, contexts, stack, given>>
        /\ \A q \in Performs : /\ status'[q] \in {"new", "called"} => status[q] \in {"new", "called"}
                               /\ status'[q] = "given" => status[q] = "given"
    BY <1>0, <1>1 DEF Call
  <2>2. \A k \in 1..Len(stack) : AsGiven(given, stack[k].batch)
    BY <1>0 DEF Ordered
  <2>3. QED
    BY <1>0, <2>1, <2>2, SameOrder
<1>2. ASSUME NEW p \in Performs, AddPerformer(p) PROVE Ordered'
  <2>1. status[p] = "called" /\ UNCHANGED <<contexts, stack>> /\ p \in Remote
    BY <1>0, <1>2 DEF AddPerformer, Typed
  <2>2. CASE /\ performers' = Append(performers, p)
             /\ given' = Append(given, p)
             /\ status' = [status EXCEPT ![p] = "given"]
    <3>1. /\ ~Contains(performers, p) /\ ~Listed(contexts, p) /\ ~Contains(given, p)
          /\ \A k : ~Taken(stack, k, p)
      BY <1>0, <2>1 DEF Placed, Ordered
    <3>2. /\ \A a, b : Earlier(given', a, b) <=> Earlier(given, a, b) \/ (Contains(given, a) /\ b = p)
          /\ \A q : Contains(given', q) <=> Contains(given, q) \/ q = p
          /\ \A q : Contains(performers', q) <=> Contains(performers, q) \/ q = p
      BY <1>0, <2>2, EarlierFacts, ContainsFacts
    <3>3. status'[p] = "given" /\ \A q \in Performs : q # p => status'[q] = status[q]
      BY <1>0, <2>2
    <3>4. \A q : ~Earlier(given', p, q)
      BY <1>b, <3>1, <3>2
    <3>5. ASSUME NEW list, ~Contains(list, p), AsGiven(given, list) PROVE AsGiven(given', list)
      BY <3>2, <3>5 DEF AsGiven, Contains
    <3>6. AsGiven(given', performers')
      <4>1. AsGiven(given', performers)
        BY <1>0, <3>1, <3>5 DEF Ordered
      <4>2. QED
        BY <1>0, <2>2, <3>4, <4>1, AsGivenFacts
    <3>7. \A m \in Modes : AsGiven(given', contexts'[m]) /\ ByOrder(contexts'[m])
      BY <1>0, <2>1, <3>1, <3>5 DEF Ordered, Listed
    <3>8. \A k \in 1..Len(stack') : AsGiven(given', stack'[k].batch)
      BY <1>0, <2>1, <3>1, <3>5 DEF Ordered, Taken
    <3>9. \A q \in Performs : status'[q] \in {"new", "called"} => ~Contains(given', q)
      BY <1>0, <3>2, <3>3 DEF Ordered
    <3>10. ASSUME NEW a, NEW b, Earlier(given', a, b)
           PROVE  /\ Contains(performers', a) /\ status'[b] = "given" => Contains(performers', b)
                  /\ \A k : Taken(stack', k, b) /\ Listed(contexts', a) =>
                                stack'[k].mode \notin ModesOf[a]
      <4>1. CASE b = p
        BY <2>1, <3>1, <3>2, <4>1
      <4>2. CASE b # p
        <5>1. Earlier(given, a, b) /\ a # p /\ b \in Performs
          BY <1>a, <1>b, <3>1, <3>2, <3>10, <4>2
        <5>2. QED
          BY <1>0, <2>1, <3>2, <3>3, <4>2, <5>1 DEF Ordered
      <4>3. QED
        BY <4>1, <4>2
    <3>11. QED
      BY <3>6, <3>7, <3>8, <3>9, <3>10 DEF Ordered
  <2>3. CASE UNCHANGED <<performers, given>> /\ status' = [status EXCEPT ![p] = "invalid"]
    <3>1. \A q \in Performs : /\ status'[q] \in {"new", "called"} => status[q] \in {"new", "called"}
                              /\ status'[q] = "given" => status[q] = "given"
      BY <1>0, <2>1, <2>3
    <3>2. \A k \in 1..Len(stack) : AsGiven(given, stack[k].batch)
      BY <1>0 DEF Ordered
    <3>3. QED
      BY <1>0, <2>1, <2>3, <3>1, <3>2, SameOrder
  <2>4. QED
    BY <1>2, <2>2, <2>3 DEF AddPerformer
<1>3. ASSUME NEW p \in Performs, Schedule(p) PROVE Ordered'
  <2>1. /\ status[p] = "new" /\ UNCHANGED <<performers, stack, given>>
        /\ status' = [status EXCEPT ![p] = "given"]
        /\ contexts' = InsertAll(contexts, p)
    BY <1>3 DEF Schedule
  <2>2. ~Contains(given, p)
    BY <1>0, <2>1 DEF Ordered
  <2>3. \A q : ~Earlier(given, p, q) /\ ~Earlier(given, q, p)
    BY <1>b, <2>2
  <2>4. \A m \in Modes : contexts'[m] = IF m \in ModesOf[p] THEN Insert(contexts[m], p) ELSE contexts[m]
    BY <1>0, <2>1, InsertAllFacts
  <2>5. ASSUME NEW m \in Modes
        PROVE  /\ AsGiven(given, contexts'[m]) /\ ByOrder(contexts'[m])
               /\ \A q : Contains(contexts'[m], q) => Contains(contexts[m], q) \/ q = p
    <3>1. AsGiven(given, contexts[m]) /\ ByOrder(contexts[m]) /\ contexts[m] \in Seq(Performs)
      BY <1>0 DEF Ordered
    <3>2. /\ AsGiven(given, Insert(contexts[m], p)) /\ ByOrder(Insert(contexts[m], p))
          /\ \A q : Contains(Insert(contexts[m], p), q) <=> Contains(contexts[m], q) \/ q = p
      BY <2>3, <3>1, InsertFacts
    <3>3. QED
      BY <2>4, <3>1, <3>2
  <2>6. \A q : Listed(contexts', q) => Listed(contexts, q) \/ q = p
    BY <2>5 DEF Listed
  <2>7. status'[p] = "given" /\ \A q \in Performs : q # p => status'[q] = status[q]
    BY <1>0, <2>1
  <2>8. ASSUME NEW a, NEW b, Earlier(given, a, b)
        PROVE  /\ Contains(performers, a) /\ status'[b] = "given" => Contains(performers, b)
               /\ \A k : Taken(stack, k, b) /\ Listed(contexts', a) =>
                             stack[k].mode \notin ModesOf[a]
    <3>1. a # p /\ b # p /\ b \in Performs
      BY <1>a, <1>b, <2>3, <2>8
    <3>2. QED
      BY <1>0, <2>6, <2>7, <2>8, <3>1 DEF Ordered
  <2>9. QED
    BY <1>0, <2>1, <2>2, <2>5, <2>7, <2>8 DEF Ordered
<1>4. ASSUME NEW p \in Performs, Cancel(p) PROVE Ordered'
  <2>1. /\ UNCHANGED <<performers, stack, given>>
        /\ status' = [status EXCEPT ![p] = "cancelled"]
        /\ contexts' = [m \in Modes |-> Without(contexts[m], {p})]
    BY <1>4 DEF Cancel
  <2>2. \A m \in Modes : /\ AsGiven(given, contexts'[m]) /\ ByOrder(contexts'[m])
                         /\ \A q : Contains(contexts'[m], q) => Contains(contexts[m], q)
    BY <1>0, <2>1, WithoutFacts DEF Ordered
  <2>3. \A q : Listed(contexts', q) => Listed(contexts, q)
    BY <2>2 DEF Listed
  <2>4. status'[p] = "cancelled" /\ \A q \in Performs : q # p => status'[q] = status[q]
    BY <1>0, <2>1
  <2>5. \A a, b : Earlier(given, a, b) =>
            /\ Contains(performers, a) /\ status'[b] = "given" => Contains(performers, b)
            /\ \A k : Taken(stack, k, b) /\ Listed(contexts', a) =>
                          stack[k].mode \notin ModesOf[a]
    BY <1>0, <1>a, <1>b, <2>3, <2>4 DEF Ordered
  <2>6. QED
    BY <1>0, <2>1, <2>2, <2>4, <2>5 DEF Ordered
<1>5. ASSUME NEW m \in Modes, RunLoop(m) PROVE Ordered'
  <2>1. /\ UNCHANGED <<status, performers, contexts, given>>
        /\ Len(stack) \in Nat /\ Len(stack') = Len(stack) + 1
        /\ stack'[Len(stack) + 1].batch = <<>>
        /\ \A k \in 1..Len(stack) : stack'[k] = stack[k]
        /\ \A k, p : Taken(stack', k, p) <=> Taken(stack, k, p)
    BY <1>0, <1>5, RunLoopFacts, Zenon DEF RunLoop
  <2>2. \A k \in 1..Len(stack') : AsGiven(given, stack'[k].batch)
    <3>1. \A k \in 1..Len(stack') : k \in 1..Len(stack) \/ k = Len(stack) + 1
      BY <2>1
    <3>2. AsGiven(given, <<>>)
      BY DEF AsGiven
    <3>3. QED
      BY <1>0, <2>1, <3>1, <3>2 DEF Ordered
  <2>3. \A k, p : Taken(stack', k, p) => Taken(stack, k, p) /\ stack'[k].mode = stack[k].mode
    BY <2>1 DEF Taken
  <2>4. QED
    BY <1>0, <2>1, <2>2, <2>3, SameOrder
<1>6. CASE Check
  <2> DEFINE d == Len(stack)
             here == contexts[Run.mode]
  <2>1. /\ UNCHANGED <<status, performers, given>>
        /\ Run \in RunType /\ Run = stack[d] /\ d \in 1..Len(stack) /\ Len(stack') = Len(stack)
        /\ \A k \in 1..Len(stack) :
               /\ stack'[k].mode = stack[k].mode
               /\ stack'[k].batch = IF k = d THEN here ELSE stack[k].batch
        /\ \A k, p : Taken(stack', k, p) <=> IF k = d THEN Contains(here, p) ELSE Taken(stack, k, p)
        /\ \A m \in Modes :
               /\ contexts'[m] = Without(contexts[m], ToSet(here))
               /\ \A p : Contains(contexts'[m], p) <=> Contains(contexts[m], p) /\ ~Contains(here, p)
    BY <1>0, <1>6, CheckFacts
  <2>2. Run.mode \in Modes /\ here \in Seq(Performs)
    BY <1>0, <2>1 DEF RunType
  <2>3. \A m \in Modes : AsGiven(given, contexts'[m]) /\ ByOrder(contexts'[m])
    BY <1>0, <2>1, WithoutFacts DEF Ordered
  <2>4. \A k \in 1..Len(stack') : AsGiven(given, stack'[k].batch)
    BY <1>0, <2>1, <2>2 DEF Ordered
  <2>5. \A q : Listed(contexts', q) => Listed(contexts, q) /\ ~Contains(here, q)
    BY <2>1 DEF Listed
  <2> HIDE DEF d
  <2>6. ASSUME NEW a, NEW b, Earlier(given, a, b), NEW k, Taken(stack', k, b), Listed(contexts', a)
        PROVE  stack'[k].mode \notin ModesOf[a]
    <3>1. k \in 1..Len(stack) /\ stack'[k].mode = stack[k].mode
      BY <2>1, <2>6 DEF Taken
    <3>2. CASE k = d
      <4>1. a \in Performs /\ ~Contains(here, a) /\ Listed(contexts, a)
        BY <1>a, <1>b, <2>5, <2>6
      <4>2. Run.mode \notin ModesOf[a]
        BY <1>0, <2>2, <4>1 DEF Placed
      <4>3. QED
        BY <2>1, <3>1, <3>2, <4>2
    <3>3. CASE k # d
      BY <1>0, <2>1, <2>5, <2>6, <3>1, <3>3 DEF Ordered
    <3>4. QED
      BY <3>2, <3>3
  <2>7. QED
    BY <1>0, <2>1, <2>3, <2>4, <2>6 DEF Ordered
<1>7. CASE FireNext
  <2> DEFINE d == Len(stack)
             batch == Run.batch
  <2>1. /\ UNCHANGED <<status, performers, contexts, given>>
        /\ batch \in Seq(Performs) /\ batch # <<>> /\ Run = stack[d]
        /\ d \in 1..Len(stack) /\ Len(stack') = Len(stack)
        /\ \A k \in 1..Len(stack) :
               /\ stack'[k].mode = stack[k].mode
               /\ stack'[k].batch = IF k = d THEN Tail(batch) ELSE stack[k].batch
        /\ \A p : Taken(stack, d, p) <=> Contains(batch, p)
        /\ \A k, p : Taken(stack', k, p) <=>
                         IF k = d THEN Contains(Tail(batch), p) ELSE Taken(stack, k, p)
    BY <1>0, <1>7, FireNextFacts
  <2>2. AsGiven(given, batch)
    BY <1>0, <2>1 DEF Ordered
  <2>3. AsGiven(given, Tail(batch)) /\ \A q : Contains(Tail(batch), q) => Contains(batch, q)
    BY <2>1, <2>2, AsGivenFacts, ContainsFacts
  <2>4. \A k \in 1..Len(stack') : AsGiven(given, stack'[k].batch)
    BY <1>0, <2>1, <2>3 DEF Ordered
  <2>5. \A k, p : Taken(stack', k, p) => Taken(stack, k, p) /\ stack'[k].mode = stack[k].mode
    <3> HIDE DEF batch
    <3>1. \A k, p : Taken(stack', k, p) => k \in 1..Len(stack')
      BY DEF Taken
    <3>2. QED
      BY <2>1, <2>3, <3>1
  <2>6. QED
    BY <1>0, <2>1, <2>4, <2>5, SameOrder
<1>8. CASE Events \/ EndFire
  <2>1. /\ UNCHANGED <<performers, contexts, given>> /\ Len(stack') = Len(stack)
        /\ \A k \in 1..Len(stack) : /\ stack'[k].mode = stack[k].mode
                                    /\ stack'[k].batch = stack[k].batch
        /\ \A k, p : Taken(stack', k, p) <=> Taken(stack, k, p)
        /\ \A p \in Performs : status'[p] \in {"done", status[p]}
    <3>1. CASE Events
      BY <1>0, <3>1, EventsFacts
    <3>2. CASE EndFire
      BY <1>0, <3>2, EndFireFacts
    <3>3. QED
      BY <1>8, <3>1, <3>2
  <2>2. \A k \in 1..Len(stack') : AsGiven(given, stack'[k].batch)
    BY <1>0, <2>1 DEF Ordered
  <2>3. \A k, p : Taken(stack', k, p) => Taken(stack, k, p) /\ stack'[k].mode = stack[k].mode
    BY <2>1 DEF Taken
  <2>4. \A p \in Performs : /\ status'[p] \in {"new", "called"} => status[p] \in {"new", "called"}
                            /\ status'[p] = "given" => status[p] = "given"
    BY <2>1
  <2>5. QED
    BY <1>0, <2>1, <2>2, <2>3, <2>4, SameOrder
<1>9. CASE Poll
  <2>1. /\ UNCHANGED <<status, given>> /\ Len(stack') = Len(stack)
        /\ \A k \in 1..Len(stack) : /\ stack'[k].mode = stack[k].mode
                                    /\ stack'[k].batch = stack[k].batch
        /\ \A k, p : Taken(stack', k, p) <=> Taken(stack, k, p)
        /\ \/ UNCHANGED <<performers, contexts>>
           \/ performers' = <<>> /\ contexts' = InsertEach(contexts, performers)
    BY <1>0, <1>9, PollFacts
  <2>2. \A k \in 1..Len(stack') : AsGiven(given, stack'[k].batch)
    BY <1>0, <2>1 DEF Ordered
  <2>3. \A k, p : Taken(stack', k, p) => Taken(stack, k, p) /\ stack'[k].mode = stack[k].mode
    BY <2>1 DEF Taken
  <2>4. CASE UNCHANGED <<performers, contexts>>
    BY <1>0, <2>1, <2>2, <2>3, <2>4, SameOrder
  <2>5. CASE performers' = <<>> /\ contexts' = InsertEach(contexts, performers)
    <3>1. ASSUME NEW m \in Modes PROVE MayFollow(given, contexts[m], performers)
      <4>1. ASSUME NEW p, NEW q, Contains(performers, p), Contains(contexts[m], q)
            PROVE  ~Earlier(given, p, q)
        <5>1. q \in Performs /\ Listed(contexts, q)
          BY <1>0, <4>1, ContainsFacts DEF Listed
        <5>2. status[q] = "given" /\ ~Contains(performers, q)
          BY <1>0, <5>1 DEF Placed
        <5>3. QED
          BY <1>0, <4>1, <5>2 DEF Ordered
      <4>2. QED
        BY <1>0, <1>a, <4>1 DEF MayFollow, Ordered
    <3>2. \A m \in Modes :
              /\ \A q : Contains(contexts'[m], q) =>
                            Contains(contexts[m], q) \/ Contains(performers, q)
              /\ AsGiven(given, contexts'[m]) /\ ByOrder(contexts'[m])
      BY <1>0, <2>5, <3>1, InsertEachFacts DEF MayFollow
    <3>3. \A q : Listed(contexts', q) => Listed(contexts, q) \/ Contains(performers, q)
      BY <3>2 DEF Listed
    <3>4. (\A q : ~Contains(performers', q)) /\ AsGiven(given, performers')
      BY <2>5 DEF Contains, AsGiven
    <3>5. ASSUME NEW a, NEW b, Earlier(given, a, b), NEW k, Taken(stack', k, b),
                 Listed(contexts', a)
          PROVE  stack'[k].mode \notin ModesOf[a]
      <4>1. b \in Performs /\ Taken(stack, k, b)
        BY <1>a, <1>b, <2>3, <3>5
      <4>2. status[b] = "given" /\ ~Contains(performers, b)
        BY <1>0, <4>1 DEF Placed
      <4>3. ~Contains(performers, a)
        BY <1>0, <3>5, <4>2 DEF Ordered
      <4>4. QED
        BY <1>0, <2>3, <3>3, <3>5, <4>1, <4>3 DEF Ordered
    <3>6. QED
      BY <1>0, <2>1, <2>2, <3>2, <3>4, <3>5 DEF Ordered
  <2>6. QED
    BY <2>1, <2>4, <2>5
<1>10. CASE Return
  <2>1. /\ UNCHANGED <<status, performers, contexts, given>>
        /\ Len(stack) \in 1..Len(stack) /\ Len(stack') = Len(stack) - 1
        /\ \A k \in 1..(Len(stack) - 1) : stack'[k] = stack[k]
        /\ \A k, p : Taken(stack', k, p) <=> Taken(stack, k, p) /\ k # Len(stack)
    BY <1>0, <1>10, ReturnFacts
  <2>2. \A k \in 1..Len(stack') : k \in 1..Len(stack) /\ stack'[k] = stack[k]
    BY <2>1
  <2>3. \A k \in 1..Len(stack') : AsGiven(given, stack'[k].batch)
    BY <1>0, <2>2 DEF Ordered
  <2>4. \A k, p : Taken(stack', k, p) => Taken(stack, k, p) /\ stack'[k].mode = stack[k].mode
    BY <2>1, <2>2 DEF Taken
  <2>5. QED
    BY <1>0, <2>1, <2>3, <2>4, SameOrder
<1>11. CASE Finish \/ UNCHANGED vars
  <2>1. UNCHANGED <<status, performers, contexts, stack, given>>
    BY <1>11 DEF Finish, vars
  <2>2. \A k \in 1..Len(stack) : AsGiven(given, stack[k].batch)
    BY <1>0 DEF Ordered
  <2>3. QED
    BY <1>0, <2>1, <2>2, SameOrder
<1>12. CASE Invalidate
  <2>1. /\ performers' = <<>> /\ UNCHANGED <<contexts, stack, given>>
        /\ \A q \in Performs : status'[q] = IF Contains(performers, q) THEN "invalid" ELSE status[q]
    BY <1>12 DEF Invalidate
  <2>2. (\A q : ~Contains(performers', q)) /\ AsGiven(given, performers')
    BY <2>1 DEF Contains, AsGiven
  <2>3. \A q \in Performs : status'[q] \in {"new", "called"} => status[q] \in {"new", "called"}
    BY <2>1
  <2>4. QED
    BY <1>0, <2>1, <2>2, <2>3 DEF Ordered
<1>13. QED
  BY <1>1, <1>2, <1>3, <1>4, <1>5, <1>6, <1>7, <1>8, <1>9, <1>10, <1>11, <1>12
  DEF Next, LoopStep

LEMMA InitOrdered == Init => OrderInv
<1>1. \A q : ~Contains(<<>>, q)
  BY DEF Contains
<1>2. \A g : AsGiven(g, <<>>)
  BY DEF AsGiven
<1>3. ByOrder(<<>>)
  BY DEF ByOrder
<1>4. \A p, q : ~Earlier(<<>>, p, q)
  BY DEF Earlier
<1>5. QED
  BY InitPlaced, <1>1, <1>2, <1>3, <1>4 DEF Init, OrderInv, Ordered

\* Performers from other threads are fired in the order in which they were added, if both
\* can be fired in the mode that is run.
THEOREM KeptInOrder == Spec => OrderKept
<1> DEFINE InTurn ==
        \A q \in Remote : ~Firing(q) /\ Firing(q)' =>
            \A i, j \in 1..Len(given) :
                /\ i < j /\ given[j] = q
                /\ status[given[i]] = "given"
                /\ Run.mode \in ModesOf[given[i]]
                => \E k \in 1..Len(stack) - 1 :
                       stack[k].firing = given[i] \/ Contains(stack[k].batch, given[i])
<1>1. OrderInv /\ [Next]_vars => OrderInv'
  BY NextPlaced, NextOrdered DEF OrderInv
<1>2. OrderInv /\ [Next]_vars => [InTurn]_vars
  <2> SUFFICES ASSUME OrderInv, [Next]_vars PROVE InTurn
    OBVIOUS
  <2>0. /\ Typed /\ TypeOK /\ Ordered /\ \A q \in Performs : Placed(q)
        /\ given \in Seq(Performs)
    BY DEF OrderInv, PlaceInv, Typed, TypeOK, Remote
  <2> SUFFICES ASSUME NEW q \in Remote, ~Firing(q), Firing(q)',
                      NEW i \in 1..Len(given), NEW j \in 1..Len(given),
                      i < j, given[j] = q, status[given[i]] = "given",
                      Run.mode \in ModesOf[given[i]]
               PROVE  \E k \in 1..Len(stack) - 1 :
                          stack[k].firing = given[i] \/ Contains(stack[k].batch, given[i])
    OBVIOUS
  <2>1. (\A k : ~Fires(stack, k, q)) /\ \E k : Fires(stack', k, q)
    BY DEF Firing, Fires
  <2>2. q \in Performs
    BY DEF Remote
  <2>3. FireNext
    <3>1. (\A k : Fires(stack', k, q) => Fires(stack, k, q)) => FALSE
      BY <2>1
    <3>2. ASSUME stack' = stack PROVE FALSE
      BY <2>1, <3>2
    <3>3. ASSUME NEW p \in Performs, Call(p) \/ AddPerformer(p) \/ Schedule(p) \/ Cancel(p)
          PROVE  FALSE
      BY <3>2, <3>3 DEF Call, AddPerformer, Schedule, Cancel
    <3>4. ASSUME NEW m \in Modes, RunLoop(m) PROVE FALSE
      BY <2>0, <2>2, <3>1, <3>4, RunLoopFacts
    <3>5. ~Check
      BY <2>0, <3>1, CheckFacts
    <3>6. ~Events
      BY <2>0, <2>2, <3>1, EventsFacts
    <3>7. ~EndFire
      BY <2>0, <2>2, <3>1, EndFireFacts
    <3>8. ~Poll
      BY <2>0, <3>1, PollFacts
    <3>9. ~Return
      BY <2>0, <3>1, ReturnFacts
    <3>10. ~Finish /\ ~Invalidate /\ ~UNCHANGED vars
      BY <3>2 DEF Finish, Invalidate, vars
    <3>11. QED
      BY <3>3, <3>4, <3>5, <3>6, <3>7, <3>8, <3>9, <3>10 DEF Next, LoopStep
  <2> DEFINE d == Len(stack)
             p == given[i]
             batch == Run.batch
  <2>4. /\ batch \in Seq(Performs) /\ batch # <<>> /\ Run = stack[d]
        /\ d \in 1..Len(stack)
        /\ \A x \in Performs : ~Fires(stack, d, x)
        /\ \A x : Taken(stack, d, x) <=> Contains(batch, x)
        /\ \A k, x : Fires(stack', k, x) <=> IF k = d THEN x = Head(batch) ELSE Fires(stack, k, x)
    BY <2>0, <2>3, FireNextFacts
  <2>5. p \in Performs /\ Earlier(given, p, q)
    BY <2>0 DEF Earlier
  <2>6. q = Head(batch) /\ q = batch[1] /\ 1 \in 1..Len(batch)
    BY <2>1, <2>4
  <2>7. Contains(batch, q) /\ Taken(stack, d, q)
    BY <2>4, <2>6 DEF Contains
  <2>8. ~Contains(performers, p)
    <3>1. status[q] = "given" /\ ~Contains(performers, q)
      BY <2>0, <2>2, <2>7 DEF Placed
    <3>2. QED
      BY <2>0, <2>5, <3>1 DEF Ordered
  <2>9. ~Listed(contexts, p)
    BY <2>0, <2>4, <2>5, <2>7 DEF Ordered
  <2>10. ~Contains(batch, p)
    <3> SUFFICES ASSUME NEW n \in 1..Len(batch), batch[n] = p PROVE FALSE
      BY DEF Contains
    <3>1. AsGiven(given, batch)
      BY <2>0, <2>4 DEF Ordered
    <3>2. n < 1
      BY <2>5, <2>6, <3>1 DEF AsGiven
    <3>3. QED
      BY <2>4, <3>2
  <2>11. PICK k : Taken(stack, k, p) \/ Fires(stack, k, p)
    BY <2>0, <2>5, <2>8, <2>9 DEF Placed
  <2>12. k # d
    BY <2>4, <2>5, <2>10, <2>11
  <2>13. k \in 1..Len(stack) - 1
    BY <2>4, <2>11, <2>12 DEF Taken, Fires
  <2>14. stack[k].firing = p \/ Contains(stack[k].batch, p)
    BY <2>11 DEF Taken, Fires
  <2>15. QED
    BY <2>13, <2>14
<1>3. QED
  BY InitOrdered, <1>1, <1>2, PTL DEF Spec, OrderKept
=============================================================================
