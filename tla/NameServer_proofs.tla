------------------------- MODULE NameServer_proofs -------------------------
(***************************************************************************)
(* Proofs about NameServer, for any hosts, clients and names and any       *)
(* number of calls and restarts.  First the array of names and the tables  *)
(* of descriptors, which are lists; then what the steps of a daemon and of *)
(* a client change, in a few kinds; then one invariant part after another. *)
(***************************************************************************)
EXTENDS NameServer, Lists_proofs

-----------------------------------------------------------------------------
(* The array of names. *)

\* The order that makes the binary search work: it allows no name twice.
Ordered(s) == \A i, j \in 1..Len(s) : i < j => s[i].name < s[j].name

\* A list of entries with names that can be compared.
LEMMA OrderedMeans ==
    ASSUME NEW S, NEW s \in Seq(S), \A e \in S : e.name \in Int, Ordered(s)
    PROVE  Sorted(s) /\ NoNameTwice(s)
<1>1. Len(s) \in Nat /\ \A i \in 1..Len(s) : s[i].name \in Int
  BY ElementOfSeq
<1>2. Sorted(s)
  BY <1>1 DEF Ordered, Sorted
<1>3. NoNameTwice(s)
  <2>1. SUFFICES ASSUME NEW i \in 1..Len(s), NEW j \in 1..Len(s), s[i].name = s[j].name
                 PROVE  i = j
    BY DEF NoNameTwice
  <2>2. CASE i < j
    BY <1>1, <2>1, <2>2 DEF Ordered
  <2>3. CASE j < i
    BY <1>1, <2>1, <2>3 DEF Ordered
  <2>4. QED
    BY <1>1, <2>2, <2>3
<1>4. QED
  BY <1>2, <1>3

\* The place for a new entry: what is before it is not greater, what is behind is.
LEMMA AddPlaceFacts ==
    ASSUME NEW S, NEW s \in Seq(S), \A e \in S : e.name \in Int, Ordered(s), NEW n \in Int
    PROVE  /\ AddPlace(s, n) \in 1..Len(s) + 1
           /\ \A j \in 1..Len(s) : j < AddPlace(s, n) => s[j].name <= n
           /\ \A j \in 1..Len(s) : j >= AddPlace(s, n) => s[j].name > n
<1> DEFINE P(i) == /\ i <= Len(s) => s[i].name > n
                   /\ \A j \in 1..i - 1 : s[j].name <= n
           T == {i \in 1..Len(s) + 1 : i <= Len(s) => s[i].name > n}
<1>0. Len(s) \in Nat /\ \A i \in 1..Len(s) : s[i].name \in Int
  BY ElementOfSeq
<1>1. Len(s) + 1 \in T /\ T \in SUBSET Nat
  BY <1>0
<1>2. PICK i \in T : \A m \in T : i <= m
  BY <1>1, LeastNumber
<1>3. i \in 1..Len(s) + 1 /\ P(i)
  BY <1>0, <1>2
<1>4. AddPlace(s, n) \in 1..Len(s) + 1 /\ P(AddPlace(s, n))
  BY <1>3 DEF AddPlace
<1>5. ASSUME NEW j \in 1..Len(s), j >= AddPlace(s, n)
      PROVE  s[j].name > n
  BY <1>0, <1>4, <1>5 DEF Ordered
<1>6. QED
  BY <1>0, <1>4, <1>5

\* map_add() of a name that is not there.
LEMMA MapAddFacts ==
    ASSUME NEW S, NEW s \in Seq(S), \A e \in S : e.name \in Int, Ordered(s),
           NEW e \in S, \A i \in 1..Len(s) : s[i].name # e.name
    PROVE  /\ MapAdd(s, e) \in Seq(S)
           /\ Ordered(MapAdd(s, e))
           /\ \A i \in 1..Len(s) : \E j \in 1..Len(MapAdd(s, e)) : MapAdd(s, e)[j] = s[i]
           /\ \E j \in 1..Len(MapAdd(s, e)) : MapAdd(s, e)[j] = e
<1> DEFINE p == AddPlace(s, e.name)
           r == MapAdd(s, e)
<1>0. Len(s) \in Nat /\ \A i \in 1..Len(s) : s[i] \in S /\ s[i].name \in Int
  BY ElementOfSeq
<1>1. /\ p \in 1..Len(s) + 1
      /\ \A j \in 1..Len(s) : j < p => s[j].name < e.name
      /\ \A j \in 1..Len(s) : j >= p => s[j].name > e.name
  <2>1. e.name \in Int
    OBVIOUS
  <2>2. /\ p \in 1..Len(s) + 1
        /\ \A j \in 1..Len(s) : j < p => s[j].name <= e.name
        /\ \A j \in 1..Len(s) : j >= p => s[j].name > e.name
    BY <2>1, AddPlaceFacts
  <2> HIDE DEF p
  <2>3. QED
    BY <1>0, <2>1, <2>2
<1> HIDE DEF p
<1>2. r = [j \in 1..Len(s) + 1 |-> IF j < p THEN s[j] ELSE IF j = p THEN e ELSE s[j - 1]]
  BY DEF MapAdd, p
<1>3. \A j \in 1..Len(s) + 1 : r[j] \in S
  BY <1>0, <1>1, <1>2
<1>4. r \in Seq(S) /\ Len(r) = Len(s) + 1
  BY <1>0, <1>2, <1>3
<1>5. /\ \A j \in 1..Len(s) : j < p => r[j] = s[j]
      /\ r[p] = e
      /\ \A j \in 1..Len(s) : j >= p => r[j + 1] = s[j]
  BY <1>0, <1>1, <1>2
<1> HIDE DEF r
<1>6. ASSUME NEW i \in 1..Len(r), NEW j \in 1..Len(r), i < j
      PROVE  r[i].name < r[j].name
  <2>1. CASE j < p
    <3>1. i \in 1..Len(s) /\ j \in 1..Len(s) /\ i < p /\ r[i] = s[i] /\ r[j] = s[j]
      BY <1>0, <1>1, <1>4, <1>5, <1>6, <2>1
    <3>2. QED
      BY <1>6, <3>1 DEF Ordered
  <2>2. CASE j = p
    BY <1>0, <1>1, <1>4, <1>5, <1>6, <2>2
  <2>3. CASE j > p
    <3>1. j - 1 \in 1..Len(s) /\ j - 1 >= p /\ r[j] = s[j - 1]
      BY <1>0, <1>1, <1>4, <1>5, <2>3
    <3>2. CASE i < p
      <4>1. i \in 1..Len(s) /\ i < j - 1 /\ r[i] = s[i]
        BY <1>0, <1>1, <1>4, <1>5, <1>6, <2>3, <3>1, <3>2
      <4>2. QED
        BY <3>1, <4>1 DEF Ordered
    <3>3. CASE i = p
      BY <1>0, <1>1, <1>4, <1>5, <1>6, <3>1, <3>3
    <3>4. CASE i > p
      <4>1. i - 1 \in 1..Len(s) /\ r[i] = s[i - 1] /\ i - 1 < j - 1
        <5>1. i \in Nat /\ i - 1 \in 1..Len(s) /\ i - 1 >= p /\ (i - 1) + 1 = i
          BY <1>0, <1>1, <1>4, <1>6, <3>1, <3>4
        <5>2. r[i] = s[i - 1]
          BY <1>5, <5>1
        <5>3. QED
          BY <1>0, <1>4, <1>6, <5>1, <5>2
      <4>2. QED
        BY <3>1, <4>1 DEF Ordered
    <3>5. QED
      BY <1>0, <1>1, <1>4, <3>2, <3>3, <3>4
  <2>4. QED
    BY <1>0, <1>1, <1>4, <2>1, <2>2, <2>3
<1>7. QED
  BY <1>0, <1>1, <1>4, <1>5, <1>6 DEF Ordered, r

\* map_del(): every other entry stays.
LEMMA MapDelFacts ==
    ASSUME NEW S, NEW s \in Seq(S), \A e \in S : e.name \in Int, Ordered(s),
           NEW i \in 1..Len(s)
    PROVE  /\ MapDel(s, i) \in Seq(S)
           /\ Ordered(MapDel(s, i))
           /\ \A j \in 1..Len(s) :
                 j # i => \E l \in 1..Len(MapDel(s, i)) : MapDel(s, i)[l] = s[j]
<1> DEFINE r == MapDel(s, i)
<1>0. Len(s) \in Nat /\ \A j \in 1..Len(s) : s[j] \in S
  BY ElementOfSeq
<1>1. r = [j \in 1..Len(s) - 1 |-> IF j < i THEN s[j] ELSE s[j + 1]]
  BY DEF MapDel
<1>2. Len(s) - 1 \in Nat /\ \A j \in 1..Len(s) - 1 : r[j] \in S
  BY <1>0, <1>1
<1>3. r \in Seq(S) /\ Len(r) = Len(s) - 1
  BY <1>1, <1>2
<1>4. \A j \in 1..Len(s) - 1 : r[j] = IF j < i THEN s[j] ELSE s[j + 1]
  BY <1>1
<1> HIDE DEF r
<1>5. Ordered(r)
  <2>1. SUFFICES ASSUME NEW j \in 1..Len(r), NEW l \in 1..Len(r), j < l
                 PROVE  r[j].name < r[l].name
    BY DEF Ordered
  <2>2. /\ j \in 1..Len(s) - 1 /\ l \in 1..Len(s) - 1
        /\ j \in 1..Len(s) /\ l \in 1..Len(s) /\ j + 1 \in 1..Len(s) /\ l + 1 \in 1..Len(s)
    BY <1>0, <1>3
  <2>3. PICK a \in {j, j + 1}, b \in {l, l + 1} : r[j] = s[a] /\ r[l] = s[b] /\ a < b
    BY <1>0, <1>4, <2>1, <2>2
  <2>4. QED
    BY <2>2, <2>3 DEF Ordered
<1>6. ASSUME NEW j \in 1..Len(s), j # i
      PROVE  \E l \in 1..Len(r) : r[l] = s[j]
  <2>1. CASE j < i
    <3>1. j \in 1..Len(s) - 1
      BY <1>0, <2>1
    <3>2. QED
      BY <1>3, <1>4, <2>1, <3>1
  <2>2. CASE j > i
    <3>1. j - 1 \in 1..Len(s) - 1 /\ ~(j - 1 < i) /\ (j - 1) + 1 = j
      BY <1>0, <2>2
    <3>2. QED
      BY <1>3, <1>4, <3>1
  <2>3. QED
    BY <1>0, <1>6, <2>1, <2>2
<1>7. QED
  BY <1>3, <1>5, <1>6 DEF r

\* The calls of map_by_port() and map_del() keep the order.
LEMMA MapWithoutPortFacts ==
    ASSUME NEW S, NEW s \in Seq(S), Ordered(s), NEW port, NEW type
    PROVE  /\ MapWithoutPort(s, port, type) \in Seq(S)
           /\ Ordered(MapWithoutPort(s, port, type))
<1> DEFINE places == {i \in 1..Len(s) : ~(s[i].port = port /\ s[i].type = type)}
           r == Only(s, places)
<1>1. r \in Seq(S) /\ Selects(r, s, places, Len(s))
  BY OnlySelects
<1>2. PICK f \in [1..Len(r) -> places \cap (1..Len(s))] :
          /\ \A i \in 1..Len(r) : r[i] = s[f[i]]
          /\ \A i, j \in 1..Len(r) : i < j => f[i] < f[j]
  BY <1>1 DEF Selects
<1>3. Ordered(r)
  BY <1>2 DEF Ordered
<1>4. QED
  BY <1>1, <1>3 DEF MapWithoutPort

\* An entry is changed, but not its name.
LEMMA MapChangeFacts ==
    ASSUME NEW S, NEW s \in Seq(S), Ordered(s), NEW i \in 1..Len(s), NEW e \in S,
           s[i].name = e.name
    PROVE  /\ [s EXCEPT ![i] = e] \in Seq(S)
           /\ Ordered([s EXCEPT ![i] = e])
           /\ Len([s EXCEPT ![i] = e]) = Len(s)
           /\ [s EXCEPT ![i] = e][i] = e
           /\ \A j \in 1..Len(s) : j # i => [s EXCEPT ![i] = e][j] = s[j]
<1> DEFINE r == [s EXCEPT ![i] = e]
<1>1. r \in Seq(S) /\ Len(r) = Len(s)
  OBVIOUS
<1>2. r[i] = e /\ \A j \in 1..Len(s) : j # i => r[j] = s[j]
  OBVIOUS
<1>3. \A j \in 1..Len(s) : r[j].name = s[j].name
  BY <1>2
<1> HIDE DEF r
<1>4. Ordered(r)
  BY <1>1, <1>3 DEF Ordered
<1>5. QED
  BY <1>1, <1>2, <1>4 DEF r

\* map_by_name() finds the entry with a name if there is one, and no other.
LEMMA MapByNameFinds ==
    ASSUME NEW S, NEW s \in Seq(S), \A e \in S : e.name \in Int, Ordered(s), NEW n \in Int
    PROVE  /\ MapByName(s, n) \in 0..Len(s)
           /\ MapByName(s, n) # 0 => s[MapByName(s, n)].name = n
           /\ MapByName(s, n) = 0 => \A j \in 1..Len(s) : s[j].name # n
<1> DEFINE N == Len(s)
           lefts == {i \in 0..N - 1 : s[i + 1].name > n}
           rights == {i \in 0..N - 1 : s[i + 1].name < n}
           k == SearchIndex(s, n)
<1>0. N \in Nat /\ \A i \in 1..N : s[i].name \in Int
  BY ElementOfSeq
<1>1. \A i, j \in 0..(N - 1) : i <= j => s[i + 1].name <= s[j + 1].name
  BY <1>0 DEF Ordered
<1>2. \A i, j \in 0..(N - 1) :
         i <= j => /\ i \in lefts => j \in lefts
                   /\ j \in rights => i \in rights
  <2>1. SUFFICES ASSUME NEW i \in 0..(N - 1), NEW j \in 0..(N - 1), i <= j
                 PROVE  /\ i \in lefts => j \in lefts
                        /\ j \in rights => i \in rights
    OBVIOUS
  <2>2. s[i + 1].name \in Int /\ s[j + 1].name \in Int /\ s[i + 1].name <= s[j + 1].name
    BY <1>0, <1>1, <2>1
  <2>3. QED
    BY <2>1, <2>2
<1>3. /\ k \in 0..N
      /\ \/ k < N /\ k \notin lefts \cup rights
         \/ /\ \A j \in 0..(k - 1) : j \in rights
            /\ \A j \in k..(N - 1) : j \in lefts
  <2>1. k = BinarySearch(N, lefts, rights)
    BY DEF SearchIndex
  <2> HIDE DEF lefts, rights, N, k
  <2>2. QED
    BY <1>0, <1>2, <2>1, BinarySearchFinds
<1> HIDE DEF k
<1>4. CASE k < N /\ k \notin lefts \cup rights
  BY <1>0, <1>3, <1>4 DEF MapByName, k
<1>5. CASE /\ \A j \in 0..(k - 1) : j \in rights
           /\ \A j \in k..(N - 1) : j \in lefts
  <2>1. \A j \in 1..N : j - 1 \in 0..N - 1 /\ (j - 1) + 1 = j
    BY <1>0
  <2>2. \A j \in 1..N : j - 1 \in lefts \/ j - 1 \in rights
    <3>1. TAKE j \in 1..N
    <3>2. CASE j - 1 < k
      <4>1. j - 1 \in 0..(k - 1)
        BY <1>0, <1>3, <2>1, <3>2
      <4>2. QED
        BY <4>1, <1>5
    <3>3. CASE j - 1 >= k
      <4>1. j - 1 \in k..(N - 1)
        BY <1>0, <1>3, <2>1, <3>3
      <4>2. QED
        BY <4>1, <1>5
    <3>4. QED
      BY <1>0, <1>3, <3>2, <3>3
  <2>3. \A j \in 1..N : s[j].name # n
    BY <1>0, <2>1, <2>2
  <2>4. MapByName(s, n) = 0
    BY <1>0, <1>3, <2>3 DEF MapByName, k
  <2>5. QED
    BY <1>0, <2>3, <2>4
<1>6. QED
  BY <1>3, <1>4, <1>5

-----------------------------------------------------------------------------
(* The tables of a daemon, searched by descriptor. *)

\* A descriptor has one entry at most.
OneEach(t) == \A i, j \in 1..Len(t) : t[i].s = t[j].s => i = j

LEMMA PlaceFacts ==
    ASSUME NEW t, NEW d, Has(t, d)
    PROVE  PlaceOf(t, d) \in 1..Len(t) /\ t[PlaceOf(t, d)].s = d
BY DEF Has, PlaceOf

LEMMA InfoFacts ==
    ASSUME NEW S, NEW t \in Seq(S), NEW d, Has(t, d)
    PROVE  Info(t, d) \in S /\ Info(t, d).s = d
BY PlaceFacts, ElementOfSeq DEF Info

\* The entry of a descriptor is the one that there is.
LEMMA InfoIs ==
    ASSUME NEW t, OneEach(t), NEW i \in 1..Len(t)
    PROVE  Has(t, t[i].s) /\ Info(t, t[i].s) = t[i]
<1>1. Has(t, t[i].s)
  BY DEF Has
<1>2. PlaceOf(t, t[i].s) = i
  BY <1>1, PlaceFacts DEF OneEach
<1>3. QED
  BY <1>1, <1>2 DEF Info

\* An entry is put into the table, in the place of the one that is there.
LEMMA PutFacts ==
    ASSUME NEW S, NEW t \in Seq(S), OneEach(t), NEW e \in S
    PROVE  /\ Put(t, e) \in Seq(S)
           /\ OneEach(Put(t, e))
           /\ \A d : Has(Put(t, e), d) <=> Has(t, d) \/ d = e.s
           /\ Info(Put(t, e), e.s) = e
           /\ \A d : Has(t, d) /\ d # e.s => Info(Put(t, e), d) = Info(t, d)
<1> DEFINE r == Put(t, e)
           p == IF Has(t, e.s) THEN PlaceOf(t, e.s) ELSE Len(t) + 1
<1>0. Len(t) \in Nat
  OBVIOUS
<1>1. /\ r \in Seq(S)
      /\ p \in 1..Len(r)
      /\ 1..Len(r) = (1..Len(t)) \cup {p}
      /\ r[p] = e
      /\ \A i \in 1..Len(t) : i # p => r[i] = t[i]
      /\ p \in 1..Len(t) => t[p].s = e.s
  <2>1. CASE Has(t, e.s)
    <3>1. p \in 1..Len(t) /\ t[p].s = e.s /\ r = [t EXCEPT ![p] = e]
      BY <2>1, PlaceFacts DEF Put
    <3> HIDE DEF r, p
    <3>2. QED
      BY <3>1
  <2>2. CASE ~Has(t, e.s)
    <3>1. p = Len(t) + 1 /\ r = Append(t, e)
      BY <2>2 DEF Put
    <3> HIDE DEF r, p
    <3>2. QED
      BY <1>0, <3>1
  <2>3. QED
    BY <2>1, <2>2
<1>2. \A i \in 1..Len(t) : t[i].s = e.s => i = p
  BY PlaceFacts DEF OneEach, Has
<1> HIDE DEF r, p
<1>3. OneEach(r)
  BY <1>1, <1>2 DEF OneEach
<1>4. \A d : Has(r, d) <=> Has(t, d) \/ d = e.s
  BY <1>1, <1>2 DEF Has
<1>5. Info(r, e.s) = e
  BY <1>1, <1>3, InfoIs
<1>6. ASSUME NEW d, Has(t, d), d # e.s
      PROVE  Info(r, d) = Info(t, d)
  <2>1. PICK i \in 1..Len(t) : t[i].s = d
    BY <1>6 DEF Has
  <2>2. i \in 1..Len(r) /\ r[i] = t[i]
    BY <1>1, <1>6, <2>1
  <2>3. QED
    BY <1>3, <2>1, <2>2, InfoIs
<1>7. QED
  BY <1>1, <1>3, <1>4, <1>5, <1>6 DEF r

\* The entry of a descriptor is taken out of the table.
LEMMA DelFacts ==
    ASSUME NEW S, NEW t \in Seq(S), OneEach(t), NEW d
    PROVE  /\ Del(t, d) \in Seq(S)
           /\ OneEach(Del(t, d))
           /\ \A x : Has(Del(t, d), x) <=> Has(t, x) /\ x # d
           /\ \A x : Has(t, x) /\ x # d => Info(Del(t, d), x) = Info(t, x)
<1>1. CASE ~Has(t, d)
  BY <1>1 DEF Del
<1>2. CASE Has(t, d)
  <2> DEFINE p == PlaceOf(t, d)
             r == Del(t, d)
             from == [j \in 1..Len(t) - 1 |-> IF j < p THEN j ELSE j + 1]
  <2>0. Len(t) \in Nat /\ \A i \in 1..Len(t) : t[i] \in S
    BY ElementOfSeq
  <2>1. p \in 1..Len(t) /\ t[p].s = d
    BY <1>2, PlaceFacts
  <2> HIDE DEF p
  <2>2. r = [j \in 1..Len(t) - 1 |-> IF j < p THEN t[j] ELSE t[j + 1]]
    BY <1>2 DEF Del, p
  <2> HIDE DEF r
  <2>3. /\ \A j \in 1..Len(t) - 1 : from[j] \in 1..Len(t) /\ from[j] # p
        /\ \A i, j \in 1..Len(t) - 1 : from[i] = from[j] => i = j
        /\ \A i \in 1..Len(t) : i # p => \E j \in 1..Len(t) - 1 : from[j] = i
    <3>1. ASSUME NEW i \in 1..Len(t), i # p
          PROVE  \E j \in 1..Len(t) - 1 : from[j] = i
      <4>1. CASE i < p
        <5>1. i \in 1..Len(t) - 1 /\ from[i] = i
          BY <2>0, <2>1, <4>1
        <5>2. QED
          BY <5>1
      <4>2. CASE i > p
        <5>1. i - 1 \in 1..Len(t) - 1 /\ ~(i - 1 < p) /\ (i - 1) + 1 = i
          BY <2>0, <2>1, <4>2
        <5>2. QED
          BY <5>1
      <4>3. QED
        BY <2>0, <2>1, <3>1, <4>1, <4>2
    <3>2. QED
      BY <2>0, <2>1, <3>1
  <2>4. \A j \in 1..Len(t) - 1 : r[j] = t[from[j]]
    BY <2>2
  <2>5. r \in Seq(S) /\ Len(r) = Len(t) - 1
    <3>1. Len(t) - 1 \in Nat /\ \A j \in 1..Len(t) - 1 : r[j] \in S
      BY <2>0, <2>1, <2>3, <2>4
    <3>2. QED
      BY <2>2, <3>1
  <2> HIDE DEF from
  <2>6. OneEach(r)
    <3>1. SUFFICES ASSUME NEW i \in 1..Len(t) - 1, NEW j \in 1..Len(t) - 1, r[i].s = r[j].s
                   PROVE  i = j
      BY <2>5 DEF OneEach
    <3>2. /\ from[i] \in 1..Len(t) /\ from[j] \in 1..Len(t)
          /\ t[from[i]].s = t[from[j]].s
      BY <2>3, <2>4, <3>1
    <3>3. from[i] = from[j]
      BY <3>2 DEF OneEach
    <3>4. QED
      BY <2>3, <3>3
  <2>7. ASSUME NEW x, Has(t, x), x # d
        PROVE  Has(r, x) /\ Info(r, x) = Info(t, x)
    <3>1. PICK i \in 1..Len(t) : t[i].s = x
      BY <2>7 DEF Has
    <3>2. PICK j \in 1..Len(r) : from[j] = i
      BY <2>1, <2>3, <2>5, <2>7, <3>1
    <3>3. r[j] = t[i]
      BY <2>4, <2>5, <3>2
    <3>4. QED
      BY <2>6, <3>1, <3>2, <3>3, InfoIs
  <2>8. ASSUME NEW x, Has(r, x)
        PROVE  Has(t, x) /\ x # d
    <3>1. PICK j \in 1..Len(r) : r[j].s = x
      BY <2>8 DEF Has
    <3>2. from[j] \in 1..Len(t) /\ from[j] # p /\ t[from[j]].s = x
      BY <2>3, <2>4, <2>5, <3>1
    <3>3. QED
      BY <2>1, <3>2 DEF Has, OneEach
  <2>9. QED
    BY <2>5, <2>6, <2>7, <2>8 DEF r
<1>3. QED
  BY <1>1, <1>2

-----------------------------------------------------------------------------
(* The invariant. *)

\* An entry of _rInfo, and one of _wInfo
InType == [s : Descs, addr : Hosts, pos : Nat]
OutType == [s : Descs, pos : {0}, buf : Replies]

Tabled ==
    /\ rInfo \in [Hosts -> Seq(InType)]
    /\ wInfo \in [Hosts -> Seq(OutType)]
    /\ readFds \in [Hosts -> SUBSET Descs]
    /\ writeFds \in [Hosts -> SUBSET Descs]
    /\ fd \in [Hosts -> [Descs -> Conns \cup {None}]]

Typed ==
    /\ map \in [Hosts -> Seq(EntryType)]
    /\ Tabled
    /\ conn \in [Conns -> ConnType \cup {None}]
    /\ bound \subseteq Sockets /\ short \subseteq ShortHosts
    /\ pc \in [Clients -> {"idle", "write", "read"}]
    /\ call \in [Clients -> CallType \cup {None}]
    /\ rest \in [Clients -> Seq(Hosts)]
    /\ faults \in Nat

\* A connection that both ends have closed is gone, and goes to the host of its request.
ConnsKept ==
    \A k \in Conns : conn[k] # None => /\ conn[k].open \/ conn[k].served
                                       /\ conn[k].req.host = conn[k].host

OrderedMaps == \A h \in Hosts : Ordered(map[h])

\* Client c has connection k, and has not closed it.
OpenOf(c, k) == conn[k] # None /\ conn[k].client = c /\ conn[k].open

\* A client has one connection while it waits for an answer, for what it asks now.
ClientsConnected ==
    \A c \in Clients :
        /\ pc[c] = "idle" => call[c] = None
        /\ pc[c] # "idle" => call[c] # None /\ \E k \in Conns : OpenOf(c, k)
        /\ \A k \in Conns : OpenOf(c, k) => pc[c] # "idle" /\ conn[k].req = call[c]
        /\ \A k, l \in Conns : OpenOf(c, k) /\ OpenOf(c, l) => k = l

\* What is true now has been seen, and the servers are always the same.
Seen ==
    \A c \in Clients : pc[c] # "idle" =>
        /\ TrueReplies(c) \subseteq saw[c]
        /\ call[c].op = "SERVERS" => saw[c] = {Known[call[c].host]}

\* The replies that were written, and those that wait to be written, have been seen
\* by the clients that still want them.
RepliesSeen ==
    /\ \A k \in Conns : conn[k] # None /\ conn[k].open /\ conn[k].reply # None =>
           conn[k].reply \in saw[conn[k].client]
    /\ \A h \in Hosts : \A d \in writeFds[h] : conn[fd[h][d]].open =>
           Info(wInfo[h], d).buf \in saw[conn[fd[h][d]].client]

IInv ==
    Typed /\ ConnsKept /\ OrderedMaps /\ TablesAgree /\ ClientsConnected /\ Seen /\ RepliesSeen

-----------------------------------------------------------------------------
(* What a daemon finds in its tables. *)

LEMMA MapFacts ==
    ASSUME Typed, OrderedMaps, NEW h \in Hosts
    PROVE  /\ map[h] \in Seq(EntryType) /\ Ordered(map[h]) /\ Len(map[h]) \in Nat
           /\ \A e \in EntryType : e.name \in Int
           /\ \A i \in 1..Len(map[h]) : map[h][i] \in EntryType
<1>1. map[h] \in Seq(EntryType) /\ Ordered(map[h])
  BY DEF Typed, OrderedMaps
<1>2. \A e \in EntryType : e.name \in Int
  BY ServerAssumption DEF EntryType
<1>3. QED
  BY <1>1, <1>2, ElementOfSeq

\* Where map_by_name() finds a name, or that it does not.
LEMMA FoundFacts ==
    ASSUME Typed, OrderedMaps, NEW h \in Hosts, NEW n \in Names
    PROVE  /\ MapByName(map[h], n) \in 0..Len(map[h])
           /\ MapByName(map[h], n) # 0 =>
                 /\ MapByName(map[h], n) \in 1..Len(map[h])
                 /\ \A j \in 1..Len(map[h]) :
                       map[h][j].name = n <=> j = MapByName(map[h], n)
           /\ MapByName(map[h], n) = 0 => \A j \in 1..Len(map[h]) : map[h][j].name # n
<1> DEFINE i == MapByName(map[h], n)
<1>1. /\ i \in 0..Len(map[h])
      /\ i # 0 => map[h][i].name = n
      /\ i = 0 => \A j \in 1..Len(map[h]) : map[h][j].name # n
  BY MapFacts, MapByNameFinds, ServerAssumption
<1>2. NoNameTwice(map[h])
  BY MapFacts, OrderedMeans
<1>3. Len(map[h]) \in Nat
  BY MapFacts
<1> HIDE DEF i
<1>4. i # 0 => i \in 1..Len(map[h])
  BY <1>1, <1>3
<1>5. QED
  BY <1>1, <1>2, <1>4 DEF NoNameTwice, i

\* The channel of a descriptor, and the request that came over it.
LEMMA ChannelFacts ==
    ASSUME Typed, ConnsKept, TablesAgree, NEW h \in Hosts, NEW d \in readFds[h] \cup writeFds[h]
    PROVE  /\ d \in Descs
           /\ fd[h][d] \in Conns
           /\ conn[fd[h][d]] # None /\ conn[fd[h][d]] \in ConnType
           /\ conn[fd[h][d]].host = h /\ conn[fd[h][d]].served
           /\ Request(h, d) \in CallType /\ Request(h, d).host = h
           /\ Has(rInfo[h], d)
           /\ d \in writeFds[h] => Has(wInfo[h], d)
<1>1. d \in Descs
  BY DEF Typed, Tabled
<1>2. fd[h][d] # None /\ fd[h][d] \in Conns
  BY <1>1 DEF Typed, Tabled, TablesAgree
<1>3. /\ conn[fd[h][d]] # None /\ conn[fd[h][d]].host = h /\ conn[fd[h][d]].served
      /\ Has(rInfo[h], d)
      /\ d \in writeFds[h] => Has(wInfo[h], d)
  BY <1>1, <1>2 DEF TablesAgree
<1>4. conn[fd[h][d]] \in ConnType
  BY <1>2, <1>3 DEF Typed
<1>5. Request(h, d) \in CallType /\ Request(h, d).host = h
  BY <1>2, <1>3, <1>4 DEF Request, ConnType, ConnsKept
<1>6. QED
  BY <1>1, <1>2, <1>3, <1>4, <1>5

\* The client of a channel, if it waits, asks what came over it.
LEMMA AskerFacts ==
    ASSUME IInv, NEW h \in Hosts, NEW d \in readFds[h],
           NEW c \in Clients, OpenOf(c, fd[h][d])
    PROVE  /\ pc[c] # "idle"
           /\ call[c] = Request(h, d)
           /\ TrueReplies(c) \subseteq saw[c]
<1>1. fd[h][d] \in Conns
  BY ChannelFacts DEF IInv
<1>2. pc[c] # "idle" /\ call[c] = conn[fd[h][d]].req
  BY <1>1 DEF IInv, ClientsConnected
<1>3. QED
  BY <1>2 DEF IInv, Seen, Request

-----------------------------------------------------------------------------
(* The replies of a daemon are true before it has replied or afterwards. *)

AnswerIsTrue(h, d, value) ==
    \A c \in Clients : OpenOf(c, fd[h][d]) => value \in TrueReplies(c) \cup TrueReplies(c)'

Answers(h, d) ==
    /\ d \in readFds[h]
    /\ \E value \in Replies : Reply(h, d, value) /\ AnswerIsTrue(h, d, value)

NewMap == map' \in [Hosts -> Seq(EntryType)] /\ OrderedMaps'

\* The map of one daemon changes.
LEMMA MapChanges ==
    ASSUME Typed, OrderedMaps, NEW h \in Hosts, NEW s \in Seq(EntryType), Ordered(s),
           map' = [map EXCEPT ![h] = s]
    PROVE  NewMap
BY DEF NewMap, Typed, OrderedMaps, Ordered

LEMMA MapStays ==
    ASSUME Typed, OrderedMaps, UNCHANGED map
    PROVE  NewMap
BY DEF NewMap, Typed, OrderedMaps, Ordered

LEMMA RepliesTyped ==
    /\ 0 \in Replies
    /\ \A e \in EntryType \cup CallType : e.port \in Replies
BY DEF Replies, EntryType, CallType

\* A reply to GDO_REGISTER is 0, or the port that the name has afterwards.
LEMMA RegisterTrue ==
    ASSUME NEW c, call[c].op = "REGISTER"
    PROVE  /\ 0 \in TrueReplies(c)
           /\ \A i \in 1..Len(map[call[c].host]) :
                 /\ map[call[c].host][i].name = call[c].name
                 /\ map[call[c].host][i].port = call[c].port
                 => call[c].port \in TrueReplies(c)
BY DEF TrueReplies

LEMMA RegisterAnswers ==
    ASSUME IInv, NEW h \in Hosts, NEW d \in Descs, Register(h, d)
    PROVE  Answers(h, d) /\ NewMap
<1> DEFINE r == Request(h, d)
           i == MapByName(map[h], r.name)
           e == Entry(r)
<1>0. /\ Typed /\ OrderedMaps
      /\ d \in readFds[h] /\ r \in CallType /\ r.host = h /\ r.op = "REGISTER"
      /\ \A c \in Clients : OpenOf(c, fd[h][d]) => call[c] = r
      /\ UNCHANGED call
  BY ChannelFacts, AskerFacts DEF IInv, Register, Requested, Reply, clientVars
<1>1. /\ r.name \in Names /\ r.port \in Replies
      /\ e \in EntryType /\ e.name = r.name /\ e.port = r.port
  BY <1>0, RepliesTyped DEF CallType, Entry, EntryType
<1>2. /\ i \in 0..Len(map[h])
      /\ i # 0 => i \in 1..Len(map[h]) /\ map[h][i].name = r.name
      /\ i = 0 => \A j \in 1..Len(map[h]) : map[h][j].name # r.name
  BY <1>0, <1>1, FoundFacts
<1>3. /\ map[h] \in Seq(EntryType) /\ Ordered(map[h]) /\ \A x \in EntryType : x.name \in Int
  BY <1>0, MapFacts
<1>4. CASE Reply(h, d, 0) /\ UNCHANGED map
  BY <1>0, <1>4, MapStays, RepliesTyped, RegisterTrue DEF Answers, AnswerIsTrue
<1>5. CASE i # 0 /\ map[h][i].port = r.port /\ Reply(h, d, r.port) /\ UNCHANGED map
  BY <1>0, <1>1, <1>2, <1>5, MapStays, RegisterTrue DEF Answers, AnswerIsTrue
<1>6. ASSUME NEW s \in Seq(EntryType), Ordered(s), map' = [map EXCEPT ![h] = s],
             \E j \in 1..Len(s) : s[j] = e, Reply(h, d, r.port)
      PROVE  Answers(h, d) /\ NewMap
  <2>1. NewMap
    BY <1>0, <1>6, MapChanges
  <2>2. map'[h] = s
    BY <1>0, <1>6 DEF Typed
  <2>3. ASSUME NEW c \in Clients, OpenOf(c, fd[h][d])
        PROVE  r.port \in TrueReplies(c)'
    BY <1>0, <1>1, <1>6, <2>2, <2>3 DEF TrueReplies
  <2>4. QED
    BY <1>0, <1>1, <1>6, <2>1, <2>3 DEF Answers, AnswerIsTrue
<1>7. CASE i # 0 /\ map' = [map EXCEPT ![h][i] = e] /\ Reply(h, d, r.port)
  <2> DEFINE s == [map[h] EXCEPT ![i] = e]
  <2>1. s \in Seq(EntryType) /\ Ordered(s) /\ Len(s) = Len(map[h]) /\ s[i] = e
    BY <1>1, <1>2, <1>3, <1>7, MapChangeFacts
  <2>2. map' = [map EXCEPT ![h] = s]
    BY <1>7
  <2> HIDE DEF s
  <2>3. QED
    BY <1>2, <1>6, <1>7, <2>1, <2>2
<1>8. CASE i = 0 /\ map' = [map EXCEPT ![h] = MapAdd(@, e)] /\ Reply(h, d, r.port)
  <2> DEFINE s == MapAdd(map[h], e)
  <2>1. s \in Seq(EntryType) /\ Ordered(s) /\ \E j \in 1..Len(s) : s[j] = e
    BY <1>1, <1>2, <1>3, <1>8, MapAddFacts
  <2>2. map' = [map EXCEPT ![h] = s]
    BY <1>8
  <2> HIDE DEF s
  <2>3. QED
    BY <1>6, <1>8, <2>1, <2>2
<1>9. QED
  BY <1>4, <1>5, <1>7, <1>8 DEF Register

\* What is replied to GDO_LOOKUP and to GDO_UNREG with a name: the port of the one
\* entry with that name and type, or 0.
LEMMA LookUpTrue ==
    ASSUME NEW c, call[c].op = "LOOKUP",
           NEW h, h = call[c].host
    PROVE  /\ (\A i \in 1..Len(map[h]) :
                  map[h][i].name = call[c].name /\ map[h][i].type = call[c].type
                  => IsGone(h, map[h][i].port, map[h][i].type.net))
              => 0 \in TrueReplies(c)
           /\ \A i \in 1..Len(map[h]) :
                  /\ map[h][i].name = call[c].name /\ map[h][i].type = call[c].type
                  /\ ~IsGone(h, map[h][i].port, map[h][i].type.net)
                  => map[h][i].port \in TrueReplies(c)
BY DEF TrueReplies

LEMMA UnregisterTrue ==
    ASSUME NEW c, call[c].op = "UNREG",
           NEW h, h = call[c].host
    PROVE  /\ (\A i \in 1..Len(map[h]) :
                  ~(map[h][i].name = call[c].name /\ map[h][i].type = call[c].type))
              => 0 \in TrueReplies(c)
           /\ \A i \in 1..Len(map[h]) :
                  map[h][i].name = call[c].name /\ map[h][i].type = call[c].type
                  => map[h][i].port \in TrueReplies(c)
BY DEF TrueReplies

\* What a handler of a request starts from.
LEMMA RequestFacts ==
    ASSUME IInv, NEW h \in Hosts, NEW d \in Descs, d \in readFds[h], NEW r, r = Request(h, d)
    PROVE  /\ Typed /\ OrderedMaps
           /\ r \in CallType /\ r.host = h
           /\ \A c \in Clients : OpenOf(c, fd[h][d]) => call[c] = r
           /\ map[h] \in Seq(EntryType) /\ Ordered(map[h])
           /\ \A e \in EntryType : e.name \in Int
           /\ \A i \in 1..Len(map[h]) : map[h][i].port \in Replies
<1>1. Typed /\ OrderedMaps
  BY DEF IInv
<1>2. /\ r \in CallType /\ r.host = h
      /\ \A c \in Clients : OpenOf(c, fd[h][d]) => call[c] = r
  BY <1>1, ChannelFacts, AskerFacts DEF IInv
<1>3. QED
  BY <1>1, <1>2, MapFacts, RepliesTyped

LEMMA LookUpAnswers ==
    ASSUME IInv, NEW h \in Hosts, NEW d \in Descs, LookUp(h, d)
    PROVE  Answers(h, d) /\ NewMap
<1> DEFINE r == Request(h, d)
           i == MapByName(map[h], r.name)
           found == i # 0 /\ map[h][i].type = r.type
           gone == IsGone(h, map[h][i].port, r.type.net)
<1>0. d \in readFds[h] /\ r.op = "LOOKUP"
  BY DEF LookUp, Requested
<1>1. /\ Typed /\ OrderedMaps
      /\ r \in CallType /\ r.host = h
      /\ \A c \in Clients : OpenOf(c, fd[h][d]) => call[c] = r
      /\ map[h] \in Seq(EntryType) /\ Ordered(map[h])
      /\ \A e \in EntryType : e.name \in Int
      /\ \A j \in 1..Len(map[h]) : map[h][j].port \in Replies
  BY <1>0, RequestFacts
<1>2. /\ r.name \in Names
      /\ i # 0 => /\ i \in 1..Len(map[h])
                  /\ \A j \in 1..Len(map[h]) : map[h][j].name = r.name <=> j = i
      /\ i = 0 => \A j \in 1..Len(map[h]) : map[h][j].name # r.name
  BY <1>1, FoundFacts DEF CallType
<1>3. \/ ~found /\ Reply(h, d, 0) /\ UNCHANGED map
      \/ found /\ gone /\ map' = [map EXCEPT ![h] = MapDel(@, i)] /\ Reply(h, d, 0)
      \/ found /\ ~gone /\ Reply(h, d, map[h][i].port) /\ UNCHANGED map
  BY DEF LookUp
<1> HIDE DEF r, i
<1>4. CASE ~found /\ Reply(h, d, 0) /\ UNCHANGED map
  <2>1. \A j \in 1..Len(map[h]) : ~(map[h][j].name = r.name /\ map[h][j].type = r.type)
    BY <1>2, <1>4
  <2>2. \A c \in Clients : OpenOf(c, fd[h][d]) => 0 \in TrueReplies(c)
    BY <1>0, <1>1, <2>1, LookUpTrue DEF r
  <2>3. QED
    BY <1>0, <1>1, <1>4, <2>2, MapStays, RepliesTyped DEF Answers, AnswerIsTrue
<1>5. CASE found /\ gone /\ map' = [map EXCEPT ![h] = MapDel(@, i)] /\ Reply(h, d, 0)
  <2>1. \A c \in Clients : OpenOf(c, fd[h][d]) => 0 \in TrueReplies(c)
    BY <1>0, <1>1, <1>2, <1>5, LookUpTrue DEF r
  <2>2. MapDel(map[h], i) \in Seq(EntryType) /\ Ordered(MapDel(map[h], i))
    BY <1>1, <1>2, <1>5, MapDelFacts
  <2>3. NewMap
    BY <1>1, <1>5, <2>2, MapChanges
  <2>4. QED
    BY <1>0, <1>5, <2>1, <2>3, RepliesTyped DEF Answers, AnswerIsTrue
<1>6. CASE found /\ ~gone /\ Reply(h, d, map[h][i].port) /\ UNCHANGED map
  <2>1. \A c \in Clients : OpenOf(c, fd[h][d]) => map[h][i].port \in TrueReplies(c)
    BY <1>0, <1>1, <1>2, <1>6, LookUpTrue DEF r
  <2>2. QED
    BY <1>0, <1>1, <1>2, <1>6, <2>1, MapStays DEF Answers, AnswerIsTrue
<1>7. QED
  BY <1>3, <1>4, <1>5, <1>6

LEMMA UnregisterAnswers ==
    ASSUME IInv, NEW h \in Hosts, NEW d \in Descs, Unregister(h, d)
    PROVE  Answers(h, d) /\ NewMap
<1> DEFINE r == Request(h, d)
           i == MapByName(map[h], r.name)
           found == i # 0 /\ map[h][i].type = r.type
<1>0. d \in readFds[h] /\ r.op = "UNREG"
  BY DEF Unregister, Requested
<1>1. /\ Typed /\ OrderedMaps
      /\ r \in CallType /\ r.host = h
      /\ \A c \in Clients : OpenOf(c, fd[h][d]) => call[c] = r
      /\ map[h] \in Seq(EntryType) /\ Ordered(map[h])
      /\ \A e \in EntryType : e.name \in Int
      /\ \A j \in 1..Len(map[h]) : map[h][j].port \in Replies
  BY <1>0, RequestFacts
<1>2. /\ r.name \in Names
      /\ i # 0 => i \in 1..Len(map[h]) /\ map[h][i].name = r.name
      /\ i # 0 => \A j \in 1..Len(map[h]) : map[h][j].name = r.name <=> j = i
      /\ i = 0 => \A j \in 1..Len(map[h]) : map[h][j].name # r.name
  BY <1>1, FoundFacts DEF CallType
<1>3. \/ ~found /\ Reply(h, d, 0) /\ UNCHANGED map
      \/ found /\ map' = [map EXCEPT ![h] = MapDel(@, i)] /\ Reply(h, d, map[h][i].port)
  BY DEF Unregister
<1> HIDE DEF r, i
<1>4. CASE ~found /\ Reply(h, d, 0) /\ UNCHANGED map
  <2>1. \A j \in 1..Len(map[h]) : ~(map[h][j].name = r.name /\ map[h][j].type = r.type)
    BY <1>2, <1>4
  <2>2. \A c \in Clients : OpenOf(c, fd[h][d]) => 0 \in TrueReplies(c)
    BY <1>0, <1>1, <2>1, UnregisterTrue DEF r
  <2>3. QED
    BY <1>0, <1>1, <1>4, <2>2, MapStays, RepliesTyped DEF Answers, AnswerIsTrue
<1>5. CASE found /\ map' = [map EXCEPT ![h] = MapDel(@, i)] /\ Reply(h, d, map[h][i].port)
  <2>1. \A c \in Clients : OpenOf(c, fd[h][d]) => map[h][i].port \in TrueReplies(c)
    BY <1>0, <1>1, <1>2, <1>5, UnregisterTrue DEF r
  <2>2. MapDel(map[h], i) \in Seq(EntryType) /\ Ordered(MapDel(map[h], i))
    BY <1>1, <1>2, <1>5, MapDelFacts
  <2>3. NewMap
    BY <1>1, <1>5, <2>2, MapChanges
  <2>4. QED
    BY <1>0, <1>1, <1>2, <1>5, <2>1, <2>3 DEF Answers, AnswerIsTrue
<1>6. QED
  BY <1>3, <1>4, <1>5

LEMMA UnregisterPortAnswers ==
    ASSUME IInv, NEW h \in Hosts, NEW d \in Descs, UnregisterPort(h, d)
    PROVE  Answers(h, d) /\ NewMap
<1> DEFINE r == Request(h, d)
           found == \E i \in 1..Len(map[h]) : map[h][i].port = r.port /\ map[h][i].type = r.type
           s == MapWithoutPort(map[h], r.port, r.type)
<1>0. d \in readFds[h] /\ r.op = "UNREGPORT"
  BY DEF UnregisterPort, Requested
<1>1. /\ Typed /\ OrderedMaps
      /\ r \in CallType /\ r.host = h
      /\ \A c \in Clients : OpenOf(c, fd[h][d]) => call[c] = r
      /\ map[h] \in Seq(EntryType) /\ Ordered(map[h])
  BY <1>0, RequestFacts
<1>2. Reply(h, d, IF found THEN r.port ELSE 0) /\ map' = [map EXCEPT ![h] = s]
  BY DEF UnregisterPort
<1>3. NewMap
  BY <1>1, <1>2, MapWithoutPortFacts, MapChanges
<1> HIDE DEF r, s
<1>4. \A c \in Clients : OpenOf(c, fd[h][d]) => (IF found THEN r.port ELSE 0) \in TrueReplies(c)
  BY <1>0, <1>1 DEF TrueReplies, r
<1>5. (IF found THEN r.port ELSE 0) \in Replies
  BY <1>1, RepliesTyped
<1>6. QED
  BY <1>0, <1>2, <1>3, <1>4, <1>5 DEF Answers, AnswerIsTrue

LEMMA ListAnswers ==
    ASSUME IInv, NEW h \in Hosts, NEW d \in Descs, ListNames(h, d) \/ ListServers(h, d)
    PROVE  Answers(h, d) /\ NewMap
<1> DEFINE r == Request(h, d)
           names == [i \in 1..Len(map[h]) |-> map[h][i].name]
<1>0. d \in readFds[h]
  BY DEF ListNames, ListServers, Requested
<1>1. /\ Typed /\ OrderedMaps
      /\ r \in CallType /\ r.host = h
      /\ \A c \in Clients : OpenOf(c, fd[h][d]) => call[c] = r
      /\ map[h] \in Seq(EntryType)
  BY <1>0, RequestFacts
<1>2. NewMap
  BY <1>1, MapStays DEF ListNames, ListServers
<1>3. CASE ListNames(h, d)
  <2>1. r.op = "NAMES" /\ Reply(h, d, names)
    BY <1>3 DEF ListNames, Requested
  <2>2. Len(map[h]) \in Nat /\ \A i \in 1..Len(map[h]) : map[h][i].name \in Names
    BY <1>1, MapFacts DEF EntryType
  <2>3. names \in Seq(Names)
    BY <2>2
  <2> HIDE DEF r
  <2>4. \A c \in Clients : OpenOf(c, fd[h][d]) => names \in TrueReplies(c)
    BY <1>1, <2>1 DEF TrueReplies
  <2>5. QED
    BY <1>0, <1>2, <2>1, <2>3, <2>4 DEF Answers, AnswerIsTrue, Replies
<1>4. CASE ListServers(h, d)
  <2>1. r.op = "SERVERS" /\ Reply(h, d, Known[h])
    BY <1>4 DEF ListServers, Requested
  <2>2. Known[h] \in Seq(Hosts)
    BY ServerAssumption
  <2> HIDE DEF r
  <2>3. \A c \in Clients : OpenOf(c, fd[h][d]) => Known[h] \in TrueReplies(c)
    BY <1>1, <2>1 DEF TrueReplies
  <2>4. QED
    BY <1>0, <1>2, <2>1, <2>2, <2>3 DEF Answers, AnswerIsTrue, Replies
<1>5. QED
  BY <1>3, <1>4

-----------------------------------------------------------------------------
(* The tables of a daemon after each kind of step. *)

\* What TablesAgree says of one host.
TablesOf(h) ==
    /\ readFds[h] \cap writeFds[h] = {}
    /\ \A d \in Descs :
           /\ (fd[h][d] # None) <=> (d \in readFds[h] \cup writeFds[h])
           /\ (fd[h][d] # None) <=> Has(rInfo[h], d)
           /\ (d \in writeFds[h]) <=> Has(wInfo[h], d)
           /\ fd[h][d] # None => /\ conn[fd[h][d]] # None
                                 /\ conn[fd[h][d]].host = h
                                 /\ conn[fd[h][d]].served
           /\ \A e \in Descs : fd[h][d] # None /\ fd[h][e] = fd[h][d] => d = e
    /\ OneEach(rInfo[h]) /\ OneEach(wInfo[h])

LEMMA TablesByHost ==
    /\ TablesAgree <=> \A h \in Hosts : TablesOf(h)
    /\ TablesAgree' <=> \A h \in Hosts : TablesOf(h)'
BY DEF TablesAgree, TablesOf, OneEach

\* The connections that a daemon may still have stay as they are, as far as it knows.
ServedStay(S) ==
    \A k \in S : conn[k] # None /\ conn[k].served =>
        /\ conn'[k] # None /\ conn'[k].served
        /\ conn'[k].host = conn[k].host

\* A daemon that does nothing keeps its tables.
LEMMA TablesElsewhere ==
    ASSUME Tabled, NEW h \in Hosts, TablesOf(h),
           fd'[h] = fd[h], readFds'[h] = readFds[h], writeFds'[h] = writeFds[h],
           rInfo'[h] = rInfo[h], wInfo'[h] = wInfo[h],
           ServedStay({k \in Conns : conn[k] # None /\ conn[k].host = h})
    PROVE  TablesOf(h)'
<1>1. ASSUME NEW d \in Descs, fd[h][d] # None
      PROVE  /\ conn'[fd[h][d]] # None
             /\ conn'[fd[h][d]].host = h
             /\ conn'[fd[h][d]].served
  <2>1. fd[h][d] \in Conns
    BY <1>1 DEF Tabled
  <2>2. conn[fd[h][d]] # None /\ conn[fd[h][d]].host = h /\ conn[fd[h][d]].served
    BY <1>1 DEF TablesOf
  <2>3. QED
    BY <2>1, <2>2 DEF ServedStay
<1>2. QED
  BY <1>1 DEF TablesOf

LEMMA TablesKept ==
    ASSUME Tabled, TablesAgree, UNCHANGED daemonVars, ServedStay(Conns)
    PROVE  Tabled' /\ TablesAgree'
<1>1. Tabled'
  BY DEF Tabled, daemonVars
<1>2. ASSUME NEW h \in Hosts
      PROVE  TablesOf(h)'
  BY <1>2, TablesByHost, TablesElsewhere DEF daemonVars, ServedStay
<1>3. QED
  BY <1>1, <1>2, TablesByHost

\* A channel that waits to be written is the one it was, with the same reply.
WaitsAsBefore(h, d) ==
    /\ d \in writeFds[h]
    /\ fd'[h][d] = fd[h][d]
    /\ Info(wInfo'[h], d).buf = Info(wInfo[h], d).buf

LEMMA ReplyTables ==
    ASSUME Tabled, TablesAgree, NEW h \in Hosts, NEW d \in readFds[h], NEW value \in Replies,
           Reply(h, d, value)
    PROVE  /\ Tabled' /\ TablesAgree'
           /\ Info(wInfo'[h], d).buf = value
           /\ \A x \in Hosts : \A e \in writeFds'[x] : (x = h /\ e = d) \/ WaitsAsBefore(x, e)
<1> DEFINE ri == [Info(rInfo[h], d) EXCEPT !.pos = ReqSize]
           wi == [s |-> d, pos |-> 0, buf |-> value]
<1>1. /\ d \in Descs
      /\ rInfo[h] \in Seq(InType) /\ wInfo[h] \in Seq(OutType)
      /\ TablesOf(h)
  BY TablesByHost DEF Tabled
<1>2. fd[h][d] # None /\ Has(rInfo[h], d) /\ OneEach(rInfo[h]) /\ OneEach(wInfo[h])
  BY <1>1 DEF TablesOf
<1>3. ri \in InType /\ ri.s = d
  <2>1. Info(rInfo[h], d) \in InType /\ Info(rInfo[h], d).s = d
    BY <1>1, <1>2, InfoFacts
  <2>2. QED
    BY <2>1, ServerAssumption DEF InType
<1>4. wi \in OutType /\ wi.s = d /\ wi.buf = value
  BY <1>1 DEF OutType
<1>5. /\ readFds' = [readFds EXCEPT ![h] = @ \ {d}]
      /\ writeFds' = [writeFds EXCEPT ![h] = @ \cup {d}]
      /\ rInfo' = [rInfo EXCEPT ![h] = Put(@, ri)]
      /\ wInfo' = [wInfo EXCEPT ![h] = Put(@, wi)]
      /\ fd' = fd /\ conn' = conn
  BY DEF Reply
<1> HIDE DEF ri, wi
<1>6. /\ rInfo'[h] = Put(rInfo[h], ri) /\ wInfo'[h] = Put(wInfo[h], wi)
      /\ readFds'[h] = readFds[h] \ {d} /\ writeFds'[h] = writeFds[h] \cup {d}
  BY <1>5 DEF Tabled
<1>7. /\ rInfo'[h] \in Seq(InType) /\ OneEach(rInfo'[h])
      /\ \A e : Has(rInfo'[h], e) <=> Has(rInfo[h], e) \/ e = d
  BY <1>1, <1>2, <1>3, <1>6, PutFacts
<1>8. /\ wInfo'[h] \in Seq(OutType) /\ OneEach(wInfo'[h])
      /\ \A e : Has(wInfo'[h], e) <=> Has(wInfo[h], e) \/ e = d
      /\ Info(wInfo'[h], d) = wi
      /\ \A e : Has(wInfo[h], e) /\ e # d => Info(wInfo'[h], e) = Info(wInfo[h], e)
  BY <1>1, <1>2, <1>4, <1>6, PutFacts
<1>9. Tabled'
  BY <1>1, <1>5, <1>7, <1>8, <1>6 DEF Tabled
<1>10. TablesOf(h)'
  BY <1>1, <1>2, <1>5, <1>6, <1>7, <1>8 DEF TablesOf
<1>11. ASSUME NEW x \in Hosts, x # h
       PROVE  TablesOf(x)'
  BY <1>5, <1>11, TablesByHost, TablesElsewhere DEF Tabled, ServedStay
<1>12. ASSUME NEW x \in Hosts, NEW e \in writeFds'[x], ~(x = h /\ e = d)
       PROVE  WaitsAsBefore(x, e)
  <2>1. CASE x # h
    BY <1>5, <1>12, <2>1 DEF WaitsAsBefore, Tabled
  <2>2. CASE x = h
    <3>1. e \in writeFds[h] /\ e # d /\ e \in Descs
      BY <1>6, <1>12, <2>2 DEF Tabled
    <3>2. Has(wInfo[h], e)
      BY <1>1, <3>1 DEF TablesOf
    <3>3. QED
      BY <1>5, <1>8, <2>2, <3>1, <3>2 DEF WaitsAsBefore
  <2>3. QED
    BY <2>1, <2>2
<1>13. QED
  BY <1>4, <1>8, <1>9, <1>10, <1>11, <1>12, TablesByHost

\* clear_chan(), and what becomes of the connection: k is closed by the daemon, or by both.
LEMMA ClearTables ==
    ASSUME Tabled, TablesAgree, NEW h \in Hosts, NEW d \in readFds[h] \cup writeFds[h],
           ClearChan(h, d), \A k \in Conns : k # fd[h][d] => conn'[k] = conn[k]
    PROVE  /\ Tabled' /\ TablesAgree'
           /\ \A x \in Hosts : \A e \in writeFds'[x] : WaitsAsBefore(x, e)
           /\ \A x \in Hosts : \A e \in writeFds'[x] : fd'[x][e] # fd[h][d]
<1>1. /\ d \in Descs
      /\ rInfo[h] \in Seq(InType) /\ wInfo[h] \in Seq(OutType)
      /\ TablesOf(h)
  BY TablesByHost DEF Tabled
<1>2. fd[h][d] # None /\ OneEach(rInfo[h]) /\ OneEach(wInfo[h])
  BY <1>1 DEF TablesOf
<1>3. /\ readFds'[h] = readFds[h] \ {d} /\ writeFds'[h] = writeFds[h] \ {d}
      /\ rInfo'[h] = Del(rInfo[h], d) /\ wInfo'[h] = Del(wInfo[h], d)
      /\ fd'[h] = [fd[h] EXCEPT ![d] = None]
      /\ \A x \in Hosts : x # h =>
            /\ readFds'[x] = readFds[x] /\ writeFds'[x] = writeFds[x]
            /\ rInfo'[x] = rInfo[x] /\ wInfo'[x] = wInfo[x] /\ fd'[x] = fd[x]
  BY DEF ClearChan, Tabled
<1>4. /\ rInfo'[h] \in Seq(InType) /\ OneEach(rInfo'[h])
      /\ \A e : Has(rInfo'[h], e) <=> Has(rInfo[h], e) /\ e # d
  BY <1>1, <1>2, <1>3, DelFacts
<1>5. /\ wInfo'[h] \in Seq(OutType) /\ OneEach(wInfo'[h])
      /\ \A e : Has(wInfo'[h], e) <=> Has(wInfo[h], e) /\ e # d
      /\ \A e : Has(wInfo[h], e) /\ e # d => Info(wInfo'[h], e) = Info(wInfo[h], e)
  BY <1>1, <1>2, <1>3, DelFacts
<1>6. fd'[h][d] = None /\ \A e \in Descs : e # d => fd'[h][e] = fd[h][e]
  BY <1>1, <1>3 DEF Tabled
<1>7. Tabled'
  BY <1>1, <1>3, <1>4, <1>5 DEF Tabled, ClearChan
<1>8. ASSUME NEW e \in Descs, e # d, fd[h][e] # None
      PROVE  /\ fd[h][e] # fd[h][d]
             /\ conn'[fd[h][e]] # None /\ conn'[fd[h][e]].host = h /\ conn'[fd[h][e]].served
  <2>1. fd[h][e] \in Conns /\ fd[h][e] # fd[h][d]
    BY <1>1, <1>2, <1>8 DEF TablesOf, Tabled
  <2>2. QED
    BY <1>1, <1>8, <2>1 DEF TablesOf
<1>9. TablesOf(h)'
  <2>1. readFds'[h] \cap writeFds'[h] = {} /\ OneEach(rInfo'[h]) /\ OneEach(wInfo'[h])
    BY <1>1, <1>3, <1>4, <1>5 DEF TablesOf
  <2>2. ASSUME NEW e \in Descs
        PROVE  /\ (fd'[h][e] # None) <=> (e \in readFds'[h] \cup writeFds'[h])
               /\ (fd'[h][e] # None) <=> Has(rInfo'[h], e)
               /\ (e \in writeFds'[h]) <=> Has(wInfo'[h], e)
    BY <1>1, <1>3, <1>4, <1>5, <1>6 DEF TablesOf
  <2>3. ASSUME NEW e \in Descs, fd'[h][e] # None
        PROVE  /\ conn'[fd'[h][e]] # None /\ conn'[fd'[h][e]].host = h
               /\ conn'[fd'[h][e]].served
               /\ \A x \in Descs : fd'[h][x] = fd'[h][e] => e = x
    BY <1>1, <1>6, <1>8, <2>3 DEF TablesOf
  <2>4. QED
    BY <2>1, <2>2, <2>3 DEF TablesOf
<1>10. ASSUME NEW x \in Hosts, x # h
       PROVE  TablesOf(x)' /\ \A e \in Descs : fd[x][e] # None => fd[x][e] # fd[h][d]
  <2>1. TablesOf(x) /\ conn[fd[h][d]].host = h
    BY <1>1, <1>2, TablesByHost DEF TablesOf
  <2>2. ServedStay({k \in Conns : conn[k] # None /\ conn[k].host = x})
    BY <1>10, <2>1 DEF ServedStay
  <2>3. TablesOf(x)'
    BY <1>3, <1>10, <2>1, <2>2, TablesElsewhere
  <2>4. QED
    BY <1>10, <2>1, <2>3 DEF TablesOf
<1>11. ASSUME NEW x \in Hosts, NEW e \in writeFds'[x]
       PROVE  WaitsAsBefore(x, e) /\ fd'[x][e] # fd[h][d]
  <2>0. e \in Descs
    BY <1>7 DEF Tabled
  <2>1. CASE x # h
    <3>1. WaitsAsBefore(x, e)
      BY <1>3, <2>1 DEF WaitsAsBefore
    <3>2. fd[x][e] # None
      BY <2>0, <3>1, TablesByHost DEF TablesOf, WaitsAsBefore
    <3>3. QED
      BY <1>10, <2>0, <2>1, <3>1, <3>2 DEF WaitsAsBefore
  <2>2. CASE x = h
    <3>1. e \in writeFds[h] /\ e # d
      BY <1>3, <2>2
    <3>2. Has(wInfo[h], e) /\ fd[h][e] # None
      BY <1>1, <2>0, <3>1 DEF TablesOf
    <3>3. QED
      BY <1>5, <1>6, <1>8, <2>0, <2>2, <3>1, <3>2 DEF WaitsAsBefore
  <2>3. QED
    BY <2>1, <2>2
<1>12. QED
  BY <1>7, <1>9, <1>10, <1>11, TablesByHost

\* A connection that waited in the backlog gets a descriptor that was free.
LEMMA AcceptTables ==
    ASSUME Typed, TablesAgree, NEW h \in Hosts, Accept(h)
    PROVE  /\ Tabled' /\ TablesAgree'
           /\ \A x \in Hosts : \A e \in writeFds'[x] : WaitsAsBefore(x, e)
<1>0. Tabled /\ TablesOf(h) /\ rInfo[h] \in Seq(InType) /\ OneEach(rInfo[h])
  BY TablesByHost DEF Typed, Tabled, TablesOf
<1>1. PICK k \in Backlog(h), d \in Descs :
          /\ fd[h][d] = None
          /\ fd' = [fd EXCEPT ![h][d] = k]
          /\ readFds' = [readFds EXCEPT ![h] = @ \cup {d}]
          /\ rInfo' = [rInfo EXCEPT ![h] =
                 Put(@, [s |-> d, addr |-> HostOf[conn[k].client], pos |-> 0])]
  BY DEF Accept
<1> DEFINE ri == [s |-> d, addr |-> HostOf[conn[k].client], pos |-> 0]
<1>2. /\ k \in Conns /\ k # None /\ conn[k] # None /\ conn[k].host = h /\ conn[k].served
      /\ \A e \in Descs : fd[h][e] # k
  BY ServerAssumption DEF Backlog
<1>3. UNCHANGED <<wInfo, writeFds, conn>>
  BY DEF Accept
<1>4. ri \in InType /\ ri.s = d
  BY <1>2, ServerAssumption DEF Typed, ConnType, InType
<1> HIDE DEF ri
<1>5. /\ fd'[h] = [fd[h] EXCEPT ![d] = k] /\ readFds'[h] = readFds[h] \cup {d}
      /\ rInfo'[h] = Put(rInfo[h], ri)
  BY <1>0, <1>1 DEF Tabled, ri
<1>6. \A x \in Hosts : x # h => /\ readFds'[x] = readFds[x] /\ rInfo'[x] = rInfo[x]
                               /\ fd'[x] = fd[x]
  BY <1>0, <1>1 DEF Tabled
<1>7. /\ rInfo'[h] \in Seq(InType) /\ OneEach(rInfo'[h])
      /\ \A e : Has(rInfo'[h], e) <=> Has(rInfo[h], e) \/ e = d
  BY <1>0, <1>4, <1>5, PutFacts
<1>8. fd'[h][d] = k /\ \A e \in Descs : e # d => fd'[h][e] = fd[h][e]
  BY <1>0, <1>1, <1>5 DEF Tabled
<1>9. Tabled'
  BY <1>0, <1>1, <1>2, <1>3, <1>5, <1>7 DEF Tabled
<1>10. TablesOf(h)'
  <2>1. /\ readFds'[h] \cap writeFds'[h] = {} /\ OneEach(rInfo'[h]) /\ OneEach(wInfo'[h])
    BY <1>0, <1>1, <1>3, <1>5, <1>7 DEF TablesOf
  <2>2. ASSUME NEW e \in Descs
        PROVE  /\ (fd'[h][e] # None) <=> (e \in readFds'[h] \cup writeFds'[h])
               /\ (fd'[h][e] # None) <=> Has(rInfo'[h], e)
               /\ (e \in writeFds'[h]) <=> Has(wInfo'[h], e)
    BY <1>0, <1>1, <1>2, <1>3, <1>5, <1>7, <1>8 DEF TablesOf
  <2>3. ASSUME NEW e \in Descs, fd'[h][e] # None
        PROVE  /\ conn'[fd'[h][e]] # None /\ conn'[fd'[h][e]].host = h
               /\ conn'[fd'[h][e]].served
               /\ \A x \in Descs : fd'[h][x] = fd'[h][e] => e = x
    BY <1>0, <1>2, <1>3, <1>8, <2>3 DEF TablesOf
  <2>4. QED
    BY <2>1, <2>2, <2>3 DEF TablesOf
<1>11. ASSUME NEW x \in Hosts, x # h
       PROVE  TablesOf(x)'
  BY <1>0, <1>3, <1>6, <1>11, TablesByHost, TablesElsewhere DEF ServedStay
<1>12. ASSUME NEW x \in Hosts, NEW e \in writeFds'[x]
       PROVE  WaitsAsBefore(x, e)
  <2>1. e \in writeFds[x] /\ e \in Descs /\ wInfo' = wInfo
    BY <1>0, <1>3 DEF Tabled
  <2>2. x = h => e # d
    BY <1>0, <1>1, <2>1 DEF TablesOf
  <2>3. fd'[x][e] = fd[x][e]
    BY <1>6, <1>8, <2>1, <2>2
  <2>4. QED
    BY <2>1, <2>3 DEF WaitsAsBefore
<1>13. QED
  BY <1>9, <1>10, <1>11, <1>12, TablesByHost

\* More of a request has come.
LEMMA PartTables ==
    ASSUME Tabled, TablesAgree, NEW h \in Hosts, NEW d \in Descs, ReadPart(h, d)
    PROVE  /\ Tabled' /\ TablesAgree'
           /\ \A x \in Hosts : \A e \in writeFds'[x] : WaitsAsBefore(x, e)
<1>1. /\ rInfo[h] \in Seq(InType) /\ TablesOf(h) /\ OneEach(rInfo[h])
      /\ d \in readFds[h]
  BY TablesByHost DEF Tabled, TablesOf, ReadPart
<1>2. Has(rInfo[h], d)
  BY <1>1 DEF TablesOf
<1>3. Info(rInfo[h], d) \in InType /\ Info(rInfo[h], d).s = d
  BY <1>1, <1>2, InfoFacts
<1>4. PICK n \in Info(rInfo[h], d).pos + 1..ReqSize - 1 :
          rInfo' = [rInfo EXCEPT ![h] = Put(@, [Info(rInfo[h], d) EXCEPT !.pos = n])]
  BY DEF ReadPart
<1> DEFINE ri == [Info(rInfo[h], d) EXCEPT !.pos = n]
<1>5. ri \in InType /\ ri.s = d
  <2>1. Info(rInfo[h], d).pos \in Nat
    BY <1>3 DEF InType
  <2>2. n \in Nat
    BY <2>1, ServerAssumption
  <2>3. QED
    BY <1>3, <2>2 DEF InType
<1> HIDE DEF ri
<1>6. UNCHANGED <<wInfo, readFds, writeFds, fd, conn>>
  BY DEF ReadPart
<1>7. rInfo'[h] = Put(rInfo[h], ri) /\ \A x \in Hosts : x # h => rInfo'[x] = rInfo[x]
  BY <1>4 DEF Tabled, ri
<1>8. /\ rInfo'[h] \in Seq(InType) /\ OneEach(rInfo'[h])
      /\ \A e : Has(rInfo'[h], e) <=> Has(rInfo[h], e)
  BY <1>1, <1>2, <1>5, <1>7, PutFacts
<1>9. Tabled'
  BY <1>4, <1>6, <1>7, <1>8 DEF Tabled
<1>10. TablesOf(h)'
  BY <1>1, <1>6, <1>8 DEF TablesOf
<1>11. ASSUME NEW x \in Hosts, x # h
       PROVE  TablesOf(x)'
  BY <1>6, <1>7, <1>11, TablesByHost, TablesElsewhere DEF ServedStay
<1>12. \A x \in Hosts : \A e \in writeFds'[x] : WaitsAsBefore(x, e)
  BY <1>6 DEF WaitsAsBefore
<1>13. QED
  BY <1>9, <1>10, <1>11, <1>12, TablesByHost

\* A daemon starts with empty tables.
LEMMA RestartTables ==
    ASSUME Tabled, TablesAgree, NEW h \in Hosts, Restart(h)
    PROVE  /\ Tabled' /\ TablesAgree'
           /\ \A x \in Hosts : \A e \in writeFds'[x] : WaitsAsBefore(x, e)
<1>1. /\ readFds' = [readFds EXCEPT ![h] = {}] /\ writeFds' = [writeFds EXCEPT ![h] = {}]
      /\ rInfo' = [rInfo EXCEPT ![h] = <<>>] /\ wInfo' = [wInfo EXCEPT ![h] = <<>>]
      /\ fd' = [fd EXCEPT ![h] = [d \in Descs |-> None]]
      /\ \A k \in Conns : conn[k] # None /\ conn[k].host # h => conn'[k] = conn[k]
  BY DEF Restart
<1>2. Tabled'
  BY <1>1 DEF Tabled
<1>3. TablesOf(h)'
  BY <1>1 DEF Tabled, TablesOf, Has, OneEach
<1>4. ASSUME NEW x \in Hosts, x # h
      PROVE  TablesOf(x)'
  BY <1>1, <1>4, TablesByHost, TablesElsewhere DEF Tabled, ServedStay
<1>5. \A x \in Hosts : \A e \in writeFds'[x] : WaitsAsBefore(x, e)
  BY <1>1 DEF Tabled, WaitsAsBefore
<1>6. QED
  BY <1>2, <1>3, <1>4, <1>5, TablesByHost

-----------------------------------------------------------------------------
(* The steps in which no client moves. *)

\* What a daemon may do to a connection: close it, and reply before it does.
DaemonLeaves(k) ==
    \/ conn'[k] = conn[k]
    \/ conn[k] # None /\ ~conn[k].open /\ conn'[k] = None
    \/ /\ conn[k] # None /\ conn[k].open
       /\ \E v \in {conn[k].reply} \cup (Replies \cap saw[conn[k].client]) :
              conn'[k] = [conn[k] EXCEPT !.served = FALSE, !.reply = v]

\* A reply that begins to wait in _wInfo
NewReply(h, d) ==
    /\ d \in readFds[h]
    /\ fd' = fd /\ conn' = conn
    /\ \A c \in Clients : OpenOf(c, fd[h][d]) =>
           Info(wInfo'[h], d).buf \in TrueReplies(c) \cup TrueReplies(c)'

NoClientMoves ==
    /\ NewMap
    /\ Tabled' /\ TablesAgree'
    /\ conn' = [k \in Conns |-> conn'[k]]
    /\ \A k \in Conns : DaemonLeaves(k)
    /\ \A h \in Hosts : \A d \in writeFds'[h] : WaitsAsBefore(h, d) \/ NewReply(h, d)
    /\ bound' \subseteq Sockets /\ short' \subseteq ShortHosts
    /\ faults' \in Nat
    /\ UNCHANGED clientVars

\* The end of a connection without a reply
LEMMA DaemonCloses ==
    ASSUME Typed, NEW k \in Conns, conn[k] # None, conn'[k] = Closed(k, "daemon")
    PROVE  DaemonLeaves(k)
<1>1. conn[k] \in ConnType
  BY DEF Typed
<1>2. CASE conn[k].open
  <2>1. conn'[k] = [conn[k] EXCEPT !.served = FALSE]
    BY <1>2 DEF Closed
  <2>2. conn'[k] = [conn[k] EXCEPT !.served = FALSE, !.reply = conn[k].reply]
    BY <1>1, <2>1 DEF ConnType
  <2>3. QED
    BY <1>2, <2>2 DEF DaemonLeaves
<1>3. CASE ~conn[k].open
  BY <1>3 DEF Closed, DaemonLeaves
<1>4. QED
  BY <1>2, <1>3

LEMMA AcceptMoves ==
    ASSUME IInv, NEW h \in Hosts, Accept(h)
    PROVE  NoClientMoves
<1>1. UNCHANGED <<map, conn, bound, short, clientVars, faults>>
  BY DEF Accept
<1>2. Typed /\ OrderedMaps /\ TablesAgree
  BY DEF IInv
<1>3. NewMap
  BY <1>1, <1>2, MapStays
<1>4. /\ Tabled' /\ TablesAgree'
      /\ \A x \in Hosts : \A e \in writeFds'[x] : WaitsAsBefore(x, e)
  BY <1>2, AcceptTables
<1>5. /\ conn' = [k \in Conns |-> conn'[k]] /\ \A k \in Conns : DaemonLeaves(k)
      /\ bound' \subseteq Sockets /\ short' \subseteq ShortHosts /\ faults' \in Nat
  BY <1>1, <1>2 DEF Typed, DaemonLeaves
<1>6. QED
  BY <1>1, <1>3, <1>4, <1>5 DEF NoClientMoves

LEMMA PartMoves ==
    ASSUME IInv, NEW h \in Hosts, NEW d \in Descs, ReadPart(h, d)
    PROVE  NoClientMoves
<1>1. UNCHANGED <<map, conn, bound, short, clientVars, faults>>
  BY DEF ReadPart
<1>2. Typed /\ Tabled /\ OrderedMaps /\ TablesAgree
  BY DEF IInv, Typed
<1>3. NewMap
  BY <1>1, <1>2, MapStays
<1>4. /\ Tabled' /\ TablesAgree'
      /\ \A x \in Hosts : \A e \in writeFds'[x] : WaitsAsBefore(x, e)
  BY <1>2, PartTables
<1>5. /\ conn' = [k \in Conns |-> conn'[k]] /\ \A k \in Conns : DaemonLeaves(k)
      /\ bound' \subseteq Sockets /\ short' \subseteq ShortHosts /\ faults' \in Nat
  BY <1>1, <1>2 DEF Typed, DaemonLeaves
<1>6. QED
  BY <1>1, <1>3, <1>4, <1>5 DEF NoClientMoves

\* A channel is cleared, after a reply was written to it or without one.
LEMMA ClearMoves ==
    ASSUME IInv, NEW h \in Hosts, NEW d \in Descs,
           ReadEnd(h, d) \/ Refuse(h, d) \/ Write(h, d)
    PROVE  NoClientMoves
<1> DEFINE k == fd[h][d]
<1>1. d \in readFds[h] \cup writeFds[h]
  BY DEF ReadEnd, Refuse, Requested, Write
<1>2. /\ Typed /\ Tabled /\ OrderedMaps /\ TablesAgree /\ ConnsKept /\ RepliesSeen
      /\ UNCHANGED <<map, bound, short, clientVars, faults>>
      /\ ClearChan(h, d)
  BY DEF IInv, Typed, ReadEnd, Refuse, Write
<1>3. k \in Conns /\ conn[k] # None /\ conn[k] \in ConnType
  BY <1>1, <1>2, ChannelFacts
<1>4. NewMap
  BY <1>2, MapStays
<1>5. /\ conn' = [x \in Conns |-> conn'[x]]
      /\ \A x \in Conns : x # k => conn'[x] = conn[x]
  BY <1>2 DEF ReadEnd, Refuse, Write, Typed
<1>6. /\ Tabled' /\ TablesAgree'
      /\ \A x \in Hosts : \A e \in writeFds'[x] : WaitsAsBefore(x, e)
  BY <1>1, <1>2, <1>5, ClearTables
<1>7. DaemonLeaves(k)
  <2>1. CASE ReadEnd(h, d) \/ Refuse(h, d)
    <3>1. conn'[k] = Closed(k, "daemon")
      BY <1>2, <1>3, <2>1 DEF ReadEnd, Refuse, Typed
    <3>2. QED
      BY <1>2, <1>3, <3>1, DaemonCloses
  <2>2. CASE Write(h, d)
    <3> DEFINE v == Info(wInfo[h], d).buf
    <3>1. d \in writeFds[h] /\ wInfo[h] \in Seq(OutType) /\ Has(wInfo[h], d)
      BY <1>2, <2>2, ChannelFacts DEF Write, Tabled
    <3>2. Info(wInfo[h], d) \in OutType
      BY <3>1, InfoFacts
    <3>3. v \in Replies
      BY <3>2 DEF OutType
    <3>4. conn[k].open => v \in saw[conn[k].client]
      BY <1>2, <3>1 DEF RepliesSeen
    <3>5. conn'[k] = IF conn[k].open THEN [conn[k] EXCEPT !.served = FALSE, !.reply = v] ELSE None
      BY <1>2, <1>3, <2>2 DEF Write, Typed
    <3> HIDE DEF v
    <3>6. QED
      BY <1>3, <3>3, <3>4, <3>5 DEF DaemonLeaves
  <2>3. QED
    BY <2>1, <2>2
<1>8. \A x \in Conns : DaemonLeaves(x)
  BY <1>5, <1>7 DEF DaemonLeaves
<1>9. bound' \subseteq Sockets /\ short' \subseteq ShortHosts /\ faults' \in Nat
  BY <1>2 DEF Typed
<1>10. QED
  BY <1>2, <1>4, <1>5, <1>6, <1>8, <1>9 DEF NoClientMoves

\* A reply is left to be written.
LEMMA AnswerMoves ==
    ASSUME IInv, NEW h \in Hosts, NEW d \in Descs, Answers(h, d), NewMap
    PROVE  NoClientMoves
<1>1. PICK value \in Replies : Reply(h, d, value) /\ AnswerIsTrue(h, d, value)
  BY DEF Answers
<1>2. Typed /\ Tabled /\ TablesAgree /\ d \in readFds[h]
  BY DEF IInv, Typed, Answers
<1>3. UNCHANGED <<fd, conn, bound, short, clientVars, faults>>
  BY <1>1 DEF Reply
<1>4. /\ Tabled' /\ TablesAgree'
      /\ Info(wInfo'[h], d).buf = value
      /\ \A x \in Hosts : \A e \in writeFds'[x] : (x = h /\ e = d) \/ WaitsAsBefore(x, e)
  BY <1>1, <1>2, ReplyTables
<1>5. NewReply(h, d)
  BY <1>1, <1>2, <1>3, <1>4 DEF NewReply, AnswerIsTrue
<1>6. /\ conn' = [k \in Conns |-> conn'[k]] /\ \A k \in Conns : DaemonLeaves(k)
      /\ bound' \subseteq Sockets /\ short' \subseteq ShortHosts /\ faults' \in Nat
  BY <1>2, <1>3 DEF Typed, DaemonLeaves
<1>7. QED
  BY <1>3, <1>4, <1>5, <1>6 DEF NoClientMoves

LEMMA RestartMoves ==
    ASSUME IInv, NEW h \in Hosts, Restart(h)
    PROVE  NoClientMoves
<1>1. Typed /\ Tabled /\ OrderedMaps /\ TablesAgree
  BY DEF IInv, Typed
<1>2. NewMap
  <2>1. <<>> \in Seq(EntryType) /\ Ordered(<<>>)
    BY DEF Ordered
  <2>2. map' = [map EXCEPT ![h] = <<>>]
    BY DEF Restart
  <2>3. QED
    BY <1>1, <2>1, <2>2, MapChanges
<1>3. /\ Tabled' /\ TablesAgree'
      /\ \A x \in Hosts : \A e \in writeFds'[x] : WaitsAsBefore(x, e)
  BY <1>1, RestartTables
<1>4. \A k \in Conns : conn'[k] = IF conn[k] # None /\ conn[k].host = h THEN Closed(k, "daemon")
                                  ELSE conn[k]
  BY DEF Restart
<1>5. \A k \in Conns : DaemonLeaves(k)
  <2>1. TAKE k \in Conns
  <2>2. CASE conn'[k] = conn[k]
    BY <2>2 DEF DaemonLeaves
  <2>3. CASE conn[k] # None /\ conn'[k] = Closed(k, "daemon")
    BY <1>1, <2>3, DaemonCloses
  <2>4. QED
    BY <1>4, <2>2, <2>3
<1>6. /\ conn' = [k \in Conns |-> conn'[k]]
      /\ bound' \subseteq Sockets /\ short' \subseteq ShortHosts /\ faults' \in Nat
      /\ UNCHANGED clientVars
  BY <1>1 DEF Restart, Typed
<1>7. QED
  BY <1>2, <1>3, <1>5, <1>6 DEF NoClientMoves

LEMMA SurroundingsMove ==
    ASSUME IInv, Listen \/ Scarcity
    PROVE  NoClientMoves
<1>1. Typed /\ Tabled /\ OrderedMaps /\ TablesAgree
  BY DEF IInv, Typed
<1>2. /\ UNCHANGED <<daemonVars, clientVars, conn>>
      /\ bound' \subseteq Sockets /\ short' \subseteq ShortHosts
      /\ faults' \in Nat
  BY <1>1 DEF Listen, Scarcity, Typed
<1>3. NewMap
  BY <1>1, <1>2, MapStays DEF daemonVars
<1>4. Tabled' /\ TablesAgree'
  BY <1>1, <1>2, TablesKept DEF ServedStay
<1>5. QED
  BY <1>1, <1>2, <1>3, <1>4 DEF NoClientMoves, DaemonLeaves, WaitsAsBefore, daemonVars, Typed

LEMMA DaemonMoves ==
    ASSUME IInv, NEW h \in Hosts, Accept(h) \/ Restart(h) \/ \E d \in Descs : Handle(h, d)
    PROVE  NoClientMoves
<1>1. CASE Accept(h)
  BY <1>1, AcceptMoves
<1>2. CASE Restart(h)
  BY <1>2, RestartMoves
<1>3. ASSUME NEW d \in Descs, Handle(h, d)
      PROVE  NoClientMoves
  <2>1. CASE ReadPart(h, d)
    BY <2>1, PartMoves
  <2>2. CASE ReadEnd(h, d) \/ Refuse(h, d) \/ Write(h, d)
    BY <2>2, ClearMoves
  <2>3. CASE Register(h, d)
    BY <2>3, RegisterAnswers, AnswerMoves
  <2>4. CASE LookUp(h, d)
    BY <2>4, LookUpAnswers, AnswerMoves
  <2>5. CASE Unregister(h, d)
    BY <2>5, UnregisterAnswers, AnswerMoves
  <2>6. CASE UnregisterPort(h, d)
    BY <2>6, UnregisterPortAnswers, AnswerMoves
  <2>7. CASE ListNames(h, d) \/ ListServers(h, d)
    BY <2>7, ListAnswers, AnswerMoves
  <2>8. QED
    BY <1>3, <2>1, <2>2, <2>3, <2>4, <2>5, <2>6, <2>7 DEF Handle
<1>4. QED
  BY <1>1, <1>2, <1>3

-----------------------------------------------------------------------------
(* The invariant after a step in which no client moves. *)

\* The history variable is a function of the step.
LEMMA SawFacts ==
    ASSUME SawStep, NEW c \in Clients, pc'[c] # "idle"
    PROVE  /\ TrueReplies(c)' \subseteq saw'[c]
           /\ call'[c] # call[c] => saw'[c] = TrueReplies(c)'
           /\ call'[c] = call[c] => saw'[c] = saw[c] \cup TrueReplies(c)'
<1>1. saw'[c] = CASE pc'[c] = "idle" -> {}
                  [] pc'[c] # "idle" /\ call'[c] # call[c] -> TrueReplies(c)'
                  [] OTHER -> saw[c] \cup TrueReplies(c)'
  BY DEF SawStep
<1>2. CASE call'[c] # call[c]
  BY <1>1, <1>2
<1>3. CASE call'[c] = call[c]
  BY <1>1, <1>3
<1>4. QED
  BY <1>2, <1>3

\* Seen follows from the step alone, once ClientsConnected is known afterwards.
LEMMA SeenAfter ==
    ASSUME ClientsConnected, ClientsConnected', Seen, SawStep
    PROVE  Seen'
<1>1. SUFFICES ASSUME NEW c \in Clients, pc'[c] # "idle"
               PROVE  /\ TrueReplies(c)' \subseteq saw'[c]
                      /\ call'[c].op = "SERVERS" => saw'[c] = {Known[call'[c].host]}
  BY DEF Seen
<1>2. ASSUME call'[c].op = "SERVERS"
      PROVE  saw'[c] = {Known[call'[c].host]}
  <2>1. TrueReplies(c)' = {Known[call'[c].host]}
    BY <1>2 DEF TrueReplies
  <2>2. CASE call'[c] # call[c]
    BY <1>1, <2>1, <2>2, SawFacts
  <2>3. CASE call'[c] = call[c]
    <3>1. pc[c] # "idle"
      BY <1>1, <2>3 DEF ClientsConnected
    <3>2. saw[c] = {Known[call[c].host]}
      BY <1>2, <2>3, <3>1 DEF Seen
    <3>3. QED
      BY <1>1, <2>1, <2>3, <3>2, SawFacts
  <2>4. QED
    BY <2>2, <2>3
<1>3. QED
  BY <1>1, <1>2, SawFacts

\* What a daemon does to a connection, as its client sees it.
LEMMA LeavesFacts ==
    ASSUME Typed, ConnsKept, NEW k \in Conns, DaemonLeaves(k)
    PROVE  /\ conn'[k] \in ConnType \cup {None}
           /\ conn'[k] # None =>
                 /\ conn[k] # None
                 /\ conn'[k].client = conn[k].client /\ conn'[k].host = conn[k].host
                 /\ conn'[k].req = conn[k].req /\ conn'[k].open = conn[k].open
                 /\ conn'[k].open \/ conn'[k].served
                 /\ conn'[k].open =>
                       \/ conn'[k].reply = conn[k].reply
                       \/ conn'[k].reply \in saw[conn[k].client]
           /\ conn[k] # None /\ conn[k].open => conn'[k] # None
<1>1. conn[k] \in ConnType \cup {None} /\ None \notin ConnType
  BY ServerAssumption DEF Typed
<1>2. CASE conn'[k] = conn[k]
  BY <1>1, <1>2 DEF ConnsKept
<1>3. CASE conn[k] # None /\ ~conn[k].open /\ conn'[k] = None
  BY <1>3
<1>4. CASE /\ conn[k] # None /\ conn[k].open
           /\ \E v \in {conn[k].reply} \cup (Replies \cap saw[conn[k].client]) :
                  conn'[k] = [conn[k] EXCEPT !.served = FALSE, !.reply = v]
  <2>1. PICK v \in {conn[k].reply} \cup (Replies \cap saw[conn[k].client]) :
            conn'[k] = [conn[k] EXCEPT !.served = FALSE, !.reply = v]
    BY <1>4
  <2>2. conn[k] \in ConnType
    BY <1>1, <1>4
  <2>3. conn'[k] \in ConnType
    BY <2>1, <2>2 DEF ConnType
  <2>4. /\ conn'[k].client = conn[k].client /\ conn'[k].host = conn[k].host
        /\ conn'[k].req = conn[k].req /\ conn'[k].open = conn[k].open
        /\ conn'[k].reply = v
    BY <2>1, <2>2 DEF ConnType
  <2>5. QED
    BY <1>1, <1>4, <2>1, <2>3, <2>4
<1>5. QED
  BY <1>2, <1>3, <1>4 DEF DaemonLeaves

LEMMA NoMoveConns ==
    ASSUME IInv, NoClientMoves
    PROVE  /\ conn' \in [Conns -> ConnType \cup {None}]
           /\ ConnsKept'
           /\ \A c, k : k \in Conns => (OpenOf(c, k)' <=> OpenOf(c, k))
           /\ ClientsConnected'
<1>1. \A k \in Conns :
          /\ conn'[k] \in ConnType \cup {None}
          /\ conn'[k] # None =>
                /\ conn[k] # None
                /\ conn'[k].client = conn[k].client /\ conn'[k].host = conn[k].host
                /\ conn'[k].req = conn[k].req /\ conn'[k].open = conn[k].open
                /\ conn'[k].open \/ conn'[k].served
          /\ conn[k] # None /\ conn[k].open => conn'[k] # None
  BY LeavesFacts DEF IInv, NoClientMoves
<1>2. conn' \in [Conns -> ConnType \cup {None}]
  BY <1>1 DEF NoClientMoves
<1>3. ConnsKept'
  BY <1>1 DEF IInv, ConnsKept
<1>4. \A c, k : k \in Conns => (OpenOf(c, k)' <=> OpenOf(c, k))
  BY <1>1 DEF OpenOf
<1>5. UNCHANGED <<pc, call>>
  BY DEF NoClientMoves, clientVars
<1>6. ClientsConnected'
  BY <1>1, <1>4, <1>5 DEF IInv, ClientsConnected, OpenOf
<1>7. QED
  BY <1>2, <1>3, <1>4, <1>6

LEMMA NoMoveKeeps ==
    ASSUME IInv, NoClientMoves, SawStep
    PROVE  IInv'
<1>1. /\ conn' \in [Conns -> ConnType \cup {None}]
      /\ ConnsKept' /\ ClientsConnected'
      /\ \A c, k : k \in Conns => (OpenOf(c, k)' <=> OpenOf(c, k))
  BY NoMoveConns
<1>2. /\ Typed /\ ConnsKept /\ TablesAgree /\ ClientsConnected /\ Seen /\ RepliesSeen
  BY DEF IInv
<1>3. UNCHANGED <<pc, call, rest>>
  BY DEF NoClientMoves, clientVars
<1>4. Typed' /\ OrderedMaps' /\ TablesAgree'
  BY <1>1, <1>2, <1>3 DEF NoClientMoves, NewMap, Typed
<1>5. Seen'
  BY <1>1, <1>2, SeenAfter
<1>6. ASSUME NEW c \in Clients, NEW k \in Conns, OpenOf(c, k)
      PROVE  saw'[c] = saw[c] \cup TrueReplies(c)' /\ TrueReplies(c) \subseteq saw[c]
  <2>1. pc[c] # "idle"
    BY <1>2, <1>6 DEF ClientsConnected
  <2>2. QED
    BY <1>2, <1>3, <2>1, SawFacts DEF Seen
<1>7. RepliesSeen'
  <2>1. ASSUME NEW k \in Conns, conn'[k] # None, conn'[k].open, conn'[k].reply # None
        PROVE  conn'[k].reply \in saw'[conn'[k].client]
    <3>1. /\ conn[k] # None /\ conn[k].open /\ conn'[k].client = conn[k].client
          /\ \/ conn'[k].reply = conn[k].reply
             \/ conn'[k].reply \in saw[conn[k].client]
      BY <1>2, <2>1, LeavesFacts DEF NoClientMoves
    <3>2. conn[k].client \in Clients /\ OpenOf(conn[k].client, k)
      BY <1>2, <3>1 DEF Typed, ConnType, OpenOf
    <3>3. conn'[k].reply \in saw[conn[k].client]
      BY <1>2, <2>1, <3>1 DEF RepliesSeen
    <3>4. QED
      BY <1>6, <3>1, <3>2, <3>3
  <2>2. ASSUME NEW h \in Hosts, NEW d \in writeFds'[h], conn'[fd'[h][d]].open
        PROVE  Info(wInfo'[h], d).buf \in saw'[conn'[fd'[h][d]].client]
    <3>1. d \in readFds[h] \cup writeFds[h] /\ fd'[h][d] = fd[h][d]
      BY <2>2 DEF NoClientMoves, WaitsAsBefore, NewReply
    <3> DEFINE k == fd[h][d]
    <3>2. d \in Descs /\ k \in Conns /\ conn[k] # None
      BY <1>2, <3>1, ChannelFacts
    <3>3. conn'[k] # None
      <4>1. d \in readFds'[h] \cup writeFds'[h]
        OBVIOUS
      <4>2. TablesOf(h)' /\ fd'[h][d] # None
        BY <1>4, <3>2, <4>1, TablesByHost DEF TablesOf
      <4>3. QED
        BY <3>1, <3>2, <4>2 DEF TablesOf
    <3>4. /\ conn[k].open /\ conn'[k].client = conn[k].client
      BY <1>2, <2>2, <3>1, <3>2, <3>3, LeavesFacts DEF NoClientMoves
    <3>5. PICK c \in Clients : conn[k].client = c /\ OpenOf(c, k)
      BY <1>2, <3>2, <3>4 DEF Typed, ConnType, OpenOf
    <3>6. Info(wInfo'[h], d).buf \in saw[c] \cup TrueReplies(c) \cup TrueReplies(c)'
      <4>1. CASE WaitsAsBefore(h, d)
        BY <1>2, <3>4, <3>5, <4>1 DEF WaitsAsBefore, RepliesSeen
      <4>2. CASE NewReply(h, d)
        BY <3>5, <4>2 DEF NewReply
      <4>3. QED
        BY <2>2, <4>1, <4>2 DEF NoClientMoves
    <3>7. QED
      BY <1>6, <3>1, <3>2, <3>4, <3>5, <3>6
  <2>3. QED
    BY <2>1, <2>2 DEF RepliesSeen
<1>8. QED
  BY <1>1, <1>4, <1>5, <1>7 DEF IInv

-----------------------------------------------------------------------------
(* The steps of a client. *)

\* A connection once client c has closed its end, if it is its own.
Left(c, k) == IF OpenOf(c, k) THEN Closed(k, "client") ELSE conn[k]

Fresh(c, r, n) ==
    [client |-> c, host |-> r.host, req |-> r, sent |-> n,
     reply |-> None, open |-> TRUE, served |-> TRUE]

Asks(c) ==
    \E r \in CallType, k \in Conns, n \in 0..ReqSize :
        /\ Left(c, k) = None
        /\ conn' = [[x \in Conns |-> Left(c, x)] EXCEPT ![k] = Fresh(c, r, n)]
        /\ call' = [call EXCEPT ![c] = r]
        /\ pc' = [pc EXCEPT ![c] = IF n = ReqSize THEN "read" ELSE "write"]

Ends(c) ==
    /\ conn' = [x \in Conns |-> Left(c, x)]
    /\ call' = [call EXCEPT ![c] = None]
    /\ pc' = [pc EXCEPT ![c] = "idle"]

ClientMoves(c) ==
    /\ Asks(c) \/ Ends(c)
    /\ rest' \in [Clients -> Seq(Hosts)]
    /\ UNCHANGED <<daemonVars, bound, short, faults>>

LEMMA ConnOfFacts ==
    ASSUME ClientsConnected, NEW c \in Clients, pc[c] # "idle"
    PROVE  /\ ConnOf(c) \in Conns /\ OpenOf(c, ConnOf(c))
           /\ \A k \in Conns : OpenOf(c, k) <=> k = ConnOf(c)
<1>1. /\ \E k \in Conns : OpenOf(c, k)
      /\ \A k, l \in Conns : OpenOf(c, k) /\ OpenOf(c, l) => k = l
  BY DEF ClientsConnected
<1>2. ConnOf(c) = CHOOSE k \in Conns : OpenOf(c, k)
  BY DEF ConnOf, OpenOf
<1>3. ConnOf(c) \in Conns /\ OpenOf(c, ConnOf(c))
  BY <1>1, <1>2
<1>4. QED
  BY <1>1, <1>3

LEMMA WithoutConnIs ==
    ASSUME Typed, ClientsConnected, NEW c \in Clients
    PROVE  WithoutConnOf(c) = [x \in Conns |-> Left(c, x)]
<1>1. CASE pc[c] = "idle"
  <2>1. \A x \in Conns : Left(c, x) = conn[x]
    BY <1>1 DEF ClientsConnected, Left
  <2>2. QED
    BY <1>1, <2>1 DEF WithoutConnOf, Typed
<1>2. CASE pc[c] # "idle"
  <2>1. ConnOf(c) \in Conns /\ \A x \in Conns : OpenOf(c, x) <=> x = ConnOf(c)
    BY <1>2, ConnOfFacts
  <2>2. WithoutConnOf(c) = [conn EXCEPT ![ConnOf(c)] = Closed(ConnOf(c), "client")]
    BY <1>2 DEF WithoutConnOf
  <2>3. QED
    BY <2>1, <2>2 DEF Left, Typed
<1>3. QED
  BY <1>1, <1>2

LEMMA TryHostAsks ==
    ASSUME IInv, NEW c \in Clients, NEW r \in CallType, TryHost(c, r, WithoutConnOf(c))
    PROVE  Asks(c)
<1>1. WithoutConnOf(c) = [x \in Conns |-> Left(c, x)]
  BY WithoutConnIs DEF IInv
<1>2. PICK k \in Conns, n \in Writes :
          /\ WithoutConnOf(c)[k] = None
          /\ conn' = [WithoutConnOf(c) EXCEPT ![k] = Fresh(c, r, n)]
          /\ call' = [call EXCEPT ![c] = r]
          /\ pc' = [pc EXCEPT ![c] = IF n = ReqSize THEN "read" ELSE "write"]
  BY DEF TryHost, Fresh
<1>3. Left(c, k) = None /\ n \in 0..ReqSize
  BY <1>1, <1>2, ServerAssumption
<1>4. QED
  BY <1>1, <1>2, <1>3 DEF Asks

LEMMA BeginMoves ==
    ASSUME IInv, NEW c \in Clients, BeginCall(c)
    PROVE  ClientMoves(c)
<1>1. pc[c] = "idle" /\ UNCHANGED <<daemonVars, bound, short, rest, faults>>
  BY DEF BeginCall
<1>2. conn = WithoutConnOf(c)
  BY <1>1 DEF WithoutConnOf
<1>3. PICK r \in Calls : TryHost(c, r, WithoutConnOf(c))
  BY <1>2 DEF BeginCall
<1>4. Asks(c)
  BY <1>3, TryHostAsks, ServerAssumption
<1>5. QED
  BY <1>1, <1>4 DEF ClientMoves, IInv, Typed

LEMMA GoOnMoves ==
    ASSUME IInv, NEW c \in Clients, pc[c] # "idle", NEW hosts \in Seq(Hosts), GoOn(c, hosts)
    PROVE  ClientMoves(c)
<1>1. rest \in [Clients -> Seq(Hosts)] /\ call[c] \in CallType
  BY DEF IInv, Typed, ClientsConnected
<1>2. UNCHANGED <<daemonVars, bound, short, faults>>
  BY DEF GoOn
<1>3. CASE hosts # <<>>
  <2> DEFINE r == [call[c] EXCEPT !.op = "LOOKUP", !.host = Head(hosts)]
  <2>1. Head(hosts) \in Hosts /\ Tail(hosts) \in Seq(Hosts)
    BY <1>3
  <2>2. TryHost(c, r, WithoutConnOf(c)) /\ rest' = [rest EXCEPT ![c] = Tail(hosts)]
    BY <1>3 DEF GoOn
  <2>3. r \in CallType
    BY <1>1, <2>1 DEF CallType
  <2> HIDE DEF r
  <2>4. Asks(c)
    BY <2>2, <2>3, TryHostAsks
  <2>5. QED
    BY <1>1, <1>2, <2>1, <2>2, <2>4 DEF ClientMoves
<1>4. CASE hosts = <<>>
  <2>1. Ends(c)
    BY <1>4, WithoutConnIs DEF IInv, GoOn, Ends
  <2>2. rest' \in [Clients -> Seq(Hosts)]
    BY <1>1, <1>4 DEF GoOn
  <2>3. QED
    BY <1>2, <2>1, <2>2 DEF ClientMoves
<1>5. QED
  BY <1>3, <1>4

\* The answer of a call, if there is one
LEMMA AnswerSeen ==
    ASSUME IInv, NEW c \in Clients, Answered(c)
    PROVE  pc[c] # "idle" /\ conn[ConnOf(c)].reply \in saw[c]
<1>1. pc[c] # "idle" /\ conn[ConnOf(c)].reply # None
  BY DEF Answered
<1>2. ConnOf(c) \in Conns /\ OpenOf(c, ConnOf(c))
  BY <1>1, ConnOfFacts DEF IInv
<1>3. QED
  BY <1>1, <1>2 DEF IInv, RepliesSeen, OpenOf

LEMMA ReadMoves ==
    ASSUME IInv, NEW c \in Clients, Read(c)
    PROVE  ClientMoves(c)
<1> DEFINE reply == conn[ConnOf(c)].reply
           hosts == CASE call[c].op = "SERVERS" -> reply
                      [] call[c].op = "LOOKUP" /\ reply = 0 -> rest[c]
                      [] OTHER -> <<>>
<1>1. pc[c] # "idle" /\ reply \in saw[c]
  BY AnswerSeen DEF Read
<1>2. call[c] \in CallType /\ rest[c] \in Seq(Hosts)
  BY <1>1 DEF IInv, Typed, ClientsConnected
<1>3. call[c].op = "SERVERS" => reply \in Seq(Hosts)
  <2>1. SUFFICES ASSUME call[c].op = "SERVERS" PROVE reply \in Seq(Hosts)
    OBVIOUS
  <2>2. reply = Known[call[c].host] /\ call[c].host \in Hosts
    BY <1>1, <1>2, <2>1 DEF IInv, Seen, CallType
  <2>3. QED
    BY <2>2, ServerAssumption
<1>4. GoOn(c, hosts)
  BY DEF Read
<1> HIDE DEF reply
<1>5. hosts \in Seq(Hosts)
  <2>1. CASE call[c].op = "SERVERS"
    BY <1>3, <2>1
  <2>2. CASE call[c].op # "SERVERS" /\ call[c].op = "LOOKUP" /\ reply = 0
    BY <1>2, <2>2
  <2>3. CASE call[c].op # "SERVERS" /\ ~(call[c].op = "LOOKUP" /\ reply = 0)
    BY <2>3
  <2>4. QED
    BY <2>1, <2>2, <2>3
<1> HIDE DEF hosts
<1>6. QED
  BY <1>1, <1>4, <1>5, GoOnMoves

LEMMA FailMoves ==
    ASSUME IInv, NEW c \in Clients, Fail(c)
    PROVE  ClientMoves(c)
<1>1. pc[c] # "idle" /\ GoOn(c, rest[c]) /\ rest[c] \in Seq(Hosts)
  BY DEF Fail, IInv, Typed
<1>2. QED
  BY <1>1, GoOnMoves

LEMMA LeftFacts ==
    ASSUME Typed, ConnsKept, NEW c \in Clients, NEW k \in Conns
    PROVE  /\ Left(c, k) \in ConnType \cup {None}
           /\ Left(c, k) # None =>
                 /\ conn[k] # None
                 /\ Left(c, k).client = conn[k].client /\ Left(c, k).host = conn[k].host
                 /\ Left(c, k).req = conn[k].req
                 /\ Left(c, k).open \/ Left(c, k).served
           /\ conn[k] # None /\ conn[k].served =>
                 /\ Left(c, k) # None /\ Left(c, k).served /\ Left(c, k).host = conn[k].host
           /\ Left(c, k) # None /\ Left(c, k).open =>
                 Left(c, k) = conn[k] /\ conn[k].client # c
           /\ ~OpenOf(c, k) => Left(c, k) = conn[k]
<1>1. conn[k] \in ConnType \cup {None} /\ None \notin ConnType
  BY ServerAssumption DEF Typed
<1>2. CASE ~OpenOf(c, k)
  BY <1>1, <1>2 DEF Left, OpenOf, ConnsKept
<1>3. CASE OpenOf(c, k)
  <2>1. /\ conn[k] \in ConnType
        /\ Left(c, k) = IF conn[k].served THEN [conn[k] EXCEPT !.open = FALSE] ELSE None
    BY <1>1, <1>3 DEF OpenOf, Left, Closed
  <2>2. CASE conn[k].served
    <3>1. Left(c, k) = [conn[k] EXCEPT !.open = FALSE]
      BY <2>1, <2>2
    <3>2. Left(c, k) \in ConnType
      BY <2>1, <3>1 DEF ConnType
    <3>3. /\ Left(c, k).client = conn[k].client /\ Left(c, k).host = conn[k].host
          /\ Left(c, k).req = conn[k].req
          /\ Left(c, k).served = conn[k].served /\ ~Left(c, k).open
      BY <2>1, <3>1 DEF ConnType
    <3>4. QED
      BY <1>1, <1>3, <2>2, <3>2, <3>3 DEF OpenOf
  <2>3. CASE ~conn[k].served
    BY <1>3, <2>1, <2>3
  <2>4. QED
    BY <2>2, <2>3
<1>4. QED
  BY <1>2, <1>3

\* The connections after a step of client c: the ones it has left, and a new one if
\* it goes on.
LEMMA MoveConns ==
    ASSUME IInv, NEW c \in Clients, ClientMoves(c)
    PROVE  /\ conn' \in [Conns -> ConnType \cup {None}]
           /\ ConnsKept' /\ ClientsConnected'
           /\ ServedStay(Conns)
           /\ \A k \in Conns : conn'[k] # None /\ conn'[k].open /\ conn'[k].reply # None =>
                  conn'[k] = conn[k] /\ conn[k].client # c
           /\ \A k \in Conns : conn[k] # None /\ conn[k].served /\ conn'[k].open =>
                  conn'[k] = conn[k] /\ conn[k].client # c
           /\ \A x \in Clients : x # c => pc'[x] = pc[x] /\ call'[x] = call[x]
           /\ pc' \in [Clients -> {"idle", "write", "read"}]
           /\ call' \in [Clients -> CallType \cup {None}]
<1>0. /\ Typed /\ ConnsKept /\ ClientsConnected
      /\ pc \in [Clients -> {"idle", "write", "read"}]
      /\ call \in [Clients -> CallType \cup {None}]
      /\ None \notin ConnType /\ None \notin CallType
  BY ServerAssumption DEF IInv, Typed
<1>1. \A k \in Conns :
          /\ Left(c, k) \in ConnType \cup {None}
          /\ Left(c, k) # None =>
                /\ conn[k] # None
                /\ Left(c, k).client = conn[k].client /\ Left(c, k).host = conn[k].host
                /\ Left(c, k).req = conn[k].req
                /\ Left(c, k).open \/ Left(c, k).served
          /\ conn[k] # None /\ conn[k].served =>
                /\ Left(c, k) # None /\ Left(c, k).served /\ Left(c, k).host = conn[k].host
          /\ Left(c, k) # None /\ Left(c, k).open =>
                Left(c, k) = conn[k] /\ conn[k].client # c
          /\ ~OpenOf(c, k) => Left(c, k) = conn[k]
  BY <1>0, LeftFacts
<1>2. CASE Ends(c)
  <2>1. /\ \A k \in Conns : conn'[k] = Left(c, k)
        /\ pc'[c] = "idle" /\ call'[c] = None
        /\ \A x \in Clients : x # c => pc'[x] = pc[x] /\ call'[x] = call[x]
    BY <1>0, <1>2 DEF Ends
  <2>2. conn' \in [Conns -> ConnType \cup {None}]
    BY <1>1, <1>2 DEF Ends
  <2>3. ConnsKept'
    BY <1>0, <1>1, <2>1 DEF ConnsKept
  <2>4. \A x \in Clients, k \in Conns : OpenOf(x, k)' <=> x # c /\ OpenOf(x, k)
    BY <1>1, <2>1 DEF OpenOf
  <2>5. \A x \in Clients, k \in Conns : x # c /\ OpenOf(x, k) => conn'[k] = conn[k]
    BY <1>1, <2>1 DEF OpenOf
  <2>6. ClientsConnected'
    BY <1>0, <2>1, <2>4, <2>5 DEF ClientsConnected
  <2>7. ServedStay(Conns)
    BY <1>1, <2>1 DEF ServedStay
  <2>8. \A k \in Conns : conn'[k] # None /\ conn'[k].open =>
            conn'[k] = conn[k] /\ conn[k].client # c
    BY <1>1, <2>1
  <2>9. /\ pc' \in [Clients -> {"idle", "write", "read"}]
        /\ call' \in [Clients -> CallType \cup {None}]
    BY <1>0, <1>2 DEF Ends
  <2>10. QED
    BY <1>1, <2>1, <2>2, <2>3, <2>6, <2>7, <2>8, <2>9
<1>3. CASE Asks(c)
  <2>1. PICK r \in CallType, k \in Conns, n \in 0..ReqSize :
            /\ Left(c, k) = None
            /\ conn' = [[x \in Conns |-> Left(c, x)] EXCEPT ![k] = Fresh(c, r, n)]
            /\ call' = [call EXCEPT ![c] = r]
            /\ pc' = [pc EXCEPT ![c] = IF n = ReqSize THEN "read" ELSE "write"]
    BY <1>3 DEF Asks
  <2>2. /\ conn'[k] = Fresh(c, r, n) /\ \A l \in Conns : l # k => conn'[l] = Left(c, l)
        /\ pc'[c] \in {"write", "read"} /\ call'[c] = r
        /\ \A x \in Clients : x # c => pc'[x] = pc[x] /\ call'[x] = call[x]
    BY <1>0, <2>1
  <2>3. Fresh(c, r, n) \in ConnType /\ Fresh(c, r, n) # None
    <3>1. r.host \in Hosts
      BY DEF CallType
    <3>2. Fresh(c, r, n) \in ConnType
      BY <3>1 DEF Fresh, ConnType
    <3>3. QED
      BY <1>0, <3>2
  <2>4. /\ Fresh(c, r, n).client = c /\ Fresh(c, r, n).host = r.host /\ Fresh(c, r, n).req = r
        /\ Fresh(c, r, n).open /\ Fresh(c, r, n).reply = None
    BY DEF Fresh
  <2> HIDE DEF Fresh
  <2>5. conn[k] # None => ~conn[k].served
    BY <1>1, <2>1
  <2>6. conn' \in [Conns -> ConnType \cup {None}]
    BY <1>1, <2>1, <2>3
  <2>7. ConnsKept'
    BY <1>0, <1>1, <2>2, <2>3, <2>4 DEF ConnsKept
  <2>8. \A l \in Conns : l # k /\ conn'[l] # None /\ conn'[l].open =>
            conn'[l] = conn[l] /\ conn[l].client # c
    BY <1>1, <2>2
  <2>9. ASSUME NEW x \in Clients, NEW l \in Conns, x # c, OpenOf(x, l)
        PROVE  conn'[l] = conn[l] /\ l # k
    BY <1>1, <2>1, <2>2, <2>9 DEF OpenOf
  <2>10. ASSUME NEW x \in Clients, NEW l \in Conns
         PROVE  OpenOf(x, l)' <=> IF x = c THEN l = k ELSE OpenOf(x, l)
    <3>1. CASE l = k
      BY <2>2, <2>3, <2>4, <2>9, <3>1 DEF OpenOf
    <3>2. CASE l # k
      BY <2>8, <2>9, <3>2 DEF OpenOf
    <3>3. QED
      BY <3>1, <3>2
  <2>11. ClientsConnected'
    <3>1. SUFFICES ASSUME NEW x \in Clients
                   PROVE  /\ pc'[x] = "idle" => call'[x] = None
                          /\ pc'[x] # "idle" => call'[x] # None /\ \E l \in Conns : OpenOf(x, l)'
                          /\ \A l \in Conns :
                                 OpenOf(x, l)' => pc'[x] # "idle" /\ conn'[l].req = call'[x]
                          /\ \A l, m \in Conns : OpenOf(x, l)' /\ OpenOf(x, m)' => l = m
      BY DEF ClientsConnected
    <3>2. CASE x = c
      BY <1>0, <2>2, <2>4, <2>10, <3>2
    <3>3. CASE x # c
      BY <1>0, <2>2, <2>9, <2>10, <3>3 DEF ClientsConnected
    <3>4. QED
      BY <3>2, <3>3
  <2>12. ServedStay(Conns)
    BY <1>1, <2>2, <2>5 DEF ServedStay
  <2>13. /\ pc' \in [Clients -> {"idle", "write", "read"}]
         /\ call' \in [Clients -> CallType \cup {None}]
    BY <1>0, <2>1
  <2>14. \A l \in Conns : conn'[l] # None /\ conn'[l].open /\ conn'[l].reply # None =>
             conn'[l] = conn[l] /\ conn[l].client # c
    BY <2>2, <2>4, <2>8
  <2>15. \A l \in Conns : conn[l] # None /\ conn[l].served /\ conn'[l].open =>
             conn'[l] = conn[l] /\ conn[l].client # c
    BY <2>5, <2>8, <2>12 DEF ServedStay
  <2>16. QED
    BY <2>2, <2>6, <2>7, <2>11, <2>12, <2>13, <2>14, <2>15
<1>4. QED
  BY <1>2, <1>3 DEF ClientMoves

LEMMA MoveKeeps ==
    ASSUME IInv, NEW c \in Clients, ClientMoves(c), SawStep
    PROVE  IInv'
<1>1. /\ conn' \in [Conns -> ConnType \cup {None}]
      /\ ConnsKept' /\ ClientsConnected'
      /\ ServedStay(Conns)
      /\ \A k \in Conns : conn'[k] # None /\ conn'[k].open /\ conn'[k].reply # None =>
             conn'[k] = conn[k] /\ conn[k].client # c
      /\ \A k \in Conns : conn[k] # None /\ conn[k].served /\ conn'[k].open =>
             conn'[k] = conn[k] /\ conn[k].client # c
      /\ \A x \in Clients : x # c => pc'[x] = pc[x] /\ call'[x] = call[x]
      /\ pc' \in [Clients -> {"idle", "write", "read"}]
      /\ call' \in [Clients -> CallType \cup {None}]
  BY MoveConns
<1>2. /\ Typed /\ Tabled /\ ConnsKept /\ OrderedMaps /\ TablesAgree /\ ClientsConnected
      /\ Seen /\ RepliesSeen
  BY DEF IInv, Typed
<1>3. /\ UNCHANGED <<daemonVars, bound, short, faults>>
      /\ rest' \in [Clients -> Seq(Hosts)]
  BY DEF ClientMoves
<1>4. Tabled' /\ TablesAgree'
  BY <1>1, <1>2, <1>3, TablesKept
<1>5. Typed' /\ OrderedMaps'
  BY <1>1, <1>2, <1>3, <1>4 DEF Typed, daemonVars, OrderedMaps
<1>6. Seen'
  BY <1>1, <1>2, SeenAfter
<1>7. ASSUME NEW x \in Clients, x # c, NEW k \in Conns, OpenOf(x, k)
      PROVE  saw[x] \subseteq saw'[x]
  <2>1. pc'[x] # "idle" /\ call'[x] = call[x]
    BY <1>1, <1>2, <1>7 DEF ClientsConnected
  <2>2. QED
    BY <2>1, SawFacts
<1>8. \A k \in Conns : conn[k] # None => conn[k].client \in Clients
  BY <1>2 DEF Typed, ConnType
<1>9. RepliesSeen'
  <2>1. ASSUME NEW k \in Conns, conn'[k] # None, conn'[k].open, conn'[k].reply # None
        PROVE  conn'[k].reply \in saw'[conn'[k].client]
    BY <1>1, <1>2, <1>7, <1>8, <2>1 DEF RepliesSeen, OpenOf
  <2>2. ASSUME NEW h \in Hosts, NEW d \in writeFds'[h], conn'[fd'[h][d]].open
        PROVE  Info(wInfo'[h], d).buf \in saw'[conn'[fd'[h][d]].client]
    <3>1. d \in writeFds[h] /\ fd'[h][d] = fd[h][d] /\ wInfo' = wInfo
      BY <1>3, <2>2 DEF daemonVars
    <3> DEFINE k == fd[h][d]
    <3>2. k \in Conns /\ conn[k] # None /\ conn[k].served
      BY <1>2, <3>1, ChannelFacts
    <3>3. conn'[k] = conn[k] /\ conn[k].client # c /\ conn[k].open
      BY <1>1, <2>2, <3>1, <3>2
    <3>4. Info(wInfo[h], d).buf \in saw[conn[k].client]
      BY <1>2, <3>1, <3>3 DEF RepliesSeen
    <3>5. QED
      BY <1>7, <1>8, <3>1, <3>2, <3>3, <3>4 DEF OpenOf
  <2>3. QED
    BY <2>1, <2>2 DEF RepliesSeen
<1>10. QED
  BY <1>1, <1>4, <1>5, <1>6, <1>9 DEF IInv

-----------------------------------------------------------------------------
(* The theorems. *)

LEMMA InitInvariant == Init => IInv
<1> SUFFICES ASSUME Init PROVE IInv
  OBVIOUS
<1> USE DEF Init
<1>1. Tabled
  BY DEF Tabled
<1>2. Typed
  BY <1>1 DEF Typed
<1>3. ConnsKept /\ OrderedMaps /\ ClientsConnected /\ Seen /\ RepliesSeen
  BY DEF ConnsKept, OrderedMaps, Ordered, ClientsConnected, OpenOf, Seen, RepliesSeen
<1>4. TablesAgree
  BY DEF TablesAgree, Has
<1>5. QED
  BY <1>2, <1>3, <1>4 DEF IInv

LEMMA NextInvariant == IInv /\ [Next]_vars => IInv'
<1> SUFFICES ASSUME IInv, [Next]_vars PROVE IInv'
  OBVIOUS
<1>1. CASE UNCHANGED vars
  <2>1. /\ UNCHANGED <<map, rInfo, wInfo, readFds, writeFds, fd, conn, bound, short>>
        /\ UNCHANGED <<pc, call, rest, faults, saw>>
    BY <1>1 DEF vars, daemonVars, clientVars
  <2>2. Typed' /\ ConnsKept' /\ OrderedMaps' /\ TablesAgree'
    BY <2>1 DEF IInv, Typed, Tabled, ConnsKept, OrderedMaps, Ordered, TablesAgree
  <2>3. ClientsConnected' /\ Seen' /\ RepliesSeen'
    <3>1. ClientsConnected'
      BY <2>1 DEF IInv, ClientsConnected, OpenOf
    <3>2. \A c \in Clients : TrueReplies(c)' = TrueReplies(c)
      BY <2>1 DEF TrueReplies, IsGone, CanBind
    <3>3. Seen'
      BY <2>1, <3>2 DEF IInv, Seen
    <3>4. RepliesSeen'
      BY <2>1 DEF IInv, RepliesSeen
    <3>5. QED
      BY <3>1, <3>3, <3>4
  <2>4. QED
    BY <2>2, <2>3 DEF IInv
<1>2. CASE Next
  <2>0. SawStep /\ Step
    BY <1>2 DEF Next
  <2>1. ASSUME NEW h \in Hosts, Accept(h) \/ Restart(h) \/ \E d \in Descs : Handle(h, d)
        PROVE  IInv'
    BY <2>0, <2>1, DaemonMoves, NoMoveKeeps
  <2>2. ASSUME NEW c \in Clients, BeginCall(c) \/ ClientStep(c)
        PROVE  IInv'
    <3>1. ClientMoves(c)
      BY <2>2, BeginMoves, ReadMoves, FailMoves DEF ClientStep
    <3>2. QED
      BY <2>0, <3>1, MoveKeeps
  <2>3. CASE Listen \/ Scarcity
    BY <2>0, <2>3, SurroundingsMove, NoMoveKeeps
  <2>4. QED
    BY <2>0, <2>1, <2>2, <2>3 DEF Step
<1>3. QED
  BY <1>1, <1>2

\* The invariant holds all the time, from ServerAssumption alone.
THEOREM Invariant == Spec => []IInv
<1>1. Init => IInv
  BY InitInvariant
<1>2. IInv /\ [Next]_vars => IInv'
  BY NextInvariant
<1>3. QED
  BY <1>1, <1>2, PTL DEF Spec

LEMMA InvariantTyped == IInv => TypeOK
<1> SUFFICES ASSUME IInv PROVE TypeOK
  OBVIOUS
<1>0. Typed /\ Tabled /\ OrderedMaps /\ ConnsKept
  BY DEF IInv, Typed
<1>1. \A h \in Hosts :
          /\ \A i \in 1..Len(map[h]) : map[h][i] \in EntryType
          /\ readFds[h] \cup writeFds[h] \subseteq Descs
          /\ fd[h] \in [Descs -> Conns \cup {None}]
  BY <1>0, MapFacts DEF Tabled
<1>2. ASSUME NEW k \in Conns, conn[k] # None
      PROVE  /\ conn[k].client \in Clients /\ conn[k].host \in Hosts
             /\ conn[k].sent \in 0..ReqSize
             /\ conn[k].open \/ conn[k].served
  <2>1. conn[k] \in ConnType
    BY <1>0, <1>2 DEF Typed
  <2>2. QED
    BY <1>0, <1>2, <2>1 DEF ConnType, ConnsKept
<1>3. /\ bound \subseteq Sockets /\ short \subseteq ShortHosts
      /\ pc \in [Clients -> {"idle", "write", "read"}]
  BY <1>0 DEF Typed
<1>4. QED
  BY <1>1, <1>2, <1>3 DEF TypeOK

\* Everything has its type, for any instance of ServerAssumption.
THEOREM TypeCorrect == Spec => []TypeOK
BY Invariant, InvariantTyped, PTL

LEMMA InvariantFound == IInv => NamesAreFound
<1> SUFFICES ASSUME IInv, NEW h \in Hosts
             PROVE  /\ Sorted(map[h]) /\ NoNameTwice(map[h])
                    /\ \A n \in Names :
                           LET i == MapByName(map[h], n)
                           IN  IF i = 0 THEN \A j \in 1..Len(map[h]) : map[h][j].name # n
                               ELSE map[h][i].name = n
  BY DEF NamesAreFound
<1>1. Typed /\ OrderedMaps
  BY DEF IInv
<1>2. Sorted(map[h]) /\ NoNameTwice(map[h])
  BY <1>1, MapFacts, OrderedMeans
<1>3. ASSUME NEW n \in Names
      PROVE  IF MapByName(map[h], n) = 0 THEN \A j \in 1..Len(map[h]) : map[h][j].name # n
             ELSE map[h][MapByName(map[h], n)].name = n
  BY <1>1, FoundFacts
<1>4. QED
  BY <1>2, <1>3

\* The array of names stays in order, without a name twice, and map_by_name() finds
\* every name in it: for arrays of any length.
THEOREM Findable == Spec => []NamesAreFound
BY Invariant, InvariantFound, PTL

\* _rInfo, _wInfo, the sets of descriptors and the kernel agree.
THEOREM InAgreement == Spec => []TablesAgree
<1>1. IInv => TablesAgree
  BY DEF IInv
<1>2. QED
  BY <1>1, Invariant, PTL

\* What a client is told was true at some moment of its call.
THEOREM TruthTold == Spec => []AnswersAreTrue
<1>1. IInv => AnswersAreTrue
  BY AnswerSeen DEF AnswersAreTrue
<1>2. QED
  BY <1>1, Invariant, PTL

-----------------------------------------------------------------------------
(* A name is not grabbed. *)

LEMMA SameMapStays ==
    ASSUME NEW h, map'[h] = map[h], NEW i \in 1..Len(map[h])
    PROVE  NameStays(h, i)
BY DEF NameStays

\* A handler that replies takes its descriptor out of read_fds.
LEMMA ReplyReads ==
    ASSUME Tabled, NEW h \in Hosts, NEW d \in readFds[h], NEW value, Reply(h, d, value)
    PROVE  d \in readFds[h] \ readFds'[h]
BY DEF Reply, Tabled

LEMMA RegisterStays ==
    ASSUME IInv, NEW h \in Hosts, NEW d \in Descs, Register(h, d),
           NEW x \in Hosts, NEW j \in 1..Len(map[x])
    PROVE  NameStays(x, j)
<1> DEFINE r == Request(h, d)
           i == MapByName(map[h], r.name)
           e == Entry(r)
<1>0. /\ d \in readFds[h] /\ r.op = "REGISTER"
      /\ Tabled /\ Typed
  BY DEF IInv, Typed, Register, Requested
<1>1. /\ Typed /\ OrderedMaps
      /\ r \in CallType
      /\ map[h] \in Seq(EntryType) /\ Ordered(map[h])
      /\ \A y \in EntryType : y.name \in Int
  BY <1>0, RequestFacts
<1>2. /\ r.name \in Names
      /\ i # 0 => i \in 1..Len(map[h]) /\ map[h][i].name = r.name
      /\ i = 0 => \A l \in 1..Len(map[h]) : map[h][l].name # r.name
  BY <1>1, FoundFacts DEF CallType
<1>3. e \in EntryType /\ e.name = r.name
  BY <1>1 DEF Entry, EntryType, CallType
<1>4. CASE UNCHANGED map \/ x # h
  <2>1. map'[x] = map[x]
    BY <1>1, <1>4 DEF Register, Typed
  <2>2. QED
    BY <2>1, SameMapStays
<1>5. CASE /\ x = h
           /\ i # 0 /\ IsGone(h, map[h][i].port, r.type.net)
           /\ map' = [map EXCEPT ![h][i] = e] /\ Reply(h, d, r.port)
  <2>1. /\ Len([map[h] EXCEPT ![i] = e]) = Len(map[h])
        /\ \A l \in 1..Len(map[h]) : l # i => [map[h] EXCEPT ![i] = e][l] = map[h][l]
    BY <1>1, <1>2, <1>3, <1>5, MapChangeFacts
  <2>2. map'[h] = [map[h] EXCEPT ![i] = e]
    BY <1>1, <1>5 DEF Typed
  <2>3. CASE j # i
    BY <1>5, <2>1, <2>2, <2>3 DEF NameStays
  <2>4. CASE j = i /\ r.type.net = map[h][i].type.net
    BY <1>5, <2>4 DEF NameStays, IsGone
  <2>5. CASE j = i /\ r.type.net # map[h][i].type.net
    <3>1. d \in readFds[h] \ readFds'[h]
      BY <1>0, <1>5, ReplyReads
    <3>2. QED
      BY <1>0, <1>2, <1>5, <2>5, <3>1 DEF NameStays
  <2>6. QED
    BY <2>3, <2>4, <2>5
<1>6. CASE x = h /\ i = 0 /\ map' = [map EXCEPT ![h] = MapAdd(@, e)]
  <2> DEFINE s == map[h]
  <2>0. /\ s \in Seq(EntryType) /\ Ordered(s) /\ \A y \in EntryType : y.name \in Int
        /\ e \in EntryType /\ \A l \in 1..Len(s) : s[l].name # e.name
    BY <1>1, <1>2, <1>3, <1>6
  <2> HIDE DEF e, s
  <2>1. /\ MapAdd(s, e) \in Seq(EntryType)
        /\ \A l \in 1..Len(s) : \E k \in 1..Len(MapAdd(s, e)) : MapAdd(s, e)[k] = s[l]
    BY <2>0, MapAddFacts
  <2>2. map'[h] = MapAdd(map[h], e)
    BY <1>1, <1>6 DEF Typed
  <2>3. QED
    BY <1>6, <2>1, <2>2 DEF NameStays, s
<1>7. QED
  BY <1>4, <1>5, <1>6 DEF Register

LEMMA LookUpStays ==
    ASSUME IInv, NEW h \in Hosts, NEW d \in Descs, LookUp(h, d),
           NEW x \in Hosts, NEW j \in 1..Len(map[x])
    PROVE  NameStays(x, j)
<1> DEFINE r == Request(h, d)
           i == MapByName(map[h], r.name)
<1>0. d \in readFds[h]
  BY DEF LookUp, Requested
<1>1. /\ Typed /\ OrderedMaps
      /\ r \in CallType
      /\ map[h] \in Seq(EntryType) /\ Ordered(map[h])
      /\ \A y \in EntryType : y.name \in Int
  BY <1>0, RequestFacts
<1>2. i # 0 => i \in 1..Len(map[h])
  BY <1>1, FoundFacts DEF CallType
<1>3. CASE UNCHANGED map \/ x # h
  <2>1. map'[x] = map[x]
    BY <1>1, <1>3 DEF LookUp, Typed
  <2>2. QED
    BY <2>1, SameMapStays
<1>4. CASE /\ x = h
           /\ i # 0 /\ map[h][i].type = r.type /\ IsGone(h, map[h][i].port, r.type.net)
           /\ map' = [map EXCEPT ![h] = MapDel(@, i)]
  <2>1. \A l \in 1..Len(map[h]) :
            l # i => \E k \in 1..Len(MapDel(map[h], i)) : MapDel(map[h], i)[k] = map[h][l]
    BY <1>1, <1>2, <1>4, MapDelFacts
  <2>2. map'[h] = MapDel(map[h], i)
    BY <1>1, <1>4 DEF Typed
  <2>3. QED
    BY <1>4, <2>1, <2>2 DEF NameStays, IsGone
<1>5. QED
  BY <1>3, <1>4 DEF LookUp

LEMMA UnregisterStays ==
    ASSUME IInv, NEW h \in Hosts, NEW d \in Descs, Unregister(h, d) \/ UnregisterPort(h, d),
           NEW x \in Hosts, NEW j \in 1..Len(map[x])
    PROVE  NameStays(x, j)
<1>1. /\ Tabled /\ map \in [Hosts -> Seq(EntryType)]
      /\ d \in readFds[h] /\ Request(h, d).op \in {"UNREG", "UNREGPORT"}
      /\ \E value : Reply(h, d, value)
  BY DEF IInv, Typed, Unregister, UnregisterPort, Requested
<1>2. d \in readFds[h] \ readFds'[h]
  BY <1>1, ReplyReads
<1>3. x # h => map'[x] = map[x]
  BY <1>1 DEF Unregister, UnregisterPort
<1>4. QED
  BY <1>1, <1>2, <1>3, SameMapStays DEF NameStays

\* The other steps leave every map alone, except for the start of a daemon.
LEMMA OthersStay ==
    ASSUME IInv, NEW x \in Hosts, NEW j \in 1..Len(map[x]),
           \/ Listen \/ Scarcity
           \/ \E c \in Clients : BeginCall(c) \/ ClientStep(c)
           \/ \E h \in Hosts : Accept(h) \/ Restart(h)
           \/ \E h \in Hosts, d \in Descs :
                  \/ ReadPart(h, d) \/ ReadEnd(h, d) \/ Refuse(h, d) \/ Write(h, d)
                  \/ ListNames(h, d) \/ ListServers(h, d)
    PROVE  NameStays(x, j)
<1>1. ASSUME NEW h \in Hosts, Restart(h)
      PROVE  faults' # faults /\ UNCHANGED short
  BY <1>1 DEF IInv, Typed, Restart
<1>2. CASE UNCHANGED map
  BY <1>2, SameMapStays
<1>3. CASE faults' # faults /\ UNCHANGED short
  BY <1>3 DEF NameStays
<1>4. ASSUME NEW c \in Clients, BeginCall(c) \/ ClientStep(c)
      PROVE  UNCHANGED map
  BY <1>4 DEF BeginCall, ClientStep, Read, Fail, GoOn, daemonVars
<1>5. Listen \/ Scarcity \/ (\E h \in Hosts : Accept(h)) => UNCHANGED map
  BY DEF Listen, Scarcity, Accept, daemonVars
<1>6. ASSUME NEW h \in Hosts, NEW d \in Descs,
             \/ ReadPart(h, d) \/ ReadEnd(h, d) \/ Refuse(h, d) \/ Write(h, d)
             \/ ListNames(h, d) \/ ListServers(h, d)
      PROVE  UNCHANGED map
  BY <1>6 DEF ReadPart, ReadEnd, Refuse, Write, ListNames, ListServers
<1>7. QED
  BY <1>1, <1>2, <1>3, <1>4, <1>5, <1>6

\* As long as a program listens on its port, a name keeps that port and type until it is
\* unregistered or the daemon is restarted, unless it is registered for the other protocol.
THEOREM NotGrabbed == Spec => LiveNamesStay
<1>1. IInv /\ [Next]_vars => [\A h \in Hosts : \A i \in 1..Len(map[h]) : NameStays(h, i)]_vars
  <2> SUFFICES ASSUME IInv, Next, NEW x \in Hosts, NEW j \in 1..Len(map[x])
               PROVE  NameStays(x, j)
    OBVIOUS
  <2>1. ASSUME NEW h \in Hosts, NEW d \in Descs, Handle(h, d)
        PROVE  NameStays(x, j)
    BY <2>1, RegisterStays, LookUpStays, UnregisterStays, OthersStay DEF Handle
  <2>2. QED
    BY <2>1, OthersStay DEF Next, Step
<1>2. QED
  BY <1>1, Invariant, PTL DEF LiveNamesStay, Spec
=============================================================================
