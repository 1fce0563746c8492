---------------------------- MODULE Lists_proofs ----------------------------
(***************************************************************************)
(* Facts about lists that the proofs about several components rest on:     *)
(* what is in a list, and in which order, when an element is inserted,     *)
(* appended or taken from the front, or when some of the elements are left *)
(* out, and where a binary search ends.                                    *)
(***************************************************************************)
EXTENDS Lists, SequencesExt, SequenceTheorems, FiniteSetTheorems,
        WellFoundedInduction, TLAPS

\* A set of numbers that is not empty has a least element.
LEMMA LeastNumber ==
    ASSUME NEW T \in SUBSET Nat, T # {}
    PROVE  \E n \in T : \A m \in T : n <= m
<1> DEFINE R == OpToRel(<, Nat)
<1>1. IsWellFoundedOn(R, Nat)
  BY NatLessThanWellFounded
<1>2. \A m, n \in Nat : m < n => <<m, n>> \in R
  BY DEF OpToRel
<1> HIDE DEF R
<1>3. PICK x \in T : \A y \in T : ~(<<y, x>> \in R)
  BY <1>1, WFMin
<1>4. \A y \in T : y \in Nat /\ x \in Nat /\ ~(y < x)
  BY <1>2, <1>3
<1>5. \A y \in T : x <= y
  BY <1>4
<1>6. QED
  BY <1>5

\* Induction, on a set of numbers.
LEMMA Induction ==
    ASSUME NEW T, 0 \in T, \A n \in T : n \in Nat => n + 1 \in T
    PROVE  Nat \subseteq T
<1> DEFINE Rest == Nat \ T
<1> SUFFICES ASSUME Rest # {} PROVE FALSE
  OBVIOUS
<1>1. PICK n \in Rest : \A m \in Rest : n <= m
  BY LeastNumber
<1>2. n \in Nat /\ n # 0 /\ n - 1 \in Nat /\ n - 1 \notin Rest
  BY <1>1
<1>3. n - 1 \in T /\ n - 1 \in Nat /\ (n - 1) + 1 = n
  BY <1>2
<1>4. n \in T
  BY <1>3
<1>5. QED
  BY <1>1, <1>4

-----------------------------------------------------------------------------
(* One element more, or one less. *)

\* r is the list s with e put after its first k elements.
IsSpliced(r, s, k, e) ==
    /\ Len(r) = Len(s) + 1
    /\ \A i \in 1..(Len(s) + 1) :
          r[i] = IF i <= k THEN s[i] ELSE IF i = k + 1 THEN e ELSE s[i - 1]

\* The elements of a list with one inserted.
LEMMA InsertAtElements ==
    ASSUME NEW S, NEW s \in Seq(S), NEW e \in S, NEW k \in 0..Len(s)
    PROVE  InsertAt(s, k + 1, e) \in Seq(S) /\ IsSpliced(InsertAt(s, k + 1, e), s, k, e)
<1> DEFINE a == SubSeq(s, 1, k)
           b == SubSeq(s, k + 1, Len(s))
<1>0. Len(s) \in Nat /\ k \in Nat /\ \A i \in 1..Len(s) : s[i] \in S
  BY LenProperties, ElementOfSeq
<1>1. /\ a \in Seq(S) /\ Len(a) = k
      /\ \A i \in 1..k : a[i] = s[i]
  BY <1>0, SubSeqProperties
<1>2. /\ b \in Seq(S) /\ Len(b) = Len(s) - k
      /\ \A i \in 1..(Len(s) - k) : b[i] = s[k + i]
  BY <1>0, SubSeqProperties
<1>3. /\ <<e>> \in Seq(S) /\ Len(<<e>>) = 1 /\ <<e>>[1] = e
  OBVIOUS
<1> HIDE DEF a, b
<1>4. /\ a \o <<e>> \in Seq(S) /\ Len(a \o <<e>>) = k + 1
      /\ \A i \in 1..(k + 1) : (a \o <<e>>)[i] = IF i <= k THEN s[i] ELSE e
  BY <1>0, <1>1, <1>3, ConcatProperties
<1> DEFINE r == (a \o <<e>>) \o b
<1>5. /\ r \in Seq(S) /\ Len(r) = Len(s) + 1
      /\ \A i \in 1..(Len(s) + 1) :
            r[i] = IF i <= k + 1 THEN (a \o <<e>>)[i] ELSE b[i - (k + 1)]
  BY <1>0, <1>2, <1>4, ConcatProperties
<1>6. InsertAt(s, k + 1, e) = r
  <2>1. (k + 1) - 1 = k
    BY <1>0
  <2>2. InsertAt(s, k + 1, e) = SubSeq(s, 1, (k + 1) - 1) \o <<e>> \o SubSeq(s, k + 1, Len(s))
    BY DEF InsertAt
  <2>3. QED
    BY <2>1, <2>2 DEF a, b
<1> HIDE DEF r
<1>7. \A i \in 1..(Len(s) + 1) :
          r[i] = IF i <= k THEN s[i] ELSE IF i = k + 1 THEN e ELSE s[i - 1]
  <2> SUFFICES ASSUME NEW i \in 1..(Len(s) + 1)
               PROVE r[i] = IF i <= k THEN s[i] ELSE IF i = k + 1 THEN e ELSE s[i - 1]
    OBVIOUS
  <2>1. CASE i <= k + 1
    BY <2>1, <1>0, <1>4, <1>5
  <2>2. CASE i > k + 1
    <3>1. i - (k + 1) \in 1..(Len(s) - k) /\ k + (i - (k + 1)) = i - 1
      BY <2>2, <1>0
    <3>2. b[i - (k + 1)] = s[i - 1]
      BY <3>1, <1>2
    <3>3. QED
      BY <2>2, <3>2, <1>0, <1>5
  <2>3. i <= k + 1 \/ i > k + 1
    BY <1>0
  <2>4. QED
    BY <2>1, <2>2, <2>3
<1>8. QED
  BY <1>5, <1>6, <1>7 DEF IsSpliced

\* Inserting adds exactly the element; the others stay different.
LEMMA InsertAtSet ==
    ASSUME NEW S, NEW s \in Seq(S), NEW e \in S, NEW k \in 0..Len(s)
    PROVE  /\ ToSet(InsertAt(s, k + 1, e)) = ToSet(s) \cup {e}
           /\ Distinct(s) /\ e \notin ToSet(s) => Distinct(InsertAt(s, k + 1, e))
<1> DEFINE t == InsertAt(s, k + 1, e)
<1>0. /\ Len(s) \in Nat /\ k \in Nat /\ k <= Len(s) /\ DOMAIN s = 1..Len(s)
      /\ t \in Seq(S) /\ Len(t) = Len(s) + 1 /\ DOMAIN t = 1..(Len(s) + 1)
      /\ \A i \in 1..(Len(s) + 1) :
            t[i] = IF i <= k THEN s[i] ELSE IF i = k + 1 THEN e ELSE s[i - 1]
  BY InsertAtElements, LenProperties DEF IsSpliced
<1> HIDE DEF t
<1>1. \A i \in 1..Len(s) : \E j \in 1..(Len(s) + 1) : t[j] = s[i]
  <2> TAKE i \in 1..Len(s)
  <2>1. CASE i <= k
    BY <2>1, <1>0
  <2>2. CASE i > k
    <3>1. i + 1 \in 1..(Len(s) + 1) /\ ~(i + 1 <= k) /\ i + 1 # k + 1 /\ (i + 1) - 1 = i
      BY <2>2, <1>0
    <3>2. t[i + 1] = s[i]
      BY <3>1, <1>0
    <3>3. QED
      BY <3>1, <3>2
  <2>3. QED
    BY <2>1, <2>2, <1>0
<1>2. t[k + 1] = e /\ k + 1 \in 1..(Len(s) + 1)
  BY <1>0
<1>3. \A j \in 1..(Len(s) + 1) : t[j] = e \/ \E i \in 1..Len(s) : t[j] = s[i]
  <2> TAKE j \in 1..(Len(s) + 1)
  <2>1. CASE j <= k
    BY <2>1, <1>0
  <2>2. CASE j = k + 1
    BY <2>2, <1>2
  <2>3. CASE j > k + 1
    <3>1. j - 1 \in 1..Len(s) /\ ~(j <= k) /\ j # k + 1
      BY <2>3, <1>0
    <3>2. t[j] = s[j - 1]
      BY <3>1, <1>0
    <3>3. QED
      BY <3>1, <3>2
  <2>4. QED
    BY <2>1, <2>2, <2>3, <1>0
<1>4. ToSet(t) = ToSet(s) \cup {e}
  <2>0. /\ ToSet(s) = {s[i] : i \in 1..Len(s)}
        /\ ToSet(t) = {t[i] : i \in 1..(Len(s) + 1)}
    BY <1>0 DEF ToSet
  <2>1. ToSet(t) \subseteq ToSet(s) \cup {e}
    BY <1>3, <2>0, Zenon
  <2>2. ToSet(s) \subseteq ToSet(t)
    BY <1>1, <2>0, Zenon
  <2>3. e \in ToSet(t)
    BY <1>0, <1>2 DEF ToSet
  <2>4. QED
    BY <2>1, <2>2, <2>3
<1>5. ASSUME Distinct(s), e \notin ToSet(s)
      PROVE Distinct(t)
  <2> SUFFICES ASSUME NEW i \in 1..(Len(s) + 1), NEW j \in 1..(Len(s) + 1), t[i] = t[j]
               PROVE i = j
    BY <1>0 DEF Distinct
  <2> DEFINE old(n) == IF n <= k THEN n ELSE n - 1
  <2>1. \A n \in 1..(Len(s) + 1) : n # k + 1 => old(n) \in 1..Len(s) /\ t[n] = s[old(n)]
    BY <1>0
  <2>2. \A n \in 1..(Len(s) + 1) : n # k + 1 => t[n] # e
    BY <2>1, <1>0, <1>5 DEF ToSet
  <2>3. CASE i = k + 1 \/ j = k + 1
    BY <2>2, <2>3, <1>2
  <2>4. CASE i # k + 1 /\ j # k + 1
    <3>1. old(i) = old(j)
      BY <2>1, <2>4, <1>5, <1>0 DEF Distinct
    <3>2. QED
      BY <3>1, <2>4, <1>0
  <2>5. QED
    BY <2>3, <2>4
<1>6. QED
  BY <1>4, <1>5 DEF t

\* Appending, likewise.
LEMMA AppendSet ==
    ASSUME NEW S, NEW s \in Seq(S), NEW e \in S
    PROVE  /\ Append(s, e) \in Seq(S)
           /\ Append(s, e) # <<>>
           /\ ToSet(Append(s, e)) = ToSet(s) \cup {e}
           /\ Distinct(s) /\ e \notin ToSet(s) => Distinct(Append(s, e))
<1> DEFINE t == Append(s, e)
<1>0. /\ Len(s) \in Nat /\ DOMAIN s = 1..Len(s)
      /\ t \in Seq(S) /\ t # <<>> /\ DOMAIN t = 1..(Len(s) + 1)
      /\ \A i \in 1..Len(s) : t[i] = s[i]
      /\ t[Len(s) + 1] = e
  BY AppendProperties, LenProperties
<1> HIDE DEF t
<1>1. \A i \in 1..(Len(s) + 1) : i \in 1..Len(s) \/ i = Len(s) + 1
  BY <1>0
<1>2. 1..Len(s) \subseteq 1..(Len(s) + 1) /\ Len(s) + 1 \in 1..(Len(s) + 1)
  BY <1>0
<1>3. ToSet(t) = ToSet(s) \cup {e}
  BY <1>0, <1>1, <1>2 DEF ToSet
<1>4. ASSUME Distinct(s), e \notin ToSet(s)
      PROVE Distinct(t)
  BY <1>0, <1>1, <1>4 DEF Distinct, ToSet
<1>5. QED
  BY <1>0, <1>3, <1>4 DEF t

\* Taking the first element away removes exactly it when all are different.
LEMMA TailSet ==
    ASSUME NEW S, NEW s \in Seq(S), s # <<>>
    PROVE  /\ Head(s) \in S
           /\ Head(s) \in ToSet(s)
           /\ Tail(s) \in Seq(S)
           /\ (Tail(s) = <<>>) <=> (Len(s) <= 1)
           /\ Distinct(s) => /\ ToSet(Tail(s)) = ToSet(s) \ {Head(s)}
                             /\ Distinct(Tail(s))
<1> DEFINE t == Tail(s)
<1>0. /\ Len(s) \in Nat /\ Len(s) >= 1 /\ DOMAIN s = 1..Len(s)
      /\ Head(s) = s[1] /\ s[1] \in S
      /\ t \in Seq(S) /\ Len(t) = Len(s) - 1 /\ DOMAIN t = 1..(Len(s) - 1)
      /\ \A i \in 1..(Len(s) - 1) : t[i] = s[i + 1]
  <2>1. Len(s) \in Nat /\ Len(s) >= 1 /\ DOMAIN s = 1..Len(s)
    BY LenProperties, EmptySeq
  <2>2. Head(s) = s[1] /\ s[1] \in S
    BY <2>1, ElementOfSeq
  <2>3. /\ t \in Seq(S) /\ Len(t) = Len(s) - 1
        /\ \A i \in 1..Len(t) : t[i] = s[i + 1]
    BY <2>1, HeadTailProperties
  <2>4. QED
    BY <2>1, <2>2, <2>3, LenProperties
<1>1. (t = <<>>) <=> (Len(s) <= 1)
  BY <1>0, EmptySeq
<1> HIDE DEF t
<1>2. Head(s) \in ToSet(s)
  BY <1>0 DEF ToSet
<1>3. ASSUME Distinct(s)
      PROVE ToSet(t) = ToSet(s) \ {Head(s)} /\ Distinct(t)
  <2>1. \A i \in 1..(Len(s) - 1) : i + 1 \in 1..Len(s) /\ i + 1 # 1
    BY <1>0
  <2>2. \A i \in 1..Len(s) : i # 1 => i - 1 \in 1..(Len(s) - 1) /\ (i - 1) + 1 = i
    BY <1>0
  <2>3. \A i \in 1..(Len(s) - 1) : t[i] \in ToSet(s) \ {Head(s)}
    BY <1>0, <1>3, <2>1 DEF ToSet, Distinct
  <2>4. \A i \in 1..Len(s) : s[i] # Head(s) => s[i] \in ToSet(t)
    <3> SUFFICES ASSUME NEW i \in 1..Len(s), s[i] # Head(s) PROVE s[i] \in ToSet(t)
      OBVIOUS
    <3>1. i # 1
      BY <1>0
    <3>2. t[i - 1] = s[i]
      BY <3>1, <2>2, <1>0
    <3>3. QED
      BY <3>1, <3>2, <2>2, <1>0 DEF ToSet
  <2>5. ToSet(t) = ToSet(s) \ {Head(s)}
    BY <1>0, <2>3, <2>4 DEF ToSet
  <2>6. Distinct(t)
    <3> SUFFICES ASSUME NEW i \in 1..(Len(s) - 1), NEW j \in 1..(Len(s) - 1), t[i] = t[j]
                 PROVE i = j
      BY <1>0 DEF Distinct
    <3>1. i + 1 = j + 1
      BY <1>0, <1>3, <2>1 DEF Distinct
    <3>2. QED
      BY <3>1
  <2>7. QED
    BY <2>5, <2>6
<1>4. QED
  BY <1>0, <1>1, <1>2, <1>3 DEF t

-----------------------------------------------------------------------------
(* Only. *)

\* One step of the recursion.
OnlyStep(f, list, places, n) ==
    IF n = 0 THEN <<>>
    ELSE IF n \in places THEN Append(f[n - 1], list[n])
    ELSE f[n - 1]

\* The recursive definition defines a function.
LEMMA OnlyExists ==
    ASSUME NEW list, NEW places, Len(list) \in Nat
    PROVE  \E f : f = [n \in 0..Len(list) |-> OnlyStep(f, list, places, n)]
<1> DEFINE Good(k) == \E f : f = [n \in 0..k |-> OnlyStep(f, list, places, n)]
           T == {k \in Nat : Good(k)}
<1>1. Good(0)
  <2> DEFINE f == [n \in 0..0 |-> <<>>]
  <2>1. f = [n \in 0..0 |-> OnlyStep(f, list, places, n)]
    BY DEF OnlyStep
  <2>2. QED
    BY <2>1
<1>2. ASSUME NEW k \in Nat, Good(k) PROVE Good(k + 1)
  <2>1. PICK f : f = [n \in 0..k |-> OnlyStep(f, list, places, n)]
    BY <1>2
  <2> DEFINE g == [n \in 0..(k + 1) |-> OnlyStep(f, list, places, n)]
  <2>2. \A n \in 0..k : n \in 0..(k + 1) /\ g[n] = f[n]
    BY <2>1
  <2>3. \A n \in 0..(k + 1) : n # 0 => f[n - 1] = g[n - 1]
    <3> HIDE DEF g
    <3>1. \A n \in 0..(k + 1) : n # 0 => n - 1 \in 0..k
      OBVIOUS
    <3>2. QED
      BY <2>2, <3>1
  <2>4. \A n \in 0..(k + 1) : OnlyStep(f, list, places, n) = OnlyStep(g, list, places, n)
    <3> HIDE DEF g
    <3>1. QED
      BY <2>3 DEF OnlyStep
  <2>5. g = [n \in 0..(k + 1) |-> OnlyStep(g, list, places, n)]
    BY <2>4
  <2>6. QED
    BY <2>5
<1> HIDE DEF Good
<1>3. Len(list) \in T
  <2>1. 0 \in T /\ \A k \in T : k + 1 \in T
    BY <1>1, <1>2
  <2> HIDE DEF T
  <2>2. QED
    BY <2>1, Induction
<1>4. QED
  BY <1>3 DEF Good

\* s has the elements of list whose place is at most m and in places, in order.
Selects(s, list, places, m) ==
    \E f \in [1..Len(s) -> places \cap (1..m)] :
        /\ \A i \in 1..Len(s) : s[i] = list[f[i]]
        /\ \A i, j \in 1..Len(s) : i < j => f[i] < f[j]
        /\ \A k \in places \cap (1..m) : \E i \in 1..Len(s) : f[i] = k

\* One more place that is not taken, ...
LEMMA SelectsSkip ==
    ASSUME NEW s, NEW list, NEW places, NEW m \in Nat, Selects(s, list, places, m),
           m + 1 \notin places
    PROVE  Selects(s, list, places, m + 1)
<1>1. places \cap (1..(m + 1)) = places \cap (1..m)
  OBVIOUS
<1>2. QED
  BY <1>1 DEF Selects

\* ... and one more that is.
LEMMA SelectsOneMore ==
    ASSUME NEW S, NEW s \in Seq(S), NEW list \in Seq(S), NEW places, NEW m \in Nat,
           Selects(s, list, places, m), m + 1 \in places, m + 1 <= Len(list)
    PROVE  /\ Append(s, list[m + 1]) \in Seq(S)
           /\ Selects(Append(s, list[m + 1]), list, places, m + 1)
<1> DEFINE e == list[m + 1]
           t == Append(s, e)
<1>0. Len(s) \in Nat /\ Len(list) \in Nat /\ e \in S
  BY ElementOfSeq
<1>1. /\ t \in Seq(S) /\ Len(t) = Len(s) + 1
      /\ \A i \in 1..Len(s) : t[i] = s[i]
      /\ t[Len(s) + 1] = e
  BY <1>0, AppendProperties
<1>2. PICK f \in [1..Len(s) -> places \cap (1..m)] :
          /\ \A i \in 1..Len(s) : s[i] = list[f[i]]
          /\ \A i, j \in 1..Len(s) : i < j => f[i] < f[j]
          /\ \A k \in places \cap (1..m) : \E i \in 1..Len(s) : f[i] = k
  BY DEF Selects
<1> HIDE DEF t
<1> DEFINE g == [i \in 1..(Len(s) + 1) |-> IF i <= Len(s) THEN f[i] ELSE m + 1]
<1>3. g \in [1..Len(t) -> places \cap (1..(m + 1))]
  BY <1>0, <1>1, <1>2
<1>4. \A i \in 1..Len(t) : t[i] = list[g[i]]
  BY <1>0, <1>1, <1>2
<1>5. \A i \in 1..Len(s) : f[i] < m + 1
  BY <1>2
<1>6. \A i, j \in 1..Len(t) : i < j => g[i] < g[j]
  BY <1>0, <1>1, <1>2, <1>5
<1>7. \A k \in places \cap (1..(m + 1)) : \E i \in 1..Len(t) : g[i] = k
  <2> SUFFICES ASSUME NEW k \in places \cap (1..(m + 1))
               PROVE  \E i \in 1..Len(t) : g[i] = k
    OBVIOUS
  <2>1. CASE k = m + 1
    <3>1. Len(s) + 1 \in 1..Len(t) /\ g[Len(s) + 1] = m + 1
      BY <1>0, <1>1
    <3>2. QED
      BY <2>1, <3>1
  <2>2. CASE k # m + 1
    <3>1. k \in places \cap (1..m)
      BY <2>2
    <3>2. PICK i \in 1..Len(s) : f[i] = k
      BY <1>2, <3>1
    <3>3. i \in 1..Len(t) /\ g[i] = k
      BY <1>0, <1>1, <3>2
    <3>4. QED
      BY <3>3
  <2>3. QED
    BY <2>1, <2>2
<1> HIDE DEF g
<1>8. QED
  BY <1>1, <1>3, <1>4, <1>6, <1>7 DEF Selects, t

\* Only returns the elements at the given places, each once and in order.
LEMMA OnlySelects ==
    ASSUME NEW S, NEW list \in Seq(S), NEW places
    PROVE  /\ Only(list, places) \in Seq(S)
           /\ Selects(Only(list, places), list, places, Len(list))
<1> DEFINE F == CHOOSE f : f = [n \in 0..Len(list) |-> OnlyStep(f, list, places, n)]
<1>0. Len(list) \in Nat
  OBVIOUS
<1>1. F = [n \in 0..Len(list) |-> OnlyStep(F, list, places, n)]
  BY <1>0, OnlyExists
<1>2. Only(list, places) = F[Len(list)]
  BY DEF Only, OnlyStep
<1> HIDE DEF F
<1>3. \A n \in 0..Len(list) : F[n] = OnlyStep(F, list, places, n)
  BY <1>1
<1> DEFINE Good(n) == F[n] \in Seq(S) /\ Selects(F[n], list, places, n)
           T == {n \in Nat : n <= Len(list) => Good(n)}
<1>4. Good(0)
  <2>1. F[0] = <<>>
    BY <1>0, <1>3 DEF OnlyStep
  <2>2. Selects(<<>>, list, places, 0)
    <3> DEFINE f == [i \in 1..0 |-> 0]
    <3>1. Len(<<>>) = 0 /\ 1..0 = {}
      OBVIOUS
    <3>2. f \in [1..Len(<<>>) -> places \cap (1..0)]
      BY <3>1
    <3>3. QED
      BY <3>1, <3>2 DEF Selects
  <2>3. QED
    BY <2>1, <2>2
<1>5. ASSUME NEW n \in 1..Len(list), Good(n - 1) PROVE Good(n)
  <2>1. /\ F[n] = IF n \in places THEN Append(F[n - 1], list[n]) ELSE F[n - 1]
        /\ n - 1 \in Nat /\ (n - 1) + 1 = n
    BY <1>0, <1>3 DEF OnlyStep
  <2>2. CASE n \in places
    BY <1>0, <1>5, <2>1, <2>2, SelectsOneMore
  <2>3. CASE n \notin places
    BY <1>5, <2>1, <2>3, SelectsSkip
  <2>4. QED
    BY <2>2, <2>3
<1> HIDE DEF Good
<1>6. Len(list) \in T
  <2>1. 0 \in T
    BY <1>4
  <2>2. ASSUME NEW n \in T PROVE n + 1 \in T
    <3>1. n + 1 <= Len(list) => n + 1 \in 1..Len(list) /\ (n + 1) - 1 = n /\ n <= Len(list)
      BY <1>0
    <3>2. QED
      BY <1>5, <3>1
  <2> HIDE DEF T
  <2>3. QED
    BY <1>0, <2>1, <2>2, Induction
<1>7. Good(Len(list))
  BY <1>0, <1>6
<1>8. QED
  BY <1>2, <1>7 DEF Good

-----------------------------------------------------------------------------
(* Binary search. *)

\* The probe of an interval that is not empty lies inside it.
LEMMA MiddleInside ==
    ASSUME NEW n \in Nat, NEW b \in Intervals(n), b[1] # b[2]
    PROVE  /\ Middle(b) \in b[1]..(b[2] - 1)
           /\ <<b[1], Middle(b)>> \in Intervals(n)
           /\ <<Middle(b) + 1, b[2]>> \in Intervals(n)
<1>1. b[1] \in Nat /\ b[2] \in Nat /\ b[1] < b[2] /\ b[2] <= n
  BY DEF Intervals
<1>2. Middle(b) \in b[1]..(b[2] - 1)
  BY <1>1 DEF Middle
<1>3. QED
  BY <1>1, <1>2 DEF Intervals

\* The intervals that are not wider than k.
Narrow(n, k) == {b \in Intervals(n) : b[2] - b[1] <= k}

\* One turn of the search, with the rest of it given.
Turn(f, lefts, rights, b) ==
    LET index == Middle(b)
    IN  IF b[1] = b[2] THEN index
        ELSE IF index \in lefts THEN f[<<b[1], index>>]
        ELSE IF index \in rights THEN f[<<index + 1, b[2]>>]
        ELSE index

\* A turn looks at narrower intervals only, and leads to an index or the end if they do.
LEMMA TurnNarrows ==
    ASSUME NEW n \in Nat, NEW lefts, NEW rights, NEW b \in Intervals(n), NEW f, NEW g,
           \A c \in Intervals(n) : c[2] - c[1] < b[2] - b[1] => f[c] = g[c] /\ f[c] \in 0..n
    PROVE  /\ Turn(f, lefts, rights, b) = Turn(g, lefts, rights, b)
           /\ Turn(f, lefts, rights, b) \in 0..n
<1>1. CASE b[1] = b[2]
  BY <1>1 DEF Turn, Middle, Intervals
<1>2. CASE b[1] # b[2]
  <2> DEFINE l == <<b[1], Middle(b)>>
             u == <<Middle(b) + 1, b[2]>>
  <2>0. b[1] \in Nat /\ b[2] \in Nat /\ b[2] <= n
    BY DEF Intervals
  <2>1. Middle(b) \in b[1]..(b[2] - 1)
    BY <1>2, MiddleInside
  <2>2. l \in Intervals(n) /\ u \in Intervals(n)
    BY <1>2, MiddleInside
  <2>3. l[2] - l[1] < b[2] - b[1] /\ u[2] - u[1] < b[2] - b[1]
    BY <2>0, <2>1
  <2>4. /\ f[l] = g[l] /\ f[u] = g[u]
        /\ f[l] \in 0..n /\ f[u] \in 0..n /\ Middle(b) \in 0..n
    BY <2>0, <2>1, <2>2, <2>3
  <2>5. QED
    BY <2>4 DEF Turn
<1>3. QED
  BY <1>1, <1>2

\* The recursion of the search is well founded: its intervals become narrower.
LEMMA SearchExists ==
    ASSUME NEW n \in Nat, NEW lefts, NEW rights
    PROVE  \E f : f = [b \in Intervals(n) |-> Turn(f, lefts, rights, b)]
<1> DEFINE Good(k) == \E f \in [Narrow(n, k) -> 0..n] :
                          \A b \in Narrow(n, k) : f[b] = Turn(f, lefts, rights, b)
           T == {k \in Nat : Good(k)}
<1>1. Good(0)
  <2> DEFINE f == [b \in Narrow(n, 0) |-> b[1]]
  <2>1. \A b \in Narrow(n, 0) : \A g : Turn(g, lefts, rights, b) = b[1] /\ b[1] \in 0..n
    BY DEF Narrow, Intervals, Turn, Middle
  <2>2. f \in [Narrow(n, 0) -> 0..n] /\ \A b \in Narrow(n, 0) : f[b] = b[1]
    BY <2>1
  <2> HIDE DEF f
  <2>3. QED
    BY <2>1, <2>2
<1>2. ASSUME NEW k \in Nat, Good(k) PROVE Good(k + 1)
  <2>1. PICK f \in [Narrow(n, k) -> 0..n] :
            \A b \in Narrow(n, k) : f[b] = Turn(f, lefts, rights, b)
    BY <1>2
  <2> DEFINE g == [b \in Narrow(n, k + 1) |-> Turn(f, lefts, rights, b)]
  <2>2. \A b \in Narrow(n, k) : b \in Narrow(n, k + 1) /\ g[b] = f[b]
    <3>1. \A b \in Narrow(n, k) : b \in Narrow(n, k + 1)
      BY DEF Narrow, Intervals
    <3>2. QED
      BY <2>1, <3>1
  <2>3. ASSUME NEW b \in Narrow(n, k + 1)
        PROVE  g[b] \in 0..n /\ g[b] = Turn(g, lefts, rights, b)
    <3>1. g[b] = Turn(f, lefts, rights, b)
      OBVIOUS
    <3> HIDE DEF g
    <3>2. \A c \in Intervals(n) : c[2] - c[1] < b[2] - b[1] => c \in Narrow(n, k)
      BY DEF Narrow, Intervals
    <3>3. b \in Intervals(n)
      BY DEF Narrow
    <3>4. \A c \in Intervals(n) : c[2] - c[1] < b[2] - b[1] => f[c] = g[c] /\ f[c] \in 0..n
      BY <2>2, <3>2
    <3>5. QED
      BY <3>1, <3>3, <3>4, TurnNarrows
  <2>4. g \in [Narrow(n, k + 1) -> 0..n]
    <3>1. \A b \in Narrow(n, k + 1) : Turn(f, lefts, rights, b) \in 0..n
      BY <2>3
    <3>2. QED
      BY <3>1
  <2> HIDE DEF g
  <2>5. QED
    BY <2>3, <2>4
<1>3. n \in T
  <2> HIDE DEF Good
  <2>1. 0 \in T /\ \A k \in T : k + 1 \in T
    BY <1>1, <1>2
  <2> HIDE DEF T
  <2>2. QED
    BY <2>1, Induction
<1>4. PICK f \in [Narrow(n, n) -> 0..n] :
          \A b \in Narrow(n, n) : f[b] = Turn(f, lefts, rights, b)
  BY <1>3
<1>5. Narrow(n, n) = Intervals(n)
  BY DEF Narrow, Intervals
<1>6. QED
  BY <1>4, <1>5

\* If the elements are in order (nothing above an index of lefts, and nothing below one
\* of rights, is another), the search ends at an index that is in neither set, or
\* between the two sets when there is no such index.
THEOREM BinarySearchFinds ==
    ASSUME NEW n \in Nat, NEW lefts, NEW rights,
           \A i, j \in 0..(n - 1) : i <= j => /\ i \in lefts => j \in lefts
                                              /\ j \in rights => i \in rights
    PROVE  LET k == BinarySearch(n, lefts, rights)
           IN  /\ k \in 0..n
               /\ \/ k < n /\ k \notin lefts \cup rights
                  \/ /\ \A j \in 0..(k - 1) : j \in rights
                     /\ \A j \in k..(n - 1) : j \in lefts
<1> DEFINE f == CHOOSE g : g = [c \in Intervals(n) |-> Turn(g, lefts, rights, c)]
           Within(c) == /\ \A j \in 0..(c[1] - 1) : j \in rights
                        /\ \A j \in c[2]..(n - 1) : j \in lefts
           Found(k) == /\ k \in 0..n
                       /\ (k < n /\ k \notin lefts \cup rights) \/ Within(<<k, k>>)
           T == {k \in Nat : \A c \in Intervals(n) :
                                c[2] - c[1] <= k /\ Within(c) => Found(f[c])}
<1>1. BinarySearch(n, lefts, rights) = f[<<0, n>>]
  BY DEF BinarySearch, Turn
<1>2. \A c \in Intervals(n) : f[c] = Turn(f, lefts, rights, c)
  <2>1. f = [c \in Intervals(n) |-> Turn(f, lefts, rights, c)]
    BY SearchExists
  <2> HIDE DEF f
  <2>2. QED
    BY <2>1
<1> HIDE DEF f
<1>3. ASSUME NEW c \in Intervals(n), Within(c), c[1] = c[2]
      PROVE  Found(f[c])
  <2>1. c[1] \in 0..n /\ Middle(c) = c[1]
    BY <1>3 DEF Intervals, Middle
  <2>2. f[c] = c[1]
    BY <1>2, <1>3, <2>1 DEF Turn
  <2>3. QED
    BY <1>3, <2>1, <2>2
<1>4. ASSUME NEW c \in Intervals(n), Within(c), c[1] # c[2],
             \A d \in Intervals(n) : d[2] - d[1] < c[2] - c[1] /\ Within(d) => Found(f[d])
      PROVE  Found(f[c])
  <2> DEFINE i == Middle(c)
             l == <<c[1], i>>
             u == <<i + 1, c[2]>>
  <2>1. c[1] \in 0..n /\ c[2] \in 0..n /\ i \in c[1]..(c[2] - 1)
    BY <1>4, MiddleInside DEF Intervals
  <2>2. l \in Intervals(n) /\ u \in Intervals(n)
    BY <1>4, MiddleInside
  <2>3. f[c] = IF i \in lefts THEN f[l] ELSE IF i \in rights THEN f[u] ELSE i
    BY <1>2, <1>4 DEF Turn
  <2> HIDE DEF i
  <2>4. l[2] - l[1] < c[2] - c[1] /\ u[2] - u[1] < c[2] - c[1] /\ i \in 0..(n - 1)
    BY <2>1
  <2>5. i \in lefts => Within(l)
    BY <1>4, <2>1, <2>4
  <2>6. i \in rights => Within(u)
    BY <1>4, <2>1, <2>4
  <2> HIDE DEF Within
  <2>7. QED
    BY <1>4, <2>2, <2>3, <2>4, <2>5, <2>6
<1>5. n \in T
  <2>1. \A c \in Intervals(n) : c[2] - c[1] \in Nat /\ (c[2] - c[1] <= 0 => c[1] = c[2])
    BY DEF Intervals
  <2> HIDE DEF Within, Found
  <2>2. 0 \in T
    BY <1>3, <2>1
  <2>3. ASSUME NEW k \in T PROVE k + 1 \in T
    <3> SUFFICES ASSUME NEW c \in Intervals(n), c[2] - c[1] <= k + 1, Within(c)
                 PROVE  Found(f[c])
      OBVIOUS
    <3>1. \A d \in Intervals(n) : d[2] - d[1] < c[2] - c[1] => d[2] - d[1] <= k
      BY <2>1
    <3>2. QED
      BY <1>3, <1>4, <3>1
  <2> HIDE DEF T
  <2>4. QED
    BY <2>2, <2>3, Induction
<1>6. <<0, n>> \in Intervals(n) /\ Within(<<0, n>>) /\ n - 0 <= n
  BY DEF Intervals
<1>7. Found(f[<<0, n>>])
  <2> HIDE DEF Within, Found
  <2>1. QED
    BY <1>5, <1>6
<1>8. QED
  BY <1>1, <1>7
=============================================================================
