------------------------ MODULE ServerProbing_proofs ------------------------
(***************************************************************************)
(* Proofs about ServerProbing, for every network of hosts, every           *)
(* configuration and any number of losses and ends: the lists stay in the  *)
(* order of the last contacts, and a server is dropped only if something   *)
(* went wrong between it and the daemon.  The latter rests on the          *)
(* invariant ProbeIsUnderWay.                                              *)
(***************************************************************************)
EXTENDS ServerProbing, Lists_proofs

-----------------------------------------------------------------------------
(***************************************************************************)
(* The operations on the list of servers.                                  *)
(***************************************************************************)
\* Entries are in the order of their contacts, and of different servers.
Ordered(list) ==
    \A i, j \in 1..Len(list) :
        i < j => list[i].age >= list[j].age /\ list[i].host # list[j].host

\* The list holds only servers that h may have.
Proper(h, list) == \A i \in 1..Len(list) : Accepts(h, list[i].host)

Holds(list, e) == \E i \in 1..Len(list) : list[i] = e

\* What is left of a list: entries of it, in the same order.
LEMMA OnlyEntries ==
    ASSUME NEW list \in Seq(EntryType), NEW places
    PROVE  /\ Only(list, places) \in Seq(EntryType)
           /\ \A i \in 1..Len(Only(list, places)) :
                 \E k \in places \cap (1..Len(list)) : Only(list, places)[i] = list[k]
           /\ \A k \in places \cap (1..Len(list)) : Holds(Only(list, places), list[k])
           /\ Ordered(list) => Ordered(Only(list, places))
<1> DEFINE r == Only(list, places)
<1>1. r \in Seq(EntryType) /\ Selects(r, list, places, Len(list))
  BY OnlySelects
<1> HIDE DEF r
<1>2. PICK f \in [1..Len(r) -> places \cap (1..Len(list))] :
          /\ \A i \in 1..Len(r) : r[i] = list[f[i]]
          /\ \A i, j \in 1..Len(r) : i < j => f[i] < f[j]
          /\ \A k \in places \cap (1..Len(list)) : \E i \in 1..Len(r) : f[i] = k
  BY <1>1 DEF Selects
<1>3. \A i \in 1..Len(r) : \E k \in places \cap (1..Len(list)) : r[i] = list[k]
  BY <1>2
<1>4. \A k \in places \cap (1..Len(list)) : Holds(r, list[k])
  BY <1>2 DEF Holds
<1>5. Ordered(list) => Ordered(r)
  BY <1>2 DEF Ordered
<1>6. QED
  BY <1>1, <1>3, <1>4, <1>5 DEF r

\* Without: the server's entry is gone, the others stay.
LEMMA WithoutFacts ==
    ASSUME NEW list \in Seq(EntryType), NEW g
    PROVE  /\ Without(list, g) \in Seq(EntryType)
           /\ \A i \in 1..Len(Without(list, g)) :
                 Without(list, g)[i].host # g /\ Holds(list, Without(list, g)[i])
           /\ \A k \in 1..Len(list) : list[k].host # g => Holds(Without(list, g), list[k])
           /\ Ordered(list) => Ordered(Without(list, g))
<1> DEFINE places == {i \in 1..Len(list) : list[i].host # g}
           r == Only(list, places)
<1>1. /\ r \in Seq(EntryType)
      /\ \A i \in 1..Len(r) : \E k \in places \cap (1..Len(list)) : r[i] = list[k]
      /\ \A k \in places \cap (1..Len(list)) : Holds(r, list[k])
      /\ Ordered(list) => Ordered(r)
  BY OnlyEntries
<1>2. Without(list, g) = r
  BY DEF Without
<1> HIDE DEF r
<1>3. \A i \in 1..Len(r) : r[i].host # g /\ Holds(list, r[i])
  BY <1>1 DEF Holds
<1>4. \A k \in 1..Len(list) : list[k].host # g => Holds(r, list[k])
  BY <1>1
<1>5. QED
  BY <1>1, <1>2, <1>3, <1>4

\* prb_add: the list stays in order, every server in it stays, and the one that was
\* contacted has not been probed since.
LEMMA PrbAddFacts ==
    ASSUME NEW h \in Hosts, NEW g \in Hosts, NEW list \in Seq(EntryType),
           Ordered(list), Proper(h, list)
    PROVE  /\ PrbAdd(h, list, g) \in Seq(EntryType)
           /\ Ordered(PrbAdd(h, list, g))
           /\ Proper(h, PrbAdd(h, list, g))
           /\ \A i \in 1..Len(PrbAdd(h, list, g)) :
                 \/ ~PrbAdd(h, list, g)[i].probed
                 \/ /\ PrbAdd(h, list, g)[i].host # g
                    /\ Holds(list, PrbAdd(h, list, g)[i])
           /\ HostsIn(list) \subseteq HostsIn(PrbAdd(h, list, g))
<1> DEFINE w == Without(list, g)
           e == [host |-> g, age |-> 0, probed |-> FALSE]
           r == Append(w, e)
<1>1. /\ w \in Seq(EntryType) /\ Len(w) \in Nat
      /\ \A i \in 1..Len(w) : w[i].host # g /\ Holds(list, w[i])
      /\ \A k \in 1..Len(list) : list[k].host # g => Holds(w, list[k])
      /\ Ordered(w)
  BY WithoutFacts, LenProperties
<1>2. CASE ~Accepts(h, g)
  <2>1. PrbAdd(h, list, g) = list
    BY <1>2 DEF PrbAdd
  <2>2. \A i \in 1..Len(list) : list[i].host # g /\ Holds(list, list[i])
    BY <1>2 DEF Proper, Holds
  <2>3. QED
    BY <2>1, <2>2
<1>3. CASE Accepts(h, g)
  <2>1. PrbAdd(h, list, g) = r
    BY <1>3 DEF PrbAdd
  <2>2. e \in EntryType /\ e.host = g /\ e.age = 0 /\ ~e.probed
    BY ProbingAssumption DEF EntryType
  <2> HIDE DEF w, e
  <2>3. /\ r \in Seq(EntryType) /\ Len(r) = Len(w) + 1
        /\ \A i \in 1..Len(w) : r[i] = w[i]
        /\ r[Len(w) + 1] = e
    BY <1>1, <2>2, AppendProperties
  <2> HIDE DEF r
  <2>4. \A i \in 1..Len(r) : (i \in 1..Len(w) /\ r[i] = w[i]) \/ (i = Len(w) + 1 /\ r[i] = e)
    BY <1>1, <2>3
  <2>5. \A i \in 1..Len(w) : w[i].age >= 0
    <3> TAKE i \in 1..Len(w)
    <3>1. w[i] \in EntryType
      BY <1>1, ElementOfSeq
    <3>2. QED
      BY <3>1, ProbingAssumption DEF EntryType
  <2>6. Ordered(r)
    <3> SUFFICES ASSUME NEW i \in 1..Len(r), NEW j \in 1..Len(r), i < j
                 PROVE  r[i].age >= r[j].age /\ r[i].host # r[j].host
      BY DEF Ordered
    <3>1. i \in 1..Len(w) /\ r[i] = w[i]
      BY <1>1, <2>3, <2>4
    <3>2. CASE j \in 1..Len(w) /\ r[j] = w[j]
      BY <1>1, <3>1, <3>2 DEF Ordered
    <3>3. CASE r[j] = e
      BY <1>1, <2>2, <2>5, <3>1, <3>3
    <3>4. QED
      BY <2>4, <3>2, <3>3
  <2>7. Proper(h, r)
    <3>1. \A i \in 1..Len(w) : Accepts(h, w[i].host)
      BY <1>1 DEF Proper, Holds
    <3>2. QED
      BY <1>3, <2>2, <2>4, <3>1 DEF Proper
  <2>8. \A i \in 1..Len(r) : ~r[i].probed \/ (r[i].host # g /\ Holds(list, r[i]))
    BY <1>1, <2>2, <2>4
  <2>9. HostsIn(list) \subseteq HostsIn(r)
    <3> SUFFICES ASSUME NEW k \in 1..Len(list)
                 PROVE  \E i \in 1..Len(r) : r[i].host = list[k].host
      BY DEF HostsIn
    <3>1. CASE list[k].host = g
      <4>1. Len(w) + 1 \in 1..Len(r)
        BY <1>1, <2>3
      <4>2. QED
        BY <2>2, <2>3, <3>1, <4>1
    <3>2. CASE list[k].host # g
      <4>1. PICK i \in 1..Len(w) : w[i] = list[k]
        BY <1>1, <3>2 DEF Holds
      <4>2. i \in 1..Len(r) /\ r[i] = list[k]
        BY <1>1, <2>3, <4>1
      <4>3. QED
        BY <4>2
    <3>3. QED
      BY <3>1, <3>2
  <2>10. QED
    BY <2>1, <2>3, <2>6, <2>7, <2>8, <2>9
<1>4. QED
  BY <1>2, <1>3

\* prb_tim: what is dropped was probed and is old; the rest keeps its order.
LEMMA PrbTimFacts ==
    ASSUME NEW h \in Hosts, NEW list \in Seq(EntryType)
    PROVE  /\ PrbTim(h, list) \in Seq(EntryType)
           /\ Ordered(list) => Ordered(PrbTim(h, list))
           /\ \A i \in 1..Len(PrbTim(h, list)) : Holds(list, PrbTim(h, list)[i])
           /\ \A k \in 1..Len(list) : list[k].probed \/ Holds(PrbTim(h, list), list[k])
<1>1. CASE h \in NoProbe
  <2>1. PrbTim(h, list) = list
    BY <1>1 DEF PrbTim
  <2>2. QED
    BY <2>1 DEF Holds
<1>2. CASE h \notin NoProbe
  <2> DEFINE places == {i \in 1..Len(list) : ~(list[i].age > Expiry /\ list[i].probed)}
             r == Only(list, places)
  <2>1. /\ r \in Seq(EntryType)
        /\ \A i \in 1..Len(r) : \E k \in places \cap (1..Len(list)) : r[i] = list[k]
        /\ \A k \in places \cap (1..Len(list)) : Holds(r, list[k])
        /\ Ordered(list) => Ordered(r)
    BY OnlyEntries
  <2>2. PrbTim(h, list) = r
    BY <1>2 DEF PrbTim
  <2> HIDE DEF r
  <2>3. \A i \in 1..Len(r) : Holds(list, r[i])
    BY <2>1 DEF Holds
  <2>4. \A k \in 1..Len(list) : list[k].probed \/ Holds(r, list[k])
    BY <2>1
  <2>5. QED
    BY <2>1, <2>2, <2>3, <2>4
<1>3. QED
  BY <1>1, <1>2

\* last_probe is set: nothing else changes.
LEMMA ProbedFacts ==
    ASSUME NEW list \in Seq(EntryType)
    PROVE  /\ Probed(list) \in Seq(EntryType) /\ Len(Probed(list)) = Len(list)
           /\ \A i \in 1..Len(list) : /\ Probed(list)[i].host = list[i].host
                                      /\ Probed(list)[i].age = list[i].age
<1> DEFINE e(i) == [list[i] EXCEPT !.probed = @ \/ list[i].age > 0]
           r == Probed(list)
<1>0. Len(list) \in Nat /\ \A i \in 1..Len(list) : list[i] \in EntryType
  BY ElementOfSeq
<1>1. ASSUME NEW i \in 1..Len(list)
      PROVE  e(i) \in EntryType /\ e(i).host = list[i].host /\ e(i).age = list[i].age
  <2>1. list[i] \in EntryType
    BY <1>0
  <2>2. (list[i].probed \/ list[i].age > 0) \in BOOLEAN
    OBVIOUS
  <2>3. QED
    BY <2>1, <2>2 DEF EntryType
<1>2. r = [i \in 1..Len(list) |-> e(i)]
  BY DEF Probed
<1> HIDE DEF e, r
<1>3. r \in Seq(EntryType) /\ Len(r) = Len(list)
  BY <1>0, <1>1, <1>2
<1>4. \A i \in 1..Len(list) : r[i].host = list[i].host /\ r[i].age = list[i].age
  BY <1>1, <1>2
<1>5. QED
  BY <1>3, <1>4 DEF r

-----------------------------------------------------------------------------
(***************************************************************************)
(* Types.                                                                  *)
(***************************************************************************)
MessageType == [type : {"PROBE", "PREPLY"}, to : SUBSET Hosts]

\* The messages of init_probe.
LEMMA ProbesFacts ==
    ASSUME NEW h \in Hosts
    PROVE  /\ Probes(h) \in Seq(MessageType)
           /\ \A i \in 1..Len(Probes(h)) : Probes(h)[i].type = "PROBE"
<1>1. CASE Config[h] # <<>>
  <2> DEFINE places == {i \in 1..Len(Config[h]) : Config[h][i] # h}
             others == Only(Config[h], places)
  <2>1. others \in Seq(Hosts)
    BY OnlySelects, ProbingAssumption
  <2>2. Probes(h) = [i \in 1..Len(others) |-> Message("PROBE", {others[i]})]
    BY <1>1 DEF Probes
  <2> HIDE DEF others
  <2>3. Len(others) \in Nat /\ \A i \in 1..Len(others) : others[i] \in Hosts
    BY <2>1, ElementOfSeq
  <2>4. \A i \in 1..Len(others) : /\ Message("PROBE", {others[i]}) \in MessageType
                                  /\ Message("PROBE", {others[i]}).type = "PROBE"
    BY <2>3 DEF Message, MessageType
  <2>5. QED
    BY <2>2, <2>3, <2>4
<1>2. CASE Config[h] = <<>>
  <2>1. Probes(h) = [i \in 1..Len(Nets[h]) |-> Message("PROBE", Nets[h][i] \ {h})]
    BY <1>2 DEF Probes
  <2>2. Len(Nets[h]) \in Nat /\ \A i \in 1..Len(Nets[h]) : Nets[h][i] \in SUBSET Hosts
    BY ProbingAssumption, ElementOfSeq
  <2>3. \A i \in 1..Len(Nets[h]) :
            /\ Message("PROBE", Nets[h][i] \ {h}) \in MessageType
            /\ Message("PROBE", Nets[h][i] \ {h}).type = "PROBE"
    BY <2>2 DEF Message, MessageType
  <2>4. QED
    BY <2>1, <2>2, <2>3
<1>3. QED
  BY <1>1, <1>2

LEMMA InitTypes == Init => TypeOK /\ ListInOrder /\ ProbeIsUnderWay
<1> SUFFICES ASSUME Init PROVE TypeOK /\ ListInOrder /\ ProbeIsUnderWay
  OBVIOUS
<1>1. \A h \in Hosts : prb[h] = <<>> /\ Len(prb[h]) = 0
  BY DEF Init
<1>2. TypeOK
  BY ProbingAssumption DEF Init, TypeOK, EntryType
<1>3. ListInOrder /\ ProbeIsUnderWay
  BY <1>1 DEF ListInOrder, ProbeIsUnderWay
<1>4. QED
  BY <1>2, <1>3

\* The list of a daemon that probes.
NewList(h, list) == IF h \in NoProbe THEN list ELSE Probed(list)

LEMMA InitProbeFacts ==
    ASSUME TypeOK, NEW h \in Hosts, NEW list \in Seq(EntryType), InitProbe(h, list)
    PROVE  /\ prb' = [prb EXCEPT ![h] = NewList(h, list)]
           /\ NewList(h, list) \in Seq(EntryType)
           /\ Len(NewList(h, list)) = Len(list)
           /\ \A i \in 1..Len(list) : /\ NewList(h, list)[i].host = list[i].host
                                      /\ NewList(h, list)[i].age = list[i].age
           /\ queue' = IF h \in NoProbe THEN queue
                       ELSE [queue EXCEPT ![h] = @ \o Probes(h)]
           /\ queue' \in [Hosts -> Seq(MessageType)]
           /\ lastProbe' \in [Hosts -> 0..Interval]
<1>1. CASE h \in NoProbe
  BY <1>1 DEF InitProbe, NewList, TypeOK, MessageType
<1>2. CASE h \notin NoProbe
  <2>1. Probed(list) \in Seq(EntryType)
    BY ProbedFacts
  <2>2. /\ Len(Probed(list)) = Len(list)
        /\ \A i \in 1..Len(list) : /\ Probed(list)[i].host = list[i].host
                                   /\ Probed(list)[i].age = list[i].age
    BY ProbedFacts
  <2>3. /\ prb' = [prb EXCEPT ![h] = Probed(list)]
        /\ queue' = [queue EXCEPT ![h] = @ \o Probes(h)]
        /\ lastProbe' = [lastProbe EXCEPT ![h] = 0]
    BY <1>2 DEF InitProbe
  <2>4. queue[h] \o Probes(h) \in Seq(MessageType)
    <3>1. queue[h] \in Seq(MessageType) /\ Probes(h) \in Seq(MessageType)
      BY ProbesFacts DEF TypeOK, MessageType
    <3>2. QED
      BY <3>1, ConcatProperties
  <2>5. queue' \in [Hosts -> Seq(MessageType)]
    BY <2>3, <2>4 DEF TypeOK, MessageType
  <2>6. lastProbe' \in [Hosts -> 0..Interval]
    BY <2>3, ProbingAssumption DEF TypeOK
  <2>7. QED
    BY <1>2, <2>1, <2>2, <2>3, <2>5, <2>6 DEF NewList
<1>3. QED
  BY <1>1, <1>2

\* Both messages enter the sender in the list.
LEMMA ContactFacts ==
    ASSUME TypeOK, ListInOrder, NEW h \in Hosts, NEW g \in Hosts, Contact(h, g)
    PROVE  /\ PrbAdd(h, prb[h], g) \in Seq(EntryType)
           /\ Ordered(PrbAdd(h, prb[h], g)) /\ Proper(h, PrbAdd(h, prb[h], g))
           /\ prb' = [prb EXCEPT ![h] = PrbAdd(h, @, g)]
           /\ prb' \in [Hosts -> Seq(EntryType)]
           /\ lapsed' = [lapsed EXCEPT ![h] = @ \ {g}]
           /\ lapsed' \in [Hosts -> SUBSET Hosts]
<1>1. /\ prb[h] \in Seq(EntryType) /\ Ordered(prb[h]) /\ Proper(h, prb[h])
      /\ lapsed[h] \in SUBSET Hosts
  BY DEF TypeOK, ListInOrder, Ordered, Proper
<1>2. PrbAdd(h, prb[h], g) \in Seq(EntryType)
  BY <1>1, PrbAddFacts
<1>3. Ordered(PrbAdd(h, prb[h], g)) /\ Proper(h, PrbAdd(h, prb[h], g))
  BY <1>1, PrbAddFacts
<1>4. QED
  BY <1>1, <1>2, <1>3 DEF Contact, TypeOK

\* The list after the clock has advanced.
Aged(list) == [i \in 1..Len(list) |-> [list[i] EXCEPT !.age = Older(@, Expiry + 1)]]

LEMMA AgedFacts ==
    ASSUME NEW list \in Seq(EntryType)
    PROVE  /\ Aged(list) \in Seq(EntryType) /\ Len(Aged(list)) = Len(list)
           /\ \A i \in 1..Len(list) :
                 /\ Aged(list)[i].host = list[i].host
                 /\ Aged(list)[i].probed = list[i].probed
                 /\ Aged(list)[i].age = Older(list[i].age, Expiry + 1)
<1> DEFINE e(i) == [list[i] EXCEPT !.age = Older(@, Expiry + 1)]
           r == Aged(list)
<1>0. Len(list) \in Nat /\ \A i \in 1..Len(list) : list[i] \in EntryType
  BY ElementOfSeq
<1>1. ASSUME NEW i \in 1..Len(list)
      PROVE  /\ e(i) \in EntryType /\ e(i).host = list[i].host
             /\ e(i).probed = list[i].probed /\ e(i).age = Older(list[i].age, Expiry + 1)
  <2>1. list[i] \in EntryType
    BY <1>0
  <2>2. Older(list[i].age, Expiry + 1) \in 0..(Expiry + 1)
    BY <2>1, ProbingAssumption DEF Older, EntryType
  <2>3. QED
    BY <2>1, <2>2 DEF EntryType
<1>2. r = [i \in 1..Len(list) |-> e(i)]
  BY DEF Aged
<1> HIDE DEF e, r
<1>3. r \in Seq(EntryType) /\ Len(r) = Len(list)
  BY <1>0, <1>1, <1>2
<1>4. \A i \in 1..Len(list) : /\ r[i].host = list[i].host /\ r[i].probed = list[i].probed
                              /\ r[i].age = Older(list[i].age, Expiry + 1)
  BY <1>1, <1>2
<1>5. QED
  BY <1>3, <1>4 DEF r

LEMMA StepTypes == TypeOK /\ ListInOrder /\ [Next]_vars => TypeOK'
<1> USE DEF MessageType
<1> SUFFICES ASSUME TypeOK, ListInOrder, [Next]_vars PROVE TypeOK'
  OBVIOUS
<1>1. ASSUME NEW h \in Hosts, Start(h) PROVE TypeOK'
  <2>1. <<>> \in Seq(EntryType) /\ InitProbe(h, <<>>)
    BY <1>1 DEF Start
  <2>2. /\ prb' = [prb EXCEPT ![h] = NewList(h, <<>>)]
        /\ NewList(h, <<>>) \in Seq(EntryType)
        /\ queue' \in [Hosts -> Seq(MessageType)]
        /\ lastProbe' \in [Hosts -> 0..Interval]
    BY <2>1, InitProbeFacts
  <2>3. QED
    BY <1>1, <2>2 DEF Start, TypeOK
<1>2. ASSUME NEW h \in Hosts, Idle(h) PROVE TypeOK'
  <2> DEFINE left == PrbTim(h, prb[h])
  <2>1. left \in Seq(EntryType)
    BY PrbTimFacts DEF TypeOK
  <2> HIDE DEF left
  <2>2. CASE InitProbe(h, left)
    <3>1. /\ prb' = [prb EXCEPT ![h] = NewList(h, left)]
          /\ NewList(h, left) \in Seq(EntryType)
          /\ queue' \in [Hosts -> Seq(MessageType)]
          /\ lastProbe' \in [Hosts -> 0..Interval]
      BY <2>1, <2>2, InitProbeFacts
    <3>2. QED
      BY <1>2, <3>1 DEF Idle, TypeOK
  <2>3. CASE prb' = [prb EXCEPT ![h] = left] /\ UNCHANGED <<queue, lastProbe>>
    BY <1>2, <2>1, <2>3 DEF Idle, TypeOK
  <2>4. QED
    BY <1>2, <2>2, <2>3 DEF Idle, left
<1>3. ASSUME NEW h \in Hosts, Send(h) PROVE TypeOK'
  <2>1. /\ queue[h] \in Seq(MessageType) /\ queue[h] # <<>>
        /\ Head(queue[h]) \in MessageType /\ Tail(queue[h]) \in Seq(MessageType)
    BY <1>3, HeadTailProperties DEF Send, TypeOK
  <2>2. net' \subseteq Packets
    BY <1>3, <2>1 DEF Send, TypeOK, Packets
  <2>3. queue' \in [Hosts -> Seq(MessageType)]
    BY <1>3, <2>1 DEF Send, TypeOK
  <2>4. QED
    BY <1>3, <2>2, <2>3 DEF Send, TypeOK
<1>4. ASSUME NEW h \in Hosts, Crash(h) PROVE TypeOK'
  <2>1. /\ prb' \in [Hosts -> Seq(EntryType)] /\ queue' \in [Hosts -> Seq(MessageType)]
        /\ crashes' \in 0..MaxCrashes /\ up' \subseteq Hosts
    BY <1>4, ProbingAssumption DEF Crash, TypeOK
  <2>2. lapsed' \in [Hosts -> SUBSET Hosts]
    BY <1>4 DEF Crash, TypeOK
  <2>3. QED
    BY <1>4, <2>1, <2>2 DEF Crash, TypeOK
<1>5. ASSUME NEW p \in net, Receive(p) PROVE TypeOK'
  <2>1. p.to \in Hosts /\ p.from \in Hosts /\ Contact(p.to, p.from)
    BY <1>5 DEF Receive, ReceiveProbe, ReceiveReply, TypeOK, Packets
  <2>2. prb' \in [Hosts -> Seq(EntryType)] /\ lapsed' \in [Hosts -> SUBSET Hosts]
    BY <2>1, ContactFacts
  <2>3. Append(queue[p.to], Message("PREPLY", {p.from})) \in Seq(MessageType)
    <3>1. Message("PREPLY", {p.from}) \in MessageType
      BY <2>1 DEF Message
    <3>2. queue[p.to] \in Seq(MessageType)
      BY <2>1 DEF TypeOK
    <3>3. QED
      BY <3>1, <3>2, AppendProperties
  <2>4. queue' \in [Hosts -> Seq(MessageType)]
    BY <1>5, <2>1, <2>3 DEF Receive, ReceiveProbe, ReceiveReply, TypeOK
  <2>5. /\ net' \subseteq Packets /\ UNCHANGED <<up, lastProbe, crashes>>
    BY <1>5 DEF Receive, ReceiveProbe, ReceiveReply, TypeOK
  <2>6. QED
    BY <2>2, <2>4, <2>5 DEF TypeOK
<1>6. ASSUME NEW p \in net, Lose(p) PROVE TypeOK'
  <2>1. p.to \in Hosts /\ p.from \in Hosts
    BY DEF TypeOK, Packets
  <2>2. lapsed' \in [Hosts -> SUBSET Hosts]
    BY <1>6, <2>1 DEF Lose, TypeOK
  <2>3. QED
    BY <1>6, <2>2 DEF Lose, TypeOK
<1>7. ASSUME Tick PROVE TypeOK'
  <2>1. prb' = [h \in Hosts |-> Aged(prb[h])]
    BY <1>7 DEF Tick, Aged
  <2>2. \A h \in Hosts : Aged(prb[h]) \in Seq(EntryType)
    BY AgedFacts DEF TypeOK
  <2>3. prb' \in [Hosts -> Seq(EntryType)]
    BY <2>1, <2>2
  <2>4. lastProbe' \in [Hosts -> 0..Interval]
    BY <1>7, ProbingAssumption DEF Tick, TypeOK, Older
  <2>5. QED
    BY <1>7, <2>3, <2>4 DEF Tick, TypeOK
<1>8. ASSUME UNCHANGED vars PROVE TypeOK'
  BY <1>8 DEF vars, TypeOK
<1>9. QED
  BY <1>1, <1>2, <1>3, <1>4, <1>5, <1>6, <1>7, <1>8 DEF Next

-----------------------------------------------------------------------------
(***************************************************************************)
(* The order of the lists.                                                 *)
(***************************************************************************)
InOrder(h, list) == Ordered(list) /\ Proper(h, list)

LEMMA OrderOfLists == ListInOrder <=> \A h \in Hosts : InOrder(h, prb[h])
BY DEF ListInOrder, InOrder, Ordered, Proper

\* Lists that differ in the ages and flags of their entries only.
LEMMA SameOrder ==
    ASSUME NEW h, NEW list, NEW r, InOrder(h, list), Len(r) = Len(list),
           \A i \in 1..Len(list) : r[i].host = list[i].host,
           \A i, j \in 1..Len(list) : list[i].age >= list[j].age => r[i].age >= r[j].age
    PROVE  InOrder(h, r)
BY DEF InOrder, Ordered, Proper

LEMMA StepOrder == TypeOK /\ ListInOrder /\ [Next]_vars => ListInOrder'
<1> SUFFICES ASSUME TypeOK, ListInOrder, [Next]_vars
             PROVE  \A g \in Hosts : InOrder(g, prb'[g])
  BY DEF ListInOrder, InOrder, Ordered, Proper
<1>0. /\ \A g \in Hosts : InOrder(g, prb[g])
      /\ prb \in [Hosts -> Seq(EntryType)]
  BY OrderOfLists DEF TypeOK
<1>1. \A g \in Hosts : InOrder(g, <<>>)
  BY DEF InOrder, Ordered, Proper
<1>2. ASSUME NEW h \in Hosts, NEW list, InOrder(h, list), prb' = [prb EXCEPT ![h] = list]
      PROVE  \A g \in Hosts : InOrder(g, prb'[g])
  BY <1>0, <1>2
<1>3. ASSUME NEW h \in Hosts, NEW list \in Seq(EntryType), InOrder(h, list),
             InitProbe(h, list)
      PROVE  \A g \in Hosts : InOrder(g, prb'[g])
  <2>1. /\ prb' = [prb EXCEPT ![h] = NewList(h, list)]
        /\ Len(NewList(h, list)) = Len(list)
        /\ \A i \in 1..Len(list) : /\ NewList(h, list)[i].host = list[i].host
                                   /\ NewList(h, list)[i].age = list[i].age
    BY <1>3, InitProbeFacts
  <2>2. InOrder(h, NewList(h, list))
    BY <1>3, <2>1, SameOrder
  <2>3. QED
    BY <1>2, <2>1, <2>2
<1>4. ASSUME NEW h \in Hosts, Start(h) PROVE \A g \in Hosts : InOrder(g, prb'[g])
  <2>1. <<>> \in Seq(EntryType) /\ InitProbe(h, <<>>)
    BY <1>4 DEF Start
  <2>2. QED
    BY <1>1, <1>3, <2>1
<1>5. ASSUME NEW h \in Hosts, Idle(h) PROVE \A g \in Hosts : InOrder(g, prb'[g])
  <2> DEFINE left == PrbTim(h, prb[h])
  <2>1. left \in Seq(EntryType) /\ Ordered(left) /\ Proper(h, left)
    <3>1. prb[h] \in Seq(EntryType) /\ Ordered(prb[h]) /\ Proper(h, prb[h])
      BY <1>0 DEF InOrder
    <3>2. left \in Seq(EntryType) /\ Ordered(left)
      BY <3>1, PrbTimFacts
    <3>3. \A i \in 1..Len(left) : Holds(prb[h], left[i])
      BY <3>1, PrbTimFacts
    <3> HIDE DEF left
    <3>4. Proper(h, left)
      BY <3>1, <3>3 DEF Proper, Holds
    <3>5. QED
      BY <3>2, <3>4
  <2> HIDE DEF left
  <2>2. InOrder(h, left)
    BY <2>1 DEF InOrder
  <2>3. InitProbe(h, left) \/ prb' = [prb EXCEPT ![h] = left]
    BY <1>5 DEF Idle, left
  <2>4. QED
    BY <1>2, <1>3, <2>1, <2>2, <2>3
<1>6. ASSUME NEW p \in net, Receive(p) PROVE \A g \in Hosts : InOrder(g, prb'[g])
  <2>1. p.to \in Hosts /\ p.from \in Hosts /\ Contact(p.to, p.from)
    BY <1>6 DEF Receive, ReceiveProbe, ReceiveReply, TypeOK, Packets
  <2>2. /\ Ordered(PrbAdd(p.to, prb[p.to], p.from))
        /\ Proper(p.to, PrbAdd(p.to, prb[p.to], p.from))
        /\ prb' = [prb EXCEPT ![p.to] = PrbAdd(p.to, @, p.from)]
    BY <2>1, ContactFacts
  <2>3. InOrder(p.to, PrbAdd(p.to, prb[p.to], p.from))
    BY <2>2 DEF InOrder
  <2>4. QED
    BY <1>2, <2>1, <2>2, <2>3
<1>7. ASSUME Tick PROVE \A g \in Hosts : InOrder(g, prb'[g])
  <2> SUFFICES ASSUME NEW g \in Hosts PROVE InOrder(g, prb'[g])
    OBVIOUS
  <2> DEFINE list == prb[g]
  <2>1. prb'[g] = Aged(list)
    BY <1>7 DEF Tick, Aged
  <2>2. list \in Seq(EntryType) /\ InOrder(g, list)
    BY <1>0
  <2> HIDE DEF list
  <2>3. /\ Len(Aged(list)) = Len(list)
        /\ \A i \in 1..Len(list) :
              /\ Aged(list)[i].host = list[i].host
              /\ Aged(list)[i].age = Older(list[i].age, Expiry + 1)
    BY <2>2, AgedFacts
  <2>4. \A i \in 1..Len(list) : list[i].age \in Nat
    <3> TAKE i \in 1..Len(list)
    <3>1. list[i] \in EntryType
      BY <2>2, ElementOfSeq
    <3>2. QED
      BY <3>1, ProbingAssumption DEF EntryType
  <2>5. \A i, j \in 1..Len(list) :
            list[i].age >= list[j].age => Aged(list)[i].age >= Aged(list)[j].age
    BY <2>3, <2>4, ProbingAssumption DEF Older
  <2>6. InOrder(g, Aged(list))
    BY <2>2, <2>3, <2>5, SameOrder
  <2>7. QED
    BY <2>1, <2>6
<1>8. ASSUME NEW h \in Hosts, Crash(h) PROVE \A g \in Hosts : InOrder(g, prb'[g])
  BY <1>1, <1>2, <1>8 DEF Crash
<1>9. ASSUME UNCHANGED prb PROVE \A g \in Hosts : InOrder(g, prb'[g])
  BY <1>0, <1>9
<1>10. QED
  BY <1>4, <1>5, <1>6, <1>7, <1>8, <1>9 DEF Next, Send, Lose, vars

-----------------------------------------------------------------------------
(***************************************************************************)
(* The probes and replies under way.                                       *)
(***************************************************************************)
\* ProbeIsUnderWay, of one daemon.
Owes(h) ==
    \A g \in Targets(h) : \A i \in 1..Len(prb[h]) :
        prb[h][i].probed /\ prb[h][i].host = g => g \in lapsed[h] \/ UnderWay(h, g)

LEMMA HostsOfEntries ==
    ASSUME NEW list \in Seq(EntryType)
    PROVE  \A i \in 1..Len(list) : list[i] \in EntryType /\ list[i].host \in Hosts
<1> TAKE i \in 1..Len(list)
<1>1. list[i] \in EntryType
  BY ElementOfSeq
<1>2. QED
  BY <1>1 DEF EntryType

LEMMA OwedByAll == ProbeIsUnderWay <=> \A h \in Hosts : Owes(h)
BY DEF ProbeIsUnderWay, Owes

\* The messages that h has yet to send stay in its queue.
QueueStays(h) == \A i \in 1..Len(queue[h]) : \E j \in 1..Len(queue'[h]) : queue'[h][j] = queue[h][i]

\* What is under way stays so if it is left in the queues and in the network.
LEMMA UnderWayStays ==
    ASSUME NEW h, NEW g, UnderWay(h, g), QueueStays(h), QueueStays(g),
           \A p \in Exchange(h, g) : p \in net => p \in net'
    PROVE  UnderWay(h, g)'
BY DEF UnderWay, QueueStays, Exchange

\* A daemon whose probed entries are old ones, with what is lost and under way kept.
LEMMA OwesStill ==
    ASSUME NEW h, Owes(h),
           \A g \in Targets(h) : \A i \in 1..Len(prb'[h]) :
               prb'[h][i].probed /\ prb'[h][i].host = g =>
                   /\ \E k \in 1..Len(prb[h]) : prb[h][k].probed /\ prb[h][k].host = g
                   /\ g \in lapsed[h] => g \in lapsed'[h]
                   /\ UnderWay(h, g) => g \in lapsed'[h] \/ UnderWay(h, g)'
    PROVE  Owes(h)'
BY DEF Owes

\* A queue that is only extended.
LEMMA Extended ==
    ASSUME NEW S, NEW s \in Seq(S), NEW t \in Seq(S)
    PROVE  /\ \A i \in 1..Len(s) : i \in 1..Len(s \o t) /\ (s \o t)[i] = s[i]
           /\ \A i \in 1..Len(t) :
                 Len(s) + i \in 1..Len(s \o t) /\ (s \o t)[Len(s) + i] = t[i]
<1>1. Len(s) \in Nat /\ Len(t) \in Nat /\ Len(s \o t) = Len(s) + Len(t)
  BY LenProperties
<1>2. \A i \in 1..Len(s) : (s \o t)[i] = s[i]
  BY <1>1, ConcatProperties
<1>3. \A i \in 1..Len(t) : (s \o t)[Len(s) + i] = t[i]
  BY <1>1, ConcatProperties
<1>4. QED
  BY <1>1, <1>2, <1>3

\* A daemon that probes has probes under way to all its targets.
LEMMA ProbesUnderWay ==
    ASSUME TypeOK, NEW h \in Hosts, NEW list \in Seq(EntryType), InitProbe(h, list)
    PROVE  /\ \A k \in Hosts : QueueStays(k)
           /\ \A g \in Targets(h) : UnderWay(h, g)'
<1>1. /\ queue[h] \in Seq(MessageType) /\ queue \in [Hosts -> Seq(MessageType)]
      /\ Probes(h) \in Seq(MessageType)
      /\ \A i \in 1..Len(Probes(h)) : Probes(h)[i].type = "PROBE"
  BY ProbesFacts DEF TypeOK, MessageType
<1>2. CASE h \in NoProbe
  BY <1>2 DEF InitProbe, QueueStays, Targets
<1>3. CASE h \notin NoProbe
  <2>1. queue' = [queue EXCEPT ![h] = @ \o Probes(h)]
    BY <1>3 DEF InitProbe
  <2>2. /\ \A i \in 1..Len(queue[h]) : /\ i \in 1..Len(queue[h] \o Probes(h))
                                       /\ (queue[h] \o Probes(h))[i] = queue[h][i]
        /\ \A i \in 1..Len(Probes(h)) :
              /\ Len(queue[h]) + i \in 1..Len(queue[h] \o Probes(h))
              /\ (queue[h] \o Probes(h))[Len(queue[h]) + i] = Probes(h)[i]
    BY <1>1, Extended
  <2> DEFINE q == queue[h] \o Probes(h)
  <2>3. queue'[h] = q /\ \A k \in Hosts \ {h} : queue'[k] = queue[k]
    BY <1>1, <2>1
  <2> HIDE DEF q
  <2>4. QueueStays(h)
    BY <2>2, <2>3 DEF QueueStays, q
  <2>5. \A k \in Hosts \ {h} : QueueStays(k)
    BY <2>3 DEF QueueStays
  <2>6. ASSUME NEW g \in Targets(h) PROVE UnderWay(h, g)'
    <3>1. PICK i \in 1..Len(Probes(h)) : g \in Probes(h)[i].to
      BY <2>6 DEF Targets
    <3>2. /\ Len(queue[h]) + i \in 1..Len(queue'[h])
          /\ queue'[h][Len(queue[h]) + i] = Probes(h)[i]
      BY <2>2, <2>3 DEF q
    <3>3. QED
      BY <1>1, <3>1, <3>2 DEF UnderWay
  <2>7. QED
    BY <2>4, <2>5, <2>6
<1>4. QED
  BY <1>2, <1>3

LEMMA StartOwes ==
    ASSUME TypeOK, ListInOrder, ProbeIsUnderWay, NEW x \in Hosts, Start(x), NEW h \in Hosts
    PROVE  Owes(h)'
<1>1. <<>> \in Seq(EntryType) /\ InitProbe(x, <<>>) /\ UNCHANGED <<net, lapsed>>
  BY DEF Start
<1>2. /\ prb' = [prb EXCEPT ![x] = NewList(x, <<>>)]
      /\ Len(NewList(x, <<>>)) = 0
  BY <1>1, InitProbeFacts
<1>3. CASE h = x
  BY <1>2, <1>3 DEF Owes, TypeOK
<1>4. CASE h # x
  <2>1. prb'[h] = prb[h]
    BY <1>2, <1>4 DEF TypeOK
  <2>2. \A k \in Hosts : QueueStays(k)
    BY <1>1, ProbesUnderWay
  <2>3. \A i \in 1..Len(prb[h]) : prb[h][i].host \in Hosts
    BY HostsOfEntries DEF TypeOK
  <2>4. \A g \in Hosts : UnderWay(h, g) => UnderWay(h, g)'
    BY <1>1, <2>2, UnderWayStays
  <2>5. Owes(h)
    BY OwedByAll
  <2>6. QED
    BY <1>1, <2>1, <2>3, <2>4, <2>5, OwesStill
<1>5. QED
  BY <1>3, <1>4

LEMMA IdleOwes ==
    ASSUME TypeOK, ListInOrder, ProbeIsUnderWay, NEW x \in Hosts, Idle(x), NEW h \in Hosts
    PROVE  Owes(h)'
<1> DEFINE left == PrbTim(x, prb[x])
<1>1. /\ left \in Seq(EntryType)
      /\ \A i \in 1..Len(left) : Holds(prb[x], left[i])
  BY PrbTimFacts DEF TypeOK
<1> HIDE DEF left
<1>2. /\ lapsed' = [lapsed EXCEPT ![x] = @ \cap HostsIn(left)] /\ net' = net
      /\ \/ InitProbe(x, left)
         \/ prb' = [prb EXCEPT ![x] = left] /\ UNCHANGED queue
  BY DEF Idle, left
<1>3. Owes(h)
  BY OwedByAll
<1>4. \A k \in Hosts : QueueStays(k)
  <2>1. CASE InitProbe(x, left)
    BY <1>1, <2>1, ProbesUnderWay
  <2>2. CASE UNCHANGED queue
    BY <2>2 DEF QueueStays
  <2>3. QED
    BY <1>2, <2>1, <2>2
<1>5. \A g \in Hosts : UnderWay(h, g) => UnderWay(h, g)'
  BY <1>2, <1>4, UnderWayStays
<1>6. CASE h # x
  <2>1. prb'[h] = prb[h] /\ lapsed'[h] = lapsed[h]
    <3>1. CASE InitProbe(x, left)
      <4>1. prb' = [prb EXCEPT ![x] = NewList(x, left)]
        BY <1>1, <3>1, InitProbeFacts
      <4>2. QED
        BY <1>2, <1>6, <4>1 DEF TypeOK
    <3>2. CASE prb' = [prb EXCEPT ![x] = left]
      BY <1>2, <1>6, <3>2 DEF TypeOK
    <3>3. QED
      BY <1>2, <3>1, <3>2
  <2>2. \A i \in 1..Len(prb[h]) : prb[h][i].host \in Hosts
    BY HostsOfEntries DEF TypeOK
  <2>3. QED
    BY <1>3, <1>5, <2>1, <2>2, OwesStill
<1>7. CASE h = x /\ InitProbe(x, left) /\ x \notin NoProbe
  <2>1. \A g \in Targets(x) : UnderWay(x, g)'
    BY <1>1, <1>7, ProbesUnderWay
  <2>2. QED
    BY <1>7, <2>1 DEF Owes
<1>8. CASE h = x /\ prb' = [prb EXCEPT ![x] = left]
  <2>1. prb'[x] = left /\ lapsed'[x] = lapsed[x] \cap HostsIn(left)
    BY <1>2, <1>8 DEF TypeOK
  <2>2. \A i \in 1..Len(left) : left[i].host \in HostsIn(left) /\ left[i].host \in Hosts
    BY <1>1, HostsOfEntries DEF HostsIn
  <2>3. \A i \in 1..Len(prb'[h]) :
            prb'[h][i].probed =>
                \E k \in 1..Len(prb[h]) : prb[h][k].probed /\ prb[h][k].host = prb'[h][i].host
    BY <1>1, <1>8, <2>1 DEF Holds
  <2>4. QED
    BY <1>3, <1>5, <1>8, <2>1, <2>2, <2>3, OwesStill
<1>9. CASE x \in NoProbe /\ InitProbe(x, left)
  BY <1>6, <1>8, <1>9 DEF InitProbe
<1>10. QED
  BY <1>2, <1>6, <1>7, <1>8, <1>9

LEMMA SendOwes ==
    ASSUME TypeOK, ListInOrder, ProbeIsUnderWay, NEW x \in Hosts, Send(x), NEW h \in Hosts
    PROVE  Owes(h)'
<1> DEFINE m == Head(queue[x])
<1>1. /\ queue[x] \in Seq(MessageType) /\ queue[x] # <<>> /\ Len(queue[x]) \in Nat
      /\ m = queue[x][1] /\ Len(Tail(queue[x])) = Len(queue[x]) - 1
      /\ \A i \in 1..(Len(queue[x]) - 1) : Tail(queue[x])[i] = queue[x][i + 1]
  BY HeadTailProperties, LenProperties DEF Send, TypeOK, MessageType
<1>2. /\ net' = net \cup {[type |-> m.type, from |-> x, to |-> g] : g \in m.to}
      /\ queue' = [queue EXCEPT ![x] = Tail(@)]
      /\ UNCHANGED <<prb, lapsed>>
  BY DEF Send
<1> HIDE DEF m
<1>3. ASSUME NEW k \in Hosts, NEW i \in 1..Len(queue[k])
      PROVE  \/ \E j \in 1..Len(queue'[k]) : queue'[k][j] = queue[k][i]
             \/ k = x /\ queue[k][i] = m
  <2>1. CASE k # x
    BY <1>2, <2>1 DEF TypeOK
  <2>2. CASE k = x /\ i = 1
    BY <1>1, <2>2
  <2>3. CASE k = x /\ i # 1
    <3>1. i - 1 \in 1..(Len(queue[x]) - 1) /\ (i - 1) + 1 = i
      BY <1>1, <2>3
    <3>2. queue'[x] = Tail(queue[x])
      BY <1>2 DEF TypeOK
    <3>3. i - 1 \in 1..Len(queue'[x]) /\ queue'[x][i - 1] = queue[x][i]
      BY <1>1, <3>1, <3>2
    <3>4. QED
      BY <2>3, <3>3
  <2>4. QED
    BY <2>1, <2>2, <2>3
<1>4. ASSUME NEW g \in Hosts, UnderWay(h, g) PROVE UnderWay(h, g)'
  <2>1. CASE \E i \in 1..Len(queue[h]) : queue[h][i].type = "PROBE" /\ g \in queue[h][i].to
    <3>1. PICK i \in 1..Len(queue[h]) : queue[h][i].type = "PROBE" /\ g \in queue[h][i].to
      BY <2>1
    <3>2. CASE h = x /\ queue[h][i] = m
      <4>1. [type |-> "PROBE", from |-> h, to |-> g] \in net'
        BY <1>2, <3>1, <3>2
      <4>2. QED
        BY <4>1 DEF UnderWay
    <3>3. CASE \E j \in 1..Len(queue'[h]) : queue'[h][j] = queue[h][i]
      BY <3>1, <3>3 DEF UnderWay
    <3>4. QED
      BY <1>3, <3>2, <3>3
  <2>2. CASE \E i \in 1..Len(queue[g]) : queue[g][i].type = "PREPLY" /\ h \in queue[g][i].to
    <3>1. PICK i \in 1..Len(queue[g]) : queue[g][i].type = "PREPLY" /\ h \in queue[g][i].to
      BY <2>2
    <3>2. CASE g = x /\ queue[g][i] = m
      <4>1. [type |-> "PREPLY", from |-> g, to |-> h] \in net'
        BY <1>2, <3>1, <3>2
      <4>2. QED
        BY <4>1 DEF UnderWay
    <3>3. CASE \E j \in 1..Len(queue'[g]) : queue'[g][j] = queue[g][i]
      BY <3>1, <3>3 DEF UnderWay
    <3>4. QED
      BY <1>3, <3>2, <3>3
  <2>3. CASE \E p \in Exchange(h, g) : p \in net
    BY <1>2, <2>3 DEF UnderWay, Exchange
  <2>4. QED
    BY <1>4, <2>1, <2>2, <2>3 DEF UnderWay, Exchange
<1>5. /\ Owes(h) /\ prb'[h] = prb[h] /\ lapsed'[h] = lapsed[h]
      /\ \A i \in 1..Len(prb[h]) : prb[h][i].host \in Hosts
  BY <1>2, OwedByAll, HostsOfEntries DEF TypeOK
<1>6. QED
  BY <1>4, <1>5, OwesStill

\* The receiver has a new entry of the sender, which was not probed since; the sender of
\* a probe has its reply under way.
LEMMA ReceiveOwes ==
    ASSUME TypeOK, ListInOrder, ProbeIsUnderWay, NEW p \in net, Receive(p), NEW h \in Hosts
    PROVE  Owes(h)'
<1> DEFINE x == p.to
           y == p.from
           r == PrbAdd(x, prb[x], y)
           q == Append(queue[x], Message("PREPLY", {y}))
<1>1. /\ x \in Hosts /\ y \in Hosts /\ p \in Packets /\ net' = net \ {p}
      /\ \/ p.type = "PROBE" /\ queue' = [queue EXCEPT ![x] = q]
         \/ p.type = "PREPLY" /\ queue' = queue
  BY DEF Receive, ReceiveProbe, ReceiveReply, TypeOK, Packets
<1>2. Contact(x, y)
  BY DEF Receive, ReceiveProbe, ReceiveReply
<1>3. /\ prb' = [prb EXCEPT ![x] = r] /\ lapsed' = [lapsed EXCEPT ![x] = @ \ {y}]
      /\ prb \in [Hosts -> Seq(EntryType)] /\ lapsed \in [Hosts -> SUBSET Hosts]
  BY <1>2 DEF Contact, TypeOK
<1>4. \A i \in 1..Len(r) : ~r[i].probed \/ (r[i].host # y /\ Holds(prb[x], r[i]))
  <2>1. prb[x] \in Seq(EntryType) /\ Ordered(prb[x]) /\ Proper(x, prb[x])
    BY <1>1, OrderOfLists DEF TypeOK, InOrder
  <2>2. QED
    BY <1>1, <2>1, PrbAddFacts
<1>5. /\ queue[x] \in Seq(MessageType) /\ Len(queue[x]) \in Nat
      /\ Len(q) = Len(queue[x]) + 1 /\ q[Len(queue[x]) + 1] = Message("PREPLY", {y})
      /\ \A i \in 1..Len(queue[x]) : q[i] = queue[x][i]
  <2>1. queue[x] \in Seq(MessageType)
    BY <1>1 DEF TypeOK, MessageType
  <2>2. Message("PREPLY", {y}) \in MessageType
    BY <1>1 DEF Message, MessageType
  <2>3. QED
    BY <2>1, <2>2, AppendProperties, LenProperties
<1>6. p = [type |-> p.type, from |-> y, to |-> x]
  BY <1>1 DEF Packets
<1> HIDE DEF r, q, x, y
<1>7. \A k \in Hosts : QueueStays(k)
  <2>1. \A k \in Hosts : queue'[k] = queue[k] \/ (k = x /\ queue'[k] = q)
    BY <1>1 DEF TypeOK
  <2>2. \A i \in 1..Len(queue[x]) : i \in 1..Len(q) /\ q[i] = queue[x][i]
    BY <1>5
  <2>3. QED
    BY <2>1, <2>2 DEF QueueStays
<1>8. ASSUME NEW g \in Hosts, UnderWay(h, g), ~(h = x /\ g = y)
      PROVE  UnderWay(h, g)'
  <2>1. CASE p.type = "PROBE" /\ h = y /\ g = x
    <3>1. queue'[x] = q /\ Len(queue[x]) + 1 \in 1..Len(q)
      BY <1>1, <1>5, <2>1 DEF TypeOK
    <3>2. Message("PREPLY", {y}).type = "PREPLY" /\ y \in Message("PREPLY", {y}).to
      BY DEF Message
    <3>3. QED
      BY <1>5, <2>1, <3>1, <3>2 DEF UnderWay
  <2>2. CASE ~(p.type = "PROBE" /\ h = y /\ g = x)
    <3>1. \A d \in Exchange(h, g) : d # p
      BY <1>1, <1>6, <1>8, <2>2 DEF Exchange
    <3>2. QED
      BY <1>1, <1>7, <1>8, <3>1, UnderWayStays
  <2>3. QED
    BY <2>1, <2>2
<1>9. Owes(h)
  BY OwedByAll
<1>10. CASE h = x
  <2>1. prb'[h] = r /\ lapsed'[h] = lapsed[h] \ {y}
    BY <1>1, <1>3, <1>10
  <2>2. \A i \in 1..Len(r) : r[i].probed =>
            r[i].host # y /\ \E k \in 1..Len(prb[h]) : prb[h][k] = r[i]
    BY <1>4, <1>10 DEF Holds
  <2>3. \A k \in 1..Len(prb[h]) : prb[h][k].host \in Hosts
    BY <1>3, HostsOfEntries
  <2>4. ASSUME NEW g \in Targets(h), NEW i \in 1..Len(prb'[h]),
               prb'[h][i].probed, prb'[h][i].host = g
        PROVE  /\ \E k \in 1..Len(prb[h]) : prb[h][k].probed /\ prb[h][k].host = g
               /\ g \in lapsed[h] => g \in lapsed'[h]
               /\ UnderWay(h, g) => g \in lapsed'[h] \/ UnderWay(h, g)'
    <3>1. g # y /\ \E k \in 1..Len(prb[h]) : prb[h][k].probed /\ prb[h][k].host = g
      BY <2>1, <2>2, <2>4
    <3>2. g \in Hosts
      BY <2>3, <3>1
    <3>3. QED
      BY <1>8, <2>1, <3>1, <3>2
  <2>5. QED
    BY <1>9, <2>4, OwesStill
<1>11. CASE h # x
  <2>1. prb'[h] = prb[h] /\ lapsed'[h] = lapsed[h]
    BY <1>1, <1>3, <1>11
  <2>2. \A k \in 1..Len(prb[h]) : prb[h][k].host \in Hosts
    BY <1>3, HostsOfEntries
  <2>3. QED
    BY <1>8, <1>9, <1>11, <2>1, <2>2, OwesStill
<1>12. QED
  BY <1>10, <1>11

\* What is lost is noted by the daemon that waits for it.
LEMMA LoseOwes ==
    ASSUME TypeOK, ListInOrder, ProbeIsUnderWay, NEW p \in net, Lose(p), NEW h \in Hosts
    PROVE  Owes(h)'
<1> DEFINE x == p.to
           y == p.from
           Noted(k, g) == lapsed[k] \cup ({g} \cap Targets(k) \cap Listed(k))
<1>1. /\ x \in Hosts /\ y \in Hosts /\ p \in Packets
      /\ p = [type |-> p.type, from |-> y, to |-> x]
  BY DEF TypeOK, Packets
<1>2. /\ net' = net \ {p} /\ UNCHANGED <<prb, queue>>
      /\ lapsed' = [lapsed EXCEPT ![y] = Noted(y, x), ![x] = Noted(x, y)]
      /\ lapsed \in [Hosts -> SUBSET Hosts]
  BY DEF Lose, TypeOK
<1>3. \A k \in Hosts : lapsed[k] \subseteq lapsed'[k]
  BY <1>1, <1>2
<1>4. x # y => Noted(y, x) = lapsed'[y]
  BY <1>1, <1>2
<1>5. Noted(x, y) = lapsed'[x]
  BY <1>1, <1>2
<1> HIDE DEF Noted, x, y
<1>6. ASSUME NEW g \in Targets(h), g \in Hosts, NEW i \in 1..Len(prb[h]), prb[h][i].host = g,
             UnderWay(h, g)
      PROVE  g \in lapsed'[h] \/ UnderWay(h, g)'
  <2>1. g \in Listed(h)
    BY <1>6 DEF Listed, HostsIn
  <2>2. CASE p \in Exchange(h, g)
    <3>1. (h = y /\ g = x) \/ (h = x /\ g = y)
      BY <1>1, <2>2 DEF Exchange
    <3>2. g \in Noted(h, g)
      BY <1>6, <2>1 DEF Noted
    <3>3. Noted(h, g) = lapsed'[h]
      BY <1>4, <1>5, <3>1
    <3>4. QED
      BY <3>2, <3>3
  <2>3. CASE p \notin Exchange(h, g)
    <3>1. QueueStays(h) /\ QueueStays(g)
      BY <1>2 DEF QueueStays
    <3>2. QED
      BY <1>2, <1>6, <2>3, <3>1, UnderWayStays
  <2>4. QED
    BY <2>2, <2>3
<1>7. Owes(h) /\ \A k \in 1..Len(prb[h]) : prb[h][k].host \in Hosts
  BY OwedByAll, HostsOfEntries DEF TypeOK
<1>8. prb'[h] = prb[h]
  BY <1>2
<1>9. QED
  BY <1>3, <1>6, <1>7, <1>8, OwesStill

LEMMA CrashOwes ==
    ASSUME TypeOK, ListInOrder, ProbeIsUnderWay, NEW x \in Hosts, Crash(x), NEW h \in Hosts
    PROVE  Owes(h)'
<1>1. /\ prb' = [prb EXCEPT ![x] = <<>>] /\ queue' = [queue EXCEPT ![x] = <<>>]
      /\ net' = net /\ prb \in [Hosts -> Seq(EntryType)]
      /\ queue \in [Hosts -> Seq(MessageType)]
  BY DEF Crash, TypeOK, MessageType
<1>2. h # x => lapsed'[h] = lapsed[h] \cup ({x} \cap Targets(h) \cap Listed(h))
  BY DEF Crash
<1>3. CASE h = x
  <2>1. prb'[h] = <<>> /\ Len(<<>>) = 0
    BY <1>1, <1>3
  <2>2. QED
    BY <2>1 DEF Owes
<1>4. CASE h # x
  <2>1. /\ prb'[h] = prb[h] /\ Owes(h) /\ lapsed[h] \subseteq lapsed'[h]
        /\ \A k \in 1..Len(prb[h]) : prb[h][k].host \in Hosts
    BY <1>1, <1>2, <1>4, OwedByAll, HostsOfEntries
  <2>2. ASSUME NEW g \in Targets(h), g \in Hosts, NEW i \in 1..Len(prb[h]),
               prb[h][i].host = g, UnderWay(h, g)
        PROVE  g \in lapsed'[h] \/ UnderWay(h, g)'
    <3>1. CASE g = x
      BY <1>2, <1>4, <2>2, <3>1 DEF Listed, HostsIn
    <3>2. CASE g # x
      <4>1. QueueStays(h) /\ QueueStays(g)
        BY <1>1, <1>4, <2>2, <3>2 DEF QueueStays
      <4>2. QED
        BY <1>1, <2>2, <4>1, UnderWayStays
    <3>3. QED
      BY <3>1, <3>2
  <2>3. QED
    BY <2>1, <2>2, OwesStill
<1>5. QED
  BY <1>3, <1>4

LEMMA TickOwes ==
    ASSUME TypeOK, ListInOrder, ProbeIsUnderWay, Tick, NEW h \in Hosts
    PROVE  Owes(h)'
<1>1. /\ prb'[h] = Aged(prb[h]) /\ prb[h] \in Seq(EntryType)
      /\ UNCHANGED <<queue, net, lapsed>>
  BY DEF Tick, Aged, TypeOK
<1>2. /\ Len(prb'[h]) = Len(prb[h])
      /\ \A i \in 1..Len(prb[h]) : /\ prb'[h][i].host = prb[h][i].host
                                   /\ prb'[h][i].probed = prb[h][i].probed
  BY <1>1, AgedFacts
<1>3. Owes(h)
  BY OwedByAll
<1>4. \A g : UnderWay(h, g) => UnderWay(h, g)'
  BY <1>1 DEF UnderWay
<1>5. QED
  BY <1>1, <1>2, <1>3, <1>4, OwesStill

LEMMA StepOwes == TypeOK /\ ListInOrder /\ ProbeIsUnderWay /\ [Next]_vars => ProbeIsUnderWay'
<1> SUFFICES ASSUME TypeOK, ListInOrder, ProbeIsUnderWay, [Next]_vars
             PROVE  \A h \in Hosts : Owes(h)'
  BY DEF ProbeIsUnderWay, Owes
<1> TAKE h \in Hosts
<1>1. CASE UNCHANGED vars
  BY <1>1, OwedByAll DEF Owes, UnderWay, vars
<1>2. CASE Next
  BY <1>2, StartOwes, IdleOwes, SendOwes, ReceiveOwes, LoseOwes, CrashOwes, TickOwes DEF Next
<1>3. QED
  BY <1>1, <1>2

-----------------------------------------------------------------------------
(***************************************************************************)
(* The theorems.                                                           *)
(***************************************************************************)
Inv == TypeOK /\ ListInOrder /\ ProbeIsUnderWay

LEMMA Invariance == Spec => []Inv
<1>1. Init => Inv
  BY InitTypes DEF Inv
<1>2. Inv /\ [Next]_vars => Inv'
  BY StepTypes, StepOrder, StepOwes DEF Inv
<1>3. QED
  BY <1>1, <1>2, PTL DEF Spec

\* Variables keep their types: lists, queues and ages, on every host.
THEOREM TypeCorrect == Spec => []TypeOK
<1>1. Inv => TypeOK
  BY DEF Inv
<1>2. QED
  BY <1>1, Invariance, PTL

\* A list has each server once, only servers that it may have, and in the order of their
\* last contacts (prb_add, prb_tim): whatever arrives, is dropped or is found again.
THEOREM ListsStayInOrder == Spec => []ListInOrder
<1>1. Inv => ListInOrder
  BY DEF Inv
<1>2. QED
  BY <1>1, Invariance, PTL

\* A server that was probed after its last contact has yet to get the probe or its reply
\* has yet to arrive, unless something between the two was lost.
THEOREM ProbesAreUnderWay == Spec => []ProbeIsUnderWay
<1>1. Inv => ProbeIsUnderWay
  BY DEF Inv
<1>2. QED
  BY <1>1, Invariance, PTL

\* A step by which a server disappears from a list is the prb_tim() of an idle daemon,
\* and drops an entry that was probed.
LEMMA DroppedWasProbed ==
    ASSUME TypeOK, ListInOrder, [Next]_vars, NEW h \in up \cap up', NEW g,
           g \in Listed(h), g \notin HostsIn(prb'[h])
    PROVE  \E i \in 1..Len(prb[h]) : prb[h][i].probed /\ prb[h][i].host = g
<1>0. /\ h \in Hosts /\ prb[h] \in Seq(EntryType) /\ InOrder(h, prb[h])
      /\ prb \in [Hosts -> Seq(EntryType)]
  BY OrderOfLists DEF TypeOK
<1>1. PICK k \in 1..Len(prb[h]) : prb[h][k].host = g
  BY DEF Listed, HostsIn
<1>2. ASSUME NEW x \in Hosts, Start(x) PROVE FALSE
  <2>1. x # h /\ <<>> \in Seq(EntryType) /\ InitProbe(x, <<>>)
    BY <1>2 DEF Start
  <2>2. prb' = [prb EXCEPT ![x] = NewList(x, <<>>)]
    BY <2>1, InitProbeFacts
  <2>3. QED
    BY <1>0, <2>1, <2>2 DEF Listed
<1>3. ASSUME NEW x \in Hosts, Idle(x) PROVE prb[h][k].probed
  <2> DEFINE left == PrbTim(x, prb[x])
  <2>1. left \in Seq(EntryType) /\ \A i \in 1..Len(prb[x]) : prb[x][i].probed \/ Holds(left, prb[x][i])
    BY PrbTimFacts DEF TypeOK
  <2> HIDE DEF left
  <2>2. prb' = [prb EXCEPT ![x] = NewList(x, left)] \/ prb' = [prb EXCEPT ![x] = left]
    BY <1>3, <2>1, InitProbeFacts DEF Idle, left
  <2>3. /\ Len(NewList(x, left)) = Len(left)
        /\ \A i \in 1..Len(left) : NewList(x, left)[i].host = left[i].host
    BY <2>1, ProbedFacts DEF NewList
  <2>4. h = x
    BY <1>0, <2>2 DEF Listed
  <2>5. HostsIn(prb'[h]) = HostsIn(left)
    BY <1>0, <2>2, <2>3, <2>4 DEF HostsIn
  <2>6. QED
    BY <1>1, <2>1, <2>4, <2>5 DEF Holds, HostsIn
<1>4. ASSUME NEW p \in net, Receive(p) PROVE FALSE
  <2>1. p.to \in Hosts /\ p.from \in Hosts /\ Contact(p.to, p.from)
    BY <1>4 DEF Receive, ReceiveProbe, ReceiveReply, TypeOK, Packets
  <2>2. prb' = [prb EXCEPT ![p.to] = PrbAdd(p.to, @, p.from)]
    BY <2>1 DEF Contact
  <2>3. h = p.to
    BY <1>0, <2>1, <2>2 DEF Listed
  <2>4. HostsIn(prb[h]) \subseteq HostsIn(PrbAdd(h, prb[h], p.from))
    BY <1>0, <2>1, PrbAddFacts DEF InOrder
  <2>5. QED
    BY <1>0, <2>2, <2>3, <2>4 DEF Listed
<1>5. ASSUME Tick PROVE FALSE
  <2>1. prb'[h] = Aged(prb[h])
    BY <1>0, <1>5 DEF Tick, Aged
  <2>2. HostsIn(prb'[h]) = HostsIn(prb[h])
    BY <1>0, <2>1, AgedFacts DEF HostsIn
  <2>3. QED
    BY <2>2 DEF Listed
<1>6. ASSUME NEW x \in Hosts, Crash(x) PROVE FALSE
  <2>1. x # h /\ prb' = [prb EXCEPT ![x] = <<>>]
    BY <1>6 DEF Crash
  <2>2. QED
    BY <1>0, <2>1 DEF Listed
<1>7. ASSUME UNCHANGED prb PROVE FALSE
  BY <1>7 DEF Listed
<1>8. QED
  BY <1>1, <1>2, <1>3, <1>4, <1>5, <1>6, <1>7 DEF Next, Send, Lose, vars

\* prb_tim() never drops a server that runs because of the daemon's own doing: something
\* between them was lost since the last contact, or an answer is still under way.
THEOREM DropsAreExcused == Spec => NoFalseDrop
<1>1. Inv /\ [Next]_vars =>
          \A h \in up \cap up' : \A g \in Targets(h) :
              g \in Listed(h) /\ g \notin Listed(h)' => g \in lapsed[h] \/ UnderWay(h, g)
  <2> SUFFICES ASSUME Inv, [Next]_vars, NEW h \in up \cap up', NEW g \in Targets(h),
                      g \in Listed(h), g \notin Listed(h)'
               PROVE  g \in lapsed[h] \/ UnderWay(h, g)
    OBVIOUS
  <2>1. g \notin HostsIn(prb'[h])
    BY DEF Listed, HostsIn
  <2>2. \E i \in 1..Len(prb[h]) : prb[h][i].probed /\ prb[h][i].host = g
    BY <2>1, DroppedWasProbed DEF Inv
  <2>3. Owes(h)
    BY OwedByAll DEF Inv, TypeOK
  <2>4. QED
    BY <2>2, <2>3 DEF Owes
<1>2. QED
  BY <1>1, Invariance, PTL DEF Spec, NoFalseDrop
=============================================================================
