--------------------------- MODULE ServerProbing ---------------------------
(***************************************************************************)
(* How the gdomap daemons of a network find each other (Tools/gdomap.c).   *)
(* A daemon sends probes when it starts and, from time to time, when it    *)
(* has been idle; a daemon that gets a probe enters the sender in its list *)
(* and replies, and the reply enters the other in the sender's list.  A    *)
(* server that has been silent for too long although it was probed is      *)
(* dropped.  Datagrams are delayed, reordered and lost, and daemons end    *)
(* and are started again.                                                  *)
(*                                                                         *)
(* Each host has one address.  The clock advances in Tick by an unknown    *)
(* time; an age counts the advances since a moment.                        *)
(***************************************************************************)
EXTENDS Integers, Sequences, Lists

CONSTANTS
    Hosts,
    Nets,      \* the networks each host is on, a sequence of sets of hosts
    Config,    \* the hosts in each daemon's plist, in order; empty if it has none
    NoProbe,   \* the hosts whose daemon is started with the option not to probe
    Interval,  \* the age of the last probe at which a daemon probes again
    Expiry,    \* the age of the last contact that a silent server outlives
    MaxCrashes \* bound: ends of daemons

ASSUME ProbingAssumption ==
    /\ Nets \in [Hosts -> Seq(SUBSET Hosts)]
    /\ Config \in [Hosts -> Seq(Hosts)]
    /\ NoProbe \subseteq Hosts
    /\ {Interval, Expiry, MaxCrashes} \subseteq Nat

VARIABLES
    up,        \* the hosts whose daemon runs
    prb,       \* the list of servers of each daemon
    lastProbe, \* the age of last_probe
    queue,     \* u_queue
    net,       \* the datagrams under way
    crashes,   \* counter for the bound
    lapsed     \* history: the servers in its list with which something was lost since
               \* the last contact

vars == <<up, prb, lastProbe, queue, net, crashes, lapsed>>

\* is_local_net() or is_probe_host(), of another host
Accepts(h, g) ==
    /\ g # h
    /\ \/ \E i \in 1..Len(Nets[h]) : g \in Nets[h][i]
       \/ \E i \in 1..Len(Config[h]) : Config[h][i] = g

-----------------------------------------------------------------------------
(***************************************************************************)
(* The list of servers.                                                    *)
(***************************************************************************)
Without(list, g) == Only(list, {i \in 1..Len(list) : list[i].host # g})

\* A mutant: a server that is there keeps its place.
PrbAdd_InPlace(h, list, g) ==
    IF \E i \in 1..Len(list) : list[i].host = g
    THEN [i \in 1..Len(list) |->
             IF list[i].host = g THEN [host |-> g, age |-> 0, probed |-> FALSE] ELSE list[i]]
    ELSE IF Accepts(h, g) THEN Append(list, [host |-> g, age |-> 0, probed |-> FALSE]) ELSE list

\* prb_add(): the server moves to the end of the list, whatever its place was.
PrbAdd(h, list, g) ==
    IF Accepts(h, g)
    THEN Append(Without(list, g), [host |-> g, age |-> 0, probed |-> FALSE])
    ELSE list

\* A mutant: it does not matter whether the server was probed.
PrbTim_Unprobed(h, list) ==
    IF h \in NoProbe THEN list ELSE Only(list, {i \in 1..Len(list) : list[i].age <= Expiry})

\* prb_tim()
PrbTim(h, list) ==
    IF h \in NoProbe THEN list
    ELSE Only(list, {i \in 1..Len(list) : ~(list[i].age > Expiry /\ list[i].probed)})

\* A mutant: last_probe is not set.
Probed_Never(list) == list

\* last_probe becomes later than the contacts that are not of this very moment.
Probed(list) == [i \in 1..Len(list) |->
                    [list[i] EXCEPT !.probed = @ \/ list[i].age > 0]]

-----------------------------------------------------------------------------
(***************************************************************************)
(* The daemon.                                                             *)
(***************************************************************************)
Message(type, to) == [type |-> type, to |-> to]

\* The messages of init_probe(): one to each other host of the plist, or a broadcast
\* on each network.
Probes(h) ==
    IF Config[h] # <<>>
    THEN LET others == Only(Config[h], {i \in 1..Len(Config[h]) : Config[h][i] # h})
         IN  [i \in 1..Len(others) |-> Message("PROBE", {others[i]})]
    ELSE [i \in 1..Len(Nets[h]) |-> Message("PROBE", Nets[h][i] \ {h})]

HostsIn(list) == {list[i].host : i \in 1..Len(list)}

Listed(h) == HostsIn(prb[h])

\* The hosts that a daemon probes.
Targets(h) ==
    IF h \in NoProbe THEN {}
    ELSE UNION {Probes(h)[i].to : i \in 1..Len(Probes(h))}

\* init_probe(), when the list is as given
InitProbe(h, list) ==
    IF h \in NoProbe
    THEN /\ prb' = [prb EXCEPT ![h] = list]
         /\ UNCHANGED <<queue, lastProbe>>
    ELSE /\ prb' = [prb EXCEPT ![h] = Probed(list)]
         /\ queue' = [queue EXCEPT ![h] = @ \o Probes(h)]
         /\ lastProbe' = [lastProbe EXCEPT ![h] = 0]

Init ==
    /\ up = {}
    /\ prb = [h \in Hosts |-> <<>>]
    /\ lastProbe = [h \in Hosts |-> Interval]
    /\ queue = [h \in Hosts |-> <<>>]
    /\ net = {}
    /\ crashes = 0
    /\ lapsed = [h \in Hosts |-> {}]

\* The end of main(): the daemon probes and begins to wait for events.
Start(h) ==
    /\ h \notin up
    /\ up' = up \cup {h}
    /\ InitProbe(h, <<>>)
    /\ UNCHANGED <<net, crashes, lapsed>>

\* A mutant: only a daemon that starts probes.
Due_Never(h) == FALSE

\* handle_io() when nothing has happened for 10 seconds.  Nothing is left to be sent
\* then (udp_pending = 0), since the socket can be written to before.
Due(h) == lastProbe[h] >= Interval

Idle(h) ==
    /\ h \in up
    /\ queue[h] = <<>>
    /\ LET left == PrbTim(h, prb[h])
       IN  /\ \/ Due(h) /\ InitProbe(h, left)
              \/ /\ ~Due(h)
                 /\ prb' = [prb EXCEPT ![h] = left]
                 /\ UNCHANGED <<queue, lastProbe>>
           /\ lapsed' = [lapsed EXCEPT ![h] = @ \cap HostsIn(left)]
    /\ UNCHANGED <<up, net, crashes>>

\* handle_send()
Send(h) ==
    /\ queue[h] # <<>>
    /\ LET m == Head(queue[h])
       IN  net' = net \cup {[type |-> m.type, from |-> h, to |-> g] : g \in m.to}
    /\ queue' = [queue EXCEPT ![h] = Tail(@)]
    /\ UNCHANGED <<up, prb, lastProbe, crashes, lapsed>>

\* handle_recv() and handle_request(): both messages enter the sender, and a probe
\* is answered.
Contact(h, g) ==
    /\ prb' = [prb EXCEPT ![h] = PrbAdd(h, @, g)]
    /\ lapsed' = [lapsed EXCEPT ![h] = @ \ {g}]

ReceiveProbe(p) ==
    /\ p.type = "PROBE"
    /\ p.to \in up
    /\ net' = net \ {p}
    /\ Contact(p.to, p.from)
    /\ queue' = [queue EXCEPT ![p.to] = Append(@, Message("PREPLY", {p.from}))]
    /\ UNCHANGED <<up, lastProbe, crashes>>

ReceiveReply(p) ==
    /\ p.type = "PREPLY"
    /\ p.to \in up
    /\ net' = net \ {p}
    /\ Contact(p.to, p.from)
    /\ UNCHANGED <<up, lastProbe, queue, crashes>>

-----------------------------------------------------------------------------
(***************************************************************************)
(* The clock, the network and the ends of daemons.                         *)
(***************************************************************************)
Older(age, cap) == IF age < cap THEN age + 1 ELSE cap

\* The socket takes a datagram at once: the clock waits for the queues.  An age that
\* nothing distinguishes from a later one stays as it is.
Tick ==
    /\ \A h \in Hosts : queue[h] = <<>>
    /\ prb' = [h \in Hosts |-> [i \in 1..Len(prb[h]) |->
                  [prb[h][i] EXCEPT !.age = Older(@, Expiry + 1)]]]
    /\ lastProbe' = [h \in Hosts |-> Older(lastProbe[h], Interval)]
    /\ UNCHANGED <<up, queue, net, crashes, lapsed>>

\* A datagram is lost on the way, or because nobody receives it.
Lose(p) ==
    /\ net' = net \ {p}
    /\ LET Noted(h, g) == lapsed[h] \cup ({g} \cap Targets(h) \cap Listed(h))
       IN  lapsed' = [lapsed EXCEPT ![p.from] = Noted(p.from, p.to),
                                    ![p.to] = Noted(p.to, p.from)]
    /\ UNCHANGED <<up, prb, lastProbe, queue, crashes>>

\* A daemon ends, and what it knew and had not sent is gone.
Crash(h) ==
    /\ h \in up
    /\ crashes < MaxCrashes
    /\ up' = up \ {h}
    /\ prb' = [prb EXCEPT ![h] = <<>>]
    /\ queue' = [queue EXCEPT ![h] = <<>>]
    /\ lapsed' = [g \in Hosts |->
                     IF g = h THEN {} ELSE lapsed[g] \cup ({h} \cap Targets(g) \cap Listed(g))]
    /\ crashes' = crashes + 1
    /\ UNCHANGED <<lastProbe, net>>

Receive(p) == ReceiveProbe(p) \/ ReceiveReply(p)

Next ==
    \/ \E h \in Hosts : Start(h) \/ Idle(h) \/ Send(h) \/ Crash(h)
    \/ \E p \in net : Receive(p) \/ Lose(p)
    \/ Tick

Spec == Init /\ [][Next]_vars

Packets == [type : {"PROBE", "PREPLY"}, from : Hosts, to : Hosts]

\* The probe of a server and its reply.
Exchange(h, g) ==
    {[type |-> "PROBE", from |-> h, to |-> g], [type |-> "PREPLY", from |-> g, to |-> h]}

\* The clock goes on, and a message in the queue is sent; a datagram that is sent again
\* and again arrives at last; a daemon to whom a probe is due again and again is idle
\* for 10 seconds at last.
FairSpec ==
    /\ Spec
    /\ WF_vars(Tick)
    /\ \A h \in Hosts : WF_vars(Send(h))
    /\ \A h \in Hosts \ NoProbe : SF_vars(Due(h) /\ Idle(h))
    /\ \A h \in Hosts : \A g \in Targets(h) :
           \A p \in Exchange(h, g) : SF_vars(p \in net /\ Receive(p))

-----------------------------------------------------------------------------
EntryType == [host : Hosts, age : 0..Expiry + 1, probed : BOOLEAN]

TypeOK ==
    /\ up \subseteq Hosts
    /\ prb \in [Hosts -> Seq(EntryType)]
    /\ lastProbe \in [Hosts -> 0..Interval]
    /\ queue \in [Hosts -> Seq([type : {"PROBE", "PREPLY"}, to : SUBSET Hosts])]
    /\ net \subseteq Packets
    /\ crashes \in 0..MaxCrashes
    /\ lapsed \in [Hosts -> SUBSET Hosts]

\* The list has each server once, only servers it may have, and in the order of
\* their last contacts: GDO_SERVERS relies on that to put live hosts before dead ones.
ListInOrder ==
    \A h \in Hosts : \A i, j \in 1..Len(prb[h]) :
        /\ Accepts(h, prb[h][i].host)
        /\ i < j => prb[h][i].age >= prb[h][j].age /\ prb[h][i].host # prb[h][j].host

\* The probe or the reply of a server is waiting to be sent or is under way.
UnderWay(h, g) ==
    \/ \E i \in 1..Len(queue[h]) : queue[h][i].type = "PROBE" /\ g \in queue[h][i].to
    \/ [type |-> "PROBE", from |-> h, to |-> g] \in net
    \/ \E i \in 1..Len(queue[g]) : queue[g][i].type = "PREPLY" /\ h \in queue[g][i].to
    \/ [type |-> "PREPLY", from |-> g, to |-> h] \in net

\* As long as nothing between them is lost, a server that was probed after the last
\* contact has yet to get the probe, or its reply has yet to arrive.
ProbeIsUnderWay ==
    \A h \in Hosts : \A i \in 1..Len(prb[h]) :
        LET e == prb[h][i]
        IN  e.probed /\ e.host \in Targets(h) => e.host \in lapsed[h] \/ UnderWay(h, e.host)

\* A daemon drops a server only if that has ended, if something between them was lost
\* since the last contact, or if an answer has taken longer than Expiry.
NoFalseDrop ==
    [][\A h \in up \cap up' : \A g \in Targets(h) :
           g \in Listed(h) /\ g \notin Listed(h)' =>
               g \in lapsed[h] \/ UnderWay(h, g)]_vars

\* Two daemons that run: the one that probes the other has it in its list again and again.
LiveAreFound ==
    \A h \in Hosts : \A g \in Targets(h) :
        <>[](h \in up /\ g \in up) => []<>(g \in Listed(h))

\* A server that has ended for good is dropped in the end by whoever probes.
DeadAreForgotten ==
    \A h \in Hosts \ NoProbe : \A g \in Hosts :
        <>[](h \in up /\ g \notin up) => <>[](g \notin Listed(h))
=============================================================================
