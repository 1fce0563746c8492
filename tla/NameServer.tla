----------------------------- MODULE NameServer -----------------------------
(***************************************************************************)
(* The name server gdomap and the clients that ask it (Tools/gdomap.c).    *)
(* Each host runs a daemon: one thread that selects on its descriptors and *)
(* calls a handler for each that is ready; a request arrives over TCP,     *)
(* perhaps in pieces, and its reply closes the channel.  A client makes a  *)
(* connection for each request and gives up after a time.  Programs bind   *)
(* and release the ports they serve at any time, and a daemon may be       *)
(* killed and started again.                                               *)
(*                                                                         *)
(* The kernel's part is fd (what a descriptor refers to) and conn (what    *)
(* the two ends of a connection have done).  A connection that no          *)
(* descriptor refers to waits in the listening socket's backlog.           *)
(***************************************************************************)
EXTENDS NameMap, FiniteSets

CONSTANTS
    Hosts,        \* the hosts, each with its gdomap
    Clients,      \* runs of a program that asks a name server
    HostOf,       \* the host of each client
    Calls,        \* what clients ask: records as in CallType
    Known,        \* what each gdomap answers to GDO_SERVERS: itself first
    Names, Ports, \* as in Calls; a program that names no port sends 0
    Types,        \* protocol and kind of service, the fields net and svc
    Descs,        \* the numbers of the descriptors a daemon gets for channels
    Conns,        \* numbers for the connections that exist at the same time
    Sockets,      \* the sockets on which programs may listen, as in SocketType
    ShortHosts,   \* hosts whose daemon may be short of descriptors or memory
    ReqSize,      \* the pieces in which a request may arrive
    MaxCalls,     \* bound: calls of each client, a function
    MaxFaults,    \* bound: restarts of daemons and shortages that begin
    Writes,       \* bound: how many pieces of a request may be written
    None

Nets == {t.net : t \in Types}

\* nameServer() with a host name of '*' begins as SERVERS and goes on as LOOKUP.
CallType ==
    [client : Clients, op : {"REGISTER", "LOOKUP", "UNREG", "UNREGPORT", "NAMES", "SERVERS"},
     host : Hosts, name : Names, port : Ports, type : Types]

SocketType == [host : Hosts, port : Ports \ {0}, net : Nets]

\* What is replied: a port or 0, the names, the servers.
Replies == {0} \cup Ports \cup Seq(Names) \cup Seq(Hosts)

ConnType ==
    [client : Clients, host : Hosts, req : CallType, sent : 0..ReqSize,
     reply : Replies \cup {None}, open : BOOLEAN, served : BOOLEAN]

ASSUME ServerAssumption ==
    /\ Names \subseteq Int
    /\ Ports \subseteq Nat
    /\ Calls \subseteq CallType
    /\ \A r \in Calls : r.op = "UNREGPORT" => r.port # 0
    /\ Sockets \subseteq SocketType
    /\ ShortHosts \subseteq Hosts
    /\ HostOf \in [Clients -> Hosts]
    /\ Known \in [Hosts -> Seq(Hosts)]
    /\ Descs \cup Conns \subseteq Nat
    /\ ReqSize \in Nat \ {0}
    /\ Writes \subseteq 0..ReqSize
    /\ None \notin Conns \cup CallType \cup ConnType

VARIABLES
    map,                 \* the registered names of each daemon
    rInfo, wInfo,        \* _rInfo and _wInfo of each daemon, by descriptor
    readFds, writeFds,   \* read_fds and write_fds, channels only
    fd,                  \* the connection each open descriptor refers to
    conn,                \* the connections
    bound,               \* the sockets on which some program listens
    short,               \* the hosts whose daemon can make no further socket
    pc, call,            \* where each client is in tryHost(), and its request
    rest,                \* the hosts nameServer() has still to try
    calls, faults,       \* counters for the bounds
    saw                  \* history: what was true during a client's request

daemonVars == <<map, rInfo, wInfo, readFds, writeFds, fd>>
clientVars == <<pc, call, rest, calls>>
vars == <<daemonVars, clientVars, conn, bound, short, faults, saw>>

Init ==
    /\ map = [h \in Hosts |-> <<>>]
    /\ rInfo = [h \in Hosts |-> <<>>]
    /\ wInfo = [h \in Hosts |-> <<>>]
    /\ readFds = [h \in Hosts |-> {}]
    /\ writeFds = [h \in Hosts |-> {}]
    /\ fd = [h \in Hosts |-> [d \in Descs |-> None]]
    /\ conn = [k \in Conns |-> None]
    /\ bound = {}
    /\ short = {}
    /\ pc = [c \in Clients |-> "idle"]
    /\ call = [c \in Clients |-> None]
    /\ rest = [c \in Clients |-> <<>>]
    /\ calls = [c \in Clients |-> 0]
    /\ faults = 0
    /\ saw = [c \in Clients |-> {}]

-----------------------------------------------------------------------------
(***************************************************************************)
(* The tables of a daemon, searched by descriptor.                         *)
(***************************************************************************)
\* getRInfo() and getWInfo() with make = 0
Has(table, d) == \E i \in 1..Len(table) : table[i].s = d
PlaceOf(table, d) == CHOOSE i \in 1..Len(table) : table[i].s = d
Info(table, d) == table[PlaceOf(table, d)]

\* getRInfo() and getWInfo() with make = 1, and what the caller assigns
Put(table, info) ==
    IF Has(table, info.s) THEN [table EXCEPT ![PlaceOf(table, info.s)] = info]
    ELSE Append(table, info)

\* delRInfo() and delWInfo(), which log a descriptor that is not there
Del(table, d) ==
    IF Has(table, d)
    THEN LET i == PlaceOf(table, d)
         IN  [j \in 1..Len(table) - 1 |-> IF j < i THEN table[j] ELSE table[j + 1]]
    ELSE table

Backlog(h) ==
    {k \in Conns : /\ conn[k] # None
                   /\ conn[k].host = h /\ conn[k].served
                   /\ \A d \in Descs : fd[h][d] # k}

\* A connection is gone when both ends have closed it.
Closed(k, end) ==
    IF end = "client"
    THEN IF conn[k].served THEN [conn[k] EXCEPT !.open = FALSE] ELSE None
    ELSE IF conn[k].open THEN [conn[k] EXCEPT !.served = FALSE] ELSE None

-----------------------------------------------------------------------------
(***************************************************************************)
(* The daemon's handlers.                                                  *)
(***************************************************************************)
\* handle_accept(): the lowest free descriptor; if there is none, accept() fails.
Accept(h) ==
    \E k \in Backlog(h), d \in Descs :
        /\ fd[h][d] = None
        /\ \A x \in Descs : x < d => fd[h][x] # None
        /\ fd' = [fd EXCEPT ![h][d] = k]
        /\ readFds' = [readFds EXCEPT ![h] = @ \cup {d}]
        /\ rInfo' = [rInfo EXCEPT ![h] =
               Put(@, [s |-> d, addr |-> HostOf[conn[k].client], pos |-> 0])]
        /\ UNCHANGED <<map, wInfo, writeFds, conn, bound, short, clientVars, faults>>

\* A mutant: the entry of _rInfo stays.
ClearChan_KeepsInfo(h, d) ==
    /\ writeFds' = [writeFds EXCEPT ![h] = @ \ {d}]
    /\ readFds' = [readFds EXCEPT ![h] = @ \ {d}]
    /\ wInfo' = [wInfo EXCEPT ![h] = Del(@, d)]
    /\ rInfo' = rInfo
    /\ fd' = [fd EXCEPT ![h][d] = None]

\* clear_chan() of a channel
ClearChan(h, d) ==
    /\ writeFds' = [writeFds EXCEPT ![h] = @ \ {d}]
    /\ readFds' = [readFds EXCEPT ![h] = @ \ {d}]
    /\ wInfo' = [wInfo EXCEPT ![h] = Del(@, d)]
    /\ rInfo' = [rInfo EXCEPT ![h] = Del(@, d)]
    /\ fd' = [fd EXCEPT ![h][d] = None]

\* handle_read(): some of the request has come, but not all.
ReadPart(h, d) ==
    /\ d \in readFds[h]
    /\ LET ri == Info(rInfo[h], d)
       IN  \E n \in ri.pos + 1..ReqSize - 1 :
               /\ n <= conn[fd[h][d]].sent
               /\ rInfo' = [rInfo EXCEPT ![h] = Put(@, [ri EXCEPT !.pos = n])]
    /\ UNCHANGED <<map, wInfo, readFds, writeFds, fd, conn, bound, short, clientVars, faults>>

\* handle_read(): the client has closed its end before its request was complete.
ReadEnd(h, d) ==
    /\ d \in readFds[h]
    /\ LET k == fd[h][d]
       IN  /\ ~conn[k].open
           /\ conn[k].sent < ReqSize
           /\ ClearChan(h, d)
           /\ conn' = [conn EXCEPT ![k] = Closed(k, "daemon")]
    /\ UNCHANGED <<map, bound, short, clientVars, faults>>

\* handle_read() has the whole request and calls handle_request().
Request(h, d) == conn[fd[h][d]].req

Requested(h, d, op) ==
    /\ d \in readFds[h]
    /\ conn[fd[h][d]].sent = ReqSize
    /\ Request(h, d).op = op

\* Only a program on the daemon's own host may register, unregister or list servers.
IsLocal(h, d) == Info(rInfo[h], d).addr = h

Refuse(h, d) ==
    /\ \E op \in {"REGISTER", "UNREG", "UNREGPORT", "SERVERS"} : Requested(h, d, op)
    /\ ~IsLocal(h, d)
    /\ ClearChan(h, d)
    /\ conn' = [conn EXCEPT ![fd[h][d]] = Closed(fd[h][d], "daemon")]
    /\ UNCHANGED <<map, bound, short, clientVars, faults>>

\* The reply is left to handle_write().
Reply(h, d, value) ==
    /\ readFds' = [readFds EXCEPT ![h] = @ \ {d}]
    /\ writeFds' = [writeFds EXCEPT ![h] = @ \cup {d}]
    /\ rInfo' = [rInfo EXCEPT ![h] = Put(@, [Info(@, d) EXCEPT !.pos = ReqSize])]
    /\ wInfo' = [wInfo EXCEPT ![h] = Put(@, [s |-> d, pos |-> 0, buf |-> value])]
    /\ UNCHANGED <<fd, conn, bound, short, clientVars, faults>>

\* Whether a socket of that protocol can be bound to the port.
CanBind(h, port, net) == [host |-> h, port |-> port, net |-> net] \notin bound

\* The daemon tries to bind a socket of its own to the port.  If it can, the program
\* that served it is taken to have gone; if it cannot make the socket or set its
\* options, the port stays untried.
IsGone(h, port, net) == h \notin short /\ CanBind(h, port, net)

\* A mutant: the kind of service is left out.
Entry_NoService(req) ==
    [name |-> req.name, port |-> req.port, type |-> [net |-> req.type.net]]

Entry(req) == [name |-> req.name, port |-> req.port, type |-> req.type]

\* A mutant: a name is given to whoever asks for it.
Register_Grabs(h, d) ==
    /\ Requested(h, d, "REGISTER")
    /\ IsLocal(h, d)
    /\ LET req == Request(h, d)
           i == MapByName(map[h], req.name)
       IN  map' = [map EXCEPT ![h] =
                      IF i # 0 THEN [@ EXCEPT ![i] = Entry(req)]
                      ELSE MapAdd(@, Entry(req))]
    /\ Reply(h, d, Request(h, d).port)

\* GDO_REGISTER: a name that is there already is given to another port only when
\* its own was tried and could be bound, to port 0 too; a new name needs a port.
Register(h, d) ==
    /\ Requested(h, d, "REGISTER")
    /\ IsLocal(h, d)
    /\ LET req == Request(h, d)
           i == MapByName(map[h], req.name)
           taken == i # 0 /\ map[h][i].port # req.port
           gone == IsGone(h, map[h][i].port, req.type.net)
       IN  \/ /\ i # 0 /\ ~taken
              /\ Reply(h, d, req.port)
              /\ UNCHANGED map
           \/ /\ taken /\ gone
              /\ map' = [map EXCEPT ![h][i] = Entry(req)]
              /\ Reply(h, d, req.port)
           \/ /\ taken /\ ~gone
              /\ Reply(h, d, 0)
              /\ UNCHANGED map
           \/ /\ i = 0 /\ req.port = 0
              /\ Reply(h, d, 0)
              /\ UNCHANGED map
           \/ /\ i = 0 /\ req.port # 0
              /\ map' = [map EXCEPT ![h] = MapAdd(@, Entry(req))]
              /\ Reply(h, d, req.port)

\* A mutant: the port is not tried.
LookUp_Trusts(h, d) ==
    /\ Requested(h, d, "LOOKUP")
    /\ LET req == Request(h, d)
           i == MapByName(map[h], req.name)
           found == i # 0 /\ map[h][i].type = req.type
       IN  Reply(h, d, IF found THEN map[h][i].port ELSE 0)
    /\ UNCHANGED map

\* GDO_LOOKUP: a name whose port could be bound is forgotten; one whose port could
\* not be tried is answered like one in use.
LookUp(h, d) ==
    /\ Requested(h, d, "LOOKUP")
    /\ LET req == Request(h, d)
           i == MapByName(map[h], req.name)
           found == i # 0 /\ map[h][i].type = req.type
           gone == IsGone(h, map[h][i].port, req.type.net)
       IN  \/ /\ ~found
              /\ Reply(h, d, 0)
              /\ UNCHANGED map
           \/ /\ found /\ gone
              /\ map' = [map EXCEPT ![h] = MapDel(@, i)]
              /\ Reply(h, d, 0)
           \/ /\ found /\ ~gone
              /\ Reply(h, d, map[h][i].port)
              /\ UNCHANGED map

\* GDO_UNREG with a name
Unregister(h, d) ==
    /\ Requested(h, d, "UNREG")
    /\ IsLocal(h, d)
    /\ LET req == Request(h, d)
           i == MapByName(map[h], req.name)
           found == i # 0 /\ map[h][i].type = req.type
       IN  \/ /\ ~found
              /\ Reply(h, d, 0)
              /\ UNCHANGED map
           \/ /\ found
              /\ map' = [map EXCEPT ![h] = MapDel(@, i)]
              /\ Reply(h, d, map[h][i].port)

\* GDO_UNREG with a port and no name: every name of that port and type goes.
UnregisterPort(h, d) ==
    /\ Requested(h, d, "UNREGPORT")
    /\ IsLocal(h, d)
    /\ LET req == Request(h, d)
           found == \E i \in 1..Len(map[h]) : /\ map[h][i].port = req.port
                                              /\ map[h][i].type = req.type
       IN  /\ map' = [map EXCEPT ![h] = MapWithoutPort(@, req.port, req.type)]
           /\ Reply(h, d, IF found THEN req.port ELSE 0)

\* GDO_NAMES and GDO_SERVERS
ListNames(h, d) ==
    /\ Requested(h, d, "NAMES")
    /\ Reply(h, d, [i \in 1..Len(map[h]) |-> map[h][i].name])
    /\ UNCHANGED map

ListServers(h, d) ==
    /\ Requested(h, d, "SERVERS")
    /\ IsLocal(h, d)
    /\ Reply(h, d, Known[h])
    /\ UNCHANGED map

\* handle_write(): the reply is written, or the client has closed its end.  Either
\* way the channel is cleared.
Write(h, d) ==
    /\ d \in writeFds[h]
    /\ LET k == fd[h][d]
           last == [conn[k] EXCEPT !.served = FALSE, !.reply = Info(wInfo[h], d).buf]
       IN  conn' = [conn EXCEPT ![k] = IF @.open THEN last ELSE None]
    /\ ClearChan(h, d)
    /\ UNCHANGED <<map, bound, short, clientVars, faults>>

\* The daemon is killed, and another starts with nothing.
Restart(h) ==
    /\ faults < MaxFaults
    /\ faults' = faults + 1
    /\ map' = [map EXCEPT ![h] = <<>>]
    /\ rInfo' = [rInfo EXCEPT ![h] = <<>>]
    /\ wInfo' = [wInfo EXCEPT ![h] = <<>>]
    /\ readFds' = [readFds EXCEPT ![h] = {}]
    /\ writeFds' = [writeFds EXCEPT ![h] = {}]
    /\ fd' = [fd EXCEPT ![h] = [d \in Descs |-> None]]
    /\ conn' = [k \in Conns |->
                   IF conn[k] # None /\ conn[k].host = h THEN Closed(k, "daemon")
                   ELSE conn[k]]
    /\ UNCHANGED <<bound, short, clientVars>>

-----------------------------------------------------------------------------
(***************************************************************************)
(* The clients: nameServer() and donames(), each request a tryHost().      *)
(***************************************************************************)
ConnOf(c) == CHOOSE k \in Conns : conn[k] # None /\ conn[k].client = c /\ conn[k].open

\* The connections once client c has closed its end.
WithoutConnOf(c) ==
    IF pc[c] = "idle" THEN conn
    ELSE [conn EXCEPT ![ConnOf(c)] = Closed(ConnOf(c), "client")]

\* tryHost() makes a connection and writes its request; fewer pieces than ReqSize
\* are written if tryWrite() is going to fail or to time out.
TryHost(c, r, conns) ==
    \E k \in Conns, n \in Writes :
        /\ conns[k] = None
        /\ \A x \in Conns : x < k => conns[x] # None
        /\ conn' = [conns EXCEPT ![k] =
               [client |-> c, host |-> r.host, req |-> r, sent |-> n,
                reply |-> None, open |-> TRUE, served |-> TRUE]]
        /\ call' = [call EXCEPT ![c] = r]
        /\ pc' = [pc EXCEPT ![c] = IF n = ReqSize THEN "read" ELSE "write"]

\* The program calls lookup(), doregister(), unregister() or donames().
BeginCall(c) ==
    /\ pc[c] = "idle"
    /\ calls[c] < MaxCalls[c]
    /\ calls' = [calls EXCEPT ![c] = @ + 1]
    /\ \E r \in Calls : r.client = c /\ TryHost(c, r, conn)
    /\ UNCHANGED <<daemonVars, bound, short, rest, faults>>

\* tryHost() has ended, and nameServer() has these hosts left to try.
GoOn(c, hosts) ==
    /\ \/ /\ hosts # <<>>
          /\ TryHost(c, [call[c] EXCEPT !.op = "LOOKUP", !.host = Head(hosts)],
                     WithoutConnOf(c))
          /\ rest' = [rest EXCEPT ![c] = Tail(hosts)]
       \/ /\ hosts = <<>>
          /\ pc' = [pc EXCEPT ![c] = "idle"]
          /\ call' = [call EXCEPT ![c] = None]
          /\ rest' = [rest EXCEPT ![c] = <<>>]
          /\ conn' = WithoutConnOf(c)
    /\ UNCHANGED <<daemonVars, calls, bound, short, faults>>

Answered(c) == pc[c] = "read" /\ conn[ConnOf(c)].reply # None

\* The reply is read.  A call for '*' goes through the list of servers until one
\* of them has the name.
Read(c) ==
    /\ Answered(c)
    /\ LET reply == conn[ConnOf(c)].reply
       IN  GoOn(c, CASE call[c].op = "SERVERS" -> reply
                     [] call[c].op = "LOOKUP" /\ reply = 0 -> rest[c]
                     [] OTHER -> <<>>)

\* The other end is closed, or tryWrite() or tryRead() has waited long enough.
Fail(c) ==
    /\ pc[c] # "idle"
    /\ ~Answered(c)
    /\ GoOn(c, rest[c])

-----------------------------------------------------------------------------
\* A program begins to listen, or releases its socket: it ends, perhaps by a crash.
Listen ==
    /\ \E s \in Sockets :
           bound' = IF s \in bound THEN bound \ {s} ELSE bound \cup {s}
    /\ UNCHANGED <<daemonVars, clientVars, conn, short, faults>>

\* socket() and setsockopt() begin to fail in a daemon, or succeed again.
Scarcity ==
    /\ \E h \in ShortHosts :
           \/ /\ h \notin short
              /\ faults < MaxFaults
              /\ short' = short \cup {h}
              /\ faults' = faults + 1
           \/ /\ h \in short
              /\ short' = short \ {h}
              /\ UNCHANGED faults
    /\ UNCHANGED <<daemonVars, clientVars, conn, bound>>

Handle(h, d) ==
    \/ ReadPart(h, d) \/ ReadEnd(h, d) \/ Refuse(h, d)
    \/ Register(h, d) \/ LookUp(h, d) \/ Unregister(h, d) \/ UnregisterPort(h, d)
    \/ ListNames(h, d) \/ ListServers(h, d)
    \/ Write(h, d)

ClientStep(c) == Read(c) \/ Fail(c)

Step ==
    \/ \E h \in Hosts : Accept(h) \/ Restart(h) \/ \E d \in Descs : Handle(h, d)
    \/ \E c \in Clients : BeginCall(c) \/ ClientStep(c)
    \/ Listen \/ Scarcity

\* The replies that would be true now: a port is found if a program listens on it, or
\* if the daemon cannot make the socket to try the port with; a registration is in
\* force if the name has that port.  (For a port that the name has already,
\* GDO_REGISTER does not look at the type.)
TrueReplies(c) ==
    LET r == call[c]
        entries == {map[r.host][i] : i \in 1..Len(map[r.host])}
        mine == {m \in entries : m.name = r.name /\ m.type = r.type}
        live == {m \in mine : ~IsGone(r.host, m.port, m.type.net)}
        held == {m \in entries : m.name = r.name /\ m.port = r.port}
        ofPort == {m \in entries : m.port = r.port /\ m.type = r.type}
        PortsOf(S) == IF S = {} THEN {0} ELSE {m.port : m \in S}
    IN  CASE r.op = "LOOKUP" -> PortsOf(live)
          [] r.op = "REGISTER" -> {0} \cup {m.port : m \in held}
          [] r.op = "UNREG" -> PortsOf(mine)
          [] r.op = "UNREGPORT" -> PortsOf(ofPort)
          [] r.op = "NAMES" -> {[i \in 1..Len(map[r.host]) |-> map[r.host][i].name]}
          [] r.op = "SERVERS" -> {Known[r.host]}

SawStep ==
    saw' = [c \in Clients |->
               CASE pc'[c] = "idle" -> {}
                 [] pc'[c] # "idle" /\ call'[c] # call[c] -> TrueReplies(c)'
                 [] OTHER -> saw[c] \cup TrueReplies(c)']

Next == Step /\ SawStep

Spec == Init /\ [][Next]_vars

-----------------------------------------------------------------------------
EntryType == [name : Names, port : Ports, type : Types]

\* Everything has its type: entries of names, requests of clients, counters.
TypeOK ==
    /\ \A h \in Hosts :
           /\ \A i \in 1..Len(map[h]) : map[h][i] \in EntryType
           /\ readFds[h] \cup writeFds[h] \subseteq Descs
           /\ fd[h] \in [Descs -> Conns \cup {None}]
    /\ \A k \in Conns : conn[k] # None =>
           /\ conn[k].client \in Clients /\ conn[k].host \in Hosts
           /\ conn[k].sent \in 0..ReqSize
           /\ conn[k].open \/ conn[k].served
    /\ bound \subseteq Sockets /\ short \subseteq ShortHosts
    /\ pc \in [Clients -> {"idle", "write", "read"}]

\* The array of names stays in order without a name twice, whatever is added,
\* deleted and changed in it, so that the binary search of map_by_name() finds
\* every name that is there and no other.
NamesAreFound ==
    \A h \in Hosts :
        /\ Sorted(map[h])
        /\ NoNameTwice(map[h])
        /\ \A n \in Names :
               LET i == MapByName(map[h], n)
               IN  IF i = 0 THEN \A j \in 1..Len(map[h]) : map[h][j].name # n
                   ELSE map[h][i].name = n

\* The two tables, the two sets of descriptors and the kernel agree: a channel is
\* open as long as it has an entry in _rInfo, it has one in _wInfo as long as it
\* waits to be written, and no two descriptors refer to one connection.
TablesAgree ==
    \A h \in Hosts :
        /\ readFds[h] \cap writeFds[h] = {}
        /\ \A d \in Descs :
               /\ (fd[h][d] # None) <=> (d \in readFds[h] \cup writeFds[h])
               /\ (fd[h][d] # None) <=> Has(rInfo[h], d)
               /\ (d \in writeFds[h]) <=> Has(wInfo[h], d)
               /\ fd[h][d] # None => /\ conn[fd[h][d]] # None
                                     /\ conn[fd[h][d]].host = h
                                     /\ conn[fd[h][d]].served
               /\ \A e \in Descs : fd[h][d] # None /\ fd[h][e] = fd[h][d] => d = e
        /\ \A i, j \in 1..Len(rInfo[h]) : rInfo[h][i].s = rInfo[h][j].s => i = j
        /\ \A i, j \in 1..Len(wInfo[h]) : wInfo[h][i].s = wInfo[h][j].s => i = j

\* What a client is told was true at some moment between its call and the reply,
\* although names are registered and forgotten, ports are released and taken again,
\* descriptors are used again, clients give up and daemons are restarted meanwhile:
\* a port that a lookup finds was registered for that name and type with a program
\* listening, or at a moment at which the daemon could make no socket to try the port
\* with; a failed lookup means that there was none, and a registration that succeeded
\* was in force.
AnswersAreTrue ==
    \A c \in Clients : Answered(c) => conn[ConnOf(c)].reply \in saw[c]

\* The i-th name of a daemon stays as it is in this step, or may go.
NameStays(h, i) ==
    LET m == map[h][i]
        unregistered == \E d \in readFds[h] \ readFds'[h] :
                            Request(h, d).op \in {"UNREG", "UNREGPORT"}
        otherNet == \E d \in readFds[h] \ readFds'[h] :
                        /\ Request(h, d).op = "REGISTER"
                        /\ Request(h, d).name = m.name
                        /\ Request(h, d).type.net # m.type.net
    IN  \/ CanBind(h, m.port, m.type.net)
        \/ \E j \in 1..Len(map'[h]) : map'[h][j] = m
        \/ unregistered \/ otherNet
        \/ faults' # faults /\ UNCHANGED short

\* As long as a program listens on the port of a name, the name keeps that port and
\* type until a client unregisters it or the daemon is restarted: nobody grabs it with
\* a registration for the same protocol.  (With the other one it can be: GDO_REGISTER
\* tries the port that the name has with a socket of the protocol it is asked for.)
LiveNamesStay == [][\A h \in Hosts : \A i \in 1..Len(map[h]) : NameStays(h, i)]_vars
=============================================================================
