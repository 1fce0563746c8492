---------------------------- MODULE MCNameServer ----------------------------
(* Two hosts and two clients of NameServer for TLC. *)
EXTENDS NameServer, TLC

CONSTANTS h1, h2, c1, c2

Tcp == [net |-> "tcp", svc |-> "gdo"]
Udp == [net |-> "udp", svc |-> "gdo"]
Ask(c, op, h, n, p) ==
    [client |-> c, op |-> op, host |-> h, name |-> n, port |-> p, type |-> Tcp]

MCTypes == {Tcp, Udp}
MCHostOf == (c1 :> h1) @@ (c2 :> h2)
MCKnown == (h1 :> <<h1>>) @@ (h2 :> <<h2, h1>>)
MCSockets == {[host |-> h1, port |-> p, net |-> "tcp"] : p \in {1}}
MCMaxCalls == (c1 :> 2) @@ (c2 :> 1)
MCCalls ==
    {Ask(c1, "REGISTER", h1, 1, 1), Ask(c1, "REGISTER", h1, 1, 2), Ask(c1, "REGISTER", h1, 2, 2),
     [Ask(c1, "REGISTER", h1, 1, 0) EXCEPT !.type = Udp],
     Ask(c1, "UNREG", h1, 1, 1), Ask(c1, "UNREGPORT", h1, 1, 2),
     Ask(c2, "SERVERS", h2, 1, 1), Ask(c2, "REGISTER", h1, 2, 1),
     Ask(c2, "NAMES", h1, 1, 1)}
=============================================================================
