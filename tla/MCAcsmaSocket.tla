---------------------------- MODULE MCAcsmaSocket ----------------------------
(* The instance of AcsmaSocket: who holds a writer, and what it does with it. *)
EXTENDS AcsmaSocket, TLC

CONSTANTS A, B, C, u, v, ipA, ipB, ipC

Ping(d, n) == [kind |-> "ping", dest |-> d, len |-> n]
Arp(ip) == [kind |-> "arp", dest |-> ip, len |-> 1]
Write(d, n) == [kind |-> "write", dest |-> d, len |-> n]

\* Every station has a network address.
AllIps == (A :> ipA @@ B :> ipB @@ C :> ipC)
BothZero == (u :> {0} @@ v :> {0})

\* Two callers share the writer of A: one pings B until it gives up, the other
\* writes nothing and resolves an address that every station answers for.
SharedHome == (u :> A @@ v :> A)
SharedScript == (u :> <<Ping(B, 2)>> @@ v :> <<Write(B, 0), Arp(ipC)>>)
=============================================================================
