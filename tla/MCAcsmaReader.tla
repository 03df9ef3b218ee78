---------------------------- MODULE MCAcsmaReader ----------------------------
(* Instances of AcsmaReader: writers and readers of packets. *)
EXTENDS AcsmaReader, TLC

CONSTANTS A, B, C, u, v, ipA, ipB, ipC

Write(d, n) == [kind |-> "write", dest |-> d, len |-> n]
Perf(d, n) == [kind |-> "perf", dest |-> d, len |-> n]
Arp(ip) == [kind |-> "arp", dest |-> ip, len |-> 1]

TwoIps == (A :> ipA @@ B :> ipB)

OneHome == (u :> A)
OnePacket == (u :> <<Write(B, 3)>>)
\* After the packet nothing is written, and then the throughput is measured.
PacketThenPerf == (u :> <<Write(B, 3), Write(B, 0), Perf(B, 1)>>)
ResolveThenWrite == (u :> <<Arp(ipB), Write(B, 2)>>)
BaseOne == (u :> {1})
BaseLow == (u :> {0, 1})
BaseAny == (u :> {0, 1, 2, 3})
ReadA == (A :> Nobody @@ B :> A)
=============================================================================
