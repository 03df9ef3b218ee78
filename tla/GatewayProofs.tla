----------------------------- MODULE GatewayProofs -----------------------------
(***************************************************************************)
(* Proofs about Gateway, for any hosts, flows, ports and packets: a daemon *)
(* that waits is waited for by one task, and what reaches the system of a  *)
(* host is for it, with the theorems of NatTable on the table between.     *)
(***************************************************************************)
EXTENDS Gateway, NatTableProofs

-----------------------------------------------------------------------------
(* The inductive invariant.                                                *)

ExpectedInv == expected \subseteq (Pool \cup DOMAIN Static) \X Flow

TableInv == OrderInv /\ EntryInv /\ ExpectedInv

\* The writer has a task in hand from the moment it takes it to the end of its
\* turn, and resolves the address of a station only.
HandInv ==
    \A n \in Node :
       \/ pc[n] \in {"start", "take"} /\ hand[n] = <<>>
       \/ /\ pc[n] \in {"arp", "write"}
          /\ \E t \in Task : hand[n] = <<t>> /\ (pc[n] = "arp" => t.packet.dst \in Node)

\* The packets on their way: in the input of a station, in the queue of its
\* writer or in the writer's hand.
Around(n) ==
    {rx[n][i] : i \in 1 .. Len(rx[n])}
        \cup {queue[n][i].packet : i \in 1 .. Len(queue[n])}
        \cup {hand[n][i].packet : i \in 1 .. Len(hand[n])}

\* Only a flow has a packet that leaves the net, and an echo request is one that a
\* system sent or that came from the Internet for a flow.
Known(p) ==
    /\ p \in Packet
    /\ Leaves(p) => <<p.src, p.id>> \in Flow
    /\ p.proto = "echo_req" =>
          /\ p.for = NoFlow
          /\ \/ p.src \in Host /\ p \in asked
             \/ p.src = Server /\ p.dst \in Host /\ <<p.dst, p.id>> \in Flow

PacketsInv == \A n \in Node : \A p \in Around(n) : Known(p)

GatewayInv == GatewayTypeOK /\ TableInv /\ HandInv /\ PacketsInv /\ NoTaskLost

\* What the property says of a packet that is delivered, said of it while it is
\* on its way.
Requested(p) ==
    \E q \in asked : q.src = p.dst /\ q.dst = p.src /\ q.proto = "echo_req" /\ q.id = p.id

Homeward(p) ==
    /\ p.for # NoFlow => p.for = <<p.dst, p.id>>
    /\ p.proto = "echo_rep" /\ p.src \in Node /\ p.dst \in Host => Requested(p)

HomewardInv ==
    /\ \A n \in Node : \A p \in Around(n) : Homeward(p)
    /\ \A h \in Host : \A i \in 1 .. Len(tun[h]) : tun[h][i].dst = h /\ Homeward(tun[h][i])

-----------------------------------------------------------------------------
(* Sequences.                                                              *)

LEMMA Appended ==
    ASSUME NEW S, NEW s \in Seq(S), NEW x \in S
    PROVE  /\ Append(s, x) \in Seq(S) /\ Len(Append(s, x)) = Len(s) + 1 /\ Len(s) \in Nat
           /\ \A i \in 1 .. Len(s) : Append(s, x)[i] = s[i]
           /\ Append(s, x)[Len(s) + 1] = x
  OBVIOUS

LEMMA Shortened ==
    ASSUME NEW S, NEW s \in Seq(S), s # <<>>
    PROVE  /\ Head(s) \in S /\ Head(s) = s[1] /\ Len(s) \in Nat \ {0}
           /\ Tail(s) \in Seq(S) /\ Len(Tail(s)) = Len(s) - 1
           /\ \A i \in 1 .. Len(Tail(s)) : Tail(s)[i] = s[i + 1]
  OBVIOUS

-----------------------------------------------------------------------------
(* What a step does.                                                       *)

\* The packets that come into being: a system sends one, a station replies to one
\* that was for it, or the gateway passes on what it captures.
Reported(p) ==
    \E q \in Scanned :
       p = [src |-> Server, dst |-> Outer, proto |-> "icmp", id |-> q, for |-> NoFlow]

Inward(q, f, proto) ==
    [src |-> Server, dst |-> RouteOf(q)[1], proto |-> proto, id |-> RouteOf(q)[2], for |-> f]

Passed(p) ==
    \/ \E a \in expected : \E proto \in {"echo_rep", "udp"} :
          RouteOf(a[1]) # NoFlow /\ p = Inward(a[1], a[2], proto)
    \/ \E q \in Scanned : \E proto \in {"echo_req", "udp"} :
          RouteOf(q) # NoFlow /\ p = Inward(q, NoFlow, proto)

Replied(p) ==
    \E n \in Node : \E q \in Around(n) : q.dst = n /\ q.proto = "echo_req" /\ p = Reply(q)

Offered(p) == \E h \in Host : p \in AppPackets[h] /\ p \in asked'

Fresh(p) == Offered(p) \/ Replied(p) \/ Passed(p) \/ Reported(p)

\* A reader loses its first packet or none does.
Drawn == rx' = rx \/ \E m \in Node : rx[m] # <<>> /\ rx' = [rx EXCEPT ![m] = Tail(@)]

Resting == UNCHANGED <<waits, queue, hand, pc, dest>> /\ Drawn

Giving ==
    /\ Drawn
    /\ \E n \in Node : \E d \in Daemon : \E p : Free(n, d) /\ Fresh(p) /\ WritePacket(n, d, p)
    /\ UNCHANGED <<hand, pc, dest>>

LEMMA ReceivedPacket ==
    ASSUME GatewayTypeOK, NEW n \in Node, NEW p, Received(n, p)
    PROVE  /\ p \in Around(n) /\ p \in Packet /\ Free(n, "recv")
           /\ rx[n] # <<>> /\ rx' = [rx EXCEPT ![n] = Tail(@)]
           /\ UNCHANGED <<hand, pc, dest, gatewayMac, asked, sends, captures>>
<1>1. rx[n] # <<>> /\ p = Head(rx[n]) /\ rx[n] \in Seq(Packet)
  BY DEF Received, GatewayTypeOK
<1>2. p \in Packet /\ p = rx[n][1] /\ 1 \in 1 .. Len(rx[n])
  BY <1>1, Shortened
<1>3. p \in Around(n)
  BY <1>2 DEF Around
<1>4. QED
  BY <1>1, <1>2, <1>3 DEF Received, writeVars, Free

LEMMA Shapes ==
    ASSUME GatewayTypeOK, GatewayNext
    PROVE  \/ Resting \/ Giving
           \/ \E h \in Host : ResolveGateway(h)
           \/ \E n \in Node : Take(n) \/ Arp(n) \/ Write(n)
<1>1. ASSUME NEW n \in Node, NEW p, ReceiveEcho(n, p) PROVE Giving
  <2>1. Received(n, p) /\ p.dst = n /\ p.proto = "echo_req" /\ WritePacket(n, "recv", Reply(p))
    BY <1>1 DEF ReceiveEcho
  <2>2. p \in Around(n) /\ Free(n, "recv") /\ UNCHANGED <<hand, pc, dest>> /\ Drawn
    BY <2>1, ReceivedPacket DEF Drawn
  <2>3. Fresh(Reply(p))
    BY <2>1, <2>2 DEF Fresh, Replied
  <2>4. QED
    BY <2>1, <2>2, <2>3 DEF Giving, Daemon
<1>2. ASSUME NEW n \in Node, NEW p, Received(n, p), UNCHANGED <<waits, queue>> PROVE Resting
  BY <1>2, ReceivedPacket DEF Resting, Drawn
<1>3. ASSUME NEW h \in Host, SendTun(h) PROVE Resting \/ Giving
  <2>1. PICK p \in AppPackets[h] :
          /\ asked' = asked \cup {p}
          /\ IF p.proto = "other" THEN UNCHANGED <<waits, queue>> ELSE WritePacket(h, "send", p)
    BY <1>3 DEF SendTun
  <2>2. UNCHANGED <<hand, pc, dest, rx>> /\ Free(h, "send") /\ h \in Node /\ "send" \in Daemon
    BY <1>3 DEF SendTun, writeVars, Node, Daemon
  <2>3. Fresh(p)
    BY <2>1 DEF Fresh, Offered
  <2>4. QED
    BY <2>1, <2>2, <2>3 DEF Resting, Giving, Drawn
<1>4. ASSUME Captured PROVE /\ UNCHANGED <<hand, pc, dest, rx>> /\ Free(Gate, "send") /\ Gate \in Node
                            /\ "send" \in Daemon
  BY <1>4 DEF Captured, writeVars, Node, Daemon
<1>5. ASSUME NEW q, NEW f, NEW proto, CaptureFor(q, f, proto),
             RouteOf(q) # NoFlow => Fresh(Inward(q, f, proto))
      PROVE  Resting \/ Giving
  <2>1. CASE RouteOf(q) = NoFlow
    BY <1>4, <1>5, <2>1 DEF CaptureFor, Resting, Drawn
  <2>2. CASE RouteOf(q) # NoFlow
    <3>1. WritePacket(Gate, "send", Inward(q, f, proto))
      BY <1>5, <2>2 DEF CaptureFor, Inward
    <3>2. QED
      BY <1>4, <1>5, <2>2, <3>1 DEF CaptureFor, Giving, Drawn
  <2>3. QED
    BY <2>1, <2>2
<1>6. CASE CaptureAnswer
  <2>1. PICK a \in expected, proto \in {"echo_rep", "udp"} : CaptureFor(a[1], a[2], proto)
    BY <1>6 DEF CaptureAnswer
  <2>2. RouteOf(a[1]) # NoFlow => Fresh(Inward(a[1], a[2], proto))
    BY DEF Fresh, Passed
  <2>3. QED
    BY <1>5, <2>1, <2>2
<1>7. CASE CaptureScan
  <2>1. PICK q \in Scanned, proto \in {"echo_req", "udp"} : CaptureFor(q, NoFlow, proto)
    BY <1>7 DEF CaptureScan
  <2>2. RouteOf(q) # NoFlow => Fresh(Inward(q, NoFlow, proto))
    BY DEF Fresh, Passed
  <2>3. QED
    BY <1>5, <2>1, <2>2
<1>8. CASE CaptureIcmp
  <2>1. PICK q \in Scanned :
          WritePacket(Gate, "send", [src |-> Server, dst |-> Outer, proto |-> "icmp",
                                     id |-> q, for |-> NoFlow])
    BY <1>8 DEF CaptureIcmp
  <2>2. Fresh([src |-> Server, dst |-> Outer, proto |-> "icmp", id |-> q, for |-> NoFlow])
    BY DEF Fresh, Reported
  <2>3. Captured
    BY <1>8 DEF CaptureIcmp
  <2>4. QED
    BY <1>4, <2>1, <2>2, <2>3 DEF Giving, Drawn
<1>9. ASSUME NEW n \in Node, ReceiveStep(n) PROVE Resting \/ Giving
  BY <1>1, <1>2, <1>9
     DEF ReceiveStep, ReceiveForSystem, ReceiveForInternet, ReceiveDropped, ReceiveFails
<1>10. ASSUME NEW n \in Node, WriteStep(n)
       PROVE  \/ \E h \in Host : ResolveGateway(h)
              \/ Take(n) \/ Arp(n) \/ Write(n)
  BY <1>10 DEF WriteStep
<1>11. QED
  BY <1>3, <1>6, <1>7, <1>8, <1>9, <1>10 DEF GatewayNext, SendStep

-----------------------------------------------------------------------------
(* The packets.                                                            *)

LEMMA AddressFacts ==
    /\ Gate \in Node /\ Host \subseteq Node /\ Server \notin Node /\ Server \notin Host
    /\ Outer \notin Node /\ Everybody \notin Node /\ Gate \notin Host
    /\ NoPacket \notin Packet /\ Node \subseteq Net
  BY NodeAssumption DEF Node, Net

\* What the table leads to is a flow.
LEMMA RouteIsFlow ==
    ASSUME EntryInv, NEW q, RouteOf(q) # NoFlow
    PROVE  RouteOf(q) \in Flow
<1>1. CASE q \in DOMAIN Static
  BY <1>1, StaticAssumption DEF RouteOf
<1>2. CASE q \notin DOMAIN Static
  BY <1>2 DEF RouteOf, EntryInv
<1>3. QED
  BY <1>1, <1>2

LEMMA FlowParts ==
    ASSUME NEW f \in Flow
    PROVE  f[1] \in Host /\ f[2] \in Id /\ f = <<f[1], f[2]>>
<1>1. f \in Host \X Nat
  BY FlowAssumption
<1>2. QED
  BY <1>1 DEF Id

LEMMA FreshKnown ==
    ASSUME GatewayInv, asked \subseteq asked', NEW p, Fresh(p)
    PROVE  Known(p)'
<1> SUFFICES /\ p \in Packet
             /\ Leaves(p) => <<p.src, p.id>> \in Flow
             /\ p.proto = "echo_req" =>
                   /\ p.for = NoFlow
                   /\ \/ p.src \in Host /\ p \in asked'
                      \/ p.src = Server /\ p.dst \in Host /\ <<p.dst, p.id>> \in Flow
  BY DEF Known
<1>1. CASE Offered(p)
  <2>1. PICK h \in Host : p \in AppPackets[h] /\ p \in asked'
    BY <1>1 DEF Offered
  <2>2. p \in Packet /\ p.src = h /\ p.for = NoFlow /\ <<h, p.id>> \in Flow
    BY <2>1, AppAssumption
  <2>3. QED
    BY <2>1, <2>2
<1>2. CASE Replied(p)
  <2>0. PICK n \in Node : \E q \in Around(n) : q.dst = n /\ q.proto = "echo_req" /\ p = Reply(q)
    BY <1>2 DEF Replied
  <2>1. PICK q \in Around(n) : q.dst = n /\ q.proto = "echo_req" /\ p = Reply(q)
    BY <2>0
  <2>2. q \in Packet /\ Known(q)
    BY DEF GatewayInv, PacketsInv, Known
  <2>3. /\ p = [src |-> q.dst, dst |-> q.src, proto |-> "echo_rep", id |-> q.id, for |-> q.for]
    BY <2>1, <2>2 DEF Reply, Packet
  <2>4. p.src = n /\ p.dst = q.src /\ p.proto = "echo_rep" /\ p.id = q.id
    BY <2>1, <2>3
  <2>5. p \in Packet
    <3>1. q.src \in Net \cup {Server} /\ q.id \in Id /\ q.for \in Flow \cup {NoFlow} /\ n \in Net
      BY <2>2, AddressFacts DEF Packet
    <3>2. QED
      BY <2>1, <2>3, <3>1 DEF Packet, Proto
  <2>6. ASSUME Leaves(p) PROVE <<p.src, p.id>> \in Flow
    <3>1. q.src \notin Node
      BY <2>4, <2>6, AddressFacts DEF Leaves
    <3>2. q.src = Server /\ <<q.dst, q.id>> \in Flow
      BY <2>1, <2>2, <3>1, AddressFacts DEF Known
    <3>3. QED
      BY <2>1, <2>4, <3>2
  <2>7. QED
    BY <2>4, <2>5, <2>6
<1>3. ASSUME NEW q, NEW f \in Flow \cup {NoFlow}, NEW proto, RouteOf(q) # NoFlow,
             p = Inward(q, f, proto), proto \in {"echo_req", "echo_rep", "udp"},
             proto = "echo_req" => f = NoFlow
      PROVE  /\ p \in Packet
             /\ Leaves(p) => <<p.src, p.id>> \in Flow
             /\ p.proto = "echo_req" =>
                   /\ p.for = NoFlow
                   /\ \/ p.src \in Host /\ p \in asked'
                      \/ p.src = Server /\ p.dst \in Host /\ <<p.dst, p.id>> \in Flow
  <2> DEFINE r == RouteOf(q)
  <2>1. r \in Flow
    BY <1>3, RouteIsFlow DEF GatewayInv, TableInv
  <2>2. r[1] \in Host /\ r[2] \in Id /\ r = <<r[1], r[2]>> /\ r[1] \in Net
    BY <2>1, FlowParts, AddressFacts
  <2>3. p = [src |-> Server, dst |-> r[1], proto |-> proto, id |-> r[2], for |-> f]
    BY <1>3 DEF Inward
  <2> HIDE DEF r
  <2>4. p.src = Server /\ p.dst = r[1] /\ p.proto = proto /\ p.id = r[2] /\ p.for = f
    BY <2>3
  <2>5. proto \in Proto
    BY <1>3 DEF Proto
  <2>6. p \in Packet
    BY <1>3, <2>2, <2>3, <2>5 DEF Packet
  <2>7. ~ Leaves(p)
    BY <2>2, <2>4 DEF Leaves
  <2>8. QED
    BY <1>3, <2>1, <2>2, <2>4, <2>6, <2>7
<1>4. CASE Passed(p)
  <2>1. ASSUME NEW a \in expected, NEW proto \in {"echo_rep", "udp"}, RouteOf(a[1]) # NoFlow,
               p = Inward(a[1], a[2], proto)
        PROVE  a[2] \in Flow \cup {NoFlow} /\ proto \in {"echo_req", "echo_rep", "udp"}
               /\ proto # "echo_req"
    BY <2>1 DEF GatewayInv, TableInv, ExpectedInv
  <2>2. QED
    BY <1>3, <1>4, <2>1 DEF Passed
<1>5. CASE Reported(p)
  <2>1. PICK q \in Scanned :
          p = [src |-> Server, dst |-> Outer, proto |-> "icmp", id |-> q, for |-> NoFlow]
    BY <1>5 DEF Reported
  <2>2. p \in Packet
    BY <2>1 DEF Packet, Proto, Id
  <2>3. QED
    BY <2>1, <2>2 DEF Leaves
<1>6. QED
  BY <1>1, <1>2, <1>4, <1>5 DEF Fresh

LEMMA AskedGrows == GatewayNext => asked \subseteq asked'
<1>1. ASSUME NEW n \in Node, WriteStep(n) PROVE asked' = asked
  BY <1>1 DEF WriteStep, Take, Arp, Write, ResolveGateway, historyVars
<1>2. ASSUME NEW n \in Node, ReceiveStep(n) PROVE asked' = asked
  BY <1>2 DEF ReceiveStep, ReceiveEcho, ReceiveForSystem, ReceiveForInternet, ReceiveDropped,
              ReceiveFails, Received
<1>3. ASSUME SendStep PROVE asked \subseteq asked'
  BY <1>3 DEF SendStep, SendTun, CaptureAnswer, CaptureScan, CaptureIcmp, CaptureFor, Captured,
              historyVars
<1>4. QED
  BY <1>1, <1>2, <1>3 DEF GatewayNext

-----------------------------------------------------------------------------
(* The table.                                                              *)

\* What the daemons do to the table is a step of NatTable, or nothing: only the
\* flows of the stations are translated.
LEMMA TableStep ==
    ASSUME GatewayInv, GatewayNext
    PROVE  [Next]_<<lru, entry, expected, since>>
<1>1. ASSUME NEW p, Received(Gate, p), Leaves(p), Outbound(<<p.src, p.id>>) PROVE Next
  <2>1. p \in Around(Gate)
    BY <1>1, ReceivedPacket, AddressFacts DEF GatewayInv
  <2>2. <<p.src, p.id>> \in Flow
    BY <1>1, <2>1, AddressFacts DEF GatewayInv, PacketsInv, Known
  <2>3. QED
    BY <1>1, <2>2 DEF Next
<1>2. ASSUME NEW n \in Node, WriteStep(n) PROVE UNCHANGED tableVars
  BY <1>2 DEF WriteStep, Take, Arp, Write, ResolveGateway
<1>3. ASSUME NEW n \in Node, ReceiveStep(n) PROVE Next \/ UNCHANGED tableVars
  BY <1>1, <1>3 DEF ReceiveStep, ReceiveEcho, ReceiveForSystem, ReceiveForInternet,
                    ReceiveDropped, ReceiveFails
<1>4. ASSUME SendStep PROVE Next \/ UNCHANGED tableVars
  BY <1>4 DEF SendStep, SendTun, CaptureAnswer, CaptureScan, CaptureIcmp, CaptureFor,
              Next, Answer, Scan
<1>5. QED
  BY <1>2, <1>3, <1>4 DEF GatewayNext, tableVars

LEMMA TableKeeps ==
    ASSUME GatewayInv, GatewayNext
    PROVE  TableInv'
<1>1. [Next]_vars /\ OrderInv /\ EntryInv /\ ExpectedInv
  BY TableStep DEF vars, GatewayInv, TableInv
<1>2. QED
  BY <1>1, OrderStep, EntryStep, ExpectedStep DEF TableInv, ExpectedInv

-----------------------------------------------------------------------------
(* Types.                                                                  *)

\* The task that a write daemon takes is one of its queue.
Taken(n) ==
    /\ pc[n] = "take" /\ queue[n] # <<>>
    /\ hand' = [hand EXCEPT ![n] = <<Head(queue[n])>>]
    /\ queue' = [queue EXCEPT ![n] = Tail(@)]
    /\ UNCHANGED <<rx, waits>>

LEMMA TakenTask ==
    ASSUME GatewayTypeOK, NEW n \in Node, Take(n)
    PROVE  /\ Taken(n) /\ Head(queue[n]) \in Task /\ Head(queue[n]).packet \in Packet
           /\ \/ pc' = [pc EXCEPT ![n] = "arp"] /\ dest' = dest /\ Head(queue[n]).packet.dst \in Node
              \/ /\ pc' = [pc EXCEPT ![n] = "write"]
                 /\ \E D \in SUBSET Node : dest' = [dest EXCEPT ![n] = D]
<1>1. queue[n] \in Seq(Task) /\ queue[n] # <<>>
  BY DEF Take, GatewayTypeOK
<1>2. Head(queue[n]) \in Task
  BY <1>1, Shortened
<1>3. Head(queue[n]).packet \in Packet
  BY <1>2 DEF Task
<1>4. Node \ {n} \in SUBSET Node /\ BeyondNet(n) \in SUBSET Node
  BY AddressFacts DEF BeyondNet, GatewayTypeOK, Node
<1>5. QED
  BY <1>1, <1>2, <1>3, <1>4 DEF Take, Taken

LEMMA DrawnType ==
    ASSUME GatewayTypeOK, Drawn
    PROVE  /\ rx' \in [Node -> Seq(Packet)]
           /\ \A n \in Node : \A i \in 1 .. Len(rx'[n]) : \E j \in 1 .. Len(rx[n]) : rx'[n][i] = rx[n][j]
<1>1. rx \in [Node -> Seq(Packet)]
  BY DEF GatewayTypeOK
<1>2. CASE rx' = rx
  BY <1>1, <1>2
<1>3. ASSUME NEW m \in Node, rx[m] # <<>>, rx' = [rx EXCEPT ![m] = Tail(@)]
      PROVE  /\ rx' \in [Node -> Seq(Packet)]
             /\ \A n \in Node : \A i \in 1 .. Len(rx'[n]) : \E j \in 1 .. Len(rx[n]) : rx'[n][i] = rx[n][j]
  <2>1. /\ Tail(rx[m]) \in Seq(Packet) /\ Len(rx[m]) \in Nat \ {0}
        /\ Len(Tail(rx[m])) = Len(rx[m]) - 1
        /\ \A i \in 1 .. Len(Tail(rx[m])) : Tail(rx[m])[i] = rx[m][i + 1]
    BY <1>1, <1>3, Shortened
  <2>2. rx' \in [Node -> Seq(Packet)]
    BY <1>1, <1>3, <2>1
  <2>3. ASSUME NEW n \in Node, NEW i \in 1 .. Len(rx'[n])
        PROVE  \E j \in 1 .. Len(rx[n]) : rx'[n][i] = rx[n][j]
    <3>1. CASE n = m
      <4>1. rx'[n] = Tail(rx[m])
        BY <1>1, <1>3, <3>1
      <4>2. i + 1 \in 1 .. Len(rx[n]) /\ rx'[n][i] = rx[n][i + 1]
        BY <2>1, <3>1, <4>1
      <4>3. QED
        BY <4>2
    <3>2. CASE n # m
      <4>1. rx'[n] = rx[n]
        BY <1>1, <1>3, <3>2
      <4>2. QED
        BY <4>1
    <3>3. QED
      BY <3>1, <3>2
  <2>4. QED
    BY <2>2, <2>3
<1>4. QED
  BY <1>2, <1>3 DEF Drawn

\* What a write daemon has in hand.
LEMMA InHandIs ==
    ASSUME GatewayTypeOK, HandInv, NEW n \in Node, pc[n] \in {"arp", "write"}
    PROVE  /\ hand[n] # <<>> /\ hand[n][1] \in Task /\ hand[n] = <<hand[n][1]>>
           /\ hand[n][1].packet \in Packet /\ hand[n][1].by \in Daemon
           /\ hand[n][1].packet \in Around(n)
           /\ pc[n] = "arp" => hand[n][1].packet.dst \in Node
<1>1. PICK t \in Task : hand[n] = <<t>> /\ (pc[n] = "arp" => t.packet.dst \in Node)
  BY DEF HandInv
<1>2. hand[n][1] = t /\ Len(hand[n]) = 1
  BY <1>1
<1>3. t.packet \in Packet /\ t.by \in Daemon
  BY DEF Task
<1>4. 1 \in 1 .. Len(hand[n])
  BY <1>2
<1>5. hand[n][1].packet \in Around(n)
  BY <1>4 DEF Around
<1>6. QED
  BY <1>1, <1>2, <1>3, <1>5

\* The variables that the tasks go through.
CoreTypeOK ==
    /\ rx \in [Node -> Seq(Packet)]
    /\ waits \in [Node -> [Daemon -> Packet \cup {NoPacket}]]
    /\ queue \in [Node -> Seq(Task)] /\ hand \in [Node -> Seq(Task)]
    /\ pc \in [Node -> {"start", "take", "arp", "write"}]
    /\ dest \in [Node -> SUBSET Node]

LEMMA WrittenType ==
    ASSUME GatewayTypeOK, NEW n \in Node, NEW d \in Daemon, NEW p \in Packet, WritePacket(n, d, p)
    PROVE  /\ [by |-> d, packet |-> p] \in Task
           /\ Append(queue[n], [by |-> d, packet |-> p]) \in Seq(Task)
           /\ queue' \in [Node -> Seq(Task)]
           /\ waits' \in [Node -> [Daemon -> Packet \cup {NoPacket}]]
<1>1. [by |-> d, packet |-> p] \in Task
  BY DEF Task
<1>2. queue[n] \in Seq(Task)
  BY DEF GatewayTypeOK
<1>3. Append(queue[n], [by |-> d, packet |-> p]) \in Seq(Task)
  BY <1>1, <1>2, Appended
<1>4. queue' \in [Node -> Seq(Task)]
  BY <1>3 DEF WritePacket, GatewayTypeOK
<1>5. waits' \in [Node -> [Daemon -> Packet \cup {NoPacket}]]
  BY DEF WritePacket, GatewayTypeOK
<1>6. QED
  BY <1>1, <1>3, <1>4, <1>5

\* The station hears the packet written, or does not.
Sent(n) ==
    /\ \E H \in SUBSET dest[n] :
         rx' = [m \in Node |-> IF m \in H THEN Append(rx[m], hand[n][1].packet) ELSE rx[m]]
    /\ waits' = [waits EXCEPT ![n][hand[n][1].by] = NoPacket]
    /\ hand' = [hand EXCEPT ![n] = <<>>]

LEMMA SentType ==
    ASSUME GatewayTypeOK, HandInv, NEW n \in Node, Write(n)
    PROVE  /\ rx' \in [Node -> Seq(Packet)]
           /\ \A m \in Node : \A i \in 1 .. Len(rx'[m]) :
                 rx'[m][i] = hand[n][1].packet \/ \E j \in 1 .. Len(rx[m]) : rx'[m][i] = rx[m][j]
           /\ waits' \in [Node -> [Daemon -> Packet \cup {NoPacket}]]
<1>1. hand[n][1].packet \in Packet /\ hand[n][1].by \in Daemon
  BY InHandIs DEF Write
<1>2. PICK H \in SUBSET dest[n] :
        rx' = [m \in Node |-> IF m \in H THEN Append(rx[m], hand[n][1].packet) ELSE rx[m]]
  BY DEF Write
<1>3. \A m \in Node : rx[m] \in Seq(Packet)
  BY DEF GatewayTypeOK
<1> DEFINE q == hand[n][1].packet
<1>4. \A m \in Node : Append(rx[m], q) \in Seq(Packet)
  BY <1>1, <1>3, Appended
<1>5. rx' \in [Node -> Seq(Packet)]
  BY <1>2, <1>3, <1>4
<1>6. ASSUME NEW m \in Node, NEW i \in 1 .. Len(rx'[m])
      PROVE  rx'[m][i] = q \/ \E j \in 1 .. Len(rx[m]) : rx'[m][i] = rx[m][j]
  <2>1. CASE m \in H
    <3>1. rx'[m] = Append(rx[m], q)
      BY <1>2, <2>1
    <3>2. /\ Len(rx'[m]) = Len(rx[m]) + 1 /\ Len(rx[m]) \in Nat
          /\ \A j \in 1 .. Len(rx[m]) : rx'[m][j] = rx[m][j]
          /\ rx'[m][Len(rx[m]) + 1] = q
      BY <1>1, <1>3, <3>1, Appended
    <3>3. i = Len(rx[m]) + 1 \/ i \in 1 .. Len(rx[m])
      BY <3>2
    <3>4. QED
      BY <3>2, <3>3
  <2>2. CASE m \notin H
    BY <1>2, <2>2
  <2>3. QED
    BY <2>1, <2>2
<1>7. waits' \in [Node -> [Daemon -> Packet \cup {NoPacket}]]
  BY <1>1 DEF Write, GatewayTypeOK
<1>8. QED
  BY <1>5, <1>6, <1>7

LEMMA CoreType ==
    ASSUME GatewayInv, GatewayNext
    PROVE  CoreTypeOK'
<1> USE DEF CoreTypeOK
<1>0. CoreTypeOK /\ GatewayTypeOK /\ HandInv
  BY DEF GatewayInv, GatewayTypeOK
<1>1. CASE Resting
  BY <1>0, <1>1, DrawnType DEF Resting
<1>2. CASE Giving
  <2>0. PICK n \in Node, d \in Daemon : \E p : Free(n, d) /\ Fresh(p) /\ WritePacket(n, d, p)
    BY <1>2 DEF Giving
  <2>1. PICK p : Free(n, d) /\ Fresh(p) /\ WritePacket(n, d, p)
    BY <2>0
  <2>2. p \in Packet
    BY <2>1, FreshKnown, AskedGrows DEF Known
  <2>3. QED
    BY <1>0, <1>2, <2>1, <2>2, DrawnType, WrittenType DEF Giving
<1>3. ASSUME NEW h \in Host, ResolveGateway(h) PROVE CoreTypeOK'
  BY <1>0, <1>3 DEF ResolveGateway
<1>4. ASSUME NEW n \in Node, Take(n) PROVE CoreTypeOK'
  <2>1. Taken(n) /\ Head(queue[n]) \in Task
    BY <1>0, <1>4, TakenTask
  <2>2. Tail(queue[n]) \in Seq(Task) /\ <<Head(queue[n])>> \in Seq(Task)
    BY <1>0, <2>1, Shortened DEF Taken
  <2>3. pc' \in [Node -> {"start", "take", "arp", "write"}] /\ dest' \in [Node -> SUBSET Node]
    BY <1>0, <1>4, TakenTask
  <2>4. QED
    BY <1>0, <2>1, <2>2, <2>3 DEF Taken
<1>5. ASSUME NEW n \in Node, Arp(n) PROVE CoreTypeOK'
  <2>1. hand[n][1].packet.dst \in Node
    BY <1>0, <1>5, InHandIs DEF Arp
  <2>2. PICK mac \in {{hand[n][1].packet.dst} \ {n}, {}} : dest' = [dest EXCEPT ![n] = mac]
    BY <1>5 DEF Arp
  <2>3. mac \in SUBSET Node
    BY <2>1, <2>2
  <2>4. QED
    BY <1>0, <1>5, <2>2, <2>3 DEF Arp
<1>6. ASSUME NEW n \in Node, Write(n) PROVE CoreTypeOK'
  <2>1. <<>> \in Seq(Task)
    OBVIOUS
  <2>2. hand' \in [Node -> Seq(Task)] /\ dest' \in [Node -> SUBSET Node]
        /\ pc' \in [Node -> {"start", "take", "arp", "write"}] /\ queue' = queue
    BY <1>0, <1>6, <2>1 DEF Write
  <2>3. QED
    BY <1>0, <1>6, <2>2, SentType
<1>7. QED
  BY <1>0, <1>1, <1>2, <1>3, <1>4, <1>5, <1>6, Shapes

\* What the system of a host is given.
LEMMA TunStep ==
    ASSUME GatewayTypeOK, GatewayNext
    PROVE  \/ tun' = tun
           \/ \E h \in Host : \E p \in Around(h) :
                 p \in Packet /\ p.dst = h /\ tun' = [tun EXCEPT ![h] = Append(@, p)]
<1>1. ASSUME NEW h \in Host, NEW p, ReceiveForSystem(h, p)
      PROVE  p \in Around(h) /\ p \in Packet /\ p.dst = h /\ tun' = [tun EXCEPT ![h] = Append(@, p)]
  BY <1>1, AddressFacts, ReceivedPacket DEF ReceiveForSystem, ForSystem
<1>2. ASSUME NEW n \in Node, ReceiveStep(n)
      PROVE  tun' = tun \/ (n \in Host /\ \E p : ReceiveForSystem(n, p))
  BY <1>2 DEF ReceiveStep, ReceiveEcho, ReceiveForInternet, ReceiveDropped, ReceiveFails
<1>3. ASSUME NEW n \in Node, WriteStep(n) PROVE tun' = tun
  BY <1>3 DEF WriteStep, Take, Arp, Write, ResolveGateway, historyVars
<1>4. ASSUME SendStep PROVE tun' = tun
  BY <1>4 DEF SendStep, SendTun, CaptureAnswer, CaptureScan, CaptureIcmp, CaptureFor, Captured,
              historyVars
<1>5. QED
  BY <1>1, <1>2, <1>3, <1>4 DEF GatewayNext

\* The variables that no task goes through.
OuterTypeOK ==
    /\ gatewayMac \in [Host -> SUBSET {Gate}]
    /\ ended \in [Node -> BOOLEAN]
    /\ tun \in [Host -> Seq(Packet)] /\ asked \subseteq Packet
    /\ sends \in [Host -> 0 .. MaxSends] /\ captures \in 0 .. MaxCaptures

LEMMA OuterType ==
    ASSUME GatewayTypeOK, GatewayNext
    PROVE  OuterTypeOK'
<1>0. OuterTypeOK
  BY DEF OuterTypeOK, GatewayTypeOK
<1>1. tun' \in [Host -> Seq(Packet)]
  <2>1. ASSUME NEW h \in Host, NEW p \in Packet, tun' = [tun EXCEPT ![h] = Append(@, p)]
        PROVE  tun' \in [Host -> Seq(Packet)]
    <3>1. Append(tun[h], p) \in Seq(Packet)
      BY <1>0, Appended DEF OuterTypeOK
    <3>2. QED
      BY <1>0, <2>1, <3>1 DEF OuterTypeOK
  <2>2. QED
    BY <1>0, <2>1, TunStep DEF OuterTypeOK
<1> DEFINE Others ==
      /\ gatewayMac' \in [Host -> SUBSET {Gate}]
      /\ ended' \in [Node -> BOOLEAN] /\ asked' \subseteq Packet
      /\ sends' \in [Host -> 0 .. MaxSends] /\ captures' \in 0 .. MaxCaptures
<1>2. ASSUME NEW n \in Node, WriteStep(n) PROVE Others
  <2>1. CASE n \in Host /\ ResolveGateway(n)
    <3>1. gatewayMac' \in [Host -> SUBSET {Gate}]
      BY <1>0, <2>1 DEF OuterTypeOK, ResolveGateway
    <3>2. UNCHANGED <<ended, asked, sends, captures>>
      BY <2>1 DEF ResolveGateway, historyVars
    <3>3. QED
      BY <1>0, <3>1, <3>2 DEF OuterTypeOK
  <2>2. CASE Take(n) \/ Arp(n) \/ Write(n)
    <3>1. UNCHANGED <<gatewayMac, ended, asked, sends, captures>>
      BY <2>2 DEF Take, Arp, Write, historyVars
    <3>2. QED
      BY <1>0, <3>1 DEF OuterTypeOK
  <2>3. QED
    BY <1>2, <2>1, <2>2 DEF WriteStep
<1>3. ASSUME NEW n \in Node, ReceiveStep(n) PROVE Others
  BY <1>0, <1>3 DEF OuterTypeOK, ReceiveStep, ReceiveEcho, ReceiveForSystem, ReceiveForInternet,
                    ReceiveDropped, ReceiveFails, Received, writeVars
<1>4. ASSUME NEW h \in Host, SendTun(h) PROVE Others
  <2>1. PICK p \in AppPackets[h] : asked' = asked \cup {p}
    BY <1>4 DEF SendTun
  <2>2. asked' \subseteq Packet
    BY <1>0, <2>1, AppAssumption DEF OuterTypeOK
  <2>3. sends[h] + 1 \in 0 .. MaxSends
    BY <1>0, <1>4, BoundAssumption DEF OuterTypeOK, SendTun
  <2>4. sends' \in [Host -> 0 .. MaxSends]
    BY <1>0, <1>4, <2>3 DEF OuterTypeOK, SendTun
  <2>5. UNCHANGED <<gatewayMac, ended, captures>>
    BY <1>4 DEF SendTun, writeVars
  <2>6. QED
    BY <1>0, <2>2, <2>4, <2>5 DEF OuterTypeOK
<1>5. ASSUME Captured PROVE Others
  <2>1. captures' \in 0 .. MaxCaptures
    BY <1>0, <1>5, BoundAssumption DEF OuterTypeOK, Captured
  <2>2. QED
    BY <1>0, <1>5, <2>1 DEF OuterTypeOK, Captured, writeVars, historyVars
<1>6. SendStep => Captured \/ \E h \in Host : SendTun(h)
  BY DEF SendStep, CaptureAnswer, CaptureScan, CaptureIcmp, CaptureFor
<1>7. QED
  BY <1>1, <1>2, <1>3, <1>4, <1>5, <1>6 DEF GatewayNext, OuterTypeOK

LEMMA GatewayTypeStep ==
    ASSUME GatewayInv, GatewayNext
    PROVE  GatewayTypeOK'
  BY CoreType, OuterType DEF GatewayInv, GatewayTypeOK, CoreTypeOK, OuterTypeOK

-----------------------------------------------------------------------------
(* The hand of the writer and the packets on their way.                    *)

LEMMA HandStep ==
    ASSUME GatewayInv, GatewayNext
    PROVE  HandInv'
<1>0. GatewayTypeOK /\ HandInv
  BY DEF GatewayInv
<1>1. CASE Resting \/ Giving
  BY <1>0, <1>1 DEF Resting, Giving, HandInv
<1>2. ASSUME NEW h \in Host, ResolveGateway(h) PROVE HandInv'
  <2>1. pc \in [Node -> {"start", "take", "arp", "write"}] /\ h \in Node
    BY <1>0, AddressFacts DEF GatewayTypeOK
  <2>2. pc[h] = "start" /\ pc' = [pc EXCEPT ![h] = "take"] /\ hand' = hand
    BY <1>2 DEF ResolveGateway
  <2>3. QED
    BY <1>0, <2>1, <2>2 DEF HandInv
<1>3. ASSUME NEW n \in Node, Take(n) PROVE HandInv'
  <2>1. /\ Taken(n) /\ Head(queue[n]) \in Task
        /\ \/ pc' = [pc EXCEPT ![n] = "arp"] /\ Head(queue[n]).packet.dst \in Node
           \/ pc' = [pc EXCEPT ![n] = "write"]
    BY <1>0, <1>3, TakenTask
  <2>2. pc \in [Node -> {"start", "take", "arp", "write"}] /\ hand \in [Node -> Seq(Task)]
    BY <1>0 DEF GatewayTypeOK
  <2>3. hand' = [hand EXCEPT ![n] = <<Head(queue[n])>>]
    BY <2>1 DEF Taken
  <2>4. ASSUME NEW m \in Node, m # n PROVE pc'[m] = pc[m] /\ hand'[m] = hand[m]
    BY <2>1, <2>2, <2>3, <2>4
  <2>5. hand'[n] = <<Head(queue[n])>> /\ pc'[n] \in {"arp", "write"}
        /\ (pc'[n] = "arp" => Head(queue[n]).packet.dst \in Node)
    BY <2>1, <2>2, <2>3
  <2>6. QED
    BY <1>0, <2>1, <2>4, <2>5 DEF HandInv
<1>4. ASSUME NEW n \in Node, Arp(n) PROVE HandInv'
  <2>1. pc \in [Node -> {"start", "take", "arp", "write"}]
    BY <1>0 DEF GatewayTypeOK
  <2>2. pc[n] = "arp" /\ pc' = [pc EXCEPT ![n] = "write"] /\ hand' = hand
    BY <1>4 DEF Arp
  <2>3. QED
    BY <1>0, <2>1, <2>2 DEF HandInv
<1>5. ASSUME NEW n \in Node, Write(n) PROVE HandInv'
  <2>1. pc \in [Node -> {"start", "take", "arp", "write"}] /\ hand \in [Node -> Seq(Task)]
    BY <1>0 DEF GatewayTypeOK
  <2>2. pc' = [pc EXCEPT ![n] = "take"] /\ hand' = [hand EXCEPT ![n] = <<>>]
    BY <1>5 DEF Write
  <2>3. QED
    BY <1>0, <2>1, <2>2 DEF HandInv
<1>6. QED
  BY <1>0, <1>1, <1>2, <1>3, <1>4, <1>5, Shapes

\* A packet on its way was on its way before or has just come into being.
LEMMA AroundStep ==
    ASSUME GatewayInv, GatewayNext, NEW m \in Node, NEW p \in Around(m)'
    PROVE  Fresh(p) \/ \E k \in Node : p \in Around(k)
<1>0. GatewayTypeOK /\ HandInv
  BY DEF GatewayInv
<1>1. \/ \E i \in 1 .. Len(rx'[m]) : p = rx'[m][i]
      \/ \E i \in 1 .. Len(queue'[m]) : p = queue'[m][i].packet
      \/ \E i \in 1 .. Len(hand'[m]) : p = hand'[m][i].packet
  BY DEF Around
<1>2. /\ \A i \in 1 .. Len(rx[m]) : rx[m][i] \in Around(m)
      /\ \A i \in 1 .. Len(queue[m]) : queue[m][i].packet \in Around(m)
      /\ \A i \in 1 .. Len(hand[m]) : hand[m][i].packet \in Around(m)
  BY DEF Around
<1>3. CASE Drawn /\ queue' = queue /\ hand' = hand
  BY <1>0, <1>1, <1>2, <1>3, DrawnType
<1>4. CASE Giving
  <2>0. PICK n \in Node, d \in Daemon : \E q : Free(n, d) /\ Fresh(q) /\ WritePacket(n, d, q)
    BY <1>4 DEF Giving
  <2>1. PICK q : Free(n, d) /\ Fresh(q) /\ WritePacket(n, d, q)
    BY <2>0
  <2> DEFINE t == [by |-> d, packet |-> q]
  <2>2. q \in Packet /\ t \in Task /\ t.packet = q
    BY <2>1, FreshKnown, AskedGrows DEF Known, Task
  <2>3. queue[m] \in Seq(Task) /\ queue' = [queue EXCEPT ![n] = Append(@, t)]
        /\ queue \in [Node -> Seq(Task)] /\ hand' = hand
    BY <1>0, <1>4, <2>1 DEF GatewayTypeOK, WritePacket, Giving
  <2> HIDE DEF t
  <2>4. \A i \in 1 .. Len(queue'[m]) : queue'[m][i].packet = q
                                        \/ \E j \in 1 .. Len(queue[m]) : queue'[m][i] = queue[m][j]
    <3>1. CASE m = n
      <4>1. queue'[m] = Append(queue[m], t)
        BY <2>3, <3>1
      <4>2. /\ Len(queue'[m]) = Len(queue[m]) + 1 /\ Len(queue[m]) \in Nat
            /\ \A j \in 1 .. Len(queue[m]) : queue'[m][j] = queue[m][j]
            /\ queue'[m][Len(queue[m]) + 1] = t
        BY <2>2, <2>3, <4>1, Appended
      <4>3. \A i \in 1 .. Len(queue'[m]) : i = Len(queue[m]) + 1 \/ i \in 1 .. Len(queue[m])
        BY <4>2
      <4>4. QED
        BY <2>2, <4>2, <4>3
    <3>2. CASE m # n
      BY <2>3, <3>2
    <3>3. QED
      BY <3>1, <3>2
  <2>5. Drawn
    BY <1>4 DEF Giving
  <2>6. \A i \in 1 .. Len(rx'[m]) : \E j \in 1 .. Len(rx[m]) : rx'[m][i] = rx[m][j]
    BY <1>0, <2>5, DrawnType
  <2>7. CASE \E i \in 1 .. Len(rx'[m]) : p = rx'[m][i]
    BY <1>2, <2>6, <2>7
  <2>8. CASE \E i \in 1 .. Len(queue'[m]) : p = queue'[m][i].packet
    BY <1>2, <2>1, <2>4, <2>8
  <2>9. CASE \E i \in 1 .. Len(hand'[m]) : p = hand'[m][i].packet
    BY <1>2, <2>3, <2>9
  <2>10. QED
    BY <1>1, <2>7, <2>8, <2>9
<1>5. ASSUME NEW n \in Node, Take(n) PROVE \E k \in Node : p \in Around(k)
  <2>1. Taken(n)
    BY <1>0, <1>5, TakenTask
  <2>2. /\ queue[n] \in Seq(Task) /\ queue[n] # <<>> /\ rx' = rx
        /\ queue' = [queue EXCEPT ![n] = Tail(@)] /\ hand' = [hand EXCEPT ![n] = <<Head(queue[n])>>]
        /\ queue \in [Node -> Seq(Task)] /\ hand \in [Node -> Seq(Task)]
    BY <1>0, <2>1 DEF GatewayTypeOK, Taken
  <2>3. /\ Head(queue[n]) = queue[n][1] /\ Len(queue[n]) \in Nat \ {0}
        /\ Len(Tail(queue[n])) = Len(queue[n]) - 1
        /\ \A i \in 1 .. Len(Tail(queue[n])) : Tail(queue[n])[i] = queue[n][i + 1]
    BY <2>2, Shortened
  <2>4. CASE m # n
    BY <1>1, <1>2, <2>2, <2>4
  <2>5. CASE m = n
    <3>1. queue'[m] = Tail(queue[n]) /\ hand'[m] = <<Head(queue[n])>>
      BY <2>2, <2>5
    <3>2. \A i \in 1 .. Len(queue'[m]) : i + 1 \in 1 .. Len(queue[n]) /\ queue'[m][i] = queue[n][i + 1]
      BY <2>3, <3>1
    <3>3. \A i \in 1 .. Len(hand'[m]) : hand'[m][i] = queue[n][1]
      BY <2>3, <3>1
    <3>4. 1 \in 1 .. Len(queue[n])
      BY <2>3
    <3>5. QED
      BY <1>1, <1>2, <2>2, <2>5, <3>2, <3>3, <3>4
  <2>6. QED
    BY <2>4, <2>5
<1>6. ASSUME NEW n \in Node, Write(n) PROVE \E k \in Node : p \in Around(k)
  <2>1. hand[n][1].packet \in Around(n)
    BY <1>0, <1>6, InHandIs DEF Write
  <2>2. queue' = queue /\ hand' = [hand EXCEPT ![n] = <<>>] /\ hand \in [Node -> Seq(Task)]
    BY <1>0, <1>6 DEF Write, GatewayTypeOK
  <2>3. \A i \in 1 .. Len(hand'[m]) : \E j \in 1 .. Len(hand[m]) : hand'[m][i] = hand[m][j]
    <3>1. CASE m = n
      <4>1. hand'[m] = <<>> /\ Len(hand'[m]) = 0
        BY <2>2, <3>1
      <4>2. QED
        BY <4>1
    <3>2. CASE m # n
      BY <2>2, <3>2
    <3>3. QED
      BY <3>1, <3>2
  <2>4. \A i \in 1 .. Len(rx'[m]) :
           rx'[m][i] = hand[n][1].packet \/ \E j \in 1 .. Len(rx[m]) : rx'[m][i] = rx[m][j]
    BY <1>0, <1>6, SentType
  <2>5. CASE \E i \in 1 .. Len(rx'[m]) : p = rx'[m][i]
    BY <1>2, <2>1, <2>4, <2>5
  <2>6. CASE \E i \in 1 .. Len(queue'[m]) : p = queue'[m][i].packet
    BY <1>2, <2>2, <2>6
  <2>7. CASE \E i \in 1 .. Len(hand'[m]) : p = hand'[m][i].packet
    BY <1>2, <2>3, <2>7
  <2>8. QED
    BY <1>1, <2>5, <2>6, <2>7
<1>7. ASSUME NEW n \in Node, Arp(n) PROVE \E k \in Node : p \in Around(k)
  BY <1>1, <1>2, <1>7 DEF Arp
<1>8. ASSUME NEW h \in Host, ResolveGateway(h) PROVE \E k \in Node : p \in Around(k)
  BY <1>1, <1>2, <1>8 DEF ResolveGateway
<1>9. QED
  BY <1>0, <1>3, <1>4, <1>5, <1>6, <1>7, <1>8, Shapes DEF Resting

LEMMA PacketsStep ==
    ASSUME GatewayInv, GatewayNext
    PROVE  PacketsInv'
<1> SUFFICES ASSUME NEW m \in Node, NEW p \in Around(m)' PROVE Known(p)'
  BY DEF PacketsInv
<1>1. asked \subseteq asked'
  BY AskedGrows
<1>2. CASE Fresh(p)
  BY <1>1, <1>2, FreshKnown
<1>3. ASSUME NEW k \in Node, p \in Around(k) PROVE Known(p)'
  <2>1. Known(p)
    BY <1>3 DEF GatewayInv, PacketsInv
  <2>2. QED
    BY <1>1, <2>1 DEF Known
<1>4. QED
  BY <1>2, <1>3, AroundStep

-----------------------------------------------------------------------------
(* The tasks of a station and the daemons that wait for them.              *)

LEMMA TaskParts ==
    ASSUME NEW s \in Seq(Task)
    PROVE  /\ DOMAIN s = 1 .. Len(s)
           /\ \A i \in 1 .. Len(s) : s[i] \in Task /\ s[i].by \in Daemon /\ s[i].packet \in Packet
<1>1. DOMAIN s = 1 .. Len(s) /\ \A i \in 1 .. Len(s) : s[i] \in Task
  OBVIOUS
<1>2. \A t \in Task : t.by \in Daemon /\ t.packet \in Packet
  BY DEF Task
<1>3. QED
  BY <1>1, <1>2

\* The tasks in s are those that the daemons wait for.
Waiting(s, w) ==
    \A d \in Daemon :
       /\ {s[i].packet : i \in {j \in DOMAIN s : s[j].by = d}} = {w[d]} \ {NoPacket}
       /\ \A i, j \in DOMAIN s : s[i].by = s[j].by => i = j

\* The same, task by task.
Matched(s, w) ==
    /\ \A i \in 1 .. Len(s) : w[s[i].by] = s[i].packet
    /\ \A d \in Daemon : w[d] # NoPacket => \E i \in 1 .. Len(s) : s[i].by = d
    /\ \A i, j \in 1 .. Len(s) : s[i].by = s[j].by => i = j

LEMMA WaitingIs ==
    ASSUME NEW s \in Seq(Task), NEW w \in [Daemon -> Packet \cup {NoPacket}]
    PROVE  Waiting(s, w) <=> Matched(s, w)
<1>0. DOMAIN s = 1 .. Len(s) /\ \A i \in 1 .. Len(s) : s[i].by \in Daemon /\ s[i].packet \in Packet
  BY TaskParts
<1>1. ASSUME Waiting(s, w) PROVE Matched(s, w)
  <2>1. ASSUME NEW i \in 1 .. Len(s) PROVE w[s[i].by] = s[i].packet
    <3>1. s[i].by \in Daemon /\ i \in {j \in DOMAIN s : s[j].by = s[i].by}
      BY <1>0
    <3>2. s[i].packet \in {s[k].packet : k \in {j \in DOMAIN s : s[j].by = s[i].by}}
      BY <3>1
    <3>3. s[i].packet \in {w[s[i].by]}
      BY <1>1, <3>1, <3>2 DEF Waiting
    <3>4. QED
      BY <3>3
  <2>2. ASSUME NEW d \in Daemon, w[d] # NoPacket PROVE \E i \in 1 .. Len(s) : s[i].by = d
    BY <1>0, <1>1, <2>2 DEF Waiting
  <2>3. \A i, j \in 1 .. Len(s) : s[i].by = s[j].by => i = j
    BY <1>0, <1>1 DEF Waiting, Daemon
  <2>4. QED
    BY <2>1, <2>2, <2>3 DEF Matched
<1>2. ASSUME Matched(s, w) PROVE Waiting(s, w)
  <2>1. ASSUME NEW d \in Daemon
        PROVE  {s[i].packet : i \in {j \in DOMAIN s : s[j].by = d}} = {w[d]} \ {NoPacket}
    <3>1. \A i \in 1 .. Len(s) : s[i].by = d => s[i].packet = w[d] /\ w[d] # NoPacket
      BY <1>0, <1>2, AddressFacts DEF Matched
    <3>2. w[d] # NoPacket => \E i \in 1 .. Len(s) : s[i].by = d
      BY <1>2 DEF Matched
    <3>3. QED
      BY <1>0, <3>1, <3>2
  <2>2. QED
    BY <1>0, <1>2, <2>1 DEF Waiting, Matched
<1>3. QED
  BY <1>1, <1>2

LEMMA TaskAdded ==
    ASSUME NEW s \in Seq(Task), NEW w \in [Daemon -> Packet \cup {NoPacket}], Matched(s, w),
           NEW d \in Daemon, NEW p \in Packet, w[d] = NoPacket
    PROVE  Matched(Append(s, [by |-> d, packet |-> p]), [w EXCEPT ![d] = p])
<1> DEFINE t == [by |-> d, packet |-> p]
           u == Append(s, t)
           v == [w EXCEPT ![d] = p]
<1>0. t \in Task /\ t.by = d /\ t.packet = p
  BY DEF Task
<1>1. /\ Len(u) = Len(s) + 1 /\ Len(s) \in Nat /\ u[Len(s) + 1] = t
      /\ \A i \in 1 .. Len(s) : u[i] = s[i]
  BY <1>0, Appended
<1>2. \A i \in 1 .. Len(s) : s[i].by \in Daemon /\ s[i].packet \in Packet
  BY TaskParts
<1>3. \A i \in 1 .. Len(s) : s[i].by # d
  BY <1>2, AddressFacts DEF Matched
<1>4. v[d] = p /\ \A e \in Daemon : e # d => v[e] = w[e]
  OBVIOUS
<1> HIDE DEF t, u, v
<1>5. \A i \in 1 .. Len(u) : i = Len(s) + 1 \/ i \in 1 .. Len(s)
  BY <1>1
<1>6. Len(s) + 1 \in 1 .. Len(u) /\ \A i \in 1 .. Len(s) : i \in 1 .. Len(u)
  BY <1>1
<1>7. \A i \in 1 .. Len(u) : v[u[i].by] = u[i].packet
  BY <1>0, <1>1, <1>2, <1>3, <1>4, <1>5 DEF Matched
<1>8. \A e \in Daemon : v[e] # NoPacket => \E i \in 1 .. Len(u) : u[i].by = e
  BY <1>0, <1>1, <1>4, <1>6 DEF Matched
<1>9. \A i, j \in 1 .. Len(u) : u[i].by = u[j].by => i = j
  BY <1>0, <1>1, <1>3, <1>5 DEF Matched
<1>10. QED
  BY <1>7, <1>8, <1>9 DEF Matched, t, u, v

LEMMA TaskDropped ==
    ASSUME NEW s \in Seq(Task), s # <<>>, NEW w \in [Daemon -> Packet \cup {NoPacket}],
           Matched(s, w)
    PROVE  Matched(Tail(s), [w EXCEPT ![Head(s).by] = NoPacket])
<1> DEFINE d == Head(s).by
           u == Tail(s)
           v == [w EXCEPT ![d] = NoPacket]
<1>1. /\ Head(s) = s[1] /\ Len(s) \in Nat \ {0} /\ Len(u) = Len(s) - 1
      /\ \A i \in 1 .. Len(u) : u[i] = s[i + 1]
  BY Shortened
<1>2. \A i \in 1 .. Len(s) : s[i].by \in Daemon /\ s[i].packet \in Packet
  BY TaskParts
<1>3. 1 \in 1 .. Len(s) /\ d = s[1].by /\ d \in Daemon
  BY <1>1, <1>2
<1>4. v[d] = NoPacket /\ \A e \in Daemon : e # d => v[e] = w[e]
  BY <1>3
<1> HIDE DEF d, u, v
<1>5. \A i \in 1 .. Len(u) : i + 1 \in 1 .. Len(s) /\ i + 1 # 1 /\ i \in Nat
  BY <1>1
<1>6. \A i \in 1 .. Len(s) : i # 1 => i - 1 \in 1 .. Len(u) /\ (i - 1) + 1 = i
  BY <1>1
<1>7. \A i \in 1 .. Len(u) : u[i].by # d
  BY <1>1, <1>3, <1>5 DEF Matched
<1>8. \A i \in 1 .. Len(u) : v[u[i].by] = u[i].packet
  BY <1>1, <1>2, <1>4, <1>5, <1>7 DEF Matched
<1>9. ASSUME NEW e \in Daemon, v[e] # NoPacket PROVE \E i \in 1 .. Len(u) : u[i].by = e
  <2>1. e # d /\ w[e] # NoPacket
    BY <1>4, <1>9
  <2>2. PICK i \in 1 .. Len(s) : s[i].by = e
    BY <2>1 DEF Matched
  <2>3. i # 1
    BY <1>3, <2>1, <2>2
  <2>4. i - 1 \in 1 .. Len(u) /\ u[i - 1] = s[i]
    BY <1>1, <1>6, <2>3
  <2>5. QED
    BY <2>2, <2>4
<1>10. \A i, j \in 1 .. Len(u) : u[i].by = u[j].by => i = j
  <2> SUFFICES ASSUME NEW i \in 1 .. Len(u), NEW j \in 1 .. Len(u), u[i].by = u[j].by PROVE i = j
    OBVIOUS
  <2>1. i + 1 = j + 1
    BY <1>1, <1>5 DEF Matched
  <2>2. QED
    BY <1>5, <2>1
<1>11. QED
  BY <1>8, <1>9, <1>10 DEF Matched, d, u, v

LEMMA Joins ==
    ASSUME NEW S, NEW s \in Seq(S)
    PROVE  /\ <<>> \o s = s
           /\ s # <<>> => <<Head(s)>> \o Tail(s) = s
           /\ \A x \in S : /\ <<x>> \o s \in Seq(S) /\ <<x>> \o s # <<>>
                           /\ Head(<<x>> \o s) = x /\ Tail(<<x>> \o s) = s
  OBVIOUS

LEMMA AppendJoined ==
    ASSUME NEW S, NEW s \in Seq(S), NEW t \in Seq(S), NEW x \in S
    PROVE  s \o Append(t, x) = Append(s \o t, x)
  OBVIOUS

LEMMA TasksStep ==
    ASSUME GatewayInv, GatewayNext, GatewayTypeOK', HandInv'
    PROVE  NoTaskLost'
<1>0. GatewayTypeOK /\ HandInv
  BY DEF GatewayInv
<1>1. NoTaskLost = \A n \in Node : Waiting(hand[n] \o queue[n], waits[n])
  BY DEF NoTaskLost, Waiting
<1>2. NoTaskLost' = \A n \in Node : Waiting(hand'[n] \o queue'[n], waits'[n])
  BY DEF NoTaskLost, Waiting
<1>3. \A n \in Node : /\ hand[n] \in Seq(Task) /\ queue[n] \in Seq(Task)
                      /\ hand[n] \o queue[n] \in Seq(Task)
                      /\ waits[n] \in [Daemon -> Packet \cup {NoPacket}]
                      /\ hand'[n] \o queue'[n] \in Seq(Task)
                      /\ waits'[n] \in [Daemon -> Packet \cup {NoPacket}]
  BY DEF GatewayInv, GatewayTypeOK
<1>4. \A n \in Node : Matched(hand[n] \o queue[n], waits[n])
  BY <1>1, <1>3, WaitingIs DEF GatewayInv
<1> SUFFICES ASSUME NEW m \in Node PROVE Matched(hand'[m] \o queue'[m], waits'[m])
  BY <1>2, <1>3, WaitingIs
<1>5. CASE UNCHANGED <<waits, queue, hand>>
  BY <1>4, <1>5
<1>6. CASE Giving
  <2>0. PICK n \in Node, d \in Daemon : \E p : Free(n, d) /\ Fresh(p) /\ WritePacket(n, d, p)
    BY <1>6 DEF Giving
  <2>1. PICK p : Free(n, d) /\ Fresh(p) /\ WritePacket(n, d, p)
    BY <2>0
  <2>2. p \in Packet /\ hand' = hand
    BY <1>6, <2>1, FreshKnown, AskedGrows DEF Known, Giving
  <2> DEFINE t == [by |-> d, packet |-> p]
  <2>3. queue' = [queue EXCEPT ![n] = Append(@, t)] /\ waits' = [waits EXCEPT ![n][d] = p]
        /\ waits[n][d] = NoPacket /\ queue \in [Node -> Seq(Task)]
        /\ waits \in [Node -> [Daemon -> Packet \cup {NoPacket}]]
    BY <1>0, <2>1 DEF WritePacket, Free, GatewayTypeOK
  <2>4. CASE m # n
    <3>1. hand'[m] = hand[m] /\ queue'[m] = queue[m] /\ waits'[m] = waits[m]
      BY <2>2, <2>3, <2>4
    <3>2. QED
      BY <1>4, <3>1
  <2>5. CASE m = n
    <3>1. hand'[m] = hand[m] /\ queue'[m] = Append(queue[m], t)
          /\ waits'[m] = [waits[m] EXCEPT ![d] = p]
      BY <2>2, <2>3, <2>5
    <3>2. t \in Task
      BY <2>2 DEF Task
    <3>3. waits[m][d] = NoPacket
      BY <2>3, <2>5
    <3>4. Matched(Append(hand[m] \o queue[m], t), [waits[m] EXCEPT ![d] = p])
      BY <1>3, <1>4, <2>2, <3>3, TaskAdded
    <3> HIDE DEF t
    <3>5. hand'[m] \o queue'[m] = Append(hand[m] \o queue[m], t)
      <4> DEFINE h == hand[m]
                 q == queue[m]
      <4>1. h \in Seq(Task) /\ q \in Seq(Task)
        BY <1>3
      <4> HIDE DEF h, q
      <4>2. h \o Append(q, t) = Append(h \o q, t)
        BY <3>2, <4>1, AppendJoined
      <4>3. QED
        BY <3>1, <4>2 DEF h, q
    <3>6. QED
      BY <3>1, <3>4, <3>5
  <2>6. QED
    BY <2>4, <2>5
<1>7. ASSUME NEW n \in Node, Take(n) PROVE Matched(hand'[m] \o queue'[m], waits'[m])
  <2>1. Taken(n) /\ hand[n] = <<>>
    BY <1>0, <1>7, TakenTask DEF Taken, HandInv
  <2>2. waits' = waits /\ queue \in [Node -> Seq(Task)] /\ hand \in [Node -> Seq(Task)]
        /\ queue' = [queue EXCEPT ![n] = Tail(@)] /\ hand' = [hand EXCEPT ![n] = <<Head(queue[n])>>]
        /\ queue[n] # <<>>
    BY <1>0, <2>1 DEF Taken, GatewayTypeOK
  <2>3. hand'[m] \o queue'[m] = hand[m] \o queue[m]
    <3>1. CASE m # n
      BY <2>2, <3>1
    <3>2. CASE m = n
      <4>1. hand'[m] = <<Head(queue[m])>> /\ queue'[m] = Tail(queue[m])
        BY <2>2, <3>2
      <4>2. <<Head(queue[m])>> \o Tail(queue[m]) = queue[m] /\ <<>> \o queue[m] = queue[m]
        BY <2>2, <3>2, Joins
      <4>3. QED
        BY <2>1, <3>2, <4>1, <4>2
    <3>3. QED
      BY <3>1, <3>2
  <2>4. QED
    BY <1>4, <2>2, <2>3
<1>8. ASSUME NEW n \in Node, Write(n) PROVE Matched(hand'[m] \o queue'[m], waits'[m])
  <2>1. hand[n] = <<hand[n][1]>> /\ hand[n][1] \in Task /\ hand[n][1].by \in Daemon
    BY <1>0, <1>8, InHandIs DEF Write
  <2>2. waits' = [waits EXCEPT ![n][hand[n][1].by] = NoPacket] /\ queue' = queue
        /\ hand' = [hand EXCEPT ![n] = <<>>] /\ hand \in [Node -> Seq(Task)]
        /\ waits \in [Node -> [Daemon -> Packet \cup {NoPacket}]]
    BY <1>0, <1>8 DEF Write, GatewayTypeOK
  <2>3. CASE m # n
    <3>1. hand'[m] = hand[m] /\ queue'[m] = queue[m] /\ waits'[m] = waits[m]
      BY <2>2, <2>3
    <3>2. QED
      BY <1>4, <3>1
  <2>4. CASE m = n
    <3> DEFINE t == hand[n][1]
               s == hand[n] \o queue[n]
    <3>1. hand'[m] = <<>> /\ queue'[m] = queue[m] /\ waits'[m] = [waits[m] EXCEPT ![t.by] = NoPacket]
      BY <2>2, <2>4
    <3>2. s = <<t>> \o queue[n] /\ t \in Task /\ queue[n] \in Seq(Task)
      BY <1>3, <2>1
    <3>3. s \in Seq(Task) /\ s # <<>> /\ Head(s) = t /\ Tail(s) = queue[n]
      <4> HIDE DEF s, t
      <4>1. QED
        BY <3>2, Joins
    <3>4. <<>> \o queue[m] = queue[m]
      BY <1>3, Joins
    <3>5. Matched(s, waits[n])
      BY <1>4
    <3> HIDE DEF s, t
    <3>6. Matched(Tail(s), [waits[n] EXCEPT ![Head(s).by] = NoPacket])
      BY <1>3, <3>3, <3>5, TaskDropped
    <3>7. QED
      BY <2>4, <3>1, <3>3, <3>4, <3>6
  <2>5. QED
    BY <2>3, <2>4
<1>9. ASSUME NEW n \in Node, Arp(n) PROVE UNCHANGED <<waits, queue, hand>>
  BY <1>9 DEF Arp
<1>10. ASSUME NEW h \in Host, ResolveGateway(h) PROVE UNCHANGED <<waits, queue, hand>>
  BY <1>10 DEF ResolveGateway
<1>11. QED
  BY <1>0, <1>5, <1>6, <1>7, <1>8, <1>9, <1>10, Shapes DEF Resting

-----------------------------------------------------------------------------
(* The invariant holds.                                                    *)

LEMMA GatewayInvInit == GatewayInit => GatewayInv
<1> SUFFICES ASSUME GatewayInit PROVE GatewayInv
  OBVIOUS
<1>1. Init
  BY DEF GatewayInit
<1>2. TableInv
  BY <1>1, OrderInit, EntryInit DEF TableInv, ExpectedInv, Init
<1>3. /\ rx = [n \in Node |-> <<>>] /\ queue = [n \in Node |-> <<>>] /\ hand = [n \in Node |-> <<>>]
      /\ waits = [n \in Node |-> [d \in Daemon |-> NoPacket]]
      /\ dest = [n \in Node |-> {}] /\ gatewayMac = [h \in Host |-> {}]
      /\ pc = [n \in Node |-> IF n = Gate THEN "take" ELSE "start"]
      /\ ended = [n \in Node |-> FALSE] /\ tun = [h \in Host |-> <<>>] /\ asked = {}
      /\ sends = [h \in Host |-> 0] /\ captures = 0
  BY DEF GatewayInit
<1>4. rx \in [Node -> Seq(Packet)] /\ queue \in [Node -> Seq(Task)] /\ hand \in [Node -> Seq(Task)]
      /\ tun \in [Host -> Seq(Packet)]
  <2>1. <<>> \in Seq(Packet) /\ <<>> \in Seq(Task)
    OBVIOUS
  <2>2. QED
    BY <1>3, <2>1
<1>5. GatewayTypeOK
  <2>1. sends \in [Host -> 0 .. MaxSends] /\ captures \in 0 .. MaxCaptures
    BY <1>3, BoundAssumption
  <2>2. waits \in [Node -> [Daemon -> Packet \cup {NoPacket}]]
    BY <1>3
  <2>3. pc \in [Node -> {"start", "take", "arp", "write"}] /\ ended \in [Node -> BOOLEAN]
        /\ dest \in [Node -> SUBSET Node] /\ gatewayMac \in [Host -> SUBSET {Gate}] /\ asked \subseteq Packet
    BY <1>3
  <2>4. QED
    BY <1>4, <2>1, <2>2, <2>3 DEF GatewayTypeOK
<1>6. HandInv
  BY <1>3 DEF HandInv
<1>7. PacketsInv
  <2>1. \A n \in Node : Around(n) = {}
    BY <1>3 DEF Around
  <2>2. QED
    BY <2>1 DEF PacketsInv
<1>8. NoTaskLost
  <2>1. \A n \in Node : hand[n] \o queue[n] = <<>> /\ \A d \in Daemon : waits[n][d] = NoPacket
    BY <1>3
  <2>2. \A n \in Node : hand[n] \o queue[n] \in Seq(Task) /\ Len(hand[n] \o queue[n]) = 0
                        /\ waits[n] \in [Daemon -> Packet \cup {NoPacket}]
    BY SMTT(20), <1>4, <1>5, <2>1 DEF GatewayTypeOK
  <2>3. ASSUME NEW n \in Node PROVE Matched(hand[n] \o queue[n], waits[n])
    <3> DEFINE u == hand[n] \o queue[n]
    <3>1. Len(u) = 0 /\ \A d \in Daemon : waits[n][d] = NoPacket
      BY <2>1, <2>2
    <3> HIDE DEF u
    <3>2. Matched(u, waits[n])
      BY <3>1 DEF Matched
    <3>3. QED
      BY <3>2 DEF u
  <2>4. \A n \in Node : Waiting(hand[n] \o queue[n], waits[n])
    BY <2>2, <2>3, WaitingIs
  <2>5. QED
    BY <2>4 DEF NoTaskLost, Waiting
<1>9. QED
  BY <1>2, <1>5, <1>6, <1>7, <1>8 DEF GatewayInv

LEMMA GatewayInvStep == GatewayInv /\ [GatewayNext]_<<tableVars, gatewayVars>> => GatewayInv'
<1> SUFFICES ASSUME GatewayInv, [GatewayNext]_<<tableVars, gatewayVars>> PROVE GatewayInv'
  OBVIOUS
<1>1. CASE GatewayNext
  BY <1>1, GatewayTypeStep, TableKeeps, HandStep, PacketsStep, TasksStep DEF GatewayInv
<1>2. CASE UNCHANGED <<tableVars, gatewayVars>>
  <2>1. GatewayTypeOK' /\ HandInv'
    BY <1>2 DEF GatewayInv, GatewayTypeOK, HandInv, gatewayVars, writeVars, historyVars
  <2>2. TableInv'
    BY <1>2 DEF GatewayInv, TableInv, OrderInv, EveryPortOnce, EntryInv, OnePortEach, ExpectedInv,
                tableVars
  <2>6. UNCHANGED <<rx, queue, hand, waits, asked>>
    BY <1>2 DEF gatewayVars, writeVars, historyVars
  <2>3. PacketsInv'
    <3>1. \A n \in Node : Around(n)' = Around(n)
      BY <2>6 DEF Around
    <3>2. \A p : Known(p)' = Known(p)
      BY <2>6 DEF Known
    <3>3. QED
      BY <3>1, <3>2 DEF GatewayInv, PacketsInv
  <2>4. NoTaskLost'
    <3>1. NoTaskLost = \A n \in Node : Waiting(hand[n] \o queue[n], waits[n])
      BY DEF NoTaskLost, Waiting
    <3>2. NoTaskLost' = \A n \in Node : Waiting(hand'[n] \o queue'[n], waits'[n])
      BY DEF NoTaskLost, Waiting
    <3>3. QED
      BY <2>6, <3>1, <3>2 DEF GatewayInv
  <2>5. QED
    BY <2>1, <2>2, <2>3, <2>4 DEF GatewayInv
<1>3. QED
  BY <1>1, <1>2

LEMMA GatewayInvHolds == GatewaySpec => []GatewayInv
  BY GatewayInvInit, GatewayInvStep, PTL DEF GatewaySpec

\* The variables of the daemons keep their types: only packets that a station or
\* the Internet may send are on their way, to stations of the net.
THEOREM GatewayTypesHold == GatewaySpec => []GatewayTypeOK
<1>1. GatewayInv => GatewayTypeOK
  BY DEF GatewayInv
<1>2. QED
  BY <1>1, GatewayInvHolds, PTL

\* A daemon in write_packet is waited for by the one task it sent, whatever the
\* write daemon meets in its turn, and no task outlives its wait: the channel of
\* tasks never holds more than two.
THEOREM NoTaskIsLost == GatewaySpec => []NoTaskLost
<1>1. GatewayInv => NoTaskLost
  BY DEF GatewayInv
<1>2. QED
  BY <1>1, GatewayInvHolds, PTL

-----------------------------------------------------------------------------
(* Answers.                                                                *)

\* A system answers no request: its adapter does so for it and hands it none.
NoRequestReachesASystem == \A h \in Host : \A p \in AppPackets[h] : p.proto # "echo_rep"

LEMMA FreshHomeward ==
    ASSUME NoRequestReachesASystem, GatewayInv, AnswersGoHome, asked \subseteq asked',
           NEW p, Fresh(p)
    PROVE  Homeward(p)'
<1> SUFFICES /\ p.for # NoFlow => p.for = <<p.dst, p.id>>
             /\ p.proto = "echo_rep" /\ p.src \in Node /\ p.dst \in Host =>
                   \E q \in asked' : q.src = p.dst /\ q.dst = p.src /\ q.proto = "echo_req" /\ q.id = p.id
  BY DEF Homeward, Requested
<1>1. CASE Offered(p)
  <2>1. PICK h \in Host : p \in AppPackets[h]
    BY <1>1 DEF Offered
  <2>2. p.for = NoFlow /\ p.proto # "echo_rep"
    BY <2>1, AppAssumption DEF NoRequestReachesASystem
  <2>3. QED
    BY <2>2
<1>2. CASE Replied(p)
  <2>1. PICK n \in Node : \E q \in Around(n) : q.dst = n /\ q.proto = "echo_req" /\ p = Reply(q)
    BY <1>2 DEF Replied
  <2>2. PICK q \in Around(n) : q.dst = n /\ q.proto = "echo_req" /\ p = Reply(q)
    BY <2>1
  <2>3. q \in Packet /\ Known(q)
    BY DEF GatewayInv, PacketsInv, Known
  <2>4. p = [src |-> q.dst, dst |-> q.src, proto |-> "echo_rep", id |-> q.id, for |-> q.for]
    BY <2>2, <2>3 DEF Reply, Packet
  <2>5. p.src = q.dst /\ p.dst = q.src /\ p.id = q.id /\ p.for = q.for
    BY <2>4
  <2>6. q.for = NoFlow /\ (q.src # Server => q \in asked')
    BY <2>2, <2>3 DEF Known
  <2>7. p.dst \in Host => q \in asked'
    BY <2>5, <2>6, AddressFacts
  <2>8. QED
    BY <2>2, <2>5, <2>6, <2>7
<1>3. ASSUME NEW q, NEW f, NEW proto, p = Inward(q, f, proto),
             f # NoFlow => f \in Flow /\ RouteOf(q) = f
      PROVE  (p.for # NoFlow => p.for = <<p.dst, p.id>>) /\ p.src \notin Node
  <2>1. p.src = Server /\ p.for = f /\ p.dst = RouteOf(q)[1] /\ p.id = RouteOf(q)[2]
    BY <1>3 DEF Inward
  <2>2. f # NoFlow => f = <<f[1], f[2]>>
    BY <1>3, FlowParts
  <2>3. QED
    BY <1>3, <2>1, <2>2, AddressFacts
<1>4. CASE Passed(p)
  <2>1. \A a \in expected : a[2] \in Flow /\ RouteOf(a[1]) = a[2]
    BY DEF AnswersGoHome, GatewayInv, TableInv, ExpectedInv
  <2>2. QED
    BY <1>3, <1>4, <2>1 DEF Passed
<1>5. CASE Reported(p)
  BY <1>5 DEF Reported
<1>6. QED
  BY <1>1, <1>2, <1>4, <1>5 DEF Fresh

LEMMA HomewardGrows ==
    ASSUME asked \subseteq asked', NEW p, Homeward(p)
    PROVE  Homeward(p)'
  BY DEF Homeward, Requested

LEMMA HomewardStep ==
    ASSUME NoRequestReachesASystem, GatewayInv, AnswersGoHome, HomewardInv,
           [GatewayNext]_<<tableVars, gatewayVars>>
    PROVE  HomewardInv'
<1>1. CASE GatewayNext
  <2>1. asked \subseteq asked'
    BY <1>1, AskedGrows
  <2>2. ASSUME NEW n \in Node, NEW p \in Around(n)' PROVE Homeward(p)'
    BY <1>1, <2>1, AroundStep, FreshHomeward, HomewardGrows DEF HomewardInv
  <2>3. ASSUME NEW h \in Host, NEW i \in 1 .. Len(tun'[h]), NEW x, x = tun'[h][i]
        PROVE  x.dst = h /\ Homeward(x)'
    <3>0. tun \in [Host -> Seq(Packet)] /\ GatewayTypeOK
      BY DEF GatewayInv, GatewayTypeOK
    <3>1. CASE i \in 1 .. Len(tun[h]) /\ tun'[h][i] = tun[h][i]
      <4>1. x = tun[h][i] /\ i \in 1 .. Len(tun[h])
        BY <2>3, <3>1
      <4>2. x.dst = h /\ Homeward(x)
        BY <4>1 DEF HomewardInv
      <4>3. QED
        BY <2>1, <4>2, HomewardGrows
    <3>2. ASSUME NEW k \in Host, NEW p \in Around(k), p \in Packet, p.dst = k,
                 tun' = [tun EXCEPT ![k] = Append(@, p)]
          PROVE  x.dst = h /\ Homeward(x)'
      <4>1. CASE h # k
        BY <3>0, <3>1, <3>2, <4>1
      <4>2. CASE h = k
        <5>1. tun'[h] = Append(tun[h], p) /\ tun[h] \in Seq(Packet)
          BY <3>0, <3>2, <4>2
        <5>2. /\ Len(tun'[h]) = Len(tun[h]) + 1 /\ Len(tun[h]) \in Nat
              /\ \A j \in 1 .. Len(tun[h]) : tun'[h][j] = tun[h][j]
              /\ tun'[h][Len(tun[h]) + 1] = p
          BY <3>2, <5>1, Appended
        <5>3. CASE i = Len(tun[h]) + 1
          <6>1. Homeward(p)
            BY AddressFacts DEF HomewardInv
          <6>2. QED
            BY <2>1, <2>3, <3>2, <4>2, <5>2, <5>3, <6>1, HomewardGrows
        <5>4. CASE i \in 1 .. Len(tun[h])
          BY <3>1, <5>2, <5>4
        <5>5. QED
          BY <5>2, <5>3, <5>4
      <4>3. QED
        BY <4>1, <4>2
    <3>3. QED
      BY <1>1, <3>0, <3>1, <3>2, TunStep
  <2>4. \A h \in Host : \A i \in 1 .. Len(tun'[h]) : (tun[h][i].dst = h /\ Homeward(tun[h][i]))'
    <3> SUFFICES ASSUME NEW h \in Host, NEW i \in 1 .. Len(tun'[h])
                 PROVE  (tun[h][i].dst = h /\ Homeward(tun[h][i]))'
      OBVIOUS
    <3>1. PICK x : x = tun'[h][i]
      OBVIOUS
    <3>2. x.dst = h /\ Homeward(x)'
      BY <2>3, <3>1
    <3>3. QED
      BY <3>1, <3>2 DEF Homeward, Requested
  <2>5. QED
    BY <2>2, <2>4 DEF HomewardInv
<1>2. CASE UNCHANGED <<tableVars, gatewayVars>>
  <2>1. UNCHANGED <<rx, queue, hand, tun, asked>>
    BY <1>2 DEF gatewayVars, writeVars, historyVars
  <2>2. \A n \in Node : Around(n)' = Around(n)
    BY <2>1 DEF Around
  <2>3. \A p : Homeward(p) => Homeward(p)'
    BY <2>1, HomewardGrows
  <2>4. \A n \in Node : \A p \in Around(n)' : Homeward(p)'
    BY <2>2, <2>3 DEF HomewardInv
  <2>5. \A h \in Host : \A i \in 1 .. Len(tun'[h]) : (tun[h][i].dst = h /\ Homeward(tun[h][i]))'
    BY <2>1 DEF HomewardInv, Homeward, Requested
  <2>6. QED
    BY <2>4, <2>5 DEF HomewardInv
<1>3. QED
  BY <1>1, <1>2

\* The answers find their flow through the gateway's daemons as they do through
\* the table alone.
LEMMA GatewayAnswersGoHome ==
    ASSUME Undisturbed
    PROVE  GatewaySpec => [](GatewayInv /\ AnswersGoHome)
<1>1. GatewayInit => HomeInv
  BY DEF GatewayInit, Init, HomeInv
<1>2. ASSUME HomeInv, GatewayInv, [GatewayNext]_<<tableVars, gatewayVars>> PROVE HomeInv'
  <2>1. CASE GatewayNext
    <3>1. [Next]_vars
      BY <1>2, <2>1, TableStep DEF vars
    <3>2. QED
      BY <1>2, <3>1, HomeStep DEF GatewayInv, TableInv
  <2>2. CASE UNCHANGED <<tableVars, gatewayVars>>
    BY <1>2, <2>2 DEF HomeInv, tableVars
  <2>3. QED
    BY <1>2, <2>1, <2>2
<1>3. HomeInv => AnswersGoHome
  BY DEF HomeInv, AnswersGoHome, RouteOf, Pool
<1>4. GatewaySpec => []HomeInv
  BY <1>1, <1>2, GatewayInvHolds, PTL DEF GatewaySpec
<1>5. QED
  BY <1>3, <1>4, GatewayInvHolds, PTL

\* While the gateway has a port for every flow and nobody scans its cache, an
\* answer from the Internet that reaches a system is for it and for the port that
\* asked; and a system gets an echo reply only to a request that it sent.
THEOREM AnswersAreForTheAsker ==
    ASSUME Undisturbed, NoRequestReachesASystem
    PROVE  GatewaySpec => []AnswersReachTheAsker
<1>1. GatewayInit => HomewardInv
  <2> SUFFICES ASSUME GatewayInit PROVE HomewardInv
    OBVIOUS
  <2>1. \A n \in Node : Around(n) = {}
    BY DEF GatewayInit, Around
  <2>2. \A h \in Host : Len(tun[h]) = 0
    BY DEF GatewayInit
  <2>3. QED
    BY <2>1, <2>2 DEF HomewardInv
<1>2. HomewardInv /\ GatewayInv /\ AnswersGoHome /\ [GatewayNext]_<<tableVars, gatewayVars>>
        => HomewardInv'
  BY HomewardStep
<1>3. HomewardInv => AnswersReachTheAsker
  BY DEF HomewardInv, Homeward, Requested, AnswersReachTheAsker
<1>4. QED
  BY <1>1, <1>2, <1>3, GatewayAnswersGoHome, PTL DEF GatewaySpec
=============================================================================
