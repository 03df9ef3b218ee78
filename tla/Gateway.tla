-------------------------------- MODULE Gateway --------------------------------
(***************************************************************************)
(* The daemons of AtewayIoAdapter (rateway/adapter.rs), one per host, and  *)
(* of AtewayIoNat (rateway/nat.rs) on the gateway.  Each station has a     *)
(* receive_daemon and a send_daemon, which hand packets to its             *)
(* write_daemon with `write_packet` and wait until they are written, and   *)
(* the gateway's two translate through one table.                          *)
(*                                                                         *)
(* The link below is abstracted to what AcsmaSocket shows of it: `arp`     *)
(* returns the owner of an address or an error, and a packet written is    *)
(* heard whole or not at all by the stations it is for, whatever `write`   *)
(* returns.  An address of the net stands for the station that has it.     *)
(***************************************************************************)
EXTENDS NatTable

CONSTANTS
    Host,          \* the stations with an adapter
    Gate,          \* the gateway, also its address on the net
    Outer,         \* config.host, the gateway's address on the Internet
    Server,        \* an address on the Internet
    Everybody,     \* the broadcast address of the net
    AppPackets,    \* AppPackets[h]: what the system of h gives to its tun device
    MaxSends,      \* bound: packets each host sends
    MaxCaptures,   \* bound: packets the gateway captures
    Faulty,        \* the stations whose tun device or raw socket may fail
    NoPacket

Node == Host \cup {Gate}
Net == Node \cup {Everybody}

\* A packet: the addresses, the protocol ("udp" stands for TCP as well), the
\* port or identifier the table is about, and the flow that it is an answer to.
Id == {f[2] : f \in Flow} \cup Scanned
Proto == {"echo_req", "echo_rep", "icmp", "udp", "other"}
Packet == [src : Net \cup {Server}, dst : Net \cup {Server, Outer}, proto : Proto,
           id : Id, for : Flow \cup {NoFlow}]
Daemon == {"recv", "send"}
Task == [by : Daemon, packet : Packet]

ASSUME NodeAssumption ==
    /\ Gate \notin Host /\ NoPacket \notin Packet
    /\ {Server, Outer, Everybody} \cap Node = {}
ASSUME FlowAssumption == \A f \in Flow : f \in Host \X Nat
ASSUME AppAssumption ==
    \A h \in Host : \A p \in AppPackets[h] :
        p \in Packet /\ p.src = h /\ p.for = NoFlow /\ <<h, p.id>> \in Flow
ASSUME BoundAssumption == MaxSends \in Nat /\ MaxCaptures \in Nat

VARIABLES
    rx,        \* rx[n]: the packets the reader of n holds
    waits,     \* waits[n][d]: the packet daemon d of n waits for in write_packet
    queue,     \* queue[n]: the tasks sent to write_tx and not yet taken
    pc,        \* pc[n]: write_daemon is at "start", "take", "arp" or "write"
    hand,      \* hand[n]: the tasks write_daemon has taken: one, or none
    dest,      \* dest[n]: the stations the packet in hand is to be written to
    gatewayMac, \* gatewayMac[h]: the result of the first `arp`, {} if an error
    ended,     \* ended[n]: receive_daemon has returned an error
    tun,       \* history: tun[h], the packets given to the system of h
    asked,     \* history: the packets the systems of the hosts have sent
    sends, captures   \* the bounded counters

tableVars == <<lru, entry, expected, since>>
writeVars == <<pc, hand, dest, gatewayMac>>
historyVars == <<tun, asked>>
gatewayVars == <<rx, waits, queue, writeVars, ended, historyVars, sends, captures>>

GatewayInit ==
    /\ Init
    /\ rx = [n \in Node |-> <<>>]
    /\ waits = [n \in Node |-> [d \in Daemon |-> NoPacket]]
    /\ queue = [n \in Node |-> <<>>]
    /\ pc = [n \in Node |-> IF n = Gate THEN "take" ELSE "start"]
    /\ hand = [n \in Node |-> <<>>]
    /\ dest = [n \in Node |-> {}]
    /\ gatewayMac = [h \in Host |-> {}]
    /\ ended = [n \in Node |-> FALSE]
    /\ tun = [h \in Host |-> <<>>] /\ asked = {}
    /\ sends = [h \in Host |-> 0] /\ captures = 0

-----------------------------------------------------------------------------
\* Daemon d of n calls write_packet.
WritePacket(n, d, p) ==
    /\ queue' = [queue EXCEPT ![n] = Append(@, [by |-> d, packet |-> p])]
    /\ waits' = [waits EXCEPT ![n][d] = p]

Free(n, d) == waits[n][d] = NoPacket

\* Mutant: the source of the reply is not set.
ReplyUnswapped(p) == [p EXCEPT !.dst = p.src, !.proto = "echo_rep"]

Reply(p) == [p EXCEPT !.src = p.dst, !.dst = p.src, !.proto = "echo_rep"]

(* The write daemons.                                                      *)

\* Mutant: without a gateway the adapter writes to itself.
ResolveGatewayOwn(h) ==
    /\ pc[h] = "start"
    /\ \E mac \in {{Gate}, {h}} : gatewayMac' = [gatewayMac EXCEPT ![h] = mac]
    /\ pc' = [pc EXCEPT ![h] = "take"]
    /\ UNCHANGED <<tableVars, rx, waits, queue, hand, dest, ended, historyVars, sends, captures>>

\* The adapter asks for its gateway once, before it takes its first task.
ResolveGateway(h) ==
    /\ pc[h] = "start"
    /\ \E mac \in {{Gate}, {}} : gatewayMac' = [gatewayMac EXCEPT ![h] = mac]
    /\ pc' = [pc EXCEPT ![h] = "take"]
    /\ UNCHANGED <<tableVars, rx, waits, queue, hand, dest, ended, historyVars, sends, captures>>

\* Where what leaves the net goes: the gateway writes it to itself.
BeyondNet(n) == IF n = Gate THEN {Gate} ELSE gatewayMac[n]

\* Mutant: the task stays in the queue.
TakePeeks(n) ==
    /\ pc[n] = "take" /\ queue[n] # <<>>
    /\ LET t == Head(queue[n]) IN
       /\ hand' = [hand EXCEPT ![n] = <<t>>]
       /\ IF t.packet.dst \in Node
          THEN pc' = [pc EXCEPT ![n] = "arp"] /\ UNCHANGED dest
          ELSE /\ pc' = [pc EXCEPT ![n] = "write"]
               /\ dest' = [dest EXCEPT ![n] =
                    IF t.packet.dst = Everybody THEN Node \ {n} ELSE BeyondNet(n)]
    /\ UNCHANGED <<tableVars, rx, waits, queue, gatewayMac, ended, historyVars, sends, captures>>

Take(n) ==
    /\ pc[n] = "take" /\ queue[n] # <<>>
    /\ LET t == Head(queue[n]) IN
       /\ hand' = [hand EXCEPT ![n] = <<t>>]
       /\ IF t.packet.dst \in Node
          THEN pc' = [pc EXCEPT ![n] = "arp"] /\ UNCHANGED dest
          ELSE /\ pc' = [pc EXCEPT ![n] = "write"]
               /\ dest' = [dest EXCEPT ![n] =
                    IF t.packet.dst = Everybody THEN Node \ {n} ELSE BeyondNet(n)]
    /\ queue' = [queue EXCEPT ![n] = Tail(@)]
    /\ UNCHANGED <<tableVars, rx, waits, gatewayMac, ended, historyVars, sends, captures>>

\* A packet within the net: its address is resolved each time, and nobody answers
\* for the station's own.
Arp(n) ==
    /\ pc[n] = "arp"
    /\ \E mac \in {{hand[n][1].packet.dst} \ {n}, {}} : dest' = [dest EXCEPT ![n] = mac]
    /\ pc' = [pc EXCEPT ![n] = "write"]
    /\ UNCHANGED <<tableVars, rx, waits, queue, hand, gatewayMac, ended, historyVars, sends, captures>>

\* Mutant: an unresolved destination ends the turn without an answer.
WriteUnlessUnresolved(n) ==
    /\ pc[n] = "write"
    /\ \E H \in SUBSET dest[n] :
         rx' = [m \in Node |-> IF m \in H THEN Append(rx[m], hand[n][1].packet) ELSE rx[m]]
    /\ waits' = IF dest[n] = {} THEN waits ELSE [waits EXCEPT ![n][hand[n][1].by] = NoPacket]
    /\ hand' = [hand EXCEPT ![n] = <<>>] /\ dest' = [dest EXCEPT ![n] = {}]
    /\ pc' = [pc EXCEPT ![n] = "take"]
    /\ UNCHANGED <<tableVars, queue, gatewayMac, ended, historyVars, sends, captures>>

\* The packet is written, if its destination was resolved, and the daemon that
\* waits for it goes on: success and failure differ in a line of the log.
Write(n) ==
    /\ pc[n] = "write"
    /\ \E H \in SUBSET dest[n] :
         rx' = [m \in Node |-> IF m \in H THEN Append(rx[m], hand[n][1].packet) ELSE rx[m]]
    /\ waits' = [waits EXCEPT ![n][hand[n][1].by] = NoPacket]
    /\ hand' = [hand EXCEPT ![n] = <<>>] /\ dest' = [dest EXCEPT ![n] = {}]
    /\ pc' = [pc EXCEPT ![n] = "take"]
    /\ UNCHANGED <<tableVars, queue, gatewayMac, ended, historyVars, sends, captures>>

-----------------------------------------------------------------------------
(* The receive daemons: `read_unchecked` has returned packet p.            *)

Received(n, p) ==
    /\ ~ended[n] /\ Free(n, "recv") /\ rx[n] # <<>>
    /\ p = Head(rx[n])
    /\ rx' = [rx EXCEPT ![n] = Tail(@)]
    /\ UNCHANGED <<writeVars, asked, sends, captures>>

\* An echo request to the station itself is answered.
ReceiveEcho(n, p) ==
    /\ Received(n, p)
    /\ p.dst = n /\ p.proto = "echo_req"
    /\ WritePacket(n, "recv", Reply(p))
    /\ UNCHANGED <<tableVars, ended, tun>>

\* What else is for a host goes to its system.
ForSystem(h, p) == p.dst = h /\ p.proto \in {"echo_rep", "icmp", "udp"}

ReceiveForSystem(h, p) ==
    /\ Received(h, p)
    /\ ForSystem(h, p)
    /\ tun' = [tun EXCEPT ![h] = Append(@, p)]
    /\ UNCHANGED <<tableVars, waits, queue, ended>>

\* The gateway translates what leaves the net and sends it to the Internet.
Leaves(p) == p.dst \notin Net /\ p.proto \in {"echo_req", "echo_rep", "udp"}

ReceiveForInternet(p) ==
    /\ Received(Gate, p)
    /\ Leaves(p)
    /\ Outbound(<<p.src, p.id>>)
    /\ UNCHANGED <<waits, queue, ended, tun>>

\* The rest is dropped: also a broadcast, which is for nobody's address.
ReceiveDropped(n, p) ==
    /\ Received(n, p)
    /\ ~(p.dst = n /\ p.proto = "echo_req")
    /\ n # Gate => ~ForSystem(n, p)
    /\ n = Gate => ~Leaves(p)
    /\ UNCHANGED <<tableVars, waits, queue, ended, tun>>

\* The tun device or the raw socket fails: `?` ends the receive daemon, and the
\* other two, which were spawned, go on.
ReceiveFails(n, p) ==
    /\ n \in Faulty
    /\ Received(n, p)
    /\ IF n = Gate
       THEN Leaves(p) /\ Outbound(<<p.src, p.id>>)
       ELSE ForSystem(n, p) /\ UNCHANGED tableVars
    /\ ended' = [ended EXCEPT ![n] = TRUE]
    /\ UNCHANGED <<waits, queue, tun>>

-----------------------------------------------------------------------------
(* The send daemons.                                                       *)

\* The tun device of h yields a packet; other protocols are dropped.
SendTun(h) ==
    /\ Free(h, "send") /\ sends[h] < MaxSends
    /\ \E p \in AppPackets[h] :
         /\ asked' = asked \cup {p}
         /\ IF p.proto = "other"
            THEN UNCHANGED <<waits, queue>>
            ELSE WritePacket(h, "send", p)
    /\ sends' = [sends EXCEPT ![h] = @ + 1]
    /\ UNCHANGED <<tableVars, rx, writeVars, ended, tun, captures>>

Captured ==
    /\ Free(Gate, "send") /\ captures < MaxCaptures
    /\ captures' = captures + 1
    /\ UNCHANGED <<rx, writeVars, ended, historyVars, sends>>

\* The gateway captures a packet for port q; f is the flow it answers.
CaptureFor(q, f, proto) ==
    /\ Captured
    /\ Backward(q)
    /\ IF RouteOf(q) = NoFlow
       THEN UNCHANGED <<waits, queue>>
       ELSE WritePacket(Gate, "send",
              [src |-> Server, dst |-> RouteOf(q)[1], proto |-> proto,
               id |-> RouteOf(q)[2], for |-> f])

CaptureAnswer ==
    \E a \in expected : \E proto \in {"echo_rep", "udp"} : CaptureFor(a[1], a[2], proto)

CaptureScan ==
    \E q \in Scanned : \E proto \in {"echo_req", "udp"} : CaptureFor(q, NoFlow, proto)

\* An ICMP message that is not an echo is not translated and not dropped: it
\* keeps the gateway's outer address and goes to the writer.
CaptureIcmp ==
    /\ Captured
    /\ \E q \in Scanned :
         WritePacket(Gate, "send", [src |-> Server, dst |-> Outer, proto |-> "icmp",
                                    id |-> q, for |-> NoFlow])
    /\ UNCHANGED tableVars

-----------------------------------------------------------------------------
WriteStep(n) == Take(n) \/ Arp(n) \/ Write(n) \/ (n \in Host /\ ResolveGateway(n))

ReceiveStep(n) ==
    \E p \in {rx[n][i] : i \in 1 .. Len(rx[n])} :
       \/ ReceiveEcho(n, p)
       \/ n \in Host /\ ReceiveForSystem(n, p)
       \/ n = Gate /\ ReceiveForInternet(p)
       \/ ReceiveDropped(n, p)
       \/ ReceiveFails(n, p)

SendStep == (\E h \in Host : SendTun(h)) \/ CaptureAnswer \/ CaptureScan \/ CaptureIcmp

GatewayNext == (\E n \in Node : WriteStep(n) \/ ReceiveStep(n)) \/ SendStep

GatewaySpec == GatewayInit /\ [][GatewayNext]_<<tableVars, gatewayVars>>

\* The runtime runs every task; `arp` and `write` return (CallsReturn).
FairGatewaySpec ==
    /\ GatewaySpec
    /\ \A n \in Node : /\ WF_<<tableVars, gatewayVars>>(WriteStep(n))
                       /\ WF_<<tableVars, gatewayVars>>(ReceiveStep(n))

-----------------------------------------------------------------------------
(* Properties.                                                             *)

\* The type of every variable of the daemons.
GatewayTypeOK ==
    /\ rx \in [Node -> Seq(Packet)]
    /\ waits \in [Node -> [Daemon -> Packet \cup {NoPacket}]]
    /\ queue \in [Node -> Seq(Task)] /\ hand \in [Node -> Seq(Task)]
    /\ pc \in [Node -> {"start", "take", "arp", "write"}]
    /\ dest \in [Node -> SUBSET Node] /\ gatewayMac \in [Host -> SUBSET {Gate}]
    /\ ended \in [Node -> BOOLEAN]
    /\ tun \in [Host -> Seq(Packet)] /\ asked \subseteq Packet
    /\ sends \in [Host -> 0 .. MaxSends] /\ captures \in 0 .. MaxCaptures

\* A daemon in write_packet has its one task in the queue or the hand of its
\* writer, a daemon that runs has none: no wait is forgotten by an early way out
\* of the writer's turn, and no task outlives its wait, so that the unbounded
\* queue never holds more than two.
NoTaskLost ==
    \A n \in Node :
       LET tasks == hand[n] \o queue[n]
       IN  \A d \in Daemon :
             {tasks[i].packet : i \in {j \in DOMAIN tasks : tasks[j].by = d}}
               = {waits[n][d]} \ {NoPacket}
             /\ \A i, j \in DOMAIN tasks : tasks[i].by = tasks[j].by => i = j

\* An answer from the Internet that reaches the system of a host is for it, and
\* for the port that asked: through the table twice, two writers and the link.
\* A system gets an echo reply only to a request that it sent.
AnswersReachTheAsker ==
    \A h \in Host : \A i \in 1 .. Len(tun[h]) :
       LET p == tun[h][i]
       IN  /\ p.for # NoFlow => p.for = <<h, p.id>>
           /\ p.proto = "echo_rep" /\ p.src \in Node =>
                \E q \in asked : q.src = h /\ q.dst = p.src /\ q.proto = "echo_req" /\ q.id = p.id

\* Nothing gets stuck: when no more packets come, every reader that has not ended
\* is emptied and no daemon waits, however the three daemons of a station block
\* each other.
Drained == \A n \in Node : <>[](Free(n, "recv") /\ Free(n, "send") /\ (ended[n] \/ rx[n] = <<>>))
=============================================================================
