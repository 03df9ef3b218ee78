---------------------------- MODULE TcpInterface ----------------------------
(***************************************************************************)
(* Rateway's TCP (rateway/tcp/mod.rs): an interface whose packet loop      *)
(* feeds the connections, a listener for each port that is bound, and a    *)
(* stream for each connection handed out.  They share the manager of the   *)
(* connections under one lock, held while a packet is handled and answered.*)
(*                                                                         *)
(* A peer owns one quad.  Its stream is the bytes 1 .. StreamLen, numbered *)
(* from Irs + 1; it sends any piece of it at any time, so segments may be  *)
(* lost, repeated and reordered at will, each with any of the              *)
(* peer's acknowledgement numbers, which may acknowledge what was never    *)
(* sent, or nothing.  A peer connects once.                                *)
(*                                                                         *)
(* A read of an empty stream spins: the future of rcv_var is not awaited,  *)
(* so its notification wakes nobody and is left out.  `flush` only looks.  *)
(* The drop of the interface sets a flag that nobody reads and waits for   *)
(* the loop, which only a failure ends: from then on nothing is bound.     *)
(***************************************************************************)
EXTENDS TcpConn, Functions

CONSTANTS
    Quads,       \* the peers, each with its address and port and ours
    Ports,       \* the local ports
    PortOf,      \* the local port of a quad
    Irs,         \* the initial sequence number of each peer
    Wnds,        \* the windows that the SYN of each peer may advertise
    Ackns,       \* the acknowledgement numbers that each peer may send
    StreamLen    \* how many bytes a peer has

ASSUME PortOfAssumption == PortOf \in [Quads -> Ports]
ASSUME IrsAssumption == Irs \in [Quads -> SeqNumber]
ASSUME WndsAssumption == Wnds \in [Quads -> SUBSET (0 .. SeqMod \div 2 - 1)]
ASSUME AcknsAssumption == Ackns \in [Quads -> SUBSET SeqNumber]
ASSUME StreamLenAssumption == StreamLen \in Nat

VARIABLES
    loop,        \* the packet loop: "receive", "notify" after a connection
                 \* was queued, or what ended it
    bound,       \* the ports that have a listener
    pending,     \* per port, the quads to accept
    conn,        \* per quad, its connection
    call,        \* per port, where `accept` is
    stream,      \* per quad, its stream: "none", "open", "dropped", or
                 \* "lost" with the listener
    got,         \* per quad, the bytes read so far
    wrote,       \* per quad, how many bytes `write` took
    missed       \* the ports whose accept was between its look at pending
                 \* and its wait when the last notification came

connVars == <<conn, got, wrote>>
acceptVars == <<bound, pending, call, stream, missed>>
vars == <<loop, connVars, acceptVars>>

Byte == 1 .. StreamLen
NoConn == [state |-> "Closed"]
Known(q) == conn[q] # NoConn

Init ==
    /\ loop = "receive"
    /\ bound = {}
    /\ pending = [p \in Ports |-> <<>>]
    /\ conn = [q \in Quads |-> NoConn]
    /\ call = [p \in Ports |-> "out"]
    /\ stream = [q \in Quads |-> "none"]
    /\ got = [q \in Quads |-> <<>>]
    /\ wrote = [q \in Quads |-> 0]
    /\ missed = {}

-----------------------------------------------------------------------------
(* The segments of a peer.                                                 *)

Syn(q, wnd) ==
    [syn |-> TRUE, ack |-> FALSE, fin |-> FALSE, seq |-> Irs[q], ackn |-> 0,
     wnd |-> wnd, data |-> <<>>]

\* The bytes i .. j, none if j = i - 1, with an acknowledgement.  A FIN ends
\* the stream.
Piece(q, i, j, fin, ackn) ==
    [syn |-> FALSE, ack |-> TRUE, fin |-> fin, seq |-> Add(Irs[q], i),
     ackn |-> ackn, wnd |-> 0, data |-> [k \in 1 .. j - i + 1 |-> i + k - 1]]

-----------------------------------------------------------------------------
(* The packet loop.                                                        *)

\* A packet for a known quad; the link may fail under the reply.
ReceiveKnown(q, s) ==
    /\ loop = "receive"
    /\ Known(q)
    /\ LET r == OnPacket(conn[q], s) IN
       /\ conn' = [conn EXCEPT ![q] = r.conn]
       /\ \/ loop' = IF r.end = "none" THEN "receive" ELSE r.end
          \/ r.replies /\ loop' = "link"
    /\ UNCHANGED <<got, wrote, acceptVars>>

\* A SYN of an unknown quad for a port with a listener.  A SYN|ACK that fails
\* ends the loop before the connection is stored.
ReceiveSyn(q, s) ==
    /\ loop = "receive"
    /\ ~Known(q)
    /\ PortOf[q] \in bound
    /\ \/ /\ loop' = "notify"
          /\ conn' = [conn EXCEPT ![q] = Accepted(s)]
          /\ pending' = [pending EXCEPT ![PortOf[q]] = Append(@, q)]
       \/ loop' = "link" /\ UNCHANGED <<conn, pending>>
    /\ UNCHANGED <<got, wrote, bound, call, stream, missed>>

\* Mutant: notify_one, which wakes any one of those that wait.
NotifyOne ==
    /\ loop = "notify"
    /\ loop' = "receive"
    /\ LET waiting == {p \in Ports : call[p] = "wait"} IN
       \E woken \in IF waiting = {} THEN {{}} ELSE {{p} : p \in waiting} :
         call' = [p \in Ports |-> IF p \in woken THEN "look" ELSE call[p]]
    /\ missed' = missed \cup {p \in Ports : call[p] = "gap"}
    /\ UNCHANGED <<connVars, bound, pending, stream>>

\* Out of the lock, every accept that waits is woken, whatever its port.
NotifyPending ==
    /\ loop = "notify"
    /\ loop' = "receive"
    /\ call' = [p \in Ports |-> IF call[p] = "wait" THEN "look" ELSE call[p]]
    /\ missed' = missed \cup {p \in Ports : call[p] = "gap"}
    /\ UNCHANGED <<connVars, bound, pending, stream>>

LoopStep ==
    \/ \E q \in Quads : \E wnd \in Wnds[q] : \/ ReceiveSyn(q, Syn(q, wnd))
                                           \/ ReceiveKnown(q, Syn(q, wnd))
    \/ \E q \in Quads, i \in 1 .. StreamLen + 1 :
         \E j \in i - 1 .. StreamLen : \E fin \in {FALSE, j = StreamLen} :
           \E ackn \in Ackns[q] : ReceiveKnown(q, Piece(q, i, j, fin, ackn))
    \/ NotifyPending

-----------------------------------------------------------------------------
(* The interface and its listeners.                                        *)

Bind(p) ==
    /\ p \notin bound
    /\ bound' = bound \cup {p}
    /\ UNCHANGED <<loop, connVars, pending, call, stream, missed>>

Accept(p) ==
    /\ p \in bound
    /\ call[p] = "out"
    /\ call' = [call EXCEPT ![p] = "look"]
    /\ UNCHANGED <<loop, connVars, bound, pending, stream, missed>>

\* Mutant: the connection stays in the queue.
AcceptPeeks(p) ==
    /\ call[p] = "look"
    /\ IF pending[p] = <<>>
       THEN /\ call' = [call EXCEPT ![p] = "gap"]
            /\ UNCHANGED stream
       ELSE /\ call' = [call EXCEPT ![p] = "out"]
            /\ stream' = [stream EXCEPT ![Head(pending[p])] = "open"]
    /\ missed' = missed \ {p}
    /\ UNCHANGED <<loop, connVars, bound, pending>>

\* The look, under the lock: the first connection of the port, if there is one.
AcceptLooks(p) ==
    /\ call[p] = "look"
    /\ IF pending[p] = <<>>
       THEN /\ call' = [call EXCEPT ![p] = "gap"]
            /\ UNCHANGED <<pending, stream>>
       ELSE /\ call' = [call EXCEPT ![p] = "out"]
            /\ pending' = [pending EXCEPT ![p] = Tail(@)]
            /\ stream' = [stream EXCEPT ![Head(pending[p])] = "open"]
    /\ missed' = missed \ {p}
    /\ UNCHANGED <<loop, connVars, bound>>

\* Out of the lock, a future that hears notifications from here on.
AcceptWaits(p) ==
    /\ call[p] = "gap"
    /\ call' = [call EXCEPT ![p] = "wait"]
    /\ UNCHANGED <<loop, connVars, bound, pending, stream, missed>>

\* The caller drops the future of accept at one of its awaits.
AcceptDropped(p) ==
    /\ call[p] \in {"look", "wait"}
    /\ call' = [call EXCEPT ![p] = "out"]
    /\ missed' = missed \ {p}
    /\ UNCHANGED <<loop, connVars, bound, pending, stream>>

\* The queue goes with the listener; a connection left in it is a panic of
\* the caller, and nobody can reach it any more.
DropListener(p) ==
    /\ p \in bound
    /\ call[p] = "out"
    /\ bound' = bound \ {p}
    /\ pending' = [pending EXCEPT ![p] = <<>>]
    /\ stream' = [q \in Quads |-> IF q \in Range(pending[p]) THEN "lost" ELSE stream[q]]
    /\ UNCHANGED <<loop, connVars, call, missed>>

ListenerStep(p) ==
    \/ Bind(p) \/ Accept(p) \/ AcceptLooks(p) \/ AcceptWaits(p)
    \/ AcceptDropped(p) \/ DropListener(p)

-----------------------------------------------------------------------------
(* The streams.                                                            *)

ReadBytes(q, len) ==
    /\ stream[q] = "open"
    /\ conn[q].incoming # <<>>
    /\ LET n == IF len < Len(conn[q].incoming) THEN len ELSE Len(conn[q].incoming) IN
       /\ got' = [got EXCEPT ![q] = @ \o SubSeq(conn[q].incoming, 1, n)]
       /\ conn' = [conn EXCEPT ![q].incoming = SubSeq(@, n + 1, Len(@))]
    /\ UNCHANGED <<loop, wrote, acceptVars>>

\* Mutant: a buffer that is not full takes all of the bytes.
Room(c) == BufferLen - Len(c.unacked)
WriteUncapped(q, len) ==
    /\ stream[q] = "open"
    /\ Room(conn[q]) > 0
    /\ conn' = [conn EXCEPT ![q].unacked = @ \o [k \in 1 .. len |-> wrote[q] + k]]
    /\ wrote' = [wrote EXCEPT ![q] = @ + len]
    /\ UNCHANGED <<loop, got, acceptVars>>

\* A full buffer is WouldBlock, which changes nothing.
WriteBytes(q, len) ==
    /\ stream[q] = "open"
    /\ Room(conn[q]) > 0
    /\ LET n == IF len < Room(conn[q]) THEN len ELSE Room(conn[q]) IN
       /\ conn' = [conn EXCEPT ![q].unacked = @ \o [k \in 1 .. n |-> wrote[q] + k]]
       /\ wrote' = [wrote EXCEPT ![q] = @ + n]
    /\ UNCHANGED <<loop, got, acceptVars>>

Shutdown(q) ==
    /\ stream[q] = "open"
    /\ conn' = [conn EXCEPT ![q] = Close(@)]
    /\ UNCHANGED <<loop, got, wrote, acceptVars>>

\* The connection stays among the connections.
DropStream(q) ==
    /\ stream[q] = "open"
    /\ stream' = [stream EXCEPT ![q] = "dropped"]
    /\ UNCHANGED <<loop, connVars, bound, pending, call, missed>>

StreamStep(q) ==
    \/ \E len \in 1 .. StreamLen : ReadBytes(q, len)
    \/ \E len \in 1 .. BufferLen + 1 : WriteBytes(q, len)
    \/ Shutdown(q)
    \/ DropStream(q)

Next ==
    \/ LoopStep
    \/ \E p \in Ports : ListenerStep(p)
    \/ \E q \in Quads : StreamStep(q)

\* The runtime polls a loop and an accept that can go on; when packets come
\* and what the program calls is not promised.
Fairness ==
    /\ WF_vars(NotifyPending)
    /\ \A p \in Ports : WF_vars(AcceptLooks(p)) /\ WF_vars(AcceptWaits(p))

Spec == Init /\ [][Next]_vars /\ Fairness
-----------------------------------------------------------------------------
(* Properties.                                                             *)

LoopTypeOK == loop \in {"receive", "notify", "link", "assert", "range", "unimplemented"}

ConnTypeOK ==
    /\ conn \in [Quads -> Connection(Byte) \cup {NoConn}]
    /\ \A q \in Quads : Known(q) => Len(conn[q].unacked) <= BufferLen
    /\ got \in [Quads -> Seq(Byte)]
    /\ wrote \in [Quads -> Nat]

AcceptTypeOK ==
    /\ bound \subseteq Ports
    /\ pending \in [Ports -> Seq(Quads)]
    /\ call \in [Ports -> {"out", "look", "gap", "wait"}]
    /\ stream \in [Quads -> {"none", "open", "dropped", "lost"}]
    /\ missed \subseteq Ports

\* The state has its types; in particular the bytes buffered for sending stay
\* within TCP_BUFFER_LEN (TcpStream::write).
TypeOK == LoopTypeOK /\ ConnTypeOK /\ AcceptTypeOK

\* What the program has read and what waits to be read is the beginning of
\* the peer's stream, whatever pieces of it came, again or out of order, and
\* the next byte acknowledged is the one after it (Connection::on_packet).
StreamIsPrefix ==
    \A q \in Quads : Known(q) =>
        LET taken == got[q] \o conn[q].incoming IN
        /\ taken = [k \in 1 .. Len(taken) |-> k]
        /\ conn[q].rnxt = Add(Irs[q], 1 + Len(taken))

\* Every connection is handed out once and none is forgotten: the queue of
\* a port has exactly the connections that have no stream, each of them once
\* (packet_loop, TcpListener::accept).
HandedOutOnce ==
    \A q \in Quads :
        /\ Known(q) /\ stream[q] = "none" <=> \E p \in Ports : q \in Range(pending[p])
        /\ \A p \in Ports : \A i, k \in 1 .. Len(pending[p]) :
             pending[p][i] = q /\ pending[p][k] = q => i = k /\ p = PortOf[q]

\* An accept that waits beside a connection is about to be notified, unless
\* the notification came between its look and its wait (TcpListener::accept).
StuckOnlyIfMissed ==
    \A p \in Ports :
        call[p] = "wait" /\ pending[p] # <<>> => loop = "notify" \/ p \in missed

\* Nothing the program wrote is dropped, whatever the peer acknowledges: it
\* can only be acknowledged when it has been sent (Connection::on_packet).
WrittenIsKept ==
    \A q \in Quads : Known(q) => conn[q].unacked = [k \in 1 .. wrote[q] |-> k]

\* `write` finds send.nxt past the unacknowledged bytes, and panics, only as
\* long as the SYN is not acknowledged and nothing was written: whatever the
\* peer acknowledges, send.una does not pass send.nxt (Connection::write).
AnsweredOnceAcked ==
    \A q \in Quads : Known(q) /\ ~CanSlice(conn[q]) =>
        conn[q].una = Iss /\ conn[q].unacked = <<>>

\* An accept called while a connection is there returns, or else it missed
\* the notification in that gap (TcpListener::accept).
AcceptReturns ==
    \A p \in Ports :
        call[p] # "out" /\ pending[p] # <<>> ~> call[p] = "out" \/ p \in missed

\* Data that comes before earlier data does not end the packet loop: the
\* only segment that lies beyond recv.nxt is said to be a FIN sent again.
OnlyFinComesTwice == loop # "assert"
=============================================================================
