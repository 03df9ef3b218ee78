------------------------------- MODULE TcpConn -------------------------------
(***************************************************************************)
(* A connection of Rateway's TCP (rateway/tcp/conn.rs): its record, the    *)
(* arithmetic of sequence numbers, and what a segment does to it.          *)
(*                                                                         *)
(* Nothing in the program calls `_on_tick`, the only place that sends data *)
(* or a FIN and sets `closed_at`.  So every segment sent is empty, the     *)
(* states FinWait2 and TimeWait are never entered, and `send_times`,       *)
(* `closed` and `closed_at` decide nothing: they are left out.  Overflow   *)
(* wraps, as it does in the release build the README asks for.             *)
(***************************************************************************)
EXTENDS Integers, Sequences

CONSTANTS
    SeqMod,      \* 2^32, the number of sequence numbers
    BufferLen    \* TCP_BUFFER_LEN

ASSUME SeqModAssumption == SeqMod \in Nat /\ SeqMod > 2 /\ SeqMod % 2 = 0
ASSUME BufferLenAssumption == BufferLen \in Nat

-----------------------------------------------------------------------------
(* Sequence numbers.                                                       *)

SeqNumber == 0 .. SeqMod - 1

Add(a, b) == (a + b) % SeqMod
Sub(a, b) == (a - b) % SeqMod

WrappingLt(lhs, rhs) == Sub(lhs, rhs) > SeqMod \div 2

\* x lies strictly between start and end, going up and round.
IsBetweenWrapped(start, x, end) == WrappingLt(start, x) /\ WrappingLt(x, end)

-----------------------------------------------------------------------------
(* Segments and connections.  Bytes are natural numbers.                   *)

Iss == 0
ConnState == {"SynRcvd", "Estab", "FinWait1"}

Connection(Byte) ==
    [state : ConnState, una : SeqNumber, nxt : SeqNumber, rnxt : SeqNumber,
     wnd : 0 .. SeqMod \div 2 - 1, incoming : Seq(Byte), unacked : Seq(Nat)]

\* Every call of `write` passes send.nxt and a limit of 0.  It slices the
\* unacknowledged bytes at send.nxt - send.una before it looks at the limit,
\* and panics where there are not so many.
CanSlice(c) == Sub(c.nxt, c.una) <= Len(c.unacked)

\* send.nxt after a segment that carried a SYN.
AfterSyn(c) ==
    [c EXCEPT !.nxt = IF WrappingLt(@, Add(@, 1)) THEN Add(@, 1) ELSE @]

\* A SYN for a port that listens: the connection as its SYN|ACK leaves it.
Accepted(s) ==
    AfterSyn([state |-> "SynRcvd", una |-> Iss, nxt |-> Iss, rnxt |-> Add(s.seq, 1),
              wnd |-> s.wnd, incoming |-> <<>>, unacked |-> <<>>])

-----------------------------------------------------------------------------
(* What on_packet does: the connection after it, whether an empty segment  *)
(* was written, and whether it panicked.                                   *)

Done(c) == [conn |-> c, replies |-> FALSE, end |-> "none"]
Panicked(c, why) == [conn |-> c, replies |-> FALSE, end |-> why]
Replied(c) ==
    [conn |-> c, replies |-> CanSlice(c), end |-> IF CanSlice(c) THEN "none" ELSE "range"]

InWindow(c, x) == IsBetweenWrapped(Sub(c.rnxt, 1), x, Add(c.rnxt, c.wnd))

\* The acceptance test of RFC 793, 3.3: SYN and FIN count as a byte each.
Acceptable(c, s) ==
    LET slen == Len(s.data) + (IF s.syn THEN 1 ELSE 0) + (IF s.fin THEN 1 ELSE 0) IN
    IF c.wnd = 0
    THEN slen = 0 /\ c.rnxt = s.seq
    ELSE \/ InWindow(c, s.seq)
         \/ slen > 0 /\ InWindow(c, Add(s.seq, slen - 1))

\* Mutant: the byte that stands for the SYN is pruned from the data.
PrunedWithSyn(c, ackn) ==
    LET n == Sub(ackn, c.una) IN
    IF n >= Len(c.unacked) THEN <<>> ELSE SubSeq(c.unacked, n + 1, Len(c.unacked))

\* The bytes an acknowledgement leaves: data starts after the SYN.
Pruned(c, ackn) ==
    LET n == Sub(ackn, IF c.una = Iss THEN Add(c.una, 1) ELSE c.una) IN
    IF n >= Len(c.unacked) THEN <<>> ELSE SubSeq(c.unacked, n + 1, Len(c.unacked))

\* Mutant: what was written counts as sent.
AcknowledgeUnsent(c, ackn) ==
    LET d == [c EXCEPT !.state = IF @ = "SynRcvd"
                                    /\ IsBetweenWrapped(Sub(c.una, 1), ackn, Add(c.nxt, 1))
                                 THEN "Estab" ELSE @]
    IN  IF /\ d.state # "SynRcvd"
           /\ IsBetweenWrapped(c.una, ackn, Add(c.nxt, Len(c.unacked) + 1))
        THEN [d EXCEPT !.unacked = Pruned(c, ackn), !.una = ackn]
        ELSE d

\* The acknowledgement ends the handshake and moves send.una, one from
\* send.una to send.nxt and one from beyond send.una to send.nxt: send.una
\* itself, which acknowledges nothing, ends the handshake all the same.
Acknowledge(c, ackn) ==
    LET d == [c EXCEPT !.state = IF @ = "SynRcvd"
                                    /\ IsBetweenWrapped(Sub(c.una, 1), ackn, Add(c.nxt, 1))
                                 THEN "Estab" ELSE @]
    IN  IF d.state # "SynRcvd" /\ IsBetweenWrapped(c.una, ackn, Add(c.nxt, 1))
        THEN [d EXCEPT !.unacked = Pruned(c, ackn), !.una = ackn]
        ELSE d

\* Mutant: recv.nxt moves by the length of the data although part of it was
\* there.
TakeDataAdvancing(c, s) ==
    LET unread == Sub(c.rnxt, s.seq) IN
    IF s.data = <<>> \/ c.state = "SynRcvd" THEN Done(c)
    ELSE IF unread > Len(s.data) + 1 THEN Panicked(c, "assert")
    ELSE Replied([c EXCEPT !.incoming = @ \o SubSeq(s.data, unread + 1, Len(s.data)),
                           !.rnxt = Add(@, Len(s.data))])

\* The data from recv.nxt on goes to the reader.  A recv.nxt that is not in
\* the data is asserted to be one past it (a FIN sent again); then all of the
\* data is taken.
TakeData(c, s) ==
    LET unread == Sub(c.rnxt, s.seq)
        skip == IF unread > Len(s.data) THEN 0 ELSE unread
    IN  IF s.data = <<>> \/ c.state = "SynRcvd" THEN Done(c)
        ELSE IF unread > Len(s.data) /\ unread # Len(s.data) + 1 THEN Panicked(c, "assert")
        ELSE Replied([c EXCEPT !.incoming = @ \o SubSeq(s.data, skip + 1, Len(s.data)),
                               !.rnxt = Add(s.seq, Len(s.data))])

OnPacket(c, s) ==
    IF ~Acceptable(c, s) THEN Replied(c)
    ELSE IF ~s.ack
    THEN IF ~s.syn THEN Done(c)
         ELSE IF s.data # <<>> THEN Panicked(c, "assert")
         ELSE Done([c EXCEPT !.rnxt = Add(s.seq, 1)])
    ELSE LET r == TakeData(Acknowledge(c, s.ackn), s) IN
         IF s.fin /\ r.end = "none" THEN [r EXCEPT !.end = "unimplemented"] ELSE r

\* `close`: from here on the connection counts as closing, and nothing is sent.
Close(c) == [c EXCEPT !.state = "FinWait1"]
=============================================================================
