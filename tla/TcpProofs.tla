------------------------------ MODULE TcpProofs ------------------------------
(***************************************************************************)
(* Proofs about Rateway's TCP, for any number of peers, ports and bytes:   *)
(* the types; that a connection is handed out once; that an accept misses  *)
(* a notification in one place only; that what is written stays; and that  *)
(* what is read is what the peer sent, each byte once and in order.        *)
(***************************************************************************)
EXTENDS TcpInterface, SequenceTheorems, TLAPS

-----------------------------------------------------------------------------
(* Sequence numbers: sums and differences, without the modulus.            *)

LEMMA SeqModFact == SeqMod \in Nat /\ SeqMod >= 4 /\ SeqMod \div 2 \in Nat
                    /\ SeqMod = 2 * (SeqMod \div 2)
  BY SeqModAssumption

LEMMA AddType == ASSUME NEW a \in Int, NEW b \in Int PROVE Add(a, b) \in SeqNumber
  BY SeqModAssumption DEF Add, SeqNumber

LEMMA SubType == ASSUME NEW a \in Int, NEW b \in Int PROVE Sub(a, b) \in SeqNumber
  BY SeqModAssumption DEF Sub, SeqNumber

LEMMA AddIs ==
    ASSUME NEW a \in SeqNumber, NEW b \in SeqNumber
    PROVE  Add(a, b) = IF a + b < SeqMod THEN a + b ELSE a + b - SeqMod
<1>1. CASE a + b < SeqMod
  BY <1>1, SeqModAssumption DEF Add, SeqNumber
<1>2. CASE a + b >= SeqMod
  BY <1>2, SeqModAssumption DEF Add, SeqNumber
<1>3. QED
  BY <1>1, <1>2, SeqModAssumption DEF SeqNumber

LEMMA SubIs ==
    ASSUME NEW a \in SeqNumber, NEW b \in SeqNumber
    PROVE  Sub(a, b) = IF a >= b THEN a - b ELSE a - b + SeqMod
<1>1. CASE a >= b
  BY <1>1, SeqModAssumption DEF Sub, SeqNumber
<1>2. CASE a < b
  BY <1>2, SeqModAssumption DEF Sub, SeqNumber
<1>3. QED
  BY <1>1, <1>2, SeqModAssumption DEF SeqNumber

LEMMA Distance ==
    ASSUME NEW r \in SeqNumber, NEW x \in SeqNumber, NEW y \in SeqNumber
    PROVE  Sub(Add(r, x), Add(r, y)) = IF x >= y THEN x - y ELSE x - y + SeqMod
<1>1. Add(r, x) \in SeqNumber /\ Add(r, y) \in SeqNumber
  BY AddType, SeqModAssumption DEF SeqNumber
<1>2. Sub(Add(r, x), Add(r, y)) =
        IF Add(r, x) >= Add(r, y) THEN Add(r, x) - Add(r, y)
        ELSE Add(r, x) - Add(r, y) + SeqMod
  BY <1>1, SubIs
<1>3. Add(r, x) = (IF r + x < SeqMod THEN r + x ELSE r + x - SeqMod)
  BY AddIs
<1>4. Add(r, y) = (IF r + y < SeqMod THEN r + y ELSE r + y - SeqMod)
  BY AddIs
<1>5. CASE r + x < SeqMod
  BY <1>2, <1>3, <1>4, <1>5, SeqModAssumption DEF SeqNumber
<1>6. CASE r + x >= SeqMod
  BY <1>2, <1>3, <1>4, <1>6, SeqModAssumption DEF SeqNumber
<1>7. QED
  BY <1>5, <1>6, SeqModAssumption DEF SeqNumber

-----------------------------------------------------------------------------
(* Sequences.                                                              *)

\* The sequence counts from base + 1 on.
CountsFrom(base, u) == \A k \in 1 .. Len(u) : u[k] = base + k

LEMMA LengthZero == ASSUME NEW T, NEW u \in Seq(T), Len(u) = 0 PROVE u = <<>>
  OBVIOUS

LEMMA WholeSeq == ASSUME NEW T, NEW u \in Seq(T) PROVE SubSeq(u, 1, Len(u)) = u
  OBVIOUS

LEMMA PieceOf ==
    ASSUME NEW T, NEW u \in Seq(T), NEW m \in 1 .. Len(u) + 1, NEW n \in m - 1 .. Len(u)
    PROVE  /\ SubSeq(u, m, n) \in Seq(T)
           /\ Len(SubSeq(u, m, n)) = n - m + 1
           /\ \A k \in 1 .. n - m + 1 : SubSeq(u, m, n)[k] = u[m + k - 1]
  OBVIOUS

LEMMA Joined ==
    ASSUME NEW T, NEW u \in Seq(T), NEW v \in Seq(T), NEW base \in Nat,
           CountsFrom(base, u), CountsFrom(base + Len(u), v)
    PROVE  /\ u \o v \in Seq(T)
           /\ Len(u \o v) = Len(u) + Len(v)
           /\ CountsFrom(base, u \o v)
  BY DEF CountsFrom

LEMMA CountedPiece ==
    ASSUME NEW T, NEW u \in Seq(T), NEW base \in Nat, CountsFrom(base, u),
           NEW m \in 1 .. Len(u) + 1, NEW n \in m - 1 .. Len(u)
    PROVE  CountsFrom(base + m - 1, SubSeq(u, m, n))
<1>1. \A k \in 1 .. n - m + 1 : SubSeq(u, m, n)[k] = u[m + k - 1] /\ m + k - 1 \in 1 .. Len(u)
  BY PieceOf
<1>2. Len(SubSeq(u, m, n)) = n - m + 1
  BY PieceOf
<1>3. QED
  BY <1>1, <1>2 DEF CountsFrom

LEMMA Counted ==
    ASSUME NEW T, NEW u \in Seq(T), CountsFrom(0, u)
    PROVE  u = [k \in 1 .. Len(u) |-> k]
  BY DEF CountsFrom

LEMMA CountType ==
    ASSUME NEW n \in Nat, NEW base \in Nat, NEW T, \A k \in 1 .. n : base + k \in T
    PROVE  LET u == [k \in 1 .. n |-> base + k] IN
           u \in Seq(T) /\ Len(u) = n /\ CountsFrom(base, u)
  BY DEF CountsFrom

-----------------------------------------------------------------------------
(* What a segment does to a connection.                                    *)

\* The SYN is all that was sent: send.nxt stays behind it, and send.una is
\* before or behind it.
SynSent(c) == c.nxt = 1 /\ c.una \in {0, 1}

\* What the peers send.
Segments ==
    [syn : BOOLEAN, ack : BOOLEAN, fin : BOOLEAN, seq : SeqNumber, ackn : SeqNumber,
     wnd : 0 .. SeqMod \div 2 - 1, data : Seq(Byte)]

LEMMA SynNumbers ==
    /\ Add(Iss, 1) = 1 /\ Add(1, 1) = 2 /\ Add(0, 1) = 1
    /\ WrappingLt(0, 1) /\ Sub(1, 1) = 0 /\ Sub(1, 0) = 1
    /\ 0 \in SeqNumber /\ 1 \in SeqNumber /\ 2 \in SeqNumber
<1>1. 0 \in SeqNumber /\ 1 \in SeqNumber /\ 2 \in SeqNumber
  BY SeqModFact DEF SeqNumber
<1>2. Add(0, 1) = 1 /\ Add(1, 1) = 2
  BY <1>1, AddIs, SeqModFact
<1>3. Sub(1, 1) = 0 /\ Sub(1, 0) = 1 /\ Sub(0, 1) = SeqMod - 1
  BY <1>1, SubIs, SeqModFact
<1>4. QED
  BY <1>1, <1>2, <1>3, SeqModFact DEF WrappingLt, Iss

\* The only number that acknowledges something is the one behind the SYN, and
\* only as long as the SYN is not acknowledged.
LEMMA OnlySynIsAcked ==
    ASSUME NEW una \in {0, 1}, NEW a \in SeqNumber
    PROVE  IsBetweenWrapped(una, a, 2) <=> una = 0 /\ a = 1
<1>1. una \in SeqNumber /\ 2 \in SeqNumber
  BY SynNumbers
<1>2. Sub(una, a) = IF una >= a THEN una - a ELSE una - a + SeqMod
  BY <1>1, SubIs
<1>3. Sub(a, 2) = IF a >= 2 THEN a - 2 ELSE a - 2 + SeqMod
  BY <1>1, SubIs
<1>4. QED
  BY <1>2, <1>3, SeqModFact DEF IsBetweenWrapped, WrappingLt, SeqNumber

LEMMA AcknowledgeKeeps ==
    ASSUME NEW c \in Connection(Byte), SynSent(c), NEW a \in SeqNumber
    PROVE  LET d == Acknowledge(c, a) IN
           /\ d \in Connection(Byte) /\ SynSent(d) /\ d.unacked = c.unacked
           /\ d.incoming = c.incoming /\ d.rnxt = c.rnxt /\ d.wnd = c.wnd
<1>1. IsBetweenWrapped(c.una, a, Add(c.nxt, 1)) <=> c.una = 0 /\ a = 1
  BY SynNumbers, OnlySynIsAcked DEF SynSent
<1>2. c.una = 0 => Pruned(c, 1) = c.unacked
  <2>1. c.unacked \in Seq(Nat)
    BY DEF Connection
  <2>2. c.una = 0 => Sub(1, IF c.una = Iss THEN Add(c.una, 1) ELSE c.una) = 0
    BY SynNumbers DEF Iss
  <2>3. CASE c.una = 0 /\ Len(c.unacked) = 0
    BY <2>1, <2>2, <2>3, LengthZero DEF Pruned
  <2>4. CASE c.una = 0 /\ Len(c.unacked) > 0
    <3>1. SubSeq(c.unacked, 1, Len(c.unacked)) = c.unacked
      BY <2>1, WholeSeq
    <3>2. 0 + 1 = 1 /\ ~(0 >= Len(c.unacked))
      BY <2>1, <2>4
    <3> DEFINE n == Sub(1, IF c.una = Iss THEN Add(c.una, 1) ELSE c.una)
    <3>3. Pruned(c, 1) = IF n >= Len(c.unacked) THEN <<>>
                         ELSE SubSeq(c.unacked, n + 1, Len(c.unacked))
      BY Zenon DEF Pruned
    <3>4. n = 0
      BY <2>2, <2>4
    <3> HIDE DEF n
    <3>5. QED
      BY <3>1, <3>2, <3>3, <3>4
  <2>5. Len(c.unacked) = 0 \/ Len(c.unacked) > 0
    BY <2>1
  <2>6. QED
    BY <2>3, <2>4, <2>5
<1> DEFINE B == c.state = "SynRcvd" /\ IsBetweenWrapped(Sub(c.una, 1), a, Add(c.nxt, 1))
           d1 == [c EXCEPT !.state = IF B THEN "Estab" ELSE @]
<1>3. d1 \in Connection(Byte) /\ d1.una = c.una /\ d1.nxt = 1 /\ d1.unacked = c.unacked
      /\ d1.incoming = c.incoming /\ d1.rnxt = c.rnxt /\ d1.wnd = c.wnd
  BY DEF Connection, ConnState, SynSent
<1>4. Acknowledge(c, a) =
        IF d1.state # "SynRcvd" /\ IsBetweenWrapped(c.una, a, Add(c.nxt, 1))
        THEN [d1 EXCEPT !.unacked = Pruned(c, a), !.una = a] ELSE d1
  BY Zenon DEF Acknowledge
<1> HIDE DEF d1
<1>5. CASE d1.state # "SynRcvd" /\ c.una = 0 /\ a = 1
  <2>1. Acknowledge(c, a) = [d1 EXCEPT !.unacked = c.unacked, !.una = 1]
    BY <1>1, <1>2, <1>4, <1>5
  <2>2. QED
    BY <1>3, <2>1, SynNumbers DEF Connection, SynSent
<1>6. CASE ~(d1.state # "SynRcvd" /\ c.una = 0 /\ a = 1)
  <2>1. Acknowledge(c, a) = d1
    BY <1>1, <1>4, <1>6
  <2>2. QED
    BY <1>3, <2>1 DEF Connection, SynSent
<1>7. QED
  BY <1>5, <1>6

Ends == {"none", "range", "assert", "unimplemented"}

LEMMA TakeDataKeeps ==
    ASSUME NEW c \in Connection(Byte), SynSent(c), NEW s \in Segments
    PROVE  LET r == TakeData(c, s) IN
           /\ r.conn \in Connection(Byte) /\ SynSent(r.conn)
           /\ r.conn.unacked = c.unacked /\ r.end \in Ends
<1> DEFINE unread == Sub(c.rnxt, s.seq)
           skip == IF unread > Len(s.data) THEN 0 ELSE unread
           rest == SubSeq(s.data, skip + 1, Len(s.data))
           taken == [c EXCEPT !.incoming = @ \o rest, !.rnxt = Add(s.seq, Len(s.data))]
<1>1. s.data \in Seq(Byte) /\ Len(s.data) \in Nat /\ s.seq \in Int
  BY SeqModFact DEF Segments, SeqNumber
<1>2. unread \in Nat
  <2>1. c.rnxt \in Int
    BY SeqModFact DEF Connection, SeqNumber
  <2>2. s.seq \in Int /\ unread \in SeqNumber
    BY <1>1, <2>1, SubType
  <2>3. QED
    BY <2>2, SeqModFact DEF SeqNumber
<1>3. rest \in Seq(Byte)
  BY <1>1, <1>2, PieceOf
<1>4. Add(s.seq, Len(s.data)) \in SeqNumber
  BY <1>1, AddType
<1>5. taken \in Connection(Byte) /\ SynSent(taken) /\ taken.unacked = c.unacked
  <2>1. c.incoming \o rest \in Seq(Byte)
    BY <1>3 DEF Connection
  <2> HIDE DEF rest
  <2>2. QED
    BY <1>4, <2>1 DEF Connection, SynSent
<1>6. TakeData(c, s) \in {Done(c), Panicked(c, "assert"), Replied(taken)}
  BY Zenon DEF TakeData
<1> HIDE DEF taken
<1>7. QED
  BY <1>5, <1>6 DEF Done, Panicked, Replied, Ends

LEMMA OnPacketKeeps ==
    ASSUME NEW c \in Connection(Byte), SynSent(c),
           NEW s \in Segments
    PROVE  LET r == OnPacket(c, s) IN
           /\ r.conn \in Connection(Byte) /\ SynSent(r.conn)
           /\ r.conn.unacked = c.unacked /\ r.end \in Ends
<1>1. CASE ~Acceptable(c, s)
  <2>1. OnPacket(c, s) = Replied(c)
    BY <1>1 DEF OnPacket
  <2>2. QED
    BY <2>1 DEF Replied, Ends
<1>2. CASE Acceptable(c, s) /\ ~s.ack
  <2>1. Add(s.seq, 1) \in SeqNumber
    BY AddType, SeqModFact DEF Segments, SeqNumber
  <2>2. OnPacket(c, s) \in {Done(c), Panicked(c, "assert"), Done([c EXCEPT !.rnxt = Add(s.seq, 1)])}
    BY <1>2, Zenon DEF OnPacket
  <2>3. QED
    BY <2>1, <2>2 DEF Done, Panicked, Ends, Connection, SynSent
<1>3. CASE Acceptable(c, s) /\ s.ack
  <2> DEFINE d == Acknowledge(c, s.ackn)
             t == TakeData(d, s)
  <2>1. d \in Connection(Byte) /\ SynSent(d) /\ d.unacked = c.unacked
    BY AcknowledgeKeeps DEF Segments
  <2>2. /\ t.conn \in Connection(Byte) /\ SynSent(t.conn)
        /\ t.conn.unacked = c.unacked /\ t.end \in Ends
    <3> HIDE DEF d
    <3>1. QED
      BY <2>1, TakeDataKeeps
  <2>3. OnPacket(c, s) = IF s.fin /\ t.end = "none" THEN [t EXCEPT !.end = "unimplemented"] ELSE t
    BY <1>3, Zenon DEF OnPacket
  <2>4. t \in [conn : {t.conn}, replies : {t.replies}, end : {t.end}]
    BY Zenon DEF TakeData, Done, Panicked, Replied
  <2> HIDE DEF t
  <2>5. QED
    BY <2>2, <2>3, <2>4 DEF Ends
<1>4. QED
  BY <1>1, <1>2, <1>3

-----------------------------------------------------------------------------
(* Types.                                                                  *)

LEMMA SynSegment ==
    ASSUME NEW q \in Quads, NEW wnd \in Wnds[q]
    PROVE  Syn(q, wnd) \in Segments /\ ~Syn(q, wnd).ack
<1>1. wnd \in 0 .. SeqMod \div 2 - 1
  BY WndsAssumption
<1>2. Irs[q] \in SeqNumber
  BY IrsAssumption
<1>3. QED
  BY <1>1, <1>2, SynNumbers DEF Syn, Segments

LEMMA PieceSegment ==
    ASSUME NEW q \in Quads, NEW i \in 1 .. StreamLen + 1, NEW j \in i - 1 .. StreamLen,
           NEW fin \in {FALSE, j = StreamLen}, NEW ackn \in Ackns[q]
    PROVE  LET s == Piece(q, i, j, fin, ackn) IN
           /\ s \in Segments /\ s.ackn = ackn /\ ackn \in SeqNumber
           /\ Len(s.data) = j - i + 1 /\ CountsFrom(i - 1, s.data)
<1> DEFINE u == [k \in 1 .. j - i + 1 |-> i - 1 + k]
<1>1. j - i + 1 \in Nat /\ i - 1 \in Nat /\ \A k \in 1 .. j - i + 1 : i - 1 + k \in Byte
  BY StreamLenAssumption DEF Byte
<1>2. u \in Seq(Byte) /\ Len(u) = j - i + 1 /\ CountsFrom(i - 1, u)
  BY <1>1, CountType
<1>3. u = [k \in 1 .. j - i + 1 |-> i + k - 1]
  BY <1>1
<1>4. Add(Irs[q], i) \in SeqNumber /\ ackn \in SeqNumber
  <2>1. Add(Irs[q], i) \in SeqNumber
    BY AddType, IrsAssumption, SeqModFact DEF SeqNumber
  <2>2. QED
    BY <2>1, AcknsAssumption
<1>5. fin \in BOOLEAN
  OBVIOUS
<1>6. 0 \in 0 .. SeqMod \div 2 - 1
  BY SeqModFact
<1> HIDE DEF u
<1>7. QED
  BY <1>2, <1>3, <1>4, <1>5, <1>6 DEF Piece, Segments

LEMMA AcceptedType ==
    ASSUME NEW s \in Segments
    PROVE  /\ Accepted(s) \in Connection(Byte) /\ SynSent(Accepted(s))
           /\ Accepted(s).unacked = <<>> /\ Accepted(s).incoming = <<>>
           /\ Accepted(s).rnxt = Add(s.seq, 1) /\ Accepted(s).state = "SynRcvd"
<1>1. Add(s.seq, 1) \in SeqNumber
  BY AddType, SeqModFact DEF Segments, SeqNumber
<1>2. Accepted(s) = [state |-> "SynRcvd", una |-> 0, nxt |-> 1, rnxt |-> Add(s.seq, 1),
                     wnd |-> s.wnd, incoming |-> <<>>, unacked |-> <<>>]
  BY SynNumbers DEF Accepted, AfterSyn, Iss
<1>3. QED
  BY <1>1, <1>2, SynNumbers DEF Connection, ConnState, Segments, SynSent

LEMMA KnownConn == ASSUME NEW c \in Connection(Byte) PROVE c # NoConn
  BY DEF Connection, ConnState, NoConn

\* A segment for a known connection, whichever it is.
Receive(q) == \E s \in Segments : ReceiveKnown(q, s)

Handshakes == \A q \in Quads : Known(q) => SynSent(conn[q])

\* The alternatives of Next, by what they do.
LEMMA Steps ==
    ASSUME [Next]_vars
    PROVE  \/ \E q \in Quads : \/ Receive(q)
                               \/ \E wnd \in Wnds[q] : ReceiveSyn(q, Syn(q, wnd))
           \/ NotifyPending
           \/ \E p \in Ports : ListenerStep(p)
           \/ \E q \in Quads : StreamStep(q)
           \/ UNCHANGED vars
<1>1. ASSUME NEW q \in Quads, NEW wnd \in Wnds[q], ReceiveKnown(q, Syn(q, wnd)) PROVE Receive(q)
  BY <1>1, SynSegment DEF Receive
<1>2. ASSUME NEW q \in Quads, NEW i \in 1 .. StreamLen + 1, NEW j \in i - 1 .. StreamLen,
             NEW fin \in {FALSE, j = StreamLen}, NEW ackn \in Ackns[q],
             ReceiveKnown(q, Piece(q, i, j, fin, ackn))
      PROVE  Receive(q)
  BY <1>2, PieceSegment DEF Receive
<1>3. QED
  BY <1>1, <1>2 DEF Next, LoopStep

LEMMA InitType == ASSUME Init PROVE TypeOK
<1>1. LoopTypeOK
  BY DEF Init, LoopTypeOK
<1>2. ConnTypeOK
  BY DEF Init, ConnTypeOK, Known
<1>3. AcceptTypeOK
  BY DEF Init, AcceptTypeOK
<1>4. QED
  BY <1>1, <1>2, <1>3 DEF TypeOK

LEMMA ReceiveType ==
    ASSUME TypeOK, Handshakes, NEW q \in Quads, Receive(q)
    PROVE  TypeOK'
<1>1. PICK s \in Segments : ReceiveKnown(q, s)
  BY DEF Receive
<1> DEFINE r == OnPacket(conn[q], s)
<1>2. conn[q] \in Connection(Byte) /\ SynSent(conn[q]) /\ Len(conn[q].unacked) <= BufferLen
  BY <1>1 DEF TypeOK, ConnTypeOK, Handshakes, ReceiveKnown, Known
<1>3. /\ r.conn \in Connection(Byte) /\ r.conn.unacked = conn[q].unacked
      /\ r.end \in Ends
  BY <1>1, <1>2, OnPacketKeeps
<1>4. conn' = [conn EXCEPT ![q] = r.conn]
      /\ (loop' \in {"receive", "link"} \/ (loop' = r.end /\ r.end # "none"))
  BY <1>1 DEF ReceiveKnown
<1>5. UNCHANGED <<got, wrote, acceptVars>>
  BY <1>1 DEF ReceiveKnown
<1> HIDE DEF r
<1>6. LoopTypeOK'
  <2>1. loop' \in {"receive", "link"} \cup (Ends \ {"none"})
    BY <1>3, <1>4
  <2>2. QED
    BY <2>1 DEF LoopTypeOK, Ends
<1>7. ConnTypeOK'
  BY <1>2, <1>3, <1>4, <1>5 DEF TypeOK, ConnTypeOK, Known
<1>8. AcceptTypeOK'
  BY <1>5 DEF TypeOK, AcceptTypeOK, acceptVars
<1>9. QED
  BY <1>6, <1>7, <1>8 DEF TypeOK

LEMMA SynType ==
    ASSUME TypeOK, NEW q \in Quads, NEW wnd \in Wnds[q], ReceiveSyn(q, Syn(q, wnd))
    PROVE  TypeOK'
<1> DEFINE c == Accepted(Syn(q, wnd))
<1>1. c \in Connection(Byte) /\ c.unacked = <<>>
  BY SynSegment, AcceptedType
<1>2. conn' = [conn EXCEPT ![q] = c] \/ conn' = conn
  BY DEF ReceiveSyn
<1>3. pending' = [pending EXCEPT ![PortOf[q]] = Append(pending[PortOf[q]], q)] \/ pending' = pending
  BY DEF ReceiveSyn
<1>4. loop' \in {"notify", "link"} /\ UNCHANGED <<got, wrote, bound, call, stream, missed>>
  BY DEF ReceiveSyn
<1> HIDE DEF c
<1>5. LoopTypeOK'
  BY <1>4 DEF LoopTypeOK
<1>6. ConnTypeOK'
  <2>1. conn' \in [Quads -> Connection(Byte) \cup {NoConn}]
    BY <1>1, <1>2 DEF TypeOK, ConnTypeOK
  <2>2. \A x \in Quads : conn'[x] # NoConn => Len(conn'[x].unacked) <= BufferLen
    <3>1. Len(<<>>) <= BufferLen
      BY BufferLenAssumption
    <3>2. QED
      BY <3>1, <1>1, <1>2 DEF TypeOK, ConnTypeOK, Known
  <2>3. QED
    BY <1>4, <2>1, <2>2 DEF TypeOK, ConnTypeOK, Known
<1>7. AcceptTypeOK'
  <2>1. PortOf[q] \in Ports
    BY PortOfAssumption
  <2>2. Append(pending[PortOf[q]], q) \in Seq(Quads)
    BY <2>1, AppendProperties DEF TypeOK, AcceptTypeOK
  <2>3. pending' \in [Ports -> Seq(Quads)]
    BY <1>3, <2>1, <2>2 DEF TypeOK, AcceptTypeOK
  <2>4. QED
    BY <1>4, <2>3 DEF TypeOK, AcceptTypeOK
<1>8. QED
  BY <1>5, <1>6, <1>7 DEF TypeOK

LEMMA ListenerType ==
    ASSUME TypeOK, NEW p \in Ports, ListenerStep(p)
    PROVE  TypeOK'
<1>1. UNCHANGED <<loop, connVars>>
  BY DEF ListenerStep, Bind, Accept, AcceptLooks, AcceptWaits, AcceptDropped, DropListener
<1>2. LoopTypeOK' /\ ConnTypeOK'
  BY <1>1 DEF TypeOK, LoopTypeOK, ConnTypeOK, connVars, Known
<1>3. AcceptTypeOK'
  <2>1. CASE Bind(p) \/ Accept(p) \/ AcceptWaits(p) \/ AcceptDropped(p)
    BY <2>1 DEF TypeOK, AcceptTypeOK, Bind, Accept, AcceptWaits, AcceptDropped
  <2>2. CASE AcceptLooks(p)
    <3>1. CASE pending[p] = <<>>
      BY <2>2, <3>1 DEF TypeOK, AcceptTypeOK, AcceptLooks
    <3>2. CASE pending[p] # <<>>
      <4>1. Head(pending[p]) \in Quads /\ Tail(pending[p]) \in Seq(Quads)
        BY <3>2 DEF TypeOK, AcceptTypeOK
      <4>2. QED
        BY <2>2, <3>2, <4>1 DEF TypeOK, AcceptTypeOK, AcceptLooks
    <3>3. QED
      BY <3>1, <3>2
  <2>3. CASE DropListener(p)
    BY <2>3 DEF TypeOK, AcceptTypeOK, DropListener
  <2>4. QED
    BY <2>1, <2>2, <2>3 DEF ListenerStep
<1>4. QED
  BY <1>2, <1>3 DEF TypeOK

LEMMA StreamType ==
    ASSUME TypeOK, NEW q \in Quads, StreamStep(q), stream[q] = "open" => Known(q)
    PROVE  TypeOK'
<1> DEFINE c == conn[q]
<1>1. stream[q] = "open" /\ c \in Connection(Byte) /\ Len(c.unacked) <= BufferLen
      /\ UNCHANGED <<loop, bound, pending, call, missed>>
  BY DEF StreamStep, ReadBytes, WriteBytes, Shutdown, DropStream, TypeOK, ConnTypeOK,
         Known, acceptVars, connVars
<1>2. LoopTypeOK'
  BY <1>1 DEF TypeOK, LoopTypeOK
<1>3. ASSUME NEW d \in Connection(Byte), Len(d.unacked) <= BufferLen,
             conn' = [conn EXCEPT ![q] = d]
      PROVE  /\ conn' \in [Quads -> Connection(Byte) \cup {NoConn}]
             /\ \A x \in Quads : Known(x)' => Len(conn'[x].unacked) <= BufferLen
  BY <1>3 DEF TypeOK, ConnTypeOK, Known
<1>4. ConnTypeOK' /\ AcceptTypeOK'
  <2>1. ASSUME NEW len \in 1 .. StreamLen, ReadBytes(q, len) PROVE ConnTypeOK' /\ AcceptTypeOK'
    <3> DEFINE n == IF len < Len(c.incoming) THEN len ELSE Len(c.incoming)
               d == [c EXCEPT !.incoming = SubSeq(@, n + 1, Len(@))]
    <3>1. c.incoming \in Seq(Byte) /\ Len(c.incoming) \in Nat /\ n \in 0 .. Len(c.incoming)
      BY <1>1 DEF Connection
    <3>2. SubSeq(c.incoming, n + 1, Len(c.incoming)) \in Seq(Byte) /\ SubSeq(c.incoming, 1, n) \in Seq(Byte)
      <4> HIDE DEF n
      <4>1. QED
        BY <3>1, PieceOf
    <3>3. d \in Connection(Byte) /\ d.unacked = c.unacked
      BY <1>1, <3>2 DEF Connection
    <3>4. conn' = [conn EXCEPT ![q] = d] /\ got' = [got EXCEPT ![q] = @ \o SubSeq(c.incoming, 1, n)]
          /\ UNCHANGED <<wrote, acceptVars>>
      BY <2>1 DEF ReadBytes
    <3> HIDE DEF n, d
    <3>5. got[q] \o SubSeq(c.incoming, 1, n) \in Seq(Byte)
      BY <3>2 DEF TypeOK, ConnTypeOK
    <3>6. got' \in [Quads -> Seq(Byte)]
      BY <3>4, <3>5 DEF TypeOK, ConnTypeOK
    <3>7. QED
      BY <1>1, <1>3, <3>3, <3>4, <3>6 DEF TypeOK, ConnTypeOK, AcceptTypeOK, acceptVars
  <2>2. ASSUME NEW len \in 1 .. BufferLen + 1, WriteBytes(q, len) PROVE ConnTypeOK' /\ AcceptTypeOK'
    <3> DEFINE n == IF len < Room(c) THEN len ELSE Room(c)
               more == [k \in 1 .. n |-> wrote[q] + k]
               d == [c EXCEPT !.unacked = @ \o more]
    <3>1. c.unacked \in Seq(Nat) /\ Len(c.unacked) \in Nat
      BY <1>1 DEF Connection
    <3>2. n \in Nat /\ Len(c.unacked) + n <= BufferLen
      BY <3>1, <2>2, BufferLenAssumption DEF WriteBytes, Room
    <3>3. more \in Seq(Nat) /\ Len(more) = n
      <4> HIDE DEF n
      <4>1. wrote[q] \in Nat
        BY DEF TypeOK, ConnTypeOK
      <4>2. QED
        BY <3>2, <4>1
    <3>4. conn' = [conn EXCEPT ![q] = d] /\ wrote' = [wrote EXCEPT ![q] = @ + n]
          /\ UNCHANGED <<got, acceptVars>>
      BY <2>2 DEF WriteBytes
    <3> HIDE DEF n, more
    <3>5. c.unacked \o more \in Seq(Nat) /\ Len(c.unacked \o more) <= BufferLen
      <4>1. c.unacked \o more \in Seq(Nat) /\ Len(c.unacked \o more) = Len(c.unacked) + Len(more)
        BY <3>1, <3>3, ConcatProperties
      <4>2. QED
        BY <3>1, <3>2, <3>3, <4>1, BufferLenAssumption
    <3>6. d \in Connection(Byte) /\ Len(d.unacked) <= BufferLen
      BY <1>1, <3>5 DEF Connection
    <3>7. wrote' \in [Quads -> Nat]
      BY <3>2, <3>4 DEF TypeOK, ConnTypeOK
    <3> HIDE DEF d
    <3>8. QED
      BY <1>1, <1>3, <3>4, <3>6, <3>7 DEF TypeOK, ConnTypeOK, AcceptTypeOK, acceptVars
  <2>3. CASE Shutdown(q)
    <3>1. Close(c) \in Connection(Byte) /\ Close(c).unacked = c.unacked
      BY <1>1 DEF Close, Connection, ConnState
    <3>2. conn' = [conn EXCEPT ![q] = Close(c)] /\ UNCHANGED <<got, wrote, acceptVars>>
      BY <2>3 DEF Shutdown
    <3>3. QED
      BY <1>1, <1>3, <3>1, <3>2 DEF TypeOK, ConnTypeOK, AcceptTypeOK, acceptVars
  <2>4. CASE DropStream(q)
    BY <1>1, <2>4 DEF DropStream, TypeOK, ConnTypeOK, AcceptTypeOK, connVars, Known
  <2>5. QED
    BY <2>1, <2>2, <2>3, <2>4 DEF StreamStep
<1>5. QED
  BY <1>2, <1>4 DEF TypeOK

-----------------------------------------------------------------------------
(* Connections: what the peer's acknowledgements leave of them.            *)

LEMMA HandshakesStep ==
    ASSUME TypeOK, Handshakes, [Next]_vars, \A q \in Quads : stream[q] = "open" => Known(q)
    PROVE  Handshakes'
<1>1. ASSUME NEW q \in Quads, NEW d \in Connection(Byte), SynSent(d), conn' = [conn EXCEPT ![q] = d]
      PROVE  Handshakes'
  BY <1>1 DEF Handshakes, Known, TypeOK, ConnTypeOK
<1>2. ASSUME NEW q \in Quads, Receive(q) PROVE Handshakes'
  <2>1. PICK s \in Segments : ReceiveKnown(q, s)
    BY <1>2 DEF Receive
  <2>2. conn[q] \in Connection(Byte) /\ SynSent(conn[q])
    BY <2>1 DEF TypeOK, ConnTypeOK, Handshakes, ReceiveKnown, Known
  <2>3. conn' = [conn EXCEPT ![q] = OnPacket(conn[q], s).conn]
    BY <2>1 DEF ReceiveKnown
  <2>4. QED
    BY <1>1, <2>1, <2>2, <2>3, OnPacketKeeps
<1>3. ASSUME NEW q \in Quads, NEW wnd \in Wnds[q], ReceiveSyn(q, Syn(q, wnd)) PROVE Handshakes'
  <2>1. Accepted(Syn(q, wnd)) \in Connection(Byte) /\ SynSent(Accepted(Syn(q, wnd)))
    BY SynSegment, AcceptedType
  <2>2. conn' = [conn EXCEPT ![q] = Accepted(Syn(q, wnd))] \/ conn' = conn
    BY <1>3 DEF ReceiveSyn
  <2>3. QED
    BY <1>1, <2>1, <2>2 DEF Handshakes, Known
<1>4. ASSUME NEW q \in Quads, StreamStep(q) PROVE Handshakes'
  <2> DEFINE c == conn[q]
  <2>1. c \in Connection(Byte) /\ SynSent(c)
    BY <1>4 DEF StreamStep, ReadBytes, WriteBytes, Shutdown, DropStream, TypeOK, ConnTypeOK,
                Handshakes, Known
  <2>2. CASE conn' = conn
    BY <2>2 DEF Handshakes, Known
  <2>3. ASSUME NEW d, conn' = [conn EXCEPT ![q] = d], d.una = c.una, d.nxt = c.nxt,
               d.state = c.state \/ d.state = "FinWait1"
        PROVE  Handshakes'
    <3>1. SynSent(d)
      BY <2>1, <2>3 DEF SynSent
    <3>2. QED
      BY <2>3, <3>1 DEF Handshakes, Known, TypeOK, ConnTypeOK
  <2>4. ASSUME NEW len \in 1 .. StreamLen, ReadBytes(q, len) PROVE Handshakes'
    <3>1. \E u : conn' = [conn EXCEPT ![q] = [c EXCEPT !.incoming = u]]
      BY <2>4 DEF ReadBytes
    <3>2. PICK u : conn' = [conn EXCEPT ![q] = [c EXCEPT !.incoming = u]]
      BY <3>1
    <3>3. QED
      BY <2>1, <2>3, <3>2 DEF Connection
  <2>5. ASSUME NEW len \in 1 .. BufferLen + 1, WriteBytes(q, len) PROVE Handshakes'
    <3>1. \E u : conn' = [conn EXCEPT ![q] = [c EXCEPT !.unacked = u]]
      BY <2>5 DEF WriteBytes
    <3>2. PICK u : conn' = [conn EXCEPT ![q] = [c EXCEPT !.unacked = u]]
      BY <3>1
    <3>3. QED
      BY <2>1, <2>3, <3>2 DEF Connection
  <2>6. CASE Shutdown(q)
    <3>1. conn' = [conn EXCEPT ![q] = [c EXCEPT !.state = "FinWait1"]]
      BY <2>6 DEF Shutdown, Close
    <3>2. QED
      BY <2>1, <2>3, <3>1 DEF Connection
  <2>7. CASE DropStream(q)
    BY <2>2, <2>7 DEF DropStream, connVars
  <2>8. QED
    BY <1>4, <2>4, <2>5, <2>6, <2>7 DEF StreamStep
<1>5. CASE UNCHANGED connVars
  BY <1>5 DEF Handshakes, Known, connVars
<1>6. ASSUME NEW p \in Ports, ListenerStep(p) PROVE UNCHANGED connVars
  BY <1>6 DEF ListenerStep, Bind, Accept, AcceptLooks, AcceptWaits, AcceptDropped, DropListener
<1>7. QED
  BY <1>2, <1>3, <1>4, <1>5, <1>6, Steps DEF NotifyPending, vars

-----------------------------------------------------------------------------
(* The queues of the listeners and who was told of them.                   *)

\* Of a quad without a connection nobody has heard.
Fresh ==
    \A q \in Quads : ~Known(q) => stream[q] = "none" /\ wrote[q] = 0 /\ got[q] = <<>>

\* An accept that has looked, beside a connection: the notification is due,
\* or came when accept did not wait.
Notified ==
    \A p \in Ports :
        call[p] \in {"gap", "wait"} /\ pending[p] # <<>> => loop = "notify" \/ p \in missed

Queued(q, p) == \E i \in 1 .. Len(pending[p]) : pending[p][i] = q

LEMMA QueuedIsRange ==
    ASSUME AcceptTypeOK, NEW p \in Ports, NEW q PROVE q \in Range(pending[p]) <=> Queued(q, p)
<1>1. pending[p] \in Seq(Quads)
  BY DEF AcceptTypeOK
<1>2. DOMAIN pending[p] = 1 .. Len(pending[p])
  BY <1>1
<1>3. QED
  BY <1>2 DEF Range, Queued

\* HandedOutOnce without ranges.
QueuesHold ==
    /\ \A q \in Quads : Known(q) /\ stream[q] = "none" <=> \E p \in Ports : Queued(q, p)
    /\ \A p \in Ports : \A i, k \in 1 .. Len(pending[p]) :
         pending[p][i] = pending[p][k] => i = k
    /\ \A p \in Ports : \A i \in 1 .. Len(pending[p]) : p = PortOf[pending[p][i]]

LEMMA QueuesHoldIs == ASSUME AcceptTypeOK PROVE QueuesHold => HandedOutOnce
<1> SUFFICES ASSUME QueuesHold PROVE HandedOutOnce
  OBVIOUS
<1>1. ASSUME NEW q \in Quads
      PROVE  Known(q) /\ stream[q] = "none" <=> \E p \in Ports : q \in Range(pending[p])
  BY QueuedIsRange DEF QueuesHold
<1>2. ASSUME NEW q \in Quads, NEW p \in Ports, NEW i \in 1 .. Len(pending[p]),
             NEW k \in 1 .. Len(pending[p]), pending[p][i] = q, pending[p][k] = q
      PROVE  i = k /\ p = PortOf[q]
  BY <1>2 DEF QueuesHold
<1>3. QED
  BY <1>1, <1>2 DEF HandedOutOnce

\* A connection stays, and only a SYN makes one.
LEMMA KnownStep ==
    ASSUME TypeOK, Handshakes, [Next]_vars, \A q \in Quads : stream[q] = "open" => Known(q),
           NEW q \in Quads, Known(q)
    PROVE  Known(q)'
<1>1. conn[q] \in Connection(Byte)
  BY DEF TypeOK, ConnTypeOK, Known
<1>2. ASSUME NEW x \in Quads, NEW d, conn' = [conn EXCEPT ![x] = d], d.state \in ConnState
      PROVE  Known(q)'
  BY <1>2 DEF Known, NoConn, ConnState, TypeOK, ConnTypeOK
<1>3. ASSUME NEW x \in Quads, Receive(x) PROVE Known(q)'
  <2>1. PICK s \in Segments : ReceiveKnown(x, s)
    BY <1>3 DEF Receive
  <2>2. conn[x] \in Connection(Byte) /\ SynSent(conn[x])
    BY <2>1 DEF TypeOK, ConnTypeOK, Handshakes, ReceiveKnown, Known
  <2>3. conn' = [conn EXCEPT ![x] = OnPacket(conn[x], s).conn]
    BY <2>1 DEF ReceiveKnown
  <2>4. OnPacket(conn[x], s).conn \in Connection(Byte)
    BY <2>1, <2>2, OnPacketKeeps
  <2>5. OnPacket(conn[x], s).conn.state \in ConnState
    BY <2>4 DEF Connection
  <2>6. QED
    BY <1>2, <2>3, <2>5
<1>4. ASSUME NEW x \in Quads, NEW wnd \in Wnds[x], ReceiveSyn(x, Syn(x, wnd)) PROVE Known(q)'
  BY <1>4 DEF ReceiveSyn, Known, TypeOK, ConnTypeOK
<1>5. ASSUME NEW x \in Quads, StreamStep(x) PROVE Known(q)'
  <2>1. conn[x] \in Connection(Byte)
    BY <1>5 DEF StreamStep, ReadBytes, WriteBytes, Shutdown, DropStream, TypeOK, ConnTypeOK, Known
  <2>2. conn' = conn \/ \E u : conn' \in {[conn EXCEPT ![x] = [conn[x] EXCEPT !.incoming = u]],
                                        [conn EXCEPT ![x] = [conn[x] EXCEPT !.unacked = u]],
                                        [conn EXCEPT ![x] = [conn[x] EXCEPT !.state = "FinWait1"]]}
    BY <1>5 DEF StreamStep, ReadBytes, WriteBytes, Shutdown, Close, DropStream, connVars
  <2>3. QED
    BY <1>2, <2>1, <2>2 DEF Connection, ConnState, Known
<1>6. CASE UNCHANGED connVars
  BY <1>6 DEF Known, connVars
<1>7. ASSUME NEW p \in Ports, ListenerStep(p) PROVE UNCHANGED connVars
  BY <1>7 DEF ListenerStep, Bind, Accept, AcceptLooks, AcceptWaits, AcceptDropped, DropListener
<1>8. QED
  BY <1>3, <1>4, <1>5, <1>6, <1>7, Steps DEF NotifyPending, vars

LEMMA QueueReceive ==
    ASSUME TypeOK, QueuesHold, Fresh, Notified, NEW q \in Quads, Receive(q),
           \A x \in Quads : Known(x) => Known(x)'
    PROVE  QueuesHold' /\ Fresh' /\ Notified'
<1>1. PICK s \in Segments : ReceiveKnown(q, s)
  BY DEF Receive
<1>2. loop = "receive" /\ UNCHANGED <<got, wrote, bound, pending, call, stream, missed>>
  BY <1>1 DEF ReceiveKnown, acceptVars
<1>3. \A x \in Quads : Known(x)' <=> Known(x)
  BY <1>1 DEF ReceiveKnown, Known, TypeOK, ConnTypeOK
<1>4. QED
  BY <1>2, <1>3 DEF QueuesHold, Fresh, Notified, Queued

LEMMA QueueSyn ==
    ASSUME TypeOK, QueuesHold, Fresh, Notified,
           NEW q \in Quads, NEW wnd \in Wnds[q], ReceiveSyn(q, Syn(q, wnd))
    PROVE  QueuesHold' /\ Fresh' /\ Notified'
<1>1. loop = "receive" /\ ~Known(q) /\ UNCHANGED <<got, wrote, bound, call, stream, missed>>
  BY DEF ReceiveSyn
<1>2. CASE UNCHANGED <<conn, pending>>
  BY <1>1, <1>2 DEF QueuesHold, Fresh, Notified, Queued, Known
<1>3. CASE loop' = "notify" /\ conn' = [conn EXCEPT ![q] = Accepted(Syn(q, wnd))]
           /\ pending' = [pending EXCEPT ![PortOf[q]] = Append(@, q)]
  <2> DEFINE h == PortOf[q]
             u == pending[h]
  <2>1. h \in Ports /\ u \in Seq(Quads) /\ Len(u) \in Nat /\ pending \in [Ports -> Seq(Quads)]
    BY PortOfAssumption DEF TypeOK, AcceptTypeOK
  <2>2. /\ pending'[h] = Append(u, q)
        /\ \A p \in Ports \ {h} : pending'[p] = pending[p]
    BY <1>3, <2>1
  <2>3. /\ Len(Append(u, q)) = Len(u) + 1 /\ Append(u, q)[Len(u) + 1] = q
        /\ \A i \in 1 .. Len(u) : Append(u, q)[i] = u[i]
    BY <2>1
  <2>4. Known(q)' /\ \A x \in Quads \ {q} : Known(x)' <=> Known(x)
    <3>1. Accepted(Syn(q, wnd)) # NoConn
      BY SynSegment, AcceptedType, KnownConn
    <3>2. QED
      BY <1>3, <3>1 DEF Known, TypeOK, ConnTypeOK
  <2>5. stream[q] = "none" /\ \A p \in Ports : ~Queued(q, p)
    BY <1>1 DEF Fresh, QueuesHold
  <2>6. Queued(q, h)'
    BY <2>1, <2>2, <2>3 DEF Queued
  <2>7. \A x \in Quads \ {q}, p \in Ports : Queued(x, p)' <=> Queued(x, p)
    <3>1. ASSUME NEW x \in Quads \ {q} PROVE Queued(x, h)' <=> Queued(x, h)
      BY <2>1, <2>2, <2>3 DEF Queued
    <3>2. ASSUME NEW x \in Quads, NEW p \in Ports \ {h} PROVE Queued(x, p)' <=> Queued(x, p)
      BY <2>2 DEF Queued
    <3>3. QED
      BY <3>1, <3>2
  <2>8. \A x \in Quads : Known(x)' /\ stream'[x] = "none" <=> \E p \in Ports : Queued(x, p)'
    <3>1. ASSUME NEW x \in Quads \ {q}
          PROVE  Known(x)' /\ stream'[x] = "none" <=> \E p \in Ports : Queued(x, p)'
      BY <1>1, <2>4, <2>7 DEF QueuesHold
    <3>2. Known(q)' /\ stream'[q] = "none" /\ \E p \in Ports : Queued(q, p)'
      BY <1>1, <2>1, <2>4, <2>5, <2>6
    <3>3. QED
      BY <3>1, <3>2
  <2>9. ASSUME NEW p \in Ports, NEW i \in 1 .. Len(pending'[p]), NEW k \in 1 .. Len(pending'[p])
        PROVE  (pending'[p][i] = pending'[p][k] => i = k) /\ p = PortOf[pending'[p][i]]
    <3>1. CASE p # h
      BY <2>2, <2>9, <3>1 DEF QueuesHold
    <3>2. CASE p = h
      <4>1. \A m \in 1 .. Len(u) : u[m] # q
        BY <2>1, <2>5 DEF Queued
      <4>2. \A m \in 1 .. Len(u) : h = PortOf[u[m]]
        BY <2>1 DEF QueuesHold
      <4>3. \A m, n \in 1 .. Len(u) : u[m] = u[n] => m = n
        BY <2>1 DEF QueuesHold
      <4>4. i \in 1 .. Len(u) \/ i = Len(u) + 1
        BY <2>1, <2>2, <2>3, <2>9, <3>2
      <4>5. k \in 1 .. Len(u) \/ k = Len(u) + 1
        BY <2>1, <2>2, <2>3, <2>9, <3>2
      <4>6. pending'[p][i] = (IF i = Len(u) + 1 THEN q ELSE u[i])
        BY <2>1, <2>2, <2>3, <3>2, <4>4
      <4>7. pending'[p][k] = (IF k = Len(u) + 1 THEN q ELSE u[k])
        BY <2>1, <2>2, <2>3, <3>2, <4>5
      <4>8. QED
        BY <3>2, <4>1, <4>2, <4>3, <4>4, <4>5, <4>6, <4>7
    <3>3. QED
      BY <3>1, <3>2
  <2>10. QueuesHold'
    BY <2>8, <2>9 DEF QueuesHold
  <2>11. Fresh'
    BY <1>1, <2>4 DEF Fresh
  <2>12. Notified'
    BY <1>3 DEF Notified
  <2>13. QED
    BY <2>10, <2>11, <2>12
<1>4. QED
  BY <1>2, <1>3 DEF ReceiveSyn

LEMMA QueueTaken ==
    ASSUME TypeOK, QueuesHold, Fresh, Notified, NEW p \in Ports,
           AcceptLooks(p), pending[p] # <<>>
    PROVE  QueuesHold' /\ Fresh' /\ Notified'
<1> DEFINE u == pending[p]
<1>1. PICK x \in Quads : x = Head(u)
  BY DEF TypeOK, AcceptTypeOK
<1>2. /\ u \in Seq(Quads) /\ Len(u) \in Nat \ {0} /\ x = u[1] /\ x \in Quads
      /\ Tail(u) \in Seq(Quads) /\ Len(Tail(u)) = Len(u) - 1
      /\ \A i \in 1 .. Len(u) - 1 : Tail(u)[i] = u[i + 1]
  BY <1>1 DEF TypeOK, AcceptTypeOK
<1>3. /\ pending'[p] = Tail(u) /\ \A r \in Ports \ {p} : pending'[r] = pending[r]
      /\ stream'[x] = "open" /\ \A y \in Quads \ {x} : stream'[y] = stream[y]
      /\ call'[p] = "out" /\ \A r \in Ports \ {p} : call'[r] = call[r]
      /\ missed' = missed \ {p} /\ UNCHANGED <<loop, conn, got, wrote>>
  BY <1>1, <1>2 DEF AcceptLooks, TypeOK, AcceptTypeOK, connVars
<1>4. \A y : Queued(y, p)' <=> \E i \in 1 .. Len(u) - 1 : Tail(u)[i] = y
  <2>1. \A y : Queued(y, p)' <=> \E i \in 1 .. Len(Tail(u)) : Tail(u)[i] = y
    BY <1>3 DEF Queued
  <2>2. QED
    BY <1>2, <2>1
<1>5. \A r \in Ports \ {p} : \A y : Queued(y, r)' <=> Queued(y, r)
  BY <1>3 DEF Queued
<1>6. Queued(x, p) /\ \A r \in Ports : Queued(x, r) => r = p
  BY <1>2 DEF Queued, QueuesHold
<1>7. Known(x)
  BY <1>2, <1>6 DEF QueuesHold
<1>8. \A r \in Ports : ~Queued(x, r)'
  <2>1. ~Queued(x, p)'
    <3> SUFFICES ASSUME NEW i \in 1 .. Len(u) - 1, Tail(u)[i] = x PROVE FALSE
      BY <1>4
    <3>1. i + 1 \in 1 .. Len(u) /\ 1 \in 1 .. Len(u) /\ u[i + 1] = u[1]
      BY <1>2
    <3>2. i + 1 = 1
      BY <3>1 DEF QueuesHold
    <3>3. QED
      BY <3>2
  <2>2. QED
    BY <1>6, <1>5, <2>1
<1>9. ASSUME NEW y \in Quads \ {x}, NEW r \in Ports PROVE Queued(y, r)' <=> Queued(y, r)
  <2>1. CASE r # p
    BY <1>5, <2>1
  <2>2. CASE r = p
    <3>1. ASSUME NEW i \in 1 .. Len(u), u[i] = y PROVE i - 1 \in 1 .. Len(u) - 1 /\ Tail(u)[i - 1] = y
      <4>1. i # 1
        BY <1>2, <3>1
      <4>2. i - 1 \in 1 .. Len(u) - 1 /\ (i - 1) + 1 = i
        BY <1>2, <4>1
      <4>3. QED
        BY <1>2, <3>1, <4>2
    <3>2. ASSUME NEW i \in 1 .. Len(u) - 1, Tail(u)[i] = y PROVE i + 1 \in 1 .. Len(u) /\ u[i + 1] = y
      BY <1>2, <3>2
    <3>3. Queued(y, p) <=> \E i \in 1 .. Len(u) : u[i] = y
      BY DEF Queued
    <3>4. QED
      BY <1>4, <2>2, <3>1, <3>2, <3>3
  <2>3. QED
    BY <2>1, <2>2
<1>10. ASSUME NEW y \in Quads
      PROVE  Known(y)' /\ stream'[y] = "none" <=> \E r \in Ports : Queued(y, r)'
  <2>1. CASE y = x
    BY <1>3, <1>8, <2>1
  <2>2. CASE y # x
    BY <1>3, <1>9, <2>2 DEF QueuesHold, Known
  <2>3. QED
    BY <2>1, <2>2
<1>11. ASSUME NEW r \in Ports, NEW i \in 1 .. Len(pending'[r]), NEW k \in 1 .. Len(pending'[r])
      PROVE  (pending'[r][i] = pending'[r][k] => i = k) /\ r = PortOf[pending'[r][i]]
  <2>1. CASE r # p
    BY <1>3, <1>11, <2>1 DEF QueuesHold
  <2>2. CASE r = p
    <3>1. /\ i + 1 \in 1 .. Len(u) /\ pending'[r][i] = u[i + 1]
          /\ k + 1 \in 1 .. Len(u) /\ pending'[r][k] = u[k + 1]
      <4>1. i \in 1 .. Len(Tail(u)) /\ k \in 1 .. Len(Tail(u))
        BY <1>3, <1>11, <2>2
      <4>2. i \in 1 .. Len(u) - 1 /\ k \in 1 .. Len(u) - 1
        BY <1>2, <4>1
      <4>3. pending'[r][i] = Tail(u)[i] /\ pending'[r][k] = Tail(u)[k]
        BY <1>3, <2>2
      <4>4. QED
        BY <1>2, <4>2, <4>3
    <3>2. (u[i + 1] = u[k + 1] => i + 1 = k + 1) /\ p = PortOf[u[i + 1]]
      BY <3>1 DEF QueuesHold
    <3>3. QED
      BY <1>2, <1>3, <1>11, <2>2, <3>1, <3>2
  <2>3. QED
    BY <2>1, <2>2
<1>12. QueuesHold'
  BY <1>10, <1>11 DEF QueuesHold
<1>13. Fresh'
  BY <1>3, <1>7 DEF Fresh, Known
<1>14. Notified'
  <2> SUFFICES ASSUME NEW r \in Ports, call'[r] \in {"gap", "wait"}, pending'[r] # <<>>
               PROVE  loop' = "notify" \/ r \in missed'
    BY DEF Notified
  <2>1. r # p
    BY <1>3
  <2>2. QED
    BY <1>3, <2>1 DEF Notified
<1>15. QED
  BY <1>12, <1>13, <1>14

LEMMA QueueListener ==
    ASSUME TypeOK, QueuesHold, Fresh, Notified, NEW p \in Ports, ListenerStep(p)
    PROVE  QueuesHold' /\ Fresh' /\ Notified'
<1>1. UNCHANGED <<loop, conn, got, wrote>>
  BY DEF ListenerStep, Bind, Accept, AcceptLooks, AcceptWaits, AcceptDropped, DropListener, connVars
<1>2. CASE UNCHANGED <<pending, stream>> /\ (pending[p] # <<>> => ~AcceptLooks(p))
  <2>1. QueuesHold' /\ Fresh'
    BY <1>1, <1>2 DEF QueuesHold, Fresh, Queued, Known
  <2>2. Notified'
    <3> SUFFICES ASSUME NEW r \in Ports, call'[r] \in {"gap", "wait"}, pending[r] # <<>>
                 PROVE  loop = "notify" \/ r \in missed'
      BY <1>1, <1>2 DEF Notified
    <3>1. CASE r # p
      <4>1. call'[r] = call[r] /\ (r \in missed => r \in missed')
        BY <3>1 DEF ListenerStep, Bind, Accept, AcceptLooks, AcceptWaits, AcceptDropped,
                    DropListener, TypeOK, AcceptTypeOK
      <4>2. QED
        BY <4>1 DEF Notified
    <3>2. CASE r = p
      <4>1. CASE Bind(p) \/ AcceptWaits(p)
        BY <3>2, <4>1 DEF Bind, AcceptWaits, Notified
      <4>2. CASE Accept(p) \/ AcceptDropped(p)
        BY <3>2, <4>2 DEF Accept, AcceptDropped, TypeOK, AcceptTypeOK
      <4>3. CASE DropListener(p)
        BY <3>2, <4>3 DEF DropListener
      <4>4. CASE AcceptLooks(p)
        BY <1>2, <3>2, <4>4
      <4>5. QED
        BY <4>1, <4>2, <4>3, <4>4 DEF ListenerStep
    <3>3. QED
      BY <3>1, <3>2
  <2>3. QED
    BY <2>1, <2>2
<1>3. CASE AcceptLooks(p) /\ pending[p] # <<>>
  BY <1>3, QueueTaken
<1>4. CASE DropListener(p)
  <2>1. /\ pending'[p] = <<>> /\ \A r \in Ports \ {p} : pending'[r] = pending[r]
        /\ \A y \in Quads : stream'[y] = IF Queued(y, p) THEN "lost" ELSE stream[y]
        /\ UNCHANGED <<call, missed>>
    BY <1>4, QueuedIsRange DEF DropListener, TypeOK, AcceptTypeOK
  <2>2. ASSUME NEW y \in Quads, NEW r \in Ports PROVE Queued(y, r)' <=> Queued(y, r) /\ r # p
    BY <2>1 DEF Queued
  <2>3. ASSUME NEW y \in Quads
        PROVE  Known(y)' /\ stream'[y] = "none" <=> \E r \in Ports : Queued(y, r)'
    <3>1. \A r \in Ports : Queued(y, r) => r = PortOf[y]
      BY DEF Queued, QueuesHold
    <3>2. QED
      BY <1>1, <2>1, <2>2, <3>1 DEF QueuesHold, Known
  <2>4. ASSUME NEW r \in Ports, NEW i \in 1 .. Len(pending'[r]), NEW k \in 1 .. Len(pending'[r])
        PROVE  (pending'[r][i] = pending'[r][k] => i = k) /\ r = PortOf[pending'[r][i]]
    <3>1. r # p
      BY <2>1, <2>4
    <3>2. QED
      BY <2>1, <2>4, <3>1 DEF QueuesHold
  <2>5. Fresh'
    BY <1>1, <2>1 DEF Fresh, QueuesHold, Known
  <2>6. Notified'
    BY <1>1, <2>1 DEF Notified
  <2>7. QueuesHold'
    BY <2>3, <2>4 DEF QueuesHold
  <2>8. QED
    BY <2>5, <2>6, <2>7
<1>5. QED
  <2>1. Bind(p) \/ Accept(p) \/ AcceptWaits(p) \/ AcceptDropped(p)
          => UNCHANGED <<pending, stream>> /\ ~AcceptLooks(p)
    BY DEF Bind, Accept, AcceptWaits, AcceptDropped, AcceptLooks, TypeOK, AcceptTypeOK
  <2>2. AcceptLooks(p) /\ pending[p] = <<>> => UNCHANGED <<pending, stream>>
    BY DEF AcceptLooks
  <2>3. QED
    BY <1>2, <1>3, <1>4, <2>1, <2>2 DEF ListenerStep

LEMMA QueueStream ==
    ASSUME TypeOK, QueuesHold, Fresh, Notified, NEW q \in Quads, StreamStep(q),
           \A x \in Quads : Known(x) => Known(x)'
    PROVE  QueuesHold' /\ Fresh' /\ Notified'
<1>1. /\ stream[q] = "open" /\ UNCHANGED <<loop, bound, pending, call, missed>>
      /\ stream' = stream \/ stream' = [stream EXCEPT ![q] = "dropped"]
      /\ \A x \in Quads \ {q} : conn'[x] = conn[x] /\ got'[x] = got[x] /\ wrote'[x] = wrote[x]
  BY DEF StreamStep, ReadBytes, WriteBytes, Shutdown, DropStream, acceptVars, connVars,
         TypeOK, ConnTypeOK
<1>2. Known(q) /\ Known(q)' /\ stream'[q] # "none"
      /\ \A x \in Quads \ {q} : (Known(x)' <=> Known(x)) /\ stream'[x] = stream[x]
  BY <1>1 DEF Fresh, Known, TypeOK, AcceptTypeOK
<1>3. \A x \in Quads : Known(x)' /\ stream'[x] = "none" <=> Known(x) /\ stream[x] = "none"
  BY <1>1, <1>2
<1>4. QueuesHold'
  BY <1>1, <1>3 DEF QueuesHold, Queued
<1>5. Fresh'
  BY <1>1, <1>2 DEF Fresh
<1>6. Notified'
  BY <1>1 DEF Notified
<1>7. QED
  BY <1>4, <1>5, <1>6

LEMMA QueueNotify ==
    ASSUME TypeOK, QueuesHold, Fresh, Notified, NotifyPending
    PROVE  QueuesHold' /\ Fresh' /\ Notified'
<1>1. UNCHANGED <<conn, got, wrote, pending, stream>>
  BY DEF NotifyPending, connVars
<1>2. \A p \in Ports : call'[p] # "wait" /\ (call'[p] = "gap" => p \in missed')
  BY DEF NotifyPending
<1>3. QED
  BY <1>1, <1>2 DEF QueuesHold, Queued, Fresh, Notified, Known

-----------------------------------------------------------------------------
(* What was written stays.                                                 *)

\* WrittenIsKept, byte by byte.
Kept ==
    \A q \in Quads : Known(q) => /\ Len(conn[q].unacked) = wrote[q]
                                /\ CountsFrom(0, conn[q].unacked)

LEMMA KeptIs == ASSUME TypeOK PROVE Kept => WrittenIsKept
<1> SUFFICES ASSUME Kept, NEW q \in Quads, Known(q)
             PROVE  conn[q].unacked = [k \in 1 .. wrote[q] |-> k]
  BY DEF WrittenIsKept
<1>1. conn[q].unacked \in Seq(Nat)
  BY DEF TypeOK, ConnTypeOK, Connection, Known
<1>2. QED
  BY <1>1, Counted DEF Kept

LEMMA KeptStep ==
    ASSUME TypeOK, Handshakes, Fresh, Kept, [Next]_vars
    PROVE  Kept'
<1>1. ASSUME NEW q \in Quads, NEW d, conn' = [conn EXCEPT ![q] = d],
             Len(d.unacked) = wrote'[q], CountsFrom(0, d.unacked),
             \A x \in Quads \ {q} : wrote'[x] = wrote[x]
      PROVE  Kept'
  <2>1. conn'[q] = d /\ \A x \in Quads \ {q} : conn'[x] = conn[x]
    BY <1>1 DEF TypeOK, ConnTypeOK
  <2>2. QED
    BY <1>1, <2>1 DEF Kept, Known
<1>2. ASSUME NEW q \in Quads, Receive(q) PROVE Kept'
  <2>1. PICK s \in Segments : ReceiveKnown(q, s)
    BY <1>2 DEF Receive
  <2>2. conn[q] \in Connection(Byte) /\ SynSent(conn[q]) /\ Known(q)
    BY <2>1 DEF TypeOK, ConnTypeOK, Handshakes, ReceiveKnown, Known
  <2>3. conn' = [conn EXCEPT ![q] = OnPacket(conn[q], s).conn] /\ wrote' = wrote
    BY <2>1 DEF ReceiveKnown
  <2>4. OnPacket(conn[q], s).conn.unacked = conn[q].unacked
    BY <2>1, <2>2, OnPacketKeeps
  <2>5. PICK d : d = OnPacket(conn[q], s).conn
    OBVIOUS
  <2>6. Len(d.unacked) = wrote'[q] /\ CountsFrom(0, d.unacked)
    BY <2>2, <2>3, <2>4, <2>5 DEF Kept
  <2>7. QED
    BY <1>1, <2>3, <2>5, <2>6
<1>3. ASSUME NEW q \in Quads, NEW wnd \in Wnds[q], ReceiveSyn(q, Syn(q, wnd)) PROVE Kept'
  <2>1. Accepted(Syn(q, wnd)).unacked = <<>>
    BY SynSegment, AcceptedType
  <2>2. wrote' = wrote /\ wrote[q] = 0
    BY <1>3 DEF ReceiveSyn, Fresh
  <2>3. conn' = [conn EXCEPT ![q] = Accepted(Syn(q, wnd))] \/ conn' = conn
    BY <1>3 DEF ReceiveSyn
  <2>4. Len(<<>>) = 0 /\ CountsFrom(0, <<>>)
    BY DEF CountsFrom
  <2>5. QED
    BY <1>1, <2>1, <2>2, <2>3, <2>4 DEF Kept, Known
<1>4. ASSUME NEW q \in Quads, StreamStep(q) PROVE Kept'
  <2> DEFINE c == conn[q]
  <2>1. c \in Connection(Byte) /\ Known(q)
    BY <1>4 DEF StreamStep, ReadBytes, WriteBytes, Shutdown, DropStream, Fresh,
                TypeOK, ConnTypeOK, Known
  <2>2. c.unacked \in Seq(Nat) /\ Len(c.unacked) = wrote[q] /\ CountsFrom(0, c.unacked)
    BY <2>1 DEF Kept, Connection
  <2>3. ASSUME NEW d, conn' = [conn EXCEPT ![q] = d], d.unacked = c.unacked, wrote' = wrote
        PROVE  Kept'
    BY <1>1, <2>2, <2>3
  <2>4. ASSUME NEW len \in 1 .. StreamLen, ReadBytes(q, len) PROVE Kept'
    <3>1. wrote' = wrote /\ \E u : conn' = [conn EXCEPT ![q] = [c EXCEPT !.incoming = u]]
      BY <2>4 DEF ReadBytes
    <3>2. PICK u : conn' = [conn EXCEPT ![q] = [c EXCEPT !.incoming = u]]
      BY <3>1
    <3>3. QED
      BY <2>1, <2>3, <3>1, <3>2 DEF Connection
  <2>5. ASSUME NEW len \in 1 .. BufferLen + 1, WriteBytes(q, len) PROVE Kept'
    <3> DEFINE n == IF len < Room(c) THEN len ELSE Room(c)
               more == [k \in 1 .. n |-> wrote[q] + k]
               d == [c EXCEPT !.unacked = @ \o more]
    <3>1. n \in Nat /\ wrote[q] \in Nat
      BY <2>2, <2>5, BufferLenAssumption DEF WriteBytes, Room, TypeOK, ConnTypeOK
    <3>2. conn' = [conn EXCEPT ![q] = d] /\ wrote' = [wrote EXCEPT ![q] = @ + n]
      BY <2>5 DEF WriteBytes
    <3> HIDE DEF n
    <3>3. more \in Seq(Nat) /\ Len(more) = n /\ CountsFrom(wrote[q], more)
      <4>1. \A k \in 1 .. n : wrote[q] + k \in Nat
        BY <3>1
      <4>2. QED
        BY <3>1, <4>1, CountType, Zenon
    <3> HIDE DEF more
    <3>4. CountsFrom(0 + Len(c.unacked), more)
      BY <2>2, <3>1, <3>3
    <3>5. Len(c.unacked \o more) = Len(c.unacked) + Len(more) /\ CountsFrom(0, c.unacked \o more)
      BY <2>2, <3>3, <3>4, Joined
    <3>6. d.unacked = c.unacked \o more
      BY <2>1 DEF Connection
    <3>7. wrote'[q] = wrote[q] + n /\ \A x \in Quads \ {q} : wrote'[x] = wrote[x]
      BY <3>2 DEF TypeOK, ConnTypeOK
    <3> HIDE DEF d
    <3>8. QED
      BY <1>1, <2>2, <3>2, <3>3, <3>5, <3>6, <3>7
  <2>6. CASE Shutdown(q)
    <3>1. wrote' = wrote /\ conn' = [conn EXCEPT ![q] = [c EXCEPT !.state = "FinWait1"]]
      BY <2>6 DEF Shutdown, Close
    <3>2. QED
      BY <2>1, <2>3, <3>1 DEF Connection
  <2>7. CASE DropStream(q)
    BY <2>7 DEF DropStream, connVars, Kept, Known
  <2>8. QED
    BY <1>4, <2>4, <2>5, <2>6, <2>7 DEF StreamStep
<1>5. CASE UNCHANGED connVars
  BY <1>5 DEF Kept, Known, connVars
<1>6. ASSUME NEW p \in Ports, ListenerStep(p) PROVE UNCHANGED connVars
  BY <1>6 DEF ListenerStep, Bind, Accept, AcceptLooks, AcceptWaits, AcceptDropped, DropListener
<1>7. QED
  BY <1>2, <1>3, <1>4, <1>5, <1>6, Steps DEF NotifyPending, vars

-----------------------------------------------------------------------------
(* The invariant, and the first results.                                   *)

TcpInv == TypeOK /\ Handshakes /\ QueuesHold /\ Fresh /\ Notified /\ Kept

LEMMA InitInv == ASSUME Init PROVE TcpInv
<1>1. TypeOK
  BY InitType
<1>2. \A q \in Quads : ~Known(q) /\ stream[q] = "none" /\ wrote[q] = 0 /\ got[q] = <<>>
  BY DEF Init, Known
<1>3. \A p \in Ports : pending[p] = <<>> /\ Len(pending[p]) = 0
  BY DEF Init
<1>4. QueuesHold
  BY <1>2, <1>3 DEF QueuesHold, Queued
<1>5. Handshakes /\ Fresh /\ Notified /\ Kept
  BY <1>2, <1>3 DEF Handshakes, Fresh, Notified, Kept
<1>6. QED
  BY <1>1, <1>4, <1>5 DEF TcpInv

LEMMA TypeStep ==
    ASSUME TypeOK, Handshakes, Fresh, [Next]_vars
    PROVE  TypeOK'
<1>1. ASSUME NEW q \in Quads, StreamStep(q) PROVE TypeOK'
  BY <1>1, StreamType DEF Fresh
<1>2. CASE NotifyPending
  <2>1. call' \in [Ports -> {"out", "look", "gap", "wait"}] /\ missed' \subseteq Ports
    BY <1>2 DEF NotifyPending, TypeOK, AcceptTypeOK
  <2>2. AcceptTypeOK'
    BY <1>2, <2>1 DEF NotifyPending, TypeOK, AcceptTypeOK
  <2>3. ConnTypeOK'
    BY <1>2 DEF NotifyPending, TypeOK, ConnTypeOK, connVars, Known
  <2>4. LoopTypeOK'
    BY <1>2 DEF NotifyPending, LoopTypeOK
  <2>5. QED
    BY <2>2, <2>3, <2>4 DEF TypeOK
<1>3. CASE UNCHANGED vars
  BY <1>3 DEF vars, connVars, acceptVars, TypeOK, LoopTypeOK, ConnTypeOK, AcceptTypeOK, Known
<1>4. QED
  BY <1>1, <1>2, <1>3, Steps, ReceiveType, SynType, ListenerType

LEMMA QueueStep ==
    ASSUME TypeOK, Handshakes, QueuesHold, Fresh, Notified, [Next]_vars
    PROVE  QueuesHold' /\ Fresh' /\ Notified'
<1>1. \A q \in Quads : Known(q) => Known(q)'
  BY KnownStep DEF Fresh
<1>2. CASE UNCHANGED vars
  BY <1>2 DEF vars, connVars, acceptVars, QueuesHold, Queued, Fresh, Notified, Known
<1>3. QED
  BY <1>1, <1>2, Steps, QueueReceive, QueueSyn, QueueListener, QueueStream, QueueNotify

LEMMA StepInv == ASSUME TcpInv, [Next]_vars PROVE TcpInv'
<1>1. \A q \in Quads : stream[q] = "open" => Known(q)
  BY DEF TcpInv, Fresh
<1>2. TypeOK' /\ Handshakes' /\ Kept'
  BY <1>1, TypeStep, HandshakesStep, KeptStep DEF TcpInv
<1>3. QueuesHold' /\ Fresh' /\ Notified'
  BY QueueStep DEF TcpInv
<1>4. QED
  BY <1>2, <1>3 DEF TcpInv

LEMMA TcpInvHolds == Spec => []TcpInv
<1>1. Init => TcpInv
  BY InitInv
<1>2. TcpInv /\ [Next]_vars => TcpInv'
  BY StepInv
<1>3. QED
  BY <1>1, <1>2, PTL DEF Spec

\* The state has its types, and a connection buffers at most TCP_BUFFER_LEN
\* bytes, however often its program writes.
THEOREM TypesHold == Spec => []TypeOK
<1>1. TcpInv => TypeOK
  BY DEF TcpInv
<1>2. QED
  BY <1>1, TcpInvHolds, PTL

\* Every connection that packet_loop made is queued for its own port or was
\* handed out, never both, and never twice.
THEOREM EveryConnectionOnce == Spec => []HandedOutOnce
<1>1. TcpInv => HandedOutOnce
  BY QueuesHoldIs DEF TcpInv, TypeOK
<1>2. QED
  BY <1>1, TcpInvHolds, PTL

\* An accept that waits beside a connection missed its notification between
\* the look and the wait, or is about to be woken: there is no other way.
THEOREM OnlyTheGapLosesAWakeup == Spec => []StuckOnlyIfMissed
<1>1. TcpInv => StuckOnlyIfMissed
  BY DEF TcpInv, Notified, StuckOnlyIfMissed
<1>2. QED
  BY <1>1, TcpInvHolds, PTL

\* No acknowledgement takes away what the program has written.
THEOREM WrittenStays == Spec => []WrittenIsKept
<1>1. TcpInv => WrittenIsKept
  BY KeptIs DEF TcpInv
<1>2. QED
  BY <1>1, TcpInvHolds, PTL

\* write panics over its slice only as long as the SYN is not acknowledged and
\* nothing was written, whatever acknowledgement numbers the peers send.
THEOREM AnswersOnceAcked == Spec => []AnsweredOnceAcked
<1>1. TcpInv => AnsweredOnceAcked
  <2> SUFFICES ASSUME TcpInv, NEW q \in Quads, Known(q), ~CanSlice(conn[q])
               PROVE  conn[q].una = Iss /\ conn[q].unacked = <<>>
    BY DEF AnsweredOnceAcked
  <2>1. conn[q].nxt = 1 /\ conn[q].una \in {0, 1}
    BY DEF TcpInv, Handshakes, SynSent
  <2>2. conn[q].unacked \in Seq(Nat) /\ Len(conn[q].unacked) \in Nat
    BY DEF TcpInv, TypeOK, ConnTypeOK, Connection, Known
  <2>3. conn[q].una = 0 /\ Len(conn[q].unacked) = 0
    BY <2>1, <2>2, SynNumbers DEF CanSlice
  <2>4. QED
    BY <2>2, <2>3, LengthZero DEF Iss
<1>2. QED
  BY <1>1, TcpInvHolds, PTL

\* The panic that is left: data with an acknowledgement of the initial number,
\* which acknowledges nothing, establishes a connection as its SYN|ACK left it
\* (conn.rs:446), and the answer to that data slices past the empty buffer
\* (conn.rs:243).  The comment at conn.rs:451 has it that a byte was acknowledged.
THEOREM NothingAckedPanics ==
    ASSUME SeqMod > 4,
           NEW c \in Connection(Byte), c.state = "SynRcvd", c.una = Iss, c.nxt = 1,
           c.unacked = <<>>,
           NEW s \in Segments, Acceptable(c, s), s.seq = c.rnxt, s.ack, s.ackn = Iss,
           ~s.fin, s.data # <<>>
    PROVE  OnPacket(c, s).conn.state = "Estab" /\ OnPacket(c, s).end = "range"
<1> DEFINE d == [c EXCEPT !.state = "Estab"]
<1>1. Acknowledge(c, s.ackn) = d
  <2>1. Sub(c.una, 1) = SeqMod - 1 /\ Sub(0, 2) = SeqMod - 2 /\ Sub(SeqMod - 1, 0) = SeqMod - 1
    <3>1. SeqMod - 1 \in SeqNumber
      BY SeqModFact DEF SeqNumber
    <3>2. QED
      BY <3>1, SubIs, SynNumbers, SeqModFact DEF Iss
  <2>2. IsBetweenWrapped(Sub(c.una, 1), s.ackn, Add(c.nxt, 1))
    BY <2>1, SynNumbers, SeqModFact DEF IsBetweenWrapped, WrappingLt, Iss
  <2>3. ~IsBetweenWrapped(c.una, s.ackn, Add(c.nxt, 1))
    BY OnlySynIsAcked, SynNumbers DEF Iss
  <2>4. QED
    BY <2>2, <2>3 DEF Acknowledge, Connection
<1>2. Sub(d.rnxt, s.seq) = 0
  <2>1. c.rnxt \in SeqNumber /\ d.rnxt = c.rnxt
    BY DEF Connection
  <2>2. Sub(c.rnxt, c.rnxt) = 0
    BY <2>1, SubIs, SeqModFact DEF SeqNumber
  <2>3. QED
    BY <2>1, <2>2
<1>3. PICK u \in Connection(Byte) : /\ TakeData(d, s) = Replied(u)
                                    /\ u.state = "Estab" /\ u.una = Iss /\ u.nxt = 1
                                    /\ u.unacked = <<>>
  <2> DEFINE rest == SubSeq(s.data, 1, Len(s.data))
             v == [d EXCEPT !.incoming = @ \o rest, !.rnxt = Add(s.seq, Len(s.data))]
  <2>1. s.data \in Seq(Byte) /\ Len(s.data) \in Nat
    BY DEF Segments
  <2>2. ~(0 > Len(s.data)) /\ 0 + 1 = 1
    BY <2>1
  <2>3. TakeData(d, s) = Replied(v)
    BY <1>2, <2>2 DEF TakeData, Connection
  <2>4. rest \in Seq(Byte) /\ Add(s.seq, Len(s.data)) \in SeqNumber
    <3>1. s.seq \in Int
      BY SeqModFact DEF Segments, SeqNumber
    <3>2. QED
      BY <2>1, <3>1, WholeSeq, AddType
  <2> HIDE DEF rest
  <2>5. v \in Connection(Byte) /\ v.state = "Estab" /\ v.una = Iss /\ v.nxt = 1
        /\ v.unacked = <<>>
    <3>1. c.incoming \o rest \in Seq(Byte)
      BY <2>4 DEF Connection
    <3>2. v = [c EXCEPT !.state = "Estab", !.incoming = c.incoming \o rest,
                        !.rnxt = Add(s.seq, Len(s.data))]
      BY DEF Connection
    <3>3. QED
      BY <2>4, <3>1, <3>2 DEF Connection, ConnState
  <2>6. QED
    BY <2>3, <2>5
<1>4. ~CanSlice(u)
  BY <1>3, SynNumbers DEF CanSlice, Iss
<1>5. OnPacket(c, s) = TakeData(d, s)
  BY <1>1, Zenon DEF OnPacket
<1>6. QED
  BY <1>3, <1>4, <1>5 DEF Replied

-----------------------------------------------------------------------------
(* What is read is the peer's stream.                                      *)

\* The stream is short enough for the comparison of sequence numbers to tell
\* a piece that comes again from one that is new.
StreamFits == 2 * StreamLen < SeqMod

LEMMA AddAgain ==
    ASSUME NEW r \in SeqNumber, NEW x \in SeqNumber, NEW y \in SeqNumber, x + y \in SeqNumber
    PROVE  Add(Add(r, x), y) = Add(r, x + y)
<1>1. Add(r, x) \in SeqNumber
  BY AddType, SeqModFact DEF SeqNumber
<1>2. Add(r, x) = (IF r + x < SeqMod THEN r + x ELSE r + x - SeqMod)
  BY AddIs
<1>3. Add(Add(r, x), y) = (IF Add(r, x) + y < SeqMod THEN Add(r, x) + y ELSE Add(r, x) + y - SeqMod)
  BY <1>1, AddIs
<1>4. Add(r, x + y) = (IF r + (x + y) < SeqMod THEN r + (x + y) ELSE r + (x + y) - SeqMod)
  BY AddIs
<1>5. CASE r + x < SeqMod
  BY <1>2, <1>3, <1>4, <1>5, SeqModFact DEF SeqNumber
<1>6. CASE r + x >= SeqMod
  BY <1>2, <1>3, <1>4, <1>6, SeqModFact DEF SeqNumber
<1>7. QED
  BY <1>5, <1>6, SeqModFact DEF SeqNumber

LEMMA BackOne ==
    ASSUME NEW r \in SeqNumber, NEW x \in SeqNumber, x + 1 \in SeqNumber
    PROVE  Sub(Add(r, x + 1), 1) = Add(r, x)
<1>1. Add(r, x + 1) \in SeqNumber /\ 1 \in SeqNumber
  <2>1. r \in Int /\ x + 1 \in Int
    BY SeqModFact DEF SeqNumber
  <2>2. QED
    BY <2>1, AddType, SynNumbers
<1>2. Add(r, x) = (IF r + x < SeqMod THEN r + x ELSE r + x - SeqMod)
  BY AddIs
<1>3. Add(r, x + 1) = (IF r + (x + 1) < SeqMod THEN r + (x + 1) ELSE r + (x + 1) - SeqMod)
  BY AddIs
<1>4. Sub(Add(r, x + 1), 1) = (IF Add(r, x + 1) >= 1 THEN Add(r, x + 1) - 1 ELSE Add(r, x + 1) - 1 + SeqMod)
  BY <1>1, SubIs
<1>5. CASE r + (x + 1) < SeqMod
  BY <1>2, <1>3, <1>4, <1>5, SeqModFact DEF SeqNumber
<1>6. CASE r + (x + 1) >= SeqMod
  BY <1>2, <1>3, <1>4, <1>6, SeqModFact DEF SeqNumber
<1>7. QED
  BY <1>5, <1>6, SeqModFact DEF SeqNumber

\* A connection of the peer that starts from r, of whose stream base bytes
\* have been read: it holds the next ones, and expects the one after them.
Follows(c, r, base) ==
    /\ CountsFrom(base, c.incoming)
    /\ base + Len(c.incoming) <= StreamLen
    /\ c.rnxt = Add(r, base + Len(c.incoming) + 1)

\* What lies before recv.nxt is not in the window.
LEMMA OldIsOutside ==
    ASSUME StreamFits, NEW r \in SeqNumber, NEW t \in 0 .. StreamLen, NEW x \in 0 .. t,
           NEW c, c.rnxt = Add(r, t + 1)
    PROVE  ~InWindow(c, Add(r, x))
<1>1. t \in SeqNumber /\ x \in SeqNumber /\ t + 1 \in SeqNumber
  BY SeqModFact, StreamLenAssumption DEF StreamFits, SeqNumber
<1>2. Sub(c.rnxt, 1) = Add(r, t)
  BY <1>1, BackOne
<1>3. Sub(Add(r, t), Add(r, x)) = t - x
  BY <1>1, Distance
<1>4. ~(t - x > SeqMod \div 2)
  BY SeqModFact, StreamLenAssumption DEF StreamFits
<1>5. QED
  BY <1>2, <1>3, <1>4 DEF InWindow, IsBetweenWrapped, WrappingLt

LEMMA SynAgain ==
    ASSUME StreamFits, NEW q \in Quads, NEW wnd \in Wnds[q], NEW c \in Connection(Byte),
           NEW base \in Nat, Follows(c, Irs[q], base)
    PROVE  OnPacket(c, Syn(q, wnd)).conn = c
<1> DEFINE r == Irs[q]
           t == base + Len(c.incoming)
<1>1. r \in SeqNumber /\ t \in 0 .. StreamLen /\ c.rnxt = Add(r, t + 1)
  BY IrsAssumption DEF Follows, Connection
<1>2. Add(r, 0) = r
  <2> HIDE DEF r
  <2>1. Add(r, 0) = (IF r + 0 < SeqMod THEN r + 0 ELSE r + 0 - SeqMod)
    BY <1>1, AddIs, SynNumbers
  <2>2. QED
    BY <1>1, <2>1, SeqModFact DEF SeqNumber
<1>3. ~InWindow(c, r)
  BY <1>1, <1>2, OldIsOutside
<1>4. /\ Syn(q, wnd).seq = r /\ Syn(q, wnd).syn /\ ~Syn(q, wnd).fin
      /\ Len(Syn(q, wnd).data) = 0
  BY DEF Syn
<1>5. ~Acceptable(c, Syn(q, wnd))
  BY <1>2, <1>3, <1>4 DEF Acceptable
<1>6. QED
  BY <1>5 DEF OnPacket, Replied

LEMMA PieceAgain ==
    ASSUME StreamFits, NEW q \in Quads, NEW c \in Connection(Byte), NEW base \in Nat,
           Follows(c, Irs[q], base),
           NEW i \in 1 .. StreamLen, NEW j \in i .. StreamLen, j < base + Len(c.incoming),
           NEW fin \in {FALSE, j = StreamLen}, NEW ackn \in Ackns[q]
    PROVE  ~Acceptable(c, Piece(q, i, j, fin, ackn))
<1> DEFINE t == base + Len(c.incoming)
           s == Piece(q, i, j, fin, ackn)
<1>1. Irs[q] \in SeqNumber /\ t \in 0 .. StreamLen /\ c.rnxt = Add(Irs[q], t + 1)
  BY IrsAssumption DEF Follows, Connection
<1>2. ~fin /\ ~s.syn /\ ~s.fin /\ s.seq = Add(Irs[q], i) /\ Len(s.data) = j - i + 1
  <2>1. i \in 1 .. StreamLen + 1 /\ j \in i - 1 .. StreamLen
    BY StreamLenAssumption
  <2>2. Len(s.data) = j - i + 1
    BY <2>1, PieceSegment
  <2>3. ~fin
    <3>1. j # StreamLen
      BY <1>1, StreamLenAssumption
    <3>2. QED
      BY <3>1, Zenon
  <2>4. QED
    BY <2>2, <2>3 DEF Piece
<1>3. PICK k \in SeqNumber : k = j - i /\ i \in SeqNumber /\ i + k \in SeqNumber /\ i + k = j
  BY SeqModFact, StreamLenAssumption DEF StreamFits, SeqNumber
<1>4. Add(Add(Irs[q], i), k) = Add(Irs[q], j)
  <2>1. Add(Add(Irs[q], i), k) = Add(Irs[q], i + k)
    BY <1>1, <1>3, AddAgain
  <2>2. QED
    BY <1>3, <2>1
<1>5. ~InWindow(c, Add(Irs[q], i)) /\ ~InWindow(c, Add(Irs[q], j))
  <2>1. i \in 0 .. t /\ j \in 0 .. t
    BY <1>1
  <2> HIDE DEF t
  <2>2. QED
    BY <1>1, <2>1, OldIsOutside
<1> DEFINE slen == Len(s.data) + (IF s.syn THEN 1 ELSE 0) + (IF s.fin THEN 1 ELSE 0)
<1>6. slen - 1 = k /\ slen > 0 /\ slen # 0
  BY <1>2, <1>3
<1>7. Acceptable(c, s) = IF c.wnd = 0 THEN slen = 0 /\ c.rnxt = s.seq
                         ELSE \/ InWindow(c, s.seq)
                              \/ slen > 0 /\ InWindow(c, Add(s.seq, slen - 1))
  BY Zenon DEF Acceptable
<1> HIDE DEF s, slen
<1>8. QED
  BY <1>2, <1>4, <1>5, <1>6, <1>7 DEF s

\* A piece gives the connection the bytes from where it stands.
LEMMA PieceTaken ==
    ASSUME StreamFits, NEW q \in Quads, NEW c \in Connection(Byte), SynSent(c), NEW base \in Nat,
           Follows(c, Irs[q], base),
           NEW i \in 1 .. StreamLen + 1, NEW j \in i - 1 .. StreamLen,
           NEW fin \in {FALSE, j = StreamLen}, NEW ackn \in Ackns[q]
    PROVE  Follows(OnPacket(c, Piece(q, i, j, fin, ackn)).conn, Irs[q], base)
<1> DEFINE s == Piece(q, i, j, fin, ackn)
           d == Acknowledge(c, ackn)
<1>1. PICK t \in 0 .. StreamLen : t = base + Len(c.incoming)
  BY DEF Follows, Connection
<1>2. Irs[q] \in SeqNumber /\ c.rnxt = Add(Irs[q], t + 1)
  BY <1>1, IrsAssumption DEF Follows
<1>3. PICK n \in Nat : n = j - i + 1
  BY StreamLenAssumption
<1>4. /\ s.ack /\ s.ackn = ackn /\ s.seq = Add(Irs[q], i)
      /\ s.data \in Seq(Byte) /\ Len(s.data) = n /\ CountsFrom(i - 1, s.data)
  BY <1>3, PieceSegment DEF Piece, Segments
<1>5. d \in Connection(Byte) /\ d.incoming = c.incoming /\ d.rnxt = c.rnxt
  BY PieceSegment, AcknowledgeKeeps
<1>6. PICK unread \in SeqNumber : unread = Sub(d.rnxt, s.seq)
  <2>1. d.rnxt \in Int /\ s.seq \in Int
    <3>1. s.seq \in SeqNumber
      <4>1. Add(Irs[q], i) \in SeqNumber
        <5>1. Irs[q] \in Int /\ i \in Int
          BY <1>2, SeqModFact DEF SeqNumber
        <5>2. QED
          BY <5>1, AddType
      <4>2. QED
        BY <1>4, <4>1
    <3> HIDE DEF d
    <3>2. d.rnxt \in SeqNumber
      BY <1>5 DEF Connection
    <3>3. QED
      BY <3>1, <3>2, SeqModFact DEF SeqNumber
  <2>2. QED
    BY <2>1, SubType
<1> DEFINE skip == IF unread > Len(s.data) THEN 0 ELSE unread
           rest == SubSeq(s.data, skip + 1, Len(s.data))
           taken == [d EXCEPT !.incoming = @ \o rest, !.rnxt = Add(s.seq, Len(s.data))]
<1>7. OnPacket(c, s).conn \in {c, TakeData(d, s).conn}
  <2>1. CASE ~Acceptable(c, s)
    BY <2>1 DEF OnPacket, Replied
  <2>2. CASE Acceptable(c, s)
    <3> DEFINE r == TakeData(d, s)
    <3>1. r \in [conn : {r.conn}, replies : {r.replies}, end : {r.end}]
      BY Zenon DEF TakeData, Done, Panicked, Replied
    <3>2. OnPacket(c, s) = IF s.fin /\ r.end = "none" THEN [r EXCEPT !.end = "unimplemented"] ELSE r
      BY <1>4, <2>2, Zenon DEF OnPacket
    <3> HIDE DEF r
    <3>3. OnPacket(c, s).conn = r.conn
      BY <3>1, <3>2
    <3>4. QED
      BY <3>3 DEF r
  <2>3. QED
    BY <2>1, <2>2
<1>8. CASE OnPacket(c, s).conn = c
  BY <1>8
<1>9. CASE TakeData(d, s).conn = d /\ OnPacket(c, s).conn = d
  BY <1>5, <1>9 DEF Follows
<1>10. CASE /\ s.data # <<>> /\ ~(unread > n /\ unread # n + 1)
           /\ Acceptable(c, s) /\ OnPacket(c, s).conn = taken
  <2>1. n >= 1 /\ i \in 1 .. StreamLen /\ j \in i .. StreamLen
    <3>1. n # 0
      BY <1>4, <1>10, LengthZero
    <3>2. QED
      BY <3>1, <1>3, StreamLenAssumption
  <2>2. /\ t + 1 \in SeqNumber /\ i \in SeqNumber /\ n \in SeqNumber /\ i + n \in SeqNumber
        /\ i + n = j + 1
    BY <1>3, <2>1, SeqModFact, StreamLenAssumption DEF StreamFits, SeqNumber
  <2>3. unread = (IF t + 1 >= i THEN t + 1 - i ELSE t + 1 - i + SeqMod)
    <3>1. unread = Sub(Add(Irs[q], t + 1), Add(Irs[q], i))
      BY <1>2, <1>4, <1>5, <1>6
    <3>2. PICK x \in SeqNumber : x = t + 1
      BY <2>2
    <3>3. Sub(Add(Irs[q], x), Add(Irs[q], i)) = IF x >= i THEN x - i ELSE x - i + SeqMod
      BY <1>2, <2>2, Distance
    <3>4. QED
      BY <3>1, <3>2, <3>3
  <2>4. t <= j
    <3>1. CASE j < t
      <4>1. i \in 1 .. StreamLen /\ j \in i .. StreamLen /\ j < base + Len(c.incoming)
        BY <1>1, <2>1, <3>1
      <4>2. ~Acceptable(c, s)
        BY <4>1, PieceAgain
      <4>3. QED
        BY <1>10, <4>2
    <3>2. j \in Int /\ t \in Int
      BY <2>1, StreamLenAssumption
    <3>3. QED
      BY <3>1, <3>2
  <2>5. t + 1 >= i /\ unread = t + 1 - i /\ unread <= n
    <3>1. ~(unread > n /\ unread # n + 1)
      BY <1>10
    <3>2. CASE t + 1 < i
      <4>1. unread = t + 1 - i + SeqMod
        BY <2>1, <2>3, <3>2
      <4>2. unread > n + 1
        BY <1>3, <2>1, <4>1, SeqModFact, StreamLenAssumption DEF StreamFits
      <4>3. unread \in Int
        BY SeqModFact DEF SeqNumber
      <4>4. QED
        BY <3>1, <4>2, <4>3
    <3>3. CASE t + 1 >= i
      BY <1>3, <2>1, <2>3, <2>4, <3>3, StreamLenAssumption
    <3>4. t + 1 < i \/ t + 1 >= i
      BY <2>1, StreamLenAssumption
    <3>5. QED
      BY <3>2, <3>3, <3>4
  <2>6. skip = t + 1 - i /\ skip + 1 \in 1 .. n + 1 /\ n \in skip + 1 - 1 .. n
    BY <1>4, <2>1, <2>5
  <2>7. rest \in Seq(Byte) /\ Len(rest) = j - t /\ CountsFrom(t, rest)
    <3> HIDE DEF skip
    <3>1. PICK m \in 1 .. n + 1 : m = skip + 1 /\ m = t + 2 - i
      BY <2>1, <2>6
    <3>2. PICK w \in Seq(Byte) : w = s.data /\ Len(w) = n /\ CountsFrom(i - 1, w)
      BY <1>4
    <3>3. m \in 1 .. Len(w) + 1 /\ n \in m - 1 .. Len(w) /\ i - 1 \in Nat
      BY <2>1, <3>1, <3>2
    <3>4. SubSeq(w, m, n) \in Seq(Byte) /\ Len(SubSeq(w, m, n)) = n - m + 1
      BY <3>3, PieceOf
    <3>5. CountsFrom(i - 1 + m - 1, SubSeq(w, m, n))
      BY <3>2, <3>3, CountedPiece
    <3>6. i - 1 + m - 1 = t /\ n - m + 1 = j - t
      BY <1>3, <2>1, <3>1, StreamLenAssumption
    <3>7. rest = SubSeq(w, m, n)
      BY <3>1, <3>2, <1>3
    <3> HIDE DEF rest
    <3>8. QED
      BY <3>4, <3>5, <3>6, <3>7
  <2>8. Add(s.seq, Len(s.data)) = Add(Irs[q], j + 1)
    <3>1. Add(Add(Irs[q], i), n) = Add(Irs[q], i + n)
      BY <1>2, <2>2, AddAgain
    <3>2. QED
      BY <1>4, <2>2, <3>1
  <2> HIDE DEF rest
  <2>9. taken.incoming = c.incoming \o rest /\ taken.rnxt = Add(Irs[q], j + 1)
    BY <1>5, <2>8 DEF Connection
  <2>10. /\ CountsFrom(base, c.incoming \o rest)
         /\ base + Len(c.incoming \o rest) = j
    <3>1. c.incoming \in Seq(Byte) /\ Len(c.incoming) \in Nat /\ CountsFrom(base, c.incoming)
      BY DEF Connection, Follows
    <3>2. /\ CountsFrom(base, c.incoming \o rest)
          /\ Len(c.incoming \o rest) = Len(c.incoming) + Len(rest)
      BY <1>1, <2>7, <3>1, Joined
    <3>3. QED
      BY <1>1, <2>1, <2>7, <3>1, <3>2
  <2>11. j \in Nat /\ j <= StreamLen
    BY <2>1
  <2> HIDE DEF taken
  <2>12. Follows(taken, Irs[q], base)
    BY <2>9, <2>10, <2>11 DEF Follows
  <2>13. QED
    BY <1>10, <2>12
<1>11. TakeData(d, s) \in {Done(d), Panicked(d, "assert")}
        \/ (TakeData(d, s) = Replied(taken) /\ s.data # <<>> /\ ~(unread > Len(s.data) /\ unread # Len(s.data) + 1))
  BY <1>6, Zenon DEF TakeData
<1>12. QED
  <2>1. CASE ~Acceptable(c, s)
    BY <1>8, <2>1 DEF OnPacket, Replied
  <2>2. CASE Acceptable(c, s) /\ OnPacket(c, s).conn = TakeData(d, s).conn
    <3> HIDE DEF s, taken
    <3>1. CASE TakeData(d, s) \in {Done(d), Panicked(d, "assert")}
      BY <1>9, <2>2, <3>1 DEF Done, Panicked, s
    <3>2. CASE TakeData(d, s) = Replied(taken) /\ s.data # <<>>
               /\ ~(unread > Len(s.data) /\ unread # Len(s.data) + 1)
      <4>1. TakeData(d, s).conn = taken
        BY <3>2 DEF Replied
      <4>2. QED
        BY <1>4, <1>10, <2>2, <3>2, <4>1 DEF s
    <3>3. QED
      BY <1>11, <3>1, <3>2
  <2>3. QED
    BY <1>7, <1>8, <2>1, <2>2

\* StreamIsPrefix, byte by byte.
Followed ==
    \A q \in Quads : Known(q) => /\ CountsFrom(0, got[q])
                                /\ Follows(conn[q], Irs[q], Len(got[q]))

LEMMA FollowedIs == ASSUME TypeOK PROVE Followed => StreamIsPrefix
<1> SUFFICES ASSUME Followed, NEW q \in Quads, Known(q)
             PROVE  LET taken == got[q] \o conn[q].incoming IN
                    /\ taken = [k \in 1 .. Len(taken) |-> k]
                    /\ conn[q].rnxt = Add(Irs[q], 1 + Len(taken))
  BY DEF StreamIsPrefix
<1>1. PICK g \in Seq(Byte) : g = got[q] /\ CountsFrom(0, g)
  BY DEF TypeOK, ConnTypeOK, Followed
<1>2. PICK u \in Seq(Byte) : u = conn[q].incoming /\ CountsFrom(Len(g), u)
  BY <1>1 DEF TypeOK, ConnTypeOK, Connection, Known, Followed, Follows
<1>3. Len(g) \in Nat /\ Len(u) \in Nat /\ CountsFrom(0 + Len(g), u)
  BY <1>2
<1>4. g \o u \in Seq(Byte) /\ Len(g \o u) = Len(g) + Len(u) /\ CountsFrom(0, g \o u)
  BY <1>1, <1>3, Joined
<1>5. g \o u = [k \in 1 .. Len(g \o u) |-> k]
  BY <1>4, Counted
<1>6. conn[q].rnxt = Add(Irs[q], Len(g) + Len(u) + 1)
  BY <1>1, <1>2 DEF Followed, Follows
<1>7. 1 + Len(g \o u) = Len(g) + Len(u) + 1
  BY <1>3, <1>4
<1>8. QED
  BY <1>1, <1>2, <1>5, <1>6, <1>7

LEMMA FollowedRead ==
    ASSUME TypeOK, Followed, Fresh, NEW q \in Quads, NEW len \in 1 .. StreamLen, ReadBytes(q, len)
    PROVE  Followed'
<1>1. Known(q) /\ conn[q] \in Connection(Byte)
  BY DEF ReadBytes, Fresh, Known, TypeOK, ConnTypeOK
<1>2. PICK g \in Seq(Byte) : g = got[q] /\ CountsFrom(0, g)
  BY <1>1 DEF TypeOK, ConnTypeOK, Followed
<1>3. PICK u \in Seq(Byte) : u = conn[q].incoming
  BY <1>1 DEF Connection
<1>4. /\ CountsFrom(Len(g), u) /\ Len(g) + Len(u) <= StreamLen
      /\ conn[q].rnxt = Add(Irs[q], Len(g) + Len(u) + 1)
  BY <1>1, <1>2, <1>3 DEF Followed, Follows
<1>5. Len(g) \in Nat /\ Len(u) \in Nat
  OBVIOUS
<1>6. PICK n \in 0 .. Len(u) : n = IF len < Len(u) THEN len ELSE Len(u)
  BY <1>5, StreamLenAssumption
<1>7. /\ got' = [got EXCEPT ![q] = g \o SubSeq(u, 1, n)]
      /\ conn' = [conn EXCEPT ![q] = [conn[q] EXCEPT !.incoming = SubSeq(u, n + 1, Len(u))]]
  BY <1>2, <1>3, <1>6 DEF ReadBytes
<1>8. /\ SubSeq(u, 1, n) \in Seq(Byte) /\ Len(SubSeq(u, 1, n)) = n
      /\ CountsFrom(Len(g), SubSeq(u, 1, n))
  <2>1. 1 \in 1 .. Len(u) + 1 /\ n \in 1 - 1 .. Len(u) /\ n - 1 + 1 = n /\ Len(g) + 1 - 1 = Len(g)
    BY <1>5
  <2>2. SubSeq(u, 1, n) \in Seq(Byte) /\ Len(SubSeq(u, 1, n)) = n - 1 + 1
    BY <2>1, PieceOf
  <2>3. CountsFrom(Len(g) + 1 - 1, SubSeq(u, 1, n))
    BY <1>4, <1>5, <2>1, CountedPiece
  <2>4. QED
    BY <2>1, <2>2, <2>3
<1>9. /\ SubSeq(u, n + 1, Len(u)) \in Seq(Byte) /\ Len(SubSeq(u, n + 1, Len(u))) = Len(u) - n
      /\ CountsFrom(Len(g) + n, SubSeq(u, n + 1, Len(u)))
  <2>1. PICK m \in 1 .. Len(u) + 1 : m = n + 1
    BY <1>5
  <2>2. Len(u) \in m - 1 .. Len(u) /\ Len(u) - m + 1 = Len(u) - n /\ Len(g) + m - 1 = Len(g) + n
    BY <1>5, <2>1
  <2>3. SubSeq(u, m, Len(u)) \in Seq(Byte) /\ Len(SubSeq(u, m, Len(u))) = Len(u) - m + 1
    BY <2>2, PieceOf
  <2>4. CountsFrom(Len(g) + m - 1, SubSeq(u, m, Len(u)))
    BY <1>4, <1>5, <2>2, CountedPiece
  <2>5. QED
    BY <2>1, <2>2, <2>3, <2>4
<1>10. /\ g \o SubSeq(u, 1, n) \in Seq(Byte) /\ Len(g \o SubSeq(u, 1, n)) = Len(g) + n
       /\ CountsFrom(0, g \o SubSeq(u, 1, n))
  <2>1. CountsFrom(0 + Len(g), SubSeq(u, 1, n))
    BY <1>5, <1>8
  <2>2. QED
    BY <1>2, <1>8, <2>1, Joined
<1>11. PICK h, v : h = g \o SubSeq(u, 1, n) /\ v = SubSeq(u, n + 1, Len(u))
  OBVIOUS
<1>12. /\ got'[q] = h /\ conn'[q].incoming = v /\ conn'[q].rnxt = conn[q].rnxt
       /\ \A x \in Quads \ {q} : got'[x] = got[x] /\ conn'[x] = conn[x]
  BY <1>1, <1>7, <1>11 DEF TypeOK, ConnTypeOK, Connection
<1>13. Len(h) + Len(v) = Len(g) + Len(u)
  <2>1. Len(h) = Len(g) + n /\ Len(v) = Len(u) - n
    BY <1>9, <1>10, <1>11
  <2>2. QED
    BY <1>5, <2>1
<1>14. CountsFrom(0, h) /\ CountsFrom(Len(h), v)
  BY <1>9, <1>10, <1>11
<1>15. QED
  BY <1>4, <1>12, <1>13, <1>14 DEF Followed, Follows, Known

LEMMA FollowedStep ==
    ASSUME StreamFits, TypeOK, Handshakes, Fresh, Followed, [Next]_vars
    PROVE  Followed'
<1>1. ASSUME NEW q \in Quads, NEW d, conn' = [conn EXCEPT ![q] = d], got' = got,
             CountsFrom(0, got[q]), Follows(d, Irs[q], Len(got[q]))
      PROVE  Followed'
  <2>1. conn'[q] = d /\ \A x \in Quads \ {q} : conn'[x] = conn[x]
    BY <1>1 DEF TypeOK, ConnTypeOK
  <2>2. QED
    BY <1>1, <2>1 DEF Followed, Known
<1>2. ASSUME NEW q \in Quads, NEW s, ReceiveKnown(q, s),
             Follows(conn[q], Irs[q], Len(got[q])) => Follows(OnPacket(conn[q], s).conn, Irs[q], Len(got[q]))
      PROVE  Followed'
  <2>1. Known(q) /\ got' = got /\ conn' = [conn EXCEPT ![q] = OnPacket(conn[q], s).conn]
    BY <1>2 DEF ReceiveKnown
  <2>2. CountsFrom(0, got[q]) /\ Follows(OnPacket(conn[q], s).conn, Irs[q], Len(got[q]))
    BY <1>2, <2>1 DEF Followed
  <2>3. PICK d : d = OnPacket(conn[q], s).conn
    OBVIOUS
  <2>4. QED
    BY <1>1, <2>1, <2>2, <2>3
<1>3. ASSUME NEW q \in Quads, Known(q)
      PROVE  conn[q] \in Connection(Byte) /\ SynSent(conn[q]) /\ Len(got[q]) \in Nat
  BY <1>3 DEF TypeOK, ConnTypeOK, Handshakes, Known
<1>4. ASSUME NEW q \in Quads, NEW wnd \in Wnds[q], ReceiveKnown(q, Syn(q, wnd)) PROVE Followed'
  <2>1. Known(q)
    BY <1>4 DEF ReceiveKnown
  <2>2. QED
    BY <1>2, <1>3, <1>4, <2>1, SynAgain
<1>5. ASSUME NEW q \in Quads, NEW i \in 1 .. StreamLen + 1, NEW j \in i - 1 .. StreamLen,
             NEW fin \in {FALSE, j = StreamLen}, NEW ackn \in Ackns[q],
             ReceiveKnown(q, Piece(q, i, j, fin, ackn))
      PROVE  Followed'
  <2>1. Known(q)
    BY <1>5 DEF ReceiveKnown
  <2>2. QED
    BY <1>2, <1>3, <1>5, <2>1, PieceTaken
<1>6. ASSUME NEW q \in Quads, NEW wnd \in Wnds[q], ReceiveSyn(q, Syn(q, wnd)) PROVE Followed'
  <2>1. /\ Accepted(Syn(q, wnd)).incoming = <<>>
        /\ Accepted(Syn(q, wnd)).rnxt = Add(Irs[q], 1)
    BY SynSegment, AcceptedType DEF Syn
  <2>2. got' = got /\ got[q] = <<>>
    BY <1>6 DEF ReceiveSyn, Fresh
  <2>3. conn' = [conn EXCEPT ![q] = Accepted(Syn(q, wnd))] \/ conn' = conn
    BY <1>6 DEF ReceiveSyn
  <2>4. Len(<<>>) = 0 /\ CountsFrom(0, <<>>) /\ 0 + 0 + 1 = 1 /\ 0 + 0 <= StreamLen
    BY StreamLenAssumption DEF CountsFrom
  <2>5. Follows(Accepted(Syn(q, wnd)), Irs[q], Len(got[q])) /\ CountsFrom(0, got[q])
    BY <2>1, <2>2, <2>4 DEF Follows
  <2>6. QED
    BY <1>1, <2>2, <2>3, <2>5 DEF Followed, Known
<1>7. ASSUME NEW q \in Quads, StreamStep(q) PROVE Followed'
  <2>1. Known(q) /\ conn[q] \in Connection(Byte)
    BY <1>7 DEF StreamStep, ReadBytes, WriteBytes, Shutdown, DropStream, Fresh,
                TypeOK, ConnTypeOK, Known
  <2>2. ASSUME NEW d, conn' = [conn EXCEPT ![q] = d], d.incoming = conn[q].incoming,
               d.rnxt = conn[q].rnxt, got' = got
        PROVE  Followed'
    BY <1>1, <2>1, <2>2 DEF Followed, Follows
  <2>3. ASSUME NEW len \in 1 .. BufferLen + 1, WriteBytes(q, len) PROVE Followed'
    <3>1. got' = got /\ \E u : conn' = [conn EXCEPT ![q] = [conn[q] EXCEPT !.unacked = u]]
      BY <2>3 DEF WriteBytes
    <3>2. PICK u : conn' = [conn EXCEPT ![q] = [conn[q] EXCEPT !.unacked = u]]
      BY <3>1
    <3>3. QED
      BY <2>1, <2>2, <3>1, <3>2 DEF Connection
  <2>4. CASE Shutdown(q)
    <3>1. got' = got /\ conn' = [conn EXCEPT ![q] = [conn[q] EXCEPT !.state = "FinWait1"]]
      BY <2>4 DEF Shutdown, Close
    <3>2. QED
      BY <2>1, <2>2, <3>1 DEF Connection
  <2>5. CASE DropStream(q)
    BY <2>5 DEF DropStream, connVars, Followed, Known
  <2>6. QED
    BY <1>7, <2>3, <2>4, <2>5, FollowedRead DEF StreamStep
<1>8. CASE UNCHANGED connVars
  BY <1>8 DEF Followed, Known, connVars
<1>9. ASSUME NEW p \in Ports, ListenerStep(p) PROVE UNCHANGED connVars
  BY <1>9 DEF ListenerStep, Bind, Accept, AcceptLooks, AcceptWaits, AcceptDropped, DropListener
<1>10. QED
  BY <1>4, <1>5, <1>6, <1>7, <1>8, <1>9 DEF Next, LoopStep, NotifyPending, vars

\* What a program reads from an accepted connection is the beginning of what
\* its peer sent, each byte once, whatever pieces come again, overlap or come
\* out of order, and on_packet acknowledges exactly that.
THEOREM StreamIsRead == ASSUME StreamFits PROVE Spec => []StreamIsPrefix
<1>1. Init => Followed
  BY DEF Init, Followed, Known
<1>2. TcpInv /\ Followed /\ [Next]_vars => Followed'
  BY FollowedStep DEF TcpInv
<1>3. TcpInv /\ Followed => StreamIsPrefix
  BY FollowedIs DEF TcpInv
<1>4. QED
  BY <1>1, <1>2, <1>3, TcpInvHolds, PTL DEF Spec
=============================================================================
