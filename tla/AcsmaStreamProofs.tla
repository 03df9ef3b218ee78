--------------------------- MODULE AcsmaStreamProofs ---------------------------
(***************************************************************************)
(* Theorems about AcsmaStream for every limit of resends and set of        *)
(* stations whose output may fail: what the link does when one packet is   *)
(* written whose chunks the seq field can tell apart, and its types        *)
(* whatever is written.                                                    *)
(***************************************************************************)
EXTENDS AcsmaStream, TLAPS

\* What a station hears after a frame was sent to it: what it could hear, and
\* perhaps that frame.
LEMMA HeardType ==
    ASSUME NEW S, NEW q \in Seq(S), NEW f \in S, NEW r \in Heard(q, f)
    PROVE  r \in Seq(S)
BY DEF Heard

\* The queues keep their elements when the set these are taken from grows.
LEMMA SeqSubset ==
    ASSUME NEW S, NEW T, S \subseteq T, NEW q \in Seq(S)
    PROVE  q \in Seq(T)
OBVIOUS

\* The head and the rest of a queue that is not empty.
LEMMA HeadTail ==
    ASSUME NEW S, NEW q \in Seq(S), q # <<>>
    PROVE  Head(q) \in S /\ Tail(q) \in Seq(S)
OBVIOUS

\* A chunk of the packet has its own value of the seq field.
LEMMA FrameFields ==
    ASSUME SinglePacket, NEW i \in 0 .. Lens[1] - 1
    PROVE  /\ FrameAt(1, i).type = "DATA"
           /\ FrameAt(1, i).src = W /\ FrameAt(1, i).dest = R
           /\ FrameAt(1, i).seq = i
           /\ FrameAt(1, i).body = <<1, i>>
           /\ FrameAt(1, i).eop = (i = Lens[1] - 1)
           /\ AckFrame(W, R, i).seq = i
<1>1. i % SeqCount = i
  BY SeqCountAssumption DEF SinglePacket
<1>2. QED
  BY <1>1 DEF FrameAt, DataFrame, AckFrame

\* Inserting a chunk keeps what the bucket holds, and its type.
LEMMA OrInsertType ==
    ASSUME NEW b \in Packet, NEW s \in 0 .. SeqCount - 1, NEW p \in Payloads
    PROVE  /\ OrInsert(b, s, p) \in Packet
           /\ DOMAIN OrInsert(b, s, p) = DOMAIN b \cup {s}
<1>1. PICK S \in SUBSET (0 .. SeqCount - 1) : b \in [S -> Payloads]
  BY DEF Packet
<1>2. OrInsert(b, s, p) \in [S \cup {s} -> Payloads]
  BY <1>1 DEF OrInsert
<1>3. S \cup {s} \in SUBSET (0 .. SeqCount - 1)
  OBVIOUS
<1>4. QED
  BY <1>1, <1>2, <1>3 DEF Packet, OrInsert

-----------------------------------------------------------------------------
\* The system starts with nothing written, heard or read.
LEMMA StreamInit ==
    ASSUME SinglePacket, Init
    PROVE  StreamInv
<1>1. WriterInv
  BY DEF SinglePacket, Init, WriterInv, Written
<1>2. AirInv
  BY DEF Init, AirInv
<1>3. EmptyBucket \in [{} -> Payloads]
  BY DEF EmptyBucket
<1>4. EmptyBucket \in Packet
  BY <1>3 DEF Packet
<1>5. BucketInv
  BY <1>4 DEF Init, BucketInv, FirstPacketIntact, EmptyBucket
<1>6. QED
  BY <1>1, <1>2, <1>5 DEF StreamInv

\* Every step of the writer keeps the invariant.
LEMMA WriterKeeps ==
    ASSUME SinglePacket, StreamInv, WriterStep
    PROVE  StreamInv'
<1>1. /\ Len(Lens) = 1 /\ Lens[1] \in Nat \ {0} /\ high \in Nat /\ index \in Nat
  BY DEF SinglePacket, StreamInv, WriterInv, AirInv
<1>2. BucketInv'
  BY DEF StreamInv, BucketInv, FirstPacketIntact, WriterStep, Write, SendFrame, TakeAck,
         AckTimeout, WriteFails, Return, readerVars, writerVars
<1>3. CASE Write
  <2>1. call = 0 /\ call' = 1 /\ index' = index /\ wpc' = "send" /\ UNCHANGED <<result, toR, toW, high>>
    BY <1>1, <1>3 DEF StreamInv, WriterInv, Write, readerVars
  <2>2. WriterInv'
    BY <1>1, <2>1 DEF StreamInv, WriterInv, Written
  <2>3. AirInv'
    BY <2>1 DEF StreamInv, AirInv
  <2>4. QED
    BY <1>2, <2>2, <2>3 DEF StreamInv
<1>4. CASE SendFrame
  <2>1. call = 1 /\ UNCHANGED <<call, index, result, toW, high>> /\ wpc' = "await"
    BY <1>4 DEF StreamInv, WriterInv, SendFrame, readerVars
  <2>2. WriterInv'
    BY <1>4, <2>1 DEF StreamInv, WriterInv, SendFrame, Written
  <2>3. FrameAt(1, index) \in {FrameAt(1, i) : i \in 0 .. index}
    BY <1>1
  <2>4. toR' \in Seq({FrameAt(1, i) : i \in 0 .. index})
    BY <1>4, <2>1, <2>3, HeardType DEF StreamInv, AirInv, SendFrame
  <2>5. AirInv'
    BY <2>1, <2>4 DEF StreamInv, AirInv
  <2>6. QED
    BY <1>2, <2>2, <2>5 DEF StreamInv
<1>5. CASE TakeAck
  <2>1. /\ Head(toW) \in {AckFrame(W, R, i) : i \in 0 .. high - 1}
        /\ toW' \in Seq({AckFrame(W, R, i) : i \in 0 .. high - 1})
        /\ UNCHANGED <<toR, high>>
    BY <1>5, HeadTail DEF StreamInv, AirInv, TakeAck, readerVars
  <2>2. CASE ~IsMyAck(Head(toW))
    BY <1>1, <1>2, <1>5, <2>1, <2>2
    DEF StreamInv, WriterInv, AirInv, TakeAck, Written, writerVars
  <2>3. CASE IsMyAck(Head(toW))
    <3>1. high = index + 1 /\ call = 1 /\ result = <<>>
      <4>1. PICK i \in 0 .. high - 1 : Head(toW) = AckFrame(W, R, i)
        BY <2>1
      <4>2. high <= Lens[1]
        BY <1>1 DEF StreamInv, WriterInv, AirInv
      <4>3. Head(toW).seq = i
        BY <1>1, <4>1, <4>2, FrameFields
      <4>4. i = index
        BY <2>3, <4>3 DEF IsMyAck
      <4>5. QED
        BY <1>1, <1>5, <4>4 DEF StreamInv, WriterInv, AirInv, TakeAck
    <3>2. CASE index + 1 < Lens[1]
      <4>1. index' = index + 1 /\ wpc' = "send" /\ UNCHANGED <<call, result>>
        BY <1>5, <2>3, <3>1, <3>2 DEF TakeAck
      <4>2. WriterInv'
        BY <1>1, <2>1, <3>1, <3>2, <4>1 DEF StreamInv, WriterInv, Written
      <4>3. {FrameAt(1, i) : i \in 0 .. index} \subseteq {FrameAt(1, i) : i \in 0 .. index'}
        BY <1>1, <4>1
      <4>4. toR' \in Seq({FrameAt(1, i) : i \in 0 .. index'})
        BY <2>1, <4>3, SeqSubset DEF StreamInv, AirInv
      <4>5. AirInv'
        BY <1>1, <2>1, <3>1, <4>1, <4>4 DEF AirInv
      <4>6. QED
        BY <1>2, <4>2, <4>5 DEF StreamInv
    <3>3. CASE index + 1 = Lens[1]
      <4>1. result' = <<"ok">> /\ wpc' = "idle" /\ UNCHANGED <<call, index>>
        BY <1>1, <1>5, <2>3, <3>1, <3>3 DEF TakeAck, Return
      <4>2. WriterInv'
        BY <1>1, <2>1, <3>1, <3>3, <4>1 DEF StreamInv, WriterInv, Written
      <4>3. AirInv'
        BY <2>1, <4>1 DEF StreamInv, AirInv
      <4>4. QED
        BY <1>2, <4>2, <4>3 DEF StreamInv
    <3>4. QED
      BY <1>1, <3>2, <3>3 DEF StreamInv, WriterInv
  <2>4. QED
    BY <2>2, <2>3
<1>6. CASE AckTimeout \/ WriteFails
  <2>1. /\ UNCHANGED <<call, index, toR, toW, high>>
        /\ call = 1 /\ result = <<>> /\ wpc' \in {"idle", "send"}
        /\ \/ UNCHANGED result
           \/ wpc' = "idle" /\ result' \in {<<"link_error">>, <<"error">>}
    <3>1. CASE AckTimeout
      BY <1>1, <3>1 DEF StreamInv, WriterInv, AckTimeout, Return, readerVars
    <3>2. CASE WriteFails
      BY <1>1, <3>2 DEF StreamInv, WriterInv, WriteFails, Return, readerVars
    <3>3. QED
      BY <1>6, <3>1, <3>2
  <2>2. WriterInv'
    BY <2>1 DEF StreamInv, WriterInv, Written
  <2>3. AirInv'
    BY <2>1 DEF StreamInv, AirInv
  <2>4. QED
    BY <1>2, <2>2, <2>3 DEF StreamInv
<1>7. QED
  BY <1>3, <1>4, <1>5, <1>6 DEF WriterStep

\* Every step of the reader keeps the invariant.
LEMMA ReaderKeeps ==
    ASSUME SinglePacket, StreamInv, ReaderStep
    PROVE  StreamInv'
<1>1. /\ Lens[1] \in Nat \ {0} /\ high \in Nat /\ index \in 0 .. Lens[1] - 1
      /\ high <= Lens[1] /\ Lens[1] <= SeqCount /\ SeqCount \in Nat
  BY SeqCountAssumption DEF SinglePacket, StreamInv, WriterInv, AirInv
<1>2. UNCHANGED <<call, index, wpc, result>>
  BY DEF ReaderStep, ReadFrame, Insert, ReadFails, writerVars
<1>3. CASE ReadFrame /\ ~IsMyData(Head(toR))
  <2>1. UNCHANGED <<toW, rpc, got, high, bucket, packets>> /\ toR' = Tail(toR) /\ toR # <<>>
    BY <1>3 DEF ReadFrame
  <2>2. toR' \in Seq({FrameAt(1, i) : i \in 0 .. index})
    BY <2>1, HeadTail DEF StreamInv, AirInv
  <2>3. QED
    BY <1>2, <2>1, <2>2 DEF StreamInv, WriterInv, AirInv, BucketInv, Written, FirstPacketIntact
<1>4. CASE ReadFrame /\ IsMyData(Head(toR))
  <2>1. /\ Head(toR) \in {FrameAt(1, i) : i \in 0 .. index}
        /\ toR' \in Seq({FrameAt(1, i) : i \in 0 .. index})
    BY <1>4, HeadTail DEF ReadFrame, StreamInv, AirInv
  <2>2. PICK i \in 0 .. index : Head(toR) = FrameAt(1, i)
    BY <2>1
  <2>3. i \in 0 .. Lens[1] - 1 /\ Head(toR).seq = i /\ Head(toR).body[2] = i
        /\ Head(toR).src = W /\ Head(toR).dest = R
    BY <1>1, <2>2, FrameFields
  <2>4. /\ toW' \in Heard(toW, AckFrame(W, R, i))
        /\ rpc = "listen" /\ rpc' = "insert" /\ got' = FrameAt(1, i) /\ got'.seq = i
        /\ high' = (IF i >= high THEN i + 1 ELSE high)
        /\ UNCHANGED <<bucket, packets>>
    BY <1>4, <2>2, <2>3 DEF ReadFrame
  <2>5. high' \in {index, index + 1} /\ high <= high' /\ i \in 0 .. high' - 1
        /\ \A j \in 0 .. high' - 1 : j \in 0 .. high - 1 \/ j = i
    BY <1>1, <2>4 DEF StreamInv, AirInv
  <2>6. WriterInv'
    BY <1>1, <1>2, <2>4 DEF StreamInv, WriterInv, Written
  <2>7. toW' \in Seq({AckFrame(W, R, j) : j \in 0 .. high' - 1})
    <3>1. {AckFrame(W, R, j) : j \in 0 .. high - 1} \subseteq {AckFrame(W, R, j) : j \in 0 .. high' - 1}
      <4>1. 0 .. high - 1 \subseteq 0 .. high' - 1
        BY <1>1, <2>5, <2>4
      <4>2. QED
        BY <4>1
    <3>2. toW \in Seq({AckFrame(W, R, j) : j \in 0 .. high' - 1})
      BY <3>1, SeqSubset DEF StreamInv, AirInv
    <3>3. AckFrame(W, R, i) \in {AckFrame(W, R, j) : j \in 0 .. high' - 1}
      BY <2>5
    <3>4. QED
      BY <2>4, <3>2, <3>3, HeardType
  <2>8. AirInv'
    BY <1>2, <2>1, <2>5, <2>7 DEF AirInv
  <2>9. BucketInv'
    <3>1. got' \in {FrameAt(1, j) : j \in 0 .. high' - 1}
      BY <2>4, <2>5
    <3>2. FirstPacketIntact'
      BY <2>4 DEF StreamInv, BucketInv, FirstPacketIntact
    <3>3. ASSUME packets' = <<>>
          PROVE  /\ (DOMAIN bucket \subseteq 0 .. high - 1)'
                 /\ \A j \in 0 .. high' - 1 : j \in DOMAIN bucket' \/ (rpc' = "insert" /\ got'.seq = j)
                 /\ (bucket = [s \in DOMAIN bucket |-> <<1, s>>])'
      <4>1. DOMAIN bucket \subseteq 0 .. high - 1 /\ bucket = [s \in DOMAIN bucket |-> <<1, s>>]
            /\ \A j \in 0 .. high - 1 : j \in DOMAIN bucket
        BY <2>4, <3>3 DEF StreamInv, BucketInv
      <4>2. QED
        BY <1>1, <2>4, <2>5, <4>1
    <3>4. QED
      BY <2>4, <3>1, <3>2, <3>3 DEF StreamInv, BucketInv
  <2>10. QED
    BY <2>6, <2>8, <2>9 DEF StreamInv
<1>5. CASE Insert
  <2>1. UNCHANGED <<toR, toW, high>> /\ rpc = "insert" /\ rpc' = "listen"
    BY <1>5 DEF Insert
  <2>2. WriterInv' /\ AirInv'
    BY <1>2, <2>1 DEF StreamInv, WriterInv, AirInv, Written
  <2>3. PICK i \in 0 .. high - 1 : got = FrameAt(1, i)
    BY <2>1 DEF StreamInv, BucketInv
  <2>4. /\ i \in 0 .. Lens[1] - 1 /\ got.seq = i /\ got.body = <<1, i>>
        /\ got.eop = (i = Lens[1] - 1)
    BY <1>1, <2>3, FrameFields
  <2> DEFINE b == OrInsert(bucket, i, <<1, i>>)
  <2>5. b \in Packet /\ DOMAIN b = DOMAIN bucket \cup {i}
    <3>1. i \in 0 .. SeqCount - 1 /\ <<1, i>> \in Payloads
      BY <1>1, <2>4, LensAssumption DEF Payloads, SinglePacket
    <3>2. bucket \in Packet
      BY DEF StreamInv, BucketInv
    <3>3. QED
      BY <3>1, <3>2, OrInsertType
  <2>6. ASSUME packets = <<>>
        PROVE  DOMAIN b = 0 .. high - 1 /\ b = [s \in DOMAIN b |-> <<1, s>>]
    <3>1. /\ DOMAIN bucket \subseteq 0 .. high - 1 /\ bucket = [s \in DOMAIN bucket |-> <<1, s>>]
          /\ \A j \in 0 .. high - 1 : j \in DOMAIN bucket \/ j = i
      BY <2>1, <2>4, <2>6 DEF StreamInv, BucketInv
    <3>2. DOMAIN b = 0 .. high - 1
      BY <2>3, <2>5, <3>1
    <3>3. \A s \in DOMAIN bucket \cup {i} : (IF s \in DOMAIN bucket THEN bucket[s] ELSE <<1, i>>) = <<1, s>>
      BY <3>1
    <3>4. b = [s \in DOMAIN bucket \cup {i} |-> <<1, s>>]
      BY <3>3 DEF OrInsert
    <3>5. QED
      BY <2>5, <3>2, <3>4
  <2>7. CASE got.eop
    <3>1. packets' = Append(packets, b) /\ bucket' = EmptyBucket
      BY <1>5, <2>4, <2>7 DEF Insert
    <3>2. packets \in Seq(Packet) /\ packets' \in Seq(Packet) /\ packets' # <<>>
      BY <2>5, <3>1 DEF StreamInv, BucketInv
    <3>3. FirstPacketIntact'
      <4>1. CASE packets = <<>>
        <5>1. i = Lens[1] - 1
          BY <2>4, <2>7
        <5>2. high = Lens[1]
          BY <1>1, <2>3, <5>1
        <5>3. b = FirstPacket
          BY <2>6, <4>1, <5>2 DEF FirstPacket
        <5>4. packets'[1] = b
          BY <3>1, <4>1
        <5>5. QED
          BY <5>3, <5>4 DEF FirstPacketIntact, FirstPacket
      <4>2. CASE packets # <<>>
        <5>1. packets'[1] = packets[1]
          BY <3>1, <3>2, <4>2
        <5>2. QED
          BY <4>2, <5>1 DEF StreamInv, BucketInv, FirstPacketIntact, FirstPacket
      <4>3. QED
        BY <4>1, <4>2
    <3>4. EmptyBucket \in Packet
      <4>1. EmptyBucket \in [{} -> Payloads]
        BY DEF EmptyBucket
      <4>2. QED
        BY <4>1 DEF Packet
    <3>5. BucketInv'
      BY <2>1, <3>1, <3>2, <3>3, <3>4 DEF BucketInv
    <3>6. QED
      BY <2>2, <3>5 DEF StreamInv
  <2>8. CASE ~got.eop
    <3>1. packets' = packets /\ bucket' = b
      BY <1>5, <2>4, <2>8 DEF Insert
    <3>2. FirstPacketIntact' /\ packets' \in Seq(Packet) /\ bucket' \in Packet
      BY <2>5, <3>1 DEF StreamInv, BucketInv, FirstPacketIntact
    <3>3. ASSUME packets' = <<>>
          PROVE  /\ DOMAIN bucket' \subseteq 0 .. high' - 1
                 /\ \A j \in 0 .. high' - 1 : j \in DOMAIN bucket'
                 /\ bucket' = [s \in DOMAIN bucket' |-> <<1, s>>]
      BY <2>1, <2>6, <3>1, <3>3
    <3>4. BucketInv'
      BY <2>1, <3>2, <3>3 DEF BucketInv
    <3>5. QED
      BY <2>2, <3>4 DEF StreamInv
  <2>9. QED
    BY <2>7, <2>8
<1>6. CASE ReadFails
  <2>1. UNCHANGED <<toW, got, packets, high>> /\ toR # <<>> /\ toR' = Tail(toR)
        /\ rpc' = "failed" /\ bucket' = EmptyBucket
    BY <1>6 DEF ReadFails
  <2>2. toR' \in Seq({FrameAt(1, i) : i \in 0 .. index})
    BY <2>1, HeadTail DEF StreamInv, AirInv
  <2>3. EmptyBucket \in Packet
    <3>1. EmptyBucket \in [{} -> Payloads]
      BY DEF EmptyBucket
    <3>2. QED
      BY <3>1 DEF Packet
  <2>4. QED
    BY <1>2, <2>1, <2>2, <2>3
    DEF StreamInv, WriterInv, AirInv, BucketInv, Written, FirstPacketIntact
<1>7. QED
  BY <1>3, <1>4, <1>5, <1>6 DEF ReaderStep

\* The invariant of the transfer of a single packet.
THEOREM StreamInvariant ==
    ASSUME SinglePacket
    PROVE  Spec => []StreamInv
<1>1. Init => StreamInv
  BY StreamInit
<1>2. StreamInv /\ [Next]_vars => StreamInv'
  <2>1. ASSUME StreamInv, UNCHANGED vars
        PROVE  StreamInv'
    BY <2>1 DEF vars, writerVars, readerVars, StreamInv, WriterInv, AirInv, BucketInv,
                Written, FirstPacketIntact
  <2>2. QED
    BY <2>1, WriterKeeps, ReaderKeeps DEF Next
<1>3. QED
  BY <1>1, <1>2, PTL DEF Spec

\* Whatever is lost and however often each frame is sent, the first packet `read`
\* returns is the packet written.
THEOREM FirstPacketArrives ==
    ASSUME SinglePacket
    PROVE  Spec => []FirstPacketIntact
<1>1. StreamInv => FirstPacketIntact
  BY DEF StreamInv, BucketInv
<1>2. QED
  BY <1>1, StreamInvariant, PTL

-----------------------------------------------------------------------------
\* A step of the writer is a Confirm, a Fail or nothing to the transfer.
LEMMA WriterRefines ==
    ASSUME SinglePacket, StreamInv, WriterStep
    PROVE  [Transfer!TransferNext]_(Transfer!transferVars)
<1>1. /\ Len(Lens) = 1 /\ Lens[1] \in Nat \ {0} /\ high \in Nat /\ index \in Nat
  BY DEF SinglePacket, StreamInv, WriterInv, AirInv
<1>2. CASE Write \/ SendFrame
  <2>1. UNCHANGED <<index, result, high>>
    BY <1>1, <1>2 DEF StreamInv, WriterInv, Write, SendFrame, readerVars
  <2>2. QED
    BY <2>1 DEF Transfer!transferVars, Written
<1>3. CASE TakeAck
  <2>1. CASE UNCHANGED writerVars
    BY <1>3, <2>1 DEF TakeAck, writerVars, readerVars, Transfer!transferVars, Written
  <2>2. CASE ~(UNCHANGED writerVars)
    <3>1. IsMyAck(Head(toW)) /\ result = <<>> /\ UNCHANGED high /\ call = 1
          /\ Head(toW) \in {AckFrame(W, R, i) : i \in 0 .. high - 1}
      BY <1>3, <2>2, HeadTail DEF StreamInv, WriterInv, AirInv, TakeAck, readerVars
    <3>2. high = index + 1
      <4>1. PICK i \in 0 .. high - 1 : Head(toW) = AckFrame(W, R, i)
        BY <3>1
      <4>2. high <= Lens[1]
        BY <1>1 DEF StreamInv, WriterInv, AirInv
      <4>3. Head(toW).seq = i
        BY <1>1, <4>1, <4>2, FrameFields
      <4>4. QED
        BY <1>1, <3>1, <4>3 DEF IsMyAck, StreamInv, AirInv
    <3>3. CASE index + 1 < Lens[1]
      <4>1. index' = index + 1 /\ UNCHANGED result
        BY <1>1, <1>3, <3>1, <3>3 DEF TakeAck
      <4>2. Transfer!Confirm
        BY <1>1, <3>1, <3>2, <3>3, <4>1 DEF Transfer!Confirm, Written
      <4>3. QED
        BY <4>2 DEF Transfer!TransferNext
    <3>4. CASE index + 1 = Lens[1]
      <4>1. index' = index /\ result' = <<"ok">>
        BY <1>1, <1>3, <2>2, <3>1, <3>4 DEF TakeAck, Return
      <4>2. Transfer!Confirm
        BY <1>1, <3>1, <3>2, <3>4, <4>1 DEF Transfer!Confirm, Written
      <4>3. QED
        BY <4>2 DEF Transfer!TransferNext
    <3>5. QED
      BY <1>1, <3>3, <3>4 DEF StreamInv, WriterInv
  <2>3. QED
    BY <2>1, <2>2
<1>4. CASE AckTimeout \/ WriteFails
  <2>1. UNCHANGED <<index, high>> /\ call = 1 /\ result = <<>>
    BY <1>4 DEF StreamInv, WriterInv, AckTimeout, WriteFails, Return, readerVars
  <2>2. result' \in {<<>>, <<"link_error">>, <<"error">>}
    <3>1. CASE AckTimeout
      BY <2>1, <3>1 DEF AckTimeout, Return
    <3>2. CASE WriteFails
      BY <2>1, <3>2 DEF WriteFails, Return
    <3>3. QED
      BY <1>4, <3>1, <3>2
  <2>3. CASE result' = <<>>
    BY <2>1, <2>3 DEF Transfer!transferVars, Written
  <2>4. CASE result' # <<>>
    <3>1. Transfer!Fail
      BY <2>1, <2>2, <2>4 DEF Transfer!Fail, Written
    <3>2. QED
      BY <3>1 DEF Transfer!TransferNext
  <2>5. QED
    BY <2>3, <2>4
<1>5. QED
  BY <1>2, <1>3, <1>4 DEF WriterStep

\* A step of the reader is a Deliver or nothing to the transfer.
LEMMA ReaderRefines ==
    ASSUME SinglePacket, StreamInv, ReaderStep
    PROVE  [Transfer!TransferNext]_(Transfer!transferVars)
<1>1. /\ Lens[1] \in Nat \ {0} /\ high \in Nat /\ index \in 0 .. Lens[1] - 1
  BY DEF SinglePacket, StreamInv, WriterInv, AirInv
<1>2. UNCHANGED <<index, result>>
  BY DEF ReaderStep, ReadFrame, Insert, ReadFails, writerVars
<1>3. CASE UNCHANGED high
  BY <1>2, <1>3 DEF Transfer!transferVars, Written
<1>4. CASE ~(UNCHANGED high)
  <2>1. /\ toR # <<>> /\ Head(toR).body[2] >= high /\ high' = Head(toR).body[2] + 1
        /\ Head(toR) \in {FrameAt(1, i) : i \in 0 .. index}
    BY <1>4, HeadTail DEF ReaderStep, ReadFrame, Insert, ReadFails, StreamInv, AirInv
  <2>2. PICK i \in 0 .. index : Head(toR) = FrameAt(1, i)
    BY <2>1
  <2>3. Head(toR).body[2] = i
    BY <1>1, <2>2, FrameFields
  <2>4. high = index /\ high' = index + 1 /\ ~Written
    BY SMTT(20), <1>1, <2>1, <2>3 DEF StreamInv, WriterInv, AirInv
  <2>5. Transfer!Deliver
    BY <1>1, <1>2, <2>4 DEF Transfer!Deliver, Written
  <2>6. QED
    BY <2>5 DEF Transfer!TransferNext
<1>5. QED
  BY <1>3, <1>4

\* The link implements the stop-and-wait transfer: `write` takes the next chunk
\* only when R has the one before, and says Ok only when R has them all.
THEOREM StreamIsTransfer ==
    ASSUME SinglePacket
    PROVE  Spec => TransferSpec
<1>1. Init => Transfer!TransferInit
  BY DEF SinglePacket, Init, Transfer!TransferInit, Written
<1>2. StreamInv /\ [Next]_vars => [Transfer!TransferNext]_(Transfer!transferVars)
  <2>1. ASSUME UNCHANGED vars
        PROVE  UNCHANGED Transfer!transferVars
    BY <2>1 DEF vars, writerVars, readerVars, Transfer!transferVars, Written
  <2>2. QED
    BY <2>1, WriterRefines, ReaderRefines DEF Next
<1>3. QED
  BY <1>1, <1>2, StreamInvariant, PTL DEF Spec, TransferSpec, Transfer!TransferSpec

-----------------------------------------------------------------------------
(* The types, whatever is written.                                         *)

\* The frames of a packet are data frames, and are answered by acknowledgements.
LEMMA FrameTypes ==
    /\ \A k \in DOMAIN Lens : \A i \in 0 .. Lens[k] - 1 : FrameAt(k, i) \in Data
    /\ \A f \in Data : /\ f.seq \in 0 .. SeqCount - 1 /\ f.eop \in BOOLEAN
                       /\ f.body \in Payloads /\ f.body[2] \in Nat
                       /\ f.src = W /\ f.dest = R => AckFrame(f.src, f.dest, f.seq) \in Acks
<1> DEFINE D(body) == [type : NonAck \cup Answer, dest : {W, R} \cup {Broadcast}, src : {W, R},
                       seq : 0 .. SeqCount - 1, eop : BOOLEAN, body : body]
<1>1. \A s \in Nat : s % SeqCount \in 0 .. SeqCount - 1
  BY SeqCountAssumption
<1>2. \A k \in DOMAIN Lens : Lens[k] \in Nat
  BY LensAssumption
<1>3. ASSUME NEW k \in DOMAIN Lens, NEW i \in 0 .. Lens[k] - 1 PROVE FrameAt(k, i) \in Data
  <2>1. i \in Nat
    BY <1>2
  <2>2. i % SeqCount \in 0 .. SeqCount - 1
    BY <1>1, <2>1
  <2>3. <<k, i>> \in Payloads
    <3>1. <<k, i>> \in {k} \X (0 .. Lens[k] - 1)
      OBVIOUS
    <3>2. QED
      BY <3>1 DEF Payloads
  <2>4. (i = Lens[k] - 1) \in BOOLEAN
    OBVIOUS
  <2>5. QED
    BY <2>2, <2>3, <2>4 DEF FrameAt, DataFrame, Data, Frame, NonAck
<1>4. ASSUME NEW f \in Data
      PROVE  /\ f.seq \in 0 .. SeqCount - 1 /\ f.eop \in BOOLEAN
             /\ f.body \in Payloads /\ f.body[2] \in Nat
             /\ f.src = W /\ f.dest = R => AckFrame(f.src, f.dest, f.seq) \in Acks
  <2>1. f.seq \in 0 .. SeqCount - 1 /\ f.eop \in BOOLEAN /\ f.body \in Payloads
    BY DEF Data, Frame
  <2>2. f.body[2] \in Nat
    <3>1. PICK k \in DOMAIN Lens : f.body \in {k} \X (0 .. Lens[k] - 1)
      BY <2>1 DEF Payloads
    <3>2. QED
      BY <1>2, <3>1
  <2>3. f.seq % SeqCount \in 0 .. SeqCount - 1
    BY <1>1, <2>1
  <2>4. ASSUME f.src = W, f.dest = R PROVE AckFrame(f.src, f.dest, f.seq) \in Acks
    BY <2>3, <2>4 DEF AckFrame, Acks, Frame, Answer
  <2>5. QED
    BY <2>1, <2>2, <2>4
<1>5. QED
  BY <1>3, <1>4

LEMMA EmptyBucketType == EmptyBucket \in Packet
<1>1. EmptyBucket \in [{} -> Payloads]
  BY DEF EmptyBucket
<1>2. QED
  BY <1>1 DEF Packet

\* A call that returns leaves one more result.
LEMMA ReturnType ==
    ASSUME TypeOK, wpc # "idle", NEW r \in {"ok", "link_error", "error"}, Return(r),
           retry' \in 0 .. MaxResends, UNCHANGED <<toR, toW, readerVars>>
    PROVE  TypeOK'
<1>1. /\ result' \in Seq({"ok", "link_error", "error"})
      /\ Len(result') = call /\ call \in Nat
  <2>1. result \in Seq({"ok", "link_error", "error"}) /\ Len(result) = call - 1 /\ call \in Nat
    BY LensAssumption DEF TypeOK
  <2>2. result' = Append(result, r)
    BY DEF Return
  <2>3. QED
    BY <2>1, <2>2
<1>2. wpc' = "idle" /\ UNCHANGED <<call, index>>
  BY DEF Return
<1>3. QED
  BY <1>1, <1>2 DEF TypeOK, readerVars

\* Every step of the writer keeps the types.
LEMMA WriterTypes ==
    ASSUME TypeOK, WriterStep
    PROVE  TypeOK'
<1>1. /\ call \in 0 .. Len(Lens) /\ Len(Lens) \in Nat /\ index \in Nat /\ retry \in 0 .. MaxResends
      /\ MaxResends \in Nat \ {0}
      /\ \A k \in DOMAIN Lens : Lens[k] \in Nat
  BY LensAssumption, BoundAssumption DEF TypeOK
<1>2. CASE Write
  <2>1. call' = call + 1 /\ call' \in DOMAIN Lens /\ index' = 0 /\ retry' = 0 /\ wpc = "idle"
        /\ UNCHANGED <<toR, toW, readerVars>>
    BY <1>1, <1>2 DEF Write
  <2>2. result \in Seq({"ok", "link_error", "error"}) /\ Len(result) = call
    BY <1>1, <2>1 DEF TypeOK
  <2>3. CASE Lens[call + 1] = 0
    <3>1. result' = Append(result, "ok") /\ wpc' = "idle"
      BY <1>2, <2>1, <2>3 DEF Write
    <3>2. result' \in Seq({"ok", "link_error", "error"}) /\ Len(result') = call'
      BY <2>1, <2>2, <3>1
    <3>3. QED
      BY <1>1, <2>1, <3>1, <3>2 DEF TypeOK, readerVars
  <2>4. CASE Lens[call + 1] # 0
    <3>1. result' = result /\ wpc' = "send"
      BY <1>2, <2>4 DEF Write
    <3>2. Len(result') = call' - 1 /\ call' > 0 /\ index' < Lens[call'] /\ retry' < MaxResends
      BY <1>1, <2>1, <2>2, <2>4, <3>1
    <3>3. QED
      BY <1>1, <2>1, <2>2, <3>1, <3>2 DEF TypeOK, readerVars
  <2>5. QED
    BY <2>3, <2>4
<1>3. CASE SendFrame
  <2>1. /\ wpc = "send" /\ wpc' = "await" /\ UNCHANGED <<call, index, retry, result, toW, readerVars>>
        /\ toR' \in Heard(toR, FrameAt(call, index))
    BY <1>3 DEF SendFrame
  <2>2. call \in DOMAIN Lens /\ index \in 0 .. Lens[call] - 1
    BY <1>1, <2>1, LensAssumption DEF TypeOK
  <2>3. toR' \in Seq(Data)
    BY <2>1, <2>2, FrameTypes, HeardType DEF TypeOK
  <2>4. QED
    BY <2>1, <2>3 DEF TypeOK, readerVars
<1>4. CASE TakeAck
  <2>1. toW' \in Seq(Acks) /\ UNCHANGED <<toR, readerVars>> /\ wpc = "await"
    BY <1>4, HeadTail DEF TakeAck, TypeOK
  <2>2. call \in DOMAIN Lens /\ Lens[call] \in Nat /\ index < Lens[call]
    BY <1>1, <2>1, LensAssumption DEF TypeOK
  <2>3. CASE ~IsMyAck(Head(toW))
    BY <1>4, <2>1, <2>3 DEF TakeAck, TypeOK, writerVars, readerVars
  <2>4. CASE IsMyAck(Head(toW)) /\ index + 1 < Lens[call]
    <3>1. index' = index + 1 /\ retry' = 0 /\ wpc' = "send" /\ UNCHANGED <<call, result>>
      BY <1>1, <1>4, <2>2, <2>4 DEF TakeAck
    <3>2. index' \in Nat /\ index' < Lens[call'] /\ retry' < MaxResends /\ retry' \in 0 .. MaxResends
      BY <1>1, <2>4, <3>1
    <3>3. QED
      BY <2>1, <3>1, <3>2 DEF TypeOK, readerVars
  <2>5. CASE IsMyAck(Head(toW)) /\ index + 1 = Lens[call]
    <3>1. Return("ok") /\ retry' = retry
      BY <1>1, <1>4, <2>2, <2>5 DEF TakeAck
    <3>2. result' = Append(result, "ok") /\ wpc' = "idle" /\ UNCHANGED <<call, index>>
      BY <3>1 DEF Return
    <3>3. result \in Seq({"ok", "link_error", "error"}) /\ Len(result) = call - 1
      BY <2>1 DEF TypeOK
    <3>4. result' \in Seq({"ok", "link_error", "error"}) /\ Len(result') = call
      BY <1>1, <3>2, <3>3
    <3>5. QED
      BY <1>1, <2>1, <3>1, <3>2, <3>4 DEF TypeOK, readerVars
  <2>6. QED
    BY <1>1, <2>2, <2>3, <2>4, <2>5
<1>5. CASE AckTimeout
  <2>1. wpc = "await" /\ retry' = retry + 1 /\ UNCHANGED <<toR, toW, readerVars>>
    BY <1>5 DEF AckTimeout
  <2>2. retry < MaxResends /\ retry' \in 0 .. MaxResends
    BY <1>1, <2>1 DEF TypeOK
  <2>3. CASE retry' >= MaxResends
    BY <1>5, <2>1, <2>2, <2>3, ReturnType DEF AckTimeout
  <2>4. CASE ~(retry' >= MaxResends)
    <3>1. wpc' = "send" /\ UNCHANGED <<call, index, result>> /\ retry' < MaxResends
      BY <1>1, <1>5, <2>2, <2>4 DEF AckTimeout
    <3>2. QED
      BY <2>1, <2>2, <3>1 DEF TypeOK, readerVars
  <2>5. QED
    BY <2>3, <2>4
<1>6. CASE WriteFails
  BY <1>1, <1>6, ReturnType DEF WriteFails
<1>7. QED
  BY <1>2, <1>3, <1>4, <1>5, <1>6 DEF WriterStep

\* Every step of the reader keeps the types.
LEMMA ReaderTypes ==
    ASSUME TypeOK, ReaderStep
    PROVE  TypeOK'
<1>1. UNCHANGED writerVars
  BY DEF ReaderStep, ReadFrame, Insert, ReadFails
<1>2. CASE ReadFrame
  <2>1. toR' \in Seq(Data) /\ Head(toR) \in Data /\ UNCHANGED <<bucket, packets>>
    BY <1>2, HeadTail DEF ReadFrame, TypeOK
  <2>2. CASE ~IsMyData(Head(toR))
    <3>1. UNCHANGED <<toW, rpc, got, high>>
      BY <1>2, <2>2 DEF ReadFrame
    <3>2. QED
      BY <1>1, <2>1, <3>1 DEF TypeOK, writerVars
  <2>3. CASE IsMyData(Head(toR))
    <3> DEFINE f == Head(toR)
    <3>1. /\ toW' \in Heard(toW, AckFrame(f.src, f.dest, f.seq))
          /\ rpc' = "insert" /\ got' = f
          /\ high' = IF f.body[2] >= high THEN f.body[2] + 1 ELSE high
      BY <1>2, <2>3 DEF ReadFrame
    <3>2. AckFrame(f.src, f.dest, f.seq) \in Acks /\ f.body[2] \in Nat
      BY <2>1, <2>3, FrameTypes DEF IsMyData
    <3>3. toW' \in Seq(Acks)
      BY <3>1, <3>2, HeardType DEF TypeOK
    <3>4. high' \in Nat
      BY SMTT(20), <3>1, <3>2 DEF TypeOK
    <3>5. QED
      BY <1>1, <2>1, <3>1, <3>3, <3>4 DEF TypeOK, writerVars
  <2>4. QED
    BY <2>2, <2>3
<1>3. CASE Insert
  <2> DEFINE b == OrInsert(bucket, got.seq, got.body)
  <2>1. got \in Data /\ rpc' = "listen" /\ UNCHANGED <<toR, toW, high>>
    BY <1>3 DEF Insert, TypeOK
  <2>2. b \in Packet
    BY <2>1, FrameTypes, OrInsertType DEF TypeOK
  <2>3. bucket' \in Packet /\ packets' \in Seq(Packet)
    <3>1. CASE got.eop
      <4>1. packets' = Append(packets, b) /\ bucket' = EmptyBucket
        BY <1>3, <3>1 DEF Insert
      <4>2. packets \in Seq(Packet)
        BY DEF TypeOK
      <4> HIDE DEF b
      <4>3. QED
        BY <2>2, <4>1, <4>2, EmptyBucketType
    <3>2. CASE ~got.eop
      <4>1. packets' = packets /\ bucket' = b
        BY <1>3, <3>2 DEF Insert
      <4>2. QED
        BY <2>2, <4>1 DEF TypeOK
    <3>3. QED
      BY <3>1, <3>2
  <2>4. QED
    BY <1>1, <2>1, <2>3 DEF TypeOK, writerVars
<1>4. CASE ReadFails
  <2>1. toR' \in Seq(Data) /\ rpc' = "failed" /\ bucket' \in Packet
        /\ UNCHANGED <<toW, got, packets, high>>
    BY <1>4, HeadTail, EmptyBucketType DEF ReadFails, TypeOK
  <2>2. QED
    BY <1>1, <2>1 DEF TypeOK, writerVars
<1>5. QED
  BY <1>2, <1>3, <1>4 DEF ReaderStep

\* The type of every variable, whatever is written, lost or refused: a call under
\* way is at a frame of its packet and has resends left (write, AcsmaIoStream).
THEOREM StreamTypesHold == Spec => []TypeOK
<1>1. Init => TypeOK
  BY EmptyBucketType, LensAssumption, BoundAssumption DEF Init, TypeOK
<1>2. TypeOK /\ [Next]_vars => TypeOK'
  <2>1. ASSUME TypeOK, UNCHANGED vars PROVE TypeOK'
    BY <2>1 DEF vars, writerVars, readerVars, TypeOK
  <2>2. QED
    BY <2>1, WriterTypes, ReaderTypes DEF Next
<1>3. QED
  BY <1>1, <1>2, PTL DEF Spec
=============================================================================
