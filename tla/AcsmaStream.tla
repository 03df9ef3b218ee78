----------------------------- MODULE AcsmaStream -----------------------------
(***************************************************************************)
(* AcsmaIoStream (racsma/stream.rs): the stop-and-wait link without a      *)
(* daemon.  Station W calls `write` once for each packet, station R calls  *)
(* `read` over and over; both own their audio streams, so nothing runs     *)
(* beside the call.  What a station hears while it is not looking waits in *)
(* its input stream.  Any frame may be lost.                               *)
(***************************************************************************)
EXTENDS AcsmaFrame, Sequences

CONSTANTS
    W, R,          \* the addresses of the two stations
    Lens,          \* Lens[k]: the chunks of the k-th packet written
    MaxResends,    \* SOCKET_MAX_RESENDS
    AirCapacity,   \* bound: frames heard and not yet looked at
    Faulty,        \* the stations whose audio output may fail
    NoFrame

ASSUME LensAssumption == Lens \in Seq(Nat)
ASSUME AddressAssumption == W # R
ASSUME BoundAssumption == MaxResends \in Nat \ {0} /\ AirCapacity \in Nat

VARIABLES
    call,      \* the calls of write made: the packet being written
    index,     \* the frame of it being written
    retry,     \* the transmissions of that frame that were not acknowledged
    wpc,       \* "idle", "send" or "await"
    result,    \* what the calls of write returned
    toR, toW,  \* the frames heard and not yet looked at
    rpc,       \* "listen", "insert" or "failed"
    got,       \* the frame acknowledged and not yet in the bucket
    bucket,    \* seq -> payload, the BTreeMap of `read`
    packets,   \* what the calls of read returned, each a map from seq to payload
    high       \* history: one more than the largest index acknowledged by R

writerVars == <<call, index, retry, wpc, result>>
readerVars == <<rpc, got, bucket, packets, high>>
vars == <<writerVars, toR, toW, readerVars>>

EmptyBucket == [s \in {} |-> <<>>]

Init ==
    /\ call = 0 /\ index = 0 /\ retry = 0 /\ wpc = "idle" /\ result = <<>>
    /\ toR = <<>> /\ toW = <<>>
    /\ rpc = "listen" /\ got = NoFrame /\ bucket = EmptyBucket
    /\ packets = <<>> /\ high = 0

-----------------------------------------------------------------------------
\* A frame sent to the station with input q: heard or lost.
Heard(q, f) == {q} \cup IF Len(q) < AirCapacity THEN {Append(q, f)} ELSE {}

\* Mutant: the packet ends one frame early.
FrameAtEarlyEnd(k, i) == DataFrame(R, W, i, i + 2 = Lens[k], <<k, i>>)

\* The index goes into the header as it is and is cut to the field's width.
FrameAt(k, i) == DataFrame(R, W, i, i = Lens[k] - 1, <<k, i>>)

Return(r) ==
    /\ result' = Append(result, r)
    /\ wpc' = "idle"
    /\ UNCHANGED <<call, index>>

\* A call of write: a packet without bits is written at once.
Write ==
    /\ wpc = "idle" /\ call < Len(Lens)
    /\ call' = call + 1 /\ index' = 0 /\ retry' = 0
    /\ IF Lens[call + 1] = 0
       THEN result' = Append(result, "ok") /\ UNCHANGED wpc
       ELSE wpc' = "send" /\ UNCHANGED result
    /\ UNCHANGED <<toR, toW, readerVars>>

SendFrame ==
    /\ wpc = "send"
    /\ toR' \in Heard(toR, FrameAt(call, index))
    /\ wpc' = "await"
    /\ UNCHANGED <<call, index, retry, result, toW, readerVars>>

\* Mutant: any acknowledgement will do.
IsMyAckAnySeq(f) == f.type = "ACK" /\ f.src = R /\ f.dest = W

\* The acknowledgement waited for carries the index, uncut.
IsMyAck(f) == f.type = "ACK" /\ f.src = R /\ f.dest = W /\ f.seq = index

\* The input stream does not end, so the loop ends with the acknowledgement.
TakeAck ==
    /\ wpc = "await" /\ toW # <<>>
    /\ toW' = Tail(toW)
    /\ \/ /\ ~IsMyAck(Head(toW))
          /\ UNCHANGED writerVars
       \/ /\ IsMyAck(Head(toW)) /\ index + 1 < Lens[call]
          /\ index' = index + 1 /\ retry' = 0 /\ wpc' = "send"
          /\ UNCHANGED <<call, result>>
       \/ /\ IsMyAck(Head(toW)) /\ index + 1 = Lens[call]
          /\ Return("ok") /\ UNCHANGED retry
    /\ UNCHANGED <<toR, readerVars>>

\* Mutants: one retry too many, and retries that are not counted.
AckTimeoutLate ==
    /\ wpc = "await"
    /\ retry' = retry + 1
    /\ IF retry' > MaxResends
       THEN Return("link_error")
       ELSE wpc' = "send" /\ UNCHANGED <<call, index, result>>
    /\ UNCHANGED <<toR, toW, readerVars>>

AckTimeoutUncounted ==
    /\ wpc = "await"
    /\ wpc' = "send" /\ UNCHANGED <<call, index, retry, result>>
    /\ UNCHANGED <<toR, toW, readerVars>>

AckTimeout ==
    /\ wpc = "await"
    /\ retry' = retry + 1
    /\ IF retry' >= MaxResends
       THEN Return("link_error")
       ELSE wpc' = "send" /\ UNCHANGED <<call, index, result>>
    /\ UNCHANGED <<toR, toW, readerVars>>

WriteFails ==
    /\ W \in Faulty /\ wpc = "send"
    /\ Return("error")
    /\ UNCHANGED <<retry, toR, toW, readerVars>>

-----------------------------------------------------------------------------
IsMyData(f) == f.type = "DATA" /\ f.src = W /\ f.dest = R

\* Whatever is not a data frame of W is dropped; a data frame is acknowledged.
ReadFrame ==
    /\ rpc = "listen" /\ toR # <<>>
    /\ toR' = Tail(toR)
    /\ LET f == Head(toR) IN
       IF IsMyData(f)
       THEN /\ toW' \in Heard(toW, AckFrame(f.src, f.dest, f.seq))
            /\ rpc' = "insert" /\ got' = f
            /\ high' = IF f.body[2] >= high THEN f.body[2] + 1 ELSE high
       ELSE UNCHANGED <<toW, rpc, got, high>>
    /\ UNCHANGED <<writerVars, bucket, packets>>

\* `entry(seq).or_insert(payload)`
OrInsert(b, s, p) == [x \in DOMAIN b \cup {s} |-> IF x \in DOMAIN b THEN b[x] ELSE p]

Insert ==
    /\ rpc = "insert"
    /\ LET b == OrInsert(bucket, got.seq, got.body) IN
       IF got.eop
       THEN packets' = Append(packets, b) /\ bucket' = EmptyBucket
       ELSE bucket' = b /\ UNCHANGED packets
    /\ rpc' = "listen" /\ got' = NoFrame
    /\ UNCHANGED <<writerVars, toR, toW, high>>

\* The acknowledgement cannot be sent: the call ends with an error.
ReadFails ==
    /\ R \in Faulty /\ rpc = "listen" /\ toR # <<>>
    /\ IsMyData(Head(toR))
    /\ toR' = Tail(toR)
    /\ rpc' = "failed" /\ bucket' = EmptyBucket
    /\ UNCHANGED <<writerVars, toW, got, packets, high>>

WriterStep == Write \/ SendFrame \/ TakeAck \/ AckTimeout \/ WriteFails
ReaderStep == ReadFrame \/ Insert \/ ReadFails

Next == WriterStep \/ ReaderStep

Spec == Init /\ [][Next]_vars

\* The runtime keeps polling both calls, and the acknowledgement timeout fires.
FairSpec == Spec /\ WF_vars(Write \/ SendFrame \/ AckTimeout) /\ WF_vars(ReaderStep)

-----------------------------------------------------------------------------
(* Properties.                                                             *)

Payloads == UNION {{k} \X (0 .. Lens[k] - 1) : k \in DOMAIN Lens}
Data == {f \in Frame({W, R}, Payloads) : f.type = "DATA"}
Acks == {f \in Frame({W, R}, {NoBody}) : f.type = "ACK"}
Packet == UNION {[S -> Payloads] : S \in SUBSET (0 .. SeqCount - 1)}

\* The type of every variable.
TypeOK ==
    /\ call \in 0 .. Len(Lens) /\ index \in Nat /\ retry \in 0 .. MaxResends
    /\ wpc \in {"idle", "send", "await"}
    /\ wpc # "idle" => call > 0 /\ index < Lens[call] /\ retry < MaxResends
    /\ result \in Seq({"ok", "link_error", "error"})
    /\ Len(result) = call - (IF wpc = "idle" THEN 0 ELSE 1)
    /\ toR \in Seq(Data) /\ toW \in Seq(Acks)
    /\ rpc \in {"listen", "insert", "failed"}
    /\ rpc = "insert" => got \in Data
    /\ bucket \in Packet /\ packets \in Seq(Packet)
    /\ high \in Nat

\* Every call of write returns, with Ok or with an error, however much is lost.
WritesReturn == <>(Len(result) = Len(Lens))

\* The packet written first, as `read` returns it.
FirstPacket == [s \in 0 .. Lens[1] - 1 |-> <<1, s>>]

\* The first packet `read` returns is the first packet written: nothing is
\* missing, whatever was lost and however often each frame was sent.
FirstPacketIntact == packets # <<>> => packets[1] = FirstPacket

\* What the transfer of the only packet promises, seen through its counters.
Written == result = <<"ok">>

Transfer == INSTANCE PacketTransfer WITH
    Chunks <- Lens[1],
    delivered <- high,
    confirmed <- IF Written THEN Lens[1] ELSE index,
    outcome <- IF result = <<>> THEN "open" ELSE IF Written THEN "ok" ELSE "error"

\* The transfer of one packet is a stop-and-wait transfer: `write` takes chunk
\* after chunk and says Ok only of a packet whose every chunk was delivered.
TransferSpec == Transfer!TransferSpec

-----------------------------------------------------------------------------
(* The inductive invariant behind the last two, when one packet is written *)
(* whose chunks can be told apart by the seq field.                        *)

SinglePacket == Len(Lens) = 1 /\ Lens[1] \in 1 .. SeqCount

\* What the writer holds: it has made no call, makes its only one, or has made it.
WriterInv ==
    /\ call \in {0, 1} /\ index \in 0 .. Lens[1] - 1
    /\ call = 0 => index = 0 /\ result = <<>>
    /\ wpc \in {"idle", "send", "await"}
    /\ wpc # "idle" => call = 1 /\ result = <<>>
    /\ result \in {<<>>, <<"ok">>, <<"link_error">>, <<"error">>}
    /\ Written => high = Lens[1]

\* R is at most one chunk ahead of W, and no acknowledgement runs ahead of R.
AirInv ==
    /\ high \in {index, index + 1}
    /\ toR \in Seq({FrameAt(1, i) : i \in 0 .. index})
    /\ toW \in Seq({AckFrame(W, R, i) : i \in 0 .. high - 1})

\* Until the first packet is complete, the bucket holds every chunk acknowledged
\* but the one about to be put into it.
BucketInv ==
    /\ rpc \in {"listen", "insert", "failed"}
    /\ rpc = "insert" => got \in {FrameAt(1, i) : i \in 0 .. high - 1}
    /\ packets = <<>> /\ rpc # "failed" =>
          /\ DOMAIN bucket \subseteq 0 .. high - 1
          /\ \A i \in 0 .. high - 1 : i \in DOMAIN bucket \/ (rpc = "insert" /\ got.seq = i)
          /\ bucket = [s \in DOMAIN bucket |-> <<1, s>>]
    /\ bucket \in Packet /\ packets \in Seq(Packet)
    /\ FirstPacketIntact

StreamInv == WriterInv /\ AirInv /\ BucketInv
=============================================================================
