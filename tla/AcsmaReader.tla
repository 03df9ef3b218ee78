----------------------------- MODULE AcsmaReader -----------------------------
(***************************************************************************)
(* The reader handles of the stations, on top of the daemons: each station *)
(* has one task that calls `read(src)`, `read_unchecked` or `serve` over   *)
(* and over.  A packet is put together from the frames the daemon passed   *)
(* on, keyed by their sequence number.                                     *)
(***************************************************************************)
EXTENDS AcsmaSocket

CONSTANTS
    ReadFrom,    \* ReadFrom[n]: the argument of `read`, or AnySource or Nobody
    AnySource,   \* the station calls `read_unchecked`
    Nobody,      \* the station calls `serve`, which drops what it receives
    MaxPackets   \* bound: calls of `read` a station makes

ASSUME ReadFromAssumption == ReadFrom \in [Station -> Station \cup {AnySource, Nobody}]
ASSUME MaxPacketsAssumption == MaxPackets \in Nat

VARIABLES
    taken,    \* taken[n]: the frames of inbox[n] received from read_rx
    bucket,   \* bucket[n]: the frames kept, no two with one sequence number
    packets   \* packets[n]: what the calls returned, each a sequence of payloads

readerVars == <<taken, bucket, packets>>

ReaderInit ==
    /\ Init
    /\ taken = [n \in Station |-> 0]
    /\ bucket = [n \in Station |-> {}]
    /\ packets = [n \in Station |-> <<>>]

\* `entry(seq).or_insert(payload)`: the first frame with a number stays.
OrInsert(b, f) == IF \E g \in b : g.seq = f.seq THEN b ELSE b \cup {f}

\* The frame of b in the i-th place by rising sequence number.
Place(b, f) == Cardinality({g \in b : g.seq < f.seq}) + 1
FrameIn(b, i) == CHOOSE f \in b : Place(b, f) = i

\* Mutant: the payloads are collected and not joined.
AssembleNested(b) == [i \in 1 .. Cardinality(b) |-> <<FrameIn(b, i).body>>]

\* The payloads in the order a BTreeMap iterates, by rising sequence number.
Assemble(b) == [i \in 1 .. Cardinality(b) |-> FrameIn(b, i).body]

ForReader(n, f) ==
    /\ f.type = "DATA"
    /\ ReadFrom[n] = AnySource \/ ReadFrom[n] = f.src

Reading(n) == reader[n] /\ Len(packets[n]) < MaxPackets

TakeFrame(n) ==
    /\ Reading(n) /\ taken[n] < Len(inbox[n])
    /\ taken' = [taken EXCEPT ![n] = @ + 1]
    /\ LET f == inbox[n][taken[n] + 1]
           b == OrInsert(bucket[n], f)
       IN  \/ /\ ~ForReader(n, f)
              /\ UNCHANGED <<bucket, packets>>
           \/ /\ ForReader(n, f) /\ ~f.eop
              /\ bucket' = [bucket EXCEPT ![n] = b]
              /\ UNCHANGED packets
           \/ /\ ForReader(n, f) /\ f.eop
              /\ bucket' = [bucket EXCEPT ![n] = {}]
              /\ packets' = [packets EXCEPT ![n] = Append(@, Assemble(b))]

\* The daemon is gone and the channel drained: `recv` yields None, and the
\* call returns Ok with what it has.
TakeNone(n) ==
    /\ Reading(n) /\ taken[n] = Len(inbox[n])
    /\ ~Alive(n) /\ ReadFrom[n] # Nobody
    /\ bucket' = [bucket EXCEPT ![n] = {}]
    /\ packets' = [packets EXCEPT ![n] = Append(@, Assemble(bucket[n]))]
    /\ UNCHANGED taken

ReaderStep(n) == TakeFrame(n) \/ TakeNone(n)

ReaderNext ==
    \/ Next /\ UNCHANGED readerVars
    \/ \E n \in Station : ReaderStep(n) /\ UNCHANGED vars

ReaderSpec == ReaderInit /\ [][ReaderNext]_<<vars, readerVars>>

FairReaderSpec ==
    /\ ReaderSpec
    /\ Fairness
    /\ \A n \in Station : WF_<<vars, readerVars>>(ReaderStep(n) /\ UNCHANGED vars)

-----------------------------------------------------------------------------
(* Properties.                                                             *)

\* The payloads of operation k of caller c, in order.
Packet(c, k) == [i \in 1 .. Script[c][k].len |-> <<c, k, i - 1>>]

Writes(c) == {k \in 1 .. Len(Script[c]) : Script[c][k].kind = "write"}

\* The type of the reader's own variables.
ReaderTypeOK ==
    /\ taken \in [Station -> Nat]
    /\ \A n \in Station : taken[n] <= Len(inbox[n])
    /\ bucket \in [Station -> SUBSET Frames]
    /\ packets \in [Station -> Seq(Seq(Body))]

\* A packet that a call returns while its daemon runs is a packet that some
\* station wrote: no frame missing, none misplaced, none of another packet.
PacketIntact ==
    \A n \in Station : Alive(n) =>
       \A i \in 1 .. Len(packets[n]) :
          \E c \in Caller : \E k \in Writes(c) : packets[n][i] = Packet(c, k)

\* What was written with result Ok is in the end returned by `read` at the
\* destination, unless it was nothing, of which no frame tells.
WrittenIsRead ==
    \A c \in Caller : \A k \in Writes(c) :
       LET n == Script[c][k].dest
       IN  n \in Station /\ Script[c][k].len > 0 =>
             (k <= Len(result[c]) /\ result[c][k] = "ok"
                ~> \E i \in 1 .. Len(packets[n]) : packets[n][i] = Packet(c, k))
=============================================================================
