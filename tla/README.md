# Rathernet in TLA+

Rathernet is a network stack over sound: two or more computers exchange chirps
through loudspeakers and microphones, and on top of that run a MAC layer with
acknowledgements (Racsma), an IP adapter and a NAT gateway (Rateway), and an FTP
client. This directory holds TLA+ models of the parts of it whose correctness
depends on the order in which things happen, the TLC runs that check them, and
proofs for TLAPS. `PROJECT.json` maps every definition to the lines it stands
for; paths there start at the repository, so `src/src/racsma/socket.rs` is the
file `src/racsma/socket.rs` of the crate.

## The system

| Part | State it keeps | Operations | Talks to |
|---|---|---|---|
| Racsma frames (`racsma/frame.rs`, `builtin.rs`) | none | build, parse, verify, `corresponds` | – |
| Socket daemon (`racsma/socket.rs`) | the timer of the one task being sent, the jar of the last four sequence numbers | receive, answer, deliver, time out, back off, resend, give up, accept | writer by a queue of tasks with a oneshot each, reader by an unbounded channel, medium |
| Socket writer | none | `write`, `write_unchecked`, `ping`, `arp`, `perf` | daemon |
| Socket reader | the bucket of one call | `read`, `read_unchecked`, `serve` | daemon |
| Daemonless stream (`racsma/stream.rs`) | index and retries of one `write`, bucket of one `read` | `write`, `read` | medium |
| Rather input stream (`rather/stream.rs`) | a state shared with a spawned task, a queue of commands, a sample buffer | poll, `suspend`, `resume`, `decode_frame` | audio input stream |
| Raudio input stream (`raudio/stream.rs`) | Pending, Running with a channel, Suspended | poll, `suspend`, `resume` | device callback |
| NAT table (`rateway/nat.rs`) | static routes, LRU cache of ports | `forward`, `backward` | receive and send daemon, under a lock |
| Gateway and adapter daemons (`rateway/nat.rs`, `adapter.rs`) | a queue of packets with a oneshot each, the gateway's MAC address | write, receive and send daemon, `write_packet` | socket, table, tun device, raw socket |
| TCP (`rateway/tcp/`) | under one lock: connections by quad (receive and send sequence, two buffers), a queue of new connections for each port that is bound | `bind`, `accept`, `read`, `write`, `shutdown`, drops, the packet loop and `on_packet` | packet loop, listeners and streams through the lock and two notifications; the link through a socket and ARP |
| Convolutional code (`rather/conv.rs`) | the survivors of a decoding | `encode`, `decode` | frames of Rather |
| Ping tool, FTP client, signal processing, clients | – | – | – |

What is hard: frames and acknowledgements are lost at will, so every frame may
be sent again after it was received, and every answer may come after its caller
gave up or when another frame is under the timer; the jar, the timer and the
sequence number are shared by all operations and all peers; a daemon may end
with calls waiting for it; the input stream is shared by its owner, a task and a
device callback; the table is used by two daemons for packets that are written
much later; a listener looks at its queue under the lock and waits outside of it;
segments of a stream come again, overlap and overtake each other, and are compared by
numbers that wrap. `PROJECT.json` lists each hazard at its line.

## Modules

**AcsmaFrame** has the frames and the predicates the daemon decides by:
`IsForSelf`, `CreateResp`, `Corresponds`, `Settles` (the conditions of
`clear_timer`). A payload is a token that names operation and chunk. A frame
whose checksum fails is a frame not heard.

**AcsmaSocket** is the daemon of each station, the callers of its writer, and
the medium. One iteration of the loop is three steps: the receive phase
(`ReceiveNothing`, `ReceiveRequest`, `ReceiveAnswer`), the delivery after an
answer was sent (`Deliver`; the `await` between them is where other stations
move), and the timer phase (`AckTimeout`, `Resend`, `LinkError`, `CooldownEnds`,
`KeepTimer`, `AcceptFree`, `AcceptBusy`, `Idle`). `OutputFails` is the `?` after
each use of the audio output; `End` drops what the daemon owns. A caller's loop is
`Submit`, `Resume` and `GiveUpWaiting`. `timer` is `write_state`, with the backoff
that holds no task called "cooldown"; `inbox` is everything ever sent to the reader.
Durations are abstracted: a timer may expire at any visit, the medium
may be sensed busy or free at any time.

**AcsmaReader** adds the reader handles: `read(src)`, `read_unchecked`
and `serve` take frames off the inbox and put packets together by sequence number.

**AcsmaStream** is the link without a daemon, between a station that writes and
one that reads. **PacketTransfer** is what it promises of one packet: chunk after
chunk, each confirmed only after it was delivered, and Ok only when all were.
`AcsmaStream!TransferSpec` is the refinement.

**AtherInput** is the Rather input stream over the Raudio input stream: the
owner's polls, the commands, the task, and the device. Samples are abstracted to
frames, numbered as they are heard; a chunk from the device may hold any number of
them. A dropped poll (`Cancel`) is what every timeout around `next` does.

**NatTable** is the table with its LRU order, `lru`, and its mapping, `entry`.
The record of the answers that may still come, `expected`, is its environment.

**Gateway** extends it with the three daemons of each adapter and of the gateway.
The link is abstracted to what AcsmaSocket shows: `arp` returns the owner or
an error (`ArpResolves`), a write returns (`CallsReturn`), and whatever it returns a
packet was heard whole or not at all. That a packet may also arrive damaged (the
findings below) is left to AcsmaReader.

**TcpConn** is one connection: the wrapping comparison of sequence numbers and
`OnPacket`, the whole of `on_packet` as a function from a connection and a segment to
the connection after it, whether an empty segment is written, and whether it panics.
**TcpInterface** has the rest: the packet loop (`ReceiveSyn`, `ReceiveKnown`,
`NotifyPending`; the notification comes after the lock is released), `accept` as its look
under the lock, the gap, and the wait (`AcceptLooks`, `AcceptWaits`), the streams
(`ReadBytes`, `WriteBytes`, `Shutdown`), and the drops. `loop` holds what ended the
packet loop: a failed link, an assertion, a slice out of range, or the FIN that is
`unimplemented!()`. The peers are the environment: a peer sends its SYN and any
piece of its stream at any time, which contains loss, repetition and reordering. Each
piece carries any of the peer's acknowledgement numbers (`Ackns`, in the proofs any set of
them): of the SYN, of what was never sent, of the past, or `send.una` itself, which
acknowledges nothing. A segment without an acknowledgement is the SYN alone; the code looks
at no window but the SYN's, and at no reset.
`got`, `wrote` and `missed` are history variables.

**ConvCode** has the encoder as a function and the Viterbi decoder as a machine that
takes one word in a step. `walks`, beside it, is the exhaustive search it stands for.

The `MC` modules hold scripts and address maps for the runs. Definitions marked
"Mutant" in the modules are small wrong variants of the definition that follows
or stands nearby; no specification uses them, and each shows which property
would notice.

## Runs

| Run | Shows | Instance |
|---|---|---|
| `packet` | types; a frame settled is delivered; frames are delivered in order and once; `read` returns what was written; every call returns; a packet written Ok is read | 2 stations; a packet of 3 frames, a write of nothing and a frame of `perf`; 4 sequence numbers, jar of 2 |
| `shared` | the inductive invariant `SocketInv`; `arp` returns the owner; no waiting call is forgotten; answers are genuine | 3 stations that all answer; two callers on one writer, a ping that gives up and an ARP; outputs of A fail, B drops its reader |
| `wrap`, `arp_then_write` | `PacketIntact` does not hold (below) | as `packet`, other bases or scripts |
| `stream` | types; the first packet is intact; refinement of PacketTransfer; writes return | packet of 3 chunks, 3 sequence numbers, 3 transmissions, outputs may fail |
| `input` | frames come out in order, once, none lost without a suspension; no wakeup is lost; a frame heard is returned | 3 frames, 2 suspends and resumes |
| `suspend` | `SuspendedAnswers` does not hold (below) | 2 frames, 1 suspend |
| `nat` | no port lost or doubled; one port for a flow; LRU recycling | 5 flows, 3 ports and a static route, scans |
| `gateway` | no task of a writer and no waiting daemon is lost; nothing gets stuck; answers reach the host and port that asked | 2 hosts and the gateway, 1 packet from each host, 2 captured |
| `tcp` | what is read is a prefix of what was sent; a connection is handed out once; an accept that waits beside a connection missed its notification in the gap, and returns otherwise; what was written is kept; the slice of `write` is out of range only before the SYN is acknowledged | 2 peers of one port, a second port that nobody calls; streams of 2 bytes, one of which wraps; 8 sequence numbers; windows 3 and 0; one peer with 4 acknowledgement numbers |
| `tcp_gap` | `OnlyFinComesTwice` does not hold (below) | the same |
| `conv` | the survivors are as near as an exhaustive search would find; `decode` returns a nearest message; fewer errors than half the distance are corrected; the vector of `test_encode` | the generators of the tests, messages of up to 2 bits, up to 4 errors |

### Bounds, and why they are enough

- Sequence numbers: 4 in place of 256. The code only compares them, adds one
  modulo the range, and orders them; 4 lets a packet of three
  frames wrap and not wrap, and two operations share a number.
- `MaxResends` 0 or 1 in place of 8. The code tests `resends` before it sends again, so a
  task is sent up to `MaxResends + 2` times: with 0 there are already two
  transmissions, and an answer to the first that comes after the second.
- `JarCapacity` 2 in place of 4: a packet of three frames overflows it.
- `AirCapacity` 1 or 2: frames a station has heard and not handled. What does not
  fit is lost, which is one of the outcomes anyway. A transmission reaches the
  stations in one step; overlapping transmissions are plain losses.
- `ping` and `perf` never end in the code; their length in a script is a bound.
- TCP: `SeqMod` 8 in place of 2^32 and streams of 2 bytes, so that a stream wraps and
  still is shorter than half the space; `BufferLen` 1, so that a write meets a full
  buffer and one that fits in part; a second port, for `notify_waiters` wakes every
  `accept` whatever its port. A peer connects once. `Ackns` of the first peer is {0, 1, 2, 7}:
  `send.una` before the SYN is acknowledged, the SYN, what the program has written and the
  code not sent, and what lies before the SYN; `send.nxt` stays 1, so `on_packet` tells no
  others apart. The second peer acknowledges the SYN only, to keep the run short.
- `conv`: two bits and four errors. The code of the tests has distance 8, so four errors
  may leave two messages equally near. A word takes five steps at most, and from the
  fourth on more paths arrive than there are states.
- `CHECK_DEADLOCK FALSE` where the system does stop: a daemon that failed or
  broke out of its loop (`shared`), finitely many packets or frames
  (`stream`, `input`, `suspend`, `gateway`), a packet loop that ended and peers that
  stopped (`tcp`, `tcp_gap`), a message that is decoded (`conv`).

### Fairness

- Callers, daemons, tasks and readers are scheduled by the runtime: weak fairness of
  their steps, and never of loss, of arrival or of a call made by a user.
- Strong fairness of `AckTimeout`, `CooldownEnds` and of `Resend \/ LinkError`: a
  timer that is looked at again and again has expired at some visit, and a station that
  backs off does find the medium free at some visit. The second is an assumption
  about the medium: the code counts no busy backoffs.
- In `AcsmaStream` the timeout of the acknowledgement fires; in `AtherInput`
  a woken owner is polled; in `Gateway` calls of the socket return; in
  `TcpInterface` the packet loop goes on to its notification and a polled `accept`
  goes on to its look and its wait, while packets and the program's calls are not
  promised.

### What the violation runs show

1. `wrap`: `encode_packet` numbers frames from a random base modulo 256, `read` joins
   them by rising number. A packet that wraps comes out rotated.
2. `arp_then_write`: the jar compares sequence numbers only. ARP and ping requests have
   number 0, so a data frame numbered 0 that follows is acknowledged and dropped.
3. `suspend`: a suspend that is handled before the first poll, or is queued while a frame
   is being decoded and handled after, leaves a later poll pending for ever; the
   documentation of `ContinuousStream` says the stream yields `None`.
4. `tcp_gap`: a segment that arrives before the one it follows lies in the window and
   beyond `recv.nxt`; `on_packet` takes it for a FIN that came again, asserts so, and
   panics, which ends the packet loop and every connection.

One panic of TCP is a theorem instead of a run. In `SynRcvd`, `on_packet` takes any
acknowledgement number from `send.una` on (conn.rs:446), with the comment "must have ACKed our
SYN, since we detected at least one acked byte" (conn.rs:451). `send.una` itself acknowledges
no byte: the connection is established, conn.rs:460 leaves `send.una` where it is, and the
empty answer to the first data is sliced from beyond the empty buffer (conn.rs:243), which
ends the packet loop. `NothingAckedPanics` proves so. So it does not hold that every
established connection can answer; `AnsweredOnceAcked` says what does: the slice is out
of range only as long as the SYN is not acknowledged and nothing was written. A SYN sent again
before the handshake ends is the other way to get there.

`PacketIntact` also fails for a packet given up half way, which stays in the bucket of the
pending `read` and is joined with the next. `packet` avoids the three cases: bases that
do not wrap, no earlier requests, one packet that is read.

`StuckOnlyIfMissed` passes and says less than one would wish: an `accept` whose
notification falls between its look and its wait does wait on beside the connection until
another one comes. That this is the only way to get stuck is what the property states.

## Proofs

All for every value of the constants that satisfies the named assumptions.

**AcsmaSocketProofs.** `SocketInv` is inductive: types (`TypeCorrect`),
`TasksOwned` (a daemon owns only tasks of its own callers, each the frame of its
operation), `NoOrphanCall`, `AirIsGenuine` (an answer in the air comes from a
station that handled a matching request), `AnswerIsGenuine`, `ResultsInStep` (an ARP
call about to return knows the owner), `ArpResolves`. None of the last is
inductive alone: that an answer taken is genuine needs that answers in the air are,
which needs who may send them; that `arp` is right needs that the task under the
timer is the caller's and asks for its address. One lemma for each action. From it:
`NoCallForgotten`, `AnswersAreGenuine`, `ArpIsRight`, for any number of stations, callers,
operations, resends and losses.

**AcsmaReaderProofs.** What reaches a reader, in four steps.

- `DeliveredInOrder`. `OrderInv` says what the jar is good for: `WayInv` looks at the
  requests a station has heard and not yet looked up (`Way`), and asks that each is later
  than all that was passed on, or a copy of one whose number is still in the jar and
  before which nothing else arrives; and that this stays so with the frame under a timer
  put behind them, for it may be sent again. The rest (`QueueInOrder`, `AllMade`,
  `QueueBehind`) keeps what waits in a queue later than anything sent. It assumes
  `OneSource`: what a station takes comes from one station. Requests of two
  sources share the jar, so one may drive out the number of a frame of the other whose copy
  is still to come, and that copy is passed on again, behind frames that were written later.
- `SettledDelivered`. `HeardInv`: what a station has handled is in its inbox or about to
  be; `SettledHeard`: what was acknowledged was handled. It assumes `NumbersApart`
  of every state: a data frame shares its number with no other request its station has handled,
  nor with a frame under a timer that was not. The two findings `wrap` and
  `arp_then_write` are what happens where it fails, and it restricts the theorem to as many
  data frames for a station as there are numbers.
- `ReaderTypesHold`. A bucket is finite and has a frame for a number at most once; the
  places of its frames by rising number are then exactly 1 to their number (an injection
  of a finite set into one of the same size), so that what `read` returns is a sequence.
- `PacketsAreIntact`. `PacketInv` follows the writer: a data frame that was handed over is
  a frame of its operation, numbered from one base for the packet, and the
  frames before it are acknowledged (`SentInv`, `BaseInv`, `AckedInv`). `BucketInv`
  follows the reader: the bucket holds the wanted frames taken since the last end of a
  packet. When an end is taken, the frames before it are acknowledged, so they lie in the
  inbox, in order, behind the end of the packet before: the bucket is the packet. Beside
  the two hypotheses above it assumes `OneWriter` (what a reader keeps is of one
  caller, which writes no `perf` frames to it before a packet, whose bases do not wrap
  within a packet and whose destination is that station, not all) and, of every
  state, `GivesUp` (no packet is written to a station after one that failed there). Each
  is needed: two callers mix their numbers, frames of `perf` and of a packet given up
  stay in the bucket.

The instance of `packet` satisfies the four hypotheses, in all its states where they are about
states, so the theorems are about something; TLC has also checked the parts of the
invariant there and on two packets.

**AcsmaStreamProofs.** `StreamTypesHold`; and, assuming one packet of at most `SeqCount`
chunks (`SinglePacket`): `StreamInv` relates the writer's index, what is in the air, the history
`high` (the first chunk R has not acknowledged) and the bucket. From it `FirstPacketArrives`,
and `StreamIsTransfer`, the refinement: initial states map to initial states, a first
reception is `Deliver`, an acknowledgement taken is `Confirm`, giving up is
`Fail`, the rest stutters. The assumption is needed: the frame with index 256 is
acknowledged as 0.

**AtherInputProofs.** Four theorems without hypotheses, beyond that the token for no frame
(`NoBits`) is no frame. `OwnerIsWoken`: `NoLostWakeup` is inductive with
the types. `FramesComeInOrder`: what was returned, what waits in the shared state, what is
in the buffer and what is in the channel are each rising and follow one another
(`FramesInOrder`), which also needs that a frame waits in the shared state just where its
variant says (`HeldFits`). `NoFrameIsLost`: without a suspension these four, put
together, count every frame heard (`Lossless`), and no command that would discard one is
queued.

**NatTableProofs.** `OrderInv` says that the cache is ordered by last use;
`PortsAreKept` and `RecycledLastHolds` follow. `EntryInv` gives `MappingIsOneToOne`.
`HomeInv`, under `Undisturbed` (as many ports as flows without a static route, and no
scans of the cache), says that free ports precede used ones, so no live mapping is
recycled: `AnswersReachTheirFlow`. The assumption is needed, and the second half of it for
a reason worth knowing: `backward` looks up with `LruCache::get`, which
promotes a free port too. `NatTypesHold` has the types, where what has to be shown is that a
promotion yields a sequence.

**GatewayProofs.** `GatewayInv`: the types (`GatewayTypesHold`), the table
(`TableInv`, from NatTableProofs), what a writer has in hand at each point of its turn
(`HandInv`), what packets may be on their way (`PacketsInv`), and `NoTaskLost`, that the
tasks in hand and in the queue are those the daemons wait for, one each: `NoTaskIsLost`. On
top of it `HomewardInv` says of packets on their way what `AnswersReachTheAsker` says of those
delivered: `AnswersAreForTheAsker`, under `Undisturbed` (above), since the packets pass
the table, and `NoRequestReachesASystem` (systems send no echo replies of their own: the
adapter answers for them and passes no request on).

**ConvCodeProofs.** `ViterbiLosesNothing`: for every code, message and error pattern, each
walk of the exhaustive search meets a survivor in its state that is at least as near. The
step: the extensions of the walks that meet in a state come from walks that have a
survivor, whose extension is as near; among finitely many extensions of a state there is
a nearest, and of two as near one with the larger predecessor, which `Survivors` keeps.
`NearestIsDecoded` adds to the invariant that there is a walk for every sequence of bits, at
the distance of its encoding from what was received (`WalksInv`): so the nearest
of them is the nearest message. `ErrorsAreCorrected` follows by counting: with fewer
errors than half the distance between the encodings, any other message is farther. The
encoder's register is a recursive function of the bits before (`Registers`), and what it
computes is proved by induction in the form of a least counterexample (`Least`). The provers
know no powers; `PowersAssumption` states the few facts about powers of two used, which
hold of any instance.

**TcpProofs.** `TcpInv` is inductive: `TypeOK`; `Handshakes` (all that a
connection ever sent is its SYN, and `send.una` lies before or behind it); `QueuesHold` (`HandedOutOnce` without ranges); `Fresh` (of a quad
without a connection nobody has heard); `Notified` (an accept past its look, beside a
connection, is about to be notified or missed it; `StuckOnlyIfMissed` speaks of the
wait alone and the gap has to be covered too); `Kept` (`WrittenIsKept` byte by byte).
`TypesHold`, `EveryConnectionOnce`, `OnlyTheGapLosesAWakeup`, `WrittenStays` and
`AnswersOnceAcked` follow, for peers that send any acknowledgement numbers. The one number
that is taken is the one behind the SYN, once (`OnlySynIsAcked`), though others establish
the connection: `NothingAckedPanics` (above). `StreamIsRead` adds
`Followed`, the stream byte by byte, and assumes `StreamFits`: a stream shorter than half
the sequence space. The assumption is needed, for the wrapping comparison cannot tell a
piece sent long ago from one that lies ahead. The heart of the proof is that a
segment let in by the window either reaches `recv.nxt` from before it, and then what is
taken of it begins at the next byte, or lies beyond it, and then `on_packet` panics.

Model-checked only: liveness and whatever rests on fairness or ENABLED, which the prover
does not reach (`CallsReturn`, `WrittenIsRead`, `WritesReturn`, `HeardIsReturned`,
`Drained`, `AcceptReturns`). All safety properties of the passing runs are theorems, those of
AcsmaReader and the delivery properties of AcsmaSocket under the hypotheses named above.

## Not modelled

Signal processing (floating point samples), the output streams, the device back ends, the
raw socket, the clients and the FTP client: functions or I/O with no state of interest.
The ping tool: one request at a time, and a daemon that cannot tell a late reply from
the one it waits for. Of the modelled parts: durations and the
energy monitor; overlapping transmissions; the end of `nat_daemon` and
`adapter_daemon`, after which the daemons they spawned go on; the loop of a receive
daemon over a dead link; panics (`unwrap` in the device callback). In `AcsmaStream`, the
end of the input stream while `write` waits for an acknowledgement, which would count as
one (stream.rs:72): nothing in the program closes that stream. In `Gateway`, packets to
the limited broadcast address, which the code treats like the broadcast of the net. In
`ConvCode`, inputs to `decode` that are no encoding with turned bits, such as those too
short for the register. Of TCP: `_on_tick`, which alone sends data and FINs, and
`_send_rst` have no caller, so nothing of them can happen; checksums and durations; a
peer that connects again from the same port and meets its old connection; and the drop
of an `Interface`, which waits for a packet loop that never looks at the flag it sets.

## Plan

Done, in the order of importance: frames, socket, reader; stream and its abstract
specification; input stream; NAT table; gateway; TCP; convolutional code; the proofs above.

1. The medium with overlapping transmissions and the write monitor.
2. AcsmaReader with two writers to one `read_unchecked`, and packets longer than the
   sequence space; an abstract packet service that the reader implements where the
   findings do not bite.
3. TCP: a peer that connects again, beside the connection that was never removed.
4. Proofs: a weaker hypothesis than `NumbersApart`, by which numbers may come again once
   the frames that had them are no longer in the jar, in the air or in a bucket, so that
   the theorems speak of any number of packets; `StreamIsTransfer` for several packets.
