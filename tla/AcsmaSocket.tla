----------------------------- MODULE AcsmaSocket -----------------------------
(***************************************************************************)
(* The MAC daemon of the Racsma layer (racsma/socket.rs), one per station, *)
(* the callers of its writer handle, and the acoustic medium between the   *)
(* stations.                                                               *)
(*                                                                         *)
(* A caller runs the operations of its script one after the other: `write` *)
(* (and `write_unchecked`, a write to the broadcast address), `ping`,      *)
(* `arp` and `perf`.  Each frame is a task put into the daemon's queue     *)
(* with a oneshot channel on which the caller waits.                       *)
(*                                                                         *)
(* One iteration of the daemon's loop is the receive phase, the delivery   *)
(* that follows an answer, and the timer phase.  Durations are abstracted: *)
(* a timer may expire at any visit of the timer phase, the medium may be   *)
(* sensed busy or free at any time, and any of the stations a frame is for *)
(* may fail to hear it (noise, collision, checksum).                       *)
(***************************************************************************)
EXTENDS AcsmaFrame, Sequences, FiniteSets

CONSTANTS
    Station,       \* the MAC addresses in use
    Ip,            \* the network addresses
    IpOf,          \* config.ip of each station, NoBody where it has none
    Caller,        \* the tasks that hold a writer handle
    Home,          \* the station whose writer a caller holds
    Script,        \* the operations of a caller
    Bases,         \* Bases[c]: what `rng.gen_range` may give for a packet's first seq
    MaxResends,    \* SOCKET_MAX_RESENDS
    JarCapacity,   \* SOCKET_JAR_CAPACITY
    AirCapacity,   \* bound: decoded frames a station has not yet handled
    Faulty,        \* the stations whose audio output may fail
    Leaver,        \* the stations whose reader handle may be dropped
    NoTask, NoFrame, NoPeer

OpKind == {"write", "ping", "arp", "perf"}
Addr == Station \cup {Broadcast}
Body == (Caller \X Nat \X Nat) \cup Ip \cup {NoBody}
Frames == Frame(Station, Body)
TaskIds == Caller \X Nat \X Nat
Requests == {f \in Frames : f.type \in NonAck}
Tasks == [frame : Requests, id : TaskIds]
Ops == [kind : OpKind, dest : Addr \cup Ip, len : Nat]

ASSUME StationAssumption == Broadcast \notin Station
ASSUME HomeAssumption == Home \in [Caller -> Station]
ASSUME IpAssumption == IpOf \in [Station -> Ip \cup {NoBody}]
ASSUME BodyAssumption == NoBody \notin Ip
ASSUME BasesAssumption == Bases \in [Caller -> SUBSET (0 .. SeqCount - 1)]
ASSUME ScriptAssumption ==
    /\ Script \in [Caller -> Seq(Ops)]
    /\ \A c \in Caller : \A k \in 1 .. Len(Script[c]) :
         IF Script[c][k].kind = "arp"
         THEN Script[c][k].dest \in Ip /\ Script[c][k].len = 1
         ELSE Script[c][k].dest \in Addr
ASSUME NumberAssumption ==
    MaxResends \in Nat /\ JarCapacity \in Nat \ {0} /\ AirCapacity \in Nat
ASSUME NoTaskAssumption == NoTask \notin Tasks

VARIABLES
    op,       \* op[c]: the operation of its script caller c is at
    idx,      \* idx[c]: the frames of that operation already dealt with
    base,     \* base[c]: the first seq of the packet c is writing
    status,   \* status[c]: "idle", "waiting" on the oneshot, or what came out of it
    peer,     \* peer[c]: header.src of the answer
    result,   \* result[c]: what the operations of c returned, in order
    writeQ,   \* writeQ[n]: the tasks sent to write_tx and not yet taken
    timer,    \* timer[n]: write_state
    jar,      \* jar[n]: read_jar, the newest sequence number last
    phase,    \* phase[n]: where the loop of the daemon is
    held,     \* held[n]: the frame answered and not yet delivered
    reader,   \* reader[n]: whether the reader handle is alive
    inbox,    \* inbox[n]: every frame sent to read_tx, in order
    air,      \* air[n]: the frames n has heard and not yet handled
    heard,    \* history: heard[n], the requests n has handled
    settled   \* history: the pairs <<request, header.src of the answer taken>>

callVars == <<op, idx, base, status, peer, result>>
daemonVars == <<writeQ, timer, jar, phase, held, reader, inbox>>
vars == <<callVars, daemonVars, air, heard, settled>>

-----------------------------------------------------------------------------
NoTimer == [kind |-> "none", task |-> NoTask, resends |-> 0]
Timeout(t, r) == [kind |-> "timeout", task |-> t, resends |-> r]
Backoff(t, r) == [kind |-> "backoff", task |-> t, resends |-> r]
\* The backoff without a task that follows an answered frame
Cooldown == [kind |-> "cooldown", task |-> NoTask, resends |-> 0]

Alive(n) == phase[n] \in {"receive", "deliver", "tick"}
TaskId(c) == <<c, op[c], idx[c]>>
Op(c) == Script[c][op[c]]
More(c) == op[c] <= Len(Script[c])

Elems(s) == {s[i] : i \in 1 .. Len(s)}

\* The tasks whose oneshot sender the daemon of n still owns.
Pending(n) == Elems(writeQ[n]) \cup ({timer[n].task} \ {NoTask})
PendingIds(n) == {t.id : t \in Pending(n)}

-----------------------------------------------------------------------------
Init ==
    /\ op = [c \in Caller |-> 1]
    /\ idx = [c \in Caller |-> 0]
    /\ base = [c \in Caller |-> 0]
    /\ status = [c \in Caller |-> "idle"]
    /\ peer = [c \in Caller |-> NoPeer]
    /\ result = [c \in Caller |-> <<>>]
    /\ writeQ = [n \in Station |-> <<>>]
    /\ timer = [n \in Station |-> NoTimer]
    /\ jar = [n \in Station |-> <<>>]
    /\ phase = [n \in Station |-> "receive"]
    /\ held = [n \in Station |-> NoFrame]
    /\ reader = [n \in Station |-> TRUE]
    /\ inbox = [n \in Station |-> <<>>]
    /\ air = [n \in Station |-> <<>>]
    /\ heard = [n \in Station |-> {}]
    /\ settled = {}

-----------------------------------------------------------------------------
(* The callers.                                                            *)

\* Mutant: the end of the packet is looked for one frame too far.
FrameOfNoEnd(c, k, i, b) ==
    LET o == Script[c][k] IN
    CASE o.kind = "write" -> DataFrame(o.dest, Home[c], b + i, i = o.len, <<c, k, i>>)
      [] o.kind = "perf" -> DataFrame(o.dest, Home[c], 0, FALSE, <<c, k, i>>)
      [] o.kind = "ping" -> MacPingReqFrame(o.dest, Home[c])
      [] o.kind = "arp"  -> MacArpReqFrame(Home[c], o.dest)

\* Frame number i of operation o of caller c, first sequence number b.
FrameOf(c, k, i, b) ==
    LET o == Script[c][k] IN
    CASE o.kind = "write" ->
           DataFrame(o.dest, Home[c], b + i, i = o.len - 1, <<c, k, i>>)
      [] o.kind = "perf" -> DataFrame(o.dest, Home[c], 0, FALSE, <<c, k, i>>)
      [] o.kind = "ping" -> MacPingReqFrame(o.dest, Home[c])
      [] o.kind = "arp"  -> MacArpReqFrame(Home[c], o.dest)

\* The current operation of c returns r.
Return(c, r) ==
    /\ result' = [result EXCEPT ![c] = Append(@, r)]
    /\ op' = [op EXCEPT ![c] = @ + 1]
    /\ idx' = [idx EXCEPT ![c] = 0]
    /\ status' = [status EXCEPT ![c] = "idle"]
    /\ peer' = [peer EXCEPT ![c] = NoPeer]

\* The current operation of c goes on with its next frame, if it has one: the
\* loops of `ping` and `perf` have no end, and their length is a bound.
NextFrame(c) ==
    IF idx[c] + 1 < Op(c).len
    THEN /\ idx' = [idx EXCEPT ![c] = @ + 1]
         /\ status' = [status EXCEPT ![c] = "idle"]
         /\ peer' = [peer EXCEPT ![c] = NoPeer]
         /\ UNCHANGED <<op, result>>
    ELSE Return(c, IF Op(c).kind = "arp" THEN peer[c] ELSE "ok")

\* A write of nothing has no frame and returns at once.
WriteNothing(c) ==
    /\ status[c] = "idle" /\ More(c)
    /\ Op(c).len = 0
    /\ Return(c, "ok")
    /\ UNCHANGED <<base, daemonVars, air, heard, settled>>

\* The next frame goes to write_tx, which refuses it once the daemon is gone.
Submit(c) ==
    /\ status[c] = "idle" /\ More(c)
    /\ idx[c] < Op(c).len
    /\ \E b \in IF Op(c).kind = "write" /\ idx[c] = 0 THEN Bases[c] ELSE {base[c]} :
         /\ base' = [base EXCEPT ![c] = b]
         /\ IF Alive(Home[c])
            THEN /\ writeQ' = [writeQ EXCEPT ![Home[c]] = Append(@,
                      [frame |-> FrameOf(c, op[c], idx[c], b), id |-> TaskId(c)])]
                 /\ status' = [status EXCEPT ![c] = "waiting"]
                 /\ UNCHANGED <<op, idx, peer, result>>
            ELSE Return(c, "error") /\ UNCHANGED writeQ
    /\ UNCHANGED <<timer, jar, phase, held, reader, inbox, air, heard, settled>>

\* The oneshot has fired, or its sender was dropped: `rx.await??`.
Resume(c) ==
    /\ \/ status[c] = "ok" /\ NextFrame(c)
       \/ status[c] \in {"link_error", "closed"} /\ Return(c, "error")
    /\ UNCHANGED <<base, daemonVars, air, heard, settled>>

\* `ping` and `perf` give up waiting; the task they sent stays where it is.
GiveUpWaiting(c) ==
    /\ status[c] = "waiting"
    /\ \/ Op(c).kind = "ping" /\ NextFrame(c)
       \/ Op(c).kind = "perf" /\ Return(c, "error")
    /\ UNCHANGED <<base, daemonVars, air, heard, settled>>

DropReader(n) ==
    /\ n \in Leaver /\ reader[n]
    /\ reader' = [reader EXCEPT ![n] = FALSE]
    /\ UNCHANGED <<callVars, writeQ, timer, jar, phase, held, inbox, air, heard, settled>>

-----------------------------------------------------------------------------
(* The medium.                                                             *)

\* The stations that take frame f out of the air, their queues being a.  What
\* is not for a station its daemon discards, so it is never queued.
Hearers(a, f) == {m \in Station : Alive(m) /\ IsForSelf(m, f) /\ Len(a[m]) < AirCapacity}

Transmit(a, f) ==
    \E H \in SUBSET Hearers(a, f) :
       air' = [m \in Station |-> IF m \in H THEN Append(a[m], f) ELSE a[m]]

-----------------------------------------------------------------------------
(* The daemon.                                                             *)

Enter(n, p) == phase' = [phase EXCEPT ![n] = p]
SetTimer(n, t) == timer' = [timer EXCEPT ![n] = t]

\* The oneshot of task t fires with r; nothing happens if nobody waits on it.
Reply(t, r, src) ==
    LET c == t.id[1] IN
    IF status[c] = "waiting" /\ TaskId(c) = t.id
    THEN /\ status' = [status EXCEPT ![c] = r]
         /\ peer' = [peer EXCEPT ![c] = src]
    ELSE UNCHANGED <<status, peer>>

\* Nothing was decoded before the receive timeout.
ReceiveNothing(n) ==
    /\ phase[n] = "receive"
    /\ Enter(n, "tick")
    /\ UNCHANGED <<callVars, writeQ, timer, jar, held, reader, inbox, air, heard, settled>>

\* A request: it is answered without sensing the medium, then delivered.
ReceiveRequest(n) ==
    /\ phase[n] = "receive" /\ air[n] # <<>>
    /\ LET f == Head(air[n])
           a == [air EXCEPT ![n] = Tail(@)]
       IN  /\ f.type \in NonAck
           /\ IF Answers(IpOf[n], f)
              THEN Transmit(a, CreateResp(n, IpOf[n], f))
              ELSE air' = a
           /\ held' = [held EXCEPT ![n] = f]
           /\ heard' = [heard EXCEPT ![n] = @ \cup {f}]
    /\ Enter(n, "deliver")
    /\ UNCHANGED <<callVars, writeQ, timer, jar, reader, inbox, settled>>

\* Mutant: the sequence number is not pushed.
RememberNothing(j, s) == j

\* The jar remembers the last JarCapacity sequence numbers, whoever sent them.
Remember(j, s) == IF Len(j) < JarCapacity THEN Append(j, s) ELSE Append(Tail(j), s)

Deliver(n) ==
    /\ phase[n] = "deliver"
    /\ IF held[n].seq \in Elems(jar[n])
       THEN UNCHANGED <<jar, inbox>>
       ELSE /\ jar' = [jar EXCEPT ![n] = Remember(@, held[n].seq)]
            /\ inbox' = IF reader[n] THEN [inbox EXCEPT ![n] = Append(@, held[n])] ELSE inbox
    /\ held' = [held EXCEPT ![n] = NoFrame]
    /\ Enter(n, "tick")
    /\ UNCHANGED <<callVars, writeQ, timer, reader, air, heard, settled>>

\* An answer settles the task under the timer, waiting or backing off.
ReceiveAnswer(n) ==
    /\ phase[n] = "receive" /\ air[n] # <<>>
    /\ LET f == Head(air[n])
           t == timer[n].task
       IN  /\ f.type \in Answer
           /\ IF t # NoTask /\ Settles(f, t.frame)
              THEN /\ SetTimer(n, Cooldown)
                   /\ Reply(t, "ok", f.src)
                   /\ settled' = settled \cup {<<t.frame, f.src>>}
              ELSE UNCHANGED <<timer, status, peer, settled>>
    /\ air' = [air EXCEPT ![n] = Tail(@)]
    /\ Enter(n, "tick")
    /\ UNCHANGED <<op, idx, base, result, writeQ, jar, held, reader, inbox, heard>>

\* The timer has not expired, or it was a backoff and the medium is busy: the
\* task backs off again, with no resend counted.
KeepTimer(n) ==
    /\ phase[n] = "tick" /\ timer[n].kind # "none"
    /\ Enter(n, "receive")
    /\ UNCHANGED <<callVars, writeQ, timer, jar, held, reader, inbox, air, heard, settled>>

AckTimeout(n) ==
    /\ phase[n] = "tick" /\ timer[n].kind = "timeout"
    /\ SetTimer(n, Backoff(timer[n].task, timer[n].resends))
    /\ Enter(n, "receive")
    /\ UNCHANGED <<callVars, writeQ, jar, held, reader, inbox, air, heard, settled>>

\* Mutant: no limit.
CanResendForever(n) == timer[n].kind = "backoff"

CanResend(n) == timer[n].kind = "backoff" /\ timer[n].resends <= MaxResends

\* Mutant: the resend is not counted.
ResendUncounted(n) ==
    /\ phase[n] = "tick" /\ CanResend(n)
    /\ Transmit(air, timer[n].task.frame)
    /\ SetTimer(n, Timeout(timer[n].task, timer[n].resends))
    /\ Enter(n, "receive")
    /\ UNCHANGED <<callVars, writeQ, jar, held, reader, inbox, heard, settled>>

Resend(n) ==
    /\ phase[n] = "tick" /\ CanResend(n)
    /\ Transmit(air, timer[n].task.frame)
    /\ SetTimer(n, Timeout(timer[n].task, timer[n].resends + 1))
    /\ Enter(n, "receive")
    /\ UNCHANGED <<callVars, writeQ, jar, held, reader, inbox, heard, settled>>

LinkError(n) ==
    /\ phase[n] = "tick" /\ timer[n].kind = "backoff"
    /\ timer[n].resends > MaxResends
    /\ Reply(timer[n].task, "link_error", NoPeer)
    /\ SetTimer(n, NoTimer)
    /\ Enter(n, "receive")
    /\ UNCHANGED <<op, idx, base, result, writeQ, jar, held, reader, inbox, air, heard, settled>>

CooldownEnds(n) ==
    /\ phase[n] = "tick" /\ timer[n].kind = "cooldown"
    /\ SetTimer(n, NoTimer)
    /\ Enter(n, "receive")
    /\ UNCHANGED <<callVars, writeQ, jar, held, reader, inbox, air, heard, settled>>

CanAccept(n) == timer[n].kind = "none" /\ writeQ[n] # <<>>

\* A new task, the medium busy: it backs off before its first transmission.
AcceptBusy(n) ==
    /\ phase[n] = "tick" /\ CanAccept(n)
    /\ SetTimer(n, Backoff(Head(writeQ[n]), 0))
    /\ writeQ' = [writeQ EXCEPT ![n] = Tail(@)]
    /\ Enter(n, "receive")
    /\ UNCHANGED <<callVars, jar, held, reader, inbox, air, heard, settled>>

AcceptFree(n) ==
    /\ phase[n] = "tick" /\ CanAccept(n)
    /\ Transmit(air, Head(writeQ[n]).frame)
    /\ SetTimer(n, Timeout(Head(writeQ[n]), 0))
    /\ writeQ' = [writeQ EXCEPT ![n] = Tail(@)]
    /\ Enter(n, "receive")
    /\ UNCHANGED <<callVars, jar, held, reader, inbox, heard, settled>>

\* Mutant: the oneshot senders outlive the daemon.
EndUntold(n, p) ==
    /\ Enter(n, p)
    /\ writeQ' = [writeQ EXCEPT ![n] = <<>>]
    /\ SetTimer(n, NoTimer)
    /\ held' = [held EXCEPT ![n] = NoFrame]
    /\ air' = [air EXCEPT ![n] = <<>>]
    /\ UNCHANGED <<callVars, jar, reader, inbox, heard, settled>>

\* The daemon ends: what it owns is dropped, and with it the oneshot senders.
End(n, p) ==
    /\ Enter(n, p)
    /\ status' = [c \in Caller |->
         IF status[c] = "waiting" /\ TaskId(c) \in PendingIds(n) THEN "closed" ELSE status[c]]
    /\ writeQ' = [writeQ EXCEPT ![n] = <<>>]
    /\ SetTimer(n, NoTimer)
    /\ held' = [held EXCEPT ![n] = NoFrame]
    /\ air' = [air EXCEPT ![n] = <<>>]
    /\ UNCHANGED <<op, idx, base, peer, result, jar, reader, inbox, heard, settled>>

WriterGone(n) == \A c \in Caller : Home[c] = n => ~More(c)

\* Nothing to write.  With both handles gone the daemon breaks its loop.
Idle(n) ==
    /\ phase[n] = "tick" /\ timer[n].kind = "none" /\ writeQ[n] = <<>>
    /\ IF WriterGone(n) /\ ~reader[n]
       THEN End(n, "stopped")
       ELSE /\ Enter(n, "receive")
            /\ UNCHANGED <<callVars, writeQ, timer, jar, held, reader, inbox, air, heard, settled>>

\* The audio output fails where the daemon is about to use it: `?` ends it.
OutputFails(n) ==
    /\ n \in Faulty
    /\ \/ /\ phase[n] = "receive" /\ air[n] # <<>>
          /\ Answers(IpOf[n], Head(air[n]))
       \/ phase[n] = "tick" /\ (CanResend(n) \/ CanAccept(n))
    /\ End(n, "failed")

-----------------------------------------------------------------------------
CallerStep(c) == WriteNothing(c) \/ Submit(c) \/ Resume(c) \/ GiveUpWaiting(c)

ReceivePhase(n) == ReceiveNothing(n) \/ ReceiveRequest(n) \/ ReceiveAnswer(n)

TimerPhase(n) ==
    \/ KeepTimer(n) \/ AckTimeout(n) \/ Resend(n) \/ LinkError(n)
    \/ CooldownEnds(n) \/ AcceptBusy(n) \/ AcceptFree(n) \/ Idle(n)

DaemonStep(n) == ReceivePhase(n) \/ Deliver(n) \/ TimerPhase(n) \/ OutputFails(n)

Next ==
    \/ \E c \in Caller : CallerStep(c)
    \/ \E n \in Station : DaemonStep(n) \/ DropReader(n)

Spec == Init /\ [][Next]_vars

\* The runtime schedules every task, timers do expire, and a backing-off
\* station finds the medium free now and then.  Nothing is assumed of what
\* is heard.
Fairness ==
    /\ \A c \in Caller : WF_vars(WriteNothing(c) \/ Submit(c) \/ Resume(c))
    /\ \A n \in Station :
         /\ WF_vars(DaemonStep(n))
         /\ SF_vars(AckTimeout(n))
         /\ SF_vars(Resend(n) \/ LinkError(n))
         /\ SF_vars(CooldownEnds(n))

FairSpec == Spec /\ Fairness
-----------------------------------------------------------------------------
(* Properties.                                                             *)

CallTypeOK ==
    /\ op \in [Caller -> Nat \ {0}]
    /\ idx \in [Caller -> Nat]
    /\ base \in [Caller -> 0 .. SeqCount - 1]
    /\ status \in [Caller -> {"idle", "waiting", "ok", "link_error", "closed"}]
    /\ peer \in [Caller -> Station \cup {NoPeer}]
    /\ result \in [Caller -> Seq({"ok", "error", NoPeer} \cup Station)]

Timers ==
    [kind : {"none", "cooldown"}, task : {NoTask}, resends : {0}]
      \cup [kind : {"timeout", "backoff"}, task : Tasks, resends : 0 .. MaxResends + 1]

DaemonTypeOK ==
    /\ writeQ \in [Station -> Seq(Tasks)]
    /\ timer \in [Station -> Timers]
    /\ jar \in [Station -> Seq(0 .. SeqCount - 1)]
    /\ phase \in [Station -> {"receive", "deliver", "tick", "stopped", "failed"}]
    /\ held \in [Station -> Frames \cup {NoFrame}]
    /\ \A n \in Station : phase[n] = "deliver" => held[n] \in Frames
    /\ reader \in [Station -> BOOLEAN]
    /\ inbox \in [Station -> Seq(Frames)]

MediumTypeOK ==
    /\ air \in [Station -> Seq(Frames)]
    /\ heard \in [Station -> SUBSET Frames]
    /\ settled \subseteq Frames \X Station

\* The type of every variable: a timer that waits or backs off for a task holds
\* one and counts at most MaxResends + 1 resends, as many as it takes for
\* `resends > SOCKET_MAX_RESENDS` to hold; a daemon about to deliver holds a frame.
TypeOK == CallTypeOK /\ DaemonTypeOK /\ MediumTypeOK

\* What a daemon owns it took from the callers of its own station, each task
\* the frame of one of their operations.
TasksOwned ==
    \A n \in Station : \A t \in Pending(n) :
       LET c == t.id[1]
           k == t.id[2]
       IN  /\ Home[c] = n /\ t.frame.src = n
           /\ k \in 1 .. Len(Script[c])
           /\ Script[c][k].kind = "arp" =>
                t.frame.type = "MAC_ARP_REQ" /\ t.frame.body = Script[c][k].dest

\* An answer on its way to n: its source has handled the request of n that it
\* answers, and an ARP answer tells the address of its source.
GenuineAnswer(n, f) ==
    /\ f.dest = n
    /\ \E g \in heard[f.src] : Corresponds(g, f) /\ g.src = n /\ g.seq = f.seq
    /\ f.type = "MAC_ARP_RESP" => f.body = IpOf[f.src]

AirIsGenuine ==
    \A n \in Station : \A f \in Elems(air[n]) : f.type \in Answer => GenuineAnswer(n, f)

\* A caller has a result for each operation it is past, and an ARP operation
\* about to return knows the owner of its address.
ResultsInStep ==
    \A c \in Caller :
       /\ op[c] <= Len(Script[c]) + 1
       /\ Len(result[c]) = op[c] - 1
       /\ status[c] # "idle" => More(c)
       /\ status[c] = "ok" /\ Op(c).kind = "arp" =>
            peer[c] \in Station /\ IpOf[peer[c]] = Op(c).dest

\* A caller that waits on its oneshot is never forgotten: a live daemon owns
\* the other end, in its queue or under its timer.  This is what the early
\* `mem::replace` in clear_timer, the arms that return None in the timer phase
\* and the break out of the loop could each get wrong.
NoOrphanCall ==
    \A c \in Caller : status[c] = "waiting" =>
       Alive(Home[c]) /\ TaskId(c) \in PendingIds(Home[c])

\* The station that an answer names has handled a request from this station of
\* the type, and with the sequence number, of the frame the answer settled; an
\* ARP answer comes from the owner of the address asked for.  The daemon reads
\* neither header.src nor anything of the medium's past, so this rests on who
\* may answer whom.
AnswerIsGenuine ==
    \A p \in settled :
       LET req == p[1]
           src == p[2]
       IN  /\ \E g \in heard[src] :
                g.type = req.type /\ g.src = req.src /\ g.seq = req.seq
           /\ req.type = "MAC_ARP_REQ" => IpOf[src] = req.body

\* An address that `arp` returned is that of the owner of the address asked
\* for, however many stations answered the request and however late.
ArpResolves ==
    \A c \in Caller : \A k \in 1 .. Len(result[c]) :
       Script[c][k].kind = "arp" /\ result[c][k] # "error" =>
         /\ result[c][k] \in Station
         /\ IpOf[result[c][k]] = Script[c][k].dest

\* The inductive invariant of the proofs.
SocketInv ==
    /\ TypeOK /\ TasksOwned /\ NoOrphanCall
    /\ AirIsGenuine /\ AnswerIsGenuine /\ ResultsInStep /\ ArpResolves

\* A data frame that was acknowledged has reached, or is about to reach, the
\* reader of the station that acknowledged it.
SettledIsDelivered ==
    \A p \in settled : p[1].type = "DATA" /\ reader[p[2]] =>
       held[p[2]] = p[1] \/ p[1] \in Elems(inbox[p[2]])

\* The frames of one packet reach a reader in the order they were written, and
\* none of them twice, however often they were sent.
DeliveredOnceInOrder ==
    \A n \in Station : \A i, j \in 1 .. Len(inbox[n]) :
       LET f == inbox[n][i]
           g == inbox[n][j]
       IN  (i < j /\ f.type = "DATA" /\ g.type = "DATA"
              /\ f.body[1] = g.body[1] /\ f.body[2] = g.body[2])
             => f.body[3] < g.body[3]

\* Every call comes back: with the answer, with a link error, or because the
\* daemon ended.
CallsReturn == \A c \in Caller : status[c] = "waiting" ~> status[c] # "waiting"
=============================================================================
