-------------------------- MODULE AcsmaSocketProofs --------------------------
(***************************************************************************)
(* Proofs about AcsmaSocket: types, that no caller is forgotten, and that  *)
(* an answer is genuine, for any stations, callers, scripts and bounds.    *)
(***************************************************************************)
EXTENDS AcsmaSocket, TLAPS

-----------------------------------------------------------------------------
(* Sequences and their elements.                                           *)

\* What is in a queue after an element joins it.
LEMMA AppendElems ==
    ASSUME NEW S, NEW s \in Seq(S), NEW x \in S
    PROVE  /\ Append(s, x) \in Seq(S)
           /\ Elems(Append(s, x)) = Elems(s) \cup {x}
<1>1. Append(s, x) \in Seq(S)
  OBVIOUS
<1>2. ASSUME NEW y \in Elems(Append(s, x)) PROVE y \in Elems(s) \cup {x}
  <2>1. PICK i \in 1 .. Len(Append(s, x)) : y = Append(s, x)[i]
    BY <1>2 DEF Elems
  <2>2. CASE i \in 1 .. Len(s)
    BY <2>1, <2>2 DEF Elems
  <2>3. CASE i = Len(s) + 1
    BY <2>1, <2>3
  <2>4. QED
    BY <2>1, <2>2, <2>3
<1>3. ASSUME NEW y \in Elems(s) \cup {x} PROVE y \in Elems(Append(s, x))
  <2>1. CASE y = x
    <3>1. Len(s) + 1 \in 1 .. Len(Append(s, x)) /\ Append(s, x)[Len(s) + 1] = x
      OBVIOUS
    <3>2. QED
      BY <2>1, <3>1 DEF Elems
  <2>2. CASE y \in Elems(s)
    <3>1. PICK i \in 1 .. Len(s) : y = s[i]
      BY <2>2 DEF Elems
    <3>2. i \in 1 .. Len(Append(s, x)) /\ Append(s, x)[i] = y
      BY <3>1
    <3>3. QED
      BY <3>2 DEF Elems
  <2>3. QED
    BY <1>3, <2>1, <2>2
<1>4. QED
  BY <1>1, <1>2, <1>3

\* What is in a queue after its head leaves it.
LEMMA TailElems ==
    ASSUME NEW S, NEW s \in Seq(S), s # <<>>
    PROVE  /\ Tail(s) \in Seq(S)
           /\ Head(s) \in S
           /\ Elems(s) = Elems(Tail(s)) \cup {Head(s)}
<1>1. Tail(s) \in Seq(S) /\ Head(s) \in S /\ Len(s) \in Nat /\ Len(s) >= 1
  OBVIOUS
<1>2. Len(Tail(s)) = Len(s) - 1
  OBVIOUS
<1>3. ASSUME NEW y \in Elems(Tail(s)) PROVE y \in Elems(s)
  <2>1. PICK i \in 1 .. Len(Tail(s)) : y = Tail(s)[i]
    BY <1>3 DEF Elems
  <2>2. i + 1 \in 1 .. Len(s) /\ Tail(s)[i] = s[i + 1]
    BY <1>1, <1>2
  <2>3. QED
    BY <2>1, <2>2 DEF Elems
<1>4. Head(s) \in Elems(s)
  <2>1. 1 \in 1 .. Len(s) /\ Head(s) = s[1]
    BY <1>1
  <2>2. QED
    BY <2>1 DEF Elems
<1>5. ASSUME NEW y \in Elems(s) PROVE y \in Elems(Tail(s)) \cup {Head(s)}
  <2>1. PICK i \in 1 .. Len(s) : y = s[i]
    BY <1>5 DEF Elems
  <2>2. CASE i = 1
    BY <2>1, <2>2, <1>1
  <2>3. CASE i # 1
    <3>1. i - 1 \in 1 .. Len(Tail(s)) /\ Tail(s)[i - 1] = s[i]
      BY <1>1, <1>2, <2>3
    <3>2. QED
      BY <2>1, <3>1 DEF Elems
  <2>4. QED
    BY <2>2, <2>3
<1>6. QED
  BY <1>1, <1>3, <1>4, <1>5

\* The elements of a sequence are what its type says.
LEMMA ElemsType ==
    ASSUME NEW S, NEW s \in Seq(S)
    PROVE  Elems(s) \subseteq S
BY DEF Elems

-----------------------------------------------------------------------------
(* Frames.                                                                 *)

\* A frame that a caller writes is well formed, names the caller's station as
\* its source, and for an ARP call asks for the address of the call.
LEMMA FrameOfType ==
    ASSUME NEW c \in Caller, NEW k \in 1 .. Len(Script[c]), NEW i \in Nat,
           NEW b \in 0 .. SeqCount - 1
    PROVE  /\ FrameOf(c, k, i, b) \in Requests
           /\ FrameOf(c, k, i, b).src = Home[c]
           /\ Script[c][k].kind = "arp" =>
                /\ FrameOf(c, k, i, b).type = "MAC_ARP_REQ"
                /\ FrameOf(c, k, i, b).body = Script[c][k].dest
<1> DEFINE o == Script[c][k]
<1>0. o \in Ops
  <2>1. Script[c] \in Seq(Ops)
    BY ScriptAssumption
  <2>2. QED
    BY <2>1
<1>1. o.kind \in OpKind /\ Home[c] \in Station /\ k \in Nat
  BY <1>0, HomeAssumption DEF Ops
<1>2. IF o.kind = "arp" THEN o.dest \in Ip ELSE o.dest \in Addr
  BY ScriptAssumption
<1>3. <<c, k, i>> \in Body /\ NoBody \in Body /\ Ip \subseteq Body
  BY <1>1 DEF Body
<1>4. (b + i) % SeqCount \in 0 .. SeqCount - 1 /\ 0 % SeqCount \in 0 .. SeqCount - 1
      /\ 0 \in 0 .. SeqCount - 1
  BY SeqCountAssumption
<1>5. CASE o.kind = "write"
  <2>1. FrameOf(c, k, i, b)
          = DataFrame(o.dest, Home[c], b + i, i = o.len - 1, <<c, k, i>>)
    BY <1>5 DEF FrameOf
  <2>2. QED
    BY <2>1, <1>1, <1>2, <1>3, <1>4, <1>5 DEF DataFrame, Requests, Frames, Frame, Addr, NonAck
<1>6. CASE o.kind = "perf"
  <2>1. FrameOf(c, k, i, b) = DataFrame(o.dest, Home[c], 0, FALSE, <<c, k, i>>)
    BY <1>6 DEF FrameOf
  <2>2. QED
    BY <2>1, <1>1, <1>2, <1>3, <1>4, <1>6 DEF DataFrame, Requests, Frames, Frame, Addr, NonAck
<1>7. CASE o.kind = "ping"
  <2>1. FrameOf(c, k, i, b) = MacPingReqFrame(o.dest, Home[c])
    BY <1>7 DEF FrameOf
  <2>2. QED
    BY <2>1, <1>1, <1>2, <1>3, <1>4, <1>7 DEF MacPingReqFrame, Requests, Frames, Frame, Addr, NonAck
<1>8. CASE o.kind = "arp"
  <2>1. FrameOf(c, k, i, b) = MacArpReqFrame(Home[c], o.dest)
    BY <1>8 DEF FrameOf
  <2>2. QED
    BY <2>1, <1>1, <1>2, <1>3, <1>4, <1>8 DEF MacArpReqFrame, Requests, Frames, Frame, Addr, NonAck
<1>9. QED
  BY <1>1, <1>5, <1>6, <1>7, <1>8 DEF OpKind

\* The answer of station n to a request: who it is from and for, what it
\* answers, and which address it carries.
LEMMA CreateRespType ==
    ASSUME NEW n \in Station, NEW f \in Frames, Answers(IpOf[n], f)
    PROVE  LET r == CreateResp(n, IpOf[n], f) IN
           /\ r \in Frames /\ r.type \in Answer
           /\ Corresponds(f, r)
           /\ r.src = n /\ r.dest = f.src /\ r.seq = f.seq
           /\ r.type = "MAC_ARP_RESP" => r.body = IpOf[n]
<1> DEFINE r == CreateResp(n, IpOf[n], f)
<1>1. f.type \in NonAck /\ f.src \in Station /\ f.seq \in 0 .. SeqCount - 1
      /\ (f.type \notin {"DATA", "ACK"} => f.seq = 0)
  BY DEF Answers, Frames, Frame
<1>2. NoBody \in Body /\ IpOf[n] \in Body
  BY IpAssumption DEF Body
<1>3. f.seq % SeqCount = f.seq
  BY <1>1, SeqCountAssumption
<1>4. CASE f.type = "DATA"
  <2>1. r = AckFrame(f.src, n, f.seq)
    BY <1>4 DEF CreateResp
  <2>2. QED
    BY <2>1, <1>1, <1>2, <1>3, <1>4 DEF AckFrame, Frames, Frame, Answer, Corresponds
<1>5. CASE f.type = "MAC_PING_REQ"
  <2>1. r = MacPingRespFrame(f.src, n)
    BY <1>5 DEF CreateResp
  <2>2. QED
    BY <2>1, <1>1, <1>2, <1>5 DEF MacPingRespFrame, Frames, Frame, Answer, Corresponds
<1>6. CASE f.type = "MAC_ARP_REQ"
  <2>1. r = MacArpRespFrame(f.src, n, IpOf[n])
    BY <1>6 DEF CreateResp
  <2>2. QED
    BY <2>1, <1>1, <1>2, <1>6 DEF MacArpRespFrame, Frames, Frame, Answer, Corresponds
<1>7. QED
  BY <1>1, <1>4, <1>5, <1>6 DEF NonAck

\* What a transmission may add to what a station has heard.
LEMMA TransmitType ==
    ASSUME NEW a \in [Station -> Seq(Frames)], NEW f \in Frames, Transmit(a, f)
    PROVE  /\ air' \in [Station -> Seq(Frames)]
           /\ \A m \in Station :
                \/ Elems(air'[m]) = Elems(a[m])
                \/ IsForSelf(m, f) /\ Elems(air'[m]) = Elems(a[m]) \cup {f}
<1>1. PICK H \in SUBSET Hearers(a, f) :
         air' = [m \in Station |-> IF m \in H THEN Append(a[m], f) ELSE a[m]]
  BY DEF Transmit
<1>2. ASSUME NEW m \in Station
      PROVE  /\ air'[m] \in Seq(Frames)
             /\ \/ Elems(air'[m]) = Elems(a[m])
                \/ IsForSelf(m, f) /\ Elems(air'[m]) = Elems(a[m]) \cup {f}
  <2>1. CASE m \in H
    <3>1. IsForSelf(m, f) /\ air'[m] = Append(a[m], f)
      BY <1>1, <2>1 DEF Hearers
    <3>2. a[m] \in Seq(Frames)
      OBVIOUS
    <3>3. QED
      BY <3>1, <3>2, AppendElems
  <2>2. CASE m \notin H
    BY <1>1, <2>2
  <2>3. QED
    BY <2>1, <2>2
<1>3. air' = [m \in Station |-> air'[m]]
  BY <1>1
<1>4. QED
  BY <1>2, <1>3
-----------------------------------------------------------------------------
(* Types.                                                                  *)

LEMMA ReturnType ==
    ASSUME CallTypeOK, NEW c \in Caller, NEW r \in {"ok", "error", NoPeer} \cup Station,
           Return(c, r), base' \in [Caller -> 0 .. SeqCount - 1]
    PROVE  CallTypeOK'
<1> DEFINE R == {"ok", "error", NoPeer} \cup Station
<1>1. result' \in [Caller -> Seq(R)]
  <2>1. result[c] \in Seq(R)
    BY DEF CallTypeOK
  <2>2. Append(result[c], r) \in Seq(R)
    BY <2>1
  <2>3. QED
    BY <2>2 DEF Return, CallTypeOK
<1>2. QED
  BY <1>1 DEF CallTypeOK, Return

LEMMA NextFrameType ==
    ASSUME CallTypeOK, NEW c \in Caller, NextFrame(c), UNCHANGED base
    PROVE  CallTypeOK'
<1>1. base' \in [Caller -> 0 .. SeqCount - 1] /\ peer[c] \in {"ok", "error", NoPeer} \cup Station
  BY DEF CallTypeOK
<1>2. CASE idx[c] + 1 < Op(c).len
  <2>1. /\ idx' = [idx EXCEPT ![c] = @ + 1]
        /\ status' = [status EXCEPT ![c] = "idle"]
        /\ peer' = [peer EXCEPT ![c] = NoPeer]
        /\ UNCHANGED <<op, result>>
    BY <1>2 DEF NextFrame
  <2>2. QED
    BY <2>1, <1>1 DEF CallTypeOK
<1>3. CASE ~(idx[c] + 1 < Op(c).len) /\ Op(c).kind = "arp"
  <2>1. Return(c, peer[c])
    BY <1>3 DEF NextFrame
  <2>2. QED
    BY <2>1, <1>1, ReturnType
<1>4. CASE ~(idx[c] + 1 < Op(c).len) /\ Op(c).kind # "arp"
  <2>1. Return(c, "ok")
    BY <1>4 DEF NextFrame
  <2>2. QED
    BY <2>1, <1>1, ReturnType
<1>5. QED
  BY <1>2, <1>3, <1>4

\* Whatever is pending or under a timer is a task.
LEMMA PendingType ==
    ASSUME DaemonTypeOK, NEW n \in Station
    PROVE  /\ writeQ[n] \in Seq(Tasks) /\ Elems(writeQ[n]) \subseteq Tasks
           /\ timer[n].task = NoTask \/ timer[n].task \in Tasks
           /\ timer[n].kind \in {"timeout", "backoff"} =>
                timer[n].task \in Tasks /\ timer[n].resends \in 0 .. MaxResends + 1
           /\ timer[n].kind \notin {"timeout", "backoff"} => timer[n].task = NoTask
           /\ timer[n].kind \in {"none", "cooldown", "timeout", "backoff"}
           /\ Pending(n) \subseteq Tasks
<1>1. writeQ[n] \in Seq(Tasks) /\ timer[n] \in Timers
  BY DEF DaemonTypeOK
<1>2. Elems(writeQ[n]) \subseteq Tasks
  BY <1>1, ElemsType
<1>3. QED
  BY <1>1, <1>2 DEF Timers, Pending

LEMMA EndType ==
    ASSUME TypeOK, NEW n \in Station, NEW p \in {"stopped", "failed"}, End(n, p)
    PROVE  TypeOK'
<1>1. CallTypeOK'
  BY DEF TypeOK, CallTypeOK, End
<1>2. DaemonTypeOK'
  <2>1. NoTimer \in Timers
    BY DEF Timers, NoTimer
  <2>2. writeQ' \in [Station -> Seq(Tasks)] /\ timer' \in [Station -> Timers]
    BY <2>1 DEF TypeOK, DaemonTypeOK, End, SetTimer
  <2>3. QED
    BY <2>2 DEF TypeOK, DaemonTypeOK, End, Enter
<1>3. MediumTypeOK'
  BY DEF TypeOK, MediumTypeOK, End
<1>4. QED
  BY <1>1, <1>2, <1>3 DEF TypeOK

LEMMA CallerStepType ==
    ASSUME TypeOK, NEW c \in Caller, CallerStep(c)
    PROVE  TypeOK'
<1>1. CASE WriteNothing(c)
  <2>1. CallTypeOK'
    <3>1. base' \in [Caller -> 0 .. SeqCount - 1]
      BY <1>1 DEF WriteNothing, TypeOK, CallTypeOK
    <3>2. QED
      BY <1>1, <3>1, ReturnType DEF WriteNothing, TypeOK
  <2>2. QED
    BY <2>1, <1>1 DEF WriteNothing, TypeOK, DaemonTypeOK, MediumTypeOK, daemonVars
<1>2. CASE Submit(c)
  <2> DEFINE n == Home[c]
  <2>1. n \in Station /\ op[c] \in 1 .. Len(Script[c]) /\ idx[c] \in Nat
        /\ base[c] \in 0 .. SeqCount - 1 /\ Bases[c] \subseteq 0 .. SeqCount - 1
    <3>1. Len(Script[c]) \in Nat
      BY ScriptAssumption
    <3>2. op[c] \in Nat \ {0} /\ idx[c] \in Nat /\ base[c] \in 0 .. SeqCount - 1
      BY DEF TypeOK, CallTypeOK
    <3>3. op[c] <= Len(Script[c])
      BY <1>2 DEF Submit, More
    <3>4. n \in Station /\ Bases[c] \subseteq 0 .. SeqCount - 1
      BY HomeAssumption, BasesAssumption
    <3>5. QED
      BY <3>1, <3>2, <3>3, <3>4
  <2>2. PICK b \in 0 .. SeqCount - 1 :
          /\ base' = [base EXCEPT ![c] = b]
          /\ IF Alive(n)
             THEN /\ writeQ' = [writeQ EXCEPT ![n] = Append(@,
                       [frame |-> FrameOf(c, op[c], idx[c], b), id |-> TaskId(c)])]
                  /\ status' = [status EXCEPT ![c] = "waiting"]
                  /\ UNCHANGED <<op, idx, peer, result>>
             ELSE Return(c, "error") /\ UNCHANGED writeQ
    BY <1>2, <2>1 DEF Submit
  <2>3. base' \in [Caller -> 0 .. SeqCount - 1]
    BY <2>2 DEF TypeOK, CallTypeOK
  <2>4. CallTypeOK'
    <3>1. CASE Alive(n)
      BY <2>2, <2>3, <3>1 DEF TypeOK, CallTypeOK
    <3>2. CASE ~Alive(n)
      BY <2>2, <2>3, <3>2, ReturnType DEF TypeOK
    <3>3. QED
      BY <3>1, <3>2
  <2>5. writeQ' \in [Station -> Seq(Tasks)]
    <3> DEFINE t == [frame |-> FrameOf(c, op[c], idx[c], b), id |-> TaskId(c)]
    <3>1. FrameOf(c, op[c], idx[c], b) \in Requests
      BY <2>1, FrameOfType
    <3>2. t \in Tasks
      BY <3>1, <2>1 DEF Tasks, TaskIds, TaskId
    <3>3. writeQ[n] \in Seq(Tasks)
      BY <2>1 DEF TypeOK, DaemonTypeOK
    <3>4. Append(writeQ[n], t) \in Seq(Tasks)
      BY <3>2, <3>3
    <3>5. QED
      BY <2>2, <3>4 DEF TypeOK, DaemonTypeOK
  <2>6. QED
    BY <2>4, <2>5, <1>2 DEF Submit, TypeOK, DaemonTypeOK, MediumTypeOK
<1>3. CASE Resume(c)
  <2>1. CallTypeOK'
    <3>1. base' \in [Caller -> 0 .. SeqCount - 1]
      BY <1>3 DEF Resume, TypeOK, CallTypeOK
    <3>2. QED
      BY <1>3, <3>1, ReturnType, NextFrameType DEF Resume, TypeOK
  <2>2. QED
    BY <2>1, <1>3 DEF Resume, TypeOK, DaemonTypeOK, MediumTypeOK, daemonVars
<1>4. CASE GiveUpWaiting(c)
  <2>1. CallTypeOK'
    <3>1. base' \in [Caller -> 0 .. SeqCount - 1]
      BY <1>4 DEF GiveUpWaiting, TypeOK, CallTypeOK
    <3>2. QED
      BY <1>4, <3>1, ReturnType, NextFrameType DEF GiveUpWaiting, TypeOK
  <2>2. QED
    BY <2>1, <1>4 DEF GiveUpWaiting, TypeOK, DaemonTypeOK, MediumTypeOK, daemonVars
<1>5. QED
  BY <1>1, <1>2, <1>3, <1>4 DEF CallerStep

\* The oneshot of a task changes the caller's status and nothing else.
LEMMA ReplyType ==
    ASSUME CallTypeOK, NEW t \in Tasks, NEW r \in {"ok", "link_error"},
           NEW src \in Station \cup {NoPeer}, Reply(t, r, src),
           UNCHANGED <<op, idx, base, result>>
    PROVE  CallTypeOK'
BY DEF CallTypeOK, Reply

LEMMA HeadOfAir ==
    ASSUME MediumTypeOK, NEW n \in Station, air[n] # <<>>
    PROVE  /\ Head(air[n]) \in Frames
           /\ [air EXCEPT ![n] = Tail(@)] \in [Station -> Seq(Frames)]
           /\ Elems(air[n]) = Elems(Tail(air[n])) \cup {Head(air[n])}
<1>1. air[n] \in Seq(Frames)
  BY DEF MediumTypeOK
<1>2. Tail(air[n]) \in Seq(Frames)
  BY <1>1, TailElems
<1>3. [air EXCEPT ![n] = Tail(@)] \in [Station -> Seq(Frames)]
  BY <1>2 DEF MediumTypeOK
<1>4. QED
  BY <1>1, <1>3, TailElems

LEMMA ReceivePhaseType ==
    ASSUME TypeOK, NEW n \in Station, ReceivePhase(n)
    PROVE  TypeOK'
<1>1. CASE ReceiveNothing(n)
  BY <1>1 DEF ReceiveNothing, TypeOK, CallTypeOK, DaemonTypeOK, MediumTypeOK, callVars, Enter
<1>2. CASE ReceiveRequest(n)
  <2> DEFINE f == Head(air[n])
             a == [air EXCEPT ![n] = Tail(@)]
  <2>1. f \in Frames /\ a \in [Station -> Seq(Frames)]
    BY <1>2, HeadOfAir DEF ReceiveRequest, TypeOK
  <2>2. air' \in [Station -> Seq(Frames)]
    <3>1. CASE Answers(IpOf[n], f)
      <4>1. CreateResp(n, IpOf[n], f) \in Frames
        BY <2>1, <3>1, CreateRespType
      <4>2. Transmit(a, CreateResp(n, IpOf[n], f))
        BY <1>2, <3>1 DEF ReceiveRequest
      <4>3. QED
        BY <2>1, <4>1, <4>2, TransmitType
    <3>2. CASE ~Answers(IpOf[n], f)
      BY <1>2, <2>1, <3>2 DEF ReceiveRequest
    <3>3. QED
      BY <3>1, <3>2
  <2>3. held' = [held EXCEPT ![n] = f] /\ heard' = [heard EXCEPT ![n] = @ \cup {f}]
        /\ phase' = [phase EXCEPT ![n] = "deliver"]
        /\ UNCHANGED <<callVars, writeQ, timer, jar, reader, inbox, settled>>
    BY <1>2 DEF ReceiveRequest, Enter
  <2>4. CallTypeOK'
    BY <2>3 DEF TypeOK, CallTypeOK, callVars
  <2>5. DaemonTypeOK'
    BY <2>1, <2>3 DEF TypeOK, DaemonTypeOK
  <2>6. MediumTypeOK'
    BY <2>1, <2>2, <2>3 DEF TypeOK, MediumTypeOK
  <2>7. QED
    BY <2>4, <2>5, <2>6 DEF TypeOK
<1>3. CASE ReceiveAnswer(n)
  <2> DEFINE f == Head(air[n])
             t == timer[n].task
  <2>1. f \in Frames /\ [air EXCEPT ![n] = Tail(@)] \in [Station -> Seq(Frames)]
    BY <1>3, HeadOfAir DEF ReceiveAnswer, TypeOK
  <2>2. f.src \in Station
    BY <2>1 DEF Frames, Frame
  <2>3. UNCHANGED <<op, idx, base, result, writeQ, jar, held, reader, inbox, heard>>
        /\ air' = [air EXCEPT ![n] = Tail(@)] /\ phase' = [phase EXCEPT ![n] = "tick"]
    BY <1>3 DEF ReceiveAnswer, Enter
  <2>4. CASE t # NoTask /\ Settles(f, t.frame)
    <3>1. Reply(t, "ok", f.src) /\ timer' = [timer EXCEPT ![n] = Cooldown]
          /\ settled' = settled \cup {<<t.frame, f.src>>}
      BY <1>3, <2>4 DEF ReceiveAnswer, SetTimer
    <3>2. t \in Tasks
      BY <2>4, PendingType DEF TypeOK
    <3>3. CallTypeOK'
      BY <3>1, <3>2, <2>2, <2>3, ReplyType DEF TypeOK
    <3>4. Cooldown \in Timers
      BY DEF Cooldown, Timers
    <3>5. timer' \in [Station -> Timers]
      BY <3>1, <3>4 DEF TypeOK, DaemonTypeOK
    <3>6. DaemonTypeOK'
      BY <3>5, <2>3 DEF TypeOK, DaemonTypeOK
    <3>7. MediumTypeOK'
      BY <3>1, <3>2, <2>1, <2>2, <2>3 DEF TypeOK, MediumTypeOK, Tasks, Requests
    <3>8. QED
      BY <3>3, <3>6, <3>7 DEF TypeOK
  <2>5. CASE ~(t # NoTask /\ Settles(f, t.frame))
    <3>1. UNCHANGED <<timer, status, peer, settled>>
      BY <1>3, <2>5 DEF ReceiveAnswer
    <3>2. QED
      BY <3>1, <2>1, <2>3 DEF TypeOK, CallTypeOK, DaemonTypeOK, MediumTypeOK
  <2>6. QED
    BY <2>4, <2>5
<1>4. QED
  BY <1>1, <1>2, <1>3 DEF ReceivePhase

LEMMA DeliverType ==
    ASSUME TypeOK, NEW n \in Station, Deliver(n)
    PROVE  TypeOK'
<1>1. held[n] \in Frames /\ held[n].seq \in 0 .. SeqCount - 1
  BY DEF Deliver, TypeOK, DaemonTypeOK, Frames, Frame
<1>2. jar' \in [Station -> Seq(0 .. SeqCount - 1)]
  <2>1. jar[n] \in Seq(0 .. SeqCount - 1)
    BY DEF TypeOK, DaemonTypeOK
  <2>2. Remember(jar[n], held[n].seq) \in Seq(0 .. SeqCount - 1)
    <3>1. CASE Len(jar[n]) < JarCapacity
      BY <1>1, <2>1, <3>1 DEF Remember
    <3>2. CASE ~(Len(jar[n]) < JarCapacity)
      <4>1. jar[n] # <<>>
        BY <2>1, <3>2, NumberAssumption
      <4>2. Tail(jar[n]) \in Seq(0 .. SeqCount - 1)
        BY <2>1, <4>1, TailElems
      <4>3. Append(Tail(jar[n]), held[n].seq) \in Seq(0 .. SeqCount - 1)
        BY <1>1, <4>2
      <4>4. QED
        BY <3>2, <4>3 DEF Remember
    <3>3. QED
      BY <3>1, <3>2
  <2>3. QED
    BY <2>2 DEF Deliver, TypeOK, DaemonTypeOK
<1>3. inbox' \in [Station -> Seq(Frames)]
  <2>1. inbox[n] \in Seq(Frames)
    BY DEF TypeOK, DaemonTypeOK
  <2>2. Append(inbox[n], held[n]) \in Seq(Frames)
    BY <1>1, <2>1
  <2>3. QED
    BY <2>2 DEF Deliver, TypeOK, DaemonTypeOK
<1>4. DaemonTypeOK'
  BY <1>2, <1>3 DEF Deliver, TypeOK, DaemonTypeOK, Enter
<1>5. CallTypeOK' /\ MediumTypeOK'
  BY DEF Deliver, TypeOK, CallTypeOK, MediumTypeOK, callVars
<1>6. QED
  BY <1>4, <1>5 DEF TypeOK

\* A step of the timer phase sets the timer, moves the loop, and may take the
\* first task of the queue.
LEMMA TimerStepType ==
    ASSUME TypeOK, NEW n \in Station, NEW tm \in Timers,
           timer' = [timer EXCEPT ![n] = tm], phase' = [phase EXCEPT ![n] = "receive"],
           writeQ' \in [Station -> Seq(Tasks)], UNCHANGED <<jar, held, reader, inbox>>
    PROVE  DaemonTypeOK'
<1>1. timer' \in [Station -> Timers]
  BY DEF TypeOK, DaemonTypeOK
<1>2. QED
  BY <1>1 DEF TypeOK, DaemonTypeOK

LEMMA TimerPhaseType ==
    ASSUME TypeOK, NEW n \in Station, TimerPhase(n)
    PROVE  TypeOK'
<1> DEFINE t == timer[n].task
           q == Head(writeQ[n])
<1>0. NoTimer \in Timers /\ Cooldown \in Timers /\ 0 \in 0 .. MaxResends + 1
      /\ (\A x \in Tasks, r \in 0 .. MaxResends + 1 : Timeout(x, r) \in Timers /\ Backoff(x, r) \in Timers)
      /\ writeQ \in [Station -> Seq(Tasks)]
      /\ (\A x \in Tasks : x.frame \in Frames)
  BY NumberAssumption DEF NoTimer, Cooldown, Timeout, Backoff, Timers, Tasks, Requests, TypeOK, DaemonTypeOK
<1>1. CASE KeepTimer(n)
  BY <1>1 DEF KeepTimer, TypeOK, CallTypeOK, DaemonTypeOK, MediumTypeOK, callVars, Enter
<1>2. CASE AckTimeout(n)
  <2>1. Backoff(t, timer[n].resends) \in Timers
    BY <1>0, <1>2, PendingType DEF AckTimeout, TypeOK
  <2>2. DaemonTypeOK'
    BY <1>0, <1>2, <2>1, TimerStepType DEF AckTimeout, SetTimer, Enter
  <2>3. QED
    BY <1>2, <2>2 DEF AckTimeout, TypeOK, CallTypeOK, MediumTypeOK, callVars
<1>3. CASE Resend(n)
  <2>1. t \in Tasks /\ timer[n].resends \in 0 .. MaxResends + 1 /\ timer[n].resends <= MaxResends
    BY <1>3, PendingType DEF Resend, CanResend, TypeOK
  <2>2. timer[n].resends + 1 \in 0 .. MaxResends + 1 /\ t.frame \in Frames
    BY <1>0, <2>1, NumberAssumption
  <2>3. Timeout(t, timer[n].resends + 1) \in Timers
    BY <1>0, <2>1, <2>2
  <2>4. DaemonTypeOK'
    BY <1>0, <1>3, <2>3, TimerStepType DEF Resend, SetTimer, Enter
  <2>5. air \in [Station -> Seq(Frames)] /\ Transmit(air, t.frame)
    BY <1>3 DEF Resend, TypeOK, MediumTypeOK
  <2>6. air' \in [Station -> Seq(Frames)]
    BY <2>2, <2>5, TransmitType
  <2>7. QED
    BY <1>3, <2>4, <2>6 DEF Resend, TypeOK, CallTypeOK, MediumTypeOK, callVars
<1>4. CASE LinkError(n)
  <2>1. t \in Tasks
    BY <1>4, PendingType DEF LinkError, TypeOK
  <2>2. CallTypeOK'
    BY <1>4, <2>1, ReplyType DEF LinkError, TypeOK
  <2>3. DaemonTypeOK'
    BY <1>0, <1>4, TimerStepType DEF LinkError, SetTimer, Enter
  <2>4. QED
    BY <1>4, <2>2, <2>3 DEF LinkError, TypeOK, MediumTypeOK
<1>5. CASE CooldownEnds(n)
  <2>1. DaemonTypeOK'
    BY <1>0, <1>5, TimerStepType DEF CooldownEnds, SetTimer, Enter
  <2>2. QED
    BY <1>5, <2>1 DEF CooldownEnds, TypeOK, CallTypeOK, MediumTypeOK, callVars
<1>6. ASSUME CanAccept(n)
      PROVE  q \in Tasks /\ [writeQ EXCEPT ![n] = Tail(@)] \in [Station -> Seq(Tasks)]
  <2>1. writeQ[n] \in Seq(Tasks) /\ writeQ[n] # <<>>
    BY <1>0, <1>6 DEF CanAccept
  <2>2. Tail(writeQ[n]) \in Seq(Tasks) /\ q \in Tasks
    BY <2>1
  <2>3. QED
    BY <1>0, <2>2
<1>7. CASE AcceptBusy(n)
  <2>1. Backoff(q, 0) \in Timers
    BY <1>0, <1>6, <1>7 DEF AcceptBusy
  <2>2. DaemonTypeOK'
    BY <1>6, <1>7, <2>1, TimerStepType DEF AcceptBusy, SetTimer, Enter
  <2>3. QED
    BY <1>7, <2>2 DEF AcceptBusy, TypeOK, CallTypeOK, MediumTypeOK, callVars
<1>8. CASE AcceptFree(n)
  <2>1. Timeout(q, 0) \in Timers /\ q.frame \in Frames
    BY <1>0, <1>6, <1>8 DEF AcceptFree
  <2>2. DaemonTypeOK'
    BY <1>6, <1>8, <2>1, TimerStepType DEF AcceptFree, SetTimer, Enter
  <2>3. air \in [Station -> Seq(Frames)] /\ Transmit(air, q.frame)
    BY <1>8 DEF AcceptFree, TypeOK, MediumTypeOK
  <2>4. air' \in [Station -> Seq(Frames)]
    BY <2>1, <2>3, TransmitType
  <2>5. QED
    BY <1>8, <2>2, <2>4 DEF AcceptFree, TypeOK, CallTypeOK, MediumTypeOK, callVars
<1>9. CASE Idle(n)
  <2>1. CASE WriterGone(n) /\ ~reader[n]
    BY <1>9, <2>1, EndType DEF Idle
  <2>2. CASE ~(WriterGone(n) /\ ~reader[n])
    BY <1>9, <2>2
       DEF Idle, TypeOK, CallTypeOK, DaemonTypeOK, MediumTypeOK, callVars, Enter
  <2>3. QED
    BY <2>1, <2>2
<1>10. QED
  BY <1>1, <1>2, <1>3, <1>4, <1>5, <1>7, <1>8, <1>9 DEF TimerPhase

LEMMA TypeStep ==
    ASSUME TypeOK, [Next]_vars
    PROVE  TypeOK'
<1>1. ASSUME NEW c \in Caller, CallerStep(c) PROVE TypeOK'
  BY <1>1, CallerStepType
<1>2. ASSUME NEW n \in Station, DaemonStep(n) PROVE TypeOK'
  <2>1. CASE ReceivePhase(n)
    BY <2>1, ReceivePhaseType
  <2>2. CASE Deliver(n)
    BY <2>2, DeliverType
  <2>3. CASE TimerPhase(n)
    BY <2>3, TimerPhaseType
  <2>4. CASE OutputFails(n)
    BY <2>4, EndType DEF OutputFails
  <2>5. QED
    BY <1>2, <2>1, <2>2, <2>3, <2>4 DEF DaemonStep
<1>3. ASSUME NEW n \in Station, DropReader(n) PROVE TypeOK'
  BY <1>3 DEF DropReader, TypeOK, CallTypeOK, DaemonTypeOK, MediumTypeOK, callVars
<1>4. CASE UNCHANGED vars
  BY <1>4 DEF vars, callVars, daemonVars, TypeOK, CallTypeOK, DaemonTypeOK, MediumTypeOK
<1>5. QED
  BY <1>1, <1>2, <1>3, <1>4 DEF Next

LEMMA TypeInit == Init => TypeOK
<1> SUFFICES ASSUME Init PROVE TypeOK
  OBVIOUS
<1>1. CallTypeOK
  BY SeqCountAssumption DEF Init, CallTypeOK
<1>2. DaemonTypeOK
  BY DEF Init, DaemonTypeOK, NoTimer, Timers
<1>3. MediumTypeOK
  BY DEF Init, MediumTypeOK
<1>4. QED
  BY <1>1, <1>2, <1>3 DEF TypeOK

\* Every variable keeps its type, whatever the stations, scripts and bounds:
\* in particular a daemon that waits for an answer or backs off before a resend
\* always holds the task it does so for.
THEOREM TypeCorrect == Spec => []TypeOK
<1>1. TypeOK /\ [Next]_vars => TypeOK'
  BY TypeStep
<1>2. QED
  BY TypeInit, <1>1, PTL DEF Spec

-----------------------------------------------------------------------------
(* What a daemon owns.                                                     *)

\* A step of the daemon of n takes nothing up from elsewhere, and every task it
\* lets go of it has answered.
LEMMA DaemonPending ==
    ASSUME TypeOK, NEW n \in Station, DaemonStep(n)
    PROVE  /\ \A m \in Station \ {n} : Pending(m)' = Pending(m) /\ Alive(m)' = Alive(m)
           /\ Pending(n)' \subseteq Pending(n)
           /\ \A c \in Caller : status'[c] = "waiting" =>
                /\ status[c] = "waiting" /\ TaskId(c)' = TaskId(c)
                /\ Alive(n) /\ TaskId(c) \in PendingIds(n) =>
                     Alive(n)' /\ TaskId(c) \in PendingIds(n)'
<1> DEFINE P == /\ \A m \in Station \ {n} : Pending(m)' = Pending(m) /\ Alive(m)' = Alive(m)
                /\ Pending(n)' \subseteq Pending(n)
           Q == \A c \in Caller : status'[c] = "waiting" =>
                  /\ status[c] = "waiting" /\ TaskId(c)' = TaskId(c)
                  /\ Alive(n) /\ TaskId(c) \in PendingIds(n) =>
                       Alive(n)' /\ TaskId(c) \in PendingIds(n)'
           t == timer[n].task
           q == Head(writeQ[n])
<1>0. /\ phase \in [Station -> {"receive", "deliver", "tick", "stopped", "failed"}]
      /\ timer \in [Station -> Timers] /\ writeQ \in [Station -> Seq(Tasks)]
      /\ status \in [Caller -> {"idle", "waiting", "ok", "link_error", "closed"}]
  BY DEF TypeOK, CallTypeOK, DaemonTypeOK
\* Nothing pending changes hands.
<1>1. ASSUME UNCHANGED <<op, idx, status>>, UNCHANGED writeQ,
             \A m \in Station : timer'[m].task = timer[m].task,
             NEW p \in {"receive", "deliver", "tick"}, Enter(n, p)
      PROVE  P /\ Q
  <2>1. \A m \in Station : Pending(m)' = Pending(m)
    BY <1>1 DEF Pending
  <2>2. \A m \in Station \ {n} : Alive(m)' = Alive(m)
    BY <1>0, <1>1 DEF Alive, Enter
  <2>3. Alive(n)'
    BY <1>0, <1>1 DEF Alive, Enter
  <2>4. \A c \in Caller : TaskId(c)' = TaskId(c)
    BY <1>1 DEF TaskId
  <2>5. PendingIds(n)' = PendingIds(n)
    BY <2>1 DEF PendingIds
  <2>6. QED
    BY <1>1, <2>1, <2>2, <2>3, <2>4, <2>5
\* The task under the timer is answered and let go.
<1>2. ASSUME t \in Tasks, NEW r \in {"ok", "link_error"}, NEW src, Reply(t, r, src),
             NEW tm \in {NoTimer, Cooldown}, SetTimer(n, tm),
             UNCHANGED <<op, idx, writeQ>>,
             NEW p \in {"receive", "tick"}, Enter(n, p)
      PROVE  P /\ Q
  <2>1. timer' = [timer EXCEPT ![n] = tm] /\ tm.task = NoTask
    BY <1>2 DEF SetTimer, NoTimer, Cooldown
  <2>2. Pending(n)' = Elems(writeQ[n]) /\ Pending(n) = Elems(writeQ[n]) \cup {t}
    BY <1>0, <1>2, <2>1, NoTaskAssumption DEF Pending
  <2>3. \A m \in Station \ {n} : Pending(m)' = Pending(m)
    BY <1>0, <1>2, <2>1 DEF Pending
  <2>4. (\A m \in Station \ {n} : Alive(m)' = Alive(m)) /\ Alive(n)'
    BY <1>0, <1>2 DEF Alive, Enter
  <2>5. \A c \in Caller : TaskId(c)' = TaskId(c)
    BY <1>2 DEF TaskId
  <2>6. ASSUME NEW c \in Caller, status'[c] = "waiting"
        PROVE  status[c] = "waiting" /\ TaskId(c) # t.id
    <3>1. CASE status[t.id[1]] = "waiting" /\ TaskId(t.id[1]) = t.id
      <4>1. status' = [status EXCEPT ![t.id[1]] = r]
        BY <1>2, <3>1 DEF Reply
      <4>2. c # t.id[1]
        BY <1>0, <1>2, <2>6, <4>1
      <4>3. t.id[1] # TaskId(c)[1]
        BY <4>2 DEF TaskId
      <4>4. QED
        BY <1>0, <2>6, <4>1, <4>2, <4>3
    <3>2. CASE ~(status[t.id[1]] = "waiting" /\ TaskId(t.id[1]) = t.id)
      <4>1. status' = status
        BY <1>2, <3>2 DEF Reply
      <4>2. TaskId(c)[1] = c
        BY DEF TaskId
      <4>3. QED
        BY <2>6, <3>2, <4>1, <4>2
    <3>3. QED
      BY <3>1, <3>2
  <2>7. ASSUME NEW c \in Caller, TaskId(c) \in PendingIds(n), TaskId(c) # t.id
        PROVE  TaskId(c) \in PendingIds(n)'
    BY <2>2, <2>7 DEF PendingIds
  <2>8. QED
    BY <2>2, <2>3, <2>4, <2>5, <2>6, <2>7
\* The head of the queue goes under the timer.
<1>3. ASSUME CanAccept(n), NEW tm, tm.task = q, SetTimer(n, tm),
             writeQ' = [writeQ EXCEPT ![n] = Tail(@)],
             UNCHANGED <<op, idx, status>>, Enter(n, "receive")
      PROVE  P /\ Q
  <2>1. writeQ[n] \in Seq(Tasks) /\ writeQ[n] # <<>> /\ timer[n].task = NoTask
    <3>1. timer[n] \in Timers /\ timer[n].kind = "none"
      BY <1>0, <1>3 DEF CanAccept
    <3>2. QED
      BY <1>0, <1>3, <3>1 DEF CanAccept, Timers
  <2>2. Elems(writeQ[n]) = Elems(Tail(writeQ[n])) \cup {q} /\ q \in Tasks
    BY <2>1, TailElems
  <2>3. timer'[n].task = q /\ writeQ'[n] = Tail(writeQ[n])
    BY <1>0, <1>3 DEF SetTimer
  <2>4. Pending(n)' = Pending(n)
    BY <2>1, <2>2, <2>3, NoTaskAssumption DEF Pending
  <2>5. \A m \in Station \ {n} : Pending(m)' = Pending(m)
    BY <1>0, <1>3 DEF Pending, SetTimer
  <2>6. (\A m \in Station \ {n} : Alive(m)' = Alive(m)) /\ Alive(n)'
    BY <1>0, <1>3 DEF Alive, Enter
  <2>7. PendingIds(n)' = PendingIds(n)
    BY <2>4 DEF PendingIds
  <2>8. \A c \in Caller : TaskId(c)' = TaskId(c)
    BY <1>3 DEF TaskId
  <2>9. QED
    BY <1>3, <2>4, <2>5, <2>6, <2>7, <2>8
\* The daemon ends and drops every task.
<1>4. ASSUME NEW p \in {"stopped", "failed"}, End(n, p)
      PROVE  P /\ Q
  <2>1. writeQ' = [writeQ EXCEPT ![n] = <<>>] /\ timer' = [timer EXCEPT ![n] = NoTimer]
        /\ phase' = [phase EXCEPT ![n] = p] /\ UNCHANGED <<op, idx>>
    BY <1>4 DEF End, SetTimer, Enter
  <2>2. Pending(n)' = {}
    <3>1. writeQ'[n] = <<>> /\ timer'[n].task = NoTask
      BY <1>0, <2>1 DEF NoTimer
    <3>2. Elems(<<>>) = {}
      BY DEF Elems
    <3>3. QED
      BY <3>1, <3>2 DEF Pending
  <2>3. \A m \in Station \ {n} : Pending(m)' = Pending(m) /\ Alive(m)' = Alive(m)
    BY <1>0, <2>1 DEF Pending, Alive
  <2>4. ASSUME NEW c \in Caller, status'[c] = "waiting"
        PROVE  status[c] = "waiting" /\ TaskId(c) \notin PendingIds(n)
    BY <1>4, <2>4 DEF End
  <2>5. \A c \in Caller : TaskId(c)' = TaskId(c)
    BY <2>1 DEF TaskId
  <2>6. QED
    BY <2>2, <2>3, <2>4, <2>5
<1>5. CASE ReceivePhase(n)
  <2>1. CASE ReceiveNothing(n)
    BY <2>1, <1>1 DEF ReceiveNothing, callVars
  <2>2. CASE ReceiveRequest(n)
    BY <2>2, <1>1 DEF ReceiveRequest, callVars
  <2>3. CASE ReceiveAnswer(n)
    <3>1. CASE t # NoTask /\ Settles(Head(air[n]), t.frame)
      <4>1. t \in Tasks
        BY <3>1, PendingType DEF TypeOK
      <4>2. QED
        BY <2>3, <3>1, <4>1, <1>2 DEF ReceiveAnswer
    <3>2. CASE ~(t # NoTask /\ Settles(Head(air[n]), t.frame))
      BY <2>3, <3>2, <1>1 DEF ReceiveAnswer
    <3>3. QED
      BY <3>1, <3>2
  <2>4. QED
    BY <1>5, <2>1, <2>2, <2>3 DEF ReceivePhase
<1>6. CASE Deliver(n)
  BY <1>6, <1>1 DEF Deliver, callVars
<1>7. CASE TimerPhase(n)
  <2>1. CASE KeepTimer(n)
    BY <2>1, <1>1 DEF KeepTimer, callVars
  <2>2. CASE AckTimeout(n)
    <3>1. \A m \in Station : timer'[m].task = timer[m].task
      BY <1>0, <2>2 DEF AckTimeout, SetTimer, Backoff
    <3>2. QED
      BY <2>2, <3>1, <1>1 DEF AckTimeout, callVars
  <2>3. CASE Resend(n)
    <3>1. \A m \in Station : timer'[m].task = timer[m].task
      BY <1>0, <2>3 DEF Resend, SetTimer, Timeout
    <3>2. QED
      BY <2>3, <3>1, <1>1 DEF Resend, callVars
  <2>4. CASE LinkError(n)
    <3>1. t \in Tasks
      BY <2>4, PendingType DEF LinkError, TypeOK
    <3>2. QED
      BY <2>4, <3>1, <1>2 DEF LinkError
  <2>5. CASE CooldownEnds(n)
    <3>1. timer[n].task = NoTask
      BY <2>5, PendingType DEF CooldownEnds, TypeOK
    <3>2. \A m \in Station : timer'[m].task = timer[m].task
      BY <1>0, <2>5, <3>1 DEF CooldownEnds, SetTimer, NoTimer
    <3>3. QED
      BY <2>5, <3>2, <1>1 DEF CooldownEnds, callVars
  <2>6. CASE AcceptBusy(n)
    <3>1. Backoff(q, 0).task = q
      BY DEF Backoff
    <3>2. QED
      BY <2>6, <3>1, <1>3 DEF AcceptBusy, callVars
  <2>7. CASE AcceptFree(n)
    <3>1. Timeout(q, 0).task = q
      BY DEF Timeout
    <3>2. QED
      BY <2>7, <3>1, <1>3 DEF AcceptFree, callVars
  <2>8. CASE Idle(n)
    <3>1. CASE WriterGone(n) /\ ~reader[n]
      BY <2>8, <3>1, <1>4 DEF Idle
    <3>2. CASE ~(WriterGone(n) /\ ~reader[n])
      BY <2>8, <3>2, <1>1 DEF Idle, callVars
    <3>3. QED
      BY <3>1, <3>2
  <2>9. QED
    BY <1>7, <2>1, <2>2, <2>3, <2>4, <2>5, <2>6, <2>7, <2>8 DEF TimerPhase
<1>8. CASE OutputFails(n)
  BY <1>8, <1>4 DEF OutputFails
<1>9. QED
  BY <1>5, <1>6, <1>7, <1>8 DEF DaemonStep

\* A step of caller c leaves the other callers and every daemon alone, except
\* that it may put the task it then waits for into the queue of its station.
LEMMA CallerPending ==
    ASSUME TypeOK, NEW c \in Caller, CallerStep(c)
    PROVE  /\ UNCHANGED <<timer, phase, held, air, heard, settled>>
           /\ \A d \in Caller \ {c} : status'[d] = status[d] /\ TaskId(d)' = TaskId(d)
           /\ \/ status'[c] # "waiting" /\ UNCHANGED writeQ
              \/ /\ Alive(Home[c]) /\ TaskId(c)' = TaskId(c)
                 /\ op[c] \in 1 .. Len(Script[c]) /\ idx[c] \in Nat
                 /\ UNCHANGED <<op, peer, result>> /\ status'[c] = "waiting"
                 /\ \E b \in 0 .. SeqCount - 1 :
                      LET t == [frame |-> FrameOf(c, op[c], idx[c], b), id |-> TaskId(c)]
                      IN  t \in Tasks
                            /\ writeQ' = [writeQ EXCEPT ![Home[c]] = Append(@, t)]
<1>0. /\ status \in [Caller -> {"idle", "waiting", "ok", "link_error", "closed"}]
      /\ op \in [Caller -> Nat \ {0}] /\ idx \in [Caller -> Nat]
      /\ base \in [Caller -> 0 .. SeqCount - 1]
  BY DEF TypeOK, CallTypeOK
<1>1. ASSUME NEW r, Return(c, r)
      PROVE  /\ status'[c] # "waiting"
             /\ \A d \in Caller \ {c} : status'[d] = status[d] /\ TaskId(d)' = TaskId(d)
  BY <1>0, <1>1 DEF Return, TaskId
<1>2. ASSUME NextFrame(c)
      PROVE  /\ status'[c] # "waiting"
             /\ \A d \in Caller \ {c} : status'[d] = status[d] /\ TaskId(d)' = TaskId(d)
  <2>1. CASE idx[c] + 1 < Op(c).len
    <3>1. status' = [status EXCEPT ![c] = "idle"] /\ idx' = [idx EXCEPT ![c] = @ + 1] /\ op' = op
      BY <1>2, <2>1 DEF NextFrame
    <3>2. QED
      BY <1>0, <3>1 DEF TaskId
  <2>2. CASE ~(idx[c] + 1 < Op(c).len)
    BY <1>1, <1>2, <2>2 DEF NextFrame
  <2>3. QED
    BY <2>1, <2>2
<1>3. CASE WriteNothing(c)
  BY <1>1, <1>3 DEF WriteNothing, daemonVars
<1>4. CASE Resume(c)
  BY <1>1, <1>2, <1>4 DEF Resume, daemonVars
<1>5. CASE GiveUpWaiting(c)
  BY <1>1, <1>2, <1>5 DEF GiveUpWaiting, daemonVars
<1>6. CASE Submit(c)
  <2>1. Bases[c] \subseteq 0 .. SeqCount - 1 /\ base[c] \in 0 .. SeqCount - 1
    BY <1>0, BasesAssumption
  <2>2. PICK b \in 0 .. SeqCount - 1 :
          IF Alive(Home[c])
          THEN /\ writeQ' = [writeQ EXCEPT ![Home[c]] = Append(@,
                    [frame |-> FrameOf(c, op[c], idx[c], b), id |-> TaskId(c)])]
               /\ status' = [status EXCEPT ![c] = "waiting"]
               /\ UNCHANGED <<op, idx, peer, result>>
          ELSE Return(c, "error") /\ UNCHANGED writeQ
    BY <1>6, <2>1 DEF Submit
  <2>3. UNCHANGED <<timer, phase, held, air, heard, settled>>
    BY <1>6 DEF Submit
  <2>4. CASE ~Alive(Home[c])
    BY <1>1, <2>2, <2>3, <2>4
  <2>5. CASE Alive(Home[c])
    <3>1. op[c] \in 1 .. Len(Script[c])
      <4>1. Len(Script[c]) \in Nat
        BY ScriptAssumption
      <4>2. op[c] <= Len(Script[c])
        BY <1>6 DEF Submit, More
      <4>3. QED
        BY <1>0, <4>1, <4>2
    <3>2. FrameOf(c, op[c], idx[c], b) \in Requests
      BY <1>0, <3>1, FrameOfType
    <3>3. [frame |-> FrameOf(c, op[c], idx[c], b), id |-> TaskId(c)] \in Tasks
      BY <1>0, <3>2 DEF Tasks, TaskIds, TaskId
    <3>4. /\ \A d \in Caller : TaskId(d)' = TaskId(d)
          /\ \A d \in Caller \ {c} : status'[d] = status[d]
          /\ status'[c] = "waiting"
      BY <1>0, <2>2, <2>5 DEF TaskId
    <3>5. QED
      BY <1>0, <2>2, <2>3, <2>5, <3>1, <3>3, <3>4
  <2>6. QED
    BY <2>4, <2>5
<1>7. QED
  BY <1>3, <1>4, <1>5, <1>6 DEF CallerStep

\* What a station owns after one of its callers has put task t in the queue.
LEMMA AppendPending ==
    ASSUME TypeOK, NEW n \in Station, NEW t \in Tasks, UNCHANGED timer,
           writeQ' = [writeQ EXCEPT ![n] = Append(@, t)]
    PROVE  /\ Pending(n)' = Pending(n) \cup {t}
           /\ \A m \in Station \ {n} : Pending(m)' = Pending(m)
<1>1. writeQ \in [Station -> Seq(Tasks)] /\ writeQ[n] \in Seq(Tasks)
  BY DEF TypeOK, DaemonTypeOK
<1>2. Elems(writeQ'[n]) = Elems(writeQ[n]) \cup {t}
  BY <1>1, AppendElems
<1>3. QED
  BY <1>1, <1>2 DEF Pending

LEMMA NoOrphanStep ==
    ASSUME TypeOK, NoOrphanCall, [Next]_vars
    PROVE  NoOrphanCall'
<1>1. ASSUME NEW c \in Caller, CallerStep(c) PROVE NoOrphanCall'
  <2>1. UNCHANGED <<timer, phase>> /\ Home[c] \in Station
    BY <1>1, CallerPending, HomeAssumption
  <2>2. \A m \in Station : Pending(m) \subseteq Pending(m)' /\ Alive(m)' = Alive(m)
    <3>1. CASE UNCHANGED writeQ
      BY <2>1, <3>1 DEF Pending, Alive
    <3>2. CASE \E t \in Tasks : writeQ' = [writeQ EXCEPT ![Home[c]] = Append(@, t)]
      BY <2>1, <3>2, AppendPending DEF Alive
    <3>3. QED
      BY <1>1, <3>1, <3>2, CallerPending
  <2>3. ASSUME NEW d \in Caller, d # c, status'[d] = "waiting"
        PROVE  Alive(Home[d])' /\ TaskId(d)' \in PendingIds(Home[d])'
    <3>1. status[d] = "waiting" /\ TaskId(d)' = TaskId(d) /\ Home[d] \in Station
      BY <1>1, <2>3, CallerPending, HomeAssumption
    <3>2. Alive(Home[d]) /\ TaskId(d) \in PendingIds(Home[d])
      BY <3>1 DEF NoOrphanCall
    <3>3. QED
      BY <2>2, <3>1, <3>2 DEF PendingIds
  <2>4. ASSUME status'[c] = "waiting"
        PROVE  Alive(Home[c])' /\ TaskId(c)' \in PendingIds(Home[c])'
    <3>1. /\ Alive(Home[c]) /\ TaskId(c)' = TaskId(c)
          /\ \E t \in Tasks : t.id = TaskId(c)
                /\ writeQ' = [writeQ EXCEPT ![Home[c]] = Append(@, t)]
      BY <1>1, <2>4, CallerPending
    <3>2. \E t \in Tasks : t.id = TaskId(c) /\ t \in Pending(Home[c])'
      BY <2>1, <3>1, AppendPending
    <3>3. QED
      BY <2>1, <2>2, <3>1, <3>2 DEF PendingIds
  <2>5. QED
    BY <2>3, <2>4 DEF NoOrphanCall
<1>2. ASSUME NEW n \in Station, DaemonStep(n) PROVE NoOrphanCall'
  <2>1. ASSUME NEW c \in Caller, status'[c] = "waiting"
        PROVE  Alive(Home[c])' /\ TaskId(c)' \in PendingIds(Home[c])'
    <3>1. status[c] = "waiting" /\ TaskId(c)' = TaskId(c) /\ Home[c] \in Station
      BY <1>2, <2>1, DaemonPending, HomeAssumption
    <3>2. Alive(Home[c]) /\ TaskId(c) \in PendingIds(Home[c])
      BY <3>1 DEF NoOrphanCall
    <3>3. CASE Home[c] = n
      BY <1>2, <2>1, <3>1, <3>2, <3>3, DaemonPending
    <3>4. CASE Home[c] # n
      <4>1. Pending(Home[c])' = Pending(Home[c]) /\ Alive(Home[c])' = Alive(Home[c])
        BY <1>2, <3>1, <3>4, DaemonPending
      <4>2. QED
        BY <3>1, <3>2, <4>1 DEF PendingIds
    <3>5. QED
      BY <3>3, <3>4
  <2>2. QED
    BY <2>1 DEF NoOrphanCall
<1>3. ASSUME NEW n \in Station, DropReader(n) PROVE NoOrphanCall'
  BY <1>3 DEF DropReader, callVars, NoOrphanCall, Alive, TaskId, PendingIds, Pending
<1>4. CASE UNCHANGED vars
  BY <1>4 DEF vars, callVars, daemonVars, NoOrphanCall, Alive, TaskId, PendingIds, Pending
<1>5. QED
  BY <1>1, <1>2, <1>3, <1>4 DEF Next

\* A caller that waits is never forgotten: as long as it waits its daemon is
\* alive and owns the other end of its oneshot channel.
THEOREM NoCallForgotten == Spec => []NoOrphanCall
<1>1. Init => TypeOK /\ NoOrphanCall
  <2>1. Init => NoOrphanCall
    BY DEF Init, NoOrphanCall
  <2>2. QED
    BY <2>1, TypeInit
<1>2. TypeOK /\ NoOrphanCall /\ [Next]_vars => (TypeOK /\ NoOrphanCall)'
  BY TypeStep, NoOrphanStep
<1>3. QED
  BY <1>1, <1>2, PTL DEF Spec

-----------------------------------------------------------------------------
(* Whose tasks, and whose answers.                                         *)

OwnedBy(n, t) ==
    LET c == t.id[1]
        k == t.id[2]
    IN  /\ Home[c] = n /\ t.frame.src = n
        /\ k \in 1 .. Len(Script[c])
        /\ Script[c][k].kind = "arp" =>
             t.frame.type = "MAC_ARP_REQ" /\ t.frame.body = Script[c][k].dest

LEMMA TasksOwnedStep ==
    ASSUME TypeOK, TasksOwned, [Next]_vars
    PROVE  TasksOwned'
<1>0. TasksOwned <=> \A n \in Station : \A t \in Pending(n) : OwnedBy(n, t)
  BY DEF TasksOwned, OwnedBy
<1>1. TasksOwned' <=> \A n \in Station : \A t \in Pending(n)' : OwnedBy(n, t)
  BY DEF TasksOwned, OwnedBy
<1>2. ASSUME NEW c \in Caller, CallerStep(c),
             NEW n \in Station, NEW t \in Pending(n)'
      PROVE  OwnedBy(n, t)
  <2>1. CASE UNCHANGED writeQ
    <3>1. t \in Pending(n)
      BY <1>2, <2>1, CallerPending DEF Pending
    <3>2. QED
      BY <1>0, <3>1
  <2>2. CASE ~UNCHANGED writeQ
    <3>1. PICK b \in 0 .. SeqCount - 1 :
            LET s == [frame |-> FrameOf(c, op[c], idx[c], b), id |-> TaskId(c)]
            IN  s \in Tasks /\ writeQ' = [writeQ EXCEPT ![Home[c]] = Append(@, s)]
      BY <1>2, <2>2, CallerPending
    <3> DEFINE s == [frame |-> FrameOf(c, op[c], idx[c], b), id |-> TaskId(c)]
    <3>2. op[c] \in 1 .. Len(Script[c]) /\ idx[c] \in Nat /\ UNCHANGED timer
      BY <1>2, <2>2, CallerPending
    <3>3. OwnedBy(Home[c], s)
      BY <3>2, FrameOfType DEF OwnedBy, TaskId
    <3>4. t \in Pending(n) \/ (n = Home[c] /\ t = s)
      BY <3>1, <3>2, AppendPending, HomeAssumption
    <3>5. QED
      BY <1>0, <3>3, <3>4
  <2>3. QED
    BY <2>1, <2>2
<1>3. ASSUME NEW n \in Station, DaemonStep(n) PROVE TasksOwned'
  <2>1. \A m \in Station : Pending(m)' \subseteq Pending(m)
    BY <1>3, DaemonPending
  <2>2. QED
    BY <1>0, <1>1, <2>1
<1>4. ASSUME NEW n \in Station, DropReader(n) PROVE TasksOwned'
  <2>1. \A m \in Station : Pending(m)' = Pending(m)
    BY <1>4 DEF DropReader, Pending
  <2>2. QED
    BY <1>0, <1>1, <2>1
<1>5. CASE UNCHANGED vars
  <2>1. \A m \in Station : Pending(m)' = Pending(m)
    BY <1>5 DEF vars, daemonVars, Pending
  <2>2. QED
    BY <1>0, <1>1, <2>1
<1>6. QED
  BY <1>1, <1>2, <1>3, <1>4, <1>5 DEF Next

\* A transmission of request f of station s, or of no request at all, leaves
\* what is in the air genuine.
LEMMA TransmitRequest ==
    ASSUME TypeOK, AirIsGenuine, NEW f \in Frames, f.type \notin Answer,
           Transmit(air, f), UNCHANGED heard
    PROVE  AirIsGenuine'
<1>1. air \in [Station -> Seq(Frames)]
  BY DEF TypeOK, MediumTypeOK
<1>2. \A m \in Station : Elems(air'[m]) \subseteq Elems(air[m]) \cup {f}
  BY <1>1, TransmitType
<1>3. ASSUME NEW m \in Station, NEW g \in Elems(air'[m]), g.type \in Answer
      PROVE  GenuineAnswer(m, g)'
  <2>1. g \in Elems(air[m])
    BY <1>2, <1>3
  <2>2. GenuineAnswer(m, g)
    BY <1>3, <2>1 DEF AirIsGenuine
  <2>3. QED
    BY <2>2 DEF GenuineAnswer
<1>4. QED
  BY <1>3 DEF AirIsGenuine

\* Hearing less, and having handled more, leaves it genuine too.
LEMMA FewerInAir ==
    ASSUME TypeOK, AirIsGenuine,
           \A m \in Station : Elems(air'[m]) \subseteq Elems(air[m]),
           \A m \in Station : heard[m] \subseteq heard'[m]
    PROVE  AirIsGenuine'
<1>1. ASSUME NEW m \in Station, NEW g \in Elems(air'[m]), g.type \in Answer
      PROVE  GenuineAnswer(m, g)'
  <2>1. g \in Elems(air[m])
    BY <1>1
  <2>2. GenuineAnswer(m, g)
    BY <1>1, <2>1 DEF AirIsGenuine
  <2>3. g.src \in Station
    <3>1. air[m] \in Seq(Frames)
      BY DEF TypeOK, MediumTypeOK
    <3>2. g \in Frames
      BY <2>1, <3>1, ElemsType
    <3>3. QED
      BY <3>2 DEF Frames, Frame
  <2>4. heard[g.src] \subseteq heard'[g.src]
    BY <2>3
  <2>5. QED
    BY <2>2, <2>4 DEF GenuineAnswer
<1>2. QED
  BY <1>1 DEF AirIsGenuine

\* What a station owns are requests.
LEMMA PendingRequests ==
    ASSUME TypeOK, NEW n \in Station, NEW t \in Pending(n)
    PROVE  t \in Tasks /\ t.frame \in Frames /\ t.frame.type \notin Answer
BY PendingType DEF TypeOK, Tasks, Requests, NonAck, Answer

LEMMA AirIsGenuineStep ==
    ASSUME TypeOK, AirIsGenuine, TasksOwned, [Next]_vars
    PROVE  AirIsGenuine'
<1>0. air \in [Station -> Seq(Frames)] /\ heard \in [Station -> SUBSET Frames]
  BY DEF TypeOK, MediumTypeOK
<1>1. ASSUME UNCHANGED <<air, heard>> PROVE AirIsGenuine'
  BY <1>1, FewerInAir
<1>2. ASSUME NEW n \in Station, ReceiveRequest(n) PROVE AirIsGenuine'
  <2> DEFINE f == Head(air[n])
             a == [air EXCEPT ![n] = Tail(@)]
             r == CreateResp(n, IpOf[n], f)
  <2>1. f \in Frames /\ a \in [Station -> Seq(Frames)]
        /\ Elems(air[n]) = Elems(Tail(air[n])) \cup {f}
    BY <1>2, HeadOfAir DEF ReceiveRequest, TypeOK
  <2>2. \A m \in Station : Elems(a[m]) \subseteq Elems(air[m])
    BY <1>0, <2>1
  <2>3. heard' = [heard EXCEPT ![n] = @ \cup {f}]
    BY <1>2 DEF ReceiveRequest
  <2>4. (\A m \in Station : heard[m] \subseteq heard'[m]) /\ f \in heard'[n]
    BY <1>0, <2>3
  <2>5. CASE ~Answers(IpOf[n], f)
    <3>1. air' = a
      BY <1>2, <2>5 DEF ReceiveRequest
    <3>2. QED
      BY <2>2, <2>4, <3>1, FewerInAir
  <2>6. CASE Answers(IpOf[n], f)
    <3>1. /\ r \in Frames /\ r.type \in Answer /\ Corresponds(f, r)
          /\ r.src = n /\ r.dest = f.src /\ r.seq = f.seq
          /\ r.type = "MAC_ARP_RESP" => r.body = IpOf[n]
      BY <2>1, <2>6, CreateRespType
    <3>2. Transmit(a, r)
      BY <1>2, <2>6 DEF ReceiveRequest
    <3>3. ASSUME NEW m \in Station, NEW g \in Elems(air'[m]), g.type \in Answer
          PROVE  GenuineAnswer(m, g)'
      <4>1. CASE g \in Elems(air[m])
        <5>1. GenuineAnswer(m, g)
          BY <3>3, <4>1 DEF AirIsGenuine
        <5>2. g.src \in Station
          <6>1. g \in Frames
            BY <1>0, <4>1, ElemsType
          <6>2. QED
            BY <6>1 DEF Frames, Frame
        <5>3. heard[g.src] \subseteq heard'[g.src]
          BY <2>4, <5>2
        <5>4. QED
          BY <5>1, <5>3 DEF GenuineAnswer
      <4>2. CASE g \notin Elems(air[m])
        <5>1. g = r /\ IsForSelf(m, r)
          <6>1. \/ Elems(air'[m]) = Elems(a[m])
                \/ IsForSelf(m, r) /\ Elems(air'[m]) = Elems(a[m]) \cup {r}
            <7> HIDE DEF a, r
            <7>1. QED
              BY <2>1, <3>1, <3>2, TransmitType
          <6>2. Elems(a[m]) \subseteq Elems(air[m])
            BY <2>2
          <6>3. QED
            BY <3>3, <4>2, <6>1, <6>2
        <5>2. f.src \in Station
          BY <2>1 DEF Frames, Frame
        <5>3. r.dest = m /\ f.src = m
          BY <3>1, <5>1, <5>2, StationAssumption DEF IsForSelf
        <5>4. QED
          BY <2>4, <3>1, <5>1, <5>3 DEF GenuineAnswer
      <4>3. QED
        BY <4>1, <4>2
    <3>4. QED
      BY <3>3 DEF AirIsGenuine
  <2>7. QED
    BY <2>5, <2>6
<1>3. ASSUME NEW n \in Station, ReceiveAnswer(n) PROVE AirIsGenuine'
  <2>1. Elems(air[n]) = Elems(Tail(air[n])) \cup {Head(air[n])}
    BY <1>3, HeadOfAir DEF ReceiveAnswer, TypeOK
  <2>2. air' = [air EXCEPT ![n] = Tail(@)] /\ heard' = heard
    BY <1>3 DEF ReceiveAnswer
  <2>3. \A m \in Station : Elems(air'[m]) \subseteq Elems(air[m])
    BY <1>0, <2>1, <2>2
  <2>4. QED
    BY <2>2, <2>3, FewerInAir
<1>4. ASSUME NEW n \in Station, Resend(n) PROVE AirIsGenuine'
  <2>1. timer[n].task \in Pending(n)
    BY <1>4, PendingType, NoTaskAssumption DEF Resend, CanResend, Pending, TypeOK
  <2>2. QED
    BY <1>4, <2>1, PendingRequests, TransmitRequest DEF Resend
<1>5. ASSUME NEW n \in Station, AcceptFree(n) PROVE AirIsGenuine'
  <2>1. writeQ[n] \in Seq(Tasks) /\ writeQ[n] # <<>>
    BY <1>5 DEF AcceptFree, CanAccept, TypeOK, DaemonTypeOK
  <2>2. Head(writeQ[n]) \in Pending(n)
    BY <2>1, TailElems DEF Pending
  <2>3. QED
    BY <1>5, <2>2, PendingRequests, TransmitRequest DEF AcceptFree
<1>6. ASSUME NEW n \in Station, NEW p, End(n, p) PROVE AirIsGenuine'
  <2>1. air' = [air EXCEPT ![n] = <<>>] /\ heard' = heard
    BY <1>6 DEF End
  <2>2. Elems(<<>>) = {}
    BY DEF Elems
  <2>3. \A m \in Station : Elems(air'[m]) \subseteq Elems(air[m])
    BY <1>0, <2>1, <2>2
  <2>4. QED
    BY <2>1, <2>3, FewerInAir
<1>7. ASSUME NEW c \in Caller, CallerStep(c) PROVE AirIsGenuine'
  BY <1>1, <1>7, CallerPending
<1>8. ASSUME NEW n \in Station, DaemonStep(n) PROVE AirIsGenuine'
  <2>1. CASE ReceivePhase(n)
    BY <2>1, <1>1, <1>2, <1>3 DEF ReceivePhase, ReceiveNothing
  <2>2. CASE Deliver(n)
    BY <2>2, <1>1 DEF Deliver
  <2>3. CASE TimerPhase(n)
    <3>1. CASE KeepTimer(n) \/ AckTimeout(n) \/ LinkError(n) \/ CooldownEnds(n) \/ AcceptBusy(n)
      BY <3>1, <1>1 DEF KeepTimer, AckTimeout, LinkError, CooldownEnds, AcceptBusy
    <3>2. CASE Idle(n)
      BY <3>2, <1>1, <1>6 DEF Idle
    <3>3. QED
      BY <2>3, <3>1, <3>2, <1>4, <1>5 DEF TimerPhase
  <2>4. CASE OutputFails(n)
    BY <2>4, <1>6 DEF OutputFails
  <2>5. QED
    BY <1>8, <2>1, <2>2, <2>3, <2>4 DEF DaemonStep
<1>9. ASSUME NEW n \in Station, DropReader(n) PROVE AirIsGenuine'
  BY <1>1, <1>9 DEF DropReader
<1>10. CASE UNCHANGED vars
  BY <1>1, <1>10 DEF vars
<1>11. QED
  BY <1>7, <1>8, <1>9, <1>10 DEF Next

\* The step that settles a task, seen from its caller and its history.
LEMMA Settling ==
    ASSUME TypeOK, AirIsGenuine, TasksOwned, NEW n \in Station, ReceiveAnswer(n),
           NEW f, f = Head(air[n]), NEW t, t = timer[n].task,
           t # NoTask, Settles(f, t.frame)
    PROVE  /\ t \in Tasks /\ t \in Pending(n) /\ OwnedBy(n, t) /\ f.src \in Station
           /\ \E g \in heard[f.src] : g.type = t.frame.type
                                        /\ g.src = t.frame.src /\ g.seq = t.frame.seq
           /\ t.frame.type = "MAC_ARP_REQ" => IpOf[f.src] = t.frame.body
<1>1. t \in Tasks /\ t \in Pending(n)
  BY PendingType DEF TypeOK, Pending
<1>2. OwnedBy(n, t)
  BY <1>1 DEF TasksOwned, OwnedBy
<1>3. f \in Frames /\ f \in Elems(air[n]) /\ f.type \in Answer
  BY HeadOfAir DEF ReceiveAnswer, TypeOK
<1>4. f.src \in Station
  BY <1>3 DEF Frames, Frame
<1>5. GenuineAnswer(n, f)
  BY <1>3 DEF AirIsGenuine
<1>6. PICK g \in heard[f.src] : Corresponds(g, f) /\ g.src = n /\ g.seq = f.seq
  BY <1>5 DEF GenuineAnswer
<1>7. Corresponds(t.frame, f) /\ t.frame.seq = f.seq
  BY DEF Settles
<1>8. g.type = t.frame.type
  BY <1>6, <1>7 DEF Corresponds
<1>9. t.frame.src = n
  BY <1>2 DEF OwnedBy
<1>10. t.frame.type = "MAC_ARP_REQ" => IpOf[f.src] = t.frame.body
  BY <1>5, <1>7 DEF GenuineAnswer, Settles, Corresponds
<1>11. QED
  BY <1>1, <1>2, <1>4, <1>6, <1>7, <1>8, <1>9, <1>10

LEMMA AnswerIsGenuineStep ==
    ASSUME TypeOK, AirIsGenuine, TasksOwned, AnswerIsGenuine, [Next]_vars
    PROVE  AnswerIsGenuine'
<1> DEFINE G(p) == LET req == p[1]
                       src == p[2]
                   IN  /\ \E g \in heard[src] :
                            g.type = req.type /\ g.src = req.src /\ g.seq = req.seq
                       /\ req.type = "MAC_ARP_REQ" => IpOf[src] = req.body
<1>0. heard \in [Station -> SUBSET Frames] /\ settled \subseteq Frames \X Station
  BY DEF TypeOK, MediumTypeOK
<1>1. ASSUME settled' = settled, \A m \in Station : heard[m] \subseteq heard'[m]
      PROVE  AnswerIsGenuine'
  <2>1. ASSUME NEW p \in settled PROVE G(p)'
    <3>1. G(p) /\ p[2] \in Station
      BY <1>0 DEF AnswerIsGenuine
    <3>2. heard[p[2]] \subseteq heard'[p[2]]
      BY <1>1, <3>1
    <3>3. QED
      BY <3>1, <3>2
  <2>2. QED
    BY <1>1, <2>1 DEF AnswerIsGenuine
<1>2. ASSUME NEW n \in Station, ReceiveAnswer(n) PROVE AnswerIsGenuine'
  <2> DEFINE f == Head(air[n])
             t == timer[n].task
  <2>1. heard' = heard
    BY <1>2 DEF ReceiveAnswer
  <2>2. CASE t # NoTask /\ Settles(f, t.frame)
    <3>1. settled' = settled \cup {<<t.frame, f.src>>}
      BY <1>2, <2>2 DEF ReceiveAnswer
    <3>2. G(<<t.frame, f.src>>)
      BY <1>2, <2>2, Settling
    <3>3. ASSUME NEW p \in settled' PROVE G(p)'
      <4>1. G(p)
        BY <3>1, <3>2 DEF AnswerIsGenuine
      <4>2. QED
        BY <2>1, <4>1
    <3>4. QED
      BY <3>3 DEF AnswerIsGenuine
  <2>3. CASE ~(t # NoTask /\ Settles(f, t.frame))
    <3>1. settled' = settled
      BY <1>2, <2>3 DEF ReceiveAnswer
    <3>2. QED
      BY <1>1, <2>1, <3>1
  <2>4. QED
    BY <2>2, <2>3
<1>3. ASSUME NEW n \in Station, ReceiveRequest(n) PROVE AnswerIsGenuine'
  <2>1. heard' = [heard EXCEPT ![n] = @ \cup {Head(air[n])}] /\ settled' = settled
    BY <1>3 DEF ReceiveRequest
  <2>2. \A m \in Station : heard[m] \subseteq heard'[m]
    BY <1>0, <2>1
  <2>3. QED
    BY <1>1, <2>1, <2>2
<1>4. ASSUME NEW n \in Station, DaemonStep(n), ~ReceiveAnswer(n), ~ReceiveRequest(n)
      PROVE  UNCHANGED <<heard, settled>>
  BY <1>4 DEF DaemonStep, ReceivePhase, ReceiveNothing, Deliver, TimerPhase, KeepTimer,
              AckTimeout, Resend, LinkError, CooldownEnds, AcceptBusy, AcceptFree, Idle,
              OutputFails, End
<1>5. ASSUME UNCHANGED <<heard, settled>> PROVE AnswerIsGenuine'
  BY <1>1, <1>5
<1>6. ASSUME NEW c \in Caller, CallerStep(c) PROVE AnswerIsGenuine'
  BY <1>5, <1>6, CallerPending
<1>7. ASSUME NEW n \in Station, DropReader(n) PROVE AnswerIsGenuine'
  BY <1>5, <1>7 DEF DropReader
<1>8. CASE UNCHANGED vars
  BY <1>5, <1>8 DEF vars
<1>9. QED
  BY <1>2, <1>3, <1>4, <1>5, <1>6, <1>7, <1>8 DEF Next

-----------------------------------------------------------------------------
(* What the callers' operations return.                                    *)

Resolved(c, k, r) ==
    Script[c][k].kind = "arp" /\ r # "error" =>
      r \in Station /\ IpOf[r] = Script[c][k].dest

LEMMA ReturnResults ==
    ASSUME TypeOK, ResultsInStep, ArpResolves, NEW c \in Caller, More(c),
           NEW r \in {"ok", "error", NoPeer} \cup Station, Return(c, r),
           Resolved(c, op[c], r)
    PROVE  ResultsInStep' /\ ArpResolves'
<1>0. /\ op \in [Caller -> Nat \ {0}]
      /\ result \in [Caller -> Seq({"ok", "error", NoPeer} \cup Station)]
      /\ status \in [Caller -> {"idle", "waiting", "ok", "link_error", "closed"}]
      /\ peer \in [Caller -> Station \cup {NoPeer}]
      /\ \A d \in Caller : Len(Script[d]) \in Nat
  BY ScriptAssumption DEF TypeOK, CallTypeOK
<1>1. /\ result' = [result EXCEPT ![c] = Append(@, r)]
      /\ op' = [op EXCEPT ![c] = @ + 1]
      /\ status' = [status EXCEPT ![c] = "idle"]
      /\ peer' = [peer EXCEPT ![c] = NoPeer]
  BY DEF Return
<1>2. op[c] \in 1 .. Len(Script[c]) /\ Len(result[c]) = op[c] - 1
  BY <1>0 DEF More, ResultsInStep
<1>3. result[c] \in Seq({"ok", "error", NoPeer} \cup Station)
  BY <1>0
<1>4. Len(result'[c]) = op[c] /\ op'[c] = op[c] + 1 /\ status'[c] = "idle"
      /\ result'[c][op[c]] = r
      /\ \A k \in 1 .. op[c] - 1 : result'[c][k] = result[c][k]
  BY <1>0, <1>1, <1>2, <1>3
<1>5. \A d \in Caller \ {c} : op'[d] = op[d] /\ result'[d] = result[d]
         /\ status'[d] = status[d] /\ peer'[d] = peer[d]
  BY <1>0, <1>1
<1>6. ResultsInStep'
  <2>1. ASSUME NEW d \in Caller
        PROVE  /\ op'[d] <= Len(Script[d]) + 1
               /\ Len(result'[d]) = op'[d] - 1
               /\ status'[d] # "idle" => op'[d] <= Len(Script[d])
               /\ status'[d] = "ok" /\ Script[d][op'[d]].kind = "arp" =>
                    peer'[d] \in Station /\ IpOf[peer'[d]] = Script[d][op'[d]].dest
    <3>1. CASE d = c
      BY <1>0, <1>2, <1>4, <3>1
    <3>2. CASE d # c
      BY <1>5, <2>1, <3>2 DEF ResultsInStep, More, Op
    <3>3. QED
      BY <3>1, <3>2
  <2>2. QED
    BY <2>1 DEF ResultsInStep, More, Op
<1>7. ArpResolves'
  <2>1. ASSUME NEW d \in Caller, NEW k \in 1 .. Len(result'[d])
        PROVE  Resolved(d, k, result'[d][k])
    <3>1. CASE d # c
      BY <1>5, <2>1, <3>1 DEF ArpResolves, Resolved
    <3>2. CASE d = c /\ k = op[c]
      BY <1>4, <3>2
    <3>3. CASE d = c /\ k # op[c]
      <4>1. k \in 1 .. op[c] - 1 /\ k \in 1 .. Len(result[c])
        BY <1>0, <1>2, <1>4, <2>1, <3>3
      <4>2. Resolved(c, k, result[c][k])
        BY <4>1 DEF ArpResolves, Resolved
      <4>3. QED
        BY <1>4, <3>3, <4>1, <4>2
    <3>4. QED
      BY <3>1, <3>2, <3>3
  <2>2. QED
    BY <2>1 DEF ArpResolves, Resolved
<1>8. QED
  BY <1>6, <1>7

LEMMA NextFrameResults ==
    ASSUME TypeOK, ResultsInStep, ArpResolves, NEW c \in Caller, More(c), NextFrame(c),
           Op(c).kind = "arp" => Resolved(c, op[c], peer[c])
    PROVE  ResultsInStep' /\ ArpResolves'
<1>1. CASE idx[c] + 1 < Op(c).len
  <2>1. UNCHANGED <<op, result>> /\ status' = [status EXCEPT ![c] = "idle"]
        /\ peer' = [peer EXCEPT ![c] = NoPeer]
    BY <1>1 DEF NextFrame
  <2>2. \A d \in Caller : status'[d] = "idle" \/ (status'[d] = status[d] /\ peer'[d] = peer[d])
    BY <2>1 DEF TypeOK, CallTypeOK
  <2>3. QED
    BY <2>1, <2>2 DEF ResultsInStep, ArpResolves, More, Op
<1>2. CASE ~(idx[c] + 1 < Op(c).len) /\ Op(c).kind = "arp"
  <2>1. Return(c, peer[c]) /\ peer[c] \in {"ok", "error", NoPeer} \cup Station
    BY <1>2 DEF NextFrame, TypeOK, CallTypeOK
  <2>2. QED
    BY <1>2, <2>1, ReturnResults
<1>3. CASE ~(idx[c] + 1 < Op(c).len) /\ Op(c).kind # "arp"
  <2>1. Return(c, "ok") /\ Resolved(c, op[c], "ok")
    BY <1>3 DEF NextFrame, Resolved, Op
  <2>2. QED
    BY <2>1, ReturnResults
<1>4. QED
  BY <1>1, <1>2, <1>3

LEMMA CallerResults ==
    ASSUME TypeOK, ResultsInStep, ArpResolves, NEW c \in Caller, CallerStep(c)
    PROVE  ResultsInStep' /\ ArpResolves'
<1>1. Resolved(c, op[c], "error")
  BY DEF Resolved
<1>2. status[c] # "idle" => More(c)
  BY DEF ResultsInStep
<1>3. CASE WriteNothing(c)
  <2>1. Op(c).kind # "arp" /\ More(c) /\ Return(c, "ok")
    <3>1. More(c) /\ Op(c).len = 0 /\ Return(c, "ok")
      BY <1>3 DEF WriteNothing
    <3>2. op[c] \in 1 .. Len(Script[c])
      <4>1. Len(Script[c]) \in Nat /\ op[c] \in Nat \ {0}
        BY ScriptAssumption DEF TypeOK, CallTypeOK
      <4>2. QED
        BY <3>1, <4>1 DEF More
    <3>3. Op(c).kind = "arp" => Op(c).len = 1
      BY <3>2, ScriptAssumption DEF Op
    <3>4. QED
      BY <3>1, <3>3
  <2>2. Resolved(c, op[c], "ok")
    BY <2>1 DEF Resolved, Op
  <2>3. QED
    BY <2>1, <2>2, ReturnResults
<1>4. CASE Submit(c)
  <2>1. More(c)
    BY <1>4 DEF Submit
  <2>2. CASE Alive(Home[c])
    <3>1. UNCHANGED <<op, peer, result>> /\ status' = [status EXCEPT ![c] = "waiting"]
      BY <1>4, <2>2 DEF Submit
    <3>2. \A d \in Caller : (d = c /\ status'[d] = "waiting") \/ status'[d] = status[d]
      BY <3>1 DEF TypeOK, CallTypeOK
    <3>3. QED
      BY <2>1, <3>1, <3>2 DEF ResultsInStep, ArpResolves, More, Op
  <2>3. CASE ~Alive(Home[c])
    <3>1. Return(c, "error")
      BY <1>4, <2>3 DEF Submit
    <3>2. QED
      BY <1>1, <2>1, <3>1, ReturnResults
  <2>4. QED
    BY <2>2, <2>3
<1>5. CASE Resume(c)
  <2>1. CASE status[c] = "ok" /\ NextFrame(c)
    <3>1. Op(c).kind = "arp" => Resolved(c, op[c], peer[c])
      BY <2>1 DEF ResultsInStep, Resolved, Op
    <3>2. QED
      BY <1>2, <2>1, <3>1, NextFrameResults
  <2>2. CASE status[c] \in {"link_error", "closed"} /\ Return(c, "error")
    BY <1>1, <1>2, <2>2, ReturnResults
  <2>3. QED
    BY <1>5, <2>1, <2>2 DEF Resume
<1>6. CASE GiveUpWaiting(c)
  <2>1. CASE Op(c).kind = "ping" /\ NextFrame(c)
    BY <1>2, <1>6, <2>1, NextFrameResults DEF GiveUpWaiting
  <2>2. CASE Op(c).kind = "perf" /\ Return(c, "error")
    BY <1>1, <1>2, <1>6, <2>2, ReturnResults DEF GiveUpWaiting
  <2>3. QED
    BY <1>6, <2>1, <2>2 DEF GiveUpWaiting
<1>7. QED
  BY <1>3, <1>4, <1>5, <1>6 DEF CallerStep

\* A daemon changes the state of callers only by settling a task or failing it.
LEMMA DaemonResults ==
    ASSUME TypeOK, AirIsGenuine, TasksOwned, ResultsInStep, ArpResolves,
           NEW n \in Station, DaemonStep(n)
    PROVE  ResultsInStep' /\ ArpResolves'
<1>0. /\ status \in [Caller -> {"idle", "waiting", "ok", "link_error", "closed"}]
      /\ peer \in [Caller -> Station \cup {NoPeer}]
  BY DEF TypeOK, CallTypeOK
<1>1. ASSUME UNCHANGED <<op, result>>,
             \A c \in Caller :
                \/ status'[c] = status[c] /\ peer'[c] = peer[c]
                \/ /\ status[c] = "waiting" /\ status'[c] # "idle"
                   /\ status'[c] = "ok" /\ Op(c).kind = "arp" =>
                        peer'[c] \in Station /\ IpOf[peer'[c]] = Op(c).dest
      PROVE  ResultsInStep' /\ ArpResolves'
  BY <1>1 DEF ResultsInStep, ArpResolves, More, Op
<1>2. CASE ReceiveAnswer(n)
  <2> DEFINE f == Head(air[n])
             t == timer[n].task
             d == t.id[1]
  <2>1. CASE t # NoTask /\ Settles(f, t.frame)
    <3>1. /\ t \in Tasks /\ OwnedBy(n, t) /\ f.src \in Station
          /\ t.frame.type = "MAC_ARP_REQ" => IpOf[f.src] = t.frame.body
      BY <1>2, <2>1, Settling
    <3>2. Reply(t, "ok", f.src) /\ UNCHANGED <<op, result>>
      BY <1>2, <2>1 DEF ReceiveAnswer
    <3>3. CASE status[d] = "waiting" /\ TaskId(d) = t.id
      <4>1. status' = [status EXCEPT ![d] = "ok"] /\ peer' = [peer EXCEPT ![d] = f.src]
        BY <3>2, <3>3 DEF Reply
      <4>2. d \in Caller /\ t.id[2] = op[d]
        BY <3>1, <3>3 DEF Tasks, TaskIds, TaskId
      <4>3. Op(d).kind = "arp" => IpOf[f.src] = Op(d).dest
        BY <3>1, <4>2 DEF OwnedBy, Op
      <4>4. QED
        BY <1>0, <1>1, <3>1, <3>2, <3>3, <4>1, <4>2, <4>3
    <3>4. CASE ~(status[d] = "waiting" /\ TaskId(d) = t.id)
      BY <1>1, <3>2, <3>4 DEF Reply
    <3>5. QED
      BY <3>3, <3>4
  <2>2. CASE ~(t # NoTask /\ Settles(f, t.frame))
    BY <1>1, <1>2, <2>2 DEF ReceiveAnswer
  <2>3. QED
    BY <2>1, <2>2
<1>3. CASE LinkError(n)
  <2>1. Reply(timer[n].task, "link_error", NoPeer) /\ UNCHANGED <<op, result>>
    BY <1>3 DEF LinkError
  <2>2. QED
    BY <1>0, <1>1, <2>1 DEF Reply
<1>4. ASSUME NEW p, End(n, p) PROVE ResultsInStep' /\ ArpResolves'
  <2>1. UNCHANGED <<op, result, peer>>
        /\ \A c \in Caller : status'[c] = status[c]
                               \/ (status[c] = "waiting" /\ status'[c] = "closed")
    BY <1>4 DEF End
  <2>2. QED
    BY <1>1, <2>1
<1>5. ASSUME UNCHANGED <<op, result, status, peer>> PROVE ResultsInStep' /\ ArpResolves'
  BY <1>1, <1>5
<1>6. CASE ReceiveNothing(n) \/ ReceiveRequest(n) \/ Deliver(n)
  BY <1>5, <1>6 DEF ReceiveNothing, ReceiveRequest, Deliver, callVars
<1>7. CASE KeepTimer(n) \/ AckTimeout(n) \/ Resend(n) \/ CooldownEnds(n)
             \/ AcceptBusy(n) \/ AcceptFree(n)
  BY <1>5, <1>7 DEF KeepTimer, AckTimeout, Resend, CooldownEnds, AcceptBusy, AcceptFree,
                    callVars
<1>8. CASE Idle(n)
  BY <1>4, <1>5, <1>8 DEF Idle, callVars
<1>9. CASE OutputFails(n)
  BY <1>4, <1>9 DEF OutputFails
<1>10. QED
  BY <1>2, <1>3, <1>6, <1>7, <1>8, <1>9 DEF DaemonStep, ReceivePhase, TimerPhase

LEMMA SocketInvInit == Init => SocketInv
<1> SUFFICES ASSUME Init PROVE SocketInv
  OBVIOUS
<1>1. Elems(<<>>) = {}
  BY DEF Elems
<1>2. \A n \in Station : Pending(n) = {} /\ Elems(air[n]) = {}
  BY <1>1 DEF Init, Pending, NoTimer
<1>3. TasksOwned /\ AirIsGenuine /\ NoOrphanCall /\ AnswerIsGenuine
  BY <1>2 DEF Init, TasksOwned, AirIsGenuine, NoOrphanCall, AnswerIsGenuine
<1>4. ResultsInStep /\ ArpResolves
  <2>1. \A c \in Caller : Len(Script[c]) \in Nat
    BY ScriptAssumption
  <2>2. \A c \in Caller : op[c] = 1 /\ result[c] = <<>> /\ status[c] = "idle"
    BY DEF Init
  <2>3. QED
    BY <2>1, <2>2 DEF ResultsInStep, ArpResolves
<1>5. QED
  BY <1>3, <1>4, TypeInit DEF SocketInv

LEMMA SocketInvStep == SocketInv /\ [Next]_vars => SocketInv'
<1> SUFFICES ASSUME SocketInv, [Next]_vars PROVE SocketInv'
  OBVIOUS
<1>1. /\ TypeOK /\ TasksOwned /\ NoOrphanCall
      /\ AirIsGenuine /\ AnswerIsGenuine /\ ResultsInStep /\ ArpResolves
  BY DEF SocketInv
<1>2. TypeOK' /\ TasksOwned' /\ NoOrphanCall' /\ AirIsGenuine' /\ AnswerIsGenuine'
  BY <1>1, TypeStep, TasksOwnedStep, NoOrphanStep, AirIsGenuineStep, AnswerIsGenuineStep
<1>3. ResultsInStep' /\ ArpResolves'
  <2>1. ASSUME UNCHANGED callVars PROVE ResultsInStep' /\ ArpResolves'
    BY <1>1, <2>1 DEF callVars, ResultsInStep, ArpResolves, More, Op
  <2>2. ASSUME NEW n \in Station, DropReader(n) PROVE UNCHANGED callVars
    BY <2>2 DEF DropReader
  <2>3. CASE UNCHANGED vars
    BY <2>1, <2>3 DEF vars
  <2>4. QED
    BY <1>1, <2>1, <2>2, <2>3, CallerResults, DaemonResults DEF Next
<1>4. QED
  BY <1>2, <1>3 DEF SocketInv

\* The inductive invariant holds throughout.
THEOREM SocketInvariant == Spec => []SocketInv
BY SocketInvInit, SocketInvStep, PTL DEF Spec

\* An answer that settles a frame comes from a station that has handled a
\* request of that type and number from the writer, for any number of stations
\* and callers and any loss, delay or failure.
THEOREM AnswersAreGenuine == Spec => []AnswerIsGenuine
<1>1. SocketInv => AnswerIsGenuine
  BY DEF SocketInv
<1>2. QED
  BY <1>1, SocketInvariant, PTL

\* An address `arp` returns is the address of the owner of the target.
THEOREM ArpIsRight == Spec => []ArpResolves
<1>1. SocketInv => ArpResolves
  BY DEF SocketInv
<1>2. QED
  BY <1>1, SocketInvariant, PTL
=============================================================================
