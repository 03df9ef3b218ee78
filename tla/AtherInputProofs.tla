--------------------------- MODULE AtherInputProofs ---------------------------
(***************************************************************************)
(* Proofs about AtherInput, for any number of frames, suspensions and      *)
(* polls: the frames come out in order, none is lost without a suspension, *)
(* and an owner that waits beside a frame has been woken.                  *)
(***************************************************************************)
EXTENDS AtherInput, TLAPS

-----------------------------------------------------------------------------
(* Sequences.                                                              *)

LEMMA AppendType == ASSUME NEW S, NEW s \in Seq(S), NEW x \in S PROVE Append(s, x) \in Seq(S)
  OBVIOUS

LEMMA HeadTail ==
    ASSUME NEW S, NEW s \in Seq(S), s # <<>>
    PROVE  /\ Head(s) \in S /\ Tail(s) \in Seq(S) /\ Head(s) = s[1] /\ Len(s) \in Nat \ {0}
           /\ Len(Tail(s)) = Len(s) - 1
           /\ \A i \in 1 .. Len(Tail(s)) : Tail(s)[i] = s[i + 1]
  OBVIOUS

LEMMA Parts ==
    ASSUME NEW S, NEW s \in Seq(S), NEW k \in 1 .. Len(s)
    PROVE  /\ SubSeq(s, 1, k) \in Seq(S) /\ Len(SubSeq(s, 1, k)) = k
           /\ SubSeq(s, k + 1, Len(s)) \in Seq(S)
           /\ Len(SubSeq(s, k + 1, Len(s))) = Len(s) - k
           /\ \A i \in 1 .. k : SubSeq(s, 1, k)[i] = s[i]
           /\ \A i \in 1 .. Len(s) - k : SubSeq(s, k + 1, Len(s))[i] = s[k + i]
  OBVIOUS

-----------------------------------------------------------------------------
(* Types.                                                                  *)

Cmd == {"Running", "Suspended", "Resume"}

LEMMA TypeStep == TypeOK /\ [Next]_vars => TypeOK'
<1> SUFFICES ASSUME TypeOK, [Next]_vars PROVE TypeOK'
  OBVIOUS
<1> USE DEF TypeOK
<1>1. CASE Poll
  <2>1. CASE PollPending
    <3>1. Append(cmds, "Running") \in Seq(Cmd)
      BY AppendType DEF Cmd
    <3>2. cmds' \in Seq(Cmd)
      BY <2>1, <3>1 DEF PollPending, Cmd
    <3>3. QED
      BY <1>1, <2>1, <3>2 DEF Poll, PollPending, audioVars, Cmd
  <2>2. CASE PollFrame
    <3>1. Append(got, bits) \in Seq(1 .. MaxFrames)
      BY <2>2, AppendType DEF PollFrame
    <3>2. QED
      BY <1>1, <2>2, <3>1 DEF Poll, PollFrame, audioVars
  <2>3. CASE PollNone
    <3>1. empties' \in 0 .. MaxPolls
      BY <2>3, BoundAssumption DEF PollNone
    <3>2. QED
      BY <1>1, <2>3, <3>1 DEF Poll, PollNone, audioVars, shared
  <2>4. QED
    BY <1>1, <2>1, <2>2, <2>3 DEF Poll
<1>2. CASE Cancel
  BY <1>2 DEF Cancel, shared, audioVars
<1>3. CASE CallSuspend
  <2>1. Append(cmds, "Suspended") \in Seq(Cmd)
    BY AppendType DEF Cmd
  <2>2. QED
    BY <1>3, <2>1, BoundAssumption DEF CallSuspend, shared, audioVars, Cmd
<1>4. CASE CallResume
  <2>1. Append(cmds, "Resume") \in Seq(Cmd)
    BY AppendType DEF Cmd
  <2>2. QED
    BY <1>4, <2>1, BoundAssumption DEF CallResume, shared, audioVars, Cmd
<1>5. CASE TakeRunning
  BY <1>5 DEF TakeRunning, Receive, shared, audioVars
<1>6. CASE TakeSuspended
  BY <1>6 DEF TakeSuspended, Receive
<1>7. CASE TakeResume
  BY <1>7 DEF TakeResume, Receive
<1>8. CASE StartAudio
  BY <1>8 DEF StartAudio, shared, ownerVars
<1>9. CASE DrawChunk
  <2>1. PICK k \in 1 .. Len(heard) :
          /\ buf' = SubSeq(heard, 1, k)
          /\ heard' = SubSeq(heard, k + 1, Len(heard))
    BY <1>9 DEF DrawChunk
  <2>2. buf' \in Seq(1 .. MaxFrames) /\ heard' \in Seq(1 .. MaxFrames)
    BY <2>1, Parts
  <2>3. QED
    BY <1>9, <2>2 DEF DrawChunk, shared, ownerVars
<1>10. CASE NotDecoded
  BY <1>10 DEF NotDecoded, shared, audioVars, ownerVars
<1>11. CASE Decoded
  <2>1. Head(buf) \in 1 .. MaxFrames /\ Tail(buf) \in Seq(1 .. MaxFrames)
    BY <1>11, HeadTail DEF Decoded
  <2>2. QED
    BY <1>11, <2>1 DEF Decoded, shared
<1>12. CASE Hear
  <2>1. heardAll' \in 1 .. MaxFrames
    BY <1>12, BoundAssumption DEF Hear
  <2>2. Append(heard, heardAll') \in Seq(1 .. MaxFrames)
    BY <2>1, AppendType
  <2>3. QED
    BY <1>12, <2>1, <2>2 DEF Hear, shared, ownerVars
<1>13. CASE UNCHANGED vars
  BY <1>13 DEF vars, shared, audioVars, ownerVars
<1>14. QED
  BY <1>1, <1>2, <1>3, <1>4, <1>5, <1>6, <1>7, <1>8, <1>9, <1>10, <1>11, <1>12, <1>13
     DEF Next, OwnerStep, TaskStep

LEMMA TypeInit == Init => TypeOK
<1> SUFFICES ASSUME Init PROVE TypeOK
  OBVIOUS
<1>1. heard \in Seq(1 .. MaxFrames) /\ buf \in Seq(1 .. MaxFrames) /\ got \in Seq(1 .. MaxFrames)
      /\ cmds \in Seq({"Running", "Suspended", "Resume"})
  BY DEF Init
<1>2. heardAll \in 0 .. MaxFrames /\ suspends \in 0 .. MaxSuspends /\ resumes \in 0 .. MaxSuspends
      /\ empties \in 0 .. MaxPolls
  BY BoundAssumption DEF Init
<1>3. QED
  BY <1>1, <1>2 DEF Init, TypeOK

\* The variables keep their types.
THEOREM TypesHold == Spec => []TypeOK
  BY TypeInit, TypeStep, PTL DEF Spec

\* What a resumption leaves alone.
LEMMA ResumeKeeps ==
    ASSUME TakeResume
    PROVE  /\ owner' = owner /\ woken' = woken /\ task' = task /\ bits' = bits
           /\ state # "suspended" => state' = state
           /\ audio # "suspended" => audio' = audio
<1>1. CASE state # "suspended"
  <2>1. state' = state
    BY <1>1 DEF TakeResume
  <2>2. UNCHANGED <<owner, woken, task, bits>>
    BY DEF TakeResume, Receive
  <2>3. audio # "suspended" => audio' = audio
    BY DEF TakeResume
  <2>4. QED
    BY <2>1, <2>2, <2>3
<1>2. CASE state = "suspended" /\ bits # NoBits
  BY <1>2 DEF TakeResume, Receive
<1>3. CASE state = "suspended" /\ bits = NoBits
  BY <1>3 DEF TakeResume, Receive
<1>4. QED
  BY <1>1, <1>2, <1>3

-----------------------------------------------------------------------------
(* Wakeups.                                                                *)

LEMMA WakeupStep == TypeOK /\ NoLostWakeup /\ [Next]_vars => NoLostWakeup'
<1> SUFFICES ASSUME TypeOK, NoLostWakeup, [Next]_vars PROVE NoLostWakeup'
  OBVIOUS
<1> USE DEF NoLostWakeup, shared
<1>1. CASE Poll
  BY <1>1 DEF Poll, PollPending, PollFrame, PollNone
<1>2. CASE Cancel \/ CallSuspend \/ CallResume
  BY <1>2 DEF Cancel, CallSuspend, CallResume
<1>3. CASE TakeRunning
  BY <1>3 DEF TakeRunning, Receive
<1>4. CASE TakeSuspended
  BY <1>4 DEF TakeSuspended, Receive, TypeOK
<1>5. CASE TakeResume
  BY <1>5, ResumeKeeps
<1>6. CASE StartAudio \/ DrawChunk \/ NotDecoded \/ Hear
  BY <1>6 DEF StartAudio, DrawChunk, NotDecoded, Hear, ownerVars
<1>7. CASE Decoded
  <2>1. owner' = owner
    BY <1>7 DEF Decoded
  <2>2. CASE state = "running"
    <3>1. owner = "awaiting" => woken'
      BY <1>7, <2>2 DEF Decoded
    <3>2. QED
      BY <2>1, <3>1
  <2>3. CASE state # "running"
    <3>1. state' = state /\ woken' = woken
      BY <1>7, <2>3 DEF Decoded
    <3>2. QED
      BY <2>1, <3>1
  <2>4. QED
    BY <2>2, <2>3
<1>8. CASE UNCHANGED vars
  BY <1>8 DEF vars, ownerVars
<1>9. QED
  BY <1>1, <1>2, <1>3, <1>4, <1>5, <1>6, <1>7, <1>8 DEF Next, OwnerStep, TaskStep

\* However polls, dropped polls, commands and decoding interleave, an owner that
\* waits while the shared state has an answer for it has been woken.
THEOREM OwnerIsWoken == Spec => []NoLostWakeup
<1>1. Init => NoLostWakeup
  BY DEF Init, NoLostWakeup
<1>2. QED
  BY <1>1, TypeInit, TypeStep, WakeupStep, PTL DEF Spec

-----------------------------------------------------------------------------
(* The order of the frames.                                                *)

\* A frame waits in the shared state when it is completed, and none when it is
\* pending or running.
HeldFits ==
    /\ state = "completed" => bits # NoBits
    /\ state \in {"pending", "running"} => bits = NoBits

Rising(s) == \A i, j \in 1 .. Len(s) : i < j => s[i] < s[j]
Below(s, t) == \A i \in 1 .. Len(s), j \in 1 .. Len(t) : s[i] < t[j]
Upto(s, n) == \A i \in 1 .. Len(s) : s[i] <= n

\* What was returned, what waits in the shared state, what is in the buffer and
\* what is in the channel follow each other in the order they were heard.
FramesInOrder ==
    /\ HeldFits
    /\ Rising(got) /\ Rising(buf) /\ Rising(heard)
    /\ Below(got, Held) /\ Below(got, buf) /\ Below(got, heard)
    /\ Below(Held, buf) /\ Below(Held, heard)
    /\ Below(buf, heard)
    /\ Upto(got, heardAll) /\ Upto(Held, heardAll)
    /\ Upto(buf, heardAll) /\ Upto(heard, heardAll)

\* The shared state alone.
LEMMA HeldFitsStep == TypeOK /\ HeldFits /\ [Next]_vars => HeldFits'
<1> SUFFICES ASSUME TypeOK, HeldFits, [Next]_vars PROVE HeldFits'
  OBVIOUS
<1> USE DEF HeldFits, shared
<1>1. CASE Poll
  BY <1>1 DEF Poll, PollPending, PollFrame, PollNone, TypeOK
<1>2. CASE Cancel \/ CallSuspend \/ CallResume
  BY <1>2 DEF Cancel, CallSuspend, CallResume
<1>3. CASE TakeRunning
  BY <1>3 DEF TakeRunning, Receive
<1>4. CASE TakeSuspended
  BY <1>4 DEF TakeSuspended, Receive, TypeOK
<1>5. CASE TakeResume
  <2>1. CASE state # "suspended"
    BY <1>5, <2>1 DEF TakeResume, Receive
  <2>2. CASE state = "suspended" /\ bits # NoBits
    BY <1>5, <2>2 DEF TakeResume, Receive
  <2>3. CASE state = "suspended" /\ bits = NoBits
    BY <1>5, <2>3 DEF TakeResume, Receive
  <2>4. QED
    BY <2>1, <2>2, <2>3
<1>6. CASE StartAudio \/ DrawChunk \/ NotDecoded \/ Hear
  BY <1>6 DEF StartAudio, DrawChunk, NotDecoded, Hear, ownerVars
<1>7. CASE Decoded
  <2>1. Head(buf) # NoBits
    BY <1>7, HeadTail, NoBitsAssumption, BoundAssumption DEF Decoded, TypeOK
  <2>2. QED
    BY <1>7, <2>1 DEF Decoded
<1>8. CASE UNCHANGED vars
  BY <1>8 DEF vars, ownerVars
<1>9. QED
  BY <1>1, <1>2, <1>3, <1>4, <1>5, <1>6, <1>7, <1>8 DEF Next, OwnerStep, TaskStep

\* A rising sequence with something greater after it rises.
LEMMA RisingOn ==
    ASSUME NEW s, NEW t, NEW n \in Nat, NEW x \in Nat, Rising(s), Len(s) = n, Len(t) = n + 1,
           t[n + 1] = x, \A i \in 1 .. n : t[i] = s[i] /\ s[i] < x
    PROVE  Rising(t)
<1> SUFFICES ASSUME NEW i \in 1 .. n + 1, NEW j \in 1 .. n + 1, i < j PROVE t[i] < t[j]
  BY DEF Rising
<1>1. i \in 1 .. n
  OBVIOUS
<1>2. CASE j = n + 1
  BY <1>1, <1>2
<1>3. CASE j \in 1 .. n
  BY <1>1, <1>3 DEF Rising
<1>4. QED
  BY <1>2, <1>3

\* A part of a rising sequence rises.
LEMMA RisingPart ==
    ASSUME NEW s, NEW t, NEW n \in Nat, NEW m \in Nat, NEW k \in Nat, Rising(s), Len(s) = n,
           Len(t) = m, \A i \in 1 .. m : t[i] = s[k + i] /\ k + i \in 1 .. n
    PROVE  Rising(t)
<1> SUFFICES ASSUME NEW i \in 1 .. m, NEW j \in 1 .. m, i < j PROVE t[i] < t[j]
  BY DEF Rising
<1>1. k + i \in 1 .. n /\ k + j \in 1 .. n /\ k + i < k + j
  OBVIOUS
<1>2. s[k + i] < s[k + j]
  BY <1>1 DEF Rising
<1>3. QED
  BY <1>2

LEMMA OrderInit == Init => FramesInOrder
  BY DEF Init, FramesInOrder, HeldFits, Rising, Below, Upto, Held

LEMMA OrderStep == TypeOK /\ FramesInOrder /\ [Next]_vars => FramesInOrder'
<1> SUFFICES ASSUME TypeOK, FramesInOrder, [Next]_vars PROVE FramesInOrder'
  OBVIOUS
<1> DEFINE S == 1 .. MaxFrames
<1> USE DEF shared
<1>0. /\ got \in Seq(S) /\ buf \in Seq(S) /\ heard \in Seq(S) /\ heardAll \in Nat
      /\ Len(got) \in Nat /\ Len(buf) \in Nat /\ Len(heard) \in Nat
      /\ \A i \in 1 .. Len(got) : got[i] \in Nat
      /\ \A i \in 1 .. Len(buf) : buf[i] \in Nat
      /\ \A i \in 1 .. Len(heard) : heard[i] \in Nat
  BY BoundAssumption DEF TypeOK
<1>1. HeldFits'
  BY HeldFitsStep DEF FramesInOrder
<1>2. ASSUME UNCHANGED <<got, bits, buf, heard, heardAll>> PROVE FramesInOrder'
  BY <1>1, <1>2 DEF FramesInOrder, Rising, Below, Upto, Held
<1>3. bits = NoBits => Held = <<>> /\ Len(Held) = 0
  BY DEF Held
<1>4. bits # NoBits => Held = <<bits>> /\ Len(Held) = 1 /\ Held[1] = bits /\ bits \in S
  BY DEF Held, TypeOK
<1>5. CASE Poll /\ PollFrame
  <2>1. got' = Append(got, bits) /\ bits # NoBits /\ bits' = NoBits
        /\ UNCHANGED <<buf, heard, heardAll>>
    BY <1>5 DEF Poll, PollFrame, audioVars
  <2>2. Len(got') = Len(got) + 1 /\ got'[Len(got) + 1] = bits
        /\ \A i \in 1 .. Len(got) : got'[i] = got[i]
    BY <1>0, <1>4, <2>1
  <2>3. Held' = <<>> /\ Len(Held') = 0
    BY <2>1 DEF Held
  <2>4. bits \in Nat /\ bits <= heardAll /\ (\A i \in 1 .. Len(got) : got[i] < bits)
        /\ (\A i \in 1 .. Len(buf) : bits < buf[i]) /\ (\A i \in 1 .. Len(heard) : bits < heard[i])
    <3>0. bits \in S /\ Len(Held) = 1 /\ Held[1] = bits
      BY <1>4, <2>1
    <3>1. bits \in Nat /\ 1 \in 1 .. Len(Held)
      BY <3>0, BoundAssumption
    <3>2. QED
      BY <3>0, <3>1 DEF FramesInOrder, Below, Upto
  <2>5. Rising(got')
    <3>1. Rising(got)
      BY DEF FramesInOrder
    <3>2. \A i \in 1 .. Len(got) : got'[i] = got[i] /\ got[i] < bits
      BY <2>2, <2>4
    <3>3. bits \in Nat /\ Len(got) \in Nat
      BY <1>0, <2>4
    <3>4. QED
      BY <2>2, <3>1, <3>2, <3>3, RisingOn
  <2>6. Below(got', buf') /\ Below(got', heard') /\ Upto(got', heardAll')
    BY <1>0, <2>1, <2>2, <2>4 DEF FramesInOrder, Below, Upto
  <2>7. Below(got', Held') /\ Below(Held', buf') /\ Below(Held', heard') /\ Upto(Held', heardAll')
    BY <2>3 DEF Below, Upto
  <2>8. Rising(buf') /\ Rising(heard') /\ Below(buf', heard') /\ Upto(buf', heardAll')
        /\ Upto(heard', heardAll')
    BY <2>1 DEF FramesInOrder, Rising, Below, Upto
  <2>9. QED
    BY <1>1, <2>5, <2>6, <2>7, <2>8 DEF FramesInOrder
<1>6. CASE Poll /\ ~PollFrame
  BY <1>2, <1>6 DEF Poll, PollPending, PollNone, audioVars
<1>7. CASE Cancel \/ CallSuspend \/ CallResume
  BY <1>2, <1>7 DEF Cancel, CallSuspend, CallResume, audioVars
<1>8. CASE TakeRunning \/ TakeResume
  BY <1>2, <1>8 DEF TakeRunning, TakeResume, Receive, audioVars
<1>9. CASE TakeSuspended
  <2>1. heard' = <<>> /\ Len(heard') = 0 /\ UNCHANGED <<got, bits, buf, heardAll>>
    BY <1>9 DEF TakeSuspended, Receive
  <2>2. QED
    BY <1>1, <2>1 DEF FramesInOrder, Rising, Below, Upto, Held
<1>10. CASE StartAudio \/ NotDecoded
  BY <1>2, <1>10 DEF StartAudio, NotDecoded, ownerVars, audioVars
<1>11. CASE DrawChunk
  <2>1. PICK k \in 1 .. Len(heard) :
          /\ buf' = SubSeq(heard, 1, k)
          /\ heard' = SubSeq(heard, k + 1, Len(heard))
    BY <1>11 DEF DrawChunk
  <2>2. UNCHANGED <<got, bits, heardAll>>
    BY <1>11 DEF DrawChunk, ownerVars
  <2>3. /\ Len(buf') = k /\ Len(heard') = Len(heard) - k
        /\ \A i \in 1 .. k : buf'[i] = heard[i] /\ i \in 1 .. Len(heard)
        /\ \A i \in 1 .. Len(heard) - k : heard'[i] = heard[k + i] /\ k + i \in 1 .. Len(heard)
    BY <1>0, <2>1, Parts
  <2>4. Held' = Held
    BY <2>2 DEF Held
  <2>5. Rising(buf') /\ Rising(heard') /\ Below(buf', heard')
    <3>1. Rising(heard) /\ k \in Nat /\ 0 \in Nat /\ Len(heard) - k \in Nat
      BY <1>0 DEF FramesInOrder
    <3>2. \A i \in 1 .. k : buf'[i] = heard[0 + i] /\ 0 + i \in 1 .. Len(heard)
      BY <2>3
    <3>3. Rising(buf')
      BY <1>0, <2>3, <3>1, <3>2, RisingPart
    <3>4. Rising(heard')
      BY <1>0, <2>3, <3>1, RisingPart
    <3>5. ASSUME NEW i \in 1 .. k, NEW j \in 1 .. Len(heard) - k PROVE buf'[i] < heard'[j]
      <4>1. i \in 1 .. Len(heard) /\ k + j \in 1 .. Len(heard) /\ i < k + j
        BY <1>0
      <4>2. heard[i] < heard[k + j]
        BY <3>1, <4>1 DEF Rising
      <4>3. QED
        BY <2>3, <4>2
    <3>6. QED
      BY <2>3, <3>3, <3>4, <3>5 DEF Below
  <2>6. Below(got', buf') /\ Below(got', heard') /\ Below(Held', buf') /\ Below(Held', heard')
        /\ Upto(buf', heardAll') /\ Upto(heard', heardAll')
    BY <2>2, <2>3, <2>4 DEF FramesInOrder, Below, Upto
  <2>7. Rising(got') /\ Below(got', Held') /\ Upto(got', heardAll') /\ Upto(Held', heardAll')
    BY <2>2, <2>4 DEF FramesInOrder, Rising, Below, Upto
  <2>8. QED
    BY <1>1, <2>5, <2>6, <2>7 DEF FramesInOrder
<1>12. CASE Decoded
  <2>1. buf # <<>> /\ buf' = Tail(buf) /\ UNCHANGED <<got, heard, heardAll>>
    BY <1>12 DEF Decoded
  <2>2. Head(buf) = buf[1] /\ Head(buf) \in S /\ Len(buf) \in Nat \ {0}
        /\ Len(buf') = Len(buf) - 1
        /\ \A i \in 1 .. Len(buf') : buf'[i] = buf[1 + i] /\ 1 + i \in 1 .. Len(buf)
    <3>1. buf' \in Seq(S) /\ Len(buf) \in Nat \ {0} /\ Len(buf') = Len(buf) - 1
          /\ \A i \in 1 .. Len(buf') : buf'[i] = buf[i + 1]
      BY <1>0, <2>1, HeadTail
    <3>2. \A i \in 1 .. Len(buf') : i + 1 = 1 + i /\ 1 + i \in 1 .. Len(buf)
      BY <3>1
    <3>3. QED
      BY <1>0, <2>1, <3>1, <3>2, HeadTail
  <2>3. Rising(buf')
    <3>1. Rising(buf) /\ 1 \in Nat /\ Len(buf') \in Nat
      BY <2>2 DEF FramesInOrder
    <3>2. QED
      BY <1>0, <2>2, <3>1, RisingPart
  <2>4. Below(got', buf') /\ Below(buf', heard') /\ Upto(buf', heardAll')
    BY <2>1, <2>2 DEF FramesInOrder, Below, Upto
  <2>5. Rising(got') /\ Rising(heard') /\ Below(got', heard') /\ Upto(got', heardAll')
        /\ Upto(heard', heardAll')
    BY <2>1 DEF FramesInOrder, Rising, Below, Upto
  <2>6. Below(got', Held') /\ Below(Held', buf') /\ Below(Held', heard') /\ Upto(Held', heardAll')
    <3>1. CASE state = "running"
      <4>1. bits' = buf[1] /\ 1 \in 1 .. Len(buf)
        BY <1>12, <2>2, <3>1 DEF Decoded
      <4>2. bits' # NoBits
        BY <2>2, <4>1, NoBitsAssumption, BoundAssumption
      <4>3. Held' = <<buf[1]>> /\ Len(Held') = 1 /\ Held'[1] = buf[1]
        BY <4>1, <4>2 DEF Held
      <4>4. Below(Held', buf')
        <5>1. ASSUME NEW i \in 1 .. Len(buf') PROVE buf[1] < buf'[i]
          <6>1. 1 + i \in 1 .. Len(buf) /\ 1 < 1 + i /\ buf'[i] = buf[1 + i]
            BY <2>2
          <6>2. QED
            BY <4>1, <6>1 DEF FramesInOrder, Rising
        <5>2. QED
          BY <4>3, <5>1 DEF Below
      <4>5. QED
        BY <2>1, <4>1, <4>3, <4>4 DEF FramesInOrder, Below, Upto
    <3>2. CASE state # "running"
      <4>1. Held' = Held
        BY <1>12, <3>2 DEF Decoded, Held
      <4>2. QED
        BY <2>1, <2>2, <4>1 DEF FramesInOrder, Below, Upto
    <3>3. QED
      BY <3>1, <3>2
  <2>7. QED
    BY <1>1, <2>3, <2>4, <2>5, <2>6 DEF FramesInOrder
<1>13. CASE Hear
  <2>1. heard' = Append(heard, heardAll + 1) /\ heardAll' = heardAll + 1
        /\ UNCHANGED <<got, bits, buf>> /\ heardAll + 1 \in S
    BY <1>13, BoundAssumption DEF Hear, ownerVars, TypeOK
  <2>2. Len(heard') = Len(heard) + 1 /\ heard'[Len(heard) + 1] = heardAll + 1
        /\ \A i \in 1 .. Len(heard) : heard'[i] = heard[i]
    BY <1>0, <2>1
  <2>3. Held' = Held /\ \A i \in 1 .. Len(Held) : Held[i] \in Nat
    BY <1>3, <1>4, <2>1 DEF Held
  <2>4. Rising(heard') /\ Upto(heard', heardAll')
    <3>1. Rising(heard) /\ heardAll + 1 \in Nat /\ \A i \in 1 .. Len(heard) : heard[i] < heardAll + 1
      BY <1>0 DEF FramesInOrder, Upto
    <3>2. Rising(heard')
      BY <1>0, <2>2, <3>1, RisingOn
    <3>3. QED
      BY <1>0, <2>1, <2>2, <3>1, <3>2 DEF FramesInOrder, Upto
  <2>5. Below(got', heard') /\ Upto(got', heardAll')
    BY <1>0, <2>1, <2>2 DEF FramesInOrder, Below, Upto
  <2>6. Below(buf', heard') /\ Upto(buf', heardAll')
    BY <1>0, <2>1, <2>2 DEF FramesInOrder, Below, Upto
  <2>7. Below(Held', heard') /\ Upto(Held', heardAll')
    BY SMTT(20), <1>0, <2>1, <2>2, <2>3 DEF FramesInOrder, Below, Upto
  <2>8. Rising(got') /\ Rising(buf') /\ Below(got', Held') /\ Below(got', buf') /\ Below(Held', buf')
    BY <2>1, <2>3 DEF FramesInOrder, Rising, Below
  <2>9. QED
    BY <1>1, <2>4, <2>5, <2>6, <2>7, <2>8 DEF FramesInOrder
<1>14. CASE UNCHANGED vars
  BY <1>2, <1>14 DEF vars, audioVars, ownerVars
<1>15. QED
  BY <1>5, <1>6, <1>7, <1>8, <1>9, <1>10, <1>11, <1>12, <1>13, <1>14
     DEF Next, OwnerStep, TaskStep

\* The owner gets the frames in the order they were heard, and none of them
\* twice, through suspensions, resumptions and dropped polls.
THEOREM FramesComeInOrder == Spec => []InOrder
<1>1. Init => TypeOK /\ FramesInOrder
  BY TypeInit, OrderInit
<1>2. (TypeOK /\ FramesInOrder) /\ [Next]_vars => (TypeOK /\ FramesInOrder)'
  BY TypeStep, OrderStep
<1>3. FramesInOrder => InOrder
  BY DEF FramesInOrder, Rising, InOrder
<1>4. QED
  BY <1>1, <1>2, <1>3, PTL DEF Spec

-----------------------------------------------------------------------------
(* Nothing is lost without a suspension.                                   *)

\* The stream is not suspended, and the commands to decode, the one the task is
\* at included, are none or one, as the shared state says.
Unsuspended ==
    /\ state # "suspended" /\ audio # "suspended"
    /\ \A i \in 1 .. Len(cmds) : cmds[i] # "Suspended"
    /\ \A i \in 1 .. Len(cmds) : cmds[i] = "Running" => state = "running" /\ task = "recv"
    /\ \A i, j \in 1 .. Len(cmds) : cmds[i] = "Running" /\ cmds[j] = "Running" => i = j
    /\ task = "decode" => state = "running"

CountsFrom(n, s) == \A i \in 1 .. Len(s) : s[i] = n + i

InHand == IF bits = NoBits THEN 0 ELSE 1

\* NothingLost, part by part.
Counted ==
    /\ CountsFrom(0, got)
    /\ bits # NoBits => bits = Len(got) + 1
    /\ CountsFrom(Len(got) + InHand, buf)
    /\ CountsFrom(Len(got) + InHand + Len(buf), heard)
    /\ heardAll = Len(got) + InHand + Len(buf) + Len(heard)

Lossless == HeldFits /\ (suspends = 0 => Unsuspended /\ Counted)

LEMMA LosslessInit == Init => Lossless
  BY DEF Init, Lossless, HeldFits, Unsuspended, Counted, CountsFrom, InHand

\* The commands.
LEMMA UnsuspendedStep ==
    ASSUME TypeOK, HeldFits, Unsuspended, suspends' = 0, [Next]_vars
    PROVE  Unsuspended'
<1> USE DEF Unsuspended, shared
<1>1. CASE PollPending /\ Poll
  <2>1. CASE state = "running"
    BY <1>1, <2>1 DEF Poll, PollPending, audioVars
  <2>2. CASE state = "pending"
    <3>1. cmds' = Append(cmds, "Running") /\ state' = "running" /\ task = "recv" /\ task' = task
          /\ audio' = audio
      BY <1>1, <2>2 DEF Poll, PollPending, audioVars, TypeOK
    <3>2. cmds \in Seq(Cmd)
      BY DEF TypeOK, Cmd
    <3>3. Len(cmds') = Len(cmds) + 1 /\ Len(cmds) \in Nat
          /\ \A i \in 1 .. Len(cmds) : cmds'[i] = cmds[i] /\ cmds[i] # "Running"
      BY <3>1, <3>2, <2>2
    <3>4. cmds'[Len(cmds) + 1] = "Running"
      BY <3>1, <3>2
    <3>5. QED
      BY <3>1, <3>3, <3>4
  <2>3. QED
    BY <1>1, <2>1, <2>2 DEF PollPending
<1>2. CASE (PollFrame \/ PollNone) /\ Poll
  <2>1. state = "completed"
    BY <1>2 DEF PollFrame, PollNone, HeldFits, TypeOK
  <2>2. QED
    BY <1>2, <2>1 DEF Poll, PollFrame, PollNone, audioVars
<1>3. CASE Cancel
  BY <1>3 DEF Cancel, audioVars
<1>4. CASE CallSuspend
  <2>1. suspends' = suspends + 1 /\ suspends \in Nat
    BY <1>4, BoundAssumption DEF CallSuspend, TypeOK
  <2>2. QED
    BY <2>1
<1>5. CASE CallResume
  <2>1. cmds' = Append(cmds, "Resume") /\ UNCHANGED <<state, task, audio>>
    BY <1>5 DEF CallResume, audioVars
  <2>2. cmds \in Seq(Cmd)
    BY DEF TypeOK, Cmd
  <2>3. Len(cmds') = Len(cmds) + 1 /\ Len(cmds) \in Nat
        /\ \A i \in 1 .. Len(cmds) : cmds'[i] = cmds[i]
    BY <2>1, <2>2
  <2>4. cmds'[Len(cmds) + 1] = "Resume"
    BY <2>1, <2>2
  <2>5. QED
    BY <2>1, <2>3, <2>4
<1>6. ASSUME NEW cmd \in Cmd, Receive(cmd)
      PROVE  /\ cmds[1] = cmd /\ 1 \in 1 .. Len(cmds) /\ task = "recv"
             /\ \A i \in 1 .. Len(cmds') : cmds'[i] = cmds[i + 1] /\ i + 1 \in 1 .. Len(cmds)
                                          /\ i \in Nat
  <2>1. cmds \in Seq(Cmd) /\ cmds # <<>> /\ cmds' = Tail(cmds) /\ Head(cmds) = cmd /\ task = "recv"
    BY <1>6 DEF Receive, TypeOK, Cmd
  <2>2. QED
    BY <2>1, HeadTail
<1>7. CASE TakeRunning
  <2>1. Receive("Running") /\ "Running" \in Cmd /\ UNCHANGED <<state, audio>> /\ task' = "decode"
    BY <1>7 DEF TakeRunning, Cmd, audioVars
  <2>2. \A i \in 1 .. Len(cmds') : cmds'[i] # "Running"
    BY <2>1, <1>6
  <2>3. QED
    BY <2>1, <2>2, <1>6
<1>8. CASE TakeSuspended
  <2>1. Receive("Suspended") /\ "Suspended" \in Cmd
    BY <1>8 DEF TakeSuspended, Cmd
  <2>2. QED
    BY <2>1, <1>6
<1>9. CASE TakeResume
  <2>1. Receive("Resume") /\ "Resume" \in Cmd /\ UNCHANGED <<state, audio, task>>
    BY <1>9, ResumeKeeps DEF TakeResume, Cmd
  <2>2. QED
    BY SMTT(20), <2>1, <1>6
<1>10. CASE StartAudio \/ DrawChunk \/ Hear
  BY <1>10 DEF StartAudio, DrawChunk, Hear
<1>11. CASE NotDecoded
  BY <1>11 DEF NotDecoded, Drawing
<1>12. CASE Decoded
  <2>1. state = "running" /\ task = "decode" /\ state' = "completed" /\ task' = "recv"
        /\ UNCHANGED <<cmds, audio>>
    BY <1>12 DEF Decoded
  <2>2. QED
    BY <2>1
<1>13. CASE UNCHANGED vars
  BY <1>13 DEF vars, audioVars
<1>14. QED
  BY <1>1, <1>2, <1>3, <1>4, <1>5, <1>7, <1>8, <1>9, <1>10, <1>11, <1>12, <1>13
     DEF Next, OwnerStep, TaskStep, Poll

LEMMA CountedStep ==
    ASSUME TypeOK, HeldFits, Unsuspended, Counted, suspends' = 0, [Next]_vars
    PROVE  Counted'
<1> USE DEF shared
<1>0. ASSUME UNCHANGED <<got, bits, buf, heard, heardAll>> PROVE Counted'
  BY <1>0 DEF Counted, InHand, CountsFrom
<1>1. CASE Poll /\ PollFrame
  <2>1. got' = Append(got, bits) /\ bits # NoBits /\ bits' = NoBits
        /\ UNCHANGED <<buf, heard, heardAll>>
    BY <1>1 DEF Poll, PollFrame, audioVars
  <2>2. got \in Seq(1 .. MaxFrames) /\ bits \in 1 .. MaxFrames /\ Len(got) \in Nat
    BY <2>1 DEF TypeOK
  <2>3. Len(got') = Len(got) + 1 /\ got'[Len(got) + 1] = bits
        /\ \A i \in 1 .. Len(got) : got'[i] = got[i]
    BY <2>1, <2>2
  <2>4. CountsFrom(0, got')
    BY <2>1, <2>2, <2>3 DEF CountsFrom, Counted
  <2>5. InHand = 1 /\ InHand' = 0
    BY <2>1 DEF InHand
  <2>6. QED
    BY <2>1, <2>2, <2>3, <2>4, <2>5 DEF Counted, CountsFrom
<1>2. CASE Poll /\ ~PollFrame
  BY <1>0, <1>2 DEF Poll, PollPending, PollNone, audioVars
<1>3. CASE Cancel \/ CallSuspend \/ CallResume
  BY <1>0, <1>3 DEF Cancel, CallSuspend, CallResume, audioVars
<1>4. CASE TakeRunning \/ TakeResume
  BY <1>0, <1>4 DEF TakeRunning, TakeResume, Receive, audioVars
<1>5. CASE TakeSuspended
  <2>1. cmds \in Seq(Cmd) /\ cmds # <<>> /\ Head(cmds) = "Suspended"
    BY <1>5 DEF TakeSuspended, Receive, TypeOK, Cmd
  <2>2. QED
    BY <2>1, HeadTail DEF Unsuspended
<1>6. CASE StartAudio \/ NotDecoded
  BY <1>0, <1>6 DEF StartAudio, NotDecoded, ownerVars, audioVars
<1>7. CASE DrawChunk
  <2>1. PICK k \in 1 .. Len(heard) :
          /\ buf' = SubSeq(heard, 1, k)
          /\ heard' = SubSeq(heard, k + 1, Len(heard))
    BY <1>7 DEF DrawChunk
  <2>2. buf = <<>> /\ Len(buf) = 0 /\ UNCHANGED <<got, bits, heardAll>>
    BY <1>7 DEF DrawChunk, Drawing, ownerVars
  <2>3. heard \in Seq(1 .. MaxFrames) /\ Len(heard) \in Nat /\ Len(got) \in Nat /\ InHand \in Nat
        /\ InHand' = InHand
    BY <2>2 DEF TypeOK, InHand
  <2>4. /\ Len(buf') = k /\ Len(heard') = Len(heard) - k
        /\ \A i \in 1 .. k : buf'[i] = heard[i]
        /\ \A i \in 1 .. Len(heard) - k : heard'[i] = heard[k + i]
    BY <2>1, <2>3, Parts
  <2> DEFINE n == Len(got) + InHand
  <2>9. n \in Nat /\ \A i \in 1 .. Len(heard) : heard[i] = n + i
    BY <2>2, <2>3 DEF Counted, CountsFrom
  <2> HIDE DEF n
  <2>5. CountsFrom(n, buf')
    BY <2>3, <2>4, <2>9 DEF CountsFrom
  <2>6. CountsFrom(n + k, heard')
    BY <2>3, <2>4, <2>9 DEF CountsFrom
  <2>7. QED
    BY <2>2, <2>3, <2>4, <2>5, <2>6 DEF Counted, n
<1>8. CASE Decoded
  <2>1. state = "running" /\ bits = NoBits
    BY <1>8 DEF Decoded, Unsuspended, HeldFits
  <2>2. bits' = Head(buf) /\ buf' = Tail(buf) /\ buf # <<>> /\ UNCHANGED <<got, heard, heardAll>>
    BY <1>8, <2>1 DEF Decoded
  <2>3. buf \in Seq(1 .. MaxFrames) /\ Len(got) \in Nat /\ Len(heard) \in Nat
    BY DEF TypeOK
  <2>4. Head(buf) = buf[1] /\ Head(buf) \in 1 .. MaxFrames /\ Len(buf) \in Nat \ {0}
        /\ Len(buf') = Len(buf) - 1 /\ \A i \in 1 .. Len(buf') : buf'[i] = buf[i + 1]
    BY <2>2, <2>3, HeadTail
  <2>5. InHand = 0 /\ InHand' = 1
    BY <2>1, <2>2, <2>4, NoBitsAssumption, BoundAssumption DEF InHand
  <2>6. bits' = Len(got) + 1
    BY <2>2, <2>3, <2>4, <2>5 DEF Counted, CountsFrom
  <2>7. CountsFrom(Len(got) + 1, buf')
    BY <2>3, <2>4, <2>5 DEF Counted, CountsFrom
  <2>8. QED
    BY <2>2, <2>3, <2>4, <2>5, <2>6, <2>7 DEF Counted
<1>9. CASE Hear
  <2>1. heard' = Append(heard, heardAll + 1) /\ heardAll' = heardAll + 1
        /\ UNCHANGED <<got, bits, buf>> /\ heard \in Seq(1 .. MaxFrames) /\ heardAll \in Nat
        /\ Len(got) \in Nat /\ Len(buf) \in Nat /\ Len(heard) \in Nat
    BY <1>9, BoundAssumption DEF Hear, ownerVars, TypeOK
  <2>2. InHand \in Nat /\ InHand' = InHand
    BY <2>1 DEF InHand
  <2>3. heardAll + 1 \in 1 .. MaxFrames
    BY <1>9, BoundAssumption DEF Hear, TypeOK
  <2>4. Len(heard') = Len(heard) + 1 /\ heard'[Len(heard) + 1] = heardAll + 1
        /\ \A i \in 1 .. Len(heard) : heard'[i] = heard[i]
    BY <2>1, <2>3
  <2> DEFINE n == Len(got) + InHand + Len(buf)
  <2>7. n \in Nat /\ heardAll = n + Len(heard) /\ \A i \in 1 .. Len(heard) : heard[i] = n + i
    BY <2>1, <2>2 DEF Counted, CountsFrom
  <2> HIDE DEF n
  <2>8. CountsFrom(n, heard')
    BY SMTT(20), <2>1, <2>4, <2>7 DEF CountsFrom
  <2>5. CountsFrom(Len(got) + InHand + Len(buf), heard')
    BY <2>8 DEF n
  <2>6. QED
    BY <2>1, <2>2, <2>4, <2>5 DEF Counted
<1>10. CASE UNCHANGED vars
  BY <1>0, <1>10 DEF vars, audioVars, ownerVars
<1>11. QED
  BY <1>1, <1>2, <1>3, <1>4, <1>5, <1>6, <1>7, <1>8, <1>9, <1>10 DEF Next, OwnerStep, TaskStep

LEMMA LosslessStep == TypeOK /\ Lossless /\ [Next]_vars => Lossless'
<1> SUFFICES ASSUME TypeOK, Lossless, [Next]_vars PROVE Lossless'
  OBVIOUS
<1>1. HeldFits'
  BY HeldFitsStep DEF Lossless
<1>2. suspends' = 0 => suspends = 0
  <2>1. suspends \in Nat
    BY BoundAssumption DEF TypeOK
  <2>2. suspends' = suspends \/ suspends' = suspends + 1
    BY DEF Next, OwnerStep, TaskStep, Poll, Cancel, CallSuspend, CallResume, TakeRunning,
           TakeSuspended, TakeResume, Receive, StartAudio, DrawChunk, NotDecoded, Decoded, Hear,
           vars, ownerVars
  <2>3. QED
    BY <2>1, <2>2
<1>3. QED
  BY <1>1, <1>2, UnsuspendedStep, CountedStep DEF Lossless

\* Sequences that count on from each other count on together.
LEMMA CountOn ==
    ASSUME NEW S, NEW s \in Seq(S), NEW t \in Seq(S), NEW n \in Nat,
           CountsFrom(n, s), CountsFrom(n + Len(s), t)
    PROVE  s \o t \in Seq(S) /\ Len(s \o t) = Len(s) + Len(t) /\ CountsFrom(n, s \o t)
<1>1. s \o t \in Seq(S) /\ Len(s \o t) = Len(s) + Len(t) /\ Len(s) \in Nat /\ Len(t) \in Nat
  OBVIOUS
<1>2. ASSUME NEW i \in 1 .. Len(s \o t) PROVE (s \o t)[i] = n + i
  <2>1. CASE i <= Len(s)
    <3>1. (s \o t)[i] = s[i] /\ i \in 1 .. Len(s)
      BY <1>1, <2>1
    <3>2. QED
      BY <3>1 DEF CountsFrom
  <2>2. CASE i > Len(s)
    <3>1. (s \o t)[i] = t[i - Len(s)] /\ i - Len(s) \in 1 .. Len(t)
      BY <1>1, <2>2
    <3>2. t[i - Len(s)] = (n + Len(s)) + (i - Len(s))
      BY <3>1 DEF CountsFrom
    <3>3. QED
      BY <1>1, <3>1, <3>2
  <2>3. QED
    BY <1>1, <2>1, <2>2
<1>3. QED
  BY <1>1, <1>2 DEF CountsFrom

LEMMA LosslessIs == TypeOK /\ Lossless => NothingLost
<1> SUFFICES ASSUME TypeOK, Lossless, suspends = 0
             PROVE  got \o Held \o buf \o heard = [i \in 1 .. heardAll |-> i]
  BY DEF NothingLost
<1> DEFINE S == 1 .. MaxFrames
<1>1. got \in Seq(S) /\ buf \in Seq(S) /\ heard \in Seq(S) /\ Counted /\ heardAll \in Nat
  BY BoundAssumption DEF TypeOK, Lossless
<1>2. Held \in Seq(S) /\ Len(Held) = InHand /\ CountsFrom(Len(got), Held) /\ InHand \in Nat
  <2>1. CASE bits = NoBits
    BY <2>1 DEF Held, InHand, CountsFrom
  <2>2. CASE bits # NoBits
    <3>1. bits \in S /\ bits = Len(got) + 1
      BY <1>1, <2>2 DEF TypeOK, Counted
    <3>2. Held = <<bits>> /\ InHand = 1
      BY <2>2 DEF Held, InHand
    <3>3. <<bits>> \in Seq(S) /\ Len(<<bits>>) = 1 /\ <<bits>>[1] = bits
      BY <3>1
    <3>4. QED
      BY <1>1, <3>1, <3>2, <3>3 DEF CountsFrom
  <2>3. QED
    BY <2>1, <2>2
<1>3. Len(got) \in Nat /\ Len(buf) \in Nat /\ Len(heard) \in Nat
  BY <1>1
<1> HIDE DEF S
<1>4. /\ got \o Held \in Seq(S) /\ Len(got \o Held) = Len(got) + InHand
      /\ CountsFrom(0, got \o Held)
  <2>1. CountsFrom(0, got) /\ CountsFrom(0 + Len(got), Held)
    BY <1>1, <1>2, <1>3 DEF Counted
  <2>2. QED
    BY <1>1, <1>2, <2>1, CountOn
<1>5. /\ got \o Held \o buf \in Seq(S) /\ Len(got \o Held \o buf) = Len(got) + InHand + Len(buf)
      /\ CountsFrom(0, got \o Held \o buf)
  <2>1. CountsFrom(0 + Len(got \o Held), buf)
    BY <1>1, <1>2, <1>3, <1>4 DEF Counted
  <2>2. QED
    BY <1>1, <1>4, <2>1, CountOn
<1>6. /\ got \o Held \o buf \o heard \in Seq(S)
      /\ Len(got \o Held \o buf \o heard) = Len(got) + InHand + Len(buf) + Len(heard)
      /\ CountsFrom(0, got \o Held \o buf \o heard)
  <2>1. CountsFrom(0 + Len(got \o Held \o buf), heard)
    BY <1>1, <1>2, <1>3, <1>5 DEF Counted
  <2>2. QED
    BY <1>1, <1>5, <2>1, CountOn
<1>7. Len(got \o Held \o buf \o heard) = heardAll
  BY <1>1, <1>6 DEF Counted
<1> DEFINE all == got \o Held \o buf \o heard
<1>8. all \in Seq(S) /\ Len(all) = heardAll /\ \A i \in 1 .. heardAll : all[i] = i
  BY <1>1, <1>6, <1>7 DEF CountsFrom
<1> HIDE DEF all
<1>9. all = [i \in 1 .. heardAll |-> i]
  BY <1>8
<1>10. QED
  BY <1>9 DEF all

\* As long as nobody suspends the stream every frame heard was returned or is
\* still there, once and in its place, whatever polls were dropped.
THEOREM NoFrameIsLost == Spec => []NothingLost
<1>1. Init => TypeOK /\ Lossless
  BY TypeInit, LosslessInit
<1>2. (TypeOK /\ Lossless) /\ [Next]_vars => (TypeOK /\ Lossless)'
  BY TypeStep, LosslessStep
<1>3. QED
  BY <1>1, <1>2, LosslessIs, PTL DEF Spec
=============================================================================
