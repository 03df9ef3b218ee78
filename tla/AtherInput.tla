------------------------------ MODULE AtherInput ------------------------------
(***************************************************************************)
(* AtherInputStream (rather/stream.rs) over AudioInputStream               *)
(* (raudio/stream.rs): the owner polls, suspends and resumes the stream, a *)
(* spawned task takes the commands one after the other and decodes one     *)
(* frame for each "Running" command.  Samples and symbols are abstracted   *)
(* to frames, numbered in the order the device hears them.                 *)
(***************************************************************************)
EXTENDS Naturals, Sequences

CONSTANTS
    MaxFrames,     \* bound: the frames the device hears
    MaxSuspends,   \* bound: calls of suspend, and of resume
    MaxPolls,      \* bound: polls that return without a frame
    NoBits

ASSUME BoundAssumption ==
    MaxFrames \in Nat /\ MaxSuspends \in Nat /\ MaxPolls \in Nat
ASSUME NoBitsAssumption == NoBits \notin Nat

VARIABLES
    state,     \* AtherInputTaskState: what the owner and the task share
    bits,      \* the frame inside Completed(bits) or Suspended(Some(bits))
    cmds,      \* the commands sent and not yet received
    task,      \* the task: "recv", or "decode" inside decode_frame
    audio,     \* AudioInputTaskState: "pending", "running" or "suspended"
    heard,     \* the frames in the channel of the audio stream
    buf,       \* the frames the task has drawn from it and not decoded
    owner,     \* "idle", or "awaiting" when a poll was answered Pending
    woken,     \* the waker of the shared state was woken
    asked,     \* the last of suspend and resume the owner called, or "none"
    got,       \* history: the frames the polls returned
    heardAll,  \* history: how many frames the device has heard
    suspends, resumes, empties   \* the bounded counters

shared == <<state, bits>>
ownerVars == <<owner, woken, asked, got, suspends, resumes, empties>>
audioVars == <<audio, heard, buf, heardAll>>
vars == <<shared, cmds, task, audioVars, ownerVars>>

Init ==
    /\ state = "pending" /\ bits = NoBits /\ cmds = <<>> /\ task = "recv"
    /\ audio = "pending" /\ heard = <<>> /\ buf = <<>> /\ heardAll = 0
    /\ owner = "idle" /\ woken = FALSE /\ asked = "none" /\ got = <<>>
    /\ suspends = 0 /\ resumes = 0 /\ empties = 0

-----------------------------------------------------------------------------
(* The owner.                                                              *)

PollPending ==
    /\ state \in {"pending", "running"}
    /\ state' = "running"
    /\ cmds' = IF state = "pending" THEN Append(cmds, "Running") ELSE cmds
    /\ owner' = "awaiting"
    /\ UNCHANGED <<bits, got, empties>>

\* Mutants: what is returned is not looked at, and what is returned is kept.
PollFrameUnchecked ==
    /\ state \in {"completed", "suspended"}
    /\ state' = IF state = "completed" THEN "pending" ELSE state
    /\ got' = Append(got, bits) /\ bits' = NoBits
    /\ owner' = "idle"
    /\ UNCHANGED <<cmds, empties>>

PollFrameKeeps ==
    /\ bits # NoBits /\ Len(got) < MaxFrames
    /\ state' = IF state = "completed" THEN "pending" ELSE state
    /\ got' = Append(got, bits)
    /\ owner' = "idle"
    /\ UNCHANGED <<bits, cmds, empties>>

PollFrame ==
    /\ bits # NoBits
    /\ state' = IF state = "completed" THEN "pending" ELSE state
    /\ got' = Append(got, bits) /\ bits' = NoBits
    /\ owner' = "idle"
    /\ UNCHANGED <<cmds, empties>>

PollNone ==
    /\ state = "suspended" /\ bits = NoBits /\ empties < MaxPolls
    /\ empties' = empties + 1
    /\ owner' = "idle"
    /\ UNCHANGED <<shared, cmds, got>>

Poll ==
    /\ owner = "idle" \/ woken
    /\ woken' = FALSE
    /\ PollPending \/ PollFrame \/ PollNone
    /\ UNCHANGED <<task, audioVars, asked, suspends, resumes>>

\* Mutant: the dropped poll takes its request back from the shared state.
CancelResets ==
    /\ owner = "awaiting"
    /\ owner' = "idle" /\ woken' = FALSE
    /\ state' = IF state = "running" THEN "pending" ELSE state
    /\ UNCHANGED <<bits, cmds, task, audioVars, asked, got, suspends, resumes, empties>>

\* A timeout drops the future of `next`; the shared state stays as it is.
Cancel ==
    /\ owner = "awaiting"
    /\ owner' = "idle" /\ woken' = FALSE
    /\ UNCHANGED <<shared, cmds, task, audioVars, asked, got, suspends, resumes, empties>>

CallSuspend ==
    /\ owner = "idle" /\ suspends < MaxSuspends
    /\ cmds' = Append(cmds, "Suspended")
    /\ asked' = "suspend" /\ suspends' = suspends + 1
    /\ UNCHANGED <<shared, task, audioVars, owner, woken, got, resumes, empties>>

CallResume ==
    /\ owner = "idle" /\ resumes < MaxSuspends
    /\ cmds' = Append(cmds, "Resume")
    /\ asked' = "resume" /\ resumes' = resumes + 1
    /\ UNCHANGED <<shared, task, audioVars, owner, woken, got, suspends, empties>>

-----------------------------------------------------------------------------
(* The task.                                                               *)

Receive(cmd) ==
    /\ task = "recv" /\ cmds # <<>> /\ Head(cmds) = cmd
    /\ cmds' = Tail(cmds)
    /\ UNCHANGED <<owner, asked, got, suspends, resumes, empties>>

TakeRunning ==
    /\ Receive("Running")
    /\ task' = "decode"
    /\ UNCHANGED <<shared, audioVars, woken>>

\* Mutant: the owner is not woken.
TakeSuspendedUnwoken ==
    /\ Receive("Suspended")
    /\ audio' = "suspended" /\ heard' = <<>>
    /\ state' = IF state \in {"running", "completed"} THEN "suspended" ELSE state
    /\ UNCHANGED <<bits, task, buf, heardAll, woken>>

\* `stream.suspend()` drops the device's stream with all it has heard.
TakeSuspended ==
    /\ Receive("Suspended")
    /\ audio' = "suspended" /\ heard' = <<>>
    /\ state' = IF state \in {"running", "completed"} THEN "suspended" ELSE state
    /\ woken' = (woken \/ (state = "running" /\ owner = "awaiting"))
    /\ UNCHANGED <<bits, task, buf, heardAll>>

TakeResume ==
    /\ Receive("Resume")
    /\ audio' = IF audio = "suspended" THEN "pending" ELSE audio
    /\ state' = IF state # "suspended" THEN state
                ELSE IF bits # NoBits THEN "completed" ELSE "pending"
    /\ UNCHANGED <<bits, task, heard, buf, heardAll, woken>>

\* decode_frame draws on the audio stream only when its buffer holds no frame.
\* The first poll starts the device; a chunk holds any number of frames.
Drawing == task = "decode" /\ buf = <<>>

StartAudio ==
    /\ Drawing /\ audio = "pending"
    /\ audio' = "running"
    /\ UNCHANGED <<shared, cmds, task, heard, buf, heardAll, ownerVars>>

DrawChunk ==
    /\ Drawing /\ audio = "running"
    /\ \E k \in 1 .. Len(heard) :
          /\ buf' = SubSeq(heard, 1, k)
          /\ heard' = SubSeq(heard, k + 1, Len(heard))
    /\ UNCHANGED <<shared, cmds, task, audio, heardAll, ownerVars>>

\* A suspended audio stream yields None: decode_frame gives up.
NotDecoded ==
    /\ Drawing /\ audio = "suspended"
    /\ task' = "recv"
    /\ UNCHANGED <<shared, cmds, audioVars, ownerVars>>

\* Mutant: the owner is not woken.
DecodedUnwoken ==
    /\ task = "decode" /\ buf # <<>>
    /\ buf' = Tail(buf) /\ task' = "recv"
    /\ IF state = "running"
       THEN state' = "completed" /\ bits' = Head(buf)
       ELSE UNCHANGED shared
    /\ UNCHANGED <<cmds, audio, heard, heardAll, ownerVars>>

\* A frame decoded for nobody is dropped.
Decoded ==
    /\ task = "decode" /\ buf # <<>>
    /\ buf' = Tail(buf) /\ task' = "recv"
    /\ IF state = "running"
       THEN /\ state' = "completed" /\ bits' = Head(buf)
            /\ woken' = (woken \/ owner = "awaiting")
       ELSE UNCHANGED <<shared, woken>>
    /\ UNCHANGED <<cmds, audio, heard, heardAll, owner, asked, got, suspends, resumes, empties>>

\* The device hears a frame; its stream exists only while it runs.
Hear ==
    /\ audio = "running" /\ heardAll < MaxFrames
    /\ heardAll' = heardAll + 1
    /\ heard' = Append(heard, heardAll')
    /\ UNCHANGED <<shared, cmds, task, audio, buf, ownerVars>>

TaskStep ==
    \/ TakeRunning \/ TakeSuspended \/ TakeResume
    \/ StartAudio \/ DrawChunk \/ NotDecoded \/ Decoded

OwnerStep == Poll \/ Cancel \/ CallSuspend \/ CallResume

Next == OwnerStep \/ TaskStep \/ Hear

Spec == Init /\ [][Next]_vars

\* The runtime runs the task and polls an owner that was woken.
FairSpec == Spec /\ WF_vars(TaskStep) /\ WF_vars(owner = "awaiting" /\ Poll)

-----------------------------------------------------------------------------
(* Properties.                                                             *)

\* The type of every variable.
TypeOK ==
    /\ state \in {"pending", "running", "completed", "suspended"}
    /\ bits \in 1 .. MaxFrames \cup {NoBits}
    /\ cmds \in Seq({"Running", "Suspended", "Resume"})
    /\ task \in {"recv", "decode"}
    /\ audio \in {"pending", "running", "suspended"}
    /\ heard \in Seq(1 .. MaxFrames) /\ buf \in Seq(1 .. MaxFrames)
    /\ heardAll \in 0 .. MaxFrames
    /\ owner \in {"idle", "awaiting"} /\ woken \in BOOLEAN
    /\ asked \in {"none", "suspend", "resume"}
    /\ got \in Seq(1 .. MaxFrames)
    /\ suspends \in 0 .. MaxSuspends /\ resumes \in 0 .. MaxSuspends
    /\ empties \in 0 .. MaxPolls

\* Frames come out in the order they were heard and none comes out twice, through
\* every suspension, resumption and dropped poll.
InOrder == \A i, j \in 1 .. Len(got) : i < j => got[i] < got[j]

Held == IF bits = NoBits THEN <<>> ELSE <<bits>>

\* A stream that was never suspended loses nothing: every frame heard was
\* returned, or waits in the shared state, the buffer or the audio channel, also when
\* the poll that was to return it was dropped.
NothingLost == suspends = 0 => got \o Held \o buf \o heard = [i \in 1 .. heardAll |-> i]

\* An owner that waits is woken when there is something to return.
NoLostWakeup == owner = "awaiting" /\ state \in {"completed", "suspended"} => woken

\* A stream that was never suspended returns a frame that was heard to an owner
\* that goes on waiting.
HeardIsReturned ==
    owner = "awaiting" /\ buf \o heard # <<>> /\ suspends = 0 ~> owner = "idle" \/ suspends > 0

\* "Once it is suspended, it will yield `None` until it is resumed": a poll of a
\* suspended stream is answered.
SuspendedAnswers ==
    owner = "awaiting" /\ asked = "suspend" ~> owner = "idle" \/ asked = "resume"
=============================================================================
