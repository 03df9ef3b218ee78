---------------------------- MODULE PacketTransfer ----------------------------
(***************************************************************************)
(* What a stop-and-wait transfer of one packet promises: a chunk is        *)
(* confirmed only after it was delivered, the next chunk is delivered only *)
(* after that, and the call says Ok only when every chunk was confirmed.   *)
(***************************************************************************)
EXTENDS Naturals

CONSTANT Chunks   \* the number of chunks of the packet

VARIABLES
    delivered,    \* chunks that have reached the reader
    confirmed,    \* chunks the writer knows to have reached it
    outcome       \* of the call: "open", "ok" or "error"

transferVars == <<delivered, confirmed, outcome>>

TransferInit == delivered = 0 /\ confirmed = 0 /\ outcome = "open"

Deliver ==
    /\ delivered = confirmed /\ delivered < Chunks
    /\ delivered' = delivered + 1
    /\ UNCHANGED <<confirmed, outcome>>

Confirm ==
    /\ outcome = "open" /\ confirmed < delivered
    /\ confirmed' = confirmed + 1
    /\ outcome' = IF confirmed' = Chunks THEN "ok" ELSE "open"
    /\ UNCHANGED delivered

Fail ==
    /\ outcome = "open"
    /\ outcome' = "error"
    /\ UNCHANGED <<delivered, confirmed>>

TransferNext == Deliver \/ Confirm \/ Fail

TransferSpec == TransferInit /\ [][TransferNext]_transferVars
=============================================================================
