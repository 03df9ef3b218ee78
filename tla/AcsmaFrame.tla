------------------------------ MODULE AcsmaFrame ------------------------------
(***************************************************************************)
(* The frames of the Racsma layer and the predicates the socket daemon     *)
(* decides by.  A header keeps the fields of FrameHeader; the checksum is  *)
(* abstracted away (a frame that fails `verify` is a frame nobody hears),  *)
(* and a payload is a token that names the chunk it carries.               *)
(***************************************************************************)
EXTENDS Naturals

CONSTANTS
    Broadcast,   \* SOCKET_BROADCAST_ADDRESS
    SeqCount,    \* 1 << SEQ_BITS_LEN, the number of values of the seq field
    NoBody       \* the body of a frame that is a header and nothing else

ASSUME SeqCountAssumption == SeqCount \in Nat \ {0}

\* The frame types a station answers, and those that are answers.
NonAck == {"DATA", "MAC_PING_REQ", "MAC_ARP_REQ"}
Answer == {"ACK", "MAC_PING_RESP", "MAC_ARP_RESP"}

\* The frames between stations Mac with bodies Body: only data frames and
\* their acknowledgements are numbered.
Frame(Mac, Body) ==
    {f \in [type : NonAck \cup Answer, dest : Mac \cup {Broadcast}, src : Mac,
            seq : 0 .. SeqCount - 1, eop : BOOLEAN, body : Body] :
       f.type \notin {"DATA", "ACK"} => f.seq = 0}

-----------------------------------------------------------------------------
\* The constructors.  The seq field is cut to its width when a header becomes
\* bits, so a frame on the medium has its seq modulo SeqCount.

DataFrame(dest, src, seq, eop, payload) ==
    [type |-> "DATA", dest |-> dest, src |-> src, seq |-> seq % SeqCount,
     eop |-> eop, body |-> payload]

AckFrame(dest, src, seq) ==
    [type |-> "ACK", dest |-> dest, src |-> src, seq |-> seq % SeqCount,
     eop |-> FALSE, body |-> NoBody]

MacPingReqFrame(dest, src) ==
    [type |-> "MAC_PING_REQ", dest |-> dest, src |-> src, seq |-> 0,
     eop |-> FALSE, body |-> NoBody]

MacPingRespFrame(dest, src) ==
    [type |-> "MAC_PING_RESP", dest |-> dest, src |-> src, seq |-> 0,
     eop |-> FALSE, body |-> NoBody]

MacArpReqFrame(src, target) ==
    [type |-> "MAC_ARP_REQ", dest |-> Broadcast, src |-> src, seq |-> 0,
     eop |-> FALSE, body |-> target]

MacArpRespFrame(dest, src, sender) ==
    [type |-> "MAC_ARP_RESP", dest |-> dest, src |-> src, seq |-> 0,
     eop |-> FALSE, body |-> sender]

-----------------------------------------------------------------------------
\* A station takes what is addressed to it and every broadcast but its own.
IsForSelf(mac, f) ==
    \/ f.dest = mac
    \/ f.dest = Broadcast /\ f.src # mac

\* Whether a station whose configured address is ip answers frame f: only an
\* ARP request can go unanswered, and then only for want of an address.
Answers(ip, f) ==
    /\ f.type \in NonAck
    /\ f.type = "MAC_ARP_REQ" => ip # NoBody

\* The answer.  An ARP request is answered with the station's own address,
\* whatever address was asked for.
CreateResp(mac, ip, f) ==
    CASE f.type = "DATA"         -> AckFrame(f.src, mac, f.seq)
      [] f.type = "MAC_PING_REQ" -> MacPingRespFrame(f.src, mac)
      [] f.type = "MAC_ARP_REQ"  -> MacArpRespFrame(f.src, mac, ip)

\* The type of answer a written frame waits for.
Corresponds(req, f) ==
    \/ req.type = "DATA" /\ f.type = "ACK"
    \/ req.type = "MAC_PING_REQ" /\ f.type = "MAC_PING_RESP"
    \/ req.type = "MAC_ARP_REQ" /\ f.type = "MAC_ARP_RESP"

\* Mutants: the sequence number, the type or the target is not compared.
SettlesAnySeq(f, req) ==
    /\ Corresponds(req, f)
    /\ f.type = "MAC_ARP_RESP" /\ req.type = "MAC_ARP_REQ" => req.body = f.body

SettlesAnyType(f, req) ==
    /\ req.seq = f.seq
    /\ f.type = "MAC_ARP_RESP" /\ req.type = "MAC_ARP_REQ" => req.body = f.body

SettlesAnyTarget(f, req) == Corresponds(req, f) /\ req.seq = f.seq

\* The conditions of clear_timer: note that nobody compares f.src.
Settles(f, req) ==
    /\ Corresponds(req, f)
    /\ req.seq = f.seq
    /\ f.type = "MAC_ARP_RESP" /\ req.type = "MAC_ARP_REQ" => req.body = f.body
=============================================================================
