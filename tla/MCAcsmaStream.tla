---------------------------- MODULE MCAcsmaStream ----------------------------
(* The packet of the run of AcsmaStream. *)
EXTENDS AcsmaStream

OnePacket == <<3>>
=============================================================================
