----------------------------- MODULE MCNatTable -----------------------------
(* The ports and routes of the runs of NatTable: a range of ports, one of   *)
(* which is a static route.                                                  *)
EXTENDS NatTable, TLC

FourPorts  == 11 .. 14
ThirdToZed == 13 :> "zed"
=============================================================================
