-------------------------------- MODULE MCTcp --------------------------------
EXTENDS TcpInterface, TLC

CONSTANTS p, q

\* Two peers of port 80, and a port 81 that nobody calls.
MCPortOf == p :> 80 @@ q :> 80

\* The sequence numbers of one wrap inside its stream.
MCIrs == p :> SeqMod - 2 @@ q :> 2

\* The first acknowledges nothing, the SYN, what was not sent, and what lies
\* before the SYN; the second the SYN alone.
MCAckns == p :> {0, 1, 2, 7} @@ q :> {1}

\* The second never has room for data.
MCWnds == p :> {3} @@ q :> {0}
=============================================================================
