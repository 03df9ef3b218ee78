------------------------------ MODULE MCGateway ------------------------------
(* Two hosts behind a gateway with three ports, one of them a static route. *)
EXTENDS Gateway, TLC

CONSTANTS A, B

TwoFlows == {<<A, 1>>, <<B, 1>>, <<B, 2>>}
ThreePorts == 11 .. 13
ThirdToB == 13 :> <<B, 2>>

Given(h, d, p) == [src |-> h, dst |-> d, proto |-> p, id |-> 1, for |-> NoFlow]

\* A uses the Internet, pings the gateway and sends a broadcast; B uses the
\* Internet, pings A and sends what the adapter does not carry.
Applications ==
    A :> {Given(A, Server, "udp"), Given(A, Gate, "echo_req"), Given(A, Everybody, "udp")}
      @@ B :> {Given(B, Server, "udp"), Given(B, A, "echo_req"), Given(B, Server, "other")}
=============================================================================
