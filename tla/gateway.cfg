CONSTANTS
    A = A  B = B
    Flow <- TwoFlows
    PortRange <- ThreePorts
    Static <- ThirdToB
    Scanned = {13, 14}
    NoFlow = NoFlow
    Host = {A, B}
    Gate = Gate
    Outer = Outer
    Server = Server
    Everybody = Everybody
    AppPackets <- Applications
    MaxSends = 1
    MaxCaptures = 2
    Faulty = {B, Gate}
    NoPacket = NoPacket
SPECIFICATION FairGatewaySpec
INVARIANTS GatewayTypeOK NoTaskLost AnswersGoHome AnswersReachTheAsker
PROPERTY Drained
CHECK_DEADLOCK FALSE
