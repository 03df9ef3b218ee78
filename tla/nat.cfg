CONSTANTS
    Flow = {"ann", "bob", "cid", "dot", "zed"}
    PortRange <- FourPorts
    Static <- ThirdToZed
    Scanned = {11, 12, 13, 15}
    NoFlow = NoFlow
SPECIFICATION Spec
INVARIANTS TypeOK EveryPortOnce OnePortEach
PROPERTY RecycledLast
