\* The peers may stop, and nobody has to call anything.
CHECK_DEADLOCK FALSE
CONSTANTS
    p = p
    q = q
    SeqMod = 8
    BufferLen = 1
    Quads = {p, q}
    Ports = {80, 81}
    PortOf <- MCPortOf
    Irs <- MCIrs
    Wnds <- MCWnds
    Ackns <- MCAckns
    StreamLen = 2
SPECIFICATION Spec
INVARIANTS TypeOK StreamIsPrefix HandedOutOnce StuckOnlyIfMissed WrittenIsKept AnsweredOnceAcked
PROPERTIES AcceptReturns
