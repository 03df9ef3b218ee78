SPECIFICATION Spec
CONSTANTS
    A = A  B = B  C = C  u = u  v = v  ipA = ipA  ipB = ipB  ipC = ipC
    Broadcast = Broadcast  NoBody = NoBody
    NoTask = NoTask  NoFrame = NoFrame  NoPeer = NoPeer
    Station = {A, B, C}
    Ip = {ipA, ipB, ipC}
    IpOf <- AllIps
    Caller = {u, v}
    Home <- SharedHome
    Script <- SharedScript
    SeqCount = 4
    Bases <- BothZero
    MaxResends = 0
    JarCapacity = 2
    AirCapacity = 1
    Faulty = {A}
    Leaver = {B}
INVARIANTS
    SocketInv
    ArpResolves
    NoOrphanCall
    AnswerIsGenuine
CHECK_DEADLOCK FALSE
