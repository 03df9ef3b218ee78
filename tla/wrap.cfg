SPECIFICATION ReaderSpec
CONSTANTS
    A = A  B = B  C = C  u = u  v = v  ipA = ipA  ipB = ipB  ipC = ipC
    Broadcast = Broadcast  NoBody = NoBody
    NoTask = NoTask  NoFrame = NoFrame  NoPeer = NoPeer
    Station = {A, B}
    Ip = {ipA, ipB}
    IpOf <- TwoIps
    Caller = {u}
    Home <- OneHome
    Script <- OnePacket
    SeqCount = 4
    Bases <- BaseAny
    MaxResends = 1
    JarCapacity = 2
    AirCapacity = 2
    Faulty = {}
    Leaver = {}
    ReadFrom <- ReadA
    AnySource = AnySource
    Nobody = Nobody
    MaxPackets = 2
INVARIANTS
    PacketIntact
