SPECIFICATION FairReaderSpec
CONSTANTS
    A = A  B = B  C = C  u = u  v = v  ipA = ipA  ipB = ipB  ipC = ipC
    Broadcast = Broadcast  NoBody = NoBody
    NoTask = NoTask  NoFrame = NoFrame  NoPeer = NoPeer
    Station = {A, B}
    Ip = {ipA, ipB}
    IpOf <- TwoIps
    Caller = {u}
    Home <- OneHome
    Script <- PacketThenPerf
    SeqCount = 4
    Bases <- BaseOne
    MaxResends = 0
    JarCapacity = 2
    AirCapacity = 2
    Faulty = {}
    Leaver = {}
    ReadFrom <- ReadA
    AnySource = AnySource
    Nobody = Nobody
    MaxPackets = 2
INVARIANTS
    TypeOK
    ReaderTypeOK
    SettledIsDelivered
    DeliveredOnceInOrder
    PacketIntact
PROPERTIES
    CallsReturn
    WrittenIsRead
