CONSTANTS
    Broadcast = Broadcast
    SeqCount = 3
    NoBody = NoBody
    W = W
    R = R
    Lens <- OnePacket
    MaxResends = 3
    AirCapacity = 2
    Faulty = {W, R}
    NoFrame = NoFrame
SPECIFICATION FairSpec
INVARIANTS TypeOK FirstPacketIntact
PROPERTIES TransferSpec WritesReturn
CHECK_DEADLOCK FALSE
