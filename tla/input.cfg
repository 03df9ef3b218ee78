CONSTANTS
    MaxFrames = 3
    MaxSuspends = 2
    MaxPolls = 2
    NoBits = NoBits
SPECIFICATION FairSpec
INVARIANTS TypeOK InOrder NothingLost NoLostWakeup
PROPERTY HeardIsReturned
CHECK_DEADLOCK FALSE
