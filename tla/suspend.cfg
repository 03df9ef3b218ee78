CONSTANTS
    MaxFrames = 2
    MaxSuspends = 1
    MaxPolls = 1
    NoBits = NoBits
SPECIFICATION FairSpec
PROPERTY SuspendedAnswers
CHECK_DEADLOCK FALSE
