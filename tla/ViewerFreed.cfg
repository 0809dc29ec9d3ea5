SPECIFICATION FairSpec
CONSTANTS
    MaxPackets = 2
    MaxShapes = 0
    FrameCap = 2
INVARIANTS FrameKept
CHECK_DEADLOCK FALSE
