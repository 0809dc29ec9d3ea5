SPECIFICATION FairSpec
CONSTANTS
    SIZE = 8
    MaxPackets = 4
    MaxFrames = 2
    MaxRequest = 2
INVARIANT RingHoldsLatest
PROPERTIES PlayedInOrder PacketsDecoded WindowCloses
CHECK_DEADLOCK FALSE
