SPECIFICATION FairSpec
CONSTANTS
    MaxPackets = 4
    MaxShapes = 2
    FrameCap = 2
INVARIANTS TypeOK CursorNotLost StartedOnce NoLostWakeup
PROPERTIES FeedDecodable ViewerStarts QueuesDrain ViewerCloses
CHECK_DEADLOCK FALSE
