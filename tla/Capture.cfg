SPECIFICATION FairSpec
CONSTANT MaxSessions = 4
INVARIANT FrameOfDuplication
PROPERTY FirstPicture
CHECK_DEADLOCK FALSE
