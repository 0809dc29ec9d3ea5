SPECIFICATION FairSpec
CONSTANTS
    Modes = {m1, m2}
    NoMode = NoMode
    MaxSessions = 2
    MaxFrames = 4
INVARIANT OneBehindPerSession
PROPERTIES WrittenInOrder FrameIsWritten ThreadsEnd
CHECK_DEADLOCK FALSE
