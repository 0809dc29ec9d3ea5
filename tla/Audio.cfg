SPECIFICATION FairSpec
CONSTANTS
    FrameSize = 2
    MaxChunk = 3
    MaxSamples = 6
    MaxQueue = 3
    MaxSessions = 3
INVARIANTS SamplesInOrder CodecWhileRunning
PROPERTIES SamplesSent
CHECK_DEADLOCK FALSE
