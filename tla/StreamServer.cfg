CONSTANTS
    Conns = {c1, c2}
    NoConn = NoConn
    Shutdown = TRUE
SPECIFICATION FairSpec
INVARIANTS
    LifeInv
    EmptyServerIsQuiet
    PipelineFollowsStreaming
    ModeAgreed
PROPERTIES
    ImplementsRegistry
    DeadConnectionsReclaimed
    StreamStopsAfterLast
CHECK_DEADLOCK FALSE
