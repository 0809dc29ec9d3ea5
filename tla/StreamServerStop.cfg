CONSTANTS
    Conns = {c1, c2}
    NoConn = NoConn
    Shutdown = TRUE
SPECIFICATION FairSpec
PROPERTY
    StopDropsConnections
CHECK_DEADLOCK FALSE
