SPECIFICATION FairSpec
CONSTANTS
    s1 = s1
    s2 = s2
    a = a
    b = b
    Sessions = {s1, s2}
    Clients = {a, b}
    Paired = {}
    Owner <- TwoClients
    NoPin = NoPin
    NoNonce = NoNonce
    Cap = 1
    Frail = {s1, s2}
INVARIANTS TrustIsMutual KnownByPin OnlyBroadcastsAbort
CHECK_DEADLOCK FALSE
