SPECIFICATION FairSpec
CONSTANTS
    Clients = {c1}
    Host = host
    MaxHosts = 2
    MaxFaults = 2
INVARIANTS CertMatchesKey OpenMeansPaired PairingsKept
PROPERTY SettlesWithoutPin
