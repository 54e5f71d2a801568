CONSTANTS
    h1 = h1
    h2 = h2
    Hosts = {h1, h2}
    Conns = {k1, k2}
    Calls = {c1, c2}
    StartList <- TwoHosts
    Permits = 1
    MaxRetries = 1
    NoConn = NoConn
SPECIFICATION Spec
INVARIANTS
    OpenIsPooled
PROPERTIES
    SentToOwnHost
    LiveIsKept
    StartupEnds
    ImplementsRemoteCall
CHECK_DEADLOCK FALSE
