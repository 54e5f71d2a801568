CONSTANTS
    DnsServers = {d1, d2}
    PleskServers = {p1}
    Requests = {r1, r2}
    Ops = {"set", "get", "delete"}
    NoZone = NoZone
SPECIFICATION Spec
INVARIANTS
    ZoneOnItsWay
    RestoredMasterHostsDomain
    SuccessRemovedEverywhere
    RejectedRemovesNothing
PROPERTIES
    LostStaysLost
    ZoneReturns
CHECK_DEADLOCK FALSE
