CONSTANTS
    DnsServers = {d1, d2}
    PleskServers = {p1}
    Requests = {r1}
    Ops = {"set"}
    NoZone = NoZone
SPECIFICATION Spec
INVARIANTS
    FailedRemovalIsReported
CHECK_DEADLOCK FALSE
