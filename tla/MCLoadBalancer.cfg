SPECIFICATION Spec
CONSTANTS
    Pods = {p1, p2}
    NoAddr = NoAddr
    Requests = {r1, r2}
    LBTypes = {"rr", "clntsideqlen", "clntsideqlne"}
    MaxPicks = 3
INVARIANTS
    CountersAccountForRequests
    EveryRequestHasACounter
    RoundRobinIsEven
PROPERTIES
    PicksLeastLoaded
    ForwardedRequestsEnd
    MonitorConverges
