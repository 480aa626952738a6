SPECIFICATION Spec
CONSTANTS
    Pods = {p1, p2}
    NoAddr = NoAddr
    Requests = {r1, r2, r3}
    LBTypes = {"clntsideqlen"}
    MaxPicks = 0
PROPERTY PicksABackend
