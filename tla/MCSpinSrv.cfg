SPECIFICATION Spec
CONSTANTS
    Requests = {r1, r2, r3}
    Workers = {w1, w2}
    Nobody = Nobody
INVARIANTS
    QLenIsExact
    OneOwner
    RepliesAreComplete
PROPERTIES
    EveryRequestIsAnswered
    ServiceSpec
CHECK_DEADLOCK FALSE
