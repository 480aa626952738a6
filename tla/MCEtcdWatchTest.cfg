SPECIFICATION Spec
CONSTANTS
    Keys = {k1, k2}
    MinKeys = {m1, m2}
    Watchers = {w1}
    OneShots = {o1}
    Dummy = xxx
    Found <- LeftBehind
    MaxRuns = 1
INVARIANTS
    AcksAreCounted
    WatchersAreStopped
    RegistryIsClean
    AssertionsHold
PROPERTY TestsEnd
CHECK_DEADLOCK FALSE
