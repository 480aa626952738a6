SPECIFICATION CallsSpec
CONSTANTS
    Pods = {p1, p2, p3}
    NoAddr = NoAddr
    Counts <- MCCounts
INVARIANTS
    ReturnsTheReadyPods
    PanicsIffFirstPodGone
    ReturnsAPick
    PickSetIsExact
PROPERTIES
    CountsOnlyNewPodsFromZero
    Terminates
CHECK_DEADLOCK FALSE
