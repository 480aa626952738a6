SPECIFICATION Spec
CONSTANTS
    Files = {1, 2, 3}
    Limits = {0, 1}
    Modes <- SafeModes
    Crashes = TRUE
    MaxRuns = 4
INVARIANTS
    PartsMatchMetadata
    EachFileOnce
    ResetStartsFresh
CHECK_DEADLOCK FALSE
