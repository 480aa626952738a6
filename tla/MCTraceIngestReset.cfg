SPECIFICATION Spec
CONSTANTS
    Files = {1, 2, 3}
    Limits = {0, 1}
    Modes <- ResetModes
    Crashes = FALSE
    MaxRuns = 3
INVARIANT ResetStartsFresh
CHECK_DEADLOCK FALSE
