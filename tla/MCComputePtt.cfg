SPECIFICATION Spec
CONSTANTS
    Inputs <- MCInputs
    Windows = {1, 2}
    Threads = {0, 2, 3, 4}
INVARIANTS
    ComputedOnce
    ResultsAreLargestRatios
PROPERTY Ends
CHECK_DEADLOCK FALSE
