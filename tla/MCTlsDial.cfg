SPECIFICATION Spec
CONSTANTS
    MaxDials = 3
    NDials <- SomeDials
    ProxyTypes = {"netproxy", "nettproxy"}
INVARIANT AverageIsOfDials
PROPERTY ClientEnds
CHECK_DEADLOCK FALSE
