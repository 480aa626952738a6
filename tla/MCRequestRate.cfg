SPECIFICATION HSpec
CONSTANTS
    Callers = {c1, c2}
    MaxPeriod = 3
    MaxCount = 2
SYMMETRY CallersSymmetry
INVARIANT BucketsAreExact
PROPERTY RegularGetsAreExact
