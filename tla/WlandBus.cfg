SPECIFICATION Spec
CONSTANTS
    Callers = {c1, c2}
    IdCount = 2
    MaxId = 2
    TxqLen = 1
    TxHi = 1
    TxLow = 1
    IdleTime = 2
SYMMETRY Symmetry
INVARIANTS TypeOK NothingStalls ClockKept OkMeansCarriedOut
CHECK_DEADLOCK FALSE
