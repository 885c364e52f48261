CONSTANTS
    Ips = {i1}
    Workers = {w1, w2}
    Burst = 2
    Rate = 1
    MaxTime = 6
    Timeout = 2
    MaxStall = 1
SPECIFICATION Spec
SYMMETRY WorkerSymmetry
INVARIANTS
    RateIsKept
PROPERTIES
    NeverForgets
CHECK_DEADLOCK FALSE
