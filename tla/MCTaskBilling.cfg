SPECIFICATION Spec
CONSTANTS
    p1 = p1
    p2 = p2
    Pollers = {p1, p2}
    Prices = {0, 2}
    Actuals = {0, 1, 3}
    MaxFaults = 1
    MaxCrashes = 0
    MaxRewrites = 1
    Realtime = {FALSE, TRUE}
INVARIANTS TypeOK RowExplainsCharge NeverOverRefunded
PROPERTIES LateWritesLose
SYMMETRY MCSymmetry
