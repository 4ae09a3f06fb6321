SPECIFICATION Spec
CONSTANTS
    n1 = n1
    n2 = n2
    Runners = {n1, n2}
    MaxTasks = 2
    MaxTime = 3
    TTL = 1
    Interval = 1
    MaxFaults = 1
INVARIANTS TypeOK LeaseExclusive ActiveKeyRecoverable
PROPERTIES TerminalStable
SYMMETRY MCSymmetry
