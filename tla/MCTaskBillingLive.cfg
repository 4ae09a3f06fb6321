SPECIFICATION FairSpec
CONSTANTS
    p1 = p1
    p2 = p2
    Pollers = {p1}
    Prices = {0, 2}
    Actuals = {0, 1, 3}
    MaxFaults = 3
    MaxCrashes = 2
    MaxRewrites = 0
    Realtime = {FALSE}
INVARIANTS SettledOnComplete NeverOverRefunded
PROPERTIES FailedRefunded EventuallyTerminal
