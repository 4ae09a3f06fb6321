SPECIFICATION Spec
CONSTANTS
    p1 = p1
    p2 = p2
    c1 = c1
    c2 = c2
    Procs = {p1, p2}
    Caches = {c1, c2}
    TTL = 1
    Grace = 1
    Life = 3
    MaxTime = 3
    MaxGen = 2
    MaxVer = 2
    MaxFaults = 1
INVARIANTS TypeOK RevokedIsDenied BoundedStaleness NewestTokenKnown
PROPERTIES RaceNeverRevokes
SYMMETRY MCSymmetry
