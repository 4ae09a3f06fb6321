--------------------------- MODULE MCUserSession ----------------------------
\* Small instances of UserSession for TLC.
EXTENDS UserSession, TLC

CONSTANTS p1, p2, c1, c2

MCSymmetry == Permutations({p1, p2}) \cup Permutations({c1, c2})
=============================================================================
