--------------------------- MODULE MCTaskBilling ---------------------------
\* Small instances of TaskBilling for TLC.
EXTENDS TaskBilling, TLC

CONSTANTS p1, p2

MCSymmetry == Permutations({p1, p2})
=============================================================================
