---------------------------- MODULE MCSystemTask ----------------------------
\* Small instances of SystemTask for TLC.
EXTENDS SystemTask, TLC

CONSTANTS n1, n2

MCSymmetry == Permutations({n1, n2})
=============================================================================
