------------------------------ MODULE MCLedger ------------------------------
EXTENDS TransactionLedger, TLC

CONSTANTS c1, c2, p1, p2

Symmetry == Permutations({c1, c2}) \cup Permutations({p1, p2})
=============================================================================
