----------------------------- MODULE MCSessions -----------------------------
EXTENDS Sessions, TLC
Symmetry == Permutations(Tx)
=============================================================================
