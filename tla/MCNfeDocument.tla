--------------------------- MODULE MCNfeDocument ---------------------------
EXTENDS NfeDocument, TLC
Symmetry == Permutations(Tx)
=============================================================================
