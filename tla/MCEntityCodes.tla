---------------------------- MODULE MCEntityCodes ---------------------------
EXTENDS EntityCodes, TLC
Symmetry == Permutations(Tx)
=============================================================================
