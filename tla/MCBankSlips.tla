---------------------------- MODULE MCBankSlips ----------------------------
EXTENDS BankSlips, TLC
Symmetry == Permutations(Tx) \cup Permutations(Sales)
=============================================================================
