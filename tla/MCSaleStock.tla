----------------------------- MODULE MCSaleStock -----------------------------
(***************************************************************************)
(* Small instances of SaleStock: a sale with one or two lines.              *)
(***************************************************************************)
EXTENDS SaleStock, TLC

CONSTANTS p1, p2

\* The lines the sale starts with are of p1, the others of p2.
MCProductOf == [i \in Lines |-> IF i \in Launched THEN p1 ELSE p2]

Symmetry == Permutations(Tx)
=============================================================================
