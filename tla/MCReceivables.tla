---------------------------- MODULE MCReceivables ----------------------------
(***************************************************************************)
(* Small instances of Receivables: a title of three installments, one of   *)
(* them settled.                                                           *)
(***************************************************************************)
EXTENDS Receivables, TLC

MCOriginal == [i \in Parcels |-> 2]

Symmetry == Permutations(Transactions)
=============================================================================
