----------------------------- MODULE MCWorkOrder -----------------------------
(***************************************************************************)
(* Small instances of WorkOrder: an order or budget of two lines, without   *)
(* or with services, and a first document that has two thirds of one line.  *)
(***************************************************************************)
EXTENDS WorkOrder, TLC

CONSTANTS i1, i2

MCQuantity == (i1 :> 3) @@ (i2 :> 1)
MCFirstSold == (i1 :> 2) @@ (i2 :> 0)
MCAsks == {(i1 :> 1) @@ (i2 :> 0), (i1 :> 0) @@ (i2 :> 1), (i1 :> 1) @@ (i2 :> 1)}

MCStarts ==
    {[type |-> "ORDEM DE SERVICO", services |-> {}],
     [type |-> "ORCAMENTO", services |-> {}],
     [type |-> "ORCAMENTO", services |-> {i2}]}

Symmetry == Permutations(Transactions)
=============================================================================
