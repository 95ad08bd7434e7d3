--------------------------- MODULE MCBatchBalances ---------------------------
(***************************************************************************)
(* Small instances of BatchBalances: one batch product, two batches.        *)
(***************************************************************************)
EXTENDS BatchBalances, TLC

CONSTANTS batched, b1, b2, l1, l2

MCProductOf == [b \in {b1, b2} |-> batched]
MCStart == (batched :> 1) @@ (<< b1, l1 >> :> 1) @@ [s \in Slots |-> NoRow]

Move(type, from, to) ==
    [type |-> type, product |-> batched, quantity |-> 1, from |-> from,
     to |-> to, checked |-> type = "VENDA", recordOnly |-> FALSE]

MCRequests == { << Move("VENDA", << b1, l1 >>, NoSlot) >>,
                << Move("DEVOLUCAO", NoSlot, << b2, l2 >>) >>,
                << Move("TRANSFERENCIA", << b1, l1 >>, << b2, l2 >>) >>,
                << Move("TRANSFERENCIA", << b2, l2 >>, << b1, l1 >>) >> }

=============================================================================
