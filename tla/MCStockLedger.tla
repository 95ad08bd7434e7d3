---------------------------- MODULE MCStockLedger ----------------------------
(***************************************************************************)
(* A small instance of StockLedger.                                         *)
(***************************************************************************)
EXTENDS StockLedger, TLC

CONSTANTS plain, batched, b1, b2, l1, l2

MCProductOf == (b1 :> batched) @@ (b2 :> batched)

\* Two units of the plain product; the batch product has one unit of batch b1
\* at l1 and one of batch b2 at l2, and no other batch row.
MCStart ==
    [r \in {plain, batched} \cup ({b1, b2} \X {l1, l2}) |->
        CASE r \in {plain, batched} -> 2
          [] r \in {<< b1, l1 >>, << b2, l2 >>} -> 1
          [] OTHER -> NoRow]

Move(type, p, q, from, to) ==
    [type |-> type, product |-> p, quantity |-> q, from |-> from, to |-> to,
     checked |-> type = "VENDA", recordOnly |-> FALSE]

Sell(p, q, from) == Move("VENDA", p, q, from, NoSlot)
Service(p) == [Sell(p, 1, NoSlot) EXCEPT !.recordOnly = TRUE, !.checked = FALSE]

\* Sales of both products in both orders, purchases, transfers in both
\* directions, and movements that the code or the database refuses.
MCRequests == {
    << Sell(plain, 2, NoSlot), Sell(batched, 1, << b1, l1 >>) >>,
    << Sell(batched, 1, << b2, l2 >>), Sell(plain, 1, NoSlot) >>,
    << Move("COMPRA", batched, 1, NoSlot, << b1, l2 >>) >>,
    << Move("TRANSFERENCIA", batched, 1, << b1, l1 >>, << b2, l2 >>) >>,
    << Move("TRANSFERENCIA", batched, 1, << b2, l2 >>, << b1, l1 >>) >>,
    << Move("TRANSFERENCIA", batched, 1, << b1, l1 >>, << b1, l2 >>) >>,
    << Move("PERDA", plain, 1, NoSlot, NoSlot),
       Move("AJUSTE", plain, 1, NoSlot, NoSlot), Service(plain) >>,
    << Move("DEVOLUCAO", batched, 1, NoSlot, << b1, l2 >>),
       Move("CANCELAMENTO", batched, 1, NoSlot, NoSlot) >>,
    << Move("TRANSFERENCIA", plain, 1, NoSlot, NoSlot) >> }

Symmetry == Permutations(Tx)
=============================================================================
