---------------------------- MODULE MCPurchases ----------------------------
EXTENDS Purchases, TLC
CONSTANTS n1, n2, p, q
Line(product, quantity, cost) == [product |-> product, quantity |-> quantity, cost |-> cost]
\* n1 and n2 share two products in different orders; n2 lists p twice.
MCLines == n1 :> << Line(p, 1, 2), Line(q, 1, 8) >>
        @@ n2 :> << Line(q, 1, 2), Line(p, 1, 4), Line(p, 2, 3) >>
Symmetry == Permutations(Tx)
=============================================================================
