---------------------------- MODULE BatchBalances ----------------------------
(***************************************************************************)
(* The maintenance of batch balances by hand,                               *)
(* src/modules/stock/stock-batch-balances/service.ts, next to the movements *)
(* of StockLedger.  create inserts a batch row; patch and delete first read *)
(* the row OUTSIDE their transaction and without a lock, and later move the *)
(* total of the product by what they read.  Patches that re-point a row to  *)
(* another batch or location are not modelled.                              *)
(***************************************************************************)
EXTENDS StockLedger

CONSTANTS
    NewQuantities,   \* the quantities create and patch may ask for
    MaxRewrites      \* bound: requests of this module per behaviour

ASSUME NewQuantitiesAssumption == NewQuantities \subseteq Nat

VARIABLES
    existing,   \* existing[t]: what getPlainById returned to patch or delete
    deletions,  \* deletions[s]: rows of slot s deleted so far; tells an old
                \* row id from the id of a row created later in its place
    stale       \* TRUE once a transaction wrote over a row it had misread

batchVars == << vars, existing, deletions, stale >>

NoRead == [slot |-> NoSlot, quantity |-> 0, generation |-> 0, to |-> NoRow]

BatchInit ==
    /\ Init
    /\ existing = [t \in Tx |-> NoRead]
    /\ deletions = [s \in Slots |-> 0]
    /\ stale = FALSE

\* A change of row r by this module, which records no movement.
Unrecorded(r, delta) ==
    Statement("adjust", r, delta, FALSE, [type |-> "OUTROS"])

Rewriting == {t \in Tx : asked[t] = << >> /\ pc[t] # "new"}
MayStart(t) == pc[t] = "new" /\ Cardinality(Rewriting) < MaxRewrites

\* create: INSERT the row, then add its quantity to the product.
CreateBalance(t) ==
    /\ MayStart(t)
    /\ \E s \in Slots, q \in NewQuantities :
        prog' = [prog EXCEPT ![t] = << Unrecorded(s, q),
                                       Unrecorded(ProductOf[s[1]], q) >>]
    /\ pc' = [pc EXCEPT ![t] = "insert"]
    /\ UNCHANGED << asked, done, val, lock, draft, sides, ledger,
                    existing, deletions, stale >>

\* patch and delete (to = NoRow): the read before the transaction.
ReadBalance(t) ==
    /\ MayStart(t)
    /\ \E s \in {x \in Slots : val[x] # NoRow}, to \in NewQuantities \cup {NoRow} :
        existing' = [existing EXCEPT ![t] =
            [slot |-> s, quantity |-> val[s], generation |-> deletions[s],
             to |-> to]]
    /\ pc' = [pc EXCEPT ![t] = "read"]
    /\ UNCHANGED << asked, done, prog, val, lock, draft, sides, ledger,
                    deletions, stale >>

Gone(read) ==
    val[read.slot] = NoRow \/ deletions[read.slot] # read.generation

\* Mutant: the product gets the new quantity instead of the difference.
ProductDeltaAbsolute(read) ==
    IF Amount(read.to) = 0 THEN << >>
    ELSE << Unrecorded(ProductOf[read.slot[1]], Amount(read.to)) >>

\* The statement that moves the product: newQty - oldQty, -oldQty on delete.
ProductDelta(read) ==
    LET delta == Amount(read.to) - read.quantity
    IN  IF delta = 0 THEN << >>
        ELSE << Unrecorded(ProductOf[read.slot[1]], delta) >>

\* UPDATE or DELETE of the row by its id.
RewriteBalance(t) ==
    /\ pc[t] = "read"
    /\ LET read == existing[t]
       IN  /\ MayLock(t, read.slot) /\ ~Gone(read)
           /\ lock' = [lock EXCEPT ![read.slot] = t]
           /\ draft' = [draft EXCEPT ![t][read.slot] = read.to]
           /\ prog' = [prog EXCEPT ![t] = ProductDelta(read)]
           /\ stale' = (stale \/ val[read.slot] # read.quantity)
    /\ pc' = [pc EXCEPT ![t] = "run"]
    /\ UNCHANGED << asked, done, val, sides, ledger, existing, deletions >>

\* The row is not there any more: STOCK_BATCH_BALANCE_NOT_FOUND.
RewriteMissing(t) ==
    /\ pc[t] = "read"
    /\ MayLock(t, existing[t].slot) /\ Gone(existing[t])
    /\ Abort(t)
    /\ UNCHANGED << existing, deletions, stale >>

\* The steps of StockLedger; a commit also makes the deletions visible.
LedgerStep(t) ==
    /\ Begin(t) \/ Step(t) \/ Disconnect(t)
    /\ deletions' = [s \in Slots |->
        IF val[s] # NoRow /\ val'[s] = NoRow THEN deletions[s] + 1
                                             ELSE deletions[s]]
    /\ UNCHANGED << existing, stale >>

BatchNext ==
    \E t \in Tx : \/ CreateBalance(t) \/ ReadBalance(t) \/ RewriteBalance(t)
                  \/ RewriteMissing(t) \/ LedgerStep(t)

BatchSpec == BatchInit /\ [][BatchNext]_batchVars

\* The server keeps running every open request; clients need not send one,
\* and a connection need not break.
BatchStep(t) ==
    RewriteBalance(t) \/ RewriteMissing(t) \/ (LedgerStep(t) /\ Step(t))
BatchFairSpec == BatchSpec /\ \A t \in Tx : WF_batchVars(BatchStep(t))

-----------------------------------------------------------------------------
\* The total of a batch product drifts from its batch rows only through a
\* patch or delete whose row changed between its read and its write: creates,
\* deletes and patches that read what they overwrite, and all movements, keep
\* the two equal however they interleave.
DriftNeedsStaleRead == stale \/ BatchRowsMatchTotal

\* Every request that started ends: a movement locks the product before its
\* batch row, a patch of a balance the row before the product, two transfers
\* their rows in opposite orders, and none keeps the others waiting.
EveryRequestEnds ==
    \A t \in Tx : pc[t] \in {"read", "run", "insert"} ~> pc[t] \in {"committed", "aborted"}
=============================================================================
