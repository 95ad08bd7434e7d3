----------------------------- MODULE StockLedger -----------------------------
(***************************************************************************)
(* Stock balances and the stock movement ledger, under concurrency.        *)
(*                                                                         *)
(* Models src/modules/stock/balance.ts and src/modules/stock/movement.ts   *)
(* as the callers use them: one HTTP request opens one database            *)
(* transaction, registers one or more movements in it and commits.         *)
(*                                                                         *)
(* A balance is a ROW: productsEnterprises.stockBalance for a product, or   *)
(* stockBatchBalances.quantity for a (batch, location) pair.  PostgreSQL    *)
(* runs at READ COMMITTED: a statement sees committed rows and its own      *)
(* transaction's writes, SELECT ... FOR UPDATE takes a row lock that is     *)
(* held to the end of the transaction, and a transaction's writes reach     *)
(* the other transactions at its commit.                                    *)
(***************************************************************************)
EXTENDS Integers, Sequences, FiniteSetsExt

CONSTANTS
    Tx,             \* the transactions, one per request
    PlainProducts,  \* products whose controlsBatch is false
    BatchProducts,  \* products whose controlsBatch is true
    Batches,        \* stock_batches
    Locations,      \* locations
    ProductOf,      \* the product of each batch
    Start,          \* the balances before the first request
    Requests,       \* what a request may ask: a sequence of movements
    NoRow,          \* a batch balance that has no row
    NoSlot,         \* a movement side without batch and location
    NoTx,           \* nobody holds the lock
    Clean           \* a row the transaction has not locked

Products == PlainProducts \cup BatchProducts
Slots == Batches \X Locations
Rows == Products \cup Slots

\* The rows whose balance a movement records before and after.  The product
\* row of a batch product moves with its batch rows and is not recorded.
Recorded == PlainProducts \cup Slots

Quantity == Nat \cup {NoRow}
Amount(q) == IF q = NoRow THEN 0 ELSE q

MovementTypes == {"ENTRADA", "SAIDA", "TRANSFERENCIA", "AJUSTE", "PERDA",
                  "VENDA", "COMPRA", "DEVOLUCAO", "CANCELAMENTO", "OUTROS"}
DecreaseTypes == {"SAIDA", "PERDA", "VENDA", "TRANSFERENCIA"}
IncreaseTypes == {"ENTRADA", "COMPRA", "DEVOLUCAO", "TRANSFERENCIA", "AJUSTE"}

\* `checked' says that the caller ran assertSufficientStock first (the sale
\* path); `recordOnly' is the service product of createStockMovementInTx.
Movements ==
    [type : MovementTypes, product : Products, quantity : Nat \ {0},
     from : Slots \cup {NoSlot}, to : Slots \cup {NoSlot},
     checked : BOOLEAN, recordOnly : BOOLEAN]

\* What validation lets through: assertMovementLocations and the refusals of
\* adjustStockBalance.  Locations of products without batches move no balance
\* and are left out, except that a transfer needs two of them.
BelongsTo(slot, p) == slot \in Slots /\ ProductOf[slot[1]] = p
Valid(m) ==
    \/ m.recordOnly
    \/ /\ m.product \in BatchProducts
       /\ m.type \in DecreaseTypes => BelongsTo(m.from, m.product)
       /\ m.type \in IncreaseTypes => BelongsTo(m.to, m.product)
       /\ m.type = "TRANSFERENCIA" => m.from[2] # m.to[2]
    \/ m.product \in PlainProducts /\ m.from = NoSlot /\ m.to = NoSlot

ASSUME ConstantsAssumption ==
    /\ PlainProducts \cap BatchProducts = {}
    /\ Products \cap Slots = {}
    /\ IsFiniteSet(Batches) /\ IsFiniteSet(Locations)
    /\ ProductOf \in [Batches -> BatchProducts]
    /\ NoRow \notin Nat /\ NoSlot \notin Slots /\ NoTx \notin Tx
    /\ Clean \notin Quantity
    /\ Start \in [Rows -> Quantity]
    /\ \A p \in Products : Start[p] # NoRow
    /\ Requests \subseteq Seq({m \in Movements : Valid(m)})

\* The total kept for a batch product is the sum of its batch rows.
SlotsOf(p) == {s \in Slots : ProductOf[s[1]] = p}
InBatches(balance, p) ==
    SumFunctionOnSet([s \in Slots |-> Amount(balance[s])], SlotsOf(p))
TotalsMatch(balance) == \A p \in BatchProducts : balance[p] = InBatches(balance, p)

ASSUME StartAssumption == TotalsMatch(Start)

-----------------------------------------------------------------------------
(***************************************************************************)
(* The statements of a request.  Each one locks `row'.  "assert" refuses   *)
(* the request when the balance is below -delta; "adjust" adds delta, and   *)
(* records the balance before and after when `logged'; "reject" is the      *)
(* INSERT of a movement the table's CHECK constraints refuse.               *)
(***************************************************************************)
Statements == [op : {"assert", "adjust", "reject"}, row : Rows, delta : Int,
               logged : BOOLEAN, type : MovementTypes]

Statement(op, row, delta, logged, m) ==
    [op |-> op, row |-> row, delta |-> delta, logged |-> logged,
     type |-> m.type]

\* Mutant: skips the total for every movement of a batch product.
SkipProductBalanceOfBatches(m) == m.product \in BatchProducts

\* A transfer between batches leaves the total of the product alone.
SkipProductBalance(m) ==
    m.type = "TRANSFERENCIA" /\ m.product \in BatchProducts

\* adjustStockBalance: the batch row first, then the product row.
Adjust(m, slot, delta) ==
    IF m.product \in PlainProducts
    THEN << Statement("adjust", m.product, delta, TRUE, m) >>
    ELSE IF SkipProductBalance(m)
    THEN << Statement("adjust", slot, delta, TRUE, m) >>
    ELSE << Statement("adjust", slot, delta, TRUE, m),
            Statement("adjust", m.product, delta, FALSE, m) >>

\* The CHECKs stock_movements_transfer_requires_batches and
\* stock_movements_transfer_requires_locations_and_batches.
TransferAccepted(m) == m.from # NoSlot /\ m.to # NoSlot /\ m.from[1] # m.to[1]

\* createStockMovementInTx, preceded by assertSufficientStock on a sale.
StatementsOf(m) ==
    LET only == << Statement("adjust", m.product, 0,
                             /\ m.product \in PlainProducts
                             /\ m.type \in DecreaseTypes \cup IncreaseTypes,
                             m) >>
        transferred == m.type = "TRANSFERENCIA"
        check == IF m.checked
                 THEN << Statement("assert", m.product, -m.quantity, FALSE, m) >>
                 ELSE << >>
        moved == (IF m.type \in DecreaseTypes
                  THEN Adjust(m, m.from, -m.quantity) ELSE << >>)
              \o (IF m.type \in IncreaseTypes
                  THEN Adjust(m, m.to, m.quantity) ELSE << >>)
        refused == IF transferred /\ ~TransferAccepted(m)
                   THEN << Statement("reject", m.product, 0, FALSE, m) >>
                   ELSE << >>
    IN  IF m.recordOnly THEN only
        ELSE IF transferred /\ m.product \in PlainProducts
        THEN only \o refused
        ELSE check \o moved \o refused

-----------------------------------------------------------------------------
VARIABLES
    pc,       \* pc[t]: "new", "run", "insert", "committed" or "aborted"
    asked,    \* asked[t]: the movements transaction t registers
    done,     \* done[t]: how many of them it has started
    prog,     \* prog[t]: the statements left of the current movement
    val,      \* val[r]: the committed balance of row r
    lock,     \* lock[r]: the transaction that holds the lock of row r
    draft,    \* draft[t][r]: the balance t gave to the row it has locked
    sides,    \* sides[t][r]: what t recorded for row r in stock_movements
    ledger    \* ledger[r]: what committed transactions recorded for row r

vars == << pc, asked, done, prog, val, lock, draft, sides, ledger >>

\* One side of a stock_movements row: its type and the quantities before and
\* after (fromQuantityBefore/After or toQuantityBefore/After).
Entries == [type : MovementTypes, before : Nat, after : Nat]

Init ==
    /\ pc = [t \in Tx |-> "new"]
    /\ asked = [t \in Tx |-> << >>]
    /\ done = [t \in Tx |-> 0]
    /\ prog = [t \in Tx |-> << >>]
    /\ val = Start
    /\ lock = [r \in Rows |-> NoTx]
    /\ draft = [t \in Tx |-> [r \in Rows |-> Clean]]
    /\ sides = [t \in Tx |-> [r \in Rows |-> << >>]]
    /\ ledger = [r \in Rows |-> << >>]

-----------------------------------------------------------------------------
\* READ COMMITTED: the transaction's own write, else the committed row.
Visible(t, r) == IF draft[t][r] # Clean THEN draft[t][r] ELSE val[r]

\* Mutant: the balance is read without FOR UPDATE.
MayLockWithoutForUpdate(t, r) == TRUE

\* SELECT ... FOR UPDATE, UPDATE and INSERT wait for the holder of the lock.
MayLock(t, r) == lock[r] \in {t, NoTx}

\* Mutant: the balance is not compared with the quantity taken.
SufficientUnchecked(before, delta) == TRUE

\* assertSufficientStock, and the refusal of a negative result.
Sufficient(before, delta) == before + delta >= 0

Running(t) == pc[t] \in {"run", "insert"}
Current(t) == Head(prog[t])

\* The balance written by the statement at the head of prog[t].
After(t, before) ==
    IF Current(t).op = "assert" THEN before ELSE before + Current(t).delta

\* The transaction locks row r, gives it the balance of its statement,
\* records both balances and goes on to the next statement.
Write(t, r, before) ==
    LET s == Current(t)
        entry == [type |-> s.type, before |-> before, after |-> After(t, before)]
    IN  /\ lock' = [lock EXCEPT ![r] = t]
        /\ draft' = [draft EXCEPT ![t][r] = After(t, before)]
        /\ sides' = IF s.logged
                    THEN [sides EXCEPT ![t][r] = Append(@, entry)]
                    ELSE sides
        /\ prog' = [prog EXCEPT ![t] = Tail(@)]
        /\ pc' = [pc EXCEPT ![t] = "run"]
        /\ UNCHANGED << asked, done, val, ledger >>

\* Mutant: the refusal leaves the earlier writes of the request in place.
AbortWithoutRollback(t) ==
    /\ pc' = [pc EXCEPT ![t] = "aborted"]
    /\ val' = [r \in Rows |-> Visible(t, r)]
    /\ ledger' = [r \in Rows |-> ledger[r] \o sides[t][r]]
    /\ lock' = [r \in Rows |-> IF lock[r] = t THEN NoTx ELSE lock[r]]
    /\ draft' = [draft EXCEPT ![t] = [r \in Rows |-> Clean]]
    /\ sides' = [sides EXCEPT ![t] = [r \in Rows |-> << >>]]
    /\ prog' = [prog EXCEPT ![t] = << >>]
    /\ UNCHANGED << asked, done >>

\* ROLLBACK: the writes are dropped and the locks released.
Abort(t) ==
    /\ pc' = [pc EXCEPT ![t] = "aborted"]
    /\ lock' = [r \in Rows |-> IF lock[r] = t THEN NoTx ELSE lock[r]]
    /\ draft' = [draft EXCEPT ![t] = [r \in Rows |-> Clean]]
    /\ sides' = [sides EXCEPT ![t] = [r \in Rows |-> << >>]]
    /\ prog' = [prog EXCEPT ![t] = << >>]
    /\ UNCHANGED << asked, done, val, ledger >>

-----------------------------------------------------------------------------
(***************************************************************************)
(* The steps of a request.                                                  *)
(***************************************************************************)

\* A request arrives and opens its transaction.
Begin(t) ==
    /\ pc[t] = "new"
    /\ \E request \in Requests : asked' = [asked EXCEPT ![t] = request]
    /\ pc' = [pc EXCEPT ![t] = "run"]
    /\ UNCHANGED << done, prog, val, lock, draft, sides, ledger >>

\* createStockMovementInTx is called for the next movement of the request.
StartMovement(t) ==
    /\ pc[t] = "run" /\ prog[t] = << >> /\ done[t] < Len(asked[t])
    /\ done' = [done EXCEPT ![t] = @ + 1]
    /\ prog' = [prog EXCEPT ![t] = StatementsOf(asked[t][done[t] + 1])]
    /\ UNCHANGED << pc, asked, val, lock, draft, sides, ledger >>

AtStatement(t, ops) ==
    pc[t] = "run" /\ prog[t] # << >> /\ Current(t).op \in ops

\* assertSufficientStock and the update branch of applyProductStockBalanceDelta
\* and applyDeltaToLockedBalance: lock the row, read it, write the new balance.
LockAndAdjust(t) ==
    /\ AtStatement(t, {"assert", "adjust"})
    /\ LET s == Current(t)
           before == Visible(t, s.row)
       IN  /\ before # NoRow
           /\ MayLock(t, s.row)
           /\ Sufficient(before, s.delta)
           /\ Write(t, s.row, before)

\* "Saldo insuficiente": the locked balance is too small, or there is no
\* batch row to take from.
RefuseInsufficient(t) ==
    /\ AtStatement(t, {"assert", "adjust"})
    /\ LET s == Current(t)
           before == Visible(t, s.row)
       IN  /\ before # NoRow => MayLock(t, s.row)
           /\ ~Sufficient(Amount(before), s.delta)
    /\ Abort(t)

\* lockStockBatchBalanceRow finds no row: an increase goes on to INSERT it.
MissBatchRow(t) ==
    /\ AtStatement(t, {"adjust"})
    /\ Visible(t, Current(t).row) = NoRow
    /\ Current(t).delta > 0
    /\ pc' = [pc EXCEPT ![t] = "insert"]
    /\ UNCHANGED << asked, done, prog, val, lock, draft, sides, ledger >>

InsertBatchRow(t) ==
    /\ pc[t] = "insert"
    /\ MayLock(t, Current(t).row)
    /\ Visible(t, Current(t).row) = NoRow
    /\ Write(t, Current(t).row, 0)

\* Mutant: the INSERT is tried again and again.
InsertConflictRetried(t) ==
    /\ pc[t] = "insert"
    /\ MayLock(t, Current(t).row)
    /\ Visible(t, Current(t).row) # NoRow
    /\ UNCHANGED vars

\* Another transaction inserted the row meanwhile.  The unique violation
\* aborts the transaction, so the retryLoad of applyDeltaToLockedBalance
\* fails too and the request ends with the error.
InsertConflict(t) ==
    /\ pc[t] = "insert"
    /\ MayLock(t, Current(t).row)
    /\ Visible(t, Current(t).row) # NoRow
    /\ Abort(t)

\* The INSERT of the movement violates a CHECK of stock_movements.
RejectMovement(t) ==
    /\ AtStatement(t, {"reject"})
    /\ Abort(t)

Commit(t) ==
    /\ pc[t] = "run" /\ prog[t] = << >> /\ done[t] = Len(asked[t])
    /\ pc' = [pc EXCEPT ![t] = "committed"]
    /\ val' = [r \in Rows |-> Visible(t, r)]
    /\ ledger' = [r \in Rows |-> ledger[r] \o sides[t][r]]
    /\ lock' = [r \in Rows |-> IF lock[r] = t THEN NoTx ELSE lock[r]]
    /\ draft' = [draft EXCEPT ![t] = [r \in Rows |-> Clean]]
    /\ sides' = [sides EXCEPT ![t] = [r \in Rows |-> << >>]]
    /\ UNCHANGED << asked, done, prog >>

\* PostgreSQL aborts one transaction of a set in which each waits for another.
WaitsFor(t, u) ==
    /\ Running(t) /\ prog[t] # << >> /\ Current(t).op # "reject" /\ t # u
    /\ lock[Current(t).row] = u
    /\ pc[t] = "insert" \/ Visible(t, Current(t).row) # NoRow

DeadlockVictim(t) ==
    /\ \E S \in SUBSET Tx : /\ t \in S
                            /\ \A u \in S : \E v \in S : WaitsFor(u, v)
    /\ Abort(t)

\* The process dies or loses its connection: the server rolls back.
Disconnect(t) == Running(t) /\ Abort(t)

Step(t) ==
    \/ StartMovement(t) \/ LockAndAdjust(t) \/ RefuseInsufficient(t)
    \/ MissBatchRow(t) \/ InsertBatchRow(t) \/ InsertConflict(t)
    \/ RejectMovement(t) \/ Commit(t) \/ DeadlockVictim(t)

Next == \E t \in Tx : Begin(t) \/ Step(t) \/ Disconnect(t)

Spec == Init /\ [][Next]_vars

-----------------------------------------------------------------------------
TypeOK ==
    /\ pc \in [Tx -> {"new", "run", "insert", "committed", "aborted"}]
    /\ asked \in [Tx -> Seq({m \in Movements : Valid(m)})]
    /\ done \in [Tx -> Nat]
    /\ prog \in [Tx -> Seq(Statements)]
    /\ val \in [Rows -> Quantity]
    /\ lock \in [Rows -> Tx \cup {NoTx}]
    /\ draft \in [Tx -> [Rows -> Nat \cup {Clean}]]
    /\ sides \in [Tx -> [Rows -> Seq(Entries)]]
    /\ ledger \in [Rows -> Seq(Entries)]

\* The entries s lead from balance a to balance b, each starting where the
\* one before it ended.
Linked(s, a, b) ==
    IF s = << >> THEN a = b
    ELSE /\ s[1].before = a
         /\ s[Len(s)].after = b
         /\ \A i \in 1 .. Len(s) - 1 : s[i].after = s[i + 1].before

\* The movements of a row are a complete account of its balance: read in
\* commit order, each one starts from the balance the one before it left, and
\* the last one ends at the balance of the row.  No concurrent movement is
\* lost and none is recorded that did not take effect.
LedgerAccountsForBalance ==
    \A r \in Recorded : Linked(ledger[r], Amount(Start[r]), Amount(val[r]))

\* The total kept for a batch product is the sum of its batch rows ("Com lote,
\* stock_batch_balances deve bater com este total", balance.ts:303).
BatchRowsMatchTotal == TotalsMatch(val)

-----------------------------------------------------------------------------
(***************************************************************************)
(* Requests take effect whole and one after the other: StockAccount.        *)
(***************************************************************************)

\* The statements of the first n movements of a request, and of all.
FirstStatements(request) ==
    LET first[n \in 0 .. Len(request)] ==
            IF n = 0 THEN << >> ELSE first[n - 1] \o StatementsOf(request[n])
    IN  first
RequestStatements(request) == FirstStatements(request)[Len(request)]

Outcome == [t \in Tx |-> IF Running(t) THEN "open" ELSE pc[t]]

Account == INSTANCE StockAccount WITH
    Requests <- {RequestStatements(request) : request \in Requests},
    outcome <- Outcome, request <- [t \in Tx |-> RequestStatements(asked[t])],
    balance <- val, account <- ledger

\* Requests take effect whole and one after the other, in the order in which
\* they commit, each on the balances of that instant: the stock module
\* implements StockAccount.
AppliedWholeAndInOrder == Account!Spec
=============================================================================
