------------------------------ MODULE SaleStock ------------------------------
(***************************************************************************)
(* One sale (or work order) that moves stock: its lines, its status, its    *)
(* total, its payments and the stock movements its lines leave behind.      *)
(*                                                                         *)
(* Models src/modules/sales/sale-stock.ts, the item operations of           *)
(* sales-service-items.ts, patch of sales-service-core.ts and cancelOs of   *)
(* sales-service-conversions.ts.  A movement is identified by its document  *)
(* reference, which is looked up before it is inserted; no constraint of    *)
(* the database keeps it unique.  One step is one statement, or several     *)
(* between which no other transaction can be told apart.  What a movement   *)
(* does to the balance is the subject of StockLedger; here the row of the   *)
(* product is only a lock, and a refusal for want of stock is Abort.        *)
(***************************************************************************)
EXTENDS Integers, FiniteSetsExt

CONSTANTS
    Tx,          \* the transactions, one per request
    Launched,    \* the lines the sale starts with, already out of stock
    Products,
    ProductOf,   \* the product of each line
    Quantities,  \* the quantities a request may ask for
    StartQuantity,
    Kinds,       \* the requests that may arrive
    Sale,        \* the row of the sale, as a lock
    Absent,      \* a line that does not exist
    Unwritten,   \* a column the transaction has not written
    NoTx

\* A request that adds a line creates a new id: the request itself names it.
Lines == Launched \cup Tx
LockRows == Products \cup Lines \cup {Sale}
Statuses == {"ABERTA", "FINALIZADA", "CANCELADA"}

ASSUME SaleAssumption ==
    /\ Launched \cap Tx = {} /\ IsFiniteSet(Launched) /\ Sale \notin Lines \cup Products
    /\ Products \cap Lines = {} /\ NoTx \notin Tx
    /\ ProductOf \in [Lines -> Products]
    /\ Quantities \subseteq Nat \ {0} /\ StartQuantity \in Nat \ {0}
    /\ Absent \notin Nat /\ Unwritten \notin Nat \cup {Absent} \cup Statuses
    /\ Kinds \subseteq {"add", "update", "remove", "recalculate", "finalize",
                        "cancel", "cancelOs"}

\* The document references of a line (sale-stock-refs.ts): the exit and its
\* return, and the exit and return of each revision.
References == {"OUT", "RETURN", "REV-OUT", "REV-RETURN"}
Exits == {"OUT", "REV-OUT"}
Movement(line, ref, revision, quantity, t) ==
    [line |-> line, ref |-> ref, revision |-> revision,
     quantity |-> quantity, by |-> t]
Movements == [line : Lines, ref : References, revision : Nat,
              quantity : Nat \ {0}, by : Tx \cup {NoTx}]

VARIABLES
    sale,     \* the committed row: its status, total and payments
    line,     \* line[i]: the committed quantity of line i, or Absent
    moves,    \* the committed stock movements of the sale
    lock,     \* lock[r]: the transaction that holds row r
    pc,       \* where each transaction is
    my,       \* my[t]: the request of t, what it read and what it wrote
    overlap   \* a transaction committed while another one was under way

vars == << sale, line, moves, lock, pc, my, overlap >>

Present(q) == {i \in Lines : q[i] # Absent}
TotalOf(q) == SumFunctionOnSet(q, Present(q))

\* A request: what it asks (kind, line, quantity), what it read (seen, todo,
\* at, last, total) and what it wrote (the others).
Idle == [kind |-> "none", line |-> Sale, quantity |-> 0,
         seen |-> 0, todo |-> {}, at |-> << >>, last |-> 0, total |-> 0,
         moves |-> {}, newLine |-> Unwritten, status |-> Unwritten,
         newTotal |-> Unwritten, payments |-> {}]

StartLines == [i \in Lines |-> IF i \in Launched THEN StartQuantity ELSE Absent]

Init ==
    /\ line = StartLines
    /\ sale = [status |-> "ABERTA", total |-> TotalOf(StartLines), payments |-> {}]
    /\ moves = {Movement(i, "OUT", 0, StartQuantity, NoTx) : i \in Launched}
    /\ lock = [r \in LockRows |-> NoTx]
    /\ pc = [t \in Tx |-> "new"]
    /\ my = [t \in Tx |-> Idle]
    /\ overlap = FALSE

-----------------------------------------------------------------------------
\* READ COMMITTED, as in StockLedger.
MayLock(t, r) == lock[r] \in {t, NoTx}
Visible(t) == moves \cup my[t].moves

Recorded(t, i, ref, revision) ==
    \E m \in Visible(t) : m.line = i /\ m.ref = ref /\ m.revision = revision

LinesSeen(t) ==
    [i \in Lines |-> IF i = my[t].line /\ my[t].newLine # Unwritten
                     THEN my[t].newLine ELSE line[i]]

At(t, label) == pc[t] = label
Go(t, label) == pc' = [pc EXCEPT ![t] = label]
Keep(t, field, value) == my' = [my EXCEPT ![t][field] = value]

\* What is not committed stays as it is.
Pending == UNCHANGED << sale, line, moves, overlap >>

\* SELECT ... FOR UPDATE of the product, then the INSERT of the movement.
InsertMovement(t, i, ref, revision, quantity) ==
    /\ MayLock(t, ProductOf[i])
    /\ lock' = [lock EXCEPT ![ProductOf[i]] = t]
    /\ Keep(t, "moves",
            my[t].moves \cup {Movement(i, ref, revision, quantity, t)})
    /\ Pending

-----------------------------------------------------------------------------
(***************************************************************************)
(* The request reads the sale, without a lock, and goes on when it is open. *)
(* patch reads it even before its transaction.                              *)
(***************************************************************************)
FirstStep(kind) ==
    CASE kind = "add" -> "available"
      [] kind \in {"update", "remove"} -> "item"
      [] kind \in {"finalize", "cancel", "recalculate"} -> "header"
      [] kind = "cancelOs" -> "lines"

Open(t) ==
    /\ At(t, "new") /\ sale.status = "ABERTA"
    /\ \E kind \in Kinds, i \in Lines, q \in Quantities :
        /\ kind = "add" => i = t
        /\ kind \in {"update", "remove"} => line[i] # Absent
        /\ kind \notin {"add", "update", "remove"} => i = t
        /\ kind \notin {"add", "update"} => q = StartQuantity
        /\ my' = [my EXCEPT ![t] =
                    [Idle EXCEPT !.kind = kind, !.line = i, !.quantity = q]]
        /\ Go(t, FirstStep(kind))
    /\ Pending /\ UNCHANGED lock

\* The line as updateItem and removeItem find it; an update that changes no
\* stock field moves no stock (saleItemStockFieldsChanged).
ReadItem(t) ==
    /\ At(t, "item") /\ line[my[t].line] # Absent
    /\ LET q == line[my[t].line]
           same == my[t].kind = "update" /\ my[t].quantity = q
       IN  /\ my' = [my EXCEPT ![t].seen = q,
                               ![t].todo = {<< my[t].line, q >>}]
           /\ Go(t, IF same THEN "line" ELSE "refs")
    /\ Pending /\ UNCHANGED lock

\* The lines as finalize and cancel find them.
ReadLines(t) ==
    /\ At(t, "lines")
    /\ Keep(t, "todo",
            {<< i, LinesSeen(t)[i] >> : i \in Present(line)})
    /\ Go(t, IF my[t].kind = "finalize" THEN "exits" ELSE "refs")
    /\ Pending /\ UNCHANGED lock

-----------------------------------------------------------------------------
(***************************************************************************)
(* applySaleItemStockReturn for each line of `todo'.                        *)
(***************************************************************************)

\* Mutant: an exit is returned even when it was returned before.
MustReturnAgain(t, i) == Recorded(t, i, "OUT", 0)

\* The references are looked up: an exit without return must be returned.
MustReturn(t, i) == Recorded(t, i, "OUT", 0) /\ ~Recorded(t, i, "RETURN", 0)

LookUpReturn(t) ==
    /\ At(t, "refs")
    /\ \E e \in my[t].todo :
        /\ my' = [my EXCEPT ![t].todo = @ \ {e}, ![t].at = e]
        /\ IF MustReturn(t, e[1]) THEN Go(t, "return") ELSE UNCHANGED pc
    /\ Pending /\ UNCHANGED lock

InsertReturn(t) ==
    /\ At(t, "return")
    /\ InsertMovement(t, my[t].at[1], "RETURN", 0, my[t].at[2])
    /\ Go(t, "refs")

AfterReturns(kind) ==
    CASE kind = "remove" -> "line"
      [] kind = "update" -> "revision"
      [] kind = "cancel" -> "commit"
      [] kind = "cancelOs" -> "header"

FinishReturns(t) ==
    /\ At(t, "refs") /\ my[t].todo = {}
    /\ Go(t, AfterReturns(my[t].kind))
    /\ Pending /\ UNCHANGED << lock, my >>

-----------------------------------------------------------------------------
(***************************************************************************)
(* The revisions of a line: the rest of syncSaleItemStockOnUpdate.          *)
(***************************************************************************)

\* getLastSaleItemStockRevision; 0 when the line has no revision.
LastRevision(t) ==
    Max({0} \cup {m.revision : m \in {x \in Visible(t) : /\ x.line = my[t].line
                                                          /\ x.ref = "REV-OUT"}})

ReadRevision(t) ==
    /\ At(t, "revision")
    /\ Keep(t, "last", LastRevision(t))
    /\ Go(t, "revision-ref")
    /\ Pending /\ UNCHANGED lock

\* applySaleItemStockRevisionReturn looks the last revision up.
LookUpRevision(t) ==
    /\ At(t, "revision-ref")
    /\ LET n == my[t].last
       IN  Go(t, IF n > 0 /\ ~Recorded(t, my[t].line, "REV-RETURN", n)
                 THEN "revision-return" ELSE "available")
    /\ Pending /\ UNCHANGED << lock, my >>

\* The quantity returned is the one the line had when the request read it.
InsertRevisionReturn(t) ==
    /\ At(t, "revision-return")
    /\ InsertMovement(t, my[t].line, "REV-RETURN", my[t].last, my[t].seen)
    /\ Go(t, "available")

\* assertSaleItemStockAvailable locks the product.
LockAvailable(t) ==
    /\ At(t, "available")
    /\ MayLock(t, ProductOf[my[t].line])
    /\ lock' = [lock EXCEPT ![ProductOf[my[t].line]] = t]
    /\ Go(t, IF my[t].kind = "add" THEN "launch" ELSE "revise")
    /\ Pending /\ UNCHANGED my

\* Mutant: the reference of the revision is not looked up.
RevisionTakenUnchecked(t, n) == FALSE

RevisionTaken(t, n) == Recorded(t, my[t].line, "REV-OUT", n)

Revise(t) ==
    /\ At(t, "revise") /\ ~RevisionTaken(t, my[t].last + 1)
    /\ InsertMovement(t, my[t].line, "REV-OUT", my[t].last + 1, my[t].quantity)
    /\ Go(t, "line")

ReviseAlreadyDone(t) ==
    /\ At(t, "revise") /\ RevisionTaken(t, my[t].last + 1)
    /\ Go(t, "line")
    /\ Pending /\ UNCHANGED << lock, my >>

-----------------------------------------------------------------------------
(***************************************************************************)
(* The writes to the line and to the sale.                                  *)
(***************************************************************************)

\* addItem: INSERT of the line and applySaleItemStockOut.
LaunchLine(t) ==
    /\ At(t, "launch")
    /\ my' = [my EXCEPT
        ![t].newLine = my[t].quantity,
        ![t].moves = @ \cup {Movement(t, "OUT", 0, my[t].quantity, t)}]
    /\ Go(t, "sum")
    /\ Pending /\ UNCHANGED lock

\* UPDATE or DELETE of the line; when another transaction deleted it, the
\* statement finds no row and the request goes on.
WriteLine(t) ==
    /\ At(t, "line") /\ MayLock(t, my[t].line)
    /\ lock' = [lock EXCEPT ![my[t].line] = t]
    /\ Keep(t, "newLine",
            IF line[my[t].line] = Absent THEN Unwritten
            ELSE IF my[t].kind = "remove" THEN Absent ELSE my[t].quantity)
    /\ Go(t, "sum")
    /\ Pending

\* recalculateSaleTotalsFromItems: SELECT the lines, then UPDATE the sale.
SummedLines(t) == LinesSeen(t)

SumLines(t) ==
    /\ At(t, "sum")
    /\ Keep(t, "total", TotalOf(SummedLines(t)))
    /\ Go(t, "total")
    /\ Pending /\ UNCHANGED lock

WriteTotal(t) ==
    /\ At(t, "total") /\ MayLock(t, Sale)
    /\ lock' = [lock EXCEPT ![Sale] = t]
    /\ Keep(t, "newTotal", my[t].total)
    /\ Go(t, "commit")
    /\ Pending

NewStatus(kind) ==
    CASE kind = "finalize" -> "FINALIZADA"
      [] kind \in {"cancel", "cancelOs"} -> "CANCELADA"
      [] kind = "recalculate" -> Unwritten

AfterHeader(t) ==
    CASE my[t].kind = "recalculate" ->
            IF sale.status = "ABERTA" THEN "sum" ELSE "commit"
      [] my[t].kind = "cancelOs" -> "commit"
      [] OTHER -> "lines"

\* patch: UPDATE of the sale; the status the request read before is not
\* part of its WHERE.
WriteHeader(t) ==
    /\ At(t, "header") /\ MayLock(t, Sale)
    /\ lock' = [lock EXCEPT ![Sale] = t]
    /\ my' = [my EXCEPT ![t].status = NewStatus(my[t].kind),
                        ![t].total = sale.total]
    /\ Go(t, AfterHeader(t))
    /\ Pending

\* applySaleItemStockOut for the lines without exit, on finalizing.
InsertExits(t) ==
    /\ At(t, "exits")
    /\ LET missing == {e \in my[t].todo : ~Recorded(t, e[1], "OUT", 0)}
           products == {ProductOf[e[1]] : e \in missing}
       IN  /\ \A p \in products : MayLock(t, p)
           /\ lock' = [r \in LockRows |-> IF r \in products THEN t ELSE lock[r]]
           /\ Keep(t, "moves", my[t].moves \cup
                {Movement(e[1], "OUT", 0, e[2], t) : e \in missing})
    /\ Go(t, "pay")
    /\ Pending

\* Mutant: the payments are inserted whatever the sale has.
HasNoPaymentsUnchecked == TRUE

\* assertSaleHasNoPayments.
HasNoPayments == sale.payments = {}

\* insertSalePayments: they add up to the total the UPDATE returned.
Pay(t) ==
    /\ At(t, "pay") /\ HasNoPayments
    /\ Keep(t, "payments", {[by |-> t, value |-> my[t].total]})
    /\ Go(t, "commit")
    /\ Pending /\ UNCHANGED lock

-----------------------------------------------------------------------------
\* Mutant: the UPDATE also sets the columns the request leaves out.
WrittenAlways(new, old) == new

\* The UPDATE sets the columns the request asks for and no others.
Written(new, old) == IF new = Unwritten THEN old ELSE new
Freed(t) == [r \in LockRows |-> IF lock[r] = t THEN NoTx ELSE lock[r]]
UnderWay(t) == pc[t] \notin {"new", "done"}

Commit(t) ==
    /\ At(t, "commit")
    /\ sale' = [status |-> Written(my[t].status, sale.status),
                total |-> Written(my[t].newTotal, sale.total),
                payments |-> sale.payments \cup my[t].payments]
    /\ line' = LinesSeen(t)
    /\ moves' = Visible(t)
    /\ lock' = Freed(t)
    /\ my' = [my EXCEPT ![t] = Idle]
    /\ Go(t, "done")
    /\ overlap' = (overlap \/ \E u \in Tx \ {t} : UnderWay(u))

\* The request fails: a refusal (no stock, line gone, payments there), a
\* deadlock, a lost connection.  The transaction is rolled back.
Abort(t) ==
    /\ UnderWay(t)
    /\ lock' = Freed(t)
    /\ my' = [my EXCEPT ![t] = Idle]
    /\ Go(t, "done")
    /\ UNCHANGED << sale, line, moves, overlap >>

Next == \E t \in Tx :
    \/ Open(t) \/ ReadItem(t) \/ ReadLines(t)
    \/ LookUpReturn(t) \/ InsertReturn(t) \/ FinishReturns(t)
    \/ ReadRevision(t) \/ LookUpRevision(t) \/ InsertRevisionReturn(t)
    \/ LockAvailable(t) \/ Revise(t) \/ ReviseAlreadyDone(t)
    \/ LaunchLine(t) \/ WriteLine(t) \/ SumLines(t) \/ WriteTotal(t)
    \/ WriteHeader(t) \/ InsertExits(t) \/ Pay(t)
    \/ Commit(t) \/ Abort(t)

Spec == Init /\ [][Next]_vars

-----------------------------------------------------------------------------
TypeOK ==
    /\ sale.status \in Statuses /\ sale.total \in Nat
    /\ sale.payments \subseteq [by : Tx, value : Nat]
    /\ line \in [Lines -> Quantities \cup {StartQuantity, Absent}]
    /\ moves \subseteq Movements
    /\ lock \in [LockRows -> Tx \cup {NoTx}]
    /\ \A t \in Tx : my[t].moves \subseteq Movements

\* The units of line i that are out of stock, and those that should be.
Quantity(i, refs) ==
    SumFunctionOnSet([m \in moves |-> m.quantity], {m \in moves : m.line = i /\ m.ref \in refs})
NetOut(i) == Quantity(i, Exits) - Quantity(i, References \ Exits)
Owed(i) == IF sale.status = "CANCELADA" \/ line[i] = Absent THEN 0 ELSE line[i]
Revised(i) == \E m \in moves : m.line = i /\ m.ref = "REV-OUT"

\* No exit of a line, and no revision of it, is recorded twice, however the
\* requests interleave: the look-up of an exit follows the lock of the product.
ExitsRecordedOnce ==
    \A m, n \in moves :
        m.ref \in Exits /\ << m.line, m.ref, m.revision >> =
                           << n.line, n.ref, n.revision >> => m = n

\* A sale is paid at most once, and a sale that is FINALIZADA is paid: of two
\* requests that finalize it, the second finds the payments of the first.
FinalizedIsPaidOnce ==
    /\ Cardinality(sale.payments) <= 1
    /\ sale.status = "FINALIZADA" => sale.payments # {}

StockFollowsLines ==
    \A i \in Lines : NetOut(i) = Owed(i) \/ (Revised(i) /\ Owed(i) = 0)
TotalFollowsLines ==
    /\ sale.total = TotalOf(line)
    /\ \A p \in sale.payments : p.value = sale.total

\* When no two requests overlap, the stock that is out for a line is its
\* quantity, and nothing once the line or the sale is gone; except for a line
\* that was revised, whose last revision removeItem and cancel leave out.  The
\* total is that of the lines, and what was paid is the total.
SerialRequestsKeepSale == overlap \/ (StockFollowsLines /\ TotalFollowsLines)

\* cancelOs "devolve o estoque baixado na inclusao dos itens" (gives back the
\* stock of the items, sales-service-conversions.ts:1447): even when requests
\* come one by one, nothing of a cancelled document stays out of stock.
CancelReturnsStock ==
    ~overlap /\ sale.status = "CANCELADA" => \A i \in Lines : NetOut(i) = 0
=============================================================================
