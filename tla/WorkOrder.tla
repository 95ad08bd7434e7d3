------------------------------ MODULE WorkOrder ------------------------------
(***************************************************************************)
(* A work order or a budget, the documents generated from it and the        *)
(* returns of the sales among them.                                         *)
(*                                                                         *)
(* Models convertOsToSale, convertBudgetToSale, convertBudgetToOs,          *)
(* estornoOsToOpen and cancelOs of sales-service-conversions.ts, the change *)
(* of status by patch of sales-service-core.ts, and createPartialReturn and *)
(* createFullReturn of returns/service.ts.  Each is one transaction that    *)
(* reads rows without a lock and writes quantities and statuses back as     *)
(* absolute values.  One action is one statement, or several that no other  *)
(* transaction can tell apart.  The stock of a document moves in SaleStock; *)
(* the financial title of a sale, changes of items and the conversion of a  *)
(* work order that was itself generated are left out.                       *)
(***************************************************************************)
EXTENDS Integers, FiniteSetsExt, Functions

CONSTANTS
    Transactions,  \* the transactions, one per request
    Order,         \* the work order or budget
    First,         \* a document generated from it and finalized before the first request
    Items,         \* the lines of the order
    Starts,        \* the type of the order, and the lines of it that are services
    Quantity,      \* the quantity of each line
    FirstSold,     \* what the first document has of each line
    Asks,          \* the quantities per line that a request may ask for
    RequestKinds,  \* the requests that may arrive
    Sequence,      \* the row of the counter of order numbers
    Absent         \* a row that does not exist

\* A request that generates a document creates a new id: the request names it.
\* A line has the same name in the order and in what is generated from it.
Sales == Transactions \cup {First}
Documents == Sales \cup {Order}
Lines == Documents \X Items
RowNames == Documents \cup Lines \cup {Sequence}

Amounts == [Items -> Nat]

Types == {"VENDA", "ORDEM DE SERVICO", "ORCAMENTO"}
Conversions == {"osToSale", "budgetToSale", "budgetToOs"}
OrderStatuses == {"ABERTA", "PARCIAL", "FINALIZADA", "CANCELADA"}
Situations == {"SEM_DEVOLUCAO", "PARCIAL", "TOTAL"}

\* Rows of sales and of sales_items.  linked: the row names the order, or the
\* line of the order, it was generated from.  paid: the document has payments.
DocumentRows ==
    [type : Types, status : OrderStatuses, situation : Situations,
     linked : BOOLEAN, paid : BOOLEAN]
LineRows ==
    [quantity : Nat \ {0}, converted : Nat, returned : Nat, linked : BOOLEAN]

Document(type, status, linked) ==
    [type |-> type, status |-> status, situation |-> "SEM_DEVOLUCAO", linked |-> linked,
     paid |-> status = "FINALIZADA"]
Line(quantity, converted, linked) ==
    [quantity |-> quantity, converted |-> converted, returned |-> 0,
     linked |-> linked]

ASSUME OrderAssumption ==
    /\ Items # {} /\ First \notin Transactions /\ Order \notin Sales
    /\ Sequence \notin Documents \cup Lines /\ Documents \cap Lines = {}
    /\ Absent \notin DocumentRows \cup LineRows
    /\ Quantity \in [Items -> Nat \ {0}] /\ FirstSold \in Amounts
    /\ \A i \in Items : FirstSold[i] <= Quantity[i]
    /\ \E i \in Items : FirstSold[i] > 0
    /\ Asks \subseteq {a \in [Items -> Nat] : \E i \in Items : a[i] > 0}
    /\ Starts \subseteq [type : {"ORDEM DE SERVICO", "ORCAMENTO"}, services : SUBSET Items]
    /\ RequestKinds \subseteq {"osToSale", "budgetToSale", "budgetToOs",
                               "patch", "partial", "full", "estorno", "cancelOs"}

VARIABLES
    table,    \* table[r]: the committed row r
    services, \* the lines of the order whose product is a service
    returns,  \* the committed rows of sales_returns
    draft,    \* draft[t]: the rows t wrote, which it holds until it ends
    step,     \* where each transaction is
    request,  \* request[t]: the request of t and what it read
    overlapped  \* whether a request committed while another one was under way:
              \* "none", "conversions" (no others did), or "mixed"

orderVars == << table, services, returns, draft, step, request, overlapped >>

\* A request: what it asks (kind, sale, asked, status), the lines or sales it
\* has still to deal with (todo), the one at hand (item), what it read (seen,
\* linked, live, number), and the returns it wrote.
NoRequest == [kind |-> "none", sale |-> Order, asked |-> [i \in Items |-> 0],
         status |-> "ABERTA", situation |-> "SEM_DEVOLUCAO", todo |-> {},
         item |-> {}, seen |-> [i \in Items |-> 0], linked |-> FALSE,
         live |-> {}, number |-> 0, returns |-> {}]

\* The rows of f over those of g, and one row alone.
Over(f, g) ==
    [r \in DOMAIN f \cup DOMAIN g |-> IF r \in DOMAIN f THEN f[r] ELSE g[r]]
One(r, row) == [x \in {r} |-> row]
NoRows == [r \in {} |-> Absent]

\* The status a conversion gives to the order (computeBudgetStatus).
StatusOf(line) ==
    IF \A i \in Items : line[i].converted >= line[i].quantity THEN "FINALIZADA"
    ELSE IF \E i \in Items : line[i].converted > 0 THEN "PARCIAL" ELSE "ABERTA"

FirstLines ==
    [i \in Items |-> Line(Quantity[i], FirstSold[i], FALSE)]

\* What a conversion generates: convertBudgetToOs a work order, whose lines
\* have nothing converted yet, the others a sale.
SaleOf(d, status, asked) ==
    Over(One(d, Document("VENDA", status, TRUE)),
         [r \in {d} \X {i \in Items : asked[i] > 0} |->
             Line(asked[r[2]], asked[r[2]], TRUE)])
OrderOf(d, status, asked) ==
    Over(One(d, Document("ORDEM DE SERVICO", status, TRUE)),
         [r \in {d} \X {i \in Items : asked[i] > 0} |-> Line(asked[r[2]], 0, TRUE)])

OrderInit == \E start \in Starts :
    /\ services = start.services
    /\ table =
        LET first == IF start.type = "ORCAMENTO" /\ start.services # {}
                     THEN OrderOf(First, "FINALIZADA", FirstSold)
                     ELSE SaleOf(First, "FINALIZADA", FirstSold)
        IN  Over(first, [r \in RowNames |->
                CASE r = Order -> Document(start.type, StatusOf(FirstLines), FALSE)
                  [] r = Sequence -> 2
                  [] r \in {Order} \X Items -> FirstLines[r[2]]
                  [] OTHER -> Absent])
    /\ returns = {}
    /\ draft = [t \in Transactions |-> NoRows]
    /\ step = [t \in Transactions |-> "new"]
    /\ request = [t \in Transactions |-> NoRequest]
    /\ overlapped = "none"

-----------------------------------------------------------------------------
\* READ COMMITTED: a statement sees what is committed and its own writes.
Seen(t, r) == IF r \in DOMAIN draft[t] THEN draft[t][r] ELSE table[r]
SaleSeen(t) == Seen(t, request[t].sale)
LineSeen(t, d, i) == Seen(t, << d, i >>)
OrderLines(t) == [i \in Items |-> LineSeen(t, Order, i)]
ItemsOf(t, d) == {i \in Items : LineSeen(t, d, i) # Absent}
SaleLinesSeen(t) ==
    {LineSeen(t, request[t].sale, i) : i \in ItemsOf(t, request[t].sale)}
ReturnsSeen(t) == returns \cup request[t].returns

\* INSERT or UPDATE of the rows in the domain of f: waits for whoever wrote
\* one of them and has not ended.
WriteRows(t, f) ==
    /\ \A u \in Transactions \ {t} : DOMAIN f \cap DOMAIN draft[u] = {}
    /\ draft' = [draft EXCEPT ![t] = Over(f, @)]
    /\ UNCHANGED << table, services, returns, overlapped >>
Read == UNCHANGED << table, services, returns, draft, overlapped >>

AtStep(t, label) == step[t] = label
GoTo(t, label) == step' = [step EXCEPT ![t] = label]

Request(t, kind, d, asked, status) ==
    /\ kind \in RequestKinds
    /\ request' = [request EXCEPT ![t] = [NoRequest EXCEPT !.kind = kind, !.sale = d,
                                    !.asked = asked, !.status = status]]
    /\ GoTo(t, "read")

Open(t) ==
    /\ AtStep(t, "new")
    /\ LET existing == {d \in Documents : table[d] # Absent}
           none == NoRequest.asked
       IN  \/ \E kind \in Conversions, a \in Asks, s \in {"ABERTA", "FINALIZADA"} :
                /\ kind = "budgetToOs" => s = "ABERTA"
                /\ Request(t, kind, t, a, s)
           \/ \E d \in existing, s \in {"FINALIZADA", "CANCELADA"} :
                Request(t, "patch", d, none, s)
           \/ \E d \in existing \ {Order}, a \in Asks :
                Request(t, "partial", d, a, "FINALIZADA")
           \/ \E d \in existing \ {Order} : Request(t, "full", d, none, "FINALIZADA")
           \/ Request(t, "estorno", Order, none, "ABERTA")
           \/ Request(t, "cancelOs", Order, none, "CANCELADA")
    /\ Read

-----------------------------------------------------------------------------
(***************************************************************************)
(* convertOsToSale, convertBudgetToSale and convertBudgetToOs: the same     *)
(* steps, on an order of the type each of them takes.                       *)
(***************************************************************************)
OsOpenForConversion(row) ==
    row.type = "ORDEM DE SERVICO" /\ row.status \notin {"CANCELADA", "FINALIZADA"}
BudgetOpenForConversion(row) ==
    row.type = "ORCAMENTO" /\ row.status \notin {"CANCELADA", "FINALIZADA"}

ReadToConvert(t) ==
    /\ AtStep(t, "read")
    /\ \/ request[t].kind = "osToSale" /\ OsOpenForConversion(table[Order])
       \/ /\ request[t].kind \in {"budgetToSale", "budgetToOs"}
          /\ BudgetOpenForConversion(table[Order])
    /\ GoTo(t, "lines")
    /\ Read /\ UNCHANGED request

\* Mutant: nothing is compared with what is left.
AskedUnchecked(asked, row) == TRUE

\* "Quantidade excede saldo restante": no line is asked for more than is left.
FitsRemaining(asked, row) == asked <= row.quantity - row.converted

ReadLines(t) ==
    /\ AtStep(t, "lines")
    /\ request[t].kind = "budgetToSale" => services = {}
    /\ request[t].kind = "budgetToOs" => services # {}
    /\ \A i \in Items : FitsRemaining(request[t].asked[i], table[<< Order, i >>])
    /\ request' = [request EXCEPT ![t].seen =
            [i \in Items |-> table[<< Order, i >>].converted]]
    /\ GoTo(t, "number")
    /\ Read

\* Mutant: the number is taken without an UPDATE of the counter.
NumberWithoutLock(t) == Read

\* UPDATE of the counter, which the transaction then holds until it ends.
NextOrderNumber(t) == WriteRows(t, One(Sequence, table[Sequence] + 1))

TakeNumber(t) ==
    /\ AtStep(t, "number")
    /\ NextOrderNumber(t)
    /\ GoTo(t, "insert")
    /\ UNCHANGED request

\* INSERT of the document and of its lines.
InsertDocument(t) ==
    /\ AtStep(t, "insert")
    /\ WriteRows(t, IF request[t].kind = "budgetToOs"
                    THEN OrderOf(t, request[t].status, request[t].asked)
                    ELSE SaleOf(t, request[t].status, request[t].asked))
    /\ request' = [request EXCEPT ![t].todo = {i \in Items : request[t].asked[i] > 0}]
    /\ GoTo(t, "convert")

\* UPDATE of a line of the order to what was read plus what is asked.
ConvertLine(t) ==
    /\ AtStep(t, "convert")
    /\ \E i \in request[t].todo :
        /\ WriteRows(t, One(<< Order, i >>, [LineSeen(t, Order, i) EXCEPT
                        !.converted = request[t].seen[i] + request[t].asked[i]]))
        /\ request' = [request EXCEPT ![t].todo = @ \ {i}]
    /\ UNCHANGED step

\* The lines of the order are read again and give its status, which is
\* written whatever the order has become.
RereadLines(t) ==
    /\ step[t] \in {"convert", "give back"} /\ request[t].todo = {}
    /\ request' = [request EXCEPT ![t].status = StatusOf(OrderLines(t))]
    /\ GoTo(t, "order")
    /\ Read

WriteOrder(t) ==
    /\ AtStep(t, "order")
    /\ WriteRows(t, One(Order, [Seen(t, Order) EXCEPT !.status = request[t].status]))
    /\ GoTo(t, "commit")
    /\ UNCHANGED request

-----------------------------------------------------------------------------
(***************************************************************************)
(* patch: FINALIZADA or CANCELADA.  The status is read before the           *)
(* transaction; a document that has payments already refuses others, and    *)
(* a budget is never finalized by patch.                                    *)
(***************************************************************************)
ReadToPatch(t) ==
    /\ AtStep(t, "read") /\ request[t].kind = "patch"
    /\ table[request[t].sale].status = "ABERTA"
    /\ request[t].status = "FINALIZADA" => table[request[t].sale].type # "ORCAMENTO"
    /\ GoTo(t, "patch")
    /\ Read /\ UNCHANGED request

WritePatch(t) ==
    /\ AtStep(t, "patch")
    /\ LET finalize == request[t].status = "FINALIZADA"
       IN  /\ finalize => ~SaleSeen(t).paid
           /\ WriteRows(t, One(request[t].sale, [SaleSeen(t) EXCEPT
                  !.status = request[t].status, !.paid = @ \/ finalize]))
    /\ GoTo(t, "commit")
    /\ UNCHANGED request

-----------------------------------------------------------------------------
(***************************************************************************)
(* createPartialReturn and createFullReturn, of a sale only.  Whether the   *)
(* sale was generated from a work order is noted in linked.                 *)
(***************************************************************************)
\* What is linked names a work order (sourceWorkOrderSaleId), not a budget.
FromWorkOrder == table[Order].type = "ORDEM DE SERVICO"

ReadToReturn(t) ==
    /\ AtStep(t, "read") /\ request[t].kind \in {"partial", "full"}
    /\ SaleSeen(t).type = "VENDA"
    /\ SaleSeen(t).status \in {"FINALIZADA", "PARCIAL"}
    /\ request' = [request EXCEPT ![t].linked = SaleSeen(t).linked /\ FromWorkOrder,
                        ![t].todo = {i \in Items : request[t].asked[i] > 0}]
    /\ GoTo(t, IF request[t].kind = "full" THEN "returnable" ELSE "line")
    /\ Read

Returnable(row) == row.quantity - row.returned

\* A full return asks for what is left of every line.
ReadReturnable(t) ==
    /\ AtStep(t, "returnable")
    /\ LET left == [i \in Items |-> IF i \in ItemsOf(t, request[t].sale)
                        THEN Returnable(LineSeen(t, request[t].sale, i)) ELSE 0]
           some == {i \in Items : left[i] > 0}
       IN  /\ some # {} \/ request[t].linked
           /\ request' = [request EXCEPT ![t].asked = left, ![t].todo = some]
    /\ GoTo(t, "line")
    /\ Read

\* createReturnLine reads the line: "Quantidade devolvivel maxima".
ReadReturnLine(t) ==
    /\ AtStep(t, "line")
    /\ \E i \in request[t].todo \cap ItemsOf(t, request[t].sale) :
        LET row == LineSeen(t, request[t].sale, i)
        IN  /\ request[t].asked[i] <= Returnable(row)
            /\ request' = [request EXCEPT ![t].item = {i}, ![t].seen[i] = row.returned,
                                ![t].todo = @ \ {i}]
    /\ GoTo(t, "number return")
    /\ Read

\* The order of the return is the highest of the sale plus one.
NumberReturn(t) ==
    /\ AtStep(t, "number return")
    /\ request' = [request EXCEPT ![t].number =
            1 + Max({0} \cup {r.order : r \in {s \in ReturnsSeen(t) :
                                                  s.sale = request[t].sale}})]
    /\ GoTo(t, "insert return")
    /\ Read

\* INSERT of the return.  The unique index on sale, line and order makes it
\* wait for another one with the same key, and refuses it when that commits.
InsertReturn(t) ==
    /\ AtStep(t, "insert return")
    /\ \E i \in request[t].item :
        LET row == [sale |-> request[t].sale, item |-> i, order |-> request[t].number,
                    quantity |-> request[t].asked[i]]
            others == returns \cup UNION {request[u].returns : u \in Transactions}
        IN  /\ \A r \in others : << r.sale, r.item, r.order >>
                                     # << row.sale, row.item, row.order >>
            /\ request' = [request EXCEPT ![t].returns = @ \cup {row}]
    /\ GoTo(t, "returned")
    /\ Read

\* UPDATE of the line to what was read plus what is given back.
ReturnedAfter(seen, asked) == seen + asked

WriteReturned(t) ==
    /\ AtStep(t, "returned")
    /\ \E i \in request[t].item :
        WriteRows(t, One(<< request[t].sale, i >>,
                         [LineSeen(t, request[t].sale, i) EXCEPT !.returned =
                             ReturnedAfter(request[t].seen[i], request[t].asked[i])]))
    /\ GoTo(t, "line")
    /\ UNCHANGED request

\* syncSaleReturnSituation: the lines of the sale give its situation and that
\* its status, both written whatever the sale has become.
SituationOf(lines) ==
    IF \A l \in lines : l.returned = 0 THEN "SEM_DEVOLUCAO"
    ELSE IF \A l \in lines : l.returned >= l.quantity THEN "TOTAL" ELSE "PARCIAL"

StatusOfSituation(situation) ==
    CASE situation = "TOTAL" -> "CANCELADA"
      [] situation = "PARCIAL" -> "PARCIAL"
      [] OTHER -> "FINALIZADA"

ReadSituation(t) ==
    /\ AtStep(t, "line") /\ request[t].todo = {}
    /\ request' = [request EXCEPT ![t].situation = SituationOf(SaleLinesSeen(t))]
    /\ GoTo(t, "situation")
    /\ Read

\* A full return of a sale of a work order cancels it also when nothing was left to
\* give back, and reopens the order when the sale is cancelled.
NothingLeft(t) ==
    /\ request[t].kind = "full" /\ request[t].linked
    /\ \A i \in Items : request[t].asked[i] = 0

Reopens(t, status) ==
    request[t].kind = "full" /\ request[t].linked /\ status = "CANCELADA"

WriteSituation(t) ==
    /\ AtStep(t, "situation")
    /\ LET status == IF NothingLeft(t) THEN "CANCELADA"
                     ELSE StatusOfSituation(request[t].situation)
       IN  /\ WriteRows(t, One(request[t].sale, [SaleSeen(t) EXCEPT
                  !.situation = request[t].situation, !.status = status]))
           /\ GoTo(t, IF Reopens(t, status) THEN "reopen" ELSE "commit")
    /\ UNCHANGED request

\* reopenLinkedWorkOrder: each line generated from the order is given back to
\* it, one read and one UPDATE at a time.
ReadGeneratedLines(t) ==
    /\ AtStep(t, "reopen")
    /\ request' = [request EXCEPT ![t].todo =
            {i \in ItemsOf(t, request[t].sale) : LineSeen(t, request[t].sale, i).linked}]
    /\ GoTo(t, IF SaleSeen(t).linked THEN "give back" ELSE "commit")
    /\ Read

ReadOrderLine(t) ==
    /\ AtStep(t, "give back")
    /\ \E i \in request[t].todo :
        request' = [request EXCEPT ![t].item = {i}, ![t].todo = @ \ {i},
                         ![t].seen[i] = LineSeen(t, Order, i).converted]
    /\ GoTo(t, "given back")
    /\ Read

\* Mutant: the line of the order starts over.
StartOver(converted, quantity) == 0

GivenBack(converted, quantity) == Max({0, converted - quantity})

WriteOrderLine(t) ==
    /\ AtStep(t, "given back")
    /\ \E i \in request[t].item :
        WriteRows(t, One(<< Order, i >>, [LineSeen(t, Order, i) EXCEPT !.converted =
            GivenBack(request[t].seen[i], LineSeen(t, request[t].sale, i).quantity)]))
    /\ GoTo(t, "give back")
    /\ UNCHANGED request

-----------------------------------------------------------------------------
(***************************************************************************)
(* estornoOsToOpen and cancelOs: the order is read, then the sales          *)
(* generated from it.                                                       *)
(***************************************************************************)
ReadToUndo(t) ==
    /\ AtStep(t, "read")
    /\ table[Order].type = "ORDEM DE SERVICO"
    /\ \/ request[t].kind = "estorno" /\ table[Order].status = "FINALIZADA"
       \/ request[t].kind = "cancelOs" /\ table[Order].status = "ABERTA"
    /\ GoTo(t, "generated")
    /\ Read /\ UNCHANGED request

Generated == {s \in Sales : table[s] # Absent /\ table[s].linked}
LiveOf(S) == {s \in S : table[s].status # "CANCELADA"}

ReadGenerated(t) ==
    /\ AtStep(t, "generated")
    /\ \/ /\ request[t].kind = "estorno"
          /\ Generated # {}
          /\ \A s \in Generated : table[s].situation = "SEM_DEVOLUCAO"
          /\ request' = [request EXCEPT ![t].todo = Generated,
                              ![t].live = LiveOf(Generated)]
          /\ GoTo(t, "unlink")
       \/ /\ request[t].kind = "cancelOs"
          /\ LiveOf(Generated) = {}
          /\ GoTo(t, "order") /\ UNCHANGED request
    /\ Read

\* Each generated sale is cancelled, unless it was read as cancelled, and
\* unlinked from the order.
Unlinked(row, cancel) ==
    IF cancel THEN [row EXCEPT !.linked = FALSE, !.status = "CANCELADA",
                               !.situation = "SEM_DEVOLUCAO"]
    ELSE [row EXCEPT !.linked = FALSE]

UnlinkSale(t) ==
    /\ AtStep(t, "unlink")
    /\ \E s \in request[t].todo :
        /\ WriteRows(t, One(s, Unlinked(Seen(t, s), s \in request[t].live)))
        /\ request' = [request EXCEPT ![t].todo = @ \ {s}]
    /\ UNCHANGED step

\* One UPDATE of the lines of these sales, one of the lines of the order, and
\* the order is open again.
UnlinkLines(t) ==
    /\ AtStep(t, "unlink") /\ request[t].todo = {}
    /\ LET unlinked == {r \in Lines : /\ r[1] \in DOMAIN draft[t]
                                      /\ Seen(t, r) # Absent}
       IN  WriteRows(t, [r \in unlinked |-> [Seen(t, r) EXCEPT !.linked = FALSE]])
    /\ GoTo(t, "reset")
    /\ UNCHANGED request

ResetLines(t) ==
    /\ AtStep(t, "reset")
    /\ WriteRows(t, [r \in {Order} \X Items |-> [Seen(t, r) EXCEPT !.converted = 0]])
    /\ GoTo(t, "order")
    /\ UNCHANGED request

-----------------------------------------------------------------------------
InProgress(t) == step[t] \notin {"new", "done"}

Ended(t) ==
    /\ draft' = [draft EXCEPT ![t] = NoRows]
    /\ request' = [request EXCEPT ![t] = NoRequest]
    /\ GoTo(t, "done")

Commit(t) ==
    /\ AtStep(t, "commit")
    /\ table' = Over(draft[t], table)
    /\ returns' = returns \cup request[t].returns
    /\ UNCHANGED services
    /\ LET others == {u \in Transactions \ {t} : InProgress(u)}
           kinds == {request[u].kind : u \in others \cup {t}}
       IN  overlapped' =
            IF others = {} THEN overlapped
            ELSE IF kinds \subseteq Conversions /\ overlapped # "mixed"
                 THEN "conversions" ELSE "mixed"
    /\ Ended(t)

\* The request is refused, dies in a deadlock or loses its connection.
Abort(t) ==
    /\ InProgress(t)
    /\ Ended(t)
    /\ UNCHANGED << table, services, returns, overlapped >>

OrderNext == \E t \in Transactions :
    \/ Open(t)
    \/ ReadToConvert(t) \/ ReadLines(t) \/ TakeNumber(t) \/ InsertDocument(t)
    \/ ConvertLine(t) \/ RereadLines(t) \/ WriteOrder(t)
    \/ ReadToPatch(t) \/ WritePatch(t)
    \/ ReadToReturn(t) \/ ReadReturnable(t) \/ ReadReturnLine(t)
    \/ NumberReturn(t) \/ InsertReturn(t) \/ WriteReturned(t)
    \/ ReadSituation(t) \/ WriteSituation(t)
    \/ ReadGeneratedLines(t) \/ ReadOrderLine(t) \/ WriteOrderLine(t)
    \/ ReadToUndo(t) \/ ReadGenerated(t) \/ UnlinkSale(t) \/ UnlinkLines(t)
    \/ ResetLines(t)
    \/ Commit(t) \/ Abort(t)

OrderSpec == OrderInit /\ [][OrderNext]_orderVars

-----------------------------------------------------------------------------
OrderLine(i) == table[<< Order, i >>]

\* A line of the order never says that more of it was converted than there is,
\* and a line of a sale that more was returned, however the requests overlap:
\* what overlapping requests lose is an addition to these columns, not a bound.
OrderTypeOK ==
    /\ \A r \in RowNames :
        \/ table[r] = Absent
        \/ r \in Documents /\ table[r] \in DocumentRows
        \/ /\ r \in Lines /\ table[r] \in LineRows
           /\ table[r].converted <= table[r].quantity
           /\ table[r].returned <= table[r].quantity
        \/ r = Sequence /\ table[r] \in Nat
    /\ services \subseteq Items
    /\ returns \subseteq
        [sale : Sales, item : Items, order : Nat \ {0}, quantity : Nat \ {0}]
    /\ overlapped \in {"none", "conversions", "mixed"}

\* What the documents that are generated and not cancelled have of line i.
QuantityIn(S, i) ==
    SumFunctionOnSet([s \in S |-> IF table[<< s, i >>] = Absent THEN 0
                                  ELSE table[<< s, i >>].quantity], S)
Sold(i) == QuantityIn(LiveOf(Generated), i)

SalesAreConverted ==
    /\ \A i \in Items : Sold(i) <= OrderLine(i).converted
    /\ ~FromWorkOrder =>
        \A i \in Items : OrderLine(i).converted = QuantityIn(Generated, i)
    /\ table[Order].status = "CANCELADA" => LiveOf(Generated) = {}
QuantityReturned(s, i) ==
    SumFunctionOnSet([r \in returns |-> r.quantity],
                     {r \in returns : r.sale = s /\ r.item = i})
ReturnsAgree ==
    \A s \in Sales :
        LET items == {i \in Items : table[<< s, i >>] # Absent}
            lines == {table[<< s, i >>] : i \in items}
        IN  /\ \A i \in items : table[<< s, i >>].returned = QuantityReturned(s, i)
            /\ (\E l \in lines : l.returned > 0) =>
                /\ table[s].situation = SituationOf(lines)
                /\ table[s].status = StatusOfSituation(SituationOf(lines))

\* Requests that do not overlap never sell more of a line than was converted
\* of it, and a cancelled order has no sale.  Nothing is given back to a
\* budget: its converted quantities are those of all it generated.  They keep
\* the quantity returned of a line equal to its rows in sales_returns, and a
\* sale that has returns in the status these call for.
SerialRequestsAgree == overlapped = "none" => SalesAreConverted /\ ReturnsAgree

\* The counter of order numbers serializes conversions from the first write
\* on: the order has the status its lines call for, as long as no other
\* request overlaps.  patch may finalize (it is then paid) or cancel it.
StatusFollowsLines ==
    \/ overlapped = "mixed"
    \/ table[Order].status = "CANCELADA" \/ table[Order].paid
    \/ table[Order].status = StatusOf([i \in Items |-> OrderLine(i)])
=============================================================================
