------------------------------ MODULE Purchases ------------------------------
(***************************************************************************)
(* Purchase notes: their entry into stock, costs and payables.              *)
(*                                                                         *)
(* Models lancar, excluir, dispensar and repor of                           *)
(* nfe/compras/entrada-service.ts, createPayableFromNfe and                 *)
(* voidPayablesOfNfeInTx of financial/service.ts, and next to them a        *)
(* settlement of a payable and a sale that takes the product out of stock.  *)
(* lancar and excluir lock the header of the note, then the rows of its     *)
(* products one after the other; what they write is seen by others when     *)
(* they commit.  The payables, and the header for dispensar, are read       *)
(* without locks.  Suppliers, links of supplier codes, taxes, sale prices   *)
(* and batches are left out, costs are exact (the code rounds them to four  *)
(* decimals), and every title has one installment.                          *)
(***************************************************************************)
EXTENDS FiniteSetsExt, Integers, Sequences

CONSTANTS
    Tx,       \* the requests
    Notes,    \* the purchase notes
    Products,
    Lines,    \* Lines[n]: the items of note n, a product, a quantity, a cost
    Kinds,    \* the requests that may arrive
    Freights, \* what freight a launch has: "none", "open", "paid"
    StartStock, StartCost, \* what is in stock of every product, and its cost
    Worth     \* what a note is worth; half of it may be settled

PurchasesAssumption ==
    /\ Lines \in [Notes -> Seq([product : Products, quantity : Nat \ {0}, cost : Nat \ {0}])]
    /\ "none" \notin Notes /\ \A n \in Notes : Lines[n] # << >>
    /\ Kinds \subseteq {"lancar", "excluir", "dispensar", "repor", "payable", "settle", "exit"}
    /\ Freights \subseteq {"none", "open", "paid"} /\ "none" \in Freights
    /\ StartStock \in Nat /\ StartCost \in Nat \ {0} /\ Worth \in Nat /\ Worth % 2 = 0
ASSUME PurchasesAssumption

Titles == Tx \X {"COMPRA", "FRETE"}

VARIABLES
    note,     \* note[n]: whether it is launched (entryDate) and dispensed
    moved,    \* << n, k >>: the movement COMPRA of item k of n is not EXCLUIDA
    stock,    \* stock[p]: the balance, the costs of p
    title,    \* title[T]: the payable T
    settled,  \* the settlements BAIXA that no ESTORNO reverses
    pc, my,   \* where each request is, and what it knows and has written
    sold,     \* sold[p]: what has left the stock
    before,   \* before[n][p]: stock[p] before n was launched
    touched,  \* << n, p >>: p has changed by something else since
    overlap   \* notes whose requests of unlocked kinds overlapped others

vars == << note, moved, stock, title, settled, pc, my, sold, before, touched, overlap >>
tables == << note, moved, stock, title, settled, sold, before, touched >>

\* Costs are fractions << n, d >>; << 0, 0 >> is null.
Null == << 0, 0 >>
Same(a, b) == a[1] * b[2] = b[1] * a[2] /\ (a = Null <=> b = Null)

NoTitle == [note |-> "none", status |-> "none", open |-> 0, original |-> 0]
\* locked: the header is; work: the product rows locked and written; items: the
\* items handled; title, sum: the title at hand and its balance as read; voids,
\* payments: the titles and settlements that excluir has read.
Idle == [kind |-> "none", note |-> "none", freight |-> "none", locked |-> FALSE,
         work |-> << >>, items |-> {}, title |-> << >>, sum |-> 0, voids |-> {},
         payments |-> {}]

Init ==
    /\ note = [n \in Notes |-> [launched |-> FALSE, dispensed |-> FALSE]]
    /\ moved = {}
    /\ stock = [p \in Products |-> [balance |-> StartStock, cost |-> << StartCost, 1 >>,
                                    previous |-> Null, average |-> << StartCost, 1 >>]]
    /\ title = [T \in Titles |-> NoTitle] /\ settled = {}
    /\ pc = [t \in Tx |-> "new"] /\ my = [t \in Tx |-> Idle]
    /\ sold = [p \in Products |-> 0]
    /\ before = [n \in Notes |-> [p \in Products |-> stock[p]]]
    /\ touched = {} /\ overlap = {}

-----------------------------------------------------------------------------
At(t, label) == pc[t] = label
UnderWay == {t \in Tx : pc[t] \notin {"new", "done"}}
Go(t, label, r) ==
    /\ pc' = [pc EXCEPT ![t] = label]
    /\ my' = [my EXCEPT ![t] = IF label = "done" THEN Idle ELSE r]
End(t) == Go(t, "done", Idle)
OnlyRequest == UNCHANGED << tables, overlap >>

\* Row locks: SELECT ... FOR UPDATE waits for the transaction that holds one.
HeaderFree(t, n) == \A u \in UnderWay \ {t} : my[u].locked => my[u].note # n
ProductFree(t, p) == \A u \in UnderWay \ {t} : p \notin DOMAIN my[u].work
\* The row of a product as the transaction sees it.
Row(t, p) == IF p \in DOMAIN my[t].work THEN my[t].work[p] ELSE stock[p]
With(work, p, row) == [x \in DOMAIN work \cup {p} |-> IF x = p THEN row ELSE work[x]]

Item(x) == Lines[x[1]][x[2]]
ProductsOf(n) == {Lines[n][k].product : k \in DOMAIN Lines[n]}
LinesOf(n, p) == {k \in DOMAIN Lines[n] : Lines[n][k].product = p}
PayablesOf(n) == {T \in Titles : title[T].note = n /\ title[T].status = "ABERTO"}

Unlocked == {"dispensar", "repor", "payable", "settle"}

Start(t) ==
    /\ At(t, "new")
    /\ \E k \in Kinds, n \in Notes, f \in Freights :
        /\ f = "none" \/ k = "lancar"
        /\ LET r == [Idle EXCEPT !.kind = k, !.note = n, !.freight = f]
           IN  \/ k \in {"lancar", "dispensar", "repor"} /\ Go(t, "read", r)
               \/ k = "excluir" /\ Go(t, "lock", r)
               \/ k = "payable" /\ Go(t, "linked", r)
               \/ /\ k = "settle"
                  /\ \E T \in Titles : title[T].note = n /\ Go(t, "open", [r EXCEPT !.title = T])
        /\ overlap' = IF \E u \in UnderWay : my[u].note = n /\ {k, my[u].kind} \cap Unlocked # {}
                      THEN overlap \cup {n} ELSE overlap
    /\ UNCHANGED tables

-----------------------------------------------------------------------------
(***************************************************************************)
(* lancar.                                                                  *)
(***************************************************************************)
MayLaunch(n) == ~note[n].launched /\ ~note[n].dispensed

\* lerNota; dispensar has nothing to do for a dispensed note, repor only refuses
\* a launched one.
ReadNote(t) ==
    /\ At(t, "read")
    /\ LET r == my[t]
           fits == IF r.kind = "repor" THEN ~note[r.note].launched ELSE MayLaunch(r.note)
       IN  Go(t, IF ~fits THEN "done" ELSE IF r.kind = "lancar" THEN "lock" ELSE "write", r)
    /\ OnlyRequest

\* travarCabecalho, and the first statement of excluir.
LockHeader(t) ==
    /\ At(t, "lock") /\ HeaderFree(t, my[t].note)
    /\ LET r == [my[t] EXCEPT !.locked = TRUE]
           fits == IF r.kind = "lancar" THEN MayLaunch(r.note) ELSE note[r.note].launched
       IN  Go(t, IF ~fits THEN "done" ELSE IF r.kind = "lancar" THEN "line" ELSE "revert", r)
    /\ OnlyRequest

\* custoMedioPonderado.
WeightedAverage(row, quantity, cost) ==
    IF row.balance <= 0 \/ row.average = Null THEN << cost, 1 >>
    ELSE << row.balance * row.average[1] + quantity * cost * row.average[2],
            row.average[2] * (row.balance + quantity) >>

\* atualizarPreco and the movement COMPRA.
Entered(row, line) ==
    [balance |-> row.balance + line.quantity, cost |-> << line.cost, 1 >>,
     previous |-> row.cost, average |-> WeightedAverage(row, line.quantity, line.cost)]

\* One item: refused when its movement exists, else the row of the product is
\* locked and changed.
EnterLine(t) ==
    /\ At(t, "line")
    /\ LET r == my[t]
           k == Cardinality(r.items) + 1
           line == Lines[r.note][k]
       IN  IF << r.note, k >> \in moved THEN End(t)
           ELSE /\ ProductFree(t, line.product)
                /\ Go(t, IF k = Len(Lines[r.note]) THEN "linked" ELSE "line",
                      [r EXCEPT !.items = @ \cup {k},
                         !.work = With(r.work, line.product, Entered(Row(t, line.product), line))])
    /\ OnlyRequest

\* createPayableFromNfeInTx, called by lancar or alone: the check, then the
\* insert after the advisory lock of nextTitleNumber, and the commit.
CheckPayable(t) ==
    /\ At(t, "linked")
    /\ Go(t, IF PayablesOf(my[t].note) = {} THEN "insert" ELSE "done", my[t])
    /\ OnlyRequest

NewTitle(n, worth) == [note |-> n, status |-> "ABERTO", open |-> worth, original |-> worth]

\* The title of the note, and of a freight, which is born settled when paid.
\* Its foreign key waits for a transaction that has locked the header.
InsertPayable(t) ==
    /\ At(t, "insert") /\ HeaderFree(t, my[t].note)
    /\ LET r == my[t]
           n == r.note
           paid == r.freight = "paid"
       IN  /\ title' = [T \in Titles |->
                CASE T = << t, "COMPRA" >> -> NewTitle(n, Worth)
                  [] T = << t, "FRETE" >> /\ r.freight # "none" ->
                        [NewTitle(n, Worth) EXCEPT !.open = IF paid THEN 0 ELSE Worth]
                  [] OTHER -> title[T]]
           /\ settled' = IF paid THEN settled \cup {[title |-> << t, "FRETE" >>, by |-> t,
                                                     amount |-> Worth]}
                         ELSE settled
           /\ IF r.kind = "payable" THEN UNCHANGED << note, moved, stock, before, touched >>
              ELSE /\ note' = [note EXCEPT ![n].launched = TRUE]
                   /\ moved' = moved \cup {<< n, k >> : k \in DOMAIN Lines[n]}
                   /\ stock' = [p \in Products |-> Row(t, p)]
                   /\ before' = [before EXCEPT ![n] = stock]
                   /\ touched' = {x \in touched : x[1] # n}
                                   \cup ((Notes \ {n}) \X ProductsOf(n))
    /\ End(t)
    /\ UNCHANGED << sold, overlap >>

-----------------------------------------------------------------------------
(***************************************************************************)
(* excluir.                                                                 *)
(***************************************************************************)
\* Mutant: the average cost stays as the deleted entry has left it.
RevertedKeepsAverage(row, line) ==
    LET left == row.balance - line.quantity
    IN  IF Same(row.cost, << line.cost, 1 >>) /\ left >= 0
        THEN [row EXCEPT !.balance = left, !.cost = row.previous, !.previous = Null]
        ELSE [row EXCEPT !.balance = left]

\* reverterCusto for one item: only while its cost is the current one.
Reverted(row, line) ==
    LET left == row.balance - line.quantity
        current == Same(row.cost, << line.cost, 1 >>) /\ left >= 0
        average == IF left > 0 /\ row.average # Null
                   THEN << row.average[1] * row.balance
                             - line.quantity * line.cost * row.average[2], row.average[2] * left >>
                   ELSE Null
    IN  IF current
        THEN [balance |-> left, cost |-> row.previous, previous |-> Null, average |-> average]
        ELSE [row EXCEPT !.balance = left]

\* The movements of one transaction have one createdAt: the items, and so the
\* products, come in any order.
RevertItem(t) ==
    /\ At(t, "revert")
    /\ LET r == my[t]
           todo == {k \in DOMAIN Lines[r.note] : << r.note, k >> \in moved} \ r.items
           begun == {k \in todo : Lines[r.note][k].product \in DOMAIN r.work}
       IN  \/ todo = {} /\ Go(t, "takeout", r)
           \/ \E k \in IF begun # {} THEN begun ELSE todo :
                LET line == Lines[r.note][k]
                IN  /\ ProductFree(t, line.product)
                    /\ Go(t, "revert",
                          [r EXCEPT !.items = @ \cup {k},
                             !.work = With(r.work, line.product, Reverted(Row(t, line.product), line))])
    /\ OnlyRequest

\* Mutant: a balance may become negative.
NeverInsufficient(t) == FALSE

\* adjustStockBalance refuses a negative balance.
Insufficient(t) == \E p \in DOMAIN my[t].work : my[t].work[p].balance < 0

\* The movements SAIDA.
TakeOut(t) ==
    /\ At(t, "takeout")
    /\ Go(t, IF Insufficient(t) THEN "done" ELSE "payables",
          my[t])
    /\ OnlyRequest

\* Mutant: settlements stay when their title is cancelled.
NoBaixas(K) == {}

BaixasOf(K) == {s \in settled : s.title \in K}
AmountsOn(T, S) == SumFunctionOnSet([s \in S |-> s.amount], {s \in S : s.title = T})

\* voidPayablesOfNfeInTx reads the titles, their settlements and balances.
ReadPayables(t) ==
    /\ At(t, "payables")
    /\ LET K == PayablesOf(my[t].note)
           S == BaixasOf(K)
           exceeds == \E T \in K : title[T].open + AmountsOn(T, S) > title[T].original
       IN  Go(t, IF exceeds THEN "done" ELSE "delete",
              [my[t] EXCEPT !.voids = K, !.payments = S])
    /\ OnlyRequest

\* Mutant: the movements of a deleted entry keep their reference.
NotRenamed(n) == moved

\* The movements but those that become EXCLUIDA.
Renamed(n) == {x \in moved : x[1] # n}

\* Every BAIXA is reversed, the titles are cancelled, the note may be launched
\* again; the commit.
DeleteEntry(t) ==
    /\ At(t, "delete")
    /\ LET r == my[t]
           n == r.note
       IN  /\ title' = [T \in Titles |->
                IF T \in r.voids THEN [title[T] EXCEPT !.status = "CANCELADO", !.open = 0]
                ELSE title[T]]
           /\ settled' = settled \ r.payments
           /\ note' = [note EXCEPT ![n].launched = FALSE]
           /\ moved' = Renamed(n)
           /\ stock' = [p \in Products |-> Row(t, p)]
           /\ touched' = touched \cup ((Notes \ {n}) \X ProductsOf(n))
    /\ End(t)
    /\ UNCHANGED << sold, before, overlap >>

-----------------------------------------------------------------------------
(***************************************************************************)
(* dispensar and repor, a settlement, a sale.                               *)
(***************************************************************************)
WriteDispensed(t) ==
    /\ At(t, "write") /\ HeaderFree(t, my[t].note)
    /\ note' = [note EXCEPT ![my[t].note].dispensed = my[t].kind = "dispensar"]
    /\ End(t)
    /\ UNCHANGED << moved, stock, title, settled, sold, before, touched, overlap >>

ReadOpen(t) ==
    /\ At(t, "open")
    /\ LET T == title[my[t].title]
       IN  Go(t, IF T.status = "ABERTO" /\ T.open > 0 THEN "pay" ELSE "done",
              [my[t] EXCEPT !.sum = T.open])
    /\ OnlyRequest

\* The whole balance or half of the title.
Pay(t) ==
    /\ At(t, "pay")
    /\ \E amount \in {my[t].sum, Worth \div 2} :
        /\ title' = [title EXCEPT ![my[t].title].open = my[t].sum - amount]
        /\ settled' = settled \cup {[title |-> my[t].title, by |-> t, amount |-> amount]}
    /\ End(t)
    /\ UNCHANGED << note, moved, stock, sold, before, touched, overlap >>

\* A sale takes one unit out of stock.
Exit(t) ==
    /\ At(t, "new") /\ "exit" \in Kinds
    /\ \E p \in Products :
        /\ ProductFree(t, p) /\ stock[p].balance > 0
        /\ stock' = [stock EXCEPT ![p].balance = @ - 1]
        /\ sold' = [sold EXCEPT ![p] = @ + 1]
        /\ touched' = touched \cup (Notes \X {p})
    /\ End(t)
    /\ UNCHANGED << note, moved, title, settled, before, overlap >>

\* The request fails, its process dies, or it is the victim of a deadlock: the
\* transaction is rolled back.
Fail(t) == t \in UnderWay /\ End(t) /\ OnlyRequest

RequestStep(t) ==
    \/ ReadNote(t) \/ LockHeader(t) \/ EnterLine(t) \/ CheckPayable(t) \/ InsertPayable(t)
    \/ RevertItem(t) \/ TakeOut(t) \/ ReadPayables(t) \/ DeleteEntry(t)
    \/ WriteDispensed(t) \/ ReadOpen(t) \/ Pay(t)

Next == \E t \in Tx : Start(t) \/ Exit(t) \/ RequestStep(t) \/ Fail(t)

Spec == Init /\ [][Next]_vars

-----------------------------------------------------------------------------
TypeOK ==
    /\ \A p \in Products : stock[p].balance \in Nat /\ sold[p] \in Nat
    /\ moved \subseteq Notes \X Nat
    /\ \A T \in Titles :
        /\ title[T].status \in {"none", "ABERTO", "CANCELADO"}
        /\ title[T].open \in 0 .. title[T].original
    /\ \A s \in settled : title[s.title].status # "none"

\* However requests overlap, a note is in stock exactly when it is launched,
\* each of its items once, and what is in stock of a product is what there was,
\* what the launched notes brought, less what has left.
EntriesMatchStock ==
    /\ \A n \in Notes :
        {x \in moved : x[1] = n} = IF note[n].launched THEN {n} \X DOMAIN Lines[n] ELSE {}
    /\ \A p \in Products :
        stock[p].balance + sold[p] = StartStock
            + SumFunctionOnSet([x \in moved |-> Item(x).quantity],
                               {x \in moved : Item(x).product = p})

\* A launched note owes its worth once, in one title of the note; what is
\* open of a payable and what is settled add up to its worth; a payable of a
\* deleted entry has no settlement left; and a note that is dispensed is not
\* launched.  The property excludes notes of which a request that does not
\* lock the header overlapped another, because these do break it in the model.
PayablesFollowEntries ==
    \A n \in Notes \ overlap :
        /\ ~(note[n].launched /\ note[n].dispensed)
        /\ LET owed == {T \in PayablesOf(n) : T[2] = "COMPRA"}
           IN  Cardinality(owed) <= 1 /\ (note[n].launched => owed # {})
        /\ \A T \in {x \in Titles : title[x].note = n} :
            LET paid == AmountsOn(T, settled)
            IN  IF title[T].status = "ABERTO" THEN title[T].open + paid = title[T].original
                ELSE paid = 0

\* excluir gives a product back the cost it had before the note was launched,
\* and its average cost if it had one on a stock, unless something else has
\* changed the product in between or the note lists it more than once: then it
\* may keep a cost of the deleted entry, and its average may even be negative.
DeletionGivesBackCost ==
    [][\A n \in Notes : note[n].launched /\ ~note'[n].launched =>
        \A p \in ProductsOf(n) :
            << n, p >> \notin touched /\ Cardinality(LinesOf(n, p)) = 1 =>
                LET was == before[n][p]
                IN  /\ Same(stock'[p].cost, was.cost)
                    /\ was.balance > 0 /\ was.average # Null => Same(stock'[p].average, was.average)]_vars
=============================================================================
