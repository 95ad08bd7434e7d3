------------------------------ MODULE BankSlips ------------------------------
(***************************************************************************)
(* The billing of sales and the bank slips of their titles.                 *)
(*                                                                         *)
(* Models bill, issueBoleto, createRemittance, importReturn, handleWebhook  *)
(* and settleFromBank of financial/service.ts, and the partial settlement   *)
(* by hand next to them.  The transactions read without locks and write     *)
(* absolute values; what keeps two of them apart are the unique indexes of  *)
(* installments, origins, slips and remittances, the advisory lock of the   *)
(* numbers of titles, and what each has read.  A slip is registered by a    *)
(* call to the bank from inside the transaction that issues it, or by a     *)
(* remittance file.  The bank is the environment: it reports what it did    *)
(* by webhook or in return files, any number of times and in any order.     *)
(* The slips are those of one agreement; a webhook looks its number up over *)
(* all agreements of the provider, and the others are the environment too.  *)
(* Every plan has one installment.  Due dates, discounts, the statuses of   *)
(* titles (see Receivables) and payables are left out.                      *)
(***************************************************************************)
EXTENDS FiniteSetsExt, Integers

CONSTANTS
    Tx,          \* the requests; a consolidation makes the title of its name
    Sales,       \* finished sales; each has a title of its name
    Kinds,       \* the requests that may arrive
    Channels,    \* "API", "CNAB", or "none" when the provider has no adapter
    Foreign,     \* the numbers that other agreements of the provider have issued
    Value,       \* what a sale is worth
    Dates,       \* when customers pay
    MaxPayments  \* bound: payments that the bank reports

Titles == Sales \cup Tx
Sources == {"PEDIDO", "NFE", "BOLETO"}
\* The unique index of installments: one per title and source.
Installments == Titles \X Sources

ASSUME SlipsAssumption ==
    /\ Channels \subseteq {"API", "CNAB", "none"} /\ Foreign \subseteq Nat /\ Sales \cap Tx = {}
    /\ Kinds \subseteq {"bill", "boleto", "remit", "report", "settle"}
    /\ Value \in Nat /\ Value > 1 /\ MaxPayments \in Nat /\ IsFiniteSet(Sales)

VARIABLES
    channel,  \* how the agreement talks to the bank
    next,     \* its nextNossoNumero
    sequence, \* its remittanceSequence
    title,    \* title[T]: its kind, and whether it is CONSOLIDADO
    origin,   \* origin[s]: the live title of sale s
    plan,     \* plan[i]: the row of installment i
    slip,     \* slip[i]: the slip of installment i
    settled,  \* the settlements of kind BAIXA
    files,    \* the lines of the remittances, and whether the bank has read them
    bank,     \* << n, i >>: the bank has registered number n for installment i
    mail,     \* what the bank has reported
    pc, my,   \* where each request is, and what it knows
    overlap,  \* whether two requests for titles were ever under way at once
    orphans   \* numbers registered by a transaction that did not commit

vars == << channel, next, sequence, title, origin, plan, slip, settled, files, bank,
           mail, pc, my, overlap, orphans >>
money == << channel, next, sequence, title, origin, plan, slip, settled, files >>

NoRow == [status |-> "none", original |-> 0, open |-> 0, abated |-> 0]
NoSlip == [status |-> "none", number |-> 0]
\* An installment of another agreement.
Elsewhere == << >>
NoItem == [number |-> 0, occurrence |-> "none", amount |-> 0, date |-> 0, of |-> Elsewhere]

\* sales, titles, line: what is billed, its titles, the installment at hand;
\* doc: the source of the new plan; sum, number: the balance and the number
\* read; found: rows read; cancels: installments cancelled; merges: whether titles are
\* consolidated; dates: only due dates change; issued: the slip is inserted;
\* hook: the report is a webhook, and not a line of a return file.
Idle == [kind |-> "none", sales |-> {}, titles |-> {}, line |-> << >>, doc |-> "none",
         sum |-> 0, number |-> 0, cancels |-> {}, merges |-> FALSE, dates |-> FALSE,
         issued |-> FALSE, hook |-> FALSE, found |-> {}, item |-> NoItem, amount |-> 0]

\* An abatement by a return or a credit may have reduced the title of a sale;
\* a sale that has a slip already has it on a new plan.
StartPlan(i, abated, issued) ==
    LET less == IF i[1] \in abated THEN 1 ELSE 0
        row(status, open) == [status |-> status, original |-> Value, open |-> open, abated |-> less]
    IN  CASE i \in issued \X {"PEDIDO"} -> row("CANCELADA", 0)
          [] i \in issued \X {"BOLETO"} \/ i \in (Sales \ issued) \X {"PEDIDO"} ->
                row("ABERTA", Value - less)
          [] OTHER -> NoRow

Init ==
    /\ channel \in Channels
    /\ \E issued \in {{}} \cup {{s} : s \in Sales}, abated \in SUBSET Sales :
        /\ issued \cap abated = {} /\ (issued # {} => channel # "API")
        /\ next = 1 + Cardinality(issued)
        /\ title = [T \in Titles |->
                [kind |-> IF T \in issued THEN "BOLETO"
                          ELSE IF T \in Sales THEN "PEDIDO" ELSE "none",
                 merged |-> FALSE]]
        /\ plan = [i \in Installments |-> StartPlan(i, abated, issued)]
        /\ slip = [i \in Installments |->
                IF i \in issued \X {"BOLETO"} THEN [status |-> "AGUARDANDO_REGISTRO", number |-> 1]
                ELSE NoSlip]
    /\ origin = [s \in Sales |-> s]
    /\ sequence = 0 /\ settled = {} /\ files = {} /\ bank = {} /\ mail = {}
    /\ pc = [t \in Tx |-> "new"]
    /\ my = [t \in Tx |-> Idle]
    /\ overlap = FALSE /\ orphans = {}

-----------------------------------------------------------------------------
At(t, label) == pc[t] = label
\* A step of t to a label; r is what t knows then.  A request that ends
\* forgets it, and its uncommitted rows are gone.
Go(t, label, r) ==
    /\ pc' = [pc EXCEPT ![t] = label]
    /\ my' = [my EXCEPT ![t] = IF label = "done" THEN Idle ELSE r]
End(t) == Go(t, "done", Idle)
UnderWay == {t \in Tx : pc[t] \notin {"new", "done"}}
OnlyRequest == UNCHANGED << money, bank, mail, overlap, orphans >>

OfTitle(T) == {T} \X Sources
LiveOf(T) == {i \in OfTitle(T) : plan[i].status = "ABERTA"}
Live(K) == UNION {LiveOf(T) : T \in K}
OpenAmount(I) == SumFunctionOnSet([i \in Installments |-> plan[i].open], I)
PaidOn(i) == SumFunctionOnSet([r \in settled |-> r.amount], {r \in settled : r.line = i})
HasOpenBaixa(T) == \E r \in settled : r.line \in OfTitle(T)
HasAbatement(T) == \E i \in OfTitle(T) : plan[i].abated > 0
SlipsWith(n) == {i \in Installments : slip[i].status # "none" /\ slip[i].number = n}

\* The uncommitted rows of the other transactions.
Cancelling(t) == UNION {my[u].cancels : u \in UnderWay \ {t}}
Inserting(t) == {u \in UnderWay \ {t} : pc[u] \in {"issue", "commit"} /\ ~my[u].dates}
Issuing(t) == {u \in UnderWay \ {t} : my[u].issued}

\* A request arrives: bill for sales, issueBoleto for a title, a remittance, a
\* return file or webhook with a report of the bank, a settlement by hand.
Start(t) ==
    /\ At(t, "new")
    /\ \/ /\ "bill" \in Kinds
          /\ \E S \in (SUBSET Sales) \ {{}}, doc \in {"NFE", "BOLETO"} :
                Go(t, "read", [Idle EXCEPT !.kind = "bill", !.sales = S, !.doc = doc])
       \/ /\ "boleto" \in Kinds
          /\ \E T \in {x \in Titles : title[x].kind # "none"} :
                Go(t, "read", [Idle EXCEPT !.kind = "boleto", !.titles = {T}, !.doc = "BOLETO"])
       \/ /\ "remit" \in Kinds /\ channel = "CNAB"
          /\ Go(t, "read", [Idle EXCEPT !.kind = "remit"])
       \/ /\ "report" \in Kinds
          /\ \E m \in mail, hook \in BOOLEAN :
                /\ IF hook THEN m.occurrence = "LIQUIDACAO"
                   ELSE channel = "CNAB" /\ m.of # Elsewhere
                /\ Go(t, "read", [Idle EXCEPT !.kind = "report", !.item = m, !.hook = hook])
       \/ /\ "settle" \in Kinds
          /\ \E i \in {x \in Installments : plan[x].status # "none"}, d \in Dates :
                Go(t, "open", [Idle EXCEPT !.kind = "settle", !.line = i, !.item.date = d])
    /\ overlap' = (overlap \/ (my'[t].kind # "remit" /\ \E u \in UnderWay : my[u].kind # "remit"))
    /\ UNCHANGED << money, bank, mail, orphans >>

-----------------------------------------------------------------------------
(***************************************************************************)
(* bill, issueBoleto.                                                       *)
(***************************************************************************)
\* Mutant: a title with a settlement changes its plan.
MayBillUnchecked(T, bill) ==
    title[T].kind \in (IF bill THEN {"PEDIDO"} ELSE {"PEDIDO", "NFE"}) /\ (bill \/ ~title[T].merged)

MayBill(T, bill) ==
    /\ title[T].kind \in IF bill THEN {"PEDIDO"} ELSE {"PEDIDO", "NFE"}
    /\ ~HasOpenBaixa(T)
    /\ ~bill => ~title[T].merged

\* The checks before anything is written.
ReadTitles(t) ==
    /\ At(t, "read") /\ my[t].kind \in {"bill", "boleto"}
    /\ LET bill == my[t].kind = "bill"
           K == IF bill THEN {origin[s] : s \in my[t].sales} ELSE my[t].titles
           abated == {T \in K : HasAbatement(T)}
           fits == (\A T \in K : MayBill(T, bill)) /\ (Cardinality(K) > 1 => abated = {})
       IN  Go(t, IF ~fits THEN "done" ELSE IF my[t].doc = "NFE" THEN "cancel" ELSE "agreement",
              [my[t] EXCEPT !.titles = K, !.dates = abated # {}, !.merges = Cardinality(K) > 1,
                            !.sum = OpenAmount(Live(K))])
    /\ OnlyRequest

LoadAgreement(t) ==
    /\ At(t, "agreement")
    /\ Go(t, "cancel", [my[t] EXCEPT !.number = next])
    /\ OnlyRequest

\* updateDueDatesOnly, ensureMissingSlips: an abated title keeps its plan.
KeepPlan(t) ==
    /\ At(t, "cancel") /\ my[t].dates
    /\ LET open == {i \in Live(my[t].titles) : plan[i].open = my[t].sum}
       IN  \/ open = {} /\ End(t)
           \/ \E i \in open \ Cancelling(t) :
                Go(t, IF my[t].doc = "BOLETO" /\ slip[i].status \in {"none", "CANCELADO"}
                      THEN "issue" ELSE "commit", [my[t] EXCEPT !.line = i])
    /\ OnlyRequest

\* cancelLiveSchedule reads the installments and cancels those it has read,
\* when no other transaction holds them.  Before it a consolidation takes the
\* advisory lock of nextTitleNumber, and holds it until its end.
ReadSchedule(t) ==
    /\ At(t, "cancel") /\ ~my[t].dates
    /\ my[t].merges => \A u \in UnderWay \ {t} : my[u].merges => my[u].line = << >>
    /\ LET T == IF my[t].merges THEN t ELSE CHOOSE x \in my[t].titles : TRUE
       IN  Go(t, "rows", [my[t] EXCEPT !.found = Live(my[t].titles), !.line = << T, my[t].doc >>])
    /\ OnlyRequest

CancelSchedule(t) ==
    /\ At(t, "rows") /\ my[t].found \cap Cancelling(t) = {}
    /\ Go(t, "insert", [my[t] EXCEPT !.cancels = my[t].found])
    /\ OnlyRequest

\* The origins of a consolidation and the new installment: the unique indexes
\* refuse a second live origin of a sale and a second plan of one source.
InsertSchedule(t) ==
    /\ At(t, "insert")
    /\ \A u \in Inserting(t) : my[u].line # my[t].line
    /\ LET moved == my[t].merges /\ \E s \in my[t].sales : origin[s] \notin my[t].titles
           taken == plan[my[t].line].status # "none"
       IN  Go(t, IF moved \/ taken THEN "done"
                 ELSE IF my[t].doc = "BOLETO" THEN "issue" ELSE "commit", my[t])
    /\ OnlyRequest

\* issueSlips: the slip is inserted with the number that was read, and by an
\* agreement of channel API registered at the bank.
IssueSlip(t) ==
    /\ At(t, "issue")
    /\ \A u \in Issuing(t) : my[u].number # my[t].number /\ my[u].line # my[t].line
    /\ IF SlipsWith(my[t].number) # {} \/ slip[my[t].line].status \notin {"none", "CANCELADO"}
       THEN End(t) /\ UNCHANGED bank
       ELSE /\ Go(t, "commit", [my[t] EXCEPT !.issued = TRUE])
            /\ bank' = IF channel = "API" THEN bank \cup {<< my[t].number, my[t].line >>} ELSE bank
    /\ UNCHANGED << money, mail, overlap, orphans >>

\* Mutant: the number of a slip is not written back.
NumberNotWrittenBack(t) == next

NextNossoNumero(t) == IF my[t].issued THEN my[t].number + 1 ELSE next

\* The agreement's next number, the titles, and the commit.
CommitPlan(t) ==
    /\ At(t, "commit")
    /\ LET r == my[t]
           T == r.line[1]
       IN  /\ plan' = [i \in Installments |->
                CASE i = r.line /\ ~r.dates ->
                        [status |-> "ABERTA", original |-> r.sum, open |-> r.sum, abated |-> 0]
                  [] i \in r.cancels -> [plan[i] EXCEPT !.status = "CANCELADA", !.open = 0]
                  [] OTHER -> plan[i]]
           /\ slip' = [i \in Installments |->
                CASE i = r.line /\ r.issued ->
                        [status |-> IF channel = "API" THEN "REGISTRADO" ELSE "AGUARDANDO_REGISTRO",
                         number |-> r.number]
                  [] i \in r.cancels /\ slip[i].status # "none" ->
                        [slip[i] EXCEPT !.status = "CANCELADO"]
                  [] OTHER -> slip[i]]
           /\ next' = NextNossoNumero(t)
           /\ title' = [x \in Titles |->
                CASE x = T -> [title[x] EXCEPT !.kind = r.doc]
                  [] r.merges /\ x \in r.titles -> [title[x] EXCEPT !.merged = TRUE]
                  [] OTHER -> title[x]]
           /\ origin' = [s \in Sales |-> IF r.merges /\ s \in r.sales THEN T ELSE origin[s]]
    /\ End(t)
    /\ UNCHANGED << channel, sequence, settled, files, bank, mail, overlap, orphans >>

(***************************************************************************)
(* createRemittance: the slips that wait are read, then the file is stored. *)
(***************************************************************************)
ReadWaiting(t) ==
    /\ At(t, "read") /\ my[t].kind = "remit"
    /\ LET waiting == {i \in Installments : slip[i].status = "AGUARDANDO_REGISTRO"}
       IN  Go(t, IF waiting = {} THEN "done" ELSE "store",
              [my[t] EXCEPT !.found = waiting, !.number = sequence + 1])
    /\ OnlyRequest

\* The unique index refuses a sequence that another remittance has taken.
StoreRemittance(t) ==
    /\ At(t, "store")
    /\ IF sequence >= my[t].number THEN UNCHANGED << sequence, files >>
       ELSE /\ sequence' = my[t].number
            /\ files' = files \cup {[sequence |-> my[t].number, number |-> slip[i].number,
                                     line |-> i, read |-> FALSE] : i \in my[t].found}
    /\ End(t)
    /\ UNCHANGED << channel, next, title, origin, plan, slip, settled, bank, mail, overlap,
                    orphans >>

(***************************************************************************)
(* importReturn, handleWebhook: the slip is found by its number, in a       *)
(* return among the slips of the agreement, by a webhook among those of all *)
(* agreements of the provider.                                              *)
(***************************************************************************)
\* Mutant: the live plan of the title is taken for the slip's installment.
LivePlanOf(n, hook) == Live({i[1] : i \in SlipsWith(n)})

\* The select takes any one of them.
SlipFound(n, hook) == SlipsWith(n) \cup (IF hook /\ n \in Foreign THEN {Elsewhere} ELSE {})

\* A slip of another agreement is settled there.
ReadReport(t) ==
    /\ At(t, "read") /\ my[t].kind = "report"
    /\ LET found == SlipFound(my[t].item.number, my[t].hook)
       IN  \/ (found = {} \/ Elsewhere \in found) /\ End(t)
           \/ \E i \in found \ {Elsewhere} :
                Go(t, IF my[t].item.occurrence = "LIQUIDACAO" THEN "already" ELSE "status",
                   [my[t] EXCEPT !.line = i])
    /\ OnlyRequest

\* Mutant: a slip whose registration is confirmed becomes REJEITADO.
StatusSwapped(occurrence) ==
    IF occurrence = "REGISTRO_REJEITADO" THEN "REGISTRADO" ELSE "REJEITADO"

StatusAfter(occurrence) ==
    IF occurrence = "REGISTRO_CONFIRMADO" THEN "REGISTRADO" ELSE "REJEITADO"

WriteSlipStatus(t) ==
    /\ At(t, "status") /\ my[t].line \notin Cancelling(t)
    /\ slip' = [slip EXCEPT ![my[t].line].status = StatusAfter(my[t].item.occurrence)]
    /\ End(t)
    /\ UNCHANGED << channel, next, sequence, title, origin, plan, settled, files, bank, mail,
                    overlap, orphans >>

(***************************************************************************)
(* settleFromBank, and settle by hand from its read on.                     *)
(***************************************************************************)
\* Mutant: a payment is never found among the settlements.
NeverSame(t, r) == FALSE

SameSettlement(t, r) ==
    r.line = my[t].line /\ r.amount = my[t].item.amount /\ r.date = my[t].item.date

LookUpSettlement(t) ==
    /\ At(t, "already")
    /\ Go(t, IF \E r \in settled : SameSettlement(t, r) THEN "done" ELSE "open", my[t])
    /\ OnlyRequest

ReadOpen(t) ==
    /\ At(t, "open")
    /\ LET row == plan[my[t].line]
           fits(amount) == row.status # "CANCELADA" /\ amount > 0 /\ amount <= row.open
       IN  \E amount \in IF my[t].kind = "report" THEN {Min({my[t].item.amount, row.open})}
                          ELSE 1 .. Value :
            Go(t, IF fits(amount) THEN "pay" ELSE "done",
               [my[t] EXCEPT !.sum = row.open, !.amount = amount])
    /\ OnlyRequest

WriteSettlement(t) ==
    /\ At(t, "pay") /\ my[t].line \notin Cancelling(t)
    /\ LET i == my[t].line
       IN  /\ plan' = [plan EXCEPT ![i].open = my[t].sum - my[t].amount]
           /\ settled' = settled \cup {[tx |-> t, by |-> my[t].kind, line |-> i,
                                        amount |-> my[t].amount, date |-> my[t].item.date]}
           /\ slip' = IF my[t].kind = "report" THEN [slip EXCEPT ![i].status = "LIQUIDADO"]
                      ELSE slip
    /\ End(t)
    /\ UNCHANGED << channel, next, sequence, title, origin, files, bank, mail, overlap, orphans >>

\* The request fails or its process dies: the transaction is rolled back, what
\* the bank has registered stays.
Fail(t) ==
    /\ t \in UnderWay
    /\ orphans' = IF my[t].issued /\ channel = "API" THEN orphans \cup {my[t].number} ELSE orphans
    /\ End(t)
    /\ UNCHANGED << money, bank, mail, overlap >>

-----------------------------------------------------------------------------
(***************************************************************************)
(* The bank.                                                                *)
(***************************************************************************)
Report(f, occurrence) ==
    mail' = mail \cup {[NoItem EXCEPT !.number = f.number, !.of = f.line, !.occurrence = occurrence]}

\* A line of a remittance is registered, or rejected, always so when the
\* number is registered already.
ReadFile(f) ==
    /\ ~f.read
    /\ files' = (files \ {f}) \cup {[f EXCEPT !.read = TRUE]}
    /\ \/ /\ \A b \in bank : b[1] # f.number
          /\ bank' = bank \cup {<< f.number, f.line >>}
          /\ Report(f, "REGISTRO_CONFIRMADO")
       \/ /\ UNCHANGED bank
          /\ Report(f, "REGISTRO_REJEITADO")
    /\ UNCHANGED << channel, next, sequence, title, origin, plan, slip, settled, pc, my,
                    overlap, orphans >>

Payments == {m \in mail : m.occurrence = "LIQUIDACAO"}

\* A customer pays a slip of this agreement or of another one.
Payable == bank \cup (IF channel = "none" THEN {} ELSE Foreign \X {Elsewhere})

Paid(b) ==
    /\ Cardinality(Payments) < MaxPayments
    /\ \E amount \in 1 .. Value + 1, d \in Dates :
        mail' = mail \cup {[number |-> b[1], occurrence |-> "LIQUIDACAO", amount |-> amount,
                            date |-> d, of |-> b[2]]}
    /\ UNCHANGED << money, bank, pc, my, overlap, orphans >>

RequestStep(t) ==
    \/ ReadTitles(t) \/ LoadAgreement(t) \/ KeepPlan(t) \/ ReadSchedule(t)
    \/ CancelSchedule(t) \/ InsertSchedule(t) \/ IssueSlip(t) \/ CommitPlan(t)
    \/ ReadWaiting(t) \/ StoreRemittance(t) \/ ReadReport(t) \/ WriteSlipStatus(t)
    \/ LookUpSettlement(t) \/ ReadOpen(t) \/ WriteSettlement(t)

Next ==
    \/ \E t \in Tx : Start(t) \/ RequestStep(t) \/ Fail(t)
    \/ \E f \in files : ReadFile(f)
    \/ \E b \in Payable : Paid(b)

Spec == Init /\ [][Next]_vars

-----------------------------------------------------------------------------
TypeOK ==
    /\ next \in Nat \ {0} /\ sequence \in Nat
    /\ \A i \in Installments :
        /\ plan[i].status \in {"none", "ABERTA", "CANCELADA"}
        /\ plan[i].open \in 0 .. plan[i].original
        /\ slip[i].status \in {"none", "AGUARDANDO_REGISTRO", "REGISTRADO", "REJEITADO",
                               "LIQUIDADO", "CANCELADO"}
        /\ slip[i].number < next
    /\ \A s \in Sales : title[origin[s]].kind # "none"
    /\ \A i, j \in Installments :
        i # j /\ slip[i].status # "none" => slip[i].number # slip[j].number

\* What a customer pays with a slip is settled on the installment the slip was
\* issued for, or on none, but in two cases: its number was registered at the
\* bank by a transaction that did not commit, and the next slip takes the same
\* number; or a webhook reports a number that another agreement has issued too.
\* A return file never takes the slip of another agreement.
PaymentsReachTheirPlan ==
    \A t \in Tx :
        At(t, "pay") /\ my[t].kind = "report" =>
            \/ my[t].line = my[t].item.of
            \/ my[t].item.number \in orphans
            \/ my[t].hook /\ my[t].item.number \in Foreign

\* A sale has one live plan: the open installment of its title amounts to the
\* sales of the title, and what is open, settled and abated adds up to it, as
\* long as the requests for titles do not overlap.  Reports of the bank may
\* come several times and in any order.
SalesBilledOnce ==
    ~overlap => \A T \in {origin[s] : s \in Sales} :
        /\ Cardinality(LiveOf(T)) = 1 /\ ~title[T].merged
        /\ \A i \in LiveOf(T) :
            LET worth == Value * Cardinality({s \in Sales : origin[s] = T})
            IN  plan[i].original = worth /\ plan[i].open + PaidOn(i) + plan[i].abated = worth

\* A payment is settled once on an installment, however often it is reported, in
\* a return file, by webhook or in both: a slip has no more settlements by the
\* bank than payments with its number, and only an orphan's or another
\* agreement's payment is among them when it is not the slip's own.
PaymentsSettledOnce ==
    ~overlap => \A i \in Installments :
        Cardinality({r \in settled : r.line = i /\ r.by = "report"})
            <= Cardinality({m \in Payments : m.number = slip[i].number
                                /\ (m.of = i \/ m.number \in orphans \cup Foreign)})

\* A slip that is REJEITADO is not registered at the bank, unless it was sent
\* in two remittances: it stays AGUARDANDO_REGISTRO until the first return.
RejectedIsNotRegistered ==
    \A i \in Installments :
        slip[i].status = "REJEITADO" /\ << slip[i].number, i >> \in bank =>
            \E f, g \in files : f # g /\ f.line = i /\ g.line = i
=============================================================================
