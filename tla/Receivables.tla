----------------------------- MODULE Receivables -----------------------------
(***************************************************************************)
(* A title of the financial module, its installments, the settlements made  *)
(* against them and a credit of its member.                                 *)
(*                                                                         *)
(* Models settle, settleIntegral, reverse and applyCredit of                *)
(* src/modules/financial/service.ts, and reduceOpenBalance and refreshTitle *)
(* of ledger.ts.  Each is one transaction that reads balances, computes     *)
(* what they become and writes the results as absolute values; only         *)
(* settleIntegral locks what it reads.  An amount is the abatement of the   *)
(* open balance, paid + discount - increase.  Billing, slips and the        *)
(* returns of sales are not modelled here: the title is never CONSOLIDADO   *)
(* or CANCELADO and no installment is CANCELADA.                            *)
(***************************************************************************)
EXTENDS Integers, FiniteSetsExt, Functions

CONSTANTS
    Transactions,  \* one per request
    N,             \* installments are numbered 1 .. N, the earliest first
    Original,      \* the original amount of each installment
    SettledBefore, \* the installments settled before the first request
    CreditTotal,   \* the original amount of the credit
    RequestKinds,  \* the requests that may arrive
    Title,         \* the row of the title, as a lock
    Credit,        \* the row of the credit, as a lock
    Nothing,       \* a column the transaction has not written
    NoTx

Parcels == 1 .. N   \* the installments of the title
LockRows == Parcels \cup {Title, Credit}
InstallmentStatuses == {"ABERTA", "PARCIAL", "QUITADA"}

ASSUME ReceivablesAssumption ==
    /\ N \in Nat \ {0} /\ CreditTotal \in Nat
    /\ Original \in [Parcels -> Nat \ {0}]
    /\ SettledBefore \subseteq Parcels
    /\ Title \notin Parcels /\ Credit \notin Parcels
    /\ Title # Credit
    /\ NoTx \notin Transactions
    /\ Nothing \notin Nat \cup InstallmentStatuses
    /\ RequestKinds \subseteq
           {"settle", "settleIntegral", "reverse", "applyCredit"}

TitleOriginal == SumFunctionOnSet(Original, Parcels)

\* The statuses refreshTitle gives to an installment and to the title.
InstallmentStatus(i, left) ==
    IF left <= 0 THEN "QUITADA"
    ELSE IF left < Original[i] THEN "PARCIAL" ELSE "ABERTA"
TitleStatus(left) ==
    IF left <= 0 THEN "QUITADO"
    ELSE IF left < TitleOriginal THEN "PARCIAL" ELSE "ABERTO"
Refreshed(total) == [open |-> total, status |-> TitleStatus(total)]

\* A settlement: the kind, the installment, the amount, the request it came
\* from and, for an ESTORNO, the request whose BAIXA of that installment it
\* reverses.
SettlementKinds == {"BAIXA", "ESTORNO", "ABATIMENTO_CREDITO"}
SettlementRows ==
    [kind : SettlementKinds, installment : Parcels, amount : Nat \ {0},
     by : Transactions \cup {NoTx},
     reverses : Transactions \cup {NoTx, Nothing}]

VARIABLES
    open,         \* open[i]: the committed open amount of installment i
    status,       \* status[i]: its committed status
    titleRow,     \* the committed title: its open amount and status
    credit,       \* the committed open amount of the credit
    settlements,  \* the committed settlements
    lock,         \* lock[r]: the transaction that holds row r
    step,         \* where each transaction is
    request,      \* request[t]: what t asks, what it read and what it wrote
    overlapped    \* a request committed while another one was under way, and
                  \* one of them was not a settleIntegral

titleVars == << open, status, titleRow, credit, settlements, lock, step,
                request, overlapped >>

\* A request: what it asks (kind, installment, amount, picked, target), what
\* it locked and read (locked, seen, total), the writes it still has to do
\* (plan, changed), and what it wrote (the others).
NoRequest == [kind |-> "none", installment |-> 0, amount |-> 0, picked |-> {},
         target |-> {}, locked |-> {}, seen |-> 0, total |-> 0, plan |-> {},
         changed |-> {}, open |-> [i \in Parcels |-> Nothing],
         status |-> [i \in Parcels |-> Nothing], title |-> {},
         credit |-> Nothing, settlements |-> {}]

FirstOpen == [i \in Parcels |->
                  IF i \in SettledBefore THEN 0 ELSE Original[i]]

TitleInit ==
    /\ open = FirstOpen
    /\ status = [i \in Parcels |-> InstallmentStatus(i, FirstOpen[i])]
    /\ titleRow = Refreshed(SumFunctionOnSet(FirstOpen, Parcels))
    /\ credit = CreditTotal
    /\ settlements =
           {[kind |-> "BAIXA", installment |-> i, by |-> NoTx,
             amount |-> Original[i], reverses |-> Nothing] : i \in SettledBefore}
    /\ lock = [r \in LockRows |-> NoTx]
    /\ step = [t \in Transactions |-> "new"]
    /\ request = [t \in Transactions |-> NoRequest]
    /\ overlapped = FALSE

-----------------------------------------------------------------------------
MayLock(t, r) == lock[r] \in {t, NoTx}
Take(t, r) == MayLock(t, r) /\ lock' = [lock EXCEPT ![r] = t]

\* READ COMMITTED: the transaction's own write, else the committed column.
OpenSeen(t, i) ==
    IF request[t].open[i] # Nothing THEN request[t].open[i] ELSE open[i]
StatusSeen(t, i) ==
    IF request[t].status[i] # Nothing THEN request[t].status[i] ELSE status[i]
OpensSeen(t) == [i \in Parcels |-> OpenSeen(t, i)]

AtStep(t, label) == step[t] = label
GoTo(t, label) == step' = [step EXCEPT ![t] = label]
Keep(t, field, value) == request' = [request EXCEPT ![t][field] = value]
Pending ==
    UNCHANGED << open, status, titleRow, credit, settlements, overlapped >>

\* One row of the plan: the balance an installment gets, and why.
PlanRow(i, value, kind, amount, reverses) ==
    [installment |-> i, open |-> value, kind |-> kind, amount |-> amount,
     reverses |-> reverses]

Request(t, kind, i, amount, picked, target) ==
    /\ kind \in RequestKinds
    /\ request' = [request EXCEPT ![t] = [NoRequest EXCEPT
                !.kind = kind, !.installment = i, !.amount = amount,
                !.picked = picked, !.target = target]]
    /\ GoTo(t, IF kind = "settleIntegral" THEN "lock" ELSE "read")

Open(t) ==
    /\ AtStep(t, "new")
    /\ \/ \E i \in Parcels : \E a \in 1 .. Original[i] :
            Request(t, "settle", i, a, {}, {})
       \/ \E S \in (SUBSET Parcels) \ {{}} :
            Request(t, "settleIntegral", 0, 0, S, {})
       \/ \E s \in settlements : /\ s.kind = "BAIXA"
                                 /\ Request(t, "reverse", 0, 0, {}, {s})
       \/ \E a \in 1 .. CreditTotal : Request(t, "applyCredit", 0, a, {}, {})
    /\ Pending /\ UNCHANGED lock

-----------------------------------------------------------------------------
(***************************************************************************)
(* settle: the installment is read, then the title, without a lock.         *)
(***************************************************************************)
ReadInstallment(t) ==
    /\ AtStep(t, "read") /\ request[t].kind = "settle"
    /\ Keep(t, "seen", open[request[t].installment])
    /\ GoTo(t, "check")
    /\ Pending /\ UNCHANGED lock

\* Mutant: the amount is not compared with the balance.
AmountUnchecked(amount, balance) == TRUE

\* An INTEGRAL settlement takes the whole balance, a PARCIAL one less.
AmountFits(amount, balance) == amount <= balance

PlanSettle(t) ==
    /\ AtStep(t, "check") /\ request[t].kind = "settle"
    /\ titleRow.status # "QUITADO"
    /\ AmountFits(request[t].amount, request[t].seen)
    /\ LET left == request[t].seen - request[t].amount
       IN  Keep(t, "plan", {PlanRow(request[t].installment, left, "BAIXA",
                                  request[t].amount, Nothing)})
    /\ GoTo(t, "write")
    /\ Pending /\ UNCHANGED lock

-----------------------------------------------------------------------------
(***************************************************************************)
(* settleIntegral: the installments are locked one by one, then the title.  *)
(***************************************************************************)

\* Mutant: the installments are read without FOR UPDATE.
LockedForIntegralUnlocked(t, i) == UNCHANGED lock

LockedForIntegral(t, i) == Take(t, i)

LockInstallment(t) ==
    /\ AtStep(t, "lock")
    /\ \E i \in request[t].picked \ request[t].locked :
        /\ LockedForIntegral(t, i)
        /\ request' = [request EXCEPT ![t].locked = @ \cup {i},
               ![t].plan = @ \cup {PlanRow(i, 0, "BAIXA", open[i], Nothing)}]
    /\ UNCHANGED step /\ Pending

LockTitle(t) ==
    /\ AtStep(t, "lock") /\ request[t].picked = request[t].locked
    /\ Take(t, Title)
    /\ GoTo(t, "check")
    /\ Pending /\ UNCHANGED request

CheckIntegral(t) ==
    /\ AtStep(t, "check") /\ request[t].kind = "settleIntegral"
    /\ titleRow.status # "QUITADO" /\ \A w \in request[t].plan : w.amount > 0
    /\ GoTo(t, "write")
    /\ Pending /\ UNCHANGED << lock, request >>

-----------------------------------------------------------------------------
(***************************************************************************)
(* reverse: the settlement must be a BAIXA without ESTORNO.                 *)
(***************************************************************************)
Target(t) == CHOOSE s \in request[t].target : TRUE

NotReversed(s) ==
    ~\E e \in settlements : /\ e.kind = "ESTORNO" /\ e.reverses = s.by
                            /\ e.installment = s.installment

ReadSettlement(t) ==
    /\ AtStep(t, "read") /\ request[t].kind = "reverse"
    /\ NotReversed(Target(t))
    /\ GoTo(t, "check")
    /\ Pending /\ UNCHANGED << lock, request >>

PlanReverse(t) ==
    /\ AtStep(t, "check") /\ request[t].kind = "reverse"
    /\ LET s == Target(t)
           next == open[s.installment] + s.amount
       IN  /\ next <= Original[s.installment]
           /\ Keep(t, "plan", {PlanRow(s.installment, next, "ESTORNO",
                                     s.amount, s.by)})
    /\ GoTo(t, "write")
    /\ Pending /\ UNCHANGED lock

-----------------------------------------------------------------------------
(***************************************************************************)
(* applyCredit: the credit is read, then reduceOpenBalance spreads the      *)
(* amount over the open installments, the earliest first.                   *)
(***************************************************************************)
ReadCredit(t) ==
    /\ AtStep(t, "read") /\ request[t].kind = "applyCredit"
    /\ AmountFits(request[t].amount, credit)
    /\ Keep(t, "seen", credit)
    /\ GoTo(t, "check")
    /\ Pending /\ UNCHANGED lock

\* What installment i gets of amount a when the earlier ones come first.
ShareOf(i, a) ==
    LET before == SumFunctionOnSet(open, {j \in Parcels : j < i})
    IN  Min({open[i], Max({0, a - before})})

PlanCredit(t) ==
    /\ AtStep(t, "check") /\ request[t].kind = "applyCredit"
    /\ LET share == [i \in Parcels |-> ShareOf(i, request[t].amount)]
       IN  /\ SumFunctionOnSet(share, Parcels) = request[t].amount
           /\ Keep(t, "plan",
                   {PlanRow(i, open[i] - share[i], "ABATIMENTO_CREDITO",
                            share[i], Nothing) :
                      i \in {j \in Parcels : share[j] > 0}})
    /\ GoTo(t, "write")
    /\ Pending /\ UNCHANGED lock

-----------------------------------------------------------------------------
(***************************************************************************)
(* The writes, refreshTitle and the credit.                                 *)
(***************************************************************************)

\* UPDATE of the installment to the value computed before, and INSERT of the
\* settlement.
WriteInstallment(t) ==
    /\ AtStep(t, "write") /\ request[t].plan # {}
    /\ LET w == CHOOSE x \in request[t].plan :
                    \A y \in request[t].plan : x.installment <= y.installment
           s == [kind |-> w.kind, installment |-> w.installment,
                 amount |-> w.amount, by |-> t, reverses |-> w.reverses]
       IN  /\ Take(t, w.installment)
           /\ request' = [request EXCEPT ![t].plan = @ \ {w},
                               ![t].open[w.installment] = w.open,
                               ![t].settlements = @ \cup {s}]
    /\ UNCHANGED step /\ Pending

\* refreshTitle reads the installments ...
ReadOpens(t) ==
    /\ AtStep(t, "write") /\ request[t].plan = {}
    /\ request' = [request EXCEPT
        ![t].total = SumFunctionOnSet(OpensSeen(t), Parcels),
        ![t].changed = {<< i, InstallmentStatus(i, OpenSeen(t, i)) >> :
                          i \in {j \in Parcels :
                                   InstallmentStatus(j, OpenSeen(t, j))
                                       # StatusSeen(t, j)}}]
    /\ GoTo(t, "statuses")
    /\ Pending /\ UNCHANGED lock

\* ... updates the statuses that changed ...
WriteStatuses(t) ==
    /\ AtStep(t, "statuses")
    /\ \A c \in request[t].changed : MayLock(t, c[1])
    /\ lock' = [r \in LockRows |->
                  IF \E c \in request[t].changed : c[1] = r THEN t ELSE lock[r]]
    /\ Keep(t, "status", [i \in Parcels |->
                    IF \E c \in request[t].changed : c[1] = i
                    THEN (CHOOSE c \in request[t].changed : c[1] = i)[2]
                    ELSE Nothing])
    /\ GoTo(t, "title")
    /\ Pending

\* ... and writes the sum and the status it implies to the title.
WriteTitle(t) ==
    /\ AtStep(t, "title")
    /\ Take(t, Title)
    /\ Keep(t, "title", {Refreshed(request[t].total)})
    /\ GoTo(t, IF request[t].kind = "applyCredit" THEN "credit" ELSE "commit")
    /\ Pending

WriteCredit(t) ==
    /\ AtStep(t, "credit")
    /\ Take(t, Credit)
    /\ Keep(t, "credit", request[t].seen - request[t].amount)
    /\ GoTo(t, "commit")
    /\ Pending

-----------------------------------------------------------------------------
Freed(t) == [r \in LockRows |-> IF lock[r] = t THEN NoTx ELSE lock[r]]
InProgress(t) == step[t] \notin {"new", "done"}

Commit(t) ==
    /\ AtStep(t, "commit")
    /\ open' = OpensSeen(t)
    /\ status' = [i \in Parcels |-> StatusSeen(t, i)]
    /\ titleRow' = CHOOSE x \in request[t].title : TRUE
    /\ credit' = IF request[t].credit = Nothing THEN credit
                 ELSE request[t].credit
    /\ settlements' = settlements \cup request[t].settlements
    /\ lock' = Freed(t)
    /\ request' = [request EXCEPT ![t] = NoRequest]
    /\ GoTo(t, "done")
    /\ overlapped' = (overlapped \/ \E u \in Transactions \ {t} :
            /\ InProgress(u)
            /\ {request[t].kind, request[u].kind} # {"settleIntegral"})

\* The request is refused, dies in a deadlock or loses its connection.
Abort(t) ==
    /\ InProgress(t)
    /\ lock' = Freed(t)
    /\ request' = [request EXCEPT ![t] = NoRequest]
    /\ GoTo(t, "done")
    /\ Pending

TitleNext == \E t \in Transactions :
    \/ Open(t)
    \/ ReadInstallment(t) \/ PlanSettle(t)
    \/ LockInstallment(t) \/ LockTitle(t) \/ CheckIntegral(t)
    \/ ReadSettlement(t) \/ PlanReverse(t)
    \/ ReadCredit(t) \/ PlanCredit(t)
    \/ WriteInstallment(t) \/ ReadOpens(t) \/ WriteStatuses(t)
    \/ WriteTitle(t) \/ WriteCredit(t)
    \/ Commit(t) \/ Abort(t)

TitleSpec == TitleInit /\ [][TitleNext]_titleVars

-----------------------------------------------------------------------------
TitleTypeOK ==
    /\ \A i \in Parcels : open[i] \in 0 .. Original[i]
    /\ status \in [Parcels -> InstallmentStatuses]
    /\ titleRow \in [open : 0 .. TitleOriginal,
                  status : {"ABERTO", "PARCIAL", "QUITADO"}]
    /\ credit \in 0 .. CreditTotal
    /\ settlements \subseteq SettlementRows
    /\ lock \in [LockRows -> Transactions \cup {NoTx}]

\* The settlements of installment i that took from its balance, and those
\* that gave back to it.
AmountsOf(S) == SumFunctionOnSet([s \in S |-> s.amount], S)
Settled(i, kinds) ==
    AmountsOf({s \in settlements : s.installment = i /\ s.kind \in kinds})
Taken(i) == Settled(i, SettlementKinds \ {"ESTORNO"}) - Settled(i, {"ESTORNO"})

SpentCredit ==
    AmountsOf({s \in settlements : s.kind = "ABATIMENTO_CREDITO"})

\* The open balance of an installment is what its settlements left of it, its
\* status says so, and the title sums its installments.
BalancesFollowSettlements ==
    \A i \in Parcels : /\ open[i] = Original[i] - Taken(i)
                            /\ status[i] = InstallmentStatus(i, open[i])
TitleFollowsInstallments ==
    titleRow = Refreshed(SumFunctionOnSet(open, Parcels))

ReversedOnce ==
    \A e, f \in settlements :
        /\ e.kind = "ESTORNO" /\ f.kind = "ESTORNO"
        /\ e.installment = f.installment /\ e.reverses = f.reverses
        => e = f

\* As long as the only requests that overlap are settleIntegral's, which lock
\* what they read, balances, statuses, title and credit all agree with the
\* settlements and no settlement is reversed twice.
LockedRequestsAgree ==
    overlapped \/ /\ BalancesFollowSettlements
                  /\ TitleFollowsInstallments
                  /\ credit = CreditTotal - SpentCredit
                  /\ ReversedOnce
=============================================================================
