-------------------------- MODULE Financial_proofs --------------------------
(***************************************************************************)
(* Proofs about the titles of the financial module.                         *)
(*                                                                         *)
(* BankSlips, for any number of requests, sales and payments: what is paid  *)
(* with a slip reaches the installment of the slip or none, unless its      *)
(* number was registered by a transaction that did not commit, or a webhook *)
(* reports it and another agreement has issued it too; a slip that is       *)
(* REJEITADO is not registered, unless it was sent twice; the columns are   *)
(* of their types, whatever overlaps; a sale is billed once and a payment   *)
(* settled once on an installment, as long as requests for titles do not    *)
(* overlap.                                                                 *)
(*                                                                         *)
(* Receivables, for any number of requests, installments and amounts: the   *)
(* columns are of their types, whatever overlaps; balances, statuses, title *)
(* and credit agree with the settlements as long as the only requests that  *)
(* overlap are settleIntegral's, which lock what they read.                 *)
(***************************************************************************)
EXTENDS BankSlips, Receivables, FiniteSetTheorems, SumTheorems, TLAPS

Labels ==
    {"new", "read", "agreement", "cancel", "rows", "insert", "issue", "commit", "store",
     "status", "already", "open", "pay", "done"}
Fields ==
    {"kind", "sales", "titles", "line", "doc", "sum", "number", "cancels", "merges", "dates",
     "issued", "hook", "found", "item", "amount"}
RowFields == {"status", "original", "open", "abated"}
Statuses ==
    {"none", "AGUARDANDO_REGISTRO", "REGISTRADO", "REJEITADO", "LIQUIDADO", "CANCELADO"}

\* The shape of the state, as far as the theorems depend on it.
Shape ==
    /\ channel \in {"API", "CNAB", "none"} /\ next \in Nat /\ sequence \in Nat
    /\ origin \in [Sales -> Titles]
    /\ plan = [i \in Installments |-> plan[i]]
    /\ \A i \in Installments : plan[i] = [f \in RowFields |-> plan[i][f]]
    /\ slip \in [Installments -> [status : Statuses, number : Nat]]
    /\ files \subseteq [sequence : Nat, number : Nat, line : Installments, read : BOOLEAN]
    /\ bank \subseteq Nat \X Installments
    /\ pc \in [Tx -> Labels]
    /\ my = [t \in Tx |-> my[t]]
    /\ \A t \in Tx :
        /\ my[t] = [f \in Fields |-> my[t][f]]
        /\ my[t].number \in Nat /\ my[t].issued \in BOOLEAN /\ my[t].dates \in BOOLEAN

HasSlip(i) == i \in Installments /\ slip[i].status # "none"
HasPlan(i) == i \in Installments /\ plan[i].status # "none"

\* Every slip has its number, and an abated title keeps its plan and its slip.
Slips ==
    /\ \A i \in Installments : HasSlip(i) => HasPlan(i)
    /\ \A i, j \in Installments :
        HasSlip(i) /\ HasSlip(j) /\ slip[i].number = slip[j].number => i = j
    /\ \A i \in Installments : slip[i].status = "CANCELADO" => ~HasAbatement(i[1])
    /\ \A i \in Installments : plan[i].status = "none" => ~(plan[i].abated > 0)

\* A remittance carries slips, each once.
Files ==
    /\ \A f \in files :
        /\ channel = "CNAB" /\ f.sequence <= sequence
        /\ HasSlip(f.line) /\ slip[f.line].number = f.number
    /\ \A f, g \in files : f.sequence = g.sequence /\ f.line = g.line => f = g

\* What the bank has registered, it was asked to: by the transaction of a slip
\* that has committed, will do so or did not, or by a remittance.
Registered(b) ==
    /\ \/ b[1] \in orphans
       \/ HasSlip(b[2]) /\ slip[b[2]].number = b[1]
       \/ \E u \in Tx : my[u].issued /\ my[u].number = b[1] /\ my[u].line = b[2]
    /\ channel # "API" => \E f \in files : f.read /\ f.number = b[1] /\ f.line = b[2]

SentTwice(n) == \E f, g \in files : f # g /\ f.number = n /\ g.number = n

\* What the bank reports is so.
Reported(m) ==
    /\ m.occurrence \in {"LIQUIDACAO", "REGISTRO_CONFIRMADO", "REGISTRO_REJEITADO"}
    /\ m.occurrence = "LIQUIDACAO" =>
        << m.number, m.of >> \in bank \/ (m.of = Elsewhere /\ m.number \in Foreign)
    /\ m.occurrence = "REGISTRO_REJEITADO" =>
        /\ \E f \in files : f.read /\ f.number = m.number
        /\ \A b \in bank : b[1] = m.number => SentTwice(m.number)

Bank ==
    /\ \A b \in bank : Registered(b)
    /\ \A m \in mail : Reported(m)
    /\ \A i \in Installments : slip[i].status = "REJEITADO" =>
        \E m \in mail : m.occurrence = "REGISTRO_REJEITADO" /\ m.number = slip[i].number

\* What a request for titles has read and written.
MayCancel(i) == HasPlan(i) /\ ~HasAbatement(i[1])
Inserts(t) == pc[t] \in {"issue", "commit"} /\ ~my[t].dates
Bills(t) ==
    /\ pc[t] = "read" /\ my[t].kind \in {"bill", "boleto"} =>
        /\ my[t].doc \in {"NFE", "BOLETO"}
        /\ my[t].kind = "bill" => my[t].sales # {} /\ my[t].sales \subseteq Sales
        /\ my[t].kind = "boleto" => \E T \in Titles : my[t].titles = {T}
    /\ pc[t] \in {"agreement", "cancel"} =>
        /\ my[t].doc \in {"NFE", "BOLETO"} /\ my[t].titles # {}
        /\ \A T \in my[t].titles : T \in Titles /\ (my[t].dates <=> HasAbatement(T))
    /\ pc[t] \in {"rows", "insert"} => ~my[t].dates
    /\ pc[t] \in {"rows", "insert", "issue", "commit"} => my[t].line \in Installments
    /\ pc[t] = "rows" => \A i \in my[t].found : MayCancel(i)
    /\ \A i \in my[t].cancels : MayCancel(i)
    /\ pc[t] \in {"issue", "commit"} /\ my[t].dates =>
        HasPlan(my[t].line) /\ HasAbatement(my[t].line[1])
    /\ Inserts(t) => ~HasPlan(my[t].line)

\* The slip of a request is new, and so is its number.
Issues(t) ==
    my[t].issued =>
        /\ pc[t] = "commit" /\ ~HasSlip(my[t].line)
        /\ \A i \in Installments : HasSlip(i) => slip[i].number # my[t].number

\* A remittance, and a report of the bank, are about slips.
Remits(t) ==
    /\ At(t, "read") /\ my[t].kind = "remit" => channel = "CNAB"
    /\ At(t, "store") => channel = "CNAB" /\ \A i \in my[t].found : HasSlip(i)
Reports(t) ==
    my[t].kind = "report" =>
        /\ pc[t] \in {"read", "already", "status", "open", "pay"} /\ my[t].item \in mail
        /\ ~At(t, "read") => HasSlip(my[t].line) /\ slip[my[t].line].number = my[t].item.number
        /\ pc[t] \in {"already", "open", "pay"} => my[t].item.occurrence = "LIQUIDACAO"
        /\ At(t, "status") => my[t].item.occurrence # "LIQUIDACAO"
        /\ ~my[t].hook => my[t].item.of # Elsewhere

RequestOK(t) ==
    /\ pc[t] \in {"new", "done"} => my[t] = Idle
    /\ pc[t] \in {"already", "status"} => my[t].kind = "report"
    /\ pc[t] \in {"open", "pay"} => my[t].kind \in {"report", "settle"}
    /\ pc[t] \in {"agreement", "cancel", "rows", "insert", "issue", "commit"} =>
        my[t].kind \in {"bill", "boleto"}
    /\ At(t, "store") => my[t].kind = "remit"
    /\ Bills(t) /\ Issues(t) /\ Remits(t) /\ Reports(t)

\* Two requests do not write the same plan or slip, or the same number.
Apart ==
    \A t, u \in Tx : t # u =>
        /\ Inserts(t) /\ Inserts(u) => my[t].line # my[u].line
        /\ my[t].issued /\ my[u].issued =>
            my[t].line # my[u].line /\ my[t].number # my[u].number

IInv == Shape /\ Slips /\ Files /\ Bank /\ Apart /\ \A t \in Tx : RequestOK(t)

-----------------------------------------------------------------------------

LEMMA IdleFacts ==
    /\ Idle = [f \in Fields |-> Idle[f]]
    /\ Idle.kind = "none" /\ Idle.number = 0 /\ Idle.cancels = {}
    /\ Idle.number \in Nat /\ Idle.issued \in BOOLEAN /\ Idle.dates \in BOOLEAN
    /\ Idle.issued = FALSE /\ Idle.dates = FALSE
  BY DEF Idle, Fields

LEMMA InstallmentsOf ==
    /\ \A i \in Installments : i[1] \in Titles /\ i[2] \in Sources /\ i = << i[1], i[2] >>
    /\ \A T \in Titles : OfTitle(T) \subseteq Installments /\ \A i \in OfTitle(T) : i[1] = T
    /\ \A T \in Titles, s \in Sources : << T, s >> \in Installments
  BY DEF Installments, OfTitle

\* A request without a title at hand.
LEMMA IdleRequest ==
    ASSUME NEW t \in Tx, my[t] = Idle, pc[t] \in {"new", "done"}
    PROVE  RequestOK(t) /\ ~Inserts(t) /\ ~my[t].issued
  BY IdleFacts DEF RequestOK, Bills, Issues, Remits, Reports, Inserts, At

\* A title stays abated, and another one is not abated.
LEMMA AbatedTitlesStay ==
    ASSUME \A i \in Installments : plan'[i].abated > 0 <=> plan[i].abated > 0,
           NEW T \in Titles
    PROVE  HasAbatement(T)' <=> HasAbatement(T)
  BY InstallmentsOf DEF HasAbatement, OfTitle

\* Whatever the others do keeps what t knows true, as long as no slip and no
\* plan disappears, and t's are not made by them.
LEMMA OtherRequest ==
    ASSUME Shape, NEW u \in Tx, RequestOK(u), my'[u] = my[u], pc'[u] = pc[u],
           channel' = channel, mail \subseteq mail',
           \A i \in Installments :
                /\ HasPlan(i) => HasPlan(i)'
                /\ HasSlip(i) => HasSlip(i)' /\ slip'[i].number = slip[i].number
                /\ plan'[i].abated > 0 <=> plan[i].abated > 0,
           \A i \in Installments : HasPlan(i)' /\ ~HasPlan(i) /\ Inserts(u) => my[u].line # i,
           \A i \in Installments : HasSlip(i)' /\ ~HasSlip(i) /\ my[u].issued =>
                my[u].line # i /\ slip'[i].number # my[u].number
    PROVE  RequestOK(u)'
<1>1. \A T \in Titles : HasAbatement(T)' <=> HasAbatement(T)
  BY AbatedTitlesStay
<1>2. \A i : MayCancel(i) => MayCancel(i)'
  BY <1>1, InstallmentsOf DEF MayCancel, HasPlan
<1>3. Bills(u)'
  <2>1. \A i \in Installments : HasAbatement(i[1])' <=> HasAbatement(i[1])
    BY <1>1, InstallmentsOf
  <2>2. Bills(u)
    BY DEF RequestOK
  <2>3. pc[u] \in {"agreement", "cancel"} =>
            \A T \in my[u].titles : T \in Titles /\ (my[u].dates <=> HasAbatement(T)')
    BY <1>1, <2>2 DEF Bills
  <2>4. /\ pc[u] = "rows" => \A i \in my[u].found : MayCancel(i)'
        /\ \A i \in my[u].cancels : MayCancel(i)'
    BY <1>2, <2>2 DEF Bills
  <2>5. pc[u] \in {"issue", "commit"} /\ my[u].dates =>
            HasPlan(my[u].line)' /\ HasAbatement(my[u].line[1])'
    BY <2>1, <2>2 DEF Bills
  <2>6. Inserts(u) => ~HasPlan(my[u].line)'
    BY <2>2 DEF Bills, Inserts
  <2>. QED  BY <2>2, <2>3, <2>4, <2>5, <2>6 DEF Bills, Inserts
<1>4. Issues(u)'
  <2>1. my[u].issued => pc[u] = "commit" /\ ~HasSlip(my[u].line) /\ my[u].line \in Installments
                          /\ \A i \in Installments : HasSlip(i) => slip[i].number # my[u].number
    BY DEF RequestOK, Issues, Bills
  <2>2. my[u].issued => ~HasSlip(my[u].line)'
    BY <2>1
  <2>3. my[u].issued => \A i \in Installments : HasSlip(i)' => slip'[i].number # my[u].number
    BY <2>1
  <2>. QED  BY <2>1, <2>2, <2>3 DEF Issues
<1>5. Remits(u)'
  <2>1. \A i : HasSlip(i) => HasSlip(i)'
    BY DEF HasSlip
  <2>. QED  BY <2>1 DEF RequestOK, Remits, At
<1>6. Reports(u)'
  <2>1. \A i : HasSlip(i) => HasSlip(i)' /\ slip'[i].number = slip[i].number
    BY DEF HasSlip
  <2>. QED  BY <2>1 DEF RequestOK, Reports, At
<1>. QED  BY <1>3, <1>4, <1>5, <1>6 DEF RequestOK, At

LEMMA OthersStay ==
    ASSUME Shape, NEW t \in Tx, NEW label, NEW r, Go(t, label, r)
    PROVE  /\ \A u \in Tx : u # t => my'[u] = my[u] /\ pc'[u] = pc[u]
           /\ pc'[t] = label /\ my'[t] = IF label = "done" THEN Idle ELSE r
  BY DEF Shape, Go

LEMMA RequestShape ==
    ASSUME Shape, NEW t \in Tx, NEW label \in Labels, NEW r, Go(t, label, r),
           label = "done" \/ /\ r = [f \in Fields |-> r[f]] /\ r.number \in Nat
                             /\ r.issued \in BOOLEAN /\ r.dates \in BOOLEAN
    PROVE  /\ pc' \in [Tx -> Labels] /\ my' = [u \in Tx |-> my'[u]]
           /\ \A u \in Tx :
                /\ my'[u] = [f \in Fields |-> my'[u][f]]
                /\ my'[u].number \in Nat /\ my'[u].issued \in BOOLEAN
                /\ my'[u].dates \in BOOLEAN
<1>1. pc' \in [Tx -> Labels]
  BY DEF Shape, Go
<1>2. my' = [u \in Tx |-> my'[u]]
  BY DEF Shape, Go
<1>3. \A u \in Tx :
            /\ my'[u] = [f \in Fields |-> my'[u][f]]
            /\ my'[u].number \in Nat /\ my'[u].issued \in BOOLEAN
            /\ my'[u].dates \in BOOLEAN
  <2>1. \A u \in Tx : u # t => my'[u] = my[u]
    BY OthersStay
  <2>2. my'[t] = IF label = "done" THEN Idle ELSE r
    BY OthersStay
  <2>3. /\ my'[t] = [f \in Fields |-> my'[t][f]]
        /\ my'[t].number \in Nat /\ my'[t].issued \in BOOLEAN /\ my'[t].dates \in BOOLEAN
    <3>1. CASE label = "done"
      <4>1. my'[t] = Idle
        BY <2>2, <3>1
      <4>. QED  BY <4>1, IdleFacts
    <3>2. CASE label # "done"
      <4>1. my'[t] = r
        BY <2>2, <3>2
      <4>. QED  BY <3>2, <4>1
    <3>. QED  BY <3>1, <3>2
  <2>. QED  BY <2>1, <2>3 DEF Shape
<1>. QED  BY <1>1, <1>2, <1>3

\* Steps of t that write nothing but what t knows.
LEMMA QuietStep ==
    ASSUME IInv, NEW t \in Tx, NEW label \in Labels, NEW r, Go(t, label, r),
           UNCHANGED << money, bank, mail, orphans >>, ~my[t].issued,
           label = "done" \/ /\ r = [f \in Fields |-> r[f]] /\ r.number \in Nat
                             /\ r.issued = FALSE /\ r.dates \in BOOLEAN
                             /\ RequestOK(t)'
                             /\ label \in {"issue", "commit"} /\ ~r.dates =>
                                    \A u \in Tx \ {t} : Inserts(u) => my[u].line # r.line
    PROVE  IInv'
<1>1. /\ \A u \in Tx : u # t => my'[u] = my[u] /\ pc'[u] = pc[u]
      /\ pc'[t] = label /\ my'[t] = IF label = "done" THEN Idle ELSE r
  BY OthersStay DEF IInv
<1>2. Shape'
  BY RequestShape DEF IInv, Shape, money
<1>3. /\ \A i \in Installments : plan'[i] = plan[i] /\ slip'[i] = slip[i]
      /\ \A i : (HasPlan(i)' <=> HasPlan(i)) /\ (HasSlip(i)' <=> HasSlip(i))
      /\ \A T : HasAbatement(T)' <=> HasAbatement(T)
  BY DEF money, HasPlan, HasSlip, HasAbatement
<1>4. Slips' /\ Files'
  BY <1>3 DEF IInv, Slips, Files, money
<1>5. Bank'
  <2>1. \A u \in Tx : my[u].issued => my'[u] = my[u]
    BY <1>1
  <2>2. ASSUME NEW b \in bank PROVE Registered(b)'
    BY <1>3, <2>1, <2>2 DEF IInv, Bank, Registered, money
  <2>3. \A m \in mail : Reported(m)'
    BY DEF IInv, Bank, Reported, SentTwice, money
  <2>. QED  BY <2>2, <2>3 DEF IInv, Bank, money
<1>6. ASSUME NEW u \in Tx PROVE RequestOK(u)'
  <2>1. CASE u # t
    BY <1>1, <1>3, <2>1, OtherRequest DEF IInv, money
  <2>2. CASE u = t
    <3>1. label = "done" => RequestOK(t)'
      <4>1. label = "done" => my'[t] = Idle /\ pc'[t] = "done"
        BY <1>1
      <4>. QED  BY <4>1, IdleFacts DEF RequestOK, Bills, Issues, Remits, Reports, Inserts, At
    <3>. QED  BY <2>2, <3>1
  <2>. QED  BY <2>1, <2>2
<1>7. Apart'
  <2>1. ~my'[t].issued
    BY <1>1, IdleFacts
  <2>2. \A u \in Tx : u # t => (Inserts(u)' <=> Inserts(u))
    BY <1>1 DEF Inserts
  <2>3. Inserts(t)' => /\ my'[t] = r
                       /\ \A u \in Tx \ {t} : Inserts(u) => my[u].line # r.line
    BY <1>1 DEF Inserts
  <2>. QED  BY <1>1, <2>1, <2>2, <2>3 DEF IInv, Apart
<1>. QED  BY <1>2, <1>4, <1>5, <1>6, <1>7 DEF IInv
\* Steps of t that write titles, plans, slips, files or registrations and keep
\* the slips there are.
LEMMA WritingStep ==
    ASSUME IInv, NEW t \in Tx, NEW label \in Labels, NEW r, Go(t, label, r),
           label = "done" \/ /\ r = [f \in Fields |-> r[f]] /\ r.number \in Nat
                             /\ r.issued \in BOOLEAN /\ r.dates \in BOOLEAN
                             /\ RequestOK(t)',
           UNCHANGED << channel, mail, files, sequence >>,
           next' \in Nat, origin' \in [Sales -> Titles],
           plan' = [i \in Installments |-> plan'[i]],
           \A i \in Installments : plan'[i] = [f \in RowFields |-> plan'[i][f]],
           slip' \in [Installments -> [status : Statuses, number : Nat]],
           bank' \subseteq Nat \X Installments,
           \A i \in Installments :
                /\ HasPlan(i) => HasPlan(i)'
                /\ HasSlip(i) => HasSlip(i)' /\ slip'[i].number = slip[i].number
                /\ plan'[i].abated > 0 <=> plan[i].abated > 0,
           \A i \in Installments : HasPlan(i)' /\ ~HasPlan(i) => Inserts(t) /\ my[t].line = i,
           \A i \in Installments : HasSlip(i)' /\ ~HasSlip(i) =>
                HasPlan(i)' /\ my[t].issued /\ my[t].line = i /\ slip'[i].number = my[t].number,
           \A i \in Installments : slip'[i].status = "CANCELADO" => ~HasAbatement(i[1]),
           \A i \in Installments : slip'[i].status = "REJEITADO" =>
                \E m \in mail : m.occurrence = "REGISTRO_REJEITADO" /\ m.number = slip'[i].number,
           \A b \in bank' : Registered(b)', bank \subseteq bank',
           \A b \in bank' \ bank : channel = "API",
           Apart'
    PROVE  IInv'
<1>1. /\ \A u \in Tx : u # t => my'[u] = my[u] /\ pc'[u] = pc[u]
      /\ pc'[t] = label /\ my'[t] = IF label = "done" THEN Idle ELSE r
  BY OthersStay DEF IInv
<1>2. Shape'
  BY RequestShape DEF IInv, Shape
<1>3. \A i \in Installments : HasAbatement(i[1])' <=> HasAbatement(i[1])
  BY AbatedTitlesStay, InstallmentsOf
<1>4. Slips'
  <2>1. \A i \in Installments : HasSlip(i)' => HasPlan(i)'
    BY DEF IInv, Slips
  <2>2. ASSUME NEW i \in Installments, NEW j \in Installments, HasSlip(i)', HasSlip(j)',
               slip'[i].number = slip'[j].number, i # j
        PROVE  FALSE
    <3>1. my[t].issued => \A k \in Installments : HasSlip(k) => slip[k].number # my[t].number
      BY DEF IInv, RequestOK, Issues
    <3>2. HasSlip(i) \/ HasSlip(j)
      BY <2>2
    <3>3. HasSlip(i) /\ HasSlip(j) => FALSE
      BY <2>2 DEF IInv, Slips
    <3>. QED  BY <2>2, <3>1, <3>2, <3>3
  <2>3. \A i \in Installments : plan'[i].status = "none" => ~(plan'[i].abated > 0)
    BY DEF IInv, Slips, HasPlan
  <2>. QED  BY <1>3, <2>1, <2>2, <2>3 DEF Slips
<1>5. Files'
  <2>1. \A f \in files : f.line \in Installments
    BY DEF IInv, Shape
  <2>. QED  BY <2>1 DEF IInv, Files
<1>6. Bank'
  <2>1. ASSUME NEW m \in mail PROVE Reported(m)'
    <3>1. Reported(m)
      BY DEF IInv, Bank
    <3>2. m.occurrence = "LIQUIDACAO" =>
            << m.number, m.of >> \in bank' \/ (m.of = Elsewhere /\ m.number \in Foreign)
      BY <3>1 DEF Reported
    <3>3. m.occurrence = "REGISTRO_REJEITADO" =>
            \A b \in bank' : b[1] = m.number => SentTwice(m.number)
      BY <3>1 DEF Reported, IInv, Files
    <3>. QED  BY <3>1, <3>2, <3>3 DEF Reported, SentTwice
  <2>. QED  BY <2>1 DEF Bank
<1>7. ASSUME NEW u \in Tx PROVE RequestOK(u)'
  <2>1. CASE u # t
    <3>1. Inserts(t) /\ Inserts(u) => my[t].line # my[u].line
      BY <2>1 DEF IInv, Apart
    <3>2. my[t].issued /\ my[u].issued =>
            my[t].line # my[u].line /\ my[t].number # my[u].number
      BY <2>1 DEF IInv, Apart
    <3>3. my'[u] = my[u] /\ pc'[u] = pc[u]
      BY <1>1, <2>1
    <3>. QED  BY <3>1, <3>2, <3>3, OtherRequest DEF IInv
  <2>2. CASE u = t
    <3>1. label = "done" => RequestOK(t)'
      <4>1. label = "done" => my'[t] = Idle /\ pc'[t] = "done"
        BY <1>1
      <4>. QED  BY <4>1, IdleFacts DEF RequestOK, Bills, Issues, Remits, Reports, Inserts, At
    <3>. QED  BY <2>2, <3>1
  <2>. QED  BY <2>1, <2>2
<1>. QED  BY <1>2, <1>4, <1>5, <1>6, <1>7 DEF IInv

\* A request that ends leaves the others apart.
LEMMA EndApart ==
    ASSUME Shape, Apart, NEW t \in Tx, NEW r, Go(t, "done", r)
    PROVE  Apart'
<1>1. /\ \A u \in Tx : u # t => my'[u] = my[u] /\ pc'[u] = pc[u]
      /\ pc'[t] = "done" /\ my'[t] = Idle
  BY OthersStay
<1>. QED  BY <1>1, IdleFacts DEF Apart, Inserts
-----------------------------------------------------------------------------

LEMMA InitInvariant == Init => IInv
<1> SUFFICES ASSUME Init PROVE IInv
  OBVIOUS
<1>1. PICK issued \in {{}} \cup {{s} : s \in Sales}, abated \in SUBSET Sales :
        /\ issued \cap abated = {} /\ next = 1 + Cardinality(issued)
        /\ plan = [i \in Installments |-> StartPlan(i, abated, issued)]
        /\ slip = [i \in Installments |->
                IF i \in issued \X {"BOLETO"} THEN [status |-> "AGUARDANDO_REGISTRO", number |-> 1]
                ELSE NoSlip]
  BY DEF Init
<1>2. IsFiniteSet(issued)
  BY FS_EmptySet, FS_Singleton
<1>3. next \in Nat
  BY <1>1, <1>2, FS_CardinalityType
<1>4. \A i \in Installments :
        /\ plan[i] = [f \in RowFields |-> plan[i][f]]
        /\ i \in issued \X {"BOLETO"} => plan[i].status # "none"
        /\ plan[i].status = "none" => ~(plan[i].abated > 0)
  <2> SUFFICES ASSUME NEW i \in Installments
               PROVE  /\ plan[i] = [f \in RowFields |-> plan[i][f]]
                      /\ i \in issued \X {"BOLETO"} => plan[i].status # "none"
                      /\ plan[i].status = "none" => ~(plan[i].abated > 0)
    OBVIOUS
  <2>1. plan[i] = StartPlan(i, abated, issued)
    BY <1>1
  <2>2. CASE i \in issued \X {"PEDIDO"}
    BY <2>1, <2>2 DEF StartPlan, RowFields
  <2>3. CASE i \notin issued \X {"PEDIDO"} /\
             (i \in issued \X {"BOLETO"} \/ i \in (Sales \ issued) \X {"PEDIDO"})
    BY <2>1, <2>3 DEF StartPlan, RowFields
  <2>4. CASE ~(\/ i \in issued \X {"PEDIDO"} \/ i \in issued \X {"BOLETO"}
               \/ i \in (Sales \ issued) \X {"PEDIDO"})
    BY <2>1, <2>4 DEF StartPlan, NoRow, RowFields
  <2>. QED  BY <2>2, <2>3, <2>4
<1>5. slip \in [Installments -> [status : Statuses, number : Nat]]
  BY <1>1 DEF NoSlip, Statuses
<1>6. Shape
  BY <1>1, <1>3, <1>4, <1>5, IdleFacts, SlipsAssumption DEF Init, Shape, Titles, Labels
<1>7. \A i \in Installments : HasSlip(i) => i \in issued \X {"BOLETO"}
  BY <1>1 DEF HasSlip, NoSlip
<1>8. Slips
  <2>1. \A i, j \in issued \X {"BOLETO"} : i = j
    OBVIOUS
  <2>2. \A i \in Installments : slip[i].status # "CANCELADO"
    BY <1>1 DEF NoSlip
  <2>. QED  BY <1>4, <1>7, <2>1, <2>2 DEF Slips, HasPlan
<1>9. Files /\ Bank
  <2>1. \A i \in Installments : slip[i].status # "REJEITADO"
    BY <1>1 DEF NoSlip
  <2>. QED  BY <2>1 DEF Init, Files, Bank
<1>10. Apart /\ \A t \in Tx : RequestOK(t)
  <2>1. \A t \in Tx : pc[t] = "new" /\ my[t] = Idle
    BY DEF Init
  <2>2. \A t \in Tx : RequestOK(t) /\ ~Inserts(t) /\ ~my[t].issued
    BY <2>1, IdleRequest
  <2>. QED  BY <2>2 DEF Apart
<1>. QED  BY <1>6, <1>8, <1>9, <1>10 DEF IInv

\* A request arrives.
LEMMA StartStep ==
    ASSUME IInv, NEW t \in Tx, Start(t)
    PROVE  IInv'
<1>1. /\ At(t, "new") /\ my[t] = Idle /\ ~my[t].issued
      /\ UNCHANGED << money, bank, mail, orphans >>
  BY IdleFacts DEF Start, At, IInv, RequestOK
<1>2. ASSUME NEW label \in {"read", "open"}, NEW r, Go(t, label, r),
             r = [f \in Fields |-> r[f]], r.number = 0, r.issued = FALSE, r.dates = FALSE,
             r.cancels = {},
             label = "open" => r.kind = "settle",
             r.kind \in {"bill", "boleto"} => r.doc \in {"NFE", "BOLETO"},
             r.kind = "bill" => r.sales # {} /\ r.sales \subseteq Sales,
             r.kind = "boleto" => \E T \in Titles : r.titles = {T},
             r.kind = "remit" => channel = "CNAB",
             r.kind = "report" => r.item \in mail /\ (~r.hook => r.item.of # Elsewhere)
      PROVE  IInv'
  <2>1. pc'[t] = label /\ my'[t] = r
    BY <1>2, OthersStay DEF IInv
  <2>2. channel' = channel /\ mail' = mail
    BY <1>1 DEF money
  <2>3. RequestOK(t)'
    BY <1>2, <2>1, <2>2 DEF RequestOK, Bills, Issues, Remits, Reports, Inserts, At
  <2>4. label \in Labels /\ label \notin {"issue", "commit"} /\ r.number \in Nat
    BY <1>2 DEF Labels
  <2>5. /\ r = [f \in Fields |-> r[f]] /\ r.number \in Nat
        /\ r.issued = FALSE /\ r.dates \in BOOLEAN
        /\ RequestOK(t)'
        /\ label \in {"issue", "commit"} /\ ~r.dates =>
                \A u \in Tx \ {t} : Inserts(u) => my[u].line # r.line
    BY <1>2, <2>3, <2>4
  <2>. QED  BY <1>1, <1>2, <2>4, <2>5, QuietStep
<1>3. ASSUME NEW S \in (SUBSET Sales) \ {{}}, NEW doc \in {"NFE", "BOLETO"},
             Go(t, "read", [Idle EXCEPT !.kind = "bill", !.sales = S, !.doc = doc])
      PROVE  IInv'
  <2> DEFINE r == [Idle EXCEPT !.kind = "bill", !.sales = S, !.doc = doc]
  <2>1. /\ r = [f \in Fields |-> r[f]] /\ r.number = 0 /\ r.issued = FALSE /\ r.dates = FALSE
        /\ r.cancels = {} /\ r.kind = "bill" /\ r.sales = S /\ r.doc = doc
    BY DEF Idle, Fields
  <2>2. Go(t, "read", r)
    BY <1>3
  <2>3. S # {} /\ S \subseteq Sales
    BY <1>3
  <2> HIDE DEF r
  <2>. QED  BY <1>2, <2>1, <2>2, <2>3
<1>4. ASSUME NEW T \in Titles,
             Go(t, "read", [Idle EXCEPT !.kind = "boleto", !.titles = {T}, !.doc = "BOLETO"])
      PROVE  IInv'
  <2> DEFINE r == [Idle EXCEPT !.kind = "boleto", !.titles = {T}, !.doc = "BOLETO"]
  <2>1. /\ r = [f \in Fields |-> r[f]] /\ r.number = 0 /\ r.issued = FALSE /\ r.dates = FALSE
        /\ r.cancels = {} /\ r.kind = "boleto" /\ r.titles = {T} /\ r.doc = "BOLETO"
    BY DEF Idle, Fields
  <2>2. Go(t, "read", r)
    BY <1>4
  <2> HIDE DEF r
  <2>. QED  BY <1>2, <2>1, <2>2
<1>5. ASSUME channel = "CNAB", Go(t, "read", [Idle EXCEPT !.kind = "remit"])
      PROVE  IInv'
  <2> DEFINE r == [Idle EXCEPT !.kind = "remit"]
  <2>1. /\ r = [f \in Fields |-> r[f]] /\ r.number = 0 /\ r.issued = FALSE /\ r.dates = FALSE
        /\ r.cancels = {} /\ r.kind = "remit"
    BY DEF Idle, Fields
  <2>2. Go(t, "read", r)
    BY <1>5
  <2> HIDE DEF r
  <2>. QED  BY <1>2, <1>5, <2>1, <2>2
<1>6. ASSUME NEW m \in mail, NEW hook \in BOOLEAN, ~hook => m.of # Elsewhere,
             Go(t, "read", [Idle EXCEPT !.kind = "report", !.item = m, !.hook = hook])
      PROVE  IInv'
  <2> DEFINE r == [Idle EXCEPT !.kind = "report", !.item = m, !.hook = hook]
  <2>1. /\ r = [f \in Fields |-> r[f]] /\ r.number = 0 /\ r.issued = FALSE /\ r.dates = FALSE
        /\ r.cancels = {} /\ r.kind = "report" /\ r.item = m /\ r.hook = hook
    BY DEF Idle, Fields
  <2>2. Go(t, "read", r)
    BY <1>6
  <2> HIDE DEF r
  <2>3. ~r.hook => r.item.of # Elsewhere
    BY <1>6, <2>1
  <2>. QED  BY <1>2, <1>6, <2>1, <2>2, <2>3
<1>7. ASSUME NEW i, NEW d,
             Go(t, "open", [Idle EXCEPT !.kind = "settle", !.line = i, !.item.date = d])
      PROVE  IInv'
  <2> DEFINE r == [Idle EXCEPT !.kind = "settle", !.line = i, !.item.date = d]
  <2>1. /\ r = [f \in Fields |-> r[f]] /\ r.number = 0 /\ r.issued = FALSE /\ r.dates = FALSE
        /\ r.cancels = {} /\ r.kind = "settle"
    BY DEF Idle, Fields
  <2>2. Go(t, "open", r)
    BY <1>7
  <2> HIDE DEF r
  <2>. QED  BY <1>2, <2>1, <2>2
<1>8. ASSUME \E m \in mail, hook \in BOOLEAN :
            /\ IF hook THEN m.occurrence = "LIQUIDACAO" ELSE channel = "CNAB" /\ m.of # Elsewhere
            /\ Go(t, "read", [Idle EXCEPT !.kind = "report", !.item = m, !.hook = hook])
      PROVE  IInv'
  BY <1>6, <1>8
<1>. QED  BY <1>3, <1>4, <1>5, <1>7, <1>8 DEF Start
\* What t knows, of whatever kind, after it has changed some of it.
LEMMA Knows ==
    ASSUME Shape, NEW t \in Tx
    PROVE  /\ my[t] = [f \in Fields |-> my[t][f]]
           /\ my[t].number \in Nat /\ my[t].issued \in BOOLEAN /\ my[t].dates \in BOOLEAN
  BY DEF Shape

LEMMA OneTitle ==
    ASSUME NEW K, IsFiniteSet(K), K # {}, ~(Cardinality(K) > 1)
    PROVE  \E x \in K : K = {x}
<1>1. Cardinality(K) \in Nat /\ Cardinality(K) # 0
  BY FS_CardinalityType, FS_EmptySet
<1>2. Cardinality(K) = 1
  BY <1>1
<1>. QED  BY <1>2, FS_Singleton

LEMMA ReadTitlesStep ==
    ASSUME IInv, NEW t \in Tx, ReadTitles(t)
    PROVE  IInv'
<1> DEFINE bill == my[t].kind = "bill"
           K == IF bill THEN {origin[s] : s \in my[t].sales} ELSE my[t].titles
           abated == {T \in K : HasAbatement(T)}
           fits == (\A T \in K : MayBill(T, bill)) /\ (Cardinality(K) > 1 => abated = {})
           label == IF ~fits THEN "done" ELSE IF my[t].doc = "NFE" THEN "cancel" ELSE "agreement"
           dates == abated # {}
           merges == Cardinality(K) > 1
           sum == OpenAmount(Live(K))
           r == [my[t] EXCEPT !.titles = K, !.dates = dates, !.merges = merges, !.sum = sum]
<1>1. /\ At(t, "read") /\ my[t].kind \in {"bill", "boleto"} /\ Go(t, label, r) /\ OnlyRequest
  BY DEF ReadTitles
<1>2. /\ my[t].doc \in {"NFE", "BOLETO"}
      /\ bill => my[t].sales # {} /\ my[t].sales \subseteq Sales
      /\ my[t].kind = "boleto" => \E T \in Titles : my[t].titles = {T}
  BY <1>1 DEF IInv, RequestOK, Bills, At
<1>3. K # {} /\ K \subseteq Titles /\ IsFiniteSet(K)
  <2>1. CASE bill
    <3>1. IsFiniteSet(my[t].sales)
      BY <1>2, <2>1, SlipsAssumption, FS_Subset
    <3> DEFINE f == [s \in my[t].sales |-> origin[s]]
    <3>2. f \in Surjection(my[t].sales, K)
      BY <2>1 DEF Surjection
    <3>3. IsFiniteSet(K)
      BY <3>1, <3>2, FS_Surjection
    <3>. QED  BY <1>2, <2>1, <3>3 DEF IInv, Shape
  <2>2. CASE ~bill
    <3>1. PICK T \in Titles : my[t].titles = {T}
      BY <1>1, <1>2, <2>2
    <3>. QED  BY <2>2, <3>1, FS_Singleton
  <2>. QED  BY <2>1, <2>2
<1>4. fits => \A T \in K : dates <=> HasAbatement(T)
  <2>1. CASE merges
    BY <2>1
  <2>2. CASE ~merges
    BY <1>3, <2>2, OneTitle
  <2>. QED  BY <2>1, <2>2
<1>5. label \in {"done", "cancel", "agreement"} /\ (label # "done" => fits) /\ dates \in BOOLEAN
  OBVIOUS
<1> HIDE DEF K, dates, fits, label, merges, sum
<1>6. /\ r = [f \in Fields |-> r[f]] /\ r.number = my[t].number /\ r.issued = my[t].issued
      /\ r.dates = dates /\ r.titles = K /\ r.doc = my[t].doc /\ r.kind = my[t].kind
      /\ r.cancels = my[t].cancels
  BY <1>1, Knows DEF Fields, IInv
<1>7. /\ ~my[t].issued /\ my[t].number \in Nat /\ label \in Labels
      /\ \A i \in my[t].cancels : MayCancel(i)
  <2>1. /\ ~my[t].issued /\ my[t].number \in Nat
        /\ \A i \in my[t].cancels : MayCancel(i)
    BY <1>1 DEF IInv, Shape, RequestOK, Bills, Issues, At
  <2>. QED  BY <1>5, <2>1 DEF Labels
<1> HIDE DEF r
<1>8. label = "done" \/ RequestOK(t)'
  <2>1. pc'[t] = label /\ (label # "done" => my'[t] = r)
    BY <1>1, OthersStay DEF IInv
  <2>2. \A T : HasAbatement(T)' <=> HasAbatement(T)
    BY <1>1 DEF OnlyRequest, money, HasAbatement
  <2>3. \A i : MayCancel(i) => MayCancel(i)'
    BY <1>1, <2>2 DEF OnlyRequest, money, MayCancel, HasPlan
  <2>. QED  BY <2>3, <1>1, <1>2, <1>3, <1>4, <1>5, <1>6, <1>7, <2>1, <2>2
            DEF RequestOK, Bills, Issues, Remits, Reports, Inserts, At
<1>9. UNCHANGED << money, bank, mail, orphans >>
  BY <1>1 DEF OnlyRequest
<1>10. label = "done" \/ /\ r = [f \in Fields |-> r[f]] /\ r.number \in Nat
                         /\ r.issued = FALSE /\ r.dates \in BOOLEAN
                         /\ RequestOK(t)'
                         /\ label \in {"issue", "commit"} /\ ~r.dates =>
                                \A u \in Tx \ {t} : Inserts(u) => my[u].line # r.line
  BY <1>5, <1>6, <1>7, <1>8
<1>. QED  BY <1>1, <1>7, <1>9, <1>10, QuietStep

LEMMA BillingReads ==
    ASSUME IInv, NEW t \in Tx,
           LoadAgreement(t) \/ KeepPlan(t) \/ ReadSchedule(t) \/ CancelSchedule(t)
    PROVE  IInv'
<1>1. OnlyRequest /\ ~my[t].issued
  BY DEF LoadAgreement, KeepPlan, ReadSchedule, CancelSchedule, At, IInv, RequestOK, Issues
<1>2. /\ UNCHANGED << money, bank, mail, orphans >>
      /\ \A T : HasAbatement(T)' <=> HasAbatement(T)
      /\ \A i : (HasPlan(i)' <=> HasPlan(i)) /\ (MayCancel(i)' <=> MayCancel(i))
      /\ \A i : HasSlip(i)' <=> HasSlip(i)
  BY <1>1 DEF OnlyRequest, money, HasAbatement, HasPlan, HasSlip, MayCancel
<1>3. RequestOK(t)
  BY DEF IInv
<1>4. CASE LoadAgreement(t)
  <2> DEFINE r == [my[t] EXCEPT !.number = next]
  <2>1. Go(t, "cancel", r) /\ pc[t] = "agreement"
    BY <1>4 DEF LoadAgreement, At
  <2>2. /\ r = [f \in Fields |-> r[f]] /\ r.number = next /\ r.issued = my[t].issued
        /\ r.dates = my[t].dates /\ r.kind = my[t].kind /\ r.doc = my[t].doc
        /\ r.titles = my[t].titles /\ r.cancels = my[t].cancels
    BY Knows DEF Fields, IInv
  <2> HIDE DEF r
  <2>3. pc'[t] = "cancel" /\ my'[t] = r
    BY <2>1, OthersStay DEF IInv
  <2>4. RequestOK(t)'
    BY <1>1, <1>2, <1>3, <2>1, <2>2, <2>3
       DEF RequestOK, Bills, Issues, Remits, Reports, Inserts, At
  <2>5. r.number \in Nat /\ r.issued = FALSE /\ r.dates \in BOOLEAN /\ "cancel" \in Labels
    BY <1>1, <2>2, Knows DEF IInv, Shape, Labels
  <2>. QED  BY <1>1, <1>2, <2>1, <2>2, <2>4, <2>5, QuietStep
<1>5. CASE KeepPlan(t)
  <2>1. CASE End(t)
    BY <1>1, <1>2, <2>1, QuietStep DEF End, Labels
  <2>2. CASE ~End(t)
    <3>1. PICK i \in Live(my[t].titles), label \in {"issue", "commit"} :
                Go(t, label, [my[t] EXCEPT !.line = i])
      BY <1>5, <2>2 DEF KeepPlan
    <3> DEFINE r == [my[t] EXCEPT !.line = i]
    <3>2. pc[t] = "cancel" /\ my[t].dates
      BY <1>5 DEF KeepPlan, At
    <3>3. /\ r = [f \in Fields |-> r[f]] /\ r.number = my[t].number /\ r.issued = my[t].issued
          /\ r.dates = my[t].dates /\ r.kind = my[t].kind /\ r.line = i
          /\ r.cancels = my[t].cancels
      BY Knows DEF Fields, IInv
    <3> HIDE DEF r
    <3>4. HasPlan(i) /\ HasAbatement(i[1])
      <4>1. PICK T \in my[t].titles : i \in LiveOf(T)
        BY DEF Live
      <4>2. T \in Titles /\ HasAbatement(T)
        BY <1>3, <3>2, <4>1 DEF RequestOK, Bills
      <4>3. i \in Installments /\ i[1] = T /\ plan[i].status = "ABERTA"
        BY <4>1, <4>2, InstallmentsOf DEF LiveOf
      <4>. QED  BY <4>2, <4>3 DEF HasPlan
    <3>5. pc'[t] = label /\ my'[t] = r
      BY <3>1, OthersStay DEF IInv, r
    <3>6. RequestOK(t)'
      <4>1. \A j \in r.cancels : MayCancel(j)'
        BY <1>2, <1>3, <3>3 DEF RequestOK, Bills
      <4>2. my[t].kind \in {"bill", "boleto"} /\ ~my[t].issued
        BY <1>1, <1>3, <3>2 DEF RequestOK
      <4>3. HasPlan(i)' /\ HasAbatement(i[1])' /\ i \in Installments
        BY <1>2, <3>4 DEF HasPlan
      <4>. QED  BY <3>2, <3>3, <3>5, <4>1, <4>2, <4>3
                DEF RequestOK, Bills, Issues, Remits, Reports, Inserts, At
    <3>7. r.number \in Nat /\ r.issued = FALSE /\ r.dates /\ r.dates \in BOOLEAN
      BY <1>1, <3>2, <3>3, Knows DEF IInv
    <3>8. Go(t, label, r) /\ label \in Labels
      BY <3>1 DEF r, Labels
    <3>. QED  BY <1>1, <1>2, <3>3, <3>6, <3>7, <3>8, QuietStep
  <2>. QED  BY <2>1, <2>2
<1>6. CASE ReadSchedule(t)
  <2> DEFINE T == IF my[t].merges THEN t ELSE CHOOSE x \in my[t].titles : TRUE
             found == Live(my[t].titles)
             line == << T, my[t].doc >>
             r == [my[t] EXCEPT !.found = found, !.line = line]
  <2>1. Go(t, "rows", r) /\ pc[t] = "cancel" /\ ~my[t].dates
    BY <1>6 DEF ReadSchedule, At
  <2>2. /\ my[t].doc \in {"NFE", "BOLETO"} /\ my[t].titles # {}
        /\ \A x \in my[t].titles : x \in Titles /\ ~HasAbatement(x)
        /\ my[t].kind \in {"bill", "boleto"}
    BY <1>3, <2>1 DEF RequestOK, Bills
  <2>3. line \in Installments
    BY <2>2, InstallmentsOf DEF Titles, Sources
  <2>4. \A i \in found : MayCancel(i)
    <3> SUFFICES ASSUME NEW i \in found PROVE MayCancel(i)
      OBVIOUS
    <3>1. PICK x \in my[t].titles : i \in LiveOf(x)
      BY DEF Live
    <3>2. x \in Titles /\ ~HasAbatement(x)
      BY <2>2
    <3>3. i \in Installments /\ i[1] = x /\ plan[i].status = "ABERTA"
      BY <3>1, <3>2, InstallmentsOf DEF LiveOf
    <3>. QED  BY <3>2, <3>3 DEF MayCancel, HasPlan
  <2> HIDE DEF T, found, line
  <2>5. /\ r = [f \in Fields |-> r[f]] /\ r.number = my[t].number /\ r.issued = my[t].issued
        /\ r.dates = my[t].dates /\ r.kind = my[t].kind /\ r.line = line
        /\ r.found = found /\ r.cancels = my[t].cancels
    BY Knows DEF Fields, IInv
  <2> HIDE DEF r
  <2>6. pc'[t] = "rows" /\ my'[t] = r
    BY <2>1, OthersStay DEF IInv
  <2>7. RequestOK(t)'
    <3>1. /\ \A j \in r.cancels : MayCancel(j)'
          /\ \A j \in r.found : MayCancel(j)'
      BY <1>2, <1>3, <2>4, <2>5 DEF RequestOK, Bills
    <3>. QED  BY <1>1, <2>1, <2>2, <2>3, <2>5, <2>6, <3>1
              DEF RequestOK, Bills, Issues, Remits, Reports, Inserts, At
  <2>8. r.number \in Nat /\ r.issued = FALSE /\ r.dates \in BOOLEAN /\ "rows" \in Labels
    BY <1>1, <2>5, Knows DEF IInv, Labels
  <2>. QED  BY <1>1, <1>2, <2>1, <2>5, <2>7, <2>8, QuietStep
<1>7. CASE CancelSchedule(t)
  <2> DEFINE r == [my[t] EXCEPT !.cancels = my[t].found]
  <2>1. Go(t, "insert", r) /\ pc[t] = "rows"
    BY <1>7 DEF CancelSchedule, At
  <2>2. /\ r = [f \in Fields |-> r[f]] /\ r.number = my[t].number /\ r.issued = my[t].issued
        /\ r.dates = my[t].dates /\ r.kind = my[t].kind /\ r.line = my[t].line
        /\ r.cancels = my[t].found
    BY Knows DEF Fields, IInv
  <2> HIDE DEF r
  <2>3. pc'[t] = "insert" /\ my'[t] = r
    BY <2>1, OthersStay DEF IInv
  <2>4. RequestOK(t)'
    <3>1. \A j \in r.cancels : MayCancel(j)'
      BY <1>2, <1>3, <2>1, <2>2 DEF RequestOK, Bills
    <3>. QED  BY <1>1, <1>3, <2>1, <2>2, <2>3, <3>1
              DEF RequestOK, Bills, Issues, Remits, Reports, Inserts, At
  <2>5. r.number \in Nat /\ r.issued = FALSE /\ r.dates \in BOOLEAN /\ "insert" \in Labels
    BY <1>1, <2>2, Knows DEF IInv, Labels
  <2>. QED  BY <1>1, <1>2, <2>1, <2>2, <2>4, <2>5, QuietStep
<1>. QED  BY <1>4, <1>5, <1>6, <1>7

LEMMA InsertScheduleStep ==
    ASSUME IInv, NEW t \in Tx, InsertSchedule(t)
    PROVE  IInv'
<1>1. PICK label \in {"done", "issue", "commit"} :
        /\ Go(t, label, my[t])
        /\ label # "done" => plan[my[t].line].status = "none"
  BY DEF InsertSchedule
<1>2. /\ pc[t] = "insert" /\ UNCHANGED << money, bank, mail, orphans >>
      /\ \A u \in Inserting(t) : my[u].line # my[t].line
  BY DEF InsertSchedule, OnlyRequest, At
<1>3. ~my[t].issued /\ ~my[t].dates /\ my[t].line \in Installments
  BY <1>2 DEF IInv, RequestOK, Issues, Bills
<1>4. \A u \in Tx \ {t} : Inserts(u) => my[u].line # my[t].line
  BY <1>2 DEF Inserts, Inserting, UnderWay
<1>5. label # "done" => RequestOK(t)'
  <2>1. pc'[t] = label /\ (label # "done" => my'[t] = my[t])
    BY <1>1, OthersStay DEF IInv
  <2>2. \A i : (HasPlan(i)' <=> HasPlan(i)) /\ (MayCancel(i)' <=> MayCancel(i))
    BY <1>2 DEF money, HasAbatement, HasPlan, MayCancel
  <2>3. label # "done" => ~HasPlan(my[t].line)
    BY <1>1 DEF HasPlan
  <2>4. RequestOK(t)
    BY DEF IInv
  <2>. QED  BY <1>1, <1>2, <1>3, <2>1, <2>2, <2>3, <2>4
            DEF RequestOK, Bills, Issues, Remits, Reports, Inserts, At
<1>6. label \in Labels
  BY DEF Labels
<1>. QED  BY <1>1, <1>2, <1>3, <1>4, <1>5, <1>6, Knows, QuietStep DEF IInv

\* Steps of a remittance or a report that only move t on.
LEMMA OtherReads ==
    ASSUME IInv, NEW t \in Tx,
           ReadWaiting(t) \/ ReadReport(t) \/ LookUpSettlement(t) \/ ReadOpen(t)
    PROVE  IInv'
<1>1. OnlyRequest /\ ~my[t].issued /\ ~Inserts(t)
  BY DEF ReadWaiting, ReadReport, LookUpSettlement, ReadOpen, At, IInv, RequestOK, Issues, Inserts
<1>2. /\ UNCHANGED << money, bank, mail, orphans >>
      /\ channel' = channel
      /\ \A i : (MayCancel(i)' <=> MayCancel(i)) /\ (HasSlip(i)' <=> HasSlip(i))
  BY <1>1 DEF OnlyRequest, money, HasAbatement, HasPlan, HasSlip, MayCancel
<1>3. RequestOK(t)
  BY DEF IInv
<1>4. ASSUME NEW label \in {"store", "already", "status", "open", "pay", "done"}, NEW r,
             Go(t, label, r), r = [f \in Fields |-> r[f]], r.number \in Nat,
             r.issued = my[t].issued, r.dates = my[t].dates, r.kind = my[t].kind,
             r.cancels = my[t].cancels, r.item = my[t].item, r.hook = my[t].hook,
             label \in {"already", "status"} => r.kind = "report",
             label \in {"open", "pay"} => r.kind \in {"report", "settle"},
             label = "store" => r.kind = "remit" /\ channel = "CNAB",
             label = "store" => \A i \in r.found : HasSlip(i),
             r.kind = "report" /\ label # "done" =>
                /\ label # "store"
                /\ HasSlip(r.line) /\ slip[r.line].number = r.item.number
                /\ label = "status" <=> r.item.occurrence # "LIQUIDACAO"
      PROVE  IInv'
  <2>1. pc'[t] = label /\ (label # "done" => my'[t] = r)
    BY <1>4, OthersStay DEF IInv
  <2>2. label # "done" => RequestOK(t)'
    <3>1. \A j \in r.cancels : MayCancel(j)'
      BY <1>2, <1>3, <1>4 DEF RequestOK, Bills
    <3>2. r.kind = "report" => r.item \in mail /\ (~r.hook => r.item.of # Elsewhere)
      BY <1>3, <1>4 DEF RequestOK, Reports
    <3>3. slip' = slip /\ mail' = mail
      BY <1>2 DEF money
    <3>4. label # "done" => Bills(t)' /\ Issues(t)' /\ Remits(t)'
      BY <1>1, <1>2, <1>4, <2>1, <3>1 DEF Bills, Issues, Remits, Inserts, At
    <3>5. label # "done" => Reports(t)'
      BY <1>2, <1>4, <2>1, <3>2, <3>3 DEF Reports, At
    <3>. QED  BY <1>4, <2>1, <3>4, <3>5 DEF RequestOK, At
  <2>3. /\ label \in Labels /\ label \notin {"issue", "commit"}
        /\ r.issued = FALSE /\ r.dates \in BOOLEAN
    BY <1>1, <1>4, Knows DEF IInv, Labels
  <2>. QED  BY <1>1, <1>2, <1>4, <2>2, <2>3, QuietStep
<1>5. CASE ReadWaiting(t)
  <2> DEFINE waiting == {i \in Installments : slip[i].status = "AGUARDANDO_REGISTRO"}
             label == IF waiting = {} THEN "done" ELSE "store"
             r == [my[t] EXCEPT !.found = waiting, !.number = sequence + 1]
  <2>1. Go(t, label, r) /\ At(t, "read") /\ my[t].kind = "remit"
    BY <1>5 DEF ReadWaiting
  <2>2. /\ label \in {"store", "done"} /\ channel = "CNAB"
        /\ \A i \in waiting : HasSlip(i)
    BY <1>3, <2>1 DEF RequestOK, Remits, HasSlip
  <2> HIDE DEF waiting, label
  <2>3. /\ r = [f \in Fields |-> r[f]] /\ r.number = sequence + 1 /\ r.issued = my[t].issued
        /\ r.dates = my[t].dates /\ r.kind = my[t].kind /\ r.item = my[t].item
        /\ r.hook = my[t].hook
        /\ r.found = waiting /\ r.cancels = my[t].cancels
    BY Knows DEF Fields, IInv
  <2>4. sequence + 1 \in Nat
    BY DEF IInv, Shape
  <2> HIDE DEF r
  <2>. QED  BY <1>4, <2>1, <2>2, <2>3, <2>4
<1>6. CASE ReadReport(t)
  <2>1. At(t, "read") /\ my[t].kind = "report"
    BY <1>6 DEF ReadReport
  <2>2. CASE End(t)
    BY <1>1, <1>2, <2>2, QuietStep DEF End, Labels
  <2>3. CASE ~End(t)
    <3> DEFINE label == IF my[t].item.occurrence = "LIQUIDACAO" THEN "already" ELSE "status"
    <3>1. PICK i \in SlipsWith(my[t].item.number) : Go(t, label, [my[t] EXCEPT !.line = i])
      BY <1>6, <2>3 DEF ReadReport, SlipFound
    <3> DEFINE r == [my[t] EXCEPT !.line = i]
    <3>2. HasSlip(i) /\ slip[i].number = my[t].item.number
      BY <3>1 DEF SlipFound, SlipsWith, HasSlip
    <3>3. /\ r = [f \in Fields |-> r[f]] /\ r.number = my[t].number /\ r.issued = my[t].issued
          /\ r.dates = my[t].dates /\ r.kind = my[t].kind /\ r.item = my[t].item
        /\ r.hook = my[t].hook
          /\ r.line = i /\ r.cancels = my[t].cancels
      BY Knows DEF Fields, IInv
    <3>4. /\ label \in {"already", "status"}
          /\ label = "status" <=> my[t].item.occurrence # "LIQUIDACAO"
      OBVIOUS
    <3>5. Go(t, label, r) /\ my[t].number \in Nat
      BY <3>1, Knows DEF IInv
    <3> HIDE DEF label, r
    <3>. QED  BY <1>4, <2>1, <3>2, <3>3, <3>4, <3>5
  <2>. QED  BY <2>2, <2>3
<1>7. CASE LookUpSettlement(t)
  <2>1. PICK label \in {"done", "open"} : Go(t, label, my[t])
    BY <1>7 DEF LookUpSettlement
  <2>2. At(t, "already")
    BY <1>7 DEF LookUpSettlement
  <2>3. /\ my[t].kind = "report" /\ my[t].item.occurrence = "LIQUIDACAO"
        /\ HasSlip(my[t].line) /\ slip[my[t].line].number = my[t].item.number
    BY <1>3, <2>2 DEF RequestOK, Reports, At
  <2>4. my[t] = [f \in Fields |-> my[t][f]] /\ my[t].number \in Nat
    BY Knows DEF IInv
  <2>. QED  BY <1>4, <2>1, <2>3, <2>4
<1>8. CASE ReadOpen(t)
  <2> DEFINE row == plan[my[t].line]
             owed == row.open
             fits(amount) == row.status # "CANCELADA" /\ amount > 0 /\ amount <= row.open
  <2>1. PICK amount : Go(t, IF fits(amount) THEN "pay" ELSE "done",
                         [my[t] EXCEPT !.sum = owed, !.amount = amount])
    BY <1>8 DEF ReadOpen
  <2> DEFINE label == IF fits(amount) THEN "pay" ELSE "done"
             r == [my[t] EXCEPT !.sum = owed, !.amount = amount]
  <2>2. At(t, "open") /\ label \in {"done", "pay"}
    BY <1>8 DEF ReadOpen
  <2>3. Go(t, label, r)
    BY <2>1
  <2> HIDE DEF owed, label
  <2>4. /\ r = [f \in Fields |-> r[f]] /\ r.number = my[t].number /\ r.issued = my[t].issued
        /\ r.dates = my[t].dates /\ r.kind = my[t].kind /\ r.item = my[t].item
        /\ r.hook = my[t].hook
        /\ r.line = my[t].line /\ r.cancels = my[t].cancels
    BY Knows DEF Fields, IInv
  <2>5. my[t].kind = "report" =>
            /\ my[t].item.occurrence = "LIQUIDACAO"
            /\ HasSlip(my[t].line) /\ slip[my[t].line].number = my[t].item.number
    BY <1>3, <2>2 DEF RequestOK, Reports, At
  <2>6. my[t].number \in Nat /\ my[t].kind \in {"report", "settle"}
    BY <1>3, <2>2, Knows DEF IInv, RequestOK, At
  <2>7. label \notin {"store", "already", "status"}
    BY <2>2
  <2>8. r.kind = "report" =>
            /\ HasSlip(r.line) /\ slip[r.line].number = r.item.number
            /\ label = "status" <=> r.item.occurrence # "LIQUIDACAO"
    BY <2>4, <2>5, <2>7
  <2>9. r.number \in Nat /\ r.kind \in {"report", "settle"}
    BY <2>4, <2>6
  <2> HIDE DEF r
  <2>. QED  BY <1>4, <2>2, <2>3, <2>4, <2>7, <2>8, <2>9
<1>. QED  BY <1>5, <1>6, <1>7, <1>8

-----------------------------------------------------------------------------
\* The slip is inserted, and registered by an agreement of channel API.
LEMMA IssueSlipStep ==
    ASSUME IInv, NEW t \in Tx, IssueSlip(t)
    PROVE  IInv'
<1> DEFINE fails == \/ SlipsWith(my[t].number) # {}
                    \/ slip[my[t].line].status \notin {"none", "CANCELADO"}
           r == [my[t] EXCEPT !.issued = TRUE]
           n == my[t].number
<1>1. /\ At(t, "issue") /\ UNCHANGED << money, mail, orphans >>
      /\ \A u \in Issuing(t) : my[u].number # n /\ my[u].line # my[t].line
      /\ IF fails THEN End(t) /\ UNCHANGED bank
         ELSE /\ Go(t, "commit", r)
              /\ bank' = IF channel = "API" THEN bank \cup {<< n, my[t].line >>} ELSE bank
  BY DEF IssueSlip
<1>2. RequestOK(t) /\ ~my[t].issued /\ my[t].line \in Installments /\ n \in Nat
  BY <1>1, Knows DEF IInv, RequestOK, Issues, Bills, At
<1>3. CASE fails
  BY <1>1, <1>2, <1>3, QuietStep DEF End, Labels
<1>4. CASE ~fails
  <2>1. /\ r = [f \in Fields |-> r[f]] /\ r.number = n /\ r.issued = TRUE
        /\ r.dates = my[t].dates /\ r.kind = my[t].kind /\ r.line = my[t].line
        /\ r.cancels = my[t].cancels
    BY Knows DEF Fields, IInv
  <2>2. /\ \A u \in Tx : u # t => my'[u] = my[u] /\ pc'[u] = pc[u]
        /\ pc'[t] = "commit" /\ my'[t] = r
    BY <1>1, <1>4, OthersStay DEF IInv
  <2>3. ~HasSlip(my[t].line)
    <3>1. my[t].dates => HasAbatement(my[t].line[1])
      BY <1>1, <1>2 DEF RequestOK, Bills, At
    <3>2. ~my[t].dates => ~HasPlan(my[t].line)
      BY <1>1, <1>2 DEF RequestOK, Bills, Inserts, At
    <3>3. slip[my[t].line].status = "CANCELADO" => ~HasAbatement(my[t].line[1])
      BY <1>2 DEF IInv, Slips
    <3>4. HasSlip(my[t].line) => HasPlan(my[t].line)
      BY <1>2 DEF IInv, Slips
    <3>5. slip[my[t].line].status \in {"none", "CANCELADO"}
      BY <1>4
    <3>. QED  BY <3>1, <3>2, <3>3, <3>4, <3>5 DEF HasSlip
  <2>4. \A i \in Installments : HasSlip(i) => slip[i].number # n
    BY <1>4 DEF SlipsWith, HasSlip
  <2> HIDE DEF r
  <2>5. /\ \A i : (MayCancel(i)' <=> MayCancel(i)) /\ (HasSlip(i)' <=> HasSlip(i))
        /\ \A i : HasPlan(i)' <=> HasPlan(i)
        /\ \A T : HasAbatement(T)' <=> HasAbatement(T)
        /\ UNCHANGED << channel, next, sequence, origin, plan, slip, files, mail >>
    BY <1>1 DEF money, HasAbatement, HasPlan, HasSlip, MayCancel
  <2>6. RequestOK(t)'
    <3>1. Bills(t)'
      BY <1>1, <1>2, <2>1, <2>2, <2>5 DEF RequestOK, Bills, Inserts, At
    <3>2. Issues(t)'
      BY <2>1, <2>2, <2>3, <2>4, <2>5 DEF Issues
    <3>. QED  BY <1>1, <1>2, <2>1, <2>2, <3>1, <3>2 DEF RequestOK, Remits, Reports, At
  <2>7. Apart'
    <3>1. Inserts(t)' => Inserts(t)
      BY <1>1, <2>1, <2>2 DEF Inserts, At
    <3>2. \A u \in Tx : u # t => (Inserts(u)' <=> Inserts(u))
      BY <2>2 DEF Inserts
    <3>3. \A u \in Tx \ {t} : my[u].issued => my[u].number # n /\ my[u].line # my[t].line
      BY <1>1 DEF Issuing, UnderWay, IInv, RequestOK, Issues
    <3>. QED  BY <2>1, <2>2, <3>1, <3>2, <3>3 DEF IInv, Apart
  <2>8. ASSUME NEW b \in bank' PROVE Registered(b)'
    <3>1. CASE b \in bank
      <4>1. Registered(b)
        BY <3>1 DEF IInv, Bank
      <4>2. \A u \in Tx : my[u].issued => my'[u] = my[u]
        BY <1>2, <2>2
      <4>. QED  BY <1>1, <2>5, <4>1, <4>2 DEF Registered
    <3>2. CASE b \notin bank
      <4>1. channel = "API" /\ b = << n, my[t].line >>
        BY <1>1, <1>4, <2>8, <3>2
      <4>2. b[1] = n /\ b[2] = my[t].line
        BY <4>1
      <4>. QED  BY <2>1, <2>2, <2>5, <4>1, <4>2 DEF Registered
    <3>. QED  BY <3>1, <3>2
  <2>9. /\ bank \subseteq bank' /\ \A b \in bank' \ bank : channel = "API"
        /\ bank' \subseteq Nat \X Installments
    BY <1>1, <1>2, <1>4 DEF IInv, Shape
  <2>10. /\ next' \in Nat /\ origin' \in [Sales -> Titles]
         /\ plan' = [i \in Installments |-> plan'[i]]
         /\ \A i \in Installments : plan'[i] = [f \in RowFields |-> plan'[i][f]]
         /\ slip' \in [Installments -> [status : Statuses, number : Nat]]
    BY <2>5 DEF IInv, Shape
  <2>11. /\ \A i \in Installments :
                /\ HasPlan(i) => HasPlan(i)'
                /\ HasSlip(i) => HasSlip(i)' /\ slip'[i].number = slip[i].number
                /\ plan'[i].abated > 0 <=> plan[i].abated > 0
         /\ \A i \in Installments : HasPlan(i)' /\ ~HasPlan(i) => Inserts(t) /\ my[t].line = i
         /\ \A i \in Installments : HasSlip(i)' /\ ~HasSlip(i) =>
                HasPlan(i)' /\ my[t].issued /\ my[t].line = i /\ slip'[i].number = my[t].number
         /\ \A i \in Installments : slip'[i].status = "CANCELADO" => ~HasAbatement(i[1])
         /\ \A i \in Installments : slip'[i].status = "REJEITADO" =>
                \E m \in mail : m.occurrence = "REGISTRO_REJEITADO" /\ m.number = slip'[i].number
    BY <2>5 DEF IInv, Slips, Bank
  <2>12. r.number \in Nat /\ r.issued \in BOOLEAN /\ r.dates \in BOOLEAN /\ "commit" \in Labels
    BY <1>2, <2>1, Knows DEF IInv, Labels
  <2>. QED  BY <1>1, <1>4, <2>1, <2>5, <2>6, <2>7, <2>8, <2>9, <2>10, <2>11, <2>12, WritingStep
<1>. QED  BY <1>3, <1>4

LEMMA CommitPlanStep ==
    ASSUME IInv, NEW t \in Tx, CommitPlan(t)
    PROVE  IInv'
<1> DEFINE line == my[t].line
           new(i) == i = line /\ ~my[t].dates
           row == [status |-> "ABERTA", original |-> my[t].sum, open |-> my[t].sum, abated |-> 0]
<1>1. /\ At(t, "commit") /\ Go(t, "done", Idle)
      /\ UNCHANGED << channel, sequence, files, bank, mail, orphans >>
      /\ next' = NextNossoNumero(t)
      /\ plan' = [i \in Installments |->
            CASE new(i) -> row
              [] i \in my[t].cancels -> [plan[i] EXCEPT !.status = "CANCELADA", !.open = 0]
              [] OTHER -> plan[i]]
      /\ slip' = [i \in Installments |->
            CASE i = line /\ my[t].issued ->
                    [status |-> IF channel = "API" THEN "REGISTRADO" ELSE "AGUARDANDO_REGISTRO",
                     number |-> my[t].number]
              [] i \in my[t].cancels /\ slip[i].status # "none" ->
                    [slip[i] EXCEPT !.status = "CANCELADO"]
              [] OTHER -> slip[i]]
      /\ origin' = [s \in Sales |->
            IF my[t].merges /\ s \in my[t].sales THEN line[1] ELSE origin[s]]
  BY DEF CommitPlan, End
<1>2. /\ RequestOK(t) /\ line \in Installments /\ my[t].number \in Nat
      /\ my[t].issued \in BOOLEAN /\ my[t].dates \in BOOLEAN
      /\ \A i \in my[t].cancels : MayCancel(i)
      /\ ~my[t].dates => Inserts(t) /\ ~HasPlan(line)
      /\ my[t].dates => HasPlan(line)
      /\ my[t].issued => ~HasSlip(line)
  BY <1>1, Knows DEF IInv, RequestOK, Bills, Issues, Inserts, At
<1>3. /\ my[t].cancels \subseteq Installments
      /\ \A i \in Installments : new(i) => i \notin my[t].cancels
      /\ my[t].issued => ~HasSlip(line)
  BY <1>2 DEF MayCancel, HasPlan
<1>4. next' \in Nat
  <2>1. next' = IF my[t].issued THEN my[t].number + 1 ELSE next
    BY <1>1 DEF NextNossoNumero
  <2>2. next \in Nat /\ my[t].number \in Nat
    BY <1>2 DEF IInv, Shape
  <2>. QED  BY <2>1, <2>2
<1>5. origin' \in [Sales -> Titles]
  BY <1>1, <1>2, InstallmentsOf DEF IInv, Shape
<1> HIDE DEF line, new
<1>6. /\ plan' = [i \in Installments |-> plan'[i]]
      /\ \A i \in Installments :
            /\ new(i) => plan'[i] = row
            /\ ~new(i) /\ i \in my[t].cancels =>
                    plan'[i] = [plan[i] EXCEPT !.status = "CANCELADA", !.open = 0]
            /\ ~new(i) /\ i \notin my[t].cancels => plan'[i] = plan[i]
  BY <1>1, <1>3
<1>7. \A i \in Installments :
            /\ plan'[i] = [f \in RowFields |-> plan'[i][f]]
            /\ new(i) => plan'[i].status = "ABERTA" /\ plan'[i].abated = 0
            /\ ~new(i) => plan'[i].abated = plan[i].abated
            /\ ~new(i) => plan'[i].status \in {plan[i].status, "CANCELADA"}
            /\ ~new(i) /\ i \notin my[t].cancels => plan'[i].status = plan[i].status
  <2> SUFFICES ASSUME NEW i \in Installments
               PROVE  /\ plan'[i] = [f \in RowFields |-> plan'[i][f]]
                      /\ new(i) => plan'[i].status = "ABERTA" /\ plan'[i].abated = 0
                      /\ ~new(i) => plan'[i].abated = plan[i].abated
                      /\ ~new(i) => plan'[i].status \in {plan[i].status, "CANCELADA"}
                      /\ ~new(i) /\ i \notin my[t].cancels => plan'[i].status = plan[i].status
    OBVIOUS
  <2>1. plan[i] = [f \in RowFields |-> plan[i][f]]
    BY DEF IInv, Shape
  <2>2. CASE new(i)
    <3>1. plan'[i] = row
      BY <1>6, <2>2
    <3>. QED  BY <2>2, <3>1 DEF RowFields
  <2>3. CASE ~new(i) /\ i \in my[t].cancels
    BY <1>6, <2>1, <2>3 DEF RowFields
  <2>4. CASE ~new(i) /\ i \notin my[t].cancels
    BY <1>6, <2>1, <2>4
  <2>. QED  BY <2>2, <2>3, <2>4
<1>8. \A i \in Installments :
            /\ slip'[i] \in [status : Statuses, number : Nat]
            /\ i = line /\ my[t].issued => slip'[i].status \in {"REGISTRADO", "AGUARDANDO_REGISTRO"}
                                           /\ slip'[i].number = my[t].number
            /\ ~(i = line /\ my[t].issued) => slip'[i].number = slip[i].number
            /\ ~(i = line /\ my[t].issued) => (slip'[i].status = "none" <=> slip[i].status = "none")
            /\ ~(i = line /\ my[t].issued) =>
                    \/ slip'[i].status = slip[i].status
                    \/ slip'[i].status = "CANCELADO" /\ i \in my[t].cancels
  <2> SUFFICES ASSUME NEW i \in Installments
               PROVE  /\ slip'[i] \in [status : Statuses, number : Nat]
                      /\ i = line /\ my[t].issued =>
                            slip'[i].status \in {"REGISTRADO", "AGUARDANDO_REGISTRO"}
                            /\ slip'[i].number = my[t].number
                      /\ ~(i = line /\ my[t].issued) =>
                            /\ slip'[i].number = slip[i].number
                            /\ slip'[i].status = "none" <=> slip[i].status = "none"
                            /\ \/ slip'[i].status = slip[i].status
                               \/ slip'[i].status = "CANCELADO" /\ i \in my[t].cancels
    OBVIOUS
  <2>1. slip[i] \in [status : Statuses, number : Nat]
    BY DEF IInv, Shape
  <2>2. CASE i = line /\ my[t].issued
    <3>1. slip'[i] = [status |-> IF channel = "API" THEN "REGISTRADO" ELSE "AGUARDANDO_REGISTRO",
                      number |-> my[t].number]
      BY <1>1, <1>3, <2>2 DEF HasSlip
    <3>. QED  BY <1>2, <2>2, <3>1 DEF Statuses
  <2>3. CASE ~(i = line /\ my[t].issued) /\ i \in my[t].cancels /\ slip[i].status # "none"
    <3>1. slip'[i] = [slip[i] EXCEPT !.status = "CANCELADO"]
      BY <1>1, <2>3
    <3>. QED  BY <2>1, <2>3, <3>1 DEF Statuses
  <2>4. CASE ~(i = line /\ my[t].issued) /\ ~(i \in my[t].cancels /\ slip[i].status # "none")
    <3>1. slip'[i] = slip[i]
      BY <1>1, <2>4
    <3>. QED  BY <2>1, <2>4, <3>1
  <2>. QED  BY <2>2, <2>3, <2>4
<1>9. slip' \in [Installments -> [status : Statuses, number : Nat]]
  BY <1>1, <1>8
<1>10. \A i \in Installments :
            /\ HasPlan(i) => HasPlan(i)'
            /\ HasSlip(i) => HasSlip(i)' /\ slip'[i].number = slip[i].number
            /\ plan'[i].abated > 0 <=> plan[i].abated > 0
  <2>1. \A i \in Installments : new(i) => i = line /\ ~HasPlan(i) /\ ~(plan[i].abated > 0)
    BY <1>2 DEF new, IInv, Slips, HasPlan
  <2>2. ~(0 > 0)
    OBVIOUS
  <2>3. \A i \in Installments : HasSlip(i) => ~(i = line /\ my[t].issued)
    BY <1>2
  <2>4. \A i \in Installments : HasPlan(i) => HasPlan(i)'
    BY <1>7 DEF HasPlan
  <2>5. \A i \in Installments : HasSlip(i) => HasSlip(i)' /\ slip'[i].number = slip[i].number
    BY <1>8, <2>3 DEF HasSlip
  <2>6. \A i \in Installments : plan'[i].abated > 0 <=> plan[i].abated > 0
    BY <1>7, <2>1, <2>2
  <2>. QED  BY <2>4, <2>5, <2>6
<1>11. \A i \in Installments : HasPlan(i)' /\ ~HasPlan(i) => Inserts(t) /\ my[t].line = i
  <2>1. \A i \in my[t].cancels : HasPlan(i)
    BY <1>2 DEF MayCancel
  <2>. QED  BY <1>2, <1>7, <2>1 DEF new, line, HasPlan
<1>12. \A i \in Installments : HasSlip(i)' /\ ~HasSlip(i) =>
            HasPlan(i)' /\ my[t].issued /\ my[t].line = i /\ slip'[i].number = my[t].number
  <2>1. \A i \in Installments : i = line => HasPlan(i)'
    <3>1. CASE my[t].dates
      BY <1>2, <1>10, <3>1
    <3>2. CASE ~my[t].dates
      BY <1>2, <1>7, <3>2 DEF new, HasPlan
    <3>. QED  BY <3>1, <3>2
  <2>2. \A i \in Installments : HasSlip(i)' /\ ~HasSlip(i) => i = line /\ my[t].issued
    BY <1>8 DEF HasSlip
  <2>. QED  BY <1>8, <2>1, <2>2 DEF line
<1>13. \A i \in Installments : slip'[i].status = "CANCELADO" => ~HasAbatement(i[1])
  BY <1>2, <1>8 DEF MayCancel, IInv, Slips
<1>14. \A i \in Installments : slip'[i].status = "REJEITADO" =>
            \E m \in mail : m.occurrence = "REGISTRO_REJEITADO" /\ m.number = slip'[i].number
  BY <1>8 DEF IInv, Bank
<1>15. ASSUME NEW b \in bank PROVE Registered(b)'
  <2>1. Registered(b) /\ b[2] \in Installments
    BY <1>15 DEF IInv, Bank, Shape
  <2>2. \A u \in Tx : u # t => my'[u] = my[u]
    BY <1>1, OthersStay DEF IInv
  <2>3. my[t].issued =>
            \A i \in Installments : i = line => HasSlip(i)' /\ slip'[i].number = my[t].number
    BY <1>2, <1>8 DEF HasSlip
  <2>4. HasSlip(b[2]) /\ slip[b[2]].number = b[1] => HasSlip(b[2])' /\ slip'[b[2]].number = b[1]
    BY <1>10, <2>1
  <2>. QED  BY <1>1, <2>1, <2>2, <2>3, <2>4 DEF Registered, line
<1>16. Apart'
  BY <1>1, EndApart DEF IInv
<1>17. /\ bank' \subseteq Nat \X Installments /\ bank \subseteq bank'
       /\ \A b \in bank' : Registered(b)'
       /\ \A b \in bank' \ bank : channel = "API"
  BY <1>1, <1>15 DEF IInv, Shape
<1>18. /\ plan' = [i \in Installments |-> plan'[i]]
       /\ \A i \in Installments : plan'[i] = [f \in RowFields |-> plan'[i][f]]
  BY <1>6, <1>7
<1>19. "done" \in Labels /\ Go(t, "done", Idle) /\ UNCHANGED << channel, mail, files, sequence >>
  BY <1>1 DEF Labels
<1>. QED  BY <1>4, <1>5, <1>9, <1>10, <1>11, <1>12, <1>13, <1>14, <1>16, <1>17, <1>18, <1>19,
             WritingStep

\* Steps that leave the plans' rows and the slips' numbers.
LEMMA StatusStep ==
    ASSUME IInv, NEW t \in Tx, Go(t, "done", Idle),
           UNCHANGED << channel, next, sequence, origin, files, bank, mail >>,
           orphans \subseteq orphans',
           my[t].issued => channel # "API" \/ my[t].number \in orphans',
           UNCHANGED plan \/ \E i \in Installments : \E n : plan' = [plan EXCEPT ![i].open = n],
           \/ UNCHANGED slip
           \/ \E i \in Installments, st \in {"REGISTRADO", "REJEITADO", "LIQUIDADO"} :
                /\ slip' = [slip EXCEPT ![i].status = st] /\ HasSlip(i)
                /\ st = "REJEITADO" => \E m \in mail :
                        m.occurrence = "REGISTRO_REJEITADO" /\ m.number = slip[i].number
    PROVE  IInv'
<1>1. /\ plan' = [i \in Installments |-> plan'[i]]
      /\ \A i \in Installments :
            /\ plan'[i] = [f \in RowFields |-> plan'[i][f]]
            /\ plan'[i].status = plan[i].status /\ plan'[i].abated = plan[i].abated
  <2>1. /\ plan = [i \in Installments |-> plan[i]]
        /\ \A i \in Installments : plan[i] = [f \in RowFields |-> plan[i][f]]
    BY DEF IInv, Shape
  <2>2. CASE UNCHANGED plan
    BY <2>1, <2>2
  <2>3. ASSUME NEW j \in Installments, NEW n, plan' = [plan EXCEPT ![j].open = n]
        PROVE  /\ plan' = [i \in Installments |-> plan'[i]]
               /\ \A i \in Installments :
                    /\ plan'[i] = [f \in RowFields |-> plan'[i][f]]
                    /\ plan'[i].status = plan[i].status /\ plan'[i].abated = plan[i].abated
    <3>1. plan' = [i \in Installments |-> plan'[i]]
      BY <2>1, <2>3
    <3>2. \A i \in Installments : plan'[i] = IF i = j THEN [plan[i] EXCEPT !.open = n] ELSE plan[i]
      BY <2>1, <2>3
    <3>3. \A i \in Installments :
            /\ plan'[i] = [f \in RowFields |-> plan'[i][f]]
            /\ plan'[i].status = plan[i].status /\ plan'[i].abated = plan[i].abated
      BY <2>1, <3>2 DEF RowFields
    <3>. QED  BY <3>1, <3>3
  <2>. QED  BY <2>2, <2>3
<1>2. slip' \in [Installments -> [status : Statuses, number : Nat]]
  <2>1. slip \in [Installments -> [status : Statuses, number : Nat]]
    BY DEF IInv, Shape
  <2>2. ASSUME NEW i \in Installments, NEW st \in {"REGISTRADO", "REJEITADO", "LIQUIDADO"},
               slip' = [slip EXCEPT ![i].status = st]
        PROVE  slip' \in [Installments -> [status : Statuses, number : Nat]]
    <3>1. [slip[i] EXCEPT !.status = st] \in [status : Statuses, number : Nat]
      BY <2>1, <2>2 DEF Statuses
    <3>. QED  BY <2>1, <2>2, <3>1
  <2>. QED  BY <2>1, <2>2
<1>3. \A i \in Installments :
            /\ slip'[i].number = slip[i].number
            /\ slip'[i].status = "none" <=> slip[i].status = "none"
            /\ slip'[i].status = "CANCELADO" => slip[i].status = "CANCELADO"
            /\ slip'[i].status = "REJEITADO" =>
                \E m \in mail : m.occurrence = "REGISTRO_REJEITADO" /\ m.number = slip'[i].number
  <2>1. slip \in [Installments -> [status : Statuses, number : Nat]]
    BY DEF IInv, Shape
  <2>2. \A i \in Installments : slip[i].status = "REJEITADO" =>
            \E m \in mail : m.occurrence = "REGISTRO_REJEITADO" /\ m.number = slip[i].number
    BY DEF IInv, Bank
  <2>. QED  BY <2>1, <2>2 DEF HasSlip
<1>4. \A i : (HasPlan(i)' <=> HasPlan(i)) /\ (HasSlip(i)' <=> HasSlip(i))
  BY <1>1, <1>3 DEF HasPlan, HasSlip
<1>5. ASSUME NEW b \in bank PROVE Registered(b)'
  <2>1. Registered(b) /\ b[2] \in Installments
    BY <1>5 DEF IInv, Bank, Shape
  <2>2. \A u \in Tx : u # t => my'[u] = my[u]
    BY OthersStay DEF IInv
  <2>3. CASE b[1] \in orphans \/ (HasSlip(b[2]) /\ slip[b[2]].number = b[1])
    BY <1>3, <1>4, <2>1, <2>3 DEF Registered
  <2>4. CASE channel # "API"
    <3>1. PICK f \in files : f.read /\ f.number = b[1] /\ f.line = b[2]
      BY <2>1, <2>4 DEF Registered
    <3>2. HasSlip(b[2]) /\ slip[b[2]].number = b[1]
      BY <3>1 DEF IInv, Files
    <3>. QED  BY <2>3, <3>2
  <2>5. ASSUME NEW u \in Tx, my[u].issued, my[u].number = b[1], my[u].line = b[2],
               channel = "API"
        PROVE  Registered(b)'
    <3>1. CASE u = t
      BY <2>1, <2>5, <3>1 DEF Registered
    <3>2. CASE u # t
      BY <2>1, <2>2, <2>5, <3>2 DEF Registered
    <3>. QED  BY <3>1, <3>2
  <2>. QED  BY <2>1, <2>3, <2>4, <2>5 DEF Registered
<1>6. /\ \A i \in Installments :
            /\ HasPlan(i) => HasPlan(i)'
            /\ HasSlip(i) => HasSlip(i)' /\ slip'[i].number = slip[i].number
            /\ plan'[i].abated > 0 <=> plan[i].abated > 0
      /\ \A i \in Installments : HasPlan(i)' /\ ~HasPlan(i) => Inserts(t) /\ my[t].line = i
      /\ \A i \in Installments : HasSlip(i)' /\ ~HasSlip(i) =>
            HasPlan(i)' /\ my[t].issued /\ my[t].line = i /\ slip'[i].number = my[t].number
  BY <1>1, <1>3, <1>4
<1>7. \A i \in Installments : slip'[i].status = "CANCELADO" => ~HasAbatement(i[1])
  BY <1>3 DEF IInv, Slips
<1>8. /\ bank' \subseteq Nat \X Installments /\ bank \subseteq bank'
      /\ \A b \in bank' : Registered(b)'
      /\ \A b \in bank' \ bank : channel = "API"
      /\ next' \in Nat /\ origin' \in [Sales -> Titles]
  BY <1>5 DEF IInv, Shape
<1>9. Apart'
  BY EndApart DEF IInv
<1>10. "done" \in Labels
  BY DEF Labels
<1>. QED  BY <1>1, <1>2, <1>3, <1>6, <1>7, <1>8, <1>9, <1>10, WritingStep

LEMMA StatusSteps ==
    ASSUME IInv, NEW t \in Tx, WriteSlipStatus(t) \/ WriteSettlement(t) \/ Fail(t)
    PROVE  IInv'
<1>1. RequestOK(t)
  BY DEF IInv
<1>2. CASE WriteSlipStatus(t)
  <2> DEFINE told == StatusAfter(my[t].item.occurrence)
             line == my[t].line
  <2>1. /\ At(t, "status") /\ Go(t, "done", Idle)
        /\ slip' = [slip EXCEPT ![line].status = told]
        /\ UNCHANGED << channel, next, sequence, origin, plan, files, bank, mail, orphans >>
    BY <1>2 DEF WriteSlipStatus, End
  <2>2. /\ my[t].kind = "report" /\ HasSlip(line) /\ slip[line].number = my[t].item.number
        /\ my[t].item \in mail /\ my[t].item.occurrence # "LIQUIDACAO" /\ ~my[t].issued
    BY <1>1, <2>1 DEF RequestOK, Reports, Issues, At
  <2>3. Reported(my[t].item) /\ line \in Installments
    BY <2>2 DEF IInv, Bank, HasSlip
  <2>4. /\ told \in {"REGISTRADO", "REJEITADO"}
        /\ told = "REJEITADO" => my[t].item.occurrence = "REGISTRO_REJEITADO"
    BY <2>2, <2>3 DEF StatusAfter, Reported
  <2> HIDE DEF told, line
  <2>5. \E i \in Installments, s \in {"REGISTRADO", "REJEITADO", "LIQUIDADO"} :
            /\ slip' = [slip EXCEPT ![i].status = s] /\ HasSlip(i)
            /\ s = "REJEITADO" => \E m \in mail :
                    m.occurrence = "REGISTRO_REJEITADO" /\ m.number = slip[i].number
    BY <2>1, <2>2, <2>3, <2>4
  <2>. QED  BY <2>1, <2>2, <2>5, StatusStep
<1>3. CASE WriteSettlement(t)
  <2> DEFINE line == my[t].line
             owed == my[t].sum - my[t].amount
  <2>1. /\ At(t, "pay") /\ Go(t, "done", Idle)
        /\ plan' = [plan EXCEPT ![line].open = owed]
        /\ slip' = IF my[t].kind = "report" THEN [slip EXCEPT ![line].status = "LIQUIDADO"]
                   ELSE slip
        /\ UNCHANGED << channel, next, sequence, origin, files, bank, mail, orphans >>
    BY <1>3 DEF WriteSettlement, End
  <2>2. ~my[t].issued /\ (my[t].kind = "report" => HasSlip(line))
    BY <1>1, <2>1 DEF RequestOK, Reports, Issues, At
  <2> HIDE DEF line, owed
  <2>3. UNCHANGED plan \/ \E i \in Installments : \E n : plan' = [plan EXCEPT ![i].open = n]
    <3>1. CASE line \in Installments
      BY <2>1, <3>1
    <3>2. CASE line \notin Installments
      BY <2>1, <3>2 DEF IInv, Shape
    <3>. QED  BY <3>1, <3>2
  <2>4. \/ UNCHANGED slip
        \/ \E i \in Installments, s \in {"REGISTRADO", "REJEITADO", "LIQUIDADO"} :
            /\ slip' = [slip EXCEPT ![i].status = s] /\ HasSlip(i)
            /\ s = "REJEITADO" => \E m \in mail :
                    m.occurrence = "REGISTRO_REJEITADO" /\ m.number = slip[i].number
    BY <2>1, <2>2 DEF HasSlip
  <2>. QED  BY <2>1, <2>2, <2>3, <2>4, StatusStep
<1>4. CASE Fail(t)
  <2>1. /\ Go(t, "done", Idle)
        /\ orphans' = IF my[t].issued /\ channel = "API" THEN orphans \cup {my[t].number}
                      ELSE orphans
        /\ UNCHANGED << channel, next, sequence, origin, plan, slip, files, bank, mail >>
    BY <1>4 DEF Fail, End, money
  <2>. QED  BY <2>1, StatusStep
<1>. QED  BY <1>2, <1>3, <1>4

\* A step that writes remittances, registrations or reports, and may end t.
LEMMA BankStep ==
    ASSUME IInv, UNCHANGED << channel, next, origin, plan, slip, orphans >>,
           UNCHANGED << my, pc >> \/ \E t \in Tx : Go(t, "done", Idle),
           Files', Bank', mail \subseteq mail', sequence' \in Nat,
           files' \subseteq [sequence : Nat, number : Nat, line : Installments, read : BOOLEAN],
           bank' \subseteq Nat \X Installments
    PROVE  IInv'
<1>1. /\ \A i : (HasPlan(i)' <=> HasPlan(i)) /\ (HasSlip(i)' <=> HasSlip(i))
      /\ \A T : HasAbatement(T)' <=> HasAbatement(T)
  BY DEF HasPlan, HasSlip, HasAbatement
<1>2. Slips'
  BY <1>1 DEF IInv, Slips
<1>3. CASE UNCHANGED << my, pc >>
  <2>1. Shape'
    BY <1>3 DEF IInv, Shape
  <2>2. \A u \in Tx : RequestOK(u)'
    BY <1>1, <1>3, OtherRequest DEF IInv
  <2>3. Apart'
    BY <1>3 DEF IInv, Apart, Inserts
  <2>. QED  BY <1>2, <2>1, <2>2, <2>3 DEF IInv
<1>4. ASSUME NEW t \in Tx, Go(t, "done", Idle)
      PROVE  IInv'
  <2>1. Shape'
    BY <1>4, RequestShape DEF IInv, Shape, Labels
  <2>2. Apart'
    BY <1>4, EndApart DEF IInv
  <2>3. ASSUME NEW u \in Tx PROVE RequestOK(u)'
    <3>1. /\ u # t => my'[u] = my[u] /\ pc'[u] = pc[u]
          /\ u = t => my'[u] = Idle /\ pc'[u] = "done"
      BY <1>4, OthersStay DEF IInv
    <3>2. CASE u # t
      BY <1>1, <3>1, <3>2, OtherRequest DEF IInv
    <3>3. CASE u = t
      <4>1. my'[u] = Idle /\ pc'[u] = "done"
        BY <3>1, <3>3
      <4>. QED  BY <4>1, IdleFacts DEF RequestOK, Bills, Issues, Remits, Reports, Inserts, At
    <3>. QED  BY <3>2, <3>3
  <2>. QED  BY <1>2, <2>1, <2>2, <2>3 DEF IInv
<1>. QED  BY <1>3, <1>4

LEMMA StoreRemittanceStep ==
    ASSUME IInv, NEW t \in Tx, StoreRemittance(t)
    PROVE  IInv'
<1> DEFINE new == {[sequence |-> my[t].number, number |-> slip[i].number,
                    line |-> i, read |-> FALSE] : i \in my[t].found}
<1>1. /\ At(t, "store") /\ Go(t, "done", Idle)
      /\ UNCHANGED << channel, next, origin, plan, slip, bank, mail, orphans >>
      /\ IF sequence >= my[t].number THEN UNCHANGED << sequence, files >>
         ELSE sequence' = my[t].number /\ files' = files \cup new
  BY DEF StoreRemittance, End
<1>2. /\ channel = "CNAB" /\ ~my[t].issued /\ my[t].number \in Nat /\ sequence \in Nat
      /\ \A i \in my[t].found : HasSlip(i)
  BY <1>1, Knows DEF IInv, Shape, RequestOK, Remits, Issues, At
<1>3. \A f \in new :
        /\ f \in [sequence : Nat, number : Nat, line : Installments, read : BOOLEAN]
        /\ f.sequence = my[t].number /\ HasSlip(f.line) /\ slip[f.line].number = f.number
        /\ f = [sequence |-> my[t].number, number |-> slip[f.line].number, line |-> f.line,
                read |-> FALSE]
  <2> SUFFICES ASSUME NEW i \in my[t].found,
                      NEW f, f = [sequence |-> my[t].number, number |-> slip[i].number,
                                  line |-> i, read |-> FALSE]
               PROVE  /\ f \in [sequence : Nat, number : Nat, line : Installments, read : BOOLEAN]
                      /\ f.sequence = my[t].number /\ f.line = i /\ f.number = slip[i].number
                      /\ HasSlip(i)
    OBVIOUS
  <2>1. HasSlip(i) /\ i \in Installments
    BY <1>2 DEF HasSlip
  <2>2. slip[i].number \in Nat
    BY <2>1 DEF IInv, Shape
  <2>. QED  BY <1>2, <2>1, <2>2
<1>4. /\ \A f \in files' :
            \/ f \in files
            \/ f \in new /\ my[t].number > sequence /\ sequence' = my[t].number
      /\ files \subseteq files' /\ sequence' \in Nat /\ sequence <= sequence'
      /\ files' \subseteq [sequence : Nat, number : Nat, line : Installments, read : BOOLEAN]
  BY <1>1, <1>2, <1>3 DEF IInv, Shape
<1> HIDE DEF new
<1>5. \A i : HasSlip(i)' <=> HasSlip(i)
  BY <1>1 DEF HasSlip
<1>6. Files'
  <2>1. \A f \in files : f.sequence \in Nat /\ f.sequence <= sequence
    BY DEF IInv, Shape, Files
  <2>2. \A f \in files' : channel' = "CNAB" /\ f.sequence <= sequence'
            /\ HasSlip(f.line)' /\ slip'[f.line].number = f.number
    <3>1. ASSUME NEW f \in files
          PROVE  channel' = "CNAB" /\ f.sequence <= sequence'
                 /\ HasSlip(f.line)' /\ slip'[f.line].number = f.number
      BY <1>1, <1>2, <1>4, <1>5, <2>1, <3>1 DEF IInv, Files
    <3>2. ASSUME NEW f \in new, sequence' = my[t].number
          PROVE  channel' = "CNAB" /\ f.sequence <= sequence'
                 /\ HasSlip(f.line)' /\ slip'[f.line].number = f.number
      BY <1>1, <1>2, <1>3, <1>5, <3>2
    <3>. QED  BY <1>4, <3>1, <3>2
  <2>3. \A f, g \in files' : f.sequence = g.sequence /\ f.line = g.line => f = g
    <3>1. \A f, g \in files : f.sequence = g.sequence /\ f.line = g.line => f = g
      BY DEF IInv, Files
    <3>2. \A f, g \in new : f.line = g.line => f = g
      BY <1>3
    <3>3. \A f \in files, g \in new : my[t].number > sequence => f.sequence # g.sequence
      BY <1>2, <1>3, <2>1
    <3>. QED  BY <1>4, <3>1, <3>2, <3>3
  <2>. QED  BY <2>2, <2>3 DEF Files
<1>7. Bank'
  <2>1. \A u \in Tx : my[u].issued => my'[u] = my[u]
    BY <1>1, <1>2, OthersStay DEF IInv
  <2>2. \A b \in bank : Registered(b)'
    BY <1>1, <1>4, <1>5, <2>1 DEF IInv, Bank, Registered
  <2>3. \A m \in mail : Reported(m)'
    BY <1>1, <1>4 DEF IInv, Bank, Reported, SentTwice
  <2>. QED  BY <1>1, <2>2, <2>3 DEF IInv, Bank
<1>8. bank' \subseteq Nat \X Installments /\ mail \subseteq mail'
  BY <1>1 DEF IInv, Shape
<1>. QED  BY <1>1, <1>4, <1>6, <1>7, <1>8, BankStep

LEMMA ReadFileStep ==
    ASSUME IInv, NEW f \in files, ReadFile(f)
    PROVE  IInv'
<1> DEFINE h == [f EXCEPT !.read = TRUE]
           answer(o) == [NoItem EXCEPT !.number = f.number, !.of = f.line, !.occurrence = o]
           accepted == /\ \A b \in bank : b[1] # f.number
                       /\ bank' = bank \cup {<< f.number, f.line >>}
                       /\ mail' = mail \cup {answer("REGISTRO_CONFIRMADO")}
           rejected == UNCHANGED bank /\ mail' = mail \cup {answer("REGISTRO_REJEITADO")}
<1>1. /\ ~f.read /\ files' = (files \ {f}) \cup {h} /\ (accepted \/ rejected)
      /\ UNCHANGED << channel, next, sequence, origin, plan, slip, my, pc, orphans >>
  BY DEF ReadFile, Report
<1>2. /\ f \in [sequence : Nat, number : Nat, line : Installments, read : BOOLEAN]
      /\ channel = "CNAB" /\ f.sequence <= sequence
      /\ HasSlip(f.line) /\ slip[f.line].number = f.number
  BY DEF IInv, Shape, Files
<1>3. /\ h \in [sequence : Nat, number : Nat, line : Installments, read : BOOLEAN]
      /\ h.sequence = f.sequence /\ h.number = f.number /\ h.line = f.line /\ h.read
  BY <1>2
<1>4. \A o : (answer(o)).number = f.number /\ (answer(o)).occurrence = o
  BY DEF NoItem
<1> HIDE DEF h, answer
<1>5. \A g \in files : g.sequence = f.sequence /\ g.line = f.line => g = f
  BY DEF IInv, Files
<1>6. \A i : HasSlip(i)' <=> HasSlip(i)
  BY <1>1 DEF HasSlip
<1>7. Files'
  BY <1>1, <1>2, <1>3, <1>5, <1>6 DEF IInv, Files
<1>8. \A n : SentTwice(n) => SentTwice(n)'
  BY <1>1, <1>3, <1>5 DEF SentTwice
<1>9. \A g \in files : g.read => g \in files' /\ g # h
  BY <1>1, <1>3, <1>5
<1>10. ASSUME NEW b \in bank' PROVE Registered(b)'
  <2>1. CASE b \in bank
    <3>1. Registered(b)
      BY <2>1 DEF IInv, Bank
    <3>. QED  BY <1>1, <1>2, <1>6, <1>9, <3>1 DEF Registered
  <2>2. CASE b = << f.number, f.line >>
    <3>1. b[1] = f.number /\ b[2] = f.line
      BY <2>2
    <3>2. h \in files'
      BY <1>1
    <3>. QED  BY <1>1, <1>2, <1>3, <1>6, <3>1, <3>2 DEF Registered
  <2>. QED  BY <1>1, <1>10, <2>1, <2>2
<1>11. bank \subseteq bank'
  BY <1>1
<1>12. ASSUME NEW g \in files, g.read, g.number = f.number PROVE SentTwice(f.number)'
  BY <1>1, <1>3, <1>9, <1>12 DEF SentTwice
<1>13. ASSUME NEW m \in mail' PROVE Reported(m)'
  <2>1. CASE m \in mail
    <3>1. Reported(m)
      BY <2>1 DEF IInv, Bank
    <3>2. m.occurrence = "REGISTRO_REJEITADO" => \E g \in files' : g.read /\ g.number = m.number
      BY <1>9, <3>1 DEF Reported
    <3>3. ASSUME m.occurrence = "REGISTRO_REJEITADO", NEW b \in bank', b[1] = m.number
          PROVE  SentTwice(m.number)'
      <4>1. CASE b \in bank
        BY <1>8, <3>1, <3>3, <4>1 DEF Reported
      <4>2. CASE b \notin bank
        <5>1. b[1] = f.number
          BY <1>1, <3>3, <4>2
        <5>2. PICK g \in files : g.read /\ g.number = m.number
          BY <3>1, <3>3 DEF Reported
        <5>. QED  BY <1>12, <3>3, <5>1, <5>2
      <4>. QED  BY <4>1, <4>2
    <3>. QED  BY <1>11, <3>1, <3>2, <3>3 DEF Reported
  <2>2. CASE m = answer("REGISTRO_CONFIRMADO")
    BY <1>4, <2>2 DEF Reported
  <2>3. CASE m = answer("REGISTRO_REJEITADO") /\ rejected
    <3>1. m.number = f.number /\ m.occurrence = "REGISTRO_REJEITADO"
      BY <1>4, <2>3
    <3>2. \E g \in files' : g.read /\ g.number = m.number
      BY <1>1, <1>3, <3>1
    <3>3. ASSUME NEW b \in bank', b[1] = m.number PROVE SentTwice(m.number)'
      <4>1. Registered(b) /\ b \in bank
        BY <2>3, <3>3 DEF IInv, Bank
      <4>2. PICK g \in files : g.read /\ g.number = b[1]
        BY <1>2, <4>1 DEF Registered
      <4>. QED  BY <1>12, <3>1, <3>3, <4>2
    <3>. QED  BY <3>1, <3>2, <3>3 DEF Reported
  <2>. QED  BY <1>1, <1>13, <2>1, <2>2, <2>3
<1>14. Bank'
  <2>1. \A i \in Installments : slip'[i].status = "REJEITADO" =>
            \E m \in mail' : m.occurrence = "REGISTRO_REJEITADO" /\ m.number = slip'[i].number
    BY <1>1 DEF IInv, Bank
  <2>. QED  BY <1>10, <1>13, <2>1 DEF Bank
<1>15. /\ files' \subseteq [sequence : Nat, number : Nat, line : Installments, read : BOOLEAN]
       /\ bank' \subseteq Nat \X Installments /\ mail \subseteq mail' /\ sequence' \in Nat
  BY <1>1, <1>2, <1>3 DEF IInv, Shape
<1>. QED  BY <1>1, <1>7, <1>14, <1>15, BankStep

LEMMA PaidStep ==
    ASSUME IInv, NEW b \in Payable, Paid(b)
    PROVE  IInv'
<1>1. PICK amount, d :
        mail' = mail \cup {[number |-> b[1], occurrence |-> "LIQUIDACAO", amount |-> amount,
                            date |-> d, of |-> b[2]]}
  BY DEF Paid
<1> DEFINE m == [number |-> b[1], occurrence |-> "LIQUIDACAO", amount |-> amount,
                 date |-> d, of |-> b[2]]
<1>2. /\ UNCHANGED << channel, next, sequence, origin, plan, slip, files, bank, my, pc, orphans >>
      /\ b \in bank \/ (b[1] \in Foreign /\ b[2] = Elsewhere)
  BY DEF Paid, money, Payable
<1>3. /\ m.occurrence = "LIQUIDACAO" /\ m.number = b[1] /\ m.of = b[2]
      /\ b \in bank => << m.number, m.of >> = b
  <2>1. b \in bank => b = << b[1], b[2] >>
    BY DEF IInv, Shape
  <2>. QED  BY <2>1
<1> HIDE DEF m
<1>4. \A i : HasSlip(i)' <=> HasSlip(i)
  BY <1>2 DEF HasSlip
<1>5. Files'
  BY <1>2, <1>4 DEF IInv, Files
<1>6. Bank'
  <2>1. \A x \in bank' : Registered(x)'
    BY <1>2, <1>4 DEF IInv, Bank, Registered
  <2>2. ASSUME NEW x \in mail' PROVE Reported(x)'
    <3>1. CASE x \in mail
      BY <1>2, <3>1 DEF IInv, Bank, Reported, SentTwice
    <3>2. CASE x = m
      BY <1>2, <1>3, <3>2 DEF Reported
    <3>. QED  BY <1>1, <2>2, <3>1, <3>2 DEF m
  <2>3. mail \subseteq mail'
    BY <1>1
  <2>4. \A i \in Installments : slip'[i].status = "REJEITADO" =>
            \E x \in mail' : x.occurrence = "REGISTRO_REJEITADO" /\ x.number = slip'[i].number
    BY <1>2, <2>3 DEF IInv, Bank
  <2>. QED  BY <2>1, <2>2, <2>4 DEF Bank
<1>7. /\ files' \subseteq [sequence : Nat, number : Nat, line : Installments, read : BOOLEAN]
      /\ bank' \subseteq Nat \X Installments /\ mail \subseteq mail' /\ sequence' \in Nat
  BY <1>1, <1>2 DEF IInv, Shape
<1>. QED  BY <1>2, <1>5, <1>6, <1>7, BankStep

-----------------------------------------------------------------------------

LEMMA StepInvariant == IInv /\ [Next]_vars => IInv'
<1> SUFFICES ASSUME IInv, [Next]_vars PROVE IInv'
  OBVIOUS
<1>1. ASSUME NEW t \in Tx, RequestStep(t) PROVE IInv'
  BY <1>1, ReadTitlesStep, BillingReads, InsertScheduleStep, OtherReads, IssueSlipStep,
     CommitPlanStep, StoreRemittanceStep, StatusSteps DEF RequestStep
<1>2. ASSUME NEW t \in Tx, Start(t) \/ Fail(t) PROVE IInv'
  BY <1>2, StartStep, StatusSteps
<1>3. CASE UNCHANGED vars
  <2>1. /\ UNCHANGED << channel, next, sequence, origin, plan, slip, files, bank, mail, pc, my,
                        orphans >>
        /\ \A i : HasSlip(i)' <=> HasSlip(i)
    BY <1>3 DEF vars, HasSlip
  <2>2. Files' /\ Bank'
    BY <2>1 DEF IInv, Files, Bank, Registered, Reported, SentTwice
  <2>. QED  BY <2>1, <2>2, BankStep DEF IInv, Shape
<1>. QED  BY <1>1, <1>2, <1>3, ReadFileStep, PaidStep DEF Next

\* The invariant that the theorems follow from, for any number of requests.
THEOREM Inductive == Spec => []IInv
<1>1. Init => IInv
  BY InitInvariant
<1>2. IInv /\ [Next]_vars => IInv'
  BY StepInvariant
<1>. QED  BY <1>1, <1>2, PTL DEF Spec

\* What is paid with a slip reaches the installment of the slip or none, unless
\* a transaction that did not commit has registered its number, or a webhook
\* reports a number that another agreement has issued too.
THEOREM PaymentsReach == Spec => []PaymentsReachTheirPlan
<1>1. IInv => PaymentsReachTheirPlan
  <2> SUFFICES ASSUME IInv, NEW t \in Tx, At(t, "pay"), my[t].kind = "report"
               PROVE  \/ my[t].line = my[t].item.of
                      \/ my[t].item.number \in orphans
                      \/ my[t].hook /\ my[t].item.number \in Foreign
    BY DEF PaymentsReachTheirPlan
  <2> DEFINE n == my[t].item.number
             b == << n, my[t].item.of >>
  <2>1. /\ my[t].item \in mail /\ my[t].item.occurrence = "LIQUIDACAO"
        /\ HasSlip(my[t].line) /\ slip[my[t].line].number = n
        /\ ~my[t].hook => my[t].item.of # Elsewhere
    BY DEF IInv, RequestOK, Reports, At
  <2>2. b \in bank \/ (my[t].item.of = Elsewhere /\ n \in Foreign)
    BY <2>1 DEF IInv, Bank, Reported
  <2>3. CASE b \in bank
    <3>1. Registered(b) /\ b[2] \in Installments /\ b[1] = n /\ b[2] = my[t].item.of
      BY <2>3 DEF IInv, Bank, Shape
    <3>2. CASE HasSlip(b[2]) /\ slip[b[2]].number = n
      BY <2>1, <3>1, <3>2 DEF IInv, Slips, HasSlip
    <3>3. ASSUME NEW u \in Tx, my[u].issued, my[u].number = n PROVE FALSE
      BY <2>1, <3>3 DEF IInv, RequestOK, Issues, HasSlip
    <3>. QED  BY <3>1, <3>2, <3>3 DEF Registered
  <2>4. CASE my[t].item.of = Elsewhere /\ n \in Foreign
    BY <2>1, <2>4
  <2>. QED  BY <2>2, <2>3, <2>4
<1>. QED  BY <1>1, Inductive, PTL

\* A slip that the bank has rejected is not registered there, unless two
\* remittances carried it.
THEOREM RejectedWasSentTwice == Spec => []RejectedIsNotRegistered
<1>1. IInv => RejectedIsNotRegistered
  <2> SUFFICES ASSUME IInv, NEW i \in Installments, slip[i].status = "REJEITADO",
                      << slip[i].number, i >> \in bank
               PROVE  \E f, g \in files : f # g /\ f.line = i /\ g.line = i
    BY DEF RejectedIsNotRegistered
  <2>1. PICK m \in mail : m.occurrence = "REGISTRO_REJEITADO" /\ m.number = slip[i].number
    BY DEF IInv, Bank
  <2>2. SentTwice(slip[i].number)
    <3> DEFINE b == << slip[i].number, i >>
    <3>1. b \in bank /\ b[1] = m.number
      BY <2>1
    <3>. QED  BY <2>1, <3>1 DEF IInv, Bank, Reported
  <2>3. \A f \in files : f.number = slip[i].number => f.line = i
    BY DEF IInv, Files, Slips, HasSlip
  <2>. QED  BY <2>2, <2>3 DEF SentTwice
<1>. QED  BY <1>1, Inductive, PTL

-----------------------------------------------------------------------------
(***************************************************************************)
(* The books: amounts, titles and settlements.                              *)
(***************************************************************************)

\* What a plan owes, and the numbers of slips.
Amounts ==
    /\ next \in Nat \ {0}
    /\ \A i \in Installments :
        /\ plan[i].status \in {"none", "ABERTA", "CANCELADA"}
        /\ plan[i].original \in Nat /\ plan[i].abated \in Nat
        /\ plan[i].open \in 0 .. plan[i].original
        /\ IF HasSlip(i) THEN slip[i].number \in 1 .. next - 1 ELSE slip[i].number = 0
    /\ \A n \in 1 .. next - 1 : \E i \in Installments : HasSlip(i) /\ slip[i].number = n

TitlesOf ==
    /\ title \in [Titles -> [kind : {"none", "PEDIDO", "NFE", "BOLETO"}, merged : BOOLEAN]]
    /\ \A s \in Sales : title[origin[s]].kind # "none"
    /\ \A T \in Titles : title[T].kind = "PEDIDO" => \A s \in Sales : origin[s] = T => s = T
    /\ \A T \in Titles : title[T].kind = "none" => ~title[T].merged /\ \A i \in OfTitle(T) : ~HasPlan(i)
    /\ \A t \in Tx : pc[t] # "done" => title[t].kind = "none"

Settlements ==
    /\ IsFiniteSet(settled) /\ IsFiniteSet(mail)
    /\ \A m \in mail : m.amount \in Nat
    /\ \A r \in settled : r.tx \in Tx /\ pc[r.tx] = "done" /\ HasPlan(r.line) /\ r.amount \in Nat

AtPlan(t) == pc[t] \in {"cancel", "rows", "insert", "issue", "commit"}
Billing(t) == pc[t] = "agreement" \/ AtPlan(t)
BillOK(t) ==
    /\ pc[t] = "read" => my[t].cancels = {}
    /\ Billing(t) =>
        /\ IsFiniteSet(my[t].titles) /\ my[t].titles \subseteq Titles /\ my[t].sum \in Nat
        /\ \A T \in my[t].titles : title[T].kind # "none"
        /\ my[t].doc \in {"NFE", "BOLETO"}
        /\ my[t].merges => my[t].kind = "bill" /\ ~my[t].dates
        /\ ~my[t].merges => \E T \in Titles : my[t].titles = {T}
        /\ my[t].dates \/ pc[t] \in {"agreement", "cancel", "rows"} => my[t].cancels = {}
    /\ AtPlan(t) /\ my[t].doc = "BOLETO" => my[t].number \in 1 .. next
    /\ pc[t] \in {"rows", "insert", "issue", "commit"} /\ ~my[t].dates =>
        my[t].line[2] = my[t].doc /\ IF my[t].merges THEN my[t].line[1] = t ELSE my[t].line[1] \in my[t].titles
    /\ pc[t] \in {"issue", "commit"} => my[t].line[1] \in my[t].titles \cup {t}
    /\ pc[t] = "issue" \/ my[t].issued => my[t].doc = "BOLETO"
PayOK(t) ==
    /\ pc[t] \in {"open", "pay"} => HasPlan(my[t].line)
    /\ pc[t] = "pay" => /\ my[t].sum \in Nat /\ my[t].sum <= plan[my[t].line].original
                        /\ my[t].amount \in 1 .. my[t].sum

Books == Amounts /\ TitlesOf /\ Settlements /\ \A t \in Tx : BillOK(t) /\ PayOK(t)

-----------------------------------------------------------------------------
Owners == {origin[s] : s \in Sales}
Worth(T) == Value * Cardinality({s \in Sales : origin[s] = T})
BilledOnce(T) ==
    /\ Cardinality(LiveOf(T)) = 1 /\ ~title[T].merged
    /\ \A i \in LiveOf(T) :
        plan[i].original = Worth(T) /\ plan[i].open + PaidOn(i) + plan[i].abated = Worth(T)

\* What the request for titles under way knows is so.
BillKnows(t) ==
    /\ Billing(t) =>
        /\ \A T \in my[t].titles : ~HasOpenBaixa(T)
        /\ my[t].merges =>
            /\ my[t].titles = my[t].sales /\ my[t].sales \subseteq Sales
            /\ \A T \in my[t].titles : title[T].kind = "PEDIDO" /\ origin[T] = T
            /\ my[t].sum = Value * Cardinality(my[t].sales)
        /\ ~my[t].merges /\ ~my[t].dates =>
            \A T \in my[t].titles \cap Owners : my[t].sum = Worth(T)
    /\ pc[t] = "rows" => my[t].found = Live(my[t].titles)
    /\ pc[t] \in {"insert", "issue", "commit"} /\ ~my[t].dates => my[t].cancels = Live(my[t].titles)
PayKnows(t) ==
    /\ pc[t] = "pay" => my[t].sum = plan[my[t].line].open
    /\ pc[t] \in {"open", "pay"} /\ my[t].kind = "report" => \A r \in settled : ~SameSettlement(t, r)
    /\ pc[t] = "pay" /\ my[t].kind = "report" =>
        my[t].amount \in {my[t].item.amount, my[t].sum} /\ my[t].amount <= my[t].item.amount

\* Payments of the slip of i that a settlement answers: by its amount, or
\* because nothing is left to pay.
ByBank(i) == {r \in settled : r.line = i /\ r.by = "report"}
Answered(i) ==
    {m \in Payments : /\ HasSlip(i) /\ m.number = slip[i].number
                      /\ \/ plan[i].open = 0
                         \/ \E r \in settled : r.line = i /\ r.amount = m.amount /\ r.date = m.date}

Serial ==
    /\ \A t, u \in UnderWay : my[t].kind # "remit" /\ my[u].kind # "remit" => t = u
    /\ \A T \in Owners : BilledOnce(T)
    /\ \A t \in Tx : BillKnows(t) /\ PayKnows(t)
    /\ \A i \in Installments : Cardinality(ByBank(i)) <= Cardinality(Answered(i))

SerialInv == ~overlap => Serial

-----------------------------------------------------------------------------
\* Steps of t that write nothing of the books.
LEMMA QuietBooks ==
    ASSUME IInv, Books, NEW t \in Tx, NEW label, NEW r, Go(t, label, r),
           pc[t] # "done",
           UNCHANGED << next, title, origin, plan, slip, settled, mail >>,
           label = "done" \/ (BillOK(t)' /\ PayOK(t)')
    PROVE  Books'
<1>1. /\ \A u \in Tx : u # t => my'[u] = my[u] /\ pc'[u] = pc[u]
      /\ pc'[t] = label /\ my'[t] = IF label = "done" THEN Idle ELSE r
  BY OthersStay DEF IInv
<1>2. \A i : (HasPlan(i)' <=> HasPlan(i)) /\ (HasSlip(i)' <=> HasSlip(i))
  BY DEF HasPlan, HasSlip
<1>3. Amounts'
  BY <1>2 DEF Books, Amounts
<1>4. TitlesOf'
  BY <1>1, <1>2 DEF Books, TitlesOf
<1>5. Settlements'
  BY <1>1, <1>2 DEF Books, Settlements
<1>6. ASSUME NEW u \in Tx PROVE BillOK(u)' /\ PayOK(u)'
  <2>1. CASE u # t
    <3>1. my'[u] = my[u] /\ pc'[u] = pc[u] /\ BillOK(u) /\ PayOK(u)
      BY <1>1, <2>1 DEF Books
    <3>. QED  BY <1>2, <3>1 DEF BillOK, PayOK, Billing, AtPlan
  <2>2. CASE u = t
    <3>1. label = "done" => BillOK(t)' /\ PayOK(t)'
      BY <1>1, IdleFacts DEF BillOK, PayOK, Billing, AtPlan
    <3>. QED  BY <2>2, <3>1
  <2>. QED  BY <2>1, <2>2
<1>. QED  BY <1>3, <1>4, <1>5, <1>6 DEF Books

LEMMA StartBooks ==
    ASSUME IInv, Books, NEW t \in Tx, Start(t)
    PROVE  Books'
<1>1. /\ pc[t] = "new" /\ pc[t] # "done" /\ my[t] = Idle
      /\ UNCHANGED << next, title, origin, plan, slip, settled, mail >>
  BY DEF Start, At, IInv, RequestOK, money
<1>2. ASSUME NEW r, Go(t, "read", r), r.cancels = {}, r.issued = FALSE PROVE Books'
  <2>1. pc'[t] = "read" /\ my'[t] = r
    BY <1>2, OthersStay DEF IInv
  <2>2. BillOK(t)' /\ PayOK(t)'
    BY <1>2, <2>1 DEF BillOK, PayOK, Billing, AtPlan
  <2>. QED  BY <1>1, <1>2, <2>2, QuietBooks
<1>3. ASSUME NEW i, plan[i].status # "none", i \in Installments, NEW d,
             Go(t, "open", [Idle EXCEPT !.kind = "settle", !.line = i, !.item.date = d])
      PROVE  Books'
  <2> DEFINE r == [Idle EXCEPT !.kind = "settle", !.line = i, !.item.date = d]
  <2>1. r.line = i /\ r.issued = FALSE
    BY DEF Idle
  <2> HIDE DEF r
  <2>2. pc'[t] = "open" /\ my'[t] = r
    BY <1>3, OthersStay DEF IInv, r
  <2>3. BillOK(t)' /\ PayOK(t)'
    BY <1>1, <1>3, <2>1, <2>2 DEF BillOK, PayOK, Billing, AtPlan, HasPlan
  <2>. QED  BY <1>1, <1>3, <2>3, QuietBooks
<1>4. Start(t)
  OBVIOUS
<1>5. ASSUME NEW S, NEW doc,
             Go(t, "read", [Idle EXCEPT !.kind = "bill", !.sales = S, !.doc = doc])
      PROVE  Books'
  <2> DEFINE r == [Idle EXCEPT !.kind = "bill", !.sales = S, !.doc = doc]
  <2>1. r.cancels = {} /\ r.issued = FALSE
    BY DEF Idle
  <2>. QED  BY <1>2, <1>5, <2>1
<1>6. ASSUME NEW T,
             Go(t, "read", [Idle EXCEPT !.kind = "boleto", !.titles = {T}, !.doc = "BOLETO"])
      PROVE  Books'
  <2> DEFINE r == [Idle EXCEPT !.kind = "boleto", !.titles = {T}, !.doc = "BOLETO"]
  <2>1. r.cancels = {} /\ r.issued = FALSE
    BY DEF Idle
  <2>. QED  BY <1>2, <1>6, <2>1
<1>7. ASSUME Go(t, "read", [Idle EXCEPT !.kind = "remit"]) PROVE Books'
  <2> DEFINE r == [Idle EXCEPT !.kind = "remit"]
  <2>1. r.cancels = {} /\ r.issued = FALSE
    BY DEF Idle
  <2>. QED  BY <1>2, <1>7, <2>1
<1>8. ASSUME NEW m, NEW hook,
             Go(t, "read", [Idle EXCEPT !.kind = "report", !.item = m, !.hook = hook])
      PROVE  Books'
  <2> DEFINE r == [Idle EXCEPT !.kind = "report", !.item = m, !.hook = hook]
  <2>1. r.cancels = {} /\ r.issued = FALSE
    BY DEF Idle
  <2>. QED  BY <1>2, <1>8, <2>1
<1>. QED  BY <1>3, <1>4, <1>5, <1>6, <1>7, <1>8 DEF Start

\* The titles a request is about.
LEMMA SourcesFinite == IsFiniteSet(Sources)
<1>1. IsFiniteSet({"PEDIDO"}) /\ IsFiniteSet({"PEDIDO"} \cup {"NFE"})
  BY FS_Singleton, FS_AddElement
<1>2. IsFiniteSet(({"PEDIDO"} \cup {"NFE"}) \cup {"BOLETO"})
  BY <1>1, FS_AddElement
<1>3. Sources = ({"PEDIDO"} \cup {"NFE"}) \cup {"BOLETO"}
  BY DEF Sources
<1>. QED  BY <1>2, <1>3

LEMMA LiveOfFinite ==
    ASSUME NEW T PROVE IsFiniteSet(LiveOf(T)) /\ LiveOf(T) \subseteq OfTitle(T)
<1>1. IsFiniteSet({T} \X Sources)
  BY SourcesFinite, FS_Singleton, FS_Product
<1>. QED  BY <1>1, FS_Subset DEF OfTitle, LiveOf

LEMMA LiveFacts ==
    ASSUME NEW K \in SUBSET Titles, IsFiniteSet(K)
    PROVE  /\ IsFiniteSet(Live(K)) /\ Live(K) \subseteq Installments
           /\ \A i \in Live(K) : i[1] \in K /\ i \in LiveOf(i[1]) /\ plan[i].status = "ABERTA"
<1>1. Live(K) \subseteq K \X Sources
  BY DEF Live, LiveOf, OfTitle
<1>3. IsFiniteSet(K \X Sources)
  BY SourcesFinite, FS_Product
<1>4. IsFiniteSet(Live(K))
  BY <1>1, <1>3, FS_Subset
<1>5. \A i \in Live(K) : i[1] \in K /\ i \in LiveOf(i[1]) /\ plan[i].status = "ABERTA"
  BY DEF Live, LiveOf, OfTitle
<1>. QED  BY <1>1, <1>4, <1>5 DEF Installments

LEMMA OpenAmountIsNat ==
    ASSUME Amounts, NEW I \in SUBSET Installments, IsFiniteSet(I)
    PROVE  OpenAmount(I) \in Nat
<1>1. \A i \in I : [j \in Installments |-> plan[j].open][i] \in Nat
  BY DEF Amounts
<1>. QED  BY <1>1, SumIsNat DEF OpenAmount

LEMMA ReadTitlesBooks ==
    ASSUME IInv, Books, NEW t \in Tx, ReadTitles(t)
    PROVE  Books'
<1> DEFINE bill == my[t].kind = "bill"
           K == IF bill THEN {origin[s] : s \in my[t].sales} ELSE my[t].titles
           abated == {T \in K : HasAbatement(T)}
           fits == (\A T \in K : MayBill(T, bill)) /\ (Cardinality(K) > 1 => abated = {})
           label == IF ~fits THEN "done" ELSE IF my[t].doc = "NFE" THEN "cancel" ELSE "agreement"
           dates == abated # {}
           merges == Cardinality(K) > 1
           sum == OpenAmount(Live(K))
           r == [my[t] EXCEPT !.titles = K, !.dates = dates, !.merges = merges, !.sum = sum]
<1>1. /\ pc[t] = "read" /\ my[t].kind \in {"bill", "boleto"} /\ Go(t, label, r) /\ OnlyRequest
  BY DEF ReadTitles, At
<1>2. /\ my[t].doc \in {"NFE", "BOLETO"} /\ my[t].cancels = {} /\ ~my[t].issued
      /\ bill => my[t].sales # {} /\ my[t].sales \subseteq Sales
      /\ my[t].kind = "boleto" => \E T \in Titles : my[t].titles = {T}
  BY <1>1 DEF IInv, RequestOK, Bills, Issues, Books, BillOK, At
<1>3. K # {} /\ K \subseteq Titles /\ IsFiniteSet(K) /\ (~bill => \E T \in Titles : K = {T})
  <2>1. CASE bill
    <3>1. IsFiniteSet(my[t].sales)
      BY <1>2, <2>1, SlipsAssumption, FS_Subset
    <3> DEFINE f == [s \in my[t].sales |-> origin[s]]
    <3>2. f \in Surjection(my[t].sales, K)
      BY <2>1 DEF Surjection
    <3>3. IsFiniteSet(K)
      BY <3>1, <3>2, FS_Surjection
    <3>. QED  BY <1>2, <2>1, <3>3 DEF IInv, Shape
  <2>2. CASE ~bill
    <3>1. PICK T \in Titles : my[t].titles = {T}
      BY <1>1, <1>2, <2>2
    <3>. QED  BY <2>2, <3>1, FS_Singleton
  <2>. QED  BY <2>1, <2>2
<1>4. /\ label \in {"done", "cancel", "agreement"}
      /\ label # "done" => /\ \A T \in K : title[T].kind \in {"PEDIDO", "NFE"}
                           /\ merges => ~dates
      /\ label = "cancel" => my[t].doc # "BOLETO"
  BY DEF MayBill
<1>5. ~merges => \E T \in Titles : K = {T}
  BY <1>3, OneTitle
<1>6. merges => bill
  <2>1. ~bill => Cardinality(K) = 1
    BY <1>3, FS_Singleton
  <2>. QED  BY <2>1
<1>7. sum \in Nat
  BY <1>3, LiveFacts, OpenAmountIsNat DEF Books
<1> HIDE DEF K, dates, fits, label, merges, sum, abated
<1>8. /\ r.doc = my[t].doc /\ r.kind = my[t].kind /\ r.titles = K /\ r.sum = sum
      /\ r.merges = merges /\ r.dates = dates /\ r.cancels = my[t].cancels
      /\ r.issued = my[t].issued /\ r.number = my[t].number
  BY Knows DEF Fields, IInv
<1> HIDE DEF r
<1>9. ASSUME label # "done" PROVE BillOK(t)' /\ PayOK(t)'
  <2>1. pc'[t] = label /\ my'[t] = r /\ title' = title /\ next' = next
    BY <1>1, <1>9, OthersStay DEF IInv, OnlyRequest, money
  <2>. QED  BY <1>1, <1>2, <1>3, <1>4, <1>5, <1>6, <1>7, <1>8, <1>9, <2>1
            DEF BillOK, PayOK, Billing, AtPlan
<1>. QED  BY <1>1, <1>9, QuietBooks DEF OnlyRequest, money

LEMMA BillingReadsBooks ==
    ASSUME IInv, Books, NEW t \in Tx,
           LoadAgreement(t) \/ KeepPlan(t) \/ ReadSchedule(t) \/ CancelSchedule(t)
             \/ InsertSchedule(t) \/ IssueSlip(t)
    PROVE  Books'
<1>1. /\ UNCHANGED << next, title, origin, plan, slip, settled, mail >>
      /\ Billing(t) /\ pc[t] # "done"
  BY DEF LoadAgreement, KeepPlan, ReadSchedule, CancelSchedule, InsertSchedule, IssueSlip,
         At, OnlyRequest, money, Billing, AtPlan
<1>2. RequestOK(t) /\ BillOK(t)
  BY DEF IInv, Books
<1>3. CASE LoadAgreement(t)
  <2> DEFINE r == [my[t] EXCEPT !.number = next]
  <2>1. Go(t, "cancel", r) /\ pc[t] = "agreement"
    BY <1>3 DEF LoadAgreement, At
  <2>2. /\ r.number = next /\ r.issued = my[t].issued /\ r.merges = my[t].merges
        /\ r.dates = my[t].dates /\ r.kind = my[t].kind /\ r.doc = my[t].doc
        /\ r.titles = my[t].titles /\ r.cancels = my[t].cancels /\ r.sum = my[t].sum
    BY Knows DEF Fields, IInv
  <2> HIDE DEF r
  <2>3. pc'[t] = "cancel" /\ my'[t] = r
    BY <2>1, OthersStay DEF IInv
  <2>4. next \in 1 .. next
    BY DEF Books, Amounts
  <2>5. BillOK(t)' /\ PayOK(t)'
    BY <1>1, <1>2, <2>1, <2>2, <2>3, <2>4 DEF BillOK, PayOK, Billing, AtPlan
  <2>. QED  BY <1>1, <2>1, <2>5, QuietBooks
<1>4. CASE KeepPlan(t)
  <2>1. CASE End(t)
    BY <1>1, <2>1, QuietBooks DEF End
  <2>2. CASE ~End(t)
    <3>1. PICK i \in Live(my[t].titles), label \in {"issue", "commit"} :
                /\ Go(t, label, [my[t] EXCEPT !.line = i])
                /\ label = "issue" => my[t].doc = "BOLETO"
      BY <1>4, <2>2 DEF KeepPlan
    <3> DEFINE r == [my[t] EXCEPT !.line = i]
    <3>2. pc[t] = "cancel" /\ my[t].dates
      BY <1>4 DEF KeepPlan, At
    <3>3. /\ r.number = my[t].number /\ r.issued = my[t].issued /\ r.merges = my[t].merges
          /\ r.dates = my[t].dates /\ r.kind = my[t].kind /\ r.doc = my[t].doc
          /\ r.titles = my[t].titles /\ r.cancels = my[t].cancels /\ r.sum = my[t].sum
          /\ r.line = i
      BY Knows DEF Fields, IInv
    <3> HIDE DEF r
    <3>4. i[1] \in my[t].titles
      BY <1>1, <1>2, LiveFacts DEF BillOK
    <3>5. pc'[t] = label /\ my'[t] = r
      BY <3>1, OthersStay DEF IInv, r
    <3>6. BillOK(t)' /\ PayOK(t)'
      BY <1>1, <1>2, <3>1, <3>2, <3>3, <3>4, <3>5 DEF BillOK, PayOK, Billing, AtPlan
    <3>7. Go(t, label, r)
      BY <3>1 DEF r
    <3>. QED  BY <1>1, <3>6, <3>7, QuietBooks
  <2>. QED  BY <2>1, <2>2
<1>5. CASE ReadSchedule(t)
  <2> DEFINE T == IF my[t].merges THEN t ELSE CHOOSE x \in my[t].titles : TRUE
             found == Live(my[t].titles)
             line == << T, my[t].doc >>
             r == [my[t] EXCEPT !.found = found, !.line = line]
  <2>1. Go(t, "rows", r) /\ pc[t] = "cancel" /\ ~my[t].dates
    BY <1>5 DEF ReadSchedule, At
  <2>2. line[2] = my[t].doc /\ IF my[t].merges THEN line[1] = t ELSE line[1] \in my[t].titles
    <3>1. my[t].titles # {}
      BY <1>2, <2>1 DEF RequestOK, Bills
    <3>. QED  BY <3>1
  <2> HIDE DEF T, found, line
  <2>3. /\ r.number = my[t].number /\ r.issued = my[t].issued /\ r.merges = my[t].merges
        /\ r.dates = my[t].dates /\ r.kind = my[t].kind /\ r.doc = my[t].doc
        /\ r.titles = my[t].titles /\ r.cancels = my[t].cancels /\ r.sum = my[t].sum
        /\ r.line = line /\ r.found = found
    BY Knows DEF Fields, IInv
  <2> HIDE DEF r
  <2>4. pc'[t] = "rows" /\ my'[t] = r
    BY <2>1, OthersStay DEF IInv
  <2>5. BillOK(t)' /\ PayOK(t)'
    BY <1>1, <1>2, <2>1, <2>2, <2>3, <2>4 DEF BillOK, PayOK, Billing, AtPlan
  <2>. QED  BY <1>1, <2>1, <2>5, QuietBooks
<1>6. CASE CancelSchedule(t)
  <2> DEFINE r == [my[t] EXCEPT !.cancels = my[t].found]
  <2>1. Go(t, "insert", r) /\ pc[t] = "rows" /\ ~my[t].dates
    BY <1>2, <1>6 DEF CancelSchedule, At, RequestOK, Bills
  <2>2. /\ r.number = my[t].number /\ r.issued = my[t].issued /\ r.merges = my[t].merges
        /\ r.dates = my[t].dates /\ r.kind = my[t].kind /\ r.doc = my[t].doc
        /\ r.titles = my[t].titles /\ r.cancels = my[t].found /\ r.sum = my[t].sum
        /\ r.line = my[t].line
    BY Knows DEF Fields, IInv
  <2> HIDE DEF r
  <2>3. pc'[t] = "insert" /\ my'[t] = r
    BY <2>1, OthersStay DEF IInv
  <2>4. BillOK(t)' /\ PayOK(t)'
    BY <1>1, <1>2, <2>1, <2>2, <2>3 DEF BillOK, PayOK, Billing, AtPlan
  <2>. QED  BY <1>1, <2>1, <2>4, QuietBooks
<1>7. CASE InsertSchedule(t)
  <2>1. PICK label \in {"done", "issue", "commit"} :
            Go(t, label, my[t]) /\ (label = "issue" => my[t].doc = "BOLETO")
    BY <1>7 DEF InsertSchedule
  <2>2. pc[t] = "insert" /\ ~my[t].dates
    BY <1>2, <1>7 DEF InsertSchedule, At, RequestOK, Bills
  <2>3. ASSUME label # "done" PROVE BillOK(t)' /\ PayOK(t)'
    <3>1. pc'[t] = label /\ my'[t] = my[t]
      BY <2>1, <2>3, OthersStay DEF IInv
    <3>. QED  BY <1>1, <1>2, <2>1, <2>2, <2>3, <3>1 DEF BillOK, PayOK, Billing, AtPlan
  <2>. QED  BY <1>1, <2>1, <2>3, QuietBooks
<1>8. CASE IssueSlip(t)
  <2> DEFINE r == [my[t] EXCEPT !.issued = TRUE]
  <2>1. pc[t] = "issue" /\ (Go(t, "commit", r) \/ Go(t, "done", Idle))
    BY <1>8 DEF IssueSlip, At, End
  <2>2. /\ r.number = my[t].number /\ r.merges = my[t].merges
        /\ r.dates = my[t].dates /\ r.kind = my[t].kind /\ r.doc = my[t].doc
        /\ r.titles = my[t].titles /\ r.cancels = my[t].cancels /\ r.sum = my[t].sum
        /\ r.line = my[t].line
    BY Knows DEF Fields, IInv
  <2> HIDE DEF r
  <2>3. ASSUME Go(t, "commit", r) PROVE Books'
    <3>1. pc'[t] = "commit" /\ my'[t] = r
      BY <2>3, OthersStay DEF IInv
    <3>2. BillOK(t)' /\ PayOK(t)'
      BY <1>1, <1>2, <2>1, <2>2, <3>1 DEF BillOK, PayOK, Billing, AtPlan
    <3>. QED  BY <1>1, <2>3, <3>2, QuietBooks
  <2>. QED  BY <1>1, <2>1, <2>3, QuietBooks
<1>. QED  BY <1>3, <1>4, <1>5, <1>6, <1>7, <1>8

LEMMA MinOfTwo ==
    ASSUME NEW a \in Int, NEW b \in Int
    PROVE  Min({a, b}) \in {a, b} /\ Min({a, b}) <= a /\ Min({a, b}) <= b
<1>1. \E x \in {a, b} : \A y \in {a, b} : x <= y
  <2>1. CASE a <= b
    BY <2>1
  <2>2. CASE ~(a <= b)
    BY <2>2
  <2>. QED  BY <2>1, <2>2
<1> DEFINE m == CHOOSE x \in {a, b} : \A y \in {a, b} : x <= y
<1>2. m \in {a, b} /\ \A y \in {a, b} : m <= y
  BY <1>1
<1>3. Min({a, b}) = m
  BY DEF Min
<1>. QED  BY <1>2, <1>3

LEMMA OtherReadsBooks ==
    ASSUME IInv, Books, NEW t \in Tx,
           ReadWaiting(t) \/ ReadReport(t) \/ LookUpSettlement(t) \/ ReadOpen(t)
             \/ StoreRemittance(t) \/ Fail(t)
    PROVE  Books'
<1>1. /\ UNCHANGED << next, title, origin, plan, slip, settled, mail >>
      /\ pc[t] # "done" /\ (~Fail(t) => ~my[t].issued)
  BY DEF ReadWaiting, ReadReport, LookUpSettlement, ReadOpen, StoreRemittance, Fail, UnderWay,
         At, OnlyRequest, money, IInv, RequestOK, Issues
<1>2. RequestOK(t) /\ BillOK(t) /\ PayOK(t)
  BY DEF IInv, Books
<1>3. \A i : HasPlan(i)' <=> HasPlan(i)
  BY <1>1 DEF HasPlan
<1>4. CASE ReadWaiting(t)
  <2> DEFINE waiting == {i \in Installments : slip[i].status = "AGUARDANDO_REGISTRO"}
             r == [my[t] EXCEPT !.found = waiting, !.number = sequence + 1]
  <2>1. Go(t, "done", r) \/ Go(t, "store", r)
    BY <1>4 DEF ReadWaiting
  <2>2. r.issued = my[t].issued
    BY Knows DEF Fields, IInv
  <2> HIDE DEF r
  <2>3. ASSUME Go(t, "store", r) PROVE BillOK(t)' /\ PayOK(t)'
    <3>1. pc'[t] = "store" /\ my'[t] = r
      BY <2>3, OthersStay DEF IInv
    <3>2. ~my[t].issued
      BY <1>2, <1>4 DEF ReadWaiting, At, RequestOK, Issues
    <3>. QED  BY <2>2, <3>1, <3>2 DEF BillOK, PayOK, Billing, AtPlan
  <2>. QED  BY <1>1, <2>1, <2>3, QuietBooks
<1>5. CASE ReadReport(t)
  <2>1. CASE End(t)
    BY <1>1, <2>1, QuietBooks DEF End
  <2>2. CASE ~End(t)
    <3>1. PICK i \in SlipsWith(my[t].item.number), label \in {"already", "status"} :
                Go(t, label, [my[t] EXCEPT !.line = i])
      BY <1>5, <2>2 DEF ReadReport, SlipFound
    <3> DEFINE r == [my[t] EXCEPT !.line = i]
    <3>2. r.issued = my[t].issued
      BY Knows DEF Fields, IInv
    <3> HIDE DEF r
    <3>3. pc'[t] = label /\ my'[t] = r
      BY <3>1, OthersStay DEF IInv, r
    <3>4. pc[t] = "read" /\ ~my[t].issued
      BY <1>2, <1>5 DEF ReadReport, At, RequestOK, Issues
    <3>5. BillOK(t)' /\ PayOK(t)'
      BY <3>2, <3>3, <3>4 DEF BillOK, PayOK, Billing, AtPlan
    <3>6. Go(t, label, r)
      BY <3>1 DEF r
    <3>. QED  BY <1>1, <3>5, <3>6, QuietBooks
  <2>. QED  BY <2>1, <2>2
<1>6. CASE LookUpSettlement(t)
  <2>1. PICK label \in {"done", "open"} : Go(t, label, my[t])
    BY <1>6 DEF LookUpSettlement
  <2>2. pc[t] = "already" /\ ~my[t].issued
    BY <1>2, <1>6 DEF LookUpSettlement, At, RequestOK, Issues
  <2>3. HasPlan(my[t].line)
    BY <1>2, <2>2 DEF RequestOK, Reports, At, IInv, Slips, HasSlip
  <2>4. ASSUME label = "open" PROVE BillOK(t)' /\ PayOK(t)'
    <3>1. pc'[t] = "open" /\ my'[t] = my[t]
      BY <2>1, <2>4, OthersStay DEF IInv
    <3>. QED  BY <1>3, <2>2, <2>3, <3>1 DEF BillOK, PayOK, Billing, AtPlan
  <2>. QED  BY <1>1, <2>1, <2>4, QuietBooks
<1>7. CASE ReadOpen(t)
  <2> DEFINE row == plan[my[t].line]
             fits(a) == row.status # "CANCELADA" /\ a > 0 /\ a <= row.open
  <2>1. PICK a \in (IF my[t].kind = "report" THEN {Min({my[t].item.amount, row.open})}
                    ELSE 1 .. Value) :
            Go(t, IF fits(a) THEN "pay" ELSE "done", [my[t] EXCEPT !.sum = row.open, !.amount = a])
    BY <1>7 DEF ReadOpen
  <2> DEFINE r == [my[t] EXCEPT !.sum = row.open, !.amount = a]
  <2>2. pc[t] = "open" /\ ~my[t].issued /\ HasPlan(my[t].line)
    BY <1>2, <1>7 DEF ReadOpen, At, RequestOK, Issues, PayOK
  <2>3. r.issued = my[t].issued /\ r.line = my[t].line /\ r.sum = row.open /\ r.amount = a
    BY Knows DEF Fields, IInv
  <2>4. row.open \in Nat /\ row.original \in Nat /\ row.open <= row.original
    BY <2>2 DEF HasPlan, Books, Amounts
  <2>5. ASSUME fits(a) PROVE BillOK(t)' /\ PayOK(t)'
    <3>1. a \in 1 .. row.open
      <4>1. a \in Int
        <5>1. CASE my[t].kind = "report"
          <6>1. a = Min({my[t].item.amount, row.open}) /\ my[t].item \in mail
            BY <1>2, <2>1, <5>1 DEF RequestOK, Reports
          <6>2. my[t].item.amount \in Int
            BY <6>1 DEF Books, Settlements
          <6> DEFINE x == my[t].item.amount
                     y == row.open
          <6>3. x \in Int /\ y \in Int /\ a = Min({x, y})
            BY <2>4, <6>1, <6>2
          <6> HIDE DEF x, y
          <6>4. Min({x, y}) \in {x, y}
            BY <6>3, MinOfTwo
          <6>. QED  BY <6>3, <6>4
        <5>. QED  BY <2>1, <5>1
      <4>. QED  BY <2>4, <2>5, <4>1
    <3> HIDE DEF r
    <3>2. pc'[t] = "pay" /\ my'[t] = r
      BY <2>1, <2>5, OthersStay DEF IInv, r
    <3>3. plan'[r.line].original = row.original
      BY <1>1, <2>3
    <3>. QED  BY <1>3, <2>2, <2>3, <2>4, <3>1, <3>2, <3>3 DEF BillOK, PayOK, Billing, AtPlan
  <2>. QED  BY <1>1, <2>1, <2>5, QuietBooks
<1>8. CASE StoreRemittance(t) \/ Fail(t)
  <2>1. Go(t, "done", Idle)
    BY <1>8 DEF StoreRemittance, Fail, End
  <2>. QED  BY <1>1, <2>1, QuietBooks
<1>. QED  BY <1>4, <1>5, <1>6, <1>7, <1>8
\* What a commit of a request for titles writes.
LEMMA CommitWrites ==
    ASSUME IInv, Books, NEW t \in Tx, CommitPlan(t)
    PROVE  /\ pc[t] = "commit" /\ Go(t, "done", Idle)
           /\ settled' = settled /\ mail' = mail /\ overlap' = overlap
           /\ my[t].line \in Installments /\ my[t].sum \in Nat
           /\ my[t].cancels \subseteq Installments /\ \A i \in my[t].cancels : HasPlan(i)
           /\ ~my[t].dates => ~HasPlan(my[t].line)
           /\ my[t].dates => my[t].cancels = {}
           /\ \A i \in Installments :
                /\ i = my[t].line /\ ~my[t].dates =>
                    /\ plan'[i].status = "ABERTA" /\ plan'[i].abated = 0
                    /\ plan'[i].original = my[t].sum /\ plan'[i].open = my[t].sum
                /\ i \in my[t].cancels =>
                    /\ plan'[i].status = "CANCELADA" /\ plan'[i].open = 0
                    /\ plan'[i].original = plan[i].original /\ plan'[i].abated = plan[i].abated
                /\ ~(i = my[t].line /\ ~my[t].dates) /\ i \notin my[t].cancels =>
                    plan'[i] = plan[i]
           /\ \A i \in Installments :
                /\ i = my[t].line /\ my[t].issued =>
                    slip'[i].status # "none" /\ slip'[i].number = my[t].number
                /\ ~(i = my[t].line /\ my[t].issued) =>
                    slip'[i].number = slip[i].number /\ (HasSlip(i)' <=> HasSlip(i))
           /\ next' = NextNossoNumero(t)
           /\ title' \in [Titles -> [kind : {"none", "PEDIDO", "NFE", "BOLETO"}, merged : BOOLEAN]]
           /\ \A T \in Titles :
                /\ T = my[t].line[1] => title'[T].kind = my[t].doc /\ title'[T].merged = title[T].merged
                /\ T # my[t].line[1] =>
                    /\ title'[T].kind = title[T].kind
                    /\ title'[T].merged = (title[T].merged \/ (my[t].merges /\ T \in my[t].titles))
           /\ origin' = [s \in Sales |->
                IF my[t].merges /\ s \in my[t].sales THEN my[t].line[1] ELSE origin[s]]
<1> DEFINE line == my[t].line
           new(i) == i = line /\ ~my[t].dates
           issues(i) == i = line /\ my[t].issued
           merges(x) == my[t].merges /\ x \in my[t].titles
           row == [status |-> "ABERTA", original |-> my[t].sum, open |-> my[t].sum, abated |-> 0]
           NewPlan(i) ==
                CASE new(i) -> row
                  [] i \in my[t].cancels -> [plan[i] EXCEPT !.status = "CANCELADA", !.open = 0]
                  [] OTHER -> plan[i]
           NewSlip(i) ==
                CASE issues(i) ->
                        [status |-> IF channel = "API" THEN "REGISTRADO" ELSE "AGUARDANDO_REGISTRO",
                         number |-> my[t].number]
                  [] i \in my[t].cancels /\ slip[i].status # "none" ->
                        [slip[i] EXCEPT !.status = "CANCELADO"]
                  [] OTHER -> slip[i]
           NewTitle(x) ==
                CASE x = line[1] -> [title[x] EXCEPT !.kind = my[t].doc]
                  [] merges(x) -> [title[x] EXCEPT !.merged = TRUE]
                  [] OTHER -> title[x]
<1>1. /\ pc[t] = "commit" /\ Go(t, "done", Idle)
      /\ settled' = settled /\ mail' = mail /\ overlap' = overlap
      /\ next' = NextNossoNumero(t)
      /\ plan' = [i \in Installments |-> NewPlan(i)]
      /\ slip' = [i \in Installments |-> NewSlip(i)]
      /\ title' = [x \in Titles |-> NewTitle(x)]
      /\ origin' = [s \in Sales |->
            IF my[t].merges /\ s \in my[t].sales THEN line[1] ELSE origin[s]]
  BY DEF CommitPlan, End, At
<1>2. /\ RequestOK(t) /\ BillOK(t) /\ line \in Installments /\ line[1] \in Titles
      /\ \A i \in my[t].cancels : MayCancel(i)
      /\ ~my[t].dates => ~HasPlan(line)
      /\ my[t].issued => ~HasSlip(line)
      /\ my[t].sum \in Nat /\ my[t].doc \in {"NFE", "BOLETO"}
      /\ my[t].dates => my[t].cancels = {}
  BY <1>1, InstallmentsOf DEF IInv, RequestOK, Bills, Issues, Inserts, Books, BillOK, Billing, AtPlan
<1>3. /\ my[t].cancels \subseteq Installments
      /\ \A i \in my[t].cancels : HasPlan(i) /\ ~new(i)
  BY <1>2 DEF MayCancel, HasPlan
<1>4. \A i \in Installments :
        /\ plan[i] = [f \in RowFields |-> plan[i][f]] /\ slip[i] \in [status : Statuses, number : Nat]
  BY DEF IInv, Shape
<1>10. ASSUME NEW i \in Installments, i \in my[t].cancels => ~new(i)
       PROVE  /\ new(i) => NewPlan(i) = row
              /\ i \in my[t].cancels =>
                    NewPlan(i) = [plan[i] EXCEPT !.status = "CANCELADA", !.open = 0]
              /\ ~new(i) /\ i \notin my[t].cancels => NewPlan(i) = plan[i]
  <2> HIDE DEF new, row
  <2>. QED  BY <1>10
<1>11. ASSUME NEW i \in Installments
       PROVE  /\ issues(i) => NewSlip(i) =
                    [status |-> IF channel = "API" THEN "REGISTRADO" ELSE "AGUARDANDO_REGISTRO",
                     number |-> my[t].number]
              /\ ~issues(i) => NewSlip(i) \in {slip[i], [slip[i] EXCEPT !.status = "CANCELADO"]}
              /\ ~issues(i) /\ slip[i].status = "none" => NewSlip(i) = slip[i]
  <2>1. CASE issues(i)
    BY <1>2, <2>1 DEF HasSlip
  <2>2. CASE ~issues(i) /\ i \in my[t].cancels /\ slip[i].status # "none"
    BY <2>2
  <2>3. CASE ~issues(i) /\ ~(i \in my[t].cancels /\ slip[i].status # "none")
    BY <2>3
  <2>. QED  BY <2>1, <2>2, <2>3
<1>7. \A T \in Titles : title[T] \in [kind : {"none", "PEDIDO", "NFE", "BOLETO"}, merged : BOOLEAN]
  BY DEF Books, TitlesOf
<1>13. \A T \in Titles : merges(T) => T # line[1]
  <2>1. my[t].merges => line[1] = t /\ title[t].kind = "none"
    BY <1>1, <1>2 DEF BillOK, Billing, AtPlan, Books, TitlesOf
  <2>2. \A T \in my[t].titles : title[T].kind # "none"
    BY <1>1, <1>2 DEF BillOK, Billing, AtPlan
  <2>. QED  BY <2>1, <2>2
<1>12. ASSUME NEW T \in Titles
       PROVE  /\ T = line[1] => NewTitle(T) = [title[T] EXCEPT !.kind = my[t].doc]
              /\ T # line[1] /\ merges(T) => NewTitle(T) = [title[T] EXCEPT !.merged = TRUE]
              /\ T # line[1] /\ ~merges(T) => NewTitle(T) = title[T]
  <2>1. merges(T) => T # line[1]
    BY <1>13
  <2> HIDE DEF line, merges
  <2>. QED  BY <2>1
<1> HIDE DEF line, NewPlan, NewSlip, NewTitle
<1>5. ASSUME NEW i \in Installments
      PROVE  /\ new(i) =>
                    /\ plan'[i].status = "ABERTA" /\ plan'[i].abated = 0
                    /\ plan'[i].original = my[t].sum /\ plan'[i].open = my[t].sum
             /\ i \in my[t].cancels =>
                    /\ plan'[i].status = "CANCELADA" /\ plan'[i].open = 0
                    /\ plan'[i].original = plan[i].original /\ plan'[i].abated = plan[i].abated
             /\ ~new(i) /\ i \notin my[t].cancels => plan'[i] = plan[i]
  <2>1. plan'[i] = NewPlan(i) /\ plan[i] = [f \in RowFields |-> plan[i][f]]
    BY <1>1, <1>4
  <2>5. row.status = "ABERTA" /\ row.abated = 0 /\ row.original = my[t].sum /\ row.open = my[t].sum
    OBVIOUS
  <2> HIDE DEF new, row
  <2>2. CASE new(i)
    BY <1>3, <1>10, <2>1, <2>2, <2>5
  <2>3. CASE ~new(i) /\ i \in my[t].cancels
    <3>1. plan'[i] = [plan[i] EXCEPT !.status = "CANCELADA", !.open = 0]
      BY <1>10, <2>1, <2>3
    <3>. QED  BY <2>1, <2>3, <3>1 DEF RowFields
  <2>4. CASE ~new(i) /\ i \notin my[t].cancels
    BY <1>3, <1>10, <2>1, <2>4
  <2>. QED  BY <1>3, <2>2, <2>3, <2>4
<1>6. ASSUME NEW i \in Installments
      PROVE  /\ issues(i) => slip'[i].status # "none" /\ slip'[i].number = my[t].number
             /\ ~issues(i) => slip'[i].number = slip[i].number /\ (HasSlip(i)' <=> HasSlip(i))
  <2>1. slip'[i] = NewSlip(i) /\ slip[i] \in [status : Statuses, number : Nat]
    BY <1>1, <1>4
  <2> HIDE DEF issues
  <2>. QED  BY <1>11, <2>1 DEF HasSlip
<1>8. ASSUME NEW T \in Titles
      PROVE  /\ title'[T] \in [kind : {"none", "PEDIDO", "NFE", "BOLETO"}, merged : BOOLEAN]
             /\ T = line[1] => title'[T].kind = my[t].doc /\ title'[T].merged = title[T].merged
             /\ T # line[1] =>
                    /\ title'[T].kind = title[T].kind
                    /\ title'[T].merged = (title[T].merged \/ (my[t].merges /\ T \in my[t].titles))
  <2>1. title'[T] = NewTitle(T)
    BY <1>1
  <2>2. title[T] \in [kind : {"none", "PEDIDO", "NFE", "BOLETO"}, merged : BOOLEAN]
    BY <1>7
  <2>3. CASE T = line[1]
    <3>1. title'[T] = [title[T] EXCEPT !.kind = my[t].doc]
      BY <1>12, <2>1, <2>3
    <3>. QED  BY <1>2, <2>2, <2>3, <3>1
  <2>4. CASE T # line[1] /\ merges(T)
    <3>1. title'[T] = [title[T] EXCEPT !.merged = TRUE]
      BY <1>12, <2>1, <2>4
    <3>. QED  BY <2>2, <2>4, <3>1
  <2>5. CASE T # line[1] /\ ~merges(T)
    <3>1. title'[T] = title[T]
      BY <1>12, <2>1, <2>5
    <3>. QED  BY <2>2, <2>5, <3>1
  <2>. QED  BY <2>3, <2>4, <2>5
<1>9. title' \in [Titles -> [kind : {"none", "PEDIDO", "NFE", "BOLETO"}, merged : BOOLEAN]]
  BY <1>1, <1>8
<1>. QED  BY <1>1, <1>2, <1>3, <1>5, <1>6, <1>8, <1>9 DEF line
\* A commit takes the next number, or none: no other number is free.
LEMMA CommitNumber ==
    ASSUME IInv, Books, NEW t \in Tx, CommitPlan(t)
    PROVE  /\ next' = IF my[t].issued THEN next + 1 ELSE next
           /\ my[t].issued => my[t].number = next
<1>1. pc[t] = "commit" /\ next' = NextNossoNumero(t) /\ next \in Nat \ {0}
  BY CommitWrites DEF Books, Amounts
<1>2. CASE my[t].issued
  <2>1. my[t].number \in 1 .. next /\ \A i \in Installments : HasSlip(i) => slip[i].number # my[t].number
    BY <1>1, <1>2 DEF Books, BillOK, AtPlan, IInv, RequestOK, Issues
  <2>2. my[t].number \notin 1 .. next - 1
    BY <2>1 DEF Books, Amounts
  <2>3. my[t].number = next
    BY <1>1, <2>1, <2>2
  <2>. QED  BY <1>1, <1>2, <2>3 DEF NextNossoNumero
<1>3. CASE ~my[t].issued
  BY <1>1, <1>3 DEF NextNossoNumero
<1>. QED  BY <1>2, <1>3

LEMMA CommitPlanBooks ==
    ASSUME IInv, Books, NEW t \in Tx, CommitPlan(t)
    PROVE  Books'
<1> DEFINE line == my[t].line
           new(i) == i = line /\ ~my[t].dates
           issues(i) == i = line /\ my[t].issued
<1>1. /\ pc[t] = "commit" /\ Go(t, "done", Idle) /\ settled' = settled /\ mail' = mail
      /\ line \in Installments /\ line[1] \in Titles /\ my[t].sum \in Nat
      /\ \A i \in my[t].cancels : i \in Installments /\ HasPlan(i)
      /\ ~my[t].dates => ~HasPlan(line)
      /\ my[t].issued => ~HasSlip(line)
  BY CommitWrites, InstallmentsOf DEF IInv, RequestOK, Issues
<1>2. /\ next \in Nat \ {0} /\ next' = IF my[t].issued THEN next + 1 ELSE next
      /\ my[t].issued => my[t].number = next
  BY CommitNumber DEF Books, Amounts
<1>3. ASSUME NEW i \in Installments
      PROVE  /\ new(i) =>
                    /\ plan'[i].status = "ABERTA" /\ plan'[i].abated = 0
                    /\ plan'[i].original = my[t].sum /\ plan'[i].open = my[t].sum
             /\ i \in my[t].cancels =>
                    /\ plan'[i].status = "CANCELADA" /\ plan'[i].open = 0
                    /\ plan'[i].original = plan[i].original /\ plan'[i].abated = plan[i].abated
             /\ ~new(i) /\ i \notin my[t].cancels => plan'[i] = plan[i]
  BY <1>3, CommitWrites
<1>4. ASSUME NEW i \in Installments
      PROVE  /\ issues(i) => slip'[i].status # "none" /\ slip'[i].number = my[t].number
             /\ ~issues(i) => slip'[i].number = slip[i].number /\ (HasSlip(i)' <=> HasSlip(i))
  BY <1>4, CommitWrites
<1>5. ASSUME NEW T \in Titles
      PROVE  /\ T = line[1] => title'[T].kind = my[t].doc /\ title'[T].merged = title[T].merged
             /\ T # line[1] =>
                    /\ title'[T].kind = title[T].kind
                    /\ title'[T].merged = (title[T].merged \/ (my[t].merges /\ T \in my[t].titles))
  BY <1>5, CommitWrites
<1>6. /\ title' \in [Titles -> [kind : {"none", "PEDIDO", "NFE", "BOLETO"}, merged : BOOLEAN]]
      /\ \A s \in Sales : origin'[s] = IF my[t].merges /\ s \in my[t].sales THEN line[1] ELSE origin[s]
  BY CommitWrites
<1>7. /\ my[t].doc \in {"NFE", "BOLETO"} /\ \A T \in my[t].titles : T \in Titles /\ title[T].kind # "none"
      /\ line[1] \in my[t].titles \cup {t}
  BY <1>1 DEF Books, BillOK, Billing, AtPlan
<1>8. /\ \A u \in Tx : u # t => my'[u] = my[u] /\ pc'[u] = pc[u]
      /\ pc'[t] = "done" /\ my'[t] = Idle
  BY <1>1, OthersStay DEF IInv
<1> HIDE DEF line
<1>9. \A i \in Installments : (HasPlan(i) => HasPlan(i)' /\ plan'[i].original = plan[i].original)
                              /\ (HasPlan(i)' => HasPlan(i) \/ new(i))
  <2> SUFFICES ASSUME NEW i \in Installments
               PROVE  /\ HasPlan(i) => HasPlan(i)' /\ plan'[i].original = plan[i].original
                      /\ HasPlan(i)' => HasPlan(i) \/ new(i)
    OBVIOUS
  <2>1. CASE new(i)
    BY <1>1, <2>1
  <2>2. CASE ~new(i) /\ i \in my[t].cancels
    BY <1>1, <1>3, <2>2 DEF HasPlan
  <2>3. CASE ~new(i) /\ i \notin my[t].cancels
    BY <1>3, <2>3 DEF HasPlan
  <2>. QED  BY <2>1, <2>2, <2>3
<1>10. Amounts'
  <2>1. next' \in Nat \ {0}
    BY <1>2
  <2>2. ASSUME NEW i \in Installments
        PROVE  /\ plan'[i].status \in {"none", "ABERTA", "CANCELADA"}
               /\ plan'[i].original \in Nat /\ plan'[i].abated \in Nat
               /\ plan'[i].open \in 0 .. plan'[i].original
    <3>1. /\ plan[i].status \in {"none", "ABERTA", "CANCELADA"}
          /\ plan[i].original \in Nat /\ plan[i].abated \in Nat
          /\ plan[i].open \in 0 .. plan[i].original
      BY DEF Books, Amounts
    <3>2. CASE new(i)
      <4>1. plan'[i].status = "ABERTA" /\ plan'[i].abated = 0
            /\ plan'[i].original = my[t].sum /\ plan'[i].open = my[t].sum
        BY <1>3, <3>2
      <4>. QED  BY <1>1, <4>1
    <3>3. CASE ~new(i) /\ i \in my[t].cancels
      <4>1. plan'[i].status = "CANCELADA" /\ plan'[i].open = 0
            /\ plan'[i].original = plan[i].original /\ plan'[i].abated = plan[i].abated
        BY <1>3, <3>3
      <4>. QED  BY <3>1, <4>1
    <3>4. CASE ~new(i) /\ i \notin my[t].cancels
      BY <1>3, <3>1, <3>4
    <3>. QED  BY <3>2, <3>3, <3>4
  <2>3. ASSUME NEW i \in Installments
        PROVE  IF HasSlip(i)' THEN slip'[i].number \in 1 .. next' - 1 ELSE slip'[i].number = 0
    <3>1. IF HasSlip(i) THEN slip[i].number \in 1 .. next - 1 ELSE slip[i].number = 0
      BY DEF Books, Amounts
    <3>2. CASE issues(i)
      <4>1. slip'[i].number = next /\ next' = next + 1 /\ HasSlip(i)'
        BY <1>2, <1>4, <3>2 DEF HasSlip
      <4>. QED  BY <1>2, <4>1
    <3>3. CASE ~issues(i)
      <4>1. slip'[i].number = slip[i].number /\ (HasSlip(i)' <=> HasSlip(i))
        BY <1>4, <3>3
      <4>. QED  BY <1>2, <3>1, <4>1
    <3>. QED  BY <3>2, <3>3
  <2>4. ASSUME NEW n \in 1 .. next' - 1
        PROVE  \E i \in Installments : slip'[i].status # "none" /\ slip'[i].number = n
    <3>1. CASE n \in 1 .. next - 1
      <4>1. PICK i \in Installments : HasSlip(i) /\ slip[i].number = n
        BY <3>1 DEF Books, Amounts
      <4>2. ~issues(i)
        BY <1>1, <4>1
      <4>. QED  BY <1>4, <4>1, <4>2 DEF HasSlip
    <3>2. CASE n \notin 1 .. next - 1
      <4>1. my[t].issued /\ n = next
        BY <1>2, <3>2
      <4>2. slip'[line].status # "none" /\ slip'[line].number = n
        BY <1>1, <1>2, <1>4, <4>1
      <4>. QED  BY <1>1, <4>2
    <3>. QED  BY <3>1, <3>2
  <2>. QED  BY <2>1, <2>2, <2>3, <2>4 DEF Amounts, HasSlip
<1>11. TitlesOf'
  <2>1. TitlesOf
    BY DEF Books
  <2>2. \A T \in Titles : title[T].kind # "none" => title'[T].kind # "none"
    BY <1>5, <1>7
  <2>3. \A s \in Sales : title'[origin'[s]].kind # "none"
    <3>1. title'[line[1]].kind # "none"
      BY <1>1, <1>5, <1>7
    <3>2. \A s \in Sales : origin[s] \in Titles /\ title'[origin[s]].kind # "none"
      BY <2>1, <2>2 DEF TitlesOf, IInv, Shape
    <3>. QED  BY <1>6, <3>1, <3>2
  <2>4. ASSUME NEW T \in Titles, title'[T].kind = "PEDIDO", NEW s \in Sales, origin'[s] = T
        PROVE  s = T
    <3>1. T # line[1] /\ title[T].kind = "PEDIDO"
      BY <1>5, <1>7, <2>4
    <3>2. origin[s] = T
      BY <1>6, <2>4, <3>1
    <3>. QED  BY <2>1, <3>1, <3>2 DEF TitlesOf
  <2>5. ASSUME NEW T \in Titles, title'[T].kind = "none"
        PROVE  ~title'[T].merged /\ \A i \in OfTitle(T) : ~HasPlan(i)'
    <3>1. T # line[1] /\ title[T].kind = "none" /\ T \notin my[t].titles
      BY <1>5, <1>7, <2>5
    <3>2. ~title[T].merged /\ \A i \in OfTitle(T) : ~HasPlan(i) /\ i # line /\ i \in Installments
      BY <2>1, <3>1, InstallmentsOf DEF TitlesOf
    <3>3. ~title'[T].merged
      BY <1>5, <3>1, <3>2
    <3>. QED  BY <1>9, <3>2, <3>3
  <2>6. ASSUME NEW u \in Tx, pc'[u] # "done" PROVE title'[u].kind = "none"
    <3>1. u # t /\ pc[u] # "done"
      BY <1>8, <2>6
    <3>2. title[u].kind = "none" /\ u \in Titles
      BY <2>1, <3>1 DEF TitlesOf, Titles
    <3>3. u # line[1]
      BY <1>7, <3>1, <3>2
    <3>. QED  BY <1>5, <3>2, <3>3
  <2>. QED  BY <1>6, <2>3, <2>4, <2>5, <2>6 DEF TitlesOf
<1>12. Settlements'
  <2>1. \A r \in settled : r.tx \in Tx /\ pc'[r.tx] = "done" /\ HasPlan(r.line)' /\ r.amount \in Nat
    BY <1>8, <1>9 DEF Books, Settlements, HasPlan
  <2>. QED  BY <1>1, <2>1 DEF Books, Settlements
<1>13. ASSUME NEW u \in Tx PROVE BillOK(u)' /\ PayOK(u)'
  <2>1. CASE u = t
    BY <1>8, <2>1, IdleFacts DEF BillOK, PayOK, Billing, AtPlan
  <2>2. CASE u # t
    <3>1. my'[u] = my[u] /\ pc'[u] = pc[u] /\ BillOK(u) /\ PayOK(u)
      BY <1>8, <2>2 DEF Books
    <3>2. \A T \in Titles : title[T].kind # "none" => title'[T].kind # "none"
      BY <1>5, <1>7
    <3>3. \A n \in 1 .. next : n \in 1 .. next'
      BY <1>2
    <3>4. BillOK(u)'
      BY <3>1, <3>2, <3>3 DEF BillOK, Billing, AtPlan
    <3>5. HasPlan(my[u].line) => HasPlan(my[u].line)' /\ plan'[my[u].line].original = plan[my[u].line].original
      BY <1>9, <3>1 DEF HasPlan
    <3>6. PayOK(u)'
      BY <3>1, <3>5 DEF PayOK
    <3>. QED  BY <3>4, <3>6
  <2>. QED  BY <2>1, <2>2
<1>. QED  BY <1>10, <1>11, <1>12, <1>13 DEF Books
\* What a settlement writes.
Settling(t) ==
    [tx |-> t, by |-> my[t].kind, line |-> my[t].line, amount |-> my[t].amount,
     date |-> my[t].item.date]

LEMMA SettlementWrites ==
    ASSUME IInv, Books, NEW t \in Tx, WriteSettlement(t)
    PROVE  /\ pc[t] = "pay" /\ Go(t, "done", Idle)
           /\ UNCHANGED << next, title, origin, mail, bank, overlap, orphans >>
           /\ my[t].line \in Installments /\ HasPlan(my[t].line) /\ my[t].kind \in {"report", "settle"}
           /\ my[t].sum \in Nat /\ my[t].sum <= plan[my[t].line].original
           /\ my[t].amount \in 1 .. my[t].sum
           /\ plan'[my[t].line].open = my[t].sum - my[t].amount
           /\ \A i \in Installments :
                /\ plan'[i].status = plan[i].status /\ plan'[i].original = plan[i].original
                /\ plan'[i].abated = plan[i].abated
                /\ i # my[t].line => plan'[i] = plan[i]
           /\ \A i \in Installments : slip'[i].number = slip[i].number /\ (HasSlip(i)' <=> HasSlip(i))
           /\ settled' = settled \cup {Settling(t)} /\ \A r \in settled : r.tx # t
<1> DEFINE line == my[t].line
           n == my[t].sum - my[t].amount
<1>1. /\ pc[t] = "pay" /\ Go(t, "done", Idle)
      /\ UNCHANGED << next, title, origin, mail, bank, overlap, orphans >>
      /\ plan' = [plan EXCEPT ![line].open = n]
      /\ settled' = settled \cup {Settling(t)}
      /\ slip' = slip \/ slip' = [slip EXCEPT ![line].status = "LIQUIDADO"]
      /\ slip' # slip => my[t].kind = "report"
  BY DEF WriteSettlement, Settling, End, At
<1>2. /\ HasPlan(line) /\ line \in Installments /\ my[t].kind \in {"report", "settle"}
      /\ my[t].sum \in Nat /\ my[t].sum <= plan[line].original /\ my[t].amount \in 1 .. my[t].sum
      /\ my[t].kind = "report" => HasSlip(line)
  BY <1>1 DEF Books, PayOK, HasPlan, IInv, RequestOK, Reports, At
<1>3. \A r \in settled : r.tx # t
  BY <1>1 DEF Books, Settlements
<1> HIDE DEF line, n
<1>4. /\ plan = [i \in Installments |-> plan[i]]
      /\ \A i \in Installments : plan[i] = [f \in RowFields |-> plan[i][f]]
      /\ slip \in [Installments -> [status : Statuses, number : Nat]]
  BY DEF IInv, Shape
<1>5. \A i \in Installments : plan'[i] = IF i = line THEN [plan[i] EXCEPT !.open = n] ELSE plan[i]
  BY <1>1, <1>4
<1>6. \A i \in Installments :
        /\ plan'[i].status = plan[i].status /\ plan'[i].original = plan[i].original
        /\ plan'[i].abated = plan[i].abated
        /\ i # line => plan'[i] = plan[i]
        /\ i = line => plan'[i].open = n
  BY <1>4, <1>5 DEF RowFields
<1>7. \A i \in Installments : slip'[i].number = slip[i].number /\ (HasSlip(i)' <=> HasSlip(i))
  BY <1>1, <1>2, <1>4 DEF HasSlip
<1>. QED  BY <1>1, <1>2, <1>3, <1>6, <1>7 DEF line, n

LEMMA WriteSettlementBooks ==
    ASSUME IInv, Books, NEW t \in Tx, WriteSettlement(t)
    PROVE  Books'
<1> DEFINE line == my[t].line
<1>1. /\ pc[t] = "pay" /\ Go(t, "done", Idle)
      /\ UNCHANGED << next, title, origin, mail, bank, overlap, orphans >>
      /\ line \in Installments /\ HasPlan(line)
      /\ my[t].sum \in Nat /\ my[t].sum <= plan[line].original
      /\ my[t].amount \in 1 .. my[t].sum
      /\ plan'[line].open = my[t].sum - my[t].amount
      /\ \A i \in Installments :
            /\ plan'[i].status = plan[i].status /\ plan'[i].original = plan[i].original
            /\ plan'[i].abated = plan[i].abated
            /\ i # line => plan'[i] = plan[i]
      /\ \A i \in Installments : slip'[i].number = slip[i].number /\ (HasSlip(i)' <=> HasSlip(i))
      /\ settled' = settled \cup {Settling(t)}
  BY SettlementWrites
<1>2. \A i : HasPlan(i)' <=> HasPlan(i)
  BY <1>1 DEF HasPlan
<1>3. /\ \A u \in Tx : u # t => my'[u] = my[u] /\ pc'[u] = pc[u]
      /\ pc'[t] = "done" /\ my'[t] = Idle
  BY <1>1, OthersStay DEF IInv
<1> HIDE DEF line
<1>4. Amounts'
  <2>1. \A i \in Installments : plan'[i].open \in 0 .. plan'[i].original
    <3> SUFFICES ASSUME NEW i \in Installments PROVE plan'[i].open \in 0 .. plan'[i].original
      OBVIOUS
    <3>1. plan[i].open \in 0 .. plan[i].original /\ plan[i].original \in Nat
      BY DEF Books, Amounts
    <3>2. CASE i = line
      BY <1>1, <3>1, <3>2
    <3>3. CASE i # line
      BY <1>1, <3>1, <3>3
    <3>. QED  BY <3>2, <3>3
  <2>. QED  BY <1>1, <2>1 DEF Books, Amounts
<1>5. TitlesOf'
  BY <1>1, <1>2, <1>3 DEF Books, TitlesOf
<1>6. Settlements'
  <2>1. IsFiniteSet(settled')
    BY <1>1, FS_AddElement DEF Books, Settlements
  <2>2. Settling(t).tx = t /\ Settling(t).line = line /\ Settling(t).amount = my[t].amount
    BY DEF Settling, line
  <2>3. \A r \in settled' : r.tx \in Tx /\ pc'[r.tx] = "done" /\ HasPlan(r.line)' /\ r.amount \in Nat
    BY <1>1, <1>2, <1>3, <2>2 DEF Books, Settlements, HasPlan
  <2>. QED  BY <1>1, <2>1, <2>3 DEF Books, Settlements
<1>7. ASSUME NEW u \in Tx PROVE BillOK(u)' /\ PayOK(u)'
  <2>1. CASE u = t
    BY <1>3, <2>1, IdleFacts DEF BillOK, PayOK, Billing, AtPlan
  <2>2. CASE u # t
    <3>1. my'[u] = my[u] /\ pc'[u] = pc[u] /\ BillOK(u) /\ PayOK(u)
      BY <1>3, <2>2 DEF Books
    <3>2. BillOK(u)'
      BY <1>1, <3>1 DEF BillOK, Billing, AtPlan
    <3>3. PayOK(u)'
      BY <1>1, <1>2, <3>1 DEF PayOK, HasPlan
    <3>. QED  BY <3>2, <3>3
  <2>. QED  BY <2>1, <2>2
<1>. QED  BY <1>4, <1>5, <1>6, <1>7 DEF Books

\* What a report about the status of a slip writes.
LEMMA StatusWrites ==
    ASSUME IInv, NEW t \in Tx, WriteSlipStatus(t)
    PROVE  /\ pc[t] = "status" /\ Go(t, "done", Idle)
           /\ UNCHANGED << next, title, origin, plan, settled, mail, overlap >>
           /\ \A i \in Installments : slip'[i].number = slip[i].number /\ (HasSlip(i)' <=> HasSlip(i))
<1>1. /\ pc[t] = "status" /\ Go(t, "done", Idle)
      /\ UNCHANGED << next, title, origin, plan, settled, mail, overlap >>
      /\ slip' = [slip EXCEPT ![my[t].line].status = StatusAfter(my[t].item.occurrence)]
  BY DEF WriteSlipStatus, At, End
<1>2. HasSlip(my[t].line) /\ StatusAfter(my[t].item.occurrence) \in {"REGISTRADO", "REJEITADO"}
  BY <1>1 DEF IInv, RequestOK, Reports, At, StatusAfter
<1>3. slip \in [Installments -> [status : Statuses, number : Nat]]
  BY DEF IInv, Shape
<1>4. \A i \in Installments : slip'[i].number = slip[i].number /\ (HasSlip(i)' <=> HasSlip(i))
  BY <1>1, <1>2, <1>3 DEF HasSlip
<1>. QED  BY <1>1, <1>4

LEMMA StatusBooks ==
    ASSUME IInv, Books, NEW t \in Tx, WriteSlipStatus(t)
    PROVE  Books'
<1>1. /\ pc[t] = "status" /\ Go(t, "done", Idle)
      /\ UNCHANGED << next, title, origin, plan, settled, mail, overlap >>
      /\ \A i \in Installments : slip'[i].number = slip[i].number /\ (HasSlip(i)' <=> HasSlip(i))
  BY StatusWrites
<1>2. \A i : HasPlan(i)' <=> HasPlan(i)
  BY <1>1 DEF HasPlan
<1>3. /\ \A u \in Tx : u # t => my'[u] = my[u] /\ pc'[u] = pc[u]
      /\ pc'[t] = "done" /\ my'[t] = Idle
  BY <1>1, OthersStay DEF IInv
<1>4. Amounts'
  BY <1>1 DEF Books, Amounts
<1>5. TitlesOf'
  BY <1>1, <1>2, <1>3 DEF Books, TitlesOf
<1>6. Settlements'
  BY <1>1, <1>2, <1>3 DEF Books, Settlements
<1>7. ASSUME NEW u \in Tx PROVE BillOK(u)' /\ PayOK(u)'
  <2>1. CASE u = t
    BY <1>3, <2>1, IdleFacts DEF BillOK, PayOK, Billing, AtPlan
  <2>2. CASE u # t
    <3>1. my'[u] = my[u] /\ pc'[u] = pc[u] /\ BillOK(u) /\ PayOK(u)
      BY <1>3, <2>2 DEF Books
    <3>. QED  BY <1>1, <1>2, <3>1 DEF BillOK, PayOK, Billing, AtPlan
  <2>. QED  BY <2>1, <2>2
<1>. QED  BY <1>4, <1>5, <1>6, <1>7 DEF Books

\* The bank writes nothing of the books, and reports amounts.
LEMMA BankBooks ==
    ASSUME IInv, Books, UNCHANGED << next, title, origin, plan, slip, settled, pc, my >>,
           NEW m, mail' = mail \cup {m}, m.amount \in Nat
    PROVE  Books'
<1>1. \A i : (HasPlan(i)' <=> HasPlan(i)) /\ (HasSlip(i)' <=> HasSlip(i))
  BY DEF HasPlan, HasSlip
<1>2. IsFiniteSet(mail')
  BY FS_AddElement DEF Books, Settlements
<1>3. Settlements'
  BY <1>1, <1>2 DEF Books, Settlements
<1>4. Amounts' /\ TitlesOf'
  BY <1>1 DEF Books, Amounts, TitlesOf
<1>5. ASSUME NEW u \in Tx PROVE BillOK(u)' /\ PayOK(u)'
  BY <1>1 DEF Books, BillOK, PayOK, Billing, AtPlan
<1>. QED  BY <1>3, <1>4, <1>5 DEF Books

LEMMA BankStepsBooks ==
    ASSUME IInv, Books, (\E f \in files : ReadFile(f)) \/ (\E b \in Payable : Paid(b))
    PROVE  Books'
<1>1. ASSUME NEW f \in files, ReadFile(f) PROVE Books'
  <2>1. PICK occurrence \in {"REGISTRO_CONFIRMADO", "REGISTRO_REJEITADO"} : Report(f, occurrence)
    BY <1>1 DEF ReadFile
  <2> DEFINE m == [NoItem EXCEPT !.number = f.number, !.of = f.line, !.occurrence = occurrence]
  <2>2. mail' = mail \cup {m} /\ m.amount = 0
    BY <2>1 DEF Report, NoItem
  <2> HIDE DEF m
  <2>3. UNCHANGED << next, title, origin, plan, slip, settled, pc, my >>
    BY <1>1 DEF ReadFile
  <2>. QED  BY <2>2, <2>3, BankBooks
<1>2. ASSUME NEW b \in Payable, Paid(b) PROVE Books'
  <2>1. PICK amount \in 1 .. Value + 1, d \in Dates :
            mail' = mail \cup {[number |-> b[1], occurrence |-> "LIQUIDACAO", amount |-> amount,
                                date |-> d, of |-> b[2]]}
    BY <1>2 DEF Paid
  <2> DEFINE m == [number |-> b[1], occurrence |-> "LIQUIDACAO", amount |-> amount,
                   date |-> d, of |-> b[2]]
  <2>2. mail' = mail \cup {m} /\ m.amount = amount /\ amount \in Nat
    BY <2>1
  <2> HIDE DEF m
  <2>3. UNCHANGED << next, title, origin, plan, slip, settled, pc, my >>
    BY <1>2 DEF Paid, money
  <2>. QED  BY <2>2, <2>3, BankBooks
<1>. QED  BY <1>1, <1>2

LEMMA InitBooks == Init => Books
<1> SUFFICES ASSUME Init PROVE Books
  OBVIOUS
<1>1. PICK issued \in {{}} \cup {{s} : s \in Sales}, abated \in SUBSET Sales :
        /\ issued \cap abated = {}
        /\ next = 1 + Cardinality(issued)
        /\ title = [T \in Titles |->
                [kind |-> IF T \in issued THEN "BOLETO"
                          ELSE IF T \in Sales THEN "PEDIDO" ELSE "none",
                 merged |-> FALSE]]
        /\ plan = [i \in Installments |-> StartPlan(i, abated, issued)]
        /\ slip = [i \in Installments |->
                IF i \in issued \X {"BOLETO"} THEN [status |-> "AGUARDANDO_REGISTRO", number |-> 1]
                ELSE NoSlip]
  BY DEF Init
<1>2. /\ origin = [s \in Sales |-> s] /\ settled = {} /\ mail = {}
      /\ pc = [t \in Tx |-> "new"] /\ my = [t \in Tx |-> Idle]
  BY DEF Init
<1>3. Amounts
  <2>1. ASSUME NEW i \in Installments
        PROVE  /\ plan[i].status \in {"none", "ABERTA", "CANCELADA"}
               /\ plan[i].original \in Nat /\ plan[i].abated \in Nat
               /\ plan[i].open \in 0 .. plan[i].original
    <3> DEFINE less == IF i[1] \in abated THEN 1 ELSE 0
               row(st, left) ==
                    [status |-> st, original |-> Value, open |-> left, abated |-> less]
    <3>1. plan[i] = row("CANCELADA", 0) \/ plan[i] = row("ABERTA", Value - less) \/ plan[i] = NoRow
      BY <1>1 DEF StartPlan
    <3>2. less \in {0, 1} /\ Value \in Nat /\ Value > 1
      BY SlipsAssumption
    <3>. QED  BY <3>1, <3>2 DEF NoRow
  <2>2. CASE issued = {}
    <3>1. next = 1 /\ \A i \in Installments : slip[i] = NoSlip
      BY <1>1, <2>2, FS_EmptySet
    <3>. QED  BY <2>1, <3>1 DEF Amounts, NoSlip, HasSlip
  <2>3. ASSUME NEW s \in Sales, issued = {s} PROVE Amounts
    <3>1. Cardinality(issued) = 1
      BY <2>3, FS_Singleton
    <3>2. next = 2
      BY <1>1, <3>1
    <3>3. << s, "BOLETO" >> \in Installments
      BY DEF Installments, Titles, Sources
    <3>4. \A i \in Installments :
            slip[i] = IF i = << s, "BOLETO" >> THEN [status |-> "AGUARDANDO_REGISTRO", number |-> 1]
                      ELSE NoSlip
      BY <1>1, <2>3 DEF Installments
    <3>. QED  BY <2>1, <3>2, <3>3, <3>4 DEF Amounts, NoSlip, HasSlip
  <2>. QED  BY <2>2, <2>3
<1>4. TitlesOf
  <2>1. title \in [Titles -> [kind : {"none", "PEDIDO", "NFE", "BOLETO"}, merged : BOOLEAN]]
    BY <1>1
  <2>2. \A T \in Titles : (title[T].kind = "none" <=> T \notin Sales) /\ title[T].merged = FALSE
    BY <1>1
  <2>3. ASSUME NEW T \in Titles, T \notin Sales, NEW i \in OfTitle(T) PROVE ~HasPlan(i)
    <3>1. CASE i \in Installments
      <4>1. i[1] \notin Sales
        BY <2>3, InstallmentsOf
      <4>2. plan[i] = NoRow
        BY <1>1, <3>1, <4>1 DEF StartPlan
      <4>. QED  BY <4>2 DEF HasPlan, NoRow
    <3>. QED  BY <3>1 DEF HasPlan
  <2>4. Sales \subseteq Titles /\ \A t \in Tx : t \in Titles /\ t \notin Sales
    BY SlipsAssumption DEF Titles
  <2>. QED  BY <1>2, <2>1, <2>2, <2>3, <2>4 DEF TitlesOf
<1>5. Settlements
  BY <1>2, FS_EmptySet DEF Settlements
<1>6. ASSUME NEW t \in Tx PROVE BillOK(t) /\ PayOK(t)
  BY <1>2, IdleFacts DEF BillOK, PayOK, Billing, AtPlan
<1>. QED  BY <1>3, <1>4, <1>5, <1>6 DEF Books

LEMMA StepBooks == IInv /\ Books /\ [Next]_vars => Books'
<1> SUFFICES ASSUME IInv, Books, [Next]_vars PROVE Books'
  OBVIOUS
<1>1. ASSUME NEW t \in Tx, RequestStep(t) PROVE Books'
  BY <1>1, ReadTitlesBooks, BillingReadsBooks, OtherReadsBooks, CommitPlanBooks, StatusBooks,
     WriteSettlementBooks DEF RequestStep
<1>2. ASSUME NEW t \in Tx, Start(t) \/ Fail(t) PROVE Books'
  BY <1>2, StartBooks, OtherReadsBooks
<1>3. CASE UNCHANGED vars
  BY <1>3 DEF vars, Books, Amounts, TitlesOf, Settlements, BillOK, PayOK, Billing, AtPlan, HasPlan,
              HasSlip
<1>. QED  BY <1>1, <1>2, <1>3, BankStepsBooks DEF Next

\* What the columns of titles, installments and slips hold, whatever requests
\* overlap: amounts of bill, issueBoleto and settle, and numbers of issueSlips.
THEOREM TypeCorrect == Spec => []TypeOK
<1>1. Init => IInv /\ Books
  BY InitInvariant, InitBooks
<1>2. (IInv /\ Books) /\ [Next]_vars => (IInv /\ Books)'
  BY StepInvariant, StepBooks
<1>3. IInv /\ Books => TypeOK
  <2> SUFFICES ASSUME IInv, Books PROVE TypeOK
    OBVIOUS
  <2>1. next \in Nat \ {0} /\ sequence \in Nat
    BY DEF IInv, Shape, Books, Amounts
  <2>2. slip \in [Installments -> [status : Statuses, number : Nat]]
    BY DEF IInv, Shape
  <2>3. ASSUME NEW i \in Installments
        PROVE  /\ slip[i].number < next
               /\ plan[i].status \in {"none", "ABERTA", "CANCELADA"}
               /\ plan[i].open \in 0 .. plan[i].original
    BY <2>1 DEF Books, Amounts
  <2>4. ASSUME NEW i \in Installments, NEW j \in Installments, i # j, HasSlip(i)
        PROVE  slip[i].number # slip[j].number
    <3>1. slip[i].number \in 1 .. next - 1 /\ (~HasSlip(j) => slip[j].number = 0)
      BY <2>4 DEF Books, Amounts
    <3>. QED  BY <2>4, <3>1 DEF IInv, Slips
  <2>. QED  BY <2>1, <2>2, <2>3, <2>4 DEF TypeOK, Statuses, HasSlip, Books, TitlesOf
<1>. QED  BY <1>1, <1>2, <1>3, PTL DEF Spec
-----------------------------------------------------------------------------
(***************************************************************************)
(* Requests for titles one at a time.                                       *)
(***************************************************************************)

\* Only the request for titles under way knows something.
LEMMA OneRequest ==
    ASSUME IInv, Serial, NEW t \in UnderWay, my[t].kind # "remit", NEW u \in Tx, u # t
    PROVE  ~Billing(u) /\ pc[u] \notin {"open", "pay"}
<1>1. u \in UnderWay => my[u].kind = "remit"
  BY DEF Serial, UnderWay
<1>. QED  BY <1>1 DEF IInv, RequestOK, Billing, AtPlan, UnderWay

\* Steps of t that write neither plans nor settlements.
LEMMA QuietSerial ==
    ASSUME IInv, Serial, NEW t \in Tx, NEW label, NEW r, Go(t, label, r),
           pc[t] \notin {"new", "done"}, label = "done" \/ r.kind = my[t].kind,
           UNCHANGED << title, origin, plan, settled, mail >>,
           \A i \in Installments : slip'[i].number = slip[i].number /\ (HasSlip(i)' <=> HasSlip(i)),
           label = "done" \/ (BillKnows(t)' /\ PayKnows(t)')
    PROVE  Serial'
<1>1. /\ \A u \in Tx : u # t => my'[u] = my[u] /\ pc'[u] = pc[u]
      /\ pc'[t] = label /\ my'[t] = IF label = "done" THEN Idle ELSE r
  BY OthersStay DEF IInv
<1>2. \A u, v \in UnderWay' : my'[u].kind # "remit" /\ my'[v].kind # "remit" => u = v
  <2>1. \A u \in UnderWay' : u \in UnderWay /\ my'[u].kind = my[u].kind
    BY <1>1 DEF UnderWay
  <2>. QED  BY <2>1 DEF Serial
<1>3. \A T : LiveOf(T)' = LiveOf(T) /\ HasOpenBaixa(T)' = HasOpenBaixa(T) /\ Worth(T)' = Worth(T)
  BY DEF LiveOf, HasOpenBaixa, Worth
<1>4. Owners' = Owners /\ \A i : PaidOn(i)' = PaidOn(i)
  BY DEF Owners, PaidOn
<1>5. \A T \in Owners' : BilledOnce(T)'
  BY <1>3, <1>4 DEF Serial, BilledOnce
<1>6. \A K : Live(K)' = Live(K)
  BY <1>3 DEF Live
<1>7. ASSUME NEW u \in Tx PROVE BillKnows(u)' /\ PayKnows(u)'
  <2>1. CASE u # t
    <3>1. my'[u] = my[u] /\ pc'[u] = pc[u] /\ BillKnows(u) /\ PayKnows(u)
      BY <1>1, <2>1 DEF Serial
    <3>2. BillKnows(u)'
      BY <1>3, <1>4, <1>6, <3>1 DEF BillKnows, Billing, AtPlan
    <3>3. PayKnows(u)'
      BY <3>1 DEF PayKnows, SameSettlement
    <3>. QED  BY <3>2, <3>3
  <2>2. CASE u = t
    <3>1. label = "done" => BillKnows(t)' /\ PayKnows(t)'
      BY <1>1 DEF BillKnows, PayKnows, Billing, AtPlan
    <3>. QED  BY <2>2, <3>1
  <2>. QED  BY <2>1, <2>2
<1>8. \A i \in Installments : ByBank(i)' = ByBank(i) /\ Answered(i)' = Answered(i)
  BY DEF ByBank, Answered, Payments
<1>. QED  BY <1>2, <1>5, <1>7, <1>8 DEF Serial

\* A request arrives while no other one for titles is under way.
LEMMA StartSerial ==
    ASSUME IInv, Serial, NEW t \in Tx, Start(t), ~overlap'
    PROVE  Serial'
<1>1. /\ pc[t] = "new"
      /\ UNCHANGED << title, origin, plan, slip, settled, mail >>
      /\ my'[t].kind = "remit" \/ \A u \in UnderWay : my[u].kind = "remit"
  BY DEF Start, At, money
<1>2. \E label \in {"read", "open"} : \E r :
        Go(t, label, r) /\ (label = "open" => r.kind = "settle")
  <2>1. ASSUME NEW i, NEW d,
               Go(t, "open", [Idle EXCEPT !.kind = "settle", !.line = i, !.item.date = d])
        PROVE  \E r : Go(t, "open", r) /\ r.kind = "settle"
    <3>1. [Idle EXCEPT !.kind = "settle", !.line = i, !.item.date = d].kind = "settle"
      BY DEF Idle
    <3>. QED  BY <2>1, <3>1
  <2>2. \/ \E r : Go(t, "read", r)
        \/ \E i, d : Go(t, "open", [Idle EXCEPT !.kind = "settle", !.line = i, !.item.date = d])
    BY DEF Start
  <2>. QED  BY <2>1, <2>2
<1>3. PICK label \in {"read", "open"} :
        \E r : Go(t, label, r) /\ (label = "open" => r.kind = "settle")
  BY <1>2
<1>4. PICK r : Go(t, label, r) /\ (label = "open" => r.kind = "settle")
  BY <1>3
<1>5. /\ \A u \in Tx : u # t => my'[u] = my[u] /\ pc'[u] = pc[u]
      /\ pc'[t] = label /\ my'[t] = r
  BY <1>4, OthersStay DEF IInv
<1>6. \A u, v \in UnderWay' : my'[u].kind # "remit" /\ my'[v].kind # "remit" => u = v
  <2>1. \A u \in UnderWay' : u # t => u \in UnderWay /\ my'[u].kind = my[u].kind
    BY <1>5 DEF UnderWay
  <2>. QED  BY <1>1, <2>1 DEF Serial
<1>7. \A T : LiveOf(T)' = LiveOf(T) /\ HasOpenBaixa(T)' = HasOpenBaixa(T) /\ Worth(T)' = Worth(T)
  BY <1>1 DEF LiveOf, HasOpenBaixa, Worth
<1>8. Owners' = Owners /\ (\A i : PaidOn(i)' = PaidOn(i)) /\ \A K : Live(K)' = Live(K)
  BY <1>1, <1>7 DEF Owners, PaidOn, Live
<1>9. \A T \in Owners' : BilledOnce(T)'
  BY <1>1, <1>7, <1>8 DEF Serial, BilledOnce
<1>10. ASSUME NEW u \in Tx PROVE BillKnows(u)' /\ PayKnows(u)'
  <2>1. CASE u # t
    <3>1. my'[u] = my[u] /\ pc'[u] = pc[u] /\ BillKnows(u) /\ PayKnows(u)
      BY <1>5, <2>1 DEF Serial
    <3>2. BillKnows(u)'
      BY <1>1, <1>7, <1>8, <3>1 DEF BillKnows, Billing, AtPlan
    <3>3. PayKnows(u)'
      BY <1>1, <3>1 DEF PayKnows, SameSettlement
    <3>. QED  BY <3>2, <3>3
  <2>2. CASE u = t
    BY <1>4, <1>5, <2>2 DEF BillKnows, PayKnows, Billing, AtPlan
  <2>. QED  BY <2>1, <2>2
<1>11. \A i \in Installments : ByBank(i)' = ByBank(i) /\ Answered(i)' = Answered(i)
  BY <1>1 DEF ByBank, Answered, Payments, HasSlip
<1>. QED  BY <1>6, <1>9, <1>10, <1>11 DEF Serial

\* A report can only add to what settlements answer.
LEMMA AnsweredFinite ==
    ASSUME IsFiniteSet(mail), NEW i PROVE IsFiniteSet(Answered(i))
<1>1. Answered(i) \subseteq mail
  BY DEF Answered, Payments
<1>. QED  BY <1>1, FS_Subset

LEMMA BankSerial ==
    ASSUME Books, Serial, UNCHANGED << title, origin, plan, slip, settled, pc, my >>,
           mail \subseteq mail', IsFiniteSet(mail')
    PROVE  Serial'
<1>1. \A i \in Installments : ByBank(i)' = ByBank(i) /\ Answered(i) \subseteq Answered(i)'
  BY DEF ByBank, Answered, Payments, HasSlip
<1>2. ASSUME NEW i \in Installments PROVE Cardinality(ByBank(i)') <= Cardinality(Answered(i)')
  <2>1. IsFiniteSet(Answered(i)')
    <3>1. Answered(i)' \subseteq mail'
      BY DEF Answered, Payments
    <3>. QED  BY <3>1, FS_Subset
  <2>2. IsFiniteSet(settled) /\ ByBank(i) \subseteq settled
    BY DEF Books, Settlements, ByBank
  <2>3. Cardinality(Answered(i)) <= Cardinality(Answered(i)')
    BY <1>1, <2>1, FS_Subset
  <2>4. /\ Cardinality(ByBank(i)) \in Nat /\ Cardinality(Answered(i)) \in Nat
        /\ Cardinality(Answered(i)') \in Nat
    BY <1>1, <2>1, <2>2, FS_Subset, FS_CardinalityType
  <2>5. Cardinality(ByBank(i)) <= Cardinality(Answered(i)) /\ ByBank(i)' = ByBank(i)
    BY <1>1 DEF Serial
  <2>. QED  BY <2>3, <2>4, <2>5
<1>3. \A u, v \in UnderWay' : my'[u].kind # "remit" /\ my'[v].kind # "remit" => u = v
  BY DEF Serial, UnderWay
<1>4. \A T \in Owners' : BilledOnce(T)'
  <2>1. \A T : LiveOf(T)' = LiveOf(T) /\ Worth(T)' = Worth(T)
    BY DEF LiveOf, Worth
  <2>2. Owners' = Owners /\ \A i : PaidOn(i)' = PaidOn(i)
    BY DEF Owners, PaidOn
  <2>. QED  BY <2>1, <2>2 DEF Serial, BilledOnce
<1>5. \A u \in Tx : BillKnows(u)' /\ PayKnows(u)'
  BY DEF Serial, BillKnows, Billing, AtPlan, PayKnows, SameSettlement, Live, LiveOf, HasOpenBaixa,
         Owners, Worth
<1>. QED  BY <1>2, <1>3, <1>4, <1>5 DEF Serial
\* A title without settlement and abatement that is billed once: its open
\* installment amounts to the sales of the title.
LEMMA OneLive ==
    ASSUME IInv, Books, Serial, NEW T \in Owners, ~HasOpenBaixa(T), ~HasAbatement(T)
    PROVE  \E i \in LiveOf(T) :
                LiveOf(T) = {i} /\ i \in Installments /\ i[1] = T /\ plan[i].open = Worth(T)
<1>1. BilledOnce(T) /\ T \in Titles
  BY DEF Serial, Owners, IInv, Shape
<1>2. PICK i : LiveOf(T) = {i}
  BY <1>1, LiveOfFinite, FS_Singleton DEF BilledOnce
<1>3. i \in OfTitle(T) /\ i \in Installments /\ i[1] = T
  BY <1>1, <1>2, LiveOfFinite, InstallmentsOf
<1>4. PaidOn(i) = 0
  <2>1. {r \in settled : r.line = i} = {}
    BY <1>3 DEF HasOpenBaixa
  <2>. QED  BY <2>1, SumOfNothing DEF PaidOn
<1>5. plan[i].abated = 0 /\ plan[i].open \in Nat
  BY <1>3 DEF HasAbatement, Books, Amounts
<1>6. plan[i].open + PaidOn(i) + plan[i].abated = Worth(T)
  BY <1>1, <1>2 DEF BilledOnce
<1>. QED  BY <1>2, <1>3, <1>4, <1>5, <1>6

\* The open installments of titles that are billed once.
LEMMA OpenOfTitles ==
    ASSUME IInv, Books, Serial, NEW K \in SUBSET Owners, IsFiniteSet(K),
           \A T \in K : ~HasOpenBaixa(T) /\ ~HasAbatement(T) /\ Worth(T) = Value
    PROVE  OpenAmount(Live(K)) = Value * Cardinality(K)
<1> DEFINE f == [i \in Installments |-> plan[i].open]
           Q == {L \in SUBSET K : SumFunctionOnSet(f, Live(L)) = Value * Cardinality(L)}
<1>1. {} \in Q
  <2>1. Live({}) = {}
    BY DEF Live
  <2>2. SumFunctionOnSet(f, Live({})) = 0
    BY <2>1, SumOfNothing
  <2>3. Cardinality({}) = 0 /\ Value * 0 = 0
    BY FS_EmptySet, SlipsAssumption
  <2>. QED  BY <2>2, <2>3
<1>2. ASSUME NEW L \in Q, NEW T \in K \ L PROVE L \cup {T} \in Q
  <2>1. /\ IsFiniteSet(L) /\ L \subseteq K /\ L \subseteq Titles
        /\ SumFunctionOnSet(f, Live(L)) = Value * Cardinality(L)
    BY <1>2, FS_Subset DEF Owners, IInv, Shape
  <2>2. PICK i \in LiveOf(T) :
            LiveOf(T) = {i} /\ i \in Installments /\ i[1] = T /\ plan[i].open = Worth(T)
    BY OneLive
  <2>3. Live(L \cup {T}) = Live(L) \cup {i} /\ i \notin Live(L)
    <3>1. Live(L \cup {T}) = Live(L) \cup LiveOf(T)
      BY DEF Live
    <3>2. \A j \in Live(L) : j[1] \in L
      BY <2>1, LiveFacts
    <3>. QED  BY <2>2, <3>1, <3>2
  <2>4. IsFiniteSet(Live(L)) /\ Live(L) \subseteq Installments
    BY <2>1, LiveFacts
  <2>5. \A j \in Live(L) \cup {i} : f[j] \in Int
    BY <2>2, <2>4 DEF Books, Amounts
  <2>6. f[i] = Value
    BY <2>2
  <2> HIDE DEF f
  <2>7. SumFunctionOnSet(f, Live(L) \cup {i}) = SumFunctionOnSet(f, Live(L)) + f[i]
    BY <2>3, <2>4, <2>5, SumWith
  <2>8. Cardinality(L \cup {T}) = Cardinality(L) + 1 /\ Cardinality(L) \in Nat
    BY <2>1, FS_AddElement, FS_CardinalityType
  <2>9. Value * (Cardinality(L) + 1) = Value * Cardinality(L) + Value
    BY <2>8, SlipsAssumption
  <2>. QED  BY <2>1, <2>3, <2>6, <2>7, <2>8, <2>9
<1> HIDE DEF Q
<1>3. Q \in SUBSET (SUBSET K)
  BY DEF Q
<1>4. Q = SUBSET K
  BY <1>1, <1>2, <1>3, SubsetsByAddition
<1>5. K \in Q
  BY <1>4
<1>. QED  BY <1>5 DEF Q, OpenAmount

LEMMA ReadTitlesSerial ==
    ASSUME IInv, Books, Serial, NEW t \in Tx, ReadTitles(t)
    PROVE  Serial'
<1> DEFINE bill == my[t].kind = "bill"
           K == IF bill THEN {origin[s] : s \in my[t].sales} ELSE my[t].titles
           abated == {T \in K : HasAbatement(T)}
           fits == (\A T \in K : MayBill(T, bill)) /\ (Cardinality(K) > 1 => abated = {})
           label == IF ~fits THEN "done" ELSE IF my[t].doc = "NFE" THEN "cancel" ELSE "agreement"
           dates == abated # {}
           merges == Cardinality(K) > 1
           sum == OpenAmount(Live(K))
           r == [my[t] EXCEPT !.titles = K, !.dates = dates, !.merges = merges, !.sum = sum]
<1>1. /\ pc[t] = "read" /\ my[t].kind \in {"bill", "boleto"} /\ Go(t, label, r) /\ OnlyRequest
  BY DEF ReadTitles, At
<1>2. /\ bill => my[t].sales # {} /\ my[t].sales \subseteq Sales
      /\ my[t].kind = "boleto" => \E T \in Titles : my[t].titles = {T}
  BY <1>1 DEF IInv, RequestOK, Bills, At
<1>3. K # {} /\ K \subseteq Titles /\ IsFiniteSet(K) /\ (~bill => \E T \in Titles : K = {T})
  <2>1. CASE bill
    <3>1. IsFiniteSet(my[t].sales)
      BY <1>2, <2>1, SlipsAssumption, FS_Subset
    <3> DEFINE f == [s \in my[t].sales |-> origin[s]]
    <3>2. f \in Surjection(my[t].sales, K)
      BY <2>1 DEF Surjection
    <3>3. IsFiniteSet(K)
      BY <3>1, <3>2, FS_Surjection
    <3>. QED  BY <1>2, <2>1, <3>3 DEF IInv, Shape
  <2>2. CASE ~bill
    <3>1. PICK T \in Titles : my[t].titles = {T}
      BY <1>1, <1>2, <2>2
    <3>. QED  BY <2>2, <3>1, FS_Singleton
  <2>. QED  BY <2>1, <2>2
<1>4. /\ label \in {"done", "cancel", "agreement"}
      /\ label # "done" =>
            /\ \A T \in K : ~HasOpenBaixa(T) /\ (bill => title[T].kind = "PEDIDO")
            /\ merges => ~dates
      /\ ~dates => \A T \in K : ~HasAbatement(T)
  BY DEF MayBill
<1>5. ~merges => \E T \in Titles : K = {T}
  BY <1>3, OneTitle
<1>6. merges => bill
  <2>1. ~bill => Cardinality(K) = 1
    BY <1>3, FS_Singleton
  <2>. QED  BY <2>1
<1>7. ASSUME label # "done", merges
      PROVE  /\ K = my[t].sales /\ my[t].sales \subseteq Sales
             /\ \A T \in K : title[T].kind = "PEDIDO" /\ origin[T] = T
             /\ sum = Value * Cardinality(my[t].sales)
  <2>1. \A T \in K : title[T].kind = "PEDIDO" /\ ~HasOpenBaixa(T) /\ ~HasAbatement(T)
    BY <1>4, <1>6, <1>7
  <2>2. my[t].sales \subseteq Sales /\ K = {origin[s] : s \in my[t].sales}
    BY <1>2, <1>6, <1>7
  <2> HIDE DEF K
  <2>3. \A s \in Sales : origin[s] \in K => origin[s] = s
    BY <1>3, <2>1 DEF Books, TitlesOf
  <2>4. K = my[t].sales /\ \A T \in K : origin[T] = T
    <3>1. \A s \in my[t].sales : origin[s] = s
      BY <2>2, <2>3
    <3>. QED  BY <2>2, <3>1
  <2>5. \A T \in K : Worth(T) = Value
    <3> SUFFICES ASSUME NEW T \in K PROVE Worth(T) = Value
      OBVIOUS
    <3>1. {s \in Sales : origin[s] = T} = {T}
      BY <2>2, <2>3, <2>4
    <3>2. Cardinality({T}) = 1
      BY FS_Singleton
    <3>3. Value * 1 = Value
      BY SlipsAssumption
    <3>. QED  BY <3>1, <3>2, <3>3 DEF Worth
  <2>6. K \subseteq Owners
    BY <2>2 DEF Owners
  <2>7. sum = Value * Cardinality(K)
    BY <1>3, <2>1, <2>5, <2>6, OpenOfTitles
  <2>. QED  BY <2>1, <2>2, <2>4, <2>7
<1>8. ASSUME label # "done", ~merges, ~dates, NEW T \in K \cap Owners
      PROVE  sum = Worth(T)
  <2>1. K = {T} /\ ~HasOpenBaixa(T) /\ ~HasAbatement(T)
    BY <1>4, <1>5, <1>8
  <2>2. PICK i \in LiveOf(T) :
            LiveOf(T) = {i} /\ i \in Installments /\ i[1] = T /\ plan[i].open = Worth(T)
    BY <2>1, OneLive
  <2>3. Live(K) = {i}
    BY <2>1, <2>2 DEF Live
  <2> DEFINE f == [j \in Installments |-> plan[j].open]
  <2>4. f[i] = Worth(T) /\ f[i] \in Int
    BY <2>2 DEF Books, Amounts
  <2> HIDE DEF f
  <2>5. SumFunctionOnSet(f, {i}) = f[i]
    <3>1. SumFunctionOnSet(f, {} \cup {i}) = SumFunctionOnSet(f, {}) + f[i]
      BY <2>4, FS_EmptySet, SumWith
    <3>. QED  BY <2>4, <3>1, SumOfNothing
  <2>. QED  BY <2>3, <2>4, <2>5 DEF OpenAmount, f
<1> HIDE DEF K, dates, fits, label, merges, sum, abated
<1>9. /\ r.doc = my[t].doc /\ r.kind = my[t].kind /\ r.titles = K /\ r.sum = sum
      /\ r.merges = merges /\ r.dates = dates /\ r.sales = my[t].sales
  BY Knows DEF Fields, IInv
<1> HIDE DEF r
<1>10. /\ UNCHANGED << title, origin, plan, slip, settled, mail >>
       /\ \A T : HasOpenBaixa(T)' = HasOpenBaixa(T) /\ Worth(T)' = Worth(T)
       /\ Owners' = Owners
  BY <1>1 DEF OnlyRequest, money, HasOpenBaixa, Worth, Owners
<1>11. ASSUME label # "done" PROVE BillKnows(t)' /\ PayKnows(t)'
  <2>1. pc'[t] = label /\ my'[t] = r
    BY <1>1, <1>11, OthersStay DEF IInv
  <2>2. label \in {"cancel", "agreement"}
    BY <1>4, <1>11
  <2>3. \A T \in K : ~HasOpenBaixa(T)'
    BY <1>4, <1>10, <1>11
  <2>. QED  BY <1>7, <1>8, <1>9, <1>10, <1>11, <2>1, <2>2, <2>3
            DEF BillKnows, PayKnows, Billing, AtPlan
<1>12. \A i \in Installments : slip'[i].number = slip[i].number /\ (HasSlip(i)' <=> HasSlip(i))
  BY <1>10 DEF HasSlip
<1>. QED  BY <1>1, <1>9, <1>10, <1>11, <1>12, QuietSerial
\* The steps of a request for titles up to its commit.
LEMMA BillingReadsSerial ==
    ASSUME IInv, Books, Serial, NEW t \in Tx,
           LoadAgreement(t) \/ KeepPlan(t) \/ ReadSchedule(t) \/ CancelSchedule(t)
             \/ InsertSchedule(t) \/ IssueSlip(t)
    PROVE  Serial'
<1>1. /\ UNCHANGED << title, origin, plan, slip, settled, mail >>
      /\ Billing(t) /\ pc[t] \notin {"new", "done"}
  BY DEF LoadAgreement, KeepPlan, ReadSchedule, CancelSchedule, InsertSchedule, IssueSlip,
         At, OnlyRequest, money, Billing, AtPlan
<1>2. RequestOK(t) /\ BillKnows(t)
  BY DEF IInv, Serial
<1>3. /\ \A T : HasOpenBaixa(T)' = HasOpenBaixa(T) /\ Worth(T)' = Worth(T)
      /\ Owners' = Owners /\ \A K : Live(K)' = Live(K)
      /\ \A i \in Installments : slip'[i].number = slip[i].number /\ (HasSlip(i)' <=> HasSlip(i))
  BY <1>1 DEF HasOpenBaixa, Worth, Owners, Live, LiveOf, HasSlip
<1>4. ASSUME NEW label \in {"cancel", "rows", "insert", "issue", "commit"}, NEW r,
             Go(t, label, r),
             r.kind = my[t].kind, r.titles = my[t].titles, r.merges = my[t].merges,
             r.dates = my[t].dates, r.sales = my[t].sales, r.sum = my[t].sum,
             label = "rows" => r.found = Live(my[t].titles),
             label \in {"insert", "issue", "commit"} /\ ~r.dates => r.cancels = Live(my[t].titles)
      PROVE  Serial'
  <2>1. pc'[t] = label /\ my'[t] = r
    BY <1>4, OthersStay DEF IInv
  <2>2. BillKnows(t)'
    BY <1>1, <1>2, <1>3, <1>4, <2>1 DEF BillKnows, Billing, AtPlan
  <2>3. PayKnows(t)'
    BY <1>4, <2>1 DEF PayKnows
  <2>. QED  BY <1>1, <1>3, <1>4, <2>2, <2>3, QuietSerial
<1>5. ASSUME Go(t, "done", Idle) PROVE Serial'
  BY <1>1, <1>3, <1>5, QuietSerial
<1>6. CASE LoadAgreement(t)
  <2> DEFINE r == [my[t] EXCEPT !.number = next]
  <2>1. Go(t, "cancel", r)
    BY <1>6 DEF LoadAgreement
  <2>2. /\ r.kind = my[t].kind /\ r.titles = my[t].titles /\ r.merges = my[t].merges
        /\ r.dates = my[t].dates /\ r.sales = my[t].sales /\ r.sum = my[t].sum
    BY Knows DEF Fields, IInv
  <2> HIDE DEF r
  <2>. QED  BY <1>4, <2>1, <2>2
<1>7. CASE KeepPlan(t)
  <2>1. CASE ~End(t)
    <3>1. PICK i \in Live(my[t].titles), label \in {"issue", "commit"} :
                Go(t, label, [my[t] EXCEPT !.line = i])
      BY <1>7, <2>1 DEF KeepPlan
    <3> DEFINE r == [my[t] EXCEPT !.line = i]
    <3>2. /\ r.kind = my[t].kind /\ r.titles = my[t].titles /\ r.merges = my[t].merges
          /\ r.dates = my[t].dates /\ r.sales = my[t].sales /\ r.sum = my[t].sum
      BY Knows DEF Fields, IInv
    <3>3. Go(t, label, r) /\ my[t].dates
      BY <1>7, <3>1 DEF KeepPlan
    <3> HIDE DEF r
    <3>. QED  BY <1>4, <3>2, <3>3
  <2>. QED  BY <1>5, <2>1 DEF End
<1>8. CASE ReadSchedule(t)
  <2> DEFINE T == IF my[t].merges THEN t ELSE CHOOSE x \in my[t].titles : TRUE
             r == [my[t] EXCEPT !.found = Live(my[t].titles), !.line = << T, my[t].doc >>]
  <2>1. Go(t, "rows", r)
    BY <1>8 DEF ReadSchedule
  <2>2. /\ r.kind = my[t].kind /\ r.titles = my[t].titles /\ r.merges = my[t].merges
        /\ r.dates = my[t].dates /\ r.sales = my[t].sales /\ r.sum = my[t].sum
        /\ r.found = Live(my[t].titles)
    BY Knows DEF Fields, IInv
  <2> HIDE DEF r
  <2>. QED  BY <1>4, <2>1, <2>2
<1>9. CASE CancelSchedule(t)
  <2> DEFINE r == [my[t] EXCEPT !.cancels = my[t].found]
  <2>1. Go(t, "insert", r) /\ pc[t] = "rows"
    BY <1>9 DEF CancelSchedule, At
  <2>2. /\ r.kind = my[t].kind /\ r.titles = my[t].titles /\ r.merges = my[t].merges
        /\ r.dates = my[t].dates /\ r.sales = my[t].sales /\ r.sum = my[t].sum
        /\ r.cancels = my[t].found
    BY Knows DEF Fields, IInv
  <2>3. my[t].found = Live(my[t].titles)
    BY <1>2, <2>1 DEF BillKnows
  <2> HIDE DEF r
  <2>. QED  BY <1>4, <2>1, <2>2, <2>3
<1>10. CASE InsertSchedule(t)
  <2>1. PICK label \in {"done", "issue", "commit"} : Go(t, label, my[t])
    BY <1>10 DEF InsertSchedule
  <2>2. pc[t] = "insert" /\ ~my[t].dates
    BY <1>2, <1>10 DEF InsertSchedule, At, RequestOK, Bills
  <2>3. my[t].cancels = Live(my[t].titles)
    BY <1>2, <2>2 DEF BillKnows
  <2>4. CASE label = "done"
    BY <1>1, <1>3, <2>1, <2>4, QuietSerial
  <2>. QED  BY <1>4, <2>1, <2>3, <2>4
<1>11. CASE IssueSlip(t)
  <2> DEFINE r == [my[t] EXCEPT !.issued = TRUE]
  <2>1. pc[t] = "issue" /\ (Go(t, "commit", r) \/ Go(t, "done", Idle))
    BY <1>11 DEF IssueSlip, At, End
  <2>2. /\ r.kind = my[t].kind /\ r.titles = my[t].titles /\ r.merges = my[t].merges
        /\ r.dates = my[t].dates /\ r.sales = my[t].sales /\ r.sum = my[t].sum
        /\ r.cancels = my[t].cancels
    BY Knows DEF Fields, IInv
  <2>3. ~my[t].dates => my[t].cancels = Live(my[t].titles)
    BY <1>2, <2>1 DEF BillKnows
  <2> HIDE DEF r
  <2>. QED  BY <1>4, <1>5, <2>1, <2>2, <2>3
<1>. QED  BY <1>6, <1>7, <1>8, <1>9, <1>10, <1>11

\* Remittances, reports and settlements up to their write.
LEMMA OtherReadsSerial ==
    ASSUME IInv, Books, Serial, NEW t \in Tx,
           ReadWaiting(t) \/ ReadReport(t) \/ LookUpSettlement(t) \/ ReadOpen(t)
             \/ StoreRemittance(t) \/ Fail(t) \/ WriteSlipStatus(t)
    PROVE  Serial'
<1>1. CASE WriteSlipStatus(t)
  BY <1>1, StatusWrites, QuietSerial
<1>2. CASE ~WriteSlipStatus(t)
  <2>1. /\ UNCHANGED << title, origin, plan, slip, settled, mail >>
        /\ pc[t] \notin {"new", "done"}
    BY <1>2 DEF ReadWaiting, ReadReport, LookUpSettlement, ReadOpen, StoreRemittance, Fail,
                UnderWay, At, OnlyRequest, money
  <2>2. \A i \in Installments : slip'[i].number = slip[i].number /\ (HasSlip(i)' <=> HasSlip(i))
    BY <2>1 DEF HasSlip
  <2>3. ASSUME NEW label, NEW r, Go(t, label, r), r.kind = my[t].kind,
               label \in {"done", "store", "already", "status", "open", "pay"},
               label \in {"open", "pay"} /\ r.kind = "report" =>
                    \A x \in settled : ~(x.line = r.line /\ x.amount = r.item.amount /\ x.date = r.item.date),
               label = "pay" => r.sum = plan[r.line].open,
               label = "pay" /\ r.kind = "report" =>
                    r.amount \in {r.item.amount, r.sum} /\ r.amount <= r.item.amount
        PROVE  Serial'
    <3>1. ASSUME label # "done" PROVE BillKnows(t)' /\ PayKnows(t)'
      <4>1. pc'[t] = label /\ my'[t] = r
        BY <2>3, <3>1, OthersStay DEF IInv
      <4>. QED  BY <2>1, <2>3, <3>1, <4>1 DEF BillKnows, PayKnows, Billing, AtPlan, SameSettlement
    <3>. QED  BY <2>1, <2>2, <2>3, <3>1, QuietSerial
  <2>4. CASE ReadWaiting(t)
    <3> DEFINE waiting == {i \in Installments : slip[i].status = "AGUARDANDO_REGISTRO"}
               r == [my[t] EXCEPT !.found = waiting, !.number = sequence + 1]
    <3>1. Go(t, "done", r) \/ Go(t, "store", r)
      BY <2>4 DEF ReadWaiting
    <3>2. r.kind = my[t].kind
      BY Knows DEF Fields, IInv
    <3> HIDE DEF r
    <3>. QED  BY <2>3, <3>1, <3>2
  <2>5. CASE ReadReport(t)
    <3>1. CASE End(t)
      BY <2>1, <2>2, <3>1, QuietSerial DEF End
    <3>2. CASE ~End(t)
      <4>1. PICK i \in SlipsWith(my[t].item.number), label \in {"already", "status"} :
                Go(t, label, [my[t] EXCEPT !.line = i])
        BY <2>5, <3>2 DEF ReadReport, SlipFound
      <4> DEFINE r == [my[t] EXCEPT !.line = i]
      <4>2. r.kind = my[t].kind
        BY Knows DEF Fields, IInv
      <4>3. Go(t, label, r)
        BY <4>1
      <4> HIDE DEF r
      <4>. QED  BY <2>3, <4>1, <4>2, <4>3
    <3>. QED  BY <3>1, <3>2
  <2>6. CASE LookUpSettlement(t)
    <3>1. PICK label \in {"done", "open"} :
            Go(t, label, my[t]) /\ (label = "open" => \A r \in settled : ~SameSettlement(t, r))
      BY <2>6 DEF LookUpSettlement
    <3>. QED  BY <2>3, <3>1 DEF SameSettlement
  <2>7. CASE ReadOpen(t)
    <3> DEFINE row == plan[my[t].line]
               fits(a) == row.status # "CANCELADA" /\ a > 0 /\ a <= row.open
    <3>1. PICK a \in (IF my[t].kind = "report" THEN {Min({my[t].item.amount, row.open})}
                      ELSE 1 .. Value) :
            Go(t, IF fits(a) THEN "pay" ELSE "done", [my[t] EXCEPT !.sum = row.open, !.amount = a])
      BY <2>7 DEF ReadOpen
    <3> DEFINE r == [my[t] EXCEPT !.sum = row.open, !.amount = a]
    <3>2. pc[t] = "open" /\ PayKnows(t) /\ PayOK(t)
      BY <2>7 DEF ReadOpen, At, Serial, Books
    <3>3. /\ r.kind = my[t].kind /\ r.line = my[t].line /\ r.sum = row.open /\ r.amount = a
          /\ r.item = my[t].item
      BY Knows DEF Fields, IInv
    <3>4. ASSUME my[t].kind = "report" PROVE a \in {my[t].item.amount, row.open} /\ a <= my[t].item.amount
      <4> DEFINE x == my[t].item.amount
                 y == row.open
      <4>1. x \in Int
        BY <3>4 DEF IInv, RequestOK, Reports, Books, Settlements
      <4>2. y \in Int
        BY <3>2 DEF PayOK, HasPlan, Books, Amounts
      <4>3. a = Min({x, y})
        BY <3>1, <3>4
      <4> HIDE DEF x, y
      <4>4. Min({x, y}) \in {x, y} /\ Min({x, y}) <= x
        BY <4>1, <4>2, MinOfTwo
      <4>. QED  BY <4>3, <4>4 DEF x, y
    <3>5. my[t].kind = "report" => \A x \in settled : ~SameSettlement(t, x)
      BY <3>2 DEF PayKnows
    <3>6. Go(t, "pay", r) \/ Go(t, "done", r)
      BY <3>1
    <3> HIDE DEF r
    <3>. QED  BY <2>3, <3>3, <3>4, <3>5, <3>6 DEF SameSettlement
  <2>8. CASE StoreRemittance(t) \/ Fail(t)
    BY <2>1, <2>2, <2>8, QuietSerial DEF StoreRemittance, Fail, End
  <2>. QED  BY <1>2, <2>4, <2>5, <2>6, <2>7, <2>8
<1>. QED  BY <1>1, <1>2
\* A settlement moves its amount from what is open to what is settled, and
\* answers the payment that was reported.
LEMMA WriteSettlementSerial ==
    ASSUME IInv, Books, Serial, NEW t \in Tx, WriteSettlement(t)
    PROVE  Serial'
<1> DEFINE line == my[t].line
           rec == Settling(t)
<1>1. /\ pc[t] = "pay" /\ Go(t, "done", Idle)
      /\ UNCHANGED << next, title, origin, mail, bank, overlap, orphans >>
      /\ line \in Installments /\ my[t].kind \in {"report", "settle"}
      /\ my[t].sum \in Nat /\ my[t].amount \in 1 .. my[t].sum
      /\ plan'[line].open = my[t].sum - my[t].amount
      /\ \A i \in Installments :
            /\ plan'[i].status = plan[i].status /\ plan'[i].original = plan[i].original
            /\ plan'[i].abated = plan[i].abated
            /\ i # line => plan'[i] = plan[i]
      /\ \A i \in Installments : slip'[i].number = slip[i].number /\ (HasSlip(i)' <=> HasSlip(i))
      /\ settled' = settled \cup {rec} /\ \A r \in settled : r.tx # t
  BY SettlementWrites
<1>2. /\ rec.tx = t /\ rec.by = my[t].kind /\ rec.line = line /\ rec.amount = my[t].amount
      /\ rec.date = my[t].item.date /\ rec \notin settled
  BY <1>1 DEF Settling
<1>3. /\ \A u \in Tx : u # t => my'[u] = my[u] /\ pc'[u] = pc[u]
      /\ pc'[t] = "done" /\ my'[t] = Idle
  BY <1>1, OthersStay DEF IInv
<1>4. PayKnows(t) /\ my[t].sum = plan[line].open /\ t \in UnderWay
  BY <1>1 DEF Serial, PayKnows, UnderWay
<1>5. /\ IsFiniteSet(settled) /\ IsFiniteSet(settled') /\ IsFiniteSet(mail)
      /\ \A r \in settled' : r.amount \in Nat
  <2>1. IsFiniteSet(settled) /\ IsFiniteSet(mail) /\ \A r \in settled : r.amount \in Nat
    BY DEF Books, Settlements
  <2>. QED  BY <1>1, <1>2, <2>1, FS_AddElement
<1> HIDE DEF line, rec
<1>6. \A u, v \in UnderWay' : my'[u].kind # "remit" /\ my'[v].kind # "remit" => u = v
  <2>1. \A u \in UnderWay' : u \in UnderWay /\ my'[u].kind = my[u].kind
    BY <1>3 DEF UnderWay
  <2>. QED  BY <2>1 DEF Serial
<1>7. ASSUME NEW i \in Installments
      PROVE  PaidOn(i)' = PaidOn(i) + (IF i = line THEN my[t].amount ELSE 0) /\ PaidOn(i) \in Nat
  <2> DEFINE f == [r \in settled |-> r.amount]
             g == [r \in settled' |-> r.amount]
             S == {r \in settled : r.line = i}
  <2>1. IsFiniteSet(S) /\ S \subseteq settled /\ \A r \in S : f[r] \in Nat /\ g[r] = f[r]
    <3>1. IsFiniteSet(S)
      BY <1>5, FS_Subset
    <3>. QED  BY <1>1, <1>5, <3>1
  <2>2. g[rec] = my[t].amount /\ rec \notin S
    BY <1>1, <1>2
  <2>3. PaidOn(i) = SumFunctionOnSet(f, S)
    BY DEF PaidOn
  <2>4. PaidOn(i)' = SumFunctionOnSet(g, IF i = line THEN S \cup {rec} ELSE S)
    <3>1. {r \in settled' : r.line = i} = IF i = line THEN S \cup {rec} ELSE S
      BY <1>1, <1>2
    <3>. QED  BY <3>1 DEF PaidOn
  <2> HIDE DEF f, g, S
  <2>5. SumFunctionOnSet(f, S) = SumFunctionOnSet(g, S)
    BY <2>1, SumDependsOnValues
  <2>6. SumFunctionOnSet(f, S) \in Nat
    BY <2>1, SumIsNat
  <2>7. \A r \in S \cup {rec} : g[r] \in Int
    BY <1>1, <2>1, <2>2
  <2>8. SumFunctionOnSet(g, S \cup {rec}) = SumFunctionOnSet(g, S) + g[rec]
    BY <2>1, <2>2, <2>7, SumWith
  <2>. QED  BY <2>2, <2>3, <2>4, <2>5, <2>6, <2>8
<1>8. \A T \in Titles : LiveOf(T)' = LiveOf(T)
  BY <1>1, InstallmentsOf DEF LiveOf
<1>9. Owners' = Owners /\ Owners \subseteq Titles /\ \A T : Worth(T)' = Worth(T)
  BY <1>1 DEF Owners, Worth, IInv, Shape
<1>10. ASSUME NEW T \in Owners PROVE BilledOnce(T)'
  <2>1. BilledOnce(T) /\ LiveOf(T)' = LiveOf(T) /\ title' = title /\ Worth(T)' = Worth(T)
    BY <1>1, <1>8, <1>9 DEF Serial
  <2>2. ASSUME NEW i \in LiveOf(T)
        PROVE  plan'[i].original = Worth(T) /\ plan'[i].open + PaidOn(i)' + plan'[i].abated = Worth(T)
    <3>1. i \in Installments /\ plan[i].original = Worth(T)
          /\ plan[i].open + PaidOn(i) + plan[i].abated = Worth(T)
      BY <1>9, <2>1, <2>2, InstallmentsOf DEF BilledOnce, LiveOf
    <3>2. plan[i].open \in Nat /\ plan[i].abated \in Nat
      BY <3>1 DEF Books, Amounts
    <3>3. CASE i = line
      <4>1. PaidOn(i)' = PaidOn(i) + my[t].amount /\ PaidOn(i) \in Nat
        BY <1>7, <3>1, <3>3
      <4>2. plan'[i].open = plan[i].open - my[t].amount /\ plan'[i].abated = plan[i].abated
            /\ plan'[i].original = plan[i].original
        BY <1>1, <1>4, <3>3
      <4>. QED  BY <1>1, <3>1, <3>2, <4>1, <4>2
    <3>4. CASE i # line
      <4>1. PaidOn(i)' = PaidOn(i) + 0 /\ PaidOn(i) \in Nat /\ plan'[i] = plan[i]
        BY <1>1, <1>7, <3>1, <3>4
      <4>. QED  BY <3>1, <4>1
    <3>. QED  BY <3>3, <3>4
  <2>. QED  BY <2>1, <2>2 DEF BilledOnce
<1>11. ASSUME NEW u \in Tx PROVE BillKnows(u)' /\ PayKnows(u)'
  <2>1. CASE u = t
    BY <1>3, <2>1 DEF BillKnows, PayKnows, Billing, AtPlan
  <2>2. CASE u # t
    <3>1. ~Billing(u) /\ pc[u] \notin {"open", "pay"}
      BY <1>1, <1>4, <2>2, OneRequest
    <3>. QED  BY <1>3, <2>2, <3>1 DEF BillKnows, PayKnows, Billing, AtPlan
  <2>. QED  BY <2>1, <2>2
<1>12. ASSUME NEW i \in Installments PROVE Cardinality(ByBank(i)') <= Cardinality(Answered(i)')
  <2>1. Cardinality(ByBank(i)) <= Cardinality(Answered(i))
    BY DEF Serial
  <2>2. IsFiniteSet(ByBank(i)) /\ IsFiniteSet(Answered(i)) /\ IsFiniteSet(Answered(i)')
    <3>1. ByBank(i) \subseteq settled /\ Answered(i) \subseteq mail /\ Answered(i)' \subseteq mail
      BY <1>1 DEF ByBank, Answered, Payments
    <3>. QED  BY <1>5, <3>1, FS_Subset
  <2>3. /\ Cardinality(ByBank(i)) \in Nat /\ Cardinality(Answered(i)) \in Nat
        /\ Cardinality(Answered(i)') \in Nat
    BY <2>2, FS_CardinalityType
  <2>4. Answered(i) \subseteq Answered(i)'
    <3>1. plan[i].open = 0 => plan'[i].open = 0
      BY <1>1, <1>4
    <3>. QED  BY <1>1, <3>1 DEF Answered, Payments
  <2>5. CASE i = line /\ my[t].kind = "report"
    <3> DEFINE m == my[t].item
    <3>1. ByBank(i)' = ByBank(i) \cup {rec} /\ rec \notin ByBank(i)
      BY <1>1, <1>2, <2>5 DEF ByBank
    <3>2. /\ m \in Payments /\ HasSlip(i) /\ m.number = slip[i].number
          /\ \A r \in settled : ~(r.line = i /\ r.amount = m.amount /\ r.date = m.date)
          /\ my[t].amount = m.amount \/ my[t].amount = my[t].sum
      BY <1>1, <1>4, <2>5 DEF IInv, RequestOK, Reports, At, PayKnows, SameSettlement, Payments, line
    <3>3. m \notin Answered(i)
      BY <1>1, <1>4, <2>5, <3>2 DEF Answered
    <3>4. m \in Answered(i)'
      <4>1. plan'[i].open = 0 \/ \E r \in settled' : r.line = i /\ r.amount = m.amount /\ r.date = m.date
        BY <1>1, <1>2, <2>5, <3>2
      <4>2. m \in Payments' /\ HasSlip(i)' /\ m.number = slip'[i].number
        BY <1>1, <3>2 DEF Payments
      <4>. QED  BY <4>1, <4>2 DEF Answered
    <3> HIDE DEF m
    <3>5. Cardinality(ByBank(i)') = Cardinality(ByBank(i)) + 1
      BY <2>2, <3>1, FS_AddElement
    <3>6. Cardinality(Answered(i) \cup {m}) = Cardinality(Answered(i)) + 1
      BY <2>2, <3>3, FS_AddElement
    <3>7. Cardinality(Answered(i) \cup {m}) <= Cardinality(Answered(i)')
      <4>1. Answered(i) \cup {m} \subseteq Answered(i)'
        BY <2>4, <3>4
      <4>. QED  BY <2>2, <4>1, FS_Subset
    <3>. QED  BY <2>1, <2>3, <3>5, <3>6, <3>7
  <2>6. CASE ~(i = line /\ my[t].kind = "report")
    <3>1. ByBank(i)' = ByBank(i)
      BY <1>1, <1>2, <2>6 DEF ByBank
    <3>2. Cardinality(Answered(i)) <= Cardinality(Answered(i)')
      BY <2>2, <2>4, FS_Subset
    <3>. QED  BY <2>1, <2>3, <3>1, <3>2
  <2>. QED  BY <2>5, <2>6
<1>. QED  BY <1>6, <1>9, <1>10, <1>11, <1>12 DEF Serial
\* A commit replaces the live plan of its title, or of the titles that it
\* consolidates, by one that amounts to the same sales.
LEMMA CommitPlanSerial ==
    ASSUME IInv, Books, Serial, NEW t \in Tx, CommitPlan(t)
    PROVE  Serial'
<1>0. PICK line : line = my[t].line
  OBVIOUS
<1> DEFINE new(i) == i = line /\ ~my[t].dates
           issues(i) == i = line /\ my[t].issued
<1>1. /\ pc[t] = "commit" /\ Go(t, "done", Idle) /\ settled' = settled /\ mail' = mail
      /\ line \in Installments /\ line[1] \in Titles /\ my[t].sum \in Nat
      /\ ~my[t].dates => ~HasPlan(line)
      /\ my[t].dates => my[t].cancels = {}
      /\ my[t].issued => ~HasSlip(line)
      /\ \A s \in Sales : origin'[s] = IF my[t].merges /\ s \in my[t].sales THEN line[1] ELSE origin[s]
  BY <1>0, CommitWrites, InstallmentsOf DEF IInv, RequestOK, Issues
<1>2. ASSUME NEW i \in Installments
      PROVE  /\ new(i) =>
                    /\ plan'[i].status = "ABERTA" /\ plan'[i].abated = 0
                    /\ plan'[i].original = my[t].sum /\ plan'[i].open = my[t].sum
             /\ i \in my[t].cancels => plan'[i].status = "CANCELADA" /\ plan'[i].open = 0
             /\ ~new(i) /\ i \notin my[t].cancels => plan'[i] = plan[i]
  BY <1>2, <1>0, CommitWrites
<1>3. ASSUME NEW i \in Installments, ~issues(i)
      PROVE  slip'[i].number = slip[i].number /\ (HasSlip(i)' <=> HasSlip(i))
  BY <1>3, <1>0, CommitWrites
<1>4. ASSUME NEW T \in Titles
      PROVE  /\ title[T].merged \in BOOLEAN
             /\ T = line[1] => title'[T].merged = title[T].merged
             /\ T # line[1] =>
                    title'[T].merged = (title[T].merged \/ (my[t].merges /\ T \in my[t].titles))
  BY <1>4, <1>0, CommitWrites DEF Books, TitlesOf
<1>5. /\ IsFiniteSet(my[t].titles) /\ my[t].titles \subseteq Titles
      /\ \A T \in my[t].titles : title[T].kind # "none"
      /\ my[t].merges => ~my[t].dates /\ line[1] = t
      /\ ~my[t].dates => line[2] = my[t].doc
      /\ ~my[t].merges => \E T \in Titles : my[t].titles = {T}
      /\ ~my[t].merges /\ ~my[t].dates => line[1] \in my[t].titles
  BY <1>1, <1>0 DEF Books, BillOK, Billing, AtPlan
<1>6. /\ BillKnows(t) /\ t \in UnderWay /\ my[t].kind # "remit"
      /\ ~my[t].dates => my[t].cancels = Live(my[t].titles)
  BY <1>1 DEF Serial, BillKnows, UnderWay, IInv, RequestOK
<1>7. /\ \A u \in Tx : u # t => my'[u] = my[u] /\ pc'[u] = pc[u]
      /\ pc'[t] = "done" /\ my'[t] = Idle
  BY <1>1, OthersStay DEF IInv
<1>8. title[t].kind = "none" /\ t \in Titles /\ ~title[t].merged
      /\ \A i \in OfTitle(t) : ~HasPlan(i)
  BY <1>1 DEF Books, TitlesOf, Titles
<1>9. \A T \in Owners : T \in Titles /\ title[T].kind # "none" /\ BilledOnce(T)
  BY DEF Owners, IInv, Shape, Books, TitlesOf, Serial
<1>10. \A u, v \in UnderWay' : my'[u].kind # "remit" /\ my'[v].kind # "remit" => u = v
  <2>1. \A u \in UnderWay' : u \in UnderWay /\ my'[u].kind = my[u].kind
    BY <1>7 DEF UnderWay
  <2>. QED  BY <2>1 DEF Serial
<1>11. ASSUME NEW u \in Tx PROVE BillKnows(u)' /\ PayKnows(u)'
  <2>1. CASE u = t
    BY <1>7, <2>1 DEF BillKnows, PayKnows, Billing, AtPlan
  <2>2. CASE u # t
    <3>1. ~Billing(u) /\ pc[u] \notin {"open", "pay"}
      BY <1>6, <2>2, OneRequest
    <3>. QED  BY <1>7, <2>2, <3>1 DEF BillKnows, PayKnows, Billing, AtPlan
  <2>. QED  BY <2>1, <2>2
<1>12. \A i : PaidOn(i)' = PaidOn(i)
  BY <1>1 DEF PaidOn
<1>13. ASSUME NEW i \in Installments PROVE Cardinality(ByBank(i)') <= Cardinality(Answered(i)')
  <2>1. Cardinality(ByBank(i)) <= Cardinality(Answered(i)) /\ ByBank(i)' = ByBank(i)
    BY <1>1 DEF Serial, ByBank
  <2>2. Answered(i) \subseteq Answered(i)'
    <3>1. HasSlip(i) => ~issues(i) /\ ~new(i)
      BY <1>1 DEF IInv, Slips
    <3>2. HasSlip(i) /\ plan[i].open = 0 => plan'[i].open = 0
      BY <1>2, <3>1
    <3>3. HasSlip(i) => HasSlip(i)' /\ slip'[i].number = slip[i].number
      BY <1>3, <3>1
    <3>. QED  BY <1>1, <3>2, <3>3 DEF Answered, Payments
  <2>3. IsFiniteSet(ByBank(i)) /\ IsFiniteSet(Answered(i)) /\ IsFiniteSet(Answered(i)')
    <3>1. /\ ByBank(i) \subseteq settled /\ Answered(i) \subseteq mail /\ Answered(i)' \subseteq mail
          /\ IsFiniteSet(settled) /\ IsFiniteSet(mail)
      BY <1>1 DEF ByBank, Answered, Payments, Books, Settlements
    <3>. QED  BY <3>1, FS_Subset
  <2>4. /\ Cardinality(ByBank(i)) \in Nat /\ Cardinality(Answered(i)) \in Nat
        /\ Cardinality(Answered(i)') \in Nat
    BY <2>3, FS_CardinalityType
  <2>5. Cardinality(Answered(i)) <= Cardinality(Answered(i)')
    BY <2>2, <2>3, FS_Subset
  <2>. QED  BY <2>1, <2>4, <2>5
\* A title that the request is not about stays billed.
<1>14. ASSUME NEW T \in Owners, T # line[1], T \notin my[t].titles \/ my[t].dates,
              {s \in Sales : origin'[s] = T} = {s \in Sales : origin[s] = T}
       PROVE  BilledOnce(T)'
  <2>1. BilledOnce(T) /\ T \in Titles /\ title'[T].merged = title[T].merged
    <3>1. my[t].merges => T \notin my[t].titles
      BY <1>5, <1>14
    <3>. QED  BY <1>4, <1>9, <1>14, <3>1
  <2>2. \A i \in OfTitle(T) : plan'[i] = plan[i]
    <3> SUFFICES ASSUME NEW i \in OfTitle(T) PROVE plan'[i] = plan[i]
      OBVIOUS
    <3>1. i \in Installments /\ i[1] = T /\ ~new(i)
      BY <1>14, <2>1, InstallmentsOf
    <3>2. i \notin my[t].cancels
      <4>1. CASE my[t].dates
        BY <1>1, <4>1
      <4>2. CASE ~my[t].dates
        <5>1. \A j \in Live(my[t].titles) : j[1] \in my[t].titles
          BY <1>5, LiveFacts
        <5>. QED  BY <1>6, <1>14, <3>1, <4>2, <5>1
      <4>. QED  BY <4>1, <4>2
    <3>. QED  BY <1>2, <3>1, <3>2
  <2>3. LiveOf(T)' = LiveOf(T) /\ Worth(T)' = Worth(T) /\ LiveOf(T) \subseteq OfTitle(T)
    BY <1>14, <2>2 DEF LiveOf, Worth
  <2>. QED  BY <1>12, <2>1, <2>2, <2>3 DEF BilledOnce
\* The title of the new plan is billed by it.
<1>15. ASSUME ~my[t].dates, ~title[line[1]].merged, \A i \in LiveOf(line[1]) : i \in my[t].cancels,
              Worth(line[1])' = my[t].sum
       PROVE  BilledOnce(line[1])'
  <2>1. line \in OfTitle(line[1]) /\ title'[line[1]].merged = title[line[1]].merged
    BY <1>1, <1>4, InstallmentsOf DEF OfTitle
  <2>2. LiveOf(line[1])' = {line}
    <3>1. ASSUME NEW i \in OfTitle(line[1]), i # line PROVE plan'[i].status # "ABERTA"
      <4>1. i \in Installments /\ ~new(i)
        BY <1>1, <3>1, InstallmentsOf
      <4>2. CASE i \in my[t].cancels
        BY <1>2, <4>1, <4>2
      <4>3. CASE i \notin my[t].cancels
        <5>1. plan'[i] = plan[i] /\ i \notin LiveOf(line[1])
          BY <1>2, <1>15, <4>1, <4>3
        <5>. QED  BY <3>1, <5>1 DEF LiveOf
      <4>. QED  BY <4>2, <4>3
    <3>2. plan'[line].status = "ABERTA"
      BY <1>1, <1>2, <1>15
    <3>3. LiveOf(line[1])' = {i \in OfTitle(line[1]) : plan'[i].status = "ABERTA"}
      BY <1>1 DEF LiveOf
    <3>. QED  BY <2>1, <3>1, <3>2, <3>3
  <2>3. PaidOn(line)' = 0
    <3>1. {r \in settled : r.line = line} = {}
      BY <1>1, <1>15 DEF Books, Settlements
    <3>2. PaidOn(line) = 0
      BY <3>1, SumOfNothing DEF PaidOn
    <3>. QED  BY <1>12, <3>2
  <2>4. /\ plan'[line].abated = 0 /\ plan'[line].original = my[t].sum /\ plan'[line].open = my[t].sum
    BY <1>1, <1>2, <1>15
  <2>5. Cardinality({line}) = 1
    BY FS_Singleton
  <2>6. plan'[line].open + PaidOn(line)' + plan'[line].abated = my[t].sum
    BY <1>1, <2>3, <2>4
  <2>. QED  BY <1>15, <2>1, <2>2, <2>4, <2>5, <2>6 DEF BilledOnce
<1>16. ASSUME NEW T \in Owners' PROVE BilledOnce(T)'
  <2>1. PICK x \in Sales : T = origin'[x]
    BY DEF Owners
  <2>2. CASE ~my[t].merges
    <3>1. T = origin[x] /\ T \in Owners
      BY <1>1, <2>1, <2>2 DEF Owners
    <3>2. {s \in Sales : origin'[s] = T} = {s \in Sales : origin[s] = T} /\ Worth(T)' = Worth(T)
      BY <1>1, <2>2 DEF Worth
    <3>3. CASE my[t].dates
      <4>1. \A i \in Installments : plan'[i] = plan[i]
        BY <1>1, <1>2, <3>3
      <4>2. OfTitle(T) \subseteq Installments /\ T \in Titles
        BY <1>9, <3>1, InstallmentsOf
      <4>3. LiveOf(T)' = LiveOf(T) /\ LiveOf(T) \subseteq Installments
        BY <4>1, <4>2 DEF LiveOf
      <4>4. title'[T].merged = title[T].merged
        BY <1>4, <2>2, <4>2
      <4>. QED  BY <1>9, <1>12, <3>1, <3>2, <4>1, <4>3, <4>4 DEF BilledOnce
    <3>4. CASE ~my[t].dates /\ T = line[1]
      <4>1. my[t].titles = {T}
        BY <1>5, <2>2, <3>4
      <4>2. my[t].sum = Worth(T)
        BY <1>1, <1>6, <2>2, <3>1, <3>4, <4>1 DEF BillKnows, Billing, AtPlan
      <4>3. \A i \in LiveOf(T) : i \in my[t].cancels
        BY <1>6, <3>4, <4>1 DEF Live
      <4>4. ~title[T].merged
        BY <1>9, <3>1 DEF BilledOnce
      <4>5. Worth(line[1])' = my[t].sum
        BY <1>7, <3>2, <3>4, <4>2
      <4>. QED  BY <1>15, <3>2, <3>4, <4>2, <4>3, <4>4
    <3>5. CASE ~my[t].dates /\ T # line[1]
      <4>1. T \notin my[t].titles
        BY <1>5, <2>2, <3>5
      <4>. QED  BY <1>14, <3>1, <3>2, <3>5, <4>1
    <3>. QED  BY <3>3, <3>4, <3>5
  <2>3. CASE my[t].merges
    <3>1. /\ my[t].titles = my[t].sales /\ my[t].sales \subseteq Sales
          /\ \A S \in my[t].titles : title[S].kind = "PEDIDO" /\ origin[S] = S
          /\ my[t].sum = Value * Cardinality(my[t].sales)
          /\ ~my[t].dates /\ line[1] = t
      BY <1>1, <1>5, <1>6, <2>3 DEF BillKnows, Billing, AtPlan
    <3>2. \A s \in Sales : origin[s] # t
      BY <1>8 DEF Books, TitlesOf
    <3>3. CASE T = t
      <4>1. {s \in Sales : origin'[s] = t} = my[t].sales
        BY <1>1, <2>3, <3>1, <3>2
      <4>2. Worth(t)' = my[t].sum
        BY <3>1, <4>1 DEF Worth
      <4>3. LiveOf(t) = {}
        BY <1>8, InstallmentsOf DEF LiveOf, HasPlan
      <4>4. Worth(line[1])' = my[t].sum
        BY <1>7, <3>1, <4>1 DEF Worth
      <4>. QED  BY <1>8, <1>15, <3>1, <3>3, <4>2, <4>3
    <3>4. CASE T # t
      <4>1. x \notin my[t].sales /\ origin[x] = T /\ T \in Owners
        BY <1>1, <2>1, <2>3, <3>1, <3>4 DEF Owners
      <4>2. T \notin my[t].titles
        BY <3>1, <4>1 DEF Books, TitlesOf, Titles
      <4>3. {s \in Sales : origin'[s] = T} = {s \in Sales : origin[s] = T}
        BY <1>1, <3>1, <3>4, <4>2
      <4>. QED  BY <1>14, <3>1, <3>4, <4>1, <4>2, <4>3
    <3>. QED  BY <3>3, <3>4
  <2>. QED  BY <2>2, <2>3
<1>. QED  BY <1>10, <1>11, <1>13, <1>16 DEF Serial

LEMMA InitSerial == Init => Serial
<1> SUFFICES ASSUME Init PROVE Serial
  OBVIOUS
<1>1. PICK issued \in {{}} \cup {{s} : s \in Sales}, abated \in SUBSET Sales :
        /\ issued \cap abated = {}
        /\ title = [T \in Titles |->
                [kind |-> IF T \in issued THEN "BOLETO"
                          ELSE IF T \in Sales THEN "PEDIDO" ELSE "none",
                 merged |-> FALSE]]
        /\ plan = [i \in Installments |-> StartPlan(i, abated, issued)]
  BY DEF Init
<1>2. /\ origin = [s \in Sales |-> s] /\ settled = {} /\ mail = {}
      /\ pc = [t \in Tx |-> "new"] /\ my = [t \in Tx |-> Idle]
  BY DEF Init
<1>3. UnderWay = {}
  BY <1>2 DEF UnderWay
<1>4. ASSUME NEW T \in Owners PROVE BilledOnce(T)
  <2>1. T \in Sales /\ T \in Titles /\ issued \subseteq Sales
    BY <1>1, <1>2 DEF Owners, Titles
  <2>2. Worth(T) = Value
    <3>1. {s \in Sales : origin[s] = T} = {T}
      BY <1>2, <2>1
    <3>2. Cardinality({T}) = 1
      BY FS_Singleton
    <3>3. Value * 1 = Value
      BY SlipsAssumption
    <3>. QED  BY <3>1, <3>2, <3>3 DEF Worth
  <2> DEFINE less == IF T \in abated THEN 1 ELSE 0
             i == IF T \in issued THEN << T, "BOLETO" >> ELSE << T, "PEDIDO" >>
             row(st, left) ==
                [status |-> st, original |-> Value, open |-> left, abated |-> less]
  <2>3. i \in OfTitle(T) /\ OfTitle(T) \subseteq Installments
    BY <2>1, InstallmentsOf DEF OfTitle, Sources
  <2>4. ASSUME NEW j \in OfTitle(T)
        PROVE  IF j = i THEN plan[j] = row("ABERTA", Value - less) ELSE plan[j].status # "ABERTA"
    <3>1. j \in Installments /\ j[1] = T /\ j = << T, j[2] >> /\ j[2] \in Sources
      BY <2>1, <2>3, InstallmentsOf
    <3>2. plan[j] = StartPlan(j, abated, issued)
      BY <1>1, <3>1
    <3>3. /\ j \in issued \X {"PEDIDO"} <=> T \in issued /\ j[2] = "PEDIDO"
          /\ j \in issued \X {"BOLETO"} <=> T \in issued /\ j[2] = "BOLETO"
          /\ j \in (Sales \ issued) \X {"PEDIDO"} <=> T \notin issued /\ j[2] = "PEDIDO"
      BY <2>1, <3>1
    <3>4. CASE T \in issued /\ j[2] = "PEDIDO"
      <4>1. plan[j] = row("CANCELADA", 0) /\ j # i
        BY <3>1, <3>2, <3>3, <3>4 DEF StartPlan
      <4>. QED  BY <4>1
    <3>5. CASE (T \in issued /\ j[2] = "BOLETO") \/ (T \notin issued /\ j[2] = "PEDIDO")
      <4>1. plan[j] = row("ABERTA", Value - less) /\ j = i
        BY <3>1, <3>2, <3>3, <3>5 DEF StartPlan
      <4>. QED  BY <4>1
    <3>6. CASE ~(T \in issued /\ j[2] \in {"PEDIDO", "BOLETO"}) /\ ~(T \notin issued /\ j[2] = "PEDIDO")
      <4>1. plan[j] = NoRow /\ j # i
        BY <3>1, <3>2, <3>3, <3>6 DEF StartPlan
      <4>. QED  BY <4>1 DEF NoRow
    <3>. QED  BY <3>4, <3>5, <3>6
  <2>5. less \in {0, 1} /\ Value \in Nat /\ Value > 1
    BY SlipsAssumption
  <2>6. /\ plan[i].status = "ABERTA" /\ plan[i].original = Value
        /\ plan[i].open = Value - less /\ plan[i].abated = less
    BY <2>3, <2>4
  <2>7. LiveOf(T) = {i}
    BY <2>3, <2>4, <2>6 DEF LiveOf
  <2> HIDE DEF i, less
  <2>8. PaidOn(i) = 0
    <3>1. {r \in settled : r.line = i} = {}
      BY <1>2
    <3>. QED  BY <3>1, SumOfNothing DEF PaidOn
  <2>9. Cardinality(LiveOf(T)) = 1 /\ ~title[T].merged
    BY <1>1, <2>1, <2>7, FS_Singleton
  <2>. QED  BY <2>2, <2>5, <2>6, <2>7, <2>8, <2>9 DEF BilledOnce
<1>5. \A t \in Tx : BillKnows(t) /\ PayKnows(t)
  BY <1>2 DEF BillKnows, PayKnows, Billing, AtPlan
<1>6. ASSUME NEW i \in Installments PROVE Cardinality(ByBank(i)) <= Cardinality(Answered(i))
  <2>1. ByBank(i) = {} /\ Answered(i) = {}
    BY <1>2 DEF ByBank, Answered, Payments
  <2>. QED  BY <2>1, FS_EmptySet
<1>. QED  BY <1>3, <1>4, <1>5, <1>6 DEF Serial

LEMMA StepSerial == IInv /\ Books /\ Books' /\ SerialInv /\ [Next]_vars => SerialInv'
<1> SUFFICES ASSUME IInv, Books, Books', SerialInv, [Next]_vars, ~overlap' PROVE Serial'
  BY DEF SerialInv
<1>1. ~overlap
  <2>1. ASSUME NEW t \in Tx, Start(t) PROVE ~overlap
    BY <2>1 DEF Start
  <2>2. ASSUME NEW t \in Tx, Fail(t) PROVE ~overlap
    BY <2>2 DEF Fail, OnlyRequest
  <2>3. ASSUME NEW t \in Tx, RequestStep(t) PROVE ~overlap
    <3>1. CASE ReadTitles(t) \/ LoadAgreement(t) \/ KeepPlan(t) \/ ReadSchedule(t)
      BY <3>1 DEF ReadTitles, LoadAgreement, KeepPlan, ReadSchedule, OnlyRequest
    <3>2. CASE CancelSchedule(t) \/ InsertSchedule(t) \/ IssueSlip(t)
      BY <3>2 DEF CancelSchedule, InsertSchedule, IssueSlip, OnlyRequest
    <3>3. CASE CommitPlan(t)
      BY <3>3 DEF CommitPlan
    <3>4. CASE ReadWaiting(t) \/ StoreRemittance(t) \/ ReadReport(t)
      BY <3>4 DEF ReadWaiting, StoreRemittance, ReadReport, OnlyRequest
    <3>5. CASE WriteSlipStatus(t) \/ LookUpSettlement(t) \/ ReadOpen(t)
      BY <3>5 DEF WriteSlipStatus, LookUpSettlement, ReadOpen, OnlyRequest
    <3>6. CASE WriteSettlement(t)
      BY <3>6 DEF WriteSettlement
    <3>. QED  BY <2>3, <3>1, <3>2, <3>3, <3>4, <3>5, <3>6 DEF RequestStep
  <2>4. ASSUME NEW f \in files, ReadFile(f) PROVE ~overlap
    BY <2>4 DEF ReadFile
  <2>5. ASSUME NEW b \in Payable, Paid(b) PROVE ~overlap
    BY <2>5 DEF Paid
  <2>6. ASSUME UNCHANGED vars PROVE ~overlap
    BY <2>6 DEF vars
  <2>. QED  BY <2>1, <2>2, <2>3, <2>4, <2>5, <2>6 DEF Next
<1>2. Serial
  BY <1>1 DEF SerialInv
<1>3. ASSUME NEW t \in Tx, RequestStep(t) PROVE Serial'
  BY <1>2, <1>3, ReadTitlesSerial, BillingReadsSerial, OtherReadsSerial, CommitPlanSerial,
     WriteSettlementSerial DEF RequestStep
<1>4. ASSUME NEW t \in Tx, Start(t) \/ Fail(t) PROVE Serial'
  BY <1>2, <1>4, StartSerial, OtherReadsSerial
<1>5. ASSUME \/ \E f \in files : ReadFile(f)
             \/ \E b \in Payable : Paid(b)
             \/ UNCHANGED vars
      PROVE  Serial'
  <2>1. /\ UNCHANGED << title, origin, plan, slip, settled, pc, my >>
        /\ mail \subseteq mail'
    BY <1>5 DEF ReadFile, Report, Paid, money, vars
  <2>2. IsFiniteSet(mail')
    BY DEF Books, Settlements
  <2>. QED  BY <1>2, <2>1, <2>2, BankSerial
<1>. QED  BY <1>3, <1>4, <1>5 DEF Next

\* What holds of sales, plans and settlements while requests for titles do not
\* overlap.
LEMMA SerialInductive == Spec => [](IInv /\ Books /\ SerialInv)
<1>1. Init => IInv /\ Books /\ SerialInv
  BY InitInvariant, InitBooks, InitSerial DEF SerialInv
<1>2. (IInv /\ Books /\ SerialInv) /\ [Next]_vars => (IInv /\ Books /\ SerialInv)'
  BY StepInvariant, StepBooks, StepSerial
<1>. QED  BY <1>1, <1>2, PTL DEF Spec

\* bill and issueBoleto leave every sale with one live plan, that amounts to
\* the sales of its title less what was settled and abated.
THEOREM SalesBilled == Spec => []SalesBilledOnce
<1>1. SerialInv => SalesBilledOnce
  BY DEF SerialInv, Serial, SalesBilledOnce, BilledOnce, Owners, Worth
<1>. QED  BY <1>1, SerialInductive, PTL

\* settleFromBank settles a payment once on an installment, whatever webhooks
\* and return files repeat.
THEOREM PaymentsSettled == Spec => []PaymentsSettledOnce
<1>1. IInv /\ Books /\ SerialInv => PaymentsSettledOnce
  <2> SUFFICES ASSUME IInv, Books, Serial, NEW i \in Installments
               PROVE  Cardinality(ByBank(i))
                        <= Cardinality({m \in Payments : m.number = slip[i].number
                                            /\ (m.of = i \/ m.number \in orphans \cup Foreign)})
    BY DEF SerialInv, PaymentsSettledOnce, ByBank
  <2> DEFINE P == {m \in Payments : m.number = slip[i].number
                        /\ (m.of = i \/ m.number \in orphans \cup Foreign)}
  <2>1. ASSUME NEW m \in Answered(i) PROVE m \in P
    <3> DEFINE b == << m.number, m.of >>
    <3>1. m \in Payments /\ m \in mail /\ HasSlip(i) /\ m.number = slip[i].number
      BY DEF Answered, Payments
    <3>2. b \in bank \/ m.number \in Foreign
      BY <3>1 DEF IInv, Bank, Reported, Payments
    <3>3. CASE b \in bank
      <4>1. Registered(b) /\ b[2] \in Installments /\ b[1] = m.number /\ b[2] = m.of
        BY <3>3 DEF IInv, Bank, Shape
      <4>2. CASE HasSlip(b[2]) /\ slip[b[2]].number = m.number
        BY <3>1, <4>1, <4>2 DEF IInv, Slips, HasSlip
      <4>3. ASSUME NEW u \in Tx, my[u].issued, my[u].number = m.number PROVE FALSE
        BY <3>1, <4>3 DEF IInv, RequestOK, Issues, HasSlip
      <4>. QED  BY <3>1, <4>1, <4>2, <4>3 DEF Registered
    <3>. QED  BY <3>1, <3>2, <3>3
  <2>2. IsFiniteSet(mail) /\ IsFiniteSet(settled) /\ ByBank(i) \subseteq settled /\ P \subseteq mail
    BY DEF Books, Settlements, ByBank, Payments
  <2> HIDE DEF P
  <2>3. IsFiniteSet(P) /\ IsFiniteSet(ByBank(i)) /\ IsFiniteSet(Answered(i)) /\ Answered(i) \subseteq P
    BY <2>1, <2>2, FS_Subset
  <2>4. Cardinality(Answered(i)) <= Cardinality(P)
    BY <2>3, FS_Subset
  <2>5. /\ Cardinality(P) \in Nat /\ Cardinality(ByBank(i)) \in Nat
        /\ Cardinality(Answered(i)) \in Nat
    BY <2>3, FS_CardinalityType
  <2>6. Cardinality(ByBank(i)) <= Cardinality(Answered(i))
    BY DEF Serial
  <2>. QED  BY <2>4, <2>5, <2>6 DEF P
<1>. QED  BY <1>1, SerialInductive, PTL
-----------------------------------------------------------------------------
(***************************************************************************)
(* Receivables: what a request read, plans and wrote is of its types.       *)
(***************************************************************************)

Steps == {"new", "lock", "read", "check", "write", "statuses", "title",
          "credit", "commit", "done"}
PlanRows == [installment : Parcels, open : Nat, kind : SettlementKinds,
             amount : Nat, reverses : Transactions \cup {NoTx, Nothing}]
TitleRows == [open : 0 .. TitleOriginal,
              status : {"ABERTO", "PARCIAL", "QUITADO"}]
RequestRows ==
    [kind : RequestKinds \cup {"none"}, installment : Parcels \cup {0},
     amount : Nat, picked : SUBSET Parcels, target : SUBSET SettlementRows,
     locked : SUBSET Parcels, seen : Nat, total : 0 .. TitleOriginal,
     plan : SUBSET PlanRows, changed : SUBSET (Parcels \X InstallmentStatuses),
     open : [Parcels -> Nat \cup {Nothing}],
     status : [Parcels -> InstallmentStatuses \cup {Nothing}],
     title : SUBSET TitleRows, credit : (0 .. CreditTotal) \cup {Nothing},
     settlements : SUBSET SettlementRows]

Asked(q) ==
    /\ q.kind = "settle" => q.installment \in Parcels /\ q.amount > 0
    /\ q.kind = "reverse" => q.target # {}
Bounded(q) ==
    /\ IsFiniteSet(q.plan) /\ IsFiniteSet(q.settlements)
    /\ \A w \in q.plan : w.open <= Original[w.installment]
    /\ \A i \in Parcels : q.open[i] # Nothing => q.open[i] <= Original[i]
ReadSoFar(s, q) ==
    /\ s = "check" /\ q.kind = "settle" => q.seen <= Original[q.installment]
    /\ (q.kind = "applyCredit" /\ s # "read") =>
           q.amount <= q.seen /\ q.seen <= CreditTotal
    /\ s = "write" => \A w \in q.plan : w.amount > 0
    /\ s \in {"credit", "commit"} => q.title # {}
    /\ s = "lock" => q.kind = "settleIntegral"
    /\ s = "read" => q.kind # "settleIntegral"
    /\ s = "credit" => q.kind = "applyCredit"

RequestsTyped ==
    /\ step \in [Transactions -> Steps]
    /\ request \in [Transactions -> RequestRows]
    /\ \A t \in Transactions : /\ Asked(request[t]) /\ Bounded(request[t])
                               /\ ReadSoFar(step[t], request[t])
TitleTyped ==
    /\ TitleTypeOK /\ RequestsTyped
    /\ open \in [Parcels -> Nat]
    /\ IsFiniteSet(settlements)
    /\ overlapped \in BOOLEAN

-----------------------------------------------------------------------------
(***************************************************************************)
(* Receivables while only settleIntegral's overlap.  A request has read     *)
(* balances that are still committed (BeforePlan), plans and writes each    *)
(* installment once, from the committed balance (PlanLeft, Written), and    *)
(* refreshes statuses and title from what it sees (Refreshing).  A commit   *)
(* would undo this for others under way: there are none, or all of them are *)
(* settleIntegral's and have locked what they read (HoldsRows).             *)
(***************************************************************************)

\* What a settlement takes off its installment.
Movement(kind, amount) == IF kind = "ESTORNO" THEN 0 - amount ELSE amount

HoldsRows(t) ==
    /\ \A i \in Parcels : request[t].open[i] # Nothing => lock[i] = t
    /\ \A i \in request[t].locked : lock[i] = t
    /\ (request[t].kind = "settleIntegral" /\ step[t] # "lock")
           => lock[Title] = t

BeforePlan(t) ==
    step[t] \in {"lock", "read", "check"} =>
        /\ \A i \in Parcels : request[t].open[i] = Nothing
        /\ request[t].settlements = {}
        /\ request[t].kind = "settleIntegral" =>
               request[t].plan = {PlanRow(i, 0, "BAIXA", open[i], Nothing) :
                                    i \in request[t].locked}
        /\ step[t] = "check" =>
               /\ request[t].kind = "settle" =>
                      request[t].seen = open[request[t].installment]
               /\ request[t].kind = "reverse" => NotReversed(Target(t))
               /\ request[t].kind = "applyCredit" => request[t].seen = credit

KindFits(t, x) ==
    IF request[t].kind = "reverse"
    THEN /\ x.kind = "ESTORNO"
         /\ x.installment = Target(t).installment
         /\ x.reverses = Target(t).by
    ELSE x.kind = IF request[t].kind = "applyCredit" THEN "ABATIMENTO_CREDITO"
                  ELSE "BAIXA"

PlanLeft(t) ==
    \A w \in request[t].plan :
        /\ KindFits(t, w)
        /\ request[t].open[w.installment] = Nothing
        /\ w.open = open[w.installment] - Movement(w.kind, w.amount)
        /\ \A x \in request[t].plan : x.installment = w.installment => x = w
Written(t) ==
    /\ \A s \in request[t].settlements :
        /\ KindFits(t, s) /\ s.by = t
        /\ request[t].open[s.installment] # Nothing
        /\ request[t].open[s.installment]
               = open[s.installment] - Movement(s.kind, s.amount)
        /\ \A x \in request[t].settlements :
               x.installment = s.installment => x = s
    /\ \A i \in Parcels : request[t].open[i] # Nothing =>
           \E s \in request[t].settlements : s.installment = i
    /\ request[t].kind = "reverse" => NotReversed(Target(t))
    /\ request[t].kind = "applyCredit" =>
           /\ request[t].seen = credit
           /\ AmountsOf(request[t].plan) + AmountsOf(request[t].settlements)
                  = request[t].amount

\* refreshTitle, after the writes.
StatusesToChange(t) ==
    {<< i, InstallmentStatus(i, OpenSeen(t, i)) >> :
       i \in {j \in Parcels : InstallmentStatus(j, OpenSeen(t, j)) # status[j]}}
Refreshing(t) ==
    /\ step[t] \notin {"title", "credit", "commit"} =>
           \A i \in Parcels : request[t].status[i] = Nothing
    /\ step[t] \in {"statuses", "title", "credit", "commit"} =>
           /\ request[t].plan = {}
           /\ request[t].total = SumFunctionOnSet(OpensSeen(t), Parcels)
    /\ step[t] = "statuses" => request[t].changed = StatusesToChange(t)
    /\ step[t] \in {"title", "credit", "commit"} =>
           \A i \in Parcels :
               StatusSeen(t, i) = InstallmentStatus(i, OpenSeen(t, i))
    /\ step[t] \in {"credit", "commit"} =>
           request[t].title = {Refreshed(request[t].total)}
    /\ request[t].credit = IF request[t].kind = "applyCredit" /\ step[t] = "commit"
                           THEN request[t].seen - request[t].amount ELSE Nothing

Fresh(t) ==
    /\ step[t] # "done" => \A s \in settlements : s.by # t
    /\ InProgress(t) =>
         /\ HoldsRows(t) /\ BeforePlan(t) /\ Refreshing(t)
         /\ step[t] \notin {"lock", "read", "check"} => PlanLeft(t) /\ Written(t)

Agreed ==
    /\ BalancesFollowSettlements
    /\ TitleFollowsInstallments
    /\ credit = CreditTotal - SpentCredit
    /\ ReversedOnce

AgreedInv == overlapped \/ (Agreed /\ \A t \in Transactions : Fresh(t))

-----------------------------------------------------------------------------
LEMMA ParcelsFinite == IsFiniteSet(Parcels) /\ Parcels \subseteq Nat
BY ReceivablesAssumption, FS_Interval DEF Parcels

LEMMA OriginalTyped == \A i \in Parcels : Original[i] \in Nat /\ Original[i] > 0
BY ReceivablesAssumption

LEMMA ParcelSums ==
    ASSUME NEW o \in [Parcels -> Nat], \A i \in Parcels : o[i] <= Original[i]
    PROVE  SumFunctionOnSet(o, Parcels) \in 0 .. TitleOriginal
<1>1. \A i \in Parcels : o[i] \in Int /\ Original[i] \in Int /\ o[i] \in Nat
  BY OriginalTyped
<1>2. SumFunctionOnSet(o, Parcels) <= SumFunctionOnSet(Original, Parcels)
  BY <1>1, ParcelsFinite, SumIsMonotone
<1>3. SumFunctionOnSet(o, Parcels) \in Nat /\ SumFunctionOnSet(Original, Parcels) \in Nat
  BY <1>1, OriginalTyped, ParcelsFinite, SumIsNat
<1>4. QED
  BY <1>2, <1>3 DEF TitleOriginal

LEMMA StatusesTyped ==
    /\ \A i, n : InstallmentStatus(i, n) \in InstallmentStatuses
    /\ \A n : TitleStatus(n) \in {"ABERTO", "PARCIAL", "QUITADO"}
    /\ Nothing \notin Nat /\ Nothing \notin InstallmentStatuses
BY ReceivablesAssumption DEF InstallmentStatus, TitleStatus, InstallmentStatuses

LEMMA ShareTyped ==
    ASSUME NEW x \in Nat, NEW y \in Int
    PROVE  Min({x, Max({0, y})}) \in 0 .. x
<1>1. PICK m \in Nat : m \in {0, y} /\ m >= 0 /\ m >= y
  OBVIOUS
<1>2. Max({0, y}) = m
  BY <1>1 DEF Max
<1>3. PICK k \in Nat : k \in {x, m} /\ k <= x /\ k <= m
  BY <1>1
<1>4. Min({x, m}) = k
  BY <1>1, <1>3 DEF Min
<1>5. QED
  BY <1>2, <1>3, <1>4

LEMMA ImageFinite ==
    ASSUME NEW S, IsFiniteSet(S), NEW f PROVE IsFiniteSet({f[x] : x \in S})
<1> DEFINE g == [x \in S |-> f[x]]
           T == {f[x] : x \in S}
<1>1. g \in Surjection(S, T)
  BY DEF Surjection
<1>2. QED
  BY <1>1, FS_Surjection

LEMMA Opens ==
    ASSUME TitleTyped, NEW t \in Transactions
    PROVE  /\ OpensSeen(t) \in [Parcels -> Nat]
           /\ \A i \in Parcels : OpensSeen(t)[i] <= Original[i]
<1>1. request[t] \in RequestRows /\ Bounded(request[t])
  BY DEF TitleTyped, RequestsTyped
<1>2. /\ request[t].open \in [Parcels -> Nat \cup {Nothing}]
      /\ \A i \in Parcels : request[t].open[i] # Nothing => request[t].open[i] <= Original[i]
  BY <1>1 DEF RequestRows, Bounded
<1>3. \A i \in Parcels : open[i] \in 0 .. Original[i]
  BY DEF TitleTyped, TitleTypeOK
<1>4. QED
  BY <1>2, <1>3, OriginalTyped DEF OpensSeen, OpenSeen

\* A step that only moves the transaction on, to a request of its type.
LEMMA TypedStep ==
    ASSUME TitleTyped, NEW t \in Transactions, NEW q \in RequestRows, NEW s \in Steps,
           request' = [request EXCEPT ![t] = q], step' = [step EXCEPT ![t] = s],
           Asked(q), Bounded(q), ReadSoFar(s, q),
           Pending, lock' \in [LockRows -> Transactions \cup {NoTx}]
    PROVE  TitleTyped'
<1>1. /\ step' \in [Transactions -> Steps]
      /\ request' \in [Transactions -> RequestRows]
  BY DEF TitleTyped, RequestsTyped
<1>2. ASSUME NEW u \in Transactions
      PROVE  Asked(request'[u]) /\ Bounded(request'[u]) /\ ReadSoFar(step'[u], request'[u])
  <2>1. CASE u = t
    <3>1. request'[u] = q /\ step'[u] = s
      BY <2>1 DEF TitleTyped, RequestsTyped
    <3>2. QED
      BY <3>1
  <2>2. CASE u # t
    <3>1. request'[u] = request[u] /\ step'[u] = step[u]
      BY <2>2 DEF TitleTyped, RequestsTyped
    <3>2. QED
      BY <3>1 DEF TitleTyped, RequestsTyped
  <2>3. QED
    BY <2>1, <2>2
<1>3. RequestsTyped'
  BY <1>1, <1>2 DEF RequestsTyped
<1>4. TitleTypeOK'
  BY DEF TitleTyped, TitleTypeOK, Pending
<1>5. QED
  BY <1>3, <1>4 DEF TitleTyped, Pending

LEMMA TakeTyped ==
    ASSUME TitleTyped, NEW t \in Transactions, NEW r
    PROVE  /\ Take(t, r) => lock' \in [LockRows -> Transactions \cup {NoTx}]
           /\ UNCHANGED lock => lock' \in [LockRows -> Transactions \cup {NoTx}]
           /\ lock' = Freed(t) => lock' \in [LockRows -> Transactions \cup {NoTx}]
BY DEF TitleTyped, TitleTypeOK, Take, MayLock, Freed

LEMMA NoRequestTyped ==
    /\ NoRequest \in RequestRows /\ Asked(NoRequest) /\ Bounded(NoRequest)
    /\ NoRequest.kind = "none"
<1>1. TitleOriginal \in Nat
  BY OriginalTyped, ParcelsFinite, SumIsNat DEF TitleOriginal
<1>2. NoRequest \in RequestRows
  BY <1>1, ReceivablesAssumption DEF NoRequest, RequestRows
<1>3. QED
  BY <1>2, FS_EmptySet, ReceivablesAssumption DEF NoRequest, Asked, Bounded

LEMMA RequestTyped ==
    ASSUME TitleTyped, NEW t \in Transactions, NEW k, NEW i \in Parcels \cup {0},
           NEW a \in Nat, NEW S \in SUBSET Parcels, NEW T \in SUBSET SettlementRows,
           Request(t, k, i, a, S, T), Pending, UNCHANGED lock,
           k = "settle" => i \in Parcels /\ a > 0, k = "reverse" => T # {}
    PROVE  TitleTyped'
<1> DEFINE q == [NoRequest EXCEPT !.kind = k, !.installment = i, !.amount = a,
                                  !.picked = S, !.target = T]
           s == IF k = "settleIntegral" THEN "lock" ELSE "read"
<1>1. /\ request' = [request EXCEPT ![t] = q] /\ step' = [step EXCEPT ![t] = s]
      /\ k \in RequestKinds
  BY DEF Request, GoTo
<1>2. /\ q.kind = k /\ q.installment = i /\ q.amount = a /\ q.target = T
      /\ q.plan = {} /\ q.settlements = {} /\ q.open = [j \in Parcels |-> Nothing]
  BY DEF NoRequest
<1>3. q \in RequestRows
  BY <1>1, NoRequestTyped DEF RequestRows
<1>4. s \in Steps /\ s \in {"lock", "read"}
  BY DEF Steps
<1> HIDE DEF q, s
<1>5. Asked(q) /\ Bounded(q)
  BY <1>2, FS_EmptySet DEF Asked, Bounded
<1>6. ReadSoFar(s, q)
  <2>1. IF k = "settleIntegral" THEN s = "lock" ELSE s = "read"
    BY DEF s
  <2>2. QED
    BY <1>2, <1>4, <2>1 DEF ReadSoFar
<1>7. QED
  BY <1>1, <1>3, <1>4, <1>5, <1>6, TypedStep, TakeTyped

LEMMA OpenTyped ==
    ASSUME TitleTyped, NEW t \in Transactions, Open(t)
    PROVE  TitleTyped'
<1>0. Pending /\ UNCHANGED lock
  BY DEF Open
<1>1. ASSUME NEW i \in Parcels, NEW a \in 1 .. Original[i],
             Request(t, "settle", i, a, {}, {})
      PROVE  TitleTyped'
  <2>1. a \in Nat /\ a > 0
    BY OriginalTyped
  <2>2. QED
    BY <1>0, <1>1, <2>1, RequestTyped
<1>2. ASSUME NEW S \in (SUBSET Parcels) \ {{}}, Request(t, "settleIntegral", 0, 0, S, {})
      PROVE  TitleTyped'
  BY <1>0, <1>2, RequestTyped
<1>3. ASSUME NEW s \in settlements, Request(t, "reverse", 0, 0, {}, {s})
      PROVE  TitleTyped'
  <2>1. {s} \in SUBSET SettlementRows /\ {s} # {}
    BY DEF TitleTyped, TitleTypeOK
  <2>2. QED
    BY <1>0, <1>3, <2>1, RequestTyped
<1>4. ASSUME NEW a \in 1 .. CreditTotal, Request(t, "applyCredit", 0, a, {}, {})
      PROVE  TitleTyped'
  <2>1. a \in Nat
    BY ReceivablesAssumption
  <2>2. QED
    BY <1>0, <1>4, <2>1, RequestTyped
<1>5. QED
  BY <1>1, <1>2, <1>3, <1>4 DEF Open

LEMMA ReadsTyped ==
    ASSUME TitleTyped, NEW t \in Transactions,
           ReadInstallment(t) \/ ReadSettlement(t) \/ ReadCredit(t)
    PROVE  TitleTyped'
<1>0. /\ request[t] \in RequestRows /\ Asked(request[t]) /\ Bounded(request[t])
      /\ Pending /\ UNCHANGED lock
  BY DEF TitleTyped, RequestsTyped, ReadInstallment, ReadSettlement, ReadCredit
<1>1. /\ step' = [step EXCEPT ![t] = "check"] /\ "check" \in Steps
  BY DEF ReadInstallment, ReadSettlement, ReadCredit, GoTo, Steps
<1>2. CASE ReadSettlement(t)
  <2>1. request' = [request EXCEPT ![t] = request[t]] /\ request[t].kind = "reverse"
    BY <1>2 DEF ReadSettlement, TitleTyped, RequestsTyped
  <2>2. ReadSoFar("check", request[t])
    BY <2>1 DEF ReadSoFar
  <2>3. QED
    BY <1>0, <1>1, <2>1, <2>2, TypedStep, TakeTyped
<1>3. ASSUME NEW v \in Nat, request' = [request EXCEPT ![t]["seen"] = v],
             request[t].kind = "settle" => v <= Original[request[t].installment],
             request[t].kind = "applyCredit" => request[t].amount <= v /\ v <= CreditTotal
      PROVE  TitleTyped'
  <2> DEFINE q == [request[t] EXCEPT !.seen = v]
  <2>1. request' = [request EXCEPT ![t] = q]
    BY <1>3
  <2>2. q \in RequestRows
    BY <1>0 DEF RequestRows
  <2>3. /\ q.kind = request[t].kind /\ q.installment = request[t].installment
        /\ q.amount = request[t].amount /\ q.seen = v /\ q.plan = request[t].plan
        /\ q.settlements = request[t].settlements /\ q.open = request[t].open
        /\ q.target = request[t].target
    BY <1>0 DEF RequestRows
  <2> HIDE DEF q
  <2>4. Asked(q) /\ Bounded(q) /\ ReadSoFar("check", q)
    BY <1>0, <1>3, <2>3 DEF Asked, Bounded, ReadSoFar
  <2>5. QED
    BY <1>0, <1>1, <2>1, <2>2, <2>4, TypedStep, TakeTyped
<1>4. CASE ReadInstallment(t)
  <2>1. /\ request[t].kind = "settle" /\ request[t].installment \in Parcels
        /\ request' = [request EXCEPT ![t]["seen"] = open[request[t].installment]]
    BY <1>0, <1>4 DEF ReadInstallment, Keep, Asked
  <2>2. /\ open[request[t].installment] \in Nat
        /\ open[request[t].installment] <= Original[request[t].installment]
    BY <2>1, OriginalTyped DEF TitleTyped, TitleTypeOK
  <2>3. QED
    BY <1>3, <2>1, <2>2
<1>5. CASE ReadCredit(t)
  <2>1. /\ request[t].kind = "applyCredit" /\ request[t].amount <= credit
        /\ request' = [request EXCEPT ![t]["seen"] = credit]
    BY <1>5 DEF ReadCredit, Keep, AmountFits
  <2>2. credit \in Nat /\ credit <= CreditTotal
    BY ReceivablesAssumption DEF TitleTyped, TitleTypeOK
  <2>3. QED
    BY <1>3, <2>1, <2>2
<1>6. QED
  BY <1>2, <1>4, <1>5

\* A plan of rows that leave no installment above its original.
LEMMA PlanTyped ==
    ASSUME TitleTyped, NEW t \in Transactions, NEW P \in SUBSET PlanRows, IsFiniteSet(P),
           \A w \in P : w.open <= Original[w.installment] /\ w.amount > 0,
           request' = [request EXCEPT ![t]["plan"] = P],
           AtStep(t, "check"), GoTo(t, "write"), Pending, UNCHANGED lock
    PROVE  TitleTyped'
<1>0. /\ request[t] \in RequestRows /\ Asked(request[t]) /\ Bounded(request[t])
      /\ ReadSoFar(step[t], request[t]) /\ step[t] = "check"
  BY DEF TitleTyped, RequestsTyped, AtStep
<1>1. step' = [step EXCEPT ![t] = "write"] /\ "write" \in Steps
  BY DEF GoTo, Steps
<1> DEFINE q == [request[t] EXCEPT !.plan = P]
<1>2. request' = [request EXCEPT ![t] = q]
  OBVIOUS
<1>3. q \in RequestRows
  BY <1>0 DEF RequestRows
<1>4. /\ q.kind = request[t].kind /\ q.installment = request[t].installment
      /\ q.amount = request[t].amount /\ q.seen = request[t].seen /\ q.plan = P
      /\ q.settlements = request[t].settlements /\ q.open = request[t].open
      /\ q.target = request[t].target
  BY <1>0 DEF RequestRows
<1> HIDE DEF q
<1>5. Asked(q) /\ Bounded(q) /\ ReadSoFar("write", q)
  BY <1>0, <1>4 DEF Asked, Bounded, ReadSoFar
<1>6. QED
  BY <1>1, <1>2, <1>3, <1>5, TypedStep, TakeTyped

LEMMA PlanRowTyped ==
    ASSUME NEW i \in Parcels, NEW v \in Nat, NEW k \in SettlementKinds, NEW a \in Nat,
           NEW r \in Transactions \cup {NoTx, Nothing}
    PROVE  /\ PlanRow(i, v, k, a, r) \in PlanRows
           /\ PlanRow(i, v, k, a, r).installment = i /\ PlanRow(i, v, k, a, r).open = v
           /\ PlanRow(i, v, k, a, r).kind = k /\ PlanRow(i, v, k, a, r).amount = a
           /\ PlanRow(i, v, k, a, r).reverses = r
BY DEF PlanRow, PlanRows

LEMMA SettlePlanned ==
    ASSUME TitleTyped, NEW t \in Transactions, PlanSettle(t)
    PROVE  TitleTyped'
<1>0. /\ request[t] \in RequestRows /\ Asked(request[t])
      /\ ReadSoFar("check", request[t]) /\ request[t].kind = "settle"
      /\ request[t].amount <= request[t].seen
  BY DEF TitleTyped, RequestsTyped, AtStep, PlanSettle, AmountFits
<1> DEFINE i == request[t].installment
           left == request[t].seen - request[t].amount
           w == PlanRow(i, left, "BAIXA", request[t].amount, Nothing)
<1>1. /\ i \in Parcels /\ request[t].amount \in Nat /\ request[t].seen \in Nat
      /\ request[t].amount > 0 /\ request[t].seen <= Original[i] /\ Original[i] \in Nat
  BY <1>0, OriginalTyped DEF RequestRows, Asked, ReadSoFar
<1>2. left \in Nat /\ left <= Original[i]
  BY <1>0, <1>1
<1>3. /\ AtStep(t, "check") /\ GoTo(t, "write") /\ Pending /\ UNCHANGED lock
      /\ request' = [request EXCEPT ![t]["plan"] = {w}]
  BY DEF PlanSettle, Keep
<1> HIDE DEF left, i
<1>4. w \in PlanRows /\ w.open <= Original[w.installment] /\ w.amount > 0
  BY <1>1, <1>2, PlanRowTyped DEF SettlementKinds
<1> HIDE DEF w
<1>5. {w} \in SUBSET PlanRows /\ IsFiniteSet({w})
  BY <1>4, FS_Singleton
<1>6. QED
  BY <1>3, <1>4, <1>5, PlanTyped

LEMMA TargetIsSettlement ==
    ASSUME TitleTyped, NEW t \in Transactions, request[t].kind = "reverse"
    PROVE  Target(t) \in SettlementRows
<1>1. request[t].target \in SUBSET SettlementRows /\ request[t].target # {}
  BY DEF TitleTyped, RequestsTyped, RequestRows, Asked
<1>2. QED
  BY <1>1 DEF Target

LEMMA ReversePlanned ==
    ASSUME TitleTyped, NEW t \in Transactions, PlanReverse(t)
    PROVE  TitleTyped'
<1> DEFINE s == Target(t)
           higher == open[s.installment] + s.amount
           w == PlanRow(s.installment, higher, "ESTORNO", s.amount, s.by)
<1>1. s \in SettlementRows
  BY TargetIsSettlement DEF PlanReverse
<1>2. /\ AtStep(t, "check") /\ GoTo(t, "write") /\ Pending /\ UNCHANGED lock
      /\ higher <= Original[s.installment]
      /\ request' = [request EXCEPT ![t]["plan"] = {w}]
  BY DEF PlanReverse, Keep
<1>3. /\ s.installment \in Parcels /\ s.amount \in Nat /\ s.amount > 0
      /\ s.by \in Transactions \cup {NoTx, Nothing}
  BY <1>1 DEF SettlementRows
<1>4. higher \in Nat
  BY <1>3 DEF TitleTyped
<1> HIDE DEF s, higher
<1>5. w \in PlanRows /\ w.open <= Original[w.installment] /\ w.amount > 0
  BY <1>2, <1>3, <1>4, PlanRowTyped DEF SettlementKinds
<1> HIDE DEF w
<1>6. {w} \in SUBSET PlanRows /\ IsFiniteSet({w})
  BY <1>5, FS_Singleton
<1>7. QED
  BY <1>2, <1>5, <1>6, PlanTyped

\* What an installment gets of the credit is a part of its balance.
LEMMA ShareOfTyped ==
    ASSUME TitleTyped, NEW i \in Parcels, NEW a \in Nat
    PROVE  ShareOf(i, a) \in 0 .. open[i]
<1> DEFINE S == {j \in Parcels : j < i}
           before == SumFunctionOnSet(open, S)
<1>1. IsFiniteSet(S) /\ \A j \in S : open[j] \in Int
  BY ParcelsFinite, FS_Subset DEF TitleTyped
<1> HIDE DEF S
<1>2. before \in Int
  BY <1>1, SumIsInt
<1> HIDE DEF before
<1>3. open[i] \in Nat /\ a - before \in Int
  BY <1>2 DEF TitleTyped
<1>4. QED
  BY <1>3, ShareTyped DEF ShareOf, before, S

LEMMA CreditPlanned ==
    ASSUME TitleTyped, NEW t \in Transactions, PlanCredit(t)
    PROVE  TitleTyped'
<1> DEFINE share == [i \in Parcels |-> ShareOf(i, request[t].amount)]
           J == {j \in Parcels : share[j] > 0}
           row == [i \in Parcels |-> PlanRow(i, open[i] - share[i],
                       "ABATIMENTO_CREDITO", share[i], Nothing)]
           P == {row[i] : i \in J}
<1>1. /\ AtStep(t, "check") /\ GoTo(t, "write") /\ Pending /\ UNCHANGED lock
      /\ request' = [request EXCEPT ![t]["plan"] =
            {PlanRow(i, open[i] - share[i], "ABATIMENTO_CREDITO", share[i], Nothing) :
               i \in J}]
  BY DEF PlanCredit, Keep
<1>2. \A i \in Parcels : share[i] \in 0 .. open[i]
  BY ShareOfTyped DEF TitleTyped, RequestsTyped, RequestRows
<1>3. ASSUME NEW i \in Parcels
      PROVE  /\ open[i] \in Nat /\ open[i] <= Original[i] /\ Original[i] \in Nat
             /\ share[i] \in Nat /\ open[i] - share[i] \in Nat
             /\ open[i] - share[i] <= Original[i]
  <2>1. open[i] \in Nat /\ open[i] <= Original[i] /\ Original[i] \in Nat
    BY OriginalTyped DEF TitleTyped, TitleTypeOK
  <2>2. share[i] \in 0 .. open[i]
    BY <1>2
  <2> HIDE DEF share
  <2>3. QED
    BY <2>1, <2>2
<1> HIDE DEF share
<1>4. P = {PlanRow(i, open[i] - share[i], "ABATIMENTO_CREDITO", share[i], Nothing) :
             i \in J}
  OBVIOUS
<1>5. ASSUME NEW i \in J
      PROVE  /\ row[i] \in PlanRows /\ row[i].amount > 0
             /\ row[i].open <= Original[row[i].installment]
  <2>1. i \in Parcels /\ share[i] > 0
    OBVIOUS
  <2>2. /\ row[i] = PlanRow(i, open[i] - share[i], "ABATIMENTO_CREDITO", share[i], Nothing)
        /\ "ABATIMENTO_CREDITO" \in SettlementKinds
    BY DEF SettlementKinds
  <2>3. /\ row[i] \in PlanRows /\ row[i].amount = share[i]
        /\ row[i].open = open[i] - share[i] /\ row[i].installment = i
    BY <1>3, <2>1, <2>2, PlanRowTyped
  <2>4. QED
    BY <1>3, <2>1, <2>3
<1>6. IsFiniteSet(J)
  BY ParcelsFinite, FS_Subset
<1> HIDE DEF row, J
<1>7. IsFiniteSet(P)
  BY <1>6, ImageFinite
<1>8. P \in SUBSET PlanRows /\ \A w \in P : w.open <= Original[w.installment] /\ w.amount > 0
  BY <1>5
<1>9. QED
  <2> HIDE DEF P
  <2>1. QED
    BY <1>1, <1>4, <1>7, <1>8, PlanTyped

LEMMA LockingTyped ==
    ASSUME TitleTyped, NEW t \in Transactions,
           LockInstallment(t) \/ LockTitle(t) \/ CheckIntegral(t)
    PROVE  TitleTyped'
<1>0. /\ request[t] \in RequestRows /\ Asked(request[t]) /\ Bounded(request[t])
      /\ ReadSoFar(step[t], request[t])
      /\ request = [request EXCEPT ![t] = request[t]] /\ step = [step EXCEPT ![t] = step[t]]
  BY DEF TitleTyped, RequestsTyped
<1>1. CASE LockInstallment(t)
  <2>1. PICK i \in request[t].picked \ request[t].locked :
          /\ Take(t, i)
          /\ request' = [request EXCEPT ![t].locked = @ \cup {i},
               ![t].plan = @ \cup {PlanRow(i, 0, "BAIXA", open[i], Nothing)}]
    BY <1>1 DEF LockInstallment, LockedForIntegral
  <2>2. i \in Parcels /\ open[i] \in Nat
    BY <1>0, <2>1 DEF RequestRows, TitleTyped
  <2> DEFINE w == PlanRow(i, 0, "BAIXA", open[i], Nothing)
  <2>3. w \in PlanRows /\ w.open = 0 /\ w.installment = i
    <3>1. "BAIXA" \in SettlementKinds /\ Nothing \in Transactions \cup {NoTx, Nothing}
      BY DEF SettlementKinds
    <3>2. ASSUME NEW a \in Nat
          PROVE  /\ PlanRow(i, 0, "BAIXA", a, Nothing) \in PlanRows
                 /\ PlanRow(i, 0, "BAIXA", a, Nothing).open = 0
                 /\ PlanRow(i, 0, "BAIXA", a, Nothing).installment = i
      <4>1. 0 \in Nat /\ i \in Parcels /\ a \in Nat
        BY <2>2
      <4>2. QED
        BY <3>1, <4>1 DEF PlanRow, PlanRows
    <3>3. QED
      BY <2>2, <3>2
  <2> DEFINE q == [request[t] EXCEPT !.locked = @ \cup {i}, !.plan = @ \cup {w}]
  <2>4. request' = [request EXCEPT ![t] = q]
    BY <2>1
  <2>5. step[t] = "lock" /\ step' = [step EXCEPT ![t] = "lock"] /\ Pending /\ "lock" \in Steps
    BY <1>0, <1>1 DEF LockInstallment, AtStep, Steps
  <2> HIDE DEF w
  <2>6. q \in RequestRows
    BY <1>0, <2>2, <2>3 DEF RequestRows
  <2>7. /\ q.kind = request[t].kind /\ q.installment = request[t].installment
        /\ q.amount = request[t].amount /\ q.seen = request[t].seen
        /\ q.plan = request[t].plan \cup {w}
        /\ q.settlements = request[t].settlements /\ q.open = request[t].open
        /\ q.target = request[t].target
    BY <1>0 DEF RequestRows
  <2> HIDE DEF q
  <2>8. IsFiniteSet(q.plan)
    BY <1>0, <2>7, FS_AddElement DEF Bounded
  <2>9. Asked(q) /\ Bounded(q) /\ ReadSoFar("lock", q)
    BY <1>0, <2>2, <2>3, <2>5, <2>7, <2>8, OriginalTyped DEF Asked, Bounded, ReadSoFar
  <2>10. QED
    BY <2>1, <2>4, <2>5, <2>6, <2>9, TypedStep, TakeTyped
<1>2. CASE LockTitle(t)
  <2>1. /\ step[t] = "lock" /\ step' = [step EXCEPT ![t] = "check"] /\ Pending
        /\ "check" \in Steps /\ request' = [request EXCEPT ![t] = request[t]] /\ Take(t, Title)
    BY <1>0, <1>2 DEF LockTitle, AtStep, GoTo, Steps
  <2>2. ReadSoFar("check", request[t])
    BY <1>0, <2>1 DEF ReadSoFar
  <2>3. QED
    BY <1>0, <2>1, <2>2, TypedStep, TakeTyped
<1>3. CASE CheckIntegral(t)
  <2>1. /\ request[t].kind = "settleIntegral" /\ step' = [step EXCEPT ![t] = "write"]
        /\ Pending /\ UNCHANGED lock
        /\ "write" \in Steps /\ request' = [request EXCEPT ![t] = request[t]]
        /\ \A w \in request[t].plan : w.amount > 0
    BY <1>0, <1>3 DEF CheckIntegral, GoTo, Steps
  <2>2. ReadSoFar("write", request[t])
    BY <1>0, <2>1 DEF ReadSoFar
  <2>3. QED
    BY <1>0, <2>1, <2>2, TypedStep, TakeTyped
<1>4. QED
  BY <1>1, <1>2, <1>3

\* The next row to write: one of the plan, the earliest of its installments.
NextRow(t) == CHOOSE x \in request[t].plan :
                  \A y \in request[t].plan : x.installment <= y.installment
RowSettlement(t, w) ==
    [kind |-> w.kind, installment |-> w.installment, amount |-> w.amount, by |-> t,
     reverses |-> w.reverses]
AfterWrite(t, w) ==
    [request[t] EXCEPT !.plan = @ \ {w}, !.open[w.installment] = w.open,
                       !.settlements = @ \cup {RowSettlement(t, w)}]

LEMMA WriteFacts ==
    ASSUME TitleTyped, NEW t \in Transactions, WriteInstallment(t)
    PROVE  \E w \in request[t].plan :
               /\ w \in PlanRows /\ w.open <= Original[w.installment] /\ w.amount > 0
               /\ step[t] = "write" /\ step' = [step EXCEPT ![t] = "write"]
               /\ Take(t, w.installment) /\ Pending
               /\ request' = [request EXCEPT ![t] = AfterWrite(t, w)]
<1>0. /\ request[t] \in RequestRows /\ Bounded(request[t]) /\ step[t] = "write"
      /\ ReadSoFar(step[t], request[t]) /\ step = [step EXCEPT ![t] = step[t]]
      /\ request[t].plan # {} /\ request[t].plan \in SUBSET PlanRows
  BY DEF TitleTyped, RequestsTyped, WriteInstallment, AtStep, RequestRows
<1> DEFINE w == NextRow(t)
           Q == {x.installment : x \in request[t].plan}
<1>1. Q # {} /\ Q \in SUBSET Nat
  BY <1>0, ParcelsFinite DEF PlanRows
<1>2. PICK n \in Q : \A m \in Q : n <= m
  <2> HIDE DEF Q
  <2>1. QED
    BY <1>1, LeastNumber
<1>3. \E x \in request[t].plan : \A y \in request[t].plan : x.installment <= y.installment
  BY <1>2
<1>4. w \in request[t].plan
  BY <1>3 DEF NextRow
<1>5. /\ Take(t, w.installment) /\ Pending /\ UNCHANGED step
      /\ request' = [request EXCEPT ![t].plan = @ \ {w},
                               ![t].open[w.installment] = w.open,
                               ![t].settlements = @ \cup {RowSettlement(t, w)}]
  BY DEF WriteInstallment, NextRow, RowSettlement
<1> HIDE DEF w
<1>6. request' = [request EXCEPT ![t] = AfterWrite(t, w)]
  <2>1. request = [u \in Transactions |-> request[u]]
    BY DEF TitleTyped, RequestsTyped
  <2>2. QED
    BY <1>5, <2>1 DEF AfterWrite
<1>7. QED
  BY <1>0, <1>4, <1>5, <1>6 DEF Bounded, ReadSoFar

LEMMA AfterWriteTyped ==
    ASSUME NEW t \in Transactions, request[t] \in RequestRows, NEW w \in PlanRows,
           w.amount > 0
    PROVE  /\ AfterWrite(t, w) \in RequestRows
           /\ AfterWrite(t, w).kind = request[t].kind
           /\ AfterWrite(t, w).installment = request[t].installment
           /\ AfterWrite(t, w).amount = request[t].amount
           /\ AfterWrite(t, w).picked = request[t].picked
           /\ AfterWrite(t, w).target = request[t].target
           /\ AfterWrite(t, w).locked = request[t].locked
           /\ AfterWrite(t, w).seen = request[t].seen
           /\ AfterWrite(t, w).plan = request[t].plan \ {w}
           /\ AfterWrite(t, w).open = [request[t].open EXCEPT ![w.installment] = w.open]
           /\ AfterWrite(t, w).status = request[t].status
           /\ AfterWrite(t, w).credit = request[t].credit
           /\ AfterWrite(t, w).title = request[t].title
           /\ AfterWrite(t, w).settlements
                  = request[t].settlements \cup {RowSettlement(t, w)}
           /\ RowSettlement(t, w) \in SettlementRows
<1>1. RowSettlement(t, w) \in SettlementRows
  BY DEF RowSettlement, SettlementRows, PlanRows
<1>2. w.installment \in Parcels /\ w.open \in Nat
  BY DEF PlanRows
<1>3. QED
  BY <1>1, <1>2 DEF AfterWrite, RequestRows

LEMMA WriteTyped ==
    ASSUME TitleTyped, NEW t \in Transactions, WriteInstallment(t)
    PROVE  TitleTyped'
<1>0. /\ request[t] \in RequestRows /\ Asked(request[t]) /\ Bounded(request[t])
      /\ ReadSoFar(step[t], request[t])
  BY DEF TitleTyped, RequestsTyped
<1>1. PICK w \in request[t].plan :
         /\ w \in PlanRows /\ w.open <= Original[w.installment] /\ w.amount > 0
         /\ step[t] = "write" /\ step' = [step EXCEPT ![t] = "write"]
         /\ Take(t, w.installment) /\ Pending
         /\ request' = [request EXCEPT ![t] = AfterWrite(t, w)]
  BY WriteFacts
<1> DEFINE q == AfterWrite(t, w)
<1>2. /\ q \in RequestRows /\ q.kind = request[t].kind
      /\ q.installment = request[t].installment /\ q.amount = request[t].amount
      /\ q.seen = request[t].seen /\ q.plan = request[t].plan \ {w}
      /\ q.settlements = request[t].settlements \cup {RowSettlement(t, w)}
      /\ q.open = [request[t].open EXCEPT ![w.installment] = w.open]
      /\ q.target = request[t].target
  BY <1>0, <1>1, AfterWriteTyped
<1>3. w.installment \in Parcels /\ w.open \in Nat /\ request[t].open \in [Parcels -> Nat \cup {Nothing}]
  BY <1>0, <1>1 DEF PlanRows, RequestRows
<1>4. "write" \in Steps
  BY DEF Steps
<1> HIDE DEF q
<1>5. IsFiniteSet(q.plan) /\ IsFiniteSet(q.settlements)
  BY <1>0, <1>2, FS_AddElement, FS_Subset DEF Bounded
<1>6. Bounded(q)
  BY <1>0, <1>1, <1>2, <1>3, <1>5 DEF Bounded
<1>7. Asked(q) /\ ReadSoFar("write", q)
  BY <1>0, <1>1, <1>2 DEF Asked, ReadSoFar
<1>8. QED
  BY <1>1, <1>2, <1>4, <1>6, <1>7, TypedStep, TakeTyped DEF q

\* The other columns of the request keep what the type needs.
SameAsked(q, r) ==
    /\ q.kind = r.kind /\ q.installment = r.installment /\ q.amount = r.amount
    /\ q.target = r.target /\ q.seen = r.seen /\ q.plan = r.plan
    /\ q.settlements = r.settlements /\ q.open = r.open

LEMMA LaterStepTyped ==
    ASSUME TitleTyped, NEW t \in Transactions, NEW q \in RequestRows,
           NEW s \in {"statuses", "title", "credit", "commit"},
           SameAsked(q, request[t]),
           step[t] \in {"write", "statuses", "title", "credit"},
           s \in {"credit", "commit"} => q.title # {},
           s = "credit" => q.kind = "applyCredit",
           request' = [request EXCEPT ![t] = q], GoTo(t, s),
           Pending, lock' \in [LockRows -> Transactions \cup {NoTx}]
    PROVE  TitleTyped'
<1>1. /\ Asked(request[t]) /\ Bounded(request[t]) /\ ReadSoFar(step[t], request[t])
      /\ step' = [step EXCEPT ![t] = s] /\ s \in Steps
  BY DEF TitleTyped, RequestsTyped, GoTo, Steps
<1>2. Asked(q) /\ Bounded(q)
  BY <1>1 DEF SameAsked, Asked, Bounded
<1>3. ReadSoFar(s, q)
  BY <1>1 DEF SameAsked, ReadSoFar
<1>4. QED
  BY <1>1, <1>2, <1>3, TypedStep

LEMMA RefreshTyped ==
    ASSUME TitleTyped, NEW t \in Transactions,
           ReadOpens(t) \/ WriteStatuses(t) \/ WriteTitle(t) \/ WriteCredit(t)
    PROVE  TitleTyped'
<1>0. request[t] \in RequestRows /\ Pending
  BY DEF TitleTyped, RequestsTyped, ReadOpens, WriteStatuses, WriteTitle, WriteCredit
<1>1. CASE ReadOpens(t)
  <2> DEFINE total == SumFunctionOnSet(OpensSeen(t), Parcels)
             changed == {<< i, InstallmentStatus(i, OpenSeen(t, i)) >> :
                          i \in {j \in Parcels :
                                   InstallmentStatus(j, OpenSeen(t, j))
                                       # StatusSeen(t, j)}}
             q == [request[t] EXCEPT !.total = total, !.changed = changed]
  <2>1. total \in 0 .. TitleOriginal
    BY Opens, ParcelSums
  <2>2. changed \in SUBSET (Parcels \X InstallmentStatuses)
    BY StatusesTyped
  <2>3. /\ step[t] = "write" /\ GoTo(t, "statuses") /\ UNCHANGED lock
        /\ request' = [request EXCEPT ![t].total = total, ![t].changed = changed]
    BY <1>1 DEF ReadOpens, AtStep
  <2> HIDE DEF total, changed
  <2>4. request' = [request EXCEPT ![t] = q]
    BY <2>3
  <2>5. q \in RequestRows /\ SameAsked(q, request[t])
    BY <1>0, <2>1, <2>2 DEF RequestRows, SameAsked
  <2> HIDE DEF q
  <2>6. QED
    BY <1>0, <2>3, <2>4, <2>5, LaterStepTyped, TakeTyped
<1>2. CASE WriteStatuses(t)
  <2> DEFINE c(i) == CHOOSE x \in request[t].changed : x[1] = i
             f == [i \in Parcels |-> IF \E x \in request[t].changed : x[1] = i
                                     THEN (CHOOSE x \in request[t].changed : x[1] = i)[2]
                                     ELSE Nothing]
             q == [request[t] EXCEPT !.status = f]
  <2>1. request[t].changed \in SUBSET (Parcels \X InstallmentStatuses)
    BY <1>0 DEF RequestRows
  <2>2. f \in [Parcels -> InstallmentStatuses \cup {Nothing}]
    BY <2>1
  <2>3. /\ step[t] = "statuses" /\ GoTo(t, "title")
        /\ request' = [request EXCEPT ![t]["status"] = f]
        /\ lock' = [r \in LockRows |->
                      IF \E x \in request[t].changed : x[1] = r THEN t ELSE lock[r]]
    BY <1>2 DEF WriteStatuses, AtStep, Keep
  <2> HIDE DEF f
  <2>4. request' = [request EXCEPT ![t] = q]
    BY <2>3
  <2>5. q \in RequestRows /\ SameAsked(q, request[t])
    BY <1>0, <2>2 DEF RequestRows, SameAsked
  <2>6. lock' \in [LockRows -> Transactions \cup {NoTx}]
    BY <2>3 DEF TitleTyped, TitleTypeOK
  <2> HIDE DEF q
  <2>7. QED
    BY <1>0, <2>3, <2>4, <2>5, <2>6, LaterStepTyped
<1>3. CASE WriteTitle(t)
  <2> DEFINE q == [request[t] EXCEPT !.title = {Refreshed(request[t].total)}]
             s == IF request[t].kind = "applyCredit" THEN "credit" ELSE "commit"
  <2>1. /\ step[t] = "title" /\ GoTo(t, s) /\ Take(t, Title)
        /\ request' = [request EXCEPT ![t] = q]
    BY <1>3 DEF WriteTitle, AtStep, Keep
  <2>2. Refreshed(request[t].total) \in TitleRows
    BY <1>0, StatusesTyped DEF Refreshed, TitleRows, RequestRows
  <2>3. q \in RequestRows /\ SameAsked(q, request[t]) /\ q.title # {}
    BY <1>0, <2>2 DEF RequestRows, SameAsked
  <2>4. s \in {"credit", "commit"} /\ (s = "credit" => q.kind = "applyCredit")
    BY <1>0 DEF RequestRows
  <2> HIDE DEF q, s
  <2>5. QED
    BY <1>0, <2>1, <2>3, <2>4, LaterStepTyped, TakeTyped
<1>4. CASE WriteCredit(t)
  <2> DEFINE v == request[t].seen - request[t].amount
             q == [request[t] EXCEPT !.credit = v]
  <2>1. /\ step[t] = "credit" /\ GoTo(t, "commit") /\ Take(t, Credit)
        /\ request' = [request EXCEPT ![t] = q]
    BY <1>4 DEF WriteCredit, AtStep, Keep
  <2>2. /\ ReadSoFar("credit", request[t]) /\ request[t].seen \in Nat
        /\ request[t].amount \in Nat
    BY <1>0, <2>1 DEF TitleTyped, RequestsTyped, RequestRows
  <2>3. request[t].kind = "applyCredit"
    BY <2>2 DEF ReadSoFar
  <2>4. v \in 0 .. CreditTotal
    BY <2>2, <2>3, ReceivablesAssumption DEF ReadSoFar
  <2> HIDE DEF v
  <2>5. q \in RequestRows /\ SameAsked(q, request[t]) /\ q.title = request[t].title
    BY <1>0, <2>4 DEF RequestRows, SameAsked
  <2>6. q.title # {}
    BY <2>2, <2>5 DEF ReadSoFar
  <2> HIDE DEF q
  <2>7. QED
    BY <1>0, <2>1, <2>5, <2>6, LaterStepTyped, TakeTyped
<1>5. QED
  BY <1>1, <1>2, <1>3, <1>4

LEMMA AbortTyped ==
    ASSUME TitleTyped, NEW t \in Transactions, Abort(t)
    PROVE  TitleTyped'
<1>1. /\ request' = [request EXCEPT ![t] = NoRequest] /\ step' = [step EXCEPT ![t] = "done"]
      /\ Pending /\ lock' = Freed(t) /\ "done" \in Steps
  BY DEF Abort, GoTo, Steps
<1>2. ReadSoFar("done", NoRequest)
  BY NoRequestTyped DEF ReadSoFar
<1>3. QED
  BY <1>1, <1>2, NoRequestTyped, TypedStep, TakeTyped

LEMMA CommitFacts ==
    ASSUME TitleTyped, NEW t \in Transactions, Commit(t)
    PROVE  /\ step[t] = "commit"
           /\ open' = OpensSeen(t)
           /\ status' = [i \in Parcels |-> StatusSeen(t, i)]
           /\ titleRow' \in request[t].title
           /\ credit' = IF request[t].credit = Nothing THEN credit ELSE request[t].credit
           /\ settlements' = settlements \cup request[t].settlements
           /\ lock' = Freed(t)
           /\ request' = [request EXCEPT ![t] = NoRequest]
           /\ step' = [step EXCEPT ![t] = "done"]
           /\ overlapped' = (overlapped \/ \E u \in Transactions \ {t} :
                  /\ InProgress(u)
                  /\ {request[t].kind, request[u].kind} # {"settleIntegral"})
<1>1. step[t] = "commit" /\ ReadSoFar(step[t], request[t])
  BY DEF TitleTyped, RequestsTyped, Commit, AtStep
<1>2. titleRow' \in request[t].title
  BY <1>1 DEF ReadSoFar, Commit
<1>3. QED
  BY <1>1, <1>2 DEF Commit, GoTo

LEMMA CommitTyped ==
    ASSUME TitleTyped, NEW t \in Transactions, Commit(t)
    PROVE  TitleTyped'
<1>0. request[t] \in RequestRows /\ Bounded(request[t])
  BY DEF TitleTyped, RequestsTyped
<1>1. /\ open' \in [Parcels -> Nat]
      /\ \A i \in Parcels : open'[i] \in 0 .. Original[i]
  BY CommitFacts, Opens, OriginalTyped
<1>2. status' \in [Parcels -> InstallmentStatuses]
  <2>1. ASSUME NEW i \in Parcels PROVE StatusSeen(t, i) \in InstallmentStatuses
    BY <1>0 DEF StatusSeen, RequestRows, TitleTyped, TitleTypeOK
  <2>2. QED
    BY <2>1, CommitFacts
<1>3. titleRow' \in TitleRows
  BY <1>0, CommitFacts DEF RequestRows
<1>4. credit' \in 0 .. CreditTotal
  BY <1>0, CommitFacts DEF RequestRows, TitleTyped, TitleTypeOK
<1>5. settlements' \subseteq SettlementRows /\ IsFiniteSet(settlements')
  <2>1. settlements' = settlements \cup request[t].settlements
    BY CommitFacts
  <2>2. IsFiniteSet(settlements) /\ IsFiniteSet(request[t].settlements)
    BY <1>0 DEF TitleTyped, Bounded
  <2>3. settlements \subseteq SettlementRows /\ request[t].settlements \subseteq SettlementRows
    BY <1>0 DEF RequestRows, TitleTyped, TitleTypeOK
  <2>4. IsFiniteSet(settlements \cup request[t].settlements)
    BY <2>2, FS_Union
  <2>5. QED
    BY <2>1, <2>3, <2>4
<1>6. lock' \in [LockRows -> Transactions \cup {NoTx}]
  BY CommitFacts, TakeTyped
<1>7. overlapped' \in BOOLEAN
  BY CommitFacts DEF TitleTyped
<1>8. RequestsTyped'
  <2>1. /\ step' \in [Transactions -> Steps] /\ request' \in [Transactions -> RequestRows]
    BY CommitFacts, NoRequestTyped DEF TitleTyped, RequestsTyped, Steps
  <2>2. ASSUME NEW u \in Transactions
        PROVE  Asked(request'[u]) /\ Bounded(request'[u]) /\ ReadSoFar(step'[u], request'[u])
    <3>1. CASE u = t
      <4>1. request'[u] = NoRequest /\ step'[u] = "done"
        BY <3>1, CommitFacts DEF TitleTyped, RequestsTyped
      <4>2. QED
        BY <4>1, NoRequestTyped DEF ReadSoFar
    <3>2. CASE u # t
      <4>1. request'[u] = request[u] /\ step'[u] = step[u]
        BY <3>2, CommitFacts DEF TitleTyped, RequestsTyped
      <4>2. QED
        BY <4>1 DEF TitleTyped, RequestsTyped
    <3>3. QED
      BY <3>1, <3>2
  <2>3. QED
    BY <2>1, <2>2 DEF RequestsTyped
<1>9. TitleTypeOK'
  BY <1>1, <1>2, <1>3, <1>4, <1>5, <1>6 DEF TitleTypeOK, TitleRows
<1>10. QED
  BY <1>1, <1>5, <1>7, <1>8, <1>9 DEF TitleTyped

LEMMA TitleStepTyped ==
    ASSUME TitleTyped, [TitleNext]_titleVars
    PROVE  TitleTyped'
<1>1. CASE UNCHANGED titleVars
  BY <1>1 DEF titleVars, TitleTyped, TitleTypeOK, RequestsTyped
<1>2. CASE TitleNext
  <2>1. PICK t \in Transactions :
          \/ Open(t)
          \/ ReadInstallment(t) \/ PlanSettle(t)
          \/ LockInstallment(t) \/ LockTitle(t) \/ CheckIntegral(t)
          \/ ReadSettlement(t) \/ PlanReverse(t)
          \/ ReadCredit(t) \/ PlanCredit(t)
          \/ WriteInstallment(t) \/ ReadOpens(t) \/ WriteStatuses(t)
          \/ WriteTitle(t) \/ WriteCredit(t)
          \/ Commit(t) \/ Abort(t)
    BY <1>2 DEF TitleNext
  <2>2. QED
    BY <2>1, OpenTyped, ReadsTyped, SettlePlanned, LockingTyped, ReversePlanned,
       CreditPlanned, WriteTyped, RefreshTyped, CommitTyped, AbortTyped
<1>3. QED
  BY <1>1, <1>2

FirstSettlement == [i \in SettledBefore |->
    [kind |-> "BAIXA", installment |-> i, by |-> NoTx, amount |-> Original[i],
     reverses |-> Nothing]]

LEMMA FirstSettlements ==
    ASSUME TitleInit
    PROVE  /\ settlements = {FirstSettlement[i] : i \in SettledBefore}
           /\ settlements \subseteq SettlementRows /\ IsFiniteSet(settlements)
<1>1. settlements = {FirstSettlement[i] : i \in SettledBefore}
  BY DEF TitleInit, FirstSettlement
<1>2. \A i \in SettledBefore : FirstSettlement[i] \in SettlementRows
  BY ReceivablesAssumption DEF FirstSettlement, SettlementRows, SettlementKinds
<1>3. IsFiniteSet(SettledBefore)
  BY ReceivablesAssumption, ParcelsFinite, FS_Subset
<1>4. IsFiniteSet({FirstSettlement[i] : i \in SettledBefore})
  BY <1>3, ImageFinite
<1>5. QED
  BY <1>1, <1>2, <1>4

LEMMA TitleInitTyped ==
    ASSUME TitleInit
    PROVE  TitleTyped
<1>1. /\ FirstOpen \in [Parcels -> Nat] /\ \A i \in Parcels : FirstOpen[i] \in 0 .. Original[i]
  BY OriginalTyped DEF FirstOpen
<1>2. SumFunctionOnSet(FirstOpen, Parcels) \in 0 .. TitleOriginal
  BY <1>1, OriginalTyped, ParcelSums
<1>3. titleRow \in TitleRows
  BY <1>2, StatusesTyped DEF TitleInit, Refreshed, TitleRows
<1>4. status \in [Parcels -> InstallmentStatuses]
  BY StatusesTyped DEF TitleInit
<1>5. credit \in 0 .. CreditTotal
  BY ReceivablesAssumption DEF TitleInit
<1>6. TitleTypeOK
  BY <1>1, <1>3, <1>4, <1>5, FirstSettlements DEF TitleTypeOK, TitleInit, TitleRows
<1>7. ReadSoFar("new", NoRequest)
  BY NoRequestTyped DEF ReadSoFar
<1>8. RequestsTyped
  BY <1>7, NoRequestTyped DEF TitleInit, RequestsTyped, Steps
<1>9. QED
  BY <1>1, <1>6, <1>8, FirstSettlements DEF TitleTyped, TitleInit

\* Receivables: the balances, the statuses, the title, the credit and the
\* settlements are of their types, whatever overlaps: no balance is negative or
\* above the original amount.
THEOREM TitleTypes == TitleSpec => []TitleTypeOK
<1>1. TitleInit => TitleTyped
  BY TitleInitTyped
<1>2. TitleTyped /\ [TitleNext]_titleVars => TitleTyped'
  BY TitleStepTyped
<1>3. TitleTyped => TitleTypeOK
  BY DEF TitleTyped
<1>4. QED
  BY <1>1, <1>2, <1>3, PTL DEF TitleSpec

-----------------------------------------------------------------------------
\* A request that does not step keeps what it relies on, as long as nothing
\* commits.
LEMMA OtherFresh ==
    ASSUME NEW u \in Transactions, Fresh(u), Pending,
           request'[u] = request[u], step'[u] = step[u],
           \A r \in LockRows : lock[r] = u => lock'[r] = u,
           request[u] \in RequestRows
    PROVE  Fresh(u)'
<1>0. /\ open' = open /\ status' = status /\ credit' = credit /\ settlements' = settlements
      /\ Parcels \subseteq LockRows /\ Title \in LockRows
      /\ request[u].locked \subseteq Parcels
  BY DEF Pending, LockRows, RequestRows
<1>1. OpensSeen(u)' = OpensSeen(u)
  BY <1>0 DEF OpensSeen, OpenSeen
<1>2. HoldsRows(u) => HoldsRows(u)'
  BY <1>0 DEF HoldsRows
<1>3. BeforePlan(u) => BeforePlan(u)'
  BY <1>0 DEF BeforePlan, NotReversed, Target
<1>4. PlanLeft(u) => PlanLeft(u)'
  BY <1>0 DEF PlanLeft, KindFits, Target
<1>5. Written(u) => Written(u)'
  <2>1. /\ AmountsOf(request[u].plan)' = AmountsOf(request[u].plan)
        /\ AmountsOf(request[u].settlements)' = AmountsOf(request[u].settlements)
    BY DEF AmountsOf
  <2>2. QED
    BY <1>0, <2>1 DEF Written, KindFits, NotReversed, Target
<1>6. Refreshing(u) => Refreshing(u)'
  <2>1. StatusesToChange(u)' = StatusesToChange(u)
    BY <1>0 DEF StatusesToChange, OpenSeen, InstallmentStatus
  <2>2. \A i \in Parcels : /\ StatusSeen(u, i)' = StatusSeen(u, i)
                           /\ InstallmentStatus(i, OpenSeen(u, i))'
                                  = InstallmentStatus(i, OpenSeen(u, i))
    BY <1>0 DEF StatusSeen, OpenSeen, InstallmentStatus
  <2>3. Refreshed(request[u].total)' = Refreshed(request[u].total)
    BY DEF Refreshed, TitleStatus
  <2>4. QED
    BY <1>1, <2>1, <2>2, <2>3 DEF Refreshing
<1>7. QED
  BY <1>0, <1>2, <1>3, <1>4, <1>5, <1>6 DEF Fresh, InProgress

LEMMA PendingAgreed ==
    ASSUME Agreed, Pending
    PROVE  Agreed'
<1>0. /\ open' = open /\ status' = status /\ credit' = credit /\ settlements' = settlements
      /\ titleRow' = titleRow
  BY DEF Pending
<1>1. \A i, K : Settled(i, K)' = Settled(i, K)
  BY <1>0 DEF Settled, AmountsOf
<1>2. BalancesFollowSettlements'
  BY <1>0, <1>1 DEF Agreed, BalancesFollowSettlements, Taken, InstallmentStatus
<1>3. TitleFollowsInstallments' /\ SpentCredit' = SpentCredit /\ ReversedOnce'
  BY <1>0 DEF Agreed, TitleFollowsInstallments, Refreshed, TitleStatus, SpentCredit,
              AmountsOf, ReversedOnce
<1>4. QED
  BY <1>0, <1>2, <1>3 DEF Agreed

\* A step that commits nothing only has to keep what its own request relies on.
LocksOfOthersKept(t) ==
    \A u \in Transactions \ {t} : \A r \in LockRows : lock[r] = u => lock'[r] = u

LEMMA PendingStep ==
    ASSUME TitleTyped, AgreedInv, NEW t \in Transactions, Pending,
           NEW q, NEW s, request' = [request EXCEPT ![t] = q], step' = [step EXCEPT ![t] = s],
           LocksOfOthersKept(t), (Agreed /\ Fresh(t)) => Fresh(t)'
    PROVE  AgreedInv'
<1>1. CASE overlapped
  BY <1>1 DEF AgreedInv, Pending
<1>2. CASE ~overlapped
  <2>1. Agreed /\ \A u \in Transactions : Fresh(u)
    BY <1>2 DEF AgreedInv
  <2>2. ASSUME NEW u \in Transactions \ {t} PROVE Fresh(u)'
    <3>1. /\ request'[u] = request[u] /\ step'[u] = step[u] /\ request[u] \in RequestRows
      BY DEF TitleTyped, RequestsTyped
    <3>2. \A r \in LockRows : lock[r] = u => lock'[r] = u
      BY DEF LocksOfOthersKept
    <3>3. QED
      BY <2>1, <3>1, <3>2, OtherFresh
  <2>3. QED
    BY <2>1, <2>2, PendingAgreed DEF AgreedInv
<1>3. QED
  BY <1>1, <1>2

LEMMA LocksKept ==
    ASSUME TitleTyped, NEW t \in Transactions, NEW r
    PROVE  /\ Take(t, r) => LocksOfOthersKept(t)
           /\ UNCHANGED lock => LocksOfOthersKept(t)
           /\ lock' = Freed(t) => LocksOfOthersKept(t)
BY ReceivablesAssumption
   DEF TitleTyped, TitleTypeOK, Take, MayLock, Freed, LocksOfOthersKept

LEMMA TakesLock ==
    ASSUME TitleTyped, NEW t \in Transactions, NEW r \in LockRows, Take(t, r)
    PROVE  lock'[r] = t /\ \A x \in LockRows : lock[x] = t => lock'[x] = t
BY DEF TitleTyped, TitleTypeOK, Take

LEMMA AbortKeeps ==
    ASSUME TitleTyped, AgreedInv, NEW t \in Transactions, Abort(t)
    PROVE  AgreedInv'
<1>1. /\ request' = [request EXCEPT ![t] = NoRequest] /\ step' = [step EXCEPT ![t] = "done"]
      /\ Pending /\ lock' = Freed(t)
  BY DEF Abort, GoTo
<1>2. Fresh(t)'
  BY <1>1 DEF Fresh, InProgress, TitleTyped, RequestsTyped
<1>3. QED
  BY <1>1, <1>2, PendingStep, LocksKept

\* A new request has locked, planned and written nothing.
LEMMA RequestFresh ==
    ASSUME TitleTyped, NEW t \in Transactions, NEW k, NEW i, NEW a, NEW S, NEW T,
           Request(t, k, i, a, S, T), Pending, UNCHANGED lock, step[t] = "new"
    PROVE  Fresh(t) => Fresh(t)'
<1> HAVE Fresh(t)
<1> DEFINE q == [NoRequest EXCEPT !.kind = k, !.installment = i, !.amount = a,
                                  !.picked = S, !.target = T]
           s == IF k = "settleIntegral" THEN "lock" ELSE "read"
<1>1. request'[t] = q /\ step'[t] = s
  BY DEF Request, GoTo, TitleTyped, RequestsTyped
<1>2. /\ q.kind = k /\ q.plan = {} /\ q.settlements = {} /\ q.locked = {}
      /\ \A j \in Parcels : q.open[j] = Nothing /\ q.status[j] = Nothing
      /\ q.credit = Nothing
  BY DEF NoRequest
<1> HIDE DEF q
<1>3. HoldsRows(t)'
  BY <1>1, <1>2 DEF HoldsRows
<1>4. BeforePlan(t)'
  <2>1. {PlanRow(j, 0, "BAIXA", open'[j], Nothing) : j \in {}} = {}
    OBVIOUS
  <2>2. QED
    BY <1>1, <1>2, <2>1 DEF BeforePlan
<1>5. Refreshing(t)'
  BY <1>1, <1>2 DEF Refreshing
<1>6. \A x \in settlements' : x.by # t
  BY DEF Fresh, Pending
<1>7. QED
  BY <1>1, <1>3, <1>4, <1>5, <1>6 DEF Fresh

LEMMA OpenKeeps ==
    ASSUME TitleTyped, AgreedInv, NEW t \in Transactions, Open(t)
    PROVE  AgreedInv'
<1>0. Pending /\ UNCHANGED lock /\ step[t] = "new" /\ LocksOfOthersKept(t)
  BY LocksKept DEF Open, AtStep
<1>1. ASSUME NEW k, NEW i, NEW a, NEW S, NEW T, Request(t, k, i, a, S, T)
      PROVE  AgreedInv'
  <2>1. \E q, s : request' = [request EXCEPT ![t] = q] /\ step' = [step EXCEPT ![t] = s]
    BY <1>1 DEF Request, GoTo
  <2>2. Fresh(t) => Fresh(t)'
    BY <1>0, <1>1, RequestFresh
  <2>3. QED
    BY <1>0, <2>1, <2>2, PendingStep
<1>2. QED
  BY <1>1 DEF Open

\* The columns a step leaves alone.
SameQuestion(q, r) ==
    /\ q.kind = r.kind /\ q.installment = r.installment /\ q.amount = r.amount
    /\ q.target = r.target /\ q.locked = r.locked
SameWrites(q, r) ==
    /\ q.open = r.open /\ q.settlements = r.settlements
    /\ q.status = r.status /\ q.credit = r.credit

LEMMA ReadsKeep ==
    ASSUME TitleTyped, AgreedInv, NEW t \in Transactions,
           ReadInstallment(t) \/ ReadSettlement(t) \/ ReadCredit(t)
    PROVE  AgreedInv'
<1>0. /\ request[t] \in RequestRows /\ ReadSoFar(step[t], request[t])
      /\ Pending /\ UNCHANGED lock /\ step[t] = "read"
      /\ step' = [step EXCEPT ![t] = "check"] /\ step'[t] = "check"
      /\ LocksOfOthersKept(t)
  BY LocksKept DEF TitleTyped, RequestsTyped, ReadInstallment, ReadSettlement, ReadCredit,
                   GoTo, AtStep
<1>1. PICK v : /\ request' = [request EXCEPT ![t] = [request[t] EXCEPT !.seen = v]]
               /\ request[t].kind = "settle" => v = open[request[t].installment]
               /\ request[t].kind = "reverse" => NotReversed(Target(t))
               /\ request[t].kind = "applyCredit" => v = credit
  <2>1. CASE ReadInstallment(t)
    BY <2>1 DEF ReadInstallment, Keep
  <2>2. CASE ReadCredit(t)
    BY <2>2 DEF ReadCredit, Keep
  <2>3. CASE ReadSettlement(t)
    <3>1. request' = [request EXCEPT ![t] = [request[t] EXCEPT !.seen = request[t].seen]]
      BY <1>0, <2>3 DEF ReadSettlement, TitleTyped, RequestsTyped, RequestRows
    <3>2. QED
      BY <2>3, <3>1 DEF ReadSettlement
  <2>4. QED
    BY <2>1, <2>2, <2>3
<1> DEFINE q == [request[t] EXCEPT !.seen = v]
<1>2. request'[t] = q
  BY <1>1 DEF TitleTyped, RequestsTyped
<1>3. SameQuestion(q, request[t]) /\ SameWrites(q, request[t]) /\ q.plan = request[t].plan
      /\ q.seen = v
  BY <1>0 DEF RequestRows, SameQuestion, SameWrites
<1>4. ASSUME Fresh(t) PROVE Fresh(t)'
  <2> HIDE DEF q
  <2>1. HoldsRows(t) /\ BeforePlan(t) /\ Refreshing(t)
    BY <1>0, <1>4 DEF Fresh, InProgress
  <2>2. request[t].kind # "settleIntegral"
    BY <1>0 DEF ReadSoFar
  <2>3. HoldsRows(t)'
    BY <1>0, <1>2, <1>3, <2>1 DEF HoldsRows, SameQuestion, SameWrites
  <2>4. NotReversed(Target(t)) => NotReversed(Target(t))'
    BY <1>0, <1>2, <1>3 DEF NotReversed, Target, SameQuestion, Pending
  <2>5. BeforePlan(t)'
    BY <1>0, <1>1, <1>2, <1>3, <2>1, <2>2, <2>4
       DEF BeforePlan, SameQuestion, SameWrites, Pending
  <2>6. Refreshing(t)'
    BY <1>0, <1>2, <1>3, <2>1 DEF Refreshing, SameWrites
  <2>7. QED
    BY <1>0, <1>4, <2>3, <2>5, <2>6 DEF Fresh, Pending
<1> HIDE DEF q
<1>5. QED
  BY <1>0, <1>1, <1>4, PendingStep DEF q

\* The rows of a plan made of the balances as they are.
FollowsBalances(t, P) ==
    /\ \A w \in P : /\ KindFits(t, w) /\ w.installment \in Parcels
                    /\ w.open = open[w.installment] - Movement(w.kind, w.amount)
                    /\ \A x \in P : x.installment = w.installment => x = w
    /\ request[t].kind = "applyCredit" => AmountsOf(P) = request[t].amount

LEMMA PlanFresh ==
    ASSUME TitleTyped, AgreedInv, NEW t \in Transactions, NEW P,
           request' = [request EXCEPT ![t] = [request[t] EXCEPT !.plan = P]],
           step[t] = "check", step' = [step EXCEPT ![t] = "write"], Pending, UNCHANGED lock,
           Fresh(t) => FollowsBalances(t, P)
    PROVE  AgreedInv'
<1> DEFINE q == [request[t] EXCEPT !.plan = P]
<1>0. request[t] \in RequestRows /\ step'[t] = "write" /\ request'[t] = q
  BY DEF TitleTyped, RequestsTyped
<1>1. SameQuestion(q, request[t]) /\ SameWrites(q, request[t]) /\ q.plan = P
      /\ q.seen = request[t].seen
  BY <1>0 DEF RequestRows, SameQuestion, SameWrites
<1> HIDE DEF q
<1>2. ASSUME Fresh(t) PROVE Fresh(t)'
  <2>1. HoldsRows(t) /\ BeforePlan(t) /\ Refreshing(t)
    BY <1>2 DEF Fresh, InProgress
  <2>2. HoldsRows(t)'
    BY <1>0, <1>1, <2>1 DEF HoldsRows, SameQuestion, SameWrites
  <2>3. BeforePlan(t)'
    BY <1>0 DEF BeforePlan
  <2>4. Refreshing(t)'
    BY <1>0, <1>1, <2>1 DEF Refreshing, SameWrites, SameQuestion
  <2>5. /\ q.settlements = {} /\ \A i \in Parcels : q.open[i] = Nothing
        /\ request[t].kind = "reverse" => NotReversed(Target(t))
        /\ request[t].kind = "applyCredit" => request[t].seen = credit
    BY <1>1, <2>1 DEF BeforePlan, SameWrites
  <2>6. PlanLeft(t)'
    <3>1. \A w : KindFits(t, w)' = KindFits(t, w)
      BY <1>0, <1>1 DEF KindFits, Target, SameQuestion
    <3>2. QED
      BY <1>0, <1>1, <1>2, <2>5, <3>1 DEF PlanLeft, Pending, FollowsBalances
  <2>7. Written(t)'
    <3>1. NotReversed(Target(t)) => NotReversed(Target(t))'
      BY <1>0, <1>1 DEF NotReversed, Target, SameQuestion, Pending
    <3>2. AmountsOf({}) = 0
      BY SumOfNothing DEF AmountsOf
    <3>3. /\ AmountsOf(request[t].plan)' = AmountsOf(P)
          /\ AmountsOf(request[t].settlements)' = AmountsOf({})
      BY <1>0, <1>1, <2>5 DEF AmountsOf
    <3>4. request[t].amount \in Nat
      BY <1>0 DEF RequestRows
    <3>5. request[t].kind = "applyCredit" =>
              AmountsOf(request[t].plan)' + AmountsOf(request[t].settlements)'
                  = request[t].amount
      BY <1>2, <3>2, <3>3, <3>4 DEF FollowsBalances
    <3>6. QED
      BY <1>0, <1>1, <2>5, <3>1, <3>5 DEF Written, SameQuestion, Pending
  <2>8. QED
    BY <1>0, <1>2, <2>2, <2>3, <2>4, <2>6, <2>7 DEF Fresh, Pending
<1>3. QED
  BY <1>2, LocksKept, PendingStep

LEMMA SettleKeeps ==
    ASSUME TitleTyped, AgreedInv, NEW t \in Transactions, PlanSettle(t)
    PROVE  AgreedInv'
<1> DEFINE i == request[t].installment
           a == request[t].amount
           w == PlanRow(i, request[t].seen - a, "BAIXA", a, Nothing)
<1>0. /\ request[t] \in RequestRows /\ request[t].kind = "settle" /\ i \in Parcels
      /\ step[t] = "check" /\ step' = [step EXCEPT ![t] = "write"] /\ Pending
      /\ UNCHANGED lock
      /\ request' = [request EXCEPT ![t] = [request[t] EXCEPT !.plan = {w}]]
  BY DEF TitleTyped, RequestsTyped, Asked, PlanSettle, GoTo, AtStep, Keep
<1>1. w.installment = i /\ w.open = request[t].seen - a /\ w.kind = "BAIXA" /\ w.amount = a
  BY DEF PlanRow
<1>2. ASSUME Fresh(t) PROVE FollowsBalances(t, {w})
  <2>1. request[t].seen = open[i]
    BY <1>0, <1>2 DEF Fresh, InProgress, BeforePlan
  <2>2. KindFits(t, w) /\ Movement(w.kind, w.amount) = a
    BY <1>0, <1>1 DEF KindFits, Movement
  <2>3. QED
    BY <1>0, <1>1, <2>1, <2>2 DEF FollowsBalances
<1> HIDE DEF w
<1>3. QED
  BY <1>0, <1>2, PlanFresh

LEMMA ReverseKeeps ==
    ASSUME TitleTyped, AgreedInv, NEW t \in Transactions, PlanReverse(t)
    PROVE  AgreedInv'
<1> DEFINE s == Target(t)
           w == PlanRow(s.installment, open[s.installment] + s.amount, "ESTORNO",
                        s.amount, s.by)
<1>0. /\ request[t].kind = "reverse" /\ step[t] = "check"
      /\ step' = [step EXCEPT ![t] = "write"] /\ Pending /\ UNCHANGED lock
      /\ request' = [request EXCEPT ![t] = [request[t] EXCEPT !.plan = {w}]]
  BY DEF PlanReverse, GoTo, AtStep, Keep
<1>1. /\ w.installment = s.installment /\ w.open = open[s.installment] + s.amount
      /\ w.kind = "ESTORNO" /\ w.amount = s.amount /\ w.reverses = s.by
  BY DEF PlanRow
<1>2. s.installment \in Parcels /\ s.amount \in Nat /\ open[s.installment] \in Nat
  BY <1>0, TargetIsSettlement DEF SettlementRows, TitleTyped
<1>3. FollowsBalances(t, {w})
  <2>1. KindFits(t, w)
    BY <1>0, <1>1 DEF KindFits
  <2> HIDE DEF s
  <2>2. w.open = open[w.installment] - Movement(w.kind, w.amount)
    BY <1>1, <1>2 DEF Movement
  <2>3. QED
    BY <1>0, <1>1, <1>2, <2>1, <2>2 DEF FollowsBalances
<1> HIDE DEF w
<1>4. QED
  BY <1>0, <1>3, PlanFresh

LEMMA CreditKeeps ==
    ASSUME TitleTyped, AgreedInv, NEW t \in Transactions, PlanCredit(t)
    PROVE  AgreedInv'
<1> DEFINE share == [i \in Parcels |-> ShareOf(i, request[t].amount)]
           J == {j \in Parcels : share[j] > 0}
           row == [i \in J |-> PlanRow(i, open[i] - share[i], "ABATIMENTO_CREDITO",
                                       share[i], Nothing)]
           P == {row[i] : i \in J}
           amounts == [w \in P |-> w.amount]
<1>0. /\ request[t].kind = "applyCredit" /\ step[t] = "check"
      /\ step' = [step EXCEPT ![t] = "write"] /\ Pending /\ UNCHANGED lock
      /\ SumFunctionOnSet(share, Parcels) = request[t].amount
      /\ request' = [request EXCEPT ![t]["plan"] =
            {PlanRow(i, open[i] - share[i], "ABATIMENTO_CREDITO", share[i], Nothing) :
               i \in J}]
  BY DEF PlanCredit, GoTo, AtStep, Keep
<1>1. \A i \in Parcels : share[i] \in 0 .. open[i] /\ open[i] \in Nat
  BY ShareOfTyped DEF TitleTyped, RequestsTyped, RequestRows
<1> HIDE DEF share
<1>2. P = {PlanRow(i, open[i] - share[i], "ABATIMENTO_CREDITO", share[i], Nothing) :
             i \in J}
  OBVIOUS
<1>3. \A i \in J : /\ i \in Parcels /\ row[i].installment = i
                   /\ row[i].open = open[i] - share[i]
                   /\ row[i].kind = "ABATIMENTO_CREDITO" /\ row[i].amount = share[i]
  BY DEF PlanRow
<1>4. IsFiniteSet(J) /\ J \subseteq Parcels
  BY ParcelsFinite, FS_Subset
<1>5. SumFunctionOnSet(share, J) = SumFunctionOnSet(share, Parcels)
  <2>1. /\ J \cap (Parcels \ J) = {} /\ J \cup (Parcels \ J) = Parcels
        /\ IsFiniteSet(Parcels \ J)
    BY <1>4, ParcelsFinite, FS_Subset
  <2>2. \A i \in Parcels : share[i] \in Int
    BY <1>1
  <2>3. \A i \in Parcels \ J : share[i] = 0
    BY <1>1
  <2> HIDE DEF J
  <2>4. SumFunctionOnSet(share, Parcels)
          = SumFunctionOnSet(share, J) + SumFunctionOnSet(share, Parcels \ J)
    BY <1>4, <2>1, <2>2, SumOfUnion
  <2>5. SumFunctionOnSet(share, Parcels \ J) = 0
    BY <2>1, <2>3, SumOfZeros
  <2>6. SumFunctionOnSet(share, J) \in Int
    BY <1>4, <2>2, SumIsInt
  <2>7. QED
    BY <2>4, <2>5, <2>6
<1>6. AmountsOf(P) = SumFunctionOnSet(share, J)
  <2>1. \A x, y \in J : row[x] = row[y] => x = y
    BY <1>3
  <2>2. ASSUME NEW x \in J PROVE share[x] = amounts[row[x]] /\ share[x] \in Int
    <3>1. row[x] \in P
      OBVIOUS
    <3>2. amounts[row[x]] = row[x].amount
      BY <3>1
    <3> HIDE DEF row, amounts, J
    <3>3. x \in Parcels /\ row[x].amount = share[x]
      BY <1>3
    <3>4. QED
      BY <1>1, <3>2, <3>3
  <2>3. AmountsOf(P) = SumFunctionOnSet(amounts, P)
    BY DEF AmountsOf
  <2> HIDE DEF J, row, amounts
  <2>4. SumFunctionOnSet(amounts, P) = SumFunctionOnSet(share, J)
    BY <1>4, <2>1, <2>2, SumOfImage
  <2>5. QED
    BY <2>3, <2>4
<1>7. FollowsBalances(t, P)
  <2>1. ASSUME NEW w \in P
        PROVE  /\ KindFits(t, w) /\ w.installment \in Parcels
               /\ w.open = open[w.installment] - Movement(w.kind, w.amount)
               /\ \A x \in P : x.installment = w.installment => x = w
    <3>1. PICK i \in J : w = row[i]
      OBVIOUS
    <3> HIDE DEF J, row
    <3>2. /\ i \in Parcels /\ w.installment = i /\ w.open = open[i] - share[i]
          /\ w.kind = "ABATIMENTO_CREDITO" /\ w.amount = share[i]
      BY <1>3, <3>1
    <3>3. \A x \in P : x.installment = w.installment => x = w
      BY <1>3, <3>1, <3>2
    <3>4. QED
      BY <1>0, <3>2, <3>3 DEF KindFits, Movement
  <2>2. AmountsOf(P) = request[t].amount
    BY <1>0, <1>5, <1>6
  <2> HIDE DEF P
  <2>3. QED
    BY <2>1, <2>2 DEF FollowsBalances
<1> HIDE DEF P
<1>8. request' = [request EXCEPT ![t] = [request[t] EXCEPT !.plan = P]]
  BY <1>0, <1>2
<1>9. QED
  BY <1>0, <1>7, <1>8, PlanFresh

LEMMA LockInstallmentKeeps ==
    ASSUME TitleTyped, AgreedInv, NEW t \in Transactions, LockInstallment(t)
    PROVE  AgreedInv'
<1>0. /\ request[t] \in RequestRows /\ ReadSoFar(step[t], request[t]) /\ step[t] = "lock"
      /\ Pending /\ step' = [step EXCEPT ![t] = "lock"] /\ step'[t] = "lock"
  BY DEF TitleTyped, RequestsTyped, LockInstallment, AtStep
<1>1. PICK i \in request[t].picked \ request[t].locked :
        /\ Take(t, i)
        /\ request' = [request EXCEPT ![t].locked = @ \cup {i},
             ![t].plan = @ \cup {PlanRow(i, 0, "BAIXA", open[i], Nothing)}]
  BY DEF LockInstallment, LockedForIntegral
<1>2. i \in Parcels /\ i \in LockRows /\ Parcels \subseteq LockRows
  BY <1>0, <1>1 DEF RequestRows, LockRows
<1> DEFINE w == PlanRow(i, 0, "BAIXA", open[i], Nothing)
           q == [request[t] EXCEPT !.locked = @ \cup {i}, !.plan = @ \cup {w}]
<1>3. request' = [request EXCEPT ![t] = q] /\ request'[t] = q
  BY <1>1 DEF TitleTyped, RequestsTyped
<1>4. /\ q.kind = request[t].kind /\ q.locked = request[t].locked \cup {i}
      /\ q.plan = request[t].plan \cup {w} /\ SameWrites(q, request[t])
  BY <1>0 DEF RequestRows, SameWrites
<1> HIDE DEF q
<1>5. ASSUME Fresh(t) PROVE Fresh(t)'
  <2>1. HoldsRows(t) /\ BeforePlan(t) /\ Refreshing(t)
    BY <1>0, <1>5 DEF Fresh, InProgress
  <2>2. lock'[i] = t /\ \A r \in Parcels : lock[r] = t => lock'[r] = t
    BY <1>1, <1>2, TakesLock
  <2>3. HoldsRows(t)'
    BY <1>0, <1>2, <1>3, <1>4, <2>1, <2>2 DEF HoldsRows, SameWrites, RequestRows
  <2>4. q.plan = {PlanRow(j, 0, "BAIXA", open[j], Nothing) : j \in q.locked}
    BY <1>0, <1>4, <2>1 DEF BeforePlan, ReadSoFar
  <2>5. BeforePlan(t)'
    BY <1>0, <1>3, <1>4, <2>1, <2>4 DEF BeforePlan, SameWrites, Pending
  <2>6. Refreshing(t)'
    BY <1>0, <1>3, <1>4, <2>1 DEF Refreshing, SameWrites
  <2>7. QED
    BY <1>0, <1>5, <2>3, <2>5, <2>6 DEF Fresh, Pending
<1>6. QED
  BY <1>0, <1>1, <1>3, <1>5, LocksKept, PendingStep

LEMMA LockTitleKeeps ==
    ASSUME TitleTyped, AgreedInv, NEW t \in Transactions, LockTitle(t)
    PROVE  AgreedInv'
<1>0. /\ request[t] \in RequestRows /\ ReadSoFar(step[t], request[t]) /\ step[t] = "lock"
      /\ Pending /\ step' = [step EXCEPT ![t] = "check"] /\ step'[t] = "check"
      /\ request' = [request EXCEPT ![t] = request[t]] /\ request'[t] = request[t]
      /\ Take(t, Title) /\ Title \in LockRows /\ Parcels \subseteq LockRows
  BY DEF TitleTyped, RequestsTyped, LockTitle, AtStep, GoTo, LockRows
<1>1. ASSUME Fresh(t) PROVE Fresh(t)'
  <2>1. HoldsRows(t) /\ BeforePlan(t) /\ Refreshing(t) /\ request[t].kind = "settleIntegral"
    BY <1>0, <1>1 DEF Fresh, InProgress, ReadSoFar
  <2>2. lock'[Title] = t /\ \A r \in Parcels : lock[r] = t => lock'[r] = t
    BY <1>0, TakesLock
  <2>3. HoldsRows(t)'
    BY <1>0, <2>1, <2>2 DEF HoldsRows, RequestRows
  <2>4. BeforePlan(t)'
    BY <1>0, <2>1 DEF BeforePlan, Pending
  <2>5. Refreshing(t)'
    BY <1>0, <2>1 DEF Refreshing
  <2>6. QED
    BY <1>0, <1>1, <2>3, <2>4, <2>5 DEF Fresh, Pending
<1>2. QED
  BY <1>0, <1>1, LocksKept, PendingStep

LEMMA CheckIntegralKeeps ==
    ASSUME TitleTyped, AgreedInv, NEW t \in Transactions, CheckIntegral(t)
    PROVE  AgreedInv'
<1> DEFINE P == request[t].plan
<1>0. /\ request[t] \in RequestRows /\ step[t] = "check" /\ request[t].kind = "settleIntegral"
      /\ Pending /\ step' = [step EXCEPT ![t] = "write"] /\ UNCHANGED lock
      /\ request' = [request EXCEPT ![t] = request[t]]
  BY DEF TitleTyped, RequestsTyped, CheckIntegral, AtStep, GoTo
<1>1. request[t] = [request[t] EXCEPT !.plan = P]
  BY <1>0 DEF RequestRows
<1>2. ASSUME Fresh(t) PROVE FollowsBalances(t, P)
  <2>1. P = {PlanRow(i, 0, "BAIXA", open[i], Nothing) : i \in request[t].locked}
    BY <1>0, <1>2 DEF Fresh, InProgress, BeforePlan
  <2>2. ASSUME NEW w \in P
        PROVE  /\ KindFits(t, w) /\ w.installment \in Parcels
               /\ w.open = open[w.installment] - Movement(w.kind, w.amount)
               /\ \A x \in P : x.installment = w.installment => x = w
    <3>1. PICK i \in request[t].locked : w = PlanRow(i, 0, "BAIXA", open[i], Nothing)
      BY <2>1
    <3>2. i \in Parcels /\ open[i] \in Nat
      BY <1>0 DEF RequestRows, TitleTyped
    <3>3. w.installment = i /\ w.open = 0 /\ w.kind = "BAIXA" /\ w.amount = open[i]
      BY <3>1 DEF PlanRow
    <3>4. \A x \in P : x.installment = w.installment => x = w
      BY <2>1, <3>1 DEF PlanRow
    <3>5. QED
      BY <1>0, <3>2, <3>3, <3>4 DEF KindFits, Movement
  <2> HIDE DEF P
  <2>3. QED
    BY <1>0, <2>2 DEF FollowsBalances
<1> HIDE DEF P
<1>3. QED
  <2>1. request' = [request EXCEPT ![t] = [request[t] EXCEPT !.plan = P]]
    BY <1>0, <1>1
  <2>2. QED
    BY <1>0, <1>2, <2>1, PlanFresh

\* Sums of amounts.
LEMMA AmountsTyped ==
    ASSUME NEW S, IsFiniteSet(S), \A x \in S : x.amount \in Nat
    PROVE  AmountsOf(S) \in Nat
<1> DEFINE f == [x \in S |-> x.amount]
<1>1. \A x \in S : f[x] \in Nat
  OBVIOUS
<1> HIDE DEF f
<1>2. SumFunctionOnSet(f, S) \in Nat
  BY <1>1, SumIsNat
<1>3. QED
  BY <1>2 DEF AmountsOf, f

LEMMA AmountsOfUnion ==
    ASSUME NEW S, NEW T, IsFiniteSet(S), IsFiniteSet(T), S \cap T = {},
           \A x \in S \cup T : x.amount \in Nat
    PROVE  AmountsOf(S \cup T) = AmountsOf(S) + AmountsOf(T)
<1> DEFINE f == [x \in S \cup T |-> x.amount]
           g == [x \in S |-> x.amount]
           h == [x \in T |-> x.amount]
<1>1. /\ \A x \in S \cup T : f[x] \in Int
      /\ \A x \in S : f[x] = g[x]
      /\ \A x \in T : f[x] = h[x]
  OBVIOUS
<1> HIDE DEF f, g, h
<1>2. SumFunctionOnSet(f, S \cup T) = SumFunctionOnSet(f, S) + SumFunctionOnSet(f, T)
  BY <1>1, SumOfUnion
<1>3. /\ SumFunctionOnSet(f, S) = SumFunctionOnSet(g, S)
      /\ SumFunctionOnSet(f, T) = SumFunctionOnSet(h, T)
  BY <1>1, SumDependsOnValues
<1>4. QED
  BY <1>2, <1>3 DEF AmountsOf, f, g, h

LEMMA AmountsOfOne ==
    ASSUME NEW x, x.amount \in Nat
    PROVE  AmountsOf({x}) = x.amount /\ AmountsOf({}) = 0
<1> DEFINE f == [y \in {x} |-> y.amount]
           S == {x}
<1>1. \A y \in S : f[y] \in Int
  OBVIOUS
<1>2. IsFiniteSet(S) /\ S \ {x} = {} /\ x \in S /\ f[x] = x.amount
  BY FS_Singleton
<1>3. AmountsOf(S) = SumFunctionOnSet(f, S)
  BY DEF AmountsOf
<1> HIDE DEF f, S
<1>4. SumFunctionOnSet(f, S) = f[x] + SumFunctionOnSet(f, {})
  BY <1>1, <1>2, SumWithout
<1>5. SumFunctionOnSet(f, {}) = 0 /\ AmountsOf({}) = 0
  BY SumOfNothing DEF AmountsOf
<1>6. AmountsOf(S) = x.amount
  BY <1>2, <1>3, <1>4, <1>5
<1>7. QED
  BY <1>5, <1>6 DEF S

\* A row that is written moves its amount from the plan to the settlements.
LEMMA AmountMoves ==
    ASSUME NEW P, NEW S, NEW w \in P, NEW s, IsFiniteSet(P), IsFiniteSet(S), s \notin S,
           \A x \in P \cup S : x.amount \in Nat, s.amount = w.amount
    PROVE  AmountsOf(P \ {w}) + AmountsOf(S \cup {s}) = AmountsOf(P) + AmountsOf(S)
<1> DEFINE R == P \ {w}
<1>0. w.amount \in Nat /\ \A x \in S \cup {s} : x.amount \in Nat
  OBVIOUS
<1>1. /\ IsFiniteSet(R) /\ R \cap {w} = {} /\ P = R \cup {w}
      /\ IsFiniteSet({w}) /\ IsFiniteSet({s}) /\ S \cap {s} = {}
      /\ \A x \in R \cup {w} : x.amount \in Nat
  BY FS_Subset, FS_Singleton
<1> HIDE DEF R
<1>2. AmountsOf(P) = AmountsOf(R) + AmountsOf({w})
  BY <1>1, AmountsOfUnion
<1>3. AmountsOf(S \cup {s}) = AmountsOf(S) + AmountsOf({s})
  BY <1>0, <1>1, AmountsOfUnion
<1>4. AmountsOf({w}) = w.amount /\ AmountsOf({s}) = w.amount
  BY <1>0, AmountsOfOne
<1>5. AmountsOf(R) \in Nat /\ AmountsOf(S) \in Nat /\ w.amount \in Nat
  BY <1>0, <1>1, AmountsTyped
<1>6. QED
  BY <1>2, <1>3, <1>4, <1>5 DEF R

LEMMA WriteKeeps ==
    ASSUME TitleTyped, AgreedInv, NEW t \in Transactions, WriteInstallment(t)
    PROVE  AgreedInv'
<1>0. request[t] \in RequestRows /\ Bounded(request[t])
  BY DEF TitleTyped, RequestsTyped
<1>1. PICK w \in request[t].plan :
         /\ w \in PlanRows /\ w.open <= Original[w.installment] /\ w.amount > 0
         /\ step[t] = "write" /\ step' = [step EXCEPT ![t] = "write"]
         /\ Take(t, w.installment) /\ Pending
         /\ request' = [request EXCEPT ![t] = AfterWrite(t, w)]
  BY WriteFacts
<1> DEFINE q == AfterWrite(t, w)
           s == RowSettlement(t, w)
           i == w.installment
<1>2. /\ request'[t] = q /\ step'[t] = "write" /\ SameQuestion(q, request[t])
      /\ q.seen = request[t].seen /\ q.status = request[t].status
      /\ q.credit = request[t].credit /\ q.plan = request[t].plan \ {w}
      /\ q.settlements = request[t].settlements \cup {s}
      /\ q.open = [request[t].open EXCEPT ![i] = w.open]
  BY <1>0, <1>1, AfterWriteTyped DEF TitleTyped, RequestsTyped, SameQuestion
<1>3. /\ s.kind = w.kind /\ s.installment = i /\ s.amount = w.amount /\ s.by = t
      /\ s.reverses = w.reverses
  BY DEF RowSettlement
<1>4. /\ i \in Parcels /\ i \in LockRows /\ Parcels \subseteq LockRows
      /\ w.open \in Nat /\ w.open # Nothing /\ w.amount \in Nat
      /\ request[t].open \in [Parcels -> Nat \cup {Nothing}]
  BY <1>0, <1>1, StatusesTyped DEF PlanRows, LockRows, RequestRows
<1>5. q.open[i] = w.open /\ \A j \in Parcels : j # i => q.open[j] = request[t].open[j]
  BY <1>2, <1>4
<1> HIDE DEF q, s
<1>6. ASSUME Fresh(t) PROVE Fresh(t)'
  <2>1. HoldsRows(t) /\ Refreshing(t) /\ PlanLeft(t) /\ Written(t)
    BY <1>1, <1>6 DEF Fresh, InProgress
  <2>2. request[t].open[i] = Nothing /\ KindFits(t, w)
        /\ w.open = open[i] - Movement(w.kind, w.amount)
    BY <1>1, <2>1 DEF PlanLeft
  <2>3. HoldsRows(t)'
    <3>1. lock'[i] = t /\ \A r \in LockRows : lock[r] = t => lock'[r] = t
      BY <1>1, <1>4, TakesLock
    <3>2. Title \in LockRows /\ request[t].locked \subseteq Parcels
      BY <1>0 DEF LockRows, RequestRows
    <3>3. QED
      BY <1>1, <1>2, <1>4, <1>5, <2>1, <3>1, <3>2 DEF HoldsRows, SameQuestion
  <2>4. \A x : KindFits(t, x)' = KindFits(t, x)
    BY <1>2 DEF KindFits, Target, SameQuestion
  <2>5. PlanLeft(t)'
    <3>1. ASSUME NEW x \in request[t].plan \ {w}
          PROVE  /\ KindFits(t, x)' /\ q.open[x.installment] = Nothing
                 /\ x.open = open[x.installment] - Movement(x.kind, x.amount)
                 /\ \A y \in request[t].plan \ {w} : y.installment = x.installment => y = x
      <4>1. x.installment \in Parcels
        BY <1>0 DEF RequestRows, PlanRows
      <4>2. x.installment # i
        BY <1>1, <2>1 DEF PlanLeft
      <4>3. QED
        BY <1>5, <2>1, <2>4, <4>1, <4>2 DEF PlanLeft
    <3>2. QED
      BY <1>1, <1>2, <3>1 DEF PlanLeft, Pending
  <2>6. s \notin request[t].settlements
    BY <1>3, <2>1, <2>2 DEF Written
  <2>7. Written(t)'
    <3>1. ASSUME NEW x \in request[t].settlements \cup {s}
          PROVE  /\ KindFits(t, x)' /\ x.by = t /\ q.open[x.installment] # Nothing
                 /\ q.open[x.installment] = open[x.installment] - Movement(x.kind, x.amount)
                 /\ \A y \in request[t].settlements \cup {s} :
                        y.installment = x.installment => y = x
      <4>1. CASE x = s
        <5>1. KindFits(t, s)
          BY <1>3, <2>2 DEF KindFits
        <5>2. \A y \in request[t].settlements : y.installment # i
          BY <2>1, <2>2 DEF Written
        <5>3. QED
          BY <1>3, <1>4, <1>5, <2>2, <2>4, <4>1, <5>1, <5>2
      <4>2. CASE x \in request[t].settlements
        <5>1. x.installment \in Parcels /\ x.installment # i
          BY <1>0, <2>1, <2>2, <4>2 DEF Written, RequestRows, SettlementRows
        <5>2. QED
          BY <1>3, <1>5, <2>1, <2>4, <4>2, <5>1 DEF Written
      <4>3. QED
        BY <4>1, <4>2
    <3>2. \A j \in Parcels : q.open[j] # Nothing =>
              \E x \in request[t].settlements \cup {s} : x.installment = j
      BY <1>3, <1>5, <2>1 DEF Written
    <3>3. NotReversed(Target(t)) => NotReversed(Target(t))'
      BY <1>1, <1>2 DEF NotReversed, Target, SameQuestion, Pending
    <3>4. AmountsOf(request[t].plan)' + AmountsOf(request[t].settlements)'
              = AmountsOf(request[t].plan) + AmountsOf(request[t].settlements)
      <4>1. /\ AmountsOf(request[t].plan)' = AmountsOf(q.plan)
            /\ AmountsOf(request[t].settlements)' = AmountsOf(q.settlements)
        BY <1>2 DEF AmountsOf
      <4>2. \A x \in request[t].plan \cup request[t].settlements : x.amount \in Nat
        BY <1>0 DEF RequestRows, PlanRows, SettlementRows
      <4>3. IsFiniteSet(request[t].plan) /\ IsFiniteSet(request[t].settlements)
        BY <1>0 DEF Bounded
      <4>4. AmountsOf(request[t].plan \ {w}) + AmountsOf(request[t].settlements \cup {s})
              = AmountsOf(request[t].plan) + AmountsOf(request[t].settlements)
        BY <1>3, <2>6, <4>2, <4>3, AmountMoves
      <4>5. QED
        BY <1>2, <4>1, <4>4
    <3>5. /\ request[t].kind = "reverse" => NotReversed(Target(t))'
          /\ request[t].kind = "applyCredit" =>
                 /\ request[t].seen = credit
                 /\ AmountsOf(request[t].plan)' + AmountsOf(request[t].settlements)'
                        = request[t].amount
      BY <2>1, <3>3, <3>4 DEF Written
    <3>6. /\ request'[t].settlements = request[t].settlements \cup {s}
          /\ request'[t].open = q.open /\ request'[t].kind = request[t].kind
          /\ request'[t].seen = request[t].seen /\ request'[t].amount = request[t].amount
          /\ open' = open /\ credit' = credit
      BY <1>1, <1>2 DEF SameQuestion, Pending
    <3>7. QED
      BY <3>1, <3>2, <3>5, <3>6 DEF Written
  <2>8. BeforePlan(t)'
    BY <1>2 DEF BeforePlan
  <2>9. Refreshing(t)'
    BY <1>1, <1>2, <2>1 DEF Refreshing
  <2>10. QED
    BY <1>1, <1>2, <1>6, <2>3, <2>5, <2>7, <2>8, <2>9 DEF Fresh, Pending
<1>7. QED
  BY <1>1, <1>6, LocksKept, PendingStep DEF q

\* The steps after the plan is written: the same writes, and what refreshTitle
\* found.
LEMMA RefreshFresh ==
    ASSUME TitleTyped, AgreedInv, NEW t \in Transactions, NEW q \in RequestRows, NEW s,
           request' = [request EXCEPT ![t] = q], step' = [step EXCEPT ![t] = s],
           SameQuestion(q, request[t]), q.open = request[t].open, q.plan = request[t].plan,
           q.settlements = request[t].settlements, q.seen = request[t].seen,
           step[t] \in {"write", "statuses", "title", "credit"},
           s \in {"statuses", "title", "credit", "commit"}, Pending, LocksOfOthersKept(t),
           \A r \in LockRows : lock[r] = t => lock'[r] = t,
           Fresh(t) => Refreshing(t)'
    PROVE  AgreedInv'
<1>0. /\ request[t] \in RequestRows /\ request'[t] = q /\ step'[t] = s
  BY DEF TitleTyped, RequestsTyped
<1>1. ASSUME Fresh(t) PROVE Fresh(t)'
  <2>1. HoldsRows(t) /\ PlanLeft(t) /\ Written(t)
    BY <1>1 DEF Fresh, InProgress
  <2>2. HoldsRows(t)'
    BY <1>0, <2>1 DEF HoldsRows, SameQuestion, LockRows, RequestRows
  <2>3. \A x : KindFits(t, x)' = KindFits(t, x)
    BY <1>0 DEF KindFits, Target, SameQuestion
  <2>4. PlanLeft(t)'
    BY <1>0, <2>1, <2>3 DEF PlanLeft, Pending
  <2>5. Written(t)'
    <3>1. NotReversed(Target(t)) => NotReversed(Target(t))'
      BY <1>0 DEF NotReversed, Target, SameQuestion, Pending
    <3>2. /\ AmountsOf(request[t].plan)' = AmountsOf(request[t].plan)
          /\ AmountsOf(request[t].settlements)' = AmountsOf(request[t].settlements)
      BY <1>0 DEF AmountsOf
    <3>3. QED
      BY <1>0, <2>1, <2>3, <3>1, <3>2 DEF Written, SameQuestion, Pending
  <2>6. BeforePlan(t)'
    BY <1>0 DEF BeforePlan
  <2>7. QED
    BY <1>0, <1>1, <2>2, <2>4, <2>5, <2>6 DEF Fresh, Pending
<1>2. QED
  BY <1>1, PendingStep

LEMMA ReadOpensKeeps ==
    ASSUME TitleTyped, AgreedInv, NEW t \in Transactions, ReadOpens(t)
    PROVE  AgreedInv'
<1> DEFINE total == SumFunctionOnSet(OpensSeen(t), Parcels)
           changed == {<< i, InstallmentStatus(i, OpenSeen(t, i)) >> :
                        i \in {j \in Parcels :
                                 InstallmentStatus(j, OpenSeen(t, j)) # StatusSeen(t, j)}}
           q == [request[t] EXCEPT !.total = total, !.changed = changed]
<1>0. /\ request[t] \in RequestRows /\ step[t] = "write" /\ request[t].plan = {}
      /\ step' = [step EXCEPT ![t] = "statuses"] /\ step'[t] = "statuses"
      /\ Pending /\ UNCHANGED lock
      /\ request' = [request EXCEPT ![t].total = total, ![t].changed = changed]
  BY DEF TitleTyped, RequestsTyped, ReadOpens, AtStep, GoTo
<1>1. total \in 0 .. TitleOriginal /\ changed \in SUBSET (Parcels \X InstallmentStatuses)
  BY Opens, ParcelSums, StatusesTyped
<1> HIDE DEF total, changed
<1>2. request' = [request EXCEPT ![t] = q] /\ request'[t] = q
  BY <1>0 DEF TitleTyped, RequestsTyped
<1>3. /\ q \in RequestRows /\ SameQuestion(q, request[t]) /\ SameWrites(q, request[t])
      /\ q.plan = request[t].plan /\ q.seen = request[t].seen
      /\ q.total = total /\ q.changed = changed
  BY <1>0, <1>1 DEF RequestRows, SameQuestion, SameWrites
<1> HIDE DEF q
<1>4. ASSUME Fresh(t) PROVE Refreshing(t)'
  <2>1. Refreshing(t)
    BY <1>0, <1>4 DEF Fresh, InProgress
  <2>2. \A i \in Parcels : StatusSeen(t, i) = status[i]
    BY <1>0, <2>1 DEF Refreshing, StatusSeen
  <2>3. /\ OpensSeen(t)' = OpensSeen(t)
        /\ StatusesToChange(t)' = StatusesToChange(t)
    <3>1. open' = open /\ status' = status /\ request'[t].open = request[t].open
      BY <1>0, <1>2, <1>3 DEF SameWrites, Pending
    <3>2. OpensSeen(t)' = OpensSeen(t)
      BY <3>1 DEF OpensSeen, OpenSeen
    <3>3. StatusesToChange(t)' = StatusesToChange(t)
      BY <3>1 DEF StatusesToChange, OpenSeen, InstallmentStatus
    <3>4. QED
      BY <3>2, <3>3
  <2>4. changed = StatusesToChange(t)
    BY <2>2 DEF changed, StatusesToChange
  <2>5. q.total = SumFunctionOnSet(OpensSeen(t), Parcels)'
    BY <1>3, <2>3 DEF total
  <2>6. QED
    BY <1>0, <1>2, <1>3, <2>1, <2>3, <2>4, <2>5 DEF Refreshing, SameWrites
<1>5. \A r \in LockRows : lock[r] = t => lock'[r] = t
  BY <1>0
<1>6. QED
  BY <1>0, <1>2, <1>3, <1>4, <1>5, LocksKept, RefreshFresh DEF SameWrites

LEMMA WriteStatusesKeeps ==
    ASSUME TitleTyped, AgreedInv, NEW t \in Transactions, WriteStatuses(t)
    PROVE  AgreedInv'
<1> DEFINE C == request[t].changed
           f == [i \in Parcels |-> IF \E x \in C : x[1] = i
                                   THEN (CHOOSE x \in C : x[1] = i)[2] ELSE Nothing]
           q == [request[t] EXCEPT !.status = f]
<1>0. /\ request[t] \in RequestRows /\ step[t] = "statuses"
      /\ step' = [step EXCEPT ![t] = "title"] /\ step'[t] = "title"
      /\ Pending /\ \A c \in C : MayLock(t, c[1])
      /\ lock' = [r \in LockRows |-> IF \E c \in C : c[1] = r THEN t ELSE lock[r]]
      /\ request' = [request EXCEPT ![t] = q] /\ request'[t] = q
      /\ lock \in [LockRows -> Transactions \cup {NoTx}] /\ NoTx \notin Transactions
  BY ReceivablesAssumption
     DEF TitleTyped, TitleTypeOK, RequestsTyped, WriteStatuses, AtStep, GoTo, Keep
<1>1. C \in SUBSET (Parcels \X InstallmentStatuses)
  BY <1>0 DEF RequestRows
<1>2. f \in [Parcels -> InstallmentStatuses \cup {Nothing}]
  BY <1>1
<1>3. LocksOfOthersKept(t) /\ \A r \in LockRows : lock[r] = t => lock'[r] = t
  BY <1>0 DEF LocksOfOthersKept, MayLock
<1>4. ASSUME NEW i \in Parcels
      PROVE  /\ f[i] = IF \E x \in C : x[1] = i
                       THEN (CHOOSE x \in C : x[1] = i)[2] ELSE Nothing
  OBVIOUS
<1> HIDE DEF f
<1>5. /\ q \in RequestRows /\ SameQuestion(q, request[t]) /\ q.open = request[t].open
      /\ q.settlements = request[t].settlements /\ q.credit = request[t].credit
      /\ q.plan = request[t].plan /\ q.seen = request[t].seen
      /\ q.total = request[t].total /\ q.status = f
  BY <1>0, <1>2 DEF RequestRows, SameQuestion
<1> HIDE DEF q
<1>6. ASSUME Fresh(t) PROVE Refreshing(t)'
  <2>1. Refreshing(t)
    BY <1>0, <1>6 DEF Fresh, InProgress
  <2>2. C = StatusesToChange(t) /\ request[t].plan = {} /\ request[t].credit = Nothing
        /\ request[t].total = SumFunctionOnSet(OpensSeen(t), Parcels)
    BY <1>0, <2>1 DEF Refreshing
  <2>3. /\ OpensSeen(t)' = OpensSeen(t)
        /\ \A i \in Parcels : InstallmentStatus(i, OpenSeen(t, i))'
                                  = InstallmentStatus(i, OpenSeen(t, i))
    BY <1>0, <1>5 DEF OpensSeen, OpenSeen, Pending, InstallmentStatus
  <2>4. ASSUME NEW i \in Parcels
        PROVE  StatusSeen(t, i)' = InstallmentStatus(i, OpenSeen(t, i))
    <3>1. StatusSeen(t, i)' = IF f[i] # Nothing THEN f[i] ELSE status[i]
      BY <1>0, <1>5 DEF StatusSeen, Pending
    <3>2. CASE \E x \in C : x[1] = i
      <4>1. PICK x \in C : x[1] = i /\ f[i] = x[2]
        BY <1>4, <3>2
      <4>2. x[2] = InstallmentStatus(i, OpenSeen(t, i))
        BY <2>2, <4>1 DEF StatusesToChange
      <4>3. QED
        BY <3>1, <4>1, <4>2, StatusesTyped
    <3>3. CASE ~\E x \in C : x[1] = i
      <4>1. f[i] = Nothing
        BY <1>4, <3>3
      <4>2. InstallmentStatus(i, OpenSeen(t, i)) = status[i]
        <5>1. ASSUME InstallmentStatus(i, OpenSeen(t, i)) # status[i] PROVE FALSE
          <6>1. << i, InstallmentStatus(i, OpenSeen(t, i)) >> \in C
            BY <2>2, <5>1 DEF StatusesToChange
          <6>2. QED
            BY <3>3, <6>1
        <5>2. QED
          BY <5>1
      <4>3. QED
        BY <3>1, <4>1, <4>2
    <3>4. QED
      BY <3>2, <3>3
  <2>5. SumFunctionOnSet(OpensSeen(t), Parcels)' = SumFunctionOnSet(OpensSeen(t), Parcels)
    BY <2>3
  <2>6. QED
    BY <1>0, <1>5, <2>2, <2>3, <2>4, <2>5 DEF Refreshing
<1>7. QED
  BY <1>0, <1>3, <1>5, <1>6, RefreshFresh

LEMMA WriteTitleKeeps ==
    ASSUME TitleTyped, AgreedInv, NEW t \in Transactions, WriteTitle(t) \/ WriteCredit(t)
    PROVE  AgreedInv'
<1> DEFINE s == IF step[t] = "title" /\ request[t].kind = "applyCredit"
                THEN "credit" ELSE "commit"
<1>0. /\ request[t] \in RequestRows /\ ReadSoFar(step[t], request[t])
      /\ step[t] \in {"title", "credit"}
      /\ step' = [step EXCEPT ![t] = s] /\ step'[t] = s /\ Pending
      /\ \E r \in LockRows : Take(t, r)
  BY DEF TitleTyped, RequestsTyped, WriteTitle, WriteCredit, AtStep, GoTo, LockRows
<1>1. PICK r \in LockRows : Take(t, r)
  BY <1>0
<1>2. LocksOfOthersKept(t) /\ \A x \in LockRows : lock[x] = t => lock'[x] = t
  BY <1>1, LocksKept, TakesLock
<1>3. PICK T, c :
        /\ request' = [request EXCEPT ![t] = [request[t] EXCEPT !.title = T, !.credit = c]]
        /\ IF step[t] = "title"
           THEN T = {Refreshed(request[t].total)} /\ c = request[t].credit
           ELSE T = request[t].title /\ c = request[t].seen - request[t].amount
  <2>1. CASE WriteTitle(t)
    <3>1. /\ step[t] = "title"
          /\ request' = [request EXCEPT ![t] =
                [request[t] EXCEPT !.title = {Refreshed(request[t].total)}]]
      BY <2>1 DEF WriteTitle, AtStep, Keep
    <3>2. [request[t] EXCEPT !.title = {Refreshed(request[t].total)}]
            = [request[t] EXCEPT !.title = {Refreshed(request[t].total)},
                                 !.credit = request[t].credit]
      BY <1>0 DEF RequestRows
    <3>3. QED
      BY <3>1, <3>2
  <2>2. CASE WriteCredit(t)
    <3>1. /\ step[t] = "credit"
          /\ request' = [request EXCEPT ![t] =
                [request[t] EXCEPT !.credit = request[t].seen - request[t].amount]]
      BY <2>2 DEF WriteCredit, AtStep, Keep
    <3>2. [request[t] EXCEPT !.credit = request[t].seen - request[t].amount]
            = [request[t] EXCEPT !.title = request[t].title,
                                 !.credit = request[t].seen - request[t].amount]
      BY <1>0 DEF RequestRows
    <3>3. QED
      BY <3>1, <3>2
  <2>3. QED
    BY <2>1, <2>2
<1> DEFINE q == [request[t] EXCEPT !.title = T, !.credit = c]
<1>4. request'[t] = q /\ q \in RequestRows
  <2>1. TitleTyped'
    BY RefreshTyped
  <2>2. request'[t] \in RequestRows
    BY <2>1 DEF TitleTyped, RequestsTyped
  <2>3. request'[t] = q
    BY <1>3 DEF TitleTyped, RequestsTyped
  <2>4. QED
    BY <2>2, <2>3
<1>5. /\ SameQuestion(q, request[t]) /\ q.open = request[t].open
      /\ q.settlements = request[t].settlements /\ q.status = request[t].status
      /\ q.plan = request[t].plan /\ q.seen = request[t].seen
      /\ q.total = request[t].total /\ q.title = T /\ q.credit = c
  BY <1>0 DEF RequestRows, SameQuestion
<1> HIDE DEF q
<1>6. ASSUME Fresh(t) PROVE Refreshing(t)'
  <2>1. Refreshing(t)
    BY <1>0, <1>6 DEF Fresh, InProgress
  <2>2. /\ OpensSeen(t)' = OpensSeen(t)
        /\ \A i \in Parcels : /\ StatusSeen(t, i)' = StatusSeen(t, i)
                              /\ InstallmentStatus(i, OpenSeen(t, i))'
                                     = InstallmentStatus(i, OpenSeen(t, i))
    BY <1>0, <1>4, <1>5 DEF OpensSeen, OpenSeen, StatusSeen, Pending, InstallmentStatus
  <2>3. SumFunctionOnSet(OpensSeen(t), Parcels)' = SumFunctionOnSet(OpensSeen(t), Parcels)
    BY <2>2
  <2>4. Refreshed(request[t].total)' = Refreshed(request[t].total)
    BY <1>4, <1>5 DEF Refreshed, TitleStatus
  <2>5. c = IF request[t].kind = "applyCredit" /\ s = "commit"
            THEN request[t].seen - request[t].amount ELSE Nothing
    <3>1. CASE step[t] = "title"
      BY <1>3, <2>1, <3>1 DEF Refreshing
    <3>2. CASE step[t] = "credit"
      BY <1>0, <1>3, <3>2 DEF ReadSoFar
    <3>3. QED
      BY <1>0, <3>1, <3>2
  <2>6. T = {Refreshed(request[t].total)}
    BY <1>0, <1>3, <2>1 DEF Refreshing
  <2>7. s \in {"credit", "commit"} /\ request[t].kind = q.kind
    BY <1>5 DEF SameQuestion
  <2> HIDE DEF s
  <2>8. QED
    BY <1>0, <1>4, <1>5, <2>1, <2>2, <2>3, <2>4, <2>5, <2>6, <2>7 DEF Refreshing, SameQuestion
<1>7. s \in {"statuses", "title", "credit", "commit"}
  OBVIOUS
<1>8. request' = [request EXCEPT ![t] = q]
  BY <1>3 DEF q
<1> HIDE DEF s
<1>9. QED
  BY <1>0, <1>2, <1>4, <1>5, <1>6, <1>7, <1>8, RefreshFresh

-----------------------------------------------------------------------------
\* What a request that commits relies on, and what it commits.
CommitsAgreed(t) ==
    /\ TitleTyped /\ Agreed /\ Fresh(t) /\ Commit(t) /\ t \in Transactions

LEMMA CommitOwn ==
    ASSUME NEW t, CommitsAgreed(t)
    PROVE  /\ request[t] \in RequestRows /\ IsFiniteSet(request[t].settlements)
           /\ HoldsRows(t) /\ Written(t) /\ Refreshing(t) /\ step[t] = "commit"
           /\ request[t].plan = {} /\ \A s \in settlements : s.by # t
BY CommitFacts
   DEF CommitsAgreed, Fresh, InProgress, TitleTyped, RequestsTyped, Bounded, Refreshing

\* What the settlements of a kind took from an installment, before and after.
LEMMA SettledMore ==
    ASSUME NEW t, CommitsAgreed(t), NEW i \in Parcels, NEW K
    PROVE  /\ Settled(i, K) \in Nat
           /\ (\A s \in request[t].settlements : s.installment # i) =>
                  Settled(i, K)' = Settled(i, K)
           /\ \A s \in request[t].settlements : s.installment = i =>
                  Settled(i, K)' = Settled(i, K) + IF s.kind \in K THEN s.amount ELSE 0
<1> DEFINE S == {s \in settlements : s.installment = i /\ s.kind \in K}
           T == {s \in request[t].settlements : s.installment = i /\ s.kind \in K}
<1>1. /\ IsFiniteSet(settlements) /\ settlements \subseteq SettlementRows
      /\ IsFiniteSet(request[t].settlements) /\ request[t].settlements \subseteq SettlementRows
  BY CommitOwn DEF CommitsAgreed, TitleTyped, TitleTypeOK, RequestRows
<1>2. /\ IsFiniteSet(S) /\ IsFiniteSet(T) /\ \A s \in S \cup T : s.amount \in Nat
  BY <1>1, FS_Subset DEF SettlementRows
<1>3. S \cap T = {}
  BY CommitOwn DEF Written
<1>4. settlements' = settlements \cup request[t].settlements
  BY CommitFacts DEF CommitsAgreed
<1>5. {s \in settlements' : s.installment = i /\ s.kind \in K} = S \cup T
  BY <1>4
<1>6. Settled(i, K) = AmountsOf(S) /\ Settled(i, K)' = AmountsOf(S \cup T)
  BY <1>5 DEF Settled, AmountsOf
<1> HIDE DEF S, T
<1>7. /\ AmountsOf(S \cup T) = AmountsOf(S) + AmountsOf(T)
      /\ AmountsOf(S) \in Nat
  BY <1>2, <1>3, AmountsOfUnion, AmountsTyped
<1>8. T = {} => AmountsOf(T) = 0
  BY SumOfNothing DEF AmountsOf
<1>9. ASSUME \A s \in request[t].settlements : s.installment # i
      PROVE  Settled(i, K)' = Settled(i, K)
  <2>1. T = {}
    BY <1>9 DEF T
  <2>2. QED
    BY <1>6, <1>7, <1>8, <2>1
<1>10. ASSUME NEW s \in request[t].settlements, s.installment = i
       PROVE  Settled(i, K)' = Settled(i, K) + IF s.kind \in K THEN s.amount ELSE 0
  <2>1. \A x \in request[t].settlements : x.installment = i => x = s
    BY <1>10, CommitOwn DEF Written
  <2>2. s.amount \in Nat
    BY <1>1 DEF SettlementRows
  <2>3. CASE s.kind \in K
    <3>1. T = {s}
      BY <1>10, <2>1, <2>3 DEF T
    <3>2. AmountsOf({s}) = s.amount
      BY <2>2, AmountsOfOne
    <3>3. QED
      BY <1>6, <1>7, <2>3, <3>1, <3>2
  <2>4. CASE s.kind \notin K
    <3>1. T = {}
      BY <2>1, <2>4 DEF T
    <3>2. QED
      BY <1>6, <1>7, <1>8, <2>4, <3>1
  <2>5. QED
    BY <2>3, <2>4
<1>11. QED
  BY <1>6, <1>7, <1>9, <1>10

LEMMA BalancesCommitted ==
    ASSUME NEW t, CommitsAgreed(t)
    PROVE  BalancesFollowSettlements'
<1> SUFFICES ASSUME NEW i \in Parcels
             PROVE  /\ open'[i] = Original[i] - Taken(i)'
                    /\ status'[i] = InstallmentStatus(i, open'[i])
  BY DEF BalancesFollowSettlements, InstallmentStatus
<1> DEFINE out == SettlementKinds \ {"ESTORNO"}
           back == {"ESTORNO"}
<1>0. /\ Taken(i) = Settled(i, out) - Settled(i, back)
      /\ Taken(i)' = Settled(i, out)' - Settled(i, back)'
  BY DEF Taken
<1>1. /\ open' = OpensSeen(t) /\ open'[i] = OpenSeen(t, i)
      /\ status'[i] = StatusSeen(t, i)
  BY CommitFacts DEF CommitsAgreed, OpensSeen
<1>2. status'[i] = InstallmentStatus(i, open'[i])
  BY <1>1, CommitOwn DEF Refreshing
<1>3. open[i] = Original[i] - Taken(i) /\ open[i] \in Nat /\ Original[i] \in Nat
  BY OriginalTyped DEF CommitsAgreed, Agreed, BalancesFollowSettlements, TitleTyped
<1>4. Settled(i, out) \in Nat /\ Settled(i, back) \in Nat
  BY SettledMore
<1>5. CASE \A s \in request[t].settlements : s.installment # i
  <2>1. open'[i] = open[i]
    BY <1>1, <1>5, CommitOwn DEF Written, OpenSeen
  <2>2. Settled(i, out)' = Settled(i, out) /\ Settled(i, back)' = Settled(i, back)
    BY <1>5, SettledMore
  <2>3. QED
    BY <1>0, <1>2, <1>3, <2>1, <2>2
<1>6. CASE \E s \in request[t].settlements : s.installment = i
  <2>1. PICK s \in request[t].settlements : s.installment = i
    BY <1>6
  <2>2. open'[i] = open[i] - Movement(s.kind, s.amount)
    BY <1>1, <2>1, CommitOwn DEF Written, OpenSeen
  <2>3. s.amount \in Nat /\ s.kind \in SettlementKinds
    BY CommitOwn DEF RequestRows, SettlementRows
  <2>4. /\ Settled(i, out)' = Settled(i, out) + IF s.kind \in out THEN s.amount ELSE 0
        /\ Settled(i, back)' = Settled(i, back) + IF s.kind \in back THEN s.amount ELSE 0
    BY <2>1, SettledMore
  <2>5. CASE s.kind = "ESTORNO"
    <3>1. /\ open'[i] = open[i] + s.amount
          /\ Settled(i, out)' = Settled(i, out)
          /\ Settled(i, back)' = Settled(i, back) + s.amount
      BY <1>3, <1>4, <2>2, <2>3, <2>4, <2>5 DEF Movement
    <3> HIDE DEF out, back
    <3>2. QED
      BY <1>0, <1>2, <1>3, <1>4, <2>3, <3>1
  <2>6. CASE s.kind # "ESTORNO"
    <3>1. /\ open'[i] = open[i] - s.amount
          /\ Settled(i, out)' = Settled(i, out) + s.amount
          /\ Settled(i, back)' = Settled(i, back)
      BY <1>3, <1>4, <2>2, <2>3, <2>4, <2>6 DEF Movement
    <3> HIDE DEF out, back
    <3>2. QED
      BY <1>0, <1>2, <1>3, <1>4, <2>3, <3>1
  <2>7. QED
    BY <2>5, <2>6
<1>7. QED
  BY <1>5, <1>6

LEMMA TitleCommitted ==
    ASSUME NEW t, CommitsAgreed(t)
    PROVE  TitleFollowsInstallments'
<1>1. request[t].title = {Refreshed(request[t].total)}
      /\ request[t].total = SumFunctionOnSet(OpensSeen(t), Parcels)
  BY CommitOwn DEF Refreshing
<1>2. titleRow' = Refreshed(SumFunctionOnSet(OpensSeen(t), Parcels)) /\ open' = OpensSeen(t)
  BY <1>1, CommitFacts DEF CommitsAgreed
<1>3. QED
  BY <1>2 DEF TitleFollowsInstallments, Refreshed, TitleStatus

LEMMA CreditCommitted ==
    ASSUME NEW t, CommitsAgreed(t)
    PROVE  credit' = CreditTotal - SpentCredit'
<1> DEFINE S == {s \in settlements : s.kind = "ABATIMENTO_CREDITO"}
           T == {s \in request[t].settlements : s.kind = "ABATIMENTO_CREDITO"}
<1>1. /\ IsFiniteSet(settlements) /\ settlements \subseteq SettlementRows
      /\ IsFiniteSet(request[t].settlements) /\ request[t].settlements \subseteq SettlementRows
  BY CommitOwn DEF CommitsAgreed, TitleTyped, TitleTypeOK, RequestRows
<1>2. /\ IsFiniteSet(S) /\ IsFiniteSet(T) /\ \A s \in S \cup T : s.amount \in Nat
  BY <1>1, FS_Subset DEF SettlementRows
<1>3. S \cap T = {}
  BY CommitOwn DEF Written
<1>4. settlements' = settlements \cup request[t].settlements
  BY CommitFacts DEF CommitsAgreed
<1>5. {s \in settlements' : s.kind = "ABATIMENTO_CREDITO"} = S \cup T
  BY <1>4
<1>6. SpentCredit = AmountsOf(S) /\ SpentCredit' = AmountsOf(S \cup T)
  BY <1>5 DEF SpentCredit, AmountsOf
<1>7. /\ credit = CreditTotal - SpentCredit /\ credit \in Nat /\ CreditTotal \in Nat
      /\ credit' = IF request[t].credit = Nothing THEN credit ELSE request[t].credit
      /\ request[t].credit = IF request[t].kind = "applyCredit"
                             THEN request[t].seen - request[t].amount ELSE Nothing
  BY CommitFacts, CommitOwn, ReceivablesAssumption
     DEF CommitsAgreed, Agreed, TitleTyped, TitleTypeOK, Refreshing
<1>8. CASE request[t].kind = "applyCredit"
  <2>1. request[t].seen = credit
        /\ AmountsOf({}) + AmountsOf(request[t].settlements) = request[t].amount
    BY <1>8, CommitOwn DEF Written
  <2>2. T = request[t].settlements
    BY <1>8, CommitOwn DEF Written, KindFits
  <2>3. AmountsOf({}) = 0
    BY SumOfNothing DEF AmountsOf
  <2>4. request[t].credit \in Nat
    <3>1. request[t].credit \in (0 .. CreditTotal) \cup {Nothing}
      BY CommitOwn DEF RequestRows
    <3>2. ReadSoFar(step[t], request[t]) /\ step[t] = "commit" /\ request[t].seen \in Nat
          /\ request[t].amount \in Nat
      BY CommitOwn DEF CommitsAgreed, TitleTyped, RequestsTyped, RequestRows
    <3>3. request[t].seen - request[t].amount \in Nat
      BY <1>8, <3>2 DEF ReadSoFar
    <3>4. QED
      BY <1>7, <1>8, <3>3
  <2>5. credit' = credit - request[t].amount
    BY <1>7, <1>8, <2>1, <2>4, StatusesTyped
  <2> HIDE DEF S, T
  <2>6. AmountsOf(S \cup T) = AmountsOf(S) + AmountsOf(T) /\ AmountsOf(S) \in Nat
        /\ AmountsOf(T) \in Nat
    BY <1>2, <1>3, AmountsOfUnion, AmountsTyped
  <2>7. QED
    BY <1>6, <1>7, <2>1, <2>2, <2>3, <2>5, <2>6
<1>9. CASE request[t].kind # "applyCredit"
  <2>1. T = {}
    BY <1>9, CommitOwn DEF Written, KindFits
  <2>2. QED
    BY <1>6, <1>7, <1>9, <2>1
<1>10. QED
  BY <1>8, <1>9

LEMMA ReversalCommitted ==
    ASSUME NEW t, CommitsAgreed(t)
    PROVE  ReversedOnce'
<1>1. settlements' = settlements \cup request[t].settlements
  BY CommitFacts DEF CommitsAgreed
<1>2. \A s \in request[t].settlements : s.kind = "ESTORNO" =>
          /\ request[t].kind = "reverse" /\ s.installment = Target(t).installment
          /\ s.reverses = Target(t).by
          /\ \A x \in request[t].settlements : x.installment = s.installment => x = s
          /\ \A x \in settlements : ~(/\ x.kind = "ESTORNO" /\ x.reverses = s.reverses
                                      /\ x.installment = s.installment)
  BY CommitOwn DEF Written, KindFits, NotReversed
<1>3. ReversedOnce
  BY DEF CommitsAgreed, Agreed
<1>4. QED
  BY <1>1, <1>2, <1>3 DEF ReversedOnce

\* The requests that are under way when one commits: without an overlap, both
\* are settlements of whole balances, and the other one still waits for the
\* title.
LEMMA OtherCommitted ==
    ASSUME NEW t, CommitsAgreed(t), NEW u \in Transactions \ {t}, Fresh(u), ~overlapped'
    PROVE  Fresh(u)'
<1>0. /\ request'[u] = request[u] /\ step'[u] = step[u] /\ t \in Transactions
      /\ request[u] \in RequestRows /\ ReadSoFar(step[u], request[u])
      /\ step[u] \in Steps /\ TitleTypeOK
  BY CommitFacts DEF CommitsAgreed, TitleTyped, RequestsTyped
<1>1. step[u] # "done" => \A s \in settlements' : s.by # u
  BY <1>0, CommitFacts, CommitOwn DEF CommitsAgreed, Fresh, Written
<1>2. ASSUME InProgress(u) PROVE HoldsRows(u)' /\ BeforePlan(u)' /\ Refreshing(u)' /\ step[u] = "lock"
  <2>1. request[t].kind = "settleIntegral" /\ request[u].kind = "settleIntegral"
    <3>1. {request[t].kind, request[u].kind} = {"settleIntegral"}
      BY <1>2, CommitFacts DEF CommitsAgreed
    <3>2. QED
      BY <3>1
  <2>2. lock[Title] = t
    BY <2>1, CommitOwn DEF HoldsRows
  <2>3. HoldsRows(u) /\ BeforePlan(u) /\ Refreshing(u)
    BY <1>2 DEF Fresh
  <2>4. step[u] = "lock"
    BY <2>1, <2>2, <2>3 DEF HoldsRows
  <2>5. \A i \in request[u].locked : i \in Parcels /\ lock[i] = u
    BY <1>0, <2>3 DEF HoldsRows, RequestRows
  <2>6. \A i \in request[u].locked : open'[i] = open[i]
    <3>1. \A i \in request[u].locked : request[t].open[i] = Nothing
      BY <2>5, CommitOwn DEF HoldsRows
    <3>2. QED
      BY <2>5, <3>1, CommitFacts DEF CommitsAgreed, OpensSeen, OpenSeen
  <2>7. \A r \in LockRows : lock[r] = u => lock'[r] = u
    BY CommitFacts DEF CommitsAgreed, Freed
  <2>8. HoldsRows(u)'
    BY <1>0, <2>3, <2>4, <2>5, <2>7 DEF HoldsRows, LockRows
  <2>9. {PlanRow(i, 0, "BAIXA", open'[i], Nothing) : i \in request[u].locked}
          = {PlanRow(i, 0, "BAIXA", open[i], Nothing) : i \in request[u].locked}
    BY <2>6
  <2>10. BeforePlan(u)'
    BY <1>0, <2>3, <2>4, <2>9 DEF BeforePlan
  <2>11. Refreshing(u)'
    BY <1>0, <2>3, <2>4 DEF Refreshing
  <2>12. QED
    BY <2>4, <2>8, <2>10, <2>11
<1>3. QED
  BY <1>0, <1>1, <1>2 DEF Fresh, InProgress

LEMMA CommitKeeps ==
    ASSUME TitleTyped, AgreedInv, NEW t \in Transactions, Commit(t)
    PROVE  AgreedInv'
<1> SUFFICES ASSUME ~overlapped' PROVE Agreed' /\ \A u \in Transactions : Fresh(u)'
  BY DEF AgreedInv
<1>1. ~overlapped
  BY CommitFacts
<1>2. Agreed /\ \A u \in Transactions : Fresh(u)
  BY <1>1 DEF AgreedInv
<1>3. CommitsAgreed(t)
  BY <1>2 DEF CommitsAgreed
<1>4. Fresh(t)'
  BY CommitFacts DEF Fresh, InProgress, TitleTyped, RequestsTyped
<1>5. \A u \in Transactions \ {t} : Fresh(u)'
  BY <1>2, <1>3, OtherCommitted
<1>6. Agreed'
  BY <1>3, BalancesCommitted, TitleCommitted, CreditCommitted, ReversalCommitted DEF Agreed
<1>7. QED
  BY <1>4, <1>5, <1>6

LEMMA TitleStepAgrees ==
    ASSUME TitleTyped, AgreedInv, [TitleNext]_titleVars
    PROVE  AgreedInv'
<1>1. CASE UNCHANGED titleVars
  <2>1. Pending /\ request' = request /\ step' = step /\ lock' = lock
    BY <1>1 DEF titleVars, Pending
  <2>2. ASSUME Agreed /\ \A t \in Transactions : Fresh(t)
        PROVE  Agreed' /\ \A t \in Transactions : Fresh(t)'
    BY <2>1, <2>2, OtherFresh, PendingAgreed DEF TitleTyped, RequestsTyped
  <2>3. QED
    BY <2>1, <2>2 DEF AgreedInv, Pending
<1>2. CASE TitleNext
  <2>1. PICK t \in Transactions :
          \/ Open(t)
          \/ ReadInstallment(t) \/ PlanSettle(t)
          \/ LockInstallment(t) \/ LockTitle(t) \/ CheckIntegral(t)
          \/ ReadSettlement(t) \/ PlanReverse(t)
          \/ ReadCredit(t) \/ PlanCredit(t)
          \/ WriteInstallment(t) \/ ReadOpens(t) \/ WriteStatuses(t)
          \/ WriteTitle(t) \/ WriteCredit(t)
          \/ Commit(t) \/ Abort(t)
    BY <1>2 DEF TitleNext
  <2>2. QED
    BY <2>1, OpenKeeps, ReadsKeep, SettleKeeps, LockInstallmentKeeps, LockTitleKeeps,
       CheckIntegralKeeps, ReverseKeeps, CreditKeeps, WriteKeeps, ReadOpensKeeps,
       WriteStatusesKeeps, WriteTitleKeeps, CommitKeeps, AbortKeeps
<1>3. QED
  BY <1>1, <1>2

\* The settlements made before the first request account for the balances.
LEMMA TitleInitAgreed ==
    ASSUME TitleInit
    PROVE  Agreed
<1>0. /\ settlements = {FirstSettlement[i] : i \in SettledBefore}
      /\ SettledBefore \subseteq Parcels /\ open = FirstOpen
      /\ \A i \in SettledBefore :
            /\ FirstSettlement[i].kind = "BAIXA" /\ FirstSettlement[i].installment = i
            /\ FirstSettlement[i].amount = Original[i]
  BY FirstSettlements, ReceivablesAssumption DEF FirstSettlement, TitleInit
<1>1. AmountsOf({}) = 0
  BY SumOfNothing DEF AmountsOf
<1>2. ASSUME NEW i \in Parcels
      PROVE  Taken(i) = Original[i] - open[i]
  <2> DEFINE out == SettlementKinds \ {"ESTORNO"}
             back == {"ESTORNO"}
             S(K) == {s \in settlements : s.installment = i /\ s.kind \in K}
  <2>1. Taken(i) = AmountsOf(S(out)) - AmountsOf(S(back))
    BY DEF Taken, Settled
  <2>2. S(back) = {}
    BY <1>0
  <2>3. S(out) = IF i \in SettledBefore THEN {FirstSettlement[i]} ELSE {}
    BY <1>0 DEF SettlementKinds
  <2>4. Original[i] \in Nat /\ open[i] = IF i \in SettledBefore THEN 0 ELSE Original[i]
    BY <1>0, OriginalTyped DEF FirstOpen
  <2>5. i \in SettledBefore => AmountsOf({FirstSettlement[i]}) = Original[i]
    BY <1>0, <2>4, AmountsOfOne
  <2> HIDE DEF S
  <2>6. QED
    BY <1>1, <2>1, <2>2, <2>3, <2>4, <2>5
<1>3. BalancesFollowSettlements
  <2>1. \A i \in Parcels : open[i] \in Nat /\ Original[i] \in Nat
    BY <1>0, OriginalTyped DEF FirstOpen
  <2>2. \A i \in Parcels : status[i] = InstallmentStatus(i, open[i])
    BY DEF TitleInit
  <2>3. QED
    BY <1>2, <2>1, <2>2 DEF BalancesFollowSettlements
<1>4. TitleFollowsInstallments
  BY DEF TitleFollowsInstallments, TitleInit
<1>5. credit = CreditTotal - SpentCredit
  <2>1. {s \in settlements : s.kind = "ABATIMENTO_CREDITO"} = {}
    BY <1>0
  <2>2. SpentCredit = 0
    BY <1>1, <2>1 DEF SpentCredit
  <2>3. credit = CreditTotal /\ CreditTotal \in Nat
    BY ReceivablesAssumption DEF TitleInit
  <2>4. QED
    BY <2>2, <2>3
<1>6. ReversedOnce
  BY <1>0 DEF ReversedOnce
<1>7. QED
  BY <1>3, <1>4, <1>5, <1>6 DEF Agreed

LEMMA TitleInitAgrees ==
    ASSUME TitleInit
    PROVE  AgreedInv
<1>1. ASSUME NEW t \in Transactions PROVE Fresh(t)
  <2>1. step[t] = "new" /\ \A s \in settlements : s.by = NoTx
    BY <1>1, FirstSettlements DEF TitleInit, FirstSettlement
  <2>2. QED
    BY <2>1, ReceivablesAssumption DEF Fresh, InProgress
<1>2. QED
  BY <1>1, TitleInitAgreed DEF AgreedInv

\* Receivables: as long as the only requests that overlap are settleIntegral's,
\* balances, statuses, title and credit agree with the settlements and no
\* settlement is reversed twice.
THEOREM LockedRequests == TitleSpec => []LockedRequestsAgree
<1>1. TitleInit => TitleTyped /\ AgreedInv
  BY TitleInitTyped, TitleInitAgrees
<1>2. TitleTyped /\ AgreedInv /\ [TitleNext]_titleVars => TitleTyped' /\ AgreedInv'
  BY TitleStepTyped, TitleStepAgrees
<1>3. AgreedInv => LockedRequestsAgree
  BY DEF AgreedInv, Agreed, LockedRequestsAgree
<1>4. QED
  BY <1>1, <1>2, <1>3, PTL DEF TitleSpec
=============================================================================
