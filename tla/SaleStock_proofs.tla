------------------------- MODULE SaleStock_proofs -------------------------
(***************************************************************************)
(* Proofs about SaleStock, for any number of requests, lines and products:  *)
(* no exit of a line is recorded twice, though no constraint of the         *)
(* database says so; a sale that is FINALIZADA is paid, once; every column  *)
(* keeps its type; and requests that do not overlap leave the stock, the    *)
(* total and the payments as the lines of the sale ask.                     *)
(***************************************************************************)
EXTENDS SaleStock, FiniteSetTheorems, SumTheorems, TLAPS

AllKinds == {"add", "update", "remove", "recalculate", "finalize", "cancel", "cancelOs"}
Steps ==
    {"item", "refs", "return", "line", "revision", "revision-ref", "revision-return",
     "available", "revise", "launch", "sum", "total", "header", "lines", "exits", "pay",
     "commit"}
Fields == {"kind", "line", "quantity", "seen", "todo", "at", "last", "total", "moves",
           "newLine", "status", "newTotal", "payments"}

\* The shape of the state, as far as the theorems depend on it.
Shape ==
    /\ my = [t \in Tx |-> my[t]]
    /\ \A t \in Tx : my[t] = [f \in Fields |-> my[t][f]]
    /\ pc \in [Tx -> Steps \cup {"new", "done"}]
    /\ lock \in [LockRows -> Tx \cup {NoTx}]

\* The exits of a line come after the line: it is one the sale starts with, or
\* the request that adds it has committed.
Born(i) == i \in Lines /\ (i \in Tx => pc[i] = "done")
SameExit(m, n) ==
    m.ref \in Exits /\ << m.line, m.ref, m.revision >> = << n.line, n.ref, n.revision >>

Paid == sale.payments = {} \/ \E x \in sale.payments : sale.payments = {x}
Committed ==
    /\ \A i \in Lines : line[i] # Absent => Born(i)
    /\ \A m \in moves : m.ref \in Exits => Born(m.line)
    /\ ExitsRecordedOnce
    /\ Paid /\ (sale.status = "FINALIZADA" => sale.payments # {})

\* Which statements are part of which requests.
PartOf(kind, label) ==
    /\ label = "item" => kind \in {"update", "remove"}
    /\ label \in {"refs", "return"} => kind \in {"update", "remove", "cancel", "cancelOs"}
    /\ label = "header" => kind \in {"recalculate", "finalize", "cancel", "cancelOs"}
    /\ label = "lines" => kind \in {"finalize", "cancel", "cancelOs"}
    /\ label \in {"exits", "pay"} => kind = "finalize"
    /\ label \in {"revision", "revision-ref", "revision-return", "revise"} => kind = "update"
    /\ label = "available" => kind \in {"add", "update"}
    /\ label = "launch" => kind = "add"
    /\ label = "line" => kind \in {"update", "remove"}
    /\ label \in {"sum", "total"} => kind \in {"add", "update", "remove", "recalculate"}
    /\ kind = "finalize" => label \in {"header", "lines", "exits", "pay", "commit"}

\* What a request asks for, and how far it is.
AskedBy(t) ==
    /\ ~UnderWay(t) => my[t] = Idle
    /\ UnderWay(t) =>
        /\ my[t].kind \in AllKinds /\ my[t].line \in Lines
        /\ my[t].kind \in {"update", "remove"} => Born(my[t].line)
        /\ my[t].kind \notin {"update", "remove"} => my[t].line = t
    /\ pc[t] \in Steps => PartOf(my[t].kind, pc[t])
    /\ pc[t] \in {"available", "launch"} /\ my[t].kind = "add" => my[t].moves = {}

\* The lines to give an exit to are listed once.
ListedBy(t) ==
    At(t, "exits") =>
        /\ \A e \in my[t].todo : Born(e[1])
        /\ \A e, f \in my[t].todo : e[1] = f[1] => e = f

\* Whoever records an exit holds the product, and sees no other of its kind.
RecordedBy(t) ==
    /\ At(t, "launch") => lock[ProductOf[my[t].line]] = t
    /\ \A m \in my[t].moves : m.ref \in Exits =>
        /\ m.line \in Lines /\ lock[ProductOf[m.line]] = t
        /\ m.line = t \/ Born(m.line)
    /\ \A m, n \in Visible(t) : SameExit(m, n) => m = n

\* Whoever pays the sale holds its row, which nobody has paid before.
PaidBy(t) ==
    /\ my[t].kind = "finalize" /\ pc[t] # "header" => lock[Sale] = t
    /\ my[t].status = "FINALIZADA" /\ my[t].status # Unwritten => my[t].kind = "finalize"
    /\ my[t].kind = "finalize" /\ At(t, "commit") => my[t].payments # {}
    /\ my[t].payments # {} =>
        /\ my[t].kind = "finalize" /\ At(t, "commit")
        /\ sale.payments = {} /\ \E x \in my[t].payments : my[t].payments = {x}

RequestOK(t) == AskedBy(t) /\ ListedBy(t) /\ RecordedBy(t) /\ PaidBy(t)

IInv == Shape /\ Committed /\ \A t \in Tx : RequestOK(t)

-----------------------------------------------------------------------------
LEMMA Sorts ==
    /\ Tx \subseteq Lines /\ Launched \subseteq Lines /\ NoTx \notin Tx
    /\ Sale \in LockRows /\ Sale \notin Lines
    /\ \A i \in Lines : ProductOf[i] \in LockRows /\ ProductOf[i] # Sale /\ i \in LockRows
  BY SaleAssumption DEF Lines, LockRows

LEMMA IdleFacts ==
    /\ Idle.kind = "none" /\ Idle.moves = {} /\ Idle.payments = {} /\ Idle.status = Unwritten
    /\ Idle = [f \in Fields |-> Idle[f]]
  BY DEF Idle, Fields

LEMMA InitInvariant == Init => IInv
<1> SUFFICES ASSUME Init PROVE IInv
  OBVIOUS
<1>. USE Sorts
<1>1. Shape
  BY IdleFacts DEF Init, Shape
<1>2. \A i \in Launched : Born(i)
  BY SaleAssumption DEF Born
<1>3. \A m, n \in moves : SameExit(m, n) => m = n
  BY DEF Init, Movement, SameExit
<1>4. \A m \in moves : m.line \in Launched
  BY DEF Init, Movement
<1>5. Committed
  <2>1. \A i \in Lines : line[i] # Absent => i \in Launched
    BY DEF Init, StartLines
  <2>2. ExitsRecordedOnce
    BY <1>3 DEF SameExit, ExitsRecordedOnce
  <2>3. sale.status = "ABERTA" /\ sale.payments = {}
    BY DEF Init
  <2>. QED  BY <1>2, <1>4, <2>1, <2>2, <2>3 DEF Committed, Paid
<1>6. ASSUME NEW t \in Tx PROVE RequestOK(t)
  <2>1. my[t] = Idle /\ pc[t] = "new"
    BY DEF Init
  <2>2. Visible(t) = moves
    BY <2>1, IdleFacts DEF Visible
  <2>. QED  BY <1>3, <2>1, <2>2, IdleFacts
            DEF RequestOK, AskedBy, ListedBy, RecordedBy, PaidBy, UnderWay, At, Steps
<1>. QED  BY <1>1, <1>5, <1>6 DEF IInv

-----------------------------------------------------------------------------
\* A request goes on.

\* It takes locks that are free, and keeps those it has.
TakesLocks(t) ==
    /\ lock' \in [LockRows -> Tx \cup {NoTx}]
    /\ \A r \in LockRows : lock[r] # NoTx => lock'[r] = lock[r]

LEMMA RequestGoesOn ==
    ASSUME IInv, NEW t \in Tx, pc[t] # "done", NEW label \in Steps, Go(t, label), Pending,
           TakesLocks(t), NEW r, my' = [my EXCEPT ![t] = r], r = [f \in Fields |-> r[f]],
           RequestOK(t)'
    PROVE  IInv'
<1>. USE Sorts
<1>1. /\ \A u \in Tx \ {t} : pc'[u] = pc[u] /\ my'[u] = my[u]
      /\ pc'[t] = label /\ my'[t] = r
      /\ UNCHANGED << sale, line, moves, overlap >>
  BY DEF IInv, Shape, Go, Pending
<1>2. Shape'
  BY <1>1 DEF IInv, Shape, Go, TakesLocks
<1>3. \A i : Born(i) => Born(i)'
  BY <1>1 DEF Born
<1>4. Committed'
  BY <1>1, <1>3 DEF IInv, Committed, Paid, ExitsRecordedOnce
<1>5. ASSUME NEW u \in Tx \ {t} PROVE RequestOK(u)'
  <2>1. RequestOK(u) /\ pc'[u] = pc[u] /\ my'[u] = my[u]
    BY <1>1 DEF IInv
  <2>2. AskedBy(u)' /\ ListedBy(u)'
    BY <2>1, <1>3 DEF RequestOK, AskedBy, ListedBy, UnderWay, At
  <2>3. \A i \in LockRows : lock[i] = u => lock'[i] = u
    BY DEF TakesLocks
  <2>4. At(u, "launch") => my[u].line \in Lines
    BY <2>1 DEF RequestOK, AskedBy, UnderWay, At
  <2>5. RecordedBy(u)'
    BY <1>1, <1>3, <2>1, <2>3, <2>4 DEF RequestOK, RecordedBy, Visible, SameExit, At
  <2>6. PaidBy(u)'
    BY <1>1, <2>1, <2>3 DEF RequestOK, PaidBy, At
  <2>. QED  BY <2>2, <2>5, <2>6 DEF RequestOK
<1>. QED  BY <1>2, <1>4, <1>5 DEF IInv

\* What is left alone of a request by a step that records nothing.
SameDraft(t) ==
    /\ my' = [my EXCEPT ![t] = my'[t]] /\ my'[t] = [f \in Fields |-> my'[t][f]]
    /\ my'[t].kind = my[t].kind /\ my'[t].line = my[t].line
    /\ my'[t].moves = my[t].moves /\ my'[t].payments = my[t].payments

\* Where a request may go on.
MayGoOn(t, label) ==
    /\ PartOf(my[t].kind, label)
    /\ my[t].kind = "finalize" => label # "commit"
    /\ my[t].kind = "finalize" /\ label # "header" => lock'[Sale] = t
    /\ label = "launch" => lock'[ProductOf[my[t].line]] = t
    /\ label \in {"available", "launch"} /\ my[t].kind = "add" => pc[t] = "available"

LEMMA QuietStep ==
    ASSUME IInv, NEW t \in Tx, pc[t] \in Steps \ {"commit"}, NEW label \in Steps, Go(t, label),
           Pending, TakesLocks(t), SameDraft(t), MayGoOn(t, label),
           my'[t].status \notin {my[t].status, Unwritten} /\ my[t].kind # "finalize" =>
               my'[t].status # "FINALIZADA",
           label = "exits" => /\ \A e \in my'[t].todo : Born(e[1])
                              /\ \A e, f \in my'[t].todo : e[1] = f[1] => e = f
    PROVE  IInv'
<1>. USE Sorts
<1>1. RequestOK(t) /\ UnderWay(t) /\ pc[t] # "done"
  BY DEF IInv, UnderWay, Steps
<1>2. /\ pc'[t] = label /\ \A u \in Tx \ {t} : pc'[u] = pc[u]
      /\ UNCHANGED << sale, line, moves, overlap >>
  BY DEF IInv, Shape, Go, Pending
<1>3. \A i : Born(i) => Born(i)'
  BY <1>1, <1>2 DEF Born
<1>4. AskedBy(t)'
  BY <1>1, <1>2, <1>3 DEF RequestOK, AskedBy, UnderWay, At, SameDraft, MayGoOn, PartOf, Steps
<1>5. ListedBy(t)'
  BY <1>2, <1>3 DEF ListedBy, At
<1>6. Visible(t)' = Visible(t)
  BY <1>2 DEF Visible, SameDraft
<1>7. RecordedBy(t)'
  <2>1. my[t].line \in Lines
    BY <1>1 DEF RequestOK, AskedBy
  <2>2. \A m \in my[t].moves : m.ref \in Exits =>
            m.line \in Lines /\ lock'[ProductOf[m.line]] = t /\ (m.line = t \/ Born(m.line)')
    BY <1>1, <1>3 DEF RequestOK, RecordedBy, TakesLocks
  <2>3. \A m, n \in Visible(t) : SameExit(m, n) => m = n
    BY <1>1 DEF RequestOK, RecordedBy
  <2>. QED  BY <1>2, <1>6, <2>1, <2>2, <2>3 DEF RecordedBy, SameExit, SameDraft, MayGoOn, At
<1>8. PaidBy(t)'
  BY <1>1, <1>2 DEF RequestOK, PaidBy, At, SameDraft, MayGoOn
<1>. QED  BY <1>1, <1>4, <1>5, <1>7, <1>8, RequestGoesOn DEF RequestOK, SameDraft

LEMMA KeepsLocks == ASSUME IInv, NEW t, UNCHANGED lock PROVE TakesLocks(t)
  BY DEF IInv, Shape, TakesLocks

LEMMA TakesOne ==
    ASSUME IInv, NEW t \in Tx, NEW r \in LockRows, MayLock(t, r), lock' = [lock EXCEPT ![r] = t]
    PROVE  TakesLocks(t) /\ lock'[r] = t
  BY Sorts DEF IInv, Shape, TakesLocks, MayLock

\* What an assignment to fields of a request leaves alone.
LEMMA Unassigned ==
    ASSUME IInv, NEW t \in Tx, UNCHANGED my
    PROVE  SameDraft(t) /\ my'[t].status = my[t].status
  BY DEF IInv, Shape, SameDraft

LEMMA AssignedOne ==
    ASSUME IInv, NEW t \in Tx, NEW field \in {"todo", "last", "total", "newLine", "newTotal"},
           NEW value, Keep(t, field, value)
    PROVE  SameDraft(t) /\ my'[t].status = my[t].status /\ my'[t][field] = value
  BY DEF IInv, Shape, SameDraft, Keep, Fields

LEMMA AssignedTwo ==
    ASSUME IInv, NEW t \in Tx, NEW f \in {"seen", "todo", "status"},
           NEW g \in {"todo", "at", "total"}, NEW a, NEW b,
           my' = [my EXCEPT ![t] = [[my[t] EXCEPT ![f] = a] EXCEPT ![g] = b]]
    PROVE  SameDraft(t) /\ my'[t].status = IF f = "status" THEN a ELSE my[t].status
<1>1. my[t] = [x \in Fields |-> my[t][x]] /\ my = [u \in Tx |-> my[u]]
  BY DEF IInv, Shape
<1>2. my'[t] = [x \in Fields |-> IF x = g THEN b ELSE IF x = f THEN a ELSE my[t][x]]
  BY <1>1 DEF Fields
<1>3. my' = [my EXCEPT ![t] = my'[t]]
  BY <1>1
<1>4. my'[t] = [x \in Fields |-> my'[t][x]]
  BY <1>2
<1>5. \A x \in Fields \ {f, g} : my'[t][x] = my[t][x]
  BY <1>2
<1>6. /\ my'[t].kind = my[t].kind /\ my'[t].line = my[t].line
      /\ my'[t].moves = my[t].moves /\ my'[t].payments = my[t].payments
  BY <1>5 DEF Fields
<1>7. my'[t].status = IF f = "status" THEN a ELSE my[t].status
  BY <1>2 DEF Fields
<1>. QED  BY <1>3, <1>4, <1>6, <1>7 DEF SameDraft

\* What the request of a step is about.
LEMMA StepFacts ==
    ASSUME IInv, NEW t \in Tx, pc[t] \in Steps
    PROVE  /\ AskedBy(t) /\ PaidBy(t) /\ RecordedBy(t) /\ ListedBy(t) /\ UnderWay(t)
           /\ my[t].kind \in AllKinds /\ my[t].line \in Lines
           /\ my[t].kind \notin {"update", "remove"} => my[t].line = t
           /\ ProductOf[my[t].line] \in LockRows
  BY Sorts DEF IInv, RequestOK, AskedBy, UnderWay, Steps

-----------------------------------------------------------------------------
LEMMA ReadingSteps ==
    ASSUME IInv, NEW t \in Tx, ReadItem(t) \/ ReadRevision(t) \/ LookUpRevision(t)
                               \/ ReviseAlreadyDone(t) \/ SumLines(t) \/ FinishReturns(t)
    PROVE  IInv'
<1>. USE Sorts
<1>1. Pending /\ UNCHANGED lock
  BY DEF ReadItem, ReadRevision, LookUpRevision, ReviseAlreadyDone, SumLines, FinishReturns
<1>2. TakesLocks(t)
  BY <1>1, KeepsLocks
<1>3. CASE ReadItem(t)
  <2>1. pc[t] = "item" /\ AskedBy(t)
    BY <1>3, StepFacts DEF ReadItem, At, Steps
  <2>2. PICK label \in {"line", "refs"} : Go(t, label)
    BY <1>3 DEF ReadItem
  <2>3. my[t].kind \in {"update", "remove"}
    BY <2>1 DEF AskedBy, PartOf, Steps
  <2>4. PICK q, todo :
            my' = [my EXCEPT ![t] = [[my[t] EXCEPT !["seen"] = q] EXCEPT !["todo"] = todo]]
    BY <1>3 DEF ReadItem, IInv, Shape
  <2>5. SameDraft(t) /\ my'[t].status = my[t].status
    BY <2>4, AssignedTwo
  <2>. QED  BY <1>1, <1>2, <2>1, <2>2, <2>3, <2>5, QuietStep DEF Steps, MayGoOn, PartOf
<1>4. CASE ReadRevision(t)
  <2>1. pc[t] = "revision" /\ my[t].kind = "update"
    BY <1>4, StepFacts DEF ReadRevision, At, Steps, AskedBy, PartOf
  <2>2. SameDraft(t) /\ my'[t].status = my[t].status
    BY <1>4, AssignedOne DEF ReadRevision
  <2>. QED  BY <1>1, <1>2, <1>4, <2>1, <2>2, QuietStep DEF ReadRevision, Steps, MayGoOn, PartOf
<1>5. CASE LookUpRevision(t)
  <2>1. pc[t] = "revision-ref" /\ my[t].kind = "update"
    BY <1>5, StepFacts DEF LookUpRevision, At, Steps, AskedBy, PartOf
  <2>2. PICK label \in {"revision-return", "available"} : Go(t, label)
    BY <1>5 DEF LookUpRevision
  <2>3. SameDraft(t) /\ my'[t].status = my[t].status
    BY <1>5, Unassigned DEF LookUpRevision
  <2>. QED  BY <1>1, <1>2, <2>1, <2>2, <2>3, QuietStep DEF Steps, MayGoOn, PartOf
<1>6. CASE ReviseAlreadyDone(t)
  <2>1. pc[t] = "revise" /\ my[t].kind = "update"
    BY <1>6, StepFacts DEF ReviseAlreadyDone, At, Steps, AskedBy, PartOf
  <2>2. SameDraft(t) /\ my'[t].status = my[t].status
    BY <1>6, Unassigned DEF ReviseAlreadyDone
  <2>. QED  BY <1>1, <1>2, <1>6, <2>1, <2>2, QuietStep DEF ReviseAlreadyDone, Steps, MayGoOn, PartOf
<1>7. CASE SumLines(t)
  <2>1. pc[t] = "sum" /\ my[t].kind \in {"add", "update", "remove", "recalculate"}
    BY <1>7, StepFacts DEF SumLines, At, Steps, AskedBy, PartOf
  <2>2. SameDraft(t) /\ my'[t].status = my[t].status
    BY <1>7, AssignedOne DEF SumLines
  <2>. QED  BY <1>1, <1>2, <1>7, <2>1, <2>2, QuietStep DEF SumLines, Steps, MayGoOn, PartOf
<1>8. CASE FinishReturns(t)
  <2>1. pc[t] = "refs" /\ my[t].kind \in {"update", "remove", "cancel", "cancelOs"}
    BY <1>8, StepFacts DEF FinishReturns, At, Steps, AskedBy, PartOf
  <2>2. SameDraft(t) /\ my'[t].status = my[t].status
    BY <1>8, Unassigned DEF FinishReturns
  <2>. QED  BY <1>1, <1>2, <1>8, <2>1, <2>2, QuietStep
            DEF FinishReturns, AfterReturns, Steps, MayGoOn, PartOf
<1>. QED  BY <1>3, <1>4, <1>5, <1>6, <1>7, <1>8

LEMMA ListingSteps ==
    ASSUME IInv, NEW t \in Tx, ReadLines(t) \/ LookUpReturn(t)
    PROVE  IInv'
<1>. USE Sorts
<1>1. Pending /\ UNCHANGED lock /\ TakesLocks(t)
  BY KeepsLocks DEF ReadLines, LookUpReturn
<1>2. CASE ReadLines(t)
  <2>1. pc[t] = "lines" /\ my[t].kind \in {"finalize", "cancel", "cancelOs"} /\ PaidBy(t)
    BY <1>2, StepFacts DEF ReadLines, At, Steps, AskedBy, PartOf
  <2>2. PICK label \in {"exits", "refs"} :
            Go(t, label) /\ (label = "exits" <=> my[t].kind = "finalize")
    BY <1>2 DEF ReadLines, Present
  <2>3. DEFINE todo == {<< i, LinesSeen(t)[i] >> : i \in {j \in Lines : line[j] # Absent}}
  <2>4. Keep(t, "todo", todo)
    BY <1>2 DEF ReadLines, Present
  <2>5. SameDraft(t) /\ my'[t].status = my[t].status /\ my'[t].todo = todo
    BY <2>4, AssignedOne
  <2>6. /\ \A e \in todo : Born(e[1])
        /\ \A e, f \in todo : e[1] = f[1] => e = f
    BY DEF IInv, Committed
  <2>7. MayGoOn(t, label)
    BY <1>1, <2>1, <2>2 DEF MayGoOn, PartOf, PaidBy
  <2>. HIDE DEF todo
  <2>. QED  BY <1>1, <2>1, <2>2, <2>5, <2>6, <2>7, QuietStep DEF Steps
<1>3. CASE LookUpReturn(t)
  <2>1. pc[t] = "refs" /\ my[t].kind \in {"update", "remove", "cancel", "cancelOs"}
    BY <1>3, StepFacts DEF LookUpReturn, At, Steps, AskedBy, PartOf
  <2>2. PICK label \in {"refs", "return"} : Go(t, label)
    BY <1>3, <2>1 DEF LookUpReturn, Go, IInv, Shape
  <2>3. PICK todo, e :
            my' = [my EXCEPT ![t] = [[my[t] EXCEPT !["todo"] = todo] EXCEPT !["at"] = e]]
    BY <1>3 DEF LookUpReturn, IInv, Shape
  <2>4. SameDraft(t) /\ my'[t].status = my[t].status
    BY <2>3, AssignedTwo
  <2>. QED  BY <1>1, <2>1, <2>2, <2>4, QuietStep DEF Steps, MayGoOn, PartOf
<1>. QED  BY <1>2, <1>3

LEMMA LockingSteps ==
    ASSUME IInv, NEW t \in Tx,
           LockAvailable(t) \/ WriteLine(t) \/ WriteTotal(t) \/ WriteHeader(t)
    PROVE  IInv'
<1>. USE Sorts
<1>1. Pending
  BY DEF LockAvailable, WriteLine, WriteTotal, WriteHeader
<1>2. CASE LockAvailable(t)
  <2>1. pc[t] = "available" /\ my[t].kind \in {"add", "update"} /\ my[t].line \in Lines
        /\ ProductOf[my[t].line] \in LockRows
    BY <1>2, StepFacts DEF LockAvailable, At, Steps, AskedBy, PartOf
  <2>2. PICK label \in {"launch", "revise"} :
            Go(t, label) /\ (label = "launch" <=> my[t].kind = "add")
    BY <1>2 DEF LockAvailable
  <2>3. TakesLocks(t) /\ lock'[ProductOf[my[t].line]] = t
    BY <1>2, <2>1, TakesOne DEF LockAvailable
  <2>4. SameDraft(t) /\ my'[t].status = my[t].status
    BY <1>2, Unassigned DEF LockAvailable
  <2>5. MayGoOn(t, label)
    BY <2>1, <2>2, <2>3 DEF MayGoOn, PartOf
  <2>. QED  BY <1>1, <2>1, <2>2, <2>3, <2>4, <2>5, QuietStep DEF Steps
<1>3. CASE WriteLine(t)
  <2>1. pc[t] = "line" /\ my[t].kind \in {"update", "remove"} /\ my[t].line \in LockRows
    BY <1>3, StepFacts DEF WriteLine, At, Steps, AskedBy, PartOf
  <2>2. TakesLocks(t)
    BY <1>3, <2>1, TakesOne DEF WriteLine
  <2>3. SameDraft(t) /\ my'[t].status = my[t].status
    BY <1>3, AssignedOne DEF WriteLine
  <2>. QED  BY <1>1, <1>3, <2>1, <2>2, <2>3, QuietStep DEF WriteLine, Steps, MayGoOn, PartOf
<1>4. CASE WriteTotal(t)
  <2>1. pc[t] = "total" /\ my[t].kind \in {"add", "update", "remove", "recalculate"}
    BY <1>4, StepFacts DEF WriteTotal, At, Steps, AskedBy, PartOf
  <2>2. TakesLocks(t)
    BY <1>4, TakesOne DEF WriteTotal
  <2>3. SameDraft(t) /\ my'[t].status = my[t].status
    BY <1>4, AssignedOne DEF WriteTotal
  <2>. QED  BY <1>1, <1>4, <2>1, <2>2, <2>3, QuietStep DEF WriteTotal, Steps, MayGoOn, PartOf
<1>5. CASE WriteHeader(t)
  <2>1. pc[t] = "header" /\ my[t].kind \in {"recalculate", "finalize", "cancel", "cancelOs"}
    BY <1>5, StepFacts DEF WriteHeader, At, Steps, AskedBy, PartOf
  <2>2. PICK label \in {"sum", "commit", "lines"} :
            /\ Go(t, label)
            /\ my[t].kind \in {"finalize", "cancel"} => label = "lines"
            /\ my[t].kind = "recalculate" => label # "lines"
            /\ my[t].kind = "cancelOs" => label = "commit"
    <3>1. Go(t, AfterHeader(t))
      BY <1>5 DEF WriteHeader
    <3>. QED  BY <2>1, <3>1 DEF AfterHeader
  <2>3. TakesLocks(t) /\ lock'[Sale] = t
    BY <1>5, TakesOne DEF WriteHeader
  <2>4. PICK total :
            my' = [my EXCEPT ![t] = [[my[t] EXCEPT !["status"] = NewStatus(my[t].kind)]
                                            EXCEPT !["total"] = total]]
    BY <1>5 DEF WriteHeader, IInv, Shape
  <2>5. SameDraft(t) /\ my'[t].status = NewStatus(my[t].kind)
    BY <2>4, AssignedTwo
  <2>6. my[t].kind = "finalize" \/ my'[t].status # "FINALIZADA"
        \/ my'[t].status = Unwritten
    BY <2>1, <2>5 DEF NewStatus
  <2>7. MayGoOn(t, label)
    BY <2>1, <2>2, <2>3 DEF MayGoOn, PartOf
  <2>. QED  BY <1>1, <2>1, <2>2, <2>3, <2>5, <2>6, <2>7, QuietStep DEF Steps
<1>. QED  BY <1>2, <1>3, <1>4, <1>5

\* A request begins, while the sale is open.
LEMMA OpeningStep ==
    ASSUME IInv, NEW t \in Tx, Open(t)
    PROVE  IInv'
<1>. USE Sorts
<1>1. pc[t] = "new" /\ my[t] = Idle /\ UNCHANGED << lock, sale, line, moves, overlap >> /\ Pending
  BY DEF Open, At, IInv, RequestOK, AskedBy, UnderWay, Pending
<1>2. PICK kind \in Kinds, i \in Lines, q \in Quantities :
          /\ kind \in {"update", "remove"} => line[i] # Absent
          /\ kind \notin {"update", "remove"} => i = t
          /\ my' = [my EXCEPT ![t] = [Idle EXCEPT !.kind = kind, !.line = i, !.quantity = q]]
          /\ Go(t, FirstStep(kind))
  BY DEF Open
<1>3. DEFINE r == [Idle EXCEPT !.kind = kind, !.line = i, !.quantity = q]
<1>4. kind \in AllKinds
  BY SaleAssumption DEF AllKinds
<1>5. PICK label \in {"available", "item", "header", "lines"} : Go(t, label) /\ PartOf(kind, label)
                                    /\ (kind = "finalize" => label = "header")
  BY <1>2, <1>4 DEF FirstStep, AllKinds, PartOf
<1>6. /\ r.kind = kind /\ r.line = i /\ r.moves = {} /\ r.payments = {} /\ r.status = Unwritten
      /\ r = [f \in Fields |-> r[f]]
  BY DEF Idle, Fields
<1>. HIDE DEF r
<1>7. my' = [my EXCEPT ![t] = r] /\ my'[t] = r /\ pc'[t] = label
  BY <1>2, <1>5 DEF r, Go, IInv, Shape
<1>8. \A x : Born(x) => Born(x)'
  BY <1>1, <1>5 DEF Born, Go, IInv, Shape
<1>9. AskedBy(t)'
  BY <1>2, <1>4, <1>5, <1>6, <1>7, <1>8 DEF AskedBy, UnderWay, At, IInv, Committed
<1>10. Visible(t)' = moves
  BY <1>1, <1>6, <1>7 DEF Visible
<1>11. ListedBy(t)' /\ RecordedBy(t)' /\ PaidBy(t)'
  BY <1>1, <1>5, <1>6, <1>7, <1>10
     DEF ListedBy, RecordedBy, PaidBy, At, IInv, Committed, ExitsRecordedOnce, SameExit
<1>12. TakesLocks(t)
  BY <1>1, KeepsLocks
<1>. QED  BY <1>1, <1>5, <1>6, <1>7, <1>9, <1>11, <1>12, RequestGoesOn DEF RequestOK, Steps

-----------------------------------------------------------------------------
\* A request records the movements M.
Records(t, M) ==
    /\ my' = [my EXCEPT ![t] = my'[t]] /\ my'[t] = [f \in Fields |-> my'[t][f]]
    /\ my'[t].kind = my[t].kind /\ my'[t].line = my[t].line
    /\ my'[t].payments = my[t].payments /\ my'[t].status = my[t].status
    /\ my'[t].moves = my[t].moves \cup M

LEMMA RecordingStep ==
    ASSUME IInv, NEW t \in Tx, pc[t] \in Steps \ {"commit"},
           NEW label \in Steps \ {"exits", "launch"}, Go(t, label),
           Pending, TakesLocks(t), MayGoOn(t, label), label = "available" => my[t].kind # "add",
           NEW M, Records(t, M),
           \A m \in M : m.ref \in Exits =>
               /\ m.line \in Lines /\ lock'[ProductOf[m.line]] = t
               /\ m.line = t \/ Born(m.line),
           \A m \in M, n \in M \cup Visible(t) : SameExit(m, n) => m = n
    PROVE  IInv'
<1>. USE Sorts
<1>1. RequestOK(t) /\ UnderWay(t) /\ pc[t] # "done"
  BY DEF IInv, UnderWay, Steps
<1>2. /\ pc'[t] = label /\ \A u \in Tx \ {t} : pc'[u] = pc[u]
      /\ UNCHANGED << sale, line, moves, overlap >>
  BY DEF IInv, Shape, Go, Pending
<1>3. \A i : Born(i) => Born(i)'
  BY <1>1, <1>2 DEF Born
<1>4. AskedBy(t)'
  BY <1>1, <1>2, <1>3 DEF RequestOK, AskedBy, UnderWay, At, Records, MayGoOn, PartOf, Steps
<1>5. ListedBy(t)'
  BY <1>2 DEF ListedBy, At
<1>6. Visible(t)' = Visible(t) \cup M
  BY <1>2 DEF Visible, Records
<1>7. RecordedBy(t)'
  <2>1. \A m \in my[t].moves : m.ref \in Exits =>
            m.line \in Lines /\ lock'[ProductOf[m.line]] = t /\ (m.line = t \/ Born(m.line)')
    BY <1>1, <1>3 DEF RequestOK, RecordedBy, TakesLocks
  <2>2. \A m \in M : m.ref \in Exits =>
            m.line \in Lines /\ lock'[ProductOf[m.line]] = t /\ (m.line = t \/ Born(m.line)')
    BY <1>3
  <2>3. \A m, n \in Visible(t) : SameExit(m, n) => m = n
    BY <1>1 DEF RequestOK, RecordedBy
  <2>4. \A m, n : SameExit(m, n) => SameExit(n, m)
    BY DEF SameExit
  <2>5. \A m, n \in Visible(t)' : SameExit(m, n) => m = n
    BY <1>6, <2>3, <2>4
  <2>6. At(t, "launch")' = FALSE
    BY <1>2 DEF At
  <2>. QED  BY <2>1, <2>2, <2>5, <2>6 DEF RecordedBy, Records, SameExit
<1>8. PaidBy(t)'
  BY <1>1, <1>2 DEF RequestOK, PaidBy, At, Records, MayGoOn
<1>. QED  BY <1>1, <1>4, <1>5, <1>7, <1>8, RequestGoesOn DEF RequestOK, Records

LEMMA AssignedField ==
    ASSUME IInv, NEW t \in Tx, NEW field \in {"moves", "payments"}, NEW value,
           Keep(t, field, value)
    PROVE  /\ my' = [my EXCEPT ![t] = my'[t]] /\ my'[t] = [f \in Fields |-> my'[t][f]]
           /\ my'[t].kind = my[t].kind /\ my'[t].line = my[t].line
           /\ my'[t].status = my[t].status /\ my'[t][field] = value
           /\ \A f \in Fields \ {field} : my'[t][f] = my[t][f]
<1>1. my[t] = [x \in Fields |-> my[t][x]] /\ my = [u \in Tx |-> my[u]]
  BY DEF IInv, Shape
<1>2. my'[t] = [x \in Fields |-> IF x = field THEN value ELSE my[t][x]]
  BY <1>1 DEF Keep, Fields
<1>3. my' = [my EXCEPT ![t] = my'[t]]
  BY <1>1 DEF Keep
<1>4. my'[t] = [x \in Fields |-> my'[t][x]]
  BY <1>2
<1>. QED  BY <1>2, <1>3, <1>4 DEF Fields

LEMMA InsertFacts ==
    ASSUME IInv, NEW t \in Tx, NEW i, NEW ref, NEW revision, NEW quantity,
           InsertMovement(t, i, ref, revision, quantity)
    PROVE  /\ TakesLocks(t) /\ Pending
           /\ ProductOf[i] \in LockRows => lock'[ProductOf[i]] = t
           /\ Records(t, {Movement(i, ref, revision, quantity, t)})
<1>1. MayLock(t, ProductOf[i]) /\ lock' = [lock EXCEPT ![ProductOf[i]] = t] /\ Pending
  BY DEF InsertMovement
<1>2. TakesLocks(t) /\ (ProductOf[i] \in LockRows => lock'[ProductOf[i]] = t)
  BY <1>1, Sorts DEF IInv, Shape, TakesLocks, MayLock
<1>3. PICK M : M = {Movement(i, ref, revision, quantity, t)}
  OBVIOUS
<1>4. Keep(t, "moves", my[t].moves \cup M)
  BY <1>3 DEF InsertMovement
<1>5. Records(t, M)
  BY <1>4 DEF IInv, Shape, Keep, Records, Fields
<1>. QED  BY <1>1, <1>2, <1>3, <1>5

\* What Movement says of a movement.
LEMMA MovementFields ==
    ASSUME NEW i, NEW ref, NEW revision, NEW quantity, NEW t
    PROVE  LET m == Movement(i, ref, revision, quantity, t)
           IN  m.line = i /\ m.ref = ref /\ m.revision = revision
  BY DEF Movement

LEMMA ReturningSteps ==
    ASSUME IInv, NEW t \in Tx, InsertReturn(t) \/ InsertRevisionReturn(t)
    PROVE  IInv'
<1>1. CASE InsertReturn(t)
  <2>1. pc[t] = "return" /\ my[t].kind \in {"update", "remove", "cancel", "cancelOs"}
        /\ Go(t, "refs")
    BY <1>1, StepFacts DEF InsertReturn, At, Steps, AskedBy, PartOf
  <2>2. DEFINE m == Movement(my[t].at[1], "RETURN", 0, my[t].at[2], t)
  <2>3. Records(t, {m}) /\ TakesLocks(t) /\ Pending
    BY <1>1, InsertFacts DEF InsertReturn
  <2>4. m.ref \notin Exits
    BY MovementFields DEF Exits
  <2>. HIDE DEF m
  <2>. QED  BY <2>1, <2>3, <2>4, RecordingStep DEF Steps, MayGoOn, PartOf, SameExit
<1>2. CASE InsertRevisionReturn(t)
  <2>1. pc[t] = "revision-return" /\ my[t].kind = "update" /\ Go(t, "available")
    BY <1>2, StepFacts DEF InsertRevisionReturn, At, Steps, AskedBy, PartOf
  <2>2. DEFINE m == Movement(my[t].line, "REV-RETURN", my[t].last, my[t].seen, t)
  <2>3. Records(t, {m}) /\ TakesLocks(t) /\ Pending
    BY <1>2, InsertFacts DEF InsertRevisionReturn
  <2>4. m.ref \notin Exits
    BY MovementFields DEF Exits
  <2>. HIDE DEF m
  <2>. QED  BY <2>1, <2>3, <2>4, RecordingStep DEF Steps, MayGoOn, PartOf, SameExit
<1>. QED  BY <1>1, <1>2

LEMMA RevisingStep ==
    ASSUME IInv, NEW t \in Tx, Revise(t)
    PROVE  IInv'
<1>. USE Sorts
<1>1. pc[t] = "revise" /\ my[t].kind = "update" /\ Go(t, "line") /\ my[t].line \in Lines
      /\ Born(my[t].line)
  BY StepFacts DEF Revise, At, Steps, AskedBy, PartOf
<1>. DEFINE m == Movement(my[t].line, "REV-OUT", my[t].last + 1, my[t].quantity, t)
<1>2. /\ Records(t, {m}) /\ TakesLocks(t) /\ Pending
      /\ lock'[ProductOf[my[t].line]] = t
  BY <1>1, InsertFacts DEF Revise
<1>3. m.line = my[t].line /\ m.ref = "REV-OUT" /\ m.revision = my[t].last + 1
  BY MovementFields
<1>. HIDE DEF m
<1>4. \A n \in Visible(t) : ~SameExit(m, n)
  BY <1>3 DEF Revise, RevisionTaken, Recorded, SameExit
<1>. QED  BY <1>1, <1>2, <1>3, <1>4, RecordingStep DEF Steps, MayGoOn, PartOf

LEMMA LaunchingStep ==
    ASSUME IInv, NEW t \in Tx, LaunchLine(t)
    PROVE  IInv'
<1>. USE Sorts
<1>1. /\ pc[t] = "launch" /\ my[t].kind = "add" /\ Go(t, "sum") /\ my[t].moves = {}
      /\ lock[ProductOf[t]] = t /\ Pending /\ UNCHANGED lock
  BY StepFacts DEF LaunchLine, At, Steps, AskedBy, PartOf, RecordedBy
<1>2. PICK m : m = Movement(t, "OUT", 0, my[t].quantity, t)
  OBVIOUS
<1>3. m.line = t /\ m.ref = "OUT"
  BY <1>2, MovementFields
<1>4. PICK M : M = {m}
  OBVIOUS
<1>5. my' = [my EXCEPT ![t] = [[my[t] EXCEPT !["newLine"] = my[t].quantity]
                                      EXCEPT !["moves"] = my[t].moves \cup M]]
  BY <1>2, <1>4 DEF LaunchLine, IInv, Shape, Fields
<1>6. Records(t, M)
  <2>1. my'[t] = [x \in Fields |-> IF x = "moves" THEN my[t].moves \cup M
                                   ELSE IF x = "newLine" THEN my[t].quantity ELSE my[t][x]]
    BY <1>5 DEF IInv, Shape, Fields
  <2>2. my'[t] = [x \in Fields |-> my'[t][x]]
    BY <2>1
  <2>3. my' = [my EXCEPT ![t] = my'[t]]
    BY <1>5 DEF IInv, Shape
  <2>. QED  BY <2>1, <2>2, <2>3 DEF Records, Fields
<1>7. \A n \in Visible(t) : ~SameExit(m, n)
  <2>1. \A n \in moves : n.ref \in Exits => n.line # t
    BY <1>1 DEF IInv, Committed, Born
  <2>. QED  BY <1>1, <1>3, <2>1 DEF Visible, SameExit
<1>8. TakesLocks(t)
  BY <1>1, KeepsLocks
<1>. QED  BY <1>1, <1>3, <1>4, <1>6, <1>7, <1>8, RecordingStep DEF Steps, MayGoOn, PartOf

LEMMA ExitingStep ==
    ASSUME IInv, NEW t \in Tx, InsertExits(t)
    PROVE  IInv'
<1>. USE Sorts
<1>1. /\ pc[t] = "exits" /\ my[t].kind = "finalize" /\ Go(t, "pay") /\ Pending
      /\ lock[Sale] = t /\ ListedBy(t)
  BY StepFacts DEF InsertExits, At, Steps, AskedBy, PartOf, PaidBy
<1>2. DEFINE missing == {e \in my[t].todo : ~Recorded(t, e[1], "OUT", 0)}
             products == {ProductOf[e[1]] : e \in missing}
             M == {Movement(e[1], "OUT", 0, e[2], t) : e \in missing}
<1>3. /\ \A p \in products : MayLock(t, p)
      /\ lock' = [r \in LockRows |-> IF r \in products THEN t ELSE lock[r]]
      /\ Keep(t, "moves", my[t].moves \cup M)
  BY DEF InsertExits
<1>4. \A e \in missing : Born(e[1]) /\ e[1] \in Lines
  BY <1>1 DEF ListedBy, At, Born
<1>5. \A e, f \in missing : e[1] = f[1] => e = f
  BY <1>1 DEF ListedBy, At
<1>6. \A m \in M : m.ref = "OUT" /\ m.revision = 0
                   /\ \E e \in missing : m.line = e[1] /\ m = Movement(e[1], "OUT", 0, e[2], t)
  BY MovementFields
<1>7. \A m \in M : m.line \in Lines /\ lock'[ProductOf[m.line]] = t /\ Born(m.line)
  BY <1>3, <1>4, <1>6
<1>8. \A m \in M, n \in M : m.line = n.line => m = n
  BY <1>5, <1>6
<1>9. \A m \in M, n \in Visible(t) : ~SameExit(m, n)
  BY <1>6 DEF Recorded, SameExit
<1>10. TakesLocks(t)
  BY <1>3 DEF IInv, Shape, TakesLocks, MayLock
<1>11. lock'[Sale] = t
  BY <1>1, <1>10 DEF TakesLocks
<1>. HIDE DEF M
<1>12. Records(t, M)
  BY <1>3, AssignedField DEF Records, Fields
<1>13. \A m \in M, n \in M \cup Visible(t) : SameExit(m, n) => m = n
  BY <1>8, <1>9 DEF SameExit
<1>14. MayGoOn(t, "pay")
  BY <1>1, <1>11 DEF MayGoOn, PartOf
<1>. QED  BY <1>1, <1>7, <1>10, <1>12, <1>13, <1>14, RecordingStep DEF Steps

LEMMA PayingStep ==
    ASSUME IInv, NEW t \in Tx, Pay(t)
    PROVE  IInv'
<1>. USE Sorts
<1>1. /\ pc[t] = "pay" /\ my[t].kind = "finalize" /\ Go(t, "commit") /\ Pending /\ UNCHANGED lock
      /\ lock[Sale] = t /\ sale.payments = {}
  BY StepFacts DEF Pay, HasNoPayments, At, Steps, AskedBy, PartOf, PaidBy
<1>2. PICK x : Keep(t, "payments", {x})
  BY DEF Pay
<1>3. /\ my' = [my EXCEPT ![t] = my'[t]] /\ my'[t] = [f \in Fields |-> my'[t][f]]
      /\ my'[t].kind = my[t].kind /\ my'[t].line = my[t].line
      /\ my'[t].moves = my[t].moves /\ my'[t].payments = {x}
  BY <1>2, AssignedField DEF Fields
<1>4. RequestOK(t) /\ UnderWay(t)
  BY <1>1 DEF IInv, UnderWay
<1>5. pc'[t] = "commit" /\ \A u \in Tx \ {t} : pc'[u] = pc[u]
  BY <1>1 DEF IInv, Shape, Go, Steps
<1>6. \A i : Born(i) => Born(i)'
  BY <1>1, <1>5 DEF Born
<1>7. AskedBy(t)' /\ ListedBy(t)'
  BY <1>1, <1>3, <1>4, <1>5
     DEF RequestOK, AskedBy, ListedBy, UnderWay, At, PartOf, Steps
<1>8. RecordedBy(t)'
  BY <1>1, <1>3, <1>4, <1>5, <1>6
     DEF RequestOK, RecordedBy, Visible, SameExit, At, Pending
<1>9. PaidBy(t)'
  BY <1>1, <1>3, <1>5 DEF PaidBy, At, Pending
<1>10. TakesLocks(t)
  BY <1>1, KeepsLocks
<1>. QED  BY <1>1, <1>3, <1>7, <1>8, <1>9, <1>10, RequestGoesOn DEF RequestOK, Steps

-----------------------------------------------------------------------------
\* A request ends: its locks are free, and what it recorded may be there.
LEMMA EndingStep ==
    ASSUME IInv, NEW t \in Tx, UnderWay(t), lock' = Freed(t), my' = [my EXCEPT ![t] = Idle],
           Go(t, "done"), moves' \in {moves, Visible(t)},
           sale'.payments \in {sale.payments, sale.payments \cup my[t].payments}, Committed'
    PROVE  IInv'
<1>. USE Sorts
<1>1. RequestOK(t)
  BY DEF IInv
<1>2. /\ pc'[t] = "done" /\ my'[t] = Idle
      /\ \A u \in Tx \ {t} : pc'[u] = pc[u] /\ my'[u] = my[u]
  BY DEF IInv, Shape, Go
<1>3. \A r \in LockRows : lock'[r] = IF lock[r] = t THEN NoTx ELSE lock[r]
  BY DEF Freed
<1>4. Shape'
  BY <1>2, IdleFacts DEF IInv, Shape, Go, Freed
<1>5. \A i : Born(i) => Born(i)'
  BY <1>2 DEF Born
<1>6. \A u \in Tx \ {t} : \A m \in my[u].moves, n \in my[t].moves : ~SameExit(m, n)
  <2> SUFFICES ASSUME NEW u \in Tx \ {t}, NEW m \in my[u].moves, NEW n \in my[t].moves,
                      SameExit(m, n)
               PROVE  FALSE
    OBVIOUS
  <2>1. m.line = n.line /\ m.ref \in Exits /\ n.ref \in Exits
    BY DEF SameExit
  <2>2. lock[ProductOf[m.line]] = u /\ lock[ProductOf[n.line]] = t
    BY <1>1, <2>1 DEF IInv, RequestOK, RecordedBy
  <2>. QED  BY <2>1, <2>2
<1>7. ASSUME NEW u \in Tx \ {t} PROVE RequestOK(u)'
  <2>1. RequestOK(u)
    BY DEF IInv
  <2>2. AskedBy(u)' /\ ListedBy(u)'
    BY <1>2, <1>5, <2>1 DEF RequestOK, AskedBy, ListedBy, UnderWay, At
  <2>3. RecordedBy(u)'
    <3>1. \A m, n : SameExit(m, n) => SameExit(n, m)
      BY DEF SameExit
    <3>2. \A m, n \in Visible(u)' : SameExit(m, n) => m = n
      <4>1. Visible(u)' \subseteq moves \cup my[t].moves \cup my[u].moves
        BY <1>2 DEF Visible
      <4>2. \A m, n \in moves \cup my[t].moves : SameExit(m, n) => m = n
        BY <1>1 DEF RequestOK, RecordedBy, Visible
      <4>3. \A m, n \in moves \cup my[u].moves : SameExit(m, n) => m = n
        BY <2>1 DEF RequestOK, RecordedBy, Visible
      <4>. QED  BY <4>1, <4>2, <4>3, <1>6, <3>1
    <3>3. At(u, "launch") => my[u].line \in Lines
      BY <2>1 DEF RequestOK, AskedBy, UnderWay, At
    <3>4. \A i \in Lines : lock[ProductOf[i]] = u => lock'[ProductOf[i]] = u
      BY <1>3
    <3>5. \A m \in my[u].moves : m.ref \in Exits =>
              m.line \in Lines /\ lock'[ProductOf[m.line]] = u /\ (m.line = u \/ Born(m.line)')
      BY <1>5, <2>1, <3>4 DEF RequestOK, RecordedBy
    <3>6. At(u, "launch") => lock'[ProductOf[my[u].line]] = u
      BY <2>1, <3>3, <3>4 DEF RequestOK, RecordedBy
    <3>. QED  BY <1>2, <3>2, <3>5, <3>6 DEF RecordedBy, SameExit, At
  <2>4. PaidBy(u)'
    <3>1. lock[Sale] = u => lock'[Sale] = u
      BY <1>3
    <3>2. my[u].payments # {} => my[t].payments = {}
      BY <1>1, <2>1 DEF RequestOK, PaidBy, At
    <3>. QED  BY <1>2, <2>1, <3>1, <3>2 DEF RequestOK, PaidBy, At
  <2>. QED  BY <2>2, <2>3, <2>4 DEF RequestOK
<1>8. RequestOK(t)'
  <2>1. AskedBy(t)' /\ ListedBy(t)' /\ PaidBy(t)'
    BY <1>2, IdleFacts DEF AskedBy, ListedBy, PaidBy, UnderWay, At, Steps
  <2>2. Visible(t)' = moves'
    BY <1>2, IdleFacts DEF Visible
  <2>3. \A m, n \in moves' : SameExit(m, n)' => m = n
    BY DEF Committed, ExitsRecordedOnce, SameExit
  <2>4. RecordedBy(t)'
    BY <1>2, <2>2, <2>3, IdleFacts DEF RecordedBy, At
  <2>. QED  BY <2>1, <2>4 DEF RequestOK
<1>. QED  BY <1>4, <1>7, <1>8 DEF IInv

LEMMA AbortingStep ==
    ASSUME IInv, NEW t \in Tx, Abort(t)
    PROVE  IInv'
<1>1. /\ UnderWay(t) /\ lock' = Freed(t) /\ my' = [my EXCEPT ![t] = Idle] /\ Go(t, "done")
      /\ UNCHANGED << sale, line, moves, overlap >>
  BY DEF Abort
<1>2. \A i : Born(i) => Born(i)'
  BY <1>1 DEF Born, Go, IInv, Shape
<1>3. Committed'
  BY <1>1, <1>2 DEF IInv, Committed, Paid, ExitsRecordedOnce
<1>. QED  BY <1>1, <1>3, EndingStep

LEMMA CommittingStep ==
    ASSUME IInv, NEW t \in Tx, Commit(t)
    PROVE  IInv'
<1>. USE Sorts
<1>1. /\ pc[t] = "commit" /\ lock' = Freed(t) /\ my' = [my EXCEPT ![t] = Idle] /\ Go(t, "done")
      /\ line' = LinesSeen(t) /\ moves' = Visible(t)
      /\ sale' = [status |-> Written(my[t].status, sale.status),
                  total |-> Written(my[t].newTotal, sale.total),
                  payments |-> sale.payments \cup my[t].payments]
  BY DEF Commit, At
<1>2. RequestOK(t) /\ UnderWay(t)
  BY <1>1 DEF IInv, UnderWay
<1>3. \A i : Born(i) => Born(i)'
  BY <1>1 DEF Born, Go, IInv, Shape
<1>4. Born(t)'
  BY <1>1 DEF Born, Go, IInv, Shape
<1>5. \A i \in Lines : line'[i] # Absent => Born(i)'
  <2> SUFFICES ASSUME NEW i \in Lines, line'[i] # Absent PROVE Born(i)'
    OBVIOUS
  <2>1. CASE i = my[t].line
    BY <1>2, <1>3, <1>4, <2>1 DEF RequestOK, AskedBy
  <2>2. CASE i # my[t].line
    BY <1>1, <1>3, <2>2 DEF LinesSeen, IInv, Committed
  <2>. QED  BY <2>1, <2>2
<1>6. \A m \in moves' : m.ref \in Exits => Born(m.line)'
  BY <1>1, <1>2, <1>3, <1>4 DEF Visible, RequestOK, RecordedBy, IInv, Committed
<1>7. ExitsRecordedOnce'
  BY <1>1, <1>2 DEF RequestOK, RecordedBy, SameExit, ExitsRecordedOnce
<1>8. sale'.payments = sale.payments \cup my[t].payments
      /\ sale'.status = Written(my[t].status, sale.status)
  BY <1>1
<1>9. Paid'
  BY <1>2, <1>8 DEF RequestOK, PaidBy, IInv, Committed, Paid
<1>10. sale'.status = "FINALIZADA" => sale'.payments # {}
  BY <1>1, <1>2, <1>8 DEF Written, RequestOK, PaidBy, At, IInv, Committed
<1>11. Committed'
  BY <1>5, <1>6, <1>7, <1>9, <1>10 DEF Committed
<1>. QED  BY <1>1, <1>2, <1>8, <1>11, EndingStep

-----------------------------------------------------------------------------
LEMMA StepKeepsInvariant == IInv /\ [Next]_vars => IInv'
<1> SUFFICES ASSUME IInv, [Next]_vars PROVE IInv'
  OBVIOUS
<1>1. CASE Next
  BY <1>1, OpeningStep, ReadingSteps, ListingSteps, LockingSteps, ReturningSteps, RevisingStep,
     LaunchingStep, ExitingStep, PayingStep, CommittingStep, AbortingStep DEF Next
<1>2. CASE UNCHANGED vars
  BY <1>2 DEF vars, IInv, Shape, Committed, Paid, ExitsRecordedOnce, Born, RequestOK, AskedBy,
     ListedBy, RecordedBy, PaidBy, Visible, SameExit, UnderWay, At
<1>. QED  BY <1>1, <1>2

\* The invariant behind the next two theorems: whoever records an exit holds the
\* product and sees no other of its kind, and whoever pays holds the sale.
THEOREM Inductive == Spec => []IInv
<1>. QED  BY InitInvariant, StepKeepsInvariant, PTL DEF Spec

\* applySaleItemStockOut and its revisions: an exit of a line is recorded once,
\* though nothing in the database makes its reference unique.
THEOREM ExitsOnce == Spec => []ExitsRecordedOnce
<1>1. IInv => ExitsRecordedOnce
  BY DEF IInv, Committed
<1>. QED  BY <1>1, Inductive, PTL

\* patch with its payments: a sale that is FINALIZADA is paid, and no sale twice.
THEOREM PaidOnce == Spec => []FinalizedIsPaidOnce
<1>1. IInv => FinalizedIsPaidOnce
  <2> SUFFICES ASSUME IInv PROVE Cardinality(sale.payments) <= 1
    BY DEF IInv, Committed, FinalizedIsPaidOnce
  <2>1. CASE sale.payments = {}
    BY <2>1, FS_EmptySet
  <2>2. CASE \E x : sale.payments = {x}
    <3>1. PICK x : sale.payments = {x}
      BY <2>2
    <3>2. Cardinality({x}) = 1
      BY FS_Singleton
    <3>. QED  BY <3>1, <3>2
  <2>. QED  BY <2>1, <2>2 DEF IInv, Committed, Paid
<1>. QED  BY <1>1, Inductive, PTL

-----------------------------------------------------------------------------
(***************************************************************************)
(* The types of what is committed and of what a request reads and writes.   *)
(***************************************************************************)
Values == Quantities \cup {StartQuantity}
Payments == [by : Tx, value : Nat]

StoredTypes ==
    /\ sale \in [status : Statuses, total : Nat, payments : SUBSET Payments]
    /\ line \in [Lines -> Values \cup {Absent}] /\ IsFiniteSet(Present(line))
    /\ moves \subseteq Movements /\ IsFiniteSet(moves)

DraftTypes(t) ==
    /\ my[t].moves \subseteq Movements /\ IsFiniteSet(my[t].moves)
    /\ my[t].payments \subseteq Payments
    /\ my[t].newLine \in Values \cup {Absent, Unwritten}
    /\ my[t].status \in Statuses \cup {Unwritten}
    /\ my[t].newTotal \in Nat \cup {Unwritten}
    /\ my[t].total \in Nat /\ my[t].last \in Nat
    /\ my[t].todo \subseteq Lines \X Values /\ IsFiniteSet(my[t].todo)
    /\ At(t, "return") => my[t].at \in Lines \X Values
    /\ UnderWay(t) => my[t].quantity \in Values
    /\ my[t].kind = "update" /\ pc[t] # "item" => my[t].seen \in Values

TypeInv == StoredTypes /\ \A t \in Tx : DraftTypes(t)

LEMMA ValueFacts ==
    /\ Values \subseteq Nat /\ \A q \in Values : q > 0
    /\ Absent \notin Values /\ Unwritten \notin Values /\ Absent # Unwritten
    /\ Unwritten \notin Nat /\ Unwritten \notin Statuses
    /\ Quantities \subseteq Values /\ StartQuantity \in Values
<1>1. \A q \in Values : q \in Nat \ {0}
  BY SaleAssumption DEF Values
<1>2. \A n \in Nat \ {0} : n > 0
  OBVIOUS
<1>3. Absent \notin Nat /\ Unwritten \notin Nat /\ Absent # Unwritten /\ Unwritten \notin Statuses
  BY SaleAssumption
<1>. QED  BY <1>1, <1>2, <1>3 DEF Values

LEMMA MovementIsTyped ==
    ASSUME NEW i \in Lines, NEW ref \in References, NEW n \in Nat, NEW q \in Values,
           NEW t \in Tx \cup {NoTx}
    PROVE  Movement(i, ref, n, q, t) \in Movements
  BY ValueFacts DEF Movement, Movements

\* The greatest of a finite set of numbers.
LEMMA GreatestIsThere ==
    ASSUME NEW S \in SUBSET Nat, IsFiniteSet(S), S # {}
    PROVE  Max(S) \in S /\ \A n \in S : n <= Max(S)
<1> DEFINE Q == {T \in SUBSET S : T = {} \/ \E n \in T : \A m \in T : m <= n}
<1>1. Q \in SUBSET (SUBSET S) /\ {} \in Q
  OBVIOUS
<1>2. \A T \in Q : \A x \in S \ T : T \cup {x} \in Q
  <2> SUFFICES ASSUME NEW T \in Q, NEW x \in S \ T
               PROVE  \E n \in T \cup {x} : \A m \in T \cup {x} : m <= n
    OBVIOUS
  <2>1. CASE T = {}
    BY <2>1
  <2>2. CASE \E n \in T : \A m \in T : m <= n
    <3>1. PICK n \in T : \A m \in T : m <= n
      BY <2>2
    <3>2. CASE x <= n
      BY <3>1, <3>2
    <3>3. CASE ~(x <= n)
      <4>1. \A m \in T : m <= x
        BY <3>1, <3>3
      <4>. QED  BY <4>1
    <3>. QED  BY <3>2, <3>3
  <2>. QED  BY <2>1, <2>2
<1>3. Q = SUBSET S
  <2>. HIDE DEF Q
  <2>. QED  BY <1>1, <1>2, SubsetsByAddition
<1>4. \E n \in S : \A m \in S : m <= n
  BY <1>3
<1>5. \E n \in S : \A m \in S : n >= m
  BY <1>4
<1>. QED  BY <1>5 DEF Max

LEMMA ImageIsFinite ==
    ASSUME NEW S, IsFiniteSet(S), NEW f PROVE IsFiniteSet({f[x] : x \in S})
<1> DEFINE g == [x \in S |-> f[x]]
<1>1. g \in Surjection(S, {f[x] : x \in S})
  BY DEF Surjection
<1>. QED  BY <1>1, FS_Surjection

\* The last revision of a line: none is greater, and it is there unless it is 0.
LEMMA LastRevisionFacts ==
    ASSUME NEW t, Visible(t) \subseteq Movements, IsFiniteSet(Visible(t))
    PROVE  /\ LastRevision(t) \in Nat
           /\ \A m \in Visible(t) : m.line = my[t].line /\ m.ref = "REV-OUT" =>
                  m.revision <= LastRevision(t)
           /\ LastRevision(t) > 0 =>
                  Recorded(t, my[t].line, "REV-OUT", LastRevision(t))
<1> DEFINE S == {x \in Visible(t) : x.line = my[t].line /\ x.ref = "REV-OUT"}
           f == [m \in S |-> m.revision]
           R == {m.revision : m \in S}
           N == {0} \cup R
<1>1. IsFiniteSet(S) /\ R = {f[m] : m \in S}
  BY FS_Subset
<1>2. IsFiniteSet(R)
  <2>. HIDE DEF f, S, R
  <2>. QED  BY <1>1, ImageIsFinite
<1>3. IsFiniteSet(N)
  <2>1. R \cup {0} = N
    OBVIOUS
  <2>. HIDE DEF R, N
  <2>. QED  BY <1>2, <2>1, FS_AddElement
<1>4. N \in SUBSET Nat /\ N # {}
  BY DEF Movements
<1>5. Max(N) \in N /\ \A n \in N : n <= Max(N)
  <2>. HIDE DEF N
  <2>. QED  BY <1>3, <1>4, GreatestIsThere
<1>6. LastRevision(t) = Max(N)
  BY DEF LastRevision
<1>7. \A m \in S : m.revision <= Max(N)
  BY <1>5
<1>8. Max(N) > 0 => \E m \in S : m.revision = Max(N)
  <2>. DEFINE n == Max(N)
  <2>1. n = 0 \/ n \in R
    BY <1>5
  <2>. HIDE DEF n
  <2>2. n > 0 => n \in R
    BY <2>1
  <2>. QED  BY <2>2 DEF n
<1>9. Max(N) \in Nat
  BY <1>4, <1>5
<1>. HIDE DEF N
<1>. QED  BY <1>6, <1>7, <1>8, <1>9 DEF Recorded

LEMMA TotalIsNat ==
    ASSUME NEW q, IsFiniteSet(Present(q)), \A i \in Present(q) : q[i] \in Nat
    PROVE  TotalOf(q) \in Nat
  BY SumIsNat DEF TotalOf

\* The lines as a request sees them.
LEMMA SeenIsTyped ==
    ASSUME IInv, TypeInv, NEW t \in Tx
    PROVE  /\ LinesSeen(t) \in [Lines -> Values \cup {Absent}]
           /\ IsFiniteSet(Present(LinesSeen(t)))
           /\ TotalOf(LinesSeen(t)) \in Nat
           /\ Visible(t) \subseteq Movements /\ IsFiniteSet(Visible(t))
<1>1. line \in [Lines -> Values \cup {Absent}] /\ DraftTypes(t)
  BY DEF TypeInv, StoredTypes
<1>2. LinesSeen(t) \in [Lines -> Values \cup {Absent}]
  BY <1>1 DEF LinesSeen, DraftTypes
<1>3. Present(LinesSeen(t)) \subseteq Present(line) \cup {my[t].line}
  BY DEF Present, LinesSeen
<1>4. IsFiniteSet(Present(line) \cup {my[t].line})
  BY FS_AddElement DEF TypeInv, StoredTypes
<1>5. IsFiniteSet(Present(LinesSeen(t)))
  BY <1>3, <1>4, FS_Subset
<1>6. \A i \in Present(LinesSeen(t)) : LinesSeen(t)[i] \in Nat
  BY <1>2, ValueFacts DEF Present
<1>7. TotalOf(LinesSeen(t)) \in Nat
  <2>. DEFINE q == LinesSeen(t)
  <2>1. IsFiniteSet(Present(q)) /\ \A i \in Present(q) : q[i] \in Nat
    BY <1>5, <1>6
  <2>. HIDE DEF q
  <2>2. TotalOf(q) \in Nat
    BY <2>1, TotalIsNat
  <2>. QED  BY <2>2 DEF q
<1>8. Visible(t) \subseteq Movements
  BY <1>1 DEF Visible, TypeInv, StoredTypes, DraftTypes
<1>9. IsFiniteSet(Visible(t))
  BY <1>1, FS_Union DEF Visible, TypeInv, StoredTypes, DraftTypes
<1>. QED  BY <1>2, <1>5, <1>7, <1>8, <1>9

LEMMA InitTypes == Init => TypeInv
<1> SUFFICES ASSUME Init PROVE TypeInv
  OBVIOUS
<1>. USE Sorts, ValueFacts
<1>1. line \in [Lines -> Values \cup {Absent}] /\ Present(line) = Launched
  BY DEF Init, StartLines, Present
<1>2. TotalOf(line) \in Nat
  <2>1. IsFiniteSet(Present(line)) /\ \A i \in Present(line) : line[i] \in Nat
    BY <1>1, SaleAssumption DEF Init, StartLines
  <2>. QED  BY <2>1, TotalIsNat
<1>3. moves \subseteq Movements
  <2> SUFFICES ASSUME NEW i \in Launched
               PROVE  Movement(i, "OUT", 0, StartQuantity, NoTx) \in Movements
    BY DEF Init
  <2>. QED  BY MovementIsTyped DEF References
<1>4. IsFiniteSet(moves)
  <2> DEFINE f == [i \in Launched |-> Movement(i, "OUT", 0, StartQuantity, NoTx)]
  <2>1. moves = {f[i] : i \in Launched}
    BY DEF Init
  <2>. HIDE DEF f
  <2>. QED  BY <2>1, SaleAssumption, ImageIsFinite
<1>5. StoredTypes
  <2>1. sale \in [status : Statuses, total : Nat, payments : SUBSET Payments]
    BY <1>2 DEF Init, Statuses
  <2>. QED  BY <1>1, <1>3, <1>4, <2>1, SaleAssumption DEF StoredTypes
<1>6. ASSUME NEW t \in Tx PROVE DraftTypes(t)
  <2>1. my[t] = Idle /\ pc[t] = "new"
    BY DEF Init
  <2>2. IsFiniteSet({})
    BY FS_EmptySet
  <2>. QED  BY <2>1, <2>2 DEF DraftTypes, Idle, UnderWay, At
<1>. QED  BY <1>5, <1>6 DEF TypeInv

\* A request goes on, with values of their types.
LEMMA TypesGoOn ==
    ASSUME IInv, TypeInv, NEW t \in Tx, NEW label, Go(t, label), Pending,
           NEW r, my' = [my EXCEPT ![t] = r], DraftTypes(t)'
    PROVE  TypeInv'
<1>1. UNCHANGED << sale, line, moves >>
  BY DEF Pending
<1>2. StoredTypes'
  BY <1>1 DEF TypeInv, StoredTypes, Present
<1>3. ASSUME NEW u \in Tx \ {t} PROVE DraftTypes(u)'
  <2>1. DraftTypes(u) /\ pc'[u] = pc[u] /\ my'[u] = my[u]
    BY DEF TypeInv, IInv, Shape, Go
  <2>. QED  BY <2>1 DEF DraftTypes, At, UnderWay
<1>. QED  BY <1>2, <1>3 DEF TypeInv

\* What an assignment leaves of a request.
LEMMA OneField ==
    ASSUME IInv, NEW t \in Tx, NEW field \in Fields, NEW value, Keep(t, field, value)
    PROVE  /\ my' = [my EXCEPT ![t] = my'[t]] /\ my'[t][field] = value
           /\ \A f \in Fields \ {field} : my'[t][f] = my[t][f]
<1>1. my[t] = [x \in Fields |-> my[t][x]] /\ my = [u \in Tx |-> my[u]]
  BY DEF IInv, Shape
<1>2. my'[t] = [x \in Fields |-> IF x = field THEN value ELSE my[t][x]]
  BY <1>1 DEF Keep, Fields
<1>3. my' = [my EXCEPT ![t] = my'[t]]
  BY <1>1 DEF Keep
<1>. QED  BY <1>2, <1>3

\* The types of the fields a step does not assign stay.
TypeOfField(t, f) ==
    /\ f = "moves" => my[t].moves \subseteq Movements /\ IsFiniteSet(my[t].moves)
    /\ f = "payments" => my[t].payments \subseteq Payments
    /\ f = "newLine" => my[t].newLine \in Values \cup {Absent, Unwritten}
    /\ f = "status" => my[t].status \in Statuses \cup {Unwritten}
    /\ f = "newTotal" => my[t].newTotal \in Nat \cup {Unwritten}
    /\ f = "total" => my[t].total \in Nat
    /\ f = "last" => my[t].last \in Nat
    /\ f = "todo" => my[t].todo \subseteq Lines \X Values /\ IsFiniteSet(my[t].todo)

\* A request never changes what it asks.
Asked == {"kind", "line", "quantity"}

\* The names of the fields a statement may assign.
LEMMA FieldFacts ==
    /\ "seen" \in Fields \ Asked /\ "todo" \in Fields \ Asked /\ "at" \in Fields \ Asked
    /\ "last" \in Fields \ Asked /\ "total" \in Fields \ Asked /\ "moves" \in Fields \ Asked
    /\ "newLine" \in Fields \ Asked /\ "status" \in Fields \ Asked
    /\ "newTotal" \in Fields \ Asked /\ "payments" \in Fields \ Asked
    /\ "seen" # "todo" /\ "todo" # "at" /\ "newLine" # "moves" /\ "status" # "total"
  BY DEF Fields, Asked

LEMMA FieldsGoOn ==
    ASSUME IInv, TypeInv, NEW t \in Tx, pc[t] \in Steps, NEW label \in Steps, Go(t, label),
           Pending, NEW f \in Fields \ Asked, NEW g \in Fields \ Asked,
           my' = [my EXCEPT ![t] = my'[t]],
           \A x \in Fields \ {f, g} : my'[t][x] = my[t][x],
           TypeOfField(t, f)', TypeOfField(t, g)',
           label = "return" => my'[t].at \in Lines \X Values,
           f = "seen" \/ pc[t] = "item" => my'[t].seen \in Values, g # "seen"
    PROVE  TypeInv'
<1>1. DraftTypes(t) /\ UnderWay(t)
  BY DEF TypeInv, UnderWay, Steps
<1>2. pc'[t] = label
  BY DEF IInv, Shape, Go
<1>3. my'[t].kind = my[t].kind /\ my'[t].quantity = my[t].quantity
  BY DEF Fields, Asked
<1>4. ("moves" \in {f, g} \/ my'[t].moves = my[t].moves) /\ ("payments" \in {f, g} \/ my'[t].payments = my[t].payments)
      /\ ("newLine" \in {f, g} \/ my'[t].newLine = my[t].newLine) /\ ("status" \in {f, g} \/ my'[t].status = my[t].status)
  BY DEF Fields
<1>5. ("newTotal" \in {f, g} \/ my'[t].newTotal = my[t].newTotal) /\ ("total" \in {f, g} \/ my'[t].total = my[t].total)
      /\ ("last" \in {f, g} \/ my'[t].last = my[t].last) /\ ("todo" \in {f, g} \/ my'[t].todo = my[t].todo)
      /\ ("seen" \in {f, g} \/ my'[t].seen = my[t].seen)
  BY DEF Fields
<1>6. my'[t].moves \subseteq Movements /\ IsFiniteSet(my'[t].moves) /\ my'[t].payments \subseteq Payments
  BY <1>1, <1>4 DEF TypeOfField, DraftTypes
<1>7. my'[t].newLine \in Values \cup {Absent, Unwritten} /\ my'[t].status \in Statuses \cup {Unwritten}
  BY <1>1, <1>4 DEF TypeOfField, DraftTypes
<1>8. my'[t].newTotal \in Nat \cup {Unwritten} /\ my'[t].total \in Nat /\ my'[t].last \in Nat
  BY <1>1, <1>5 DEF TypeOfField, DraftTypes
<1>9. my'[t].todo \subseteq Lines \X Values /\ IsFiniteSet(my'[t].todo)
  BY <1>1, <1>5 DEF TypeOfField, DraftTypes
<1>10. my'[t].kind = "update" => my'[t].seen \in Values
  BY <1>1, <1>3, <1>5 DEF DraftTypes
<1>11. my'[t].quantity \in Values
  BY <1>1, <1>3 DEF DraftTypes
<1>12. DraftTypes(t)'
  BY <1>2, <1>6, <1>7, <1>8, <1>9, <1>10, <1>11 DEF DraftTypes, At
<1>. QED  BY <1>12, TypesGoOn
LEMMA FieldGoesOn ==
    ASSUME IInv, TypeInv, NEW t \in Tx, pc[t] \in Steps \ {"item"}, NEW label \in Steps \ {"return"},
           Go(t, label), Pending, NEW f \in Fields \ Asked, f # "seen",
           my' = [my EXCEPT ![t] = my'[t]],
           \A x \in Fields \ {f} : my'[t][x] = my[t][x],
           TypeOfField(t, f)'
    PROVE  TypeInv'
<1>1. \A x \in Fields \ {f, f} : my'[t][x] = my[t][x]
  OBVIOUS
<1>. QED  BY <1>1, FieldsGoOn

LEMMA ReadingKeepsTypes ==
    ASSUME IInv, TypeInv, NEW t \in Tx,
           ReadItem(t) \/ ReadLines(t) \/ LookUpReturn(t) \/ ReadRevision(t) \/ SumLines(t)
    PROVE  TypeInv'
<1>. USE Sorts
<1>0. Pending /\ DraftTypes(t) /\ line \in [Lines -> Values \cup {Absent}]
  BY DEF ReadItem, ReadLines, LookUpReturn, ReadRevision, SumLines, TypeInv, StoredTypes
<1>1. CASE ReadItem(t)
  <2>1. pc[t] = "item" /\ my[t].line \in Lines /\ line[my[t].line] \in Values
    BY <1>0, <1>1, StepFacts DEF ReadItem, At, Steps
  <2>2. PICK label \in {"line", "refs"} : Go(t, label)
    BY <1>1 DEF ReadItem
  <2>3. PICK q, i : q = line[my[t].line] /\ i = my[t].line
    OBVIOUS
  <2>4. my' = [my EXCEPT ![t] = [[my[t] EXCEPT !["seen"] = q] EXCEPT !["todo"] = {<< i, q >>}]]
    BY <1>1, <2>3 DEF ReadItem, IInv, Shape
  <2>5. /\ my' = [my EXCEPT ![t] = my'[t]] /\ my'[t].seen = q /\ my'[t].todo = {<< i, q >>}
        /\ \A x \in Fields \ {"seen", "todo"} : my'[t][x] = my[t][x]
    <3>1. my'[t] = [x \in Fields |-> IF x = "todo" THEN {<< i, q >>} ELSE IF x = "seen" THEN q ELSE my[t][x]]
      BY <2>4 DEF IInv, Shape, Fields
    <3>2. my' = [my EXCEPT ![t] = my'[t]]
      BY <2>4 DEF IInv, Shape
    <3>. QED  BY <3>1, <3>2 DEF Fields
  <2>6. IsFiniteSet({<< i, q >>}) /\ << i, q >> \in Lines \X Values
    BY <2>1, <2>3, FS_Singleton
  <2>7. TypeOfField(t, "seen")' /\ TypeOfField(t, "todo")'
    BY <2>5, <2>6 DEF TypeOfField
  <2>. QED  BY <1>0, <2>1, <2>2, <2>3, <2>5, <2>7, FieldFacts, FieldsGoOn DEF Steps
<1>2. CASE ReadLines(t)
  <2>1. pc[t] = "lines"
    BY <1>2 DEF ReadLines, At
  <2>2. PICK label \in {"exits", "refs"} : Go(t, label)
    BY <1>2 DEF ReadLines
  <2>3. PICK todo : todo = {<< i, LinesSeen(t)[i] >> : i \in Present(line)}
    OBVIOUS
  <2>4. /\ my' = [my EXCEPT ![t] = my'[t]] /\ my'[t].todo = todo
        /\ \A x \in Fields \ {"todo"} : my'[t][x] = my[t][x]
    BY <1>2, <2>3, OneField DEF ReadLines, Fields
  <2>5. my[t].kind \in {"finalize", "cancel", "cancelOs"} /\ AskedBy(t)
    BY <2>1, StepFacts DEF Steps, AskedBy, PartOf
  <2>6. \A i \in Lines : line[i] # Absent => LinesSeen(t)[i] \in Values
    <3> SUFFICES ASSUME NEW i \in Lines, line[i] # Absent PROVE LinesSeen(t)[i] \in Values
      OBVIOUS
    <3>1. Born(i) /\ my[t].line = t /\ ~Born(t)
      BY <2>1, <2>5, StepFacts DEF IInv, Committed, Born, Steps
    <3>. QED  BY <1>0, <3>1 DEF LinesSeen
  <2>7. todo \subseteq Lines \X Values
    BY <2>3, <2>6 DEF Present
  <2>8. IsFiniteSet(todo)
    <3> DEFINE S == Present(line)
               f == [i \in S |-> << i, LinesSeen(t)[i] >>]
    <3>1. todo = {f[i] : i \in S} /\ IsFiniteSet(S)
      BY <2>3 DEF TypeInv, StoredTypes
    <3>. HIDE DEF f, S
    <3>. QED  BY <3>1, ImageIsFinite
  <2>9. TypeOfField(t, "todo")'
    BY <2>4, <2>7, <2>8 DEF TypeOfField
  <2>. QED  BY <1>0, <2>1, <2>2, <2>4, <2>9, FieldFacts, FieldGoesOn DEF Steps
<1>3. CASE LookUpReturn(t)
  <2>1. pc[t] = "refs"
    BY <1>3 DEF LookUpReturn, At
  <2>2. PICK label \in {"refs", "return"} : Go(t, label)
    <3>1. UNCHANGED pc => Go(t, "refs")
      BY <2>1 DEF Go, IInv, Shape
    <3>. QED  BY <1>3, <3>1 DEF LookUpReturn
  <2>3. PICK e \in my[t].todo : my' = [my EXCEPT ![t].todo = @ \ {e}, ![t].at = e]
    BY <1>3 DEF LookUpReturn
  <2>4. PICK todo : todo = my[t].todo \ {e}
    OBVIOUS
  <2>5. my' = [my EXCEPT ![t] = [[my[t] EXCEPT !["todo"] = todo] EXCEPT !["at"] = e]]
    BY <2>3, <2>4 DEF IInv, Shape
  <2>6. /\ my' = [my EXCEPT ![t] = my'[t]] /\ my'[t].todo = todo /\ my'[t].at = e
        /\ \A x \in Fields \ {"todo", "at"} : my'[t][x] = my[t][x]
    <3>1. my'[t] = [x \in Fields |-> IF x = "at" THEN e ELSE IF x = "todo" THEN todo ELSE my[t][x]]
      BY <2>5 DEF IInv, Shape, Fields
    <3>2. my' = [my EXCEPT ![t] = my'[t]]
      BY <2>5 DEF IInv, Shape
    <3>. QED  BY <3>1, <3>2 DEF Fields
  <2>7. todo \subseteq Lines \X Values /\ e \in Lines \X Values
    BY <1>0, <2>4 DEF DraftTypes
  <2>8. IsFiniteSet(todo)
    BY <1>0, <2>4, FS_Subset DEF DraftTypes
  <2>9. TypeOfField(t, "todo")' /\ TypeOfField(t, "at")'
    BY <2>6, <2>7, <2>8 DEF TypeOfField
  <2>. QED  BY <1>0, <2>1, <2>2, <2>6, <2>7, <2>9, FieldFacts, FieldsGoOn DEF Steps
<1>4. CASE ReadRevision(t)
  <2>1. pc[t] = "revision" /\ Go(t, "revision-ref")
    BY <1>4 DEF ReadRevision, At
  <2>2. /\ my' = [my EXCEPT ![t] = my'[t]] /\ my'[t].last = LastRevision(t)
        /\ \A x \in Fields \ {"last"} : my'[t][x] = my[t][x]
    BY <1>4, OneField DEF ReadRevision, Fields
  <2>3. LastRevision(t) \in Nat
    BY SeenIsTyped, LastRevisionFacts
  <2>4. TypeOfField(t, "last")'
    BY <2>2, <2>3 DEF TypeOfField
  <2>. QED  BY <1>0, <2>1, <2>2, <2>4, FieldFacts, FieldGoesOn DEF Steps
<1>5. CASE SumLines(t)
  <2>1. pc[t] = "sum" /\ Go(t, "total")
    BY <1>5 DEF SumLines, At
  <2>2. /\ my' = [my EXCEPT ![t] = my'[t]] /\ my'[t].total = TotalOf(LinesSeen(t))
        /\ \A x \in Fields \ {"total"} : my'[t][x] = my[t][x]
    BY <1>5, OneField DEF SumLines, SummedLines, Fields
  <2>3. TotalOf(LinesSeen(t)) \in Nat
    BY SeenIsTyped
  <2>4. TypeOfField(t, "total")'
    BY <2>2, <2>3 DEF TypeOfField
  <2>. QED  BY <1>0, <2>1, <2>2, <2>4, FieldFacts, FieldGoesOn DEF Steps
<1>. QED  BY <1>1, <1>2, <1>3, <1>4, <1>5

LEMMA MovingOnKeepsTypes ==
    ASSUME IInv, TypeInv, NEW t \in Tx,
           FinishReturns(t) \/ LookUpRevision(t) \/ LockAvailable(t) \/ ReviseAlreadyDone(t)
    PROVE  TypeInv'
<1>. USE Sorts
<1>1. Pending /\ UNCHANGED my /\ pc[t] \in Steps \ {"item"}
  BY DEF FinishReturns, LookUpRevision, LockAvailable, ReviseAlreadyDone, At, Steps
<1>2. PICK label \in Steps \ {"return"} : Go(t, label)
  <2>1. CASE FinishReturns(t)
    <3>1. my[t].kind \in {"update", "remove", "cancel", "cancelOs"}
      BY <2>1, <1>1, StepFacts DEF FinishReturns, At, AskedBy, PartOf
    <3>2. AfterReturns(my[t].kind) \in {"line", "revision", "commit", "header"}
      BY <3>1 DEF AfterReturns
    <3>. QED  BY <2>1, <3>2 DEF FinishReturns, Steps
  <2>2. CASE LookUpRevision(t)
    BY <2>2 DEF LookUpRevision, Steps
  <2>3. CASE LockAvailable(t)
    BY <2>3 DEF LockAvailable, Steps
  <2>4. CASE ReviseAlreadyDone(t)
    BY <2>4 DEF ReviseAlreadyDone, Steps
  <2>. QED  BY <2>1, <2>2, <2>3, <2>4
<1>3. my' = [my EXCEPT ![t] = my'[t]] /\ \A f \in Fields \ {"total"} : my'[t][f] = my[t][f]
  BY <1>1 DEF IInv, Shape
<1>4. TypeOfField(t, "total")'
  BY <1>1 DEF TypeOfField, TypeInv, DraftTypes
<1>. QED  BY <1>1, <1>2, <1>3, <1>4, FieldFacts, FieldGoesOn

LEMMA InsertingKeepsTypes ==
    ASSUME IInv, TypeInv, NEW t \in Tx, pc[t] \in Steps \ {"item"},
           NEW label \in Steps \ {"return"}, Go(t, label),
           NEW i \in Lines, NEW ref \in References, NEW n \in Nat, NEW q \in Values,
           InsertMovement(t, i, ref, n, q)
    PROVE  TypeInv'
<1>1. Pending /\ DraftTypes(t)
  BY DEF InsertMovement, TypeInv
<1>2. PICK m : m = Movement(i, ref, n, q, t)
  OBVIOUS
<1>3. PICK M : M = my[t].moves \cup {m}
  OBVIOUS
<1>4. /\ my' = [my EXCEPT ![t] = my'[t]] /\ my'[t].moves = M
      /\ \A x \in Fields \ {"moves"} : my'[t][x] = my[t][x]
  BY <1>2, <1>3, OneField DEF InsertMovement, Fields
<1>5. m \in Movements
  BY <1>2, MovementIsTyped
<1>6. IsFiniteSet(M) /\ M \subseteq Movements
  BY <1>1, <1>3, <1>5, FS_AddElement DEF DraftTypes
<1>7. TypeOfField(t, "moves")'
  BY <1>4, <1>6 DEF TypeOfField
<1>. QED  BY <1>1, <1>4, <1>7, FieldFacts, FieldGoesOn

LEMMA RecordingKeepsTypes ==
    ASSUME IInv, TypeInv, NEW t \in Tx,
           InsertReturn(t) \/ InsertRevisionReturn(t) \/ Revise(t)
    PROVE  TypeInv'
<1>. USE ValueFacts
<1>0. DraftTypes(t)
  BY DEF TypeInv
<1>1. CASE InsertReturn(t)
  <2>1. pc[t] = "return" /\ Go(t, "refs")
    BY <1>1 DEF InsertReturn, At
  <2>2. my[t].at[1] \in Lines /\ my[t].at[2] \in Values
    BY <1>0, <2>1 DEF DraftTypes, At
  <2>. QED  BY <1>1, <2>1, <2>2, InsertingKeepsTypes DEF InsertReturn, Steps, References
<1>2. CASE InsertRevisionReturn(t)
  <2>1. pc[t] = "revision-return" /\ Go(t, "available") /\ my[t].kind = "update" /\ my[t].line \in Lines
    BY <1>2, StepFacts DEF InsertRevisionReturn, At, Steps, AskedBy, PartOf
  <2>2. my[t].last \in Nat /\ my[t].seen \in Values
    BY <1>0, <2>1 DEF DraftTypes
  <2>. QED  BY <1>2, <2>1, <2>2, InsertingKeepsTypes DEF InsertRevisionReturn, Steps, References
<1>3. CASE Revise(t)
  <2>1. pc[t] = "revise" /\ Go(t, "line") /\ my[t].line \in Lines
    BY <1>3, StepFacts DEF Revise, At, Steps
  <2>2. my[t].last + 1 \in Nat /\ my[t].quantity \in Values
    BY <1>0, <2>1 DEF DraftTypes, UnderWay
  <2>. QED  BY <1>3, <2>1, <2>2, InsertingKeepsTypes DEF Revise, Steps, References
<1>. QED  BY <1>1, <1>2, <1>3

LEMMA LaunchingKeepsTypes ==
    ASSUME IInv, TypeInv, NEW t \in Tx, LaunchLine(t)
    PROVE  TypeInv'
<1>. USE Sorts, ValueFacts
<1>1. pc[t] = "launch" /\ Go(t, "sum") /\ Pending /\ DraftTypes(t)
  BY DEF LaunchLine, At, TypeInv
<1>2. PICK q : q = my[t].quantity
  OBVIOUS
<1>3. q \in Values
  BY <1>1, <1>2 DEF DraftTypes, UnderWay
<1>4. PICK M : M = my[t].moves \cup {Movement(t, "OUT", 0, q, t)}
  OBVIOUS
<1>5. my' = [my EXCEPT ![t] = [[my[t] EXCEPT !["newLine"] = q] EXCEPT !["moves"] = M]]
  BY <1>2, <1>4 DEF LaunchLine, IInv, Shape, Fields
<1>6. /\ my' = [my EXCEPT ![t] = my'[t]] /\ my'[t].newLine = q /\ my'[t].moves = M
      /\ \A x \in Fields \ {"newLine", "moves"} : my'[t][x] = my[t][x]
  <2>1. my'[t] = [x \in Fields |-> IF x = "moves" THEN M ELSE IF x = "newLine" THEN q ELSE my[t][x]]
    BY <1>5 DEF IInv, Shape, Fields
  <2>2. my' = [my EXCEPT ![t] = my'[t]]
    BY <1>5 DEF IInv, Shape
  <2>. QED  BY <2>1, <2>2 DEF Fields
<1>7. M \subseteq Movements /\ IsFiniteSet(M)
  <2>1. Movement(t, "OUT", 0, q, t) \in Movements
    BY <1>3, MovementIsTyped DEF References
  <2>. QED  BY <1>1, <1>4, <2>1, FS_AddElement DEF DraftTypes
<1>8. TypeOfField(t, "newLine")' /\ TypeOfField(t, "moves")'
  BY <1>3, <1>6, <1>7 DEF TypeOfField
<1>. QED  BY <1>1, <1>6, <1>8, FieldFacts, FieldsGoOn DEF Steps

LEMMA WritingKeepsTypes ==
    ASSUME IInv, TypeInv, NEW t \in Tx, WriteLine(t) \/ WriteTotal(t) \/ WriteHeader(t) \/ Pay(t)
    PROVE  TypeInv'
<1>. USE Sorts, ValueFacts
<1>0. Pending /\ DraftTypes(t) /\ sale.total \in Nat
  BY DEF WriteLine, WriteTotal, WriteHeader, Pay, TypeInv, StoredTypes
<1>1. CASE WriteLine(t)
  <2>1. pc[t] = "line" /\ Go(t, "sum")
    BY <1>1 DEF WriteLine, At
  <2>2. PICK q : q = IF line[my[t].line] = Absent THEN Unwritten
                     ELSE IF my[t].kind = "remove" THEN Absent ELSE my[t].quantity
    OBVIOUS
  <2>3. /\ my' = [my EXCEPT ![t] = my'[t]] /\ my'[t].newLine = q
        /\ \A x \in Fields \ {"newLine"} : my'[t][x] = my[t][x]
    BY <1>1, <2>2, OneField DEF WriteLine, Fields
  <2>4. q \in Values \cup {Absent, Unwritten}
    BY <1>0, <2>1, <2>2 DEF DraftTypes, UnderWay
  <2>5. TypeOfField(t, "newLine")'
    BY <2>3, <2>4 DEF TypeOfField
  <2>. QED  BY <1>0, <2>1, <2>3, <2>5, FieldFacts, FieldGoesOn DEF Steps
<1>2. CASE WriteTotal(t)
  <2>1. pc[t] = "total" /\ Go(t, "commit")
    BY <1>2 DEF WriteTotal, At
  <2>2. /\ my' = [my EXCEPT ![t] = my'[t]] /\ my'[t].newTotal = my[t].total
        /\ \A x \in Fields \ {"newTotal"} : my'[t][x] = my[t][x]
    BY <1>2, OneField DEF WriteTotal, Fields
  <2>3. TypeOfField(t, "newTotal")'
    BY <1>0, <2>2 DEF TypeOfField, DraftTypes
  <2>. QED  BY <1>0, <2>1, <2>2, <2>3, FieldFacts, FieldGoesOn DEF Steps
<1>3. CASE WriteHeader(t)
  <2>1. pc[t] = "header" /\ my[t].kind \in {"recalculate", "finalize", "cancel", "cancelOs"}
    BY <1>3, StepFacts DEF WriteHeader, At, Steps, AskedBy, PartOf
  <2>2. PICK label \in {"sum", "commit", "lines"} : Go(t, label)
    <3>1. AfterHeader(t) \in {"sum", "commit", "lines"}
      BY <2>1 DEF AfterHeader
    <3>. QED  BY <1>3, <3>1 DEF WriteHeader
  <2>3. PICK s : s = NewStatus(my[t].kind)
    OBVIOUS
  <2>4. my' = [my EXCEPT ![t] = [[my[t] EXCEPT !["status"] = s] EXCEPT !["total"] = sale.total]]
    BY <1>3, <2>3 DEF WriteHeader, IInv, Shape
  <2>5. /\ my' = [my EXCEPT ![t] = my'[t]] /\ my'[t].status = s /\ my'[t].total = sale.total
        /\ \A x \in Fields \ {"status", "total"} : my'[t][x] = my[t][x]
    <3>1. my'[t] = [x \in Fields |-> IF x = "total" THEN sale.total ELSE IF x = "status" THEN s ELSE my[t][x]]
      BY <2>4 DEF IInv, Shape, Fields
    <3>2. my' = [my EXCEPT ![t] = my'[t]]
      BY <2>4 DEF IInv, Shape
    <3>. QED  BY <3>1, <3>2 DEF Fields
  <2>6. s \in Statuses \cup {Unwritten}
    BY <2>1, <2>3 DEF NewStatus, Statuses
  <2>7. TypeOfField(t, "status")' /\ TypeOfField(t, "total")'
    BY <1>0, <2>5, <2>6 DEF TypeOfField
  <2>. QED  BY <1>0, <2>1, <2>2, <2>5, <2>7, FieldFacts, FieldsGoOn DEF Steps
<1>4. CASE Pay(t)
  <2>1. pc[t] = "pay" /\ Go(t, "commit")
    BY <1>4 DEF Pay, At
  <2>2. PICK p : p = [by |-> t, value |-> my[t].total]
    OBVIOUS
  <2>3. /\ my' = [my EXCEPT ![t] = my'[t]] /\ my'[t].payments = {p}
        /\ \A x \in Fields \ {"payments"} : my'[t][x] = my[t][x]
    BY <1>4, <2>2, OneField DEF Pay, Fields
  <2>4. p \in Payments
    BY <1>0, <2>2 DEF DraftTypes, Payments
  <2>5. TypeOfField(t, "payments")'
    BY <2>3, <2>4 DEF TypeOfField
  <2>. QED  BY <1>0, <2>1, <2>3, <2>5, FieldFacts, FieldGoesOn DEF Steps
<1>. QED  BY <1>1, <1>2, <1>3, <1>4

LEMMA ExitsKeepTypes ==
    ASSUME IInv, TypeInv, NEW t \in Tx, InsertExits(t)
    PROVE  TypeInv'
<1>. USE Sorts, ValueFacts
<1>1. pc[t] = "exits" /\ Go(t, "pay") /\ Pending /\ DraftTypes(t)
  BY DEF InsertExits, At, TypeInv
<1>. DEFINE missing == {e \in my[t].todo : ~Recorded(t, e[1], "OUT", 0)}
            f == [e \in missing |-> Movement(e[1], "OUT", 0, e[2], t)]
            added == {f[e] : e \in missing}
            M == my[t].moves \cup added
<1>2. added = {Movement(e[1], "OUT", 0, e[2], t) : e \in missing}
  OBVIOUS
<1>3. Keep(t, "moves", M)
  BY <1>2 DEF InsertExits
<1>4. /\ my' = [my EXCEPT ![t] = my'[t]] /\ my'[t].moves = M
      /\ \A x \in Fields \ {"moves"} : my'[t][x] = my[t][x]
  <2>. HIDE DEF M
  <2>. QED  BY <1>3, OneField DEF Fields
<1>5. IsFiniteSet(missing)
  BY <1>1, FS_Subset DEF DraftTypes
<1>6. IsFiniteSet(added)
  <2>. HIDE DEF f, missing
  <2>. QED  BY <1>5, ImageIsFinite
<1>7. \A e \in missing : f[e] \in Movements
  <2> TAKE e \in missing
  <2>1. e[1] \in Lines /\ e[2] \in Values
    BY <1>1 DEF DraftTypes
  <2>2. Movement(e[1], "OUT", 0, e[2], t) \in Movements
    BY <2>1, MovementIsTyped DEF References
  <2>. QED  BY <2>2
<1>8. added \subseteq Movements
  BY <1>7
<1>9. M \subseteq Movements /\ IsFiniteSet(M)
  <2>. HIDE DEF added
  <2>. QED  BY <1>1, <1>6, <1>8, FS_Union DEF DraftTypes
<1>10. TypeOfField(t, "moves")'
  <2>. HIDE DEF M
  <2>. QED  BY <1>4, <1>9 DEF TypeOfField
<1>. HIDE DEF M
<1>. QED  BY <1>1, <1>4, <1>10, FieldFacts, FieldGoesOn DEF Steps

LEMMA OpeningKeepsTypes ==
    ASSUME IInv, TypeInv, NEW t \in Tx, Open(t)
    PROVE  TypeInv'
<1>. USE Sorts, ValueFacts
<1>1. PICK kind \in Kinds, i \in Lines, q \in Quantities :
          /\ kind \notin {"add", "update"} => q = StartQuantity
          /\ my' = [my EXCEPT ![t] = [Idle EXCEPT !.kind = kind, !.line = i, !.quantity = q]]
          /\ Go(t, FirstStep(kind))
  BY DEF Open
<1>2. Pending
  BY DEF Open
<1>3. PICK r : r = [Idle EXCEPT !.kind = kind, !.line = i, !.quantity = q]
  OBVIOUS
<1>4. /\ r.moves = {} /\ r.payments = {} /\ r.newLine = Unwritten /\ r.status = Unwritten
      /\ r.newTotal = Unwritten /\ r.total = 0 /\ r.last = 0 /\ r.todo = {}
      /\ r.kind = kind /\ r.quantity = q
  BY <1>3 DEF Idle
<1>5. FirstStep(kind) # "return" /\ (kind = "update" => FirstStep(kind) = "item")
  <2>1. kind \in AllKinds
    BY SaleAssumption DEF AllKinds
  <2>. QED  BY <2>1 DEF FirstStep, AllKinds
<1>6. my' = [my EXCEPT ![t] = r] /\ my'[t] = r /\ pc'[t] = FirstStep(kind)
  BY <1>1, <1>3 DEF Go, IInv, Shape
<1>7. IsFiniteSet({})
  BY FS_EmptySet
<1>8. DraftTypes(t)'
  <2>1. q \in Values /\ Unwritten \in Statuses \cup {Unwritten} /\ 0 \in Nat
    OBVIOUS
  <2>2. At(t, "return")' = FALSE
    BY <1>5, <1>6 DEF At
  <2>3. ~(my'[t].kind = "update" /\ pc'[t] # "item")
    BY <1>4, <1>5, <1>6
  <2>. QED  BY <1>4, <1>6, <1>7, <2>1, <2>2, <2>3 DEF DraftTypes
<1>. QED  BY <1>1, <1>2, <1>6, <1>8, TypesGoOn

LEMMA EndingKeepsTypes ==
    ASSUME IInv, TypeInv, NEW t \in Tx, Commit(t) \/ Abort(t)
    PROVE  TypeInv'
<1>. USE Sorts, ValueFacts
<1>1. my' = [my EXCEPT ![t] = Idle] /\ Go(t, "done")
  BY DEF Commit, Abort
<1>2. \A u \in Tx \ {t} : my'[u] = my[u] /\ pc'[u] = pc[u]
  BY <1>1 DEF Go, IInv, Shape
<1>3. my'[t] = Idle /\ pc'[t] = "done"
  BY <1>1 DEF Go, IInv, Shape
<1>4. ASSUME NEW u \in Tx PROVE DraftTypes(u)'
  <2>1. CASE u = t
    <3>1. IsFiniteSet({})
      BY FS_EmptySet
    <3>2. /\ Idle.moves = {} /\ Idle.payments = {} /\ Idle.newLine = Unwritten
          /\ Idle.status = Unwritten /\ Idle.newTotal = Unwritten /\ Idle.total = 0
          /\ Idle.last = 0 /\ Idle.todo = {} /\ Idle.kind = "none"
      BY DEF Idle
    <3>3. ~At(u, "return")' /\ ~UnderWay(u)'
      BY <1>3, <2>1 DEF At, UnderWay
    <3>. QED  BY <1>3, <2>1, <3>1, <3>2, <3>3 DEF DraftTypes
  <2>2. CASE u # t
    BY <1>2, <2>2 DEF TypeInv, DraftTypes, UnderWay, At
  <2>. QED  BY <2>1, <2>2
<1>5. StoredTypes'
  <2>1. CASE Commit(t)
    <3>1. DraftTypes(t) /\ StoredTypes
      BY DEF TypeInv
    <3>2. line' = LinesSeen(t) /\ moves' = Visible(t)
      BY <2>1 DEF Commit
    <3>3. /\ sale' = [status |-> Written(my[t].status, sale.status),
                      total |-> Written(my[t].newTotal, sale.total),
                      payments |-> sale.payments \cup my[t].payments]
      BY <2>1 DEF Commit
    <3>4. Written(my[t].status, sale.status) \in Statuses /\ Written(my[t].newTotal, sale.total) \in Nat
      BY <3>1 DEF DraftTypes, StoredTypes, Written
    <3>5. sale' \in [status : Statuses, total : Nat, payments : SUBSET Payments]
      BY <3>1, <3>3, <3>4 DEF DraftTypes, StoredTypes
    <3>6. line' \in [Lines -> Values \cup {Absent}] /\ IsFiniteSet(Present(line'))
          /\ moves' \subseteq Movements /\ IsFiniteSet(moves')
      BY <3>2, SeenIsTyped
    <3>. QED  BY <3>5, <3>6 DEF StoredTypes
  <2>2. CASE Abort(t)
    BY <2>2 DEF Abort, TypeInv, StoredTypes, Present
  <2>. QED  BY <2>1, <2>2
<1>. QED  BY <1>4, <1>5 DEF TypeInv

LEMMA StepKeepsTypes == IInv /\ TypeInv /\ [Next]_vars => TypeInv'
<1> SUFFICES ASSUME IInv, TypeInv, [Next]_vars PROVE TypeInv'
  OBVIOUS
<1>1. CASE Next
  BY <1>1, OpeningKeepsTypes, ReadingKeepsTypes, MovingOnKeepsTypes, RecordingKeepsTypes,
     LaunchingKeepsTypes, WritingKeepsTypes, ExitsKeepTypes, EndingKeepsTypes DEF Next
<1>2. CASE UNCHANGED vars
  BY <1>2 DEF vars, TypeInv, StoredTypes, Present, DraftTypes, At, UnderWay
<1>. QED  BY <1>1, <1>2

\* Every row and everything a request has read or written is of its type.
THEOREM Types == Spec => []TypeInv
<1>. QED  BY InitTypes, StepKeepsTypes, Inductive, PTL DEF Spec

\* The request of a sale and its statements: every column keeps its type, and
\* the total the lines add up to is a number whatever was written.
THEOREM TypeCorrect == Spec => []TypeOK
<1>1. IInv /\ TypeInv => TypeOK
  BY DEF IInv, Shape, TypeInv, StoredTypes, DraftTypes, TypeOK, Values, Payments
<1>. QED  BY <1>1, Types, Inductive, PTL

-----------------------------------------------------------------------------
(***************************************************************************)
(* As long as no request commits while another is under way, what each one  *)
(* has read is still so, and the stock of a line follows its request.       *)
(***************************************************************************)
Returning == {"update", "remove", "cancel", "cancelOs"}
\* What a set of movements says of a line.
QuantityIn(S, i, refs) ==
    SumFunctionOnSet([m \in S |-> m.quantity], {m \in S : m.line = i /\ m.ref \in refs})
NetIn(S, i) == QuantityIn(S, i, Exits) - QuantityIn(S, i, References \ Exits)
Has(S, i, ref, n) == \E m \in S : m.line = i /\ m.ref = ref /\ m.revision = n
RevisedIn(S, i) == \E m \in S : m.line = i /\ m.ref = "REV-OUT"

Chained(S, i) ==
    \A m \in S : m.line = i =>
        /\ m.ref = "REV-OUT" => m.revision > 0
        /\ m.ref = "REV-RETURN" =>
            \E n \in S : n.line = i /\ n.ref = "REV-OUT" /\ n.revision > m.revision

Out(S, i, q) ==
    /\ NetIn(S, i) = q /\ Chained(S, i)
    /\ Has(S, i, "OUT", 0) /\ (Has(S, i, "RETURN", 0) <=> RevisedIn(S, i))
Back(S, i, q) ==
    /\ NetIn(S, i) = (IF RevisedIn(S, i) THEN q ELSE 0) /\ Chained(S, i)
    /\ Has(S, i, "OUT", 0) /\ Has(S, i, "RETURN", 0)
Emptied(S, i, last) ==
    /\ NetIn(S, i) = 0 /\ Has(S, i, "OUT", 0) /\ Has(S, i, "RETURN", 0)
    /\ \A m \in S : m.line = i =>
        /\ m.ref = "REV-OUT" => m.revision > 0
        /\ m.ref \in {"REV-OUT", "REV-RETURN"} => m.revision <= last
Gone(S, i) == NetIn(S, i) = 0 \/ RevisedIn(S, i)
AsListed(S, i) == IF line[i] # Absent THEN Out(S, i, line[i]) ELSE Gone(S, i)

SerialState ==
    /\ \A m \in moves : Born(m.line)
    /\ \A i \in Lines : IF sale.status = "CANCELADA" THEN Gone(moves, i) ELSE AsListed(moves, i)
    /\ sale.total = TotalOf(line)
    /\ \A p \in sale.payments : p.value = sale.total
    /\ sale.payments # {} => sale.status # "ABERTA"

Touched(t) ==
    CASE my[t].kind \in {"add", "update", "remove"} -> {my[t].line}
      [] my[t].kind \in {"cancel", "cancelOs"} -> Present(line)
      [] OTHER -> {}
Waiting(t) == {e[1] : e \in my[t].todo} \cup (IF At(t, "return") THEN {my[t].at[1]} ELSE {})
NotYet(t) ==
   \/ pc[t] \in {"item", "lines"}
   \/ At(t, "header") /\ my[t].kind # "cancelOs"

AddSees(t) ==
    IF pc[t] \in {"available", "launch"} THEN \A m \in Visible(t) : m.line # t
    ELSE Out(Visible(t), t, my[t].quantity)
ReturnSees(t, i) ==
    IF NotYet(t) \/ (pc[t] \in {"refs", "return"} /\ i \in Waiting(t)) THEN AsListed(Visible(t), i)
    ELSE IF pc[t] \in {"refs", "return", "revision", "revision-ref", "revision-return"}
    THEN Back(Visible(t), i, line[i])
    ELSE IF my[t].kind # "update" THEN Gone(Visible(t), i)
    ELSE IF pc[t] \in {"available", "revise"} THEN Emptied(Visible(t), i, my[t].last)
    ELSE Out(Visible(t), i, my[t].quantity)

Sees(t, i) ==
    /\ i \notin Touched(t) => AsListed(Visible(t), i)
    /\ my[t].kind = "add" => AddSees(t)
    /\ my[t].kind \in Returning /\ i \in Touched(t) => ReturnSees(t, i)

Listed(t, e) == e[1] \in Touched(t) /\ e = << e[1], line[e[1]] >> /\ line[e[1]] # Absent
Returns(t) ==
    /\ pc[t] \in {"refs", "return"} => \A e \in my[t].todo : Listed(t, e)
    /\ At(t, "exits") => \A e \in my[t].todo : line[e[1]] # Absent
    /\ At(t, "return") =>
        /\ Listed(t, my[t].at) /\ \A e \in my[t].todo : e[1] # my[t].at[1]
        /\ MustReturn(t, my[t].at[1])

Revisions(t) ==
    /\ pc[t] \in {"revision-ref", "revision-return"} => my[t].last = LastRevision(t)
    /\ At(t, "revision-return") =>
        my[t].last > 0 /\ ~Recorded(t, my[t].line, "REV-RETURN", my[t].last)
    /\ At(t, "revision-return") => my[t].seen = line[my[t].line]
    /\ my[t].kind = "update" /\ pc[t] \in {"refs", "return", "revision", "revision-ref"} =>
        my[t].seen = line[my[t].line]

Late(t) == pc[t] \in {"sum", "total", "commit"}
Writes(t) ==
    /\ my[t].newLine = IF Late(t) /\ my[t].kind \in {"add", "update"} THEN my[t].quantity
                       ELSE IF Late(t) /\ my[t].kind = "remove" THEN Absent ELSE Unwritten
    /\ At(t, "total") => my[t].total = TotalOf(LinesSeen(t))
    /\ my[t].newTotal = IF At(t, "commit") /\ my[t].kind \in {"add", "update", "remove", "recalculate"}
                        THEN TotalOf(LinesSeen(t)) ELSE Unwritten
    /\ my[t].status = IF \/ my[t].kind \in {"finalize", "cancel"} /\ pc[t] # "header"
                         \/ my[t].kind = "cancelOs" /\ At(t, "commit")
                      THEN NewStatus(my[t].kind) ELSE Unwritten
    /\ my[t].kind = "finalize" /\ pc[t] # "header" => my[t].total = sale.total
    /\ \A p \in my[t].payments : p.value = sale.total
    /\ \A m \in my[t].moves : m.line = t \/ line[m.line] # Absent

Knows(t) ==
    /\ sale.status = "ABERTA"
    /\ my[t].kind \in {"update", "remove"} => line[my[t].line] # Absent
    /\ \A i \in Lines : Sees(t, i)
    /\ Returns(t) /\ Revisions(t) /\ Writes(t)

Serial == SerialState /\ \A t \in Tx : UnderWay(t) => Knows(t)
SerialInv == overlap \/ Serial

-----------------------------------------------------------------------------
\* Sums of movements.
LEMMA QuantityWith ==
    ASSUME NEW S \in SUBSET Movements, IsFiniteSet(S), NEW m \in Movements, m \notin S,
           NEW i, NEW refs
    PROVE  /\ QuantityIn(S, i, refs) \in Nat
           /\ QuantityIn(S \cup {m}, i, refs)
                = QuantityIn(S, i, refs)
                  + (IF m.line = i /\ m.ref \in refs THEN m.quantity ELSE 0)
<1> DEFINE T == S \cup {m}
           P == {x \in S : x.line = i /\ x.ref \in refs}
           R == {x \in T : x.line = i /\ x.ref \in refs}
           f == [x \in S |-> x.quantity]
           g == [x \in T |-> x.quantity]
<1>1. \A x \in Movements : x.quantity \in Nat /\ x.quantity \in Int
  BY DEF Movements
<1>2. IsFiniteSet(P)
  BY FS_Subset
<1>3. (\A x \in P : f[x] = g[x] /\ f[x] \in Nat) /\ \A x \in R : g[x] \in Int
  BY <1>1
<1>4. SumFunctionOnSet(f, P) \in Nat /\ SumFunctionOnSet(f, P) = SumFunctionOnSet(g, P)
  <2>. HIDE DEF f, g, P
  <2>. QED  BY <1>2, <1>3, SumIsNat, SumDependsOnValues
<1>5. CASE m.line = i /\ m.ref \in refs
  <2>1. R = P \cup {m} /\ m \notin P /\ g[m] = m.quantity
    BY <1>5
  <2>2. \A x \in P \cup {m} : g[x] \in Int
    BY <1>3, <2>1
  <2>3. SumFunctionOnSet(g, P \cup {m}) = SumFunctionOnSet(g, P) + g[m]
    <3>. HIDE DEF P, g
    <3>. QED  BY <1>2, <2>1, <2>2, SumWith
  <2>. HIDE DEF f, g, P, R
  <2>4. SumFunctionOnSet(g, R) = SumFunctionOnSet(f, P) + m.quantity
    BY <1>4, <2>1, <2>3
  <2>. QED  BY <1>4, <1>5, <2>4 DEF QuantityIn, f, g, P, R
<1>6. CASE ~(m.line = i /\ m.ref \in refs)
  <2>1. R = P
    BY <1>6
  <2>. HIDE DEF f, g, P, R
  <2>2. SumFunctionOnSet(g, R) = SumFunctionOnSet(f, P) + 0
    BY <1>4, <2>1
  <2>. QED  BY <1>4, <1>6, <2>2 DEF QuantityIn, f, g, P, R
<1>. QED  BY <1>5, <1>6

LEMMA QuantityIsNat ==
    ASSUME NEW S \in SUBSET Movements, IsFiniteSet(S), NEW i, NEW refs
    PROVE  QuantityIn(S, i, refs) \in Nat
<1> DEFINE P == {x \in S : x.line = i /\ x.ref \in refs}
           f == [x \in S |-> x.quantity]
<1>1. IsFiniteSet(P) /\ \A x \in P : f[x] \in Nat
  BY FS_Subset DEF Movements
<1>2. SumFunctionOnSet(f, P) \in Nat
  <2>. HIDE DEF f, P
  <2>. QED  BY <1>1, SumIsNat
<1>. QED  BY <1>2 DEF QuantityIn

\* What one more movement does to the units of a line that are out.
LEMMA NetWith ==
    ASSUME NEW S \in SUBSET Movements, IsFiniteSet(S), NEW m \in Movements, m \notin S, NEW i
    PROVE  /\ NetIn(S, i) \in Int /\ m.quantity \in Nat
           /\ m.line # i => NetIn(S \cup {m}, i) = NetIn(S, i)
           /\ m.line = i /\ m.ref \in Exits => NetIn(S \cup {m}, i) = NetIn(S, i) + m.quantity
           /\ m.line = i /\ m.ref \notin Exits => NetIn(S \cup {m}, i) = NetIn(S, i) - m.quantity
<1> DEFINE a == QuantityIn(S, i, Exits)
           b == QuantityIn(S, i, References \ Exits)
           c == QuantityIn(S \cup {m}, i, Exits)
           d == QuantityIn(S \cup {m}, i, References \ Exits)
<1>1. a \in Nat /\ c = a + (IF m.line = i /\ m.ref \in Exits THEN m.quantity ELSE 0)
  <2>1. ASSUME NEW refs
        PROVE  /\ QuantityIn(S, i, refs) \in Nat
               /\ QuantityIn(S \cup {m}, i, refs)
                    = QuantityIn(S, i, refs)
                      + (IF m.line = i /\ m.ref \in refs THEN m.quantity ELSE 0)
    BY QuantityWith
  <2>. QED  BY <2>1
<1>2. b \in Nat
      /\ d = b + (IF m.line = i /\ m.ref \in References \ Exits THEN m.quantity ELSE 0)
  BY QuantityWith
<1>3. NetIn(S, i) = a - b /\ NetIn(S \cup {m}, i) = c - d
  BY DEF NetIn
<1>4. m.quantity \in Nat /\ m.ref \in References
  BY DEF Movements
<1>. HIDE DEF a, b, c, d
<1>5. CASE m.line # i
  BY <1>1, <1>2, <1>3, <1>4, <1>5
<1>6. CASE m.line = i /\ m.ref \in Exits
  BY <1>1, <1>2, <1>3, <1>4, <1>6
<1>7. CASE m.line = i /\ m.ref \notin Exits
  BY <1>1, <1>2, <1>3, <1>4, <1>7
<1>. QED  BY <1>1, <1>2, <1>3, <1>4, <1>5, <1>6, <1>7

\* No movement of a line, no unit of it out.
LEMMA NetOfNothing ==
    ASSUME NEW S, NEW i, \A m \in S : m.line # i
    PROVE  NetIn(S, i) = 0
<1>1. \A refs : {m \in S : m.line = i /\ m.ref \in refs} = {}
  OBVIOUS
<1>2. \A refs : QuantityIn(S, i, refs) = 0
  BY <1>1, SumOfNothing DEF QuantityIn
<1>. QED  BY <1>2 DEF NetIn

\* A movement of another line changes nothing for this one.
LEMMA OtherLine ==
    ASSUME NEW S \in SUBSET Movements, IsFiniteSet(S), NEW m \in Movements, NEW i, m.line # i
    PROVE  /\ \A q : Out(S, i, q) => Out(S \cup {m}, i, q)
           /\ \A q : Back(S, i, q) => Back(S \cup {m}, i, q)
           /\ Gone(S, i) => Gone(S \cup {m}, i)
           /\ AsListed(S, i) => AsListed(S \cup {m}, i)
<1> DEFINE T == S \cup {m}
<1>1. NetIn(T, i) = NetIn(S, i)
  <2>1. CASE m \in S
    <3>1. T = S
      BY <2>1
    <3>. QED  BY <3>1
  <2>2. CASE m \notin S
    BY <2>2, NetWith
  <2>. QED  BY <2>1, <2>2
<1>2. \A ref, n : Has(T, i, ref, n) <=> Has(S, i, ref, n)
  BY DEF Has
<1>3. RevisedIn(T, i) <=> RevisedIn(S, i)
  BY DEF RevisedIn
<1>4. Chained(S, i) => Chained(T, i)
  BY DEF Chained
<1>. HIDE DEF T
<1>5. /\ \A q : Out(S, i, q) => Out(T, i, q)
      /\ \A q : Back(S, i, q) => Back(T, i, q)
      /\ Gone(S, i) => Gone(T, i)
  BY <1>1, <1>2, <1>3, <1>4 DEF Out, Back, Gone
<1>6. AsListed(S, i) => AsListed(T, i)
  BY <1>5 DEF AsListed
<1>. QED  BY <1>5, <1>6 DEF T

\* The life of a line: launched, returned, its last revision returned, revised.
LEMMA LineIsLaunched ==
    ASSUME NEW S \in SUBSET Movements, IsFiniteSet(S), NEW m \in Movements, NEW i,
           \A x \in S : x.line # i, m.line = i, m.ref = "OUT", m.revision = 0
    PROVE  Out(S \cup {m}, i, m.quantity)
<1> DEFINE T == S \cup {m}
<1>1. NetIn(S, i) = 0
  BY NetOfNothing
<1>2. NetIn(T, i) = m.quantity
  BY <1>1, NetWith DEF Exits
<1>3. \A x \in T : x.line = i => x = m
  OBVIOUS
<1>4. Has(T, i, "OUT", 0) /\ ~Has(T, i, "RETURN", 0) /\ ~RevisedIn(T, i) /\ Chained(T, i)
  BY <1>3 DEF Has, RevisedIn, Chained
<1>. HIDE DEF T
<1>5. Out(T, i, m.quantity)
  BY <1>2, <1>4 DEF Out
<1>. QED  BY <1>5 DEF T

LEMMA LineIsReturned ==
    ASSUME NEW S \in SUBSET Movements, IsFiniteSet(S), NEW m \in Movements, NEW i,
           Out(S, i, m.quantity), ~Has(S, i, "RETURN", 0),
           m.line = i, m.ref = "RETURN", m.revision = 0
    PROVE  Back(S \cup {m}, i, m.quantity)
<1> DEFINE T == S \cup {m}
<1>1. m \notin S
  BY DEF Has
<1>2. NetIn(S, i) = m.quantity
  BY DEF Out
<1>3. NetIn(T, i) = 0
  BY <1>1, <1>2, NetWith DEF Exits
<1>4. ~RevisedIn(T, i)
  BY DEF Out, RevisedIn
<1>5. Chained(T, i)
  BY DEF Out, Chained, RevisedIn
<1>6. Has(T, i, "OUT", 0) /\ Has(T, i, "RETURN", 0)
  BY DEF Out, Has
<1>. HIDE DEF T
<1>7. Back(T, i, m.quantity)
  BY <1>3, <1>4, <1>5, <1>6 DEF Back
<1>. QED  BY <1>7 DEF T

LEMMA LineWasReturned ==
    ASSUME NEW S, NEW i, NEW q, Out(S, i, q), Has(S, i, "RETURN", 0)
    PROVE  Back(S, i, q)
  BY DEF Out, Back

LEMMA ReturnedIsGone ==
    ASSUME NEW S, NEW i, NEW q, Back(S, i, q)
    PROVE  Gone(S, i)
  BY DEF Back, Gone

\* `last' is the last revision of the line, or 0.
LastOf(S, i, last) ==
    /\ last \in Nat
    /\ \A m \in S : m.line = i /\ m.ref = "REV-OUT" => m.revision <= last
    /\ last > 0 => Has(S, i, "REV-OUT", last)

LEMMA RevisionWasReturned ==
    ASSUME NEW S \in SUBSET Movements, NEW i, NEW q, NEW last, Back(S, i, q), LastOf(S, i, last),
           last = 0 \/ Has(S, i, "REV-RETURN", last)
    PROVE  Emptied(S, i, last)
<1>0. \A m \in S : m.revision \in Nat
  BY DEF Movements
<1>1. last = 0
  BY <1>0 DEF Back, Chained, LastOf, Has
<1>2. ~RevisedIn(S, i)
  BY <1>0, <1>1 DEF Back, Chained, LastOf, RevisedIn
<1>3. \A m \in S : m.line = i => m.ref # "REV-RETURN" /\ m.ref # "REV-OUT"
  BY <1>2 DEF Back, Chained, RevisedIn
<1>. QED  BY <1>2, <1>3 DEF Back, Emptied

LEMMA RevisionIsReturned ==
    ASSUME NEW S \in SUBSET Movements, IsFiniteSet(S), NEW m \in Movements, NEW i,
           Back(S, i, m.quantity), m.line = i, m.ref = "REV-RETURN",
           LastOf(S, i, m.revision), m.revision > 0, ~Has(S, i, "REV-RETURN", m.revision)
    PROVE  Emptied(S \cup {m}, i, m.revision)
<1> DEFINE T == S \cup {m}
<1>0. \A x \in T : x.revision \in Nat
  BY DEF Movements
<1>1. m \notin S
  BY DEF Has
<1>2. RevisedIn(S, i)
  BY DEF LastOf, Has, RevisedIn
<1>3. NetIn(S, i) = m.quantity
  BY <1>2 DEF Back
<1>4. NetIn(T, i) = 0
  BY <1>1, <1>3, NetWith DEF Exits
<1>5. Has(T, i, "OUT", 0) /\ Has(T, i, "RETURN", 0)
  BY DEF Back, Has
<1>6. \A x \in S : x.line = i /\ x.ref = "REV-RETURN" => x.revision <= m.revision
  <2> SUFFICES ASSUME NEW x \in S, x.line = i, x.ref = "REV-RETURN" PROVE x.revision <= m.revision
    OBVIOUS
  <2>1. PICK y \in S : y.line = i /\ y.ref = "REV-OUT" /\ y.revision > x.revision
    BY DEF Back, Chained
  <2>2. y.revision <= m.revision
    BY <2>1 DEF LastOf
  <2>. QED  BY <1>0, <2>1, <2>2
<1>7. \A x \in T : x.line = i =>
        /\ x.ref = "REV-OUT" => x.revision > 0
        /\ x.ref \in {"REV-OUT", "REV-RETURN"} => x.revision <= m.revision
  BY <1>0, <1>6 DEF Back, Chained, LastOf
<1>. HIDE DEF T
<1>8. Emptied(T, i, m.revision)
  BY <1>4, <1>5, <1>7 DEF Emptied
<1>. QED  BY <1>8 DEF T

LEMMA LineIsRevised ==
    ASSUME NEW S \in SUBSET Movements, IsFiniteSet(S), NEW m \in Movements, NEW i, NEW last \in Nat,
           Emptied(S, i, last), m.line = i, m.ref = "REV-OUT", m.revision = last + 1
    PROVE  m \notin S /\ Out(S \cup {m}, i, m.quantity)
<1> DEFINE T == S \cup {m}
<1>0. \A x \in T : x.revision \in Nat
  BY DEF Movements
<1>1. m \notin S
  BY DEF Emptied
<1>2. NetIn(S, i) = 0
  BY DEF Emptied
<1>3. NetIn(T, i) = m.quantity
  BY <1>1, <1>2, NetWith DEF Exits
<1>4. Has(T, i, "OUT", 0) /\ Has(T, i, "RETURN", 0) /\ RevisedIn(T, i)
  BY DEF Emptied, Has, RevisedIn
<1>5. \A x \in S : x.line = i /\ x.ref = "REV-RETURN" => m.revision > x.revision
  BY <1>0 DEF Emptied
<1>6. Chained(T, i)
  BY <1>0, <1>5 DEF Emptied, Chained
<1>. HIDE DEF T
<1>7. Out(T, i, m.quantity)
  BY <1>3, <1>4, <1>6 DEF Out
<1>. QED  BY <1>1, <1>7 DEF T
-----------------------------------------------------------------------------
LEMMA InitSerial == Init => SerialInv
<1> SUFFICES ASSUME Init PROVE SerialState /\ \A t \in Tx : ~UnderWay(t)
  BY DEF SerialInv, Serial
<1>. USE Sorts, ValueFacts
<1>1. \A t \in Tx : ~UnderWay(t)
  BY DEF Init, UnderWay
<1>2. /\ line = StartLines /\ sale.status = "ABERTA" /\ sale.total = TotalOf(line) /\ sale.payments = {}
      /\ moves = {Movement(i, "OUT", 0, StartQuantity, NoTx) : i \in Launched}
  BY DEF Init
<1>3. \A i \in Launched : Born(i)
  BY SaleAssumption DEF Born
<1>4. \A m \in moves : m.line \in Launched
  BY <1>2 DEF Movement
<1>5. moves \subseteq Movements /\ IsFiniteSet(moves)
  BY InitTypes DEF TypeInv, StoredTypes
<1>6. ASSUME NEW i \in Launched PROVE Out(moves, i, StartQuantity)
  <2> DEFINE m == Movement(i, "OUT", 0, StartQuantity, NoTx)
             S == moves \ {m}
  <2>1. m \in moves /\ m \in Movements
    BY <1>2, <1>5
  <2>2. S \subseteq Movements /\ IsFiniteSet(S) /\ S \cup {m} = moves
    BY <1>5, <2>1, FS_Subset
  <2>3. \A x \in S : x.line # i
    BY <1>2 DEF Movement
  <2>4. m.line = i /\ m.ref = "OUT" /\ m.revision = 0 /\ m.quantity = StartQuantity
    BY DEF Movement
  <2>. HIDE DEF m, S
  <2>5. Out(S \cup {m}, i, m.quantity)
    BY <2>1, <2>2, <2>3, <2>4, LineIsLaunched
  <2>. QED  BY <2>2, <2>4, <2>5
<1>7. ASSUME NEW i \in Lines \ Launched PROVE Gone(moves, i)
  BY <1>4, NetOfNothing DEF Gone
<1>8. \A i \in Lines : AsListed(moves, i)
  BY <1>2, <1>6, <1>7 DEF AsListed, StartLines
<1>. QED  BY <1>1, <1>2, <1>3, <1>4, <1>8 DEF SerialState

\* What a request knows of what is committed stays so while that stays.
LEMMA KnowsStays ==
    ASSUME NEW t, my'[t] = my[t], pc'[t] = pc[t], UNCHANGED << sale, line, moves >>, Knows(t)
    PROVE  Knows(t)'
<1>1. Visible(t)' = Visible(t) /\ LinesSeen(t)' = LinesSeen(t)
  BY DEF Visible, LinesSeen
<1>2. \A i : AsListed(Visible(t), i) => AsListed(Visible(t), i)'
  BY <1>1 DEF AsListed
<1>3. Touched(t)' = Touched(t) /\ Waiting(t)' = Waiting(t) /\ NotYet(t)' = NotYet(t) /\ Late(t)' = Late(t)
  BY DEF Touched, Waiting, NotYet, Late, Present, At
<1>4. AddSees(t) => AddSees(t)'
  BY <1>1 DEF AddSees
<1>5. \A i : ReturnSees(t, i) => ReturnSees(t, i)'
  BY <1>1, <1>2, <1>3 DEF ReturnSees
<1>6. \A i \in Lines : Sees(t, i)'
  BY <1>2, <1>3, <1>4, <1>5 DEF Knows, Sees
<1>7. Returns(t)'
  <2>1. \A e : Listed(t, e) => Listed(t, e)'
    BY <1>3 DEF Listed
  <2>2. \A i : MustReturn(t, i) => MustReturn(t, i)'
    BY <1>1 DEF MustReturn, Recorded
  <2>. QED  BY <2>1, <2>2 DEF Knows, Returns, At
<1>8. Revisions(t)'
  <2>1. LastRevision(t)' = LastRevision(t)
    BY <1>1 DEF LastRevision
  <2>2. \A i, n : ~Recorded(t, i, "REV-RETURN", n) => ~Recorded(t, i, "REV-RETURN", n)'
    BY <1>1 DEF Recorded
  <2>. QED  BY <2>1, <2>2 DEF Knows, Revisions, At
<1>9. Writes(t)'
  BY <1>1, <1>3 DEF Knows, Writes, At
<1>. QED  BY <1>6, <1>7, <1>8, <1>9 DEF Knows

\* A request goes on, and knows what it must.
LEMMA SerialGoesOn ==
    ASSUME IInv, Serial, NEW t \in Tx, pc[t] # "done", NEW label \in Steps, Go(t, label), Pending,
           my' = [my EXCEPT ![t] = my'[t]], Knows(t)'
    PROVE  Serial'
<1>1. /\ \A u \in Tx \ {t} : pc'[u] = pc[u] /\ my'[u] = my[u]
      /\ pc'[t] = label /\ UNCHANGED << sale, line, moves >>
  BY DEF IInv, Shape, Go, Pending
<1>2. ASSUME NEW u \in Tx, UnderWay(u)' PROVE Knows(u)'
  <2>1. CASE u = t
    BY <2>1
  <2>2. CASE u # t
    <3>1. Knows(u)
      BY <1>1, <1>2, <2>2 DEF Serial, UnderWay
    <3>. QED  BY <1>1, <2>2, <3>1, KnowsStays
  <2>. QED  BY <2>1, <2>2
<1>3. \A i : Born(i) => Born(i)'
  BY <1>1 DEF Born
<1>4. SerialState'
  <2>1. \A m \in moves' : Born(m.line)'
    BY <1>1, <1>3 DEF Serial, SerialState
  <2>2. \A i \in Lines : (IF sale.status = "CANCELADA" THEN Gone(moves, i) ELSE AsListed(moves, i))'
    BY <1>1 DEF Serial, SerialState, AsListed
  <2>3. sale'.total = TotalOf(line)'
    BY <1>1 DEF Serial, SerialState
  <2>. QED  BY <1>1, <2>1, <2>2, <2>3 DEF Serial, SerialState
<1>. QED  BY <1>2, <1>4 DEF Serial

\* Statements that write neither the line, the sale nor the payments.
Middle == {"item", "refs", "return", "line", "revision", "revision-ref", "revision-return",
           "available", "revise", "launch", "lines", "exits", "pay"}
SameWrites(t) ==
    /\ my'[t].newLine = my[t].newLine /\ my'[t].newTotal = my[t].newTotal
    /\ my'[t].status = my[t].status /\ my'[t].total = my[t].total
    /\ my'[t].payments = my[t].payments

LEMMA WritesInTheMiddle ==
    ASSUME NEW t, Writes(t), pc[t] \in Middle, pc'[t] \in Middle, UNCHANGED << sale, line >>,
           SameWrites(t), my'[t].kind = my[t].kind, my'[t].quantity = my[t].quantity,
           \A m \in my'[t].moves : m \in my[t].moves \/ line[m.line] # Absent
    PROVE  Writes(t)'
  BY DEF Writes, Middle, SameWrites, Late, At

\* What a request under way knows.
LEMMA KnowsFacts ==
    ASSUME IInv, TypeInv, Serial, NEW t \in Tx, pc[t] \in Steps
    PROVE  /\ Knows(t) /\ Returns(t) /\ Revisions(t) /\ Writes(t)
           /\ \A i \in Lines : Sees(t, i)
           /\ DraftTypes(t) /\ Visible(t) \subseteq Movements /\ IsFiniteSet(Visible(t))
           /\ pc[t] # "done"
  BY StepFacts, SeenIsTyped DEF Serial, Knows, TypeInv, Steps

LEMMA TouchedLine ==
    ASSUME NEW t, my[t].kind \in {"add", "update", "remove"} PROVE Touched(t) = {my[t].line}
  BY DEF Touched
LEMMA TouchedLines ==
    ASSUME NEW t, my[t].kind \in {"cancel", "cancelOs"} PROVE Touched(t) = Present(line)
  BY DEF Touched
LEMMA TouchedNone ==
    ASSUME NEW t, my[t].kind \notin {"add", "update", "remove", "cancel", "cancelOs"}
    PROVE  Touched(t) = {}
  BY DEF Touched

LEMMA TouchedStays ==
    ASSUME NEW t, my'[t].kind = my[t].kind, my'[t].line = my[t].line, UNCHANGED line
    PROVE  Touched(t)' = Touched(t)
  BY DEF Touched, Present
\* The same movements, seen after the statement as before it.
LEMMA SameSight ==
    ASSUME NEW t, my'[t].moves = my[t].moves, my'[t].kind = my[t].kind, my'[t].line = my[t].line,
           UNCHANGED << line, moves >>
    PROVE  /\ Visible(t)' = Visible(t) /\ Touched(t)' = Touched(t)
           /\ \A i : AsListed(Visible(t), i)' <=> AsListed(Visible(t), i)
           /\ \A i, ref, n : Recorded(t, i, ref, n)' <=> Recorded(t, i, ref, n)
           /\ \A i : MustReturn(t, i)' <=> MustReturn(t, i)
           /\ LastRevision(t)' = LastRevision(t)
<1>1. Visible(t)' = Visible(t)
  BY DEF Visible
<1>. QED  BY <1>1, TouchedStays DEF AsListed, Recorded, MustReturn, LastRevision

LEMMA ItemKeepsSerial ==
    ASSUME IInv, TypeInv, Serial, NEW t \in Tx, ReadItem(t)
    PROVE  Serial'
<1>1. pc[t] = "item" /\ Pending /\ pc[t] \in Steps \cap Middle
  BY DEF ReadItem, At, Steps, Middle
<1>2. /\ Knows(t) /\ Writes(t) /\ (\A i \in Lines : Sees(t, i)) /\ UnderWay(t)
      /\ my[t].kind \in {"update", "remove"} /\ my[t].line \in Lines /\ line[my[t].line] # Absent
  BY <1>1, KnowsFacts, StepFacts DEF AskedBy, PartOf, ReadItem
<1>3. PICK q, i : q = line[my[t].line] /\ i = my[t].line
  OBVIOUS
<1>4. PICK label \in {"line", "refs"} :
          Go(t, label) /\ (label = "line" => my[t].kind = "update" /\ my[t].quantity = q)
  BY <1>3 DEF ReadItem
<1>5. my' = [my EXCEPT ![t] = [[my[t] EXCEPT !["seen"] = q] EXCEPT !["todo"] = {<< i, q >>}]]
  BY <1>3 DEF ReadItem, IInv, Shape
<1>6. /\ my' = [my EXCEPT ![t] = my'[t]] /\ my'[t].seen = q /\ my'[t].todo = {<< i, q >>}
      /\ my'[t].kind = my[t].kind /\ my'[t].line = i /\ my'[t].quantity = my[t].quantity
      /\ my'[t].moves = my[t].moves /\ SameWrites(t)
  <2>1. my'[t] = [x \in Fields |-> IF x = "todo" THEN {<< i, q >>} ELSE IF x = "seen" THEN q ELSE my[t][x]]
    BY <1>5 DEF IInv, Shape, Fields
  <2>2. my' = [my EXCEPT ![t] = my'[t]]
    BY <1>5 DEF IInv, Shape
  <2>. QED  BY <1>3, <2>1, <2>2 DEF Fields, SameWrites
<1>7. pc'[t] = label /\ label \in Steps \cap Middle
  BY <1>4 DEF IInv, Shape, Go, Steps, Middle
<1>8. UNCHANGED << sale, line, moves >>
  BY <1>1 DEF Pending
<1>9. Writes(t)'
  BY <1>1, <1>2, <1>6, <1>7, <1>8, WritesInTheMiddle
<1>10. /\ Visible(t)' = Visible(t) /\ Touched(t)' = Touched(t) /\ Touched(t) = {i}
       /\ \A j : AsListed(Visible(t), j)' <=> AsListed(Visible(t), j)
  BY <1>2, <1>3, <1>6, <1>8, SameSight, TouchedLine
<1>11. ASSUME NEW j \in Lines PROVE Sees(t, j)'
  <2>1. CASE j # i
    BY <1>2, <1>6, <1>10, <2>1 DEF Sees
  <2>2. CASE j = i
    <3>1. AsListed(Visible(t), i)
      BY <1>1, <1>2, <1>10, <2>2 DEF Sees, ReturnSees, NotYet, Returning
    <3>2. CASE label = "line"
      <4>1. Out(Visible(t), i, my[t].quantity)
        BY <1>2, <1>3, <1>4, <3>1, <3>2 DEF AsListed
      <4>2. ReturnSees(t, i)'
        BY <1>4, <1>6, <1>7, <1>10, <3>2, <4>1 DEF ReturnSees, NotYet, At
      <4>. QED  BY <1>2, <1>6, <1>10, <2>2, <4>2 DEF Sees
    <3>3. CASE label = "refs"
      <4>1. i \in Waiting(t)'
        BY <1>6 DEF Waiting
      <4>2. ReturnSees(t, i)'
        BY <1>7, <1>10, <3>1, <3>3, <4>1 DEF ReturnSees
      <4>. QED  BY <1>2, <1>6, <1>10, <2>2, <4>2 DEF Sees
    <3>. QED  BY <1>4, <3>2, <3>3
  <2>. QED  BY <2>1, <2>2
<1>12. Returns(t)'
  BY <1>2, <1>3, <1>4, <1>6, <1>7, <1>8, <1>10 DEF Returns, Listed, At
<1>13. Revisions(t)'
  BY <1>3, <1>4, <1>6, <1>7, <1>8 DEF Revisions, At
<1>14. Knows(t)'
  BY <1>2, <1>3, <1>6, <1>8, <1>9, <1>11, <1>12, <1>13 DEF Knows
<1>. QED  BY <1>1, <1>2, <1>4, <1>6, <1>7, <1>14, SerialGoesOn DEF UnderWay

LEMMA LinesKeepSerial ==
    ASSUME IInv, TypeInv, Serial, NEW t \in Tx, ReadLines(t)
    PROVE  Serial'
<1>1. pc[t] = "lines" /\ Pending /\ pc[t] \in Steps \cap Middle
  BY DEF ReadLines, At, Steps, Middle
<1>2. /\ Knows(t) /\ Writes(t) /\ (\A i \in Lines : Sees(t, i)) /\ UnderWay(t)
      /\ my[t].kind \in {"finalize", "cancel", "cancelOs"}
  BY <1>1, KnowsFacts, StepFacts DEF AskedBy, PartOf
<1>3. PICK label \in {"exits", "refs"} :
          Go(t, label) /\ (label = "exits" <=> my[t].kind = "finalize")
  BY DEF ReadLines
<1>4. LinesSeen(t) = [i \in Lines |-> line[i]]
  BY <1>1, <1>2 DEF Writes, Late, LinesSeen
<1>5. PICK todo : todo = {<< i, line[i] >> : i \in Present(line)}
  OBVIOUS
<1>6. Keep(t, "todo", todo)
  <2>1. \A i \in Present(line) : LinesSeen(t)[i] = line[i]
    BY <1>4 DEF Present
  <2>. QED  BY <1>5, <2>1 DEF ReadLines
<1>7. /\ my' = [my EXCEPT ![t] = my'[t]] /\ my'[t].todo = todo
      /\ my'[t].kind = my[t].kind /\ my'[t].line = my[t].line /\ my'[t].quantity = my[t].quantity
      /\ my'[t].moves = my[t].moves /\ SameWrites(t)
  BY <1>6, OneField DEF Fields, SameWrites
<1>8. pc'[t] = label /\ label \in Steps \cap Middle
  BY <1>3 DEF IInv, Shape, Go, Steps, Middle
<1>9. UNCHANGED << sale, line, moves >>
  BY <1>1 DEF Pending
<1>10. Writes(t)'
  BY <1>1, <1>2, <1>7, <1>8, <1>9, WritesInTheMiddle
<1>11. /\ Visible(t)' = Visible(t) /\ Touched(t)' = Touched(t)
       /\ \A j : AsListed(Visible(t), j)' <=> AsListed(Visible(t), j)
  BY <1>7, <1>9, SameSight
<1>12. my[t].kind = "finalize" => Touched(t) = {}
  BY TouchedNone
<1>13. my[t].kind # "finalize" => Touched(t) = Present(line)
  BY <1>2, TouchedLines
<1>14. ASSUME NEW j \in Lines PROVE Sees(t, j)'
  <2>1. AsListed(Visible(t), j)
    BY <1>1, <1>2, <1>12 DEF Sees, ReturnSees, NotYet, Returning
  <2>2. CASE j \in Touched(t)
    <3>1. label = "refs" /\ j \in Present(line)
      BY <1>3, <1>12, <1>13, <2>2
    <3>2. j \in Waiting(t)'
      <4>1. << j, line[j] >> \in todo /\ << j, line[j] >>[1] = j
        BY <1>5, <3>1
      <4>. QED  BY <1>7, <4>1 DEF Waiting
    <3>3. ReturnSees(t, j)'
      BY <1>8, <1>11, <2>1, <3>1, <3>2 DEF ReturnSees
    <3>. QED  BY <1>2, <1>7, <1>11, <2>2, <3>3 DEF Sees
  <2>3. CASE j \notin Touched(t)
    BY <1>2, <1>7, <1>11, <2>1, <2>3 DEF Sees
  <2>. QED  BY <2>2, <2>3
<1>15. Returns(t)'
  <2>1. \A e \in todo : e[1] \in Present(line) /\ e = << e[1], line[e[1]] >> /\ line[e[1]] # Absent
    BY <1>5 DEF Present
  <2>. QED  BY <1>3, <1>7, <1>8, <1>9, <1>11, <1>13, <2>1 DEF Returns, Listed, At
<1>16. Revisions(t)'
  BY <1>2, <1>3, <1>7, <1>8 DEF Revisions, At
<1>17. Knows(t)'
  BY <1>2, <1>7, <1>9, <1>10, <1>14, <1>15, <1>16 DEF Knows
<1>. QED  BY <1>1, <1>2, <1>3, <1>7, <1>8, <1>17, SerialGoesOn DEF UnderWay
LEMMA LookUpKeepsSerial ==
    ASSUME IInv, TypeInv, Serial, NEW t \in Tx, LookUpReturn(t)
    PROVE  Serial'
<1>1. pc[t] = "refs" /\ Pending /\ pc[t] \in Steps \cap Middle
  BY DEF LookUpReturn, At, Steps, Middle
<1>2. /\ Knows(t) /\ Writes(t) /\ (\A i \in Lines : Sees(t, i)) /\ UnderWay(t) /\ Returns(t)
      /\ Revisions(t) /\ my[t].kind \in Returning
  BY <1>1, KnowsFacts, StepFacts DEF AskedBy, PartOf, Returning
<1>3. PICK e \in my[t].todo :
          /\ my' = [my EXCEPT ![t].todo = @ \ {e}, ![t].at = e]
          /\ IF MustReturn(t, e[1]) THEN Go(t, "return") ELSE UNCHANGED pc
  BY DEF LookUpReturn
<1>4. PICK todo : todo = my[t].todo \ {e}
  OBVIOUS
<1>5. PICK label \in {"return", "refs"} : Go(t, label) /\ (label = "return" <=> MustReturn(t, e[1]))
  <2>1. UNCHANGED pc => Go(t, "refs")
    BY <1>1 DEF Go, IInv, Shape
  <2>. QED  BY <1>3, <2>1
<1>6. my' = [my EXCEPT ![t] = [[my[t] EXCEPT !["todo"] = todo] EXCEPT !["at"] = e]]
  BY <1>3, <1>4 DEF IInv, Shape
<1>7. /\ my' = [my EXCEPT ![t] = my'[t]] /\ my'[t].todo = todo /\ my'[t].at = e
      /\ my'[t].kind = my[t].kind /\ my'[t].line = my[t].line /\ my'[t].quantity = my[t].quantity
      /\ my'[t].moves = my[t].moves /\ my'[t].seen = my[t].seen /\ SameWrites(t)
  <2>1. my'[t] = [x \in Fields |-> IF x = "at" THEN e ELSE IF x = "todo" THEN todo ELSE my[t][x]]
    BY <1>6 DEF IInv, Shape, Fields
  <2>2. my' = [my EXCEPT ![t] = my'[t]]
    BY <1>6 DEF IInv, Shape
  <2>. QED  BY <2>1, <2>2 DEF Fields, SameWrites
<1>8. pc'[t] = label /\ label \in Steps \cap Middle
  BY <1>5 DEF IInv, Shape, Go, Steps, Middle
<1>9. UNCHANGED << sale, line, moves >>
  BY <1>1 DEF Pending
<1>10. Writes(t)'
  BY <1>1, <1>2, <1>7, <1>8, <1>9, WritesInTheMiddle
<1>11. /\ Visible(t)' = Visible(t) /\ Touched(t)' = Touched(t)
       /\ \A j : AsListed(Visible(t), j)' <=> AsListed(Visible(t), j)
       /\ \A j : MustReturn(t, j)' <=> MustReturn(t, j)
  BY <1>7, <1>9, SameSight
<1>12. \A x \in my[t].todo : x[1] \in Touched(t) /\ x = << x[1], line[x[1]] >> /\ line[x[1]] # Absent
  BY <1>1, <1>2 DEF Returns, Listed
<1>13. \A x \in todo : x[1] # e[1]
  BY <1>4, <1>12
<1>14. ASSUME NEW j \in Lines PROVE Sees(t, j)'
  <2>1. CASE j \notin Touched(t)
    BY <1>2, <1>7, <1>11, <2>1 DEF Sees, Returning
  <2>2. CASE j \in Touched(t)
    <3>1. IF j \in Waiting(t) THEN AsListed(Visible(t), j) ELSE Back(Visible(t), j, line[j])
      BY <1>1, <1>2, <2>2 DEF Sees, ReturnSees, NotYet, At
    <3>2. Waiting(t) = {x[1] : x \in my[t].todo}
      BY <1>1 DEF Waiting, At
    <3>3. Waiting(t)' = {x[1] : x \in todo} \cup (IF label = "return" THEN {e[1]} ELSE {})
      BY <1>7, <1>8 DEF Waiting, At
    <3>4. IF j \in Waiting(t)' THEN AsListed(Visible(t), j) ELSE Back(Visible(t), j, line[j])
      <4>1. CASE j # e[1]
        <5>1. j \in Waiting(t) <=> j \in Waiting(t)'
          BY <1>4, <3>2, <3>3, <4>1
        <5>. QED  BY <3>1, <5>1
      <4>2. CASE j = e[1]
        <5>1. AsListed(Visible(t), j)
          BY <3>1, <3>2, <4>2
        <5>2. j \in Waiting(t)' <=> label = "return"
          BY <1>13, <3>3, <4>2
        <5>3. CASE label = "return"
          BY <5>1, <5>2, <5>3
        <5>4. CASE label # "return"
          <6>1. Out(Visible(t), j, line[j])
            BY <1>12, <4>2, <5>1 DEF AsListed
          <6>2. Has(Visible(t), j, "RETURN", 0)
            BY <1>5, <4>2, <5>4, <6>1 DEF MustReturn, Recorded, Has, Out
          <6>. QED  BY <5>2, <5>4, <6>1, <6>2, LineWasReturned
        <5>. QED  BY <5>3, <5>4
      <4>. QED  BY <4>1, <4>2
    <3>5. ReturnSees(t, j)'
      BY <1>7, <1>8, <1>9, <1>11, <3>4 DEF ReturnSees, NotYet, At
    <3>. QED  BY <1>2, <1>7, <1>11, <2>2, <3>5 DEF Sees, Returning
  <2>. QED  BY <2>1, <2>2
<1>15. Returns(t)'
  <2>1. \A x \in todo \cup {e} : Listed(t, x)'
    BY <1>4, <1>9, <1>11, <1>12 DEF Listed
  <2>. QED  BY <1>5, <1>7, <1>8, <1>11, <1>13, <2>1 DEF Returns, At
<1>16. Revisions(t)'
  BY <1>1, <1>2, <1>5, <1>7, <1>8, <1>9 DEF Revisions, At
<1>17. Knows(t)'
  BY <1>2, <1>7, <1>9, <1>10, <1>14, <1>15, <1>16 DEF Knows
<1>. QED  BY <1>1, <1>2, <1>5, <1>7, <1>8, <1>17, SerialGoesOn DEF UnderWay

\* A request records one movement of line i.
LEMMA OneMore ==
    ASSUME IInv, TypeInv, Serial, NEW t \in Tx, pc[t] \in Steps \cap Middle,
           NEW label \in Steps \cap Middle, Go(t, label), NEW i \in Lines, NEW ref \in References,
           NEW n \in Nat, NEW q \in Values, InsertMovement(t, i, ref, n, q),
           i = t \/ line[i] # Absent
    PROVE  /\ my' = [my EXCEPT ![t] = my'[t]] /\ pc'[t] = label /\ UNCHANGED << sale, line, moves >>
           /\ \A x \in Fields \ {"moves"} : my'[t][x] = my[t][x]
           /\ Writes(t)' /\ Touched(t)' = Touched(t)
           /\ Movement(i, ref, n, q, t) \in Movements
           /\ Visible(t)' = Visible(t) \cup {Movement(i, ref, n, q, t)}
           /\ \A j \in Lines \ {i} :
                /\ AsListed(Visible(t), j) => AsListed(Visible(t), j)'
                /\ \A c : Back(Visible(t), j, c) => Back(Visible(t), j, c)'
<1>1. PICK m : m = Movement(i, ref, n, q, t)
  OBVIOUS
<1>2. PICK M : M = my[t].moves \cup {m}
  OBVIOUS
<1>3. /\ my' = [my EXCEPT ![t] = my'[t]] /\ my'[t].moves = M
      /\ \A x \in Fields \ {"moves"} : my'[t][x] = my[t][x]
  BY <1>1, <1>2, OneField DEF InsertMovement, Fields
<1>4. m \in Movements /\ m.line = i
  BY <1>1, MovementIsTyped, MovementFields
<1>5. pc'[t] = label /\ UNCHANGED << sale, line, moves >>
  BY DEF InsertMovement, Pending, Go, IInv, Shape
<1>6. my'[t].kind = my[t].kind /\ my'[t].line = my[t].line /\ my'[t].quantity = my[t].quantity /\ SameWrites(t)
  BY <1>3 DEF Fields, SameWrites
<1>7. Writes(t)'
  <2>1. Writes(t)
    BY KnowsFacts
  <2>2. \A x \in my[t].moves : x.line = t \/ line[x.line] # Absent
    BY <2>1 DEF Writes
  <2>3. CASE line[i] # Absent
    <3>1. \A x \in my'[t].moves : x \in my[t].moves \/ line[x.line] # Absent
      BY <1>2, <1>3, <1>4, <2>3
    <3>. QED  BY <1>5, <1>6, <2>1, <3>1, WritesInTheMiddle
  <2>4. CASE i = t
    BY <1>2, <1>3, <1>4, <1>5, <1>6, <2>1, <2>4 DEF Writes, Middle, SameWrites, Late, At
  <2>. QED  BY <2>3, <2>4
<1>8. Touched(t)' = Touched(t)
  BY <1>5, <1>6, TouchedStays
<1>9. Visible(t)' = Visible(t) \cup {m}
  BY <1>2, <1>3, <1>5 DEF Visible
<1>10. Visible(t) \subseteq Movements /\ IsFiniteSet(Visible(t))
  BY KnowsFacts
<1>11. ASSUME NEW j \in Lines \ {i}
       PROVE  /\ AsListed(Visible(t), j) => AsListed(Visible(t), j)'
              /\ \A c : Back(Visible(t), j, c) => Back(Visible(t), j, c)'
  <2>. DEFINE S == Visible(t)
  <2>1. /\ AsListed(S, j) => AsListed(S \cup {m}, j)
        /\ \A c : Back(S, j, c) => Back(S \cup {m}, j, c)
    BY <1>4, <1>10, OtherLine
  <2>2. AsListed(S \cup {m}, j) => AsListed(Visible(t), j)'
    BY <1>5, <1>9 DEF AsListed
  <2>. QED  BY <1>9, <2>1, <2>2
<1>. QED  BY <1>1, <1>3, <1>4, <1>5, <1>7, <1>8, <1>9, <1>11

LEMMA ReturnKeepsSerial ==
    ASSUME IInv, TypeInv, Serial, NEW t \in Tx, InsertReturn(t)
    PROVE  Serial'
<1>. USE ValueFacts
<1>1. pc[t] = "return" /\ Pending /\ pc[t] \in Steps \cap Middle /\ Go(t, "refs")
      /\ "refs" \in Steps \cap Middle
  BY DEF InsertReturn, InsertMovement, At, Steps, Middle
<1>2. /\ Knows(t) /\ Writes(t) /\ (\A i \in Lines : Sees(t, i)) /\ UnderWay(t) /\ Returns(t)
      /\ Revisions(t) /\ my[t].kind \in Returning /\ DraftTypes(t)
      /\ Visible(t) \subseteq Movements /\ IsFiniteSet(Visible(t))
  BY <1>1, KnowsFacts, StepFacts DEF AskedBy, PartOf, Returning
<1>3. PICK i, q : i = my[t].at[1] /\ q = my[t].at[2]
  OBVIOUS
<1>4. i \in Lines /\ q \in Values
  BY <1>1, <1>2, <1>3 DEF DraftTypes, At
<1>5. i \in Touched(t) /\ q = line[i] /\ line[i] # Absent /\ MustReturn(t, i)
  BY <1>1, <1>2, <1>3 DEF Returns, Listed, At
<1>6. InsertMovement(t, i, "RETURN", 0, q)
  BY <1>3 DEF InsertReturn
<1>7. PICK m : m = Movement(i, "RETURN", 0, q, t)
  OBVIOUS
<1>8. /\ my' = [my EXCEPT ![t] = my'[t]] /\ pc'[t] = "refs" /\ UNCHANGED << sale, line, moves >>
      /\ \A x \in Fields \ {"moves"} : my'[t][x] = my[t][x]
      /\ Writes(t)' /\ Touched(t)' = Touched(t) /\ m \in Movements
      /\ Visible(t)' = Visible(t) \cup {m}
      /\ \A j \in Lines \ {i} :
           /\ AsListed(Visible(t), j) => AsListed(Visible(t), j)'
           /\ \A c : Back(Visible(t), j, c) => Back(Visible(t), j, c)'
  BY <1>1, <1>4, <1>5, <1>6, <1>7, OneMore DEF References
<1>9. m.line = i /\ m.ref = "RETURN" /\ m.revision = 0 /\ m.quantity = q
  BY <1>7 DEF Movement
<1>10. /\ my'[t].kind = my[t].kind /\ my'[t].line = my[t].line /\ my'[t].todo = my[t].todo
       /\ my'[t].seen = my[t].seen
  BY <1>8 DEF Fields
<1>11. Waiting(t)' = {e[1] : e \in my[t].todo} /\ Waiting(t) = {e[1] : e \in my[t].todo} \cup {i}
  BY <1>1, <1>3, <1>8, <1>10 DEF Waiting, At
<1>12. i \notin Waiting(t)'
  BY <1>1, <1>2, <1>3, <1>11 DEF Returns, At
<1>13. Back(Visible(t), i, q)'
  <2>1. AsListed(Visible(t), i)
    BY <1>1, <1>2, <1>4, <1>5, <1>11 DEF Sees, ReturnSees, NotYet, At
  <2>2. Out(Visible(t), i, q)
    BY <1>5, <2>1 DEF AsListed
  <2>3. ~Has(Visible(t), i, "RETURN", 0)
    BY <1>5 DEF MustReturn, Recorded, Has
  <2>4. Back(Visible(t) \cup {m}, i, m.quantity)
    BY <1>2, <1>8, <1>9, <2>2, <2>3, LineIsReturned
  <2>. QED  BY <1>8, <1>9, <2>4
<1>14. ASSUME NEW j \in Lines PROVE Sees(t, j)'
  <2>1. CASE j \notin Touched(t)
    BY <1>2, <1>5, <1>8, <1>10, <2>1 DEF Sees, Returning
  <2>2. CASE j \in Touched(t)
    <3>1. IF j \in Waiting(t) THEN AsListed(Visible(t), j) ELSE Back(Visible(t), j, line[j])
      BY <1>1, <1>2, <2>2 DEF Sees, ReturnSees, NotYet, At
    <3>2. (IF j \in Waiting(t) THEN AsListed(Visible(t), j) ELSE Back(Visible(t), j, line[j]))'
      <4>1. CASE j = i
        BY <1>5, <1>8, <1>12, <1>13, <4>1
      <4>2. CASE j # i
        <5>1. j \in Waiting(t)' <=> j \in Waiting(t)
          BY <1>11, <4>2
        <5>. QED  BY <1>8, <3>1, <4>2, <5>1
      <4>. QED  BY <4>1, <4>2
    <3>3. ReturnSees(t, j)'
      BY <1>8, <3>2 DEF ReturnSees, NotYet, At
    <3>. QED  BY <1>2, <1>8, <1>10, <2>2, <3>3 DEF Sees, Returning
  <2>. QED  BY <2>1, <2>2
<1>15. Returns(t)'
  <2>1. \A x \in my[t].todo : Listed(t, x)'
    BY <1>1, <1>2, <1>8 DEF Returns, Listed
  <2>. QED  BY <1>8, <1>10, <2>1 DEF Returns, At
<1>16. Revisions(t)'
  BY <1>1, <1>2, <1>8, <1>10 DEF Revisions, At
<1>17. Knows(t)'
  BY <1>2, <1>8, <1>10, <1>14, <1>15, <1>16 DEF Knows
<1>. QED  BY <1>1, <1>2, <1>8, <1>17, SerialGoesOn DEF UnderWay
LEMMA FinishKeepsSerial ==
    ASSUME IInv, TypeInv, Serial, NEW t \in Tx, FinishReturns(t)
    PROVE  Serial'
<1>1. pc[t] = "refs" /\ my[t].todo = {} /\ Pending /\ UNCHANGED my /\ pc[t] \in Steps
  BY DEF FinishReturns, At, Steps
<1>2. /\ Knows(t) /\ Writes(t) /\ (\A i \in Lines : Sees(t, i)) /\ UnderWay(t)
      /\ Revisions(t) /\ my[t].kind \in Returning
  BY <1>1, KnowsFacts, StepFacts DEF AskedBy, PartOf, Returning
<1>3. PICK label \in {"line", "revision", "commit", "header"} :
          /\ Go(t, label) /\ (label = "line" <=> my[t].kind = "remove")
          /\ (label = "revision" <=> my[t].kind = "update") /\ (label = "commit" <=> my[t].kind = "cancel")
          /\ (label = "header" <=> my[t].kind = "cancelOs")
  <2>1. Go(t, AfterReturns(my[t].kind))
    BY DEF FinishReturns
  <2>. QED  BY <1>2, <2>1 DEF AfterReturns, Returning
<1>4. /\ my' = [my EXCEPT ![t] = my'[t]] /\ my'[t] = my[t]
      /\ UNCHANGED << sale, line, moves >> /\ pc'[t] = label
  BY <1>1, <1>3 DEF IInv, Shape, Pending, Go
<1>5. /\ Visible(t)' = Visible(t) /\ Touched(t)' = Touched(t)
      /\ \A j : AsListed(Visible(t), j)' <=> AsListed(Visible(t), j)
      /\ LinesSeen(t)' = LinesSeen(t)
  BY <1>4, SameSight DEF LinesSeen
<1>6. Writes(t)'
  BY <1>1, <1>2, <1>3, <1>4, <1>5 DEF Writes, Late, At, Returning
<1>7. ASSUME NEW j \in Lines PROVE Sees(t, j)'
  <2>1. CASE j \notin Touched(t)
    BY <1>2, <1>4, <1>5, <2>1 DEF Sees, Returning
  <2>2. CASE j \in Touched(t)
    <3>1. j \notin Waiting(t)
      BY <1>1 DEF Waiting, At
    <3>2. Back(Visible(t), j, line[j])
      BY <1>1, <1>2, <2>2, <3>1 DEF Sees, ReturnSees, NotYet, At
    <3>3. Gone(Visible(t), j)
      BY <3>2, ReturnedIsGone
    <3>4. ReturnSees(t, j)'
      BY <1>2, <1>3, <1>4, <1>5, <3>2, <3>3 DEF ReturnSees, NotYet, At, Returning
    <3>. QED  BY <1>2, <1>4, <1>5, <2>2, <3>4 DEF Sees, Returning
  <2>. QED  BY <2>1, <2>2
<1>8. Returns(t)'
  BY <1>3, <1>4 DEF Returns, At
<1>9. Revisions(t)'
  BY <1>1, <1>2, <1>3, <1>4 DEF Revisions, At
<1>10. Knows(t)'
  BY <1>2, <1>4, <1>6, <1>7, <1>8, <1>9 DEF Knows
<1>. QED  BY <1>1, <1>2, <1>3, <1>4, <1>10, SerialGoesOn DEF UnderWay, Steps

\* What an update knows of its line after the return of the first exit.
LEMMA UpdateFacts ==
    ASSUME IInv, TypeInv, Serial, NEW t \in Tx,
           pc[t] \in {"revision", "revision-ref", "revision-return", "revise"}
                \/ (pc[t] = "available" /\ my[t].kind = "update")
    PROVE  /\ my[t].kind = "update" /\ my[t].line \in Lines /\ line[my[t].line] # Absent
           /\ Touched(t) = {my[t].line} /\ Knows(t) /\ Writes(t) /\ Revisions(t) /\ UnderWay(t)
           /\ \A i \in Lines : Sees(t, i)
           /\ DraftTypes(t) /\ Visible(t) \subseteq Movements /\ IsFiniteSet(Visible(t))
           /\ pc[t] \in Steps \cap Middle
           /\ pc[t] \in {"revision", "revision-ref", "revision-return"} =>
                Back(Visible(t), my[t].line, line[my[t].line])
           /\ pc[t] \in {"available", "revise"} => Emptied(Visible(t), my[t].line, my[t].last)
<1>1. pc[t] \in Steps \cap Middle
  BY DEF Steps, Middle
<1>2. /\ my[t].kind = "update" /\ my[t].line \in Lines /\ Knows(t) /\ Writes(t) /\ Revisions(t)
      /\ UnderWay(t) /\ \A i \in Lines : Sees(t, i)
  BY <1>1, KnowsFacts, StepFacts DEF AskedBy, PartOf
<1>3. DraftTypes(t) /\ Visible(t) \subseteq Movements /\ IsFiniteSet(Visible(t))
  BY <1>1, KnowsFacts
<1>4. Touched(t) = {my[t].line} /\ line[my[t].line] # Absent
  BY <1>2, TouchedLine DEF Knows
<1>5. ReturnSees(t, my[t].line)
  BY <1>2, <1>4 DEF Sees, Returning
<1>6. /\ pc[t] \in {"revision", "revision-ref", "revision-return"} =>
           Back(Visible(t), my[t].line, line[my[t].line])
      /\ pc[t] \in {"available", "revise"} => Emptied(Visible(t), my[t].line, my[t].last)
  BY <1>2, <1>5 DEF ReturnSees, NotYet, At
<1>. QED  BY <1>1, <1>2, <1>3, <1>4, <1>6

\* The same, the other way round, for a statement that records nothing.
LEMMA UpdateGoesOn ==
    ASSUME IInv, TypeInv, Serial, NEW t \in Tx, my[t].kind = "update", Touched(t) = {my[t].line},
           pc[t] \in Steps \cap Middle, NEW label \in Steps \cap Middle,
           Go(t, label), Pending,
           label \in {"revision-ref", "revision-return", "available", "revise"},
           my' = [my EXCEPT ![t] = my'[t]], \A x \in Fields \ {"last"} : my'[t][x] = my[t][x],
           label \in {"revision-ref", "revision-return"} =>
               /\ Back(Visible(t), my[t].line, line[my[t].line])
               /\ my'[t].last = LastRevision(t) /\ my[t].seen = line[my[t].line],
           label = "revision-return" =>
               my'[t].last > 0 /\ ~Recorded(t, my[t].line, "REV-RETURN", my'[t].last),
           label \in {"available", "revise"} => Emptied(Visible(t), my[t].line, my'[t].last)
    PROVE  Serial'
<1>1. Knows(t) /\ Writes(t) /\ (\A i \in Lines : Sees(t, i)) /\ pc[t] # "done"
  BY KnowsFacts
<1>2. /\ my'[t].kind = my[t].kind /\ my'[t].line = my[t].line /\ my'[t].quantity = my[t].quantity
      /\ my'[t].moves = my[t].moves /\ my'[t].seen = my[t].seen /\ SameWrites(t)
  BY DEF Fields, SameWrites
<1>3. pc'[t] = label /\ UNCHANGED << sale, line, moves >>
  BY DEF Go, IInv, Shape, Pending
<1>4. Writes(t)'
  BY <1>1, <1>2, <1>3, WritesInTheMiddle
<1>5. /\ Visible(t)' = Visible(t) /\ Touched(t)' = Touched(t) /\ LastRevision(t)' = LastRevision(t)
      /\ \A j : AsListed(Visible(t), j)' <=> AsListed(Visible(t), j)
      /\ \A i, ref, n : Recorded(t, i, ref, n)' <=> Recorded(t, i, ref, n)
  BY <1>2, <1>3, SameSight
<1>6. ASSUME NEW j \in Lines PROVE Sees(t, j)'
  <2>1. CASE j # my[t].line
    BY <1>1, <1>2, <1>5, <2>1 DEF Sees
  <2>2. CASE j = my[t].line
    <3>1. ReturnSees(t, j)'
      BY <1>2, <1>3, <1>5, <2>2 DEF ReturnSees, NotYet, At
    <3>. QED  BY <1>2, <1>5, <2>2, <3>1 DEF Sees
  <2>. QED  BY <2>1, <2>2
<1>7. Returns(t)'
  BY <1>3 DEF Returns, At
<1>8. Revisions(t)'
  BY <1>2, <1>3, <1>5 DEF Revisions, At
<1>9. Knows(t)'
  BY <1>1, <1>2, <1>3, <1>4, <1>6, <1>7, <1>8 DEF Knows
<1>. QED  BY <1>1, <1>9, SerialGoesOn

LEMMA LastRevisionIsLast ==
    ASSUME NEW t, Visible(t) \subseteq Movements, IsFiniteSet(Visible(t))
    PROVE  LastOf(Visible(t), my[t].line, LastRevision(t))
  BY LastRevisionFacts DEF LastOf, Recorded, Has

LEMMA RevisionKeepsSerial ==
    ASSUME IInv, TypeInv, Serial, NEW t \in Tx, ReadRevision(t) \/ LookUpRevision(t)
    PROVE  Serial'
<1>1. CASE ReadRevision(t)
  <2>1. pc[t] = "revision" /\ Go(t, "revision-ref") /\ Pending
    BY <1>1 DEF ReadRevision, At
  <2>2. /\ my' = [my EXCEPT ![t] = my'[t]] /\ my'[t].last = LastRevision(t)
        /\ \A x \in Fields \ {"last"} : my'[t][x] = my[t][x]
    BY <1>1, OneField DEF ReadRevision, Fields
  <2>3. my[t].seen = line[my[t].line]
    BY <2>1, UpdateFacts DEF Revisions
  <2>4. /\ my[t].kind = "update" /\ Touched(t) = {my[t].line} /\ pc[t] \in Steps \cap Middle
        /\ Back(Visible(t), my[t].line, line[my[t].line])
    BY <2>1, UpdateFacts
  <2>5. "revision-ref" \in Steps \cap Middle
    BY DEF Steps, Middle
  <2>. QED  BY <2>1, <2>2, <2>3, <2>4, <2>5, UpdateGoesOn
<1>2. CASE LookUpRevision(t)
  <2>. DEFINE S == Visible(t)
              n == my[t].last
  <2>1. pc[t] = "revision-ref" /\ Pending /\ UNCHANGED my
    BY <1>2 DEF LookUpRevision, At
  <2>2. PICK label \in {"revision-return", "available"} :
            /\ Go(t, label)
            /\ label = "revision-return" <=> (n > 0 /\ ~Recorded(t, my[t].line, "REV-RETURN", n))
    BY <1>2 DEF LookUpRevision
  <2>3. /\ my[t].seen = line[my[t].line] /\ n = LastRevision(t)
    BY <2>1, UpdateFacts DEF Revisions
  <2>4. /\ my[t].kind = "update" /\ Touched(t) = {my[t].line} /\ pc[t] \in Steps \cap Middle
        /\ Back(S, my[t].line, line[my[t].line]) /\ S \subseteq Movements /\ IsFiniteSet(S)
    BY <2>1, UpdateFacts
  <2>5. LastOf(S, my[t].line, n)
    BY <2>3, <2>4, LastRevisionIsLast
  <2>6. label = "available" => Emptied(S, my[t].line, n)
    <3> SUFFICES ASSUME label = "available" PROVE Emptied(S, my[t].line, n)
      OBVIOUS
    <3>1. n = 0 \/ Has(S, my[t].line, "REV-RETURN", n)
      BY <2>2, <2>5 DEF LastOf, Recorded, Has
    <3>. HIDE DEF S, n
    <3>. QED  BY <2>4, <2>5, <3>1, RevisionWasReturned
  <2>7. my' = [my EXCEPT ![t] = my'[t]] /\ my'[t] = my[t]
    BY <2>1 DEF IInv, Shape
  <2>8. label \in Steps \cap Middle
    BY DEF Steps, Middle
  <2>. QED  BY <2>1, <2>2, <2>3, <2>4, <2>6, <2>7, <2>8, UpdateGoesOn
<1>. QED  BY <1>1, <1>2

LEMMA AvailableKeepsSerial ==
    ASSUME IInv, TypeInv, Serial, NEW t \in Tx, LockAvailable(t)
    PROVE  Serial'
<1>1. pc[t] = "available" /\ Pending /\ UNCHANGED my /\ pc[t] \in Steps \cap Middle
  BY DEF LockAvailable, At, Steps, Middle
<1>2. my[t].kind \in {"add", "update"} /\ UnderWay(t)
  BY <1>1, StepFacts DEF AskedBy, PartOf
<1>3. my' = [my EXCEPT ![t] = my'[t]] /\ my'[t] = my[t]
  BY <1>1 DEF IInv, Shape
<1>4. CASE my[t].kind = "update"
  <2>1. Go(t, "revise") /\ "revise" \in Steps \cap Middle
    BY <1>4 DEF LockAvailable, Steps, Middle
  <2>2. Touched(t) = {my[t].line} /\ Emptied(Visible(t), my[t].line, my[t].last)
    BY <1>1, <1>4, UpdateFacts
  <2>. QED  BY <1>1, <1>3, <1>4, <2>1, <2>2, UpdateGoesOn
<1>5. CASE my[t].kind = "add"
  <2>1. Go(t, "launch") /\ "launch" \in Steps \cap Middle
    BY <1>5 DEF LockAvailable, Steps, Middle
  <2>2. pc'[t] = "launch" /\ UNCHANGED << sale, line, moves >>
    BY <1>1, <2>1 DEF Go, IInv, Shape, Pending
  <2>3. Knows(t) /\ Writes(t) /\ (\A i \in Lines : Sees(t, i)) /\ pc[t] # "done"
    BY <1>1, KnowsFacts
  <2>4. Writes(t)'
    BY <1>1, <1>3, <2>1, <2>2, <2>3, WritesInTheMiddle DEF SameWrites
  <2>5. /\ Visible(t)' = Visible(t) /\ Touched(t)' = Touched(t)
        /\ \A j : AsListed(Visible(t), j)' <=> AsListed(Visible(t), j)
    BY <1>3, <2>2, SameSight
  <2>6. \A j \in Lines : Sees(t, j)'
    BY <1>1, <1>3, <1>5, <2>2, <2>3, <2>5 DEF Sees, AddSees, Returning
  <2>7. Returns(t)' /\ Revisions(t)'
    BY <1>3, <1>5, <2>2 DEF Returns, Revisions, At
  <2>8. Knows(t)'
    BY <1>3, <2>2, <2>3, <2>4, <2>6, <2>7 DEF Knows
  <2>. QED  BY <1>1, <1>3, <2>1, <2>3, <2>8, SerialGoesOn
<1>. QED  BY <1>2, <1>4, <1>5

\* A revision of the line is returned, or recorded.
LEMMA RevisingKeepsSerial ==
    ASSUME IInv, TypeInv, Serial, NEW t \in Tx, InsertRevisionReturn(t) \/ Revise(t)
    PROVE  Serial'
<1>. USE ValueFacts
<1>1. CASE InsertRevisionReturn(t)
  <2>1. pc[t] = "revision-return" /\ Go(t, "available") /\ "available" \in Steps \cap Middle
    BY <1>1 DEF InsertRevisionReturn, At, Steps, Middle
  <2>2. PICK i, q, n : i = my[t].line /\ q = my[t].seen /\ n = my[t].last
    OBVIOUS
  <2>3. /\ my[t].kind = "update" /\ i \in Lines /\ line[i] # Absent
        /\ Touched(t) = {i} /\ Knows(t) /\ Revisions(t) /\ UnderWay(t)
        /\ (\A j \in Lines : Sees(t, j)) /\ DraftTypes(t)
        /\ Visible(t) \subseteq Movements /\ IsFiniteSet(Visible(t))
        /\ pc[t] \in Steps \cap Middle /\ Back(Visible(t), i, line[i])
    BY <2>1, <2>2, UpdateFacts
  <2>4. /\ n > 0 /\ ~Recorded(t, i, "REV-RETURN", n) /\ q = line[i] /\ n = LastRevision(t)
    BY <2>1, <2>2, <2>3 DEF Revisions, At
  <2>5. n \in Nat /\ q \in Values
    BY <2>1, <2>2, <2>3 DEF DraftTypes
  <2>6. PICK m : m = Movement(i, "REV-RETURN", n, q, t)
    OBVIOUS
  <2>7. /\ my' = [my EXCEPT ![t] = my'[t]] /\ pc'[t] = "available" /\ UNCHANGED << sale, line, moves >>
        /\ \A x \in Fields \ {"moves"} : my'[t][x] = my[t][x]
        /\ Writes(t)' /\ Touched(t)' = Touched(t) /\ m \in Movements
        /\ Visible(t)' = Visible(t) \cup {m}
        /\ \A j \in Lines \ {i} : AsListed(Visible(t), j) => AsListed(Visible(t), j)'
    <3>1. InsertMovement(t, i, "REV-RETURN", n, q)
      BY <1>1, <2>2 DEF InsertRevisionReturn
    <3>2. "REV-RETURN" \in References
      BY DEF References
    <3>. QED  BY <2>1, <2>3, <2>5, <2>6, <3>1, <3>2, OneMore
  <2>8. m.line = i /\ m.ref = "REV-RETURN" /\ m.revision = n /\ m.quantity = q
    BY <2>6 DEF Movement
  <2>9. my'[t].kind = "update" /\ my'[t].line = i /\ my'[t].last = n
    BY <2>2, <2>3, <2>7 DEF Fields
  <2>10. LastOf(Visible(t), i, n)
    BY <2>2, <2>3, <2>4, LastRevisionIsLast
  <2>11. Emptied(Visible(t), i, n)'
    <3>1. ~Has(Visible(t), i, "REV-RETURN", n)
      BY <2>4 DEF Recorded, Has
    <3>2. Emptied(Visible(t) \cup {m}, i, m.revision)
      BY <2>3, <2>4, <2>7, <2>8, <2>10, <3>1, RevisionIsReturned
    <3>. QED  BY <2>7, <2>8, <3>2
  <2>12. ASSUME NEW j \in Lines PROVE Sees(t, j)'
    <3>1. CASE j # i
      BY <2>3, <2>7, <2>9, <3>1 DEF Sees
    <3>2. CASE j = i
      <4>1. ReturnSees(t, j)'
        BY <2>7, <2>9, <2>11, <3>2 DEF ReturnSees, NotYet, At
      <4>. QED  BY <2>3, <2>7, <2>9, <3>2, <4>1 DEF Sees
    <3>. QED  BY <3>1, <3>2
  <2>13. Returns(t)' /\ Revisions(t)'
    BY <2>7 DEF Returns, Revisions, At
  <2>14. Knows(t)'
    BY <2>3, <2>7, <2>9, <2>12, <2>13 DEF Knows
  <2>15. Pending /\ pc[t] # "done"
    BY <1>1, <2>1 DEF InsertRevisionReturn, InsertMovement
  <2>. QED  BY <2>1, <2>7, <2>14, <2>15, SerialGoesOn
<1>2. CASE Revise(t)
  <2>1. pc[t] = "revise" /\ Go(t, "line") /\ "line" \in Steps \cap Middle
    BY <1>2 DEF Revise, At, Steps, Middle
  <2>2. PICK i, q, n : i = my[t].line /\ q = my[t].quantity /\ n = my[t].last
    OBVIOUS
  <2>3. /\ my[t].kind = "update" /\ i \in Lines /\ line[i] # Absent
        /\ Touched(t) = {i} /\ Knows(t) /\ UnderWay(t)
        /\ (\A j \in Lines : Sees(t, j)) /\ DraftTypes(t)
        /\ Visible(t) \subseteq Movements /\ IsFiniteSet(Visible(t))
        /\ pc[t] \in Steps \cap Middle /\ Emptied(Visible(t), i, n)
    BY <2>1, <2>2, UpdateFacts
  <2>4. n \in Nat /\ n + 1 \in Nat /\ q \in Values
    BY <2>2, <2>3 DEF DraftTypes
  <2>5. PICK m : m = Movement(i, "REV-OUT", n + 1, q, t)
    OBVIOUS
  <2>6. /\ my' = [my EXCEPT ![t] = my'[t]] /\ pc'[t] = "line" /\ UNCHANGED << sale, line, moves >>
        /\ \A x \in Fields \ {"moves"} : my'[t][x] = my[t][x]
        /\ Writes(t)' /\ Touched(t)' = Touched(t) /\ m \in Movements
        /\ Visible(t)' = Visible(t) \cup {m}
        /\ \A j \in Lines \ {i} : AsListed(Visible(t), j) => AsListed(Visible(t), j)'
    <3>1. InsertMovement(t, i, "REV-OUT", n + 1, q)
      BY <1>2, <2>2 DEF Revise
    <3>2. "REV-OUT" \in References
      BY DEF References
    <3>. QED  BY <2>1, <2>3, <2>4, <2>5, <3>1, <3>2, OneMore
  <2>7. m.line = i /\ m.ref = "REV-OUT" /\ m.revision = n + 1 /\ m.quantity = q
    BY <2>5 DEF Movement
  <2>8. my'[t].kind = "update" /\ my'[t].line = i /\ my'[t].quantity = q
    BY <2>2, <2>3, <2>6 DEF Fields
  <2>9. Out(Visible(t), i, q)'
    <3>1. Out(Visible(t) \cup {m}, i, m.quantity)
      BY <2>3, <2>4, <2>6, <2>7, LineIsRevised
    <3>. QED  BY <2>6, <2>7, <3>1
  <2>10. ASSUME NEW j \in Lines PROVE Sees(t, j)'
    <3>1. CASE j # i
      BY <2>3, <2>6, <2>8, <3>1 DEF Sees
    <3>2. CASE j = i
      <4>1. ReturnSees(t, j)'
        BY <2>6, <2>8, <2>9, <3>2 DEF ReturnSees, NotYet, At
      <4>. QED  BY <2>3, <2>6, <2>8, <3>2, <4>1 DEF Sees
    <3>. QED  BY <3>1, <3>2
  <2>11. Returns(t)' /\ Revisions(t)'
    BY <2>6 DEF Returns, Revisions, At
  <2>12. Knows(t)'
    BY <2>3, <2>6, <2>8, <2>10, <2>11 DEF Knows
  <2>13. Pending /\ pc[t] # "done"
    BY <1>2, <2>1 DEF Revise, InsertMovement
  <2>. QED  BY <2>1, <2>6, <2>12, <2>13, SerialGoesOn
<1>. QED  BY <1>1, <1>2

\* The next revision is never there already.
LEMMA RevisionIsFree ==
    ASSUME IInv, TypeInv, Serial, NEW t \in Tx
    PROVE  ~ReviseAlreadyDone(t)
<1> SUFFICES ASSUME ReviseAlreadyDone(t) PROVE FALSE
  OBVIOUS
<1>1. pc[t] = "revise"
  BY DEF ReviseAlreadyDone, At
<1>2. Emptied(Visible(t), my[t].line, my[t].last) /\ my[t].last \in Nat
  BY <1>1, UpdateFacts DEF DraftTypes
<1>3. PICK m \in Visible(t) : m.line = my[t].line /\ m.ref = "REV-OUT" /\ m.revision = my[t].last + 1
  BY DEF ReviseAlreadyDone, RevisionTaken, Recorded
<1>4. m.revision <= my[t].last
  BY <1>2, <1>3 DEF Emptied
<1>. QED  BY <1>2, <1>3, <1>4
LEMMA LaunchKeepsSerial ==
    ASSUME IInv, TypeInv, Serial, NEW t \in Tx, LaunchLine(t)
    PROVE  Serial'
<1>. USE ValueFacts
<1>1. pc[t] = "launch" /\ Pending /\ Go(t, "sum") /\ pc[t] \in Steps /\ "sum" \in Steps
  BY DEF LaunchLine, At, Steps
<1>2. /\ my[t].kind = "add" /\ my[t].line = t /\ Knows(t) /\ Writes(t) /\ UnderWay(t)
      /\ (\A j \in Lines : Sees(t, j)) /\ DraftTypes(t)
      /\ Visible(t) \subseteq Movements /\ IsFiniteSet(Visible(t)) /\ t \in Lines
  BY <1>1, KnowsFacts, StepFacts, Sorts DEF AskedBy, PartOf
<1>3. PICK q : q = my[t].quantity
  OBVIOUS
<1>4. q \in Values
  BY <1>2, <1>3 DEF DraftTypes
<1>5. PICK m : m = Movement(t, "OUT", 0, q, t)
  OBVIOUS
<1>6. m.line = t /\ m.ref = "OUT" /\ m.revision = 0 /\ m.quantity = q /\ m \in Movements
  <2>1. "OUT" \in References /\ 0 \in Nat
    BY DEF References
  <2>2. m \in Movements
    BY <1>2, <1>4, <1>5, <2>1, MovementIsTyped
  <2>. QED  BY <1>5, <2>2 DEF Movement
<1>7. PICK M : M = my[t].moves \cup {m}
  OBVIOUS
<1>8. my' = [my EXCEPT ![t] = [[my[t] EXCEPT !["newLine"] = q] EXCEPT !["moves"] = M]]
  BY <1>3, <1>5, <1>7 DEF LaunchLine, IInv, Shape, Fields
<1>9. /\ my' = [my EXCEPT ![t] = my'[t]] /\ my'[t].newLine = q /\ my'[t].moves = M
      /\ my'[t].kind = "add" /\ my'[t].line = t /\ my'[t].quantity = q
      /\ my'[t].newTotal = my[t].newTotal /\ my'[t].status = my[t].status
      /\ my'[t].total = my[t].total /\ my'[t].payments = my[t].payments
  <2>1. my'[t] = [x \in Fields |-> IF x = "moves" THEN M ELSE IF x = "newLine" THEN q ELSE my[t][x]]
    BY <1>8 DEF IInv, Shape, Fields
  <2>2. my' = [my EXCEPT ![t] = my'[t]]
    BY <1>8 DEF IInv, Shape
  <2>. QED  BY <1>2, <1>3, <2>1, <2>2 DEF Fields
<1>10. pc'[t] = "sum" /\ UNCHANGED << sale, line, moves >>
  BY <1>1 DEF Go, IInv, Shape, Pending
<1>11. Writes(t)'
  BY <1>1, <1>2, <1>6, <1>7, <1>9, <1>10 DEF Writes, Late, At
<1>12. Touched(t)' = Touched(t)
  BY <1>2, <1>9, <1>10, TouchedStays
<1>13. Touched(t) = {t}
  BY <1>2, TouchedLine
<1>14. Visible(t)' = Visible(t) \cup {m}
  BY <1>7, <1>9, <1>10 DEF Visible
<1>15. Out(Visible(t), t, q)'
  <2>1. \A x \in Visible(t) : x.line # t
    BY <1>1, <1>2 DEF Sees, AddSees
  <2>2. Out(Visible(t) \cup {m}, t, m.quantity)
    BY <1>2, <1>6, <2>1, LineIsLaunched
  <2>. QED  BY <1>6, <1>14, <2>2
<1>16. ASSUME NEW j \in Lines PROVE Sees(t, j)'
  <2>1. CASE j # t
    <3>. DEFINE S == Visible(t)
    <3>1. AsListed(S, j)
      BY <1>2, <1>13, <2>1 DEF Sees
    <3>2. AsListed(S \cup {m}, j)
      BY <1>2, <1>6, <2>1, <3>1, OtherLine
    <3>3. AsListed(Visible(t), j)'
      BY <1>10, <1>14, <3>2 DEF AsListed
    <3>. QED  BY <1>9, <1>10, <1>15, <3>3 DEF Sees, AddSees, Returning
  <2>2. CASE j = t
    BY <1>9, <1>10, <1>12, <1>13, <1>15, <2>2 DEF Sees, AddSees, Returning
  <2>. QED  BY <2>1, <2>2
<1>17. Returns(t)' /\ Revisions(t)'
  BY <1>9, <1>10 DEF Returns, Revisions, At
<1>18. Knows(t)'
  BY <1>2, <1>9, <1>10, <1>11, <1>16, <1>17 DEF Knows
<1>. QED  BY <1>1, <1>9, <1>18, SerialGoesOn

\* The line and the total are written: no movement, and only these columns.
LEMMA LateGoesOn ==
    ASSUME IInv, TypeInv, Serial, NEW t \in Tx, pc[t] \in {"line", "sum", "total"},
           NEW label \in {"sum", "total", "commit"}, Go(t, label), Pending,
           my' = [my EXCEPT ![t] = my'[t]],
           NEW f \in {"newLine", "total", "newTotal"},
           \A x \in Fields \ {f} : my'[t][x] = my[t][x], Writes(t)'
    PROVE  Serial'
<1>1. pc[t] \in Steps /\ label \in Steps /\ pc[t] # "done"
  BY DEF Steps
<1>2. Knows(t) /\ (\A i \in Lines : Sees(t, i))
  BY <1>1, KnowsFacts
<1>3. /\ my'[t].kind = my[t].kind /\ my'[t].line = my[t].line /\ my'[t].quantity = my[t].quantity
      /\ my'[t].moves = my[t].moves
  BY DEF Fields
<1>4. pc'[t] = label /\ UNCHANGED << sale, line, moves >>
  BY DEF Go, IInv, Shape, Pending
<1>5. /\ Visible(t)' = Visible(t) /\ Touched(t)' = Touched(t)
      /\ \A j : AsListed(Visible(t), j)' <=> AsListed(Visible(t), j)
  BY <1>3, <1>4, SameSight
<1>6. my[t].kind \in {"add", "update", "remove", "recalculate"}
  BY <1>1, StepFacts DEF AskedBy, PartOf
<1>7. ASSUME NEW j \in Lines PROVE Sees(t, j)'
  <2>1. j \notin Touched(t) => AsListed(Visible(t), j)'
    BY <1>2, <1>5 DEF Sees
  <2>2. my[t].kind = "add" => AddSees(t)'
    BY <1>2, <1>3, <1>4, <1>5, <1>7 DEF Sees, AddSees
  <2>3. my[t].kind \in Returning /\ j \in Touched(t) => ReturnSees(t, j)'
    BY <1>2, <1>3, <1>4, <1>5, <1>6, <1>7 DEF Sees, ReturnSees, NotYet, At, Returning
  <2>. QED  BY <1>3, <1>5, <2>1, <2>2, <2>3 DEF Sees
<1>8. Returns(t)' /\ Revisions(t)'
  BY <1>4, <1>6, <1>3 DEF Returns, Revisions, At
<1>9. Knows(t)'
  BY <1>2, <1>3, <1>4, <1>7, <1>8 DEF Knows
<1>. QED  BY <1>1, <1>9, SerialGoesOn

LEMMA WritingKeepsSerial ==
    ASSUME IInv, TypeInv, Serial, NEW t \in Tx, WriteLine(t) \/ SumLines(t) \/ WriteTotal(t)
    PROVE  Serial'
<1>0. Pending /\ UNCHANGED << sale, line >>
  BY DEF WriteLine, SumLines, WriteTotal, Pending
<1>1. CASE WriteLine(t)
  <2>1. pc[t] = "line" /\ Go(t, "sum") /\ pc[t] \in Steps
    BY <1>1 DEF WriteLine, At, Steps
  <2>2. Knows(t) /\ Writes(t) /\ my[t].kind \in {"update", "remove"} /\ line[my[t].line] # Absent
    BY <1>1, <2>1, KnowsFacts, StepFacts DEF AskedBy, PartOf, Knows
  <2>3. PICK q : q = IF my[t].kind = "remove" THEN Absent ELSE my[t].quantity
    OBVIOUS
  <2>4. Keep(t, "newLine", q)
    BY <1>1, <2>2, <2>3 DEF WriteLine
  <2>5. /\ my' = [my EXCEPT ![t] = my'[t]] /\ my'[t].newLine = q
        /\ \A x \in Fields \ {"newLine"} : my'[t][x] = my[t][x]
    BY <2>4, OneField DEF Fields
  <2>6. /\ my'[t].kind = my[t].kind /\ my'[t].quantity = my[t].quantity
        /\ my'[t].newTotal = my[t].newTotal /\ my'[t].status = my[t].status
        /\ my'[t].total = my[t].total /\ my'[t].payments = my[t].payments
        /\ my'[t].moves = my[t].moves
    BY <2>5 DEF Fields
  <2>7. pc'[t] = "sum"
    BY <2>1 DEF Go, IInv, Shape
  <2>8. Writes(t)'
    BY <1>0, <2>1, <2>2, <2>3, <2>5, <2>6, <2>7 DEF Writes, Late, At
  <2>. QED  BY <1>0, <2>1, <2>5, <2>8, LateGoesOn
<1>2. CASE SumLines(t)
  <2>1. pc[t] = "sum" /\ Go(t, "total") /\ pc[t] \in Steps
    BY <1>2 DEF SumLines, At, Steps
  <2>2. Knows(t) /\ Writes(t) /\ my[t].kind \in {"add", "update", "remove", "recalculate"}
    BY <2>1, KnowsFacts, StepFacts DEF AskedBy, PartOf
  <2>3. PICK n : n = TotalOf(LinesSeen(t))
    OBVIOUS
  <2>4. /\ my' = [my EXCEPT ![t] = my'[t]] /\ my'[t].total = n
        /\ \A x \in Fields \ {"total"} : my'[t][x] = my[t][x]
    BY <1>2, <2>3, OneField DEF SumLines, SummedLines, Fields
  <2>5. /\ my'[t].kind = my[t].kind /\ my'[t].quantity = my[t].quantity /\ my'[t].line = my[t].line
        /\ my'[t].newTotal = my[t].newTotal /\ my'[t].status = my[t].status
        /\ my'[t].newLine = my[t].newLine /\ my'[t].payments = my[t].payments
        /\ my'[t].moves = my[t].moves
    BY <2>4 DEF Fields
  <2>6. pc'[t] = "total"
    BY <2>1 DEF Go, IInv, Shape
  <2>7. LinesSeen(t)' = LinesSeen(t)
    BY <1>0, <2>5 DEF LinesSeen
  <2>8. Writes(t)'
    BY <1>0, <2>1, <2>2, <2>3, <2>4, <2>5, <2>6, <2>7 DEF Writes, Late, At
  <2>. QED  BY <1>0, <2>1, <2>4, <2>8, LateGoesOn
<1>3. CASE WriteTotal(t)
  <2>1. pc[t] = "total" /\ Go(t, "commit") /\ pc[t] \in Steps
    BY <1>3 DEF WriteTotal, At, Steps
  <2>2. Knows(t) /\ Writes(t) /\ my[t].kind \in {"add", "update", "remove", "recalculate"}
    BY <2>1, KnowsFacts, StepFacts DEF AskedBy, PartOf
  <2>3. /\ my' = [my EXCEPT ![t] = my'[t]] /\ my'[t].newTotal = my[t].total
        /\ \A x \in Fields \ {"newTotal"} : my'[t][x] = my[t][x]
    BY <1>3, OneField DEF WriteTotal, Fields
  <2>4. /\ my'[t].kind = my[t].kind /\ my'[t].quantity = my[t].quantity /\ my'[t].line = my[t].line
        /\ my'[t].total = my[t].total /\ my'[t].status = my[t].status
        /\ my'[t].newLine = my[t].newLine /\ my'[t].payments = my[t].payments
        /\ my'[t].moves = my[t].moves
    BY <2>3 DEF Fields
  <2>5. pc'[t] = "commit"
    BY <2>1 DEF Go, IInv, Shape
  <2>6. LinesSeen(t)' = LinesSeen(t)
    BY <1>0, <2>4 DEF LinesSeen
  <2>7. Writes(t)'
    BY <1>0, <2>1, <2>2, <2>3, <2>4, <2>5, <2>6 DEF Writes, Late, At
  <2>. QED  BY <1>0, <2>1, <2>3, <2>7, LateGoesOn
<1>. QED  BY <1>1, <1>2, <1>3

LEMMA HeaderKeepsSerial ==
    ASSUME IInv, TypeInv, Serial, NEW t \in Tx, WriteHeader(t)
    PROVE  Serial'
<1>1. pc[t] = "header" /\ Pending /\ pc[t] \in Steps
  BY DEF WriteHeader, At, Steps
<1>2. /\ Knows(t) /\ Writes(t) /\ (\A i \in Lines : Sees(t, i)) /\ UnderWay(t)
      /\ my[t].kind \in {"recalculate", "finalize", "cancel", "cancelOs"} /\ sale.status = "ABERTA"
  BY <1>1, KnowsFacts, StepFacts DEF AskedBy, PartOf, Knows
<1>3. PICK label \in {"sum", "commit", "lines"} :
          /\ Go(t, label)
          /\ (label = "sum" <=> my[t].kind = "recalculate") /\ (label = "commit" <=> my[t].kind = "cancelOs")
  <2>1. Go(t, AfterHeader(t))
    BY DEF WriteHeader
  <2>. QED  BY <1>2, <2>1 DEF AfterHeader
<1>4. PICK s : s = NewStatus(my[t].kind)
  OBVIOUS
<1>5. my' = [my EXCEPT ![t] = [[my[t] EXCEPT !["status"] = s] EXCEPT !["total"] = sale.total]]
  BY <1>4 DEF WriteHeader, IInv, Shape
<1>6. /\ my' = [my EXCEPT ![t] = my'[t]] /\ my'[t].status = s /\ my'[t].total = sale.total
      /\ my'[t].kind = my[t].kind /\ my'[t].line = my[t].line /\ my'[t].quantity = my[t].quantity
      /\ my'[t].moves = my[t].moves /\ my'[t].newLine = my[t].newLine
      /\ my'[t].newTotal = my[t].newTotal /\ my'[t].payments = my[t].payments
  <2>1. my'[t] = [x \in Fields |-> IF x = "total" THEN sale.total ELSE IF x = "status" THEN s ELSE my[t][x]]
    BY <1>5 DEF IInv, Shape, Fields
  <2>2. my' = [my EXCEPT ![t] = my'[t]]
    BY <1>5 DEF IInv, Shape
  <2>. QED  BY <2>1, <2>2 DEF Fields
<1>7. pc'[t] = label /\ UNCHANGED << sale, line, moves >>
  BY <1>1, <1>3 DEF IInv, Shape, Go, Pending
<1>8. my[t].kind = "recalculate" => s = Unwritten
  BY <1>4 DEF NewStatus
<1>9. Writes(t)'
  BY <1>1, <1>2, <1>3, <1>4, <1>6, <1>7, <1>8 DEF Writes, Late, At
<1>10. /\ Visible(t)' = Visible(t) /\ Touched(t)' = Touched(t)
       /\ \A j : AsListed(Visible(t), j)' <=> AsListed(Visible(t), j)
  BY <1>6, <1>7, SameSight
<1>11. ASSUME NEW j \in Lines PROVE Sees(t, j)'
  <2>1. CASE j \notin Touched(t)
    <3>1. my[t].kind \in Returning \/ my[t].kind \notin {"add", "update", "remove", "cancel", "cancelOs"}
      BY <1>2 DEF Returning
    <3>. QED  BY <1>2, <1>6, <1>10, <2>1 DEF Sees
  <2>2. CASE j \in Touched(t)
    <3>1. my[t].kind \in {"cancel", "cancelOs"}
      BY <1>2, <2>2, TouchedNone
    <3>2. ReturnSees(t, j)
      BY <1>2, <2>2, <3>1 DEF Sees, Returning
    <3>3. ReturnSees(t, j)'
      BY <1>1, <1>3, <1>6, <1>7, <1>10, <3>1, <3>2 DEF ReturnSees, NotYet, At
    <3>. QED  BY <1>6, <1>10, <2>2, <3>1, <3>3 DEF Sees
  <2>. QED  BY <2>1, <2>2
<1>12. Returns(t)' /\ Revisions(t)'
  BY <1>2, <1>6, <1>7 DEF Returns, Revisions, At
<1>13. Knows(t)'
  BY <1>2, <1>6, <1>7, <1>9, <1>11, <1>12 DEF Knows
<1>. QED  BY <1>1, <1>3, <1>6, <1>13, SerialGoesOn DEF Steps

\* No line is without its exit: the finalizing request records none.
LEMMA ExitsKeepSerial ==
    ASSUME IInv, TypeInv, Serial, NEW t \in Tx, InsertExits(t) \/ Pay(t)
    PROVE  Serial'
<1>1. /\ pc[t] \in {"exits", "pay"} /\ Pending /\ pc[t] \in Steps \cap Middle
  BY DEF InsertExits, Pay, At, Steps, Middle
<1>2. /\ Knows(t) /\ Writes(t) /\ (\A i \in Lines : Sees(t, i)) /\ UnderWay(t) /\ Returns(t)
      /\ my[t].kind = "finalize" /\ DraftTypes(t)
  BY <1>1, KnowsFacts, StepFacts DEF AskedBy, PartOf
<1>3. Touched(t) = {} /\ my[t].kind \notin Returning
  BY <1>2, TouchedNone DEF Returning
<1>4. UNCHANGED << sale, line, moves >>
  BY <1>1 DEF Pending
<1>5. PICK label \in {"pay", "commit"} : Go(t, label) /\ (InsertExits(t) => label = "pay" /\ pc[t] = "exits")
                                          /\ (Pay(t) => label = "commit" /\ pc[t] = "pay")
  BY DEF InsertExits, Pay, At
<1>6. pc'[t] = label /\ label \in Steps
  BY <1>5 DEF Go, IInv, Shape, Steps
<1>7. /\ my' = [my EXCEPT ![t] = my'[t]] /\ my'[t].kind = my[t].kind /\ my'[t].line = my[t].line
      /\ my'[t].moves = my[t].moves /\ my'[t].newLine = my[t].newLine
      /\ my'[t].newTotal = my[t].newTotal /\ my'[t].status = my[t].status /\ my'[t].total = my[t].total
      /\ \A p \in my'[t].payments : p.value = sale.total
  <2>1. CASE InsertExits(t)
    <3>. DEFINE missing == {e \in my[t].todo : ~Recorded(t, e[1], "OUT", 0)}
                added == {Movement(e[1], "OUT", 0, e[2], t) : e \in missing}
    <3>1. missing = {}
      <4> SUFFICES ASSUME NEW e \in my[t].todo PROVE Recorded(t, e[1], "OUT", 0)
        OBVIOUS
      <4>1. e[1] \in Lines
        BY <1>2 DEF DraftTypes
      <4>2. line[e[1]] # Absent
        BY <1>2, <1>5, <2>1 DEF Returns, At
      <4>3. AsListed(Visible(t), e[1])
        BY <1>2, <1>3, <4>1 DEF Sees
      <4>. QED  BY <4>2, <4>3 DEF AsListed, Out, Has, Recorded
    <3>2. PICK M : M = my[t].moves \cup added
      OBVIOUS
    <3>3. M = my[t].moves
      BY <3>1, <3>2
    <3>4. Keep(t, "moves", M)
      BY <2>1, <3>2 DEF InsertExits
    <3>5. /\ my' = [my EXCEPT ![t] = my'[t]] /\ my'[t].moves = M
          /\ \A x \in Fields \ {"moves"} : my'[t][x] = my[t][x]
      BY <3>4, OneField DEF Fields
    <3>. QED  BY <1>2, <3>3, <3>5 DEF Fields, Writes
  <2>2. CASE Pay(t)
    <3>1. PICK p : p = [by |-> t, value |-> my[t].total]
      OBVIOUS
    <3>2. /\ my' = [my EXCEPT ![t] = my'[t]] /\ my'[t].payments = {p}
          /\ \A x \in Fields \ {"payments"} : my'[t][x] = my[t][x]
      BY <2>2, <3>1, OneField DEF Pay, Fields
    <3>3. my[t].total = sale.total
      BY <1>1, <1>2 DEF Writes, At
    <3>. QED  BY <3>1, <3>2, <3>3 DEF Fields
  <2>. QED  BY <2>1, <2>2
<1>8. Writes(t)'
  BY <1>1, <1>2, <1>4, <1>5, <1>6, <1>7 DEF Writes, Late, At
<1>9. /\ Visible(t)' = Visible(t) /\ Touched(t)' = Touched(t)
      /\ \A j : AsListed(Visible(t), j)' <=> AsListed(Visible(t), j)
  BY <1>4, <1>7, SameSight
<1>10. \A j \in Lines : Sees(t, j)'
  BY <1>2, <1>3, <1>7, <1>9 DEF Sees
<1>11. Returns(t)' /\ Revisions(t)'
  BY <1>2, <1>6, <1>7 DEF Returns, Revisions, At
<1>12. Knows(t)'
  BY <1>2, <1>4, <1>7, <1>8, <1>10, <1>11 DEF Knows
<1>. QED  BY <1>1, <1>2, <1>5, <1>6, <1>7, <1>12, SerialGoesOn DEF UnderWay
LEMMA OpeningKeepsSerial ==
    ASSUME IInv, TypeInv, Serial, NEW t \in Tx, Open(t)
    PROVE  Serial'
<1>. USE Sorts
<1>1. pc[t] = "new" /\ Pending /\ sale.status = "ABERTA" /\ ~Born(t)
  BY DEF Open, At, Born
<1>2. PICK kind \in Kinds, i \in Lines, q \in Quantities :
          /\ kind = "add" => i = t
          /\ kind \in {"update", "remove"} => line[i] # Absent
          /\ my' = [my EXCEPT ![t] = [Idle EXCEPT !.kind = kind, !.line = i, !.quantity = q]]
          /\ Go(t, FirstStep(kind))
  BY DEF Open
<1>3. PICK r : r = [Idle EXCEPT !.kind = kind, !.line = i, !.quantity = q]
  OBVIOUS
<1>4. /\ r.moves = {} /\ r.payments = {} /\ r.newLine = Unwritten /\ r.status = Unwritten
      /\ r.newTotal = Unwritten /\ r.kind = kind /\ r.line = i
  BY <1>3 DEF Idle
<1>5. kind \in AllKinds
  BY SaleAssumption DEF AllKinds
<1>6. PICK label \in {"available", "item", "header", "lines"} :
          /\ Go(t, label) /\ (label = "available" <=> kind = "add")
          /\ label = "header" => kind # "cancelOs"
          /\ kind \in {"finalize", "cancel"} => label = "header"
  BY <1>2, <1>5 DEF FirstStep, AllKinds
<1>7. my' = [my EXCEPT ![t] = my'[t]] /\ my'[t] = r /\ pc'[t] = label
  BY <1>2, <1>3, <1>6 DEF Go, IInv, Shape
<1>8. UNCHANGED << sale, line, moves >> /\ Visible(t)' = moves
  BY <1>1, <1>4, <1>7 DEF Pending, Visible
<1>9. SerialState
  BY DEF Serial
<1>10. \A j \in Lines : AsListed(Visible(t), j)'
  BY <1>1, <1>8, <1>9 DEF SerialState, AsListed
<1>11. kind = "add" => \A m \in moves : m.line # t
  BY <1>1, <1>9 DEF SerialState
<1>12. \A j \in Lines : Sees(t, j)'
  BY <1>4, <1>6, <1>7, <1>8, <1>10, <1>11 DEF Sees, AddSees, ReturnSees, NotYet, At, Returning
<1>13. Writes(t)'
  <2>1. pc'[t] \notin {"sum", "total", "commit"} /\ pc'[t] = label
    BY <1>6, <1>7
  <2>2. kind \in {"finalize", "cancel"} => pc'[t] = "header"
    BY <1>6, <1>7
  <2>3. my'[t].kind = kind /\ my'[t].newLine = Unwritten /\ my'[t].newTotal = Unwritten
        /\ my'[t].status = Unwritten /\ my'[t].payments = {} /\ my'[t].moves = {}
    BY <1>4, <1>7
  <2>. QED  BY <2>1, <2>2, <2>3 DEF Writes, Late, At
<1>14. Returns(t)' /\ Revisions(t)'
  BY <1>4, <1>6, <1>7 DEF Returns, Revisions, At
<1>15. Knows(t)'
  BY <1>1, <1>2, <1>4, <1>7, <1>8, <1>12, <1>13, <1>14 DEF Knows
<1>. QED  BY <1>1, <1>6, <1>7, <1>15, SerialGoesOn DEF Steps

LEMMA AbortingKeepsSerial ==
    ASSUME IInv, TypeInv, Serial, NEW t \in Tx, Abort(t)
    PROVE  Serial'
<1>1. /\ pc'[t] = "done" /\ \A u \in Tx \ {t} : pc'[u] = pc[u] /\ my'[u] = my[u]
      /\ UNCHANGED << sale, line, moves >>
  BY DEF Abort, Go, IInv, Shape
<1>2. \A i : Born(i) => Born(i)'
  BY <1>1 DEF Born
<1>3. ASSUME NEW u \in Tx, UnderWay(u)' PROVE Knows(u)'
  <2>1. u # t /\ Knows(u)
    BY <1>1, <1>3 DEF Serial, UnderWay
  <2>. QED  BY <1>1, <2>1, KnowsStays
<1>4. SerialState'
  <2>1. \A i \in Lines : (IF sale.status = "CANCELADA" THEN Gone(moves, i) ELSE AsListed(moves, i))'
    BY <1>1 DEF Serial, SerialState, AsListed
  <2>2. sale'.total = TotalOf(line)'
    BY <1>1 DEF Serial, SerialState
  <2>. QED  BY <1>1, <1>2, <2>1, <2>2 DEF Serial, SerialState
<1>. QED  BY <1>3, <1>4 DEF Serial

\* With no other request under way, what the request has written is all there is.
LEMMA CommittingKeepsSerial ==
    ASSUME IInv, TypeInv, Serial, NEW t \in Tx, Commit(t), ~overlap'
    PROVE  Serial'
<1>. USE Sorts, ValueFacts
<1>1. /\ pc[t] = "commit" /\ pc[t] \in Steps
      /\ line' = LinesSeen(t) /\ moves' = Visible(t)
      /\ sale' = [status |-> Written(my[t].status, sale.status),
                  total |-> Written(my[t].newTotal, sale.total),
                  payments |-> sale.payments \cup my[t].payments]
      /\ \A u \in Tx \ {t} : ~UnderWay(u)
  BY DEF Commit, At, Steps
<1>2. /\ Knows(t) /\ Writes(t) /\ (\A i \in Lines : Sees(t, i)) /\ UnderWay(t)
      /\ my[t].kind \in AllKinds /\ my[t].line \in Lines /\ (my[t].kind = "add" => my[t].line = t)
      /\ DraftTypes(t) /\ PaidBy(t) /\ sale.status = "ABERTA" /\ SerialState /\ Committed
  BY <1>1, KnowsFacts, StepFacts DEF Knows, Serial, IInv
<1>3. /\ pc'[t] = "done" /\ \A u \in Tx \ {t} : pc'[u] = pc[u]
  BY DEF Commit, Go, IInv, Shape
<1>4. \A u \in Tx : ~UnderWay(u)'
  BY <1>1, <1>3 DEF UnderWay
<1>5. /\ sale'.status = Written(my[t].status, sale.status)
      /\ sale'.total = Written(my[t].newTotal, sale.total)
      /\ sale'.payments = sale.payments \cup my[t].payments
  BY <1>1
<1>6. sale.payments = {}
  BY <1>2 DEF SerialState
<1>7. \A m \in moves' : Born(m.line)'
  <2>1. \A i : Born(i) => Born(i)'
    BY <1>3 DEF Born
  <2>2. Born(t)'
    BY <1>3 DEF Born
  <2>3. \A m \in my[t].moves : m.line \in Lines
    BY <1>2 DEF DraftTypes, Movements
  <2>4. \A m \in my[t].moves : Born(m.line)'
    BY <1>2, <2>1, <2>2, <2>3 DEF Writes, Committed
  <2>. QED  BY <1>1, <1>2, <2>1, <2>4 DEF Visible, SerialState
<1>8. sale'.total = TotalOf(line)'
  <2>1. CASE my[t].kind \in {"add", "update", "remove", "recalculate"}
    <3>1. my[t].newTotal = TotalOf(LinesSeen(t))
      BY <1>1, <1>2, <2>1 DEF Writes, At
    <3>2. TotalOf(LinesSeen(t)) \in Nat
      BY SeenIsTyped
    <3>. QED  BY <1>1, <1>5, <3>1, <3>2 DEF Written
  <2>2. CASE my[t].kind \notin {"add", "update", "remove", "recalculate"}
    <3>1. my[t].newTotal = Unwritten /\ my[t].newLine = Unwritten
      BY <1>2, <2>2 DEF Writes
    <3>2. LinesSeen(t) = line
      BY <3>1 DEF LinesSeen, TypeInv, StoredTypes
    <3>. QED  BY <1>1, <1>2, <1>5, <3>1, <3>2 DEF Written, SerialState
  <2>. QED  BY <2>1, <2>2
<1>9. /\ (\A p \in sale'.payments : p.value = sale'.total)
      /\ (sale'.payments # {} => sale'.status # "ABERTA")
  <2>1. CASE my[t].payments = {}
    BY <1>5, <1>6, <2>1
  <2>2. CASE my[t].payments # {}
    <3>1. my[t].kind = "finalize"
      BY <1>2, <2>2 DEF PaidBy
    <3>2. my[t].status = "FINALIZADA" /\ my[t].newTotal = Unwritten
      BY <1>1, <1>2, <3>1 DEF Writes, NewStatus
    <3>3. sale'.status = "FINALIZADA" /\ sale'.total = sale.total
      BY <1>5, <3>2 DEF Written, Statuses
    <3>. QED  BY <1>2, <1>5, <1>6, <3>3 DEF Writes
  <2>. QED  BY <2>1, <2>2
<1>10. ASSUME NEW i \in Lines
       PROVE  (IF sale.status = "CANCELADA" THEN Gone(moves, i) ELSE AsListed(moves, i))'
  <2>. DEFINE S == Visible(t)
  <2>1. CASE my[t].kind \in {"cancel", "cancelOs"}
    <3>1. my[t].status = "CANCELADA"
      BY <1>1, <1>2, <2>1 DEF Writes, At, NewStatus
    <3>2. sale'.status = "CANCELADA"
      BY <1>5, <3>1 DEF Written, Statuses
    <3>3. Gone(S, i)
      <4>1. CASE i \in Touched(t)
        BY <1>1, <1>2, <2>1, <4>1 DEF Sees, ReturnSees, NotYet, At, Returning
      <4>2. CASE i \notin Touched(t)
        BY <1>2, <2>1, <4>2, TouchedLines DEF Sees, AsListed, Present
      <4>. QED  BY <4>1, <4>2
    <3>. QED  BY <1>1, <3>2, <3>3
  <2>2. CASE my[t].kind \notin {"cancel", "cancelOs"}
    <3>1. sale'.status # "CANCELADA"
      <4>1. my[t].status \in {Unwritten, "FINALIZADA"}
        BY <1>1, <1>2, <2>2 DEF Writes, NewStatus, At
      <4>. QED  BY <1>2, <1>5, <4>1 DEF Written
    <3>2. IF line'[i] # Absent THEN Out(S, i, line'[i]) ELSE Gone(S, i)
      <4>1. line'[i] = IF i = my[t].line /\ my[t].newLine # Unwritten THEN my[t].newLine ELSE line[i]
        BY <1>1 DEF LinesSeen
      <4>2. CASE my[t].kind \in {"recalculate", "finalize"}
        <5>1. my[t].newLine = Unwritten /\ i \notin Touched(t)
          BY <1>2, <4>2, TouchedNone DEF Writes
        <5>. QED  BY <1>2, <4>1, <5>1 DEF Sees, AsListed
      <4>3. CASE my[t].kind \in {"add", "update", "remove"} /\ i # my[t].line
        <5>1. i \notin Touched(t)
          BY <4>3, TouchedLine
        <5>. QED  BY <1>2, <4>1, <4>3, <5>1 DEF Sees, AsListed
      <4>4. CASE my[t].kind = "add" /\ i = my[t].line
        <5>1. my[t].newLine = my[t].quantity /\ my[t].quantity \in Values
          BY <1>1, <1>2, <4>4 DEF Writes, Late, DraftTypes
        <5>2. Out(S, i, my[t].quantity)
          BY <1>1, <1>2, <4>4 DEF Sees, AddSees
        <5>3. line'[i] = my[t].quantity /\ my[t].quantity # Absent
          BY <4>1, <4>4, <5>1
        <5>. QED  BY <5>2, <5>3
      <4>5. CASE my[t].kind \in {"update", "remove"} /\ i = my[t].line
        <5>1. ReturnSees(t, i)
          BY <1>2, <4>5, TouchedLine DEF Sees, Returning
        <5>2. CASE my[t].kind = "update"
          <6>1. my[t].newLine = my[t].quantity /\ my[t].quantity \in Values
            BY <1>1, <1>2, <5>2 DEF Writes, Late, DraftTypes
          <6>2. Out(S, i, my[t].quantity)
            BY <1>1, <5>1, <5>2 DEF ReturnSees, NotYet, At
          <6>3. line'[i] = my[t].quantity /\ my[t].quantity # Absent
            BY <4>1, <4>5, <6>1
          <6>. QED  BY <6>2, <6>3
        <5>3. CASE my[t].kind = "remove"
          <6>1. my[t].newLine = Absent
            BY <1>1, <1>2, <5>3 DEF Writes, Late
          <6>2. Gone(S, i)
            BY <1>1, <5>1, <5>3 DEF ReturnSees, NotYet, At
          <6>. QED  BY <4>1, <4>5, <6>1, <6>2
        <5>. QED  BY <4>5, <5>2, <5>3
      <4>. QED  BY <1>2, <2>2, <4>2, <4>3, <4>4, <4>5 DEF AllKinds
    <3>. QED  BY <1>1, <3>1, <3>2 DEF AsListed
  <2>. QED  BY <2>1, <2>2
<1>. QED  BY <1>4, <1>7, <1>8, <1>9, <1>10 DEF Serial, SerialState

LEMMA StepKeepsSerial == IInv /\ TypeInv /\ SerialInv /\ [Next]_vars => SerialInv'
<1> SUFFICES ASSUME IInv, TypeInv, SerialInv, [Next]_vars, ~overlap' PROVE Serial'
  BY DEF SerialInv
<1>1. Serial
  <2>1. overlap' = overlap \/ (\E t \in Tx : Commit(t))
    BY DEF Next, vars, Open, ReadItem, ReadLines, LookUpReturn, InsertReturn, FinishReturns,
       ReadRevision, LookUpRevision, InsertRevisionReturn, LockAvailable, Revise,
       ReviseAlreadyDone, LaunchLine, WriteLine, SumLines, WriteTotal, WriteHeader, InsertExits,
       Pay, Abort, Pending, InsertMovement
  <2>2. (\E t \in Tx : Commit(t)) => ~overlap
    BY DEF Commit
  <2>. QED  BY <2>1, <2>2 DEF SerialInv
<1>2. CASE Next
  <2>1. PICK t \in Tx :
          \/ Open(t) \/ ReadItem(t) \/ ReadLines(t)
          \/ LookUpReturn(t) \/ InsertReturn(t) \/ FinishReturns(t)
          \/ ReadRevision(t) \/ LookUpRevision(t) \/ InsertRevisionReturn(t)
          \/ LockAvailable(t) \/ Revise(t) \/ ReviseAlreadyDone(t)
          \/ LaunchLine(t) \/ WriteLine(t) \/ SumLines(t) \/ WriteTotal(t)
          \/ WriteHeader(t) \/ InsertExits(t) \/ Pay(t)
          \/ Commit(t) \/ Abort(t)
    BY <1>2 DEF Next
  <2>. QED  BY <1>1, <2>1, OpeningKeepsSerial, ItemKeepsSerial, LinesKeepSerial, LookUpKeepsSerial,
            ReturnKeepsSerial, FinishKeepsSerial, RevisionKeepsSerial, AvailableKeepsSerial,
            RevisingKeepsSerial, RevisionIsFree, LaunchKeepsSerial, WritingKeepsSerial,
            HeaderKeepsSerial, ExitsKeepSerial, CommittingKeepsSerial, AbortingKeepsSerial
<1>3. CASE UNCHANGED vars
  <2>1. \A u \in Tx : UnderWay(u)' => Knows(u)'
    <3> SUFFICES ASSUME NEW u \in Tx, UnderWay(u)' PROVE Knows(u)'
      OBVIOUS
    <3>1. Knows(u)
      BY <1>1, <1>3 DEF vars, Serial, UnderWay
    <3>. QED  BY <1>3, <3>1, KnowsStays DEF vars
  <2>2. \A i \in Lines : (IF sale.status = "CANCELADA" THEN Gone(moves, i) ELSE AsListed(moves, i))'
    BY <1>1, <1>3 DEF vars, Serial, SerialState, AsListed
  <2>3. sale'.total = TotalOf(line)' /\ \A m \in moves' : Born(m.line)'
    BY <1>1, <1>3 DEF vars, Serial, SerialState, Born
  <2>. QED  BY <1>1, <1>3, <2>1, <2>2, <2>3 DEF vars, Serial, SerialState
<1>. QED  BY <1>2, <1>3

\* What requests that do not overlap keep: what the sale's rows say of each
\* other, and what each request under way has read, seen and written.
THEOREM SerialInductive == Spec => []SerialInv
<1>. QED  BY InitSerial, StepKeepsSerial, Inductive, Types, PTL DEF Spec

\* The item operations and the status of a sale: as long as no two requests
\* overlap, the stock that is out follows the lines, and the total and the
\* payments follow them too.
THEOREM SaleIsKept == Spec => []SerialRequestsKeepSale
<1>1. SerialInv /\ TypeInv => SerialRequestsKeepSale
  <2> SUFFICES ASSUME SerialState, TypeInv PROVE StockFollowsLines /\ TotalFollowsLines
    BY DEF SerialInv, Serial, SerialRequestsKeepSale
  <2>1. TotalFollowsLines
    BY DEF SerialState, TotalFollowsLines
  <2>2. ASSUME NEW i \in Lines PROVE NetOut(i) = Owed(i) \/ (Revised(i) /\ Owed(i) = 0)
    <3>1. NetOut(i) = NetIn(moves, i) /\ (Revised(i) <=> RevisedIn(moves, i))
      BY DEF NetOut, NetIn, Quantity, QuantityIn, Revised, RevisedIn
    <3>2. CASE sale.status = "CANCELADA" \/ line[i] = Absent
      <4>1. Owed(i) = 0
        BY <3>2 DEF Owed
      <4>2. Gone(moves, i)
        BY <3>2 DEF SerialState, AsListed
      <4>. QED  BY <3>1, <4>1, <4>2 DEF Gone
    <3>3. CASE ~(sale.status = "CANCELADA" \/ line[i] = Absent)
      <4>1. Owed(i) = line[i]
        BY <3>3 DEF Owed
      <4>2. Out(moves, i, line[i])
        BY <3>3 DEF SerialState, AsListed
      <4>. QED  BY <3>1, <4>1, <4>2 DEF Out
    <3>. QED  BY <3>2, <3>3
  <2>. QED  BY <2>1, <2>2 DEF StockFollowsLines
<1>. QED  BY <1>1, SerialInductive, Types, PTL
=============================================================================
