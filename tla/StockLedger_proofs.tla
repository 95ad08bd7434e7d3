------------------------- MODULE StockLedger_proofs -------------------------
(***************************************************************************)
(* Proofs about StockLedger and BatchBalances, for any number of concurrent *)
(* requests: types, that the recorded movements of a row account for its    *)
(* balance, and when the total of a batch product is the sum of its rows.   *)
(***************************************************************************)
EXTENDS BatchBalances, SequenceTheorems, SumTheorems, TLAPS

\* A statement that changes a recorded row records it.
Recording(s) == s.row \in Recorded /\ s.op # "assert" /\ s.delta # 0 => s.logged

GoodStatements == {s \in Statements : Recording(s)}

\* Statements left to run are good ones, and a transaction about to insert a
\* batch row stands before the increase of that row.
ProgramInv ==
    /\ prog \in [Tx -> Seq(GoodStatements)]
    /\ \A t \in Tx : pc[t] = "insert" => /\ prog[t] # << >>
                                         /\ Current(t).delta > 0
                                         /\ Current(t).op = "adjust"

\* A transaction writes only rows whose lock it holds.
OwnerInv ==
    \A t \in Tx, r \in Rows :
        /\ draft[t][r] # Clean => lock[r] = t
        /\ draft[t][r] = Clean => sides[t][r] = << >>

\* What a transaction recorded so far leads from the committed balance to the
\* one it wrote.
DraftInv ==
    \A t \in Tx, r \in Recorded :
        draft[t][r] # Clean =>
            Linked(sides[t][r], Amount(val[r]), draft[t][r])

IInv == TypeOK /\ ProgramInv /\ OwnerInv /\ DraftInv /\ LedgerAccountsForBalance

-----------------------------------------------------------------------------
(***************************************************************************)
(* Chains of entries.                                                       *)
(***************************************************************************)

\* One more entry extends a chain to the balance it records.
LEMMA LinkedAppend ==
    ASSUME NEW s \in Seq(Entries), NEW a \in Nat, NEW b \in Nat,
           NEW e \in Entries, Linked(s, a, b), e.before = b
    PROVE  Linked(Append(s, e), a, e.after)
<1> DEFINE q == Append(s, e)
<1>1. /\ q \in Seq(Entries) /\ Len(q) = Len(s) + 1 /\ q[Len(s) + 1] = e
      /\ \A i \in 1 .. Len(s) : q[i] = s[i]
  BY AppendProperties
<1>2. q # << >> /\ Len(s) \in Nat
  BY <1>1, EmptySeq
<1>3. CASE s = << >>
  BY <1>1, <1>2, <1>3 DEF Linked
<1>4. CASE s # << >>
  <2>1. Len(s) >= 1
    BY <1>4, EmptySeq
  <2>2. s[1].before = a /\ s[Len(s)].after = b
    BY <1>4 DEF Linked
  <2>3. ASSUME NEW i \in 1 .. Len(q) - 1
        PROVE  q[i].after = q[i + 1].before
    BY <1>1, <1>4, <2>1, <2>2, <2>3 DEF Linked
  <2>4. QED
    BY <1>1, <1>2, <2>1, <2>2, <2>3 DEF Linked
<1>5. QED
  BY <1>3, <1>4

\* Two chains that meet are one chain.
LEMMA LinkedConcat ==
    ASSUME NEW s \in Seq(Entries), NEW q \in Seq(Entries),
           NEW a \in Nat, NEW b \in Nat, NEW c \in Nat,
           Linked(s, a, b), Linked(q, b, c)
    PROVE  Linked(s \o q, a, c)
<1> DEFINE z == s \o q
<1>1. /\ z \in Seq(Entries) /\ Len(z) = Len(s) + Len(q)
      /\ \A i \in 1 .. Len(z) :
            z[i] = IF i <= Len(s) THEN s[i] ELSE q[i - Len(s)]
  BY ConcatProperties
<1>2. Len(s) \in Nat /\ Len(q) \in Nat
  OBVIOUS
<1>3. CASE s = << >>
  BY <1>3, ConcatEmptySeq DEF Linked
<1>4. CASE q = << >>
  BY <1>4, ConcatEmptySeq DEF Linked
<1>5. CASE s # << >> /\ q # << >>
  <2>1. Len(s) >= 1 /\ Len(q) >= 1
    BY <1>5, EmptySeq
  <2>2. /\ s[1].before = a /\ s[Len(s)].after = b
        /\ q[1].before = b /\ q[Len(q)].after = c
    BY <1>5 DEF Linked
  <2>3. z # << >> /\ z[1] = s[1] /\ z[Len(z)] = q[Len(q)]
    BY <1>1, <1>2, <2>1
  <2>4. ASSUME NEW i \in 1 .. Len(z) - 1
        PROVE  z[i].after = z[i + 1].before
    <3>1. CASE i < Len(s)
      BY <1>1, <1>2, <1>5, <3>1 DEF Linked
    <3>2. CASE i = Len(s)
      BY <1>1, <1>2, <2>1, <2>2, <3>2
    <3>3. CASE i > Len(s)
      <4>1. i - Len(s) \in 1 .. Len(q) - 1
        BY <1>1, <1>2, <3>3
      <4>2. q[i - Len(s)].after = q[(i - Len(s)) + 1].before
        BY <1>5, <4>1 DEF Linked
      <4>3. (i - Len(s)) + 1 = (i + 1) - Len(s)
        BY <1>2
      <4>4. QED
        BY <1>1, <1>2, <3>3, <4>2, <4>3
    <3>4. QED
      BY <1>2, <3>1, <3>2, <3>3
  <2>5. QED
    BY <2>2, <2>3, <2>4 DEF Linked
<1>6. QED
  BY <1>3, <1>4, <1>5

-----------------------------------------------------------------------------
(***************************************************************************)
(* The statements of a valid movement are good statements.                  *)
(***************************************************************************)

LEMMA ShortSequences ==
    ASSUME NEW S, NEW a \in S, NEW b \in S
    PROVE  << >> \in Seq(S) /\ << a >> \in Seq(S) /\ << a, b >> \in Seq(S)
OBVIOUS

LEMMA StatementIsGood ==
    ASSUME NEW op \in {"assert", "adjust", "reject"}, NEW row \in Rows,
           NEW delta \in Int, NEW logged \in BOOLEAN, NEW m \in Movements,
           row \in Recorded /\ op # "assert" /\ delta # 0 => logged
    PROVE  Statement(op, row, delta, logged, m) \in GoodStatements
BY DEF Statement, GoodStatements, Statements, Recording, Movements

LEMMA AdjustIsGood ==
    ASSUME NEW m \in Movements, NEW slot, NEW delta \in Int,
           m.product \in BatchProducts => slot \in Slots
    PROVE  Adjust(m, slot, delta) \in Seq(GoodStatements)
<1>1. CASE m.product \in PlainProducts
  <2>1. Statement("adjust", m.product, delta, TRUE, m) \in GoodStatements
    BY <1>1, StatementIsGood DEF Rows, Products
  <2>2. QED
    BY <1>1, <2>1, ShortSequences DEF Adjust
<1>2. CASE m.product \notin PlainProducts
  <2>1. m.product \in BatchProducts /\ slot \in Slots
    BY <1>2 DEF Movements, Products
  <2>2. Statement("adjust", slot, delta, TRUE, m) \in GoodStatements
    BY <2>1, StatementIsGood DEF Rows
  <2>3. m.product \in Rows /\ m.product \notin Recorded
    BY <1>2, <2>1, ConstantsAssumption DEF Rows, Products, Recorded
  <2>4. Statement("adjust", m.product, delta, FALSE, m) \in GoodStatements
    BY <2>3, StatementIsGood
  <2>5. QED
    BY <1>2, <2>2, <2>4, ShortSequences DEF Adjust
<1>3. QED
  BY <1>1, <1>2

LEMMA StatementsAreGood ==
    ASSUME NEW m \in Movements, Valid(m)
    PROVE  StatementsOf(m) \in Seq(GoodStatements)
<1> DEFINE only == << Statement("adjust", m.product, 0,
                             /\ m.product \in PlainProducts
                             /\ m.type \in DecreaseTypes \cup IncreaseTypes,
                             m) >>
           transferred == m.type = "TRANSFERENCIA"
           check == IF m.checked
                    THEN << Statement("assert", m.product, -m.quantity, FALSE, m) >>
                    ELSE << >>
           taken == IF m.type \in DecreaseTypes
                    THEN Adjust(m, m.from, -m.quantity) ELSE << >>
           given == IF m.type \in IncreaseTypes
                    THEN Adjust(m, m.to, m.quantity) ELSE << >>
           refused == IF transferred /\ ~TransferAccepted(m)
                      THEN << Statement("reject", m.product, 0, FALSE, m) >>
                      ELSE << >>
<1>1. /\ m.product \in Rows /\ m.quantity \in Int /\ -m.quantity \in Int
      /\ m.product \in PlainProducts \cup BatchProducts /\ 0 \in Int
  BY DEF Movements, Rows, Products
<1>2. only \in Seq(GoodStatements)
  <2>1. (/\ m.product \in PlainProducts
         /\ m.type \in DecreaseTypes \cup IncreaseTypes) \in BOOLEAN
    BY Zenon
  <2>2. QED
    <3>1. Statement("adjust", m.product, 0,
                    /\ m.product \in PlainProducts
                    /\ m.type \in DecreaseTypes \cup IncreaseTypes,
                    m) \in GoodStatements
      BY <1>1, <2>1 DEF Statement, GoodStatements, Statements, Recording, Movements
    <3>2. QED
      BY <3>1, ShortSequences DEF only
<1>3. check \in Seq(GoodStatements)
  <2>1. Statement("assert", m.product, -m.quantity, FALSE, m) \in GoodStatements
    BY <1>1, StatementIsGood
  <2>2. QED
    BY <2>1, ShortSequences
<1>4. refused \in Seq(GoodStatements)
  <2>1. Statement("reject", m.product, 0, FALSE, m) \in GoodStatements
    BY <1>1 DEF Statement, GoodStatements, Statements, Recording, Movements
  <2>2. QED
    BY <2>1, ShortSequences
<1>5. CASE m.recordOnly
  BY <1>2, <1>5 DEF StatementsOf
<1>6. CASE ~m.recordOnly /\ transferred /\ m.product \in PlainProducts
  <2>1. only \o refused \in Seq(GoodStatements)
    BY <1>2, <1>4, ConcatProperties
  <2>2. QED
    BY <1>6, <2>1 DEF StatementsOf
<1>7. CASE ~m.recordOnly /\ ~(transferred /\ m.product \in PlainProducts)
  <2>1. taken \in Seq(GoodStatements)
    BY <1>1, <1>7, AdjustIsGood, ConstantsAssumption DEF Valid, BelongsTo
  <2>2. given \in Seq(GoodStatements)
    BY <1>1, <1>7, AdjustIsGood, ConstantsAssumption DEF Valid, BelongsTo
  <2>3. check \o (taken \o given) \in Seq(GoodStatements)
    BY <1>3, <2>1, <2>2, ConcatProperties
  <2>4. (check \o (taken \o given)) \o refused \in Seq(GoodStatements)
    BY <1>4, <2>3, ConcatProperties
  <2>5. StatementsOf(m) = (check \o (taken \o given)) \o refused
    BY <1>7 DEF StatementsOf
  <2>6. QED
    BY <2>4, <2>5
<1>8. QED
  BY <1>5, <1>6, <1>7

-----------------------------------------------------------------------------
(***************************************************************************)
(* The steps every action is made of.                                       *)
(***************************************************************************)

LEMMA InitEstablishes == Init => IInv
<1> SUFFICES ASSUME Init PROVE IInv
  OBVIOUS
<1>1. TypeOK
  <2>1. \A r \in Rows : << >> \in Seq(Entries)
    OBVIOUS
  <2>2. QED
    BY <2>1, ConstantsAssumption DEF Init, TypeOK
<1>2. ProgramInv
  BY DEF Init, ProgramInv
<1>3. OwnerInv
  BY DEF Init, OwnerInv
<1>4. DraftInv
  BY DEF Init, DraftInv, Recorded, Rows, Products
<1>5. LedgerAccountsForBalance
  <2> SUFFICES ASSUME NEW r \in Recorded
               PROVE  Linked(ledger[r], Amount(Start[r]), Amount(val[r]))
    BY DEF LedgerAccountsForBalance
  <2>1. r \in Rows
    BY DEF Recorded, Rows, Products
  <2>2. QED
    BY <2>1 DEF Init, Linked
<1>6. QED
  BY <1>1, <1>2, <1>3, <1>4, <1>5 DEF IInv

\* Dropping the drafts of one transaction keeps the others' and the account.
LEMMA AbortPreserves ==
    ASSUME IInv, NEW t \in Tx, Abort(t)
    PROVE  IInv'
<1> USE DEF IInv
<1>1. TypeOK'
  <2>1. << >> \in Seq(Entries) /\ << >> \in Seq(Statements)
    OBVIOUS
  <2>2. QED
    BY <2>1 DEF TypeOK, Abort
<1>2. ProgramInv'
  <2>1. << >> \in Seq(GoodStatements)
    OBVIOUS
  <2>2. prog' \in [Tx -> Seq(GoodStatements)]
    BY <2>1 DEF ProgramInv, Abort
  <2>3. ASSUME NEW u \in Tx, pc'[u] = "insert"
        PROVE  pc[u] = "insert" /\ prog'[u] = prog[u]
    BY <2>3 DEF Abort, TypeOK
  <2>4. QED
    BY <2>2, <2>3 DEF ProgramInv, Current
<1>3. OwnerInv'
  BY DEF OwnerInv, Abort, TypeOK
<1>4. DraftInv'
  <2> SUFFICES ASSUME NEW u \in Tx, NEW r \in Recorded, draft'[u][r] # Clean
               PROVE  Linked(sides'[u][r], Amount(val[r]), draft'[u][r])
    BY DEF DraftInv, Abort
  <2>1. r \in Rows
    BY DEF Recorded, Rows, Products
  <2>2. u # t
    BY <2>1 DEF Abort, TypeOK
  <2>3. sides'[u] = sides[u] /\ draft'[u] = draft[u]
    BY <2>2 DEF Abort, TypeOK
  <2>4. QED
    BY <2>3 DEF DraftInv
<1>5. LedgerAccountsForBalance'
  BY DEF LedgerAccountsForBalance, Abort
<1>6. QED
  BY <1>1, <1>2, <1>3, <1>4, <1>5

\* A write under the lock extends what the transaction recorded for the row.
LEMMA WritePreserves ==
    ASSUME IInv, NEW t \in Tx, prog[t] # << >>,
           NEW r \in Rows, r = Current(t).row, MayLock(t, r),
           NEW before \in Nat, before = Amount(Visible(t, r)),
           After(t, before) \in Nat, Write(t, r, before)
    PROVE  IInv'
<1> USE DEF IInv
<1> DEFINE s == Current(t)
           a == After(t, before)
           e == [type |-> s.type, before |-> before, after |-> a]
<1>1. s \in GoodStatements /\ s \in Statements /\ Tail(prog[t]) \in Seq(GoodStatements)
  BY DEF ProgramInv, Current, GoodStatements
<1>2. e \in Entries /\ a \in Nat
  BY <1>1 DEF Entries, Statements
<1>3. /\ draft' = [draft EXCEPT ![t][r] = a]
      /\ sides' = IF s.logged THEN [sides EXCEPT ![t][r] = Append(@, e)]
                              ELSE sides
  BY DEF Write
<1> HIDE DEF s, a, e
<1>4. sides' \in [Tx -> [Rows -> Seq(Entries)]]
  <2>1. Append(sides[t][r], e) \in Seq(Entries)
    BY <1>2 DEF TypeOK
  <2>2. QED
    BY <1>3, <2>1 DEF TypeOK
<1>5. TypeOK'
  <2>1. Tail(prog[t]) \in Seq(Statements)
    BY DEF TypeOK
  <2>2. draft' \in [Tx -> [Rows -> Nat \cup {Clean}]]
    BY <1>2, <1>3 DEF TypeOK
  <2>3. QED
    BY <1>4, <2>1, <2>2 DEF TypeOK, Write
<1>6. ProgramInv'
  <2>1. prog' \in [Tx -> Seq(GoodStatements)]
    BY <1>1 DEF ProgramInv, Write
  <2>2. ASSUME NEW u \in Tx, pc'[u] = "insert"
        PROVE  pc[u] = "insert" /\ prog'[u] = prog[u]
    BY <2>2 DEF Write, TypeOK
  <2>3. QED
    BY <2>1, <2>2 DEF ProgramInv, Current
<1>7. \A u \in Tx, x \in Rows :
        <<u, x>> # <<t, r>> => draft'[u][x] = draft[u][x] /\ sides'[u][x] = sides[u][x]
  BY <1>3 DEF TypeOK
<1>8. draft'[t][r] = a /\ a # Clean
  BY <1>2, <1>3, ConstantsAssumption DEF TypeOK, Quantity
<1>9. OwnerInv'
  <2> SUFFICES ASSUME NEW u \in Tx, NEW x \in Rows
               PROVE  /\ draft'[u][x] # Clean => lock'[x] = u
                      /\ draft'[u][x] = Clean => sides'[u][x] = << >>
    BY DEF OwnerInv
  <2>1. CASE u = t /\ x = r
    BY <1>8, <2>1 DEF Write, TypeOK
  <2>2. CASE x # r
    BY <1>7, <2>2 DEF Write, OwnerInv, TypeOK
  <2>3. CASE u # t /\ x = r
    <3>1. lock[r] # u
      BY <2>3, ConstantsAssumption DEF MayLock
    <3>2. draft'[u][x] = Clean /\ sides'[u][x] = << >>
      BY <1>7, <2>3, <3>1 DEF OwnerInv
    <3>3. QED
      BY <3>2
  <2>4. QED
    BY <2>1, <2>2, <2>3
<1>10. DraftInv'
  <2> SUFFICES ASSUME NEW u \in Tx, NEW x \in Recorded, draft'[u][x] # Clean
               PROVE  Linked(sides'[u][x], Amount(val[x]), draft'[u][x])
    BY DEF DraftInv, Write
  <2>1. x \in Rows
    BY DEF Recorded, Rows, Products
  <2>2. CASE u = t /\ x = r
    <3>1. Linked(sides[t][r], Amount(val[r]), before)
      <4>1. CASE draft[t][r] # Clean
        <5>1. before = draft[t][r]
          BY <2>1, <4>1, ConstantsAssumption DEF Visible, Amount, TypeOK, Quantity
        <5>2. QED
          BY <2>2, <4>1, <5>1 DEF DraftInv
      <4>2. CASE draft[t][r] = Clean
        BY <4>2 DEF Visible, OwnerInv, Linked
      <4>3. QED
        BY <4>1, <4>2
    <3>2. Amount(val[r]) \in Nat
      BY DEF TypeOK, Amount, Quantity
    <3>3. CASE s.logged
      <4>1. sides'[t][r] = Append(sides[t][r], e)
        BY <1>3, <3>3 DEF TypeOK
      <4>2. sides[t][r] \in Seq(Entries) /\ e.before = before /\ e.after = a
        BY DEF TypeOK, e
      <4>3. Linked(Append(sides[t][r], e), Amount(val[r]), e.after)
        BY <1>2, <3>1, <3>2, <4>2, LinkedAppend
      <4>4. QED
        BY <1>8, <2>2, <4>1, <4>2, <4>3
    <3>4. CASE ~s.logged
      <4>1. ~(s.op # "assert" /\ s.delta # 0)
        BY <1>1, <2>2, <3>4 DEF GoodStatements, Recording, s
      <4>2. a = before
        BY <1>1, <4>1 DEF a, s, After, Statements
      <4>3. sides' = sides
        BY <1>3, <3>4
      <4>4. QED
        BY <1>8, <2>2, <3>1, <4>2, <4>3
    <3>5. QED
      BY <3>3, <3>4
  <2>3. CASE <<u, x>> # <<t, r>>
    BY <1>7, <2>1, <2>3 DEF DraftInv
  <2>4. QED
    BY <2>2, <2>3
<1>11. LedgerAccountsForBalance'
  BY DEF LedgerAccountsForBalance, Write
<1>12. QED
  BY <1>5, <1>6, <1>9, <1>10, <1>11

\* A commit publishes the drafts, and appends to each account what leads from
\* the balance published before to the one published now.
LEMMA CommitPreserves ==
    ASSUME IInv, NEW t \in Tx, Commit(t)
    PROVE  IInv'
<1> USE DEF IInv
<1>1. \A r \in Rows : Visible(t, r) \in Quantity
  BY DEF TypeOK, Visible, Quantity
<1>2. TypeOK'
  <2>1. << >> \in Seq(Entries)
    OBVIOUS
  <2>2. \A r \in Rows : ledger[r] \o sides[t][r] \in Seq(Entries)
    BY ConcatProperties DEF TypeOK
  <2>3. val' \in [Rows -> Quantity] /\ ledger' \in [Rows -> Seq(Entries)]
    BY <1>1, <2>2 DEF Commit
  <2>4. QED
    BY <2>1, <2>3 DEF TypeOK, Commit
<1>3. ProgramInv'
  <2>1. ASSUME NEW u \in Tx, pc'[u] = "insert"
        PROVE  pc[u] = "insert" /\ prog'[u] = prog[u]
    BY <2>1 DEF Commit, TypeOK
  <2>2. QED
    BY <2>1 DEF ProgramInv, Current, Commit
<1>4. OwnerInv'
  BY DEF OwnerInv, Commit, TypeOK
<1>5. DraftInv'
  <2> SUFFICES ASSUME NEW u \in Tx, NEW r \in Recorded, draft'[u][r] # Clean
               PROVE  Linked(sides'[u][r], Amount(val'[r]), draft'[u][r])
    BY DEF DraftInv
  <2>1. r \in Rows
    BY DEF Recorded, Rows, Products
  <2>2. u # t
    BY <2>1 DEF Commit, TypeOK
  <2>3. sides'[u] = sides[u] /\ draft'[u] = draft[u]
    BY <2>2 DEF Commit, TypeOK
  <2>4. draft[t][r] = Clean
    BY <2>1, <2>2, <2>3 DEF OwnerInv
  <2>5. val'[r] = val[r]
    BY <2>1, <2>4 DEF Commit, Visible
  <2>6. QED
    BY <2>3, <2>5 DEF DraftInv
<1>6. LedgerAccountsForBalance'
  <2> SUFFICES ASSUME NEW r \in Recorded
               PROVE  Linked(ledger'[r], Amount(Start[r]), Amount(val'[r]))
    BY DEF LedgerAccountsForBalance
  <2>1. r \in Rows
    BY DEF Recorded, Rows, Products
  <2>2. /\ ledger'[r] = ledger[r] \o sides[t][r]
        /\ val'[r] = Visible(t, r)
    BY <2>1 DEF Commit
  <2>3. /\ ledger[r] \in Seq(Entries) /\ sides[t][r] \in Seq(Entries)
        /\ Amount(Start[r]) \in Nat /\ Amount(val[r]) \in Nat
    BY <2>1, ConstantsAssumption DEF TypeOK, Amount, Quantity
  <2>4. Linked(ledger[r], Amount(Start[r]), Amount(val[r]))
    BY DEF LedgerAccountsForBalance
  <2>5. CASE draft[t][r] = Clean
    <3>1. sides[t][r] = << >> /\ val'[r] = val[r]
      BY <2>1, <2>2, <2>5 DEF OwnerInv, Visible
    <3>2. ledger'[r] = ledger[r]
      BY <2>2, <2>3, <3>1, ConcatEmptySeq
    <3>3. QED
      BY <2>4, <3>1, <3>2
  <2>6. CASE draft[t][r] # Clean
    <3>1. draft[t][r] \in Nat /\ Amount(val'[r]) = draft[t][r]
      BY <2>1, <2>2, <2>6, ConstantsAssumption DEF TypeOK, Visible, Amount
    <3>2. Linked(sides[t][r], Amount(val[r]), draft[t][r])
      BY <2>6 DEF DraftInv
    <3>3. Linked(ledger[r] \o sides[t][r], Amount(Start[r]), draft[t][r])
      BY <2>3, <2>4, <3>1, <3>2, LinkedConcat
    <3>4. QED
      BY <2>2, <3>1, <3>3
  <2>7. QED
    BY <2>5, <2>6
<1>7. QED
  BY <1>2, <1>3, <1>4, <1>5, <1>6

\* A step that touches no row, lock or account.
LEMMA QuietPreserves ==
    ASSUME IInv, TypeOK', ProgramInv',
           UNCHANGED << val, lock, draft, sides, ledger >>
    PROVE  IInv'
<1>1. OwnerInv' /\ DraftInv' /\ LedgerAccountsForBalance'
  BY DEF IInv, OwnerInv, DraftInv, LedgerAccountsForBalance
<1>2. QED
  BY <1>1 DEF IInv

-----------------------------------------------------------------------------
(***************************************************************************)
(* One lemma per kind of action.                                            *)
(***************************************************************************)

LEMMA BeginPreserves ==
    ASSUME IInv, NEW t \in Tx, Begin(t)
    PROVE  IInv'
<1>1. TypeOK'
  BY ConstantsAssumption DEF IInv, TypeOK, Begin
<1>2. ProgramInv'
  <2>1. ASSUME NEW u \in Tx, pc'[u] = "insert"
        PROVE  pc[u] = "insert"
    BY <2>1 DEF Begin, IInv, TypeOK
  <2>2. QED
    BY <2>1 DEF ProgramInv, Current, Begin, IInv
<1>3. QED
  BY <1>1, <1>2, QuietPreserves DEF Begin

LEMMA StartMovementPreserves ==
    ASSUME IInv, NEW t \in Tx, StartMovement(t)
    PROVE  IInv'
<1> DEFINE m == asked[t][done[t] + 1]
<1>1. m \in {x \in Movements : Valid(x)}
  <2> DEFINE V == {x \in Movements : Valid(x)}
  <2>1. asked[t] \in Seq(V) /\ done[t] \in Nat /\ done[t] < Len(asked[t])
    BY DEF IInv, TypeOK, StartMovement
  <2> HIDE DEF V
  <2>2. asked[t][done[t] + 1] \in V
    BY <2>1
  <2>3. QED
    BY <2>2 DEF V
<1>2. StatementsOf(m) \in Seq(GoodStatements)
  BY <1>1, StatementsAreGood
<1>3. prog' \in [Tx -> Seq(GoodStatements)]
  BY <1>2 DEF IInv, ProgramInv, StartMovement
<1>4. TypeOK'
  <2>1. Seq(GoodStatements) \subseteq Seq(Statements)
    BY DEF GoodStatements
  <2>2. prog' \in [Tx -> Seq(Statements)]
    BY <1>3, <2>1
  <2>3. QED
    BY <2>2 DEF IInv, TypeOK, StartMovement
<1>5. ProgramInv'
  <2>1. ASSUME NEW u \in Tx, pc'[u] = "insert"
        PROVE  pc[u] = "insert" /\ prog'[u] = prog[u]
    BY <2>1 DEF StartMovement, IInv, TypeOK
  <2>2. QED
    BY <1>3, <2>1 DEF ProgramInv, Current, IInv
<1>6. QED
  BY <1>4, <1>5, QuietPreserves DEF StartMovement

LEMMA LockAndAdjustPreserves ==
    ASSUME IInv, NEW t \in Tx, LockAndAdjust(t)
    PROVE  IInv'
<1> DEFINE r == Current(t).row
           before == Visible(t, r)
<1>1. /\ prog[t] # << >> /\ before # NoRow /\ MayLock(t, r)
      /\ Sufficient(before, Current(t).delta) /\ Write(t, r, before)
  BY DEF LockAndAdjust, AtStatement
<1>2. Current(t) \in Statements
  <2>1. prog[t] \in Seq(Statements) /\ prog[t] # << >>
    BY <1>1 DEF IInv, TypeOK
  <2>2. QED
    BY <2>1 DEF Current
<1>3. r \in Rows
  BY <1>2 DEF Statements
<1>4. before \in Nat /\ before = Amount(before)
  BY <1>1, <1>3 DEF IInv, TypeOK, Visible, Quantity, Amount
<1>5. After(t, before) \in Nat
  BY <1>1, <1>2, <1>4 DEF After, Statements, Sufficient
<1>6. QED
  BY <1>1, <1>3, <1>4, <1>5, WritePreserves

LEMMA MissBatchRowPreserves ==
    ASSUME IInv, NEW t \in Tx, MissBatchRow(t)
    PROVE  IInv'
<1>1. TypeOK'
  BY DEF IInv, TypeOK, MissBatchRow
<1>2. ProgramInv'
  <2>1. ASSUME NEW u \in Tx, pc'[u] = "insert", u # t
        PROVE  pc[u] = "insert"
    BY <2>1 DEF MissBatchRow, IInv, TypeOK
  <2>2. prog[t] # << >> /\ Current(t).op = "adjust" /\ Current(t).delta > 0
    BY DEF MissBatchRow, AtStatement
  <2>3. QED
    BY <2>1, <2>2 DEF ProgramInv, Current, MissBatchRow, IInv
<1>3. QED
  BY <1>1, <1>2, QuietPreserves DEF MissBatchRow

LEMMA InsertBatchRowPreserves ==
    ASSUME IInv, NEW t \in Tx, InsertBatchRow(t)
    PROVE  IInv'
<1> DEFINE r == Current(t).row
<1>1. /\ MayLock(t, r) /\ Visible(t, r) = NoRow /\ Write(t, r, 0)
      /\ prog[t] # << >> /\ Current(t).delta > 0 /\ Current(t).op = "adjust"
  BY DEF InsertBatchRow, IInv, ProgramInv
<1>2. Current(t) \in Statements
  <2>1. prog[t] \in Seq(Statements) /\ prog[t] # << >>
    BY <1>1 DEF IInv, TypeOK
  <2>2. QED
    BY <2>1 DEF Current
<1>3. r \in Rows
  BY <1>2 DEF Statements
<1>4. After(t, 0) \in Nat /\ 0 \in Nat /\ 0 = Amount(Visible(t, r))
  BY <1>1, <1>2 DEF After, Statements, Amount
<1>5. QED
  BY <1>1, <1>3, <1>4, WritePreserves

LEMMA NextPreserves == IInv /\ [Next]_vars => IInv'
<1> SUFFICES ASSUME IInv, [Next]_vars PROVE IInv'
  OBVIOUS
<1>1. CASE UNCHANGED vars
  <2>1. TypeOK' /\ ProgramInv'
    BY <1>1 DEF vars, IInv, TypeOK, ProgramInv, Current
  <2>2. QED
    BY <1>1, <2>1, QuietPreserves DEF vars
<1>2. ASSUME NEW t \in Tx, Begin(t) \/ Step(t) \/ Disconnect(t)
      PROVE  IInv'
  <2>1. CASE Begin(t)
    BY <2>1, BeginPreserves
  <2>2. CASE StartMovement(t)
    BY <2>2, StartMovementPreserves
  <2>3. CASE LockAndAdjust(t)
    BY <2>3, LockAndAdjustPreserves
  <2>4. CASE RefuseInsufficient(t)
    BY <2>4, AbortPreserves DEF RefuseInsufficient
  <2>5. CASE MissBatchRow(t)
    BY <2>5, MissBatchRowPreserves
  <2>6. CASE InsertBatchRow(t)
    BY <2>6, InsertBatchRowPreserves
  <2>7. CASE InsertConflict(t)
    BY <2>7, AbortPreserves DEF InsertConflict
  <2>8. CASE RejectMovement(t)
    BY <2>8, AbortPreserves DEF RejectMovement
  <2>9. CASE Commit(t)
    BY <2>9, CommitPreserves
  <2>10. CASE DeadlockVictim(t)
    BY <2>10, AbortPreserves DEF DeadlockVictim
  <2>11. CASE Disconnect(t)
    BY <2>11, AbortPreserves DEF Disconnect
  <2>12. QED
    BY <1>2, <2>1, <2>2, <2>3, <2>4, <2>5, <2>6, <2>7, <2>8, <2>9, <2>10,
       <2>11 DEF Step
<1>3. QED
  BY <1>1, <1>2 DEF Next

-----------------------------------------------------------------------------
\* The inductive invariant holds in every reachable state.
THEOREM Inductive == Spec => []IInv
<1>1. QED
  BY InitEstablishes, NextPreserves, PTL DEF Spec

\* Every variable keeps its type; in particular no balance, committed or
\* drafted, is ever negative, whatever the requests and their interleaving.
THEOREM TypeCorrect == Spec => []TypeOK
<1>1. IInv => TypeOK
  BY DEF IInv
<1>2. QED
  BY <1>1, Inductive, PTL

\* The stock movements of a row account for its balance (movement.ts records
\* the quantities before and after under the lock balance.ts takes).
THEOREM LedgerAccounts == Spec => []LedgerAccountsForBalance
<1>1. IInv => LedgerAccountsForBalance
  BY DEF IInv
<1>2. QED
  BY <1>1, Inductive, PTL

-----------------------------------------------------------------------------
(***************************************************************************)
(* The total of a batch product is the sum of its batch rows.               *)
(***************************************************************************)

\* What a statement changes in the difference between the total of product p
\* and its batch rows, and what the statements of q change together.
Weight(s, p) ==
    IF s.op # "adjust" THEN 0
    ELSE IF s.row = p THEN s.delta
    ELSE IF s.row \in SlotsOf(p) THEN 0 - s.delta
    ELSE 0
Weights(q, p) == [i \in 1 .. Len(q) |-> Weight(q[i], p)]
Owed(q, p) == SumFunctionOnSet(Weights(q, p), 1 .. Len(q))

LEMMA WeightIsInt ==
    ASSUME NEW s \in Statements, NEW p
    PROVE  Weight(s, p) \in Int
BY DEF Weight, Statements

LEMMA WeightsAreInt ==
    ASSUME NEW q \in Seq(Statements), NEW p
    PROVE  /\ IsFiniteSet(1 .. Len(q)) /\ Len(q) \in Nat
           /\ \A i \in 1 .. Len(q) : Weights(q, p)[i] \in Int
<1>1. Len(q) \in Nat /\ \A i \in 1 .. Len(q) : q[i] \in Statements
  OBVIOUS
<1>2. IsFiniteSet(1 .. Len(q))
  BY <1>1, FS_Interval
<1>3. ASSUME NEW i \in 1 .. Len(q) PROVE Weights(q, p)[i] \in Int
  BY <1>1, WeightIsInt DEF Weights
<1>4. QED
  BY <1>1, <1>2, <1>3

LEMMA OwedIsInt ==
    ASSUME NEW q \in Seq(Statements), NEW p
    PROVE  Owed(q, p) \in Int
BY WeightsAreInt, SumIsInt DEF Owed

LEMMA NothingOwed ==
    ASSUME NEW p PROVE Owed(<< >>, p) = 0
<1>1. 1 .. Len(<< >>) = {}
  OBVIOUS
<1>2. QED
  BY <1>1, SumOfNothing DEF Owed

\* Sequences of statements in turn.
LEMMA OwedConcat ==
    ASSUME NEW q \in Seq(Statements), NEW r \in Seq(Statements), NEW p
    PROVE  Owed(q \o r, p) = Owed(q, p) + Owed(r, p)
<1> DEFINE m == Len(q)
           k == Len(r)
           f == Weights(q \o r, p)
           b == [i \in 1 .. k |-> i + m]
<1>1. /\ q \o r \in Seq(Statements) /\ Len(q \o r) = m + k /\ m \in Nat /\ k \in Nat
      /\ \A i \in 1 .. m : (q \o r)[i] = q[i]
      /\ \A i \in 1 .. k : (q \o r)[i + m] = r[i]
  BY ConcatProperties
<1>2. \A i \in 1 .. m + k : f[i] \in Int
  BY <1>1, WeightsAreInt
<1>3. /\ \A i \in 1 .. k : b[i] \in (m + 1) .. (m + k)
      /\ \A j \in (m + 1) .. (m + k) : \E i \in 1 .. k : b[i] = j
  <2>1. ASSUME NEW j \in (m + 1) .. (m + k) PROVE \E i \in 1 .. k : b[i] = j
    <3>1. j - m \in 1 .. k /\ b[j - m] = j
      BY <1>1
    <3>2. QED
      BY <3>1
  <2>2. QED
    BY <1>1, <2>1
<1>4. IsFiniteSet(1 .. m) /\ IsFiniteSet(1 .. k) /\ IsFiniteSet((m + 1) .. (m + k))
  BY <1>1, FS_Interval
<1>5. SumFunctionOnSet(f, 1 .. m) = Owed(q, p)
  <2>1. \A i \in 1 .. m : f[i] = Weights(q, p)[i]
    BY <1>1 DEF Weights
  <2>2. QED
    BY <1>4, <2>1, SumDependsOnValues DEF Owed
<1>6. SumFunctionOnSet(f, (m + 1) .. (m + k)) = Owed(r, p)
  <2>1. \A i \in 1 .. k : Weights(r, p)[i] = f[b[i]]
    BY <1>1 DEF Weights
  <2>2. \A i, j \in 1 .. k : b[i] = b[j] => i = j
    BY <1>1
  <2>3. \A i \in 1 .. k : Weights(r, p)[i] \in Int
    BY WeightsAreInt
  <2> DEFINE U == (m + 1) .. (m + k)
             S == 1 .. k
             g == Weights(r, p)
  <2>4. /\ IsFiniteSet(S)
        /\ \A i \in S : b[i] \in U
        /\ \A j \in U : \E i \in S : b[i] = j
        /\ \A i, j \in S : b[i] = b[j] => i = j
        /\ \A i \in S : g[i] = f[b[i]] /\ g[i] \in Int
    BY <1>3, <1>4, <2>1, <2>2, <2>3
  <2> HIDE DEF f, b, U, S, g
  <2>6. SumFunctionOnSet(f, U) = SumFunctionOnSet(g, S)
    BY <2>4, SumRenamed
  <2>7. QED
    BY <2>6 DEF Owed, U, S, g
<1>7. Owed(q \o r, p)
        = SumFunctionOnSet(f, 1 .. m) + SumFunctionOnSet(f, (m + 1) .. (m + k))
  <2>1. /\ 1 .. (m + k) = (1 .. m) \cup ((m + 1) .. (m + k))
        /\ (1 .. m) \cap ((m + 1) .. (m + k)) = {}
    BY <1>1
  <2>2. \A i \in (1 .. m) \cup ((m + 1) .. (m + k)) : f[i] \in Int
    BY <1>1, <1>2
  <2>3. Owed(q \o r, p) = SumFunctionOnSet(f, 1 .. (m + k))
    BY <1>1 DEF Owed
  <2> HIDE DEF f
  <2>4. SumFunctionOnSet(f, (1 .. m) \cup ((m + 1) .. (m + k)))
          = SumFunctionOnSet(f, 1 .. m) + SumFunctionOnSet(f, (m + 1) .. (m + k))
    BY <1>4, <2>1, <2>2, SumOfUnion
  <2>5. QED
    BY <2>1, <2>3, <2>4
<1>8. QED
  BY <1>5, <1>6, <1>7

LEMMA OwedOne ==
    ASSUME NEW s \in Statements, NEW p
    PROVE  Owed(<< s >>, p) = Weight(s, p)
<1> DEFINE f == Weights(<< s >>, p)
<1>1. << s >> \in Seq(Statements) /\ Len(<< s >>) = 1 /\ f[1] = Weight(s, p)
  BY DEF Weights
<1>2. IsFiniteSet({1}) /\ {1} \ {1} = {} /\ 1 .. 1 = {1}
  <2>1. IsFiniteSet({1})
    BY FS_Singleton
  <2>2. QED
    BY <2>1
<1>3. Weight(s, p) \in Int
  BY WeightIsInt
<1> HIDE DEF f
<1>4. SumFunctionOnSet(f, {1}) = f[1] + SumFunctionOnSet(f, {1} \ {1})
  BY <1>1, <1>2, <1>3, SumWithout
<1>5. SumFunctionOnSet(f, {}) = 0
  BY SumOfNothing
<1>6. SumFunctionOnSet(f, {1}) = Weight(s, p)
  BY <1>1, <1>2, <1>3, <1>4, <1>5
<1>7. QED
  BY <1>1, <1>2, <1>6 DEF Owed, f

LEMMA OwedFirst ==
    ASSUME NEW q \in Seq(Statements), q # << >>, NEW p
    PROVE  Owed(q, p) = Weight(Head(q), p) + Owed(Tail(q), p)
<1>1. Head(q) \in Statements /\ Tail(q) \in Seq(Statements) /\ q = << Head(q) >> \o Tail(q)
  BY HeadTailProperties
<1> DEFINE h == << Head(q) >>
           r == Tail(q)
<1>2. h \in Seq(Statements) /\ r \in Seq(Statements) /\ q = h \o r
  BY <1>1
<1>3. Owed(h, p) = Weight(Head(q), p)
  BY <1>1, OwedOne
<1> HIDE DEF h, r
<1>4. Owed(h \o r, p) = Owed(h, p) + Owed(r, p)
  BY <1>2, OwedConcat
<1>5. QED
  BY <1>2, <1>3, <1>4 DEF r

LEMMA OwedTwo ==
    ASSUME NEW s \in Statements, NEW x \in Statements, NEW p
    PROVE  Owed(<< s, x >>, p) = Weight(s, p) + Weight(x, p)
<1>1. /\ << s, x >> \in Seq(Statements) /\ << s, x >> # << >>
      /\ Head(<< s, x >>) = s /\ Tail(<< s, x >>) = << x >>
  OBVIOUS
<1>2. QED
  BY <1>1, OwedFirst, OwedOne

\* The statements of a valid movement owe nothing: what they change in the
\* batch rows they change in the total, and a transfer gives what it takes.
LEMMA AdjustOwes ==
    ASSUME NEW m \in Movements, NEW slot, NEW delta \in Int, NEW p \in BatchProducts,
           m.product \in BatchProducts => slot \in SlotsOf(m.product)
    PROVE  /\ Adjust(m, slot, delta) \in Seq(Statements)
           /\ Owed(Adjust(m, slot, delta), p)
                = IF SkipProductBalance(m) /\ p = m.product THEN -delta ELSE 0
<1> DEFINE first == Statement("adjust", slot, delta, TRUE, m)
           plain == Statement("adjust", m.product, delta, TRUE, m)
           second == Statement("adjust", m.product, delta, FALSE, m)
<1>1. /\ m.product \in Rows /\ m.product \notin Slots
      /\ p \notin Slots /\ p \notin PlainProducts
      /\ SlotsOf(p) \subseteq Slots
  BY ConstantsAssumption DEF Movements, Rows, Products, SlotsOf
<1>2. plain \in Statements /\ second \in Statements
  BY <1>1 DEF Statement, Statements, Movements
<1>3. CASE m.product \in PlainProducts
  <2>1. Weight(plain, p) = 0
    BY <1>1, <1>3 DEF Weight, Statement
  <2>2. Adjust(m, slot, delta) = << plain >> /\ ~SkipProductBalance(m)
    BY <1>1, <1>3, ConstantsAssumption DEF Adjust, SkipProductBalance
  <2>3. Owed(<< plain >>, p) = 0
    BY <1>2, <2>1, OwedOne
  <2>4. << plain >> \in Seq(Statements)
    BY <1>2, ShortSequences
  <2> HIDE DEF plain
  <2>5. QED
    BY <2>2, <2>3, <2>4
<1>4. CASE m.product \notin PlainProducts
  <2>1. m.product \in BatchProducts /\ slot \in SlotsOf(m.product) /\ slot \in Slots
    BY <1>4 DEF Movements, Products, SlotsOf
  <2>2. first \in Statements
    BY <2>1 DEF Statement, Statements, Movements, Rows
  <2>3. /\ Weight(first, p) = IF p = m.product THEN -delta ELSE 0
        /\ Weight(second, p) = IF p = m.product THEN delta ELSE 0
    BY <1>1, <2>1 DEF Weight, Statement, SlotsOf
  <2>4. CASE SkipProductBalance(m)
    <3>1. Adjust(m, slot, delta) = << first >>
      BY <1>4, <2>4 DEF Adjust
    <3>2. << first >> \in Seq(Statements) /\ Owed(<< first >>, p) = Weight(first, p)
      BY <2>2, ShortSequences, OwedOne
    <3> HIDE DEF first
    <3>3. QED
      BY <2>3, <2>4, <3>1, <3>2
  <2>5. CASE ~SkipProductBalance(m)
    <3>1. Adjust(m, slot, delta) = << first, second >>
      BY <1>4, <2>5 DEF Adjust
    <3>2. /\ << first, second >> \in Seq(Statements)
          /\ Owed(<< first, second >>, p) = Weight(first, p) + Weight(second, p)
      BY <1>2, <2>2, ShortSequences, OwedTwo
    <3> HIDE DEF first, second
    <3>3. QED
      BY <2>3, <2>5, <3>1, <3>2
  <2>6. QED
    BY <2>4, <2>5
<1>5. QED
  BY <1>3, <1>4

LEMMA MovementOwesNothing ==
    ASSUME NEW m \in Movements, Valid(m), NEW p \in BatchProducts
    PROVE  StatementsOf(m) \in Seq(Statements) /\ Owed(StatementsOf(m), p) = 0
<1> DEFINE S(op, delta, logged) == Statement(op, m.product, delta, logged, m)
           logged == /\ m.product \in PlainProducts
                     /\ m.type \in DecreaseTypes \cup IncreaseTypes
           only == << S("adjust", 0, logged) >>
           transferred == m.type = "TRANSFERENCIA"
           check == IF m.checked THEN << S("assert", -m.quantity, FALSE) >> ELSE << >>
           taken == IF m.type \in DecreaseTypes
                    THEN Adjust(m, m.from, -m.quantity) ELSE << >>
           given == IF m.type \in IncreaseTypes
                    THEN Adjust(m, m.to, m.quantity) ELSE << >>
           refused == IF transferred /\ ~TransferAccepted(m)
                      THEN << S("reject", 0, FALSE) >> ELSE << >>
           Free(q) == q \in Seq(Statements) /\ Owed(q, p) = 0
<1>1. /\ m.product \in Rows /\ m.quantity \in Int /\ -m.quantity \in Int
      /\ m.product \in PlainProducts \cup BatchProducts /\ 0 \in Int
  BY DEF Movements, Rows, Products
<1>2. Free(<< >>)
  BY NothingOwed
<1>3. ASSUME NEW op \in {"assert", "adjust", "reject"}, NEW delta \in Int, NEW b \in BOOLEAN,
             op # "adjust" \/ delta = 0
      PROVE  Free(<< S(op, delta, b) >>)
  <2>1. S(op, delta, b) \in Statements /\ Weight(S(op, delta, b), p) = 0
    BY <1>1, <1>3 DEF Statement, Statements, Movements, Weight
  <2> HIDE DEF S
  <2>2. QED
    BY <2>1, ShortSequences, OwedOne
<1>4. ASSUME NEW q, NEW r, Free(q), r \in Seq(Statements) PROVE Owed(q \o r, p) = Owed(r, p) /\ q \o r \in Seq(Statements)
  <2>1. Owed(r, p) \in Int
    BY <1>4, OwedIsInt
  <2>2. QED
    BY <1>4, <2>1, OwedConcat, ConcatProperties
<1>5. Free(only)
  <2>1. logged \in BOOLEAN
    BY Zenon
  <2> HIDE DEF logged, S, Free
  <2>2. QED
    BY <1>3, <2>1
<1>6. Free(check)
  <2> HIDE DEF S, Free
  <2>1. QED
    BY <1>1, <1>2, <1>3
<1>7. Free(refused)
  <2> HIDE DEF S, Free, transferred
  <2>1. QED
    BY <1>1, <1>2, <1>3
<1>8. CASE m.recordOnly
  BY <1>5, <1>8 DEF StatementsOf
<1>9. CASE ~m.recordOnly /\ transferred /\ m.product \in PlainProducts
  <2>1. StatementsOf(m) = only \o refused
    BY <1>9 DEF StatementsOf
  <2> HIDE DEF only, refused
  <2>2. QED
    BY <1>4, <1>5, <1>7, <2>1
<1>10. CASE ~m.recordOnly /\ ~(transferred /\ m.product \in PlainProducts)
  <2>1. /\ m.type \in DecreaseTypes /\ m.product \in BatchProducts => m.from \in SlotsOf(m.product)
        /\ m.type \in IncreaseTypes /\ m.product \in BatchProducts => m.to \in SlotsOf(m.product)
    BY <1>10, ConstantsAssumption DEF Valid, BelongsTo, SlotsOf
  <2>2. /\ taken \in Seq(Statements)
        /\ Owed(taken, p) = IF m.type \in DecreaseTypes /\ SkipProductBalance(m) /\ p = m.product
                            THEN m.quantity ELSE 0
    <3>1. CASE m.type \in DecreaseTypes
      <4>1. /\ Adjust(m, m.from, -m.quantity) \in Seq(Statements)
            /\ Owed(Adjust(m, m.from, -m.quantity), p)
                 = IF SkipProductBalance(m) /\ p = m.product THEN -(-m.quantity) ELSE 0
        BY <1>1, <2>1, <3>1, AdjustOwes
      <4>2. QED
        BY <1>1, <3>1, <4>1
    <3>2. CASE m.type \notin DecreaseTypes
      BY <1>2, <3>2
    <3>3. QED
      BY <3>1, <3>2
  <2>3. /\ given \in Seq(Statements)
        /\ Owed(given, p) = IF m.type \in IncreaseTypes /\ SkipProductBalance(m) /\ p = m.product
                            THEN -m.quantity ELSE 0
    <3>1. CASE m.type \in IncreaseTypes
      <4>1. /\ Adjust(m, m.to, m.quantity) \in Seq(Statements)
            /\ Owed(Adjust(m, m.to, m.quantity), p)
                 = IF SkipProductBalance(m) /\ p = m.product THEN -m.quantity ELSE 0
        BY <1>1, <2>1, <3>1, AdjustOwes
      <4>2. QED
        BY <1>1, <3>1, <4>1
    <3>2. CASE m.type \notin IncreaseTypes
      BY <1>2, <3>2
    <3>3. QED
      BY <3>1, <3>2
  <2>4. SkipProductBalance(m) => m.type \in DecreaseTypes /\ m.type \in IncreaseTypes
    BY DEF SkipProductBalance, DecreaseTypes, IncreaseTypes
  <2>5. StatementsOf(m) = (check \o (taken \o given)) \o refused
    BY <1>10 DEF StatementsOf
  <2> HIDE DEF taken, given, check, refused
  <2>6. Free(taken \o given)
    <3>1. taken \o given \in Seq(Statements) /\ Owed(taken \o given, p) = Owed(taken, p) + Owed(given, p)
      BY <2>2, <2>3, OwedConcat, ConcatProperties
    <3>2. Owed(taken, p) + Owed(given, p) = 0
      BY <1>1, <2>2, <2>3, <2>4
    <3>3. QED
      BY <3>1, <3>2
  <2>7. Free(check \o (taken \o given))
    BY <1>4, <1>6, <2>6
  <2>8. QED
    BY <1>4, <1>7, <2>5, <2>7
<1>11. QED
  BY <1>8, <1>9, <1>10

-----------------------------------------------------------------------------
\* What a transaction with drafts d changes in row r of the balances v, and
\* that its changes and the statements it has left treat total and rows alike.
Change(d, v, r) == IF d[r] = Clean THEN 0 ELSE Amount(d[r]) - Amount(v[r])
Changes(d, v) == [s \in Slots |-> Change(d, v, s)]
Balanced(q, d, v) ==
    \A p \in BatchProducts :
        Change(d, v, p) + Owed(q, p) = SumFunctionOnSet(Changes(d, v), SlotsOf(p))

Drafts == [Rows -> Quantity \cup {Clean}]
Balances == [Rows -> Quantity]

LEMMA SlotsAreFinite ==
    ASSUME NEW p
    PROVE  IsFiniteSet(SlotsOf(p)) /\ SlotsOf(p) \subseteq Slots /\ SlotsOf(p) \subseteq Rows
<1>1. IsFiniteSet(Batches \X Locations)
  BY ConstantsAssumption, FS_Product
<1>2. SlotsOf(p) \subseteq Slots /\ Slots = Batches \X Locations
  BY DEF SlotsOf, Slots
<1>3. QED
  BY <1>1, <1>2, FS_Subset DEF Rows

LEMMA ChangeIsInt ==
    ASSUME NEW d \in Drafts, NEW v \in Balances, NEW r \in Rows
    PROVE  Change(d, v, r) \in Int
BY DEF Change, Drafts, Balances, Amount, Quantity

\* Balance depends only on what is changed and on what is owed.
LEMMA BalancedSame ==
    ASSUME NEW q, NEW d, NEW v, NEW r, NEW e, NEW w, Balanced(q, d, v),
           \A x \in Rows : Change(e, w, x) = Change(d, v, x),
           \A p \in BatchProducts : Owed(r, p) = Owed(q, p)
    PROVE  Balanced(r, e, w)
<1>1. Changes(e, w) = Changes(d, v)
  BY DEF Changes, Rows
<1>2. \A p \in BatchProducts : p \in Rows
  BY DEF Rows, Products
<1>3. QED
  BY <1>1, <1>2 DEF Balanced

LEMMA BalancedAtRest ==
    ASSUME NEW q, NEW d, NEW v, \A x \in Rows : d[x] = Clean,
           \A p \in BatchProducts : Owed(q, p) = 0
    PROVE  Balanced(q, d, v)
<1>1. ASSUME NEW p \in BatchProducts
      PROVE  SumFunctionOnSet(Changes(d, v), SlotsOf(p)) = 0
  <2>1. \A s \in SlotsOf(p) : Changes(d, v)[s] = 0
    BY SlotsAreFinite DEF Changes, Change
  <2>2. QED
    BY <2>1, SlotsAreFinite, SumOfZeros
<1>2. \A p \in BatchProducts : Change(d, v, p) = 0
  BY DEF Change, Rows, Products
<1>3. QED
  BY <1>1, <1>2 DEF Balanced

\* A statement moves what is owed into the changes.
LEMMA BalancedWrite ==
    ASSUME NEW q \in Seq(Statements), q # << >>,
           NEW d \in Drafts, NEW v \in Balances, NEW a \in Quantity,
           Balanced(q, d, v),
           Amount(a) - Amount(v[Head(q).row])
             = Change(d, v, Head(q).row)
                 + (IF Head(q).op = "adjust" THEN Head(q).delta ELSE 0)
    PROVE  Balanced(Tail(q), [d EXCEPT ![Head(q).row] = a], v)
<1> DEFINE s == Head(q)
           r == s.row
           e == [d EXCEPT ![r] = a]
           g == IF s.op = "adjust" THEN s.delta ELSE 0
<1>1. /\ s \in Statements /\ Tail(q) \in Seq(Statements) /\ r \in Rows /\ g \in Int
      /\ s.delta \in Int
  <2>1. Head(q) \in Statements /\ Tail(q) \in Seq(Statements)
    BY HeadTailProperties
  <2>2. QED
    BY <2>1 DEF Statements
<1>2. e \in Drafts
  BY <1>1 DEF Drafts
<1>3. /\ Change(e, v, r) = Change(d, v, r) + g
      /\ \A x \in Rows \ {r} : Change(e, v, x) = Change(d, v, x)
  <2>1. e[r] = a /\ a # Clean /\ \A x \in Rows \ {r} : e[x] = d[x]
    BY <1>1, ConstantsAssumption DEF Drafts
  <2>2. QED
    BY <2>1 DEF Change
<1>4. ASSUME NEW p \in BatchProducts
      PROVE  Change(e, v, p) + Owed(Tail(q), p)
               = SumFunctionOnSet(Changes(e, v), SlotsOf(p))
  <2> DEFINE D == SumFunctionOnSet(Changes(d, v), SlotsOf(p))
             E == SumFunctionOnSet(Changes(e, v), SlotsOf(p))
  <2>1. /\ \A x \in SlotsOf(p) : Changes(d, v)[x] = Change(d, v, x)
                                 /\ Changes(d, v)[x] \in Int
        /\ \A x \in SlotsOf(p) : Changes(e, v)[x] = Change(e, v, x)
                                 /\ Changes(e, v)[x] \in Int
    <3>1. SlotsOf(p) \subseteq Slots /\ SlotsOf(p) \subseteq Rows
      BY SlotsAreFinite
    <3>2. QED
      BY <1>2, <3>1, ChangeIsInt DEF Changes
  <2>2. p \in Rows /\ p \notin SlotsOf(p)
    BY SlotsAreFinite, ConstantsAssumption DEF Rows, Products
  <2>3. Change(d, v, p) + Owed(q, p) = D
    BY DEF Balanced
  <2>4. Owed(q, p) = Weight(s, p) + Owed(Tail(q), p)
    BY OwedFirst
  <2>5. /\ Owed(Tail(q), p) \in Int /\ Weight(s, p) \in Int
        /\ Change(d, v, p) \in Int /\ Change(e, v, p) \in Int
    BY <1>1, <1>2, <2>2, OwedIsInt, WeightIsInt, ChangeIsInt
  <2>6. IsFiniteSet(SlotsOf(p))
    BY SlotsAreFinite
  <2> HIDE DEF s, e, g, r
  <2>7. D \in Int
    BY <2>1, <2>6, SumIsInt
  <2>8. CASE r \in SlotsOf(p)
    <3>1. \A x \in SlotsOf(p) \ {r} : Changes(e, v)[x] = Changes(d, v)[x]
      BY <1>3, <2>1, SlotsAreFinite
    <3>2. E = D + Changes(e, v)[r] - Changes(d, v)[r]
      BY <2>1, <2>6, <2>8, <3>1, SumOfUpdate
    <3>3. E = D + g
      BY <1>1, <1>3, <2>1, <2>7, <2>8, <3>2
    <3>4. Weight(s, p) = -g /\ Change(e, v, p) = Change(d, v, p)
      BY <1>1, <1>3, <2>2, <2>8 DEF Weight, g, r
    <3>5. QED
      BY <1>1, <2>3, <2>4, <2>5, <2>7, <3>3, <3>4
  <2>9. CASE r \notin SlotsOf(p)
    <3>1. \A x \in SlotsOf(p) : Changes(e, v)[x] = Changes(d, v)[x]
      BY <1>3, <2>1, <2>9, SlotsAreFinite
    <3>2. E = D
      BY <2>6, <3>1, SumDependsOnValues
    <3>3. Change(e, v, p) = Change(d, v, p) + Weight(s, p)
      BY <1>1, <1>3, <2>2, <2>5, <2>9 DEF Weight, g, r
    <3>4. QED
      BY <2>3, <2>4, <2>5, <2>7, <3>2, <3>3
  <2>10. QED
    BY <2>8, <2>9
<1>5. QED
  BY <1>4 DEF Balanced

\* Publishing balanced drafts keeps the totals right.
LEMMA PublishMatches ==
    ASSUME NEW d \in Drafts, NEW v \in Balances, NEW w,
           \A p \in BatchProducts : v[p] # NoRow /\ d[p] # NoRow,
           Balanced(<< >>, d, v), TotalsMatch(v),
           w = [r \in Rows |-> IF d[r] # Clean THEN d[r] ELSE v[r]]
    PROVE  TotalsMatch(w)
<1>1. \A r \in Rows : /\ Amount(w[r]) = Amount(v[r]) + Change(d, v, r)
                      /\ Amount(v[r]) \in Int /\ Amount(w[r]) \in Int
                      /\ Change(d, v, r) \in Int
  <2> SUFFICES ASSUME NEW r \in Rows
               PROVE  /\ Amount(w[r]) = Amount(v[r]) + Change(d, v, r)
                      /\ Amount(v[r]) \in Int /\ Amount(w[r]) \in Int
                      /\ Change(d, v, r) \in Int
    OBVIOUS
  <2>1. Amount(v[r]) \in Int /\ w[r] = IF d[r] # Clean THEN d[r] ELSE v[r]
    BY DEF Balances, Amount, Quantity
  <2>2. CASE d[r] = Clean
    BY <2>1, <2>2 DEF Change
  <2>3. CASE d[r] # Clean
    <3>1. Amount(d[r]) \in Int
      BY <2>3 DEF Drafts, Amount, Quantity
    <3>2. QED
      BY <2>1, <2>3, <3>1 DEF Change
  <2>4. QED
    BY <2>2, <2>3
<1>2. ASSUME NEW p \in BatchProducts PROVE w[p] = InBatches(w, p)
  <2> DEFINE V == [s \in Slots |-> Amount(v[s])]
             W == [s \in Slots |-> Amount(w[s])]
  <2>1. p \in Rows /\ Amount(v[p]) = v[p] /\ Amount(w[p]) = w[p]
    BY DEF Rows, Products, Amount
  <2>2. \A s \in SlotsOf(p) : /\ V[s] \in Int /\ Changes(d, v)[s] \in Int
                              /\ W[s] = V[s] + Changes(d, v)[s]
    <3>1. SlotsOf(p) \subseteq Slots /\ SlotsOf(p) \subseteq Rows
      BY SlotsAreFinite
    <3>2. QED
      BY <1>1, <3>1 DEF Changes
  <2>3. v[p] = SumFunctionOnSet(V, SlotsOf(p))
    BY DEF TotalsMatch, InBatches
  <2>4. Change(d, v, p) = SumFunctionOnSet(Changes(d, v), SlotsOf(p))
    <3>1. Owed(<< >>, p) = 0 /\ Change(d, v, p) \in Int
      BY <1>1, <2>1, NothingOwed
    <3>2. QED
      BY <3>1 DEF Balanced
  <2> HIDE DEF V, W
  <2>5. \A s \in SlotsOf(p) : W[s] \in Int
    BY <2>2
  <2>6. SumFunctionOnSet(W, SlotsOf(p))
          = SumFunctionOnSet(V, SlotsOf(p)) + SumFunctionOnSet(Changes(d, v), SlotsOf(p))
    BY <2>2, SlotsAreFinite, SumOfSums
  <2>7. w[p] = SumFunctionOnSet(W, SlotsOf(p))
    BY <1>1, <2>1, <2>3, <2>4, <2>6
  <2>8. QED
    BY <2>7 DEF InBatches, W
<1>3. QED
  BY <1>2 DEF TotalsMatch

-----------------------------------------------------------------------------
(***************************************************************************)
(* The invariant both specifications share: movements alone, and movements  *)
(* next to the maintenance of batch balances, which may delete a row.       *)
(***************************************************************************)

RowTypes ==
    /\ pc \in [Tx -> {"new", "read", "run", "insert", "committed", "aborted"}]
    /\ asked \in [Tx -> Seq({m \in Movements : Valid(m)})]
    /\ done \in [Tx -> Nat]
    /\ prog \in [Tx -> Seq(Statements)]
    /\ val \in [Rows -> Quantity]
    /\ lock \in [Rows -> Tx \cup {NoTx}]
    /\ draft \in [Tx -> [Rows -> Quantity \cup {Clean}]]

\* Products always have their row.
TotalsExist ==
    \A p \in BatchProducts : val[p] # NoRow /\ \A t \in Tx : draft[t][p] # NoRow

\* A transaction writes only rows whose lock it holds, and nothing before it
\* begins.
Holding == \A t \in Tx, r \in Rows : draft[t][r] # Clean => lock[r] = t
Untouched ==
    \A t \in Tx : pc[t] \in {"new", "read"} =>
        prog[t] = << >> /\ \A r \in Rows : draft[t][r] = Clean

\* A transaction about to insert stands before the increase of a batch row.
Inserting ==
    \A t \in Tx : pc[t] = "insert" =>
        prog[t] # << >> /\ Current(t).op = "adjust" /\ Current(t).delta >= 0

RowInv == RowTypes /\ TotalsExist /\ Holding /\ Untouched /\ Inserting

\* Every transaction treats total and batch rows alike.
TotalsKept ==
    BatchRowsMatchTotal /\ \A t \in Tx : Balanced(prog[t], draft[t], val)

LEMMA ChangeOfHeld ==
    ASSUME NEW t \in Tx, NEW u \in Tx \ {t}, NEW r \in Rows, Holding,
           draft[u][r] # Clean
    PROVE  draft[t][r] = Clean
BY DEF Holding

LEMMA InitKeepsTotals == Init => RowInv /\ TotalsKept
<1> SUFFICES ASSUME Init PROVE RowInv /\ TotalsKept
  OBVIOUS
<1>1. RowInv
  <2>1. << >> \in Seq(Statements) /\ << >> \in Seq({m \in Movements : Valid(m)})
    OBVIOUS
  <2>2. \A p \in BatchProducts : p \in Rows /\ Start[p] # NoRow
    BY ConstantsAssumption DEF Rows, Products
  <2>3. RowTypes
    BY <2>1, ConstantsAssumption DEF Init, RowTypes
  <2>4. TotalsExist
    <3>1. Clean # NoRow
      BY ConstantsAssumption DEF Quantity
    <3>2. QED
      BY <2>2, <3>1 DEF Init, TotalsExist
  <2>5. Holding /\ Untouched /\ Inserting
    BY DEF Init, Holding, Untouched, Inserting
  <2>6. QED
    BY <2>3, <2>4, <2>5 DEF RowInv
<1>2. BatchRowsMatchTotal
  BY StartAssumption DEF Init, BatchRowsMatchTotal
<1>3. ASSUME NEW t \in Tx PROVE Balanced(prog[t], draft[t], val)
  <2>1. prog[t] = << >> /\ \A r \in Rows : draft[t][r] = Clean
    BY DEF Init
  <2>2. QED
    BY <2>1, NothingOwed, BalancedAtRest
<1>4. QED
  BY <1>1, <1>2, <1>3 DEF TotalsKept

LEMMA AbortKeepsTotals ==
    ASSUME RowInv, NEW t \in Tx, Abort(t)
    PROVE  RowInv' /\ (TotalsKept => TotalsKept')
<1>1. RowInv'
  <2>1. << >> \in Seq(Statements)
    OBVIOUS
  <2>2. RowTypes'
    BY <2>1 DEF RowInv, RowTypes, Abort
  <2>3. TotalsExist'
    <3>1. Clean # NoRow /\ \A p \in BatchProducts : p \in Rows
      BY ConstantsAssumption DEF Quantity, Rows, Products
    <3>2. QED
      BY <3>1 DEF RowInv, RowTypes, TotalsExist, Abort
  <2>4. Holding'
    BY DEF RowInv, RowTypes, Holding, Abort
  <2>5. Untouched'
    BY DEF RowInv, RowTypes, Untouched, Abort
  <2>6. Inserting'
    BY DEF RowInv, RowTypes, Inserting, Abort, Current
  <2>7. QED
    BY <2>2, <2>3, <2>4, <2>5, <2>6 DEF RowInv
<1>2. ASSUME TotalsKept PROVE TotalsKept'
  <2>1. ASSUME NEW u \in Tx PROVE Balanced(prog'[u], draft'[u], val')
    <3>1. CASE u = t
      <4>1. prog'[t] = << >> /\ \A r \in Rows : draft'[t][r] = Clean
        BY DEF Abort, RowInv, RowTypes
      <4>2. QED
        BY <3>1, <4>1, NothingOwed, BalancedAtRest
    <3>2. CASE u # t
      <4>1. prog'[u] = prog[u] /\ draft'[u] = draft[u] /\ val' = val
        BY <3>2 DEF Abort, RowInv, RowTypes
      <4>2. QED
        BY <1>2, <4>1 DEF TotalsKept
    <3>3. QED
      BY <3>1, <3>2
  <2>2. BatchRowsMatchTotal'
    BY <1>2 DEF TotalsKept, BatchRowsMatchTotal, Abort
  <2>3. QED
    BY <2>1, <2>2 DEF TotalsKept
<1>3. QED
  BY <1>1, <1>2

\* A write under the lock.
LEMMA WriteKeepsTotals ==
    ASSUME RowInv, NEW t \in Tx, prog[t] # << >>, pc[t] \in {"run", "insert"},
           NEW before \in Nat, before = Amount(Visible(t, Current(t).row)),
           Current(t).op \in {"assert", "adjust"},
           MayLock(t, Current(t).row), After(t, before) \in Nat,
           Write(t, Current(t).row, before)
    PROVE  RowInv' /\ (TotalsKept => TotalsKept')
<1> DEFINE s == Current(t)
           r == s.row
           a == After(t, before)
<1>1. /\ s \in Statements /\ Tail(prog[t]) \in Seq(Statements) /\ r \in Rows
      /\ prog[t] \in Seq(Statements) /\ s = Head(prog[t])
  <2>1. prog[t] \in Seq(Statements)
    BY DEF RowInv, RowTypes
  <2>2. Head(prog[t]) \in Statements /\ Tail(prog[t]) \in Seq(Statements)
    BY <2>1, HeadTailProperties
  <2>3. QED
    BY <2>1, <2>2 DEF Statements, Current
<1>2. /\ draft' = [draft EXCEPT ![t][r] = a] /\ lock' = [lock EXCEPT ![r] = t]
      /\ prog' = [prog EXCEPT ![t] = Tail(@)] /\ pc' = [pc EXCEPT ![t] = "run"]
      /\ asked' = asked /\ done' = done /\ val' = val
  BY DEF Write
<1>3. /\ a \in Nat /\ a # Clean /\ a # NoRow
      /\ a = before + (IF s.op = "adjust" THEN s.delta ELSE 0)
  <2>1. a \in Nat /\ a = before + (IF s.op = "adjust" THEN s.delta ELSE 0)
    BY DEF After
  <2>2. QED
    BY <2>1, ConstantsAssumption DEF Quantity
<1> HIDE DEF s, r, a
<1>4. RowInv'
  <2>1. RowTypes'
    BY <1>1, <1>2, <1>3 DEF RowInv, RowTypes, Quantity
  <2>2. TotalsExist'
    BY <1>1, <1>2, <1>3 DEF RowInv, RowTypes, TotalsExist
  <2>3. Holding'
    <3> SUFFICES ASSUME NEW u \in Tx, NEW x \in Rows, draft'[u][x] # Clean
                 PROVE  lock'[x] = u
      BY DEF Holding
    <3>1. CASE u = t /\ x = r
      BY <1>1, <1>2, <3>1 DEF RowInv, RowTypes
    <3>2. CASE x # r
      <4>1. draft'[u][x] = draft[u][x] /\ lock'[x] = lock[x]
        BY <1>1, <1>2, <3>2 DEF RowInv, RowTypes
      <4>2. QED
        BY <4>1 DEF RowInv, Holding
    <3>3. CASE u # t /\ x = r
      <4>1. draft'[u][x] = draft[u][x]
        BY <1>1, <1>2, <3>3 DEF RowInv, RowTypes
      <4>2. lock[x] = u /\ lock[x] \in {t, NoTx}
        BY <3>3, <4>1 DEF RowInv, Holding, MayLock, r, s
      <4>3. QED
        BY <3>3, <4>2, ConstantsAssumption
    <3>4. QED
      BY <3>1, <3>2, <3>3
  <2>4. Untouched'
    <3> SUFFICES ASSUME NEW u \in Tx, pc'[u] \in {"new", "read"}
                 PROVE  prog'[u] = << >> /\ \A x \in Rows : draft'[u][x] = Clean
      BY DEF Untouched
    <3>1. u # t /\ pc[u] = pc'[u]
      BY <1>2 DEF RowInv, RowTypes
    <3>2. prog'[u] = prog[u] /\ draft'[u] = draft[u]
      BY <1>1, <1>2, <3>1 DEF RowInv, RowTypes
    <3>3. QED
      BY <3>1, <3>2 DEF RowInv, Untouched
  <2>5. Inserting'
    <3> SUFFICES ASSUME NEW u \in Tx, pc'[u] = "insert"
                 PROVE  prog'[u] = prog[u] /\ pc[u] = "insert"
      BY DEF Inserting, Current, RowInv
    <3>1. QED
      BY <1>2 DEF RowInv, RowTypes
  <2>6. QED
    BY <2>1, <2>2, <2>3, <2>4, <2>5 DEF RowInv
<1>5. ASSUME TotalsKept PROVE TotalsKept'
  <2>1. ASSUME NEW u \in Tx PROVE Balanced(prog'[u], draft'[u], val')
    <3>1. CASE u = t
      <4>1. draft[t] \in Drafts /\ val \in Balances /\ a \in Quantity
        BY <1>3 DEF RowInv, RowTypes, Drafts, Balances, Quantity
      <4>2. Amount(a) - Amount(val[r])
              = Change(draft[t], val, r) + (IF s.op = "adjust" THEN s.delta ELSE 0)
        <5>1. /\ Amount(a) = a /\ Amount(val[r]) \in Int
              /\ (IF s.op = "adjust" THEN s.delta ELSE 0) \in Int
          BY <1>1, <1>3 DEF RowInv, RowTypes, Amount, Quantity, Statements
        <5>2. before = Amount(val[r]) + Change(draft[t], val, r)
          <6>1. before = Amount(IF draft[t][r] # Clean THEN draft[t][r] ELSE val[r])
            BY DEF Visible, r, s
          <6>2. CASE draft[t][r] = Clean
            BY <5>1, <6>1, <6>2 DEF Change
          <6>3. CASE draft[t][r] # Clean
            BY <5>1, <6>1, <6>3 DEF Change
          <6>4. QED
            BY <6>2, <6>3
        <5>3. Change(draft[t], val, r) \in Int
          BY <1>1, <4>1, ChangeIsInt
        <5>4. QED
          BY <1>3, <5>1, <5>2, <5>3
      <4>3. Balanced(prog[t], draft[t], val)
        BY <1>5 DEF TotalsKept
      <4>4. Balanced(Tail(prog[t]), [draft[t] EXCEPT ![r] = a], val)
        BY <1>1, <4>1, <4>2, <4>3, BalancedWrite DEF r
      <4>5. prog'[t] = Tail(prog[t]) /\ draft'[t] = [draft[t] EXCEPT ![r] = a]
        BY <1>2 DEF RowInv, RowTypes
      <4>6. QED
        BY <1>2, <3>1, <4>4, <4>5
    <3>2. CASE u # t
      <4>1. prog'[u] = prog[u] /\ draft'[u] = draft[u] /\ val' = val
        BY <1>2, <3>2 DEF RowInv, RowTypes
      <4>2. QED
        BY <1>5, <4>1 DEF TotalsKept
    <3>3. QED
      BY <3>1, <3>2
  <2>2. BatchRowsMatchTotal'
    BY <1>2, <1>5 DEF TotalsKept, BatchRowsMatchTotal
  <2>3. QED
    BY <2>1, <2>2 DEF TotalsKept
<1>6. QED
  BY <1>4, <1>5

LEMMA CommitKeepsTotals ==
    ASSUME RowInv, NEW t \in Tx, Commit(t)
    PROVE  RowInv' /\ (TotalsKept => TotalsKept')
<1>1. /\ val' = [r \in Rows |-> Visible(t, r)] /\ prog' = prog /\ prog[t] = << >>
      /\ draft' = [draft EXCEPT ![t] = [r \in Rows |-> Clean]]
      /\ lock' = [r \in Rows |-> IF lock[r] = t THEN NoTx ELSE lock[r]]
      /\ pc' = [pc EXCEPT ![t] = "committed"] /\ asked' = asked /\ done' = done
  BY DEF Commit
<1>2. RowInv'
  <2>1. RowTypes'
    <3>1. \A r \in Rows : Visible(t, r) \in Quantity
      BY DEF RowInv, RowTypes, Visible
    <3>2. QED
      BY <1>1, <3>1 DEF RowInv, RowTypes
  <2>2. TotalsExist'
    <3>1. Clean # NoRow /\ \A p \in BatchProducts : p \in Rows
      BY ConstantsAssumption DEF Quantity, Rows, Products
    <3>2. QED
      BY <1>1, <3>1 DEF RowInv, RowTypes, TotalsExist, Visible
  <2>3. Holding'
    BY <1>1 DEF RowInv, RowTypes, Holding
  <2>4. Untouched'
    BY <1>1 DEF RowInv, RowTypes, Untouched
  <2>5. Inserting'
    BY <1>1 DEF RowInv, RowTypes, Inserting, Current
  <2>6. QED
    BY <2>1, <2>2, <2>3, <2>4, <2>5 DEF RowInv
<1>3. ASSUME TotalsKept PROVE TotalsKept'
  <2>1. ASSUME NEW u \in Tx PROVE Balanced(prog'[u], draft'[u], val')
    <3>1. CASE u = t
      <4>1. prog'[t] = << >> /\ \A r \in Rows : draft'[t][r] = Clean
        BY <1>1 DEF RowInv, RowTypes
      <4>2. QED
        BY <3>1, <4>1, NothingOwed, BalancedAtRest
    <3>2. CASE u # t
      <4>1. draft'[u] = draft[u]
        BY <1>1, <3>2 DEF RowInv, RowTypes
      <4>2. ASSUME NEW x \in Rows
            PROVE  Change(draft'[u], val', x) = Change(draft[u], val, x)
        <5>1. CASE draft[u][x] = Clean
          BY <4>1, <5>1 DEF Change
        <5>2. CASE draft[u][x] # Clean
          <6>1. val'[x] = val[x]
            BY <1>1, <3>2, <5>2, ChangeOfHeld DEF RowInv, Visible
          <6>2. QED
            BY <4>1, <6>1 DEF Change
        <5>3. QED
          BY <5>1, <5>2
      <4>3. Balanced(prog[u], draft[u], val)
        BY <1>3 DEF TotalsKept
      <4>4. QED
        BY <1>1, <4>2, <4>3, BalancedSame
    <3>3. QED
      BY <3>1, <3>2
  <2>2. BatchRowsMatchTotal'
    <3>1. draft[t] \in Drafts /\ val \in Balances
      BY DEF RowInv, RowTypes, Drafts, Balances
    <3>2. \A p \in BatchProducts : val[p] # NoRow /\ draft[t][p] # NoRow
      BY DEF RowInv, TotalsExist
    <3>3. Balanced(<< >>, draft[t], val) /\ TotalsMatch(val)
      BY <1>1, <1>3 DEF TotalsKept, BatchRowsMatchTotal
    <3>4. val' = [r \in Rows |-> IF draft[t][r] # Clean THEN draft[t][r] ELSE val[r]]
      BY <1>1 DEF Visible
    <3>5. TotalsMatch(val')
      BY <3>1, <3>2, <3>3, <3>4, PublishMatches
    <3>6. QED
      BY <3>5 DEF BatchRowsMatchTotal
  <2>3. QED
    BY <2>1, <2>2 DEF TotalsKept
<1>4. QED
  BY <1>2, <1>3

\* A step that touches no row, and starts statements that owe nothing more.
LEMMA QuietKeepsTotals ==
    ASSUME RowInv, RowTypes', Untouched', Inserting',
           UNCHANGED << val, lock, draft >>,
           \A u \in Tx, p \in BatchProducts : Owed(prog'[u], p) = Owed(prog[u], p)
    PROVE  RowInv' /\ (TotalsKept => TotalsKept')
<1>1. RowInv'
  BY DEF RowInv, TotalsExist, Holding
<1>2. ASSUME TotalsKept, NEW u \in Tx PROVE Balanced(prog'[u], draft'[u], val')
  <2>1. Balanced(prog[u], draft[u], val)
    BY <1>2 DEF TotalsKept
  <2>2. QED
    BY <2>1, BalancedSame
<1>3. QED
  BY <1>1, <1>2 DEF TotalsKept, BatchRowsMatchTotal

\* Every step of the movements.
LEMMA MovementsKeepTotals ==
    ASSUME RowInv, NEW t \in Tx, Begin(t) \/ Step(t) \/ Disconnect(t)
    PROVE  RowInv' /\ (TotalsKept => TotalsKept')
<1> USE DEF RowInv
<1>0. ASSUME NEW u \in Tx, prog[u] # << >>
      PROVE  Current(u) \in Statements /\ Current(u).row \in Rows /\ Current(u).delta \in Int
  <2>1. prog[u] \in Seq(Statements)
    BY DEF RowTypes
  <2>2. Current(u) \in Statements
    BY <1>0, <2>1, HeadTailProperties DEF Current
  <2>3. QED
    BY <2>2 DEF Statements
<1>1. CASE Begin(t)
  <2>1. RowTypes'
    BY <1>1, ConstantsAssumption DEF RowTypes, Begin
  <2>2. Untouched' /\ Inserting'
    BY <1>1 DEF RowTypes, Begin, Untouched, Inserting, Current
  <2>3. prog' = prog /\ UNCHANGED << val, lock, draft >>
    BY <1>1 DEF Begin
  <2>4. QED
    BY <2>1, <2>2, <2>3, QuietKeepsTotals
<1>2. CASE StartMovement(t)
  <2> DEFINE m == asked[t][done[t] + 1]
             V == {x \in Movements : Valid(x)}
  <2>1. m \in Movements /\ Valid(m)
    <3>1. asked[t] \in Seq(V) /\ done[t] \in Nat /\ done[t] < Len(asked[t])
      BY <1>2 DEF RowTypes, StartMovement
    <3> HIDE DEF V
    <3>2. asked[t][done[t] + 1] \in V
      BY <3>1
    <3>3. QED
      BY <3>2 DEF V
  <2>2. StatementsOf(m) \in Seq(Statements)
    <3>1. StatementsOf(m) \in Seq(GoodStatements)
      BY <2>1, StatementsAreGood
    <3>2. Seq(GoodStatements) \subseteq Seq(Statements)
      BY DEF GoodStatements
    <3>3. QED
      BY <3>1, <3>2
  <2>3. /\ pc[t] = "run" /\ prog[t] = << >>
        /\ prog' = [prog EXCEPT ![t] = StatementsOf(m)]
        /\ done' = [done EXCEPT ![t] = @ + 1]
        /\ UNCHANGED << pc, asked, val, lock, draft >>
    BY <1>2 DEF StartMovement
  <2> HIDE DEF m
  <2>4. RowTypes'
    BY <2>2, <2>3 DEF RowTypes
  <2>5. Untouched' /\ Inserting'
    BY <2>3 DEF RowTypes, Untouched, Inserting, Current
  <2>6. ASSUME NEW u \in Tx, NEW p \in BatchProducts
        PROVE  Owed(prog'[u], p) = Owed(prog[u], p)
    <3>1. CASE u = t
      <4>1. prog'[t] = StatementsOf(m)
        BY <2>3 DEF RowTypes
      <4>2. Owed(StatementsOf(m), p) = 0 /\ Owed(<< >>, p) = 0
        BY <2>1, MovementOwesNothing, NothingOwed
      <4>3. QED
        BY <2>3, <3>1, <4>1, <4>2
    <3>2. CASE u # t
      BY <2>3, <3>2 DEF RowTypes
    <3>3. QED
      BY <3>1, <3>2
  <2>7. QED
    BY <2>3, <2>4, <2>5, <2>6, QuietKeepsTotals
<1>3. CASE LockAndAdjust(t)
  <2> DEFINE before == Visible(t, Current(t).row)
  <2>1. /\ prog[t] # << >> /\ pc[t] = "run" /\ Current(t).op \in {"assert", "adjust"}
        /\ before # NoRow /\ MayLock(t, Current(t).row)
        /\ Sufficient(before, Current(t).delta) /\ Write(t, Current(t).row, before)
    BY <1>3 DEF LockAndAdjust, AtStatement
  <2>2. before \in Nat /\ before = Amount(before)
    BY <1>0, <2>1 DEF RowTypes, Visible, Quantity, Amount
  <2>3. After(t, before) \in Nat
    BY <1>0, <2>1, <2>2 DEF After, Sufficient
  <2> HIDE DEF before
  <2>4. QED
    BY <2>1, <2>2, <2>3, WriteKeepsTotals DEF before
<1>4. CASE RefuseInsufficient(t)
  BY <1>4, AbortKeepsTotals DEF RefuseInsufficient
<1>5. CASE MissBatchRow(t)
  <2>1. /\ prog[t] # << >> /\ Current(t).op = "adjust" /\ Current(t).delta > 0
        /\ pc[t] = "run" /\ pc' = [pc EXCEPT ![t] = "insert"]
        /\ UNCHANGED << asked, done, prog, val, lock, draft >>
    BY <1>5 DEF MissBatchRow, AtStatement
  <2>2. RowTypes'
    BY <2>1 DEF RowTypes
  <2>3. Untouched'
    BY <2>1 DEF RowTypes, Untouched
  <2>4. Inserting'
    <3>1. Current(t).delta \in Int /\ Current(t).delta >= 0
      BY <1>0, <2>1
    <3>2. QED
      BY <2>1, <3>1 DEF RowTypes, Inserting, Current
  <2>5. QED
    BY <2>1, <2>2, <2>3, <2>4, QuietKeepsTotals
<1>6. CASE InsertBatchRow(t)
  <2>1. /\ pc[t] = "insert" /\ MayLock(t, Current(t).row)
        /\ Visible(t, Current(t).row) = NoRow /\ Write(t, Current(t).row, 0)
        /\ prog[t] # << >> /\ Current(t).op = "adjust" /\ Current(t).delta >= 0
    BY <1>6 DEF InsertBatchRow, Inserting
  <2>2. 0 \in Nat /\ 0 = Amount(Visible(t, Current(t).row)) /\ After(t, 0) \in Nat
    BY <1>0, <2>1 DEF Amount, After
  <2>3. QED
    BY <2>1, <2>2, WriteKeepsTotals
<1>7. CASE InsertConflict(t)
  BY <1>7, AbortKeepsTotals DEF InsertConflict
<1>8. CASE RejectMovement(t)
  BY <1>8, AbortKeepsTotals DEF RejectMovement
<1>9. CASE Commit(t)
  BY <1>9, CommitKeepsTotals
<1>10. CASE DeadlockVictim(t)
  BY <1>10, AbortKeepsTotals DEF DeadlockVictim
<1>11. CASE Disconnect(t)
  BY <1>11, AbortKeepsTotals DEF Disconnect
<1>12. QED
  BY <1>1, <1>2, <1>3, <1>4, <1>5, <1>6, <1>7, <1>8, <1>9, <1>10, <1>11 DEF Step

LEMMA NextKeepsTotals == RowInv /\ TotalsKept /\ [Next]_vars => (RowInv /\ TotalsKept)'
<1> SUFFICES ASSUME RowInv, TotalsKept, [Next]_vars PROVE (RowInv /\ TotalsKept)'
  OBVIOUS
<1>1. CASE UNCHANGED vars
  <2>1. RowTypes' /\ Untouched' /\ Inserting'
    BY <1>1 DEF vars, RowInv, RowTypes, Untouched, Inserting, Current
  <2>2. QED
    BY <1>1, <2>1, QuietKeepsTotals DEF vars
<1>2. CASE Next
  BY <1>2, MovementsKeepTotals DEF Next
<1>3. QED
  BY <1>1, <1>2

\* The total kept for a batch product is the sum of its batch rows, however
\* many concurrent requests move them: balance.ts adds every difference to
\* both, except a transfer, which takes from one row what it gives to another.
THEOREM TotalsFollowBatches == Spec => []BatchRowsMatchTotal
<1>1. RowInv /\ TotalsKept => BatchRowsMatchTotal
  BY DEF TotalsKept
<1>2. QED
  BY <1>1, InitKeepsTotals, NextKeepsTotals, PTL DEF Spec

-----------------------------------------------------------------------------
(***************************************************************************)
(* The maintenance of batch balances.                                       *)
(***************************************************************************)

\* What a patch or delete has read, and what it is to write.
ReadInv ==
    \A t \in Tx : pc[t] = "read" =>
        /\ existing[t].slot \in Slots
        /\ existing[t].quantity \in Nat
        /\ existing[t].to \in Quantity

\* As long as nobody wrote over a row it had misread, totals are kept.
BatchInv ==
    /\ RowInv
    /\ ReadInv
    /\ existing \in [Tx -> [slot : Slots \cup {NoSlot}, quantity : Quantity,
                            generation : Nat, to : Quantity]]
    /\ deletions \in [Slots -> Nat]
    /\ ~stale => TotalsKept

LEMMA UnrecordedIsStatement ==
    ASSUME NEW r \in Rows, NEW delta \in Int
    PROVE  /\ Unrecorded(r, delta) \in Statements
           /\ Unrecorded(r, delta).op = "adjust" /\ Unrecorded(r, delta).row = r
           /\ Unrecorded(r, delta).delta = delta
BY DEF Unrecorded, Statement, Statements, MovementTypes

\* Adding to a batch row and to its product owes nothing.
LEMMA BothOweNothing ==
    ASSUME NEW s \in Slots, NEW delta \in Int, NEW p \in BatchProducts
    PROVE  /\ ProductOf[s[1]] \in BatchProducts /\ ProductOf[s[1]] \in Rows
           /\ s \in Rows /\ s \notin Products
           /\ << Unrecorded(s, delta), Unrecorded(ProductOf[s[1]], delta) >> \in Seq(Statements)
           /\ Owed(<< Unrecorded(s, delta), Unrecorded(ProductOf[s[1]], delta) >>, p) = 0
<1> DEFINE first == Unrecorded(s, delta)
           second == Unrecorded(ProductOf[s[1]], delta)
<1>1. /\ ProductOf[s[1]] \in BatchProducts /\ ProductOf[s[1]] \in Rows
      /\ s \in Rows /\ s \notin Products /\ p \notin Slots
      /\ ProductOf[s[1]] \notin Slots
  <2>1. s[1] \in Batches
    BY DEF Slots
  <2>2. QED
    BY <2>1, ConstantsAssumption DEF Rows, Products
<1>2. /\ first \in Statements /\ first.op = "adjust" /\ first.row = s /\ first.delta = delta
      /\ second \in Statements /\ second.op = "adjust"
      /\ second.row = ProductOf[s[1]] /\ second.delta = delta
  BY <1>1, UnrecordedIsStatement
<1> HIDE DEF first, second
<1>3. << first, second >> \in Seq(Statements)
  BY <1>2, ShortSequences
<1>4. Weight(first, p) + Weight(second, p) = 0
  BY <1>1, <1>2 DEF Weight, SlotsOf, Products
<1>5. Owed(<< first, second >>, p) = 0
  BY <1>2, <1>4, OwedTwo
<1>6. QED
  BY <1>1, <1>3, <1>5 DEF first, second

LEMMA CreateKeepsTotals ==
    ASSUME BatchInv, NEW t \in Tx, CreateBalance(t)
    PROVE  BatchInv'
<1> USE DEF BatchInv, RowInv
<1>1. /\ pc[t] = "new" /\ pc' = [pc EXCEPT ![t] = "insert"]
      /\ UNCHANGED << asked, done, val, lock, draft, existing, deletions, stale >>
  BY DEF CreateBalance, MayStart
<1>2. PICK s \in Slots, q \in NewQuantities :
        prog' = [prog EXCEPT ![t] = << Unrecorded(s, q), Unrecorded(ProductOf[s[1]], q) >>]
  BY DEF CreateBalance
<1> DEFINE two == << Unrecorded(s, q), Unrecorded(ProductOf[s[1]], q) >>
<1>3. /\ q \in Nat /\ q \in Int /\ s \in Rows
      /\ two \in Seq(Statements) /\ \A p \in BatchProducts : Owed(two, p) = 0
  <2>1. q \in Nat /\ q \in Int /\ s \in Rows
    BY NewQuantitiesAssumption DEF Rows
  <2>2. ProductOf[s[1]] \in BatchProducts
    BY ConstantsAssumption DEF Slots
  <2>3. QED
    BY <2>1, <2>2, BothOweNothing
<1>4. two # << >> /\ Head(two).op = "adjust" /\ Head(two).delta = q
  BY <1>3, UnrecordedIsStatement
<1> HIDE DEF two
<1>5. prog' = [prog EXCEPT ![t] = two]
  BY <1>2 DEF two
<1>6. RowTypes'
  BY <1>1, <1>3, <1>5 DEF RowTypes
<1>7. Untouched' /\ Inserting'
  <2>1. Untouched'
    BY <1>1, <1>5 DEF RowTypes, Untouched
  <2>2. Inserting'
    BY <1>1, <1>3, <1>4, <1>5 DEF RowTypes, Inserting, Current
  <2>3. QED
    BY <2>1, <2>2
<1>8. ASSUME NEW u \in Tx, NEW p \in BatchProducts
      PROVE  Owed(prog'[u], p) = Owed(prog[u], p)
  <2>1. CASE u = t
    <3>1. prog'[t] = two /\ prog[t] = << >>
      BY <1>1, <1>5 DEF RowTypes, Untouched
    <3>2. QED
      BY <1>3, <2>1, <3>1, NothingOwed
  <2>2. CASE u # t
    BY <1>5, <2>2 DEF RowTypes
  <2>3. QED
    BY <2>1, <2>2
<1>9. RowInv' /\ (TotalsKept => TotalsKept')
  BY <1>1, <1>6, <1>7, <1>8, QuietKeepsTotals
<1>10. ReadInv'
  BY <1>1 DEF RowTypes, ReadInv
<1>11. QED
  BY <1>1, <1>9, <1>10

LEMMA ReadKeepsTotals ==
    ASSUME BatchInv, NEW t \in Tx, ReadBalance(t)
    PROVE  BatchInv'
<1> USE DEF BatchInv, RowInv
<1>1. /\ pc[t] = "new" /\ pc' = [pc EXCEPT ![t] = "read"]
      /\ UNCHANGED << asked, done, prog, val, lock, draft, deletions, stale >>
  BY DEF ReadBalance, MayStart
<1>2. PICK s \in {x \in Slots : val[x] # NoRow}, to \in NewQuantities \cup {NoRow} :
        existing' = [existing EXCEPT ![t] =
            [slot |-> s, quantity |-> val[s], generation |-> deletions[s], to |-> to]]
  BY DEF ReadBalance
<1>3. s \in Slots /\ val[s] \in Nat /\ val[s] \in Quantity /\ to \in Quantity
  BY NewQuantitiesAssumption DEF RowTypes, Quantity, Rows
<1>4. RowTypes' /\ Untouched' /\ Inserting'
  BY <1>1 DEF RowTypes, Untouched, Inserting, Current
<1>5. RowInv' /\ (TotalsKept => TotalsKept')
  BY <1>1, <1>4, QuietKeepsTotals
<1>6. ReadInv' /\ existing' \in [Tx -> [slot : Slots \cup {NoSlot}, quantity : Quantity,
                            generation : Nat, to : Quantity]]
  BY <1>1, <1>2, <1>3 DEF RowTypes, ReadInv
<1>7. QED
  BY <1>1, <1>5, <1>6

\* A patch or delete that overwrites what it has read is like two statements
\* that add the same to the batch row and to its product, the first one done.
LEMMA RewriteKeepsTotals ==
    ASSUME BatchInv, NEW t \in Tx, RewriteBalance(t)
    PROVE  BatchInv'
<1> USE DEF BatchInv, RowInv
<1> DEFINE r == existing[t].slot
           to == existing[t].to
           old == existing[t].quantity
           delta == Amount(to) - old
           P == ProductOf[r[1]]
           left == ProductDelta(existing[t])
<1>1. /\ pc[t] = "read" /\ pc' = [pc EXCEPT ![t] = "run"]
      /\ MayLock(t, r) /\ val[r] # NoRow
      /\ lock' = [lock EXCEPT ![r] = t]
      /\ draft' = [draft EXCEPT ![t][r] = to]
      /\ prog' = [prog EXCEPT ![t] = left]
      /\ stale' = (stale \/ val[r] # old)
      /\ UNCHANGED << asked, done, val, existing, deletions >>
  BY DEF RewriteBalance, Gone
<1>2. r \in Slots /\ old \in Nat /\ to \in Quantity /\ delta \in Int
  BY <1>1 DEF ReadInv, Quantity, Amount
<1>3. /\ P \in BatchProducts /\ P \in Rows /\ r \in Rows /\ r \notin Products
      /\ P \notin Slots
  <2>1. r[1] \in Batches
    BY <1>2 DEF Slots
  <2>2. QED
    BY <1>2, <2>1, ConstantsAssumption DEF Rows, Products
<1>4. /\ left \in Seq(Statements)
      /\ left = IF delta = 0 THEN << >> ELSE << Unrecorded(P, delta) >>
  <2>1. left = IF delta = 0 THEN << >> ELSE << Unrecorded(P, delta) >>
    BY DEF ProductDelta
  <2>2. << >> \in Seq(Statements) /\ << Unrecorded(P, delta) >> \in Seq(Statements)
    BY <1>2, <1>3, UnrecordedIsStatement, ShortSequences
  <2>3. QED
    BY <2>1, <2>2
<1>5. /\ draft[t] \in Drafts /\ val \in Balances /\ prog[t] = << >>
      /\ \A x \in Rows : draft[t][x] = Clean
  BY <1>1 DEF RowTypes, Drafts, Balances, Untouched
<1> HIDE DEF r, to, old, delta, P, left
<1>6. RowInv'
  <2>1. RowTypes'
    BY <1>1, <1>2, <1>3, <1>4 DEF RowTypes
  <2>2. TotalsExist'
    <3>1. \A p \in BatchProducts : p # r
      BY <1>3 DEF Products
    <3>2. QED
      BY <1>1, <3>1 DEF RowTypes, TotalsExist
  <2>3. Holding'
    <3> SUFFICES ASSUME NEW u \in Tx, NEW x \in Rows, draft'[u][x] # Clean
                 PROVE  lock'[x] = u
      BY DEF Holding
    <3>1. CASE u = t /\ x = r
      BY <1>1, <3>1 DEF RowTypes
    <3>2. CASE x # r
      <4>1. draft'[u][x] = draft[u][x] /\ lock'[x] = lock[x]
        BY <1>1, <3>2 DEF RowTypes
      <4>2. QED
        BY <4>1 DEF Holding
    <3>3. CASE u # t /\ x = r
      <4>1. draft'[u][x] = draft[u][x]
        BY <1>1, <3>3 DEF RowTypes
      <4>2. lock[x] = u /\ lock[x] \in {t, NoTx}
        BY <1>1, <3>3, <4>1 DEF Holding, MayLock
      <4>3. QED
        BY <3>3, <4>2, ConstantsAssumption
    <3>4. QED
      BY <3>1, <3>2, <3>3
  <2>4. Untouched' /\ Inserting'
    <3>1. ASSUME NEW u \in Tx, pc'[u] \in {"new", "read", "insert"}
          PROVE  pc'[u] = pc[u] /\ prog'[u] = prog[u] /\ draft'[u] = draft[u]
      <4>1. u # t
        BY <1>1, <3>1 DEF RowTypes
      <4>2. QED
        BY <1>1, <4>1 DEF RowTypes
    <3>2. QED
      BY <3>1 DEF Untouched, Inserting, Current
  <2>5. QED
    BY <2>1, <2>2, <2>3, <2>4
<1>7. ReadInv'
  BY <1>1 DEF RowTypes, ReadInv
<1>8. ASSUME ~stale' PROVE TotalsKept'
  <2>1. TotalsKept /\ val[r] = old
    BY <1>1, <1>8
  <2>2. ASSUME NEW u \in Tx PROVE Balanced(prog'[u], draft'[u], val')
    <3>1. CASE u = t
      <4> DEFINE first == Unrecorded(r, delta)
                 second == Unrecorded(P, delta)
                 two == << first, second >>
      <4>1. /\ first \in Statements /\ first.op = "adjust" /\ first.row = r
            /\ first.delta = delta /\ second \in Statements
            /\ second.op = "adjust" /\ second.row = P /\ second.delta = delta
        BY <1>2, <1>3, UnrecordedIsStatement
      <4>2. two \in Seq(Statements) /\ \A p \in BatchProducts : Owed(two, p) = 0
        <5>1. ASSUME NEW p \in BatchProducts
              PROVE  two \in Seq(Statements) /\ Owed(two, p) = 0
          BY <1>2, BothOweNothing DEF P
        <5>2. QED
          BY <1>3, <5>1
      <4> HIDE DEF first, second
      <4>3. two # << >> /\ Head(two) = first /\ Tail(two) = << second >>
        OBVIOUS
      <4> HIDE DEF two
      <4>4. Balanced(two, draft[t], val)
        BY <1>5, <4>2, BalancedAtRest
      <4>5. Amount(to) - Amount(val[r])
              = Change(draft[t], val, r)
                  + (IF first.op = "adjust" THEN first.delta ELSE 0)
        <5>1. Change(draft[t], val, r) = 0
          BY <1>3, <1>5 DEF Change
        <5>2. Amount(val[r]) = old /\ delta = Amount(to) - old
          BY <1>1, <2>1 DEF Amount, delta
        <5>3. QED
          BY <1>2, <4>1, <5>1, <5>2
      <4>6. Balanced(<< second >>, [draft[t] EXCEPT ![r] = to], val)
        BY <1>2, <1>5, <4>1, <4>2, <4>3, <4>4, <4>5, BalancedWrite
      <4>7. \A p \in BatchProducts : Owed(left, p) = Owed(<< second >>, p)
        <5>1. CASE delta = 0
          <6>1. second.delta = 0 /\ second.delta \in Int
            BY <4>1, <5>1
          <6>3. \A p \in BatchProducts : Weight(second, p) = 0
            BY <6>1 DEF Weight
          <6>4. QED
            BY <1>4, <4>1, <5>1, <6>3, OwedOne, NothingOwed
        <5>2. CASE delta # 0
          BY <1>4, <5>2 DEF second
        <5>3. QED
          BY <5>1, <5>2
      <4>8. Balanced(left, [draft[t] EXCEPT ![r] = to], val)
        BY <4>6, <4>7, BalancedSame
      <4>9. prog'[t] = left /\ draft'[t] = [draft[t] EXCEPT ![r] = to] /\ val' = val
        BY <1>1 DEF RowTypes
      <4>10. QED
        BY <3>1, <4>8, <4>9
    <3>2. CASE u # t
      <4>1. prog'[u] = prog[u] /\ draft'[u] = draft[u] /\ val' = val
        BY <1>1, <3>2 DEF RowTypes
      <4>2. QED
        BY <2>1, <4>1 DEF TotalsKept
    <3>3. QED
      BY <3>1, <3>2
  <2>3. BatchRowsMatchTotal'
    BY <1>1, <2>1 DEF TotalsKept, BatchRowsMatchTotal
  <2>4. QED
    BY <2>2, <2>3 DEF TotalsKept
<1>9. QED
  BY <1>1, <1>6, <1>7, <1>8

\* A step of a movement brings nobody to the read of a patch.
LEMMA MovementsReadNothing ==
    ASSUME RowInv, NEW t \in Tx, Begin(t) \/ Step(t) \/ Disconnect(t),
           NEW u \in Tx, pc'[u] = "read"
    PROVE  pc[u] = "read"
BY DEF RowInv, RowTypes, Begin, Step, Disconnect, StartMovement, LockAndAdjust,
       RefuseInsufficient, MissBatchRow, InsertBatchRow, InsertConflict,
       RejectMovement, Commit, DeadlockVictim, Abort, Write

LEMMA BatchNextPreserves == BatchInv /\ [BatchNext]_batchVars => BatchInv'
<1> SUFFICES ASSUME BatchInv, [BatchNext]_batchVars PROVE BatchInv'
  OBVIOUS
<1>1. CASE UNCHANGED batchVars
  <2>1. RowTypes' /\ Untouched' /\ Inserting' /\ ReadInv'
    BY <1>1 DEF batchVars, vars, BatchInv, RowInv, RowTypes, Untouched, Inserting,
                Current, ReadInv
  <2>2. RowInv' /\ (TotalsKept => TotalsKept')
    BY <1>1, <2>1, QuietKeepsTotals DEF batchVars, vars, BatchInv
  <2>3. QED
    BY <1>1, <2>1, <2>2 DEF batchVars, BatchInv
<1>2. ASSUME NEW t \in Tx, RewriteMissing(t) PROVE BatchInv'
  <2>1. Abort(t) /\ UNCHANGED << existing, deletions, stale >>
    BY <1>2 DEF RewriteMissing
  <2>2. RowInv' /\ (TotalsKept => TotalsKept')
    BY <2>1, AbortKeepsTotals DEF BatchInv
  <2>3. ReadInv'
    BY <2>1 DEF Abort, ReadInv, BatchInv, RowInv, RowTypes
  <2>4. QED
    BY <2>1, <2>2, <2>3 DEF BatchInv
<1>3. ASSUME NEW t \in Tx, LedgerStep(t) PROVE BatchInv'
  <2>1. /\ Begin(t) \/ Step(t) \/ Disconnect(t)
        /\ UNCHANGED << existing, stale >>
        /\ deletions' = [s \in Slots |->
              IF val[s] # NoRow /\ val'[s] = NoRow THEN deletions[s] + 1
                                                   ELSE deletions[s]]
    BY <1>3 DEF LedgerStep
  <2>2. RowInv' /\ (TotalsKept => TotalsKept')
    BY <2>1, MovementsKeepTotals DEF BatchInv
  <2>3. ReadInv'
    BY <2>1, MovementsReadNothing DEF ReadInv, BatchInv
  <2>4. deletions' \in [Slots -> Nat]
    BY <2>1 DEF BatchInv
  <2>5. QED
    BY <2>1, <2>2, <2>3, <2>4 DEF BatchInv
<1>4. CASE BatchNext
  BY <1>2, <1>3, <1>4, CreateKeepsTotals, ReadKeepsTotals, RewriteKeepsTotals
     DEF BatchNext
<1>5. QED
  BY <1>1, <1>4

\* The total of a batch product drifts from its batch rows only when a patch
\* or delete writes over a row that changed since it was read, outside the
\* transaction (stock-batch-balances/service.ts): movements, creates and
\* rewrites that read what they overwrite keep the two equal.
THEOREM DriftIsStale == BatchSpec => []DriftNeedsStaleRead
<1>1. BatchInit => BatchInv
  <2> SUFFICES ASSUME BatchInit PROVE BatchInv
    OBVIOUS
  <2>1. RowInv /\ TotalsKept
    BY InitKeepsTotals DEF BatchInit
  <2>2. ReadInv
    BY DEF BatchInit, Init, ReadInv
  <2>3. /\ existing \in [Tx -> [slot : Slots \cup {NoSlot}, quantity : Quantity,
                                generation : Nat, to : Quantity]]
        /\ deletions \in [Slots -> Nat]
    BY DEF BatchInit, NoRead, Quantity
  <2>4. QED
    BY <2>1, <2>2, <2>3 DEF BatchInv
<1>2. BatchInv => DriftNeedsStaleRead
  BY DEF BatchInv, TotalsKept, DriftNeedsStaleRead
<1>3. QED
  BY <1>1, <1>2, BatchNextPreserves, PTL DEF BatchSpec

-----------------------------------------------------------------------------
(***************************************************************************)
(* StockLedger implements StockAccount.                                     *)
(***************************************************************************)

\* The recursive functions of the models, unfolded.
LEMMA AppliedUnfolds ==
    ASSUME NEW q, Len(q) \in Nat, NEW r, NEW b
    PROVE  /\ Account!Applied(q, r, b)[0] = [balance |-> b, account |-> << >>]
           /\ \A n \in 1 .. Len(q) :
                Account!Applied(q, r, b)[n]
                    = Account!Change(q[n], r, Account!Applied(q, r, b)[n - 1])
<1> DEFINE first == [balance |-> b, account |-> << >>]
           Unfolds1(f, N) ==
               f = [n \in 0 .. N |-> IF n = 0 THEN first ELSE Account!Change(q[n], r, f[n - 1])]
           Q == {N \in Nat : \E f : Unfolds1(f, N)}
<1>1. Account!Applied(q, r, b) = CHOOSE f : Unfolds1(f, Len(q))
  BY DEF Account!Applied
<1> HIDE DEF first
<1>2. 0 \in Q
  <2> DEFINE f == [n \in 0 .. 0 |-> first]
  <2>1. Unfolds1(f, 0)
    OBVIOUS
  <2>. QED  BY <2>1
<1>3. ASSUME NEW N \in Q PROVE N + 1 \in Q
  <2>1. PICK f : Unfolds1(f, N)
    BY <1>3
  <2> DEFINE g == [n \in 0 .. N + 1 |-> IF n = 0 THEN first ELSE Account!Change(q[n], r, f[n - 1])]
  <2>2. N \in Nat
    OBVIOUS
  <2>3. \A n \in 0 .. N + 1 : g[n] = IF n = 0 THEN first ELSE Account!Change(q[n], r, f[n - 1])
    BY <2>2
  <2>4. \A n \in 0 .. N : f[n] = IF n = 0 THEN first ELSE Account!Change(q[n], r, f[n - 1])
    BY <2>1, <2>2
  <2>5. g = [n \in 0 .. N + 1 |-> g[n]]
    BY <2>2
  <2> HIDE DEF g
  <2>6. \A n \in 1 .. N + 1 : n - 1 \in 0 .. N /\ n - 1 \in 0 .. N + 1
    BY <2>2
  <2>7. \A n \in 0 .. N : g[n] = f[n]
    BY <2>2, <2>3, <2>4
  <2>8. \A n \in 0 .. N + 1 : g[n] = IF n = 0 THEN first ELSE Account!Change(q[n], r, g[n - 1])
    BY <2>2, <2>3, <2>6, <2>7
  <2>9. Unfolds1(g, N + 1)
    BY <2>2, <2>5, <2>8
  <2>10. \E h : Unfolds1(h, N + 1)
    BY <2>9
  <2>11. N + 1 \in Nat
    BY <2>2
  <2>. QED  BY <2>10, <2>11, Zenon
<1>4. Q = Nat
  BY <1>2, <1>3, NumbersBySuccessor
<1>5. Unfolds1(Account!Applied(q, r, b), Len(q))
  BY <1>1, <1>4
<1>. QED  BY <1>5 DEF first

LEMMA FirstUnfolds ==
    ASSUME NEW q, Len(q) \in Nat
    PROVE  /\ FirstStatements(q)[0] = << >>
           /\ \A n \in 1 .. Len(q) :
                FirstStatements(q)[n] = FirstStatements(q)[n - 1] \o StatementsOf(q[n])
<1> DEFINE Unfolds1(f, N) ==
               f = [n \in 0 .. N |-> IF n = 0 THEN << >> ELSE f[n - 1] \o StatementsOf(q[n])]
           Q == {N \in Nat : \E f : Unfolds1(f, N)}
<1>1. FirstStatements(q) = CHOOSE f : Unfolds1(f, Len(q))
  BY DEF FirstStatements
<1>2. 0 \in Q
  <2> DEFINE f == [n \in 0 .. 0 |-> << >>]
  <2>1. Unfolds1(f, 0)
    OBVIOUS
  <2>. QED  BY <2>1
<1>3. ASSUME NEW N \in Q PROVE N + 1 \in Q
  <2>1. PICK f : Unfolds1(f, N)
    BY <1>3
  <2> DEFINE g == [n \in 0 .. N + 1 |-> IF n = 0 THEN << >> ELSE f[n - 1] \o StatementsOf(q[n])]
  <2>2. N \in Nat
    OBVIOUS
  <2>3. \A n \in 0 .. N + 1 : g[n] = IF n = 0 THEN << >> ELSE f[n - 1] \o StatementsOf(q[n])
    BY <2>2
  <2>4. \A n \in 0 .. N : f[n] = IF n = 0 THEN << >> ELSE f[n - 1] \o StatementsOf(q[n])
    BY <2>1, <2>2
  <2>5. g = [n \in 0 .. N + 1 |-> g[n]]
    BY <2>2
  <2> HIDE DEF g
  <2>6. \A n \in 1 .. N + 1 : n - 1 \in 0 .. N /\ n - 1 \in 0 .. N + 1
    BY <2>2
  <2>7. \A n \in 0 .. N : g[n] = f[n]
    BY <2>2, <2>3, <2>4
  <2>8. \A n \in 0 .. N + 1 : g[n] = IF n = 0 THEN << >> ELSE g[n - 1] \o StatementsOf(q[n])
    BY <2>2, <2>3, <2>6, <2>7
  <2>9. Unfolds1(g, N + 1)
    BY <2>2, <2>5, <2>8
  <2>10. \E h : Unfolds1(h, N + 1)
    BY <2>9
  <2>11. N + 1 \in Nat
    BY <2>2
  <2>. QED  BY <2>10, <2>11, Zenon
<1>4. Q = Nat
  BY <1>2, <1>3, NumbersBySuccessor
<1>5. Unfolds1(FirstStatements(q), Len(q))
  BY <1>1, <1>4
<1> DEFINE h == FirstStatements(q)
<1>6. h = [n \in 0 .. Len(q) |-> IF n = 0 THEN << >> ELSE h[n - 1] \o StatementsOf(q[n])]
  BY <1>5
<1> HIDE DEF h
<1>8. \A n \in 0 .. Len(q) : h[n] = IF n = 0 THEN << >> ELSE h[n - 1] \o StatementsOf(q[n])
  BY <1>6
<1>7. h[0] = << >>
  BY <1>8
<1>9. ASSUME NEW n \in 1 .. Len(q) PROVE h[n] = h[n - 1] \o StatementsOf(q[n])
  <2>1. n \in 0 .. Len(q) /\ n # 0
    OBVIOUS
  <2>. QED  BY <1>8, <2>1
<1>. QED  BY <1>7, <1>9 DEF h

\* The statements of some movements are the first of those of the request.
ValidMovements == {m \in Movements : Valid(m)}
StartsWith(s, p) == Len(p) <= Len(s) /\ \A i \in 1 .. Len(p) : s[i] = p[i]

LEMMA FirstAreFirst ==
    ASSUME NEW q \in Seq(ValidMovements)
    PROVE  \A n \in 0 .. Len(q) :
                /\ FirstStatements(q)[n] \in Seq(Statements)
                /\ StartsWith(RequestStatements(q), FirstStatements(q)[n])
<1> DEFINE F == FirstStatements(q)
           all == RequestStatements(q)
<1>1. Len(q) \in Nat /\ \A n \in 1 .. Len(q) : q[n] \in ValidMovements
  OBVIOUS
<1>2. /\ F[0] = << >> /\ all = F[Len(q)]
      /\ \A n \in 1 .. Len(q) : F[n] = F[n - 1] \o StatementsOf(q[n])
  BY <1>1, FirstUnfolds DEF RequestStatements
<1> HIDE DEF F, all
<1>3. \A n \in 1 .. Len(q) : StatementsOf(q[n]) \in Seq(Statements)
  <2>1. \A m \in ValidMovements : StatementsOf(m) \in Seq(Statements)
    <3>1. ASSUME NEW m \in ValidMovements PROVE StatementsOf(m) \in Seq(Statements)
      <4>1. StatementsOf(m) \in Seq(GoodStatements) /\ GoodStatements \subseteq Statements
        BY StatementsAreGood DEF ValidMovements, GoodStatements
      <4>. QED  BY <4>1
    <3>. QED  BY <3>1
  <2>. QED  BY <1>1, <2>1
<1>4. \A n \in 0 .. Len(q) : F[n] \in Seq(Statements)
  <2> DEFINE Q == {n \in Nat : n <= Len(q) => F[n] \in Seq(Statements)}
  <2>1. 0 \in Q
    <3>1. F[0] \in Seq(Statements)
      BY <1>2
    <3>. QED  BY <3>1
  <2>2. ASSUME NEW n \in Q PROVE n + 1 \in Q
    <3>1. CASE n + 1 <= Len(q)
      <4>1. n \in Nat /\ n + 1 \in 1 .. Len(q) /\ (n + 1) - 1 = n /\ F[n] \in Seq(Statements)
        BY <1>1, <3>1
      <4>2. F[n + 1] = F[n] \o StatementsOf(q[n + 1])
        BY <1>2, <4>1
      <4>3. F[n + 1] \in Seq(Statements)
        BY <1>3, <4>1, <4>2
      <4>. QED  BY <4>1, <4>3
    <3>. QED  BY <3>1
  <2>3. Q = Nat
    BY <2>1, <2>2, NumbersBySuccessor
  <2>. QED  BY <1>1, <2>3
<1>5. \A n \in 0 .. Len(q) : StartsWith(all, F[n])
  <2> DEFINE Q == {k \in Nat : k <= Len(q) => StartsWith(all, F[Len(q) - k])}
  <2>1. 0 \in Q
    <3>1. Len(q) - 0 = Len(q) /\ Len(all) \in Nat
      BY <1>1, <1>2, <1>4
    <3>. QED  BY <1>2, <3>1 DEF StartsWith
  <2>2. ASSUME NEW k \in Q PROVE k + 1 \in Q
    <3>1. CASE k + 1 <= Len(q)
      <4> DEFINE n == Len(q) - k
      <4>1. k \in Nat /\ n \in 1 .. Len(q) /\ Len(q) - (k + 1) = n - 1 /\ n - 1 \in 0 .. Len(q)
            /\ StartsWith(all, F[n])
        BY <1>1, <3>1
      <4> HIDE DEF n
      <4>2. /\ F[n] = F[n - 1] \o StatementsOf(q[n])
            /\ F[n] \in Seq(Statements) /\ F[n - 1] \in Seq(Statements)
            /\ StatementsOf(q[n]) \in Seq(Statements) /\ all \in Seq(Statements)
        <5>1. n \in 0 .. Len(q) /\ Len(q) \in 0 .. Len(q)
          BY <1>1, <4>1
        <5>2. F[n] = F[n - 1] \o StatementsOf(q[n]) /\ StatementsOf(q[n]) \in Seq(Statements)
          BY <1>2, <1>3, <4>1
        <5>3. F[n] \in Seq(Statements) /\ F[n - 1] \in Seq(Statements) /\ F[Len(q)] \in Seq(Statements)
          BY <1>4, <4>1, <5>1
        <5>. QED  BY <1>2, <5>2, <5>3
      <4> DEFINE x == F[n - 1]
                 y == StatementsOf(q[n])
                 z == F[n]
      <4> HIDE DEF x, y, z
      <4>5. x \in Seq(Statements) /\ y \in Seq(Statements) /\ z = x \o y
        BY <4>2 DEF x, y, z
      <4>6. StartsWith(z, x)
        BY <4>5 DEF StartsWith
      <4>3. StartsWith(F[n], F[n - 1])
        BY <4>6 DEF x, z
      <4>4. StartsWith(all, F[n - 1])
        <5>1. Len(z) \in Nat /\ Len(x) \in Nat /\ Len(all) \in Nat
          <6>1. z \in Seq(Statements) /\ all \in Seq(Statements)
            BY <4>2 DEF z
          <6>. QED  BY <4>5, <6>1
        <5>2. StartsWith(all, z)
          BY <4>1 DEF z
        <5>3. StartsWith(all, x)
          BY <4>6, <5>1, <5>2 DEF StartsWith
        <5>. QED  BY <5>3 DEF x
      <4>. QED  BY <4>1, <4>4
    <3>. QED  BY <3>1
  <2>3. Q = Nat
    BY <2>1, <2>2, NumbersBySuccessor
  <2>4. ASSUME NEW n \in 0 .. Len(q) PROVE StartsWith(all, F[n])
    <3>1. Len(q) - n \in Nat /\ Len(q) - n <= Len(q) /\ Len(q) - (Len(q) - n) = n
      BY <1>1
    <3>. QED  BY <2>3, <3>1
  <2>. QED  BY <2>4
<1>. QED  BY <1>4, <1>5 DEF F, all

-----------------------------------------------------------------------------
\* Row r in StockAccount, on balances v, after each number of statements of q.
RowIn(q, r, v) == Account!Applied(q, r, Amount(v[r]))

\* What a transaction with drafts d and sides s has done once it has run the
\* first k statements of q on the balances v.
Ran(q, k, d, s, v) ==
    /\ \A i \in 1 .. k : /\ q[i].op # "reject"
                         /\ RowIn(q, q[i].row, v)[i - 1].balance + q[i].delta >= 0
    /\ \A r \in Rows :
        IF \E i \in 1 .. k : q[i].row = r
        THEN d[r] # Clean /\ RowIn(q, r, v)[k] = [balance |-> d[r], account |-> s[r]]
        ELSE d[r] = Clean /\ s[r] = << >>

RunsStatement(q, k, before, d, s, d2, s2) ==
    LET c == q[k + 1]
        after == IF c.op = "assert" THEN before ELSE before + c.delta
        entry == [type |-> c.type, before |-> before, after |-> after]
    IN  /\ d2 = [d EXCEPT ![c.row] = after]
        /\ s2 = IF c.logged THEN [s EXCEPT ![c.row] = Append(s[c.row], entry)] ELSE s

LEMMA RowUnfolds ==
    ASSUME NEW q \in Seq(Statements), NEW r, NEW v
    PROVE  /\ RowIn(q, r, v)[0] = [balance |-> Amount(v[r]), account |-> << >>]
           /\ \A n \in 1 .. Len(q) :
                RowIn(q, r, v)[n] = Account!Change(q[n], r, RowIn(q, r, v)[n - 1])
<1>1. Len(q) \in Nat
  OBVIOUS
<1>. QED  BY <1>1, AppliedUnfolds DEF RowIn

LEMMA RowUntouched ==
    ASSUME NEW q \in Seq(Statements), NEW r, NEW v, NEW k \in 0 .. Len(q),
           \A i \in 1 .. k : q[i].row # r
    PROVE  RowIn(q, r, v)[k] = [balance |-> Amount(v[r]), account |-> << >>]
<1> DEFINE f == RowIn(q, r, v)
           first == [balance |-> Amount(v[r]), account |-> << >>]
           Q == {n \in Nat : n <= k => f[n] = first}
<1>1. Len(q) \in Nat /\ k \in Nat /\ k <= Len(q)
  OBVIOUS
<1>2. f[0] = first /\ \A n \in 1 .. Len(q) : f[n] = Account!Change(q[n], r, f[n - 1])
  BY RowUnfolds
<1> HIDE DEF f, first
<1>3. 0 \in Q
  BY <1>2
<1>4. ASSUME NEW n \in Q PROVE n + 1 \in Q
  <2>1. CASE n + 1 <= k
    <3>1. n \in Nat /\ n + 1 \in 1 .. Len(q) /\ (n + 1) - 1 = n /\ f[n] = first /\ n + 1 \in 1 .. k
      BY <1>1, <2>1
    <3>2. f[n + 1] = Account!Change(q[n + 1], r, f[n]) /\ q[n + 1].row # r
      BY <1>2, <3>1
    <3>3. f[n + 1] = first
      BY <3>1, <3>2 DEF Account!Change
    <3>. QED  BY <3>1, <3>3
  <2>. QED  BY <2>1
<1>5. Q = Nat
  BY <1>3, <1>4, NumbersBySuccessor
<1>. QED  BY <1>1, <1>5 DEF f, first

LEMMA RowStep ==
    ASSUME NEW q \in Seq(Statements), NEW k \in Nat, k + 1 \in 1 .. Len(q), NEW r, NEW v
    PROVE  RowIn(q, r, v)[k + 1] = Account!Change(q[k + 1], r, RowIn(q, r, v)[k])
<1> DEFINE f == RowIn(q, r, v)
           first == [balance |-> Amount(v[r]), account |-> << >>]
<1>1. (k + 1) - 1 = k
  OBVIOUS
<1>2. f[0] = first /\ \A n \in 1 .. Len(q) : f[n] = Account!Change(q[n], r, f[n - 1])
  BY RowUnfolds
<1> HIDE DEF f, first
<1>3. f[k + 1] = Account!Change(q[k + 1], r, f[(k + 1) - 1])
  BY <1>2
<1>4. f[k + 1] = Account!Change(q[k + 1], r, f[k])
  BY <1>1, <1>3
<1>. QED  BY <1>4 DEF f

LEMMA RowNext ==
    ASSUME NEW q \in Seq(Statements), NEW k \in Nat, k + 1 \in 1 .. Len(q), NEW v
    PROVE  \A r : RowIn(q, r, v)[k + 1] = Account!Change(q[k + 1], r, RowIn(q, r, v)[k])
BY RowStep

\* One more statement, run on the balance that the transaction sees.
LEMMA RanOne ==
    ASSUME NEW q \in Seq(Statements), NEW k \in Nat, k + 1 \in 1 .. Len(q),
           NEW d \in [Rows -> Nat \cup {Clean}], NEW s \in [Rows -> Seq(Entries)], NEW v,
           Ran(q, k, d, s, v), NEW before \in Nat, NEW d2, NEW s2,
           q[k + 1].op # "reject", before + q[k + 1].delta >= 0,
           before = (IF d[q[k + 1].row] # Clean THEN d[q[k + 1].row] ELSE Amount(v[q[k + 1].row])),
           RunsStatement(q, k, before, d, s, d2, s2)
    PROVE  Ran(q, k + 1, d2, s2, v)
<1> DEFINE c == q[k + 1]
           x == c.row
           after == IF c.op = "assert" THEN before ELSE before + c.delta
           entry == [type |-> c.type, before |-> before, after |-> after]
<1>1. /\ c \in Statements /\ x \in Rows /\ c.delta \in Int /\ c.logged \in BOOLEAN
      /\ c.op \in {"assert", "adjust"}
  <2>1. c \in Statements
    OBVIOUS
  <2>. QED  BY <2>1 DEF Statements
<1>2. k \in 0 .. Len(q) /\ Len(q) \in Nat /\ (k + 1) - 1 = k
  OBVIOUS
<1>3. after \in Nat /\ after # Clean
  BY <1>1, ConstantsAssumption DEF Quantity
<1>4. /\ d2 = [d EXCEPT ![x] = after]
      /\ s2 = IF c.logged THEN [s EXCEPT ![x] = Append(s[x], entry)] ELSE s
  BY DEF RunsStatement
<1> HIDE DEF c
<1>5. RowIn(q, x, v)[k] = [balance |-> before, account |-> s[x]]
  <2>1. CASE \E i \in 1 .. k : q[i].row = x
    BY <1>1, <2>1 DEF Ran, c
  <2>2. CASE ~\E i \in 1 .. k : q[i].row = x
    <3>1. RowIn(q, x, v)[k] = [balance |-> Amount(v[x]), account |-> << >>]
      BY <1>2, <2>2, RowUntouched
    <3>2. d[x] = Clean /\ s[x] = << >>
      BY <1>1, <2>2 DEF Ran
    <3>. QED  BY <3>1, <3>2 DEF c
  <2>. QED  BY <2>1, <2>2
<1>6. \A r : RowIn(q, r, v)[k + 1] = Account!Change(c, r, RowIn(q, r, v)[k])
  BY RowNext DEF c
<1>7. \A i \in 1 .. k + 1 : i \in 1 .. k \/ i = k + 1
  OBVIOUS
<1>8. ASSUME NEW i \in 1 .. k + 1
      PROVE  q[i].op # "reject" /\ RowIn(q, q[i].row, v)[i - 1].balance + q[i].delta >= 0
  <2>1. CASE i \in 1 .. k
    BY <2>1 DEF Ran
  <2>2. CASE i = k + 1
    <3>1. RowIn(q, q[i].row, v)[i - 1].balance = before
      BY <1>2, <1>5, <2>2 DEF c
    <3>. QED  BY <2>2, <3>1
  <2>. QED  BY <1>7, <2>1, <2>2
<1>9. ASSUME NEW r \in Rows
      PROVE  IF \E i \in 1 .. k + 1 : q[i].row = r
             THEN d2[r] # Clean /\ RowIn(q, r, v)[k + 1] = [balance |-> d2[r], account |-> s2[r]]
             ELSE d2[r] = Clean /\ s2[r] = << >>
  <2>1. CASE r = x
    <3>1. \E i \in 1 .. k + 1 : q[i].row = r
      BY <1>2, <2>1 DEF c
    <3>2. d2[r] = after
      BY <1>1, <1>4, <2>1
    <3>3. s2[r] = IF c.logged THEN Append(s[x], entry) ELSE s[x]
      BY <1>1, <1>4, <2>1
    <3>4. RowIn(q, r, v)[k + 1] = Account!Change(c, x, [balance |-> before, account |-> s[x]])
      BY <1>5, <1>6, <2>1
    <3>5. Account!Change(c, x, [balance |-> before, account |-> s[x]])
            = [balance |-> after, account |-> s2[r]]
      <4>1. after = IF c.op = "adjust" THEN before + c.delta ELSE before
        BY <1>1
      <4>. QED  BY <3>3, <4>1 DEF Account!Change
    <3>. QED  BY <1>3, <3>1, <3>2, <3>4, <3>5
  <2>2. CASE r # x
    <3>1. (\E i \in 1 .. k + 1 : q[i].row = r) <=> (\E i \in 1 .. k : q[i].row = r)
      BY <1>7, <2>2 DEF c
    <3>2. d2[r] = d[r] /\ s2[r] = s[r]
      BY <1>1, <1>4, <2>2
    <3>3. RowIn(q, r, v)[k + 1] = RowIn(q, r, v)[k]
      BY <1>6, <2>2 DEF Account!Change
    <3>. QED  BY <3>1, <3>2, <3>3 DEF Ran
  <2>. QED  BY <2>1, <2>2
<1>. QED  BY <1>8, <1>9 DEF Ran

\* Balances that the transaction has not written do not matter.
LEMMA RanOnOthers ==
    ASSUME NEW q \in Seq(Statements), NEW k \in 0 .. Len(q), NEW d, NEW s, NEW v, NEW v2,
           Ran(q, k, d, s, v), \A r \in Rows : d[r] # Clean => v2[r] = v[r]
    PROVE  Ran(q, k, d, s, v2)
<1>1. \A i \in 1 .. k : i \in 1 .. Len(q) /\ q[i].row \in Rows
  <2>1. \A i \in 1 .. Len(q) : q[i] \in Statements
    OBVIOUS
  <2>2. \A i \in 1 .. k : i \in 1 .. Len(q)
    OBVIOUS
  <2>. QED  BY <2>1, <2>2 DEF Statements
<1>2. \A i \in 1 .. k : RowIn(q, q[i].row, v2) = RowIn(q, q[i].row, v)
  <2>1. \A i \in 1 .. k : v2[q[i].row] = v[q[i].row]
    BY <1>1 DEF Ran
  <2>. QED  BY <2>1 DEF RowIn
<1>3. \A i \in 1 .. k : q[i].op # "reject" /\ RowIn(q, q[i].row, v2)[i - 1].balance + q[i].delta >= 0
  BY <1>2 DEF Ran
<1>4. ASSUME NEW r \in Rows
      PROVE  IF \E i \in 1 .. k : q[i].row = r
             THEN d[r] # Clean /\ RowIn(q, r, v2)[k] = [balance |-> d[r], account |-> s[r]]
             ELSE d[r] = Clean /\ s[r] = << >>
  BY <1>2 DEF Ran
<1>. QED  BY <1>3, <1>4 DEF Ran

-----------------------------------------------------------------------------
\* t has run the first k statements of its request, and the rest of its current
\* movement follows them.
Done(t, k) ==
    /\ k \in Nat /\ done[t] \in 0 .. Len(asked[t])
    /\ k + Len(prog[t]) = Len(FirstStatements(asked[t])[done[t]])
    /\ \A i \in 1 .. Len(prog[t]) : prog[t][i] = RequestStatements(asked[t])[k + i]
    /\ Ran(RequestStatements(asked[t]), k, draft[t], sides[t], val)

ProgressInv ==
    \A t \in Tx :
        /\ pc[t] = "new" => /\ asked[t] = << >> /\ done[t] = 0 /\ prog[t] = << >>
                            /\ \A r \in Rows : draft[t][r] = Clean
        /\ Running(t) => \E k : Done(t, k)

\* The statements of a request are good, and what t has run is among them.
LEMMA DoneWithin ==
    ASSUME IInv, NEW t \in Tx, NEW k, Done(t, k)
    PROVE  /\ RequestStatements(asked[t]) \in Seq(Statements)
           /\ k \in 0 .. Len(RequestStatements(asked[t]))
           /\ k + Len(prog[t]) <= Len(RequestStatements(asked[t]))
<1> DEFINE q == asked[t]
           all == RequestStatements(q)
           first == FirstStatements(q)[done[t]]
<1>1. q \in Seq(ValidMovements) /\ prog[t] \in Seq(Statements)
  BY DEF IInv, TypeOK, ValidMovements
<1>2. Len(q) \in Nat /\ Len(prog[t]) \in Nat
  BY <1>1
<1>3. done[t] \in 0 .. Len(q) /\ Len(q) \in 0 .. Len(q) /\ k \in Nat /\ k + Len(prog[t]) = Len(first)
  BY <1>2 DEF Done
<1>4. all \in Seq(Statements) /\ first \in Seq(Statements) /\ Len(first) <= Len(all)
  BY <1>1, <1>3, FirstAreFirst DEF RequestStatements, StartsWith
<1> HIDE DEF first, all, q
<1>5. Len(all) \in Nat /\ Len(first) \in Nat
  BY <1>4
<1>6. all \in Seq(Statements) /\ k \in 0 .. Len(all) /\ k + Len(prog[t]) <= Len(all)
  BY <1>2, <1>3, <1>4, <1>5
<1>. QED  BY <1>6 DEF all, q

LEMMA InitProgress == Init => ProgressInv
BY DEF Init, ProgressInv, Running

\* A step leaves what another request has done.
LEMMA OthersProgress ==
    ASSUME IInv, NEW t \in Tx, ProgressInv, pc'[t] = pc[t],
           UNCHANGED << asked[t], done[t], prog[t], draft[t], sides[t] >>,
           \A r \in Rows : draft[t][r] # Clean => val'[r] = val[r]
    PROVE  /\ pc'[t] = "new" => /\ asked'[t] = << >> /\ done'[t] = 0 /\ prog'[t] = << >>
                                /\ \A r \in Rows : draft'[t][r] = Clean
           /\ Running(t)' => \E k : Done(t, k)'
<1>1. pc'[t] = "new" => /\ asked'[t] = << >> /\ done'[t] = 0 /\ prog'[t] = << >>
                        /\ \A r \in Rows : draft'[t][r] = Clean
  BY DEF ProgressInv
<1>2. ASSUME Running(t)' PROVE \E k : Done(t, k)'
  <2>1. PICK k : Done(t, k)
    BY <1>2 DEF Running, ProgressInv
  <2> DEFINE all == RequestStatements(asked[t])
  <2>2. all \in Seq(Statements) /\ k \in 0 .. Len(all)
    BY <2>1, DoneWithin
  <2>3. Ran(all, k, draft[t], sides[t], val')
    <3> DEFINE d == draft[t]
               v == val
               v2 == val'
               s == sides[t]
               q == all
    <3>1. Ran(q, k, d, s, v) /\ \A r \in Rows : d[r] # Clean => v2[r] = v[r]
      BY <2>1 DEF Done
    <3>2. q \in Seq(Statements) /\ k \in 0 .. Len(q)
      BY <2>2
    <3> HIDE DEF d, v, v2, s, q, all
    <3>3. Ran(q, k, d, s, v2)
      BY <3>1, <3>2, RanOnOthers
    <3>. QED  BY <3>3 DEF d, v2, s, q
  <2>4. Done(t, k)'
    BY <2>1, <2>3 DEF Done
  <2>. QED  BY <2>4
<1>. QED  BY <1>1, <1>2

LEMMA BeginProgress ==
    ASSUME IInv, ProgressInv, NEW t \in Tx, Begin(t)
    PROVE  ProgressInv'
<1>1. /\ pc[t] = "new" /\ pc' = [pc EXCEPT ![t] = "run"]
      /\ \E request \in Requests : asked' = [asked EXCEPT ![t] = request]
      /\ UNCHANGED << done, prog, val, lock, draft, sides, ledger >>
  BY DEF Begin
<1>2. PICK request \in Requests : asked' = [asked EXCEPT ![t] = request]
  BY <1>1
<1>3. request \in Seq(ValidMovements) /\ asked'[t] = request
  BY <1>2, ConstantsAssumption DEF IInv, TypeOK, ValidMovements
<1>4. Done(t, 0)'
  <2>1. done'[t] = 0 /\ prog'[t] = << >> /\ \A r \in Rows : draft'[t][r] = Clean /\ sides'[t][r] = << >>
    BY <1>1 DEF ProgressInv, IInv, OwnerInv
  <2>2. Len(request) \in Nat /\ 0 \in 0 .. Len(request)
    BY <1>3
  <2>3. FirstStatements(request)[0] = << >>
    BY <2>2, FirstUnfolds
  <2>4. Ran(RequestStatements(request), 0, draft'[t], sides'[t], val')
    BY <2>1 DEF Ran
  <2>. QED  BY <1>3, <2>1, <2>2, <2>3, <2>4 DEF Done
<1>5. ASSUME NEW u \in Tx, u # t
      PROVE  /\ pc'[u] = "new" => /\ asked'[u] = << >> /\ done'[u] = 0 /\ prog'[u] = << >>
                                  /\ \A r \in Rows : draft'[u][r] = Clean
             /\ Running(u)' => \E k : Done(u, k)'
  <2>1. pc'[u] = pc[u] /\ asked'[u] = asked[u]
    BY <1>1, <1>2, <1>5 DEF IInv, TypeOK
  <2>. QED  BY <1>1, <2>1, OthersProgress
<1>6. pc'[t] = "run"
  BY <1>1 DEF IInv, TypeOK
<1>. QED  BY <1>4, <1>5, <1>6 DEF ProgressInv

LEMMA StartMovementProgress ==
    ASSUME IInv, ProgressInv, NEW t \in Tx, StartMovement(t)
    PROVE  ProgressInv'
<1>1. /\ pc[t] = "run" /\ prog[t] = << >> /\ done[t] < Len(asked[t])
      /\ done' = [done EXCEPT ![t] = @ + 1]
      /\ prog' = [prog EXCEPT ![t] = StatementsOf(asked[t][done[t] + 1])]
      /\ UNCHANGED << pc, asked, val, lock, draft, sides, ledger >>
  BY DEF StartMovement
<1>2. PICK k : Done(t, k)
  BY <1>1 DEF ProgressInv, Running
<1> DEFINE q == asked[t]
           n == done[t]
           m == StatementsOf(q[n + 1])
           F == FirstStatements(q)
           all == RequestStatements(q)
<1>3. q \in Seq(ValidMovements) /\ Len(q) \in Nat /\ k \in Nat /\ n \in 0 .. Len(q)
  BY <1>2 DEF Done, IInv, TypeOK, ValidMovements
<1>4. n + 1 \in 0 .. Len(q) /\ n + 1 \in 1 .. Len(q) /\ (n + 1) - 1 = n
  BY <1>1, <1>3
<1>5. F[n + 1] = F[n] \o m
  BY <1>3, <1>4, FirstUnfolds
<1>6. /\ F[n] \in Seq(Statements) /\ F[n + 1] \in Seq(Statements) /\ StartsWith(all, F[n + 1])
  BY <1>3, <1>4, FirstAreFirst
<1>7. k = Len(F[n])
  BY <1>1, <1>2, <1>3 DEF Done
<1>8. m \in Seq(Statements)
  <2>1. q[n + 1] \in ValidMovements
    BY <1>3, <1>4
  <2>2. m \in Seq(GoodStatements) /\ GoodStatements \subseteq Statements
    BY <2>1, StatementsAreGood DEF ValidMovements, GoodStatements
  <2>. QED  BY <2>2
<1>9. prog'[t] = m /\ done'[t] = n + 1
  BY <1>1 DEF IInv, TypeOK
<1>10. Done(t, k)'
  <2> DEFINE x == F[n]
             y == F[n + 1]
  <2>1. x \in Seq(Statements) /\ m \in Seq(Statements) /\ y = x \o m /\ k = Len(x)
    BY <1>5, <1>6, <1>7, <1>8
  <2>2. StartsWith(all, y)
    BY <1>6
  <2>5. k \in Nat /\ n + 1 \in 0 .. Len(q) /\ Ran(all, k, draft[t], sides[t], val)
    BY <1>2, <1>3, <1>4 DEF Done
  <2> HIDE DEF x, y, m, all, F, n, q
  <2>3. k + Len(m) = Len(y) /\ Len(m) \in Nat
    BY <2>1
  <2>4. \A i \in 1 .. Len(m) : m[i] = all[k + i]
    <3>1. \A i \in 1 .. Len(m) : k + i \in 1 .. Len(y) /\ y[k + i] = m[i]
      BY <2>1
    <3>. QED  BY <2>2, <3>1 DEF StartsWith
  <2>. QED  BY <1>1, <1>9, <2>3, <2>4, <2>5 DEF Done, y, all, F, q
<1>11. ASSUME NEW u \in Tx, u # t
       PROVE  /\ pc'[u] = "new" => /\ asked'[u] = << >> /\ done'[u] = 0 /\ prog'[u] = << >>
                                   /\ \A r \in Rows : draft'[u][r] = Clean
              /\ Running(u)' => \E j : Done(u, j)'
  <2>1. done'[u] = done[u] /\ prog'[u] = prog[u]
    BY <1>1, <1>11 DEF IInv, TypeOK
  <2>. QED  BY <1>1, <2>1, OthersProgress
<1>. QED  BY <1>1, <1>10, <1>11 DEF ProgressInv

LEMMA WriteProgress ==
    ASSUME IInv, ProgressInv, NEW t \in Tx, Running(t), prog[t] # << >>,
           Current(t).op # "reject",
           NEW before \in Nat, before = Amount(Visible(t, Current(t).row)),
           before + Current(t).delta >= 0, MayLock(t, Current(t).row),
           Write(t, Current(t).row, before)
    PROVE  ProgressInv'
<1> DEFINE c == Current(t)
           q == RequestStatements(asked[t])
           d == draft[t]
           s == sides[t]
           v == val
<1>1. PICK k : Done(t, k)
  BY DEF ProgressInv
<1>2. q \in Seq(Statements) /\ k \in Nat /\ k + Len(prog[t]) <= Len(q)
  BY <1>1, DoneWithin DEF Done
<1>3. prog[t] \in Seq(Statements) /\ Len(prog[t]) \in Nat /\ Len(prog[t]) >= 1 /\ Len(q) \in Nat
  BY <1>2 DEF IInv, TypeOK
<1>4. k + 1 \in 1 .. Len(q) /\ c = q[k + 1] /\ c = prog[t][1] /\ c \in Statements
  <2>1. c = prog[t][1] /\ 1 \in 1 .. Len(prog[t])
    BY <1>3 DEF Current
  <2>2. prog[t][1] = q[k + 1] /\ prog[t][1] \in Statements
    BY <1>1, <1>3, <2>1 DEF Done
  <2>. QED  BY <1>2, <1>3, <2>1, <2>2
<1>5. /\ c.row \in Rows /\ c.delta \in Int /\ d \in [Rows -> Nat \cup {Clean}]
      /\ s \in [Rows -> Seq(Entries)]
  BY <1>4 DEF Statements, IInv, TypeOK
<1>6. before = IF d[c.row] # Clean THEN d[c.row] ELSE Amount(v[c.row])
  <2>1. CASE d[c.row] # Clean
    <3>1. d[c.row] \in Nat /\ Visible(t, c.row) = d[c.row]
      BY <1>5, <2>1 DEF Visible
    <3>. QED  BY <2>1, <3>1, ConstantsAssumption DEF Amount
  <2>2. CASE d[c.row] = Clean
    BY <2>2 DEF Visible
  <2>. QED  BY <2>1, <2>2
<1>7. /\ pc' = [pc EXCEPT ![t] = "run"] /\ UNCHANGED << asked, done, val >>
      /\ prog' = [prog EXCEPT ![t] = Tail(@)]
      /\ draft' = [draft EXCEPT ![t][c.row] = After(t, before)]
      /\ sides' = IF c.logged
                  THEN [sides EXCEPT ![t][c.row] = Append(@, [type |-> c.type, before |-> before,
                                                              after |-> After(t, before)])]
                  ELSE sides
  BY DEF Write
<1>8. pc'[t] = "run" /\ prog'[t] = Tail(prog[t])
  BY <1>7 DEF IInv, TypeOK
<1>9. RunsStatement(q, k, before, d, s, draft'[t], sides'[t])
  <2>1. draft'[t] = [d EXCEPT ![c.row] = After(t, before)]
    BY <1>5, <1>7 DEF IInv, TypeOK
  <2>2. sides'[t] = IF c.logged
                    THEN [s EXCEPT ![c.row] = Append(s[c.row], [type |-> c.type, before |-> before,
                                                                after |-> After(t, before)])]
                    ELSE s
    BY <1>5, <1>7 DEF IInv, TypeOK
  <2>. QED  BY <1>4, <2>1, <2>2 DEF RunsStatement, After
<1>10. Ran(q, k, d, s, v)
  BY <1>1 DEF Done
<1>11. /\ q[k + 1].op # "reject" /\ before + q[k + 1].delta >= 0
       /\ before = IF d[q[k + 1].row] # Clean THEN d[q[k + 1].row] ELSE Amount(v[q[k + 1].row])
  BY <1>4, <1>6
<1>12. Ran(q, k + 1, draft'[t], sides'[t], v)
  <2> HIDE DEF c, q, d, s, v
  <2> DEFINE d2 == draft'[t]
             s2 == sides'[t]
  <2>1. RunsStatement(q, k, before, d, s, d2, s2)
    BY <1>9
  <2> HIDE DEF d2, s2
  <2>2. Ran(q, k + 1, d2, s2, v)
    BY <1>2, <1>4, <1>5, <1>10, <1>11, <2>1, RanOne
  <2>. QED  BY <2>2 DEF d2, s2
<1>13. Done(t, k + 1)'
  <2>1. prog'[t] \in Seq(Statements) /\ Len(prog'[t]) = Len(prog[t]) - 1
        /\ \A i \in 1 .. Len(prog'[t]) : prog'[t][i] = prog[t][i + 1]
    <3> DEFINE p == prog[t]
    <3>1. p \in Seq(Statements) /\ p # << >>
      BY <1>3
    <3> HIDE DEF p
    <3>2. Tail(p) \in Seq(Statements) /\ Len(Tail(p)) = Len(p) - 1
          /\ \A i \in 1 .. Len(Tail(p)) : Tail(p)[i] = p[i + 1]
      BY <3>1
    <3>. QED  BY <1>8, <3>2 DEF p
  <2>2. \A i \in 1 .. Len(prog'[t]) : prog'[t][i] = q[k + 1 + i]
    <3>1. ASSUME NEW i \in 1 .. Len(prog'[t]) PROVE prog'[t][i] = q[k + 1 + i]
      <4> DEFINE m == Len(prog'[t])
                 n == Len(prog[t])
      <4>3. m = n - 1 /\ n \in Nat /\ i \in 1 .. m
        BY <1>3, <2>1
      <4> HIDE DEF m, n
      <4>4. i + 1 \in 1 .. n /\ k + (i + 1) = k + 1 + i
        BY <1>2, <4>3
      <4>1. i + 1 \in 1 .. Len(prog[t]) /\ k + (i + 1) = k + 1 + i
        BY <4>4 DEF n
      <4>2. prog[t][i + 1] = q[k + (i + 1)]
        BY <1>1, <4>1 DEF Done
      <4>. QED  BY <2>1, <4>1, <4>2
    <3>. QED  BY <3>1
  <2>3. (k + 1) + Len(prog'[t]) = k + Len(prog[t]) /\ k + 1 \in Nat
    BY <1>2, <1>3, <2>1
  <2>4. UNCHANGED << asked[t], done[t] >>
    BY <1>7
  <2>. QED  BY <1>1, <1>7, <1>12, <2>2, <2>3, <2>4 DEF Done
<1>14. ASSUME NEW u \in Tx, u # t
       PROVE  /\ pc'[u] = "new" => /\ asked'[u] = << >> /\ done'[u] = 0 /\ prog'[u] = << >>
                                   /\ \A r \in Rows : draft'[u][r] = Clean
              /\ Running(u)' => \E j : Done(u, j)'
  <2>1. pc'[u] = pc[u] /\ prog'[u] = prog[u] /\ draft'[u] = draft[u] /\ sides'[u] = sides[u]
    BY <1>7, <1>14 DEF IInv, TypeOK
  <2>. QED  BY <1>7, <2>1, OthersProgress
<1>. QED  BY <1>8, <1>13, <1>14 DEF ProgressInv

LEMMA AbortProgress ==
    ASSUME IInv, ProgressInv, NEW t \in Tx, Abort(t)
    PROVE  ProgressInv'
<1>1. /\ pc' = [pc EXCEPT ![t] = "aborted"] /\ UNCHANGED << asked, done, val >>
      /\ draft' = [draft EXCEPT ![t] = [r \in Rows |-> Clean]]
      /\ sides' = [sides EXCEPT ![t] = [r \in Rows |-> << >>]]
      /\ prog' = [prog EXCEPT ![t] = << >>]
  BY DEF Abort
<1>2. pc'[t] = "aborted"
  BY <1>1 DEF IInv, TypeOK
<1>3. ASSUME NEW u \in Tx, u # t
      PROVE  /\ pc'[u] = "new" => /\ asked'[u] = << >> /\ done'[u] = 0 /\ prog'[u] = << >>
                                  /\ \A r \in Rows : draft'[u][r] = Clean
             /\ Running(u)' => \E j : Done(u, j)'
  <2>1. pc'[u] = pc[u] /\ prog'[u] = prog[u] /\ draft'[u] = draft[u] /\ sides'[u] = sides[u]
    BY <1>1, <1>3 DEF IInv, TypeOK
  <2>. QED  BY <1>1, <2>1, OthersProgress
<1>. QED  BY <1>2, <1>3 DEF ProgressInv, Running

LEMMA CommitProgress ==
    ASSUME IInv, ProgressInv, NEW t \in Tx, Commit(t)
    PROVE  ProgressInv'
<1>1. /\ pc' = [pc EXCEPT ![t] = "committed"] /\ UNCHANGED << asked, done, prog >>
      /\ val' = [r \in Rows |-> Visible(t, r)]
      /\ draft' = [draft EXCEPT ![t] = [r \in Rows |-> Clean]]
      /\ sides' = [sides EXCEPT ![t] = [r \in Rows |-> << >>]]
  BY DEF Commit
<1>2. pc'[t] = "committed"
  BY <1>1 DEF IInv, TypeOK
<1>3. ASSUME NEW u \in Tx, u # t
      PROVE  /\ pc'[u] = "new" => /\ asked'[u] = << >> /\ done'[u] = 0 /\ prog'[u] = << >>
                                  /\ \A r \in Rows : draft'[u][r] = Clean
             /\ Running(u)' => \E j : Done(u, j)'
  <2>1. pc'[u] = pc[u] /\ draft'[u] = draft[u] /\ sides'[u] = sides[u]
    BY <1>1, <1>3 DEF IInv, TypeOK
  <2>2. \A r \in Rows : draft[u][r] # Clean => val'[r] = val[r]
    BY <1>1, <1>3 DEF IInv, OwnerInv, Visible
  <2>. QED  BY <1>1, <2>1, <2>2, OthersProgress
<1>. QED  BY <1>2, <1>3 DEF ProgressInv, Running

LEMMA NextProgress ==
    ASSUME IInv, ProgressInv, [Next]_vars
    PROVE  ProgressInv'
<1>1. CASE UNCHANGED vars
  <2>1. ASSUME NEW u \in Tx
        PROVE  /\ pc'[u] = "new" => /\ asked'[u] = << >> /\ done'[u] = 0 /\ prog'[u] = << >>
                                    /\ \A r \in Rows : draft'[u][r] = Clean
               /\ Running(u)' => \E j : Done(u, j)'
    BY <1>1, OthersProgress DEF vars
  <2>. QED  BY <2>1 DEF ProgressInv
<1>2. ASSUME NEW t \in Tx, Begin(t) \/ Step(t) \/ Disconnect(t)
      PROVE  ProgressInv'
  <2>1. CASE Begin(t)
    BY <2>1, BeginProgress
  <2>2. CASE StartMovement(t)
    BY <2>2, StartMovementProgress
  <2>3. CASE LockAndAdjust(t)
    <3> DEFINE before == Visible(t, Current(t).row)
    <3>1. /\ pc[t] = "run" /\ prog[t] # << >> /\ Current(t).op \in {"assert", "adjust"}
          /\ before # NoRow /\ MayLock(t, Current(t).row) /\ before + Current(t).delta >= 0
          /\ Write(t, Current(t).row, before)
      BY <2>3 DEF LockAndAdjust, AtStatement, Sufficient
    <3>2. Current(t).row \in Rows
      <4>1. prog[t] \in Seq(Statements)
        BY DEF IInv, TypeOK
      <4>2. Current(t) \in Statements
        BY <3>1, <4>1 DEF Current
      <4>. QED  BY <4>2 DEF Statements
    <3>3. before \in Nat /\ before = Amount(before)
      BY <3>1, <3>2 DEF Visible, IInv, TypeOK, Quantity, Amount
    <3>. QED  BY <3>1, <3>3, WriteProgress DEF Running
  <2>4. CASE MissBatchRow(t)
    <3>1. /\ pc[t] = "run" /\ pc' = [pc EXCEPT ![t] = "insert"]
          /\ UNCHANGED << asked, done, prog, val, lock, draft, sides, ledger >>
      BY <2>4 DEF MissBatchRow, AtStatement
    <3>2. \A u \in Tx : /\ Running(u)' <=> Running(u)
                        /\ pc'[u] = "new" <=> pc[u] = "new"
      BY <3>1 DEF Running, IInv, TypeOK
    <3>3. \A u \in Tx : \A j : Done(u, j)' <=> Done(u, j)
      BY <3>1 DEF Done
    <3>. QED  BY <3>1, <3>2, <3>3 DEF ProgressInv
  <2>5. CASE InsertBatchRow(t)
    <3>1. /\ pc[t] = "insert" /\ MayLock(t, Current(t).row)
          /\ Visible(t, Current(t).row) = NoRow /\ Write(t, Current(t).row, 0)
      BY <2>5 DEF InsertBatchRow
    <3>2. prog[t] # << >> /\ Current(t).delta > 0 /\ Current(t).op = "adjust"
      BY <3>1 DEF IInv, ProgramInv
    <3>3. Current(t).delta \in Int
      <4>1. prog[t] \in Seq(Statements)
        BY DEF IInv, TypeOK
      <4>2. Current(t) \in Statements
        BY <3>2, <4>1 DEF Current
      <4>. QED  BY <4>2 DEF Statements
    <3>4. 0 \in Nat /\ 0 = Amount(Visible(t, Current(t).row)) /\ 0 + Current(t).delta >= 0
      BY <3>1, <3>2, <3>3 DEF Amount
    <3>. QED  BY <3>1, <3>2, <3>4, WriteProgress DEF Running
  <2>6. CASE Commit(t)
    BY <2>6, CommitProgress
  <2>7. CASE RefuseInsufficient(t) \/ InsertConflict(t) \/ RejectMovement(t) \/ DeadlockVictim(t)
             \/ Disconnect(t)
    BY <2>7, AbortProgress
       DEF RefuseInsufficient, InsertConflict, RejectMovement, DeadlockVictim, Disconnect
  <2>. QED  BY <1>2, <2>1, <2>2, <2>3, <2>4, <2>5, <2>6, <2>7 DEF Step
<1>. QED  BY <1>1, <1>2 DEF Next

-----------------------------------------------------------------------------
\* The steps of StockLedger are steps of StockAccount, or stutter.
LEMMA BeginSubmits ==
    ASSUME IInv, NEW t \in Tx, Begin(t)
    PROVE  Account!Submit(t)
<1>1. /\ pc[t] = "new" /\ pc' = [pc EXCEPT ![t] = "run"]
      /\ UNCHANGED << done, prog, val, lock, draft, sides, ledger >>
  BY DEF Begin
<1>2. PICK request \in Requests : asked' = [asked EXCEPT ![t] = request]
  BY DEF Begin
<1>3. Outcome[t] = "new" /\ Outcome' = [Outcome EXCEPT ![t] = "open"]
  BY <1>1 DEF Outcome, Running, IInv, TypeOK
<1> DEFINE R == [u \in Tx |-> RequestStatements(asked[u])]
<1>4. R' = [R EXCEPT ![t] = RequestStatements(request)]
  BY <1>2 DEF IInv, TypeOK
<1>5. RequestStatements(request) \in {RequestStatements(x) : x \in Requests}
  OBVIOUS
<1>. QED  BY <1>1, <1>3, <1>4, <1>5 DEF Account!Submit

LEMMA AbortRefuses ==
    ASSUME IInv, NEW t \in Tx, Running(t), Abort(t)
    PROVE  Account!Refuse(t)
<1>1. pc' = [pc EXCEPT ![t] = "aborted"] /\ UNCHANGED << asked, val, ledger >>
  BY DEF Abort
<1>2. Outcome[t] = "open" /\ Outcome' = [Outcome EXCEPT ![t] = "aborted"]
  BY <1>1 DEF Outcome, Running, IInv, TypeOK
<1>. QED  BY <1>1, <1>2 DEF Account!Refuse

\* A commit gives every row what the whole request makes of its balance at that
\* instant, and records the whole account of the request.
LEMMA CommitApplies ==
    ASSUME IInv, ProgressInv, NEW t \in Tx, Commit(t)
    PROVE  Account!Apply(t)
<1> DEFINE q == RequestStatements(asked[t])
           d == draft[t]
           s == sides[t]
           v == val
           final(r) == Account!Applied(q, r, Account!Held(r))[Len(q)]
<1>1. /\ pc[t] = "run" /\ prog[t] = << >> /\ done[t] = Len(asked[t])
      /\ pc' = [pc EXCEPT ![t] = "committed"]
      /\ val' = [r \in Rows |-> IF d[r] # Clean THEN d[r] ELSE v[r]]
      /\ ledger' = [r \in Rows |-> ledger[r] \o s[r]]
      /\ UNCHANGED asked
  BY DEF Commit, Visible
<1>2. PICK k : Done(t, k)
  BY <1>1 DEF ProgressInv, Running
<1>3. q \in Seq(Statements) /\ k = Len(q) /\ k \in 0 .. Len(q) /\ k \in Nat
  <2>1. q \in Seq(Statements)
    BY <1>2, DoneWithin
  <2>2. k \in Nat /\ k + Len(prog[t]) = Len(q)
    BY <1>1, <1>2 DEF Done, RequestStatements
  <2>3. Len(prog[t]) = 0
    BY <1>1
  <2>. QED  BY <2>1, <2>2, <2>3
<1>4. Ran(q, k, d, s, v)
  BY <1>2 DEF Done
<1>5. \A r : Account!Applied(q, r, Account!Held(r)) = RowIn(q, r, v)
  BY DEF Account!Held, RowIn, Amount
<1>6. Account!Admissible(q)
  BY <1>3, <1>4, <1>5 DEF Ran, Account!Admissible
<1>7. \A r \in Rows : final(r) = RowIn(q, r, v)[k]
  BY <1>3, <1>5
<1> HIDE DEF final
<1>8. ASSUME NEW r \in Rows
      PROVE  /\ (IF d[r] # Clean THEN d[r] ELSE v[r])
                    = (IF \E n \in 1 .. Len(q) : q[n].row = r THEN final(r).balance ELSE v[r])
             /\ s[r] = final(r).account
  <2>1. CASE \E n \in 1 .. Len(q) : q[n].row = r
    <3>1. d[r] # Clean /\ final(r) = [balance |-> d[r], account |-> s[r]]
      BY <1>3, <1>4, <1>7, <2>1 DEF Ran
    <3>. QED  BY <2>1, <3>1
  <2>2. CASE ~\E n \in 1 .. Len(q) : q[n].row = r
    <3>1. d[r] = Clean /\ s[r] = << >>
      BY <1>3, <1>4, <2>2 DEF Ran
    <3>2. RowIn(q, r, v)[k] = [balance |-> Amount(v[r]), account |-> << >>]
      <4> HIDE DEF q, v
      <4>1. \A i \in 1 .. k : q[i].row # r
        BY <1>3, <2>2
      <4>. QED  BY <1>3, <4>1, RowUntouched
    <3>. QED  BY <1>7, <2>2, <3>1, <3>2
  <2>. QED  BY <2>1, <2>2
<1>9. val' = [r \in Rows |-> IF \E n \in 1 .. Len(q) : q[n].row = r
                             THEN final(r).balance ELSE v[r]]
  BY <1>1, <1>8
<1>10. ledger' = [r \in Rows |-> ledger[r] \o final(r).account]
  BY <1>1, <1>8
<1>11. Outcome[t] = "open" /\ Outcome' = [Outcome EXCEPT ![t] = "committed"]
  BY <1>1 DEF Outcome, Running, IInv, TypeOK
<1>12. /\ [u \in Tx |-> RequestStatements(asked[u])][t] = q
       /\ UNCHANGED [u \in Tx |-> RequestStatements(asked[u])]
  BY <1>1
<1>. QED  BY <1>6, <1>9, <1>10, <1>11, <1>12 DEF Account!Apply, final

\* The other steps happen inside a request: StockAccount sees nothing of them.
LEMMA RunningStutters ==
    ASSUME IInv, NEW t \in Tx, Running(t), UNCHANGED << asked, val, ledger >>,
           \E p \in {"run", "insert"} : pc' = [pc EXCEPT ![t] = p]
    PROVE  UNCHANGED Account!vars
<1>1. ASSUME NEW u \in Tx PROVE Outcome'[u] = Outcome[u]
  BY DEF Outcome, Running, IInv, TypeOK
<1>2. Outcome' = Outcome
  BY <1>1 DEF Outcome
<1>. QED  BY <1>2 DEF Account!vars

LEMMA InitIsInitial == Init => Account!Init
<1> SUFFICES ASSUME Init PROVE Account!Init
  OBVIOUS
<1>1. RequestStatements(<< >>) = << >>
  <2>1. Len(<< >>) \in Nat /\ Len(<< >>) = 0
    OBVIOUS
  <2>. QED  BY <2>1, FirstUnfolds DEF RequestStatements
<1>2. [t \in Tx |-> RequestStatements(asked[t])] = [t \in Tx |-> << >>]
  BY <1>1 DEF Init
<1>3. Outcome = [t \in Tx |-> "new"]
  BY DEF Init, Outcome, Running
<1>. QED  BY <1>2, <1>3 DEF Init, Account!Init

LEMMA NextImplements ==
    ASSUME IInv, ProgressInv, [Next]_vars
    PROVE  [Account!Next]_(Account!vars)
<1>1. CASE UNCHANGED vars
  <2>1. UNCHANGED << pc, asked, val, ledger >>
    BY <1>1 DEF vars
  <2>2. UNCHANGED Account!vars
    BY <2>1 DEF Account!vars, Outcome, Running
  <2>. QED  BY <2>2
<1>2. ASSUME NEW t \in Tx, Begin(t) \/ Step(t) \/ Disconnect(t)
      PROVE  [Account!Next]_(Account!vars)
  <2>1. CASE Begin(t)
    BY <2>1, BeginSubmits DEF Account!Next
  <2>2. CASE StartMovement(t)
    <3>1. /\ Running(t) /\ pc[t] = "run" /\ UNCHANGED << pc, asked, val, ledger >>
      BY <2>2 DEF StartMovement, Running
    <3>2. pc' = [pc EXCEPT ![t] = "run"]
      BY <3>1 DEF IInv, TypeOK
    <3>. QED  BY <3>1, <3>2, RunningStutters
  <2>3. CASE LockAndAdjust(t) \/ InsertBatchRow(t)
    <3>1. /\ Running(t) /\ pc' = [pc EXCEPT ![t] = "run"] /\ UNCHANGED << asked, val, ledger >>
      BY <2>3 DEF LockAndAdjust, InsertBatchRow, AtStatement, Write, Running
    <3>. QED  BY <3>1, RunningStutters
  <2>4. CASE MissBatchRow(t)
    <3>1. /\ Running(t) /\ pc' = [pc EXCEPT ![t] = "insert"] /\ UNCHANGED << asked, val, ledger >>
      BY <2>4 DEF MissBatchRow, AtStatement, Running
    <3>. QED  BY <3>1, RunningStutters
  <2>5. CASE Commit(t)
    BY <2>5, CommitApplies DEF Account!Next
  <2>6. CASE RefuseInsufficient(t) \/ InsertConflict(t) \/ RejectMovement(t) \/ DeadlockVictim(t)
             \/ Disconnect(t)
    <3>1. Running(t) /\ Abort(t)
      BY <2>6
         DEF RefuseInsufficient, InsertConflict, RejectMovement, DeadlockVictim, Disconnect,
             AtStatement, Running, WaitsFor
    <3>. QED  BY <3>1, AbortRefuses DEF Account!Next
  <2>. QED  BY <1>2, <2>1, <2>2, <2>3, <2>4, <2>5, <2>6 DEF Step
<1>. QED  BY <1>1, <1>2 DEF Next

\* Requests take effect whole and one after the other, in the order in which
\* they commit, each on the balances of that instant (the transaction of
\* createStockMovementInTx, movement.ts, with the row locks of balance.ts): the
\* stock module implements StockAccount.
THEOREM RequestsAreAtomic == Spec => AppliedWholeAndInOrder
<1>1. Spec => []ProgressInv
  BY Inductive, InitProgress, NextProgress, PTL DEF Spec
<1>2. Spec => Account!Spec
  BY <1>1, Inductive, InitIsInitial, NextImplements, PTL DEF Spec, Account!Spec
<1>. QED  BY <1>2 DEF AppliedWholeAndInOrder
=============================================================================
