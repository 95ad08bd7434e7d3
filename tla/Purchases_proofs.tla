--------------------------- MODULE Purchases_proofs ---------------------------
(***************************************************************************)
(* Proofs about Purchases, for any number of requests, notes, items and     *)
(* products: what is in stock is what the launched notes brought, however   *)
(* requests overlap; the payables and settlements of a note follow its      *)
(* entry, as long as requests that do not lock its header do not overlap    *)
(* others of the note; and the deletion of an entry gives a product its     *)
(* costs back when nothing else has changed the product.                    *)
(***************************************************************************)
EXTENDS Purchases, SumTheorems, SequenceTheorems, TLAPS

(***************************************************************************)
(* The types of the state.                                                  *)
(***************************************************************************)
AllKinds == {"none", "lancar", "excluir", "dispensar", "repor", "payable", "settle"}
Labels == {"new", "read", "lock", "line", "linked", "insert", "revert", "takeout", "payables",
           "delete", "write", "open", "pay", "done"}
Half == Worth \div 2
Opens == {0, Half, Worth}
Fractions == {Null} \cup (Int \X (Nat \ {0}))
ProductRows == [balance : Int, cost : Fractions, previous : Fractions, average : Fractions]
Works == UNION {[D -> ProductRows] : D \in SUBSET Products}
TitleRows == [note : Notes \cup {"none"}, status : {"none", "ABERTO", "CANCELADO"},
              open : Opens, original : {0, Worth}]
Settlements == [title : Titles, by : Tx, amount : Opens]
Requests == [kind : AllKinds, note : Notes \cup {"none"}, freight : {"none", "open", "paid"},
             locked : BOOLEAN, work : Works, items : SUBSET (Nat \ {0}), title : Titles \cup {<< >>},
             sum : Opens, voids : SUBSET Titles, payments : SUBSET Settlements]

Shape ==
    /\ note \in [Notes -> [launched : BOOLEAN, dispensed : BOOLEAN]]
    /\ moved \subseteq Notes \X Nat /\ IsFiniteSet(moved)
    /\ stock \in [Products -> ProductRows]
    /\ title \in [Titles -> TitleRows]
    /\ settled \subseteq Settlements /\ IsFiniteSet(settled)
    /\ pc \in [Tx -> Labels] /\ my \in [Tx -> Requests]
    /\ sold \in [Products -> Nat]
    /\ before \in [Notes -> [Products -> ProductRows]]
    /\ touched \subseteq Notes \X Products /\ overlap \subseteq Notes

\* How far a request is.
Launching(t) == my[t].kind = "lancar" /\ pc[t] \in {"line", "linked", "insert"}
Deleting(t) == pc[t] \in {"revert", "takeout", "payables", "delete"}
Listed(t) == {my[t].note} \X my[t].items
Brought(p, S) == SumFunctionOnSet([x \in S |-> Item(x).quantity], {x \in S : Item(x).product = p})

RequestAt(t) ==
    /\ t \notin UnderWay => my[t] = Idle
    /\ t \in UnderWay => my[t].note \in Notes
    /\ At(t, "read") => my[t].kind \in {"lancar", "dispensar", "repor"}
    /\ At(t, "lock") => my[t].kind \in {"lancar", "excluir"}
    /\ At(t, "line") => my[t].kind = "lancar"
    /\ pc[t] \in {"linked", "insert"} => my[t].kind \in {"lancar", "payable"}
    /\ pc[t] \in {"revert", "takeout", "payables", "delete"} => my[t].kind = "excluir"
    /\ At(t, "write") => my[t].kind \in {"dispensar", "repor"}
    /\ pc[t] \in {"open", "pay"} => my[t].kind = "settle"
    /\ my[t].kind # "lancar" => my[t].freight = "none"
    /\ my[t].locked <=> Launching(t) \/ Deleting(t)
    /\ ~my[t].locked => my[t].work = << >> /\ my[t].items = {}

\* A launch has entered the first items, a deletion some items.
EntryAt(t) ==
    /\ my[t].locked => DOMAIN my[t].work = {Lines[my[t].note][k].product : k \in my[t].items}
                       /\ my[t].items \subseteq DOMAIN Lines[my[t].note]
    /\ Launching(t) =>
        /\ ~note[my[t].note].launched /\ ~note[my[t].note].dispensed
        /\ \E c \in 0 .. Len(Lines[my[t].note]) :
            my[t].items = 1 .. c /\ (At(t, "line") <=> c < Len(Lines[my[t].note]))
        /\ \A p \in DOMAIN my[t].work :
            my[t].work[p].balance = stock[p].balance + Brought(p, Listed(t))
    /\ Deleting(t) =>
        /\ note[my[t].note].launched
        /\ ~At(t, "revert") => my[t].items = DOMAIN Lines[my[t].note]
        /\ \A p \in DOMAIN my[t].work :
            /\ my[t].work[p].balance = stock[p].balance - Brought(p, Listed(t))
            /\ pc[t] \in {"payables", "delete"} => my[t].work[p].balance >= 0

\* The costs of a product that the note lists once.
Single(n, k) == LinesOf(n, Lines[n][k].product) = {k}
CostAt(t) ==
    \A k \in my[t].items : Single(my[t].note, k) =>
        LET line == Lines[my[t].note][k]
        IN  my[t].work[line.product] = IF Launching(t) THEN Entered(stock[line.product], line)
                                       ELSE Reverted(stock[line.product], line)
CostsOf(n) ==
    note[n].launched =>
        \A k \in DOMAIN Lines[n] :
            LET line == Lines[n][k]
            IN  Single(n, k) /\ << n, line.product >> \notin touched =>
                    stock[line.product] = Entered(before[n][line.product], line)

\* Who holds what.
HeadersHeld ==
    \A t, u \in Tx : t # u /\ my[t].locked /\ my[u].locked => my[t].note # my[u].note
ProductsHeld ==
    \A t, u \in Tx : t # u => DOMAIN my[t].work \cap DOMAIN my[u].work = {}
Alone ==
    \A t, u \in UnderWay : t # u /\ my[t].note = my[u].note /\ my[t].note \notin overlap =>
        my[t].kind \notin Unlocked

\* The rows of titles and settlements.
TitlesStored ==
    /\ \A T \in Titles :
        \/ title[T] = NoTitle
        \/ title[T].note \in Notes /\ title[T].status # "none" /\ title[T].original = Worth
           /\ At(T[1], "done")
    /\ \A s \in settled : title[s.title].note \in Notes /\ At(s.by, "done")

\* What a request knows of the payables of its note.
PayableAt(t) ==
    LET n == my[t].note
    IN  /\ pc[t] \in {"open", "pay"} => my[t].title \in Titles /\ title[my[t].title].note = n
        /\ At(t, "pay") => my[t].sum > 0
        /\ At(t, "delete") =>
            /\ \A T \in my[t].voids : title[T].note = n
            /\ \A s \in my[t].payments : title[s.title].note = n
        /\ n \notin overlap =>
            /\ At(t, "pay") => title[my[t].title].status = "ABERTO"
                               /\ title[my[t].title].open = my[t].sum
            /\ At(t, "insert") => PayablesOf(n) = {}
            /\ At(t, "write") /\ my[t].kind = "dispensar" => ~note[n].launched
            /\ At(t, "delete") => my[t].voids = PayablesOf(n)
                                  /\ my[t].payments = BaixasOf(my[t].voids)

BalancesHeld ==
    /\ \A p \in Products : stock[p].balance >= 0
    /\ \A n \in Notes, p \in Products : before[n][p].balance >= 0

RequestOK(t) == RequestAt(t) /\ EntryAt(t) /\ CostAt(t) /\ PayableAt(t)

\* The inductive invariant.
IInv ==
    /\ Shape
    /\ \A t \in Tx : RequestOK(t)
    /\ HeadersHeld /\ ProductsHeld /\ Alone
    /\ TitlesStored
    /\ BalancesHeld /\ EntriesMatchStock
    /\ \A n \in Notes : CostsOf(n)
    /\ PayablesFollowEntries

-----------------------------------------------------------------------------
(***************************************************************************)
(* The data: items, rows, sums.                                             *)
(***************************************************************************)
ItemRows == [product : Products, quantity : Nat \ {0}, cost : Nat \ {0}]
AllItems == {x \in Notes \X Nat : x[2] \in DOMAIN Lines[x[1]]}
ItemsOf(n) == {n} \X DOMAIN Lines[n]

LEMMA ItemTypes ==
    ASSUME NEW n \in Notes
    PROVE  /\ Len(Lines[n]) \in Nat \ {0} /\ DOMAIN Lines[n] = 1 .. Len(Lines[n])
           /\ \A k \in DOMAIN Lines[n] : Lines[n][k] \in ItemRows /\ k \in Nat \ {0}
           /\ IsFiniteSet(DOMAIN Lines[n])
<1>1. Lines[n] \in Seq(ItemRows) /\ Lines[n] # << >>
  BY PurchasesAssumption DEF PurchasesAssumption, ItemRows
<1>2. Len(Lines[n]) \in Nat /\ DOMAIN Lines[n] = 1 .. Len(Lines[n])
      /\ \A k \in 1 .. Len(Lines[n]) : Lines[n][k] \in ItemRows
  BY <1>1, LenProperties, ElementOfSeq
<1>3. Len(Lines[n]) # 0
  BY <1>1, EmptySeq
<1>4. IsFiniteSet(1 .. Len(Lines[n]))
  BY <1>2, FS_Interval
<1>. QED  BY <1>2, <1>3, <1>4

LEMMA ItemIsTyped ==
    ASSUME NEW x \in AllItems
    PROVE  Item(x) \in ItemRows /\ Item(x).product \in Products
           /\ Item(x).quantity \in Nat /\ Item(x).cost \in Nat \ {0}
<1>1. x[1] \in Notes /\ x[2] \in DOMAIN Lines[x[1]]
  BY DEF AllItems
<1>2. Item(x) \in ItemRows
  BY <1>1, ItemTypes DEF Item
<1>. QED  BY <1>2 DEF ItemRows

LEMMA ItemsOfNote ==
    ASSUME NEW n \in Notes
    PROVE  /\ ItemsOf(n) \subseteq AllItems /\ IsFiniteSet(ItemsOf(n))
           /\ \A k \in DOMAIN Lines[n] : Item(<< n, k >>) = Lines[n][k] /\ << n, k >> \in AllItems
<1>1. IsFiniteSet({n}) /\ IsFiniteSet(DOMAIN Lines[n]) /\ \A k \in DOMAIN Lines[n] : k \in Nat
  BY FS_Singleton, ItemTypes
<1>2. IsFiniteSet(ItemsOf(n))
  BY <1>1, FS_Product DEF ItemsOf
<1>. QED  BY <1>1, <1>2 DEF ItemsOf, AllItems, Item

\* What a set of items brought of a product.
LEMMA BroughtIsNat ==
    ASSUME NEW p, NEW S \in SUBSET AllItems, IsFiniteSet(S)
    PROVE  Brought(p, S) \in Nat
<1> DEFINE f == [x \in S |-> Item(x).quantity]
           P == {x \in S : Item(x).product = p}
<1>1. IsFiniteSet(P) /\ \A x \in P : f[x] \in Nat
  BY FS_Subset, ItemIsTyped
<1>. HIDE DEF f, P
<1>2. SumFunctionOnSet(f, P) \in Nat
  BY <1>1, SumIsNat
<1>. QED  BY <1>2 DEF f, P, Brought

LEMMA BroughtOfUnion ==
    ASSUME NEW p, NEW S \in SUBSET AllItems, NEW U \in SUBSET AllItems,
           IsFiniteSet(S), IsFiniteSet(U), S \cap U = {}
    PROVE  Brought(p, S \cup U) = Brought(p, S) + Brought(p, U)
<1> DEFINE f == [x \in S |-> Item(x).quantity]
           g == [x \in U |-> Item(x).quantity]
           h == [x \in S \cup U |-> Item(x).quantity]
           P == {x \in S : Item(x).product = p}
           Q == {x \in U : Item(x).product = p}
<1>1. IsFiniteSet(P) /\ IsFiniteSet(Q)
  BY FS_Subset
<1>2. P \cap Q = {} /\ {x \in S \cup U : Item(x).product = p} = P \cup Q
  OBVIOUS
<1>3. (\A x \in P \cup Q : h[x] \in Int) /\ (\A x \in P : h[x] = f[x]) /\ \A x \in Q : h[x] = g[x]
  BY ItemIsTyped
<1>. HIDE DEF f, g, h, P, Q
<1>4. SumFunctionOnSet(h, P \cup Q) = SumFunctionOnSet(h, P) + SumFunctionOnSet(h, Q)
  BY <1>1, <1>2, <1>3, SumOfUnion
<1>5. SumFunctionOnSet(h, P) = SumFunctionOnSet(f, P) /\ SumFunctionOnSet(h, Q) = SumFunctionOnSet(g, Q)
  BY <1>1, <1>3, SumDependsOnValues
<1>. QED  BY <1>2, <1>4, <1>5 DEF f, g, h, P, Q, Brought

LEMMA BroughtOfNone ==
    ASSUME NEW p, NEW S, \A x \in S : Item(x).product # p
    PROVE  Brought(p, S) = 0
<1>1. {x \in S : Item(x).product = p} = {}
  OBVIOUS
<1>. QED  BY <1>1, SumOfNothing DEF Brought

LEMMA BroughtOfOne ==
    ASSUME NEW p, NEW y \in AllItems
    PROVE  Brought(p, {y}) = IF Item(y).product = p THEN Item(y).quantity ELSE 0
<1>1. CASE Item(y).product # p
  BY <1>1, BroughtOfNone
<1>2. CASE Item(y).product = p
  <2> DEFINE f == [x \in {y} |-> Item(x).quantity]
  <2>1. {x \in {y} : Item(x).product = p} = {} \cup {y} /\ f[y] = Item(y).quantity
    BY <1>2
  <2>2. IsFiniteSet({}) /\ y \notin {} /\ \A x \in {} \cup {y} : f[x] \in Int
    BY FS_EmptySet, ItemIsTyped
  <2>. HIDE DEF f
  <2>3. SumFunctionOnSet(f, {} \cup {y}) = SumFunctionOnSet(f, {}) + f[y]
    BY <2>2, SumWith
  <2>4. f[y] \in Nat
    BY <2>1, ItemIsTyped
  <2>5. SumFunctionOnSet(f, {} \cup {y}) = Item(y).quantity
    BY <2>1, <2>3, <2>4, SumOfNothing
  <2>. QED  BY <1>2, <2>1, <2>5 DEF f, Brought
<1>. QED  BY <1>1, <1>2

\* What an item brings of a product.
Share(n, k, p) == IF Lines[n][k].product = p THEN Lines[n][k].quantity ELSE 0

\* One item more of a note.
LEMMA BroughtWithItem ==
    ASSUME NEW n \in Notes, NEW K \in SUBSET (DOMAIN Lines[n]), NEW k \in DOMAIN Lines[n],
           k \notin K, NEW p
    PROVE  /\ Brought(p, {n} \X K) \in Nat
           /\ Brought(p, {n} \X (K \cup {k})) = Brought(p, {n} \X K) + Share(n, k, p)
<1>1. {n} \X K \in SUBSET AllItems /\ IsFiniteSet({n} \X K)
  <2>1. {n} \X K \in SUBSET ItemsOf(n)
    BY DEF ItemsOf
  <2>. QED  BY <2>1, ItemsOfNote, FS_Subset
<1>2. << n, k >> \in AllItems /\ Item(<< n, k >>) = Lines[n][k]
  BY ItemsOfNote
<1>3. {<< n, k >>} \in SUBSET AllItems /\ IsFiniteSet({<< n, k >>})
      /\ ({n} \X K) \cap {<< n, k >>} = {}
      /\ {n} \X (K \cup {k}) = ({n} \X K) \cup {<< n, k >>}
  <2>1. {n} \X (K \cup {k}) = ({n} \X K) \cup {<< n, k >>}
    OBVIOUS
  <2>2. ({n} \X K) \cap {<< n, k >>} = {}
    OBVIOUS
  <2>. QED  BY <1>2, <2>1, <2>2, FS_Singleton
<1>4. Brought(p, {n} \X (K \cup {k})) = Brought(p, {n} \X K) + Brought(p, {<< n, k >>})
  BY <1>1, <1>3, BroughtOfUnion
<1>. QED  BY <1>1, <1>2, <1>4, BroughtIsNat, BroughtOfOne DEF Share

\* What is settled of a title.
LEMMA SettlementFacts ==
    /\ Half \in Nat /\ Worth \in Nat /\ Worth = Half + Half /\ Opens \subseteq Nat
    /\ \A s \in Settlements : s.amount \in Nat /\ s.title \in Titles /\ s.by \in Tx
<1>1. Worth \in Nat /\ Worth % 2 = 0
  BY PurchasesAssumption DEF PurchasesAssumption
<1>2. Half \in Nat /\ Worth = Half + Half
  BY <1>1 DEF Half
<1>3. Opens \subseteq Nat
  BY <1>1, <1>2 DEF Opens
<1>. QED  BY <1>1, <1>2, <1>3 DEF Settlements

LEMMA AmountsOfSame ==
    ASSUME NEW T, NEW S \in SUBSET Settlements, NEW U \in SUBSET Settlements, IsFiniteSet(S),
           {s \in S : s.title = T} = {s \in U : s.title = T}
    PROVE  AmountsOn(T, S) = AmountsOn(T, U) /\ AmountsOn(T, S) \in Nat
<1> DEFINE f == [s \in S |-> s.amount]
           g == [s \in U |-> s.amount]
           P == {s \in S : s.title = T}
<1>1. IsFiniteSet(P)
  BY FS_Subset
<1>2. P = {s \in U : s.title = T}
  OBVIOUS
<1>3. \A x \in P : x \in S /\ x \in U
  BY <1>2
<1>4. \A x \in P : f[x] = g[x] /\ f[x] \in Nat
  BY <1>3, SettlementFacts
<1>. HIDE DEF f, g, P
<1>5. SumFunctionOnSet(f, P) = SumFunctionOnSet(g, P) /\ SumFunctionOnSet(f, P) \in Nat
  BY <1>1, <1>4, SumDependsOnValues, SumIsNat
<1>. QED  BY <1>2, <1>5 DEF f, g, P, AmountsOn

LEMMA AmountsOfNone ==
    ASSUME NEW T, NEW S, \A s \in S : s.title # T
    PROVE  AmountsOn(T, S) = 0
<1>1. {s \in S : s.title = T} = {}
  OBVIOUS
<1>. QED  BY <1>1, SumOfNothing DEF AmountsOn

LEMMA AmountsWith ==
    ASSUME NEW T, NEW S \in SUBSET Settlements, IsFiniteSet(S), NEW y \in Settlements, y \notin S
    PROVE  AmountsOn(T, S) \in Nat
           /\ AmountsOn(T, S \cup {y}) = AmountsOn(T, S) + (IF y.title = T THEN y.amount ELSE 0)
<1> DEFINE f == [s \in S |-> s.amount]
           g == [s \in S \cup {y} |-> s.amount]
           P == {s \in S : s.title = T}
<1>1. AmountsOn(T, S) \in Nat
  BY AmountsOfSame
<1>2. CASE y.title # T
  <2>1. {s \in S : s.title = T} = {s \in S \cup {y} : s.title = T} /\ S \cup {y} \in SUBSET Settlements
    BY <1>2
  <2>2. AmountsOn(T, S) = AmountsOn(T, S \cup {y})
    BY <2>1, AmountsOfSame
  <2>. QED  BY <1>1, <1>2, <2>2
<1>3. CASE y.title = T
  <2>1. IsFiniteSet(P) /\ y \notin P /\ {s \in S \cup {y} : s.title = T} = P \cup {y}
    BY <1>3, FS_Subset
  <2>2. (\A x \in P \cup {y} : g[x] \in Int) /\ (\A x \in P : f[x] = g[x]) /\ g[y] = y.amount
    BY SettlementFacts
  <2>. HIDE DEF f, g, P
  <2>3. SumFunctionOnSet(g, P \cup {y}) = SumFunctionOnSet(g, P) + g[y]
        /\ SumFunctionOnSet(f, P) = SumFunctionOnSet(g, P)
    BY <2>1, <2>2, SumWith, SumDependsOnValues
  <2>. QED  BY <1>1, <1>3, <2>1, <2>2, <2>3 DEF f, g, P, AmountsOn
<1>. QED  BY <1>2, <1>3

-----------------------------------------------------------------------------
(***************************************************************************)
(* What a step leaves alone.                                                *)
(***************************************************************************)
LEMMA NoWork == << >> \in Works /\ DOMAIN << >> = {}
<1>1. << >> \in Seq(Products) /\ Len(<< >>) = 0
  BY EmptySeq
<1>2. DOMAIN << >> = {}
  BY <1>1, LenProperties
<1>3. << >> \in [{} -> ProductRows]
  BY <1>2
<1>. QED  BY <1>2, <1>3 DEF Works

LEMMA IdleIsTyped == Idle \in Requests
<1>1. << >> \in Works /\ 0 \in Opens /\ "none" \in AllKinds
  BY NoWork DEF Opens, AllKinds
<1>. QED  BY <1>1 DEF Idle, Requests

LEMMA GoTypes ==
    ASSUME NEW t \in Tx, NEW l \in Labels, NEW r \in Requests, Shape, Go(t, l, r)
    PROVE  /\ pc' \in [Tx -> Labels] /\ my' \in [Tx -> Requests]
           /\ pc'[t] = l /\ my'[t] = IF l = "done" THEN Idle ELSE r
           /\ \A u \in Tx \ {t} : pc'[u] = pc[u] /\ my'[u] = my[u]
<1>1. pc \in [Tx -> Labels] /\ my \in [Tx -> Requests]
  BY DEF Shape
<1> DEFINE q == IF l = "done" THEN Idle ELSE r
<1>2. pc' = [pc EXCEPT ![t] = l] /\ my' = [my EXCEPT ![t] = q] /\ q \in Requests
  BY IdleIsTyped DEF Go
<1>. HIDE DEF q
<1>3. /\ pc' \in [Tx -> Labels] /\ my' \in [Tx -> Requests] /\ pc'[t] = l /\ my'[t] = q
      /\ \A u \in Tx \ {t} : pc'[u] = pc[u] /\ my'[u] = my[u]
  BY <1>1, <1>2
<1>. QED  BY <1>3 DEF q

\* A request that has ended knows nothing.
LEMMA DoneIsOK ==
    ASSUME NEW t \in Tx, pc'[t] = "done", my'[t] = Idle
    PROVE  RequestOK(t)' /\ my'[t].locked = FALSE /\ DOMAIN my'[t].work = {}
<1>1. /\ my'[t].kind = "none" /\ my'[t].freight = "none" /\ my'[t].locked = FALSE
      /\ my'[t].work = << >> /\ my'[t].items = {} /\ t \notin UnderWay'
  BY DEF Idle, UnderWay
<1>2. ~Launching(t)' /\ ~Deleting(t)'
  BY <1>1 DEF Launching, Deleting
<1>3. RequestAt(t)'
  BY <1>1, <1>2 DEF RequestAt, At
<1>4. EntryAt(t)'
  BY <1>1, <1>2 DEF EntryAt
<1>5. CostAt(t)'
  BY <1>1 DEF CostAt
<1>6. PayableAt(t)'
  BY DEF PayableAt, At
<1>. QED  BY <1>1, <1>3, <1>4, <1>5, <1>6, NoWork DEF RequestOK

\* A request that another one does not disturb.
LEMMA OtherRequest ==
    ASSUME NEW u \in Tx, pc'[u] = pc[u], my'[u] = my[u],
           RequestAt(u), EntryAt(u), CostAt(u),
           my[u].locked => note'[my[u].note] = note[my[u].note],
           \A p \in DOMAIN my[u].work : stock'[p] = stock[p]
    PROVE  RequestAt(u)' /\ EntryAt(u)' /\ CostAt(u)'
<1>1. /\ (u \in UnderWay)' <=> u \in UnderWay
      /\ Launching(u)' <=> Launching(u)
      /\ Deleting(u)' <=> Deleting(u)
      /\ Listed(u)' = Listed(u)
      /\ \A l : At(u, l)' <=> At(u, l)
  BY DEF UnderWay, Launching, Deleting, Listed, At
<1>2. RequestAt(u)'
  BY <1>1 DEF RequestAt, At
<1>3. EntryAt(u)'
  <2>1. Launching(u) \/ Deleting(u) => my[u].locked
    BY DEF RequestAt
  <2>2. /\ my'[u].locked => DOMAIN my'[u].work = {Lines[my'[u].note][k].product : k \in my'[u].items}
                            /\ my'[u].items \subseteq DOMAIN Lines[my'[u].note]
        /\ pc'[u] \in {"payables", "delete"} <=> pc[u] \in {"payables", "delete"}
    BY DEF EntryAt
  <2>3. Launching(u) =>
        /\ ~note'[my[u].note].launched /\ ~note'[my[u].note].dispensed
        /\ \E c \in 0 .. Len(Lines[my[u].note]) :
            my[u].items = 1 .. c /\ (At(u, "line") <=> c < Len(Lines[my[u].note]))
        /\ \A p \in DOMAIN my[u].work :
            my[u].work[p].balance = stock'[p].balance + Brought(p, Listed(u))
    BY <2>1 DEF EntryAt
  <2>4. Deleting(u) =>
        /\ note'[my[u].note].launched
        /\ ~At(u, "revert") => my[u].items = DOMAIN Lines[my[u].note]
        /\ \A p \in DOMAIN my[u].work :
            /\ my[u].work[p].balance = stock'[p].balance - Brought(p, Listed(u))
            /\ pc[u] \in {"payables", "delete"} => my[u].work[p].balance >= 0
    BY <2>1 DEF EntryAt
  <2>5. \A p : Brought(p, Listed(u))' = Brought(p, Listed(u))
    BY <1>1 DEF Brought
  <2>. QED  BY <1>1, <2>2, <2>3, <2>4, <2>5 DEF EntryAt
<1>4. CostAt(u)'
  <2>1. \A k \in my[u].items : Lines[my[u].note][k].product \in DOMAIN my[u].work
    BY DEF RequestAt, EntryAt
  <2>2. \A k \in my[u].items :
            stock'[Lines[my[u].note][k].product] = stock[Lines[my[u].note][k].product]
    BY <2>1
  <2>. QED  BY <1>1, <2>2 DEF CostAt
<1>. QED  BY <1>2, <1>3, <1>4

\* A step that writes nothing others can read.
LEMMA LocalStep ==
    ASSUME IInv, NEW t \in Tx, pc[t] # "done", NEW l \in Labels \ {"new"}, NEW r \in Requests,
           Go(t, l, r), UNCHANGED tables, overlap \subseteq overlap', overlap' \subseteq Notes,
           RequestOK(t)',
           \A u \in Tx \ {t} : my'[t].locked /\ my[u].locked => my'[t].note # my[u].note,
           \A u \in Tx \ {t} : DOMAIN my'[t].work \cap DOMAIN my[u].work = {},
           l # "done" => \A u \in UnderWay \ {t} :
                my'[t].note = my[u].note /\ my'[t].note \notin overlap' =>
                    my'[t].kind \notin Unlocked /\ my[u].kind \notin Unlocked
    PROVE  IInv'
<1>1. Shape
  BY DEF IInv
<1>2. /\ pc' \in [Tx -> Labels] /\ my' \in [Tx -> Requests] /\ pc'[t] = l
      /\ \A u \in Tx \ {t} : pc'[u] = pc[u] /\ my'[u] = my[u]
  BY <1>1, GoTypes
<1>3. /\ note' = note /\ moved' = moved /\ stock' = stock /\ title' = title
      /\ settled' = settled /\ sold' = sold /\ before' = before /\ touched' = touched
  BY DEF tables
<1>4. Shape'
  BY <1>1, <1>2, <1>3 DEF Shape
<1>5. \A u \in Tx : RequestOK(u)'
  <2>1. TAKE u \in Tx
  <2>2. CASE u = t
    BY <2>2
  <2>3. CASE u # t
    <3>1. RequestAt(u) /\ EntryAt(u) /\ CostAt(u) /\ PayableAt(u) /\ pc'[u] = pc[u] /\ my'[u] = my[u]
      BY <1>2, <2>3 DEF IInv, RequestOK
    <3>2. RequestAt(u)' /\ EntryAt(u)' /\ CostAt(u)'
      BY <1>3, <3>1, OtherRequest
    <3>3. PayableAt(u)'
      <4>1. /\ \A n : PayablesOf(n)' = PayablesOf(n)
            /\ \A K : BaixasOf(K)' = BaixasOf(K)
        BY <1>3 DEF PayablesOf, BaixasOf
      <4>. QED  BY <1>3, <3>1, <4>1 DEF PayableAt, At
    <3>. QED  BY <3>2, <3>3 DEF RequestOK
  <2>. QED  BY <2>2, <2>3
<1>6. HeadersHeld'
  BY <1>2 DEF HeadersHeld, IInv
<1>7. ProductsHeld'
  BY <1>2 DEF ProductsHeld, IInv
<1>8. Alone'
  <2>1. \A u \in Tx \ {t} : (u \in UnderWay)' <=> u \in UnderWay
    BY <1>2 DEF UnderWay
  <2>2. (t \in UnderWay)' <=> l # "done"
    BY <1>2 DEF UnderWay
  <2>3. UnderWay' \subseteq Tx /\ UnderWay \subseteq Tx
    BY DEF UnderWay
  <2>. QED  BY <1>2, <2>1, <2>2, <2>3 DEF Alone, IInv
<1>9. TitlesStored'
  <2>1. \A u \in Tx : At(u, "done") => At(u, "done")'
    BY <1>2 DEF At
  <2>2. \A T \in Titles : T[1] \in Tx
    BY DEF Titles
  <2>3. \A s \in settled : s.by \in Tx
    BY <1>1, SettlementFacts DEF Shape
  <2>. QED  BY <1>3, <2>1, <2>2, <2>3 DEF TitlesStored, IInv
<1>10. BalancesHeld' /\ EntriesMatchStock' /\ (\A n \in Notes : CostsOf(n))'
  BY <1>3 DEF IInv, BalancesHeld, EntriesMatchStock, CostsOf
<1>11. PayablesFollowEntries'
  BY <1>3 DEF IInv, PayablesFollowEntries, PayablesOf
<1>. QED  BY <1>4, <1>5, <1>6, <1>7, <1>8, <1>9, <1>10, <1>11 DEF IInv

-----------------------------------------------------------------------------
(***************************************************************************)
(* The steps that only change what a request knows.                         *)
(***************************************************************************)
LEMMA EndStep ==
    ASSUME IInv, NEW t \in Tx, pc[t] # "done", End(t), OnlyRequest
    PROVE  IInv'
<1>1. Go(t, "done", Idle) /\ Idle \in Requests /\ "done" \in Labels \ {"new"} /\ Shape
  BY IdleIsTyped DEF End, Labels, IInv
<1>2. pc'[t] = "done" /\ my'[t] = Idle
  BY <1>1, GoTypes
<1>3. RequestOK(t)' /\ my'[t].locked = FALSE /\ DOMAIN my'[t].work = {}
  BY <1>2, DoneIsOK
<1>4. UNCHANGED tables /\ overlap \subseteq overlap' /\ overlap' \subseteq Notes
  BY <1>1 DEF OnlyRequest, Shape
<1>. QED  BY <1>1, <1>3, <1>4, LocalStep

\* A request that goes on, and may take locks that are free.
LEMMA AdvanceStep ==
    ASSUME IInv, NEW t \in Tx, t \in UnderWay, NEW l \in Labels \ {"new", "done"},
           NEW r \in Requests, Go(t, l, r), OnlyRequest, RequestOK(t)',
           r.note = my[t].note, r.kind = my[t].kind,
           r.locked => my[t].locked \/ HeaderFree(t, r.note),
           \A p \in DOMAIN r.work : p \in DOMAIN my[t].work \/ ProductFree(t, p)
    PROVE  IInv'
<1>1. Shape /\ HeadersHeld /\ ProductsHeld /\ Alone /\ \A u \in Tx : RequestAt(u)
  BY DEF IInv, RequestOK
<1>2. my'[t] = r /\ l \in Labels
  BY <1>1, GoTypes
<1>3. \A u \in Tx \ {t} : u \notin UnderWay => ~my[u].locked /\ DOMAIN my[u].work = {}
  BY <1>1, NoWork DEF RequestAt, Idle
<1>4. \A u \in Tx \ {t} : my'[t].locked /\ my[u].locked => my'[t].note # my[u].note
  BY <1>1, <1>2, <1>3 DEF HeaderFree, HeadersHeld
<1>5. \A u \in Tx \ {t} : DOMAIN my'[t].work \cap DOMAIN my[u].work = {}
  BY <1>1, <1>2, <1>3 DEF ProductFree, ProductsHeld
<1>6. \A u \in UnderWay \ {t} : my'[t].note = my[u].note /\ my'[t].note \notin overlap' =>
            my'[t].kind \notin Unlocked /\ my[u].kind \notin Unlocked
  BY <1>1, <1>2 DEF Alone, OnlyRequest
<1>7. UNCHANGED tables /\ overlap \subseteq overlap' /\ overlap' \subseteq Notes /\ pc[t] # "done"
  BY <1>1 DEF OnlyRequest, Shape, UnderWay
<1>. QED  BY <1>4, <1>5, <1>6, <1>7, LocalStep

\* Neither sees the tables change.
LEMMA TablesStay ==
    ASSUME OnlyRequest
    PROVE  /\ note' = note /\ moved' = moved /\ stock' = stock /\ title' = title
           /\ settled' = settled /\ sold' = sold /\ before' = before /\ touched' = touched
           /\ overlap' = overlap
           /\ \A n : PayablesOf(n)' = PayablesOf(n)
           /\ \A K : BaixasOf(K)' = BaixasOf(K)
  BY DEF OnlyRequest, tables, PayablesOf, BaixasOf

\* One that has not locked the header has no work, and what it knows of the
\* entry is as it was.
LEMMA UnlockedEntry ==
    ASSUME NEW t \in Tx, ~my'[t].locked, RequestAt(t)'
    PROVE  EntryAt(t)' /\ CostAt(t)'
  BY DEF RequestAt, EntryAt, CostAt

LEMMA StartKeeps ==
    ASSUME IInv, NEW t \in Tx, Start(t)
    PROVE  IInv'
<1>1. Shape /\ Alone /\ RequestAt(t) /\ pc[t] = "new"
  BY DEF IInv, RequestOK, Start, At
<1>2. PICK k \in Kinds, n \in Notes, f \in Freights :
        /\ f = "none" \/ k = "lancar"
        /\ LET r == [Idle EXCEPT !.kind = k, !.note = n, !.freight = f]
           IN  \/ k \in {"lancar", "dispensar", "repor"} /\ Go(t, "read", r)
               \/ k = "excluir" /\ Go(t, "lock", r)
               \/ k = "payable" /\ Go(t, "linked", r)
               \/ /\ k = "settle"
                  /\ \E T \in Titles : title[T].note = n /\ Go(t, "open", [r EXCEPT !.title = T])
        /\ overlap' = IF \E u \in UnderWay : my[u].note = n /\ {k, my[u].kind} \cap Unlocked # {}
                      THEN overlap \cup {n} ELSE overlap
  BY DEF Start
<1> DEFINE base == [Idle EXCEPT !.kind = k, !.note = n, !.freight = f]
           label == IF k \in {"lancar", "dispensar", "repor"} THEN "read"
                    ELSE IF k = "excluir" THEN "lock" ELSE IF k = "payable" THEN "linked" ELSE "open"
<1>3. k \in AllKinds /\ f \in {"none", "open", "paid"} /\ n # "none"
  <2>1. /\ Kinds \subseteq {"lancar", "excluir", "dispensar", "repor", "payable", "settle", "exit"}
        /\ Freights \subseteq {"none", "open", "paid"} /\ "none" \notin Notes
    BY PurchasesAssumption DEF PurchasesAssumption
  <2>. QED  BY <1>2, <2>1 DEF AllKinds
<1>4. /\ base \in Requests
      /\ \A T \in Titles : [base EXCEPT !.title = T] \in Requests
  BY <1>3, IdleIsTyped DEF Requests
<1>5. /\ base.kind = k /\ base.note = n /\ base.freight = f /\ base.locked = FALSE
      /\ base.work = << >> /\ base.items = {}
  BY DEF Idle
<1>6. PICK r \in Requests :
        /\ r.kind = k /\ r.note = n /\ r.freight = f /\ r.locked = FALSE
        /\ r.work = << >> /\ r.items = {}
        /\ k = "settle" => r.title \in Titles /\ title[r.title].note = n
        /\ k \in {"lancar", "excluir", "dispensar", "repor", "payable", "settle"}
        /\ Go(t, label, r)
  <2>1. CASE k = "settle"
    <3>1. PICK T \in Titles : title[T].note = n /\ Go(t, "open", [base EXCEPT !.title = T])
      BY <1>2, <2>1
    <3> DEFINE r == [base EXCEPT !.title = T]
    <3>2. /\ r.kind = k /\ r.note = n /\ r.freight = f /\ r.locked = FALSE /\ r.work = << >>
          /\ r.items = {} /\ r.title = T
      BY DEF Idle
    <3>. QED  BY <1>4, <2>1, <3>1, <3>2
  <2>2. CASE k # "settle"
    <3>. HIDE DEF base
    <3>1. k \in {"lancar", "excluir", "dispensar", "repor", "payable"} /\ Go(t, label, base)
      BY <1>2, <2>2 DEF base
    <3>. QED  BY <1>4, <1>5, <2>2, <3>1
  <2>. QED  BY <2>1, <2>2
<1>. HIDE DEF base
<1>7. label \in Labels \ {"new", "done"}
  BY DEF Labels
<1>8. pc'[t] = label /\ my'[t] = r
  BY <1>1, <1>6, <1>7, GoTypes
<1>9. ~Launching(t)' /\ ~Deleting(t)'
  BY <1>6, <1>8 DEF Launching, Deleting
<1>10. RequestAt(t)'
  <2>1. (t \in UnderWay)'
    BY <1>7, <1>8 DEF UnderWay
  <2>2. my'[t].note \in Notes /\ my'[t].work = << >> /\ my'[t].items = {} /\ ~my'[t].locked
        /\ my'[t].kind = k /\ my'[t].freight = f
    BY <1>6, <1>8
  <2>. QED  BY <1>2, <1>6, <1>8, <1>9, <2>1, <2>2 DEF RequestAt, At
<1>11. UNCHANGED tables
  BY DEF Start
<1>12. PayableAt(t)'
  <2>1. title' = title
    BY <1>11 DEF tables
  <2>2. label = "open" => k = "settle"
    BY <1>6
  <2>3. label \notin {"pay", "delete", "insert", "write"}
    OBVIOUS
  <2>. QED  BY <1>6, <1>8, <2>1, <2>2, <2>3 DEF PayableAt, At
<1>13. RequestOK(t)'
  BY <1>6, <1>8, <1>10, <1>12, UnlockedEntry DEF RequestOK
<1>14. overlap \subseteq overlap' /\ overlap' \subseteq Notes
  BY <1>1, <1>2 DEF Shape
<1>15. \A u \in UnderWay \ {t} : my'[t].note = my[u].note /\ my'[t].note \notin overlap' =>
            my'[t].kind \notin Unlocked /\ my[u].kind \notin Unlocked
  BY <1>2, <1>6, <1>8
<1>16. DOMAIN my'[t].work = {} /\ ~my'[t].locked /\ Go(t, label, r) /\ pc[t] # "done"
  BY <1>1, <1>6, <1>8, NoWork
<1>. HIDE DEF label
<1>. QED  BY <1>6, <1>7, <1>11, <1>13, <1>14, <1>15, <1>16, LocalStep

LEMMA ReadNoteKeeps ==
    ASSUME IInv, NEW t \in Tx, ReadNote(t)
    PROVE  IInv'
<1> DEFINE r == my[t]
           fits == IF r.kind = "repor" THEN ~note[r.note].launched ELSE MayLaunch(r.note)
           label == IF ~fits THEN "done" ELSE IF r.kind = "lancar" THEN "lock" ELSE "write"
<1>1. pc[t] = "read" /\ Go(t, label, r) /\ OnlyRequest
  BY DEF ReadNote, At
<1>2. Shape /\ RequestOK(t) /\ t \in UnderWay /\ r \in Requests
  BY <1>1 DEF IInv, UnderWay, Shape
<1>3. r.kind \in {"lancar", "dispensar", "repor"} /\ r.note \in Notes /\ ~r.locked
  BY <1>1, <1>2 DEF RequestOK, RequestAt, At, Launching, Deleting
<1>4. CASE ~fits
  BY <1>1, <1>4, EndStep DEF Go, End
<1>5. CASE fits
  <2>1. /\ label \in Labels \ {"new", "done"} /\ label = IF r.kind = "lancar" THEN "lock" ELSE "write"
        /\ r.kind # "lancar" => ~note[r.note].launched
    BY <1>5 DEF Labels, MayLaunch
  <2>. HIDE DEF label, fits
  <2>2. pc'[t] = label /\ my'[t] = my[t]
    BY <1>1, <1>2, <2>1, GoTypes
  <2>3. ~Launching(t)' /\ ~Deleting(t)' /\ ~Launching(t) /\ ~Deleting(t) /\ (t \in UnderWay)'
    BY <1>1, <2>1, <2>2 DEF Launching, Deleting, UnderWay
  <2>4. RequestAt(t)'
    BY <1>1, <1>2, <1>3, <2>1, <2>2, <2>3 DEF RequestOK, RequestAt, At
  <2>5. PayableAt(t)'
    BY <1>1, <1>3, <2>1, <2>2, TablesStay DEF PayableAt, At
  <2>6. RequestOK(t)'
    BY <1>3, <2>2, <2>4, <2>5, UnlockedEntry DEF RequestOK
  <2>. QED  BY <1>1, <1>2, <1>3, <2>1, <2>6, AdvanceStep
<1>. QED  BY <1>4, <1>5

LEMMA CheckPayableKeeps ==
    ASSUME IInv, NEW t \in Tx, CheckPayable(t)
    PROVE  IInv'
<1>1. pc[t] = "linked" /\ Go(t, IF PayablesOf(my[t].note) = {} THEN "insert" ELSE "done", my[t])
      /\ OnlyRequest
  BY DEF CheckPayable, At
<1>2. Shape /\ RequestOK(t) /\ t \in UnderWay /\ my[t] \in Requests
  BY <1>1 DEF IInv, UnderWay, Shape
<1>3. CASE PayablesOf(my[t].note) # {}
  BY <1>1, <1>3, EndStep DEF Go, End
<1>4. CASE PayablesOf(my[t].note) = {}
  <2>1. Go(t, "insert", my[t]) /\ "insert" \in Labels \ {"new", "done"}
    BY <1>1, <1>4 DEF Labels
  <2>2. pc'[t] = "insert" /\ my'[t] = my[t]
    BY <1>2, <2>1, GoTypes
  <2>3. /\ Launching(t)' <=> Launching(t)
        /\ ~Deleting(t)' /\ ~Deleting(t) /\ (t \in UnderWay)'
        /\ Listed(t)' = Listed(t) /\ \A p : Brought(p, Listed(t))' = Brought(p, Listed(t))
    BY <1>1, <2>2 DEF Launching, Deleting, UnderWay, Listed, Brought
  <2>4. RequestAt(t)'
    BY <1>1, <1>2, <2>2, <2>3 DEF RequestOK, RequestAt, At
  <2>5. EntryAt(t)'
    BY <1>1, <1>2, <2>2, <2>3, TablesStay DEF RequestOK, EntryAt, At
  <2>6. CostAt(t)'
    BY <1>1, <1>2, <2>2, <2>3, TablesStay DEF RequestOK, CostAt
  <2>7. PayableAt(t)'
    BY <1>1, <1>4, <2>2, TablesStay DEF PayableAt, At
  <2>. QED  BY <1>1, <1>2, <2>1, <2>4, <2>5, <2>6, <2>7, AdvanceStep DEF RequestOK
<1>. QED  BY <1>3, <1>4

LEMMA TakeOutKeeps ==
    ASSUME IInv, NEW t \in Tx, TakeOut(t)
    PROVE  IInv'
<1>1. pc[t] = "takeout" /\ Go(t, IF Insufficient(t) THEN "done" ELSE "payables", my[t]) /\ OnlyRequest
  BY DEF TakeOut, At
<1>2. Shape /\ RequestOK(t) /\ t \in UnderWay /\ my[t] \in Requests
  BY <1>1 DEF IInv, UnderWay, Shape
<1>3. CASE Insufficient(t)
  BY <1>1, <1>3, EndStep DEF Go, End
<1>4. CASE ~Insufficient(t)
  <2>1. Go(t, "payables", my[t]) /\ "payables" \in Labels \ {"new", "done"}
    BY <1>1, <1>4 DEF Labels
  <2>2. pc'[t] = "payables" /\ my'[t] = my[t]
    BY <1>2, <2>1, GoTypes
  <2>3. /\ Deleting(t)' /\ Deleting(t)
        /\ ~Launching(t)' /\ ~Launching(t) /\ (t \in UnderWay)'
        /\ Listed(t)' = Listed(t) /\ \A p : Brought(p, Listed(t))' = Brought(p, Listed(t))
    BY <1>1, <2>2 DEF Launching, Deleting, UnderWay, Listed, Brought
  <2>4. RequestAt(t)'
    BY <1>1, <1>2, <2>2, <2>3 DEF RequestOK, RequestAt, At
  <2>5. \A p \in DOMAIN my[t].work : my[t].work[p].balance >= 0
    <3>1. my[t].work \in Works
      BY <1>2 DEF Requests
    <3>2. \A p \in DOMAIN my[t].work : my[t].work[p].balance \in Int
      BY <3>1 DEF Works, ProductRows
    <3>. QED  BY <1>4, <3>2 DEF Insufficient
  <2>6. EntryAt(t)'
    BY <1>1, <1>2, <2>2, <2>3, <2>5, TablesStay DEF RequestOK, EntryAt, At
  <2>7. CostAt(t)'
    BY <1>1, <1>2, <2>2, <2>3, TablesStay DEF RequestOK, CostAt
  <2>8. PayableAt(t)'
    BY <1>1, <2>2, TablesStay DEF PayableAt, At
  <2>. QED  BY <1>1, <1>2, <2>1, <2>4, <2>6, <2>7, <2>8, AdvanceStep DEF RequestOK
<1>. QED  BY <1>3, <1>4

-----------------------------------------------------------------------------
(***************************************************************************)
(* The rows of products.                                                    *)
(***************************************************************************)
LEMMA ProductIsPositive ==
    ASSUME NEW a \in Nat \ {0}, NEW b \in Nat \ {0} PROVE a * b \in Nat \ {0}
  OBVIOUS

LEMMA EnteredIsTyped ==
    ASSUME NEW row \in ProductRows, NEW line \in ItemRows
    PROVE  Entered(row, line) \in ProductRows
           /\ Entered(row, line).balance = row.balance + line.quantity
<1>1. /\ row.balance \in Int /\ row.cost \in Fractions /\ row.average \in Fractions
      /\ line.quantity \in Nat \ {0} /\ line.cost \in Nat \ {0}
  BY DEF ProductRows, ItemRows
<1>2. << line.cost, 1 >> \in Fractions
  BY <1>1 DEF Fractions
<1>3. WeightedAverage(row, line.quantity, line.cost) \in Fractions
  <2>1. CASE row.balance <= 0 \/ row.average = Null
    BY <1>2, <2>1 DEF WeightedAverage
  <2>2. CASE ~(row.balance <= 0 \/ row.average = Null)
    <3>1. row.average[1] \in Int /\ row.average[2] \in Nat \ {0} /\ row.balance \in Nat \ {0}
      BY <1>1, <2>2 DEF Fractions
    <3>2. row.balance + line.quantity \in Nat \ {0}
      BY <1>1, <3>1
    <3>3. row.average[2] * (row.balance + line.quantity) \in Nat \ {0}
      BY <3>1, <3>2, ProductIsPositive
    <3>4. row.balance * row.average[1] + line.quantity * line.cost * row.average[2] \in Int
      BY <1>1, <3>1
    <3>. QED  BY <2>2, <3>3, <3>4 DEF WeightedAverage, Fractions
  <2>. QED  BY <2>1, <2>2
<1>. QED  BY <1>1, <1>2, <1>3 DEF Entered, ProductRows

LEMMA RevertedIsTyped ==
    ASSUME NEW row \in ProductRows, NEW line \in ItemRows
    PROVE  Reverted(row, line) \in ProductRows
           /\ Reverted(row, line).balance = row.balance - line.quantity
<1> DEFINE left == row.balance - line.quantity
           current == Same(row.cost, << line.cost, 1 >>) /\ left >= 0
           average == IF left > 0 /\ row.average # Null
                      THEN << row.average[1] * row.balance
                                - line.quantity * line.cost * row.average[2],
                              row.average[2] * left >>
                      ELSE Null
<1>1. /\ row.balance \in Int /\ row.previous \in Fractions /\ row.average \in Fractions
      /\ line.quantity \in Nat \ {0} /\ line.cost \in Nat \ {0} /\ left \in Int
      /\ Null \in Fractions
  BY DEF ProductRows, ItemRows, Fractions
<1>2. average \in Fractions
  <2>1. CASE left > 0 /\ row.average # Null
    <3>1. row.average[1] \in Int /\ row.average[2] \in Nat \ {0} /\ left \in Nat \ {0}
      BY <1>1, <2>1 DEF Fractions
    <3>2. row.average[2] * left \in Nat \ {0}
      BY <3>1, ProductIsPositive
    <3>3. row.average[1] * row.balance - line.quantity * line.cost * row.average[2] \in Int
      BY <1>1, <3>1
    <3>. QED  BY <2>1, <3>2, <3>3 DEF Fractions
  <2>2. CASE ~(left > 0 /\ row.average # Null)
    BY <1>1, <2>2
  <2>. QED  BY <2>1, <2>2
<1>3. Reverted(row, line) = IF current
        THEN [balance |-> left, cost |-> row.previous, previous |-> Null, average |-> average]
        ELSE [row EXCEPT !.balance = left]
  BY DEF Reverted
<1>. HIDE DEF left, average, current
<1>4. /\ [balance |-> left, cost |-> row.previous, previous |-> Null, average |-> average] \in ProductRows
      /\ [row EXCEPT !.balance = left] \in ProductRows
      /\ [row EXCEPT !.balance = left].balance = left
  BY <1>1, <1>2 DEF ProductRows
<1>. QED  BY <1>3, <1>4 DEF left

LEMMA WorkIsTyped ==
    ASSUME NEW work \in Works, NEW p \in Products, NEW row \in ProductRows
    PROVE  /\ With(work, p, row) \in Works
           /\ DOMAIN With(work, p, row) = DOMAIN work \cup {p}
           /\ With(work, p, row)[p] = row
           /\ \A x \in DOMAIN work : With(work, p, row)[x] = IF x = p THEN row ELSE work[x]
<1>1. PICK D \in SUBSET Products : work \in [D -> ProductRows]
  BY DEF Works
<1>2. With(work, p, row) = [x \in D \cup {p} |-> IF x = p THEN row ELSE work[x]]
  BY <1>1 DEF With
<1>3. With(work, p, row) \in [D \cup {p} -> ProductRows] /\ D \cup {p} \in SUBSET Products
  BY <1>1, <1>2
<1>. QED  BY <1>1, <1>2, <1>3 DEF Works

LEMMA RowIsTyped ==
    ASSUME Shape, NEW t \in Tx, NEW p \in Products
    PROVE  /\ Row(t, p) \in ProductRows /\ stock[p] \in ProductRows /\ stock[p].balance \in Int
           /\ my[t].work \in Works /\ DOMAIN my[t].work \subseteq Products
<1>1. my[t].work \in Works /\ stock[p] \in ProductRows
  BY DEF Shape, Requests
<1>2. PICK D \in SUBSET Products : my[t].work \in [D -> ProductRows]
  BY <1>1 DEF Works
<1>. QED  BY <1>1, <1>2 DEF Row, ProductRows

\* What a request has made of a balance.
LEMMA RowBalance ==
    ASSUME Shape, NEW t \in Tx, RequestAt(t), EntryAt(t), my[t].locked, NEW p \in Products
    PROVE  /\ Brought(p, Listed(t)) \in Nat
           /\ Launching(t) => Row(t, p).balance = stock[p].balance + Brought(p, Listed(t))
           /\ Deleting(t) => Row(t, p).balance = stock[p].balance - Brought(p, Listed(t))
<1>1. /\ my[t].note \in Notes /\ my[t].items \subseteq DOMAIN Lines[my[t].note]
      /\ DOMAIN my[t].work = {Lines[my[t].note][k].product : k \in my[t].items}
  BY DEF RequestAt, EntryAt, UnderWay, Idle
<1>2. Listed(t) \in SUBSET ItemsOf(my[t].note)
  BY <1>1 DEF Listed, ItemsOf
<1>3. Listed(t) \in SUBSET AllItems /\ IsFiniteSet(Listed(t))
  BY <1>1, <1>2, ItemsOfNote, FS_Subset
<1>4. Brought(p, Listed(t)) \in Nat
  BY <1>3, BroughtIsNat
<1>5. CASE p \in DOMAIN my[t].work
  BY <1>4, <1>5 DEF Row, EntryAt
<1>6. CASE p \notin DOMAIN my[t].work
  <2>1. \A x \in Listed(t) : Item(x).product # p
    <3>1. \A k \in my[t].items : Lines[my[t].note][k].product # p
      BY <1>1, <1>6
    <3>. QED  BY <3>1 DEF Listed, Item
  <2>2. Brought(p, Listed(t)) = 0
    BY <2>1, BroughtOfNone
  <2>. QED  BY <1>6, <2>2, RowIsTyped DEF Row
<1>. QED  BY <1>5, <1>6, <1>4

-----------------------------------------------------------------------------
(***************************************************************************)
(* The steps of lancar and excluir before their commits.                    *)
(***************************************************************************)

\* One item is handled: what the request knows then.
Handled(t, n, k, p, row, r) ==
    /\ n \in Notes /\ p \in Products /\ r \in Requests
    /\ r.note = n /\ r.kind = my[t].kind /\ r.freight = my[t].freight
    /\ r.locked = my[t].locked /\ r.items = my[t].items \cup {k}
    /\ r.items \subseteq DOMAIN Lines[n]
    /\ DOMAIN r.work = DOMAIN my[t].work \cup {p}
    /\ DOMAIN r.work = {Lines[n][j].product : j \in r.items}
    /\ r.work[p] = row
    /\ \A x \in DOMAIN my[t].work \ {p} : r.work[x] = my[t].work[x]
    /\ \A x : Brought(x, {n} \X r.items) = Brought(x, Listed(t)) + Share(n, k, x)
    /\ Single(n, k) => p \notin DOMAIN my[t].work
    /\ \A j \in my[t].items : Single(n, j) => Lines[n][j].product \in DOMAIN my[t].work \ {p}

Handles(t, k, row, r) ==
    r = [my[t] EXCEPT !.items = @ \cup {k},
                      !.work = With(my[t].work, Lines[my[t].note][k].product, row)]

LEMMA ItemHandled ==
    ASSUME Shape, NEW t \in Tx, RequestAt(t), EntryAt(t), my[t].locked,
           NEW k \in DOMAIN Lines[my[t].note], k \notin my[t].items, NEW row \in ProductRows,
           NEW r, Handles(t, k, row, r)
    PROVE  Handled(t, my[t].note, k, Lines[my[t].note][k].product, row, r)
<1>0. PICK n, p, work : n = my[t].note /\ p = Lines[n][k].product /\ work = With(my[t].work, p, row)
  OBVIOUS
<1>1. /\ n \in Notes /\ my[t].items \subseteq DOMAIN Lines[n]
      /\ DOMAIN my[t].work = {Lines[n][j].product : j \in my[t].items}
      /\ my[t] \in Requests /\ my[t].work \in Works /\ k \in DOMAIN Lines[n]
  BY <1>0 DEF RequestAt, EntryAt, UnderWay, Idle, Shape, Requests
<1>2. p \in Products /\ k \in Nat \ {0} /\ Lines[n][k].quantity \in Nat
  BY <1>0, <1>1, ItemTypes DEF ItemRows
<1>3. /\ work \in Works /\ DOMAIN work = DOMAIN my[t].work \cup {p} /\ work[p] = row
      /\ \A x \in DOMAIN my[t].work : work[x] = IF x = p THEN row ELSE my[t].work[x]
  <2>1. my[t].work \in Works
    BY <1>1
  <2>2. \A w \in Works : /\ With(w, p, row) \in Works
                          /\ DOMAIN With(w, p, row) = DOMAIN w \cup {p}
                          /\ With(w, p, row)[p] = row
                          /\ \A x \in DOMAIN w : With(w, p, row)[x] = IF x = p THEN row ELSE w[x]
    BY <1>2, WorkIsTyped
  <2>. QED  BY <1>0, <2>1, <2>2
<1>4. r = [my[t] EXCEPT !.items = @ \cup {k}, !.work = work]
  BY <1>0 DEF Handles
<1>5. /\ r \in Requests
      /\ r.note = n /\ r.kind = my[t].kind /\ r.freight = my[t].freight
      /\ r.locked = my[t].locked /\ r.items = my[t].items \cup {k} /\ r.work = work
  <2>1. my[t].items \cup {k} \in SUBSET (Nat \ {0})
    BY <1>1, <1>2 DEF Requests
  <2>. QED  BY <1>0, <1>1, <1>3, <1>4, <2>1 DEF Requests
<1>6. r.items \subseteq DOMAIN Lines[n] /\ DOMAIN r.work = {Lines[n][j].product : j \in r.items}
  <2>1. r.items \subseteq DOMAIN Lines[n]
    BY <1>1, <1>5
  <2>2. \A x : x \in {Lines[n][j].product : j \in r.items}
                <=> x \in {Lines[n][j].product : j \in my[t].items} \/ x = p
    BY <1>0, <1>5
  <2>3. \A x : x \in DOMAIN r.work <=> x \in DOMAIN my[t].work \/ x = p
    BY <1>3, <1>5
  <2>. QED  BY <1>1, <2>1, <2>2, <2>3
<1>7. \A x : Brought(x, {n} \X r.items) = Brought(x, Listed(t)) + Share(n, k, x)
  <2>1. TAKE x
  <2>2. PICK K : K = my[t].items
    OBVIOUS
  <2>3. K \in SUBSET (DOMAIN Lines[n]) /\ k \notin K /\ r.items = K \cup {k} /\ Listed(t) = {n} \X K
    BY <1>0, <1>1, <1>5, <2>2 DEF Listed
  <2>4. Brought(x, {n} \X (K \cup {k})) = Brought(x, {n} \X K) + Share(n, k, x)
    BY <1>1, <2>3, BroughtWithItem
  <2>. QED  BY <1>0, <2>3, <2>4
<1>8. Single(n, k) => p \notin DOMAIN my[t].work
  <2>1. ASSUME NEW j \in my[t].items, Lines[n][j].product = p PROVE ~Single(n, k)
    BY <1>0, <1>1, <2>1 DEF Single, LinesOf
  <2>. QED  BY <1>1, <2>1
<1>9. \A j \in my[t].items : Single(n, j) => Lines[n][j].product \in DOMAIN my[t].work \ {p}
  <2>1. TAKE j \in my[t].items
  <2>2. HAVE Single(n, j)
  <2>3. Lines[n][j].product # p
    BY <1>0, <1>1, <2>2 DEF Single, LinesOf
  <2>. QED  BY <1>1, <2>3
<1>10. \A x \in DOMAIN my[t].work \ {p} : r.work[x] = my[t].work[x]
  BY <1>3, <1>5
<1>11. DOMAIN r.work = DOMAIN my[t].work \cup {p} /\ r.work[p] = row
  BY <1>3, <1>5
<1>12. n = my[t].note /\ p = Lines[n][k].product
  BY <1>0
<1>13. Handled(t, n, k, p, row, r)
  BY <1>1, <1>2, <1>5, <1>6, <1>7, <1>8, <1>9, <1>10, <1>11 DEF Handled
<1>. QED  BY <1>12, <1>13

LEMMA LockHeaderKeeps ==
    ASSUME IInv, NEW t \in Tx, LockHeader(t)
    PROVE  IInv'
<1> DEFINE r == [my[t] EXCEPT !.locked = TRUE]
           n == my[t].note
           fits == IF my[t].kind = "lancar" THEN MayLaunch(n) ELSE note[n].launched
           label == IF ~fits THEN "done" ELSE IF my[t].kind = "lancar" THEN "line" ELSE "revert"
<1>1. pc[t] = "lock" /\ HeaderFree(t, n) /\ OnlyRequest /\ Shape /\ RequestAt(t) /\ EntryAt(t)
      /\ t \in UnderWay
  BY DEF LockHeader, At, IInv, RequestOK, UnderWay
<1>2. /\ my[t] \in Requests /\ n \in Notes /\ my[t].kind \in {"lancar", "excluir"}
      /\ my[t].work = << >> /\ my[t].items = {} /\ my[t].freight \in {"none", "open", "paid"}
      /\ my[t].kind # "lancar" => my[t].freight = "none"
  BY <1>1 DEF Shape, RequestAt, At, Launching, Deleting, Requests
<1>3. /\ r \in Requests /\ r.note = n /\ r.kind = my[t].kind /\ r.locked = TRUE
      /\ r.work = << >> /\ r.items = {} /\ r.freight = my[t].freight
  BY <1>2 DEF Requests
<1>4. Go(t, label, r)
  <2>1. r.note = n /\ r.kind = my[t].kind
    BY <1>3
  <2>. QED  BY <2>1 DEF LockHeader
<1>. HIDE DEF r
<1>5. CASE ~fits
  BY <1>1, <1>4, <1>5, EndStep DEF Go, End
<1>6. CASE fits
  <2>1. /\ label = IF my[t].kind = "lancar" THEN "line" ELSE "revert"
        /\ label \in Labels \ {"new", "done"}
    BY <1>6 DEF Labels
  <2>2. IF my[t].kind = "lancar" THEN ~note[n].launched /\ ~note[n].dispensed ELSE note[n].launched
    BY <1>6 DEF MayLaunch
  <2>. HIDE DEF label, fits
  <2>3. pc'[t] = label /\ my'[t] = r /\ note' = note
    BY <1>1, <1>3, <1>4, <2>1, GoTypes, TablesStay
  <2>4. /\ Launching(t)' <=> my[t].kind = "lancar"
        /\ Deleting(t)' <=> my[t].kind = "excluir"
        /\ (t \in UnderWay)'
    BY <1>2, <1>3, <2>1, <2>3 DEF Launching, Deleting, UnderWay
  <2>5. RequestAt(t)'
    BY <1>2, <1>3, <2>1, <2>3, <2>4 DEF RequestAt, At
  <2>6. EntryAt(t)'
    <3>1. DOMAIN my'[t].work = {} /\ my'[t].items = {} /\ my'[t].note = n
      BY <1>3, <2>3, NoWork
    <3>2. Len(Lines[n]) \in Nat \ {0} /\ 0 \in 0 .. Len(Lines[n]) /\ 1 .. 0 = {} /\ 0 < Len(Lines[n])
      BY <1>2, ItemTypes
    <3>3. \E c \in 0 .. Len(Lines[n]) : my'[t].items = 1 .. c
                                        /\ (my[t].kind = "lancar" => c < Len(Lines[n]))
      BY <3>1, <3>2
    <3>4. At(t, "line")' <=> my[t].kind = "lancar"
      BY <2>1, <2>3 DEF At
    <3>5. my[t].kind = "excluir" => label = "revert"
      BY <2>1
    <3>. QED  BY <1>2, <2>2, <2>3, <2>4, <3>1, <3>3, <3>4, <3>5 DEF EntryAt, At
  <2>7. CostAt(t)'
    BY <1>3, <2>3 DEF CostAt
  <2>8. PayableAt(t)'
    BY <2>1, <2>3 DEF PayableAt, At
  <2>. QED  BY <1>1, <1>3, <1>4, <2>1, <2>5, <2>6, <2>7, <2>8, NoWork, AdvanceStep DEF RequestOK
<1>. QED  BY <1>5, <1>6

LEMMA EnterLineKeeps ==
    ASSUME IInv, NEW t \in Tx, EnterLine(t)
    PROVE  IInv'
<1> DEFINE n == my[t].note
           k == Cardinality(my[t].items) + 1
           line == Lines[n][k]
           row == Entered(Row(t, line.product), line)
<1>1. /\ pc[t] = "line" /\ OnlyRequest /\ Shape /\ RequestAt(t) /\ EntryAt(t) /\ CostAt(t)
      /\ t \in UnderWay
  BY DEF EnterLine, At, IInv, RequestOK, UnderWay
<1>2. /\ my[t].kind = "lancar" /\ Launching(t) /\ my[t].locked /\ n \in Notes
      /\ Len(Lines[n]) \in Nat /\ DOMAIN Lines[n] = 1 .. Len(Lines[n])
  BY <1>1, ItemTypes DEF RequestAt, At, Launching
<1>3. PICK c \in 0 .. Len(Lines[n]) :
        my[t].items = 1 .. c /\ (At(t, "line") <=> c < Len(Lines[n]))
  BY <1>1, <1>2 DEF EntryAt
<1>4. k = c + 1 /\ c \in Nat /\ c < Len(Lines[n])
  <2>1. Cardinality(1 .. c) = c
    BY <1>2, <1>3, FS_Interval
  <2>. QED  BY <1>1, <1>2, <1>3, <2>1 DEF At
<1>. HIDE DEF k
<1>5. k \in DOMAIN Lines[n] /\ k \notin my[t].items /\ my[t].items \cup {k} = 1 .. (c + 1)
  BY <1>2, <1>3, <1>4
<1>6. CASE << n, k >> \in moved
  <2>1. End(t)
    BY <1>6 DEF EnterLine, k
  <2>. QED  BY <1>1, <2>1, EndStep
<1>7. CASE << n, k >> \notin moved
  <2>1. PICK r : r = [my[t] EXCEPT !.items = @ \cup {k}, !.work = With(my[t].work, line.product, row)]
    OBVIOUS
  <2> DEFINE label == IF k = Len(Lines[n]) THEN "linked" ELSE "line"
  <2>2. ProductFree(t, line.product) /\ Go(t, label, r)
    BY <1>7, <2>1 DEF EnterLine, k
  <2>3. line \in ItemRows /\ line.product \in Products /\ line.quantity \in Nat
    BY <1>2, <1>5, ItemTypes DEF ItemRows
  <2>4. /\ row \in ProductRows /\ row.balance = Row(t, line.product).balance + line.quantity
        /\ Row(t, line.product).balance \in Int
    <3>1. Row(t, line.product) \in ProductRows
      BY <1>1, <2>3, RowIsTyped
    <3>. QED  BY <2>3, <3>1, EnteredIsTyped DEF ProductRows
  <2>5. row = Entered(Row(t, line.product), line)
    OBVIOUS
  <2>. HIDE DEF row
  <2>6. /\ r \in Requests
        /\ r.note = n /\ r.kind = my[t].kind /\ r.freight = my[t].freight
        /\ r.locked = my[t].locked /\ r.items = my[t].items \cup {k}
        /\ r.items \subseteq DOMAIN Lines[n]
        /\ DOMAIN r.work = DOMAIN my[t].work \cup {line.product}
        /\ DOMAIN r.work = {Lines[n][j].product : j \in r.items}
        /\ r.work[line.product] = row
        /\ \A x \in DOMAIN my[t].work \ {line.product} : r.work[x] = my[t].work[x]
        /\ \A x : Brought(x, {n} \X r.items) = Brought(x, Listed(t)) + Share(n, k, x)
        /\ Single(n, k) => line.product \notin DOMAIN my[t].work
        /\ \A j \in my[t].items : Single(n, j) =>
                Lines[n][j].product \in DOMAIN my[t].work \ {line.product}
    <3>1. Handled(t, n, k, line.product, row, r)
      BY <1>1, <1>2, <1>5, <2>1, <2>4, ItemHandled DEF Handles
    <3>. QED  BY <3>1 DEF Handled
  <2>7. label \in Labels \ {"new", "done"}
    BY DEF Labels
  <2>8. /\ pc'[t] = label /\ my'[t] = r /\ note' = note /\ stock' = stock
        /\ (label = "line" <=> c + 1 < Len(Lines[n])) /\ label \in {"line", "linked"}
    <3>1. pc'[t] = label /\ my'[t] = r
      BY <1>1, <2>2, <2>6, <2>7, GoTypes
    <3>. QED  BY <1>1, <1>2, <1>4, <3>1, TablesStay
  <2>. HIDE DEF label
  <2>9. Launching(t)' /\ ~Deleting(t)' /\ ~Deleting(t) /\ (t \in UnderWay)'
    BY <1>1, <1>2, <2>6, <2>8 DEF Launching, Deleting, UnderWay
  <2>10. RequestAt(t)'
    BY <1>1, <1>2, <2>6, <2>8, <2>9 DEF RequestAt, At
  <2>11. \A p \in DOMAIN r.work :
            r.work[p].balance = stock[p].balance + Brought(p, {n} \X r.items)
    <3>1. TAKE p \in DOMAIN r.work
    <3>2. p \in Products
      BY <1>1, <2>3, <2>6, RowIsTyped
    <3>3. /\ Row(t, p).balance = stock[p].balance + Brought(p, Listed(t))
          /\ Brought(p, Listed(t)) \in Nat /\ stock[p].balance \in Int
      BY <1>1, <1>2, <3>2, RowBalance, RowIsTyped
    <3>4. CASE p = line.product
      <4>1. r.work[p] = row /\ Brought(p, {n} \X r.items) = Brought(p, Listed(t)) + line.quantity
        BY <2>6, <3>4 DEF Share
      <4>. QED  BY <2>3, <2>4, <3>3, <3>4, <4>1
    <3>5. CASE p # line.product
      <4>1. p \in DOMAIN my[t].work /\ Row(t, p) = my[t].work[p]
        BY <2>6, <3>5 DEF Row
      <4>2. r.work[p] = my[t].work[p] /\ Brought(p, {n} \X r.items) = Brought(p, Listed(t)) + 0
        BY <2>6, <3>5, <4>1 DEF Share
      <4>. QED  BY <3>3, <4>1, <4>2
    <3>. QED  BY <3>4, <3>5
  <2>12. EntryAt(t)'
    <3>1. c + 1 \in 0 .. Len(Lines[n]) /\ r.items = 1 .. (c + 1)
      BY <1>2, <1>4, <1>5, <2>6
    <3>2. ~note[n].launched /\ ~note[n].dispensed
      BY <1>1, <1>2 DEF EntryAt
    <3>3. Listed(t)' = {n} \X r.items
      BY <2>6, <2>8 DEF Listed
    <3>4. \A p : Brought(p, Listed(t))' = Brought(p, {n} \X r.items)
      BY <3>3 DEF Brought
    <3>5. \E d \in 0 .. Len(Lines[n]) : r.items = 1 .. d /\ (label = "line" <=> d < Len(Lines[n]))
      BY <2>8, <3>1
    <3>6. \A p \in DOMAIN r.work : r.work[p].balance = stock'[p].balance + Brought(p, Listed(t))'
      BY <2>8, <2>11, <3>4
    <3>7. At(t, "line")' <=> label = "line"
      BY <2>8 DEF At
    <3>. QED  BY <2>6, <2>8, <2>9, <3>2, <3>5, <3>6, <3>7 DEF EntryAt
  <2>13. CostAt(t)'
    <3>1. ASSUME NEW j \in r.items, Single(n, j)
          PROVE  r.work[Lines[n][j].product] = Entered(stock[Lines[n][j].product], Lines[n][j])
      <4>1. CASE j = k
        <5>1. line.product \notin DOMAIN my[t].work
          BY <2>6, <3>1, <4>1
        <5>2. Row(t, line.product) = stock[line.product]
          BY <5>1 DEF Row
        <5>. QED  BY <2>5, <2>6, <4>1, <5>2
      <4>2. CASE j # k
        <5>1. j \in my[t].items
          BY <2>6, <4>2
        <5>2. my[t].work[Lines[n][j].product] = Entered(stock[Lines[n][j].product], Lines[n][j])
          BY <1>1, <1>2, <3>1, <5>1 DEF CostAt
        <5>. QED  BY <2>6, <3>1, <5>1, <5>2
      <4>. QED  BY <4>1, <4>2
    <3>. QED  BY <2>6, <2>8, <2>9, <3>1 DEF CostAt
  <2>14. PayableAt(t)'
    BY <2>8 DEF PayableAt, At
  <2>. QED  BY <1>1, <1>2, <2>2, <2>6, <2>7, <2>10, <2>12, <2>13, <2>14, AdvanceStep DEF RequestOK
<1>. QED  BY <1>6, <1>7

\* The movements of a note.
LEMMA MovedItems ==
    ASSUME Shape, EntriesMatchStock, NEW n \in Notes
    PROVE  /\ moved \subseteq AllItems
           /\ note[n].launched => ItemsOf(n) \subseteq moved
                                  /\ \A k \in DOMAIN Lines[n] : << n, k >> \in moved
           /\ ~note[n].launched => \A x \in moved : x[1] # n
<1>1. \A m \in Notes :
        {x \in moved : x[1] = m} = IF note[m].launched THEN {m} \X DOMAIN Lines[m] ELSE {}
  BY DEF EntriesMatchStock
<1>2. moved \subseteq AllItems
  <2>1. SUFFICES ASSUME NEW x \in moved PROVE x \in AllItems
    OBVIOUS
  <2>2. x \in Notes \X Nat
    BY DEF Shape
  <2>3. PICK m : m = x[1] /\ m \in Notes
    BY <2>2
  <2>4. x \in {y \in moved : y[1] = m}
    BY <2>3
  <2>5. x \in {m} \X DOMAIN Lines[m]
    BY <1>1, <2>3, <2>4
  <2>6. x[2] \in DOMAIN Lines[x[1]]
    BY <2>3, <2>5
  <2>. QED  BY <2>2, <2>6 DEF AllItems
<1>3. CASE note[n].launched
  <2>1. {x \in moved : x[1] = n} = ItemsOf(n)
    BY <1>1, <1>3 DEF ItemsOf
  <2>2. ItemsOf(n) \subseteq moved
    BY <2>1
  <2>3. \A k \in DOMAIN Lines[n] : << n, k >> \in ItemsOf(n)
    BY DEF ItemsOf
  <2>. QED  BY <1>2, <1>3, <2>2, <2>3
<1>4. CASE ~note[n].launched
  <2>1. {x \in moved : x[1] = n} = {}
    BY <1>1, <1>4
  <2>. QED  BY <1>2, <1>4, <2>1
<1>. QED  BY <1>3, <1>4

LEMMA RevertItemKeeps ==
    ASSUME IInv, NEW t \in Tx, RevertItem(t)
    PROVE  IInv'
<1> DEFINE n == my[t].note
           todo == {k \in DOMAIN Lines[n] : << n, k >> \in moved} \ my[t].items
           begun == {k \in todo : Lines[n][k].product \in DOMAIN my[t].work}
<1>1. /\ pc[t] = "revert" /\ OnlyRequest /\ Shape /\ RequestAt(t) /\ EntryAt(t) /\ CostAt(t)
      /\ t \in UnderWay
  BY DEF RevertItem, At, IInv, RequestOK, UnderWay
<1>2. /\ my[t].kind = "excluir" /\ Deleting(t) /\ my[t].locked /\ n \in Notes
      /\ my[t] \in Requests /\ my[t].items \subseteq DOMAIN Lines[n] /\ note[n].launched
  BY <1>1 DEF RequestAt, EntryAt, At, Deleting, Shape
<1>3. todo = DOMAIN Lines[n] \ my[t].items
  BY <1>1, <1>2, MovedItems DEF IInv
<1>4. CASE todo = {} /\ Go(t, "takeout", my[t])
  <2>1. my[t].items = DOMAIN Lines[n]
    BY <1>2, <1>3, <1>4
  <2>2. Go(t, "takeout", my[t]) /\ "takeout" \in Labels \ {"new", "done"}
    BY <1>4 DEF Labels
  <2>3. pc'[t] = "takeout" /\ my'[t] = my[t]
    BY <1>1, <1>2, <2>2, GoTypes
  <2>4. /\ Deleting(t)' /\ ~Launching(t)' /\ ~Launching(t) /\ (t \in UnderWay)'
        /\ Listed(t)' = Listed(t) /\ \A p : Brought(p, Listed(t))' = Brought(p, Listed(t))
    BY <1>1, <2>3 DEF Launching, Deleting, UnderWay, Listed, Brought
  <2>5. RequestAt(t)'
    BY <1>1, <1>2, <2>3, <2>4 DEF RequestAt, At
  <2>6. EntryAt(t)'
    BY <1>1, <1>2, <2>1, <2>3, <2>4, TablesStay DEF EntryAt, At
  <2>7. CostAt(t)'
    BY <1>1, <1>2, <2>3, <2>4, TablesStay DEF CostAt
  <2>8. PayableAt(t)'
    BY <2>3 DEF PayableAt, At
  <2>. QED  BY <1>1, <1>2, <2>2, <2>5, <2>6, <2>7, <2>8, AdvanceStep DEF RequestOK
<1>5. ASSUME NEW k \in todo,
             ProductFree(t, Lines[n][k].product),
             Go(t, "revert", [my[t] EXCEPT !.items = @ \cup {k},
                     !.work = With(my[t].work, Lines[n][k].product,
                                   Reverted(Row(t, Lines[n][k].product), Lines[n][k]))])
      PROVE  IInv'
  <2>0. k \in DOMAIN Lines[n] /\ k \notin my[t].items
    BY <1>5
  <2>. HIDE DEF todo
  <2> DEFINE line == Lines[n][k]
             row == Reverted(Row(t, line.product), line)
  <2>1. PICK r : r = [my[t] EXCEPT !.items = @ \cup {k}, !.work = With(my[t].work, line.product, row)]
    OBVIOUS
  <2>2. ProductFree(t, line.product) /\ Go(t, "revert", r)
    BY <1>5, <2>1
  <2>3. line \in ItemRows /\ line.product \in Products /\ line.quantity \in Nat
    BY <1>2, <2>0, ItemTypes DEF ItemRows
  <2>4. /\ row \in ProductRows /\ row.balance = Row(t, line.product).balance - line.quantity
        /\ Row(t, line.product).balance \in Int
    <3>1. Row(t, line.product) \in ProductRows
      BY <1>1, <2>3, RowIsTyped
    <3>. QED  BY <2>3, <3>1, RevertedIsTyped DEF ProductRows
  <2>5. row = Reverted(Row(t, line.product), line)
    OBVIOUS
  <2>. HIDE DEF row
  <2>6. /\ r \in Requests
        /\ r.note = n /\ r.kind = my[t].kind /\ r.freight = my[t].freight
        /\ r.locked = my[t].locked /\ r.items = my[t].items \cup {k}
        /\ r.items \subseteq DOMAIN Lines[n]
        /\ DOMAIN r.work = DOMAIN my[t].work \cup {line.product}
        /\ DOMAIN r.work = {Lines[n][j].product : j \in r.items}
        /\ r.work[line.product] = row
        /\ \A x \in DOMAIN my[t].work \ {line.product} : r.work[x] = my[t].work[x]
        /\ \A x : Brought(x, {n} \X r.items) = Brought(x, Listed(t)) + Share(n, k, x)
        /\ Single(n, k) => line.product \notin DOMAIN my[t].work
        /\ \A j \in my[t].items : Single(n, j) =>
                Lines[n][j].product \in DOMAIN my[t].work \ {line.product}
    <3>1. Handled(t, n, k, line.product, row, r)
      BY <1>1, <1>2, <2>0, <2>1, <2>4, ItemHandled DEF Handles
    <3>. QED  BY <3>1 DEF Handled
  <2>7. "revert" \in Labels \ {"new", "done"}
    BY DEF Labels
  <2>8. pc'[t] = "revert" /\ my'[t] = r /\ note' = note /\ stock' = stock
    <3>1. pc'[t] = "revert" /\ my'[t] = r
      BY <1>1, <2>2, <2>6, <2>7, GoTypes
    <3>. QED  BY <1>1, <3>1, TablesStay
  <2>9. Deleting(t)' /\ ~Launching(t)' /\ ~Launching(t) /\ (t \in UnderWay)'
    BY <1>1, <1>2, <2>6, <2>8 DEF Launching, Deleting, UnderWay
  <2>10. RequestAt(t)'
    BY <1>1, <1>2, <2>6, <2>8, <2>9 DEF RequestAt, At
  <2>11. \A p \in DOMAIN r.work :
            r.work[p].balance = stock[p].balance - Brought(p, {n} \X r.items)
    <3>1. TAKE p \in DOMAIN r.work
    <3>2. p \in Products
      BY <1>1, <2>3, <2>6, RowIsTyped
    <3>3. /\ Row(t, p).balance = stock[p].balance - Brought(p, Listed(t))
          /\ Brought(p, Listed(t)) \in Nat /\ stock[p].balance \in Int
      BY <1>1, <1>2, <3>2, RowBalance, RowIsTyped
    <3>4. CASE p = line.product
      <4>1. r.work[p] = row /\ Brought(p, {n} \X r.items) = Brought(p, Listed(t)) + line.quantity
        BY <2>6, <3>4 DEF Share
      <4>. QED  BY <2>3, <2>4, <3>3, <3>4, <4>1
    <3>5. CASE p # line.product
      <4>1. p \in DOMAIN my[t].work /\ Row(t, p) = my[t].work[p]
        BY <2>6, <3>5 DEF Row
      <4>2. r.work[p] = my[t].work[p] /\ Brought(p, {n} \X r.items) = Brought(p, Listed(t)) + 0
        BY <2>6, <3>5, <4>1 DEF Share
      <4>. QED  BY <3>3, <4>1, <4>2
    <3>. QED  BY <3>4, <3>5
  <2>12. EntryAt(t)'
    <3>1. Listed(t)' = {n} \X r.items
      BY <2>6, <2>8 DEF Listed
    <3>2. \A p : Brought(p, Listed(t))' = Brought(p, {n} \X r.items)
      BY <3>1 DEF Brought
    <3>3. \A p \in DOMAIN r.work : r.work[p].balance = stock'[p].balance - Brought(p, Listed(t))'
      BY <2>8, <2>11, <3>2
    <3>4. At(t, "revert")' /\ pc'[t] \notin {"payables", "delete"}
      BY <2>8 DEF At
    <3>. QED  BY <1>2, <2>6, <2>8, <2>9, <3>3, <3>4 DEF EntryAt
  <2>13. CostAt(t)'
    <3>1. ASSUME NEW j \in r.items, Single(n, j)
          PROVE  r.work[Lines[n][j].product] = Reverted(stock[Lines[n][j].product], Lines[n][j])
      <4>1. CASE j = k
        <5>1. line.product \notin DOMAIN my[t].work
          BY <2>6, <3>1, <4>1
        <5>2. Row(t, line.product) = stock[line.product]
          BY <5>1 DEF Row
        <5>. QED  BY <2>5, <2>6, <4>1, <5>2
      <4>2. CASE j # k
        <5>1. j \in my[t].items
          BY <2>6, <4>2
        <5>2. my[t].work[Lines[n][j].product] = Reverted(stock[Lines[n][j].product], Lines[n][j])
          BY <1>1, <2>9, <3>1, <5>1 DEF CostAt
        <5>. QED  BY <2>6, <3>1, <5>1, <5>2
      <4>. QED  BY <4>1, <4>2
    <3>. QED  BY <2>6, <2>8, <2>9, <3>1 DEF CostAt
  <2>14. PayableAt(t)'
    BY <2>8 DEF PayableAt, At
  <2>. QED  BY <1>1, <1>2, <2>2, <2>6, <2>7, <2>10, <2>12, <2>13, <2>14, AdvanceStep DEF RequestOK
<1>6. \/ todo = {} /\ Go(t, "takeout", my[t])
      \/ \E k \in todo :
            /\ ProductFree(t, Lines[n][k].product)
            /\ Go(t, "revert", [my[t] EXCEPT !.items = @ \cup {k},
                    !.work = With(my[t].work, Lines[n][k].product,
                                  Reverted(Row(t, Lines[n][k].product), Lines[n][k]))])
  <2>1. (IF begun # {} THEN begun ELSE todo) \subseteq todo
    OBVIOUS
  <2>. QED  BY <2>1 DEF RevertItem
<1>. HIDE DEF todo
<1>. QED  BY <1>4, <1>5, <1>6

LEMMA ReadPayablesKeeps ==
    ASSUME IInv, NEW t \in Tx, ReadPayables(t)
    PROVE  IInv'
<1>0. PICK n, K, S, r :
        /\ n = my[t].note /\ K = PayablesOf(n) /\ S = BaixasOf(K)
        /\ r = [my[t] EXCEPT !.voids = K, !.payments = S]
  OBVIOUS
<1>1. pc[t] = "payables" /\ OnlyRequest /\ (Go(t, "done", r) \/ Go(t, "delete", r))
      /\ Shape /\ RequestAt(t) /\ EntryAt(t) /\ CostAt(t) /\ t \in UnderWay
  BY <1>0 DEF ReadPayables, At, IInv, RequestOK, UnderWay
<1>2. my[t] \in Requests /\ K \in SUBSET Titles /\ S \in SUBSET Settlements
  BY <1>0, <1>1 DEF Shape, PayablesOf, BaixasOf
<1>3. /\ r \in Requests /\ r.voids = K /\ r.payments = S /\ r.note = n /\ r.kind = my[t].kind
      /\ r.freight = my[t].freight /\ r.locked = my[t].locked /\ r.work = my[t].work
      /\ r.items = my[t].items
  BY <1>0, <1>2 DEF Requests
<1>4. CASE Go(t, "done", r)
  BY <1>1, <1>4, EndStep DEF Go, End
<1>5. CASE Go(t, "delete", r)
  <2>1. "delete" \in Labels \ {"new", "done"}
    BY DEF Labels
  <2>2. pc'[t] = "delete" /\ my'[t] = r
    BY <1>1, <1>3, <1>5, <2>1, GoTypes
  <2>3. /\ Deleting(t)' /\ Deleting(t)
        /\ ~Launching(t)' /\ ~Launching(t) /\ (t \in UnderWay)'
        /\ Listed(t)' = Listed(t) /\ \A p : Brought(p, Listed(t))' = Brought(p, Listed(t))
    BY <1>0, <1>1, <1>3, <2>2 DEF Launching, Deleting, UnderWay, Listed, Brought
  <2>4. RequestAt(t)'
    BY <1>0, <1>1, <1>3, <2>2, <2>3 DEF RequestAt, At
  <2>5. EntryAt(t)'
    BY <1>0, <1>1, <1>3, <2>2, <2>3, TablesStay DEF EntryAt, At
  <2>6. CostAt(t)'
    BY <1>0, <1>1, <1>3, <2>2, <2>3, TablesStay DEF CostAt
  <2>7. PayableAt(t)'
    <3>1. /\ title' = title /\ PayablesOf(n)' = PayablesOf(n) /\ BaixasOf(K)' = BaixasOf(K)
          /\ my'[t].note = n /\ my'[t].voids = K /\ my'[t].payments = S
      BY <1>1, <1>3, <2>2, TablesStay
    <3>2. (\A T \in K : title[T].note = n) /\ \A s \in S : s.title \in K
      BY <1>0 DEF PayablesOf, BaixasOf
    <3>3. BaixasOf(my[t].voids)' = BaixasOf(K)'
      BY <3>1 DEF BaixasOf
    <3>4. /\ \A T \in my'[t].voids : title'[T].note = my'[t].note
          /\ \A s \in my'[t].payments : title'[s.title].note = my'[t].note
      BY <3>1, <3>2
    <3>5. PayablesOf(my[t].note)' = PayablesOf(n)'
      BY <3>1 DEF PayablesOf
    <3>. QED  BY <1>0, <2>2, <3>1, <3>3, <3>4, <3>5 DEF PayableAt, At
  <2>. QED  BY <1>0, <1>1, <1>3, <1>5, <2>1, <2>4, <2>5, <2>6, <2>7, AdvanceStep DEF RequestOK
<1>. QED  BY <1>1, <1>4, <1>5

LEMMA ReadOpenKeeps ==
    ASSUME IInv, NEW t \in Tx, ReadOpen(t)
    PROVE  IInv'
<1>0. PICK T, r : T = my[t].title /\ r = [my[t] EXCEPT !.sum = title[T].open]
  OBVIOUS
<1>1. /\ pc[t] = "open" /\ OnlyRequest
      /\ Go(t, IF title[T].status = "ABERTO" /\ title[T].open > 0 THEN "pay" ELSE "done", r)
      /\ Shape /\ RequestAt(t) /\ PayableAt(t) /\ t \in UnderWay
  BY <1>0 DEF ReadOpen, At, IInv, RequestOK, UnderWay
<1>2. my[t] \in Requests /\ T \in Titles /\ title[T].open \in Opens /\ title[T].note = my[t].note
      /\ ~my[t].locked
  BY <1>0, <1>1 DEF Shape, PayableAt, At, TitleRows, RequestAt, Launching, Deleting
<1>3. /\ r \in Requests /\ r.sum = title[T].open /\ r.title = T /\ r.note = my[t].note
      /\ r.kind = my[t].kind /\ r.freight = my[t].freight /\ r.locked = my[t].locked
      /\ r.work = my[t].work /\ r.items = my[t].items
  BY <1>0, <1>2 DEF Requests
<1>4. CASE ~(title[T].status = "ABERTO" /\ title[T].open > 0)
  BY <1>1, <1>4, EndStep DEF Go, End
<1>5. CASE title[T].status = "ABERTO" /\ title[T].open > 0
  <2>1. Go(t, "pay", r) /\ "pay" \in Labels \ {"new", "done"}
    BY <1>1, <1>5 DEF Labels
  <2>2. pc'[t] = "pay" /\ my'[t] = r /\ title' = title
    BY <1>1, <1>3, <2>1, GoTypes, TablesStay
  <2>3. ~Deleting(t)' /\ ~Launching(t)' /\ ~Deleting(t) /\ ~Launching(t) /\ (t \in UnderWay)'
    BY <1>1, <2>2 DEF Launching, Deleting, UnderWay
  <2>4. RequestAt(t)'
    BY <1>1, <1>2, <1>3, <2>2, <2>3 DEF RequestAt, At
  <2>5. PayableAt(t)'
    BY <1>2, <1>3, <1>5, <2>2 DEF PayableAt, At
  <2>. QED  BY <1>1, <1>2, <1>3, <2>1, <2>2, <2>4, <2>5, UnlockedEntry, AdvanceStep DEF RequestOK
<1>. QED  BY <1>4, <1>5

LEMMA FailKeeps ==
    ASSUME IInv, NEW t \in Tx, Fail(t)
    PROVE  IInv'
<1>1. pc[t] # "done" /\ End(t) /\ OnlyRequest
  BY DEF Fail, UnderWay
<1>. QED  BY <1>1, EndStep

-----------------------------------------------------------------------------
(***************************************************************************)
(* The commits of lancar and excluir: stock and movements.                  *)
(***************************************************************************)

\* A request that ends gives up its locks.
LEMMA EndFrame ==
    ASSUME IInv, NEW t \in Tx, pc[t] # "done", End(t), overlap' = overlap
    PROVE  /\ pc' \in [Tx -> Labels] /\ my' \in [Tx -> Requests] /\ RequestOK(t)'
           /\ pc'[t] = "done" /\ my'[t] = Idle
           /\ \A u \in Tx \ {t} : pc'[u] = pc[u] /\ my'[u] = my[u]
           /\ \A u \in Tx : At(u, "done") => At(u, "done")'
           /\ HeadersHeld' /\ ProductsHeld' /\ Alone'
<1>1. Go(t, "done", Idle) /\ Idle \in Requests /\ "done" \in Labels /\ Shape
  BY IdleIsTyped DEF End, Labels, IInv
<1>2. /\ pc' \in [Tx -> Labels] /\ my' \in [Tx -> Requests] /\ pc'[t] = "done" /\ my'[t] = Idle
      /\ \A u \in Tx \ {t} : pc'[u] = pc[u] /\ my'[u] = my[u]
  BY <1>1, GoTypes
<1>3. RequestOK(t)' /\ my'[t].locked = FALSE /\ DOMAIN my'[t].work = {}
  BY <1>2, DoneIsOK
<1>4. HeadersHeld'
  BY <1>2, <1>3 DEF HeadersHeld, IInv
<1>5. ProductsHeld'
  BY <1>2, <1>3 DEF ProductsHeld, IInv
<1>6. Alone'
  <2>1. (\A u \in Tx \ {t} : (u \in UnderWay)' <=> u \in UnderWay) /\ (t \notin UnderWay)'
    BY <1>2 DEF UnderWay
  <2>2. UnderWay' \subseteq Tx /\ UnderWay \subseteq Tx
    BY DEF UnderWay
  <2>. QED  BY <1>2, <2>1, <2>2 DEF Alone, IInv
<1>7. \A u \in Tx : At(u, "done") => At(u, "done")'
  BY <1>2 DEF At
<1>. QED  BY <1>2, <1>3, <1>4, <1>5, <1>6, <1>7

\* What a commit makes of the stock, when all items are handled.
LEMMA CommittedRows ==
    ASSUME IInv, NEW t \in Tx, my[t].locked, my[t].items = DOMAIN Lines[my[t].note],
           stock' = [p \in Products |-> Row(t, p)]
    PROVE  /\ my[t].note \in Notes
           /\ stock' \in [Products -> ProductRows]
           /\ \A p \in Products :
                /\ p \notin ProductsOf(my[t].note) => stock'[p] = stock[p]
                /\ Launching(t) =>
                        stock'[p].balance = stock[p].balance + Brought(p, ItemsOf(my[t].note))
                /\ Deleting(t) =>
                        stock'[p].balance = stock[p].balance - Brought(p, ItemsOf(my[t].note))
                /\ Brought(p, ItemsOf(my[t].note)) \in Nat
                /\ At(t, "delete") => stock'[p].balance >= 0
           /\ \A u \in Tx \ {t} : \A p \in DOMAIN my[u].work : stock'[p] = stock[p]
           /\ \A u \in Tx \ {t} : my[u].locked => my[u].note # my[t].note
           /\ \A k \in DOMAIN Lines[my[t].note] : Single(my[t].note, k) =>
                LET line == Lines[my[t].note][k]
                IN  stock'[line.product] = IF Launching(t) THEN Entered(stock[line.product], line)
                                           ELSE Reverted(stock[line.product], line)
<1>0. PICK n : n = my[t].note
  OBVIOUS
<1>1. Shape /\ RequestAt(t) /\ EntryAt(t) /\ CostAt(t) /\ HeadersHeld /\ ProductsHeld /\ BalancesHeld
  BY DEF IInv, RequestOK
<1>2. n \in Notes /\ DOMAIN my[t].work = ProductsOf(n) /\ Listed(t) = ItemsOf(n)
  BY <1>0, <1>1 DEF RequestAt, EntryAt, UnderWay, Idle, ProductsOf, Listed, ItemsOf
<1>3. \A p \in Products : Row(t, p) \in ProductRows /\ stock[p] \in ProductRows
                          /\ DOMAIN my[t].work \subseteq Products
  BY <1>1, RowIsTyped
<1>4. stock' \in [Products -> ProductRows]
  BY <1>3
<1>5. \A p \in Products : p \notin ProductsOf(n) => stock'[p] = stock[p]
  BY <1>2 DEF Row
<1>6. \A p \in Products :
        /\ Launching(t) => stock'[p].balance = stock[p].balance + Brought(p, ItemsOf(n))
        /\ Deleting(t) => stock'[p].balance = stock[p].balance - Brought(p, ItemsOf(n))
        /\ Brought(p, ItemsOf(n)) \in Nat
  BY <1>1, <1>2, RowBalance
<1>7. \A p \in Products : At(t, "delete") => stock'[p].balance >= 0
  <2>1. ASSUME NEW p \in Products, At(t, "delete") PROVE stock'[p].balance >= 0
    <3>1. Deleting(t) /\ pc[t] = "delete"
      BY <2>1 DEF Deleting, At
    <3>2. CASE p \in DOMAIN my[t].work
      BY <1>1, <3>1, <3>2 DEF EntryAt, Row
    <3>3. CASE p \notin DOMAIN my[t].work
      BY <1>1, <3>3 DEF Row, BalancesHeld
    <3>. QED  BY <3>2, <3>3
  <2>. QED  BY <2>1
<1>8. ASSUME NEW u \in Tx \ {t}, NEW p \in DOMAIN my[u].work PROVE stock'[p] = stock[p]
  <2>1. p \notin DOMAIN my[t].work
    BY <1>1 DEF ProductsHeld
  <2>2. my[u].work \in Works
    BY <1>1 DEF Shape, Requests
  <2>3. p \in Products
    BY <2>2 DEF Works
  <2>. QED  BY <2>1, <2>3 DEF Row
<1>9. \A u \in Tx \ {t} : my[u].locked => my[u].note # n
  BY <1>0, <1>1 DEF HeadersHeld
<1>10. ASSUME NEW k \in DOMAIN Lines[n], Single(n, k)
       PROVE  stock'[Lines[n][k].product] =
                IF Launching(t) THEN Entered(stock[Lines[n][k].product], Lines[n][k])
                ELSE Reverted(stock[Lines[n][k].product], Lines[n][k])
  <2>1. Lines[n][k].product \in DOMAIN my[t].work /\ Lines[n][k].product \in Products
    BY <1>2, ItemTypes DEF ProductsOf, ItemRows
  <2>2. stock'[Lines[n][k].product] = my[t].work[Lines[n][k].product]
    BY <2>1 DEF Row
  <2>. QED  BY <1>0, <1>1, <1>10, <2>2 DEF CostAt
<1>. HIDE DEF IInv
<1>. QED  BY <1>0, <1>2, <1>4, <1>5, <1>6, <1>7, <1>8, <1>9, <1>10

\* The equation of EntriesMatchStock.
LEMMA StockEquation ==
    /\ EntriesMatchStock <=>
        /\ \A n \in Notes :
            {x \in moved : x[1] = n} = IF note[n].launched THEN ItemsOf(n) ELSE {}
        /\ \A p \in Products : stock[p].balance + sold[p] = StartStock + Brought(p, moved)
    /\ EntriesMatchStock' <=>
        /\ \A n \in Notes :
            {x \in moved' : x[1] = n} = IF note'[n].launched THEN ItemsOf(n) ELSE {}
        /\ \A p \in Products : stock'[p].balance + sold'[p] = StartStock + Brought(p, moved')
  BY DEF EntriesMatchStock, Brought, ItemsOf

\* The commit of lancar.
Launched(t) ==
    LET n == my[t].note
    IN  /\ note' = [note EXCEPT ![n].launched = TRUE]
        /\ moved' = moved \cup {<< n, k >> : k \in DOMAIN Lines[n]}
        /\ stock' = [p \in Products |-> Row(t, p)]
        /\ before' = [before EXCEPT ![n] = stock]
        /\ touched' = {x \in touched : x[1] # n} \cup ((Notes \ {n}) \X ProductsOf(n))
        /\ sold' = sold

LEMMA LaunchedKeeps ==
    ASSUME IInv, NEW t \in Tx, At(t, "insert"), my[t].kind = "lancar", Launched(t)
    PROVE  LET n == my[t].note
           IN  /\ n \in Notes /\ ~note[n].launched /\ ~note[n].dispensed
               /\ note' \in [Notes -> [launched : BOOLEAN, dispensed : BOOLEAN]]
               /\ \A m \in Notes \ {n} : note'[m] = note[m]
               /\ note'[n].launched /\ ~note'[n].dispensed
               /\ moved' \subseteq Notes \X Nat /\ IsFiniteSet(moved')
               /\ stock' \in [Products -> ProductRows]
               /\ before' \in [Notes -> [Products -> ProductRows]]
               /\ touched' \subseteq Notes \X Products
               /\ BalancesHeld' /\ EntriesMatchStock' /\ \A m \in Notes : CostsOf(m)'
               /\ \A u \in Tx \ {t} : \A p \in DOMAIN my[u].work : stock'[p] = stock[p]
               /\ \A u \in Tx \ {t} : my[u].locked => my[u].note # n
<1>0. PICK n : n = my[t].note
  OBVIOUS
<1>1. Shape /\ RequestAt(t) /\ EntryAt(t) /\ BalancesHeld /\ EntriesMatchStock
      /\ \A m \in Notes : CostsOf(m)
  BY DEF IInv, RequestOK
<1>2. Launching(t) /\ my[t].locked /\ n \in Notes /\ t \in UnderWay
  BY <1>0, <1>1 DEF Launching, RequestAt, UnderWay, At
<1>3. ~note[n].launched /\ ~note[n].dispensed /\ my[t].items = DOMAIN Lines[n]
  BY <1>0, <1>1, <1>2, ItemTypes DEF EntryAt, At
<1>4. /\ note' = [note EXCEPT ![n].launched = TRUE]
      /\ moved' = moved \cup ItemsOf(n)
      /\ stock' = [p \in Products |-> Row(t, p)]
      /\ before' = [before EXCEPT ![n] = stock]
      /\ touched' = {x \in touched : x[1] # n} \cup ((Notes \ {n}) \X ProductsOf(n))
      /\ sold' = sold
  BY <1>0 DEF Launched, ItemsOf
<1>5. /\ stock' \in [Products -> ProductRows]
      /\ \A p \in Products :
            /\ p \notin ProductsOf(n) => stock'[p] = stock[p]
            /\ stock'[p].balance = stock[p].balance + Brought(p, ItemsOf(n))
            /\ Brought(p, ItemsOf(n)) \in Nat
      /\ \A u \in Tx \ {t} : \A p \in DOMAIN my[u].work : stock'[p] = stock[p]
      /\ \A u \in Tx \ {t} : my[u].locked => my[u].note # n
      /\ \A k \in DOMAIN Lines[n] : Single(n, k) =>
            stock'[Lines[n][k].product] = Entered(stock[Lines[n][k].product], Lines[n][k])
  <2>. HIDE DEF IInv
  <2>. QED  BY <1>0, <1>2, <1>3, <1>4, CommittedRows
<1>6. /\ note' \in [Notes -> [launched : BOOLEAN, dispensed : BOOLEAN]]
      /\ \A m \in Notes \ {n} : note'[m] = note[m]
      /\ note'[n].launched /\ ~note'[n].dispensed
  <2>1. /\ note \in [Notes -> [launched : BOOLEAN, dispensed : BOOLEAN]]
        /\ note' = [note EXCEPT ![n] = [note[n] EXCEPT !.launched = TRUE]]
    BY <1>1, <1>4 DEF Shape
  <2>2. [note[n] EXCEPT !.launched = TRUE] \in [launched : BOOLEAN, dispensed : BOOLEAN]
    BY <1>2, <2>1
  <2>3. note' \in [Notes -> [launched : BOOLEAN, dispensed : BOOLEAN]]
        /\ \A m \in Notes \ {n} : note'[m] = note[m]
    BY <2>1, <2>2
  <2>4. note'[n] = [note[n] EXCEPT !.launched = TRUE]
    BY <1>2, <2>1
  <2>5. note'[n].launched = TRUE /\ note'[n].dispensed = note[n].dispensed
    BY <1>2, <2>1, <2>4
  <2>. QED  BY <1>3, <2>3, <2>5
<1>7. moved \subseteq AllItems /\ moved \cap ItemsOf(n) = {} /\ IsFiniteSet(moved)
  <2>1. \A x \in moved : x[1] # n
    BY <1>1, <1>2, <1>3, MovedItems
  <2>. QED  BY <1>1, <1>2, <2>1, MovedItems DEF ItemsOf, Shape
<1>8. ItemsOf(n) \subseteq AllItems /\ IsFiniteSet(ItemsOf(n))
  BY <1>2, ItemsOfNote
<1>9. moved' \subseteq Notes \X Nat /\ IsFiniteSet(moved')
  BY <1>4, <1>7, <1>8, FS_Union DEF AllItems
<1>10. before' \in [Notes -> [Products -> ProductRows]] /\ before'[n] = stock
       /\ \A m \in Notes \ {n} : before'[m] = before[m]
  BY <1>1, <1>2, <1>4 DEF Shape
<1>11. touched' \subseteq Notes \X Products
  <2>1. ProductsOf(n) \subseteq Products
    BY <1>2, ItemTypes DEF ProductsOf, ItemRows
  <2>. QED  BY <1>1, <1>4, <2>1 DEF Shape
<1>12. BalancesHeld'
  <2>1. \A p \in Products : stock[p].balance \in Int /\ stock[p].balance >= 0
    BY <1>1, RowIsTyped DEF BalancesHeld
  <2>2. \A p \in Products : stock'[p].balance >= 0
    BY <1>5, <2>1
  <2>3. \A m \in Notes, p \in Products : before'[m][p].balance >= 0
    BY <1>1, <1>10 DEF BalancesHeld
  <2>. QED  BY <2>2, <2>3 DEF BalancesHeld
<1>13. EntriesMatchStock'
  <2>1. ASSUME NEW m \in Notes
        PROVE  {x \in moved' : x[1] = m} = IF note'[m].launched THEN ItemsOf(m) ELSE {}
    <3>1. {x \in moved : x[1] = m} = IF note[m].launched THEN ItemsOf(m) ELSE {}
      BY <1>1, StockEquation
    <3>2. \A x \in ItemsOf(n) : x[1] = n
      BY DEF ItemsOf
    <3>3. CASE m = n
      BY <1>3, <1>4, <1>6, <3>1, <3>2, <3>3
    <3>4. CASE m # n
      BY <1>4, <1>6, <3>1, <3>2, <3>4
    <3>. QED  BY <3>3, <3>4
  <2>2. ASSUME NEW p \in Products
        PROVE  stock'[p].balance + sold'[p] = StartStock + Brought(p, moved')
    <3>1. stock[p].balance + sold[p] = StartStock + Brought(p, moved)
      BY <1>1, StockEquation
    <3>2. Brought(p, moved \cup ItemsOf(n)) = Brought(p, moved) + Brought(p, ItemsOf(n))
      BY <1>7, <1>8, BroughtOfUnion
    <3>3. Brought(p, moved) \in Nat
      BY <1>7, BroughtIsNat
    <3>4. stock[p].balance \in Int /\ sold[p] \in Nat /\ StartStock \in Nat
      BY <1>1, RowIsTyped, PurchasesAssumption DEF Shape, PurchasesAssumption
    <3>. QED  BY <1>4, <1>5, <3>1, <3>2, <3>3, <3>4
  <2>. QED  BY <2>1, <2>2, StockEquation
<1>14. ASSUME NEW m \in Notes PROVE CostsOf(m)'
  <2>1. CASE m = n
    BY <1>5, <1>10, <2>1 DEF CostsOf
  <2>2. CASE m # n
    <3>1. ASSUME NEW k \in DOMAIN Lines[m], << m, Lines[m][k].product >> \notin touched'
          PROVE  << m, Lines[m][k].product >> \notin touched
                 /\ stock'[Lines[m][k].product] = stock[Lines[m][k].product]
      <4>1. Lines[m][k].product \in Products
        BY ItemTypes DEF ItemRows
      <4>2. Lines[m][k].product \notin ProductsOf(n)
        BY <1>4, <2>2, <3>1
      <4>3. << m, Lines[m][k].product >> \notin touched
        BY <1>4, <2>2, <3>1
      <4>. QED  BY <1>5, <4>1, <4>2, <4>3
    <3>2. note'[m] = note[m] /\ before'[m] = before[m] /\ CostsOf(m)
      BY <1>1, <1>6, <1>10, <2>2
    <3>. QED  BY <3>1, <3>2 DEF CostsOf
  <2>. QED  BY <2>1, <2>2
<1>. HIDE DEF IInv
<1>. QED  BY <1>0, <1>2, <1>3, <1>5, <1>6, <1>9, <1>10, <1>11, <1>12, <1>13, <1>14

\* The commit of excluir.
Deleted(t) ==
    LET n == my[t].note
    IN  /\ note' = [note EXCEPT ![n].launched = FALSE]
        /\ moved' = Renamed(n)
        /\ stock' = [p \in Products |-> Row(t, p)]
        /\ touched' = touched \cup ((Notes \ {n}) \X ProductsOf(n))
        /\ before' = before /\ sold' = sold

LEMMA DeletedKeeps ==
    ASSUME IInv, NEW t \in Tx, At(t, "delete"), Deleted(t)
    PROVE  LET n == my[t].note
           IN  /\ n \in Notes /\ note[n].launched
               /\ note' \in [Notes -> [launched : BOOLEAN, dispensed : BOOLEAN]]
               /\ \A m \in Notes \ {n} : note'[m] = note[m]
               /\ ~note'[n].launched
               /\ moved' \subseteq Notes \X Nat /\ IsFiniteSet(moved')
               /\ stock' \in [Products -> ProductRows]
               /\ touched' \subseteq Notes \X Products
               /\ BalancesHeld' /\ EntriesMatchStock' /\ \A m \in Notes : CostsOf(m)'
               /\ \A u \in Tx \ {t} : \A p \in DOMAIN my[u].work : stock'[p] = stock[p]
               /\ \A u \in Tx \ {t} : my[u].locked => my[u].note # n
               /\ \A k \in DOMAIN Lines[n] : Single(n, k) =>
                    stock'[Lines[n][k].product] = Reverted(stock[Lines[n][k].product], Lines[n][k])
<1>0. PICK n : n = my[t].note
  OBVIOUS
<1>1. Shape /\ RequestAt(t) /\ EntryAt(t) /\ BalancesHeld /\ EntriesMatchStock
      /\ \A m \in Notes : CostsOf(m)
  BY DEF IInv, RequestOK
<1>2. Deleting(t) /\ ~Launching(t) /\ my[t].locked /\ n \in Notes /\ t \in UnderWay
  BY <1>0, <1>1 DEF Launching, Deleting, RequestAt, UnderWay, At
<1>3. note[n].launched /\ my[t].items = DOMAIN Lines[n]
  BY <1>0, <1>1, <1>2 DEF EntryAt, At
<1>4. /\ note' = [note EXCEPT ![n].launched = FALSE]
      /\ moved' = {x \in moved : x[1] # n}
      /\ stock' = [p \in Products |-> Row(t, p)]
      /\ touched' = touched \cup ((Notes \ {n}) \X ProductsOf(n))
      /\ before' = before /\ sold' = sold
  BY <1>0 DEF Deleted, Renamed
<1>5. /\ stock' \in [Products -> ProductRows]
      /\ \A p \in Products :
            /\ p \notin ProductsOf(n) => stock'[p] = stock[p]
            /\ stock'[p].balance = stock[p].balance - Brought(p, ItemsOf(n))
            /\ Brought(p, ItemsOf(n)) \in Nat
            /\ stock'[p].balance >= 0
      /\ \A u \in Tx \ {t} : \A p \in DOMAIN my[u].work : stock'[p] = stock[p]
      /\ \A u \in Tx \ {t} : my[u].locked => my[u].note # n
      /\ \A k \in DOMAIN Lines[n] : Single(n, k) =>
            stock'[Lines[n][k].product] = Reverted(stock[Lines[n][k].product], Lines[n][k])
  <2>. HIDE DEF IInv
  <2>1. my[t].locked /\ my[t].items = DOMAIN Lines[my[t].note] /\ stock' = [p \in Products |-> Row(t, p)]
    BY <1>0, <1>2, <1>3, <1>4
  <2>2. /\ stock' \in [Products -> ProductRows]
        /\ \A p \in Products :
            /\ p \notin ProductsOf(n) => stock'[p] = stock[p]
            /\ stock'[p].balance = stock[p].balance - Brought(p, ItemsOf(n))
            /\ Brought(p, ItemsOf(n)) \in Nat
            /\ stock'[p].balance >= 0
    BY <1>0, <1>2, <2>1, CommittedRows
  <2>3. /\ \A u \in Tx \ {t} : \A p \in DOMAIN my[u].work : stock'[p] = stock[p]
        /\ \A u \in Tx \ {t} : my[u].locked => my[u].note # n
    BY <1>0, <1>2, <2>1, CommittedRows
  <2>4. ASSUME NEW k \in DOMAIN Lines[n], Single(n, k)
        PROVE  stock'[Lines[n][k].product] = Reverted(stock[Lines[n][k].product], Lines[n][k])
    <3>1. \A j \in DOMAIN Lines[my[t].note] : Single(my[t].note, j) =>
            stock'[Lines[my[t].note][j].product]
                = IF Launching(t)
                  THEN Entered(stock[Lines[my[t].note][j].product], Lines[my[t].note][j])
                  ELSE Reverted(stock[Lines[my[t].note][j].product], Lines[my[t].note][j])
      BY <2>1, CommittedRows
    <3>. QED  BY <1>0, <1>2, <2>4, <3>1
  <2>. QED  BY <2>2, <2>3, <2>4
<1>6. /\ note' \in [Notes -> [launched : BOOLEAN, dispensed : BOOLEAN]]
      /\ \A m \in Notes \ {n} : note'[m] = note[m]
      /\ ~note'[n].launched
  <2>1. /\ note \in [Notes -> [launched : BOOLEAN, dispensed : BOOLEAN]]
        /\ note' = [note EXCEPT ![n] = [note[n] EXCEPT !.launched = FALSE]]
    BY <1>1, <1>4 DEF Shape
  <2>2. [note[n] EXCEPT !.launched = FALSE] \in [launched : BOOLEAN, dispensed : BOOLEAN]
    BY <1>2, <2>1
  <2>3. note' \in [Notes -> [launched : BOOLEAN, dispensed : BOOLEAN]]
        /\ \A m \in Notes \ {n} : note'[m] = note[m]
    BY <2>1, <2>2
  <2>4. note'[n] = [note[n] EXCEPT !.launched = FALSE]
    BY <1>2, <2>1
  <2>5. note'[n].launched = FALSE
    BY <1>2, <2>1, <2>4
  <2>. QED  BY <2>3, <2>5
<1>7. /\ moved' \subseteq AllItems /\ ItemsOf(n) \subseteq AllItems
      /\ IsFiniteSet(moved') /\ IsFiniteSet(ItemsOf(n))
      /\ moved' \cap ItemsOf(n) = {} /\ moved = moved' \cup ItemsOf(n)
  <2>1. moved \subseteq AllItems /\ ItemsOf(n) \subseteq moved /\ IsFiniteSet(moved)
    BY <1>1, <1>2, <1>3, MovedItems DEF Shape
  <2>2. {x \in moved : x[1] = n} = ItemsOf(n)
    BY <1>1, <1>2, <1>3, StockEquation
  <2>3. moved' \cap ItemsOf(n) = {} /\ moved = moved' \cup ItemsOf(n)
    BY <1>4, <2>2
  <2>. QED  BY <1>2, <1>4, <2>1, <2>3, ItemsOfNote, FS_Subset
<1>8. touched' \subseteq Notes \X Products
  <2>1. ProductsOf(n) \subseteq Products
    BY <1>2, ItemTypes DEF ProductsOf, ItemRows
  <2>. QED  BY <1>1, <1>4, <2>1 DEF Shape
<1>9. BalancesHeld'
  BY <1>1, <1>4, <1>5 DEF BalancesHeld
<1>10. EntriesMatchStock'
  <2>1. ASSUME NEW m \in Notes
        PROVE  {x \in moved' : x[1] = m} = IF note'[m].launched THEN ItemsOf(m) ELSE {}
    <3>1. {x \in moved : x[1] = m} = IF note[m].launched THEN ItemsOf(m) ELSE {}
      BY <1>1, StockEquation
    <3>2. CASE m = n
      BY <1>4, <1>6, <3>2
    <3>3. CASE m # n
      <4>1. {x \in moved' : x[1] = m} = {x \in moved : x[1] = m}
        BY <1>4, <3>3
      <4>. QED  BY <1>6, <3>1, <3>3, <4>1
    <3>. QED  BY <3>2, <3>3
  <2>2. ASSUME NEW p \in Products
        PROVE  stock'[p].balance + sold'[p] = StartStock + Brought(p, moved')
    <3>1. stock[p].balance + sold[p] = StartStock + Brought(p, moved)
      BY <1>1, StockEquation
    <3>2. Brought(p, moved) = Brought(p, moved') + Brought(p, ItemsOf(n))
      BY <1>7, BroughtOfUnion
    <3>3. Brought(p, moved') \in Nat
      BY <1>7, BroughtIsNat
    <3>4. stock[p].balance \in Int /\ sold[p] \in Nat /\ StartStock \in Nat
      BY <1>1, RowIsTyped, PurchasesAssumption DEF Shape, PurchasesAssumption
    <3>. QED  BY <1>4, <1>5, <3>1, <3>2, <3>3, <3>4
  <2>. QED  BY <2>1, <2>2, StockEquation
<1>11. ASSUME NEW m \in Notes PROVE CostsOf(m)'
  <2>1. CASE m = n
    BY <1>6, <2>1 DEF CostsOf
  <2>2. CASE m # n
    <3>1. ASSUME NEW k \in DOMAIN Lines[m], << m, Lines[m][k].product >> \notin touched'
          PROVE  << m, Lines[m][k].product >> \notin touched
                 /\ stock'[Lines[m][k].product] = stock[Lines[m][k].product]
      <4>1. Lines[m][k].product \in Products
        BY ItemTypes DEF ItemRows
      <4>2. Lines[m][k].product \notin ProductsOf(n)
        BY <1>4, <2>2, <3>1
      <4>. QED  BY <1>4, <1>5, <3>1, <4>1, <4>2
    <3>2. note'[m] = note[m] /\ before'[m] = before[m] /\ CostsOf(m)
      BY <1>1, <1>4, <1>6, <2>2
    <3>. QED  BY <3>1, <3>2 DEF CostsOf
  <2>. QED  BY <2>1, <2>2
<1>12. moved' \subseteq Notes \X Nat
  BY <1>7 DEF AllItems
<1>. HIDE DEF IInv
<1>. QED  BY <1>0, <1>2, <1>3, <1>5, <1>6, <1>7, <1>8, <1>9, <1>10, <1>11, <1>12

-----------------------------------------------------------------------------
(***************************************************************************)
(* Payables and settlements.                                                *)
(***************************************************************************)

\* What the proofs say of the payables of a note.
PayablesOfNote(n) ==
    /\ ~(note[n].launched /\ note[n].dispensed)
    /\ LET owed == {T \in PayablesOf(n) : T[2] = "COMPRA"}
       IN  Cardinality(owed) <= 1 /\ (note[n].launched => owed # {})
    /\ \A T \in {x \in Titles : title[x].note = n} :
        LET paid == AmountsOn(T, settled)
        IN  IF title[T].status = "ABERTO" THEN title[T].open + paid = title[T].original
            ELSE paid = 0

LEMMA PayablesSplit ==
    /\ PayablesFollowEntries <=> \A n \in Notes \ overlap : PayablesOfNote(n)
    /\ PayablesFollowEntries' <=> \A n \in Notes \ overlap' : PayablesOfNote(n)'
  BY DEF PayablesFollowEntries, PayablesOfNote

\* A note whose titles, and what is settled of them, do not change.
LEMMA OtherNote ==
    ASSUME NEW n \in Notes, PayablesOfNote(n), note'[n] = note[n],
           \A T \in Titles : title[T].note = n \/ title'[T].note = n =>
                title'[T] = title[T] /\ AmountsOn(T, settled') = AmountsOn(T, settled)
    PROVE  PayablesOfNote(n)' /\ PayablesOf(n)' = PayablesOf(n)
<1>1. PayablesOf(n)' = PayablesOf(n)
  BY DEF PayablesOf
<1>2. \A T \in Titles : title'[T].note = n =>
        title[T].note = n /\ title'[T] = title[T]
        /\ AmountsOn(T, settled)' = AmountsOn(T, settled)
  BY DEF AmountsOn
<1>. QED  BY <1>1, <1>2 DEF PayablesOfNote

\* Two requests that are about to commit do not have the same note, unless it
\* is one of overlap.
Committing(t) == pc[t] \in {"insert", "delete", "write", "pay"}

LEMMA NoOtherCommits ==
    ASSUME IInv, NEW t \in Tx, NEW u \in Tx, t # u, Committing(t), Committing(u),
           my[t].note = my[u].note, my[t].note \notin overlap
    PROVE  FALSE
<1>1. t \in UnderWay /\ u \in UnderWay /\ RequestAt(t) /\ RequestAt(u) /\ HeadersHeld /\ Alone
  BY DEF Committing, UnderWay, IInv, RequestOK
<1>2. my[t].kind \notin Unlocked /\ my[u].kind \notin Unlocked
  BY <1>1 DEF Alone
<1>3. my[t].locked /\ my[u].locked
  BY <1>1, <1>2 DEF RequestAt, At, Committing, Launching, Deleting, Unlocked
<1>. QED  BY <1>1, <1>3 DEF HeadersHeld

\* What a request knows of payables that do not change.
LEMMA OtherPayable ==
    ASSUME NEW u \in Tx, PayableAt(u), pc'[u] = pc[u], my'[u] = my[u], overlap' = overlap,
           Shape, settled' \subseteq Settlements, my[u].note \in Notes,
           \A T \in Titles : title[T].note \in Notes => title'[T].note = title[T].note,
           Committing(u) /\ my[u].note \notin overlap =>
              /\ note'[my[u].note] = note[my[u].note]
              /\ \A T \in Titles : title[T].note = my[u].note \/ title'[T].note = my[u].note =>
                    title'[T] = title[T]
              /\ \A s \in Settlements : title[s.title].note = my[u].note =>
                    (s \in settled <=> s \in settled')
    PROVE  PayableAt(u)'
<1>0. PICK n : n = my[u].note
  OBVIOUS
<1>1. /\ my[u] \in Requests /\ my[u].voids \subseteq Titles /\ my[u].payments \subseteq Settlements
      /\ settled \subseteq Settlements /\ \A s \in Settlements : s.title \in Titles
  BY SettlementFacts DEF Shape, Requests
<1>2. pc[u] \in {"open", "pay"} => my[u].title \in Titles /\ title'[my[u].title].note = n
  BY <1>0 DEF PayableAt
<1>3. At(u, "delete") =>
        /\ \A T \in my[u].voids : title'[T].note = n
        /\ \A s \in my[u].payments : title'[s.title].note = n
  BY <1>0, <1>1 DEF PayableAt
<1>4. n \notin overlap =>
        /\ At(u, "pay") => title'[my[u].title].status = "ABERTO"
                           /\ title'[my[u].title].open = my[u].sum
        /\ At(u, "write") /\ my[u].kind = "dispensar" => ~note'[n].launched
  BY <1>0, <1>2 DEF PayableAt, Committing, At
<1>5. n \notin overlap /\ Committing(u) => PayablesOf(n)' = PayablesOf(n)
  BY <1>0 DEF PayablesOf
<1>6. n \notin overlap /\ At(u, "delete") => BaixasOf(my[u].voids)' = BaixasOf(my[u].voids)
  <2>1. HAVE n \notin overlap /\ At(u, "delete")
  <2>2. Committing(u) /\ \A T \in my[u].voids : title[T].note = n
    BY <1>0, <2>1 DEF PayableAt, Committing, At
  <2>3. \A s \in Settlements : s.title \in my[u].voids => (s \in settled <=> s \in settled')
    BY <1>0, <1>1, <2>1, <2>2
  <2>. QED  BY <1>1, <2>3 DEF BaixasOf
<1>7. n \notin overlap =>
        /\ At(u, "insert") => PayablesOf(n)' = {}
        /\ At(u, "delete") => my[u].voids = PayablesOf(n)'
                              /\ my[u].payments = BaixasOf(my[u].voids)'
  BY <1>0, <1>5, <1>6 DEF PayableAt, Committing, At
<1>8. PayablesOf(my[u].note)' = PayablesOf(n)' /\ BaixasOf(my[u].voids)' = {s \in settled' : s.title \in my[u].voids}
  BY <1>0 DEF PayablesOf, BaixasOf
<1>. QED  BY <1>0, <1>2, <1>3, <1>4, <1>7, <1>8 DEF PayableAt, At

\* A commit that changes the titles, settlements and header of its note alone.
LEMMA CommitStep ==
    ASSUME IInv, NEW t \in Tx, Committing(t), End(t), overlap' = overlap,
           NEW n, n = my[t].note,
           note' \in [Notes -> [launched : BOOLEAN, dispensed : BOOLEAN]],
           moved' \subseteq Notes \X Nat, IsFiniteSet(moved'),
           stock' \in [Products -> ProductRows],
           title' \in [Titles -> TitleRows],
           settled' \subseteq Settlements, IsFiniteSet(settled'),
           sold' \in [Products -> Nat],
           before' \in [Notes -> [Products -> ProductRows]],
           touched' \subseteq Notes \X Products,
           TitlesStored', BalancesHeld', EntriesMatchStock', \A m \in Notes : CostsOf(m)',
           \A m \in Notes \ {n} : note'[m] = note[m],
           \A T \in Titles : title[T].note \in Notes => title'[T].note = title[T].note,
           \A T \in Titles : title[T].note \in Notes \ {n} \/ title'[T].note \in Notes \ {n} =>
                title'[T] = title[T],
           \A s \in Settlements : title[s.title].note \in Notes \ {n} =>
                (s \in settled <=> s \in settled'),
           \A u \in Tx \ {t} : \A p \in DOMAIN my[u].work : stock'[p] = stock[p],
           \A u \in Tx \ {t} : my[u].locked => note'[my[u].note] = note[my[u].note],
           n \notin overlap => PayablesOfNote(n)'
    PROVE  IInv'
<1>1. Shape /\ PayablesFollowEntries
  BY DEF IInv
<1>2. /\ pc' \in [Tx -> Labels] /\ my' \in [Tx -> Requests] /\ RequestOK(t)'
      /\ \A u \in Tx \ {t} : pc'[u] = pc[u] /\ my'[u] = my[u]
      /\ HeadersHeld' /\ ProductsHeld' /\ Alone'
  <2>1. pc[t] # "done"
    BY DEF Committing
  <2>. QED  BY <2>1, EndFrame
<1>3. Shape'
  <2>1. overlap' \subseteq Notes
    BY <1>1 DEF Shape
  <2>. QED  BY <1>2, <2>1 DEF Shape
<1>4. ASSUME NEW u \in Tx PROVE RequestOK(u)'
  <2>1. CASE u = t
    BY <1>2, <2>1
  <2>2. CASE u # t
    <3>1. RequestAt(u) /\ EntryAt(u) /\ CostAt(u) /\ PayableAt(u) /\ pc'[u] = pc[u] /\ my'[u] = my[u]
      BY <1>2, <2>2 DEF IInv, RequestOK
    <3>2. RequestAt(u)' /\ EntryAt(u)' /\ CostAt(u)'
      BY <2>2, <3>1, OtherRequest
    <3>3. CASE u \notin UnderWay
      <4>1. pc[u] \in {"new", "done"} /\ pc'[u] \in {"new", "done"}
        BY <3>1, <3>3 DEF UnderWay
      <4>2. PayableAt(u)'
        BY <4>1 DEF PayableAt, At
      <4>. QED  BY <3>2, <4>2 DEF RequestOK
    <3>4. CASE u \in UnderWay
      <4>1. my[u].note \in Notes
        BY <3>1, <3>4 DEF RequestAt
      <4>2. Committing(u) /\ my[u].note \notin overlap => my[u].note # n
        BY <2>2, NoOtherCommits
      <4>3. Committing(u) /\ my[u].note \notin overlap =>
              /\ note'[my[u].note] = note[my[u].note]
              /\ \A T \in Titles : title[T].note = my[u].note \/ title'[T].note = my[u].note =>
                    title'[T] = title[T]
              /\ \A s \in Settlements : title[s.title].note = my[u].note =>
                    (s \in settled <=> s \in settled')
        BY <4>1, <4>2
      <4>4. PayableAt(u)'
        BY <1>1, <3>1, <4>1, <4>3, OtherPayable
      <4>. QED  BY <3>2, <4>4 DEF RequestOK
    <3>. QED  BY <3>3, <3>4
  <2>. QED  BY <2>1, <2>2
<1>5. PayablesFollowEntries'
  <2>1. ASSUME NEW m \in Notes \ overlap PROVE PayablesOfNote(m)'
    <3>1. CASE m = n
      BY <3>1
    <3>2. CASE m # n
      <4>1. PayablesOfNote(m) /\ note'[m] = note[m]
        BY <1>1, <3>2, PayablesSplit
      <4>2. ASSUME NEW T \in Titles, title[T].note = m \/ title'[T].note = m
            PROVE  title'[T] = title[T] /\ AmountsOn(T, settled') = AmountsOn(T, settled)
        <5>1. title'[T] = title[T] /\ title[T].note = m /\ m \in Notes \ {n}
          BY <3>2, <4>2
        <5>2. settled \subseteq Settlements /\ IsFiniteSet(settled)
          BY <1>1 DEF Shape
        <5>3. {s \in settled : s.title = T} = {s \in settled' : s.title = T}
          BY <5>1, <5>2
        <5>4. AmountsOn(T, settled) = AmountsOn(T, settled')
          BY <5>2, <5>3, AmountsOfSame
        <5>. QED  BY <5>1, <5>4
      <4>. QED  BY <4>1, <4>2, OtherNote
    <3>. QED  BY <3>1, <3>2
  <2>. QED  BY <2>1, PayablesSplit
<1>. QED  BY <1>2, <1>3, <1>4, <1>5 DEF IInv

LEMMA WriteDispensedKeeps ==
    ASSUME IInv, NEW t \in Tx, WriteDispensed(t)
    PROVE  IInv'
<1>0. PICK n, b : n = my[t].note /\ b = (my[t].kind = "dispensar")
  OBVIOUS
<1>1. /\ Shape /\ RequestAt(t) /\ PayableAt(t) /\ TitlesStored /\ BalancesHeld
      /\ EntriesMatchStock /\ PayablesFollowEntries /\ \A m \in Notes : CostsOf(m)
      /\ \A u \in Tx : RequestAt(u)
  BY DEF IInv, RequestOK
<1>2. At(t, "write") /\ Committing(t) /\ t \in UnderWay /\ n \in Notes /\ End(t) /\ pc[t] # "done"
      /\ HeaderFree(t, n) /\ ~my[t].locked
  BY <1>0, <1>1 DEF WriteDispensed, At, Committing, UnderWay, RequestAt, Launching, Deleting
<1>3. /\ note' = [note EXCEPT ![n].dispensed = b]
      /\ moved' = moved /\ stock' = stock /\ title' = title /\ settled' = settled
      /\ sold' = sold /\ before' = before /\ touched' = touched /\ overlap' = overlap
  BY <1>0 DEF WriteDispensed
<1>4. /\ note' \in [Notes -> [launched : BOOLEAN, dispensed : BOOLEAN]]
      /\ \A m \in Notes \ {n} : note'[m] = note[m]
      /\ note'[n].launched = note[n].launched /\ (note'[n].dispensed <=> b)
  <2>1. /\ note \in [Notes -> [launched : BOOLEAN, dispensed : BOOLEAN]]
        /\ note' = [note EXCEPT ![n] = [note[n] EXCEPT !.dispensed = b]] /\ b \in BOOLEAN
    BY <1>0, <1>1, <1>3 DEF Shape
  <2>2. [note[n] EXCEPT !.dispensed = b] \in [launched : BOOLEAN, dispensed : BOOLEAN]
    BY <1>2, <2>1
  <2>3. note' \in [Notes -> [launched : BOOLEAN, dispensed : BOOLEAN]]
        /\ \A m \in Notes \ {n} : note'[m] = note[m]
    BY <2>1, <2>2
  <2>4. note'[n] = [note[n] EXCEPT !.dispensed = b]
    BY <1>2, <2>1
  <2>5. note'[n].dispensed = b /\ note'[n].launched = note[n].launched
    BY <1>2, <2>1, <2>4
  <2>. QED  BY <2>3, <2>5
<1>5. \A u \in Tx \ {t} : my[u].locked => my[u].note \in Notes \ {n}
  <2>1. ASSUME NEW u \in Tx \ {t}, my[u].locked PROVE my[u].note \in Notes \ {n}
    <3>1. u \in UnderWay
      BY <1>1, <2>1 DEF RequestAt, Idle
    <3>. QED  BY <1>1, <1>2, <2>1, <3>1 DEF HeaderFree, RequestAt
  <2>. QED  BY <2>1
<1>6. TitlesStored'
  <2>1. \A u \in Tx : At(u, "done") => At(u, "done")'
    BY <1>2, <1>3, EndFrame
  <2>2. (\A T \in Titles : T[1] \in Tx) /\ \A s \in settled : s.by \in Tx
    BY <1>1, SettlementFacts DEF Titles, Shape
  <2>. QED  BY <1>1, <1>3, <2>1, <2>2 DEF TitlesStored
<1>7. BalancesHeld' /\ EntriesMatchStock' /\ \A m \in Notes : CostsOf(m)'
  <2>1. \A m \in Notes : note'[m].launched = note[m].launched
    BY <1>4
  <2>2. BalancesHeld' /\ \A m \in Notes : CostsOf(m)'
    BY <1>1, <1>3, <2>1 DEF BalancesHeld, CostsOf
  <2>3. EntriesMatchStock'
    BY <1>1, <1>3, <2>1 DEF EntriesMatchStock
  <2>. QED  BY <2>2, <2>3
<1>8. n \notin overlap => PayablesOfNote(n)'
  <2>1. HAVE n \notin overlap
  <2>2. PayablesOfNote(n)
    BY <1>1, <1>2, <2>1, PayablesSplit
  <2>3. b => ~note[n].launched
    BY <1>0, <1>1, <1>2, <2>1 DEF PayableAt
  <2>4. PayablesOf(n)' = PayablesOf(n)
    BY <1>3 DEF PayablesOf
  <2>. QED  BY <1>3, <1>4, <2>2, <2>3, <2>4 DEF PayablesOfNote
<1>9. /\ moved' \subseteq Notes \X Nat /\ IsFiniteSet(moved')
      /\ stock' \in [Products -> ProductRows] /\ title' \in [Titles -> TitleRows]
      /\ settled' \subseteq Settlements /\ IsFiniteSet(settled') /\ sold' \in [Products -> Nat]
      /\ before' \in [Notes -> [Products -> ProductRows]]
      /\ touched' \subseteq Notes \X Products
  BY <1>1, <1>3 DEF Shape
<1>10. \A u \in Tx \ {t} : my[u].locked => note'[my[u].note] = note[my[u].note]
  BY <1>4, <1>5
<1>11. /\ \A T \in Titles : title[T].note \in Notes => title'[T].note = title[T].note
       /\ \A T \in Titles : title[T].note \in Notes \ {n} \/ title'[T].note \in Notes \ {n} =>
                title'[T] = title[T]
       /\ \A s \in Settlements : title[s.title].note \in Notes \ {n} =>
                (s \in settled <=> s \in settled')
       /\ \A u \in Tx \ {t} : \A p \in DOMAIN my[u].work : stock'[p] = stock[p]
  BY <1>3
<1>. HIDE DEF IInv
<1>. QED
  BY <1>0, <1>2, <1>3, <1>4, <1>6, <1>7, <1>8, <1>9, <1>10, <1>11, CommitStep

LEMMA PayKeeps ==
    ASSUME IInv, NEW t \in Tx, Pay(t)
    PROVE  IInv'
<1>0. PICK n, T, amount : /\ n = my[t].note /\ T = my[t].title
                          /\ amount \in {my[t].sum, Worth \div 2}
                          /\ title' = [title EXCEPT ![T].open = my[t].sum - amount]
                          /\ settled' = settled \cup {[title |-> T, by |-> t, amount |-> amount]}
  BY DEF Pay
<1> DEFINE s == [title |-> T, by |-> t, amount |-> amount]
<1>1. /\ Shape /\ RequestAt(t) /\ PayableAt(t) /\ TitlesStored /\ BalancesHeld
      /\ EntriesMatchStock /\ PayablesFollowEntries /\ \A m \in Notes : CostsOf(m)
  BY DEF IInv, RequestOK
<1>2. /\ At(t, "pay") /\ Committing(t) /\ t \in UnderWay /\ n \in Notes /\ End(t)
      /\ pc[t] # "done" /\ T \in Titles /\ title[T].note = n
  BY <1>0, <1>1 DEF Pay, At, Committing, UnderWay, RequestAt, PayableAt
<1>3. /\ note' = note /\ moved' = moved /\ stock' = stock
      /\ sold' = sold /\ before' = before /\ touched' = touched /\ overlap' = overlap
  BY DEF Pay
<1>4. /\ my[t].sum \in Opens /\ my[t].sum > 0 /\ amount \in Opens /\ amount \in Nat
      /\ my[t].sum - amount \in Opens
  <2>1. my[t].sum \in Opens /\ my[t].sum > 0
    BY <1>1, <1>2 DEF Shape, Requests, PayableAt
  <2>. QED  BY <1>0, <2>1, SettlementFacts DEF Opens, Half
<1>5. /\ title' \in [Titles -> TitleRows]
      /\ \A U \in Titles \ {T} : title'[U] = title[U]
      /\ title'[T].note = n /\ title'[T].status = title[T].status
      /\ title'[T].original = title[T].original /\ title'[T].open = my[t].sum - amount
  <2>1. title \in [Titles -> TitleRows]
        /\ title' = [title EXCEPT ![T] = [title[T] EXCEPT !.open = my[t].sum - amount]]
    BY <1>0, <1>1 DEF Shape
  <2>2. title[T] \in TitleRows
    BY <1>2, <2>1
  <2>3. [title[T] EXCEPT !.open = my[t].sum - amount] \in TitleRows
    BY <1>4, <2>2 DEF TitleRows
  <2>4. title' \in [Titles -> TitleRows] /\ \A U \in Titles \ {T} : title'[U] = title[U]
    BY <2>1, <2>3
  <2>5. title'[T] = [title[T] EXCEPT !.open = my[t].sum - amount]
    BY <1>2, <2>1
  <2>. QED  BY <1>2, <2>2, <2>4, <2>5 DEF TitleRows
<1>6. /\ s \in Settlements /\ s \notin settled /\ s.title = T /\ s.by = t /\ s.amount = amount
      /\ settled \subseteq Settlements /\ IsFiniteSet(settled)
  <2>1. s \in Settlements
    BY <1>2, <1>4 DEF Settlements
  <2>2. s \notin settled
    BY <1>1, <1>2 DEF TitlesStored, At
  <2>. QED  BY <1>1, <2>1, <2>2 DEF Shape
<1>7. settled' = settled \cup {s} /\ settled' \subseteq Settlements /\ IsFiniteSet(settled')
  BY <1>0, <1>6, FS_AddElement
<1>. HIDE DEF s
<1>8. TitlesStored'
  <2>1. (\A u \in Tx : At(u, "done") => At(u, "done")') /\ At(t, "done")'
    BY <1>2, <1>3, EndFrame DEF At
  <2>2. (\A U \in Titles : U[1] \in Tx) /\ \A x \in settled : x.by \in Tx /\ x.title \in Titles
    BY <1>1, SettlementFacts DEF Titles, Shape
  <2>3. title[T] # NoTitle
    <3>1. "none" \notin Notes
      BY PurchasesAssumption DEF PurchasesAssumption
    <3>. QED  BY <1>2, <3>1 DEF NoTitle
  <2>4. \A U \in Titles : \/ title'[U] = NoTitle
                          \/ title'[U].note \in Notes /\ title'[U].status # "none"
                             /\ title'[U].original = Worth /\ At(U[1], "done")'
    BY <1>1, <1>2, <1>5, <2>1, <2>2, <2>3 DEF TitlesStored
  <2>5. \A x \in settled' : title'[x.title].note \in Notes /\ At(x.by, "done")'
    BY <1>1, <1>2, <1>5, <1>6, <1>7, <2>1, <2>2 DEF TitlesStored
  <2>. QED  BY <2>4, <2>5 DEF TitlesStored
<1>9. BalancesHeld' /\ EntriesMatchStock' /\ \A m \in Notes : CostsOf(m)'
  BY <1>1, <1>3 DEF BalancesHeld, EntriesMatchStock, CostsOf
<1>10. n \notin overlap => PayablesOfNote(n)'
  <2>1. HAVE n \notin overlap
  <2>2. PayablesOfNote(n) /\ title[T].status = "ABERTO" /\ title[T].open = my[t].sum
    BY <1>0, <1>1, <1>2, <2>1, PayablesSplit DEF PayableAt
  <2>3. PayablesOf(n)' = PayablesOf(n)
    BY <1>2, <1>5 DEF PayablesOf
  <2>4. \A U \in Titles : /\ AmountsOn(U, settled) \in Nat
                          /\ AmountsOn(U, settled)' =
                                AmountsOn(U, settled) + (IF U = T THEN amount ELSE 0)
    <3>1. \A U : /\ AmountsOn(U, settled) \in Nat
                 /\ AmountsOn(U, settled \cup {s})
                      = AmountsOn(U, settled) + (IF s.title = U THEN s.amount ELSE 0)
      BY <1>6, AmountsWith
    <3>. QED  BY <1>6, <1>7, <3>1 DEF AmountsOn
  <2>5. ASSUME NEW U \in Titles, title'[U].note = n
        PROVE  IF title'[U].status = "ABERTO"
               THEN title'[U].open + AmountsOn(U, settled)' = title'[U].original
               ELSE AmountsOn(U, settled)' = 0
    <3>1. title[U].note = n
      BY <1>2, <1>5, <2>5
    <3>2. IF title[U].status = "ABERTO"
          THEN title[U].open + AmountsOn(U, settled) = title[U].original
          ELSE AmountsOn(U, settled) = 0
      BY <2>2, <3>1 DEF PayablesOfNote
    <3>3. CASE U = T
      <4>1. my[t].sum \in Nat
        BY <1>4, SettlementFacts
      <4>2. AmountsOn(T, settled)' = AmountsOn(T, settled) + amount /\ AmountsOn(T, settled) \in Nat
        BY <1>2, <2>4
      <4>3. my[t].sum + AmountsOn(T, settled) = title[T].original
        BY <2>2, <3>2, <3>3
      <4>4. (my[t].sum - amount) + (AmountsOn(T, settled) + amount) = title[T].original
        BY <1>4, <4>1, <4>2, <4>3
      <4>. QED  BY <1>5, <2>2, <3>3, <4>2, <4>4
    <3>4. CASE U # T
      <4>1. AmountsOn(U, settled)' = AmountsOn(U, settled)
        BY <2>4, <3>4
      <4>. QED  BY <1>5, <3>2, <3>4, <4>1
    <3>. QED  BY <3>3, <3>4
  <2>. QED  BY <1>3, <2>2, <2>3, <2>5 DEF PayablesOfNote
<1>11. /\ note' \in [Notes -> [launched : BOOLEAN, dispensed : BOOLEAN]]
       /\ moved' \subseteq Notes \X Nat /\ IsFiniteSet(moved')
       /\ stock' \in [Products -> ProductRows] /\ sold' \in [Products -> Nat]
       /\ before' \in [Notes -> [Products -> ProductRows]]
       /\ touched' \subseteq Notes \X Products
  BY <1>1, <1>3 DEF Shape
<1>12. /\ \A U \in Titles : title[U].note \in Notes => title'[U].note = title[U].note
       /\ \A U \in Titles : title[U].note \in Notes \ {n} \/ title'[U].note \in Notes \ {n} =>
                title'[U] = title[U]
       /\ \A x \in Settlements : title[x.title].note \in Notes \ {n} =>
                (x \in settled <=> x \in settled')
  BY <1>2, <1>5, <1>6, <1>7
<1>13. /\ \A u \in Tx \ {t} : \A p \in DOMAIN my[u].work : stock'[p] = stock[p]
       /\ \A u \in Tx \ {t} : my[u].locked => note'[my[u].note] = note[my[u].note]
       /\ \A m \in Notes \ {n} : note'[m] = note[m]
  BY <1>3
<1>. HIDE DEF IInv
<1>. QED
  BY <1>0, <1>2, <1>3, <1>5, <1>7, <1>8, <1>9, <1>10, <1>11, <1>12, <1>13, CommitStep

\* The titles that a request inserts, and the settlement of a paid freight.
Inserted(t) ==
    LET n == my[t].note
        paid == my[t].freight = "paid"
    IN  /\ title' = [T \in Titles |->
                CASE T = << t, "COMPRA" >> -> NewTitle(n, Worth)
                  [] T = << t, "FRETE" >> /\ my[t].freight # "none" ->
                        [NewTitle(n, Worth) EXCEPT !.open = IF paid THEN 0 ELSE Worth]
                  [] OTHER -> title[T]]
        /\ settled' = IF paid THEN settled \cup {[title |-> << t, "FRETE" >>, by |-> t,
                                                  amount |-> Worth]}
                      ELSE settled

LEMMA InsertedTitles ==
    ASSUME IInv, NEW t \in Tx, At(t, "insert"), Inserted(t), NEW n \in Notes, n = my[t].note
    PROVE  /\ title' \in [Titles -> TitleRows]
           /\ settled' \subseteq Settlements /\ IsFiniteSet(settled')
           /\ \A T \in Titles : T[1] = t => title[T].note \notin Notes
           /\ \A T \in Titles : T[1] # t =>
                /\ title'[T] = title[T] /\ AmountsOn(T, settled') = AmountsOn(T, settled)
                /\ \A s \in Settlements : s.title = T => (s \in settled <=> s \in settled')
           /\ \A T \in Titles : T[1] = t =>
                \/ title'[T] = NoTitle /\ T # << t, "COMPRA" >>
                \/ /\ title'[T].note = n /\ title'[T].status = "ABERTO"
                   /\ title'[T].original = Worth
                   /\ title'[T].open + AmountsOn(T, settled') = Worth
           /\ \A s \in settled' \ settled :
                s.by = t /\ s.title[1] = t /\ title'[s.title].note = n
<1>1. Shape /\ TitlesStored /\ "none" \notin Notes
  BY PurchasesAssumption DEF IInv, PurchasesAssumption
<1>2. PICK C, F, s, paid, some, W :
        /\ C = << t, "COMPRA" >> /\ F = << t, "FRETE" >> /\ paid = (my[t].freight = "paid")
        /\ some = (my[t].freight # "none")
        /\ s = [title |-> F, by |-> t, amount |-> Worth]
        /\ W = [NewTitle(n, Worth) EXCEPT !.open = IF paid THEN 0 ELSE Worth]
  OBVIOUS
<1>3. C \in Titles /\ F \in Titles /\ C # F /\ \A T \in Titles : T[1] = t => T = C \/ T = F
  BY <1>2 DEF Titles
<1>4. C[1] = t /\ F[1] = t /\ (paid => some)
  BY <1>2
<1>5. \A T \in Titles : T[1] = t => title[T] = NoTitle
  BY <1>1 DEF TitlesStored, At
<1>6. \A x \in settled : x.title \in Titles /\ x.title[1] # t
  BY <1>1, <1>5, SettlementFacts DEF TitlesStored, Shape, NoTitle
<1>7. \A T \in Titles :
        title'[T] = CASE T = C -> NewTitle(n, Worth)
                      [] T = F /\ some -> W
                      [] OTHER -> title[T]
  BY <1>2 DEF Inserted
<1>8. /\ title'[C] = NewTitle(n, Worth)
      /\ \A T \in Titles : T[1] # t => title'[T] = title[T]
      /\ ~some => title'[F] = NoTitle
      /\ some => title'[F] = W
  BY <1>3, <1>4, <1>5, <1>7
<1>9. 0 \in Opens /\ Worth \in Opens /\ Worth \in Nat
  BY SettlementFacts DEF Opens
<1>10. /\ NewTitle(n, Worth) \in TitleRows
       /\ W \in TitleRows
       /\ NewTitle(n, Worth).note = n /\ NewTitle(n, Worth).status = "ABERTO"
       /\ NewTitle(n, Worth).open = Worth /\ NewTitle(n, Worth).original = Worth
  BY <1>2, <1>9 DEF NewTitle, TitleRows
<1>11. W.note = n /\ W.status = "ABERTO" /\ W.original = Worth /\ W.open = IF paid THEN 0 ELSE Worth
  BY <1>2 DEF NewTitle
<1>12. title' \in [Titles -> TitleRows]
  <2>1. title' = [T \in Titles |-> title'[T]]
    BY DEF Inserted
  <2>2. \A T \in Titles : title'[T] \in TitleRows
    <3>1. TAKE T \in Titles
    <3>2. CASE T[1] # t
      BY <1>1, <1>8, <3>2 DEF Shape
    <3>3. CASE T[1] = t
      <4>1. title[F] \in TitleRows /\ title[F] = NoTitle
        BY <1>1, <1>3, <1>4, <1>5 DEF Shape
      <4>2. T = C \/ T = F
        BY <1>3, <3>3
      <4>3. title'[C] \in TitleRows
        BY <1>8, <1>10
      <4>4. title'[F] \in TitleRows
        BY <1>8, <1>10, <4>1
      <4>. QED  BY <4>2, <4>3, <4>4
    <3>. QED  BY <3>2, <3>3
  <2>. QED  BY <2>1, <2>2
<1>13. /\ s \in Settlements /\ s.title = F /\ s.by = t /\ s.amount = Worth /\ s \notin settled
       /\ settled \subseteq Settlements /\ IsFiniteSet(settled)
  <2>1. s \in Settlements /\ s.title = F /\ s.by = t /\ s.amount = Worth
    BY <1>2, <1>3, <1>9 DEF Settlements
  <2>2. s \notin settled
    BY <1>4, <1>6, <2>1
  <2>. QED  BY <1>1, <2>1, <2>2 DEF Shape
<1>14. settled' = IF paid THEN settled \cup {s} ELSE settled
  BY <1>2 DEF Inserted
<1>15. settled' \subseteq Settlements /\ IsFiniteSet(settled')
  BY <1>13, <1>14, FS_AddElement
<1>16. ASSUME NEW T \in Titles, T[1] # t
       PROVE  /\ \A x \in Settlements : x.title = T => (x \in settled <=> x \in settled')
              /\ AmountsOn(T, settled') = AmountsOn(T, settled)
  <2>1. \A x \in Settlements : x.title = T => (x \in settled <=> x \in settled')
    BY <1>4, <1>13, <1>14, <1>16
  <2>2. {x \in settled : x.title = T} = {x \in settled' : x.title = T}
    BY <1>13, <1>15, <2>1
  <2>3. AmountsOn(T, settled) = AmountsOn(T, settled')
    BY <1>13, <1>15, <2>2, AmountsOfSame
  <2>. QED  BY <2>1, <2>3
<1>17. AmountsOn(C, settled) = 0 /\ AmountsOn(F, settled) = 0
  <2>1. (\A x \in settled : x.title # C) /\ \A x \in settled : x.title # F
    BY <1>4, <1>6
  <2>. QED  BY <2>1, AmountsOfNone
<1>18. AmountsOn(C, settled') = 0 /\ AmountsOn(F, settled') = IF paid THEN Worth ELSE 0
  <2>1. CASE paid
    <3>1. \A T : AmountsOn(T, settled \cup {s})
                    = AmountsOn(T, settled) + (IF s.title = T THEN s.amount ELSE 0)
      BY <1>13, AmountsWith
    <3>2. AmountsOn(C, settled \cup {s}) = 0 /\ AmountsOn(F, settled \cup {s}) = Worth
      BY <1>3, <1>9, <1>13, <1>17, <3>1
    <3>. QED  BY <1>14, <2>1, <3>2
  <2>2. CASE ~paid
    BY <1>14, <1>17, <2>2
  <2>. QED  BY <2>1, <2>2
<1>19. /\ title'[C].note = n /\ title'[C].status = "ABERTO" /\ title'[C].original = Worth
       /\ title'[C].open + AmountsOn(C, settled') = Worth
  BY <1>8, <1>9, <1>10, <1>18
<1>20. some => /\ title'[F].note = n /\ title'[F].status = "ABERTO" /\ title'[F].original = Worth
               /\ title'[F].open + AmountsOn(F, settled') = Worth
  BY <1>8, <1>9, <1>11, <1>18
<1>21. \A T \in Titles : T[1] = t =>
                \/ title'[T] = NoTitle /\ T # << t, "COMPRA" >>
                \/ /\ title'[T].note = n /\ title'[T].status = "ABERTO"
                   /\ title'[T].original = Worth
                   /\ title'[T].open + AmountsOn(T, settled') = Worth
  BY <1>2, <1>3, <1>8, <1>19, <1>20
<1>22. \A x \in settled' \ settled : x.by = t /\ x.title[1] = t /\ title'[x.title].note = n
  <2>1. settled' \subseteq settled \cup {s} /\ (s \in settled' => some)
    BY <1>4, <1>13, <1>14
  <2>2. some => s.by = t /\ s.title[1] = t /\ title'[s.title].note = n
    BY <1>4, <1>13, <1>20
  <2>3. ASSUME NEW x \in settled' \ settled
        PROVE  x.by = t /\ x.title[1] = t /\ title'[x.title].note = n
    <3>1. x = s
      BY <2>1, <2>3
    <3>2. s \in settled'
      BY <2>3, <3>1
    <3>3. some
      BY <2>1, <3>2
    <3>4. s.by = t /\ s.title[1] = t /\ title'[s.title].note = n
      BY <2>2, <3>3
    <3>. QED  BY <3>1, <3>4
  <2>. QED  BY <2>3
<1>23. \A T \in Titles : T[1] = t => title[T].note \notin Notes
  BY <1>1, <1>5 DEF NoTitle
<1>. QED  BY <1>8, <1>12, <1>15, <1>16, <1>21, <1>22, <1>23

LEMMA InsertPayableKeeps ==
    ASSUME IInv, NEW t \in Tx, InsertPayable(t)
    PROVE  IInv'
<1>0. PICK n : n = my[t].note
  OBVIOUS
<1>1. /\ Shape /\ RequestAt(t) /\ EntryAt(t) /\ PayableAt(t) /\ TitlesStored /\ BalancesHeld
      /\ EntriesMatchStock /\ PayablesFollowEntries /\ \A m \in Notes : CostsOf(m)
  BY DEF IInv, RequestOK
<1>2. /\ At(t, "insert") /\ Committing(t) /\ t \in UnderWay /\ n \in Notes /\ End(t)
      /\ pc[t] # "done" /\ my[t].kind \in {"lancar", "payable"}
      /\ sold' = sold /\ overlap' = overlap
  BY <1>0, <1>1 DEF InsertPayable, At, Committing, UnderWay, RequestAt
<1>3. Inserted(t)
  BY DEF InsertPayable, Inserted
<1>4. /\ title' \in [Titles -> TitleRows]
      /\ settled' \subseteq Settlements /\ IsFiniteSet(settled')
      /\ \A T \in Titles : T[1] = t => title[T].note \notin Notes
      /\ \A T \in Titles : T[1] # t =>
            /\ title'[T] = title[T] /\ AmountsOn(T, settled') = AmountsOn(T, settled)
            /\ \A s \in Settlements : s.title = T => (s \in settled <=> s \in settled')
      /\ \A T \in Titles : T[1] = t =>
            \/ title'[T] = NoTitle /\ T # << t, "COMPRA" >>
            \/ /\ title'[T].note = n /\ title'[T].status = "ABERTO"
               /\ title'[T].original = Worth
               /\ title'[T].open + AmountsOn(T, settled') = Worth
      /\ \A s \in settled' \ settled :
            s.by = t /\ s.title[1] = t /\ title'[s.title].note = n
  <2>. HIDE DEF IInv
  <2>. QED  BY <1>0, <1>2, <1>3, InsertedTitles
<1>5. NoTitle.note \notin Notes
  BY PurchasesAssumption DEF PurchasesAssumption, NoTitle
\* The stock, the movements and the header of the note.
<1>6. /\ note' \in [Notes -> [launched : BOOLEAN, dispensed : BOOLEAN]]
      /\ moved' \subseteq Notes \X Nat /\ IsFiniteSet(moved')
      /\ stock' \in [Products -> ProductRows]
      /\ before' \in [Notes -> [Products -> ProductRows]]
      /\ touched' \subseteq Notes \X Products
      /\ BalancesHeld' /\ EntriesMatchStock' /\ (\A m \in Notes : CostsOf(m)')
      /\ \A m \in Notes \ {n} : note'[m] = note[m]
      /\ \A u \in Tx \ {t} : \A p \in DOMAIN my[u].work : stock'[p] = stock[p]
      /\ \A u \in Tx \ {t} : my[u].locked => note'[my[u].note] = note[my[u].note]
      /\ n \notin overlap => ~(note'[n].launched /\ note'[n].dispensed)
  <2>1. \A u \in Tx \ {t} : my[u].locked => my[u].note \in Notes
    BY <1>1 DEF IInv, RequestOK, RequestAt, UnderWay, Idle
  <2>2. CASE my[t].kind = "payable"
    <3>1. UNCHANGED << note, moved, stock, before, touched >>
      BY <2>2 DEF InsertPayable
    <3>2. n \notin overlap => ~(note[n].launched /\ note[n].dispensed)
      BY <1>1, <1>2 DEF PayablesFollowEntries
    <3>. QED  BY <1>1, <1>2, <3>1, <3>2 DEF Shape, BalancesHeld, EntriesMatchStock, CostsOf
  <2>3. CASE my[t].kind = "lancar"
    <3>1. Launched(t)
      BY <1>2, <2>3 DEF InsertPayable, Launched
    <3>2. /\ note' \in [Notes -> [launched : BOOLEAN, dispensed : BOOLEAN]]
          /\ \A m \in Notes \ {n} : note'[m] = note[m]
          /\ note'[n].launched /\ ~note'[n].dispensed
          /\ moved' \subseteq Notes \X Nat /\ IsFiniteSet(moved')
          /\ stock' \in [Products -> ProductRows]
          /\ before' \in [Notes -> [Products -> ProductRows]]
          /\ touched' \subseteq Notes \X Products
          /\ BalancesHeld' /\ EntriesMatchStock' /\ (\A m \in Notes : CostsOf(m)')
          /\ \A u \in Tx \ {t} : \A p \in DOMAIN my[u].work : stock'[p] = stock[p]
          /\ \A u \in Tx \ {t} : my[u].locked => my[u].note # n
      <4>. HIDE DEF IInv
      <4>. QED  BY <1>0, <1>2, <2>3, <3>1, LaunchedKeeps
    <3>. QED  BY <2>1, <3>2
  <2>. QED  BY <1>2, <2>2, <2>3
<1>7. \A T \in Titles : title[T].note \in Notes => T[1] # t /\ title'[T] = title[T]
  BY <1>4
<1>8. \A T \in Titles : title[T].note \in Notes \ {n} \/ title'[T].note \in Notes \ {n} =>
            T[1] # t /\ title'[T] = title[T]
  BY <1>4, <1>5, <1>7
<1>9. \A s \in Settlements : title[s.title].note \in Notes \ {n} =>
            (s \in settled <=> s \in settled')
  BY <1>4, <1>7, SettlementFacts
<1>10. TitlesStored'
  <2>1. (\A u \in Tx : At(u, "done") => At(u, "done")') /\ At(t, "done")'
    BY <1>2, EndFrame DEF At
  <2>2. (\A T \in Titles : T[1] \in Tx) /\ \A s \in settled : s.by \in Tx /\ s.title \in Titles
    BY <1>1, SettlementFacts DEF Titles, Shape
  <2>3. \A T \in Titles : \/ title'[T] = NoTitle
                          \/ title'[T].note \in Notes /\ title'[T].status # "none"
                             /\ title'[T].original = Worth /\ At(T[1], "done")'
    <3>1. TAKE T \in Titles
    <3>2. CASE T[1] = t
      BY <1>2, <1>4, <2>1, <3>2
    <3>3. CASE T[1] # t
      BY <1>1, <1>4, <2>1, <2>2, <3>3 DEF TitlesStored
    <3>. QED  BY <3>2, <3>3
  <2>4. \A s \in settled' : title'[s.title].note \in Notes /\ At(s.by, "done")'
    <3>1. TAKE s \in settled'
    <3>2. CASE s \in settled
      BY <1>1, <1>7, <2>1, <2>2, <3>2 DEF TitlesStored
    <3>3. CASE s \notin settled
      BY <1>2, <1>4, <2>1, <3>3
    <3>. QED  BY <3>2, <3>3
  <2>. QED  BY <2>3, <2>4 DEF TitlesStored
<1>11. n \notin overlap => PayablesOfNote(n)'
  <2>1. HAVE n \notin overlap
  <2>2. PayablesOfNote(n) /\ PayablesOf(n) = {}
    BY <1>0, <1>1, <1>2, <2>1, PayablesSplit DEF PayableAt
  <2>3. << t, "COMPRA" >> \in Titles /\ << t, "COMPRA" >>[1] = t /\ << t, "COMPRA" >>[2] = "COMPRA"
    BY DEF Titles
  <2>4. {T \in PayablesOf(n)' : T[2] = "COMPRA"} = {<< t, "COMPRA" >>}
    <3>1. << t, "COMPRA" >> \in PayablesOf(n)'
      BY <1>4, <2>3 DEF PayablesOf
    <3>2. ASSUME NEW T \in Titles, title'[T].note = n, title'[T].status = "ABERTO", T[2] = "COMPRA"
          PROVE  T = << t, "COMPRA" >>
      <4>1. T[1] = t
        BY <1>4, <2>2, <3>2 DEF PayablesOf
      <4>. QED  BY <3>2, <4>1 DEF Titles
    <3>. QED  BY <2>3, <3>1, <3>2 DEF PayablesOf
  <2>5. Cardinality({T \in PayablesOf(n)' : T[2] = "COMPRA"}) = 1
    BY <2>4, FS_Singleton
  <2>6. ASSUME NEW T \in Titles, title'[T].note = n
        PROVE  IF title'[T].status = "ABERTO"
               THEN title'[T].open + AmountsOn(T, settled') = title'[T].original
               ELSE AmountsOn(T, settled') = 0
    <3>1. CASE T[1] = t
      BY <1>2, <1>4, <1>5, <2>6, <3>1
    <3>2. CASE T[1] # t
      BY <1>4, <2>2, <2>6, <3>2 DEF PayablesOfNote
    <3>. QED  BY <3>1, <3>2
  <2>7. \A T : AmountsOn(T, settled)' = AmountsOn(T, settled')
    BY DEF AmountsOn
  <2>8. Cardinality({T \in PayablesOf(n)' : T[2] = "COMPRA"}) <= 1
        /\ {T \in PayablesOf(n)' : T[2] = "COMPRA"} # {}
    <3>1. PICK S : S = {T \in PayablesOf(n)' : T[2] = "COMPRA"}
      OBVIOUS
    <3>2. S = {<< t, "COMPRA" >>} /\ Cardinality(S) = 1
      BY <2>4, <2>5, <3>1
    <3>3. S # {} /\ Cardinality(S) <= 1
      BY <3>2
    <3>. QED  BY <3>1, <3>3
  <2>. QED  BY <1>6, <2>1, <2>6, <2>7, <2>8 DEF PayablesOfNote
<1>12. sold' \in [Products -> Nat]
  BY <1>1, <1>2 DEF Shape
<1>13. /\ \A T \in Titles : title[T].note \in Notes => title'[T].note = title[T].note
       /\ \A T \in Titles : title[T].note \in Notes \ {n} \/ title'[T].note \in Notes \ {n} =>
                title'[T] = title[T]
  BY <1>7, <1>8
<1>. HIDE DEF IInv
<1>. QED
  BY <1>0, <1>2, <1>4, <1>6, <1>9, <1>10, <1>11, <1>12, <1>13, CommitStep

LEMMA DeleteEntryKeeps ==
    ASSUME IInv, NEW t \in Tx, DeleteEntry(t)
    PROVE  IInv'
<1>0. PICK n, V, P : n = my[t].note /\ V = my[t].voids /\ P = my[t].payments
  OBVIOUS
<1>1. /\ Shape /\ RequestAt(t) /\ EntryAt(t) /\ PayableAt(t) /\ TitlesStored
      /\ PayablesFollowEntries
  BY DEF IInv, RequestOK
<1>2. /\ At(t, "delete") /\ Committing(t) /\ t \in UnderWay /\ n \in Notes /\ End(t)
      /\ pc[t] # "done" /\ sold' = sold /\ before' = before /\ overlap' = overlap
  BY <1>0, <1>1 DEF DeleteEntry, At, Committing, UnderWay, RequestAt
<1>3. /\ V \subseteq Titles /\ \A T \in V : title[T].note = n
      /\ \A s \in P : title[s.title].note = n
  BY <1>0, <1>1, <1>2 DEF PayableAt, Shape, Requests
<1>4. /\ title' = [T \in Titles |->
            IF T \in V THEN [title[T] EXCEPT !.status = "CANCELADO", !.open = 0] ELSE title[T]]
      /\ settled' = settled \ P
  BY <1>0 DEF DeleteEntry
<1>5. /\ title' \in [Titles -> TitleRows]
      /\ \A T \in Titles \ V : title'[T] = title[T]
      /\ \A T \in V : /\ title'[T].note = n /\ title'[T].status = "CANCELADO"
                      /\ title'[T].original = title[T].original
  <2>1. \A T \in Titles : title[T] \in TitleRows
    BY <1>1 DEF Shape
  <2>2. 0 \in Opens
    BY DEF Opens
  <2>3. ASSUME NEW T \in Titles
        PROVE  LET W == [title[T] EXCEPT !.status = "CANCELADO", !.open = 0]
               IN  /\ W \in TitleRows /\ W.note = title[T].note /\ W.status = "CANCELADO"
                   /\ W.original = title[T].original
    BY <2>1, <2>2 DEF TitleRows
  <2>4. \A T \in Titles : title'[T] \in TitleRows
    BY <1>4, <2>1, <2>3
  <2>5. title' \in [Titles -> TitleRows]
    BY <1>4, <2>1, <2>3
  <2>. QED  BY <1>3, <1>4, <2>3, <2>5
<1>6. settled' \subseteq Settlements /\ IsFiniteSet(settled')
      /\ settled \subseteq Settlements /\ IsFiniteSet(settled)
  BY <1>1, <1>4, FS_Subset DEF Shape
\* The stock, the movements and the header of the note.
<1>7. Deleted(t)
  BY <1>2 DEF DeleteEntry, Deleted
<1>8. /\ note' \in [Notes -> [launched : BOOLEAN, dispensed : BOOLEAN]]
      /\ \A m \in Notes \ {n} : note'[m] = note[m]
      /\ ~note'[n].launched
      /\ moved' \subseteq Notes \X Nat /\ IsFiniteSet(moved')
      /\ stock' \in [Products -> ProductRows]
      /\ touched' \subseteq Notes \X Products
      /\ BalancesHeld' /\ EntriesMatchStock' /\ (\A m \in Notes : CostsOf(m)')
      /\ \A u \in Tx \ {t} : \A p \in DOMAIN my[u].work : stock'[p] = stock[p]
      /\ \A u \in Tx \ {t} : my[u].locked => my[u].note # n
  <2>. HIDE DEF IInv
  <2>. QED  BY <1>0, <1>2, <1>7, DeletedKeeps
<1>9. \A u \in Tx \ {t} : my[u].locked => note'[my[u].note] = note[my[u].note]
  <2>1. \A u \in Tx \ {t} : my[u].locked => my[u].note \in Notes
    BY DEF IInv, RequestOK, RequestAt, UnderWay, Idle
  <2>. QED  BY <1>8, <2>1
<1>10. /\ \A T \in Titles : title[T].note \in Notes => title'[T].note = title[T].note
       /\ \A T \in Titles : title[T].note \in Notes \ {n} \/ title'[T].note \in Notes \ {n} =>
                title'[T] = title[T]
       /\ \A s \in Settlements : title[s.title].note \in Notes \ {n} =>
                (s \in settled <=> s \in settled')
  BY <1>3, <1>4, <1>5
<1>11. TitlesStored'
  <2>1. \A u \in Tx : At(u, "done") => At(u, "done")'
    BY <1>2, EndFrame
  <2>2. (\A T \in Titles : T[1] \in Tx) /\ \A s \in settled : s.by \in Tx /\ s.title \in Titles
    BY <1>1, SettlementFacts DEF Titles, Shape
  <2>3. NoTitle.note \notin Notes
    BY PurchasesAssumption DEF PurchasesAssumption, NoTitle
  <2>4. \A T \in Titles : \/ title'[T] = NoTitle
                          \/ title'[T].note \in Notes /\ title'[T].status # "none"
                             /\ title'[T].original = Worth /\ At(T[1], "done")'
    <3>1. TAKE T \in Titles
    <3>2. CASE T \in V
      <4>1. title[T] # NoTitle
        BY <1>2, <1>3, <2>3, <3>2
      <4>2. title[T].original = Worth /\ At(T[1], "done")'
        BY <1>1, <2>1, <2>2, <4>1 DEF TitlesStored
      <4>. QED  BY <1>2, <1>5, <3>2, <4>2
    <3>3. CASE T \notin V
      BY <1>1, <1>5, <2>1, <2>2, <3>3 DEF TitlesStored
    <3>. QED  BY <3>2, <3>3
  <2>5. \A s \in settled' : title'[s.title].note \in Notes /\ At(s.by, "done")'
    BY <1>1, <1>4, <1>10, <2>1, <2>2 DEF TitlesStored
  <2>. QED  BY <2>4, <2>5 DEF TitlesStored
<1>12. n \notin overlap => PayablesOfNote(n)'
  <2>1. HAVE n \notin overlap
  <2>2. PayablesOfNote(n) /\ V = PayablesOf(n) /\ P = BaixasOf(V)
    BY <1>0, <1>1, <1>2, <2>1, PayablesSplit DEF PayableAt
  <2>3. PayablesOf(n)' = {}
    BY <1>5, <2>2 DEF PayablesOf
  <2>4. {T \in PayablesOf(n)' : T[2] = "COMPRA"} = {}
    BY <2>3
  <2>5. Cardinality({T \in PayablesOf(n)' : T[2] = "COMPRA"}) <= 1
    BY <2>4, FS_EmptySet
  <2>6. ASSUME NEW T \in Titles, title'[T].note = n
        PROVE  title'[T].status # "ABERTO" /\ AmountsOn(T, settled') = 0
    <3>1. T \notin PayablesOf(n)'
      BY <2>3
    <3>2. title'[T].status # "ABERTO"
      BY <2>6, <3>1 DEF PayablesOf
    <3>3. CASE T \in V
      <4>1. \A s \in settled' : s.title # T
        BY <1>4, <2>2, <3>3 DEF BaixasOf
      <4>. QED  BY <3>2, <4>1, AmountsOfNone
    <3>4. CASE T \notin V
      <4>1. title'[T] = title[T]
        BY <1>5, <3>4
      <4>2. AmountsOn(T, settled) = 0
        BY <2>2, <2>6, <3>2, <4>1 DEF PayablesOfNote
      <4>3. {s \in settled : s.title = T} = {s \in settled' : s.title = T}
        BY <1>4, <2>2, <3>4 DEF BaixasOf
      <4>4. AmountsOn(T, settled) = AmountsOn(T, settled')
        BY <1>6, <4>3, AmountsOfSame
      <4>. QED  BY <3>2, <4>2, <4>4
    <3>. QED  BY <3>3, <3>4
  <2>7. \A T : AmountsOn(T, settled)' = AmountsOn(T, settled')
    BY DEF AmountsOn
  <2>. QED  BY <1>8, <2>5, <2>6, <2>7 DEF PayablesOfNote
<1>13. sold' \in [Products -> Nat] /\ before' \in [Notes -> [Products -> ProductRows]]
  BY <1>1, <1>2 DEF Shape
<1>. HIDE DEF IInv
<1>. QED
  BY <1>0, <1>2, <1>5, <1>6, <1>8, <1>9, <1>10, <1>11, <1>12, <1>13, CommitStep

LEMMA ExitKeeps ==
    ASSUME IInv, NEW t \in Tx, Exit(t)
    PROVE  IInv'
<1>1. /\ Shape /\ TitlesStored /\ BalancesHeld /\ EntriesMatchStock /\ PayablesFollowEntries
      /\ \A m \in Notes : CostsOf(m)
  BY DEF IInv
<1>2. PICK p \in Products :
        /\ ProductFree(t, p) /\ stock[p].balance > 0
        /\ stock' = [stock EXCEPT ![p].balance = @ - 1]
        /\ sold' = [sold EXCEPT ![p] = @ + 1]
        /\ touched' = touched \cup (Notes \X {p})
  BY DEF Exit
<1>3. /\ pc[t] # "done" /\ End(t) /\ overlap' = overlap
      /\ note' = note /\ moved' = moved /\ title' = title /\ settled' = settled /\ before' = before
  BY DEF Exit, At
<1>4. /\ pc' \in [Tx -> Labels] /\ my' \in [Tx -> Requests] /\ RequestOK(t)'
      /\ \A u \in Tx \ {t} : pc'[u] = pc[u] /\ my'[u] = my[u]
      /\ \A u \in Tx : At(u, "done") => At(u, "done")'
      /\ HeadersHeld' /\ ProductsHeld' /\ Alone'
  BY <1>3, EndFrame
<1>5. /\ stock' \in [Products -> ProductRows] /\ stock[p].balance \in Int
      /\ \A q \in Products \ {p} : stock'[q] = stock[q]
      /\ stock'[p].balance = stock[p].balance - 1
  <2>1. /\ stock \in [Products -> ProductRows] /\ stock[p] \in ProductRows
        /\ stock' = [stock EXCEPT ![p] = [stock[p] EXCEPT !.balance = stock[p].balance - 1]]
    BY <1>1, <1>2 DEF Shape
  <2>2. stock[p].balance \in Int /\ [stock[p] EXCEPT !.balance = stock[p].balance - 1] \in ProductRows
    BY <2>1 DEF ProductRows
  <2>3. stock' \in [Products -> ProductRows] /\ \A q \in Products \ {p} : stock'[q] = stock[q]
    BY <2>1, <2>2
  <2>4. stock'[p] = [stock[p] EXCEPT !.balance = stock[p].balance - 1]
    BY <2>1
  <2>5. stock'[p].balance = stock[p].balance - 1
    BY <2>1, <2>4 DEF ProductRows
  <2>. QED  BY <2>2, <2>3, <2>5
<1>6. /\ sold' \in [Products -> Nat] /\ sold'[p] = sold[p] + 1
      /\ \A q \in Products \ {p} : sold'[q] = sold[q]
  BY <1>1, <1>2 DEF Shape
<1>7. Shape'
  BY <1>1, <1>2, <1>3, <1>4, <1>5, <1>6 DEF Shape
<1>8. ASSUME NEW u \in Tx PROVE RequestOK(u)'
  <2>1. CASE u = t
    BY <1>4, <2>1
  <2>2. CASE u # t
    <3>1. RequestAt(u) /\ EntryAt(u) /\ CostAt(u) /\ PayableAt(u) /\ pc'[u] = pc[u] /\ my'[u] = my[u]
      BY <1>4, <2>2 DEF IInv, RequestOK
    <3>2. \A q \in DOMAIN my[u].work : stock'[q] = stock[q]
      <4>1. DOMAIN my[u].work \subseteq Products
        BY <1>1, <1>2, RowIsTyped
      <4>2. p \notin DOMAIN my[u].work
        BY <1>2, <2>2, <3>1, NoWork DEF ProductFree, RequestAt, Idle
      <4>. QED  BY <1>5, <4>1, <4>2
    <3>3. RequestAt(u)' /\ EntryAt(u)' /\ CostAt(u)'
      BY <1>3, <3>1, <3>2, OtherRequest
    <3>4. /\ \A n : PayablesOf(n)' = PayablesOf(n)
          /\ \A K : BaixasOf(K)' = BaixasOf(K)
      BY <1>3 DEF PayablesOf, BaixasOf
    <3>5. PayableAt(u)'
      BY <1>3, <3>1, <3>4 DEF PayableAt, At
    <3>. QED  BY <3>3, <3>5 DEF RequestOK
  <2>. QED  BY <2>1, <2>2
<1>9. TitlesStored'
  <2>1. (\A T \in Titles : T[1] \in Tx) /\ \A s \in settled : s.by \in Tx
    BY <1>1, SettlementFacts DEF Titles, Shape
  <2>. QED  BY <1>1, <1>3, <1>4, <2>1 DEF TitlesStored
<1>10. BalancesHeld'
  BY <1>1, <1>2, <1>3, <1>5 DEF BalancesHeld
<1>11. EntriesMatchStock'
  <2>1. ASSUME NEW q \in Products
        PROVE  stock'[q].balance + sold'[q] = StartStock + Brought(q, moved)
    <3>1. stock[q].balance + sold[q] = StartStock + Brought(q, moved)
      BY <1>1, StockEquation
    <3>2. sold[p] \in Nat
      BY <1>1 DEF Shape
    <3>. QED  BY <1>5, <1>6, <3>1, <3>2
  <2>2. \A n \in Notes :
            {x \in moved' : x[1] = n} = IF note'[n].launched THEN ItemsOf(n) ELSE {}
    BY <1>1, <1>3, StockEquation
  <2>. QED  BY <1>3, <2>1, <2>2, StockEquation
<1>12. ASSUME NEW n \in Notes PROVE CostsOf(n)'
  <2>1. ASSUME NEW k \in DOMAIN Lines[n], << n, Lines[n][k].product >> \notin touched'
        PROVE  << n, Lines[n][k].product >> \notin touched
               /\ stock'[Lines[n][k].product] = stock[Lines[n][k].product]
    <3>1. Lines[n][k].product \in Products
      BY ItemTypes DEF ItemRows
    <3>2. Lines[n][k].product # p
      BY <1>2, <2>1
    <3>. QED  BY <1>2, <1>5, <2>1, <3>1, <3>2
  <2>. QED  BY <1>1, <1>3, <2>1 DEF CostsOf
<1>13. PayablesFollowEntries'
  BY <1>1, <1>3 DEF PayablesFollowEntries, PayablesOf
<1>. QED  BY <1>4, <1>7, <1>8, <1>9, <1>10, <1>11, <1>12, <1>13 DEF IInv

-----------------------------------------------------------------------------
(***************************************************************************)
(* The invariant and the theorems.                                          *)
(***************************************************************************)
LEMMA InitialState == Init => IInv
<1>. SUFFICES ASSUME Init PROVE IInv
  OBVIOUS
<1>1. /\ StartStock \in Nat /\ StartCost \in Nat \ {0} /\ "none" \notin Notes
  BY PurchasesAssumption DEF PurchasesAssumption
<1> DEFINE row == [balance |-> StartStock, cost |-> << StartCost, 1 >>, previous |-> Null,
                   average |-> << StartCost, 1 >>]
<1>2. row \in ProductRows /\ row.balance = StartStock
  BY <1>1 DEF ProductRows, Fractions
<1>3. /\ note = [n \in Notes |-> [launched |-> FALSE, dispensed |-> FALSE]]
      /\ moved = {} /\ stock = [p \in Products |-> row]
      /\ title = [T \in Titles |-> NoTitle] /\ settled = {}
      /\ pc = [t \in Tx |-> "new"] /\ my = [t \in Tx |-> Idle]
      /\ sold = [p \in Products |-> 0]
      /\ before = [n \in Notes |-> [p \in Products |-> stock[p]]]
      /\ touched = {} /\ overlap = {}
  BY DEF Init
<1>. HIDE DEF row
<1>4. NoTitle \in TitleRows /\ NoTitle.note = "none"
  BY DEF NoTitle, TitleRows, Opens
<1>5. IsFiniteSet({}) /\ Cardinality({}) = 0
  BY FS_EmptySet
<1>6. Shape
  <2>1. /\ note \in [Notes -> [launched : BOOLEAN, dispensed : BOOLEAN]]
        /\ stock \in [Products -> ProductRows] /\ title \in [Titles -> TitleRows]
        /\ sold \in [Products -> Nat]
    BY <1>2, <1>3, <1>4
  <2>2. pc \in [Tx -> Labels] /\ my \in [Tx -> Requests]
    BY <1>3, IdleIsTyped DEF Labels
  <2>3. before \in [Notes -> [Products -> ProductRows]]
    BY <1>3, <2>1
  <2>. QED  BY <1>3, <1>5, <2>1, <2>2, <2>3 DEF Shape
<1>7. ASSUME NEW t \in Tx PROVE RequestOK(t) /\ ~my[t].locked /\ DOMAIN my[t].work = {} /\ t \notin UnderWay
  <2>1. /\ my[t] = Idle /\ pc[t] = "new" /\ my[t].kind = "none" /\ my[t].freight = "none"
        /\ ~my[t].locked /\ my[t].work = << >> /\ my[t].items = {} /\ t \notin UnderWay
    BY <1>3 DEF Idle, UnderWay
  <2>2. ~Launching(t) /\ ~Deleting(t)
    BY <2>1 DEF Launching, Deleting
  <2>3. RequestAt(t)
    BY <2>1, <2>2 DEF RequestAt, At
  <2>4. EntryAt(t) /\ CostAt(t) /\ PayableAt(t)
    BY <2>1, <2>2 DEF EntryAt, CostAt, PayableAt, At
  <2>. QED  BY <2>1, <2>3, <2>4, NoWork DEF RequestOK
<1>8. HeadersHeld /\ ProductsHeld /\ Alone
  BY <1>7 DEF HeadersHeld, ProductsHeld, Alone, UnderWay
<1>9. TitlesStored
  BY <1>3 DEF TitlesStored
<1>10. BalancesHeld
  BY <1>1, <1>2, <1>3 DEF BalancesHeld
<1>11. EntriesMatchStock
  <2>1. \A p : Brought(p, moved) = 0
    BY <1>3, BroughtOfNone
  <2>. QED  BY <1>1, <1>2, <1>3, <2>1, StockEquation
<1>12. \A n \in Notes : CostsOf(n)
  BY <1>3 DEF CostsOf
<1>13. PayablesFollowEntries
  <2>1. ASSUME NEW n \in Notes PROVE PayablesOfNote(n)
    <3>1. \A T \in Titles : title[T].note # n
      BY <1>1, <1>3, <1>4
    <3>2. {T \in PayablesOf(n) : T[2] = "COMPRA"} = {}
      BY <3>1 DEF PayablesOf
    <3>3. Cardinality({T \in PayablesOf(n) : T[2] = "COMPRA"}) <= 1
      BY <1>5, <3>2
    <3>. QED  BY <1>3, <3>1, <3>3 DEF PayablesOfNote
  <2>. QED  BY <2>1, PayablesSplit
<1>. QED  BY <1>6, <1>7, <1>8, <1>9, <1>10, <1>11, <1>12, <1>13 DEF IInv

LEMMA NextKeeps ==
    ASSUME IInv, [Next]_vars PROVE IInv'
<1>1. ASSUME NEW t \in Tx, Start(t) \/ Exit(t) \/ RequestStep(t) \/ Fail(t) PROVE IInv'
  <2>1. CASE Start(t)
    BY <2>1, StartKeeps
  <2>2. CASE Exit(t)
    BY <2>2, ExitKeeps
  <2>3. CASE ReadNote(t) \/ LockHeader(t) \/ EnterLine(t) \/ CheckPayable(t)
    BY <2>3, ReadNoteKeeps, LockHeaderKeeps, EnterLineKeeps, CheckPayableKeeps
  <2>4. CASE InsertPayable(t) \/ RevertItem(t) \/ TakeOut(t) \/ ReadPayables(t)
    BY <2>4, InsertPayableKeeps, RevertItemKeeps, TakeOutKeeps, ReadPayablesKeeps
  <2>5. CASE DeleteEntry(t) \/ WriteDispensed(t) \/ ReadOpen(t) \/ Pay(t)
    BY <2>5, DeleteEntryKeeps, WriteDispensedKeeps, ReadOpenKeeps, PayKeeps
  <2>6. CASE Fail(t)
    BY <2>6, FailKeeps
  <2>. QED  BY <1>1, <2>1, <2>2, <2>3, <2>4, <2>5, <2>6 DEF RequestStep
<1>2. CASE UNCHANGED vars
  <2>1. /\ note' = note /\ moved' = moved /\ stock' = stock /\ title' = title
        /\ settled' = settled /\ pc' = pc /\ my' = my /\ sold' = sold /\ before' = before
        /\ touched' = touched /\ overlap' = overlap
    BY <1>2 DEF vars
  <2>2. Shape'
    BY <2>1 DEF IInv, Shape
  <2>3. ASSUME NEW u \in Tx PROVE RequestOK(u)'
    <3>1. RequestAt(u) /\ EntryAt(u) /\ CostAt(u) /\ PayableAt(u)
      BY DEF IInv, RequestOK
    <3>2. RequestAt(u)' /\ EntryAt(u)' /\ CostAt(u)'
      BY <2>1, <3>1, OtherRequest
    <3>3. PayableAt(u)'
      BY <2>1, <3>1 DEF PayableAt, At, PayablesOf, BaixasOf
    <3>. QED  BY <3>2, <3>3 DEF RequestOK
  <2>4. HeadersHeld' /\ ProductsHeld' /\ Alone' /\ TitlesStored'
    BY <2>1 DEF IInv, HeadersHeld, ProductsHeld, Alone, UnderWay, TitlesStored, At
  <2>5. BalancesHeld' /\ EntriesMatchStock' /\ \A n \in Notes : CostsOf(n)'
    BY <2>1 DEF IInv, BalancesHeld, EntriesMatchStock, CostsOf
  <2>6. PayablesFollowEntries'
    BY <2>1 DEF IInv, PayablesFollowEntries, PayablesOf
  <2>. QED  BY <2>2, <2>3, <2>4, <2>5, <2>6 DEF IInv
<1>. QED  BY <1>1, <1>2 DEF Next

\* IInv holds in every state, however many requests, notes, items and products
\* there are.
THEOREM EntriesInductive == Spec => []IInv
<1>1. Init => IInv
  BY InitialState
<1>2. IInv /\ [Next]_vars => IInv'
  BY NextKeeps
<1>. QED  BY <1>1, <1>2, PTL DEF Spec

\* The columns hold what they should, and no balance is negative.
THEOREM TypeCorrect == Spec => []TypeOK
<1>1. IInv => TypeOK
  <2>. SUFFICES ASSUME IInv PROVE TypeOK
    OBVIOUS
  <2>1. Shape /\ BalancesHeld /\ TitlesStored /\ "none" \notin Notes
    BY PurchasesAssumption DEF IInv, PurchasesAssumption
  <2>2. \A p \in Products : stock[p].balance \in Nat /\ sold[p] \in Nat
    <3>1. \A p \in Products : stock[p].balance \in Int /\ stock[p].balance >= 0
      BY <2>1 DEF Shape, ProductRows, BalancesHeld
    <3>. QED  BY <2>1, <3>1 DEF Shape
  <2>3. ASSUME NEW T \in Titles
        PROVE  title[T].status \in {"none", "ABERTO", "CANCELADO"}
               /\ title[T].open \in 0 .. title[T].original
    <3>1. title[T].status \in {"none", "ABERTO", "CANCELADO"} /\ title[T].open \in Opens
      BY <2>1 DEF Shape, TitleRows
    <3>2. CASE title[T] = NoTitle
      BY <3>1, <3>2 DEF NoTitle
    <3>3. CASE title[T] # NoTitle
      <4>1. title[T].original = Worth
        BY <2>1, <3>3 DEF TitlesStored
      <4>2. Half \in 0 .. Worth /\ 0 \in 0 .. Worth /\ Worth \in 0 .. Worth
        BY SettlementFacts
      <4>. QED  BY <3>1, <4>1, <4>2 DEF Opens
    <3>. QED  BY <3>2, <3>3
  <2>4. \A s \in settled : title[s.title].status # "none"
    <3>1. \A s \in settled : s.title \in Titles /\ title[s.title].note \in Notes
      BY <2>1, SettlementFacts DEF Shape, TitlesStored
    <3>. QED  BY <2>1, <3>1 DEF TitlesStored, NoTitle
  <2>. QED  BY <2>1, <2>2, <2>3, <2>4 DEF TypeOK, Shape
<1>. QED  BY <1>1, EntriesInductive, PTL

\* EntriesMatchStock: however launches, deletions, failures and sales overlap, a
\* note has its movements exactly when it is launched, and what is in stock of a
\* product is what there was and what the launched notes brought, less what was
\* sold.
THEOREM StockFollowsEntries == Spec => []EntriesMatchStock
<1>1. IInv => EntriesMatchStock
  BY DEF IInv
<1>. QED  BY <1>1, EntriesInductive, PTL

\* PayablesFollowEntries: a launched note owes its worth once, what is open and
\* what is settled of a payable add up, and a deleted entry leaves no payable and
\* no settlement, for notes of which no request of an unlocked kind overlapped
\* another.
THEOREM PayablesFollow == Spec => []PayablesFollowEntries
<1>1. IInv => PayablesFollowEntries
  BY DEF IInv
<1>. QED  BY <1>1, EntriesInductive, PTL

\* Taking out of an average what was brought in gives the average before.
LEMMA AverageGivenBack ==
    ASSUME NEW b \in Int, NEW q \in Int, NEW c \in Int, NEW x \in Int, NEW y \in Int
    PROVE  ((b * x + q * c * y) * (b + q) - q * c * (y * (b + q))) * y = x * ((y * (b + q)) * b)
<1>1. PICK s \in Int, v \in Int : s = b + q /\ v = q * c
  OBVIOUS
<1>2. (b * x + v * y) * s = (b * x) * s + (v * y) * s
  OBVIOUS
<1>3. (v * y) * s = v * (y * s)
  OBVIOUS
<1>4. (b * x + v * y) * s - v * (y * s) = (b * x) * s
  <2>1. (b * x) * s \in Int /\ v * (y * s) \in Int
    OBVIOUS
  <2>. QED  BY <1>2, <1>3, <2>1
<1>5. ((b * x) * s) * y = x * ((y * s) * b)
  OBVIOUS
<1>. QED  BY <1>1, <1>4, <1>5

\* The deletion of an entry gives the row back that the launch has found.
LEMMA RevertUndoes ==
    ASSUME NEW row \in ProductRows, row.balance >= 0, NEW line \in ItemRows
    PROVE  LET back == Reverted(Entered(row, line), line)
           IN  /\ Same(back.cost, row.cost)
               /\ row.balance > 0 /\ row.average # Null => Same(back.average, row.average)
<1>0. PICK in, back : in = Entered(row, line) /\ back = Reverted(in, line)
  OBVIOUS
<1>1. PICK b, q, c, x, y : /\ b = row.balance /\ q = line.quantity /\ c = line.cost
                           /\ x = row.average[1] /\ y = row.average[2]
  OBVIOUS
<1>2. /\ b \in Nat /\ q \in Nat \ {0} /\ c \in Nat \ {0}
      /\ row.average # Null => x \in Int /\ y \in Nat \ {0} /\ row.average = << x, y >>
  <2>1. row.balance \in Int /\ row.average \in Fractions
    BY DEF ProductRows
  <2>. QED  BY <1>1, <2>1 DEF ItemRows, Fractions
<1>3. /\ in.balance = b + q /\ in.cost = << c, 1 >> /\ in.previous = row.cost
      /\ in.average = WeightedAverage(row, q, c)
  BY <1>0, <1>1 DEF Entered
<1>4. in.balance - q = b /\ Same(in.cost, << c, 1 >>)
  <2>1. in.balance - q = b
    BY <1>2, <1>3
  <2>. QED  BY <1>3, <2>1 DEF Same
<1>5. /\ back.cost = row.cost
      /\ back.average = IF b > 0 /\ in.average # Null
                        THEN << in.average[1] * in.balance - q * c * in.average[2],
                                in.average[2] * b >>
                        ELSE Null
  <2>1. b >= 0
    BY <1>2
  <2>. QED  BY <1>0, <1>1, <1>3, <1>4, <2>1 DEF Reverted
<1>6. Same(back.cost, row.cost)
  BY <1>5 DEF Same
<1>7. ASSUME b > 0, row.average # Null PROVE Same(back.average, row.average)
  <2>1. in.average = << b * x + q * c * y, y * (b + q) >>
    BY <1>1, <1>2, <1>3, <1>7 DEF WeightedAverage
  <2>2. b + q \in Nat \ {0} /\ b \in Nat \ {0} /\ y \in Nat \ {0} /\ x \in Int
    BY <1>2, <1>7
  <2>3. y * (b + q) \in Nat \ {0}
    BY <2>2, ProductIsPositive
  <2>4. (y * (b + q)) * b \in Nat \ {0}
    BY <2>2, <2>3, ProductIsPositive
  <2>5. in.average # Null
    BY <2>1, <2>3 DEF Null
  <2>6. back.average = << (b * x + q * c * y) * (b + q) - q * c * (y * (b + q)),
                          (y * (b + q)) * b >>
    BY <1>3, <1>5, <1>7, <2>1, <2>5
  <2>7. ((b * x + q * c * y) * (b + q) - q * c * (y * (b + q))) * y = x * ((y * (b + q)) * b)
    BY <1>2, <2>2, AverageGivenBack
  <2>8. row.average = << x, y >> /\ back.average # Null
    BY <1>2, <1>7, <2>4, <2>6 DEF Null
  <2>9. PICK m, d : back.average = << m, d >> /\ m * y = x * d
    BY <2>6, <2>7
  <2>. QED  BY <1>7, <2>8, <2>9 DEF Same
<1>. QED  BY <1>0, <1>1, <1>6, <1>7

\* Only the commit of excluir takes a note's entry back.
LEMMA OnlyDeletion ==
    ASSUME IInv, [Next]_vars, NEW n \in Notes, note[n].launched, ~note'[n].launched
    PROVE  \E t \in Tx : DeleteEntry(t) /\ my[t].note = n
<1>1. note \in [Notes -> [launched : BOOLEAN, dispensed : BOOLEAN]]
  BY DEF IInv, Shape
<1>2. note' # note
  OBVIOUS
<1>3. PICK t \in Tx : InsertPayable(t) \/ DeleteEntry(t) \/ WriteDispensed(t)
  BY <1>2 DEF Next, vars, tables, Start, Exit, RequestStep, Fail, OnlyRequest, ReadNote, LockHeader,
              EnterLine, CheckPayable, RevertItem, TakeOut, ReadPayables, ReadOpen, Pay
<1>4. CASE InsertPayable(t)
  <2>1. note' = [note EXCEPT ![my[t].note].launched = TRUE]
    BY <1>2, <1>4 DEF InsertPayable
  <2>. QED  BY <1>1, <2>1
<1>5. CASE WriteDispensed(t)
  <2>1. PICK b : note' = [note EXCEPT ![my[t].note].dispensed = b]
    BY <1>5 DEF WriteDispensed
  <2>. QED  BY <1>1, <2>1
<1>6. CASE DeleteEntry(t)
  <2>1. note' = [note EXCEPT ![my[t].note].launched = FALSE]
    BY <1>6 DEF DeleteEntry
  <2>. QED  BY <1>1, <1>6, <2>1
<1>. QED  BY <1>3, <1>4, <1>5, <1>6

\* DeletionGivesBackCost: excluir gives every product of the note the cost back
\* that it had before the launch, and its average cost if it had one on a stock,
\* unless something else has changed the product since or the note lists it
\* more than once.
THEOREM DeletionGivesBack == Spec => DeletionGivesBackCost
<1> DEFINE Step == \A n \in Notes : note[n].launched /\ ~note'[n].launched =>
        \A p \in ProductsOf(n) :
            << n, p >> \notin touched /\ Cardinality(LinesOf(n, p)) = 1 =>
                LET was == before[n][p]
                IN  /\ Same(stock'[p].cost, was.cost)
                    /\ was.balance > 0 /\ was.average # Null => Same(stock'[p].average, was.average)
<1>1. ASSUME IInv, [Next]_vars PROVE Step
  <2>1. ASSUME NEW n \in Notes, note[n].launched, ~note'[n].launched, NEW p \in ProductsOf(n),
               << n, p >> \notin touched, Cardinality(LinesOf(n, p)) = 1
        PROVE  /\ Same(stock'[p].cost, before[n][p].cost)
               /\ before[n][p].balance > 0 /\ before[n][p].average # Null =>
                    Same(stock'[p].average, before[n][p].average)
    <3>1. PICK t \in Tx : DeleteEntry(t) /\ my[t].note = n
      BY <1>1, <2>1, OnlyDeletion
    <3>2. At(t, "delete") /\ Deleted(t)
      BY <3>1 DEF DeleteEntry, Deleted
    <3>3. PICK k \in DOMAIN Lines[n] : LinesOf(n, p) = {k} /\ Lines[n][k].product = p
      <4>1. IsFiniteSet(LinesOf(n, p))
        BY ItemTypes, FS_Subset DEF LinesOf
      <4>2. PICK k : LinesOf(n, p) = {k}
        BY <2>1, <4>1, FS_Singleton
      <4>3. k \in LinesOf(n, p)
        BY <4>2
      <4>. QED  BY <4>2, <4>3 DEF LinesOf
    <3>4. Single(n, k)
      BY <3>3 DEF Single
    <3>5. stock'[p] = Reverted(stock[p], Lines[n][k])
      <4>. HIDE DEF IInv
      <4>1. \A j \in DOMAIN Lines[n] : Single(n, j) =>
                stock'[Lines[n][j].product] = Reverted(stock[Lines[n][j].product], Lines[n][j])
        BY <1>1, <3>1, <3>2, DeletedKeeps
      <4>. QED  BY <3>3, <3>4, <4>1
    <3>6. stock[p] = Entered(before[n][p], Lines[n][k])
      BY <1>1, <2>1, <3>3, <3>4 DEF IInv, CostsOf
    <3>7. /\ p \in Products /\ Lines[n][k] \in ItemRows
          /\ before[n][p] \in ProductRows /\ before[n][p].balance >= 0
      <4>1. p \in Products /\ Lines[n][k] \in ItemRows
        BY <3>3, ItemTypes DEF ItemRows
      <4>. QED  BY <1>1, <4>1 DEF IInv, Shape, BalancesHeld
    <3>8. PICK was, line : was = before[n][p] /\ line = Lines[n][k]
      OBVIOUS
    <3>9. stock'[p] = Reverted(Entered(was, line), line) /\ was \in ProductRows /\ was.balance >= 0
          /\ line \in ItemRows
      BY <3>5, <3>6, <3>7, <3>8
    <3>10. /\ Same(Reverted(Entered(was, line), line).cost, was.cost)
           /\ was.balance > 0 /\ was.average # Null =>
                Same(Reverted(Entered(was, line), line).average, was.average)
      BY <3>9, RevertUndoes
    <3>. QED  BY <3>8, <3>9, <3>10
  <2>. QED  BY <2>1
<1>2. IInv /\ [Next]_vars => [Step]_vars
  BY <1>1
<1>. HIDE DEF Step
<1>3. Spec => [][Step]_vars
  BY <1>2, EntriesInductive, PTL DEF Spec
<1>. QED  BY <1>3 DEF DeletionGivesBackCost, Step
=============================================================================
