------------------------ MODULE EntityCodes_proofs ------------------------
(***************************************************************************)
(* Proofs about EntityCodes, for any number of requests, any numbers given  *)
(* by hand and any bound on the draws.  There are four parts, the first     *)
(* three each on the invariant of the one before: IInv, that the sequence   *)
(* is never below a code in use but where a patch or an update by hand left *)
(* one; NInv, that numbers differ; VInv, that a voided number is closed and *)
(* that an automatic code is found; and who can deadlock, from IInv.        *)
(***************************************************************************)
EXTENDS EntityCodes, TLAPS

Labels == {"new", "next", "inspect", "check", "floor", "insert", "write", "move", "collect",
           "read", "set", "commit"} \cup Ended
AllKinds == {"draw", "informed", "adjust", "patch", "move", "void"}
Requests == [kind : AllKinds \cup {"none"}, row : Rows \cup {0}, number : Nat, top : Nat,
             value : Nat, tries : Nat, wrote : BOOLEAN, late : BOOLEAN, found : SUBSET Rows,
             met : SUBSET Tx]

\* The shape of the state; only invoices are outside or of another series.
Shape ==
    /\ type \in Types /\ counter \in Nat
    /\ code \in [Rows -> Nat]
    /\ outside \subseteq Rows /\ strayed \subseteq Rows
    /\ voided \subseteq Nat \X Nat /\ closed \subseteq Rows
    /\ holder \in Tx \cup {Free}
    /\ pc \in [Tx -> Labels]
    /\ my \in [Tx -> Requests]
Placed ==
    /\ \A r \in outside : code[r] = 0 /\ r \notin strayed
    /\ type # "NFE" => outside = {}

\* The transaction that holds the row of the sequence is under way and has
\* raised it: the checks before that hold nothing.
Before == {"check", "write", "move", "read", "set"}
HolderRaises ==
    holder # Free =>
        holder \in UnderWay /\ pc[holder] \notin Before /\ my[holder].value > counter

\* What each statement is part of.
KindAt(t) ==
    /\ pc[t] \in {"next", "inspect"} => my[t].kind = "draw"
    /\ At(t, "insert") => my[t].kind \in {"draw", "informed"}
    /\ At(t, "write") => my[t].kind = "patch"
    /\ At(t, "move") => my[t].kind = "move"
    /\ At(t, "collect") => my[t].kind = "void"
    /\ pc[t] \in {"read", "set"} => my[t].kind = "adjust"
    /\ pc[t] \in {"floor", "commit"} => my[t].kind \in {"draw", "informed", "patch", "void"}
    /\ At(t, "new") => my[t] = Idle
    /\ ~At(t, "new") => my[t].row \in Rows
    /\ my[t].late => my[t].kind \in {"patch", "move"} /\ pc[t] \notin Before
    /\ my[t].kind \in {"informed", "patch"} => my[t].top = my[t].number
KindsAgree == \A t \in Tx : KindAt(t)

\* A transaction has written its code when it commits, the patch of a member
\* before it raises the floor, and nobody else while it may still wait.
WroteAt(t) ==
    /\ pc[t] \in {"next", "inspect", "insert", "collect"} \cup Before => ~my[t].wrote
    /\ pc[t] \in {"floor", "commit"} /\ my[t].kind = "void" => ~my[t].wrote
    /\ At(t, "floor") /\ my[t].kind \in {"draw", "informed"} => ~my[t].wrote
    /\ At(t, "commit") /\ my[t].kind \in {"draw", "informed"} => my[t].wrote
    /\ pc[t] \in {"floor", "commit"} /\ my[t].kind = "patch" => (my[t].wrote <=> type = "MEMBRO")
WritesAgree == \A t \in Tx : WroteAt(t)

\* A creation makes the row with its name; what patches change exists.
OwnRow(t) ==
    /\ ~At(t, "new") /\ my[t].kind \notin {"patch", "move"} => my[t].row = t
    /\ my[t].kind = "patch" => type \in Coded /\ code[my[t].row] # 0 /\ my[t].number # 0
    /\ my[t].kind = "move" => type = "NFE" /\ Exists(my[t].row)
    /\ Exists(t) => At(t, "done") /\ my[t].kind \in {"draw", "informed"}
RowsOwned == \A t \in Tx : OwnRow(t)

\* Requests under way at the same time have met.
AllMeet == \A t, u \in UnderWay : t # u => Overlap(t, u)

\* A patch stored the code of r ahead of its floor, or a request that was under
\* way with an update by hand is about r.
Excused(r) ==
    \E t \in Tx : /\ my[t].row = r
                  /\ \/ my[t].late /\ (my[t].kind = "patch" => my[t].number = code[r])
                     \/ Adjusted(t)

\* What an update of the sequence is about to set covers the codes, what is
\* about to be stored is not above what its transaction sees, and the sequence
\* covers what is stored.
SetCovers ==
    \A t \in Tx : At(t, "set") => \A r \in Rows : code[r] <= my[t].number \/ Excused(r)
Reached ==
    \A t \in Tx :
        pc[t] \in {"inspect", "insert", "commit"} /\ my[t].kind # "void" =>
            my[t].number <= Seen(t) \/ Adjusted(t)
CodesCovered == \A r \in Rows : code[r] <= counter \/ Excused(r)

IInv ==
    /\ Shape
    /\ Placed
    /\ HolderRaises
    /\ KindsAgree
    /\ WritesAgree
    /\ RowsOwned
    /\ AllMeet
    /\ SetCovers
    /\ Reached
    /\ CodesCovered

-----------------------------------------------------------------------------
\* What is fixed when a request starts.
SameRequests ==
    \A u \in Tx : ~At(u, "new") => /\ my'[u].kind = my[u].kind /\ my'[u].row = my[u].row
                                   /\ my'[u].met = my[u].met

\* Who met an update by hand has met it for good.
LEMMA AdjustedKept ==
    ASSUME KindsAgree, SameRequests, NEW t \in Tx, ~At(t, "new"), Adjusted(t)
    PROVE  Adjusted(t)'
<1>1. PICK u \in Tx : my[u].kind = "adjust" /\ Overlap(t, u)
  BY DEF Adjusted
<1>2. ~At(u, "new")
  BY <1>1 DEF KindsAgree, KindAt, Idle
<1>. QED  BY <1>1, <1>2 DEF SameRequests, Adjusted, Overlap

LEMMA ExcuseKept ==
    ASSUME KindsAgree, SameRequests, NEW r \in Rows, Excused(r),
           \A u \in Tx : my[u].row = r /\ my[u].late
                            /\ (my[u].kind = "patch" => my[u].number = code[r]) =>
               \/ my'[u].late /\ (my[u].kind = "patch" => my'[u].number = code'[r])
               \/ Adjusted(u)'
    PROVE  Excused(r)'
<1>1. PICK t \in Tx : /\ my[t].row = r
                      /\ \/ my[t].late /\ (my[t].kind = "patch" => my[t].number = code[r])
                         \/ Adjusted(t)
  BY DEF Excused
<1>2. ~At(t, "new")
  BY <1>1, CodesAssumption DEF KindsAgree, KindAt, Idle, Rows
<1>3. my'[t].row = r /\ my'[t].kind = my[t].kind
  BY <1>1, <1>2 DEF SameRequests
<1>. QED  BY <1>1, <1>2, <1>3, AdjustedKept DEF Excused

\* A request that is under way met every other one that is, and an update by
\* hand in particular.
LEMMA MeetsAdjusts ==
    ASSUME AllMeet, NEW t \in UnderWay, NEW u \in UnderWay, t # u, my[u].kind = "adjust"
    PROVE  Adjusted(t)
BY DEF AllMeet, Adjusted, UnderWay

-----------------------------------------------------------------------------
LEMMA InitInvariant == Init => IInv
<1> SUFFICES ASSUME Init PROVE IInv
  OBVIOUS
<1>1. Idle \in Requests /\ ~Idle.late /\ ~Idle.wrote /\ Idle.kind = "none"
  BY DEF Idle, Requests
<1>2. /\ code \in [Rows -> Nat] /\ outside \subseteq Outside
      /\ \A r \in Rows : code[r] = IF r \in 1 .. Used THEN r ELSE 0
  <2>1. code = [r \in Rows |-> IF r \in 1 .. Used THEN r ELSE 0]
    BY DEF Init
  <2>2. \A r \in Rows : (IF r \in 1 .. Used THEN r ELSE 0) \in Nat
    BY CodesAssumption
  <2>. QED  BY <2>1, <2>2 DEF Init
<1>8. \A r \in Tx \cup Outside : r \in Rows /\ r \notin 1 .. Used
  BY CodesAssumption DEF Rows
<1>9. \A t \in Tx : code[t] = 0 /\ t \notin outside
  BY <1>2, <1>8, CodesAssumption
<1>3. Shape /\ Placed
  <2>1. pc \in [Tx -> Labels]
    BY DEF Init, Labels
  <2>2. outside \subseteq Rows /\ \A r \in outside : code[r] = 0
    BY <1>2, <1>8
  <2>. QED  BY <1>1, <1>2, <2>1, <2>2, CodesAssumption DEF Init, Shape, Placed
<1>4. HolderRaises /\ KindsAgree /\ WritesAgree
  BY <1>1 DEF Init, HolderRaises, KindsAgree, KindAt, WritesAgree, WroteAt, At
<1>5. RowsOwned
  BY <1>1, <1>9 DEF Init, RowsOwned, OwnRow, Exists, At
<1>6. AllMeet /\ SetCovers /\ Reached
  BY DEF Init, AllMeet, UnderWay, SetCovers, Reached, At
<1>7. CodesCovered
  BY <1>2, CodesAssumption DEF Init, CodesCovered
<1>. QED  BY <1>3, <1>4, <1>5, <1>6, <1>7 DEF IInv

\* A step of a request that is under way and touches nothing that is committed.
LEMMA UncommittedStep ==
    ASSUME IInv, NEW t \in Tx, t \in UnderWay, NEW label \in Labels \ {"new"},
           Go(t, label), OnlyLock,
           my' \in [Tx -> Requests], \A u \in Tx \ {t} : my'[u] = my[u],
           my'[t].kind = my[t].kind, my'[t].row = my[t].row, my'[t].met = my[t].met,
           my[t].late => my'[t].late,
           my[t].kind = "patch" => my'[t].number = my[t].number,
           holder' \in {holder, Free, t}, holder \in {t, Free} \/ holder' = holder,
           holder' = t => label \notin Ended \cup Before /\ my'[t].value > counter,
           KindAt(t)', WroteAt(t)',
           label = "set" => \A r \in Rows : code[r] <= my'[t].number,
           label \in {"inspect", "insert", "commit"} /\ my'[t].kind # "void" =>
               my'[t].number <= Seen(t)' \/ Adjusted(t)
    PROVE  IInv'
<1>1. /\ pc' = [pc EXCEPT ![t] = label] /\ ~At(t, "new")
      /\ UNCHANGED << type, counter, code, outside, strayed, voided, closed >>
  BY DEF Go, OnlyLock, places, UnderWay, At
<1>2. pc' \in [Tx -> Labels] /\ pc'[t] = label /\ \A u \in Tx \ {t} : pc'[u] = pc[u]
  BY <1>1 DEF IInv, Shape
<1>3. Shape' /\ Placed'
  BY <1>1, <1>2 DEF IInv, Shape, Placed
<1>4. HolderRaises'
  BY <1>1, <1>2, CodesAssumption DEF IInv, Shape, HolderRaises, UnderWay, Before
<1>5. KindsAgree'
  BY <1>2 DEF IInv, KindsAgree, KindAt, At
<1>6. WritesAgree'
  BY <1>1, <1>2 DEF IInv, WritesAgree, WroteAt, At
<1>7. RowsOwned'
  <2>1. ~Exists(t)
    BY DEF IInv, RowsOwned, OwnRow, UnderWay, Ended, At
  <2>2. OwnRow(t)'
    BY <1>1, <1>2, <2>1 DEF IInv, RowsOwned, OwnRow, Exists, At
  <2>3. \A u \in Tx \ {t} : OwnRow(u)'
    BY <1>1, <1>2 DEF IInv, RowsOwned, OwnRow, Exists, At
  <2>. QED  BY <2>2, <2>3 DEF RowsOwned
<1>8. SameRequests
  BY DEF SameRequests
<1>9. AllMeet'
  BY <1>1, <1>2 DEF IInv, AllMeet, Overlap, UnderWay
<1>10. \A r \in Rows : Excused(r) => Excused(r)'
  BY <1>1, <1>8, ExcuseKept DEF IInv
<1>11. SetCovers'
  BY <1>1, <1>2, <1>10 DEF IInv, SetCovers, At
<1>12. Reached'
  <2>1. \A u \in Tx : ~At(u, "new") /\ Adjusted(u) => Adjusted(u)'
    BY <1>8, AdjustedKept DEF IInv
  <2> SUFFICES ASSUME NEW u \in Tx, pc'[u] \in {"inspect", "insert", "commit"}, my'[u].kind # "void"
               PROVE  my'[u].number <= Seen(u)' \/ Adjusted(u)'
    BY DEF Reached
  <2>2. CASE u = t
    BY <1>1, <1>2, <2>1, <2>2
  <2>3. CASE u # t
    <3>1. Seen(u)' = Seen(u)
      BY <1>1, <2>3, CodesAssumption DEF IInv, Shape, Seen
    <3>. QED  BY <1>2, <2>1, <2>3, <3>1 DEF IInv, Reached, At
  <2>. QED  BY <2>2, <2>3
<1>13. CodesCovered'
  BY <1>1, <1>10 DEF IInv, CodesCovered
<1>. QED  BY <1>3, <1>4, <1>5, <1>6, <1>7, <1>9, <1>11, <1>12, <1>13 DEF IInv

-----------------------------------------------------------------------------
\* Draws and floors.
LEMMA SequenceSteps ==
    ASSUME IInv, NEW t \in Tx, NextSequence(t) \/ SyncFloor(t)
    PROVE  IInv'
<1>1. /\ my[t] \in Requests /\ counter \in Nat /\ my \in [Tx -> Requests]
      /\ holder \in Tx \cup {Free} /\ Free \notin Tx /\ Seen(t) \in Nat /\ Seen(t) >= counter
      /\ KindAt(t) /\ WroteAt(t)
  BY CodesAssumption DEF IInv, Shape, KindsAgree, WritesAgree, HolderRaises, Seen, Requests
<1>2. CASE NextSequence(t)
  <2>1. /\ At(t, "next") /\ MayLock(t) /\ holder' = t /\ Go(t, "inspect") /\ OnlyLock
        /\ my' = [my EXCEPT ![t].value = Seen(t) + 1, ![t].number = Seen(t) + 1,
                            ![t].tries = @ + 1]
    BY <1>2 DEF NextSequence
  <2>2. my' \in [Tx -> Requests] /\ \A u \in Tx \ {t} : my'[u] = my[u]
    BY <1>1, <2>1 DEF Requests
  <2>3. /\ my'[t].value = Seen(t) + 1 /\ my'[t].number = Seen(t) + 1
        /\ my'[t].kind = my[t].kind /\ my'[t].row = my[t].row /\ my'[t].late = my[t].late
        /\ my'[t].met = my[t].met /\ my'[t].wrote = my[t].wrote
    BY <1>1, <2>1 DEF Requests
  <2>4. pc'[t] = "inspect" /\ t \in UnderWay /\ my[t].kind = "draw"
    BY <1>1, <2>1 DEF IInv, Shape, Go, At, UnderWay, Ended, KindAt
  <2>5. KindAt(t)'
    BY <1>1, <2>1, <2>3, <2>4 DEF KindAt, At, Before
  <2>6. WroteAt(t)'
    BY <1>1, <2>1, <2>3, <2>4 DEF WroteAt, At, Before
  <2>7. "inspect" \in Labels \ {"new"} /\ "inspect" \notin Ended \cup Before
    BY DEF Labels, Ended, Before
  <2>8. my'[t].number <= Seen(t)' /\ my'[t].value > counter
    BY <1>1, <2>1, <2>3 DEF Seen
  <2>. QED  BY <2>1, <2>2, <2>3, <2>4, <2>5, <2>6, <2>7, <2>8, UncommittedStep DEF MayLock
<1>3. CASE SyncFloor(t)
  <2> DEFINE label == AfterFloor(t)
  <2>1. At(t, "floor") /\ Go(t, label) /\ OnlyLock
    BY <1>3 DEF SyncFloor
  <2>2. \/ Seen(t) >= my[t].top /\ UNCHANGED << holder, my >>
        \/ /\ Seen(t) < my[t].top /\ MayLock(t) /\ holder' = t
           /\ my' = [my EXCEPT ![t].value = my[t].top]
    BY <1>3 DEF SyncFloor
  <2>3. /\ my[t].kind \in {"draw", "informed", "patch", "void"}
        /\ label = CASE my[t].kind = "draw" -> "next"
                     [] my[t].kind = "informed" -> "insert"
                     [] my[t].kind = "patch" -> "commit"
                     [] my[t].kind = "void" -> "collect"
    BY <1>1, <2>1 DEF KindAt, At, AfterFloor
  <2>4. /\ label \in {"next", "insert", "commit", "collect"}
        /\ label \in Labels \ {"new"} /\ label \notin Ended \cup Before
        /\ label = "next" => my[t].kind = "draw"
        /\ label = "insert" => my[t].kind = "informed"
        /\ label = "commit" => my[t].kind = "patch"
        /\ label = "collect" => my[t].kind = "void"
    BY <2>3 DEF Labels, Ended, Before
  <2>5. t \in UnderWay /\ pc'[t] = label /\ UNCHANGED type
    BY <2>1 DEF IInv, Shape, Go, At, UnderWay, Ended, OnlyLock
  <2> HIDE DEF label
  <2>6. /\ my' \in [Tx -> Requests] /\ \A u \in Tx \ {t} : my'[u] = my[u]
        /\ my'[t].kind = my[t].kind /\ my'[t].row = my[t].row /\ my'[t].late = my[t].late
        /\ my'[t].number = my[t].number /\ my'[t].top = my[t].top
        /\ my'[t].met = my[t].met /\ my'[t].wrote = my[t].wrote
    BY <1>1, <2>2 DEF Requests
  <2>7. holder' = t => my'[t].value > counter
    BY <1>1, <2>2 DEF IInv, HolderRaises, Requests
  <2>8. my'[t].top <= Seen(t)'
    BY <1>1, <2>1, <2>2, <2>6 DEF Seen, OnlyLock, Requests
  <2>9. KindAt(t)'
    BY <1>1, <2>1, <2>4, <2>5, <2>6 DEF KindAt, At
  <2>10. WroteAt(t)'
    BY <1>1, <2>1, <2>4, <2>5, <2>6 DEF WroteAt, At
  <2>11. label \in {"inspect", "insert", "commit"} => my'[t].number = my'[t].top
    BY <1>1, <2>4, <2>6 DEF KindAt
  <2>12. holder' \in {holder, Free, t} /\ (holder \in {t, Free} \/ holder' = holder)
    BY <2>2 DEF MayLock
  <2>13. label # "set"
    BY <2>4
  <2>. QED  BY <2>1, <2>4, <2>5, <2>6, <2>7, <2>8, <2>9, <2>10, <2>11, <2>12, <2>13, UncommittedStep
<1>. QED  BY <1>2, <1>3

\* A step of t that leaves its request as it is, and may end it.
LEMMA PlainStep ==
    ASSUME IInv, NEW t \in Tx, t \in UnderWay, NEW label \in Labels \ {"new", "read", "commit"},
           Go(t, label), OnlyLock, UNCHANGED my,
           holder' = IF holder = t /\ label \in Ended THEN Free ELSE holder,
           label \in Before => pc[t] \in Before,
           label \notin Ended => ~my[t].wrote,
           label \in {"next", "inspect"} => my[t].kind = "draw",
           label = "insert" => my[t].kind \in {"draw", "informed"},
           label = "write" => my[t].kind = "patch",
           label = "move" => my[t].kind = "move",
           label = "collect" => my[t].kind = "void",
           label = "set" => my[t].kind = "adjust",
           label = "set" => \A r \in Rows : code[r] <= my[t].number,
           label = "floor" => my[t].kind \in {"draw", "informed", "void"},
           label \in {"inspect", "insert"} => my[t].number <= Seen(t) \/ Adjusted(t)
    PROVE  IInv'
<1>1. /\ my \in [Tx -> Requests] /\ KindAt(t) /\ WroteAt(t) /\ Free \notin Tx
      /\ holder \in Tx \cup {Free}
  BY CodesAssumption DEF IInv, Shape, KindsAgree, WritesAgree
<1>2. pc'[t] = label /\ my'[t] = my[t] /\ ~At(t, "new")
  BY DEF IInv, Shape, Go, UnderWay, At
<1>3. KindAt(t)'
  BY <1>1, <1>2 DEF KindAt, At
<1>4. WroteAt(t)'
  BY <1>1, <1>2 DEF WroteAt, At, Ended, Before
<1>5. holder' = t => /\ holder = t /\ my[t].value > counter
                     /\ label \notin Ended /\ pc[t] \notin Before
  BY <1>1 DEF IInv, HolderRaises
<1>6. label \in {"inspect", "insert", "commit"} /\ my'[t].kind # "void" =>
          my'[t].number <= Seen(t)' \/ Adjusted(t)
  BY <1>1, <1>2 DEF Seen, OnlyLock, Ended
<1>. QED  BY <1>1, <1>2, <1>3, <1>4, <1>5, <1>6, UncommittedStep

LEMMA PlainSteps ==
    ASSUME IInv, NEW t \in Tx,
           \/ CheckFree(t) \/ LoadDraft(t) \/ CheckRange(t) \/ ReadLastUsed(t) \/ Fail(t)
    PROVE  IInv'
<1>1. KindAt(t) /\ WroteAt(t)
  BY DEF IInv, KindsAgree, WritesAgree
<1>2. ASSUME NEW label \in {"done", "floor", "write", "move", "set"},
             pc[t] = "check" \/ (pc[t] = "read" /\ label \in {"done", "set"}),
             Go(t, label), OnlyRequest, UNCHANGED my,
             label = "floor" => my[t].kind \in {"informed", "void"},
             label = "write" => my[t].kind = "patch",
             label = "move" => my[t].kind = "move",
             label = "set" => pc[t] = "read" /\ \A r \in Rows : code[r] <= my[t].number
      PROVE  IInv'
  <2>1. label \in Labels \ {"new", "read", "commit"} /\ t \in UnderWay /\ pc[t] \in Before
    BY <1>2 DEF Labels, UnderWay, Ended, Before
  <2>2. holder # t /\ OnlyLock /\ holder' = holder
    BY <1>2, <2>1, CodesAssumption DEF IInv, HolderRaises, OnlyRequest, OnlyLock
  <2>3. ~my[t].wrote /\ (label = "set" => my[t].kind = "adjust")
    BY <1>1, <1>2, <2>1 DEF WroteAt, KindAt
  <2>. QED  BY <1>2, <2>1, <2>2, <2>3, PlainStep
<1>3. CASE CheckFree(t)
  BY <1>2, <1>3 DEF CheckFree, At
<1>4. CASE LoadDraft(t)
  <2>1. PICK label \in {"done", "move"} : Go(t, label)
    BY <1>4 DEF LoadDraft
  <2>. QED  BY <1>2, <1>4, <2>1 DEF LoadDraft, At
<1>5. CASE CheckRange(t)
  BY <1>2, <1>5 DEF CheckRange, At
<1>6. CASE ReadLastUsed(t)
  <2> DEFINE label == IF \E r \in Rows : code[r] > my[t].number THEN "done" ELSE "set"
  <2>1. At(t, "read") /\ Go(t, label) /\ UNCHANGED my /\ OnlyRequest
    BY <1>6 DEF ReadLastUsed
  <2>2. label \in {"done", "set"} /\ (label = "set" => \A r \in Rows : code[r] <= my[t].number)
    BY DEF IInv, Shape, Requests
  <2> HIDE DEF label
  <2>. QED  BY <1>2, <2>1, <2>2 DEF At
<1>7. CASE Fail(t)
  <2>1. /\ t \in UnderWay /\ Go(t, "done") /\ UNCHANGED my /\ OnlyLock
        /\ holder' = IF holder = t THEN Free ELSE holder
    BY <1>7 DEF Fail, End
  <2>2. "done" \in Labels \ {"new", "read", "commit"} /\ "done" \in Ended /\ "done" \notin Before
    BY DEF Labels, Ended, Before
  <2>. QED  BY <2>1, <2>2, PlainStep
<1>. QED  BY <1>3, <1>4, <1>5, <1>6, <1>7

\* The INSERT writes the code.
LEMMA InsertingStep ==
    ASSUME IInv, NEW t \in Tx, Insert(t)
    PROVE  IInv'
<1>1. /\ my \in [Tx -> Requests] /\ my[t] \in Requests /\ KindAt(t) /\ WroteAt(t)
      /\ Free \notin Tx /\ holder \in Tx \cup {Free}
  BY CodesAssumption DEF IInv, Shape, KindsAgree, WritesAgree
<1>2. /\ At(t, "insert") /\ OnlyLock /\ t \in UnderWay /\ my[t].kind \in {"draw", "informed"}
      /\ my[t].number <= Seen(t) \/ Adjusted(t)
  BY <1>1 DEF Insert, IInv, Reached, At, KindAt, UnderWay, Ended
<1>3. /\ {"conflict", "commit"} \subseteq Labels \ {"new", "read"}
      /\ "conflict" \in Ended /\ "conflict" \notin Before
      /\ "commit" \notin Ended \cup Before
  BY DEF Labels, Ended, Before
<1>4. CASE End(t, "conflict") /\ UNCHANGED my
  BY <1>2, <1>3, <1>4, PlainStep DEF End
<1>5. CASE my' = [my EXCEPT ![t].wrote = TRUE] /\ Go(t, "commit") /\ UNCHANGED holder
  <2>1. /\ my' \in [Tx -> Requests] /\ \A u \in Tx \ {t} : my'[u] = my[u]
        /\ my'[t].kind = my[t].kind /\ my'[t].row = my[t].row /\ my'[t].late = my[t].late
        /\ my'[t].number = my[t].number /\ my'[t].top = my[t].top /\ my'[t].met = my[t].met
        /\ my'[t].value = my[t].value /\ my'[t].wrote
    BY <1>1, <1>5 DEF Requests
  <2>2. pc'[t] = "commit"
    BY <1>5 DEF IInv, Shape, Go
  <2>3. KindAt(t)'
    BY <1>1, <1>2, <1>3, <2>1, <2>2 DEF KindAt, At
  <2>4. WroteAt(t)'
    BY <1>2, <2>1, <2>2 DEF WroteAt, At, Before
  <2>5. holder' = holder /\ (holder' = t => my'[t].value > counter)
    BY <1>1, <1>5, <2>1 DEF IInv, HolderRaises
  <2>6. Seen(t)' = Seen(t)
    BY <1>2, <1>5, <2>1 DEF Seen, OnlyLock
  <2>. QED  BY <1>2, <1>3, <1>5, <2>1, <2>3, <2>4, <2>5, <2>6, UncommittedStep
<1>. QED  BY <1>4, <1>5 DEF Insert

\* What was drawn is inspected; the invoices of a range are read.
LEMMA ReadingSteps ==
    ASSUME IInv, NEW t \in Tx, Inspect(t) \/ Collect(t)
    PROVE  IInv'
<1>1. /\ my \in [Tx -> Requests] /\ my[t] \in Requests /\ KindAt(t) /\ WroteAt(t)
      /\ holder \in Tx \cup {Free} /\ Free \notin Tx
  BY CodesAssumption DEF IInv, Shape, KindsAgree, WritesAgree
<1>2. CASE Inspect(t)
  <2>1. At(t, "inspect") /\ OnlyLock /\ t \in UnderWay /\ my[t].kind = "draw" /\ ~my[t].wrote
    BY <1>1, <1>2 DEF Inspect, At, UnderWay, Ended, KindAt, WroteAt
  <2>2. {"gave up", "next", "insert", "floor"} \subseteq Labels \ {"new", "read", "commit"}
        /\ "gave up" \in Ended /\ {"next", "insert", "floor"} \cap (Ended \cup Before) = {}
        /\ "gave up" \notin Before
    BY DEF Labels, Ended, Before
  <2>3. my[t].number <= Seen(t) \/ Adjusted(t)
    BY <2>1 DEF IInv, Reached, At
  <2>4. CASE End(t, "gave up") /\ UNCHANGED my
    BY <2>1, <2>2, <2>4, PlainStep DEF End
  <2>5. CASE Go(t, "next") /\ UNCHANGED << holder, my >>
    BY <2>1, <2>2, <2>5, PlainStep
  <2>6. CASE Go(t, "insert") /\ UNCHANGED << holder, my >>
    BY <2>1, <2>2, <2>3, <2>6, PlainStep
  <2>7. ASSUME NEW r \in Ranges(my[t].number), my' = [my EXCEPT ![t].top = r[2]],
               Go(t, "floor"), UNCHANGED holder
        PROVE  IInv'
    <3>1. r[2] \in Nat
      BY DEF IInv, Shape, Ranges
    <3>2. my' \in [Tx -> Requests] /\ \A u \in Tx \ {t} : my'[u] = my[u]
      BY <1>1, <2>7, <3>1 DEF Requests
    <3>3. /\ my'[t].kind = my[t].kind /\ my'[t].row = my[t].row /\ my'[t].late = my[t].late
          /\ my'[t].number = my[t].number /\ my'[t].value = my[t].value
          /\ my'[t].met = my[t].met /\ my'[t].wrote = my[t].wrote
      BY <1>1, <2>7 DEF Requests
    <3>4. pc'[t] = "floor"
      BY <2>7 DEF IInv, Shape, Go
    <3>5. KindAt(t)'
      BY <1>1, <2>1, <3>3, <3>4 DEF KindAt, At, Before
    <3>6. WroteAt(t)'
      BY <2>1, <3>3, <3>4 DEF WroteAt, At, Before
    <3>7. holder' = t => my'[t].value > counter
      BY <1>1, <2>7, <3>3 DEF IInv, HolderRaises
    <3>. QED  BY <2>1, <2>2, <2>7, <3>2, <3>3, <3>5, <3>6, <3>7, UncommittedStep
  <2>. QED  BY <1>2, <2>4, <2>5, <2>6, <2>7 DEF Inspect
<1>3. CASE Collect(t)
  <2> DEFINE found == {r \in Rows \ strayed : code[r] \in my[t].number .. my[t].top}
  <2>1. At(t, "collect") /\ Go(t, "commit") /\ OnlyRequest
        /\ my' = [my EXCEPT ![t].found = found]
    BY <1>3 DEF Collect
  <2>2. found \in SUBSET Rows
    OBVIOUS
  <2> HIDE DEF found
  <2>3. my' \in [Tx -> Requests] /\ \A u \in Tx \ {t} : my'[u] = my[u]
    BY <1>1, <2>1, <2>2 DEF Requests
  <2>4. /\ my'[t].kind = my[t].kind /\ my'[t].row = my[t].row /\ my'[t].late = my[t].late
        /\ my'[t].number = my[t].number /\ my'[t].value = my[t].value
        /\ my'[t].top = my[t].top /\ my'[t].met = my[t].met /\ my'[t].wrote = my[t].wrote
    BY <1>1, <2>1 DEF Requests
  <2>5. pc'[t] = "commit" /\ t \in UnderWay /\ my[t].kind = "void" /\ ~my[t].wrote
    BY <1>1, <2>1 DEF IInv, Shape, Go, At, UnderWay, Ended, KindAt, WroteAt
  <2>6. KindAt(t)'
    BY <1>1, <2>1, <2>4, <2>5 DEF KindAt, At, Before
  <2>7. WroteAt(t)'
    BY <2>4, <2>5 DEF WroteAt, At, Before
  <2>8. "commit" \in Labels \ {"new"} /\ "commit" \notin Ended \cup Before
    BY DEF Labels, Ended, Before
  <2>9. OnlyLock /\ holder' = holder /\ (holder' = t => my'[t].value > counter)
    BY <1>1, <2>1, <2>4 DEF IInv, HolderRaises, OnlyRequest, OnlyLock
  <2>. QED  BY <2>1, <2>3, <2>4, <2>5, <2>6, <2>7, <2>8, <2>9, UncommittedStep
<1>. QED  BY <1>2, <1>3

\* The UPDATE of a code: of a product it is committed at once.
LEMMA PatchingStep ==
    ASSUME IInv, NEW t \in Tx, PatchCode(t)
    PROVE  IInv'
<1> DEFINE n == my[t].number
           r == my[t].row
           stored == Holders(n) \ {r} = {}
<1>1. /\ At(t, "write") /\ Go(t, IF stored THEN "floor" ELSE "conflict")
      /\ UNCHANGED << type, counter, holder, outside, strayed, voided, closed >>
      /\ code' = IF stored /\ type = "PRODUTO" THEN [code EXCEPT ![r] = n] ELSE code
      /\ my' = IF ~stored THEN my
               ELSE IF type = "PRODUTO" THEN [my EXCEPT ![t].late = TRUE]
               ELSE [my EXCEPT ![t].wrote = TRUE]
  BY DEF PatchCode, places
<1>2. /\ my \in [Tx -> Requests] /\ my[t] \in Requests /\ n \in Nat /\ r \in Rows
      /\ my[t].kind = "patch" /\ my[t].top = n /\ t \in UnderWay /\ ~my[t].wrote /\ ~my[t].late
      /\ code \in [Rows -> Nat] /\ counter \in Nat /\ KindAt(t) /\ OwnRow(t)
      /\ type \in Coded /\ code[r] # 0 /\ n # 0
  BY <1>1 DEF IInv, Shape, KindsAgree, KindAt, WritesAgree, WroteAt, RowsOwned, OwnRow, Requests,
     At, UnderWay, Ended, Before
<1>3. holder # t
  BY <1>1, CodesAssumption DEF IInv, HolderRaises, At, Before
<1>4. {"floor", "conflict"} \subseteq Labels \ {"new", "read", "commit"} /\ "conflict" \in Ended
      /\ "floor" \notin Ended /\ {"floor", "conflict"} \cap Before = {}
  BY DEF Labels, Ended, Before
<1> HIDE DEF stored
<1>5. CASE ~stored
  <2>1. UNCHANGED my /\ OnlyLock /\ UNCHANGED holder /\ Go(t, "conflict")
    BY <1>1, <1>5 DEF OnlyLock, places
  <2>. QED  BY <1>2, <1>3, <1>4, <2>1, PlainStep
<1>6. CASE stored /\ type # "PRODUTO"
  <2>1. /\ my' = [my EXCEPT ![t].wrote = TRUE] /\ OnlyLock /\ UNCHANGED holder /\ Go(t, "floor")
        /\ type = "MEMBRO"
    BY <1>1, <1>2, <1>6 DEF OnlyLock, places, Coded
  <2>2. /\ my' \in [Tx -> Requests] /\ \A u \in Tx \ {t} : my'[u] = my[u]
        /\ my'[t].kind = my[t].kind /\ my'[t].row = my[t].row /\ my'[t].number = n
        /\ my'[t].top = my[t].top /\ my'[t].met = my[t].met /\ my'[t].late = my[t].late
        /\ my'[t].wrote
    BY <1>2, <2>1 DEF Requests
  <2>3. pc'[t] = "floor" /\ UNCHANGED type
    BY <2>1 DEF IInv, Shape, Go, OnlyLock
  <2>4. KindAt(t)'
    BY <1>2, <2>2, <2>3 DEF KindAt, At, Before
  <2>5. WroteAt(t)'
    BY <1>2, <2>1, <2>2, <2>3 DEF WroteAt, At, Before
  <2>. QED  BY <1>2, <1>3, <1>4, <2>1, <2>2, <2>4, <2>5, UncommittedStep
<1>7. CASE stored /\ type = "PRODUTO"
  <2>1. /\ pc' = [pc EXCEPT ![t] = "floor"] /\ code' = [code EXCEPT ![r] = n]
        /\ my' = [my EXCEPT ![t].late = TRUE]
        /\ UNCHANGED << type, counter, holder, outside, strayed, voided, closed >>
    BY <1>1, <1>7 DEF Go
  <2>2. /\ my' \in [Tx -> Requests] /\ \A u \in Tx \ {t} : my'[u] = my[u]
        /\ my'[t].kind = my[t].kind /\ my'[t].row = r /\ my'[t].number = n
        /\ my'[t].top = my[t].top /\ my'[t].value = my[t].value /\ my'[t].late
        /\ my'[t].met = my[t].met /\ my'[t].wrote = my[t].wrote
    BY <1>2, <2>1 DEF Requests
  <2>3. pc'[t] = "floor" /\ \A u \in Tx \ {t} : pc'[u] = pc[u]
    BY <2>1 DEF IInv, Shape
  <2>4. code'[r] = n /\ \A x \in Rows \ {r} : code'[x] = code[x]
    BY <1>2, <2>1
  <2>5. Shape' /\ Placed'
    <3>1. pc' \in [Tx -> Labels]
      BY <1>4, <2>1 DEF IInv, Shape
    <3>2. code' \in [Rows -> Nat]
      BY <1>2, <2>1
    <3>3. outside = {}
      BY <1>7 DEF IInv, Placed
    <3>. QED  BY <2>1, <2>2, <3>1, <3>2, <3>3 DEF IInv, Shape, Placed
  <2>6. HolderRaises'
    BY <1>3, <2>1, <2>2, <2>3, CodesAssumption DEF IInv, Shape, HolderRaises, UnderWay
  <2>7. KindsAgree'
    <3>1. KindAt(t)'
      BY <1>2, <2>2, <2>3 DEF KindAt, At, Before
    <3>. QED  BY <2>2, <2>3, <3>1 DEF IInv, KindsAgree, KindAt, At
  <2>8. WritesAgree'
    <3>1. WroteAt(t)'
      BY <1>2, <1>7, <2>1, <2>2, <2>3 DEF WroteAt, At, Before
    <3>. QED  BY <2>1, <2>2, <2>3, <3>1 DEF IInv, WritesAgree, WroteAt, At
  <2>9. RowsOwned'
    <3>1. \A x : x \in Rows => (Exists(x)' <=> Exists(x))
      BY <1>2, <2>1, <2>4 DEF Exists
    <3>2. \A u \in Tx : u \in Rows /\ (~At(u, "new") => my[u].row \in Rows)
                        /\ (my[u].kind \in {"patch", "move"} => ~At(u, "new"))
      BY DEF IInv, KindsAgree, KindAt, Rows, Idle
    <3>3. OwnRow(t)'
      BY <1>1, <1>2, <2>1, <2>2, <2>3, <2>4, <3>1, <3>2 DEF OwnRow, At, Exists
    <3>4. ASSUME NEW u \in Tx \ {t} PROVE OwnRow(u)'
      <4>1. my'[u] = my[u] /\ pc'[u] = pc[u] /\ OwnRow(u)
        BY <2>2, <2>3 DEF IInv, RowsOwned
      <4>2. my[u].kind = "patch" => code'[my[u].row] # 0
        BY <1>2, <2>4, <3>2, <4>1 DEF OwnRow
      <4>. QED  BY <2>1, <3>1, <3>2, <4>1, <4>2 DEF OwnRow, At
    <3>. QED  BY <3>3, <3>4 DEF RowsOwned
  <2>10. SameRequests
    BY <2>2 DEF SameRequests
  <2>11. AllMeet'
    <3>1. UnderWay' = UnderWay
      BY <1>2, <2>3 DEF UnderWay, Ended
    <3>2. \A a, b \in Tx : Overlap(a, b)' <=> Overlap(a, b)
      BY <2>2 DEF Overlap
    <3>. QED  BY <3>1, <3>2 DEF IInv, AllMeet, UnderWay
  <2>12. \A x \in Rows : x = r \/ Excused(x) => Excused(x)'
    <3>1. Excused(r)'
      BY <1>2, <2>2, <2>4 DEF Excused
    <3>2. ASSUME NEW x \in Rows \ {r}, Excused(x) PROVE Excused(x)'
      BY <2>2, <2>4, <2>10, <3>2, ExcuseKept DEF IInv
    <3>. QED  BY <2>2, <3>1, <3>2
  <2>13. SetCovers'
    BY <1>1, <2>2, <2>3, <2>4, <2>12 DEF IInv, SetCovers, At
  <2>14. Reached'
    <3>1. \A u \in Tx : ~At(u, "new") /\ Adjusted(u) => Adjusted(u)'
      BY <2>10, AdjustedKept DEF IInv
    <3>. QED  BY <1>3, <2>1, <2>2, <2>3, <3>1 DEF IInv, Reached, Seen, At
  <2>15. CodesCovered'
    BY <2>1, <2>4, <2>12 DEF IInv, CodesCovered
  <2>. QED  BY <2>5, <2>6, <2>7, <2>8, <2>9, <2>11, <2>13, <2>14, <2>15 DEF IInv
<1>. QED  BY <1>5, <1>6, <1>7

\* The PATCH of an invoice: what it brings here is late for good, what leaves
\* has no number here any more.
LEMMA MovingStep ==
    ASSUME IInv, NEW t \in Tx, PatchInvoice(t)
    PROVE  IInv'
<1>0. PICK r : r = my[t].row
  OBVIOUS
<1>1. PICK place, number :
        /\ place \in {"here", "other series", "outside"} /\ number \in Numbers
        /\ code' = [code EXCEPT ![r] = IF place = "outside" THEN 0
                                       ELSE IF r \in outside THEN number ELSE code[r]]
        /\ outside' = IF place = "outside" THEN outside \cup {r} ELSE outside \ {r}
        /\ strayed' = IF place = "other series" THEN strayed \cup {r} ELSE strayed \ {r}
        /\ my' = [my EXCEPT ![t].late = r \in outside \cup strayed /\ place # "outside"]
  BY <1>0 DEF PatchInvoice
<1>2. /\ At(t, "move") /\ pc' = [pc EXCEPT ![t] = "done"]
      /\ UNCHANGED << type, counter, holder, voided, closed >>
  BY DEF PatchInvoice, Go
<1> DEFINE n == IF place = "outside" THEN 0 ELSE IF r \in outside THEN number ELSE code[r]
           late == r \in outside \cup strayed /\ place # "outside"
<1>3. /\ my \in [Tx -> Requests] /\ my[t] \in Requests /\ r \in Rows
      /\ my[t].kind = "move" /\ t \in UnderWay /\ ~my[t].wrote /\ ~my[t].late
      /\ code \in [Rows -> Nat] /\ counter \in Nat /\ type = "NFE" /\ Exists(r)
      /\ pc \in [Tx -> Labels] /\ KindAt(t)
  BY <1>0, <1>2 DEF IInv, Shape, KindsAgree, KindAt, WritesAgree, WroteAt, RowsOwned, OwnRow,
     At, UnderWay, Ended, Before
<1>4. number \in Nat \ {0} /\ code[r] \in Nat /\ n \in Nat /\ late \in BOOLEAN
  BY <1>1, <1>3, CodesAssumption
<1>5. holder # t
  BY <1>2, CodesAssumption DEF IInv, HolderRaises, At, Before
<1>6. /\ code'[r] = n /\ \A x \in Rows \ {r} : code'[x] = code[x]
      /\ \A x : x # r => (x \in outside' <=> x \in outside) /\ (x \in strayed' <=> x \in strayed)
  BY <1>1, <1>3
<1>7. /\ r \in outside' <=> place = "outside"
      /\ r \in strayed' <=> place = "other series"
  BY <1>1
<1>8. Exists(r)'
  <2>1. CASE place = "outside"
    BY <1>7, <2>1 DEF Exists
  <2>2. CASE place # "outside"
    BY <1>3, <1>4, <1>6, <2>2 DEF Exists
  <2>. QED  BY <2>1, <2>2
<1>9. /\ my' \in [Tx -> Requests] /\ \A u \in Tx \ {t} : my'[u] = my[u]
      /\ my'[t].kind = "move" /\ my'[t].row = r /\ my'[t].number = my[t].number
      /\ my'[t].top = my[t].top /\ my'[t].value = my[t].value /\ my'[t].late = late
      /\ my'[t].met = my[t].met /\ my'[t].wrote = my[t].wrote
  BY <1>0, <1>1, <1>3, <1>4 DEF Requests
<1>10. /\ pc'[t] = "done" /\ \A u \in Tx \ {t} : pc'[u] = pc[u]
       /\ pc' \in [Tx -> Labels]
  BY <1>2, <1>3 DEF Labels, Ended
<1>11. code'[r] # 0 => code'[r] = code[r] \/ late
  BY <1>4, <1>6
<1> HIDE DEF n, late
<1>12. Shape' /\ Placed'
  <2>1. code' \in [Rows -> Nat]
    BY <1>1, <1>3, <1>4 DEF n
  <2>2. outside' \subseteq Rows /\ strayed' \subseteq Rows
    BY <1>1, <1>3 DEF IInv, Shape
  <2>3. \A x \in outside' : code'[x] = 0 /\ x \notin strayed'
    BY <1>3, <1>6, <1>7, <2>2 DEF IInv, Placed, n
  <2>. QED  BY <1>2, <1>3, <1>9, <1>10, <2>1, <2>2, <2>3 DEF IInv, Shape, Placed
<1>13. HolderRaises'
  BY <1>2, <1>5, <1>9, <1>10, CodesAssumption DEF IInv, Shape, HolderRaises, UnderWay
<1>14. KindsAgree'
  <2>1. KindAt(t)'
    BY <1>3, <1>9, <1>10 DEF KindAt, At, Before
  <2>. QED  BY <1>9, <1>10, <2>1 DEF IInv, KindsAgree, KindAt, At
<1>15. WritesAgree'
  BY <1>2, <1>9, <1>10 DEF IInv, WritesAgree, WroteAt, At, Before
<1>16. RowsOwned'
  <2>1. \A x \in Rows : x # r => (Exists(x)' <=> Exists(x))
    BY <1>6 DEF Exists
  <2>2. \A u \in Tx : u \in Rows /\ (~At(u, "new") => my[u].row \in Rows)
                      /\ (my[u].kind \in {"patch", "move"} => ~At(u, "new"))
    BY DEF IInv, KindsAgree, KindAt, Rows, Idle
  <2>3. ~Exists(t) /\ r # t
    BY <1>0, <1>2, <1>3 DEF IInv, RowsOwned, OwnRow, At
  <2>4. OwnRow(t)'
    BY <1>2, <1>3, <1>8, <1>9, <1>10, <2>1, <2>2, <2>3 DEF OwnRow, At
  <2>5. ASSUME NEW u \in Tx \ {t} PROVE OwnRow(u)'
    <3>1. my'[u] = my[u] /\ pc'[u] = pc[u] /\ OwnRow(u)
      BY <1>9, <1>10 DEF IInv, RowsOwned
    <3>2. my[u].kind # "patch"
      BY <1>3, <3>1 DEF OwnRow, Coded
    <3>3. my[u].kind = "move" => Exists(my[u].row)'
      BY <1>8, <2>1, <2>2, <3>1 DEF OwnRow
    <3>4. Exists(u)' => Exists(u)
      BY <1>3, <2>1, <2>2
    <3>. QED  BY <1>2, <3>1, <3>2, <3>3, <3>4 DEF OwnRow, At
  <2>. QED  BY <2>4, <2>5 DEF RowsOwned
<1>17. SameRequests
  BY <1>0, <1>3, <1>9 DEF SameRequests
<1>18. AllMeet'
  BY <1>9, <1>10 DEF IInv, AllMeet, Overlap, UnderWay, Ended
<1>19. \A x \in Rows : Excused(x) => Excused(x)'
  <2> SUFFICES ASSUME NEW x \in Rows, Excused(x) PROVE Excused(x)'
    OBVIOUS
  <2>1. \A u \in Tx : my[u].late => u # t /\ my'[u] = my[u] /\ my[u].kind # "patch"
    BY <1>3, <1>9 DEF IInv, RowsOwned, OwnRow, Coded
  <2>. QED  BY <1>17, <2>1, ExcuseKept DEF IInv
<1>20. code'[r] = 0 \/ code'[r] = code[r] \/ Excused(r)'
  BY <1>9, <1>11 DEF Excused
<1>21. ASSUME NEW m \in Nat, \A x \in Rows : code[x] <= m \/ Excused(x)
       PROVE  \A x \in Rows : code'[x] <= m \/ Excused(x)'
  <2> SUFFICES ASSUME NEW x \in Rows PROVE code'[x] <= m \/ Excused(x)'
    OBVIOUS
  <2>1. CASE x = r
    BY <1>3, <1>19, <1>20, <1>21, <2>1
  <2>2. CASE x # r
    BY <1>6, <1>19, <1>21, <2>2
  <2>. QED  BY <2>1, <2>2
<1>22. SetCovers'
  <2> SUFFICES ASSUME NEW u \in Tx, At(u, "set")'
               PROVE  \A x \in Rows : code'[x] <= my'[u].number \/ Excused(x)'
    BY DEF SetCovers
  <2>1. u # t /\ my'[u] = my[u] /\ At(u, "set") /\ my[u].number \in Nat
    BY <1>3, <1>9, <1>10 DEF At, Requests
  <2>. QED  BY <1>21, <2>1 DEF IInv, SetCovers
<1>23. Reached'
  <2>1. \A u \in Tx : ~At(u, "new") /\ Adjusted(u) => Adjusted(u)'
    BY <1>17, AdjustedKept DEF IInv
  <2>. QED  BY <1>2, <1>9, <1>10, <2>1 DEF IInv, Reached, Seen, At
<1>24. CodesCovered'
  BY <1>2, <1>3, <1>21 DEF IInv, CodesCovered
<1>. QED  BY <1>12, <1>13, <1>14, <1>15, <1>16, <1>18, <1>22, <1>23, <1>24 DEF IInv

\* A request arrives and meets those under way.
LEMMA StartingStep ==
    ASSUME IInv, NEW t \in Tx, Start(t)
    PROVE  IInv'
<1>1. PICK k \in Kinds, n \in Numbers, m \in Numbers, r \in Rows :
        /\ IF k \in {"patch", "move"} THEN Exists(r) ELSE r = t
        /\ n <= m /\ (k # "void" => n = m)
        /\ my' = [my EXCEPT ![t] = [Idle EXCEPT
                    !.kind = k, !.row = r, !.number = IF k \in {"draw", "move"} THEN 0 ELSE n,
                    !.top = IF k \in {"draw", "move"} THEN 0 ELSE m, !.met = UnderWay]]
        /\ Go(t, CASE k = "draw" -> "next"
                   [] k = "adjust" -> "read"
                   [] OTHER -> "check")
  BY DEF Start
<1>2. /\ At(t, "new") /\ t \notin UnderWay /\ UnderWay \subseteq Tx /\ my[t] = Idle
      /\ UNCHANGED << type, counter, holder, code, outside, strayed, voided, closed >>
  BY DEF Start, OnlyRequest, places, UnderWay, At, IInv, KindsAgree, KindAt
<1> DEFINE req == [Idle EXCEPT !.kind = k, !.row = r,
                               !.number = IF k \in {"draw", "move"} THEN 0 ELSE n,
                               !.top = IF k \in {"draw", "move"} THEN 0 ELSE m,
                               !.met = UnderWay]
           label == CASE k = "draw" -> "next" [] k = "adjust" -> "read" [] OTHER -> "check"
<1>3. /\ k \in AllKinds /\ n \in Nat \ {0} /\ m \in Nat
      /\ k = "patch" => type \in Coded
      /\ k = "move" => type = "NFE"
  BY CodesAssumption DEF Kinds, AllKinds
<1>4. /\ req \in Requests /\ req.kind = k /\ req.row = r /\ ~req.late /\ ~req.wrote
      /\ k \in {"informed", "patch"} => req.top = req.number
      /\ k = "patch" => req.number = n
      /\ req.met = UnderWay
  BY <1>1, <1>2, <1>3 DEF Idle, Requests
<1>5. /\ label \in {"next", "read", "check"} /\ label \in Labels /\ label \notin Ended
      /\ label = "next" <=> k = "draw"
      /\ label = "read" <=> k = "adjust"
  BY <1>3 DEF Labels, Ended, AllKinds
<1>6. my' = [my EXCEPT ![t] = req] /\ pc' = [pc EXCEPT ![t] = label]
  BY <1>1 DEF Go
<1> HIDE DEF req, label
<1>7. /\ my'[t] = req /\ pc'[t] = label
      /\ \A u \in Tx \ {t} : my'[u] = my[u] /\ pc'[u] = pc[u]
  BY <1>6 DEF IInv, Shape
<1>8. Shape' /\ Placed'
  <2>1. my' \in [Tx -> Requests] /\ pc' \in [Tx -> Labels]
    BY <1>4, <1>5, <1>6 DEF IInv, Shape
  <2>. QED  BY <1>2, <2>1 DEF IInv, Shape, Placed
<1>9. HolderRaises'
  BY <1>2, <1>7, CodesAssumption DEF IInv, Shape, HolderRaises, UnderWay
<1>10. KindsAgree'
  <2>1. KindAt(t)'
    BY <1>1, <1>4, <1>5, <1>7 DEF KindAt, At
  <2>. QED  BY <1>7, <2>1 DEF IInv, KindsAgree, KindAt, At
<1>11. WritesAgree'
  <2>1. WroteAt(t)'
    BY <1>4, <1>5, <1>7 DEF WroteAt, At
  <2>. QED  BY <1>2, <1>7, <2>1 DEF IInv, WritesAgree, WroteAt, At
<1>12. RowsOwned'
  <2>1. ~Exists(t)
    BY <1>2 DEF IInv, RowsOwned, OwnRow, At
  <2>2. \A x : Exists(x)' <=> Exists(x)
    BY <1>2 DEF Exists
  <2>3. k = "patch" => outside = {}
    BY <1>3 DEF IInv, Placed, Coded
  <2>4. OwnRow(t)'
    BY <1>1, <1>2, <1>3, <1>4, <1>5, <1>7, <2>1, <2>2, <2>3 DEF OwnRow, At, Exists
  <2>5. \A u \in Tx \ {t} : OwnRow(u)'
    BY <1>2, <1>7, <2>2 DEF IInv, RowsOwned, OwnRow, At
  <2>. QED  BY <2>4, <2>5 DEF RowsOwned
<1>13. AllMeet'
  BY <1>2, <1>4, <1>7 DEF IInv, AllMeet, Overlap, UnderWay
<1>14. SameRequests
  BY <1>2, <1>7 DEF SameRequests
<1>15. \A x \in Rows : Excused(x) => Excused(x)'
  <2>1. ~my[t].late
    BY <1>2 DEF Idle
  <2>. QED  BY <1>2, <1>7, <1>14, <2>1, ExcuseKept DEF IInv
<1>16. SetCovers'
  BY <1>2, <1>5, <1>7, <1>15 DEF IInv, SetCovers, At
<1>17. Reached'
  <2>1. \A u \in Tx : ~At(u, "new") /\ Adjusted(u) => Adjusted(u)'
    BY <1>14, AdjustedKept DEF IInv
  <2>. QED  BY <1>2, <1>5, <1>7, <2>1 DEF IInv, Reached, Seen, At
<1>18. CodesCovered'
  BY <1>2, <1>15 DEF IInv, CodesCovered
<1>. QED  BY <1>8, <1>9, <1>10, <1>11, <1>12, <1>13, <1>16, <1>17, <1>18 DEF IInv

\* The sequence is set by hand: who is under way with it has met it.
LEMMA SettingStep ==
    ASSUME IInv, NEW t \in Tx, SetSequence(t)
    PROVE  IInv'
<1>1. /\ At(t, "set") /\ holder = Free /\ counter' = my[t].number
      /\ pc' = [pc EXCEPT ![t] = "done"]
      /\ UNCHANGED << type, holder, code, outside, strayed, voided, closed, my >>
  BY DEF SetSequence, Go, places
<1>2. /\ my[t].number \in Nat /\ t \in UnderWay /\ pc'[t] = "done"
      /\ pc' \in [Tx -> Labels]
      /\ my[t].kind = "adjust" /\ ~Exists(t)
      /\ \A u \in Tx \ {t} : pc'[u] = pc[u]
  <2>1. my[t].number \in Nat /\ pc \in [Tx -> Labels] /\ "done" \in Labels
    BY DEF IInv, Shape, Requests, Labels, Ended
  <2>2. my[t].kind = "adjust" /\ ~Exists(t)
    BY <1>1 DEF IInv, KindsAgree, KindAt, RowsOwned, OwnRow, At
  <2>. QED  BY <1>1, <2>1, <2>2 DEF UnderWay, Ended, At
<1>3. Shape' /\ Placed'
  BY <1>1, <1>2 DEF IInv, Shape, Placed
<1>4. HolderRaises'
  BY <1>1 DEF HolderRaises
<1>5. KindsAgree' /\ WritesAgree' /\ RowsOwned'
  <2>1. KindsAgree'
    BY <1>1, <1>2 DEF IInv, KindsAgree, KindAt, At, Before
  <2>2. WritesAgree'
    BY <1>1, <1>2 DEF IInv, WritesAgree, WroteAt, At, Before
  <2>3. RowsOwned'
    BY <1>1, <1>2 DEF IInv, RowsOwned, OwnRow, Exists, At
  <2>. QED  BY <2>1, <2>2, <2>3
<1>6. AllMeet'
  BY <1>1, <1>2 DEF IInv, AllMeet, Overlap, UnderWay, Ended
<1>7. SameRequests
  BY <1>1 DEF SameRequests
<1>8. \A x \in Rows : Excused(x) => Excused(x)'
  BY <1>1, <1>7, ExcuseKept DEF IInv
<1>9. SetCovers'
  BY <1>1, <1>2, <1>8 DEF IInv, SetCovers, At
<1>10. Reached'
  <2> SUFFICES ASSUME NEW u \in Tx, pc'[u] \in {"inspect", "insert", "commit"}
               PROVE  Adjusted(u)'
    BY DEF Reached
  <2>1. u # t /\ u \in UnderWay /\ ~At(u, "new")
    BY <1>2 DEF UnderWay, Ended, At
  <2>2. Adjusted(u)
    BY <1>2, <2>1, MeetsAdjusts DEF IInv
  <2>. QED  BY <1>7, <2>1, <2>2, AdjustedKept DEF IInv
<1>11. CodesCovered'
  BY <1>1, <1>8 DEF IInv, SetCovers, CodesCovered
<1>. QED  BY <1>3, <1>4, <1>5, <1>6, <1>9, <1>10, <1>11 DEF IInv

\* A transaction commits: the sequence rises to what it has seen.
LEMMA CommittingStep ==
    ASSUME IInv, NEW t \in Tx, Commit(t)
    PROVE  IInv'
<1> DEFINE n == my[t].number
           r == my[t].row
           stores == (my[t].kind \in {"draw", "informed"} \/ type = "MEMBRO")
                        /\ my[t].kind # "void"
<1>1. /\ At(t, "commit") /\ counter' = Seen(t)
      /\ code' = IF stores THEN [code EXCEPT ![r] = n] ELSE code
      /\ my' = [my EXCEPT ![t].late = FALSE]
      /\ pc' = [pc EXCEPT ![t] = "done"]
      /\ holder' = IF holder = t THEN Free ELSE holder
      /\ UNCHANGED << type, outside, strayed >>
  BY DEF Commit, End, Go, places
<1>2. IF my[t].kind = "void"
      THEN /\ voided' = voided \cup {<< n, my[t].top >>}
           /\ closed' = closed \cup my[t].found
      ELSE UNCHANGED << voided, closed >>
  BY DEF Commit
<1>3. /\ my \in [Tx -> Requests] /\ my[t] \in Requests /\ n \in Nat /\ r \in Rows
      /\ my[t].top \in Nat /\ my[t].found \in SUBSET Rows /\ t \in UnderWay
      /\ code \in [Rows -> Nat] /\ KindAt(t)
      /\ my[t].kind \in {"draw", "informed", "patch", "void"} /\ OwnRow(t) /\ ~At(t, "new")
      /\ code[t] = 0 /\ t \notin outside
  BY <1>1 DEF IInv, Shape, KindsAgree, KindAt, Requests, At, UnderWay, Ended, RowsOwned, OwnRow,
     Exists
<1>4. Seen(t) \in Nat /\ counter \in Nat /\ Seen(t) >= counter
  BY CodesAssumption DEF IInv, Shape, HolderRaises, Seen, Requests
<1>5. my[t].kind # "void" => n <= Seen(t) \/ Adjusted(t)
  BY <1>1 DEF IInv, Reached, At
<1>6. /\ my' \in [Tx -> Requests] /\ \A u \in Tx \ {t} : my'[u] = my[u] /\ pc'[u] = pc[u]
      /\ my'[t].kind = my[t].kind /\ my'[t].row = r /\ my'[t].number = n
      /\ my'[t].top = my[t].top /\ my'[t].value = my[t].value /\ ~my'[t].late
      /\ my'[t].met = my[t].met /\ my'[t].wrote = my[t].wrote
      /\ pc'[t] = "done" /\ pc' \in [Tx -> Labels]
  BY <1>1, <1>3 DEF IInv, Shape, Requests, Labels, Ended
<1>7. /\ stores => code'[r] = n
      /\ \A x \in Rows : x # r \/ ~stores => code'[x] = code[x]
      /\ stores => my[t].kind # "void"
      /\ stores => r \notin outside
  <2>1. my[t].kind = "patch" => type # "NFE"
    BY <1>3 DEF OwnRow, Coded
  <2>2. stores => r \notin outside
    BY <1>3, <2>1 DEF OwnRow, IInv, Placed
  <2>. QED  BY <1>1, <1>3, <2>2
<1> HIDE DEF stores
<1>8. Shape' /\ Placed'
  <2>1. code' \in [Rows -> Nat]
    BY <1>1, <1>3
  <2>2. voided' \subseteq Nat \X Nat /\ closed' \subseteq Rows
    BY <1>2, <1>3 DEF IInv, Shape
  <2>3. Placed'
    BY <1>1, <1>7 DEF IInv, Shape, Placed
  <2>. QED  BY <1>1, <1>4, <1>6, <2>1, <2>2, <2>3 DEF IInv, Shape
<1>9. HolderRaises'
  <2>1. holder # t /\ holder # Free => counter' = counter
    BY <1>1 DEF Seen
  <2>. QED  BY <1>1, <1>6, <2>1, CodesAssumption DEF IInv, Shape, HolderRaises, UnderWay
<1>10. KindsAgree' /\ WritesAgree'
  <2>1. KindsAgree'
    BY <1>3, <1>6 DEF IInv, KindsAgree, KindAt, At, Before
  <2>2. WritesAgree'
    BY <1>1, <1>6 DEF IInv, WritesAgree, WroteAt, At, Before
  <2>. QED  BY <2>1, <2>2
<1>11. RowsOwned'
  <2>1. \A x \in Rows : \/ (code'[x] # 0 <=> code[x] # 0)
                        \/ x = t /\ my[t].kind \in {"draw", "informed"}
    <3>1. CASE stores /\ my[t].kind = "patch"
      BY <1>3, <1>7, <3>1 DEF OwnRow
    <3>2. CASE stores /\ my[t].kind # "patch"
      BY <1>3, <1>7, <3>2 DEF OwnRow
    <3>3. CASE ~stores
      BY <1>7, <3>3
    <3>. QED  BY <3>1, <3>2, <3>3
  <2>2. \A u \in Tx : u \in Rows /\ (~At(u, "new") => my[u].row \in Rows)
                      /\ (my[u].kind \in {"patch", "move"} => ~At(u, "new"))
    BY DEF IInv, KindsAgree, KindAt, Rows, Idle
  <2>3. \A x \in Rows : x # t => (Exists(x)' <=> Exists(x)) /\ (code'[x] # 0 <=> code[x] # 0)
    BY <1>1, <2>1 DEF Exists
  <2>4. \A u \in Tx : my[u].kind \in {"patch", "move"} => my[u].row # t
    BY <1>3 DEF IInv, RowsOwned, OwnRow, Exists
  <2>5. Exists(t)' => my[t].kind \in {"draw", "informed"}
    BY <1>1, <1>3, <2>1, <2>2 DEF Exists
  <2>6. OwnRow(t)'
    BY <1>1, <1>3, <1>6, <2>2, <2>3, <2>4, <2>5 DEF OwnRow, At
  <2>7. ASSUME NEW u \in Tx \ {t} PROVE OwnRow(u)'
    <3>1. my'[u] = my[u] /\ pc'[u] = pc[u] /\ OwnRow(u)
      BY <1>6 DEF IInv, RowsOwned
    <3>. QED  BY <1>1, <2>2, <2>3, <2>4, <3>1 DEF OwnRow, At
  <2>. QED  BY <2>6, <2>7 DEF RowsOwned
<1>12. AllMeet'
  BY <1>6 DEF IInv, AllMeet, Overlap, UnderWay, Ended
<1>13. SameRequests
  BY <1>3, <1>6 DEF SameRequests
<1>14. \A u \in Tx : ~At(u, "new") /\ Adjusted(u) => Adjusted(u)'
  BY <1>13, AdjustedKept DEF IInv
<1>15. \A x \in Rows : x # r \/ ~stores => (Excused(x) =>
           \/ Excused(x)'
           \/ /\ my[t].late /\ my[t].row = x /\ my[t].kind = "patch" /\ n = code[x]
              /\ n <= counter')
  <2> SUFFICES ASSUME NEW x \in Rows, x # r \/ ~stores, Excused(x)
               PROVE  \/ Excused(x)'
                      \/ /\ my[t].late /\ my[t].row = x /\ my[t].kind = "patch" /\ n = code[x]
                         /\ n <= counter'
    OBVIOUS
  <2>1. code'[x] = code[x]
    BY <1>7
  <2>2. CASE my[t].late /\ my[t].row = x /\ my[t].kind = "patch" /\ n = code[x]
    <3>1. CASE n <= Seen(t)
      BY <1>1, <2>2, <3>1
    <3>2. CASE Adjusted(t)
      BY <1>3, <1>6, <1>14, <2>2, <3>2 DEF Excused
    <3>. QED  BY <1>5, <2>2, <3>1, <3>2
  <2>3. CASE ~(my[t].late /\ my[t].row = x /\ my[t].kind = "patch" /\ n = code[x])
    <3>1. my[t].late => my[t].kind = "patch"
      BY <1>3 DEF KindAt
    <3>. QED  BY <1>6, <1>13, <2>1, <2>3, <3>1, ExcuseKept DEF IInv
  <2>. QED  BY <2>2, <2>3
<1>16. SetCovers'
  <2> SUFFICES ASSUME NEW u \in Tx, At(u, "set")', NEW x \in Rows
               PROVE  code'[x] <= my'[u].number \/ Excused(x)'
    BY DEF SetCovers
  <2>1. u # t /\ At(u, "set") /\ my'[u] = my[u] /\ u \in UnderWay /\ my[u].kind = "adjust"
    BY <1>6 DEF At, IInv, KindsAgree, KindAt, UnderWay, Ended
  <2>2. Adjusted(t)'
    BY <1>3, <1>14, <2>1, MeetsAdjusts DEF IInv
  <2>3. CASE x = r
    BY <1>6, <2>2, <2>3 DEF Excused
  <2>4. CASE x # r
    BY <1>7, <1>15, <2>1, <2>4 DEF IInv, SetCovers
  <2>. QED  BY <2>3, <2>4
<1>17. Reached'
  <2> SUFFICES ASSUME NEW u \in Tx, my'[u].kind # "void",
                      pc'[u] \in {"inspect", "insert", "commit"}
               PROVE  my'[u].number <= Seen(u)' \/ Adjusted(u)'
    BY DEF Reached
  <2>1. u # t /\ my'[u] = my[u] /\ ~At(u, "new") /\ (my[u].number <= Seen(u) \/ Adjusted(u))
    BY <1>6 DEF IInv, Reached, At
  <2>2. my[u].number \in Nat
    BY DEF IInv, Shape, Requests
  <2>3. CASE holder = u
    BY <1>1, <1>14, <2>1, <2>3, CodesAssumption DEF Seen
  <2>4. CASE holder # u
    <3>1. holder' # u
      BY <1>1, <2>1, <2>4, CodesAssumption
    <3>. QED  BY <1>1, <1>4, <1>14, <2>1, <2>2, <2>4, <3>1 DEF Seen
  <2>. QED  BY <2>3, <2>4
<1>18. CodesCovered'
  <2> SUFFICES ASSUME NEW x \in Rows
               PROVE  code'[x] <= counter' \/ Excused(x)'
    BY DEF CodesCovered
  <2>1. CASE stores /\ x = r
    <3>1. code'[x] = n /\ (n <= Seen(t) \/ Adjusted(t))
      BY <1>5, <1>7, <2>1
    <3>2. CASE Adjusted(t)
      BY <1>3, <1>6, <1>14, <2>1, <3>2 DEF Excused
    <3>. QED  BY <1>1, <3>1, <3>2
  <2>2. CASE ~(stores /\ x = r)
    <3>1. code'[x] = code[x] /\ code[x] \in Nat
      BY <1>3, <1>7, <2>2
    <3>2. CASE code[x] <= counter
      BY <1>1, <1>4, <3>1, <3>2
    <3>3. CASE Excused(x)
      BY <1>15, <2>2, <3>1, <3>3
    <3>. QED  BY <3>2, <3>3 DEF IInv, CodesCovered
  <2>. QED  BY <2>1, <2>2
<1>. QED  BY <1>8, <1>9, <1>10, <1>11, <1>12, <1>16, <1>17, <1>18 DEF IInv

-----------------------------------------------------------------------------
LEMMA StepKeepsInvariant == IInv /\ [Next]_vars => IInv'
<1> SUFFICES ASSUME IInv, [Next]_vars PROVE IInv'
  OBVIOUS
<1>1. ASSUME NEW t \in Tx, RequestStep(t) PROVE IInv'
  BY <1>1, SequenceSteps, ReadingSteps, PlainSteps, InsertingStep, PatchingStep, MovingStep,
     CommittingStep, SettingStep DEF RequestStep
<1>2. CASE UNCHANGED vars
  <2>1. Shape' /\ Placed' /\ HolderRaises' /\ KindsAgree' /\ WritesAgree'
    BY <1>2 DEF vars, places, IInv, Shape, Placed, HolderRaises, UnderWay, KindsAgree, KindAt, At,
       WritesAgree, WroteAt
  <2>2. RowsOwned' /\ AllMeet'
    BY <1>2 DEF vars, places, IInv, RowsOwned, OwnRow, Exists, AllMeet, Overlap, UnderWay, At
  <2>3. /\ \A r : Excused(r)' <=> Excused(r)
        /\ \A t : Adjusted(t)' <=> Adjusted(t)
    BY <1>2 DEF vars, Excused, Adjusted, Overlap
  <2>4. SetCovers' /\ Reached' /\ CodesCovered'
    BY <1>2, <2>3 DEF vars, IInv, SetCovers, Reached, CodesCovered, Seen, At
  <2>. QED  BY <2>1, <2>2, <2>4 DEF IInv
<1>. QED  BY <1>1, <1>2, StartingStep, PlainSteps DEF Next

\* The strengthened invariant: whoever holds the sequence has raised it, no code
\* on its way to a row is above what its transaction sees of the sequence, and
\* what an update by hand is about to set covers every code, but where a patch
\* stored one ahead of its floor or a request met an update by hand.
THEOREM Inductive == Spec => []IInv
<1>. QED  BY InitInvariant, StepKeepsInvariant, PTL DEF Spec

\* resolveEntityCode, nextNfeNumber and the patches: the sequence covers every
\* code, but for a product whose patch has not raised its floor, an invoice that
\* a PATCH moved here, and what was stored while the sequence was set by hand.
THEOREM SequenceCoversCodes == Spec => []CounterCoversCodes
<1>1. IInv => CounterCoversCodes
  BY DEF IInv, CodesCovered, Excused, CounterCoversCodes, Disturbed
<1>. QED  BY <1>1, Inductive, PTL

\* The state is well typed; the sequence is held by a request under way that
\* has raised it, so that it never falls but by an update by hand.
THEOREM TypeCorrect == Spec => []TypeOK
<1>1. IInv => TypeOK
  BY CodesAssumption DEF IInv, Shape, Placed, HolderRaises, KindsAgree, KindAt, TypeOK
<1>. QED  BY <1>1, Inductive, PTL

-----------------------------------------------------------------------------
(***************************************************************************)
(* The numbers that the sequence gives out differ.  Where a unique index   *)
(* keeps the codes apart, no two rows ever have the same one; of two       *)
(* invoices with the same number one was numbered by hand while the other  *)
(* was being created, or was moved there by a PATCH, or one was numbered   *)
(* while the sequence was being set by hand.                               *)
(***************************************************************************)

\* A PATCH moved the invoice r to this sequence, with the number it had.
MovedHere(r) == \E t \in Tx : my[t].row = r /\ my[t].kind = "move" /\ my[t].late

\* The unique index keeps the committed codes apart, and what is not committed
\* yet from those and from one another.
CodesDiffer ==
    type # "NFE" => \A r, x \in Rows : r # x /\ code[r] = code[x] => code[r] = 0
PendingApart ==
    type # "NFE" =>
        \A t \in Tx : Pending(t) =>
            /\ Holders(my[t].number) \ {my[t].row} = {}
            /\ \A u \in Tx \ {t} : Pending(u) => /\ my[u].number # my[t].number
                                                 /\ my[u].row # my[t].row

\* What was drawn and is not committed is ahead of the sequence.
DrawnAhead ==
    \A t \in Tx :
        my[t].kind = "draw" /\ pc[t] \in {"inspect", "insert", "commit"} =>
            holder = t /\ my[t].number > counter

\* The number that an invoice is given by hand was free: who has it came later,
\* or a PATCH moved it there.
HandsMeet ==
    type = "NFE" =>
        \A t \in Tx :
            my[t].kind = "informed" /\ pc[t] \in {"floor", "insert", "commit"} =>
                \A a \in Rows \ {t} : code[a] # 0 /\ code[a] = my[t].number =>
                    MovedHere(a) \/ (a \in Tx /\ Overlap(a, t))

NInv ==
    /\ IInv
    /\ CodesDiffer
    /\ PendingApart
    /\ DrawnAhead
    /\ HandsMeet
    /\ NumbersCollideOnlyByHand

-----------------------------------------------------------------------------
\* An invoice that was moved stays moved, and what disturbs an invoice does so
\* for good: their requests are over.
LEMMA MovedKept ==
    ASSUME IInv, NEW t \in Tx, t \in UnderWay \/ At(t, "new"),
           \A u \in Tx \ {t} : my'[u] = my[u], NEW r, MovedHere(r)
    PROVE  MovedHere(r)'
<1>1. PICK u \in Tx : my[u].row = r /\ my[u].kind = "move" /\ my[u].late
  BY DEF MovedHere
<1>2. KindAt(u) /\ pc[u] \in Labels
  BY DEF IInv, KindsAgree, Shape
<1>3. pc[u] \in Ended
  <2>1. pc[u] # "new"
    BY <1>1, <1>2 DEF KindAt, Idle, At
  <2>2. pc[u] \notin {"next", "inspect", "insert", "collect", "floor", "commit"} \cup Before
    BY <1>1, <1>2 DEF KindAt, Before, At
  <2>. QED  BY <1>2, <2>1, <2>2 DEF Labels, Before
<1>4. u # t
  BY <1>3 DEF UnderWay, At, Ended
<1>. QED  BY <1>1, <1>4 DEF MovedHere

LEMMA DisturbedKept ==
    ASSUME IInv, type = "NFE", SameRequests, NEW t \in Tx, t \in UnderWay \/ At(t, "new"),
           \A u \in Tx \ {t} : my'[u] = my[u], NEW r \in Rows, Disturbed(r)
    PROVE  Disturbed(r)'
<1>1. PICK u \in Tx : my[u].row = r /\ (my[u].late \/ Adjusted(u))
  BY DEF Disturbed
<1>2. CASE my[u].late
  <2>1. my[u].kind = "move"
    BY <1>2 DEF IInv, KindsAgree, KindAt, RowsOwned, OwnRow, Coded
  <2>2. MovedHere(r)'
    BY <1>1, <1>2, <2>1, MovedKept DEF MovedHere
  <2>. QED  BY <2>2 DEF MovedHere, Disturbed
<1>3. CASE Adjusted(u)
  <2>1. ~At(u, "new")
    BY <1>1, CodesAssumption DEF IInv, KindsAgree, KindAt, Idle, Rows
  <2>2. Adjusted(u)' /\ my'[u].row = r
    BY <1>1, <1>3, <2>1, AdjustedKept DEF IInv, SameRequests
  <2>. QED  BY <2>2 DEF Disturbed
<1>. QED  BY <1>1, <1>2, <1>3

\* Which transactions have an uncommitted code.
LEMMA PendingLabels ==
    ASSUME IInv, NEW t \in Tx
    PROVE  Pending(t) <=> \/ At(t, "commit") /\ my[t].kind \in {"draw", "informed"}
                          \/ /\ pc[t] \in {"floor", "commit"} /\ my[t].kind = "patch"
                             /\ type = "MEMBRO"
<1>1. KindAt(t) /\ WroteAt(t) /\ pc[t] \in Labels /\ my[t].wrote \in BOOLEAN
  BY DEF IInv, KindsAgree, WritesAgree, Shape, Requests
<1>2. Pending(t) => \/ At(t, "commit") /\ my[t].kind \in {"draw", "informed"}
                    \/ /\ pc[t] \in {"floor", "commit"} /\ my[t].kind = "patch"
                       /\ type = "MEMBRO"
  BY <1>1 DEF Pending, UnderWay, KindAt, WroteAt, Labels, Ended, Before, At
<1>3. At(t, "commit") /\ my[t].kind \in {"draw", "informed"} => Pending(t)
  BY <1>1 DEF Pending, UnderWay, WroteAt, Ended, At
<1>4. pc[t] \in {"floor", "commit"} /\ my[t].kind = "patch" /\ type = "MEMBRO" => Pending(t)
  BY <1>1 DEF Pending, UnderWay, WroteAt, Ended
<1>. QED  BY <1>2, <1>3, <1>4

\* Where the index keeps codes apart, no two rows have one.
LEMMA IndexedNumbers ==
    ASSUME CodesDiffer, type # "NFE"
    PROVE  NumbersCollideOnlyByHand
BY DEF CodesDiffer, NumbersCollideOnlyByHand

-----------------------------------------------------------------------------
LEMMA NumbersInit == Init => NInv
<1> SUFFICES ASSUME Init PROVE NInv
  OBVIOUS
<1>1. \A t \in Tx : pc[t] = "new" /\ my[t].kind = "none"
  BY DEF Init, Idle
<1>2. \A r \in Rows : code[r] = IF r \in 1 .. Used THEN r ELSE 0
  BY DEF Init
<1>3. \A r, x \in Rows : r # x /\ code[r] = code[x] => code[r] = 0
  BY <1>2, CodesAssumption
<1>4. CodesDiffer /\ NumbersCollideOnlyByHand
  BY <1>3 DEF CodesDiffer, NumbersCollideOnlyByHand
<1>5. PendingApart /\ DrawnAhead /\ HandsMeet
  BY <1>1 DEF PendingApart, Pending, UnderWay, DrawnAhead, HandsMeet
<1>. QED  BY <1>4, <1>5, InitInvariant DEF NInv

\* A step of a request that touches nothing that is committed; either it writes
\* no code, or the one it writes is apart from the others.
LEMMA QuietStep ==
    ASSUME NInv, IInv', NEW t \in Tx, t \in UnderWay, NEW label \in Labels \ {"new"},
           Go(t, label), OnlyLock, \A u \in Tx \ {t} : my'[u] = my[u],
           my'[t].kind = my[t].kind, my'[t].row = my[t].row, my'[t].met = my[t].met,
           \/ /\ my'[t].wrote = my[t].wrote
              /\ my[t].wrote => my'[t].number = my[t].number
           \/ PendingApart',
           \A u \in Tx \ {t} : holder = u => holder' = u,
           my[t].kind = "draw" /\ label \in {"inspect", "insert", "commit"} =>
               holder' = t /\ my'[t].number > counter,
           type = "NFE" /\ my[t].kind = "informed" /\ label \in {"floor", "insert", "commit"} =>
               \A a \in Rows \ {t} : code[a] # 0 /\ code[a] = my'[t].number =>
                   MovedHere(a) \/ (a \in Tx /\ Overlap(a, t))
    PROVE  NInv'
<1>1. /\ pc' = [pc EXCEPT ![t] = label]
      /\ UNCHANGED << type, counter, code, outside, strayed, voided, closed >>
  BY DEF Go, OnlyLock, places
<1>2. pc'[t] = label /\ \A u \in Tx \ {t} : pc'[u] = pc[u]
  BY <1>1 DEF NInv, IInv, Shape
<1>3. CodesDiffer'
  BY <1>1 DEF NInv, CodesDiffer
<1>4. PendingApart'
  <2>1. CASE PendingApart'
    BY <2>1
  <2>2. CASE /\ my'[t].wrote = my[t].wrote
             /\ my[t].wrote => my'[t].number = my[t].number
    <3>1. \A u \in Tx : Pending(u)' => Pending(u) /\ my'[u].number = my[u].number
                                                   /\ my'[u].row = my[u].row
      BY <1>2, <2>2 DEF Pending, UnderWay
    <3>2. \A n : Holders(n)' = Holders(n)
      BY <1>1 DEF Holders
    <3>. QED  BY <1>1, <3>1, <3>2 DEF NInv, PendingApart
  <2>. QED  BY <2>1, <2>2
<1>5. SameRequests
  BY DEF SameRequests
<1>6. \A u \in Tx : my'[u].met = my[u].met /\ my'[u].kind = my[u].kind
  OBVIOUS
<1>7. DrawnAhead'
  BY <1>1, <1>2 DEF NInv, DrawnAhead
<1>8. HandsMeet'
  <2>1. \A a : MovedHere(a) => MovedHere(a)'
    BY MovedKept DEF NInv
  <2>. QED  BY <1>1, <1>2, <1>6, <2>1 DEF NInv, HandsMeet, Overlap
<1>9. NumbersCollideOnlyByHand'
  <2>1. CASE type # "NFE"
    BY <1>1, <1>3, <2>1, IndexedNumbers DEF CodesDiffer, NumbersCollideOnlyByHand
  <2>2. CASE type = "NFE"
    <3>1. \A r \in Rows : Disturbed(r) => Disturbed(r)'
      BY <1>5, <2>2, DisturbedKept DEF NInv
    <3>. QED  BY <1>1, <1>6, <3>1 DEF NInv, NumbersCollideOnlyByHand, Overlap
  <2>. QED  BY <2>1, <2>2
<1>. QED  BY <1>3, <1>4, <1>7, <1>8, <1>9 DEF NInv

LEMMA QuietSteps ==
    ASSUME NInv, IInv', NEW t \in Tx,
           \/ NextSequence(t) \/ SyncFloor(t) \/ Inspect(t) \/ CheckFree(t) \/ LoadDraft(t)
           \/ CheckRange(t) \/ Collect(t) \/ ReadLastUsed(t) \/ Fail(t)
    PROVE  NInv'
<1>1. /\ my \in [Tx -> Requests] /\ my[t] \in Requests /\ pc \in [Tx -> Labels] /\ Free \notin Tx
      /\ KindAt(t) /\ WroteAt(t) /\ OwnRow(t) /\ counter \in Nat /\ Seen(t) \in Nat
      /\ Seen(t) >= counter
  BY CodesAssumption DEF NInv, IInv, Shape, KindsAgree, WritesAgree, RowsOwned, HolderRaises,
     Seen, Requests
<1>2. /\ {"next", "inspect", "floor", "insert", "write", "move", "collect", "commit", "set",
          "done", "gave up"} \subseteq Labels \ {"new"}
      /\ \A label \in {"next", "inspect", "check", "floor", "collect", "read"} :
            At(t, label) => t \in UnderWay
  BY DEF Labels, Ended, UnderWay, At
<1>3. ASSUME NEW label \in Labels \ {"new"}, t \in UnderWay, Go(t, label), OnlyLock,
             UNCHANGED my, \A u \in Tx \ {t} : holder = u => holder' = u,
             my[t].kind = "draw" /\ label \in {"inspect", "insert", "commit"} =>
                 holder' = t /\ my[t].number > counter,
             type = "NFE" /\ my[t].kind = "informed" /\ label \in {"floor", "insert", "commit"} =>
                 \A a \in Rows \ {t} : code[a] # my[t].number
      PROVE  NInv'
  BY <1>3, QuietStep
<1>4. CASE NextSequence(t)
  <2>1. /\ At(t, "next") /\ MayLock(t) /\ holder' = t /\ Go(t, "inspect") /\ OnlyLock
        /\ my' = [my EXCEPT ![t].value = Seen(t) + 1, ![t].number = Seen(t) + 1,
                            ![t].tries = @ + 1]
    BY <1>4 DEF NextSequence
  <2>2. /\ \A u \in Tx \ {t} : my'[u] = my[u]
        /\ my'[t].number = Seen(t) + 1 /\ my'[t].kind = my[t].kind
        /\ my'[t].row = my[t].row /\ my'[t].met = my[t].met /\ my'[t].wrote = my[t].wrote
    BY <1>1, <2>1 DEF Requests
  <2>3. ~my[t].wrote /\ my[t].kind = "draw"
    BY <1>1, <2>1 DEF At, KindAt, WroteAt
  <2>4. \A u \in Tx \ {t} : holder = u => holder' = u
    BY <1>1, <2>1 DEF MayLock
  <2>5. my'[t].number > counter
    BY <1>1, <2>2
  <2>6. t \in UnderWay
    BY <1>2, <2>1
  <2>. QED  BY <1>2, <2>1, <2>2, <2>3, <2>4, <2>5, <2>6, QuietStep
<1>5. CASE SyncFloor(t)
  <2> DEFINE label == AfterFloor(t)
  <2>1. /\ At(t, "floor") /\ Go(t, label) /\ OnlyLock
        /\ \/ UNCHANGED << holder, my >>
           \/ MayLock(t) /\ holder' = t /\ my' = [my EXCEPT ![t].value = my[t].top]
    BY <1>5 DEF SyncFloor
  <2>2. /\ my[t].kind = "draw" => label = "next"
        /\ my[t].kind = "informed" => label = "insert"
        /\ my[t].kind = "patch" => label = "commit"
        /\ my[t].kind = "void" => label = "collect"
        /\ my[t].kind \in {"draw", "informed", "patch", "void"}
    BY <1>1, <2>1 DEF KindAt, At, AfterFloor
  <2> HIDE DEF label
  <2>3. label \in {"next", "insert", "commit", "collect"}
    BY <2>2
  <2>4. /\ \A u \in Tx \ {t} : my'[u] = my[u]
        /\ my'[t].number = my[t].number /\ my'[t].kind = my[t].kind
        /\ my'[t].row = my[t].row /\ my'[t].met = my[t].met /\ my'[t].wrote = my[t].wrote
    BY <1>1, <2>1 DEF Requests
  <2>5. \A u \in Tx \ {t} : holder = u => holder' = u
    BY <1>1, <2>1 DEF MayLock
  <2>6. type = "NFE" /\ my[t].kind = "informed" =>
            \A a \in Rows \ {t} : code[a] # 0 /\ code[a] = my'[t].number =>
                MovedHere(a) \/ (a \in Tx /\ Overlap(a, t))
    BY <2>1, <2>4 DEF NInv, HandsMeet, At
  <2>. QED  BY <1>2, <2>1, <2>2, <2>3, <2>4, <2>5, <2>6, QuietStep
<1>6. CASE Inspect(t)
  <2>1. At(t, "inspect") /\ OnlyLock /\ my[t].kind = "draw" /\ ~my[t].wrote
    BY <1>1, <1>6 DEF Inspect, KindAt, WroteAt, At
  <2>2. holder = t /\ my[t].number > counter
    BY <2>1 DEF NInv, DrawnAhead, At
  <2>3. CASE End(t, "gave up") /\ UNCHANGED my
    BY <1>2, <1>3, <2>1, <2>2, <2>3 DEF End
  <2>4. ASSUME NEW label \in {"next", "insert"}, Go(t, label), UNCHANGED << holder, my >>
        PROVE  NInv'
    BY <1>2, <1>3, <2>1, <2>2, <2>4
  <2>5. ASSUME NEW r \in Ranges(my[t].number), my' = [my EXCEPT ![t].top = r[2]],
               Go(t, "floor"), UNCHANGED holder
        PROVE  NInv'
    <3>1. /\ \A u \in Tx \ {t} : my'[u] = my[u]
          /\ my'[t].number = my[t].number /\ my'[t].kind = my[t].kind
          /\ my'[t].row = my[t].row /\ my'[t].met = my[t].met /\ my'[t].wrote = my[t].wrote
      BY <1>1, <2>5 DEF Requests
    <3>. QED  BY <1>2, <2>1, <2>2, <2>5, <3>1, QuietStep
  <2>. QED  BY <1>6, <2>3, <2>4, <2>5 DEF Inspect
<1>7. CASE CheckFree(t)
  <2>1. At(t, "check") /\ OnlyRequest /\ UNCHANGED my /\ my[t].kind \in {"informed", "patch"}
    BY <1>7 DEF CheckFree
  <2>2. ASSUME NEW label \in {"done", "floor", "write"}, Go(t, label),
               label = "floor" => /\ my[t].kind = "informed"
                                  /\ Holders(my[t].number) \ {my[t].row} = {}
        PROVE  NInv'
    <3>1. OnlyLock /\ UNCHANGED holder
      BY <2>1 DEF OnlyRequest, OnlyLock
    <3>2. label = "floor" => \A a \in Rows \ {t} : code[a] # my[t].number
      BY <1>1, <2>1, <2>2 DEF Holders, OwnRow, At
    <3>. QED  BY <1>2, <1>3, <2>1, <2>2, <3>1, <3>2
  <2>. QED  BY <1>7, <2>2 DEF CheckFree
<1>8. CASE CheckRange(t) \/ Collect(t)
  <2>1. PICK label \in {"done", "floor", "collect", "commit"} : Go(t, label)
    BY <1>8 DEF CheckRange, Collect
  <2>2. /\ At(t, "check") \/ At(t, "collect")
        /\ OnlyLock /\ UNCHANGED holder /\ my[t].kind = "void" /\ ~my[t].wrote
    BY <1>1, <1>8 DEF CheckRange, Collect, OnlyRequest, OnlyLock, KindAt, WroteAt, At, Before
  <2>3. UNCHANGED my \/ \E found : my' = [my EXCEPT ![t].found = found]
    BY <1>8 DEF CheckRange, Collect
  <2>4. /\ \A u \in Tx \ {t} : my'[u] = my[u]
        /\ my'[t].number = my[t].number /\ my'[t].kind = my[t].kind
        /\ my'[t].row = my[t].row /\ my'[t].met = my[t].met /\ my'[t].wrote = my[t].wrote
    BY <1>1, <2>3 DEF Requests
  <2>. QED  BY <1>2, <2>1, <2>2, <2>4, QuietStep
<1>9. CASE ReadLastUsed(t)
  <2>1. PICK label \in {"done", "set"} : Go(t, label)
    BY <1>9 DEF ReadLastUsed
  <2>2. At(t, "read") /\ OnlyLock /\ UNCHANGED << my, holder >> /\ my[t].kind = "adjust"
    BY <1>1, <1>9 DEF ReadLastUsed, OnlyRequest, OnlyLock, KindAt, At
  <2>. QED  BY <1>2, <1>3, <2>1, <2>2
<1>10. CASE LoadDraft(t)
  <2>1. PICK label \in {"done", "move"} : Go(t, label)
    BY <1>10 DEF LoadDraft
  <2>2. At(t, "check") /\ OnlyLock /\ UNCHANGED << my, holder >> /\ my[t].kind = "move"
    BY <1>10 DEF LoadDraft, OnlyRequest, OnlyLock
  <2>. QED  BY <1>2, <1>3, <2>1, <2>2
<1>11. CASE Fail(t)
  <2>1. t \in UnderWay /\ Go(t, "done") /\ UNCHANGED my /\ OnlyLock
        /\ holder' = IF holder = t THEN Free ELSE holder
    BY <1>11 DEF Fail, End
  <2>. QED  BY <1>2, <1>3, <2>1
<1>. QED  BY <1>4, <1>5, <1>6, <1>7, <1>8, <1>9, <1>10, <1>11

-----------------------------------------------------------------------------
\* The INSERT of a code: the index shows no other row and no other writer of it.
LEMMA InsertStep ==
    ASSUME NInv, IInv', NEW t \in Tx, Insert(t)
    PROVE  NInv'
<1>1. /\ my \in [Tx -> Requests] /\ my[t] \in Requests /\ pc \in [Tx -> Labels] /\ Free \notin Tx
      /\ KindAt(t) /\ OwnRow(t)
  BY CodesAssumption DEF NInv, IInv, Shape, KindsAgree, RowsOwned
<1>2. At(t, "insert") /\ OnlyLock /\ my[t].kind \in {"draw", "informed"}
  BY <1>1 DEF Insert, KindAt, At
<1>3. t \in UnderWay /\ {"conflict", "commit"} \subseteq Labels \ {"new"}
  BY <1>2 DEF UnderWay, Labels, Ended, At
<1>4. CASE End(t, "conflict") /\ UNCHANGED my
  <2>1. Go(t, "conflict") /\ holder' = IF holder = t THEN Free ELSE holder
    BY <1>4 DEF End
  <2>. QED  BY <1>2, <1>3, <1>4, <2>1, QuietStep
<1>5. CASE /\ type = "NFE" \/ Holders(my[t].number) = {}
           /\ my' = [my EXCEPT ![t].wrote = TRUE]
           /\ Go(t, "commit") /\ UNCHANGED holder
  <2>1. /\ \A u \in Tx \ {t} : my'[u] = my[u]
        /\ my'[t].number = my[t].number /\ my'[t].kind = my[t].kind
        /\ my'[t].row = my[t].row /\ my'[t].met = my[t].met
    BY <1>1, <1>5 DEF Requests
  <2>2. \A u \in Tx \ {t} : Pending(u)' <=> Pending(u)
    BY <1>1, <1>5, <2>1 DEF Go, Pending, UnderWay
  <2>3. \A n : Holders(n)' = Holders(n)
    BY <1>2 DEF OnlyLock, Holders
  <2>4. type # "NFE" => \A u \in Tx \ {t} : Pending(u) => /\ my[u].number # my[t].number
                                                           /\ my[u].row # t
    BY DEF Insert, Writers
  <2>5. my[t].row = t
    BY <1>1, <1>2 DEF OwnRow, At
  <2>6. PendingApart'
    BY <1>2, <1>5, <2>1, <2>2, <2>3, <2>4, <2>5 DEF NInv, PendingApart, OnlyLock
  <2>7. my[t].kind = "draw" => holder' = t /\ my[t].number > counter
    BY <1>2, <1>5 DEF NInv, DrawnAhead, At
  <2>8. type = "NFE" /\ my[t].kind = "informed" =>
            \A a \in Rows \ {t} : code[a] # 0 /\ code[a] = my[t].number =>
                MovedHere(a) \/ (a \in Tx /\ Overlap(a, t))
    BY <1>2 DEF NInv, HandsMeet, At
  <2>. QED  BY <1>2, <1>3, <1>5, <2>1, <2>6, <2>7, <2>8, QuietStep
<1>. QED  BY <1>4, <1>5 DEF Insert

\* The patch of a code: the UPDATE of a product commits by itself.
LEMMA PatchStep ==
    ASSUME NInv, IInv', NEW t \in Tx, PatchCode(t)
    PROVE  NInv'
<1> DEFINE n == my[t].number
           r == my[t].row
<1>1. /\ my \in [Tx -> Requests] /\ my[t] \in Requests /\ pc \in [Tx -> Labels] /\ Free \notin Tx
      /\ code \in [Rows -> Nat] /\ KindAt(t) /\ OwnRow(t) /\ WroteAt(t)
  BY CodesAssumption DEF NInv, IInv, Shape, KindsAgree, RowsOwned, WritesAgree
<1>2. /\ At(t, "write") /\ UNCHANGED << type, counter, holder, outside, strayed, voided, closed >>
      /\ \/ Go(t, "conflict") /\ UNCHANGED << code, my >>
         \/ /\ Holders(n) \ {r} = {} /\ Go(t, "floor")
            /\ \/ /\ type # "PRODUTO" /\ UNCHANGED code
                  /\ my' = [my EXCEPT ![t].wrote = TRUE]
               \/ /\ type = "PRODUTO"
                  /\ code' = [code EXCEPT ![r] = n]
                  /\ my' = [my EXCEPT ![t].late = TRUE]
  BY DEF PatchCode, places
<1>3. /\ my[t].kind = "patch" /\ type \in Coded /\ n # 0 /\ code[r] # 0 /\ r \in Rows /\ n \in Nat
      /\ ~my[t].wrote
  BY <1>1, <1>2 DEF KindAt, OwnRow, WroteAt, At, Requests, Before
<1>4. t \in UnderWay /\ {"conflict", "floor"} \subseteq Labels \ {"new"} /\ type # "NFE"
  BY <1>2, <1>3 DEF UnderWay, Labels, Ended, At, Coded
<1>5. \A u \in Tx \ {t} : Pending(u) => my[u].number # n /\ my[u].row # r
  BY <1>4 DEF PatchCode, Writers
<1>6. CASE Go(t, "conflict") /\ UNCHANGED << code, my >>
  <2>1. OnlyLock
    BY <1>2, <1>6 DEF OnlyLock, places
  <2>. QED  BY <1>2, <1>3, <1>4, <1>6, <2>1, QuietStep
<1>7. CASE /\ Holders(n) \ {r} = {} /\ Go(t, "floor") /\ UNCHANGED code
           /\ my' = [my EXCEPT ![t].wrote = TRUE]
  <2>1. /\ \A u \in Tx \ {t} : my'[u] = my[u]
        /\ my'[t].number = n /\ my'[t].kind = my[t].kind
        /\ my'[t].row = r /\ my'[t].met = my[t].met
    BY <1>1, <1>7 DEF Requests
  <2>2. \A u \in Tx \ {t} : Pending(u)' <=> Pending(u)
    BY <1>1, <1>7, <2>1 DEF Go, Pending, UnderWay
  <2>3. \A m : Holders(m)' = Holders(m)
    BY <1>7 DEF Holders
  <2>4. PendingApart'
    BY <1>2, <1>5, <1>7, <2>1, <2>2, <2>3 DEF NInv, PendingApart
  <2>5. OnlyLock
    BY <1>2, <1>7 DEF OnlyLock, places
  <2>. QED  BY <1>2, <1>3, <1>4, <1>7, <2>1, <2>4, <2>5, QuietStep
<1>8. CASE /\ Holders(n) \ {r} = {} /\ Go(t, "floor") /\ type = "PRODUTO"
           /\ code' = [code EXCEPT ![r] = n]
           /\ my' = [my EXCEPT ![t].late = TRUE]
  <2>1. /\ code'[r] = n /\ \A x \in Rows \ {r} : code'[x] = code[x]
        /\ pc'[t] = "floor" /\ \A u \in Tx \ {t} : pc'[u] = pc[u] /\ my'[u] = my[u]
    BY <1>1, <1>3, <1>8 DEF Go
  <2>2. \A u \in Tx : /\ my'[u].kind = my[u].kind /\ my'[u].row = my[u].row
                      /\ my'[u].number = my[u].number /\ my'[u].wrote = my[u].wrote
    BY <1>1, <1>8, <2>1 DEF Requests
  <2>3. \A x \in Rows \ {r} : code[x] # n
    BY <1>8 DEF Holders
  <2>4. CodesDiffer'
    BY <1>2, <2>1, <2>3 DEF NInv, CodesDiffer
  <2>5. \A u \in Tx : Pending(u)' => u # t /\ Pending(u)
    BY <1>3, <2>1, <2>2 DEF Pending, UnderWay
  <2>6. PendingApart'
    <3>1. \A m : m # n => Holders(m)' \subseteq Holders(m)
      BY <1>3, <2>1 DEF Holders
    <3>. QED  BY <1>2, <1>5, <2>2, <2>5, <3>1 DEF NInv, PendingApart
  <2>7. DrawnAhead' /\ HandsMeet'
    BY <1>2, <1>3, <1>4, <2>1, <2>2 DEF NInv, DrawnAhead, HandsMeet
  <2>8. NumbersCollideOnlyByHand'
    BY <1>2, <1>4, <2>4 DEF CodesDiffer, NumbersCollideOnlyByHand
  <2>. QED  BY <2>4, <2>6, <2>7, <2>8 DEF NInv
<1>. QED  BY <1>2, <1>6, <1>7, <1>8

\* The PATCH of an invoice: one with a new number here was moved.
LEMMA MoveStep ==
    ASSUME NInv, IInv', NEW t \in Tx, PatchInvoice(t)
    PROVE  NInv'
<1>0. PICK r : r = my[t].row
  OBVIOUS
<1>1. /\ At(t, "move") /\ pc' = [pc EXCEPT ![t] = "done"]
      /\ UNCHANGED << type, counter, holder, voided, closed >>
  BY DEF PatchInvoice, Go
<1>2. /\ my \in [Tx -> Requests] /\ my[t] \in Requests /\ r \in Rows
      /\ my[t].kind = "move" /\ t \in UnderWay /\ type = "NFE"
      /\ code \in [Rows -> Nat] /\ pc \in [Tx -> Labels]
  BY <1>0, <1>1 DEF NInv, IInv, Shape, KindsAgree, KindAt, RowsOwned, OwnRow, At, UnderWay, Ended
<1>3. /\ \A u \in Tx \ {t} : my'[u] = my[u] /\ pc'[u] = pc[u]
      /\ my'[t].kind = "move" /\ my'[t].row = r /\ my'[t].met = my[t].met
      /\ pc'[t] = "done"
  <2>1. PICK late : my' = [my EXCEPT ![t].late = late]
    BY DEF PatchInvoice
  <2>. QED  BY <1>0, <1>1, <1>2, <2>1 DEF Requests
<1>4. /\ \A x \in Rows \ {r} : code'[x] = code[x]
      /\ code'[r] = 0 \/ code'[r] = code[r] \/ MovedHere(r)'
  <2>1. PICK place, number :
          /\ code' = [code EXCEPT ![r] = IF place = "outside" THEN 0
                                         ELSE IF r \in outside THEN number ELSE code[r]]
          /\ my' = [my EXCEPT ![t].late = r \in outside \cup strayed /\ place # "outside"]
    BY <1>0 DEF PatchInvoice
  <2>2. code'[r] # 0 /\ code'[r] # code[r] => r \in outside /\ place # "outside"
    BY <1>2, <2>1
  <2>3. my'[t].late = (r \in outside \cup strayed /\ place # "outside")
    BY <1>2, <2>1 DEF Requests
  <2>4. code'[r] # 0 /\ code'[r] # code[r] => my'[t].late
    BY <2>2, <2>3
  <2>. QED  BY <1>2, <1>3, <2>1, <2>4 DEF MovedHere
<1>5. SameRequests
  BY <1>0, <1>2, <1>3 DEF SameRequests
<1>6. \A x : MovedHere(x) => MovedHere(x)'
  BY <1>2, <1>3, MovedKept DEF NInv
<1>7. \A x \in Rows : Disturbed(x) => Disturbed(x)'
  BY <1>2, <1>3, <1>5, DisturbedKept DEF NInv
<1>8. \A a, b \in Tx : /\ Overlap(a, b)' <=> Overlap(a, b)
                       /\ my'[a].kind = my[a].kind
  BY <1>2, <1>3 DEF Overlap
<1>9. CodesDiffer' /\ PendingApart'
  BY <1>1, <1>2 DEF CodesDiffer, PendingApart
<1>10. DrawnAhead'
  BY <1>1, <1>2, <1>3 DEF NInv, DrawnAhead
<1>11. HandsMeet'
  <2> SUFFICES ASSUME NEW u \in Tx \ {t}, my[u].kind = "informed",
                      pc[u] \in {"floor", "insert", "commit"}, NEW a \in Rows \ {u},
                      code'[a] # 0, code'[a] = my[u].number
               PROVE  MovedHere(a)' \/ (a \in Tx /\ Overlap(a, u)')
    BY <1>2, <1>3 DEF HandsMeet
  <2>1. code'[a] = code[a] \/ MovedHere(a)'
    BY <1>4
  <2>. QED  BY <1>2, <1>6, <1>8, <2>1 DEF NInv, HandsMeet
<1>12. NumbersCollideOnlyByHand'
  <2> SUFFICES ASSUME NEW a \in Rows, NEW b \in Rows, a # b, code'[a] = code'[b], code'[a] # 0
               PROVE  \/ Disturbed(a)' \/ Disturbed(b)'
                      \/ /\ a \in Tx /\ b \in Tx /\ Overlap(a, b)'
                         /\ "informed" \in {my[a].kind, my[b].kind}
    BY <1>1, <1>2, <1>8 DEF NumbersCollideOnlyByHand
  <2>1. \A x \in Rows : MovedHere(x)' => Disturbed(x)'
    BY DEF MovedHere, Disturbed
  <2>2. /\ code'[a] = code[a] \/ Disturbed(a)'
        /\ code'[b] = code[b] \/ Disturbed(b)'
    BY <1>4, <2>1
  <2>. QED  BY <1>7, <1>8, <2>2 DEF NInv, NumbersCollideOnlyByHand
<1>. QED  BY <1>9, <1>10, <1>11, <1>12 DEF NInv

-----------------------------------------------------------------------------
\* A request arrives: it meets those under way.
LEMMA StartStep ==
    ASSUME NInv, IInv', NEW t \in Tx, Start(t)
    PROVE  NInv'
<1>1. /\ my \in [Tx -> Requests] /\ pc \in [Tx -> Labels] /\ OwnRow(t) /\ At(t, "new")
      /\ UNCHANGED << type, counter, holder, code, outside, strayed, voided, closed >>
  BY DEF Start, OnlyRequest, places, NInv, IInv, Shape, RowsOwned
<1>2. /\ \A u \in Tx \ {t} : pc'[u] = pc[u] /\ my'[u] = my[u]
      /\ pc'[t] \in {"next", "read", "check"} /\ ~my'[t].wrote
  <2>1. PICK k \in Kinds, n \in Numbers, m \in Numbers, x \in Rows :
          /\ IF k \in {"patch", "move"} THEN Exists(x) ELSE x = t
          /\ n <= m /\ (k # "void" => n = m)
          /\ my' = [my EXCEPT ![t] = [Idle EXCEPT
                      !.kind = k, !.row = x, !.number = IF k \in {"draw", "move"} THEN 0 ELSE n,
                      !.top = IF k \in {"draw", "move"} THEN 0 ELSE m, !.met = UnderWay]]
          /\ Go(t, CASE k = "draw" -> "next"
                     [] k = "adjust" -> "read"
                     [] OTHER -> "check")
    BY DEF Start
  <2>2. (CASE k = "draw" -> "next" [] k = "adjust" -> "read" [] OTHER -> "check")
            \in {"next", "read", "check"}
    <3>1. CASE k = "draw"
      BY <3>1
    <3>2. CASE k = "adjust"
      BY <3>2
    <3>3. CASE k # "draw" /\ k # "adjust"
      BY <3>3
    <3>. QED  BY <3>1, <3>2, <3>3
  <2>. QED  BY <1>1, <2>1, <2>2 DEF Go, Idle
<1>3. code[t] = 0
  BY <1>1 DEF OwnRow, Exists, At
<1>4. SameRequests
  BY <1>1, <1>2 DEF SameRequests
<1>5. \A x : MovedHere(x) => MovedHere(x)'
  BY <1>1, <1>2, MovedKept DEF NInv
<1>6. \A a, b \in Tx \ {t} : Overlap(a, b)' <=> Overlap(a, b)
  BY <1>2 DEF Overlap
<1>7. CodesDiffer'
  BY <1>1 DEF NInv, CodesDiffer
<1>8. PendingApart'
  <2>1. \A u \in Tx : Pending(u)' => u # t /\ Pending(u)
    BY <1>2 DEF Pending, UnderWay
  <2>2. \A i : Holders(i)' = Holders(i)
    BY <1>1 DEF Holders
  <2>. QED  BY <1>1, <1>2, <2>1, <2>2 DEF NInv, PendingApart
<1>9. DrawnAhead'
  BY <1>1, <1>2 DEF NInv, DrawnAhead
<1>10. HandsMeet'
  BY <1>1, <1>2, <1>3, <1>5, <1>6 DEF NInv, HandsMeet
<1>11. NumbersCollideOnlyByHand'
  <2>1. CASE type # "NFE"
    BY <1>1, <1>7, <2>1 DEF CodesDiffer, NumbersCollideOnlyByHand
  <2>2. CASE type = "NFE"
    <3>1. \A x \in Rows : Disturbed(x) => Disturbed(x)'
      BY <1>1, <1>2, <1>4, <2>2, DisturbedKept DEF NInv
    <3>. QED  BY <1>1, <1>2, <1>3, <1>6, <3>1 DEF NInv, NumbersCollideOnlyByHand
  <2>. QED  BY <2>1, <2>2
<1>. QED  BY <1>7, <1>8, <1>9, <1>10, <1>11 DEF NInv

\* The update by hand finds the sequence free, so that nothing is drawn.
LEMMA SetStep ==
    ASSUME NInv, IInv', NEW t \in Tx, SetSequence(t)
    PROVE  NInv'
<1>1. /\ At(t, "set") /\ holder = Free /\ Free \notin Tx
      /\ UNCHANGED << type, holder, code, outside, strayed, voided, closed, my >>
      /\ pc'[t] = "done" /\ \A u \in Tx \ {t} : pc'[u] = pc[u]
  BY CodesAssumption DEF SetSequence, places, Go, NInv, IInv, Shape
<1>2. CodesDiffer'
  BY <1>1 DEF NInv, CodesDiffer
<1>3. PendingApart'
  <2>1. \A u \in Tx : Pending(u)' => Pending(u)
    BY <1>1 DEF Pending, UnderWay, At, Ended
  <2>2. \A i : Holders(i)' = Holders(i)
    BY <1>1 DEF Holders
  <2>. QED  BY <1>1, <2>1, <2>2 DEF NInv, PendingApart
<1>4. DrawnAhead'
  BY <1>1 DEF NInv, DrawnAhead
<1>5. HandsMeet' /\ NumbersCollideOnlyByHand'
  BY <1>1 DEF NInv, HandsMeet, MovedHere, NumbersCollideOnlyByHand, Disturbed, Adjusted, Overlap
<1>. QED  BY <1>2, <1>3, <1>4, <1>5 DEF NInv

\* A commit stores the code: it is apart from the others, ahead of the sequence,
\* or was free when it was brought, so that who has it came meanwhile.
LEMMA CommitStep ==
    ASSUME NInv, IInv', NEW t \in Tx, Commit(t)
    PROVE  NInv'
<1> DEFINE n == my[t].number
           r == my[t].row
           stores == (my[t].kind \in {"draw", "informed"} \/ type = "MEMBRO") /\ my[t].kind # "void"
<1>1. /\ my \in [Tx -> Requests] /\ my[t] \in Requests /\ pc \in [Tx -> Labels] /\ Free \notin Tx
      /\ code \in [Rows -> Nat] /\ counter \in Nat /\ KindAt(t) /\ OwnRow(t) /\ Tx \subseteq Rows
  BY CodesAssumption DEF NInv, IInv, Shape, KindsAgree, RowsOwned, Rows
<1>2. /\ At(t, "commit") /\ UNCHANGED type /\ counter' = Seen(t)
      /\ code' = IF stores THEN [code EXCEPT ![r] = n] ELSE code
      /\ my' = [my EXCEPT ![t].late = FALSE]
      /\ pc' = [pc EXCEPT ![t] = "done"]
      /\ holder' = IF holder = t THEN Free ELSE holder
  BY DEF Commit, End, Go
<1>3. /\ my[t].kind \in {"draw", "informed", "patch", "void"} /\ r \in Rows /\ n \in Nat
      /\ my[t].kind # "patch" => r = t
      /\ my[t].kind = "patch" => type \in Coded /\ code[r] # 0 /\ n # 0
      /\ code[t] = 0 /\ t \in UnderWay
  BY <1>1, <1>2 DEF KindAt, OwnRow, Exists, At, Requests, UnderWay, Ended
<1>4. /\ \A u \in Tx : /\ my'[u].kind = my[u].kind /\ my'[u].row = my[u].row
                       /\ my'[u].number = my[u].number /\ my'[u].met = my[u].met
                       /\ my'[u].wrote = my[u].wrote
      /\ pc'[t] = "done" /\ \A u \in Tx \ {t} : pc'[u] = pc[u] /\ my'[u] = my[u]
  BY <1>1, <1>2 DEF Requests
<1>5. /\ stores => code'[r] = n
      /\ \A x \in Rows : x # r \/ ~stores => code'[x] = code[x]
  BY <1>1, <1>2, <1>3
<1>6. stores /\ type # "NFE" => Pending(t)
  BY <1>2, <1>3, PendingLabels DEF At, NInv
<1>7. \A u \in Tx : Pending(u)' => u # t /\ Pending(u)
  BY <1>4 DEF Pending, UnderWay, Ended
<1> HIDE DEF stores
<1>8. CodesDiffer'
  <2>1. CASE type # "NFE" /\ stores
    <3>1. \A x \in Rows \ {r} : code[x] # n
      BY <1>6, <2>1 DEF NInv, PendingApart, Holders
    <3>. QED  BY <1>2, <1>3, <1>5, <2>1, <3>1 DEF NInv, CodesDiffer
  <2>2. CASE type = "NFE" \/ ~stores
    BY <1>2, <1>5, <2>2 DEF NInv, CodesDiffer
  <2>. QED  BY <2>1, <2>2
<1>9. PendingApart'
  <2>1. CASE type # "NFE" /\ stores
    <3>1. \A m : m # n => Holders(m)' \subseteq Holders(m)
      BY <1>3, <1>5, <2>1 DEF Holders
    <3>2. \A u \in Tx \ {t} : Pending(u) => my[u].number # n
      BY <1>6, <2>1 DEF NInv, PendingApart
    <3>. QED  BY <1>2, <1>4, <1>7, <2>1, <3>1, <3>2 DEF NInv, PendingApart
  <2>2. CASE ~stores
    <3>1. \A m : Holders(m)' = Holders(m)
      BY <1>5, <2>2 DEF Holders
    <3>. QED  BY <1>2, <1>4, <1>7, <3>1 DEF NInv, PendingApart
  <2>3. CASE type = "NFE"
    BY <1>2, <2>3 DEF PendingApart
  <2>. QED  BY <2>1, <2>2, <2>3
<1>10. DrawnAhead'
  <2>1. \A u \in Tx \ {t} : holder = u => holder' = u /\ counter' = counter
    BY <1>1, <1>2 DEF Seen
  <2>. QED  BY <1>4, <2>1 DEF NInv, DrawnAhead
<1>11. \A a, b \in Tx : Overlap(a, b)' <=> Overlap(a, b)
  BY <1>4 DEF Overlap
<1>12. HandsMeet'
  <2> SUFFICES ASSUME type = "NFE", NEW u \in Tx, my[u].kind = "informed",
                      pc'[u] \in {"floor", "insert", "commit"}, NEW a \in Rows \ {u},
                      code'[a] # 0, code'[a] = my[u].number
               PROVE  MovedHere(a)' \/ (a \in Tx /\ Overlap(a, u)')
    BY <1>2, <1>4 DEF HandsMeet
  <2>1. u # t /\ pc[u] = pc'[u] /\ u \in UnderWay
    BY <1>4 DEF UnderWay, Ended
  <2>2. CASE a = t
    BY <1>3, <1>11, <2>1, <2>2 DEF NInv, IInv, AllMeet, Overlap
  <2>3. CASE a # t
    <3>1. code'[a] = code[a]
      BY <1>1, <1>3, <1>5, <2>3 DEF Coded
    <3>2. MovedHere(a) => MovedHere(a)'
      BY <1>3, <1>4, MovedKept DEF NInv
    <3>. QED  BY <1>11, <2>1, <3>1, <3>2 DEF NInv, HandsMeet
  <2>. QED  BY <2>2, <2>3
<1>13. NumbersCollideOnlyByHand'
  <2>1. CASE type # "NFE"
    BY <1>2, <1>8, <2>1 DEF CodesDiffer, NumbersCollideOnlyByHand
  <2>2. CASE type = "NFE"
    <3>1. ASSUME NEW b \in Rows \ {t}, stores, code[b] = n, n # 0
          PROVE  Disturbed(b) \/ (b \in Tx /\ my[t].kind = "informed" /\ Overlap(b, t))
      <4>1. my[t].kind \in {"draw", "informed"}
        BY <1>3, <2>2, <3>1 DEF stores, Coded
      <4>2. CASE my[t].kind = "informed"
        BY <1>2, <2>2, <3>1, <4>2 DEF NInv, HandsMeet, At, MovedHere, Disturbed
      <4>3. CASE my[t].kind = "draw"
        <5>1. n > counter
          BY <1>2, <4>3 DEF NInv, DrawnAhead, At
        <5>2. Excused(b)
          BY <1>1, <1>3, <3>1, <5>1 DEF NInv, IInv, CodesCovered
        <5>. QED  BY <5>2 DEF Excused, Disturbed
      <4>. QED  BY <4>1, <4>2, <4>3
    <3>2. /\ \A b \in Rows \ {t} : code'[b] = code[b]
          /\ code'[t] # 0 => stores /\ code'[t] = n
      BY <1>1, <1>3, <1>5, <2>2 DEF Coded
    <3>3. SameRequests
      BY <1>4 DEF SameRequests
    <3>4. \A x \in Rows : Disturbed(x) => Disturbed(x)'
      BY <1>3, <1>4, <2>2, <3>3, DisturbedKept DEF NInv
    <3> SUFFICES ASSUME NEW a \in Rows, NEW b \in Rows, a # b, code'[a] = code'[b], code'[a] # 0
                 PROVE  \/ Disturbed(a)' \/ Disturbed(b)'
                        \/ /\ a \in Tx /\ b \in Tx /\ Overlap(a, b)
                           /\ "informed" \in {my[a].kind, my[b].kind}
      BY <1>2, <1>4, <1>11, <2>2 DEF NumbersCollideOnlyByHand
    <3>5. CASE a # t /\ b # t
      BY <3>2, <3>4, <3>5 DEF NInv, NumbersCollideOnlyByHand
    <3>6. CASE a = t
      BY <1>1, <3>1, <3>2, <3>4, <3>6 DEF Overlap
    <3>7. CASE b = t
      BY <1>1, <3>1, <3>2, <3>4, <3>7 DEF Overlap
    <3>. QED  BY <3>5, <3>6, <3>7
  <2>. QED  BY <2>1, <2>2
<1>. QED  BY <1>8, <1>9, <1>10, <1>12, <1>13 DEF NInv

-----------------------------------------------------------------------------
LEMMA NumbersStep == NInv /\ [Next]_vars => NInv'
<1> SUFFICES ASSUME NInv, [Next]_vars PROVE NInv'
  OBVIOUS
<1>1. IInv'
  BY StepKeepsInvariant DEF NInv
<1>2. ASSUME NEW t \in Tx, RequestStep(t) \/ Fail(t) PROVE NInv'
  BY <1>1, <1>2, QuietSteps, InsertStep, PatchStep, MoveStep, CommitStep, SetStep
     DEF RequestStep
<1>3. CASE UNCHANGED vars
  <2>1. CodesDiffer' /\ DrawnAhead'
    BY <1>3 DEF vars, NInv, CodesDiffer, DrawnAhead
  <2>2. HandsMeet' /\ NumbersCollideOnlyByHand'
    BY <1>3 DEF vars, NInv, HandsMeet, MovedHere, NumbersCollideOnlyByHand, Disturbed, Adjusted,
       Overlap
  <2>3. PendingApart'
    BY <1>3 DEF vars, NInv, PendingApart, Pending, UnderWay, Holders
  <2>. QED  BY <1>1, <2>1, <2>2, <2>3 DEF NInv
<1>. QED  BY <1>1, <1>2, <1>3, StartStep DEF Next

\* The invariant behind the next theorem: what a unique index or the lock of the
\* sequence keeps apart until it is committed, and who met whom.
THEOREM NumbersInductive == Spec => []NInv
<1>. QED  BY NumbersInit, NumbersStep, PTL DEF Spec

\* resolveEntityCode and nextNfeNumber: two rows never get one number, but for
\* invoices of which one was numbered by hand while the other was created, was
\* moved here by a PATCH, or was numbered while the sequence was set by hand.
THEOREM NumbersCollide == Spec => []NumbersCollideOnlyByHand
<1>1. NInv => NumbersCollideOnlyByHand
  BY DEF NInv
<1>. QED  BY <1>1, NumbersInductive, PTL

-----------------------------------------------------------------------------
(***************************************************************************)
(* An invoice whose number was voided is closed, and an automatic code is  *)
(* found, with the exceptions the properties name.                         *)
(***************************************************************************)

\* Only invoices have ranges that are voided, and these start above 0.
VoidsOfInvoices == type # "NFE" => voided = {} /\ \A t \in Tx : my[t].kind # "void"
VoidsPositive ==
    /\ \A v \in voided : v[1] # 0
    /\ \A t \in Tx : my[t].kind = "void" => my[t].number # 0

\* A range that is about to be recorded has raised the sequence, if that was
\* not set by hand meanwhile.
VoidReached ==
    \A t \in Tx :
        my[t].kind = "void" /\ pc[t] \in {"collect", "commit"} =>
            my[t].top <= Seen(t) \/ Adjusted(t)

\* A number that was drawn is in no voided range; one that was brought is in
\* none but those that were recorded meanwhile.
Beneath(n) ==
    \E u \in Tx : my[u].kind = "void" /\ n \in my[u].number .. my[u].top /\ Adjusted(u)
DrawnClear ==
    type = "NFE" => \A t \in Tx :
        my[t].kind = "draw" /\ pc[t] \in {"insert", "commit"} =>
            Ranges(my[t].number) = {} \/ Beneath(my[t].number)
MetByVoid(t) == \E u \in Tx : my[u].kind = "void" /\ Overlap(t, u)
HandsClear ==
    type = "NFE" => \A t \in Tx :
        my[t].kind = "informed" /\ pc[t] \in {"floor", "insert", "commit"} =>
            Ranges(my[t].number) = {} \/ MetByVoid(t)

\* The invoices read in a range are all of them, but for those brought or moved
\* there meanwhile; those of the ranges that were recorded are closed.
FoundAll ==
    \A t \in Tx, r \in Rows \ strayed :
        my[t].kind = "void" /\ At(t, "commit") /\ code[r] \in my[t].number .. my[t].top =>
            \/ r \in my[t].found \/ MovedHere(r) \/ Adjusted(t)
            \/ r \in Tx /\ my[r].kind = "informed" /\ Overlap(r, t)
AllClosed ==
    \A r \in Rows \ strayed :
        Ranges(code[r]) # {} =>
            \/ r \in closed \/ MovedHere(r) \/ Beneath(code[r])
            \/ r \in Tx /\ my[r].kind = "informed" /\ MetByVoid(r)

\* A creation fails for a code ahead of the sequence: the patch that stored it
\* was under way at the same time, or died before it raised the floor, or the
\* sequence was set by hand while the code was on its way.
PatchAhead(t) ==
    \E u \in Tx : \/ my[u].kind = "patch" /\ ((my[u].late /\ u \notin UnderWay) \/ Overlap(t, u))
                  \/ Adjusted(u)
FailedByPatch ==
    \A t \in Tx : my[t].kind = "draw" /\ pc[t] \in {"gave up", "conflict"} => PatchAhead(t)

VInv ==
    /\ NInv
    /\ VoidsOfInvoices
    /\ VoidsPositive
    /\ VoidReached
    /\ DrawnClear
    /\ HandsClear
    /\ FoundAll
    /\ AllClosed
    /\ FailedByPatch

-----------------------------------------------------------------------------
LEMMA VoidsInit == Init => VInv
<1> SUFFICES ASSUME Init PROVE VInv
  OBVIOUS
<1>1. voided = {} /\ \A t \in Tx : pc[t] = "new" /\ my[t].kind = "none"
  BY DEF Init, Idle
<1>2. /\ VoidsOfInvoices /\ VoidsPositive /\ VoidReached /\ DrawnClear /\ HandsClear
      /\ FoundAll /\ FailedByPatch
  BY <1>1 DEF VoidsOfInvoices, VoidsPositive, VoidReached, DrawnClear, HandsClear, FoundAll,
     FailedByPatch
<1>3. AllClosed
  BY <1>1 DEF AllClosed, Ranges
<1>. QED  BY <1>2, <1>3, NumbersInit DEF VInv

\* What excuses a request or an invoice once does so for good.
LEMMA WitnessesKept ==
    ASSUME IInv, SameRequests, NEW t \in Tx, t \in UnderWay \/ At(t, "new"),
           \A u \in Tx \ {t} : my'[u] = my[u] /\ pc'[u] = pc[u],
           my[t].kind = "void" => my'[t].number = my[t].number /\ my'[t].top = my[t].top
    PROVE  /\ \A a \in Tx : my[a].kind # "none" =>
                  /\ my'[a].kind = my[a].kind
                  /\ MetByVoid(a) => MetByVoid(a)'
                  /\ Adjusted(a) => Adjusted(a)'
                  /\ PatchAhead(a) => PatchAhead(a)'
                  /\ \A b \in Tx : my[b].kind # "none" => (Overlap(a, b)' <=> Overlap(a, b))
           /\ \A x : MovedHere(x) => MovedHere(x)'
           /\ \A n : Beneath(n) => Beneath(n)'
<1>1. \A a \in Tx : my[a].kind # "none" =>
          ~At(a, "new") /\ my'[a].kind = my[a].kind /\ my'[a].met = my[a].met
  BY DEF IInv, KindsAgree, KindAt, Idle, SameRequests
<1>2. \A a, b \in Tx : my[a].kind # "none" /\ my[b].kind # "none" =>
          (Overlap(a, b)' <=> Overlap(a, b))
  BY <1>1 DEF Overlap
<1>3. \A a \in Tx : my[a].kind # "none" /\ MetByVoid(a) => MetByVoid(a)'
  BY <1>1, <1>2 DEF MetByVoid
<1>4. \A a \in Tx : my[a].kind # "none" /\ Adjusted(a) => Adjusted(a)'
  BY <1>1, <1>2 DEF Adjusted
<1>5. \A a \in Tx : Adjusted(a) => \E b \in Tx : Adjusted(b)'
  <2> SUFFICES ASSUME NEW a \in Tx, Adjusted(a) PROVE \E b \in Tx : Adjusted(b)'
    OBVIOUS
  <2>1. CASE At(a, "new")
    <3>1. PICK u \in Tx : my[u].kind = "adjust" /\ a \in my[u].met
      BY <2>1 DEF Adjusted, Overlap, IInv, KindsAgree, KindAt, Idle
    <3>. QED  BY <1>1, <3>1 DEF Adjusted, Overlap
  <2>2. CASE ~At(a, "new")
    BY <2>2, AdjustedKept DEF IInv
  <2>. QED  BY <2>1, <2>2
<1>6. \A a \in Tx : my[a].kind # "none" /\ PatchAhead(a) => PatchAhead(a)'
  <2> SUFFICES ASSUME NEW a \in Tx, my[a].kind # "none", PatchAhead(a) PROVE PatchAhead(a)'
    OBVIOUS
  <2>1. PICK u \in Tx : \/ my[u].kind = "patch" /\ ((my[u].late /\ u \notin UnderWay)
                                                        \/ Overlap(a, u))
                        \/ Adjusted(u)
    BY DEF PatchAhead
  <2>2. CASE my[u].kind = "patch" /\ my[u].late /\ u \notin UnderWay
    <3>1. u # t
      BY <2>2 DEF IInv, KindsAgree, KindAt, Idle
    <3>. QED  BY <2>2, <3>1 DEF PatchAhead, UnderWay
  <2>3. CASE my[u].kind = "patch" /\ Overlap(a, u)
    BY <1>1, <1>2, <2>3 DEF PatchAhead
  <2>4. CASE Adjusted(u)
    BY <1>5, <2>4 DEF PatchAhead
  <2>. QED  BY <2>1, <2>2, <2>3, <2>4
<1>7. \A x : MovedHere(x) => MovedHere(x)'
  BY MovedKept
<1>8. \A n : Beneath(n) => Beneath(n)'
  BY <1>1, <1>4 DEF Beneath
<1>. QED  BY <1>1, <1>2, <1>3, <1>4, <1>6, <1>7, <1>8

\* A step of a request that touches nothing that is committed.
LEMMA VoidQuietStep ==
    ASSUME VInv, NInv', NEW t \in Tx, t \in UnderWay, NEW label \in Labels \ {"new"},
           Go(t, label), OnlyLock, \A u \in Tx \ {t} : my'[u] = my[u],
           my'[t].kind = my[t].kind, my'[t].row = my[t].row, my'[t].met = my[t].met,
           my[t].kind = "void" => my'[t].number = my[t].number /\ my'[t].top = my[t].top,
           \A u \in Tx \ {t} : holder = u <=> holder' = u,
           my[t].kind = "void" /\ label \in {"collect", "commit"} =>
               my'[t].top <= Seen(t)' \/ Adjusted(t),
           type = "NFE" /\ my[t].kind = "draw" /\ label \in {"insert", "commit"} =>
               Ranges(my'[t].number) = {} \/ Beneath(my'[t].number),
           type = "NFE" /\ my[t].kind = "informed" /\ label \in {"floor", "insert", "commit"} =>
               Ranges(my'[t].number) = {} \/ MetByVoid(t),
           my[t].kind = "void" /\ label = "commit" =>
               \A r \in Rows \ strayed : code[r] \in my'[t].number .. my'[t].top =>
                   r \in my'[t].found,
           my[t].kind = "draw" /\ label \in {"gave up", "conflict"} => PatchAhead(t)
    PROVE  VInv'
<1>1. /\ pc' = [pc EXCEPT ![t] = label]
      /\ UNCHANGED << type, counter, code, outside, strayed, voided, closed >>
  BY DEF Go, OnlyLock, places
<1>2. pc'[t] = label /\ \A u \in Tx \ {t} : pc'[u] = pc[u]
  BY <1>1 DEF VInv, NInv, IInv, Shape
<1>3. \A u \in Tx : my'[u].kind = my[u].kind /\ my'[u].met = my[u].met
  OBVIOUS
<1>4. SameRequests
  BY DEF SameRequests
<1>5. /\ \A a \in Tx : my[a].kind # "none" =>
             /\ MetByVoid(a) => MetByVoid(a)'
             /\ Adjusted(a) => Adjusted(a)'
             /\ PatchAhead(a) => PatchAhead(a)'
             /\ \A b \in Tx : my[b].kind # "none" => (Overlap(a, b)' <=> Overlap(a, b))
      /\ \A x : MovedHere(x) => MovedHere(x)'
      /\ \A n : Beneath(n) => Beneath(n)'
  BY <1>2, <1>4, WitnessesKept DEF VInv, NInv
<1>6. \A n : Ranges(n)' = Ranges(n)
  BY <1>1 DEF Ranges
<1>7. VoidsOfInvoices' /\ VoidsPositive'
  BY <1>1, <1>3 DEF VInv, VoidsOfInvoices, VoidsPositive
<1>8. VoidReached'
  <2> SUFFICES ASSUME NEW u \in Tx, my'[u].kind = "void", pc'[u] \in {"collect", "commit"}
               PROVE  my'[u].top <= Seen(u)' \/ Adjusted(u)'
    BY DEF VoidReached
  <2>1. Adjusted(u) => Adjusted(u)'
    BY <1>3, <1>5
  <2>2. CASE u = t
    BY <1>2, <2>1, <2>2
  <2>3. CASE u # t
    <3>1. Seen(u)' = Seen(u) /\ my'[u] = my[u] /\ pc'[u] = pc[u]
      BY <1>1, <1>2, <2>3 DEF Seen
    <3>. QED  BY <2>1, <3>1 DEF VInv, VoidReached
  <2>. QED  BY <2>2, <2>3
<1>9. DrawnClear'
  BY <1>1, <1>2, <1>3, <1>5, <1>6 DEF VInv, DrawnClear
<1>10. HandsClear'
  BY <1>1, <1>2, <1>3, <1>5, <1>6 DEF VInv, HandsClear
<1>11. FoundAll'
  <2> SUFFICES ASSUME NEW u \in Tx, NEW x \in Rows \ strayed, my[u].kind = "void", pc'[u] = "commit",
                      code[x] \in my'[u].number .. my'[u].top
               PROVE  \/ x \in my'[u].found \/ MovedHere(x)' \/ Adjusted(u)'
                      \/ x \in Tx /\ my[x].kind = "informed" /\ Overlap(x, u)'
    BY <1>1, <1>3 DEF FoundAll, At
  <2>1. CASE u = t
    BY <1>2, <2>1
  <2>2. CASE u # t
    <3>1. my'[u] = my[u] /\ At(u, "commit")
      BY <1>2, <2>2 DEF At
    <3>. QED  BY <1>5, <3>1 DEF VInv, FoundAll
  <2>. QED  BY <2>1, <2>2
<1>12. AllClosed'
  BY <1>1, <1>3, <1>5, <1>6 DEF VInv, AllClosed
<1>13. FailedByPatch'
  BY <1>1, <1>2, <1>3, <1>5 DEF VInv, FailedByPatch
<1>. QED  BY <1>7, <1>8, <1>9, <1>10, <1>11, <1>12, <1>13 DEF VInv

\* A number ahead of the sequence that some row has was stored by a patch, or
\* while the sequence was set by hand.
LEMMA TakenAhead ==
    ASSUME NInv, type # "NFE", NEW t \in Tx, t \in UnderWay, my[t].kind = "draw",
           my[t].number > counter, Holders(my[t].number) # {}
    PROVE  PatchAhead(t)
<1>1. PICK r \in Rows : code[r] = my[t].number
  BY DEF Holders
<1>2. Excused(r)
  <2>1. my[t].number \in Nat /\ counter \in Nat
    BY DEF NInv, IInv, Shape, Requests
  <2>2. ~(code[r] <= counter)
    BY <1>1, <2>1
  <2>. QED  BY <2>2 DEF NInv, IInv, CodesCovered
<1>3. PICK u \in Tx : my[u].late \/ Adjusted(u)
  BY <1>2 DEF Excused
<1>4. CASE my[u].late
  <2>1. my[u].kind = "patch"
    BY <1>4 DEF NInv, IInv, KindsAgree, KindAt, RowsOwned, OwnRow
  <2>2. u \in UnderWay => Overlap(t, u)
    BY <2>1 DEF NInv, IInv, AllMeet
  <2>. QED  BY <1>4, <2>1, <2>2 DEF PatchAhead
<1>. QED  BY <1>3, <1>4 DEF PatchAhead

\* Draws and floors.
LEMMA VoidSequenceSteps ==
    ASSUME VInv, NInv', NEW t \in Tx, NextSequence(t) \/ SyncFloor(t)
    PROVE  VInv'
<1>1. /\ my \in [Tx -> Requests] /\ my[t] \in Requests /\ Free \notin Tx
      /\ KindAt(t) /\ Seen(t) \in Nat
  BY CodesAssumption DEF VInv, NInv, IInv, Shape, KindsAgree, HolderRaises, Seen, Requests
<1>2. CASE NextSequence(t)
  <2>1. /\ At(t, "next") /\ MayLock(t) /\ holder' = t /\ Go(t, "inspect") /\ OnlyLock
        /\ my' = [my EXCEPT ![t].value = Seen(t) + 1, ![t].number = Seen(t) + 1,
                            ![t].tries = @ + 1]
    BY <1>2 DEF NextSequence
  <2>2. /\ \A u \in Tx \ {t} : my'[u] = my[u]
        /\ my'[t].kind = my[t].kind /\ my'[t].met = my[t].met /\ my'[t].row = my[t].row
    BY <1>1, <2>1 DEF Requests
  <2>3. t \in UnderWay /\ "inspect" \in Labels \ {"new"} /\ my[t].kind = "draw"
    BY <1>1, <2>1 DEF UnderWay, Ended, Labels, At, KindAt
  <2>4. \A u \in Tx \ {t} : holder = u <=> holder' = u
    BY <1>1, <2>1 DEF MayLock
  <2>. QED  BY <2>1, <2>2, <2>3, <2>4, VoidQuietStep
<1>3. CASE SyncFloor(t)
  <2> DEFINE label == AfterFloor(t)
  <2>1. /\ At(t, "floor") /\ Go(t, label) /\ OnlyLock
        /\ \/ Seen(t) >= my[t].top /\ UNCHANGED << holder, my >>
           \/ MayLock(t) /\ holder' = t /\ my' = [my EXCEPT ![t].value = my[t].top]
    BY <1>3 DEF SyncFloor
  <2>2. /\ my[t].kind = "draw" => label = "next"
        /\ my[t].kind = "informed" => label = "insert"
        /\ my[t].kind = "patch" => label = "commit"
        /\ my[t].kind = "void" => label = "collect"
        /\ my[t].kind \in {"draw", "informed", "patch", "void"}
    BY <1>1, <2>1 DEF KindAt, At, AfterFloor
  <2> HIDE DEF label
  <2>3. label \in Labels \ {"new"} /\ t \in UnderWay
    BY <2>1, <2>2 DEF Labels, UnderWay, Ended, At
  <2>4. /\ \A u \in Tx \ {t} : my'[u] = my[u]
        /\ my'[t].number = my[t].number /\ my'[t].kind = my[t].kind
        /\ my'[t].met = my[t].met /\ my'[t].row = my[t].row /\ my'[t].top = my[t].top
    BY <1>1, <2>1 DEF Requests
  <2>5. \A u \in Tx \ {t} : holder = u <=> holder' = u
    BY <1>1, <2>1 DEF MayLock
  <2>6. my'[t].top <= Seen(t)'
    <3>1. CASE Seen(t) >= my[t].top /\ UNCHANGED << holder, my >>
      BY <1>1, <2>1, <3>1 DEF Seen, OnlyLock, Requests
    <3>2. CASE holder' = t /\ my' = [my EXCEPT ![t].value = my[t].top]
      BY <1>1, <3>2 DEF Seen, Requests
    <3>. QED  BY <2>1, <3>1, <3>2
  <2>7. type = "NFE" /\ my[t].kind = "informed" => Ranges(my'[t].number) = {} \/ MetByVoid(t)
    BY <2>1, <2>4 DEF VInv, HandsClear, At
  <2>. QED  BY <2>1, <2>2, <2>3, <2>4, <2>5, <2>6, <2>7, VoidQuietStep
<1>. QED  BY <1>2, <1>3

\* Checks, and the end of a request without a commit.
LEMMA VoidCheckingSteps ==
    ASSUME VInv, NInv', NEW t \in Tx,
           \/ Inspect(t) \/ CheckFree(t) \/ Insert(t) \/ LoadDraft(t) \/ CheckRange(t)
           \/ Collect(t) \/ ReadLastUsed(t) \/ Fail(t)
    PROVE  VInv'
<1>1. /\ my \in [Tx -> Requests] /\ my[t] \in Requests /\ pc \in [Tx -> Labels] /\ Free \notin Tx
      /\ KindAt(t) /\ OwnRow(t)
  BY CodesAssumption DEF VInv, NInv, IInv, Shape, KindsAgree, RowsOwned
<1>2. /\ {"next", "inspect", "floor", "insert", "write", "move", "collect", "commit", "set",
          "done", "gave up", "conflict"} \subseteq Labels \ {"new"}
      /\ \A label \in {"inspect", "insert", "check", "collect", "read"} :
            At(t, label) => t \in UnderWay
  BY DEF Labels, Ended, UnderWay, At
<1>3. ASSUME NEW label \in Labels \ {"new"}, t \in UnderWay, Go(t, label), OnlyLock, UNCHANGED my,
             \A u \in Tx \ {t} : holder = u <=> holder' = u, my[t].kind # "void" \/ label = "done",
             type = "NFE" /\ my[t].kind = "draw" /\ label \in {"insert", "commit"} =>
                 Ranges(my[t].number) = {},
             type = "NFE" /\ my[t].kind = "informed" /\ label \in {"floor", "insert", "commit"} =>
                 Ranges(my[t].number) = {} \/ MetByVoid(t),
             my[t].kind = "draw" /\ label \in {"gave up", "conflict"} => PatchAhead(t)
      PROVE  VInv'
  BY <1>3, VoidQuietStep
<1>4. CASE Inspect(t)
  <2>1. /\ At(t, "inspect") /\ OnlyLock /\ my[t].kind = "draw" /\ t \in UnderWay
        /\ holder = t /\ my[t].number > counter
    BY <1>1, <1>2, <1>4 DEF Inspect, KindAt, At, VInv, NInv, DrawnAhead
  <2>2. CASE /\ type \in Coded /\ Holders(my[t].number) # {} /\ Go(t, "gave up") /\ UNCHANGED my
             /\ holder' = IF holder = t THEN Free ELSE holder
    <3>1. PatchAhead(t)
      BY <2>1, <2>2, TakenAhead DEF VInv, Coded
    <3>. QED  BY <1>1, <1>2, <1>3, <2>1, <2>2, <3>1
  <2>3. CASE Go(t, "next") /\ UNCHANGED << holder, my >>
    BY <1>2, <1>3, <2>1, <2>3
  <2>4. CASE /\ type = "NFE" => Ranges(my[t].number) = {}
             /\ Go(t, "insert") /\ UNCHANGED << holder, my >>
    BY <1>2, <1>3, <2>1, <2>4
  <2>5. ASSUME NEW x \in Ranges(my[t].number), my' = [my EXCEPT ![t].top = x[2]],
               Go(t, "floor"), UNCHANGED holder
        PROVE  VInv'
    <3>1. /\ \A u \in Tx \ {t} : my'[u] = my[u]
          /\ my'[t].kind = my[t].kind /\ my'[t].met = my[t].met /\ my'[t].row = my[t].row
      BY <1>1, <2>5 DEF Requests
    <3>. QED  BY <1>2, <2>1, <2>5, <3>1, VoidQuietStep
  <2>6. \/ /\ type \in Coded /\ Holders(my[t].number) # {} /\ Go(t, "gave up") /\ UNCHANGED my
           /\ holder' = IF holder = t THEN Free ELSE holder
        \/ Go(t, "next") /\ UNCHANGED << holder, my >>
        \/ /\ type = "NFE" => Ranges(my[t].number) = {}
           /\ Go(t, "insert") /\ UNCHANGED << holder, my >>
        \/ \E x \in Ranges(my[t].number) :
              my' = [my EXCEPT ![t].top = x[2]] /\ Go(t, "floor") /\ UNCHANGED holder
    BY <1>4 DEF Inspect, End
  <2>. QED  BY <2>2, <2>3, <2>4, <2>5, <2>6
<1>5. CASE CheckFree(t)
  <2>1. /\ At(t, "check") /\ OnlyLock /\ UNCHANGED << my, holder >>
        /\ my[t].kind \in {"informed", "patch"} /\ t \in UnderWay
    BY <1>2, <1>5 DEF CheckFree, OnlyRequest, OnlyLock
  <2>2. ASSUME NEW label \in {"done", "floor", "write"}, Go(t, label),
               label = "floor" /\ type = "NFE" => Ranges(my[t].number) = {}
        PROVE  VInv'
    BY <1>2, <1>3, <2>1, <2>2
  <2>. QED  BY <1>5, <2>2 DEF CheckFree
<1>6. CASE Insert(t)
  <2>1. /\ At(t, "insert") /\ OnlyLock /\ t \in UnderWay
        /\ my[t].kind \in {"draw", "informed"}
    BY <1>1, <1>2, <1>6 DEF Insert, KindAt, At
  <2>2. CASE /\ type # "NFE" /\ Holders(my[t].number) # {} /\ Go(t, "conflict") /\ UNCHANGED my
             /\ holder' = IF holder = t THEN Free ELSE holder
    <3>1. my[t].kind = "draw" => PatchAhead(t)
      BY <2>1, <2>2, TakenAhead DEF VInv, NInv, DrawnAhead, At
    <3>. QED  BY <1>1, <1>2, <1>3, <2>1, <2>2, <3>1
  <2>3. CASE my' = [my EXCEPT ![t].wrote = TRUE] /\ Go(t, "commit") /\ UNCHANGED holder
    <3>1. type = "NFE" /\ my[t].kind = "draw" =>
              Ranges(my[t].number) = {} \/ Beneath(my[t].number)
      BY <2>1 DEF VInv, DrawnClear, At
    <3>2. type = "NFE" /\ my[t].kind = "informed" =>
              Ranges(my[t].number) = {} \/ MetByVoid(t)
      BY <2>1 DEF VInv, HandsClear, At
    <3>3. /\ \A u \in Tx \ {t} : my'[u] = my[u]
          /\ my'[t].kind = my[t].kind /\ my'[t].met = my[t].met /\ my'[t].row = my[t].row
          /\ my'[t].number = my[t].number
      BY <1>1, <2>3 DEF Requests
    <3>. QED  BY <1>2, <2>1, <2>3, <3>1, <3>2, <3>3, VoidQuietStep
  <2>. QED  BY <1>6, <2>2, <2>3 DEF Insert, End
<1>7. CASE CheckRange(t)
  <2>1. PICK label \in {"done", "floor"} : Go(t, label)
    BY <1>7 DEF CheckRange
  <2>2. At(t, "check") /\ OnlyLock /\ UNCHANGED << my, holder >> /\ my[t].kind = "void"
    BY <1>7 DEF CheckRange, OnlyRequest, OnlyLock
  <2>. QED  BY <1>2, <2>1, <2>2, VoidQuietStep
<1>8. CASE Collect(t)
  <2> DEFINE read == {x \in Rows \ strayed : code[x] \in my[t].number .. my[t].top}
  <2>1. /\ At(t, "collect") /\ OnlyLock /\ UNCHANGED holder /\ Go(t, "commit")
        /\ my[t].kind = "void" /\ my' = [my EXCEPT ![t].found = read]
    BY <1>1, <1>8 DEF Collect, OnlyRequest, OnlyLock, KindAt
  <2>2. /\ \A u \in Tx \ {t} : my'[u] = my[u]
        /\ my'[t].number = my[t].number /\ my'[t].kind = my[t].kind /\ my'[t].top = my[t].top
        /\ my'[t].met = my[t].met /\ my'[t].row = my[t].row /\ my'[t].value = my[t].value
        /\ my'[t].found = read
    BY <1>1, <2>1 DEF Requests
  <2>3. Seen(t)' = Seen(t) /\ (my[t].top <= Seen(t) \/ Adjusted(t))
    BY <2>1, <2>2 DEF VInv, VoidReached, At, Seen, OnlyLock
  <2>. QED  BY <1>2, <2>1, <2>2, <2>3, VoidQuietStep
<1>9. CASE ReadLastUsed(t)
  <2>1. PICK label \in {"done", "set"} : Go(t, label)
    BY <1>9 DEF ReadLastUsed
  <2>2. At(t, "read") /\ OnlyLock /\ UNCHANGED << my, holder >> /\ my[t].kind = "adjust"
    BY <1>1, <1>9 DEF ReadLastUsed, OnlyRequest, OnlyLock, KindAt, At
  <2>. QED  BY <1>2, <1>3, <2>1, <2>2
<1>10. CASE LoadDraft(t)
  <2>1. PICK label \in {"done", "move"} : Go(t, label)
    BY <1>10 DEF LoadDraft
  <2>2. At(t, "check") /\ OnlyLock /\ UNCHANGED << my, holder >> /\ my[t].kind = "move"
    BY <1>10 DEF LoadDraft, OnlyRequest, OnlyLock
  <2>. QED  BY <1>2, <1>3, <2>1, <2>2
<1>11. CASE Fail(t)
  <2>1. t \in UnderWay /\ Go(t, "done") /\ UNCHANGED my /\ OnlyLock
        /\ holder' = IF holder = t THEN Free ELSE holder
    BY <1>11 DEF Fail, End
  <2>. QED  BY <1>1, <1>2, <1>3, <2>1
<1>. QED  BY <1>4, <1>5, <1>6, <1>7, <1>8, <1>9, <1>10, <1>11

\* The patch of a code: invoices have none.
LEMMA VoidPatchStep ==
    ASSUME VInv, NInv', NEW t \in Tx, PatchCode(t)
    PROVE  VInv'
<1>1. /\ my \in [Tx -> Requests] /\ my[t] \in Requests /\ pc \in [Tx -> Labels]
      /\ KindAt(t) /\ OwnRow(t)
  BY DEF VInv, NInv, IInv, Shape, KindsAgree, RowsOwned
<1>2. /\ At(t, "write") /\ UNCHANGED << type, counter, holder, voided, closed >>
      /\ my[t].kind = "patch" /\ type # "NFE" /\ t \in UnderWay
  BY <1>1 DEF PatchCode, KindAt, OwnRow, At, Coded, UnderWay, Ended
<1>3. /\ pc'[t] \in {"floor", "conflict"}
      /\ \A u \in Tx \ {t} : pc'[u] = pc[u] /\ my'[u] = my[u]
      /\ my'[t].kind = my[t].kind /\ my'[t].row = my[t].row /\ my'[t].met = my[t].met
  <2>1. \/ my' = my \/ my' = [my EXCEPT ![t].late = TRUE] \/ my' = [my EXCEPT ![t].wrote = TRUE]
    BY DEF PatchCode
  <2>2. Go(t, "floor") \/ Go(t, "conflict")
    BY DEF PatchCode
  <2>. QED  BY <1>1, <2>1, <2>2 DEF Go, Requests
<1>4. voided = {} /\ \A u \in Tx : my[u].kind # "void" /\ my'[u].kind = my[u].kind
  BY <1>2, <1>3 DEF VInv, VoidsOfInvoices
<1>5. VoidsOfInvoices' /\ VoidsPositive' /\ VoidReached' /\ DrawnClear' /\ HandsClear' /\ FoundAll'
  BY <1>2, <1>4 DEF VoidsOfInvoices, VoidsPositive, VoidReached, DrawnClear, HandsClear, FoundAll
<1>6. AllClosed'
  BY <1>2, <1>4 DEF AllClosed, Ranges
<1>7. FailedByPatch'
  <2>1. SameRequests
    BY <1>3 DEF SameRequests
  <2>2. \A a \in Tx : my[a].kind = "draw" /\ PatchAhead(a) => PatchAhead(a)'
    BY <1>2, <1>3, <2>1, WitnessesKept DEF VInv, NInv
  <2>. QED  BY <1>2, <1>3, <1>4, <2>2 DEF VInv, FailedByPatch
<1>. QED  BY <1>5, <1>6, <1>7 DEF VInv

\* The PATCH of an invoice: what it brings here was moved, what leaves has no
\* number here any more.
LEMMA VoidMoveStep ==
    ASSUME VInv, NInv', NEW t \in Tx, PatchInvoice(t)
    PROVE  VInv'
<1>0. PICK r : r = my[t].row
  OBVIOUS
<1>1. /\ At(t, "move") /\ pc' = [pc EXCEPT ![t] = "done"]
      /\ UNCHANGED << type, counter, holder, voided, closed >>
  BY DEF PatchInvoice, Go
<1>2. /\ my \in [Tx -> Requests] /\ my[t] \in Requests /\ r \in Rows
      /\ my[t].kind = "move" /\ t \in UnderWay /\ type = "NFE"
      /\ code \in [Rows -> Nat] /\ pc \in [Tx -> Labels]
  BY <1>0, <1>1 DEF VInv, NInv, IInv, Shape, KindsAgree, KindAt, RowsOwned, OwnRow, At,
     UnderWay, Ended
<1>3. PICK place, number :
        /\ place \in {"here", "other series", "outside"} /\ number \in Numbers
        /\ code' = [code EXCEPT ![r] = IF place = "outside" THEN 0
                                       ELSE IF r \in outside THEN number ELSE code[r]]
        /\ outside' = IF place = "outside" THEN outside \cup {r} ELSE outside \ {r}
        /\ strayed' = IF place = "other series" THEN strayed \cup {r} ELSE strayed \ {r}
        /\ my' = [my EXCEPT ![t].late = r \in outside \cup strayed /\ place # "outside"]
  BY <1>0 DEF PatchInvoice
<1>4. /\ \A u \in Tx \ {t} : my'[u] = my[u] /\ pc'[u] = pc[u]
      /\ my'[t].kind = "move" /\ my'[t].row = r /\ my'[t].met = my[t].met
      /\ my'[t].late = (r \in outside \cup strayed /\ place # "outside")
      /\ pc'[t] = "done"
  BY <1>0, <1>1, <1>2, <1>3 DEF Requests
<1>5. /\ \A x \in Rows \ {r} : code'[x] = code[x] /\ (x \in strayed' <=> x \in strayed)
      /\ r \in strayed' \/ code'[r] = 0 \/ (code'[r] = code[r] /\ r \notin strayed)
             \/ MovedHere(r)'
  <2>1. CASE place = "outside"
    BY <1>2, <1>3, <2>1
  <2>2. CASE place # "outside" /\ r \in outside \cup strayed
    <3>1. MovedHere(r)'
      BY <1>4, <2>2 DEF MovedHere
    <3>. QED  BY <1>2, <1>3, <3>1
  <2>3. CASE place # "outside" /\ r \notin outside \cup strayed
    BY <1>2, <1>3, <2>3
  <2>. QED  BY <2>1, <2>2, <2>3
<1>6. SameRequests
  BY <1>0, <1>2, <1>4 DEF SameRequests
<1>7. /\ \A a \in Tx : my[a].kind # "none" =>
             /\ my'[a].kind = my[a].kind
             /\ MetByVoid(a) => MetByVoid(a)'
             /\ Adjusted(a) => Adjusted(a)'
             /\ PatchAhead(a) => PatchAhead(a)'
             /\ \A b \in Tx : my[b].kind # "none" => (Overlap(a, b)' <=> Overlap(a, b))
      /\ \A x : MovedHere(x) => MovedHere(x)'
      /\ \A n : Beneath(n) => Beneath(n)'
  BY <1>2, <1>4, <1>6, WitnessesKept DEF VInv, NInv
<1>8. \A n : Ranges(n)' = Ranges(n)
  BY <1>1 DEF Ranges
<1>9. VoidsOfInvoices' /\ VoidsPositive'
  BY <1>1, <1>2, <1>4 DEF VInv, VoidsOfInvoices, VoidsPositive
<1>10. VoidReached'
  BY <1>1, <1>4, <1>7 DEF VInv, VoidReached, Seen
<1>11. DrawnClear' /\ HandsClear'
  BY <1>1, <1>4, <1>7, <1>8 DEF VInv, DrawnClear, HandsClear
<1>12. FoundAll'
  <2> SUFFICES ASSUME NEW u \in Tx \ {t}, NEW x \in Rows \ strayed', my[u].kind = "void",
                      At(u, "commit"), code'[x] \in my[u].number .. my[u].top
               PROVE  \/ x \in my[u].found \/ MovedHere(x)' \/ Adjusted(u)'
                      \/ x \in Tx /\ my'[x].kind = "informed" /\ Overlap(x, u)'
    BY <1>4 DEF FoundAll, At
  <2>1. code'[x] # 0
    <3>1. my[u].number \in Nat \ {0} /\ my[u].top \in Nat
      BY <1>2 DEF VInv, VoidsPositive, Requests
    <3>. QED  BY <3>1
  <2>2. MovedHere(x)' \/ (code'[x] = code[x] /\ x \notin strayed)
    BY <1>5, <2>1
  <2>3. x \in Tx /\ my[x].kind = "informed" => my'[x].kind = "informed"
    BY <1>7
  <2>. QED  BY <1>7, <2>2, <2>3 DEF VInv, FoundAll
<1>13. ASSUME NEW x \in Rows \ strayed', NEW c, c = code'[x], Ranges(c) # {}
       PROVE  \/ x \in closed \/ MovedHere(x)' \/ Beneath(c)'
              \/ x \in Tx /\ my'[x].kind = "informed" /\ MetByVoid(x)'
  <2>1. c # 0
    <3>1. PICK v \in voided : c \in v[1] .. v[2]
      BY <1>13 DEF Ranges
    <3>2. v[1] \in Nat \ {0} /\ v[2] \in Nat
      BY DEF VInv, VoidsPositive, NInv, IInv, Shape
    <3>. QED  BY <3>1, <3>2
  <2>2. MovedHere(x)' \/ (c = code[x] /\ x \notin strayed)
    BY <1>5, <1>13, <2>1
  <2>3. CASE c = code[x] /\ x \notin strayed
    <3>1. \/ x \in closed \/ MovedHere(x) \/ Beneath(c)
          \/ x \in Tx /\ my[x].kind = "informed" /\ MetByVoid(x)
      BY <1>13, <2>3 DEF VInv, AllClosed
    <3>. QED  BY <1>7, <3>1
  <2>. QED  BY <2>2, <2>3
<1>15. AllClosed'
  BY <1>1, <1>8, <1>13 DEF AllClosed, Ranges, Beneath
<1>14. FailedByPatch'
  BY <1>4, <1>7 DEF VInv, FailedByPatch
<1>. QED  BY <1>9, <1>10, <1>11, <1>12, <1>15, <1>14 DEF VInv

\* A request arrives.
LEMMA VoidStartStep ==
    ASSUME VInv, NInv', NEW t \in Tx, Start(t)
    PROVE  VInv'
<1>0. /\ my \in [Tx -> Requests] /\ pc \in [Tx -> Labels] /\ Free \notin Tx
      /\ At(t, "new") /\ KindAt(t) /\ HolderRaises
  BY CodesAssumption DEF Start, VInv, NInv, IInv, Shape, KindsAgree
<1>1. /\ my \in [Tx -> Requests] /\ pc \in [Tx -> Labels] /\ Free \notin Tx
      /\ At(t, "new") /\ my[t].kind = "none" /\ holder # t
  <2>1. my[t].kind = "none"
    BY <1>0 DEF KindAt, Idle, At
  <2>2. holder # t
    BY <1>0 DEF HolderRaises, UnderWay, At
  <2>. QED  BY <1>0, <2>1, <2>2
<1>2. PICK k \in Kinds, n \in Numbers, m \in Numbers, x \in Rows :
        /\ IF k \in {"patch", "move"} THEN Exists(x) ELSE x = t
        /\ n <= m /\ (k # "void" => n = m)
        /\ my' = [my EXCEPT ![t] = [Idle EXCEPT
                    !.kind = k, !.row = x, !.number = IF k \in {"draw", "move"} THEN 0 ELSE n,
                    !.top = IF k \in {"draw", "move"} THEN 0 ELSE m, !.met = UnderWay]]
        /\ Go(t, CASE k = "draw" -> "next"
                   [] k = "adjust" -> "read"
                   [] OTHER -> "check")
  BY DEF Start
<1>3. UNCHANGED << type, counter, holder, code, outside, strayed, voided, closed >>
  BY DEF Start, OnlyRequest, places
<1>4. pc'[t] \in {"next", "read", "check"}
  <2>1. CASE k = "draw"
    BY <1>1, <1>2, <2>1 DEF Go
  <2>2. CASE k = "adjust"
    BY <1>1, <1>2, <2>2 DEF Go
  <2>3. CASE k # "draw" /\ k # "adjust"
    BY <1>1, <1>2, <2>3 DEF Go
  <2>. QED  BY <2>1, <2>2, <2>3
<1>5. /\ \A u \in Tx \ {t} : pc'[u] = pc[u] /\ my'[u] = my[u]
      /\ my'[t].kind = k /\ (k = "void" => type = "NFE" /\ my'[t].number = n)
  BY <1>1, <1>2 DEF Go, Idle, Kinds
<1>6. SameRequests
  BY <1>1, <1>5 DEF SameRequests
<1>7. /\ \A a \in Tx : my[a].kind # "none" =>
             /\ my'[a].kind = my[a].kind
             /\ MetByVoid(a) => MetByVoid(a)'
             /\ Adjusted(a) => Adjusted(a)'
             /\ PatchAhead(a) => PatchAhead(a)'
             /\ \A b \in Tx : my[b].kind # "none" => (Overlap(a, b)' <=> Overlap(a, b))
      /\ \A y : MovedHere(y) => MovedHere(y)'
      /\ \A i : Beneath(i) => Beneath(i)'
  BY <1>1, <1>5, <1>6, WitnessesKept DEF VInv, NInv
<1>8. /\ \A i : Ranges(i)' = Ranges(i)
      /\ \A u \in Tx \ {t} : Seen(u)' = Seen(u)
  BY <1>3, <1>5 DEF Ranges, Seen
<1>9. VoidsOfInvoices' /\ VoidsPositive'
  BY <1>3, <1>5, CodesAssumption DEF VInv, VoidsOfInvoices, VoidsPositive
<1>10. VoidReached' /\ DrawnClear'
  BY <1>3, <1>4, <1>5, <1>7, <1>8 DEF VInv, VoidReached, DrawnClear
<1>11. HandsClear'
  BY <1>3, <1>4, <1>5, <1>7, <1>8 DEF VInv, HandsClear
<1>12. FoundAll'
  <2> SUFFICES ASSUME NEW u \in Tx \ {t}, NEW y \in Rows \ strayed, my[u].kind = "void",
                      At(u, "commit"), code[y] \in my[u].number .. my[u].top
               PROVE  \/ y \in my[u].found \/ MovedHere(y)' \/ Adjusted(u)'
                      \/ y \in Tx /\ my'[y].kind = "informed" /\ Overlap(y, u)'
    BY <1>3, <1>4, <1>5 DEF FoundAll, At
  <2>. QED  BY <1>7 DEF VInv, FoundAll
<1>13. AllClosed'
  <2> SUFFICES ASSUME NEW y \in Rows \ strayed, Ranges(code[y]) # {}
               PROVE  \/ y \in closed \/ MovedHere(y)' \/ Beneath(code[y])'
                      \/ y \in Tx /\ my'[y].kind = "informed" /\ MetByVoid(y)'
    BY <1>3, <1>8 DEF AllClosed
  <2>1. Beneath(code[y]) => Beneath(code[y])'
    BY <1>3, <1>7 DEF Beneath
  <2>. QED  BY <1>7, <2>1 DEF VInv, AllClosed
<1>14. FailedByPatch'
  BY <1>4, <1>5, <1>7 DEF VInv, FailedByPatch
<1>. QED  BY <1>9, <1>10, <1>11, <1>12, <1>13, <1>14 DEF VInv

\* The sequence is set by hand: who is under way with it has met it.
LEMMA VoidSetStep ==
    ASSUME VInv, NInv', NEW t \in Tx, SetSequence(t)
    PROVE  VInv'
<1>1. /\ At(t, "set") /\ UNCHANGED << type, holder, code, outside, strayed, voided, closed, my >>
      /\ pc'[t] = "done" /\ \A u \in Tx \ {t} : pc'[u] = pc[u]
      /\ my[t].kind = "adjust" /\ t \in UnderWay
  BY DEF SetSequence, Go, places, VInv, NInv, IInv, Shape, KindsAgree, KindAt, At, UnderWay, Ended
<1>2. \A a : (Adjusted(a)' <=> Adjusted(a)) /\ (MovedHere(a)' <=> MovedHere(a))
  BY <1>1 DEF Adjusted, MovedHere, Overlap
<1>3. VoidReached'
  <2> SUFFICES ASSUME NEW u \in Tx, pc'[u] \in {"collect", "commit"}
               PROVE  Adjusted(u)
    BY <1>2 DEF VoidReached
  <2>1. u # t /\ u \in UnderWay
    BY <1>1 DEF UnderWay, Ended
  <2>. QED  BY <1>1, <2>1, MeetsAdjusts DEF VInv, NInv, IInv
<1>4. VoidsOfInvoices' /\ VoidsPositive' /\ DrawnClear' /\ HandsClear'
  BY <1>1, <1>2 DEF VInv, VoidsOfInvoices, VoidsPositive, DrawnClear, HandsClear, Beneath,
     Ranges, Overlap, MetByVoid
<1>5. FoundAll' /\ AllClosed'
  BY <1>1, <1>2 DEF VInv, FoundAll, AllClosed, Beneath, Ranges, Overlap, MetByVoid, At
<1>6. FailedByPatch'
  <2>1. \A u \in Tx : PatchAhead(u) => PatchAhead(u)'
    BY <1>1, <1>2 DEF PatchAhead, Overlap, UnderWay, Ended
  <2>. QED  BY <1>1, <2>1 DEF VInv, FailedByPatch
<1>. QED  BY <1>3, <1>4, <1>5, <1>6 DEF VInv

\* A commit stores a code or records a range.
LEMMA VoidCommitStep ==
    ASSUME VInv, NInv', NEW t \in Tx, Commit(t)
    PROVE  VInv'
<1> DEFINE n == my[t].number
<1>1. /\ my \in [Tx -> Requests] /\ my[t] \in Requests /\ pc \in [Tx -> Labels]
      /\ Free \notin Tx /\ holder \in Tx \cup {Free} /\ Tx \subseteq Rows
      /\ code \in [Rows -> Nat] /\ counter \in Nat /\ KindAt(t) /\ OwnRow(t)
      /\ Seen(t) \in Nat /\ Seen(t) >= counter
  BY CodesAssumption DEF VInv, NInv, IInv, Shape, KindsAgree, RowsOwned, Rows, HolderRaises,
     Seen, Requests
<1>2. /\ At(t, "commit") /\ UNCHANGED << type, outside, strayed >> /\ counter' = Seen(t)
      /\ my' = [my EXCEPT ![t].late = FALSE]
      /\ pc' = [pc EXCEPT ![t] = "done"]
      /\ holder' = IF holder = t THEN Free ELSE holder
  BY DEF Commit, End, Go, places
<1>3. /\ \A u \in Tx : /\ my'[u].kind = my[u].kind /\ my'[u].number = my[u].number
                       /\ my'[u].top = my[u].top /\ my'[u].met = my[u].met
                       /\ my'[u].row = my[u].row
                       /\ my'[u].found = my[u].found /\ my'[u].value = my[u].value
      /\ pc'[t] = "done" /\ \A u \in Tx \ {t} : pc'[u] = pc[u] /\ my'[u] = my[u]
      /\ t \in UnderWay
  BY <1>1, <1>2 DEF Requests, UnderWay, Ended, At
<1>4. /\ \A a \in Tx : my[a].kind # "none" =>
             /\ MetByVoid(a) => MetByVoid(a)'
             /\ Adjusted(a) => Adjusted(a)'
             /\ PatchAhead(a) => PatchAhead(a)'
             /\ \A b \in Tx : my[b].kind # "none" => (Overlap(a, b)' <=> Overlap(a, b))
      /\ \A x : MovedHere(x) => MovedHere(x)'
      /\ \A i : Beneath(i) => Beneath(i)'
  <2>1. SameRequests
    BY <1>3 DEF SameRequests
  <2>. QED  BY <1>3, <2>1, WitnessesKept DEF VInv, NInv
<1>5. \A u \in Tx \ {t} : u \in UnderWay => Overlap(t, u) /\ Overlap(u, t)
  BY <1>3 DEF VInv, NInv, IInv, AllMeet
<1>6. VoidReached'
  <2> SUFFICES ASSUME NEW u \in Tx, my[u].kind = "void", pc'[u] \in {"collect", "commit"}
               PROVE  my[u].top <= Seen(u)' \/ Adjusted(u)'
    BY <1>3 DEF VoidReached
  <2>1. u # t /\ (my[u].top <= Seen(u) \/ Adjusted(u))
    BY <1>3 DEF VInv, VoidReached
  <2>2. Seen(u) \in Nat /\ Seen(u)' \in Nat /\ my[u].top \in Nat /\ Seen(u)' >= Seen(u)
    BY <1>1, <1>2, <1>3, <2>1 DEF Seen, Requests
  <2>. QED  BY <1>4, <2>1, <2>2
<1>7. FailedByPatch'
  BY <1>2, <1>3, <1>4 DEF VInv, FailedByPatch
<1>8. CASE my[t].kind = "void"
  <2>1. type = "NFE"
    BY <1>8 DEF VInv, VoidsOfInvoices
  <2>2. /\ code' = code
        /\ voided' = voided \cup {<< n, my[t].top >>} /\ closed' = closed \cup my[t].found
    BY <1>8 DEF Commit
  <2>3. \A i \in Nat : Ranges(i)' # {} => Ranges(i) # {} \/ i \in n .. my[t].top
    BY <2>2 DEF Ranges
  <2>4. my[t].top \in Nat /\ (my[t].top <= Seen(t) \/ Adjusted(t))
    BY <1>1, <1>2, <1>8 DEF VInv, VoidReached, At, Requests
  <2>5. Adjusted(t) => \A i : i \in n .. my[t].top => Beneath(i)'
    BY <1>4, <1>8 DEF Beneath
  <2>6. DrawnClear'
    <3> SUFFICES ASSUME NEW u \in Tx \ {t}, my[u].kind = "draw",
                        pc[u] \in {"insert", "commit"}
                 PROVE  (Ranges(my[u].number) = {})' \/ Beneath(my[u].number)'
      BY <1>2, <1>3 DEF DrawnClear
    <3>1. holder = u /\ my[u].number > counter /\ my[u].number \in Nat
      BY <1>1 DEF VInv, NInv, DrawnAhead, Requests
    <3>2. /\ Ranges(my[u].number) = {} \/ Beneath(my[u].number)
          /\ Seen(t) = counter
      BY <1>1, <2>1, <3>1 DEF VInv, DrawnClear, Seen
    <3>3. my'[u].number = my[u].number
          /\ (my[u].number \in n .. my[t].top => Adjusted(t))
      BY <1>1, <1>3, <2>4, <3>1, <3>2
    <3>4. Beneath(my[u].number) => Beneath(my[u].number)'
      BY <1>4, <3>3 DEF Beneath
    <3>5. my[u].number \in n .. my[t].top => Beneath(my[u].number)'
      BY <2>5, <3>3 DEF Beneath
    <3>6. (Ranges(my[u].number) # {})' => Ranges(my[u].number) # {} \/ my[u].number \in n .. my[t].top
      BY <2>3, <3>1, <3>3 DEF Ranges
    <3>. QED  BY <3>2, <3>4, <3>5, <3>6
  <2>7. HandsClear'
    <3> SUFFICES ASSUME NEW u \in Tx \ {t}, my[u].kind = "informed",
                        pc[u] \in {"floor", "insert", "commit"}
                 PROVE  MetByVoid(u)'
      BY <1>2, <1>3, <1>8 DEF HandsClear
    <3>1. u \in UnderWay
      BY DEF UnderWay, Ended
    <3>2. MetByVoid(u)
      BY <1>5, <1>8, <3>1 DEF MetByVoid
    <3>. QED  BY <1>4, <3>2
  <2>8. FoundAll'
    <3> SUFFICES ASSUME NEW u \in Tx \ {t}, NEW x \in Rows \ strayed, my[u].kind = "void",
                        At(u, "commit"), code[x] \in my[u].number .. my[u].top
                 PROVE  \/ x \in my[u].found \/ MovedHere(x)' \/ Adjusted(u)'
                        \/ x \in Tx /\ my[x].kind = "informed" /\ Overlap(x, u)'
      BY <1>2, <1>3, <2>2 DEF FoundAll, At
    <3>. QED  BY <1>4 DEF VInv, FoundAll
  <2>9. AllClosed'
    <3> SUFFICES ASSUME NEW x \in Rows \ strayed, x \notin closed', Ranges(code[x])' # {}
                 PROVE  \/ MovedHere(x)' \/ Beneath(code[x])'
                        \/ x \in Tx /\ my[x].kind = "informed" /\ MetByVoid(x)'
      BY <1>2, <1>3, <2>2 DEF AllClosed
    <3>1. CASE Ranges(code[x]) # {}
      <4>1. \/ MovedHere(x) \/ Beneath(code[x])
            \/ x \in Tx /\ my[x].kind = "informed" /\ MetByVoid(x)
        BY <2>2, <3>1 DEF VInv, AllClosed
      <4>2. Beneath(code[x]) => Beneath(code[x])'
        BY <1>4, <2>2 DEF Beneath
      <4>. QED  BY <1>4, <4>1, <4>2
    <3>2. CASE code[x] \in n .. my[t].top
      <4>1. \/ MovedHere(x) \/ Adjusted(t)
            \/ x \in Tx /\ my[x].kind = "informed" /\ Overlap(x, t)
        BY <1>2, <1>8, <2>2, <3>2 DEF VInv, FoundAll
      <4>2. Adjusted(t) => Beneath(code[x])'
        BY <2>2, <2>5, <3>2 DEF Beneath
      <4>3. x \in Tx /\ my[x].kind = "informed" /\ Overlap(x, t) => MetByVoid(x)'
        BY <1>4, <1>8 DEF MetByVoid
      <4>. QED  BY <1>4, <4>1, <4>2, <4>3
    <3>3. Ranges(code[x])' = {y \in voided' : code[x] \in y[1] .. y[2]}
      BY <2>2 DEF Ranges
    <3>. QED  BY <1>1, <2>2, <3>1, <3>2, <3>3 DEF Ranges
  <2>10. VoidsOfInvoices' /\ VoidsPositive'
    BY <1>2, <1>3, <1>8, <2>1, <2>2 DEF VInv, VoidsOfInvoices, VoidsPositive
  <2>. QED  BY <1>6, <1>7, <2>6, <2>7, <2>8, <2>9, <2>10 DEF VInv
<1>9. CASE my[t].kind # "void"
  <2>1. /\ UNCHANGED << voided, closed >> /\ my[t].kind \in {"draw", "informed", "patch"}
        /\ type = "NFE" => /\ my[t].kind # "patch" /\ code'[t] = n
                           /\ \A x \in Rows \ {t} : code'[x] = code[x]
    BY <1>1, <1>2, <1>9 DEF Commit, KindAt, OwnRow, At, Coded
  <2>2. \A i : Ranges(i)' = Ranges(i)
    BY <2>1 DEF Ranges
  <2>3. VoidsOfInvoices' /\ VoidsPositive'
    BY <1>2, <1>3, <2>1 DEF VInv, VoidsOfInvoices, VoidsPositive
  <2>4. DrawnClear'
    <3> SUFFICES ASSUME type = "NFE", NEW u \in Tx \ {t}, my[u].kind = "draw",
                        pc[u] \in {"insert", "commit"}
                 PROVE  Ranges(my[u].number)' = {} \/ Beneath(my[u].number)'
      BY <1>2, <1>3 DEF DrawnClear
    <3>1. Ranges(my[u].number)' = Ranges(my[u].number)
      BY <1>3, <2>1 DEF Ranges
    <3>2. Beneath(my[u].number) => Beneath(my[u].number)'
      BY <1>3, <1>4 DEF Beneath
    <3>. QED  BY <3>1, <3>2 DEF VInv, DrawnClear
  <2>5. HandsClear'
    BY <1>2, <1>3, <1>4, <2>2 DEF VInv, HandsClear
  <2>6. FoundAll'
    <3> SUFFICES ASSUME NEW u \in Tx \ {t}, NEW x \in Rows \ strayed, my[u].kind = "void",
                        pc[u] = "commit", code'[x] \in my[u].number .. my[u].top
                 PROVE  \/ x \in my[u].found \/ MovedHere(x)' \/ Adjusted(u)'
                        \/ x \in Tx /\ my[x].kind = "informed" /\ Overlap(x, u)'
      BY <1>2, <1>3 DEF FoundAll, At
    <3>1. type = "NFE" /\ u \in UnderWay
      BY DEF VInv, VoidsOfInvoices, UnderWay, Ended
    <3>2. CASE x # t
      BY <1>4, <2>1, <3>1, <3>2 DEF VInv, FoundAll, At
    <3>3. CASE x = t /\ my[t].kind = "informed"
      BY <1>4, <1>5, <3>1, <3>3
    <3>4. CASE x = t /\ my[t].kind = "draw"
      <4>1. holder = t /\ n > counter /\ n \in Nat
        BY <1>1, <1>2, <3>4 DEF VInv, NInv, DrawnAhead, At, Requests
      <4>2. /\ my[u].top <= counter \/ Adjusted(u)
            /\ my[u].top \in Nat /\ my[u].number \in Nat
        BY <1>1, <4>1 DEF VInv, VoidReached, Seen, Requests
      <4>3. Adjusted(u)
        BY <1>1, <2>1, <3>1, <3>4, <4>1, <4>2
      <4>. QED  BY <1>4, <4>3
    <3>. QED  BY <2>1, <3>1, <3>2, <3>3, <3>4
  <2>7. ASSUME NEW x \in Rows \ strayed, NEW c, c = code'[x], x \notin closed, Ranges(c) # {}
        PROVE  \/ MovedHere(x)' \/ Beneath(c)'
               \/ x \in Tx /\ my[x].kind = "informed" /\ MetByVoid(x)'
    <3>1. type = "NFE"
      BY <2>7 DEF VInv, VoidsOfInvoices, Ranges
    <3>2. CASE x # t
      <4>1. c = code[x]
        BY <2>1, <2>7, <3>1, <3>2
      <4>. QED  BY <1>4, <2>7, <4>1 DEF VInv, AllClosed
    <3>3. CASE x = t
      <4>0. c = my[t].number
        BY <2>1, <2>7, <3>1, <3>3
      <4>1. my[t].kind = "draw" => Beneath(c)
        BY <1>2, <2>7, <3>1, <4>0 DEF VInv, DrawnClear, At
      <4>2. my[t].kind = "informed" => MetByVoid(t)
        BY <1>2, <2>7, <3>1, <4>0 DEF VInv, HandsClear, At
      <4>. QED  BY <1>4, <2>1, <3>1, <3>3, <4>1, <4>2
    <3>. QED  BY <3>2, <3>3
  <2>8. AllClosed'
    BY <1>2, <1>3, <2>1, <2>2, <2>7 DEF AllClosed, Ranges, Beneath
  <2>. QED  BY <1>6, <1>7, <2>3, <2>4, <2>5, <2>6, <2>8 DEF VInv
<1>. QED  BY <1>8, <1>9

-----------------------------------------------------------------------------
LEMMA VoidsStep == VInv /\ [Next]_vars => VInv'
<1> SUFFICES ASSUME VInv, [Next]_vars PROVE VInv'
  OBVIOUS
<1>1. NInv'
  BY NumbersStep DEF VInv
<1>2. ASSUME NEW t \in Tx, RequestStep(t) \/ Fail(t) PROVE VInv'
  BY <1>1, <1>2, VoidSequenceSteps, VoidCheckingSteps, VoidPatchStep, VoidMoveStep, VoidCommitStep,
     VoidSetStep DEF RequestStep
<1>3. CASE UNCHANGED vars
  <2>1. VoidsOfInvoices' /\ VoidsPositive' /\ VoidReached' /\ DrawnClear' /\ HandsClear'
    BY <1>3 DEF vars, VInv, VoidsOfInvoices, VoidsPositive, VoidReached, DrawnClear, HandsClear,
       Seen, Ranges, Beneath, MetByVoid, Adjusted, Overlap
  <2>2. FoundAll' /\ AllClosed'
    BY <1>3 DEF vars, places, VInv, FoundAll, AllClosed, MovedHere, Beneath, MetByVoid, Adjusted,
       Ranges, Overlap, At
  <2>3. FailedByPatch'
    BY <1>3 DEF vars, VInv, FailedByPatch, PatchAhead, Adjusted, Overlap, UnderWay
  <2>. QED  BY <1>1, <2>1, <2>2, <2>3 DEF VInv
<1>. QED  BY <1>1, <1>2, <1>3, VoidStartStep DEF Next

\* The invariant behind the next two theorems: what a range that is about to be
\* recorded has raised, read and met, and why a creation failed.
THEOREM VoidsInductive == Spec => []VInv
<1>. QED  BY VoidsInit, VoidsStep, PTL DEF Spec

\* inutilizeRange: an invoice whose number was voided is closed, but for one that
\* was numbered by hand or moved there by a PATCH, or the sequence was set by
\* hand while the range was being voided.
THEOREM VoidedAreClosed == Spec => []VoidedNotesAreClosed
<1>1. VInv => VoidedNotesAreClosed
  BY DEF VInv, AllClosed, MovedHere, Beneath, MetByVoid, VoidedNotesAreClosed
<1>. QED  BY <1>1, VoidsInductive, PTL

\* resolveEntityCode: an automatic code is found, but for patches that store codes
\* ahead of the sequence and for updates by hand.
THEOREM AutomaticAreFound == Spec => []AutomaticNumbersAreFound
<1>1. VInv => AutomaticNumbersAreFound
  BY DEF VInv, FailedByPatch, PatchAhead, AutomaticNumbersAreFound
<1>. QED  BY <1>1, VoidsInductive, PTL

-----------------------------------------------------------------------------
(***************************************************************************)
(* Waiting in a circle: from the invariant of the statements, which says   *)
(* who has written its code and what it may still wait for.                *)
(***************************************************************************)

\* Who holds the sequence waits for nobody that waits, or for the patch of a
\* member: everyone else writes what others wait for in the last step before
\* the commit, when it holds all it waits for.
LEMMA WaitedForWaits ==
    ASSUME IInv, NEW t \in Tx, NEW u \in Tx, NEW v \in Tx, WaitsFor(t, u), WaitsFor(u, v)
    PROVE  \/ type = "MEMBRO" /\ my[u].kind = "patch"
           \/ pc[t] \notin {"insert", "write"} /\ pc[u] \in {"insert", "write"}
<1>1. CASE pc[t] \in {"insert", "write"} /\ u \in Writers(t, my[t].number, my[t].row)
  <2>1. Pending(u)
    BY <1>1 DEF Writers
  <2>2. ~At(u, "commit")
    BY DEF WaitsFor, At
  <2>. QED  BY <2>1, <2>2, PendingLabels
<1>2. CASE pc[t] \in {"next", "set", "floor"} /\ holder = u /\ u # t
  <2>1. pc[u] \in {"insert", "write"}
    BY <1>2 DEF WaitsFor, At
  <2>. QED  BY <1>2, <2>1
<1>. QED  BY <1>1, <1>2 DEF WaitsFor, At

LEMMA CircleHasMemberPatch ==
    ASSUME IInv
    PROVE  DeadlockNeedsMemberPatch
<1> SUFFICES ASSUME NEW S \in SUBSET Tx, S # {},
                    \A t \in S : \E u \in S : WaitsFor(t, u)
             PROVE  type = "MEMBRO" /\ \E t \in S : my[t].kind = "patch"
  BY DEF DeadlockNeedsMemberPatch
<1>1. PICK t \in S : TRUE
  OBVIOUS
<1>2. PICK u \in S : WaitsFor(t, u)
  OBVIOUS
<1>3. PICK v \in S : WaitsFor(u, v)
  OBVIOUS
<1>4. PICK w \in S : WaitsFor(v, w)
  OBVIOUS
<1>. QED  BY <1>2, <1>3, <1>4, WaitedForWaits

\* Requests wait for each other in a circle only if one is the patch of the code
\* of a member (memberships/service.ts): no transaction but that one has written
\* a code while it may still wait (shared/sequences/enterprise-sequence.ts).
THEOREM CircleNeedsMemberPatch == Spec => []DeadlockNeedsMemberPatch
<1>1. IInv => DeadlockNeedsMemberPatch
  BY CircleHasMemberPatch
<1>. QED  BY <1>1, Inductive, PTL

=============================================================================
