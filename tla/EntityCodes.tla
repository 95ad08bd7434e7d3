---------------------------- MODULE EntityCodes ----------------------------
(***************************************************************************)
(* A sequence of an enterprise and the codes drawn from it.                 *)
(*                                                                         *)
(* Models nextEnterpriseSequence, syncEnterpriseSequenceFloor and           *)
(* resolveEntityCode of shared/sequences, the numbers of invoices of        *)
(* nfe/sequences.ts, and their callers: the creation of products, members,  *)
(* sales and invoices, the patch of the code of a product or a member, the  *)
(* PATCH of an invoice that moves it to or from this sequence,              *)
(* inutilizeRange, and the update of the sequence by hand.  A transaction   *)
(* that changed the sequence holds its row until it ends.  The floor is     *)
(* raised by an UPDATE that only looks for a smaller value, so that a       *)
(* sequence that is high enough is not locked.                              *)
(* The sequence of invoices numbers the own ones of one model, whatever     *)
(* their series; ranges are voided in its current series.                   *)
(***************************************************************************)
EXTENDS Integers

CONSTANTS
    Tx,          \* the requests; a creation makes the row with its name
    Used,        \* rows 1 .. Used exist, each with its name as code
    Outside,     \* invoices of another model or of a supplier
    Numbers,     \* the numbers given by hand
    MAX_ATTEMPTS \* draws before resolveEntityCode gives up

Types == {"PRODUTO", "MEMBRO", "VENDA", "NFE"}
Rows == Tx \cup (1 .. Used) \cup Outside
Free == "free"

ASSUME CodesAssumption ==
    /\ Used \in Nat /\ Numbers \subseteq Nat \ {0} /\ MAX_ATTEMPTS \in Nat \ {0}
    /\ Tx \cap Nat = {} /\ Free \notin Tx /\ Outside \cap (Tx \cup Nat) = {}

VARIABLES
    type,    \* what this sequence numbers
    counter, \* its committed value
    holder,  \* the transaction that holds its row, or Free
    code,    \* code[r]: the committed code of row r, 0 if this sequence has none
    outside, \* the invoices that another sequence or a supplier numbered
    strayed, \* the own invoices of another series
    voided,  \* the committed ranges of inutilized numbers
    closed,  \* the invoices that are INUTILIZADA
    pc,      \* where each request is
    my       \* my[t]: the request of t

places == << outside, strayed >>
vars == << type, counter, holder, code, places, voided, closed, pc, my >>

\* number and top: the code, or the ends of the range; value: the uncommitted
\* value of the sequence; wrote: the transaction has written its code;
\* late: a code is stored whose floor is not raised (an invoice's never is);
\* found: the invoices read; met: the requests that were under way.
Idle == [kind |-> "none", row |-> 0, number |-> 0, top |-> 0, value |-> 0, tries |-> 0,
         wrote |-> FALSE, late |-> FALSE, found |-> {}, met |-> {}]

Init ==
    /\ type \in Types
    /\ counter = Used /\ holder = Free
    /\ code = [r \in Rows |-> IF r \in 1 .. Used THEN r ELSE 0]
    /\ outside = (IF type = "NFE" THEN Outside ELSE {}) /\ strayed = {}
    /\ voided = {} /\ closed = {}
    /\ pc = [t \in Tx |-> "new"]
    /\ my = [t \in Tx |-> Idle]

-----------------------------------------------------------------------------
Ended == {"done", "conflict", "gave up"}
UnderWay == {t \in Tx : pc[t] \notin Ended \cup {"new"}}
At(t, label) == pc[t] = label
Go(t, label) == pc' = [pc EXCEPT ![t] = label]
Coded == {"PRODUTO", "MEMBRO"}

\* Mutant: the sequence is read and written back without its row lock.
NoLock(t) == TRUE

\* The rows of the sequence and of the codes, and what the transaction of t
\* sees and may lock.
Seen(t) == IF holder = t THEN my[t].value ELSE counter
MayLock(t) == holder \in {t, Free}
Holders(n) == {r \in Rows : code[r] = n}
Ranges(n) == {r \in voided : n \in r[1] .. r[2]}

\* Transactions whose uncommitted code, or the one they give up, is n, or that
\* hold the row r.
Pending(t) == my[t].wrote /\ t \in UnderWay
Writers(t, n, r) ==
    {u \in Tx \ {t} : /\ Pending(u)
                      /\ \/ type # "NFE" /\ (my[u].number = n \/ code[my[u].row] = n)
                         \/ my[u].row = r}

OnlyRequest == UNCHANGED << type, counter, holder, code, places, voided, closed >>
OnlyLock == UNCHANGED << type, counter, code, places, voided, closed >>

\* The end of a request without a commit.
End(t, label) ==
    /\ Go(t, label)
    /\ holder' = IF holder = t THEN Free ELSE holder

Exists(r) == code[r] # 0 \/ r \in outside
Kinds ==
    {"draw", "informed", "adjust"} \cup (IF type \in Coded THEN {"patch"} ELSE {})
                                   \cup (IF type = "NFE" THEN {"move", "void"} ELSE {})

\* A request arrives: a creation without or with its code, the patch of a code,
\* an update of the sequence, the PATCH that moves an invoice, the inutilization
\* of a range.
Start(t) ==
    /\ At(t, "new")
    /\ \E k \in Kinds, n \in Numbers, m \in Numbers, r \in Rows :
        /\ IF k \in {"patch", "move"} THEN Exists(r) ELSE r = t
        /\ n <= m /\ (k # "void" => n = m)
        /\ my' = [my EXCEPT ![t] = [Idle EXCEPT
                    !.kind = k, !.row = r, !.number = IF k \in {"draw", "move"} THEN 0 ELSE n,
                    !.top = IF k \in {"draw", "move"} THEN 0 ELSE m, !.met = UnderWay]]
        /\ Go(t, CASE k = "draw" -> "next"
                   [] k = "adjust" -> "read"
                   [] OTHER -> "check")
    /\ OnlyRequest

-----------------------------------------------------------------------------
(***************************************************************************)
(* The sequence: nextEnterpriseSequence, syncEnterpriseSequenceFloor.       *)
(***************************************************************************)
\* Mutant: the number before the increment is used.
NextBeforeIncrement(t) ==
    /\ At(t, "next") /\ MayLock(t)
    /\ holder' = t
    /\ my' = [my EXCEPT ![t].value = Seen(t), ![t].number = Seen(t), ![t].tries = @ + 1]
    /\ Go(t, "inspect")
    /\ OnlyLock

NextSequence(t) ==
    /\ At(t, "next") /\ MayLock(t)
    /\ holder' = t
    /\ LET n == Seen(t) + 1
       IN  my' = [my EXCEPT ![t].value = n, ![t].number = n, ![t].tries = @ + 1]
    /\ Go(t, "inspect")
    /\ OnlyLock

AfterFloor(t) ==
    CASE my[t].kind = "draw" -> "next"
      [] my[t].kind = "informed" -> "insert"
      [] my[t].kind = "patch" -> "commit"
      [] my[t].kind = "void" -> "collect"

\* Mutant: the floor is the number before the code.
SyncFloorBelow(t) ==
    /\ At(t, "floor")
    /\ \/ /\ Seen(t) >= my[t].top - 1
          /\ UNCHANGED << holder, my >>
       \/ /\ Seen(t) < my[t].top - 1 /\ MayLock(t)
          /\ holder' = t
          /\ my' = [my EXCEPT ![t].value = my[t].top - 1]
    /\ Go(t, AfterFloor(t))
    /\ OnlyLock

SyncFloor(t) ==
    /\ At(t, "floor")
    /\ \/ /\ Seen(t) >= my[t].top
          /\ UNCHANGED << holder, my >>
       \/ /\ Seen(t) < my[t].top /\ MayLock(t)
          /\ holder' = t
          /\ my' = [my EXCEPT ![t].value = my[t].top]
    /\ Go(t, AfterFloor(t))
    /\ OnlyLock

(***************************************************************************)
(* Creations: resolveEntityCode, nextNfeNumber, assertNfeNumberAvailable    *)
(* and the INSERT.                                                          *)
(***************************************************************************)
\* What was drawn: a code taken by hand is skipped, and so is a voided range.
Inspect(t) ==
    /\ At(t, "inspect")
    /\ LET n == my[t].number
           taken == type \in Coded /\ Holders(n) # {}
       IN  \/ /\ taken /\ my[t].tries = MAX_ATTEMPTS
              /\ End(t, "gave up") /\ UNCHANGED my
           \/ /\ taken /\ my[t].tries < MAX_ATTEMPTS
              /\ Go(t, "next") /\ UNCHANGED << holder, my >>
           \/ /\ ~taken /\ (type = "NFE" => Ranges(n) = {})
              /\ Go(t, "insert") /\ UNCHANGED << holder, my >>
           \/ /\ type = "NFE"
              /\ \E r \in Ranges(n) : my' = [my EXCEPT ![t].top = r[2]]
              /\ Go(t, "floor") /\ UNCHANGED holder
    /\ OnlyLock

\* Mutant: a code given by hand leaves the sequence alone.
CheckFreeOnly(t) ==
    /\ At(t, "check") /\ my[t].kind \in {"informed", "patch"}
    /\ LET n == my[t].number
           free == Holders(n) \ {my[t].row} = {} /\ (type = "NFE" => Ranges(n) = {})
       IN  \/ ~free /\ Go(t, "done")
           \/ free /\ my[t].kind = "informed" /\ Go(t, "insert")
           \/ free /\ my[t].kind = "patch" /\ Go(t, "write")
    /\ UNCHANGED my /\ OnlyRequest

\* The code given by hand is free, for now.
CheckFree(t) ==
    /\ At(t, "check") /\ my[t].kind \in {"informed", "patch"}
    /\ LET n == my[t].number
           free == Holders(n) \ {my[t].row} = {} /\ (type = "NFE" => Ranges(n) = {})
       IN  \/ ~free /\ Go(t, "done")
           \/ free /\ my[t].kind = "informed" /\ Go(t, "floor")
           \/ free /\ my[t].kind = "patch" /\ Go(t, "write")
    /\ UNCHANGED my /\ OnlyRequest

\* Mutant: the row is inserted before the floor of its code is raised.
InsertBeforeFloor(t) ==
    /\ pc[t] \in {"floor", "insert"} /\ my[t].kind \in {"draw", "informed"}
    /\ At(t, "floor") => my[t].kind = "informed" /\ ~my[t].wrote
    /\ Writers(t, my[t].number, t) = {}
    /\ IF type # "NFE" /\ Holders(my[t].number) # {}
       THEN End(t, "conflict") /\ UNCHANGED my
       ELSE /\ my' = [my EXCEPT ![t].wrote = TRUE]
            /\ Go(t, IF At(t, "floor") THEN "floor" ELSE "commit")
            /\ UNCHANGED holder
    /\ OnlyLock

\* The unique index waits for another transaction that writes the same code;
\* the number of an invoice has none.
Insert(t) ==
    /\ At(t, "insert")
    /\ Writers(t, my[t].number, t) = {}
    /\ IF type # "NFE" /\ Holders(my[t].number) # {}
       THEN End(t, "conflict") /\ UNCHANGED my
       ELSE /\ my' = [my EXCEPT ![t].wrote = TRUE]
            /\ Go(t, "commit") /\ UNCHANGED holder
    /\ OnlyLock

(***************************************************************************)
(* patch: the UPDATE of a product commits by itself, and its floor is       *)
(* raised by a second transaction; a member has one transaction for both.   *)
(* The PATCH of an invoice checks no number and raises no floor.            *)
(***************************************************************************)
PatchCode(t) ==
    /\ At(t, "write")
    /\ LET n == my[t].number
           r == my[t].row
           stored == Holders(n) \ {r} = {}
       IN  /\ Writers(t, n, r) = {}
           /\ Go(t, IF stored THEN "floor" ELSE "conflict")
           /\ code' = IF stored /\ type = "PRODUTO" THEN [code EXCEPT ![r] = n] ELSE code
           /\ my' = IF ~stored THEN my
                    ELSE IF type = "PRODUTO" THEN [my EXCEPT ![t].late = TRUE]
                    ELSE [my EXCEPT ![t].wrote = TRUE]
    /\ UNCHANGED << type, counter, holder, places, voided, closed >>

\* The draft is loaded; a closed invoice is none.
LoadDraft(t) ==
    /\ At(t, "check") /\ my[t].kind = "move"
    /\ Go(t, IF my[t].row \in closed THEN "done" ELSE "move")
    /\ UNCHANGED my /\ OnlyRequest

\* The UPDATE of model, series and issuance moves the invoice, with the number
\* it has: that of another model or of a supplier can be any.
PatchInvoice(t) ==
    /\ At(t, "move")
    /\ \E place \in {"here", "other series", "outside"}, number \in Numbers :
        LET r == my[t].row
            n == IF r \in outside THEN number ELSE code[r]
        IN  /\ code' = [code EXCEPT ![r] = IF place = "outside" THEN 0 ELSE n]
            /\ outside' = IF place = "outside" THEN outside \cup {r} ELSE outside \ {r}
            /\ strayed' = IF place = "other series" THEN strayed \cup {r} ELSE strayed \ {r}
            /\ my' = [my EXCEPT ![t].late = r \in outside \cup strayed /\ place # "outside"]
    /\ Go(t, "done")
    /\ UNCHANGED << type, counter, holder, voided, closed >>

(***************************************************************************)
(* inutilizeRange of the current series: the authority answers, and one     *)
(* transaction records the range, raises the floor and closes the invoices. *)
(***************************************************************************)
\* Mutant: the range does not raise the floor.
RangeWithoutFloor(t) ==
    /\ At(t, "check") /\ my[t].kind = "void"
    /\ LET overlap == \E n \in my[t].number .. my[t].top : Ranges(n) # {}
       IN  \/ Go(t, "done")
           \/ ~overlap /\ Go(t, "collect")
    /\ UNCHANGED my /\ OnlyRequest

CheckRange(t) ==
    /\ At(t, "check") /\ my[t].kind = "void"
    /\ LET overlap == \E n \in my[t].number .. my[t].top : Ranges(n) # {}
       IN  \/ Go(t, "done")
           \/ ~overlap /\ Go(t, "floor")
    /\ UNCHANGED my /\ OnlyRequest

Collect(t) ==
    /\ At(t, "collect")
    /\ my' = [my EXCEPT ![t].found =
                {r \in Rows \ strayed : code[r] \in my[t].number .. my[t].top}]
    /\ Go(t, "commit")
    /\ OnlyRequest

Commit(t) ==
    /\ At(t, "commit")
    /\ LET stores == my[t].kind \in {"draw", "informed"} \/ type = "MEMBRO"
       IN  code' = IF stores /\ my[t].kind # "void"
                   THEN [code EXCEPT ![my[t].row] = my[t].number] ELSE code
    /\ IF my[t].kind = "void"
       THEN /\ voided' = voided \cup {<< my[t].number, my[t].top >>}
            /\ closed' = closed \cup my[t].found
       ELSE UNCHANGED << voided, closed >>
    /\ counter' = Seen(t)
    /\ my' = [my EXCEPT ![t].late = FALSE]
    /\ End(t, "done")
    /\ UNCHANGED << type, places >>

(***************************************************************************)
(* update of enterprises/sequences: the largest code is read, then the      *)
(* sequence is set to what was asked.                                       *)
(***************************************************************************)
ReadLastUsed(t) ==
    /\ At(t, "read")
    /\ Go(t, IF \E r \in Rows : code[r] > my[t].number THEN "done" ELSE "set")
    /\ UNCHANGED my /\ OnlyRequest

SetSequence(t) ==
    /\ At(t, "set") /\ holder = Free
    /\ counter' = my[t].number
    /\ Go(t, "done")
    /\ UNCHANGED << type, holder, code, places, voided, closed, my >>

\* The request fails, is chosen to break a deadlock, or its process dies.
Fail(t) ==
    /\ t \in UnderWay
    /\ End(t, "done")
    /\ UNCHANGED my /\ OnlyLock

RequestStep(t) ==
    \/ NextSequence(t) \/ SyncFloor(t) \/ Inspect(t) \/ CheckFree(t) \/ Insert(t)
    \/ PatchCode(t) \/ LoadDraft(t) \/ PatchInvoice(t) \/ CheckRange(t)
    \/ Collect(t) \/ Commit(t) \/ ReadLastUsed(t) \/ SetSequence(t)

Next == \E t \in Tx : Start(t) \/ RequestStep(t) \/ Fail(t)

Spec == Init /\ [][Next]_vars

-----------------------------------------------------------------------------
Overlap(a, b) == a \in my[b].met \/ b \in my[a].met

\* The requests that were under way with an update of the sequence, and the
\* rows whose code such a request wrote or a patch stored ahead of its floor.
Adjusted(t) == \E u \in Tx : my[u].kind = "adjust" /\ Overlap(t, u)
Disturbed(r) == \E t \in Tx : my[t].row = r /\ (my[t].late \/ Adjusted(t))

TypeOK ==
    /\ type \in Types /\ counter \in Nat
    /\ code \in [Rows -> Nat] /\ closed \subseteq Rows
    /\ outside \subseteq Rows /\ strayed \subseteq Rows
    /\ \A r \in outside : code[r] = 0 /\ r \notin strayed
    /\ holder # Free => holder \in UnderWay /\ my[holder].value > counter
    /\ \A t \in Tx : my[t].row \in Rows \/ At(t, "new")

\* Two rows have the same code only if they are invoices: one was numbered by
\* hand while the other was being created, or a PATCH moved one to its number,
\* or one was numbered while the sequence was being set by hand.
NumbersCollideOnlyByHand ==
    \A a, b \in Rows :
        a # b /\ code[a] = code[b] /\ code[a] # 0 =>
            /\ type = "NFE"
            /\ \/ Disturbed(a) \/ Disturbed(b)
               \/ /\ a \in Tx /\ b \in Tx /\ Overlap(a, b)
                  /\ "informed" \in {my[a].kind, my[b].kind}

\* The sequence is never below a code that is in use, so that what it gives
\* out next is free, but for the code of a product between the UPDATE of its
\* patch and the floor, where the process may also have died, the number of an
\* invoice that a PATCH moved here, and a code that was stored while the
\* sequence was being set by hand.
CounterCoversCodes == \A r \in Rows : code[r] <= counter \/ Disturbed(r)

\* An automatic code is always found, unless a patch stored codes ahead of the
\* sequence, or an update of the sequence left codes ahead of it.  (A creation
\* that gives up rolls its draws back: the next one meets the same codes.)
AutomaticNumbersAreFound ==
    \A t \in Tx :
        my[t].kind = "draw" /\ pc[t] \in {"gave up", "conflict"} =>
            \E u \in Tx : \/ my[u].kind = "patch" /\ (my[u].late \/ Overlap(t, u))
                          \/ Adjusted(u)

\* An invoice whose number was voided is closed, unless its number was given
\* by hand while the range was being voided, a PATCH moved it to its number, or
\* the sequence was set by hand while the range was being voided.
VoidedNotesAreClosed ==
    \A r \in Rows \ strayed :
        Ranges(code[r]) # {} =>
            \/ r \in closed
            \/ \E t \in Tx : my[t].row = r /\ my[t].kind = "move" /\ my[t].late
            \/ \E u \in Tx : /\ my[u].kind = "void"
                             /\ \/ r \in Tx /\ my[r].kind = "informed" /\ Overlap(r, u)
                                \/ code[r] \in my[u].number .. my[u].top /\ Adjusted(u)

\* t waits for u: for the row of the sequence, or for a code or its row.
WaitsFor(t, u) ==
    \/ pc[t] \in {"next", "set"} /\ holder = u /\ u # t
    \/ At(t, "floor") /\ Seen(t) < my[t].top /\ holder = u /\ u # t
    \/ pc[t] \in {"insert", "write"} /\ u \in Writers(t, my[t].number, my[t].row)

\* Requests wait in a circle only if one of them is the patch of a member,
\* which writes the code before it raises the floor; all others write it when
\* they hold all they wait for.
DeadlockNeedsMemberPatch ==
    \A S \in SUBSET Tx :
        S # {} /\ (\A t \in S : \E u \in S : WaitsFor(t, u)) =>
            type = "MEMBRO" /\ \E t \in S : my[t].kind = "patch"
=============================================================================
