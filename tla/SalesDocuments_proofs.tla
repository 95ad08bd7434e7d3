------------------------ MODULE SalesDocuments_proofs ------------------------
(***************************************************************************)
(* Proofs about the documents of a sale.                                    *)
(*                                                                          *)
(* NfeDocument, for any number of requests and any contents: a closing      *)
(* status is one that the tax authority confirmed, and a sale that is set   *)
(* free has no invoice that could still be valid.                           *)
(*                                                                          *)
(* WorkOrder, for any number of requests, lines and quantities.  However    *)
(* the requests overlap, no line says that more of it was converted or      *)
(* returned than there is.  Unless a request other than a conversion        *)
(* overlapped another one, the order has the status its lines call for.     *)
(* Unless any two overlapped, what was converted of the order covers what   *)
(* its sales have of it, and what was returned of a sale agrees with the    *)
(* rows of its returns and with its status.                                 *)
(***************************************************************************)
EXTENDS NfeDocument, WorkOrder, FiniteSetTheorems, SumTheorems, TLAPS

Answers == {"none", "authorized", "duplicate", "denied", "registered", "homologated",
            "corrected", "rejected"}
Labels == {"new", "read", "write", "refresh", "sign", "letters", "post", "wait", "answered", "check", "close",
           "close range", "done"}
States == {"unknown", "authorized", "denied", "cancelled", "voided"}

Numbers == 0 .. MaxLetters
Numbered == (1 .. MaxLetters) \X Tx
Rows == [status : Statuses, content : Papers, protocol : BOOLEAN, linked : BOOLEAN,
         voided : BOOLEAN, letters : SUBSET Numbered]
Records == [state : States, content : Papers, letters : SUBSET Numbered]
Requests == [kind : Kinds \cup {"none"}, content : Papers, found : BOOLEAN,
             answer : Answers, seq : Numbers]
Messages == [tx : Tx, kind : Kinds, content : Papers, seq : Numbers]

\* The shape of the state.
Shape ==
    /\ note \in Rows
    /\ authority \in Records
    /\ wire \subseteq Messages
    /\ pc \in [Tx -> Labels]
    /\ my \in [Tx -> Requests]
    /\ overlap \in BOOLEAN /\ astray \in BOOLEAN

\* A request has at most one message under way, which says what the request
\* knows, and waits for its answer or has failed.
OneMessage ==
    /\ \A m \in wire :
        /\ pc[m.tx] \in {"wait", "done"} /\ my[m.tx].answer = "none"
        /\ m = [tx |-> m.tx, kind |-> my[m.tx].kind, content |-> my[m.tx].content,
                seq |-> my[m.tx].seq]
        /\ m.kind = "correct" => m.seq # 0
    /\ \A t \in Tx : my[t].kind = "correct" =>
        pc[t] \notin {"refresh", "sign", "check"} /\ (At(t, "post") => my[t].seq # 0)
    /\ \A t \in Tx : pc[t] \notin {"answered", "close range", "done"} => my[t].answer = "none"

\* What an answer to t says remains true: the authority does not take it back.
Holds(t, answer) ==
    /\ answer \in {"authorized", "duplicate"} => authority.state \in {"authorized", "cancelled"}
    /\ answer = "registered" => authority.state = "cancelled"
    /\ answer = "denied" => authority.state = "denied"
    /\ answer = "homologated" => authority.state = "voided"
    /\ answer = "corrected" =>
        my[t].kind = "correct" /\ << my[t].seq, t >> \in authority.letters \cap Numbered

\* Requests that are about to close the invoice know that they may.
ClosersKnow ==
    \A t \in Tx :
        /\ Holds(t, my[t].answer)
        /\ At(t, "close") => authority.state = "voided"
        /\ At(t, "close range") => my[t].answer = "homologated"

IInv ==
    /\ Shape
    /\ OneMessage
    /\ ClosersKnow
    /\ AuthorityConfirmsStatus
    /\ FreeSaleHasNoInvoice

-----------------------------------------------------------------------------
\* What an answer of the authority does to the invoice there.
LEMMA AnswerIsKept ==
    ASSUME Shape, NEW m \in wire, m.kind = "correct" => m.seq # 0, NEW o \in Outcomes(m)
    PROVE  /\ o[1] \in Records
           /\ authority.letters \subseteq o[1].letters
           /\ o[2] \in Answers \ {"none"}
           /\ \/ o[1].state = authority.state
              \/ authority.state = "unknown"
              \/ authority.state = "authorized" /\ o[1].state = "cancelled"
           /\ o[2] \in {"authorized", "duplicate"} => o[1].state = "authorized"
           /\ o[2] = "registered" => o[1].state = "cancelled"
           /\ o[2] = "denied" => o[1].state = "denied"
           /\ o[2] = "homologated" => o[1].state = "voided"
           /\ o[2] = "corrected" => m.kind = "correct" /\ << m.seq, m.tx >> \in o[1].letters
<1>1. m \in Messages /\ m.content \in Papers
  BY DEF Shape, Messages
<1>2. authority \in Records
  BY DEF Shape
<1> DEFINE Becomes(state) == [state |-> state, content |-> m.content,
                              letters |-> authority.letters]
<1>3. \/ o = << authority, "rejected" >>
      \/ /\ authority.state = "unknown"
         /\ o = << Becomes("authorized"), "authorized" >>
      \/ /\ authority.state = "unknown"
         /\ o = << Becomes("denied"), "denied" >>
      \/ /\ authority.state = "authorized"
         /\ o = << [authority EXCEPT !.state = "cancelled"], "registered" >>
      \/ /\ authority.state = "unknown"
         /\ o = << Becomes("voided"), "homologated" >>
      \/ /\ authority.state = "authorized"
         /\ o = << authority, "duplicate" >>
      \/ /\ m.kind = "correct"
         /\ o = << [authority EXCEPT !.letters = @ \cup {<< m.seq, m.tx >>}], "corrected" >>
  BY DEF Outcomes
<1>4. m.kind = "correct" => << m.seq, m.tx >> \in Numbered
  BY <1>1, NfeAssumption DEF Messages, Numbers, Numbered
<1>. QED  BY <1>1, <1>2, <1>3, <1>4 DEF States, Answers, Records

LEMMA DrawnIsPaper == Drawn \in Papers
  BY NfeAssumption DEF Drawn, Papers

LEMMA InitInvariant == Init => IInv
<1> SUFFICES ASSUME Init PROVE IInv
  OBVIOUS
<1>1. Shape
  <2>1. Idle \in Requests
    BY DrawnIsPaper, NfeAssumption DEF Idle, Answers, Requests, Numbers
  <2>2. note \in Rows
    BY DrawnIsPaper DEF Init, Statuses, Rows
  <2>3. authority \in Records
    BY DrawnIsPaper DEF Init, States, Records
  <2>4. pc \in [Tx -> Labels]
    BY DEF Init, Labels
  <2>. QED  BY <2>1, <2>2, <2>3, <2>4 DEF Init, Shape
<1>2. OneMessage /\ ClosersKnow
  BY DEF Init, OneMessage, ClosersKnow, Holds, Idle, At
<1>3. AuthorityConfirmsStatus /\ FreeSaleHasNoInvoice
  BY DEF Init, AuthorityConfirmsStatus, FreeSaleHasNoInvoice
<1>. QED  BY <1>1, <1>2, <1>3 DEF IInv

\* Steps of t that only move it on, without a change of what it was answered.
LEMMA QuietStep ==
    ASSUME IInv, NEW t \in Tx, NEW label \in Labels, Go(t, label), OnlyRequest,
           my' \in [Tx -> Requests],
           \A u \in Tx :
                /\ my'[u].answer = my[u].answer /\ my'[u].kind = my[u].kind
                /\ u = t \/ my'[u] = my[u],
           my'[t].seq = my[t].seq \/ my[t].answer # "corrected",
           my[t].kind = "correct" => label \notin {"refresh", "sign", "check"} /\ (label = "post" => my'[t].seq # 0),
           pc[t] \notin {"wait", "done"}, label # "wait",
           pc[t] = "answered" \/ label \notin {"answered", "close range"},
           label \in {"answered", "close range", "done"} \/ pc[t] # "answered",
           pc[t] # "close range" \/ label = "done",
           label = "close" => authority.state = "voided",
           label = "close range" => my[t].answer = "homologated"
    PROVE  IInv'
<1>1. Shape'
  BY DEF IInv, Shape, Go, OnlyRequest
<1>2. OneMessage'
  <2>1. \A m \in wire : m.tx \in Tx /\ m.tx # t
    BY DEF IInv, Shape, OneMessage, Messages
  <2>2. \A u \in Tx \ {t} : pc'[u] = pc[u] /\ my'[u] = my[u]
    BY DEF IInv, Shape, Go
  <2>3. pc'[t] = label /\ wire' = wire
    BY DEF IInv, Shape, Go, OnlyRequest
  <2>4. \A m \in wire' :
            /\ pc'[m.tx] \in {"wait", "done"} /\ my'[m.tx].answer = "none"
            /\ m = [tx |-> m.tx, kind |-> my'[m.tx].kind, content |-> my'[m.tx].content,
                    seq |-> my'[m.tx].seq]
            /\ m.kind = "correct" => m.seq # 0
    BY <2>1, <2>2, <2>3 DEF IInv, OneMessage
  <2>5. \A u \in Tx : my'[u].kind = "correct" =>
            pc'[u] \notin {"refresh", "sign", "check"} /\ (At(u, "post")' => my'[u].seq # 0)
    BY <2>2, <2>3 DEF IInv, OneMessage, At
  <2>6. \A u \in Tx :
            pc'[u] \notin {"answered", "close range", "done"} => my'[u].answer = "none"
    BY <2>2, <2>3 DEF IInv, OneMessage
  <2>. QED  BY <2>4, <2>5, <2>6 DEF OneMessage
<1>3. ClosersKnow'
  BY DEF IInv, Shape, ClosersKnow, Holds, Go, OnlyRequest, At
<1>4. AuthorityConfirmsStatus' /\ FreeSaleHasNoInvoice'
  BY DEF IInv, OnlyRequest, AuthorityConfirmsStatus, FreeSaleHasNoInvoice
<1>. QED  BY <1>1, <1>2, <1>3, <1>4 DEF IInv

\* Steps of t that write the row of the invoice.
LEMMA WritingStep ==
    ASSUME IInv, NEW t \in Tx, NEW label \in Labels, Go(t, label), UNCHANGED my,
           NEW row \in Rows,
           Write(row),
           pc[t] \notin {"wait", "done"}, label \in {"done", "post"},
           label = "done" \/ pc[t] \notin {"answered", "close range"},
           label = "post" => my[t].kind # "correct",
           row.status = "AUTORIZADA" => authority.state \in {"authorized", "cancelled"},
           row.status = "CANCELADA" => authority.state = "cancelled",
           row.status = "DENEGADA" => authority.state = "denied",
           row.status = "INUTILIZADA" \/ row.voided => authority.state = "voided",
           row.letters \subseteq authority.letters,
           ~row.linked => authority.state \in {"cancelled", "voided"}
    PROVE  IInv'
<1>1. Shape'
  BY DEF IInv, Shape, Go, Write
<1>2. OneMessage'
  BY DEF IInv, Shape, OneMessage, Go, Write, Messages, At
<1>3. ClosersKnow'
  BY DEF IInv, Shape, ClosersKnow, Holds, Go, Write, At
<1>4. AuthorityConfirmsStatus' /\ FreeSaleHasNoInvoice'
  BY DEF IInv, Write, AuthorityConfirmsStatus, FreeSaleHasNoInvoice
<1>. QED  BY <1>1, <1>2, <1>3, <1>4 DEF IInv

\* A message of t leaves for the authority.
LEMMA PostingStep ==
    ASSUME IInv, NEW t \in Tx, At(t, "post"), Post(t, my[t].content), my[t].kind \in Kinds
    PROVE  IInv'
<1> DEFINE m == [tx |-> t, kind |-> my[t].kind, content |-> my[t].content,
                 seq |-> my[t].seq]
<1>1. /\ wire' = wire \cup {m} /\ pc' = [pc EXCEPT ![t] = "wait"]
      /\ UNCHANGED << note, authority, my, overlap, astray >>
  BY DEF Post, Go
<1>2. m \in Messages /\ m.tx = t
  BY DEF IInv, Shape, Requests, Messages
<1>3. Shape'
  <2>1. wire' \subseteq Messages
    BY <1>1, <1>2 DEF IInv, Shape
  <2>2. pc' \in [Tx -> Labels]
    BY <1>1 DEF IInv, Shape, Labels
  <2>. QED  BY <1>1, <2>1, <2>2 DEF IInv, Shape
<1>4. \A n \in wire : n.tx \in Tx /\ n.tx # t
  BY DEF IInv, Shape, OneMessage, At, Messages
<1>5. OneMessage'
  <2>1. my[t].answer = "none" /\ (my[t].kind = "correct" => my[t].seq # 0)
    BY DEF IInv, OneMessage, At
  <2>2. m.kind = my[t].kind /\ m.seq = my[t].seq
    OBVIOUS
  <2>3. m = [tx |-> m.tx, kind |-> my[m.tx].kind, content |-> my[m.tx].content,
             seq |-> my[m.tx].seq]
    OBVIOUS
  <2> HIDE DEF m
  <2>4. \A n \in wire' :
            /\ pc'[n.tx] \in {"wait", "done"} /\ my'[n.tx].answer = "none"
            /\ n = [tx |-> n.tx, kind |-> my'[n.tx].kind, content |-> my'[n.tx].content,
                    seq |-> my'[n.tx].seq]
            /\ n.kind = "correct" => n.seq # 0
    BY <1>1, <1>2, <1>4, <2>1, <2>2, <2>3 DEF IInv, Shape, OneMessage
  <2>. QED  BY <1>1, <2>1, <2>4 DEF IInv, Shape, OneMessage, At
<1>6. ClosersKnow'
  BY <1>1 DEF IInv, Shape, ClosersKnow, Holds, At
<1>7. AuthorityConfirmsStatus' /\ FreeSaleHasNoInvoice'
  BY <1>1 DEF IInv, AuthorityConfirmsStatus, FreeSaleHasNoInvoice
<1>. QED  BY <1>3, <1>5, <1>6, <1>7 DEF IInv

\* The authority answers, whether or not somebody waits.
LEMMA AnsweringStep ==
    ASSUME IInv, NEW m \in wire, Answer(m)
    PROVE  IInv'
<1>1. PICK o \in Outcomes(m) :
        /\ authority' = o[1]
        /\ astray' = (astray \/ /\ m.kind = "authorize" /\ o[2] = "rejected"
                                /\ authority.state = "authorized")
        /\ IF At(m.tx, "wait")
           THEN my' = [my EXCEPT ![m.tx].answer = o[2]] /\ Go(m.tx, "answered")
           ELSE UNCHANGED << my, pc >>
  BY DEF Answer
<1>2. wire' = wire \ {m} /\ UNCHANGED << note, overlap >> /\ m.tx \in Tx
  BY DEF Answer, IInv, Shape, Messages
<1>3. /\ o[1] \in Records /\ o[2] \in Answers \ {"none"}
      /\ \/ o[1].state = authority.state
         \/ authority.state = "unknown"
         \/ authority.state = "authorized" /\ o[1].state = "cancelled"
      /\ o[2] \in {"authorized", "duplicate"} => o[1].state = "authorized"
      /\ o[2] = "registered" => o[1].state = "cancelled"
      /\ o[2] = "denied" => o[1].state = "denied"
      /\ o[2] = "homologated" => o[1].state = "voided"
      /\ authority.letters \subseteq o[1].letters
      /\ o[2] = "corrected" => m.kind = "correct" /\ << m.seq, m.tx >> \in o[1].letters
  BY AnswerIsKept DEF IInv, OneMessage
<1>4. Shape'
  <2>1. wire' \subseteq Messages
    BY <1>2 DEF IInv, Shape
  <2>2. pc' \in [Tx -> Labels]
    BY <1>1, <1>2 DEF IInv, Shape, Go, Labels
  <2>3. my' \in [Tx -> Requests]
    <3>1. CASE At(m.tx, "wait")
      BY <1>1, <1>2, <1>3, <3>1 DEF IInv, Shape, Requests
    <3>2. CASE ~At(m.tx, "wait")
      BY <1>1, <3>2 DEF IInv, Shape
    <3>. QED  BY <3>1, <3>2
  <2>4. astray' \in BOOLEAN
    BY <1>1 DEF IInv, Shape
  <2>. QED  BY <1>1, <1>2, <1>3, <2>1, <2>2, <2>3, <2>4 DEF IInv, Shape
<1>5. OneMessage'
  <2>1. \A n \in wire' : n \in wire /\ n.tx \in Tx /\ n.tx # m.tx
    BY <1>2 DEF IInv, Shape, Messages, OneMessage
  <2>2. \A t \in Tx : t # m.tx => my'[t] = my[t] /\ pc'[t] = pc[t]
    BY <1>1, <1>2 DEF IInv, Shape, Go
  <2>3. At(m.tx, "wait") => pc'[m.tx] = "answered"
    BY <1>1, <1>2 DEF IInv, Shape, Go
  <2>4. ~At(m.tx, "wait") => my' = my /\ pc' = pc
    BY <1>1
  <2>. QED  BY <1>2, <2>1, <2>2, <2>3, <2>4 DEF IInv, OneMessage, At
<1>6. ClosersKnow'
  <2> SUFFICES ASSUME NEW t \in Tx
               PROVE  /\ Holds(t, my[t].answer)'
                      /\ At(t, "close")' => authority'.state = "voided"
                      /\ At(t, "close range")' => my'[t].answer = "homologated"
    BY DEF ClosersKnow
  <2>1. Holds(t, my[t].answer) /\ (At(t, "close") => authority.state = "voided")
                            /\ (At(t, "close range") => my[t].answer = "homologated")
    BY DEF IInv, ClosersKnow
  <2>2. CASE t = m.tx /\ At(t, "wait")
    <3>1. /\ my'[t].answer = o[2] /\ pc'[t] = "answered"
          /\ my'[t].kind = my[t].kind /\ my'[t].seq = my[t].seq
      BY <1>1, <2>2 DEF IInv, Shape, Requests, Go
    <3>2. m.kind = my[t].kind /\ m.seq = my[t].seq
      <4>1. m = [tx |-> m.tx, kind |-> my[m.tx].kind, content |-> my[m.tx].content,
                 seq |-> my[m.tx].seq]
        BY DEF IInv, OneMessage
      <4>. QED  BY <2>2, <4>1
    <3>. QED  BY <1>1, <1>3, <2>2, <3>1, <3>2 DEF Holds, At, Records
  <2>3. CASE ~(t = m.tx /\ At(t, "wait"))
    <3>1. my'[t] = my[t] /\ pc'[t] = pc[t]
      BY <1>1, <1>2, <2>3 DEF IInv, Shape, Go
    <3>. QED  BY <1>1, <1>3, <2>1, <3>1 DEF Holds, At, Records
  <2>. QED  BY <2>2, <2>3
<1>7. AuthorityConfirmsStatus' /\ FreeSaleHasNoInvoice'
  BY <1>1, <1>2, <1>3 DEF IInv, AuthorityConfirmsStatus, FreeSaleHasNoInvoice
<1>. QED  BY <1>4, <1>5, <1>6, <1>7 DEF IInv

-----------------------------------------------------------------------------
\* Papers with a new date of emission.
LEMMA Redated ==
    ASSUME NEW paper \in Papers, NEW now \in 0 .. LastDate
    PROVE  /\ [paper EXCEPT !.emitted = now] \in Papers
           /\ [paper EXCEPT !.emitted = now].says = paper.says
           /\ [paper EXCEPT !.emitted = now].emitted = now
BY DEF Papers

\* An NFC-e is emitted again, before it is signed.
LEMMA RefreshingStep ==
    ASSUME IInv, NEW t \in Tx, RefreshEmission(t)
    PROVE  IInv'
<1>1. pc[t] = "refresh" /\ my[t].kind # "correct" /\ my[t].answer = "none"
  BY DEF RefreshEmission, IInv, OneMessage, At
<1>2. ASSUME NEW label \in {"sign", "done"}, Go(t, label), UNCHANGED my, OnlyRequest
      PROVE  IInv'
  <2>1. my' \in [Tx -> Requests] /\ label \in Labels
    BY <1>2 DEF IInv, Shape, Labels
  <2>. QED  BY <1>1, <1>2, <2>1, QuietStep
<1>3. ASSUME NEW now \in 0 .. LastDate, Go(t, "sign"),
             Write([note EXCEPT !.content.emitted = now]),
             my' = [my EXCEPT ![t].content.emitted = now]
      PROVE  IInv'
  <2>1. /\ note \in Rows /\ my \in [Tx -> Requests] /\ pc \in [Tx -> Labels]
        /\ my[t] \in Requests /\ \A m \in wire : m.tx \in Tx /\ m.tx # t
    BY <1>1 DEF IInv, Shape, OneMessage, Messages
  <2>2. /\ note' \in Rows /\ note'.status = note.status /\ note'.voided = note.voided
        /\ note'.linked = note.linked /\ note'.letters = note.letters
        /\ UNCHANGED << authority, wire, overlap, astray >>
    BY <1>3, <2>1, Redated DEF Write, Rows
  <2>3. /\ my' \in [Tx -> Requests] /\ \A u \in Tx \ {t} : my'[u] = my[u] /\ pc'[u] = pc[u]
        /\ my'[t].kind = my[t].kind /\ my'[t].seq = my[t].seq /\ my'[t].answer = my[t].answer
        /\ pc' \in [Tx -> Labels] /\ pc'[t] = "sign"
    BY <1>3, <2>1, Redated DEF Requests, Go, Labels
  <2>4. Shape'
    BY <2>2, <2>3 DEF IInv, Shape
  <2>5. OneMessage'
    BY <1>1, <2>1, <2>2, <2>3 DEF IInv, OneMessage, At
  <2>6. ClosersKnow'
    BY <2>2, <2>3 DEF IInv, ClosersKnow, Holds, At
  <2>. QED  BY <2>2, <2>4, <2>5, <2>6 DEF IInv, AuthorityConfirmsStatus, FreeSaleHasNoInvoice
<1>. QED  BY <1>2, <1>3 DEF RefreshEmission

LEMMA ReadingSteps ==
    ASSUME IInv, NEW t \in Tx,
           \/ LoadDraft(t) \/ ReadToSend(t) \/ ReadToCancel(t) \/ ReadToInutilize(t)
           \/ CheckRange(t) \/ ReadRange(t) \/ ReadToCorrect(t) \/ NumberLetter(t)
    PROVE  IInv'
<1>1. ASSUME NEW label \in {"write", "refresh", "sign", "letters", "post", "close", "check", "done"},
             Go(t, label), OnlyRequest, pc[t] \in {"read", "check", "letters"},
             \/ UNCHANGED my
             \/ my' = [my EXCEPT ![t].content = note.content]
             \/ \E n \in Numbers : n # 0 /\ my' = [my EXCEPT ![t].seq = n],
             my[t].kind = "correct" =>
                label \notin {"refresh", "sign", "check"} /\ (label = "post" => my'[t].seq # 0),
             label = "close" => authority.state = "voided"
      PROVE  IInv'
  <2>1. my' \in [Tx -> Requests]
    BY <1>1 DEF IInv, Shape, Rows, Requests
  <2>2. \A u \in Tx :
            /\ my'[u].answer = my[u].answer /\ my'[u].kind = my[u].kind
            /\ u = t \/ my'[u] = my[u]
    BY <1>1 DEF IInv, Shape, Requests
  <2>3. label \in Labels
    BY DEF Labels
  <2>4. my[t].answer # "corrected"
    BY <1>1 DEF IInv, OneMessage
  <2>. QED  BY <1>1, <2>1, <2>2, <2>3, <2>4, QuietStep
<1>2. CASE LoadDraft(t)
  BY <1>1, <1>2 DEF LoadDraft, At
<1>3. CASE ReadToSend(t)
  BY <1>1, <1>3 DEF ReadToSend, AfterRead, At
<1>4. CASE ReadToCancel(t)
  BY <1>1, <1>4 DEF ReadToCancel, At
<1>5. CASE ReadToInutilize(t)
  <2>1. note.voided => authority.state = "voided"
    BY DEF IInv, AuthorityConfirmsStatus
  <2>. QED  BY <1>1, <1>5, <2>1 DEF ReadToInutilize, At
<1>6. CASE CheckRange(t)
  <2>1. my[t].kind # "correct"
    BY <1>6 DEF CheckRange, IInv, OneMessage, At
  <2>. QED  BY <1>1, <1>6, <2>1 DEF CheckRange, At
<1>7. CASE ReadRange(t)
  <2> DEFINE label == IF my[t].answer = "homologated" THEN "close range" ELSE "done"
  <2>1. my' \in [Tx -> Requests]
    <3> DEFINE open == note.status \in INUTILIZABLE
    <3>1. open \in BOOLEAN
      OBVIOUS
    <3>2. my' = [my EXCEPT ![t].found = open]
      BY <1>7 DEF ReadRange
    <3> HIDE DEF open
    <3>. QED  BY <3>1, <3>2 DEF IInv, Shape, Requests
  <2>2. /\ \A u \in Tx :
            /\ my'[u].answer = my[u].answer /\ my'[u].kind = my[u].kind
            /\ u = t \/ my'[u] = my[u]
        /\ my'[t].seq = my[t].seq
    BY <1>7 DEF ReadRange, IInv, Shape, Requests
  <2>3. /\ label \in Labels /\ label \in {"close range", "done"}
        /\ label = "close range" => my[t].answer = "homologated"
    BY DEF Labels
  <2>4. Go(t, label) /\ OnlyRequest /\ pc[t] = "answered"
    BY <1>7 DEF ReadRange, At
  <2> HIDE DEF label
  <2>. QED  BY <2>1, <2>2, <2>3, <2>4, QuietStep
<1>8. CASE ReadToCorrect(t)
  BY <1>1, <1>8 DEF ReadToCorrect, At
<1>9. CASE NumberLetter(t)
  <2>1. PICK last \in 0 .. MaxLetters :
            IF last = MaxLetters
            THEN Go(t, "done") /\ UNCHANGED my
            ELSE Go(t, "post") /\ my' = [my EXCEPT ![t].seq = last + 1]
    BY <1>9 DEF NumberLetter
  <2>2. OnlyRequest /\ pc[t] = "letters"
    BY <1>9 DEF NumberLetter, At
  <2>3. CASE last = MaxLetters
    BY <1>1, <2>1, <2>2, <2>3
  <2>4. CASE last # MaxLetters
    <3>1. last + 1 \in Numbers /\ last + 1 # 0
      BY <2>4, NfeAssumption DEF Numbers
    <3>2. my' = [my EXCEPT ![t].seq = last + 1] /\ Go(t, "post")
      BY <2>1, <2>4
    <3>3. my'[t].seq = last + 1
      BY <3>2 DEF IInv, Shape, Requests
    <3>. QED  BY <1>1, <2>2, <3>1, <3>2, <3>3
  <2>. QED  BY <2>3, <2>4
<1>. QED  BY <1>2, <1>3, <1>4, <1>5, <1>6, <1>7, <1>8, <1>9

LEMMA WritingSteps ==
    ASSUME IInv, NEW t \in Tx,
           \/ WriteDraft(t) \/ PersistSignedXml(t) \/ WriteAuthorization(t)
           \/ RecordLetter(t) \/ MarkCancelled(t) \/ MarkInutilized(t) \/ CloseRange(t)
    PROVE  IInv'
<1>1. /\ note \in Rows /\ my[t].content \in Papers /\ my[t].found \in BOOLEAN
      /\ Holds(t, my[t].answer)
      /\ At(t, "close") => authority.state = "voided"
      /\ At(t, "close range") => my[t].answer = "homologated"
  BY DEF IInv, Shape, ClosersKnow, Requests
<1>2. AuthorityConfirmsStatus /\ FreeSaleHasNoInvoice
  BY DEF IInv
<1>3. "done" \in Labels /\ "post" \in Labels
  BY DEF Labels
<1>4. CASE WriteDraft(t)
  <2> DEFINE row == [note EXCEPT !.content = my[t].content]
  <2>1. row \in Rows /\ row.status = note.status /\ row.voided = note.voided
        /\ row.linked = note.linked /\ row.letters = note.letters
    BY <1>1 DEF Rows
  <2>2. Go(t, "done") /\ UNCHANGED my /\ Write(row) /\ pc[t] = "write"
    BY <1>4 DEF WriteDraft, At
  <2> HIDE DEF row
  <2>. QED  BY <1>2, <1>3, <2>1, <2>2, WritingStep DEF AuthorityConfirmsStatus,
            FreeSaleHasNoInvoice
<1>5. CASE PersistSignedXml(t)
  <2> DEFINE row == [note EXCEPT !.status = "ASSINADA"]
             label == IF my[t].kind = "sign" THEN "done" ELSE "post"
  <2>1. row \in Rows /\ row.status = "ASSINADA" /\ row.voided = note.voided
        /\ row.linked = note.linked /\ row.letters = note.letters
    BY <1>1 DEF Rows, Statuses
  <2>2. Go(t, label) /\ UNCHANGED my /\ Write(row) /\ pc[t] = "sign"
    BY <1>5 DEF PersistSignedXml, At
  <2>3. label \in {"done", "post"}
    OBVIOUS
  <2>4. my[t].kind # "correct"
    BY <2>2 DEF IInv, OneMessage, At
  <2> HIDE DEF row, label
  <2>. QED  BY <1>2, <1>3, <2>1, <2>2, <2>3, <2>4, WritingStep DEF AuthorityConfirmsStatus,
            FreeSaleHasNoInvoice
<1>6. CASE WriteAuthorization(t)
  <2> DEFINE valid == my[t].answer \in {"authorized", "duplicate"}
             status == CASE valid -> "AUTORIZADA"
                         [] my[t].answer = "denied" -> "DENEGADA"
                         [] OTHER -> "REJEITADA"
             row == [note EXCEPT !.status = status, !.protocol = valid]
  <2>1. /\ status \in {"AUTORIZADA", "DENEGADA", "REJEITADA"}
        /\ status = "AUTORIZADA" => valid
        /\ status = "DENEGADA" => my[t].answer = "denied"
        /\ valid \in BOOLEAN
    OBVIOUS
  <2>2. Go(t, "done") /\ UNCHANGED my /\ Write(row) /\ pc[t] = "answered"
    BY <1>6 DEF WriteAuthorization, At
  <2>4. valid => my[t].answer \in {"authorized", "duplicate"}
    OBVIOUS
  <2> HIDE DEF status, valid
  <2>3. row \in Rows /\ row.status = status /\ row.voided = note.voided
        /\ row.linked = note.linked /\ row.letters = note.letters
    BY <1>1, <2>1 DEF Rows, Statuses
  <2> HIDE DEF row
  <2>. QED  BY <1>1, <1>2, <1>3, <2>1, <2>2, <2>3, <2>4, WritingStep DEF Holds,
            AuthorityConfirmsStatus, FreeSaleHasNoInvoice
<1>7. CASE MarkCancelled(t)
  <2>1. Go(t, "done") /\ UNCHANGED my /\ pc[t] = "answered"
    BY <1>7 DEF MarkCancelled, At
  <2>2. CASE my[t].answer = "registered"
    <3> DEFINE row == [note EXCEPT !.status = "CANCELADA", !.linked = FALSE]
    <3>1. row \in Rows /\ row.status = "CANCELADA" /\ row.voided = note.voided
          /\ row.letters = note.letters
      BY <1>1 DEF Rows, Statuses
    <3>2. Write(row)
      BY <1>7, <2>2 DEF MarkCancelled
    <3> HIDE DEF row
    <3>. QED  BY <1>1, <1>2, <1>3, <2>1, <2>2, <3>1, <3>2, WritingStep DEF Holds,
              AuthorityConfirmsStatus
  <2>3. CASE my[t].answer # "registered"
    <3>1. OnlyRequest
      BY <1>7, <2>3 DEF MarkCancelled
    <3>2. my' \in [Tx -> Requests]
      BY <2>1 DEF IInv, Shape
    <3>. QED  BY <1>3, <2>1, <3>1, <3>2, QuietStep
  <2>. QED  BY <2>2, <2>3
<1>8. CASE MarkInutilized(t)
  <2> DEFINE row == [note EXCEPT !.status = "INUTILIZADA", !.linked = FALSE]
  <2>1. row \in Rows /\ row.status = "INUTILIZADA" /\ row.letters = note.letters
    BY <1>1 DEF Rows, Statuses
  <2>2. Go(t, "done") /\ UNCHANGED my /\ Write(row) /\ pc[t] = "close"
    BY <1>8 DEF MarkInutilized, At
  <2> HIDE DEF row
  <2>. QED  BY <1>1, <1>2, <1>3, <2>1, <2>2, WritingStep DEF At, AuthorityConfirmsStatus
<1>9. CASE CloseRange(t)
  <2> DEFINE row == [note EXCEPT !.voided = TRUE,
                       !.status = IF my[t].found THEN "INUTILIZADA" ELSE @,
                       !.linked = @ /\ ~my[t].found]
  <2>1. row \in Rows /\ row.status \in {note.status, "INUTILIZADA"}
        /\ row.letters = note.letters
    BY <1>1 DEF Rows, Statuses
  <2>2. Go(t, "done") /\ UNCHANGED my /\ Write(row) /\ pc[t] = "close range"
    BY <1>9 DEF CloseRange, At
  <2>3. authority.state = "voided"
    BY <1>1, <2>2 DEF Holds, At
  <2> HIDE DEF row
  <2>. QED  BY <1>2, <1>3, <2>1, <2>2, <2>3, WritingStep DEF AuthorityConfirmsStatus
<1>10. CASE RecordLetter(t)
  <2>1. Go(t, "done") /\ UNCHANGED my /\ pc[t] = "answered"
    BY <1>10 DEF RecordLetter, At
  <2>2. CASE my[t].answer = "corrected"
    <3> DEFINE rest == {l \in note.letters : l[1] # my[t].seq}
               row == [note EXCEPT !.letters = rest \cup {<< my[t].seq, t >>}]
    <3>1. << my[t].seq, t >> \in authority.letters \cap Numbered
      BY <1>1, <2>2 DEF Holds
    <3>2. rest \subseteq note.letters
      OBVIOUS
    <3> HIDE DEF rest
    <3>3. /\ row \in Rows /\ row.status = note.status /\ row.voided = note.voided
          /\ row.linked = note.linked /\ row.letters \subseteq authority.letters
      BY <1>1, <1>2, <3>1, <3>2 DEF Rows, AuthorityConfirmsStatus
    <3>4. Write(row)
      BY <1>10, <2>2 DEF RecordLetter, rest
    <3> HIDE DEF row
    <3>. QED  BY <1>2, <1>3, <2>1, <3>3, <3>4, WritingStep DEF AuthorityConfirmsStatus,
              FreeSaleHasNoInvoice
  <2>3. CASE my[t].answer # "corrected"
    <3>1. OnlyRequest
      BY <1>10, <2>3 DEF RecordLetter
    <3>2. my' \in [Tx -> Requests]
      BY <2>1 DEF IInv, Shape
    <3>. QED  BY <1>3, <2>1, <3>1, <3>2, QuietStep
  <2>. QED  BY <2>2, <2>3
<1>. QED  BY <1>4, <1>5, <1>6, <1>7, <1>8, <1>9, <1>10

\* No step of a request, failure or answer disturbs the invariant.
LEMMA StepKeepsInvariant == IInv /\ [Next]_vars => IInv'
<1> SUFFICES ASSUME IInv, [Next]_vars PROVE IInv'
  OBVIOUS
<1>1. ASSUME NEW t \in Tx, Start(t) PROVE IInv'
  <2>1. PICK k \in Kinds, c \in Papers :
            /\ my' = [my EXCEPT ![t] = [Idle EXCEPT !.kind = k, !.content = c]]
            /\ Go(t, IF k = "range" THEN "check" ELSE "read")
    BY <1>1 DEF Start
  <2>2. At(t, "new") /\ UNCHANGED << note, authority, wire, astray >>
        /\ overlap' = (overlap \/ UnderWay # {})
    BY <1>1 DEF Start
  <2>3. /\ [Idle EXCEPT !.kind = k, !.content = c] \in Requests
        /\ [Idle EXCEPT !.kind = k, !.content = c].answer = "none"
        /\ [Idle EXCEPT !.kind = k, !.content = c].kind = k
    <3>1. 0 \in Numbers
      BY NfeAssumption DEF Numbers
    <3>. QED  BY <3>1 DEF Idle, Answers, Requests
  <2>4. Shape'
    <3>1. my' \in [Tx -> Requests]
      BY <2>1, <2>3 DEF IInv, Shape
    <3>2. pc' \in [Tx -> Labels]
      BY <2>1 DEF IInv, Shape, Go, Labels
    <3>. QED  BY <2>2, <3>1, <3>2 DEF IInv, Shape
  <2>5. OneMessage'
    BY <2>1, <2>2, <2>3 DEF IInv, Shape, Messages, OneMessage, Go, At
  <2>6. ClosersKnow'
    BY <2>1, <2>2, <2>3 DEF IInv, Shape, ClosersKnow, Holds, Go, At
  <2>7. AuthorityConfirmsStatus' /\ FreeSaleHasNoInvoice'
    BY <2>2 DEF IInv, AuthorityConfirmsStatus, FreeSaleHasNoInvoice
  <2>. QED  BY <2>4, <2>5, <2>6, <2>7 DEF IInv
<1>2. ASSUME NEW t \in Tx, RequestStep(t) PROVE IInv'
  <2>1. CASE SendNote(t) \/ SendCancel(t) \/ SendLetter(t) \/ SendRange(t)
    <3>1. At(t, "post") /\ Post(t, my[t].content) /\ my[t].kind # "none"
      BY <2>1 DEF SendNote, SendCancel, SendLetter, SendRange
    <3>. QED  BY <3>1, PostingStep DEF IInv, Shape, Requests
  <2>. QED  BY <1>2, <2>1, ReadingSteps, RefreshingStep, WritingSteps DEF RequestStep
<1>3. ASSUME NEW t \in Tx, Fail(t) PROVE IInv'
  <2>1. /\ t \in UnderWay /\ pc' = [pc EXCEPT ![t] = "done"]
        /\ astray' = (astray \/ \E m \in wire : m.tx = t)
        /\ UNCHANGED << note, authority, wire, my, overlap >>
    BY <1>3 DEF Fail, Go
  <2>2. Shape'
    BY <2>1 DEF IInv, Shape, Labels
  <2>3. OneMessage' /\ ClosersKnow'
    BY <2>1 DEF IInv, Shape, Messages, OneMessage, ClosersKnow, Holds, At
  <2>4. AuthorityConfirmsStatus' /\ FreeSaleHasNoInvoice'
    BY <2>1 DEF IInv, AuthorityConfirmsStatus, FreeSaleHasNoInvoice
  <2>. QED  BY <2>2, <2>3, <2>4 DEF IInv
<1>4. ASSUME NEW m \in wire, Lose(m) PROVE IInv'
  <2>1. wire' = wire \ {m} /\ UNCHANGED << note, authority, pc, my, overlap, astray >>
    BY <1>4 DEF Lose
  <2>2. Shape' /\ OneMessage'
    BY <2>1 DEF IInv, Shape, OneMessage, At
  <2>3. ClosersKnow' /\ AuthorityConfirmsStatus' /\ FreeSaleHasNoInvoice'
    BY <2>1 DEF IInv, ClosersKnow, Holds, At, AuthorityConfirmsStatus, FreeSaleHasNoInvoice
  <2>. QED  BY <2>2, <2>3 DEF IInv
<1>5. CASE UNCHANGED vars
  BY <1>5 DEF IInv, vars, Shape, OneMessage, ClosersKnow, Holds, At,
     AuthorityConfirmsStatus, FreeSaleHasNoInvoice
<1>. QED  BY <1>1, <1>2, <1>3, <1>4, <1>5, AnsweringStep DEF Next

\* The strengthened invariant: every answer that a request still has to act on
\* agrees with what the authority holds by now.
THEOREM Inductive == Spec => []IInv
<1>. QED  BY InitInvariant, StepKeepsInvariant, PTL DEF Spec

\* Whatever overlaps, fails or arrives late, the status of an invoice is never
\* one that the authority did not confirm (authorize, markCancelled,
\* inutilizeRange).
THEOREM StatusIsConfirmed == Spec => []AuthorityConfirmsStatus
<1>1. IInv => AuthorityConfirmsStatus
  BY DEF IInv
<1>. QED  BY <1>1, Inductive, PTL

\* releaseSales: a sale set free has no invoice that is or becomes valid.
THEOREM SaleIsFreeForGood == Spec => []FreeSaleHasNoInvoice
<1>1. IInv => FreeSaleHasNoInvoice
  BY DEF IInv
<1>. QED  BY <1>1, Inductive, PTL

-----------------------------------------------------------------------------
\* What a request knows of the invoice as long as it is alone: nobody has
\* changed the row since it was read.
SeesNote(t) ==
    /\ At(t, "check") => my[t].kind \in {"inutilize", "range"}
    /\ At(t, "letters") => my[t].kind = "correct"
    /\ At(t, "write") => note.status \in Editable
    /\ pc[t] \in {"refresh", "sign"} =>
        /\ my[t].kind \in {"sign", "authorize"}
        /\ note.status \notin CLOSED /\ note.content = my[t].content
    /\ At(t, "refresh") => note.content.says \in Nfce
    /\ my[t].kind = "authorize" /\ pc[t] \in {"post", "wait", "answered"} =>
        note.status = "ASSINADA" /\ note.content = my[t].content
    /\ my[t].kind = "cancel" /\ pc[t] \in {"post", "wait", "answered"} =>
        note.status = "AUTORIZADA"
    /\ At(t, "close") \/ (At(t, "close range") /\ my[t].found) => note.status \in INUTILIZABLE
    /\ At(t, "answered") =>
        /\ my[t].answer # "none"
        /\ ~astray /\ my[t].kind = "authorize" /\ my[t].answer = "rejected" =>
            authority.state # "authorized"

\* While no two requests have overlapped: at most one is under way, and what
\* it knows is so; while no caller has given up, whoever has sent a message
\* waits for its answer.
SerialInv ==
    /\ ~overlap => \A t, u \in UnderWay : t = u
    /\ ~overlap => \A t \in UnderWay : SeesNote(t)
    /\ ~astray => \A m \in wire : At(m.tx, "wait")
    /\ LostAnswerKeepsInvoice

\* What no step of a request that is alone does to a closed invoice.
Closing ==
    note.status \in CLOSED =>
        note'.status = note.status \/ (note.status = "AUTORIZADA" /\ note'.status = "CANCELADA")

\* A step of t that does not write the row.
LEMMA AloneReads ==
    ASSUME IInv, NEW t \in Tx, SeesNote(t),
           \/ LoadDraft(t) \/ ReadToSend(t) \/ ReadToCancel(t) \/ ReadToInutilize(t)
           \/ CheckRange(t) \/ ReadRange(t) \/ ReadToCorrect(t) \/ NumberLetter(t)
    PROVE  /\ OnlyRequest /\ pc[t] \notin {"new", "wait", "done"}
           /\ \A u \in Tx \ {t} : pc'[u] = pc[u]
           /\ SeesNote(t)'
<1>1. /\ pc \in [Tx -> Labels] /\ my \in [Tx -> Requests]
      /\ note.status \in Statuses
  BY DEF IInv, Shape, Rows
<1>2. CASE LoadDraft(t)
  BY <1>1, <1>2 DEF LoadDraft, SeesNote, OnlyRequest, Go, At
<1>3. CASE ReadToSend(t)
  BY <1>1, <1>3 DEF ReadToSend, AfterRead, SeesNote, OnlyRequest, Go, At, Requests
<1>4. CASE ReadToCancel(t)
  BY <1>1, <1>4 DEF ReadToCancel, SeesNote, OnlyRequest, Go, At
<1>5. CASE ReadToInutilize(t)
  <2>1. /\ pc[t] = "read" /\ my[t].kind = "inutilize" /\ UNCHANGED my /\ OnlyRequest
        /\ \/ Go(t, "done")
           \/ Go(t, "close") /\ note.status \in INUTILIZABLE
           \/ Go(t, "check")
    BY <1>5 DEF ReadToInutilize, At
  <2>. QED  BY <1>1, <2>1 DEF SeesNote, OnlyRequest, Go, At
<1>6. CASE CheckRange(t)
  BY <1>1, <1>6 DEF CheckRange, SeesNote, OnlyRequest, Go, At
<1>7. CASE ReadRange(t)
  BY <1>1, <1>7 DEF ReadRange, SeesNote, OnlyRequest, Go, At, Requests
<1>8. CASE ReadToCorrect(t)
  BY <1>1, <1>8 DEF ReadToCorrect, SeesNote, OnlyRequest, Go, At
<1>9. CASE NumberLetter(t)
  BY <1>1, <1>9 DEF NumberLetter, SeesNote, OnlyRequest, Go, At, Requests
<1>. QED  BY <1>2, <1>3, <1>4, <1>5, <1>6, <1>7, <1>8, <1>9

\* A step of t that writes the row: only a draft is changed, and what the
\* authority has authorized is not.
LEMMA AloneWrites ==
    ASSUME IInv, NEW t \in Tx, SeesNote(t), ~overlap, LostAnswerKeepsInvoice,
           \/ WriteDraft(t) \/ PersistSignedXml(t) \/ WriteAuthorization(t)
           \/ RecordLetter(t) \/ MarkCancelled(t) \/ MarkInutilized(t) \/ CloseRange(t)
    PROVE  /\ UNCHANGED << authority, wire, my, overlap, astray >>
           /\ pc[t] \notin {"new", "wait", "done"}
           /\ \A u \in Tx \ {t} : pc'[u] = pc[u]
           /\ SeesNote(t)' /\ LostAnswerKeepsInvoice' /\ Closing
<1>1. /\ pc \in [Tx -> Labels] /\ my \in [Tx -> Requests] /\ note \in Rows
      /\ Holds(t, my[t].answer)
      /\ At(t, "close") => authority.state = "voided"
      /\ At(t, "close range") => my[t].answer = "homologated"
  BY DEF IInv, Shape, ClosersKnow
<1>2. CASE WriteDraft(t)
  BY <1>1, <1>2 DEF WriteDraft, SeesNote, LostAnswerKeepsInvoice, Closing, Write, Go, At,
     Rows, Editable, CLOSED
<1>3. CASE PersistSignedXml(t)
  BY <1>1, <1>3 DEF PersistSignedXml, SeesNote, LostAnswerKeepsInvoice, Closing, Write, Go,
     At, Rows, CLOSED
<1>4. CASE WriteAuthorization(t)
  <2> DEFINE status == CASE my[t].answer \in {"authorized", "duplicate"} -> "AUTORIZADA"
                         [] my[t].answer = "denied" -> "DENEGADA"
                         [] OTHER -> "REJEITADA"
  <2>1. /\ note'.status = status /\ note'.content = note.content
        /\ UNCHANGED << authority, wire, my, overlap, astray >>
        /\ Go(t, "done") /\ pc[t] = "answered" /\ my[t].kind = "authorize"
    BY <1>1, <1>4 DEF WriteAuthorization, Write, At, Rows
  <2>2. note.status = "ASSINADA" /\ my[t].answer # "none" /\ my[t].answer \in Answers
    BY <1>1, <2>1 DEF SeesNote, At, Requests
  <2>3. ~astray /\ authority.state = "authorized" => status = "AUTORIZADA"
    BY <1>1, <2>1, <2>2 DEF SeesNote, Holds, At, Answers
  <2> HIDE DEF status
  <2>. QED  BY <1>1, <2>1, <2>2, <2>3 DEF SeesNote, LostAnswerKeepsInvoice, Closing, Go, At,
            CLOSED
<1>5. CASE RecordLetter(t)
  <2>1. /\ note'.status = note.status /\ note'.content = note.content
        /\ UNCHANGED << authority, wire, my, overlap, astray >>
        /\ Go(t, "done") /\ pc[t] = "answered"
    BY <1>1, <1>5 DEF RecordLetter, Write, OnlyRequest, At, Rows
  <2>. QED  BY <1>1, <2>1 DEF SeesNote, LostAnswerKeepsInvoice, Closing, Go, At
<1>6. CASE MarkCancelled(t)
  BY <1>1, <1>6 DEF MarkCancelled, SeesNote, LostAnswerKeepsInvoice, Closing, Holds, Write,
     OnlyRequest, Go, At, Rows
<1>7. CASE MarkInutilized(t)
  BY <1>1, <1>7 DEF MarkInutilized, SeesNote, LostAnswerKeepsInvoice, Closing, Write, Go, At,
     Rows, CLOSED, INUTILIZABLE
<1>8. CASE CloseRange(t)
  BY <1>1, <1>8 DEF CloseRange, SeesNote, LostAnswerKeepsInvoice, Closing, Holds, Write, Go,
     At, Rows, CLOSED, INUTILIZABLE
<1>. QED  BY <1>2, <1>3, <1>4, <1>5, <1>6, <1>7, <1>8

\* An NFC-e that is emitted again gets a later date, here and for t.
LEMMA AloneRefreshes ==
    ASSUME IInv, NEW t \in Tx, SeesNote(t), LostAnswerKeepsInvoice, RefreshEmission(t)
    PROVE  /\ UNCHANGED << authority, wire, overlap, astray >>
           /\ pc[t] \notin {"new", "wait", "done"}
           /\ \A u \in Tx \ {t} : pc'[u] = pc[u]
           /\ SeesNote(t)' /\ LostAnswerKeepsInvoice' /\ Closing
<1>1. /\ pc \in [Tx -> Labels] /\ my \in [Tx -> Requests] /\ note \in Rows
      /\ authority \in Records /\ pc[t] = "refresh"
      /\ note.content \in Papers /\ authority.content \in Papers
  BY DEF IInv, Shape, Rows, Records, RefreshEmission, At
<1>2. ASSUME NEW label \in {"sign", "done"}, Go(t, label), UNCHANGED my, OnlyRequest
      PROVE  /\ UNCHANGED << authority, wire, overlap, astray >>
             /\ \A u \in Tx \ {t} : pc'[u] = pc[u]
             /\ SeesNote(t)' /\ LostAnswerKeepsInvoice' /\ Closing
  BY <1>1, <1>2 DEF SeesNote, LostAnswerKeepsInvoice, Closing, OnlyRequest, Go, At
<1>3. ASSUME NEW now \in 0 .. LastDate, now > my[t].content.emitted, Go(t, "sign"),
             Write([note EXCEPT !.content.emitted = now]),
             my' = [my EXCEPT ![t].content.emitted = now]
      PROVE  /\ UNCHANGED << authority, wire, overlap, astray >>
             /\ \A u \in Tx \ {t} : pc'[u] = pc[u]
             /\ SeesNote(t)' /\ LostAnswerKeepsInvoice' /\ Closing
  <2>1. /\ note'.status = note.status /\ note'.content = [note.content EXCEPT !.emitted = now]
        /\ UNCHANGED << authority, wire, overlap, astray >>
    BY <1>1, <1>3 DEF Write, Rows
  <2>2. /\ my'[t].content = [my[t].content EXCEPT !.emitted = now] /\ my'[t].kind = my[t].kind
        /\ pc'[t] = "sign" /\ \A u \in Tx \ {t} : pc'[u] = pc[u]
    BY <1>1, <1>3 DEF Requests, Go
  <2>3. /\ note.content = my[t].content /\ note.content.says \in Nfce
        /\ my[t].kind \in {"sign", "authorize"} /\ note.status \notin CLOSED
    BY <1>1 DEF SeesNote, At
  <2>4. /\ note'.content.says = note.content.says /\ note'.content.emitted = now
        /\ now > note.content.emitted /\ note'.content = my'[t].content
    BY <1>1, <1>3, <2>1, <2>2, <2>3, Redated
  <2>5. SeesNote(t)'
    BY <2>1, <2>2, <2>3, <2>4 DEF SeesNote, At
  <2>6. LostAnswerKeepsInvoice'
    <3>1. now \in Nat /\ note.content.emitted \in Nat /\ authority.content.emitted \in Nat
      BY <1>1, NfeAssumption DEF Papers
    <3>. QED  BY <2>1, <2>3, <2>4, <3>1 DEF LostAnswerKeepsInvoice
  <2>. QED  BY <2>1, <2>2, <2>5, <2>6 DEF Closing
<1>. QED  BY <1>1, <1>2, <1>3 DEF RefreshEmission

\* A step of t moves nobody else, and sends a message only to wait for it.
LEMMA MovesOne ==
    ASSUME IInv, NEW t \in Tx, RequestStep(t)
    PROVE  /\ UNCHANGED << overlap, astray >> /\ pc[t] \notin {"new", "wait", "done"}
           /\ \A u \in Tx \ {t} : pc'[u] = pc[u]
           /\ \A m \in wire' : m \in wire \/ (m.tx = t /\ pc'[t] = "wait")
<1>1. pc \in [Tx -> Labels]
  BY DEF IInv, Shape
<1>2. CASE SendNote(t) \/ SendCancel(t) \/ SendLetter(t) \/ SendRange(t)
  <2>1. Post(t, my[t].content) /\ pc[t] = "post"
    BY <1>2 DEF SendNote, SendCancel, SendLetter, SendRange, At
  <2>. QED  BY <1>1, <2>1 DEF Post, Go
<1>3. CASE \/ LoadDraft(t) \/ ReadToSend(t) \/ ReadToCancel(t) \/ ReadToInutilize(t)
           \/ CheckRange(t) \/ ReadRange(t) \/ ReadToCorrect(t) \/ NumberLetter(t)
  BY <1>1, <1>3 DEF LoadDraft, ReadToSend, ReadToCancel, ReadToInutilize, CheckRange,
     ReadRange, ReadToCorrect, NumberLetter, OnlyRequest, Go, At
<1>4. CASE \/ WriteDraft(t) \/ PersistSignedXml(t) \/ WriteAuthorization(t)
           \/ RecordLetter(t) \/ MarkCancelled(t) \/ MarkInutilized(t) \/ CloseRange(t)
  BY <1>1, <1>4 DEF WriteDraft, PersistSignedXml, WriteAuthorization, RecordLetter,
     MarkCancelled, MarkInutilized, CloseRange, OnlyRequest, Write, Go, At
<1>5. CASE RefreshEmission(t)
  BY <1>1, <1>5 DEF RefreshEmission, OnlyRequest, Write, Go, At
<1>. QED  BY <1>2, <1>3, <1>4, <1>5 DEF RequestStep

\* Any step of t but an answer, while t is alone.
LEMMA AloneSteps ==
    ASSUME IInv, SerialInv, ~overlap, NEW t \in UnderWay, RequestStep(t)
    PROVE  SerialInv' /\ Closing
<1>1. SeesNote(t) /\ LostAnswerKeepsInvoice /\ t \in Tx /\ pc \in [Tx -> Labels]
      /\ \A u \in UnderWay : u = t
  BY DEF SerialInv, UnderWay, IInv, Shape
<1>2. /\ UNCHANGED << authority, overlap, astray >> /\ pc[t] # "wait"
      /\ \A u \in Tx \ {t} : pc'[u] = pc[u]
      /\ SeesNote(t)' /\ LostAnswerKeepsInvoice' /\ Closing
      /\ \A m \in wire' : m \in wire \/ (m.tx = t /\ pc'[t] = "wait")
  <2>1. CASE SendNote(t) \/ SendCancel(t) \/ SendLetter(t) \/ SendRange(t)
    <3>1. Post(t, my[t].content) /\ pc[t] = "post"
      BY <2>1 DEF SendNote, SendCancel, SendLetter, SendRange, At
    <3>. QED  BY <1>1, <3>1 DEF Post, Go, At, SeesNote, LostAnswerKeepsInvoice, Closing
  <2>2. CASE \/ LoadDraft(t) \/ ReadToSend(t) \/ ReadToCancel(t) \/ ReadToInutilize(t)
             \/ CheckRange(t) \/ ReadRange(t) \/ ReadToCorrect(t) \/ NumberLetter(t)
    <3>1. OnlyRequest /\ pc[t] # "wait" /\ SeesNote(t)'
          /\ \A u \in Tx \ {t} : pc'[u] = pc[u]
      BY <1>1, <2>2, AloneReads
    <3>. QED  BY <1>1, <3>1 DEF OnlyRequest, LostAnswerKeepsInvoice, Closing
  <2>3. CASE \/ WriteDraft(t) \/ PersistSignedXml(t) \/ WriteAuthorization(t)
             \/ RecordLetter(t) \/ MarkCancelled(t) \/ MarkInutilized(t) \/ CloseRange(t)
    BY <1>1, <2>3, AloneWrites
  <2>4. CASE RefreshEmission(t)
    BY <1>1, <2>4, AloneRefreshes
  <2>. QED  BY <2>1, <2>2, <2>3, <2>4 DEF RequestStep
<1>3. \A u \in UnderWay' : u = t
  BY <1>1, <1>2 DEF UnderWay
<1>4. ~astray' => \A m \in wire' : At(m.tx, "wait")'
  BY <1>1, <1>2 DEF SerialInv, At, IInv, Shape, Messages
<1>. QED  BY <1>2, <1>3, <1>4 DEF SerialInv

\* The answer of the authority to a request that is alone.
LEMMA AloneIsAnswered ==
    ASSUME IInv, SerialInv, NEW m \in wire, Answer(m)
    PROVE  SerialInv'
<1>1. PICK o \in Outcomes(m) :
        /\ authority' = o[1]
        /\ astray' = (astray \/ /\ m.kind = "authorize" /\ o[2] = "rejected"
                                /\ authority.state = "authorized")
        /\ IF At(m.tx, "wait")
           THEN my' = [my EXCEPT ![m.tx].answer = o[2]] /\ Go(m.tx, "answered")
           ELSE UNCHANGED << my, pc >>
  BY DEF Answer
<1>2. /\ wire' = wire \ {m} /\ UNCHANGED << note, overlap >>
      /\ m \in Messages /\ m.tx \in Tx /\ my \in [Tx -> Requests] /\ pc \in [Tx -> Labels]
      /\ pc[m.tx] \in {"wait", "done"}
  BY DEF Answer, IInv, Shape, OneMessage, Messages
<1>3. m = [tx |-> m.tx, kind |-> my[m.tx].kind, content |-> my[m.tx].content,
           seq |-> my[m.tx].seq]
  BY DEF IInv, OneMessage
<1>4. m.kind = my[m.tx].kind /\ m.content = my[m.tx].content
  BY <1>3
<1>5. /\ o[2] # "none"
      /\ o[2] = "rejected" => o[1] = authority
      /\ o[1].state = "authorized" =>
            \/ authority.state = "authorized" /\ o[1].content = authority.content
            \/ m.kind = "authorize" /\ o[1].content = m.content
  BY <1>2 DEF Outcomes, IInv, Shape, Records
<1>6. \A n \in wire' : n \in wire /\ n.tx \in Tx /\ n.tx # m.tx
  BY <1>2 DEF IInv, Shape, Messages, OneMessage
<1>7. ~astray' => ~astray /\ At(m.tx, "wait") /\ \A n \in wire' : At(n.tx, "wait")'
  BY <1>1, <1>2, <1>6 DEF SerialInv, Go, At
<1>8. ASSUME ~overlap
      PROVE  /\ \A t, u \in UnderWay' : t = u
             /\ \A t \in UnderWay' : SeesNote(t)'
             /\ LostAnswerKeepsInvoice'
  <2>1. CASE At(m.tx, "wait")
    <3>1. /\ pc' = [pc EXCEPT ![m.tx] = "answered"]
          /\ my' = [my EXCEPT ![m.tx].answer = o[2]]
      BY <1>1, <2>1 DEF Go
    <3>2. m.tx \in UnderWay /\ UnderWay' = UnderWay
      BY <1>2, <2>1, <3>1 DEF UnderWay, At
    <3>3. UnderWay = {m.tx} /\ SeesNote(m.tx) /\ LostAnswerKeepsInvoice
      BY <1>8, <3>2 DEF SerialInv
    <3>4. /\ my'[m.tx].kind = my[m.tx].kind /\ my'[m.tx].content = my[m.tx].content
          /\ my'[m.tx].answer = o[2]
      BY <1>2, <3>1 DEF Requests
    <3>5. SeesNote(m.tx)'
      BY <1>1, <1>2, <1>4, <1>5, <2>1, <3>1, <3>3, <3>4 DEF SeesNote, At
    <3>6. LostAnswerKeepsInvoice'
      BY <1>1, <1>2, <1>4, <1>5, <2>1, <3>3 DEF SeesNote, LostAnswerKeepsInvoice, At
    <3>. QED  BY <3>2, <3>3, <3>5, <3>6
  <2>2. CASE ~At(m.tx, "wait")
    <3>1. astray /\ astray' /\ UNCHANGED << my, pc >>
      BY <1>1, <2>2 DEF SerialInv
    <3>. QED  BY <1>2, <1>8, <3>1 DEF SerialInv, UnderWay, SeesNote, LostAnswerKeepsInvoice, At
  <2>. QED  BY <2>1, <2>2
<1>. QED  BY <1>2, <1>7, <1>8 DEF SerialInv, LostAnswerKeepsInvoice

\* What holds while requests come one by one.
LEMMA SerialStep == IInv /\ SerialInv /\ [Next]_vars => SerialInv' /\ (~overlap' => Closing)
<1> SUFFICES ASSUME IInv, SerialInv, [Next]_vars
             PROVE  SerialInv' /\ (~overlap' => Closing)
  OBVIOUS
<1>1. pc \in [Tx -> Labels] /\ my \in [Tx -> Requests] /\ \A m \in wire : m.tx \in Tx
  BY DEF IInv, Shape, Messages
<1>2. ASSUME NEW t \in Tx, Start(t) PROVE SerialInv' /\ Closing
  <2>1. /\ pc[t] = "new" /\ UNCHANGED << note, authority, wire, astray >>
        /\ overlap' = (overlap \/ UnderWay # {})
        /\ pc' = [pc EXCEPT ![t] = pc'[t]] /\ pc'[t] \in {"read", "check"}
        /\ pc'[t] = "check" => my'[t].kind = "range"
    BY <1>1, <1>2 DEF Start, Go, At, Idle
  <2>2. ~overlap' => UnderWay' = {t} /\ SeesNote(t)'
    BY <1>1, <2>1 DEF UnderWay, SeesNote, At
  <2>3. ~astray' => \A m \in wire' : At(m.tx, "wait")'
    BY <1>1, <2>1 DEF SerialInv, At
  <2>. QED  BY <2>1, <2>2, <2>3 DEF SerialInv, LostAnswerKeepsInvoice, Closing
<1>3. ASSUME NEW t \in Tx, RequestStep(t) PROVE SerialInv' /\ (~overlap' => Closing)
  <2>1. /\ UNCHANGED << overlap, astray >> /\ t \in UnderWay
        /\ ~astray' => \A m \in wire' : At(m.tx, "wait")'
    <3>1. /\ UNCHANGED << overlap, astray >> /\ pc[t] \notin {"new", "wait", "done"}
          /\ \A u \in Tx \ {t} : pc'[u] = pc[u]
          /\ \A m \in wire' : m \in wire \/ (m.tx = t /\ pc'[t] = "wait")
      BY <1>3, MovesOne
    <3>. QED  BY <1>1, <3>1 DEF SerialInv, At, UnderWay
  <2>2. CASE ~overlap
    BY <1>3, <2>1, <2>2, AloneSteps
  <2>3. CASE overlap
    BY <2>1, <2>3 DEF SerialInv, LostAnswerKeepsInvoice
  <2>. QED  BY <2>2, <2>3
<1>4. ASSUME NEW t \in Tx, Fail(t) PROVE SerialInv' /\ Closing
  <2>1. /\ t \in UnderWay /\ pc' = [pc EXCEPT ![t] = "done"]
        /\ astray' = (astray \/ \E m \in wire : m.tx = t)
        /\ UNCHANGED << note, authority, wire, my, overlap >>
    BY <1>4 DEF Fail, Go
  <2>2. UnderWay' = UnderWay \ {t} /\ \A u \in UnderWay' : pc'[u] = pc[u]
    BY <1>1, <2>1 DEF UnderWay
  <2>3. ASSUME NEW u \in UnderWay', SeesNote(u) PROVE SeesNote(u)'
    <3>1. pc'[u] = pc[u] /\ my'[u] = my[u] /\ UNCHANGED << note, authority >>
      BY <2>1, <2>2
    <3>2. ~astray' => ~astray
      BY <2>1
    <3>. QED  BY <2>3, <3>1, <3>2 DEF SeesNote, At
  <2>4. ~astray' => \A m \in wire' : At(m.tx, "wait")'
    BY <1>1, <2>1 DEF SerialInv, At
  <2>. QED  BY <2>1, <2>2, <2>3, <2>4 DEF SerialInv, LostAnswerKeepsInvoice, Closing
<1>5. ASSUME NEW m \in wire, Answer(m) PROVE SerialInv' /\ Closing
  BY <1>5, AloneIsAnswered DEF Answer, Closing
<1>6. ASSUME NEW m \in wire, Lose(m) PROVE SerialInv' /\ Closing
  <2>1. wire' = wire \ {m} /\ UNCHANGED << note, authority, pc, my, overlap, astray >>
    BY <1>6 DEF Lose
  <2>. QED  BY <2>1 DEF SerialInv, LostAnswerKeepsInvoice, Closing, UnderWay, SeesNote, At
<1>7. CASE UNCHANGED vars
  BY <1>7 DEF vars, SerialInv, LostAnswerKeepsInvoice, Closing, UnderWay, SeesNote, At
<1>. QED  BY <1>2, <1>3, <1>4, <1>5, <1>6, <1>7 DEF Next

\* As long as requests come one by one, a lost answer leaves the invoice
\* closed to changes: signed before it is sent (persistSignedXml), it says
\* what the authority holds until the next send recovers the answer, but for
\* the later date of an NFC-e that is sent again (refreshNfceEmission).
THEOREM LostAnswerIsHarmless == Spec => []LostAnswerKeepsInvoice
<1>1. Init => SerialInv
  BY DEF Init, SerialInv, UnderWay, LostAnswerKeepsInvoice
<1>2. SerialInv => LostAnswerKeepsInvoice
  BY DEF SerialInv
<1>. QED  BY <1>1, <1>2, SerialStep, Inductive, PTL DEF Spec

\* Requests that come one by one never reopen a closed invoice (assertSendable,
\* loadDraft and the checks of the events).
THEOREM NeverReopened == Spec => ClosedStaysClosed
<1>1. Init => SerialInv
  BY DEF Init, SerialInv, UnderWay, LostAnswerKeepsInvoice
<1>2. IInv /\ SerialInv /\ [Next]_vars =>
        [~overlap' /\ note.status \in CLOSED =>
            \/ note'.status = note.status
            \/ note.status = "AUTORIZADA" /\ note'.status = "CANCELADA"]_vars
  BY SerialStep DEF Closing
<1>. QED  BY <1>1, <1>2, SerialStep, Inductive, PTL DEF Spec, ClosedStaysClosed

\* The state is well typed, and a message under way has no answer yet.
THEOREM TypeCorrect == Spec => []TypeOK
<1>1. IInv => TypeOK
  BY DEF IInv, Shape, OneMessage, TypeOK, States, Rows, Records, Numbered
<1>. QED  BY <1>1, Inductive, PTL
-----------------------------------------------------------------------------
(***************************************************************************)
(* WorkOrder: the state is well typed.  A conversion writes what it read of *)
(* a line plus what was asked, and a return likewise, so what a request     *)
(* knows has to bound these sums at every step until it writes them.        *)
(***************************************************************************)

\* What each step of a request may be.
ConversionSteps == {"read", "lines", "number", "insert", "convert", "order", "commit"}
ReturnSteps == {"read", "returnable", "line", "number return", "insert return", "returned",
                "situation", "reopen", "give back", "given back", "order", "commit"}
OrderSteps == {"new", "done", "patch", "generated", "unlink", "reset"}
                  \cup ConversionSteps \cup ReturnSteps
StepFits(kind, s) ==
    /\ kind = "none" <=> s \in {"new", "done"}
    /\ kind \in Conversions => s \in ConversionSteps
    /\ kind = "patch" => s \in {"read", "patch", "commit"}
    /\ kind \in {"partial", "full"} => s \in ReturnSteps
    /\ kind = "estorno" => s \in {"read", "generated", "unlink", "reset", "order", "commit"}
    /\ kind = "cancelOs" => s \in {"read", "generated", "order", "commit"}

ReturnRows == [sale : Sales, item : Items, order : Nat \ {0}, quantity : Nat \ {0}]
RequestRows ==
    [kind : RequestKinds \cup {"none"}, sale : Documents, asked : Amounts,
     status : OrderStatuses, situation : Situations, todo : SUBSET (Items \cup Sales),
     item : SUBSET Items, seen : Amounts, linked : BOOLEAN, live : SUBSET Sales,
     number : Nat, returns : SUBSET ReturnRows]

\* What may stand in row r.
LinesFor(d, i) ==
    {l \in LineRows : /\ l.converted <= l.quantity /\ l.returned <= l.quantity
                      /\ d = Order => l.quantity = Quantity[i]}
Permitted(r) ==
    IF r = Sequence THEN Nat
    ELSE IF r \in Documents
    THEN DocumentRows \cup (IF r = Order THEN {} ELSE {Absent})
    ELSE LinesFor(r[1], r[2]) \cup (IF r[1] = Order THEN {} ELSE {Absent})

\* The rows that t creates, and those of the order.
Own(t) == {t} \cup ({t} \X Items)
OrderRows == {Order} \cup ({Order} \X Items)

\* Rows that t may write: it creates its own, and no quantity changes.
Functional(f) == f = [r \in DOMAIN f |-> f[r]]
Writable(t, f) ==
    /\ Functional(f)
    /\ DOMAIN f \subseteq RowNames
    /\ \A r \in DOMAIN f :
        /\ f[r] \in Permitted(r) /\ (r # Sequence => f[r] # Absent)
        /\ (r # Sequence /\ table[r] = Absent) => r \in Own(t)
        /\ (r \in Lines /\ table[r] # Absent) => f[r].quantity = table[r].quantity

\* What a request q of t knows at step s, having written the rows of g.
ConversionKnows(t, s, q, g) ==
    /\ q.sale = t /\ q.todo \subseteq Items
    /\ s \in {"read", "lines", "number"} => DOMAIN g = {}
    /\ s \in {"number", "insert", "convert", "order", "commit"} =>
        \A i \in Items : q.seen[i] + q.asked[i] <= Quantity[i]
ReturnKnows(s, q) ==
    /\ q.sale \in Sales /\ q.todo \subseteq Items
    /\ s \in {"line", "number return", "insert return", "returned"} =>
        \A i \in q.todo : q.asked[i] > 0
    /\ s \in {"number return", "insert return", "returned"} =>
        \A i \in q.item :
            /\ table[<< q.sale, i >>] # Absent
            /\ q.asked[i] > 0
            /\ q.seen[i] + q.asked[i] <= table[<< q.sale, i >>].quantity
    /\ s = "insert return" => q.number > 0
    /\ s = "give back" => \A i \in q.todo : table[<< q.sale, i >>] # Absent
    /\ s = "given back" =>
        \A i \in q.item \cup q.todo : table[<< q.sale, i >>] # Absent
    /\ s = "given back" => \A i \in q.item : q.seen[i] <= Quantity[i]
Knows(t, s, q, g) ==
    /\ StepFits(q.kind, s)
    /\ s \in {"new", "done"} => g = NoRows /\ q = NoRequest
    /\ s # "done" => \A r \in Own(t) : table[r] = Absent
    /\ IsFiniteSet(q.returns)
    /\ q.kind \in Conversions => ConversionKnows(t, s, q, g)
    /\ q.kind \in {"patch", "partial", "full", "estorno", "cancelOs"} =>
        table[q.sale] # Absent
    /\ q.kind \in {"partial", "full"} => ReturnKnows(s, q)
    /\ (q.kind = "estorno" /\ s = "unlink") =>
        \A d \in q.todo : d \in Sales /\ table[d] # Absent

TableTyped(T) ==
    /\ T = [r \in RowNames |-> T[r]]
    /\ \A r \in RowNames : T[r] \in Permitted(r)

OrderTyped ==
    /\ TableTyped(table)
    /\ services \subseteq Items
    /\ returns \subseteq ReturnRows /\ IsFiniteSet(returns)
    /\ overlapped \in {"none", "conversions", "mixed"}
    /\ step \in [Transactions -> OrderSteps]
    /\ request \in [Transactions -> RequestRows]
    /\ draft = [t \in Transactions |-> draft[t]]
    /\ \A t \in Transactions :
        Writable(t, draft[t]) /\ Knows(t, step[t], request[t], draft[t])
    /\ \A t, u \in Transactions : t # u => DOMAIN draft[t] \cap DOMAIN draft[u] = {}

-----------------------------------------------------------------------------
LEMMA NamesDiffer ==
    /\ Order \in Documents /\ Order \notin Sales /\ First \in Sales
    /\ Documents = Sales \cup {Order}
    /\ \A t \in Transactions : t \in Sales /\ t \in Documents /\ t # Order
    /\ \A s \in Sales : s \in Documents /\ s # Order
    /\ \A d \in Documents : d \in RowNames /\ d # Sequence /\ d \notin Lines
    /\ \A d \in Documents, i \in Items :
        /\ << d, i >> \in Lines /\ << d, i >> \in RowNames
        /\ << d, i >> # Sequence /\ << d, i >> \notin Documents
    /\ Sequence \in RowNames
    /\ \A r \in RowNames : r = Sequence \/ r \in Documents \/ r \in Lines
    /\ \A r \in Lines : \E d \in Documents, i \in Items : r = << d, i >>
<1>1. /\ Order \notin Sales /\ Sequence \notin Documents \cup Lines /\ Documents \cap Lines = {}
  BY OrderAssumption
<1>2. /\ First \in Sales /\ Documents = Sales \cup {Order} /\ Transactions \subseteq Sales
      /\ RowNames = Documents \cup Lines \cup {Sequence}
  BY DEF Sales, Documents, RowNames
<1>3. \A d \in Documents, i \in Items : << d, i >> \in Lines
  BY DEF Lines
<1>4. \A r \in Lines : \E d \in Documents, i \in Items : r = << d, i >>
  BY DEF Lines
<1> HIDE DEF Documents, Sales, Lines, RowNames
<1>5. /\ \A t \in Transactions : t \in Sales /\ t \in Documents /\ t # Order
      /\ \A s \in Sales : s \in Documents /\ s # Order
      /\ \A d \in Documents : d \in RowNames /\ d # Sequence /\ d \notin Lines
  BY <1>1, <1>2
<1>6. \A d \in Documents, i \in Items :
        /\ << d, i >> \in Lines /\ << d, i >> \in RowNames
        /\ << d, i >> # Sequence /\ << d, i >> \notin Documents
  BY <1>1, <1>2, <1>3
<1>7. QED
  BY <1>1, <1>2, <1>4, <1>5, <1>6

LEMMA LinesApart ==
    /\ Order \in Documents /\ \A d \in Sales : d \in Documents
    /\ \A d, e \in Documents, i \in Items : << d, i >> # e
BY NamesDiffer

LEMMA RowsDiffer ==
    /\ Absent \notin DocumentRows /\ Absent \notin LineRows
    /\ \A i \in Items : Quantity[i] \in Nat /\ Quantity[i] > 0
    /\ \A i \in Items : FirstSold[i] \in Nat /\ FirstSold[i] <= Quantity[i]
    /\ \A k \in RequestKinds : k # "none"
<1>1. Absent \notin DocumentRows \cup LineRows
  BY OrderAssumption
<1>2. Quantity \in [Items -> Nat \ {0}] /\ FirstSold \in [Items -> Nat]
      /\ \A i \in Items : FirstSold[i] <= Quantity[i]
  BY OrderAssumption DEF Amounts
<1>3. \A k \in RequestKinds : k # "none"
  BY OrderAssumption
<1>4. QED
  BY <1>1, <1>2, <1>3

LEMMA PermittedRows ==
    /\ Permitted(Sequence) = Nat
    /\ Permitted(Order) = DocumentRows
    /\ \A s \in Sales : Permitted(s) = DocumentRows \cup {Absent}
    /\ \A i \in Items : Permitted(<< Order, i >>) = LinesFor(Order, i)
    /\ \A s \in Sales, i \in Items : Permitted(<< s, i >>) = LinesFor(s, i) \cup {Absent}
<1>1. Permitted(Sequence) = Nat
  BY DEF Permitted
<1>2. Permitted(Order) = DocumentRows
  BY NamesDiffer DEF Permitted
<1>3. \A s \in Sales : Permitted(s) = DocumentRows \cup {Absent}
  BY NamesDiffer DEF Permitted
<1>4. \A i \in Items : Permitted(<< Order, i >>) = LinesFor(Order, i)
  BY NamesDiffer DEF Permitted
<1>5. \A s \in Sales, i \in Items : Permitted(<< s, i >>) = LinesFor(s, i) \cup {Absent}
  BY NamesDiffer DEF Permitted
<1>6. QED
  BY <1>1, <1>2, <1>3, <1>4, <1>5

\* The rows of a table that is typed.
LEMMA TypedRows ==
    ASSUME NEW T, TableTyped(T)
    PROVE  /\ T[Sequence] \in Nat
           /\ T[Order] \in DocumentRows /\ T[Order] # Absent
           /\ \A d \in Documents : T[d] # Absent => T[d] \in DocumentRows
           /\ \A i \in Items : T[<< Order, i >>] # Absent /\ T[<< Order, i >>] \in LinesFor(Order, i)
           /\ \A d \in Documents, i \in Items :
                T[<< d, i >>] # Absent => T[<< d, i >>] \in LinesFor(d, i)
<1>1. \A r \in RowNames : T[r] \in Permitted(r)
  BY DEF TableTyped
<1>2. T[Sequence] \in Nat
  BY <1>1, NamesDiffer, PermittedRows
<1>3. T[Order] \in DocumentRows /\ T[Order] # Absent
  BY <1>1, NamesDiffer, PermittedRows, RowsDiffer
<1>4. \A d \in Documents : T[d] # Absent => T[d] \in DocumentRows
  BY <1>1, <1>3, NamesDiffer, PermittedRows
<1>5. \A i \in Items : T[<< Order, i >>] # Absent /\ T[<< Order, i >>] \in LinesFor(Order, i)
  BY <1>1, NamesDiffer, PermittedRows, RowsDiffer DEF LinesFor
<1>6. \A d \in Documents, i \in Items :
        T[<< d, i >>] # Absent => T[<< d, i >>] \in LinesFor(d, i)
  <2> TAKE d \in Documents, i \in Items
  <2>1. T[<< d, i >>] \in Permitted(<< d, i >>)
    BY <1>1, NamesDiffer
  <2>2. d = Order \/ d \in Sales
    BY NamesDiffer
  <2>3. QED
    BY <1>5, <2>1, <2>2, PermittedRows
<1>7. QED
  BY <1>2, <1>3, <1>4, <1>5, <1>6

\* What t sees is a typed table, in which nothing that is committed is missing.
LEMMA SeenTyped ==
    ASSUME OrderTyped, NEW t \in Transactions
    PROVE  /\ \A r \in RowNames : Seen(t, r) \in Permitted(r)
           /\ \A r \in RowNames \ {Sequence} :
                /\ Seen(t, r) # Absent <=> (table[r] # Absent \/ r \in DOMAIN draft[t])
           /\ \A r \in Lines : table[r] # Absent => Seen(t, r).quantity = table[r].quantity
<1>1. /\ \A r \in RowNames : table[r] \in Permitted(r)
      /\ Writable(t, draft[t])
  BY DEF OrderTyped, TableTyped
<1>2. \A r \in Lines : r \in RowNames
  BY DEF RowNames
<1>3. QED
  BY <1>1, <1>2 DEF Seen, Writable

LEMMA SeenDocuments ==
    ASSUME OrderTyped, NEW t \in Transactions
    PROVE  /\ Seen(t, Sequence) \in Nat /\ Seen(t, Order) \in DocumentRows
           /\ \A d \in Documents : table[d] # Absent => Seen(t, d) # Absent
           /\ \A d \in Documents : Seen(t, d) # Absent => Seen(t, d) \in DocumentRows
           /\ \A i \in Items : LineSeen(t, Order, i) \in LinesFor(Order, i)
           /\ \A d \in Documents, i \in Items :
                /\ table[<< d, i >>] # Absent =>
                     /\ LineSeen(t, d, i) # Absent
                     /\ LineSeen(t, d, i).quantity = table[<< d, i >>].quantity
                /\ LineSeen(t, d, i) # Absent => LineSeen(t, d, i) \in LinesFor(d, i)
<1> DEFINE T == [r \in RowNames |-> Seen(t, r)]
<1>1. TableTyped(T)
  BY SeenTyped DEF TableTyped
<1>2. \A r \in RowNames : T[r] = Seen(t, r)
  OBVIOUS
<1>3. \A r \in RowNames \ {Sequence} : table[r] # Absent => Seen(t, r) # Absent
  BY SeenTyped
<1>4. \A r \in Lines : table[r] # Absent => Seen(t, r).quantity = table[r].quantity
  BY SeenTyped
<1> HIDE DEF T
<1>5. /\ Seen(t, Sequence) \in Nat /\ Seen(t, Order) \in DocumentRows
      /\ \A d \in Documents : Seen(t, d) # Absent => Seen(t, d) \in DocumentRows
  BY <1>1, <1>2, TypedRows, NamesDiffer
<1>6. /\ \A i \in Items : Seen(t, << Order, i >>) \in LinesFor(Order, i)
      /\ \A d \in Documents, i \in Items :
           Seen(t, << d, i >>) # Absent => Seen(t, << d, i >>) \in LinesFor(d, i)
  BY <1>1, <1>2, TypedRows, NamesDiffer
<1>7. QED
  BY <1>3, <1>4, <1>5, <1>6, NamesDiffer DEF LineSeen

-----------------------------------------------------------------------------
\* A step that moves one request on and commits nothing.
Moves(t, q, s, g) ==
    /\ request' = [request EXCEPT ![t] = q]
    /\ step' = [step EXCEPT ![t] = s]
    /\ draft' = [draft EXCEPT ![t] = g]
    /\ UNCHANGED << table, services, returns, overlapped >>

LEMMA TypedStep ==
    ASSUME OrderTyped, NEW t \in Transactions, NEW q \in RequestRows, NEW s \in OrderSteps, NEW g,
           Moves(t, q, s, g), Writable(t, g), Knows(t, s, q, g),
           \A u \in Transactions \ {t} : DOMAIN g \cap DOMAIN draft[u] = {}
    PROVE  OrderTyped'
<1>1. /\ step' \in [Transactions -> OrderSteps]
      /\ request' \in [Transactions -> RequestRows]
      /\ draft' = [u \in Transactions |-> draft'[u]]
      /\ step'[t] = s /\ request'[t] = q /\ draft'[t] = g
      /\ \A u \in Transactions \ {t} :
           step'[u] = step[u] /\ request'[u] = request[u] /\ draft'[u] = draft[u]
  BY DEF OrderTyped, Moves
<1>2. table' = table /\ services' = services /\ returns' = returns /\ overlapped' = overlapped
  BY DEF Moves
<1>3. ASSUME NEW u \in Transactions
      PROVE  (Writable(u, draft[u]) /\ Knows(u, step[u], request[u], draft[u]))'
  <2>1. CASE u = t
    <3>1. Writable(t, draft[t])'
      BY <1>1, <1>2 DEF Writable
    <3>2. Knows(t, step[t], request[t], draft[t])'
      BY <1>1, <1>2 DEF Knows, ConversionKnows, ReturnKnows
    <3>3. QED
      BY <2>1, <3>1, <3>2
  <2>2. CASE u # t
    <3>1. Writable(u, draft[u]) /\ Knows(u, step[u], request[u], draft[u])
      BY DEF OrderTyped
    <3>2. step'[u] = step[u] /\ request'[u] = request[u] /\ draft'[u] = draft[u]
      BY <1>1, <2>2
    <3>3. Writable(u, draft[u])'
      BY <1>2, <3>1, <3>2 DEF Writable
    <3>4. /\ ConversionKnows(u, step[u], request[u], draft[u])'
               = ConversionKnows(u, step[u], request[u], draft[u])
          /\ ReturnKnows(step[u], request[u])' = ReturnKnows(step[u], request[u])
      BY <1>2, <3>2 DEF ConversionKnows, ReturnKnows
    <3>5. Knows(u, step[u], request[u], draft[u])'
      BY <1>2, <3>1, <3>2, <3>4 DEF Knows
    <3>6. QED
      BY <3>3, <3>5
  <2>3. QED
    BY <2>1, <2>2
<1>4. \A u, v \in Transactions : u # v => DOMAIN draft'[u] \cap DOMAIN draft'[v] = {}
  BY <1>1 DEF OrderTyped
<1>5. TableTyped(table)'
  BY <1>2 DEF OrderTyped, TableTyped
<1>6. QED
  BY <1>1, <1>2, <1>3, <1>4, <1>5 DEF OrderTyped

\* Reading and moving on.
LEMMA ReadingStep ==
    ASSUME OrderTyped, NEW t \in Transactions, NEW q \in RequestRows, NEW s \in OrderSteps,
           request' = [request EXCEPT ![t] = q], step' = [step EXCEPT ![t] = s], Read,
           Knows(t, s, q, draft[t])
    PROVE  OrderTyped' /\ Moves(t, q, s, draft[t])
<1>1. draft' = [draft EXCEPT ![t] = draft[t]]
  BY DEF OrderTyped, Read
<1>2. Moves(t, q, s, draft[t])
  BY <1>1 DEF Moves, Read
<1>3. /\ Writable(t, draft[t])
      /\ \A u \in Transactions \ {t} : DOMAIN draft[t] \cap DOMAIN draft[u] = {}
  BY DEF OrderTyped
<1>4. QED
  BY <1>2, <1>3, TypedStep

LEMMA OverIs ==
    ASSUME NEW top, NEW bottom
    PROVE  /\ DOMAIN Over(top, bottom) = DOMAIN top \cup DOMAIN bottom
           /\ Functional(Over(top, bottom))
           /\ \A r \in DOMAIN top : Over(top, bottom)[r] = top[r]
           /\ \A r \in DOMAIN bottom \ DOMAIN top : Over(top, bottom)[r] = bottom[r]
BY DEF Over, Functional

LEMMA OneIs ==
    ASSUME NEW r, NEW w
    PROVE  DOMAIN One(r, w) = {r} /\ One(r, w)[r] = w
           /\ Functional(One(r, w))
BY DEF One, Functional

\* Writing and moving on: t sees what it wrote over what it saw.
LEMMA OrderWritingStep ==
    ASSUME OrderTyped, NEW t \in Transactions, NEW q \in RequestRows, NEW s \in OrderSteps, NEW f,
           request' = [request EXCEPT ![t] = q], step' = [step EXCEPT ![t] = s],
           WriteRows(t, f), Writable(t, f), Knows(t, s, q, Over(f, draft[t]))
    PROVE  /\ OrderTyped' /\ Moves(t, q, s, Over(f, draft[t]))
           /\ DOMAIN draft'[t] = DOMAIN f \cup DOMAIN draft[t]
           /\ \A r : Seen(t, r)' = IF r \in DOMAIN f THEN f[r] ELSE Seen(t, r)
<1> DEFINE g == Over(f, draft[t])
<1>1. /\ DOMAIN g = DOMAIN f \cup DOMAIN draft[t]
      /\ Functional(g)
      /\ \A r \in DOMAIN f : g[r] = f[r]
      /\ \A r \in DOMAIN draft[t] \ DOMAIN f : g[r] = draft[t][r]
  BY OverIs
<1>2. draft' = [draft EXCEPT ![t] = g] /\ UNCHANGED << table, services, returns, overlapped >>
      /\ \A u \in Transactions \ {t} : DOMAIN f \cap DOMAIN draft[u] = {}
  BY DEF WriteRows
<1> HIDE DEF g
<1>3. Writable(t, draft[t])
      /\ \A u \in Transactions \ {t} : DOMAIN draft[t] \cap DOMAIN draft[u] = {}
  BY DEF OrderTyped
<1>4. Writable(t, g)
  <2>1. DOMAIN g \subseteq RowNames
    BY <1>1, <1>3 DEF Writable
  <2>2. ASSUME NEW r \in DOMAIN g
        PROVE  /\ g[r] \in Permitted(r) /\ (r # Sequence => g[r] # Absent)
               /\ (r # Sequence /\ table[r] = Absent) => r \in Own(t)
               /\ (r \in Lines /\ table[r] # Absent) => g[r].quantity = table[r].quantity
    <3>1. CASE r \in DOMAIN f
      BY <1>1, <3>1 DEF Writable
    <3>2. CASE r \in DOMAIN draft[t] \ DOMAIN f
      BY <1>1, <1>3, <3>2 DEF Writable
    <3>3. QED
      BY <1>1, <3>1, <3>2
  <2>3. QED
    BY <1>1, <2>1, <2>2 DEF Writable
<1>5. \A u \in Transactions \ {t} : DOMAIN g \cap DOMAIN draft[u] = {}
  BY <1>1, <1>2, <1>3
<1>6. Moves(t, q, s, g) /\ Knows(t, s, q, g)
  BY <1>2 DEF Moves, g
<1>7. OrderTyped'
  BY <1>4, <1>5, <1>6, TypedStep
<1>8. draft'[t] = g /\ table' = table
  BY <1>2 DEF OrderTyped
<1>9. \A r : Seen(t, r)' = IF r \in DOMAIN f THEN f[r] ELSE Seen(t, r)
  BY <1>1, <1>8 DEF Seen
<1>10. QED
  BY <1>1, <1>6, <1>7, <1>8, <1>9 DEF g

-----------------------------------------------------------------------------
LEMMA StatusTyped ==
    /\ \A line : StatusOf(line) \in {"ABERTA", "PARCIAL", "FINALIZADA"}
    /\ \A line : StatusOf(line) \in OrderStatuses
    /\ \A lines : SituationOf(lines) \in Situations
    /\ \A s : StatusOfSituation(s) \in {"CANCELADA", "PARCIAL", "FINALIZADA"}
    /\ \A s : StatusOfSituation(s) \in OrderStatuses
BY DEF StatusOf, OrderStatuses, SituationOf, Situations, StatusOfSituation

LEMMA NoRequestTyped ==
    /\ NoRequest \in RequestRows /\ NoRequest.kind = "none"
    /\ NoRequest.returns = {} /\ NoRequest.todo = {}
    /\ NoRequest.asked = [i \in Items |-> 0]
<1>1. /\ [i \in Items |-> 0] \in Amounts /\ Order \in Documents
      /\ "ABERTA" \in OrderStatuses /\ "SEM_DEVOLUCAO" \in Situations
  BY DEF Amounts, Documents, OrderStatuses, Situations
<1>2. QED
  BY <1>1 DEF NoRequest, RequestRows

LEMMA RequestOf ==
    ASSUME OrderTyped, NEW t \in Transactions
    PROVE  /\ request[t] \in RequestRows /\ step[t] \in OrderSteps
           /\ Knows(t, step[t], request[t], draft[t]) /\ Writable(t, draft[t])
           /\ request[t].sale \in Documents /\ request[t].asked \in Amounts
           /\ request[t].status \in OrderStatuses /\ request[t].situation \in Situations
           /\ request[t].item \subseteq Items /\ request[t].seen \in Amounts
           /\ request[t].linked \in BOOLEAN /\ request[t].number \in Nat
           /\ request[t].returns \subseteq ReturnRows
           /\ TableTyped(table)
<1>1. request[t] \in RequestRows
  BY DEF OrderTyped
<1>2. QED
  BY <1>1 DEF OrderTyped, RequestRows

LEMMA KindOfStep ==
    ASSUME OrderTyped, NEW t \in Transactions
    PROVE  /\ request[t].kind = "none" <=> step[t] \in {"new", "done"}
           /\ request[t].kind \in Conversions \cup
                {"patch", "partial", "full", "estorno", "cancelOs", "none"}
           /\ step[t] \in {"lines", "number", "insert", "convert"} =>
                request[t].kind \in Conversions
           /\ step[t] = "patch" => request[t].kind = "patch"
           /\ step[t] \in {"returnable", "line", "number return", "insert return", "returned",
                           "situation", "reopen", "give back", "given back"} =>
                request[t].kind \in {"partial", "full"}
           /\ step[t] \in {"unlink", "reset"} => request[t].kind = "estorno"
           /\ step[t] = "generated" => request[t].kind \in {"estorno", "cancelOs"}
           /\ step[t] = "order" => request[t].kind # "patch"
<1>1. StepFits(request[t].kind, step[t])
  BY RequestOf DEF Knows
<1>2. request[t].kind \in RequestKinds \cup {"none"}
  BY RequestOf DEF RequestRows
<1>3. RequestKinds \subseteq {"osToSale", "budgetToSale", "budgetToOs",
                               "patch", "partial", "full", "estorno", "cancelOs"}
  BY OrderAssumption
<1>4. request[t].kind \in Conversions \cup
        {"patch", "partial", "full", "estorno", "cancelOs", "none"}
  BY <1>2, <1>3 DEF Conversions
<1>5. \A k \in Conversions : k \notin {"patch", "partial", "full", "estorno", "cancelOs", "none"}
  BY DEF Conversions
<1>6. QED
  BY <1>1, <1>4, <1>5 DEF StepFits, ConversionSteps, ReturnSteps

LEMMA KindsDiffer ==
    \A k \in Conversions : k \notin {"patch", "partial", "full", "estorno", "cancelOs", "none"}
BY DEF Conversions

\* The request that arrives.
LEMMA RequestTyped ==
    ASSUME OrderTyped, NEW t \in Transactions, AtStep(t, "new"), Read,
           NEW kind, NEW d \in Documents, NEW a \in Amounts, NEW s \in OrderStatuses,
           Request(t, kind, d, a, s),
           kind \in Conversions => d = t,
           kind \notin Conversions => table[d] # Absent,
           kind \in {"partial", "full"} => d \in Sales
    PROVE  OrderTyped'
<1> DEFINE q == [NoRequest EXCEPT !.kind = kind, !.sale = d, !.asked = a, !.status = s]
<1>1. /\ kind \in RequestKinds /\ request' = [request EXCEPT ![t] = q]
      /\ step' = [step EXCEPT ![t] = "read"]
  BY DEF Request, GoTo
<1>2. q \in RequestRows
  BY <1>1, NoRequestTyped DEF RequestRows
<1>3. /\ q.kind = kind /\ q.sale = d /\ q.returns = {} /\ q.todo = {}
  BY NoRequestTyped DEF RequestRows
<1> HIDE DEF q
<1>4. Knows(t, "new", request[t], draft[t]) /\ step[t] = "new"
  BY RequestOf DEF AtStep
<1>5. DOMAIN draft[t] = {} /\ \A r \in Own(t) : table[r] = Absent
  BY <1>4 DEF Knows, NoRows
<1>6. StepFits(kind, "read") /\ kind # "none"
  <2>1. kind \in Conversions \cup {"patch", "partial", "full", "estorno", "cancelOs"}
    BY <1>1, OrderAssumption DEF Conversions
  <2>2. QED
    BY <2>1 DEF StepFits, ConversionSteps, ReturnSteps, Conversions
<1>7. ConversionKnows(t, "read", q, draft[t]) \/ kind \notin Conversions
  BY <1>3, <1>5 DEF ConversionKnows
<1>8. ReturnKnows("read", q) \/ kind \notin {"partial", "full"}
  BY <1>3 DEF ReturnKnows
<1>9. IsFiniteSet(q.returns)
  BY <1>3, FS_EmptySet
<1>10. Knows(t, "read", q, draft[t])
  BY <1>3, <1>5, <1>6, <1>7, <1>8, <1>9, KindsDiffer DEF Knows
<1>11. "read" \in OrderSteps
  BY DEF OrderSteps, ConversionSteps
<1>12. QED
  BY <1>1, <1>2, <1>10, <1>11, ReadingStep

LEMMA OpenTyped ==
    ASSUME OrderTyped, NEW t \in Transactions, Open(t)
    PROVE  OrderTyped'
<1>1. AtStep(t, "new") /\ Read
  BY DEF Open
<1>2. /\ [i \in Items |-> 0] \in Amounts
      /\ Asks \subseteq Amounts /\ {"ABERTA", "FINALIZADA", "CANCELADA"} \subseteq OrderStatuses
  BY OrderAssumption DEF Amounts, OrderStatuses
<1>3. t \in Documents /\ Order \in Documents /\ table[Order] # Absent
  BY NamesDiffer, RequestOf, TypedRows
<1>4. CASE \E kind \in Conversions, a \in Asks, s \in {"ABERTA", "FINALIZADA"} :
             Request(t, kind, t, a, s)
  BY <1>1, <1>2, <1>3, <1>4, RequestTyped, KindsDiffer
<1>5. CASE \E d \in {e \in Documents : table[e] # Absent}, s \in {"FINALIZADA", "CANCELADA"} :
             Request(t, "patch", d, [i \in Items |-> 0], s)
  BY <1>1, <1>2, <1>5, RequestTyped, KindsDiffer
<1>6. CASE \E d \in {e \in Documents : table[e] # Absent} \ {Order}, a \in Asks :
             Request(t, "partial", d, a, "FINALIZADA")
  BY <1>1, <1>2, <1>6, RequestTyped, KindsDiffer, NamesDiffer
<1>7. CASE \E d \in {e \in Documents : table[e] # Absent} \ {Order} :
             Request(t, "full", d, [i \in Items |-> 0], "FINALIZADA")
  BY <1>1, <1>2, <1>7, RequestTyped, KindsDiffer, NamesDiffer
<1>8. CASE Request(t, "estorno", Order, [i \in Items |-> 0], "ABERTA")
  BY <1>1, <1>2, <1>3, <1>8, RequestTyped, KindsDiffer
<1>9. CASE Request(t, "cancelOs", Order, [i \in Items |-> 0], "CANCELADA")
  BY <1>1, <1>2, <1>3, <1>9, RequestTyped, KindsDiffer
<1>10. QED
  BY <1>4, <1>5, <1>6, <1>7, <1>8, <1>9, NoRequestTyped DEF Open

-----------------------------------------------------------------------------
\* The conversions.
LEMMA ConversionAt ==
    ASSUME OrderTyped, NEW t \in Transactions, request[t].kind \in Conversions
    PROVE  /\ ConversionKnows(t, step[t], request[t], draft[t])
           /\ StepFits(request[t].kind, step[t]) /\ IsFiniteSet(request[t].returns)
           /\ step[t] \notin {"new", "done"}
           /\ \A r \in Own(t) : table[r] = Absent
BY RequestOf, KindsDiffer DEF Knows, StepFits

LEMMA ConversionStep ==
    ASSUME OrderTyped, NEW t \in Transactions, request[t].kind \in Conversions,
           NEW q \in RequestRows, NEW s, NEW g, q.kind = request[t].kind,
           q.returns = request[t].returns, s \in ConversionSteps,
           ConversionKnows(t, s, q, g)
    PROVE  Knows(t, s, q, g) /\ s \in OrderSteps
BY ConversionAt, KindsDiffer DEF Knows, StepFits, ConversionSteps, OrderSteps

LEMMA ReadToConvertTyped ==
    ASSUME OrderTyped, NEW t \in Transactions, ReadToConvert(t)
    PROVE  OrderTyped'
<1>1. /\ request' = [request EXCEPT ![t] = request[t]] /\ request[t] \in RequestRows
      /\ step' = [step EXCEPT ![t] = "lines"] /\ Read /\ step[t] = "read"
      /\ request[t].kind \in Conversions
  BY DEF ReadToConvert, GoTo, AtStep, OrderTyped, Conversions
<1>2. ConversionKnows(t, "lines", request[t], draft[t])
  BY <1>1, ConversionAt DEF ConversionKnows
<1>3. QED
  BY <1>1, <1>2, ConversionStep, ReadingStep DEF ConversionSteps

LEMMA ReadLinesTyped ==
    ASSUME OrderTyped, NEW t \in Transactions, ReadLines(t)
    PROVE  OrderTyped'
<1> DEFINE seen == [i \in Items |-> table[<< Order, i >>].converted]
           q == [request[t] EXCEPT !.seen = seen]
<1>1. /\ request' = [request EXCEPT ![t] = q] /\ request[t] \in RequestRows
      /\ step' = [step EXCEPT ![t] = "number"] /\ Read /\ step[t] = "lines"
      /\ request[t].kind \in Conversions
      /\ \A i \in Items : FitsRemaining(request[t].asked[i], table[<< Order, i >>])
  BY KindOfStep DEF ReadLines, GoTo, AtStep, OrderTyped
<1>2. \A i \in Items : /\ table[<< Order, i >>].converted \in Nat
                       /\ table[<< Order, i >>].quantity = Quantity[i]
                       /\ request[t].asked[i] \in Nat /\ Quantity[i] \in Nat
  BY RequestOf, TypedRows, RowsDiffer DEF LinesFor, LineRows, Amounts
<1>3. seen \in Amounts /\ \A i \in Items : seen[i] = table[<< Order, i >>].converted
  BY <1>2 DEF Amounts
<1> HIDE DEF seen
<1>4. q \in RequestRows
  BY <1>1, <1>3 DEF RequestRows
<1>5. /\ q.seen = seen /\ q.kind = request[t].kind /\ q.returns = request[t].returns
      /\ q.sale = request[t].sale /\ q.todo = request[t].todo /\ q.asked = request[t].asked
  BY <1>1 DEF RequestRows
<1> HIDE DEF q
<1>6. \A i \in Items : seen[i] + request[t].asked[i] <= Quantity[i]
  <2> TAKE i \in Items
  <2>1. request[t].asked[i] <= table[<< Order, i >>].quantity - table[<< Order, i >>].converted
    BY <1>1 DEF FitsRemaining
  <2>2. QED
    BY <1>2, <1>3, <2>1
<1>7. ConversionKnows(t, "number", q, draft[t])
  BY <1>1, <1>5, <1>6, ConversionAt DEF ConversionKnows
<1>8. QED
  BY <1>1, <1>4, <1>5, <1>7, ConversionStep, ReadingStep DEF ConversionSteps

LEMMA TakeNumberTyped ==
    ASSUME OrderTyped, NEW t \in Transactions, TakeNumber(t)
    PROVE  OrderTyped'
<1> DEFINE f == One(Sequence, table[Sequence] + 1)
<1>1. /\ request' = [request EXCEPT ![t] = request[t]] /\ request[t] \in RequestRows
      /\ step' = [step EXCEPT ![t] = "insert"] /\ WriteRows(t, f) /\ step[t] = "number"
      /\ request[t].kind \in Conversions
  BY KindOfStep DEF TakeNumber, NextOrderNumber, GoTo, AtStep, OrderTyped
<1>2. Writable(t, f)
  <2>1. /\ DOMAIN f = {Sequence} /\ f[Sequence] = table[Sequence] + 1
        /\ Functional(f)
    BY OneIs
  <2> HIDE DEF f
  <2>2. f[Sequence] \in Permitted(Sequence)
    BY <2>1, RequestOf, TypedRows, PermittedRows
  <2>3. Sequence \in RowNames /\ Sequence \notin Lines
    BY NamesDiffer, OrderAssumption
  <2>4. QED
    BY <2>1, <2>2, <2>3 DEF Writable
<1>3. ConversionKnows(t, "insert", request[t], Over(f, draft[t]))
  BY <1>1, ConversionAt DEF ConversionKnows
<1>4. QED
  BY <1>1, <1>2, <1>3, ConversionStep, OrderWritingStep DEF ConversionSteps

\* What a conversion inserts.
GeneratedTypes == {"VENDA", "ORDEM DE SERVICO"}
GeneratedAs(f, d, status, a) ==
    /\ Functional(f)
    /\ \A r : r \in DOMAIN f <=> r = d \/ \E i \in Items : a[i] > 0 /\ r = << d, i >>
    /\ f[d] \in DocumentRows /\ f[d].linked = TRUE /\ f[d].status = status
    /\ f[d].situation = "SEM_DEVOLUCAO"
    /\ f[d].type \in GeneratedTypes
    /\ \A i \in Items : a[i] > 0 =>
         /\ f[<< d, i >>] \in LinesFor(d, i) /\ f[<< d, i >>].quantity = a[i]
         /\ f[<< d, i >>].returned = 0 /\ f[<< d, i >>].linked = TRUE
LinesAs(h, d, a) ==
    /\ \A r : r \in DOMAIN h <=> \E i \in Items : a[i] > 0 /\ r = << d, i >>
    /\ \A i \in Items : a[i] > 0 => \E n \in {0, a[i]} : h[<< d, i >>] = Line(a[i], n, TRUE)

LEMMA DocumentAndLines ==
    ASSUME NEW d \in Sales, NEW status \in OrderStatuses, NEW a \in Amounts,
           NEW form \in GeneratedTypes, NEW h, LinesAs(h, d, a)
    PROVE  GeneratedAs(Over(One(d, Document(form, status, TRUE)), h), d, status, a)
<1> DEFINE g == One(d, Document(form, status, TRUE))
           f == Over(g, h)
<1>1. /\ \A r : r \in DOMAIN h <=> \E i \in Items : a[i] > 0 /\ r = << d, i >>
      /\ \A i \in Items : a[i] > 0 => \E n \in {0, a[i]} : h[<< d, i >>] = Line(a[i], n, TRUE)
  BY DEF LinesAs
<1>2. DOMAIN g = {d} /\ g[d] = Document(form, status, TRUE)
  BY OneIs
<1>3. \A i \in Items : << d, i >> # d /\ d \in Documents /\ d # Order
  BY NamesDiffer
<1>4. DOMAIN f = DOMAIN g \cup DOMAIN h /\ Functional(f)
      /\ (\A r \in DOMAIN g : f[r] = g[r])
      /\ \A r \in DOMAIN h \ DOMAIN g : f[r] = h[r]
  BY OverIs
<1> HIDE DEF f, g
<1>5. /\ \A r : r \in DOMAIN f <=> r = d \/ \E i \in Items : a[i] > 0 /\ r = << d, i >>
      /\ f[d] = Document(form, status, TRUE)
  BY <1>1, <1>2, <1>4
<1>6. ASSUME NEW i \in Items, a[i] > 0
      PROVE  \E n \in {0, a[i]} : f[<< d, i >>] = Line(a[i], n, TRUE)
  <2>1. << d, i >> \in DOMAIN h /\ << d, i >> \notin DOMAIN g
    BY <1>1, <1>2, <1>3, <1>6
  <2>2. f[<< d, i >>] = h[<< d, i >>]
    BY <1>4, <2>1
  <2>3. QED
    BY <1>1, <1>6, <2>2
<1>7. /\ f[d].linked = TRUE /\ f[d].status = status /\ f[d].situation = "SEM_DEVOLUCAO"
      /\ f[d].type = form
  BY <1>5 DEF Document
<1>8. f[d] \in DocumentRows
  <2>1. (status = "FINALIZADA") \in BOOLEAN
    OBVIOUS
  <2>2. PICK p : p \in BOOLEAN /\ p = (status = "FINALIZADA")
    BY <2>1
  <2>3. f[d] = [type |-> form, status |-> status, situation |-> "SEM_DEVOLUCAO",
                linked |-> TRUE, paid |-> p]
    BY <1>5, <2>2, Zenon DEF Document
  <2>4. form \in Types /\ "SEM_DEVOLUCAO" \in Situations
    BY DEF Types, Situations, GeneratedTypes
  <2>5. QED
    BY <2>2, <2>3, <2>4 DEF DocumentRows
<1>9. ASSUME NEW i \in Items, a[i] > 0
      PROVE  /\ f[<< d, i >>] \in LinesFor(d, i) /\ f[<< d, i >>].quantity = a[i]
             /\ f[<< d, i >>].returned = 0 /\ f[<< d, i >>].linked = TRUE
  <2>1. a[i] \in Nat \ {0} /\ d # Order
    BY <1>3, <1>9 DEF Amounts
  <2>2. PICK n \in {0, a[i]} : f[<< d, i >>] = Line(a[i], n, TRUE)
    BY <1>6, <1>9
  <2> DEFINE l == Line(a[i], n, TRUE)
  <2>3. l \in LineRows /\ l.quantity = a[i] /\ l.returned = 0 /\ l.linked = TRUE
        /\ l.converted <= l.quantity
    BY <2>1 DEF Line, LineRows
  <2> HIDE DEF l
  <2>4. f[<< d, i >>] = l
    BY <2>2 DEF l
  <2>5. l \in LinesFor(d, i)
    BY <2>1, <2>3 DEF LinesFor, LineRows
  <2>6. QED
    BY <2>3, <2>4, <2>5
<1>10. f[d].type \in GeneratedTypes
  BY <1>7
<1>11. GeneratedAs(f, d, status, a)
  BY <1>4, <1>5, <1>7, <1>8, <1>9, <1>10, Zenon DEF GeneratedAs
<1>12. QED
  BY <1>11 DEF f, g

LEMMA GeneratedRows ==
    ASSUME NEW d \in Sales, NEW status \in OrderStatuses, NEW a \in Amounts
    PROVE  /\ GeneratedAs(SaleOf(d, status, a), d, status, a)
           /\ GeneratedAs(OrderOf(d, status, a), d, status, a)
<1> DEFINE S == {i \in Items : a[i] > 0}
           h1 == [r \in {d} \X S |-> Line(a[r[2]], a[r[2]], TRUE)]
           h2 == [r \in {d} \X S |-> Line(a[r[2]], 0, TRUE)]
<1>1. DOMAIN h1 = {d} \X S /\ DOMAIN h2 = {d} \X S
  OBVIOUS
<1>2. \A i \in S : h1[<< d, i >>] = Line(a[i], a[i], TRUE)
  OBVIOUS
<1>3. \A i \in S : h2[<< d, i >>] = Line(a[i], 0, TRUE)
  OBVIOUS
<1>4. \A r : r \in {d} \X S <=> \E i \in Items : a[i] > 0 /\ r = << d, i >>
  OBVIOUS
<1>5. /\ SaleOf(d, status, a) = Over(One(d, Document("VENDA", status, TRUE)), h1)
      /\ OrderOf(d, status, a) = Over(One(d, Document("ORDEM DE SERVICO", status, TRUE)), h2)
  BY DEF SaleOf, OrderOf
<1> HIDE DEF h1, h2
<1>6. \A i \in Items : a[i] > 0 => i \in S
  OBVIOUS
<1>7. /\ \A i \in Items : a[i] > 0 => \E n \in {0, a[i]} : h1[<< d, i >>] = Line(a[i], n, TRUE)
      /\ \A i \in Items : a[i] > 0 => \E n \in {0, a[i]} : h2[<< d, i >>] = Line(a[i], n, TRUE)
  BY <1>2, <1>3, <1>6
<1>8. /\ \A r : r \in DOMAIN h1 <=> \E i \in Items : a[i] > 0 /\ r = << d, i >>
      /\ \A r : r \in DOMAIN h2 <=> \E i \in Items : a[i] > 0 /\ r = << d, i >>
  BY <1>1, <1>4, Zenon
<1>9. LinesAs(h1, d, a) /\ LinesAs(h2, d, a)
  BY <1>7, <1>8, Zenon DEF LinesAs
<1>10. "VENDA" \in GeneratedTypes /\ "ORDEM DE SERVICO" \in GeneratedTypes
  BY DEF GeneratedTypes
<1>11. /\ GeneratedAs(Over(One(d, Document("VENDA", status, TRUE)), h1), d, status, a)
       /\ GeneratedAs(Over(One(d, Document("ORDEM DE SERVICO", status, TRUE)), h2), d, status, a)
  BY <1>9, <1>10, DocumentAndLines
<1>12. QED
  BY <1>5, <1>11

LEMMA OwnIs ==
    ASSUME NEW d PROVE \A r : r \in Own(d) <=> r = d \/ \E i \in Items : r = << d, i >>
BY DEF Own

LEMMA InsertDocumentTyped ==
    ASSUME OrderTyped, NEW t \in Transactions, InsertDocument(t)
    PROVE  OrderTyped'
<1> DEFINE a == request[t].asked
           f == IF request[t].kind = "budgetToOs" THEN OrderOf(t, request[t].status, a)
                ELSE SaleOf(t, request[t].status, a)
           S == {i \in Items : a[i] > 0}
           q == [request[t] EXCEPT !.todo = S]
<1>1. /\ request' = [request EXCEPT ![t] = q] /\ request[t] \in RequestRows
      /\ step' = [step EXCEPT ![t] = "convert"] /\ WriteRows(t, f) /\ step[t] = "insert"
      /\ request[t].kind \in Conversions
  BY KindOfStep DEF InsertDocument, GoTo, AtStep, OrderTyped
<1>2. t \in Sales /\ a \in Amounts /\ request[t].status \in OrderStatuses
  BY RequestOf, NamesDiffer
<1>3. f = SaleOf(t, request[t].status, a) \/ f = OrderOf(t, request[t].status, a)
  OBVIOUS
<1> HIDE DEF f
<1>4. /\ Functional(f)
      /\ \A r : r \in DOMAIN f <=> r = t \/ \E i \in Items : a[i] > 0 /\ r = << t, i >>
      /\ f[t] \in DocumentRows
      /\ \A i \in Items : a[i] > 0 => f[<< t, i >>] \in LinesFor(t, i)
  <2>1. GeneratedAs(f, t, request[t].status, a)
    BY <1>2, <1>3, GeneratedRows
  <2>2. QED
    BY <2>1 DEF GeneratedAs
<1>6. \A r \in Own(t) : table[r] = Absent
  BY <1>1, ConversionAt
<1>7. \A r \in DOMAIN f : r \in Own(t)
  BY <1>4, OwnIs
<1>8. \A r \in DOMAIN f : r \in RowNames /\ f[r] \in Permitted(r) /\ f[r] # Absent
  <2>1. t \in RowNames /\ f[t] \in Permitted(t) /\ f[t] # Absent
    BY <1>2, <1>4, NamesDiffer, PermittedRows, RowsDiffer
  <2>2. ASSUME NEW i \in Items, a[i] > 0
        PROVE  /\ << t, i >> \in RowNames /\ f[<< t, i >>] \in Permitted(<< t, i >>)
               /\ f[<< t, i >>] # Absent
    <3>1. f[<< t, i >>] \in LinesFor(t, i)
      BY <1>4, <2>2
    <3>2. Permitted(<< t, i >>) = LinesFor(t, i) \cup {Absent}
      BY <1>2, PermittedRows
    <3>3. QED
      BY <1>2, <3>1, <3>2, NamesDiffer, RowsDiffer DEF LinesFor
  <2>3. QED
    BY <1>4, <2>1, <2>2
<1>9. Writable(t, f)
  BY <1>4, <1>6, <1>7, <1>8 DEF Writable
<1>10. q \in RequestRows
  BY <1>1 DEF RequestRows
<1>11. /\ q.seen = request[t].seen /\ q.kind = request[t].kind
       /\ q.returns = request[t].returns
       /\ q.sale = request[t].sale /\ q.todo = S /\ q.asked = request[t].asked
  BY <1>1 DEF RequestRows
<1> HIDE DEF q
<1>12. ConversionKnows(t, "convert", q, Over(f, draft[t]))
  BY <1>1, <1>11, ConversionAt DEF ConversionKnows
<1>13. QED
  BY <1>1, <1>9, <1>10, <1>11, <1>12, ConversionStep, OrderWritingStep DEF ConversionSteps

\* Writing another converted quantity of a line of the order, and another row of
\* a document.
LEMMA OrderLineWritable ==
    ASSUME OrderTyped, NEW t \in Transactions, NEW i \in Items,
           NEW n \in Nat, n <= Quantity[i],
           NEW f, f = One(<< Order, i >>, [LineSeen(t, Order, i) EXCEPT !.converted = n])
    PROVE  /\ Writable(t, f) /\ DOMAIN f = {<< Order, i >>}
           /\ f[<< Order, i >>] = [LineSeen(t, Order, i) EXCEPT !.converted = n]
           /\ f[<< Order, i >>].converted = n
           /\ f[<< Order, i >>].quantity = LineSeen(t, Order, i).quantity
<1> DEFINE old == LineSeen(t, Order, i)
           row == [old EXCEPT !.converted = n]
           l == << Order, i >>
<1>1. old \in LinesFor(Order, i) /\ table[l] # Absent /\ table[l] \in LinesFor(Order, i)
  BY SeenDocuments, RequestOf, TypedRows
<1>2. row \in LinesFor(Order, i) /\ row.converted = n /\ row.quantity = old.quantity
      /\ row.quantity = Quantity[i] /\ table[l].quantity = Quantity[i]
  BY <1>1 DEF LinesFor, LineRows
<1>3. row # Absent
  BY <1>2, RowsDiffer DEF LinesFor
<1>4. l \in Lines /\ l \in RowNames /\ l # Sequence /\ Permitted(l) = LinesFor(Order, i)
  BY NamesDiffer, PermittedRows
<1>5. DOMAIN f = {l} /\ f[l] = row /\ Functional(f)
  BY OneIs
<1> HIDE DEF row, old, l
<1>6. Writable(t, f)
  BY <1>1, <1>2, <1>3, <1>4, <1>5 DEF Writable
<1>7. QED
  BY <1>2, <1>5, <1>6 DEF row, old, l

LEMMA DocumentWritable ==
    ASSUME OrderTyped, NEW t \in Transactions, NEW d \in Documents, table[d] # Absent,
           NEW row \in DocumentRows, NEW f, f = One(d, row)
    PROVE  Writable(t, f) /\ DOMAIN f = {d} /\ f[d] = row
<1>1. d \in RowNames /\ d \notin Lines /\ d # Sequence /\ row \in Permitted(d) /\ row # Absent
  BY NamesDiffer, PermittedRows, RowsDiffer
<1>2. DOMAIN f = {d} /\ f[d] = row /\ Functional(f)
  BY OneIs
<1>3. QED
  BY <1>1, <1>2 DEF Writable

LEMMA ConvertLineTyped ==
    ASSUME OrderTyped, NEW t \in Transactions, ConvertLine(t)
    PROVE  OrderTyped'
<1>1. PICK i \in request[t].todo :
        /\ WriteRows(t, One(<< Order, i >>, [LineSeen(t, Order, i) EXCEPT
                        !.converted = request[t].seen[i] + request[t].asked[i]]))
        /\ request' = [request EXCEPT ![t].todo = @ \ {i}]
  BY DEF ConvertLine
<1> DEFINE n == request[t].seen[i] + request[t].asked[i]
           f == One(<< Order, i >>, [LineSeen(t, Order, i) EXCEPT !.converted = n])
           q == [request[t] EXCEPT !.todo = @ \ {i}]
<1>2. /\ request' = [request EXCEPT ![t] = q] /\ request[t] \in RequestRows
      /\ step' = [step EXCEPT ![t] = "convert"] /\ step[t] = "convert"
      /\ request[t].kind \in Conversions /\ WriteRows(t, f)
  BY <1>1, KindOfStep DEF ConvertLine, AtStep, OrderTyped
<1>3. ConversionKnows(t, "convert", request[t], draft[t])
  BY <1>2, ConversionAt
<1>4. i \in Items /\ n \in Nat /\ n <= Quantity[i]
  BY <1>1, <1>3, RequestOf DEF ConversionKnows, Amounts
<1>5. Writable(t, f)
  BY <1>4, OrderLineWritable
<1>6. q \in RequestRows
  BY <1>2 DEF RequestRows
<1>7. /\ q.seen = request[t].seen /\ q.kind = request[t].kind
      /\ q.returns = request[t].returns /\ q.sale = request[t].sale
      /\ q.todo = request[t].todo \ {i} /\ q.asked = request[t].asked
  BY <1>2 DEF RequestRows
<1> HIDE DEF q, f
<1>8. ConversionKnows(t, "convert", q, Over(f, draft[t]))
  BY <1>3, <1>7 DEF ConversionKnows
<1>9. QED
  BY <1>2, <1>5, <1>6, <1>7, <1>8, ConversionStep, OrderWritingStep DEF ConversionSteps

-----------------------------------------------------------------------------
\* The other requests.
LEMMA OtherAt ==
    ASSUME OrderTyped, NEW t \in Transactions,
           request[t].kind \in {"patch", "partial", "full", "estorno", "cancelOs"}
    PROVE  /\ StepFits(request[t].kind, step[t]) /\ IsFiniteSet(request[t].returns)
           /\ step[t] \notin {"new", "done"}
           /\ table[request[t].sale] # Absent
           /\ \A r \in Own(t) : table[r] = Absent
           /\ request[t].kind \in {"partial", "full"} => ReturnKnows(step[t], request[t])
           /\ (request[t].kind = "estorno" /\ step[t] = "unlink") =>
                \A d \in request[t].todo : d \in Sales /\ table[d] # Absent
BY RequestOf DEF Knows, StepFits

LEMMA OtherStep ==
    ASSUME OrderTyped, NEW t \in Transactions,
           request[t].kind \in {"patch", "partial", "full", "estorno", "cancelOs"},
           NEW q \in RequestRows, NEW s, NEW g, StepFits(request[t].kind, s),
           q.kind = request[t].kind, q.sale = request[t].sale, IsFiniteSet(q.returns),
           q.kind \in {"partial", "full"} => ReturnKnows(s, q),
           (q.kind = "estorno" /\ s = "unlink") =>
                \A d \in q.todo : d \in Sales /\ table[d] # Absent
    PROVE  Knows(t, s, q, g) /\ s \in OrderSteps
<1>1. s \notin {"new", "done"} /\ s \in OrderSteps
  BY DEF StepFits, OrderSteps, ConversionSteps, ReturnSteps
<1>2. q.kind \notin Conversions
  BY KindsDiffer
<1>3. table[q.sale] # Absent /\ \A r \in Own(t) : table[r] = Absent
  BY OtherAt
<1>4. QED
  BY <1>1, <1>2, <1>3 DEF Knows

\* A step of a request that is not a conversion, to what it may be.
Fits(kind, s) ==
    /\ kind \in {"patch", "partial", "full", "estorno", "cancelOs"}
    /\ StepFits(kind, s)

LEMMA FitsIs ==
    /\ \A kind \in {"partial", "full"}, s \in ReturnSteps : Fits(kind, s)
    /\ \A s \in {"read", "patch", "commit"} : Fits("patch", s)
    /\ \A s \in {"read", "generated", "unlink", "reset", "order", "commit"} : Fits("estorno", s)
    /\ \A s \in {"read", "generated", "order", "commit"} : Fits("cancelOs", s)
<1>1. \A kind \in {"partial", "full"}, s \in ReturnSteps : Fits(kind, s)
  <2> TAKE kind \in {"partial", "full"}, s \in ReturnSteps
  <2>1. s \notin {"new", "done"} /\ kind \notin Conversions
    BY DEF ReturnSteps, Conversions
  <2>2. QED
    BY <2>1 DEF Fits, StepFits
<1>2. \A s \in {"read", "patch", "commit"} : Fits("patch", s)
  BY DEF Fits, StepFits, Conversions
<1>3. \A s \in {"read", "generated", "unlink", "reset", "order", "commit"} : Fits("estorno", s)
  BY DEF Fits, StepFits, Conversions
<1>4. \A s \in {"read", "generated", "order", "commit"} : Fits("cancelOs", s)
  BY DEF Fits, StepFits, Conversions
<1>5. QED
  BY <1>1, <1>2, <1>3, <1>4

LEMMA RereadLinesTyped ==
    ASSUME OrderTyped, NEW t \in Transactions, RereadLines(t)
    PROVE  OrderTyped'
<1> DEFINE status == StatusOf(OrderLines(t))
           q == [request[t] EXCEPT !.status = status]
<1>1. /\ request' = [request EXCEPT ![t] = q] /\ request[t] \in RequestRows
      /\ step' = [step EXCEPT ![t] = "order"] /\ Read
      /\ step[t] \in {"convert", "give back"}
  BY DEF RereadLines, GoTo, OrderTyped
<1>2. status \in OrderStatuses
  BY StatusTyped
<1> HIDE DEF status
<1>3. q \in RequestRows
  BY <1>1, <1>2 DEF RequestRows
<1>4. /\ q.seen = request[t].seen /\ q.kind = request[t].kind
      /\ q.returns = request[t].returns /\ q.sale = request[t].sale
      /\ q.todo = request[t].todo /\ q.asked = request[t].asked
  BY <1>1 DEF RequestRows
<1> HIDE DEF q
<1>5. CASE step[t] = "convert"
  <2>1. request[t].kind \in Conversions
    BY <1>5, KindOfStep
  <2>2. ConversionKnows(t, "order", q, draft[t])
    BY <1>4, <1>5, <2>1, ConversionAt DEF ConversionKnows
  <2>3. QED
    BY <1>1, <1>3, <1>4, <2>1, <2>2, ConversionStep, ReadingStep DEF ConversionSteps
<1>6. CASE step[t] = "give back"
  <2>1. request[t].kind \in {"partial", "full"}
    BY <1>6, KindOfStep
  <2>2. ReturnKnows("order", q)
    BY <1>4, <2>1, OtherAt DEF ReturnKnows
  <2>3. StepFits(request[t].kind, "order")
    BY <2>1, FitsIs DEF Fits, ReturnSteps
  <2>4. Knows(t, "order", q, draft[t]) /\ "order" \in OrderSteps
    BY <1>3, <1>4, <2>1, <2>2, <2>3, OtherAt, OtherStep
  <2>5. QED
    BY <1>1, <1>3, <2>4, ReadingStep
<1>7. QED
  BY <1>1, <1>5, <1>6

LEMMA WriteOrderTyped ==
    ASSUME OrderTyped, NEW t \in Transactions, WriteOrder(t)
    PROVE  OrderTyped'
<1> DEFINE row == [Seen(t, Order) EXCEPT !.status = request[t].status]
           f == One(Order, row)
<1>1. /\ request' = [request EXCEPT ![t] = request[t]] /\ request[t] \in RequestRows
      /\ step' = [step EXCEPT ![t] = "commit"] /\ WriteRows(t, f) /\ step[t] = "order"
  BY DEF WriteOrder, GoTo, AtStep, OrderTyped
<1>2. row \in DocumentRows
  BY SeenDocuments, RequestOf DEF DocumentRows
<1>3. Order \in Documents /\ table[Order] # Absent
  BY NamesDiffer, RequestOf, TypedRows
<1> HIDE DEF row
<1>4. Writable(t, f)
  BY <1>2, <1>3, DocumentWritable
<1> HIDE DEF f
<1>5. CASE request[t].kind \in Conversions
  <2>1. ConversionKnows(t, "commit", request[t], Over(f, draft[t]))
    BY <1>1, <1>5, ConversionAt DEF ConversionKnows
  <2>2. QED
    BY <1>1, <1>4, <1>5, <2>1, ConversionStep, OrderWritingStep DEF ConversionSteps
<1>6. CASE request[t].kind \in {"partial", "full", "estorno", "cancelOs"}
  <2>1. request[t].kind \in {"partial", "full"} => ReturnKnows("commit", request[t])
    BY <1>6, OtherAt DEF ReturnKnows
  <2>2. StepFits(request[t].kind, "commit")
    BY <1>6, FitsIs DEF Fits, ReturnSteps
  <2>3. Knows(t, "commit", request[t], Over(f, draft[t])) /\ "commit" \in OrderSteps
    BY <1>1, <1>6, <2>1, <2>2, OtherAt, OtherStep
  <2>4. QED
    BY <1>1, <1>4, <2>3, OrderWritingStep
<1>7. QED
  BY <1>1, <1>5, <1>6, KindOfStep

LEMMA PatchTyped ==
    ASSUME OrderTyped, NEW t \in Transactions, ReadToPatch(t) \/ WritePatch(t)
    PROVE  OrderTyped'
<1>1. CASE ReadToPatch(t)
  <2>1. /\ request' = [request EXCEPT ![t] = request[t]] /\ request[t] \in RequestRows
        /\ step' = [step EXCEPT ![t] = "patch"] /\ Read /\ request[t].kind = "patch"
    BY <1>1 DEF ReadToPatch, GoTo, AtStep, OrderTyped
  <2>2. StepFits("patch", "patch")
    BY FitsIs DEF Fits
  <2>3. Knows(t, "patch", request[t], draft[t]) /\ "patch" \in OrderSteps
    BY <2>1, <2>2, OtherAt, OtherStep
  <2>4. QED
    BY <2>1, <2>3, ReadingStep
<1>2. CASE WritePatch(t)
  <2> DEFINE d == request[t].sale
             paid == SaleSeen(t).paid \/ request[t].status = "FINALIZADA"
             row == [SaleSeen(t) EXCEPT !.status = request[t].status, !.paid = paid]
             f == One(d, row)
  <2>1. /\ request' = [request EXCEPT ![t] = request[t]] /\ request[t] \in RequestRows
        /\ step' = [step EXCEPT ![t] = "commit"] /\ WriteRows(t, f) /\ step[t] = "patch"
    BY <1>2 DEF WritePatch, GoTo, AtStep, OrderTyped
  <2>2. request[t].kind = "patch"
    BY <2>1, KindOfStep
  <2>3. d \in Documents /\ table[d] # Absent
    BY <2>2, RequestOf, OtherAt
  <2>4. SaleSeen(t) \in DocumentRows /\ request[t].status \in OrderStatuses
    BY <2>3, SeenDocuments, RequestOf DEF SaleSeen
  <2>5. paid \in BOOLEAN
    OBVIOUS
  <2> HIDE DEF paid
  <2>6. row \in DocumentRows
    BY <2>4, <2>5 DEF DocumentRows
  <2> HIDE DEF row
  <2>7. Writable(t, f)
    <3> HIDE DEF d
    <3>1. QED
      BY <2>3, <2>6, DocumentWritable
  <2> HIDE DEF f
  <2>8. StepFits("patch", "commit")
    BY FitsIs DEF Fits
  <2>9. Knows(t, "commit", request[t], Over(f, draft[t])) /\ "commit" \in OrderSteps
    BY <2>1, <2>2, <2>8, OtherAt, OtherStep
  <2>10. QED
    BY <2>1, <2>7, <2>9, OrderWritingStep
<1>3. QED
  BY <1>1, <1>2

-----------------------------------------------------------------------------
\* The returns.
LEMMA ReturnAt ==
    ASSUME OrderTyped, NEW t \in Transactions, request[t].kind \in {"partial", "full"}
    PROVE  /\ ReturnKnows(step[t], request[t]) /\ request[t].sale \in Sales
           /\ request[t].sale \in Documents /\ request[t].sale # Order
           /\ request[t].todo \subseteq Items
           /\ table[request[t].sale] # Absent
           /\ SaleSeen(t) \in DocumentRows
           /\ \A i \in Items : LineSeen(t, request[t].sale, i) # Absent =>
                /\ LineSeen(t, request[t].sale, i) \in LinesFor(request[t].sale, i)
                /\ table[<< request[t].sale, i >>] # Absent
                /\ table[<< request[t].sale, i >>].quantity
                       = LineSeen(t, request[t].sale, i).quantity
           /\ \A i \in Items : table[<< request[t].sale, i >>] # Absent =>
                LineSeen(t, request[t].sale, i) # Absent
<1>1. /\ ReturnKnows(step[t], request[t]) /\ request[t].sale \in Sales
      /\ request[t].todo \subseteq Items /\ table[request[t].sale] # Absent
      /\ \A r \in Own(t) : table[r] = Absent
  BY OtherAt DEF ReturnKnows
<1> DEFINE d == request[t].sale
<1>2. d \in Documents /\ d # Order
  BY <1>1, NamesDiffer
<1>3. SaleSeen(t) \in DocumentRows
  BY <1>1, <1>2, SeenDocuments DEF SaleSeen
<1>4. d # t
  BY <1>1, OwnIs
<1>5. ASSUME NEW i \in Items, LineSeen(t, d, i) # Absent
      PROVE  table[<< d, i >>] # Absent
  <2>1. << d, i >> \in Lines /\ << d, i >> # t /\ << d, i >> # Sequence
    BY <1>2, NamesDiffer
  <2>2. << d, i >> \notin Own(t)
    BY <1>4, <2>1, OwnIs
  <2>3. CASE << d, i >> \in DOMAIN draft[t]
    BY <2>1, <2>2, <2>3, RequestOf DEF Writable
  <2>4. CASE << d, i >> \notin DOMAIN draft[t]
    BY <1>5, <2>4 DEF LineSeen, Seen
  <2>5. QED
    BY <2>3, <2>4
<1>6. QED
  BY <1>1, <1>2, <1>3, <1>5, SeenDocuments

LEMMA ReturnStep ==
    ASSUME OrderTyped, NEW t \in Transactions, request[t].kind \in {"partial", "full"},
           NEW q \in RequestRows, NEW s \in ReturnSteps, NEW g,
           q.kind = request[t].kind, q.sale = request[t].sale, IsFiniteSet(q.returns),
           ReturnKnows(s, q)
    PROVE  Knows(t, s, q, g) /\ s \in OrderSteps
<1>1. StepFits(request[t].kind, s)
  BY FitsIs DEF Fits
<1>2. request[t].kind \in {"patch", "partial", "full", "estorno", "cancelOs"}
      /\ request[t].kind # "estorno"
  OBVIOUS
<1>3. QED
  BY <1>1, <1>2, OtherStep

LEMMA ReadToReturnTyped ==
    ASSUME OrderTyped, NEW t \in Transactions, ReadToReturn(t)
    PROVE  OrderTyped'
<1> DEFINE linked == SaleSeen(t).linked /\ FromWorkOrder
           S == {i \in Items : request[t].asked[i] > 0}
           q == [request[t] EXCEPT !.linked = linked, !.todo = S]
           s == IF request[t].kind = "full" THEN "returnable" ELSE "line"
<1>1. /\ request' = [request EXCEPT ![t] = q] /\ request[t] \in RequestRows
      /\ step' = [step EXCEPT ![t] = s] /\ Read
      /\ request[t].kind \in {"partial", "full"}
  BY DEF ReadToReturn, GoTo, AtStep, OrderTyped
<1>2. linked \in BOOLEAN /\ S \subseteq Items
  BY Zenon
<1>3. \A i \in S : request[t].asked[i] > 0
  OBVIOUS
<1> HIDE DEF linked, S
<1>4. q \in RequestRows
  BY <1>1, <1>2 DEF RequestRows
<1>5. /\ q.seen = request[t].seen /\ q.kind = request[t].kind /\ q.item = request[t].item
      /\ q.returns = request[t].returns /\ q.sale = request[t].sale
      /\ q.todo = S /\ q.asked = request[t].asked
  BY <1>1 DEF RequestRows
<1> HIDE DEF q
<1>6. s \in ReturnSteps /\ s \in {"returnable", "line"}
  BY DEF ReturnSteps
<1> HIDE DEF s
<1>7. ReturnKnows(s, q)
  BY <1>1, <1>2, <1>3, <1>5, <1>6, ReturnAt DEF ReturnKnows
<1>8. Knows(t, s, q, draft[t]) /\ s \in OrderSteps
  BY <1>1, <1>4, <1>5, <1>6, <1>7, OtherAt, ReturnStep
<1>9. QED
  BY <1>1, <1>4, <1>8, ReadingStep

LEMMA ReadReturnableTyped ==
    ASSUME OrderTyped, NEW t \in Transactions, ReadReturnable(t)
    PROVE  OrderTyped'
<1> DEFINE d == request[t].sale
           left == [i \in Items |-> IF i \in ItemsOf(t, d) THEN Returnable(LineSeen(t, d, i))
                                    ELSE 0]
           some == {i \in Items : left[i] > 0}
           q == [request[t] EXCEPT !.asked = left, !.todo = some]
<1>1. /\ request' = [request EXCEPT ![t] = q] /\ request[t] \in RequestRows
      /\ step' = [step EXCEPT ![t] = "line"] /\ Read
      /\ request[t].kind \in {"partial", "full"}
  BY KindOfStep DEF ReadReturnable, GoTo, AtStep, OrderTyped
<1>2. \A i \in Items : left[i] \in Nat
  <2> TAKE i \in Items
  <2>1. CASE i \in ItemsOf(t, d)
    <3>1. LineSeen(t, d, i) \in LinesFor(d, i)
      BY <1>1, <2>1, ReturnAt DEF ItemsOf
    <3>2. Returnable(LineSeen(t, d, i)) \in Nat
      BY <3>1 DEF Returnable, LinesFor, LineRows
    <3>3. QED
      BY <2>1, <3>2
  <2>2. QED
    BY <2>1
<1>3. left \in Amounts /\ some \subseteq Items /\ \A i \in some : left[i] > 0
  BY <1>2 DEF Amounts
<1> HIDE DEF left, some
<1>4. q \in RequestRows
  BY <1>1, <1>3 DEF RequestRows
<1>5. /\ q.kind = request[t].kind /\ q.item = request[t].item
      /\ q.returns = request[t].returns /\ q.sale = request[t].sale
      /\ q.todo = some /\ q.asked = left
  BY <1>1 DEF RequestRows
<1> HIDE DEF q
<1>6. ReturnKnows("line", q) /\ "line" \in ReturnSteps
  BY <1>1, <1>3, <1>5, ReturnAt DEF ReturnKnows, ReturnSteps
<1>7. Knows(t, "line", q, draft[t]) /\ "line" \in OrderSteps
  BY <1>1, <1>4, <1>5, <1>6, OtherAt, ReturnStep
<1>8. QED
  BY <1>1, <1>4, <1>7, ReadingStep

LEMMA ReadReturnLineTyped ==
    ASSUME OrderTyped, NEW t \in Transactions, ReadReturnLine(t)
    PROVE  OrderTyped'
<1>1. PICK i \in request[t].todo \cap ItemsOf(t, request[t].sale) :
        /\ request[t].asked[i] <= Returnable(LineSeen(t, request[t].sale, i))
        /\ request' = [request EXCEPT ![t].item = {i},
                ![t].seen[i] = LineSeen(t, request[t].sale, i).returned, ![t].todo = @ \ {i}]
  BY DEF ReadReturnLine
<1> DEFINE d == request[t].sale
           n == LineSeen(t, d, i).returned
           q == [request[t] EXCEPT !.item = {i}, !.seen[i] = n, !.todo = @ \ {i}]
<1>20. /\ step' = [step EXCEPT ![t] = "number return"] /\ Read /\ step[t] = "line"
       /\ request[t].kind \in {"partial", "full"}
  BY KindOfStep DEF ReadReturnLine, GoTo, AtStep
<1>21. request' = [request EXCEPT ![t] = q]
  BY <1>1
<1>2. /\ request' = [request EXCEPT ![t] = q] /\ request[t] \in RequestRows
      /\ step' = [step EXCEPT ![t] = "number return"] /\ Read /\ step[t] = "line"
      /\ request[t].kind \in {"partial", "full"}
  BY <1>20, <1>21, RequestOf
<1>3. /\ i \in Items /\ LineSeen(t, d, i) \in LinesFor(d, i) /\ table[<< d, i >>] # Absent
      /\ table[<< d, i >>].quantity = LineSeen(t, d, i).quantity
  BY <1>1, <1>2, ReturnAt DEF ItemsOf
<1>4. /\ n \in Nat /\ LineSeen(t, d, i).quantity \in Nat
      /\ request[t].asked[i] \in Nat /\ request[t].asked[i] > 0
  BY <1>1, <1>2, <1>3, ReturnAt, RequestOf DEF LinesFor, LineRows, ReturnKnows, Amounts
<1>5. n + request[t].asked[i] <= table[<< d, i >>].quantity
  BY <1>1, <1>3, <1>4 DEF Returnable
<1> HIDE DEF n
<1>6. q \in RequestRows
  BY <1>2, <1>3, <1>4 DEF RequestRows, Amounts
<1>7. /\ q.kind = request[t].kind /\ q.item = {i} /\ q.seen[i] = n
      /\ q.returns = request[t].returns /\ q.sale = request[t].sale
      /\ q.todo = request[t].todo \ {i} /\ q.asked = request[t].asked
  BY <1>2, <1>3, RequestOf DEF RequestRows, Amounts
<1> HIDE DEF q
<1>8. ReturnKnows("number return", q) /\ "number return" \in ReturnSteps
  BY <1>2, <1>3, <1>4, <1>5, <1>7, ReturnAt DEF ReturnKnows, ReturnSteps
<1>9. Knows(t, "number return", q, draft[t]) /\ "number return" \in OrderSteps
  BY <1>2, <1>6, <1>7, <1>8, OtherAt, ReturnStep
<1>10. QED
  BY <1>2, <1>6, <1>9, ReadingStep

\* The greatest of a finite set of numbers.
LEMMA GreatestIsThere ==
    ASSUME NEW S \in SUBSET Nat, IsFiniteSet(S), S # {}
    PROVE  Max(S) \in S /\ \A n \in S : n <= Max(S)
<1> DEFINE Q == {T \in SUBSET S : T = {} \/ \E n \in T : \A m \in T : m <= n}
<1>1. Q \in SUBSET (SUBSET S) /\ {} \in Q
  OBVIOUS
<1>2. \A T \in Q : \A x \in S \ T : T \cup {x} \in Q
  <2> SUFFICES ASSUME NEW T \in Q, NEW x \in S \ T
               PROVE  \E n \in T \cup {x} : \A m \in T \cup {x} : m <= n
    OBVIOUS
  <2>1. CASE T = {}
    BY <2>1
  <2>2. CASE \E n \in T : \A m \in T : m <= n
    <3>1. PICK n \in T : \A m \in T : m <= n
      BY <2>2
    <3>2. CASE x <= n
      BY <3>1, <3>2
    <3>3. CASE ~(x <= n)
      <4>1. \A m \in T : m <= x
        BY <3>1, <3>3
      <4>2. QED  BY <4>1
    <3>4. QED  BY <3>2, <3>3
  <2>3. QED  BY <2>1, <2>2
<1>3. Q = SUBSET S
  <2> HIDE DEF Q
  <2>1. QED  BY <1>1, <1>2, SubsetsByAddition
<1>4. \E n \in S : \A m \in S : m <= n
  BY <1>3
<1>5. \E n \in S : \A m \in S : n >= m
  BY <1>4
<1>6. QED  BY <1>5 DEF Max

LEMMA NextReturnNumber ==
    ASSUME OrderTyped, NEW t \in Transactions,
           NEW S, S = {r \in ReturnsSeen(t) : r.sale = request[t].sale}
    PROVE  /\ 1 + Max({0} \cup {r.order : r \in S}) \in Nat
           /\ 1 + Max({0} \cup {r.order : r \in S}) > 0
<1> DEFINE N == {r.order : r \in S}
<1>1. /\ IsFiniteSet(returns) /\ IsFiniteSet(request[t].returns)
      /\ returns \subseteq ReturnRows /\ request[t].returns \subseteq ReturnRows
  BY RequestOf DEF OrderTyped, Knows
<1>2. IsFiniteSet(ReturnsSeen(t)) /\ ReturnsSeen(t) \subseteq ReturnRows
  BY <1>1, FS_Union DEF ReturnsSeen
<1>3. IsFiniteSet(S) /\ S \subseteq ReturnRows
  BY <1>2, FS_Subset
<1>4. IsFiniteSet(N)
  <2> DEFINE number == [r \in S |-> r.order]
  <2>1. number \in Surjection(S, N)
    BY DEF Surjection
  <2>2. QED
    BY <1>3, <2>1, FS_Surjection
<1>5. N \subseteq Nat
  BY <1>3 DEF ReturnRows
<1> HIDE DEF N
<1>6. {0} \cup N \in SUBSET Nat /\ IsFiniteSet({0} \cup N) /\ {0} \cup N # {}
  BY <1>4, <1>5, FS_AddElement, FS_Singleton, FS_Union
<1>7. Max({0} \cup N) \in Nat
  BY <1>6, GreatestIsThere
<1>8. 1 + Max({0} \cup N) \in Nat /\ 1 + Max({0} \cup N) > 0
  BY <1>7
<1>9. QED
  BY <1>8 DEF N

LEMMA NumberReturnTyped ==
    ASSUME OrderTyped, NEW t \in Transactions, NumberReturn(t)
    PROVE  OrderTyped'
<1> DEFINE S == {r \in ReturnsSeen(t) : r.sale = request[t].sale}
           n == 1 + Max({0} \cup {r.order : r \in S})
           q == [request[t] EXCEPT !.number = n]
<1>1. /\ request' = [request EXCEPT ![t] = q] /\ request[t] \in RequestRows
      /\ step' = [step EXCEPT ![t] = "insert return"] /\ Read /\ step[t] = "number return"
      /\ request[t].kind \in {"partial", "full"}
  BY KindOfStep DEF NumberReturn, GoTo, AtStep, OrderTyped
<1>2. n \in Nat /\ n > 0
  BY NextReturnNumber
<1> HIDE DEF n
<1>3. q \in RequestRows
  BY <1>1, <1>2 DEF RequestRows
<1>4. /\ q.kind = request[t].kind /\ q.item = request[t].item /\ q.seen = request[t].seen
      /\ q.returns = request[t].returns /\ q.sale = request[t].sale /\ q.number = n
      /\ q.todo = request[t].todo /\ q.asked = request[t].asked
  BY <1>1 DEF RequestRows
<1> HIDE DEF q
<1>5. ReturnKnows("insert return", q) /\ "insert return" \in ReturnSteps
  BY <1>1, <1>2, <1>4, ReturnAt DEF ReturnKnows, ReturnSteps
<1>6. Knows(t, "insert return", q, draft[t]) /\ "insert return" \in OrderSteps
  BY <1>1, <1>3, <1>4, <1>5, OtherAt, ReturnStep
<1>7. QED
  BY <1>1, <1>3, <1>6, ReadingStep

LEMMA InsertReturnTyped ==
    ASSUME OrderTyped, NEW t \in Transactions, InsertReturn(t)
    PROVE  OrderTyped'
<1>1. PICK i \in request[t].item :
        request' = [request EXCEPT ![t].returns = @ \cup
            {[sale |-> request[t].sale, item |-> i, order |-> request[t].number,
              quantity |-> request[t].asked[i]]}]
  BY DEF InsertReturn
<1> DEFINE row == [sale |-> request[t].sale, item |-> i, order |-> request[t].number,
                   quantity |-> request[t].asked[i]]
           q == [request[t] EXCEPT !.returns = @ \cup {row}]
<1>2. /\ request' = [request EXCEPT ![t] = q] /\ request[t] \in RequestRows
      /\ step' = [step EXCEPT ![t] = "returned"] /\ Read /\ step[t] = "insert return"
      /\ request[t].kind \in {"partial", "full"}
  BY <1>1, KindOfStep DEF InsertReturn, GoTo, AtStep, OrderTyped
<1>3. /\ i \in Items /\ request[t].asked[i] \in Nat /\ request[t].asked[i] > 0
      /\ request[t].number \in Nat /\ request[t].number > 0 /\ request[t].sale \in Sales
  BY <1>1, <1>2, ReturnAt, RequestOf DEF ReturnKnows, Amounts
<1>4. row \in ReturnRows
  BY <1>3 DEF ReturnRows
<1> HIDE DEF row
<1>5. q \in RequestRows
  BY <1>2, <1>4 DEF RequestRows
<1>6. /\ q.kind = request[t].kind /\ q.item = request[t].item /\ q.seen = request[t].seen
      /\ q.returns = request[t].returns \cup {row} /\ q.sale = request[t].sale
      /\ q.number = request[t].number
      /\ q.todo = request[t].todo /\ q.asked = request[t].asked
  BY <1>2 DEF RequestRows
<1> HIDE DEF q
<1>7. ReturnKnows("returned", q) /\ "returned" \in ReturnSteps
  BY <1>2, <1>6, ReturnAt DEF ReturnKnows, ReturnSteps
<1>8. IsFiniteSet(q.returns)
  <2>1. IsFiniteSet(request[t].returns)
    BY <1>2, OtherAt
  <2>2. QED
    BY <1>6, <2>1, FS_AddElement
<1>9. Knows(t, "returned", q, draft[t]) /\ "returned" \in OrderSteps
  BY <1>2, <1>5, <1>6, <1>7, <1>8, ReturnStep
<1>10. QED
  BY <1>2, <1>5, <1>9, ReadingStep

LEMMA SaleLineWritable ==
    ASSUME OrderTyped, NEW t \in Transactions, request[t].kind \in {"partial", "full"},
           NEW i \in Items, table[<< request[t].sale, i >>] # Absent,
           NEW n \in Nat, n <= table[<< request[t].sale, i >>].quantity,
           NEW f, f = One(<< request[t].sale, i >>,
                          [LineSeen(t, request[t].sale, i) EXCEPT !.returned = n])
    PROVE  /\ Writable(t, f) /\ DOMAIN f = {<< request[t].sale, i >>}
           /\ f[<< request[t].sale, i >>] = [LineSeen(t, request[t].sale, i) EXCEPT !.returned = n]
<1> DEFINE d == request[t].sale
           old == LineSeen(t, d, i)
           row == [old EXCEPT !.returned = n]
           l == << d, i >>
<1>1. /\ d \in Sales /\ d # Order
      /\ old # Absent /\ old \in LinesFor(d, i) /\ table[l].quantity = old.quantity
  BY ReturnAt
<1>2. row \in LinesFor(d, i) /\ row.quantity = old.quantity
  BY <1>1 DEF LinesFor, LineRows
<1>3. row # Absent
  BY <1>2, RowsDiffer DEF LinesFor
<1>4. l \in Lines /\ l \in RowNames /\ l # Sequence /\ Permitted(l) = LinesFor(d, i) \cup {Absent}
  BY <1>1, NamesDiffer, PermittedRows
<1>5. DOMAIN f = {l} /\ f[l] = row /\ Functional(f)
  BY OneIs
<1> HIDE DEF row, old, l
<1>6. Writable(t, f)
  BY <1>1, <1>2, <1>3, <1>4, <1>5 DEF Writable, l
<1>7. QED
  BY <1>5, <1>6 DEF row, old, l

LEMMA WriteReturnedTyped ==
    ASSUME OrderTyped, NEW t \in Transactions, WriteReturned(t)
    PROVE  OrderTyped'
<1>1. PICK i \in request[t].item :
        WriteRows(t, One(<< request[t].sale, i >>, [LineSeen(t, request[t].sale, i) EXCEPT
                    !.returned = ReturnedAfter(request[t].seen[i], request[t].asked[i])]))
  BY DEF WriteReturned
<1> DEFINE d == request[t].sale
           n == ReturnedAfter(request[t].seen[i], request[t].asked[i])
           f == One(<< d, i >>, [LineSeen(t, d, i) EXCEPT !.returned = n])
<1>2. /\ request' = [request EXCEPT ![t] = request[t]] /\ request[t] \in RequestRows
      /\ step' = [step EXCEPT ![t] = "line"] /\ WriteRows(t, f) /\ step[t] = "returned"
      /\ request[t].kind \in {"partial", "full"}
  BY <1>1, KindOfStep DEF WriteReturned, GoTo, AtStep, OrderTyped
<1>3. /\ i \in Items /\ table[<< d, i >>] # Absent
      /\ n \in Nat /\ n <= table[<< d, i >>].quantity
  <2>1. ReturnKnows("returned", request[t]) /\ i \in request[t].item
    BY <1>1, <1>2, ReturnAt
  <2>2. /\ i \in Items /\ request[t].seen[i] \in Nat /\ request[t].asked[i] \in Nat
    BY <2>1, RequestOf DEF Amounts
  <2>3. /\ table[<< d, i >>] # Absent
        /\ request[t].seen[i] + request[t].asked[i] <= table[<< d, i >>].quantity
    BY <2>1 DEF ReturnKnows
  <2>4. n = request[t].seen[i] + request[t].asked[i]
    BY DEF ReturnedAfter
  <2>5. QED
    BY <2>2, <2>3, <2>4
<1> HIDE DEF n
<1>4. Writable(t, f)
  BY <1>2, <1>3, SaleLineWritable
<1> HIDE DEF f
<1>5. ReturnKnows("line", request[t]) /\ "line" \in ReturnSteps
  BY <1>2, ReturnAt DEF ReturnKnows, ReturnSteps
<1>6. Knows(t, "line", request[t], Over(f, draft[t])) /\ "line" \in OrderSteps
  BY <1>2, <1>5, OtherAt, ReturnStep
<1>7. QED
  BY <1>2, <1>4, <1>6, OrderWritingStep

LEMMA ReadSituationTyped ==
    ASSUME OrderTyped, NEW t \in Transactions, ReadSituation(t)
    PROVE  OrderTyped'
<1> DEFINE x == SituationOf(SaleLinesSeen(t))
           q == [request[t] EXCEPT !.situation = x]
<1>1. /\ request' = [request EXCEPT ![t] = q] /\ request[t] \in RequestRows
      /\ step' = [step EXCEPT ![t] = "situation"] /\ Read /\ step[t] = "line"
      /\ request[t].kind \in {"partial", "full"}
  BY KindOfStep DEF ReadSituation, GoTo, AtStep, OrderTyped
<1>2. x \in Situations
  BY StatusTyped
<1> HIDE DEF x
<1>3. q \in RequestRows
  BY <1>1, <1>2 DEF RequestRows
<1>4. /\ q.kind = request[t].kind /\ q.item = request[t].item /\ q.seen = request[t].seen
      /\ q.returns = request[t].returns /\ q.sale = request[t].sale
      /\ q.todo = request[t].todo /\ q.asked = request[t].asked
  BY <1>1 DEF RequestRows
<1> HIDE DEF q
<1>5. ReturnKnows("situation", q) /\ "situation" \in ReturnSteps
  BY <1>1, <1>4, ReturnAt DEF ReturnKnows, ReturnSteps
<1>6. Knows(t, "situation", q, draft[t]) /\ "situation" \in OrderSteps
  BY <1>1, <1>3, <1>4, <1>5, OtherAt, ReturnStep
<1>7. QED
  BY <1>1, <1>3, <1>6, ReadingStep

LEMMA WriteSituationTyped ==
    ASSUME OrderTyped, NEW t \in Transactions, WriteSituation(t)
    PROVE  OrderTyped'
<1> DEFINE d == request[t].sale
           status == IF NothingLeft(t) THEN "CANCELADA"
                     ELSE StatusOfSituation(request[t].situation)
           row == [SaleSeen(t) EXCEPT !.situation = request[t].situation, !.status = status]
           f == One(d, row)
           s == IF Reopens(t, status) THEN "reopen" ELSE "commit"
<1>1. /\ request' = [request EXCEPT ![t] = request[t]] /\ request[t] \in RequestRows
      /\ step' = [step EXCEPT ![t] = s] /\ WriteRows(t, f)
      /\ request[t].kind \in {"partial", "full"}
  BY KindOfStep DEF WriteSituation, GoTo, AtStep, OrderTyped
<1>2. status \in OrderStatuses
  BY StatusTyped DEF OrderStatuses
<1>3. s \in {"reopen", "commit"} /\ s \in ReturnSteps
  BY DEF ReturnSteps
<1> HIDE DEF s, status
<1>4. row \in DocumentRows
  BY <1>1, <1>2, ReturnAt, RequestOf DEF DocumentRows
<1>5. d \in Documents /\ table[d] # Absent
  BY <1>1, ReturnAt
<1> HIDE DEF row, d
<1>6. Writable(t, f)
  BY <1>4, <1>5, DocumentWritable
<1> HIDE DEF f
<1>7. ReturnKnows(s, request[t])
  BY <1>1, <1>3, ReturnAt DEF ReturnKnows
<1>8. Knows(t, s, request[t], Over(f, draft[t])) /\ s \in OrderSteps
  BY <1>1, <1>3, <1>7, OtherAt, ReturnStep
<1>9. QED
  BY <1>1, <1>6, <1>8, OrderWritingStep

LEMMA ReadGeneratedLinesTyped ==
    ASSUME OrderTyped, NEW t \in Transactions, ReadGeneratedLines(t)
    PROVE  OrderTyped'
<1> DEFINE S == {i \in ItemsOf(t, request[t].sale) : LineSeen(t, request[t].sale, i).linked}
           q == [request[t] EXCEPT !.todo = S]
           s == IF SaleSeen(t).linked THEN "give back" ELSE "commit"
<1>1. /\ request' = [request EXCEPT ![t] = q] /\ request[t] \in RequestRows
      /\ step' = [step EXCEPT ![t] = s] /\ Read
      /\ request[t].kind \in {"partial", "full"}
  BY KindOfStep DEF ReadGeneratedLines, GoTo, AtStep, OrderTyped
<1>2. S \subseteq Items /\ \A i \in S : table[<< request[t].sale, i >>] # Absent
  BY <1>1, ReturnAt DEF ItemsOf
<1>3. s \in {"give back", "commit"} /\ s \in ReturnSteps
  BY DEF ReturnSteps
<1> HIDE DEF s, S
<1>4. q \in RequestRows
  BY <1>1, <1>2 DEF RequestRows
<1>5. /\ q.kind = request[t].kind /\ q.returns = request[t].returns
      /\ q.sale = request[t].sale /\ q.todo = S
  BY <1>1 DEF RequestRows
<1> HIDE DEF q
<1>6. ReturnKnows(s, q)
  BY <1>1, <1>2, <1>3, <1>5, ReturnAt DEF ReturnKnows
<1>7. Knows(t, s, q, draft[t]) /\ s \in OrderSteps
  BY <1>1, <1>3, <1>4, <1>5, <1>6, OtherAt, ReturnStep
<1>8. QED
  BY <1>1, <1>4, <1>7, ReadingStep

LEMMA ReadOrderLineTyped ==
    ASSUME OrderTyped, NEW t \in Transactions, ReadOrderLine(t)
    PROVE  OrderTyped'
<1>1. PICK i \in request[t].todo :
        request' = [request EXCEPT ![t].item = {i}, ![t].todo = @ \ {i},
                         ![t].seen[i] = LineSeen(t, Order, i).converted]
  BY DEF ReadOrderLine
<1> DEFINE n == LineSeen(t, Order, i).converted
           q == [request[t] EXCEPT !.item = {i}, !.todo = @ \ {i}, !.seen[i] = n]
<1>2. /\ step' = [step EXCEPT ![t] = "given back"] /\ Read /\ step[t] = "give back"
      /\ request[t].kind \in {"partial", "full"}
  BY KindOfStep DEF ReadOrderLine, GoTo, AtStep
<1>3. request' = [request EXCEPT ![t] = q]
  BY <1>1
<1>4. request[t] \in RequestRows /\ request[t].seen \in [Items -> Nat]
  BY RequestOf DEF Amounts
<1>5. ReturnKnows("give back", request[t])
  BY <1>2, ReturnAt
<1>6. i \in Items
  BY <1>1, <1>5 DEF ReturnKnows
<1>7. n \in Nat /\ n <= Quantity[i]
  BY <1>6, SeenDocuments DEF LinesFor, LineRows
<1> HIDE DEF n
<1>8. q \in RequestRows
  BY <1>4, <1>6, <1>7 DEF RequestRows, Amounts
<1>9. /\ q.kind = request[t].kind /\ q.item = {i} /\ q.seen[i] = n
      /\ q.returns = request[t].returns /\ q.sale = request[t].sale
      /\ q.todo = request[t].todo \ {i}
  BY <1>4, <1>6 DEF RequestRows
<1> HIDE DEF q
<1>10. ReturnKnows("given back", q) /\ "given back" \in ReturnSteps
  BY <1>1, <1>5, <1>7, <1>9 DEF ReturnKnows, ReturnSteps
<1>11. Knows(t, "given back", q, draft[t]) /\ "given back" \in OrderSteps
  BY <1>2, <1>8, <1>9, <1>10, OtherAt, ReturnStep
<1>12. QED
  BY <1>2, <1>3, <1>8, <1>11, ReadingStep

LEMMA GivenBackIs ==
    ASSUME NEW c \in Nat, NEW n \in Nat
    PROVE  GivenBack(c, n) \in Nat /\ GivenBack(c, n) <= c /\ c - n <= GivenBack(c, n)
<1>1. CASE c - n >= 0
  <2>1. Max({0, c - n}) = c - n
    BY <1>1 DEF Max
  <2>2. QED
    BY <1>1, <2>1 DEF GivenBack
<1>2. CASE c - n < 0
  <2>1. Max({0, c - n}) = 0
    BY <1>2 DEF Max
  <2>2. QED
    BY <1>2, <2>1 DEF GivenBack
<1>3. c - n \in Int
  OBVIOUS
<1>4. QED
  BY <1>1, <1>2, <1>3

LEMMA WriteOrderLineTyped ==
    ASSUME OrderTyped, NEW t \in Transactions, WriteOrderLine(t)
    PROVE  OrderTyped'
<1>1. PICK i \in request[t].item :
        WriteRows(t, One(<< Order, i >>, [LineSeen(t, Order, i) EXCEPT !.converted =
            GivenBack(request[t].seen[i], LineSeen(t, request[t].sale, i).quantity)]))
  BY DEF WriteOrderLine
<1> DEFINE n == GivenBack(request[t].seen[i], LineSeen(t, request[t].sale, i).quantity)
           f == One(<< Order, i >>, [LineSeen(t, Order, i) EXCEPT !.converted = n])
<1>2. /\ request' = [request EXCEPT ![t] = request[t]] /\ request[t] \in RequestRows
      /\ step' = [step EXCEPT ![t] = "give back"] /\ WriteRows(t, f) /\ step[t] = "given back"
      /\ request[t].kind \in {"partial", "full"}
  BY <1>1, KindOfStep DEF WriteOrderLine, GoTo, AtStep, OrderTyped
<1>3. ReturnKnows("given back", request[t]) /\ i \in request[t].item
  BY <1>1, <1>2, ReturnAt
<1>4. /\ i \in Items /\ request[t].seen[i] \in Nat
  BY <1>3, RequestOf DEF Amounts
<1>5. /\ table[<< request[t].sale, i >>] # Absent /\ request[t].seen[i] <= Quantity[i]
  BY <1>3 DEF ReturnKnows
<1>6. LineSeen(t, request[t].sale, i).quantity \in Nat
  BY <1>2, <1>4, <1>5, ReturnAt DEF LinesFor, LineRows
<1>7. n \in Nat /\ n <= Quantity[i]
  <2>1. n \in Nat /\ n <= request[t].seen[i]
    BY <1>4, <1>6, GivenBackIs
  <2> HIDE DEF n
  <2>2. Quantity[i] \in Nat
    BY <1>4, RowsDiffer
  <2>3. QED
    BY <1>4, <1>5, <2>1, <2>2
<1> HIDE DEF n
<1>8. Writable(t, f)
  BY <1>4, <1>7, OrderLineWritable
<1> HIDE DEF f
<1>9. ReturnKnows("give back", request[t]) /\ "give back" \in ReturnSteps
  BY <1>3 DEF ReturnKnows, ReturnSteps
<1>10. Knows(t, "give back", request[t], Over(f, draft[t])) /\ "give back" \in OrderSteps
  BY <1>2, <1>9, OtherAt, ReturnStep
<1>11. QED
  BY <1>2, <1>8, <1>10, OrderWritingStep

-----------------------------------------------------------------------------
\* estornoOsToOpen and cancelOs.
LEMMA UndoStep ==
    ASSUME OrderTyped, NEW t \in Transactions, request[t].kind \in {"estorno", "cancelOs"},
           NEW q \in RequestRows, NEW s, Fits(request[t].kind, s), NEW g,
           q.kind = request[t].kind, q.sale = request[t].sale, q.returns = request[t].returns,
           (q.kind = "estorno" /\ s = "unlink") =>
                \A d \in q.todo : d \in Sales /\ table[d] # Absent
    PROVE  Knows(t, s, q, g) /\ s \in OrderSteps
<1>1. /\ request[t].kind \in {"patch", "partial", "full", "estorno", "cancelOs"}
      /\ q.kind \notin {"partial", "full"} /\ StepFits(request[t].kind, s)
  BY DEF Fits
<1>2. IsFiniteSet(q.returns)
  BY <1>1, OtherAt
<1>3. QED
  BY <1>1, <1>2, OtherStep

LEMMA ReadToUndoTyped ==
    ASSUME OrderTyped, NEW t \in Transactions, ReadToUndo(t)
    PROVE  OrderTyped'
<1>1. /\ request' = [request EXCEPT ![t] = request[t]] /\ request[t] \in RequestRows
      /\ step' = [step EXCEPT ![t] = "generated"] /\ Read
      /\ request[t].kind \in {"estorno", "cancelOs"}
  BY DEF ReadToUndo, GoTo, AtStep, OrderTyped
<1>2. Fits(request[t].kind, "generated")
  BY <1>1, FitsIs
<1>3. Knows(t, "generated", request[t], draft[t]) /\ "generated" \in OrderSteps
  BY <1>1, <1>2, UndoStep
<1>4. QED
  BY <1>1, <1>3, ReadingStep

LEMMA ReadGeneratedTyped ==
    ASSUME OrderTyped, NEW t \in Transactions, ReadGenerated(t)
    PROVE  OrderTyped'
<1>1. Read /\ request[t] \in RequestRows
  BY RequestOf DEF ReadGenerated
<1>2. CASE /\ request[t].kind = "estorno" /\ GoTo(t, "unlink")
           /\ request' = [request EXCEPT ![t].todo = Generated, ![t].live = LiveOf(Generated)]
  <2> DEFINE S == Generated
             L == LiveOf(Generated)
             q == [request[t] EXCEPT !.todo = S, !.live = L]
  <2>1. request' = [request EXCEPT ![t] = q] /\ step' = [step EXCEPT ![t] = "unlink"]
    BY <1>2 DEF GoTo
  <2>2. S \subseteq Sales /\ L \subseteq Sales /\ \A d \in S : table[d] # Absent
    BY DEF Generated, LiveOf
  <2> HIDE DEF S, L
  <2>3. q \in RequestRows
    BY <1>1, <2>2 DEF RequestRows
  <2>4. /\ q.kind = request[t].kind /\ q.returns = request[t].returns
        /\ q.sale = request[t].sale /\ q.todo = S
    BY <1>1 DEF RequestRows
  <2> HIDE DEF q
  <2>5. Fits(request[t].kind, "unlink")
    BY <1>2, FitsIs
  <2>6. Knows(t, "unlink", q, draft[t]) /\ "unlink" \in OrderSteps
    BY <1>2, <2>2, <2>3, <2>4, <2>5, UndoStep
  <2>7. QED
    BY <1>1, <2>1, <2>3, <2>6, ReadingStep
<1>3. CASE request[t].kind = "cancelOs" /\ GoTo(t, "order") /\ UNCHANGED request
  <2>1. request' = [request EXCEPT ![t] = request[t]] /\ step' = [step EXCEPT ![t] = "order"]
    BY <1>3 DEF GoTo, OrderTyped
  <2>2. Fits(request[t].kind, "order")
    BY <1>3, FitsIs
  <2>3. Knows(t, "order", request[t], draft[t]) /\ "order" \in OrderSteps
    BY <1>1, <1>3, <2>2, UndoStep
  <2>4. QED
    BY <1>1, <2>1, <2>3, ReadingStep
<1>4. QED
  BY <1>2, <1>3 DEF ReadGenerated

LEMMA UnlinkSaleTyped ==
    ASSUME OrderTyped, NEW t \in Transactions, UnlinkSale(t)
    PROVE  OrderTyped'
<1>1. PICK d \in request[t].todo :
        /\ WriteRows(t, One(d, Unlinked(Seen(t, d), d \in request[t].live)))
        /\ request' = [request EXCEPT ![t].todo = @ \ {d}]
  BY DEF UnlinkSale
<1> DEFINE row == Unlinked(Seen(t, d), d \in request[t].live)
           f == One(d, row)
           q == [request[t] EXCEPT !.todo = @ \ {d}]
<1>2. /\ request' = [request EXCEPT ![t] = q] /\ request[t] \in RequestRows
      /\ step' = [step EXCEPT ![t] = "unlink"] /\ WriteRows(t, f) /\ step[t] = "unlink"
      /\ request[t].kind = "estorno"
  BY <1>1, KindOfStep DEF UnlinkSale, AtStep, OrderTyped
<1>3. \A e \in request[t].todo : e \in Sales /\ table[e] # Absent
  BY <1>2, OtherAt
<1>4. d \in Sales /\ d \in Documents /\ table[d] # Absent
  BY <1>1, <1>3, NamesDiffer
<1>5. Seen(t, d) \in DocumentRows
  BY <1>4, SeenDocuments
<1>6. row \in DocumentRows
  BY <1>5 DEF Unlinked, DocumentRows, OrderStatuses, Situations
<1> HIDE DEF row
<1>7. Writable(t, f)
  BY <1>4, <1>6, DocumentWritable
<1> HIDE DEF f
<1>8. q \in RequestRows
  BY <1>2 DEF RequestRows
<1>9. /\ q.kind = request[t].kind /\ q.returns = request[t].returns
      /\ q.sale = request[t].sale /\ q.todo = request[t].todo \ {d}
  BY <1>2 DEF RequestRows
<1> HIDE DEF q
<1>10. Fits(request[t].kind, "unlink")
  BY <1>2, FitsIs
<1>11. Knows(t, "unlink", q, Over(f, draft[t])) /\ "unlink" \in OrderSteps
  BY <1>2, <1>3, <1>8, <1>9, <1>10, UndoStep
<1>12. QED
  BY <1>2, <1>7, <1>8, <1>11, OrderWritingStep

\* Lines of which one flag, or the converted quantity, is set.
LEMMA LinesWritable ==
    ASSUME OrderTyped, NEW t \in Transactions, NEW f, Functional(f), DOMAIN f \subseteq Lines,
           \A r \in DOMAIN f : Seen(t, r) # Absent,
           \A r \in DOMAIN f : \/ f[r] = [Seen(t, r) EXCEPT !.linked = FALSE]
                               \/ f[r] = [Seen(t, r) EXCEPT !.converted = 0]
    PROVE  Writable(t, f)
<1>1. ASSUME NEW r \in DOMAIN f
      PROVE  /\ f[r] \in Permitted(r) /\ f[r] # Absent
             /\ (r # Sequence /\ table[r] = Absent) => r \in Own(t)
             /\ (r \in Lines /\ table[r] # Absent) => f[r].quantity = table[r].quantity
  <2>1. PICK d \in Documents, i \in Items : r = << d, i >>
    BY NamesDiffer
  <2>2. LineSeen(t, d, i) = Seen(t, r) /\ Seen(t, r) # Absent
    BY <2>1 DEF LineSeen
  <2>3. Seen(t, r) \in LinesFor(d, i)
    <3>1. LineSeen(t, d, i) # Absent => LineSeen(t, d, i) \in LinesFor(d, i)
      BY SeenDocuments
    <3>2. QED
      BY <2>2, <3>1
  <2>4. f[r] \in LinesFor(d, i) /\ f[r].quantity = Seen(t, r).quantity
    <3> DEFINE l == Seen(t, r)
    <3>1. l \in LineRows /\ l.converted <= l.quantity /\ l.returned <= l.quantity
          /\ (d = Order => l.quantity = Quantity[i])
      BY <2>3 DEF LinesFor
    <3>2. f[r] = [l EXCEPT !.linked = FALSE] \/ f[r] = [l EXCEPT !.converted = 0]
      OBVIOUS
    <3> HIDE DEF l
    <3>3. CASE f[r] = [l EXCEPT !.linked = FALSE]
      BY <3>1, <3>3 DEF LinesFor, LineRows, l
    <3>4. CASE f[r] = [l EXCEPT !.converted = 0]
      BY <3>1, <3>4 DEF LinesFor, LineRows, l
    <3>5. QED
      BY <3>2, <3>3, <3>4
  <2>5. f[r] # Absent
    BY <2>4, RowsDiffer DEF LinesFor
  <2>6. d = Order \/ d \in Sales
    BY NamesDiffer
  <2>7. LinesFor(d, i) \subseteq Permitted(r)
    BY <2>1, <2>6, PermittedRows
  <2>8. (r # Sequence /\ table[r] = Absent) => r \in Own(t)
    <3>1. r \in DOMAIN draft[t] => ((r # Sequence /\ table[r] = Absent) => r \in Own(t))
      BY RequestOf DEF Writable
    <3>2. r \notin DOMAIN draft[t] => table[r] # Absent
      BY <2>2 DEF Seen
    <3>3. QED
      BY <3>1, <3>2
  <2>9. (r \in Lines /\ table[r] # Absent) => Seen(t, r).quantity = table[r].quantity
    BY SeenTyped
  <2>10. QED
    BY <2>4, <2>5, <2>7, <2>8, <2>9
<1>2. DOMAIN f \subseteq RowNames
  BY DEF RowNames
<1>3. QED
  BY <1>1, <1>2 DEF Writable

LEMMA UnlinkLinesTyped ==
    ASSUME OrderTyped, NEW t \in Transactions, UnlinkLines(t)
    PROVE  OrderTyped'
<1> DEFINE S == {r \in Lines : r[1] \in DOMAIN draft[t] /\ Seen(t, r) # Absent}
           f == [r \in S |-> [Seen(t, r) EXCEPT !.linked = FALSE]]
<1>1. /\ request' = [request EXCEPT ![t] = request[t]] /\ request[t] \in RequestRows
      /\ step' = [step EXCEPT ![t] = "reset"] /\ WriteRows(t, f) /\ step[t] = "unlink"
      /\ request[t].kind = "estorno"
  BY KindOfStep DEF UnlinkLines, GoTo, AtStep, OrderTyped
<1>2. DOMAIN f = S /\ S \subseteq Lines /\ \A r \in S : Seen(t, r) # Absent
  OBVIOUS
<1> HIDE DEF S
<1>3. /\ Functional(f)
      /\ \A r \in DOMAIN f : f[r] = [Seen(t, r) EXCEPT !.linked = FALSE]
  BY DEF Functional
<1> HIDE DEF f
<1>4. Writable(t, f)
  BY <1>2, <1>3, LinesWritable
<1>5. Fits(request[t].kind, "reset")
  BY <1>1, FitsIs
<1>6. Knows(t, "reset", request[t], Over(f, draft[t])) /\ "reset" \in OrderSteps
  BY <1>1, <1>5, UndoStep
<1>7. QED
  BY <1>1, <1>4, <1>6, OrderWritingStep

LEMMA ResetLinesTyped ==
    ASSUME OrderTyped, NEW t \in Transactions, ResetLines(t)
    PROVE  OrderTyped'
<1> DEFINE S == {Order} \X Items
           f == [r \in S |-> [Seen(t, r) EXCEPT !.converted = 0]]
<1>1. /\ request' = [request EXCEPT ![t] = request[t]] /\ request[t] \in RequestRows
      /\ step' = [step EXCEPT ![t] = "order"] /\ WriteRows(t, f) /\ step[t] = "reset"
      /\ request[t].kind = "estorno"
  BY KindOfStep DEF ResetLines, GoTo, AtStep, OrderTyped
<1>2. DOMAIN f = S /\ \A r \in S : \E i \in Items : r = << Order, i >>
  OBVIOUS
<1>3. \A r \in S : r \in Lines
  BY <1>2, NamesDiffer
<1>31. \A i \in Items : Seen(t, << Order, i >>) # Absent
  BY SeenDocuments, RowsDiffer DEF LinesFor, LineSeen
<1>32. \A r \in S : Seen(t, r) # Absent
  BY <1>2, <1>31
<1> HIDE DEF S
<1>4. /\ Functional(f)
      /\ \A r \in DOMAIN f : f[r] = [Seen(t, r) EXCEPT !.converted = 0]
  BY DEF Functional
<1> HIDE DEF f
<1>5. Writable(t, f)
  BY <1>2, <1>3, <1>32, <1>4, LinesWritable
<1>6. Fits(request[t].kind, "order")
  BY <1>1, FitsIs
<1>7. Knows(t, "order", request[t], Over(f, draft[t])) /\ "order" \in OrderSteps
  BY <1>1, <1>6, UndoStep
<1>8. QED
  BY <1>1, <1>5, <1>7, OrderWritingStep

-----------------------------------------------------------------------------
\* The end of a transaction.
LEMMA EndedTyped ==
    ASSUME OrderTyped, NEW t \in Transactions, Ended(t),
           TableTyped(table)',
           \A r \in Documents \cup Lines : table[r] # Absent => table'[r] # Absent,
           \A r \in Lines : table[r] # Absent => table'[r].quantity = table[r].quantity,
           \A u \in Transactions \ {t} :
               /\ \A r \in Own(u) : table[r] = Absent => table'[r] = Absent
               /\ \A r \in DOMAIN draft[u] : table'[r] = table[r],
           services' = services, returns' \subseteq ReturnRows, IsFiniteSet(returns'),
           overlapped' \in {"none", "conversions", "mixed"}
    PROVE  OrderTyped'
<1>1. /\ step' = [step EXCEPT ![t] = "done"] /\ request' = [request EXCEPT ![t] = NoRequest]
      /\ draft' = [draft EXCEPT ![t] = NoRows]
  BY DEF Ended, GoTo
<1>2. /\ step' \in [Transactions -> OrderSteps]
      /\ request' \in [Transactions -> RequestRows]
      /\ draft' = [u \in Transactions |-> draft'[u]]
      /\ step'[t] = "done" /\ request'[t] = NoRequest /\ draft'[t] = NoRows
      /\ \A u \in Transactions \ {t} :
           step'[u] = step[u] /\ request'[u] = request[u] /\ draft'[u] = draft[u]
  BY <1>1, NoRequestTyped DEF OrderTyped, OrderSteps
<1>3. ASSUME NEW u \in Transactions
      PROVE  (Writable(u, draft[u]) /\ Knows(u, step[u], request[u], draft[u]))'
  <2>1. CASE u = t
    <3>1. Functional(NoRows) /\ DOMAIN NoRows = {}
      BY DEF NoRows, Functional
    <3>2. Writable(t, draft[t])'
      BY <1>2, <3>1 DEF Writable
    <3>3. StepFits("none", "done")
      BY DEF StepFits, Conversions
    <3>4. Knows(t, step[t], request[t], draft[t])'
      BY <1>2, <3>3, NoRequestTyped, KindsDiffer, FS_EmptySet DEF Knows
    <3>5. QED
      BY <2>1, <3>2, <3>4
  <2>2. CASE u # t
    <3>1. Writable(u, draft[u]) /\ Knows(u, step[u], request[u], draft[u])
          /\ request[u] \in RequestRows
      BY RequestOf
    <3>2. step'[u] = step[u] /\ request'[u] = request[u] /\ draft'[u] = draft[u]
      BY <1>2, <2>2
    <3>9. \A r \in DOMAIN draft[u] : table'[r] = table[r]
      BY <2>2
    <3>3. Writable(u, draft[u])'
      BY <3>1, <3>2, <3>9 DEF Writable
    <3>4. (step[u] # "done" => \A r \in Own(u) : table[r] = Absent)'
      BY <2>2, <3>1, <3>2 DEF Knows
    <3>5. request[u].kind \in {"partial", "full"} => ReturnKnows(step[u], request[u])'
      <4> SUFFICES ASSUME request[u].kind \in {"partial", "full"}
                   PROVE  ReturnKnows(step[u], request[u])'
        OBVIOUS
      <4>1. ReturnKnows(step[u], request[u]) /\ request[u].item \subseteq Items
        BY <3>1 DEF Knows, RequestRows
      <4>2. \A i \in Items : << request[u].sale, i >> \in Lines
        BY <4>1, NamesDiffer DEF ReturnKnows
      <4>3. \A i \in Items : table[<< request[u].sale, i >>] # Absent =>
              /\ table'[<< request[u].sale, i >>] # Absent
              /\ table'[<< request[u].sale, i >>].quantity = table[<< request[u].sale, i >>].quantity
        BY <4>2
      <4>4. QED
        BY <3>2, <4>1, <4>3 DEF ReturnKnows
    <3>6. request[u].kind \in Conversions =>
            ConversionKnows(u, step[u], request[u], draft[u])'
      BY <3>1, <3>2 DEF Knows, ConversionKnows
    <3>10. request[u].kind \in {"patch", "partial", "full", "estorno", "cancelOs"} =>
             table'[request[u].sale] # Absent
      BY <3>1, RequestOf DEF Knows
    <3>11. (request[u].kind = "estorno" /\ step[u] = "unlink") =>
             \A d \in request[u].todo : d \in Sales /\ table'[d] # Absent
      BY <3>1, NamesDiffer DEF Knows
    <3>7. Knows(u, step[u], request[u], draft[u])'
      BY <3>1, <3>2, <3>4, <3>5, <3>6, <3>10, <3>11 DEF Knows
    <3>8. QED
      BY <3>3, <3>7
  <2>3. QED
    BY <2>1, <2>2
<1>4. \A u, v \in Transactions : u # v => DOMAIN draft'[u] \cap DOMAIN draft'[v] = {}
  <2>1. DOMAIN NoRows = {}
    BY DEF NoRows
  <2>2. QED
    BY <1>2, <2>1 DEF OrderTyped
<1>5. QED
  BY <1>2, <1>3, <1>4 DEF OrderTyped

LEMMA AbortTyped ==
    ASSUME OrderTyped, NEW t \in Transactions, Abort(t)
    PROVE  OrderTyped'
<1>1. Ended(t) /\ table' = table /\ services' = services /\ returns' = returns
      /\ overlapped' = overlapped
  BY DEF Abort
<1>2. TableTyped(table)' /\ returns' \subseteq ReturnRows /\ IsFiniteSet(returns')
      /\ overlapped' \in {"none", "conversions", "mixed"}
  BY <1>1 DEF OrderTyped, TableTyped
<1>3. /\ \A r : table[r] # Absent => table'[r] # Absent
      /\ \A r \in Lines : table[r] # Absent => table'[r].quantity = table[r].quantity
      /\ \A u \in Transactions \ {t} :
               /\ \A r \in Own(u) : table[r] = Absent => table'[r] = Absent
               /\ \A r \in DOMAIN draft[u] : table'[r] = table[r]
  BY <1>1
<1>4. QED
  BY <1>1, <1>2, <1>3, EndedTyped

\* What is committed is what the transaction saw.
LEMMA CommitFacts ==
    ASSUME OrderTyped, NEW t \in Transactions, Commit(t)
    PROVE  /\ \A r \in RowNames : table'[r] = Seen(t, r)
           /\ table' = [r \in RowNames |-> table'[r]]
           /\ returns' = returns \cup request[t].returns
           /\ services' = services /\ Ended(t) /\ step[t] = "commit"
           /\ overlapped' \in {"none", "conversions", "mixed"}
<1>1. /\ table' = Over(draft[t], table) /\ returns' = returns \cup request[t].returns
      /\ services' = services /\ Ended(t) /\ step[t] = "commit"
      /\ overlapped' \in {overlapped, "conversions", "mixed"}
  BY DEF Commit, AtStep
<1>2. table = [r \in RowNames |-> table[r]] /\ DOMAIN draft[t] \subseteq RowNames
  BY RequestOf DEF TableTyped, Writable
<1>3. DOMAIN table = RowNames
  BY <1>2
<1>4. \A r \in RowNames : table'[r] = Seen(t, r)
  BY <1>1, <1>2, <1>3 DEF Over, Seen
<1>5. table' = [r \in RowNames |-> table'[r]]
  <2>1. Functional(Over(draft[t], table))
        /\ DOMAIN Over(draft[t], table) = DOMAIN draft[t] \cup DOMAIN table
    BY OverIs
  <2>2. DOMAIN Over(draft[t], table) = RowNames
    BY <1>2, <1>3, <2>1
  <2>3. QED
    BY <1>1, <2>1, <2>2 DEF Functional
<1>6. overlapped' \in {"none", "conversions", "mixed"}
  BY <1>1 DEF OrderTyped
<1>7. QED
  BY <1>1, <1>4, <1>5, <1>6

LEMMA OwnDiffer ==
    \A t, u \in Transactions : t # u => Own(t) \cap Own(u) = {}
<1> SUFFICES ASSUME NEW t \in Transactions, NEW u \in Transactions, t # u, NEW r,
                    r \in Own(t), r \in Own(u)
             PROVE  FALSE
  OBVIOUS
<1>1. r = t \/ \E i \in Items : r = << t, i >>
  BY DEF Own
<1>2. r = u \/ \E i \in Items : r = << u, i >>
  BY DEF Own
<1>3. \A i \in Items : << t, i >> # u /\ << u, i >> # t
  BY NamesDiffer
<1>4. QED
  BY <1>1, <1>2, <1>3

LEMMA CommitTyped ==
    ASSUME OrderTyped, NEW t \in Transactions, Commit(t)
    PROVE  OrderTyped'
<1>1. TableTyped(table)'
  BY CommitFacts, SeenTyped DEF TableTyped
<1>2. \A r \in Documents \cup Lines : r \in RowNames \ {Sequence}
  BY OrderAssumption DEF RowNames
<1>3. \A r \in Documents \cup Lines : table[r] # Absent => table'[r] # Absent
  BY <1>2, CommitFacts, SeenTyped
<1>4. \A r \in Lines : table[r] # Absent => table'[r].quantity = table[r].quantity
  BY <1>2, CommitFacts, SeenTyped
<1>5. Writable(t, draft[t])
  BY RequestOf
<1>6. ASSUME NEW u \in Transactions \ {t}
      PROVE  /\ \A r \in Own(u) : table[r] = Absent => table'[r] = Absent
             /\ \A r \in DOMAIN draft[u] : table'[r] = table[r]
  <2>1. ASSUME NEW r \in Own(u), table[r] = Absent
        PROVE  table'[r] = Absent
    <3>1. r \notin Own(t)
      BY OwnDiffer
    <3>2. r \in Documents \cup Lines
      BY NamesDiffer DEF Own
    <3>3. r \notin DOMAIN draft[t]
      BY <1>2, <1>5, <2>1, <3>1, <3>2 DEF Writable
    <3>4. QED
      BY <1>2, <2>1, <3>2, <3>3, CommitFacts DEF Seen
  <2>2. ASSUME NEW r \in DOMAIN draft[u]
        PROVE  table'[r] = table[r]
    <3>1. r \in RowNames
      BY RequestOf DEF Writable
    <3>2. r \notin DOMAIN draft[t]
      BY DEF OrderTyped
    <3>3. QED
      BY <3>1, <3>2, CommitFacts DEF Seen
  <2>3. QED
    BY <2>1, <2>2
<1>7. returns' \subseteq ReturnRows /\ IsFiniteSet(returns')
  <2>1. IsFiniteSet(request[t].returns)
    BY RequestOf DEF Knows
  <2>2. IsFiniteSet(returns) /\ returns \subseteq ReturnRows
    BY DEF OrderTyped
  <2>3. IsFiniteSet(returns \cup request[t].returns)
    BY <2>1, <2>2, FS_Union
  <2>4. request[t].returns \subseteq ReturnRows /\ returns' = returns \cup request[t].returns
    BY RequestOf, CommitFacts
  <2>5. QED
    BY <2>2, <2>3, <2>4
<1>8. QED
  BY <1>1, <1>3, <1>4, <1>6, <1>7, CommitFacts, EndedTyped

-----------------------------------------------------------------------------
LEMMA OrderStepTyped ==
    ASSUME OrderTyped, OrderNext
    PROVE  OrderTyped'
<1> PICK t \in Transactions :
    \/ Open(t)
    \/ ReadToConvert(t) \/ ReadLines(t) \/ TakeNumber(t) \/ InsertDocument(t)
    \/ ConvertLine(t) \/ RereadLines(t) \/ WriteOrder(t)
    \/ ReadToPatch(t) \/ WritePatch(t)
    \/ ReadToReturn(t) \/ ReadReturnable(t) \/ ReadReturnLine(t)
    \/ NumberReturn(t) \/ InsertReturn(t) \/ WriteReturned(t)
    \/ ReadSituation(t) \/ WriteSituation(t)
    \/ ReadGeneratedLines(t) \/ ReadOrderLine(t) \/ WriteOrderLine(t)
    \/ ReadToUndo(t) \/ ReadGenerated(t) \/ UnlinkSale(t) \/ UnlinkLines(t)
    \/ ResetLines(t)
    \/ Commit(t) \/ Abort(t)
  BY DEF OrderNext
<1>1. CASE Open(t)
  BY <1>1, OpenTyped
<1>2. CASE ReadToConvert(t)
  BY <1>2, ReadToConvertTyped
<1>3. CASE ReadLines(t)
  BY <1>3, ReadLinesTyped
<1>4. CASE TakeNumber(t)
  BY <1>4, TakeNumberTyped
<1>5. CASE InsertDocument(t)
  BY <1>5, InsertDocumentTyped
<1>6. CASE ConvertLine(t)
  BY <1>6, ConvertLineTyped
<1>7. CASE RereadLines(t)
  BY <1>7, RereadLinesTyped
<1>8. CASE WriteOrder(t)
  BY <1>8, WriteOrderTyped
<1>9. CASE ReadToPatch(t)
  BY <1>9, PatchTyped
<1>10. CASE WritePatch(t)
  BY <1>10, PatchTyped
<1>11. CASE ReadToReturn(t)
  BY <1>11, ReadToReturnTyped
<1>12. CASE ReadReturnable(t)
  BY <1>12, ReadReturnableTyped
<1>13. CASE ReadReturnLine(t)
  BY <1>13, ReadReturnLineTyped
<1>14. CASE NumberReturn(t)
  BY <1>14, NumberReturnTyped
<1>15. CASE InsertReturn(t)
  BY <1>15, InsertReturnTyped
<1>16. CASE WriteReturned(t)
  BY <1>16, WriteReturnedTyped
<1>17. CASE ReadSituation(t)
  BY <1>17, ReadSituationTyped
<1>18. CASE WriteSituation(t)
  BY <1>18, WriteSituationTyped
<1>19. CASE ReadGeneratedLines(t)
  BY <1>19, ReadGeneratedLinesTyped
<1>20. CASE ReadOrderLine(t)
  BY <1>20, ReadOrderLineTyped
<1>21. CASE WriteOrderLine(t)
  BY <1>21, WriteOrderLineTyped
<1>22. CASE ReadToUndo(t)
  BY <1>22, ReadToUndoTyped
<1>23. CASE ReadGenerated(t)
  BY <1>23, ReadGeneratedTyped
<1>24. CASE UnlinkSale(t)
  BY <1>24, UnlinkSaleTyped
<1>25. CASE UnlinkLines(t)
  BY <1>25, UnlinkLinesTyped
<1>26. CASE ResetLines(t)
  BY <1>26, ResetLinesTyped
<1>27. CASE Commit(t)
  BY <1>27, CommitTyped
<1>28. CASE Abort(t)
  BY <1>28, AbortTyped
<1>29. QED
  BY <1>1, <1>2, <1>3, <1>4, <1>5, <1>6, <1>7, <1>8, <1>9, <1>10, <1>11, <1>12, <1>13, <1>14,
     <1>15, <1>16, <1>17, <1>18, <1>19, <1>20, <1>21, <1>22, <1>23, <1>24, <1>25, <1>26, <1>27, <1>28

\* The first states.  The first document is there, with the lines it has.
FirstDocument(row, start) ==
    /\ row \in DocumentRows /\ row.linked = TRUE /\ row.status = "FINALIZADA"
    /\ row.situation = "SEM_DEVOLUCAO" /\ row.type # "ORCAMENTO"
FirstLine(row, i) ==
    /\ row \in LinesFor(First, i) /\ row.quantity = FirstSold[i]
    /\ row.returned = 0 /\ row.linked = TRUE
FirstTable(T, start) ==
    /\ T = [r \in RowNames |-> T[r]]
    /\ T[Sequence] = 2 /\ T[Order] = Document(start.type, StatusOf(FirstLines), FALSE)
    /\ \A i \in Items : T[<< Order, i >>] = Line(Quantity[i], FirstSold[i], FALSE)
    /\ FirstDocument(T[First], start)
    /\ \A i \in Items : IF FirstSold[i] > 0 THEN FirstLine(T[<< First, i >>], i)
                        ELSE T[<< First, i >>] = Absent
    /\ \A d \in Sales \ {First} : T[d] = Absent
    /\ \A d \in Sales \ {First}, i \in Items : T[<< d, i >>] = Absent

LEMMA BaseIs ==
    ASSUME NEW doc, NEW lines
    PROVE  LET base == [r \in RowNames |->
                CASE r = Order -> doc
                  [] r = Sequence -> 2
                  [] r \in {Order} \X Items -> lines[r[2]]
                  [] OTHER -> Absent]
           IN  base[Order] = doc /\ base[Sequence] = 2
<1>1. Order \in RowNames /\ Order # Sequence /\ Order \notin {Order} \X Items
  BY NamesDiffer
<1>2. Sequence \in RowNames /\ Sequence \notin {Order} \X Items
  BY NamesDiffer
<1>3. QED
  BY <1>1, <1>2

LEMMA InitTable ==
    ASSUME OrderInit
    PROVE  \E start \in Starts : FirstTable(table, start)
<1> PICK start \in Starts :
        table =
        LET first == IF start.type = "ORCAMENTO" /\ start.services # {}
                     THEN OrderOf(First, "FINALIZADA", FirstSold)
                     ELSE SaleOf(First, "FINALIZADA", FirstSold)
        IN  Over(first, [r \in RowNames |->
                CASE r = Order -> Document(start.type, StatusOf(FirstLines), FALSE)
                  [] r = Sequence -> 2
                  [] r \in {Order} \X Items -> FirstLines[r[2]]
                  [] OTHER -> Absent])
  BY DEF OrderInit
<1> DEFINE first == IF start.type = "ORCAMENTO" /\ start.services # {}
                     THEN OrderOf(First, "FINALIZADA", FirstSold)
                     ELSE SaleOf(First, "FINALIZADA", FirstSold)
           base == [r \in RowNames |->
                CASE r = Order -> Document(start.type, StatusOf(FirstLines), FALSE)
                  [] r = Sequence -> 2
                  [] r \in {Order} \X Items -> FirstLines[r[2]]
                  [] OTHER -> Absent]
<1>1. table = Over(first, base)
  OBVIOUS
<1>2. GeneratedAs(first, First, "FINALIZADA", FirstSold)
  <2>1. First \in Sales /\ FirstSold \in Amounts /\ "FINALIZADA" \in OrderStatuses
    BY NamesDiffer, OrderAssumption DEF OrderStatuses
  <2>2. /\ GeneratedAs(OrderOf(First, "FINALIZADA", FirstSold), First, "FINALIZADA", FirstSold)
        /\ GeneratedAs(SaleOf(First, "FINALIZADA", FirstSold), First, "FINALIZADA", FirstSold)
    BY <2>1, GeneratedRows
  <2>3. QED
    BY <2>2
<1>3. DOMAIN base = RowNames /\ base[Sequence] = 2
      /\ base[Order] = Document(start.type, StatusOf(FirstLines), FALSE)
  <2>1. DOMAIN base = RowNames
    OBVIOUS
  <2>2. base[Order] = Document(start.type, StatusOf(FirstLines), FALSE)
    BY BaseIs
  <2>4. base[Sequence] = 2
    BY BaseIs
  <2>5. QED
    BY <2>1, <2>2, <2>4
<1>4. \A i \in Items : base[<< Order, i >>] = Line(Quantity[i], FirstSold[i], FALSE)
  BY NamesDiffer DEF FirstLines
<1>5. /\ \A d \in Documents \ {Order} : base[d] = Absent
      /\ \A d \in Documents \ {Order}, i \in Items : base[<< d, i >>] = Absent
  <2>1. \A d \in Documents \ {Order} : d # Sequence /\ d \notin {Order} \X Items /\ d \in RowNames
    BY NamesDiffer
  <2>2. \A d \in Documents \ {Order}, i \in Items :
            /\ << d, i >> # Order /\ << d, i >> # Sequence /\ << d, i >> \notin {Order} \X Items
            /\ << d, i >> \in RowNames
    BY NamesDiffer
  <2>3. QED
    BY <2>1, <2>2
<1> HIDE DEF first, base
<1>6. /\ DOMAIN table = DOMAIN first \cup RowNames
      /\ Functional(table)
      /\ \A r \in DOMAIN first : table[r] = first[r]
      /\ \A r \in RowNames \ DOMAIN first : table[r] = base[r]
  <2>1. DOMAIN base = RowNames
    BY <1>3
  <2>2. /\ DOMAIN Over(first, base) = DOMAIN first \cup DOMAIN base
        /\ Functional(Over(first, base))
        /\ \A r \in DOMAIN first : Over(first, base)[r] = first[r]
        /\ \A r \in DOMAIN base \ DOMAIN first : Over(first, base)[r] = base[r]
    BY OverIs
  <2>3. QED
    BY <1>1, <2>1, <2>2
<1>7. \A r : r \in DOMAIN first <=> r = First \/ \E i \in Items : FirstSold[i] > 0 /\ r = << First, i >>
  BY <1>2 DEF GeneratedAs
<1>8. First \in Sales /\ First \in Documents /\ First # Order /\ First \notin Transactions
  BY NamesDiffer, OrderAssumption
<1>9. DOMAIN table = RowNames
  <2>1. \A r \in DOMAIN first : r \in RowNames
    BY <1>7, <1>8, NamesDiffer
  <2>2. QED
    BY <1>6, <2>1
<1>10. table[Sequence] = 2 /\ table[Order] = Document(start.type, StatusOf(FirstLines), FALSE)
  <2>1. Sequence \notin DOMAIN first /\ Order \notin DOMAIN first
    BY <1>7, <1>8, NamesDiffer
  <2>2. QED
    BY <1>3, <1>6, <2>1, NamesDiffer
<1>11. \A i \in Items : table[<< Order, i >>] = Line(Quantity[i], FirstSold[i], FALSE)
  <2>1. \A i \in Items : << Order, i >> \notin DOMAIN first /\ << Order, i >> \in RowNames
    BY <1>7, <1>8, NamesDiffer
  <2>2. QED
    BY <1>4, <1>6, <2>1
<1>12. table[First] = first[First]
  BY <1>6, <1>7
<1>13. \A i \in Items : table[<< First, i >>] = IF FirstSold[i] > 0 THEN first[<< First, i >>]
                                                ELSE Absent
  <2> TAKE i \in Items
  <2>1. << First, i >> \in DOMAIN first <=> FirstSold[i] > 0
    BY <1>7, <1>8, NamesDiffer
  <2>2. base[<< First, i >>] = Absent /\ << First, i >> \in RowNames
    BY <1>5, <1>8, NamesDiffer
  <2>3. QED
    BY <1>6, <2>1, <2>2
<1>14. \A d \in Sales \ {First} : table[d] = Absent
  <2> TAKE d \in Sales \ {First}
  <2>1. d \notin DOMAIN first
    BY <1>7, <1>8, NamesDiffer
  <2>2. base[d] = Absent /\ d \in RowNames
    BY <1>5, NamesDiffer
  <2>3. QED
    BY <1>6, <2>1, <2>2
<1>15. \A d \in Sales \ {First}, i \in Items : table[<< d, i >>] = Absent
  <2> TAKE d \in Sales \ {First}, i \in Items
  <2>1. << d, i >> \notin DOMAIN first
    BY <1>7, <1>8, NamesDiffer
  <2>2. base[<< d, i >>] = Absent /\ << d, i >> \in RowNames
    BY <1>5, NamesDiffer
  <2>3. QED
    BY <1>6, <2>1, <2>2
<1>16. FirstDocument(first[First], start) /\ \A i \in Items : FirstSold[i] > 0 => FirstLine(first[<< First, i >>], i)
  <2>1. first[First].type # "ORCAMENTO"
    BY <1>2 DEF GeneratedAs, GeneratedTypes
  <2>2. FirstDocument(first[First], start)
    BY <1>2, <2>1 DEF GeneratedAs, FirstDocument
  <2>3. \A i \in Items : FirstSold[i] > 0 => FirstLine(first[<< First, i >>], i)
    BY <1>2 DEF GeneratedAs, FirstLine
  <2>4. QED
    BY <2>2, <2>3
<1>17. QED
  BY <1>6, <1>8, <1>9, <1>10, <1>11, <1>12, <1>13, <1>14, <1>15, <1>16 DEF FirstTable, Functional

LEMMA InitTyped ==
    ASSUME OrderInit
    PROVE  OrderTyped
<1> PICK start \in Starts : FirstTable(table, start)
  BY InitTable
<1>1. /\ services \subseteq Items /\ returns = {} /\ overlapped = "none"
      /\ step = [t \in Transactions |-> "new"] /\ request = [t \in Transactions |-> NoRequest]
      /\ draft = [t \in Transactions |-> NoRows]
  <2>1. \A s \in Starts : s.services \subseteq Items
    BY OrderAssumption
  <2>2. QED
    BY <2>1 DEF OrderInit
<1>2. TableTyped(table)
  <2>1. table[Sequence] \in Permitted(Sequence)
    BY PermittedRows DEF FirstTable
  <2>2. table[Order] \in Permitted(Order)
    <3>1. start.type \in Types /\ StatusOf(FirstLines) \in {"ABERTA", "PARCIAL", "FINALIZADA"}
      BY OrderAssumption, StatusTyped DEF Types
    <3> DEFINE x == StatusOf(FirstLines)
    <3> HIDE DEF x
    <3>2. PICK p : p \in BOOLEAN /\ p = (x = "FINALIZADA")
      OBVIOUS
    <3>3. table[Order] = [type |-> start.type, status |-> x, situation |-> "SEM_DEVOLUCAO",
                linked |-> FALSE, paid |-> p]
      BY <3>2, Zenon DEF FirstTable, Document, x
    <3>4. x \in OrderStatuses /\ "SEM_DEVOLUCAO" \in Situations
      BY <3>1 DEF x, OrderStatuses, Situations
    <3>5. table[Order] \in DocumentRows
      BY <3>1, <3>2, <3>3, <3>4 DEF DocumentRows
    <3>6. QED
      BY <3>5, PermittedRows
  <2>3. \A i \in Items : table[<< Order, i >>] \in Permitted(<< Order, i >>)
    <3> TAKE i \in Items
    <3>1. table[<< Order, i >>] = Line(Quantity[i], FirstSold[i], FALSE)
      BY DEF FirstTable
    <3>2. Quantity[i] \in Nat /\ Quantity[i] > 0 /\ FirstSold[i] \in Nat
          /\ FirstSold[i] <= Quantity[i]
      BY RowsDiffer
    <3>3. table[<< Order, i >>] \in LinesFor(Order, i)
      BY <3>1, <3>2 DEF Line, LinesFor, LineRows
    <3>4. QED
      BY <3>3, PermittedRows
  <2>4. \A d \in Sales : table[d] \in Permitted(d)
    BY PermittedRows DEF FirstTable, FirstDocument
  <2>5. \A d \in Sales, i \in Items : table[<< d, i >>] \in Permitted(<< d, i >>)
    <3> TAKE d \in Sales, i \in Items
    <3>1. CASE d = First
      BY <3>1, PermittedRows DEF FirstTable, FirstLine
    <3>2. CASE d # First
      BY <3>2, PermittedRows DEF FirstTable
    <3>3. QED
      BY <3>1, <3>2
  <2>6. \A r \in RowNames : table[r] \in Permitted(r)
    BY <2>1, <2>2, <2>3, <2>4, <2>5, NamesDiffer
  <2>7. QED
    BY <2>6 DEF TableTyped, FirstTable
<1>3. \A t \in Transactions : \A r \in Own(t) : table[r] = Absent
  <2> TAKE t \in Transactions
  <2>1. t \in Sales \ {First}
    BY NamesDiffer, OrderAssumption
  <2>2. QED
    BY <2>1, OwnIs DEF FirstTable
<1>4. ASSUME NEW t \in Transactions
      PROVE  Writable(t, draft[t]) /\ Knows(t, step[t], request[t], draft[t])
  <2>1. Functional(NoRows) /\ DOMAIN NoRows = {}
    BY DEF NoRows, Functional
  <2>2. draft[t] = NoRows /\ step[t] = "new" /\ request[t] = NoRequest
    BY <1>1
  <2>3. Writable(t, draft[t])
    BY <2>1, <2>2 DEF Writable
  <2>4. StepFits("none", "new")
    BY DEF StepFits, Conversions
  <2>5. Knows(t, step[t], request[t], draft[t])
    BY <1>3, <2>2, <2>4, NoRequestTyped, KindsDiffer, FS_EmptySet DEF Knows
  <2>6. QED
    BY <2>3, <2>5
<1>5. \A t, u \in Transactions : t # u => DOMAIN draft[t] \cap DOMAIN draft[u] = {}
  <2>1. DOMAIN NoRows = {}
    BY DEF NoRows
  <2>2. QED
    BY <1>1, <2>1
<1>6. step \in [Transactions -> OrderSteps] /\ request \in [Transactions -> RequestRows]
      /\ draft = [t \in Transactions |-> draft[t]]
  BY <1>1, NoRequestTyped DEF OrderSteps
<1>7. QED
  BY <1>1, <1>2, <1>4, <1>5, <1>6, FS_EmptySet DEF OrderTyped

LEMMA OrderTypesHold == OrderTyped => OrderTypeOK
<1> SUFFICES ASSUME OrderTyped PROVE OrderTypeOK
  OBVIOUS
<1>1. TableTyped(table) /\ services \subseteq Items /\ returns \subseteq ReturnRows
      /\ overlapped \in {"none", "conversions", "mixed"}
  BY DEF OrderTyped
<1>2. ASSUME NEW r \in RowNames
      PROVE  \/ table[r] = Absent
             \/ r \in Documents /\ table[r] \in DocumentRows
             \/ /\ r \in Lines /\ table[r] \in LineRows
                /\ table[r].converted <= table[r].quantity
                /\ table[r].returned <= table[r].quantity
             \/ r = Sequence /\ table[r] \in Nat
  <2>1. CASE r = Sequence
    BY <1>1, <2>1, TypedRows
  <2>2. CASE r \in Documents
    BY <1>1, <2>2, TypedRows
  <2>3. CASE r \in Lines
    <3>1. PICK d \in Documents, i \in Items : r = << d, i >>
      BY <2>3, NamesDiffer
    <3>2. table[r] # Absent => table[r] \in LinesFor(d, i)
      BY <1>1, <3>1, TypedRows
    <3>3. QED
      BY <2>3, <3>2 DEF LinesFor
  <2>4. QED
    BY <2>1, <2>2, <2>3, NamesDiffer
<1>3. QED
  BY <1>1, <1>2 DEF OrderTypeOK, ReturnRows

LEMMA OrderTypedAlways == OrderSpec => []OrderTyped
<1>1. OrderInit => OrderTyped
  BY InitTyped
<1>2. OrderTyped /\ [OrderNext]_orderVars => OrderTyped'
  <2>1. OrderTyped /\ OrderNext => OrderTyped'
    BY OrderStepTyped
  <2>2. ASSUME OrderTyped, UNCHANGED orderVars
        PROVE  OrderTyped'
    <3>1. /\ table' = table /\ services' = services /\ returns' = returns /\ draft' = draft
          /\ step' = step /\ request' = request /\ overlapped' = overlapped
      BY <2>2 DEF orderVars
    <3>2. TableTyped(table)'
      BY <2>2, <3>1 DEF OrderTyped, TableTyped
    <3>3. ASSUME NEW t \in Transactions
          PROVE  Writable(t, draft[t])' /\ Knows(t, step[t], request[t], draft[t])'
      <4>1. Writable(t, draft[t]) /\ Knows(t, step[t], request[t], draft[t])
        BY <2>2 DEF OrderTyped
      <4>2. Writable(t, draft[t])'
        BY <3>1, <4>1 DEF Writable
      <4>3. /\ ConversionKnows(t, step[t], request[t], draft[t])'
                 = ConversionKnows(t, step[t], request[t], draft[t])
            /\ ReturnKnows(step[t], request[t])' = ReturnKnows(step[t], request[t])
        BY <3>1 DEF ConversionKnows, ReturnKnows
      <4>4. Knows(t, step[t], request[t], draft[t])'
        BY <3>1, <4>1, <4>3 DEF Knows
      <4>5. QED
        BY <4>2, <4>4
    <3>4. QED
      BY <2>2, <3>1, <3>2, <3>3 DEF OrderTyped
  <2>3. QED
    BY <2>1, <2>2
<1>3. QED
  BY <1>1, <1>2, PTL DEF OrderSpec

\* However the requests overlap, no line of the order says that more of it was
\* converted than there is, and no line of a sale that more was returned: what
\* a request reads bounds what it writes (convertOsToSale, createReturnLine),
\* as no quantity ever changes.
THEOREM OrderTypes == OrderSpec => []OrderTypeOK
<1>1. OrderTyped => OrderTypeOK
  BY OrderTypesHold
<1>2. QED
  BY <1>1, OrderTypedAlways, PTL

-----------------------------------------------------------------------------
\* What a step of t that is not its end leaves alone, and what t then sees.
Quiet(t) ==
    /\ UNCHANGED << table, services, returns, overlapped >>
    /\ \A u \in Transactions \ {t} :
         step'[u] = step[u] /\ request'[u] = request[u] /\ draft'[u] = draft[u]

LEMMA Reads ==
    ASSUME OrderTyped, NEW t \in Transactions, Read, NEW q, NEW s,
           request' = [request EXCEPT ![t] = q], step' = [step EXCEPT ![t] = s]
    PROVE  /\ Quiet(t) /\ request'[t] = q /\ step'[t] = s /\ draft'[t] = draft[t]
           /\ \A r : Seen(t, r)' = Seen(t, r)
           /\ OrderLines(t)' = OrderLines(t)
<1>1. /\ UNCHANGED << table, services, returns, overlapped >> /\ draft' = draft
  BY DEF Read
<1>2. /\ \A u \in Transactions \ {t} : step'[u] = step[u] /\ request'[u] = request[u]
      /\ request'[t] = q /\ step'[t] = s
  BY DEF OrderTyped
<1>3. \A r : Seen(t, r)' = Seen(t, r)
  BY <1>1 DEF Seen
<1>4. OrderLines(t)' = OrderLines(t)
  BY <1>3 DEF OrderLines, LineSeen
<1>5. QED
  BY <1>1, <1>2, <1>3, <1>4 DEF Quiet

LEMMA Writes ==
    ASSUME OrderTyped, NEW t \in Transactions, NEW f, WriteRows(t, f), NEW q, NEW s,
           request' = [request EXCEPT ![t] = q], step' = [step EXCEPT ![t] = s]
    PROVE  /\ Quiet(t) /\ request'[t] = q /\ step'[t] = s
           /\ DOMAIN draft'[t] = DOMAIN f \cup DOMAIN draft[t]
           /\ \A r : Seen(t, r)' = IF r \in DOMAIN f THEN f[r] ELSE Seen(t, r)
           /\ (\A i \in Items : << Order, i >> \notin DOMAIN f) =>
                OrderLines(t)' = OrderLines(t)
<1>1. /\ UNCHANGED << table, services, returns, overlapped >>
      /\ draft' = [draft EXCEPT ![t] = Over(f, draft[t])]
  BY DEF WriteRows
<1>2. /\ \A u \in Transactions \ {t} :
           step'[u] = step[u] /\ request'[u] = request[u] /\ draft'[u] = draft[u]
      /\ request'[t] = q /\ step'[t] = s /\ draft'[t] = Over(f, draft[t])
  BY <1>1 DEF OrderTyped
<1>3. /\ DOMAIN draft'[t] = DOMAIN f \cup DOMAIN draft[t]
      /\ \A r \in DOMAIN f : draft'[t][r] = f[r]
      /\ \A r \in DOMAIN draft[t] \ DOMAIN f : draft'[t][r] = draft[t][r]
  <2> DEFINE g == Over(f, draft[t])
  <2>1. /\ DOMAIN g = DOMAIN f \cup DOMAIN draft[t]
        /\ \A r \in DOMAIN f : g[r] = f[r]
        /\ \A r \in DOMAIN draft[t] \ DOMAIN f : g[r] = draft[t][r]
    BY OverIs
  <2>2. draft'[t] = g
    BY <1>2
  <2> HIDE DEF g
  <2>3. QED
    BY <2>1, <2>2
<1>4. \A r : Seen(t, r)' = IF r \in DOMAIN f THEN f[r] ELSE Seen(t, r)
  BY <1>1, <1>3 DEF Seen
<1>5. (\A i \in Items : << Order, i >> \notin DOMAIN f) => OrderLines(t)' = OrderLines(t)
  BY <1>4 DEF OrderLines, LineSeen
<1>6. QED
  BY <1>1, <1>2, <1>3, <1>4, <1>5 DEF Quiet

LEMMA EndsQuietly ==
    ASSUME OrderTyped, NEW t \in Transactions, Ended(t)
    PROVE  /\ step'[t] = "done" /\ ~InProgress(t)'
           /\ \A u \in Transactions \ {t} :
                step'[u] = step[u] /\ request'[u] = request[u] /\ draft'[u] = draft[u]
<1>1. /\ step' = [step EXCEPT ![t] = "done"] /\ request' = [request EXCEPT ![t] = NoRequest]
      /\ draft' = [draft EXCEPT ![t] = NoRows]
  BY DEF Ended, GoTo
<1>2. QED
  BY <1>1 DEF OrderTyped, InProgress

-----------------------------------------------------------------------------
\* A transaction that commits leaves the order in the status its lines call
\* for: as long as no request overlaps that is not a conversion, what t sees
\* of the order and of its lines is what it will commit.
StatusAgrees(order, lines) ==
    order.status = "CANCELADA" \/ order.paid \/ order.status = StatusOf(lines)
BeforeOrderIsWritten ==
    {"read", "returnable", "line", "number return", "insert return", "returned",
     "situation", "reopen"}
StatusKnown(t) ==
    /\ (request[t].kind \in Conversions /\ step[t] \in {"insert", "convert", "order", "commit"})
           => Sequence \in DOMAIN draft[t]
    /\ step[t] \in {"patch", "read", "generated"} => DOMAIN draft[t] = {}
    /\ (request[t].kind \in {"partial", "full"} /\ step[t] \in BeforeOrderIsWritten)
           => DOMAIN draft[t] \cap OrderRows = {}
    /\ step[t] \in {"unlink", "reset"} => DOMAIN draft[t] \cap OrderRows = {}
    /\ request[t].kind = "patch" => request[t].status \in {"FINALIZADA", "CANCELADA"}
    /\ request[t].kind = "estorno" => request[t].status = "ABERTA"
    /\ request[t].kind = "cancelOs" => request[t].status = "CANCELADA"
    /\ step[t] = "order" =>
        request[t].status = "CANCELADA" \/ request[t].status = StatusOf(OrderLines(t))
    /\ step[t] = "commit" => StatusAgrees(Seen(t, Order), OrderLines(t))
StatusInv ==
    overlapped # "mixed" =>
        /\ StatusAgrees(table[Order], [i \in Items |-> OrderLine(i)])
        /\ \A t \in Transactions : InProgress(t) => StatusKnown(t)

LEMMA OrderRowsAre ==
    /\ Order \in OrderRows /\ Sequence \notin OrderRows
    /\ \A i \in Items : << Order, i >> \in OrderRows
    /\ \A d \in Sales : d \notin OrderRows
    /\ \A d \in Sales, i \in Items : << d, i >> \notin OrderRows
<1>1. \A r : r \in OrderRows <=> r = Order \/ \E i \in Items : r = << Order, i >>
  BY DEF OrderRows
<1>2. QED
  BY <1>1, NamesDiffer

\* As long as t wrote no row of the order, it sees those that are committed.
LEMMA OrderUntouched ==
    ASSUME NEW t \in Transactions, DOMAIN draft[t] \cap OrderRows = {}
    PROVE  Seen(t, Order) = table[Order] /\ OrderLines(t) = [i \in Items |-> OrderLine(i)]
<1>1. Seen(t, Order) = table[Order] /\ \A i \in Items : LineSeen(t, Order, i) = OrderLine(i)
  BY OrderRowsAre DEF Seen, LineSeen, OrderLine
<1>2. QED
  BY <1>1 DEF OrderLines

LEMMA StatusQuiet ==
    ASSUME StatusInv, overlapped # "mixed", NEW t \in Transactions, Quiet(t), StatusKnown(t)'
    PROVE  StatusInv'
<1>1. ASSUME NEW u \in Transactions, InProgress(u)'
      PROVE  StatusKnown(u)'
  <2>1. CASE u # t
    <3>1. step'[u] = step[u] /\ request'[u] = request[u] /\ draft'[u] = draft[u]
          /\ table' = table
      BY <2>1 DEF Quiet
    <3>2. StatusKnown(u)
      BY <1>1, <3>1 DEF StatusInv, InProgress
    <3>3. \A r : Seen(u, r)' = Seen(u, r)
      BY <3>1 DEF Seen
    <3>4. OrderLines(u)' = OrderLines(u)
      BY <3>3 DEF OrderLines, LineSeen
    <3>5. QED
      BY <3>1, <3>2, <3>3, <3>4 DEF StatusKnown
  <2>2. QED
    BY <2>1
<1>2. table' = table /\ overlapped' = overlapped
  BY DEF Quiet
<1>3. StatusAgrees(table[Order], [i \in Items |-> OrderLine(i)])'
  BY <1>2 DEF StatusInv, OrderLine
<1>4. QED
  BY <1>1, <1>3 DEF StatusInv

\* Every step but a commit.
LEMMA StatusAt ==
    ASSUME OrderTyped, StatusInv, overlapped # "mixed", NEW t \in Transactions
    PROVE  /\ InProgress(t) => StatusKnown(t)
           /\ StatusAgrees(table[Order], [i \in Items |-> OrderLine(i)])
BY DEF StatusInv

\* What t reads, and how it then stands.
LEMMA StatusReads ==
    ASSUME OrderTyped, StatusInv, overlapped # "mixed", NEW t \in Transactions, Read,
           NEW q, NEW s, InProgress(t),
           request' = [request EXCEPT ![t] = q], step' = [step EXCEPT ![t] = s],
           q.kind = request[t].kind,
           q.kind \in {"patch", "estorno", "cancelOs"} => q.status = request[t].status,
           (q.kind \in Conversions /\ s \in {"insert", "convert", "order", "commit"}) =>
                step[t] \in {"insert", "convert", "order"},
           s \in {"patch", "read", "generated"} => step[t] \in {"patch", "read", "generated"},
           (q.kind \in {"partial", "full"} /\ s \in BeforeOrderIsWritten) =>
                step[t] \in BeforeOrderIsWritten,
           s = "unlink" => step[t] = "generated",
           s = "order" => q.status = "CANCELADA" \/ q.status = StatusOf(OrderLines(t)),
           s # "reset",
           s = "commit" => q.kind \in {"partial", "full"} /\ step[t] \in BeforeOrderIsWritten
    PROVE  StatusInv'
<1>1. /\ Quiet(t) /\ request'[t] = q /\ step'[t] = s /\ draft'[t] = draft[t]
      /\ (\A r : Seen(t, r)' = Seen(t, r)) /\ OrderLines(t)' = OrderLines(t)
  BY Reads
<1>2. StatusKnown(t)
  BY DEF StatusInv
<1>3. s = "commit" => StatusAgrees(Seen(t, Order), OrderLines(t))
  BY <1>2, OrderUntouched DEF StatusKnown, StatusInv
<1>4. StatusKnown(t)'
  BY <1>1, <1>2, <1>3 DEF StatusKnown
<1>5. QED
  BY <1>1, <1>4, StatusQuiet

\* What t writes that is no row of the order, and how it then stands.
LEMMA StatusWritesElsewhere ==
    ASSUME OrderTyped, StatusInv, overlapped # "mixed", NEW t \in Transactions,
           NEW f, WriteRows(t, f), DOMAIN f \cap OrderRows = {},
           NEW q, NEW s, InProgress(t),
           request' = [request EXCEPT ![t] = q], step' = [step EXCEPT ![t] = s],
           q.kind = request[t].kind, q.status = request[t].status,
           (q.kind \in Conversions /\ s \in {"insert", "convert"}) =>
                step[t] \in {"insert", "convert"} \/ Sequence \in DOMAIN f,
           s = "convert" => q.kind \in Conversions,
           s \notin {"patch", "read", "generated", "order"},
           (q.kind \in {"partial", "full"} /\ s \in BeforeOrderIsWritten) =>
                step[t] \in BeforeOrderIsWritten,
           s \in {"unlink", "reset"} => step[t] = "unlink",
           s = "commit" => q.kind \notin Conversions /\ DOMAIN draft[t] \cap OrderRows = {}
    PROVE  StatusInv'
<1>1. /\ Quiet(t) /\ request'[t] = q /\ step'[t] = s
      /\ DOMAIN draft'[t] = DOMAIN f \cup DOMAIN draft[t]
      /\ \A r : Seen(t, r)' = IF r \in DOMAIN f THEN f[r] ELSE Seen(t, r)
  BY Writes
<1>2. Order \notin DOMAIN f /\ \A i \in Items : << Order, i >> \notin DOMAIN f
  BY OrderRowsAre
<1>3. Seen(t, Order)' = Seen(t, Order) /\ OrderLines(t)' = OrderLines(t)
  BY <1>1, <1>2 DEF OrderLines, LineSeen
<1>4. StatusKnown(t)
  BY DEF StatusInv
<1>5. s = "commit" => StatusAgrees(Seen(t, Order), OrderLines(t))
  BY OrderUntouched DEF StatusInv
<1>6. StatusKnown(t)'
  BY <1>1, <1>3, <1>4, <1>5 DEF StatusKnown
<1>7. QED
  BY <1>1, <1>6, StatusQuiet

LEMMA StatusReadingSteps ==
    ASSUME OrderTyped, StatusInv, overlapped # "mixed", NEW t \in Transactions,
           \/ ReadToConvert(t) \/ ReadLines(t) \/ RereadLines(t) \/ ReadToPatch(t)
           \/ ReadToReturn(t) \/ ReadReturnable(t) \/ ReadReturnLine(t)
           \/ NumberReturn(t) \/ InsertReturn(t)
    PROVE  StatusInv'
<1> DEFINE k == request[t].kind
<1>1. /\ request[t] \in RequestRows /\ request = [request EXCEPT ![t] = request[t]]
  BY DEF OrderTyped
<1>2. CASE ReadToConvert(t)
  <2>1. /\ step[t] = "read" /\ step' = [step EXCEPT ![t] = "lines"] /\ Read
        /\ request' = [request EXCEPT ![t] = request[t]] /\ k \in Conversions
    BY <1>1, <1>2 DEF ReadToConvert, AtStep, GoTo, Conversions
  <2>2. QED
    BY <2>1, StatusReads, KindsDiffer DEF InProgress, BeforeOrderIsWritten
<1>3. CASE ReadLines(t)
  <2> DEFINE q == [request[t] EXCEPT !.seen = [i \in Items |-> table[<< Order, i >>].converted]]
  <2>1. /\ step[t] = "lines" /\ step' = [step EXCEPT ![t] = "number"] /\ Read
        /\ request' = [request EXCEPT ![t] = q]
    BY <1>3 DEF ReadLines, AtStep, GoTo
  <2>2. q.kind = k /\ q.status = request[t].status
    BY <1>1 DEF RequestRows
  <2> HIDE DEF q
  <2>3. QED
    BY <2>1, <2>2, StatusReads DEF InProgress, BeforeOrderIsWritten
<1>4. CASE RereadLines(t)
  <2> DEFINE q == [request[t] EXCEPT !.status = StatusOf(OrderLines(t))]
  <2>1. /\ step[t] \in {"convert", "give back"} /\ step' = [step EXCEPT ![t] = "order"] /\ Read
        /\ request' = [request EXCEPT ![t] = q]
    BY <1>4 DEF RereadLines, AtStep, GoTo
  <2>2. q.kind = k /\ q.status = StatusOf(OrderLines(t))
    BY <1>1 DEF RequestRows
  <2> HIDE DEF q
  <2>3. k \notin {"patch", "estorno", "cancelOs"}
        /\ (k \in Conversions => step[t] = "convert")
    BY <2>1, KindOfStep, KindsDiffer
  <2>4. QED
    BY <2>1, <2>2, <2>3, StatusReads DEF InProgress, BeforeOrderIsWritten
<1>5. CASE ReadToPatch(t)
  <2>1. /\ step[t] = "read" /\ step' = [step EXCEPT ![t] = "patch"] /\ Read
        /\ request' = [request EXCEPT ![t] = request[t]] /\ k = "patch"
    BY <1>1, <1>5 DEF ReadToPatch, AtStep, GoTo
  <2>2. QED
    BY <2>1, StatusReads DEF InProgress, BeforeOrderIsWritten
<1>6. CASE ReadToReturn(t)
  <2> DEFINE q == [request[t] EXCEPT !.linked = SaleSeen(t).linked /\ FromWorkOrder,
                                     !.todo = {i \in Items : request[t].asked[i] > 0}]
             s == IF request[t].kind = "full" THEN "returnable" ELSE "line"
  <2>1. /\ step[t] = "read" /\ step' = [step EXCEPT ![t] = s] /\ Read
        /\ request' = [request EXCEPT ![t] = q] /\ s \in {"returnable", "line"}
        /\ k \in {"partial", "full"}
    BY <1>6 DEF ReadToReturn, AtStep, GoTo
  <2>2. q.kind = k /\ q.status = request[t].status
    BY <1>1 DEF RequestRows
  <2> HIDE DEF q, s
  <2>3. QED
    BY <2>1, <2>2, StatusReads, KindsDiffer DEF InProgress, BeforeOrderIsWritten
<1>7. CASE ReadReturnable(t)
  <2> DEFINE left == [i \in Items |-> IF i \in ItemsOf(t, request[t].sale)
                                THEN Returnable(LineSeen(t, request[t].sale, i)) ELSE 0]
             q == [request[t] EXCEPT !.asked = left, !.todo = {i \in Items : left[i] > 0}]
  <2>1. /\ step[t] = "returnable" /\ step' = [step EXCEPT ![t] = "line"] /\ Read
        /\ request' = [request EXCEPT ![t] = q]
    BY <1>7 DEF ReadReturnable, AtStep, GoTo
  <2>2. q.kind = k /\ q.status = request[t].status
    BY <1>1 DEF RequestRows
  <2> HIDE DEF q
  <2>3. QED
    BY <2>1, <2>2, StatusReads DEF InProgress, BeforeOrderIsWritten
<1>8. CASE ReadReturnLine(t)
  <2>1. PICK i \in request[t].todo \cap ItemsOf(t, request[t].sale) :
            request' = [request EXCEPT ![t].item = {i},
                                       ![t].seen[i] = LineSeen(t, request[t].sale, i).returned,
                                       ![t].todo = @ \ {i}]
    BY <1>8 DEF ReadReturnLine
  <2> DEFINE q == [request[t] EXCEPT !.item = {i},
                                     !.seen[i] = LineSeen(t, request[t].sale, i).returned,
                                     !.todo = @ \ {i}]
  <2>2. request' = [request EXCEPT ![t] = q]
    BY <2>1
  <2>3. /\ step[t] = "line" /\ step' = [step EXCEPT ![t] = "number return"] /\ Read
    BY <1>8 DEF ReadReturnLine, AtStep, GoTo
  <2>4. q.kind = k /\ q.status = request[t].status
    BY <1>1 DEF RequestRows
  <2> HIDE DEF q
  <2>5. QED
    BY <2>2, <2>3, <2>4, StatusReads DEF InProgress, BeforeOrderIsWritten
<1>9. CASE NumberReturn(t)
  <2> DEFINE n == 1 + Max({0} \cup {r.order : r \in {s \in ReturnsSeen(t) :
                                                  s.sale = request[t].sale}})
             q == [request[t] EXCEPT !.number = n]
  <2>1. /\ step[t] = "number return" /\ step' = [step EXCEPT ![t] = "insert return"] /\ Read
        /\ request' = [request EXCEPT ![t] = q]
    BY <1>9 DEF NumberReturn, AtStep, GoTo
  <2> HIDE DEF n
  <2>2. q.kind = k /\ q.status = request[t].status
    BY <1>1 DEF RequestRows
  <2> HIDE DEF q
  <2>3. QED
    BY <2>1, <2>2, StatusReads DEF InProgress, BeforeOrderIsWritten
<1>10. CASE InsertReturn(t)
  <2>1. PICK i \in request[t].item :
            request' = [request EXCEPT ![t].returns = @ \cup
                {[sale |-> request[t].sale, item |-> i, order |-> request[t].number,
                  quantity |-> request[t].asked[i]]}]
    BY <1>10 DEF InsertReturn
  <2> DEFINE row == [sale |-> request[t].sale, item |-> i, order |-> request[t].number,
                     quantity |-> request[t].asked[i]]
             q == [request[t] EXCEPT !.returns = @ \cup {row}]
  <2>2. /\ step[t] = "insert return" /\ step' = [step EXCEPT ![t] = "returned"] /\ Read
        /\ request' = [request EXCEPT ![t] = q]
    BY <1>10, <2>1 DEF InsertReturn, AtStep, GoTo
  <2>3. q.kind = k /\ q.status = request[t].status
    BY <1>1 DEF RequestRows
  <2> HIDE DEF q
  <2>4. QED
    BY <2>2, <2>3, StatusReads DEF InProgress, BeforeOrderIsWritten
<1>11. QED
  BY <1>2, <1>3, <1>4, <1>5, <1>6, <1>7, <1>8, <1>9, <1>10

LEMMA StatusGeneratedRows ==
    ASSUME NEW t \in Transactions, NEW status \in OrderStatuses, NEW a \in Amounts
    PROVE  /\ DOMAIN SaleOf(t, status, a) \cap OrderRows = {}
           /\ DOMAIN OrderOf(t, status, a) \cap OrderRows = {}
<1>1. t \in Sales
  BY NamesDiffer
<1>2. ASSUME NEW f, GeneratedAs(f, t, status, a)
      PROVE  DOMAIN f \cap OrderRows = {}
  <2>1. \A r \in DOMAIN f : r = t \/ \E i \in Items : r = << t, i >>
    BY <1>2 DEF GeneratedAs
  <2>2. QED
    BY <1>1, <2>1, OrderRowsAre
<1>3. QED
  BY <1>1, <1>2, GeneratedRows

LEMMA StatusWritingSteps ==
    ASSUME OrderTyped, StatusInv, overlapped # "mixed", NEW t \in Transactions,
           \/ TakeNumber(t) \/ InsertDocument(t) \/ WriteReturned(t) \/ WriteSituation(t)
           \/ UnlinkSale(t) \/ UnlinkLines(t)
    PROVE  StatusInv'
<1> DEFINE k == request[t].kind
<1>1. /\ request[t] \in RequestRows /\ request = [request EXCEPT ![t] = request[t]]
      /\ step = [step EXCEPT ![t] = step[t]]
  BY DEF OrderTyped
<1>2. CASE TakeNumber(t)
  <2> DEFINE f == One(Sequence, table[Sequence] + 1)
  <2>1. /\ step[t] = "number" /\ step' = [step EXCEPT ![t] = "insert"] /\ WriteRows(t, f)
        /\ request' = [request EXCEPT ![t] = request[t]]
    BY <1>1, <1>2 DEF TakeNumber, NextOrderNumber, AtStep, GoTo
  <2>21. DOMAIN f = {Sequence}
    BY OneIs
  <2>2. DOMAIN f = {Sequence} /\ DOMAIN f \cap OrderRows = {}
    BY <2>21, OrderRowsAre
  <2> HIDE DEF f
  <2>3. k \in Conversions
    BY <2>1, KindOfStep
  <2>4. QED
    BY <2>1, <2>2, <2>3, StatusWritesElsewhere, KindsDiffer DEF InProgress
<1>3. CASE InsertDocument(t)
  <2> DEFINE f == IF request[t].kind = "budgetToOs"
                  THEN OrderOf(t, request[t].status, request[t].asked)
                  ELSE SaleOf(t, request[t].status, request[t].asked)
             q == [request[t] EXCEPT !.todo = {i \in Items : request[t].asked[i] > 0}]
  <2>1. /\ step[t] = "insert" /\ step' = [step EXCEPT ![t] = "convert"] /\ WriteRows(t, f)
        /\ request' = [request EXCEPT ![t] = q]
    BY <1>3 DEF InsertDocument, AtStep, GoTo
  <2>2. DOMAIN f \cap OrderRows = {}
    BY RequestOf, StatusGeneratedRows
  <2>3. q.kind = k /\ q.status = request[t].status
    BY <1>1 DEF RequestRows
  <2> HIDE DEF f, q
  <2>4. k \in Conversions
    BY <2>1, KindOfStep
  <2>5. QED
    BY <2>1, <2>2, <2>3, <2>4, StatusWritesElsewhere, KindsDiffer DEF InProgress
<1>4. CASE WriteReturned(t)
  <2>1. PICK i \in request[t].item :
        WriteRows(t, One(<< request[t].sale, i >>, [LineSeen(t, request[t].sale, i) EXCEPT
                    !.returned = ReturnedAfter(request[t].seen[i], request[t].asked[i])]))
    BY <1>4 DEF WriteReturned
  <2> DEFINE f == One(<< request[t].sale, i >>, [LineSeen(t, request[t].sale, i) EXCEPT
                    !.returned = ReturnedAfter(request[t].seen[i], request[t].asked[i])])
  <2>2. /\ step[t] = "returned" /\ step' = [step EXCEPT ![t] = "line"] /\ WriteRows(t, f)
        /\ request' = [request EXCEPT ![t] = request[t]]
    BY <1>1, <1>4, <2>1 DEF WriteReturned, AtStep, GoTo
  <2>3. k \in {"partial", "full"} /\ request[t].sale \in Sales /\ i \in Items
    BY <2>2, KindOfStep, OtherAt, RequestOf DEF ReturnKnows
  <2>4. DOMAIN f = {<< request[t].sale, i >>}
    BY OneIs
  <2> HIDE DEF f
  <2>5. DOMAIN f \cap OrderRows = {}
    BY <2>3, <2>4, OrderRowsAre
  <2>6. QED
    BY <2>2, <2>3, <2>5, StatusWritesElsewhere, KindsDiffer DEF InProgress, BeforeOrderIsWritten
<1>5. CASE WriteSituation(t)
  <2> DEFINE d == request[t].sale
             status == IF NothingLeft(t) THEN "CANCELADA"
                       ELSE StatusOfSituation(request[t].situation)
             row == [SaleSeen(t) EXCEPT !.situation = request[t].situation, !.status = status]
             f == One(d, row)
             s == IF Reopens(t, status) THEN "reopen" ELSE "commit"
  <2>1. /\ step[t] = "situation" /\ step' = [step EXCEPT ![t] = s] /\ WriteRows(t, f)
        /\ request' = [request EXCEPT ![t] = request[t]] /\ s \in {"reopen", "commit"}
    BY <1>1, <1>5 DEF WriteSituation, AtStep, GoTo
  <2> HIDE DEF s, row
  <2>2. k \in {"partial", "full"} /\ d \in Sales
    BY <2>1, KindOfStep, OtherAt DEF ReturnKnows
  <2>31. DOMAIN f = {d}
    BY OneIs
  <2>3. DOMAIN f \cap OrderRows = {}
    BY <2>2, <2>31, OrderRowsAre
  <2>4. DOMAIN draft[t] \cap OrderRows = {}
    BY <2>1, <2>2, StatusAt DEF StatusKnown, InProgress, BeforeOrderIsWritten
  <2> HIDE DEF f
  <2>5. QED
    BY <2>1, <2>2, <2>3, <2>4, StatusWritesElsewhere, KindsDiffer
       DEF InProgress, BeforeOrderIsWritten
<1>6. CASE UnlinkSale(t)
  <2>1. PICK d \in request[t].todo :
          /\ WriteRows(t, One(d, Unlinked(Seen(t, d), d \in request[t].live)))
          /\ request' = [request EXCEPT ![t].todo = @ \ {d}]
    BY <1>6 DEF UnlinkSale
  <2> DEFINE f == One(d, Unlinked(Seen(t, d), d \in request[t].live))
             q == [request[t] EXCEPT !.todo = @ \ {d}]
  <2>2. /\ step[t] = "unlink" /\ step' = [step EXCEPT ![t] = "unlink"] /\ WriteRows(t, f)
        /\ request' = [request EXCEPT ![t] = q]
    BY <1>1, <1>6, <2>1 DEF UnlinkSale, AtStep
  <2>3. k = "estorno"
    BY <2>2, KindOfStep
  <2>4. d \in Sales
    BY <2>1, <2>2, <2>3, OtherAt
  <2>51. DOMAIN f = {d}
    BY OneIs
  <2>5. DOMAIN f \cap OrderRows = {}
    BY <2>4, <2>51, OrderRowsAre
  <2>6. q.kind = k /\ q.status = request[t].status
    BY <1>1 DEF RequestRows
  <2> HIDE DEF f, q
  <2>7. QED
    BY <2>2, <2>3, <2>5, <2>6, StatusWritesElsewhere, KindsDiffer DEF InProgress
<1>7. CASE UnlinkLines(t)
  <2> DEFINE S == {r \in Lines : r[1] \in DOMAIN draft[t] /\ Seen(t, r) # Absent}
             f == [r \in S |-> [Seen(t, r) EXCEPT !.linked = FALSE]]
  <2>1. /\ step[t] = "unlink" /\ step' = [step EXCEPT ![t] = "reset"] /\ WriteRows(t, f)
        /\ request' = [request EXCEPT ![t] = request[t]]
    BY <1>1, <1>7 DEF UnlinkLines, AtStep, GoTo
  <2>2. k = "estorno"
    BY <2>1, KindOfStep
  <2>3. Order \notin DOMAIN draft[t]
    BY <2>1, StatusAt, OrderRowsAre DEF StatusKnown, InProgress
  <2>4. DOMAIN f = S
    OBVIOUS
  <2>5. S \cap OrderRows = {}
    <3>1. \A r \in OrderRows : r = Order \/ r[1] = Order
      BY DEF OrderRows
    <3>2. Order \notin Lines
      BY NamesDiffer
    <3>3. QED
      BY <2>3, <3>1, <3>2
  <2> HIDE DEF f, S
  <2>6. QED
    BY <2>1, <2>2, <2>4, <2>5, StatusWritesElsewhere, KindsDiffer DEF InProgress
<1>8. QED
  BY <1>2, <1>3, <1>4, <1>5, <1>6, <1>7

\* The steps that write the order or its lines, and those that follow.
LEMMA StatusOrderSteps ==
    ASSUME OrderTyped, StatusInv, overlapped # "mixed", NEW t \in Transactions,
           \/ ConvertLine(t) \/ WriteOrder(t) \/ WritePatch(t)
           \/ WriteOrderLine(t) \/ ResetLines(t)
    PROVE  StatusInv'
<1> DEFINE k == request[t].kind
<1>1. /\ request[t] \in RequestRows /\ request = [request EXCEPT ![t] = request[t]]
      /\ step = [step EXCEPT ![t] = step[t]]
  BY DEF OrderTyped
<1>2. CASE ConvertLine(t)
  <2>1. PICK i \in request[t].todo :
        /\ WriteRows(t, One(<< Order, i >>, [LineSeen(t, Order, i) EXCEPT
                        !.converted = request[t].seen[i] + request[t].asked[i]]))
        /\ request' = [request EXCEPT ![t].todo = @ \ {i}]
    BY <1>2 DEF ConvertLine
  <2> DEFINE f == One(<< Order, i >>, [LineSeen(t, Order, i) EXCEPT
                        !.converted = request[t].seen[i] + request[t].asked[i]])
             q == [request[t] EXCEPT !.todo = @ \ {i}]
  <2>2. /\ step[t] = "convert" /\ step' = [step EXCEPT ![t] = "convert"] /\ WriteRows(t, f)
        /\ request' = [request EXCEPT ![t] = q]
    BY <1>1, <1>2, <2>1 DEF ConvertLine, AtStep
  <2>3. k \in Conversions /\ q.kind = k
    BY <1>1, <2>2, KindOfStep DEF RequestRows
  <2> HIDE DEF f, q
  <2>4. /\ Quiet(t) /\ request'[t] = q /\ step'[t] = "convert"
        /\ DOMAIN draft'[t] = DOMAIN f \cup DOMAIN draft[t]
    BY <2>2, Writes
  <2>5. StatusKnown(t)
    BY <2>2 DEF StatusInv, InProgress
  <2>6. StatusKnown(t)'
    BY <2>2, <2>3, <2>4, <2>5, KindsDiffer DEF StatusKnown
  <2>7. QED
    BY <2>4, <2>6, StatusQuiet
<1>3. CASE WriteOrder(t)
  <2> DEFINE row == [Seen(t, Order) EXCEPT !.status = request[t].status]
             f == One(Order, row)
  <2>1. /\ step[t] = "order" /\ step' = [step EXCEPT ![t] = "commit"] /\ WriteRows(t, f)
        /\ request' = [request EXCEPT ![t] = request[t]]
    BY <1>1, <1>3 DEF WriteOrder, AtStep, GoTo
  <2>2. row.status = request[t].status
    BY SeenDocuments DEF DocumentRows
  <2>3. DOMAIN f = {Order} /\ f[Order] = row
    BY OneIs
  <2>4. \A i \in Items : << Order, i >> \notin DOMAIN f
    BY <2>3, NamesDiffer
  <2> HIDE DEF f, row
  <2>5. /\ Quiet(t) /\ request'[t] = request[t] /\ step'[t] = "commit"
        /\ DOMAIN draft'[t] = DOMAIN f \cup DOMAIN draft[t]
        /\ \A r : Seen(t, r)' = IF r \in DOMAIN f THEN f[r] ELSE Seen(t, r)
        /\ OrderLines(t)' = OrderLines(t)
    BY <2>1, <2>4, Writes
  <2>6. StatusKnown(t)
    BY <2>1 DEF StatusInv, InProgress
  <2>7. Seen(t, Order)' = row
    BY <2>3, <2>5
  <2>8. StatusAgrees(Seen(t, Order), OrderLines(t))'
    BY <2>1, <2>2, <2>5, <2>6, <2>7 DEF StatusAgrees, StatusKnown
  <2>9. StatusKnown(t)'
    BY <2>1, <2>5, <2>6, <2>8 DEF StatusKnown, BeforeOrderIsWritten
  <2>10. QED
    BY <2>5, <2>9, StatusQuiet
<1>4. CASE WritePatch(t)
  <2> DEFINE d == request[t].sale
             finalize == request[t].status = "FINALIZADA"
             row == [SaleSeen(t) EXCEPT !.status = request[t].status, !.paid = @ \/ finalize]
             f == One(d, row)
  <2>1. /\ step[t] = "patch" /\ step' = [step EXCEPT ![t] = "commit"] /\ WriteRows(t, f)
        /\ request' = [request EXCEPT ![t] = request[t]]
    BY <1>1, <1>4 DEF WritePatch, AtStep, GoTo
  <2>2. k = "patch" /\ d \in Documents
    BY <2>1, KindOfStep, RequestOf
  <2>3. SaleSeen(t) \in DocumentRows
    BY <2>2, OtherAt, SeenDocuments DEF SaleSeen
  <2>4. row.status = request[t].status /\ (finalize => row.paid)
    BY <2>3 DEF DocumentRows
  <2> HIDE DEF row
  <2>5. DOMAIN f = {d} /\ f[d] = row
    BY OneIs
  <2> HIDE DEF f
  <2>6. \A i \in Items : << Order, i >> \notin DOMAIN f
    BY <2>2, <2>5, LinesApart
  <2>7. /\ Quiet(t) /\ request'[t] = request[t] /\ step'[t] = "commit"
        /\ \A r : Seen(t, r)' = IF r \in DOMAIN f THEN f[r] ELSE Seen(t, r)
        /\ OrderLines(t)' = OrderLines(t)
    BY <2>1, <2>6, Writes
  <2>8. StatusKnown(t) /\ DOMAIN draft[t] = {}
    BY <2>1 DEF StatusInv, InProgress, StatusKnown
  <2>9. request[t].status \in {"FINALIZADA", "CANCELADA"}
    BY <2>1, <2>2 DEF StatusInv, InProgress, StatusKnown
  <2>10. StatusAgrees(Seen(t, Order), OrderLines(t))'
    <3>1. CASE d = Order
      <4>1. Seen(t, Order)' = row
        BY <2>5, <2>7, <3>1
      <4>2. QED
        BY <2>4, <2>9, <4>1 DEF StatusAgrees
    <3>2. CASE d # Order
      <4>1. Seen(t, Order)' = Seen(t, Order)
        BY <2>5, <2>7, <3>2
      <4>2. StatusAgrees(Seen(t, Order), OrderLines(t))
        BY <2>8, OrderUntouched DEF StatusInv
      <4>3. QED
        BY <2>7, <4>1, <4>2
    <3>3. QED
      BY <3>1, <3>2
  <2>11. StatusKnown(t)'
    BY <2>2, <2>7, <2>9, <2>10, KindsDiffer DEF StatusKnown, BeforeOrderIsWritten
  <2>12. QED
    BY <2>7, <2>11, StatusQuiet
<1>5. CASE WriteOrderLine(t)
  <2>1. PICK i \in request[t].item :
        WriteRows(t, One(<< Order, i >>, [LineSeen(t, Order, i) EXCEPT !.converted =
            GivenBack(request[t].seen[i], LineSeen(t, request[t].sale, i).quantity)]))
    BY <1>5 DEF WriteOrderLine
  <2> DEFINE f == One(<< Order, i >>, [LineSeen(t, Order, i) EXCEPT !.converted =
            GivenBack(request[t].seen[i], LineSeen(t, request[t].sale, i).quantity)])
  <2>2. /\ step[t] = "given back" /\ step' = [step EXCEPT ![t] = "give back"] /\ WriteRows(t, f)
        /\ request' = [request EXCEPT ![t] = request[t]]
    BY <1>1, <1>5, <2>1 DEF WriteOrderLine, AtStep, GoTo
  <2> HIDE DEF f
  <2>3. k \in {"partial", "full"}
    BY <2>2, KindOfStep
  <2>4. Quiet(t) /\ request'[t] = request[t] /\ step'[t] = "give back"
    BY <2>2, Writes
  <2>5. StatusKnown(t)'
    BY <2>3, <2>4, KindsDiffer DEF StatusKnown, BeforeOrderIsWritten
  <2>6. QED
    BY <2>4, <2>5, StatusQuiet
<1>6. CASE ResetLines(t)
  <2> DEFINE S == {Order} \X Items
             f == [r \in S |-> [Seen(t, r) EXCEPT !.converted = 0]]
  <2>1. /\ step[t] = "reset" /\ step' = [step EXCEPT ![t] = "order"] /\ WriteRows(t, f)
        /\ request' = [request EXCEPT ![t] = request[t]]
    BY <1>1, <1>6 DEF ResetLines, AtStep, GoTo
  <2>2. k = "estorno"
    BY <2>1, KindOfStep
  <2>3. \A i \in Items : << Order, i >> \in DOMAIN f
                         /\ f[<< Order, i >>] = [LineSeen(t, Order, i) EXCEPT !.converted = 0]
    BY DEF LineSeen
  <2>4. \A i \in Items : /\ LineSeen(t, Order, i) \in LineRows
                         /\ LineSeen(t, Order, i).quantity = Quantity[i]
    BY SeenDocuments DEF LinesFor
  <2>5. \A i \in Items : f[<< Order, i >>].converted = 0 /\ f[<< Order, i >>].quantity = Quantity[i]
    BY <2>3, <2>4 DEF LineRows
  <2> HIDE DEF f
  <2>6. /\ Quiet(t) /\ request'[t] = request[t] /\ step'[t] = "order"
        /\ \A r : Seen(t, r)' = IF r \in DOMAIN f THEN f[r] ELSE Seen(t, r)
    BY <2>1, Writes
  <2>7. \A i \in Items : LineSeen(t, Order, i)' = f[<< Order, i >>]
    BY <2>3, <2>6 DEF LineSeen
  <2> DEFINE lines == OrderLines(t)'
  <2>8. \A i \in Items : lines[i].converted = 0 /\ lines[i].quantity = Quantity[i]
    BY <2>5, <2>7 DEF OrderLines
  <2> HIDE DEF lines
  <2>9. StatusOf(lines) = "ABERTA"
    <3>1. PICK i \in Items : TRUE
      BY OrderAssumption
    <3>2. ~(lines[i].converted >= lines[i].quantity)
      BY <2>8, RowsDiffer
    <3>3. ~\E j \in Items : lines[j].converted > 0
      BY <2>8
    <3>4. QED
      BY <3>2, <3>3 DEF StatusOf
  <2>10. StatusOf(OrderLines(t))' = "ABERTA"
    BY <2>9 DEF lines, StatusOf
  <2>11. request[t].status = "ABERTA"
    BY <2>1, <2>2 DEF StatusInv, InProgress, StatusKnown
  <2>12. StatusKnown(t)'
    BY <2>2, <2>6, <2>10, <2>11, KindsDiffer DEF StatusKnown, BeforeOrderIsWritten
  <2>13. QED
    BY <2>6, <2>12, StatusQuiet
<1>7. QED
  BY <1>2, <1>3, <1>4, <1>5, <1>6

\* The other steps: a request arrives, reads what it undoes, or ends.
LEMMA StatusOpens ==
    ASSUME OrderTyped, StatusInv, overlapped # "mixed", NEW t \in Transactions, Open(t)
    PROVE  StatusInv'
<1>1. /\ step[t] = "new" /\ Read
  BY DEF Open, AtStep
<1>2. draft[t] = NoRows /\ DOMAIN NoRows = {}
  BY <1>1, RequestOf DEF Knows, NoRows
<1>3. PICK kind, d, a, s :
        /\ kind \in Conversions \cup {"patch", "partial", "full", "estorno", "cancelOs"}
        /\ d \in Documents /\ Request(t, kind, d, a, s)
        /\ kind = "patch" => s \in {"FINALIZADA", "CANCELADA"}
        /\ kind = "estorno" => s = "ABERTA"
        /\ kind = "cancelOs" => s = "CANCELADA"
  <2>1. t \in Documents /\ Order \in Documents
    BY NamesDiffer
  <2>2. QED
    BY <2>1, KindsDiffer DEF Open
<1> DEFINE q == [NoRequest EXCEPT !.kind = kind, !.sale = d, !.asked = a, !.status = s]
<1>4. request' = [request EXCEPT ![t] = q] /\ step' = [step EXCEPT ![t] = "read"]
  BY <1>3 DEF Request, GoTo
<1>5. q.kind = kind /\ q.status = s
  BY DEF NoRequest
<1> HIDE DEF q
<1>6. /\ Quiet(t) /\ request'[t] = q /\ step'[t] = "read" /\ draft'[t] = draft[t]
  BY <1>1, <1>4, Reads
<1>7. DOMAIN draft'[t] = {}
  BY <1>2, <1>6
<1>8. StatusKnown(t)'
  BY <1>3, <1>5, <1>6, <1>7 DEF StatusKnown
<1>9. QED
  BY <1>6, <1>8, StatusQuiet

LEMMA StatusReadsToUndo ==
    ASSUME OrderTyped, StatusInv, overlapped # "mixed", NEW t \in Transactions,
           \/ ReadGeneratedLines(t) \/ ReadOrderLine(t) \/ ReadToUndo(t) \/ ReadGenerated(t)
    PROVE  StatusInv'
<1> DEFINE k == request[t].kind
<1>1. /\ request[t] \in RequestRows /\ request = [request EXCEPT ![t] = request[t]]
  BY DEF OrderTyped
<1>2. CASE ReadGeneratedLines(t)
  <2> DEFINE S == {i \in ItemsOf(t, request[t].sale) : LineSeen(t, request[t].sale, i).linked}
             q == [request[t] EXCEPT !.todo = S]
             s == IF SaleSeen(t).linked THEN "give back" ELSE "commit"
  <2>1. /\ step[t] = "reopen" /\ step' = [step EXCEPT ![t] = s] /\ Read
        /\ request' = [request EXCEPT ![t] = q] /\ s \in {"give back", "commit"}
    BY <1>2 DEF ReadGeneratedLines, AtStep, GoTo
  <2> HIDE DEF s, S
  <2>2. k \in {"partial", "full"} /\ q.kind = k /\ q.status = request[t].status
    BY <1>1, <2>1, KindOfStep DEF RequestRows
  <2> HIDE DEF q
  <2>3. QED
    BY <2>1, <2>2, StatusReads, KindsDiffer DEF InProgress, BeforeOrderIsWritten
<1>3. CASE ReadOrderLine(t)
  <2>1. PICK i \in request[t].todo :
          request' = [request EXCEPT ![t].item = {i}, ![t].todo = @ \ {i},
                         ![t].seen[i] = LineSeen(t, Order, i).converted]
    BY <1>3 DEF ReadOrderLine
  <2> DEFINE q == [request[t] EXCEPT !.item = {i}, !.todo = @ \ {i},
                         !.seen[i] = LineSeen(t, Order, i).converted]
  <2>2. request' = [request EXCEPT ![t] = q]
    BY <2>1
  <2>3. /\ step[t] = "give back" /\ step' = [step EXCEPT ![t] = "given back"] /\ Read
    BY <1>3 DEF ReadOrderLine, AtStep, GoTo
  <2>4. k \in {"partial", "full"} /\ q.kind = k /\ q.status = request[t].status
    BY <1>1, <2>3, KindOfStep DEF RequestRows
  <2> HIDE DEF q
  <2>5. QED
    BY <2>2, <2>3, <2>4, StatusReads, KindsDiffer DEF InProgress, BeforeOrderIsWritten
<1>4. CASE ReadToUndo(t)
  <2>1. /\ step[t] = "read" /\ step' = [step EXCEPT ![t] = "generated"] /\ Read
        /\ request' = [request EXCEPT ![t] = request[t]] /\ k \in {"estorno", "cancelOs"}
    BY <1>1, <1>4 DEF ReadToUndo, AtStep, GoTo
  <2>2. QED
    BY <2>1, StatusReads, KindsDiffer DEF InProgress, BeforeOrderIsWritten
<1>5. CASE ReadGenerated(t)
  <2>1. step[t] = "generated" /\ Read
    BY <1>5 DEF ReadGenerated, AtStep
  <2>2. CASE /\ k = "estorno" /\ GoTo(t, "unlink")
             /\ request' = [request EXCEPT ![t].todo = Generated, ![t].live = LiveOf(Generated)]
    <3> DEFINE q == [request[t] EXCEPT !.todo = Generated, !.live = LiveOf(Generated)]
    <3>1. request' = [request EXCEPT ![t] = q] /\ step' = [step EXCEPT ![t] = "unlink"]
      BY <2>2 DEF GoTo
    <3>2. q.kind = k /\ q.status = request[t].status
      BY <1>1 DEF RequestRows
    <3> HIDE DEF q
    <3>3. QED
      BY <2>1, <2>2, <3>1, <3>2, StatusReads, KindsDiffer DEF InProgress, BeforeOrderIsWritten
  <2>3. CASE k = "cancelOs" /\ GoTo(t, "order") /\ UNCHANGED request
    <3>1. request' = [request EXCEPT ![t] = request[t]] /\ step' = [step EXCEPT ![t] = "order"]
      BY <1>1, <2>3 DEF GoTo
    <3>2. request[t].status = "CANCELADA"
      BY <2>1, <2>3 DEF StatusInv, InProgress, StatusKnown
    <3>3. QED
      BY <2>1, <2>3, <3>1, <3>2, StatusReads, KindsDiffer DEF InProgress, BeforeOrderIsWritten
  <2>4. QED
    BY <1>5, <2>2, <2>3 DEF ReadGenerated
<1>6. QED
  BY <1>2, <1>3, <1>4, <1>5

LEMMA StatusCommits ==
    ASSUME OrderTyped, StatusInv, overlapped' # "mixed", NEW t \in Transactions, Commit(t)
    PROVE  StatusInv'
<1>1. /\ step'[t] = "done" /\ ~InProgress(t)' /\ step[t] = "commit"
      /\ \A u \in Transactions \ {t} :
           step'[u] = step[u] /\ request'[u] = request[u] /\ draft'[u] = draft[u]
  BY CommitFacts, EndsQuietly
<1>2. /\ overlapped # "mixed"
      /\ \A u \in Transactions \ {t} : InProgress(u) =>
           request[u].kind \in Conversions /\ request[t].kind \in Conversions
  <2> DEFINE others == {u \in Transactions \ {t} : InProgress(u)}
             kinds == {request[u].kind : u \in others \cup {t}}
  <2>1. overlapped' = IF others = {} THEN overlapped
                      ELSE IF kinds \subseteq Conversions /\ overlapped # "mixed"
                      THEN "conversions" ELSE "mixed"
    BY DEF Commit
  <2>2. others # {} => kinds \subseteq Conversions /\ overlapped # "mixed"
    BY <2>1
  <2>3. \A u \in others : request[u].kind \in kinds /\ request[t].kind \in kinds
    OBVIOUS
  <2> HIDE DEF kinds
  <2>4. overlapped # "mixed"
    BY <2>1, <2>2
  <2>5. QED
    BY <2>2, <2>3, <2>4
<1>3. StatusKnown(t)
  BY <1>1, <1>2 DEF StatusInv, InProgress
<1>4. StatusAgrees(table[Order], [i \in Items |-> OrderLine(i)])'
  <2>1. StatusAgrees(Seen(t, Order), OrderLines(t))
    BY <1>1, <1>3 DEF StatusKnown
  <2>2. table'[Order] = Seen(t, Order) /\ \A i \in Items : table'[<< Order, i >>] = LineSeen(t, Order, i)
    BY CommitFacts, NamesDiffer DEF LineSeen
  <2>3. [i \in Items |-> OrderLine(i)]' = OrderLines(t)
    BY <2>2 DEF OrderLine, OrderLines
  <2>4. QED
    BY <2>1, <2>2, <2>3
<1>5. ASSUME NEW u \in Transactions, InProgress(u)'
      PROVE  StatusKnown(u)'
  <2>1. u # t
    BY <1>1, <1>5
  <2>2. step'[u] = step[u] /\ request'[u] = request[u] /\ draft'[u] = draft[u]
    BY <1>1, <2>1
  <2>3. InProgress(u) /\ request[u].kind \in Conversions /\ request[t].kind \in Conversions
    BY <1>2, <1>5, <2>1, <2>2 DEF InProgress
  <2>4. StatusKnown(u)
    BY <1>2, <2>3 DEF StatusInv
  <2>5. Sequence \in DOMAIN draft[t]
    BY <1>1, <1>3, <2>3 DEF StatusKnown
  <2>6. Sequence \notin DOMAIN draft[u]
    BY <2>1, <2>5 DEF OrderTyped
  <2>7. step[u] \in {"read", "lines", "number"}
    <3>1. step[u] \in ConversionSteps
      BY <2>3, ConversionAt DEF StepFits
    <3>2. QED
      BY <2>3, <2>4, <2>6, <3>1 DEF StatusKnown, ConversionSteps
  <2>8. QED
    BY <2>2, <2>3, <2>4, <2>7, KindsDiffer DEF StatusKnown, BeforeOrderIsWritten
<1>6. QED
  BY <1>4, <1>5 DEF StatusInv

LEMMA StatusAborts ==
    ASSUME OrderTyped, StatusInv, overlapped # "mixed", NEW t \in Transactions, Abort(t)
    PROVE  StatusInv'
<1>1. /\ step'[t] = "done" /\ ~InProgress(t)' /\ table' = table
      /\ \A u \in Transactions \ {t} :
           step'[u] = step[u] /\ request'[u] = request[u] /\ draft'[u] = draft[u]
  BY EndsQuietly DEF Abort
<1>2. StatusAgrees(table[Order], [i \in Items |-> OrderLine(i)])'
  BY <1>1 DEF StatusInv, OrderLine
<1>3. ASSUME NEW u \in Transactions, InProgress(u)'
      PROVE  StatusKnown(u)'
  <2>1. step'[u] = step[u] /\ request'[u] = request[u] /\ draft'[u] = draft[u]
    BY <1>1, <1>3
  <2>2. StatusKnown(u)
    BY <1>3, <2>1 DEF StatusInv, InProgress
  <2>3. \A r : Seen(u, r)' = Seen(u, r)
    BY <1>1, <2>1 DEF Seen
  <2>4. OrderLines(u)' = OrderLines(u)
    BY <2>3 DEF OrderLines, LineSeen
  <2>5. QED
    BY <2>1, <2>2, <2>3, <2>4 DEF StatusKnown
<1>4. QED
  BY <1>2, <1>3 DEF StatusInv

\* Only a commit changes the table, and what is known of overlapping.
LEMMA OnlyCommits ==
    ASSUME NEW t \in Transactions,
           \/ Open(t)
           \/ ReadToConvert(t) \/ ReadLines(t) \/ TakeNumber(t) \/ InsertDocument(t)
           \/ ConvertLine(t) \/ RereadLines(t) \/ WriteOrder(t)
           \/ ReadToPatch(t) \/ WritePatch(t)
           \/ ReadToReturn(t) \/ ReadReturnable(t) \/ ReadReturnLine(t)
           \/ NumberReturn(t) \/ InsertReturn(t) \/ WriteReturned(t)
           \/ ReadSituation(t) \/ WriteSituation(t)
           \/ ReadGeneratedLines(t) \/ ReadOrderLine(t) \/ WriteOrderLine(t)
           \/ ReadToUndo(t) \/ ReadGenerated(t) \/ UnlinkSale(t) \/ UnlinkLines(t)
           \/ ResetLines(t) \/ Abort(t)
    PROVE  UNCHANGED << table, services, returns, overlapped >>
<1>1. Read => UNCHANGED << table, services, returns, overlapped >>
  BY DEF Read
<1>2. \A f : WriteRows(t, f) => UNCHANGED << table, services, returns, overlapped >>
  BY DEF WriteRows
<1>3. CASE \/ Open(t) \/ ReadToConvert(t) \/ ReadLines(t) \/ RereadLines(t) \/ ReadToPatch(t)
           \/ ReadToReturn(t) \/ ReadReturnable(t) \/ ReadReturnLine(t)
           \/ NumberReturn(t) \/ InsertReturn(t) \/ ReadSituation(t)
           \/ ReadGeneratedLines(t) \/ ReadOrderLine(t) \/ ReadToUndo(t) \/ ReadGenerated(t)
  BY <1>1, <1>3 DEF Open, ReadToConvert, ReadLines, RereadLines, ReadToPatch,
       ReadToReturn, ReadReturnable, ReadReturnLine, NumberReturn, InsertReturn, ReadSituation,
       ReadGeneratedLines, ReadOrderLine, ReadToUndo, ReadGenerated
<1>4. CASE TakeNumber(t) \/ InsertDocument(t) \/ ConvertLine(t) \/ WriteOrder(t) \/ WritePatch(t)
  BY <1>2, <1>4 DEF TakeNumber, NextOrderNumber, InsertDocument, ConvertLine, WriteOrder, WritePatch
<1>5. CASE WriteReturned(t) \/ WriteSituation(t) \/ WriteOrderLine(t)
  BY <1>2, <1>5 DEF WriteReturned, WriteSituation, WriteOrderLine
<1>6. CASE UnlinkSale(t) \/ UnlinkLines(t) \/ ResetLines(t)
  BY <1>2, <1>6 DEF UnlinkSale, UnlinkLines, ResetLines
<1>7. CASE Abort(t)
  BY <1>7 DEF Abort
<1>8. QED
  BY <1>3, <1>4, <1>5, <1>6, <1>7

LEMMA StatusReadsSituation ==
    ASSUME OrderTyped, StatusInv, overlapped # "mixed", NEW t \in Transactions, ReadSituation(t)
    PROVE  StatusInv'
<1> DEFINE x == SituationOf(SaleLinesSeen(t))
           q == [request[t] EXCEPT !.situation = x]
<1>1. /\ step[t] = "line" /\ step' = [step EXCEPT ![t] = "situation"] /\ Read
      /\ request' = [request EXCEPT ![t] = q] /\ request[t] \in RequestRows
  BY DEF ReadSituation, AtStep, GoTo, OrderTyped
<1> HIDE DEF x
<1>2. q.kind = request[t].kind /\ q.status = request[t].status
  BY <1>1 DEF RequestRows
<1> HIDE DEF q
<1>3. QED
  BY <1>1, <1>2, StatusReads DEF InProgress, BeforeOrderIsWritten

LEMMA StatusStep ==
    ASSUME OrderTyped, StatusInv, OrderNext
    PROVE  StatusInv'
<1> SUFFICES ASSUME overlapped' # "mixed" PROVE StatusInv'
  BY DEF StatusInv
<1> PICK t \in Transactions :
    \/ Open(t)
    \/ ReadToConvert(t) \/ ReadLines(t) \/ TakeNumber(t) \/ InsertDocument(t)
    \/ ConvertLine(t) \/ RereadLines(t) \/ WriteOrder(t)
    \/ ReadToPatch(t) \/ WritePatch(t)
    \/ ReadToReturn(t) \/ ReadReturnable(t) \/ ReadReturnLine(t)
    \/ NumberReturn(t) \/ InsertReturn(t) \/ WriteReturned(t)
    \/ ReadSituation(t) \/ WriteSituation(t)
    \/ ReadGeneratedLines(t) \/ ReadOrderLine(t) \/ WriteOrderLine(t)
    \/ ReadToUndo(t) \/ ReadGenerated(t) \/ UnlinkSale(t) \/ UnlinkLines(t)
    \/ ResetLines(t)
    \/ Commit(t) \/ Abort(t)
  BY DEF OrderNext
<1>1. CASE Commit(t)
  BY <1>1, StatusCommits
<1>2. ~Commit(t) => overlapped # "mixed"
  BY OnlyCommits
<1>3. CASE ~Commit(t)
  BY <1>2, <1>3, StatusOpens, StatusReadingSteps, StatusWritingSteps, StatusOrderSteps,
     StatusReadsSituation, StatusReadsToUndo, StatusAborts
<1>4. QED
  BY <1>1, <1>3

LEMMA StatusInit ==
    ASSUME OrderInit
    PROVE  StatusInv
<1> PICK start \in Starts : FirstTable(table, start)
  BY InitTable
<1>1. \A t \in Transactions : ~InProgress(t)
  BY DEF OrderInit, InProgress
<1>2. table[Order].status = StatusOf(FirstLines)
  BY DEF FirstTable, Document
<1>3. [i \in Items |-> OrderLine(i)] = FirstLines
  BY DEF FirstTable, FirstLines, OrderLine
<1>4. QED
  BY <1>1, <1>2, <1>3 DEF StatusInv, StatusAgrees

\* WorkOrder: as long as only conversions overlap, the order keeps the status
\* its lines call for: the counter of order numbers, which each of them updates
\* before it writes anything, admits one at a time, and each reads the lines again.
THEOREM StatusFollows == OrderSpec => []StatusFollowsLines
<1>1. OrderInit => StatusInv
  BY StatusInit
<1>2. OrderTyped /\ StatusInv /\ [OrderNext]_orderVars => StatusInv'
  <2>1. ASSUME StatusInv, UNCHANGED orderVars
        PROVE  StatusInv'
    BY <2>1 DEF StatusInv, orderVars, InProgress, StatusKnown, StatusAgrees, OrderLine, OrderLines,
         LineSeen, Seen
  <2>2. QED
    BY <2>1, StatusStep
<1>3. StatusInv => StatusFollowsLines
  BY DEF StatusInv, StatusFollowsLines, StatusAgrees
<1>4. QED
  BY <1>1, <1>2, <1>3, OrderTypedAlways, PTL DEF OrderSpec

-----------------------------------------------------------------------------
(***************************************************************************)
(* Requests one at a time.  A request writes its rows one by one, and what  *)
(* agrees between them is broken until it commits.  So SerialKnown says how *)
(* far the request under way has come, row by row: what it has read is      *)
(* still so, and what it sees of each row is what the row was and what the  *)
(* request has made of it by that step.  A commit then makes its view the   *)
(* table, and that view agrees again (CommitAgrees).                        *)
(***************************************************************************)

\* What the table would be if t committed now, and what agrees in it.
View(t) == [r \in RowNames |-> Seen(t, r)]
ItemsIn(T, s) == {i \in Items : T[<< s, i >>] # Absent}
LinesIn(T, s) == {T[<< s, i >>] : i \in ItemsIn(T, s)}
GeneratedIn(T) == {s \in Sales : T[s] # Absent /\ T[s].linked}
LiveIn(T) == {s \in GeneratedIn(T) : T[s].status # "CANCELADA"}
QuantityAt(T, s, i) == IF T[<< s, i >>] = Absent THEN 0 ELSE T[<< s, i >>].quantity
SumIn(T, S, i) == SumFunctionOnSet([s \in S |-> QuantityAt(T, s, i)], S)
ReturnedIn(R, s, i) ==
    SumFunctionOnSet([r \in R |-> r.quantity], {r \in R : r.sale = s /\ r.item = i})

\* An open order has nothing converted, and what is generated is not empty:
\* an order that patch may cancel has therefore no sale.
ConvertedAgrees(T) ==
    /\ \A i \in Items : SumIn(T, LiveIn(T), i) <= T[<< Order, i >>].converted
    /\ T[Order].type # "ORDEM DE SERVICO" =>
        \A i \in Items : T[<< Order, i >>].converted = SumIn(T, GeneratedIn(T), i)
    /\ T[Order].status = "CANCELADA" => LiveIn(T) = {}
    /\ T[Order].status = "ABERTA" => \A i \in Items : T[<< Order, i >>].converted = 0
    /\ \A s \in GeneratedIn(T) : \E i \in Items : T[<< s, i >>] # Absent
    /\ IsFiniteSet({s \in Sales : T[s] # Absent})
NoneReturned(T, s) == \A i \in ItemsIn(T, s) : T[<< s, i >>].returned = 0
AllReturned(T, s) ==
    \A i \in ItemsIn(T, s) : T[<< s, i >>].returned >= T[<< s, i >>].quantity
SomeReturned(T, s) == \E l \in LinesIn(T, s) : l.returned > 0
SituationAgrees(T, s) ==
    SomeReturned(T, s) =>
        /\ T[s].situation = SituationOf(LinesIn(T, s))
        /\ T[s].status = StatusOfSituation(SituationOf(LinesIn(T, s)))
ReturnedAgrees(T, R) ==
    /\ \A s \in Sales, i \in Items :
        T[<< s, i >>] # Absent => T[<< s, i >>].returned = ReturnedIn(R, s, i)
    /\ \A r \in R : T[r.sale] # Absent
    /\ \A s \in Sales : SituationAgrees(T, s)

Differs(t) == {r \in RowNames : Seen(t, r) # table[r]}
OnlyDiffers(t, D) == Differs(t) \subseteq D

Inserted(t) ==
    /\ OnlyDiffers(t, {Sequence} \cup Own(t) \cup OrderRows)
    /\ Seen(t, t) # Absent /\ Seen(t, t).linked /\ Seen(t, t).status # "CANCELADA"
    /\ \A i \in Items :
        /\ request[t].asked[i] = 0 => LineSeen(t, t, i) = Absent
        /\ request[t].asked[i] > 0 =>
            /\ LineSeen(t, t, i) # Absent
            /\ LineSeen(t, t, i).quantity = request[t].asked[i]
            /\ LineSeen(t, t, i).returned = 0
    /\ \A i \in Items :
        LineSeen(t, Order, i).converted =
            table[<< Order, i >>].converted
                + IF i \in request[t].todo THEN 0 ELSE request[t].asked[i]
    /\ Seen(t, Order).type = table[Order].type
ConversionSerial(t) ==
    /\ request[t].returns = {}
    /\ \E i \in Items : request[t].asked[i] > 0
    /\ step[t] \in {"read", "lines", "number", "insert"} =>
        /\ request[t].status \in {"ABERTA", "FINALIZADA"}
        /\ OnlyDiffers(t, {Sequence})
    /\ step[t] \in {"number", "insert", "convert"} =>
        \A i \in Items : request[t].seen[i] = table[<< Order, i >>].converted
    /\ step[t] \in {"convert", "order", "commit"} => Inserted(t)
    /\ step[t] \in {"order", "commit"} => request[t].todo = {}
    /\ step[t] = "order" => request[t].status = StatusOf(OrderLines(t))
    /\ step[t] = "commit" => Seen(t, Order).status = StatusOf(OrderLines(t))

PatchSerial(t) ==
    /\ request[t].returns = {}
    /\ request[t].status \in {"FINALIZADA", "CANCELADA"}
    /\ step[t] \in {"read", "patch"} => OnlyDiffers(t, {})
    /\ step[t] \in {"patch", "commit"} => table[request[t].sale].status = "ABERTA"
    /\ step[t] = "commit" =>
        /\ OnlyDiffers(t, {request[t].sale})
        /\ SaleSeen(t).linked = table[request[t].sale].linked
        /\ SaleSeen(t).type = table[request[t].sale].type
        /\ SaleSeen(t).status = request[t].status

CancelSerial(t) ==
    /\ request[t].returns = {} /\ request[t].status = "CANCELADA"
    /\ step[t] \in {"read", "generated", "order"} => OnlyDiffers(t, {})
    /\ step[t] \in {"order", "commit"} => LiveIn(table) = {}
    /\ step[t] = "commit" =>
        /\ OnlyDiffers(t, {Order})
        /\ Seen(t, Order).type = table[Order].type /\ Seen(t, Order).status = "CANCELADA"

LineKept(t, s, i) ==
    IF table[<< s, i >>] = Absent THEN LineSeen(t, s, i) = Absent
    ELSE LineSeen(t, s, i) # Absent /\ LineSeen(t, s, i).returned = table[<< s, i >>].returned
Undoing(t) ==
    /\ \A s \in GeneratedIn(table) : table[s].situation = "SEM_DEVOLUCAO"
    /\ Seen(t, Order).type = "ORDEM DE SERVICO"
    /\ request[t].todo \subseteq GeneratedIn(table)
    /\ \A s \in Sales :
        IF s \in GeneratedIn(table) \ request[t].todo
        THEN Seen(t, s) # Absent /\ Seen(t, s).linked = FALSE ELSE Seen(t, s) = table[s]
    /\ \A s \in Sales, i \in Items : LineKept(t, s, i)
EstornoSerial(t) ==
    /\ request[t].returns = {}
    /\ step[t] \in {"read", "generated"} => OnlyDiffers(t, {})
    /\ step[t] # "read" => FromWorkOrder
    /\ step[t] \in {"unlink", "reset", "order", "commit"} => Undoing(t)
    /\ step[t] \in {"reset", "order", "commit"} => request[t].todo = {}
    /\ step[t] \in {"order", "commit"} => \A i \in Items : LineSeen(t, Order, i).converted = 0

\* The rows of a return: its lines, the sale, the order and its lines.
SaleLines(t) == {request[t].sale} \X Items
LineWritten(t, i) ==
    /\ \E r \in request[t].returns : r.item = i
    /\ ~(step[t] = "returned" /\ i \in request[t].item)
Numbering == {"number return", "insert return"}
Returning == {"line", "number return", "insert return", "returned"}
RowsWritten(t) ==
    /\ \A r \in request[t].returns :
        /\ r.sale = request[t].sale /\ r.quantity = request[t].asked[r.item]
        /\ r \notin returns /\ table[<< request[t].sale, r.item >>] # Absent
    /\ \A r, o \in request[t].returns : r.item = o.item => r = o
RowsAhead(t) ==
    /\ step[t] \in Returning => \A r \in request[t].returns : r.item \notin request[t].todo
    /\ step[t] \in Numbering => \A r \in request[t].returns : r.item \notin request[t].item
    /\ step[t] \in Numbering \cup {"returned"} =>
        /\ request[t].item \cap request[t].todo = {}
        /\ \A i, j \in request[t].item : i = j
        /\ \A i \in request[t].item : request[t].seen[i] = table[<< request[t].sale, i >>].returned
    /\ step[t] = "returned" =>
        \A i \in request[t].item : \E r \in request[t].returns : r.item = i
LinesReturned(t) ==
    \A i \in Items : table[<< request[t].sale, i >>] # Absent =>
        LineSeen(t, request[t].sale, i).returned =
            table[<< request[t].sale, i >>].returned
                + IF LineWritten(t, i) THEN request[t].asked[i] ELSE 0
ReturnWrote(t) == RowsWritten(t) /\ RowsAhead(t) /\ LinesReturned(t)
AskedAll(t) ==
    \A i \in Items : request[t].asked[i] =
        IF table[<< request[t].sale, i >>] = Absent THEN 0
        ELSE Returnable(table[<< request[t].sale, i >>])
SituationWritten(t) ==
    /\ SaleSeen(t).linked = table[request[t].sale].linked
    /\ SaleSeen(t).situation = SituationOf(SaleLinesSeen(t))
    /\ (\E l \in SaleLinesSeen(t) : l.returned > 0) =>
        SaleSeen(t).status = StatusOfSituation(SituationOf(SaleLinesSeen(t)))
GivesBack(t) ==
    /\ \A i \in Items :
        LineSeen(t, Order, i).converted
            >= table[<< Order, i >>].converted - QuantityAt(table, request[t].sale, i)
    /\ step[t] \in {"give back", "given back"} =>
        \A i \in request[t].todo : LineSeen(t, Order, i) = table[<< Order, i >>]
    /\ step[t] = "given back" =>
        /\ request[t].item \cap request[t].todo = {}
        /\ \A i \in request[t].item : request[t].seen[i] = table[<< Order, i >>].converted
Reopening(t) ==
    /\ table[request[t].sale].linked /\ FromWorkOrder /\ SaleSeen(t).status = "CANCELADA"
ReturnSerial(t) ==
    /\ step[t] \in {"read", "returnable"} => OnlyDiffers(t, {}) /\ request[t].returns = {}
    /\ step[t] # "read" =>
        /\ table[request[t].sale].status \in {"FINALIZADA", "PARCIAL"}
        /\ request[t].linked => table[request[t].sale].linked /\ FromWorkOrder
    /\ step[t] \notin {"read", "returnable"} =>
        ReturnWrote(t) /\ (request[t].kind = "full" => AskedAll(t))
    /\ step[t] \in Returning \cup {"situation"} => OnlyDiffers(t, SaleLines(t))
    /\ step[t] = "situation" => request[t].situation = SituationOf(SaleLinesSeen(t))
    /\ step[t] \in {"reopen", "give back", "given back", "order", "commit"} =>
        SituationWritten(t)
    /\ step[t] \in {"reopen", "give back", "given back", "order"} => Reopening(t)
    /\ step[t] = "reopen" => OnlyDiffers(t, SaleLines(t) \cup {request[t].sale})
    /\ step[t] \in {"give back", "given back", "order"} =>
        OnlyDiffers(t, SaleLines(t) \cup {request[t].sale} \cup ({Order} \X Items))
            /\ GivesBack(t)
    /\ step[t] = "order" => request[t].status = StatusOf(OrderLines(t))
    /\ step[t] = "commit" =>
        \/ OnlyDiffers(t, SaleLines(t) \cup {request[t].sale})
        \/ /\ OnlyDiffers(t, SaleLines(t) \cup {request[t].sale} \cup OrderRows)
           /\ Reopening(t) /\ GivesBack(t) /\ Seen(t, Order).type = table[Order].type
           /\ Seen(t, Order).status = StatusOf(OrderLines(t))

SerialKnown(t) ==
    /\ request[t].kind \in Conversions => ConversionSerial(t)
    /\ request[t].kind = "patch" => PatchSerial(t)
    /\ request[t].kind \in {"partial", "full"} => ReturnSerial(t)
    /\ request[t].kind = "estorno" => EstornoSerial(t)
    /\ request[t].kind = "cancelOs" => CancelSerial(t)
OrderSerialInv == overlapped = "none" =>
    /\ ConvertedAgrees(table) /\ ReturnedAgrees(table, returns)
    /\ \A t \in Transactions : InProgress(t) => SerialKnown(t)

-----------------------------------------------------------------------------
\* Sums over the documents of a table.
LEMMA QuantityIsNat ==
    ASSUME NEW T, TableTyped(T)
    PROVE  \A s \in Sales, i \in Items : QuantityAt(T, s, i) \in Nat
<1> TAKE s \in Sales, i \in Items
<1>1. T[<< s, i >>] # Absent => T[<< s, i >>] \in LinesFor(s, i)
  BY TypedRows, NamesDiffer
<1>2. QED
  BY <1>1 DEF QuantityAt, LinesFor, LineRows

LEMMA SumInIsNat ==
    ASSUME NEW T, TableTyped(T), NEW S \in SUBSET Sales, IsFiniteSet(S), NEW i \in Items
    PROVE  SumIn(T, S, i) \in Nat
<1> DEFINE f == [s \in S |-> QuantityAt(T, s, i)]
<1>1. \A s \in S : f[s] \in Nat
  BY QuantityIsNat
<1> HIDE DEF f
<1>2. SumFunctionOnSet(f, S) \in Nat
  BY <1>1, SumIsNat
<1>3. QED
  BY <1>2 DEF SumIn, f

LEMMA SumInSame ==
    ASSUME NEW T, NEW U, NEW S, IsFiniteSet(S), NEW i,
           \A s \in S : QuantityAt(U, s, i) = QuantityAt(T, s, i)
    PROVE  SumIn(U, S, i) = SumIn(T, S, i)
<1> DEFINE f == [s \in S |-> QuantityAt(T, s, i)]
           g == [s \in S |-> QuantityAt(U, s, i)]
<1>1. \A s \in S : g[s] = f[s]
  OBVIOUS
<1> HIDE DEF f, g
<1>2. SumFunctionOnSet(g, S) = SumFunctionOnSet(f, S)
  BY <1>1, SumDependsOnValues
<1>3. QED
  BY <1>2 DEF SumIn, f, g

LEMMA SumInPart ==
    ASSUME NEW T, TableTyped(T), NEW S \in SUBSET Sales, IsFiniteSet(S), NEW P \in SUBSET S,
           NEW i \in Items
    PROVE  SumIn(T, P, i) <= SumIn(T, S, i) /\ IsFiniteSet(P)
<1> DEFINE f == [s \in S |-> QuantityAt(T, s, i)]
           g == [s \in P |-> QuantityAt(T, s, i)]
<1>1. \A s \in S : f[s] \in Nat
  BY QuantityIsNat
<1>2. IsFiniteSet(P)
  BY FS_Subset
<1>3. \A s \in P : g[s] = f[s]
  OBVIOUS
<1> HIDE DEF f, g
<1>4. SumFunctionOnSet(f, P) <= SumFunctionOnSet(f, S)
  BY <1>1, SumOfPart
<1>5. SumFunctionOnSet(g, P) = SumFunctionOnSet(f, P)
  BY <1>2, <1>3, SumDependsOnValues
<1>6. QED
  BY <1>2, <1>4, <1>5 DEF SumIn, f, g

LEMMA SumInWith ==
    ASSUME NEW T, TableTyped(T), NEW S \in SUBSET Sales, IsFiniteSet(S), NEW d \in Sales,
           d \notin S, NEW i \in Items
    PROVE  SumIn(T, S \cup {d}, i) = SumIn(T, S, i) + QuantityAt(T, d, i)
<1> DEFINE f == [s \in S \cup {d} |-> QuantityAt(T, s, i)]
           g == [s \in S |-> QuantityAt(T, s, i)]
<1>1. (\A s \in S \cup {d} : f[s] \in Int) /\ f[d] = QuantityAt(T, d, i)
  BY QuantityIsNat
<1>2. \A s \in S : g[s] = f[s]
  OBVIOUS
<1> HIDE DEF f, g
<1>3. SumFunctionOnSet(f, S \cup {d}) = SumFunctionOnSet(f, S) + f[d]
  BY <1>1, SumWith
<1>4. SumFunctionOnSet(g, S) = SumFunctionOnSet(f, S)
  BY <1>2, SumDependsOnValues
<1>5. QED
  BY <1>1, <1>3, <1>4 DEF SumIn, f, g

LEMMA SumInNothing ==
    ASSUME NEW T, NEW i PROVE SumIn(T, {}, i) = 0
BY SumOfNothing DEF SumIn

LEMMA GeneratedFinite ==
    ASSUME NEW T, ConvertedAgrees(T)
    PROVE  /\ IsFiniteSet(GeneratedIn(T)) /\ IsFiniteSet(LiveIn(T))
           /\ LiveIn(T) \subseteq GeneratedIn(T) /\ GeneratedIn(T) \subseteq Sales
<1>1. IsFiniteSet({s \in Sales : T[s] # Absent})
  BY DEF ConvertedAgrees
<1>2. GeneratedIn(T) \subseteq {s \in Sales : T[s] # Absent} /\ LiveIn(T) \subseteq GeneratedIn(T)
  BY DEF GeneratedIn, LiveIn
<1>3. IsFiniteSet(GeneratedIn(T))
  BY <1>1, <1>2, FS_Subset
<1>4. IsFiniteSet(LiveIn(T))
  BY <1>2, <1>3, FS_Subset
<1>5. QED
  BY <1>2, <1>3, <1>4

LEMMA StatusOfMeans ==
    ASSUME NEW T, TableTyped(T)
    PROVE  LET lines == [i \in Items |-> T[<< Order, i >>]]
           IN  /\ StatusOf(lines) # "CANCELADA"
               /\ StatusOf(lines) = "ABERTA" => \A i \in Items : T[<< Order, i >>].converted = 0
<1> DEFINE lines == [i \in Items |-> T[<< Order, i >>]]
<1>1. StatusOf(lines) # "CANCELADA"
  BY StatusTyped
<1>2. \A i \in Items : T[<< Order, i >>].converted \in Nat
  BY TypedRows DEF LinesFor, LineRows
<1>3. StatusOf(lines) = "ABERTA" => ~\E i \in Items : lines[i].converted > 0
  BY DEF StatusOf
<1>4. QED
  BY <1>1, <1>2, <1>3

-----------------------------------------------------------------------------
LEMMA LessIsTaken ==
    ASSUME NEW a, NEW b \in Nat, NEW n \in Nat, NEW x \in Nat, NEW y \in Nat,
           a = b + n, a <= x, y >= x - n
    PROVE  b <= y
OBVIOUS

LEMMA MoreIsAdded ==
    ASSUME NEW a \in Nat, NEW b \in Nat, NEW n \in Nat, NEW x \in Nat, NEW y,
           a <= x, y = x + n
    PROVE  a + n <= y /\ (x = b => y = b + n)
OBVIOUS

\* What a commit makes of the quantities converted, from the table T to U.
DocumentsKept(T, U) ==
    \A s \in Sales : /\ U[s] # Absent <=> T[s] # Absent
                     /\ T[s] # Absent => U[s].linked = T[s].linked
QuantitiesKept(T, U) ==
    \A s \in Sales, i \in Items :
        /\ QuantityAt(U, s, i) = QuantityAt(T, s, i)
        /\ T[<< s, i >>] # Absent => U[<< s, i >>] # Absent
OrderKept(T, U) ==
    /\ U[Order].type = T[Order].type
    /\ U[Order].status = "CANCELADA" => LiveIn(U) = {}
    /\ U[Order].status = "ABERTA" => T[Order].status = "ABERTA"
FollowsLines(T) == T[Order].status = StatusOf([i \in Items |-> T[<< Order, i >>]])
TakenBack(T, U, d) ==
    \A i \in Items :
        U[<< Order, i >>].converted >= T[<< Order, i >>].converted - QuantityAt(T, d, i)
OfWorkOrder(T) == T[Order].type = "ORDEM DE SERVICO"
SameType(T, U) == U[Order].type = T[Order].type
Loses(T, U, d) == d \in LiveIn(T) /\ LiveIn(U) = LiveIn(T) \ {d}
Appears(T, U, d) ==
    /\ T[d] = Absent /\ U[d] # Absent /\ U[d].linked /\ U[d].status # "CANCELADA"
    /\ \E i \in Items : U[<< d, i >>] # Absent
OthersKept(T, U, d) ==
    /\ \A s \in Sales \ {d} : U[s] = T[s]
    /\ \A s \in Sales \ {d}, i \in Items : U[<< s, i >>] = T[<< s, i >>]
AddedTo(T, U, d) ==
    \A i \in Items :
        U[<< Order, i >>].converted = T[<< Order, i >>].converted + QuantityAt(U, d, i)

\* No document is generated, and nothing converted.
LEMMA ConvertedKept ==
    ASSUME NEW T, NEW U, TableTyped(T), TableTyped(U), ConvertedAgrees(T),
           DocumentsKept(T, U), QuantitiesKept(T, U),
           LiveIn(U) \subseteq LiveIn(T),
           \A i \in Items : U[<< Order, i >>].converted = T[<< Order, i >>].converted,
           OrderKept(T, U)
    PROVE  ConvertedAgrees(U)
<1>1. GeneratedIn(U) = GeneratedIn(T)
  BY DEF GeneratedIn, DocumentsKept
<1>2. /\ IsFiniteSet(GeneratedIn(T)) /\ IsFiniteSet(LiveIn(T))
      /\ LiveIn(T) \subseteq GeneratedIn(T) /\ GeneratedIn(T) \subseteq Sales
  BY GeneratedFinite
<1>3. ASSUME NEW i \in Items
      PROVE  /\ SumIn(U, LiveIn(U), i) <= T[<< Order, i >>].converted
             /\ SumIn(U, GeneratedIn(T), i) = SumIn(T, GeneratedIn(T), i)
  <2>1. IsFiniteSet(LiveIn(U)) /\ SumIn(T, LiveIn(U), i) <= SumIn(T, LiveIn(T), i)
    BY <1>2, SumInPart
  <2>21. /\ \A s \in LiveIn(U) : QuantityAt(U, s, i) = QuantityAt(T, s, i)
         /\ \A s \in GeneratedIn(T) : QuantityAt(U, s, i) = QuantityAt(T, s, i)
    BY <1>2 DEF QuantitiesKept
  <2>2. SumIn(U, LiveIn(U), i) = SumIn(T, LiveIn(U), i)
    BY <2>1, <2>21, SumInSame
  <2>3. SumIn(U, GeneratedIn(T), i) = SumIn(T, GeneratedIn(T), i)
    BY <1>2, <2>21, SumInSame
  <2>4. SumIn(T, LiveIn(T), i) <= T[<< Order, i >>].converted
    BY DEF ConvertedAgrees
  <2>5. SumIn(T, LiveIn(U), i) \in Nat /\ SumIn(T, LiveIn(T), i) \in Nat
        /\ T[<< Order, i >>].converted \in Nat
    BY <1>2, <2>1, SumInIsNat, TypedRows DEF LinesFor, LineRows
  <2>6. QED
    BY <2>1, <2>2, <2>3, <2>4, <2>5
<1>4. {s \in Sales : U[s] # Absent} = {s \in Sales : T[s] # Absent}
  BY DEF DocumentsKept
<1>5. \A s \in GeneratedIn(T) : \E i \in Items : U[<< s, i >>] # Absent
  BY <1>2 DEF ConvertedAgrees, QuantitiesKept
<1>6. /\ T[Order].type # "ORDEM DE SERVICO" =>
            \A i \in Items : T[<< Order, i >>].converted = SumIn(T, GeneratedIn(T), i)
      /\ T[Order].status = "ABERTA" => \A i \in Items : T[<< Order, i >>].converted = 0
      /\ IsFiniteSet({s \in Sales : T[s] # Absent})
  BY DEF ConvertedAgrees
<1>7. QED
  BY <1>1, <1>3, <1>4, <1>5, <1>6 DEF ConvertedAgrees, OrderKept

\* A sale is cancelled, and what it has given back to the work order.
LEMMA ConvertedGivenBack ==
    ASSUME NEW T, NEW U, TableTyped(T), TableTyped(U), ConvertedAgrees(T),
           DocumentsKept(T, U), QuantitiesKept(T, U),
           NEW d, Loses(T, U, d), TakenBack(T, U, d), OfWorkOrder(U), FollowsLines(U)
    PROVE  ConvertedAgrees(U)
<1>1. GeneratedIn(U) = GeneratedIn(T)
  BY DEF GeneratedIn, DocumentsKept
<1>2. /\ IsFiniteSet(LiveIn(T)) /\ LiveIn(T) \subseteq Sales /\ GeneratedIn(T) \subseteq Sales
  BY GeneratedFinite
<1>3. IsFiniteSet(LiveIn(U)) /\ LiveIn(U) \subseteq Sales /\ d \in Sales
  BY <1>2, FS_Subset DEF Loses
<1>4. ASSUME NEW i \in Items
      PROVE  SumIn(U, LiveIn(U), i) <= U[<< Order, i >>].converted
  <2>1. SumIn(T, LiveIn(U) \cup {d}, i) = SumIn(T, LiveIn(U), i) + QuantityAt(T, d, i)
    <3>1. d \notin LiveIn(U)
      BY DEF Loses
    <3>2. QED
      BY <1>3, <3>1, SumInWith
  <2>2. LiveIn(U) \cup {d} = LiveIn(T)
    BY DEF Loses
  <2>31. \A s \in LiveIn(U) : QuantityAt(U, s, i) = QuantityAt(T, s, i)
    BY <1>3 DEF QuantitiesKept
  <2>3. SumIn(U, LiveIn(U), i) = SumIn(T, LiveIn(U), i)
    BY <1>3, <2>31, SumInSame
  <2>4. SumIn(T, LiveIn(T), i) <= T[<< Order, i >>].converted
    BY DEF ConvertedAgrees
  <2>5. SumIn(T, LiveIn(U), i) \in Nat /\ QuantityAt(T, d, i) \in Nat
        /\ T[<< Order, i >>].converted \in Nat /\ U[<< Order, i >>].converted \in Nat
    BY <1>3, SumInIsNat, QuantityIsNat, TypedRows DEF LinesFor, LineRows
  <2>6. U[<< Order, i >>].converted >= T[<< Order, i >>].converted - QuantityAt(T, d, i)
    BY DEF TakenBack
  <2> DEFINE a == SumIn(T, LiveIn(T), i)
             b == SumIn(T, LiveIn(U), i)
             n == QuantityAt(T, d, i)
             x == T[<< Order, i >>].converted
             y == U[<< Order, i >>].converted
  <2>7. a = b + n
    BY <2>1, <2>2
  <2>8. a <= x /\ y >= x - n /\ b \in Nat /\ n \in Nat /\ x \in Nat /\ y \in Nat
    BY <2>4, <2>5, <2>6
  <2> HIDE DEF a, b, n, x, y
  <2>9. b <= y
    BY <2>7, <2>8, LessIsTaken
  <2>10. QED
    BY <2>3, <2>9 DEF b, y
<1>5. {s \in Sales : U[s] # Absent} = {s \in Sales : T[s] # Absent}
  BY DEF DocumentsKept
<1>6. \A s \in GeneratedIn(T) : \E i \in Items : U[<< s, i >>] # Absent
  BY <1>2 DEF ConvertedAgrees, QuantitiesKept
<1>7. /\ U[Order].status # "CANCELADA"
      /\ U[Order].status = "ABERTA" => \A i \in Items : U[<< Order, i >>].converted = 0
  BY StatusOfMeans DEF FollowsLines
<1>8. IsFiniteSet({s \in Sales : T[s] # Absent})
  BY DEF ConvertedAgrees
<1>9. QED
  BY <1>1, <1>4, <1>5, <1>6, <1>7, <1>8 DEF ConvertedAgrees, OfWorkOrder

\* A document d is generated, and what it has converted.
LEMMA ConvertedMore ==
    ASSUME NEW T, NEW U, TableTyped(T), TableTyped(U), ConvertedAgrees(T),
           NEW d \in Sales, Appears(T, U, d), OthersKept(T, U, d), AddedTo(T, U, d),
           SameType(T, U), FollowsLines(U)
    PROVE  ConvertedAgrees(U)
<1>1. /\ GeneratedIn(U) = GeneratedIn(T) \cup {d} /\ LiveIn(U) = LiveIn(T) \cup {d}
      /\ d \notin GeneratedIn(T) /\ d \notin LiveIn(T)
  <2>1. d \notin GeneratedIn(T)
    BY DEF GeneratedIn, Appears
  <2>2. GeneratedIn(U) = GeneratedIn(T) \cup {d}
    BY DEF GeneratedIn, Appears, OthersKept
  <2>3. LiveIn(U) = LiveIn(T) \cup {d}
    BY <2>1, <2>2 DEF LiveIn, GeneratedIn, Appears, OthersKept
  <2>4. QED
    BY <2>1, <2>2, <2>3 DEF LiveIn
<1>2. /\ IsFiniteSet(GeneratedIn(T)) /\ IsFiniteSet(LiveIn(T))
      /\ LiveIn(T) \subseteq GeneratedIn(T) /\ GeneratedIn(T) \subseteq Sales
  BY GeneratedFinite
<1>3. ASSUME NEW S \in SUBSET Sales, d \notin S, IsFiniteSet(S), NEW i \in Items
      PROVE  SumIn(U, S \cup {d}, i) = SumIn(T, S, i) + QuantityAt(U, d, i)
  <2>1. SumIn(U, S \cup {d}, i) = SumIn(U, S, i) + QuantityAt(U, d, i)
    BY <1>3, SumInWith
  <2>2. \A s \in S : QuantityAt(U, s, i) = QuantityAt(T, s, i)
    BY <1>3 DEF QuantityAt, OthersKept
  <2>3. SumIn(U, S, i) = SumIn(T, S, i)
    BY <1>3, <2>2, SumInSame
  <2>4. QED
    BY <2>1, <2>3
<1>4. ASSUME NEW i \in Items
      PROVE  /\ SumIn(U, LiveIn(U), i) <= U[<< Order, i >>].converted
             /\ ~OfWorkOrder(T) =>
                    U[<< Order, i >>].converted = SumIn(U, GeneratedIn(U), i)
  <2>1. SumIn(U, LiveIn(U), i) = SumIn(T, LiveIn(T), i) + QuantityAt(U, d, i)
    BY <1>1, <1>2, <1>3
  <2>2. SumIn(U, GeneratedIn(U), i) = SumIn(T, GeneratedIn(T), i) + QuantityAt(U, d, i)
    BY <1>1, <1>2, <1>3
  <2>3. SumIn(T, LiveIn(T), i) \in Nat /\ QuantityAt(U, d, i) \in Nat
        /\ T[<< Order, i >>].converted \in Nat /\ SumIn(T, GeneratedIn(T), i) \in Nat
    BY <1>2, SumInIsNat, QuantityIsNat, TypedRows DEF LinesFor, LineRows
  <2>4. SumIn(T, LiveIn(T), i) <= T[<< Order, i >>].converted
    BY DEF ConvertedAgrees
  <2>5. ~OfWorkOrder(T) => T[<< Order, i >>].converted = SumIn(T, GeneratedIn(T), i)
    BY DEF ConvertedAgrees, OfWorkOrder
  <2>6. U[<< Order, i >>].converted = T[<< Order, i >>].converted + QuantityAt(U, d, i)
    BY DEF AddedTo
  <2> DEFINE a == SumIn(T, LiveIn(T), i)
             b == SumIn(T, GeneratedIn(T), i)
             n == QuantityAt(U, d, i)
             x == T[<< Order, i >>].converted
             y == U[<< Order, i >>].converted
  <2>7. a <= x /\ y = x + n /\ a \in Nat /\ b \in Nat /\ n \in Nat /\ x \in Nat
    BY <2>3, <2>4, <2>6
  <2>71. ~OfWorkOrder(T) => x = b
    BY <2>5
  <2> HIDE DEF a, b, n, x, y
  <2>8. a + n <= y /\ (x = b => y = b + n)
    BY <2>7, MoreIsAdded
  <2>9. SumIn(U, LiveIn(U), i) = a + n /\ SumIn(U, GeneratedIn(U), i) = b + n
    BY <2>1, <2>2 DEF a, b, n
  <2>10. SumIn(U, LiveIn(U), i) <= y /\ (~OfWorkOrder(T) => y = SumIn(U, GeneratedIn(U), i))
    BY <2>71, <2>8, <2>9
  <2>11. QED
    BY <2>10 DEF y
<1>5. IsFiniteSet({s \in Sales : U[s] # Absent})
  <2>1. {s \in Sales : U[s] # Absent} = {s \in Sales : T[s] # Absent} \cup {d}
    BY DEF Appears, OthersKept
  <2>2. IsFiniteSet({s \in Sales : T[s] # Absent})
    BY DEF ConvertedAgrees
  <2>3. QED
    BY <2>1, <2>2, FS_AddElement
<1>6. \A s \in GeneratedIn(U) : \E i \in Items : U[<< s, i >>] # Absent
  <2> TAKE s \in GeneratedIn(U)
  <2>1. CASE s = d
    BY <2>1 DEF Appears
  <2>2. CASE s # d
    BY <1>1, <1>2, <2>2 DEF ConvertedAgrees, OthersKept
  <2>3. QED
    BY <2>1, <2>2
<1>7. /\ U[Order].status # "CANCELADA"
      /\ U[Order].status = "ABERTA" => \A i \in Items : U[<< Order, i >>].converted = 0
  BY StatusOfMeans DEF FollowsLines
<1>8. QED
  BY <1>4, <1>5, <1>6, <1>7 DEF ConvertedAgrees, OfWorkOrder, SameType

\* Nothing is generated any more.
NoneAppears(T, U) == \A s \in Sales : U[s] # Absent => T[s] # Absent
NothingConverted(T) == \A i \in Items : T[<< Order, i >>].converted = 0
LEMMA ConvertedUndone ==
    ASSUME NEW T, NEW U, ConvertedAgrees(T), GeneratedIn(U) = {},
           NoneAppears(T, U), NothingConverted(U), OfWorkOrder(U)
    PROVE  ConvertedAgrees(U)
<1>1. LiveIn(U) = {}
  BY DEF LiveIn
<1>2. \A i \in Items : SumIn(U, LiveIn(U), i) = 0
  BY <1>1, SumInNothing
<1>3. IsFiniteSet({s \in Sales : U[s] # Absent})
  <2>1. {s \in Sales : U[s] # Absent} \subseteq {s \in Sales : T[s] # Absent}
    BY DEF NoneAppears
  <2>2. IsFiniteSet({s \in Sales : T[s] # Absent})
    BY DEF ConvertedAgrees
  <2>3. QED
    BY <2>1, <2>2, FS_Subset
<1>4. ASSUME NEW i \in Items
      PROVE  SumIn(U, LiveIn(U), i) <= U[<< Order, i >>].converted
  <2>1. SumIn(U, LiveIn(U), i) = 0
    BY <1>2
  <2>2. U[<< Order, i >>].converted = 0
    BY DEF NothingConverted
  <2>3. QED
    BY <2>1, <2>2
<1>5. QED
  BY <1>1, <1>3, <1>4 DEF ConvertedAgrees, NothingConverted, OfWorkOrder

-----------------------------------------------------------------------------
\* What a commit makes of the quantities returned, from T and R to U and Q.
LEMMA SituationOfIs ==
    ASSUME NEW T, NEW s
    PROVE  /\ SituationOf(LinesIn(T, s)) =
                IF NoneReturned(T, s) THEN "SEM_DEVOLUCAO"
                ELSE IF AllReturned(T, s) THEN "TOTAL" ELSE "PARCIAL"
           /\ SomeReturned(T, s) <=> \E i \in ItemsIn(T, s) : T[<< s, i >>].returned > 0
<1>1. (\A l \in LinesIn(T, s) : l.returned = 0) <=> NoneReturned(T, s)
  BY DEF LinesIn, NoneReturned
<1>2. (\A l \in LinesIn(T, s) : l.returned >= l.quantity) <=> AllReturned(T, s)
  BY DEF LinesIn, AllReturned
<1>3. SomeReturned(T, s) <=> \E i \in ItemsIn(T, s) : T[<< s, i >>].returned > 0
  BY DEF LinesIn, SomeReturned
<1>4. QED
  BY <1>1, <1>2, <1>3 DEF SituationOf

LEMMA NoneIsNotSome ==
    ASSUME NEW T, NEW s, NoneReturned(T, s)
    PROVE  ~SomeReturned(T, s)
<1>1. ASSUME NEW i \in ItemsIn(T, s), T[<< s, i >>].returned > 0
      PROVE  FALSE
  <2>1. T[<< s, i >>].returned = 0
    BY DEF NoneReturned
  <2>2. QED
    BY <1>1, <2>1
<1>2. QED
  BY <1>1, SituationOfIs

SameLine(T, U, s, i) ==
    /\ U[<< s, i >>] # Absent <=> T[<< s, i >>] # Absent
    /\ T[<< s, i >>] # Absent =>
         /\ U[<< s, i >>].returned = T[<< s, i >>].returned
         /\ U[<< s, i >>].quantity = T[<< s, i >>].quantity

LEMMA SameSituation ==
    ASSUME NEW T, NEW U, NEW s,
           \A i \in Items : SameLine(T, U, s, i)
    PROVE  /\ SituationOf(LinesIn(U, s)) = SituationOf(LinesIn(T, s))
           /\ SomeReturned(U, s) <=> SomeReturned(T, s)
<1>1. ItemsIn(U, s) = ItemsIn(T, s)
      /\ \A i \in ItemsIn(T, s) : /\ U[<< s, i >>].returned = T[<< s, i >>].returned
                                  /\ U[<< s, i >>].quantity = T[<< s, i >>].quantity
  BY DEF ItemsIn, SameLine
<1>2. NoneReturned(U, s) <=> NoneReturned(T, s)
  BY <1>1 DEF NoneReturned
<1>3. AllReturned(U, s) <=> AllReturned(T, s)
  BY <1>1 DEF AllReturned
<1>4. (\E i \in ItemsIn(U, s) : U[<< s, i >>].returned > 0)
          <=> \E i \in ItemsIn(T, s) : T[<< s, i >>].returned > 0
  BY <1>1
<1>5. QED
  BY <1>2, <1>3, <1>4, SituationOfIs

\* Nothing is returned, and no sale that has returns changes its status.
NotReturned(T, U, N) ==
    /\ \A s \in N : T[s] = Absent
    /\ \A s \in N, i \in Items : U[<< s, i >>] # Absent => U[<< s, i >>].returned = 0
StatusKept(T, U, N) ==
    /\ \A s \in Documents : T[s] # Absent => U[s] # Absent
    /\ \A s \in Sales \ N : SomeReturned(T, s) =>
         U[s].situation = T[s].situation /\ U[s].status = T[s].status

LEMMA ReturnedKept ==
    ASSUME NEW T, NEW U, NEW R, ReturnedAgrees(T, R), NEW N \in SUBSET Sales,
           NotReturned(T, U, N), StatusKept(T, U, N), R \subseteq ReturnRows,
           \A s \in Sales \ N, i \in Items : SameLine(T, U, s, i)
    PROVE  ReturnedAgrees(U, R)
<1>1. \A r \in R : r.sale \in Sales
  BY DEF ReturnRows
<1>2. \A r \in R : U[r.sale] # Absent
  BY <1>1, NamesDiffer DEF ReturnedAgrees, StatusKept
<1>3. \A s \in N, i \in Items : ReturnedIn(R, s, i) = 0
  <2> TAKE s \in N, i \in Items
  <2>1. {r \in R : r.sale = s /\ r.item = i} = {}
    BY DEF ReturnedAgrees, NotReturned
  <2>2. QED
    BY <2>1, SumOfNothing DEF ReturnedIn
<1>4. \A s \in Sales, i \in Items :
        U[<< s, i >>] # Absent => U[<< s, i >>].returned = ReturnedIn(R, s, i)
  <2> TAKE s \in Sales, i \in Items
  <2>1. CASE s \in N
    BY <1>3, <2>1 DEF NotReturned
  <2>2. CASE s \notin N
    BY <2>2 DEF ReturnedAgrees, SameLine
  <2>3. QED
    BY <2>1, <2>2
<1>5. \A s \in Sales : SituationAgrees(U, s)
  <2> TAKE s \in Sales
  <2>1. CASE s \in N
    <3>1. NoneReturned(U, s)
      BY <2>1 DEF ItemsIn, NoneReturned, NotReturned
    <3>2. QED
      BY <3>1, NoneIsNotSome DEF SituationAgrees
  <2>2. CASE s \notin N
    <3>1. SituationAgrees(T, s)
      BY DEF ReturnedAgrees
    <3>2. /\ SituationOf(LinesIn(U, s)) = SituationOf(LinesIn(T, s))
          /\ SomeReturned(U, s) <=> SomeReturned(T, s)
      BY <2>2, SameSituation
    <3>3. QED
      BY <2>2, <3>1, <3>2 DEF SituationAgrees, StatusKept
  <2>3. QED
    BY <2>1, <2>2
<1>6. QED
  BY <1>2, <1>4, <1>5 DEF ReturnedAgrees

RowsOf(R, Q, d, n) ==
    /\ \A r \in Q : r.sale = d /\ r \notin R /\ r.quantity = n[r.item]
    /\ \A r, o \in Q : r.item = o.item => r = o
ReturnedAre(T, U, d, Q, n) ==
    \A i \in Items :
        /\ U[<< d, i >>] # Absent <=> T[<< d, i >>] # Absent
        /\ T[<< d, i >>] # Absent => U[<< d, i >>].returned =
             T[<< d, i >>].returned + IF \E r \in Q : r.item = i THEN n[i] ELSE 0

\* The rows Q are returned of the sale d, one per item at most.
LEMMA ReturnedMore ==
    ASSUME NEW T, NEW U, NEW R, NEW Q, ReturnedAgrees(T, R), NEW d \in Sales,
           R \subseteq ReturnRows, Q \subseteq ReturnRows, IsFiniteSet(R), IsFiniteSet(Q),
           NEW n, RowsOf(R, Q, d, n), ReturnedAre(T, U, d, Q, n), OthersKept(T, U, d),
           U[d] # Absent, SituationAgrees(U, d)
    PROVE  ReturnedAgrees(U, R \cup Q)
<1> DEFINE V == R \cup Q
           f == [r \in V |-> r.quantity]
           g == [r \in R |-> r.quantity]
<1>1. /\ \A r \in V : r.quantity \in Nat /\ f[r] = r.quantity /\ r.item \in Items /\ r.sale \in Sales
      /\ \A r \in R : g[r] = r.quantity
  BY DEF ReturnRows
<1> HIDE DEF f, g
<1>2. \A r \in V : U[r.sale] # Absent
  BY <1>1 DEF ReturnedAgrees, RowsOf, OthersKept
<1>3. ASSUME NEW s \in Sales, NEW i \in Items
      PROVE  /\ SumFunctionOnSet(f, {r \in R : r.sale = s /\ r.item = i}) = ReturnedIn(R, s, i)
             /\ IsFiniteSet({r \in R : r.sale = s /\ r.item = i})
             /\ ReturnedIn(V, s, i) = SumFunctionOnSet(f, {r \in V : r.sale = s /\ r.item = i})
  <2> DEFINE A == {r \in R : r.sale = s /\ r.item = i}
  <2>1. IsFiniteSet(A) /\ \A r \in A : f[r] = g[r]
    BY <1>1, FS_Subset
  <2>2. SumFunctionOnSet(f, A) = SumFunctionOnSet(g, A)
    BY <2>1, SumDependsOnValues
  <2>3. SumFunctionOnSet(g, A) = ReturnedIn(R, s, i)
    BY DEF g, ReturnedIn
  <2>4. ReturnedIn(V, s, i) = SumFunctionOnSet(f, {r \in V : r.sale = s /\ r.item = i})
    BY DEF f, ReturnedIn
  <2>5. QED
    BY <2>1, <2>2, <2>3, <2>4
<1>4. ASSUME NEW s \in Sales, NEW i \in Items, s # d \/ ~\E r \in Q : r.item = i
      PROVE  ReturnedIn(V, s, i) = ReturnedIn(R, s, i)
  <2>1. {r \in V : r.sale = s /\ r.item = i} = {r \in R : r.sale = s /\ r.item = i}
    BY <1>4 DEF RowsOf
  <2>2. ReturnedIn(V, s, i) = SumFunctionOnSet(f, {r \in V : r.sale = s /\ r.item = i})
    BY <1>3
  <2>3. SumFunctionOnSet(f, {r \in R : r.sale = s /\ r.item = i}) = ReturnedIn(R, s, i)
    BY <1>3
  <2> HIDE DEF V
  <2>4. QED
    BY <2>1, <2>2, <2>3
<1>5. ASSUME NEW i \in Items, NEW o \in Q, o.item = i
      PROVE  ReturnedIn(V, d, i) = ReturnedIn(R, d, i) + n[i] /\ ReturnedIn(R, d, i) \in Int
             /\ n[i] \in Int
  <2> DEFINE A == {r \in R : r.sale = d /\ r.item = i}
  <2>1. {r \in V : r.sale = d /\ r.item = i} = A \cup {o}
    BY <1>5 DEF RowsOf
  <2>21. IsFiniteSet(A)
    BY <1>3
  <2>22. \A r \in A \cup {o} : f[r] \in Int
    BY <1>1
  <2>2. o \notin A /\ IsFiniteSet(A) /\ \A r \in A \cup {o} : f[r] \in Int
    BY <2>21, <2>22 DEF RowsOf
  <2> HIDE DEF A
  <2>3. SumFunctionOnSet(f, A \cup {o}) = SumFunctionOnSet(f, A) + f[o]
    BY <2>2, SumWith
  <2>4. f[o] = n[i] /\ f[o] \in Int
    BY <1>1, <1>5 DEF RowsOf
  <2>5. SumFunctionOnSet(f, A) \in Int
    BY <2>2, SumIsInt
  <2>6. SumFunctionOnSet(f, A) = ReturnedIn(R, d, i)
    BY <1>3 DEF A
  <2>7. ReturnedIn(V, d, i) = SumFunctionOnSet(f, A \cup {o})
    <3>1. ReturnedIn(V, d, i) = SumFunctionOnSet(f, {r \in V : r.sale = d /\ r.item = i})
      BY <1>3
    <3>2. QED
      BY <2>1, <3>1
  <2>8. QED
    BY <2>3, <2>4, <2>5, <2>6, <2>7
<1>6. \A s \in Sales, i \in Items :
        U[<< s, i >>] # Absent => U[<< s, i >>].returned = ReturnedIn(V, s, i)
  <2> TAKE s \in Sales, i \in Items
  <2>1. CASE s # d
    <3>1. T[<< s, i >>] # Absent => T[<< s, i >>].returned = ReturnedIn(R, s, i)
      BY DEF ReturnedAgrees
    <3>2. ReturnedIn(V, s, i) = ReturnedIn(R, s, i)
      BY <1>4, <2>1
    <3> HIDE DEF V
    <3>3. QED
      BY <2>1, <3>1, <3>2 DEF OthersKept
  <2>2. CASE s = d
    <3>1. T[<< d, i >>] # Absent => T[<< d, i >>].returned = ReturnedIn(R, d, i)
      BY DEF ReturnedAgrees
    <3>2. CASE \E r \in Q : r.item = i
      <4>1. PICK o \in Q : o.item = i
        BY <3>2
      <4>2. ReturnedIn(V, d, i) = ReturnedIn(R, d, i) + n[i]
        BY <1>5, <4>1
      <4> HIDE DEF V
      <4>3. QED
        BY <2>2, <3>1, <3>2, <4>2 DEF ReturnedAre
    <3>3. CASE ~\E r \in Q : r.item = i
      <4>1. ReturnedIn(V, d, i) = ReturnedIn(R, d, i) /\ ReturnedIn(R, d, i) \in Int
        <5>1. SumFunctionOnSet(f, {r \in R : r.sale = d /\ r.item = i}) \in Int
          <6>1. IsFiniteSet({r \in R : r.sale = s /\ r.item = i})
            BY <1>3
          <6>2. \A r \in V : f[r] \in Int
            BY <1>1
          <6>3. \A r \in {o \in R : o.sale = s /\ o.item = i} : f[r] \in Int
            BY <6>2
          <6>4. SumFunctionOnSet(f, {r \in R : r.sale = s /\ r.item = i}) \in Int
            BY <6>1, <6>3, SumIsInt
          <6>5. QED
            BY <2>2, <6>4
        <5>2. QED
          BY <1>3, <1>4, <3>3, <5>1
      <4>2. QED
        BY <2>2, <3>1, <3>3, <4>1 DEF ReturnedAre
    <3>4. QED
      BY <3>2, <3>3
  <2>3. QED
    BY <2>1, <2>2
<1>7. \A s \in Sales : SituationAgrees(U, s)
  <2> TAKE s \in Sales
  <2>1. CASE s = d
    BY <2>1
  <2>2. CASE s # d
    <3>1. SituationAgrees(T, s) /\ U[s] = T[s]
      BY <2>2 DEF ReturnedAgrees, OthersKept
    <3>2. LinesIn(U, s) = LinesIn(T, s)
      <4>1. ItemsIn(U, s) = ItemsIn(T, s)
        BY <2>2 DEF ItemsIn, OthersKept
      <4>2. \A i \in ItemsIn(T, s) : U[<< s, i >>] = T[<< s, i >>]
        BY <2>2 DEF ItemsIn, OthersKept
      <4>3. QED
        BY <4>1, <4>2 DEF LinesIn
    <3>3. QED
      BY <3>1, <3>2 DEF SituationAgrees, SomeReturned
  <2>3. QED
    BY <2>1, <2>2
<1>8. QED
  BY <1>2, <1>6, <1>7 DEF ReturnedAgrees

-----------------------------------------------------------------------------
\* What t sees, as a table.
LEMMA ViewTyped ==
    ASSUME OrderTyped, NEW t \in Transactions
    PROVE  TableTyped(table) /\ TableTyped(View(t))
<1>1. \A r \in RowNames : Seen(t, r) \in Permitted(r)
  BY SeenTyped
<1>2. \A r \in RowNames : View(t)[r] = Seen(t, r)
  BY DEF View
<1>3. View(t) = [r \in RowNames |-> View(t)[r]]
  BY DEF View
<1>4. QED
  BY <1>1, <1>2, <1>3 DEF TableTyped, OrderTyped

LEMMA ViewDocuments ==
    ASSUME NEW t \in Transactions
    PROVE  \A d \in Documents : View(t)[d] = Seen(t, d)
BY NamesDiffer DEF View

LEMMA ViewLines ==
    ASSUME NEW t \in Transactions
    PROVE  \A d \in Documents, i \in Items : View(t)[<< d, i >>] = LineSeen(t, d, i)
BY NamesDiffer DEF View, LineSeen

LEMMA ViewOrderLines ==
    ASSUME NEW t \in Transactions
    PROVE  OrderLines(t) = [i \in Items |-> View(t)[<< Order, i >>]]
BY ViewLines, NamesDiffer DEF OrderLines

LEMMA ViewSaleLines ==
    ASSUME NEW t \in Transactions, request[t].sale \in Documents
    PROVE  /\ SaleLinesSeen(t) = LinesIn(View(t), request[t].sale)
           /\ ItemsOf(t, request[t].sale) = ItemsIn(View(t), request[t].sale)
<1>1. ItemsOf(t, request[t].sale) = ItemsIn(View(t), request[t].sale)
  BY ViewLines DEF ItemsOf, ItemsIn
<1>2. \A i \in ItemsOf(t, request[t].sale) :
        View(t)[<< request[t].sale, i >>] = LineSeen(t, request[t].sale, i)
  BY ViewLines DEF ItemsOf
<1>3. QED
  BY <1>1, <1>2 DEF SaleLinesSeen, LinesIn

\* Rows of a set D of rows aside, t sees what is committed.
LEMMA OthersSeen ==
    ASSUME NEW t \in Transactions, NEW D, OnlyDiffers(t, D)
    PROVE  /\ \A d \in Documents : d \notin D => View(t)[d] = table[d]
           /\ \A d \in Documents, i \in Items :
                << d, i >> \notin D => View(t)[<< d, i >>] = table[<< d, i >>]
<1>1. \A r \in RowNames : r \notin D => View(t)[r] = table[r]
  BY DEF OnlyDiffers, Differs, View
<1>2. QED
  BY <1>1, NamesDiffer

LEMMA DocumentsSeen ==
    ASSUME OrderTyped, NEW t \in Transactions
    PROVE  /\ \A d \in Documents : table[d] # Absent => View(t)[d] # Absent
           /\ \A d \in Documents : View(t)[d] # Absent => View(t)[d] \in DocumentRows
BY SeenDocuments, ViewDocuments

LEMMA LinesSeen ==
    ASSUME OrderTyped, NEW t \in Transactions
    PROVE  \A d \in Documents, i \in Items :
             table[<< d, i >>] # Absent =>
               /\ View(t)[<< d, i >>] # Absent
               /\ View(t)[<< d, i >>].quantity = table[<< d, i >>].quantity
BY SeenDocuments, ViewLines

\* Documents of which t sees the committed lines have the same quantities.
LEMMA QuantitySame ==
    ASSUME NEW T, NEW U, NEW s, NEW i, U[<< s, i >>] = T[<< s, i >>]
    PROVE  QuantityAt(U, s, i) = QuantityAt(T, s, i) /\ SameLine(T, U, s, i)
BY DEF QuantityAt, SameLine

LEMMA QuantitySeen ==
    ASSUME OrderTyped, NEW t \in Transactions, NEW s \in Sales, NEW i \in Items,
           table[<< s, i >>] = Absent => View(t)[<< s, i >>] = Absent
    PROVE  QuantityAt(View(t), s, i) = QuantityAt(table, s, i)
<1>1. s \in Documents
  BY NamesDiffer
<1>2. table[<< s, i >>] # Absent =>
        /\ View(t)[<< s, i >>] # Absent
        /\ View(t)[<< s, i >>].quantity = table[<< s, i >>].quantity
  BY <1>1, LinesSeen
<1>3. QED
  BY <1>2 DEF QuantityAt

\* An open order has no generated document that is not cancelled.
LEMMA OpenHasNone ==
    ASSUME NEW T, TableTyped(T), ConvertedAgrees(T), T[Order].status = "ABERTA"
    PROVE  LiveIn(T) = {}
<1> SUFFICES ASSUME NEW s \in LiveIn(T) PROVE FALSE
  OBVIOUS
<1>1. /\ IsFiniteSet(LiveIn(T)) /\ LiveIn(T) \subseteq Sales /\ s \in GeneratedIn(T)
      /\ s \in Sales
  BY GeneratedFinite
<1>2. PICK i \in Items : T[<< s, i >>] # Absent
  BY <1>1 DEF ConvertedAgrees
<1>3. QuantityAt(T, s, i) \in Nat /\ QuantityAt(T, s, i) > 0
  <2>1. T[<< s, i >>] \in LinesFor(s, i)
    BY <1>1, <1>2, TypedRows, NamesDiffer
  <2>2. QED
    BY <1>2, <2>1 DEF QuantityAt, LinesFor, LineRows
<1>4. SumIn(T, {s}, i) <= SumIn(T, LiveIn(T), i)
  BY <1>1, SumInPart
<1>5. SumIn(T, {s}, i) = QuantityAt(T, s, i)
  <2>1. SumIn(T, {} \cup {s}, i) = SumIn(T, {}, i) + QuantityAt(T, s, i)
    BY <1>1, SumInWith, FS_EmptySet
  <2>2. {} \cup {s} = {s} /\ SumIn(T, {}, i) = 0
    BY SumInNothing
  <2> HIDE DEF SumIn
  <2>3. QED
    BY <1>3, <2>1, <2>2
<1>6. SumIn(T, LiveIn(T), i) <= T[<< Order, i >>].converted
  BY DEF ConvertedAgrees
<1>7. T[<< Order, i >>].converted = 0
  BY DEF ConvertedAgrees
<1>8. SumIn(T, LiveIn(T), i) \in Nat
  BY <1>1, SumInIsNat
<1>9. SumIn(T, LiveIn(T), i) <= 0
  BY <1>6, <1>7
<1> DEFINE a == SumIn(T, LiveIn(T), i)
           b == QuantityAt(T, s, i)
<1>10. b <= a /\ a <= 0 /\ a \in Nat /\ b \in Nat /\ b > 0
  BY <1>3, <1>4, <1>5, <1>8, <1>9
<1> HIDE DEF a, b
<1>11. QED
  BY <1>10

\* A sale with returns is not open, nor without situation.
LEMMA ReturnedIsClosed ==
    ASSUME NEW T, NEW s, SituationAgrees(T, s), SomeReturned(T, s)
    PROVE  T[s].status # "ABERTA" /\ T[s].situation # "SEM_DEVOLUCAO"
<1>1. /\ T[s].situation = SituationOf(LinesIn(T, s))
      /\ T[s].status = StatusOfSituation(SituationOf(LinesIn(T, s)))
  BY DEF SituationAgrees
<1>2. ~NoneReturned(T, s)
  BY NoneIsNotSome
<1>3. SituationOf(LinesIn(T, s)) # "SEM_DEVOLUCAO"
  BY <1>2, SituationOfIs
<1>4. QED
  BY <1>1, <1>3, StatusTyped

-----------------------------------------------------------------------------
\* What a commit leaves, for each kind of request.
Agrees(T, R) == ConvertedAgrees(T) /\ ReturnedAgrees(T, R)
CommitAgrees(t) == Agrees(View(t), returns \cup request[t].returns)

\* Only documents that are not the order change, or none, and no returns.
LEMMA ConversionCommits ==
    ASSUME OrderTyped, NEW t \in Transactions, Agrees(table, returns), ConversionSerial(t),
           request[t].kind \in Conversions, step[t] = "commit"
    PROVE  CommitAgrees(t)
<1> DEFINE U == View(t)
<1>1. /\ TableTyped(table) /\ TableTyped(U) /\ ConvertedAgrees(table)
      /\ ReturnedAgrees(table, returns)
  BY ViewTyped DEF Agrees
<1>2. /\ Inserted(t) /\ request[t].todo = {} /\ request[t].returns = {}
      /\ \E i \in Items : request[t].asked[i] > 0
      /\ Seen(t, Order).status = StatusOf(OrderLines(t))
  BY DEF ConversionSerial
<1>3. t \in Sales /\ t \in Documents /\ t # Order
  BY NamesDiffer
<1>4. table[t] = Absent
  BY ConversionAt, OwnIs
<1>5. request[t].asked \in Amounts
  BY RequestOf
<1>6. /\ \A i \in Items : request[t].asked[i] = 0 => U[<< t, i >>] = Absent
      /\ \A i \in Items : request[t].asked[i] > 0 =>
            /\ U[<< t, i >>] # Absent /\ U[<< t, i >>].quantity = request[t].asked[i]
            /\ U[<< t, i >>].returned = 0
  <2>1. /\ \A i \in Items : request[t].asked[i] = 0 => LineSeen(t, t, i) = Absent
        /\ \A i \in Items : request[t].asked[i] > 0 =>
              /\ LineSeen(t, t, i) # Absent /\ LineSeen(t, t, i).quantity = request[t].asked[i]
              /\ LineSeen(t, t, i).returned = 0
    BY <1>2 DEF Inserted
  <2>2. \A i \in Items : U[<< t, i >>] = LineSeen(t, t, i)
    BY <1>3, ViewLines
  <2> HIDE DEF U
  <2>3. QED
    BY <2>1, <2>2
<1>7. OthersKept(table, U, t)
  <2> DEFINE D == {Sequence} \cup Own(t) \cup OrderRows
  <2>1. OnlyDiffers(t, D)
    BY <1>2 DEF Inserted
  <2>2. \A s \in Sales \ {t} : s \notin D /\ s \in Documents
    BY OwnIs, OrderRowsAre, NamesDiffer
  <2>3. \A s \in Sales \ {t}, i \in Items : << s, i >> \notin D
    <3> SUFFICES ASSUME NEW s \in Sales \ {t}, NEW i \in Items
                 PROVE  << s, i >> \notin D
      OBVIOUS
    <3>1. << s, i >> # Sequence /\ << s, i >> \notin OrderRows
      BY OrderRowsAre, NamesDiffer
    <3>2. << s, i >> # t
      BY NamesDiffer
    <3>3. \A j \in Items : << s, i >> # << t, j >>
      OBVIOUS
    <3>4. << s, i >> \notin Own(t)
      BY <3>2, <3>3, OwnIs
    <3>5. QED
      BY <3>1, <3>4
  <2> HIDE DEF D
  <2>4. /\ \A s \in Sales \ {t} : U[s] = table[s]
        /\ \A s \in Sales \ {t}, i \in Items : U[<< s, i >>] = table[<< s, i >>]
    BY <2>1, <2>2, <2>3, OthersSeen
  <2>5. QED
    BY <2>4 DEF OthersKept
<1>8. Appears(table, U, t)
  <2>1. U[t] = Seen(t, t)
    BY <1>3, ViewDocuments
  <2>2. U[t] # Absent /\ U[t].linked /\ U[t].status # "CANCELADA"
    BY <1>2, <2>1 DEF Inserted
  <2>3. \E i \in Items : U[<< t, i >>] # Absent
    BY <1>2, <1>6
  <2>4. QED
    BY <1>4, <2>2, <2>3 DEF Appears
<1>9. AddedTo(table, U, t)
  <2> SUFFICES ASSUME NEW i \in Items
               PROVE  U[<< Order, i >>].converted
                        = table[<< Order, i >>].converted + QuantityAt(U, t, i)
    BY DEF AddedTo
  <2>1. LineSeen(t, Order, i).converted = table[<< Order, i >>].converted + request[t].asked[i]
    BY <1>2 DEF Inserted
  <2>2. U[<< Order, i >>] = LineSeen(t, Order, i)
    BY ViewLines, NamesDiffer
  <2>3. QuantityAt(U, t, i) = request[t].asked[i]
    <3>1. request[t].asked[i] = 0 \/ request[t].asked[i] > 0
      BY <1>5 DEF Amounts
    <3>2. CASE request[t].asked[i] = 0
      BY <1>6, <3>2 DEF QuantityAt
    <3>3. CASE request[t].asked[i] > 0
      BY <1>6, <3>3 DEF QuantityAt
    <3>4. QED
      BY <3>1, <3>2, <3>3
  <2> HIDE DEF U
  <2>4. QED
    BY <2>1, <2>2, <2>3
<1>10. U[Order] = Seen(t, Order)
  BY ViewDocuments, NamesDiffer
<1>11. SameType(table, U) /\ FollowsLines(U)
  <2>1. Seen(t, Order).type = table[Order].type
    BY <1>2 DEF Inserted
  <2>2. OrderLines(t) = [i \in Items |-> U[<< Order, i >>]]
    BY ViewOrderLines
  <2>3. SameType(table, U)
    BY <1>10, <2>1 DEF SameType
  <2>4. FollowsLines(U)
    BY <1>2, <1>10, <2>2 DEF FollowsLines
  <2>5. QED
    BY <2>3, <2>4
<1>12. NotReturned(table, U, {t})
  <2>1. \A i \in Items : U[<< t, i >>] # Absent => U[<< t, i >>].returned = 0
    <3> SUFFICES ASSUME NEW i \in Items, U[<< t, i >>] # Absent
                 PROVE  U[<< t, i >>].returned = 0
      OBVIOUS
    <3>1. request[t].asked[i] = 0 \/ request[t].asked[i] > 0
      BY <1>5 DEF Amounts
    <3>2. QED
      BY <1>6, <3>1
  <2>2. QED
    BY <1>4, <2>1 DEF NotReturned
<1>13. StatusKept(table, U, {t})
  <2>1. \A s \in Documents : table[s] # Absent => U[s] # Absent
    BY DocumentsSeen
  <2>2. \A s \in Sales \ {t} : U[s] = table[s]
    BY <1>7 DEF OthersKept
  <2> HIDE DEF U
  <2>3. QED
    BY <2>1, <2>2 DEF StatusKept
<1>14. \A s \in Sales \ {t}, i \in Items : SameLine(table, U, s, i)
  BY <1>7, QuantitySame DEF OthersKept
<1>15. returns \subseteq ReturnRows /\ returns \cup request[t].returns = returns
  BY <1>2 DEF OrderTyped
<1> HIDE DEF U
<1>16. ConvertedAgrees(U)
  BY <1>1, <1>3, <1>7, <1>8, <1>9, <1>11, ConvertedMore
<1>17. ReturnedAgrees(U, returns)
  BY <1>1, <1>3, <1>12, <1>13, <1>14, <1>15, ReturnedKept
<1>18. QED
  BY <1>15, <1>16, <1>17 DEF CommitAgrees, Agrees, U

\* A request that changes no line, and one document d.
LEMMA DocumentCommits ==
    ASSUME OrderTyped, NEW t \in Transactions, Agrees(table, returns), NEW d \in Documents,
           OnlyDiffers(t, {d}), request[t].returns = {}, table[d] # Absent,
           d # Order => Seen(t, d).linked = table[d].linked,
           Seen(t, d).type = table[d].type, table[d].status = "ABERTA" \/ LiveIn(table) = {},
           table[d].status = "CANCELADA" => Seen(t, d).status = "CANCELADA",
           d # Order => table[d].status = "ABERTA",
           Seen(t, d).status # "ABERTA"
    PROVE  CommitAgrees(t)
<1> DEFINE U == View(t)
<1>1. /\ TableTyped(table) /\ TableTyped(U) /\ ConvertedAgrees(table)
      /\ ReturnedAgrees(table, returns)
  BY ViewTyped DEF Agrees
<1>2. /\ \A s \in Documents : s # d => U[s] = table[s]
      /\ \A s \in Documents, i \in Items : U[<< s, i >>] = table[<< s, i >>]
  <2>1. \A s \in Documents, i \in Items : << s, i >> \notin {d}
    BY NamesDiffer
  <2>2. QED
    BY <2>1, OthersSeen
<1>3. U[d] = Seen(t, d) /\ U[d] # Absent
  BY ViewDocuments, DocumentsSeen
<1>4. \A s \in Sales : s \in Documents /\ s # Order
  BY NamesDiffer
<1> HIDE DEF U
<1>5. DocumentsKept(table, U)
  BY <1>2, <1>3, <1>4 DEF DocumentsKept
<1>6. QuantitiesKept(table, U) /\ \A s \in Sales, i \in Items : SameLine(table, U, s, i)
  BY <1>2, <1>4, QuantitySame DEF QuantitiesKept, SameLine
<1>7. LiveIn(U) \subseteq LiveIn(table)
  <2> SUFFICES ASSUME NEW s \in LiveIn(U) PROVE s \in LiveIn(table)
    OBVIOUS
  <2>1. s \in Sales /\ U[s] # Absent /\ U[s].linked /\ U[s].status # "CANCELADA"
    BY DEF LiveIn, GeneratedIn
  <2>2. CASE s = d
    BY <1>3, <1>4, <2>1, <2>2 DEF LiveIn, GeneratedIn
  <2>3. CASE s # d
    BY <1>2, <1>4, <2>1, <2>3 DEF LiveIn, GeneratedIn
  <2>4. QED
    BY <2>2, <2>3
<1>8. \A i \in Items : U[<< Order, i >>].converted = table[<< Order, i >>].converted
  BY <1>2, NamesDiffer
<1>9. OrderKept(table, U)
  <2>1. CASE d = Order
    <3>1. LiveIn(table) = {}
      BY <1>1, <2>1, OpenHasNone
    <3>2. LiveIn(U) = {}
      BY <1>7, <3>1
    <3>3. QED
      BY <1>3, <2>1, <3>2 DEF OrderKept
  <2>2. CASE d # Order
    <3>1. U[Order] = table[Order]
      BY <1>2, <2>2, NamesDiffer
    <3>2. table[Order].status = "CANCELADA" => LiveIn(table) = {}
      BY <1>1 DEF ConvertedAgrees
    <3>3. QED
      BY <1>7, <3>1, <3>2 DEF OrderKept
  <2>3. QED
    BY <2>1, <2>2
<1>10. NotReturned(table, U, {})
  BY DEF NotReturned
<1>11. StatusKept(table, U, {})
  <2>1. \A s \in Documents : table[s] # Absent => U[s] # Absent
    BY <1>2, <1>3
  <2>2. ASSUME NEW s \in Sales, SomeReturned(table, s)
        PROVE  U[s].situation = table[s].situation /\ U[s].status = table[s].status
    <3>1. SituationAgrees(table, s)
      BY <1>1 DEF ReturnedAgrees
    <3>2. table[s].status # "ABERTA"
      BY <2>2, <3>1, ReturnedIsClosed
    <3>3. s # d
      BY <1>4, <3>2
    <3>4. QED
      BY <1>2, <1>4, <3>3
  <2>3. QED
    BY <2>1, <2>2 DEF StatusKept
<1>12. returns \subseteq ReturnRows /\ returns \cup request[t].returns = returns
  BY DEF OrderTyped
<1>13. ConvertedAgrees(U)
  BY <1>1, <1>5, <1>6, <1>7, <1>8, <1>9, ConvertedKept
<1>14. ReturnedAgrees(U, returns)
  BY <1>1, <1>6, <1>10, <1>11, <1>12, ReturnedKept
<1>15. QED
  BY <1>12, <1>13, <1>14 DEF CommitAgrees, Agrees, U

LEMMA PatchCommits ==
    ASSUME OrderTyped, NEW t \in Transactions, Agrees(table, returns), PatchSerial(t),
           request[t].kind = "patch", step[t] = "commit"
    PROVE  CommitAgrees(t)
<1> DEFINE d == request[t].sale
<1>1. d \in Documents /\ table[d] # Absent
  BY RequestOf, OtherAt
<1>2. /\ OnlyDiffers(t, {d}) /\ request[t].returns = {} /\ table[d].status = "ABERTA"
      /\ Seen(t, d).linked = table[d].linked /\ Seen(t, d).type = table[d].type
      /\ Seen(t, d).status \in {"FINALIZADA", "CANCELADA"}
  BY DEF PatchSerial, SaleSeen
<1> HIDE DEF d
<1>3. QED
  BY <1>1, <1>2, DocumentCommits

LEMMA CancelCommits ==
    ASSUME OrderTyped, NEW t \in Transactions, Agrees(table, returns), CancelSerial(t),
           request[t].kind = "cancelOs", step[t] = "commit"
    PROVE  CommitAgrees(t)
<1>1. Order \in Documents /\ table[Order] # Absent
  BY NamesDiffer, TypedRows DEF OrderTyped
<1>2. /\ OnlyDiffers(t, {Order}) /\ request[t].returns = {} /\ LiveIn(table) = {}
      /\ Seen(t, Order).type = table[Order].type /\ Seen(t, Order).status = "CANCELADA"
  BY DEF CancelSerial
<1>3. QED
  BY <1>1, <1>2, DocumentCommits

\* The estorno leaves no document that is generated, and no return.
LEMMA EstornoCommits ==
    ASSUME OrderTyped, NEW t \in Transactions, Agrees(table, returns), EstornoSerial(t),
           request[t].kind = "estorno", step[t] = "commit"
    PROVE  CommitAgrees(t)
<1> DEFINE U == View(t)
<1>1. /\ TableTyped(table) /\ TableTyped(U) /\ ConvertedAgrees(table)
      /\ ReturnedAgrees(table, returns)
  BY ViewTyped DEF Agrees
<1>2. /\ Undoing(t) /\ request[t].todo = {} /\ request[t].returns = {}
      /\ \A i \in Items : LineSeen(t, Order, i).converted = 0
  BY DEF EstornoSerial
<1>3. \A s \in Sales : s \in Documents
  BY NamesDiffer
<1>4. \A s \in Sales : IF s \in GeneratedIn(table) THEN U[s] # Absent /\ U[s].linked = FALSE
                       ELSE U[s] = table[s]
  <2>1. \A s \in Sales : IF s \in GeneratedIn(table)
                         THEN Seen(t, s) # Absent /\ Seen(t, s).linked = FALSE
                         ELSE Seen(t, s) = table[s]
    BY <1>2 DEF Undoing
  <2>2. \A s \in Sales : U[s] = Seen(t, s)
    BY <1>3, ViewDocuments
  <2> HIDE DEF U
  <2>3. QED
    BY <2>1, <2>2
<1>5. OfWorkOrder(U)
  <2>1. U[Order] = Seen(t, Order) /\ Seen(t, Order).type = "ORDEM DE SERVICO"
    BY <1>2, ViewDocuments, NamesDiffer DEF Undoing
  <2>2. QED
    BY <2>1 DEF OfWorkOrder
<1>6. NothingConverted(U)
  <2>1. \A i \in Items : U[<< Order, i >>] = LineSeen(t, Order, i)
    BY ViewLines, NamesDiffer
  <2> HIDE DEF U
  <2>2. QED
    BY <1>2, <2>1 DEF NothingConverted
<1>7. \A s \in Sales, i \in Items : SameLine(table, U, s, i)
  <2> SUFFICES ASSUME NEW s \in Sales, NEW i \in Items PROVE SameLine(table, U, s, i)
    OBVIOUS
  <2>1. U[<< s, i >>] = LineSeen(t, s, i)
    BY <1>3, ViewLines
  <2>2. LineKept(t, s, i)
    BY <1>2 DEF Undoing
  <2>3. table[<< s, i >>] # Absent => U[<< s, i >>].quantity = table[<< s, i >>].quantity
    BY <1>3, LinesSeen
  <2> HIDE DEF U
  <2>4. QED
    BY <2>1, <2>2, <2>3 DEF SameLine, LineKept
<1>8. \A s \in Documents : table[s] # Absent => U[s] # Absent
  BY DocumentsSeen
<1> HIDE DEF U
<1>9. GeneratedIn(U) = {}
  BY <1>4 DEF GeneratedIn
<1>10. NoneAppears(table, U)
  BY <1>4 DEF NoneAppears, GeneratedIn
<1>11. NotReturned(table, U, {})
  BY DEF NotReturned
<1>12. StatusKept(table, U, {})
  <2>1. ASSUME NEW s \in Sales, SomeReturned(table, s)
        PROVE  U[s].situation = table[s].situation /\ U[s].status = table[s].status
    <3>1. SituationAgrees(table, s)
      BY <1>1 DEF ReturnedAgrees
    <3>2. table[s].situation # "SEM_DEVOLUCAO"
      BY <2>1, <3>1, ReturnedIsClosed
    <3>3. s \notin GeneratedIn(table)
      BY <1>2, <3>2 DEF Undoing
    <3>4. QED
      BY <1>4, <3>3
  <2>2. QED
    BY <1>8, <2>1 DEF StatusKept
<1>13. returns \subseteq ReturnRows /\ returns \cup request[t].returns = returns
  BY <1>2 DEF OrderTyped
<1>14. ConvertedAgrees(U)
  BY <1>1, <1>5, <1>6, <1>9, <1>10, ConvertedUndone
<1>15. ReturnedAgrees(U, returns)
  BY <1>1, <1>7, <1>11, <1>12, <1>13, ReturnedKept
<1>16. QED
  BY <1>13, <1>14, <1>15 DEF CommitAgrees, Agrees, U

\* A return: its rows, the lines and the status of the sale agree again.
LEMMA ReturnCommits ==
    ASSUME OrderTyped, NEW t \in Transactions, Agrees(table, returns), ReturnSerial(t),
           request[t].kind \in {"partial", "full"}, step[t] = "commit"
    PROVE  CommitAgrees(t)
<1> DEFINE U == View(t)
           d == request[t].sale
<1>1. /\ TableTyped(table) /\ TableTyped(U) /\ ConvertedAgrees(table)
      /\ ReturnedAgrees(table, returns)
  BY ViewTyped DEF Agrees
<1>2. /\ d \in Sales /\ d \in Documents /\ d # Order /\ table[d] # Absent
      /\ \A i \in Items : LineSeen(t, d, i) # Absent => table[<< d, i >>] # Absent
  BY ReturnAt
<1>3. /\ table[d].status \in {"FINALIZADA", "PARCIAL"} /\ ReturnWrote(t) /\ SituationWritten(t)
      /\ \/ OnlyDiffers(t, SaleLines(t) \cup {d})
         \/ /\ OnlyDiffers(t, SaleLines(t) \cup {d} \cup OrderRows)
            /\ Reopening(t) /\ GivesBack(t) /\ Seen(t, Order).type = table[Order].type
            /\ Seen(t, Order).status = StatusOf(OrderLines(t))
  BY DEF ReturnSerial, Returning
<1>4. U[d] = Seen(t, d) /\ U[d] # Absent
  BY <1>2, ViewDocuments, DocumentsSeen
<1>5. \A i \in Items : U[<< d, i >>] = LineSeen(t, d, i)
  BY <1>2, ViewLines
<1>6. OthersKept(table, U, d)
  <2> DEFINE D == SaleLines(t) \cup {d} \cup OrderRows
  <2>1. OnlyDiffers(t, D)
    BY <1>3 DEF OnlyDiffers
  <2>2. \A s \in Sales \ {d} : s \in Documents /\ s \notin D
    <3>1. \A s \in Sales \ {d} : s \in Documents /\ s \notin OrderRows
      BY OrderRowsAre, NamesDiffer
    <3>2. \A s \in Documents : s \notin SaleLines(t)
      BY <1>2, NamesDiffer DEF SaleLines
    <3>3. QED
      BY <3>1, <3>2
  <2>3. \A s \in Sales \ {d}, i \in Items : << s, i >> \notin D
    <3>1. \A s \in Sales \ {d}, i \in Items : << s, i >> \notin OrderRows
      BY OrderRowsAre
    <3>2. \A s \in Sales \ {d}, i \in Items : << s, i >> \notin SaleLines(t)
      BY DEF SaleLines
    <3>3. \A s \in Sales \ {d}, i \in Items : << s, i >> # d
      BY <1>2, LinesApart
    <3>4. QED
      BY <3>1, <3>2, <3>3
  <2> HIDE DEF D
  <2>4. /\ \A s \in Sales \ {d} : U[s] = table[s]
        /\ \A s \in Sales \ {d}, i \in Items : U[<< s, i >>] = table[<< s, i >>]
    BY <2>1, <2>2, <2>3, OthersSeen, NamesDiffer
  <2> HIDE DEF U, d
  <2>5. QED
    BY <2>4 DEF OthersKept
<1>7. /\ U[d].linked = table[d].linked
      /\ U[d].situation = SituationOf(LinesIn(U, d))
      /\ SomeReturned(U, d) => U[d].status = StatusOfSituation(SituationOf(LinesIn(U, d)))
  <2>1. SaleLinesSeen(t) = LinesIn(U, d)
    BY <1>2, ViewSaleLines
  <2>2. QED
    BY <1>3, <1>4, <2>1 DEF SituationWritten, SaleSeen, SomeReturned
<1>8. \A i \in Items : /\ U[<< d, i >>] # Absent <=> table[<< d, i >>] # Absent
                       /\ table[<< d, i >>] # Absent =>
                            U[<< d, i >>].quantity = table[<< d, i >>].quantity
  BY <1>2, <1>5, LinesSeen
<1>9. ReturnedAre(table, U, d, request[t].returns, request[t].asked)
  <2> SUFFICES ASSUME NEW i \in Items, table[<< d, i >>] # Absent
               PROVE  U[<< d, i >>].returned = table[<< d, i >>].returned
                        + IF \E r \in request[t].returns : r.item = i THEN request[t].asked[i] ELSE 0
    BY <1>8 DEF ReturnedAre
  <2>1. LineSeen(t, d, i).returned = table[<< d, i >>].returned
                + IF LineWritten(t, i) THEN request[t].asked[i] ELSE 0
    BY <1>3 DEF ReturnWrote, RowsWritten, RowsAhead, LinesReturned
  <2>2. LineWritten(t, i) <=> \E r \in request[t].returns : r.item = i
    BY DEF LineWritten
  <2> HIDE DEF U, d
  <2>3. QED
    BY <1>5, <2>1, <2>2
<1>10. RowsOf(returns, request[t].returns, d, request[t].asked)
  BY <1>3 DEF RowsOf, ReturnWrote, RowsWritten, RowsAhead, LinesReturned
<1>11. /\ returns \subseteq ReturnRows /\ IsFiniteSet(returns)
       /\ request[t].returns \subseteq ReturnRows /\ IsFiniteSet(request[t].returns)
  BY RequestOf, OtherAt DEF OrderTyped
<1>12. U[Order] = Seen(t, Order) /\ \A i \in Items : U[<< Order, i >>] = LineSeen(t, Order, i)
  BY ViewDocuments, ViewLines, NamesDiffer
<1>13. \A s \in Sales, i \in Items :
          /\ table[<< s, i >>] # Absent => U[<< s, i >>] # Absent
          /\ table[<< s, i >>] = Absent => U[<< s, i >>] = Absent
  <2> SUFFICES ASSUME NEW s \in Sales, NEW i \in Items
               PROVE  U[<< s, i >>] # Absent <=> table[<< s, i >>] # Absent
    OBVIOUS
  <2> HIDE DEF U, d
  <2>1. CASE s = d
    BY <1>8, <2>1
  <2>2. CASE s # d
    BY <1>6, <2>2 DEF OthersKept
  <2>3. QED
    BY <2>1, <2>2
<1>14. QuantitiesKept(table, U)
  <2>1. \A s \in Sales, i \in Items : QuantityAt(U, s, i) = QuantityAt(table, s, i)
    BY <1>13, QuantitySeen
  <2> HIDE DEF U, d
  <2>2. QED
    BY <1>13, <2>1 DEF QuantitiesKept
<1>15. DocumentsKept(table, U)
  <2> HIDE DEF U, d
  <2> SUFFICES ASSUME NEW s \in Sales
               PROVE  /\ U[s] # Absent <=> table[s] # Absent
                      /\ table[s] # Absent => U[s].linked = table[s].linked
    BY DEF DocumentsKept
  <2>1. CASE s = d
    BY <1>2, <1>4, <1>7, <2>1
  <2>2. CASE s # d
    BY <1>6, <2>2 DEF OthersKept
  <2>3. QED
    BY <2>1, <2>2
<1>16. LiveIn(U) \subseteq LiveIn(table) /\ LiveIn(table) \subseteq LiveIn(U) \cup {d}
       /\ (U[d].status = "CANCELADA" => d \notin LiveIn(U))
       /\ (table[d].linked => d \in LiveIn(table))
  <2> HIDE DEF U
  <2>1. \A s \in Sales : s # d => (s \in LiveIn(U) <=> s \in LiveIn(table))
    BY <1>6 DEF LiveIn, GeneratedIn, OthersKept
  <2>2. d \in LiveIn(U) => d \in LiveIn(table)
    BY <1>2, <1>3, <1>7 DEF LiveIn, GeneratedIn
  <2>3. U[d].status = "CANCELADA" => d \notin LiveIn(U)
    BY DEF LiveIn
  <2>4. table[d].linked => d \in LiveIn(table)
    BY <1>2, <1>3 DEF LiveIn, GeneratedIn
  <2>5. LiveIn(U) \subseteq Sales /\ LiveIn(table) \subseteq Sales
    BY DEF LiveIn, GeneratedIn
  <2> HIDE DEF d
  <2>6. QED
    BY <2>1, <2>2, <2>3, <2>4, <2>5
<1>17. ASSUME OnlyDiffers(t, SaleLines(t) \cup {d})
       PROVE  ConvertedAgrees(U)
  <2> DEFINE D == SaleLines(t) \cup {d}
  <2>1. Order \notin D /\ \A i \in Items : << Order, i >> \notin D
    <3>1. Order \notin SaleLines(t)
      BY <1>2, NamesDiffer DEF SaleLines
    <3>2. \A i \in Items : << Order, i >> \notin SaleLines(t) /\ << Order, i >> # d
      BY <1>2, NamesDiffer DEF SaleLines
    <3>3. QED
      BY <1>2, <3>1, <3>2
  <2>2. OnlyDiffers(t, D)
    BY <1>17
  <2> HIDE DEF D
  <2>3. U[Order] = table[Order] /\ \A i \in Items : U[<< Order, i >>] = table[<< Order, i >>]
    BY <2>1, <2>2, OthersSeen, NamesDiffer
  <2> HIDE DEF U, d
  <2>4. \A i \in Items : U[<< Order, i >>].converted = table[<< Order, i >>].converted
    BY <2>3
  <2>5. OrderKept(table, U)
    <3>1. table[Order].status = "CANCELADA" => LiveIn(table) = {}
      BY <1>1 DEF ConvertedAgrees
    <3>2. U[Order] = table[Order]
      BY <2>3
    <3>3. QED
      BY <1>16, <3>1, <3>2 DEF OrderKept
  <2>6. LiveIn(U) \subseteq LiveIn(table)
    BY <1>16
  <2>7. QED
    BY <1>1, <1>14, <1>15, <2>4, <2>5, <2>6, ConvertedKept
<1>18. ASSUME Reopening(t), GivesBack(t), Seen(t, Order).type = table[Order].type,
              Seen(t, Order).status = StatusOf(OrderLines(t))
       PROVE  ConvertedAgrees(U)
  <2>1. Loses(table, U, d)
    <3>1. table[d].linked /\ U[d].status = "CANCELADA"
      BY <1>4, <1>18 DEF Reopening, SaleSeen
    <3> HIDE DEF U, d
    <3>2. QED
      BY <1>16, <3>1 DEF Loses
  <2>2. TakenBack(table, U, d)
    <3>1. \A i \in Items : LineSeen(t, Order, i).converted
                >= table[<< Order, i >>].converted - QuantityAt(table, d, i)
      BY <1>18 DEF GivesBack
    <3>2. \A i \in Items : U[<< Order, i >>] = LineSeen(t, Order, i)
      BY <1>12
    <3> HIDE DEF U, d
    <3>3. QED
      BY <3>1, <3>2 DEF TakenBack
  <2>3. OfWorkOrder(U)
    BY <1>12, <1>18 DEF OfWorkOrder, Reopening, FromWorkOrder
  <2>4. FollowsLines(U)
    <3>1. OrderLines(t) = [i \in Items |-> U[<< Order, i >>]]
      BY ViewOrderLines
    <3>2. QED
      BY <1>12, <1>18, <3>1 DEF FollowsLines
  <2> HIDE DEF U, d
  <2>5. QED
    BY <1>1, <1>14, <1>15, <2>1, <2>2, <2>3, <2>4, ConvertedGivenBack
<1>19. ConvertedAgrees(U)
  BY <1>3, <1>17, <1>18
<1>20. SituationAgrees(U, d)
  BY <1>7 DEF SituationAgrees
<1>21. ReturnedAgrees(U, returns \cup request[t].returns)
  <2> HIDE DEF U, d
  <2>1. QED
    BY <1>1, <1>2, <1>4, <1>6, <1>9, <1>10, <1>11, <1>20, ReturnedMore
<1>22. QED
  BY <1>19, <1>21 DEF CommitAgrees, Agrees

-----------------------------------------------------------------------------
\* What is known of a transaction that does not move.
LEMMA SameView ==
    ASSUME NEW t \in Transactions, table' = table, \A r : Seen(t, r)' = Seen(t, r)
    PROVE  /\ Differs(t)' = Differs(t)
           /\ \A d, i : LineSeen(t, d, i)' = LineSeen(t, d, i)
           /\ OrderLines(t)' = OrderLines(t)
           /\ FromWorkOrder' = FromWorkOrder
           /\ request'[t].sale = request[t].sale =>
                SaleSeen(t)' = SaleSeen(t) /\ SaleLinesSeen(t)' = SaleLinesSeen(t)
<1>1. \A d, i : LineSeen(t, d, i)' = LineSeen(t, d, i)
  BY DEF LineSeen
<1>2. Differs(t)' = Differs(t)
  BY DEF Differs
<1>3. OrderLines(t)' = OrderLines(t)
  BY <1>1 DEF OrderLines
<1>4. ASSUME request'[t].sale = request[t].sale
      PROVE  SaleSeen(t)' = SaleSeen(t) /\ SaleLinesSeen(t)' = SaleLinesSeen(t)
  <2>1. SaleSeen(t)' = SaleSeen(t)
    BY <1>4 DEF SaleSeen
  <2>2. ItemsOf(t, request[t].sale)' = ItemsOf(t, request[t].sale)
    BY <1>1, <1>4 DEF ItemsOf
  <2>3. SaleLinesSeen(t)' = SaleLinesSeen(t)
    BY <1>1, <1>4, <2>2 DEF SaleLinesSeen
  <2>4. QED
    BY <2>1, <2>3
<1>5. QED
  BY <1>1, <1>2, <1>3, <1>4 DEF FromWorkOrder

LEMMA SerialSame ==
    ASSUME NEW t \in Transactions, SerialKnown(t), table' = table, returns' = returns,
           step'[t] = step[t], request'[t] = request[t], draft'[t] = draft[t]
    PROVE  SerialKnown(t)'
<1>1. \A r : Seen(t, r)' = Seen(t, r)
  BY DEF Seen
<1>2. /\ Differs(t)' = Differs(t)
      /\ \A d, i : LineSeen(t, d, i)' = LineSeen(t, d, i)
      /\ OrderLines(t)' = OrderLines(t) /\ FromWorkOrder' = FromWorkOrder
      /\ SaleSeen(t)' = SaleSeen(t) /\ SaleLinesSeen(t)' = SaleLinesSeen(t)
  BY <1>1, SameView
<1>3. ConversionSerial(t) => ConversionSerial(t)'
  <2>1. Inserted(t) => Inserted(t)'
    BY <1>1, <1>2 DEF Inserted, OnlyDiffers
  <2>2. QED
    BY <1>1, <1>2, <2>1 DEF ConversionSerial, OnlyDiffers
<1>4. PatchSerial(t) => PatchSerial(t)'
  BY <1>1, <1>2 DEF PatchSerial, OnlyDiffers
<1>5. CancelSerial(t) => CancelSerial(t)'
  BY <1>1, <1>2 DEF CancelSerial, OnlyDiffers
<1>6. EstornoSerial(t) => EstornoSerial(t)'
  <2>1. Undoing(t) => Undoing(t)'
    <3>1. \A s, i : LineKept(t, s, i) => LineKept(t, s, i)'
      BY <1>2 DEF LineKept
    <3>2. /\ Seen(t, Order)' = Seen(t, Order) /\ GeneratedIn(table)' = GeneratedIn(table)
          /\ \A s \in Sales : Seen(t, s)' = Seen(t, s)
      BY <1>1 DEF GeneratedIn
    <3>3. QED
      BY <3>1, <3>2 DEF Undoing
  <2>2. QED
    BY <1>1, <1>2, <2>1 DEF EstornoSerial, OnlyDiffers
<1>7. ReturnSerial(t) => ReturnSerial(t)'
  <2>1. ReturnWrote(t) => ReturnWrote(t)'
    BY <1>1, <1>2 DEF ReturnWrote, RowsWritten, RowsAhead, LinesReturned, LineWritten
  <2>2. AskedAll(t) => AskedAll(t)'
    BY DEF AskedAll
  <2>3. SituationWritten(t) => SituationWritten(t)'
    BY <1>1, <1>2 DEF SituationWritten
  <2>4. GivesBack(t) => GivesBack(t)'
    BY <1>1, <1>2 DEF GivesBack
  <2>5. Reopening(t) => Reopening(t)'
    BY <1>1, <1>2 DEF Reopening
  <2>6. SaleLines(t)' = SaleLines(t)
    BY DEF SaleLines
  <2>7. QED
    BY <1>1, <1>2, <2>1, <2>2, <2>3, <2>4, <2>5, <2>6 DEF ReturnSerial, OnlyDiffers
<1>8. QED
  BY <1>3, <1>4, <1>5, <1>6, <1>7 DEF SerialKnown

\* What a transaction that moves leaves to show.
LEMMA SerialQuiet ==
    ASSUME OrderSerialInv, overlapped = "none", NEW t \in Transactions, Quiet(t),
           InProgress(t)' => SerialKnown(t)'
    PROVE  OrderSerialInv'
<1>1. ASSUME NEW u \in Transactions, InProgress(u)'
      PROVE  SerialKnown(u)'
  <2>1. CASE u # t
    <3>1. step'[u] = step[u] /\ request'[u] = request[u] /\ draft'[u] = draft[u]
          /\ table' = table /\ returns' = returns
      BY <2>1 DEF Quiet
    <3>2. SerialKnown(u)
      BY <1>1, <3>1 DEF OrderSerialInv, InProgress
    <3>3. QED
      BY <3>1, <3>2, SerialSame
  <2>2. QED
    BY <1>1, <2>1
<1>2. table' = table /\ returns' = returns /\ overlapped' = overlapped
  BY DEF Quiet
<1>3. (ConvertedAgrees(table) /\ ReturnedAgrees(table, returns))'
  BY <1>2 DEF OrderSerialInv
<1>4. QED
  BY <1>1, <1>3 DEF OrderSerialInv

LEMMA ReadsView ==
    ASSUME OrderTyped, NEW t \in Transactions, Read, NEW q, NEW s,
           request' = [request EXCEPT ![t] = q], step' = [step EXCEPT ![t] = s]
    PROVE  /\ Quiet(t) /\ request'[t] = q /\ step'[t] = s /\ table' = table /\ returns' = returns
           /\ \A r : Seen(t, r)' = Seen(t, r)
           /\ Differs(t)' = Differs(t)
           /\ \A d, i : LineSeen(t, d, i)' = LineSeen(t, d, i)
           /\ OrderLines(t)' = OrderLines(t) /\ FromWorkOrder' = FromWorkOrder
           /\ q.sale = request[t].sale =>
                SaleSeen(t)' = SaleSeen(t) /\ SaleLinesSeen(t)' = SaleLinesSeen(t)
<1>1. /\ Quiet(t) /\ request'[t] = q /\ step'[t] = s /\ \A r : Seen(t, r)' = Seen(t, r)
  BY Reads
<1>2. table' = table /\ returns' = returns
  BY DEF Read
<1>3. QED
  BY <1>1, <1>2, SameView

LEMMA WritesView ==
    ASSUME OrderTyped, NEW t \in Transactions, NEW f, WriteRows(t, f), NEW q, NEW s,
           request' = [request EXCEPT ![t] = q], step' = [step EXCEPT ![t] = s]
    PROVE  /\ Quiet(t) /\ request'[t] = q /\ step'[t] = s /\ table' = table /\ returns' = returns
           /\ \A r : Seen(t, r)' = IF r \in DOMAIN f THEN f[r] ELSE Seen(t, r)
           /\ Differs(t)' \subseteq Differs(t) \cup DOMAIN f
           /\ FromWorkOrder' = FromWorkOrder
<1>1. /\ Quiet(t) /\ request'[t] = q /\ step'[t] = s
      /\ \A r : Seen(t, r)' = IF r \in DOMAIN f THEN f[r] ELSE Seen(t, r)
  BY Writes
<1>2. table' = table /\ returns' = returns
  BY DEF WriteRows
<1>3. Differs(t)' \subseteq Differs(t) \cup DOMAIN f
  BY <1>1, <1>2 DEF Differs
<1>4. QED
  BY <1>1, <1>2, <1>3 DEF FromWorkOrder

\* Writing rows of S only: what t sees of the others.
LEMMA WritesElsewhere ==
    ASSUME NEW t \in Transactions, NEW f,
           \A r : Seen(t, r)' = IF r \in DOMAIN f THEN f[r] ELSE Seen(t, r)
    PROVE  /\ \A r : r \notin DOMAIN f => Seen(t, r)' = Seen(t, r)
           /\ \A d, i : << d, i >> \notin DOMAIN f => LineSeen(t, d, i)' = LineSeen(t, d, i)
           /\ (\A i \in Items : << Order, i >> \notin DOMAIN f) =>
                OrderLines(t)' = OrderLines(t)
<1>1. \A d, i : << d, i >> \notin DOMAIN f => LineSeen(t, d, i)' = LineSeen(t, d, i)
  BY DEF LineSeen
<1>2. QED
  BY <1>1 DEF OrderLines

-----------------------------------------------------------------------------
\* One step after another, for each kind of request.
LEMMA SerialAt ==
    ASSUME OrderSerialInv, overlapped = "none", NEW t \in Transactions, InProgress(t)
    PROVE  /\ ConvertedAgrees(table) /\ ReturnedAgrees(table, returns)
           /\ request[t].kind \in Conversions => ConversionSerial(t)
           /\ request[t].kind = "patch" => PatchSerial(t)
           /\ request[t].kind \in {"partial", "full"} => ReturnSerial(t)
           /\ request[t].kind = "estorno" => EstornoSerial(t)
           /\ request[t].kind = "cancelOs" => CancelSerial(t)
BY DEF OrderSerialInv, SerialKnown

LEMMA SerialMoves ==
    ASSUME OrderSerialInv, overlapped = "none", NEW t \in Transactions, Quiet(t), NEW q,
           request'[t] = q,
           \/ q.kind \in Conversions /\ ConversionSerial(t)'
           \/ q.kind = "patch" /\ PatchSerial(t)'
           \/ q.kind \in {"partial", "full"} /\ ReturnSerial(t)'
           \/ q.kind = "estorno" /\ EstornoSerial(t)'
           \/ q.kind = "cancelOs" /\ CancelSerial(t)'
    PROVE  OrderSerialInv'
<1>1. SerialKnown(t)'
  BY KindsDiffer DEF SerialKnown
<1>2. QED
  BY <1>1, SerialQuiet

\* A transaction that has written nothing sees the table.
LEMMA NothingWritten ==
    ASSUME NEW t \in Transactions, DOMAIN draft[t] = {}
    PROVE  Differs(t) = {}
BY DEF Differs, Seen

LEMMA OpenSerial ==
    ASSUME OrderTyped, OrderSerialInv, overlapped = "none", NEW t \in Transactions, Open(t)
    PROVE  OrderSerialInv'
<1>1. /\ step[t] = "new" /\ Read
  BY DEF Open, AtStep
<1>2. draft[t] = NoRows /\ DOMAIN NoRows = {}
  BY <1>1, RequestOf DEF Knows, NoRows
<1>3. PICK kind, d, a, s :
        /\ kind \in Conversions \cup {"patch", "partial", "full", "estorno", "cancelOs"}
        /\ Request(t, kind, d, a, s)
        /\ kind \in Conversions => a \in Asks /\ s \in {"ABERTA", "FINALIZADA"}
        /\ kind = "patch" => s \in {"FINALIZADA", "CANCELADA"}
        /\ kind = "cancelOs" => s = "CANCELADA"
  BY KindsDiffer DEF Open
<1> DEFINE q == [NoRequest EXCEPT !.kind = kind, !.sale = d, !.asked = a, !.status = s]
<1>4. request' = [request EXCEPT ![t] = q] /\ step' = [step EXCEPT ![t] = "read"]
  BY <1>3 DEF Request, GoTo
<1>5. q.kind = kind /\ q.status = s /\ q.asked = a /\ q.returns = {}
  BY DEF NoRequest
<1> HIDE DEF q
<1>6. /\ Quiet(t) /\ request'[t] = q /\ step'[t] = "read" /\ Differs(t)' = Differs(t)
  BY <1>1, <1>4, ReadsView
<1>7. Differs(t)' = {}
  BY <1>2, <1>6, NothingWritten
<1>8. CASE kind \in Conversions
  <2>1. \E i \in Items : q.asked[i] > 0
    BY <1>3, <1>5, <1>8, OrderAssumption
  <2>2. ConversionSerial(t)'
    BY <1>3, <1>5, <1>6, <1>7, <1>8, <2>1 DEF ConversionSerial, OnlyDiffers
  <2>3. QED
    BY <1>5, <1>6, <1>8, <2>2, SerialMoves
<1>9. CASE kind = "patch"
  <2>1. PatchSerial(t)'
    BY <1>3, <1>5, <1>6, <1>7, <1>9 DEF PatchSerial, OnlyDiffers
  <2>2. QED
    BY <1>5, <1>6, <1>9, <2>1, SerialMoves
<1>10. CASE kind \in {"partial", "full"}
  <2>1. ReturnSerial(t)'
    BY <1>5, <1>6, <1>7, <1>10 DEF ReturnSerial, OnlyDiffers, Returning
  <2>2. QED
    BY <1>5, <1>6, <1>10, <2>1, SerialMoves
<1>11. CASE kind = "estorno"
  <2>1. EstornoSerial(t)'
    BY <1>5, <1>6, <1>7, <1>11 DEF EstornoSerial, OnlyDiffers
  <2>2. QED
    BY <1>5, <1>6, <1>11, <2>1, SerialMoves
<1>12. CASE kind = "cancelOs"
  <2>1. CancelSerial(t)'
    BY <1>3, <1>5, <1>6, <1>7, <1>12 DEF CancelSerial, OnlyDiffers
  <2>2. QED
    BY <1>5, <1>6, <1>12, <2>1, SerialMoves
<1>13. QED
  BY <1>3, <1>8, <1>9, <1>10, <1>11, <1>12

\* A conversion, up to the number it takes.
LEMMA ConversionReadsSerial ==
    ASSUME OrderTyped, OrderSerialInv, overlapped = "none", NEW t \in Transactions,
           ReadToConvert(t) \/ ReadLines(t) \/ TakeNumber(t)
    PROVE  OrderSerialInv'
<1> DEFINE k == request[t].kind
<1>1. /\ request[t] \in RequestRows /\ request = [request EXCEPT ![t] = request[t]]
  BY DEF OrderTyped
<1>2. CASE ReadToConvert(t)
  <2>1. /\ step[t] = "read" /\ step' = [step EXCEPT ![t] = "lines"] /\ Read
        /\ request' = [request EXCEPT ![t] = request[t]] /\ k \in Conversions
    BY <1>1, <1>2 DEF ReadToConvert, AtStep, GoTo, Conversions
  <2>2. ConversionSerial(t)
    BY <2>1, SerialAt DEF InProgress
  <2>3. /\ Quiet(t) /\ request'[t] = request[t] /\ step'[t] = "lines" /\ Differs(t)' = Differs(t)
    BY <2>1, ReadsView
  <2>4. ConversionSerial(t)'
    BY <2>1, <2>2, <2>3 DEF ConversionSerial, OnlyDiffers
  <2>5. QED
    BY <2>1, <2>3, <2>4, SerialMoves
<1>3. CASE ReadLines(t)
  <2> DEFINE q == [request[t] EXCEPT !.seen = [i \in Items |-> table[<< Order, i >>].converted]]
  <2>1. /\ step[t] = "lines" /\ step' = [step EXCEPT ![t] = "number"] /\ Read
        /\ request' = [request EXCEPT ![t] = q]
    BY <1>3 DEF ReadLines, AtStep, GoTo
  <2>2. /\ q.kind = k /\ q.status = request[t].status /\ q.asked = request[t].asked
        /\ q.returns = request[t].returns
        /\ \A i \in Items : q.seen[i] = table[<< Order, i >>].converted
    BY <1>1 DEF RequestRows
  <2> HIDE DEF q
  <2>3. k \in Conversions
    BY <2>1, KindOfStep
  <2>4. ConversionSerial(t)
    BY <2>1, <2>3, SerialAt DEF InProgress
  <2>5. /\ Quiet(t) /\ request'[t] = q /\ step'[t] = "number" /\ Differs(t)' = Differs(t)
        /\ table' = table
    BY <2>1, ReadsView
  <2>6. ConversionSerial(t)'
    BY <2>1, <2>2, <2>4, <2>5 DEF ConversionSerial, OnlyDiffers
  <2>7. QED
    BY <2>2, <2>3, <2>5, <2>6, SerialMoves
<1>4. CASE TakeNumber(t)
  <2> DEFINE f == One(Sequence, table[Sequence] + 1)
  <2>1. /\ step[t] = "number" /\ step' = [step EXCEPT ![t] = "insert"] /\ WriteRows(t, f)
        /\ request' = [request EXCEPT ![t] = request[t]]
    BY <1>1, <1>4 DEF TakeNumber, NextOrderNumber, AtStep, GoTo
  <2>2. DOMAIN f = {Sequence}
    BY OneIs
  <2> HIDE DEF f
  <2>3. k \in Conversions
    BY <2>1, KindOfStep
  <2>4. ConversionSerial(t)
    BY <2>1, <2>3, SerialAt DEF InProgress
  <2>5. /\ Quiet(t) /\ request'[t] = request[t] /\ step'[t] = "insert"
        /\ Differs(t)' \subseteq Differs(t) \cup DOMAIN f /\ table' = table
    BY <2>1, WritesView
  <2>6. Differs(t)' \subseteq {Sequence}
    BY <2>1, <2>2, <2>4, <2>5 DEF ConversionSerial, OnlyDiffers
  <2>7. ConversionSerial(t)'
    BY <2>1, <2>4, <2>5, <2>6 DEF ConversionSerial, OnlyDiffers
  <2>8. QED
    BY <2>3, <2>5, <2>7, SerialMoves
<1>5. QED
  BY <1>2, <1>3, <1>4

\* Outside the rows it differs in, t sees those that are committed.
LEMMA SeenElsewhere ==
    ASSUME NEW t \in Transactions, NEW D, OnlyDiffers(t, D)
    PROVE  /\ \A d \in Documents : d \notin D => Seen(t, d) = table[d]
           /\ \A d \in Documents, i \in Items :
                << d, i >> \notin D => LineSeen(t, d, i) = table[<< d, i >>]
<1>1. \A r \in RowNames : r \notin D => Seen(t, r) = table[r]
  BY DEF OnlyDiffers, Differs
<1>2. QED
  BY <1>1, NamesDiffer DEF LineSeen

LEMMA InsertDocumentSerial ==
    ASSUME OrderTyped, OrderSerialInv, overlapped = "none", NEW t \in Transactions, InsertDocument(t)
    PROVE  OrderSerialInv'
<1> DEFINE a == request[t].asked
           f == IF request[t].kind = "budgetToOs" THEN OrderOf(t, request[t].status, a)
                ELSE SaleOf(t, request[t].status, a)
           q == [request[t] EXCEPT !.todo = {i \in Items : a[i] > 0}]
<1>1. /\ step[t] = "insert" /\ step' = [step EXCEPT ![t] = "convert"] /\ WriteRows(t, f)
      /\ request' = [request EXCEPT ![t] = q] /\ request[t] \in RequestRows
  BY DEF InsertDocument, AtStep, GoTo, OrderTyped
<1>2. /\ q.kind = request[t].kind /\ q.status = request[t].status /\ q.asked = a
      /\ q.returns = request[t].returns /\ q.seen = request[t].seen
      /\ q.todo = {i \in Items : a[i] > 0}
  BY <1>1 DEF RequestRows
<1>3. request[t].kind \in Conversions /\ t \in Sales /\ t \in Documents /\ a \in Amounts
  BY <1>1, KindOfStep, NamesDiffer, RequestOf
<1>4. GeneratedAs(f, t, request[t].status, a)
  BY <1>3, GeneratedRows, RequestOf
<1> HIDE DEF f, q
<1>5. ConversionSerial(t)
  BY <1>1, <1>3, SerialAt DEF InProgress
<1>6. /\ Quiet(t) /\ request'[t] = q /\ step'[t] = "convert" /\ table' = table
      /\ \A r : Seen(t, r)' = IF r \in DOMAIN f THEN f[r] ELSE Seen(t, r)
      /\ Differs(t)' \subseteq Differs(t) \cup DOMAIN f
  BY <1>1, WritesView
<1>7. OnlyDiffers(t, {Sequence}) /\ request[t].status \in {"ABERTA", "FINALIZADA"}
  BY <1>1, <1>5 DEF ConversionSerial
<1>8. \A r : r \in DOMAIN f <=> r = t \/ \E i \in Items : a[i] > 0 /\ r = << t, i >>
  BY <1>4 DEF GeneratedAs
<1>9. \A i \in Items : LineSeen(t, t, i) = Absent
  <2>1. \A i \in Items : table[<< t, i >>] = Absent /\ << t, i >> \notin {Sequence}
    BY <1>3, ConversionAt, OwnIs, NamesDiffer
  <2>2. QED
    BY <1>3, <1>7, <2>1, SeenElsewhere
<1>10. \A i \in Items : a[i] = 0 => LineSeen(t, t, i)' = Absent
  <2> SUFFICES ASSUME NEW i \in Items, a[i] = 0 PROVE LineSeen(t, t, i)' = Absent
    OBVIOUS
  <2>1. << t, i >> \notin DOMAIN f
    BY <1>3, <1>8, NamesDiffer
  <2>2. QED
    BY <1>6, <1>9, <2>1 DEF LineSeen
<1>11. \A i \in Items : a[i] > 0 =>
          /\ LineSeen(t, t, i)' # Absent
          /\ LineSeen(t, t, i)'.quantity = a[i] /\ LineSeen(t, t, i)'.returned = 0
  <2> SUFFICES ASSUME NEW i \in Items, a[i] > 0
               PROVE  /\ LineSeen(t, t, i)' # Absent
                      /\ LineSeen(t, t, i)'.quantity = a[i] /\ LineSeen(t, t, i)'.returned = 0
    OBVIOUS
  <2>1. << t, i >> \in DOMAIN f
    BY <1>8
  <2>2. LineSeen(t, t, i)' = f[<< t, i >>]
    BY <1>6, <2>1 DEF LineSeen
  <2>3. f[<< t, i >>] \in LinesFor(t, i) /\ f[<< t, i >>].quantity = a[i]
        /\ f[<< t, i >>].returned = 0
    BY <1>4 DEF GeneratedAs
  <2>4. f[<< t, i >>] # Absent
    BY <2>3, RowsDiffer DEF LinesFor
  <2>5. QED
    BY <2>2, <2>3, <2>4
<1>12. Seen(t, t)' # Absent /\ Seen(t, t)'.linked /\ Seen(t, t)'.status # "CANCELADA"
  <2>1. f[t] \in DocumentRows /\ f[t].linked = TRUE /\ f[t].status = request[t].status
    BY <1>4 DEF GeneratedAs
  <2>2. Seen(t, t)' = f[t]
    BY <1>6, <1>8
  <2>3. f[t] # Absent
    BY <2>1, RowsDiffer
  <2>4. QED
    BY <1>7, <2>1, <2>2, <2>3
<1>13. Seen(t, Order)' = table[Order]
       /\ \A i \in Items : LineSeen(t, Order, i)' = table[<< Order, i >>]
  <2>1. Order \notin DOMAIN f /\ \A i \in Items : << Order, i >> \notin DOMAIN f
    BY <1>3, <1>8, NamesDiffer
  <2>2. Seen(t, Order)' = Seen(t, Order)
        /\ \A i \in Items : LineSeen(t, Order, i)' = LineSeen(t, Order, i)
    BY <1>6, <2>1 DEF LineSeen
  <2>3. Seen(t, Order) = table[Order]
        /\ \A i \in Items : LineSeen(t, Order, i) = table[<< Order, i >>]
    BY <1>7, SeenElsewhere, NamesDiffer
  <2>4. QED
    BY <2>2, <2>3
<1>14. \A i \in Items : LineSeen(t, Order, i)'.converted
                          = table[<< Order, i >>].converted + IF i \in q.todo THEN 0 ELSE a[i]
  <2> SUFFICES ASSUME NEW i \in Items
               PROVE  table[<< Order, i >>].converted
                        = table[<< Order, i >>].converted + IF i \in q.todo THEN 0 ELSE a[i]
    BY <1>13
  <2>1. table[<< Order, i >>].converted \in Nat
    BY TypedRows DEF OrderTyped, LinesFor, LineRows
  <2>2. i \in q.todo \/ a[i] = 0
    BY <1>2, <1>3 DEF Amounts
  <2>3. QED
    BY <2>1, <2>2
<1>15. Differs(t)' \subseteq {Sequence} \cup Own(t) \cup OrderRows
  <2>1. Differs(t) \subseteq {Sequence}
    BY <1>7 DEF OnlyDiffers
  <2>2. DOMAIN f \subseteq Own(t)
    BY <1>8, OwnIs
  <2>3. QED
    BY <1>6, <2>1, <2>2
<1> HIDE DEF a
<1>16. Inserted(t)'
  BY <1>2, <1>6, <1>10, <1>11, <1>12, <1>13, <1>14, <1>15 DEF Inserted, OnlyDiffers, a
<1>17. \E i \in Items : a[i] > 0
  BY <1>5 DEF ConversionSerial, a
<1>18. ConversionSerial(t)'
  BY <1>1, <1>2, <1>5, <1>6, <1>16, <1>17 DEF ConversionSerial
<1>19. QED
  BY <1>2, <1>3, <1>6, <1>18, SerialMoves

LEMMA ConvertLineSerial ==
    ASSUME OrderTyped, OrderSerialInv, overlapped = "none", NEW t \in Transactions, ConvertLine(t)
    PROVE  OrderSerialInv'
<1>1. PICK i \in request[t].todo :
        /\ WriteRows(t, One(<< Order, i >>, [LineSeen(t, Order, i) EXCEPT
                        !.converted = request[t].seen[i] + request[t].asked[i]]))
        /\ request' = [request EXCEPT ![t].todo = @ \ {i}]
  BY DEF ConvertLine
<1> DEFINE row == [LineSeen(t, Order, i) EXCEPT
                        !.converted = request[t].seen[i] + request[t].asked[i]]
           f == One(<< Order, i >>, row)
           q == [request[t] EXCEPT !.todo = @ \ {i}]
<1>2. /\ step[t] = "convert" /\ step' = [step EXCEPT ![t] = "convert"] /\ WriteRows(t, f)
      /\ request' = [request EXCEPT ![t] = q] /\ request[t] \in RequestRows
  BY <1>1 DEF ConvertLine, AtStep, OrderTyped
<1>3. /\ request[t].kind \in Conversions /\ t \in Sales /\ t \in Documents /\ t # Order
      /\ request[t].todo \subseteq Items
  BY <1>2, KindOfStep, NamesDiffer, ConversionAt DEF ConversionKnows
<1>4. /\ q.kind = request[t].kind /\ q.status = request[t].status
      /\ q.asked = request[t].asked /\ q.returns = request[t].returns
      /\ q.seen = request[t].seen /\ q.todo = request[t].todo \ {i}
  BY <1>2 DEF RequestRows
<1>5. i \in Items
  BY <1>1, <1>3
<1>6. row.converted = request[t].seen[i] + request[t].asked[i]
  BY <1>5, SeenDocuments DEF LinesFor, LineRows
<1>7. DOMAIN f = {<< Order, i >>} /\ f[<< Order, i >>] = row
  BY OneIs
<1> HIDE DEF f, q, row
<1>8. ConversionSerial(t)
  BY <1>2, <1>3, SerialAt DEF InProgress
<1>9. /\ Quiet(t) /\ request'[t] = q /\ step'[t] = "convert" /\ table' = table
      /\ \A r : Seen(t, r)' = IF r \in DOMAIN f THEN f[r] ELSE Seen(t, r)
      /\ Differs(t)' \subseteq Differs(t) \cup DOMAIN f
  BY <1>2, WritesView
<1>10. Inserted(t) /\ request[t].seen[i] = table[<< Order, i >>].converted
  BY <1>2, <1>5, <1>8 DEF ConversionSerial
<1>11. /\ Seen(t, t)' = Seen(t, t) /\ Seen(t, Order)' = Seen(t, Order)
       /\ \A j \in Items : LineSeen(t, t, j)' = LineSeen(t, t, j)
       /\ \A j \in Items : j # i => LineSeen(t, Order, j)' = LineSeen(t, Order, j)
  <2>1. t \notin DOMAIN f /\ Order \notin DOMAIN f
    BY <1>3, <1>5, <1>7, NamesDiffer
  <2>2. \A j \in Items : << t, j >> \notin DOMAIN f /\ (j # i => << Order, j >> \notin DOMAIN f)
    BY <1>3, <1>7
  <2>3. QED
    BY <1>9, <2>1, <2>2 DEF LineSeen
<1>12. LineSeen(t, Order, i)' = row
  BY <1>7, <1>9 DEF LineSeen
<1>13. \A j \in Items : LineSeen(t, Order, j)'.converted
         = table[<< Order, j >>].converted + IF j \in q.todo THEN 0 ELSE q.asked[j]
  <2> SUFFICES ASSUME NEW j \in Items
               PROVE  LineSeen(t, Order, j)'.converted
                        = table[<< Order, j >>].converted + IF j \in q.todo THEN 0 ELSE q.asked[j]
    OBVIOUS
  <2>1. CASE j = i
    BY <1>4, <1>6, <1>10, <1>12, <2>1
  <2>2. CASE j # i
    BY <1>4, <1>10, <1>11, <2>2 DEF Inserted
  <2>3. QED
    BY <2>1, <2>2
<1>14. Differs(t)' \subseteq {Sequence} \cup Own(t) \cup OrderRows
  BY <1>5, <1>7, <1>9, <1>10, OrderRowsAre DEF Inserted, OnlyDiffers
<1>15. Inserted(t)'
  BY <1>4, <1>9, <1>10, <1>11, <1>13, <1>14 DEF Inserted, OnlyDiffers
<1>16. ConversionSerial(t)'
  BY <1>2, <1>4, <1>8, <1>9, <1>15 DEF ConversionSerial
<1>17. QED
  BY <1>3, <1>4, <1>9, <1>16, SerialMoves

\* What a return knows of the sale does not change while it deals with the order.
SaleKept(t, q) ==
    /\ request'[t] = q /\ table' = table /\ returns' = returns
    /\ q.kind = request[t].kind /\ q.sale = request[t].sale /\ q.asked = request[t].asked
    /\ q.returns = request[t].returns /\ q.linked = request[t].linked
    /\ Seen(t, request[t].sale)' = Seen(t, request[t].sale)
    /\ \A i \in Items : LineSeen(t, request[t].sale, i)' = LineSeen(t, request[t].sale, i)
LEMMA SaleStays ==
    ASSUME NEW t \in Transactions, NEW q, SaleKept(t, q), step[t] # "returned",
           step'[t] \notin Returning
    PROVE  /\ ReturnWrote(t) => ReturnWrote(t)'
           /\ AskedAll(t) => AskedAll(t)'
           /\ SituationWritten(t) => SituationWritten(t)'
           /\ Reopening(t) => Reopening(t)'
           /\ SaleLines(t)' = SaleLines(t)
<1>1. /\ request'[t].sale = request[t].sale /\ request'[t].asked = request[t].asked
      /\ request'[t].returns = request[t].returns /\ table' = table /\ returns' = returns
      /\ SaleSeen(t)' = SaleSeen(t)
      /\ \A i \in Items : LineSeen(t, request[t].sale, i)' = LineSeen(t, request[t].sale, i)
  BY DEF SaleKept, SaleSeen
<1>2. SaleLinesSeen(t)' = SaleLinesSeen(t)
  <2>1. ItemsOf(t, request[t].sale)' = ItemsOf(t, request[t].sale)
    BY <1>1 DEF ItemsOf
  <2>2. \A i \in ItemsOf(t, request[t].sale) :
          LineSeen(t, request[t].sale, i)' = LineSeen(t, request[t].sale, i)
    BY <1>1 DEF ItemsOf
  <2>3. QED
    BY <1>1, <2>1, <2>2 DEF SaleLinesSeen
<1>3. ASSUME ReturnWrote(t) PROVE ReturnWrote(t)'
  <2>1. \A i : LineWritten(t, i)' <=> LineWritten(t, i)
    BY <1>1 DEF LineWritten, Returning
  <2>2. QED
    BY <1>1, <1>3, <2>1 DEF ReturnWrote, RowsWritten, RowsAhead, LinesReturned, Returning, Numbering
<1>4. AskedAll(t) => AskedAll(t)'
  BY <1>1 DEF AskedAll
<1>5. SituationWritten(t) => SituationWritten(t)'
  BY <1>1, <1>2 DEF SituationWritten
<1>6. Reopening(t) => Reopening(t)'
  BY <1>1 DEF Reopening, FromWorkOrder
<1>7. QED
  BY <1>1, <1>3, <1>4, <1>5, <1>6 DEF SaleLines

LEMMA RereadLinesSerial ==
    ASSUME OrderTyped, OrderSerialInv, overlapped = "none", NEW t \in Transactions, RereadLines(t)
    PROVE  OrderSerialInv'
<1> DEFINE q == [request[t] EXCEPT !.status = StatusOf(OrderLines(t))]
<1>1. /\ step[t] \in {"convert", "give back"} /\ step' = [step EXCEPT ![t] = "order"] /\ Read
      /\ request' = [request EXCEPT ![t] = q] /\ request[t] \in RequestRows
      /\ request[t].todo = {}
  BY DEF RereadLines, AtStep, GoTo, OrderTyped
<1>2. /\ q.kind = request[t].kind /\ q.status = StatusOf(OrderLines(t))
      /\ q.asked = request[t].asked /\ q.returns = request[t].returns
      /\ q.seen = request[t].seen /\ q.todo = request[t].todo /\ q.sale = request[t].sale
      /\ q.linked = request[t].linked
  BY <1>1 DEF RequestRows
<1> HIDE DEF q
<1>3. /\ Quiet(t) /\ request'[t] = q /\ step'[t] = "order" /\ table' = table /\ returns' = returns
      /\ \A r : Seen(t, r)' = Seen(t, r)
      /\ Differs(t)' = Differs(t)
      /\ \A d, i : LineSeen(t, d, i)' = LineSeen(t, d, i)
      /\ OrderLines(t)' = OrderLines(t) /\ FromWorkOrder' = FromWorkOrder
  BY <1>1, ReadsView
<1>4. CASE step[t] = "convert"
  <2>1. request[t].kind \in Conversions
    BY <1>4, KindOfStep
  <2>2. ConversionSerial(t)
    BY <1>4, <2>1, SerialAt DEF InProgress
  <2>3. Inserted(t) /\ request[t].returns = {} /\ \E i \in Items : request[t].asked[i] > 0
    BY <1>4, <2>2 DEF ConversionSerial
  <2>4. Inserted(t)'
    BY <1>2, <1>3, <2>3 DEF Inserted, OnlyDiffers
  <2>5. ConversionSerial(t)'
    BY <1>1, <1>2, <1>3, <2>3, <2>4 DEF ConversionSerial
  <2>6. QED
    BY <1>2, <1>3, <2>1, <2>5, SerialMoves
<1>5. CASE step[t] = "give back"
  <2>1. request[t].kind \in {"partial", "full"}
    BY <1>5, KindOfStep
  <2>2. ReturnSerial(t)
    BY <1>5, <2>1, SerialAt DEF InProgress
  <2>3. SaleKept(t, q)
    BY <1>2, <1>3 DEF SaleKept
  <2>4. GivesBack(t)'
    <3>1. GivesBack(t)
      BY <1>5, <2>2 DEF ReturnSerial
    <3>2. request'[t].sale = request[t].sale /\ request'[t].seen = request[t].seen
          /\ request'[t].todo = request[t].todo
      BY <1>2, <1>3
    <3>3. QED
      BY <1>3, <3>1, <3>2 DEF GivesBack
  <2>5. /\ (ReturnWrote(t) => ReturnWrote(t)') /\ (AskedAll(t) => AskedAll(t)')
        /\ (SituationWritten(t) => SituationWritten(t)') /\ (Reopening(t) => Reopening(t)')
        /\ SaleLines(t)' = SaleLines(t)
    BY <1>3, <1>5, <2>3, SaleStays DEF Returning
  <2>6. ReturnSerial(t)'
    BY <1>2, <1>3, <1>5, <2>2, <2>4, <2>5 DEF ReturnSerial, OnlyDiffers, Returning
  <2>7. QED
    BY <1>2, <1>3, <2>1, <2>6, SerialMoves
<1>6. QED
  BY <1>1, <1>4, <1>5

LEMMA WriteOrderSerial ==
    ASSUME OrderTyped, OrderSerialInv, overlapped = "none", NEW t \in Transactions, WriteOrder(t)
    PROVE  OrderSerialInv'
<1> DEFINE row == [Seen(t, Order) EXCEPT !.status = request[t].status]
           f == One(Order, row)
           k == request[t].kind
<1>1. /\ step[t] = "order" /\ step' = [step EXCEPT ![t] = "commit"] /\ WriteRows(t, f)
      /\ request' = [request EXCEPT ![t] = request[t]]
  BY DEF WriteOrder, AtStep, GoTo, OrderTyped
<1>2. row.status = request[t].status /\ row.type = Seen(t, Order).type
  BY SeenDocuments DEF DocumentRows
<1>3. DOMAIN f = {Order} /\ f[Order] = row
  BY OneIs
<1> HIDE DEF f, row
<1>4. /\ Quiet(t) /\ request'[t] = request[t] /\ step'[t] = "commit" /\ table' = table
      /\ returns' = returns /\ FromWorkOrder' = FromWorkOrder
      /\ \A r : Seen(t, r)' = IF r \in DOMAIN f THEN f[r] ELSE Seen(t, r)
      /\ Differs(t)' \subseteq Differs(t) \cup DOMAIN f
  BY <1>1, WritesView
<1>5. /\ \A r : r # Order => Seen(t, r)' = Seen(t, r)
      /\ \A d \in Documents, i \in Items : LineSeen(t, d, i)' = LineSeen(t, d, i)
      /\ OrderLines(t)' = OrderLines(t)
  <2>1. \A d \in Documents, i \in Items : << d, i >> \notin DOMAIN f
    BY <1>3, NamesDiffer
  <2>2. \A d \in Documents, i \in Items : LineSeen(t, d, i)' = LineSeen(t, d, i)
    BY <1>4, <2>1 DEF LineSeen
  <2>3. OrderLines(t)' = OrderLines(t)
    BY <2>2, NamesDiffer DEF OrderLines
  <2>4. QED
    BY <1>3, <1>4, <2>2, <2>3
<1>6. Seen(t, Order)' = row /\ Differs(t)' \subseteq Differs(t) \cup {Order}
  BY <1>3, <1>4
<1>7. InProgress(t)
  BY <1>1 DEF InProgress
<1>8. CASE k \in Conversions
  <2>1. ConversionSerial(t)
    BY <1>7, <1>8, SerialAt
  <2>2. /\ Inserted(t) /\ request[t].returns = {} /\ \E i \in Items : request[t].asked[i] > 0
        /\ request[t].todo = {} /\ request[t].status = StatusOf(OrderLines(t))
    BY <1>1, <2>1 DEF ConversionSerial
  <2>3. t \in Documents /\ t # Order /\ Order \in Documents
    BY NamesDiffer
  <2>4. Inserted(t)'
    <3>1. Differs(t)' \subseteq {Sequence} \cup Own(t) \cup OrderRows
      BY <1>6, <2>2, OrderRowsAre DEF Inserted, OnlyDiffers
    <3>2. Seen(t, t)' = Seen(t, t) /\ Seen(t, Order)'.type = table[Order].type
      BY <1>2, <1>5, <1>6, <2>2, <2>3 DEF Inserted
    <3>3. \A i \in Items : /\ LineSeen(t, t, i)' = LineSeen(t, t, i)
                           /\ LineSeen(t, Order, i)' = LineSeen(t, Order, i)
      BY <1>5, <2>3
    <3>4. QED
      BY <1>4, <2>2, <3>1, <3>2, <3>3 DEF Inserted, OnlyDiffers
  <2>5. Seen(t, Order)'.status = StatusOf(OrderLines(t))
    BY <1>2, <1>6, <2>2
  <2>6. ConversionSerial(t)'
    BY <1>4, <1>5, <2>2, <2>4, <2>5 DEF ConversionSerial
  <2>7. QED
    BY <1>4, <1>8, <2>6, SerialMoves
<1>9. CASE k \in {"partial", "full"}
  <2>1. ReturnSerial(t)
    BY <1>7, <1>9, SerialAt
  <2>2. /\ request[t].sale \in Sales /\ request[t].sale \in Documents /\ request[t].sale # Order
    BY <1>9, ReturnAt
  <2>3. SaleKept(t, request[t])
    BY <1>4, <1>5, <2>2 DEF SaleKept
  <2>4. /\ (ReturnWrote(t) => ReturnWrote(t)') /\ (AskedAll(t) => AskedAll(t)')
        /\ (SituationWritten(t) => SituationWritten(t)') /\ (Reopening(t) => Reopening(t)')
        /\ SaleLines(t)' = SaleLines(t)
    BY <1>1, <1>4, <2>3, SaleStays DEF Returning
  <2>5. /\ OnlyDiffers(t, SaleLines(t) \cup {request[t].sale} \cup ({Order} \X Items))
        /\ GivesBack(t) /\ Reopening(t) /\ request[t].status = StatusOf(OrderLines(t))
        /\ SituationWritten(t) /\ ReturnWrote(t) /\ (request[t].kind = "full" => AskedAll(t))
        /\ table[request[t].sale].status \in {"FINALIZADA", "PARCIAL"}
        /\ request[t].linked => table[request[t].sale].linked /\ FromWorkOrder
    BY <1>1, <2>1 DEF ReturnSerial, Returning
  <2>6. GivesBack(t)'
    BY <1>4, <1>5, <2>5, NamesDiffer DEF GivesBack
  <2>7. Seen(t, Order)'.type = table[Order].type
    <3> DEFINE D == SaleLines(t) \cup {request[t].sale} \cup ({Order} \X Items)
    <3>1. Order \notin D
      BY <2>2, NamesDiffer DEF SaleLines
    <3>2. OnlyDiffers(t, D)
      BY <2>5
    <3> HIDE DEF D
    <3>3. Seen(t, Order) = table[Order]
      BY <3>1, <3>2, SeenElsewhere, NamesDiffer
    <3>4. QED
      BY <1>2, <1>6, <3>3
  <2>8. Seen(t, Order)'.status = StatusOf(OrderLines(t))
    BY <1>2, <1>6, <2>5
  <2>9. Differs(t)' \subseteq SaleLines(t) \cup {request[t].sale} \cup OrderRows
    BY <1>6, <2>5 DEF OnlyDiffers, OrderRows
  <2>10. ReturnSerial(t)'
    BY <1>4, <1>5, <2>4, <2>5, <2>6, <2>7, <2>8, <2>9 DEF ReturnSerial, OnlyDiffers, Returning
  <2>11. QED
    BY <1>4, <1>9, <2>10, SerialMoves
<1>10. CASE k = "estorno"
  <2>1. EstornoSerial(t)
    BY <1>7, <1>10, SerialAt
  <2>2. /\ Undoing(t) /\ request[t].returns = {} /\ request[t].todo = {} /\ FromWorkOrder
        /\ \A i \in Items : LineSeen(t, Order, i).converted = 0
    BY <1>1, <2>1 DEF EstornoSerial
  <2>3. Undoing(t)'
    <3>1. \A s \in Sales, i \in Items : LineKept(t, s, i) => LineKept(t, s, i)'
      BY <1>4, <1>5, NamesDiffer DEF LineKept
    <3>2. /\ Seen(t, Order)'.type = Seen(t, Order).type
          /\ GeneratedIn(table)' = GeneratedIn(table)
          /\ \A s \in Sales : Seen(t, s)' = Seen(t, s)
      BY <1>2, <1>4, <1>5, <1>6, NamesDiffer DEF GeneratedIn
    <3>3. QED
      BY <1>4, <2>2, <3>1, <3>2 DEF Undoing
  <2>4. \A i \in Items : LineSeen(t, Order, i)'.converted = 0
    BY <1>5, <2>2, NamesDiffer
  <2>5. EstornoSerial(t)'
    BY <1>4, <2>2, <2>3, <2>4 DEF EstornoSerial
  <2>6. QED
    BY <1>4, <1>10, <2>5, SerialMoves
<1>11. CASE k = "cancelOs"
  <2>1. CancelSerial(t)
    BY <1>7, <1>11, SerialAt
  <2>2. /\ OnlyDiffers(t, {}) /\ LiveIn(table) = {} /\ request[t].status = "CANCELADA"
        /\ request[t].returns = {}
    BY <1>1, <2>1 DEF CancelSerial
  <2>3. Seen(t, Order) = table[Order]
    BY <2>2, SeenElsewhere, NamesDiffer
  <2>4. (LiveIn(table) = {})'
    BY <1>4, <2>2 DEF LiveIn, GeneratedIn
  <2>5. CancelSerial(t)'
    BY <1>2, <1>4, <1>6, <2>2, <2>3, <2>4 DEF CancelSerial, OnlyDiffers
  <2>6. QED
    BY <1>4, <1>11, <2>5, SerialMoves
<1>12. QED
  BY <1>1, <1>8, <1>9, <1>10, <1>11, KindOfStep

LEMMA PatchStepsSerial ==
    ASSUME OrderTyped, OrderSerialInv, overlapped = "none", NEW t \in Transactions,
           ReadToPatch(t) \/ WritePatch(t)
    PROVE  OrderSerialInv'
<1> DEFINE d == request[t].sale
           k == request[t].kind
<1>1. /\ request[t] \in RequestRows /\ request = [request EXCEPT ![t] = request[t]]
  BY DEF OrderTyped
<1>2. CASE ReadToPatch(t)
  <2>1. /\ step[t] = "read" /\ step' = [step EXCEPT ![t] = "patch"] /\ Read
        /\ request' = [request EXCEPT ![t] = request[t]] /\ k = "patch"
        /\ table[d].status = "ABERTA"
    BY <1>1, <1>2 DEF ReadToPatch, AtStep, GoTo
  <2>2. PatchSerial(t)
    BY <2>1, SerialAt DEF InProgress
  <2>3. /\ Quiet(t) /\ request'[t] = request[t] /\ step'[t] = "patch" /\ Differs(t)' = Differs(t)
        /\ table' = table
    BY <2>1, ReadsView
  <2>4. PatchSerial(t)'
    BY <2>1, <2>2, <2>3 DEF PatchSerial, OnlyDiffers
  <2>5. QED
    BY <2>1, <2>3, <2>4, SerialMoves
<1>3. CASE WritePatch(t)
  <2> DEFINE finalize == request[t].status = "FINALIZADA"
             row == [SaleSeen(t) EXCEPT !.status = request[t].status, !.paid = @ \/ finalize]
             f == One(d, row)
  <2>1. /\ step[t] = "patch" /\ step' = [step EXCEPT ![t] = "commit"] /\ WriteRows(t, f)
        /\ request' = [request EXCEPT ![t] = request[t]]
    BY <1>1, <1>3 DEF WritePatch, AtStep, GoTo
  <2>2. k = "patch" /\ d \in Documents
    BY <2>1, KindOfStep, RequestOf
  <2>3. SaleSeen(t) \in DocumentRows
    BY <2>2, OtherAt, SeenDocuments DEF SaleSeen
  <2>4. row.status = request[t].status /\ row.linked = SaleSeen(t).linked
        /\ row.type = SaleSeen(t).type
    BY <2>3 DEF DocumentRows
  <2> HIDE DEF row
  <2>5. DOMAIN f = {d} /\ f[d] = row
    BY OneIs
  <2> HIDE DEF f
  <2>6. PatchSerial(t)
    BY <2>1, <2>2, SerialAt DEF InProgress
  <2>7. /\ Quiet(t) /\ request'[t] = request[t] /\ step'[t] = "commit" /\ table' = table
        /\ \A r : Seen(t, r)' = IF r \in DOMAIN f THEN f[r] ELSE Seen(t, r)
        /\ Differs(t)' \subseteq Differs(t) \cup DOMAIN f
    BY <2>1, WritesView
  <2>8. OnlyDiffers(t, {})
    BY <2>1, <2>6 DEF PatchSerial
  <2>9. SaleSeen(t) = table[d]
    BY <2>2, <2>8, SeenElsewhere DEF SaleSeen
  <2>10. SaleSeen(t)' = row
    BY <2>5, <2>7 DEF SaleSeen
  <2>11. Differs(t)' \subseteq {d}
    BY <2>5, <2>7, <2>8 DEF OnlyDiffers
  <2>12. PatchSerial(t)'
    BY <2>1, <2>4, <2>6, <2>7, <2>9, <2>10, <2>11 DEF PatchSerial, OnlyDiffers
  <2>13. QED
    BY <2>2, <2>7, <2>12, SerialMoves
<1>4. QED
  BY <1>2, <1>3

LEMMA ReadToUndoSerial ==
    ASSUME OrderTyped, OrderSerialInv, overlapped = "none", NEW t \in Transactions, ReadToUndo(t)
    PROVE  OrderSerialInv'
<1>1. /\ step[t] = "read" /\ step' = [step EXCEPT ![t] = "generated"] /\ Read
      /\ request' = [request EXCEPT ![t] = request[t]] /\ FromWorkOrder
      /\ request[t].kind \in {"estorno", "cancelOs"}
  BY DEF ReadToUndo, AtStep, GoTo, OrderTyped, FromWorkOrder
<1>2. /\ Quiet(t) /\ request'[t] = request[t] /\ step'[t] = "generated"
      /\ Differs(t)' = Differs(t) /\ FromWorkOrder' = FromWorkOrder
  BY <1>1, ReadsView
<1>3. CASE request[t].kind = "estorno"
  <2>1. EstornoSerial(t)
    BY <1>1, <1>3, SerialAt DEF InProgress
  <2>2. EstornoSerial(t)'
    BY <1>1, <1>2, <2>1 DEF EstornoSerial, OnlyDiffers
  <2>3. QED
    BY <1>2, <1>3, <2>2, SerialMoves
<1>4. CASE request[t].kind = "cancelOs"
  <2>1. CancelSerial(t)
    BY <1>1, <1>4, SerialAt DEF InProgress
  <2>2. CancelSerial(t)'
    BY <1>1, <1>2, <2>1 DEF CancelSerial, OnlyDiffers
  <2>3. QED
    BY <1>2, <1>4, <2>2, SerialMoves
<1>5. QED
  BY <1>1, <1>3, <1>4

LEMMA ReadGeneratedSerial ==
    ASSUME OrderTyped, OrderSerialInv, overlapped = "none", NEW t \in Transactions, ReadGenerated(t)
    PROVE  OrderSerialInv'
<1> DEFINE k == request[t].kind
<1>1. /\ step[t] = "generated" /\ Read /\ request[t] \in RequestRows
      /\ request = [request EXCEPT ![t] = request[t]]
  BY DEF ReadGenerated, AtStep, OrderTyped
<1>2. Generated = GeneratedIn(table) /\ LiveOf(Generated) = LiveIn(table)
  BY DEF Generated, GeneratedIn, LiveOf, LiveIn
<1>3. CASE /\ k = "estorno" /\ GoTo(t, "unlink")
           /\ \A s \in Generated : table[s].situation = "SEM_DEVOLUCAO"
           /\ request' = [request EXCEPT ![t].todo = Generated, ![t].live = LiveOf(Generated)]
  <2> DEFINE q == [request[t] EXCEPT !.todo = Generated, !.live = LiveOf(Generated)]
  <2>1. request' = [request EXCEPT ![t] = q] /\ step' = [step EXCEPT ![t] = "unlink"]
    BY <1>3 DEF GoTo
  <2>2. q.kind = k /\ q.returns = request[t].returns /\ q.todo = GeneratedIn(table)
    BY <1>1, <1>2 DEF RequestRows
  <2> HIDE DEF q
  <2>3. /\ Quiet(t) /\ request'[t] = q /\ step'[t] = "unlink" /\ table' = table
        /\ \A r : Seen(t, r)' = Seen(t, r)
        /\ \A d, i : LineSeen(t, d, i)' = LineSeen(t, d, i)
        /\ Differs(t)' = Differs(t) /\ FromWorkOrder' = FromWorkOrder
    BY <1>1, <2>1, ReadsView
  <2>4. EstornoSerial(t)
    BY <1>1, <1>3, SerialAt DEF InProgress
  <2>5. OnlyDiffers(t, {}) /\ FromWorkOrder
    BY <1>1, <2>4 DEF EstornoSerial
  <2>6. /\ \A d \in Documents : Seen(t, d) = table[d]
        /\ \A d \in Documents, i \in Items : LineSeen(t, d, i) = table[<< d, i >>]
    BY <2>5, SeenElsewhere
  <2>7. Undoing(t)'
    <3>1. \A s \in GeneratedIn(table) : table[s].situation = "SEM_DEVOLUCAO"
      BY <1>2, <1>3
    <3>2. Seen(t, Order)'.type = "ORDEM DE SERVICO"
      <4>1. Seen(t, Order)' = Seen(t, Order)
        BY <2>3
      <4>2. Seen(t, Order) = table[Order]
        BY <2>6, LinesApart
      <4>3. table[Order].type = "ORDEM DE SERVICO"
        BY <2>5 DEF FromWorkOrder
      <4>4. QED
        BY <4>1, <4>2, <4>3
    <3>3. \A s \in Sales : Seen(t, s)' = table[s]
      BY <2>3, <2>6, NamesDiffer
    <3>4. \A s \in Sales, i \in Items : LineKept(t, s, i)'
      <4> SUFFICES ASSUME NEW s \in Sales, NEW i \in Items PROVE LineKept(t, s, i)'
        OBVIOUS
      <4>1. LineSeen(t, s, i)' = table[<< s, i >>]
        BY <2>3, <2>6, NamesDiffer
      <4>2. QED
        BY <2>3, <4>1 DEF LineKept
    <3>5. GeneratedIn(table)' = GeneratedIn(table)
      BY <2>3 DEF GeneratedIn
    <3>6. QED
      BY <2>2, <2>3, <3>1, <3>2, <3>3, <3>4, <3>5 DEF Undoing
  <2>8. EstornoSerial(t)'
    BY <2>2, <2>3, <2>4, <2>5, <2>7 DEF EstornoSerial
  <2>9. QED
    BY <1>3, <2>2, <2>3, <2>8, SerialMoves
<1>4. CASE k = "cancelOs" /\ LiveOf(Generated) = {} /\ GoTo(t, "order") /\ UNCHANGED request
  <2>1. request' = [request EXCEPT ![t] = request[t]] /\ step' = [step EXCEPT ![t] = "order"]
    BY <1>1, <1>4 DEF GoTo
  <2>2. /\ Quiet(t) /\ request'[t] = request[t] /\ step'[t] = "order" /\ table' = table
        /\ Differs(t)' = Differs(t)
    BY <1>1, <2>1, ReadsView
  <2>3. CancelSerial(t)
    BY <1>1, <1>4, SerialAt DEF InProgress
  <2>4. (LiveIn(table) = {})'
    BY <1>2, <1>4, <2>2 DEF LiveIn, GeneratedIn
  <2>5. CancelSerial(t)'
    BY <1>1, <2>2, <2>3, <2>4 DEF CancelSerial, OnlyDiffers
  <2>6. QED
    BY <1>4, <2>2, <2>5, SerialMoves
<1>5. QED
  BY <1>3, <1>4 DEF ReadGenerated

LEMMA UnlinkSaleSerial ==
    ASSUME OrderTyped, OrderSerialInv, overlapped = "none", NEW t \in Transactions, UnlinkSale(t)
    PROVE  OrderSerialInv'
<1>1. PICK d \in request[t].todo :
        /\ WriteRows(t, One(d, Unlinked(Seen(t, d), d \in request[t].live)))
        /\ request' = [request EXCEPT ![t].todo = @ \ {d}]
  BY DEF UnlinkSale
<1> DEFINE row == Unlinked(Seen(t, d), d \in request[t].live)
           f == One(d, row)
           q == [request[t] EXCEPT !.todo = @ \ {d}]
<1>2. /\ step[t] = "unlink" /\ step' = [step EXCEPT ![t] = "unlink"] /\ WriteRows(t, f)
      /\ request' = [request EXCEPT ![t] = q] /\ request[t] \in RequestRows
  BY <1>1 DEF UnlinkSale, AtStep, OrderTyped
<1>3. request[t].kind = "estorno"
  BY <1>2, KindOfStep
<1>4. EstornoSerial(t)
  BY <1>2, <1>3, SerialAt DEF InProgress
<1>5. Undoing(t) /\ FromWorkOrder /\ request[t].returns = {}
  BY <1>2, <1>4 DEF EstornoSerial
<1>6. /\ d \in GeneratedIn(table) /\ d \in Sales /\ d \in Documents /\ d # Order
      /\ Seen(t, d) = table[d] /\ table[d] # Absent
  BY <1>1, <1>5, NamesDiffer DEF Undoing, GeneratedIn
<1>7. row \in DocumentRows /\ row.linked = FALSE
  <2>1. Seen(t, d) \in DocumentRows
    BY <1>6, TypedRows DEF OrderTyped
  <2>2. QED
    BY <2>1 DEF Unlinked, DocumentRows, OrderStatuses, Situations
<1>8. row # Absent
  BY <1>7, RowsDiffer
<1>9. q.kind = request[t].kind /\ q.returns = request[t].returns /\ q.todo = request[t].todo \ {d}
  BY <1>2 DEF RequestRows
<1> HIDE DEF q, row
<1>10. DOMAIN f = {d} /\ f[d] = row
  BY OneIs
<1> HIDE DEF f
<1>11. /\ Quiet(t) /\ request'[t] = q /\ step'[t] = "unlink" /\ table' = table
       /\ FromWorkOrder' = FromWorkOrder
       /\ \A r : Seen(t, r)' = IF r \in DOMAIN f THEN f[r] ELSE Seen(t, r)
  BY <1>2, WritesView
<1>12. /\ Seen(t, d)' = row /\ Seen(t, Order)' = Seen(t, Order)
       /\ \A s \in Sales : s # d => Seen(t, s)' = Seen(t, s)
  BY <1>6, <1>10, <1>11
<1>13. \A s \in Sales, i \in Items : LineKept(t, s, i)'
  <2>1. \A s \in Sales, i \in Items : << s, i >> \notin DOMAIN f
    BY <1>6, <1>10, NamesDiffer
  <2>2. \A s \in Sales, i \in Items : LineSeen(t, s, i)' = LineSeen(t, s, i)
    BY <1>11, <2>1 DEF LineSeen
  <2>3. \A s \in Sales, i \in Items : LineKept(t, s, i)
    BY <1>5 DEF Undoing
  <2>4. QED
    BY <1>11, <2>2, <2>3 DEF LineKept
<1>14. Undoing(t)'
  <2>1. GeneratedIn(table)' = GeneratedIn(table)
    BY <1>11 DEF GeneratedIn
  <2>2. \A s \in Sales :
          IF s \in GeneratedIn(table) \ q.todo
          THEN Seen(t, s)' # Absent /\ Seen(t, s)'.linked = FALSE ELSE Seen(t, s)' = table[s]
    <3> SUFFICES ASSUME NEW s \in Sales
                 PROVE  IF s \in GeneratedIn(table) \ q.todo
                        THEN Seen(t, s)' # Absent /\ Seen(t, s)'.linked = FALSE
                        ELSE Seen(t, s)' = table[s]
      OBVIOUS
    <3>1. CASE s = d
      BY <1>6, <1>7, <1>8, <1>9, <1>12, <3>1
    <3>2. CASE s # d
      BY <1>5, <1>9, <1>12, <3>2 DEF Undoing
    <3>3. QED
      BY <3>1, <3>2
  <2>3. QED
    BY <1>5, <1>9, <1>11, <1>12, <1>13, <2>1, <2>2 DEF Undoing
<1>15. EstornoSerial(t)'
  BY <1>5, <1>9, <1>11, <1>14 DEF EstornoSerial
<1>16. QED
  BY <1>3, <1>9, <1>11, <1>15, SerialMoves

LEMMA UnlinkLinesSerial ==
    ASSUME OrderTyped, OrderSerialInv, overlapped = "none", NEW t \in Transactions,
           UnlinkLines(t) \/ ResetLines(t)
    PROVE  OrderSerialInv'
<1>1. request = [request EXCEPT ![t] = request[t]]
  BY DEF OrderTyped
<1>2. CASE UnlinkLines(t)
  <2> DEFINE S == {r \in Lines : r[1] \in DOMAIN draft[t] /\ Seen(t, r) # Absent}
             f == [r \in S |-> [Seen(t, r) EXCEPT !.linked = FALSE]]
  <2>1. /\ step[t] = "unlink" /\ step' = [step EXCEPT ![t] = "reset"] /\ WriteRows(t, f)
        /\ request' = [request EXCEPT ![t] = request[t]] /\ request[t].todo = {}
    BY <1>1, <1>2 DEF UnlinkLines, AtStep, GoTo
  <2>2. request[t].kind = "estorno"
    BY <2>1, KindOfStep
  <2>3. EstornoSerial(t)
    BY <2>1, <2>2, SerialAt DEF InProgress
  <2>4. Undoing(t) /\ FromWorkOrder /\ request[t].returns = {}
    BY <2>1, <2>3 DEF EstornoSerial
  <2>5. DOMAIN f = S /\ \A r \in S : f[r] = [Seen(t, r) EXCEPT !.linked = FALSE]
    OBVIOUS
  <2>6. \A d \in Documents : d \notin S
    BY NamesDiffer
  <2>7. \A r \in S : Seen(t, r) # Absent
    OBVIOUS
  <2> HIDE DEF f, S
  <2>8. /\ Quiet(t) /\ request'[t] = request[t] /\ step'[t] = "reset" /\ table' = table
        /\ FromWorkOrder' = FromWorkOrder
        /\ \A r : Seen(t, r)' = IF r \in DOMAIN f THEN f[r] ELSE Seen(t, r)
    BY <2>1, WritesView
  <2>9. \A d \in Documents : Seen(t, d)' = Seen(t, d)
    BY <2>5, <2>6, <2>8
  <2>10. \A s \in Sales, i \in Items : LineKept(t, s, i)'
    <3> SUFFICES ASSUME NEW s \in Sales, NEW i \in Items PROVE LineKept(t, s, i)'
      OBVIOUS
    <3>1. LineKept(t, s, i)
      BY <2>4 DEF Undoing
    <3>2. CASE << s, i >> \in S
      <4>1. LineSeen(t, s, i)' = [LineSeen(t, s, i) EXCEPT !.linked = FALSE]
            /\ LineSeen(t, s, i) # Absent
        BY <2>5, <2>7, <2>8, <3>2 DEF LineSeen
      <4>2. LineSeen(t, s, i) \in LineRows
        BY <4>1, SeenDocuments, NamesDiffer DEF LinesFor
      <4>3. LineSeen(t, s, i)' \in LineRows /\ LineSeen(t, s, i)'.returned = LineSeen(t, s, i).returned
        BY <4>1, <4>2 DEF LineRows
      <4>4. LineSeen(t, s, i)' # Absent
        BY <4>3, RowsDiffer
      <4>5. QED
        BY <2>8, <3>1, <4>1, <4>3, <4>4 DEF LineKept
    <3>3. CASE << s, i >> \notin S
      <4>1. LineSeen(t, s, i)' = LineSeen(t, s, i)
        BY <2>5, <2>8, <3>3 DEF LineSeen
      <4>2. QED
        BY <2>8, <3>1, <4>1 DEF LineKept
    <3>4. QED
      BY <3>2, <3>3
  <2>11. Undoing(t)'
    <3>1. GeneratedIn(table)' = GeneratedIn(table)
      BY <2>8 DEF GeneratedIn
    <3>2. QED
      BY <2>4, <2>8, <2>9, <2>10, <3>1, NamesDiffer DEF Undoing
  <2>12. EstornoSerial(t)'
    BY <2>1, <2>4, <2>8, <2>11 DEF EstornoSerial
  <2>13. QED
    BY <2>2, <2>8, <2>12, SerialMoves
<1>3. CASE ResetLines(t)
  <2> DEFINE S == {Order} \X Items
             f == [r \in S |-> [Seen(t, r) EXCEPT !.converted = 0]]
  <2>1. /\ step[t] = "reset" /\ step' = [step EXCEPT ![t] = "order"] /\ WriteRows(t, f)
        /\ request' = [request EXCEPT ![t] = request[t]]
    BY <1>1, <1>3 DEF ResetLines, AtStep, GoTo
  <2>2. request[t].kind = "estorno"
    BY <2>1, KindOfStep
  <2>3. EstornoSerial(t)
    BY <2>1, <2>2, SerialAt DEF InProgress
  <2>4. Undoing(t) /\ FromWorkOrder /\ request[t].returns = {} /\ request[t].todo = {}
    BY <2>1, <2>3 DEF EstornoSerial
  <2>5. /\ DOMAIN f = S
        /\ \A i \in Items : << Order, i >> \in S
              /\ f[<< Order, i >>] = [LineSeen(t, Order, i) EXCEPT !.converted = 0]
    BY DEF LineSeen
  <2>6. /\ \A d \in Documents : d \notin S
        /\ \A s \in Sales, i \in Items : << s, i >> \notin S
    BY NamesDiffer
  <2>7. \A i \in Items : f[<< Order, i >>].converted = 0
    BY <2>5, SeenDocuments DEF LinesFor, LineRows
  <2> HIDE DEF f, S
  <2>8. /\ Quiet(t) /\ request'[t] = request[t] /\ step'[t] = "order" /\ table' = table
        /\ FromWorkOrder' = FromWorkOrder
        /\ \A r : Seen(t, r)' = IF r \in DOMAIN f THEN f[r] ELSE Seen(t, r)
    BY <2>1, WritesView
  <2>9. \A d \in Documents : Seen(t, d)' = Seen(t, d)
    BY <2>5, <2>6, <2>8
  <2>10. \A s \in Sales, i \in Items : LineSeen(t, s, i)' = LineSeen(t, s, i)
    BY <2>5, <2>6, <2>8 DEF LineSeen
  <2>11. \A i \in Items : LineSeen(t, Order, i)'.converted = 0
    BY <2>5, <2>7, <2>8 DEF LineSeen
  <2>12. Undoing(t)'
    <3>1. GeneratedIn(table)' = GeneratedIn(table)
      BY <2>8 DEF GeneratedIn
    <3>2. \A s \in Sales, i \in Items : LineKept(t, s, i) => LineKept(t, s, i)'
      BY <2>8, <2>10 DEF LineKept
    <3>3. QED
      BY <2>4, <2>8, <2>9, <3>1, <3>2, NamesDiffer DEF Undoing
  <2>13. EstornoSerial(t)'
    BY <2>4, <2>8, <2>11, <2>12 DEF EstornoSerial
  <2>14. QED
    BY <2>2, <2>8, <2>13, SerialMoves
<1>4. QED
  BY <1>2, <1>3

-----------------------------------------------------------------------------
\* A return: before its first line, nothing is returned yet.
LEMMA BeforeFirstLine ==
    ASSUME OrderTyped, NEW t \in Transactions, NEW q, request'[t] = q, step'[t] = "line",
           table' = table, q.returns = {}, q.sale \in Sales,
           \A i \in Items : LineSeen(t, q.sale, i)' = table[<< q.sale, i >>]
    PROVE  ReturnWrote(t)'
<1>1. request'[t].returns = {} /\ request'[t].sale = q.sale
  OBVIOUS
<1>2. \A i : ~LineWritten(t, i)'
  BY <1>1 DEF LineWritten
<1>3. \A i \in Items : table[<< q.sale, i >>] # Absent => table[<< q.sale, i >>].returned \in Nat
  BY TypedRows, NamesDiffer DEF OrderTyped, LinesFor, LineRows
<1>4. \A i \in Items : table[<< q.sale, i >>] # Absent =>
         LineSeen(t, q.sale, i)'.returned
           = table[<< q.sale, i >>].returned
               + IF LineWritten(t, i)' THEN q.asked[i] ELSE 0
  BY <1>2, <1>3
<1>5. QED
  BY <1>1, <1>4 DEF ReturnWrote, RowsWritten, RowsAhead, LinesReturned, Numbering, Returning

LEMMA ReadToReturnSerial ==
    ASSUME OrderTyped, OrderSerialInv, overlapped = "none", NEW t \in Transactions, ReadToReturn(t)
    PROVE  OrderSerialInv'
<1> DEFINE k == request[t].kind
           d == request[t].sale
           linked == SaleSeen(t).linked /\ FromWorkOrder
           todo == {i \in Items : request[t].asked[i] > 0}
           q == [request[t] EXCEPT !.linked = linked, !.todo = todo]
           s == IF k = "full" THEN "returnable" ELSE "line"
<1>1. /\ step[t] = "read" /\ step' = [step EXCEPT ![t] = s] /\ Read
      /\ request' = [request EXCEPT ![t] = q] /\ k \in {"partial", "full"}
      /\ SaleSeen(t).status \in {"FINALIZADA", "PARCIAL"} /\ request[t] \in RequestRows
  BY DEF ReadToReturn, AtStep, GoTo, OrderTyped
<1> HIDE DEF linked, todo
<1>2. /\ q.kind = k /\ q.returns = request[t].returns /\ q.sale = d
      /\ q.asked = request[t].asked /\ q.linked = linked
  BY <1>1 DEF RequestRows
<1> HIDE DEF q, s
<1>3. /\ Quiet(t) /\ request'[t] = q /\ step'[t] = s /\ table' = table
      /\ \A c, i : LineSeen(t, c, i)' = LineSeen(t, c, i)
      /\ Differs(t)' = Differs(t) /\ FromWorkOrder' = FromWorkOrder
  BY <1>1, ReadsView
<1>4. ReturnSerial(t)
  BY <1>1, SerialAt DEF InProgress
<1>5. OnlyDiffers(t, {}) /\ request[t].returns = {}
  BY <1>1, <1>4 DEF ReturnSerial
<1>6. d \in Sales /\ d \in Documents
  BY <1>1, ReturnAt
<1>7. SaleSeen(t) = table[d] /\ \A i \in Items : LineSeen(t, d, i) = table[<< d, i >>]
  BY <1>5, <1>6, SeenElsewhere DEF SaleSeen
<1>8. /\ table[d].status \in {"FINALIZADA", "PARCIAL"}
      /\ q.linked => table[d].linked /\ FromWorkOrder
  BY <1>1, <1>2, <1>7 DEF linked
<1>9. Differs(t)' = {}
  BY <1>3, <1>5 DEF OnlyDiffers
<1>10. CASE k = "full"
  <2>1. s = "returnable"
    BY <1>10 DEF s
  <2>2. ReturnSerial(t)'
    BY <1>2, <1>3, <1>5, <1>8, <1>9, <2>1 DEF ReturnSerial, OnlyDiffers, Returning
  <2>3. QED
    BY <1>1, <1>2, <1>3, <2>2, SerialMoves
<1>11. CASE k = "partial"
  <2>1. s = "line"
    BY <1>11 DEF s
  <2>2. ReturnWrote(t)'
    BY <1>2, <1>3, <1>5, <1>6, <1>7, <2>1, BeforeFirstLine
  <2>3. ReturnSerial(t)'
    BY <1>2, <1>3, <1>8, <1>9, <1>11, <2>1, <2>2 DEF ReturnSerial, OnlyDiffers, Returning
  <2>4. QED
    BY <1>1, <1>2, <1>3, <2>3, SerialMoves
<1>12. QED
  BY <1>1, <1>10, <1>11

LEMMA ReadReturnableSerial ==
    ASSUME OrderTyped, OrderSerialInv, overlapped = "none", NEW t \in Transactions, ReadReturnable(t)
    PROVE  OrderSerialInv'
<1> DEFINE k == request[t].kind
           d == request[t].sale
           left == [i \in Items |-> IF i \in ItemsOf(t, d) THEN Returnable(LineSeen(t, d, i)) ELSE 0]
           some == {i \in Items : left[i] > 0}
           q == [request[t] EXCEPT !.asked = left, !.todo = some]
<1>1. /\ step[t] = "returnable" /\ step' = [step EXCEPT ![t] = "line"] /\ Read
      /\ request' = [request EXCEPT ![t] = q] /\ request[t] \in RequestRows
  BY DEF ReadReturnable, AtStep, GoTo, OrderTyped
<1>2. \A i \in Items : left[i] = IF LineSeen(t, d, i) # Absent
                                 THEN Returnable(LineSeen(t, d, i)) ELSE 0
  BY DEF ItemsOf
<1> HIDE DEF left, some
<1>3. /\ q.kind = k /\ q.returns = request[t].returns /\ q.sale = d
      /\ q.asked = left /\ q.linked = request[t].linked
  BY <1>1 DEF RequestRows
<1> HIDE DEF q
<1>4. k \in {"partial", "full"} /\ d \in Sales /\ d \in Documents
  BY <1>1, KindOfStep, ReturnAt
<1>5. /\ Quiet(t) /\ request'[t] = q /\ step'[t] = "line" /\ table' = table
      /\ \A c, i : LineSeen(t, c, i)' = LineSeen(t, c, i)
      /\ Differs(t)' = Differs(t) /\ FromWorkOrder' = FromWorkOrder
  BY <1>1, ReadsView
<1>6. ReturnSerial(t)
  BY <1>1, <1>4, SerialAt DEF InProgress
<1>7. /\ OnlyDiffers(t, {}) /\ request[t].returns = {}
      /\ table[d].status \in {"FINALIZADA", "PARCIAL"}
      /\ request[t].linked => table[d].linked /\ FromWorkOrder
  BY <1>1, <1>6 DEF ReturnSerial
<1>8. \A i \in Items : LineSeen(t, d, i) = table[<< d, i >>]
  BY <1>4, <1>7, SeenElsewhere
<1>9. ReturnWrote(t)'
  BY <1>3, <1>4, <1>5, <1>7, <1>8, BeforeFirstLine
<1>10. AskedAll(t)'
  <2>1. \A i \in Items : q.asked[i] =
          IF table[<< d, i >>] = Absent THEN 0 ELSE Returnable(table[<< d, i >>])
    BY <1>2, <1>3, <1>8
  <2>2. QED
    BY <1>3, <1>5, <2>1 DEF AskedAll
<1>11. Differs(t)' = {}
  BY <1>5, <1>7 DEF OnlyDiffers
<1>12. ReturnSerial(t)'
  BY <1>3, <1>5, <1>7, <1>9, <1>10, <1>11 DEF ReturnSerial, OnlyDiffers, Returning
<1>13. QED
  BY <1>3, <1>4, <1>5, <1>12, SerialMoves

\* What a return knows of the sale as long as it deals with its lines.
LEMMA ReturningStep ==
    ASSUME NEW t \in Transactions, NEW q, request'[t] = q, table' = table, returns' = returns,
           q.kind = request[t].kind, q.sale = request[t].sale, q.asked = request[t].asked,
           q.linked = request[t].linked, FromWorkOrder' = FromWorkOrder,
           ReturnSerial(t), step[t] \in Returning, step'[t] \in Returning, ReturnWrote(t)',
           OnlyDiffers(t, SaleLines(t))'
    PROVE  ReturnSerial(t)'
<1>1. /\ table[request[t].sale].status \in {"FINALIZADA", "PARCIAL"}
      /\ request[t].linked => table[request[t].sale].linked /\ FromWorkOrder
      /\ request[t].kind = "full" => AskedAll(t)
  BY DEF ReturnSerial, Returning
<1>2. AskedAll(t) => AskedAll(t)'
  BY DEF AskedAll
<1>3. QED
  BY <1>1, <1>2 DEF ReturnSerial, Returning

LEMMA ReturningAt ==
    ASSUME OrderTyped, OrderSerialInv, overlapped = "none", NEW t \in Transactions, step[t] \in Returning
    PROVE  /\ request[t].kind \in {"partial", "full"} /\ ReturnSerial(t) /\ ReturnWrote(t)
           /\ OnlyDiffers(t, SaleLines(t)) /\ request[t].sale \in Sales
           /\ request[t].sale \in Documents /\ request[t].todo \subseteq Items
           /\ request[t].item \subseteq Items
<1>1. request[t].kind \in {"partial", "full"}
  BY KindOfStep DEF Returning
<1>2. ReturnSerial(t)
  BY <1>1, SerialAt DEF InProgress, Returning
<1>3. QED
  BY <1>1, <1>2, ReturnAt, RequestOf DEF ReturnSerial, Returning

LEMMA ReadReturnLineSerial ==
    ASSUME OrderTyped, OrderSerialInv, overlapped = "none", NEW t \in Transactions, ReadReturnLine(t)
    PROVE  OrderSerialInv'
<1> DEFINE d == request[t].sale
<1>1. PICK i \in request[t].todo \cap ItemsOf(t, d) :
          request' = [request EXCEPT ![t].item = {i}, ![t].seen[i] = LineSeen(t, d, i).returned,
                                     ![t].todo = @ \ {i}]
  BY DEF ReadReturnLine
<1> DEFINE q == [request[t] EXCEPT !.item = {i}, !.seen[i] = LineSeen(t, d, i).returned,
                                   !.todo = @ \ {i}]
<1>2. request' = [request EXCEPT ![t] = q]
  BY <1>1
<1>3. /\ step[t] = "line" /\ step' = [step EXCEPT ![t] = "number return"] /\ Read
      /\ request[t] \in RequestRows
  BY DEF ReadReturnLine, AtStep, GoTo, OrderTyped
<1>4. /\ q.kind = request[t].kind /\ q.returns = request[t].returns /\ q.sale = d
      /\ q.asked = request[t].asked /\ q.linked = request[t].linked
      /\ q.item = {i} /\ q.todo = request[t].todo \ {i}
  BY <1>3 DEF RequestRows
<1>5. i \in Items /\ i \in request[t].todo /\ LineSeen(t, d, i) # Absent
  BY <1>1 DEF ItemsOf
<1>6. q.seen[i] = LineSeen(t, d, i).returned
  <2>1. request[t].seen \in Amounts
    BY RequestOf
  <2>2. q.seen = [request[t].seen EXCEPT ![i] = LineSeen(t, d, i).returned]
    BY <1>3 DEF RequestRows
  <2> HIDE DEF q
  <2>3. QED
    BY <1>5, <2>1, <2>2 DEF Amounts
<1> HIDE DEF q
<1>7. /\ request[t].kind \in {"partial", "full"} /\ ReturnSerial(t) /\ ReturnWrote(t)
      /\ OnlyDiffers(t, SaleLines(t)) /\ d \in Sales /\ d \in Documents
  BY <1>3, ReturningAt DEF Returning
<1>8. /\ Quiet(t) /\ request'[t] = q /\ step'[t] = "number return" /\ table' = table
      /\ returns' = returns /\ FromWorkOrder' = FromWorkOrder
      /\ \A c, j : LineSeen(t, c, j)' = LineSeen(t, c, j)
      /\ Differs(t)' = Differs(t)
  BY <1>2, <1>3, ReadsView
<1>9. \A r \in request[t].returns : r.item \notin request[t].todo
  BY <1>3, <1>7 DEF ReturnWrote, RowsWritten, RowsAhead, LinesReturned, Returning
<1>10. \A j : LineWritten(t, j)' <=> LineWritten(t, j)
  BY <1>3, <1>4, <1>8 DEF LineWritten
<1>11. q.seen[i] = table[<< d, i >>].returned
  <2>1. ~LineWritten(t, i)
    BY <1>5, <1>9 DEF LineWritten
  <2>2. table[<< d, i >>] # Absent /\ table[<< d, i >>].returned \in Nat
    BY <1>5, <1>7, ReturnAt, TypedRows DEF OrderTyped, LinesFor, LineRows
  <2>3. LineSeen(t, d, i).returned = table[<< d, i >>].returned
                + IF LineWritten(t, i) THEN request[t].asked[i] ELSE 0
    BY <1>5, <1>7, <2>2 DEF ReturnWrote, RowsWritten, RowsAhead, LinesReturned
  <2>4. QED
    BY <1>6, <2>1, <2>2, <2>3
<1>12. ReturnWrote(t)'
  <2>1. RowsWritten(t)'
    BY <1>4, <1>7, <1>8 DEF ReturnWrote, RowsWritten
  <2>2. RowsAhead(t)'
    <3>1. /\ \A r \in q.returns : r.item \notin q.todo /\ r.item \notin q.item
          /\ q.item \cap q.todo = {} /\ \A j, l \in q.item : j = l
          /\ \A j \in q.item : q.seen[j] = table[<< q.sale, j >>].returned
      BY <1>4, <1>5, <1>9, <1>11
    <3>2. step'[t] = "number return" /\ request'[t] = q /\ table' = table
      BY <1>8
    <3>3. QED
      BY <3>1, <3>2 DEF RowsAhead, Returning, Numbering
  <2>3. LinesReturned(t)'
    <3>1. LinesReturned(t)
      BY <1>7 DEF ReturnWrote
    <3>2. request'[t].sale = request[t].sale /\ request'[t].asked = request[t].asked
      BY <1>4, <1>8
    <3>3. QED
      BY <1>8, <1>10, <3>1, <3>2 DEF LinesReturned
  <2>4. QED
    BY <2>1, <2>2, <2>3 DEF ReturnWrote
<1>13. OnlyDiffers(t, SaleLines(t))'
  BY <1>4, <1>7, <1>8 DEF OnlyDiffers, SaleLines
<1>14. ReturnSerial(t)'
  BY <1>3, <1>4, <1>7, <1>8, <1>12, <1>13, ReturningStep DEF Returning
<1>15. QED
  BY <1>4, <1>7, <1>8, <1>14, SerialMoves

LEMMA NumberReturnSerial ==
    ASSUME OrderTyped, OrderSerialInv, overlapped = "none", NEW t \in Transactions, NumberReturn(t)
    PROVE  OrderSerialInv'
<1> DEFINE n == 1 + Max({0} \cup {r.order : r \in {s \in ReturnsSeen(t) :
                                                  s.sale = request[t].sale}})
           q == [request[t] EXCEPT !.number = n]
<1>1. /\ step[t] = "number return" /\ step' = [step EXCEPT ![t] = "insert return"] /\ Read
      /\ request' = [request EXCEPT ![t] = q] /\ request[t] \in RequestRows
  BY DEF NumberReturn, AtStep, GoTo, OrderTyped
<1> HIDE DEF n
<1>2. /\ q.kind = request[t].kind /\ q.returns = request[t].returns /\ q.sale = request[t].sale
      /\ q.asked = request[t].asked /\ q.linked = request[t].linked
      /\ q.item = request[t].item /\ q.todo = request[t].todo /\ q.seen = request[t].seen
  BY <1>1 DEF RequestRows
<1> HIDE DEF q
<1>3. /\ request[t].kind \in {"partial", "full"} /\ ReturnSerial(t) /\ ReturnWrote(t)
      /\ OnlyDiffers(t, SaleLines(t))
  BY <1>1, ReturningAt DEF Returning
<1>4. /\ Quiet(t) /\ request'[t] = q /\ step'[t] = "insert return" /\ table' = table
      /\ returns' = returns /\ FromWorkOrder' = FromWorkOrder
      /\ \A c, j : LineSeen(t, c, j)' = LineSeen(t, c, j)
      /\ Differs(t)' = Differs(t)
  BY <1>1, ReadsView
<1>5. \A j : LineWritten(t, j)' <=> LineWritten(t, j)
  BY <1>1, <1>2, <1>4 DEF LineWritten
<1>6. ReturnWrote(t)'
  <2>1. RowsWritten(t)'
    BY <1>2, <1>3, <1>4 DEF ReturnWrote, RowsWritten
  <2>2. RowsAhead(t)'
    <3>1. /\ \A r \in q.returns : r.item \notin q.todo /\ r.item \notin q.item
          /\ q.item \cap q.todo = {} /\ \A j, l \in q.item : j = l
          /\ \A j \in q.item : q.seen[j] = table[<< q.sale, j >>].returned
      <4>1. RowsAhead(t) /\ step[t] = "number return"
        BY <1>1, <1>3 DEF ReturnWrote
      <4>2. QED
        BY <1>2, <4>1 DEF RowsAhead, Returning, Numbering
    <3>2. step'[t] = "insert return" /\ request'[t] = q /\ table' = table
      BY <1>4
    <3>3. QED
      BY <3>1, <3>2 DEF RowsAhead, Returning, Numbering
  <2>3. LinesReturned(t)'
    BY <1>2, <1>3, <1>4, <1>5 DEF ReturnWrote, LinesReturned
  <2>4. QED
    BY <2>1, <2>2, <2>3 DEF ReturnWrote
<1>7. OnlyDiffers(t, SaleLines(t))'
  BY <1>2, <1>3, <1>4 DEF OnlyDiffers, SaleLines
<1>8. ReturnSerial(t)'
  BY <1>1, <1>2, <1>3, <1>4, <1>6, <1>7, ReturningStep DEF Returning
<1>9. QED
  BY <1>2, <1>3, <1>4, <1>8, SerialMoves

LEMMA InsertReturnSerial ==
    ASSUME OrderTyped, OrderSerialInv, overlapped = "none", NEW t \in Transactions, InsertReturn(t)
    PROVE  OrderSerialInv'
<1> DEFINE d == request[t].sale
           others == returns \cup UNION {request[u].returns : u \in Transactions}
<1>1. PICK i \in request[t].item :
        /\ \A r \in others : << r.sale, r.item, r.order >> # << d, i, request[t].number >>
        /\ request' = [request EXCEPT ![t].returns = @ \cup
                {[sale |-> d, item |-> i, order |-> request[t].number,
                  quantity |-> request[t].asked[i]]}]
  BY DEF InsertReturn
<1> DEFINE row == [sale |-> d, item |-> i, order |-> request[t].number,
                   quantity |-> request[t].asked[i]]
           q == [request[t] EXCEPT !.returns = @ \cup {row}]
<1>2. /\ step[t] = "insert return" /\ step' = [step EXCEPT ![t] = "returned"] /\ Read
      /\ request' = [request EXCEPT ![t] = q] /\ request[t] \in RequestRows
  BY <1>1 DEF InsertReturn, AtStep, GoTo, OrderTyped
<1>3. /\ q.kind = request[t].kind /\ q.sale = d
      /\ q.asked = request[t].asked /\ q.linked = request[t].linked
      /\ q.item = request[t].item /\ q.todo = request[t].todo /\ q.seen = request[t].seen
      /\ q.returns = request[t].returns \cup {row}
  BY <1>2 DEF RequestRows
<1>4. row.sale = d /\ row.item = i /\ row.quantity = request[t].asked[i] /\ row \notin returns
  <2>1. \A r \in returns : << r.sale, r.item, r.order >> # << d, i, request[t].number >>
    BY <1>1
  <2>2. QED
    BY <2>1
<1> HIDE DEF q, row
<1>5. /\ request[t].kind \in {"partial", "full"} /\ ReturnSerial(t) /\ ReturnWrote(t)
      /\ OnlyDiffers(t, SaleLines(t)) /\ request[t].item \subseteq Items
  BY <1>2, ReturningAt DEF Returning
<1>6. table[<< d, i >>] # Absent
  BY <1>1, <1>2, <1>5, ReturnAt DEF ReturnKnows
<1>7. /\ Quiet(t) /\ request'[t] = q /\ step'[t] = "returned" /\ table' = table
      /\ returns' = returns /\ FromWorkOrder' = FromWorkOrder
      /\ \A c, j : LineSeen(t, c, j)' = LineSeen(t, c, j)
      /\ Differs(t)' = Differs(t)
  BY <1>2, ReadsView
<1>8. /\ \A r \in request[t].returns :
            /\ r.sale = d /\ r.quantity = request[t].asked[r.item]
            /\ r \notin returns /\ table[<< d, r.item >>] # Absent
            /\ r.item \notin request[t].todo /\ r.item \notin request[t].item
      /\ \A r, o \in request[t].returns : r.item = o.item => r = o
      /\ request[t].item \cap request[t].todo = {}
      /\ \A j, l \in request[t].item : j = l
      /\ \A j \in request[t].item : request[t].seen[j] = table[<< d, j >>].returned
  BY <1>2, <1>5 DEF ReturnWrote, RowsWritten, RowsAhead, LinesReturned, Returning, Numbering
<1>9. \A r \in q.returns :
            /\ r.sale = d /\ r.quantity = request[t].asked[r.item]
            /\ r \notin returns /\ table[<< d, r.item >>] # Absent
            /\ r.item \notin request[t].todo
  BY <1>1, <1>3, <1>4, <1>6, <1>8
<1>10. \A r, o \in q.returns : r.item = o.item => r = o
  <2> SUFFICES ASSUME NEW r \in q.returns, NEW o \in q.returns, r.item = o.item PROVE r = o
    OBVIOUS
  <2>1. \A x \in request[t].returns : x.item # i
    BY <1>1, <1>8
  <2>2. (r = row \/ r \in request[t].returns) /\ (o = row \/ o \in request[t].returns)
    BY <1>3
  <2>3. QED
    BY <1>4, <1>8, <2>1, <2>2
<1>11. \A j \in request[t].item : \E r \in q.returns : r.item = j
  BY <1>1, <1>3, <1>4, <1>8
<1>12. \A j : LineWritten(t, j)' <=> LineWritten(t, j)
  <2> SUFFICES ASSUME NEW j PROVE LineWritten(t, j)' <=> LineWritten(t, j)
    OBVIOUS
  <2>1. LineWritten(t, j)' <=> (\E r \in q.returns : r.item = j) /\ j \notin request[t].item
    BY <1>3, <1>7 DEF LineWritten
  <2>2. LineWritten(t, j) <=> \E r \in request[t].returns : r.item = j
    BY <1>2 DEF LineWritten
  <2>3. CASE j = i
    BY <1>1, <1>8, <2>1, <2>2, <2>3
  <2>4. CASE j # i
    <3>1. j \notin request[t].item
      BY <1>1, <1>8, <2>4
    <3>2. (\E r \in q.returns : r.item = j) <=> \E r \in request[t].returns : r.item = j
      BY <1>3, <1>4, <2>4
    <3>3. QED
      BY <2>1, <2>2, <3>1, <3>2
  <2>5. QED
    BY <2>3, <2>4
<1>13. LinesReturned(t)'
  BY <1>3, <1>5, <1>7, <1>12 DEF ReturnWrote, LinesReturned
<1>14. ReturnWrote(t)'
  <2>1. RowsWritten(t)'
    BY <1>3, <1>7, <1>9, <1>10 DEF RowsWritten
  <2>2. RowsAhead(t)'
    BY <1>3, <1>7, <1>8, <1>9, <1>11 DEF RowsAhead, Returning, Numbering
  <2>3. QED
    BY <1>13, <2>1, <2>2 DEF ReturnWrote
<1>15. OnlyDiffers(t, SaleLines(t))'
  BY <1>3, <1>5, <1>7 DEF OnlyDiffers, SaleLines
<1>16. ReturnSerial(t)'
  BY <1>2, <1>3, <1>5, <1>7, <1>14, <1>15, ReturningStep DEF Returning
<1>17. QED
  BY <1>3, <1>5, <1>7, <1>16, SerialMoves

LEMMA WriteReturnedSerial ==
    ASSUME OrderTyped, OrderSerialInv, overlapped = "none", NEW t \in Transactions, WriteReturned(t)
    PROVE  OrderSerialInv'
<1> DEFINE d == request[t].sale
<1>1. PICK i \in request[t].item :
        WriteRows(t, One(<< d, i >>, [LineSeen(t, d, i) EXCEPT
                    !.returned = ReturnedAfter(request[t].seen[i], request[t].asked[i])]))
  BY DEF WriteReturned
<1> DEFINE row == [LineSeen(t, d, i) EXCEPT
                    !.returned = ReturnedAfter(request[t].seen[i], request[t].asked[i])]
           f == One(<< d, i >>, row)
<1>2. /\ step[t] = "returned" /\ step' = [step EXCEPT ![t] = "line"] /\ WriteRows(t, f)
      /\ request' = [request EXCEPT ![t] = request[t]]
  BY <1>1 DEF WriteReturned, AtStep, GoTo, OrderTyped
<1>3. /\ request[t].kind \in {"partial", "full"} /\ ReturnSerial(t) /\ ReturnWrote(t)
      /\ OnlyDiffers(t, SaleLines(t)) /\ request[t].item \subseteq Items
      /\ d \in Sales /\ d \in Documents
  BY <1>2, ReturningAt DEF Returning
<1>4. i \in Items /\ table[<< d, i >>] # Absent
  BY <1>1, <1>2, <1>3, ReturnAt DEF ReturnKnows
<1>5. row.returned = request[t].seen[i] + request[t].asked[i]
  <2>1. LineSeen(t, d, i) \in LineRows
    BY <1>3, <1>4, SeenDocuments DEF LinesFor
  <2>2. QED
    BY <2>1 DEF LineRows, ReturnedAfter
<1> HIDE DEF row
<1>6. DOMAIN f = {<< d, i >>} /\ f[<< d, i >>] = row
  BY OneIs
<1> HIDE DEF f
<1>7. /\ Quiet(t) /\ request'[t] = request[t] /\ step'[t] = "line" /\ table' = table
      /\ returns' = returns /\ FromWorkOrder' = FromWorkOrder
      /\ \A r : Seen(t, r)' = IF r \in DOMAIN f THEN f[r] ELSE Seen(t, r)
      /\ Differs(t)' \subseteq Differs(t) \cup DOMAIN f
  BY <1>2, WritesView
<1>8. LineSeen(t, d, i)' = row /\ \A j \in Items : j # i => LineSeen(t, d, j)' = LineSeen(t, d, j)
  BY <1>6, <1>7 DEF LineSeen
<1>9. /\ \A r \in request[t].returns :
            /\ r.sale = d /\ r.quantity = request[t].asked[r.item]
            /\ r \notin returns /\ table[<< d, r.item >>] # Absent
            /\ r.item \notin request[t].todo
      /\ \A r, o \in request[t].returns : r.item = o.item => r = o
      /\ \A j, l \in request[t].item : j = l
      /\ request[t].seen[i] = table[<< d, i >>].returned
      /\ \E r \in request[t].returns : r.item = i
  BY <1>1, <1>2, <1>3 DEF ReturnWrote, RowsWritten, RowsAhead, LinesReturned, Returning
<1>10. \A j \in Items : table[<< d, j >>] # Absent =>
         LineSeen(t, d, j)'.returned = table[<< d, j >>].returned
                                  + IF LineWritten(t, j)' THEN request[t].asked[j] ELSE 0
  <2> SUFFICES ASSUME NEW j \in Items, table[<< d, j >>] # Absent
               PROVE  LineSeen(t, d, j)'.returned = table[<< d, j >>].returned
                                  + IF LineWritten(t, j)' THEN request[t].asked[j] ELSE 0
    OBVIOUS
  <2>1. LineWritten(t, j)' <=> \E r \in request[t].returns : r.item = j
    BY <1>7 DEF LineWritten
  <2>2. CASE j = i
    BY <1>5, <1>8, <1>9, <2>1, <2>2
  <2>3. CASE j # i
    <3>1. j \notin request[t].item
      BY <1>1, <1>9, <2>3
    <3>2. LineWritten(t, j) <=> LineWritten(t, j)'
      BY <2>1, <3>1 DEF LineWritten
    <3>3. LineSeen(t, d, j).returned = table[<< d, j >>].returned
                                  + IF LineWritten(t, j) THEN request[t].asked[j] ELSE 0
      BY <1>3 DEF ReturnWrote, RowsWritten, RowsAhead, LinesReturned
    <3>4. QED
      BY <1>8, <2>3, <3>2, <3>3
  <2>4. QED
    BY <2>2, <2>3
<1>11. ReturnWrote(t)'
  <2>1. RowsWritten(t)'
    BY <1>3, <1>7 DEF ReturnWrote, RowsWritten
  <2>2. RowsAhead(t)'
    BY <1>7, <1>9 DEF RowsAhead, Returning, Numbering
  <2>3. LinesReturned(t)'
    BY <1>7, <1>10 DEF LinesReturned
  <2>4. QED
    BY <2>1, <2>2, <2>3 DEF ReturnWrote
<1>12. OnlyDiffers(t, SaleLines(t))'
  BY <1>3, <1>4, <1>6, <1>7 DEF OnlyDiffers, SaleLines
<1>13. ReturnSerial(t)'
  BY <1>2, <1>3, <1>7, <1>11, <1>12, ReturningStep DEF Returning
<1>14. QED
  BY <1>3, <1>7, <1>13, SerialMoves

LEMMA ReadSituationSerial ==
    ASSUME OrderTyped, OrderSerialInv, overlapped = "none", NEW t \in Transactions, ReadSituation(t)
    PROVE  OrderSerialInv'
<1> DEFINE x == SituationOf(SaleLinesSeen(t))
           q == [request[t] EXCEPT !.situation = x]
<1>1. /\ step[t] = "line" /\ step' = [step EXCEPT ![t] = "situation"] /\ Read
      /\ request' = [request EXCEPT ![t] = q] /\ request[t] \in RequestRows
  BY DEF ReadSituation, AtStep, GoTo, OrderTyped
<1> HIDE DEF x
<1>2. /\ q.kind = request[t].kind /\ q.returns = request[t].returns /\ q.sale = request[t].sale
      /\ q.asked = request[t].asked /\ q.linked = request[t].linked /\ q.situation = x
  BY <1>1 DEF RequestRows
<1> HIDE DEF q
<1>3. /\ request[t].kind \in {"partial", "full"} /\ ReturnSerial(t) /\ ReturnWrote(t)
      /\ OnlyDiffers(t, SaleLines(t))
  BY <1>1, ReturningAt DEF Returning
<1>4. /\ Quiet(t) /\ request'[t] = q /\ step'[t] = "situation" /\ table' = table
      /\ returns' = returns /\ FromWorkOrder' = FromWorkOrder
      /\ \A r : Seen(t, r)' = Seen(t, r)
      /\ \A c, j : LineSeen(t, c, j)' = LineSeen(t, c, j)
      /\ Differs(t)' = Differs(t) /\ SaleLinesSeen(t)' = SaleLinesSeen(t)
  BY <1>1, <1>2, ReadsView
<1>5. SaleKept(t, q)
  BY <1>2, <1>4 DEF SaleKept
<1>6. /\ ReturnWrote(t)' /\ (AskedAll(t) => AskedAll(t)') /\ SaleLines(t)' = SaleLines(t)
  BY <1>1, <1>3, <1>4, <1>5, SaleStays DEF Returning
<1>7. request'[t].situation = SituationOf(SaleLinesSeen(t))'
  BY <1>2, <1>4 DEF x, SituationOf
<1>8. /\ table[request[t].sale].status \in {"FINALIZADA", "PARCIAL"}
      /\ request[t].linked => table[request[t].sale].linked /\ FromWorkOrder
      /\ request[t].kind = "full" => AskedAll(t)
  BY <1>1, <1>3 DEF ReturnSerial
<1>9. ReturnSerial(t)'
  BY <1>2, <1>3, <1>4, <1>6, <1>7, <1>8 DEF ReturnSerial, OnlyDiffers, Returning
<1>10. QED
  BY <1>2, <1>3, <1>4, <1>9, SerialMoves

\* A full return that had nothing left to ask for finds every line returned.
LEMMA NothingLeftIsTotal ==
    ASSUME OrderTyped, NEW t \in Transactions, request[t].kind \in {"partial", "full"},
           ReturnWrote(t), AskedAll(t), \A i \in Items : request[t].asked[i] = 0,
           NEW m \in SaleLinesSeen(t), m.returned > 0
    PROVE  SituationOf(SaleLinesSeen(t)) = "TOTAL"
<1> DEFINE d == request[t].sale
<1>1. ASSUME NEW l \in SaleLinesSeen(t) PROVE l.returned >= l.quantity
  <2>1. PICK i \in Items : LineSeen(t, d, i) # Absent /\ l = LineSeen(t, d, i)
    BY <1>1 DEF SaleLinesSeen, ItemsOf
  <2>2. /\ table[<< d, i >>] # Absent /\ table[<< d, i >>].quantity = l.quantity
        /\ table[<< d, i >>] \in LineRows
    BY <2>1, ReturnAt, TypedRows DEF OrderTyped, LinesFor
  <2>3. table[<< d, i >>].quantity - table[<< d, i >>].returned = 0
    BY <2>2 DEF AskedAll, Returnable
  <2>4. l.returned = table[<< d, i >>].returned + 0
    BY <2>1, <2>2 DEF ReturnWrote, LinesReturned
  <2>5. QED
    BY <2>2, <2>3, <2>4 DEF LineRows
<1>2. ~\A l \in SaleLinesSeen(t) : l.returned = 0
  OBVIOUS
<1>3. QED
  BY <1>1, <1>2 DEF SituationOf

LEMMA WriteSituationSerial ==
    ASSUME OrderTyped, OrderSerialInv, overlapped = "none", NEW t \in Transactions, WriteSituation(t)
    PROVE  OrderSerialInv'
<1> DEFINE d == request[t].sale
           k == request[t].kind
           status == IF NothingLeft(t) THEN "CANCELADA"
                     ELSE StatusOfSituation(request[t].situation)
           row == [SaleSeen(t) EXCEPT !.situation = request[t].situation, !.status = status]
           f == One(d, row)
           s == IF Reopens(t, status) THEN "reopen" ELSE "commit"
<1>1. /\ step[t] = "situation" /\ step' = [step EXCEPT ![t] = s] /\ WriteRows(t, f)
      /\ request' = [request EXCEPT ![t] = request[t]]
  BY DEF WriteSituation, AtStep, GoTo, OrderTyped
<1>2. s = "reopen" => k = "full" /\ request[t].linked /\ status = "CANCELADA"
  BY DEF Reopens
<1>3. s \in {"reopen", "commit"}
  OBVIOUS
<1>4. k \in {"partial", "full"} /\ d \in Sales /\ d \in Documents /\ d # Order
  BY <1>1, KindOfStep, ReturnAt
<1>5. ReturnSerial(t)
  BY <1>1, <1>4, SerialAt DEF InProgress
<1>6. /\ table[d].status \in {"FINALIZADA", "PARCIAL"}
      /\ request[t].linked => table[d].linked /\ FromWorkOrder
      /\ ReturnWrote(t) /\ (k = "full" => AskedAll(t))
      /\ OnlyDiffers(t, SaleLines(t))
      /\ request[t].situation = SituationOf(SaleLinesSeen(t))
  BY <1>1, <1>5 DEF ReturnSerial, Returning
<1>7. (\E l \in SaleLinesSeen(t) : l.returned > 0) =>
        status = StatusOfSituation(SituationOf(SaleLinesSeen(t)))
  <2>1. CASE NothingLeft(t)
    <3>1. AskedAll(t) /\ \A i \in Items : request[t].asked[i] = 0
      BY <1>6, <2>1 DEF NothingLeft
    <3>2. ASSUME NEW l \in SaleLinesSeen(t), l.returned > 0
          PROVE  SituationOf(SaleLinesSeen(t)) = "TOTAL"
      BY <1>4, <1>6, <3>1, <3>2, NothingLeftIsTotal
    <3>3. status = "CANCELADA"
      BY <2>1
    <3>4. QED
      BY <3>2, <3>3 DEF StatusOfSituation
  <2>2. CASE ~NothingLeft(t)
    BY <1>6, <2>2
  <2>3. QED
    BY <2>1, <2>2
<1>8. SaleSeen(t) = table[d] /\ SaleSeen(t) \in DocumentRows
  <2>1. d \notin SaleLines(t)
    BY <1>4, NamesDiffer DEF SaleLines
  <2>2. QED
    BY <1>4, <1>6, <2>1, ReturnAt, SeenElsewhere DEF SaleSeen
<1> HIDE DEF s, status
<1>9. row.status = status /\ row.situation = request[t].situation /\ row.linked = SaleSeen(t).linked
  BY <1>8 DEF DocumentRows
<1> HIDE DEF row
<1>10. DOMAIN f = {d} /\ f[d] = row
  BY OneIs
<1> HIDE DEF f
<1>11. /\ Quiet(t) /\ request'[t] = request[t] /\ step'[t] = s /\ table' = table
       /\ returns' = returns /\ FromWorkOrder' = FromWorkOrder
       /\ \A r : Seen(t, r)' = IF r \in DOMAIN f THEN f[r] ELSE Seen(t, r)
       /\ Differs(t)' \subseteq Differs(t) \cup DOMAIN f
  BY <1>1, WritesView
<1>12. \A i \in Items : LineSeen(t, d, i)' = LineSeen(t, d, i)
  <2>1. \A i \in Items : << d, i >> \notin DOMAIN f
    BY <1>4, <1>10, LinesApart
  <2>2. QED
    BY <1>11, <2>1 DEF LineSeen
<1>13. SaleSeen(t)' = row
  BY <1>10, <1>11 DEF SaleSeen
<1>14. SaleLinesSeen(t)' = SaleLinesSeen(t)
  <2>1. ItemsOf(t, d)' = ItemsOf(t, d)
    BY <1>11, <1>12 DEF ItemsOf
  <2>2. \A i \in ItemsOf(t, d) : LineSeen(t, d, i)' = LineSeen(t, d, i)
    BY <1>12 DEF ItemsOf
  <2>3. QED
    BY <1>11, <2>1, <2>2 DEF SaleLinesSeen
<1>15. ReturnWrote(t)' /\ (AskedAll(t) => AskedAll(t)') /\ SaleLines(t)' = SaleLines(t)
  <2>1. \A i : LineWritten(t, i)' <=> LineWritten(t, i)
    BY <1>1, <1>3, <1>11 DEF LineWritten
  <2>2. RowsWritten(t)'
    BY <1>6, <1>11 DEF ReturnWrote, RowsWritten
  <2>3. RowsAhead(t)'
    BY <1>3, <1>11 DEF RowsAhead, Returning, Numbering
  <2>4. LinesReturned(t)'
    BY <1>6, <1>11, <1>12, <2>1 DEF ReturnWrote, LinesReturned
  <2>5. AskedAll(t) => AskedAll(t)'
    BY <1>11 DEF AskedAll
  <2>6. QED
    BY <1>11, <2>2, <2>3, <2>4, <2>5 DEF ReturnWrote, SaleLines
<1>16. SituationWritten(t)'
  BY <1>6, <1>7, <1>8, <1>9, <1>11, <1>13, <1>14 DEF SituationWritten
<1>17. s = "reopen" => Reopening(t)'
  BY <1>2, <1>6, <1>9, <1>11, <1>13 DEF Reopening
<1>18. Differs(t)' \subseteq SaleLines(t) \cup {d}
  BY <1>6, <1>10, <1>11 DEF OnlyDiffers
<1>19. ReturnSerial(t)'
  <2>1. s = "reopen" \/ s = "commit"
    BY <1>3
  <2>2. CASE s = "reopen"
    BY <1>6, <1>11, <1>15, <1>16, <1>17, <1>18, <2>2 DEF ReturnSerial, OnlyDiffers, Returning
  <2>3. CASE s = "commit"
    BY <1>6, <1>11, <1>15, <1>16, <1>18, <2>3 DEF ReturnSerial, OnlyDiffers, Returning
  <2>4. QED
    BY <2>1, <2>2, <2>3
<1>20. QED
  BY <1>4, <1>11, <1>19, SerialMoves

\* Giving back to the order what a cancelled sale had of its lines.
LEMMA GivingBackAt ==
    ASSUME OrderTyped, OrderSerialInv, overlapped = "none", NEW t \in Transactions,
           step[t] \in {"reopen", "give back", "given back"}
    PROVE  /\ request[t].kind \in {"partial", "full"} /\ request[t].sale \in Sales
           /\ request[t].sale \in Documents /\ request[t].sale # Order
           /\ request[t].todo \subseteq Items
           /\ ReturnSerial(t) /\ ReturnWrote(t) /\ SituationWritten(t) /\ Reopening(t)
           /\ request[t].kind = "full" => AskedAll(t)
           /\ table[request[t].sale].status \in {"FINALIZADA", "PARCIAL"}
           /\ request[t].linked => table[request[t].sale].linked /\ FromWorkOrder
<1>1. request[t].kind \in {"partial", "full"}
  BY KindOfStep
<1>2. ReturnSerial(t)
  BY <1>1, SerialAt DEF InProgress
<1>3. QED
  BY <1>1, <1>2, ReturnAt DEF ReturnSerial, Returning

LEMMA GivingBackStep ==
    ASSUME NEW t \in Transactions, NEW q, SaleKept(t, q), FromWorkOrder' = FromWorkOrder,
           step[t] \in {"reopen", "give back", "given back"},
           step'[t] \in {"give back", "given back"},
           ReturnWrote(t), SituationWritten(t), Reopening(t),
           request[t].kind = "full" => AskedAll(t),
           table[request[t].sale].status \in {"FINALIZADA", "PARCIAL"},
           request[t].linked => table[request[t].sale].linked /\ FromWorkOrder,
           Differs(t)' \subseteq SaleLines(t) \cup {request[t].sale} \cup ({Order} \X Items),
           GivesBack(t)'
    PROVE  ReturnSerial(t)'
<1>1. /\ ReturnWrote(t)' /\ (AskedAll(t) => AskedAll(t)') /\ SituationWritten(t)'
      /\ Reopening(t)' /\ SaleLines(t)' = SaleLines(t)
  BY SaleStays DEF Returning
<1>2. /\ request'[t] = q /\ q.kind = request[t].kind /\ q.sale = request[t].sale
      /\ q.linked = request[t].linked /\ table' = table
  BY DEF SaleKept
<1>3. OnlyDiffers(t, SaleLines(t) \cup {request[t].sale} \cup ({Order} \X Items))'
  BY <1>1, <1>2 DEF OnlyDiffers
<1>4. QED
  BY <1>1, <1>2, <1>3 DEF ReturnSerial, Returning

LEMMA ReadGeneratedLinesSerial ==
    ASSUME OrderTyped, OrderSerialInv, overlapped = "none", NEW t \in Transactions,
           ReadGeneratedLines(t)
    PROVE  OrderSerialInv'
<1> DEFINE d == request[t].sale
           S == {i \in ItemsOf(t, d) : LineSeen(t, d, i).linked}
           q == [request[t] EXCEPT !.todo = S]
<1>1. /\ step[t] = "reopen" /\ step' = [step EXCEPT ![t] = IF SaleSeen(t).linked THEN "give back"
                                                           ELSE "commit"]
      /\ Read /\ request' = [request EXCEPT ![t] = q] /\ request[t] \in RequestRows
  BY DEF ReadGeneratedLines, AtStep, GoTo, OrderTyped
<1>2. S \subseteq Items
  BY DEF ItemsOf
<1> HIDE DEF S
<1>3. /\ q.kind = request[t].kind /\ q.returns = request[t].returns /\ q.sale = d
      /\ q.asked = request[t].asked /\ q.linked = request[t].linked /\ q.todo = S
  BY <1>1 DEF RequestRows
<1> HIDE DEF q
<1>4. /\ request[t].kind \in {"partial", "full"} /\ d \in Sales /\ d \in Documents /\ d # Order
      /\ ReturnSerial(t) /\ ReturnWrote(t) /\ SituationWritten(t) /\ Reopening(t)
      /\ request[t].kind = "full" => AskedAll(t)
      /\ table[d].status \in {"FINALIZADA", "PARCIAL"}
      /\ request[t].linked => table[d].linked /\ FromWorkOrder
  BY <1>1, GivingBackAt
<1>5. step' = [step EXCEPT ![t] = "give back"]
  BY <1>1, <1>4 DEF SituationWritten, Reopening
<1>6. /\ Quiet(t) /\ request'[t] = q /\ step'[t] = "give back" /\ table' = table
      /\ returns' = returns /\ FromWorkOrder' = FromWorkOrder
      /\ \A r : Seen(t, r)' = Seen(t, r)
      /\ \A c, j : LineSeen(t, c, j)' = LineSeen(t, c, j)
      /\ Differs(t)' = Differs(t)
  <2>1. Read /\ request' = [request EXCEPT ![t] = q]
    BY <1>1
  <2>2. QED
    BY <1>5, <2>1, ReadsView
<1>7. SaleKept(t, q)
  BY <1>3, <1>6 DEF SaleKept
<1>8. OnlyDiffers(t, SaleLines(t) \cup {d})
  BY <1>1, <1>4 DEF ReturnSerial
<1>9. \A i \in Items : LineSeen(t, Order, i) = table[<< Order, i >>]
  <2>1. \A i \in Items : << Order, i >> \notin SaleLines(t) \cup {d}
    BY <1>4, NamesDiffer DEF SaleLines
  <2>2. QED
    BY <1>8, <2>1, SeenElsewhere, NamesDiffer
<1>10. GivesBack(t)'
  <2>1. \A i \in Items : LineSeen(t, Order, i)'.converted
            >= table[<< Order, i >>].converted - QuantityAt(table, d, i)
    <3> SUFFICES ASSUME NEW i \in Items
                 PROVE  table[<< Order, i >>].converted
                          >= table[<< Order, i >>].converted - QuantityAt(table, d, i)
      BY <1>6, <1>9
    <3>1. table[<< Order, i >>].converted \in Nat
      BY TypedRows DEF OrderTyped, LinesFor, LineRows
    <3>2. QuantityAt(table, d, i) \in Nat
      BY <1>4, QuantityIsNat DEF OrderTyped
    <3>3. QED
      BY <3>1, <3>2
  <2>2. \A i \in q.todo : LineSeen(t, Order, i)' = table[<< Order, i >>]
    BY <1>2, <1>3, <1>6, <1>9
  <2>3. QED
    BY <1>3, <1>6, <2>1, <2>2 DEF GivesBack
<1>11. ReturnSerial(t)'
  BY <1>1, <1>4, <1>6, <1>7, <1>8, <1>10, GivingBackStep DEF OnlyDiffers
<1>12. QED
  BY <1>3, <1>4, <1>6, <1>11, SerialMoves

LEMMA ReadOrderLineSerial ==
    ASSUME OrderTyped, OrderSerialInv, overlapped = "none", NEW t \in Transactions, ReadOrderLine(t)
    PROVE  OrderSerialInv'
<1> DEFINE d == request[t].sale
<1>1. PICK i \in request[t].todo :
          request' = [request EXCEPT ![t].item = {i}, ![t].todo = @ \ {i},
                         ![t].seen[i] = LineSeen(t, Order, i).converted]
  BY DEF ReadOrderLine
<1> DEFINE q == [request[t] EXCEPT !.item = {i}, !.todo = @ \ {i},
                         !.seen[i] = LineSeen(t, Order, i).converted]
<1>2. request' = [request EXCEPT ![t] = q]
  BY <1>1
<1>3. /\ step[t] = "give back" /\ step' = [step EXCEPT ![t] = "given back"] /\ Read
      /\ request[t] \in RequestRows
  BY DEF ReadOrderLine, AtStep, GoTo, OrderTyped
<1>4. /\ request[t].kind \in {"partial", "full"} /\ d \in Sales /\ d \in Documents /\ d # Order
      /\ request[t].todo \subseteq Items
      /\ ReturnSerial(t) /\ ReturnWrote(t) /\ SituationWritten(t) /\ Reopening(t)
      /\ request[t].kind = "full" => AskedAll(t)
      /\ table[d].status \in {"FINALIZADA", "PARCIAL"}
      /\ request[t].linked => table[d].linked /\ FromWorkOrder
  BY <1>3, GivingBackAt
<1>5. i \in Items
  BY <1>1, <1>4
<1>6. /\ q.kind = request[t].kind /\ q.returns = request[t].returns /\ q.sale = d
      /\ q.asked = request[t].asked /\ q.linked = request[t].linked
      /\ q.item = {i} /\ q.todo = request[t].todo \ {i}
  BY <1>3 DEF RequestRows
<1>7. q.seen[i] = LineSeen(t, Order, i).converted
  <2>1. request[t].seen \in Amounts
    BY RequestOf
  <2>2. q.seen = [request[t].seen EXCEPT ![i] = LineSeen(t, Order, i).converted]
    BY <1>3 DEF RequestRows
  <2> HIDE DEF q
  <2>3. QED
    BY <1>5, <2>1, <2>2 DEF Amounts
<1> HIDE DEF q
<1>8. /\ Quiet(t) /\ request'[t] = q /\ step'[t] = "given back" /\ table' = table
      /\ returns' = returns /\ FromWorkOrder' = FromWorkOrder
      /\ \A r : Seen(t, r)' = Seen(t, r)
      /\ \A c, j : LineSeen(t, c, j)' = LineSeen(t, c, j)
      /\ Differs(t)' = Differs(t)
  BY <1>2, <1>3, ReadsView
<1>9. SaleKept(t, q)
  BY <1>6, <1>8 DEF SaleKept
<1>10. /\ OnlyDiffers(t, SaleLines(t) \cup {d} \cup ({Order} \X Items)) /\ GivesBack(t)
  BY <1>3, <1>4 DEF ReturnSerial
<1>11. /\ \A j \in Items : LineSeen(t, Order, j).converted
              >= table[<< Order, j >>].converted - QuantityAt(table, d, j)
       /\ \A j \in request[t].todo : LineSeen(t, Order, j) = table[<< Order, j >>]
  BY <1>3, <1>10 DEF GivesBack
<1>12. GivesBack(t)'
  <2>1. \A j \in q.todo : LineSeen(t, Order, j)' = table[<< Order, j >>]
    BY <1>6, <1>8, <1>11
  <2>2. q.item \cap q.todo = {} /\ \A j \in q.item : q.seen[j] = table[<< Order, j >>].converted
    BY <1>1, <1>6, <1>7, <1>11
  <2>3. \A j \in Items : LineSeen(t, Order, j)'.converted
              >= table[<< Order, j >>].converted - QuantityAt(table, d, j)
    BY <1>8, <1>11
  <2>4. QED
    BY <1>6, <1>8, <2>1, <2>2, <2>3 DEF GivesBack
<1>13. ReturnSerial(t)'
  BY <1>3, <1>4, <1>8, <1>9, <1>10, <1>12, GivingBackStep DEF OnlyDiffers
<1>14. QED
  BY <1>4, <1>6, <1>8, <1>13, SerialMoves

LEMMA WriteOrderLineSerial ==
    ASSUME OrderTyped, OrderSerialInv, overlapped = "none", NEW t \in Transactions, WriteOrderLine(t)
    PROVE  OrderSerialInv'
<1> DEFINE d == request[t].sale
<1>1. PICK i \in request[t].item :
        WriteRows(t, One(<< Order, i >>, [LineSeen(t, Order, i) EXCEPT !.converted =
            GivenBack(request[t].seen[i], LineSeen(t, d, i).quantity)]))
  BY DEF WriteOrderLine
<1> DEFINE back == GivenBack(request[t].seen[i], LineSeen(t, d, i).quantity)
           row == [LineSeen(t, Order, i) EXCEPT !.converted = back]
           f == One(<< Order, i >>, row)
<1>2. /\ step[t] = "given back" /\ step' = [step EXCEPT ![t] = "give back"] /\ WriteRows(t, f)
      /\ request' = [request EXCEPT ![t] = request[t]]
  BY <1>1 DEF WriteOrderLine, AtStep, GoTo, OrderTyped
<1>3. /\ request[t].kind \in {"partial", "full"} /\ d \in Sales /\ d \in Documents /\ d # Order
      /\ request[t].todo \subseteq Items
      /\ ReturnSerial(t) /\ ReturnWrote(t) /\ SituationWritten(t) /\ Reopening(t)
      /\ request[t].kind = "full" => AskedAll(t)
      /\ table[d].status \in {"FINALIZADA", "PARCIAL"}
      /\ request[t].linked => table[d].linked /\ FromWorkOrder
  BY <1>2, GivingBackAt
<1>4. i \in Items /\ request[t].seen[i] \in Nat
  BY <1>1, RequestOf DEF Amounts
<1>5. table[<< d, i >>] # Absent
  BY <1>1, <1>2, <1>3, ReturnAt DEF ReturnKnows
<1>6. /\ OnlyDiffers(t, SaleLines(t) \cup {d} \cup ({Order} \X Items)) /\ GivesBack(t)
  BY <1>2, <1>3 DEF ReturnSerial
<1>7. /\ \A j \in Items : LineSeen(t, Order, j).converted
              >= table[<< Order, j >>].converted - QuantityAt(table, d, j)
      /\ \A j \in request[t].todo : LineSeen(t, Order, j) = table[<< Order, j >>]
      /\ i \notin request[t].todo /\ request[t].seen[i] = table[<< Order, i >>].converted
  BY <1>1, <1>2, <1>6 DEF GivesBack
<1>8. back >= table[<< Order, i >>].converted - QuantityAt(table, d, i)
  <2>1. LineSeen(t, d, i).quantity = table[<< d, i >>].quantity
        /\ LineSeen(t, d, i).quantity \in Nat
    BY <1>3, <1>4, <1>5, SeenDocuments DEF LinesFor, LineRows
  <2>2. QuantityAt(table, d, i) = LineSeen(t, d, i).quantity
    BY <1>5, <2>1 DEF QuantityAt
  <2>3. back \in Nat /\ request[t].seen[i] - LineSeen(t, d, i).quantity <= back
    BY <1>4, <2>1, GivenBackIs
  <2> HIDE DEF back
  <2>4. QED
    BY <1>4, <1>7, <2>1, <2>2, <2>3
<1> HIDE DEF back
<1>9. row.converted = back
  <2>1. LineSeen(t, Order, i) \in LineRows
    BY <1>4, SeenDocuments DEF LinesFor
  <2>2. QED
    BY <2>1 DEF LineRows
<1> HIDE DEF row
<1>10. DOMAIN f = {<< Order, i >>} /\ f[<< Order, i >>] = row
  BY OneIs
<1> HIDE DEF f
<1>11. /\ Quiet(t) /\ request'[t] = request[t] /\ step'[t] = "give back" /\ table' = table
       /\ returns' = returns /\ FromWorkOrder' = FromWorkOrder
       /\ \A r : Seen(t, r)' = IF r \in DOMAIN f THEN f[r] ELSE Seen(t, r)
       /\ Differs(t)' \subseteq Differs(t) \cup DOMAIN f
  BY <1>2, WritesView
<1>12. /\ LineSeen(t, Order, i)' = row
       /\ \A j \in Items : j # i => LineSeen(t, Order, j)' = LineSeen(t, Order, j)
  BY <1>10, <1>11 DEF LineSeen
<1>13. SaleKept(t, request[t])
  <2>1. d \notin DOMAIN f /\ \A j \in Items : << d, j >> \notin DOMAIN f
    BY <1>3, <1>4, <1>10, NamesDiffer
  <2>2. Seen(t, d)' = Seen(t, d) /\ \A j \in Items : LineSeen(t, d, j)' = LineSeen(t, d, j)
    BY <1>11, <2>1 DEF LineSeen
  <2>3. QED
    BY <1>11, <2>2 DEF SaleKept
<1>14. GivesBack(t)'
  <2>1. \A j \in Items : LineSeen(t, Order, j)'.converted
              >= table[<< Order, j >>].converted - QuantityAt(table, d, j)
    <3> SUFFICES ASSUME NEW j \in Items
                 PROVE  LineSeen(t, Order, j)'.converted
                          >= table[<< Order, j >>].converted - QuantityAt(table, d, j)
      OBVIOUS
    <3>1. CASE j = i
      BY <1>8, <1>9, <1>12, <3>1
    <3>2. CASE j # i
      BY <1>7, <1>12, <3>2
    <3>3. QED
      BY <3>1, <3>2
  <2>2. \A j \in request[t].todo : LineSeen(t, Order, j)' = table[<< Order, j >>]
    BY <1>3, <1>7, <1>12
  <2>3. QED
    BY <1>11, <2>1, <2>2 DEF GivesBack
<1>15. Differs(t)' \subseteq SaleLines(t) \cup {d} \cup ({Order} \X Items)
  <2> DEFINE D == SaleLines(t) \cup {d} \cup ({Order} \X Items)
  <2>1. DOMAIN f \subseteq {Order} \X Items
    BY <1>4, <1>10
  <2>2. DOMAIN f \subseteq D /\ Differs(t) \subseteq D
    BY <1>6, <2>1 DEF OnlyDiffers
  <2> HIDE DEF D
  <2>3. Differs(t)' \subseteq D
    BY <1>11, <2>2
  <2>4. QED
    BY <2>3 DEF D
<1>16. ReturnSerial(t)'
  BY <1>2, <1>3, <1>11, <1>13, <1>14, <1>15, GivingBackStep
<1>17. QED
  BY <1>3, <1>11, <1>16, SerialMoves

-----------------------------------------------------------------------------
\* A request that commits while no other is under way, in the state it began in.
LEMMA SerialCommits ==
    ASSUME OrderTyped, OrderSerialInv, overlapped' = "none", NEW t \in Transactions, Commit(t)
    PROVE  OrderSerialInv'
<1>1. /\ step'[t] = "done" /\ ~InProgress(t)' /\ step[t] = "commit"
      /\ \A u \in Transactions \ {t} :
           step'[u] = step[u] /\ request'[u] = request[u] /\ draft'[u] = draft[u]
  BY CommitFacts, EndsQuietly
<1>2. overlapped = "none" /\ \A u \in Transactions \ {t} : ~InProgress(u)
  <2> DEFINE others == {u \in Transactions \ {t} : InProgress(u)}
             kinds == {request[u].kind : u \in others \cup {t}}
  <2>1. overlapped' = IF others = {} THEN overlapped
                      ELSE IF kinds \subseteq Conversions /\ overlapped # "mixed"
                      THEN "conversions" ELSE "mixed"
    BY DEF Commit
  <2> HIDE DEF kinds
  <2>2. others = {} /\ overlapped = "none"
    BY <2>1
  <2>3. QED
    BY <2>2
<1>3. \A u \in Transactions : ~InProgress(u)'
  BY <1>1, <1>2 DEF InProgress
<1>4. InProgress(t)
  BY <1>1 DEF InProgress
<1>5. CommitAgrees(t)
  <2>1. /\ request[t].kind \in Conversions => ConversionSerial(t)
        /\ request[t].kind = "patch" => PatchSerial(t)
        /\ request[t].kind \in {"partial", "full"} => ReturnSerial(t)
        /\ request[t].kind = "estorno" => EstornoSerial(t)
        /\ request[t].kind = "cancelOs" => CancelSerial(t)
        /\ Agrees(table, returns)
    BY <1>2, <1>4, SerialAt DEF Agrees
  <2>2. request[t].kind \in Conversions \cup {"patch", "partial", "full", "estorno", "cancelOs"}
    BY <1>1, KindOfStep
  <2>3. CASE request[t].kind \in Conversions
    BY <1>1, <2>1, <2>3, ConversionCommits
  <2>4. CASE request[t].kind = "patch"
    BY <1>1, <2>1, <2>4, PatchCommits
  <2>5. CASE request[t].kind \in {"partial", "full"}
    BY <1>1, <2>1, <2>5, ReturnCommits
  <2>6. CASE request[t].kind = "estorno"
    BY <1>1, <2>1, <2>6, EstornoCommits
  <2>7. CASE request[t].kind = "cancelOs"
    BY <1>1, <2>1, <2>7, CancelCommits
  <2>8. QED
    BY <2>2, <2>3, <2>4, <2>5, <2>6, <2>7
<1>6. table' = View(t) /\ returns' = returns \cup request[t].returns
  <2>1. /\ \A r \in RowNames : table'[r] = Seen(t, r)
        /\ table' = [r \in RowNames |-> table'[r]]
        /\ returns' = returns \cup request[t].returns
    BY CommitFacts
  <2> DEFINE T == table'
  <2>2. T = [r \in RowNames |-> T[r]] /\ \A r \in RowNames : T[r] = Seen(t, r)
    BY <2>1
  <2> HIDE DEF T
  <2>3. T = View(t)
    BY <2>2 DEF View
  <2>4. QED
    BY <2>1, <2>3 DEF T
<1>7. ConvertedAgrees(table') /\ ReturnedAgrees(table', returns')
  BY <1>5, <1>6 DEF CommitAgrees, Agrees
<1>8. ConvertedAgrees(table)' /\ ReturnedAgrees(table, returns)'
  BY <1>7
<1>9. QED
  BY <1>3, <1>8 DEF OrderSerialInv

LEMMA SerialAborts ==
    ASSUME OrderTyped, OrderSerialInv, overlapped = "none", NEW t \in Transactions, Abort(t)
    PROVE  OrderSerialInv'
<1>1. /\ ~InProgress(t)'
      /\ \A u \in Transactions \ {t} :
           step'[u] = step[u] /\ request'[u] = request[u] /\ draft'[u] = draft[u]
  BY EndsQuietly DEF Abort
<1>2. Quiet(t)
  BY <1>1 DEF Quiet, Abort
<1>3. QED
  BY <1>1, <1>2, SerialQuiet

LEMMA OrderSerialStep ==
    ASSUME OrderTyped, OrderSerialInv, OrderNext
    PROVE  OrderSerialInv'
<1> SUFFICES ASSUME overlapped' = "none" PROVE OrderSerialInv'
  BY DEF OrderSerialInv
<1> PICK t \in Transactions :
    \/ Open(t)
    \/ ReadToConvert(t) \/ ReadLines(t) \/ TakeNumber(t) \/ InsertDocument(t)
    \/ ConvertLine(t) \/ RereadLines(t) \/ WriteOrder(t)
    \/ ReadToPatch(t) \/ WritePatch(t)
    \/ ReadToReturn(t) \/ ReadReturnable(t) \/ ReadReturnLine(t)
    \/ NumberReturn(t) \/ InsertReturn(t) \/ WriteReturned(t)
    \/ ReadSituation(t) \/ WriteSituation(t)
    \/ ReadGeneratedLines(t) \/ ReadOrderLine(t) \/ WriteOrderLine(t)
    \/ ReadToUndo(t) \/ ReadGenerated(t) \/ UnlinkSale(t) \/ UnlinkLines(t)
    \/ ResetLines(t)
    \/ Commit(t) \/ Abort(t)
  BY DEF OrderNext
<1>1. CASE Commit(t)
  BY <1>1, SerialCommits
<1>2. CASE ~Commit(t)
  <2>1. overlapped = "none"
    BY <1>2, OnlyCommits
  <2>2. QED
    BY <1>2, <2>1, OpenSerial, ConversionReadsSerial, InsertDocumentSerial, ConvertLineSerial,
       RereadLinesSerial, WriteOrderSerial, PatchStepsSerial, ReadToUndoSerial,
       ReadGeneratedSerial, UnlinkSaleSerial, UnlinkLinesSerial, ReadToReturnSerial,
       ReadReturnableSerial, ReadReturnLineSerial, NumberReturnSerial, InsertReturnSerial,
       WriteReturnedSerial, ReadSituationSerial, WriteSituationSerial,
       ReadGeneratedLinesSerial, ReadOrderLineSerial, WriteOrderLineSerial, SerialAborts
<1>3. QED
  BY <1>1, <1>2

\* The first document has what is converted of the order, and no return.
LEMMA FirstQuantity ==
    ASSUME NEW T, NEW start \in Starts, FirstTable(T, start), NEW i \in Items
    PROVE  QuantityAt(T, First, i) = FirstSold[i] /\ FirstSold[i] \in Nat
<1>1. FirstSold[i] \in Nat
  BY RowsDiffer
<1>2. IF FirstSold[i] > 0 THEN FirstLine(T[<< First, i >>], i) ELSE T[<< First, i >>] = Absent
  BY DEF FirstTable
<1>3. CASE FirstSold[i] > 0
  <2>1. FirstLine(T[<< First, i >>], i)
    BY <1>2, <1>3
  <2>2. T[<< First, i >>] # Absent /\ T[<< First, i >>].quantity = FirstSold[i]
    BY <2>1, RowsDiffer DEF FirstLine, LinesFor
  <2>3. QED
    BY <1>1, <2>2 DEF QuantityAt
<1>4. CASE ~(FirstSold[i] > 0)
  BY <1>1, <1>2, <1>4 DEF QuantityAt
<1>5. QED
  BY <1>3, <1>4

LEMMA SerialInit ==
    ASSUME OrderInit
    PROVE  OrderSerialInv
<1> PICK start \in Starts : FirstTable(table, start)
  BY InitTable
<1>1. /\ returns = {} /\ \A t \in Transactions : ~InProgress(t)
  BY DEF OrderInit, InProgress
<1>2. OrderTyped /\ TableTyped(table)
  BY InitTyped DEF OrderTyped
<1>3. /\ First \in Sales /\ table[First] # Absent /\ table[First].linked
      /\ table[First].status = "FINALIZADA"
      /\ \A d \in Sales \ {First} : table[d] = Absent
  <2>1. FirstDocument(table[First], start)
    BY DEF FirstTable
  <2>2. table[First] # Absent /\ table[First].linked /\ table[First].status = "FINALIZADA"
    BY <2>1, RowsDiffer DEF FirstDocument
  <2>3. \A d \in Sales \ {First} : table[d] = Absent
    BY DEF FirstTable
  <2>4. QED
    BY <2>2, <2>3, NamesDiffer
<1>4. GeneratedIn(table) = {First} /\ LiveIn(table) = {First}
      /\ {s \in Sales : table[s] # Absent} = {First}
  BY <1>3 DEF GeneratedIn, LiveIn
<1>5. \A i \in Items : table[<< Order, i >>].converted = FirstSold[i]
  <2> SUFFICES ASSUME NEW i \in Items
               PROVE  table[<< Order, i >>].converted = FirstSold[i]
    OBVIOUS
  <2>1. table[<< Order, i >>] = Line(Quantity[i], FirstSold[i], FALSE)
    BY DEF FirstTable
  <2>2. Line(Quantity[i], FirstSold[i], FALSE).converted = FirstSold[i]
    BY DEF Line
  <2>3. QED
    BY <2>1, <2>2
<1>6. \A i \in Items : SumIn(table, {First}, i) = FirstSold[i]
  <2> SUFFICES ASSUME NEW i \in Items PROVE SumIn(table, {First}, i) = FirstSold[i]
    OBVIOUS
  <2>1. SumIn(table, {} \cup {First}, i) = SumIn(table, {}, i) + QuantityAt(table, First, i)
    BY <1>2, <1>3, SumInWith, FS_EmptySet
  <2>2. SumIn(table, {}, i) = 0 /\ {} \cup {First} = {First}
    BY SumInNothing
  <2>3. QuantityAt(table, First, i) = FirstSold[i] /\ FirstSold[i] \in Nat
    BY FirstQuantity
  <2> HIDE DEF SumIn
  <2>4. QED
    BY <2>1, <2>2, <2>3
<1>7. table[Order].status = StatusOf(FirstLines)
  BY DEF FirstTable, Document
<1>8. [i \in Items |-> table[<< Order, i >>]] = FirstLines
  BY DEF FirstTable, FirstLines
<1>9. table[Order].status # "CANCELADA"
      /\ (table[Order].status = "ABERTA" => \A i \in Items : table[<< Order, i >>].converted = 0)
  BY <1>2, <1>7, <1>8, StatusOfMeans
<1>10. \E i \in Items : table[<< First, i >>] # Absent
  <2>1. PICK i \in Items : FirstSold[i] > 0
    BY OrderAssumption
  <2>2. FirstLine(table[<< First, i >>], i)
    BY <2>1 DEF FirstTable
  <2>3. QED
    BY <2>2, RowsDiffer DEF FirstLine, LinesFor
<1>11. ConvertedAgrees(table)
  <2>1. \A i \in Items : FirstSold[i] \in Nat
    BY RowsDiffer
  <2>2. IsFiniteSet({First})
    BY FS_Singleton
  <2> HIDE DEF SumIn
  <2>3. \A i \in Items : /\ SumIn(table, LiveIn(table), i) <= table[<< Order, i >>].converted
                         /\ table[<< Order, i >>].converted = SumIn(table, GeneratedIn(table), i)
    BY <1>4, <1>5, <1>6, <2>1
  <2>4. QED
    BY <1>4, <1>9, <1>10, <2>2, <2>3 DEF ConvertedAgrees
<1>12. \A s \in Sales, i \in Items : table[<< s, i >>] # Absent => table[<< s, i >>].returned = 0
  <2> SUFFICES ASSUME NEW s \in Sales, NEW i \in Items, table[<< s, i >>] # Absent
               PROVE  table[<< s, i >>].returned = 0
    OBVIOUS
  <2>1. s = First
    BY DEF FirstTable
  <2>2. FirstLine(table[<< First, i >>], i)
    BY <2>1 DEF FirstTable
  <2>3. QED
    BY <2>1, <2>2 DEF FirstLine
<1>13. ReturnedAgrees(table, returns)
  <2>1. \A s, i : ReturnedIn({}, s, i) = 0
    <3> SUFFICES ASSUME NEW s, NEW i PROVE ReturnedIn({}, s, i) = 0
      OBVIOUS
    <3>1. {r \in {} : r.sale = s /\ r.item = i} = {}
      OBVIOUS
    <3>2. QED
      BY <3>1, SumOfNothing DEF ReturnedIn
  <2>2. \A s \in Sales : ~SomeReturned(table, s)
    <3>1. \A s \in Sales : NoneReturned(table, s)
      BY <1>12 DEF NoneReturned, ItemsIn
    <3>2. QED
      BY <3>1, NoneIsNotSome
  <2>3. QED
    BY <1>1, <1>12, <2>1, <2>2 DEF ReturnedAgrees, SituationAgrees
<1>14. QED
  BY <1>1, <1>11, <1>13 DEF OrderSerialInv

\* What the invariant says is what the property asks for.
LEMMA SerialInvIsEnough ==
    ASSUME OrderSerialInv
    PROVE  SerialRequestsAgree
<1> SUFFICES ASSUME overlapped = "none" PROVE SalesAreConverted /\ ReturnsAgree
  BY DEF SerialRequestsAgree
<1>1. ConvertedAgrees(table) /\ ReturnedAgrees(table, returns)
  BY DEF OrderSerialInv
<1>2. Generated = GeneratedIn(table) /\ LiveOf(Generated) = LiveIn(table)
  BY DEF Generated, GeneratedIn, LiveOf, LiveIn
<1>3. \A S, i : QuantityIn(S, i) = SumIn(table, S, i)
  BY DEF QuantityIn, SumIn, QuantityAt
<1>4. SalesAreConverted
  BY <1>1, <1>2, <1>3 DEF SalesAreConverted, Sold, ConvertedAgrees, OrderLine, FromWorkOrder
<1>5. \A s, i : QuantityReturned(s, i) = ReturnedIn(returns, s, i)
  BY DEF QuantityReturned, ReturnedIn
<1>6. ReturnsAgree
  <2> SUFFICES ASSUME NEW s \in Sales
               PROVE  /\ \A i \in ItemsIn(table, s) :
                            table[<< s, i >>].returned = QuantityReturned(s, i)
                      /\ SituationAgrees(table, s)
    BY DEF ReturnsAgree, ItemsIn, LinesIn, SituationAgrees, SomeReturned
  <2>1. \A i \in ItemsIn(table, s) : table[<< s, i >>].returned = ReturnedIn(returns, s, i)
    BY <1>1 DEF ReturnedAgrees, ItemsIn
  <2>2. SituationAgrees(table, s)
    BY <1>1 DEF ReturnedAgrees
  <2> HIDE DEF QuantityReturned, ReturnedIn
  <2>3. QED
    BY <1>5, <2>1, <2>2
<1>7. QED
  BY <1>4, <1>6

\* WorkOrder: requests that do not overlap keep the quantities of an order, of
\* the sales generated from it and of the returns of those in agreement, and
\* give each sale that has returns the status these call for.
THEOREM SerialRequests == OrderSpec => []SerialRequestsAgree
<1>1. OrderInit => OrderSerialInv
  BY SerialInit
<1>2. OrderTyped /\ OrderSerialInv /\ [OrderNext]_orderVars => OrderSerialInv'
  <2>1. ASSUME OrderSerialInv, UNCHANGED orderVars
        PROVE  OrderSerialInv'
    <3>1. /\ table' = table /\ returns' = returns /\ overlapped' = overlapped
          /\ step' = step /\ request' = request /\ draft' = draft
      BY <2>1 DEF orderVars
    <3>2. ASSUME overlapped = "none", NEW t \in Transactions, InProgress(t)
          PROVE  SerialKnown(t)'
      BY <2>1, <3>1, <3>2, SerialSame DEF OrderSerialInv
    <3>3. (\A t \in Transactions : InProgress(t)' <=> InProgress(t))
      BY <3>1 DEF InProgress
    <3>4. overlapped = "none" => ConvertedAgrees(table)' /\ ReturnedAgrees(table, returns)'
      BY <2>1, <3>1 DEF OrderSerialInv
    <3>5. QED
      BY <3>1, <3>2, <3>3, <3>4 DEF OrderSerialInv
  <2>2. QED
    BY <2>1, OrderSerialStep
<1>3. OrderSerialInv => SerialRequestsAgree
  BY SerialInvIsEnough
<1>4. QED
  BY <1>1, <1>2, <1>3, OrderTypedAlways, PTL DEF OrderSpec
=============================================================================
