---------------------------- MODULE NfeDocument ----------------------------
(***************************************************************************)
(* An invoice of the enterprise, from its draft to its end at the tax       *)
(* authority.                                                               *)
(*                                                                         *)
(* Models the changes of a draft, signXml and authorize of                  *)
(* nfe/document/service.ts, and cancel, correct, inutilizeNote and          *)
(* inutilizeRange of nfe/events/service.ts.  No call holds a lock or a      *)
(* transaction over its exchange with the authority: the invoice is read,   *)
(* the message is sent, and the answer is written, whatever the status is   *)
(* by then.  The authority is the environment: it answers what its services *)
(* answer and may do so after the caller has given up.                      *)
(***************************************************************************)
EXTENDS Integers, FiniteSets

CONSTANTS
    Tx,        \* the requests
    Kinds,     \* the requests that may arrive
    Contents,  \* what an invoice may say, apart from its date of emission
    Nfce,      \* the contents of model 65
    LastDate,  \* dates of emission 0 .. LastDate are told apart
    Accepted,  \* the contents that the authority authorizes
    Refused,   \* the contents that it denies for good
    Draft,     \* the content before the first request
    MaxLetters \* MAX_CCE_SEQ: letters of correction of an invoice

ASSUME NfeAssumption ==
    /\ Kinds \subseteq {"edit", "sign", "authorize", "cancel", "correct", "inutilize", "range"}
    /\ Accepted \subseteq Contents /\ Refused \subseteq Contents \ Accepted
    /\ Nfce \subseteq Contents /\ LastDate \in Nat
    /\ Draft \in Contents /\ MaxLetters \in Nat

Statuses == {"PENDENTE", "ASSINADA", "AUTORIZADA", "REJEITADA", "CANCELADA",
             "DENEGADA", "INUTILIZADA"}
Editable == {"PENDENTE", "REJEITADA"}
CLOSED == {"AUTORIZADA", "CANCELADA", "DENEGADA"}
INUTILIZABLE == {"PENDENTE", "ASSINADA", "REJEITADA"}

\* An invoice as it is signed and sent, and the one before the first request.
Papers == [says : Contents, emitted : 0 .. LastDate]
Drawn == [says |-> Draft, emitted |-> 0]

VARIABLES
    note,       \* the row of nfe_headers: status, content, protocol; linked:
                \* its sale is still bound to it; voided: nfe_events has the
                \* range of its number; letters: the letters of correction in
                \* nfe_events, each with its number and the request it is of
    authority,  \* what the authority holds: state, content and letters
    wire,       \* messages under way to the authority
    pc,         \* where each request is
    my,         \* my[t]: the request of t
    overlap,    \* whether two requests were ever under way at once
    astray      \* whether a caller ever gave up with its message under way, or
                \* the authority rejected an invoice that it had authorized

vars == << note, authority, wire, pc, my, overlap, astray >>

Idle == [kind |-> "none", content |-> Drawn, found |-> FALSE, answer |-> "none", seq |-> 0]

Init ==
    /\ note = [status |-> "PENDENTE", content |-> Drawn, protocol |-> FALSE,
               linked |-> TRUE, voided |-> FALSE, letters |-> {}]
    /\ authority = [state |-> "unknown", content |-> Drawn, letters |-> {}]
    /\ wire = {}
    /\ pc = [t \in Tx |-> "new"]
    /\ my = [t \in Tx |-> Idle]
    /\ overlap = FALSE
    /\ astray = FALSE

-----------------------------------------------------------------------------
UnderWay == {t \in Tx : pc[t] \notin {"new", "done"}}
At(t, label) == pc[t] = label
Go(t, label) == pc' = [pc EXCEPT ![t] = label]
OnlyRequest == UNCHANGED << note, authority, wire, overlap, astray >>
Write(row) == note' = row /\ UNCHANGED << authority, wire, overlap, astray >>

Start(t) ==
    /\ At(t, "new")
    /\ \E k \in Kinds, c \in Papers :
        /\ k # "edit" => c = Drawn
        /\ my' = [my EXCEPT ![t] = [Idle EXCEPT !.kind = k, !.content = c]]
        /\ Go(t, IF k = "range" THEN "check" ELSE "read")
    /\ overlap' = (overlap \/ UnderWay # {})
    /\ UNCHANGED << note, authority, wire, astray >>

Post(t, content) ==
    /\ wire' = wire \cup {[tx |-> t, kind |-> my[t].kind, content |-> content,
                        seq |-> my[t].seq]}
    /\ Go(t, "wait")
    /\ UNCHANGED << note, authority, my, overlap, astray >>

-----------------------------------------------------------------------------
(***************************************************************************)
(* patch, replaceItems and the other changes of a draft: loadDraft, then    *)
(* the UPDATE, which does not look at the status again.                     *)
(***************************************************************************)
LoadDraft(t) ==
    /\ At(t, "read") /\ my[t].kind = "edit"
    /\ Go(t, IF note.status \in Editable THEN "write" ELSE "done")
    /\ UNCHANGED my /\ OnlyRequest

WriteDraft(t) ==
    /\ At(t, "write") /\ my[t].kind = "edit"
    /\ Write([note EXCEPT !.content = my[t].content])
    /\ Go(t, "done") /\ UNCHANGED my

(***************************************************************************)
(* signXml, authorize.                                                      *)
(***************************************************************************)
\* authorize looks first whether an NFC-e was emitted some time ago.
AfterRead(t) ==
    IF my[t].kind = "authorize" /\ note.content.says \in Nfce THEN "refresh" ELSE "sign"

\* Mutant: an invoice that is closed is sent again.
ReadAnyToSend(t) ==
    /\ At(t, "read") /\ my[t].kind \in {"sign", "authorize"}
    /\ Go(t, AfterRead(t))
    /\ my' = [my EXCEPT ![t].content = note.content]
    /\ OnlyRequest

\* get and assertSendable: what is sent is what was read.
ReadToSend(t) ==
    /\ At(t, "read") /\ my[t].kind \in {"sign", "authorize"}
    /\ Go(t, IF note.status \in CLOSED THEN "done" ELSE AfterRead(t))
    /\ my' = [my EXCEPT ![t].content = note.content]
    /\ OnlyRequest

\* refreshNfceEmission: an NFC-e of another month is refused, a fresh one is
\* sent as it is, and any other is emitted now, whatever was sent before.
RefreshEmission(t) ==
    /\ At(t, "refresh")
    /\ \/ Go(t, "done") /\ UNCHANGED my /\ OnlyRequest
       \/ Go(t, "sign") /\ UNCHANGED my /\ OnlyRequest
       \/ \E now \in 0 .. LastDate :
            /\ now > my[t].content.emitted
            /\ Write([note EXCEPT !.content.emitted = now])
            /\ my' = [my EXCEPT ![t].content.emitted = now]
            /\ Go(t, "sign")

\* Mutant: the XML is signed and the status stays that of the draft.
SignOnly(t) ==
    /\ At(t, "sign")
    /\ Go(t, IF my[t].kind = "sign" THEN "done" ELSE "post")
    /\ UNCHANGED my /\ OnlyRequest

PersistSignedXml(t) ==
    /\ At(t, "sign")
    /\ Write([note EXCEPT !.status = "ASSINADA"])
    /\ Go(t, IF my[t].kind = "sign" THEN "done" ELSE "post")
    /\ UNCHANGED my

SendNote(t) ==
    /\ At(t, "post") /\ my[t].kind = "authorize"
    /\ Post(t, my[t].content)

\* Mutant: the answer is stored as the status.
WriteAnswer(t) ==
    /\ At(t, "answered") /\ my[t].kind = "authorize"
    /\ Write([note EXCEPT !.status = my[t].answer, !.protocol = my[t].answer = "authorized"])
    /\ Go(t, "done") /\ UNCHANGED my

\* A duplicate comes with the protocol of the first answer: authorized.
WriteAuthorization(t) ==
    /\ At(t, "answered") /\ my[t].kind = "authorize"
    /\ Write([note EXCEPT
            !.status = CASE my[t].answer \in {"authorized", "duplicate"} -> "AUTORIZADA"
                         [] my[t].answer = "denied" -> "DENEGADA"
                         [] OTHER -> "REJEITADA",
            !.protocol = my[t].answer \in {"authorized", "duplicate"}])
    /\ Go(t, "done") /\ UNCHANGED my

(***************************************************************************)
(* cancel.                                                                  *)
(***************************************************************************)
ReadToCancel(t) ==
    /\ At(t, "read") /\ my[t].kind = "cancel"
    /\ Go(t, IF note.status = "AUTORIZADA" /\ note.protocol THEN "post" ELSE "done")
    /\ UNCHANGED my /\ OnlyRequest

SendCancel(t) ==
    /\ At(t, "post") /\ my[t].kind = "cancel"
    /\ Post(t, my[t].content)

\* Mutant: any answer to the event cancels the invoice.
MarkAnswered(t) ==
    /\ At(t, "answered") /\ my[t].kind = "cancel"
    /\ Write([note EXCEPT !.status = "CANCELADA", !.linked = FALSE])
    /\ Go(t, "done") /\ UNCHANGED my

\* One transaction: the event, the status, and the sale set free.
MarkCancelled(t) ==
    /\ At(t, "answered") /\ my[t].kind = "cancel"
    /\ IF my[t].answer = "registered"
       THEN Write([note EXCEPT !.status = "CANCELADA", !.linked = FALSE])
       ELSE OnlyRequest
    /\ Go(t, "done") /\ UNCHANGED my

(***************************************************************************)
(* correct: a letter of correction, numbered after the last one that is     *)
(* recorded here.                                                           *)
(***************************************************************************)
ReadToCorrect(t) ==
    /\ At(t, "read") /\ my[t].kind = "correct"
    /\ Go(t, IF note.status = "AUTORIZADA" /\ note.protocol THEN "letters" ELSE "done")
    /\ UNCHANGED my /\ OnlyRequest

LastLetter(n) ==
    /\ \A l \in note.letters : l[1] <= n
    /\ n = 0 \/ \E l \in note.letters : l[1] = n

NumberLetter(t) ==
    /\ At(t, "letters")
    /\ \E last \in 0 .. MaxLetters :
        /\ LastLetter(last)
        /\ IF last = MaxLetters
           THEN Go(t, "done") /\ UNCHANGED my
           ELSE Go(t, "post") /\ my' = [my EXCEPT ![t].seq = last + 1]
    /\ OnlyRequest

SendLetter(t) ==
    /\ At(t, "post") /\ my[t].kind = "correct"
    /\ Post(t, my[t].content)

\* The event is inserted, or takes the place of one with its number.
RecordLetter(t) ==
    /\ At(t, "answered") /\ my[t].kind = "correct"
    /\ IF my[t].answer = "corrected"
       THEN Write([note EXCEPT !.letters =
                    {l \in @ : l[1] # my[t].seq} \cup {<< my[t].seq, t >>}])
       ELSE OnlyRequest
    /\ Go(t, "done") /\ UNCHANGED my

(***************************************************************************)
(* inutilizeNote, inutilizeRange: the number is given up.                   *)
(***************************************************************************)
\* A number that the authority has voided only ends the invoice here.
ReadToInutilize(t) ==
    /\ At(t, "read") /\ my[t].kind = "inutilize"
    /\ Go(t, IF note.status \notin INUTILIZABLE THEN "done"
             ELSE IF note.voided THEN "close" ELSE "check")
    /\ UNCHANGED my /\ OnlyRequest

MarkInutilized(t) ==
    /\ At(t, "close") /\ my[t].kind = "inutilize"
    /\ Write([note EXCEPT !.status = "INUTILIZADA", !.linked = FALSE])
    /\ Go(t, "done") /\ UNCHANGED my

CheckRange(t) ==
    /\ At(t, "check")
    /\ Go(t, IF note.status \in CLOSED \/ note.voided THEN "done" ELSE "post")
    /\ UNCHANGED my /\ OnlyRequest

SendRange(t) ==
    /\ At(t, "post") /\ my[t].kind \in {"inutilize", "range"}
    /\ Post(t, my[t].content)

\* Mutant: the range is closed whatever the authority answered.
ReadRangeAnswered(t) ==
    /\ At(t, "answered") /\ my[t].kind \in {"inutilize", "range"}
    /\ my' = [my EXCEPT ![t].found = note.status \in INUTILIZABLE]
    /\ Go(t, "close range")
    /\ OnlyRequest

\* The transaction reads the invoices of the range and then closes them; the
\* event is seen with its commit.
ReadRange(t) ==
    /\ At(t, "answered") /\ my[t].kind \in {"inutilize", "range"}
    /\ my' = [my EXCEPT ![t].found = note.status \in INUTILIZABLE]
    /\ Go(t, IF my[t].answer = "homologated" THEN "close range" ELSE "done")
    /\ OnlyRequest

CloseRange(t) ==
    /\ At(t, "close range")
    /\ Write([note EXCEPT !.voided = TRUE,
                !.status = IF my[t].found THEN "INUTILIZADA" ELSE @,
                !.linked = @ /\ ~my[t].found])
    /\ Go(t, "done") /\ UNCHANGED my

-----------------------------------------------------------------------------
(***************************************************************************)
(* The tax authority, as the answers the code tells apart describe it, and  *)
(* the failures of the exchange.                                            *)
(***************************************************************************)
\* What becomes of the invoice there, and the answer; a second message for an
\* authorized invoice is a duplicate, a second letter of one number is refused.
\* The authority may also reject any message for a reason of its own.
Outcomes(m) ==
    LET held == authority.state
        rejected == << authority, "rejected" >>
        becomes(state) == [state |-> state, content |-> m.content,
                           letters |-> authority.letters]
    IN  {rejected} \cup
        CASE m.kind = "authorize" /\ held = "unknown" /\ m.content.says \in Accepted ->
                {<< becomes("authorized"), "authorized" >>}
          [] m.kind = "authorize" /\ held = "unknown" /\ m.content.says \in Refused ->
                {<< becomes("denied"), "denied" >>}
          [] m.kind = "cancel" /\ held = "authorized" ->
                {<< [authority EXCEPT !.state = "cancelled"], "registered" >>}
          [] m.kind = "correct" /\ held = "authorized"
                /\ \A l \in authority.letters : l[1] # m.seq ->
                {<< [authority EXCEPT !.letters = @ \cup {<< m.seq, m.tx >>}], "corrected" >>}
          [] m.kind \in {"inutilize", "range"} /\ held = "unknown" ->
                {<< becomes("voided"), "homologated" >>}
          [] m.kind = "authorize" /\ held = "authorized" ->
                {<< authority, "duplicate" >>}
          [] OTHER -> {}

Answer(m) ==
    /\ m \in wire /\ wire' = wire \ {m}
    /\ \E o \in Outcomes(m) :
        /\ authority' = o[1]
        /\ astray' = (astray \/ /\ m.kind = "authorize" /\ o[2] = "rejected"
                                /\ authority.state = "authorized")
        /\ IF At(m.tx, "wait")
           THEN my' = [my EXCEPT ![m.tx].answer = o[2]] /\ Go(m.tx, "answered")
           ELSE UNCHANGED << my, pc >>
    /\ UNCHANGED << note, overlap >>

\* The call times out or its process dies; the message may still arrive.
Fail(t) ==
    /\ t \in UnderWay
    /\ Go(t, "done")
    /\ astray' = (astray \/ \E m \in wire : m.tx = t)
    /\ UNCHANGED << note, authority, wire, my, overlap >>

\* The message of a failed call is lost.
Lose(m) ==
    /\ m \in wire /\ pc[m.tx] = "done"
    /\ wire' = wire \ {m}
    /\ UNCHANGED << note, authority, pc, my, overlap, astray >>

RequestStep(t) ==
    \/ LoadDraft(t) \/ WriteDraft(t)
    \/ ReadToSend(t) \/ RefreshEmission(t) \/ PersistSignedXml(t) \/ SendNote(t) \/ WriteAuthorization(t)
    \/ ReadToCancel(t) \/ SendCancel(t) \/ MarkCancelled(t)
    \/ ReadToCorrect(t) \/ NumberLetter(t) \/ SendLetter(t) \/ RecordLetter(t)
    \/ ReadToInutilize(t) \/ MarkInutilized(t)
    \/ CheckRange(t) \/ SendRange(t) \/ ReadRange(t) \/ CloseRange(t)

Next ==
    \/ \E t \in Tx : Start(t) \/ RequestStep(t) \/ Fail(t)
    \/ \E m \in wire : Answer(m) \/ Lose(m)

Spec == Init /\ [][Next]_vars

-----------------------------------------------------------------------------
TypeOK ==
    /\ note \in [status : Statuses, content : Papers, protocol : BOOLEAN,
                 linked : BOOLEAN, voided : BOOLEAN,
                 letters : SUBSET ((1 .. MaxLetters) \X Tx)]
    /\ authority.state \in {"unknown", "authorized", "denied", "cancelled", "voided"}
    /\ \A m \in wire : pc[m.tx] \in {"wait", "done"} /\ my[m.tx].answer = "none"
    /\ overlap \in BOOLEAN /\ astray \in BOOLEAN

\* Whatever overlaps or fails, a closing status is one that the authority
\* confirmed, a voided number is recorded only after it was homologated, and
\* a letter of correction only under the number that it has at the authority.
AuthorityConfirmsStatus ==
    /\ note.status = "AUTORIZADA" => authority.state \in {"authorized", "cancelled"}
    /\ note.status = "CANCELADA" => authority.state = "cancelled"
    /\ note.status = "DENEGADA" => authority.state = "denied"
    /\ note.status = "INUTILIZADA" \/ note.voided => authority.state = "voided"
    /\ note.letters \subseteq authority.letters

\* A sale is free for another invoice only when this one can never again be
\* valid at the authority: no sale is invoiced twice.
FreeSaleHasNoInvoice ==
    ~note.linked => authority.state \in {"cancelled", "voided"}

\* The invoice is marked as signed before it is sent.  So, although answers
\* get lost, an invoice that the authority holds stays closed to changes and
\* says what was authorized, but for the date of emission of an NFC-e, which
\* is a later one when it was sent again, unless requests overlap, an earlier
\* message arrives after its caller gave up, or the authority rejects the
\* repetition for a reason of its own (a service that is paused).
LostAnswerKeepsInvoice ==
    ~overlap /\ ~astray /\ authority.state = "authorized" =>
        /\ note.status \in {"ASSINADA", "AUTORIZADA"}
        /\ note.content.says = authority.content.says
        /\ \/ note.content.emitted = authority.content.emitted
           \/ /\ note.content.says \in Nfce
              /\ note.content.emitted > authority.content.emitted

\* Requests that do not overlap never reopen an invoice that was authorized,
\* cancelled or denied.
ClosedStaysClosed ==
    [][ ~overlap' /\ note.status \in CLOSED =>
            \/ note'.status = note.status
            \/ note.status = "AUTORIZADA" /\ note'.status = "CANCELADA" ]_vars
=============================================================================
