-------------------------- MODULE Sessions_proofs --------------------------
(***************************************************************************)
(* Proofs about Sessions, for any number of processes, requests and clients *)
(* and any number of crashes: what a process revoked it no longer takes     *)
(* from its cache, a session has one heir, and the reuse of a refresh token *)
(* ends the sessions of before, but for the races that the properties name. *)
(***************************************************************************)
EXTENDS Sessions, TLAPS

AllKinds == {"none", "login", "refresh", "logout", "switch", "reset", "deactivate"}
Labels == {"new", "find", "member", "list", "revoke", "forget", "insert", "hash", "retire",
           "commit", "done", "dead"}
Nowhere == {}
Requests == [kind : AllKinds, at : Processes \cup {Nowhere}, token : Sessions,
             client : Clients \cup {Unknown}, listed : SUBSET Keys, changed : SUBSET Keys,
             met : SUBSET Tx, under : SUBSET Tx, older : SUBSET Sessions]
Guarded == [at : Processes \cup {Nowhere}, session : Sessions, key : Keys,
            stage : {"idle", "get", "store", "accepted"}, read : Status]

\* The shape of the state.
Shape ==
    /\ row \in [Keys -> Status]
    /\ cache \in [Processes -> [Keys -> (Status \ {"pending"}) \cup {"empty"}]]
    /\ guard \in [Guards -> Guarded]
    /\ pc \in [Tx -> Labels]
    /\ my \in [Tx -> Requests]
    /\ crashes \in Nat
    /\ raced \subseteq Processes \X Keys

\* A row whose key somebody may present: it was stored, and is not pending.
Known(k) == row[k] \in {"active", "revoked"}
KnownRows == \A k \in Before \cup {Member} : Known(k)

\* What authMiddleware looks up was delivered.
GuardsAsk ==
    \A g \in Guards :
        /\ guard[g].key \in {guard[g].session, Member}
        /\ guard[g].stage # "idle" => guard[g].at \in Processes /\ Known(guard[g].session)
        /\ guard[g].stage = "store" => guard[g].read \in {"active", "revoked"}

\* What each statement is part of.
KindAt(t) ==
    /\ At(t, "new") => my[t].kind = "none"
    /\ ~At(t, "new") => my[t].at \in Processes /\ Known(my[t].token)
    /\ At(t, "find") => my[t].kind \in {"refresh", "switch"}
    /\ pc[t] \in {"member", "insert", "hash"} => my[t].kind \in {"login", "refresh", "switch"}
    /\ pc[t] \in {"list", "revoke"} => my[t].kind \in {"login", "refresh", "reset"}
    /\ At(t, "retire") => my[t].kind \in {"refresh", "switch", "logout", "deactivate"}
    /\ At(t, "commit") => my[t].kind = "reset"

\* The session of a request is inserted once, and pending until its refresh
\* token is stored.
InsertedAt(t) ==
    /\ pc[t] \in {"new", "find", "member", "list", "revoke", "insert", "commit"} => row[t] = "none"
    /\ At(t, "forget") /\ my[t].kind \in {"login", "reset"} => row[t] = "none"
    /\ row[t] = "pending" => pc[t] \in {"hash", "dead"}

\* What a request has listed and revoked so far.
RevokedAt(t) ==
    /\ pc[t] \in {"find", "member", "insert", "hash", "retire"} =>
        /\ my[t].kind \in {"refresh", "switch", "logout"} => my[t].listed = {my[t].token}
        /\ my[t].kind = "deactivate" => my[t].listed = {Member}
    /\ pc[t] \in {"new", "find", "member", "list", "revoke", "retire"} => my[t].changed = {}
    /\ pc[t] \in {"insert", "hash"} /\ my[t].kind # "login" => my[t].changed = {}
    /\ \A k \in my[t].changed : row[k] # "none"
    /\ pc[t] \in {"forget", "insert", "hash", "done"} /\ (my[t].kind = "reset" => At(t, "done")) =>
        \A k \in my[t].changed : row[k] = "revoked"

\* Whoever rotated a session has revoked it.
SpentAt(t) == Issued(t) /\ pc[t] \in {"forget", "done"} => row[my[t].token] = "revoked"

RequestOK(t) == KindAt(t) /\ InsertedAt(t) /\ RevokedAt(t) /\ SpentAt(t)
RequestsOK == \A t \in Tx : RequestOK(t)

\* What a process has forgotten comes back only by a race.
ForgottenAt(t) ==
    pc[t] \in {"insert", "hash", "commit", "done"} =>
        \A k \in my[t].changed \cap my[t].listed :
            cache[my[t].at][k] = "active" => << my[t].at, k >> \in raced
Forgotten == \A t \in Tx : ForgottenAt(t)

\* Requests under way at the same time have met.
Met(a, b) == a \in my[b].met \/ b \in my[a].met
AllMeet == \A a, b \in UnderWay : a # b => Met(a, b)

\* The request found the session that it presents active.
Passed(t) ==
    /\ my[t].kind \in {"refresh", "switch"}
    /\ \/ row[t] # "none"
       \/ At(t, "insert")
       \/ At(t, "member") /\ my[t].kind = "refresh"
PassedApart ==
    \A a, b \in Tx :
        a # b /\ Passed(a) /\ Passed(b) /\ my[a].token = my[b].token =>
            Met(a, b) \/ "dead" \in {pc[a], pc[b]}

IInv ==
    /\ Shape
    /\ KnownRows
    /\ GuardsAsk
    /\ RequestsOK
    /\ Forgotten
    /\ AllMeet
    /\ PassedApart

-----------------------------------------------------------------------------
LEMMA KeysDiffer ==
    /\ Tx \subseteq Keys /\ Sessions \subseteq Keys /\ Before \subseteq Sessions /\ Member \in Keys
    /\ \A t \in Tx : t \in Sessions /\ t # Member /\ t \notin Before
    /\ First \in Before /\ Old \in Before
  BY SessionsAssumption DEF Keys, Sessions, Before

LEMMA InitInvariant == Init => IInv
<1> SUFFICES ASSUME Init PROVE IInv
  OBVIOUS
<1>. USE KeysDiffer
<1>1. Shape
  <2>1. row \in [Keys -> Status]
    BY DEF Init, Status
  <2>2. cache \in [Processes -> [Keys -> (Status \ {"pending"}) \cup {"empty"}]]
    BY DEF Init
  <2>3. Away \in Guarded
    BY DEF Away, Guarded, Nowhere, Status
  <2>4. Idle \in Requests
    BY DEF Idle, Requests, Nowhere, AllKinds
  <2>5. pc \in [Tx -> Labels]
    BY DEF Init, Labels
  <2>. QED  BY <2>1, <2>2, <2>3, <2>4, <2>5 DEF Init, Shape
<1>2. KnownRows
  BY SessionsAssumption DEF Init, KnownRows, Known, Before
<1>3. \A t \in Tx : row[t] = "none" /\ pc[t] = "new" /\ my[t] = Idle
  BY DEF Init, Before
<1>4. Idle.kind = "none" /\ Idle.changed = {}
  BY DEF Idle
<1>5. GuardsAsk
  BY DEF Init, GuardsAsk, Away
<1>6. RequestsOK
  BY <1>3, <1>4 DEF RequestsOK, RequestOK, KindAt, InsertedAt, RevokedAt, SpentAt, Issued, At
<1>7. Forgotten /\ AllMeet /\ PassedApart
  BY <1>3, <1>4 DEF Forgotten, ForgottenAt, AllMeet, UnderWay, PassedApart, Passed
<1>. QED  BY <1>1, <1>2, <1>5, <1>6, <1>7 DEF IInv

\* How rows change: a row is stored once, by its request, and a revoked one stays.
RowsAdvance(t) ==
    \A k \in Keys :
        /\ row[k] = "revoked" => row'[k] = "revoked"
        /\ row[k] = "active" => row'[k] \in {"active", "revoked"}
        /\ row[k] = "pending" => row'[k] # "none"
        /\ k # t /\ row[k] = "none" => row'[k] = "none"
        /\ k # t /\ row'[k] = "pending" => row[k] = "pending"

LEMMA KnownStays ==
    ASSUME NEW t \in Tx, RowsAdvance(t), NEW k \in Keys, Known(k)
    PROVE  Known(k)'
  BY DEF RowsAdvance, Known

LEMMA OthersStay ==
    ASSUME IInv, NEW t \in Tx, RowsAdvance(t), NEW u \in Tx \ {t},
           pc'[u] = pc[u], my'[u] = my[u]
    PROVE  RequestOK(u)' /\ (Passed(u)' => Passed(u))
<1>. USE KeysDiffer
<1>1. RequestOK(u) /\ my[u] \in Requests
  BY DEF IInv, RequestsOK, Shape
<1>2. my[u].token \in Keys /\ my[u].changed \subseteq Keys
  BY <1>1 DEF Requests
<1>3. KindAt(u)'
  BY <1>1, <1>2, KnownStays DEF RequestOK, KindAt, At
<1>4. InsertedAt(u)'
  BY <1>1 DEF RequestOK, InsertedAt, At, RowsAdvance
<1>5. RevokedAt(u)'
  <2>1. \A k \in my[u].changed : (row[k] # "none" => row'[k] # "none")
                                 /\ (row[k] = "revoked" => row'[k] = "revoked")
    <3> SUFFICES ASSUME NEW k \in my[u].changed
                 PROVE  (row[k] # "none" => row'[k] # "none")
                        /\ (row[k] = "revoked" => row'[k] = "revoked")
      OBVIOUS
    <3>1. k \in Keys /\ row[k] \in Status
      BY <1>2 DEF IInv, Shape
    <3>. QED  BY <3>1 DEF RowsAdvance, Status
  <2>2. RevokedAt(u)
    BY <1>1 DEF RequestOK
  <2>. QED  BY <2>1, <2>2 DEF RevokedAt, At
<1>6. SpentAt(u)'
  BY <1>1, <1>2 DEF RequestOK, SpentAt, Issued, RowsAdvance
<1>7. Passed(u)' => Passed(u)
  BY DEF Passed, At, RowsAdvance
<1>. QED  BY <1>3, <1>4, <1>5, <1>6, <1>7 DEF RequestOK

\* The cache changes only by forgetting.
OnlyForgets ==
    \A p \in Processes, k \in Keys :
        cache'[p][k] = "active" =>
            cache[p][k] = "active" /\ (<< p, k >> \in raced => << p, k >> \in raced')

LEMMA ForgottenStays ==
    ASSUME IInv, OnlyForgets, NEW u \in Tx, pc'[u] = pc[u], my'[u] = my[u]
    PROVE  ForgottenAt(u)'
<1>1. ForgottenAt(u) /\ KindAt(u) /\ my[u] \in Requests
  BY DEF IInv, Forgotten, RequestsOK, RequestOK, Shape
<1>2. pc[u] # "new" => my[u].at \in Processes
  BY <1>1 DEF KindAt, At
<1>3. my[u].changed \subseteq Keys
  BY <1>1 DEF Requests
<1>. QED  BY <1>1, <1>2, <1>3 DEF ForgottenAt, OnlyForgets

\* A request goes on.
LEMMA RequestGoesOn ==
    ASSUME IInv, Shape', NEW t \in UnderWay, NEW label \in Labels \ {"new"},
           Go(t, label), RowsAdvance(t), OnlyForgets, UNCHANGED guard,
           \A u \in Tx \ {t} : my'[u] = my[u],
           my'[t].kind = my[t].kind, my'[t].token = my[t].token, my'[t].met = my[t].met,
           RequestOK(t)', ForgottenAt(t)',
           Passed(t)' => Passed(t) \/ (At(t, "find") /\ row[my[t].token] = "active")
    PROVE  IInv'
<1>. USE KeysDiffer
<1>1. t \in Tx /\ pc[t] # "new"
  BY DEF UnderWay
<1>2. \A u \in Tx \ {t} : pc'[u] = pc[u]
  BY <1>1 DEF Go, IInv, Shape
<1>3. pc'[t] = label
  BY <1>1 DEF Go, IInv, Shape
<1>4. KnownRows'
  BY <1>1, KnownStays DEF IInv, KnownRows
<1>5. GuardsAsk'
  <2> SUFFICES ASSUME NEW g \in Guards, guard[g].stage # "idle"
               PROVE  Known(guard[g].session)'
    BY DEF IInv, GuardsAsk
  <2>1. guard[g].session \in Keys /\ Known(guard[g].session)
    BY DEF IInv, GuardsAsk, Shape, Guarded
  <2>. QED  BY <1>1, <2>1, KnownStays
<1>6. \A u \in Tx \ {t} : RequestOK(u)' /\ (Passed(u)' => Passed(u))
  BY <1>1, <1>2, OthersStay
<1>7. RequestsOK'
  BY <1>6 DEF RequestsOK
<1>8. Forgotten'
  BY <1>2, ForgottenStays DEF Forgotten
<1>9. \A u \in Tx : my'[u].met = my[u].met /\ my'[u].kind = my[u].kind /\ my'[u].token = my[u].token
  OBVIOUS
<1>10. AllMeet'
  <2>1. \A u \in UnderWay' : u \in UnderWay
    BY <1>2 DEF UnderWay, Ended
  <2>. QED  BY <2>1, <1>9 DEF IInv, AllMeet, Met, UnderWay
<1>11. PassedApart'
  <2>1. ASSUME NEW b \in Tx \ {t}, Passed(b), my[b].token = my[t].token, Passed(t)'
        PROVE  Met(t, b) \/ pc[b] = "dead" \/ pc[t] = "dead"
    <3>1. CASE Passed(t)
      BY <1>1, <2>1, <3>1 DEF IInv, PassedApart
    <3>2. CASE At(t, "find") /\ row[my[t].token] = "active"
      <4>1. RequestOK(b)
        BY DEF IInv, RequestsOK
      <4>2. pc[b] # "done"
        BY <2>1, <3>2, <4>1 DEF Passed, At, RequestOK, SpentAt, Issued
      <4>3. pc[b] # "new"
        BY <2>1, <4>1 DEF Passed, At, RequestOK, KindAt
      <4>4. b \in UnderWay \/ pc[b] = "dead"
        BY <4>2, <4>3 DEF UnderWay, Ended
      <4>. QED  BY <4>4 DEF IInv, AllMeet
    <3>. QED  BY <2>1, <3>1, <3>2
  <2>2. pc[t] # "dead"
    BY DEF UnderWay, Ended
  <2> SUFFICES ASSUME NEW a \in Tx, NEW b \in Tx, a # b, Passed(a)', Passed(b)',
                      my[a].token = my[b].token
               PROVE  Met(a, b) \/ pc'[a] = "dead" \/ pc'[b] = "dead"
    BY <1>9 DEF PassedApart, Met
  <2>3. CASE a = t
    BY <2>1, <2>2, <2>3, <1>2, <1>6
  <2>4. CASE b = t
    BY <2>1, <2>2, <2>4, <1>2, <1>6 DEF Met
  <2>5. CASE a # t /\ b # t
    BY <2>5, <1>2, <1>6 DEF IInv, PassedApart
  <2>. QED  BY <2>3, <2>4, <2>5
<1>. QED  BY <1>4, <1>5, <1>7, <1>8, <1>10, <1>11 DEF IInv

-----------------------------------------------------------------------------
\* The steps of a request.
LEMMA RevokeAdvances ==
    ASSUME IInv, NEW t \in Tx, NEW K, Revoke(K), \A k \in K : row[k] # "none"
    PROVE  /\ RowsAdvance(t)
           /\ row' \in [Keys -> Status]
           /\ \A k \in K \cap Keys : row'[k] = "revoked"
           /\ \A k \in Keys \ K : row'[k] = row[k]
  BY DEF IInv, Shape, Status, Revoke, RowsAdvance

LEMMA KeepsCache == UNCHANGED << cache, raced >> => OnlyForgets
  BY DEF OnlyForgets

\* What every step of a request can use.
LEMMA StepFacts ==
    ASSUME IInv, NEW t \in Tx, pc[t] \in Labels \ {"new", "done", "dead"}
    PROVE  /\ t \in UnderWay /\ RequestOK(t) /\ ForgottenAt(t)
           /\ my[t] \in Requests /\ my[t].at \in Processes
           /\ my[t].token \in Keys /\ Known(my[t].token) /\ row[t] \in Status
           /\ my[t].listed \subseteq Keys /\ my[t].changed \subseteq Keys
<1>. USE KeysDiffer
<1>1. RequestOK(t) /\ ForgottenAt(t) /\ my[t] \in Requests
  BY DEF IInv, RequestsOK, Forgotten, Shape
<1>2. my[t].at \in Processes /\ Known(my[t].token)
  BY <1>1 DEF RequestOK, KindAt, At
<1>3. row[t] \in Status
  BY DEF IInv, Shape
<1>. QED  BY <1>1, <1>2, <1>3 DEF UnderWay, Ended, Requests

\* A step that reads.
LEMMA ReadingStep ==
    ASSUME IInv, NEW t \in Tx, Find(t) \/ FindMember(t)
    PROVE  IInv'
<1>. USE KeysDiffer
<1>1. pc[t] \in {"find", "member"} /\ UNCHANGED << my, row, cache, guard, crashes, raced >>
  BY DEF Find, FindMember, At, OnlyRequests
<1>2. /\ t \in UnderWay /\ RequestOK(t) /\ Known(my[t].token)
  BY <1>1, StepFacts DEF Labels
<1>3. PICK label \in {"member", "insert", "list", "retire", "find", "done"} : Go(t, label)
  BY DEF Find, FindMember
<1>4. pc'[t] = label /\ pc' \in [Tx -> Labels]
  BY <1>3 DEF Go, IInv, Shape, Labels
<1>5. Shape'
  BY <1>1, <1>4 DEF IInv, Shape
<1>6. RowsAdvance(t) /\ OnlyForgets
  BY <1>1, KeepsCache DEF RowsAdvance
<1>7. row[t] = "none" /\ my[t].changed = {} /\ my[t].kind \in {"login", "refresh", "switch"}
      /\ (my[t].kind # "login" => my[t].listed = {my[t].token})
  BY <1>1, <1>2 DEF RequestOK, KindAt, InsertedAt, RevokedAt, At
<1>8. /\ label = "find" => my[t].kind = "switch"
      /\ label = "list" => my[t].kind \in {"login", "refresh"}
      /\ label = "retire" => my[t].kind = "refresh"
      /\ label \in {"member", "insert"} /\ At(t, "find") => row[my[t].token] = "active"
      /\ At(t, "member") /\ label = "insert" => my[t].kind \in {"login", "refresh"}
  BY <1>1, <1>3, <1>4, <1>7 DEF Find, FindMember, Go, At, IInv, Shape
<1>9. KindAt(t)'
  BY <1>1, <1>2, <1>4, <1>7, <1>8 DEF RequestOK, KindAt, At, Known
<1>10. InsertedAt(t)' /\ RevokedAt(t)' /\ SpentAt(t)' /\ ForgottenAt(t)'
  BY <1>1, <1>4, <1>7, <1>8 DEF InsertedAt, RevokedAt, SpentAt, ForgottenAt, Issued, At
<1>11. Passed(t)' => Passed(t) \/ (At(t, "find") /\ row[my[t].token] = "active")
  BY <1>1, <1>4, <1>7, <1>8 DEF Passed, At
<1>. QED  BY <1>1, <1>2, <1>3, <1>5, <1>6, <1>9, <1>10, <1>11, RequestGoesOn
          DEF RequestOK, Labels

\* A step that stores the session.
LEMMA StoringStep ==
    ASSUME IInv, NEW t \in Tx, Insert(t) \/ StoreHash(t)
    PROVE  IInv'
<1>. USE KeysDiffer
<1>1. pc[t] \in {"insert", "hash"} /\ UNCHANGED << my, cache, guard, crashes, raced >>
  BY DEF Insert, StoreHash, At
<1>2. /\ t \in UnderWay /\ RequestOK(t) /\ ForgottenAt(t) /\ my[t] \in Requests
      /\ my[t].token \in Keys /\ Known(my[t].token) /\ my[t].changed \subseteq Keys
      /\ row[t] \in Status
  BY <1>1, StepFacts DEF Labels
<1>3. PICK label \in {"hash", "done", "retire"} : Go(t, label)
                     /\ (At(t, "insert") => label = "hash")
                     /\ (At(t, "hash") => label = IF my[t].kind = "login" THEN "done" ELSE "retire")
  BY DEF Insert, StoreHash, At
<1>4. pc'[t] = label /\ pc' \in [Tx -> Labels]
  BY <1>3 DEF Go, IInv, Shape, Labels
<1>5. /\ row' \in [Keys -> Status] /\ \A k \in Keys \ {t} : row'[k] = row[k]
      /\ At(t, "insert") => row'[t] = "pending"
      /\ At(t, "hash") => row'[t] = IF row[t] = "pending" THEN "active" ELSE row[t]
  BY DEF Insert, StoreHash, IInv, Shape, Status, At
<1>6. Shape'
  BY <1>1, <1>4, <1>5 DEF IInv, Shape
<1>7. At(t, "insert") => row[t] = "none"
  BY <1>2 DEF RequestOK, InsertedAt, At
<1>8. RowsAdvance(t) /\ OnlyForgets
  BY <1>1, <1>5, <1>7, KeepsCache DEF RowsAdvance, At
<1>9. my[t].kind \in {"login", "refresh", "switch"}
      /\ (my[t].kind # "login" => my[t].listed = {my[t].token} /\ my[t].changed = {})
  BY <1>1, <1>2 DEF RequestOK, KindAt, RevokedAt, At
<1>10. KindAt(t)'
  BY <1>1, <1>2, <1>3, <1>4, <1>8, <1>9, KnownStays DEF RequestOK, KindAt, At
<1>11. InsertedAt(t)'
  BY <1>1, <1>3, <1>4, <1>5, <1>9 DEF InsertedAt, At
<1>12. RevokedAt(t)'
  <2>1. \A k \in my[t].changed : row[k] = "revoked"
    BY <1>1, <1>2, <1>9 DEF RequestOK, RevokedAt, At
  <2>2. \A k \in my[t].changed : row'[k] = "revoked"
    BY <2>1, <1>2, <1>8 DEF RowsAdvance
  <2>. QED  BY <2>2, <1>1, <1>3, <1>4, <1>9 DEF RevokedAt, At
<1>13. SpentAt(t)'
  BY <1>1, <1>3, <1>4, <1>9 DEF SpentAt, Issued, At
<1>14. ForgottenAt(t)'
  BY <1>1, <1>2, <1>4, <1>9 DEF ForgottenAt
<1>15. Passed(t)' => Passed(t)
  BY <1>1, <1>3, <1>4, <1>5 DEF Passed, At
<1>. QED  BY <1>1, <1>2, <1>3, <1>6, <1>8, <1>10, <1>11, <1>12, <1>13, <1>14, <1>15,
             RequestGoesOn DEF RequestOK, Labels

\* A step that lists the keys to forget.
LEMMA ListingStep ==
    ASSUME IInv, NEW t \in Tx, List(t)
    PROVE  IInv'
<1>. USE KeysDiffer
<1>1. pc[t] = "list" /\ Go(t, "revoke") /\ UNCHANGED << row, cache, guard, crashes, raced >>
      /\ my' = [my EXCEPT ![t].listed = Targets(t)]
  BY DEF List, At, OnlyRequests
<1>2. t \in UnderWay /\ RequestOK(t) /\ my[t] \in Requests /\ Known(my[t].token)
  BY <1>1, StepFacts DEF Labels
<1>3. pc'[t] = "revoke" /\ pc' \in [Tx -> Labels]
  BY <1>1 DEF Go, IInv, Shape, Labels
<1>4. Targets(t) \subseteq Keys
  BY DEF Targets
<1>5. /\ my'[t] = [my[t] EXCEPT !.listed = Targets(t)]
      /\ \A u \in Tx \ {t} : my'[u] = my[u]
      /\ my' \in [Tx -> Requests]
  BY <1>1, <1>2, <1>4 DEF IInv, Shape, Requests
<1>6. /\ my'[t].kind = my[t].kind /\ my'[t].token = my[t].token /\ my'[t].met = my[t].met
      /\ my'[t].at = my[t].at /\ my'[t].changed = my[t].changed
  BY <1>2, <1>5 DEF Requests
<1>7. Shape'
  BY <1>1, <1>3, <1>5 DEF IInv, Shape
<1>8. RowsAdvance(t) /\ OnlyForgets
  BY <1>1, KeepsCache DEF RowsAdvance
<1>9. RequestOK(t)' /\ ForgottenAt(t)' /\ (Passed(t)' => Passed(t))
  BY <1>1, <1>2, <1>3, <1>6
     DEF RequestOK, KindAt, InsertedAt, RevokedAt, SpentAt, ForgottenAt, Issued, At, Known, Passed
<1>. QED  BY <1>1, <1>2, <1>5, <1>6, <1>7, <1>8, <1>9, RequestGoesOn DEF Labels

\* A step that revokes rows, and forgets them next.
LEMMA RevokingStep ==
    ASSUME IInv, NEW t \in Tx, Retire(t) \/ RevokeTargets(t)
    PROVE  IInv'
<1>. USE KeysDiffer
<1>1. pc[t] \in {"retire", "revoke"} /\ Go(t, "forget")
      /\ UNCHANGED << cache, guard, crashes, raced >>
  BY DEF Retire, RevokeTargets, At
<1>2. /\ t \in UnderWay /\ RequestOK(t) /\ my[t] \in Requests
      /\ my[t].token \in Keys /\ Known(my[t].token) /\ my[t].listed \subseteq Keys
      /\ row[t] \in Status
  BY <1>1, StepFacts DEF Labels
<1>3. pc'[t] = "forget" /\ pc' \in [Tx -> Labels]
  BY <1>1 DEF Go, IInv, Shape, Labels
<1>4. At(t, "retire") =>
          /\ my[t].kind \in {"refresh", "switch", "logout"} => my[t].listed = {my[t].token}
          /\ my[t].kind = "deactivate" => my[t].listed = {Member}
          /\ my[t].kind \in {"refresh", "switch", "logout", "deactivate"}
  BY <1>2 DEF RequestOK, KindAt, RevokedAt, At
<1>5. PICK K \in SUBSET Keys :
          /\ \A k \in K : row[k] # "none"
          /\ my' = [my EXCEPT ![t].changed = K, ![t].under = my'[t].under,
                              ![t].older = my'[t].older]
          /\ my'[t].under \subseteq Tx /\ my'[t].older \subseteq Sessions
          /\ (my[t].kind # "reset" \/ At(t, "retire")) => Revoke(K)
          /\ my[t].kind = "reset" /\ ~At(t, "retire") => UNCHANGED row
          /\ At(t, "retire") => K = my[t].listed
  <2>1. CASE Retire(t)
    <3>1. \A k \in my[t].listed : row[k] # "none"
      BY <2>1, <1>2, <1>4 DEF Retire, At, IInv, KnownRows, Known
    <3>2. my'[t] = [my[t] EXCEPT !.changed = my[t].listed]
          /\ my' = [my EXCEPT ![t].changed = my[t].listed]
      BY <2>1 DEF Retire, IInv, Shape
    <3>3. my'[t].under = my[t].under /\ my'[t].older = my[t].older
      BY <3>2, <1>2 DEF Requests
    <3>4. my' = [my EXCEPT ![t].changed = my[t].listed, ![t].under = my'[t].under,
                           ![t].older = my'[t].older]
      BY <3>2, <3>3, <1>2 DEF IInv, Shape, Requests
    <3>. QED  BY <3>1, <3>3, <3>4, <2>1, <1>2 DEF Retire, Requests
  <2>2. CASE RevokeTargets(t)
    <3>1. Targets(t) \subseteq Keys /\ \A k \in Targets(t) : row[k] # "none"
      BY DEF Targets, Live
    <3>2. DEFINE reuse == my[t].kind = "refresh"
                 under == IF reuse THEN UnderWay \ {t} ELSE {}
                 older == IF reuse THEN Ended \cup Before ELSE {}
    <3>3. under \subseteq Tx /\ older \subseteq Sessions
      BY DEF UnderWay, Ended, Sessions
    <3>4. my' = [my EXCEPT ![t].changed = Targets(t), ![t].under = under, ![t].older = older]
      BY <2>2 DEF RevokeTargets
    <3>5. my'[t].under = under /\ my'[t].older = older
      BY <3>4, <1>2 DEF IInv, Shape, Requests
    <3>. HIDE DEF under, older
    <3>. QED  BY <3>1, <3>3, <3>4, <3>5, <2>2 DEF RevokeTargets, At
  <2>. QED  BY <2>1, <2>2
<1>6. /\ my'[t].changed = K /\ my'[t].kind = my[t].kind /\ my'[t].token = my[t].token
      /\ my'[t].met = my[t].met /\ my'[t].at = my[t].at /\ my'[t].listed = my[t].listed
      /\ \A u \in Tx \ {t} : my'[u] = my[u]
  BY <1>2, <1>5 DEF IInv, Shape, Requests
<1>7. my' \in [Tx -> Requests]
  BY <1>2, <1>5 DEF IInv, Shape, Requests
<1>8. RowsAdvance(t) /\ row' \in [Keys -> Status] /\ OnlyForgets
      /\ (my[t].kind # "reset" \/ At(t, "retire") => \A k \in K : row'[k] = "revoked")
      /\ \A k \in Keys : row'[k] # row[k] => row[k] # "none" /\ row'[k] = "revoked"
  <2>1. CASE Revoke(K)
    BY <2>1, <1>1, <1>5, RevokeAdvances, KeepsCache
  <2>2. CASE UNCHANGED row
    BY <2>2, <1>1, <1>4, <1>5, KeepsCache DEF RowsAdvance, IInv, Shape, Revoke
  <2>. QED  BY <2>1, <2>2, <1>5
<1>9. Shape'
  BY <1>1, <1>3, <1>7, <1>8 DEF IInv, Shape
<1>10. KindAt(t)'
  BY <1>1, <1>2, <1>3, <1>6, <1>8, KnownStays DEF RequestOK, KindAt, At
<1>11. At(t, "revoke") => row'[t] = "none" /\ my[t].kind \in {"login", "refresh", "reset"}
  <2>1. At(t, "revoke") => row[t] = "none" /\ my[t].kind \in {"login", "refresh", "reset"}
    BY <1>2 DEF RequestOK, InsertedAt, KindAt, At
  <2>2. row[t] = "none" => row'[t] = "none"
    BY <1>5, <1>2, <1>8 DEF Revoke, IInv, Shape
  <2>. QED  BY <2>1, <2>2
<1>12. InsertedAt(t)'
  <2>1. row'[t] # "pending"
    <3>1. row[t] # "pending"
      BY <1>1, <1>2 DEF RequestOK, InsertedAt
    <3>. QED  BY <3>1, <1>8
  <2>. QED  BY <2>1, <1>1, <1>3, <1>4, <1>6, <1>11 DEF InsertedAt, At
<1>13. RevokedAt(t)'
  <2>1. \A k \in K : row'[k] # "none"
    BY <1>5, <1>8
  <2>. QED  BY <2>1, <1>3, <1>4, <1>6, <1>8 DEF RevokedAt, At
<1>14. SpentAt(t)'
  <2>1. CASE At(t, "revoke")
    BY <2>1, <1>11 DEF SpentAt, Issued
  <2>2. CASE At(t, "retire")
    BY <2>2, <1>4, <1>5, <1>6, <1>8 DEF SpentAt, Issued
  <2>. QED  BY <2>1, <2>2, <1>1 DEF At
<1>15. ForgottenAt(t)'
  BY <1>3 DEF ForgottenAt
<1>16. Passed(t)' => Passed(t)
  BY <1>3, <1>6, <1>8 DEF Passed, At
<1>. QED  BY <1>1, <1>2, <1>6, <1>8, <1>9, <1>10, <1>12, <1>13, <1>14, <1>15, <1>16,
             RequestGoesOn DEF RequestOK, Labels

\* A step that forgets what was listed.
LEMMA ForgettingStep ==
    ASSUME IInv, NEW t \in Tx, Forget(t)
    PROVE  IInv'
<1>. USE KeysDiffer
<1>1. pc[t] = "forget" /\ UNCHANGED << row, guard, my, crashes >>
  BY DEF Forget, At
<1>2. /\ t \in UnderWay /\ RequestOK(t) /\ my[t] \in Requests /\ my[t].at \in Processes
      /\ my[t].listed \subseteq Keys /\ my[t].changed \subseteq Keys
  BY <1>1, StepFacts DEF Labels
<1>3. PICK label \in {"insert", "commit", "done"} : Go(t, label)
  BY DEF Forget
<1>4. pc'[t] = label /\ pc' \in [Tx -> Labels]
  BY <1>3 DEF Go, IInv, Shape, Labels
<1>5. /\ label = "insert" <=> my[t].kind = "login"
      /\ label = "commit" <=> my[t].kind = "reset"
  BY <1>1, <1>4 DEF Forget, Go, IInv, Shape
<1>6. \A p \in Processes, k \in Keys :
          cache'[p][k] = IF p = my[t].at /\ k \in my[t].listed THEN "empty" ELSE cache[p][k]
  BY <1>2 DEF Forget, IInv, Shape
<1>7. cache' \in [Processes -> [Keys -> (Status \ {"pending"}) \cup {"empty"}]]
  BY <1>2 DEF Forget, IInv, Shape
<1>8. raced' = raced \ ({my[t].at} \X my[t].listed)
  BY DEF Forget
<1>9. Shape'
  BY <1>1, <1>4, <1>7, <1>8 DEF IInv, Shape
<1>10. RowsAdvance(t)
  BY <1>1 DEF RowsAdvance
<1>11. OnlyForgets
  <2> SUFFICES ASSUME NEW p \in Processes, NEW k \in Keys, cache'[p][k] = "active"
               PROVE  cache[p][k] = "active" /\ (<< p, k >> \in raced => << p, k >> \in raced')
    BY DEF OnlyForgets
  <2>1. ~(p = my[t].at /\ k \in my[t].listed)
    BY <1>6
  <2>2. cache[p][k] = "active"
    BY <1>6, <2>1
  <2>3. << p, k >> \notin {my[t].at} \X my[t].listed
    BY <2>1
  <2>. QED  BY <1>8, <2>2, <2>3
<1>12. RequestOK(t)'
  BY <1>1, <1>2, <1>4, <1>5
     DEF RequestOK, KindAt, InsertedAt, RevokedAt, SpentAt, Issued, At, Known
<1>13. ForgottenAt(t)'
  BY <1>1, <1>2, <1>6 DEF ForgottenAt
<1>14. Passed(t)' => Passed(t)
  BY <1>1, <1>4, <1>5 DEF Passed, At
<1>. QED  BY <1>1, <1>2, <1>3, <1>9, <1>10, <1>11, <1>12, <1>13, <1>14, RequestGoesOn
          DEF Labels

\* The commit of a password reset.
LEMMA CommittingStep ==
    ASSUME IInv, NEW t \in Tx, Commit(t)
    PROVE  IInv'
<1>. USE KeysDiffer
<1>1. pc[t] = "commit" /\ UNCHANGED << my, cache, guard, crashes, raced >>
      /\ Go(t, "done") /\ Revoke(my[t].changed)
  BY DEF Commit, At
<1>2. /\ t \in UnderWay /\ RequestOK(t) /\ ForgottenAt(t) /\ my[t] \in Requests
      /\ my[t].token \in Keys /\ my[t].changed \subseteq Keys
  BY <1>1, StepFacts DEF Labels
<1>3. pc'[t] = "done" /\ pc' \in [Tx -> Labels]
  BY <1>1 DEF Go, IInv, Shape, Labels
<1>4. \A k \in my[t].changed : row[k] # "none"
  BY <1>2 DEF RequestOK, RevokedAt
<1>5. /\ RowsAdvance(t) /\ row' \in [Keys -> Status] /\ OnlyForgets
      /\ \A k \in my[t].changed : row'[k] = "revoked"
      /\ \A k \in Keys \ my[t].changed : row'[k] = row[k]
  BY <1>1, <1>2, <1>4, RevokeAdvances, KeepsCache
<1>6. Shape'
  BY <1>1, <1>3, <1>5 DEF IInv, Shape
<1>7. my[t].kind = "reset" /\ row[t] = "none" /\ row'[t] = "none"
  <2>1. my[t].kind = "reset" /\ row[t] = "none"
    BY <1>1, <1>2 DEF RequestOK, KindAt, InsertedAt, At
  <2>2. t \in Keys \ my[t].changed
    BY <2>1, <1>4
  <2>. QED  BY <2>1, <2>2, <1>5
<1>8. KindAt(t)'
  BY <1>1, <1>2, <1>3, <1>5, KnownStays DEF RequestOK, KindAt, At
<1>9. InsertedAt(t)' /\ RevokedAt(t)' /\ SpentAt(t)' /\ (Passed(t)' => Passed(t))
  BY <1>1, <1>3, <1>5, <1>7 DEF InsertedAt, RevokedAt, SpentAt, Issued, At, Passed
<1>10. ForgottenAt(t)'
  BY <1>1, <1>2, <1>3 DEF ForgottenAt
<1>. QED  BY <1>1, <1>2, <1>5, <1>6, <1>8, <1>9, <1>10, RequestGoesOn DEF RequestOK, Labels

-----------------------------------------------------------------------------
\* The steps of authMiddleware, and of time.

\* A cache takes the value of an active row, unless it is being revoked.
OnlyFreshValues ==
    \A p \in Processes, k \in Keys :
        cache'[p][k] = "active" =>
            \/ cache[p][k] = "active" /\ (<< p, k >> \in raced => << p, k >> \in raced')
            \/ << p, k >> \in raced'
            \/ row[k] # "revoked" /\ \A t \in Tx : k \notin Held(t)

LEMMA GuardGoesOn ==
    ASSUME IInv, Shape', UNCHANGED << row, pc, my >>, GuardsAsk', OnlyFreshValues
    PROVE  IInv'
<1>. USE KeysDiffer
<1>1. KnownRows' /\ RequestsOK' /\ AllMeet' /\ PassedApart'
  BY DEF IInv, KnownRows, Known, RequestsOK, RequestOK, KindAt, InsertedAt, RevokedAt, SpentAt,
         Issued, At, AllMeet, UnderWay, Ended, Met, PassedApart, Passed
<1>2. Forgotten'
  <2> SUFFICES ASSUME NEW t \in Tx, pc[t] \in {"insert", "hash", "commit", "done"},
                      NEW k \in my[t].changed \cap my[t].listed,
                      cache'[my[t].at][k] = "active"
               PROVE  << my[t].at, k >> \in raced'
    BY DEF Forgotten, ForgottenAt
  <2>1. RequestOK(t) /\ ForgottenAt(t) /\ my[t] \in Requests
    BY DEF IInv, RequestsOK, Forgotten, Shape
  <2>2. my[t].at \in Processes /\ (At(t, "commit") => my[t].kind = "reset")
    BY <2>1 DEF RequestOK, KindAt, At
  <2>3. k \in Keys
    BY <2>1 DEF Requests
  <2>4. row[k] = "revoked" \/ k \in Held(t)
    <3>1. CASE At(t, "commit")
      BY <3>1, <2>2 DEF Held, At
    <3>2. CASE pc[t] \in {"insert", "hash", "done"}
      <4>1. my[t].kind = "reset" => At(t, "done")
        BY <3>2, <2>1 DEF RequestOK, KindAt, At
      <4>. QED  BY <3>2, <4>1, <2>1 DEF RequestOK, RevokedAt
    <3>. QED  BY <3>1, <3>2 DEF At
  <2>. QED  BY <2>1, <2>2, <2>3, <2>4 DEF OnlyFreshValues, ForgottenAt
<1>. QED  BY <1>1, <1>2 DEF IInv

\* Whom a step of authMiddleware may ask about next.
GuardOK(r) ==
    /\ r \in Guarded /\ r.key \in {r.session, Member}
    /\ r.stage # "idle" => r.at \in Processes /\ Known(r.session)
    /\ r.stage = "store" => r.read \in {"active", "revoked"}

LEMMA GuardsChange ==
    ASSUME IInv, UNCHANGED row, NEW g \in Guards, NEW r, GuardOK(r),
           guard' = [guard EXCEPT ![g] = r]
    PROVE  GuardsAsk' /\ guard' \in [Guards -> Guarded]
  BY DEF IInv, Shape, GuardsAsk, GuardOK, Known

LEMMA GuardFacts ==
    ASSUME IInv, NEW g \in Guards
    PROVE  GuardOK(guard[g]) /\ (guard[g].stage # "idle" => Known(guard[g].key))
  BY KeysDiffer DEF IInv, Shape, GuardsAsk, GuardOK, KnownRows

LEMMA AwayOK == GuardOK(Away)
  BY KeysDiffer DEF Away, GuardOK, Guarded, Nowhere, Status

LEMMA DecideOK ==
    ASSUME IInv, UNCHANGED row, NEW g \in Guards, guard[g].stage # "idle", NEW v, Decide(g, v)
    PROVE  GuardsAsk' /\ guard' \in [Guards -> Guarded]
<1>. USE KeysDiffer
<1>1. GuardOK(guard[g])
  BY GuardFacts
<1>2. CASE v # "active"
  BY <1>2, AwayOK, GuardsChange DEF Decide, IInv, Shape
<1>3. CASE v = "active" /\ guard[g].key = Member
  <2>1. GuardOK([guard[g] EXCEPT !.stage = "accepted"])
    BY <1>1 DEF GuardOK, Guarded
  <2>2. guard' = [guard EXCEPT ![g] = [guard[g] EXCEPT !.stage = "accepted"]]
    BY <1>3 DEF Decide, IInv, Shape
  <2>. QED  BY <2>1, <2>2, GuardsChange
<1>4. CASE v = "active" /\ guard[g].key # Member
  <2>1. GuardOK([guard[g] EXCEPT !.key = Member, !.stage = "get"])
    BY <1>1 DEF GuardOK, Guarded
  <2>2. guard' = [guard EXCEPT ![g] = [guard[g] EXCEPT !.key = Member, !.stage = "get"]]
    BY <1>4 DEF Decide, IInv, Shape
  <2>. QED  BY <2>1, <2>2, GuardsChange
<1>. QED  BY <1>2, <1>3, <1>4

LEMMA DeliveredIsKnown ==
    ASSUME IInv, NEW s \in Delivered
    PROVE  s \in Sessions /\ Known(s)
<1>. USE KeysDiffer
<1>1. CASE s \in Before
  BY <1>1 DEF IInv, KnownRows
<1>2. CASE s \in Tx /\ pc[s] = "done" /\ row[s] # "none"
  BY <1>2 DEF IInv, RequestsOK, RequestOK, InsertedAt, Shape, Status, Known
<1>. QED  BY <1>1, <1>2 DEF Delivered

LEMMA SameCache == UNCHANGED << cache, raced >> => OnlyFreshValues
  BY DEF OnlyFreshValues

LEMMA GuardSteps ==
    ASSUME IInv, NEW g \in Guards, Ask(g) \/ Get(g) \/ Load(g) \/ Store(g)
    PROVE  IInv'
<1>. USE KeysDiffer
<1>1. UNCHANGED << row, pc, my, crashes >>
  BY DEF Ask, Get, Load, Store, NoRequests
<1>2. CASE Ask(g)
  <2>1. PICK p \in Processes, s \in Delivered :
            guard' = [guard EXCEPT ![g] = [Away EXCEPT !.at = p, !.session = s, !.key = s,
                                            !.stage = "get"]]
    BY <1>2 DEF Ask
  <2>2. GuardOK([Away EXCEPT !.at = p, !.session = s, !.key = s, !.stage = "get"])
    BY DeliveredIsKnown DEF GuardOK, Guarded, Away, Status
  <2>. QED  BY <1>1, <1>2, <2>1, <2>2, GuardsChange, SameCache, GuardGoesOn
            DEF Ask, IInv, Shape
<1>3. CASE Get(g)
  <2>1. GuardsAsk' /\ guard' \in [Guards -> Guarded]
    BY <1>1, <1>3, DecideOK DEF Get
  <2>. QED  BY <1>1, <1>3, <2>1, SameCache, GuardGoesOn DEF Get, IInv, Shape
<1>4. CASE Load(g)
  <2>1. GuardOK(guard[g]) /\ Known(guard[g].key)
    BY <1>4, GuardFacts DEF Load
  <2>2. GuardOK([guard[g] EXCEPT !.stage = "store", !.read = row[guard[g].key]])
    BY <1>4, <2>1 DEF Load, GuardOK, Guarded, Known, Status
  <2>3. guard' = [guard EXCEPT ![g] = [guard[g] EXCEPT !.stage = "store",
                                                        !.read = row[guard[g].key]]]
    BY <1>4, <2>1 DEF Load, IInv, Shape, GuardOK, Guarded
  <2>. QED  BY <1>1, <1>4, <2>2, <2>3, GuardsChange, SameCache, GuardGoesOn
            DEF Load, IInv, Shape
<1>5. CASE Store(g)
  <2>1. GuardOK(guard[g]) /\ guard[g].stage = "store"
    BY <1>5, GuardFacts DEF Store
  <2>2. GuardsAsk' /\ guard' \in [Guards -> Guarded]
    BY <1>1, <1>5, <2>1, DecideOK DEF Store
  <2>3. guard[g].at \in Processes /\ guard[g].key \in Keys
        /\ guard[g].read \in {"active", "revoked"}
    BY <2>1 DEF GuardOK, Guarded
  <2>4. cache' \in [Processes -> [Keys -> (Status \ {"pending"}) \cup {"empty"}]]
        /\ \A p \in Processes, k \in Keys :
               cache'[p][k] = IF p = guard[g].at /\ k = guard[g].key
                              THEN guard[g].read ELSE cache[p][k]
    BY <1>5, <2>3 DEF Store, IInv, Shape, Status
  <2>5. raced' = IF guard[g].read = "active"
                    /\ (row[guard[g].key] = "revoked" \/ \E t \in Tx : guard[g].key \in Held(t))
                 THEN raced \cup {<< guard[g].at, guard[g].key >>} ELSE raced
    BY <1>5 DEF Store
  <2>6. Shape'
    BY <1>1, <2>2, <2>3, <2>4, <2>5 DEF IInv, Shape
  <2>7. OnlyFreshValues
    BY <2>4, <2>5 DEF OnlyFreshValues
  <2>. QED  BY <1>1, <2>2, <2>6, <2>7, GuardGoesOn
<1>. QED  BY <1>2, <1>3, <1>4, <1>5

LEMMA ExpiringStep ==
    ASSUME IInv, NEW p \in Processes, NEW k \in Keys, Expire(p, k)
    PROVE  IInv'
<1>1. UNCHANGED << row, guard, pc, my, crashes >> /\ raced' = raced \ {<< p, k >>}
      /\ cache' = [cache EXCEPT ![p][k] = "empty"]
  BY DEF Expire
<1>2. cache' \in [Processes -> [Keys -> (Status \ {"pending"}) \cup {"empty"}]]
      /\ \A q \in Processes, x \in Keys :
             cache'[q][x] = IF q = p /\ x = k THEN "empty" ELSE cache[q][x]
  BY <1>1 DEF IInv, Shape
<1>3. Shape'
  BY <1>1, <1>2 DEF IInv, Shape
<1>4. GuardsAsk'
  BY <1>1 DEF IInv, GuardsAsk, Known
<1>5. OnlyFreshValues
  BY <1>1, <1>2 DEF OnlyFreshValues
<1>. QED  BY <1>1, <1>3, <1>4, <1>5, GuardGoesOn

-----------------------------------------------------------------------------
\* A request arrives, or is accepted by authMiddleware.  The kinds with their
\* first statements:
Entries ==
    {<< "login", "member" >>, << "refresh", "find" >>, << "reset", "list" >>,
     << "deactivate", "retire" >>, << "logout", "retire" >>, << "switch", "member" >>}

LEMMA StartingStep ==
    ASSUME IInv, NEW t \in Tx, NEW kind, NEW p \in Processes, NEW token \in Sessions,
           Known(token), NEW client \in Clients \cup {Unknown}, NEW first,
           << kind, first >> \in Entries, Start(t, kind, p, token, client, first),
           UNCHANGED << row, cache, crashes, raced >>,
           GuardsAsk', guard' \in [Guards -> Guarded]
    PROVE  IInv'
<1>. USE KeysDiffer
<1>1. pc[t] = "new" /\ pc' = [pc EXCEPT ![t] = first]
  BY DEF Start, Go, At
<1>2. kind \in AllKinds /\ first \in Labels \ {"new", "done", "dead", "insert", "commit", "forget", "hash"}
  BY DEF Entries, AllKinds, Labels
<1>3. pc'[t] = first /\ pc' \in [Tx -> Labels] /\ \A u \in Tx \ {t} : pc'[u] = pc[u]
  BY <1>1, <1>2 DEF IInv, Shape
<1>4. DEFINE listed == IF kind = "deactivate" THEN {Member} ELSE {token}
             request == [Idle EXCEPT !.kind = kind, !.at = p, !.token = token,
                                     !.client = client, !.listed = listed, !.met = UnderWay]
<1>5. my' = [my EXCEPT ![t] = request]
  BY DEF Start
<1>6. request \in Requests
  <2>1. Idle \in Requests
    BY DEF Idle, Requests, Nowhere, AllKinds
  <2>2. kind \in AllKinds /\ listed \in SUBSET Keys /\ UnderWay \in SUBSET Tx
    BY <1>2 DEF UnderWay
  <2>. QED  BY <2>1, <2>2 DEF Requests
<1>7. my'[t] = request /\ my' \in [Tx -> Requests] /\ \A u \in Tx \ {t} : my'[u] = my[u]
  BY <1>5, <1>6 DEF IInv, Shape
<1>8. /\ my'[t].kind = kind /\ my'[t].at = p /\ my'[t].token = token /\ my'[t].changed = {}
      /\ my'[t].listed = listed /\ my'[t].met = UnderWay
  BY <1>7 DEF Idle
<1>. HIDE DEF request
<1>9. Shape' /\ KnownRows'
  BY <1>3, <1>7 DEF IInv, Shape, KnownRows, Known
<1>10. row'[t] = "none"
  BY <1>1 DEF IInv, RequestsOK, RequestOK, InsertedAt
<1>11. RequestsOK'
  <2>1. RequestOK(t)'
    BY <1>2, <1>3, <1>8, <1>10
       DEF Entries, RequestOK, KindAt, InsertedAt, RevokedAt, SpentAt, Issued, At, Known
  <2>2. RowsAdvance(t)
    BY DEF RowsAdvance
  <2>3. \A u \in Tx \ {t} : RequestOK(u)'
    BY <1>3, <1>7, <2>2, OthersStay
  <2>. QED  BY <2>1, <2>3 DEF RequestsOK
<1>12. Forgotten'
  BY <1>2, <1>3, <1>7 DEF IInv, Forgotten, ForgottenAt
<1>13. AllMeet'
  <2>1. \A u \in UnderWay' \ {t} : u \in UnderWay /\ my'[u] = my[u]
    BY <1>3, <1>7 DEF UnderWay, Ended
  <2> SUFFICES ASSUME NEW a \in UnderWay', NEW b \in UnderWay', a # b
               PROVE  Met(a, b)'
    BY DEF AllMeet
  <2>2. CASE a = t
    BY <2>1, <2>2, <1>8 DEF Met
  <2>3. CASE b = t
    BY <2>1, <2>3, <1>8 DEF Met
  <2>4. CASE a # t /\ b # t
    BY <2>1, <2>4 DEF IInv, AllMeet, Met
  <2>. QED  BY <2>2, <2>3, <2>4
<1>14. PassedApart'
  <2>1. ~Passed(t)'
    BY <1>3, <1>8, <1>10 DEF Entries, Passed, At
  <2>2. \A u \in Tx \ {t} : (Passed(u)' => Passed(u)) /\ my'[u] = my[u] /\ pc'[u] = pc[u]
    BY <1>3, <1>7 DEF Passed, At
  <2>. QED  BY <2>1, <2>2 DEF IInv, PassedApart, Met
<1>. QED  BY <1>9, <1>11, <1>12, <1>13, <1>14 DEF IInv

LEMMA ArrivingStep ==
    ASSUME IInv, NEW t \in Tx, Arrive(t)
    PROVE  IInv'
<1>. USE KeysDiffer, SessionsAssumption
<1>1. UNCHANGED << row, cache, guard, crashes, raced >>
  BY DEF Arrive, OnlyRequests
<1>2. GuardsAsk' /\ guard' \in [Guards -> Guarded]
  BY <1>1 DEF IInv, Shape, GuardsAsk, Known
<1>3. Known(First) /\ First \in Sessions
  BY DEF IInv, KnownRows
<1>4. PICK p \in Processes :
          \/ \E c \in Clients \cup {Unknown} : Login(t, p, c)
          \/ \E s \in Delivered, c \in Clients : Refresh(t, p, s, c)
          \/ Reset(t, p)
          \/ Deactivate(t, p)
  BY DEF Arrive
<1>5. CASE \E c \in Clients \cup {Unknown} : Login(t, p, c)
  <2>1. << "login", "member" >> \in Entries
    BY DEF Entries
  <2>. QED  BY <1>1, <1>2, <1>3, <1>5, <2>1, StartingStep DEF Login
<1>6. CASE \E s \in Delivered, c \in Clients : Refresh(t, p, s, c)
  <2>1. << "refresh", "find" >> \in Entries
    BY DEF Entries
  <2>. QED  BY <1>1, <1>2, <1>6, <2>1, DeliveredIsKnown, StartingStep DEF Refresh
<1>7. CASE Reset(t, p)
  <2>1. << "reset", "list" >> \in Entries
    BY DEF Entries
  <2>. QED  BY <1>1, <1>2, <1>3, <1>7, <2>1, StartingStep DEF Reset
<1>8. CASE Deactivate(t, p)
  <2>1. << "deactivate", "retire" >> \in Entries
    BY DEF Entries
  <2>. QED  BY <1>1, <1>2, <1>3, <1>8, <2>1, StartingStep DEF Deactivate
<1>. QED  BY <1>4, <1>5, <1>6, <1>7, <1>8

LEMMA HandlingStep ==
    ASSUME IInv, NEW g \in Guards, Handle(g)
    PROVE  IInv'
<1>. USE KeysDiffer
<1>1. UNCHANGED << row, cache, crashes, raced >>
  BY DEF Handle
<1>2. GuardsAsk' /\ guard' \in [Guards -> Guarded]
  BY <1>1, AwayOK, GuardsChange DEF Handle
<1>3. GuardOK(guard[g]) /\ guard[g].stage = "accepted"
  BY GuardFacts DEF Handle
<1>4. guard[g].session \in Sessions /\ guard[g].at \in Processes /\ Known(guard[g].session)
  BY <1>3 DEF GuardOK, Guarded
<1>5. CASE UNCHANGED << pc, my >>
  BY <1>1, <1>2, <1>5, SameCache, GuardGoesOn DEF IInv, Shape
<1>6. CASE \E t \in Tx : Start(t, "logout", guard[g].at, guard[g].session, Unknown, "retire")
  <2>1. << "logout", "retire" >> \in Entries
    BY DEF Entries
  <2>. QED  BY <1>1, <1>2, <1>4, <1>6, <2>1, StartingStep
<1>7. CASE \E t \in Tx, c \in Clients :
               Start(t, "switch", guard[g].at, guard[g].session, c, "member")
  <2>1. << "switch", "member" >> \in Entries
    BY DEF Entries
  <2>. QED  BY <1>1, <1>2, <1>4, <1>7, <2>1, StartingStep
<1>. QED  BY <1>5, <1>6, <1>7 DEF Handle

-----------------------------------------------------------------------------
\* A process dies.
LEMMA CrashingStep ==
    ASSUME IInv, NEW p \in Processes, Crash(p)
    PROVE  IInv'
<1>. USE KeysDiffer
<1>1. UNCHANGED << row, my >>
  BY DEF Crash
<1>2. pc' \in [Tx -> Labels]
      /\ \A t \in Tx : pc'[t] = IF t \in UnderWay /\ my[t].at = p THEN "dead" ELSE pc[t]
  BY DEF Crash, IInv, Shape, Labels
<1>3. cache' \in [Processes -> [Keys -> (Status \ {"pending"}) \cup {"empty"}]]
      /\ \A q \in Processes, k \in Keys :
             cache'[q][k] = IF q = p THEN "empty" ELSE cache[q][k]
  BY DEF Crash, IInv, Shape
<1>4. raced' = {r \in raced : r[1] # p} /\ crashes' \in Nat
  BY DEF Crash, IInv, Shape
<1>5. guard' = [g \in Guards |-> IF guard[g].at = p THEN Away ELSE guard[g]]
  BY DEF Crash
<1>6. GuardsAsk' /\ guard' \in [Guards -> Guarded]
  <2>1. \A g \in Guards : GuardOK(guard'[g])
    BY <1>5, AwayOK, GuardFacts
  <2>. QED  BY <1>1, <1>5, <2>1 DEF GuardsAsk, GuardOK, Known
<1>7. Shape' /\ KnownRows'
  BY <1>1, <1>2, <1>3, <1>4, <1>6 DEF IInv, Shape, KnownRows, Known
<1>8. \A t \in Tx : pc'[t] = pc[t] \/ (pc'[t] = "dead" /\ pc[t] # "new")
  BY <1>2 DEF UnderWay
<1>9. RequestsOK'
  <2> SUFFICES ASSUME NEW t \in Tx PROVE RequestOK(t)'
    BY DEF RequestsOK
  <2>1. RequestOK(t)
    BY DEF IInv, RequestsOK
  <2>. QED  BY <1>1, <1>8, <2>1
            DEF RequestOK, KindAt, InsertedAt, RevokedAt, SpentAt, Issued, At, Known
<1>10. Forgotten'
  <2> SUFFICES ASSUME NEW t \in Tx, pc'[t] \in {"insert", "hash", "commit", "done"},
                      NEW k \in my[t].changed \cap my[t].listed,
                      cache'[my[t].at][k] = "active"
               PROVE  << my[t].at, k >> \in raced'
    BY <1>1 DEF Forgotten, ForgottenAt
  <2>1. ForgottenAt(t) /\ KindAt(t) /\ my[t] \in Requests /\ pc[t] = pc'[t]
    BY <1>8 DEF IInv, Forgotten, RequestsOK, RequestOK, Shape
  <2>2. my[t].at \in Processes /\ k \in Keys
    BY <2>1 DEF KindAt, At, Requests
  <2>3. my[t].at # p /\ cache[my[t].at][k] = "active"
    BY <1>3, <2>2
  <2>. QED  BY <1>4, <2>1, <2>3 DEF ForgottenAt
<1>11. AllMeet'
  <2>1. \A u \in UnderWay' : u \in UnderWay
    BY <1>8 DEF UnderWay, Ended
  <2>. QED  BY <1>1, <2>1 DEF IInv, AllMeet, Met
<1>12. PassedApart'
  <2>1. \A u \in Tx : (Passed(u)' => Passed(u)) /\ (pc[u] = "dead" => pc'[u] = "dead")
    BY <1>1, <1>8 DEF Passed, At
  <2>. QED  BY <1>1, <2>1 DEF IInv, PassedApart, Met
<1>. QED  BY <1>7, <1>6, <1>9, <1>10, <1>11, <1>12 DEF IInv

-----------------------------------------------------------------------------
LEMMA StepKeepsInvariant == IInv /\ [Next]_vars => IInv'
<1> SUFFICES ASSUME IInv, [Next]_vars PROVE IInv'
  OBVIOUS
<1>1. CASE \E t \in Tx : Arrive(t) \/ RequestStep(t)
  BY <1>1, ArrivingStep, ReadingStep, StoringStep, ListingStep, RevokingStep, ForgettingStep,
     CommittingStep DEF RequestStep
<1>2. CASE \E g \in Guards : Ask(g) \/ GuardStep(g)
  BY <1>2, GuardSteps, HandlingStep DEF GuardStep
<1>3. CASE \E p \in Processes, k \in Keys : Expire(p, k)
  BY <1>3, ExpiringStep
<1>4. CASE \E p \in Processes : Crash(p)
  BY <1>4, CrashingStep
<1>5. CASE UNCHANGED vars
  <2>1. Shape' /\ GuardsAsk' /\ UNCHANGED << row, pc, my, cache, raced >>
    BY <1>5 DEF vars, IInv, Shape, GuardsAsk, Known
  <2>. QED  BY <2>1, SameCache, GuardGoesOn
<1>. QED  BY <1>1, <1>2, <1>3, <1>4, <1>5 DEF Next

\* The invariant behind the theorems that follow: a rotated session is revoked
\* before its heir leaves, requests under way at once have met, and what was
\* forgotten is revoked before a loader can read it again.
THEOREM Inductive == Spec => []IInv
<1>. QED  BY InitInvariant, StepKeepsInvariant, PTL DEF Spec

\* authMiddleware and the rows of sessions: a pending session reaches no cache,
\* and whatever is cached is of a session or membership that exists.
THEOREM TypeCorrect == Spec => []TypeOK
<1>1. IInv => TypeOK
  BY KeysDiffer DEF IInv, Shape, GuardsAsk, TypeOK, Guarded, Requests
<1>. QED  BY <1>1, Inductive, PTL

\* MemoryCache: what a process revoked is not active in its cache, but for a
\* value that a slow loader stored after the revocation had begun.
THEOREM RevokedIsForgotten == Spec => []StaleEntryNeedsRace
<1>1. IInv => StaleEntryNeedsRace
  BY DEF IInv, Forgotten, ForgottenAt, StaleEntryNeedsRace
<1>. QED  BY <1>1, Inductive, PTL

\* refresh and switchEnterprise: a session has one heir unless two requests that
\* present it overlap, or a process died before it revoked the session.
THEOREM OneHeir == Spec => []OneHeirUnlessRace
<1>1. IInv => OneHeirUnlessRace
  BY DEF IInv, PassedApart, Passed, Met, Issued, OneHeirUnlessRace
<1>. QED  BY <1>1, Inductive, PTL
-----------------------------------------------------------------------------
(***************************************************************************)
(* The reuse of a refresh token.                                            *)
(***************************************************************************)
\* An active session is not older than the reuse that t found.
Fresh(t, s) == \E a \in Line(s) \ my[t].older : a \in my[t].under \/ my[a].kind = "login"

\* Once t has revoked all sessions, those of the requests that had ended stay
\* so, and who rotates a session later rotates a fresh one.
ReuseAt(t) ==
    my[t].older # {} =>
        /\ my[t].kind = "refresh" /\ pc[t] \in {"forget", "done", "dead"} /\ row[t] = "none"
        /\ Before \subseteq my[t].older
        /\ \A u \in my[t].older : ~Live(u) /\ (u \in Tx => pc[u] \in {"done", "dead"})
        /\ my[t].under \cap my[t].older = {}
        /\ \A u \in Tx \ (my[t].older \cup my[t].under) : Passed(u) => Fresh(t, my[u].token)
ReuseInv ==
    /\ \A t \in Tx : row[t] # "none" => my[t].kind \in {"login", "refresh", "switch"}
    /\ \A t \in Tx : ReuseAt(t)

LEMMA InItsLine == ASSUME NEW s \in Sessions PROVE s \in Line(s) /\ Line(s) \subseteq Sessions
  BY DEF Line

LEMMA LineOfParent ==
    ASSUME NEW s \in Sessions, NEW p \in ParentOf(s)
    PROVE  Line(p) \subseteq Line(s)
  BY DEF Line

LEMMA LineGrows ==
    ASSUME NEW s \in Sessions, \A b \in Sessions : ParentOf(b) \subseteq ParentOf(b)'
    PROVE  Line(s) \subseteq Line(s)'
<1> SUFFICES ASSUME NEW a \in Line(s), NEW C \in SUBSET Sessions, s \in C,
                    \A b \in C : ParentOf(b)' \subseteq C
             PROVE  a \in C
  BY DEF Line
<1>1. \A b \in C : ParentOf(b) \subseteq C
  OBVIOUS
<1>. QED  BY <1>1 DEF Line

\* A session that is valid after a reuse.
LEMMA LiveIsFresh ==
    ASSUME IInv, ReuseInv, NEW t \in Tx, my[t].older # {}, NEW s \in Sessions, Live(s)
    PROVE  Fresh(t, s)
<1>. USE KeysDiffer
<1>1. ReuseAt(t)
  BY DEF ReuseInv
<1>2. s \in Tx \ my[t].older
  BY <1>1 DEF ReuseAt, Sessions
<1>3. s \in Line(s)
  BY InItsLine
<1>4. CASE s \in my[t].under
  BY <1>2, <1>3, <1>4 DEF Fresh
<1>5. CASE s \notin my[t].under
  <2>1. row[s] # "none" /\ my[s].kind \in {"login", "refresh", "switch"}
    BY <1>2 DEF Live, ReuseInv
  <2>2. CASE my[s].kind = "login"
    BY <1>2, <1>3, <2>2 DEF Fresh
  <2>3. CASE my[s].kind \in {"refresh", "switch"}
    <3>1. Fresh(t, my[s].token)
      BY <1>1, <1>2, <1>5, <2>1, <2>3 DEF ReuseAt, Passed
    <3>2. ParentOf(s) = {my[s].token}
      BY <1>2, <2>1, <2>3, SessionsAssumption DEF ParentOf, Issued, Before
    <3>3. Line(my[s].token) \subseteq Line(s)
      BY <3>2, LineOfParent
    <3>. QED  BY <3>1, <3>3 DEF Fresh
  <2>. QED  BY <2>1, <2>2, <2>3
<1>. QED  BY <1>4, <1>5

\* What no step undoes.
Onward ==
    /\ \A u \in Tx : pc[u] # "new" =>
        /\ pc'[u] # "new" /\ my'[u].kind = my[u].kind /\ my'[u].token = my[u].token
    /\ \A u \in Tx : pc[u] \in {"done", "dead"} => pc'[u] \in {"done", "dead"}
    /\ \A u \in Tx : At(u, "forget") /\ my[u].kind = "refresh" =>
        pc'[u] \in {"forget", "done", "dead"}
    /\ \A u \in Tx : row[u] # "none" => row'[u] # "none"
    /\ \A u \in Tx : row'[u] # "none" => row[u] # "none" \/ At(u, "insert")
    /\ \A s \in Sessions : Live(s)' => Live(s) \/ (s \in Tx /\ At(s, "insert"))
    /\ \A u \in Tx : Passed(u)' =>
        Passed(u) \/ (pc[u] # "new" /\ At(u, "find") /\ row[my[u].token] = "active")

LEMMA FreshStays ==
    ASSUME IInv, Onward, NEW t \in Tx, NEW s \in Sessions, Fresh(t, s),
           my'[t].older = my[t].older, my'[t].under = my[t].under, Before \subseteq my[t].older
    PROVE  Fresh(t, s)'
<1>. USE KeysDiffer
<1>1. \A u \in Tx : row[u] # "none" => pc[u] # "new"
  BY DEF IInv, RequestsOK, RequestOK, InsertedAt
<1>2. \A b \in Sessions : ParentOf(b) \subseteq ParentOf(b)'
  BY <1>1, SessionsAssumption DEF ParentOf, Issued, Onward
<1>3. PICK a \in Line(s) \ my[t].older : a \in my[t].under \/ my[a].kind = "login"
  BY DEF Fresh
<1>4. a \in Line(s)'
  BY <1>2, LineGrows
<1>5. a \in Tx
  BY <1>3, InItsLine DEF Sessions
<1>6. my[a].kind = "login" => my'[a].kind = "login"
  <2>1. pc[a] = "new" => my[a].kind = "none"
    BY <1>5 DEF IInv, RequestsOK, RequestOK, KindAt, At
  <2>. QED  BY <1>5, <2>1 DEF Onward
<1>. QED  BY <1>3, <1>4, <1>6 DEF Fresh

LEMMA ReuseStays ==
    ASSUME IInv, ReuseInv, Onward, NEW t \in Tx,
           my'[t].older # {} => my'[t].older = my[t].older /\ my'[t].under = my[t].under
    PROVE  ReuseAt(t)'
<1>. USE KeysDiffer
<1> SUFFICES ASSUME my[t].older # {}, my'[t].older = my[t].older, my'[t].under = my[t].under
             PROVE  ReuseAt(t)'
  BY DEF ReuseAt
<1>1. ReuseAt(t)
  BY DEF ReuseInv
<1>2. my'[t].kind = "refresh" /\ pc'[t] \in {"forget", "done", "dead"} /\ row'[t] = "none"
  BY <1>1 DEF ReuseAt, Onward, At
<1>3. \A u \in my[t].older : ~Live(u)' /\ (u \in Tx => pc'[u] \in {"done", "dead"})
  <2>1. my[t].older \subseteq Sessions
    BY DEF IInv, Shape, Requests
  <2>. QED  BY <1>1, <2>1 DEF ReuseAt, Onward, At
<1>4. ASSUME NEW u \in Tx \ (my[t].older \cup my[t].under), Passed(u)'
      PROVE  Fresh(t, my[u].token)' /\ my'[u].token = my[u].token
  <2>1. pc[u] # "new" /\ my'[u].token = my[u].token
    <3>1. Passed(u) => pc[u] # "new"
      BY DEF Passed, IInv, RequestsOK, RequestOK, KindAt, At
    <3>. QED  BY <1>4, <3>1 DEF Onward
  <2>2. my[u].token \in Sessions
    BY DEF IInv, Shape, Requests
  <2>3. Fresh(t, my[u].token)
    <3>1. CASE Passed(u)
      BY <1>1, <1>4, <3>1 DEF ReuseAt
    <3>2. CASE row[my[u].token] = "active"
      BY <2>2, <3>2, LiveIsFresh DEF Live
    <3>. QED  BY <1>4, <3>1, <3>2 DEF Onward
  <2>. QED  BY <1>1, <2>1, <2>2, <2>3, FreshStays DEF ReuseAt
<1>. QED  BY <1>1, <1>2, <1>3, <1>4 DEF ReuseAt
LEMMA OnwardKeepsReuse ==
    ASSUME IInv, ReuseInv, Onward,
           \A u \in Tx : my'[u].older # {} =>
               my'[u].older = my[u].older /\ my'[u].under = my[u].under
    PROVE  ReuseInv'
<1>1. ASSUME NEW u \in Tx, row'[u] # "none"
      PROVE  my'[u].kind \in {"login", "refresh", "switch"}
  <2>1. pc[u] # "new" /\ my[u].kind \in {"login", "refresh", "switch"}
    <3>1. CASE row[u] # "none"
      BY <3>1 DEF ReuseInv, IInv, RequestsOK, RequestOK, InsertedAt
    <3>2. CASE At(u, "insert")
      BY <3>2 DEF IInv, RequestsOK, RequestOK, KindAt, At
    <3>. QED  BY <1>1, <3>1, <3>2 DEF Onward
  <2>. QED  BY <2>1 DEF Onward
<1>2. \A u \in Tx : ReuseAt(u)'
  BY ReuseStays
<1>. QED  BY <1>1, <1>2 DEF ReuseInv

\* A step of one request.
LEMMA OneGoesOnward ==
    ASSUME IInv, NEW t \in UnderWay, NEW label \in Labels \ {"new"}, Go(t, label),
           \A u \in Tx \ {t} : my'[u] = my[u],
           my'[t].kind = my[t].kind, my'[t].token = my[t].token,
           At(t, "forget") /\ my[t].kind = "refresh" => label = "done",
           \A k \in Keys : row[k] # "none" => row'[k] # "none",
           \A k \in Keys : Live(k)' => Live(k) \/ (k = t /\ At(t, "insert")),
           \A k \in Keys : row'[k] # "none" => row[k] # "none" \/ (k = t /\ At(t, "insert")),
           Passed(t)' => Passed(t) \/ (At(t, "find") /\ row[my[t].token] = "active")
    PROVE  Onward
<1>. USE KeysDiffer
<1>1. t \in Tx /\ pc[t] \notin {"new", "done", "dead"}
  BY DEF UnderWay, Ended
<1>2. pc'[t] = label /\ \A u \in Tx \ {t} : pc'[u] = pc[u]
  BY <1>1 DEF Go, IInv, Shape
<1>3. ASSUME NEW u \in Tx, Passed(u)'
      PROVE  Passed(u) \/ (pc[u] # "new" /\ At(u, "find") /\ row[my[u].token] = "active")
  <2>1. CASE u = t
    BY <1>1, <1>3, <2>1
  <2>2. CASE u # t
    <3>1. row'[u] # "none" => row[u] # "none"
      BY <2>2
    <3>. QED  BY <1>2, <1>3, <2>2, <3>1 DEF Passed, At
  <2>. QED  BY <2>1, <2>2
<1>4. \A s \in Sessions : Live(s)' => Live(s) \/ (s \in Tx /\ At(s, "insert"))
  BY <1>1
<1>5. \A u \in Tx : /\ row[u] # "none" => row'[u] # "none"
                    /\ row'[u] # "none" => row[u] # "none" \/ At(u, "insert")
  BY <1>1
<1>6. /\ \A u \in Tx : pc[u] # "new" =>
           pc'[u] # "new" /\ my'[u].kind = my[u].kind /\ my'[u].token = my[u].token
      /\ \A u \in Tx : pc[u] \in {"done", "dead"} => pc'[u] \in {"done", "dead"}
      /\ \A u \in Tx : At(u, "forget") /\ my[u].kind = "refresh" =>
           pc'[u] \in {"forget", "done", "dead"}
  BY <1>1, <1>2 DEF At
<1>. QED  BY <1>3, <1>4, <1>5, <1>6 DEF Onward

\* Steps that leave the kinds and the keys of the requests alone, but for what
\* was listed and changed.
LEMMA RequestsKeepReuse ==
    ASSUME IInv, ReuseInv, NEW t \in Tx,
           \/ Find(t) \/ FindMember(t) \/ Insert(t) \/ StoreHash(t) \/ Retire(t)
           \/ List(t) \/ Forget(t) \/ Commit(t)
    PROVE  ReuseInv'
<1>. USE KeysDiffer
<1>1. pc[t] \in {"find", "member", "insert", "hash", "retire", "list", "forget", "commit"}
  BY DEF Find, FindMember, Insert, StoreHash, Retire, List, Forget, Commit, At
<1>2. t \in UnderWay /\ RequestOK(t) /\ my[t] \in Requests /\ row[t] \in Status
      /\ my[t].listed \subseteq Keys /\ my[t].changed \subseteq Keys
      /\ my[t].token \in Keys /\ Known(my[t].token)
  BY <1>1, StepFacts DEF Labels
<1>3. PICK label \in Labels \ {"new"} :
          /\ Go(t, label)
          /\ At(t, "forget") /\ my[t].kind = "refresh" => label = "done"
          /\ At(t, "find") => \/ label \in {"member", "insert"} /\ row[my[t].token] = "active"
                              \/ label \in {"list", "done"}
          /\ At(t, "member") => label \in {"insert", "find", "list", "retire", "done"}
          /\ At(t, "member") /\ label = "insert" => my[t].kind \in {"refresh", "login"}
          /\ At(t, "insert") => label = "hash"
          /\ At(t, "hash") => label \in {"done", "retire"}
          /\ At(t, "retire") => label = "forget"
          /\ At(t, "list") => label = "revoke"
          /\ At(t, "forget") => label \in {"insert", "commit", "done"}
          /\ At(t, "forget") /\ label = "insert" => my[t].kind = "login"
          /\ At(t, "commit") => label = "done"
  <2>1. my[t].kind \in {"login", "refresh", "switch"} \/ pc[t] \notin {"find", "member", "hash"}
    BY <1>2 DEF RequestOK, KindAt, At
  <2>2. CASE Find(t)
    BY <2>1, <2>2 DEF Find, At, Labels
  <2>3. CASE FindMember(t)
    BY <2>1, <2>3 DEF FindMember, At, Labels
  <2>4. CASE Insert(t) \/ StoreHash(t)
    BY <2>4 DEF Insert, StoreHash, At, Labels
  <2>5. CASE Retire(t) \/ List(t) \/ Commit(t)
    BY <2>5 DEF Retire, List, Commit, At, Labels
  <2>6. CASE Forget(t)
    BY <2>6 DEF Forget, At, Labels
  <2>. QED  BY <2>2, <2>3, <2>4, <2>5, <2>6
<1>4. pc'[t] = label
  BY <1>3 DEF Go, IInv, Shape
<1>5. /\ \A u \in Tx \ {t} : my'[u] = my[u]
      /\ my'[t].kind = my[t].kind /\ my'[t].token = my[t].token
      /\ my'[t].older = my[t].older /\ my'[t].under = my[t].under
  <2>1. CASE UNCHANGED my
    BY <2>1
  <2>2. CASE Retire(t) \/ List(t)
    BY <1>2, <2>2 DEF Retire, List, IInv, Shape, Requests
  <2>. QED  BY <2>1, <2>2 DEF Find, FindMember, Insert, StoreHash, Forget, Commit
<1>6. \A k \in Keys :
          /\ row[k] # "none" => row'[k] # "none"
          /\ Live(k)' => Live(k) \/ (k = t /\ At(t, "insert"))
          /\ row'[k] # "none" => row[k] # "none" \/ (k = t /\ At(t, "insert"))
  <2>1. CASE UNCHANGED row
    BY <2>1 DEF Live
  <2>2. CASE Insert(t)
    BY <2>2 DEF Insert, IInv, Shape, Live, At
  <2>3. CASE StoreHash(t)
    BY <2>3 DEF StoreHash, IInv, Shape, Live, At
  <2>4. CASE Retire(t)
    <3>1. \A k \in my[t].listed : row[k] # "none"
      BY <2>4, <1>2 DEF Retire, At, RequestOK, RevokedAt, KindAt, IInv, KnownRows, Known
    <3>. QED  BY <2>4, <3>1 DEF Retire, Revoke, Live
  <2>5. CASE Commit(t)
    <3>1. \A k \in my[t].changed : row[k] # "none"
      BY <1>2 DEF RequestOK, RevokedAt
    <3>. QED  BY <2>5, <3>1 DEF Commit, Revoke, Live
  <2>. QED  BY <2>1, <2>2, <2>3, <2>4, <2>5 DEF Find, FindMember, List, Forget, OnlyRequests
<1>7. Passed(t)' => Passed(t) \/ (At(t, "find") /\ row[my[t].token] = "active")
  <2>1. row'[t] # "none" /\ row[t] = "none" => At(t, "insert")
    BY <1>6
  <2>2. CASE row[t] # "none" \/ At(t, "insert")
    BY <1>5, <2>2 DEF Passed
  <2>3. CASE row[t] = "none" /\ ~At(t, "insert")
    BY <1>1, <1>3, <1>4, <1>5, <2>1, <2>3 DEF Passed, At
  <2>. QED  BY <2>2, <2>3
<1>8. Onward
  BY <1>2, <1>3, <1>5, <1>6, <1>7, OneGoesOnward
<1>. QED  BY <1>5, <1>8, OnwardKeepsReuse
\* The revocation of the sessions that were found: none of them is valid, and
\* what comes to be valid later is issued to a request under way or later.
LEMMA RevokingKeepsReuse ==
    ASSUME IInv, ReuseInv, NEW t \in Tx, RevokeTargets(t)
    PROVE  ReuseInv'
<1>. USE KeysDiffer
<1>1. pc[t] = "revoke" /\ Go(t, "forget")
  BY DEF RevokeTargets, At
<1>2. t \in UnderWay /\ RequestOK(t) /\ my[t] \in Requests
  BY <1>1, StepFacts DEF Labels
<1>3. row[t] = "none" /\ my[t].kind \in {"login", "refresh", "reset"}
  BY <1>1, <1>2 DEF RequestOK, InsertedAt, KindAt, At
<1>4. PICK under, older :
          /\ under = IF my[t].kind = "refresh" THEN UnderWay \ {t} ELSE {}
          /\ older = IF my[t].kind = "refresh" THEN Ended \cup Before ELSE {}
          /\ my' = [my EXCEPT ![t].changed = Targets(t), ![t].under = under, ![t].older = older]
  BY DEF RevokeTargets
<1>5. /\ \A u \in Tx \ {t} : my'[u] = my[u]
      /\ my'[t].kind = my[t].kind /\ my'[t].token = my[t].token
      /\ my'[t].older = older /\ my'[t].under = under
  BY <1>2, <1>4 DEF IInv, Shape, Requests
<1>6. \A k \in Keys :
          /\ row[k] # "none" <=> row'[k] # "none"
          /\ Live(k)' => Live(k)
  BY DEF RevokeTargets, Targets, Revoke, Live, IInv, Shape
<1>7. my[t].kind = "refresh" => \A s \in Sessions : ~Live(s)'
  BY DEF RevokeTargets, Targets, Revoke, Live
<1>8. pc'[t] = "forget" /\ \A u \in Tx \ {t} : pc'[u] = pc[u]
  BY <1>1 DEF Go, IInv, Shape
<1>9. ~Passed(t)'
  BY <1>3, <1>6, <1>8 DEF Passed, At
<1>10. Onward
  BY <1>1, <1>2, <1>5, <1>6, <1>9, OneGoesOnward DEF Labels, At
<1>11. \A u \in Tx \ {t} : ReuseAt(u)'
  BY <1>5, <1>10, ReuseStays
<1>12. ReuseAt(t)'
  <2> SUFFICES ASSUME my[t].kind = "refresh"
               PROVE  /\ pc'[t] \in {"forget", "done", "dead"} /\ row'[t] = "none"
                      /\ Before \subseteq older
                      /\ \A u \in older : ~Live(u)' /\ (u \in Tx => pc'[u] \in {"done", "dead"})
                      /\ under \cap older = {}
                      /\ \A u \in Tx \ (older \cup under) : ~Passed(u)'
    BY <1>4, <1>5 DEF ReuseAt
  <2>1. under = UnderWay \ {t} /\ older = Ended \cup Before
    BY <1>4
  <2>2. \A u \in Ended : u # t /\ pc'[u] \in {"done", "dead"}
    BY <1>1, <1>8 DEF Ended
  <2>3. older \subseteq Sessions /\ under \cap older = {}
    BY <2>1 DEF Ended, UnderWay, Sessions
  <2>4. ASSUME NEW u \in Tx \ (older \cup under) PROVE ~Passed(u)'
    <3>1. CASE u = t
      BY <1>9, <3>1
    <3>2. CASE u # t
      <4>1. pc[u] = "new"
        BY <2>1, <2>4, <3>2 DEF UnderWay
      <4>2. row[u] = "none"
        BY <4>1 DEF IInv, RequestsOK, RequestOK, InsertedAt
      <4>3. row'[u] = "none" /\ pc'[u] = "new"
        BY <1>6, <1>8, <3>2, <4>1, <4>2
      <4>. QED  BY <4>3 DEF Passed, At
    <3>. QED  BY <3>1, <3>2
  <2>5. row'[t] = "none"
    BY <1>3, <1>6
  <2>. QED  BY <1>7, <1>8, <2>1, <2>2, <2>3, <2>4, <2>5
<1>13. ASSUME NEW u \in Tx, row'[u] # "none"
       PROVE  my'[u].kind \in {"login", "refresh", "switch"}
  <2>1. row[u] # "none"
    BY <1>6, <1>13
  <2>2. my'[u].kind = my[u].kind
    BY <1>5
  <2>. QED  BY <2>1, <2>2 DEF ReuseInv
<1>. QED  BY <1>11, <1>12, <1>13 DEF ReuseInv

\* A request that arrives has found nothing yet.
LEMMA StartingKeepsReuse ==
    ASSUME IInv, ReuseInv, NEW t \in Tx, NEW kind, NEW p, NEW token, NEW client, NEW first,
           << kind, first >> \in Entries, Start(t, kind, p, token, client, first), UNCHANGED row
    PROVE  ReuseInv'
<1>. USE KeysDiffer
<1>1. pc[t] = "new" /\ pc' = [pc EXCEPT ![t] = first]
  BY DEF Start, Go, At
<1>2. first \in {"member", "find", "list", "retire"} /\ (first = "member" => kind # "refresh")
  BY DEF Entries
<1>3. pc'[t] = first /\ \A u \in Tx \ {t} : pc'[u] = pc[u]
  BY <1>1 DEF IInv, Shape
<1>4. PICK listed : listed = IF kind = "deactivate" THEN {Member} ELSE {token}
  OBVIOUS
<1>5. my' = [my EXCEPT ![t] = [Idle EXCEPT !.kind = kind, !.at = p, !.token = token,
                                  !.client = client, !.listed = listed, !.met = UnderWay]]
  BY <1>4 DEF Start
<1>6. /\ my'[t].kind = kind /\ my'[t].older = {} /\ my'[t].under = {}
      /\ \A u \in Tx \ {t} : my'[u] = my[u]
  BY <1>5 DEF IInv, Shape, Idle
<1>7. row[t] = "none"
  BY <1>1 DEF IInv, RequestsOK, RequestOK, InsertedAt
<1>8. ~Passed(t)'
  BY <1>2, <1>3, <1>6, <1>7 DEF Passed, At
<1>9. \A u \in Tx \ {t} : Passed(u)' => Passed(u)
  BY <1>3, <1>6 DEF Passed, At
<1>10. Onward
  BY <1>1, <1>2, <1>3, <1>6, <1>8, <1>9 DEF Onward, Live, At
<1>. QED  BY <1>6, <1>10, OnwardKeepsReuse

LEMMA ArrivingKeepsReuse ==
    ASSUME IInv, ReuseInv, NEW t \in Tx, Arrive(t)
    PROVE  ReuseInv'
<1>1. {<< "login", "member" >>, << "refresh", "find" >>, << "reset", "list" >>,
       << "deactivate", "retire" >>} \subseteq Entries
  BY DEF Entries
<1>. QED  BY <1>1, StartingKeepsReuse
          DEF Arrive, Login, Refresh, Reset, Deactivate, OnlyRequests

\* No request has moved on.
LEMMA OthersKeepReuse ==
    ASSUME IInv, ReuseInv, UNCHANGED << row, pc, my >>
    PROVE  ReuseInv'
<1>1. Onward
  BY DEF Onward, Live, Passed, At
<1>. QED  BY <1>1, OnwardKeepsReuse

LEMMA CrashingKeepsReuse ==
    ASSUME IInv, ReuseInv, NEW p \in Processes, Crash(p)
    PROVE  ReuseInv'
<1>1. UNCHANGED << row, my >> /\ \A u \in Tx : pc'[u] = pc[u] \/ (pc'[u] = "dead" /\ pc[u] # "new")
  BY DEF Crash, UnderWay
<1>2. Onward
  BY <1>1 DEF Onward, Live, Passed, At
<1>. QED  BY <1>1, <1>2, OnwardKeepsReuse

LEMMA StepKeepsReuse == IInv /\ ReuseInv /\ [Next]_vars => ReuseInv'
<1> SUFFICES ASSUME IInv, ReuseInv, [Next]_vars PROVE ReuseInv'
  OBVIOUS
<1>1. CASE \E t \in Tx : Arrive(t) \/ RequestStep(t)
  BY <1>1, ArrivingKeepsReuse, RequestsKeepReuse, RevokingKeepsReuse DEF RequestStep
<1>2. CASE \E g \in Guards : Ask(g) \/ GuardStep(g)
  <2>1. PICK g \in Guards : Ask(g) \/ GuardStep(g)
    BY <1>2
  <2>2. CASE Ask(g) \/ Get(g) \/ Load(g) \/ Store(g)
    BY <2>2, OthersKeepReuse DEF Ask, Get, Load, Store, NoRequests
  <2>3. CASE Handle(g)
    <3>1. << "logout", "retire" >> \in Entries /\ << "switch", "member" >> \in Entries
      BY DEF Entries
    <3>. QED  BY <2>3, <3>1, StartingKeepsReuse, OthersKeepReuse DEF Handle
  <2>. QED  BY <2>1, <2>2, <2>3 DEF GuardStep
<1>3. CASE \E p \in Processes, k \in Keys : Expire(p, k)
  BY <1>3, OthersKeepReuse DEF Expire
<1>4. CASE \E p \in Processes : Crash(p)
  BY <1>4, CrashingKeepsReuse
<1>5. CASE UNCHANGED vars
  BY <1>5, OthersKeepReuse DEF vars
<1>. QED  BY <1>1, <1>2, <1>3, <1>4, <1>5 DEF Next

LEMMA InitReuse == Init => ReuseInv
<1> SUFFICES ASSUME Init PROVE ReuseInv
  OBVIOUS
<1>1. \A t \in Tx : row[t] = "none" /\ my[t].older = {}
  BY KeysDiffer DEF Init, Before, Idle
<1>. QED  BY <1>1 DEF ReuseInv, ReuseAt

\* What the requests that had ended held stays revoked, and whoever found a
\* session active afterwards found one that is not older.
THEOREM ReuseInductive == Spec => []ReuseInv
<1>. QED  BY InitReuse, StepKeepsReuse, Inductive, PTL DEF Spec

\* refresh with the token of a revoked session: whatever is valid afterwards
\* descends from a request that was under way, or from a later login.
THEOREM ReuseEnds == Spec => []ReuseEndsOlderSessions
<1>1. IInv /\ ReuseInv => ReuseEndsOlderSessions
  BY LiveIsFresh DEF ReuseEndsOlderSessions, Fresh, Live
<1>. QED  BY <1>1, Inductive, ReuseInductive, PTL
=============================================================================
