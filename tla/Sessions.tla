------------------------------ MODULE Sessions ------------------------------
(***************************************************************************)
(* Sessions of one user, and the cache that authenticates requests.         *)
(*                                                                         *)
(* Models login, refresh, logout and switchEnterprise of auth/service.ts,   *)
(* issueSessionTokens, the revocations of auth/repository.ts, the           *)
(* transaction of passwordResetConfirm, the deactivation of a member,       *)
(* authMiddleware, and the MemoryCache of each process.  Outside a          *)
(* transaction every statement commits at once, so each is an action, and   *)
(* a process that dies leaves what its requests had written.                *)
(***************************************************************************)
EXTENDS Integers, FiniteSets

CONSTANTS
    Processes,   \* processes of the API, each with its own MemoryCache
    Tx,          \* requests that issue or revoke; a session has the name of
                 \* the request that issued it
    Guards,      \* requests in authMiddleware
    Old,         \* a session rotated before the first request
    First,       \* the session issued in its place
    Member,      \* the membership of the user, a row and a cache key
    Clients,     \* pairs of address and user agent
    Unknown,     \* a client that does not send both
    FirstClient, \* the client of both
    Kinds,       \* the requests that may arrive
    MaxCrashes   \* bound on the crashes of processes

Before == {Old, First}
Sessions == Tx \cup Before
Keys == Sessions \cup {Member}

ASSUME SessionsAssumption ==
    /\ Old # First /\ Before \cap Tx = {} /\ Member \notin Sessions /\ Unknown \notin Clients
    /\ FirstClient \in Clients /\ MaxCrashes \in Nat
    /\ Kinds \subseteq {"login", "refresh", "logout", "switch", "reset", "deactivate"}

\* A row: a session is pending until its refresh token is stored; a membership
\* that was deactivated counts as revoked.
Status == {"none", "pending", "active", "revoked"}

VARIABLES
    row,     \* row[k]: the committed row of k
    cache,   \* cache[p][k]: what process p has cached of k, "empty" if nothing
    guard,   \* guard[g]: the request of g in authMiddleware
    pc,      \* where each request of Tx is
    my,      \* my[t]: the request of t
    crashes, \* how many processes crashed
    raced    \* << p, k >>: p cached k as active after its revocation had begun

vars == << row, cache, guard, pc, my, crashes, raced >>

\* A request: what it is (kind, at, token, client), the keys it has read and
\* forgets (listed), the rows it revoked (changed); and, for the properties,
\* the requests under way and those ended when it began or when it revoked.
Idle == [kind |-> "none", at |-> {}, token |-> First, client |-> Unknown,
         listed |-> {}, changed |-> {}, met |-> {}, under |-> {}, older |-> {}]
Away == [at |-> {}, session |-> First, key |-> First, stage |-> "idle", read |-> "none"]

Init ==
    /\ row = [k \in Keys |-> CASE k \in {First, Member} -> "active"
                         [] k = Old -> "revoked"
                         [] OTHER -> "none"]
    /\ cache = [p \in Processes |-> [k \in Keys |-> "empty"]]
    /\ guard = [g \in Guards |-> Away]
    /\ pc = [t \in Tx |-> "new"]
    /\ my = [t \in Tx |-> Idle]
    /\ crashes = 0
    /\ raced = {}

-----------------------------------------------------------------------------
Ended == {t \in Tx : pc[t] \in {"done", "dead"}}
UnderWay == {t \in Tx : pc[t] # "new"} \ Ended
At(t, label) == pc[t] = label
Go(t, label) == pc' = [pc EXCEPT ![t] = label]

\* Mutant: the tokens leave with the row, before the refresh token is stored.
DeliveredEarly == Before \cup {t \in Tx : row[t] # "none"}

\* The client holds the tokens of a session once the response was sent.
Delivered == Before \cup {t \in Tx : pc[t] = "done" /\ row[t] # "none"}
ClientOf(s) == IF s \in Before THEN FirstClient ELSE my[s].client
Live(s) == row[s] \in {"pending", "active"}

\* Rows that a password reset has updated and not committed.
Held(t) ==
    IF my[t].kind = "reset" /\ pc[t] \in {"forget", "commit"} THEN my[t].changed ELSE {}
MayUpdate(t, K) == \A u \in Tx \ {t} : Held(u) \cap K = {}

Revoke(K) == row' = [k \in Keys |-> IF k \in K THEN "revoked" ELSE row[k]]
OnlyRequests == UNCHANGED << row, cache, guard, crashes, raced >>

\* A request arrives at process p.
Start(t, kind, p, token, client, first) ==
    /\ At(t, "new") /\ kind \in Kinds
    /\ my' = [my EXCEPT ![t] = [Idle EXCEPT
                !.kind = kind, !.at = p, !.token = token, !.client = client,
                !.listed = IF kind = "deactivate" THEN {Member} ELSE {token},
                !.met = UnderWay]]
    /\ Go(t, first)

Login(t, p, c) == Start(t, "login", p, First, c, "member")
Refresh(t, p, s, c) == Start(t, "refresh", p, s, c, "find")
Reset(t, p) == Start(t, "reset", p, First, Unknown, "list")
Deactivate(t, p) == Start(t, "deactivate", p, First, Unknown, "retire")

Arrive(t) ==
    /\ \E p \in Processes :
        \/ \E c \in Clients \cup {Unknown} : Login(t, p, c)
        \/ \E s \in Delivered, c \in Clients : Refresh(t, p, s, c)
        \/ Reset(t, p)
        \/ Deactivate(t, p)
    /\ OnlyRequests

-----------------------------------------------------------------------------
(***************************************************************************)
(* authMiddleware with getOrSet: the cached value, or else the row is read   *)
(* and stored when the answer of the database arrives.                      *)
(***************************************************************************)
NoRequests == UNCHANGED << row, pc, my, crashes >>

\* The verdict on the value v of the key of g: first the session, then the
\* membership.
Decide(g, v) ==
    guard' = [guard EXCEPT ![g] =
        IF v # "active" THEN Away
        ELSE IF @.key = Member THEN [@ EXCEPT !.stage = "accepted"]
        ELSE [@ EXCEPT !.key = Member, !.stage = "get"]]

Ask(g) ==
    /\ guard[g].stage = "idle"
    /\ \E p \in Processes, s \in Delivered :
        guard' = [guard EXCEPT ![g] = [Away EXCEPT !.at = p, !.session = s, !.key = s,
                                        !.stage = "get"]]
    /\ NoRequests /\ UNCHANGED << cache, raced >>

Get(g) ==
    /\ guard[g].stage = "get"
    /\ cache[guard[g].at][guard[g].key] # "empty"
    /\ Decide(g, cache[guard[g].at][guard[g].key])
    /\ NoRequests /\ UNCHANGED << cache, raced >>

Load(g) ==
    /\ guard[g].stage = "get"
    /\ cache[guard[g].at][guard[g].key] = "empty"
    /\ guard' = [guard EXCEPT ![g].stage = "store", ![g].read = row[guard[g].key]]
    /\ NoRequests /\ UNCHANGED << cache, raced >>

Store(g) ==
    /\ guard[g].stage = "store"
    /\ LET k == guard[g].key
           p == guard[g].at
           late == \/ row[k] = "revoked"
                   \/ \E t \in Tx : k \in Held(t)
       IN  /\ cache' = [cache EXCEPT ![p][k] = guard[g].read]
           /\ raced' = IF guard[g].read = "active" /\ late
                       THEN raced \cup {<< p, k >>} ELSE raced
    /\ Decide(g, guard[g].read)
    /\ NoRequests

\* The handler of an accepted request: logout, switchEnterprise or another.
Handle(g) ==
    /\ guard[g].stage = "accepted"
    /\ guard' = [guard EXCEPT ![g] = Away]
    /\ LET s == guard[g].session
           p == guard[g].at
       IN  \/ UNCHANGED << pc, my >>
           \/ \E t \in Tx : Start(t, "logout", p, s, Unknown, "retire")
           \/ \E t \in Tx, c \in Clients : Start(t, "switch", p, s, c, "member")
    /\ UNCHANGED << row, cache, crashes, raced >>


-----------------------------------------------------------------------------
(***************************************************************************)
(* The requests.                                                            *)
(***************************************************************************)
\* The sessions a request of t revokes: at a login those of the same client.
Targets(t) ==
    {s \in Sessions : Live(s) /\ (my[t].kind = "login" => ClientOf(s) = my[t].client)}

\* Mutant: a refresh token is found whatever the status of its session.
FindAnySession(t) ==
    /\ At(t, "find") /\ Go(t, IF my[t].kind = "refresh" THEN "member" ELSE "insert")
    /\ UNCHANGED my /\ OnlyRequests

\* A refresh token of a revoked session is a reuse; switchEnterprise refuses.
Find(t) ==
    /\ At(t, "find")
    /\ LET found == row[my[t].token] = "active"
       IN  IF my[t].kind = "refresh" THEN Go(t, IF found THEN "member" ELSE "list")
           ELSE Go(t, IF found THEN "insert" ELSE "done")
    /\ UNCHANGED my /\ OnlyRequests

\* findMembershipContext, listActiveEnterprisesForUser: a refresh without a
\* membership revokes its session, a login or a change of enterprise is refused.
FindMember(t) ==
    /\ At(t, "member")
    /\ IF row[Member] = "active"
       THEN Go(t, CASE my[t].kind = "refresh" -> "insert"
                    [] my[t].kind = "switch" -> "find"
                    [] OTHER -> IF my[t].client = Unknown THEN "insert" ELSE "list")
       ELSE Go(t, IF my[t].kind = "refresh" THEN "retire" ELSE "done")
    /\ UNCHANGED my /\ OnlyRequests

Insert(t) ==
    /\ At(t, "insert")
    /\ row' = [row EXCEPT ![t] = "pending"]
    /\ Go(t, "hash")
    /\ UNCHANGED << my, cache, guard, crashes, raced >>

StoreHash(t) ==
    /\ At(t, "hash") /\ MayUpdate(t, {t})
    /\ row' = [row EXCEPT ![t] = IF @ = "pending" THEN "active" ELSE @]
    /\ Go(t, IF my[t].kind = "login" THEN "done" ELSE "retire")
    /\ UNCHANGED << my, cache, guard, crashes, raced >>

\* Mutant: the revocation of one row leaves the caches alone.
RetireOnly(t) ==
    /\ At(t, "retire") /\ MayUpdate(t, my[t].listed)
    /\ Revoke(my[t].listed)
    /\ my' = [my EXCEPT ![t].changed = my[t].listed]
    /\ Go(t, "done")
    /\ UNCHANGED << cache, guard, crashes, raced >>

\* revokeSession, and the UPDATE of a membership.
Retire(t) ==
    /\ At(t, "retire") /\ MayUpdate(t, my[t].listed)
    /\ Revoke(my[t].listed)
    /\ my' = [my EXCEPT ![t].changed = my[t].listed]
    /\ Go(t, "forget")
    /\ UNCHANGED << cache, guard, crashes, raced >>

\* revokeAllSessionsForUser, revokeMatchingClientSessionsForUser.
List(t) ==
    /\ At(t, "list")
    /\ my' = [my EXCEPT ![t].listed = Targets(t)]
    /\ Go(t, "revoke")
    /\ OnlyRequests

\* Mutant: the UPDATE names the sessions that were listed.
RevokeListed(t) ==
    /\ At(t, "revoke") /\ MayUpdate(t, my[t].listed)
    /\ IF my[t].kind = "reset" THEN UNCHANGED row ELSE Revoke(my[t].listed)
    /\ LET reuse == my[t].kind = "refresh"
       IN  my' = [my EXCEPT ![t].changed = my[t].listed,
                    ![t].under = IF reuse THEN UnderWay \ {t} ELSE {},
                    ![t].older = IF reuse THEN Ended \cup Before ELSE {}]
    /\ Go(t, "forget")
    /\ UNCHANGED << cache, guard, crashes, raced >>

RevokeTargets(t) ==
    /\ At(t, "revoke") /\ MayUpdate(t, Targets(t))
    /\ IF my[t].kind = "reset" THEN UNCHANGED row ELSE Revoke(Targets(t))
    /\ LET reuse == my[t].kind = "refresh"
       IN  my' = [my EXCEPT ![t].changed = Targets(t),
                    ![t].under = IF reuse THEN UnderWay \ {t} ELSE {},
                    ![t].older = IF reuse THEN Ended \cup Before ELSE {}]
    /\ Go(t, "forget")
    /\ UNCHANGED << cache, guard, crashes, raced >>

\* invalidateAuthSessions, invalidateMembershipContext: the keys that were read.
Forget(t) ==
    /\ At(t, "forget")
    /\ LET p == my[t].at
           K == my[t].listed
       IN  /\ cache' = [cache EXCEPT ![p] = [k \in Keys |-> IF k \in K THEN "empty" ELSE @[k]]]
           /\ raced' = raced \ ({p} \X K)
    /\ Go(t, CASE my[t].kind = "login" -> "insert"
               [] my[t].kind = "reset" -> "commit"
               [] OTHER -> "done")
    /\ UNCHANGED << row, guard, my, crashes >>

\* The transaction of passwordResetConfirm commits.
Commit(t) ==
    /\ At(t, "commit")
    /\ Revoke(my[t].changed)
    /\ Go(t, "done")
    /\ UNCHANGED << my, cache, guard, crashes, raced >>

\* Mutant: values are kept until they are deleted.
NeverExpires(p, k) == FALSE /\ UNCHANGED vars

\* A cached value is older than its time to live.
Expire(p, k) ==
    /\ cache[p][k] # "empty"
    /\ cache' = [cache EXCEPT ![p][k] = "empty"]
    /\ raced' = raced \ {<< p, k >>}
    /\ UNCHANGED << row, guard, pc, my, crashes >>

\* The process dies: its cache, its requests and their transactions are gone.
Crash(p) ==
    /\ crashes < MaxCrashes /\ crashes' = crashes + 1
    /\ cache' = [cache EXCEPT ![p] = [k \in Keys |-> "empty"]]
    /\ raced' = {r \in raced : r[1] # p}
    /\ guard' = [g \in Guards |-> IF guard[g].at = p THEN Away ELSE guard[g]]
    /\ pc' = [t \in Tx |-> IF t \in UnderWay /\ my[t].at = p THEN "dead" ELSE pc[t]]
    /\ UNCHANGED << row, my >>

RequestStep(t) ==
    \/ Find(t) \/ FindMember(t) \/ Insert(t) \/ StoreHash(t) \/ Retire(t)
    \/ List(t) \/ RevokeTargets(t) \/ Forget(t) \/ Commit(t)
GuardStep(g) == Get(g) \/ Load(g) \/ Store(g) \/ Handle(g)

Next ==
    \/ \E t \in Tx : Arrive(t) \/ RequestStep(t)
    \/ \E g \in Guards : Ask(g) \/ GuardStep(g)
    \/ \E p \in Processes, k \in Keys : Expire(p, k)
    \/ \E p \in Processes : Crash(p)

Spec == Init /\ [][Next]_vars

\* The database answers, handlers run on, and time passes.
FairSpec ==
    /\ Spec
    /\ \A t \in Tx : WF_vars(RequestStep(t))
    /\ \A g \in Guards : WF_vars(GuardStep(g))
    /\ \A p \in Processes, k \in Keys : WF_vars(Expire(p, k))

-----------------------------------------------------------------------------
\* A client that presents a session has received its tokens, so that a pending
\* session never reaches authMiddleware or its cache.
TypeOK ==
    /\ row \in [Keys -> Status]
    /\ cache \in [Processes -> [Keys -> (Status \ {"pending"}) \cup {"empty"}]]
    /\ \A g \in Guards :
        /\ guard[g].stage \in {"idle", "get", "store", "accepted"}
        /\ guard[g].session \in Sessions /\ guard[g].key \in {guard[g].session, Member}
        /\ guard[g].read \in Status
    /\ \A t \in Tx :
        /\ my[t].listed \subseteq Keys /\ my[t].changed \subseteq Keys
        /\ my[t].token \in Sessions
    /\ raced \subseteq Processes \X Keys

\* The session of t was issued in the place of the one t presented.
Issued(t) == my[t].kind \in {"refresh", "switch"} /\ row[t] # "none"
ParentOf(s) ==
    IF s = First THEN {Old} ELSE IF s \in Tx /\ Issued(s) THEN {my[s].token} ELSE {}

\* s and the sessions it descends from: the least set that holds s and, with a
\* session, the one it was issued in the place of.
Line(s) ==
    {a \in Sessions : \A C \in SUBSET Sessions :
        s \in C /\ (\A b \in C : ParentOf(b) \subseteq C) => a \in C}

\* What a process revoked it no longer takes from its cache, but for a value
\* that a slow loader stored after the revocation began, and for a session
\* issued after revokeAllSessionsForUser had listed the sessions it forgets.
StaleEntryNeedsRace ==
    \A p \in Processes, t \in Tx :
        pc[t] = "done" /\ my[t].at = p =>
            \A k \in my[t].changed \cap my[t].listed :
                cache[p][k] = "active" => << p, k >> \in raced

\* One refresh token or one change of enterprise yields one session: two
\* sessions issued in the place of the same one come from requests that were
\* under way at the same time, or from one whose process died on the way.
OneHeirUnlessRace ==
    \A a, b \in Tx :
        a # b /\ Issued(a) /\ Issued(b) /\ my[a].token = my[b].token =>
            a \in my[b].met \/ b \in my[a].met \/ "dead" \in {pc[a], pc[b]}

\* After the reuse of a refresh token no session of before is valid: an active
\* one descends from a request that was under way, or from a later login.
ReuseEndsOlderSessions ==
    \A t \in Tx :
        my[t].kind = "refresh" /\ my[t].older # {} =>
            \A s \in Sessions :
                row[s] = "active" =>
                    \E a \in Line(s) \ my[t].older :
                        a \in my[t].under \/ my[a].kind = "login"

\* A revoked session or membership is, from some moment on, in no cache.
RevocationReachesCaches ==
    \A p \in Processes, k \in Keys :
        row[k] = "revoked" ~> [](cache[p][k] # "active")
=============================================================================
