---------------------------- MODULE StockAccount ----------------------------
(***************************************************************************)
(* What the stock module promises its callers: a request is applied whole,  *)
(* at one instant, to the balances of that instant, or not at all; and the  *)
(* account of a row is written together with its balance.                   *)
(* StockLedger is shown to implement it.                                    *)
(***************************************************************************)
EXTENDS Integers, Sequences

CONSTANTS
    Tx, Rows, Start, NoRow,
    Requests    \* what may be asked: a sequence of changes

VARIABLES outcome, request, balance, account

vars == << outcome, request, balance, account >>

Init ==
    /\ outcome = [t \in Tx |-> "new"]
    /\ request = [t \in Tx |-> << >>]
    /\ balance = Start
    /\ account = [r \in Rows |-> << >>]

Held(r) == IF balance[r] = NoRow THEN 0 ELSE balance[r]

\* What change c makes of row r, and of what the request adds to its account.
Change(c, r, row) ==
    LET after == IF c.op = "adjust" THEN row.balance + c.delta ELSE row.balance
        entry == [type |-> c.type, before |-> row.balance, after |-> after]
    IN  IF c.row # r THEN row
        ELSE [balance |-> after,
              account |-> IF c.logged THEN Append(row.account, entry) ELSE row.account]

\* Row r after each number of changes, from the balance `start'.
Applied(changes, r, start) ==
    LET row[n \in 0 .. Len(changes)] ==
            IF n = 0 THEN [balance |-> start, account |-> << >>]
            ELSE Change(changes[n], r, row[n - 1])
    IN  row

\* No change takes more than there is, nor asks for more than there is.
Admissible(changes) ==
    \A n \in 1 .. Len(changes) :
        LET c == changes[n]
        IN  /\ c.op # "reject"
            /\ Applied(changes, c.row, Held(c.row))[n - 1].balance + c.delta >= 0

Submit(t) ==
    /\ outcome[t] = "new"
    /\ outcome' = [outcome EXCEPT ![t] = "open"]
    /\ \E asked \in Requests : request' = [request EXCEPT ![t] = asked]
    /\ UNCHANGED << balance, account >>

Apply(t) ==
    /\ outcome[t] = "open"
    /\ outcome' = [outcome EXCEPT ![t] = "committed"]
    /\ LET changes == request[t]
           final(r) == Applied(changes, r, Held(r))[Len(changes)]
       IN  /\ Admissible(changes)
           /\ balance' = [r \in Rows |->
                IF \E n \in 1 .. Len(changes) : changes[n].row = r
                THEN final(r).balance ELSE balance[r]]
           /\ account' = [r \in Rows |-> account[r] \o final(r).account]
    /\ UNCHANGED request

Refuse(t) ==
    /\ outcome[t] = "open"
    /\ outcome' = [outcome EXCEPT ![t] = "aborted"]
    /\ UNCHANGED << request, balance, account >>

Next == \E t \in Tx : Submit(t) \/ Apply(t) \/ Refuse(t)

Spec == Init /\ [][Next]_vars
=============================================================================
