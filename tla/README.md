# RMSys Gescom API: TLA+ models and proofs

The Gescom API is an Express server over PostgreSQL: sales and work orders,
stock, receivables and payables, Brazilian fiscal documents (NF-e, NFC-e, CT-e),
members, users and enterprises. Several server processes answer requests at the
same time. A request that changes something runs one database transaction
(`db.transaction`, drizzle-orm) at PostgreSQL's default isolation, READ
COMMITTED; a few services take row locks (`.for("update")`), most do not. What
can go wrong, and what the unit tests under `src/tests` do not reach (they test
formatting, tax and schemas, and mock the database), is therefore the
interleaving of transactions, what one of them reads before another commits,
and requests that fail half way. The models are about that.

## Contents

| module | what it is |
|---|---|
| `StockLedger` | movements of stock: row locks, statements, refusals, insert races, deadlocks, lost connections |
| `StockAccount` | abstract specification of the stock module; `StockLedger` implements it |
| `StockLedger_proofs` | theorems about `StockLedger` and `BatchBalances`, checked by TLAPS |
| `BatchBalances` | extends `StockLedger` with the direct create, patch and delete of batch balances |
| `SaleStock` | a sale or work order: its lines, stock movements, total, status and payments |
| `SaleStock_proofs` | theorems about `SaleStock` |
| `WorkOrder` | a work order or budget, the documents generated from it, the returns of sales, the estorno |
| `Receivables` | a title, its installments, settlements, reversals and a credit |
| `BankSlips` | the billing of sales, the slips of their plans, and the bank that registers and reports them |
| `Financial_proofs` | theorems about `BankSlips` and `Receivables` |
| `Purchases` | purchase notes: entry into stock, costs, payables, and their deletion |
| `Purchases_proofs` | theorems about `Purchases` |
| `NfeDocument` | an invoice between its draft and the tax authority |
| `SalesDocuments_proofs` | theorems about `WorkOrder` and `NfeDocument` |
| `EntityCodes` | a sequence of an enterprise, the codes drawn from it, voided ranges, the update by hand |
| `EntityCodes_proofs` | theorems about `EntityCodes` |
| `Sessions` | login, rotation, revocation, and the cache of every server process |
| `Sessions_proofs` | theorems about `Sessions` |
| `SumTheorems` | lemmas about sums over finite sets, which the proofs share |
| `MC*` | small instances of each of these for TLC |

`PROJECT.json` maps every definition to the lines it stands for, and lists the
runs, mutants, findings, hazards and theorems. `tlc -config <run>.cfg <module>`
repeats a run and `tlapm <module>_proofs.tla` checks the proofs of a module.

## Inventory

For each part: the state it keeps, its operations, its interactions, what is
hard about it, and what makes it correct.

### Stock (`modules/stock`)

- State: `products_enterprises.stock_balance`, `stock_batch_balances.quantity`
  (unique per batch and location), `stock_movements` with the quantities before
  and after on either side, and min-max and group rows.
- Operations: `createStockMovementInTx` (from the stock routes, and from sales,
  returns and purchases inside their transactions), `adjustStockBalance`,
  `assertSufficientStock`; create, patch and delete of a batch balance.
- Hard: the same product or batch row in concurrent requests; lock order
  (product first in a sale, batch row first in a movement, rows in the order
  of the request's movements); an INSERT race for a batch row; CHECK constraints that
  refuse a movement after its balances moved; a read outside the transaction in
  the patch of a batch balance.
- Correct: no balance is negative; movements account for every change of a
  balance; the batch rows add up to the product; a request is applied whole or
  not at all, as if alone; every request ends.

### Sales (`modules/sales`)

- State: `sales` (type, status, totals), `sales_items` (quantity,
  `quantity_converted`, `quantity_returned`), payments, returns and the
  movements whose document reference names a line or a revision of a line.
- Operations: `addItem`, `updateItem`, `removeItem`, `patch` (fields, totals,
  finalize, cancel), budget to sale, budget to work order, work order to sale,
  `estornoOsToOpen`, `cancelOs`, partial and full returns, print, analytics, and
  the outbox of the harbour marketplace.
- Interactions: stock (movements in the same transaction), financial (titles
  of a finalized sale, credits of a return), sequences (order numbers), nfe.
- Hard: a sale is read and validated before or without a lock, and updated by
  id; idempotence of movements rests on a lookup, not on a constraint;
  converted and returned quantities are written as absolute values.
- Correct: stock that is out is what the lines ask for; a sale is paid once; a
  cancelled sale stays so; no more is converted or returned than was sold; the
  total is that of the lines.

### Financial (`modules/financial`)

- State: titles, installments, settlements, credits, billing batches, bank
  slips, cash accounts.
- Operations: `settle`, `settleIntegral`, `reverse`, `applyCredit`, `bill`,
  `issueSlips`, `importReturn`, `handleWebhook`, and what sales, returns and
  purchases call through `port.ts`.
- Hard: balances are read, recomputed in the process and written back absolute.
  Only `settleIntegral` locks what it reads; the bank can report one payment
  twice.
- Correct: an installment's balance is its amount less its settlements; a title
  sums its installments and its status says so; nothing is settled or reversed
  twice; no credit is spent twice.

### Fiscal documents (`modules/nfe/document`, `events`)

- State: headers with status (`PENDENTE`, `ASSINADA`, `AUTORIZADA`,
  `REJEITADA`, `CANCELADA`, `DENEGADA`, `INUTILIZADA`), contents and protocol,
  files of signed and authorized XML, events (cancel, correct, void a range),
  links to the sales they invoice.
- Operations: create, patch and replaceItems of a draft, sign, `authorize`,
  cancel, `inutilizeNote`, `inutilizeRange`.
- Hard: the call to the tax authority sits between a read and an UPDATE by id
  that no lock or transaction joins; answers that are lost or late; a process
  that dies after the authority accepted; an NFC-e is dated anew when it is sent again.
- Correct: a closing status is one that the authority confirmed; a sale is
  released only when its invoice can never be valid again; an authorized
  invoice does not reopen, and says what was authorized.

### Purchases (`modules/nfe/compras`)

- State: notes of suppliers with an entry date or a mark that they need none,
  the movements COMPRA of their items, the costs of the products (current,
  previous, weighted average), and the payables of notes and freights.
- Operations: `lancar`, `excluir`, `dispensar`, `repor`, and a payable made for
  a note by hand.
- Hard: deletion undoes by inverse formulas what other requests may have changed;
  header and products are locked, payables and the check of `dispensar` are not.
- Correct: what is in stock and owed is that of the launched notes; a deleted
  entry leaves costs as they were.

### Billing and bank slips (`modules/financial/service.ts`)

- State: plans of installments by source (`PEDIDO`, `NFE`, `BOLETO`), slips with
  the number and status of their registration, the agreement with its
  next number, remittances and return files, the bank.
- Operations: `bill`, renewal of due dates, `issueSlips`, `createRemittance`,
  `importReturn`, `handleWebhook`, `settleFromBank`.
- Hard: numbers are read and written back plus one, and unique only within an
  agreement, while a webhook looks one up over all of a provider; a slip is registered
  at the bank inside a transaction that may still fail; reports come twice, late
  and in any order; plans are replaced while payments arrive.
- Correct: a sale has one live plan; a payment reaches the plan it was made for
  and is settled once; a slip is not refused while the bank holds it.

### Sequences and codes (`shared/sequences`, `enterprises/sequences`, `nfe/sequences.ts`)

- State: one row per enterprise and type, the codes and numbers in use, voided
  ranges.
- Operations: an atomic increment, raising the floor, a code that skips taken
  ones (50 attempts), numbers and codes informed by the caller, codes patched
  later, invoices moved to another model, series or issuance by their PATCH, and
  the manual change of a sequence.
- Hard: the manual change reads the last number used and writes an absolute
  value; checks for free numbers precede their use, and the PATCH of an invoice
  has none; two orders of locking.
- Correct: the sequence is never below a code in use; what it hands out is free
  and is found; waiting in a circle is confined to one known case.

### Authentication (`modules/auth`, `shared/cache`, `shared/middleware`)

- State: credentials with a counter of failures, sessions (refresh hash,
  revocation, successor), reset and invitation codes with attempts, and a cache
  per process of sessions, memberships and permissions.
- Operations: login, refresh (rotation), logout, switch of enterprise, reset,
  first access, revocation, and the middleware that reads the cache.
- Hard: two refreshes of a token, statements that commit one by one, a cache
  filled by a read that began before an invalidation, other processes' caches.
- Correct: a token has one heir; reuse of a token ends the sessions of before;
  a revoked session or member is soon refused everywhere.

### The rest

Users, memberships, enterprises and maintainer, products and prices, sectors,
vehicles, addresses, printers, catalogues and modules are single-row records
with soft delete whose uniqueness partial indexes keep. Tax calculation,
DANFE, XML and print are pure. `shared` holds errors, validation, pagination,
audit rows and logging. `scripts` holds the migration runner and its lint.
`PROJECT.json` lists each with the reason why it is not modelled.

## How the database is modelled

The models share one reading of PostgreSQL at READ COMMITTED:

- a variable holds what is *committed*; what a transaction wrote is kept apart
  (`draft` and `sides`, or fields of `my` or `request`) and merged at its commit;
- a statement sees the committed rows of the moment it runs, and the
  transaction's own writes;
- `SELECT ... FOR UPDATE`, `UPDATE`, `DELETE` and the `INSERT` of a unique key
  wait for the transaction that holds the row: `MayLock` is the guard and `lock`
  records the holder until commit or abort;
- an error aborts the transaction: its writes vanish. Deadlock detection, a lost
  connection and a refusal have the same effect.

The steps of a model are statements, joined where no other transaction can tell
them apart: reads that nothing can change in between, or writes to rows that
are already locked. Requests are members of small sets. A transaction runs one
request; `Tx` (`Transactions` in `WorkOrder` and `Receivables`) bounds how many
there are. These two name their parts otherwise (`step`, `request`, `overlapped`
for `pc`, `my`, `overlap`) so that one module can prove about two models.

## The modules

### StockLedger

Rows are products and (batch, location) pairs. `StatementsOf` is
`createStockMovementInTx`: it turns a movement into the statements that
`adjustStockBalance` runs, in order, with the total of a batch product adjusted
after its batch row and left alone by a transfer. `LockAndAdjust`,
`RefuseInsufficient`, `MissBatchRow`, `InsertBatchRow` and `InsertConflict` are
the outcomes of one statement; `RejectMovement` is an INSERT that the CHECK
constraints of `stock_movements` refuse. `DeadlockVictim` and `Disconnect` are
the database's. `sides` and `ledger` hold the quantities before and after that
movements record.

`InsertConflict` deserves a word: `applyDeltaToLockedBalance` catches the unique
violation and retries a read *in the same transaction*. PostgreSQL refuses every
statement of a transaction in which one failed, so the retry fails as well and
the request ends in an error. That is what the action does.

`StockAccount` promises callers that requests are applied whole, one at a
time, to the balances of the instant of their commit. The mapping, `Account`,
stands at the end of `StockLedger`: a request is the sequence of the statements
of its movements (`RequestStatements`), one in progress is "open", committed
balances and accounts are themselves, and a commit is an `Apply`.

### BatchBalances

Adds the routes that write batch balances directly. `patch` and `delete` read
the row before their transaction (`ReadBalance`), and write it and the
*difference to that read* to the product (`RewriteBalance`); `generation` tells
the id of a deleted row from that of one created in its place. Moving a balance
to another batch or location is left out.

### SaleStock

One sale. `my[t].kind` is the request and `pc` the next statement. The order of
the statements is the code's: `updateItem` reads the line, looks its exit up,
returns it, reads the last revision, returns that one, locks the product,
records the next revision, writes the line, sums the lines and writes the
total. `LookUpReturn` and `InsertReturn` are separate because the lookup takes
no lock. `overlap` notes that a request committed while another one was under
way: what holds only without overlap is stated with it.

Abstracted: prices (the total is the sum of quantities), discounts, fractional
quantities, services (they move no stock), the financial title of the sale. A
line's product does not change.

### WorkOrder

An order (a work order, or a budget with or without services: `OrderInit` chooses), a
document that was generated from it before the first request, and the
documents that requests generate: a sale, or from a budget with services a work
order. The three conversions follow one scheme and differ in what they refuse
(`ReadToConvert`, `ReadLines`) and insert (`SaleOf`, `OrderOf`). Nothing gives
quantities back to a budget: returns reopen work orders only, and the estorno is
refused. `table` holds the rows of `sales` and
`sales_items` (a document and its lines) and the counter of order numbers;
`draft[t]` holds what a transaction wrote, and with it the locks it has. A
request reads without locks and writes absolute values, so `request[t].seen` is what
it read and what its UPDATE is computed from. A conversion takes a number
(`TakeNumber`: the UPDATE of the counter makes later conversions of the
enterprise wait), inserts the document and its lines, writes the lines of the order,
reads them again and writes the status they call for. Returns write lines one at a time
(`ReadReturnLine`, `NumberReturn`, `InsertReturn`, `WriteReturned`), then
the situation of the sale; a full return that cancelled it goes on with
`reopenLinkedWorkOrder`. The estorno cancels and unlinks the sales it read,
then their lines, the lines of the order and the order.

Left out: the exits of stock that conversions of budgets record (as `addItem`
does in `SaleStock`), changes of items, the conversion of a generated work order, field edits by `patch` and the statuses INATIVA and PARCIAL that its
schema also lets through, the refusal of a return for a
note or a slip, and the receivable of the sale.

### Receivables

One title with installments 1 .. N and one credit. A request reads, plans its
writes, writes the installments, and `refreshTitle` sums what it sees and writes
statuses and title. `settleIntegral` locks installments and title first. An
amount is the abatement of the balance, so interest, fines and discounts are not
told apart. Billing, cancellation and bank slips are left out.

### BankSlips

`plan[i]` and `slip[i]` are the rows of installment `i`, a title and a source:
the unique index of installments allows one of each. A request reads
(`ReadTitles`, `ReadSchedule`), cancels the live plan, inserts the new one and
issues its slip; its uncommitted rows are in `my`, and `Cancelling`,
`Inserting` and `Issuing` are what the unique indexes and row locks keep the
others from. The agreement of channel `API` registers a slip inside the
transaction, so a transaction that fails leaves a number at the bank
(`orphans`); channel `CNAB` sends remittances and reads return files; channel `none`
is an agreement whose provider has no adapter, so that slips are issued and never
registered (`if (agreement.channel === "API" && port)`). The bank is
the environment: it reads files, registers or refuses, is paid, and reports any
number of times in any order (`mail`, `Report`). `overlap` records that two
requests other than remittances were under way at once.

The slips are those of one agreement. Numbers are unique within an agreement and
start at 1 in each, and `handleWebhook` asks for number and provider only, over all
agreements and enterprises, first row found. So the other agreements of the provider are in the
model as the set `Foreign` of numbers that they have issued too: customers pay those
slips as well (`Payable`), and `SlipFound` gives a webhook any of the slips of that number, the
one `Elsewhere` among them; what it settles there is of another plan and not
followed. A line of a return file is looked up in its own agreement. The field
`of` of a report says whose slip was paid.

Left out: due dates but for whether a request changes only them, discounts,
plans of several installments, the statuses of titles (they are in `Receivables`).

### Purchases

`note` is the header, `moved` the movements COMPRA that are not EXCLUIDA,
`stock[p]` balance and costs of a product. `lancar` and `excluir` lock the
header and then the products (`my[t].work` holds rows locked and written);
payables are read without locks. Costs are exact fractions, where the code
rounds to four decimals: `Reverted` is the inverse of `WeightedAverage` only in
exact arithmetic, so rounding is not examined. `before` and `touched` remember,
for the property alone, what a product was before a note and whether anything
else has changed it since.

`Lines` gives every note at least one item, as the schema of a launch does
(`itens: z.array(...).min(1)`, entrada-schema.ts:77).

Left out: suppliers and products that `lancar` creates, codes and CFOPs, batches,
sale prices, several installments.

### NfeDocument

One invoice. A request reads the row, posts a message to the authority (`wire`),
and writes from the answer, whatever the row is by then; edits of a draft check
the row and write it afterwards. `Answer` lets the authority answer what its
services answer for what it holds (`Outcomes`), also after the caller gave up
(`Fail`: a timeout or a dead process); `Lose` drops a message. Of the contents some are accepted, some refused for good,
the rest rejected.

`content` is what the invoice says and when it was emitted. `authorize` runs
`refreshNfceEmission` before it signs (`RefreshEmission`, for the contents in `Nfce`): it
refuses an NFC-e of another month, sends a fresh one as it is, and else writes the date
of now to the row, so that what is signed and sent is not what an earlier call
sent. `LastDate` bounds the dates.

`overlap` records two requests under way at once, `astray` a caller that gave up
with its message under way or a rejection of an invoice that was already
authorized. The two properties about status and sale do without either.

A letter of correction (`correct`) takes the number after the last one recorded
here, and is recorded from the answer, in place of one with its number. So the
model shows a consequence which no property forbids: when the process dies after the
authority registered a letter, every later one takes the same number and is
refused. `AuthorityConfirmsStatus` says only that what is recorded was registered.
`MAX_CCE_SEQ` is 2 in the run where the code has 20.

Left out: the check of the substitute in `cancelBySubstitution`, which else is
`cancel`; the draft's making and validation, the numbering (it is in `EntityCodes`),
files.

### EntityCodes

One sequence of any type (`type` is chosen in `Init`), the rows it numbers and
the transaction that holds its row. That of invoices numbers the own ones of one model, whatever
their series; ranges are voided in its current series. A creation draws (`NextSequence`, and
`Inspect` for taken codes) or brings its number (`CheckFree`, `SyncFloor`); the patch
of a product commits its code before a second transaction raises the floor
(`late`), that of a member does both in one. A floor that is high enough locks
nothing, since the UPDATE matches no row. `inutilizeRange` reads, records the range
and raises the floor, and closes what it finds. `ReadLastUsed` and `SetSequence` are the
update by hand.

`LoadDraft` and `PatchInvoice` are the PATCH of an invoice, which may write model, series,
issuance and, for a supplier's, the number, and neither looks whether the
number is free nor raises the sequence. `outside` are the invoices of another model or of a supplier,
with any number; `strayed` the own ones of another series. An invoice that comes
from either keeps the number it had; `late` marks it, as it marks a code of a product
whose floor is not yet raised.

Left out: the deletion of members, products and invoices, which only frees codes; the other
fields of these rows.
`MAX_ATTEMPTS` is 2 in the run where the code has 50.

### Sessions

Sessions of one user, named by the requests that issue them. Outside a
transaction each statement commits by itself and is an action: `Insert` and
`StoreHash`, `Retire`, then `Forget` in the cache of the process that runs it. A
password reset is one transaction whose revocations hold their rows (`Held`)
until its commit. `Ask`, `Get`, `Load` and `Store` are the middleware with
`getOrSet`: an entry that is not there is loaded, and stored when the answer
arrives, whatever was forgotten meanwhile. `Expire` is the time to live of an
entry, `Crash` empties a cache and stops the requests of a process.

Left out: passwords and the lock after failures, the mismatch of token hash or
session id, expiry of tokens, the cache of permissions, first access.

## The runs

Each finishes within two minutes. The one marked V expects a violation: it shows
a disagreement between the code and what one of its own lines says, listed
under findings.

| run | instance | question |
|---|---|---|
| `stock_ledger` | 3 requests out of 9, a plain and a batch product, 2 batches, 2 locations | is any movement lost, half applied or out of order; do batch rows match totals? |
| `batch_balances` | 3 transactions, at most 2 of them rewrites; sales, returns and transfers in both directions; fairness | when can batch rows and total drift apart; does every request end, in whatever order it takes its locks? |
| `sale_stock` | 3 requests of all 7 kinds, a sale with one line | exits recorded once, sale paid once; without overlap stock, totals and status follow lines and requests |
| `os_cancel_stock` V | 2 requests | does the cancellation of an order return its stock? |
| `work_order` | 3 requests of all 8 kinds, an order or budget of 2 lines with or without services, a first document | is more sold than converted, more returned than recorded; does the order's status follow its lines? |
| `receivables` | 3 requests of all 4 kinds, 3 installments, one of them paid | do balances, statuses, title and credit agree with the settlements? |
| `bank_slips` | 3 requests of all 5 kinds, 2 sales, the 3 channels, number 2 also issued by another agreement, 1 payment reported any number of times | does a payment reach its plan, once; has a sale one plan; is a slip refused while the bank holds it? |
| `purchases` | 4 requests of all 7 kinds, 2 notes that share a product, a freight that is paid | do stock, costs and payables follow the launched notes? |
| `nfe_document` | 4 requests of all 7 kinds; contents accepted (one of them an NFC-e), rejected (an NFC-e), refused; 2 dates of emission | is the status what the authority confirmed; can a sale be invoiced twice; is an authorized invoice still what was authorized? |
| `entity_codes` | 3 requests of all 6 kinds, all 4 types, 2 rows, an invoice of another model or a supplier, numbers 2 to 4, 2 attempts | who can get a taken number, fall behind the sequence, find no number, or deadlock? |
| `sessions` | 2 requests of all 6 kinds, 1 guarded request, a crash | is what a cache says current but for the known races; has a token one heir? |
| `session_expiry` | 2 processes, 1 revocation, 1 guarded request, fairness | does a revocation reach the caches of all processes? |

Why the bounds are enough for what is claimed: every hazard listed is a race of
two transactions, or of two and a third that prepares the state they race for
(a row inserted, a settlement to reverse, a line revised). Three transactions of
one request each give both. `nfe_document` and `purchases` have four, because an
invoice must be sent and cancelled, and a note launched, before two requests can race about
the result; `sessions` has two next to a guarded request and two sessions of before. The
balances start so that the last unit is contended for, and requests hold two
movements so that a second movement fails after the first one wrote.
`LastDate` is 1, since one later date is enough to differ from the first; `Foreign` is {2}, so
that the first slip has a number of its own and the second one that is issued elsewhere too. `MaxRewrites` bounds rewrites at two because two are needed for one to overwrite
the other; `MaxPayments` bounds payments at one, which is reported any number of
times; `MaxCrashes` allows one crash. The order of
`WorkOrder` has two lines so that two conversions can write different ones, and
its first sale has two thirds of one line so that it can be returned in two
parts. The numbers of `entity_codes` reach beyond the sequence so that codes lie
ahead of it, two in a row. Symmetry permutes requests or values that are alike, and
never in a run with a liveness property. Every request stops when it is done, so
these instances end and deadlock is not checked; that none is stuck is what
`EveryRequestEnds` shows.

Fairness: `BatchFairSpec` assumes weak fairness of the steps of each open request
and nothing else. The server keeps executing the statements of a request it has
begun, and PostgreSQL grants a lock that is free and kills one of those that
wait for each other. No request has to arrive and no connection has to break.
`FairSpec` of `Sessions` assumes that the database answers, that handlers run on,
and that time passes, so that an entry older than its time to live counts as
absent. No request has to arrive.

## What the runs show

Holds, under every interleaving explored unless a line says otherwise:

- no movement is lost and none half recorded: stock requests implement
  `StockAccount`, and each row's movements are an unbroken account of it;
- movements alone keep batch rows and totals equal; these drift only
  through a patch or delete of a batch balance that overwrote a row which had
  changed since it was read (`DriftNeedsStaleRead`); every request ends;
- a sale's exits are recorded once and a sale is paid once, whatever overlaps:
  locks that serve another purpose (product rows, the sale's UPDATE) happen to
  cover these lookups;
- conversions of one order or budget leave it the status its lines call for, however they
  overlap, because the counter of order numbers makes them run one at a time from
  their first write on (`StatusFollowsLines`); a return or an estorno that overlaps
  breaks it;
- one at a time, conversions, returns, estornos and cancellations never leave
  more sold than converted, nor a cancelled order with a live sale, and a budget's
  converted quantities are those of the documents it generated;
- integral settlements, which lock what they read, keep all
  balances right however they overlap;
- the status of an invoice is always one the authority confirmed, and a sale is
  released only for good, because every write of a closing status follows an
  answer that only that state of the authority explains;
- an invoice is marked as signed before it is sent, so that a lost answer leaves
  it closed to changes (`LostAnswerKeepsInvoice`): it says what was authorized, but for the
  date of emission of an NFC-e that was sent again;
- the sequence covers every code but that of a product whose patch has not yet
  raised it, of an invoice that a PATCH moved here, and one stored while the sequence was set
  by hand; numbers collide, and voided ones stay open, only through a number given by hand, such a
  move or a sequence set by hand;
- requests that wait in a circle include the patch of a member's code;
- what a payment settles is the plan its slip was made for, even after the plan
  was replaced, unless two issues took one number at the bank or a webhook
  reports a number that another agreement has issued too; an installment has no more
  settlements by the bank than such payments;
- stock and movements of purchases follow the launched notes in every interleaving;
  a deleted entry gives back the costs of before if nothing else changed the
  product;
- a token has one heir unless two rotations of it were under way at once or a
  process died between issue and revocation, and a reuse ends these too.

Does not hold, shown by `os_cancel_stock` (`findings` has the lines): the last
revision of a work order's line is not returned when the order is cancelled, with
no concurrency needed.

The properties say with their conditions what else does not hold; without the
condition TLC finds each of them violated:

- one request at a time: a generated sale that partial returns cancel does not
  give its quantity back to the order, where it can then be neither converted
  again nor released by the estorno; a transfer of a product without batches ends in
  an error of the CHECK constraints, which `RejectMovement` models; an invoice whose
  number was voided can be sent again, since `assertSendable` does not refuse
  `INUTILIZADA` (the authority then does); the PATCH of a draft gives it a number that is in use, voided
  or ahead of the sequence; an NFC-e authorized by a call whose answer was lost is dated and signed anew
  by the next one, and stored so; a webhook settles an installment for the payment of another agreement's slip with
  the same number, or misses the one that was paid; a deletion may leave a cost of the deleted entry, or a negative
  average, when the note lists a product twice;
- requests that overlap: a patch of a batch balance drifts it from its product; a
  cancelled sale comes back finalized; two settlements exceed an installment; one
  credit is spent twice, one settlement reversed twice, more of a line converted
  or returned than there is, the stock of a line returned twice, a line missed
  by the total of its sale; a dispensed note is launched, one note gets two payables;
  a settlement disappears with the plan it was made on; a payment reported by
  webhook and file at once is settled twice; an edit reaches an invoice that was sent;
  two refreshes rotate one token; a code of a member deadlocks with a creation.

## What is proved

TLAPS checks every proof below; each theorem holds for any number of requests,
rows and values, under the named assumption of its module on the constants.
None of the properties is inductive as the runs check it. Each module has an
`IInv` (and, for properties of requests that do not overlap, a second invariant on top of it) with
one step per action; what these add is the argument.

### Stock (`StockLedger_proofs`, from `ConstantsAssumption`)

- `TypeCorrect` (`[]TypeOK`, hence no balance is ever negative) and `LedgerAccounts`
  (`[]LedgerAccountsForBalance`). What a commit adds to the account of a row has to
  start at the committed balance and end at the new one, and this depends on the
  work in progress. `IInv` adds: statements still to run are well formed and log
  only recorded rows (`ProgramInv`); whoever has a draft or recorded sides of a row
  holds its lock (`OwnerInv`); those sides lead from the committed balance to the
  draft, a row without draft having no sides (`DraftInv`). With the lock held by one
  transaction, the committed balance cannot move beneath a draft.
- `TotalsFollowBatches` (`[]BatchRowsMatchTotal`), from `StartAssumption` too. `Balanced` says
  of each transaction that what it has changed in the total of a product, plus what its
  remaining statements owe the total and not the batch rows (`Owed`), is what it has changed in
  the rows. A movement starts with nothing owed; each statement pays
  what it changes; a commit owes nothing. Rows in two drafts at once would be
  counted twice: `Holding` excludes it.
- `DriftIsStale` (`BatchSpec => []DriftNeedsStaleRead`): the same invariant through the
  direct create, patch and delete of batch balances, which keep it whenever the row is still
  what was read.

- `RequestsAreAtomic` (`Spec => AppliedWholeAndInOrder`): every step of `StockLedger` is one
  of `StockAccount` or a stutter. The account applies the whole request at the commit, on the
  balances of that instant; the ledger wrote its drafts statement by statement, on
  the balances it met. `ProgressInv` relates them: a request under way has run the first
  `k` of its statements, the rest of its movement are the next ones (`Done`), and those `k`,
  applied to the balances committed *now*, give its drafts and sides and refuse
  nothing (`Ran`). Another's commit cannot disturb this, because it
  leaves alone each row that has a draft (`RanOnOthers`). The two recursive functions are
  unfolded by hand (`AppliedUnfolds`, `FirstUnfolds`).

### Sales (`SaleStock_proofs`, from `SaleAssumption`)

- `ExitsOnce` (`[]ExitsRecordedOnce`) and `PaidOnce` (`[]FinalizedIsPaidOnce`), in every
  interleaving. No constraint of the database keeps the reference of a movement unique: what
  does is the order of lock, look-up and INSERT. `IInv` adds that whoever has an exit not
  yet committed holds its product and sees no other of its kind (`RecordedBy`), so that
  two requests cannot commit the same one; that the lines to give an exit to are listed
  once and were added by requests that have committed (`ListedBy`, `Born`); which
  statements are part of which requests (`PartOf`, `AskedBy`); and that whoever finalizes
  holds the row of the sale, which nobody has paid (`PaidBy`).
- `TypeCorrect` (`[]TypeOK`): totals are sums of lines, hence never negative.
- `SaleIsKept` (`[]SerialRequestsKeepSale`). A request changes lines, movements and total one
  statement at a time, so `SerialInv` says of the request under way how far each line is:
  its exits and returns sum to what the line asks (`Out`), they were returned up to its last
  revision (`Back`), all were (`Emptied`), or the line is gone (`Gone`). `Sees` ties these to the program counter,
  `Chained` says that the return of a revision comes before the next revision, and
  `Writes` what the request has put into line and total.

### Work orders and returns (`SalesDocuments_proofs`, from `OrderAssumption`)

The assumption says that names differ, that quantities are positive, and that the first
document has some quantity of some line, and never more than the order: a conversion asks
for at least one line, and `FitsRemaining` refuses more than there is.

- `OrderTypes` (`[]OrderTypeOK`), however requests overlap: the columns that say how much of a
  line was converted or returned never pass its quantity, although what is sold or returned may
  (see above). `OrderTyped` adds that no two requests have written the same row; that a
  quantity, once committed, never changes, so that a bound on what was read is a bound on what is
  written (`ConversionKnows`, `ReturnKnows`); and what each request may have written by its step.
- `StatusFollows` (`[]StatusFollowsLines`). `StatusInv` says that a conversion past its number holds
  the row of the counter (`StatusKnown`), so no other conversion has written anything of the
  order; that what a request is about to write there is what the lines it sees call for; and
  that it has written nothing of the order before that. A request other than a conversion that
  commits next to another one makes `overlapped` "mixed", and nothing is claimed then.
- `SerialRequests` (`[]SerialRequestsAgree`), one request at a time. Within a request the sums
  are wrong until its last write, so `OrderSerialInv` speaks of the table as the request would
  commit it (`View`). `SerialKnown` says how far that view is from the committed table, row by
  row: which rows may differ at all (`OnlyDiffers`); which lines of an inserted document and
  of the order are done (`Inserted`); which returns are recorded and added to their lines
  (`RowsWritten`, `RowsAhead`, `LinesReturned`); what has been given back to the order (`GivesBack`)
  or taken from it by an estorno (`Undoing`). For each kind of request a lemma then shows that its view at
  the commit agrees (`CommitAgrees`), with the lemmas on sums. Two facts had to be
  added to the property before it was inductive: an order that is open has nothing converted, and a generated
  document has at least one line. Together they are why `patch`, which cancels an open order
  without looking for its sales, never leaves one behind.

### Receivables (`Financial_proofs`, from `ReceivablesAssumption`)

- `TitleTypes` (`[]TitleTypeOK`), whatever overlaps: a balance is planned from one that was read, and
  both what was read and what is planned stay between nothing and the original
  amount (`Bounded`, `ReadSoFar`), since a reversal beyond it is refused.
- `LockedRequests` (`[]LockedRequestsAgree`), while the only requests that overlap are
  settleIntegral's. `AgreedInv` says of every request under way that what it has read is what is
  committed (`BeforePlan`), that what it plans and has written is that less its settlements, one
  for each installment (`PlanLeft`, `Written`), and that the statuses and the sum it
  has computed are those of what it sees (`Refreshing`). A commit keeps this for the others because they hold
  each row they have read (`HoldsRows`), down to the title.

### Bank slips (`Financial_proofs`, from `SlipsAssumption`)

- `PaymentsReach` (`[]PaymentsReachTheirPlan`) and `RejectedWasSentTwice`
  (`[]RejectedIsNotRegistered`). A report that is no webhook, or of a number that no other
  agreement has issued, finds the slip that was paid or an orphan's. `IInv` says that slips have plans and different
  numbers (`Slips`); that what the bank has registered is a slip of that number and installment,
  one that a transaction is about to commit, or an orphan (`Registered`), and that
  what it reports is so (`Reported`); that a line of a remittance is a slip, and no two
  are the same (`Files`); and that two requests never insert the same plan, slip or
  number (`Apart`). The least obvious part is why a slip is never overwritten by one with
  another number: a request inserts one either for a plan that did not exist, or on an
  abated title, whose slip is never cancelled (the last but one conjunct of
  `Slips`), because `cancelLiveSchedule` is not reached for it (`MayCancel`).
- `TypeCorrect` (`[]TypeOK`), from `Books`: nothing is open below zero or above what a plan is worth.
- `SalesBilled` (`[]SalesBilledOnce`) and `PaymentsSettled` (`[]PaymentsSettledOnce`).
  While no two requests overlap, `Serial` says that what the request under way has read
  is still so (`BillKnows`, `PayKnows`), that each title that sales point to has one live plan
  over what they are worth (`BilledOnce`), and that an installment has no more settlements
  from the bank than payments with its number which a settlement answers (`Answered`): its
  own, and of others only those of orphans and of numbers in `Foreign`.

### Purchases (`Purchases_proofs`, from `PurchasesAssumption`)

- `TypeCorrect` (`[]TypeOK`) and `StockFollowsEntries` (`[]EntriesMatchStock`), in every
  interleaving. `HeadersHeld` and `ProductsHeld` say that no two requests hold the same
  header or product; so a launch or a deletion under way finds the note as it was
  when it locked it, and each balance it has written is the committed one plus, or
  less, what the items handled so far bring (`EntryAt`, with sums `Brought`).
- `PayablesFollow` (`[]PayablesFollowEntries`), for notes of which no request that does not
  lock the header overlapped another (`Alone`): a request about to insert a payable
  found none and a deletion about to void found those there are (`PayableAt`).
- `DeletionGivesBack` (`Spec => DeletionGivesBackCost`, an action property). While nothing
  else touched a product, it is what `Entered` made of the row of before (`CostsOf`); a deletion
  applies `Reverted` to that (`CostAt`); and the two formulas undo each other exactly
  (`RevertUndoes`, `AverageGivenBack`), an identity of fractions that needs the balance of before to be positive.

### Invoices (`SalesDocuments_proofs`, from `NfeAssumption`)

- `TypeCorrect`, `StatusIsConfirmed` (`[]AuthorityConfirmsStatus`),
  `SaleIsFreeForGood` (`[]FreeSaleHasNoInvoice`), `LostAnswerIsHarmless`
  (`[]LostAnswerKeepsInvoice`) and `NeverReopened` (`ClosedStaysClosed`, an action
  property).

What the database may say depends on what requests have been told but not yet
written, and on messages that are still to arrive. `IInv` adds that a request has
at most one message or one answer (`OneMessage`), that an answer which a
request will act on still agrees with what the authority holds (`Holds`), and
that a range about to close invoices was homologated (`ClosersKnow`). It is
inductive because the authority never leaves the states it has confirmed but from
authorized to cancelled, so an answer that arrives late is still true. For the two
properties about requests that come one by one, `SerialInv` adds what a request that
is alone knows of the row at each of its steps (`SeesNote`), and that, while no caller
has given up, whoever has a message under way waits for it. What it signs is what was authorized
before, but for a later date if it is an NFC-e.

### Sequences and codes (`EntityCodes_proofs`, from `CodesAssumption`)

- `TypeCorrect` and `SequenceCoversCodes` (`[]CounterCoversCodes`). `IInv` adds that
  whoever holds the sequence is under way and has raised it (`HolderRaises`), that each
  statement belongs to a kind of request (`KindsAgree`), whose transaction has written its code or
  not (`WritesAgree`) and to its own row (`RowsOwned`); that requests under way at the same time
  have met (`AllMeet`); that what an update by hand is about to set covers the codes (`SetCovers`),
  that a code about to be stored is not above what its transaction sees of the sequence
  (`Reached`), and that the sequence covers what is stored (`CodesCovered`), each but for a code that
  a patch stored ahead or a row whose request met an update by hand (`Excused`).
- `NumbersCollide` (`[]NumbersCollideOnlyByHand`). `NInv` adds to `IInv` that where
  there is a unique index, what is committed and what is about to be differ
  (`CodesDiffer`, `PendingApart`); that what was drawn is ahead of the committed sequence until it
  is committed (`DrawnAhead`), so that no other draw can take it; and that whoever has the number
  which an invoice was given by hand was not there when it was found free, or was moved there
  (`HandsMeet`).
- `VoidedAreClosed` (`[]VoidedNotesAreClosed`) and `AutomaticAreFound`
  (`[]AutomaticNumbersAreFound`). `VInv` adds to `NInv` that a range about to be
  recorded has raised the sequence (`VoidReached`) and has found every invoice in it
  but those brought meanwhile (`FoundAll`); that a drawn number is in no range
  (`DrawnClear`) and an informed one only in ranges recorded meanwhile (`HandsClear`);
  and that a creation which failed met a patch ahead of the sequence (`FailedByPatch`).
- `CircleNeedsMemberPatch` (`Spec => []DeadlockNeedsMemberPatch`), for circles of any length, from
  `IInv`: a transaction that waits for the sequence has written no code, unless it is the patch
  of a member (`WritesAgree`). So who waits for the holder of the sequence waits for one that, if it waits too, waits for a
  code; and who has written that code waits for nothing. A creation that stored its code before it raised
  the floor would break it.

### Sessions (`Sessions_proofs`, from `SessionsAssumption`)

- `TypeCorrect`, `OneHeir` (`[]OneHeirUnlessRace`) and `RevokedIsForgotten`
  (`[]StaleEntryNeedsRace`). For the first, `IInv` adds that the session of a request
  is stored once, by that request (`InsertedAt`), that a request which issued a session
  and went past its revocation has revoked the one it presented (`SpentAt`), that
  requests under way at the same time have met (`AllMeet`), and the property itself for
  requests which have only found the session so far (`PassedApart`). For the second it
  adds that what a request has listed and revoked is revoked in the table, or held by
  its transaction, from before it forgets (`RevokedAt`), so that a loader which stores
  an active value later is one of the race (`Forgotten`). `Known` and `GuardsAsk` say
  that only delivered sessions are presented.
- `ReuseEnds` (`[]ReuseEndsOlderSessions`). `ReuseInv` adds that the sessions of requests
  that had ended when the reuse was found stay revoked, and that whoever passes with
  a session afterwards passes with one whose line goes back to a request under way then,
  or to a login (`Fresh`). `Onward` collects what no step undoes.

### Lemmas and limits

Sums over finite sets (`SumTheorems`: one more element, a changed value, disjoint
unions, bounds, equal terms) are proved by hand from `FiniteSetTheorems`, since the library's induction
theorems take an operator as a parameter, which no installed prover instantiates.

Every safety invariant and action property of a passing run is the statement of a theorem.
Only model-checked are `EveryRequestEnds` and `RevocationReachesCaches`, since liveness
under fairness and ENABLED are out of the prover's reach. `CancelReturnsStock` of
`SaleStock` is violated, as `os_cancel_stock` shows.

## Not modelled

`PROJECT.json` lists every component with what is left out of it. The largest
parts: the exits of stock of a budget's conversion; prices, discounts and taxes over decimals; the receivable and the
credit that a sale or a return creates; the creation
of members, users and products with their addresses and codes of access; the
cache of permissions; catalogues, reports, XML and print; the outbox of the
marketplace, whose reader is another program; the migration runner.

## Plan

Next, the most important first:

1. Chains of conversions (budget to order to sale) on `WorkOrder` with the exits of
   stock, and changes of the order's items between conversions.
2. Returns composed with `Receivables` (credits) and with `SaleStock` (entries of
   stock); an abstract pool of quantity that serial requests of `WorkOrder` implement.
3. The migration runner and its advisory lock.
