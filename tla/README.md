# Verification of Cholo

Cholo is a bookshop: a NestJS backend over PostgreSQL (`src/backend`) with a
Next.js frontend (`src/frontend`). This directory holds TLA+ models of the parts
of the backend whose correctness depends on more than one request at a time, TLC
configurations that check them on small instances, and proofs that hold for any
number of orders, products and requests.

The models follow the TypeScript services, the SQL they run and the constraints
of `backend/prisma`. `PROJECT.json` maps every definition to the lines it models.

## 1. The system

The backend is one process per replica. Requests, cron jobs and event listeners
interleave at every `await`; what protects the data is PostgreSQL. Four
mechanisms matter everywhere:

- `prisma.tx` runs READ COMMITTED unless asked for SERIALIZABLE (placement and
  refunds), the latter retried up to three times (`common/utils/retry.ts`). A read
  without `FOR UPDATE` is stale at once.
- `UPDATE ... WHERE version = $n` (orders) and `UPDATE ... WHERE status IN (...)`
  (payments, outbox): optimistic locking by condition.
- CHECK and UNIQUE constraints as the last line of defence.
- Domain events (`common/events/domain-events.ts`) are emitted in memory after
  the commit; a process that stops loses them, a listener that fails only logs.

### Components

| Component | State it keeps | Operations | Talks to | What is hard | Correct when |
|---|---|---|---|---|---|
| Order lifecycle (`orders/domain/order-status.ts`, `order-transition.service.ts`) | order row: status, payment, stock flags, version | transition, regress, reopen, bulk, shopper's cancel | inventory, coupons, customers, events | two requests planning from one row; reopening what was voided | moves follow the lifecycle; a plan is only written if it would be made again |
| Placement (`order-placement.service.ts`, `idempotency.service.ts`) | the new order, the idempotency key, the order counter | place, replay | pricing, inventory, coupons, customers, outbox | retries of the client and of the transaction; lock order | one order per key; all of it or nothing |
| Inventory (`inventory.service.ts`) | on-hand, reserved, movements, FIFO lots | reserve, release, fulfil, restock, count, add batch | products, purchasing | the last copies; a clamp that would hide an error | counters equal what orders hold and what the movements sum to; nothing is promised twice |
| Coupons (`promotions`) | usage counter, redemptions | redeem, revoke, restore, edit | placement, transitions | a use freed by a cancel and taken again | counter equals live redemptions; limit respected |
| Order payments (`order-payment.service.ts`, `payment.listener.ts`) | payment status of the order | mark paid, capture, failure, sweeper | payments, transitions | capture against cancel | a capture is on record; paid orders are not cancelled for being unpaid |
| SSLCOMMERZ attempts (`payments/sslcommerz`) | a row per attempt, a row per gateway event | init, callback, IPN, reconcile | gateway, cash ledger, orders | three sides settling one attempt; lost or repeated calls; abandoned attempts | one success and one event per capture; nothing stays open |
| Reconciler lock | a session-level advisory lock | cron run | PostgreSQL | pooled connections | one replica at a time; the job keeps running |
| Refunds (`payments/refunds`) | refund rows, the order's refunded sum | create, refresh | gateway, ledger | two staff at once; the answer of the gateway lost | never more than was paid; sum, status, ledger agree |
| Order books (`finance/documents`, `order-books-lock.ts`) | invoices, receipts, credit notes; COD and courier entries | issue after events, resync, remittance, courier payment, reversal | orders, cashbook | late, repeated, reordered events | papers follow the order, none twice |
| Customer figures (`customers/.../customer-aggregates.service.ts`) | cached counts and sums on the customer | increments by the desk, recompute by a listener | orders | two writers that count differently | figures are those of the orders |
| Notification outbox (`platform/outbox`, `notifications`) | a row per message | enqueue, claim, send, record, cancel, retry | providers | leases, crashes, stale workers | eventually sent, sent once recorded |
| Stock lots (`inventory.service.ts`) | a lot per receipt, what each order took of it, cost price | receive, count, ship, take back | inventory, purchasing | copies coming back and leaving again; shelves older than their lots | no lot gets back more than left it; the stamped cost is that of the copies |
| Cashbook, purchasing, suppliers | accounts, the append-only book, bills and what is paid of them | entries, transfers, reversals, bills, payments | order books, refunds, lots | two clerks on one entry or bill | bills agree with the book; a correction leaves nothing over |
| Cart (`cart`) | a guest's and a customer's cart lines | add, set, clear, merge at login, check out | pricing, placement | two tabs, one of them still a guest's; a merge against an edit or an order | nothing is in a cart that was not asked for, or was ordered |
| Pricing, shipping fees (`orders/pricing`) | none: pure calculations | quote | catalog, coupons | rounding, shares of a sum | the parts add up to the total, paisa by paisa |
| Shipments (`shipments.service.ts`, `codRemittance`) | a row per consignment, `orders.courier_cost` | assign a courier, report status, charges and COD, settle the courier's cash | orders, books, cashbook | sums that miss a row not yet committed; a replaced courier | one shipment is active; the order's cost is the sum of its shipments |
| Sessions (`auth`) | a row per sign-in, a cookie per browser | login, refresh, logout, change of password | outbox | tabs refreshing with one cookie; lost answers | a quiet browser holds a token that works |
| Staff accounts (`staff.service.ts`) | role and status | change role, disable, block | sessions | two requests that rely on each other | an owner remains |
| Support chat (`support`) | threads, messages, unread counters | write, reply, read, assign, close | notifications | decisions on a stale thread; counters reset late | the badge is never too high |
| Reviews (`reviews`) | reviews, the product's cached rating | write, approve, reject | orders, catalog | two moderators of one product | the rating is that of the approved reviews |
| Catalog: what stands where (`catalog/taxonomy`, `product-admin.service.ts`) | sections, categories, a product's place | create, hide, delete; place, move, remove, restore | - | a place that goes while something is put into it | a section is visible; nothing stands in a place that is gone |
| Catalog: prices (`product-admin`, `product-bulk`, `product-stock`) | price, struck price, version, price history | edit from a page, bulk actions, restock | lots | pages opened before the last change | an edit replaces what its author saw |
| Catalog: deals, bundles, contributors, media; content, settings | rows of their own | edits | - | - | - |
| Reports, activity, health, platform utilities, frontend, operations | none of their own | reads, presentation, deployment | - | - | - |

`PROJECT.json` lists all of them with their status, and under `hazards` each
place where this code can go wrong in a way a test would hardly reach.

## 2. The modules

| Module | Models | Builds on |
|---|---|---|
| `OrderStatus` | the pure planner: which moves are allowed and what each does to stock, payment and flags | - |
| `Sums` | a sum over a finite set, as SQL's `SUM` and JavaScript's `reduce` make one | - |
| `OrderUnits` | copies of a product that a set of orders asks for | - |
| `StockPromise` | abstract: an order's copies are free, held or away, and no copy is promised twice | `OrderUnits` |
| `OrderDesk` | orders, stock and coupons under concurrent transactions | `OrderStatus`, `OrderUnits`, `StockPromise` |
| `OrderEvents` | the desk as its listeners see it: a desk step, which orders it moved or paid, a restart | `OrderDesk` |
| `CustomerFigures` | the CRM figures, with the desk's increments and the listener's recompute | `OrderEvents`, `Sums` |
| `OrderBooks` | papers and order cash under the books' advisory lock | `OrderEvents` |
| `OnlineCheckout` | payment attempts, gateway, callbacks, IPN, reconciler, composed with the desk | `OrderEvents` |
| `Refunds` | refunds of one order | `Sums` |
| `ReconcilerLock` | the advisory lock of the cron job over a connection pool | - |
| `Outbox` | the notification outbox | - |
| `PlacementRequests` | POST /orders under idempotency keys: key row, order counter, retried transactions | - |
| `Cart` | the carts of one shopper with several tabs | `Sums` |
| `Quote` | the price calculation, as operators | `Sums` |
| `StockLots` | the FIFO lots of one product and the cost stamped on orders | `Sums` |
| `Cashbook` | accounts, the cash book, supplier bills | `Sums` |
| `Sessions` | the refresh tokens of one account | - |
| `StaffAccounts` | staff changing each other's roles and status | - |
| `SupportChat` | one customer's threads | - |
| `Reviews` | reviews of one product and its rating | `Sums` |
| `Shelves` | sections, categories and the products in them | - |
| `PriceBook` | a product's price under edits, bulk actions and restocks, and its history | - |
| `Shipments` | the consignments of one order, the courier's bill and cash | `Sums` |
| `Sums_proofs` | lemmas about sums | `Sums` |
| `OrderDesk_proofs`, `CustomerFigures_proofs`, `OrderBooks_proofs`, `OnlineCheckout_proofs` | theorems, see section 5 | the module they name |
| `ShopFront_proofs` | theorems | `PlacementRequests`, `Outbox`, `Cart`, `Quote` |
| `BackOffice_proofs` | theorems | `Refunds`, `Cashbook`, `StockLots`, `ReconcilerLock` |
| `Accounts_proofs` | theorems | `Sessions`, `StaffAccounts`, `SupportChat`, `Reviews`, `Shipments`, `Shelves`, `PriceBook` |
| `MC*` | the instances TLC checks | the module they name |
| `MCShopFront`, `MCBackOffice`, `MCAccounts` | the instances of the components that stand alone, several to a run | those components |

A transaction is modelled by the steps at which others can see or change what it
depends on. READ COMMITTED transactions that read without locking are a *read*
step, which stores the snapshot or the plan in the session, and a *write* step
with everything that commits together, side effects and bookkeeping included. A
SERIALIZABLE transaction, or one under `FOR UPDATE`, is one step. A network call
is a step of its own between two others. Failures are rollback steps.

### OrderDesk

`orders[o]` is the order row (status, method, payment, the two stock flags,
version). `onHand`, `reserved` and `ledger` are the product counters and the sums
of `stock_movements`; `listed` is `deleted_at IS NULL`. `redemption` and
`usedCount` are the coupon tables. `work[s]` is what session `s` has read.
`ReadTransition`/`ReadReopen` plan with the operators of `OrderStatus`, and
`WritePlanned` is the versioned UPDATE with stock, coupon and flags; a version
that moved or a stock statement that matches no row is `RollBackPlanned`.
`WriteCapture` is the gateway's capture, whose UPDATE has no version condition.
`SetOnHand`, `AddBatch`, `DeleteProduct`, `RestoreProduct` are the stock room.

### Composition with the desk

`OrderEvents` extends the desk. `CustomerFigures`, `OrderBooks` and
`OnlineCheckout` conjoin each desk step with what it means for them: an event in
memory, increments in the same transaction, a read of the payment rows. Events
are counters or sets rather than queues because `async: true` listeners run in
any order. `Restart` empties whatever lives in memory.

### OnlineCheckout

`pay[t]` is the payments row of attempt `t`, `gateway[t]` what really happened at
SSLCOMMERZ, `notices` the redirects and IPNs it caused, delivered any number of
times until `processed`. A checkout request runs `Begin` (read, count),
`Supersede`, `Create`, `OpenSession`. A settlement is `Deliver` or `Reconcile`
(ask the gateway, keep its answer) and `Settle` (the conditional UPDATE, the event
in memory, the event row done), or `FailToSettle`. The desk handles the events
with its own capture and auto-cancel steps.

### Components that stand alone

Where two components share no state the check of one needs nothing of the other.
Their modules are instantiated together in `MCShopFront`, `MCBackOffice` and
`MCAccounts`: a variable `part`, chosen at the start, says which of them runs, and
the rest stays in its initial state.

Each of `Refunds`, `ReconcilerLock` and `Outbox` is the whole of its component. In
`Refunds` a request is `ReadOrder` (outside the transaction), then a serializable
create, then the gateway call, then a settlement in two steps. In `ReconcilerLock`
a run takes the lock on one connection and gives it back on any. In `Outbox` a row
is `due` when its lease or backoff is over, which may be at any time.

`PlacementRequests`: a request goes `Lookup` (the key row), `Begin` (snapshot),
`ClaimKey` (waits for an open insert of the same key), `TakeNumber` (waits for the
counter row), `Commit`. Serialization failures are `Conflict`, tried again up to
`Attempts` times. An answer may be lost (`Deliver`), a key may expire, rows a
placement writes may be changed elsewhere. It is assumed that PostgreSQL's 40001 on
a raw statement reaches `withRetry` as P2034. What the commit does to stock, coupon
and customer is `OrderDesk!Place`. Staff orders carry no key and are not
deduplicated. A page whose answer was lost and whose cart token has changed since
is refused (422) when it repeats its key; it never gets a second order.

`Cart`: local storage, and with it `token`, is the browser's; an access token is a
tab's (`signedIn`), so one tab may still order as a guest while another has signed in
and merges. What a request was sent with and has read is in `call[t]`. Adding is three
steps (`StartAdd`, `CreateCart`, `WriteAdd`) that nothing locks; setting a quantity and
clearing are a read and a write by id; a merge is a read and a write in one READ
COMMITTED transaction. Whose cart an order clears is settled when it is sent
(`StartOrder`); `PlaceOrder` is `clearForOrder` inside the serializable transaction of
the order. The lines an order is for come from the page and need not be in the cart any
more, so the model counts what orders *clear*, not what they sell. `asked`, `cleared`
and `behind` are history.

`Quote` has no steps: `quoted` holds one quote that was asked for, and
`QuoteAddsUp` compares what the operators compute with a definition of a fair
split. It covers lines, deals, coupons by scope, bundles, tax and delivery. One
thing it shows without being wrong: free delivery looks at the net amount, so a
coupon may take a basket below the threshold it had passed.

`StockLots`: `lot` and `fifo` are `stock_lots` in the order of `received_at`,
`taken` the consumptions, `itemCost` the cost on the order's lines. Every operation
holds the product row, so each is a step. The stamp at shipping changes the lines
only: `orders.items_cost`, which the profit report reads, keeps the cost of the day
the order was placed.

`Cashbook`: `book` is append-only; a reversal, an account's edit, a purchase and a
supplier's removal read first and write later.

`Sessions`: `session[n]` is a row, `cookie[b]` and `access[t]` what browsers and
tabs hold, `call[c]` a refresh under way, cut after each statement. `mishaps`
records what ended a session from elsewhere or lost an answer.

`StaffAccounts`, `SupportChat`, `Reviews`: a request is a step that reads and
decides and a step that writes. In `Reviews` the write and the commit are apart, as
two moderators see each other's rows only once committed.

`Shelves`: `section`, `category` and `place` are the rows, `task[m]` the transaction
of a manager that has read and not yet written. Hiding and deleting a section hold
every section `FOR UPDATE` from the read to the write, so they exclude each other and
wait with everything that refers to a section (`SectionsFree`); categories are not
locked. A write of a product ends the edits that have read it, as their version no
longer matches (`MovesVersion`).

`PriceBook`: `article` is the product row, `told` the newest row of its price
history, `page[m]` what a manager's page was opened with and `edit[m]` the
transaction between its read and its write. `Save` is the UPDATE with the version in
its WHERE, `WriteBulk` a bulk action, which asks for no version but moves it,
`RestockLot` a batch with a new price, which does neither; `restocked` remembers it.

`Shipments`: a request reads (`ReadAssign`, `ReadUpdate`), then writes its shipments
and sums the bill over committed rows and its own (`Write`), then writes the order
and commits (`CommitDispatch`). The rows are held back in `dispatch[d]` until then.
The partial unique index on the active shipment makes a second writer wait, and fail
if two would be active. `Remit` settles COD to an account other than cash. `met`
remembers that two requests have had uncommitted writes at once.

## 3. The runs

| Run | Instance | Shows |
|---|---|---|
| `order_desk` | 2 orders, 1 product with 2 copies, 1 coupon with 1 use, 2 sessions, 3 versions per order | every invariant of the desk, the lifecycle, and that the desk implements `StockPromise` |
| `capture_lost` | same | finding |
| `customer_figures` | 2 orders of one customer, 2 recomputes, 1 restart | figures converge and settle |
| `order_books` | 1 cash order, 2 clerks, 2 papers by hand, 1 restart | papers follow the order, none twice |
| `online_checkout` | 1 order, 1 attempt, 2 settlements, desk with 1 version | one success and one event for a real capture, for good |
| `checkout_attempts` | 2 overlapping checkout requests, 2 attempts | at most one attempt open |
| `checkout_settles` | 1 attempt, 1 restart, fairness | no attempt stays open |
| `shop_front` | placement: 2 submissions, 2 keys, 2 bodies, 3 attempts, 1 expiry, 2 changes elsewhere; cart: 2 tabs, each guest or signed in, 3 carts, 3 copies asked for, 2 to a line; outbox: 1 message, 2 workers, 2 attempts, 2 crashes, 2 staff and 2 retries; quote: some 3000 baskets, coupons and delivery rules; fairness | one order per key, no gap in the numbers, every request answered; no copy made up; sent for good but for two overlapping retries, no message stranded; totals add up |
| `back_office` | refunds: 2 staff requests, 3 refunds, 2 units paid; cash: 2 accounts, 1 bill, 2 clerks, 4 entries; lots: 3 lots, 2 orders of 1 and 2 copies, 1 old copy; lock: 2 replicas, 2 connections and 3 runs each, held up to 4 deep | refunds, bills and corrections agree with the book; copies and their cost are traced; one replica reconciles |
| `accounts` | 2 browsers, 3 tabs, 3 sessions, 2 calls; 3 staff; 2 threads, 2 tabs, 1 agent, 3 messages; 2 buyers, 2 lines, 2 requests, 2 reviews; 2 sections, 3 categories, 1 product, 2 managers; prices up to 2, 3 versions; 2 shipments, 2 couriers, 2 requests at once and 3 in all | tokens die for a cause only; an owner remains; badges and ratings; sections are kept; edits replace what was seen; one active shipment, and the bill adds up |
| `refund_counted_twice` | the refunds of `back_office` | finding |
| `reconciler_lock_leak` | the lock of `back_office` | finding |

Why these bounds are enough to be interesting: two orders that ask for three
copies of which two exist make every stock race (reserve against reserve, against
count, against release) happen, and one coupon use makes every coupon race
happen. Three versions of an order are enough for place, cancel, reopen and a
write against any of them; every race in the findings takes fewer. Two sessions
are the smallest number that interleaves, and the proofs cover the rest. Two
settlements and one reconciler pass make every pair of sides meet on one attempt;
a third attempt repeats what the second did to the first. In the outbox one row
shows all races between workers on a row. Rows share a batch and nothing else:
a crash that splits a batch leaves the rest of it leased, which is the state a
crash after one row's claim leaves that row in. Two submissions are enough for a
duplicate that waits, one that replays and one that collides; a third waits for the
second as the second did for the first (and the theorems of section 5 have any
number). Three lots of which one is new, one found and one returned make every path
of `Spread` happen. Three sessions are a sign-in, a rotation and a second browser;
the part was also checked with four. The baskets mix titles, a bundle that repeats
them, taxed and untaxed goods with prices at which thirds, halves and ties occur.
Two sections and a root with one child are what hiding the last one, and removing a
category under what is put into it, need. Two shipments are one replaced by another,
and three requests one more than run at a time.

Three copies asked for and two to a line let a line be capped, fall and rise again while
both tabs have it in hand; three carts are a guest's, the customer's, and a second one
of either. Two tabs of which one merges and one orders are what `behind` is about.
Two members of staff make two retries of one message overlap; section 6 says what
follows, and `SentForGood` says that nothing else can bring a sent message back.

Runs whose instance really stops (versions used up, events handled, requests
answered) say `CHECK_DEADLOCK FALSE`; `order_desk` never stops and is checked for
deadlock.

Type invariants that are not among the properties of a run can be added to its
configuration: `FiguresTypeOK`, `BooksTypeOK`, `CheckoutTypeOK`, and `TypesOK` of
`MCShopFront`, `MCBackOffice` and `MCAccounts`.

## 4. Fairness

- `CustomerFigures`, `OrderBooks`: weak fairness of handling an event and of
  finishing a recompute or an issue. The event loop runs pending listeners, and a
  transaction ends (`transaction_timeout`).
- `OnlineCheckout` (`checkout_settles` only): weak fairness of a checkout request
  going on, of a settlement ending, and of time; strong fairness of the reconciler
  getting a definite answer about an attempt and of its write succeeding. The cron
  job comes back every ten minutes for as long as the attempt is open; the
  gateway's API is not down for ever. It rests on the job's lock letting a run start,
  which `reconciler_lock_leak` shows to fail: liveness here is what the job achieves
  while it does run.
- `Outbox`: weak fairness of a lease or backoff ending, of claiming (the 15 s cron
  job), of sending and recording (a send has a 10 s timeout), and of a staff request
  going on. Crashes, cancels and enqueueing are not fair.
- `PlacementRequests`: weak fairness of a request going on (`Proceed`), which is the
  event loop and PostgreSQL granting a lock that is free. Being refused, commits
  elsewhere and expiry are not fair: no timeout is counted on to end a wait.

Safety runs of the other components assume no fairness.

## 5. What is proved

Every invariant and every action property that a passing run checks is a theorem, for
any values of the constants that satisfy the named assumptions: any finite number of
orders, products, requests, rows. What is left to TLC is liveness. Each proof follows
the same plan: an inductive invariant, that the initial states have it, that every
action keeps it (a lemma for each action), and that it implies the property.

### Sums

Many properties say that a column is the sum of some rows. `SumOf` is the fold of the
community modules over a set. `Sums_proofs` shows that such a sum exists for every
finite set, is unique and does not depend on the order in which members are taken
(`TallyExists`, `TallyUnique`), and from that what the other proofs use: adding,
removing or changing one member, splitting a set, comparing two sums term by term,
the sums of a sequence's prefixes (`SumPrefix`), scaling. Induction over the size of a set is done by taking
a smallest counterexample (`SmallestSubset`, `SmallestNumber`, which use that the
proper-subset relation of a finite set and `<` on the naturals are well founded),
because the library's induction theorems take an operator as a parameter.

### The desk

`OrderDesk_proofs` begins with `OrderUnits`: the copies of a set of orders are a
natural number, and adding or removing one order changes them by that order's copies.
Then `TypeCorrect` and the control invariant. `PlansFresh` is inductive together with
`SoundRows` (the flags agree with the stage, and money with the method): a plan with
the row's version is one the planner would make from the row as it is, so writing it
leaves a sound row; any other write changes the version and makes the plan stale.
Neither half is inductive alone: without `PlansFresh` a write could put any status over
any flags, without sound rows a plan could be allowed for an impossible row.
`PlansFreshCorrect`, `StageAgreesCorrect` and `PaidInTimeCorrect` follow.

With the control invariant, every write moves exactly the copies its change of flags
says (`EffectMoves`), so holds, shelf and ledger stay accounted for; the clamp never
acts. `HoldsAccountedCorrect`, `ShelfAccountedCorrect`, `LedgerAgreesCorrect`, and the
three together, which is what the run checks: `StockAccountedCorrect`.

`DeskImplementsPromise` is the refinement of `StockPromise` (stage from the flags,
owned from the ledger's intake), step by step; `PromiseKeptByDesk` follows. Further:
`WhereClauseSufficesCorrect`; `FollowsLifecycleCorrect`; `CouponCountedCorrect`,
through the invariant that a redemption is live exactly while its order is.

### What listens to the desk

`FiguresConvergeCorrect` (`CustomerFigures_proofs`). A desk step writes one row, and an
event is owed whenever the aggregate of that row's customer changes. So what a recompute
has read under the lock of the customer is what it would read again, until an event
waits; and while none waits, none is lost and no recompute is under way, the figures
are those of the orders (`FiguresFollow`).

`NoDuplicatesCorrect` and `PapersFollowOrderCorrect` (`OrderBooks_proofs`). One
transaction holds the lock of an order's books (`Clerical`), so what it has read as
missing is still missing when it writes (`JobSound`): writing it leaves sound papers.
For the second, `Following`: an order with no event waiting and none lost has the papers
`planBooks` wants, or a transaction that has read just the difference is about to write
it. It needs the desk's control invariant, because an event is only owed for moves of
orders that were placed, and that is what a clerk finds.

`SingleOpenAttemptCorrect`, `CaptureRealCorrect` and `OneSuccessOneEventCorrect`
(`OnlineCheckout_proofs`). Attempts of an order are numbered without gaps (`NoGap`), and
what a request has counted stays (`Counted`). So the number it is about to insert is
free only if nobody has inserted since it counted, and then the attempts it has
superseded were all the open ones (`Replaced`); if the number is taken the unique key
refuses it. For captures, `Known`: an answer kept by a settlement as SUCCESS, or a row
that says so, is of an attempt that the gateway has captured in the right amount, which
the gateway does not take back. The conditional UPDATE makes the event unique.

### The shop front

`NumbersGaplessCorrect`, `OneOrderPerKeyCorrect` and `AnswersOwnOrderCorrect`
(`PlacementRequests`). The invariant is that of two locks: whoever has updated the
counter row is alone and numbers with the committed number; whoever has inserted a key
is alone under it and found no row there. None of the three properties is inductive
without them: a commit would be free to reuse a number or a key. `KeysCounted` ties the
orders of a key to its expiries.

`SentForGoodCorrect` (`Outbox`), for any number of workers and staff. A worker reports
success only of what it delivered, and an outcome is only written over SENDING. A message
is in `twice` from the moment a retry of it is allowed while another is open; of any other
message at most one retry is open, and it finds its row as it was when it was allowed. So
stale workers, ended leases, crashes and retries that do not overlap cannot take a SENT
message back.

`NothingMadeUpCorrect` (`Cart`). A sum over the carts is not enough for an invariant: a
tab writes a quantity that it read before the cart changed, so a line may fall and rise
again. The invariant gives every product a *peak* per cart: a number that the cart
holds at most, and that also bounds what a tab has read of a line that is still there. The
peaks, what is still to be added and what orders cleared come to no more than was asked
for and what is in `behind`. An add raises the peak by what it adds, a merge moves the
guest's peak to the customer's cart, and an order takes what it clears off the peaks,
except where a merge still has those copies in hand: there `behind` grows instead.

`QuoteAddsUpCorrect` (`Quote`), for every quote with well-typed inputs rather than for
those the run lists. Rounding down leaves fewer paisa than there are lines
(`RestBounded`), and exactly as many lines as paisa are left have a rank below that
number, because the order of remainders is strict and total (`FirstOnes`). So each share
is the floor or one more, the shares add up, and a line without a remainder gets none.

### The back office

`RefundsAgreeCorrect` (`Refunds`). What is booked or worked on has a row on record
(`RefundsOnRecord`), whose amount does not change. A settlement adds its refund's amount to
the order's sum and makes an entry only if there is none, so whether it is the first or the
second of two (section 6), what is COMPLETED and what is booked stay within that sum.

`BillsMatchBookCorrect` and `CorrectionsBalanceCorrect` (`Cashbook`). The book only
grows. The invariant says what an entry points at: a reversal at an earlier original, the
legs of a transfer at each other, side by side, and what a clerk is about to reverse is
all of an original. So a reversal takes both legs or none, once, and a bill's column
changes by just the live entry that is added or put out of count. Every reversal takes
back its original (`TakesBack`: same account, amount, kind and bill, other direction).
Pairing each reversed entry with its reversal then splits an account's book into live
entries and pairs that cancel out: the two halves of the pairs have the same sum
(`SumMirrored`), which is what the balances are proved from.

`CopiesTracedCorrect`, `StampedCostIsRealCorrect`, `OldStockOnlyShrinksCorrect`
(`StockLots`). Taking copies from a queue of lots takes of each what is left or what is
still wanted, whichever is less; that these parts add up to what was asked, or to what
there is, is the lemma about `Spread` (over the prefixes of the queue, which lists each
lot once). With it the lots and what orders took of them stay balanced, an order has
copies of lots only while it is away, and the cost it is stamped with is the mean of the
copies that `Spread` gave it.

`OneReplicaRunsCorrect` (`ReconcilerLock`). The connection that owns the lock holds it at
least as often as its replica has runs under way, so it never comes free during one.

### Accounts and catalog

`ReuseHasACauseCorrect` and `CookieStaysGoodCorrect` (`Sessions`). As long as nothing is
on record that ends sessions from elsewhere or loses an answer, a session is one
browser's, a browser has one call under way, and the call carries the browser's own live
token (`Calm`).

`OwnerSurvivesTurnsCorrect` (`StaffAccounts`). While requests take turns, what a request
has counted is still true when it writes.

`BadgeNotOverstatedCorrect` (`SupportChat`): both statements that clear a counter clear it
to zero, and the one that raises it commits with its message.

`RecomputeRepairsCorrect` (`Reviews`). A transaction that is alone from its write to its
commit has summed the reviews as they are once it has committed (`AloneIsExact`).

`ParcelsAndBillCorrect` (`Shipments`). Of several open writes at most one leaves a
shipment active, and it holds the row of whatever was active before: that is what the
partial unique index and the row locks amount to (`OneActiveInTurn`). While managers take
turns the sum an open write has made is that of the rows it will leave (`BillInTurn`).

`SectionsKeptCorrect` (`Shelves`) and `EditsSeenCorrect` (`PriceBook`). For sections the
invariant says that at most one manager holds them (`OneHolder`) and that what a manager
has read of them is still so (`StillRight`): not the last visible one, nothing in it.
Whoever would make that false waits for the holder. For prices it says that as long as a
page's version is the product's, so are its prices, unless a restock came between: every
other write moves the version.

### Assumptions, and what is not proved

The proofs rest on what the modules state as `ASSUME`, which TLC evaluates in every run:
methods, quantities, amounts and opening stock are what the schema says; orders, refunds,
lots, carts and tabs are finitely many; there is a section, and a sub-category is in the
section of its root; a bundle has products in it (`bundle.dto.ts:65` asks for two), and
what a quote is made of are natural numbers. No theorem assumes more of the code than
that: where a property holds with an exception, the exception is in its formula and in
section 6.

Only model-checked: `FiguresSettle`, `PapersSettle`, `AttemptsSettle`, `MessagesSettle`
and `EverySubmissionAnswered`. They are liveness under fairness, which needs `ENABLED`, and
that is out of this prover's reach. The properties of section 6 are refuted, not proved.

## 6. Findings

Three runs expect a violation; `PROJECT.json` quotes the sentence of the repository
that the code does not keep.

| Run | In short |
|---|---|
| `capture_lost` | a capture is rolled back when its order is cancelled at the same time |
| `refund_counted_twice` | two refreshes add one refund twice to the order's sum |
| `reconciler_lock_leak` | the unlock may run on another connection: the job stops |

The modules state further properties which the repository promises and the code
does not keep. They belong to no run. To see the counterexample, put the property
alone into a copy of the configuration named, with the changes given; TLC finds it
within a minute.

| Property | Configuration | What happens | Where, and against which sentence |
|---|---|---|---|
| `AutoCancelSparesPaid` | `OrderDesk.cfg` | the sweeper, or the handler of a failed attempt, picked the order while it was unpaid and cancels it after the capture | `order-payment.service.ts:103-111` against `:86` "if it never paid" |
| `UsageWithinLimit` | `OrderDesk.cfg` | reopening a cancelled order takes its coupon again without looking at the limit | `coupon-lookup.service.ts:57` against `schema.prisma:1559` |
| `FiguresInSync` | `CustomerFigures.cfg` | a restart between placing and the listener: the increments of a pending order stay | `order-placement.service.ts:192` against `customer-aggregates.service.ts:8` "Keeps ... in sync" |
| `SalesInvoiced` | `OrderBooks.cfg`, `MaxByHand = 0`, `MaxRestarts = 0` | confirmed and cancelled before the event is handled: the sale has no invoice | `document-policy.ts:64` against `:7` |
| `PendingNotInvoiced` | same | cancelled and reopened before the events are handled: a pending order keeps its invoice | `document-policy.ts:71` against `:16-18` and `document-policy.spec.ts:16` |
| `ChargedOnce` | `OnlineCheckoutAttempts.cfg`, `Shoppers <- OneShopper`, `MaxVersion = 1` | an attempt superseded by a later one is still paid, and so is the later one | `payment-checkout.service.ts:56-57` |
| `ProcessedIsRecorded` | same | the validation API is down when the notice of a superseded attempt arrives: nothing is marked, the event counts as processed, and the reconciler only looks at open attempts | `payment-settlement.service.ts:56` against `payment-events.service.ts:17-19` |
| `CaptureReachesOrder` | `OnlineCheckout.cfg`, `MaxRestarts = 1` | a restart after the capture is recorded and before its listener ran: nothing emits the event again | `payment-settlement.service.ts:116` against `order-payment.service.ts:54` |
| `AdmittedWithinPaid` | `RefundsAddUp.cfg` | the order is read before the serializable transaction; its sum is stale when the refund is admitted | `refunds.service.ts:38` against `refund-math.ts:8-10` |
| `ReturnedNotFailed` | `RefundsAddUp.cfg` | the gateway's answer is lost after the bank accepted: the refund is FAILED, and the money may be asked for again | `refunds.service.ts:69` against `:17-19` |
| `SentStays` | `ShopFront.cfg`, as a `PROPERTY` | two retries read FAILED; the first one's message is sent before the second writes PENDING | `outbox-admin.service.ts:38-39` |
| `AttemptsBounded` | `ShopFront.cfg` | the worker dies after the claim, which counts the attempt, and before the comparison with the limit | `outbox-worker.service.ts:77` against `backoff.ts:4` |
| `OneCartEach` | `ShopFront.cfg` | two tabs of a signed-in customer add at once, both find no cart and create one | `cart.service.ts:58` against `:27` |
| `ClearedForGood` | `ShopFront.cfg` | a tab that is still a guest's orders between the read and the write of the other tab's merge: the copies it cleared come back in the customer's cart | `cart.service.ts:123-133` against `:139` |
| `MergeLosesNothing` | `ShopFront.cfg`, as a `PROPERTY` | a line added to the guest cart after the merge has read it is deleted with that cart | `cart.service.ts:133` against `:119` |
| `AverageShown` | `BackOffice.cfg` | the product form writes the cost it was opened with, or one typed in, over the average of the lots | `product-admin.service.ts:213` against `inventory.service.ts:242` |
| `OpeningLocked` | `BackOffice.cfg` | an entry is made between the count of entries and the write of the opening balance | `cash-accounts.service.ts:58` against `:59` |
| `RemovedIsPaid` | `BackOffice.cfg` | a bill is made between the sum of dues and the removal of the supplier; or a payment to a removed supplier is reversed, which puts the amount back on the bill | `suppliers.service.ts:101` against `:102`; `cashbook.service.ts:222` |
| `NoFalseAlarm` | `Accounts.cfg` | two tabs refresh with their common cookie, or an answer is lost: the second use of the token signs every device out | `auth.service.ts:116` against `:118` |
| `ChangeKeepsDevice` | `Accounts.cfg` | another device comes back with the token the change of password revoked, and signs out the device that was to be kept | `auth.service.ts:116` against `:196` |
| `LogoutEnds` | `Accounts.cfg` | the tab's access token belongs to a rotated session: the request is refused before the handler, and the cookie stays | `auth.controller.ts:58` |
| `AnOwnerRemains` | `Accounts.cfg` | two owners demote or disable each other; each counted the other | `staff.service.ts:149` against `:150` |
| `BadgeNotUnderstated` | `Accounts.cfg` | a message arrives between marking the messages and resetting the counter | `inbox.service.ts:133` |
| `StampFitsStatus` | `Accounts.cfg` | a thread is closed between a message's read of it and its write: open again, with a closing date | `message-writer.service.ts:43` |
| `RepliesDoNotClose` | `Accounts.cfg` | a reply writes back the RESOLVED it has read over the customer's reopening | `inbox.service.ts:125` against `conversation-rules.ts:46` |
| `AssigneeKept` | `Accounts.cfg`, `Agents <- TwoAgents` | two agents reply to a thread nobody had: the later one takes it from the earlier | `inbox.service.ts:125` |
| `RatingNeverDrifts` | `Accounts.cfg` | two moderations of one product: each recomputes without the other's uncommitted review | `reviews.service.ts:154` against `:152` |
| `OneUnverified` | `Accounts.cfg` | two submissions both find no earlier review | `review-rules.ts:6` |
| `ListingsPlaced` | `Accounts.cfg` | a product is restored without a look at its sub-category; or its category is removed between the check of its place and the write | `product-admin.service.ts:328`, `category-admin.service.ts:137` against `product-guards.ts:12` |
| `SubsUnderLive` | `Accounts.cfg` | a sub-category is created while its root is removed | `category-admin.service.ts:135` against `:130` |
| `RestockSeen` | `Accounts.cfg` | a restock sets a price without a new version: the page opened before it puts the old price back | `product-stock.service.ts:154` against `product-admin.service.ts:193` |
| `HistoryTellsPrice` | `Accounts.cfg` | a bulk action notes a change against the row it read, not the one it overwrites | `product-guards.ts:59` against `:49` |
| `CostFollows` | `Accounts.cfg` | the last shipment is cancelled and the cost stays; or two requests sum without each other's rows | `shipments.service.ts:161` against `:158` |
| `SettledFromBook` | `Accounts.cfg` | the courier was replaced: the COD of the cancelled shipment is settled as well as that of the new one | `cashbook.service.ts:315` against `:287` |
| `ClosedStaysClosed` | `Accounts.cfg`, as a `PROPERTY` | an assignment that has read a shipment books it after it was cancelled | `shipments.service.ts:85` against `:128` |

## 7. Not modelled, and the plan

Abstracted in what is modelled: dates and durations (a timer may fire whenever it
is set), decimals (small integers), texts, audit rows, metrics, `PARTIALLY_REFUNDED`
and the manual payment methods on the desk (a refunded order behaves like a paid
one there), `sold_count`; in the catalog names, slugs, images, order and visibility of
categories, bundles and duplication of a product; tracking numbers and the statuses
between BOOKED and DELIVERED of a shipment; on the desk also lots and cost, which are `StockLots`. The
`allow_backorder` branch of the reserve statement is kept although the CHECK
constraint makes it dead.

Not modelled because there is nothing concurrent or stateful to get wrong that a
model would add to: read models, reports, layout of papers, templates, HTTP clients,
rate limits, settings, frontend, deployment. These make up most of the repository's
lines.

Lock order is not modelled. A remittance locks shipments and then the books of each
order in the order its query returns them; placement locks customer, coupon, counter
and products, while cancelling locks the order first. Two such transactions may wait
for each other. PostgreSQL then aborts one of them: `placeOrder` is tried again, staff
see an error and repeat. A model would show which pairs can meet, not that the outcome
is wrong, as an aborted transaction leaves nothing behind.

What a further step would take up, in this order:

1. Coupon editing and expiry against redemption; scheduled deals against quotes.
2. Parcels of several products in `StockLots`, and the composition of `StockLots` with
   the desk, so that `TakeBack` follows cancellation rather than turns; stock of bundles.
3. The composition of `Shipments` with the desk and `OrderBooks`.
4. Proofs: an abstract specification of the books and of the checkout (an order is owed
   its papers; an attempt is decided once) and their refinement, as `StockPromise` is for
   the desk.
