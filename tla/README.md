# The B2B marketplace service, in TLA+

This directory models the backend under `src/B2B` (Django, Django REST framework,
PostgreSQL): the service in which sellers keep products and SKUs, a moderation
service passes verdicts, and the B2C shop reserves, releases and ships stock.

What is hard in this code is not one handler but several at a time: every request
runs in a thread of its own, in one transaction, against rows that other requests
read, lock and overwrite; clients retry; events to the peers are posted in the
middle of transactions; there is no lock order. So the model is about transactions,
row locks and unique keys, and every handler is translated against them.

## 1. Inventory

Paths are below `src/B2B/app`.

| Component | Code | State | Operations | Correct when |
|---|---|---|---|---|
| Inventory | `skus/services/reserve_service.py`, `skus/models/reserve_operation.py` | `active_quantity`, `reserved_quantity` of a SKU; one table of operations per kind, keyed by idempotency key (reserve) or order id | `reserve`, `unreserve`, `fulfill` (from B2C) | every operation is applied at most once per key, to the stock of one instant; nothing is oversold; a retry gets the first answer; what an order reserved stays there for it |
| SKU lifecycle | `skus/services/sku_{create,update,delete}_service.py` | SKU rows; the status of their product | create, update, delete (from sellers) | never touches a quantity; a first SKU sends the product to moderation; a SKU with reserves or invoices stays |
| Products | `products/services/product_{update,delete}_service.py`, `products/models` | status, `deleted`, blocking reason | update, delete | a block holds against every seller request; a deletion is final |
| Slugs | `products/api/serializers.py` (create), `product_update_service.py` | `Product.slug`, unique; `Product.category` | create with a slug or from a title, rename | no two products share a slug; a title gets the first free candidate; a 500 only for who was overtaken, or met a renaming's row locks |
| Moderation | `products/services/moderation_event_service.py` | processed events (unique sender and key), field reports | `apply` a verdict | each verdict once; MODERATED leaves no trace of an older block |
| Invoices | `invoices/services.py` | invoices and their items (`PROTECT` on the SKU) | `create_invoice` | only for MODERATED products of the seller |
| Events | `skus/integration`, `products/integration` | none: `requests.post`, failures logged and dropped | events to moderation and B2C, idempotency key = uuid5(subject, type) | tell of what was committed, completely; a review that was asked for ends |
| Catalog | `products/api/controller.py`, `products/api/serializers.py` | none: three queries per page | list for B2C and for sellers: visibility, price annotation, order, pages | a walk over the pages shows what matches, once, unless others move it |
| Product detail | the same, `skus/api/controller.py` | none: up to four queries per answer | detail for seller, moderation and B2C; the answer to a SKU's update | an answer put together from several instants is torn only in known ways |
| Access | `common/authentication.py`, `common/permissions.py` | none | JWT of a seller, service keys | stateless |
| Sellers, categories | `sellers`, `categories` | plain tables, locked with the products that refer to them | none | |

How they interact: through the database only. `select_for_update()` with
`select_related()` locks, tuple by tuple, every joined row (SKU, product, seller, and in
`update_product` the category); `create()` and `get_or_create()` wait for another
transaction that inserted the same key, and a `save()` that changes a slug or an article
waits for whoever has it uncommitted; foreign keys are `DEFERRABLE INITIALLY DEFERRED`,
so an invoice, a field report, a new product and a changed category lock the rows they
refer to only at COMMIT. Two handlers read without a lock
what they decide from: `delete_product` and `create_invoice`.

The hard behaviours, each at its line, are the list `hazards` of `PROJECT.json`.

## 2. Modules

Each arrow points from a module to one it extends, instantiates or implements.

```
StockLedger           the stock: atomic, checked, once per key
ProductLifecycle      products and SKUs: one atomic step per request
   ^ implemented by
Marketplace           all the handlers: Receive, Advance, Crash   --> Inventory,
                      SkuHandlers, ProductHandlers                --> Storage
   ^            ^
MarketplaceMC   MarketplaceProofs <- InventoryProofs, LifecycleRefinement

OrderProtocol         B2C and the network over the stock    --> StockLedger, RequestItems
ModerationExchange    the moderation service as a peer      --> ProductLifecycle
Visibility            what B2C may see of the shop          --> ProductLifecycle
Catalog               the list, page by page                --> Visibility
ProductDetail         the detail, query by query            --> Visibility
StorefrontMC          a client that uses one or the other   --> Catalog, ProductDetail
SlugAllocation        creations and renamings, for the unique slug
```

`OrderProtocolMC`, `ModerationExchangeMC` and `SlugAllocationMC` give the constants of
their modules; `OrderProtocolProofs`, `ModerationExchangeProofs` and
`SlugAllocationProofs` hold the proofs about theirs, `StorefrontProofs` those about
`Catalog` and `ProductDetail`. `Sums` holds the lemmas about sums over sets that
`InventoryProofs` and `OrderProtocolProofs` need.

The project is in two layers. `Marketplace` is cut where PostgreSQL lets another
transaction in: it is about locks, stale reads and deadlocks, and implements the two
abstract modules. Everything that happens *around* the transactions (a network that
loses requests, a peer that reads what is committed, an answer built from several
queries) is modelled over the abstract modules, where a request is one step. That
the handlers do implement those steps is what makes it sound to build on them.

### Marketplace and its parts

**State.** The tables are `skuRow`, `productRow`, `reports`, `invoiced`, `ops`
(the operation tables and the processed events, as `<<kind, key>>`), `index` (which row
has a slug or an article) and `categoryOf`. `holder` is the
FOR UPDATE owner of a row, `sharers` the FOR KEY SHARE owners of foreign-key checks,
`claim` the owner of a key inserted and not yet committed. Each worker thread has a
stage `pc`, its request, its answer, and its session: what its query found and read
(`found`, `seenSku`, `seenProduct`), the status it decided, the events it will post
after the commit. `sent` is the set of events that reached a peer, an event being
peer, type and subject; a SKU_OUT_OF_STOCK carries also the operation that caused it,
a history that no guard reads.

**Steps.** A handler is cut exactly where another transaction can get in between:

| Stage | Step | In the code |
|---|---|---|
| `lookup` | `LookUpOperation` | the unlocked SELECT of the operation (reserve, unreserve) |
| `read` | `DeleteProductRead`, `InvoiceRead` | an unlocked SELECT that is decided from |
| `insert` | `InsertOperation`, `FulfillGetOrCreate`, `InsertProcessedEvent` | the INSERT of a key, which waits for the key's claimant |
| `lock` | `LockSku`, `LockProduct`, `LockSeller`, `LockCategory` | one row of the FOR UPDATE query, which waits for its holder |
| `lock` | `...Decide`, `DeleteProductPost` | everything between the query and the commit, the events posted in the transaction included |
| `write` | `WriteName` | the INSERT or UPDATE of a slug or an article, which waits at the unique index, then fails or goes on |
| `commit` | `CheckReference` | a deferred foreign key |
| `commit` | `Commit...` | COMMIT: the writes appear, the locks go, the answer is due |
| `notify` | `NotifySoldOut` | the `on_commit` callback of reserve |
| `answered` | `Return` | the response leaves, the thread is free |

A handler's writes are private until it commits, so they are computed in the commit
step, from what the session READ: if a lock did not protect a read, the stale value
is what reaches the table. `sku.save()` and `product.save()` without `update_fields`
write every column, quantities and `deleted` included; `save(update_fields=...)`
writes only the named ones.

`Refuse` is every end without a commit: `refused` is an answer of the handler (403,
404, 409), `error` an uncaught exception (500: `IntegrityError`, `ProtectedError`,
`OperationalError`), `replay` the stored answer of an earlier delivery. `Receive` lets
any client send any request of the set `Request` at any time, whatever happened to an
earlier copy: that is retry, duplication and reordering at once. `Crash` loses a
thread, its connection or its process at any point of a request. `Post` delivers any
part of what a handler posts.

**PostgreSQL** (external to `src`, modelled as the code relies on it): READ COMMITTED;
a waiting FOR UPDATE re-reads the row when it gets it and skips it if it was deleted;
rows of a query come in any order (`Orders`), because the code never says ORDER BY;
within a tuple the SKU is locked before its product before its seller before its category;
a joined row that has changed is checked against the query again (`LockCategory`: a
product that moved to another category is not found); who writes a unique name waits for
those who have written it, and for those who are changing the row that has it
(`WaitsForName`); the detector
breaks a circle of waiting sessions by aborting one of them (`DeadlockVictim`).

### ProductLifecycle

`sku`, `product` and `reports` are the tables of `Storage` seen from outside; `AddSku`,
`RemoveSku`, `Edit`, `Delete` and `Judge` are the commits of `create_sku`, `delete_sku`,
`update_sku` or `update_product`, `delete_product` and `apply`; `MoveStock` is any order.
`MoveStock` says no more than that units move between shelf and baskets or leave
the shop. Readers let one SKU move at a time (`MoveUnits`): an order with several SKUs
is several such moves, and a query in between sees no more than one after them.

### OrderProtocol

`phase` is an order as B2C believes it to be, `net` the requests on their way, `looked`
the deliveries that have passed the unlocked lookup and not begun to lock; `applied` and
`stock` come from `StockLedger`. `LookUp` is that query of `reserve` and `unreserve`,
`Replay` the answer from the record, `Transact` the rest of the transaction, as one step:
it executes, or refuses what the stock does not cover (409), or fails on the unique key.
So a delivery that another one overtakes after its lookup may be refused for what the
other one has done (`overtaken` records that B2C heard such a 409; no guard reads it).
`fulfill` inserts its record first and has no lookup to overtake. `Deliver` may leave the
request where it was (duplicate) or lose the answer; `Lose` drops it, or the thread that
serves it; `Resend` is B2C's retry, with the same key. `Settle` cancels or ships a reserved order; `GiveUp` cancels one whose reserve was
never answered (the orders in `Impatient`). `Others` removes SKUs and blocks products.
B2C is external: the code has only its API.

### ModerationExchange

A seller's request is two steps: `Begin`, which holds the product's row, has posted the
event and not committed, and `CommitSeller` or `Rollback`. `Post` is `_emit_event`: one
attempt, three seconds, then forgotten; `late` holds the posts that timed out at this
end and arrive all the same. The moderation service (external) keeps a `queue`, reads
the committed product back through the API (`ReadBack`), concludes, and retries its
verdict until it is acknowledged (`verdicts`, `ApplyVerdict`). Whether it skips events
whose key it has seen (`deduplicates`) is a choice of the initial state, because the
code leaves it open. `version` counts the contents of a product and `judged` is the
one the last verdict was about; both, and `mishaps`, are history variables that no
guard but the bound on `version` reads.

### SlugAllocation

A job is one `POST` or one renaming `PUT`/`PATCH`. `CheckSlug` is `validate_slug`,
`SearchSlug` one turn of the loop of `_generate_unique_slug`; `StartQuery`, `LockRow` and
`BeginUpdate` are the query of a renaming, which locks the product, its seller and its
category one after the other; `WriteSlug` is the INSERT or UPDATE at the unique index,
which waits for those who hold the slug uncommitted; `CheckReference` takes KEY SHARE, at
COMMIT, on the seller and category of a new product or on a renaming's new category;
`DeadlockVictim` is the detector's choice, `Abort` a thread that dies. All other
validations are a refusal that may happen. `taken`, `disturbed` and `blockers` (of a
victim: the members of its circle that had a row another member wanted) are history.

### Catalog and ProductDetail

One step per query, and any commit of others between any two (`CommitOfOthers` in
`Catalog`, `Write` in `ProductDetail`). `CountRows`,
`FetchPage` and `FetchSkus` are the paginator's count, its slice and the prefetch;
the client asks for the next page as long as the count it got says there is one.
The filter of what B2C sees, which the list and the detail share, is in `Visibility`
(`VisibleInCatalog`). The price annotation, the three orders, the sorted result, the
slice and the seller's filters are operators of `Catalog` (`MinVisiblePrice`, `Before`,
`Result`, `PageRows`, `Listed`); `Result` is *the* sequence of the matching products
that `Before` sorts, whatever plan the database makes of the query. `selected` are the
products whose category and text match what is asked for, which `UpdateProduct` and
`CreateProduct` change; `unborn` those that are still to be created.
`ReadRow`, `ReadSkus`, `ReadReports` and `ReadReportSkus` build a detail;
`CommitSkuUpdate` and `RereadSku` are the update of a SKU, which is read again after
its commit. `constant`, `changes`, `touched`, `added`, `removed` and `left` record what
others did meanwhile; no guard reads them.

### Abstractions

- Names, texts, images and characteristics are left out; so are timestamps, except the
  order of creation. A request names a slug or an article only if another request or row
  of the world can collide with it; a name that nobody else wants is never waited for.
- In `Marketplace` products exist from the start. A creation takes part with what
  concerns others, its slug and its foreign keys; the row it commits is nobody's but its
  seller's, and its further life is that of a product. A request for a product that does
  not exist (a 404 before anything is written) is left out.
- `Marketplace` checks before `Receive` that a slug is free (`SlugFree`), as the serializer
  does before the transaction; what may happen in between is `SlugAllocation`.
- A blocking reason is present or absent; a field report is the SKU it is about, or
  `WholeProduct`.
- A request of the model has passed authentication and the serializers
  (`RequestAssumption` states what they guarantee).
- Quantities are natural numbers of the model, not int4: no run gets near the width.
- The filter of the catalog has a fixed part, the constant set `Asked` (the seller's own
  products, the ids B2C names), and a part that edits change, the set `selected`
  (category, search). There are no price ranges. A price is a natural number.
- All the 404s of a product page are one answer.

## 3. Runs

Marketplace's worlds are defined in `MarketplaceMC`, and none of its counters needs a
bound: the tables are finite, operations are recorded once per key, and requests come
from a finite set but any number of times, so each of its runs explores every
schedule of any length. `Deadlocks` alone is bounded, by `Changeable`.

| Run | World | States | Question |
|---|---|---|---|
| `Orders` | 2 threads, 2 SKUs of one product with 2 units each; orders with one and two SKUs, with duplicate lines, and a verdict with a report; `FairSpec` | 88 thousand | Are orders atomic, applied once, balanced, and answered? `TypeOK`, `LedgerBalances`, `SoldOutOnlyAfterCommit`, `LedgerSpec`, `FulfillRetryAnswered`, `Answered` |
| `Shelf` | 2 threads, a SKU with a reserve and a SKU to be created; reserve, fulfill, create, update, delete, BLOCKED | 283 thousand | Do sellers and moderation leave the stock alone, and does nobody use a stale row? `Inv`, `LocksProtectReads`, `BlockedAnnouncementExact`, `LedgerSpec`, `LifecycleSpec` |
| `Review` | 2 threads, a CREATED product without SKUs; create two SKUs, update, delete, a stranger, two verdicts | 353 thousand | Do status, SKUs and reports stay consistent? `CreatedHasNoSkus`, `ModeratedIsClean`, `LifecycleSpec` |
| `Verdicts` | 2 threads, two products; edits, deletions, a stranger, three verdicts, one of them hard | 376 thousand | Does a block hold against sellers; is a deletion final? `Inv`, `DeletionIsFinal`, `SellersRespectHardBlock` |
| `Deadlocks` | 3 threads, two products of two sellers in two categories, one request of every shape that locks differently: orders of one SKU and of two, a SKU's deletion, an edit, a new article, two edits that swap categories (one with a new slug), a creation, an invoice, a verdict with a report | 258 thousand | Which requests can form a circle of waits? `DeadlockShape` |
| `Settlement` | 2 orders over 2 SKUs with 2 units each, one unit short of both; one order has two SKUs on three lines, the other may cancel early | 145 thousand | What can retries, duplicates and losses do to an order? `OrderTypeOK`, `ReservesCovered`, `SettlementNotRefused`, `NothingLeaks`, `EveryOrderEnds` |
| `Exchange` | a product to be created with 2 SKUs; `MaxVersion` 3 contents, `MaxFaults` 2 posts lost or late or rollbacks, either kind of peer | 602 thousand | Do reviews end, and what puts unreviewed content on sale? `ExchangeTypeOK`, `StaleApprovalExplained`, `EveryReviewEnds` |
| `Slugs` | 4 jobs: two titles with colliding candidates, an explicit slug and a renaming; or four renamings that exchange slugs; or renamings that swap categories beside a creation of the same seller; `MaxSuffix` 3 | 88 thousand | `TypeOK`, `SlugsUnique`, `ErrorsOvertaken`, `FirstFreeSlug`, `EveryJobEnds` |
| `Storefront` | 3 products with 5 SKUs and one to be created, every order, pages of 1 and 2, a seller's list, an invalid limit; details for all principals; `MaxWrites` 2 commits of others | 294 thousand | What can a walk miss, repeat or show wrongly (`MissesExplained`, `RepeatsExplained`, `ShownAsSorted`, `UndisturbedWalkComplete`), and how can an answer be torn (`ErrorsExplained`, `ReportsNameShownSkus`, `PublicDetailOnSale`)? Types: `CatalogTypeOK`, `DetailTypeOK` |

Why these bounds are enough. In Marketplace every safety property relates two requests
that meet on a row or a key, so two threads show it; a third SKU, product or key adds
another copy of the same meeting. Circles of waits need three threads to have an
uninvolved member, and to be longer than two; what a circle looks like does not depend
on what earlier requests have written, so `Deadlocks` goes on only from states in
which no SKU and no product but the second one was changed (`Changeable`). Quantities 1 and 2 distinguish "sold
out", "one left" and "not enough". In `Settlement` one order can only harm another one
with the units it did not reserve, so two orders and a stock short by one unit show it.
In `Exchange` products do not interact, three contents are the one reviewed, the one
on its way and the one in between, and with two faults one of them can hide the other.
Four jobs in `Slugs` let two requests take candidates while a third searches, and let
renamings wait in a circle; a title has as many candidates as there are others who can
take one, so `MaxSuffix` never stops a search. In `Storefront` one commit moves a row
across a page boundary and a second moves another one back; three products make
three pages.

`Shelf`, `Review`, `Verdicts` and `Deadlocks` use the symmetry of threads; runs with
liveness properties do not. `Deadlocks` explores only the states in which every event
so far was lost (`FewWrites`): no guard reads `sent`, so no wait is missed.
`CHECK_DEADLOCK` is off for `Settlement`, `Exchange`, `Slugs` and `Storefront`, whose
orders, versions, jobs and walks come to an end; a thread of the service can always go
on, crash or receive.

**Fairness.**

- `Marketplace!FairSpec`: strong fairness of `Advance(w)` for every thread. The
  operating system runs every thread, and PostgreSQL grants a lock in the order of its
  queue, so a session whose row becomes free again and again gets it; weak fairness
  would not be enough, because between two visits the row is held by others. Nothing
  forces a client to send or a thread to crash.
- `FairOrderSpec`: B2C places its orders, settles what it reserved and sends again what
  it awaits (weak fairness), and a request that is delivered again and again is at last
  answered and its answer heard (strong fairness of `AnswerAwaited`): the network may
  lose any number of messages, not all of them. That B2C retries is what the
  idempotency keys of the API are for.
- `FairExchangeSpec`: weak fairness of `Progress`, all that is not a seller's decision
  or a fault: transactions end, the peer works through its queue and retries a verdict
  until it is acknowledged. Nothing retries an event.
- `SlugAllocation!FairSpec`: weak fairness of every job's steps; a waiter is woken when
  the transaction it waits for ends.

### What the runs show of the code

Some properties hold only with an exception, and the exception is the result:

- `SettlementNotRefused`: `unreserve` and `fulfill` test the SKU's reserved quantity as a
  whole. A client that cancels an order before its reserve was answered can take the
  units of another one, which can then be neither shipped nor cancelled. As long as no
  client does, what is reserved covers what the orders hold (`ReservesCovered`), so every
  shipment succeeds, and a cancellation is refused only if it was done: a duplicate that
  was overtaken between its lookup and its transaction finds nothing reserved any more,
  and its 409 may be the answer B2C hears.
- `NothingLeaks`: a refusal is not recorded, so a late duplicate of a refused reserve is
  executed when units have come back, and holds them for an order that is over. The
  overtaken duplicate of a reserve does the same without any delay: B2C hears a 409 while
  the first delivery has taken the units.
- `StaleApprovalExplained`: content nobody approved goes on sale when it was edited during
  its review (not announced), when the peer read the product between the event and the
  commit, and when a verdict of an earlier review arrives in a later one. A peer that
  treats the event key as idempotent never hears of the second edit of a product
  (`EveryReviewEnds`).
- `ErrorsOvertaken`: the loser of a race for a slug is answered 500 where a test of the
  same input one after the other expects 400. So is the victim of a deadlock, even one
  whose slug nobody has committed: a creation has a slug that a renaming of the same
  seller waits for, and at COMMIT wants the seller that the renaming has locked; two
  renamings swap categories, or wait for each other's slug. Creations among themselves
  never end that way.
- `DeadlockShape`: circles of waits come from requests that lock out of the order SKU,
  product, seller, category: `Tangled` lists them.
- `MissesExplained`, `RepeatsExplained`: pages by offset skip and repeat rows under
  concurrent sales, creations and edits, and an arrival between the count and its page ends a walk early.
- `ErrorsExplained`: a SKU removed between two queries turns a page, or the answer to an
  update that was committed, into a 500.

### Disagreements found

Three runs state what the repository says and are violated by what the code does
(`findings` in `PROJECT.json`):

- `ReserveRetry`: a reserve retried while its first delivery is running passes the
  lookup, waits for the SKU, and is then refused (409) for lack of the units that its own
  first delivery took, where the test of idempotency expects 200 and the same answer.
  Where there is stock for a second reserve the same race ends one step later, in an
  uncaught `IntegrityError` (500). The stock is not touched twice (`LedgerBalances`). `fulfill`, which
  inserts first with `get_or_create`, has no such gap (`FulfillRetryAnswered`).
- `HardBlockedNeverDeleted`: `delete_product` checks the status in an unlocked read; a
  hard block committed before its UPDATE does not stop the deletion.
- `InvoiceOnlyModerated`: `create_invoice` checks the status in an unlocked read; an
  edit that sends the product back to review first does not stop the invoice.

Seen in the code and not the subject of a run of their own: a verdict is applied
whatever the current status is, so a late one takes a product out of HARD_BLOCKED (the
exception in `SellersRespectHardBlock`); and the update serializer lets a price of 0
through that the creation refuses, which then sorts first in the catalog.

### Mutants

Each property of a passing run has a mutant, an operator marked `Mutant:` beside the
definition it replaces, which is a plausible slip in that code: a dropped check, a
missing `select_for_update()`, an early event, a response sent before the transaction
ends, `create()` for `get_or_create()`, a forgotten reset, an off-by-one, the other lock
order, overwriting instead of adding, a query without its join or its ORDER BY, a
retry that is not recognised.

## 4. Proofs

The theorems hold for every set of SKUs, products, sellers, keys, threads, orders,
requests and jobs that satisfies the assumptions of the modules: tables of different
kinds do not share ids, foreign keys are functions, the serializers' guarantees
(`Storage`); a product that has SKUs at the start has been sent to moderation and one
on sale has no blocking reason (`HistoryAssumption`, `LifecycleAssumption`); slugs are
unique at the start, what is to be created has none, and candidates are slugs
(`SlugAssumption`); there are finitely many orders, and no line of 0 units
(`OrderAssumption`); there are finitely many products, whose times of creation differ,
prices are naturals and limits integers, invalid ones included (`CatalogAssumption`); the bounds are numbers (`ExchangeAssumption`). The bounds of the
runs are parameters of the theorems. `Balances` alone has a hypothesis of its own,
`KeysIdentify`: requests with the same kind and key carry the same quantities. B2C makes a
new key for each order and repeats it for retries only; what the code does with a
second body under a known key is to answer from the record, and the record keeps no body,
so that without the hypothesis "what the recorded operations moved" has no meaning. The
requests of every run satisfy it.

| Module | Theorem | States |
|---|---|---|
| `MarketplaceProofs` | `Invariance` | `Spec => []Inv`, the inductive invariant |
| | `TypeCorrect` | `Spec => []TypeOK`; in particular no quantity becomes negative |
| | `ReadsStayTrue` | `Spec => []LocksProtectReads` |
| `InventoryProofs` | `Refinement` | `Spec => LedgerSpec`: the service implements `StockLedger` |
| | `Balances` | `Spec => []LedgerBalances`, if keys identify requests |
| | `ToldAfterCommit` | `Spec => SoldOutOnlyAfterCommit` |
| | `FulfillRetries` | `Spec => FulfillRetryAnswered` |
| | `DeadlocksTangled` | `Spec => []DeadlockShape` |
| `LifecycleRefinement` | `DeletedForGood` | `Spec => DeletionIsFinal` |
| | `HardBlockHolds` | `Spec => SellersRespectHardBlock` |
| | `LifeInvariance` | `Spec => []LifeInv`, the inductive invariant |
| | `LifecycleImplemented` | `Spec => LifecycleSpec`: the service implements `ProductLifecycle` |
| | `CreatedIsEmpty`, `ModeratedStaysClean`, `AnnouncedExactly` | `CreatedHasNoSkus`, `ModeratedIsClean`, `BlockedAnnouncementExact` |
| `OrderProtocolProofs` | `OrderInvariance` | `OrderSpec => []OrderInv`, the inductive invariant |
| | `OverHoldsNothing` | `OrderSpec => []NothingLeaks` |
| | `HeldIsReserved`, `SettlementsServed`, `OrderTypesHold` | `ReservesCovered`, `SettlementNotRefused`, `OrderTypeOK` |
| | `OrdersKeepTheLedger` | `OrderSpec => Spec`: what orders do to the stock is a behaviour of `StockLedger` |
| `ModerationExchangeProofs` | `ExchangeInvariance` | `ExchangeSpec => []ExchangeInv`, the inductive invariant |
| | `StaleApprovalOnlyByMishap`, `ExchangeTypes` | `StaleApprovalExplained`, `ExchangeTypeOK` |
| `StorefrontProofs` | `WalkInvariance` | `CatalogSpec => []CatalogInv`, the inductive invariant of the list |
| | `OnlyDisturbedWalksMiss`, `OnlyDisturbedWalksRepeat` | `MissesExplained`, `RepeatsExplained` |
| | `UndisturbedWalksShowAll`, `SortedByWhatIsShown`, `CatalogTypes` | `UndisturbedWalkComplete`, `ShownAsSorted`, `CatalogTypeOK` |
| | `WalksSeeLifecycle`, `DetailsSeeLifecycle` | `CatalogSpec => Spec` and `DetailSpec => Spec`: all that a read sees happen is a behaviour of `ProductLifecycle` |
| | `DetailInvariance` | `DetailSpec => []DetailInv`, the inductive invariant of the detail |
| | `ErrorsOnlyOnRemoval`, `ReportsFitSkus`, `PublicOnSale`, `DetailTypes` | `ErrorsExplained`, `ReportsNameShownSkus`, `PublicDetailOnSale`, `DetailTypeOK` |
| `SlugAllocationProofs` | `UniqueSlugs`, `OnlyOvertakenFail`, `TitlesGetFirstFree`, `SlugTypes` | `SlugsUnique`, `ErrorsOvertaken`, `FirstFreeSlug`, `TypeOK` |

**Types and locks** (`Inv`). A quantity is written as a difference of what was read, so
that it stays a natural number depends on the check that was made before, on the SKU
rows still being as they were read, and therefore on the locks. `Inv` says for each
session: the rows it found are held by it and unchanged (`ReadsProtected`); it holds
rows only while a transaction is open (`HoldsWhatItFound`); what it visits belongs to
its request (`QueriesItsRequest`); past the query it holds the products too
(`HoldsProducts`), also while it waits at the unique index; what it checked is still what its session says (`Checked`); the
product it will write is held, the SKU it will insert is new (`HoldsItsProduct`); the
key it will record is claimed and not on record (`ClaimsItsKey`). A step belongs to one
worker `w`. It leaves the other sessions alone (`Others`) and changes only rows that
`w` holds, or a SKU that is not there yet under a product that `w` holds, and records
only a key that `w` claimed (`TableFrame`). `Frame` shows that this preserves the
invariant of every other session; each action then owes its own types and its own
session (`Effect`).

**Refinements.** In the ledger the ten commits map to an order's move, to `Add` or
`Remove`, or to `Judge`, and everything else to a stutter. In the lifecycle a commit
writes the status that was *decided* earlier, from a count of SKUs made earlier, and
has to be the step of that instant. `LifeInv` adds to `Inv` that a decision is what the
handler would decide now (`Decided`) and that the verdict's copy of the SKUs is up to
date (`Sees`). Both survive the steps of others because whoever changes a SKU holds its
product (`RowFrame`). The facts about the tables (a CREATED product has no SKU, a
MODERATED one no reports, reports are about the product's own SKUs) are preserved by
the lifecycle's steps, and hence by the handlers.

**Retries** (`KeyInv`). A session owns a unique key only after its own insert and until
its transaction ends, so nobody owns a key that is on record: a retry of a recorded
fulfill never waits, is nobody's deadlock victim, and finds the record.

**Sums** (`Sums`). The models add quantities up with the library's fold, which takes one
element after the other by `CHOOSE`. A fold over a finite set is a recursion on subsets,
and what holds of it is proved from a least counterexample: among the subsets for which
it fails, one that contains no smaller one (`LeastSubset`, from the library's well-founded
orderings). So the sum exists whatever the order (`SumIsAdditive`), and adding or
removing an element adds or removes its weight. The same argument shows that
`CollapseItems`, the fold of an order's lines into quantities per SKU, gives each SKU
the sum of its lines (`CollapseIsSum`), for every list of lines.

**Balances** (`BalanceInv`). Proved of the ledger, whose steps the handlers implement: a
move records its key and adds the request's quantities, so both sides of the equation
change by the same amount, provided that the new record stands for this request and no
other. A SKU that is not born yet is as it was at the start (`Untouched`), so that its
creation, which writes zeros, balances too; and the record is finite.

**Sold out** (`NotifyInv`). A session at `notify` serves a reserve that is on record, and
its outbox tells of that very reserve; a record is never taken back. The commit is the
step that takes a SKU's last units, and what the session read of the SKU is what is in
the table, so the units are gone after it exactly if all that was read was ordered.

**Deadlocks** (`ShapeInv`). The locks of a session tell how far its request has come
(`LockShape`): it holds no product, seller or category it does not want, a seller only
after its products, a category last, and before its query nothing but the key. So each
thread that waits has a rank (for a key, SKU, product, seller, category or the last key),
and among requests that are not tangled whoever is waited for and waits himself has a
higher rank: a circle of those is impossible. Names add one rank, between the category and
the last key: the only untangled request that writes one is `create_sku` (`PlainWriter`),
which comes to the unique index with all its rows, and waits there for someone who
has all of his, since he is changing the row that has the article.

**Orders** (`RecordInv`, `OrderInv`). What B2C believes of an order was said by B2B, whose record
never forgets: cancelled and shipped orders are on record, and the reserve of a refused
one is on record only if it was executed after the refusal. `OrderInv` adds how far an
order has come on both sides: what is on its way or on record fits its phase
(`OrderOK`), in particular it is settled one way and after its reserve. As long as nobody
had units returned that it had not reserved (`Calm`), each operation applied takes one
order into or out of the set that holds units, and what is reserved of a SKU moves by that
order's lines (`Covered`). The settlement of an order that holds its units then passes
the test, since its lines are one term of the sum; so a settlement that fails the test is
one whose units another delivery has already given back.

**Reviews** (`ExchangeInv`). A seller's transaction holds the product's row, so the
status and the SKUs its event was chosen for are those it commits over (`OpenOK`). If
the event arrived in time, the peer has queued the product and not read it (`Told`).
Hence, as long as nothing went wrong, everything the peer has read or judged is the
committed content (`Known`), and an action has to be examined for its own product only
(`OneProduct`).

**Pages** (`CatalogInv`). `Position(p)` is the number of matching products sorted before
`p`. It is one-to-one, and the products are finitely many, so the positions are exactly
the first numbers from 0 (`Positions`): the sorted sequence exists, and its row `i` has
position `i - 1` (`ResultRows`). A walk's offset is then a bound on positions. As long
as nothing arrives or moves, a commit takes rows out and the others slide forward only
(`SlideForward`), so what was shown stays before the offset and is not shown again
(`NoRepeat`). As long as nothing leaves or moves, rows slide back only (`SlideBack`), so
what always matched and was not shown stays at the offset or behind it, and a walk that
ends because the count says so has reached it (`NoMiss`), unless a product came between
the count and the page. When nothing changed, the answers are the rows 1 to the offset
(`InOrder`). A price is the one shown unless the product was touched after the page was
read (`Annotated`).

**Torn reads** (`DetailInv`). Each query's answer is still true of the tables, or
`added`, `removed` or `left` accounts for the difference.

**Slugs** (`SlugInv`). Who has written a slug and not committed is alone with it
(`WrittenIsHeld`); what a job found free is free still, or somebody took it since
(`FoundIsFree`). Only renamings lock rows (`LocksAreRenames`). So in a circle in which
somebody wants a row, it is a renaming's, or it is shared by a creation or renaming at COMMIT
that waits in its turn for a renaming's row: the victim has its reason (`VictimKeeps`). If
nobody wants a row, everybody is at the unique index and waits for a slug that is some
product's already, so the victim's was committed after it was found free. The candidates
that a search has left behind belong to others as long as nobody else commits (`Searched`).

Only model-checked: what depends on fairness (`Answered`, `EveryOrderEnds`,
`EveryReviewEnds`, `EveryJobEnds`), which is beyond the prover's reach. All other
properties of the passing runs are stated by a theorem.

## 5. Not modelled, and the plan

Not modelled:

- Authentication and permissions: a stateless decision on one request before its
  handler runs. The principals it tells apart appear in `Catalog` and `ProductDetail`.
- Sellers and categories: tables without handlers.
- Migrations, settings, URLs, exception formatting: generated or configuration; the
  constraints they create are in `Storage`.
- B2C's copy of the catalog, which its events are to keep up to date: what B2C does with
  an event is nowhere in the code. So nothing is said of the SKU list of
  PRODUCT_DELETED, and nothing of a sold-out event lost in a crash after the commit,
  which no outbox could recover.
- Widths of numbers: quantities and prices stay far below int4 and DECIMAL(10,2) in
  every handler, which only subtracts or moves what it has.

Limits of single properties:

- `LifecycleSpec` has no guard on `deleted`, as the code has none: it does not say whether
  a deleted product should still be edited, judged or given SKUs. Only that it stays
  deleted is stated (`DeletionIsFinal`).
- `ReservesCovered`, `SettlementNotRefused` and `NothingLeaks` are about a client with one
  key per order. A client that makes a new key for a retry reserves twice, which the code
  cannot notice.
- In `OrderProtocol` a transaction is one step. What happens between a delivery's lookup
  and its transaction is modelled, the waits inside it are in `Marketplace`.

What remains worth doing:

1. The price range filter of the catalog.
2. An edit that loses its category's row (404) and a creation's row in one world with the
   seller's list, if products are ever created inside `Marketplace`.
