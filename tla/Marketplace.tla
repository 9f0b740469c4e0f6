---------------------------- MODULE Marketplace ----------------------------
(***************************************************************************)
(* The B2B service: its worker threads serve inventory, seller, moderation  *)
(* and invoice requests against the shared tables.  Clients send any request *)
(* at any time, and again after any answer or none (at-least-once delivery). *)
(***************************************************************************)
EXTENDS Inventory, ProductHandlers, Functions

FirstStage(kind) ==
  CASE kind \in {"reserve", "unreserve"}      -> "lookup"
    [] kind \in {"fulfill", "moderation"}     -> "insert"
    [] kind \in {"delete_product", "invoice"} -> "read"
    [] kind = "create_product"                -> "write"
    [] OTHER                                  -> "lock"

\* Before the handler starts, a serializer's query has found the new slug free.
SlugFree(r) ==
  r.name \in Slug =>
    \/ index[r.name] = Nobody
    \/ r.kind = "update_product" /\ index[r.name] = r.product

Receive(w, r) ==
  /\ pc[w] = "idle"
  /\ SlugFree(r)
  /\ req' = [req EXCEPT ![w] = r]
  /\ IF FirstStage(r.kind) = "lock"
     THEN StartQuery(w, r)
     ELSE Go(w, FirstStage(r.kind)) /\ UNCHANGED scan
  /\ UNCHANGED <<tables, locks, found, seenSku, seenProduct, decision, outbox, sent>>

\* What a worker does by itself once it has a request.
Advance(w) ==
  \/ LockSku(w) \/ LockProduct(w) \/ LockSeller(w) \/ LockCategory(w)
  \/ CheckReference(w) \/ DeadlockVictim(w) \/ Return(w)
  \/ InventoryStep(w) \/ SkuStep(w) \/ ProductStep(w)

Next == \E w \in Worker :
  \/ \E r \in Request : Receive(w, r)
  \/ Advance(w)
  \/ Crash(w)

Spec == Init /\ [][Next]_vars

\* A thread that can infinitely often go on does: the scheduler runs every thread,
\* and PostgreSQL queues the waiters of a lock in order.  Nothing obliges a
\* client to send, or a thread to crash.
FairSpec == Spec /\ \A w \in Worker : SF_vars(Advance(w))

-----------------------------------------------------------------------------
TypeOK ==
  /\ skuRow \in [SkuId -> SkuRow]
  /\ productRow \in [ProductId -> ProductRow]
  /\ reports \in [ProductId -> SUBSET (SkuId \union {WholeProduct})]
  /\ invoiced \subseteq SkuId
  /\ ops \subseteq OpId
  /\ index \in [Name -> Owner]
  /\ categoryOf \in [ProductId -> CategoryId]
  /\ holder \in [Row -> Worker \union {Nobody}]
  /\ sharers \in [Row -> SUBSET Worker]
  /\ claim \in [OpId -> Worker \union {Nobody}]
  /\ pc \in [Worker -> Stage]
  /\ reply \in [Worker -> Reply]
  /\ req \in [Worker -> Request \union {NoRequest}]
  /\ scan \in [Worker -> Seq(SkuId \union CategoryId)]
  /\ found \in [Worker -> SUBSET SkuId]
  /\ seenSku \in [Worker -> [SkuId -> SkuRow]]
  /\ seenProduct \in [Worker -> [ProductId -> ProductRow]]
  /\ decision \in [Worker -> Status \union {Undecided}]
  /\ \A w \in Worker :
       /\ pc[w] = "idle" <=> req[w] = NoRequest
       /\ pc[w] \in {"idle", "answered"} => scan[w] = <<>> /\ found[w] = {}
-----------------------------------------------------------------------------
\* Locks.

ReadsProtected(w) ==
  /\ \A s \in found[w] : holder[s] = w /\ Live(s) /\ seenSku[w][s] = skuRow[s]
  /\ \A p \in ProductId :
       holder[p] = w /\ req[w].kind # "delete_product" =>
         seenProduct[w][p] = productRow[p]

\* Whatever a handler decides from, it still holds when it commits: the SKU rows
\* its query returned are locked by it, exist and are as it read them, and so is
\* every product row it locked.  delete_product alone decides from an unlocked
\* read.
LocksProtectReads == \A w \in Worker : ReadsProtected(w)

SkuReports(r) == r.reports \intersect SkuId

\* Requests that wait for one row, or for a unique name, while they hold another
\* one out of the order SKU, product, seller, category: an inventory request for
\* several SKUs; an invoice (seller first, then SKUs, at COMMIT); a verdict with a
\* report about a SKU (the product first, then the SKU, at COMMIT); an edit that
\* changes a slug, an article or a category; the creation of a product (its slug
\* first, then seller and category, at COMMIT).
Tangled(r) ==
  \/ r.kind \in InventoryKind /\ Cardinality(r.skus) > 1
  \/ r.kind \in {"invoice", "create_product"}
  \/ r.kind = "moderation" /\ r.verdict # "MODERATED" /\ SkuReports(r) # {}
  \/ r.kind \in {"update_sku", "update_product"} /\ (r.name # NoName \/ r.category # {})

\* Threads that serve only the other requests never wait on each other in a
\* circle: every deadlock PostgreSQL has to break involves one of those.
DeadlockShape ==
  \A C \in SUBSET Worker : DeadlockCycle(C) => \E w \in C : Tangled(req[w])

-----------------------------------------------------------------------------
\* Inventory.

Ledger == INSTANCE StockLedger WITH
  stock   <- skuRow,
  blocked <- {p \in ProductId : productRow[p].status \in {"BLOCKED", "HARD_BLOCKED"}},
  applied <- ops \intersect (InventoryKind \X Key)

\* Every inventory operation takes effect at one instant, on the stock and the
\* product status of that instant, and once for its key; sellers and moderation
\* never disturb a quantity (full-row sku.save() included).
LedgerSpec == Ledger!Spec

Applied(kind, s) ==
  {r \in Request : r.kind = kind /\ s \in r.skus /\ <<kind, r.key>> \in ops}
Total(kind, s) == SumFunctionOnSet([r \in Request |-> r.qty[s]], Applied(kind, s))

\* A client makes a new key for every order and sends the same body again with it.
KeysIdentify ==
  \A r1, r2 \in Request :
    r1.kind \in InventoryKind /\ r1.kind = r2.kind /\ r1.key = r2.key => r1 = r2

\* The quantities of a SKU are what it started with plus what the recorded
\* operations moved, each counted once however often it was sent, retried or
\* interrupted.
LedgerBalances ==
  \A s \in SkuId : Live(s) =>
    /\ skuRow[s].active = InitialSku[s].active - Total("reserve", s)
                          + Total("unreserve", s)
    /\ skuRow[s].reserved = InitialSku[s].reserved + Total("reserve", s)
                            - Total("unreserve", s) - Total("fulfill", s)

LastUnitsTaken == {s \in SkuId : skuRow[s].active > 0 /\ skuRow'[s].active = 0}

\* When a reserve commits, the events it has to post are those of the SKUs whose
\* last units it takes, no more and no fewer; and B2C hears such an event only from
\* the thread that has committed that very reserve.  The notice of a reserve that
\* rolls back never leaves, whatever other reserves are on record.
SoldOutOnlyAfterCommit ==
  [][/\ \A w \in Worker : At(w, "commit", {"reserve"}) /\ Op(w) \in ops' \ ops =>
          outbox'[w] = {OutOfStock(s, Op(w)) : s \in LastUnitsTaken}
     /\ \A s \in SkuId, op \in OpId : OutOfStock(s, op) \in sent' \ sent =>
          op \in ops /\ \E w \in Worker : pc[w] = "notify" /\ Op(w) = op]_vars

\* A request of these kinds whose operation is on record is answered with the
\* stored result, or by the transaction that recorded it; not refused, not failed.
RetryAnswered(kinds) ==
  \A w \in Worker :
    /\ req[w] # NoRequest /\ req[w].kind \in kinds /\ Op(w) \in ops
    /\ pc[w] # "answered" /\ pc'[w] = "answered"
    => reply'[w] \in {"ok", "replay"}

\* fulfill inserts its operation first, so a retry waits for the first delivery
\* and then gets its result.
FulfillRetryAnswered == [][RetryAnswered({"fulfill"})]_vars

\* The same promise for reserve ("idempotent reserve returns 200").
ReserveRetryAnswered == [][RetryAnswered({"reserve"})]_vars

-----------------------------------------------------------------------------
\* Products.

Lifecycle == INSTANCE ProductLifecycle WITH
  sku <- skuRow, product <- productRow, Quantity <- Nat

\* Every request about a product takes effect at one instant, on the status, the
\* SKUs and the reports of that instant: an edit that waited for a verdict reacts
\* to that verdict, the first SKU and the last one are found by counting the SKUs
\* there are, and full-row saves undo nothing.
LifecycleSpec == Lifecycle!Spec

\* A product that was never sent to moderation (or started over) has no SKUs, so
\* its next SKU is a first SKU and sends it to moderation; otherwise it would
\* stay CREATED for ever.
CreatedHasNoSkus ==
  \A p \in ProductId : productRow[p].status = "CREATED" => ~HasSkus(p)

\* A MODERATED product carries no blocking reason and no field report.
ModeratedIsClean ==
  \A p \in ProductId : productRow[p].status = "MODERATED" =>
    ~productRow[p].reason /\ reports[p] = {}

\* When a block takes effect, PRODUCT_BLOCKED has listed exactly the SKUs of the
\* product that B2C can still sell, although it was posted before the commit.
BlockedAnnouncementExact ==
  \A w \in Worker : At(w, "commit", {"moderation"}) =>
    BlockedListing(w) =
      {s \in SkusOf(req[w].product) : Live(s) /\ skuRow[s].active > 0}

\* No concurrent full-row product.save() brings a deleted product back.
DeletionIsFinal ==
  [][\A p \in ProductId : productRow[p].deleted => productRow'[p].deleted]_vars

Hard(row) == row.status = "HARD_BLOCKED"

\* No seller request, started before or after the block, takes a product out of
\* HARD_BLOCKED; only another verdict does, which looks at no status.
SellersRespectHardBlock ==
  [][\A p \in ProductId : Hard(productRow[p]) /\ ~Hard(productRow'[p]) =>
       \E w \in Worker : At(w, "commit", {"moderation"}) /\ req[w].product = p]_vars

\* A seller cannot delete a hard-blocked product.
HardBlockedNeverDeleted ==
  [][\A p \in ProductId : Hard(productRow[p]) /\ productRow'[p].deleted =>
       productRow[p].deleted]_vars

\* "Invoice can only be created for MODERATED products."
InvoiceOnlyModerated ==
  [][\A w \in Worker : At(w, "commit", {"invoice"}) /\ pc'[w] = "answered"
                       /\ reply'[w] = "ok" =>
       \A s \in req[w].skus : productRow[ProductOf[s]].status = "MODERATED"]_vars

-----------------------------------------------------------------------------
\* Every request is answered: no thread waits for ever for a row, a key or
\* another thread.
Answered == \A w \in Worker : pc[w] # "idle" ~> pc[w] = "idle"
-----------------------------------------------------------------------------
\* The inductive invariant: TypeOK and, for every session, what its stage tells.

\* Rows are held only between the locking query and the end of the transaction,
\* and the SKU rows held are those the query returned.
HoldsWhatItFound(w) ==
  /\ \A row \in Row : holder[row] = w => pc[w] \in {"lock", "insert", "write", "commit"}
  /\ \A s \in SkuId : holder[s] = w => s \in found[w]

\* Where the query can still go.
Reach(r) ==
  IF r.kind \in SkuKind THEN r.skus
  ELSE IF r.kind = "update_product" THEN CategoryId ELSE {}

QueriesItsRequest(w) ==
  pc[w] # "idle" => /\ found[w] \subseteq req[w].skus
                    /\ \A i \in 1..Len(scan[w]) : scan[w][i] \in Reach(req[w])
                    /\ req[w].kind \notin SkuKind => found[w] = {}

\* Past the locking query the products of the SKUs found are held too.
HoldsProducts(w) ==
  pc[w] \in {"insert", "write", "commit"} => \A s \in found[w] : holder[ProductOf[s]] = w

Holds(w, stages, kinds) == pc[w] \in stages /\ req[w].kind \in kinds

\* What was checked before the commit is still what the session says.
Checked(w) ==
  /\ Holds(w, {"insert", "commit"}, {"reserve"}) => ReserveFailures(w) = {}
  /\ Holds(w, {"insert", "commit"}, {"unreserve"}) => ReturnFailures(w) = {}
  /\ Holds(w, {"commit"}, {"fulfill"}) => ReturnFailures(w) = {}
  /\ Holds(w, {"write", "commit"}, {"update_sku", "delete_sku"}) => found[w] # {}
  /\ Holds(w, {"write", "commit"}, SellerKind) => ~Forbidden(w)
  /\ Holds(w, {"commit"}, {"delete_sku"}) =>
       \A s \in found[w] : seenSku[w][s].reserved = 0
  /\ Holds(w, {"write", "commit"}, SellerKind \union {"moderation"}) =>
       decision[w] \in Status
  /\ Holds(w, {"write"}, Kind) => req[w].name # NoName

\* The product a handler is about to write is held, and the SKU it is about to
\* insert is not there.
HoldsItsProduct(w) ==
  /\ Holds(w, {"write", "commit"}, SellerKind \union {"delete_product", "moderation"}) =>
       holder[req[w].product] = w
  /\ Holds(w, {"write", "commit"}, {"create_sku"}) =>
       \A s \in req[w].skus : skuRow[s].state = "unborn"

\* An operation about to be committed has its key claimed and is not on record.
ClaimsItsKey(w) ==
  \/ Holds(w, {"commit"}, KeyedKind)
  \/ Holds(w, {"lock"}, {"fulfill", "moderation"})
  => claim[Op(w)] = w /\ Op(w) \notin ops

SessionOK(w) ==
  /\ ReadsProtected(w)
  /\ HoldsWhatItFound(w)
  /\ QueriesItsRequest(w)
  /\ HoldsProducts(w)
  /\ Checked(w)
  /\ HoldsItsProduct(w)
  /\ ClaimsItsKey(w)

\* What TypeOK and LocksProtectReads need to be preserved by every step.
Inv == TypeOK /\ \A w \in Worker : SessionOK(w)
=============================================================================
