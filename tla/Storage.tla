------------------------------ MODULE Storage ------------------------------
(***************************************************************************)
(* The PostgreSQL side of the B2B service: the tables the handlers share,   *)
(* the row locks of select_for_update(), the unique keys and the unique      *)
(* slugs and articles an uncommitted write claims, the foreign keys checked  *)
(* at COMMIT, and the session each worker thread keeps while it serves a    *)
(* request (READ COMMITTED, one transaction per request:                    *)
(* @transaction.atomic).                                                    *)
(*                                                                          *)
(* A handler's writes stay private until it commits, so they are kept in    *)
(* its session (what it read, what it decided) and reach the tables in the  *)
(* commit step, computed from what was READ, never from the tables.         *)
(***************************************************************************)
EXTENDS Integers, Sequences, FiniteSets

CONSTANTS
  SkuId, ProductId, SellerId, CategoryId,  \* primary keys
  Slug, Article,               \* unique names, of products and of SKUs
  Key,                         \* idempotency keys and order ids
  Worker,                      \* server threads
  Request,                     \* what clients may send (and send again)
  ProductOf, SellerOf,         \* the foreign keys SKU -> product -> seller
  InitialSku, InitialProduct,  \* the tables' rows at the start
  InitialIndex, InitialCategory,
  NewProduct,                  \* a product that was not there at the start
  Nobody, NoRequest, NoName, WholeProduct

VARIABLES
  skuRow, productRow,  \* committed rows
  reports,             \* field reports of a product, by SKU (WholeProduct: none)
  invoiced,            \* SKUs named by an invoice item
  ops,                 \* committed operations: <<kind, key>>
  index,               \* the row that has a slug or an article, or Nobody
  categoryOf,          \* the category of a product
  holder,              \* exclusive row locks: row -> worker or Nobody
  sharers,             \* FOR KEY SHARE locks of foreign-key checks
  claim,               \* unique keys inserted and not yet committed
  pc, req, reply,      \* a worker's stage, its request and its HTTP answer
  scan,                \* rows its locking query has still to reach
  found,               \* SKU rows its query returned, all locked
  seenSku, seenProduct,\* the rows as the worker read them
  decision,            \* the product status the worker will write
  outbox,              \* events to post after the commit
  sent                 \* events that reached a peer

tables  == <<skuRow, productRow, reports, invoiced, ops, index, categoryOf>>
locks   == <<holder, sharers, claim>>
session == <<req, scan, found, seenSku, seenProduct, decision, outbox>>
vars    == <<tables, locks, session, pc, reply, sent>>

InventoryKind == {"reserve", "unreserve", "fulfill"}
SkuKind       == InventoryKind \union {"update_sku", "delete_sku"}
ProductKind   == {"create_sku", "update_product", "delete_product", "moderation"}
SellerKind    == {"create_sku", "update_sku", "delete_sku", "update_product"}
KeyedKind     == InventoryKind \union {"moderation"}
Kind          == SkuKind \union ProductKind \union {"create_product", "invoice"}
Verdict       == {"MODERATED", "BLOCKED", "HARD_BLOCKED"}
Status        == {"CREATED", "ON_MODERATION"} \union Verdict
Undecided     == "undecided"
Stage         == {"idle", "lookup", "insert", "read", "lock", "write", "commit",
                  "notify", "answered"}
Reply         == {"none", "ok", "replay", "refused", "error"}

Row  == SkuId \union ProductId \union SellerId \union CategoryId
Name == Slug \union Article
Owner == SkuId \union ProductId \union {NewProduct, Nobody}
OpId == KeyedKind \X Key
Row0 == [state |-> "unborn", active |-> 0, reserved |-> 0]

SkuRow     == [state : {"unborn", "live", "deleted"}, active : Nat, reserved : Nat]
ProductRow == [status : Status, deleted : BOOLEAN, reason : BOOLEAN]

ASSUME RowsAssumption ==
  /\ SkuId \intersect ProductId = {}
  /\ SkuId \intersect SellerId = {}
  /\ ProductId \intersect SellerId = {}
  /\ CategoryId \intersect (SkuId \union ProductId \union SellerId) = {}
  /\ IsFiniteSet(SkuId)
  /\ ProductOf \in [SkuId -> ProductId]
  /\ SellerOf \in [ProductId -> SellerId]

ASSUME TablesAssumption ==
  /\ InitialSku \in [SkuId -> SkuRow]
  /\ InitialProduct \in [ProductId -> ProductRow]
  /\ InitialCategory \in [ProductId -> CategoryId]
  /\ InitialIndex \in [Name -> Owner]

\* ... and are rows the service can have written: there is nothing in a row nobody
\* has created, a SKU sends its product to moderation, a verdict MODERATED takes
\* the blocking reason away.
ASSUME HistoryAssumption ==
  /\ \A s \in SkuId : InitialSku[s].state = "unborn" => InitialSku[s] = Row0
  /\ \A s \in SkuId : InitialSku[s].state = "live" =>
       InitialProduct[ProductOf[s]].status # "CREATED"
  /\ \A p \in ProductId : InitialProduct[p].status = "MODERATED" =>
       ~InitialProduct[p].reason

ASSUME WorkerAssumption ==
  /\ Nobody \notin Worker
  /\ NoRequest \notin Request
  /\ NoName \notin Name
  /\ WholeProduct \notin SkuId

\* What the serializers let through: at least one item, each of quantity >= 1,
\* summed per SKU (RequestItems); a SKU handler names one SKU of its product.
\* `name' is the slug or article to write: NoName when the body has none, or has
\* one that no other request or row here has.  A creation has a slug and a
\* category, an edit may have either.
ASSUME RequestAssumption ==
  \A r \in Request :
    /\ r \in [kind : Kind, key : Key, skus : SUBSET SkuId, qty : [SkuId -> Nat],
              product : ProductId, seller : SellerId, verdict : Verdict,
              reports : SUBSET (SkuId \union {WholeProduct}),
              name : Name \union {NoName}, category : SUBSET CategoryId]
    /\ r.kind \in InventoryKind => r.skus # {} /\ \A s \in r.skus : r.qty[s] >= 1
    /\ r.kind \in {"create_sku", "update_sku", "delete_sku"} =>
         \E s \in SkuId : r.skus = {s} /\ ProductOf[s] = r.product
    /\ r.name \in Slug => r.kind \in {"create_product", "update_product"}
    /\ r.name \in Article => r.kind \in {"create_sku", "update_sku"}
    /\ r.category # {} => /\ r.kind \in {"create_product", "update_product"}
                         /\ \E c \in CategoryId : r.category = {c}
    /\ r.kind = "create_product" => r.name \in Slug /\ r.category # {}

-----------------------------------------------------------------------------
Init ==
  /\ skuRow = InitialSku
  /\ productRow = InitialProduct
  /\ reports = [p \in ProductId |-> {}]
  /\ invoiced = {}
  /\ ops = {}
  /\ index = InitialIndex
  /\ categoryOf = InitialCategory
  /\ holder = [row \in Row |-> Nobody]
  /\ sharers = [row \in Row |-> {}]
  /\ claim = [o \in OpId |-> Nobody]
  /\ pc = [w \in Worker |-> "idle"]
  /\ req = [w \in Worker |-> NoRequest]
  /\ reply = [w \in Worker |-> "none"]
  /\ scan = [w \in Worker |-> <<>>]
  /\ found = [w \in Worker |-> {}]
  /\ seenSku = [w \in Worker |-> [s \in SkuId |-> Row0]]
  /\ seenProduct = [w \in Worker |-> InitialProduct]
  /\ decision = [w \in Worker |-> Undecided]
  /\ outbox = [w \in Worker |-> {}]
  /\ sent = {}

At(w, stage, kinds) == pc[w] = stage /\ req[w].kind \in kinds
Op(w) == <<req[w].kind, req[w].key>>
Live(s) == skuRow[s].state = "live"
SkusOf(p) == {s \in SkuId : ProductOf[s] = p}
Product(w) == seenProduct[w][req[w].product]

-----------------------------------------------------------------------------
\* Moving a session along.

Go(w, stage) == pc' = [pc EXCEPT ![w] = stage] /\ UNCHANGED reply

ReleaseAll(w) ==
  /\ holder' = [row \in Row |-> IF holder[row] = w THEN Nobody ELSE holder[row]]
  /\ sharers' = [row \in Row |-> sharers[row] \ {w}]
  /\ claim' = [o \in OpId |-> IF claim[o] = w THEN Nobody ELSE claim[o]]

Forget(w) ==
  /\ scan' = [scan EXCEPT ![w] = <<>>]
  /\ found' = [found EXCEPT ![w] = {}]
  /\ seenSku' = [seenSku EXCEPT ![w] = [s \in SkuId |-> Row0]]
  /\ seenProduct' = [seenProduct EXCEPT ![w] = InitialProduct]
  /\ decision' = [decision EXCEPT ![w] = Undecided]

\* Mutant: the response leaves while the transaction is still open.
AnswerInTransaction(w, code) ==
  /\ pc' = [pc EXCEPT ![w] = "answered"]
  /\ reply' = [reply EXCEPT ![w] = code]
  /\ outbox' = [outbox EXCEPT ![w] = {}]
  /\ UNCHANGED locks
  /\ Forget(w)
  /\ UNCHANGED req

\* The transaction ends, its locks go, and the client gets its answer.
Answer(w, code) ==
  /\ pc' = [pc EXCEPT ![w] = "answered"]
  /\ reply' = [reply EXCEPT ![w] = code]
  /\ outbox' = [outbox EXCEPT ![w] = {}]
  /\ ReleaseAll(w)
  /\ Forget(w)
  /\ UNCHANGED req

\* ... without having changed anything: an early return or a rollback.
Refuse(w, code) == Answer(w, code) /\ UNCHANGED <<tables, sent>>

\* requests.post fails silently (RequestException is logged), so any part of
\* what a handler posts may be lost.
Post(events) == \E delivered \in SUBSET events : sent' = sent \union delivered

-----------------------------------------------------------------------------
\* Row locks: SELECT ... FOR UPDATE over the joined rows.

Free(w, row) == holder[row] \in {Nobody, w} /\ sharers[row] \subseteq {w}

Orders(S) ==
  {f \in [1..Cardinality(S) -> S] :
     \A i, j \in 1..Cardinality(S) : i # j => f[i] # f[j]}

\* The rows the query's snapshot finds, besides those it reaches from them: the
\* SKUs, or the category that update_product joins to the product.
Matching(r) ==
  CASE r.kind \in SkuKind         -> {s \in r.skus : Live(s)}
    [] r.kind = "update_product"  -> {categoryOf[r.product]}
    [] OTHER                      -> {}

\* The query starts: it will visit the rows that match, in an order of the
\* planner's choice (there is no ORDER BY).
StartQuery(w, r) ==
  /\ Go(w, "lock")
  /\ \E order \in Orders(Matching(r)) : scan' = [scan EXCEPT ![w] = order]

\* Mutant: an inventory query with select_for_update(of=("self",)).
ProductsOfSellersOnly(w) ==
  IF req[w].kind \in ProductKind THEN {req[w].product}
  ELSE IF req[w].kind \in InventoryKind THEN {}
  ELSE {ProductOf[s] : s \in found[w]}

\* Mutant: the sellers' SKU handlers lock the product before the SKU.
ProductFirst(w) ==
  IF req[w].kind \in ProductKind \union SellerKind THEN {req[w].product}
  ELSE {ProductOf[s] : s \in found[w]}

ProductsWanted(w) ==
  IF req[w].kind \in ProductKind THEN {req[w].product}
  ELSE {ProductOf[s] : s \in found[w]}

SellersWanted(w) ==
  IF req[w].kind \in SellerKind THEN {SellerOf[p] : p \in ProductsWanted(w)}
  ELSE {}

Unlocked(w, rows) == {row \in rows : holder[row] # w}

\* The row the query locks next: one joined tuple after the other, in a tuple
\* the SKU, then its product, then its seller, then (update_product) the category.
NextRow(w) ==
  IF Unlocked(w, ProductsWanted(w)) # {} THEN Unlocked(w, ProductsWanted(w))
  ELSE IF Unlocked(w, SellersWanted(w)) # {} THEN Unlocked(w, SellersWanted(w))
  ELSE IF scan[w] # <<>> THEN {Head(scan[w])}
  ELSE {}

Locked(w) == NextRow(w) = {}

\* Mutant: the SKUs are read without select_for_update().
ReadSku(w) ==
  /\ pc[w] = "lock"
  /\ \E s \in NextRow(w) \intersect SkuId :
       /\ scan' = [scan EXCEPT ![w] = Tail(@)]
       /\ IF Live(s)
          THEN /\ found' = [found EXCEPT ![w] = @ \union {s}]
               /\ seenSku' = [seenSku EXCEPT ![w][s] = skuRow[s]]
          ELSE UNCHANGED <<found, seenSku>>
  /\ UNCHANGED <<tables, locks, req, seenProduct, decision, outbox, pc, reply, sent>>

LockSku(w) ==
  /\ pc[w] = "lock"
  /\ \E s \in NextRow(w) \intersect SkuId :
       /\ Free(w, s)
       /\ scan' = [scan EXCEPT ![w] = Tail(@)]
       /\ IF Live(s)
          THEN /\ holder' = [holder EXCEPT ![s] = w]
               /\ found' = [found EXCEPT ![w] = @ \union {s}]
               /\ seenSku' = [seenSku EXCEPT ![w][s] = skuRow[s]]
          ELSE UNCHANGED <<holder, found, seenSku>>   \* deleted while we waited
  /\ UNCHANGED <<tables, sharers, claim, req, seenProduct, decision, outbox,
                 pc, reply, sent>>

\* Mutant: the product is read without waiting for the transaction that holds it.
ReadProduct(w) ==
  /\ pc[w] = "lock"
  /\ \E p \in NextRow(w) \intersect ProductId :
       /\ holder' = [holder EXCEPT ![p] = w]
       /\ seenProduct' = IF req[w].kind = "delete_product" THEN seenProduct
                         ELSE [seenProduct EXCEPT ![w][p] = productRow[p]]
       /\ seenSku' = IF req[w].kind # "moderation" THEN seenSku
                     ELSE [seenSku EXCEPT ![w] =
                       [s \in SkuId |-> IF s \in SkusOf(p) THEN skuRow[s] ELSE @[s]]]
  /\ UNCHANGED <<tables, sharers, claim, req, scan, found, decision, outbox,
                 pc, reply, sent>>

\* The lock re-reads the row.  Two handlers differ: delete_product's UPDATE
\* keeps what an unlocked query read earlier, and the moderation handler
\* prefetches the product's SKUs once it has the product.
LockProduct(w) ==
  /\ pc[w] = "lock"
  /\ \E p \in NextRow(w) \intersect ProductId :
       /\ Free(w, p)
       /\ holder' = [holder EXCEPT ![p] = w]
       /\ seenProduct' = IF req[w].kind = "delete_product" THEN seenProduct
                         ELSE [seenProduct EXCEPT ![w][p] = productRow[p]]
       /\ seenSku' = IF req[w].kind # "moderation" THEN seenSku
                     ELSE [seenSku EXCEPT ![w] =
                       [s \in SkuId |-> IF s \in SkusOf(p) THEN skuRow[s] ELSE @[s]]]
  /\ UNCHANGED <<tables, sharers, claim, req, scan, found, decision, outbox,
                 pc, reply, sent>>

LockSeller(w) ==
  /\ pc[w] = "lock"
  /\ \E row \in NextRow(w) \intersect SellerId :
       Free(w, row) /\ holder' = [holder EXCEPT ![row] = w]
  /\ UNCHANGED <<tables, sharers, claim, session, pc, reply, sent>>

\* update_product's category.  If the product has left that category since the
\* query began, the joined tuple no longer matches when it is checked again: the
\* query returns nothing, and the answer is 404.
LockCategory(w) ==
  /\ pc[w] = "lock"
  /\ \E row \in NextRow(w) \intersect CategoryId :
       /\ Free(w, row)
       /\ \/ categoryOf[req[w].product] # row /\ Refuse(w, "refused")
          \/ /\ categoryOf[req[w].product] = row
             /\ holder' = [holder EXCEPT ![row] = w]
             /\ scan' = [scan EXCEPT ![w] = Tail(@)]
             /\ UNCHANGED <<tables, sharers, claim, req, found, seenSku, seenProduct,
                            decision, outbox, pc, reply, sent>>

\* The handler goes on with its rows locked, its new status decided and its
\* in-transaction events posted.
Decide(w, status, events, stage) ==
  /\ Go(w, stage)
  /\ decision' = [decision EXCEPT ![w] = status]
  /\ Post(events)
  /\ UNCHANGED <<tables, locks, req, scan, found, seenSku, seenProduct, outbox>>

-----------------------------------------------------------------------------
\* The unique indexes on Product.slug and Sku.article.

\* Rows w has updated or deleted and not committed: an UPDATE of any column, or a
\* DELETE, makes whoever writes the same name as the row's wait for its outcome.
Updated(w) ==
  (IF pc[w] \in {"insert", "write", "commit"} THEN found[w] ELSE {})
  \union
  (IF \/ At(w, "write", {"update_product"})
      \/ At(w, "commit", {"update_product", "delete_product", "moderation"})
      \/ /\ At(w, "commit", {"create_sku", "update_sku", "delete_sku"})
         /\ decision[w] # Product(w).status
      \/ At(w, "lock", {"delete_product"}) /\ holder[req[w].product] = w
   THEN {req[w].product} ELSE {})

\* v has written the name w is writing, or is changing the row that has it.
WaitsForName(w, v) ==
  /\ v # w /\ pc[w] = "write"
  /\ \/ pc[v] = "commit" /\ req[v].name = req[w].name
     \/ index[req[w].name] \in Updated(v)

Renamed(w) ==
  CASE req[w].kind = "update_sku"     -> found[w]
    [] req[w].kind = "update_product" -> {req[w].product}
    [] OTHER                          -> {}

NameTaken(w) == index[req[w].name] \notin {Nobody} \union Renamed(w)

\* A committed row gets the request's name, if there is one, and loses its own.
GiveName(w, row) ==
  index' = [name \in Name |->
    IF name = req[w].name THEN row
    ELSE IF index[name] = row /\ req[w].name # NoName THEN Nobody
    ELSE index[name]]

-----------------------------------------------------------------------------
\* Foreign keys are DEFERRABLE INITIALLY DEFERRED: COMMIT takes FOR KEY SHARE on
\* every row an inserted row, or a changed foreign key, refers to, and fails when
\* one is gone.

References(w) ==
  CASE req[w].kind = "invoice" -> {req[w].seller} \union req[w].skus
    [] req[w].kind = "create_product" -> {req[w].seller} \union req[w].category
    [] req[w].kind = "update_product" ->
         req[w].category \ {categoryOf[req[w].product]}
    [] req[w].kind = "moderation" /\ decision[w] # "MODERATED" ->
         {s \in req[w].reports \intersect SkusOf(req[w].product) :
            seenSku[w][s].state = "live"}
    [] OTHER -> {}

Unchecked(w) == {row \in References(w) : w \notin sharers[row]}

\* The invoice row was inserted before its items: its seller is checked first.
NextReference(w) ==
  IF req[w].kind = "invoice" /\ req[w].seller \in Unchecked(w) THEN {req[w].seller}
  ELSE Unchecked(w)

CheckReference(w) ==
  /\ pc[w] = "commit"
  /\ \E row \in NextReference(w) :
       /\ holder[row] \in {Nobody, w}
       /\ IF row \in SkuId /\ ~Live(row)
          THEN Refuse(w, "error")
          ELSE /\ sharers' = [sharers EXCEPT ![row] = @ \union {w}]
               /\ UNCHANGED <<tables, holder, claim, session, pc, reply, sent>>

Committing(w, kinds) == At(w, "commit", kinds) /\ Unchecked(w) = {}

-----------------------------------------------------------------------------
\* Who waits for whom, and the deadlock detector.

WaitsFor(w, v) ==
  /\ v # w
  /\ \/ /\ pc[w] = "lock"
        /\ \E row \in NextRow(w) : holder[row] = v \/ v \in sharers[row]
     \/ pc[w] = "insert" /\ claim[Op(w)] = v
     \/ pc[w] = "commit" /\ \E row \in NextReference(w) : holder[row] = v
     \/ WaitsForName(w, v)

Deadlocked(C) == C # {} /\ \A w \in C : \E v \in C : WaitsFor(w, v)
DeadlockCycle(C) == Deadlocked(C) /\ \A D \in SUBSET C : Deadlocked(D) => D = C

\* PostgreSQL aborts one member of a cycle: OperationalError, rollback, 500.
DeadlockVictim(w) ==
  /\ \E C \in SUBSET Worker : w \in C /\ DeadlockCycle(C)
  /\ Refuse(w, "error")

-----------------------------------------------------------------------------
\* A thread, its connection or its process dies: nothing it did stays unless it
\* has committed, and the events it had yet to post are never posted.
Crash(w) ==
  /\ pc[w] \notin {"idle", "answered"}
  /\ pc' = [pc EXCEPT ![w] = "idle"]
  /\ req' = [req EXCEPT ![w] = NoRequest]
  /\ outbox' = [outbox EXCEPT ![w] = {}]
  /\ ReleaseAll(w)
  /\ Forget(w)
  /\ UNCHANGED <<tables, reply, sent>>

\* The response leaves; the thread is free.
Return(w) ==
  /\ pc[w] = "answered"
  /\ pc' = [pc EXCEPT ![w] = "idle"]
  /\ req' = [req EXCEPT ![w] = NoRequest]
  /\ reply' = [reply EXCEPT ![w] = "none"]
  /\ UNCHANGED <<tables, locks, scan, found, seenSku, seenProduct, decision,
                 outbox, sent>>
=============================================================================
