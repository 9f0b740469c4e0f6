------------------------------- MODULE Catalog -------------------------------
(***************************************************************************)
(* GET /products: B2C walks the catalog, or a seller the list of their own   *)
(* products, page after page by limit and offset.  Every page is three       *)
(* queries (the count, the page, the prefetched SKUs) with no transaction    *)
(* around them, so the shop changes between any two of them.                 *)
(***************************************************************************)
EXTENDS Visibility, FiniteSetsExt, SequencesExt

CONSTANTS
  Queries,             \* requests: [mode, sort, limit], of a seller's list also the
                       \* statuses asked for and include_deleted
  Asked,               \* the products that the fixed part of the filter lets
                       \* through: the seller's own, the ids B2C names
  InitialSelected,     \* ... and the part an edit may change: category and search
  Unborn,              \* products to be created during the walk
  CreatedAt, InitialPrice, Prices,
  MaxWrites            \* bound: commits of other requests during one walk

VARIABLES
  price,               \* of each SKU
  selected,            \* products with the category and the words asked for
  unborn,              \* products that do not exist yet
  query, step, offset, total,
  page,                \* what the page query returned
  answers,             \* the items of all the pages so far
  touched,             \* products whose SKUs changed since the page query
  constant,            \* products that matched at every instant of the walk
  changes,             \* what the commits of others did to the result
  writes

walker  == <<query, step, offset, total, page, answers>>
history == <<touched, constant, changes, writes>>
data    == <<shop, price, selected, unborn>>
walk    == <<data, walker, history>>

NoPrice == -1

\* created_at tells any two products apart; prices are whole kopecks, none negative.
ASSUME CatalogAssumption ==
  /\ IsFiniteSet(ProductId) /\ Asked \subseteq ProductId /\ Unborn \subseteq ProductId
  /\ InitialSelected \subseteq ProductId \ Unborn
  /\ \A s \in SkuId : ProductOf[s] \in Unborn => InitialSku[s].state = "unborn"
  /\ \A p \in Unborn : InitialProduct[p].status = "CREATED" /\ ~InitialProduct[p].deleted
  /\ CreatedAt \in [ProductId -> Nat]
  /\ \A p, q \in ProductId : p # q => CreatedAt[p] # CreatedAt[q]
  /\ InitialPrice \in [SkuId -> Nat] /\ Prices \subseteq Nat
  /\ \A request \in Queries : request.limit \in Int

-----------------------------------------------------------------------------
\* The queries.

Listed(p) ==
  product[p].status \in query.statuses /\ (query.includeDeleted \/ ~product[p].deleted)

Matching ==
  {p \in Asked : p \in selected /\ IF query.mode = "catalog" THEN VisibleInCatalog(p) ELSE Listed(p)}

Cheapest(skus) == IF skus = {} THEN NoPrice ELSE Min({price[s] : s \in skus})

\* Mutant: Min("skus__price") without the filter on the quantity.
MinOfAllPrices(p) == Cheapest(LiveSkus(p))

\* The annotation the catalog is sorted by.
MinVisiblePrice(p) == Cheapest(Sellable(p))

\* The min_price an item shows: of the SKUs on the shelf, or of all for the seller.
ShownPrice(p) ==
  Cheapest(IF query.mode = "catalog" THEN Sellable(p) ELSE LiveSkus(p))

Before(p, q) ==
  LET newer == CreatedAt[p] > CreatedAt[q]
      x == MinVisiblePrice(p)  y == MinVisiblePrice(q)
  IN CASE query.sort = "price_asc"  -> x < y \/ (x = y /\ newer)
       [] query.sort = "price_desc" -> x > y \/ (x = y /\ newer)
       [] OTHER -> newer

\* All the matching products, in order.
Result ==
  CHOOSE rows \in SetToSeqs(Matching) :
    \A i, j \in 1..Cardinality(Matching) : i < j => Before(rows[i], rows[j])

Slice(rows, from, count) ==
  SubSeq(rows, from + 1, Min({from + count, Len(rows)}))

\* Mutant: the slice is one row too long.
LongPage == Slice(Result, offset, query.limit + 1)

\* Mutant: no ORDER BY, so two queries may use two orders.
UnorderedPage == Slice(IF offset = 0 THEN Result ELSE Reverse(Result), offset, query.limit)

PageRows == Slice(Result, offset, query.limit)

ValidPagination == query.limit \in 1..100 /\ offset >= 0

-----------------------------------------------------------------------------
CatalogInit ==
  /\ Init
  /\ price = InitialPrice /\ selected = InitialSelected /\ unborn = Unborn
  /\ query \in Queries
  /\ step = "count" /\ offset = 0 /\ total = 0
  /\ page = <<>> /\ answers = <<>>
  /\ touched = {} /\ constant = Matching /\ changes = {} /\ writes = 0

\* An invalid limit or offset is refused before any query.
CountRows ==
  /\ step = "count"
  /\ IF ValidPagination
     THEN step' = "page" /\ total' = Cardinality(Matching)
     ELSE step' = "done" /\ UNCHANGED total
  /\ UNCHANGED <<data, query, offset, page, answers, history>>

FetchPage ==
  /\ step = "page"
  /\ page' = [i \in DOMAIN PageRows |->
                [product |-> PageRows[i], sortedBy |-> MinVisiblePrice(PageRows[i])]]
  /\ step' = "skus"
  /\ touched' = {}
  /\ UNCHANGED <<data, query, offset, total, answers, constant, changes, writes>>

\* The SKUs of the page's products complete the answer; the client asks for the
\* next page as long as total_count says there is one.
FetchSkus ==
  /\ step = "skus"
  /\ answers' = answers \o
       [i \in DOMAIN page |->
          [product |-> page[i].product, minPrice |-> ShownPrice(page[i].product),
           sortedBy |-> page[i].sortedBy, stale |-> page[i].product \in touched]]
  /\ IF offset + query.limit < total
     THEN step' = "count" /\ offset' = offset + query.limit
     ELSE step' = "done" /\ UNCHANGED offset
  /\ UNCHANGED <<data, query, total, page, history>>

-----------------------------------------------------------------------------
\* The commits of other requests between two queries.

Edited(p) == Edit(p) \/ (product[p].status \notin Reviewed /\ UNCHANGED shop)

\* A price goes with the SKU's update, which sends the product to review.
PriceSku(s, x) ==
  /\ sku[s].state = "live" /\ Writable(ProductOf[s])
  /\ Edited(ProductOf[s])
  /\ price' = [price EXCEPT ![s] = x]
  /\ UNCHANGED <<selected, unborn>>

\* A product appears: created_at is its INSERT's, so not always at the head.
CreateProduct(p) ==
  /\ p \in unborn
  /\ unborn' = unborn \ {p}
  /\ selected' \in {selected, selected \union {p}}
  /\ UNCHANGED <<shop, price>>

\* update_product, with or without SKUs: title, description and category are what
\* search and category look at.
UpdateProduct(p) ==
  /\ p \notin unborn /\ Writable(p)
  /\ Edited(p)
  /\ selected' \in {selected \ {p}, selected \union {p}}
  /\ UNCHANGED <<price, unborn>>

Commit ==
  \/ \E s \in SkuId, x \in Prices : PriceSku(s, x)
  \/ \E p \in ProductId : CreateProduct(p) \/ UpdateProduct(p)
  \/ /\ UNCHANGED <<price, selected, unborn>>
     /\ \/ \E s \in SkuId : \/ ProductOf[s] \notin unborn /\ AddSku(s)
                            \/ RemoveSku(s)
        \/ \E s \in SkuId, n, m \in Quantity : MoveUnits(s, n, m)
        \/ \E p \in ProductId \ unborn :
             \/ Delete(p)
             \/ \E verdict \in Verdict : Judge(p, verdict, {})

Reordered ==
  \E p, q \in Matching \intersect Matching' : Before(p, q) /\ ~Before(p, q)'

\* What a commit does to the rows a later query will number: "late" is an arrival
\* that the count of the page being read has missed.
Changes ==
  LET arrival   == Matching' \ Matching # {} \/ Reordered
      departure == Matching \ Matching' # {} \/ Reordered
  IN {c \in {"arrival", "departure", "late"} :
        \/ c = "arrival" /\ arrival
        \/ c = "departure" /\ departure
        \/ c = "late" /\ arrival /\ step = "page"}

Disturbed(p) == \E s \in SkuId : ProductOf[s] = p /\ (sku'[s] # sku[s] \/ price'[s] # price[s])

CommitOfOthers ==
  /\ step # "done" /\ writes < MaxWrites
  /\ Commit
  /\ UNCHANGED walker
  /\ <<sku, product, price, selected, unborn>>' # <<sku, product, price, selected, unborn>>
  /\ writes' = writes + 1
  /\ constant' = constant \intersect Matching'
  /\ changes' = changes \union Changes
  /\ touched' = touched \union {p \in ProductId : Disturbed(p)}

CatalogNext == CountRows \/ FetchPage \/ FetchSkus \/ CommitOfOthers

CatalogSpec == CatalogInit /\ [][CatalogNext]_walk

-----------------------------------------------------------------------------
CatalogTypeOK ==
  /\ price \in [SkuId -> Nat]
  /\ selected \subseteq ProductId \ unborn
  /\ step \in {"count", "page", "skus", "done"}
  /\ offset \in Nat /\ total \in 0..Cardinality(Asked)
  /\ page = <<>> \/ Len(page) <= query.limit
  /\ constant \subseteq Asked
  /\ changes \subseteq {"arrival", "departure", "late"}

Seen == {answers[i].product : i \in DOMAIN answers}

\* A walk misses a product that matched all the time only when others left the
\* result (or moved in it), so that its row slid to a page already read, or when
\* one arrived between the count and the page it belongs to, so that the client
\* stopped a page early.  Arrivals at any other moment never hide a product.
MissesExplained ==
  step = "done" /\ ValidPagination /\ ~(constant \subseteq Seen) =>
    changes \intersect {"departure", "late"} # {}

\* A walk shows a product twice only when others arrived or moved.
RepeatsExplained ==
  Cardinality(Seen) < Len(answers) => "arrival" \in changes

\* The min_price a catalog item shows is the one the page is sorted by, and there
\* is one, unless the product's SKUs changed between the two queries; the two are
\* computed by separate code (the annotation and the serializer).
ShownAsSorted ==
  query.mode = "catalog" =>
    \A i \in DOMAIN answers :
      ~answers[i].stale =>
        answers[i].minPrice = answers[i].sortedBy /\ answers[i].minPrice # NoPrice

\* The pages of a walk that no arrival, departure or move disturbs are together
\* the matching products, each once and in order.
UndisturbedWalkComplete ==
  step = "done" /\ ValidPagination /\ changes = {} =>
    [i \in DOMAIN answers |-> answers[i].product] = Result
=============================================================================
