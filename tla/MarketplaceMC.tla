--------------------------- MODULE MarketplaceMC ---------------------------
(***************************************************************************)
(* Small worlds for TLC: at most three SKUs of one or two products, two or   *)
(* three threads, and for each question the requests that can answer it.     *)
(***************************************************************************)
EXTENDS Marketplace, RequestItems, TLC

CONSTANTS a, b, n,         \* SKUs of p; n is not created yet
          c,               \* a SKU of q
          p, q,            \* products
          own, other,      \* sellers; own has both products, or each has one
          c1, c2,          \* categories
          old, new,        \* slugs: p's, and nobody's
          code,            \* the article of a
          k1, k2, k3       \* idempotency keys and order ids

ThreadSymmetry == Permutations(Worker)

MCProductOf == [s \in SkuId |-> IF s = c THEN q ELSE p]
MCSellerOf  == [x \in ProductId |-> own]
TwoSellers  == [x \in ProductId |-> IF x = p THEN own ELSE other]

\* Two units of each, no reserves yet.
Stocked == [s \in SkuId |->
  IF s = n THEN Row0 ELSE [state |-> "live", active |-> 2, reserved |-> 0]]
\* A unit of each on the shelf and one in somebody's basket.
HalfReserved == [s \in SkuId |->
  IF s = n THEN Row0 ELSE [state |-> "live", active |-> 1, reserved |-> 1]]
NoSkus == [s \in SkuId |-> Row0]

Products(status) ==
  [x \in ProductId |-> [status |-> status, deleted |-> FALSE, reason |-> FALSE]]
OnSale == Products("MODERATED")
New    == Products("CREATED")

MCCategory == [x \in ProductId |-> IF x = p THEN c1 ELSE c2]
MCIndex == [name \in Name |-> CASE name = old -> p [] name = code -> a [] OTHER -> Nobody]

-----------------------------------------------------------------------------
Template == [kind |-> "reserve", key |-> k1, skus |-> {}, qty |-> [s \in SkuId |-> 0],
             product |-> p, seller |-> own, verdict |-> "MODERATED", reports |-> {},
             name |-> NoName, category |-> {}]

Order(kind, key, items) ==
  [Template EXCEPT !.kind = kind, !.key = key,
                   !.skus = RequestedSkus(items), !.qty = CollapseItems(items, SkuId)]
Item(s, quantity) == [sku |-> s, quantity |-> quantity]

SellerSku(kind, s) ==
  [Template EXCEPT !.kind = kind, !.skus = {s}, !.product = MCProductOf[s]]
SellerProduct(kind) == [Template EXCEPT !.kind = kind]
ByStranger(r) == [r EXCEPT !.seller = other]
Judgement(key, verdict, about) ==
  [Template EXCEPT !.kind = "moderation", !.key = key, !.verdict = verdict,
                   !.reports = about]
InvoiceFor(skus) == [Template EXCEPT !.kind = "invoice", !.skus = skus]

ReserveA     == Order("reserve", k1, <<Item(a, 1), Item(a, 1)>>)
ReserveBoth  == Order("reserve", k2, <<Item(b, 1), Item(a, 1)>>)
ReserveOneA  == Order("reserve", k3, <<Item(a, 1)>>)
UnreserveA   == Order("unreserve", k1, <<Item(a, 1)>>)
FulfillA     == Order("fulfill", k1, <<Item(a, 1)>>)

\* Orders with one SKU and with two, on two lines or one, and a verdict whose
\* reports are checked against the SKUs at COMMIT.
OrderRequests ==
  {ReserveA, ReserveBoth, UnreserveA, FulfillA, Judgement(k1, "BLOCKED", {a})}
RetryRequests == {ReserveA, ReserveOneA, FulfillA}

\* Orders against sellers and moderation, on the same SKU.
ShelfRequests ==
  {ReserveOneA, FulfillA, SellerSku("update_sku", a), SellerSku("delete_sku", a),
   SellerSku("create_sku", n), Judgement(k2, "BLOCKED", {a})}

\* The life of a product that starts without SKUs.
ReviewRequests ==
  {SellerSku("create_sku", a), SellerSku("create_sku", n),
   SellerSku("update_sku", a), SellerSku("delete_sku", a),
   SellerSku("delete_sku", n), ByStranger(SellerSku("update_sku", a)),
   Judgement(k1, "MODERATED", {}), Judgement(k2, "BLOCKED", {a, WholeProduct})}

\* Verdicts against the two product handlers.
VerdictRequests ==
  {SellerProduct("update_product"), SellerProduct("delete_product"),
   ByStranger(SellerProduct("delete_product")), SellerSku("update_sku", a),
   Judgement(k1, "HARD_BLOCKED", {b}), Judgement(k2, "MODERATED", {}),
   Judgement(k3, "BLOCKED", {c})}

\* The product handlers with what the unique index and the foreign keys check.
Naming(r, name) == [r EXCEPT !.name = name]
Moving(r, category) == [r EXCEPT !.category = {category}]
NewIn(category, name) ==
  Moving(Naming(SellerProduct("create_product"), name), category)

MovesP == Moving(Naming(SellerProduct("update_product"), new), c2)
MovesQ == Moving([SellerProduct("update_product") EXCEPT !.product = q, !.seller = other], c1)

\* One request of every shape that locks differently, the tangled ones last.
LockRequests ==
  {FulfillA, SellerSku("delete_sku", a), SellerProduct("update_product")}
  \union
  {ReserveBoth, Naming(SellerSku("update_sku", b), code), MovesP, MovesQ, NewIn(c1, new),
   InvoiceFor({a}), Judgement(k1, "BLOCKED", {a})}

\* Where only locks are in question: no guard reads `sent', so every event is lost,
\* and of the SKUs and products only those in Changeable have been changed by those who
\* have committed.
Written == {s \in SkuId : skuRow[s] # InitialSku[s]}
           \union {x \in ProductId : productRow[x] # InitialProduct[x]}
Changeable == {q}
FewWrites == sent = {} /\ Written \subseteq Changeable

InvoiceRequests ==
  {InvoiceFor({a}), SellerSku("update_sku", a), Judgement(k2, "MODERATED", {})}
=============================================================================
