-------------------------- MODULE ProductLifecycle --------------------------
(***************************************************************************)
(* What happens to a product and its SKUs, one atomic step per request: its *)
(* seller adds, edits and removes SKUs, edits and deletes the product; the   *)
(* moderation service judges it; orders move the stock.  Marketplace         *)
(* implements these steps with transactions and locks; the read side         *)
(* (Catalog, ProductDetail) reads the tables they change.                    *)
(***************************************************************************)
EXTENDS Integers

CONSTANTS SkuId, ProductId, ProductOf, InitialSku, InitialProduct,
          Quantity,            \* what a quantity can be
          Row0, WholeProduct

VARIABLES sku, product, reports

shop == <<sku, product, reports>>

Reviewed == {"MODERATED", "BLOCKED"}
Verdict  == Reviewed \union {"HARD_BLOCKED"}

SkuRow == [state : {"unborn", "live", "deleted"}, active : Quantity, reserved : Quantity]

ProductRow == [status : Verdict \union {"CREATED", "ON_MODERATION"},
               deleted : BOOLEAN, reason : BOOLEAN]

\* The foreign key is a function, tables do not share ids; a product with SKUs has
\* been sent to moderation at least once.
ASSUME LifecycleAssumption ==
  /\ ProductOf \in [SkuId -> ProductId]
  /\ InitialSku \in [SkuId -> SkuRow] /\ Row0 \in SkuRow
  /\ InitialProduct \in [ProductId -> ProductRow]
  /\ SkuId \intersect ProductId = {} /\ WholeProduct \notin SkuId \union ProductId
  /\ \A s \in SkuId : InitialSku[s].state # "unborn" =>
      InitialProduct[ProductOf[s]].status # "CREATED"

Init ==
  /\ sku = InitialSku
  /\ product = InitialProduct
  /\ reports = [p \in ProductId |-> {}]

LiveSkus(p) == {s \in SkuId : ProductOf[s] = p /\ sku[s].state = "live"}

SetStatus(p, status) == product' = [product EXCEPT ![p].status = status]
Writable(p) == product[p].status # "HARD_BLOCKED"

\* A first SKU, or any change of what moderation has seen, sends it to review.
AddSku(s) ==
  LET owner == ProductOf[s] IN
  /\ sku[s].state = "unborn" /\ Writable(owner)
  /\ sku' = [sku EXCEPT ![s] = [Row0 EXCEPT !.state = "live"]]
  /\ SetStatus(owner, "ON_MODERATION")
  /\ UNCHANGED reports

Edit(p) ==
  /\ product[p].status \in Reviewed
  /\ SetStatus(p, "ON_MODERATION")
  /\ UNCHANGED <<sku, reports>>

\* Mutant: the reports about the SKU stay (on_delete=SET_NULL).
RemoveSkuKeepingReports(s) ==
  LET owner == ProductOf[s] IN
  /\ sku[s].state = "live" /\ sku[s].reserved = 0 /\ Writable(owner)
  /\ sku' = [sku EXCEPT ![s] = [Row0 EXCEPT !.state = "deleted"]]
  /\ SetStatus(owner,
       IF LiveSkus(owner) = {s} /\ product[owner].status = "ON_MODERATION"
       THEN "CREATED" ELSE product[owner].status)
  /\ UNCHANGED reports

\* A product that loses its last SKU while under review starts over.
RemoveSku(s) ==
  LET owner == ProductOf[s] IN
  /\ sku[s].state = "live" /\ sku[s].reserved = 0 /\ Writable(owner)
  /\ sku' = [sku EXCEPT ![s] = [Row0 EXCEPT !.state = "deleted"]]
  /\ reports' = [reports EXCEPT ![owner] = @ \ {s}]
  /\ SetStatus(owner,
       IF LiveSkus(owner) = {s} /\ product[owner].status = "ON_MODERATION"
       THEN "CREATED" ELSE product[owner].status)

\* Whatever the status is by now: the seller's request was let through earlier.
Delete(p) ==
  /\ product' = [product EXCEPT ![p].deleted = TRUE]
  /\ UNCHANGED <<sku, reports>>

\* A verdict brings its reports, about the product or its SKUs, and drops the old.
Judge(p, verdict, about) ==
  /\ about \subseteq LiveSkus(p) \union {WholeProduct}
  /\ verdict = "MODERATED" => about = {}
  /\ product' = [product EXCEPT ![p].status = verdict,
                                ![p].reason = verdict # "MODERATED"]
  /\ reports' = [reports EXCEPT ![p] = about]
  /\ UNCHANGED sku

\* Orders move units between the shelf and the baskets or out of the shop; no
\* request brings a unit in, so no quantity outgrows what the column held at first.
MoveStock ==
  /\ sku' \in [SkuId -> SkuRow]
  /\ \A s \in SkuId : /\ sku'[s].state = sku[s].state
                      /\ sku[s].state # "live" => sku'[s] = sku[s]
                      /\ sku'[s].active + sku'[s].reserved
                           <= sku[s].active + sku[s].reserved
  /\ UNCHANGED <<product, reports>>

\* An order with one SKU.
MoveUnits(s, n, m) ==
  sku' = [sku EXCEPT ![s].active = n, ![s].reserved = m] /\ MoveStock

Change ==
  \/ \E s \in SkuId : AddSku(s) \/ RemoveSku(s)
  \/ \E p \in ProductId : \/ Edit(p) \/ Delete(p)
                          \/ \E verdict \in Verdict,
                                about \in SUBSET (LiveSkus(p) \union {WholeProduct}) :
                               Judge(p, verdict, about)

Next == Change \/ MoveStock

Spec == Init /\ [][Next]_shop
=============================================================================
