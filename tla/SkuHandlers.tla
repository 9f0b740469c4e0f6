---------------------------- MODULE SkuHandlers ----------------------------
(***************************************************************************)
(* What a seller does to a SKU: create, update, delete.  Each is one        *)
(* transaction that locks the product (the SKU first, when there is one) and *)
(* its seller, and may send the product back to moderation.                  *)
(*   lock -> commit, or lock -> write -> commit when the article may be      *)
(*   another SKU's; the events are posted before the commit.                 *)
(***************************************************************************)
EXTENDS Storage

Event(type, p) == <<"moderation", type, p>>
SkuGone(s) == <<"b2c", "SKU_OUT_OF_STOCK", s, <<"delete_sku", s>>>>

Reviewed == {"MODERATED", "BLOCKED"}   \* an edit of these goes back to review

Forbidden(w) ==
  \/ SellerOf[req[w].product] # req[w].seller
  \/ Product(w).status = "HARD_BLOCKED"

\* A query made while the product is locked.
HasSkus(p) == \E s \in SkusOf(p) : Live(s)

\* What moderation is told when the product's status changes.
Announced(w, status) ==
  IF status = Product(w).status THEN {}
  ELSE {Event(IF Product(w).status = "CREATED" THEN "CREATED" ELSE "EDITED",
              req[w].product)}

\* The handler saves: at once, or as soon as the unique index lets it.
Save(w, status) ==
  IF req[w].name = NoName THEN Decide(w, status, Announced(w, status), "commit")
  ELSE Decide(w, status, {}, "write")

SaveEdit(w) ==
  Save(w, IF Product(w).status \in Reviewed THEN "ON_MODERATION" ELSE Product(w).status)

\* A new row has an id of its own, never used before.
Insertable(w) == \A s \in req[w].skus : skuRow[s].state = "unborn"

CreateSkuDecide(w) ==
  /\ At(w, "lock", {"create_sku"}) /\ Locked(w)
  /\ \/ Forbidden(w) /\ Refuse(w, "refused")
     \/ /\ ~Forbidden(w) /\ Insertable(w)
        /\ IF Product(w).status = "CREATED" /\ ~HasSkus(req[w].product)
           THEN Save(w, "ON_MODERATION")
           ELSE SaveEdit(w)

UpdateSkuDecide(w) ==
  /\ At(w, "lock", {"update_sku"}) /\ Locked(w)
  /\ \/ (found[w] = {} \/ Forbidden(w)) /\ Refuse(w, "refused")
     \/ found[w] # {} /\ ~Forbidden(w) /\ SaveEdit(w)

\* INSERT or UPDATE of a row with a unique name, a product's slug too: it waits for
\* the transactions that may take or leave the name, then it is done or it fails
\* (IntegrityError, which nobody catches); then moderation is told.
WriteName(w) ==
  /\ pc[w] = "write"
  /\ \A v \in Worker : ~WaitsForName(w, v)
  /\ \/ NameTaken(w) /\ Refuse(w, "error")
     \/ /\ ~NameTaken(w)
        /\ Decide(w, decision[w],
                  IF req[w].kind = "create_product" THEN {} ELSE Announced(w, decision[w]),
                  "commit")

\* Mutant: off by one, a product that keeps one SKU starts over too.
LastSkuButOne(w) ==
  Cardinality({s \in SkusOf(req[w].product) : Live(s)} \ found[w]) <= 1

LastSku(w) == SkusOf(req[w].product) \intersect {s \in SkuId : Live(s)} \subseteq found[w]

\* Reserves forbid the deletion (409), and so do invoice items (PROTECT, 500).
\* A product under review that loses its last SKU starts over.
DeleteSkuDecide(w) ==
  /\ At(w, "lock", {"delete_sku"}) /\ Locked(w)
  /\ LET kept == \E s \in found[w] : seenSku[w][s].reserved > 0
         gone == {SkuGone(s) : s \in {t \in found[w] :
                   seenSku[w][t].active > 0 /\ Product(w).status = "MODERATED"}}
     IN \/ (found[w] = {} \/ Forbidden(w) \/ kept) /\ Refuse(w, "refused")
        \/ /\ found[w] # {} /\ ~Forbidden(w) /\ ~kept
           /\ IF found[w] \intersect invoiced # {}
              THEN Refuse(w, "error")
              ELSE IF LastSku(w) /\ Product(w).status = "ON_MODERATION"
              THEN Decide(w, "CREATED", {Event("DELETED", req[w].product)}, "commit")
              ELSE Decide(w, Product(w).status, gone, "commit")

\* product.save(update_fields=["status", ...]).
SaveStatus(w) ==
  productRow' = [productRow EXCEPT ![req[w].product].status = decision[w]]

CommitCreateSku(w) ==
  /\ Committing(w, {"create_sku"})
  /\ skuRow' = [s \in SkuId |->
       IF s \in req[w].skus THEN [Row0 EXCEPT !.state = "live"] ELSE skuRow[s]]
  /\ \E s \in req[w].skus : GiveName(w, s)
  /\ SaveStatus(w)
  /\ Answer(w, "ok")
  /\ UNCHANGED <<reports, invoiced, ops, categoryOf, sent>>

\* sku.save() writes every column, the quantities included, as they were read; a
\* new article frees the old one.
CommitUpdateSku(w) ==
  /\ Committing(w, {"update_sku"})
  /\ skuRow' = [s \in SkuId |-> IF s \in found[w] THEN seenSku[w][s] ELSE skuRow[s]]
  /\ \E s \in req[w].skus : GiveName(w, s)
  /\ SaveStatus(w)
  /\ Answer(w, "ok")
  /\ UNCHANGED <<reports, invoiced, ops, categoryOf, sent>>

\* The SKU's field reports go with it (CASCADE), and its article is free.
CommitDeleteSku(w) ==
  /\ Committing(w, {"delete_sku"})
  /\ skuRow' = [s \in SkuId |->
       IF s \in found[w] THEN [Row0 EXCEPT !.state = "deleted"] ELSE skuRow[s]]
  /\ reports' = [p \in ProductId |-> reports[p] \ found[w]]
  /\ index' = [name \in Name |-> IF index[name] \in found[w] THEN Nobody ELSE index[name]]
  /\ SaveStatus(w)
  /\ Answer(w, "ok")
  /\ UNCHANGED <<invoiced, ops, categoryOf, sent>>

SkuStep(w) ==
  \/ CreateSkuDecide(w) \/ UpdateSkuDecide(w) \/ DeleteSkuDecide(w) \/ WriteName(w)
  \/ CommitCreateSku(w) \/ CommitUpdateSku(w) \/ CommitDeleteSku(w)
=============================================================================
