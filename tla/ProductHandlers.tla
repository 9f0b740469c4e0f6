-------------------------- MODULE ProductHandlers --------------------------
(***************************************************************************)
(* What changes a product: its creation, its seller's update and delete, the *)
(* moderation service's verdict; and the invoices that depend on its status. *)
(*   create_product  write -> commit             (no row to lock)            *)
(*   update_product  lock -> commit, or lock -> write -> commit (a new slug)  *)
(*   delete_product  read -> lock -> commit      (the read takes no lock)    *)
(*   moderation      insert -> lock -> commit                                *)
(*   invoice         read -> commit              (no lock before the commit) *)
(***************************************************************************)
EXTENDS SkuHandlers

UpdateProductDecide(w) ==
  /\ At(w, "lock", {"update_product"}) /\ Locked(w)
  /\ \/ Forbidden(w) /\ Refuse(w, "refused")
     \/ ~Forbidden(w) /\ SaveEdit(w)

\* product.save() writes every column, `deleted' included, as it was read; slug and
\* category are those of the body, if it has them.
CommitUpdateProduct(w) ==
  /\ Committing(w, {"update_product"})
  /\ productRow' = [productRow EXCEPT
       ![req[w].product] = [Product(w) EXCEPT !.status = decision[w]]]
  /\ GiveName(w, req[w].product)
  /\ IF req[w].category = {} THEN UNCHANGED categoryOf
     ELSE \E c \in req[w].category :
            categoryOf' = [categoryOf EXCEPT ![req[w].product] = c]
  /\ Answer(w, "ok")
  /\ UNCHANGED <<skuRow, reports, invoiced, ops, sent>>

\* The new product is nobody's but its seller's until somebody lists it: what
\* concerns the others is its slug (its further life is that of a product).
CommitCreateProduct(w) ==
  /\ Committing(w, {"create_product"})
  /\ index' = [index EXCEPT ![req[w].name] = NewProduct]
  /\ Answer(w, "ok")
  /\ UNCHANGED <<skuRow, productRow, reports, invoiced, ops, categoryOf, sent>>

-----------------------------------------------------------------------------
\* delete_product reads the product without a lock and decides from that.
DeleteProductRead(w) ==
  /\ At(w, "read", {"delete_product"})
  /\ LET row == productRow[req[w].product]
         refused == \/ SellerOf[req[w].product] # req[w].seller
                    \/ row.deleted
                    \/ row.status = "HARD_BLOCKED"
     IN \/ refused /\ Refuse(w, "refused")
        \/ /\ ~refused
           /\ seenProduct' = [seenProduct EXCEPT ![w][req[w].product] = row]
           /\ Go(w, "lock")
           /\ UNCHANGED <<tables, locks, req, scan, found, seenSku, decision,
                          outbox, sent>>

\* The UPDATE has the row; then both peers are told.
DeleteProductPost(w) ==
  /\ At(w, "lock", {"delete_product"}) /\ Locked(w)
  /\ Decide(w, Undecided, {Event("DELETED", req[w].product),
                           <<"b2c", "PRODUCT_DELETED", req[w].product>>}, "commit")

CommitDeleteProduct(w) ==
  /\ Committing(w, {"delete_product"})
  /\ productRow' = [productRow EXCEPT ![req[w].product].deleted = TRUE]
  /\ Answer(w, "ok")
  /\ UNCHANGED <<skuRow, reports, invoiced, ops, index, categoryOf, sent>>

-----------------------------------------------------------------------------
\* Mutant: no check of an earlier delivery.
InsertAnyEvent(w) ==
  /\ At(w, "insert", {"moderation"})
  /\ claim[Op(w)] = Nobody
  /\ claim' = [claim EXCEPT ![Op(w)] = w]
  /\ Go(w, "lock")
  /\ UNCHANGED <<tables, holder, sharers, session, sent>>

\* The verdict's idempotency key is inserted in a savepoint; a duplicate is
\* answered {"processed": false}.
InsertProcessedEvent(w) ==
  /\ At(w, "insert", {"moderation"})
  /\ claim[Op(w)] = Nobody
  /\ \/ Op(w) \in ops /\ Refuse(w, "replay")
     \/ /\ Op(w) \notin ops
        /\ claim' = [claim EXCEPT ![Op(w)] = w]
        /\ Go(w, "lock")
        /\ UNCHANGED <<tables, holder, sharers, session, sent>>

Blocking(w) == req[w].verdict # "MODERATED"

\* The SKUs PRODUCT_BLOCKED lists: those B2C may still be selling.
BlockedListing(w) ==
  {s \in SkusOf(req[w].product) :
     seenSku[w][s].state = "live" /\ seenSku[w][s].active > 0}

\* Whatever the product's status is now, the verdict becomes its status.
ModerationDecide(w) ==
  /\ At(w, "lock", {"moderation"}) /\ Locked(w)
  /\ Decide(w, req[w].verdict,
            IF Blocking(w) /\ BlockedListing(w) # {}
            THEN {<<"b2c", "PRODUCT_BLOCKED", req[w].product>>} ELSE {},
            "commit")

\* A report about a SKU the product does not have is kept without its SKU.
ReportsOf(w) ==
  {IF s \in SkusOf(req[w].product) /\ seenSku[w][s].state = "live"
   THEN s ELSE WholeProduct : s \in req[w].reports \intersect SkuId}
  \union (req[w].reports \intersect {WholeProduct})

\* Mutant: the verdict MODERATED does not remove the field reports.
CommitModerationKeepingReports(w) ==
  /\ Committing(w, {"moderation"})
  /\ productRow' = [productRow EXCEPT
       ![req[w].product].status = decision[w],
       ![req[w].product].reason = Blocking(w)]
  /\ reports' = [reports EXCEPT
       ![req[w].product] = IF Blocking(w) THEN ReportsOf(w) ELSE @]
  /\ ops' = ops \union {Op(w)}
  /\ Answer(w, "ok")
  /\ UNCHANGED <<skuRow, invoiced, index, categoryOf, sent>>

CommitModeration(w) ==
  /\ Committing(w, {"moderation"})
  /\ productRow' = [productRow EXCEPT
       ![req[w].product].status = decision[w],
       ![req[w].product].reason = Blocking(w)]
  /\ reports' = [reports EXCEPT
       ![req[w].product] = IF Blocking(w) THEN ReportsOf(w) ELSE {}]
  /\ ops' = ops \union {Op(w)}
  /\ Answer(w, "ok")
  /\ UNCHANGED <<skuRow, invoiced, index, categoryOf, sent>>

-----------------------------------------------------------------------------
\* One unlocked query reads the SKUs with their products and sellers.
InvoiceRead(w) ==
  /\ At(w, "read", {"invoice"})
  /\ LET accepted == \A s \in req[w].skus :
           /\ Live(s)
           /\ SellerOf[ProductOf[s]] = req[w].seller
           /\ productRow[ProductOf[s]].status = "MODERATED"
     IN \/ ~accepted /\ Refuse(w, "refused")
        \/ accepted /\ Decide(w, Undecided, {}, "commit")

CommitInvoice(w) ==
  /\ Committing(w, {"invoice"})
  /\ invoiced' = invoiced \union req[w].skus
  /\ Answer(w, "ok")
  /\ UNCHANGED <<skuRow, productRow, reports, ops, index, categoryOf, sent>>

ProductStep(w) ==
  \/ UpdateProductDecide(w) \/ CommitUpdateProduct(w) \/ CommitCreateProduct(w)
  \/ DeleteProductRead(w) \/ DeleteProductPost(w) \/ CommitDeleteProduct(w)
  \/ InsertProcessedEvent(w) \/ ModerationDecide(w) \/ CommitModeration(w)
  \/ InvoiceRead(w) \/ CommitInvoice(w)
=============================================================================
