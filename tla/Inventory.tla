----------------------------- MODULE Inventory -----------------------------
(***************************************************************************)
(* ReserveService: reserve, unreserve and fulfill, each one transaction.     *)
(*   reserve    lookup -> lock -> insert -> commit -> notify                 *)
(*   unreserve  lookup -> lock -> insert -> commit                           *)
(*   fulfill    insert -> lock -> commit                                     *)
(* The operation row is the memory of what was done: its primary key is the  *)
(* idempotency key (reserve) or the order id (unreserve, fulfill).           *)
(***************************************************************************)
EXTENDS Storage

Recorded(w) == Op(w) \in ops

\* reserve and unreserve begin with an unlocked SELECT of the operation.
LookUpOperation(w) ==
  /\ At(w, "lookup", {"reserve", "unreserve"})
  /\ \/ Recorded(w) /\ Refuse(w, "replay")
     \/ /\ ~Recorded(w)
        /\ StartQuery(w, req[w])
        /\ UNCHANGED <<tables, locks, req, found, seenSku, seenProduct, decision,
                       outbox, sent>>

ProductBlocked(w, s) ==
  seenProduct[w][ProductOf[s]].status \in {"BLOCKED", "HARD_BLOCKED"}

\* Mutant: reserve does not look at the product's status.
ReserveWhateverStatus(w) ==
  {s \in req[w].skus : s \notin found[w] \/ seenSku[w][s].active < req[w].qty[s]}

ReserveFailures(w) ==
  {s \in req[w].skus : \/ s \notin found[w]
                       \/ ProductBlocked(w, s)
                       \/ seenSku[w][s].active < req[w].qty[s]}

\* Mutant: unreserve and fulfill trust the client's quantities.
ReturnUnchecked(w) == {s \in req[w].skus : s \notin found[w]}

\* The same test serves unreserve and fulfill (_get_unreserve_failures and
\* _get_fulfill_failures are the same code); it knows nothing of the order.
ReturnFailures(w) ==
  {s \in req[w].skus : \/ s \notin found[w]
                       \/ seenSku[w][s].reserved < req[w].qty[s]}

Conflict(w, failures) == failures # {} /\ Refuse(w, "refused")

\* Mutant: SKU_OUT_OF_STOCK is posted inside the transaction.
ReserveTellingEarly(w) ==
  /\ At(w, "lock", {"reserve"}) /\ Locked(w)
  /\ \/ Conflict(w, ReserveFailures(w))
     \/ /\ ReserveFailures(w) = {}
        /\ Decide(w, Undecided,
                  {<<"b2c", "SKU_OUT_OF_STOCK", s, Op(w)>> : s \in
                     {t \in req[w].skus : seenSku[w][t].active = req[w].qty[t]}},
                  "insert")

ReserveDecide(w) ==
  /\ At(w, "lock", {"reserve"}) /\ Locked(w)
  /\ \/ Conflict(w, ReserveFailures(w))
     \/ ReserveFailures(w) = {} /\ Decide(w, Undecided, {}, "insert")

UnreserveDecide(w) ==
  /\ At(w, "lock", {"unreserve"}) /\ Locked(w)
  /\ \/ Conflict(w, ReturnFailures(w))
     \/ ReturnFailures(w) = {} /\ Decide(w, Undecided, {}, "insert")

FulfillDecide(w) ==
  /\ At(w, "lock", {"fulfill"}) /\ Locked(w)
  /\ \/ Conflict(w, ReturnFailures(w))
     \/ ReturnFailures(w) = {} /\ Decide(w, Undecided, {}, "commit")

\* Mutant: the insert ignores a conflict.
InsertIgnoringConflict(w) ==
  /\ At(w, "insert", {"reserve", "unreserve"})
  /\ claim[Op(w)] = Nobody
  /\ claim' = [claim EXCEPT ![Op(w)] = w]
  /\ Go(w, "commit")
  /\ UNCHANGED <<tables, holder, sharers, session, sent>>

\* objects.create(): waits while another transaction holds the same key, then
\* raises IntegrityError if that one committed; nobody catches it here.
InsertOperation(w) ==
  /\ At(w, "insert", {"reserve", "unreserve"})
  /\ claim[Op(w)] = Nobody
  /\ \/ Recorded(w) /\ Refuse(w, "error")
     \/ /\ ~Recorded(w)
        /\ claim' = [claim EXCEPT ![Op(w)] = w]
        /\ Go(w, "commit")
        /\ UNCHANGED <<tables, holder, sharers, session, sent>>

\* Mutant: create() instead of get_or_create().
FulfillCreate(w) ==
  /\ At(w, "insert", {"fulfill"})
  /\ claim[Op(w)] = Nobody
  /\ \/ Recorded(w) /\ Refuse(w, "error")
     \/ /\ ~Recorded(w)
        /\ claim' = [claim EXCEPT ![Op(w)] = w]
        /\ StartQuery(w, req[w])
        /\ UNCHANGED <<tables, holder, sharers, req, found, seenSku, seenProduct,
                       decision, outbox, sent>>

\* get_or_create(): the same wait, but a committed row is returned.
FulfillGetOrCreate(w) ==
  /\ At(w, "insert", {"fulfill"})
  /\ claim[Op(w)] = Nobody
  /\ \/ Recorded(w) /\ Refuse(w, "replay")
     \/ /\ ~Recorded(w)
        /\ claim' = [claim EXCEPT ![Op(w)] = w]
        /\ StartQuery(w, req[w])
        /\ UNCHANGED <<tables, holder, sharers, req, found, seenSku, seenProduct,
                       decision, outbox, sent>>

\* save(update_fields=[...]): only the named columns, from what was read.
SaveQuantities(w, dActive, dReserved) ==
  /\ skuRow' = [s \in SkuId |->
       IF s \in req[w].skus
       THEN [skuRow[s] EXCEPT
               !.active   = seenSku[w][s].active + dActive * req[w].qty[s],
               !.reserved = seenSku[w][s].reserved + dReserved * req[w].qty[s]]
       ELSE skuRow[s]]
  /\ ops' = ops \union {Op(w)}
  /\ UNCHANGED <<productRow, reports, invoiced, index, categoryOf, sent>>

SoldOut(w) == {s \in req[w].skus : seenSku[w][s].active = req[w].qty[s]}
\* The event, with the operation it tells of.
OutOfStock(s, op) == <<"b2c", "SKU_OUT_OF_STOCK", s, op>>

CommitReserve(w) ==
  /\ Committing(w, {"reserve"})
  /\ SaveQuantities(w, -1, 1)
  /\ \/ SoldOut(w) = {} /\ Answer(w, "ok")
     \/ /\ SoldOut(w) # {}
        /\ Go(w, "notify")
        /\ outbox' = [outbox EXCEPT ![w] = {OutOfStock(s, Op(w)) : s \in SoldOut(w)}]
        /\ ReleaseAll(w)
        /\ Forget(w)
        /\ UNCHANGED req

\* transaction.on_commit: posted after the locks are gone.
NotifySoldOut(w) ==
  /\ At(w, "notify", {"reserve"})
  /\ Post(outbox[w])
  /\ Answer(w, "ok")
  /\ UNCHANGED tables

CommitUnreserve(w) ==
  Committing(w, {"unreserve"}) /\ SaveQuantities(w, 1, -1) /\ Answer(w, "ok")

CommitFulfill(w) ==
  Committing(w, {"fulfill"}) /\ SaveQuantities(w, 0, -1) /\ Answer(w, "ok")

InventoryStep(w) ==
  \/ LookUpOperation(w) \/ InsertOperation(w) \/ FulfillGetOrCreate(w)
  \/ ReserveDecide(w) \/ UnreserveDecide(w) \/ FulfillDecide(w)
  \/ CommitReserve(w) \/ NotifySoldOut(w) \/ CommitUnreserve(w) \/ CommitFulfill(w)
=============================================================================
