---------------------------- MODULE StockLedger ----------------------------
(***************************************************************************)
(* What the B2B stock promises to its clients, with no transactions, locks *)
(* or workers in sight: every inventory operation is one atomic step that  *)
(* checks the stock as it is at that instant, moves the quantities and is   *)
(* applied at most once for its key.  Marketplace implements it.            *)
(***************************************************************************)
EXTENDS Integers

CONSTANTS SkuId, ProductId, Request, ProductOf, InitialSku, Row0

VARIABLES stock,     \* the quantities and the life of every SKU
          blocked,   \* the products moderation has blocked
          applied    \* the <<kind, key>> pairs already applied

ledger == <<stock, blocked, applied>>

Init ==
  /\ stock = InitialSku
  /\ blocked \in SUBSET ProductId
  /\ applied = {}

Move(r, dActive, dReserved) ==
  /\ stock' = [s \in SkuId |->
        IF s \in r.skus
        THEN [stock[s] EXCEPT !.active   = @ + dActive * r.qty[s],
                              !.reserved = @ + dReserved * r.qty[s]]
        ELSE stock[s]]
  /\ applied' = applied \union {<<r.kind, r.key>>}
  /\ UNCHANGED blocked

Fresh(r, kind) == r.kind = kind /\ <<r.kind, r.key>> \notin applied

\* Mutant: the available quantity is not checked.
ReservableBeyondStock(r) ==
  \A s \in r.skus : stock[s].state = "live" /\ ProductOf[s] \notin blocked

Reservable(r) ==
  \A s \in r.skus : /\ stock[s].state = "live"
                    /\ stock[s].active >= r.qty[s]
                    /\ ProductOf[s] \notin blocked

\* Nothing here knows which order reserved the units.
Returnable(r) ==
  \A s \in r.skus : stock[s].state = "live" /\ stock[s].reserved >= r.qty[s]

Reserve(r)   == Fresh(r, "reserve") /\ Reservable(r) /\ Move(r, -1, 1)
Unreserve(r) == Fresh(r, "unreserve") /\ Returnable(r) /\ Move(r, 1, -1)
Fulfill(r)   == Fresh(r, "fulfill") /\ Returnable(r) /\ Move(r, 0, -1)

\* A seller adds a SKU, with no stock, or removes one that nobody reserved;
\* either may also change what moderation thinks of the product.
Add(s) ==
  /\ stock[s].state = "unborn"
  /\ stock' = [stock EXCEPT ![s] = [Row0 EXCEPT !.state = "live"]]
  /\ blocked' \in SUBSET ProductId
  /\ UNCHANGED applied

\* Mutant: SkuHasReservesError is not raised.
RemoveReserved(s) ==
  /\ stock[s].state = "live"
  /\ stock' = [stock EXCEPT ![s] = [Row0 EXCEPT !.state = "deleted"]]
  /\ blocked' \in SUBSET ProductId
  /\ UNCHANGED applied

Remove(s) ==
  /\ stock[s].state = "live" /\ stock[s].reserved = 0
  /\ stock' = [stock EXCEPT ![s] = [Row0 EXCEPT !.state = "deleted"]]
  /\ blocked' \in SUBSET ProductId
  /\ UNCHANGED applied

Judge ==
  /\ blocked' \in SUBSET ProductId
  /\ UNCHANGED <<stock, applied>>

Next ==
  \/ \E r \in Request : Reserve(r) \/ Unreserve(r) \/ Fulfill(r)
  \/ \E s \in SkuId : Add(s) \/ Remove(s)
  \/ Judge

Spec == Init /\ [][Next]_ledger
=============================================================================
