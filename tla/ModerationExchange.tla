------------------------- MODULE ModerationExchange -------------------------
(***************************************************************************)
(* The review of products, between this service and the moderation service.  *)
(* A seller's request locks the product, writes, posts its event and only    *)
(* then commits; the post is tried once, for three seconds.  The moderation   *)
(* service (external) queues the products it is told of, reads the product    *)
(* back by GET /products/{id} and sends its verdict until it is acknowledged. *)
(***************************************************************************)
EXTENDS ProductLifecycle, FiniteSets

CONSTANTS
  Idle,
  MaxVersion,        \* bound: how often a content changes
  MaxFaults          \* bound: posts lost or late and transactions rolled back

VARIABLES
  version,           \* of a product's committed content
  judged,            \* the version the last verdict was about
  open,              \* the seller's transaction on a product, its event posted
  late,              \* events whose post timed out and that still arrive
  queue,             \* products the peer has to review
  reading,           \* the version the peer has read (0: none)
  verdicts,          \* verdicts on their way: <<product, verdict, version>>
  keys,              \* idempotency keys the peer has seen
  deduplicates,      \* whether the peer skips those
  mishaps,           \* what went wrong since a product was last sent to review
  faults             \* posts lost or late and transactions rolled back so far

peer     == <<queue, reading, keys, deduplicates>>
exchange == <<shop, version, judged, open, late, peer, verdicts, mishaps, faults>>

Op     == {"add", "edit", "remove", "delete"}
Mishap == {"lost", "late", "duplicate", "rolled back", "silent edit",
           "read before commit", "crossed verdict"}

Transaction == [op : Op, sku : SkuId, event : {"none", "CREATED", "EDITED", "DELETED"},
                mishaps : SUBSET Mishap]

ASSUME ExchangeAssumption ==
  /\ MaxVersion \in Nat \ {0} /\ MaxFaults \in Nat
  /\ Idle \notin Transaction

Key(p, type) == <<p, type>>     \* uuid5(product:type), the same for every edit

ExchangeInit ==
  /\ Init
  /\ version = [p \in ProductId |-> 1] /\ judged = [p \in ProductId |-> 1]
  /\ open = [p \in ProductId |-> Idle]
  /\ late = {} /\ queue = {} /\ reading = [p \in ProductId |-> 0]
  /\ verdicts = {} /\ keys = {} /\ deduplicates \in BOOLEAN
  /\ mishaps = [p \in ProductId |-> {}] /\ faults = 0

-----------------------------------------------------------------------------
\* The moderation service.

\* A product told of is reviewed (again); a deleted one is taken off the queue.
Handle(event) ==
  IF deduplicates /\ event \in keys
  THEN UNCHANGED peer
  ELSE /\ UNCHANGED deduplicates
       /\ keys' = keys \union {event}
       /\ queue' = IF event[2] = "DELETED" THEN queue \ {event[1]} ELSE queue \union {event[1]}
       /\ reading' = [reading EXCEPT ![event[1]] = 0]

Note(p, what) ==
  /\ mishaps' = [mishaps EXCEPT ![p] = @ \union what]
  /\ open' = IF open[p] = Idle THEN open ELSE [open EXCEPT ![p].mishaps = @ \union what]

\* GET /products/{id} sees what is committed.
ReadBack(p) ==
  /\ p \in queue /\ reading[p] = 0
  /\ reading' = [reading EXCEPT ![p] = version[p]]
  /\ Note(p, IF open[p] = Idle THEN {} ELSE {"read before commit"})
  /\ UNCHANGED <<shop, version, judged, late, queue, keys, deduplicates, verdicts, faults>>

Conclude(p) ==
  /\ p \in queue /\ reading[p] # 0
  /\ \E verdict \in Verdict : verdicts' = verdicts \union {<<p, verdict, reading[p]>>}
  /\ queue' = queue \ {p}
  /\ reading' = [reading EXCEPT ![p] = 0]
  /\ UNCHANGED <<shop, version, judged, open, late, keys, deduplicates, mishaps, faults>>

Arrive(event) ==
  /\ event \in late
  /\ late' = late \ {event}
  /\ Handle(event)
  /\ Note(event[1], {"late"})
  /\ UNCHANGED <<shop, version, judged, verdicts, faults>>

-----------------------------------------------------------------------------
\* The seller's requests, each a transaction that holds the product's row.

\* delete_product holds the row from its UPDATE on, whatever the status is by then
\* (that a second deletion at once repeats the first is left out).
Begins(p, op, s) ==
  CASE op = "add"    -> sku[s].state = "unborn" /\ ProductOf[s] = p
    [] op = "remove" -> sku[s].state = "live" /\ sku[s].reserved = 0 /\ ProductOf[s] = p
    [] op = "edit"   -> TRUE
    [] op = "delete" -> ~product[p].deleted

\* Mutant: the product that lost its last SKU is not taken off the queue.
EventWithoutWithdrawal(p, op, s) ==
  CASE op = "delete" -> "DELETED"
    [] op = "add" /\ LiveSkus(p) = {} /\ product[p].status = "CREATED" -> "CREATED"
    [] op \in {"add", "edit"} /\ product[p].status \in Reviewed -> "EDITED"
    [] OTHER -> "none"

\* Mutant: an edit of a blocked product is not announced.
EventIfModerated(p, op, s) ==
  CASE op = "delete" -> "DELETED"
    [] op = "remove" /\ LiveSkus(p) = {s} /\ product[p].status = "ON_MODERATION" -> "DELETED"
    [] op = "add" /\ LiveSkus(p) = {} /\ product[p].status = "CREATED" -> "CREATED"
    [] op \in {"add", "edit"} /\ product[p].status = "MODERATED" -> "EDITED"
    [] OTHER -> "none"

Event(p, op, s) ==
  CASE op = "delete" -> "DELETED"
    [] op = "remove" /\ LiveSkus(p) = {s} /\ product[p].status = "ON_MODERATION" -> "DELETED"
    [] op = "add" /\ LiveSkus(p) = {} /\ product[p].status = "CREATED" -> "CREATED"
    [] op \in {"add", "edit"} /\ product[p].status \in Reviewed -> "EDITED"
    [] OTHER -> "none"

\* Mutant: every change posts an event.
PostEveryChange(event, fate) == fate = {} /\ Handle(event) /\ UNCHANGED late

\* requests.post with a timeout: delivered, lost, or late; nobody tries again.
\* `fate' is the mishap, if any.
Post(event, fate) ==
  \/ event[2] = "none" /\ fate = {} /\ UNCHANGED <<late, peer>>
  \/ event[2] # "none" /\ fate = {"lost"} /\ UNCHANGED <<late, peer>>
  \/ event[2] # "none" /\ fate = {"late"} /\ late' = late \union {event} /\ UNCHANGED peer
  \/ /\ event[2] # "none" /\ Handle(event)
     /\ fate = IF deduplicates /\ event \in keys THEN {"duplicate"} ELSE {}
     /\ UNCHANGED late

Begin(p, op, s) ==
  /\ open[p] = Idle /\ (op = "delete" \/ Writable(p))
  /\ Begins(p, op, s) /\ version[p] < MaxVersion
  /\ \E fate \in {{}, {"lost"}, {"late"}, {"duplicate"}} :
       /\ Post(Key(p, Event(p, op, s)), fate)
       /\ open' = [open EXCEPT ![p] =
            [op |-> op, sku |-> s, event |-> Event(p, op, s), mishaps |-> fate]]
       /\ faults' = faults + Cardinality(fate \intersect {"lost", "late"})
  /\ faults' <= MaxFaults
  /\ UNCHANGED <<shop, version, judged, verdicts, mishaps>>

Rollback(p) ==
  /\ open[p] # Idle
  /\ faults < MaxFaults /\ faults' = faults + 1
  /\ open' = [open EXCEPT ![p] = Idle]
  /\ mishaps' = [mishaps EXCEPT ![p] = @ \union open[p].mishaps \union
                   (IF open[p].event = "none" THEN {} ELSE {"rolled back"})]
  /\ UNCHANGED <<shop, version, judged, late, peer, verdicts>>

\* Content that changes while the product is under review changes without an event.
Silently(p) == open[p].op \in {"add", "edit"} /\ product[p].status = "ON_MODERATION"

\* The product starts over with a verdict of the last review on its way.
Crossed(p) == open[p].event # "none" /\ \E v \in verdicts : v[1] = p

CommitSeller(p) ==
  /\ open[p] # Idle
  /\ CASE open[p].op = "add"    -> AddSku(open[p].sku)
       [] open[p].op = "remove" -> RemoveSku(open[p].sku)
       [] open[p].op = "delete" -> Delete(p)
       [] open[p].op = "edit"   -> Edit(p) \/ (product[p].status \notin Reviewed /\ UNCHANGED shop)
  /\ version' = [version EXCEPT ![p] = IF open[p].op \in {"add", "edit"} THEN @ + 1 ELSE @]
  /\ mishaps' = [mishaps EXCEPT ![p] =
       (IF open[p].event \in {"CREATED", "EDITED"} THEN {} ELSE @)
         \union open[p].mishaps
         \union (IF Silently(p) THEN {"silent edit"} ELSE {})
         \union (IF Crossed(p) THEN {"crossed verdict"} ELSE {})]
  /\ open' = [open EXCEPT ![p] = Idle]
  /\ UNCHANGED <<judged, late, peer, verdicts, faults>>

\* The verdict waits for the product's row and becomes its status, whatever the
\* status and the content are by then.
ApplyVerdict(v) ==
  /\ v \in verdicts /\ open[v[1]] = Idle
  /\ Judge(v[1], v[2], {})
  /\ judged' = [judged EXCEPT ![v[1]] = v[3]]
  /\ verdicts' = verdicts \ {v}
  /\ UNCHANGED <<version, open, late, peer, mishaps, faults>>

Sellers ==
  \E p \in ProductId : \/ \E op \in Op, s \in SkuId : Begin(p, op, s)
                       \/ Rollback(p)

Progress ==
  \/ \E p \in ProductId : CommitSeller(p) \/ ReadBack(p) \/ Conclude(p)
  \/ \E event \in late : Arrive(event)
  \/ \E v \in verdicts : ApplyVerdict(v)

ExchangeNext == Sellers \/ Progress

ExchangeSpec == ExchangeInit /\ [][ExchangeNext]_exchange

\* Threads commit or roll back, the moderation service works through its queue
\* and retries its verdicts.
FairExchangeSpec == ExchangeSpec /\ WF_exchange(Progress)

-----------------------------------------------------------------------------
ExchangeTypeOK ==
  /\ version \in [ProductId -> 1..MaxVersion]
  /\ judged \in [ProductId -> 1..MaxVersion]
  /\ reading \in [ProductId -> 0..MaxVersion]
  /\ queue \subseteq ProductId /\ faults \in 0..MaxFaults
  /\ open \in [ProductId -> Transaction \union {Idle}]
  /\ mishaps \in [ProductId -> SUBSET Mishap]
  /\ late \union keys \subseteq ProductId \X {"CREATED", "EDITED", "DELETED"}
  /\ verdicts \subseteq ProductId \X Verdict \X (1..MaxVersion)

\* The peer did not hear of the product's last change as and when it happened.
Misinformed(p) == mishaps[p] \intersect {"lost", "late", "duplicate", "rolled back"} # {}

\* A product on sale whose content is not what the last verdict was about was
\* edited while under review, read by the moderation service between its event
\* and its commit, or judged by a verdict that crossed its withdrawal, if the peer
\* heard of its last change at all.
StaleApprovalExplained ==
  \A p \in ProductId :
    product[p].status = "MODERATED" /\ ~product[p].deleted /\ judged[p] # version[p]
      /\ ~Misinformed(p) =>
      mishaps[p] \intersect {"silent edit", "read before commit", "crossed verdict"} # {}

\* A review ends: with a verdict, the deletion or a new start, unless the last event
\* was lost, rolled back, overtaken by a late one, or taken for a duplicate of an
\* earlier one, which has the same idempotency key.
EveryReviewEnds ==
  \A p \in ProductId :
    product[p].status = "ON_MODERATION" ~>
      \/ product[p].status # "ON_MODERATION" \/ product[p].deleted
      \/ Misinformed(p)
=============================================================================
