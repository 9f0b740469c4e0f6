---------------------- MODULE ModerationExchangeProofs ----------------------
(***************************************************************************)
(* Proof that a product is on sale with a content nobody approved only after *)
(* one of the named mishaps, for every number of products, SKUs, edits and    *)
(* faults.                                                                    *)
(*                                                                           *)
(* The argument.  A seller's transaction holds the product's row, so its     *)
(* status and SKUs are still what its event was chosen for when it commits    *)
(* (OpenOK).  If the post went well, the peer has queued the product and not  *)
(* read it (Told).  So, as long as nothing went wrong, everything the peer    *)
(* has read or judged is the committed content (Known).                       *)
(***************************************************************************)
EXTENDS ModerationExchange, FiniteSetTheorems, TLAPS

Rows ==
  /\ sku \in [SkuId -> SkuRow]
  /\ product \in [ProductId -> ProductRow]

\* A transaction still finds what it began with, and has room for a version.
OpenOK(p) == open[p] # Idle =>
  /\ Begins(p, open[p].op, open[p].sku)
  /\ open[p].op = "delete" \/ Writable(p)
  /\ open[p].event = Event(p, open[p].op, open[p].sku)
  /\ version[p] < MaxVersion

\* What an event that arrived in time did to the peer's queue.
Told(p) == open[p] # Idle /\ open[p].mishaps = {} =>
  /\ open[p].event \in {"CREATED", "EDITED"} => p \in queue /\ reading[p] = 0
  /\ open[p].event = "DELETED" => p \notin queue

NoVerdict(p) == \A v \in verdicts : v[1] # p

\* As long as nothing went wrong the peer knows the committed content.
Known(p) == mishaps[p] = {} /\ ~product[p].deleted =>
  /\ \A v \in verdicts : v[1] = p => v[3] = version[p]
  /\ reading[p] \in {0, version[p]}
  /\ product[p].status = "MODERATED" => judged[p] = version[p]
  /\ product[p].status = "CREATED" /\ (open[p] = Idle \/ open[p].event = "none") =>
       p \notin queue /\ NoVerdict(p)

Reads(p) == reading[p] # 0 => p \in queue

ProductOK(p) == OpenOK(p) /\ Told(p) /\ Known(p) /\ Reads(p)

ExchangeInv == Rows /\ ExchangeTypeOK /\ \A p \in ProductId : ProductOK(p)

-----------------------------------------------------------------------------
\* The operators the model is built from.

EventType == {"CREATED", "EDITED", "DELETED"}

LEMMA EventCases ==
  ASSUME Rows, NEW p \in ProductId, NEW op \in Op, NEW s \in SkuId
  PROVE  /\ Event(p, op, s) \in EventType \union {"none"}
         /\ op = "delete" => Event(p, op, s) = "DELETED"
         /\ op = "remove" => Event(p, op, s) =
              IF LiveSkus(p) = {s} /\ product[p].status = "ON_MODERATION"
              THEN "DELETED" ELSE "none"
         /\ op = "edit" => Event(p, op, s) =
              IF product[p].status \in Reviewed THEN "EDITED" ELSE "none"
         /\ op = "add" => Event(p, op, s) \in
              IF product[p].status \in Reviewed THEN {"EDITED"}
              ELSE IF product[p].status = "CREATED" THEN {"CREATED", "none"} ELSE {"none"}
<1>1. CASE op = "delete" BY <1>1 DEF Event, EventType
<1>2. CASE op = "remove" BY <1>2 DEF Event, EventType
<1>3. CASE op = "edit" BY <1>3 DEF Event, EventType
<1>4. CASE op = "add" BY <1>4 DEF Event, EventType, Reviewed
<1> QED BY <1>1, <1>2, <1>3, <1>4 DEF Op

LEMMA BeginsCases ==
  ASSUME NEW p \in ProductId, NEW s \in SkuId
  PROVE  /\ Begins(p, "add", s) => sku[s].state = "unborn" /\ ProductOf[s] = p
         /\ Begins(p, "remove", s) =>
              sku[s].state = "live" /\ sku[s].reserved = 0 /\ ProductOf[s] = p
BY DEF Begins

PeerTypes ==
  /\ reading \in [ProductId -> 0..MaxVersion] /\ queue \subseteq ProductId
  /\ late \union keys \subseteq ProductId \X EventType

\* An event changes what the peer has of its own product only.
HandleEffect(p) ==
  /\ PeerTypes'
  /\ \A q \in ProductId : q # p =>
       (q \in queue' <=> q \in queue) /\ reading'[q] = reading[q]
  /\ reading'[p] \in {reading[p], 0}
  /\ Reads(p)'

LEMMA HandleStep ==
  ASSUME PeerTypes, NEW p \in ProductId, Reads(p), NEW type \in EventType,
         Handle(<<p, type>>), late' \subseteq late \union {<<p, type>>}
  PROVE  /\ HandleEffect(p)
         /\ ~(deduplicates /\ <<p, type>> \in keys) =>
              /\ type = "DELETED" => p \notin queue'
              /\ type # "DELETED" => p \in queue' /\ reading'[p] = 0
<1>1. CASE deduplicates /\ <<p, type>> \in keys
  <2>1. UNCHANGED peer BY <1>1 DEF Handle
  <2> QED BY <1>1, <2>1, ExchangeAssumption DEF peer, HandleEffect, PeerTypes, Reads
<1>2. CASE ~(deduplicates /\ <<p, type>> \in keys)
  <2>1. /\ keys' = keys \union {<<p, type>>}
        /\ queue' = IF type = "DELETED" THEN queue \ {p} ELSE queue \union {p}
        /\ reading' = [reading EXCEPT ![p] = 0]
    BY <1>2 DEF Handle
  <2>2. /\ reading'[p] = 0 /\ \A q \in ProductId : q # p => reading'[q] = reading[q]
        /\ reading' \in [ProductId -> 0..MaxVersion]
    BY <2>1, ExchangeAssumption DEF PeerTypes
  <2>3. PeerTypes' BY <2>1, <2>2 DEF PeerTypes
  <2> QED BY <2>1, <2>2, <2>3 DEF HandleEffect, Reads, EventType
<1> QED BY <1>1, <1>2

Fate == {{}, {"lost"}, {"late"}, {"duplicate"}}

LEMMA PostStep ==
  ASSUME PeerTypes, NEW p \in ProductId, Reads(p),
         NEW type \in EventType \union {"none"}, NEW fate \in Fate,
         Post(Key(p, type), fate)
  PROVE  /\ HandleEffect(p)
         /\ type = "none" => UNCHANGED peer
         /\ fate = {} /\ type \in {"CREATED", "EDITED"} => p \in queue' /\ reading'[p] = 0
         /\ fate = {} /\ type = "DELETED" => p \notin queue'
<1>1. CASE type = "none"
  <2>1. UNCHANGED <<late, peer>> BY <1>1 DEF Post, Key
  <2> QED BY <1>1, <2>1 DEF peer, HandleEffect, PeerTypes, Reads
<1>2. CASE type # "none" /\ fate \in {{"lost"}, {"late"}}
  <2>1. UNCHANGED peer /\ late' \subseteq late \union {<<p, type>>}
    BY <1>2 DEF Post, Key
  <2> QED BY <1>2, <2>1 DEF peer, HandleEffect, PeerTypes, Reads
<1>3. CASE type # "none" /\ fate \notin {{"lost"}, {"late"}}
  <2>1. /\ Handle(<<p, type>>) /\ UNCHANGED late
        /\ fate = IF deduplicates /\ <<p, type>> \in keys THEN {"duplicate"} ELSE {}
    BY <1>3 DEF Post, Key
  <2>2. type \in EventType BY <1>3
  <2> QED BY <1>3, <2>1, <2>2, HandleStep DEF EventType
<1> QED BY <1>1, <1>2, <1>3

-----------------------------------------------------------------------------
\* What an action leaves alone.

\* A product and its SKUs are what they were.
SameProduct(p) ==
  /\ product'[p] = product[p]
  /\ \A s \in SkuId : ProductOf[s] = p => sku'[s] = sku[s]

LEMMA SameRequest ==
  ASSUME NEW p \in ProductId, SameProduct(p), NEW op \in Op, NEW s \in SkuId
  PROVE  /\ Begins(p, op, s) => Begins(p, op, s)'
         /\ Writable(p)' = Writable(p)
         /\ Event(p, op, s)' = Event(p, op, s)
<1>1. LiveSkus(p)' = LiveSkus(p) BY DEF LiveSkus, SameProduct
<1>2. product'[p] = product[p] BY DEF SameProduct
<1>3. Event(p, op, s)' = Event(p, op, s) BY <1>1, <1>2 DEF Event
<1>4. Writable(p)' = Writable(p) BY <1>2 DEF Writable
<1>5. ASSUME Begins(p, op, s) PROVE Begins(p, op, s)'
  <2>1. CASE op = "add" BY <2>1, <1>5 DEF Begins, SameProduct
  <2>2. CASE op = "remove" BY <2>2, <1>5 DEF Begins, SameProduct
  <2>3. CASE op = "edit" BY <2>3 DEF Begins
  <2>4. CASE op = "delete" BY <2>4, <1>2, <1>5 DEF Begins
  <2> QED BY <2>1, <2>2, <2>3, <2>4 DEF Op
<1> QED BY <1>3, <1>4, <1>5

\* An open transaction on a product that stays as it is.
LEMMA OpenKept ==
  ASSUME ExchangeTypeOK, NEW p \in ProductId, OpenOK(p), SameProduct(p),
         version'[p] = version[p],
         open'[p] # Idle => /\ open[p] # Idle /\ open'[p].op = open[p].op
                            /\ open'[p].sku = open[p].sku /\ open'[p].event = open[p].event
  PROVE  OpenOK(p)'
<1> SUFFICES ASSUME open'[p] # Idle
             PROVE  /\ Begins(p, open[p].op, open[p].sku)'
                    /\ open[p].op = "delete" \/ Writable(p)'
                    /\ open[p].event = Event(p, open[p].op, open[p].sku)'
                    /\ version[p] < MaxVersion
  <2>1. CASE open'[p] = Idle BY <2>1 DEF OpenOK
  <2>2. CASE open'[p] # Idle
    <3>1. /\ Begins(p, open[p].op, open[p].sku)'
          /\ open[p].op = "delete" \/ Writable(p)'
          /\ open[p].event = Event(p, open[p].op, open[p].sku)'
          /\ version[p] < MaxVersion
      BY <2>2
    <3> QED BY <3>1, <2>2 DEF OpenOK, Begins, Event, Writable, LiveSkus
  <2> QED BY <2>1, <2>2
<1>1. open[p] # Idle /\ open[p] \in Transaction BY DEF ExchangeTypeOK
<1>2. open[p].op \in Op /\ open[p].sku \in SkuId BY <1>1 DEF Transaction
<1>3. /\ Begins(p, open[p].op, open[p].sku)
      /\ open[p].op = "delete" \/ Writable(p)
      /\ open[p].event = Event(p, open[p].op, open[p].sku)
      /\ version[p] < MaxVersion
  BY <1>1 DEF OpenOK
<1> DEFINE op == open[p].op  s == open[p].sku
<1> HIDE DEF op, s
<1> QED BY <1>2, <1>3, SameRequest DEF op, s

\* Nothing that concerns a product changes.
Untouched(q) ==
  /\ SameProduct(q)
  /\ version'[q] = version[q] /\ judged'[q] = judged[q]
  /\ open'[q] = open[q] /\ mishaps'[q] = mishaps[q]
  /\ reading'[q] = reading[q] /\ (q \in queue' <=> q \in queue)
  /\ \A v \in verdicts' : v[1] = q => v \in verdicts

LEMMA UntouchedKeeps ==
  ASSUME ExchangeTypeOK, NEW q \in ProductId, ProductOK(q), Untouched(q)
  PROVE  ProductOK(q)'
<1>1. OpenOK(q)'
  <2>1. OpenOK(q) /\ SameProduct(q) /\ version'[q] = version[q] /\ open'[q] = open[q]
    BY DEF ProductOK, Untouched
  <2> QED BY <2>1, OpenKept
<1>2. Told(q)' BY DEF ProductOK, Told, Untouched
<1>3. Known(q)' BY DEF ProductOK, Known, NoVerdict, Untouched, SameProduct
<1>4. Reads(q)' BY DEF ProductOK, Reads, Untouched
<1> QED BY <1>1, <1>2, <1>3, <1>4 DEF ProductOK

\* So an action has to be looked at for the one product it is about.
LEMMA OneProduct ==
  ASSUME ExchangeInv, NEW p \in ProductId, Rows', ExchangeTypeOK',
         \A q \in ProductId : q # p => Untouched(q),
         ProductOK(p)'
  PROVE  ExchangeInv'
<1>1. ASSUME NEW q \in ProductId PROVE ProductOK(q)'
  <2>1. CASE q = p BY <2>1
  <2>2. CASE q # p BY <2>2, UntouchedKeeps DEF ExchangeInv
  <2> QED BY <2>1, <2>2
<1> QED BY <1>1 DEF ExchangeInv

\* What goes wrong is remembered by the product and by the open transaction.
NoteEffect(p, what) ==
  /\ open' \in [ProductId -> Transaction \union {Idle}]
  /\ mishaps' \in [ProductId -> SUBSET Mishap]
  /\ mishaps'[p] = mishaps[p] \union what
  /\ open[p] = Idle => open'[p] = Idle
  /\ open[p] # Idle => /\ open'[p] # Idle
                       /\ open'[p].op = open[p].op /\ open'[p].sku = open[p].sku
                       /\ open'[p].event = open[p].event
                       /\ open'[p].mishaps = open[p].mishaps \union what
  /\ \A q \in ProductId : q # p => open'[q] = open[q] /\ mishaps'[q] = mishaps[q]

LEMMA NoteStep ==
  ASSUME ExchangeTypeOK, NEW p \in ProductId, NEW what \in SUBSET Mishap, Note(p, what)
  PROVE  NoteEffect(p, what)
<1>1. /\ mishaps' = [mishaps EXCEPT ![p] = @ \union what]
      /\ open' = IF open[p] = Idle THEN open ELSE [open EXCEPT ![p].mishaps = @ \union what]
  BY DEF Note
<1>2. /\ open \in [ProductId -> Transaction \union {Idle}]
      /\ mishaps \in [ProductId -> SUBSET Mishap]
  BY DEF ExchangeTypeOK
<1>3. mishaps' \in [ProductId -> SUBSET Mishap] /\ mishaps'[p] = mishaps[p] \union what
  BY <1>1, <1>2
<1>4. \A q \in ProductId : q # p => open'[q] = open[q] /\ mishaps'[q] = mishaps[q]
  BY <1>1, <1>2
<1>5. CASE open[p] = Idle
  <2>1. open' = open BY <1>1, <1>2, <1>5
  <2> QED BY <1>2, <1>3, <1>4, <1>5, <2>1 DEF NoteEffect
<1>6. CASE open[p] # Idle
  <2>1. open[p] \in Transaction BY <1>2, <1>6
  <2>2. open'[p] = [open[p] EXCEPT !.mishaps = @ \union what] BY <1>1, <1>2, <1>6
  <2>3. /\ open'[p] \in Transaction
        /\ open'[p].op = open[p].op /\ open'[p].sku = open[p].sku
        /\ open'[p].event = open[p].event
        /\ open'[p].mishaps = open[p].mishaps \union what
    BY <2>1, <2>2 DEF Transaction
  <2>4. open' \in [ProductId -> Transaction \union {Idle}] BY <1>1, <1>2, <2>2, <2>3
  <2> QED BY <1>3, <1>4, <1>6, <2>3, <2>4, ExchangeAssumption DEF NoteEffect
<1> QED BY <1>5, <1>6

-----------------------------------------------------------------------------
\* The moderation service's steps.

LEMMA ReadBackKeeps ==
  ASSUME ExchangeInv, NEW p \in ProductId, ReadBack(p)
  PROVE  ExchangeInv'
<1> DEFINE what == IF open[p] = Idle THEN {} ELSE {"read before commit"}
<1>1. /\ p \in queue /\ reading[p] = 0
      /\ reading' = [reading EXCEPT ![p] = version[p]]
      /\ Note(p, what)
      /\ UNCHANGED <<shop, version, judged, late, queue, keys, deduplicates, verdicts, faults>>
  BY DEF ReadBack
<1>2. UNCHANGED <<sku, product, reports>> BY <1>1 DEF shop
<1>3. what \in SUBSET Mishap BY DEF Mishap
<1>4. ExchangeTypeOK /\ ProductOK(p) /\ Rows BY DEF ExchangeInv
<1>5. NoteEffect(p, what) BY <1>1, <1>3, <1>4, NoteStep
<1>6. /\ reading' \in [ProductId -> 0..MaxVersion] /\ reading'[p] = version[p]
      /\ \A q \in ProductId : q # p => reading'[q] = reading[q]
  <2>1. /\ version[p] \in 1..MaxVersion /\ MaxVersion \in Nat
        /\ reading \in [ProductId -> 0..MaxVersion]
    BY <1>4, ExchangeAssumption DEF ExchangeTypeOK
  <2>2. version[p] \in 0..MaxVersion BY <2>1
  <2> QED BY <1>1, <2>1, <2>2
<1>7. ExchangeTypeOK' BY <1>1, <1>4, <1>5, <1>6 DEF ExchangeTypeOK, NoteEffect
<1>8. Rows' BY <1>2, <1>4 DEF Rows
<1>9. \A q \in ProductId : q # p => Untouched(q)
  BY <1>1, <1>2, <1>5, <1>6 DEF Untouched, SameProduct, NoteEffect
<1>10. SameProduct(p) BY <1>2 DEF SameProduct
<1>11. OpenOK(p)'
  <2>1. OpenOK(p) /\ version'[p] = version[p] BY <1>1, <1>4 DEF ProductOK
  <2> QED BY <1>4, <1>5, <1>10, <2>1, OpenKept DEF NoteEffect
<1>12. Told(p)'
  <2>1. CASE open[p] = Idle BY <1>5, <2>1 DEF Told, NoteEffect
  <2>2. CASE open[p] # Idle BY <1>5, <2>2 DEF Told, NoteEffect
  <2> QED BY <2>1, <2>2
<1>13. Known(p)'
  <2>1. CASE open[p] = Idle
    <3>1. mishaps'[p] = mishaps[p] /\ open'[p] = Idle BY <1>5, <2>1 DEF NoteEffect
    <3> QED BY <1>1, <1>2, <1>4, <1>6, <2>1, <3>1 DEF ProductOK, Known, NoVerdict
  <2>2. CASE open[p] # Idle
    <3>1. mishaps'[p] # {} BY <1>5, <2>2 DEF NoteEffect
    <3> QED BY <3>1 DEF Known
  <2> QED BY <2>1, <2>2
<1>14. Reads(p)' BY <1>1 DEF Reads
<1> QED BY <1>7, <1>8, <1>9, <1>11, <1>12, <1>13, <1>14, OneProduct DEF ProductOK

LEMMA ConcludeKeeps ==
  ASSUME ExchangeInv, NEW p \in ProductId, Conclude(p)
  PROVE  ExchangeInv'
<1>1. /\ p \in queue /\ reading[p] # 0
      /\ queue' = queue \ {p} /\ reading' = [reading EXCEPT ![p] = 0]
      /\ UNCHANGED <<shop, version, judged, open, late, keys, deduplicates, mishaps, faults>>
  BY DEF Conclude
<1>2. PICK verdict \in Verdict : verdicts' = verdicts \union {<<p, verdict, reading[p]>>}
  BY DEF Conclude
<1>3. UNCHANGED <<sku, product, reports>> BY <1>1 DEF shop
<1>4. ExchangeTypeOK /\ ProductOK(p) /\ Rows BY DEF ExchangeInv
<1>5. /\ reading[p] \in 1..MaxVersion /\ reading' \in [ProductId -> 0..MaxVersion]
      /\ reading'[p] = 0 /\ \A q \in ProductId : q # p => reading'[q] = reading[q]
  <2>1. MaxVersion \in Nat /\ reading \in [ProductId -> 0..MaxVersion]
    BY <1>4, ExchangeAssumption DEF ExchangeTypeOK
  <2> QED BY <1>1, <2>1
<1>6. ExchangeTypeOK'
  <2>1. verdicts' \subseteq ProductId \X Verdict \X (1..MaxVersion)
    BY <1>2, <1>4, <1>5 DEF ExchangeTypeOK
  <2> QED BY <1>1, <1>4, <1>5, <2>1 DEF ExchangeTypeOK
<1>7. Rows' BY <1>3, <1>4 DEF Rows
<1>8. \A q \in ProductId : q # p => Untouched(q)
  BY <1>1, <1>2, <1>3, <1>5 DEF Untouched, SameProduct
<1>9. OpenOK(p)'
  <2>1. OpenOK(p) /\ version'[p] = version[p] /\ open'[p] = open[p] BY <1>1, <1>4 DEF ProductOK
  <2>2. SameProduct(p) BY <1>3 DEF SameProduct
  <2> QED BY <1>4, <2>1, <2>2, OpenKept
<1>10. Told(p)' BY <1>1, <1>4, <1>5 DEF ProductOK, Told
<1>11. Known(p)' BY <1>1, <1>2, <1>3, <1>4, <1>5 DEF ProductOK, Known, NoVerdict
<1>12. Reads(p)' BY <1>5 DEF Reads
<1> QED BY <1>6, <1>7, <1>8, <1>9, <1>10, <1>11, <1>12, OneProduct DEF ProductOK

LEMMA ArriveKeeps ==
  ASSUME ExchangeInv, NEW event \in late, Arrive(event)
  PROVE  ExchangeInv'
<1> DEFINE p == event[1]  type == event[2]
<1>1. /\ late' = late \ {event} /\ Handle(event) /\ Note(p, {"late"})
      /\ UNCHANGED <<shop, version, judged, verdicts, faults>>
  BY DEF Arrive
<1>2. UNCHANGED <<sku, product, reports>> BY <1>1 DEF shop
<1>3. ExchangeTypeOK /\ Rows BY DEF ExchangeInv
<1>4. p \in ProductId /\ type \in EventType /\ event = <<p, type>>
  BY <1>3 DEF ExchangeTypeOK, EventType
<1>5. ProductOK(p) BY <1>4 DEF ExchangeInv
<1>6. NoteEffect(p, {"late"})
  <2>1. {"late"} \in SUBSET Mishap BY DEF Mishap
  <2> QED BY <1>1, <1>3, <1>4, <2>1, NoteStep
<1>7. HandleEffect(p)
  <2>1. PeerTypes /\ Reads(p) /\ late' \subseteq late \union {<<p, type>>}
    BY <1>1, <1>3, <1>5 DEF ExchangeTypeOK, PeerTypes, EventType, ProductOK
  <2>2. Handle(<<p, type>>) BY <1>1, <1>4
  <2> HIDE DEF p, type
  <2> QED BY <1>4, <2>1, <2>2, HandleStep
<1> HIDE DEF p, type
<1>8. ExchangeTypeOK'
  BY <1>1, <1>3, <1>6, <1>7 DEF ExchangeTypeOK, NoteEffect, HandleEffect, PeerTypes, EventType
<1>9. Rows' BY <1>2, <1>3 DEF Rows
<1>10. \A q \in ProductId : q # p => Untouched(q)
  BY <1>1, <1>2, <1>6, <1>7 DEF Untouched, SameProduct, NoteEffect, HandleEffect
<1>11. OpenOK(p)'
  <2>1. OpenOK(p) /\ version'[p] = version[p] BY <1>1, <1>5 DEF ProductOK
  <2>2. SameProduct(p) BY <1>2 DEF SameProduct
  <2> QED BY <1>3, <1>4, <1>6, <2>1, <2>2, OpenKept DEF NoteEffect
<1>12. Told(p)' BY <1>6 DEF Told, NoteEffect
<1>13. Known(p)' BY <1>6 DEF Known, NoteEffect
<1>14. Reads(p)' BY <1>7 DEF HandleEffect
<1> QED BY <1>4, <1>8, <1>9, <1>10, <1>11, <1>12, <1>13, <1>14, OneProduct DEF ProductOK

-----------------------------------------------------------------------------
\* The seller's steps.

LEMMA FaultCount ==
  ASSUME NEW fate \in Fate
  PROVE  Cardinality(fate \intersect {"lost", "late"}) \in Nat
<1>1. \/ fate \intersect {"lost", "late"} = {}
      \/ fate \intersect {"lost", "late"} = {"lost"}
      \/ fate \intersect {"lost", "late"} = {"late"}
  BY DEF Fate
<1>2. Cardinality({}) \in Nat BY FS_EmptySet
<1>3. Cardinality({"lost"}) \in Nat /\ Cardinality({"late"}) \in Nat BY FS_Singleton
<1> QED BY <1>1, <1>2, <1>3

LEMMA BeginKeeps ==
  ASSUME ExchangeInv, NEW p \in ProductId, NEW op \in Op, NEW s \in SkuId, Begin(p, op, s)
  PROVE  ExchangeInv'
<1> DEFINE type == Event(p, op, s)
<1>1. /\ open[p] = Idle /\ (op = "delete" \/ Writable(p))
      /\ Begins(p, op, s) /\ version[p] < MaxVersion
      /\ faults' <= MaxFaults
      /\ UNCHANGED <<shop, version, judged, verdicts, mishaps>>
  BY DEF Begin
<1>2. PICK fate \in Fate :
        /\ Post(Key(p, type), fate)
        /\ open' = [open EXCEPT ![p] =
             [op |-> op, sku |-> s, event |-> type, mishaps |-> fate]]
        /\ faults' = faults + Cardinality(fate \intersect {"lost", "late"})
  BY DEF Begin, Fate
<1>3. UNCHANGED <<sku, product, reports>> BY <1>1 DEF shop
<1>4. ExchangeTypeOK /\ ProductOK(p) /\ Rows BY DEF ExchangeInv
<1>5. type \in EventType \union {"none"} BY <1>4, EventCases
<1>6. type = Event(p, op, s) OBVIOUS
<1> HIDE DEF type
<1> DEFINE begun == [op |-> op, sku |-> s, event |-> type, mishaps |-> fate]
<1>7. begun \in Transaction BY <1>5 DEF Transaction, EventType, Fate, Mishap
<1>8. begun # Idle BY <1>7, ExchangeAssumption
<1>9. begun.op = op /\ begun.sku = s /\ begun.event = type /\ begun.mishaps = fate OBVIOUS
<1>10. open' = [open EXCEPT ![p] = begun] BY <1>2
<1> HIDE DEF begun
<1>11. /\ open' \in [ProductId -> Transaction \union {Idle}] /\ open'[p] = begun
       /\ \A q \in ProductId : q # p => open'[q] = open[q]
  BY <1>4, <1>7, <1>10 DEF ExchangeTypeOK
<1>12. /\ HandleEffect(p)
       /\ type = "none" => UNCHANGED peer
       /\ fate = {} /\ type \in {"CREATED", "EDITED"} => p \in queue' /\ reading'[p] = 0
       /\ fate = {} /\ type = "DELETED" => p \notin queue'
  <2>1. PeerTypes /\ Reads(p) BY <1>4 DEF ExchangeTypeOK, PeerTypes, EventType, ProductOK
  <2> QED BY <1>2, <1>5, <2>1, PostStep
<1>13. ExchangeTypeOK'
  <2>1. faults' \in 0..MaxFaults
    <3>1. faults \in 0..MaxFaults /\ MaxFaults \in Nat
      BY <1>4, ExchangeAssumption DEF ExchangeTypeOK
    <3>2. Cardinality(fate \intersect {"lost", "late"}) \in Nat BY FaultCount
    <3> QED BY <1>1, <1>2, <3>1, <3>2
  <2> QED BY <1>1, <1>4, <1>11, <1>12, <2>1
          DEF ExchangeTypeOK, HandleEffect, PeerTypes, EventType
<1>14. Rows' BY <1>3, <1>4 DEF Rows
<1>15. \A q \in ProductId : q # p => Untouched(q)
  BY <1>1, <1>3, <1>11, <1>12 DEF Untouched, SameProduct, HandleEffect
<1>16. OpenOK(p)'
  <2>1. SameProduct(p) BY <1>3 DEF SameProduct
  <2>2. /\ Begins(p, op, s)' /\ (op = "delete" \/ Writable(p)')
        /\ type = Event(p, op, s)' /\ version'[p] < MaxVersion
    BY <1>1, <1>6, <2>1, SameRequest
  <2>3. open'[p].op = op /\ open'[p].sku = s /\ open'[p].event = type BY <1>9, <1>11
  <2>4. /\ Begins(p, open[p].op, open[p].sku)'
        /\ Event(p, open[p].op, open[p].sku)' = Event(p, op, s)'
    BY <2>2, <2>3 DEF Begins, Event
  <2> QED BY <2>2, <2>3, <2>4 DEF OpenOK
<1>17. Told(p)' BY <1>9, <1>11, <1>12 DEF Told
<1>18. Known(p)'
  BY <1>1, <1>3, <1>4, <1>8, <1>9, <1>11, <1>12
     DEF Known, NoVerdict, ProductOK, HandleEffect, peer
<1>19. Reads(p)' BY <1>12 DEF HandleEffect
<1> QED BY <1>13, <1>14, <1>15, <1>16, <1>17, <1>18, <1>19, OneProduct DEF ProductOK

LEMMA RollbackKeeps ==
  ASSUME ExchangeInv, NEW p \in ProductId, Rollback(p)
  PROVE  ExchangeInv'
<1> DEFINE more == open[p].mishaps \union
                     (IF open[p].event = "none" THEN {} ELSE {"rolled back"})
<1>1. /\ open[p] # Idle
      /\ faults < MaxFaults /\ faults' = faults + 1
      /\ open' = [open EXCEPT ![p] = Idle]
      /\ mishaps' = [mishaps EXCEPT ![p] = @ \union more]
      /\ UNCHANGED <<shop, version, judged, late, peer, verdicts>>
  BY DEF Rollback
<1>2. UNCHANGED <<sku, product, reports, queue, reading, keys, deduplicates>>
  BY <1>1 DEF shop, peer
<1>3. ExchangeTypeOK /\ ProductOK(p) /\ Rows BY DEF ExchangeInv
<1>4. open[p] \in Transaction BY <1>1, <1>3 DEF ExchangeTypeOK
<1>5. more \subseteq Mishap /\ (open[p].event # "none" => more # {})
  BY <1>4 DEF Transaction, Mishap
<1> HIDE DEF more
<1>6. /\ mishaps' \in [ProductId -> SUBSET Mishap] /\ mishaps'[p] = mishaps[p] \union more
      /\ open' \in [ProductId -> Transaction \union {Idle}] /\ open'[p] = Idle
      /\ \A q \in ProductId : q # p => open'[q] = open[q] /\ mishaps'[q] = mishaps[q]
  BY <1>1, <1>3, <1>5 DEF ExchangeTypeOK
<1>7. ExchangeTypeOK'
  <2>1. faults' \in 0..MaxFaults BY <1>1, <1>3, ExchangeAssumption DEF ExchangeTypeOK
  <2> QED BY <1>1, <1>2, <1>3, <1>6, <2>1 DEF ExchangeTypeOK
<1>8. Rows' BY <1>2, <1>3 DEF Rows
<1>9. \A q \in ProductId : q # p => Untouched(q)
  BY <1>1, <1>2, <1>6 DEF Untouched, SameProduct
<1>10. OpenOK(p)' /\ Told(p)' BY <1>6 DEF OpenOK, Told
<1>11. Known(p)'
  <2>1. CASE open[p].event # "none" BY <1>5, <1>6, <2>1 DEF Known
  <2>2. CASE open[p].event = "none"
    BY <1>1, <1>2, <1>3, <1>6, <2>2 DEF ProductOK, Known, NoVerdict
  <2> QED BY <2>1, <2>2
<1>12. Reads(p)' BY <1>2, <1>3 DEF Reads, ProductOK
<1> QED BY <1>7, <1>8, <1>9, <1>10, <1>11, <1>12, OneProduct DEF ProductOK

\* What the commit of a seller's change does to the tables.
ChangeEffect(p, op, s) ==
  /\ Rows'
  /\ \A q \in ProductId : q # p => SameProduct(q)
  /\ IF op = "delete" THEN product'[p].deleted ELSE product'[p].deleted = product[p].deleted
  /\ op = "add" => product'[p].status = "ON_MODERATION"
  /\ op = "edit" => product'[p].status =
       IF product[p].status \in Reviewed THEN "ON_MODERATION" ELSE product[p].status
  /\ op = "remove" => product'[p].status =
       IF LiveSkus(p) = {s} /\ product[p].status = "ON_MODERATION"
       THEN "CREATED" ELSE product[p].status

LEMMA StatusStep ==
  ASSUME Rows, NEW p \in ProductId, NEW status \in Verdict \union {"CREATED", "ON_MODERATION"},
         SetStatus(p, status)
  PROVE  /\ product' \in [ProductId -> ProductRow]
         /\ product'[p].status = status /\ product'[p].deleted = product[p].deleted
         /\ \A q \in ProductId : q # p => product'[q] = product[q]
<1>1. product \in [ProductId -> ProductRow] BY DEF Rows
<1>2. product' = [product EXCEPT ![p].status = status] BY DEF SetStatus
<1>3. product[p] \in ProductRow BY <1>1
<1>4. product'[p] = [product[p] EXCEPT !.status = status] BY <1>1, <1>2
<1>5. /\ product'[p] \in ProductRow /\ product'[p].status = status
      /\ product'[p].deleted = product[p].deleted
  BY <1>3, <1>4 DEF ProductRow
<1>6. \A q \in ProductId : q # p => product'[q] = product[q] BY <1>1, <1>2
<1>7. product' \in [ProductId -> ProductRow] BY <1>1, <1>2, <1>4, <1>5
<1> QED BY <1>5, <1>6, <1>7

LEMMA AddEffect ==
  ASSUME Rows, NEW s \in SkuId, AddSku(s)
  PROVE  ChangeEffect(ProductOf[s], "add", s)
<1> DEFINE p == ProductOf[s]
<1>1. p \in ProductId BY LifecycleAssumption
<1>2. /\ SetStatus(p, "ON_MODERATION")
      /\ sku' = [sku EXCEPT ![s] = [Row0 EXCEPT !.state = "live"]]
  BY DEF AddSku
<1> HIDE DEF p
<1>3. /\ product' \in [ProductId -> ProductRow]
      /\ product'[p].status = "ON_MODERATION" /\ product'[p].deleted = product[p].deleted
      /\ \A q \in ProductId : q # p => product'[q] = product[q]
  BY <1>1, <1>2, StatusStep
<1>4. [Row0 EXCEPT !.state = "live"] \in SkuRow BY LifecycleAssumption DEF SkuRow
<1>5. sku' \in [SkuId -> SkuRow] BY <1>2, <1>4 DEF Rows
<1>6. \A r \in SkuId : r # s => sku'[r] = sku[r] BY <1>2 DEF Rows
<1> QED BY <1>3, <1>5, <1>6 DEF ChangeEffect, Rows, SameProduct, p

LEMMA RemoveEffect ==
  ASSUME Rows, NEW s \in SkuId, RemoveSku(s)
  PROVE  ChangeEffect(ProductOf[s], "remove", s)
<1> DEFINE p == ProductOf[s]
           status == IF LiveSkus(p) = {s} /\ product[p].status = "ON_MODERATION"
                     THEN "CREATED" ELSE product[p].status
<1>1. p \in ProductId BY LifecycleAssumption
<1>2. /\ SetStatus(p, status)
      /\ sku' = [sku EXCEPT ![s] = [Row0 EXCEPT !.state = "deleted"]]
  BY DEF RemoveSku
<1>3. status \in Verdict \union {"CREATED", "ON_MODERATION"} BY <1>1 DEF Rows, ProductRow
<1> HIDE DEF p
<1>4. /\ product' \in [ProductId -> ProductRow]
      /\ product'[p].status = status /\ product'[p].deleted = product[p].deleted
      /\ \A q \in ProductId : q # p => product'[q] = product[q]
  <2> HIDE DEF status
  <2> QED BY <1>1, <1>2, <1>3, StatusStep
<1>5. [Row0 EXCEPT !.state = "deleted"] \in SkuRow BY LifecycleAssumption DEF SkuRow
<1>6. sku' \in [SkuId -> SkuRow] BY <1>2, <1>5 DEF Rows
<1>7. \A r \in SkuId : r # s => sku'[r] = sku[r] BY <1>2 DEF Rows
<1> QED BY <1>4, <1>6, <1>7 DEF ChangeEffect, Rows, SameProduct, p

LEMMA EditEffect ==
  ASSUME Rows, NEW p \in ProductId, NEW s \in SkuId,
         Edit(p) \/ (product[p].status \notin Reviewed /\ UNCHANGED shop)
  PROVE  ChangeEffect(p, "edit", s)
<1>1. CASE product[p].status \in Reviewed
  <2>1. SetStatus(p, "ON_MODERATION") /\ UNCHANGED <<sku, reports>> BY <1>1 DEF Edit
  <2>2. /\ product' \in [ProductId -> ProductRow]
        /\ product'[p].status = "ON_MODERATION" /\ product'[p].deleted = product[p].deleted
        /\ \A q \in ProductId : q # p => product'[q] = product[q]
    BY <2>1, StatusStep
  <2> QED BY <1>1, <2>1, <2>2 DEF ChangeEffect, Rows, SameProduct
<1>2. CASE product[p].status \notin Reviewed
  <2>1. UNCHANGED <<sku, product>> BY <1>2 DEF Edit, shop
  <2> QED BY <1>2, <2>1 DEF ChangeEffect, Rows, SameProduct
<1> QED BY <1>1, <1>2

LEMMA DeleteEffect ==
  ASSUME Rows, NEW p \in ProductId, NEW s \in SkuId, Delete(p)
  PROVE  ChangeEffect(p, "delete", s)
<1>1. product' = [product EXCEPT ![p].deleted = TRUE] /\ UNCHANGED <<sku, reports>>
  BY DEF Delete
<1>2. product \in [ProductId -> ProductRow] BY DEF Rows
<1>3. product'[p] = [product[p] EXCEPT !.deleted = TRUE] BY <1>1, <1>2
<1>4. product'[p] \in ProductRow /\ product'[p].deleted BY <1>2, <1>3 DEF ProductRow
<1>5. \A q \in ProductId : q # p => product'[q] = product[q] BY <1>1, <1>2
<1>6. product' \in [ProductId -> ProductRow] BY <1>1, <1>2, <1>3, <1>4
<1> QED BY <1>1, <1>4, <1>5, <1>6 DEF ChangeEffect, Rows, SameProduct

\* A transaction makes, when it commits, the change its event was chosen for.
LEMMA CommitEffect ==
  ASSUME ExchangeInv, NEW p \in ProductId, CommitSeller(p)
  PROVE  ChangeEffect(p, open[p].op, open[p].sku)
<1> DEFINE op == open[p].op  s == open[p].sku
<1>1. Rows /\ OpenOK(p) /\ open[p] # Idle /\ open[p] \in Transaction
  BY DEF ExchangeInv, ExchangeTypeOK, ProductOK, CommitSeller
<1>2. op \in Op /\ s \in SkuId BY <1>1 DEF Transaction
<1>3. Begins(p, op, s) BY <1>1 DEF OpenOK
<1>4. /\ op = "add" => AddSku(s)
      /\ op = "remove" => RemoveSku(s)
      /\ op = "delete" => Delete(p)
      /\ op = "edit" => Edit(p) \/ (product[p].status \notin Reviewed /\ UNCHANGED shop)
  <2>1. CASE op = "add" BY <2>1 DEF CommitSeller
  <2>2. CASE op = "remove" BY <2>2 DEF CommitSeller
  <2>3. CASE op = "delete" BY <2>3 DEF CommitSeller
  <2>4. CASE op = "edit" BY <2>4 DEF CommitSeller
  <2> QED BY <1>2, <2>1, <2>2, <2>3, <2>4 DEF Op
<1> HIDE DEF op, s
<1>5. ChangeEffect(p, op, s)
  <2>1. CASE op = "add" BY <1>1, <1>2, <1>3, <1>4, <2>1, BeginsCases, AddEffect
  <2>2. CASE op = "remove" BY <1>1, <1>2, <1>3, <1>4, <2>2, BeginsCases, RemoveEffect
  <2>3. CASE op = "delete" BY <1>1, <1>2, <1>4, <2>3, DeleteEffect
  <2>4. CASE op = "edit" BY <1>1, <1>2, <1>4, <2>4, EditEffect
  <2> QED BY <1>2, <2>1, <2>2, <2>3, <2>4 DEF Op
<1> QED BY <1>5 DEF op, s

LEMMA CommitKeeps ==
  ASSUME ExchangeInv, NEW p \in ProductId, CommitSeller(p)
  PROVE  ExchangeInv'
<1> DEFINE op == open[p].op  s == open[p].sku  type == open[p].event
           went == open[p].mishaps
           since == IF type \in {"CREATED", "EDITED"} THEN {} ELSE mishaps[p]
           more == since \union went
                     \union (IF Silently(p) THEN {"silent edit"} ELSE {})
                     \union (IF Crossed(p) THEN {"crossed verdict"} ELSE {})
           content == IF op \in {"add", "edit"} THEN version[p] + 1 ELSE version[p]
<1>1. /\ open[p] # Idle
      /\ version' = [version EXCEPT ![p] = content]
      /\ mishaps' = [mishaps EXCEPT ![p] = more]
      /\ open' = [open EXCEPT ![p] = Idle]
      /\ UNCHANGED <<judged, late, peer, verdicts, faults>>
  BY DEF CommitSeller
<1>2. UNCHANGED <<queue, reading, keys, deduplicates>> BY <1>1 DEF peer
<1>3. ExchangeTypeOK /\ ProductOK(p) /\ Rows BY DEF ExchangeInv
<1>4. open[p] \in Transaction BY <1>1, <1>3 DEF ExchangeTypeOK
<1>5. op \in Op /\ s \in SkuId /\ went \subseteq Mishap BY <1>4 DEF Transaction
<1>6. type = Event(p, op, s) /\ (op = "delete" \/ Writable(p)) /\ version[p] < MaxVersion
  BY <1>1, <1>3 DEF ProductOK, OpenOK
<1>7. ChangeEffect(p, op, s) BY CommitEffect
<1>8. content \in 1..MaxVersion
  BY <1>3, <1>6, ExchangeAssumption DEF ExchangeTypeOK
<1>9. more \subseteq Mishap
  <2>1. mishaps[p] \subseteq Mishap BY <1>3 DEF ExchangeTypeOK
  <2> QED BY <1>5, <2>1 DEF Mishap
<1>10. more = {} => /\ since = {} /\ went = {} /\ ~Silently(p) /\ ~Crossed(p)
  OBVIOUS
<1> HIDE DEF content, more
<1>11. /\ version' \in [ProductId -> 1..MaxVersion] /\ version'[p] = content
       /\ mishaps' \in [ProductId -> SUBSET Mishap] /\ mishaps'[p] = more
       /\ open' \in [ProductId -> Transaction \union {Idle}] /\ open'[p] = Idle
       /\ \A q \in ProductId : q # p => /\ open'[q] = open[q] /\ mishaps'[q] = mishaps[q]
                                        /\ version'[q] = version[q]
  BY <1>1, <1>3, <1>8, <1>9 DEF ExchangeTypeOK
<1>12. ExchangeTypeOK' BY <1>1, <1>2, <1>3, <1>11 DEF ExchangeTypeOK
<1>13. Rows' BY <1>7 DEF ChangeEffect
<1>14. \A q \in ProductId : q # p => Untouched(q)
  BY <1>1, <1>2, <1>7, <1>11 DEF Untouched, ChangeEffect
<1>15. OpenOK(p)' /\ Told(p)' BY <1>11 DEF OpenOK, Told
<1>16. Reads(p)' BY <1>2, <1>3 DEF Reads, ProductOK
<1>17. ASSUME more = {}, ~product'[p].deleted
       PROVE  /\ \A v \in verdicts : v[1] = p => v[3] = content
              /\ reading[p] \in {0, content}
              /\ product'[p].status = "MODERATED" => judged[p] = content
              /\ product'[p].status = "CREATED" => p \notin queue /\ NoVerdict(p)
  <2>1. since = {} /\ went = {} /\ ~Silently(p) /\ ~Crossed(p) BY <1>10, <1>17
  <2>2. op # "delete" /\ ~product[p].deleted BY <1>7, <1>17 DEF ChangeEffect
  <2>3. product[p].status \in Verdict \union {"CREATED", "ON_MODERATION"}
    BY <1>3 DEF Rows, ProductRow
  <2>4. /\ op = "remove" => type =
             IF LiveSkus(p) = {s} /\ product[p].status = "ON_MODERATION"
             THEN "DELETED" ELSE "none"
        /\ op = "edit" => type =
             IF product[p].status \in Reviewed THEN "EDITED" ELSE "none"
        /\ op = "add" => type \in
             IF product[p].status \in Reviewed THEN {"EDITED"}
             ELSE IF product[p].status = "CREATED" THEN {"CREATED", "none"} ELSE {"none"}
        /\ type \in EventType \union {"none"}
    <3> HIDE DEF op, s, type
    <3> QED BY <1>3, <1>5, <1>6, EventCases
  <2>5. /\ op = "add" => product'[p].status = "ON_MODERATION"
        /\ op = "edit" => product'[p].status =
             IF product[p].status \in Reviewed THEN "ON_MODERATION" ELSE product[p].status
        /\ op = "remove" => product'[p].status =
             IF LiveSkus(p) = {s} /\ product[p].status = "ON_MODERATION"
             THEN "CREATED" ELSE product[p].status
    BY <1>7 DEF ChangeEffect
  <2>6. type # "none" => NoVerdict(p) BY <2>1 DEF Crossed, NoVerdict
  <2>7. /\ type \in {"CREATED", "EDITED"} => p \in queue /\ reading[p] = 0
        /\ type = "DELETED" => p \notin queue /\ reading[p] = 0
    BY <1>1, <1>3, <2>1 DEF ProductOK, Told, Reads
  <2>8. op \in {"add", "edit"} => product[p].status # "ON_MODERATION"
    BY <2>1 DEF Silently
  <2>9. op \in {"add", "edit", "remove"} => product[p].status # "HARD_BLOCKED"
    BY <1>6, <2>2 DEF Writable
  <2>10. CASE type \in {"CREATED", "EDITED"}
    <3>1. op \in {"add", "edit"} BY <1>5, <2>2, <2>4, <2>10 DEF Op
    <3>2. product'[p].status = "ON_MODERATION" BY <2>4, <2>5, <2>10, <3>1
    <3> QED BY <2>6, <2>7, <2>10, <3>2 DEF NoVerdict
  <2>11. CASE type = "DELETED"
    <3>1. op = "remove" BY <1>5, <2>2, <2>4, <2>11 DEF Op
    <3>2. product'[p].status = "CREATED" BY <2>4, <2>5, <2>11, <3>1
    <3> QED BY <2>6, <2>7, <2>11, <3>2 DEF NoVerdict
  <2>12. CASE type = "none"
    <3>1. mishaps[p] = {} BY <2>1, <2>12
    <3>2. /\ \A v \in verdicts : v[1] = p => v[3] = version[p]
          /\ reading[p] \in {0, version[p]}
          /\ product[p].status = "MODERATED" => judged[p] = version[p]
          /\ product[p].status = "CREATED" => p \notin queue /\ NoVerdict(p)
      BY <1>3, <2>2, <2>12, <3>1 DEF ProductOK, Known
    <3>3. CASE op = "remove"
      <4>1. content = version[p] BY <3>3 DEF content
      <4>2. product'[p].status = product[p].status BY <2>4, <2>5, <2>12, <3>3
      <4> QED BY <3>2, <4>1, <4>2
    <3>4. CASE op \in {"add", "edit"}
      <4>1. product[p].status = "CREATED"
        BY <2>3, <2>4, <2>8, <2>9, <2>12, <3>4 DEF Verdict, Reviewed
      <4>2. p \notin queue /\ NoVerdict(p) /\ reading[p] = 0
        BY <1>3, <3>2, <4>1 DEF ProductOK, Reads
      <4>3. product'[p].status # "MODERATED" BY <2>5, <3>4, <4>1
      <4> QED BY <4>2, <4>3 DEF NoVerdict
    <3> QED BY <1>5, <2>2, <3>3, <3>4 DEF Op
  <2> QED BY <2>4, <2>10, <2>11, <2>12 DEF EventType
<1>18. Known(p)' BY <1>1, <1>2, <1>11, <1>17 DEF Known, NoVerdict
<1> QED BY <1>12, <1>13, <1>14, <1>15, <1>16, <1>18, OneProduct DEF ProductOK

LEMMA VerdictKeeps ==
  ASSUME ExchangeInv, NEW v \in verdicts, ApplyVerdict(v)
  PROVE  ExchangeInv'
<1> DEFINE p == v[1]  verdict == v[2]  about == v[3]
<1>1. /\ open[p] = Idle /\ Judge(p, verdict, {})
      /\ judged' = [judged EXCEPT ![p] = about]
      /\ verdicts' = verdicts \ {v}
      /\ UNCHANGED <<version, open, late, peer, mishaps, faults>>
  BY DEF ApplyVerdict
<1>2. UNCHANGED <<queue, reading, keys, deduplicates>> BY <1>1 DEF peer
<1>3. ExchangeTypeOK /\ Rows BY DEF ExchangeInv
<1>4. p \in ProductId /\ verdict \in Verdict /\ about \in 1..MaxVersion
  BY <1>3 DEF ExchangeTypeOK
<1>5. ProductOK(p) BY <1>4 DEF ExchangeInv
<1>6. /\ product' = [product EXCEPT ![p].status = verdict, ![p].reason = verdict # "MODERATED"]
      /\ UNCHANGED sku
  BY <1>1 DEF Judge
<1> HIDE DEF p, verdict, about
<1>7. product \in [ProductId -> ProductRow] BY <1>3 DEF Rows
<1>8. product'[p] = [product[p] EXCEPT !.status = verdict, !.reason = verdict # "MODERATED"]
  BY <1>4, <1>6, <1>7
<1>9. /\ product'[p] \in ProductRow /\ product'[p].status = verdict
      /\ product'[p].deleted = product[p].deleted
  <2> DEFINE refused == verdict # "MODERATED"
  <2>1. refused \in BOOLEAN OBVIOUS
  <2>2. product'[p] = [product[p] EXCEPT !.status = verdict, !.reason = refused] BY <1>8
  <2> HIDE DEF refused
  <2>3. product[p] \in ProductRow BY <1>4, <1>7
  <2> QED BY <1>4, <2>1, <2>2, <2>3 DEF ProductRow
<1>10. \A q \in ProductId : q # p => product'[q] = product[q] BY <1>6, <1>7
<1>11. Rows'
  <2>1. product' \in [ProductId -> ProductRow] BY <1>4, <1>6, <1>7, <1>8, <1>9
  <2> QED BY <1>3, <1>6, <2>1 DEF Rows
<1>12. /\ judged' \in [ProductId -> 1..MaxVersion] /\ judged'[p] = about
       /\ \A q \in ProductId : q # p => judged'[q] = judged[q]
  BY <1>1, <1>3, <1>4 DEF ExchangeTypeOK
<1>13. ExchangeTypeOK' BY <1>1, <1>2, <1>3, <1>12 DEF ExchangeTypeOK
<1>14. \A q \in ProductId : q # p => Untouched(q)
  BY <1>1, <1>2, <1>6, <1>10, <1>12 DEF Untouched, SameProduct
<1>15. OpenOK(p)' /\ Told(p)' BY <1>1 DEF OpenOK, Told
<1>16. Known(p)'
  <2> SUFFICES ASSUME mishaps[p] = {}, ~product[p].deleted PROVE Known(p)'
    BY <1>1, <1>9 DEF Known
  <2>1. /\ \A w \in verdicts : w[1] = p => w[3] = version[p]
        /\ reading[p] \in {0, version[p]}
    BY <1>5 DEF ProductOK, Known
  <2>2. about = version[p] BY <2>1 DEF p, about
  <2>3. verdict # "CREATED" BY <1>4 DEF Verdict, Reviewed
  <2> QED BY <1>1, <1>2, <1>9, <1>12, <2>1, <2>2, <2>3 DEF Known
<1>17. Reads(p)' BY <1>2, <1>5 DEF Reads, ProductOK
<1> QED BY <1>4, <1>11, <1>13, <1>14, <1>15, <1>16, <1>17, OneProduct DEF ProductOK

-----------------------------------------------------------------------------
\* The theorems.

LEMMA InitExchange == ExchangeInit => ExchangeInv
<1> SUFFICES ASSUME ExchangeInit PROVE ExchangeInv
  OBVIOUS
<1>1. Rows BY LifecycleAssumption DEF ExchangeInit, Init, Rows
<1>2. ExchangeTypeOK BY ExchangeAssumption DEF ExchangeInit, ExchangeTypeOK
<1>3. ASSUME NEW p \in ProductId PROVE ProductOK(p)
  BY DEF ExchangeInit, ProductOK, OpenOK, Told, Known, NoVerdict, Reads
<1> QED BY <1>1, <1>2, <1>3 DEF ExchangeInv

LEMMA NextExchange == ExchangeInv /\ [ExchangeNext]_exchange => ExchangeInv'
<1> SUFFICES ASSUME ExchangeInv, [ExchangeNext]_exchange PROVE ExchangeInv'
  OBVIOUS
<1>1. ASSUME NEW p \in ProductId, NEW op \in Op, NEW s \in SkuId, Begin(p, op, s)
      PROVE  ExchangeInv'
  BY <1>1, BeginKeeps
<1>2. ASSUME NEW p \in ProductId, Rollback(p) PROVE ExchangeInv'
  BY <1>2, RollbackKeeps
<1>3. ASSUME NEW p \in ProductId, CommitSeller(p) \/ ReadBack(p) \/ Conclude(p)
      PROVE  ExchangeInv'
  BY <1>3, CommitKeeps, ReadBackKeeps, ConcludeKeeps
<1>4. ASSUME NEW event \in late, Arrive(event) PROVE ExchangeInv'
  BY <1>4, ArriveKeeps
<1>5. ASSUME NEW v \in verdicts, ApplyVerdict(v) PROVE ExchangeInv'
  BY <1>5, VerdictKeeps
<1>6. CASE UNCHANGED exchange
  <2>1. UNCHANGED <<sku, product, version, judged, open, late, queue, reading, keys,
                    verdicts, mishaps, faults>>
    BY <1>6 DEF exchange, shop, peer
  <2>2. Rows' /\ ExchangeTypeOK' BY <2>1 DEF ExchangeInv, Rows, ExchangeTypeOK
  <2>3. ASSUME NEW q \in ProductId PROVE ProductOK(q)'
    <3>1. Untouched(q) BY <2>1 DEF Untouched, SameProduct
    <3> QED BY <3>1, UntouchedKeeps DEF ExchangeInv
  <2> QED BY <2>2, <2>3 DEF ExchangeInv
<1> QED BY <1>1, <1>2, <1>3, <1>4, <1>5, <1>6 DEF ExchangeNext, Sellers, Progress

\* The inductive invariant: types, what an open transaction still finds, what the
\* peer was told, and what it knows as long as nothing went wrong
\* (Moderation events posted inside the sellers' transactions).
THEOREM ExchangeInvariance == ExchangeSpec => []ExchangeInv
<1>1. ExchangeInit => ExchangeInv BY InitExchange
<1>2. ExchangeInv /\ [ExchangeNext]_exchange => ExchangeInv' BY NextExchange
<1> QED BY <1>1, <1>2, PTL DEF ExchangeSpec

\* A product on sale with a content the last verdict was not about was edited while
\* under review, read before a commit, or judged by a verdict that crossed its
\* withdrawal, unless the peer was misinformed about it.
THEOREM StaleApprovalOnlyByMishap == ExchangeSpec => []StaleApprovalExplained
<1>1. ExchangeInv => StaleApprovalExplained
  <2> SUFFICES ASSUME ExchangeInv, NEW p \in ProductId,
                      product[p].status = "MODERATED", ~product[p].deleted,
                      judged[p] # version[p], ~Misinformed(p)
               PROVE  mishaps[p] \intersect
                        {"silent edit", "read before commit", "crossed verdict"} # {}
    BY DEF StaleApprovalExplained
  <2>1. mishaps[p] \subseteq Mishap /\ Known(p)
    BY DEF ExchangeInv, ExchangeTypeOK, ProductOK
  <2>2. mishaps[p] # {} BY <2>1 DEF Known
  <2> QED BY <2>1, <2>2 DEF Misinformed, Mishap
<1> QED BY <1>1, ExchangeInvariance, PTL

\* Every variable of the exchange keeps its type and its bound.
THEOREM ExchangeTypes == ExchangeSpec => []ExchangeTypeOK
<1>1. ExchangeInv => ExchangeTypeOK BY DEF ExchangeInv
<1> QED BY <1>1, ExchangeInvariance, PTL
=============================================================================
