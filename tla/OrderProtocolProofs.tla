------------------------ MODULE OrderProtocolProofs ------------------------
(***************************************************************************)
(* Proofs about orders, for every number of orders, lines and SKUs and        *)
(* whatever the network does: an order that is over holds no units; what is   *)
(* reserved covers what the orders hold; and a confirmed order is settled.    *)
(*                                                                           *)
(* The argument.  What B2C believes of an order (its phase) was said by B2B,  *)
(* and B2B's record never forgets (RecordInv).  An order is settled one way,  *)
(* after its reserve (OrderOK), so each operation applied takes the order's   *)
(* own lines into or out of the sum of what is held (Covered), until somebody *)
(* who gave up has units returned that were not its own (Calm).               *)
(***************************************************************************)
EXTENDS OrderProtocol, Sums

\* An order is cancelled or shipped only on record, and the reserve of a refused
\* one is on record only if it was executed after the refusal, or by the delivery that
\* overtook the refused one.
PhaseOnRecord(o) ==
  /\ phase[o] = "cancelled" => Applied("unreserve", o)
  /\ phase[o] = "shipped" => Applied("fulfill", o)
  /\ phase[o] = "refused" /\ Applied("reserve", o) => o \in revived \union overtaken

RecordInv ==
  /\ DOMAIN phase = OrderId
  /\ \A o \in OrderId : PhaseOnRecord(o)

Code == {"ok", "refused", "error"}

LEMMA TransactRecords ==
  ASSUME NEW kind \in Operation, NEW o, NEW code \in Code, Transact(kind, o, code)
  PROVE  /\ code = "ok" => applied' = applied \union {<<kind, o>>} /\ Execute(kind, o)
         /\ code # "ok" => UNCHANGED ledger
         /\ code = "refused" => Refusable(kind, o)
<1>1. CASE code = "ok" /\ Execute(kind, o)
  <2>1. PICK k \in Operation : Fresh(RequestOf(kind, o), k)
          /\ applied' = applied \union {<<RequestOf(kind, o).kind, RequestOf(kind, o).key>>}
    BY <1>1 DEF Execute, Reserve, Unreserve, Fulfill, Move, Operation
  <2> QED BY <1>1, <2>1 DEF RequestOf
<1>2. CASE code # "ok" BY <1>2 DEF Transact
<1> QED BY <1>1, <1>2 DEF Transact

\* What serving a request records, and what a refusal says: only a delivery past its
\* query is refused what is on record.
LEMMA ServeRecords ==
  ASSUME NEW kind \in Operation, NEW o, NEW code \in Code,
         ServeSent(kind, o, code) \/ ServeLooked(kind, o, code)
  PROVE  /\ code = "ok" => applied' = applied \union {<<kind, o>>}
         /\ code # "ok" => UNCHANGED ledger
         /\ UNCHANGED ledger \/ Execute(kind, o)
         /\ code = "refused" => /\ Refusable(kind, o)
                                /\ <<kind, o>> \notin looked => ~Applied(kind, o)
<1>1. CASE Replay(kind, o, code) BY <1>1 DEF Replay, Applied, ledger
<1>2. CASE Transact(kind, o, code) /\ (<<kind, o>> \in looked \/ ~Applied(kind, o))
  BY <1>2, TransactRecords DEF Code
<1> QED BY <1>1, <1>2 DEF ServeSent, ServeLooked

LEMMA OutcomeValue ==
  ASSUME NEW code \in {"ok", "refused"}
  PROVE  /\ Outcome("reserve", code) = IF code = "ok" THEN "reserved" ELSE "refused"
         /\ Outcome("unreserve", code) = IF code = "ok" THEN "cancelled" ELSE "stuck"
         /\ Outcome("fulfill", code) = IF code = "ok" THEN "shipped" ELSE "stuck"
BY DEF Outcome

\* A step that changes the phase of one order, to one that claims nothing.
LEMMA NewPhase ==
  ASSUME RecordInv, NEW o \in OrderId, NEW new \in {"reserving", "cancelling", "shipping"},
         Become(o, new), UNCHANGED <<ledger, revived, overtaken>>
  PROVE  RecordInv'
BY DEF RecordInv, PhaseOnRecord, Become, Applied, ledger

LEMMA DeliverKeeps ==
  ASSUME RecordInv, NEW o \in OrderId, NEW heard \in BOOLEAN, Deliver(o, heard)
  PROVE  RecordInv'
<1>1. PICK kind \in Operation, code \in Code :
        /\ ServeSent(kind, o, code) \/ ServeLooked(kind, o, code)
        /\ IF heard THEN Hear(kind, o, code) ELSE UNCHANGED phase
        /\ revived' = IF phase[o] = "refused" /\ applied' # applied
                      THEN revived \union {o} ELSE revived
        /\ overtaken' = IF code = "refused" /\ Applied(kind, o) /\ phase'[o] # phase[o]
                        THEN overtaken \union {o} ELSE overtaken
  BY DEF Deliver, Serve, Code
<1>2. /\ code = "ok" => applied' = applied \union {<<kind, o>>}
      /\ code # "ok" => applied' = applied
  BY <1>1, ServeRecords DEF ledger
<1>3. /\ applied \subseteq applied' /\ revived \subseteq revived'
      /\ overtaken \subseteq overtaken'
  BY <1>1, <1>2
<1>4. DOMAIN phase' = OrderId /\ \A x \in OrderId : x # o => phase'[x] = phase[x]
  BY <1>1 DEF RecordInv, Hear, Become
<1>5. ASSUME NEW x \in OrderId, x # o PROVE PhaseOnRecord(x)'
  <2>1. \A k \in Operation : <<k, x>> \in applied' <=> <<k, x>> \in applied
    BY <1>2, <1>5
  <2> QED BY <1>3, <1>4, <1>5, <2>1 DEF RecordInv, PhaseOnRecord, Applied, Operation
<1>6. CASE phase'[o] = phase[o]
  <2>1. phase[o] = "refused" /\ Applied("reserve", o)' => o \in (revived \union overtaken)'
    BY <1>1, <1>3 DEF RecordInv, PhaseOnRecord, Applied
  <2> QED BY <1>3, <1>4, <1>5, <1>6, <2>1 DEF RecordInv, PhaseOnRecord, Applied
<1>7. CASE phase'[o] # phase[o]
  <2>1. /\ Pending(o) /\ Awaits[phase[o]] = kind /\ phase'[o] = Outcome(kind, code)
        /\ code \in {"ok", "refused"}
    BY <1>1, <1>7 DEF RecordInv, Hear, Become, Code
  <2>2. \/ kind = "reserve" /\ phase'[o] \in {"reserved", "refused"}
           /\ (phase'[o] = "refused" => code = "refused")
        \/ kind = "unreserve" /\ phase'[o] \in {"cancelled", "stuck"}
           /\ (phase'[o] = "cancelled" => code = "ok")
        \/ kind = "fulfill" /\ phase'[o] \in {"shipped", "stuck"}
           /\ (phase'[o] = "shipped" => code = "ok")
    BY <2>1, OutcomeValue DEF Operation
  <2>3. phase'[o] = "refused" /\ Applied("reserve", o)' => o \in overtaken'
    BY <1>1, <1>2, <1>7, <2>2 DEF Applied
  <2>4. PhaseOnRecord(o)' BY <1>2, <2>2, <2>3 DEF PhaseOnRecord, Applied
  <2> QED BY <1>4, <1>5, <2>4 DEF RecordInv
<1> QED BY <1>6, <1>7

LEMMA RecordNext == RecordInv /\ [OrderNext]_world => RecordInv'
<1> SUFFICES ASSUME RecordInv, [OrderNext]_world PROVE RecordInv' OBVIOUS
<1>1. ASSUME UNCHANGED <<applied, phase, revived, overtaken>> PROVE RecordInv'
  BY <1>1 DEF RecordInv, PhaseOnRecord, Applied
<1>2. ASSUME NEW o \in OrderId, Place(o) \/ Settle(o) \/ GiveUp(o) PROVE RecordInv'
  BY <1>2, NewPhase DEF Place, Settle, GiveUp
<1>3. ASSUME NEW o \in OrderId, Resend(o) PROVE RecordInv'
  BY <1>1, <1>3 DEF Resend, ledger
<1>4. ASSUME NEW m, Lose(m) PROVE RecordInv' BY <1>1, <1>4 DEF Lose, ledger
<1>7. ASSUME NEW o \in OrderId, NEW kind \in Operation, LookUp(kind, o) PROVE RecordInv'
  BY <1>1, <1>7 DEF LookUp, ledger
<1>5. CASE Others BY <1>1, <1>5 DEF Others, Remove, Judge, protocol
<1>6. CASE UNCHANGED world BY <1>1, <1>6 DEF world, ledger, protocol
<1> QED BY <1>2, <1>3, <1>4, <1>5, <1>6, <1>7, DeliverKeeps DEF OrderNext

\* What B2C believes of an order is on B2B's record.
THEOREM RecordInvariance == OrderSpec => []RecordInv
<1>1. OrderInit => RecordInv BY DEF OrderInit, RecordInv, PhaseOnRecord
<1> QED BY <1>1, RecordNext, PTL DEF OrderSpec

\* An order that is over has given back or shipped what it reserved, whatever was
\* lost, repeated or reordered, unless its reserve was refused and executed both: by
\* a late duplicate, or by the delivery that overtook the refused one.
THEOREM OverHoldsNothing == OrderSpec => []NothingLeaks
<1>1. RecordInv => NothingLeaks
  BY DEF RecordInv, PhaseOnRecord, NothingLeaks, Over, Holds, Settled
<1> QED BY <1>1, RecordInvariance, PTL

-----------------------------------------------------------------------------
\* What the lines of an order come to.

\* The sum, line by line, of what the items ask of s.
Quantities(items) == [i \in DOMAIN items |-> items[i].quantity]
LinesFor(items, s) == {i \in DOMAIN items : items[i].sku = s}

LEMMA LinesFinite ==
  ASSUME NEW items \in Seq(Item)
  PROVE  /\ IsFiniteSet(DOMAIN items)
         /\ \A i \in DOMAIN items : /\ items[i].sku \in SkuId
                                    /\ Quantities(items)[i] \in Nat \ {0}
<1>1. DOMAIN items = 1..Len(items) /\ Len(items) \in Nat OBVIOUS
<1>2. \A i \in DOMAIN items : items[i] \in Item OBVIOUS
<1>3. IsFiniteSet(1..Len(items)) BY <1>1, FS_Interval
<1> QED BY <1>1, <1>2, <1>3 DEF Quantities, Item

\* CollapseItems folds over the lines in some order: every order gives the sum.
LEMMA CollapseIsSum ==
  ASSUME NEW items \in Seq(Item), NEW s \in SkuId
  PROVE  CollapseItems(items, SkuId)[s] =
           SumFunctionOnSet(Quantities(items), LinesFor(items, s))
<1> DEFINE T == DOMAIN items
<1> DEFINE pick(U) == CHOOSE i \in U : TRUE
<1> DEFINE sum(U, x) == SumFunctionOnSet(Quantities(items), {i \in U : items[i].sku = x})
<1> DEFINE add(i, total) == [total EXCEPT ![items[i].sku] = @ + items[i].quantity]
<1> DEFINE body(iter) == [U \in SUBSET T |->
                            IF U = {} THEN [x \in SkuId |-> 0]
                            ELSE add(pick(U), iter[U \ {pick(U)}])]
<1> DEFINE it == CHOOSE iter : iter = body(iter)
<1> DEFINE h == [U \in SUBSET T |-> [x \in SkuId |-> sum(U, x)]]
<1>1. CollapseItems(items, SkuId) = it[T]
  BY DEF CollapseItems, FoldFunction, FoldFunctionOnSet, MapThenFoldSet
<1>2. \A U \in SUBSET T : U # {} => pick(U) \in U /\ U \ {pick(U)} \in SUBSET T
  OBVIOUS
<1>3. ASSUME NEW U \in SUBSET T, NEW i \in U
      PROVE  [x \in SkuId |-> sum(U, x)] = add(i, [x \in SkuId |-> sum(U \ {i}, x)])
  <2>1. IsFiniteSet(U) /\ items[i].sku \in SkuId /\ Quantities(items)[i] = items[i].quantity
    BY LinesFinite, FS_Subset DEF Quantities
  <2>2. ASSUME NEW x \in SkuId
        PROVE  sum(U, x) = IF x = items[i].sku THEN sum(U \ {i}, x) + items[i].quantity
                           ELSE sum(U \ {i}, x)
    <3> DEFINE V == {k \in U : items[k].sku = x}
    <3>1. IsFiniteSet(V) /\ \A k \in V : Quantities(items)[k] \in Int
      BY <2>1, LinesFinite, FS_Subset
    <3>2. CASE x = items[i].sku
      <4>1. i \in V /\ {k \in U \ {i} : items[k].sku = x} = V \ {i} BY <3>2
      <4>2. IsFiniteSet(V \ {i}) BY <3>1, FS_Subset
      <4> HIDE DEF V
      <4>3. SumFunctionOnSet(Quantities(items), V)
              = Quantities(items)[i] + SumFunctionOnSet(Quantities(items), V \ {i})
        BY <3>1, <4>1, SumRemove
      <4>4. /\ SumFunctionOnSet(Quantities(items), V \ {i}) \in Int
            /\ Quantities(items)[i] \in Int
        BY <3>1, <4>1, <4>2, SumType
      <4>5. SumFunctionOnSet(Quantities(items), V)
              = SumFunctionOnSet(Quantities(items), V \ {i}) + Quantities(items)[i]
        BY <4>3, <4>4
      <4> USE DEF V
      <4> QED BY <2>1, <3>2, <4>1, <4>5
    <3>3. CASE x # items[i].sku
      <4>1. {k \in U \ {i} : items[k].sku = x} = V BY <3>3
      <4> QED BY <3>3, <4>1
    <3> QED BY <3>2, <3>3
  <2> HIDE DEF sum
  <2> QED BY <2>1, <2>2
<1>4. \A x \in SkuId : sum({}, x) = 0
  <2>1. \A x : {i \in {} : items[i].sku = x} = {} OBVIOUS
  <2> QED BY <2>1, SumEmpty
<1> HIDE DEF pick, sum, add, it
<1>5. h = body(h)
  <2>1. \A U \in SUBSET T : h[U] = IF U = {} THEN [x \in SkuId |-> 0]
                                   ELSE add(pick(U), h[U \ {pick(U)}])
    BY <1>2, <1>3, <1>4
  <2> QED BY <2>1
<1>6. it = body(it)
  <2> HIDE DEF h, body
  <2> QED BY <1>5 DEF it
<1>7. \A U \in SUBSET T : it[U] = h[U]
  <2> DEFINE D == {U \in SUBSET T : it[U] # h[U]}
  <2> SUFFICES ASSUME D # {} PROVE FALSE OBVIOUS
  <2>1. PICK U \in D : \A V \in D : V \subseteq U => V = U
    <3>1. D \in SUBSET SUBSET T /\ IsFiniteSet(T) BY LinesFinite
    <3> HIDE DEF D, T
    <3> QED BY <3>1, LeastSubset
  <2>2. U # {} BY <1>4, <1>6, <2>1
  <2>3. U \ {pick(U)} \notin D BY <1>2, <2>1, <2>2
  <2>4. it[U] = add(pick(U), it[U \ {pick(U)}]) BY <1>6, <2>1, <2>2
  <2>5. h[U] = add(pick(U), h[U \ {pick(U)}]) BY <1>5, <2>1, <2>2
  <2> QED BY <1>2, <2>1, <2>2, <2>3, <2>4, <2>5
<1>8. it[T][s] = sum(T, s)
  <2>1. T \in SUBSET T OBVIOUS
  <2>2. it[T] = h[T] BY <1>7, <2>1
  <2> HIDE DEF T
  <2>3. h[T] = [x \in SkuId |-> sum(T, x)] BY <2>1
  <2> HIDE DEF h
  <2> QED BY <2>2, <2>3
<1> QED BY <1>1, <1>8 DEF sum, LinesFor

\* What a request of o carries for s is what its lines ask of s.
LEMMA RequestFacts ==
  ASSUME NEW kind, NEW o \in OrderId, NEW s \in SkuId
  PROVE  /\ RequestOf(kind, o).qty[s] = Asks(o, s) /\ Asks(o, s) \in Nat
         /\ s \in RequestOf(kind, o).skus <=> Asks(o, s) > 0
<1> DEFINE w == Quantities(Lines[o])
<1> DEFINE S == LinesFor(Lines[o], s)
<1>1. Lines[o] \in Seq(Item) BY OrderAssumption
<1>2. Asks(o, s) = SumFunctionOnSet(w, S) BY DEF Asks, Quantities, LinesFor
<1>3. RequestOf(kind, o).qty[s] = SumFunctionOnSet(w, S)
  BY <1>1, CollapseIsSum DEF RequestOf, Quantity
<1>4. IsFiniteSet(S) /\ \A i \in S : w[i] \in Nat \ {0}
  BY <1>1, LinesFinite, FS_Subset DEF LinesFor
<1>5. s \in RequestOf(kind, o).skus <=> S # {}
  BY DEF RequestOf, RequestedSkus, LinesFor
<1> HIDE DEF S, w
<1>6. SumFunctionOnSet(w, S) \in Nat BY <1>4, SumCovers
<1>7. S = {} => SumFunctionOnSet(w, S) = 0 BY SumEmpty
<1>8. ASSUME NEW i \in S PROVE SumFunctionOnSet(w, S) > 0
  <2>1. w[i] \in Nat \ {0} BY <1>4
  <2>2. SumFunctionOnSet(w, {i}) = w[i] BY <2>1, SumSingle
  <2>3. SumFunctionOnSet(w, {i}) <= SumFunctionOnSet(w, S) BY <1>4, SumCovers
  <2> QED BY <1>6, <2>1, <2>2, <2>3
<1> QED BY <1>2, <1>3, <1>5, <1>6, <1>7, <1>8

SkuStock == [state : {"unborn", "live", "deleted"}, active : Nat, reserved : Nat]
StockOK  == stock \in [SkuId -> SkuStock]

\* What is reserved moves by what the order asks for, SKU by SKU.
ReservedDelta(kind, o, s) == IF kind = "reserve" THEN Asks(o, s) ELSE 0 - Asks(o, s)

LEMMA MoveEffect ==
  ASSUME StockOK, NEW r, NEW dActive \in Int, NEW dReserved \in Int,
         Move(r, dActive, dReserved), NEW s \in SkuId
  PROVE  /\ DOMAIN stock' = SkuId
         /\ s \notin r.skus => stock'[s] = stock[s]
         /\ s \in r.skus =>
              stock'[s] = [state |-> stock[s].state,
                           active |-> stock[s].active + dActive * r.qty[s],
                           reserved |-> stock[s].reserved + dReserved * r.qty[s]]
<1>1. stock[s] = [state |-> stock[s].state, active |-> stock[s].active,
                  reserved |-> stock[s].reserved]
  BY DEF StockOK, SkuStock
<1>2. stock'[s] = IF s \in r.skus
                  THEN [stock[s] EXCEPT !.active   = stock[s].active + dActive * r.qty[s],
                                        !.reserved = stock[s].reserved + dReserved * r.qty[s]]
                  ELSE stock[s]
  BY DEF Move
<1> QED BY <1>1, <1>2 DEF Move

LEMMA ExecuteEffect ==
  ASSUME StockOK, NEW kind \in Operation, NEW o \in OrderId, Execute(kind, o)
  PROVE  /\ ~Applied(kind, o) /\ applied' = applied \union {<<kind, o>>}
         /\ StockOK'
         /\ \A s \in SkuId :
              /\ stock'[s].state = stock[s].state
              /\ stock'[s].reserved = stock[s].reserved + ReservedDelta(kind, o, s)
              /\ Asks(o, s) > 0 => stock[s].state = "live"
<1> DEFINE r == RequestOf(kind, o)
<1>1. r.kind = kind /\ r.key = o BY DEF RequestOf
<1>2. \A s \in SkuId : /\ r.qty[s] = Asks(o, s) /\ Asks(o, s) \in Nat
                       /\ s \in r.skus <=> Asks(o, s) > 0
  BY RequestFacts
<1>3. Reserve(r) \/ Unreserve(r) \/ Fulfill(r) BY DEF Execute
<1> HIDE DEF r
<1> DEFINE Executes(dActive, dReserved) ==
      /\ Move(r, dActive, dReserved)
      /\ \A s \in r.skus : stock[s].state = "live"
      /\ dReserved = IF kind = "reserve" THEN 1 ELSE -1
      /\ dReserved = -1 => \A s \in r.skus : stock[s].reserved >= r.qty[s]
      /\ dActive = -1 => \A s \in r.skus : stock[s].active >= r.qty[s]
<1>4. ASSUME NEW dActive \in {-1, 0, 1}, NEW dReserved \in {-1, 1},
             Executes(dActive, dReserved)
      PROVE  /\ StockOK'
             /\ \A s \in SkuId :
                  /\ stock'[s].state = stock[s].state
                  /\ stock'[s].reserved = stock[s].reserved + ReservedDelta(kind, o, s)
                  /\ Asks(o, s) > 0 => stock[s].state = "live"
  <2>0. \A s \in SkuId :
          /\ s \notin r.skus => stock'[s] = stock[s]
          /\ s \in r.skus =>
               stock'[s] = [state |-> stock[s].state,
                            active |-> stock[s].active + dActive * r.qty[s],
                            reserved |-> stock[s].reserved + dReserved * r.qty[s]]
    <3>1. dActive \in Int /\ dReserved \in Int OBVIOUS
    <3> QED BY <1>4, <3>1, MoveEffect
  <2>1. ASSUME NEW s \in SkuId
        PROVE  /\ stock'[s] \in SkuStock /\ stock'[s].state = stock[s].state
               /\ stock'[s].reserved = stock[s].reserved + ReservedDelta(kind, o, s)
    <3>1. stock[s] \in SkuStock BY DEF StockOK
    <3>2. CASE s \in r.skus
      <4>1. stock'[s] = [state |-> stock[s].state,
                         active |-> stock[s].active + dActive * Asks(o, s),
                         reserved |-> stock[s].reserved + dReserved * Asks(o, s)]
        BY <1>2, <2>0, <3>2
      <4>2. /\ stock[s].active + dActive * Asks(o, s) \in Nat
            /\ stock[s].reserved + dReserved * Asks(o, s) \in Nat
            /\ dReserved * Asks(o, s) = ReservedDelta(kind, o, s)
        BY <1>2, <1>4, <3>1, <3>2 DEF SkuStock, ReservedDelta
      <4> QED BY <3>1, <4>1, <4>2 DEF SkuStock
    <3>3. CASE s \notin r.skus
      <4>1. stock'[s] = stock[s] BY <2>0, <3>3
      <4>2. ReservedDelta(kind, o, s) = 0 BY <1>2, <3>3 DEF ReservedDelta
      <4> QED BY <3>1, <4>1, <4>2 DEF SkuStock
    <3> QED BY <3>2, <3>3
  <2>2. stock' = [s \in SkuId |-> stock'[s]] BY <1>4 DEF Move
  <2> QED BY <1>2, <1>4, <2>1, <2>2 DEF StockOK
<1> HIDE DEF Executes
<1>5. CASE Reserve(r)
  <2>1. Move(r, -1, 1) /\ kind = "reserve" /\ ~Applied(kind, o)
    BY <1>1, <1>5 DEF Reserve, Fresh, Applied
  <2>2. /\ \A s \in r.skus : stock[s].state = "live"
        /\ \A s \in r.skus : stock[s].active >= r.qty[s]
    BY <1>5 DEF Reserve, Reservable
  <2>3. applied' = applied \union {<<kind, o>>} BY <1>1, <2>1 DEF Move
  <2>4. Executes(-1, 1) BY <2>1, <2>2 DEF Executes
  <2> QED BY <1>4, <2>1, <2>3, <2>4
<1>6. CASE Unreserve(r)
  <2>1. Move(r, 1, -1) /\ kind = "unreserve" /\ ~Applied(kind, o)
    BY <1>1, <1>6 DEF Unreserve, Fresh, Applied
  <2>2. /\ \A s \in r.skus : stock[s].state = "live"
        /\ \A s \in r.skus : stock[s].reserved >= r.qty[s]
    BY <1>6 DEF Unreserve, Returnable
  <2>3. applied' = applied \union {<<kind, o>>} BY <1>1, <2>1 DEF Move
  <2>4. Executes(1, -1) BY <2>1, <2>2 DEF Executes
  <2> QED BY <1>4, <2>1, <2>3, <2>4
<1>7. CASE Fulfill(r)
  <2>1. Move(r, 0, -1) /\ kind = "fulfill" /\ ~Applied(kind, o)
    BY <1>1, <1>7 DEF Fulfill, Fresh, Applied
  <2>2. /\ \A s \in r.skus : stock[s].state = "live"
        /\ \A s \in r.skus : stock[s].reserved >= r.qty[s]
    BY <1>7 DEF Fulfill, Returnable
  <2>3. applied' = applied \union {<<kind, o>>} BY <1>1, <2>1 DEF Move
  <2>4. Executes(0, -1) BY <2>1, <2>2 DEF Executes
  <2> QED BY <1>4, <2>1, <2>3, <2>4
<1> QED BY <1>3, <1>5, <1>6, <1>7

-----------------------------------------------------------------------------
\* What is on its way or on record for an order fits its phase: B2C settles an order
\* one way, and, unless it gave up, only after it heard that the reserve succeeded.
Sent(kind, o) == <<kind, o>> \in net \union looked \union applied

Open == {"reserved", "cancelling", "shipping"}

OrderOK(o) ==
  /\ ~(Sent("unreserve", o) /\ Sent("fulfill", o))
  /\ phase[o] \in {"new", "reserving", "reserved"} =>
       ~Sent("unreserve", o) /\ ~Sent("fulfill", o)
  /\ phase[o] = "cancelling" => ~Sent("fulfill", o)
  /\ phase[o] = "shipping" => ~Sent("unreserve", o)
  /\ o \in gaveUp =>
       phase[o] \in {"cancelling", "cancelled", "stuck"} /\ ~Sent("fulfill", o)
  /\ o \notin gaveUp /\ (phase[o] \in Open \/ Sent("unreserve", o) \/ Sent("fulfill", o)) =>
       Applied("reserve", o)

\* Nobody gave back what it had not reserved yet.
Calm == \A g \in gaveUp : ~Applied("unreserve", g)

Held(s)  == {o \in OrderId : Holds(o) /\ Asks(o, s) > 0}
Asked(s) == [o \in OrderId |-> Asks(o, s)]

Covered(s) ==
  /\ Held(s) # {} => stock[s].state = "live"
  /\ stock[s].state = "live" =>
       stock[s].reserved = InitialSku[s].reserved + SumFunctionOnSet(Asked(s), Held(s))

OrderTypes == OrderTypeOK /\ StockOK /\ gaveUp \subseteq OrderId

OrderInv ==
  /\ OrderTypes
  /\ \A o \in OrderId : OrderOK(o)
  /\ Calm => \A s \in SkuId : Covered(s)
  /\ SettlementNotRefused

\* The units held of s are a sum of positive numbers.
LEMMA HeldSum ==
  ASSUME NEW s \in SkuId
  PROVE  /\ IsFiniteSet(Held(s)) /\ Held(s) \subseteq OrderId
         /\ \A o \in OrderId : Asked(s)[o] = Asks(o, s) /\ Asks(o, s) \in Nat
         /\ SumFunctionOnSet(Asked(s), Held(s)) \in Nat
         /\ \A o \in Held(s) : Asks(o, s) <= SumFunctionOnSet(Asked(s), Held(s))
<1>1. IsFiniteSet(Held(s)) /\ Held(s) \subseteq OrderId
  BY OrderAssumption, FS_Subset DEF Held
<1>2. \A o \in OrderId : Asked(s)[o] = Asks(o, s) /\ Asks(o, s) \in Nat
  BY RequestFacts DEF Asked
<1>3. \A o \in Held(s) : Asked(s)[o] \in Nat BY <1>1, <1>2
<1>4. SumFunctionOnSet(Asked(s), Held(s)) \in Nat BY <1>1, <1>3, SumCovers
<1>5. ASSUME NEW o \in Held(s)
      PROVE  Asks(o, s) <= SumFunctionOnSet(Asked(s), Held(s))
  <2>1. SumFunctionOnSet(Asked(s), {o}) = Asks(o, s) BY <1>1, <1>2, SumSingle
  <2>2. {o} \in SUBSET Held(s) OBVIOUS
  <2> QED BY <1>1, <1>3, <2>1, <2>2, SumCovers
<1> QED BY <1>1, <1>2, <1>4, <1>5

LEMMA InitOrders == OrderInit => OrderInv
<1> SUFFICES ASSUME OrderInit PROVE OrderInv OBVIOUS
<1>1. StockOK /\ OrderTypes
  BY OrderAssumption DEF OrderInit, Init, OrderTypes, OrderTypeOK, StockOK, SkuStock, Awaits
<1>2. \A o \in OrderId : OrderOK(o)
  BY DEF OrderInit, Init, OrderOK, Sent, Open
<1>3. ASSUME NEW s \in SkuId PROVE Covered(s)
  <2>1. Held(s) = {} BY DEF OrderInit, Init, Held, Holds, Applied
  <2>2. SumFunctionOnSet(Asked(s), Held(s)) = 0 BY <2>1, SumEmpty
  <2>3. stock[s].reserved = InitialSku[s].reserved + 0
    BY OrderAssumption DEF OrderInit, Init
  <2> QED BY <2>1, <2>2, <2>3 DEF Covered
<1>4. SettlementNotRefused BY DEF OrderInit, SettlementNotRefused
<1> QED BY <1>1, <1>2, <1>3, <1>4 DEF OrderInv

-----------------------------------------------------------------------------
\* B2C's own steps.

LEMMA ClientKeeps ==
  ASSUME OrderInv, UNCHANGED ledger, OrderTypeOK', gaveUp' \subseteq OrderId,
         gaveUp \subseteq gaveUp', \A o \in OrderId : OrderOK(o)',
         \A o \in OrderId : phase'[o] = "stuck" => phase[o] = "stuck"
  PROVE  OrderInv'
<1> USE DEF ledger
<1>1. OrderTypes' BY DEF OrderInv, OrderTypes, StockOK
<1>2. Calm' => Calm BY DEF Calm, Applied
<1>3. \A s \in SkuId : Covered(s)' <=> Covered(s)
  BY DEF Covered, Held, Holds, Settled, Applied, Asked, Asks
<1>4. SettlementNotRefused'
  BY DEF OrderInv, OrderTypes, SettlementNotRefused, Applied
<1> QED BY <1>1, <1>2, <1>3, <1>4 DEF OrderInv

LEMMA SendKeeps ==
  ASSUME OrderInv, NEW o \in OrderId, UNCHANGED ledger,
         Place(o) \/ Settle(o) \/ GiveUp(o) \/ Resend(o)
  PROVE  OrderInv'
<1> USE DEF ledger
<1>1. OrderTypeOK /\ gaveUp \subseteq OrderId BY DEF OrderInv, OrderTypes
<1>2. OrderTypeOK' /\ gaveUp' \subseteq OrderId /\ gaveUp \subseteq gaveUp'
  <2>1. phase[o] \in DOMAIN Awaits => Awaits[phase[o]] \in Operation
    BY DEF Awaits, Operation
  <2>2. UNCHANGED <<looked, applied>> /\ gaveUp \subseteq gaveUp'
    BY DEF Place, Settle, GiveUp, Resend
  <2>3. /\ gaveUp' \subseteq OrderId /\ stock' = stock
        /\ net' \subseteq Operation \X OrderId
    BY <1>1, <2>1
       DEF OrderTypeOK, Place, Settle, GiveUp, Resend, Send, Pending, Awaits, Operation
  <2>4. phase' \in [OrderId -> DOMAIN Awaits \union
                      {"new", "refused", "reserved", "cancelled", "shipped", "stuck"}]
    BY <1>1 DEF OrderTypeOK, Place, Settle, GiveUp, Resend, Become, Awaits
  <2> QED BY <1>1, <2>2, <2>3, <2>4 DEF OrderTypeOK
<1>3. ASSUME NEW x \in OrderId, x # o PROVE OrderOK(x)'
  <2>1. /\ phase'[x] = phase[x] /\ (x \in gaveUp' <=> x \in gaveUp)
        /\ \A kind : Sent(kind, x)' <=> Sent(kind, x)
    BY <1>1, <1>3 DEF OrderTypeOK, Place, Settle, GiveUp, Resend, Become, Send, Sent
  <2>2. OrderOK(x) BY DEF OrderInv
  <2> QED BY <2>1, <2>2 DEF OrderOK, Applied
<1>4. OrderOK(o)'
  <2>1. OrderOK(o) BY DEF OrderInv
  <2>2. CASE Place(o)
    BY <1>1, <2>1, <2>2 DEF OrderTypeOK, Place, Become, Send, Sent, OrderOK, Applied, Open
  <2>3. CASE Settle(o)
    BY <1>1, <2>1, <2>3
       DEF OrderTypeOK, Settle, Become, Send, Sent, OrderOK, Applied, Open, Awaits
  <2>4. CASE GiveUp(o)
    BY <1>1, <2>1, <2>4 DEF OrderTypeOK, GiveUp, Become, Send, Sent, OrderOK, Applied, Open
  <2>5. CASE Resend(o)
    BY <1>1, <2>1, <2>5
       DEF OrderTypeOK, Resend, Pending, Send, Sent, OrderOK, Applied, Open, Awaits
  <2> QED BY <2>2, <2>3, <2>4, <2>5
<1>5. \A x \in OrderId : phase'[x] = "stuck" => phase[x] = "stuck"
  BY <1>1 DEF OrderTypeOK, Place, Settle, GiveUp, Resend, Become
<1> QED BY <1>2, <1>3, <1>4, <1>5, ClientKeeps

LEMMA LoseKeeps ==
  ASSUME OrderInv, NEW m, Lose(m)
  PROVE  OrderInv'
<1>1. /\ UNCHANGED <<ledger, phase, gaveUp>>
      /\ net' \subseteq net /\ looked' \subseteq looked
  BY DEF Lose
<1>2. OrderTypeOK' BY <1>1 DEF OrderInv, OrderTypes, OrderTypeOK, ledger
<1>3. \A o \in OrderId : \A kind : Sent(kind, o)' => Sent(kind, o)
  BY <1>1 DEF Sent, ledger
<1>4. \A o \in OrderId : OrderOK(o)'
  BY <1>1, <1>3 DEF OrderInv, OrderOK, Applied, ledger
<1> QED BY <1>1, <1>2, <1>4, ClientKeeps DEF OrderInv, OrderTypes

LEMMA LookUpKeeps ==
  ASSUME OrderInv, NEW x \in OrderId, NEW k \in Operation, LookUp(k, x)
  PROVE  OrderInv'
<1>1. /\ UNCHANGED <<ledger, phase, gaveUp>>
      /\ net' \subseteq net /\ looked' = looked \union {<<k, x>>}
      /\ k \in {"reserve", "unreserve"} /\ <<k, x>> \in net
  BY DEF LookUp
<1>2. OrderTypeOK' BY <1>1 DEF OrderInv, OrderTypes, OrderTypeOK, ledger
<1>3. \A o \in OrderId : \A kind : Sent(kind, o)' => Sent(kind, o)
  BY <1>1 DEF Sent, ledger
<1>4. \A o \in OrderId : OrderOK(o)'
  BY <1>1, <1>3 DEF OrderInv, OrderOK, Applied, ledger
<1> QED BY <1>1, <1>2, <1>4, ClientKeeps DEF OrderInv, OrderTypes

-----------------------------------------------------------------------------
\* A request is served.

\* The orders that hold units after an operation of o.
LEMMA HoldersStep ==
  ASSUME OrderInv, Calm, Calm', NEW o \in OrderId, NEW kind \in Operation,
         Sent(kind, o), ~Applied(kind, o), applied' = applied \union {<<kind, o>>},
         gaveUp' = gaveUp
  PROVE  /\ \A x \in OrderId : x # o => (Holds(x)' <=> Holds(x))
         /\ kind = "reserve" => ~Holds(o) /\ Holds(o)'
         /\ kind # "reserve" => Holds(o) /\ ~Holds(o)'
<1>1. \A x \in OrderId, k \in Operation : x # o => (Applied(k, x)' <=> Applied(k, x))
  BY DEF Applied
<1>2. \A x \in OrderId : x # o => (Holds(x)' <=> Holds(x))
  BY <1>1 DEF Holds, Settled, Operation
<1>3. OrderOK(o) BY DEF OrderInv
<1>4. CASE kind = "reserve"
  <2>1. ~Settled(o)
    BY <1>3, <1>4 DEF OrderOK, Settled, Applied, Sent, Calm
  <2>2. Applied("reserve", o)' /\ ~Settled(o)' /\ ~Holds(o)
    BY <1>4, <2>1 DEF Settled, Applied, Holds
  <2> QED BY <1>2, <1>4, <2>1, <2>2 DEF Holds
<1>5. CASE kind # "reserve"
  <2>1. o \notin gaveUp
    BY <1>3, <1>5 DEF OrderOK, Calm, Applied, Operation
  <2>2. Applied("reserve", o) /\ ~Settled(o)
    BY <1>3, <1>5, <2>1 DEF OrderOK, Settled, Applied, Sent, Operation
  <2>3. Settled(o)' BY <1>5 DEF Settled, Applied, Operation
  <2> QED BY <1>2, <1>5, <2>2, <2>3 DEF Holds
<1> QED BY <1>4, <1>5

LEMMA ExecuteCovers ==
  ASSUME OrderInv, Calm, Calm', NEW o \in OrderId, NEW kind \in Operation,
         Sent(kind, o), Execute(kind, o), gaveUp' = gaveUp, NEW s \in SkuId
  PROVE  Covered(s)'
<1>1. StockOK /\ Covered(s) BY DEF OrderInv, OrderTypes
<1>2. /\ ~Applied(kind, o) /\ applied' = applied \union {<<kind, o>>}
      /\ stock'[s].state = stock[s].state
      /\ stock'[s].reserved = stock[s].reserved + ReservedDelta(kind, o, s)
      /\ Asks(o, s) > 0 => stock[s].state = "live"
  BY <1>1, ExecuteEffect
<1>3. /\ \A x \in OrderId : x # o => (Holds(x)' <=> Holds(x))
      /\ kind = "reserve" => ~Holds(o) /\ Holds(o)'
      /\ kind # "reserve" => Holds(o) /\ ~Holds(o)'
  BY <1>2, HoldersStep
<1>4. /\ IsFiniteSet(Held(s)) /\ Held(s) \subseteq OrderId
      /\ \A x \in OrderId : Asked(s)[x] = Asks(x, s) /\ Asks(x, s) \in Nat
  BY HeldSum
<1>5. SumFunctionOnSet(Asked(s), Held(s)) \in Nat BY HeldSum
<1>6. /\ stock[s].reserved \in Nat /\ InitialSku[s].reserved \in Nat
      /\ stock'[s].reserved \in Int
  BY <1>1, <1>2, <1>4, OrderAssumption DEF StockOK, SkuStock, ReservedDelta
<1>7. Asked(s)' = Asked(s) /\ Held(s)' = {x \in OrderId : Holds(x)' /\ Asks(x, s) > 0}
  BY DEF Asked, Held, Asks
<1>8. CASE Asks(o, s) = 0
  <2>1. Held(s)' = Held(s) BY <1>3, <1>7, <1>8 DEF Held
  <2>3. ReservedDelta(kind, o, s) = 0 BY <1>8 DEF ReservedDelta
  <2>4. stock'[s].reserved = stock[s].reserved BY <1>2, <1>6, <2>3
  <2> QED BY <1>1, <1>2, <1>7, <2>1, <2>4 DEF Covered
<1>9. CASE Asks(o, s) > 0 /\ kind = "reserve"
  <2>1. Held(s)' = Held(s) \union {o} /\ o \notin Held(s) BY <1>3, <1>7, <1>9 DEF Held
  <2>2. SumFunctionOnSet(Asked(s), Held(s) \union {o})
          = Asks(o, s) + SumFunctionOnSet(Asked(s), Held(s))
    BY <1>4, <2>1, SumAdd
  <2>3. stock'[s].reserved = stock[s].reserved + Asks(o, s)
    BY <1>2, <1>9 DEF ReservedDelta
  <2>4. stock[s].reserved = InitialSku[s].reserved + SumFunctionOnSet(Asked(s), Held(s))
    BY <1>1, <1>2, <1>9 DEF Covered
  <2>5. stock'[s].reserved = InitialSku[s].reserved
                               + SumFunctionOnSet(Asked(s), Held(s) \union {o})
    BY <1>4, <1>5, <1>6, <2>2, <2>3, <2>4
  <2>6. stock'[s].state = "live" BY <1>2, <1>9
  <2> QED BY <1>7, <2>1, <2>5, <2>6 DEF Covered
<1>10. CASE Asks(o, s) > 0 /\ kind # "reserve"
  <2>1. Held(s)' = Held(s) \ {o} /\ o \in Held(s) BY <1>3, <1>7, <1>10 DEF Held
  <2>2. SumFunctionOnSet(Asked(s), Held(s))
          = Asks(o, s) + SumFunctionOnSet(Asked(s), Held(s) \ {o})
    BY <1>4, <2>1, SumRemove
  <2>3. stock'[s].reserved = stock[s].reserved - Asks(o, s)
    BY <1>2, <1>4, <1>6, <1>10 DEF ReservedDelta
  <2>4. stock[s].reserved = InitialSku[s].reserved + SumFunctionOnSet(Asked(s), Held(s))
    BY <1>1, <1>2, <1>10 DEF Covered
  <2>5. SumFunctionOnSet(Asked(s), Held(s) \ {o}) \in Int
    <3>1. IsFiniteSet(Held(s) \ {o}) BY <1>4, FS_Subset
    <3>2. \A x \in Held(s) \ {o} : Asked(s)[x] \in Int BY <1>4
    <3> QED BY <3>1, <3>2, SumType
  <2>6. stock'[s].reserved = InitialSku[s].reserved
                               + SumFunctionOnSet(Asked(s), Held(s) \ {o})
    BY <1>4, <1>5, <1>6, <2>2, <2>3, <2>4, <2>5
  <2>7. stock'[s].state = "live" BY <1>2, <1>10
  <2> QED BY <1>7, <2>1, <2>6, <2>7 DEF Covered
<1> QED BY <1>4, <1>8, <1>9, <1>10

\* A settlement of an order that holds its units is not refused.
LEMMA SettlementServed ==
  ASSUME OrderInv, Calm, NEW o \in OrderId \ gaveUp, NEW kind \in {"unreserve", "fulfill"},
         Sent(kind, o), ~Applied(kind, o)
  PROVE  ~Refusable(kind, o)
<1>1. Holds(o)
  BY DEF OrderInv, OrderOK, Holds, Settled, Applied, Sent
<1>2. ASSUME NEW s \in RequestOf(kind, o).skus
      PROVE  stock[s].state = "live" /\ stock[s].reserved >= RequestOf(kind, o).qty[s]
  <2>1. s \in SkuId
    <3>1. Lines[o] \in Seq(Item) BY OrderAssumption
    <3> QED BY <3>1, LinesFinite DEF RequestOf, RequestedSkus
  <2>2. Asks(o, s) > 0 /\ Asks(o, s) \in Nat /\ RequestOf(kind, o).qty[s] = Asks(o, s)
    BY <2>1, RequestFacts
  <2>3. o \in Held(s) BY <1>1, <2>2 DEF Held
  <2>4. /\ stock[s].state = "live"
        /\ stock[s].reserved = InitialSku[s].reserved + SumFunctionOnSet(Asked(s), Held(s))
    BY <2>1, <2>3 DEF OrderInv, Covered
  <2>5. /\ Asks(o, s) <= SumFunctionOnSet(Asked(s), Held(s))
        /\ SumFunctionOnSet(Asked(s), Held(s)) \in Nat
    BY <2>1, <2>3, HeldSum
  <2>6. InitialSku[s].reserved \in Nat BY <2>1, OrderAssumption
  <2> QED BY <2>2, <2>4, <2>5, <2>6
<1> QED BY <1>2 DEF Refusable, Returnable

LEMMA DeliverOrders ==
  ASSUME OrderInv, NEW o \in OrderId, NEW heard \in BOOLEAN, Deliver(o, heard)
  PROVE  OrderInv'
<1> USE DEF Operation
<1>1. PICK kind \in Operation, code \in Code :
        /\ ServeSent(kind, o, code) \/ ServeLooked(kind, o, code)
        /\ IF heard THEN Hear(kind, o, code) ELSE UNCHANGED phase
        /\ gaveUp' = gaveUp
  BY DEF Deliver, Serve, Code
<1>0. /\ <<kind, o>> \in net \union looked
      /\ net' \subseteq net /\ looked' \subseteq looked
  BY <1>1 DEF ServeSent, ServeLooked
<1>2. Sent(kind, o) /\ OrderOK(o) /\ OrderTypes BY <1>0 DEF Sent, OrderInv
<1>3. /\ code = "ok" => applied' = applied \union {<<kind, o>>}
      /\ code # "ok" => applied' = applied
      /\ code = "refused" =>
           Refusable(kind, o) /\ (<<kind, o>> \notin looked => ~Applied(kind, o))
  BY <1>1, ServeRecords DEF ledger
<1>4. UNCHANGED ledger \/ Execute(kind, o) BY <1>1, ServeRecords
<1>5. StockOK'
  BY <1>2, <1>4, ExecuteEffect DEF OrderTypes, StockOK, ledger
<1>6. /\ \A x \in OrderId : x # o => phase'[x] = phase[x]
      /\ \/ phase'[o] = phase[o]
         \/ /\ Pending(o) /\ Awaits[phase[o]] = kind
            /\ code # "error" /\ phase'[o] = Outcome(kind, code)
  BY <1>1, <1>2 DEF Hear, Become, OrderTypes, OrderTypeOK
<1>7. \/ phase'[o] = phase[o]
      \/ /\ phase[o] = "reserving" /\ kind = "reserve"
         /\ phase'[o] = IF code = "ok" THEN "reserved" ELSE "refused"
      \/ /\ phase[o] = "cancelling" /\ kind = "unreserve"
         /\ phase'[o] = IF code = "ok" THEN "cancelled" ELSE "stuck"
      \/ /\ phase[o] = "shipping" /\ kind = "fulfill"
         /\ phase'[o] = IF code = "ok" THEN "shipped" ELSE "stuck"
  BY <1>6, OutcomeValue DEF Pending, Awaits, Code
<1>8. phase' \in [OrderId -> DOMAIN Awaits \union
                    {"new", "refused", "reserved", "cancelled", "shipped", "stuck"}]
  <2>1. DOMAIN phase' = OrderId /\ phase' = [x \in OrderId |-> phase'[x]]
    BY <1>1, <1>2 DEF Hear, Become, OrderTypes, OrderTypeOK
  <2> QED BY <1>2, <1>6, <1>7, <2>1 DEF OrderTypes, OrderTypeOK, Awaits
<1>9. OrderTypes'
  BY <1>0, <1>1, <1>2, <1>3, <1>5, <1>8 DEF OrderTypes, OrderTypeOK, StockOK, SkuStock
<1>10. \A k, x : Sent(k, x)' => Sent(k, x) BY <1>0, <1>3 DEF Sent
<1>11. \A k, x : Applied(k, x) => Applied(k, x)' BY <1>3 DEF Applied
<1>12. \A x \in OrderId : OrderOK(x)'
  <2>1. \A x \in OrderId : x # o => OrderOK(x)'
    BY <1>1, <1>6, <1>10, <1>11 DEF OrderInv, OrderOK
  <2>2. OrderOK(o)'
    <3>1. code = "ok" => Applied(kind, o)' BY <1>3 DEF Applied
    <3> QED BY <1>1, <1>2, <1>7, <1>10, <1>11, <3>1 DEF OrderOK, Open
  <2> QED BY <2>1, <2>2
<1>13. Calm' => Calm BY <1>1, <1>11 DEF Calm
<1>14. ASSUME Calm', NEW s \in SkuId PROVE Covered(s)'
  <2>1. CASE UNCHANGED ledger
    <3>1. Covered(s) BY <1>13, <1>14 DEF OrderInv
    <3> QED BY <2>1, <3>1
            DEF Covered, Held, Holds, Settled, Applied, Asked, Asks, ledger
  <2>2. CASE Execute(kind, o)
    BY <1>1, <1>2, <1>13, <1>14, <2>2, ExecuteCovers
  <2> QED BY <1>4, <2>1, <2>2
<1>15. SettlementNotRefused'
  <2>1. ASSUME NEW x \in OrderId, phase'[x] = "stuck", phase[x] = "stuck"
        PROVE  \/ Applied("unreserve", x)'
               \/ x \in gaveUp' \/ \E g \in gaveUp' : Applied("unreserve", g)'
    BY <1>1, <1>11, <2>1 DEF OrderInv, SettlementNotRefused
  <2>2. ASSUME phase'[o] = "stuck", phase[o] # "stuck", o \notin gaveUp,
               ~Applied("unreserve", o)
        PROVE  \E g \in gaveUp : Applied("unreserve", g)
    <3>1. /\ kind \in {"unreserve", "fulfill"}
          /\ code = "refused"
      BY <1>6, <1>7, <2>2 DEF Code
    <3>3. ~Applied(kind, o)
      BY <1>2, <1>3, <2>2, <3>1 DEF OrderTypes, OrderTypeOK
    <3>2. ~Calm BY <1>2, <1>3, <2>2, <3>1, <3>3, SettlementServed
    <3> QED BY <3>2 DEF Calm
  <2> QED BY <1>1, <1>6, <1>11, <2>1, <2>2 DEF SettlementNotRefused
<1> QED BY <1>9, <1>12, <1>13, <1>14, <1>15 DEF OrderInv

-----------------------------------------------------------------------------
\* A seller cannot remove a SKU of which somebody holds units.
LEMMA OthersKeep ==
  ASSUME OrderInv, Others
  PROVE  OrderInv'
<1>1. UNCHANGED <<phase, net, looked, gaveUp, applied>>
  BY DEF Others, Remove, Judge, protocol
<1>2. OrderTypeOK /\ StockOK /\ gaveUp \subseteq OrderId BY DEF OrderInv, OrderTypes
<1>3. \A o \in OrderId : OrderOK(o)'
  BY <1>1 DEF OrderInv, OrderOK, Sent, Applied
<1>4. SettlementNotRefused' BY <1>1 DEF OrderInv, SettlementNotRefused, Applied
<1>5. Calm' <=> Calm BY <1>1 DEF Calm, Applied
<1>6. \A s \in SkuId : Held(s)' = Held(s) /\ Asked(s)' = Asked(s)
  BY <1>1 DEF Held, Holds, Settled, Applied, Asked, Asks
<1>7. CASE UNCHANGED stock
  <2>1. OrderTypes' BY <1>1, <1>2, <1>7 DEF OrderTypes, OrderTypeOK, StockOK
  <2>2. Calm' => \A s \in SkuId : Covered(s)'
    BY <1>5, <1>6, <1>7 DEF OrderInv, Covered
  <2> QED BY <1>3, <1>4, <2>1, <2>2 DEF OrderInv
<1>8. ASSUME NEW x \in SkuId, Remove(x) PROVE OrderInv'
  <2>1. /\ stock' = [stock EXCEPT ![x] = [Row0 EXCEPT !.state = "deleted"]]
        /\ stock[x].state = "live" /\ stock[x].reserved = 0
    BY <1>8 DEF Remove
  <2>2. [Row0 EXCEPT !.state = "deleted"]
          = [state |-> "deleted", active |-> 0, reserved |-> 0]
    BY OrderAssumption
  <2>3. /\ StockOK' /\ stock'[x].state = "deleted"
        /\ \A s \in SkuId : s # x => stock'[s] = stock[s]
    BY <1>2, <2>1, <2>2 DEF StockOK, SkuStock
  <2>4. OrderTypes' BY <1>1, <1>2, <2>3 DEF OrderTypes, OrderTypeOK, StockOK, SkuStock
  <2>5. ASSUME Calm PROVE Held(x) = {}
    <3> SUFFICES ASSUME NEW o \in Held(x) PROVE FALSE OBVIOUS
    <3>1. stock[x].reserved = InitialSku[x].reserved + SumFunctionOnSet(Asked(x), Held(x))
      BY <2>1, <2>5 DEF OrderInv, Covered
    <3>2. /\ Asks(o, x) <= SumFunctionOnSet(Asked(x), Held(x))
          /\ SumFunctionOnSet(Asked(x), Held(x)) \in Nat /\ Asks(o, x) \in Nat
      BY HeldSum
    <3>3. Asks(o, x) > 0 BY DEF Held
    <3>4. InitialSku[x].reserved \in Nat BY OrderAssumption
    <3> QED BY <2>1, <3>1, <3>2, <3>3, <3>4
  <2>6. ASSUME Calm', NEW s \in SkuId PROVE Covered(s)'
    <3>1. CASE s = x BY <1>5, <1>6, <2>3, <2>5, <2>6, <3>1 DEF Covered
    <3>2. CASE s # x BY <1>5, <1>6, <2>3, <2>6, <3>2 DEF OrderInv, Covered
    <3> QED BY <3>1, <3>2
  <2> QED BY <1>3, <1>4, <2>4, <2>6 DEF OrderInv
<1> QED BY <1>7, <1>8 DEF Others, Judge

LEMMA NextOrders == OrderInv /\ [OrderNext]_world => OrderInv'
<1> SUFFICES ASSUME OrderInv, [OrderNext]_world PROVE OrderInv' OBVIOUS
<1>1. CASE UNCHANGED world
  <2>1. UNCHANGED <<ledger, phase, net, looked, gaveUp>> BY <1>1 DEF world, protocol
  <2>2. OrderTypeOK' /\ \A o \in OrderId : OrderOK(o)'
    BY <2>1 DEF OrderInv, OrderTypes, OrderTypeOK, OrderOK, Sent, Applied, ledger
  <2> QED BY <2>1, <2>2, ClientKeeps DEF OrderInv, OrderTypes
<1>2. ASSUME NEW o \in OrderId, Place(o) \/ Settle(o) \/ GiveUp(o) \/ Resend(o)
      PROVE  OrderInv'
  <2>1. UNCHANGED ledger BY <1>2 DEF Place, Settle, GiveUp, Resend
  <2> QED BY <1>2, <2>1, SendKeeps
<1> QED BY <1>1, <1>2, LookUpKeeps, DeliverOrders, LoseKeeps, OthersKeep DEF OrderNext

\* The inductive invariant: how far each order has come on both sides, and the units
\* the orders hold of each SKU (B2C against the B2B stock).
THEOREM OrderInvariance == OrderSpec => []OrderInv
BY InitOrders, NextOrders, PTL DEF OrderSpec

\* Every variable of the protocol keeps its type, and no quantity drops below 0.
THEOREM OrderTypesHold == OrderSpec => []OrderTypeOK
<1>1. OrderInv => OrderTypeOK BY DEF OrderInv, OrderTypes
<1> QED BY <1>1, OrderInvariance, PTL

\* What is reserved of a SKU covers what the orders hold of it, each with its own
\* lines, however often and in whatever order requests arrive (reserve, unreserve
\* and fulfill), as long as nobody cancels ahead of its reserve.
THEOREM HeldIsReserved == OrderSpec => []ReservesCovered
<1>1. OrderInv => ReservesCovered
  <2> SUFFICES ASSUME OrderInv, gaveUp = {}, NEW s \in SkuId, Held(s) # {}
               PROVE  /\ stock[s].state = "live"
                      /\ stock[s].reserved = InitialSku[s].reserved
                           + SumFunctionOnSet(Asked(s), Held(s))
    BY DEF ReservesCovered, Held, Asked
  <2>1. Calm BY DEF Calm
  <2> QED BY <2>1 DEF OrderInv, Covered
<1> QED BY <1>1, OrderInvariance, PTL

\* B2B never refuses to ship an order whose reserve it confirmed, and what it refuses
\* to cancel it has cancelled; unless an order that gave up was cancelled before its
\* units were reserved (unreserve and fulfill test the reserved quantity as a whole).
THEOREM SettlementsServed == OrderSpec => []SettlementNotRefused
<1>1. OrderInv => SettlementNotRefused BY DEF OrderInv
<1> QED BY <1>1, OrderInvariance, PTL

-----------------------------------------------------------------------------
\* Whatever orders do to the stock is a behaviour of the ledger, which the handlers
\* of Marketplace implement: what holds of every ledger holds under the protocol.
THEOREM OrdersKeepTheLedger ==
  ASSUME Request = OrderRequests
  PROVE  OrderSpec => Spec
<1>1. OrderInit => Init BY DEF OrderInit
<1>2. [OrderNext]_world => [Next]_ledger
  <2> SUFFICES ASSUME [OrderNext]_world PROVE [Next]_ledger OBVIOUS
  <2>1. ASSUME NEW o \in OrderId, NEW heard \in BOOLEAN, Deliver(o, heard)
        PROVE  [Next]_ledger
    <3>1. PICK kind \in Operation, code \in Code :
            ServeSent(kind, o, code) \/ ServeLooked(kind, o, code)
      BY <2>1 DEF Deliver, Serve, Code
    <3>2. RequestOf(kind, o) \in Request BY DEF OrderRequests
    <3>3. UNCHANGED ledger \/ Execute(kind, o) BY <3>1, ServeRecords
    <3> QED BY <3>2, <3>3 DEF Execute, Next
  <2>2. ASSUME NEW o \in OrderId, Place(o) \/ Settle(o) \/ GiveUp(o) \/ Resend(o)
        PROVE  UNCHANGED ledger
    BY <2>2 DEF Place, Settle, GiveUp, Resend
  <2>3. CASE Others BY <2>3 DEF Others, Next
  <2>4. ASSUME NEW m, Lose(m) PROVE UNCHANGED ledger BY <2>4 DEF Lose
  <2>6. ASSUME NEW o \in OrderId, NEW kind \in Operation, LookUp(kind, o)
        PROVE  UNCHANGED ledger
    BY <2>6 DEF LookUp
  <2>5. CASE UNCHANGED world BY <2>5 DEF world
  <2> QED BY <2>1, <2>2, <2>3, <2>4, <2>5, <2>6 DEF OrderNext
<1> QED BY <1>1, <1>2, PTL DEF OrderSpec, Spec
=============================================================================
