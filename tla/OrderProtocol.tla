---------------------------- MODULE OrderProtocol ----------------------------
(***************************************************************************)
(* B2C's orders against the B2B stock: an order reserves, then is cancelled  *)
(* (unreserve) or shipped (fulfill).  The network loses, delays, reorders and *)
(* duplicates requests, and answers get lost, so B2C sends again until it     *)
(* hears.  The stock is StockLedger, which Marketplace implements; B2C is     *)
(* external and modelled by what the API asks of it.                          *)
(***************************************************************************)
EXTENDS StockLedger, RequestItems, FiniteSets

CONSTANTS
  OrderId,
  Lines,         \* of each order, the items of its requests
  Impatient      \* orders that may cancel before their reserve is answered

VARIABLES
  phase,         \* of each order, as B2C knows it
  net,           \* requests on their way: <<kind, order>>
  looked,        \* requests B2B has looked up, found no record of, and not yet served
  revived,       \* orders whose reserve was executed after a refusal was heard
  overtaken,     \* orders that heard a refusal of what B2B had done
  gaveUp         \* orders cancelled before their reserve was answered

protocol == <<phase, net, looked, revived, overtaken, gaveUp>>
world    == <<ledger, protocol>>

\* Of each order, what the request serializers let through: no line of 0 units.
Item == [sku : SkuId, quantity : Nat \ {0}]

ASSUME OrderAssumption ==
  /\ IsFiniteSet(OrderId)
  /\ Lines \in [OrderId -> Seq(Item)]
  /\ InitialSku \in [SkuId -> [state : {"unborn", "live", "deleted"},
                              active : Nat, reserved : Nat]]
  /\ Row0 = [state |-> "unborn", active |-> 0, reserved |-> 0]

Quantity == [o \in OrderId |-> CollapseItems(Lines[o], SkuId)]
RequestOf(kind, o) ==
  [kind |-> kind, key |-> o, qty |-> Quantity[o], skus |-> RequestedSkus(Lines[o])]

\* What Request is instantiated with.
Operation == {"reserve", "unreserve", "fulfill"}
OrderRequests == {RequestOf(kind, o) : kind \in Operation, o \in OrderId}

Applied(kind, o) == <<kind, o>> \in applied

OrderInit ==
  /\ Init
  /\ phase = [o \in OrderId |-> "new"]
  /\ net = {} /\ looked = {} /\ revived = {} /\ overtaken = {} /\ gaveUp = {}

-----------------------------------------------------------------------------
\* B2C.

Awaits == [reserving |-> "reserve", cancelling |-> "unreserve", shipping |-> "fulfill"]
Pending(o) == phase[o] \in DOMAIN Awaits

Send(o, kind) == net' = net \union {<<kind, o>>}
Become(o, new) == phase' = [phase EXCEPT ![o] = new]

Place(o) ==
  /\ phase[o] = "new"
  /\ Become(o, "reserving") /\ Send(o, "reserve")
  /\ UNCHANGED <<ledger, looked, revived, overtaken, gaveUp>>

Settle(o) ==
  /\ phase[o] = "reserved"
  /\ \E new \in {"cancelling", "shipping"} : Become(o, new) /\ Send(o, Awaits[new])
  /\ UNCHANGED <<ledger, looked, revived, overtaken, gaveUp>>

GiveUp(o) ==
  /\ o \in Impatient /\ phase[o] = "reserving"
  /\ Become(o, "cancelling") /\ Send(o, "unreserve")
  /\ gaveUp' = gaveUp \union {o}
  /\ UNCHANGED <<ledger, looked, revived, overtaken>>

Resend(o) ==
  /\ Pending(o) /\ <<Awaits[phase[o]], o>> \notin net
  /\ Send(o, Awaits[phase[o]])
  /\ UNCHANGED <<ledger, phase, looked, revived, overtaken, gaveUp>>

\* A conflict is an answer too: a refused reserve ends the order, a refused
\* settlement leaves it with nothing it can do.
Outcome(kind, code) ==
  CASE kind = "reserve"   -> IF code = "ok" THEN "reserved" ELSE "refused"
    [] kind = "unreserve" -> IF code = "ok" THEN "cancelled" ELSE "stuck"
    [] kind = "fulfill"   -> IF code = "ok" THEN "shipped" ELSE "stuck"

\* An error (500) is no answer: B2C sends again.
Hear(kind, o, code) ==
  IF Pending(o) /\ Awaits[phase[o]] = kind /\ code # "error"
  THEN Become(o, Outcome(kind, code))
  ELSE UNCHANGED phase

-----------------------------------------------------------------------------
\* B2B serves a request.  reserve and unreserve begin with a query that takes no
\* lock; fulfill inserts its record first, and waits there for another delivery of
\* the same request.

Execute(kind, o) ==
  LET r == RequestOf(kind, o) IN Reserve(r) \/ Unreserve(r) \/ Fulfill(r)

Refusable(kind, o) ==
  ~(IF kind = "reserve" THEN Reservable(RequestOf(kind, o)) ELSE Returnable(RequestOf(kind, o)))

LookUp(kind, o) ==
  /\ kind \in {"reserve", "unreserve"}
  /\ <<kind, o>> \in net /\ ~Applied(kind, o)
  /\ looked' = looked \union {<<kind, o>>}
  /\ net' = net \ {<<kind, o>>} \/ UNCHANGED net
  /\ UNCHANGED <<ledger, phase, revived, overtaken, gaveUp>>

\* Mutant: any recorded operation of the order counts as this one's.
ReplayAnyOperation(kind, o, code) ==
  code = "ok" /\ (\E k \in Operation : Applied(k, o)) /\ UNCHANGED ledger

\* Mutant: a retry fails on the unique key, with no answer to replay.
ReplayNothing(kind, o, code) ==
  code = "error" /\ Applied(kind, o) /\ UNCHANGED ledger

\* What is on record is answered with the stored result.
Replay(kind, o, code) ==
  code = "ok" /\ Applied(kind, o) /\ UNCHANGED ledger

\* Mutant: the record's key is not unique.
TransactTwice(kind, o, code) ==
  LET r == RequestOf(kind, o) IN
  \/ /\ code = "ok" /\ ~Refusable(kind, o)
     /\ CASE kind = "reserve"   -> Move(r, -1, 1)
          [] kind = "unreserve" -> Move(r, 1, -1)
          [] kind = "fulfill"   -> Move(r, 0, -1)
  \/ code = "refused" /\ Refusable(kind, o) /\ UNCHANGED ledger

\* The transaction of a delivery that found no record: it tests the stock, moves it
\* and inserts the record last.  A delivery that another one has overtaken since
\* its query is refused (409) when its test fails on the stock the other one has
\* moved, and fails on the unique key otherwise.  A refusal is not recorded.
Transact(kind, o, code) ==
  \/ code = "ok" /\ Execute(kind, o)
  \/ code = "refused" /\ Refusable(kind, o) /\ UNCHANGED ledger
  \/ code = "error" /\ Applied(kind, o) /\ ~Refusable(kind, o) /\ UNCHANGED ledger

ServeSent(kind, o, code) ==
  /\ <<kind, o>> \in net
  /\ \/ Replay(kind, o, code)
     \/ kind = "fulfill" /\ ~Applied(kind, o) /\ Transact(kind, o, code)
  /\ net' = net \ {<<kind, o>>} \/ UNCHANGED net
  /\ UNCHANGED looked

ServeLooked(kind, o, code) ==
  /\ <<kind, o>> \in looked
  /\ Transact(kind, o, code)
  /\ looked' = looked \ {<<kind, o>>} \/ UNCHANGED looked
  /\ UNCHANGED net

\* A request that is served may stay where it was (a duplicate: a member of net or
\* of looked stands for any number of deliveries), and its answer may get lost.
Serve(kind, o, code, heard) ==
  /\ ServeSent(kind, o, code) \/ ServeLooked(kind, o, code)
  /\ IF heard THEN Hear(kind, o, code) ELSE UNCHANGED phase
  /\ revived' = IF phase[o] = "refused" /\ applied' # applied
                THEN revived \union {o} ELSE revived
  /\ overtaken' = IF code = "refused" /\ Applied(kind, o) /\ phase'[o] # phase[o]
                  THEN overtaken \union {o} ELSE overtaken
  /\ UNCHANGED gaveUp

Deliver(o, heard) ==
  \E kind \in Operation, code \in {"ok", "refused", "error"} : Serve(kind, o, code, heard)

\* A request is lost on its way, or with the thread that was serving it.
Lose(m) ==
  /\ m \in net \union looked
  /\ \/ net' = net \ {m} /\ UNCHANGED looked
     \/ looked' = looked \ {m} /\ UNCHANGED net
  /\ UNCHANGED <<ledger, phase, revived, overtaken, gaveUp>>

\* Sellers remove SKUs, moderation blocks products.
Others ==
  /\ \/ \E s \in SkuId : Remove(s)
     \/ Judge
  /\ UNCHANGED protocol

OrderNext ==
  \/ \E o \in OrderId : \/ Place(o) \/ Settle(o) \/ GiveUp(o) \/ Resend(o)
                        \/ \E kind \in Operation : LookUp(kind, o)
                        \/ \E heard \in BOOLEAN : Deliver(o, heard)
  \/ \E m \in net \union looked : Lose(m)
  \/ Others

OrderSpec == OrderInit /\ [][OrderNext]_world

\* What B2C awaits it sends again, and a request sent again and again is looked up,
\* served and its answer heard at last.
LookUpAwaited(o) ==
  Pending(o) /\ LookUp(Awaits[phase[o]], o)
AnswerAwaited(o) ==
  Pending(o) /\ \E code \in {"ok", "refused"} : Serve(Awaits[phase[o]], o, code, TRUE)

FairOrderSpec ==
  /\ OrderSpec
  /\ \A o \in OrderId : /\ WF_world(Place(o)) /\ WF_world(Settle(o)) /\ WF_world(Resend(o))
                        /\ SF_world(LookUpAwaited(o)) /\ SF_world(AnswerAwaited(o))

-----------------------------------------------------------------------------
OrderTypeOK ==
  /\ phase \in [OrderId -> DOMAIN Awaits \union
                  {"new", "refused", "reserved", "cancelled", "shipped", "stuck"}]
  /\ net \subseteq Operation \X OrderId
  /\ looked \subseteq {"reserve", "unreserve"} \X OrderId
  /\ applied \subseteq Operation \X OrderId
  /\ \A s \in SkuId : stock[s].active \in Nat /\ stock[s].reserved \in Nat

Settled(o) == Applied("unreserve", o) \/ Applied("fulfill", o)
Holds(o)   == Applied("reserve", o) /\ ~Settled(o)

\* What an order asks for, line by line.
Asks(o, s) ==
  SumFunctionOnSet([i \in DOMAIN Lines[o] |-> Lines[o][i].quantity],
                   {i \in DOMAIN Lines[o] : Lines[o][i].sku = s})

\* What is reserved of a SKU covers what the orders hold of it, each with its own
\* lines: no retry, no duplicate, no other order's settlement eats into it, no
\* line of a SKU is forgotten, and no seller removes the SKU.  Only a cancellation
\* ahead of its reserve can.
ReservesCovered ==
  gaveUp = {} =>
    \A s \in SkuId : LET held == {o \in OrderId : Holds(o) /\ Asks(o, s) > 0} IN
      held # {} => /\ stock[s].state = "live"
                   /\ stock[s].reserved = InitialSku[s].reserved
                        + SumFunctionOnSet([o \in OrderId |-> Asks(o, s)], held)

\* So an order that was told its reserve succeeded can always be cancelled or
\* shipped: what B2B refuses to cancel it has cancelled already (a duplicate that
\* another delivery overtook), and it never refuses to ship.  The one exception is
\* that another order cancelled what it had not reserved yet and got the units of
\* this one: unreserve and fulfill test the SKU's reserved quantity as a whole.
SettlementNotRefused ==
  \A o \in OrderId : phase[o] = "stuck" =>
    \/ Applied("unreserve", o)
    \/ o \in gaveUp \/ \E g \in gaveUp : Applied("unreserve", g)

Over(o) == phase[o] \in {"refused", "cancelled", "shipped"}

\* An order that is over holds no units, with two exceptions: a late duplicate of
\* its refused reserve was executed (refusals are not recorded), or the refusal it
\* heard was that of a duplicate which the executed delivery had overtaken.
NothingLeaks == \A o \in OrderId : Over(o) /\ Holds(o) => o \in revived \union overtaken

\* Every order ends, whatever the network loses.
EveryOrderEnds == \A o \in OrderId : <>(Over(o) \/ phase[o] = "stuck")
=============================================================================
