-------------------------- MODULE InventoryProofs --------------------------
(***************************************************************************)
(* Proofs about reserve, unreserve and fulfill: that Marketplace implements  *)
(* StockLedger, that the quantities are what the recorded operations moved,  *)
(* that a fulfill sent again is answered from the record, that B2C hears of   *)
(* sold out SKUs from committed reserves only, and which requests a deadlock  *)
(* takes.                                                                    *)
(*                                                                           *)
(* The argument.  What a handler writes is computed from what it read, and   *)
(* what it read is still in the tables because it holds the rows (Inv).      *)
(* A session owns a unique key only after its own insert and                 *)
(* until its transaction ends (OwnsItsKey), so a key that is on record is    *)
(* owned by nobody (Inv: an owned key is not on record).  A retry therefore  *)
(* never waits for such a key, cannot be the victim of a deadlock there, and *)
(* past the insert its operation is not on record.                           *)
(* The locks a session holds tell how far its request has come (LockShape);   *)
(* requests that lock in one order (SKU, product, seller, category) never     *)
(* wait on each other in a circle; and a request that waits for a name, or    *)
(* for what it refers to at COMMIT, is Tangled.                              *)
(***************************************************************************)
EXTENDS MarketplaceProofs, Sums

Blocked == {p \in ProductId : productRow[p].status \in {"BLOCKED", "HARD_BLOCKED"}}
AppliedOps == ops \intersect (InventoryKind \X Key)

\* A step that moves no quantity and records no inventory operation is a step of
\* the ledger, whatever it does to the products.
LEMMA LedgerJudge ==
  ASSUME skuRow' = skuRow, AppliedOps' = AppliedOps
  PROVE  [Ledger!Next]_(Ledger!ledger)
BY DEF AppliedOps, Ledger!Next, Ledger!Judge

LEMMA NewOp ==
  ASSUME Inv, NEW w \in Worker, pc[w] # "idle", req[w].kind \in InventoryKind,
         ops' = ops \union {Op(w)}
  PROVE  AppliedOps' = AppliedOps \union {<<req[w].kind, req[w].key>>}
<1>1. req[w].key \in Key BY RequestType DEF Inv
<1> QED BY <1>1 DEF AppliedOps, Op

\* SaveQuantities, with the quantities read replaced by those in the table.
LEMMA MoveStep ==
  ASSUME Inv, NEW w \in Worker, pc[w] = "commit", req[w].kind \in InventoryKind,
         NEW dA \in Int, NEW dR \in Int, SaveQuantities(w, dA, dR)
  PROVE  Ledger!Move(req[w], dA, dR)
<1> DEFINE moved(s) ==
      [skuRow[s] EXCEPT !.active   = skuRow[s].active + dA * req[w].qty[s],
                        !.reserved = skuRow[s].reserved + dR * req[w].qty[s]]
<1> DEFINE written(s) ==
      [skuRow[s] EXCEPT !.active   = seenSku[w][s].active + dA * req[w].qty[s],
                        !.reserved = seenSku[w][s].reserved + dR * req[w].qty[s]]
<1>0. \A s \in req[w].skus : seenSku[w][s] = skuRow[s] BY InventoryReady
<1>1. skuRow' = [s \in SkuId |-> IF s \in req[w].skus THEN moved(s) ELSE skuRow[s]]
  <2>1. skuRow' = [s \in SkuId |-> IF s \in req[w].skus THEN written(s) ELSE skuRow[s]]
    BY DEF SaveQuantities
  <2>2. \A s \in req[w].skus : written(s) = moved(s) BY <1>0
  <2> HIDE DEF written, moved
  <2> QED BY <2>1, <2>2
<1>2. AppliedOps' = AppliedOps \union {<<req[w].kind, req[w].key>>}
  BY NewOp DEF SaveQuantities
<1>3. Blocked' = Blocked BY DEF SaveQuantities, Blocked
<1>4. skuRow' = [s \in SkuId |->
        IF s \in req[w].skus
        THEN [skuRow[s] EXCEPT !.active   = @ + dA * req[w].qty[s],
                               !.reserved = @ + dR * req[w].qty[s]]
        ELSE skuRow[s]]
  BY <1>1
<1> QED BY <1>2, <1>3, <1>4 DEF Ledger!Move, AppliedOps, Blocked

LEMMA InventoryImplements ==
  ASSUME Inv, NEW w \in Worker,
         CommitReserve(w) \/ CommitUnreserve(w) \/ CommitFulfill(w)
  PROVE  Ledger!Next
<1>1. pc[w] = "commit" /\ pc[w] # "idle" /\ req[w].kind \in InventoryKind
  BY DEF CommitReserve, CommitUnreserve, CommitFulfill, Committing, At, InventoryKind
<1> DEFINE r == req[w]
<1>2. r \in Request BY <1>1 DEF Inv, TypeOK
<1>3. <<r.kind, r.key>> \notin AppliedOps BY <1>1, InventoryReady DEF AppliedOps, Op
<1>4. \A s \in r.skus : s \in SkuId /\ skuRow[s].state = "live"
  BY <1>1, InventoryReady
<1>5. CASE CommitReserve(w)
  <2>1. r.kind = "reserve" /\ SaveQuantities(w, -1, 1)
    BY <1>5 DEF CommitReserve, Committing, At
  <2>2. Ledger!Move(r, -1, 1) BY <1>1, <2>1, MoveStep
  <2>3. \A s \in r.skus : skuRow[s].active >= r.qty[s] /\ ProductOf[s] \notin Blocked
    BY <1>1, <2>1, InventoryReady DEF Blocked
  <2>4. Ledger!Reserve(r)
    BY <1>3, <1>4, <2>1, <2>2, <2>3
    DEF Ledger!Reserve, Ledger!Reservable, Ledger!Fresh, AppliedOps, Blocked
  <2> QED BY <1>2, <2>4 DEF Ledger!Next
<1>6. CASE CommitUnreserve(w)
  <2>1. r.kind = "unreserve" /\ SaveQuantities(w, 1, -1)
    BY <1>6 DEF CommitUnreserve, Committing, At
  <2>2. Ledger!Move(r, 1, -1) BY <1>1, <2>1, MoveStep
  <2>3. \A s \in r.skus : skuRow[s].reserved >= r.qty[s]
    BY <1>1, <2>1, InventoryReady
  <2>4. Ledger!Unreserve(r)
    BY <1>3, <1>4, <2>1, <2>2, <2>3
    DEF Ledger!Unreserve, Ledger!Returnable, Ledger!Fresh, AppliedOps
  <2> QED BY <1>2, <2>4 DEF Ledger!Next
<1>7. CASE CommitFulfill(w)
  <2>1. r.kind = "fulfill" /\ SaveQuantities(w, 0, -1)
    BY <1>7 DEF CommitFulfill, Committing, At
  <2>2. Ledger!Move(r, 0, -1) BY <1>1, <2>1, MoveStep
  <2>3. \A s \in r.skus : skuRow[s].reserved >= r.qty[s]
    BY <1>1, <2>1, InventoryReady
  <2>4. Ledger!Fulfill(r)
    BY <1>3, <1>4, <2>1, <2>2, <2>3
    DEF Ledger!Fulfill, Ledger!Returnable, Ledger!Fresh, AppliedOps
  <2> QED BY <1>2, <2>4 DEF Ledger!Next
<1> QED BY <1>5, <1>6, <1>7

LEMMA SkuCommitsImplement ==
  ASSUME Inv, NEW w \in Worker,
         CommitCreateSku(w) \/ CommitUpdateSku(w) \/ CommitDeleteSku(w)
  PROVE  [Ledger!Next]_(Ledger!ledger)
<1>1. TypeOK /\ SessionOK(w) BY DEF Inv
<1>2. /\ pc[w] = "commit" /\ pc[w] # "idle" /\ ops' = ops
      /\ req[w].kind \in {"create_sku", "update_sku", "delete_sku"}
  BY DEF CommitCreateSku, CommitUpdateSku, CommitDeleteSku, Committing, At
<1>3. AppliedOps' = AppliedOps BY <1>2 DEF AppliedOps
<1>4. Blocked' \in SUBSET ProductId BY DEF Blocked
<1>5. PICK s \in SkuId : req[w].skus = {s} /\ found[w] \subseteq {s} BY <1>2, OneSku
<1>6. CASE CommitCreateSku(w)
  <2>1. req[w].kind = "create_sku" BY <1>6 DEF CommitCreateSku, Committing, At
  <2>2. skuRow[s].state = "unborn"
    BY <1>1, <1>2, <1>5, <2>1 DEF SessionOK, HoldsItsProduct, Holds
  <2> DEFINE new == [Row0 EXCEPT !.state = "live"]
  <2>3. skuRow' = [x \in SkuId |-> IF x = s THEN new ELSE skuRow[x]]
    BY <1>5, <1>6 DEF CommitCreateSku
  <2> HIDE DEF new
  <2>4. skuRow' = [skuRow EXCEPT ![s] = new] BY <1>1, <2>3 DEF TypeOK
  <2>5. Ledger!Add(s)
    BY <1>3, <1>4, <2>2, <2>4 DEF Ledger!Add, AppliedOps, Blocked, new
  <2> QED BY <2>5 DEF Ledger!Next
<1>7. CASE CommitUpdateSku(w)
  <2>1. \A x \in SkuId : skuRow'[x] = skuRow[x]
    BY <1>1, <1>7 DEF CommitUpdateSku, SessionOK, ReadsProtected
  <2>2. skuRow' = skuRow BY <1>1, <1>7, <2>1 DEF CommitUpdateSku, TypeOK
  <2> QED BY <1>3, <2>2, LedgerJudge
<1>8. CASE CommitDeleteSku(w)
  <2>1. req[w].kind = "delete_sku" BY <1>8 DEF CommitDeleteSku, Committing, At
  <2>2. /\ found[w] # {}
        /\ \A x \in found[w] : seenSku[w][x].reserved = 0
    BY <1>1, <1>2, <2>1 DEF SessionOK, Checked, Holds
  <2>3. found[w] = {s} BY <1>5, <2>2
  <2>4. skuRow[s].state = "live" /\ skuRow[s].reserved = 0
    BY <1>1, <2>2, <2>3 DEF SessionOK, ReadsProtected, Live
  <2> DEFINE gone == [Row0 EXCEPT !.state = "deleted"]
  <2>5. skuRow' = [x \in SkuId |-> IF x = s THEN gone ELSE skuRow[x]]
    BY <1>8, <2>3 DEF CommitDeleteSku
  <2> HIDE DEF gone
  <2>6. skuRow' = [skuRow EXCEPT ![s] = gone] BY <1>1, <2>5 DEF TypeOK
  <2>7. Ledger!Remove(s)
    BY <1>3, <1>4, <2>4, <2>6 DEF Ledger!Remove, AppliedOps, Blocked, gone
  <2> QED BY <2>7 DEF Ledger!Next
<1> QED BY <1>6, <1>7, <1>8

LEMMA ProductCommitsImplement ==
  ASSUME NEW w \in Worker,
         \/ CommitCreateProduct(w) \/ CommitUpdateProduct(w) \/ CommitDeleteProduct(w)
         \/ CommitModeration(w) \/ CommitInvoice(w)
  PROVE  [Ledger!Next]_(Ledger!ledger)
<1>1. skuRow' = skuRow
  BY DEF CommitCreateProduct, CommitUpdateProduct, CommitDeleteProduct, CommitModeration,
         CommitInvoice
<1>2. AppliedOps' = AppliedOps
  <2>1. CASE CommitModeration(w)
    <3>1. req[w].kind = "moderation" /\ ops' = ops \union {Op(w)}
      BY <2>1 DEF CommitModeration, Committing, At
    <3>2. Op(w) \notin InventoryKind \X Key BY <3>1 DEF Op, InventoryKind
    <3> QED BY <3>1, <3>2 DEF AppliedOps
  <2>2. CASE \/ CommitCreateProduct(w) \/ CommitUpdateProduct(w)
             \/ CommitDeleteProduct(w) \/ CommitInvoice(w)
    BY <2>2 DEF CommitCreateProduct, CommitUpdateProduct, CommitDeleteProduct,
                CommitInvoice, AppliedOps
  <2> QED BY <2>1, <2>2
<1> QED BY <1>1, <1>2, LedgerJudge

LEMMA StepImplements ==
  ASSUME Inv, [Next]_vars
  PROVE  [Ledger!Next]_(Ledger!ledger)
<1>1. CASE UNCHANGED tables
  BY <1>1, LedgerJudge DEF tables, AppliedOps
<1>2. CASE \E w \in Worker : Commit(w)
  BY <1>2, InventoryImplements, SkuCommitsImplement, ProductCommitsImplement DEF Commit
<1>3. UNCHANGED tables \/ \E w \in Worker : Commit(w)
  BY OnlyCommitsWrite DEF Next, vars
<1> QED BY <1>1, <1>2, <1>3

\* Every run of the service is a run of the ledger: each inventory operation
\* happens at one instant (its commit), on the stock of that instant, and once
\* for its key; nothing else moves a quantity.
THEOREM Refinement == Spec => LedgerSpec
<1>1. Init => Ledger!Init BY DEF Init, Ledger!Init
<1>2. Inv /\ [Next]_vars => [Ledger!Next]_(Ledger!ledger) BY StepImplements
<1> QED BY <1>1, <1>2, Invariance, PTL DEF Spec, LedgerSpec, Ledger!Spec

-----------------------------------------------------------------------------
\* Nobody has moved a SKU that is not there yet, and every sum is over finitely
\* many operations.
Untouched ==
  \A s \in SkuId : skuRow[s].state = "unborn" =>
    /\ skuRow[s] = InitialSku[s]
    /\ \A kind \in InventoryKind : Applied(kind, s) = {}

FiniteRecord == \A kind \in InventoryKind, s \in SkuId : IsFiniteSet(Applied(kind, s))

BalanceInv == LedgerBalances /\ Untouched /\ FiniteRecord

\* The record has a new operation for every SKU the request names, and no other.
LEMMA AppliedAfter ==
  ASSUME KeysIdentify, NEW r \in Request, r.kind \in InventoryKind,
         <<r.kind, r.key>> \notin AppliedOps,
         AppliedOps' = AppliedOps \union {<<r.kind, r.key>>},
         NEW kind \in InventoryKind, NEW s \in SkuId
  PROVE  /\ r \notin Applied(r.kind, s)
         /\ Applied(kind, s)' = IF kind = r.kind /\ s \in r.skus
                                THEN Applied(kind, s) \union {r} ELSE Applied(kind, s)
<1>1. \A x \in Request : <<kind, x.key>> \in ops <=> <<kind, x.key>> \in AppliedOps
  BY RequestAssumption DEF AppliedOps
<1>2. \A x \in Request : <<kind, x.key>> \in ops' <=> <<kind, x.key>> \in AppliedOps'
  BY RequestAssumption DEF AppliedOps
<1>3. r \notin Applied(r.kind, s) BY RequestAssumption DEF Applied, AppliedOps
<1>4. \A x \in Request : x.kind = kind /\ <<kind, x.key>> = <<r.kind, r.key>> => x = r
  BY DEF KeysIdentify
<1> QED BY <1>1, <1>2, <1>3, <1>4 DEF Applied

LEMMA TotalAfter ==
  ASSUME KeysIdentify, FiniteRecord, NEW r \in Request, r.kind \in InventoryKind,
         <<r.kind, r.key>> \notin AppliedOps,
         AppliedOps' = AppliedOps \union {<<r.kind, r.key>>},
         NEW kind \in InventoryKind, NEW s \in SkuId
  PROVE  /\ IsFiniteSet(Applied(kind, s)') /\ Total(kind, s) \in Int
         /\ Total(kind, s)' = Total(kind, s) + (IF kind = r.kind /\ s \in r.skus
                                                THEN r.qty[s] ELSE 0)
<1> DEFINE w == [x \in Request |-> x.qty[s]]
           A == Applied(kind, s)
<1>1. IsFiniteSet(A) BY DEF FiniteRecord
<1>2. A \subseteq Request BY DEF Applied
<1>3. \A x \in Request : w[x] \in Int BY RequestAssumption
<1>4. /\ r \notin Applied(r.kind, s)
      /\ Applied(kind, s)' = IF kind = r.kind /\ s \in r.skus THEN A \union {r} ELSE A
  BY AppliedAfter
<1>5. Total(kind, s) = SumFunctionOnSet(w, A) BY DEF Total
<1>6. Total(kind, s)' = SumFunctionOnSet(w, Applied(kind, s)') BY DEF Total
<1>7. w[r] = r.qty[s] OBVIOUS
<1> HIDE DEF w, A
<1>8. SumFunctionOnSet(w, A) \in Int BY <1>1, <1>2, <1>3, SumType
<1>9. CASE kind = r.kind /\ s \in r.skus
  <2>1. r \notin A BY <1>4, <1>9 DEF A
  <2>2. SumFunctionOnSet(w, A \union {r}) = w[r] + SumFunctionOnSet(w, A)
    BY <1>1, <1>2, <1>3, <2>1, SumAdd
  <2>3. IsFiniteSet(A \union {r}) BY <1>1, FS_AddElement
  <2> QED BY <1>3, <1>4, <1>5, <1>6, <1>7, <1>8, <1>9, <2>2, <2>3
<1>10. CASE ~(kind = r.kind /\ s \in r.skus)
  BY <1>1, <1>4, <1>5, <1>6, <1>8, <1>10
<1> QED BY <1>9, <1>10

MovedBy(r, s, dActive, dReserved) ==
  /\ skuRow'[s].state = skuRow[s].state
  /\ skuRow'[s].active = skuRow[s].active
                         + (IF s \in r.skus THEN dActive * r.qty[s] ELSE 0)
  /\ skuRow'[s].reserved = skuRow[s].reserved
                           + (IF s \in r.skus THEN dReserved * r.qty[s] ELSE 0)

LEMMA MoveMoves ==
  ASSUME TypeOK, NEW r \in Request, NEW dA \in Int, NEW dR \in Int,
         Ledger!Move(r, dA, dR), NEW s \in SkuId
  PROVE  /\ MovedBy(r, s, dA, dR)
         /\ s \notin r.skus => skuRow'[s] = skuRow[s]
<1>1. skuRow[s] \in SkuRow /\ r.qty[s] \in Nat BY RequestAssumption DEF TypeOK
<1>2. skuRow'[s] = IF s \in r.skus
                   THEN [skuRow[s] EXCEPT !.active = @ + dA * r.qty[s],
                                          !.reserved = @ + dR * r.qty[s]]
                   ELSE skuRow[s]
  BY DEF Ledger!Move
<1>3. CASE s \in r.skus BY <1>1, <1>2, <1>3 DEF MovedBy, SkuRow
<1>4. CASE s \notin r.skus BY <1>1, <1>2, <1>4 DEF MovedBy, SkuRow
<1> QED BY <1>3, <1>4

\* An operation moves the quantities by what it adds to the totals.
LEMMA OperationBalances ==
  ASSUME TypeOK, KeysIdentify, BalanceInv, NEW r \in Request,
         Ledger!Reserve(r) \/ Ledger!Unreserve(r) \/ Ledger!Fulfill(r)
  PROVE  BalanceInv'
<1> DEFINE dA == IF r.kind = "reserve" THEN -1 ELSE IF r.kind = "unreserve" THEN 1 ELSE 0
           dR == IF r.kind = "reserve" THEN 1 ELSE -1
<1>1. /\ r.kind \in InventoryKind /\ Ledger!Move(r, dA, dR)
      /\ <<r.kind, r.key>> \notin AppliedOps
      /\ \A s \in r.skus : skuRow[s].state = "live"
  BY DEF Ledger!Reserve, Ledger!Unreserve, Ledger!Fulfill, Ledger!Fresh,
         Ledger!Reservable, Ledger!Returnable, AppliedOps, InventoryKind
<1>2. AppliedOps' = AppliedOps \union {<<r.kind, r.key>>}
  BY <1>1 DEF Ledger!Move, AppliedOps
<1>3. \A kind \in InventoryKind, s \in SkuId :
        /\ IsFiniteSet(Applied(kind, s)') /\ Total(kind, s) \in Int
        /\ Total(kind, s)' = Total(kind, s) + (IF kind = r.kind /\ s \in r.skus
                                               THEN r.qty[s] ELSE 0)
  BY <1>1, <1>2, TotalAfter DEF BalanceInv
<1>4. FiniteRecord' BY <1>3 DEF FiniteRecord
<1>5. \A s \in SkuId : MovedBy(r, s, dA, dR) /\ (s \notin r.skus => skuRow'[s] = skuRow[s])
  BY <1>1, MoveMoves
<1>6. LedgerBalances'
  <2> SUFFICES ASSUME NEW s \in SkuId, Live(s)'
               PROVE  /\ skuRow'[s].active = InitialSku[s].active - Total("reserve", s)'
                                             + Total("unreserve", s)'
                      /\ skuRow'[s].reserved = InitialSku[s].reserved
                           + Total("reserve", s)' - Total("unreserve", s)'
                           - Total("fulfill", s)'
    BY DEF LedgerBalances
  <2>1. /\ skuRow[s].active = InitialSku[s].active - Total("reserve", s)
                              + Total("unreserve", s)
        /\ skuRow[s].reserved = InitialSku[s].reserved + Total("reserve", s)
                                - Total("unreserve", s) - Total("fulfill", s)
    BY <1>5 DEF BalanceInv, LedgerBalances, Live, MovedBy
  <2>2. /\ InitialSku[s].active \in Int /\ InitialSku[s].reserved \in Int
        /\ r.qty[s] \in Int
    BY TablesAssumption, RequestAssumption DEF SkuRow
  <2>3. /\ Total("reserve", s) \in Int /\ Total("unreserve", s) \in Int
        /\ Total("fulfill", s) \in Int
        /\ Total("reserve", s)' = Total("reserve", s) +
             (IF r.kind = "reserve" /\ s \in r.skus THEN r.qty[s] ELSE 0)
        /\ Total("unreserve", s)' = Total("unreserve", s) +
             (IF r.kind = "unreserve" /\ s \in r.skus THEN r.qty[s] ELSE 0)
        /\ Total("fulfill", s)' = Total("fulfill", s) +
             (IF r.kind = "fulfill" /\ s \in r.skus THEN r.qty[s] ELSE 0)
    BY <1>3 DEF InventoryKind
  <2>4. MovedBy(r, s, dA, dR) BY <1>5
  <2>5. CASE s \notin r.skus BY <2>1, <2>2, <2>3, <2>4, <2>5 DEF MovedBy
  <2>6. CASE s \in r.skus
    BY <1>1, <2>1, <2>2, <2>3, <2>4, <2>6 DEF MovedBy, InventoryKind
  <2> QED BY <2>5, <2>6
<1>7. Untouched'
  <2> SUFFICES ASSUME NEW s \in SkuId, skuRow'[s].state = "unborn",
                      NEW kind \in InventoryKind
               PROVE  skuRow'[s] = InitialSku[s] /\ Applied(kind, s)' = {}
    BY DEF Untouched, InventoryKind
  <2>1. skuRow[s].state = "unborn" BY <1>5 DEF MovedBy
  <2>2. s \notin r.skus BY <1>1, <2>1
  <2>3. skuRow[s] = InitialSku[s] /\ Applied(kind, s) = {}
    BY <2>1 DEF BalanceInv, Untouched
  <2>4. Applied(kind, s)' = Applied(kind, s) BY <1>1, <1>2, <2>2, AppliedAfter
  <2> QED BY <1>5, <2>2, <2>3, <2>4
<1> QED BY <1>4, <1>6, <1>7 DEF BalanceInv

LEMMA RecordKept ==
  ASSUME AppliedOps' = AppliedOps, NEW kind \in InventoryKind, NEW s \in SkuId
  PROVE  Applied(kind, s)' = Applied(kind, s) /\ Total(kind, s)' = Total(kind, s)
<1>1. \A x \in Request : <<kind, x.key>> \in ops' <=> <<kind, x.key>> \in ops
  BY RequestAssumption DEF AppliedOps
<1>2. Applied(kind, s)' = Applied(kind, s) BY <1>1 DEF Applied
<1> QED BY <1>2 DEF Total

\* A SKU that a seller adds has nothing and was named by nothing; one that is
\* removed is not spoken of any more.
LEMMA SellerBalances ==
  ASSUME TypeOK, BalanceInv, NEW s \in SkuId, Ledger!Add(s) \/ Ledger!Remove(s)
  PROVE  BalanceInv'
<1> DEFINE new == IF skuRow[s].state = "unborn" THEN [Row0 EXCEPT !.state = "live"]
                  ELSE [Row0 EXCEPT !.state = "deleted"]
<1>1. /\ skuRow' = [skuRow EXCEPT ![s] = new]
      /\ AppliedOps' = AppliedOps /\ skuRow[s].state \in {"unborn", "live"}
  BY DEF Ledger!Add, Ledger!Remove, AppliedOps
<1>2. \A kind \in InventoryKind, x \in SkuId :
        Applied(kind, x)' = Applied(kind, x) /\ Total(kind, x)' = Total(kind, x)
  BY <1>1, RecordKept
<1>3. FiniteRecord' BY <1>2 DEF BalanceInv, FiniteRecord
<1>4. /\ \A x \in SkuId : x # s => skuRow'[x] = skuRow[x]
      /\ skuRow'[s] = new
  <2> HIDE DEF new
  <2> QED BY <1>1 DEF TypeOK
<1>5. new.state # "unborn" /\ new.active = 0 /\ new.reserved = 0
      /\ (new.state = "live" => skuRow[s].state = "unborn")
  BY DEF Row0
<1> HIDE DEF new
<1>6. Untouched' BY <1>2, <1>4, <1>5 DEF BalanceInv, Untouched
<1>7. LedgerBalances'
  <2> SUFFICES ASSUME NEW x \in SkuId, Live(x)'
               PROVE  /\ skuRow'[x].active = InitialSku[x].active - Total("reserve", x)
                                             + Total("unreserve", x)
                      /\ skuRow'[x].reserved = InitialSku[x].reserved
                           + Total("reserve", x) - Total("unreserve", x)
                           - Total("fulfill", x)
    BY <1>2 DEF LedgerBalances, InventoryKind
  <2>1. CASE x # s BY <1>4, <2>1 DEF BalanceInv, LedgerBalances, Live
  <2>2. CASE x = s
    <3>1. skuRow[s].state = "unborn" /\ skuRow'[s].active = 0 /\ skuRow'[s].reserved = 0
      BY <1>4, <1>5, <2>2 DEF Live
    <3>2. \A kind \in InventoryKind : Applied(kind, s) = {}
      BY <3>1 DEF BalanceInv, Untouched
    <3>3. \A kind \in InventoryKind : Total(kind, s) = 0 BY <3>2, SumEmpty DEF Total
    <3>4. InitialSku[s] = Row0 BY <3>1, HistoryAssumption DEF BalanceInv, Untouched
    <3> QED BY <2>2, <3>1, <3>3, <3>4 DEF Row0, InventoryKind
  <2> QED BY <2>1, <2>2
<1> QED BY <1>3, <1>6, <1>7 DEF BalanceInv

LEMMA BalanceNext ==
  ASSUME TypeOK, KeysIdentify, BalanceInv, [Ledger!Next]_(Ledger!ledger)
  PROVE  BalanceInv'
<1>1. CASE \E r \in Request : Ledger!Reserve(r) \/ Ledger!Unreserve(r) \/ Ledger!Fulfill(r)
  BY <1>1, OperationBalances
<1>2. CASE \E s \in SkuId : Ledger!Add(s) \/ Ledger!Remove(s)
  BY <1>2, SellerBalances
<1>3. CASE Ledger!Judge \/ UNCHANGED Ledger!ledger
  <2>1. skuRow' = skuRow /\ AppliedOps' = AppliedOps
    BY <1>3 DEF Ledger!Judge, Ledger!ledger, AppliedOps
  <2>2. \A kind \in InventoryKind, s \in SkuId :
          Applied(kind, s)' = Applied(kind, s) /\ Total(kind, s)' = Total(kind, s)
    BY <2>1, RecordKept
  <2> QED BY <2>1, <2>2 DEF BalanceInv, LedgerBalances, Untouched, FiniteRecord, Live,
                           InventoryKind
<1> QED BY <1>1, <1>2, <1>3 DEF Ledger!Next

LEMMA BalanceInit == ASSUME Init PROVE BalanceInv
<1>1. \A kind, s : Applied(kind, s) = {} BY DEF Init, Applied
<1>2. \A kind, s : Total(kind, s) = 0 BY <1>1, SumEmpty DEF Total
<1>3. FiniteRecord /\ Untouched BY <1>1, FS_EmptySet DEF FiniteRecord, Untouched, Init
<1>4. skuRow = InitialSku BY DEF Init
<1>5. \A s \in SkuId : InitialSku[s].active \in Int /\ InitialSku[s].reserved \in Int
  BY TablesAssumption DEF SkuRow
<1>6. LedgerBalances BY <1>2, <1>4, <1>5 DEF LedgerBalances
<1> QED BY <1>3, <1>6 DEF BalanceInv

\* Whatever was sent twice, retried, refused or interrupted, and whatever sellers
\* and moderation did meanwhile, the quantities of a SKU are what it started with
\* plus what the recorded operations moved, each counted once.
THEOREM Balances == ASSUME KeysIdentify PROVE Spec => []LedgerBalances
<1>1. Init => BalanceInv BY BalanceInit
<1>2. TypeOK /\ BalanceInv /\ [Ledger!Next]_(Ledger!ledger) => BalanceInv'
  BY BalanceNext
<1>3. Inv => TypeOK BY DEF Inv
<1>4. Inv /\ [Next]_vars => [Ledger!Next]_(Ledger!ledger) BY StepImplements
<1>5. BalanceInv => LedgerBalances BY DEF BalanceInv
<1> QED BY <1>1, <1>2, <1>3, <1>4, <1>5, Invariance, PTL DEF Spec

-----------------------------------------------------------------------------
\* A session has events left to post only when its reserve is on record, and they
\* are about that reserve.
NotifiesOnRecord(w) ==
  pc[w] = "notify" => /\ req[w].kind = "reserve" /\ Op(w) \in ops
                      /\ outbox[w] \subseteq {OutOfStock(s, Op(w)) : s \in SkuId}

NotifyInv ==
  /\ DOMAIN outbox = Worker
  /\ \A w \in Worker : NotifiesOnRecord(w)

\* Nobody's record goes away, and nobody fills another one's outbox.
LEMMA OutboxFrame ==
  ASSUME DOMAIN outbox = Worker, NEW w \in Worker,
         (\E r \in Request : Receive(w, r)) \/ Advance(w) \/ Crash(w)
  PROVE  /\ DOMAIN outbox' = Worker
         /\ \A v \in Worker \ {w} : outbox'[v] = outbox[v]
         /\ ops \subseteq ops'
<1>1. CASE (\E r \in Request : Receive(w, r)) \/ Crash(w)
  BY <1>1 DEF Receive, Crash, tables
<1>2. CASE LockSku(w) \/ LockProduct(w) \/ LockSeller(w) \/ LockCategory(w) \/ Return(w)
  BY <1>2 DEF LockSku, LockProduct, LockSeller, LockCategory, Refuse, Answer, Return,
              tables, session
<1>3. CASE CheckReference(w) \/ DeadlockVictim(w)
  BY <1>3 DEF CheckReference, DeadlockVictim, Refuse, Answer, tables, session
<1>4. CASE InventoryStep(w)
  BY <1>4 DEF InventoryStep, LookUpOperation, InsertOperation,
              FulfillGetOrCreate, ReserveDecide, UnreserveDecide, FulfillDecide,
              NotifySoldOut, Conflict, Refuse, Decide, CommitReserve, CommitUnreserve,
              CommitFulfill, Answer, SaveQuantities, tables, session
<1>5. CASE SkuStep(w)
  BY <1>5 DEF SkuStep, CreateSkuDecide, UpdateSkuDecide, DeleteSkuDecide,
              CommitCreateSku, CommitUpdateSku, CommitDeleteSku,
              WriteName, Save, SaveEdit, Refuse, Answer, Decide, tables
<1>6. CASE ProductStep(w)
  BY <1>6 DEF ProductStep, UpdateProductDecide, DeleteProductRead,
              DeleteProductPost, InsertProcessedEvent, ModerationDecide, InvoiceRead,
              CommitCreateProduct, CommitUpdateProduct, CommitDeleteProduct,
              CommitModeration, CommitInvoice, Save, SaveEdit, Refuse, Answer, Decide,
              tables, session
<1> QED BY <1>1, <1>2, <1>3, <1>4, <1>5, <1>6 DEF Advance

\* Only a committed reserve leaves something to post.
LEMMA OnlyReserveNotifies ==
  ASSUME Inv, NEW w \in Worker, pc'[w] = "notify", ~CommitReserve(w),
         (\E r \in Request : Receive(w, r)) \/ Advance(w) \/ Crash(w)
  PROVE  FALSE
<1>1. TypeOK BY DEF Inv
<1>2. ~((\E r \in Request : Receive(w, r)) \/ Crash(w) \/ Return(w))
  BY <1>1 DEF Receive, StartQuery, FirstStage, Go, Crash, Return, TypeOK
<1>3. \A code : ~(Refuse(w, code) \/ Answer(w, code))
  BY <1>1 DEF Refuse, Answer, TypeOK
<1>4. ~(LockSku(w) \/ LockProduct(w) \/ LockSeller(w) \/ LockCategory(w))
  BY <1>3 DEF LockSku, LockProduct, LockSeller, LockCategory
<1>5. \A status, events, stage : Decide(w, status, events, stage) => stage = "notify"
  BY <1>1 DEF Decide, Go, TypeOK
<1>6. ~(CheckReference(w) \/ DeadlockVictim(w))
  BY <1>3 DEF CheckReference, DeadlockVictim
<1>7. ~InventoryStep(w)
  BY <1>1, <1>3, <1>5
  DEF InventoryStep, LookUpOperation, InsertOperation, FulfillGetOrCreate,
      ReserveDecide, UnreserveDecide, FulfillDecide, NotifySoldOut, Conflict,
      CommitUnreserve, CommitFulfill, StartQuery, Go, TypeOK
<1>8. ~SkuStep(w)
  BY <1>3, <1>5
  DEF SkuStep, CreateSkuDecide, UpdateSkuDecide, DeleteSkuDecide,
      CommitCreateSku, CommitUpdateSku, CommitDeleteSku, WriteName, Save, SaveEdit
<1>9. ~ProductStep(w)
  BY <1>1, <1>3, <1>5
  DEF ProductStep, UpdateProductDecide, DeleteProductRead, DeleteProductPost,
      InsertProcessedEvent, ModerationDecide, InvoiceRead, CommitCreateProduct,
      CommitUpdateProduct, CommitDeleteProduct, CommitModeration, CommitInvoice, Save,
      SaveEdit, Go, TypeOK
<1> QED BY <1>2, <1>4, <1>6, <1>7, <1>8, <1>9 DEF Advance

\* Only the callback of a committed reserve posts SKU_OUT_OF_STOCK of an inventory
\* operation, with what is in its outbox.
LEMMA WhoTells ==
  ASSUME NEW w \in Worker, NEW s \in SkuId, NEW op \in OpId,
         (\E r \in Request : Receive(w, r)) \/ Advance(w) \/ Crash(w),
         OutOfStock(s, op) \in sent', OutOfStock(s, op) \notin sent
  PROVE  pc[w] = "notify" /\ OutOfStock(s, op) \in outbox[w]
<1>1. sent' # sent OBVIOUS
<1>2. \A code : ~Refuse(w, code) BY <1>1 DEF Refuse
<1>3. ~((\E r \in Request : Receive(w, r)) \/ Crash(w) \/ Return(w))
  BY <1>1 DEF Receive, Crash, Return
<1>4. ~(LockSku(w) \/ LockProduct(w) \/ LockSeller(w) \/ LockCategory(w))
  BY <1>1, <1>2 DEF LockSku, LockProduct, LockSeller, LockCategory
<1>5. ~(CheckReference(w) \/ DeadlockVictim(w))
  BY <1>1, <1>2 DEF CheckReference, DeadlockVictim
<1>6. \A status, events, stage :
        Decide(w, status, events, stage) => OutOfStock(s, op) \in events
  BY DEF Decide, Post
<1>7. \A type, p : OutOfStock(s, op) \notin {Event(type, p)} BY DEF OutOfStock, Event
<1>8. \A status : OutOfStock(s, op) \notin Announced(w, status)
  BY <1>7 DEF Announced
<1>9. \A status : ~Save(w, status) BY <1>6, <1>8 DEF Save
<1>10. CASE InventoryStep(w)
  <2>1. NotifySoldOut(w)
    BY <1>1, <1>2, <1>6, <1>10
    DEF InventoryStep, LookUpOperation, InsertOperation, FulfillGetOrCreate,
        ReserveDecide, UnreserveDecide, FulfillDecide, Conflict, CommitReserve,
        CommitUnreserve, CommitFulfill, SaveQuantities
  <2> QED BY <2>1 DEF NotifySoldOut, At, Post
<1>11. ~SkuStep(w)
  <2>1. \A t : OutOfStock(s, op) # SkuGone(t)
    BY DEF OutOfStock, SkuGone, OpId, KeyedKind, InventoryKind
  <2>2. ~DeleteSkuDecide(w) BY <1>2, <1>6, <1>7, <2>1 DEF DeleteSkuDecide
  <2>3. ~WriteName(w) BY <1>2, <1>6, <1>8 DEF WriteName
  <2> QED BY <1>1, <1>2, <1>9, <2>2, <2>3
      DEF SkuStep, CreateSkuDecide, UpdateSkuDecide, SaveEdit, CommitCreateSku,
          CommitUpdateSku, CommitDeleteSku
<1>12. ~ProductStep(w)
  <2>1. \A p : OutOfStock(s, op) \notin {<<"b2c", "PRODUCT_BLOCKED", p>>}
    BY DEF OutOfStock
  <2>2. \A p : OutOfStock(s, op) # <<"b2c", "PRODUCT_DELETED", p>>
    BY DEF OutOfStock
  <2>3. ~(DeleteProductPost(w) \/ ModerationDecide(w) \/ InvoiceRead(w))
    BY <1>2, <1>6, <1>7, <2>1, <2>2 DEF DeleteProductPost, ModerationDecide, InvoiceRead
  <2> QED BY <1>1, <1>2, <1>9, <2>3
      DEF ProductStep, UpdateProductDecide, SaveEdit, DeleteProductRead,
          InsertProcessedEvent, CommitCreateProduct, CommitUpdateProduct,
          CommitDeleteProduct, CommitModeration, CommitInvoice
<1> QED BY <1>3, <1>4, <1>5, <1>10, <1>11, <1>12 DEF Advance

LEMMA NotifyNext == Inv /\ NotifyInv /\ [Next]_vars => NotifyInv'
<1> SUFFICES ASSUME Inv, NotifyInv, [Next]_vars PROVE NotifyInv' OBVIOUS
<1>1. CASE UNCHANGED vars
  BY <1>1 DEF NotifyInv, NotifiesOnRecord, Op, vars, tables, session
<1>2. CASE Next
  <2>1. PICK w \in Worker : (\E r \in Request : Receive(w, r)) \/ Advance(w) \/ Crash(w)
    BY <1>2 DEF Next
  <2>2. /\ DOMAIN outbox' = Worker /\ ops \subseteq ops'
        /\ \A v \in Worker \ {w} : outbox'[v] = outbox[v]
    BY <2>1, OutboxFrame DEF NotifyInv
  <2>3. \A v \in Worker \ {w} : pc'[v] = pc[v] /\ req'[v] = req[v]
    BY <2>1, StepEffect DEF Effect, Others
  <2>4. \A v \in Worker \ {w} : NotifiesOnRecord(v)'
    BY <2>2, <2>3 DEF NotifyInv, NotifiesOnRecord, Op
  <2>5. NotifiesOnRecord(w)'
    <3>1. SUFFICES ASSUME CommitReserve(w), pc'[w] = "notify" PROVE NotifiesOnRecord(w)'
      BY <2>1, OnlyReserveNotifies DEF NotifiesOnRecord
    <3>2. /\ req' = req /\ req[w].kind = "reserve" /\ Op(w) \in ops'
          /\ outbox'[w] = {OutOfStock(s, Op(w)) : s \in SoldOut(w)}
      BY <3>1 DEF CommitReserve, Committing, At, SaveQuantities, Answer, NotifyInv, Inv,
                  TypeOK
    <3>3. SoldOut(w) \subseteq SkuId
      BY <3>1, RequestType DEF CommitReserve, Committing, At, SoldOut, Inv
    <3> QED BY <3>2, <3>3 DEF NotifiesOnRecord, Op
  <2> QED BY <2>2, <2>4, <2>5 DEF NotifyInv
<1> QED BY <1>1, <1>2

\* A reserve has to tell of the SKUs it sells out, and of no other.
LEMMA ReserveTells ==
  ASSUME Inv, NotifyInv, NEW w \in Worker, CommitReserve(w)
  PROVE  outbox'[w] = {OutOfStock(s, Op(w)) : s \in LastUnitsTaken}
<1>1. /\ pc[w] = "commit" /\ pc[w] # "idle"
      /\ req[w].kind = "reserve" /\ req[w].kind \in InventoryKind
  BY DEF CommitReserve, Committing, At, InventoryKind
<1>2. /\ req[w].skus \subseteq SkuId
      /\ \A s \in req[w].skus : req[w].qty[s] \in Nat /\ req[w].qty[s] >= 1
  BY <1>1, RequestType, RequestAssumption DEF Inv, TypeOK
<1>3. \A s \in SkuId : skuRow[s] \in SkuRow BY DEF Inv, TypeOK
<1>4. ASSUME NEW s \in SkuId PROVE s \in LastUnitsTaken <=> s \in SoldOut(w)
  <2>1. CASE s \notin req[w].skus
    <3>1. skuRow'[s] = skuRow[s] BY <2>1 DEF CommitReserve, SaveQuantities
    <3>2. skuRow[s].active \in Nat BY <1>3 DEF SkuRow
    <3> QED BY <2>1, <3>1, <3>2 DEF LastUnitsTaken, SoldOut
  <2>2. CASE s \in req[w].skus
    <3>1. skuRow'[s].active = seenSku[w][s].active + (-1) * req[w].qty[s]
      <4>1. skuRow[s] \in [state : {"unborn", "live", "deleted"}, active : Nat, reserved : Nat]
        BY <1>3 DEF SkuRow
      <4> QED BY <2>2, <4>1 DEF CommitReserve, SaveQuantities
    <3>2. /\ seenSku[w][s] = skuRow[s] /\ skuRow[s].active \in Nat
          /\ skuRow[s].active >= req[w].qty[s]
      BY <1>1, <1>3, <2>2, InventoryReady DEF SkuRow
    <3> QED BY <1>2, <2>2, <3>1, <3>2 DEF LastUnitsTaken, SoldOut
  <2> QED BY <2>1, <2>2
<1>5. LastUnitsTaken = SoldOut(w) BY <1>2, <1>4 DEF LastUnitsTaken, SoldOut
<1>6. outbox'[w] = {OutOfStock(s, Op(w)) : s \in SoldOut(w)}
  BY DEF CommitReserve, Answer, NotifyInv
<1> QED BY <1>5, <1>6

\* The operation a step records is the stepping worker's.
LEMMA WhoRecords ==
  ASSUME Inv, NEW w \in Worker,
         (\E r \in Request : Receive(w, r)) \/ Advance(w) \/ Crash(w),
         NEW v \in Worker, At(v, "commit", {"reserve"}), Op(v) \in ops', Op(v) \notin ops
  PROVE  v = w /\ CommitReserve(w)
<1>1. Commit(w) BY OnlyCommitsWrite DEF tables
<1>2. \/ Op(v) = Op(w) /\ pc[w] = "commit"
      \/ UNCHANGED ops
  BY <1>1 DEF Commit, CommitReserve, CommitUnreserve, CommitFulfill, SaveQuantities,
     CommitCreateSku, CommitUpdateSku, CommitDeleteSku, CommitCreateProduct,
     CommitUpdateProduct, CommitDeleteProduct, CommitModeration, CommitInvoice,
     Committing, At
<1>3. pc[w] = "commit" /\ req[w].kind = "reserve" /\ Op(v) = Op(w) BY <1>2 DEF At, Op
<1>4. claim[Op(v)] = v /\ claim[Op(w)] = w
  BY <1>3, InventoryReady DEF At, InventoryKind
<1>5. v = w BY <1>3, <1>4
<1>6. CommitReserve(w)
  BY <1>1, <1>3
  DEF Commit, CommitUnreserve, CommitFulfill, CommitCreateSku, CommitUpdateSku,
      CommitDeleteSku, CommitCreateProduct, CommitUpdateProduct, CommitDeleteProduct,
      CommitModeration, CommitInvoice, Committing, At
<1> QED BY <1>5, <1>6

ToldStep ==
  /\ \A w \in Worker : At(w, "commit", {"reserve"}) /\ Op(w) \in ops' \ ops =>
       outbox'[w] = {OutOfStock(s, Op(w)) : s \in LastUnitsTaken}
  /\ \A s \in SkuId, op \in OpId : OutOfStock(s, op) \in sent' \ sent =>
       op \in ops /\ \E w \in Worker : pc[w] = "notify" /\ Op(w) = op

\* The events a reserve has to post are exactly those of the SKUs whose last units
\* its commit takes; and no such event reaches B2C but from the thread that has
\* committed that very reserve, so none of a reserve that crashed, was the victim of
\* a deadlock or failed before its COMMIT.
THEOREM ToldAfterCommit == Spec => SoldOutOnlyAfterCommit
<1>1. Init => NotifyInv
  BY DEF Init, NotifyInv, NotifiesOnRecord
<1>2. Inv /\ NotifyInv /\ [Next]_vars => [ToldStep]_vars
  <2> SUFFICES ASSUME Inv, NotifyInv, Next PROVE ToldStep OBVIOUS
  <2>1. PICK w \in Worker : (\E r \in Request : Receive(w, r)) \/ Advance(w) \/ Crash(w)
    BY DEF Next
  <2>2. ASSUME NEW v \in Worker, At(v, "commit", {"reserve"}), Op(v) \in ops' \ ops
        PROVE  outbox'[v] = {OutOfStock(s, Op(v)) : s \in LastUnitsTaken}
    BY <2>1, <2>2, WhoRecords, ReserveTells
  <2>3. ASSUME NEW s \in SkuId, NEW op \in OpId, OutOfStock(s, op) \in sent' \ sent
        PROVE  op \in ops /\ \E v \in Worker : pc[v] = "notify" /\ Op(v) = op
    <3>1. pc[w] = "notify" /\ OutOfStock(s, op) \in outbox[w] BY <2>1, <2>3, WhoTells
    <3>2. Op(w) \in ops /\ op = Op(w)
      BY <3>1 DEF NotifyInv, NotifiesOnRecord, OutOfStock
    <3> QED BY <3>1, <3>2
  <2> QED BY <2>2, <2>3 DEF ToldStep
<1>3. SoldOutOnlyAfterCommit <=> [][ToldStep]_vars
  BY DEF SoldOutOnlyAfterCommit, ToldStep
<1> QED BY <1>1, <1>2, <1>3, NotifyNext, Invariance, PTL DEF Spec

-----------------------------------------------------------------------------
Owning(w) ==
  Holds(w, {"commit"}, KeyedKind) \/ Holds(w, {"lock"}, {"fulfill", "moderation"})

\* A session owns no key but its own, and that one only past its insert.
OwnsItsKey(w) == \A o \in OpId : claim[o] = w => o = Op(w) /\ Owning(w)

KeyInv == Inv /\ \A w \in Worker : OwnsItsKey(w)

\* The worker goes on without claiming a key.
GoesOn(w) ==
  /\ UNCHANGED claim
  /\ Owning(w) => req'[w] = req[w] /\ pc'[w] \in {pc[w], "commit"}

LEMMA GoesOnOwns ==
  ASSUME KeyInv, NEW w \in Worker, GoesOn(w)
  PROVE  OwnsItsKey(w)'
<1>1. OwnsItsKey(w) BY DEF KeyInv
<1>2. ASSUME Owning(w) PROVE Op(w)' = Op(w) /\ Owning(w)'
  BY <1>2 DEF GoesOn, Op, Owning, Holds, KeyedKind, InventoryKind
<1> QED BY <1>1, <1>2 DEF OwnsItsKey, GoesOn

LEMMA ReleasedOwns ==
  ASSUME NEW w \in Worker, ReleaseAll(w)
  PROVE  OwnsItsKey(w)'
BY WorkerAssumption DEF ReleaseAll, OwnsItsKey

LEMMA RefusedOwns ==
  ASSUME NEW w \in Worker, NEW code, Answer(w, code) \/ Refuse(w, code) \/ Crash(w)
  PROVE  OwnsItsKey(w)'
BY ReleasedOwns DEF Answer, Refuse, Crash

LEMMA DecideGoesOn ==
  ASSUME KeyInv, NEW w \in Worker, NEW status, NEW events, NEW stage,
         Decide(w, status, events, stage), stage = "commit" \/ ~Owning(w)
  PROVE  GoesOn(w)
BY DEF KeyInv, Inv, TypeOK, Decide, Go, GoesOn, locks

LEMMA ClaimsOwn ==
  ASSUME KeyInv, NEW w \in Worker,
         InsertOperation(w) \/ FulfillGetOrCreate(w) \/ InsertProcessedEvent(w)
  PROVE  OwnsItsKey(w)'
<1>1. TypeOK /\ OwnsItsKey(w) BY DEF KeyInv, Inv
<1>2. CASE Refuse(w, "error") \/ Refuse(w, "replay") BY <1>2, RefusedOwns
<1>3. CASE ~(Refuse(w, "error") \/ Refuse(w, "replay"))
  <2>1. /\ pc[w] = "insert" /\ req' = req
        /\ claim' = [claim EXCEPT ![Op(w)] = w]
        /\ \/ req[w].kind \in {"reserve", "unreserve"} /\ Go(w, "commit")
           \/ req[w].kind \in {"fulfill", "moderation"} /\ Go(w, "lock")
    BY <1>3 DEF InsertOperation, FulfillGetOrCreate, InsertProcessedEvent, At,
                StartQuery, session
  <2>2. \A o \in OpId : claim[o] # w BY <1>1, <2>1 DEF OwnsItsKey, Owning, Holds
  <2>3. \A o \in OpId : claim'[o] = w => o = Op(w) BY <1>1, <2>1, <2>2 DEF TypeOK
  <2>4. Owning(w)'
    BY <1>1, <2>1 DEF TypeOK, Go, Owning, Holds, KeyedKind, InventoryKind
  <2> QED BY <2>1, <2>3, <2>4 DEF OwnsItsKey, Op
<1> QED BY <1>2, <1>3

LEMMA StepOwns ==
  ASSUME KeyInv, NEW w \in Worker,
         (\E r \in Request : Receive(w, r)) \/ Advance(w) \/ Crash(w)
  PROVE  OwnsItsKey(w)'
<1>1. TypeOK BY DEF KeyInv, Inv
<1>2. CASE \/ Crash(w) \/ Refuse(w, "refused") \/ Refuse(w, "replay")
           \/ Refuse(w, "error") \/ Answer(w, "ok")
  BY <1>2, RefusedOwns
<1>3. CASE Commit(w)
  BY <1>2, <1>3, ReleasedOwns
  DEF Commit, CommitReserve, CommitUnreserve, CommitFulfill, CommitCreateSku,
      CommitUpdateSku, CommitDeleteSku, CommitCreateProduct, CommitUpdateProduct,
      CommitDeleteProduct, CommitModeration, CommitInvoice
<1>4. CASE (\E r \in Request : Receive(w, r)) \/ Return(w)
  <2>1. UNCHANGED claim /\ pc[w] \in {"idle", "answered"}
    BY <1>4 DEF Receive, Return, locks
  <2> QED BY <2>1, GoesOnOwns DEF GoesOn, Owning, Holds
<1>5. CASE /\ \/ LockSku(w) \/ LockProduct(w) \/ LockSeller(w)
              \/ LockCategory(w) \/ CheckReference(w)
           /\ ~(Refuse(w, "error") \/ Refuse(w, "refused"))
  <2>1. UNCHANGED <<claim, req, pc>>
    BY <1>5 DEF LockSku, LockProduct, LockSeller, LockCategory, CheckReference, session
  <2> QED BY <2>1, GoesOnOwns DEF GoesOn
<1>6. CASE /\ \/ LookUpOperation(w) \/ DeleteProductRead(w)
           /\ ~(Refuse(w, "replay") \/ Refuse(w, "refused"))
  <2>1. UNCHANGED claim /\ pc[w] \in {"lookup", "read"}
    BY <1>6 DEF LookUpOperation, DeleteProductRead, At, locks
  <2> QED BY <2>1, GoesOnOwns DEF GoesOn, Owning, Holds
<1>7. CASE InsertOperation(w) \/ FulfillGetOrCreate(w) \/ InsertProcessedEvent(w)
  BY <1>7, ClaimsOwn
<1>8. CASE /\ ReserveDecide(w) \/ UnreserveDecide(w)
           /\ ~Refuse(w, "refused")
  <2>1. pc[w] = "lock" /\ req[w].kind \in {"reserve", "unreserve"}
        /\ Decide(w, Undecided, {}, "insert")
    BY <1>8 DEF ReserveDecide, UnreserveDecide, At, Conflict
  <2> QED BY <2>1, DecideGoesOn, GoesOnOwns DEF Owning, Holds
<1>9. CASE /\ \/ FulfillDecide(w) \/ DeleteSkuDecide(w) \/ WriteName(w)
              \/ DeleteProductPost(w) \/ ModerationDecide(w) \/ InvoiceRead(w)
           /\ ~(Refuse(w, "refused") \/ Refuse(w, "error"))
  <2>1. \E status, events : Decide(w, status, events, "commit")
    BY <1>9 DEF FulfillDecide, Conflict, DeleteSkuDecide, WriteName, DeleteProductPost,
                ModerationDecide, InvoiceRead
  <2> QED BY <2>1, DecideGoesOn, GoesOnOwns
<1>10. CASE NotifySoldOut(w) \/ DeadlockVictim(w)
  BY <1>2, <1>10 DEF NotifySoldOut, DeadlockVictim
<1>11. CASE /\ CreateSkuDecide(w) \/ UpdateSkuDecide(w) \/ UpdateProductDecide(w)
            /\ ~Refuse(w, "refused")
  <2>1. /\ req[w].kind \in SellerKind
        /\ \E status : Save(w, status)
    BY <1>11 DEF CreateSkuDecide, UpdateSkuDecide, UpdateProductDecide, SaveEdit, At,
                 SellerKind
  <2>2. ~Owning(w) BY <2>1 DEF Owning, Holds, SellerKind, KeyedKind, InventoryKind
  <2> QED BY <2>1, <2>2, SaveDecides, DecideGoesOn, GoesOnOwns
<1> QED BY <1>2, <1>3, <1>4, <1>5, <1>6, <1>7, <1>8, <1>9, <1>10, <1>11
    DEF Advance, InventoryStep, SkuStep, ProductStep, Commit

LEMMA KeyNext == KeyInv /\ [Next]_vars => KeyInv'
<1> SUFFICES ASSUME KeyInv, [Next]_vars PROVE KeyInv' OBVIOUS
<1>1. CASE Next
  <2>1. PICK w \in Worker : (\E r \in Request : Receive(w, r)) \/ Advance(w) \/ Crash(w)
    BY <1>1 DEF Next
  <2>2. Effect(w) /\ OwnsItsKey(w)' BY <2>1, StepEffect, StepOwns DEF KeyInv
  <2>3. Inv' BY <2>2, EffectSuffices DEF KeyInv
  <2>4. ASSUME NEW v \in Worker, v # w PROVE OwnsItsKey(v)'
    <3>1. /\ pc'[v] = pc[v] /\ req'[v] = req[v]
          /\ \A o \in OpId : claim'[o] = v <=> claim[o] = v
      BY <2>2, <2>4 DEF Effect, Others
    <3> QED BY <3>1 DEF KeyInv, OwnsItsKey, Owning, Holds, Op
  <2> QED BY <2>2, <2>3, <2>4 DEF KeyInv
<1>2. CASE UNCHANGED vars
  BY <1>2, Stutter DEF KeyInv, OwnsItsKey, Owning, Holds, Op, vars, locks, session
<1> QED BY <1>1, <1>2

LEMMA KeyInit == Init => KeyInv
BY InitInv, WorkerAssumption DEF KeyInv, OwnsItsKey, Init

-----------------------------------------------------------------------------
\* Only a session that waits or has yet to insert can find its key on record.
LEMMA OnRecord ==
  ASSUME KeyInv, NEW w \in Worker, pc[w] # "idle", req[w].kind = "fulfill", Op(w) \in ops
  PROVE  /\ pc[w] \notin {"lock", "commit"}
         /\ \A v \in Worker : claim[Op(w)] # v
<1>1. TypeOK /\ Op(w) \in OpId BY DEF KeyInv, Inv, TypeOK
<1>2. pc[w] \notin {"lock", "commit"}
  BY DEF KeyInv, Inv, SessionOK, ClaimsItsKey, Holds, KeyedKind, InventoryKind
<1>3. ASSUME NEW v \in Worker, claim[Op(w)] = v PROVE FALSE
  <2>1. Op(v) = Op(w) /\ Owning(v) BY <1>1, <1>3 DEF KeyInv, OwnsItsKey
  <2>2. Op(v) \notin ops BY <2>1 DEF KeyInv, Inv, SessionOK, ClaimsItsKey, Owning
  <2> QED BY <2>1, <2>2
<1> QED BY <1>2, <1>3

LEMMA AnswersRetry ==
  ASSUME KeyInv, NEW w \in Worker,
         (\E r \in Request : Receive(w, r)) \/ Advance(w) \/ Crash(w),
         pc[w] # "idle", req[w].kind = "fulfill", Op(w) \in ops,
         pc[w] # "answered", pc'[w] = "answered"
  PROVE  reply'[w] \in {"ok", "replay"}
<1>1. TypeOK /\ pc[w] \notin {"lock", "commit"} /\ \A v \in Worker : claim[Op(w)] # v
  BY OnRecord DEF KeyInv, Inv
<1>2. CASE Answer(w, "ok") \/ Refuse(w, "replay")
  BY <1>1, <1>2 DEF Answer, Refuse, TypeOK
<1>3. ~((\E r \in Request : Receive(w, r)) \/ Crash(w) \/ Return(w))
  BY <1>1 DEF Receive, Crash, Return, TypeOK
<1>4. ~(\/ LockSku(w) \/ LockProduct(w) \/ LockSeller(w) \/ LockCategory(w)
        \/ CheckReference(w))
  BY <1>1 DEF LockSku, LockProduct, LockSeller, LockCategory, CheckReference
<1>5. pc[w] # "write" BY Writers DEF KeyInv
<1>8. ~DeadlockVictim(w)
  BY <1>1, <1>5 DEF DeadlockVictim, DeadlockCycle, Deadlocked, WaitsFor, WaitsForName
<1>6. ~(SkuStep(w) \/ ProductStep(w))
  BY <1>5
     DEF SkuStep, ProductStep, CreateSkuDecide, UpdateSkuDecide, DeleteSkuDecide, WriteName,
         CommitCreateSku, CommitUpdateSku, CommitDeleteSku, UpdateProductDecide,
         CommitCreateProduct, CommitUpdateProduct, DeleteProductRead, DeleteProductPost,
         CommitDeleteProduct, InsertProcessedEvent, ModerationDecide,
         CommitModeration, InvoiceRead, CommitInvoice, Committing, At
<1>7. CASE InventoryStep(w)
  <2>1. FulfillGetOrCreate(w)
    BY <1>1, <1>7
    DEF InventoryStep, LookUpOperation, InsertOperation, ReserveDecide,
        UnreserveDecide, FulfillDecide, CommitReserve, NotifySoldOut,
        CommitUnreserve, CommitFulfill, Committing, At
  <2>2. Recorded(w) BY DEF Recorded
  <2>3. Refuse(w, "replay") BY <2>1, <2>2 DEF FulfillGetOrCreate
  <2> QED BY <1>2, <2>3
<1> QED BY <1>3, <1>4, <1>6, <1>7, <1>8 DEF Advance

RetryStep == RetryAnswered({"fulfill"})

\* fulfill inserts first and with get_or_create, so whatever a retry meets (its
\* first delivery still running, crashed or done) its answer is the stored result.
THEOREM FulfillRetries == Spec => FulfillRetryAnswered
<1>1. KeyInv /\ [Next]_vars => [RetryStep]_vars
  <2> SUFFICES ASSUME KeyInv, Next PROVE RetryStep OBVIOUS
  <2>1. PICK w \in Worker : (\E r \in Request : Receive(w, r)) \/ Advance(w) \/ Crash(w)
    BY DEF Next
  <2>2. ASSUME NEW v \in Worker, v # w PROVE pc'[v] = pc[v]
    BY <2>1, <2>2, StepEffect DEF KeyInv, Effect, Others
  <2>3. \A v \in Worker : req[v] # NoRequest <=> pc[v] # "idle"
    BY DEF KeyInv, Inv, TypeOK
  <2> QED BY <2>1, <2>2, <2>3, AnswersRetry DEF RetryStep, RetryAnswered
<1>2. FulfillRetryAnswered <=> [][RetryStep]_vars BY DEF FulfillRetryAnswered, RetryStep
<1> QED BY <1>1, <1>2, KeyInit, KeyNext, PTL DEF Spec


-----------------------------------------------------------------------------
\* Deadlocks.  What the locks of a session tell about its request: it holds no
\* product or seller it does not want; the seller comes after the products, the
\* category last; and a request for one SKU, or for none, has at most one row left
\* to visit, and no row once it has that SKU.
Single(w) == req[w].kind \in SkuKind => \E s \in SkuId : req[w].skus \subseteq {s}

KeepsOrder(w) ==
  /\ \A p \in ProductId : holder[p] = w => p \in ProductsWanted(w)
  /\ \A x \in SellerId : holder[x] = w =>
       /\ x \in SellersWanted(w)
       /\ Unlocked(w, ProductsWanted(w)) = {}
       /\ req[w].kind \in SkuKind => scan[w] = <<>>
  /\ \A c \in CategoryId : holder[c] = w =>
       /\ Unlocked(w, ProductsWanted(w)) = {}
       /\ Unlocked(w, SellersWanted(w)) = {}
       /\ scan[w] = <<>>
  /\ pc[w] # "idle" /\ Single(w) =>
       /\ Len(scan[w]) <= 1
       /\ found[w] # {} => scan[w] = <<>>

\* Before its locking query a session has no row.
StartsBare(w) ==
  /\ \/ pc[w] = "lookup"
     \/ Holds(w, {"insert"}, {"fulfill", "moderation"})
     => found[w] = {} /\ \A row \in Row : holder[row] # w
  /\ pc[w] = "insert" => req[w].kind \in KeyedKind

\* Rows are shared at COMMIT only, by what refers to them, or by the product whose
\* category changes.
Recategorises(w) == req[w].kind = "update_product" /\ req[w].category # {}

SharesReferences(w) ==
  /\ \A row \in Row : w \in sharers[row] =>
       pc[w] = "commit" /\ (row \in References(w) \/ Recategorises(w))
  /\ Holds(w, {"commit"}, {"moderation"}) => decision[w] = req[w].verdict

LockShape(w) == KeepsOrder(w) /\ StartsBare(w) /\ SharesReferences(w)

ShapeInv == KeyInv /\ \A w \in Worker : LockShape(w)

Step(w) == (\E r \in Request : Receive(w, r)) \/ Advance(w) \/ Crash(w)

LEMMA SharersFrame ==
  ASSUME TypeOK, NEW w \in Worker, Step(w), NEW v \in Worker, v # w, NEW row \in Row
  PROVE  v \in sharers'[row] <=> v \in sharers[row]
<1>1. CASE UNCHANGED sharers BY <1>1
<1>2. CASE ReleaseAll(w) BY <1>2 DEF ReleaseAll
<1>3. CASE (\E r \in Request : Receive(w, r)) \/ Crash(w)
  BY <1>1, <1>2, <1>3 DEF Receive, Crash, locks
<1>4. CASE LockSku(w) \/ LockProduct(w) \/ LockSeller(w) \/ LockCategory(w) \/ Return(w)
  BY <1>1, <1>2, <1>4 DEF LockSku, LockProduct, LockSeller, LockCategory, Refuse, Answer,
                          Return, locks
<1>5. CASE CheckReference(w)
  <2>1. CASE Refuse(w, "error") BY <1>2, <2>1 DEF Refuse, Answer
  <2>2. CASE ~Refuse(w, "error")
    <3>1. PICK x : sharers' = [sharers EXCEPT ![x] = @ \union {w}]
      BY <1>5, <2>2 DEF CheckReference
    <3> QED BY <3>1 DEF TypeOK
  <2> QED BY <2>1, <2>2
<1>6. CASE InventoryStep(w) \/ DeadlockVictim(w)
  BY <1>1, <1>2, <1>6
  DEF InventoryStep, DeadlockVictim, LookUpOperation, InsertOperation,
      FulfillGetOrCreate, ReserveDecide, UnreserveDecide, FulfillDecide,
      NotifySoldOut, Conflict, Refuse, Decide, CommitReserve, CommitUnreserve,
      CommitFulfill, Answer, locks
<1>7. CASE SkuStep(w)
  BY <1>1, <1>2, <1>7
  DEF SkuStep, CreateSkuDecide, UpdateSkuDecide, DeleteSkuDecide,
      CommitCreateSku, CommitUpdateSku, CommitDeleteSku,
      WriteName, Save, SaveEdit, Refuse, Answer, Decide, locks
<1>8. CASE ProductStep(w)
  BY <1>1, <1>2, <1>8
  DEF ProductStep, UpdateProductDecide, DeleteProductRead,
      DeleteProductPost, InsertProcessedEvent, ModerationDecide, InvoiceRead,
      CommitCreateProduct, CommitUpdateProduct, CommitDeleteProduct,
      CommitModeration, CommitInvoice, Save, SaveEdit, Refuse, Answer, Decide, locks
<1> QED BY <1>3, <1>4, <1>5, <1>6, <1>7, <1>8 DEF Step, Advance

\* What a session refers to is in its own session, but for an edit's category.
LEMMA ReferencesKept ==
  ASSUME NEW v \in Worker, req'[v] = req[v], seenSku'[v] = seenSku[v],
         decision'[v] = decision[v]
  PROVE  /\ Recategorises(v)' = Recategorises(v)
         /\ \A row : row \in References(v) =>
              row \in References(v)' \/ Recategorises(v)
<1>1. CASE req[v].kind = "update_product"
  <2>1. References(v) = req[v].category \ {categoryOf[req[v].product]}
    BY <1>1 DEF References
  <2> QED BY <1>1, <2>1 DEF Recategorises
<1>2. CASE req[v].kind # "update_product"
  <2>1. References(v)' = References(v) BY <1>2 DEF References
  <2> QED BY <1>2, <2>1 DEF Recategorises
<1> QED BY <1>1, <1>2

LEMMA WantsKept ==
  ASSUME NEW v \in Worker, req'[v] = req[v], found'[v] = found[v]
  PROVE  /\ ProductsWanted(v)' = ProductsWanted(v)
         /\ SellersWanted(v)' = SellersWanted(v)
BY DEF ProductsWanted, SellersWanted

LEMMA WantsType ==
  ASSUME TypeOK, NEW w \in Worker, pc[w] # "idle"
  PROVE  ProductsWanted(w) \subseteq ProductId /\ SellersWanted(w) \subseteq SellerId
<1>1. req[w].product \in ProductId /\ found[w] \subseteq SkuId
  BY RequestType DEF TypeOK
<1> QED BY <1>1, RowsAssumption DEF ProductsWanted, SellersWanted

LEMMA ShapeFrame ==
  ASSUME ShapeInv, NEW w \in Worker, Step(w), Effect(w), NEW v \in Worker, v # w
  PROVE  LockShape(v)'
<1>1. /\ pc'[v] = pc[v] /\ req'[v] = req[v] /\ scan'[v] = scan[v]
      /\ found'[v] = found[v] /\ seenSku'[v] = seenSku[v] /\ decision'[v] = decision[v]
      /\ \A row \in Row : holder'[row] = v <=> holder[row] = v
  BY DEF Effect, Others
<1>2. \A row \in Row : v \in sharers'[row] <=> v \in sharers[row]
  BY SharersFrame DEF ShapeInv, KeyInv, Inv
<1>3. /\ Recategorises(v)' = Recategorises(v)
      /\ \A row : row \in References(v) => row \in References(v)' \/ Recategorises(v)
  BY <1>1, ReferencesKept
<1>4. /\ ProductsWanted(v)' = ProductsWanted(v)
      /\ SellersWanted(v)' = SellersWanted(v)
  BY <1>1, WantsKept
<1>5. LockShape(v) BY DEF ShapeInv
<1>6. SharesReferences(v)' BY <1>1, <1>2, <1>3, <1>5 DEF LockShape, SharesReferences, Holds
<1>7. StartsBare(v)' BY <1>1, <1>5 DEF LockShape, StartsBare, Holds
<1>8. KeepsOrder(v)'
  <2>1. \A p \in ProductId : holder'[p] = v <=> holder[p] = v BY <1>1 DEF Row
  <2>2. \A x \in SellerId : holder'[x] = v <=> holder[x] = v BY <1>1 DEF Row
  <2>3. ASSUME pc[v] # "idle"
        PROVE  /\ Unlocked(v, ProductsWanted(v))' = Unlocked(v, ProductsWanted(v))
               /\ Unlocked(v, SellersWanted(v))' = Unlocked(v, SellersWanted(v))
    <3>1. ProductsWanted(v) \subseteq ProductId /\ SellersWanted(v) \subseteq SellerId
      BY <2>3, WantsType DEF ShapeInv, KeyInv, Inv
    <3> QED BY <1>4, <2>1, <2>2, <3>1 DEF Unlocked
  <2>4. \A x \in SellerId \union CategoryId : holder[x] = v => pc[v] # "idle"
    BY DEF ShapeInv, KeyInv, Inv, SessionOK, HoldsWhatItFound, Row
  <2>5. Single(v)' <=> Single(v) BY <1>1 DEF Single
  <2>6. \A c \in CategoryId : holder'[c] = v <=> holder[c] = v BY <1>1 DEF Row
  <2> QED BY <1>1, <1>4, <1>5, <2>1, <2>2, <2>3, <2>4, <2>5, <2>6
      DEF LockShape, KeepsOrder
<1> QED BY <1>6, <1>7, <1>8 DEF LockShape
-----------------------------------------------------------------------------
\* The own session.

LEMMA EndedShape ==
  ASSUME NEW w \in Worker, ReleaseAll(w), TypeOK, Forget(w),
         pc'[w] \in {"idle", "notify", "answered"}
  PROVE  LockShape(w)'
<1>1. /\ \A row \in Row : holder'[row] # w /\ w \notin sharers'[row]
      /\ found'[w] = {} /\ scan'[w] = <<>>
  BY WorkerAssumption DEF ReleaseAll, Forget, TypeOK
<1>2. KeepsOrder(w)' BY <1>1 DEF KeepsOrder, Row
<1> QED BY <1>1, <1>2 DEF LockShape, StartsBare, SharesReferences, Holds

LEMMA RefusedShape ==
  ASSUME NEW w \in Worker, TypeOK, NEW code,
         Answer(w, code) \/ Refuse(w, code) \/ Crash(w)
  PROVE  LockShape(w)'
BY EndedShape DEF Answer, Refuse, Crash, TypeOK

\* The session holds nothing: outside a transaction, or before its query.
Bare(w) ==
  /\ found[w] = {} /\ \A row \in Row : holder[row] # w
  /\ \A row \in Row : w \notin sharers[row]

LEMMA BareSession ==
  ASSUME ShapeInv, NEW w \in Worker,
         \/ pc[w] \in {"idle", "lookup", "answered"}
         \/ Holds(w, {"insert"}, {"fulfill", "moderation"})
  PROVE  Bare(w)
<1>1. TypeOK /\ SessionOK(w) /\ StartsBare(w) /\ SharesReferences(w)
  BY DEF ShapeInv, KeyInv, Inv, LockShape
<1>2. found[w] = {}
  <2>1. CASE pc[w] \in {"idle", "answered"} BY <1>1, <2>1 DEF TypeOK
  <2>2. CASE pc[w] \notin {"idle", "answered"} BY <1>1, <2>2 DEF StartsBare, Holds
  <2> QED BY <2>1, <2>2
<1>3. \A row \in Row : holder[row] # w
  <2>1. CASE pc[w] \in {"idle", "lookup", "answered"}
    BY <1>1, <2>1 DEF SessionOK, HoldsWhatItFound
  <2>2. CASE pc[w] \notin {"idle", "lookup", "answered"} BY <1>1, <2>2 DEF StartsBare
  <2> QED BY <2>1, <2>2
<1>4. \A row \in Row : w \notin sharers[row] BY <1>1 DEF SharesReferences, Holds
<1> QED BY <1>2, <1>3, <1>4 DEF Bare

LEMMA OneOrder ==
  ASSUME NEW S, NEW order \in Orders(S), \E x : S \subseteq {x}
  PROVE  order \in Seq(S) /\ Len(order) <= 1
<1>1. PICK x : S = {} \/ S = {x} OBVIOUS
<1>2. Cardinality(S) \in {0, 1} BY <1>1, FS_EmptySet, FS_Singleton
<1>3. order \in [1..Cardinality(S) -> S] BY DEF Orders
<1>4. order \in Seq(S) /\ Len(order) = Cardinality(S) BY <1>2, <1>3
<1> QED BY <1>2, <1>4

\* The locking query starts with nothing locked.
LEMMA QueryShape ==
  ASSUME ShapeInv, NEW w \in Worker, Bare(w), NEW r \in Request, StartQuery(w, r),
         req'[w] = r, UNCHANGED <<holder, sharers, found>>
  PROVE  LockShape(w)'
<1>1. TypeOK BY DEF ShapeInv, KeyInv, Inv
<1>2. pc'[w] = "lock" BY <1>1 DEF StartQuery, Go, TypeOK
<1>3. ASSUME r.kind \in SkuKind => \E s \in SkuId : r.skus \subseteq {s}
      PROVE  Len(scan'[w]) <= 1
  <2>1. \E x : Matching(r) \subseteq {x}
    <3>1. CASE r.kind \in SkuKind
      <4>1. Matching(r) = {s \in r.skus : Live(s)}
        BY <3>1 DEF Matching, SkuKind, InventoryKind
      <4> QED BY <1>3, <3>1, <4>1
    <3>2. CASE r.kind = "update_product"
      <4>1. Matching(r) = {categoryOf[r.product]}
        BY <3>2 DEF Matching, SkuKind, InventoryKind
      <4> QED BY <4>1
    <3>3. CASE r.kind \notin SkuKind /\ r.kind # "update_product"
      <4>1. Matching(r) = {} BY <3>3 DEF Matching
      <4> QED BY <4>1
    <3> QED BY <3>1, <3>2, <3>3
  <2>2. PICK order \in Orders(Matching(r)) : scan' = [scan EXCEPT ![w] = order]
    BY DEF StartQuery
  <2>3. scan'[w] = order BY <1>1, <2>2 DEF TypeOK
  <2> QED BY <2>1, <2>2, <2>3, OneOrder
<1>4. KeepsOrder(w)' BY <1>3 DEF KeepsOrder, Bare, Single, Row
<1> QED BY <1>2, <1>4 DEF LockShape, StartsBare, SharesReferences, Holds, Bare

\* The session goes on to a stage with nothing changed but its decision.
WentOn(w) ==
  /\ pc[w] \notin {"idle", "commit"}
  /\ UNCHANGED <<holder, sharers, req, scan, found>>
  /\ \/ pc'[w] = "lock"
     \/ /\ pc'[w] = "commit"
        /\ req[w].kind = "moderation" => decision'[w] = req[w].verdict
     \/ pc'[w] = "insert" /\ req[w].kind \in {"reserve", "unreserve"}
     \/ pc'[w] = "write"

LEMMA WentOnShape ==
  ASSUME ShapeInv, NEW w \in Worker, WentOn(w)
  PROVE  LockShape(w)'
<1> USE DEF WentOn
<1>1. LockShape(w) BY DEF ShapeInv
<1>2. \A row \in Row : w \notin sharers[row] BY <1>1 DEF LockShape, SharesReferences
<1>3. SharesReferences(w)' BY <1>2 DEF SharesReferences, Holds
<1>4. StartsBare(w)' BY DEF StartsBare, Holds, KeyedKind, InventoryKind
<1>5. KeepsOrder(w)'
  BY <1>1 DEF LockShape, KeepsOrder, Single, ProductsWanted, SellersWanted, Unlocked
<1> QED BY <1>3, <1>4, <1>5 DEF LockShape

LEMMA ReceiveShape ==
  ASSUME ShapeInv, NEW w \in Worker, NEW r \in Request, Receive(w, r)
  PROVE  LockShape(w)'
<1>1. TypeOK /\ Bare(w) /\ pc[w] = "idle" /\ scan[w] = <<>>
  BY BareSession DEF Receive, ShapeInv, KeyInv, Inv, TypeOK
<1>2. req'[w] = r BY <1>1 DEF Receive, TypeOK
<1>3. CASE FirstStage(r.kind) = "lock"
  BY <1>1, <1>2, <1>3, QueryShape DEF Receive, locks
<1>4. CASE FirstStage(r.kind) # "lock"
  <2>1. UNCHANGED <<holder, sharers, found, scan>> /\ pc'[w] = FirstStage(r.kind)
    BY <1>1, <1>4 DEF Receive, Go, locks, TypeOK
  <2>2. /\ FirstStage(r.kind) # "commit"
        /\ FirstStage(r.kind) = "insert" => r.kind \in KeyedKind
    BY DEF FirstStage, KeyedKind, InventoryKind
  <2>3. KeepsOrder(w)' BY <1>1, <2>1 DEF Bare, KeepsOrder, Row
  <2>4. StartsBare(w)' BY <1>1, <1>2, <2>1, <2>2 DEF Bare, StartsBare, Holds
  <2>5. SharesReferences(w)' BY <1>1, <2>1, <2>2 DEF Bare, SharesReferences, Holds
  <2> QED BY <2>3, <2>4, <2>5 DEF LockShape
<1> QED BY <1>3, <1>4

LEMMA ReturnShape ==
  ASSUME ShapeInv, NEW w \in Worker, Return(w) PROVE LockShape(w)'
<1>1. TypeOK /\ Bare(w) /\ scan[w] = <<>>
  BY BareSession DEF Return, ShapeInv, KeyInv, Inv, TypeOK
<1>2. UNCHANGED <<holder, sharers, found, scan>> /\ pc'[w] = "idle"
  BY <1>1 DEF Return, locks, TypeOK
<1>3. KeepsOrder(w)' BY <1>1, <1>2 DEF Bare, KeepsOrder, Row
<1> QED BY <1>1, <1>2, <1>3 DEF Bare, LockShape, StartsBare, SharesReferences, Holds
-----------------------------------------------------------------------------
\* Row locks.

LEMMA NextRowCases ==
  ASSUME Inv, NEW w \in Worker, pc[w] = "lock", NEW row \in NextRow(w)
  PROVE  \/ row \in ProductId /\ row \in Unlocked(w, ProductsWanted(w))
         \/ /\ row \in SellerId /\ row \in Unlocked(w, SellersWanted(w))
            /\ Unlocked(w, ProductsWanted(w)) = {}
         \/ /\ \/ row \in SkuId /\ req[w].kind \in SkuKind
               \/ row \in CategoryId /\ req[w].kind = "update_product"
            /\ row = Head(scan[w]) /\ scan[w] # <<>>
            /\ Unlocked(w, ProductsWanted(w)) = {}
            /\ Unlocked(w, SellersWanted(w)) = {}
<1>1. TypeOK /\ pc[w] # "idle" BY DEF Inv
<1>2. ProductsWanted(w) \subseteq ProductId /\ SellersWanted(w) \subseteq SellerId
  BY <1>1, WantsType
<1>3. CASE Unlocked(w, ProductsWanted(w)) = {} /\ Unlocked(w, SellersWanted(w)) = {}
  <2>1. scan[w] # <<>> /\ row = Head(scan[w]) BY <1>3 DEF NextRow
  <2>2. scan[w] \in Seq(SkuId \union CategoryId) BY <1>1 DEF TypeOK
  <2>3. row \in SkuId \union CategoryId BY <2>1, <2>2
  <2>4. row \in SkuId => req[w].kind \in SkuKind BY NextSku
  <2>5. row \in CategoryId => req[w].kind = "update_product" BY NextCategory
  <2> QED BY <1>3, <2>1, <2>3, <2>4, <2>5
<1> QED BY <1>2, <1>3 DEF NextRow, Unlocked

\* A request for one SKU wants one product and one seller.
LEMMA OneWanted ==
  ASSUME ShapeInv, NEW w \in Worker, pc[w] # "idle", Single(w)
  PROVE  /\ \A p1, p2 \in ProductsWanted(w) : p1 = p2
         /\ \A x1, x2 \in SellersWanted(w) : x1 = x2
<1>1. found[w] \subseteq req[w].skus /\ (req[w].kind \notin SkuKind => found[w] = {})
  BY DEF ShapeInv, KeyInv, Inv, SessionOK, QueriesItsRequest
<1>2. \A s1, s2 \in found[w] : s1 = s2 BY <1>1 DEF Single
<1>3. \A p1, p2 \in ProductsWanted(w) : p1 = p2 BY <1>2 DEF ProductsWanted
<1> QED BY <1>3 DEF SellersWanted

LEMMA SellerSingle ==
  ASSUME ShapeInv, NEW w \in Worker, pc[w] # "idle", req[w].kind \in SellerKind
  PROVE  Single(w)
<1>1. req[w] \in Request BY DEF ShapeInv, KeyInv, Inv, TypeOK
<1> QED BY <1>1, RequestAssumption DEF Single, SellerKind, SkuKind, InventoryKind

LEMMA LastTail ==
  ASSUME NEW S, NEW q \in Seq(S), q # <<>>, Len(q) <= 1
  PROVE  Len(Tail(q)) <= 1 /\ Tail(q) = <<>>
<1>1. Len(q) # 0
  <2> SUFFICES ASSUME Len(q) = 0 PROVE q = <<>> OBVIOUS
  <2> QED OBVIOUS
<1>2. Len(q) \in Nat OBVIOUS
<1>3. Len(q) = 1 BY <1>1, <1>2
<1>4. Tail(q) \in Seq(S) /\ Len(Tail(q)) = 0 BY <1>3
<1>5. Tail(q) = <<>> BY <1>4
<1> QED BY <1>4, <1>5

LEMMA LockSkuShape ==
  ASSUME ShapeInv, NEW w \in Worker, LockSku(w)
  PROVE  LockShape(w)'
<1>1. TypeOK /\ LockShape(w) BY DEF ShapeInv, KeyInv, Inv
<1>2. /\ pc[w] = "lock" /\ pc[w] # "idle" /\ UNCHANGED <<sharers, req, decision, pc>>
      /\ scan' = [scan EXCEPT ![w] = Tail(@)]
  BY DEF LockSku
<1>3. PICK s \in NextRow(w) \intersect SkuId :
        IF Live(s) THEN /\ holder' = [holder EXCEPT ![s] = w]
                        /\ found' = [found EXCEPT ![w] = @ \union {s}]
        ELSE UNCHANGED <<holder, found>>
  BY DEF LockSku
<1>4. s = Head(scan[w]) /\ scan[w] # <<>> /\ req[w].kind \in SkuKind
  BY <1>2, <1>3, NextSku DEF ShapeInv, KeyInv
<1>5. /\ \A row \in ProductId \union SellerId \union CategoryId :
           holder'[row] = holder[row]
      /\ found[w] \subseteq found'[w]
  BY <1>1, <1>3, RowsAssumption DEF TypeOK, Row
<1>6. SharesReferences(w)' BY <1>1, <1>2 DEF LockShape, SharesReferences, Holds
<1>7. StartsBare(w)' BY <1>2 DEF StartsBare, Holds
<1>8. \A x \in SellerId \union CategoryId : holder'[x] # w
  BY <1>1, <1>4, <1>5 DEF LockShape, KeepsOrder
<1>9. \A p \in ProductId : holder'[p] = w => p \in ProductsWanted(w)'
  <2>1. ProductsWanted(w) \subseteq ProductsWanted(w)' BY <1>2, <1>5 DEF ProductsWanted
  <2> QED BY <1>1, <1>5, <2>1 DEF LockShape, KeepsOrder
<1>10. ASSUME Single(w)' PROVE Len(scan'[w]) <= 1 /\ scan'[w] = <<>>
  <2>1. Len(scan[w]) <= 1 /\ scan[w] \in Seq(SkuId \union CategoryId)
    BY <1>1, <1>2, <1>10 DEF LockShape, KeepsOrder, Single, TypeOK
  <2>2. scan'[w] = Tail(scan[w]) BY <1>1, <1>2 DEF TypeOK
  <2> QED BY <1>4, <2>1, <2>2, LastTail
<1>11. KeepsOrder(w)' BY <1>8, <1>9, <1>10 DEF KeepsOrder
<1> QED BY <1>6, <1>7, <1>11 DEF LockShape

LEMMA LockOtherShape ==
  ASSUME ShapeInv, NEW w \in Worker, LockProduct(w) \/ LockSeller(w)
  PROVE  LockShape(w)'
<1>1. TypeOK /\ LockShape(w) BY DEF ShapeInv, KeyInv, Inv
<1>2. /\ pc[w] = "lock" /\ pc[w] # "idle"
      /\ UNCHANGED <<sharers, req, decision, pc, scan, found>>
  BY DEF LockProduct, LockSeller, session
<1>3. PICK row \in NextRow(w) : /\ row \in ProductId \union SellerId
                                /\ holder' = [holder EXCEPT ![row] = w]
  BY DEF LockProduct, LockSeller
<1>4. \A x \in Row : holder'[x] = IF x = row THEN w ELSE holder[x]
  BY <1>1, <1>3 DEF TypeOK, Row
<1>5. SharesReferences(w)' BY <1>1, <1>2 DEF LockShape, SharesReferences, Holds
<1>6. StartsBare(w)' BY <1>2 DEF StartsBare, Holds
<1>7. /\ ProductsWanted(w)' = ProductsWanted(w) /\ SellersWanted(w)' = SellersWanted(w)
      /\ ProductsWanted(w) \subseteq ProductId /\ SellersWanted(w) \subseteq SellerId
  BY <1>1, <1>2, WantsKept, WantsType
<1>0. Inv BY DEF ShapeInv, KeyInv
<1>8. \/ row \in ProductId /\ row \in Unlocked(w, ProductsWanted(w))
      \/ /\ row \in SellerId /\ row \in Unlocked(w, SellersWanted(w))
         /\ Unlocked(w, ProductsWanted(w)) = {}
  BY <1>0, <1>2, <1>3, NextRowCases, RowsAssumption
<1>9. /\ Unlocked(w, ProductsWanted(w))' \subseteq Unlocked(w, ProductsWanted(w))
      /\ Unlocked(w, SellersWanted(w))' \subseteq Unlocked(w, SellersWanted(w))
  BY <1>4, <1>7 DEF Unlocked, Row
<1>10. \A p \in ProductId : holder'[p] = w => p \in ProductsWanted(w)'
  BY <1>1, <1>4, <1>7, <1>8, RowsAssumption DEF LockShape, KeepsOrder, Unlocked, Row
<1>11. ASSUME NEW x \in SellerId, holder'[x] = w
       PROVE  /\ x \in SellersWanted(w)' /\ (req'[w].kind \in SkuKind => scan'[w] = <<>>)
              /\ Unlocked(w, ProductsWanted(w))' = {}
  <2>1. CASE x # row
    BY <1>1, <1>2, <1>4, <1>7, <1>9, <1>11, <2>1 DEF LockShape, KeepsOrder, Row
  <2>2. CASE x = row
    <3>1. x \in SellersWanted(w) /\ Unlocked(w, ProductsWanted(w)) = {}
      BY <1>8, <1>11, <2>2, RowsAssumption DEF Unlocked
    <3>2. req[w].kind \in SellerKind /\ ProductsWanted(w) # {}
      BY <3>1 DEF SellersWanted
    <3>3. ASSUME req[w].kind \in SkuKind PROVE scan[w] = <<>>
      <4>1. Single(w) BY <1>2, <3>2, SellerSingle
      <4>2. found[w] # {}
        BY <3>2, <3>3 DEF ProductsWanted, SkuKind, InventoryKind, ProductKind
      <4> QED BY <1>1, <1>2, <4>1, <4>2 DEF LockShape, KeepsOrder
    <3> QED BY <1>2, <1>7, <1>9, <3>1, <3>3
  <2> QED BY <2>1, <2>2
<1>12. (pc[w] # "idle" /\ Single(w))' => Len(scan'[w]) <= 1 /\ (found'[w] # {} => scan'[w] = <<>>)
  BY <1>1, <1>2 DEF LockShape, KeepsOrder, Single
<1>13. ASSUME NEW c \in CategoryId, holder'[c] = w
       PROVE  /\ Unlocked(w, ProductsWanted(w))' = {}
              /\ Unlocked(w, SellersWanted(w))' = {} /\ scan'[w] = <<>>
  <2>1. c # row BY <1>3, <1>13, RowsAssumption
  <2>2. holder[c] = w BY <1>4, <1>13, <2>1 DEF Row
  <2> QED BY <1>1, <1>2, <1>9, <2>2 DEF LockShape, KeepsOrder
<1>14. KeepsOrder(w)' BY <1>10, <1>11, <1>12, <1>13 DEF KeepsOrder
<1> QED BY <1>5, <1>6, <1>14 DEF LockShape

\* With its category locked a query is over.
LEMMA LockCategoryShape ==
  ASSUME ShapeInv, NEW w \in Worker, LockCategory(w)
  PROVE  LockShape(w)'
<1>1. TypeOK /\ LockShape(w) /\ Inv BY DEF ShapeInv, KeyInv, Inv
<1>2. CASE Refuse(w, "refused") BY <1>1, <1>2, RefusedShape
<1>3. CASE ~Refuse(w, "refused")
  <2>1. PICK c \in NextRow(w) \intersect CategoryId :
          /\ holder' = [holder EXCEPT ![c] = w]
          /\ scan' = [scan EXCEPT ![w] = Tail(@)]
          /\ pc[w] = "lock" /\ UNCHANGED <<sharers, req, decision, pc, found>>
    BY <1>3 DEF LockCategory
  <2>2. /\ scan[w] # <<>> /\ pc[w] # "idle" /\ req[w].kind = "update_product"
        /\ Unlocked(w, ProductsWanted(w)) = {} /\ Unlocked(w, SellersWanted(w)) = {}
    BY <1>1, <2>1, NextRowCases, RowsAssumption
  <2>3. /\ \A row \in ProductId \union SellerId : holder'[row] = holder[row]
    BY <1>1, <2>1, RowsAssumption DEF TypeOK, Row
  <2>4. Single(w) /\ req[w].kind \notin SkuKind
    BY <2>2 DEF Single, SkuKind, InventoryKind
  <2>5. Len(scan'[w]) <= 1 /\ scan'[w] = <<>>
    <3>1. Len(scan[w]) <= 1 /\ scan[w] \in Seq(SkuId \union CategoryId)
      BY <1>1, <2>2, <2>4 DEF LockShape, KeepsOrder, TypeOK
    <3>2. scan'[w] = Tail(scan[w]) BY <1>1, <2>1 DEF TypeOK
    <3> QED BY <2>2, <3>1, <3>2, LastTail
  <2>6. /\ ProductsWanted(w)' = ProductsWanted(w) /\ SellersWanted(w)' = SellersWanted(w)
        /\ ProductsWanted(w) \subseteq ProductId /\ SellersWanted(w) \subseteq SellerId
    BY <1>1, <2>1, <2>2, WantsKept, WantsType
  <2>7. /\ Unlocked(w, ProductsWanted(w))' = {} /\ Unlocked(w, SellersWanted(w))' = {}
    BY <2>2, <2>3, <2>6 DEF Unlocked
  <2>8. KeepsOrder(w)'
    BY <1>1, <2>3, <2>5, <2>6, <2>7 DEF LockShape, KeepsOrder
  <2>9. SharesReferences(w)' BY <1>1, <2>1 DEF LockShape, SharesReferences, Holds
  <2>10. StartsBare(w)' BY <2>1 DEF StartsBare, Holds
  <2> QED BY <2>8, <2>9, <2>10 DEF LockShape
<1> QED BY <1>2, <1>3

LEMMA CheckShape ==
  ASSUME ShapeInv, NEW w \in Worker, CheckReference(w)
  PROVE  LockShape(w)'
<1>1. TypeOK /\ LockShape(w) BY DEF ShapeInv, KeyInv, Inv
<1>2. CASE Refuse(w, "error") BY <1>1, <1>2, RefusedShape
<1>3. CASE ~Refuse(w, "error")
  <2>1. /\ pc[w] = "commit" /\ UNCHANGED <<holder, scan, found, req, seenSku, decision, pc>>
        /\ \E row \in NextReference(w) : sharers' = [sharers EXCEPT ![row] = @ \union {w}]
    BY <1>3 DEF CheckReference, session
  <2>2. PICK row \in References(w) : sharers' = [sharers EXCEPT ![row] = @ \union {w}]
    BY <2>1 DEF NextReference, Unchecked
  <2>3. /\ Recategorises(w)' = Recategorises(w)
        /\ \A x : x \in References(w) => x \in References(w)' \/ Recategorises(w)
    BY <2>1, ReferencesKept
  <2>4. \A x \in Row : w \in sharers'[x] => x \in References(w) \/ Recategorises(w)
    BY <1>1, <2>2 DEF TypeOK, LockShape, SharesReferences
  <2>5. SharesReferences(w)'
    BY <1>1, <2>1, <2>3, <2>4 DEF LockShape, SharesReferences, Holds
  <2>6. StartsBare(w)' BY <2>1 DEF StartsBare, Holds
  <2>7. KeepsOrder(w)'
    BY <1>1, <2>1 DEF LockShape, KeepsOrder, Single, ProductsWanted, SellersWanted, Unlocked
  <2> QED BY <2>5, <2>6, <2>7 DEF LockShape
<1> QED BY <1>2, <1>3
-----------------------------------------------------------------------------
LEMMA DecideShape ==
  ASSUME ShapeInv, NEW w \in Worker, pc[w] \in {"lock", "read", "write"}, NEW status,
         NEW events, NEW stage, Decide(w, status, events, stage),
         \/ stage = "write"
         \/ stage = "commit" /\ (req[w].kind = "moderation" => status = req[w].verdict)
         \/ stage = "insert" /\ req[w].kind \in {"reserve", "unreserve"}
  PROVE  LockShape(w)'
<1>1. TypeOK BY DEF ShapeInv, KeyInv, Inv
<1>2. /\ UNCHANGED <<holder, sharers, req, scan, found>>
      /\ pc'[w] = stage /\ decision'[w] = status
  BY <1>1 DEF Decide, Go, locks, TypeOK
<1>3. WentOn(w) BY <1>2 DEF WentOn
<1> QED BY <1>3, WentOnShape

LEMMA DecisionShape ==
  ASSUME ShapeInv, NEW w \in Worker,
         \/ ReserveDecide(w) \/ UnreserveDecide(w) \/ FulfillDecide(w)
         \/ CreateSkuDecide(w) \/ UpdateSkuDecide(w) \/ DeleteSkuDecide(w)
         \/ WriteName(w) \/ UpdateProductDecide(w) \/ DeleteProductPost(w)
         \/ ModerationDecide(w) \/ InvoiceRead(w)
  PROVE  LockShape(w)'
<1>1. TypeOK BY DEF ShapeInv, KeyInv, Inv
<1>2. CASE Refuse(w, "refused") \/ Refuse(w, "error") BY <1>1, <1>2, RefusedShape
<1>3. CASE ~(Refuse(w, "refused") \/ Refuse(w, "error"))
  <2>1. CASE ReserveDecide(w) \/ UnreserveDecide(w)
    <3>1. /\ pc[w] = "lock" /\ req[w].kind \in {"reserve", "unreserve"}
          /\ Decide(w, Undecided, {}, "insert")
      BY <1>3, <2>1 DEF ReserveDecide, UnreserveDecide, Conflict, At
    <3> QED BY <3>1, DecideShape
  <2>2. CASE ModerationDecide(w)
    <3>1. /\ pc[w] = "lock"
          /\ \E events : Decide(w, req[w].verdict, events, "commit")
      BY <2>2 DEF ModerationDecide, At
    <3> QED BY <3>1, DecideShape
  <2>3. CASE \/ FulfillDecide(w) \/ DeleteSkuDecide(w) \/ DeleteProductPost(w)
             \/ InvoiceRead(w)
    <3>1. /\ pc[w] \in {"lock", "read"} /\ req[w].kind # "moderation"
          /\ \E status, events : Decide(w, status, events, "commit")
      BY <1>3, <2>3
      DEF FulfillDecide, DeleteSkuDecide, Conflict, At, DeleteProductPost, InvoiceRead
    <3> QED BY <3>1, DecideShape
  <2>4. CASE CreateSkuDecide(w) \/ UpdateSkuDecide(w) \/ UpdateProductDecide(w)
    <3>1. /\ pc[w] = "lock" /\ req[w].kind # "moderation"
          /\ \E status : Save(w, status)
      BY <1>3, <2>4
      DEF CreateSkuDecide, UpdateSkuDecide, UpdateProductDecide, At, SaveEdit
    <3> QED BY <3>1, SaveDecides, DecideShape
  <2>5. CASE WriteName(w)
    <3>1. pc[w] = "write" /\ \E events : Decide(w, decision[w], events, "commit")
      BY <1>3, <2>5 DEF WriteName
    <3>2. req[w].kind # "moderation" BY <3>1, Writers DEF ShapeInv, KeyInv
    <3> QED BY <3>1, <3>2, DecideShape
  <2> QED BY <2>1, <2>2, <2>3, <2>4, <2>5
<1> QED BY <1>2, <1>3

LEMMA InsertShape ==
  ASSUME ShapeInv, NEW w \in Worker,
         \/ LookUpOperation(w) \/ InsertOperation(w) \/ FulfillGetOrCreate(w)
         \/ InsertProcessedEvent(w) \/ DeleteProductRead(w)
  PROVE  LockShape(w)'
<1>1. TypeOK BY DEF ShapeInv, KeyInv, Inv
<1>2. CASE Refuse(w, "refused") \/ Refuse(w, "error") \/ Refuse(w, "replay")
  BY <1>1, <1>2, RefusedShape
<1>3. CASE ~(Refuse(w, "refused") \/ Refuse(w, "error") \/ Refuse(w, "replay"))
  <2>1. CASE LookUpOperation(w) \/ FulfillGetOrCreate(w)
    <3>1. /\ StartQuery(w, req[w]) /\ UNCHANGED <<holder, sharers, found, req>>
          /\ pc[w] = "lookup" \/ Holds(w, {"insert"}, {"fulfill", "moderation"})
      BY <1>3, <2>1 DEF LookUpOperation, FulfillGetOrCreate, At, Holds, locks
    <3>2. Bare(w) /\ req[w] \in Request BY <1>1, <3>1, BareSession DEF TypeOK, Holds
    <3> QED BY <3>1, <3>2, QueryShape
  <2>2. CASE InsertOperation(w) \/ InsertProcessedEvent(w) \/ DeleteProductRead(w)
    <3>1. /\ UNCHANGED <<holder, sharers, req, scan, found>>
          /\ pc[w] \in {"insert", "read"}
          /\ \/ pc'[w] = "lock"
             \/ pc'[w] = "commit" /\ req[w].kind \in {"reserve", "unreserve"}
      BY <1>1, <1>3, <2>2
      DEF InsertOperation, InsertProcessedEvent, DeleteProductRead, At, Go, locks,
          session, TypeOK
    <3>2. WentOn(w) BY <3>1 DEF WentOn
    <3> QED BY <3>2, WentOnShape
  <2> QED BY <2>1, <2>2
<1> QED BY <1>2, <1>3

LEMMA StepShape ==
  ASSUME ShapeInv, NEW w \in Worker, Step(w)
  PROVE  LockShape(w)'
<1>1. TypeOK BY DEF ShapeInv, KeyInv, Inv
<1>2. CASE (\E r \in Request : Receive(w, r)) \/ Return(w)
  BY <1>2, ReceiveShape, ReturnShape
<1>3. CASE \/ LockSku(w) \/ LockProduct(w) \/ LockSeller(w) \/ LockCategory(w)
           \/ CheckReference(w)
  BY <1>3, LockSkuShape, LockOtherShape, LockCategoryShape, CheckShape
<1>4. CASE Crash(w) \/ DeadlockVictim(w) \/ NotifySoldOut(w)
  BY <1>1, <1>4, RefusedShape DEF DeadlockVictim, NotifySoldOut
<1>5. CASE Commit(w)
  <2>1. CASE Answer(w, "ok") BY <1>1, <2>1, RefusedShape
  <2>2. CASE CommitReserve(w) /\ ~Answer(w, "ok")
    <3>1. ReleaseAll(w) /\ Forget(w) /\ pc'[w] = "notify"
      BY <1>1, <2>2 DEF CommitReserve, Go, TypeOK
    <3> QED BY <1>1, <3>1, EndedShape
  <2> QED BY <1>5, <2>1, <2>2
      DEF Commit, CommitUnreserve, CommitFulfill, CommitCreateSku, CommitUpdateSku,
          CommitDeleteSku, CommitCreateProduct, CommitUpdateProduct,
          CommitDeleteProduct, CommitModeration, CommitInvoice
<1> QED BY <1>2, <1>3, <1>4, <1>5, DecisionShape, InsertShape
    DEF Step, Advance, InventoryStep, SkuStep, ProductStep, Commit

LEMMA ShapeNext == ShapeInv /\ [Next]_vars => ShapeInv'
<1> SUFFICES ASSUME ShapeInv, [Next]_vars PROVE ShapeInv' OBVIOUS
<1>1. KeyInv' BY KeyNext DEF ShapeInv
<1>2. CASE Next
  <2>1. PICK w \in Worker : Step(w) BY <1>2 DEF Next, Step
  <2>2. Effect(w) BY <2>1, StepEffect DEF ShapeInv, KeyInv, Step
  <2>3. \A v \in Worker : LockShape(v)' BY <2>1, <2>2, StepShape, ShapeFrame
  <2> QED BY <1>1, <2>3 DEF ShapeInv
<1>3. CASE UNCHANGED vars
  <2>1. ASSUME NEW w \in Worker PROVE LockShape(w)'
    <3>1. /\ Recategorises(w)' = Recategorises(w)
          /\ \A row : row \in References(w) => row \in References(w)' \/ Recategorises(w)
      BY <1>3, ReferencesKept DEF vars, session
    <3>2. /\ ProductsWanted(w)' = ProductsWanted(w)
          /\ SellersWanted(w)' = SellersWanted(w)
      BY <1>3, WantsKept DEF vars, session
    <3>3. UNCHANGED <<holder, sharers, pc, req, scan, found, decision>>
      BY <1>3 DEF vars, locks, session
    <3>4. LockShape(w) BY DEF ShapeInv
    <3>5. KeepsOrder(w)'
      BY <3>2, <3>3, <3>4 DEF LockShape, KeepsOrder, Single, Unlocked
    <3>6. SharesReferences(w)'
      BY <3>1, <3>3, <3>4 DEF LockShape, SharesReferences, Holds
    <3>7. StartsBare(w)' BY <3>3, <3>4 DEF LockShape, StartsBare, Holds
    <3> QED BY <3>5, <3>6, <3>7 DEF LockShape
  <2> QED BY <1>1, <2>1 DEF ShapeInv
<1> QED BY <1>2, <1>3

LEMMA ShapeInit == Init => ShapeInv
<1> SUFFICES ASSUME Init PROVE ShapeInv OBVIOUS
<1>1. KeyInv BY KeyInit
<1>2. ASSUME NEW w \in Worker PROVE LockShape(w)
  BY WorkerAssumption DEF Init, LockShape, KeepsOrder, StartsBare, SharesReferences,
                          Holds, Row
<1> QED BY <1>1, <1>2 DEF ShapeInv

-----------------------------------------------------------------------------
\* How far a waiting session has come: to a key, before any row; to a SKU; to a
\* product; to a seller; to a category; with all its rows to a unique name; to a key.
Rank(w) ==
  IF pc[w] = "insert" THEN IF req[w].kind \in {"fulfill", "moderation"} THEN 0 ELSE 6
  ELSE IF pc[w] = "write" THEN 5
  ELSE IF NextRow(w) \intersect SkuId # {} THEN 1
  ELSE IF NextRow(w) \intersect ProductId # {} THEN 2
  ELSE IF NextRow(w) \intersect SellerId # {} THEN 3
  ELSE 4

Plain(w) == pc[w] # "idle" /\ ~Tangled(req[w])

LEMMA PlainSingle ==
  ASSUME ShapeInv, NEW w \in Worker, Plain(w)
  PROVE  Single(w)
<1>1. req[w] \in Request BY DEF Plain, ShapeInv, KeyInv, Inv, TypeOK
<1>2. CASE req[w].kind \in InventoryKind
  <2>1. req[w].skus \subseteq SkuId /\ req[w].skus # {} BY <1>1, <1>2, RequestAssumption
  <2>2. IsFiniteSet(req[w].skus) BY <2>1, RowsAssumption, FS_Subset
  <2>3. Cardinality(req[w].skus) \in Nat /\ Cardinality(req[w].skus) # 0
    BY <2>1, <2>2, FS_CardinalityType, FS_EmptySet
  <2>4. ~(Cardinality(req[w].skus) > 1) BY <1>2 DEF Plain, Tangled
  <2>5. Cardinality(req[w].skus) = 1 BY <2>3, <2>4
  <2>6. \E s : req[w].skus = {s} BY <2>2, <2>5, FS_Singleton
  <2> QED BY <2>1, <2>6 DEF Single
<1>3. CASE req[w].kind \notin InventoryKind
  BY <1>1, <1>3, RequestAssumption DEF Single, SkuKind
<1> QED BY <1>2, <1>3

\* Such a session shares no row.
LEMMA PlainSharesNothing ==
  ASSUME ShapeInv, NEW w \in Worker, Plain(w), pc[w] = "commit"
  PROVE  References(w) = {} /\ ~Recategorises(w)
<1>1. req[w].kind \notin {"invoice", "create_product"} BY DEF Plain, Tangled
<1>2. CASE req[w].kind = "moderation" /\ decision[w] # "MODERATED"
  <2>1. decision[w] = req[w].verdict
    BY <1>2 DEF ShapeInv, LockShape, SharesReferences, Holds
  <2>2. req[w].reports \intersect SkuId = {}
    BY <1>2, <2>1 DEF Plain, Tangled, SkuReports
  <2>3. References(w) = {s \in req[w].reports \intersect SkusOf(req[w].product) :
                           seenSku[w][s].state = "live"}
    BY <1>1, <1>2 DEF References
  <2> QED BY <1>2, <2>2, <2>3 DEF SkusOf, Recategorises
<1>3. CASE req[w].kind = "update_product"
  <2>1. req[w].category = {} BY <1>3 DEF Plain, Tangled
  <2> QED BY <1>3, <2>1 DEF References, Recategorises
<1>4. CASE /\ ~(req[w].kind = "moderation" /\ decision[w] # "MODERATED")
           /\ req[w].kind # "update_product"
  BY <1>1, <1>4 DEF References, Recategorises
<1> QED BY <1>2, <1>3, <1>4

\* It waits for a row, for a key or for an article, and for a row's holder.
LEMMA PlainWaits ==
  ASSUME ShapeInv, NEW w \in Worker, NEW v \in Worker, Plain(w), Plain(v), WaitsFor(w, v)
  PROVE  \/ pc[w] = "lock" /\ \E row \in NextRow(w) : holder[row] = v
         \/ pc[w] = "insert" /\ claim[Op(w)] = v
         \/ pc[w] = "write" /\ WaitsForName(w, v)
<1>1. Inv BY DEF ShapeInv, KeyInv
<1>2. ~(pc[w] = "commit" /\ \E row \in NextReference(w) : holder[row] = v)
  BY PlainSharesNothing DEF NextReference, Unchecked
<1>3. ASSUME pc[w] = "lock", NEW row \in NextRow(w), v \in sharers[row] PROVE FALSE
  <2>1. row \in Row BY <1>1, <1>3, NextRowCases DEF Row
  <2>2. pc[v] = "commit" /\ (row \in References(v) \/ Recategorises(v))
    BY <1>3, <2>1 DEF ShapeInv, LockShape, SharesReferences
  <2> QED BY <2>2, PlainSharesNothing
<1> QED BY <1>2, <1>3 DEF WaitsFor, WaitsForName

\* The only untangled request that writes a name creates a SKU.
LEMMA PlainWriter ==
  ASSUME ShapeInv, NEW w \in Worker, Plain(w), pc[w] = "write"
  PROVE  req[w].kind = "create_sku" /\ found[w] = {}
<1>1. /\ req[w].kind \in {"create_sku", "update_sku", "create_product", "update_product"}
      /\ req[w].name \in Name
  BY Writers DEF ShapeInv, KeyInv
<1>2. req[w].kind = "create_sku" BY <1>1, WorkerAssumption DEF Plain, Tangled
<1> QED BY <1>2 DEF Plain, ShapeInv, KeyInv, Inv, SessionOK, QueriesItsRequest, SkuKind,
                    InventoryKind

\* delete_product has one row to lock.
LEMMA DeletionWaitsForOne ==
  ASSUME ShapeInv, NEW w \in Worker, At(w, "lock", {"delete_product"}),
         holder[req[w].product] = w
  PROVE  NextRow(w) = {}
<1>1. TypeOK /\ SessionOK(w) /\ Inv /\ pc[w] = "lock" /\ req[w].kind = "delete_product"
  BY DEF ShapeInv, KeyInv, Inv, At
<1>2. Unlocked(w, ProductsWanted(w)) = {}
  BY <1>1 DEF Unlocked, ProductsWanted, ProductKind
<1>3. Unlocked(w, SellersWanted(w)) = {}
  BY <1>1 DEF Unlocked, SellersWanted, SellerKind
<1>4. ASSUME NEW row \in NextRow(w) PROVE FALSE
  <2>1. req[w].kind \in SkuKind \union {"update_product"}
    BY <1>1, <1>2, <1>3, <1>4, NextRowCases
  <2> QED BY <1>1, <2>1 DEF SkuKind, InventoryKind
<1> QED BY <1>4

\* Whoever is waited for and waits has come further.
LEMMA RanksRise ==
  ASSUME ShapeInv, NEW w \in Worker, NEW v \in Worker, NEW u \in Worker,
         Plain(w), Plain(v), Plain(u), WaitsFor(w, v), WaitsFor(v, u)
  PROVE  Rank(v) > Rank(w)
<1>1. TypeOK /\ LockShape(v) /\ LockShape(w) /\ SessionOK(v) /\ Inv
  BY DEF ShapeInv, KeyInv, Inv
<1>2. pc[w] # "idle" /\ pc[v] # "idle" BY DEF Plain
<1>3. pc[v] \in {"lock", "insert", "write"} BY PlainWaits
<1>4. Rank(w) \in 0..6 /\ Rank(v) \in 0..6 BY DEF Rank
<1>5. CASE pc[w] = "insert" /\ claim[Op(w)] = v
  <2>1. Op(w) \in OpId
    BY <1>1, <1>2, <1>5, RequestType DEF LockShape, StartsBare, Op, OpId
  <2>2. Op(v) = Op(w) /\ Owning(v) BY <1>5, <2>1 DEF ShapeInv, KeyInv, OwnsItsKey
  <2>3. pc[v] = "lock" /\ req[v].kind \in {"fulfill", "moderation"}
    BY <1>3, <2>2 DEF Owning, Holds
  <2>4. req[w].kind \in {"fulfill", "moderation"} BY <2>2, <2>3 DEF Op
  <2>5. Rank(w) = 0 BY <1>5, <2>4 DEF Rank
  <2>6. Rank(v) > 0 BY <2>3 DEF Rank
  <2> QED BY <2>5, <2>6
<1>6. CASE pc[w] = "lock" /\ \E row \in NextRow(w) : holder[row] = v
  <2>1. PICK row \in NextRow(w) : holder[row] = v BY <1>6
  <2>2. row \in SkuId \/ row \in ProductId \/ row \in SellerId \/ row \in CategoryId
    BY <1>1, <1>6, NextRowCases
  <2>3. CASE pc[v] = "insert"
    <3>1. req[v].kind \notin {"fulfill", "moderation"}
      BY <1>1, <2>1, <2>2, <2>3 DEF LockShape, StartsBare, Holds, Row
    <3>2. Rank(v) = 6 BY <2>3, <3>1 DEF Rank
    <3>3. Rank(w) < 6 BY <1>6 DEF Rank
    <3> QED BY <3>2, <3>3
  <2>4. CASE pc[v] = "write"
    <3>1. Rank(v) = 5 BY <2>4 DEF Rank
    <3>2. Rank(w) < 5 BY <1>6 DEF Rank
    <3> QED BY <3>1, <3>2
  <2>5. CASE pc[v] = "lock"
    <3>1. PICK next \in NextRow(v) : TRUE BY <2>5, PlainWaits
    <3>2. \/ next \in ProductId /\ next \in Unlocked(v, ProductsWanted(v))
          \/ /\ next \in SellerId /\ next \in Unlocked(v, SellersWanted(v))
             /\ Unlocked(v, ProductsWanted(v)) = {}
          \/ scan[v] # <<>>
      BY <1>1, <2>5, NextRowCases
    <3>3. /\ \A p1, p2 \in ProductsWanted(v) : p1 = p2
          /\ \A x1, x2 \in SellersWanted(v) : x1 = x2
          /\ Single(v)
      BY <1>2, PlainSingle, OneWanted
    <3>4. scan[v] # <<>> => found[v] = {}
      BY <1>1, <1>2, <3>3 DEF LockShape, KeepsOrder
    <3>5. scan[v] # <<>> /\ req[v].kind \in SkuKind => ProductsWanted(v) = {}
      BY <3>4 DEF ProductsWanted, SkuKind, ProductKind, InventoryKind
    <3>6. \A x \in NextRow(v) : x \in SkuId => scan[v] # <<>> /\ req[v].kind \in SkuKind
      BY <1>1, <2>5, NextRowCases, RowsAssumption
    <3>7. CASE row \in SkuId
      <4>1. Rank(w) = 1 BY <1>6, <2>1, <3>7 DEF Rank
      <4>2. row \in found[v] BY <1>1, <2>1, <3>7 DEF SessionOK, HoldsWhatItFound
      <4>3. NextRow(v) \intersect SkuId = {} BY <3>4, <3>6, <4>2
      <4>4. Rank(v) > 1 BY <2>5, <4>3 DEF Rank
      <4> QED BY <4>1, <4>4
    <3>8. CASE row \in ProductId
      <4>1. Rank(w) \in 0..2 BY <1>6, <2>1, <3>8 DEF Rank
      <4>2. row \in ProductsWanted(v)
        BY <1>1, <2>1, <3>8 DEF LockShape, KeepsOrder
      <4>3. Unlocked(v, ProductsWanted(v)) = {} BY <2>1, <3>3, <4>2 DEF Unlocked
      <4>4. NextRow(v) \intersect SkuId = {} BY <3>5, <3>6, <4>2
      <4>5. NextRow(v) \intersect ProductId = {}
        BY <1>1, <2>5, <4>3, NextRowCases, RowsAssumption
      <4>6. Rank(v) \in {3, 4} BY <2>5, <4>4, <4>5 DEF Rank
      <4> HIDE DEF Rank
      <4> QED BY <4>1, <4>6
    <3>9. CASE row \in SellerId
      <4>1. Rank(w) \in 0..3 BY <1>6, <2>1, <3>9 DEF Rank
      <4>2. /\ row \in SellersWanted(v) /\ Unlocked(v, ProductsWanted(v)) = {}
            /\ req[v].kind \in SkuKind => scan[v] = <<>>
        BY <1>1, <2>1, <3>9 DEF LockShape, KeepsOrder
      <4>3. Unlocked(v, SellersWanted(v)) = {} BY <2>1, <3>3, <4>2 DEF Unlocked
      <4>4. \A x \in NextRow(v) : x \in CategoryId
        BY <1>1, <2>5, <3>6, <4>2, <4>3, NextRowCases, RowsAssumption
      <4>5. Rank(v) = 4 BY <2>5, <4>4, RowsAssumption DEF Rank
      <4> HIDE DEF Rank
      <4> QED BY <4>1, <4>5
    <3>10. CASE row \in CategoryId
      <4>1. /\ Unlocked(v, ProductsWanted(v)) = {} /\ scan[v] = <<>>
            /\ Unlocked(v, SellersWanted(v)) = {}
        BY <1>1, <2>1, <3>10 DEF LockShape, KeepsOrder
      <4> QED BY <3>2, <4>1
    <3> QED BY <2>2, <3>7, <3>8, <3>9, <3>10
  <2> QED BY <1>3, <2>3, <2>4, <2>5
<1>7. CASE pc[w] = "write" /\ WaitsForName(w, v)
  <2>1. index[req[w].name] \in Updated(v) BY <1>3, <1>7 DEF WaitsForName
  <2>2. ~At(v, "lock", {"delete_product"}) \/ holder[req[v].product] # v
    <3>1. pc[v] = "lock" => NextRow(v) # {} BY PlainWaits
    <3> QED BY <3>1, DeletionWaitsForOne DEF At
  <2>3. pc[v] # "write"
    <3>1. ASSUME pc[v] = "write" PROVE FALSE
      <4>1. req[v].kind = "create_sku" /\ found[v] = {} BY <3>1, PlainWriter
      <4> QED BY <2>1, <3>1, <4>1 DEF Updated, At
    <3> QED BY <3>1
  <2>4. pc[v] = "insert" BY <1>3, <2>1, <2>2, <2>3 DEF Updated, At
  <2>5. found[v] # {} BY <2>1, <2>4 DEF Updated, At
  <2>6. req[v].kind \notin {"fulfill", "moderation"}
    BY <1>1, <2>4, <2>5 DEF LockShape, StartsBare, Holds
  <2>7. Rank(v) = 6 BY <2>4, <2>6 DEF Rank
  <2>8. Rank(w) = 5 BY <1>7 DEF Rank
  <2> QED BY <2>7, <2>8
<1> QED BY <1>5, <1>6, <1>7, PlainWaits

\* Threads that wait in the order key, SKU, product, seller, category, name, key
\* never wait on each other in a circle: in every deadlock there is a request for
\* several SKUs, an invoice, a verdict with a report about a SKU, the creation of a
\* product, or an edit that changes a slug, an article or a category.
THEOREM DeadlocksTangled == Spec => []DeadlockShape
<1>1. ShapeInv => DeadlockShape
  <2> SUFFICES ASSUME ShapeInv, NEW C \in SUBSET Worker, DeadlockCycle(C),
                      \A w \in C : ~Tangled(req[w])
               PROVE  FALSE
    BY DEF DeadlockShape
  <2>1. C # {} /\ \A w \in C : \E v \in C : WaitsFor(w, v)
    BY DEF DeadlockCycle, Deadlocked
  <2>2. \A w \in C : Plain(w) BY <2>1 DEF Plain, WaitsFor, WaitsForName
  <2>3. ASSUME NEW w \in C PROVE \E v \in C : Rank(v) > Rank(w)
    <3>1. PICK v \in C : WaitsFor(w, v) BY <2>1
    <3>2. PICK u \in C : WaitsFor(v, u) BY <2>1
    <3> QED BY <2>2, <3>1, <3>2, RanksRise
  <2>4. \A w \in C : Rank(w) \in 0..6 BY DEF Rank
  <2> HIDE DEF Rank
  <2>5. PICK w0 \in C : TRUE BY <2>1
  <2>6. PICK w1 \in C : Rank(w1) > Rank(w0) BY <2>3
  <2>7. PICK w2 \in C : Rank(w2) > Rank(w1) BY <2>3
  <2>8. PICK w3 \in C : Rank(w3) > Rank(w2) BY <2>3
  <2>9. PICK w4 \in C : Rank(w4) > Rank(w3) BY <2>3
  <2>10. PICK w5 \in C : Rank(w5) > Rank(w4) BY <2>3
  <2>11. PICK w6 \in C : Rank(w6) > Rank(w5) BY <2>3
  <2>12. PICK w7 \in C : Rank(w7) > Rank(w6) BY <2>3
  <2> QED BY <2>4, <2>6, <2>7, <2>8, <2>9, <2>10, <2>11, <2>12
<1> QED BY <1>1, ShapeInit, ShapeNext, PTL DEF Spec
=============================================================================
