------------------------- MODULE MarketplaceProofs -------------------------
(***************************************************************************)
(* Proofs about Marketplace, for every set of SKUs, products, threads and    *)
(* requests: the inductive invariant Inv, hence TypeOK and                   *)
(* LocksProtectReads, and that Marketplace implements StockLedger.           *)
(*                                                                           *)
(* The argument.  A step belongs to one worker w.  It leaves the sessions of *)
(* the others alone (Others) and changes only rows w holds, or a SKU that is *)
(* not there yet under a product w holds, and only records an operation whose *)
(* key w claimed (TableFrame).  That is all the other sessions need (Frame);  *)
(* so each action owes only its own types and its own session (Effect).      *)
(***************************************************************************)
EXTENDS Marketplace, FiniteSetTheorems, TLAPS

-----------------------------------------------------------------------------
\* TypeOK in three parts.

TableTypes ==
  /\ skuRow \in [SkuId -> SkuRow]
  /\ productRow \in [ProductId -> ProductRow]
  /\ reports \in [ProductId -> SUBSET (SkuId \union {WholeProduct})]
  /\ invoiced \subseteq SkuId
  /\ ops \subseteq OpId
  /\ index \in [Name -> Owner]
  /\ categoryOf \in [ProductId -> CategoryId]

LockTypes ==
  /\ holder \in [Row -> Worker \union {Nobody}]
  /\ sharers \in [Row -> SUBSET Worker]
  /\ claim \in [OpId -> Worker \union {Nobody}]

SessionTypes ==
  /\ pc \in [Worker -> Stage]
  /\ reply \in [Worker -> Reply]
  /\ req \in [Worker -> Request \union {NoRequest}]
  /\ scan \in [Worker -> Seq(SkuId \union CategoryId)]
  /\ found \in [Worker -> SUBSET SkuId]
  /\ seenSku \in [Worker -> [SkuId -> SkuRow]]
  /\ seenProduct \in [Worker -> [ProductId -> ProductRow]]
  /\ decision \in [Worker -> Status \union {Undecided}]
  /\ \A w \in Worker :
       /\ pc[w] = "idle" <=> req[w] = NoRequest
       /\ pc[w] \in {"idle", "answered"} => scan[w] = <<>> /\ found[w] = {}

LEMMA Types == TypeOK <=> TableTypes /\ LockTypes /\ SessionTypes
BY DEF TypeOK, TableTypes, LockTypes, SessionTypes

-----------------------------------------------------------------------------
\* What a step of w may do to the rest of the system.

Others(w) ==
  \A v \in Worker \ {w} :
    /\ pc'[v] = pc[v] /\ req'[v] = req[v] /\ scan'[v] = scan[v]
    /\ found'[v] = found[v] /\ seenSku'[v] = seenSku[v]
    /\ seenProduct'[v] = seenProduct[v] /\ decision'[v] = decision[v]
    /\ \A row \in Row : holder'[row] = v <=> holder[row] = v
    /\ \A o \in OpId : claim'[o] = v <=> claim[o] = v

TableFrame(w) ==
  /\ \A s \in SkuId : skuRow'[s] # skuRow[s] =>
       \/ holder[s] = w
       \/ skuRow[s].state = "unborn" /\ holder[ProductOf[s]] = w
  /\ \A p \in ProductId : productRow'[p] # productRow[p] => holder[p] = w
  /\ \A o \in OpId : o \in ops' /\ o \notin ops => claim[o] = w

Effect(w) ==
  /\ TableTypes' /\ LockTypes' /\ SessionTypes'
  /\ Others(w) /\ TableFrame(w) /\ SessionOK(w)'

\* Requests are what the serializers let through.
LEMMA RequestType ==
  ASSUME TypeOK, NEW w \in Worker, pc[w] # "idle"
  PROVE  /\ req[w] \in Request
         /\ req[w].kind \in Kind /\ req[w].key \in Key
         /\ req[w].skus \subseteq SkuId /\ req[w].qty \in [SkuId -> Nat]
         /\ req[w].product \in ProductId /\ req[w].seller \in SellerId
         /\ req[w].verdict \in Verdict
         /\ req[w].reports \subseteq SkuId \union {WholeProduct}
         /\ req[w].name \in Name \union {NoName} /\ req[w].category \subseteq CategoryId
<1>1. req[w] \in Request BY DEF TypeOK
<1> QED BY <1>1, RequestAssumption

LEMMA OrdersType ==
  ASSUME NEW S, IsFiniteSet(S), NEW order \in Orders(S)
  PROVE  order \in Seq(S) /\ \A i \in 1..Len(order) : order[i] \in S
<1>2. Cardinality(S) \in Nat BY FS_CardinalityType
<1>3. order \in [1..Cardinality(S) -> S] BY DEF Orders
<1>4. order \in Seq(S) /\ Len(order) = Cardinality(S) BY <1>2, <1>3
<1> QED BY <1>3, <1>4

-----------------------------------------------------------------------------
\* The other sessions.

LEMMA Frame ==
  ASSUME Inv, NEW w \in Worker, NEW v \in Worker, v # w,
         TypeOK', Others(w), TableFrame(w)
  PROVE  SessionOK(v)'
<1> USE DEF Row
<1>1. SessionOK(v) /\ TypeOK BY DEF Inv
<1>2. /\ pc'[v] = pc[v] /\ req'[v] = req[v] /\ scan'[v] = scan[v]
      /\ found'[v] = found[v] /\ seenSku'[v] = seenSku[v]
      /\ seenProduct'[v] = seenProduct[v] /\ decision'[v] = decision[v]
      /\ \A row \in Row : holder'[row] = v <=> holder[row] = v
      /\ \A o \in OpId : claim'[o] = v <=> claim[o] = v
  BY DEF Others
<1>3. ASSUME NEW s \in found[v] PROVE skuRow'[s] = skuRow[s]
  <2>1. s \in SkuId /\ holder[s] = v /\ skuRow[s].state = "live"
    BY <1>1 DEF SessionOK, ReadsProtected, TypeOK, Live
  <2> QED BY <2>1 DEF TableFrame
<1>4. ReadsProtected(v)'
  <2>1. \A s \in found'[v] : holder'[s] = v /\ Live(s)' /\ seenSku'[v][s] = skuRow'[s]
    BY <1>1, <1>2, <1>3 DEF SessionOK, ReadsProtected, TypeOK, Live
  <2>2. ASSUME NEW p \in ProductId, holder'[p] = v, req'[v].kind # "delete_product"
        PROVE  seenProduct'[v][p] = productRow'[p]
    <3>1. holder[p] = v /\ productRow'[p] = productRow[p]
      BY <1>2, <2>2 DEF TableFrame
    <3> QED BY <1>1, <1>2, <2>2, <3>1 DEF SessionOK, ReadsProtected
  <2> QED BY <2>1, <2>2 DEF ReadsProtected
<1>5. HoldsWhatItFound(v)'
  BY <1>1, <1>2 DEF SessionOK, HoldsWhatItFound
<1>6. QueriesItsRequest(v)'
  BY <1>1, <1>2 DEF SessionOK, QueriesItsRequest
<1>7. HoldsProducts(v)'
  BY <1>1, <1>2, RowsAssumption DEF SessionOK, HoldsProducts, TypeOK
<1>8. Checked(v)'
  BY <1>1, <1>2 DEF SessionOK, Checked, Holds, ReserveFailures, ReturnFailures,
                    ProductBlocked, Forbidden, Product
<1>9. HoldsItsProduct(v)'
  <2>1. ASSUME Holds(v, {"write", "commit"},
                     SellerKind \union {"delete_product", "moderation"})
        PROVE  req[v].product \in ProductId /\ holder[req[v].product] = v
    BY <1>1, <2>1, RequestType DEF SessionOK, HoldsItsProduct, Holds
  <2>2. ASSUME Holds(v, {"write", "commit"}, {"create_sku"}), NEW s \in req[v].skus
        PROVE  skuRow'[s] = skuRow[s]
    <3>1. s \in SkuId /\ ProductOf[s] = req[v].product
      BY <1>1, <2>2, RequestType, RequestAssumption DEF Holds
    <3>2. skuRow[s].state = "unborn" /\ holder[ProductOf[s]] = v
      BY <1>1, <2>1, <2>2, <3>1 DEF SessionOK, HoldsItsProduct, Holds, SellerKind
    <3>3. holder[s] # w
      BY <1>1, <3>1, <3>2 DEF Inv, SessionOK, HoldsWhatItFound, ReadsProtected, Live
    <3> QED BY <3>1, <3>2, <3>3 DEF TableFrame
  <2> QED BY <1>1, <1>2, <2>1, <2>2 DEF SessionOK, HoldsItsProduct, Holds
<1>10. ClaimsItsKey(v)'
  <2>1. Op(v)' = Op(v) BY <1>2 DEF Op
  <2>2. ASSUME Holds(v, {"commit"}, KeyedKind) \/ Holds(v, {"lock"}, {"fulfill", "moderation"})
        PROVE  Op(v) \in OpId /\ claim[Op(v)] = v /\ Op(v) \notin ops
    BY <1>1, <2>2, RequestType
    DEF SessionOK, ClaimsItsKey, Holds, Op, OpId, KeyedKind, InventoryKind
  <2> QED BY <1>2, <2>1, <2>2 DEF ClaimsItsKey, Holds, TableFrame
<1> QED BY <1>4, <1>5, <1>6, <1>7, <1>8, <1>9, <1>10 DEF SessionOK

LEMMA EffectSuffices ==
  ASSUME Inv, NEW w \in Worker, Effect(w) PROVE Inv'
<1>1. TypeOK' BY Types DEF Effect, TypeOK, TableTypes, LockTypes, SessionTypes
<1>2. ASSUME NEW v \in Worker PROVE SessionOK(v)'
  BY <1>1, Frame DEF Effect
<1> QED BY <1>1, <1>2 DEF Inv

-----------------------------------------------------------------------------
\* Ends of a transaction.

\* A session that ends holds nothing and remembers nothing, so its part of the
\* invariant is void.
LEMMA Ended ==
  ASSUME Inv, NEW w \in Worker, ReleaseAll(w), Forget(w),
         pc'[w] \in {"idle", "answered", "notify"}
  PROVE  LockTypes' /\ SessionOK(w)'
<1>1. TypeOK BY DEF Inv
<1>2. Nobody # w BY WorkerAssumption
<1>3. LockTypes' BY <1>1 DEF ReleaseAll, LockTypes, TypeOK
<1>4. \A row \in Row : holder'[row] # w BY <1>2 DEF ReleaseAll
<1>5. found'[w] = {} /\ scan'[w] = <<>>
  BY <1>1 DEF Forget, TypeOK
<1>6. ReadsProtected(w)' BY <1>4, <1>5 DEF ReadsProtected, Row
<1>7. HoldsWhatItFound(w)' BY <1>4 DEF HoldsWhatItFound, Row
<1>8. QueriesItsRequest(w)' BY <1>5 DEF QueriesItsRequest
<1> QED BY <1>3, <1>6, <1>7, <1>8
    DEF SessionOK, HoldsProducts, Checked, HoldsItsProduct, ClaimsItsKey, Holds

LEMMA OthersAfterEnd ==
  ASSUME Inv, NEW w \in Worker, ReleaseAll(w), Forget(w),
         \A v \in Worker \ {w} : pc'[v] = pc[v] /\ req'[v] = req[v]
  PROVE  Others(w)
<1>1. TypeOK BY DEF Inv
<1>2. \A v \in Worker : v # Nobody BY WorkerAssumption
<1>3. ASSUME NEW v \in Worker \ {w}
      PROVE  /\ scan'[v] = scan[v] /\ found'[v] = found[v] /\ seenSku'[v] = seenSku[v]
             /\ seenProduct'[v] = seenProduct[v] /\ decision'[v] = decision[v]
  BY <1>1 DEF Forget, TypeOK
<1>4. ASSUME NEW v \in Worker \ {w}
      PROVE  /\ \A row \in Row : holder'[row] = v <=> holder[row] = v
             /\ \A o \in OpId : claim'[o] = v <=> claim[o] = v
  BY <1>2 DEF ReleaseAll
<1> QED BY <1>3, <1>4 DEF Others

LEMMA ForgetTypes ==
  ASSUME Inv, NEW w \in Worker, Forget(w)
  PROVE  /\ scan' \in [Worker -> Seq(SkuId \union CategoryId)]
         /\ found' \in [Worker -> SUBSET SkuId]
         /\ seenSku' \in [Worker -> [SkuId -> SkuRow]]
         /\ seenProduct' \in [Worker -> [ProductId -> ProductRow]]
         /\ decision' \in [Worker -> Status \union {Undecided}]
         /\ scan' = [scan EXCEPT ![w] = <<>>] /\ found' = [found EXCEPT ![w] = {}]
<1>1. TypeOK BY DEF Inv
<1>2. [s \in SkuId |-> Row0] \in [SkuId -> SkuRow] BY DEF Row0, SkuRow
<1>3. InitialProduct \in [ProductId -> ProductRow] BY TablesAssumption
<1> QED BY <1>1, <1>2, <1>3 DEF Forget, TypeOK

LEMMA AnswerStep ==
  ASSUME Inv, NEW w \in Worker, pc[w] # "idle", NEW code \in Reply, Answer(w, code)
  PROVE  LockTypes' /\ SessionTypes' /\ Others(w) /\ SessionOK(w)'
<1>1. TypeOK BY DEF Inv
<1>2. pc' = [pc EXCEPT ![w] = "answered"] /\ reply' = [reply EXCEPT ![w] = code]
      /\ req' = req /\ ReleaseAll(w) /\ Forget(w)
  BY DEF Answer
<1>3. pc'[w] = "answered" BY <1>1, <1>2 DEF TypeOK
<1>4. LockTypes' /\ SessionOK(w)' BY <1>2, <1>3, Ended
<1>5. Others(w) BY <1>1, <1>2, OthersAfterEnd DEF TypeOK
<1>6. SessionTypes' BY <1>1, <1>2, ForgetTypes DEF TypeOK, SessionTypes, Stage
<1> QED BY <1>4, <1>5, <1>6

LEMMA RefuseStep ==
  ASSUME Inv, NEW w \in Worker, pc[w] # "idle", NEW code \in Reply, Refuse(w, code)
  PROVE  Effect(w)
<1>1. Answer(w, code) /\ UNCHANGED tables BY DEF Refuse
<1>2. TableTypes' /\ TableFrame(w)
  BY <1>1 DEF tables, Inv, TypeOK, TableTypes, TableFrame
<1> QED BY <1>1, <1>2, AnswerStep DEF Effect

LEMMA CrashStep ==
  ASSUME Inv, NEW w \in Worker, Crash(w)
  PROVE  Effect(w)
<1>1. TypeOK BY DEF Inv
<1>2. /\ pc' = [pc EXCEPT ![w] = "idle"] /\ req' = [req EXCEPT ![w] = NoRequest]
      /\ reply' = reply /\ ReleaseAll(w) /\ Forget(w) /\ UNCHANGED tables
  BY DEF Crash
<1>3. TableTypes' /\ TableFrame(w)
  BY <1>1, <1>2 DEF tables, TypeOK, TableTypes, TableFrame
<1>4. LockTypes' /\ SessionOK(w)' BY <1>1, <1>2, Ended DEF TypeOK
<1>5. Others(w) BY <1>1, <1>2, OthersAfterEnd DEF TypeOK
<1>6. pc' \in [Worker -> Stage] /\ req' \in [Worker -> Request \union {NoRequest}]
  BY <1>1, <1>2 DEF TypeOK, Stage
<1>7. ASSUME NEW v \in Worker
      PROVE  /\ pc'[v] = "idle" <=> req'[v] = NoRequest
             /\ pc'[v] \in {"idle", "answered"} => scan'[v] = <<>> /\ found'[v] = {}
  BY <1>1, <1>2, ForgetTypes DEF TypeOK
<1>8. SessionTypes'
  BY <1>1, <1>2, <1>6, <1>7, ForgetTypes DEF TypeOK, SessionTypes
<1> QED BY <1>3, <1>4, <1>5, <1>8 DEF Effect

LEMMA ReturnStep ==
  ASSUME Inv, NEW w \in Worker, Return(w)
  PROVE  Effect(w)
<1>1. TypeOK /\ SessionOK(w) BY DEF Inv
<1>2. /\ pc[w] = "answered"
      /\ pc' = [pc EXCEPT ![w] = "idle"] /\ req' = [req EXCEPT ![w] = NoRequest]
      /\ reply' = [reply EXCEPT ![w] = "none"]
      /\ UNCHANGED <<tables, locks, scan, found, seenSku, seenProduct, decision>>
  BY DEF Return
<1>3. TableTypes' /\ TableFrame(w) /\ LockTypes'
  BY <1>1, <1>2 DEF tables, locks, TypeOK, TableTypes, TableFrame, LockTypes
<1>4. Others(w) BY <1>1, <1>2 DEF Others, locks, TypeOK
<1>5. SessionTypes' BY <1>1, <1>2 DEF TypeOK, SessionTypes, Stage, Reply
<1>6. \A row \in Row : holder'[row] # w
  BY <1>1, <1>2 DEF SessionOK, HoldsWhatItFound, locks
<1>7. pc'[w] = "idle" /\ found'[w] = {} /\ scan'[w] = <<>>
  BY <1>1, <1>2 DEF TypeOK
<1>8. SessionOK(w)'
  BY <1>6, <1>7
  DEF SessionOK, ReadsProtected, HoldsWhatItFound, QueriesItsRequest, HoldsProducts,
      Checked, HoldsItsProduct, ClaimsItsKey, Holds, Row
<1> QED BY <1>3, <1>4, <1>5, <1>8 DEF Effect

-----------------------------------------------------------------------------
\* Steps that only move a session or its locks.

LEMMA TablesKept ==
  ASSUME Inv, NEW w \in Worker, UNCHANGED tables
  PROVE  TableTypes' /\ TableFrame(w)
BY DEF tables, Inv, TypeOK, TableTypes, TableFrame

LEMMA MatchingType ==
  ASSUME Inv, NEW r \in Request
  PROVE  /\ IsFiniteSet(Matching(r)) /\ Matching(r) \subseteq Reach(r)
         /\ Matching(r) \subseteq SkuId \union CategoryId
<1>1. TypeOK /\ r.skus \subseteq SkuId /\ r.product \in ProductId
  BY RequestAssumption DEF Inv
<1>2. CASE r.kind \in SkuKind
  <2>1. Matching(r) = {s \in r.skus : Live(s)}
    BY <1>2 DEF Matching, SkuKind, InventoryKind
  <2> QED BY <1>1, <1>2, <2>1, RowsAssumption, FS_Subset DEF Reach
<1>3. CASE r.kind = "update_product"
  <2>1. Matching(r) = {categoryOf[r.product]} /\ r.kind \notin SkuKind
    BY <1>3 DEF Matching, SkuKind, InventoryKind
  <2>2. categoryOf[r.product] \in CategoryId BY <1>1 DEF TypeOK
  <2> QED BY <1>3, <2>1, <2>2, FS_Singleton DEF Reach
<1>4. CASE r.kind \notin SkuKind /\ r.kind # "update_product"
  <2>1. Matching(r) = {} BY <1>4 DEF Matching
  <2> QED BY <2>1, FS_EmptySet
<1> QED BY <1>2, <1>3, <1>4

LEMMA StartQueryScan ==
  ASSUME Inv, NEW w \in Worker, NEW r \in Request, StartQuery(w, r)
  PROVE  /\ scan' \in [Worker -> Seq(SkuId \union CategoryId)]
         /\ \A v \in Worker \ {w} : scan'[v] = scan[v]
         /\ \A i \in 1..Len(scan'[w]) : scan'[w][i] \in Reach(r)
<1>1. PICK order \in Orders(Matching(r)) : scan' = [scan EXCEPT ![w] = order]
  BY DEF StartQuery
<1>2. /\ order \in Seq(Matching(r))
      /\ \A i \in 1..Len(order) : order[i] \in Matching(r)
  BY MatchingType, OrdersType
<1>3. Matching(r) \subseteq Reach(r) /\ Matching(r) \subseteq SkuId \union CategoryId
  BY MatchingType
<1>4. scan \in [Worker -> Seq(SkuId \union CategoryId)] BY DEF Inv, TypeOK
<1>5. order \in Seq(SkuId \union CategoryId) BY <1>2, <1>3
<1>6. scan'[w] = order /\ \A v \in Worker \ {w} : scan'[v] = scan[v] BY <1>1, <1>4
<1>7. \A i \in 1..Len(order) : order[i] \in Reach(r) BY <1>2, <1>3
<1> QED BY <1>1, <1>4, <1>5, <1>6, <1>7

LEMMA ReceiveStep ==
  ASSUME Inv, NEW w \in Worker, NEW r \in Request, Receive(w, r)
  PROVE  Effect(w)
<1>1. TypeOK /\ SessionOK(w) BY DEF Inv
<1>2. /\ pc[w] = "idle" /\ req' = [req EXCEPT ![w] = r]
      /\ UNCHANGED <<tables, locks, found, seenSku, seenProduct, decision>>
  BY DEF Receive
<1>3. r.skus \subseteq SkuId BY RequestAssumption
<1> DEFINE stage == FirstStage(r.kind)
<1>4. /\ stage \in {"lookup", "insert", "read", "lock", "write"}
      /\ stage = "lock" => r.kind \notin {"fulfill", "moderation"}
  BY DEF FirstStage
<1>5. pc' = [pc EXCEPT ![w] = stage] /\ reply' = reply
  BY DEF Receive, StartQuery, Go
<1> HIDE DEF stage
<1>6. stage = "insert" => r.kind \in {"fulfill", "moderation"}
  BY DEF stage, FirstStage
<1>7. /\ stage \in Stage /\ stage \notin {"idle", "commit", "answered", "notify"}
      /\ pc' = [pc EXCEPT ![w] = stage] /\ reply' = reply
      /\ stage = "lock" => r.kind \notin {"fulfill", "moderation"}
      /\ stage = "insert" => r.kind \in {"fulfill", "moderation"}
      /\ stage = "write" => r.kind = "create_product" /\ r.name # NoName
  <2>0. stage = "write" => r.kind = "create_product" /\ r.name # NoName
    BY RequestAssumption, WorkerAssumption DEF stage, FirstStage, Name
  <2>1. stage \in Stage BY <1>4 DEF Stage
  <2>2. stage \notin {"idle", "commit", "answered", "notify"} BY <1>4
  <2> QED BY <1>4, <1>5, <1>6, <2>0, <2>1, <2>2
<1>8. /\ scan' \in [Worker -> Seq(SkuId \union CategoryId)]
      /\ \A v \in Worker \ {w} : scan'[v] = scan[v]
      /\ \A i \in 1..Len(scan'[w]) : scan'[w][i] \in Reach(r)
  <2>1. CASE StartQuery(w, r) BY <2>1, StartQueryScan
  <2>2. CASE scan' = scan BY <1>1, <1>2, <2>2 DEF TypeOK
  <2> QED BY <2>1, <2>2 DEF Receive
<1>9. TableTypes' /\ TableFrame(w) BY <1>2, TablesKept
<1>10. LockTypes' /\ Others(w)
  BY <1>1, <1>2, <1>7, <1>8 DEF locks, Others, TypeOK, LockTypes
<1>11. pc'[w] = stage /\ req'[w] = r /\ found'[w] = {}
  BY <1>1, <1>2, <1>7 DEF TypeOK
<1>12. SessionTypes'
  <2>1. /\ pc' \in [Worker -> Stage] /\ reply' \in [Worker -> Reply]
        /\ req' \in [Worker -> Request \union {NoRequest}]
    BY <1>1, <1>2, <1>7 DEF TypeOK
  <2>2. ASSUME NEW v \in Worker
        PROVE  /\ pc'[v] = "idle" <=> req'[v] = NoRequest
               /\ pc'[v] \in {"idle", "answered"} => scan'[v] = <<>> /\ found'[v] = {}
    BY <1>1, <1>2, <1>7, <1>8, <1>11, WorkerAssumption DEF TypeOK
  <2> QED BY <1>1, <1>2, <1>8, <2>1, <2>2 DEF TypeOK, SessionTypes
<1>13. \A row \in Row : holder'[row] # w
  BY <1>1, <1>2 DEF SessionOK, HoldsWhatItFound, locks
<1>14. SessionOK(w)'
  <2>1. ReadsProtected(w)' /\ HoldsWhatItFound(w)' /\ HoldsProducts(w)'
    BY <1>11, <1>13 DEF ReadsProtected, HoldsWhatItFound, HoldsProducts, Row
  <2>2. QueriesItsRequest(w)' BY <1>8, <1>11 DEF QueriesItsRequest
  <2>3. Checked(w)' /\ HoldsItsProduct(w)' /\ ClaimsItsKey(w)'
    BY <1>7, <1>11 DEF Checked, HoldsItsProduct, ClaimsItsKey, Holds, SellerKind
  <2> QED BY <2>1, <2>2, <2>3 DEF SessionOK
<1> QED BY <1>9, <1>10, <1>12, <1>14 DEF Effect

\* What NextRow can be.
LEMMA NextSku ==
  ASSUME Inv, NEW w \in Worker, pc[w] = "lock", NEW s \in NextRow(w) \intersect SkuId
  PROVE  /\ scan[w] # <<>> /\ s = Head(scan[w]) /\ s \in req[w].skus
         /\ req[w].kind \in SkuKind
         /\ Tail(scan[w]) \in Seq(SkuId \union CategoryId)
         /\ \A i \in 1..Len(Tail(scan[w])) : Tail(scan[w])[i] \in Reach(req[w])
<1>1. TypeOK /\ SessionOK(w) /\ pc[w] # "idle" BY DEF Inv
<1>2. ProductsWanted(w) \subseteq ProductId
  BY <1>1, RequestType, RowsAssumption DEF ProductsWanted, TypeOK
<1>3. SellersWanted(w) \subseteq SellerId
  BY <1>2, RowsAssumption DEF SellersWanted
<1>4. scan[w] # <<>> /\ s = Head(scan[w])
  BY <1>2, <1>3, RowsAssumption DEF NextRow, Unlocked
<1>5. scan[w] \in Seq(SkuId \union CategoryId) /\ Len(scan[w]) \in Nat /\ Len(scan[w]) > 0
  BY <1>1, <1>4 DEF TypeOK
<1>6. \A i \in 1..Len(scan[w]) : scan[w][i] \in Reach(req[w])
  BY <1>1, <1>4 DEF SessionOK, QueriesItsRequest
<1>7. s \in req[w].skus /\ req[w].kind \in SkuKind
  <2>1. s \in Reach(req[w]) BY <1>4, <1>5, <1>6
  <2> QED BY <2>1, RowsAssumption DEF Reach
<1>8. Tail(scan[w]) \in Seq(SkuId \union CategoryId) BY <1>4, <1>5
<1>9. \A i \in 1..Len(Tail(scan[w])) : Tail(scan[w])[i] \in Reach(req[w])
  BY <1>4, <1>5, <1>6
<1> QED BY <1>4, <1>6, <1>7, <1>8, <1>9

LEMMA LockSkuStep ==
  ASSUME Inv, NEW w \in Worker, LockSku(w)
  PROVE  Effect(w)
<1>1. TypeOK /\ SessionOK(w) /\ pc[w] = "lock" BY DEF Inv, LockSku
<1>2. PICK s \in NextRow(w) \intersect SkuId :
        /\ Free(w, s)
        /\ scan' = [scan EXCEPT ![w] = Tail(@)]
        /\ \/ /\ Live(s)
              /\ holder' = [holder EXCEPT ![s] = w]
              /\ found' = [found EXCEPT ![w] = @ \union {s}]
              /\ seenSku' = [seenSku EXCEPT ![w][s] = skuRow[s]]
           \/ UNCHANGED <<holder, found, seenSku>>
  BY DEF LockSku
<1>3. UNCHANGED <<tables, sharers, claim, req, seenProduct, decision, pc, reply>>
  BY DEF LockSku
<1>4. /\ s \in SkuId /\ s \in Row /\ s \in req[w].skus /\ req[w].kind \in SkuKind
      /\ Tail(scan[w]) \in Seq(SkuId \union CategoryId)
      /\ \A i \in 1..Len(Tail(scan[w])) : Tail(scan[w])[i] \in Reach(req[w])
  BY <1>1, NextSku DEF Row
<1>5. TableTypes' /\ TableFrame(w) BY <1>3, TablesKept
<1>6. LockTypes'
  <2>1. holder' \in [Row -> Worker \union {Nobody}]
    <3>1. CASE holder' = holder BY <1>1, <3>1 DEF TypeOK
    <3>2. CASE holder' = [holder EXCEPT ![s] = w] BY <1>1, <3>2 DEF TypeOK
    <3> QED BY <1>2, <3>1, <3>2
  <2> QED BY <1>1, <1>3, <2>1 DEF TypeOK, LockTypes
<1>7. SessionTypes'
  <2>1. scan' \in [Worker -> Seq(SkuId \union CategoryId)] BY <1>1, <1>2, <1>4 DEF TypeOK
  <2>2. found' \in [Worker -> SUBSET SkuId] /\ seenSku' \in [Worker -> [SkuId -> SkuRow]]
    <3>1. CASE UNCHANGED <<holder, found, seenSku>> BY <1>1, <3>1 DEF TypeOK
    <3>2. CASE ~UNCHANGED <<holder, found, seenSku>>
      <4>1. found' = [found EXCEPT ![w] = found[w] \union {s}] BY <1>2, <3>2
      <4>5. found' \in [Worker -> SUBSET SkuId] BY <1>1, <1>4, <4>1 DEF TypeOK
      <4>2. skuRow[s] \in SkuRow BY <1>1, <1>4 DEF TypeOK
      <4>3. seenSku' = [seenSku EXCEPT ![w] = [seenSku[w] EXCEPT ![s] = skuRow[s]]]
        BY <1>2, <3>2
      <4>4. seenSku' \in [Worker -> [SkuId -> SkuRow]] BY <1>1, <4>2, <4>3 DEF TypeOK
      <4> QED BY <4>4, <4>5
    <3> QED BY <3>1, <3>2
  <2>3. \A v \in Worker : pc'[v] \in {"idle", "answered"} =>
          scan'[v] = <<>> /\ found'[v] = {}
    BY <1>1, <1>2, <1>3 DEF TypeOK
  <2> QED BY <1>1, <1>3, <2>1, <2>2, <2>3 DEF TypeOK, SessionTypes
<1>8. Others(w)
  <2>1. ASSUME NEW v \in Worker \ {w}, NEW row \in Row
        PROVE  holder'[row] = v <=> holder[row] = v
    <3>1. Nobody # v BY WorkerAssumption
    <3>2. holder[s] # v BY <1>2, <3>1 DEF Free
    <3> QED BY <1>1, <1>2, <1>4, <3>2 DEF TypeOK
  <2> QED BY <1>1, <1>2, <1>3, <2>1 DEF Others, TypeOK
<1>9. /\ scan'[w] = Tail(scan[w])
      /\ \A row \in Row \ SkuId : holder'[row] = holder[row]
      /\ \A t \in found'[w] : \/ t = s /\ holder'[t] = w /\ Live(t)
                                 /\ seenSku'[w][t] = skuRow[t]
                              \/ t \in found[w] /\ holder'[t] = w
                                 /\ seenSku'[w][t] = seenSku[w][t]
      /\ \A t \in SkuId : holder'[t] = w => holder[t] = w \/ t \in found'[w]
      /\ found[w] \subseteq found'[w]
  <2>1. CASE UNCHANGED <<holder, found, seenSku>>
    BY <1>1, <1>2, <1>4, <2>1 DEF TypeOK, SessionOK, ReadsProtected, Row
  <2>2. CASE ~UNCHANGED <<holder, found, seenSku>>
    <3>1. /\ Live(s) /\ holder'[s] = w /\ seenSku'[w][s] = skuRow[s]
          /\ found'[w] = found[w] \union {s}
          /\ \A row \in Row : row # s => holder'[row] = holder[row]
          /\ \A t \in SkuId : t # s => seenSku'[w][t] = seenSku[w][t]
      BY <1>1, <1>2, <1>4, <2>2 DEF TypeOK
    <3>2. scan'[w] = Tail(scan[w]) BY <1>1, <1>2 DEF TypeOK
    <3> QED BY <1>1, <1>4, <3>1, <3>2 DEF TypeOK, SessionOK, ReadsProtected, Row
  <2> QED BY <2>1, <2>2
<1>10. ReadsProtected(w)'
  BY <1>1, <1>3, <1>9, RowsAssumption
  DEF SessionOK, ReadsProtected, tables, Live, Row
<1>11. HoldsWhatItFound(w)'
  BY <1>1, <1>3, <1>9 DEF SessionOK, HoldsWhatItFound
<1>12. QueriesItsRequest(w)'
  BY <1>1, <1>3, <1>4, <1>9 DEF SessionOK, QueriesItsRequest
<1>13. HoldsProducts(w)' /\ Checked(w)' /\ HoldsItsProduct(w)' /\ ClaimsItsKey(w)'
  BY <1>1, <1>3, <1>4
  DEF HoldsProducts, Checked, HoldsItsProduct, ClaimsItsKey, Holds, SessionOK, Op, tables
<1> QED BY <1>5, <1>6, <1>7, <1>8, <1>10, <1>11, <1>12, <1>13 DEF Effect, SessionOK

LEMMA LockProductStep ==
  ASSUME Inv, NEW w \in Worker, LockProduct(w)
  PROVE  Effect(w)
<1>1. TypeOK /\ SessionOK(w) /\ pc[w] = "lock" BY DEF Inv, LockProduct
<1>2. PICK p \in NextRow(w) \intersect ProductId :
        /\ Free(w, p)
        /\ holder' = [holder EXCEPT ![p] = w]
        /\ seenProduct' = IF req[w].kind = "delete_product" THEN seenProduct
                          ELSE [seenProduct EXCEPT ![w][p] = productRow[p]]
        /\ seenSku' = IF req[w].kind # "moderation" THEN seenSku
                      ELSE [seenSku EXCEPT ![w] =
                        [s \in SkuId |-> IF s \in SkusOf(p) THEN skuRow[s] ELSE @[s]]]
  BY DEF LockProduct
<1>3. UNCHANGED <<tables, sharers, claim, req, scan, found, decision, pc, reply>>
  BY DEF LockProduct
<1>4. p \in ProductId /\ p \in Row /\ p \notin SkuId BY RowsAssumption DEF Row
<1>5. TableTypes' /\ TableFrame(w) BY <1>3, TablesKept
<1>6. LockTypes' BY <1>1, <1>2, <1>3, <1>4 DEF TypeOK, LockTypes
<1>7. SessionTypes'
  <2>1. seenProduct' \in [Worker -> [ProductId -> ProductRow]]
    BY <1>1, <1>2, <1>4 DEF TypeOK
  <2>2. seenSku' \in [Worker -> [SkuId -> SkuRow]]
    BY <1>1, <1>2 DEF TypeOK
  <2> QED BY <1>1, <1>3, <2>1, <2>2 DEF TypeOK, SessionTypes
<1>8. Others(w)
  <2>1. ASSUME NEW v \in Worker \ {w}, NEW row \in Row
        PROVE  holder'[row] = v <=> holder[row] = v
    <3>1. holder[p] # v BY <1>2, WorkerAssumption DEF Free
    <3> QED BY <1>1, <1>2, <1>4, <3>1 DEF TypeOK
  <2> QED BY <1>1, <1>2, <1>3, <2>1 DEF Others, TypeOK
<1>9. /\ \A s \in SkuId : holder'[s] = holder[s]
      /\ \A x \in ProductId : x # p => holder'[x] = holder[x]
      /\ req[w].kind # "delete_product" =>
           /\ seenProduct'[w][p] = productRow[p]
           /\ \A x \in ProductId : x # p => seenProduct'[w][x] = seenProduct[w][x]
      /\ found[w] # {} => seenSku' = seenSku
  BY <1>1, <1>2, <1>4
  DEF TypeOK, Row, SessionOK, QueriesItsRequest, SkuKind, InventoryKind
<1>10. ReadsProtected(w)'
  <2>1. \A s \in found'[w] : holder'[s] = w /\ Live(s)' /\ seenSku'[w][s] = skuRow'[s]
    BY <1>1, <1>3, <1>9 DEF TypeOK, SessionOK, ReadsProtected, Live, tables
  <2>2. \A x \in ProductId : holder'[x] = w /\ req'[w].kind # "delete_product" =>
          seenProduct'[w][x] = productRow'[x]
    BY <1>1, <1>3, <1>9 DEF SessionOK, ReadsProtected, tables
  <2> QED BY <2>1, <2>2 DEF ReadsProtected
<1>11. HoldsWhatItFound(w)'
  BY <1>1, <1>3, <1>9 DEF SessionOK, HoldsWhatItFound
<1>12. QueriesItsRequest(w)'
  BY <1>1, <1>3 DEF SessionOK, QueriesItsRequest
<1>13. HoldsProducts(w)' /\ Checked(w)' /\ HoldsItsProduct(w)' /\ ClaimsItsKey(w)'
  BY <1>1, <1>3
  DEF HoldsProducts, Checked, HoldsItsProduct, ClaimsItsKey, Holds, SessionOK, Op, tables
<1> QED BY <1>5, <1>6, <1>7, <1>8, <1>10, <1>11, <1>12, <1>13 DEF Effect, SessionOK

\* A lock on a row that is neither a SKU nor a product, with or without a move in
\* the query.
LEMMA LockOther ==
  ASSUME Inv, NEW w \in Worker, pc[w] = "lock", NEW x \in SellerId \union CategoryId,
         Free(w, x), holder' = [holder EXCEPT ![x] = w],
         \/ scan' = scan
         \/ /\ scan[w] # <<>> /\ scan' = [scan EXCEPT ![w] = Tail(@)]
            /\ req[w].kind = "update_product",
         UNCHANGED <<tables, sharers, claim, req, found, seenSku, seenProduct, decision,
                     outbox, pc, reply>>
  PROVE  Effect(w)
<1>1. TypeOK /\ SessionOK(w) BY DEF Inv
<1>4. x \in Row /\ x \notin SkuId /\ x \notin ProductId BY RowsAssumption DEF Row
<1>5. TableTypes' /\ TableFrame(w) BY TablesKept
<1>6. /\ scan' \in [Worker -> Seq(SkuId \union CategoryId)]
      /\ \A v \in Worker : v # w => scan'[v] = scan[v]
      /\ \A i \in 1..Len(scan'[w]) : scan'[w][i] \in Reach(req[w])
  <2>1. \A i \in 1..Len(scan[w]) : scan[w][i] \in Reach(req[w])
    BY <1>1 DEF SessionOK, QueriesItsRequest
  <2>2. CASE scan' = scan BY <1>1, <2>1, <2>2 DEF TypeOK
  <2>3. CASE scan[w] # <<>> /\ scan' = [scan EXCEPT ![w] = Tail(scan[w])]
    <3>1. scan[w] \in Seq(SkuId \union CategoryId) BY <1>1 DEF TypeOK
    <3>2. /\ Tail(scan[w]) \in Seq(SkuId \union CategoryId)
          /\ \A i \in 1..Len(Tail(scan[w])) : Tail(scan[w])[i] \in Reach(req[w])
      BY <2>1, <2>3, <3>1
    <3> QED BY <1>1, <2>3, <3>2 DEF TypeOK
  <2> QED BY <2>2, <2>3
<1>7. LockTypes' BY <1>1, <1>4 DEF TypeOK, LockTypes
<1>8. SessionTypes'
  BY <1>1, <1>6 DEF TypeOK, SessionTypes
<1>9. Others(w)
  <2>1. ASSUME NEW v \in Worker \ {w}, NEW row \in Row
        PROVE  holder'[row] = v <=> holder[row] = v
    <3>1. holder[x] # v BY WorkerAssumption DEF Free
    <3> QED BY <1>1, <1>4, <3>1 DEF TypeOK
  <2> QED BY <1>1, <1>6, <2>1 DEF Others, TypeOK
<1>10. \A row \in SkuId \union ProductId : holder'[row] = holder[row]
  BY <1>1, <1>4 DEF TypeOK, Row
<1>11. ReadsProtected(w)'
  BY <1>1, <1>10 DEF TypeOK, SessionOK, ReadsProtected, Live, tables
<1>12. HoldsWhatItFound(w)'
  BY <1>1, <1>10 DEF SessionOK, HoldsWhatItFound
<1>13. QueriesItsRequest(w)'
  BY <1>1, <1>6 DEF SessionOK, QueriesItsRequest
<1>14. HoldsProducts(w)' /\ Checked(w)' /\ HoldsItsProduct(w)' /\ ClaimsItsKey(w)'
  BY <1>1
  DEF HoldsProducts, Checked, HoldsItsProduct, ClaimsItsKey, Holds, SessionOK, Op, tables
<1> QED BY <1>5, <1>7, <1>8, <1>9, <1>11, <1>12, <1>13, <1>14 DEF Effect, SessionOK

LEMMA LockSellerStep ==
  ASSUME Inv, NEW w \in Worker, LockSeller(w)
  PROVE  Effect(w)
BY LockOther DEF LockSeller, session

\* The category a query reaches is the one its scan has left.
LEMMA NextCategory ==
  ASSUME Inv, NEW w \in Worker, pc[w] = "lock", NEW row \in NextRow(w) \intersect CategoryId
  PROVE  scan[w] # <<>> /\ row = Head(scan[w]) /\ req[w].kind = "update_product"
<1>1. TypeOK /\ SessionOK(w) /\ pc[w] # "idle" BY DEF Inv
<1>2. ProductsWanted(w) \subseteq ProductId
  BY <1>1, RequestType, RowsAssumption DEF ProductsWanted, TypeOK
<1>3. SellersWanted(w) \subseteq SellerId
  BY <1>2, RowsAssumption DEF SellersWanted
<1>4. scan[w] # <<>> /\ row = Head(scan[w])
  BY <1>2, <1>3, RowsAssumption DEF NextRow, Unlocked
<1>5. scan[w] \in Seq(SkuId \union CategoryId) /\ Len(scan[w]) \in Nat /\ Len(scan[w]) > 0
  BY <1>1, <1>4 DEF TypeOK
<1>6. row \in Reach(req[w])
  BY <1>1, <1>4, <1>5 DEF SessionOK, QueriesItsRequest
<1>7. req[w].skus \subseteq SkuId BY <1>1, RequestType
<1> QED BY <1>4, <1>6, <1>7, RowsAssumption DEF Reach

LEMMA LockCategoryStep ==
  ASSUME Inv, NEW w \in Worker, LockCategory(w)
  PROVE  Effect(w)
<1>1. pc[w] = "lock" /\ pc[w] # "idle" BY DEF LockCategory
<1>2. PICK row \in NextRow(w) \intersect CategoryId :
        /\ Free(w, row)
        /\ \/ Refuse(w, "refused")
           \/ /\ holder' = [holder EXCEPT ![row] = w]
              /\ scan' = [scan EXCEPT ![w] = Tail(@)]
              /\ UNCHANGED <<tables, sharers, claim, req, found, seenSku, seenProduct,
                             decision, outbox, pc, reply, sent>>
  BY DEF LockCategory
<1>3. CASE Refuse(w, "refused") BY <1>1, <1>3, RefuseStep DEF Reply
<1>4. CASE ~Refuse(w, "refused") BY <1>1, <1>2, <1>4, NextCategory, LockOther
<1> QED BY <1>3, <1>4

\* A query that is over holds every product it wanted.
LEMMA LockedHolds ==
  ASSUME NEW w \in Worker, Locked(w)
  PROVE  \A p \in ProductsWanted(w) : holder[p] = w
<1>1. Unlocked(w, ProductsWanted(w)) = {}
  BY DEF Locked, NextRow
<1> QED BY <1>1 DEF Unlocked

\* A decision changes the stage and the status to write; what its commit will
\* rely on is owed by the handler.
LEMMA DecideStep ==
  ASSUME Inv, NEW w \in Worker, pc[w] \in {"lock", "read", "write"},
         NEW status \in Status \union {Undecided}, NEW events,
         NEW stage \in {"insert", "write", "commit"}, Decide(w, status, events, stage),
         \A s \in found[w] : holder[ProductOf[s]] = w,
         pc'[w] = stage /\ decision'[w] = status =>
           Checked(w)' /\ HoldsItsProduct(w)' /\ ClaimsItsKey(w)'
  PROVE  Effect(w)
<1>1. TypeOK /\ SessionOK(w) BY DEF Inv
<1>2. /\ pc' = [pc EXCEPT ![w] = stage] /\ decision' = [decision EXCEPT ![w] = status]
      /\ UNCHANGED <<tables, locks, req, reply, scan, found, seenSku, seenProduct>>
  BY DEF Decide, Go
<1>3. TableTypes' /\ TableFrame(w) BY <1>2, TablesKept
<1>4. LockTypes' BY <1>1, <1>2 DEF locks, TypeOK, LockTypes
<1>5. SessionTypes'
  <2>1. pc' \in [Worker -> Stage] BY <1>1, <1>2 DEF TypeOK, Stage
  <2>2. decision' \in [Worker -> Status \union {Undecided}] BY <1>1, <1>2 DEF TypeOK
  <2>3. ASSUME NEW v \in Worker
        PROVE  /\ pc'[v] = "idle" <=> req'[v] = NoRequest
               /\ pc'[v] \in {"idle", "answered"} => scan'[v] = <<>> /\ found'[v] = {}
    BY <1>1, <1>2 DEF TypeOK
  <2> QED BY <1>1, <1>2, <2>1, <2>2, <2>3 DEF TypeOK, SessionTypes
<1>6. Others(w) BY <1>1, <1>2 DEF locks, Others, TypeOK
<1>7. pc'[w] = stage /\ decision'[w] = status BY <1>1, <1>2 DEF TypeOK
<1>8. ReadsProtected(w)'
  BY <1>1, <1>2 DEF SessionOK, ReadsProtected, Live, tables, locks
<1>9. HoldsWhatItFound(w)'
  BY <1>1, <1>2, <1>7 DEF SessionOK, HoldsWhatItFound, locks
<1>10. QueriesItsRequest(w)'
  BY <1>1, <1>2, <1>7 DEF SessionOK, QueriesItsRequest
<1>11. HoldsProducts(w)' BY <1>2 DEF HoldsProducts, locks
<1> QED BY <1>3, <1>4, <1>5, <1>6, <1>7, <1>8, <1>9, <1>10, <1>11 DEF Effect, SessionOK

\* The same for a handler that has finished its locking query.
LEMMA DecideLocked ==
  ASSUME Inv, NEW w \in Worker, pc[w] = "lock", Locked(w)
  PROVE  /\ \A s \in found[w] : holder[ProductOf[s]] = w
         /\ req[w].kind \in ProductKind => holder[req[w].product] = w
         /\ req[w].kind \in {"update_sku", "delete_sku"} /\ found[w] # {} =>
              holder[req[w].product] = w
<1>1. TypeOK /\ SessionOK(w) /\ pc[w] # "idle" BY DEF Inv
<1>2. ASSUME NEW s \in found[w] PROVE holder[ProductOf[s]] = w
  <2>1. req[w].kind \in SkuKind
    BY <1>1, <1>2 DEF SessionOK, QueriesItsRequest
  <2>2. ProductOf[s] \in ProductsWanted(w)
    BY <2>1 DEF ProductsWanted, SkuKind, ProductKind, InventoryKind
  <2> QED BY <2>2, LockedHolds
<1>3. ASSUME req[w].kind \in ProductKind PROVE holder[req[w].product] = w
  BY <1>3, LockedHolds DEF ProductsWanted
<1>4. ASSUME req[w].kind \in {"update_sku", "delete_sku"}, NEW s \in found[w]
      PROVE  ProductOf[s] = req[w].product
  BY <1>1, <1>4, RequestType, RequestAssumption DEF SessionOK, QueriesItsRequest
<1> QED BY <1>2, <1>3, <1>4

LEMMA ProductStatus ==
  ASSUME Inv, NEW w \in Worker, pc[w] # "idle"
  PROVE  Product(w).status \in Status
BY RequestType DEF Inv, TypeOK, Product, ProductRow

LEMMA InventoryDecides ==
  ASSUME Inv, NEW w \in Worker,
         ReserveDecide(w) \/ UnreserveDecide(w) \/ FulfillDecide(w)
  PROVE  Effect(w)
<1>1. /\ pc[w] = "lock" /\ Locked(w)
      /\ req[w].kind \in {"reserve", "unreserve", "fulfill"}
  BY DEF ReserveDecide, UnreserveDecide, FulfillDecide, At
<1>2. TypeOK /\ SessionOK(w) BY DEF Inv
<1>3. "refused" \in Reply BY DEF Reply
<1>4. CASE Refuse(w, "refused") BY <1>1, <1>3, <1>4, RefuseStep
<1>5. ASSUME NEW stage \in {"insert", "commit"}, Decide(w, Undecided, {}, stage),
             req[w].kind = "reserve" => ReserveFailures(w) = {},
             req[w].kind # "reserve" => ReturnFailures(w) = {},
             req[w].kind = "fulfill" <=> stage = "commit"
      PROVE  Effect(w)
  <2>1. UNCHANGED <<req, found, seenSku, seenProduct, claim, ops>>
    BY <1>5 DEF Decide, locks, tables
  <2>2. ReserveFailures(w)' = ReserveFailures(w) /\ ReturnFailures(w)' = ReturnFailures(w)
    BY <2>1 DEF ReserveFailures, ReturnFailures, ProductBlocked
  <2>3. ASSUME pc'[w] = stage
        PROVE  Checked(w)' /\ HoldsItsProduct(w)' /\ ClaimsItsKey(w)'
    <3>1. Checked(w)'
      BY <1>1, <1>5, <2>1, <2>2, <2>3 DEF Checked, Holds, SellerKind
    <3>2. HoldsItsProduct(w)'
      BY <1>1, <2>1 DEF HoldsItsProduct, Holds, SellerKind
    <3>3. ClaimsItsKey(w)'
      BY <1>1, <1>2, <1>5, <2>1, <2>3 DEF SessionOK, ClaimsItsKey, Holds, Op
    <3> QED BY <3>1, <3>2, <3>3
  <2> QED BY <1>1, <1>5, <2>3, DecideLocked, DecideStep
<1> QED BY <1>1, <1>4, <1>5
    DEF ReserveDecide, UnreserveDecide, FulfillDecide, Conflict, At

\* A seller's or moderation's decision, about a product the query has locked.
LEMMA ProductDecision ==
  ASSUME Inv, NEW w \in Worker, pc[w] = "lock", Locked(w),
         req[w].kind \in SellerKind \union {"delete_product", "moderation"},
         NEW status \in Status \union {Undecided},
         req[w].kind # "delete_product" => status \in Status,
         NEW events, NEW stage \in {"write", "commit"}, Decide(w, status, events, stage),
         stage = "write" => req[w].name # NoName,
         req[w].kind \in SellerKind => ~Forbidden(w),
         req[w].kind \in {"update_sku", "delete_sku"} => found[w] # {},
         req[w].kind = "delete_sku" => \A s \in found[w] : seenSku[w][s].reserved = 0,
         req[w].kind = "create_sku" =>
           \A s \in req[w].skus : skuRow[s].state = "unborn"
  PROVE  Effect(w)
<1>1. TypeOK /\ SessionOK(w) BY DEF Inv
<1>2. UNCHANGED <<req, found, seenSku, seenProduct, holder, claim, skuRow, ops>>
  BY DEF Decide, locks, tables
<1>3. holder[req[w].product] = w
  BY DecideLocked DEF SellerKind, ProductKind
<1>4. \A s \in found[w] : holder[ProductOf[s]] = w BY DecideLocked
<1>5. ASSUME pc'[w] = stage /\ decision'[w] = status
      PROVE  Checked(w)' /\ HoldsItsProduct(w)' /\ ClaimsItsKey(w)'
  <2>0. Forbidden(w)' = Forbidden(w) BY <1>2 DEF Forbidden, Product
  <2>1. Checked(w)' BY <1>2, <1>5, <2>0 DEF Checked, Holds, SellerKind
  <2>2. HoldsItsProduct(w)' BY <1>2, <1>3 DEF HoldsItsProduct, Holds
  <2>3. ClaimsItsKey(w)'
    BY <1>1, <1>2, <1>5
    DEF SessionOK, ClaimsItsKey, Holds, Op, SellerKind, KeyedKind, InventoryKind
  <2> QED BY <2>1, <2>2, <2>3
<1> QED BY <1>4, <1>5, DecideStep

\* Saving is deciding, to write the name or to commit.
LEMMA SaveDecides ==
  ASSUME NEW w \in Worker, NEW status, Save(w, status)
  PROVE  \E stage \in {"write", "commit"} :
           /\ \E events : Decide(w, status, events, stage)
           /\ stage = "write" => req[w].name # NoName
BY DEF Save

LEMMA SellerDecides ==
  ASSUME Inv, NEW w \in Worker,
         \/ CreateSkuDecide(w) \/ UpdateSkuDecide(w) \/ DeleteSkuDecide(w)
         \/ UpdateProductDecide(w)
  PROVE  Effect(w)
<1>1. /\ pc[w] = "lock" /\ pc[w] # "idle" /\ Locked(w)
      /\ req[w].kind \in SellerKind
  BY DEF CreateSkuDecide, UpdateSkuDecide, DeleteSkuDecide, UpdateProductDecide,
         At, SellerKind
<1>2. TypeOK BY DEF Inv
<1>3. "refused" \in Reply /\ "error" \in Reply BY DEF Reply
<1>4. CASE Refuse(w, "refused") \/ Refuse(w, "error")
  BY <1>1, <1>3, <1>4, RefuseStep
<1>5. CASE CreateSkuDecide(w) /\ ~(Refuse(w, "refused") \/ Refuse(w, "error"))
  <2>1. PICK status \in {"ON_MODERATION", Product(w).status} : Save(w, status)
    BY <1>5 DEF CreateSkuDecide, SaveEdit
  <2>2. /\ req[w].kind = "create_sku" /\ ~Forbidden(w)
        /\ \A s \in req[w].skus : skuRow[s].state = "unborn"
    BY <1>5 DEF CreateSkuDecide, At, Insertable
  <2>3. status \in Status BY <1>1, <2>1, ProductStatus DEF Status
  <2>4. PICK stage \in {"write", "commit"} :
          /\ \E events : Decide(w, status, events, stage)
          /\ stage = "write" => req[w].name # NoName
    BY <2>1, SaveDecides
  <2> QED BY <1>1, <2>2, <2>3, <2>4, ProductDecision DEF SellerKind
<1>6. CASE UpdateSkuDecide(w) /\ ~(Refuse(w, "refused") \/ Refuse(w, "error"))
  <2>1. PICK status \in {"ON_MODERATION", Product(w).status} : Save(w, status)
    BY <1>6 DEF UpdateSkuDecide, SaveEdit
  <2>2. req[w].kind = "update_sku" /\ found[w] # {} /\ ~Forbidden(w)
    BY <1>6 DEF UpdateSkuDecide, At
  <2>3. status \in Status BY <1>1, <2>1, ProductStatus DEF Status
  <2>4. PICK stage \in {"write", "commit"} :
          /\ \E events : Decide(w, status, events, stage)
          /\ stage = "write" => req[w].name # NoName
    BY <2>1, SaveDecides
  <2> QED BY <1>1, <2>2, <2>3, <2>4, ProductDecision DEF SellerKind
<1>7. CASE DeleteSkuDecide(w) /\ ~(Refuse(w, "refused") \/ Refuse(w, "error"))
  <2>1. PICK status \in {"CREATED", Product(w).status} :
          \E events : Decide(w, status, events, "commit")
    BY <1>7 DEF DeleteSkuDecide
  <2>2. /\ req[w].kind = "delete_sku" /\ found[w] # {} /\ ~Forbidden(w)
        /\ ~(\E s \in found[w] : seenSku[w][s].reserved > 0)
    BY <1>7 DEF DeleteSkuDecide, At
  <2>3. ASSUME NEW s \in found[w] PROVE seenSku[w][s].reserved = 0
    <3>1. seenSku[w][s].reserved \in Nat BY <1>2 DEF TypeOK, SkuRow
    <3> QED BY <2>2, <3>1
  <2>4. status \in Status BY <1>1, <2>1, ProductStatus DEF Status
  <2> QED BY <1>1, <2>1, <2>2, <2>3, <2>4, ProductDecision DEF SellerKind
<1>8. CASE UpdateProductDecide(w) /\ ~(Refuse(w, "refused") \/ Refuse(w, "error"))
  <2>1. PICK status \in {"ON_MODERATION", Product(w).status} : Save(w, status)
    BY <1>8 DEF UpdateProductDecide, SaveEdit
  <2>2. req[w].kind = "update_product" /\ ~Forbidden(w)
    BY <1>8 DEF UpdateProductDecide, At
  <2>3. status \in Status BY <1>1, <2>1, ProductStatus DEF Status
  <2>4. PICK stage \in {"write", "commit"} :
          /\ \E events : Decide(w, status, events, stage)
          /\ stage = "write" => req[w].name # NoName
    BY <2>1, SaveDecides
  <2> QED BY <1>1, <2>2, <2>3, <2>4, ProductDecision DEF SellerKind
<1> QED BY <1>4, <1>5, <1>6, <1>7, <1>8

\* Who writes a unique name.
LEMMA Writers ==
  ASSUME Inv, NEW w \in Worker, pc[w] = "write"
  PROVE  /\ req[w].kind \in {"create_sku", "update_sku", "create_product", "update_product"}
         /\ req[w].name \in Name
<1>1. TypeOK /\ SessionOK(w) /\ pc[w] # "idle" BY DEF Inv
<1>2. req[w].name \in Name
  BY <1>1, RequestType DEF SessionOK, Checked, Holds
<1> QED BY <1>1, <1>2, RequestType, RequestAssumption DEF Name

LEMMA WriteNameStep ==
  ASSUME Inv, NEW w \in Worker, WriteName(w)
  PROVE  Effect(w)
<1>1. pc[w] = "write" /\ pc[w] # "idle" BY DEF WriteName
<1>2. TypeOK /\ SessionOK(w) BY DEF Inv
<1>3. CASE Refuse(w, "error") BY <1>1, <1>3, RefuseStep DEF Reply
<1>4. ASSUME NEW events, Decide(w, decision[w], events, "commit") PROVE Effect(w)
  <2>1. UNCHANGED <<req, found, seenSku, seenProduct, holder, claim, skuRow, ops>>
    BY <1>4 DEF Decide, locks, tables
  <2>2. req[w].kind \in {"create_sku", "update_sku", "create_product", "update_product"}
    BY <1>1, Writers
  <2>3. decision[w] \in Status \union {Undecided} BY <1>2 DEF TypeOK
  <2>4. \A s \in found[w] : holder[ProductOf[s]] = w
    BY <1>1, <1>2 DEF SessionOK, HoldsProducts
  <2>5. ASSUME pc'[w] = "commit" /\ decision'[w] = decision[w]
        PROVE  Checked(w)' /\ HoldsItsProduct(w)' /\ ClaimsItsKey(w)'
    <3>0. Forbidden(w)' = Forbidden(w) BY <2>1 DEF Forbidden, Product
    <3>1. Checked(w)'
      BY <1>1, <1>2, <2>1, <2>2, <2>5, <3>0 DEF SessionOK, Checked, Holds
    <3>2. HoldsItsProduct(w)'
      BY <1>1, <1>2, <2>1, <2>2 DEF SessionOK, HoldsItsProduct, Holds
    <3>3. ClaimsItsKey(w)'
      BY <2>1, <2>2, <2>5 DEF ClaimsItsKey, Holds, KeyedKind, InventoryKind
    <3> QED BY <3>1, <3>2, <3>3
  <2> QED BY <1>1, <1>4, <2>3, <2>4, <2>5, DecideStep
<1> QED BY <1>3, <1>4 DEF WriteName

LEMMA ModerationDecides ==
  ASSUME Inv, NEW w \in Worker, ModerationDecide(w) \/ DeleteProductPost(w)
  PROVE  Effect(w)
<1>1. pc[w] = "lock" /\ pc[w] # "idle" /\ Locked(w)
  BY DEF ModerationDecide, DeleteProductPost, At
<1>2. TypeOK BY DEF Inv
<1>3. req[w].verdict \in Status BY <1>1, <1>2, RequestType DEF Status
<1>4. CASE ModerationDecide(w)
  <2>1. req[w].kind = "moderation"
        /\ \E events : Decide(w, req[w].verdict, events, "commit")
    BY <1>4 DEF ModerationDecide, At
  <2> QED BY <1>1, <1>3, <2>1, ProductDecision DEF SellerKind
<1>5. CASE DeleteProductPost(w)
  <2>1. req[w].kind = "delete_product"
        /\ \E events : Decide(w, Undecided, events, "commit")
    BY <1>5 DEF DeleteProductPost, At
  <2> QED BY <1>1, <2>1, ProductDecision DEF SellerKind
<1> QED BY <1>4, <1>5

LEMMA InvoiceReadStep ==
  ASSUME Inv, NEW w \in Worker, InvoiceRead(w)
  PROVE  Effect(w)
<1>1. pc[w] = "read" /\ pc[w] # "idle" /\ req[w].kind = "invoice"
  BY DEF InvoiceRead, At
<1>2. TypeOK /\ SessionOK(w) BY DEF Inv
<1>3. CASE Refuse(w, "refused") BY <1>1, <1>3, RefuseStep DEF Reply
<1>4. CASE Decide(w, Undecided, {}, "commit")
  <2>1. found[w] = {}
    BY <1>1, <1>2 DEF SessionOK, QueriesItsRequest, SkuKind, InventoryKind
  <2>2. req'[w].kind = "invoice" BY <1>1, <1>4 DEF Decide
  <2>3. ASSUME pc'[w] = "commit"
        PROVE  Checked(w)' /\ HoldsItsProduct(w)' /\ ClaimsItsKey(w)'
    BY <2>2, <2>3 DEF Checked, HoldsItsProduct, ClaimsItsKey, Holds, SellerKind,
                KeyedKind, InventoryKind
  <2> QED BY <1>1, <1>4, <2>1, <2>3, DecideStep
<1> QED BY <1>3, <1>4 DEF InvoiceRead

-----------------------------------------------------------------------------
\* Keys, unlocked reads and foreign keys.

\* A step that claims the worker's free key, and moves on to stage `next' with
\* the session as it is but for the query it may start.
LEMMA ClaimStep ==
  ASSUME Inv, NEW w \in Worker, pc[w] = "insert", req[w].kind \in KeyedKind,
         NEW stage \in {"lock", "commit"},
         Op(w) \notin ops, claim[Op(w)] = Nobody,
         claim' = [claim EXCEPT ![Op(w)] = w],
         pc' = [pc EXCEPT ![w] = stage],
         scan' = scan \/ StartQuery(w, req[w]),
         stage = "commit" => req[w].kind \in {"reserve", "unreserve"} /\ scan' = scan,
         UNCHANGED <<tables, holder, sharers, req, reply, found, seenSku, seenProduct,
                     decision>>
  PROVE  Effect(w)
<1>1. TypeOK /\ SessionOK(w) /\ pc[w] # "idle" BY DEF Inv
<1>2. Op(w) \in OpId
  BY <1>1, RequestType DEF Op, OpId
<1>3. /\ scan' \in [Worker -> Seq(SkuId \union CategoryId)]
      /\ \A v \in Worker \ {w} : scan'[v] = scan[v]
      /\ \A i \in 1..Len(scan'[w]) : scan'[w][i] \in Reach(req[w])
  <2>1. CASE scan' = scan
    BY <1>1, <2>1 DEF TypeOK, SessionOK, QueriesItsRequest
  <2>2. CASE StartQuery(w, req[w])
    BY <1>1, <2>2, StartQueryScan, RequestType
  <2> QED BY <2>1, <2>2
<1>4. TableTypes' /\ TableFrame(w) BY TablesKept
<1>5. LockTypes' BY <1>1, <1>2 DEF TypeOK, LockTypes
<1>6. pc'[w] = stage /\ \A v \in Worker \ {w} : pc'[v] = pc[v]
  BY <1>1 DEF TypeOK
<1>7. SessionTypes'
  <2>1. pc' \in [Worker -> Stage] BY <1>1 DEF TypeOK, Stage
  <2>2. ASSUME NEW v \in Worker
        PROVE  /\ pc'[v] = "idle" <=> req'[v] = NoRequest
               /\ pc'[v] \in {"idle", "answered"} => scan'[v] = <<>> /\ found'[v] = {}
    BY <1>1, <1>3, <1>6 DEF TypeOK
  <2> QED BY <1>1, <1>3, <2>1, <2>2 DEF TypeOK, SessionTypes
<1>8. Others(w)
  <2>1. ASSUME NEW v \in Worker \ {w}, NEW o \in OpId
        PROVE  claim'[o] = v <=> claim[o] = v
    <3>1. Nobody # v BY WorkerAssumption
    <3> QED BY <1>1, <1>2, <3>1 DEF TypeOK
  <2> QED BY <1>3, <1>6, <2>1 DEF Others
<1>9. ReadsProtected(w)' BY <1>1 DEF SessionOK, ReadsProtected, Live, tables
<1>10. HoldsWhatItFound(w)' BY <1>1, <1>6 DEF SessionOK, HoldsWhatItFound
<1>11. QueriesItsRequest(w)'
  BY <1>1, <1>3, <1>6 DEF SessionOK, QueriesItsRequest
<1>12. HoldsProducts(w)' BY <1>1, <1>6 DEF SessionOK, HoldsProducts
<1>13. Checked(w)'
  <2>1. ReserveFailures(w)' = ReserveFailures(w) /\ ReturnFailures(w)' = ReturnFailures(w)
    BY DEF ReserveFailures, ReturnFailures, ProductBlocked
  <2> QED BY <1>1, <1>6, <2>1 DEF SessionOK, Checked, Holds, SellerKind
<1>14. HoldsItsProduct(w)' BY <1>6 DEF HoldsItsProduct, Holds, SellerKind
<1>15. ClaimsItsKey(w)'
  <2>1. claim'[Op(w)] = w BY <1>1, <1>2 DEF TypeOK
  <2> QED BY <2>1 DEF ClaimsItsKey, Op, tables
<1> QED BY <1>4, <1>5, <1>7, <1>8, <1>9, <1>10, <1>11, <1>12, <1>13, <1>14, <1>15
    DEF Effect, SessionOK

LEMMA InsertSteps ==
  ASSUME Inv, NEW w \in Worker,
         InsertOperation(w) \/ FulfillGetOrCreate(w) \/ InsertProcessedEvent(w)
  PROVE  Effect(w)
<1>1. /\ pc[w] = "insert" /\ pc[w] # "idle" /\ claim[Op(w)] = Nobody
      /\ req[w].kind \in KeyedKind
  BY DEF InsertOperation, FulfillGetOrCreate, InsertProcessedEvent, At, KeyedKind,
         InventoryKind
<1>2. CASE \E code \in Reply : Refuse(w, code) BY <1>1, <1>2, RefuseStep
<1>3. CASE InsertOperation(w) /\ ~(\E code \in Reply : Refuse(w, code))
  BY <1>1, <1>3, ClaimStep
  DEF InsertOperation, At, Go, Recorded, session, Reply
<1>4. CASE FulfillGetOrCreate(w) /\ ~(\E code \in Reply : Refuse(w, code))
  BY <1>1, <1>4, ClaimStep
  DEF FulfillGetOrCreate, At, Go, StartQuery, Recorded, Reply
<1>5. CASE InsertProcessedEvent(w) /\ ~(\E code \in Reply : Refuse(w, code))
  BY <1>1, <1>5, ClaimStep
  DEF InsertProcessedEvent, At, Go, session, Reply
<1> QED BY <1>2, <1>3, <1>4, <1>5

LEMMA LookUpStep ==
  ASSUME Inv, NEW w \in Worker, LookUpOperation(w)
  PROVE  Effect(w)
<1>1. /\ pc[w] = "lookup" /\ pc[w] # "idle"
      /\ req[w].kind \in {"reserve", "unreserve"}
  BY DEF LookUpOperation, At
<1>2. CASE Refuse(w, "replay") BY <1>1, <1>2, RefuseStep DEF Reply
<1>3. CASE /\ StartQuery(w, req[w])
           /\ UNCHANGED <<tables, locks, req, found, seenSku, seenProduct, decision>>
  <2>1. TypeOK /\ SessionOK(w) BY DEF Inv
  <2>2. pc' = [pc EXCEPT ![w] = "lock"] /\ reply' = reply
    BY <1>3 DEF StartQuery, Go
  <2>3. /\ scan' \in [Worker -> Seq(SkuId \union CategoryId)]
        /\ \A v \in Worker \ {w} : scan'[v] = scan[v]
        /\ \A i \in 1..Len(scan'[w]) : scan'[w][i] \in Reach(req[w])
    BY <1>1, <1>3, <2>1, StartQueryScan, RequestType
  <2>4. TableTypes' /\ TableFrame(w) /\ LockTypes' /\ Others(w)
    BY <1>3, <2>1, <2>2, <2>3, TablesKept DEF locks, LockTypes, Others, TypeOK
  <2>5. pc'[w] = "lock" /\ \A v \in Worker \ {w} : pc'[v] = pc[v]
    BY <2>1, <2>2 DEF TypeOK
  <2>6. SessionTypes'
    <3>1. pc' \in [Worker -> Stage] BY <2>1, <2>2 DEF TypeOK, Stage
    <3>2. ASSUME NEW v \in Worker
          PROVE  /\ pc'[v] = "idle" <=> req'[v] = NoRequest
                 /\ pc'[v] \in {"idle", "answered"} =>
                      scan'[v] = <<>> /\ found'[v] = {}
      BY <1>1, <1>3, <2>1, <2>3, <2>5 DEF TypeOK
    <3> QED BY <1>3, <2>1, <2>2, <2>3, <3>1, <3>2 DEF TypeOK, SessionTypes
  <2>7. ReadsProtected(w)' /\ HoldsWhatItFound(w)'
    BY <1>3, <2>1, <2>5
    DEF SessionOK, ReadsProtected, HoldsWhatItFound, Live, tables, locks
  <2>8. QueriesItsRequest(w)'
    BY <1>3, <2>1, <2>3, <2>5, <1>1 DEF SessionOK, QueriesItsRequest
  <2>9. HoldsProducts(w)' /\ Checked(w)' /\ HoldsItsProduct(w)' /\ ClaimsItsKey(w)'
    BY <1>1, <1>3, <2>5
    DEF HoldsProducts, Checked, HoldsItsProduct, ClaimsItsKey, Holds
  <2> QED BY <2>4, <2>6, <2>7, <2>8, <2>9 DEF Effect, SessionOK
<1> QED BY <1>2, <1>3 DEF LookUpOperation

LEMMA DeleteProductReadStep ==
  ASSUME Inv, NEW w \in Worker, DeleteProductRead(w)
  PROVE  Effect(w)
<1>1. pc[w] = "read" /\ pc[w] # "idle" /\ req[w].kind = "delete_product"
  BY DEF DeleteProductRead, At
<1>2. CASE Refuse(w, "refused") BY <1>1, <1>2, RefuseStep DEF Reply
<1>3. CASE /\ seenProduct' = [seenProduct EXCEPT
                ![w][req[w].product] = productRow[req[w].product]]
           /\ Go(w, "lock")
           /\ UNCHANGED <<tables, locks, req, scan, found, seenSku, decision>>
  <2>1. TypeOK /\ SessionOK(w) BY DEF Inv
  <2>2. pc' = [pc EXCEPT ![w] = "lock"] /\ reply' = reply BY <1>3 DEF Go
  <2>3. req[w].product \in ProductId BY <1>1, <2>1, RequestType
  <2>4. seenProduct' \in [Worker -> [ProductId -> ProductRow]]
    BY <1>3, <2>1, <2>3 DEF TypeOK
  <2>5. TableTypes' /\ TableFrame(w) /\ LockTypes' /\ Others(w)
    BY <1>3, <2>1, <2>2, TablesKept DEF locks, LockTypes, Others, TypeOK
  <2>6. pc'[w] = "lock" /\ \A v \in Worker \ {w} : pc'[v] = pc[v]
    BY <2>1, <2>2 DEF TypeOK
  <2>7. SessionTypes'
    <3>1. pc' \in [Worker -> Stage] BY <2>1, <2>2 DEF TypeOK, Stage
    <3>2. ASSUME NEW v \in Worker
          PROVE  /\ pc'[v] = "idle" <=> req'[v] = NoRequest
                 /\ pc'[v] \in {"idle", "answered"} =>
                      scan'[v] = <<>> /\ found'[v] = {}
      BY <1>1, <1>3, <2>1, <2>6 DEF TypeOK
    <3> QED BY <1>3, <2>1, <2>2, <2>4, <3>1, <3>2 DEF TypeOK, SessionTypes
  <2>8. ReadsProtected(w)' /\ HoldsWhatItFound(w)'
    BY <1>1, <1>3, <2>1, <2>6
    DEF SessionOK, ReadsProtected, HoldsWhatItFound, Live, tables, locks
  <2>9. QueriesItsRequest(w)'
    BY <1>1, <1>3, <2>1, <2>6 DEF SessionOK, QueriesItsRequest
  <2>10. HoldsProducts(w)' /\ Checked(w)' /\ HoldsItsProduct(w)' /\ ClaimsItsKey(w)'
    BY <1>1, <1>3, <2>6
    DEF HoldsProducts, Checked, HoldsItsProduct, ClaimsItsKey, Holds
  <2> QED BY <2>5, <2>7, <2>8, <2>9, <2>10 DEF Effect, SessionOK
<1> QED BY <1>2, <1>3 DEF DeleteProductRead

LEMMA CheckReferenceStep ==
  ASSUME Inv, NEW w \in Worker, CheckReference(w)
  PROVE  Effect(w)
<1>1. pc[w] = "commit" /\ pc[w] # "idle" BY DEF CheckReference
<1>2. TypeOK /\ SessionOK(w) BY DEF Inv
<1>3. CASE Refuse(w, "error") BY <1>1, <1>3, RefuseStep DEF Reply
<1>4. ASSUME NEW row, sharers' = [sharers EXCEPT ![row] = @ \union {w}],
             UNCHANGED <<tables, holder, claim, session, pc, reply>>
      PROVE  Effect(w)
  <2>1. TableTypes' /\ TableFrame(w) BY <1>4, TablesKept
  <2>2. LockTypes' BY <1>2, <1>4 DEF TypeOK, LockTypes
  <2>3. SessionTypes' BY <1>2, <1>4 DEF TypeOK, SessionTypes, session
  <2>4. Others(w) BY <1>4 DEF Others, session
  <2>5. SessionOK(w)'
    <3>1. ReadsProtected(w)' /\ HoldsWhatItFound(w)' /\ QueriesItsRequest(w)'
          /\ HoldsProducts(w)'
      BY <1>2, <1>4
      DEF SessionOK, ReadsProtected, HoldsWhatItFound, QueriesItsRequest, HoldsProducts,
          Live, tables, session
    <3>2. Checked(w)'
      BY <1>2, <1>4 DEF SessionOK, Checked, Holds, session, ReserveFailures,
                        ReturnFailures, ProductBlocked, Forbidden, Product
    <3>3. HoldsItsProduct(w)' /\ ClaimsItsKey(w)'
      BY <1>2, <1>4 DEF SessionOK, HoldsItsProduct, ClaimsItsKey, Holds, Op, tables,
                        session
    <3> QED BY <3>1, <3>2, <3>3 DEF SessionOK
  <2> QED BY <2>1, <2>2, <2>3, <2>4, <2>5 DEF Effect
<1> QED BY <1>3, <1>4 DEF CheckReference

-----------------------------------------------------------------------------
\* Commits.

\* An inventory request about to be committed holds the SKU rows it writes, and
\* the stock allows it.
LEMMA InventoryReady ==
  ASSUME Inv, NEW w \in Worker, pc[w] = "commit", req[w].kind \in InventoryKind
  PROVE  /\ \A s \in req[w].skus :
              /\ s \in SkuId /\ holder[s] = w /\ skuRow[s].state = "live"
              /\ seenSku[w][s] = skuRow[s] /\ skuRow[s] \in SkuRow
              /\ req[w].qty[s] \in Nat
              /\ req[w].kind = "reserve" =>
                   /\ skuRow[s].active >= req[w].qty[s]
                   /\ productRow[ProductOf[s]].status \notin {"BLOCKED", "HARD_BLOCKED"}
              /\ req[w].kind # "reserve" => skuRow[s].reserved >= req[w].qty[s]
         /\ Op(w) \in OpId /\ Op(w) \notin ops /\ claim[Op(w)] = w
<1>1. TypeOK /\ SessionOK(w) /\ pc[w] # "idle" BY DEF Inv
<1>2. ASSUME NEW s \in req[w].skus
      PROVE  /\ s \in SkuId /\ s \in found[w] /\ req[w].qty[s] \in Nat
             /\ skuRow[s] \in SkuRow
             /\ req[w].kind = "reserve" =>
                  ~ProductBlocked(w, s) /\ ~(seenSku[w][s].active < req[w].qty[s])
             /\ req[w].kind # "reserve" => ~(seenSku[w][s].reserved < req[w].qty[s])
  <2>1. s \in SkuId /\ req[w].qty[s] \in Nat /\ skuRow[s] \in SkuRow
    BY <1>1, <1>2, RequestType DEF TypeOK
  <2>2. req[w].kind = "reserve" => ReserveFailures(w) = {}
    BY <1>1 DEF SessionOK, Checked, Holds
  <2>3. req[w].kind # "reserve" => ReturnFailures(w) = {}
    BY <1>1 DEF SessionOK, Checked, Holds, InventoryKind
  <2> QED BY <1>2, <2>1, <2>2, <2>3 DEF ReserveFailures, ReturnFailures
<1>3. ASSUME NEW s \in req[w].skus
      PROVE  /\ holder[s] = w /\ skuRow[s].state = "live" /\ seenSku[w][s] = skuRow[s]
             /\ seenProduct[w][ProductOf[s]] = productRow[ProductOf[s]]
  <2>1. holder[s] = w /\ skuRow[s].state = "live" /\ seenSku[w][s] = skuRow[s]
    BY <1>1, <1>2 DEF SessionOK, ReadsProtected, Live
  <2>2. holder[ProductOf[s]] = w BY <1>1, <1>2 DEF SessionOK, HoldsProducts
  <2>3. ProductOf[s] \in ProductId BY <1>2, RowsAssumption
  <2> QED BY <1>1, <2>1, <2>2, <2>3 DEF SessionOK, ReadsProtected, InventoryKind
<1>4. Op(w) \in OpId BY <1>1, RequestType DEF Op, OpId, KeyedKind
<1>5. Op(w) \notin ops /\ claim[Op(w)] = w
  BY <1>1 DEF SessionOK, ClaimsItsKey, Holds, KeyedKind
<1>6. ASSUME NEW s \in req[w].skus
      PROVE  /\ req[w].kind = "reserve" => skuRow[s].active >= req[w].qty[s]
             /\ req[w].kind # "reserve" => skuRow[s].reserved >= req[w].qty[s]
  <2>1. skuRow[s].active \in Nat /\ skuRow[s].reserved \in Nat BY <1>2 DEF SkuRow
  <2> QED BY <1>2, <1>3, <2>1
<1>7. ASSUME NEW s \in req[w].skus
      PROVE  req[w].kind = "reserve" =>
               productRow[ProductOf[s]].status \notin {"BLOCKED", "HARD_BLOCKED"}
  BY <1>2, <1>3 DEF ProductBlocked
<1> QED BY <1>2, <1>3, <1>4, <1>5, <1>6, <1>7

\* The quantities an inventory commit writes are quantities.
LEMMA SaveStep ==
  ASSUME Inv, NEW w \in Worker, pc[w] = "commit",
         \/ req[w].kind = "reserve" /\ SaveQuantities(w, -1, 1)
         \/ req[w].kind = "unreserve" /\ SaveQuantities(w, 1, -1)
         \/ req[w].kind = "fulfill" /\ SaveQuantities(w, 0, -1)
  PROVE  TableTypes' /\ TableFrame(w)
<1>1. TypeOK BY DEF Inv
<1>2. req[w].kind \in InventoryKind BY DEF InventoryKind
<1>3. /\ UNCHANGED <<productRow, reports, invoiced, index, categoryOf>>
      /\ ops' = ops \union {Op(w)}
  BY DEF SaveQuantities
<1>4. \A s \in SkuId : s \notin req[w].skus => skuRow'[s] = skuRow[s]
  BY <1>1 DEF SaveQuantities
<1>5. ASSUME NEW s \in SkuId PROVE skuRow'[s] \in SkuRow
  <2>1. CASE s \notin req[w].skus BY <1>1, <1>4, <2>1 DEF TypeOK
  <2>2. CASE s \in req[w].skus
    <3>1. /\ skuRow[s] \in SkuRow /\ skuRow[s].active \in Nat
          /\ skuRow[s].reserved \in Nat /\ req[w].qty[s] \in Nat
          /\ seenSku[w][s] = skuRow[s]
          /\ req[w].kind = "reserve" => skuRow[s].active >= req[w].qty[s]
          /\ req[w].kind # "reserve" => skuRow[s].reserved >= req[w].qty[s]
      BY <1>2, <2>2, InventoryReady DEF SkuRow
    <3>2. PICK x \in Nat, y \in Nat :
            skuRow'[s] = [skuRow[s] EXCEPT !.active = x, !.reserved = y]
      <4>1. CASE req[w].kind = "reserve" /\ SaveQuantities(w, -1, 1)
        <5>1. skuRow'[s] = [skuRow[s] EXCEPT
                !.active = skuRow[s].active + (-1) * req[w].qty[s],
                !.reserved = skuRow[s].reserved + 1 * req[w].qty[s]]
          BY <2>2, <3>1, <4>1 DEF SaveQuantities
        <5>2. /\ skuRow[s].active + (-1) * req[w].qty[s] \in Nat
              /\ skuRow[s].reserved + 1 * req[w].qty[s] \in Nat
          BY <3>1, <4>1
        <5> QED BY <5>1, <5>2
      <4>2. CASE req[w].kind = "unreserve" /\ SaveQuantities(w, 1, -1)
        <5>1. skuRow'[s] = [skuRow[s] EXCEPT
                !.active = skuRow[s].active + 1 * req[w].qty[s],
                !.reserved = skuRow[s].reserved + (-1) * req[w].qty[s]]
          BY <2>2, <3>1, <4>2 DEF SaveQuantities
        <5>2. /\ skuRow[s].active + 1 * req[w].qty[s] \in Nat
              /\ skuRow[s].reserved + (-1) * req[w].qty[s] \in Nat
          BY <3>1, <4>2
        <5> QED BY <5>1, <5>2
      <4>3. CASE req[w].kind = "fulfill" /\ SaveQuantities(w, 0, -1)
        <5>1. skuRow'[s] = [skuRow[s] EXCEPT
                !.active = skuRow[s].active + 0 * req[w].qty[s],
                !.reserved = skuRow[s].reserved + (-1) * req[w].qty[s]]
          BY <2>2, <3>1, <4>3 DEF SaveQuantities
        <5>2. /\ skuRow[s].active + 0 * req[w].qty[s] \in Nat
              /\ skuRow[s].reserved + (-1) * req[w].qty[s] \in Nat
          BY <3>1, <4>3
        <5> QED BY <5>1, <5>2
      <4> QED BY <4>1, <4>2, <4>3
    <3> QED BY <3>1, <3>2 DEF SkuRow
  <2> QED BY <2>1, <2>2
<1>6. skuRow' \in [SkuId -> SkuRow] BY <1>5 DEF SaveQuantities
<1>7. TableTypes' BY <1>1, <1>2, <1>3, <1>6, InventoryReady DEF TypeOK, TableTypes
<1>8. TableFrame(w)
  BY <1>2, <1>3, <1>4, InventoryReady DEF TableFrame
<1> QED BY <1>7, <1>8

LEMMA InventoryCommits ==
  ASSUME Inv, NEW w \in Worker,
         CommitReserve(w) \/ CommitUnreserve(w) \/ CommitFulfill(w)
  PROVE  Effect(w)
<1>1. TypeOK BY DEF Inv
<1>2. /\ pc[w] = "commit" /\ pc[w] # "idle"
      /\ \/ req[w].kind = "reserve" /\ SaveQuantities(w, -1, 1)
         \/ req[w].kind = "unreserve" /\ SaveQuantities(w, 1, -1)
         \/ req[w].kind = "fulfill" /\ SaveQuantities(w, 0, -1)
  BY DEF CommitReserve, CommitUnreserve, CommitFulfill, Committing, At
<1>3. TableTypes' /\ TableFrame(w) BY <1>2, SaveStep
<1>4. CASE Answer(w, "ok") BY <1>2, <1>3, <1>4, AnswerStep DEF Reply, Effect
<1>5. CASE /\ Go(w, "notify") /\ ReleaseAll(w) /\ Forget(w) /\ UNCHANGED req
  <2>1. pc' = [pc EXCEPT ![w] = "notify"] /\ reply' = reply BY <1>5 DEF Go
  <2>2. pc'[w] = "notify" /\ \A v \in Worker \ {w} : pc'[v] = pc[v]
    BY <1>1, <2>1 DEF TypeOK
  <2>3. LockTypes' /\ SessionOK(w)' /\ Others(w)
    BY <1>5, <2>2, Ended, OthersAfterEnd
  <2>4. SessionTypes'
    <3>1. pc' \in [Worker -> Stage] BY <1>1, <2>1 DEF TypeOK, Stage
    <3>2. ASSUME NEW v \in Worker
          PROVE  /\ pc'[v] = "idle" <=> req'[v] = NoRequest
                 /\ pc'[v] \in {"idle", "answered"} =>
                      scan'[v] = <<>> /\ found'[v] = {}
      BY <1>1, <1>2, <1>5, <2>2, ForgetTypes DEF TypeOK
    <3> QED BY <1>1, <1>5, <2>1, <3>1, <3>2, ForgetTypes DEF TypeOK, SessionTypes
  <2> QED BY <1>3, <2>3, <2>4 DEF Effect
<1> QED BY <1>4, <1>5 DEF CommitReserve, CommitUnreserve, CommitFulfill

LEMMA NotifyStep ==
  ASSUME Inv, NEW w \in Worker, NotifySoldOut(w)
  PROVE  Effect(w)
<1>1. pc[w] # "idle" /\ Answer(w, "ok") /\ UNCHANGED tables
  BY DEF NotifySoldOut, At
<1> QED BY <1>1, AnswerStep, TablesKept DEF Reply, Effect

\* A seller's or moderation's commit holds the product it writes.
LEMMA ProductReady ==
  ASSUME Inv, NEW w \in Worker, pc[w] = "commit",
         req[w].kind \in SellerKind \union {"delete_product", "moderation"}
  PROVE  /\ req[w].product \in ProductId /\ holder[req[w].product] = w
         /\ req[w].kind # "delete_product" => decision[w] \in Status
         /\ Product(w) \in ProductRow
<1>1. TypeOK /\ SessionOK(w) /\ pc[w] # "idle" BY DEF Inv
<1>2. req[w].product \in ProductId BY <1>1, RequestType
<1>3. holder[req[w].product] = w BY <1>1 DEF SessionOK, HoldsItsProduct, Holds
<1>4. req[w].kind # "delete_product" => decision[w] \in Status
  BY <1>1 DEF SessionOK, Checked, Holds
<1> QED BY <1>1, <1>2, <1>3, <1>4 DEF Product, TypeOK

LEMMA SaveStatusStep ==
  ASSUME Inv, NEW w \in Worker, pc[w] = "commit", SaveStatus(w),
         req[w].kind \in {"create_sku", "update_sku", "delete_sku"}
  PROVE  /\ productRow' \in [ProductId -> ProductRow]
         /\ \A p \in ProductId : productRow'[p] # productRow[p] => holder[p] = w
<1>1. TypeOK BY DEF Inv
<1>2. req[w].product \in ProductId /\ holder[req[w].product] = w /\ decision[w] \in Status
  BY ProductReady DEF SellerKind
<1>3. productRow \in [ProductId -> ProductRow] BY <1>1 DEF TypeOK
<1>4. [productRow[req[w].product] EXCEPT !.status = decision[w]] \in ProductRow
  BY <1>2, <1>3 DEF ProductRow
<1>5. productRow' = [productRow EXCEPT
        ![req[w].product] = [productRow[req[w].product] EXCEPT !.status = decision[w]]]
  BY DEF SaveStatus
<1> QED BY <1>2, <1>3, <1>4, <1>5

LEMMA GiveNameType ==
  ASSUME TypeOK, NEW w, NEW row \in Owner, GiveName(w, row)
  PROVE  index' \in [Name -> Owner]
BY DEF TypeOK, GiveName, Owner

LEMMA SkuCommits ==
  ASSUME Inv, NEW w \in Worker,
         CommitCreateSku(w) \/ CommitUpdateSku(w) \/ CommitDeleteSku(w)
  PROVE  Effect(w)
<1>1. TypeOK /\ SessionOK(w) BY DEF Inv
<1>2. /\ pc[w] = "commit" /\ pc[w] # "idle" /\ Answer(w, "ok")
      /\ req[w].kind \in {"create_sku", "update_sku", "delete_sku"}
      /\ SaveStatus(w) /\ ops' = ops /\ invoiced' = invoiced /\ categoryOf' = categoryOf
  BY DEF CommitCreateSku, CommitUpdateSku, CommitDeleteSku, Committing, At
<1>3. /\ productRow' \in [ProductId -> ProductRow]
      /\ \A p \in ProductId : productRow'[p] # productRow[p] => holder[p] = w
  BY <1>2, SaveStatusStep
<1>4. reports' \in [ProductId -> SUBSET (SkuId \union {WholeProduct})]
  BY <1>1 DEF CommitCreateSku, CommitUpdateSku, CommitDeleteSku, TypeOK
<1>5. ASSUME NEW s \in SkuId
      PROVE  /\ skuRow'[s] \in SkuRow
             /\ skuRow'[s] # skuRow[s] =>
                  \/ holder[s] = w
                  \/ skuRow[s].state = "unborn" /\ holder[ProductOf[s]] = w
  <2>1. CASE CommitCreateSku(w)
    <3>1. req[w].kind = "create_sku" BY <2>1 DEF CommitCreateSku, Committing, At
    <3>2. s \in req[w].skus =>
            skuRow[s].state = "unborn" /\ ProductOf[s] = req[w].product
      BY <1>1, <1>2, <3>1, RequestType, RequestAssumption
      DEF SessionOK, HoldsItsProduct, Holds
    <3>3. holder[req[w].product] = w BY <1>2, <3>1, ProductReady DEF SellerKind
    <3>4. [Row0 EXCEPT !.state = "live"] \in SkuRow BY DEF Row0, SkuRow
    <3> QED BY <1>1, <2>1, <3>2, <3>3, <3>4 DEF CommitCreateSku, TypeOK
  <2>2. CASE CommitUpdateSku(w)
    BY <1>1, <2>2 DEF CommitUpdateSku, TypeOK, SessionOK, ReadsProtected
  <2>3. CASE CommitDeleteSku(w)
    <3>1. [Row0 EXCEPT !.state = "deleted"] \in SkuRow BY DEF Row0, SkuRow
    <3> QED BY <1>1, <2>3, <3>1 DEF CommitDeleteSku, TypeOK, SessionOK, ReadsProtected
  <2> QED BY <2>1, <2>2, <2>3
<1>6. skuRow' \in [SkuId -> SkuRow]
  BY <1>5 DEF CommitCreateSku, CommitUpdateSku, CommitDeleteSku
<1>8. index' \in [Name -> Owner]
  <2>1. CASE CommitCreateSku(w) \/ CommitUpdateSku(w)
    <3>1. \E s \in SkuId : GiveName(w, s)
      BY <1>1, <1>2, <2>1, RequestType DEF CommitCreateSku, CommitUpdateSku
    <3> QED BY <1>1, <3>1, GiveNameType DEF Owner
  <2>2. CASE CommitDeleteSku(w)
    BY <1>1, <2>2 DEF CommitDeleteSku, TypeOK, Owner
  <2> QED BY <2>1, <2>2
<1>7. TableTypes' /\ TableFrame(w)
  BY <1>1, <1>2, <1>3, <1>4, <1>5, <1>6, <1>8 DEF TypeOK, TableTypes, TableFrame
<1> QED BY <1>2, <1>7, AnswerStep DEF Reply, Effect

LEMMA ProductCommits ==
  ASSUME Inv, NEW w \in Worker,
         CommitUpdateProduct(w) \/ CommitDeleteProduct(w) \/ CommitModeration(w)
  PROVE  Effect(w)
<1>1. TypeOK /\ SessionOK(w) BY DEF Inv
<1>2. /\ pc[w] = "commit" /\ pc[w] # "idle" /\ Answer(w, "ok")
      /\ req[w].kind \in {"update_product", "delete_product", "moderation"}
      /\ skuRow' = skuRow /\ invoiced' = invoiced
  BY DEF CommitUpdateProduct, CommitDeleteProduct, CommitModeration, Committing, At
<1> DEFINE p == req[w].product
<1>3. /\ p \in ProductId /\ holder[p] = w /\ Product(w) \in ProductRow
      /\ productRow[p] \in ProductRow
      /\ req[w].kind # "delete_product" => decision[w] \in Status
  BY <1>1, <1>2, ProductReady DEF SellerKind, TypeOK
<1>4. PICK row \in ProductRow : productRow' = [productRow EXCEPT ![p] = row]
  <2>1. CASE CommitUpdateProduct(w)
    <3>1. [Product(w) EXCEPT !.status = decision[w]] \in ProductRow
      BY <1>3, <2>1 DEF ProductRow, CommitUpdateProduct, Committing, At
    <3> QED BY <2>1, <3>1 DEF CommitUpdateProduct
  <2>2. CASE CommitDeleteProduct(w)
    <3>1. productRow' = [productRow EXCEPT ![p] = [productRow[p] EXCEPT !.deleted = TRUE]]
      BY <1>1, <1>3, <2>2 DEF CommitDeleteProduct, TypeOK
    <3>2. [productRow[p] EXCEPT !.deleted = TRUE] \in ProductRow
      BY <1>3 DEF ProductRow
    <3> QED BY <3>1, <3>2
  <2>3. CASE CommitModeration(w)
    <3>1. productRow' = [productRow EXCEPT ![p] =
            [productRow[p] EXCEPT !.status = decision[w], !.reason = Blocking(w)]]
      BY <1>1, <1>3, <2>3 DEF CommitModeration, TypeOK, ProductRow
    <3>2. [productRow[p] EXCEPT !.status = decision[w], !.reason = Blocking(w)]
            \in ProductRow
      BY <1>3, <2>3 DEF ProductRow, CommitModeration, Committing, At, Blocking
    <3> QED BY <3>1, <3>2
  <2> QED BY <2>1, <2>2, <2>3
<1>5. reports' \in [ProductId -> SUBSET (SkuId \union {WholeProduct})]
  <2>1. CASE CommitUpdateProduct(w) \/ CommitDeleteProduct(w)
    BY <1>1, <2>1 DEF CommitUpdateProduct, CommitDeleteProduct, TypeOK
  <2>2. CASE CommitModeration(w)
    <3>1. req[w].reports \subseteq SkuId \union {WholeProduct}
      BY <1>1, <1>2, RequestType
    <3>2. ReportsOf(w) \subseteq SkuId \union {WholeProduct}
      BY <3>1 DEF ReportsOf
    <3> DEFINE new == IF Blocking(w) THEN ReportsOf(w) ELSE {}
    <3>3. new \subseteq SkuId \union {WholeProduct} BY <3>2
    <3>4. reports' = [reports EXCEPT ![p] = new] BY <2>2 DEF CommitModeration
    <3> HIDE DEF new
    <3> QED BY <1>1, <1>3, <3>3, <3>4 DEF TypeOK
  <2> QED BY <2>1, <2>2
<1>6. ops' = ops \/ (ops' = ops \union {Op(w)} /\ req[w].kind = "moderation")
  BY DEF CommitUpdateProduct, CommitDeleteProduct, CommitModeration, Committing, At
<1>7. req[w].kind = "moderation" => Op(w) \in OpId /\ claim[Op(w)] = w
  BY <1>1, <1>2, RequestType DEF Op, OpId, KeyedKind, SessionOK, ClaimsItsKey, Holds
<1>9. index' \in [Name -> Owner] /\ categoryOf' \in [ProductId -> CategoryId]
  <2>1. CASE CommitUpdateProduct(w)
    <3>1. p \in Owner /\ GiveName(w, p) BY <1>3, <2>1 DEF CommitUpdateProduct, Owner
    <3>2. req[w].category \subseteq CategoryId BY <1>1, <1>2, RequestType
    <3>3. CASE categoryOf' = categoryOf
      BY <1>1, <3>1, <3>3, GiveNameType DEF TypeOK
    <3>4. CASE \E c \in req[w].category : categoryOf' = [categoryOf EXCEPT ![p] = c]
      <4>1. PICK c \in CategoryId : categoryOf' = [categoryOf EXCEPT ![p] = c]
        BY <3>2, <3>4
      <4> QED BY <1>1, <3>1, <4>1, GiveNameType DEF TypeOK
    <3> QED BY <2>1, <3>3, <3>4 DEF CommitUpdateProduct
  <2>2. CASE CommitDeleteProduct(w) \/ CommitModeration(w)
    BY <1>1, <2>2 DEF CommitDeleteProduct, CommitModeration, TypeOK
  <2> QED BY <2>1, <2>2
<1>8. TableTypes' /\ TableFrame(w)
  <2>1. productRow' \in [ProductId -> ProductRow]
        /\ \A x \in ProductId : productRow'[x] # productRow[x] => holder[x] = w
    BY <1>1, <1>3, <1>4 DEF TypeOK
  <2> QED BY <1>1, <1>2, <1>5, <1>6, <1>7, <1>9, <2>1 DEF TypeOK, TableTypes, TableFrame
<1> QED BY <1>2, <1>8, AnswerStep DEF Reply, Effect

LEMMA InvoiceCommit ==
  ASSUME Inv, NEW w \in Worker, CommitInvoice(w)
  PROVE  Effect(w)
<1>1. TypeOK BY DEF Inv
<1>2. /\ pc[w] = "commit" /\ pc[w] # "idle" /\ Answer(w, "ok")
      /\ invoiced' = invoiced \union req[w].skus
      /\ UNCHANGED <<skuRow, productRow, reports, ops, index, categoryOf>>
  BY DEF CommitInvoice, Committing, At
<1>3. req[w].skus \subseteq SkuId BY <1>1, <1>2, RequestType
<1>4. TableTypes' /\ TableFrame(w)
  BY <1>1, <1>2, <1>3 DEF TypeOK, TableTypes, TableFrame
<1> QED BY <1>2, <1>4, AnswerStep DEF Reply, Effect

LEMMA CreationCommit ==
  ASSUME Inv, NEW w \in Worker, CommitCreateProduct(w)
  PROVE  Effect(w)
<1>1. TypeOK BY DEF Inv
<1>2. /\ pc[w] = "commit" /\ pc[w] # "idle" /\ Answer(w, "ok")
      /\ index' = [index EXCEPT ![req[w].name] = NewProduct]
      /\ UNCHANGED <<skuRow, productRow, reports, invoiced, ops, categoryOf>>
  BY DEF CommitCreateProduct, Committing, At
<1>3. TableTypes' /\ TableFrame(w)
  BY <1>1, <1>2 DEF TypeOK, TableTypes, TableFrame, Owner
<1> QED BY <1>2, <1>3, AnswerStep DEF Reply, Effect

-----------------------------------------------------------------------------
\* The invariant.

LEMMA DeadlockVictimStep ==
  ASSUME Inv, NEW w \in Worker, DeadlockVictim(w)
  PROVE  Effect(w)
<1>1. Refuse(w, "error") /\ \E v \in Worker : WaitsFor(w, v)
  BY DEF DeadlockVictim, DeadlockCycle, Deadlocked
<1>2. pc[w] # "idle" BY <1>1 DEF WaitsFor, WaitsForName
<1> QED BY <1>1, <1>2, RefuseStep DEF Reply

LEMMA StepEffect ==
  ASSUME Inv, NEW w \in Worker,
         (\E r \in Request : Receive(w, r)) \/ Advance(w) \/ Crash(w)
  PROVE  Effect(w)
<1>1. CASE \E r \in Request : Receive(w, r) BY <1>1, ReceiveStep
<1>2. CASE LockSku(w) \/ LockProduct(w) \/ LockSeller(w) \/ LockCategory(w)
  BY <1>2, LockSkuStep, LockProductStep, LockSellerStep, LockCategoryStep
<1>3. CASE CheckReference(w) \/ DeadlockVictim(w) \/ Return(w)
  BY <1>3, CheckReferenceStep, DeadlockVictimStep, ReturnStep
<1>4. CASE InventoryStep(w)
  BY <1>4, LookUpStep, InsertSteps, InventoryDecides, InventoryCommits, NotifyStep
  DEF InventoryStep
<1>5. CASE SkuStep(w) BY <1>5, SellerDecides, WriteNameStep, SkuCommits DEF SkuStep
<1>6. CASE ProductStep(w)
  BY <1>6, SellerDecides, DeleteProductReadStep, ModerationDecides, ProductCommits,
     InsertSteps, InvoiceReadStep, InvoiceCommit, CreationCommit
  DEF ProductStep
<1>7. CASE Crash(w) BY <1>7, CrashStep
<1> QED BY <1>1, <1>2, <1>3, <1>4, <1>5, <1>6, <1>7 DEF Advance

LEMMA InitInv == Init => Inv
<1> SUFFICES ASSUME Init PROVE Inv OBVIOUS
<1>1. TypeOK
  <2>1. TableTypes
    BY TablesAssumption DEF Init, TableTypes
  <2>2. LockTypes BY DEF Init, LockTypes
  <2>3. SessionTypes
    <3>1. [s \in SkuId |-> Row0] \in [SkuId -> SkuRow] BY DEF Row0, SkuRow
    <3> QED BY <3>1, TablesAssumption DEF Init, SessionTypes, Stage, Reply
  <2> QED BY <2>1, <2>2, <2>3, Types
<1>2. ASSUME NEW w \in Worker PROVE SessionOK(w)
  <2>1. /\ pc[w] = "idle" /\ found[w] = {} /\ scan[w] = <<>>
        /\ \A row \in Row : holder[row] # w
    BY WorkerAssumption DEF Init
  <2> QED BY <2>1
      DEF SessionOK, ReadsProtected, HoldsWhatItFound, QueriesItsRequest,
          HoldsProducts, Checked, HoldsItsProduct, ClaimsItsKey, Holds, Row
<1> QED BY <1>1, <1>2 DEF Inv

LEMMA Stutter ==
  ASSUME Inv, UNCHANGED vars PROVE Inv'
<1>1. TypeOK' BY DEF Inv, TypeOK, vars, tables, locks, session
<1>2. ASSUME NEW w \in Worker PROVE SessionOK(w)'
  BY DEF Inv, SessionOK, ReadsProtected, HoldsWhatItFound, QueriesItsRequest,
         HoldsProducts, Checked, HoldsItsProduct, ClaimsItsKey, Holds, Live, Op,
         Forbidden, Product, ReserveFailures, ReturnFailures, ProductBlocked, vars, tables,
         locks, session
<1> QED BY <1>1, <1>2 DEF Inv

\* In every reachable state, for any number of threads, rows and requests, every
\* session is where its stage says (see Inv).
THEOREM Invariance == Spec => []Inv
<1>1. Init => Inv BY InitInv
<1>2. Inv /\ [Next]_vars => Inv'
  <2> SUFFICES ASSUME Inv, [Next]_vars PROVE Inv' OBVIOUS
  <2>1. CASE Next
    <3>1. PICK w \in Worker :
            (\E r \in Request : Receive(w, r)) \/ Advance(w) \/ Crash(w)
      BY <2>1 DEF Next
    <3> QED BY <3>1, StepEffect, EffectSuffices
  <2>2. CASE UNCHANGED vars BY <2>2, Stutter
  <2> QED BY <2>1, <2>2
<1> QED BY <1>1, <1>2, PTL DEF Spec

\* Quantities never go below zero (SkuRow), statuses stay statuses: types.
THEOREM TypeCorrect == Spec => []TypeOK
<1>1. Inv => TypeOK BY DEF Inv
<1> QED BY <1>1, Invariance, PTL

\* No thread ever decides or writes from a row that another one could have
\* changed since it was read, delete_product excepted.
THEOREM ReadsStayTrue == Spec => []LocksProtectReads
<1>1. Inv => LocksProtectReads BY DEF Inv, SessionOK, LocksProtectReads
<1> QED BY <1>1, Invariance, PTL

-----------------------------------------------------------------------------
\* The SKU a handler names, and the SKU its query found, are the same one.
LEMMA OneSku ==
  ASSUME Inv, NEW w \in Worker, pc[w] # "idle",
         req[w].kind \in {"create_sku", "update_sku", "delete_sku"}
  PROVE  \E s \in SkuId : /\ req[w].skus = {s}
                          /\ found[w] \subseteq {s}
<1>1. SessionOK(w) /\ TypeOK BY DEF Inv
<1>2. PICK s \in SkuId : req[w].skus = {s} BY <1>1, RequestType, RequestAssumption
<1> QED BY <1>1, <1>2 DEF SessionOK, QueriesItsRequest

Commit(w) ==
  \/ CommitReserve(w) \/ CommitUnreserve(w) \/ CommitFulfill(w)
  \/ CommitCreateSku(w) \/ CommitUpdateSku(w) \/ CommitDeleteSku(w)
  \/ CommitCreateProduct(w) \/ CommitUpdateProduct(w) \/ CommitDeleteProduct(w)
  \/ CommitModeration(w) \/ CommitInvoice(w)

\* Only a commit changes the tables.
LEMMA OnlyCommitsWrite ==
  ASSUME NEW w \in Worker,
         (\E r \in Request : Receive(w, r)) \/ Advance(w) \/ Crash(w), ~Commit(w)
  PROVE  UNCHANGED tables
<1>1. CASE (\E r \in Request : Receive(w, r)) \/ Crash(w) BY <1>1 DEF Receive, Crash
<1>2. CASE LockSku(w) \/ LockProduct(w) \/ LockSeller(w) \/ LockCategory(w) \/ Return(w)
  BY <1>2 DEF LockSku, LockProduct, LockSeller, LockCategory, Refuse, Return
<1>3. CASE CheckReference(w) \/ DeadlockVictim(w)
  BY <1>3 DEF CheckReference, DeadlockVictim, Refuse
<1>4. CASE InventoryStep(w) /\ ~Commit(w)
  BY <1>4 DEF InventoryStep, Commit, LookUpOperation, InsertOperation,
              FulfillGetOrCreate, ReserveDecide, UnreserveDecide, FulfillDecide,
              NotifySoldOut, Conflict, Refuse, Decide
<1>5. CASE SkuStep(w) /\ ~Commit(w)
  BY <1>5 DEF SkuStep, Commit, CreateSkuDecide, UpdateSkuDecide, DeleteSkuDecide,
              WriteName, Save, SaveEdit, Refuse, Decide
<1>6. CASE ProductStep(w) /\ ~Commit(w)
  BY <1>6 DEF ProductStep, Commit, UpdateProductDecide, DeleteProductRead,
              DeleteProductPost, InsertProcessedEvent, ModerationDecide, InvoiceRead,
              Save, SaveEdit, Refuse, Decide
<1> QED BY <1>1, <1>2, <1>3, <1>4, <1>5, <1>6 DEF Advance
=============================================================================
