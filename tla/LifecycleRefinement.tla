------------------------ MODULE LifecycleRefinement ------------------------
(***************************************************************************)
(* Proofs that Marketplace implements ProductLifecycle, and what follows for *)
(* status, SKUs and reports.                                                 *)
(*                                                                           *)
(* The argument.  Whoever changes a SKU holds its product (RowFrame), so      *)
(* while a handler holds a product nobody adds, removes or moves one of its   *)
(* SKUs: what it counted when it decided is still so when it commits.  Inv is *)
(* strengthened with that (Sees, Decided) and with the three facts about the *)
(* tables, which the decisions in turn rely on.                              *)
(***************************************************************************)
EXTENDS MarketplaceProofs

-----------------------------------------------------------------------------
\* Deletion and the hard block.

StaysDeleted == \A p \in ProductId : productRow[p].deleted => productRow'[p].deleted

LEMMA StatusKeepsDeleted ==
  ASSUME TypeOK, NEW w \in Worker, NEW p \in ProductId, SaveStatus(w)
  PROVE  productRow'[p].deleted = productRow[p].deleted
<1>1. productRow[p] \in ProductRow BY DEF TypeOK
<1> QED BY <1>1 DEF SaveStatus, TypeOK, ProductRow

LEMMA CommitKeepsDeleted ==
  ASSUME Inv, NEW w \in Worker, Commit(w)
  PROVE  StaysDeleted
<1>1. TypeOK /\ SessionOK(w) BY DEF Inv
<1>2. SUFFICES ASSUME NEW p \in ProductId, productRow[p].deleted
               PROVE  productRow'[p].deleted
  BY DEF StaysDeleted
<1>3. productRow[p] \in ProductRow BY <1>1 DEF TypeOK
<1>4. CASE productRow' = productRow BY <1>2, <1>4
<1>5. CASE CommitCreateSku(w) \/ CommitUpdateSku(w) \/ CommitDeleteSku(w)
  BY <1>1, <1>2, <1>5, StatusKeepsDeleted
  DEF CommitCreateSku, CommitUpdateSku, CommitDeleteSku
<1>6. CASE CommitUpdateProduct(w)
  <2>1. /\ pc[w] = "commit" /\ req[w].kind = "update_product"
        /\ productRow' = [productRow EXCEPT
             ![req[w].product] = [Product(w) EXCEPT !.status = decision[w]]]
    BY <1>6 DEF CommitUpdateProduct, Committing, At
  <2>2. /\ req[w].product \in ProductId /\ holder[req[w].product] = w
        /\ Product(w) \in ProductRow
    BY <2>1, ProductReady DEF SellerKind
  <2>3. Product(w) = productRow[req[w].product]
    BY <1>1, <2>1, <2>2 DEF SessionOK, ReadsProtected, Product
  <2> DEFINE new == [Product(w) EXCEPT !.status = decision[w]]
  <2>4. new.deleted = Product(w).deleted BY <2>2 DEF ProductRow
  <2> HIDE DEF new
  <2>5. productRow'[p] = IF p = req[w].product THEN new ELSE productRow[p]
    BY <1>1, <2>1 DEF TypeOK, new
  <2> QED BY <1>2, <2>3, <2>4, <2>5
<1>7. CASE CommitDeleteProduct(w)
  BY <1>1, <1>2, <1>3, <1>7 DEF CommitDeleteProduct, TypeOK, ProductRow
<1>8. CASE CommitModeration(w)
  BY <1>1, <1>2, <1>3, <1>8 DEF CommitModeration, TypeOK, ProductRow
<1>9. CASE CommitReserve(w) \/ CommitUnreserve(w) \/ CommitFulfill(w) \/ CommitInvoice(w)
           \/ CommitCreateProduct(w)
  BY <1>4, <1>9 DEF CommitReserve, CommitUnreserve, CommitFulfill, CommitInvoice,
                    CommitCreateProduct, SaveQuantities
<1> QED BY <1>5, <1>6, <1>7, <1>8, <1>9 DEF Commit

\* A product once deleted stays deleted: no full-row save() of a concurrent edit
\* writes back the `deleted' it read before.
THEOREM DeletedForGood == Spec => DeletionIsFinal
<1>1. Inv /\ [Next]_vars => [StaysDeleted]_vars
  <2> SUFFICES ASSUME Inv, [Next]_vars PROVE [StaysDeleted]_vars OBVIOUS
  <2>1. CASE UNCHANGED tables BY <2>1 DEF StaysDeleted, tables
  <2>2. CASE \E w \in Worker : Commit(w) BY <2>2, CommitKeepsDeleted
  <2>3. UNCHANGED tables \/ \E w \in Worker : Commit(w)
    BY OnlyCommitsWrite DEF Next, vars
  <2> QED BY <2>1, <2>2, <2>3
<1>2. DeletionIsFinal <=> [][StaysDeleted]_vars BY DEF DeletionIsFinal, StaysDeleted
<1> QED BY <1>1, <1>2, Invariance, PTL DEF Spec

-----------------------------------------------------------------------------
LeavesHard(p) == Hard(productRow[p]) /\ ~Hard(productRow'[p])

\* A seller's commit writes the status of a product that is not HARD_BLOCKED: it
\* checked that after it had locked the product.
LEMMA SellerWritesUnblocked ==
  ASSUME Inv, NEW w \in Worker, pc[w] = "commit", req[w].kind \in SellerKind
  PROVE  /\ req[w].product \in ProductId
         /\ ~Hard(productRow[req[w].product])
<1>1. SessionOK(w) BY DEF Inv
<1>2. req[w].product \in ProductId /\ holder[req[w].product] = w BY ProductReady
<1>3. Product(w) = productRow[req[w].product]
  BY <1>1, <1>2 DEF SessionOK, ReadsProtected, Product, SellerKind
<1>4. ~Forbidden(w) BY <1>1 DEF SessionOK, Checked, Holds
<1> QED BY <1>2, <1>3, <1>4 DEF Forbidden, Hard

LEMMA OnlyVerdictsUnblock ==
  ASSUME Inv, NEW w \in Worker, Commit(w), NEW p \in ProductId, LeavesHard(p)
  PROVE  At(w, "commit", {"moderation"}) /\ req[w].product = p
<1>1. TypeOK BY DEF Inv
<1>2. productRow[p] \in ProductRow /\ Hard(productRow[p]) /\ ~Hard(productRow'[p])
  BY <1>1 DEF TypeOK, LeavesHard
<1>3. CASE CommitCreateSku(w) \/ CommitUpdateSku(w) \/ CommitDeleteSku(w)
           \/ CommitUpdateProduct(w)
  <2>1. pc[w] = "commit" /\ req[w].kind \in SellerKind
    BY <1>3 DEF CommitCreateSku, CommitUpdateSku, CommitDeleteSku,
                CommitUpdateProduct, Committing, At, SellerKind
  <2>2. p # req[w].product BY <1>2, <2>1, SellerWritesUnblocked
  <2>3. productRow'[p] = productRow[p]
    BY <1>1, <1>3, <2>2 DEF CommitCreateSku, CommitUpdateSku, CommitDeleteSku,
                            CommitUpdateProduct, SaveStatus, TypeOK
  <2> QED BY <1>2, <2>3
<1>4. CASE CommitDeleteProduct(w)
  <2>1. productRow'[p].status = productRow[p].status
    BY <1>1, <1>2, <1>4 DEF CommitDeleteProduct, TypeOK, ProductRow
  <2> QED BY <1>2, <2>1 DEF Hard
<1>5. CASE CommitModeration(w)
  <2>1. p # req[w].product => productRow'[p] = productRow[p]
    BY <1>1, <1>5 DEF CommitModeration, TypeOK
  <2> QED BY <1>2, <1>5, <2>1 DEF CommitModeration, Committing
<1>6. CASE CommitReserve(w) \/ CommitUnreserve(w) \/ CommitFulfill(w) \/ CommitInvoice(w)
           \/ CommitCreateProduct(w)
  BY <1>2, <1>6 DEF CommitReserve, CommitUnreserve, CommitFulfill, CommitInvoice,
                    CommitCreateProduct, SaveQuantities
<1> QED BY <1>3, <1>4, <1>5, <1>6 DEF Commit

OnlyByVerdict ==
  \A p \in ProductId : Hard(productRow[p]) /\ ~Hard(productRow'[p]) =>
    \E w \in Worker : At(w, "commit", {"moderation"}) /\ req[w].product = p

\* No edit, creation or deletion of a seller, however it interleaves with the
\* block, takes a product out of HARD_BLOCKED; only a verdict does.
THEOREM HardBlockHolds == Spec => SellersRespectHardBlock
<1>1. Inv /\ [Next]_vars => [OnlyByVerdict]_vars
  <2> SUFFICES ASSUME Inv, [Next]_vars PROVE [OnlyByVerdict]_vars OBVIOUS
  <2>1. CASE UNCHANGED tables BY <2>1 DEF OnlyByVerdict, tables
  <2>2. CASE \E w \in Worker : Commit(w)
    BY <2>2, OnlyVerdictsUnblock DEF OnlyByVerdict, LeavesHard
  <2>3. UNCHANGED tables \/ \E w \in Worker : Commit(w)
    BY OnlyCommitsWrite DEF Next, vars
  <2> QED BY <2>1, <2>2, <2>3
<1>2. SellersRespectHardBlock <=> [][OnlyByVerdict]_vars
  BY DEF SellersRespectHardBlock, OnlyByVerdict
<1> QED BY <1>1, <1>2, Invariance, PTL DEF Spec

-----------------------------------------------------------------------------

\* The moderation handler's copy of the product's SKUs is up to date.
Sees(w) ==
  \A p \in ProductId : holder[p] = w /\ req[w].kind = "moderation" =>
    \A s \in SkuId : ProductOf[s] = p => seenSku[w][s] = skuRow[s]

AfterEdit(status) == IF status \in Reviewed THEN "ON_MODERATION" ELSE status

\* What a handler decided is what it would decide now.
Decided(w) ==
  /\ Holds(w, {"commit"}, {"moderation"}) => decision[w] = req[w].verdict
  /\ Holds(w, {"write", "commit"}, {"create_sku"}) => decision[w] = "ON_MODERATION"
  /\ Holds(w, {"write", "commit"}, {"update_sku", "update_product"}) =>
       decision[w] = AfterEdit(Product(w).status)
  /\ Holds(w, {"commit"}, {"delete_sku"}) =>
       decision[w] = IF LastSku(w) /\ Product(w).status = "ON_MODERATION"
                     THEN "CREATED" ELSE Product(w).status

\* A report is about the product itself or one of its SKUs.
ReportsBelong ==
  \A p \in ProductId : \A s \in SkuId : s \in reports[p] => ProductOf[s] = p

LifeInv ==
  /\ Inv
  /\ CreatedHasNoSkus /\ ModeratedIsClean /\ ReportsBelong
  /\ \A w \in Worker : Sees(w) /\ Decided(w)

\* Whoever changes a SKU holds its product.
RowFrame(w) ==
  \A s \in SkuId : skuRow'[s] # skuRow[s] => holder[ProductOf[s]] = w

-----------------------------------------------------------------------------
LEMMA CommitsHoldProducts ==
  ASSUME Inv, NEW w \in Worker, Commit(w)
  PROVE  RowFrame(w)
<1>1. TypeOK /\ SessionOK(w) BY DEF Inv
<1>2. SUFFICES ASSUME NEW s \in SkuId, skuRow'[s] # skuRow[s]
               PROVE  holder[ProductOf[s]] = w
  BY DEF RowFrame
<1>3. CASE CommitReserve(w) \/ CommitUnreserve(w) \/ CommitFulfill(w)
  <2>1. pc[w] = "commit" /\ s \in req[w].skus /\ req[w].kind \in InventoryKind
    BY <1>2, <1>3 DEF CommitReserve, CommitUnreserve, CommitFulfill, SaveQuantities,
                      Committing, At, InventoryKind
  <2>2. holder[s] = w BY <2>1, InventoryReady
  <2>3. s \in found[w] BY <1>1, <2>2 DEF SessionOK, HoldsWhatItFound
  <2> QED BY <1>1, <2>1, <2>3 DEF SessionOK, HoldsProducts
<1>4. CASE CommitCreateSku(w)
  <2>1. /\ pc[w] = "commit" /\ pc[w] # "idle" /\ req[w].kind = "create_sku"
        /\ s \in req[w].skus
    BY <1>2, <1>4 DEF CommitCreateSku, Committing, At
  <2>2. ProductOf[s] = req[w].product BY <1>1, <2>1, RequestType, RequestAssumption
  <2> QED BY <2>1, <2>2, ProductReady DEF SellerKind
<1>5. CASE CommitUpdateSku(w) \/ CommitDeleteSku(w)
  <2>1. pc[w] = "commit" /\ s \in found[w]
    BY <1>2, <1>5 DEF CommitUpdateSku, CommitDeleteSku, Committing, At
  <2> QED BY <1>1, <2>1 DEF SessionOK, HoldsProducts
<1>6. CASE CommitUpdateProduct(w) \/ CommitDeleteProduct(w) \/ CommitModeration(w)
           \/ CommitInvoice(w) \/ CommitCreateProduct(w)
  BY <1>2, <1>6 DEF CommitUpdateProduct, CommitDeleteProduct, CommitModeration,
                    CommitInvoice, CommitCreateProduct
<1> QED BY <1>3, <1>4, <1>5, <1>6 DEF Commit

\* The other sessions keep what they see and decided.
LEMMA OthersKeepDeciding ==
  ASSUME LifeInv, NEW w \in Worker, NEW v \in Worker, v # w, Others(w), RowFrame(w)
  PROVE  Sees(v)' /\ Decided(v)'
<1>1. TypeOK /\ SessionOK(v) /\ Sees(v) /\ Decided(v) BY DEF LifeInv, Inv
<1>2. /\ pc'[v] = pc[v] /\ req'[v] = req[v] /\ found'[v] = found[v]
      /\ seenSku'[v] = seenSku[v] /\ seenProduct'[v] = seenProduct[v]
      /\ decision'[v] = decision[v]
      /\ \A p \in ProductId : holder'[p] = v <=> holder[p] = v
  BY DEF Others, Row
<1>3. \A s \in SkuId : holder[ProductOf[s]] = v => skuRow'[s] = skuRow[s]
  BY DEF RowFrame
<1>4. Sees(v)' BY <1>1, <1>2, <1>3 DEF Sees
<1>5. ASSUME Holds(v, {"commit"}, {"delete_sku"}) PROVE LastSku(v)' = LastSku(v)
  <2>1. holder[req[v].product] = v
    BY <1>1, <1>5 DEF SessionOK, HoldsItsProduct, Holds, SellerKind
  <2>2. \A s \in SkusOf(req[v].product) : skuRow'[s] = skuRow[s]
    BY <1>3, <2>1 DEF SkusOf
  <2> QED BY <1>2, <2>2 DEF LastSku, SkusOf, Live
<1>6. Decided(v)' BY <1>1, <1>2, <1>5 DEF Decided, Holds, Product
<1> QED BY <1>4, <1>6

-----------------------------------------------------------------------------
\* The worker's own steps.

Ends(w) == ReleaseAll(w) /\ pc'[w] \notin {"write", "commit"}

LEMMA EndsDeciding ==
  ASSUME LifeInv, NEW w \in Worker, Ends(w)
  PROVE  Sees(w)' /\ Decided(w)'
<1>1. \A row \in Row : holder'[row] # w BY WorkerAssumption DEF Ends, ReleaseAll
<1> QED BY <1>1 DEF Sees, Decided, Holds, Row, Ends

LEMMA AnswerEnds ==
  ASSUME LifeInv, NEW w \in Worker, NEW code,
         Answer(w, code) \/ Refuse(w, code) \/ Crash(w)
  PROVE  Ends(w)
BY DEF LifeInv, Inv, TypeOK, Ends, Refuse, Answer, Crash

LEMMA CommitEnds ==
  ASSUME LifeInv, NEW w \in Worker, Commit(w)
  PROVE  Ends(w)
<1>1. CASE Answer(w, "ok") BY <1>1, AnswerEnds
<1>2. CASE Go(w, "notify") /\ ReleaseAll(w)
  BY <1>2 DEF LifeInv, Inv, TypeOK, Go, Ends
<1> QED BY <1>1, <1>2
    DEF Commit, CommitReserve, CommitUnreserve, CommitFulfill, CommitCreateSku,
        CommitUpdateSku, CommitDeleteSku, CommitUpdateProduct, CommitDeleteProduct,
        CommitModeration, CommitInvoice, CommitCreateProduct

\* Steps that read no SKU for the moderation handler and take no product.
Passes(w) ==
  /\ UNCHANGED tables
  /\ req'[w] = req[w]
  /\ req[w].kind = "moderation" => seenSku'[w] = seenSku[w]
  /\ \A p \in ProductId : holder'[p] = w => holder[p] = w

LEMMA PassesSees ==
  ASSUME LifeInv, NEW w \in Worker, Passes(w)
  PROVE  Sees(w)'
BY DEF LifeInv, Passes, Sees, tables

LEMMA DecidePasses ==
  ASSUME LifeInv, NEW w \in Worker, NEW status, NEW events, NEW stage,
         Decide(w, status, events, stage)
  PROVE  /\ Passes(w) /\ pc'[w] = stage /\ decision'[w] = status
         /\ UNCHANGED <<tables, locks, req, found, seenSku, seenProduct>>
BY DEF LifeInv, Inv, TypeOK, Decide, Go, Passes, locks

\* A seller's or the moderation service's decision.
LEMMA DecidesNow ==
  ASSUME LifeInv, NEW w \in Worker,
         \/ CreateSkuDecide(w) \/ UpdateSkuDecide(w) \/ DeleteSkuDecide(w)
         \/ UpdateProductDecide(w) \/ ModerationDecide(w)
  PROVE  Sees(w)' /\ Decided(w)'
<1>1. TypeOK /\ SessionOK(w) /\ pc[w] = "lock" /\ pc[w] # "idle" /\ Locked(w)
  BY DEF LifeInv, Inv, CreateSkuDecide, UpdateSkuDecide, DeleteSkuDecide,
         UpdateProductDecide, ModerationDecide, At
<1>2. CASE Refuse(w, "refused") \/ Refuse(w, "error")
  BY <1>2, AnswerEnds, EndsDeciding
<1>3. ASSUME NEW status, NEW events, NEW stage \in {"write", "commit"},
             Decide(w, status, events, stage),
             req[w].kind = "moderation" => status = req[w].verdict,
             req[w].kind = "create_sku" => status = "ON_MODERATION",
             req[w].kind \in {"update_sku", "update_product"} =>
               status = AfterEdit(Product(w).status),
             req[w].kind = "delete_sku" =>
               status = IF LastSku(w) /\ Product(w).status = "ON_MODERATION"
                        THEN "CREATED" ELSE Product(w).status
      PROVE  Sees(w)' /\ Decided(w)'
  <2>1. /\ Passes(w) /\ decision'[w] = status
        /\ UNCHANGED <<tables, locks, req, found, seenSku, seenProduct>>
    BY <1>3, DecidePasses
  <2>2. Product(w)' = Product(w) /\ LastSku(w)' = LastSku(w)
    BY <2>1 DEF Product, LastSku, SkusOf, Live, tables
  <2> QED BY <1>3, <2>1, <2>2, PassesSees DEF Decided, Holds
<1>4. CASE ModerationDecide(w)
  <2>1. req[w].kind = "moderation"
        /\ \E events : Decide(w, req[w].verdict, events, "commit")
    BY <1>4 DEF ModerationDecide, At
  <2> QED BY <1>3, <2>1
<1>5. CASE CreateSkuDecide(w) /\ ~(Refuse(w, "refused") \/ Refuse(w, "error"))
  <2>1. req[w].kind = "create_sku" /\ req[w].product \in ProductId /\ ~Forbidden(w)
    BY <1>1, <1>5, RequestType DEF CreateSkuDecide, At
  <2>2. Product(w) = productRow[req[w].product]
    BY <1>1, <2>1, DecideLocked
    DEF LifeInv, ProductKind, SessionOK, ReadsProtected, Product
  <2>3. Product(w).status = "CREATED" => ~HasSkus(req[w].product)
    BY <2>1, <2>2 DEF LifeInv, CreatedHasNoSkus
  <2>4. Product(w).status \in Status /\ Product(w).status # "HARD_BLOCKED"
    BY <1>1, <2>1, ProductStatus DEF LifeInv, Forbidden
  <2>5. Save(w, "ON_MODERATION")
    BY <1>5, <2>3, <2>4 DEF CreateSkuDecide, SaveEdit, Reviewed, Status, Verdict
  <2>6. \E stage \in {"write", "commit"} : \E events :
          Decide(w, "ON_MODERATION", events, stage)
    BY <2>5, SaveDecides
  <2> QED BY <1>3, <2>1, <2>6
<1>6. CASE (UpdateSkuDecide(w) \/ UpdateProductDecide(w))
           /\ ~(Refuse(w, "refused") \/ Refuse(w, "error"))
  <2>1. /\ req[w].kind \in {"update_sku", "update_product"}
        /\ Save(w, AfterEdit(Product(w).status))
    BY <1>6 DEF UpdateSkuDecide, UpdateProductDecide, At, SaveEdit, AfterEdit
  <2>2. \E stage \in {"write", "commit"} : \E events :
          Decide(w, AfterEdit(Product(w).status), events, stage)
    BY <2>1, SaveDecides
  <2> QED BY <1>3, <2>1, <2>2
<1>7. CASE DeleteSkuDecide(w) /\ ~(Refuse(w, "refused") \/ Refuse(w, "error"))
  <2> DEFINE status == IF LastSku(w) /\ Product(w).status = "ON_MODERATION"
                       THEN "CREATED" ELSE Product(w).status
  <2>1. req[w].kind = "delete_sku" /\ \E events : Decide(w, status, events, "commit")
    BY <1>7 DEF DeleteSkuDecide, At
  <2> QED BY <1>3, <2>1
<1> QED BY <1>2, <1>4, <1>5, <1>6, <1>7

\* An order's steps before its commit.
LEMMA InventoryKeepsDeciding ==
  ASSUME LifeInv, NEW w \in Worker, InventoryStep(w), ~Commit(w)
  PROVE  Sees(w)' /\ Decided(w)'
<1>1. TypeOK BY DEF LifeInv, Inv
<1>2. CASE Refuse(w, "refused") \/ Refuse(w, "replay") \/ Refuse(w, "error")
           \/ Answer(w, "ok")
  BY <1>2, AnswerEnds, EndsDeciding
<1>3. ASSUME Passes(w), req[w].kind \in InventoryKind PROVE Sees(w)' /\ Decided(w)'
  BY <1>3, PassesSees DEF Decided, Holds, Passes, InventoryKind
<1>4. CASE LookUpOperation(w) /\ ~(Refuse(w, "replay"))
  <2>1. /\ req[w].kind \in InventoryKind
        /\ UNCHANGED <<tables, holder, req, seenSku>>
    BY <1>4 DEF LookUpOperation, At, InventoryKind, StartQuery, locks, session
  <2> QED BY <1>3, <2>1 DEF Passes
<1>5. CASE (InsertOperation(w) \/ FulfillGetOrCreate(w))
           /\ ~(Refuse(w, "replay") \/ Refuse(w, "error"))
  <2>1. /\ req[w].kind \in InventoryKind
        /\ UNCHANGED <<tables, holder, req, seenSku>>
    BY <1>5 DEF InsertOperation, FulfillGetOrCreate, At, InventoryKind, session
  <2> QED BY <1>3, <2>1 DEF Passes
<1>6. CASE (ReserveDecide(w) \/ UnreserveDecide(w) \/ FulfillDecide(w))
           /\ ~Refuse(w, "refused")
  <2>1. /\ req[w].kind \in InventoryKind
        /\ \E stage : Decide(w, Undecided, {}, stage)
    BY <1>6 DEF ReserveDecide, UnreserveDecide, FulfillDecide, At, InventoryKind, Conflict
  <2> QED BY <1>3, <2>1, DecidePasses
<1>7. CASE NotifySoldOut(w) BY <1>2, <1>7 DEF NotifySoldOut
<1> QED BY <1>2, <1>4, <1>5, <1>6, <1>7 DEF InventoryStep, Commit

\* Deletions, invoices and the key of a verdict.
LEMMA ProductStepsKeepDeciding ==
  ASSUME LifeInv, NEW w \in Worker,
         \/ DeleteProductRead(w) \/ DeleteProductPost(w)
         \/ InsertProcessedEvent(w) \/ InvoiceRead(w)
  PROVE  Sees(w)' /\ Decided(w)'
<1>1. TypeOK BY DEF LifeInv, Inv
<1>2. CASE Refuse(w, "refused") \/ Refuse(w, "replay")
  BY <1>2, AnswerEnds, EndsDeciding
<1>3. ASSUME Passes(w),
             pc'[w] \notin {"write", "commit"} \/ req[w].kind \in {"delete_product", "invoice"}
      PROVE  Sees(w)' /\ Decided(w)'
  BY <1>3, PassesSees DEF Decided, Holds, Passes
<1>4. CASE (DeleteProductRead(w) \/ InsertProcessedEvent(w))
           /\ ~(Refuse(w, "refused") \/ Refuse(w, "replay"))
  <2>1. Go(w, "lock") /\ UNCHANGED <<tables, holder, req, seenSku>>
    BY <1>4 DEF DeleteProductRead, InsertProcessedEvent, locks, session
  <2>2. pc'[w] = "lock" BY <1>1, <2>1 DEF TypeOK, Go
  <2> QED BY <1>3, <2>1, <2>2 DEF Passes
<1>5. CASE (DeleteProductPost(w) \/ InvoiceRead(w)) /\ ~Refuse(w, "refused")
  <2>1. /\ req[w].kind \in {"delete_product", "invoice"}
        /\ \E events : Decide(w, Undecided, events, "commit")
    BY <1>5 DEF DeleteProductPost, InvoiceRead, At
  <2> QED BY <1>3, <2>1, DecidePasses
<1> QED BY <1>2, <1>4, <1>5 DEF DeleteProductRead, InsertProcessedEvent,
                                DeleteProductPost, InvoiceRead

\* Every other step that is not a commit.
LEMMA StepsKeepDeciding ==
  ASSUME LifeInv, NEW w \in Worker,
         (\E r \in Request : Receive(w, r)) \/ Advance(w) \/ Crash(w), ~Commit(w)
  PROVE  Sees(w)' /\ Decided(w)'
<1>1. TypeOK /\ SessionOK(w) /\ Sees(w) /\ Decided(w) BY DEF LifeInv, Inv
<1>2. CASE Crash(w) \/ Refuse(w, "refused") \/ Refuse(w, "replay")
           \/ Refuse(w, "error") \/ Answer(w, "ok")
  BY <1>2, AnswerEnds, EndsDeciding
<1>3. ASSUME Passes(w), pc'[w] \notin {"write", "commit"} PROVE Sees(w)' /\ Decided(w)'
  BY <1>3, PassesSees DEF Decided, Holds
<1>4. CASE \E r \in Request : Receive(w, r)
  <2>1. /\ pc[w] = "idle" /\ UNCHANGED holder
        /\ pc'[w] # "commit"
        /\ pc'[w] = "write" => req'[w].kind = "create_product"
    BY <1>1, <1>4 DEF Receive, StartQuery, Go, FirstStage, TypeOK, locks
  <2>2. \A p \in ProductId : holder'[p] # w
    BY <1>1, <2>1 DEF SessionOK, HoldsWhatItFound, Row
  <2> QED BY <2>1, <2>2 DEF Sees, Decided, Holds
<1>5. CASE LockSku(w)
  <2>1. pc[w] = "lock" /\ \E s \in NextRow(w) \intersect SkuId :
          holder' = [holder EXCEPT ![s] = w] \/ holder' = holder
    BY <1>5 DEF LockSku
  <2>2. req[w].kind # "moderation"
    BY <2>1, NextSku DEF LifeInv, SkuKind, InventoryKind
  <2>3. \A p \in ProductId : holder'[p] = w => holder[p] = w
    BY <1>1, <2>1, RowsAssumption DEF TypeOK, Row
  <2>4. UNCHANGED <<tables, req, pc>> BY <1>5 DEF LockSku
  <2> QED BY <1>3, <2>1, <2>2, <2>3, <2>4 DEF Passes
<1>6. CASE LockProduct(w)
  <2>1. PICK p \in NextRow(w) \intersect ProductId :
          /\ holder' = [holder EXCEPT ![p] = w]
          /\ req[w].kind = "moderation" => seenSku' = [seenSku EXCEPT ![w] =
               [s \in SkuId |-> IF s \in SkusOf(p) THEN skuRow[s] ELSE @[s]]]
    BY <1>6 DEF LockProduct
  <2>2. pc[w] = "lock" /\ UNCHANGED <<tables, req, pc>> BY <1>6 DEF LockProduct
  <2>3. ASSUME NEW x \in ProductId, holder'[x] = w, req'[w].kind = "moderation",
               NEW s \in SkuId, ProductOf[s] = x
        PROVE  seenSku'[w][s] = skuRow'[s]
    <3>1. seenSku'[w][s] = IF s \in SkusOf(p) THEN skuRow[s] ELSE seenSku[w][s]
      BY <1>1, <2>1, <2>2, <2>3 DEF TypeOK
    <3>2. CASE x = p BY <2>2, <2>3, <3>1, <3>2 DEF SkusOf, tables
    <3>3. CASE x # p
      <4>1. holder[x] = w BY <1>1, <2>1, <2>3, <3>3 DEF TypeOK, Row
      <4> QED BY <1>1, <2>2, <2>3, <3>1, <4>1 DEF Sees, tables
    <3> QED BY <3>2, <3>3
  <2> QED BY <2>2, <2>3 DEF Sees, Decided, Holds
<1>7. CASE LockSeller(w)
  <2>1. /\ pc[w] = "lock" /\ UNCHANGED <<tables, req, pc, seenSku>>
        /\ \E row \in SellerId : holder' = [holder EXCEPT ![row] = w]
    BY <1>7 DEF LockSeller, session
  <2>2. \A p \in ProductId : holder'[p] = w => holder[p] = w
    BY <1>1, <2>1, RowsAssumption DEF TypeOK, Row
  <2> QED BY <1>3, <2>1, <2>2 DEF Passes
<1>14. CASE LockCategory(w) /\ ~Refuse(w, "refused")
  <2>1. /\ pc[w] = "lock" /\ UNCHANGED <<tables, req, pc, seenSku>>
        /\ \E row \in CategoryId : holder' = [holder EXCEPT ![row] = w]
    BY <1>14 DEF LockCategory
  <2>2. \A p \in ProductId : holder'[p] = w => holder[p] = w
    BY <1>1, <2>1, RowsAssumption DEF TypeOK, Row
  <2> QED BY <1>3, <2>1, <2>2 DEF Passes
<1>15. CASE WriteName(w) /\ ~Refuse(w, "error")
  <2>1. pc[w] = "write" /\ \E events : Decide(w, decision[w], events, "commit")
    BY <1>15 DEF WriteName
  <2>2. /\ Passes(w) /\ decision'[w] = decision[w]
        /\ UNCHANGED <<tables, locks, req, found, seenSku, seenProduct>>
    BY <2>1, DecidePasses
  <2>3. Product(w)' = Product(w) BY <2>2 DEF Product
  <2>4. req[w].kind \in {"create_sku", "update_sku", "create_product", "update_product"}
    BY <2>1, Writers DEF LifeInv
  <2> QED BY <1>1, <2>1, <2>2, <2>3, <2>4, PassesSees DEF Decided, Holds
<1>8. CASE CheckReference(w) /\ ~Refuse(w, "error")
  <2>1. UNCHANGED <<tables, holder, session, pc>> BY <1>8 DEF CheckReference
  <2> QED BY <1>1, <2>1
      DEF Sees, Decided, Holds, Product, LastSku, SkusOf, Live, AfterEdit, tables, session
<1>9. CASE Return(w)
  <2>1. /\ pc[w] = "answered" /\ pc' = [pc EXCEPT ![w] = "idle"]
        /\ UNCHANGED holder
    BY <1>9 DEF Return, locks
  <2>2. pc'[w] = "idle" /\ \A p \in ProductId : holder'[p] # w
    BY <1>1, <2>1 DEF TypeOK, SessionOK, HoldsWhatItFound, Row
  <2> QED BY <2>2 DEF Sees, Decided, Holds
<1>10. CASE DeadlockVictim(w) BY <1>2, <1>10 DEF DeadlockVictim
<1>11. CASE InventoryStep(w) BY <1>1, <1>11, InventoryKeepsDeciding
<1>12. CASE SkuStep(w) BY <1>2, <1>12, <1>15, DecidesNow DEF SkuStep, Commit
<1>13. CASE ProductStep(w) BY <1>13, DecidesNow, ProductStepsKeepDeciding DEF ProductStep, Commit
<1> QED BY <1>2, <1>4, <1>5, <1>6, <1>7, <1>8, <1>9, <1>10, <1>11, <1>12, <1>13,
       <1>14
    DEF Advance, CheckReference

-----------------------------------------------------------------------------
\* Commits are steps of the lifecycle.

\* Every commit but an order's and an invoice's writes a product it holds, from a
\* row that is still in the table.
LEMMA CommitsProduct ==
  ASSUME LifeInv, NEW w \in Worker, pc[w] = "commit",
         req[w].kind \in SellerKind \union {"delete_product", "moderation"}
  PROVE  /\ req[w].product \in ProductId
         /\ req[w].kind # "delete_product" => Product(w) = productRow[req[w].product]
         /\ req[w].kind \in SellerKind =>
              productRow[req[w].product].status # "HARD_BLOCKED"
<1>1. SessionOK(w) BY DEF LifeInv, Inv
<1>2. req[w].product \in ProductId /\ holder[req[w].product] = w
  BY ProductReady DEF LifeInv
<1>3. req[w].kind \in SellerKind => ~Hard(productRow[req[w].product])
  BY SellerWritesUnblocked DEF LifeInv
<1> QED BY <1>1, <1>2, <1>3 DEF SessionOK, ReadsProtected, Product, Hard

LEMMA OrderMovesStock ==
  ASSUME LifeInv, NEW w \in Worker,
         CommitReserve(w) \/ CommitUnreserve(w) \/ CommitFulfill(w)
  PROVE  Lifecycle!MoveStock
<1>1. TypeOK /\ Inv BY DEF LifeInv, Inv
<1>2. /\ pc[w] = "commit" /\ req[w].kind \in InventoryKind
      /\ \/ req[w].kind = "reserve" /\ SaveQuantities(w, -1, 1)
         \/ req[w].kind = "unreserve" /\ SaveQuantities(w, 1, -1)
         \/ req[w].kind = "fulfill" /\ SaveQuantities(w, 0, -1)
  BY DEF CommitReserve, CommitUnreserve, CommitFulfill, Committing, At, InventoryKind
<1>3. UNCHANGED <<productRow, reports>> BY <1>2 DEF SaveQuantities
<1>4. skuRow' \in [SkuId -> SkuRow] BY <1>1, <1>2, SaveStep DEF TableTypes
<1>5. PICK dA \in {-1, 0, 1}, dR \in {-1, 1} : dA + dR <= 0 /\ SaveQuantities(w, dA, dR)
  BY <1>2
<1>6. ASSUME NEW s \in SkuId
      PROVE  /\ skuRow'[s].state = skuRow[s].state
             /\ skuRow[s].state # "live" => skuRow'[s] = skuRow[s]
             /\ skuRow'[s].active + skuRow'[s].reserved
                  <= skuRow[s].active + skuRow[s].reserved
  <2>1. skuRow[s] \in SkuRow BY <1>1 DEF TypeOK
  <2>2. CASE s \notin req[w].skus
    <3>1. skuRow'[s] = skuRow[s] BY <1>5, <2>2 DEF SaveQuantities
    <3> QED BY <2>1, <3>1 DEF SkuRow
  <2>3. CASE s \in req[w].skus
    <3>1. /\ skuRow[s].state = "live" /\ seenSku[w][s] = skuRow[s]
          /\ req[w].qty[s] \in Nat
      BY <1>1, <1>2, <2>3, InventoryReady
    <3> DEFINE n == req[w].qty[s]
    <3>2. skuRow'[s] = [skuRow[s] EXCEPT
            !.active = skuRow[s].active + dA * n, !.reserved = skuRow[s].reserved + dR * n]
      BY <1>5, <2>3, <3>1 DEF SaveQuantities
    <3>3. /\ skuRow'[s].state = skuRow[s].state
          /\ skuRow'[s].active = skuRow[s].active + dA * n
          /\ skuRow'[s].reserved = skuRow[s].reserved + dR * n
      BY <2>1, <3>2 DEF SkuRow
    <3>4. dA * n + dR * n <= 0 BY <1>5, <3>1
    <3>5. /\ skuRow[s].active \in Int /\ skuRow[s].reserved \in Int
          /\ dA * n \in Int /\ dR * n \in Int
      BY <2>1, <3>1 DEF SkuRow
    <3> HIDE DEF n
    <3> QED BY <3>1, <3>3, <3>4, <3>5
  <2> QED BY <2>2, <2>3
<1> QED BY <1>3, <1>4, <1>6 DEF Lifecycle!MoveStock, Lifecycle!SkuRow, SkuRow

LEMMA CreateAdds ==
  ASSUME LifeInv, NEW w \in Worker, CommitCreateSku(w)
  PROVE  Lifecycle!Next
<1>1. TypeOK /\ SessionOK(w) /\ Inv BY DEF LifeInv, Inv
<1>2. pc[w] = "commit" /\ pc[w] # "idle" /\ req[w].kind = "create_sku"
  BY DEF CommitCreateSku, Committing, At
<1>3. PICK s \in SkuId : req[w].skus = {s} /\ ProductOf[s] = req[w].product
  BY <1>1, <1>2, RequestType, RequestAssumption
<1>4. skuRow[s].state = "unborn"
  BY <1>1, <1>2, <1>3 DEF SessionOK, HoldsItsProduct, Holds
<1> DEFINE new == [Row0 EXCEPT !.state = "live"]
<1>5. skuRow' = [x \in SkuId |-> IF x = s THEN new ELSE skuRow[x]]
  BY <1>3 DEF CommitCreateSku
<1>6. decision[w] = "ON_MODERATION" BY <1>2 DEF LifeInv, Decided, Holds
<1>7. productRow' = [productRow EXCEPT ![ProductOf[s]].status = "ON_MODERATION"]
  BY <1>3, <1>6 DEF CommitCreateSku, SaveStatus
<1>8. productRow[ProductOf[s]].status # "HARD_BLOCKED"
  BY <1>2, <1>3, CommitsProduct DEF SellerKind
<1> HIDE DEF new
<1>9. skuRow' = [skuRow EXCEPT ![s] = new] BY <1>1, <1>5 DEF TypeOK
<1>10. Lifecycle!AddSku(s)
  BY <1>4, <1>7, <1>8, <1>9
  DEF Lifecycle!AddSku, Lifecycle!Writable, Lifecycle!SetStatus, new, CommitCreateSku
<1> QED BY <1>10 DEF Lifecycle!Next, Lifecycle!Change

\* An edit of the product or of a SKU that is already there.
LEMMA UpdateEdits ==
  ASSUME LifeInv, NEW w \in Worker, CommitUpdateSku(w) \/ CommitUpdateProduct(w)
  PROVE  [Lifecycle!Next]_(Lifecycle!shop)
<1>1. TypeOK /\ SessionOK(w) BY DEF LifeInv, Inv
<1>2. pc[w] = "commit" /\ req[w].kind \in {"update_sku", "update_product"}
  BY DEF CommitUpdateSku, CommitUpdateProduct, Committing, At
<1> DEFINE p == req[w].product
<1>3. p \in ProductId /\ Product(w) = productRow[p] /\ productRow[p] \in ProductRow
  BY <1>1, <1>2, CommitsProduct DEF SellerKind, TypeOK
<1>4. decision[w] = AfterEdit(productRow[p].status)
  BY <1>2, <1>3 DEF LifeInv, Decided, Holds
<1>5. skuRow' = skuRow
  <2>1. CASE CommitUpdateSku(w)
    <3>1. \A x \in SkuId : skuRow'[x] = skuRow[x]
      BY <1>1, <2>1 DEF CommitUpdateSku, SessionOK, ReadsProtected
    <3> QED BY <1>1, <2>1, <3>1 DEF CommitUpdateSku, TypeOK
  <2>2. CASE CommitUpdateProduct(w) BY <2>2 DEF CommitUpdateProduct
  <2> QED BY <2>1, <2>2
<1>6. reports' = reports BY DEF CommitUpdateSku, CommitUpdateProduct
<1>7. productRow' = [productRow EXCEPT ![p].status = decision[w]]
  BY <1>1, <1>3 DEF CommitUpdateSku, CommitUpdateProduct, SaveStatus, TypeOK
<1>8. CASE productRow[p].status \in Reviewed
  <2>1. decision[w] = "ON_MODERATION" BY <1>4, <1>8 DEF AfterEdit
  <2>2. Lifecycle!Edit(p)
    BY <1>5, <1>6, <1>7, <1>8, <2>1
    DEF Lifecycle!Edit, Lifecycle!SetStatus, Lifecycle!Reviewed, Reviewed
  <2> QED BY <1>3, <2>2 DEF Lifecycle!Next, Lifecycle!Change
<1>9. CASE productRow[p].status \notin Reviewed
  <2>1. decision[w] = productRow[p].status BY <1>4, <1>9 DEF AfterEdit
  <2>2. [productRow[p] EXCEPT !.status = productRow[p].status] = productRow[p]
    BY <1>3 DEF ProductRow
  <2>3. productRow' = productRow BY <1>1, <1>3, <1>7, <2>1, <2>2 DEF TypeOK
  <2> QED BY <1>5, <1>6, <2>3 DEF Lifecycle!shop
<1> QED BY <1>8, <1>9

LEMMA DeleteRemoves ==
  ASSUME LifeInv, NEW w \in Worker, CommitDeleteSku(w)
  PROVE  Lifecycle!Next
<1>1. TypeOK /\ SessionOK(w) /\ Inv BY DEF LifeInv, Inv
<1>2. pc[w] = "commit" /\ pc[w] # "idle" /\ req[w].kind = "delete_sku"
  BY DEF CommitDeleteSku, Committing, At
<1>3. PICK s \in SkuId : req[w].skus = {s} /\ ProductOf[s] = req[w].product
  BY <1>1, <1>2, RequestType, RequestAssumption
<1>4. found[w] = {s} /\ \A x \in found[w] : seenSku[w][x].reserved = 0
  BY <1>1, <1>2, <1>3 DEF SessionOK, QueriesItsRequest, Checked, Holds
<1>5. skuRow[s].state = "live" /\ skuRow[s].reserved = 0
  BY <1>1, <1>4 DEF SessionOK, ReadsProtected, Live
<1> DEFINE p == ProductOf[s]
           gone == [Row0 EXCEPT !.state = "deleted"]
<1>6. p \in ProductId /\ Product(w) = productRow[p] /\ productRow[p].status # "HARD_BLOCKED"
  BY <1>2, <1>3, CommitsProduct DEF SellerKind
<1>7. skuRow' = [x \in SkuId |-> IF x = s THEN gone ELSE skuRow[x]]
  BY <1>4 DEF CommitDeleteSku
<1>8. reports' = [reports EXCEPT ![p] = @ \ {s}]
  <2>1. reports' = [x \in ProductId |-> reports[x] \ {s}] BY <1>4 DEF CommitDeleteSku
  <2>2. \A x \in ProductId : x # p => s \notin reports[x] BY DEF LifeInv, ReportsBelong
  <2>3. \A x \in ProductId : x # p => reports[x] \ {s} = reports[x] BY <2>2
  <2> QED BY <1>1, <1>6, <2>1, <2>3 DEF TypeOK
<1>9. LastSku(w) <=> Lifecycle!LiveSkus(p) = {s}
  BY <1>3, <1>4, <1>5 DEF LastSku, SkusOf, Live, Lifecycle!LiveSkus
<1>10. decision[w] = IF Lifecycle!LiveSkus(p) = {s} /\ productRow[p].status = "ON_MODERATION"
                     THEN "CREATED" ELSE productRow[p].status
  BY <1>2, <1>6, <1>9 DEF LifeInv, Decided, Holds
<1>11. productRow' = [productRow EXCEPT ![p].status = decision[w]]
  BY <1>3 DEF CommitDeleteSku, SaveStatus
<1> HIDE DEF gone
<1>12. skuRow' = [skuRow EXCEPT ![s] = gone] BY <1>1, <1>7 DEF TypeOK
<1>13. Lifecycle!RemoveSku(s)
  BY <1>5, <1>6, <1>8, <1>10, <1>11, <1>12
  DEF Lifecycle!RemoveSku, Lifecycle!Writable, Lifecycle!SetStatus, gone
<1> QED BY <1>13 DEF Lifecycle!Next, Lifecycle!Change

LEMMA VerdictJudges ==
  ASSUME LifeInv, NEW w \in Worker, CommitModeration(w)
  PROVE  Lifecycle!Next
<1>1. TypeOK /\ SessionOK(w) /\ Inv /\ Sees(w) BY DEF LifeInv, Inv
<1>2. pc[w] = "commit" /\ pc[w] # "idle" /\ req[w].kind = "moderation"
  BY DEF CommitModeration, Committing, At
<1> DEFINE p == req[w].product
           verdict == req[w].verdict
           about == IF Blocking(w) THEN ReportsOf(w) ELSE {}
<1>3. p \in ProductId /\ holder[p] = w /\ verdict \in Verdict
  BY <1>1, <1>2, RequestType, ProductReady
<1>4. decision[w] = verdict BY <1>2 DEF LifeInv, Decided, Holds
<1>5. \A s \in SkuId : ProductOf[s] = p => seenSku[w][s] = skuRow[s]
  BY <1>1, <1>2, <1>3 DEF Sees
<1>6. about \subseteq Lifecycle!LiveSkus(p) \union {WholeProduct}
  BY <1>5 DEF ReportsOf, SkusOf, Lifecycle!LiveSkus
<1>7. verdict = "MODERATED" => about = {} BY DEF Blocking
<1>8. /\ productRow' = [productRow EXCEPT ![p].status = verdict,
                                          ![p].reason = verdict # "MODERATED"]
      /\ reports' = [reports EXCEPT ![p] = about]
      /\ skuRow' = skuRow
  BY <1>4 DEF CommitModeration, Blocking
<1> HIDE DEF about
<1>9. Lifecycle!Judge(p, verdict, about) BY <1>6, <1>7, <1>8 DEF Lifecycle!Judge
<1>10. verdict \in Lifecycle!Verdict
  BY <1>3 DEF Verdict, Lifecycle!Verdict, Lifecycle!Reviewed
<1> QED BY <1>3, <1>6, <1>9, <1>10 DEF Lifecycle!Next, Lifecycle!Change

LEMMA CommitsImplementLifecycle ==
  ASSUME LifeInv, NEW w \in Worker, Commit(w)
  PROVE  [Lifecycle!Next]_(Lifecycle!shop)
<1>1. CASE CommitReserve(w) \/ CommitUnreserve(w) \/ CommitFulfill(w)
  BY <1>1, OrderMovesStock DEF Lifecycle!Next
<1>2. CASE CommitDeleteProduct(w)
  <2>1. req[w].product \in ProductId
    BY <1>2, CommitsProduct DEF CommitDeleteProduct, Committing, At
  <2>2. Lifecycle!Delete(req[w].product)
    BY <1>2 DEF CommitDeleteProduct, Lifecycle!Delete
  <2> QED BY <2>1, <2>2 DEF Lifecycle!Next, Lifecycle!Change
<1>3. CASE CommitInvoice(w) \/ CommitCreateProduct(w)
  BY <1>3 DEF CommitInvoice, CommitCreateProduct, Lifecycle!shop
<1> QED BY <1>1, <1>2, <1>3, CreateAdds, UpdateEdits, DeleteRemoves, VerdictJudges
    DEF Commit

LEMMA LifecycleStep ==
  ASSUME LifeInv, [Next]_vars
  PROVE  [Lifecycle!Next]_(Lifecycle!shop)
<1>1. CASE UNCHANGED tables BY <1>1 DEF tables, Lifecycle!shop
<1>2. CASE \E w \in Worker : Commit(w) BY <1>2, CommitsImplementLifecycle
<1>3. UNCHANGED tables \/ \E w \in Worker : Commit(w)
  BY OnlyCommitsWrite DEF Next, vars
<1> QED BY <1>1, <1>2, <1>3

-----------------------------------------------------------------------------
\* What the lifecycle preserves, whoever implements it.

TidyTables == CreatedHasNoSkus /\ ModeratedIsClean /\ ReportsBelong

LEMMA AddKeepsTidy ==
  ASSUME TypeOK, TidyTables, NEW s \in SkuId, Lifecycle!AddSku(s)
  PROVE  TidyTables'
<1> DEFINE p == ProductOf[s]
<1>1. p \in ProductId BY RowsAssumption
<1>2. /\ \A x \in SkuId : x # s => skuRow'[x] = skuRow[x]
      /\ reports' = reports
  BY DEF TypeOK, Lifecycle!AddSku
<1>3. productRow' = [productRow EXCEPT ![p].status = "ON_MODERATION"]
  BY DEF Lifecycle!AddSku, Lifecycle!SetStatus
<1>4. /\ productRow'[p].status = "ON_MODERATION"
      /\ \A x \in ProductId : x # p => productRow'[x] = productRow[x]
  BY <1>1, <1>3 DEF TypeOK, ProductRow
<1>5. CreatedHasNoSkus'
  BY <1>2, <1>4 DEF TidyTables, CreatedHasNoSkus, HasSkus, SkusOf, Live
<1>6. ModeratedIsClean' BY <1>2, <1>4 DEF TidyTables, ModeratedIsClean
<1>7. ReportsBelong' BY <1>2 DEF TidyTables, ReportsBelong
<1> QED BY <1>5, <1>6, <1>7 DEF TidyTables

LEMMA RemoveKeepsTidy ==
  ASSUME TypeOK, TidyTables, NEW s \in SkuId, Lifecycle!RemoveSku(s)
  PROVE  TidyTables'
<1> DEFINE p == ProductOf[s]
           status == IF Lifecycle!LiveSkus(p) = {s} /\ productRow[p].status = "ON_MODERATION"
                     THEN "CREATED" ELSE productRow[p].status
<1>1. p \in ProductId /\ productRow[p] \in ProductRow BY RowsAssumption DEF TypeOK
<1>2. /\ \A x \in SkuId : x # s => skuRow'[x] = skuRow[x]
      /\ skuRow[s].state = "live" /\ skuRow'[s].state = "deleted"
  BY DEF TypeOK, Lifecycle!RemoveSku, Row0
<1>3. /\ productRow' = [productRow EXCEPT ![p].status = status]
      /\ reports' = [reports EXCEPT ![p] = @ \ {s}]
  BY DEF Lifecycle!RemoveSku, Lifecycle!SetStatus
<1>4. /\ productRow'[p].status = status /\ productRow'[p].reason = productRow[p].reason
      /\ \A x \in ProductId : x # p => productRow'[x] = productRow[x]
      /\ \A x \in ProductId : reports'[x] \subseteq reports[x]
  <2> HIDE DEF status
  <2> QED BY <1>1, <1>3 DEF TypeOK, ProductRow
<1>5. productRow[p].status # "CREATED"
  BY <1>1, <1>2 DEF TidyTables, CreatedHasNoSkus, HasSkus, SkusOf, Live
<1>6. CreatedHasNoSkus'
  <2>1. SUFFICES ASSUME NEW x \in ProductId, productRow'[x].status = "CREATED",
                        NEW y \in SkuId, ProductOf[y] = x, skuRow'[y].state = "live"
                 PROVE  FALSE
    BY DEF CreatedHasNoSkus, HasSkus, SkusOf, Live
  <2>2. y # s /\ skuRow[y].state = "live" BY <1>2, <2>1
  <2>3. CASE x = p
    <3>1. Lifecycle!LiveSkus(p) = {s} BY <1>4, <1>5, <2>1, <2>3
    <3>2. y \in Lifecycle!LiveSkus(p) BY <2>1, <2>2, <2>3 DEF Lifecycle!LiveSkus
    <3> QED BY <2>2, <3>1, <3>2
  <2>4. CASE x # p
    BY <1>4, <2>1, <2>2, <2>4
    DEF TidyTables, CreatedHasNoSkus, HasSkus, SkusOf, Live
  <2> QED BY <2>3, <2>4
<1>7. ModeratedIsClean'
  <2>1. SUFFICES ASSUME NEW x \in ProductId, productRow'[x].status = "MODERATED"
                 PROVE  ~productRow'[x].reason /\ reports'[x] = {}
    BY DEF ModeratedIsClean
  <2>2. productRow[x].status = "MODERATED" /\ productRow'[x].reason = productRow[x].reason
    BY <1>4, <2>1
  <2> QED BY <1>4, <2>2 DEF TidyTables, ModeratedIsClean
<1>8. ReportsBelong' BY <1>4 DEF TidyTables, ReportsBelong
<1> QED BY <1>6, <1>7, <1>8 DEF TidyTables

LEMMA JudgeKeepsTidy ==
  ASSUME TypeOK, TidyTables, NEW p \in ProductId, NEW verdict \in Lifecycle!Verdict,
         NEW about, Lifecycle!Judge(p, verdict, about)
  PROVE  TidyTables'
<1>1. /\ productRow' = [productRow EXCEPT ![p].status = verdict,
                                          ![p].reason = verdict # "MODERATED"]
      /\ reports' = [reports EXCEPT ![p] = about] /\ skuRow' = skuRow
      /\ about \subseteq Lifecycle!LiveSkus(p) \union {WholeProduct}
      /\ verdict = "MODERATED" => about = {}
  BY DEF Lifecycle!Judge
<1>2. /\ productRow'[p].status = verdict /\ productRow'[p].reason = (verdict # "MODERATED")
      /\ reports'[p] = about
      /\ \A x \in ProductId : x # p =>
           productRow'[x] = productRow[x] /\ reports'[x] = reports[x]
  BY <1>1 DEF TypeOK, ProductRow
<1>3. verdict # "CREATED" BY DEF Lifecycle!Verdict, Lifecycle!Reviewed
<1>4. CreatedHasNoSkus'
  BY <1>1, <1>2, <1>3 DEF TidyTables, CreatedHasNoSkus, HasSkus, SkusOf, Live
<1>5. ModeratedIsClean' BY <1>1, <1>2 DEF TidyTables, ModeratedIsClean
<1>6. ReportsBelong'
  BY <1>1, <1>2, WorkerAssumption DEF TidyTables, ReportsBelong, Lifecycle!LiveSkus
<1> QED BY <1>4, <1>5, <1>6 DEF TidyTables

LEMMA LifecycleKeepsTidy ==
  ASSUME TypeOK, TidyTables, [Lifecycle!Next]_(Lifecycle!shop)
  PROVE  TidyTables'
<1>1. CASE UNCHANGED Lifecycle!shop
  BY <1>1 DEF TidyTables, CreatedHasNoSkus, ModeratedIsClean, ReportsBelong, HasSkus,
              SkusOf, Live, Lifecycle!shop
<1>2. ASSUME NEW p \in ProductId, Lifecycle!Edit(p) PROVE TidyTables'
  <2>1. /\ productRow' = [productRow EXCEPT ![p].status = "ON_MODERATION"]
        /\ UNCHANGED <<skuRow, reports>>
    BY <1>2 DEF Lifecycle!Edit, Lifecycle!SetStatus
  <2>2. /\ productRow'[p].status = "ON_MODERATION"
        /\ \A x \in ProductId : x # p => productRow'[x] = productRow[x]
    BY <2>1 DEF TypeOK, ProductRow
  <2> QED BY <2>1, <2>2
      DEF TidyTables, CreatedHasNoSkus, ModeratedIsClean, ReportsBelong, HasSkus, SkusOf, Live
<1>3. ASSUME NEW p \in ProductId, Lifecycle!Delete(p) PROVE TidyTables'
  <2>1. /\ productRow' = [productRow EXCEPT ![p].deleted = TRUE]
        /\ UNCHANGED <<skuRow, reports>>
    BY <1>3 DEF Lifecycle!Delete
  <2>2. \A x \in ProductId : /\ productRow'[x].status = productRow[x].status
                             /\ productRow'[x].reason = productRow[x].reason
    BY <2>1 DEF TypeOK, ProductRow
  <2> QED BY <2>1, <2>2
      DEF TidyTables, CreatedHasNoSkus, ModeratedIsClean, ReportsBelong, HasSkus, SkusOf, Live
<1>4. CASE Lifecycle!MoveStock
  <2>1. /\ \A s \in SkuId : skuRow'[s].state = skuRow[s].state
        /\ UNCHANGED <<productRow, reports>>
    BY <1>4 DEF Lifecycle!MoveStock
  <2> QED BY <2>1
      DEF TidyTables, CreatedHasNoSkus, ModeratedIsClean, ReportsBelong, HasSkus, SkusOf, Live
<1> QED BY <1>1, <1>2, <1>3, <1>4, AddKeepsTidy, RemoveKeepsTidy, JudgeKeepsTidy
    DEF Lifecycle!Next, Lifecycle!Change

-----------------------------------------------------------------------------
LEMMA LifeInit == Init => LifeInv
<1> SUFFICES ASSUME Init PROVE LifeInv OBVIOUS
<1>1. Inv BY InitInv
<1>2. CreatedHasNoSkus
  BY HistoryAssumption DEF Init, CreatedHasNoSkus, HasSkus, SkusOf, Live
<1>3. ModeratedIsClean /\ ReportsBelong
  BY HistoryAssumption DEF Init, ModeratedIsClean, ReportsBelong
<1>4. ASSUME NEW w \in Worker PROVE Sees(w) /\ Decided(w)
  <2>1. pc[w] = "idle" /\ \A row \in Row : holder[row] # w
    BY WorkerAssumption DEF Init
  <2> QED BY <2>1 DEF Sees, Decided, Holds, Row
<1> QED BY <1>1, <1>2, <1>3, <1>4 DEF LifeInv

LEMMA LifeNext == LifeInv /\ [Next]_vars => LifeInv'
<1> SUFFICES ASSUME LifeInv, [Next]_vars PROVE LifeInv' OBVIOUS
<1>1. TidyTables'
  BY LifecycleStep, LifecycleKeepsTidy DEF LifeInv, Inv, TidyTables
<1>2. CASE Next
  <2>1. PICK w \in Worker : (\E r \in Request : Receive(w, r)) \/ Advance(w) \/ Crash(w)
    BY <1>2 DEF Next
  <2>2. Effect(w) BY <2>1, StepEffect DEF LifeInv
  <2>3. Inv' BY <2>2, EffectSuffices DEF LifeInv
  <2>4. RowFrame(w)
    <3>1. CASE Commit(w) BY <3>1, CommitsHoldProducts DEF LifeInv
    <3>2. CASE ~Commit(w) BY <2>1, <3>2, OnlyCommitsWrite DEF RowFrame, tables
    <3> QED BY <3>1, <3>2
  <2>5. Sees(w)' /\ Decided(w)'
    <3>1. CASE Commit(w) BY <3>1, CommitEnds, EndsDeciding
    <3>2. CASE ~Commit(w) BY <2>1, <3>2, StepsKeepDeciding
    <3> QED BY <3>1, <3>2
  <2>6. \A v \in Worker : Sees(v)' /\ Decided(v)'
    BY <2>2, <2>4, <2>5, OthersKeepDeciding DEF Effect
  <2> QED BY <1>1, <2>3, <2>6 DEF LifeInv, TidyTables
<1>3. CASE UNCHANGED vars
  <2>1. Inv' BY <1>3, Stutter DEF LifeInv
  <2>2. \A w \in Worker : Sees(w)' /\ Decided(w)'
    BY <1>3 DEF LifeInv, Sees, Decided, Holds, Product, LastSku, SkusOf, Live, vars,
                tables, locks, session
  <2> QED BY <1>1, <2>1, <2>2 DEF LifeInv, TidyTables
<1> QED BY <1>2, <1>3

\* In every reachable state each handler decides from the product's SKUs and
\* status as they will be when it commits, and the tables are tidy.
THEOREM LifeInvariance == Spec => []LifeInv
BY LifeInit, LifeNext, PTL DEF Spec

\* Every run of the service is a run of the lifecycle: each request about a
\* product happens at one instant, on the status, SKUs and reports of that instant.
THEOREM LifecycleImplemented == Spec => LifecycleSpec
<1>1. Init => Lifecycle!Init BY DEF Init, Lifecycle!Init
<1>2. LifeInv /\ [Next]_vars => [Lifecycle!Next]_(Lifecycle!shop) BY LifecycleStep
<1> QED BY <1>1, <1>2, LifeInvariance, PTL DEF Spec, LifecycleSpec, Lifecycle!Spec

\* A CREATED product has no SKU, whatever creations and deletions race: its next
\* SKU will be a first one and be announced to moderation.
THEOREM CreatedIsEmpty == Spec => []CreatedHasNoSkus
<1>1. LifeInv => CreatedHasNoSkus BY DEF LifeInv
<1> QED BY <1>1, LifeInvariance, PTL

\* The verdict MODERATED leaves no trace of an earlier block, and nothing brings
\* one back while the product stays MODERATED.
THEOREM ModeratedStaysClean == Spec => []ModeratedIsClean
<1>1. LifeInv => ModeratedIsClean BY DEF LifeInv
<1> QED BY <1>1, LifeInvariance, PTL

\* The SKUs that PRODUCT_BLOCKED listed before the commit are those that B2C can
\* sell at the commit.
THEOREM AnnouncedExactly == Spec => []BlockedAnnouncementExact
<1>1. LifeInv => BlockedAnnouncementExact
  <2> SUFFICES ASSUME LifeInv, NEW w \in Worker, At(w, "commit", {"moderation"})
               PROVE  BlockedListing(w) =
                        {s \in SkusOf(req[w].product) : Live(s) /\ skuRow[s].active > 0}
    BY DEF BlockedAnnouncementExact
  <2>1. req[w].product \in ProductId /\ holder[req[w].product] = w
    BY ProductReady DEF LifeInv, At
  <2>2. \A s \in SkusOf(req[w].product) : seenSku[w][s] = skuRow[s]
    BY <2>1 DEF LifeInv, Sees, SkusOf, At
  <2> QED BY <2>2 DEF BlockedListing, Live
<1> QED BY <1>1, LifeInvariance, PTL
=============================================================================
