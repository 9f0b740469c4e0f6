---------------------------- MODULE ProductDetail ----------------------------
(***************************************************************************)
(* GET /products/{id} for the seller, the moderation service and B2C, and    *)
(* the answer to a SKU's update.  Both are several queries with no           *)
(* transaction around them: the product, its SKUs, its field reports, the    *)
(* SKUs of those reports; the committed SKU, read again for the response.    *)
(***************************************************************************)
EXTENDS Visibility

CONSTANTS SellerId, SellerOf

VARIABLES
  principal,         \* who asks: a seller or one of the services
  asked,             \* the product, or the SKU whose update is to be answered
  stage, answer,
  row, shown, listed,  \* what the queries returned: product, SKUs, reports
  added, removed,    \* SKUs added since the SKU query, removed since the last query
  left               \* the product left the catalog since it was read

reader == <<principal, asked, stage, answer, row, shown, listed>>
ghost  == <<added, removed, left>>
detail == <<shop, reader, ghost>>

Service == {"moderation_service", "catalog_service"}

Found(p) ==
  CASE principal = "catalog_service"    -> VisibleInCatalog(p)
    [] principal = "moderation_service" -> TRUE
    [] OTHER                            -> SellerOf[p] = principal

DetailInit ==
  /\ Init
  /\ \/ principal \in SellerId \union Service /\ asked \in ProductId /\ stage = "product"
     \/ principal \in SellerId /\ asked \in SkuId /\ stage = "commit"
  /\ answer = "none"
  /\ row = [status |-> "CREATED", deleted |-> FALSE, reason |-> FALSE]
  /\ shown = {} /\ listed = {}
  /\ added = {} /\ removed = {} /\ left = FALSE

\* Mutant: the not-found answer does not return.
ReadRowAndGoOn ==
  /\ stage = "product"
  /\ row' = product[asked] /\ stage' = "skus"
  /\ answer' = IF Found(asked) THEN answer ELSE "not_found"
  /\ left' = FALSE
  /\ UNCHANGED <<shop, principal, asked, shown, listed, added, removed>>

ReadRow ==
  /\ stage = "product"
  /\ \/ /\ ~Found(asked)
        /\ stage' = "done" /\ answer' = "not_found"
        /\ UNCHANGED row
     \/ /\ Found(asked)
        /\ row' = product[asked] /\ stage' = "skus"
        /\ UNCHANGED answer
  /\ left' = FALSE
  /\ UNCHANGED <<shop, principal, asked, shown, listed, added, removed>>

\* Mutant: everybody is shown the SKUs on the shelf only.
ReadSkusOnShelf ==
  /\ stage = "skus"
  /\ shown' = {s \in LiveSkus(asked) : OnShelf(s)}
  /\ stage' = "reports"
  /\ added' = {}
  /\ UNCHANGED <<shop, principal, asked, answer, row, listed, removed, left>>

\* Everybody's query returns all the SKUs; the public answer keeps those on the shelf.
ReadSkus ==
  /\ stage = "skus"
  /\ shown' = {s \in LiveSkus(asked) : principal = "catalog_service" => OnShelf(s)}
  /\ stage' = "reports"
  /\ added' = {}
  /\ UNCHANGED <<shop, principal, asked, answer, row, listed, removed, left>>

ReadReports ==
  /\ stage = "reports"
  /\ listed' = reports[asked]
  /\ stage' = "report_skus"
  /\ removed' = {}
  /\ UNCHANGED <<shop, principal, asked, answer, row, shown, added, left>>

\* The reports and the reason are shown for BLOCKED only, never to B2C.
ShowsReports == row.status = "BLOCKED" /\ principal # "catalog_service"
ShownReports == IF ShowsReports THEN listed ELSE {}

\* A report whose SKU is gone has sku = None: report.sku.uuid fails.
ReadReportSkus ==
  /\ stage = "report_skus"
  /\ answer' = IF ShownReports \subseteq LiveSkus(asked) \union {WholeProduct}
               THEN "ok" ELSE "error"
  /\ stage' = "done"
  /\ UNCHANGED <<shop, principal, asked, row, shown, listed, ghost>>

\* update_sku commits; then the controller reads the SKU again to answer.
CommitSkuUpdate ==
  /\ stage = "commit"
  /\ LET owner == ProductOf[asked]
         refused == ~(sku[asked].state = "live" /\ SellerOf[owner] = principal
                      /\ Writable(owner))
     IN \/ /\ refused
           /\ stage' = "done" /\ answer' = "refused"
           /\ UNCHANGED shop
        \/ /\ ~refused
           /\ stage' = "reread"
           /\ Edit(owner) \/ (product[owner].status \notin Reviewed /\ UNCHANGED shop)
           /\ UNCHANGED answer
  /\ removed' = {}
  /\ UNCHANGED <<principal, asked, row, shown, listed, added, left>>

RereadSku ==
  /\ stage = "reread"
  /\ answer' = IF sku[asked].state = "live" THEN "ok" ELSE "error"
  /\ stage' = "done"
  /\ UNCHANGED <<shop, principal, asked, row, shown, listed, ghost>>

\* Any other request commits in between (an order with several SKUs moves them one
\* by one: the queries, which read between the moves or after, see no more of it).
Write ==
  /\ stage # "done"
  /\ Change \/ \E s \in SkuId, n, m \in Quantity : MoveUnits(s, n, m)
  /\ UNCHANGED reader
  /\ added' = added \union {s \in SkuId : sku[s].state = "unborn" /\ sku'[s].state = "live"}
  /\ removed' = removed \union {s \in SkuId : sku[s].state = "live" /\ sku'[s].state # "live"}
  /\ left' = (\/ left
              \/ asked \in ProductId /\ VisibleInCatalog(asked) /\ ~VisibleInCatalog(asked)')

Read == ReadRow \/ ReadSkus \/ ReadReports \/ ReadReportSkus

UpdateSku == CommitSkuUpdate \/ RereadSku

DetailNext == Read \/ UpdateSku \/ Write

DetailSpec == DetailInit /\ [][DetailNext]_detail

-----------------------------------------------------------------------------
DetailTypeOK ==
  /\ stage \in {"product", "skus", "reports", "report_skus", "commit", "reread", "done"}
  /\ answer \in {"none", "ok", "not_found", "refused", "error"}
  /\ shown \subseteq SkuId
  /\ listed \subseteq SkuId \union {WholeProduct}
  /\ answer = "none" <=> stage # "done"

\* A detail is answered 500 only if a reported SKU was removed after the reports
\* were read; a SKU's update that committed, only if the SKU was removed before
\* the answer was built.
ErrorsExplained ==
  answer = "error" =>
    IF asked \in SkuId THEN asked \in removed ELSE ShownReports \intersect removed # {}

\* A shown report is about the whole product or a SKU the same answer lists,
\* except one added (and reported) between the two queries: reports go with
\* their SKU, whatever is removed in between.
ReportsNameShownSkus ==
  answer = "ok" /\ asked \in ProductId =>
    ShownReports \ {WholeProduct} \subseteq shown \union added

\* B2C is shown a moderated product with a SKU to sell, unless the product left
\* the catalog while it was being read.
PublicDetailOnSale ==
  answer = "ok" /\ asked \in ProductId /\ principal = "catalog_service" =>
    row.status = "MODERATED" /\ ~row.deleted /\ ShownReports = {} /\ (shown # {} \/ left)
=============================================================================
