---------------------------- MODULE StorefrontMC ----------------------------
(***************************************************************************)
(* A client of the shop: it walks the catalog or a list (Catalog), or it asks *)
(* for a product or updates a SKU (ProductDetail).  Three products: a new one *)
(* and the oldest on sale, one blocked; the newest has a cheap and a dear SKU, *)
(* so that selling out moves it; the blocked one will get a second SKU.  A     *)
(* fourth product is created while somebody reads.                             *)
(***************************************************************************)
EXTENDS Catalog, ProductDetail, TLC

CONSTANTS cheap, dear, b, c, n,  \* SKUs; n is not created yet
          p, q, r, u,            \* products; u is not created yet
          own, other,            \* sellers; own has all products
          Whole

VARIABLE client                  \* "list" or "detail"

catalog == <<price, selected, unborn, walker, touched, constant, changes>>

storefront == <<detail, client, catalog, writes>>

MCProductOf == cheap :> p @@ dear :> p @@ b :> q @@ c :> r @@ n :> r
MCSellerOf  == [x \in ProductId |-> own]
MCCreatedAt == p :> 3 @@ q :> 1 @@ r :> 2 @@ u :> 4
MCPrice     == cheap :> 1 @@ dear :> 3 @@ b :> 2 @@ c :> 2 @@ n :> 2
NoRow       == [state |-> "unborn", active |-> 0, reserved |-> 0]
MCSku == [s \in SkuId |->
  IF s = n THEN NoRow ELSE [state |-> "live", active |-> 1, reserved |-> 0]]
MCProduct == [x \in ProductId |->
  [status |-> CASE x = r -> "BLOCKED" [] x = u -> "CREATED" [] OTHER -> "MODERATED",
   deleted |-> FALSE, reason |-> x = r]]

AnyStatus == Verdict \union {"CREATED", "ON_MODERATION"}

MCQueries ==
  [mode : {"catalog"}, sort : {"price_asc", "price_desc", "date_desc"}, limit : {1, 2}]
  \union [mode : {"seller"}, sort : {"date_desc"}, limit : {1, 101},
          statuses : {AnyStatus}, includeDeleted : {FALSE}]
  \union [mode : {"seller"}, sort : {"date_desc"}, limit : {1},
          statuses : {{"MODERATED"}}, includeDeleted : {TRUE}]

-----------------------------------------------------------------------------
StorefrontInit ==
  /\ CatalogInit /\ DetailInit
  /\ \/ client = "list" /\ principal = own /\ asked = r
     \/ client = "detail" /\ query = CHOOSE one \in Queries : TRUE

StorefrontNext ==
  /\ UNCHANGED client
  /\ \/ client = "list" /\ CatalogNext /\ UNCHANGED <<reader, ghost>>
     \/ /\ client = "detail"
        /\ \/ Read /\ UNCHANGED writes
           \/ UpdateSku /\ UNCHANGED writes
           \/ Write /\ writes < MaxWrites /\ writes' = writes + 1
        /\ UNCHANGED catalog

StorefrontSpec == StorefrontInit /\ [][StorefrontNext]_storefront
=============================================================================
