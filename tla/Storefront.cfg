SPECIFICATION StorefrontSpec
CONSTANTS
  cheap = cheap  dear = dear  b = b  c = c  n = n
  p = p  q = q  r = r  u = u
  own = own  other = other
  Whole = Whole
  SkuId = {cheap, dear, b, c, n}
  ProductId = {p, q, r, u}
  SellerId = {own, other}
  Asked = {p, q, r, u}
  InitialSelected = {p, q, r}
  Unborn = {u}
  ProductOf <- MCProductOf
  SellerOf <- MCSellerOf
  InitialSku <- MCSku
  InitialProduct <- MCProduct
  InitialPrice <- MCPrice
  CreatedAt <- MCCreatedAt
  Queries <- MCQueries
  Quantity = {0, 1}
  Prices = {2}
  Row0 <- NoRow
  WholeProduct = Whole
  MaxWrites = 2
INVARIANTS CatalogTypeOK MissesExplained RepeatsExplained ShownAsSorted
  UndisturbedWalkComplete
  DetailTypeOK ErrorsExplained ReportsNameShownSkus PublicDetailOnSale
CHECK_DEADLOCK FALSE
