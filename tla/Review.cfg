SPECIFICATION Spec
CONSTANTS
  a = a  b = a  n = n  c = c
  p = p  q = q
  own = own  other = other
  k1 = k1  k2 = k2  k3 = k3
  c1 = c1  c2 = c2  old = old  new = new  code = code
  Nobody = Nobody  NoRequest = NoRequest  NoName = NoName
  NewProduct = NewProduct  WholeProduct = WholeProduct
  Key = {k1, k2, k3}
  SellerId = {own, other}
  CategoryId = {c1, c2}
  Slug = {}
  Article = {}
  SkuId = {a, n}
  ProductId = {p}
  ProductOf <- MCProductOf
  SellerOf <- MCSellerOf
  InitialSku <- NoSkus
  InitialIndex <- MCIndex
  InitialCategory <- MCCategory
  InitialProduct <- New
  Request <- ReviewRequests
  Worker = {w1, w2}
SYMMETRY ThreadSymmetry
INVARIANTS CreatedHasNoSkus ModeratedIsClean
PROPERTIES LifecycleSpec
