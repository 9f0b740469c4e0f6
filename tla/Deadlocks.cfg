SPECIFICATION Spec
CONSTANTS
  a = a  b = b  n = n  c = c
  p = p  q = q
  own = own  other = other
  k1 = k1  k2 = k2  k3 = k3
  c1 = c1  c2 = c2  old = old  new = new  code = code
  Nobody = Nobody  NoRequest = NoRequest  NoName = NoName
  NewProduct = NewProduct  WholeProduct = WholeProduct
  Key = {k1, k2}
  SellerId = {own, other}
  CategoryId = {c1, c2}
  Slug = {old, new}
  Article = {code}
  SkuId = {a, b}
  ProductId = {p, q}
  ProductOf <- MCProductOf
  SellerOf <- TwoSellers
  InitialSku <- HalfReserved
  InitialIndex <- MCIndex
  InitialCategory <- MCCategory
  InitialProduct <- OnSale
  Request <- LockRequests
  Worker = {w1, w2, w3}
SYMMETRY ThreadSymmetry
CONSTRAINT FewWrites
INVARIANTS DeadlockShape
