SPECIFICATION FairSpec
CONSTANTS
  j1 = j1  j2 = j2  j3 = j3  j4 = j4
  p = p  q = q  r = r  s = s  t = t
  ann = ann  bob = bob  phones = phones  cases = cases
  NoSlug = NoSlug
  MaxSuffix = 3
  Job = {j1, j2, j3, j4}
  Product = {p, q, r, s, t}
  Seller = {ann, bob}
  Category = {phones, cases}
  SellerOf <- MCSellerOf
  InitialCategory <- MCInitialCategory
  Base = {"iphone", "iphone-1"}
  Slug <- MCSlug
  Candidate <- MCCandidate
  InitialSlug <- MCInitialSlug
  Worlds <- MCWorlds
INVARIANTS TypeOK SlugsUnique ErrorsOvertaken FirstFreeSlug
PROPERTIES EveryJobEnds
CHECK_DEADLOCK FALSE
