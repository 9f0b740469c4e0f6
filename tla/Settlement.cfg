SPECIFICATION FairOrderSpec
CONSTANTS
  a = a  b = b  p = p
  o1 = o1  o2 = o2
  SkuId = {a, b}
  ProductId = {p}
  OrderId = {o1, o2}
  Impatient = {o2}
  ProductOf <- MCProductOf
  InitialSku <- MCSku
  Lines <- MCLines
  Request <- OrderRequests
  Row0 <- NoRow
INVARIANTS OrderTypeOK ReservesCovered SettlementNotRefused NothingLeaks
PROPERTIES EveryOrderEnds
CHECK_DEADLOCK FALSE
