SPECIFICATION FairExchangeSpec
CONSTANTS
  a = a  n = n  p = p  Whole = Whole  Idle = Idle
  SkuId = {a, n}
  ProductId = {p}
  ProductOf <- MCProductOf
  InitialSku <- MCSku
  InitialProduct <- MCProduct
  Quantity = {0}
  Row0 <- NoRow
  WholeProduct = Whole
  MaxVersion = 3
  MaxFaults = 2
INVARIANTS ExchangeTypeOK StaleApprovalExplained
PROPERTIES EveryReviewEnds
CHECK_DEADLOCK FALSE
