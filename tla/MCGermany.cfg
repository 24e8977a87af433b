SPECIFICATION Spec
CONSTANTS
  Amounts <- Moves
  Rates <- Prices
  Openings <- Opened
  MaxRows = 4
  MaxLost = 1
  Symbol = {"share", "fund"}
  FundClass <- ShareAndFund
  SaleResults <- Results
  Payouts <- PayoutsOf
  Interests = {5}
  Navs <- YearPrices
  BaseYield <- TenPercent
  Allowance = 100
  MaxHeld = 2
  LastDate = 4
  Mixes <- Combinations
CHECK_DEADLOCK FALSE
INVARIANTS
  QueueInOrder
  LedgerReproduced
  LossesUsedOnce
  VorabpauschaleTaxedOnce
  LateFilingAgrees
  FormsMatchEstimate
PROPERTIES
  PromiseKept
