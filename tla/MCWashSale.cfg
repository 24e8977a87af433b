SPECIFICATION Spec
CONSTANTS
  Window = 1
  YearLength = 2
  Filer = "original"
  Quantity <- Shares
  Result <- Results
  Opening <- OneCarried
  MaxTrades = 4
  MaxDay = 5
  MaxReturns = 2
INVARIANTS
  DeferralConserved
  SettledReturnStands
  DeductedOnce
PROPERTIES
  DefersExactly
