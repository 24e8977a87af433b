SPECIFICATION Spec
CONSTANTS
  Window = 1
  YearLength = 2
  Filer = "copied"
  Quantity <- Shares
  Result <- Results
  Opening <- OneCarried
  MaxTrades = 2
  MaxDay = 5
  MaxReturns = 2
INVARIANTS
  DeductedOnce
