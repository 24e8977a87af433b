SPECIFICATION Spec
CONSTANTS
  Issuer = {"A"}
  LastDay = 4
  MonthLength = 2
  Weekend = {3}
  Brokers = {"InteractiveBrokers"}
  Terms <- SomeTerms
  Misdating = TRUE
  MaxPostings = 2
  MaxFiles = 3
INVARIANTS
  DroppingErrsAgainstTaxpayer
