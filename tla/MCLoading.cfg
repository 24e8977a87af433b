SPECIFICATION Spec
CONSTANTS
  Issuer = {"A"}
  LastDay = 4
  MonthLength = 2
  Weekend = {3}
  Brokers = {"InteractiveBrokers", "Firstrade", "Open", "Sber"}
  Terms <- SomeTerms
  Misdating = TRUE
  MaxPostings = 3
  MaxFiles = 3
INVARIANTS
  CompleteFilesLoad
  LoadedAsPosted
  OnlyRefundsDropped
  NothingMissed
