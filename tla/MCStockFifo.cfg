SPECIFICATION LiveSpec
CONSTANTS
  Symbol = {"A", "B"}
  Traded = {"A"}
  Unit = 1209600
  Scale = 16
  Ratios <- AllRatios
  Exact = {1, 2, 4, 8, 16, 32, 64}
  RussianBroker = FALSE
  NewestFirst = TRUE
  Kinds = {"buy", "sell", "split", "rename", "spinoff", "delisting", "emulation"}
  Quantities = {1, 2}
  MaxEvents = 5
  MaxHeld = 4
  MaxSells = 1
INVARIANTS
  LegalStatementLoads
  HistoryReproduced
  CostConserved
PROPERTIES
  MatchedStays
  LoadingEnds
