SPECIFICATION Spec
CONSTANTS
  Stock = {"a", "b", "c"}
  Group = {"root", "core"}
  Root = "root"
  Children <- Tree
  Price <- Prices
  Unit = 2
  One = 8
  Parts = 2
  Fee = 4
  ShareFee = 4
  DailyFee = 8
  Portfolios <- ManyPortfolios
INVARIANTS
  OrdersAllowed
  ValueConserved
  ReserveKept
PROPERTIES
  RebalancingEnds
