SPECIFICATION Spec
CONSTANTS
  CarryforwardYears = 2
  Mode = {"None", "Aeat", "Navarra"}
  Results <- Amount
  MaxYear = 4
INVARIANTS
  LossConserved
  CrossLimited
  AbsorbsMaximum
PROPERTIES
  NothingWasted
