SPECIFICATION Spec
CONSTANTS
  p1 = p1
  p2 = p2
  Proc = {p1, p2}
  Bank = {"Cbr"}
  MainBank = "Cbr"
  Currency = {"USD", "EUR"}
  Base = "Base"
  BankOf <- AllCbr
  Ahead <- AheadOf
  Window = 1
  MaxBack = 2
  MaxDay = 3
  Pairs <- Cross
  AtOnce <- Overlap
SYMMETRY Symmetry
INVARIANTS
  StoredOfficial
  NothingExpectedMissing
  AnswersOfficial
