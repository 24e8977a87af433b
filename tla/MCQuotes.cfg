SPECIFICATION LiveSpec
CONSTANTS
  p1 = p1
  p2 = p2
  Proc = {p1}
  Stock = {"BND", "VTI"}
  Provider = {"static", "tbank", "cbr", "spb"}
  Route <- RouteOf
  Providers <- StaticTbankCbr
  Forex = {"static", "tbank", "cbr"}
  StocksOf <- Serves
  AnyDirection = {"tbank"}
  Static = {"BND"}
  ExpireTime = 1
  MaxTime = 1
INVARIANTS
  GetAnswers
  DownloadedAgree
  PreferredFirst
PROPERTIES
  EveryPlanEnds
