SPECIFICATION BegunSpec
CONSTANTS
  p1 = p1
  p2 = p2
  p3 = p3
  p4 = p4
  u1 = u1
  NoUser = NoUser
  Invocation = {p1, p2, p3, p4}
  UserIds = {u1}
  Configured <- OneConfigured
  MaxRecords = 2
  Thresholds = {2}
  MaxAlive = 2
INVARIANTS
  OneAnonymousUser
  BacklogFlushed
PROPERTIES
  NoRecordLost
  DropsOnlyExcess
  EveryCommandEnds
