CONSTANTS
  t1 = t1
  t2 = t2
  hash1 = hash1
  hash2 = hash2
  Transactions <- TwoTransactions
  Hash <- SharedHash
  OnArc <- ArcTransactions
  Wires = {}
  Hooks = {}
  Poll = poll
  MaxNotices = 0
  MaxCrashes = 0
SPECIFICATION FairSpec
PROPERTIES EventuallyCredited
CHECK_DEADLOCK FALSE
