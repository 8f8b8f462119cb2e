CONSTANTS
  t1 = t1
  t2 = t2
  hash1 = hash1
  hash2 = hash2
  Transactions <- TwoTransactions
  Hash <- OwnHashes
  OnArc <- ArcTransactions
  Wires = {w1}
  Hooks = {h1, h2}
  Poll = poll
  MaxNotices = 2
  MaxCrashes = 0
SPECIFICATION Spec
INVARIANTS WireCreditedOnce
CHECK_DEADLOCK FALSE
