CONSTANTS
  t1 = t1
  t2 = t2
  hash1 = hash1
  hash2 = hash2
  Transactions <- TwoTransactions
  Hash <- OwnHashes
  OnArc <- ArcTransactions
  Wires = {w1}
  Hooks = {h1}
  Poll = poll
  MaxNotices = 1
  MaxCrashes = 1
SPECIFICATION FairSpec
INVARIANTS DepositsTypeOK CreditsMatch
PROPERTIES ImplementsCrediting
CHECK_DEADLOCK FALSE
