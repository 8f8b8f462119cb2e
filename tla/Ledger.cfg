CONSTANTS
  ann = ann
  bob = bob
  joe = joe
  t1 = t1
  s1 = s1
  s2 = s2
  p1 = p1
  p2 = p2
  Users <- ThreeUsers
  Opening <- OpeningBalances
  Members <- TwoMembers
  Transfers <- OneTransfer
  From <- OneSender
  To <- OneRecipient
  Amount <- OneAmount
  SplitCrash = FALSE
  Schedules <- TwoSchedules
  Payer <- TwoPayers
  Price <- TwoPrices
  EndDate <- TwoEnds
  Passes = {p1, p2}
  MaxTime = 3
  MaxCrashes = 1
SPECIFICATION FairSpec
INVARIANTS LedgerTypeOK Conserved
PROPERTIES NotReadAgain DueHandled
CHECK_DEADLOCK FALSE
