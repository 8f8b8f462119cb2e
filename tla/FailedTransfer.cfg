CONSTANTS
  w1 = w1
  w2 = w2
  Withdrawals <- OneWithdrawal
  Amount <- OneAmount
  MaxBalance = 1
  MaxCrashes = 1
  Faults = {}
SPECIFICATION FairSpec
PROPERTIES FailedTransferRefunded
CHECK_DEADLOCK FALSE
