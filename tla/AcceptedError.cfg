CONSTANTS
  w1 = w1
  w2 = w2
  Withdrawals <- OneWithdrawal
  Amount <- OneAmount
  MaxBalance = 1
  MaxCrashes = 1
  Faults = {"accepted_error"}
SPECIFICATION Spec
INVARIANTS NeverPaidAndRefunded
CHECK_DEADLOCK FALSE
