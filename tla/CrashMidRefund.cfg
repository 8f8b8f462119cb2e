CONSTANTS
  w1 = w1
  w2 = w2
  Withdrawals <- OneWithdrawal
  Amount <- OneAmount
  MaxBalance = 1
  MaxCrashes = 1
  Faults = {"crash_mid_refund"}
SPECIFICATION Spec
INVARIANTS RefundedOnce
CHECK_DEADLOCK FALSE
