CONSTANTS
  w1 = w1
  w2 = w2
  Withdrawals <- TwoWithdrawals
  Amount <- TwoAmounts
  MaxBalance = 3
  MaxCrashes = 2
  Faults = {}
SPECIFICATION FairSpec
INVARIANTS TypeOK RefundedOnce NeverPaidAndRefunded BooksMatch
PROPERTIES StatusLifecycle ImplementsSettlement InFlightResolves DeliveryResolves
CHECK_DEADLOCK FALSE
