CONSTANTS
  ann = ann
  bob = bob
  joe = joe
  r1 = r1
  r2 = r2
  c1 = c1
  Users <- Emails
  Opening <- NothingYet
  Requests <- TwoRequests
  Routes <- Checkouts
  Codes = {c1}
  CodeOf <- OneCode
  Trials <- TrialDay
  Payee <- PayoutEmails
  Subscriber = ann
  Joined = {bob}
  Price = 1
  Period = 2
  MaxRetries = 2
  Passes = {p1}
  MaxDay = 2
  MaxEvents = 2
SPECIFICATION SubscriptionsSpec
INVARIANTS ChargedOncePerDue
CHECK_DEADLOCK FALSE
