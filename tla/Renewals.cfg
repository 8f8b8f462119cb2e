CONSTANTS
  ann = ann
  bob = bob
  joe = joe
  r1 = r1
  r2 = r2
  c1 = c1
  Users <- Emails
  Opening <- OneFunded
  Requests = {r1}
  Routes <- OneRequest
  Codes = {c1}
  CodeOf <- OnesCode
  Trials <- OnesTrial
  Payee <- OnesPayout
  Subscriber = ann
  Joined = {bob}
  Price = 1
  Period = 2
  MaxRetries = 2
  Passes = {p1, p2}
  MaxDay = 2
  MaxEvents = 2
SPECIFICATION BillingSpec
INVARIANTS NoFreePeriod FailedAfterRetries
PROPERTIES DueBilled
CHECK_DEADLOCK FALSE
