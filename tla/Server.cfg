CONSTANTS
  ann = ann
  bob = bob
  joe = joe
  r1 = r1
  r2 = r2
  c1 = c1
  Users <- Emails
  Opening <- OneFunded
  Requests <- TwoRequests
  Routes <- Mixed
  Codes = {c1}
  CodeOf <- OneCode
  Trials <- MaybeTrial
  Payee <- PayoutEmails
  Subscriber = ann
  Joined = {bob}
  Price = 1
  Period = 2
  MaxRetries = 2
  Passes = {pass1}
  MaxDay = 2
  MaxEvents = 1
  v1 = v1
  v2 = v2
  o1 = o1
  o2 = o2
  OtpCodes = {o1, o2}
  Nothing = nothing
  Confirms = {v1, v2}
  Presents <- TwoPresent
  MaxFailures = 1
  MaxIssues = 1
  MaxOtpRestarts = 1
  SignIns = {in1}
  Resets = {reset1, reset2}
  Changes = {change1}
  MaxStops = 1
  Setups = {set1, set2}
  Enables = {en1}
  Disables = {dis1}
  TotpChecks = {chk1}
  TimeSteps = {1, 2}
  Devices = {dev1}
  Tickets = {tk1}
  Biometrics = {bio1, bio2}
  Missing = missing
  MaxReboots = 1
  Events = {ev1}
  Workers = {wk1, wk2}
  MaxAttempts = 2
  MaxReplays = 1
  MaxHalts = 1
  UserWallets = {uw1}
  Sweeps = {sw1}
  Worker = worker
  Payout = payout
  Admin = admin1
  Networks = {"evm", "arc", "solana", "unsupported"}
  Float = 1
  MinSweep = 1
  Stock = 1
  MaxArrivals = 1
  MaxFaults = 1
  Inbound = {tx1, tx2}
  Pollers = {indexer}
  Capacity <- OneAtATime
  Buffer = 1
  Lookback = 2
  Delay = 1
  MaxTime = 3
  MaxOutages = 1
  Provisionings = {job1, job2}
  EvmChains = {base, arb}
  OtherChains = {sol}
  BaseChain = base
  MaxRefusals = 2
  p1 = p1
  p2 = p2
  Publications = {p1, p2}
  Terms <- TwoPlans
  MerchantIds = {m1, m2}
  Pages = {page1}
  MaxBreaks = 1
  Callers = {caller1}
  Keys = {key1}
  Threshold = 2
  StrikeWindow = 2
  BlockLengths <- Escalating
  RateLimit = 2
  Budget = 1
  Minute = 1
  RecordTtl = 2
  MaxClock = 3
  MaxRequests = 3
  MaxWipes = 1
  b1 = b1
  b2 = b2
  Burners = {b1, b2}
  Want <- Wants
  Destination <- Destinations
  Priority <- SourceChainPriority
  Delegated = {"base"}
  Stocks = {0, 4}
  Fee = 1
  Headroom = 1
  Dust = 2
  MaxDeposits = 1
  MaxErrors = 1
  Registrations = {reg1, reg2}
  Resends = {resend1}
  Clicks = {click1}
  Entries = {entry1, entry2}
  Googles = {google1, google2}
  Logins = {login1, login2}
  Checks = {check1, check2}
  LoginMaxAttempts = 2
  MaxChecks = 1
  Lifetime = 1
  WithTotp = TRUE
  LastTick = 2
  MaxHandled = 3
  Payments = {pay1, pay2}
  Revocations = {rev1}
  FirstPasswords = {fp1}
  PasswordChanges = {chg1}
  MaxPassportHalts = 1
  KeyRequests = {kr1}
  Erasures = {er1, er2}
  Inserts = {ins1}
  Kept = {"otp_codes", "withdrawals"}
  MaxErasureHalts = 1
  q1 = q1
  q2 = q2
  q3 = q3
  Instructed = {q1, q2, q3}
  InstructedTo <- TwoUsers
  WiresSent = {wire1, wire2}
  MaxBankErrors = 1
  MaxItems = 4
  TableOf <- TwoTables
  PageSize = 2
  Recipients = {kemi, ada}
  Named = {ada}
  Wallet = wallet
  Nobody = nobody
  MaxJobs = 3
  MaxLeaves = 1
SPECIFICATION ServerSpec
INVARIANTS
  ServerTypeOK
  CodeChargesOnce AcceptedOnce
  OlderSessionsEnded ActiveSecretProved OneSessionPerTicket StepPassedOnce
  NotGivenUpEarly NotPassedOver ShownAndSold
  BlockedForCause BurnedAsAsked ChallengeBounded
  OnlyOvertakenReinstate ErasedWhenGone
  WireReachesSender NoneSkipped SentAsReviewed
PROPERTIES
  EventComesToRest WalletsSwept ExcessDeposited UserReady
CHECK_DEADLOCK FALSE
