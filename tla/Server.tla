-------------------------------- MODULE Server --------------------------------
(***************************************************************************)
(* The parts of the server that share no state with each other, side by    *)
(* side.  Whatever one of them does leaves the others as they are, so a    *)
(* behaviour of the server is one of each part, shuffled, and a property   *)
(* of one part holds if it holds while that part alone is served: focus    *)
(* says which.                                                             *)
(***************************************************************************)
EXTENDS Subscriptions, OneTimeCodes, Sessions, SecondFactor, WebhookDelivery,
        Treasury, PollWindow, Wallets, Plans, Throttle, Burns, Accounts,
        Passports, Erasure, WireAccounts, History, SendFlow

VARIABLE focus  \* the part that is served

Parts ==
  {"subscriptions", "codes", "sessions", "factor", "webhooks", "treasury",
   "window", "wallets", "plans", "throttle", "burns", "accounts",
   "passports", "erasure", "wires", "history", "sending"}

InitServer ==
  /\ focus \in Parts
  /\ InitSubscriptions /\ InitOneTimeCodes /\ InitSessions /\ InitSecondFactor
  /\ InitWebhooks /\ InitTreasury /\ InitPollWindow /\ InitWallets
  /\ InitPlans /\ InitThrottle /\ InitAccounts /\ InitBurns
  /\ InitPassports /\ InitErasure
  /\ InitWireAccounts /\ InitHistory /\ InitSendFlow
  /\ focus # "burns" => /\ \A c \in SourceChains : unified[c] = 0
                        /\ \A b \in Burners : tokenAccount[b] = "none"
  /\ focus # "treasury" => network = "evm"
  /\ focus # "erasure" => rows = {}
  /\ focus # "sending" => ~ approving.available

Serves(part) == focus = part /\ UNCHANGED focus

\* The parts other than the one that is served.
Rest ==
  /\ IF focus = "subscriptions" THEN TRUE ELSE UNCHANGED subscriptionVars
  /\ IF focus = "codes" THEN TRUE ELSE UNCHANGED otpVars
  /\ IF focus = "sessions" THEN TRUE ELSE UNCHANGED sessionVars
  /\ IF focus = "factor" THEN TRUE ELSE UNCHANGED factorVars
  /\ IF focus = "webhooks" THEN TRUE ELSE UNCHANGED webhookVars
  /\ IF focus = "treasury" THEN TRUE ELSE UNCHANGED treasuryVars
  /\ IF focus = "window" THEN TRUE ELSE UNCHANGED windowVars
  /\ IF focus = "wallets" THEN TRUE ELSE UNCHANGED walletVars
  /\ IF focus = "plans" THEN TRUE ELSE UNCHANGED plansVars
  /\ IF focus = "throttle" THEN TRUE ELSE UNCHANGED throttleVars
  /\ IF focus = "burns" THEN TRUE ELSE UNCHANGED burnVars
  /\ IF focus = "accounts" THEN TRUE ELSE UNCHANGED accountVars
  /\ IF focus = "passports" THEN TRUE ELSE UNCHANGED passportVars
  /\ IF focus = "erasure" THEN TRUE ELSE UNCHANGED erasureVars
  /\ IF focus = "wires" THEN TRUE ELSE UNCHANGED wireVars
  /\ IF focus = "history" THEN TRUE ELSE UNCHANGED historyVars
  /\ IF focus = "sending" THEN TRUE ELSE UNCHANGED sendVars

ServerStep ==
  \/ Serves("subscriptions") /\ Rest /\ SubscriptionsStep
  \/ Serves("codes") /\ Rest /\ OtpStep
  \/ Serves("sessions") /\ Rest /\ SessionsStep
  \/ Serves("factor") /\ Rest /\ FactorStep
  \/ Serves("webhooks") /\ Rest /\ WebhookStep
  \/ Serves("treasury") /\ Rest /\ TreasuryStep
  \/ Serves("window") /\ Rest /\ PollWindowStep
  \/ Serves("wallets") /\ Rest /\ WalletsStep
  \/ Serves("plans") /\ Rest /\ PlansStep
  \/ Serves("throttle") /\ Rest /\ ThrottleStep
  \/ Serves("burns") /\ Rest /\ BurnStep
  \/ Serves("accounts") /\ Rest /\ AccountStep
  \/ Serves("passports") /\ Rest /\ PassportsStep
  \/ Serves("erasure") /\ Rest /\ ErasureStep
  \/ Serves("wires") /\ Rest /\ WireAccountsStep
  \/ Serves("history") /\ Rest /\ HistoryStep
  \/ Serves("sending") /\ Rest /\ SendFlowStep

serverVars ==
  <<focus, subscriptionVars, otpVars, sessionVars, factorVars, webhookVars,
    treasuryVars, windowVars, walletVars, plansVars, throttleVars, burnVars,
    accountVars, passportVars, erasureVars, wireVars, historyVars, sendVars>>

\* While it is served, each part goes on.  (The billing worker has runs of its own.)

\* The delivery timer fires every 30 seconds, a post ends within 15, and delays end.
WebhookFairness ==
  /\ \A w \in Workers : WF_webhookVars(Serves("webhooks") /\ DeliveryStep(w))
  /\ \A e \in Events : WF_webhookVars(Serves("webhooks") /\ RetryDue(e))

\* Circle executes what it took, sweeps and the worker go on, windows and
\* cooldowns end, and both timers keep firing; a wallet may be off cooldown only
\* now and then when the reconciliation looks.
TreasuryFairness ==
  /\ \A f \in Flows : WF_treasuryVars(Serves("treasury") /\ ExecuteOne(f))
  /\ \A s \in Sweeps : WF_treasuryVars(Serves("treasury") /\ SweepStep(s))
  /\ \A u \in UserWallets : SF_treasuryVars(Serves("treasury") /\ ReconcileOne(u))
  /\ WF_treasuryVars(Serves("treasury") /\ WorkerStep)
  /\ WF_treasuryVars(Serves("treasury") /\ BusyEnds)
  /\ \A key \in Cooldowns : WF_treasuryVars(Serves("treasury") /\ ForgetSweep(key))

\* A job that has begun goes on, and the user comes back: every page asks for
\* GET /auth/me.
WalletsFairness ==
  /\ \A j \in Provisionings : WF_walletVars(Serves("wallets") /\ ProvisioningStep(j))
  /\ \A j \in Provisionings : WF_walletVars(Serves("wallets") /\ Visit(j))

ServerSpec ==
  /\ InitServer /\ [][ServerStep]_serverVars
  /\ WebhookFairness /\ TreasuryFairness /\ WalletsFairness

-----------------------------------------------------------------------------
\* Types of the part that is served.
ServerTypeOK ==
  CASE focus = "subscriptions" -> SubscriptionsTypeOK
    [] focus = "codes" -> OtpTypeOK
    [] focus = "sessions" -> SessionsTypeOK
    [] focus = "factor" -> FactorTypeOK
    [] focus = "webhooks" -> WebhookTypeOK
    [] focus = "treasury" -> TreasuryTypeOK
    [] focus = "window" -> PollWindowTypeOK
    [] focus = "wallets" -> WalletsTypeOK
    [] focus = "plans" -> PlansTypeOK
    [] focus = "throttle" -> ThrottleTypeOK
    [] focus = "burns" -> BurnsTypeOK
    [] focus = "accounts" -> AccountsTypeOK
    [] focus = "passports" -> PassportsTypeOK
    [] focus = "erasure" -> ErasureTypeOK
    [] focus = "wires" -> WireAccountsTypeOK
    [] focus = "history" -> HistoryTypeOK
    [] focus = "sending" -> SendFlowTypeOK

\* However jobs overwrite each other's maps and whatever Circle refused, a user who
\* keeps coming back has a wallet on every chain in the end, and keeps it.
UserReady == focus = "wallets" => AllChainsReady
=============================================================================
