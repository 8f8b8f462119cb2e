------------------------------ MODULE Treasury ------------------------------
(***************************************************************************)
(* The coins of one chain on their way from the users' wallets to the      *)
(* treasury and from there into the Unified Balance.  Sweeps, the treasury *)
(* sweep worker, withdrawals and the admin move the same treasury; what    *)
(* keeps them apart is a busy window in memory.  Circle executes what was  *)
(* submitted later, in any order, if it can.                               *)
(*                                                                         *)
(* Time is left out: a window or a cooldown may end at any time.           *)
(***************************************************************************)
EXTENDS Naturals

CONSTANTS
  Networks,     \* kinds of chain this one may be
  UserWallets,  \* deposit wallets on this chain
  Sweeps,       \* calls of evmGatewaySweep, arcTestnetSweep or solanaSweep that may overlap
  Worker,       \* sweepTreasuriesOnce
  Payout,       \* a direct withdrawal
  Admin,        \* POST /api/admin/arc-depositfor
  Float,        \* TREASURY_FLOAT_USDC
  MinSweep,     \* TREASURY_MIN_SWEEP_USDC
  Stock,        \* what is in the treasury at first, and bound: what the admin deposits
  MaxArrivals,  \* bound: deposits, of 1 each
  MaxFaults     \* bound: calls and transactions that fail, waits that time out, restarts

\* A chain whose sweeps go on to the Gateway; Arc and Solana, whose sweeps end in
\* the treasury; one the Gateway does not support, or without a treasury wallet ID.
AllNetworks == {"evm", "arc", "solana", "unsupported"}

ASSUME TreasuryAssumption ==
  /\ Networks \subseteq AllNetworks
  /\ Worker \notin Sweeps /\ Payout \notin Sweeps \cup {Worker}
  /\ Admin \notin Sweeps \cup {Worker, Payout}
  /\ Float \in Nat /\ MinSweep \in Nat \ {0} /\ Stock \in Nat
  /\ MaxArrivals \in Nat /\ MaxFaults \in Nat

Flows == Sweeps \cup {Worker, Payout, Admin}

VARIABLES
  network,    \* the kind of chain, which stays
  inWallet,   \* USDC in each deposit wallet
  treasury,   \* USDC in the treasury wallet
  inGateway,    \* the treasury's Unified Balance from this chain
  approval,  \* what the Gateway contract may take from the treasury
  reports,    \* deposits credited whose sweep has not begun
  busy,       \* isTreasuryBusy
  cooling,    \* keys of _recentSweeps that are on cooldown
  sweep,      \* the next step of each sweep, its wallet and amount
  worker,     \* the next step of the worker's pass, and the balance it read
  admin,      \* the next step of the admin's deposit, and its amount
  paidOut,    \* the withdrawal was made
  submitted,  \* transactions Circle has taken
  arrivals, faults

coins == <<network, inWallet, treasury, inGateway, approval>>
treasuryJobs == <<reports, busy, cooling, sweep, worker, admin, paidOut>>
treasuryVars == <<coins, treasuryJobs, submitted, arrivals, faults>>

NoSweep == [at |-> "none", wallet |-> "none", amount |-> 0]
IdleWorker == [at |-> "idle", balance |-> 0]
NoAdmin == [at |-> "new", amount |-> 0]
AdminOver == [at |-> "over", amount |-> 0]

InitTreasury ==
  /\ network \in Networks
  /\ inWallet = [u \in UserWallets |-> 0]
  /\ treasury = Stock
  /\ inGateway = 0 /\ approval = 0
  /\ reports = [u \in UserWallets |-> 0]
  /\ busy = FALSE
  /\ cooling = {}
  /\ sweep = [s \in Sweeps |-> NoSweep]
  /\ worker = IdleWorker
  /\ admin = NoAdmin
  /\ paidOut = FALSE
  /\ submitted = {}
  /\ arrivals = 0 /\ faults = 0

Fault == faults < MaxFaults /\ faults' = faults + 1

\* A transaction of the flow f on its way; amount is what it moves or allows.
Submit(f, kind, wallet, amount) ==
  submitted' = submitted \cup {[of |-> f, kind |-> kind, wallet |-> wallet, amount |-> amount]}

-----------------------------------------------------------------------------
(***************************************************************************)
(* Circle and the chain                                                    *)
(***************************************************************************)
Arrive(u) ==
  /\ arrivals < MaxArrivals
  /\ arrivals' = arrivals + 1
  /\ inWallet' = [inWallet EXCEPT ![u] = @ + 1]
  /\ reports' = [reports EXCEPT ![u] = @ + 1]
  /\ UNCHANGED <<network, treasury, inGateway, approval, busy, cooling, sweep, worker,
                 admin, paidOut, submitted, faults>>

\* Who waits for the transaction t hears whether it succeeded.
Hear(t, ok) ==
  /\ sweep' = IF t.kind = "sweep" /\ sweep[t.of].at = "wait"
       THEN [sweep EXCEPT ![t.of].at = IF ok /\ network = "evm" THEN "approve" ELSE "end"]
       ELSE sweep
  /\ worker' = IF t.of = Worker /\ worker.at = t.kind
       THEN [worker EXCEPT !.at = IF ok /\ t.kind = "approve" THEN "approved" ELSE "end"]
       ELSE worker
  /\ admin' = IF t.of = Admin /\ admin.at = t.kind
       THEN IF ok THEN [admin EXCEPT !.at = "approved"] ELSE AdminOver
       ELSE admin

Possible(t) ==
  CASE t.kind = "sweep"      -> inWallet[t.wallet] >= t.amount
    [] t.kind = "approve"    -> TRUE
    [] t.kind = "depositFor" -> treasury >= t.amount /\ approval >= t.amount
    [] t.kind \in {"deposit", "payout"} -> treasury >= t.amount

Effect(t) ==
  CASE t.kind = "sweep" ->
         /\ inWallet' = [inWallet EXCEPT ![t.wallet] = @ - t.amount]
         /\ treasury' = treasury + t.amount
         /\ UNCHANGED <<network, inGateway, approval>>
    [] t.kind = "approve" ->
         approval' = t.amount /\ UNCHANGED <<network, inWallet, treasury, inGateway>>
    [] t.kind = "depositFor" ->
         /\ treasury' = treasury - t.amount
         /\ inGateway' = inGateway + t.amount
         /\ approval' = approval - t.amount
         /\ UNCHANGED <<network, inWallet>>
    [] t.kind = "deposit" ->
         /\ treasury' = treasury - t.amount
         /\ inGateway' = inGateway + t.amount
         /\ UNCHANGED <<network, inWallet, approval>>
    [] t.kind = "payout" ->
         treasury' = treasury - t.amount /\ UNCHANGED <<network, inWallet, inGateway, approval>>

UnchangedByChain == UNCHANGED <<reports, busy, cooling, paidOut, arrivals>>

Execute(t) ==
  /\ t \in submitted
  /\ submitted' = submitted \ {t}
  /\ Hear(t, Possible(t))
  /\ IF Possible(t) THEN Effect(t) ELSE UNCHANGED coins
  /\ UNCHANGED faults
  /\ UnchangedByChain

Reject(t) ==
  /\ t \in submitted
  /\ submitted' = submitted \ {t}
  /\ Hear(t, FALSE)
  /\ UNCHANGED coins
  /\ Fault
  /\ UnchangedByChain

-----------------------------------------------------------------------------
(***************************************************************************)
(* evmGatewaySweep, arcTestnetSweep, solanaSweep                           *)
(***************************************************************************)
MoveSweep(s, from, to) == sweep[s].at = from /\ sweep' = [sweep EXCEPT ![s].at = to]

\* Only sweeps of the first kind mark the treasury busy, and wait.
Marks == network \in {"evm", "unsupported"}

Free(s) == sweep[s] = NoSweep /\ \A t \in submitted : t.of # s

StartSweep(s, u, amount) ==
  /\ Free(s)
  /\ sweep' = [sweep EXCEPT ![s] = [at |-> "submit", wallet |-> u, amount |-> amount]]
  /\ busy' = (busy \/ Marks)

\* After a credit, by the poll or the webhook.
SweepDeposit(s, u) ==
  /\ reports[u] > 0
  /\ reports' = [reports EXCEPT ![u] = @ - 1]
  /\ StartSweep(s, u, 1)
  /\ UNCHANGED <<coins, cooling, worker, admin, paidOut, submitted, arrivals, faults>>

OnCooldown(u) == <<u, inWallet[u]>> \in cooling

\* A balance that cannot be read is taken for 0.
WalletBalance(u) == {0, inWallet[u]}

\* The reconciliation worker finds something in a wallet.  On Arc it reads the balance
\* at the address of the user's first wallet, which "all EVM wallets share" (circle.ts).
Reconcile(s, u) ==
  /\ ~ OnCooldown(u)
  /\ \E balance \in WalletBalance(u) :
       /\ balance > 0
       /\ cooling' = cooling \cup {<<u, balance>>}
       /\ StartSweep(s, u, balance)
  /\ UNCHANGED <<coins, reports, worker, admin, paidOut, submitted, arrivals, faults>>

\* POST /api/admin/sweep-wallet, on Arc: an amount of the admin's, or all there is.
AdminSweep(s, u) ==
  /\ network = "arc"
  /\ \E amount \in WalletBalance(u) \cup (1 .. MaxArrivals) :
       amount > 0 /\ StartSweep(s, u, amount)
  /\ UNCHANGED <<coins, reports, cooling, worker, admin, paidOut, submitted, arrivals, faults>>

UnchangedBySweep ==
  UNCHANGED <<coins, reports, cooling, worker, admin, paidOut, arrivals>>

SubmitTransfer(s, next) ==
  /\ MoveSweep(s, "submit", next)
  /\ Submit(s, "sweep", sweep[s].wallet, sweep[s].amount)
  /\ UNCHANGED <<busy, faults>> /\ UnchangedBySweep

SubmitEvmSweep(s) == Marks /\ SubmitTransfer(s, "wait")

\* Nobody waits for these two, nor does anything follow.
SubmitArcSweep(s) == network = "arc" /\ SubmitTransfer(s, "end")

SubmitSolanaSweep(s) == network = "solana" /\ SubmitTransfer(s, "end")

\* A wallet of which Circle knows no USDC has no token to name.
NoTokenFound(s) ==
  /\ MoveSweep(s, "submit", "end")
  /\ network # "arc" /\ inWallet[sweep[s].wallet] = 0
  /\ UNCHANGED <<busy, submitted, faults>> /\ UnchangedBySweep

SubmitApprove(s) ==
  /\ MoveSweep(s, "approve", "depositFor")
  /\ Submit(s, "approve", sweep[s].wallet, sweep[s].amount)
  /\ UNCHANGED <<busy, faults>> /\ UnchangedBySweep

\* Neither the approval nor the deposit is waited for.
SubmitDepositFor(s) ==
  /\ MoveSweep(s, "depositFor", "end")
  /\ Submit(s, "depositFor", sweep[s].wallet, sweep[s].amount)
  /\ UNCHANGED <<busy, faults>> /\ UnchangedBySweep

\* Circle refuses a call, or ten minutes of waiting are over.
SweepFails(s) ==
  /\ sweep[s].at \in {"submit", "wait", "approve", "depositFor"}
  /\ sweep' = [sweep EXCEPT ![s].at = "end"]
  /\ Fault
  /\ UNCHANGED <<busy, submitted>> /\ UnchangedBySweep

\* clearTreasuryBusy, whoever else marked it, and then the tail.
EndSweep(s) ==
  /\ sweep[s].at = "end"
  /\ sweep' = [sweep EXCEPT ![s] = NoSweep]
  /\ busy' = (busy \/ Marks)
  /\ UNCHANGED <<submitted, faults>> /\ UnchangedBySweep

SweepStep(s) ==
  \/ SubmitEvmSweep(s) \/ SubmitArcSweep(s) \/ SubmitSolanaSweep(s) \/ NoTokenFound(s)
  \/ SubmitApprove(s) \/ SubmitDepositFor(s) \/ EndSweep(s)

-----------------------------------------------------------------------------
(***************************************************************************)
(* sweepTreasuriesOnce                                                     *)
(***************************************************************************)
UnchangedByWorker ==
  UNCHANGED <<coins, reports, cooling, sweep, admin, paidOut, arrivals>>

\* Mutant of WorthDepositing: the smallest amount is left.
WorthMore(balance) == balance > Float + MinSweep

WorthDepositing(balance) == balance >= Float + MinSweep

\* Again 0 if it cannot be read.
TreasuryBalance == {0, treasury}

\* sweepableChains
Sweepable == network # "unsupported"

BeginWorker ==
  /\ worker.at = "idle" /\ ~ busy /\ Sweepable
  /\ \E balance \in TreasuryBalance :
       /\ WorthDepositing(balance)
       /\ worker' = [at |-> "read", balance |-> balance]
  /\ UNCHANGED <<busy, submitted, faults>> /\ UnchangedByWorker

\* The window begins when the balance is there, not when it was asked for.
SubmitWorkerApprove ==
  /\ worker.at = "read" /\ network # "solana"
  /\ busy' = TRUE
  /\ worker' = [worker EXCEPT !.at = "approve"]
  /\ Submit(Worker, "approve", "none", worker.balance - Float)
  /\ UNCHANGED faults /\ UnchangedByWorker

SubmitWorkerDeposit ==
  /\ worker.at = "approved"
  /\ worker' = [worker EXCEPT !.at = "depositFor"]
  /\ Submit(Worker, "depositFor", "none", worker.balance - Float)
  /\ UNCHANGED <<busy, faults>> /\ UnchangedByWorker

\* solanaTreasuryDeposit is one transaction.
SubmitSolanaDeposit ==
  /\ worker.at = "read" /\ network = "solana"
  /\ busy' = TRUE
  /\ worker' = [worker EXCEPT !.at = "deposit"]
  /\ Submit(Worker, "deposit", "none", worker.balance - Float)
  /\ UNCHANGED faults /\ UnchangedByWorker

WorkerFails ==
  /\ worker.at \in {"approve", "approved", "depositFor", "deposit"}
  /\ worker' = [worker EXCEPT !.at = "end"]
  /\ Fault
  /\ UNCHANGED <<busy, submitted>> /\ UnchangedByWorker

EndWorker ==
  /\ worker.at = "end"
  /\ worker' = IdleWorker
  /\ busy' = TRUE
  /\ UNCHANGED <<submitted, faults>> /\ UnchangedByWorker

WorkerStep ==
  \/ BeginWorker \/ SubmitWorkerApprove \/ SubmitWorkerDeposit \/ SubmitSolanaDeposit
  \/ EndWorker

-----------------------------------------------------------------------------
(***************************************************************************)
(* arcTreasuryDepositFor: as the worker, but any amount, without a window, *)
(* and the deposit is not waited for.                                      *)
(***************************************************************************)
UnchangedByAdmin ==
  UNCHANGED <<coins, reports, busy, cooling, sweep, worker, paidOut, arrivals, faults>>

AdminApprove ==
  /\ admin.at = "new" /\ network = "arc"
  /\ \E amount \in 1 .. Stock :
       /\ admin' = [at |-> "approve", amount |-> amount]
       /\ Submit(Admin, "approve", "none", amount)
  /\ UnchangedByAdmin

AdminDeposit ==
  /\ admin.at = "approved"
  /\ admin' = AdminOver
  /\ Submit(Admin, "depositFor", "none", admin.amount)
  /\ UnchangedByAdmin

-----------------------------------------------------------------------------
\* A withdrawal of 1.  Nothing was busy when it asked for the balance, and then
\* there was enough; by now it may be otherwise.
WithdrawDirect ==
  /\ ~ paidOut
  /\ paidOut' = TRUE
  /\ busy' = TRUE
  /\ Submit(Payout, "payout", "none", 1)
  /\ UNCHANGED <<coins, reports, cooling, sweep, worker, admin, arrivals, faults>>

\* POST /api/admin/withdraw, on Arc, asks and marks nothing.
WithdrawByAdmin ==
  /\ ~ paidOut /\ network = "arc"
  /\ paidOut' = TRUE
  /\ Submit(Payout, "payout", "none", 1)
  /\ UNCHANGED <<coins, reports, busy, cooling, sweep, worker, admin, arrivals, faults>>

BusyEnds ==
  /\ busy
  /\ busy' = FALSE
  /\ UNCHANGED <<coins, reports, cooling, sweep, worker, admin, paidOut, submitted,
                 arrivals, faults>>

\* Mutant of CooldownEnds: a key is forgotten only if nothing is left there.
CooldownStays(key) == inWallet[key[1]] = 0

CooldownEnds(key) == TRUE

ForgetSweep(key) ==
  /\ key \in cooling
  /\ CooldownEnds(key)
  /\ cooling' = cooling \ {key}
  /\ UNCHANGED <<coins, reports, busy, sweep, worker, admin, paidOut, submitted,
                 arrivals, faults>>

\* What Circle has taken goes on; everything in memory is gone.
PowerCut ==
  /\ Fault
  /\ reports' = [u \in UserWallets |-> 0]
  /\ busy' = FALSE /\ cooling' = {}
  /\ sweep' = [s \in Sweeps |-> NoSweep]
  /\ worker' = IdleWorker
  /\ admin' = IF admin.at = "new" THEN NoAdmin ELSE AdminOver
  /\ UNCHANGED <<coins, paidOut, submitted, arrivals>>

Cooldowns == UserWallets \X (1 .. MaxArrivals)

TreasuryStep ==
  \/ \E u \in UserWallets : Arrive(u)
  \/ \E t \in submitted : Execute(t) \/ Reject(t)
  \/ \E s \in Sweeps :
       \/ SweepStep(s) \/ SweepFails(s)
       \/ \E u \in UserWallets : SweepDeposit(s, u) \/ Reconcile(s, u) \/ AdminSweep(s, u)
  \/ WorkerStep \/ WorkerFails
  \/ AdminApprove \/ AdminDeposit
  \/ WithdrawDirect \/ WithdrawByAdmin
  \/ BusyEnds \/ \E key \in Cooldowns : ForgetSweep(key)
  \/ PowerCut

\* What Circle has taken from the flow f.
ExecuteOne(f) == \E t \in submitted : t.of = f /\ Execute(t)

ReconcileOne(u) == \E s \in Sweeps : Reconcile(s, u)

TreasurySpec == InitTreasury /\ [][TreasuryStep]_treasuryVars

-----------------------------------------------------------------------------
(***************************************************************************)
(* Properties.                                                             *)
(***************************************************************************)

\* Types: nothing is taken from where it is not.
TreasuryTypeOK ==
  /\ network \in Networks
  /\ inWallet \in [UserWallets -> Nat] /\ treasury \in Nat
  /\ inGateway \in Nat /\ approval \in Nat
  /\ reports \in [UserWallets -> Nat] /\ busy \in BOOLEAN
  /\ cooling \subseteq Cooldowns
  /\ sweep \in [Sweeps ->
       [at : {"none", "submit", "wait", "approve", "depositFor", "end"},
        wallet : UserWallets \cup {"none"}, amount : Nat]]
  /\ worker \in
       [at : {"idle", "read", "approve", "approved", "depositFor", "deposit", "end"},
        balance : Nat]
  /\ admin \in [at : {"new", "approve", "approved", "over"}, amount : Nat]
  /\ paidOut \in BOOLEAN
  /\ submitted \subseteq
       [of : Flows, kind : {"sweep", "approve", "depositFor", "deposit", "payout"},
        wallet : UserWallets \cup {"none"}, amount : Nat]
  /\ arrivals \in 0 .. MaxArrivals /\ faults \in 0 .. MaxFaults

\* What a sweep left in a user's wallet, because it failed, timed out or was lost
\* in a restart, reaches the treasury in the end.
WalletsSwept == \A u \in UserWallets : []<>(inWallet[u] = 0)

\* What the treasury holds above its float reaches the Unified Balance in the end,
\* though approvals overwrite each other and flows clear each other's busy windows.
ExcessDeposited == []<>(Sweepable => treasury < Float + MinSweep)
=============================================================================
