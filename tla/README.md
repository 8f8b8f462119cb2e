# Sweep: the API server and its payment page, in TLA+

Sweep moves USDC between users and to the outside. An Express server
(`src/artifacts/api-server`) keeps the users' balances in Postgres
(`users.claimed_balance`) and asks Circle to move the coins. One Node process
runs the HTTP routes and a dozen timers; the pages (`src/artifacts/usdc-send`) call
the routes. So the interesting states are those between two `await`s: a balance already
debited, a call to Circle without an answer, a row one worker has read and
another is about to change, and a restart at any of these points.

Source paths below are relative to `src/artifacts/api-server/src`.

## 1. Inventory

| Component | State | Operations | Interacts with |
|---|---|---|---|
| Withdrawals (`routes/withdraw.ts`, `lib/withdrawalReconciliationWorker.ts`, `lib/gatewayDeliveryWorker.ts`, `handleMintFinalized` of `routes/gateway.ts`, resolve of `routes/admin.ts`, transfers of `lib/gatewaySweep.ts`) | rows of `withdrawals`, the balance, in-memory pollers | POST /crypto, POST /fiat, poll a direct transfer, reconcile stale rows (5 min), check deliveries (20 s), mint webhook, admin resolve | balances; Circle (direct transfer, Gateway, wire) |
| Transfers and escrows (`routes/escrow.ts`, `lib/ledger.ts`, internal transfer of `routes/withdraw.ts`, sign-up of `routes/auth.ts`) | rows of `escrows`, two balances, `email_verified` | send by email, send to a platform wallet, claim at sign-up, POST /claim and /claim/auto | balances, sign-in |
| Recurring transfers (`lib/recurringWorker.ts`, `routes/recurring.ts`) | `recurring_transfers` (status, next_run_at) | create, cancel, pass of the worker (60 s, no guard against overlap) | balances, escrows |
| Deposits (`lib/depositIndexer.ts`, `lib/arcDepositWorker.ts`, `routes/deposit.ts`, `handleDepositFinalized` of `routes/gateway.ts`) | rows of `deposits`, unique by hash and by reference; poll cursors in memory; `virtual_accounts` | poll Circle (3 s), scan Arc (30 s), inbound and wire webhooks, wire instructions, Gateway safety net | balances; starts sweeps; bank accounts at Circle |
| Subscriptions (`lib/subscriptionBillingWorker.ts`, `routes/subscriptions.ts`, `routes/pay.ts`, `routes/v1/*`) | `subscriptions` (status, dates, retry count), plans and tiers, confirmation codes, passports, payments | publish a plan, checkout, activate, retry, cancel, renewal pass (5 min, no guard), issue and revoke the passport | balances, transaction password, webhook delivery |
| Webhook delivery (`lib/webhookDelivery.ts`, `routes/v1/webhooks.ts`) | `webhook_events` (attempts, next retry), endpoints | enqueue, delivery pass (30 s, no guard), replay, remove the endpoint | developers' servers |
| Treasury (`lib/gatewaySweep.ts`, `lib/treasurySweepWorker.ts`, `lib/sweepReconciliationWorker.ts`, `routes/admin.ts`) | busy windows and cooldowns in memory | sweep a deposit, sweep the treasury, retry missed sweeps, deposit by the admin | Circle; liquidity of withdrawals |
| Gateway submission (`gatewayWithdrawal` of `lib/gatewaySweep.ts`) | Unified Balance per chain, at Circle | burn on one chain, on several in a batch | withdrawals |
| Wallet provisioning (`lib/circle.ts`, `routes/deposit.ts`, `routes/auth.ts`) | maps of wallet ids and addresses in the row of the user | provision at sign-up, on the deposit page, on `/auth/me` | Circle; deposits |
| Sign-in (`lib/otp.ts`, `lib/totp.ts`, `lib/two-factor.ts`, `lib/webauthn.ts`, `lib/auth.ts`, `routes/auth.ts`, `routes/security.ts`, `routes/webauthn.ts`) | `otp_codes`, guesses, tickets and challenges in memory, last TOTP step, secrets, passkeys, session version, lockout | register, verify by code, link or Google, sign in, reset and change the password, set up 2FA | transfers (who may send, who collects), passports |
| Threat monitor and API limits (`lib/threatMonitor.ts`, `lib/apiKeyAuth.ts`) | records per address and per key in memory | count, strike, block, unblock, clean up | every route |
| Account pages (`routes/user.ts`, `routes/security.ts`, dashboards) | nothing of their own; all tables of the user | page through the history, delete the account | deposits, withdrawals, escrows |
| Payment page (`components/sweep/use-send-flow.ts`, its phone, desktop and landing views) | form, review, receipt; approval by passkey or password | look up, review, send, scan a code, leave | POST /escrow/send/platform |
| Emails, logging, health, other pages, generated clients | - | output, or reads and single inserts | - |

What makes each of them correct, and what is hard about it, is the list
"hazards" of `PROJECT.json`, each at its line. In short:

- **Withdrawals**: taken once, then paid or given back, never both; five actors
  may refund; calls without an answer; restarts; rows that never get done.
- **Transfers**: no money made or lost; who is waited for receives.
- **Recurring**: no time read again once it was run, and every due time handled.
- **Deposits**: credited exactly once although three finders race.
- **Subscriptions**: nothing for free, nobody given up early; the charge and its
  record are two statements, passes overlap, the subscriber pays meanwhile.
- **Webhook delivery**: not given up before its attempts; at rest in the end, though
  passes write back counts they read before.
- **Treasury**: what is swept arrives in the Unified Balance, though flows clear each
  other's busy windows and answers are lost.
- **Gateway submission**: burned as asked or not at all, from balances that others burn.
- **Sign-in**: nothing that signs in works twice (a time step of the authenticator: from one
  enabling or disabling to the next); a new password ends what was before;
  only proved secrets become active.
- **Wallets, wires**: maps and rows written back after calls to Circle.
- **Threat monitor**: requests under way when a block begins.
- **History, payment page**: answers that are late, lost, or of different times.

## 2. Modules

| Module | What it is |
|---|---|
| `Settlement` | abstract: what a withdrawal promises to the user's account |
| `Withdrawals` | the withdrawal component with Circle, restarts and faults |
| `MCWithdrawals` | instance for TLC: two withdrawals of different amounts, or one |
| `WithdrawalsProofs` | types, single refund, books, lifecycle, not paid and refunded, the refinement: theorems |
| `Balances` | `lib/ledger.ts`: conditional debit, credit, both in one transaction |
| `Transfers` | email and wallet transfers, sign-up, claims |
| `Recurring` | schedules, clock, passes of the worker |
| `Ledger` | composes Transfers and Recurring over the same balances and restarts |
| `MCLedger` | instances for TLC: three users, one transfer and two schedules |
| `LedgerProofs` | types, money conserved, no time read again: theorems |
| `Crediting` | abstract: what a deposit promises to the user |
| `Deposits` | the finders of deposits, the rows and the credits |
| `MCDeposits` | instance for TLC: two transactions and a wire |
| `DepositsProofs` | types, credited once, the safety part of the refinement: theorems |
| `Subscriptions`, `MCSubscriptions` | six ways to start a subscription, billing worker, retry, cancel, deletion of the subscriber, over `Balances`; instances with one or two requests of one user |
| `Plans` | plans and tiers: publish, show, sell, hand a merchant id on |
| `Passports` | the passport between payments, revocation and password changes |
| `OneTimeCodes` | emailed codes |
| `Sessions` | tokens, session version, password reset and change |
| `SecondFactor` | authenticator and its last time step, passkeys, sign-in tickets |
| `Accounts` | registration, verification, Google, lockout, login challenges |
| `WebhookDelivery` | events, overlapping passes, replay |
| `Treasury` | sweeps, treasury worker, admin, busy windows and cooldowns |
| `Burns`, `MCBurns` | the inside of gatewayWithdrawal, which `Withdrawals` has as one call; two withdrawals |
| `PollWindow`, `MCPollWindow` | the cursors and pages behind `Deposits`' assumption that what is complete is listed; a poll that takes one transaction at a time |
| `WireAccounts` | bank accounts, their references, wires that follow them |
| `Wallets` | provisioning jobs that overlap |
| `Throttle` | threat monitor and limits per key |
| `Erasure` | deletion of an account, statement by statement; the authorization key for it |
| `History` | the paged list and how the dashboard joins it |
| `SendFlow` | the payment page |
| `Server`, `MCServer` | the seventeen parts above side by side, and their instance for TLC |
| `BillingProofs` | nothing for free, retries used, a code charges once; webhook events; plans: theorems |
| `SignInProofs` | codes, time steps and tickets count once, proved secrets, ended sessions, what lifts a revocation; welcome, login challenges; erasure; their types: theorems |
| `CountingProofs` | what rests on a count: blocks of the threat monitor, burns, pages of the history: theorems |
| `ServerProofs` | sends, the deposit path, types of wallets and treasury; the server is its parts, and what follows for it: theorems |
| `SumTheorems` | what sums over functions and sets add up to, and ranks in a finite set of numbers: lemmas |

### Withdrawals

One step is one statement (or transaction) of the database, or one call to
Circle together with its answer; everything else may happen in between.

- `pc[w]` says where the HTTP request is: POST /crypto goes from `Deduct` over
  `InsertRow` to a direct transfer (`Direct...`), to Gateway (`MarkSubmitting`,
  `Gateway...`) or to a refund (`NoRoute`, `Restore`, `MarkFailed`); POST /fiat
  from `Deduct` to the wire (`Wire...`, `RestoreWire`, `RecordWire`).
- `status[w]` is the column of the row ("none" before there is one),
  `balance` the user's balance, `refunds[w]` counts the credits of the request.
- `sent[w][c]` is what Circle holds for the request on channel `c`: it survives
  restarts, and a second call with the same idempotency key adds nothing
  (`Accept`). `CircleSettles` lands it or fails it.
- `poller[w]` has the in-memory pollers of a direct transfer: the route's, whose
  `onFailure` refunds in two unguarded statements, and the replay's, which
  refunds out of "completed" only.
- `job[w]` is the list of the reconciliation pass: `Scan` selects the stale rows,
  `Reconcile` handles them one after the other with guarded updates.
- `hook[w]` is a mint webhook between its read and its write. It is read while
  the row is "delivering"; the code also goes on for a completed row, to store a
  hash, which changes nothing here.
- `Crash` forgets requests, pollers, passes and webhooks.

What the environment may do is the constant `Faults`:

| Fault | Meaning | In the code |
|---|---|---|
| `stall` | a statement of the route outlasts other actors' timers | 8 s to the first poll, 10 min until a row is stale |
| `crash_mid_refund` | a restart between the two statements of an unguarded refund | `withdraw.ts:309-313`, `:237-240` |
| `accepted_error` | Circle made the transfer behind an error answer | `withdraw.ts:293`, `gatewaySweep.ts:643` |
| `lost_wire` | Circle made a payout whose answer was lost | `withdraw.ts:407-418` |

Assumed of the environment: Circle answers 409 only for a key it knows and
another 4xx only when it made no transfer; an admin refunds a held row only
after nothing of it is under way, and completes it only after it landed, as the
route's texts ask for.

Left out: fees, destination chains, the choice of source chains, the busy
windows, transaction hashes. They do not decide which of these steps is taken
by more than a free choice. The internal transfer of POST /crypto is in
`Transfers`.

### Transfers, Recurring, Ledger

- `LookUpRecipient` is the part of POST /escrow/send/platform before the
  transaction, `SendPlatform` the transaction, `SendRefused` its rollback; the
  recipient may sign up in between. `DebitSender`, `CreditRecipient` and
  `RecordTransfer` are the three statements of the internal transfer.
- `account[u]` goes from "none" over "created" to "verified" and "active"; the
  step from "verified" is the claim that follows a code or a new Google account
  (`ClaimPending`), which the link (`VerifyByLink`) and a linked Google account
  do not have. `Claim` is POST /claim: its update has a type the column does not
  take, so the transaction changes nothing.
- `Recurring` counts time in intervals. `StartPass` is the select of the worker
  with the balance it read (whether it covers the price); `RunSchedule`,
  `SkipRun`, `RefuseRun` and `EndSchedule` handle one row. `Passes` may overlap: the timer
  fires every minute whether or not the last pass has ended. A `Price` of 0 stands for the
  amounts that POST /recurring accepts and the ledger refuses ('0', '0.0000001', stored
  as 0.000000): `RefuseRun` is the error that is only logged. A row cancelled after the select
  is still handled, as in the code: DELETE /recurring has no effect on a pass
  that is under way, and a cancelled row may even turn "completed".
- `Ledger` puts both over one `balance` and adds `Crash`.

Left out: amounts' decimals, approval by password or code, and in `Transfers` statements
that the database refuses for reasons other than the balance.

### Deposits

- `chain[t]` is what Circle knows of an inbound transaction. `row[t]` is the status
  of the row whose `deposit_reference` is the transaction's, `hashed[t]` whether that
  row has its hash, `credits[t]` how often `claimed_balance` was credited for it.
- A finder is a webhook request (`Hooks`) or the poll (`Poll`), which handles one
  transaction after the other. `at[f]` says which statement comes next, `task[f]`
  holds the report and what the lookup returned: the webhook asks by reference, then
  by hash (`Notify`, `NotifyByHash`), the poll by hash, then by reference (`List`,
  `ListByRef`); either ends in `Promote`, `Patch`, `Insert` or nothing. What a lookup
  read may be stale when the statement it leads to runs.
- `ScanArc` is the Arc scan, which inserts in one transaction without a lookup.
  `Backfill` is the history page that looks up missing hashes.
- `PromoteRow`, `PatchRow` and `InsertRow` obey the unique indexes on reference and
  hash: a statement that an index refuses changes nothing, and the handler ends. The
  indexes are taken to exist; the server starts without them if old rows collide.
- A report may be late or absent, may lack the hash if it comes by the webhook, and
  is final only if the transaction is complete (`Reported`). The poll and the Arc
  scan only handle transactions with a hash.
- `NotifyWire`, `CreditWire` and `RecordWire` are the three statements for a wire.

Left out: which user a wallet belongs to, the sweep after a credit, the poll's pages
and its window in time (`PollWindow`; of a window with more than the pages hold, the rest is passed
over, and the fairness of `List` supposes that there is none), and the Gateway
safety net, which looks for a user whose address sent
`depositFor`; every `depositFor` of this code is sent by the treasury.

### Subscriptions, Plans, Passports

- `Program` has, for each route that starts a subscription, its statements in order:
  `activate`, `checkout` and `holder` work in one transaction ("begin", "commit");
  POST /pay/checkout, POST /v1/passport/activate and POST /v1/confirmation-codes/validate
  charge, cancel and insert in statements of their own, in different orders.
- `pass[p]` is a pass of the worker: `Select` keeps the rows of a list as read
  (trialing, active, past due). Of each row the subscriber is looked up: `NoSubscriber` passes
  over the row of a deleted account, `CancelOwn` cancels that of a plan whose payout email
  is the subscriber's, as read with the list. `BillingSucceeds` and `BillingDeclined` are the
  transaction of `attemptBilling`, `BillingErrs` any other error of it, which leaves the row as
  it was, `WriteOutcome` the unconditional update behind it. `Price` 0 is an amount the ledger refuses.
  `Retry`, `CancelSubscription` and `DeleteSubscriber` are the subscriber's, `RedirectPlan` is
  PATCH /v1/plans/:id. The payee's own deletion is not modelled.
- History variables: `paidFor` (due days charged), `paidOn`, `declined`, `twice`.
- `Plans` has a publication as its inserts (plan, then tiers), the two orders in which
  pages read plan and tiers (`ReadsFirst`), and sales by tier and by cycle, also of
  prices from a page that is old. The lists of `routes/v1/plans.ts`, which read tiers before
  prices, are not modelled. `Passports` has payments that read the row before
  they reinstate it.

### Sign-in

- `OneTimeCodes`: `Confirms` find a code, ask for the authenticator's and then consume
  it, as the routes do: `StillUnspent` is the condition of the update; the authenticator's
  code is right or wrong here (`PassFactor`, `FailFactor`). A guess counts in memory and voids the code at the limit.
- `Sessions`: `token[h].seen` is the password its row had when it was read, `sv` the
  version in the token. A writer hashes, writes the password, then bumps the version.
- `SecondFactor`: a set-up overwrites the pending secret, an enabling verifies a code
  of the one it read and stores that step as the last one; disabling sets the last step to
  null. `VerifyTotp` reads the row, `ClaimStep` is the conditional update of `checkUserTotp`,
  `era` counts the writes of enabling and disabling. A ticket is looked at, then its challenge is taken, then it is
  spent. `Accounts`: handlers keep the row they read and write it later; a challenge
  is a tally in memory that may be dropped when the map is cleaned.

### Treasury, Burns, Wallets, PollWindow, WireAccounts

- `Treasury`: `submitted` is what Circle took and will execute later, in any order,
  if the coins and the approval are there. Sweeps, worker, payout and admin are
  flows; `busy` and `cooling` are the maps in memory, whose ends come at any time.
- `Burns`: `unified` is what Gateway holds per chain; `attempt[b]` walks over the
  source chains in `Priority`, keeps the balances that refusals name, then splits
  (`Share`). A lost answer may hide a burn, and so may an error answer that the code takes for
  a refusal (`TakenForRefusal`: a body lost while it is read, a 5xx, an answer without
  transferId): then `hidden[b]` is what was burned, and the request goes on.
- `Wallets`: a job reads the maps of the row, makes what is missing and writes back
  the maps it has. `PollWindow`: times are numbers; `NextCursor` is the start of the
  poll less `Buffer`, `Capacity` what the pages of a poll hold, `cut` what was on none of them.
  The routine that puts a wallet back from Circle's list (`circle.ts:562-605`) is not modelled.
  In `Treasury` the reconciliation reads the balance of the wallet; the code reads that of
  `primaryAddress` on Arc, the same account unless the row is damaged. `WireAccounts`: the account is made at Circle, then the row is
  inserted, then it is shown. A wire is lost (`LoseWire`) if the server stops or the database
  refuses after the webhook has answered 200.

### WebhookDelivery, Throttle, Erasure, History, SendFlow

- `WebhookDelivery`: `delivery[w][e]` holds the attempt count the pass has read.
- `Throttle`: `record` is the map in memory, with its strikes counted per time; a
  request let in is answered later and may then cost a strike.
- `Erasure`: `Statements` is the list of deletes in the route's order.
- `History`: entries are numbered by their time; a route reads its tables in any order
  while rows are added, and the dashboard reloads all pages it has.
- `SendFlow`: `jobs` are requests in flight with what they will answer; fields stay
  open during a lookup, and a page may be left with a payment under way. `Receipt` is what
  the page says it paid: the name looked up, if there is one, else the field.

### Server

The seventeen modules from `Subscriptions` to `SendFlow` share no variable. `Server`
puts them into one specification with a variable `focus`: `InitServer` chooses the
part that is served, and `ServerStep` lets it take its steps while the others wait
(`Rest`). This loses nothing: a behaviour in which several parts move is a shuffle of
one behaviour of each, a property here speaks of the variables of one part, and it
holds of the shuffle if and only if it holds of that part's own behaviour. (One half
of this is the theorem `ServerOfParts`: a behaviour of the server satisfies the
specification of each of the seventeen parts.) So every
part is checked with all its behaviours, and the state space is the sum of theirs and
not the product. Fairness is stated of the part that is served. Where modules meet
through the database, what one needs of the other is in its own model (a subscription
charges through `Balances`; `PollWindow` justifies the fairness of `List` in
`Deposits`; `Burns` justifies the single step of Gateway in `Withdrawals`, but for
hidden burns, which `Withdrawals` has as the fault `accepted_error`: that a hidden burn is
followed by another on the next chain is only in `Burns`).

## 3. Runs

| Run | Result | Question |
|---|---|---|
| `withdrawals` | holds | Two withdrawals (1 and 2) out of at most 3, two restarts, no faults, with fairness. Types, single refund, never paid and refunded, books, lifecycle, refinement of `Settlement`, and the two liveness properties |
| `crash_mid_refund` | violated | Is a withdrawal refunded at most once if the server may stop anywhere? |
| `accepted_error` | violated | Is it never paid and refunded if an error answer may hide a transfer? |
| `failed_transfer` | violated | Is every failed direct transfer refunded? |
| `ledger` | holds | Three users, a transfer to somebody who may join before, during or after it, two schedules over three intervals, one of an amount the ledger refuses, two passes that may overlap, one restart, with fairness: types, conservation, no pass reads a time for which the schedule has run (`NotReadAgain`), and what is due and can be debited is handled (`DueHandled`) |
| `deposits` | holds | Two transactions with hashes of their own, one on Arc, a wire reported once, one webhook request at a time beside the poll and the Arc scan, one restart, with fairness: types, credited when completed and once, refinement of `Crediting` with its liveness |
| `batch` | violated | Is every complete transaction credited if two share a hash? (No webhook, as the poll is the fallback.) |
| `wire_twice` | violated | Is a wire credited once if Circle reports it twice? |
| `server` | holds | Each part of `Server` in turn, with fairness: 18 invariants and 4 temporal properties, below |
| `renewals` | holds | One subscription, by checkout or by a validated code, two billing passes that may overlap, two top-ups, errors, restarts, payout changes or a deletion, with fairness: is an active subscription paid for, and its next bill at most a period after the last payment, whoever wrote last (`NoFreePeriod`); has a failed one used its retries (`FailedAfterRetries`); is what is due billed, declined or cancelled, if its subscriber is there and the ledger takes its amount (`DueBilled`)? |
| `reinstated` | violated | Does a revoked passport stay revoked? |
| `charged_twice` | violated | Is a due day of a subscription charged once? (Two checkouts with a trial, one pass, two top-ups or restarts.) |

What `server` shows, by part:

| Part | Property | Question |
|---|---|---|
| `Subscriptions` | `CodeChargesOnce` | Is a code charged once by POST /activate? |
| `Plans` | `ShownAndSold` | Does a page show a plan with its tiers, and is only sold what its creator published, while it is being published and removed? |
| `Passports` | `OnlyOvertakenReinstate` | Is a revoked passport made active only by a payment that read it suspended before? (`reinstated` shows that it is.) |
| `OneTimeCodes` | `AcceptedOnce` | Is no code accepted again, nor one that was voided? |
| `Sessions` | `OlderSessionsEnded` | Does a new password end what was signed in under the old one? |
| `SecondFactor` | `ActiveSecretProved`, `OneSessionPerTicket`, `StepPassedOnce` | Is only a proved secret active; does a ticket sign in once; is a code of the authenticator accepted once between two writes that enable or disable it? |
| `PollWindow` | `NotPassedOver` | Does a cursor pass only what its poll failed at or what was on none of its pages? |
| `Accounts` | `ChallengeBounded` | Are the checks of a challenge bounded, also when they overlap and their count is dropped? |
| `WebhookDelivery` | `NotGivenUpEarly`, `EventComesToRest` | Does an event get its attempts, and does it end? |
| `Treasury` | `WalletsSwept`, `ExcessDeposited` | Does what arrives in wallets reach the treasury, and what it holds above its float the Unified Balance? |
| `Burns` | `BurnedAsAsked` | Is burned what was asked, once, or nothing, besides what error answers hide? |
| `WireAccounts` | `WireReachesSender` | Does a wire that follows its instructions credit its sender? |
| `Wallets` | `UserReady` | Does a user who comes back get a wallet on every chain? |
| `Throttle` | `BlockedForCause` | Does every block have strikes of its own? |
| `Erasure` | `ErasedWhenGone` | Is nothing left of an account in the tables the deletion names? |
| `History` | `NoneSkipped` | Does the list miss nothing between its pages? |
| `SendFlow` | `SentAsReviewed` | Does a review lead to one payment, and does "sent" name who was paid if the field was left alone since the lookup? |
| all | `ServerTypeOK` | Types of the part that is served; no balance is negative |

**Bounds.** Two withdrawals are enough for what one can do to another: they
share the balance, the pass of the worker and the restarts, nothing else, and
balances 0 to 3 make the second one succeed, fail, or succeed because the first
was refunded. Two restarts let a replay be interrupted as well. Amounts differ,
so that swapped refunds show. Three intervals let a schedule run, be skipped,
miss a time and end; one transfer to a stranger who may join at any moment reaches both
halves of each handler. A transaction on Arc and one elsewhere give a race of three
finders and one of two, and a sequential poll with more than one thing to do; several
webhook requests at a time are in `wire_twice` and in the theorems. The theorems have
none of these bounds.

In `ledger` a schedule that never runs stands beside one that does, so that the error of
one is seen not to stop the other; two passes overlap as often as they can in three intervals.
`renewals` has one request where `server` has two, and two passes where `server` has one:
what two requests do to each other and what two passes do to a row are different questions.
The authenticator has two time steps, an older and a later one, and one request of each kind
that writes the last of them. A poll takes one transaction where the code takes 1000 (50 of
a wallet on Arc), and there are two to take.

In `server` each part is as large as its hazards need: two requests of each kind that
may race with itself (two activations with one code, two presenters of one code, two
resets, two provisioning jobs, two passes of the delivery worker, two withdrawals that
want the same chains), one restart or lost answer, and as many steps of the clock as
a window needs to end: a period and a retry (`MaxDay`), the second, longer block
(`MaxClock`), a buffer and the time beyond it (`MaxTime`). `MaxRetries`, `MaxAttempts`
and `Threshold` are 2 where the code has 7, 5 and 10: the first that is not the
last, and the last. `Escalating` has two block lengths, so that a second block differs.
`Float`, `MinSweep` and `Stock` are 1: below, at and above the float. In `Burns` a chain
holds 0 or 4 and the withdrawals want 5 and 4, so that one chain is enough, two are
needed, or both withdrawals want the same. Four entries in two tables are two pages.
Three jobs of the page are a lookup and two payments.

**Deadlock** is not checked: all requests may be over.

**Fairness.** `Withdrawals`: the event loop continues every handler it has
started (weak fairness of `Route` after its first step, `Poll`, `Reconcile`,
`MintRecorded`), the timers keep firing (`Deliver`; strong fairness of the scans
that hold a row, because other passes come in between), Circle settles what it
took, and does not leave every replay without a definite answer (strong fairness
of `ReplayDecided`). Nobody is assumed to withdraw, no admin to act, no webhook
to arrive. `Ledger`: started requests continue, a verified user's claim follows,
the passes go on and their timer fires; the clock need not move. `Subscriptions` (run
`renewals`): the passes of the billing worker go on and their timer fires, and a request that
has begun goes on. `Deposits`: the poll continues
what it has begun, and lists a complete transaction again and again (strong fairness
of a final `List`, as it is busy with others in between; it runs every 3 s). Webhook
requests may never come, hang or be lost, and the Arc scan may never run. `Server`:
passes of the delivery worker go on and their timer fires; delays, windows and cooldowns end; Circle executes what it took
(`Execute` of a transaction whose coins are there); a wallet may be off its cooldown
only now and then when the reconciliation looks (strong fairness of `ReconcileOne`);
the user comes back (`Visit`: every page asks for GET /auth/me). Nobody is assumed to
pay, to cancel, to replay or to sign in, and no part of `Server` other than the three with liveness
(webhook delivery, treasury, wallets) has any fairness.

**Findings** (`PROJECT.json` quotes the lines). The first three are about
withdrawals: the unguarded two-statement refund; error answers taken for
rejections; pollers that live in memory only. Two are about deposits: a batch payment on
the chain, whose second transfer is taken for the first because of its hash, and the wire
webhook, which credits before it inserts what its duplicate check looks for. One is about
subscriptions: the worker's charge is not locked against the subscriber's own, and its
record follows in a statement of its own, though the docs page says otherwise. One is about
passports: a payment that read "suspended" undoes a revocation made meanwhile
(`subscriptions.ts:1249`), though the comment at :1229 says it does not.

**Where a property has an exception** the code has one, and the model shows it. Each of these
disagrees with what a comment or a page says; the runs single out the seven above.

| In the code | In the model | The property says |
|---|---|---|
| Two passes that read one due row both pay it; nothing keeps passes apart (`recurringWorker.ts:105`) | `RunSchedule` of two passes with the same task | `NotReadAgain`: no pass that starts later reads the time again |
| A run moves the money into a row "confirmed", which no claim selects (`recurringWorker.ts:72`); `schema.sql:157` calls such rows a mistake | `Confirmed` | `Conserved` counts it there; nobody can collect it |
| POST /recurring takes '0' and '0.0000001', the ledger does not, and the row stays due for ever (`recurringWorker.ts:91`) | `RefuseRun` | `DueHandled` is about amounts the ledger takes |
| Who joins by the emailed link, or links Google, or joins between lookup and transaction gets none of the escrows that wait (`auth.ts:158`), though the sender was told so (`escrow.ts:285`) | `VerifyByLink`, `Claim` | `Conserved` counts them as waiting |
| A deleted subscriber's rows stay due for ever (`subscriptionBillingWorker.ts:162, 214, 267`), so do amounts the ledger refuses | `NoSubscriber`, `BillingErrs` | `DueBilled` is about the others |
| Disabling the authenticator sets its last time step to null (`security.ts:709`), enabling puts back that of a code verified before (:635): a check that read the row earlier passes again, though `two-factor.ts:16-19` says no code does | `ClearTotp`, `StoreEnable`, `ClaimStep` | `StepPassedOnce` is about one `era`, between two such writes |
| A poll stops after its pages and moves the cursor on (`depositIndexer.ts:132`, :121; `arcDepositWorker.ts:115-121`), though :93 says it fetches all of the window | `ListComplete`, `cut` | `NotPassedOver` is about what was on the pages |
| A body lost while it is read, a 5xx and an answer without transferId are taken for refusals (`gatewaySweep.ts:643-653`), and the next chain is tried or the call fails, though :629-630 means to prevent it | `TakenForRefusal`, `hidden` | `BurnedAsAsked` is about what was burned behind the other answers; without an error answer there is nothing else |
| A Google link of a row that was read unverified sends a welcome whatever happened since (`auth.ts:534-544`), though :157 says that only the request that flips the row does | `unproved` | No run says that an owner is welcomed once; `OneWelcome` does of all other ways in |
| The receipt names whom the lookup found (`use-send-flow.ts:190`), also if the field was changed meanwhile | `Receipt`, `touched` | `SentAsReviewed` is about a field left alone |

More that the models include: a schedule cancelled during a pass is still charged once
(`recurring.ts:161`); a restart inside an internal transfer loses the amount
(`SplitCrash = TRUE`, `withdraw.ts:141-169`); the deletion of an account names fewer tables
than its comment (`security.ts:549`); the page may pay twice if an answer is lost
(`use-send-flow.ts:178`); a wire is lost if the server stops after the webhook has answered
200 (`deposit.ts:259`).

## 4. Theorems

Each holds for every value of the constants: every number of withdrawals, amounts,
restarts, users, transfers, schedules, subscriptions, codes, sign-ins, pollers, pages.
Every invariant of the runs that pass is proved, and of their temporal properties those
about safety. An invariant is seldom inductive; what is added to it, and
why, is said below.

### Withdrawals

- `TypeCorrect`: `Spec => []TypeOK`, which includes that no balance is negative.
- `RefundedAtMostOnce`, `BooksAlwaysMatch`, `LifecycleKept`: assuming neither
  `stall` nor `crash_mid_refund` is among the faults. `RefundedOnce` is not
  inductive: that the route may refund is no reason that the worker may not. The
  inductive invariant `RefundInv` says, for each request, what its label tells
  about row and ledger (`RouteInv`), that a pass of the worker holds rows whose
  request is over (`JobInv`), that at most one poller watches a request, and never
  together with a replay (`PollerInv`), that a webhook writes only over a row
  whose mint landed (`HookInv`), and what a row tells about the ledger once its
  request is over (`RowInv`). So whoever is entitled to credit a request finds it
  uncredited. The step lemma goes handler by handler, and a frame lemma
  (`OthersUntouched`) covers the other requests.
- `NotPaidAndRefunded` and `SettlesOnce` (the refinement): assuming no faults.
  They need where the money can be, too (`MoneyInv`): nothing was sent before the
  calls, the row names the channel that may have been used, at most one channel is
  used. Each step of `Withdrawals` then is a step of `Settlement` or a stutter under
  the mapping `Outcome` (held, paid, returned), shown by what it does to `refunds`,
  `pc` and the landed transfers.

### Transfers and recurring transfers

- `LedgerTypeCorrect` and `MoneyConserved`. The sets of users, transfers and schedules
  are finite (`FiniteBooks`: they are rows of tables), else a total means nothing;
  passes may overlap. `MoneyConserved` also assumes that no restart splits a
  transfer to a wallet (`~ SplitCrash`), whose debit and credit are statements of their
  own, so that what was debited would be gone. `Conserved` speaks of sums over users,
  over transfers on their way and over the runs of schedules. The invariant `BooksInv` adds
  to the types that an escrow exists only once its request is over (`TransferInv`), so
  that no request creates it a second time, and that a pass
  holds times that were due (`DueInv`). A step then is one of few kinds of movement
  between the three sums, for each of which a lemma says what becomes of them.
- `NothingReadAgain`: for any passes that overlap. A task is of a time that was due
  (`TaskInv`), and every run is for a time the row has left behind (`RunInv`): whoever
  writes the next time, even from a stale row, moves it beyond the present. It does not
  say that a time is paid for once, which is not so (section 3).

### Deposits

- `DepositsTypeCorrect`; `DepositsCreditedOnce` and `DepositsImplementCrediting`,
  assuming that no two transactions share a hash (`HashesDiffer`). The invariant adds
  that who is about to promote a row has a final report about a transaction with the
  hash of the row (`TaskInv`). Every step is then a `RowStep`: it changes nothing that
  shows, or completes one row that was not completed and credits its transaction,
  which has arrived. That one fact gives the invariant and the refinement.
- `NeverPassedOver`, but for what a poll failed at (`skipped`) and what was on none of its
  pages (`cut`): the cursor to come lies at least the buffer behind the
  present (`CursorsBehind`), a transaction is complete within the buffer (`InTime`),
  and so what a poll listed too early is newer than the cursor to come
  (`ListedOrNewer`). Assumed is only that `Delay` is within `Buffer`.
- `WiresReachSenders`: a reference belongs to the one user for whom Circle made it
  (`RowsKnown`), wherever a request is between the account at Circle and the row
  (`RequestsKnown`), and what is shown or followed is in a row (`ShownKnown`,
  `WiresKnown`).

### Subscriptions, webhook delivery, plans

- `NoPeriodFree`, `RetriesUsed` from `BillingInvariant`. What a pass of the worker
  holds is stale, so the invariant cannot say that it is what the row has. It says what
  stays true of it (`HeldInv`): whom the pass has charged is paid for since the pass's
  day, and a retry count it read, below the maximum, is covered by charges declined on
  earlier days. `RequestInv` says of each place of a request which rows are there and
  what was charged by then, `RowInv` of a row that an active one is paid up to its
  next billing and that its retry count is covered by declined charges.
- `CodeChargesOneRequest`: a code that a subscription was bought with is used, and two
  requests that bought with it are the same (`CodeInv`).
- `NoneGivenUpEarly`: the count in the row of an event is at most the posts of it
  (`EventInv`). So is the count a pass read, and after its post it is one less
  (`DeliveryInv`), however often the row was written or replayed meanwhile; hence
  writing it back never counts more than was posted.
- `PlansStayOne`: a price has its tier (`PriceInv`), a page has read prices of one plan
  and then the tiers of all of them (`PageInv`), a merchant id comes after the plan's
  row (`PublicationInv`), a code is for a price of the plan with its merchant id
  (`LockedInv`), and what was sold is a term of the plan (`SoldInv`).

### Sign-in and accounts

- `NothingAcceptedTwice`, of emailed codes: one that is not spent was neither accepted nor
  voided (`UnspentUntouched`), and its row does not exist before the insert (`NoRowYet`).
- `StepPassesOnce`, of the authenticator's: the steps accepted since the last write of
  enabling or disabling are no later than the row's last step (`ClaimInv`), so that the
  conditional update lets only a later one pass.
- `OnlyProvedActive`, `TicketSignsInOnce`: what is about to be stored was verified
  (`StoresProved`); of the challenge of a ticket, the request that took it and the
  session that comes of it there is one at a time (`TicketSpentOnce`). The property
  alone is not inductive, for the sign-in that ends a ticket does not look whether it
  is open.
- `PasswordEndsSessions`: a token of the present version, also one still to be handed
  out, was made from a row with every password whose request has ended
  (`PresentSeen`).
- `RevocationStands`, that is `OnlyOvertakenReinstate`: while a revocation stands, whoever is about to lift a suspension
  had read it before (`LiftersOvertaken`).
- `OneWelcome`, that is `FlipWelcomesOnce`, which no run checks, as it says nothing of the
  Google links: there is one welcome more than Google links of a row that was read
  unverified only if the row is verified by now, so that no other request can flip it
  (`WelcomeInv`).
- `ChecksBounded`: every check that was let in is counted in what is remembered of the
  challenge, and that is remembered for as long as the challenge is good (`TallyInv`).
- `NothingLeftBehind`, of the tables the deletion names: each deletion under way, also one that was started again, has
  emptied the tables it has passed (`PassedBy`) but for rows inserted after it.
- `SignInTyped`: the types of these parts.

### Threat monitor, burns, history

- `BlocksHaveCause`: `Threshold` times the blocks imposed plus the strikes on record,
  a sum over their times, is at most the strikes given (`CauseInv`): a block takes
  what caused it off the record.
- `BurnsWhatWasAsked`: but for what an error answer hides (`hidden`), nothing is burned
  while a request tries and when it fails, less than `Dust` below what was asked when it is
  answered, never more (`AmountInv`); an error answer adds as much to `hidden` as to
  `burned` (`RefusalHides`). Each
  refusal it has heard is of another chain it has tried (`RefusalInv`), so no balance
  counts twice when it splits the amount; what the shares then add up to is the lemma
  `CoveredInTurn`. `AccountInv` is about the account on Solana it is minted to.
- `NothingSkipped`: what was there at the beginning and is on none of the pages so far
  has at least as many newer rows as fit on them, and is older than all that is on them
  (`PagesInv`). Rows are only added at the front, so no page begins later in the list
  than where the one before it ended.

### Payment page, wallets, treasury

- `WhatIsReviewedIsSent`: the page is busy while it waits, and waits for one request
  (`WaitsForOne`); what is live of the review on the screen was asked by the page that is
  open, or is paid and no longer shown for review (`OnePerReview`); a lookup is for the
  field, and a payment under way is to whom its receipt will name, unless the field was
  touched (`ShownRight`).
- `WalletsTyped`, `WindowTyped`, `WiresTyped`, `ThrottleTyped` and `TreasuryTyped`. The
  last says that no balance goes below zero, and needs `TreasuryInv`: the worker goes on
  only with a balance above its float, and no wallet holds more than arrived.

### The server

- `ServerOfParts`: a behaviour of `ServerSpec` is one of each of the seventeen
  parts, for a part takes its own step or rests (`ServedOrLeft`).
- `ServerSafe` and `ServerTypesCorrect` follow: the safety properties of the parts, with the
  exceptions they have (section 3), and all the types hold of the server. So the runs of `server` and the theorems of its
  parts speak of the same specification.

### Method

TLC checks an inductive invariant on a run's instance before it is proved. The
library states induction over data for an operator, which these provers cannot
instantiate. `SumTheorems` uses instead that a nonempty set of numbers has a least
element: it looks at the smallest set for which a lemma about a sum fails, and takes
one element out of it. From this come that a sum is a number, that it changes by what
one point of the function changes by, that a sum is bounded by one over more, and
that the ranks of a finite set of numbers are `1..n`; what a recursive definition of the library
yields is shown only for these.

Only model-checked is liveness: `InFlightResolves`, `DeliveryResolves`, `DueHandled`, the
fairness in `ImplementsCrediting`, `DueBilled`, `EventComesToRest`, `WalletsSwept`,
`ExcessDeposited` and `UserReady`. It rests on fairness, whose meaning is ENABLED, and
ENABLED is out of the provers' reach. What the runs refute
(section 3) is of course not proved, and the theorems that exclude a fault name it.

## 5. Plan

Modelled, checked and proved are the parts of section 2. What is left, in this order:

1. Action properties: that a row of `subscriptions` leaves "failed" only by a retry
   or a new purchase; that a claimed or refunded escrow stays so.
2. `Transfers`: an escrow is pending only for somebody who had no account at the
   lookup, and is collected by nobody else.
3. Abstract specifications of the subscription (paid periods) and of the burn
   (asked, burned, minted or nothing), with refinements like `SettlesOnce`.

## 6. Not modelled, and why

- Cryptography: password hashes, tokens, TOTP values, passkey signatures, HMACs of
  webhooks, EIP-712 encoding. They are comparisons that succeed or fail.
- Emails and their wording, logging, health and readiness routes, error texts: output.
- The merchant's statistics and lists, the rates and fees shown to users: reads.
- Pages other than the payment page and the history: rendering of what a route
  returned. Generated clients and UI components.
- Fees, decimals and calendar arithmetic: amounts are small numbers, months are
  periods, none of the properties tells them apart.
- The Gateway safety net (`gateway.ts:73-206`): it looks for a user whose address sent
  `depositFor`, and every `depositFor` of this code is sent by the treasury.
- Database failures other than a refused condition or index, and restarts inside a
  transaction, which undo it.
