---------------------------- MODULE Subscriptions ----------------------------
(***************************************************************************)
(* The subscriptions of one user to one merchant: the requests that start  *)
(* one, each in the way its route does, and the billing worker, which      *)
(* selects the rows that are due and then handles what it selected row by  *)
(* row.  It charges in one transaction and writes the outcome in another   *)
(* statement, without a condition.                                         *)
(*                                                                         *)
(* A step is one statement or transaction of the database.  The row that a *)
(* request inserts bears its name.  Time is counted in days.               *)
(***************************************************************************)
EXTENDS Balances, Sequences, FiniteSets

CONSTANTS
  Requests,    \* requests that start a subscription
  Routes,      \* the routes each of them may take
  Codes,       \* confirmation codes
  CodeOf,      \* the code a request carries, if its route wants one
  Trials,      \* days of free trial the plan of each may have, 0 for none
  Payee,       \* the plan's payout email
  Subscriber,  \* the user
  Joined,      \* emails that have an account
  Price,       \* of one period, 0: an amount that is stored as 0.000000
  Period,      \* days of a period
  MaxRetries,  \* failed attempts until the worker gives up
  Passes,      \* passes of the worker that may overlap
  MaxDay,      \* bound: days
  MaxEvents    \* bound: what happens to the subscriber, the plans and the server

\* The routes in one transaction each, which first cancel what they find.
ActivateRoute == <<"begin", "commit">>
CheckoutRoute == <<"begin", "commit">>
HolderRoute == <<"begin", "commit">>

\* The routes in statements of their own.
PayRoute == <<"cancel", "charge", "insert">>
PassportRoute == <<"charge", "cancel", "insert">>
ValidateRoute == <<"charge", "cancel", "insert", "use">>

Program == [
  activate |-> ActivateRoute, checkout |-> CheckoutRoute, holder |-> HolderRoute,
  pay |-> PayRoute, passport |-> PassportRoute, validate |-> ValidateRoute]

NeedsCode == {"activate", "validate"}

ASSUME SubscriptionsAssumption ==
  /\ Routes \in [Requests -> SUBSET DOMAIN Program]
  /\ CodeOf \in [Requests -> Codes]
  /\ Trials \in [Requests -> SUBSET Nat]
  /\ Payee \in [Requests -> Users \ {Subscriber}]
  /\ Subscriber \in Users /\ Joined \subseteq Users
  /\ Price \in Nat /\ Period \in Nat \ {0} /\ MaxRetries \in Nat \ {0}
  /\ MaxDay \in Nat /\ MaxEvents \in Nat

VARIABLES
  day,          \* the clock
  request,      \* each request: how far it is, its route, the plan's trial, the day, what it has read
  sub,          \* subscriptions.status, "none" before there is a row
  nextBilling,  \* subscriptions.next_billing_at (and trial_ends_at)
  retries,      \* subscriptions.retry_count
  lastRetry,    \* subscriptions.last_retry_at
  code,         \* subscription_confirmation_codes
  pass,         \* the passes of the worker
  waiting,      \* escrows that wait for a payee without an account
  paidFor,      \* the due days each subscription was charged for
  paidOn,       \* the day of its last charge
  twice,        \* the subscriptions charged again for the same due day
  declined,     \* the days of its declined attempts
  closed,       \* the subscriber has deleted the account
  ownPlans,     \* the subscriptions whose plan pays out to the subscriber by now
  events        \* top-ups, deletions, changes of a plan, failures and restarts so far

billing == <<sub, nextBilling, retries, lastRetry>>
world == <<closed, ownPlans, events>>
books == <<balance, waiting, paidFor, paidOn, twice>>
subscriptionVars ==
  <<day, request, billing, code, pass, books, declined, world>>

Days == 0 .. MaxDay
Branches == {"trialing", "active", "past_due"}
Statuses == Branches \cup {"failed", "cancelled"}
Ended == 5    \* the step of a request that is over

NoRow == [at |-> "none", due |-> 0, retries |-> 0, own |-> FALSE]
Stages == {"none", "selected", "found", "paid", "declined"}
Rows == [at : Stages, due : Nat, retries : Nat, own : BOOLEAN]
NoPass == [branch |-> "idle", day |-> 0, rows |-> [s \in Requests |-> NoRow]]
NewRequest == [step |-> 0, kind |-> "none", trial |-> 0, day |-> 0, seen |-> {}]

InitSubscriptions ==
  /\ InitBalances
  /\ day = 0
  /\ request = [r \in Requests |-> NewRequest]
  /\ sub = [r \in Requests |-> "none"]
  /\ nextBilling = [r \in Requests |-> 0]
  /\ retries = [r \in Requests |-> 0]
  /\ lastRetry = [r \in Requests |-> 0]
  /\ code = [c \in Codes |-> "none"]
  /\ pass = [p \in Passes |-> NoPass]
  /\ waiting = 0
  /\ paidFor = [r \in Requests |-> {}]
  /\ twice = {}
  /\ paidOn = [r \in Requests |-> 0]
  /\ declined = [r \in Requests |-> {}]
  /\ closed = FALSE /\ ownPlans = {}
  /\ events = 0

-----------------------------------------------------------------------------
(***************************************************************************)
(* The charge: debit, credit (or an escrow that waits), in one transaction.*)
(***************************************************************************)
Funded == Covers(Subscriber, Price)

PayOut(s) ==
  /\ Debitable(Price)
  /\ IF Payee[s] \in Joined
       THEN MoveBalance(Subscriber, Payee[s], Price) /\ UNCHANGED waiting
       ELSE DebitBalance(Subscriber, Price) /\ waiting' = waiting + Price

ChargeSubscription(s, due) ==
  /\ PayOut(s)
  /\ paidFor' = [paidFor EXCEPT ![s] = @ \cup {due}]
  /\ twice' = IF due \in paidFor[s] THEN twice \cup {s} ELSE twice
  /\ paidOn' = [paidOn EXCEPT ![s] = day]

-----------------------------------------------------------------------------
(***************************************************************************)
(* Confirmation codes.                                                     *)
(***************************************************************************)
UnchangedButCode == UNCHANGED <<day, request, billing, pass, books, declined, world>>

\* POST /confirmation-code/generate, and /v1/confirmation-codes/generate of the merchant:
\* first the codes the user has are invalidated.
SupersedeCodes(c) ==
  /\ code[c] = "none"
  /\ code' = [d \in Codes |-> IF d = c THEN "new"
                              ELSE IF code[d] = "valid" THEN "invalidated" ELSE code[d]]
  /\ UnchangedButCode

GenerateCode(c) ==
  /\ code[c] = "new"
  /\ code' = [code EXCEPT ![c] = "valid"]
  /\ UnchangedButCode

\* Its seven days are over.
ExpireCode(c) ==
  /\ code[c] = "valid"
  /\ code' = [code EXCEPT ![c] = "expired"]
  /\ UnchangedButCode

-----------------------------------------------------------------------------
(***************************************************************************)
(* The requests that start a subscription.                                 *)
(***************************************************************************)
Kind(r) == request[r].kind

Step(r) ==
  IF request[r].step \in {0, Ended} THEN "none" ELSE Program[Kind(r)][request[r].step]

OnTrial(r) == request[r].trial > 0

Over(r) == [request[r] EXCEPT !.step = Ended, !.day = 0, !.seen = {}]

End(r) == request' = [request EXCEPT ![r] = Over(r)]

Proceed(r, seen) ==
  IF request[r].step = Len(Program[Kind(r)])
    THEN End(r)
    ELSE request' = [request EXCEPT ![r].step = @ + 1, ![r].seen = seen]

\* The checks of the route before anything is written: nobody subscribes to a plan
\* that pays out to the same account.
Receive(r, kind, trial) ==
  /\ request[r].step = 0
  /\ ~ closed /\ r \notin ownPlans
  /\ kind \in NeedsCode => code[CodeOf[r]] = "valid"
  /\ request' = [request EXCEPT ![r] =
       [NewRequest EXCEPT !.step = 1, !.kind = kind, !.trial = trial, !.day = day]]
  /\ UNCHANGED <<day, billing, code, pass, books, declined, world>>

\* The row is written: a trial ends, or the first period does.
InsertSubscription(r, others) ==
  /\ sub' = [s \in Requests |->
       IF s = r THEN IF OnTrial(r) THEN "trialing" ELSE "active"
       ELSE IF s \in others THEN "cancelled" ELSE sub[s]]
  /\ nextBilling' = [nextBilling EXCEPT
       ![r] = request[r].day + (IF OnTrial(r) THEN request[r].trial ELSE Period)]
  /\ UNCHANGED <<retries, lastRetry>>

Inserted == {s \in Requests : sub[s] # "none"}

\* The transaction of /activate, /checkout and /passport/activate.  It cancels
\* the rows it finds; those committed after that are not among them.
BeginActivation(r) ==
  /\ Step(r) = "begin"
  /\ Proceed(r, Inserted)
  /\ UNCHANGED <<day, billing, code, pass, books, declined, world>>

\* A trial marks the code without asking whether it is used by now.
MarkUsed(c) == code' = [code EXCEPT ![c] = "used"]

\* Mutant of CodeFree: the code is not looked at again.
CodeNotChecked(r) == TRUE

CodeFree(r) == code[CodeOf[r]] # "used"

CommitActivation(r) ==
  /\ Step(r) = "commit"
  /\ Kind(r) = "activate" => OnTrial(r) \/ CodeFree(r)
  /\ OnTrial(r) \/ Funded
  /\ IF OnTrial(r) THEN UNCHANGED books ELSE ChargeSubscription(r, request[r].day)
  /\ IF Kind(r) = "activate" THEN MarkUsed(CodeOf[r]) ELSE UNCHANGED code
  /\ InsertSubscription(r, request[r].seen)
  /\ Proceed(r, {})
  /\ UNCHANGED <<day, pass, declined, world>>

\* The code was used meanwhile, the balance is too low, or the ledger does not take
\* the amount.
RefuseActivation(r) ==
  /\ Step(r) \in {"commit", "charge"} /\ ~ OnTrial(r)
  /\ Funded /\ Debitable(Price) => Kind(r) = "activate" /\ ~ CodeFree(r)
  /\ End(r)
  /\ UNCHANGED <<day, billing, code, pass, books, declined, world>>

\* The other routes: each statement for itself.
CancelEarlier(r) ==
  /\ Step(r) = "cancel"
  /\ sub' = [s \in Requests |-> IF sub[s] = "none" THEN "none" ELSE "cancelled"]
  /\ Proceed(r, {})
  /\ UNCHANGED <<day, nextBilling, retries, lastRetry, code, pass, books, declined, world>>

ChargeFirst(r) ==
  /\ Step(r) = "charge"
  /\ IF OnTrial(r) THEN UNCHANGED books ELSE ChargeSubscription(r, request[r].day)
  /\ Proceed(r, {})
  /\ UNCHANGED <<day, billing, code, pass, declined, world>>

InsertRow(r) ==
  /\ Step(r) = "insert"
  /\ InsertSubscription(r, {})
  /\ Proceed(r, {})
  /\ UNCHANGED <<day, code, pass, books, declined, world>>

UseCode(r) ==
  /\ Step(r) = "use"
  /\ MarkUsed(CodeOf[r])
  /\ Proceed(r, {})
  /\ UNCHANGED <<day, billing, pass, books, declined, world>>

Continue(r) ==
  \/ BeginActivation(r) \/ CommitActivation(r) \/ RefuseActivation(r)
  \/ CancelEarlier(r) \/ ChargeFirst(r) \/ InsertRow(r) \/ UseCode(r)

-----------------------------------------------------------------------------
(***************************************************************************)
(* The subscriber pays or cancels.                                         *)
(***************************************************************************)
\* POST /:id/retry, one transaction under the condition that the row is past due.
Retry(s) ==
  /\ sub[s] = "past_due"
  /\ ~ closed /\ s \notin ownPlans
  /\ ChargeSubscription(s, nextBilling[s])
  /\ sub' = [sub EXCEPT ![s] = "active"]
  /\ nextBilling' = [nextBilling EXCEPT ![s] = day + Period]
  /\ retries' = [retries EXCEPT ![s] = 0]
  /\ lastRetry' = [lastRetry EXCEPT ![s] = 0]
  /\ UNCHANGED <<day, request, code, pass, declined, world>>

\* DELETE /:id, and POST /v1/subscriptions/:id/cancel of the merchant.
CancelSubscription(s) ==
  /\ sub[s] \in Branches
  /\ sub' = [sub EXCEPT ![s] = "cancelled"]
  /\ UNCHANGED <<day, request, nextBilling, retries, lastRetry, code, pass, books, declined, world>>

-----------------------------------------------------------------------------
(***************************************************************************)
(* The billing worker.                                                     *)
(***************************************************************************)
\* Mutant of DueIn: the day after the last attempt is not waited for.
DueAtOnce(branch, today, s) ==
  /\ sub[s] = branch
  /\ IF branch = "past_due"
       THEN retries[s] < MaxRetries
       ELSE nextBilling[s] <= today

DueIn(branch, today, s) ==
  /\ sub[s] = branch
  /\ IF branch = "past_due"
       THEN lastRetry[s] < today /\ retries[s] < MaxRetries
       ELSE nextBilling[s] <= today

Due(s) == \E b \in Branches : DueIn(b, day, s)

\* Mutant of Following: what is past due is not looked at.
FollowingShort == [trialing |-> "active", active |-> "idle", past_due |-> "idle"]

Following == [trialing |-> "active", active |-> "past_due", past_due |-> "idle"]

\* The select of a branch; the row and its plan are kept as they were read.
Select(p, branch, today) ==
  pass' = [pass EXCEPT ![p] = [branch |-> branch, day |-> today, rows |->
    [s \in Requests |->
       IF branch # "idle" /\ DueIn(branch, today, s)
         THEN [at |-> "selected", due |-> nextBilling[s], retries |-> retries[s],
               own |-> s \in ownPlans]
         ELSE NoRow]]]

UnchangedButPass == UNCHANGED <<day, request, billing, code, books, declined, world>>

StartPass(p) ==
  /\ pass[p].branch = "idle"
  /\ \E s \in Requests : Due(s)
  /\ Select(p, "trialing", day)
  /\ UnchangedButPass

NextBranch(p) ==
  /\ pass[p].branch # "idle"
  /\ \A s \in Requests : pass[p].rows[s] = NoRow
  /\ LET branch == Following[pass[p].branch]
     IN Select(p, branch, IF branch = "idle" THEN 0 ELSE pass[p].day)
  /\ UnchangedButPass

Outcome(p, s, at) == pass' = [pass EXCEPT ![p].rows[s].at = at]
Handled(p, s) == pass' = [pass EXCEPT ![p].rows[s] = NoRow]

Selected(p, s) == pass[p].rows[s].at = "selected"

FindSubscriber(p, s) ==
  /\ Selected(p, s)
  /\ ~ closed /\ ~ pass[p].rows[s].own
  /\ Outcome(p, s, "found")
  /\ UnchangedButPass

\* Whoever has deleted the account is passed over; the row stays as it is.
NoSubscriber(p, s) ==
  /\ Selected(p, s)
  /\ closed
  /\ Handled(p, s)
  /\ UnchangedButPass

\* Nobody pays to themselves.
CancelOwn(p, s) ==
  /\ Selected(p, s)
  /\ ~ closed /\ pass[p].rows[s].own
  /\ sub' = [sub EXCEPT ![s] = "cancelled"]
  /\ Handled(p, s)
  /\ UNCHANGED <<day, request, nextBilling, retries, lastRetry, code, books, declined, world>>

BillingSucceeds(p, s) ==
  /\ pass[p].rows[s].at = "found"
  /\ ChargeSubscription(s, pass[p].rows[s].due)
  /\ Outcome(p, s, "paid")
  /\ UNCHANGED <<day, request, billing, code, declined, world>>

BillingDeclined(p, s) ==
  /\ pass[p].rows[s].at = "found"
  /\ Debitable(Price) /\ ~ Funded
  /\ Outcome(p, s, "declined")
  /\ declined' = [declined EXCEPT ![s] = @ \cup {pass[p].day}]
  /\ UNCHANGED <<day, request, billing, code, books, world>>

Event == events < MaxEvents /\ events' = events + 1

\* Any other error of the charge, which an amount the ledger does not take always
\* is: it is logged, and the row stays as it is.
BillingErrs(p, s) ==
  /\ pass[p].rows[s].at = "found"
  /\ IF Debitable(Price) THEN Event ELSE UNCHANGED events
  /\ Handled(p, s)
  /\ UNCHANGED <<day, request, billing, code, books, declined, closed, ownPlans>>

\* Mutant of PaidStatus: the period begins where the last one ended.
PaidStatusAhead(p, s) ==
  /\ sub' = [sub EXCEPT ![s] = IF pass[p].branch = "active" THEN @ ELSE "active"]
  /\ nextBilling' = [nextBilling EXCEPT ![s] = pass[p].day + 2 * Period]
  /\ retries' = [retries EXCEPT ![s] = 0]
  /\ lastRetry' = [lastRetry EXCEPT ![s] = IF pass[p].branch = "past_due" THEN 0 ELSE @]

\* A renewal leaves the status as it is.
PaidStatus(p, s) ==
  /\ sub' = [sub EXCEPT ![s] = IF pass[p].branch = "active" THEN @ ELSE "active"]
  /\ nextBilling' = [nextBilling EXCEPT ![s] = pass[p].day + Period]
  /\ retries' = [retries EXCEPT ![s] = 0]
  /\ lastRetry' = [lastRetry EXCEPT ![s] = IF pass[p].branch = "past_due" THEN 0 ELSE @]

DeclinedStatus(p, s) ==
  LET count == IF pass[p].branch = "past_due" THEN pass[p].rows[s].retries + 1 ELSE 1
  IN /\ sub' = [sub EXCEPT ![s] =
          IF pass[p].branch = "past_due" /\ count >= MaxRetries THEN "failed" ELSE "past_due"]
     /\ retries' = [retries EXCEPT ![s] = count]
     /\ lastRetry' = [lastRetry EXCEPT ![s] = pass[p].day]
     /\ UNCHANGED nextBilling

\* The outcome is written over whatever the row is by now.
WriteOutcome(p, s) ==
  /\ \/ pass[p].rows[s].at = "paid" /\ PaidStatus(p, s)
     \/ pass[p].rows[s].at = "declined" /\ DeclinedStatus(p, s)
  /\ Handled(p, s)
  /\ UNCHANGED <<day, request, code, books, declined, world>>

PassStep(p) ==
  \/ StartPass(p) \/ NextBranch(p)
  \/ \E s \in Requests :
       \/ FindSubscriber(p, s) \/ NoSubscriber(p, s) \/ CancelOwn(p, s)
       \/ BillingSucceeds(p, s) \/ BillingDeclined(p, s) \/ BillingErrs(p, s)
       \/ WriteOutcome(p, s)

-----------------------------------------------------------------------------
Tick ==
  /\ day < MaxDay
  /\ day' = day + 1
  /\ UNCHANGED <<request, billing, code, pass, books, declined, world>>

\* A deposit or a transfer to the subscriber.
TopUp ==
  /\ Event
  /\ ~ closed
  /\ CreditBalance(Subscriber, Price)
  /\ UNCHANGED <<day, request, billing, code, pass, waiting, paidFor, paidOn, twice, declined,
                 closed, ownPlans>>

\* POST /security/delete-account/confirm: the row of the user goes, with its balance;
\* the subscriptions stay.
DeleteSubscriber ==
  /\ Event
  /\ ~ closed /\ closed' = TRUE
  /\ balance' = [balance EXCEPT ![Subscriber] = 0]
  /\ UNCHANGED <<day, request, billing, code, pass, waiting, paidFor, paidOn, twice, declined,
                 ownPlans>>

\* PATCH /v1/plans/:id: the payout email becomes the subscriber's, or another again.
RedirectPlan(s) ==
  /\ Event
  /\ ownPlans' = IF s \in ownPlans THEN ownPlans \ {s} ELSE ownPlans \cup {s}
  /\ UNCHANGED <<day, request, billing, code, pass, books, declined, closed>>

\* The server stops: requests and passes are gone, and open transactions.
Restart ==
  /\ Event
  /\ request' = [r \in Requests |->
       IF request[r].step = 0 THEN NewRequest ELSE Over(r)]
  /\ code' = [c \in Codes |-> IF code[c] = "new" THEN "none" ELSE code[c]]
  /\ pass' = [p \in Passes |-> NoPass]
  /\ UNCHANGED <<day, billing, books, declined, closed, ownPlans>>

SubscriptionsStep ==
  \/ \E c \in Codes : SupersedeCodes(c) \/ GenerateCode(c) \/ ExpireCode(c)
  \/ \E r \in Requests :
       Continue(r) \/ \E kind \in Routes[r], trial \in Trials[r] : Receive(r, kind, trial)
  \/ \E s \in Requests : Retry(s) \/ CancelSubscription(s) \/ RedirectPlan(s)
  \/ \E p \in Passes : PassStep(p)
  \/ Tick
  \/ TopUp
  \/ DeleteSubscriber
  \/ Restart

SubscriptionsSpec == InitSubscriptions /\ [][SubscriptionsStep]_subscriptionVars

\* The timer of the worker fires again and again, and a request that has begun runs.
BillingSpec ==
  /\ SubscriptionsSpec
  /\ \A p \in Passes : WF_subscriptionVars(PassStep(p))
  /\ \A r \in Requests : WF_subscriptionVars(Continue(r))

-----------------------------------------------------------------------------
(***************************************************************************)
(* Properties.                                                             *)
(***************************************************************************)

\* Types; no balance is negative.
SubscriptionsTypeOK ==
  /\ balance \in [Users -> Nat] /\ waiting \in Nat
  /\ day \in Days
  /\ request \in [Requests -> [step : 0 .. Ended, kind : DOMAIN Program \cup {"none"},
                            trial : Nat, day : Days, seen : SUBSET Requests]]
  /\ sub \in [Requests -> Statuses \cup {"none"}]
  /\ nextBilling \in [Requests -> Nat]
  /\ retries \in [Requests -> 0 .. MaxRetries]
  /\ lastRetry \in [Requests -> Days]
  /\ code \in [Codes -> {"none", "new", "valid", "invalidated", "expired", "used"}]
  /\ pass \in [Passes -> [branch : Branches \cup {"idle"}, day : Days, rows : [Requests -> Rows]]]
  /\ paidFor \in [Requests -> SUBSET Nat] /\ twice \subseteq Requests
  /\ paidOn \in [Requests -> Days]
  /\ declined \in [Requests -> SUBSET Days]
  /\ closed \in BOOLEAN /\ ownPlans \subseteq Requests
  /\ events \in 0 .. MaxEvents

Charged(s) == paidFor[s] # {}

\* Whichever of worker, subscriber and stale pass wrote last: an active
\* subscription has been paid for, and its next billing is at most one period
\* after its last payment, so nobody has a period for free.
NoFreePeriod ==
  \A s \in Requests :
    sub[s] = "active" => Charged(s) /\ nextBilling[s] <= paidOn[s] + Period

\* The worker gives a subscription up only after as many declined attempts as
\* it promises, on days of their own, even if its passes overlap.
FailedAfterRetries ==
  \A s \in Requests : sub[s] = "failed" => Cardinality(declined[s]) >= MaxRetries

\* However many requests POST /activate gets with one code at a time: it is
\* charged once.
CodeChargesOnce ==
  \A c \in Codes :
    Cardinality({r \in Requests : /\ Kind(r) = "activate" /\ CodeOf[r] = c
                                  /\ ~ OnTrial(r) /\ sub[r] # "none"}) <= 1

\* A subscription that is due does not stay so, it is billed, declined or cancelled,
\* as long as its subscriber has an account and the ledger takes its amount.
DueBilled == \A s \in Requests : []<>(~ Due(s) \/ closed \/ ~ Debitable(Price))

\* "Critical financial operations are protected against double-execution:
\* subscription billing": a subscription is charged once for each due day.
ChargedOncePerDue == twice = {}
=============================================================================
