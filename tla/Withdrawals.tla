---------------------------- MODULE Withdrawals ----------------------------
(***************************************************************************)
(* The life of the withdrawals of one user: the HTTP route that submits    *)
(* them, the pollers of direct transfers, the reconciliation worker, the   *)
(* Gateway delivery worker, the mint webhook, the admin who resolves held  *)
(* rows, crashes of the one server process, and Circle outside of it.      *)
(*                                                                         *)
(* A step is one database statement (or transaction), or one call to       *)
(* Circle with its answer; everything else interleaves between the steps   *)
(* of a handler.  What the database and Circle hold survives a crash, the  *)
(* rest does not.                                                          *)
(***************************************************************************)
EXTENDS Naturals

CONSTANTS
  Withdrawals,   \* withdrawal requests of one user
  Amount,        \* gross amount of each request (what is deducted and refunded)
  MaxBalance,    \* bound: balance the user starts with
  MaxCrashes,    \* bound: restarts of the server
  Faults         \* what the environment may do, of FaultKinds

(***************************************************************************)
(* "stall": a statement of the route may take longer than the timers of    *)
(*   the other actors (8 s to the first poll, 10 min until a row is stale).*)
(* "crash_mid_refund": the server may stop between the two statements of   *)
(*   an unguarded refund.                                                  *)
(* "accepted_error": Circle may have executed a transfer whose answer the  *)
(*   route takes for a rejection (HTTP 5xx, or a Gateway body cut off).    *)
(* "lost_wire": Circle may have executed a payout whose answer was lost.   *)
(***************************************************************************)
FaultKinds == {"stall", "crash_mid_refund", "accepted_error", "lost_wire"}

ASSUME WithdrawalsAssumption ==
  /\ Amount \in [Withdrawals -> Nat \ {0}]
  /\ MaxBalance \in Nat
  /\ MaxCrashes \in Nat
  /\ Faults \subseteq FaultKinds

VARIABLES
  balance,   \* users.claimed_balance
  refunds,   \* times each request's amount was credited back (history)
  status,    \* withdrawals.status, "none" while there is no row
  pc,        \* where the HTTP request is
  sent,      \* what Circle holds for each request, per channel
  poller,    \* the two in-memory pollers of a direct transfer
  job,       \* the reconciliation pass: rows still to handle
  hook,      \* a mint webhook between its read and its write
  crashes    \* restarts so far

money == <<balance, refunds>>
actors == <<poller, job, hook, crashes>>
vars == <<balance, refunds, status, pc, sent, poller, job, hook, crashes>>

Channels == {"circle", "gateway", "wire"}
Outcomes == {"none", "pending", "landed", "failed"}
Statuses == {"none", "pending", "processing", "submitting_gateway", "delivering",
             "completed", "failed", "refunded", "needs_review"}
InFlight == {"processing", "submitting_gateway"}
Labels == {"idle", "deducted", "inserted", "accepted", "gateway", "burned", "unanswered",
           "rejected", "restored", "wire", "wired", "wire_failed", "done"}
Pollers == {"route", "replay"}
PollerStates == {"off", "on", "restored"}
Jobs == {"none", "processing", "submitting_gateway", "accepted"}

TypeOK ==
  /\ balance \in Nat
  /\ refunds \in [Withdrawals -> Nat]
  /\ status \in [Withdrawals -> Statuses]
  /\ pc \in [Withdrawals -> Labels]
  /\ sent \in [Withdrawals -> [Channels -> Outcomes]]
  /\ poller \in [Withdrawals -> [Pollers -> PollerStates]]
  /\ job \in [Withdrawals -> Jobs]
  /\ hook \in [Withdrawals -> BOOLEAN]
  /\ crashes \in 0 .. MaxCrashes

Idle == [w \in Withdrawals |-> [p \in Pollers |-> "off"]]

Init ==
  /\ balance \in 0 .. MaxBalance
  /\ refunds = [w \in Withdrawals |-> 0]
  /\ status = [w \in Withdrawals |-> "none"]
  /\ pc = [w \in Withdrawals |-> "idle"]
  /\ sent = [w \in Withdrawals |-> [c \in Channels |-> "none"]]
  /\ poller = Idle
  /\ job = [w \in Withdrawals |-> "none"]
  /\ hook = [w \in Withdrawals |-> FALSE]
  /\ crashes = 0

-----------------------------------------------------------------------------
(***************************************************************************)
(* Steps the handlers share.                                               *)
(***************************************************************************)
Goto(w, from, to) ==
  /\ pc[w] = from
  /\ pc' = [pc EXCEPT ![w] = to]

SetStatus(w, s) == status' = [status EXCEPT ![w] = s]

SetPoller(w, p, s) == poller' = [poller EXCEPT ![w][p] = s]

\* An UPDATE guarded on the status: no row matches, no change.
SetStatusFrom(w, from, s) ==
  status' = [status EXCEPT ![w] = IF @ \in from THEN s ELSE @]

\* atomicRestore: credits the amount, whatever became of the row.
Credit(w) ==
  /\ balance' = balance + Amount[w]
  /\ refunds' = [refunds EXCEPT ![w] = @ + 1]

\* Mutant of Refund: the UPDATE without its condition on the status.
RefundUnguarded(w, from, to) == SetStatus(w, to) /\ Credit(w)

\* One transaction: the guarded status change, and the credit if it matched.
Refund(w, from, to) ==
  /\ status[w] \in from
  /\ SetStatus(w, to)
  /\ Credit(w)

RefundOrSkip(w, from, to) ==
  \/ Refund(w, from, to)
  \/ status[w] \notin from /\ UNCHANGED <<status, money>>

\* Mutant of Accept: every call under a new idempotency key.
AcceptFreshKey(w, c) == sent' = [sent EXCEPT ![w][c] = "pending"]

\* Circle takes a request; one idempotency key makes one transfer at most.
Accept(w, c) == sent' = [sent EXCEPT ![w][c] = IF @ = "none" THEN "pending" ELSE @]

\* No answer: nobody knows whether Circle took the request.
MaybeAccept(w, c) == Accept(w, c) \/ UNCHANGED sent

\* An error answer, which the code takes for a rejection.
Refuse(w, c) ==
  \/ UNCHANGED sent
  \/ /\ (IF c = "wire" THEN "lost_wire" ELSE "accepted_error") \in Faults
     /\ Accept(w, c)

-----------------------------------------------------------------------------
(***************************************************************************)
(* POST /crypto and POST /fiat.                                            *)
(***************************************************************************)

\* Mutant of Deduct: the deduction without the condition on the balance.
DeductUnguarded(w) ==
  /\ balance' = balance - Amount[w]
  /\ Goto(w, "idle", "deducted") \/ Goto(w, "idle", "wire")
  /\ UNCHANGED <<refunds, status, sent, actors>>

\* The conditional deduction, then on to the row (crypto) or the wire (fiat).
Deduct(w) ==
  /\ balance >= Amount[w]
  /\ balance' = balance - Amount[w]
  /\ Goto(w, "idle", "deducted") \/ Goto(w, "idle", "wire")
  /\ UNCHANGED <<refunds, status, sent, actors>>

InsertRow(w) ==
  /\ Goto(w, "deducted", "inserted")
  /\ SetStatus(w, "processing")
  /\ UNCHANGED <<money, sent, actors>>

\* Enough liquidity on the chain: a direct transfer, and Circle answers with
\* its id.  The poller starts before the route records anything.
DirectAccepted(w) ==
  /\ Goto(w, "inserted", "accepted")
  /\ Accept(w, "circle")
  /\ SetPoller(w, "route", "on")
  /\ UNCHANGED <<money, status, job, hook, crashes>>

\* Circle answers with an HTTP error, whatever its number.
DirectRejected(w) ==
  /\ Goto(w, "inserted", "rejected")
  /\ Refuse(w, "circle")
  /\ UNCHANGED <<money, status, actors>>

\* Mutant of DirectUnanswered: a timeout is taken for a rejection.
DirectTimeoutRejected(w) ==
  /\ Goto(w, "inserted", "rejected")
  /\ MaybeAccept(w, "circle")
  /\ UNCHANGED <<money, status, actors>>

\* No answer: the row stays "processing" for the reconciliation worker.
DirectUnanswered(w) ==
  /\ Goto(w, "inserted", "done")
  /\ MaybeAccept(w, "circle")
  /\ UNCHANGED <<money, status, actors>>

\* No liquidity, and Gateway does not serve the chain.
NoRoute(w) ==
  /\ Goto(w, "inserted", "rejected")
  /\ UNCHANGED <<money, status, sent, actors>>

\* No liquidity: the row names the route before Gateway is called.
MarkSubmitting(w) ==
  /\ Goto(w, "inserted", "gateway")
  /\ SetStatus(w, "submitting_gateway")
  /\ UNCHANGED <<money, sent, actors>>

GatewayAccepted(w) ==
  /\ Goto(w, "gateway", "burned")
  /\ Accept(w, "gateway")
  /\ UNCHANGED <<money, status, actors>>

\* No source chain took the burn intent.
GatewayRejected(w) ==
  /\ Goto(w, "gateway", "rejected")
  /\ Refuse(w, "gateway")
  /\ UNCHANGED <<money, status, actors>>

GatewayUnanswered(w) ==
  /\ Goto(w, "gateway", "unanswered")
  /\ MaybeAccept(w, "gateway")
  /\ UNCHANGED <<money, status, actors>>

HoldForReview(w) ==
  /\ Goto(w, "unanswered", "done")
  /\ SetStatus(w, "needs_review")
  /\ UNCHANGED <<money, sent, actors>>

\* Mutant of Restore: the credit without the status update behind it.
RestoreOnly(w) ==
  /\ Goto(w, "rejected", "done")
  /\ Credit(w)
  /\ UNCHANGED <<status, sent, actors>>

\* The two statements of the route's refund.
Restore(w) ==
  /\ Goto(w, "rejected", "restored")
  /\ Credit(w)
  /\ UNCHANGED <<status, sent, actors>>

MarkFailed(w) ==
  /\ Goto(w, "restored", "done")
  /\ SetStatus(w, "failed")
  /\ UNCHANGED <<money, sent, actors>>

\* Step 4 of the route, without a look at what the row says by now.
RecordOutcome(w) ==
  /\ \/ Goto(w, "accepted", "done") /\ SetStatus(w, "completed")
     \/ Goto(w, "burned", "done") /\ SetStatus(w, "delivering")
  /\ UNCHANGED <<money, sent, actors>>

\* Circle's sandbox takes an error for success: then there is no payout.
WireAccepted(w) ==
  /\ Goto(w, "wire", "wired")
  /\ MaybeAccept(w, "wire")
  /\ UNCHANGED <<money, status, actors>>

WireFailed(w) ==
  /\ Goto(w, "wire", "wire_failed")
  /\ Refuse(w, "wire")
  /\ UNCHANGED <<money, status, actors>>

RestoreWire(w) ==
  /\ Goto(w, "wire_failed", "done")
  /\ Credit(w)
  /\ UNCHANGED <<status, sent, actors>>

RecordWire(w) ==
  /\ Goto(w, "wired", "done")
  /\ SetStatus(w, "pending")
  /\ UNCHANGED <<money, sent, actors>>

Route(w) ==
  \/ Deduct(w) \/ InsertRow(w) \/ NoRoute(w)
  \/ DirectAccepted(w) \/ DirectRejected(w) \/ DirectUnanswered(w)
  \/ MarkSubmitting(w)
  \/ GatewayAccepted(w) \/ GatewayRejected(w) \/ GatewayUnanswered(w)
  \/ HoldForReview(w) \/ Restore(w) \/ MarkFailed(w) \/ RecordOutcome(w)
  \/ WireAccepted(w) \/ WireFailed(w) \/ RestoreWire(w) \/ RecordWire(w)

-----------------------------------------------------------------------------
(***************************************************************************)
(* The pollers of a direct transfer: the route's, with its unguarded       *)
(* onFailure, and the replay's, which refunds out of "completed" only.     *)
(***************************************************************************)

\* The transfer landed, or the 30 minutes were over before it settled.
PollStops(w, p) ==
  /\ poller[w][p] = "on"
  /\ sent[w]["circle"] \in {"pending", "landed"}
  /\ SetPoller(w, p, "off")
  /\ UNCHANGED <<money, status, pc, sent, job, hook, crashes>>

\* The first poll comes 8 s after the answer: after step 4, unless it stalls.
RoutePollFailed(w) ==
  /\ poller[w]["route"] = "on"
  /\ sent[w]["circle"] = "failed"
  /\ pc[w] # "accepted" \/ "stall" \in Faults
  /\ Credit(w)
  /\ SetPoller(w, "route", "restored")
  /\ UNCHANGED <<status, pc, sent, job, hook, crashes>>

RoutePollMarkFailed(w) ==
  /\ poller[w]["route"] = "restored"
  /\ SetStatus(w, "failed")
  /\ SetPoller(w, "route", "off")
  /\ UNCHANGED <<money, pc, sent, job, hook, crashes>>

ReplayPollFailed(w) ==
  /\ poller[w]["replay"] = "on"
  /\ sent[w]["circle"] = "failed"
  /\ job[w] # "accepted" \/ "stall" \in Faults
  /\ RefundOrSkip(w, {"completed"}, "failed")
  /\ SetPoller(w, "replay", "off")
  /\ UNCHANGED <<pc, sent, job, hook, crashes>>

Poll(w) ==
  \/ \E p \in Pollers : PollStops(w, p)
  \/ RoutePollFailed(w) \/ RoutePollMarkFailed(w) \/ ReplayPollFailed(w)

-----------------------------------------------------------------------------
(***************************************************************************)
(* The reconciliation worker: one select, then its rows one after another. *)
(***************************************************************************)
\* Mutants of Stale: no age limit; the Gateway rows forgotten.
StaleAtOnce(w) == status[w] \in InFlight
StaleDirect(w) == status[w] = "processing" /\ pc[w] = "done"

Stale(w) ==
  /\ status[w] \in InFlight
  /\ pc[w] = "done" \/ "stall" \in Faults

\* S: the rows old enough by now.
Scan(S) ==
  /\ \A w \in Withdrawals : job[w] = "none"
  /\ S # {} /\ \A w \in S : Stale(w)
  /\ job' = [w \in Withdrawals |-> IF w \in S THEN status[w] ELSE "none"]
  /\ UNCHANGED <<money, status, pc, sent, poller, hook, crashes>>

\* The pass turns to w: no other row is between its replay and its update.
Takes(w, j) ==
  /\ job[w] = j
  /\ \A v \in Withdrawals : job[v] # "accepted"

Finish(w) == job' = [job EXCEPT ![w] = "none"]

ReviewGateway(w) ==
  /\ Takes(w, "submitting_gateway")
  /\ SetStatusFrom(w, InFlight, "needs_review")
  /\ Finish(w)
  /\ UNCHANGED <<money, pc, sent, poller, hook, crashes>>

\* The replay with the same idempotency key: the transfer already made, or one now.
ReplayAccepted(w) ==
  /\ Takes(w, "processing")
  /\ Accept(w, "circle")
  /\ job' = [job EXCEPT ![w] = "accepted"]
  /\ SetPoller(w, "replay", "on")
  /\ UNCHANGED <<money, status, pc, hook, crashes>>

ReplayRecord(w) ==
  /\ job[w] = "accepted"
  /\ SetStatusFrom(w, {"processing"}, "completed")
  /\ Finish(w)
  /\ UNCHANGED <<money, pc, sent, poller, hook, crashes>>

\* HTTP 409.
ReplayConflict(w) ==
  /\ Takes(w, "processing")
  /\ sent[w]["circle"] # "none"
  /\ SetStatusFrom(w, InFlight, "needs_review")
  /\ Finish(w)
  /\ UNCHANGED <<money, pc, sent, poller, hook, crashes>>

\* Another 4xx: Circle has no transfer under this key, and will make none.
ReplayRejected(w) ==
  /\ Takes(w, "processing")
  /\ sent[w]["circle"] = "none"
  /\ RefundOrSkip(w, {"processing"}, "failed")
  /\ Finish(w)
  /\ UNCHANGED <<pc, sent, poller, hook, crashes>>

\* No status, 5xx or 429: tried again in the next pass.
ReplayInconclusive(w) ==
  /\ Takes(w, "processing")
  /\ MaybeAccept(w, "circle")
  /\ Finish(w)
  /\ UNCHANGED <<money, status, pc, poller, hook, crashes>>

ReplayDecided(w) == ReplayAccepted(w) \/ ReplayConflict(w) \/ ReplayRejected(w)

Reconcile(w) ==
  \/ ReviewGateway(w) \/ ReplayDecided(w) \/ ReplayInconclusive(w) \/ ReplayRecord(w)

-----------------------------------------------------------------------------
(***************************************************************************)
(* The delivery worker, the mint webhook and the admin.                    *)
(***************************************************************************)
DeliveryCompleted(w) ==
  /\ status[w] = "delivering"
  /\ sent[w]["gateway"] = "landed"
  /\ SetStatus(w, "completed")
  /\ UNCHANGED <<money, pc, sent, actors>>

\* Mutant of DeliveryRefunded: the condition names the wrong status.
DeliveryRefundedTooEarly(w) ==
  /\ sent[w]["gateway"] = "failed"
  /\ Refund(w, {"submitting_gateway"}, "refunded")
  /\ UNCHANGED <<pc, sent, actors>>

DeliveryRefunded(w) ==
  /\ sent[w]["gateway"] = "failed"
  /\ Refund(w, {"delivering"}, "refunded")
  /\ UNCHANGED <<pc, sent, actors>>

\* The webhook finds the row by the transfer id stored with "delivering".  (It
\* goes on when the row is completed, too, to store the hash of the mint.)
MintMatched(w) ==
  /\ ~ hook[w]
  /\ sent[w]["gateway"] = "landed"
  /\ status[w] = "delivering"
  /\ hook' = [hook EXCEPT ![w] = TRUE]
  /\ UNCHANGED <<money, status, pc, sent, poller, job, crashes>>

MintRecorded(w) ==
  /\ hook[w]
  /\ SetStatus(w, "completed")
  /\ hook' = [hook EXCEPT ![w] = FALSE]
  /\ UNCHANGED <<money, pc, sent, poller, job, crashes>>

Landed(w) == \E c \in Channels : sent[w][c] = "landed"
UnderWay(w) == \E c \in Channels : sent[w][c] \in {"pending", "landed"}

\* The admin looks at Circle and at the explorer first, and waits for an outcome.
AdminRefund(w) ==
  /\ ~ UnderWay(w)
  /\ Refund(w, {"needs_review"}, "refunded")
  /\ UNCHANGED <<pc, sent, actors>>

AdminDelivered(w) ==
  /\ Landed(w)
  /\ status[w] = "needs_review"
  /\ SetStatus(w, "completed")
  /\ UNCHANGED <<money, pc, sent, actors>>

Deliver(w) == DeliveryCompleted(w) \/ DeliveryRefunded(w)
Webhook(w) == MintMatched(w) \/ MintRecorded(w)
Admin(w) == AdminRefund(w) \/ AdminDelivered(w)

-----------------------------------------------------------------------------
(***************************************************************************)
(* Circle and the process.                                                 *)
(***************************************************************************)

\* Circle brings a transfer it took to its end.
CircleSettles(w, c) ==
  /\ sent[w][c] = "pending"
  /\ \E o \in {"landed", "failed"} : sent' = [sent EXCEPT ![w][c] = o]
  /\ UNCHANGED <<money, status, pc, actors>>

MidRefund(w) == pc[w] = "restored" \/ poller[w]["route"] = "restored"

\* The server stops and starts again: requests, pollers and passes are gone.
Crash ==
  /\ crashes < MaxCrashes
  /\ (\E w \in Withdrawals : MidRefund(w)) => "crash_mid_refund" \in Faults
  /\ crashes' = crashes + 1
  /\ pc' = [w \in Withdrawals |-> IF pc[w] = "idle" THEN "idle" ELSE "done"]
  /\ poller' = Idle
  /\ job' = [w \in Withdrawals |-> "none"]
  /\ hook' = [w \in Withdrawals |-> FALSE]
  /\ UNCHANGED <<money, status, sent>>

Next ==
  \/ \E w \in Withdrawals :
       \/ Route(w) \/ Poll(w) \/ Reconcile(w) \/ Deliver(w) \/ Webhook(w) \/ Admin(w)
       \/ \E c \in Channels : CircleSettles(w, c)
  \/ \E S \in SUBSET Withdrawals : Scan(S)
  \/ Crash

(***************************************************************************)
(* The event loop runs every handler it has started, the timers keep       *)
(* firing, Circle settles what it took and does not leave every replay     *)
(* without a definite answer.  Nobody makes users withdraw or admins act.  *)
(***************************************************************************)
Fairness ==
  /\ \A w \in Withdrawals :
       /\ WF_vars(Route(w) /\ pc[w] # "idle")
       /\ WF_vars(Poll(w))
       /\ WF_vars(Reconcile(w))
       /\ SF_vars(ReplayDecided(w))
       /\ SF_vars(\E S \in SUBSET Withdrawals : w \in S /\ Scan(S))
       /\ WF_vars(Deliver(w))
       /\ WF_vars(MintRecorded(w))
       /\ \A c \in Channels : WF_vars(CircleSettles(w, c))

Spec == Init /\ [][Next]_vars
FairSpec == Spec /\ Fairness

-----------------------------------------------------------------------------
(***************************************************************************)
(* Properties.                                                             *)
(***************************************************************************)

\* A withdrawal is refunded at most once, whoever refunds it: the route, a
\* poller, the reconciliation worker, the delivery worker or an admin.
RefundedOnce == \A w \in Withdrawals : refunds[w] <= 1

\* Money that was given back is neither delivered nor on its way.
NeverPaidAndRefunded == \A w \in Withdrawals : refunds[w] > 0 => ~ UnderWay(w)

\* The row and the ledger agree: outside the two statements of an unguarded
\* refund, a row says failed or refunded exactly if its amount was given back.
BooksMatch ==
  \A w \in Withdrawals :
    status[w] # "none" /\ ~ MidRefund(w) =>
      (refunds[w] > 0 <=> status[w] \in {"failed", "refunded"})

\* The lifecycle of a row: what each status may turn into.  In particular
\* failed and refunded are final, and nothing returns to an earlier status.
Follows ==
  [none               |-> {"processing", "pending"},
   pending            |-> {},
   processing         |-> {"submitting_gateway", "completed", "failed", "needs_review"},
   submitting_gateway |-> {"delivering", "failed", "needs_review"},
   delivering         |-> {"completed", "refunded"},
   completed          |-> {"failed"},
   needs_review       |-> {"completed", "refunded"},
   failed             |-> {},
   refunded           |-> {}]

StatusLifecycle ==
  [][\A w \in Withdrawals :
       status'[w] # status[w] => status'[w] \in Follows[status[w]]]_status

\* A row the server left in flight, by a crash or a lost answer, does not
\* stay there; and a delivery is completed or refunded in the end.
InFlightResolves ==
  \A w \in Withdrawals : status[w] \in InFlight ~> status[w] \notin InFlight

DeliveryResolves ==
  \A w \in Withdrawals :
    status[w] = "delivering" ~> status[w] \in {"completed", "refunded"}

\* The comment on step 4 of the route: a direct transfer that fails is refunded.
FailedTransferRefunded ==
  \A w \in Withdrawals : sent[w]["circle"] = "failed" ~> refunds[w] > 0

(***************************************************************************)
(* Why a refund happens once, as an invariant that every step preserves as *)
(* long as the route does not stall and no crash splits an unguarded       *)
(* refund: each actor that may credit a request finds it not yet credited, *)
(* and no two of them are ever entitled to the same request.               *)
(***************************************************************************)

\* While the request runs, its label tells the row and the ledger.
RouteInv(w) ==
  /\ pc[w] \in {"idle", "deducted", "wire", "wired", "wire_failed"} =>
       status[w] = "none" /\ refunds[w] = 0
  /\ pc[w] \in {"inserted", "accepted"} => status[w] = "processing" /\ refunds[w] = 0
  /\ pc[w] \in {"gateway", "burned", "unanswered"} =>
       status[w] = "submitting_gateway" /\ refunds[w] = 0
  /\ pc[w] = "rejected" => status[w] \in InFlight /\ refunds[w] = 0
  /\ pc[w] = "restored" => status[w] \in InFlight /\ refunds[w] = 1

\* The pass of the worker holds rows whose request is over, and knows their status.
JobInv(w) ==
  job[w] # "none" =>
    /\ pc[w] = "done"
    /\ status[w] = IF job[w] = "submitting_gateway" THEN job[w] ELSE "processing"

\* One poller at most watches a request, and not while the worker can replay it.
PollerInv(w) ==
  /\ poller[w]["route"] # "off" =>
       /\ poller[w]["replay"] = "off" /\ ~ hook[w]
       /\ pc[w] = "accepted" \/ (pc[w] = "done" /\ status[w] = "completed")
  /\ poller[w]["route"] = "restored" => pc[w] = "done" /\ refunds[w] = 1
  /\ poller[w]["replay"] # "off" =>
       /\ poller[w]["replay"] = "on" /\ ~ hook[w] /\ pc[w] = "done" /\ refunds[w] = 0
       /\ status[w] = "completed" \/ job[w] = "accepted"

\* A webhook writes over a row whose mint landed, so nobody refunds it meanwhile.
HookInv(w) ==
  hook[w] =>
    /\ pc[w] = "done" /\ refunds[w] = 0
    /\ status[w] \in {"delivering", "completed"}
    /\ sent[w]["gateway"] = "landed"

\* Once the request is over, the row tells the ledger.
RowInv(w) ==
  /\ refunds[w] <= 1
  /\ status[w] \in InFlight \union {"pending", "delivering", "needs_review"}
       /\ pc[w] = "done" => refunds[w] = 0
  /\ status[w] = "completed" =>
       pc[w] = "done" /\ (refunds[w] = 0 \/ poller[w]["route"] = "restored")
  /\ status[w] \in {"failed", "refunded"} => pc[w] = "done" /\ refunds[w] = 1

RequestInv(w) == RouteInv(w) /\ JobInv(w) /\ PollerInv(w) /\ HookInv(w) /\ RowInv(w)

RefundInv == \A w \in Withdrawals : RequestInv(w)

\* Where the money can be, as long as Circle's errors are rejections: nothing
\* was sent before the calls, the row names the channel that may have been
\* used, one channel at most is used, and nothing refunded is under way.
ChannelInv(w) ==
  /\ pc[w] \in {"idle", "deducted", "inserted", "gateway", "wire", "wire_failed",
               "rejected", "restored"} =>
       \A c \in Channels : sent[w][c] = "none"
  /\ status[w] = "processing" => sent[w]["gateway"] = "none" /\ sent[w]["wire"] = "none"
  /\ status[w] \in {"submitting_gateway", "delivering"} =>
       sent[w]["circle"] = "none" /\ sent[w]["wire"] = "none"
  /\ \A p \in Pollers : poller[w][p] # "off" => sent[w]["circle"] # "none"
  /\ \A c, d \in Channels : sent[w][c] # "none" /\ sent[w][d] # "none" => c = d
  /\ refunds[w] > 0 => ~ UnderWay(w)

MoneyInv == \A w \in Withdrawals : ChannelInv(w)

\* What the user's account sees of a withdrawal.
Outcome ==
  [w \in Withdrawals |->
     IF Landed(w) THEN IF refunds[w] > 0 THEN "paid_and_returned" ELSE "paid"
     ELSE IF refunds[w] > 0 THEN "returned"
     ELSE IF pc[w] = "idle" THEN "none" ELSE "held"]

Account == INSTANCE Settlement WITH outcome <- Outcome

\* Each withdrawal settles once: taken from the balance, then paid or given back.
ImplementsSettlement == Account!Spec
=============================================================================
