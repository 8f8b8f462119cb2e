------------------------- MODULE WithdrawalsProofs -------------------------
(***************************************************************************)
(* Type correctness of the withdrawals, that each is refunded at most once *)
(* and that the books match, and that the whole system implements          *)
(* Settlement, for any set of withdrawals, any amounts and any number of   *)
(* restarts.                                                               *)
(***************************************************************************)
EXTENDS Withdrawals, TLAPS

(***************************************************************************)
(* What the shared steps do.                                               *)
(***************************************************************************)

\* Accept, or no change, alters one channel of one request at most, and
\* only from "none" to "pending".
LEMMA AcceptEffect ==
  ASSUME sent \in [Withdrawals -> [Channels -> Outcomes]],
         NEW w \in Withdrawals, NEW c \in Channels,
         Accept(w, c) \/ UNCHANGED sent
  PROVE  /\ sent' \in [Withdrawals -> [Channels -> Outcomes]]
         /\ \A v \in Withdrawals, d \in Channels :
              \/ sent'[v][d] = sent[v][d]
              \/ v = w /\ d = c /\ sent[v][d] = "none" /\ sent'[v][d] = "pending"
<1>1. CASE UNCHANGED sent
  BY <1>1
<1>2. CASE Accept(w, c)
  <2> DEFINE new == IF sent[w][c] = "none" THEN "pending" ELSE sent[w][c]
  <2>1. new \in Outcomes
    BY DEF Outcomes
  <2>2. sent' = [sent EXCEPT ![w] = [sent[w] EXCEPT ![c] = new]]
    BY <1>2 DEF Accept
  <2> HIDE DEF new
  <2>3. [sent[w] EXCEPT ![c] = new] \in [Channels -> Outcomes]
    BY <2>1
  <2>4. sent' \in [Withdrawals -> [Channels -> Outcomes]]
    BY <2>2, <2>3
  <2>5. ASSUME NEW v \in Withdrawals, NEW d \in Channels
        PROVE  sent'[v][d] = IF v = w /\ d = c THEN new ELSE sent[v][d]
    BY <2>2
  <2> QED
    BY <2>4, <2>5 DEF new
<1> QED
  BY <1>1, <1>2

\* SetPoller alters one poller of one request.
LEMMA SetPollerEffect ==
  ASSUME poller \in [Withdrawals -> [Pollers -> PollerStates]],
         NEW w \in Withdrawals, NEW p \in Pollers, NEW s \in PollerStates,
         SetPoller(w, p, s)
  PROVE  /\ poller' \in [Withdrawals -> [Pollers -> PollerStates]]
         /\ \A v \in Withdrawals, q \in Pollers :
              poller'[v][q] = IF v = w /\ q = p THEN s ELSE poller[v][q]
<1>1. poller' = [poller EXCEPT ![w] = [poller[w] EXCEPT ![p] = s]]
  BY DEF SetPoller
<1>2. [poller[w] EXCEPT ![p] = s] \in [Pollers -> PollerStates]
  OBVIOUS
<1> QED
  BY <1>1, <1>2

(***************************************************************************)
(* Types.                                                                  *)
(***************************************************************************)
LEMMA InitTypeOK == Init => TypeOK
  BY WithdrawalsAssumption
  DEF Init, TypeOK, Idle, Pollers, PollerStates, Statuses, Labels, Channels, Outcomes, Jobs

\* The types of what the steps of a handler assign.
SentType == sent \in [Withdrawals -> [Channels -> Outcomes]]
PollerType == poller \in [Withdrawals -> [Pollers -> PollerStates]]
RestType ==
  /\ balance \in Nat
  /\ refunds \in [Withdrawals -> Nat]
  /\ status \in [Withdrawals -> Statuses]
  /\ pc \in [Withdrawals -> Labels]
  /\ job \in [Withdrawals -> Jobs]
  /\ hook \in [Withdrawals -> BOOLEAN]
  /\ crashes \in 0 .. MaxCrashes

LEMMA TypeParts == TypeOK <=> SentType /\ PollerType /\ RestType
  BY DEF TypeOK, SentType, PollerType, RestType

LEMMA RouteTypeOK ==
  ASSUME TypeOK, NEW w \in Withdrawals, Route(w)
  PROVE  TypeOK'
<1>1. SentType'
  <2>1. SentType /\ {"circle", "gateway", "wire"} \subseteq Channels
    BY TypeParts DEF Channels
  <2>2. \/ UNCHANGED sent
        \/ \E c \in {"circle", "gateway", "wire"} : Accept(w, c)
    BY DEF Route, Deduct, InsertRow, NoRoute, DirectAccepted, DirectRejected, DirectUnanswered,
           MarkSubmitting, GatewayAccepted, GatewayRejected, GatewayUnanswered, HoldForReview,
           Restore, MarkFailed, RecordOutcome, WireAccepted, WireFailed, RestoreWire,
           RecordWire, Refuse, MaybeAccept
  <2> QED
    BY <2>1, <2>2, AcceptEffect DEF SentType
<1>2. PollerType'
  <2>1. PollerType /\ "route" \in Pollers /\ "on" \in PollerStates
    BY TypeParts DEF Pollers, PollerStates
  <2>2. UNCHANGED poller \/ SetPoller(w, "route", "on")
    BY DEF Route, Deduct, InsertRow, NoRoute, DirectAccepted, DirectRejected, DirectUnanswered,
           MarkSubmitting, GatewayAccepted, GatewayRejected, GatewayUnanswered, HoldForReview,
           Restore, MarkFailed, RecordOutcome, WireAccepted, WireFailed, RestoreWire,
           RecordWire, actors
  <2> QED
    BY <2>1, <2>2, SetPollerEffect DEF PollerType
<1>3. RestType'
  <2> USE DEF RestType, Statuses, Labels, Jobs, Goto, SetStatus, Credit, money, actors
  <2>1. RestType /\ Amount[w] \in Nat
    BY TypeParts, WithdrawalsAssumption
  <2>2. CASE Deduct(w) \/ InsertRow(w) \/ NoRoute(w)
    BY <2>1, <2>2 DEF Deduct, InsertRow, NoRoute
  <2>3. CASE DirectAccepted(w) \/ DirectRejected(w) \/ DirectUnanswered(w)
    BY <2>1, <2>3 DEF DirectAccepted, DirectRejected, DirectUnanswered
  <2>4. CASE MarkSubmitting(w) \/ GatewayAccepted(w) \/ GatewayRejected(w) \/ GatewayUnanswered(w)
    BY <2>1, <2>4 DEF MarkSubmitting, GatewayAccepted, GatewayRejected, GatewayUnanswered
  <2>5. CASE HoldForReview(w) \/ Restore(w) \/ MarkFailed(w) \/ RecordOutcome(w)
    BY <2>1, <2>5 DEF HoldForReview, Restore, MarkFailed, RecordOutcome
  <2>6. CASE WireAccepted(w) \/ WireFailed(w) \/ RestoreWire(w) \/ RecordWire(w)
    BY <2>1, <2>6 DEF WireAccepted, WireFailed, RestoreWire, RecordWire
  <2> QED
    BY <2>2, <2>3, <2>4, <2>5, <2>6 DEF Route
<1> QED
  BY <1>1, <1>2, <1>3, TypeParts DEF TypeOK, SentType, PollerType, RestType

LEMMA WorkerTypeOK ==
  ASSUME TypeOK, NEW w \in Withdrawals,
         Poll(w) \/ Reconcile(w) \/ Deliver(w) \/ Webhook(w) \/ Admin(w)
  PROVE  TypeOK'
<1> USE DEF Poll, Reconcile, Deliver, Webhook, Admin, ReplayDecided
<1>1. SentType'
  <2>1. SentType /\ "circle" \in Channels
    BY TypeParts DEF Channels
  <2>2. UNCHANGED sent \/ Accept(w, "circle")
    BY DEF PollStops, RoutePollFailed, RoutePollMarkFailed, ReplayPollFailed, ReviewGateway,
           ReplayAccepted, ReplayRecord, ReplayConflict, ReplayRejected, ReplayInconclusive,
           DeliveryCompleted, DeliveryRefunded, MintMatched, MintRecorded, AdminRefund,
           AdminDelivered, MaybeAccept
  <2> QED
    BY <2>1, <2>2, AcceptEffect DEF SentType
<1>2. PollerType'
  <2>1. PollerType
    BY TypeParts
  <2>2. UNCHANGED poller \/ \E p \in Pollers, s \in PollerStates : SetPoller(w, p, s)
    BY DEF PollStops, RoutePollFailed, RoutePollMarkFailed, ReplayPollFailed, ReviewGateway,
           ReplayAccepted, ReplayRecord, ReplayConflict, ReplayRejected, ReplayInconclusive,
           DeliveryCompleted, DeliveryRefunded, MintMatched, MintRecorded, AdminRefund,
           AdminDelivered, actors, Pollers, PollerStates
  <2> QED
    BY <2>1, <2>2, SetPollerEffect DEF PollerType
<1>3. RestType'
  <2> USE DEF RestType, Statuses, Jobs, SetStatus, SetStatusFrom, Credit, Refund, RefundOrSkip,
              Finish, money, actors
  <2>1. RestType /\ Amount[w] \in Nat
    BY TypeParts, WithdrawalsAssumption
  <2>2. CASE Poll(w)
    BY <2>1, <2>2 DEF PollStops, RoutePollFailed, RoutePollMarkFailed, ReplayPollFailed
  <2>3. CASE Reconcile(w)
    BY <2>1, <2>3 DEF ReviewGateway, ReplayAccepted, ReplayRecord, ReplayConflict,
                      ReplayRejected, ReplayInconclusive
  <2>4. CASE DeliveryCompleted(w) \/ DeliveryRefunded(w)
    BY <2>1, <2>4 DEF DeliveryCompleted, DeliveryRefunded
  <2>5. CASE MintMatched(w) \/ MintRecorded(w)
    BY <2>1, <2>5 DEF MintMatched, MintRecorded
  <2>6. CASE AdminRefund(w) \/ AdminDelivered(w)
    BY <2>1, <2>6 DEF AdminRefund, AdminDelivered
  <2> QED
    BY <2>2, <2>3, <2>4, <2>5, <2>6
<1> QED
  BY <1>1, <1>2, <1>3, TypeParts DEF TypeOK, SentType, PollerType, RestType

LEMMA EnvironmentTypeOK ==
  ASSUME TypeOK,
         \/ \E w \in Withdrawals, c \in Channels : CircleSettles(w, c)
         \/ \E S \in SUBSET Withdrawals : Scan(S)
         \/ Crash
  PROVE  TypeOK'
<1>1. CASE \E w \in Withdrawals, c \in Channels : CircleSettles(w, c)
  <2>1. PICK w \in Withdrawals, c \in Channels, o \in {"landed", "failed"} :
          /\ sent' = [sent EXCEPT ![w] = [sent[w] EXCEPT ![c] = o]]
          /\ UNCHANGED <<money, status, pc, actors>>
    BY <1>1 DEF CircleSettles
  <2>2. [sent[w] EXCEPT ![c] = o] \in [Channels -> Outcomes]
    BY DEF TypeOK, Outcomes
  <2> QED
    BY <2>1, <2>2 DEF TypeOK, money, actors
<1>2. CASE \E S \in SUBSET Withdrawals : Scan(S)
  <2>1. PICK S \in SUBSET Withdrawals : Scan(S)
    BY <1>2
  <2>2. \A w \in S : Stale(w)
    BY <2>1 DEF Scan
  <2>3. \A w \in S : status[w] \in Jobs
    BY <2>2 DEF Stale, InFlight, Jobs
  <2>4. job' \in [Withdrawals -> Jobs]
    BY <2>1, <2>3 DEF Scan, Jobs
  <2> QED
    BY <2>1, <2>4 DEF Scan, TypeOK, money
<1>3. CASE Crash
  BY <1>3, WithdrawalsAssumption
  DEF Crash, TypeOK, Idle, Pollers, PollerStates, Labels, Jobs, money
<1> QED
  BY <1>1, <1>2, <1>3

LEMMA NextTypeOK == TypeOK /\ [Next]_vars => TypeOK'
<1> SUFFICES ASSUME TypeOK, [Next]_vars
             PROVE  TypeOK'
  OBVIOUS
<1>1. CASE Next
  BY <1>1, RouteTypeOK, WorkerTypeOK, EnvironmentTypeOK DEF Next
<1>2. CASE UNCHANGED vars
  BY <1>2 DEF TypeOK, vars
<1> QED
  BY <1>1, <1>2

\* Every variable keeps its type, for every set of withdrawals and every
\* choice of the bounds and faults.
THEOREM TypeCorrect == Spec => []TypeOK
<1>1. Init => TypeOK
  BY InitTypeOK
<1>2. TypeOK /\ [Next]_vars => TypeOK'
  BY NextTypeOK
<1> QED
  BY <1>1, <1>2, PTL DEF Spec

(***************************************************************************)
(* At most one refund.  The facts about one request that RefundInv states  *)
(* are disturbed only by steps on that request, so each lemma below looks  *)
(* at the request that steps and leaves the others to Untouched.           *)
(***************************************************************************)
Same(v) ==
  /\ pc'[v] = pc[v] /\ status'[v] = status[v] /\ refunds'[v] = refunds[v]
  /\ job'[v] = job[v] /\ hook'[v] = hook[v]
  /\ poller'[v] = poller[v] /\ sent'[v] = sent[v]

LEMMA Untouched ==
  ASSUME NEW v \in Withdrawals, RequestInv(v), Same(v)
  PROVE  RequestInv(v)'
  BY DEF Same, RequestInv, RouteInv, JobInv, PollerInv, HookInv, RowInv

\* A landed mint stays landed, whatever Circle is asked.
LEMMA LandedStays ==
  ASSUME TypeOK, NEW w \in Withdrawals, NEW c \in Channels,
         Accept(w, c) \/ UNCHANGED sent
  PROVE  sent[w]["gateway"] = "landed" => sent'[w]["gateway"] = "landed"
  BY AcceptEffect, SMTT(20) DEF TypeOK, Channels

LEMMA OthersUntouched ==
  ASSUME TypeOK, NEW w \in Withdrawals,
         Route(w) \/ Poll(w) \/ Reconcile(w) \/ Deliver(w) \/ Webhook(w) \/ Admin(w),
         NEW v \in Withdrawals, v # w
  PROVE  Same(v)
<1> USE DEF TypeOK, Same, Goto, SetStatus, SetStatusFrom, SetPoller, Credit, Refund, RefundOrSkip,
            Accept, MaybeAccept, Refuse, Finish, money, actors
<1>1. CASE Route(w)
  BY <1>1
  DEF Route, Deduct, InsertRow, NoRoute, DirectAccepted, DirectRejected, DirectUnanswered,
      MarkSubmitting, GatewayAccepted, GatewayRejected, GatewayUnanswered, HoldForReview,
      Restore, MarkFailed, RecordOutcome, WireAccepted, WireFailed, RestoreWire, RecordWire
<1>2. CASE Poll(w)
  BY <1>2 DEF Poll, PollStops, RoutePollFailed, RoutePollMarkFailed, ReplayPollFailed
<1>3. CASE Reconcile(w)
  BY <1>3
  DEF Reconcile, ReviewGateway, ReplayDecided, ReplayAccepted, ReplayRecord, ReplayConflict,
      ReplayRejected, ReplayInconclusive
<1>4. CASE Deliver(w) \/ Webhook(w) \/ Admin(w)
  BY <1>4
  DEF Deliver, Webhook, Admin, DeliveryCompleted, DeliveryRefunded, MintMatched, MintRecorded,
      AdminRefund, AdminDelivered
<1> QED
  BY <1>1, <1>2, <1>3, <1>4

LEMMA RouteRequestInv ==
  ASSUME TypeOK, TypeOK', NEW w \in Withdrawals, RequestInv(w), Route(w)
  PROVE  RequestInv(w)'
<1> USE DEF TypeOK, RequestInv, RouteInv, JobInv, PollerInv, HookInv, RowInv, InFlight, Pollers,
            PollerStates, Goto, SetStatus, Credit, money, actors
<1>0. sent[w]["gateway"] = "landed" => sent'[w]["gateway"] = "landed"
  <2>1. UNCHANGED sent \/ \E c \in Channels : Accept(w, c)
    BY DEF Route, Deduct, InsertRow, NoRoute, DirectAccepted, DirectRejected, DirectUnanswered,
           MarkSubmitting, GatewayAccepted, GatewayRejected, GatewayUnanswered, HoldForReview,
           Restore, MarkFailed, RecordOutcome, WireAccepted, WireFailed, RestoreWire,
           RecordWire, Refuse, MaybeAccept, Channels
  <2> QED
    BY <2>1, LandedStays
<1>1. CASE Deduct(w) \/ InsertRow(w) \/ NoRoute(w) \/ MarkSubmitting(w)
  BY <1>0, <1>1 DEF Deduct, InsertRow, NoRoute, MarkSubmitting
<1>2. CASE DirectAccepted(w)
  <2>1. /\ poller'[w]["route"] = "on"
        /\ poller'[w]["replay"] = poller[w]["replay"]
    BY <1>2, SetPollerEffect DEF DirectAccepted
  <2> QED
    BY <1>0, <1>2, <2>1 DEF DirectAccepted
<1>3. CASE DirectRejected(w) \/ DirectUnanswered(w)
  BY <1>0, <1>3 DEF DirectRejected, DirectUnanswered
<1>4. CASE GatewayAccepted(w) \/ GatewayRejected(w) \/ GatewayUnanswered(w)
  BY <1>0, <1>4 DEF GatewayAccepted, GatewayRejected, GatewayUnanswered
<1>5. CASE HoldForReview(w) \/ Restore(w) \/ MarkFailed(w) \/ RecordOutcome(w)
  BY <1>0, <1>5 DEF HoldForReview, Restore, MarkFailed, RecordOutcome
<1>6. CASE WireAccepted(w) \/ WireFailed(w) \/ RestoreWire(w) \/ RecordWire(w)
  BY <1>0, <1>6 DEF WireAccepted, WireFailed, RestoreWire, RecordWire
<1> QED
  BY <1>1, <1>2, <1>3, <1>4, <1>5, <1>6 DEF Route

LEMMA PollRequestInv ==
  ASSUME TypeOK, TypeOK', "stall" \notin Faults,
         NEW w \in Withdrawals, RequestInv(w), Poll(w)
  PROVE  RequestInv(w)'
<1> USE DEF TypeOK, RequestInv, RouteInv, JobInv, PollerInv, HookInv, RowInv, InFlight, Pollers,
            PollerStates, SetStatus, Credit, money, actors
<1>1. ASSUME NEW p \in Pollers, PollStops(w, p)
      PROVE  RequestInv(w)'
  <2>1. /\ poller'[w][p] = "off" /\ poller[w][p] = "on"
        /\ \A q \in Pollers : q # p => poller'[w][q] = poller[w][q]
    BY <1>1, SetPollerEffect DEF PollStops
  <2> QED
    BY <1>1, <2>1 DEF PollStops
<1>2. CASE RoutePollFailed(w)
  <2>1. poller'[w]["route"] = "restored" /\ poller'[w]["replay"] = poller[w]["replay"]
    BY <1>2, SetPollerEffect DEF RoutePollFailed
  <2> QED
    BY <1>2, <2>1 DEF RoutePollFailed
<1>3. CASE RoutePollMarkFailed(w)
  <2>1. poller'[w]["route"] = "off" /\ poller'[w]["replay"] = poller[w]["replay"]
    BY <1>3, SetPollerEffect DEF RoutePollMarkFailed
  <2> QED
    BY <1>3, <2>1 DEF RoutePollMarkFailed
<1>4. CASE ReplayPollFailed(w)
  <2>1. poller'[w]["replay"] = "off" /\ poller'[w]["route"] = poller[w]["route"]
    BY <1>4, SetPollerEffect DEF ReplayPollFailed
  <2> QED
    BY <1>4, <2>1 DEF ReplayPollFailed, RefundOrSkip, Refund
<1> QED
  BY <1>1, <1>2, <1>3, <1>4 DEF Poll

LEMMA ReconcileRequestInv ==
  ASSUME TypeOK, TypeOK', NEW w \in Withdrawals, RequestInv(w), Reconcile(w)
  PROVE  RequestInv(w)'
<1> USE DEF TypeOK, RequestInv, RouteInv, JobInv, PollerInv, HookInv, RowInv, InFlight, Pollers,
            PollerStates, SetStatus, SetStatusFrom, Credit, Takes, Finish, money
<1>0. sent[w]["gateway"] = "landed" => sent'[w]["gateway"] = "landed"
  <2>1. UNCHANGED sent \/ \E c \in Channels : Accept(w, c)
    BY DEF Reconcile, ReviewGateway, ReplayDecided, ReplayAccepted, ReplayRecord, ReplayConflict,
           ReplayRejected, ReplayInconclusive, MaybeAccept, Channels
  <2> QED
    BY <2>1, LandedStays
<1>1. CASE ReviewGateway(w) \/ ReplayConflict(w)
  BY <1>0, <1>1 DEF ReviewGateway, ReplayConflict
<1>2. CASE ReplayAccepted(w)
  <2>1. poller'[w]["replay"] = "on" /\ poller'[w]["route"] = poller[w]["route"]
    BY <1>2, SetPollerEffect DEF ReplayAccepted
  <2> QED
    BY <1>0, <1>2, <2>1 DEF ReplayAccepted
<1>3. CASE ReplayRejected(w)
  BY <1>0, <1>3 DEF ReplayRejected, RefundOrSkip, Refund
<1>4. CASE ReplayInconclusive(w) \/ ReplayRecord(w)
  BY <1>0, <1>4 DEF ReplayInconclusive, ReplayRecord
<1> QED
  BY <1>1, <1>2, <1>3, <1>4 DEF Reconcile, ReplayDecided

LEMMA DeliverRequestInv ==
  ASSUME TypeOK, TypeOK', NEW w \in Withdrawals, RequestInv(w),
         Deliver(w) \/ Webhook(w) \/ Admin(w)
  PROVE  RequestInv(w)'
<1> USE DEF TypeOK, RequestInv, RouteInv, JobInv, PollerInv, HookInv, RowInv, InFlight, Pollers,
            PollerStates, Labels, SetStatus, Credit, Refund, money, actors
<1>1. CASE DeliveryCompleted(w) \/ DeliveryRefunded(w)
  BY <1>1 DEF DeliveryCompleted, DeliveryRefunded
<1>2. CASE MintMatched(w) \/ MintRecorded(w)
  BY <1>2 DEF MintMatched, MintRecorded
<1>3. CASE AdminRefund(w) \/ AdminDelivered(w)
  BY <1>3 DEF AdminRefund, AdminDelivered
<1> QED
  BY <1>1, <1>2, <1>3 DEF Deliver, Webhook, Admin

LEMMA EnvironmentRefundInv ==
  ASSUME TypeOK, TypeOK', RefundInv, Faults \intersect {"stall", "crash_mid_refund"} = {},
         \/ \E w \in Withdrawals, c \in Channels : CircleSettles(w, c)
         \/ \E S \in SUBSET Withdrawals : Scan(S)
         \/ Crash
  PROVE  RefundInv'
<1> SUFFICES ASSUME NEW v \in Withdrawals
             PROVE  RequestInv(v)'
  BY DEF RefundInv
<1> RequestInv(v)
  BY DEF RefundInv
<1> USE DEF TypeOK, RequestInv, RouteInv, JobInv, PollerInv, HookInv, RowInv, InFlight, money
<1>1. CASE \E w \in Withdrawals, c \in Channels : CircleSettles(w, c)
  <2>1. PICK w \in Withdrawals, c \in Channels : CircleSettles(w, c)
    BY <1>1
  <2>2. sent[v]["gateway"] = "landed" => sent'[v]["gateway"] = "landed"
    BY <2>1 DEF CircleSettles, Channels
  <2> QED
    BY <2>1, <2>2 DEF CircleSettles, actors
<1>2. CASE \E S \in SUBSET Withdrawals : Scan(S)
  <2>1. PICK S \in SUBSET Withdrawals : Scan(S)
    BY <1>2
  <2>2. job'[v] = IF v \in S THEN status[v] ELSE "none"
    BY <2>1 DEF Scan
  <2>3. v \in S => status[v] \in InFlight /\ pc[v] = "done"
    BY <2>1 DEF Scan, Stale
  <2> QED
    BY <2>1, <2>2, <2>3 DEF Scan
<1>3. CASE Crash
  <2>1. ~ MidRefund(v)
    BY <1>3 DEF Crash
  <2>2. /\ pc'[v] = IF pc[v] = "idle" THEN "idle" ELSE "done"
        /\ poller'[v]["route"] = "off" /\ poller'[v]["replay"] = "off"
        /\ job'[v] = "none" /\ ~ hook'[v]
    BY <1>3 DEF Crash, Idle, Pollers
  <2>3. UNCHANGED <<refunds, status, sent>>
    BY <1>3 DEF Crash
  <2> QED
    BY <2>1, <2>2, <2>3 DEF MidRefund, Labels, Pollers, PollerStates
<1> QED
  BY <1>1, <1>2, <1>3

(***************************************************************************)
(* The two faults without which RefundInv is inductive.                    *)
(***************************************************************************)
Orderly == Faults \intersect {"stall", "crash_mid_refund"} = {}

LEMMA InitRefundInv == Init => RefundInv
<1> SUFFICES ASSUME Init, NEW w \in Withdrawals
             PROVE  RequestInv(w)
  BY DEF RefundInv
<1>1. /\ pc[w] = "idle" /\ status[w] = "none" /\ refunds[w] = 0
      /\ poller[w]["route"] = "off" /\ poller[w]["replay"] = "off"
      /\ job[w] = "none" /\ ~ hook[w]
  BY DEF Init, Idle, Pollers
<1> QED
  BY <1>1 DEF RequestInv, RouteInv, JobInv, PollerInv, HookInv, RowInv, InFlight

LEMMA NextRefundInv ==
  ASSUME Orderly, TypeOK, RefundInv, [Next]_vars
  PROVE  RefundInv'
<1>0. TypeOK'
  BY NextTypeOK
<1>1. ASSUME NEW w \in Withdrawals,
             Route(w) \/ Poll(w) \/ Reconcile(w) \/ Deliver(w) \/ Webhook(w) \/ Admin(w)
      PROVE  RefundInv'
  <2>1. RequestInv(w)'
    <3>1. RequestInv(w) /\ "stall" \notin Faults
      BY DEF RefundInv, Orderly
    <3> QED
      BY <1>0, <1>1, <3>1, RouteRequestInv, PollRequestInv, ReconcileRequestInv,
         DeliverRequestInv
  <2>2. ASSUME NEW v \in Withdrawals, v # w
        PROVE  RequestInv(v)'
    <3>1. RequestInv(v)
      BY DEF RefundInv
    <3>2. Same(v)
      BY <1>1, <2>2, OthersUntouched
    <3> QED
      BY <3>1, <3>2, Untouched
  <2> QED
    BY <2>1, <2>2 DEF RefundInv
<1>2. CASE \/ \E w \in Withdrawals, c \in Channels : CircleSettles(w, c)
           \/ \E S \in SUBSET Withdrawals : Scan(S)
           \/ Crash
  BY <1>0, <1>2, EnvironmentRefundInv DEF Orderly
<1>3. CASE UNCHANGED vars
  <2>1. ASSUME NEW v \in Withdrawals
        PROVE  RequestInv(v)'
    <3>1. RequestInv(v) /\ Same(v)
      BY <1>3 DEF RefundInv, Same, vars
    <3> QED
      BY <3>1, Untouched
  <2> QED
    BY <2>1 DEF RefundInv
<1> QED
  BY <1>1, <1>2, <1>3 DEF Next

LEMMA RefundInvAlways ==
  ASSUME Orderly
  PROVE  Spec => [](TypeOK /\ RefundInv)
<1>1. Init => TypeOK /\ RefundInv
  BY InitTypeOK, InitRefundInv
<1>2. TypeOK /\ RefundInv /\ [Next]_vars => (TypeOK /\ RefundInv)'
  BY NextTypeOK, NextRefundInv
<1> QED
  BY <1>1, <1>2, PTL DEF Spec

\* As long as the route does not stall and no crash splits one of its
\* refunds, a withdrawal is refunded at most once - also when Circle
\* executes requests it answers with an error.
THEOREM RefundedAtMostOnce ==
  ASSUME Orderly
  PROVE  Spec => []RefundedOnce
<1>1. TypeOK /\ RefundInv => RefundedOnce
  BY DEF RefundInv, RequestInv, RowInv, RefundedOnce
<1> QED
  BY <1>1, RefundInvAlways, PTL

\* Under the same assumption the row of a withdrawal and the ledger agree.
THEOREM BooksAlwaysMatch ==
  ASSUME Orderly
  PROVE  Spec => []BooksMatch
<1>1. TypeOK /\ RefundInv => BooksMatch
  BY DEF TypeOK, RefundInv, RequestInv, RouteInv, RowInv, BooksMatch, MidRefund, InFlight,
         Statuses, Labels
<1> QED
  BY <1>1, RefundInvAlways, PTL

(***************************************************************************)
(* The lifecycle: RefundInv tells which status a step finds, and a step    *)
(* writes one that may follow it.                                          *)
(***************************************************************************)
Advances(w) == status'[w] # status[w] => status'[w] \in Follows[status[w]]

LEMMA RouteAdvances ==
  ASSUME TypeOK, NEW w \in Withdrawals, RequestInv(w), Route(w)
  PROVE  Advances(w)
<1> USE DEF TypeOK, RequestInv, RouteInv, RowInv, InFlight, Goto, SetStatus, Advances, Follows
<1>1. CASE InsertRow(w) \/ MarkSubmitting(w)
  BY <1>1 DEF InsertRow, MarkSubmitting
<1>2. CASE HoldForReview(w) \/ MarkFailed(w)
  BY <1>2 DEF HoldForReview, MarkFailed
<1>3. CASE RecordOutcome(w) \/ RecordWire(w)
  BY <1>3 DEF RecordOutcome, RecordWire
<1>4. CASE UNCHANGED status
  BY <1>4
<1> QED
  BY <1>1, <1>2, <1>3, <1>4
  DEF Route, Deduct, NoRoute, DirectAccepted, DirectRejected, DirectUnanswered,
      GatewayAccepted, GatewayRejected, GatewayUnanswered, Restore, WireAccepted, WireFailed,
      RestoreWire

LEMMA WorkerAdvances ==
  ASSUME TypeOK, NEW w \in Withdrawals, RequestInv(w),
         Poll(w) \/ Reconcile(w) \/ Deliver(w) \/ Webhook(w) \/ Admin(w)
  PROVE  Advances(w)
<1> USE DEF TypeOK, RequestInv, RouteInv, RowInv, InFlight, SetStatus, SetStatusFrom, Refund,
            RefundOrSkip, Advances, Follows, actors
<1>1. CASE Poll(w)
  BY <1>1 DEF Poll, PollStops, RoutePollFailed, RoutePollMarkFailed, ReplayPollFailed, PollerInv,
              Pollers, PollerStates
<1>2. CASE Reconcile(w)
  BY <1>2
  DEF Reconcile, ReviewGateway, ReplayDecided, ReplayAccepted, ReplayRecord, ReplayConflict,
      ReplayRejected, ReplayInconclusive
<1>3. CASE Deliver(w) \/ Webhook(w) \/ Admin(w)
  BY <1>3
  DEF Deliver, Webhook, Admin, DeliveryCompleted, DeliveryRefunded, MintMatched, MintRecorded,
      AdminRefund, AdminDelivered, HookInv
<1> QED
  BY <1>1, <1>2, <1>3

LEMMA NextAdvances ==
  ASSUME TypeOK, RefundInv, [Next]_vars, NEW v \in Withdrawals
  PROVE  Advances(v)
<1>1. ASSUME NEW w \in Withdrawals,
             Route(w) \/ Poll(w) \/ Reconcile(w) \/ Deliver(w) \/ Webhook(w) \/ Admin(w)
      PROVE  Advances(v)
  <2>1. CASE v = w
    BY <1>1, <2>1, RouteAdvances, WorkerAdvances DEF RefundInv
  <2>2. CASE v # w
    BY <1>1, <2>2, OthersUntouched DEF Same, Advances
  <2> QED
    BY <2>1, <2>2
<1>2. CASE UNCHANGED status
  BY <1>2 DEF Advances
<1> QED
  BY <1>1, <1>2 DEF Next, CircleSettles, Scan, Crash, vars

\* Under the same assumption no row returns to an earlier status, and none
\* leaves failed or refunded: whoever writes a status finds one it may follow.
THEOREM LifecycleKept ==
  ASSUME Orderly
  PROVE  Spec => StatusLifecycle
<1>1. TypeOK /\ RefundInv /\ [Next]_vars =>
        [\A w \in Withdrawals :
            status'[w] # status[w] => status'[w] \in Follows[status[w]]]_status
  BY NextAdvances DEF Advances
<1> QED
  BY <1>1, RefundInvAlways, PTL DEF Spec, StatusLifecycle

-----------------------------------------------------------------------------
(***************************************************************************)
(* Without any of the faults, no withdrawal is both paid and refunded, and *)
(* the whole system implements Settlement: each request is taken from the  *)
(* balance once and then settles one way.                                  *)
(***************************************************************************)
SafeInv == TypeOK /\ RefundInv /\ MoneyInv

LEMMA InitMoneyInv == Init => MoneyInv
<1> SUFFICES ASSUME Init, NEW w \in Withdrawals
             PROVE  ChannelInv(w)
  BY DEF MoneyInv
<1>1. /\ pc[w] = "idle" /\ status[w] = "none" /\ refunds[w] = 0
      /\ \A c \in Channels : sent[w][c] = "none"
      /\ \A p \in Pollers : poller[w][p] = "off"
  BY DEF Init, Idle
<1> QED
  BY <1>1 DEF ChannelInv, UnderWay, Channels

LEMMA UntouchedChannels ==
  ASSUME NEW v \in Withdrawals, ChannelInv(v), Same(v)
  PROVE  ChannelInv(v)'
  BY DEF Same, ChannelInv, UnderWay

LEMMA RouteChannelInv ==
  ASSUME Faults = {}, SafeInv, TypeOK', NEW w \in Withdrawals, Route(w)
  PROVE  ChannelInv(w)'
<1> RequestInv(w) /\ ChannelInv(w)
  BY DEF SafeInv, RefundInv, MoneyInv
<1> USE DEF SafeInv, TypeOK, RequestInv, RouteInv, RowInv, ChannelInv, UnderWay, InFlight, Labels,
            Channels, Goto, SetStatus, Credit, Refuse, money, actors
<1>1. CASE Deduct(w) \/ InsertRow(w) \/ NoRoute(w) \/ MarkSubmitting(w)
  BY <1>1 DEF Deduct, InsertRow, NoRoute, MarkSubmitting
<1>2. CASE DirectAccepted(w)
  <2>1. /\ sent'[w]["circle"] = "pending"
        /\ sent'[w]["gateway"] = "none" /\ sent'[w]["wire"] = "none"
    BY <1>2, AcceptEffect DEF DirectAccepted, Accept
  <2> QED
    BY <1>2, <2>1 DEF DirectAccepted
<1>3. CASE DirectUnanswered(w)
  <2>1. sent'[w]["gateway"] = "none" /\ sent'[w]["wire"] = "none"
    BY <1>3, AcceptEffect DEF DirectUnanswered, MaybeAccept
  <2> QED
    BY <1>3, <2>1 DEF DirectUnanswered
<1>4. CASE GatewayAccepted(w)
  <2>1. sent'[w]["circle"] = "none" /\ sent'[w]["wire"] = "none"
    BY <1>4, AcceptEffect DEF GatewayAccepted
  <2> QED
    BY <1>4, <2>1 DEF GatewayAccepted
<1>5. CASE GatewayUnanswered(w)
  <2>1. sent'[w]["circle"] = "none" /\ sent'[w]["wire"] = "none"
    BY <1>5, AcceptEffect DEF GatewayUnanswered, MaybeAccept
  <2> QED
    BY <1>5, <2>1 DEF GatewayUnanswered
<1>6. CASE WireAccepted(w)
  <2>1. sent'[w]["circle"] = "none" /\ sent'[w]["gateway"] = "none"
    BY <1>6, AcceptEffect DEF WireAccepted, MaybeAccept
  <2> QED
    BY <1>6, <2>1 DEF WireAccepted
<1>7. CASE DirectRejected(w) \/ GatewayRejected(w) \/ WireFailed(w)
  BY <1>7 DEF DirectRejected, GatewayRejected, WireFailed
<1>8. CASE HoldForReview(w) \/ Restore(w) \/ MarkFailed(w) \/ RecordOutcome(w)
  BY <1>8 DEF HoldForReview, Restore, MarkFailed, RecordOutcome
<1>9. CASE RestoreWire(w) \/ RecordWire(w)
  BY <1>9 DEF RestoreWire, RecordWire
<1> QED
  BY <1>1, <1>2, <1>3, <1>4, <1>5, <1>6, <1>7, <1>8, <1>9 DEF Route

LEMMA PollChannelInv ==
  ASSUME Faults = {}, SafeInv, TypeOK', NEW w \in Withdrawals, Poll(w)
  PROVE  ChannelInv(w)'
<1> RequestInv(w) /\ ChannelInv(w)
  BY DEF SafeInv, RefundInv, MoneyInv
<1> USE DEF SafeInv, TypeOK, RequestInv, RouteInv, PollerInv, RowInv, ChannelInv, UnderWay, InFlight,
            Labels, Channels, Pollers, PollerStates, SetStatus, Credit, money, actors
<1>1. ASSUME NEW p \in Pollers, PollStops(w, p)
      PROVE  ChannelInv(w)'
  <2>1. \A q \in Pollers : poller'[w][q] # "off" => poller[w][q] # "off"
    BY <1>1, SetPollerEffect DEF PollStops
  <2> QED
    BY <1>1, <2>1 DEF PollStops
<1>2. CASE RoutePollFailed(w)
  <2>1. sent[w]["gateway"] = "none" /\ sent[w]["wire"] = "none"
    BY <1>2 DEF RoutePollFailed
  <2> QED
    BY <1>2, <2>1 DEF RoutePollFailed
<1>3. CASE RoutePollMarkFailed(w)
  <2>1. \A q \in Pollers : poller'[w][q] # "off" => poller[w][q] # "off"
    BY <1>3, SetPollerEffect DEF RoutePollMarkFailed
  <2> QED
    BY <1>3, <2>1 DEF RoutePollMarkFailed
<1>4. CASE ReplayPollFailed(w)
  <2>1. \A q \in Pollers : poller'[w][q] # "off" => poller[w][q] # "off"
    BY <1>4, SetPollerEffect DEF ReplayPollFailed
  <2>2. sent[w]["gateway"] = "none" /\ sent[w]["wire"] = "none"
    BY <1>4 DEF ReplayPollFailed
  <2> QED
    BY <1>4, <2>1, <2>2 DEF ReplayPollFailed, RefundOrSkip, Refund
<1> QED
  BY <1>1, <1>2, <1>3, <1>4 DEF Poll

LEMMA ReconcileChannelInv ==
  ASSUME Faults = {}, SafeInv, TypeOK', NEW w \in Withdrawals, Reconcile(w)
  PROVE  ChannelInv(w)'
<1> RequestInv(w) /\ ChannelInv(w)
  BY DEF SafeInv, RefundInv, MoneyInv
<1> USE DEF SafeInv, TypeOK, RequestInv, RouteInv, JobInv, PollerInv, RowInv, ChannelInv, UnderWay,
            InFlight, Channels, Pollers, PollerStates, SetStatus, SetStatusFrom, Credit, Takes,
            Finish, money
<1>1. CASE ReviewGateway(w) \/ ReplayConflict(w) \/ ReplayRecord(w)
  BY <1>1 DEF ReviewGateway, ReplayConflict, ReplayRecord
<1>2. CASE ReplayAccepted(w)
  <2>1. sent'[w]["circle"] # "none" /\ sent'[w]["gateway"] = "none" /\ sent'[w]["wire"] = "none"
    BY <1>2, AcceptEffect DEF ReplayAccepted, Accept
  <2> QED
    BY <1>2, <2>1 DEF ReplayAccepted
<1>3. CASE ReplayRejected(w)
  BY <1>3 DEF ReplayRejected, RefundOrSkip, Refund
<1>4. CASE ReplayInconclusive(w)
  <2>1. /\ sent[w]["circle"] # "none" => sent'[w]["circle"] # "none"
        /\ sent'[w]["gateway"] = "none" /\ sent'[w]["wire"] = "none"
    BY <1>4, AcceptEffect DEF ReplayInconclusive, MaybeAccept
  <2> QED
    BY <1>4, <2>1 DEF ReplayInconclusive
<1> QED
  BY <1>1, <1>2, <1>3, <1>4 DEF Reconcile, ReplayDecided

LEMMA DeliverChannelInv ==
  ASSUME Faults = {}, SafeInv, TypeOK', NEW w \in Withdrawals,
         Deliver(w) \/ Webhook(w) \/ Admin(w)
  PROVE  ChannelInv(w)'
<1> RequestInv(w) /\ ChannelInv(w)
  BY DEF SafeInv, RefundInv, MoneyInv
<1> USE DEF SafeInv, TypeOK, RequestInv, RouteInv, RowInv, ChannelInv, UnderWay, InFlight, Labels,
            Channels, SetStatus, Credit, Refund, HookInv, money, actors
<1>1. CASE DeliveryCompleted(w) \/ DeliveryRefunded(w)
  BY <1>1 DEF DeliveryCompleted, DeliveryRefunded
<1>2. CASE MintMatched(w) \/ MintRecorded(w)
  BY <1>2 DEF MintMatched, MintRecorded
<1>3. CASE AdminRefund(w) \/ AdminDelivered(w)
  BY <1>3 DEF AdminRefund, AdminDelivered
<1> QED
  BY <1>1, <1>2, <1>3 DEF Deliver, Webhook, Admin

LEMMA EnvironmentMoneyInv ==
  ASSUME SafeInv, TypeOK',
         \/ \E w \in Withdrawals, c \in Channels : CircleSettles(w, c)
         \/ \E S \in SUBSET Withdrawals : Scan(S)
         \/ Crash
  PROVE  MoneyInv'
<1> SUFFICES ASSUME NEW v \in Withdrawals
             PROVE  ChannelInv(v)'
  BY DEF MoneyInv
<1> ChannelInv(v)
  BY DEF SafeInv, MoneyInv
<1> USE DEF SafeInv, TypeOK, ChannelInv, UnderWay, money, actors
<1>1. CASE \E w \in Withdrawals, c \in Channels : CircleSettles(w, c)
  <2>1. PICK w \in Withdrawals, c \in Channels : CircleSettles(w, c)
    BY <1>1
  <2>2. \A d \in Channels : \/ sent'[v][d] = sent[v][d]
                            \/ sent[v][d] = "pending" /\ sent'[v][d] \in {"landed", "failed"}
    BY <2>1 DEF CircleSettles
  <2> QED
    BY <2>1, <2>2 DEF CircleSettles, Channels
<1>2. CASE \E S \in SUBSET Withdrawals : Scan(S)
  BY <1>2 DEF Scan
<1>3. CASE Crash
  BY <1>3 DEF Crash, Idle
<1> QED
  BY <1>1, <1>2, <1>3

LEMMA NextMoneyInv ==
  ASSUME Faults = {}, SafeInv, [Next]_vars
  PROVE  MoneyInv'
<1>0. TypeOK'
  BY NextTypeOK DEF SafeInv
<1>1. ASSUME NEW w \in Withdrawals,
             Route(w) \/ Poll(w) \/ Reconcile(w) \/ Deliver(w) \/ Webhook(w) \/ Admin(w)
      PROVE  MoneyInv'
  <2>1. ChannelInv(w)'
    BY <1>0, <1>1, RouteChannelInv, PollChannelInv, ReconcileChannelInv, DeliverChannelInv
  <2>2. ASSUME NEW v \in Withdrawals, v # w
        PROVE  ChannelInv(v)'
    <3>1. ChannelInv(v) /\ TypeOK
      BY DEF SafeInv, MoneyInv
    <3>2. Same(v)
      BY <1>1, <2>2, <3>1, OthersUntouched
    <3> QED
      BY <3>1, <3>2, UntouchedChannels
  <2> QED
    BY <2>1, <2>2 DEF MoneyInv
<1>2. CASE \/ \E w \in Withdrawals, c \in Channels : CircleSettles(w, c)
           \/ \E S \in SUBSET Withdrawals : Scan(S)
           \/ Crash
  BY <1>0, <1>2, EnvironmentMoneyInv
<1>3. CASE UNCHANGED vars
  <2>1. ASSUME NEW v \in Withdrawals
        PROVE  ChannelInv(v)'
    BY <1>3, UntouchedChannels DEF SafeInv, MoneyInv, Same, vars
  <2> QED
    BY <2>1 DEF MoneyInv
<1> QED
  BY <1>1, <1>2, <1>3 DEF Next

LEMMA SafeInvAlways ==
  ASSUME Faults = {}
  PROVE  Spec => []SafeInv
<1> Orderly
  BY DEF Orderly
<1>1. Init => SafeInv
  BY InitTypeOK, InitRefundInv, InitMoneyInv DEF SafeInv
<1>2. SafeInv /\ [Next]_vars => SafeInv'
  BY NextTypeOK, NextRefundInv, NextMoneyInv DEF SafeInv
<1> QED
  BY <1>1, <1>2, PTL DEF Spec

\* Money that was given back to the user is neither delivered nor on its way
\* to the destination, whatever the interleaving and wherever the server stops.
THEOREM NotPaidAndRefunded ==
  ASSUME Faults = {}
  PROVE  Spec => []NeverPaidAndRefunded
<1>1. SafeInv => NeverPaidAndRefunded
  BY DEF SafeInv, MoneyInv, ChannelInv, NeverPaidAndRefunded
<1> QED
  BY <1>1, SafeInvAlways, PTL

(***************************************************************************)
(* The refinement.  SafeInv holds before and after every step, so a step   *)
(* that credits the balance finds the request held, and a transfer that    *)
(* ends finds it neither settled nor untouched; every other step leaves    *)
(* the balance and the outcomes as they are.                               *)
(***************************************************************************)
Returned(w) == refunds[w] > 0
Untaken(w) == pc[w] = "idle"

\* The outcome of one request depends on three facts about it.
LEMMA OutcomeFrom ==
  ASSUME NEW v \in Withdrawals,
         Landed(v)' <=> Landed(v), Returned(v)' <=> Returned(v), Untaken(v)' <=> Untaken(v)
  PROVE  Outcome'[v] = Outcome[v]
  BY DEF Outcome, Returned, Untaken

LEMMA SameOutcome ==
  ASSUME NEW v \in Withdrawals, Same(v)
  PROVE  Outcome'[v] = Outcome[v]
  BY OutcomeFrom DEF Same, Landed, Returned, Untaken

\* A step that changes the outcome of w alone is an EXCEPT on Outcome.
LEMMA OutcomeExcept ==
  ASSUME NEW w \in Withdrawals,
         \A v \in Withdrawals \ {w} : Outcome'[v] = Outcome[v]
  PROVE  Outcome' = [Outcome EXCEPT ![w] = Outcome'[w]]
  BY DEF Outcome

LEMMA LandedSame ==
  ASSUME TypeOK, NEW w \in Withdrawals,
         \/ UNCHANGED sent
         \/ \E c \in Channels : Accept(w, c)
  PROVE  Landed(w)' <=> Landed(w)
<1>1. \A d \in Channels : sent'[w][d] = "landed" <=> sent[w][d] = "landed"
  BY AcceptEffect DEF TypeOK
<1> QED
  BY <1>1 DEF Landed

\* Besides the deduction, a step on a request sends or credits, never both,
\* and the request is neither begun nor forgotten.
Sends(w) == UNCHANGED money /\ (UNCHANGED sent \/ \E c \in Channels : Accept(w, c))
Credits(w) == Credit(w) /\ UNCHANGED sent

LEMMA StepKinds ==
  ASSUME TypeOK, NEW w \in Withdrawals,
         Route(w) \/ Poll(w) \/ Reconcile(w) \/ Deliver(w) \/ Webhook(w) \/ Admin(w)
  PROVE  \/ Deduct(w)
         \/ (Untaken(w)' <=> Untaken(w)) /\ (Sends(w) \/ Credits(w))
<1> USE DEF TypeOK, Untaken, Sends, Credits, Goto, Refund, RefundOrSkip, MaybeAccept, Refuse, money,
            actors, Channels
<1>1. CASE Route(w)
  BY <1>1
  DEF Route, InsertRow, NoRoute, DirectAccepted, DirectRejected, DirectUnanswered,
      MarkSubmitting, GatewayAccepted, GatewayRejected, GatewayUnanswered, HoldForReview,
      Restore, MarkFailed, RecordOutcome, WireAccepted, WireFailed, RestoreWire, RecordWire
<1>2. CASE Poll(w)
  BY <1>2 DEF Poll, PollStops, RoutePollFailed, RoutePollMarkFailed, ReplayPollFailed
<1>3. CASE Reconcile(w)
  BY <1>3
  DEF Reconcile, ReviewGateway, ReplayDecided, ReplayAccepted, ReplayRecord, ReplayConflict,
      ReplayRejected, ReplayInconclusive
<1>4. CASE Deliver(w) \/ Webhook(w) \/ Admin(w)
  BY <1>4
  DEF Deliver, Webhook, Admin, DeliveryCompleted, DeliveryRefunded, MintMatched, MintRecorded,
      AdminRefund, AdminDelivered
<1> QED
  BY <1>1, <1>2, <1>3, <1>4

LEMMA RequestSettles ==
  ASSUME SafeInv, SafeInv', NEW w \in Withdrawals,
         Route(w) \/ Poll(w) \/ Reconcile(w) \/ Deliver(w) \/ Webhook(w) \/ Admin(w)
  PROVE  Account!Take(w) \/ Account!Return(w) \/ UNCHANGED <<balance, Outcome>>
<1>1. TypeOK /\ RequestInv(w) /\ RequestInv(w)' /\ ChannelInv(w) /\ ChannelInv(w)'
  BY DEF SafeInv, RefundInv, MoneyInv
<1>2. \A v \in Withdrawals \ {w} : Outcome'[v] = Outcome[v]
  BY <1>1, OthersUntouched, SameOutcome
<1>3. Outcome' = [Outcome EXCEPT ![w] = Outcome'[w]]
  BY <1>2, OutcomeExcept
<1>4. CASE Deduct(w)
  <2>1. /\ pc[w] = "idle" /\ pc'[w] # "idle" /\ refunds[w] = 0 /\ UNCHANGED <<refunds, sent>>
        /\ balance >= Amount[w] /\ balance' = balance - Amount[w]
    BY <1>1, <1>4 DEF Deduct, Goto, TypeOK, RequestInv, RouteInv
  <2>2. ~ Landed(w) /\ ~ Landed(w)'
    BY <1>1, <2>1 DEF ChannelInv, Landed
  <2>3. Outcome[w] = "none" /\ Outcome'[w] = "held"
    BY <2>1, <2>2 DEF Outcome
  <2> QED
    BY <1>3, <2>1, <2>3 DEF Account!Take, Account!Settle
<1>5. CASE (Untaken(w)' <=> Untaken(w)) /\ Sends(w)
  <2>1. Landed(w)' <=> Landed(w)
    BY <1>1, <1>5, LandedSame DEF Sends
  <2>2. Outcome'[w] = Outcome[w]
    BY <1>5, <2>1, OutcomeFrom DEF Sends, Returned, money
  <2>3. Outcome' = Outcome
    BY <1>3, <2>2 DEF Outcome
  <2> QED
    BY <1>5, <2>3 DEF Sends, money
<1>6. CASE (Untaken(w)' <=> Untaken(w)) /\ Credits(w)
  <2>1. refunds[w] = 0 /\ refunds'[w] = 1 /\ balance' = balance + Amount[w]
    BY <1>1, <1>6 DEF Credits, Credit, TypeOK, RequestInv, RowInv
  <2>2. pc[w] # "idle" /\ pc'[w] # "idle"
    BY <1>1, <1>6, <2>1 DEF Untaken, RequestInv, RouteInv
  <2>3. ~ Landed(w) /\ ~ Landed(w)'
    BY <1>1, <1>6, <2>1 DEF Credits, ChannelInv, UnderWay, Landed
  <2>4. Outcome[w] = "held" /\ Outcome'[w] = "returned"
    BY <2>1, <2>2, <2>3 DEF Outcome
  <2> QED
    BY <1>3, <2>1, <2>4 DEF Account!Return, Account!Settle
<1> QED
  BY <1>1, <1>4, <1>5, <1>6, StepKinds

LEMMA TransferSettles ==
  ASSUME SafeInv, NEW w \in Withdrawals, NEW c \in Channels, CircleSettles(w, c)
  PROVE  Account!Pay(w) \/ UNCHANGED <<balance, Outcome>>
<1>1. TypeOK /\ ChannelInv(w)
  BY DEF SafeInv, MoneyInv
<1>2. PICK o \in {"landed", "failed"} : sent' = [sent EXCEPT ![w] = [sent[w] EXCEPT ![c] = o]]
  BY DEF CircleSettles
<1>3. sent'[w][c] = o /\ \A d \in Channels \ {c} : sent'[w][d] = sent[w][d]
  BY <1>1, <1>2 DEF TypeOK
<1>4. refunds[w] = 0 /\ pc[w] # "idle" /\ \A d \in Channels \ {c} : sent[w][d] = "none"
  BY <1>1 DEF CircleSettles, ChannelInv, UnderWay, TypeOK
<1>5. UNCHANGED <<balance, refunds, pc>>
  BY DEF CircleSettles, money
<1>6. \A v \in Withdrawals \ {w} : Outcome'[v] = Outcome[v]
  BY <1>1, <1>2, SameOutcome DEF CircleSettles, Same, TypeOK, money, actors
<1>7. Outcome' = [Outcome EXCEPT ![w] = Outcome'[w]]
  BY <1>6, OutcomeExcept
<1>8. ~ Landed(w) /\ (Landed(w)' <=> o = "landed")
  BY <1>3, <1>4 DEF CircleSettles, Landed
<1>9. Outcome[w] = "held" /\ Outcome'[w] = IF o = "landed" THEN "paid" ELSE "held"
  BY <1>4, <1>5, <1>8 DEF Outcome
<1>10. CASE o = "landed"
  BY <1>5, <1>7, <1>9, <1>10 DEF Account!Pay, Account!Settle
<1>11. CASE o = "failed"
  <2>1. Outcome' = Outcome
    BY <1>7, <1>9, <1>11 DEF Outcome
  <2> QED
    BY <1>5, <2>1
<1> QED
  BY <1>10, <1>11

LEMMA StepSettles ==
  ASSUME SafeInv, SafeInv', [Next]_vars
  PROVE  [Account!Next]_(Account!vars)
<1> USE DEF Account!Next, Account!vars
<1>1. ASSUME NEW w \in Withdrawals,
             Route(w) \/ Poll(w) \/ Reconcile(w) \/ Deliver(w) \/ Webhook(w) \/ Admin(w)
      PROVE  [Account!Next]_(Account!vars)
  BY <1>1, RequestSettles
<1>2. ASSUME NEW w \in Withdrawals, NEW c \in Channels, CircleSettles(w, c)
      PROVE  [Account!Next]_(Account!vars)
  BY <1>2, TransferSettles
<1>3. CASE (\E S \in SUBSET Withdrawals : Scan(S)) \/ Crash \/ UNCHANGED vars
  <2>1. UNCHANGED <<balance, refunds, sent>>
    BY <1>3 DEF Scan, Crash, money, vars
  <2>2. \A v \in Withdrawals : Untaken(v)' <=> Untaken(v)
    BY <1>3 DEF Scan, Crash, vars, Untaken
  <2>3. \A v \in Withdrawals : Outcome'[v] = Outcome[v]
    BY <2>1, <2>2, OutcomeFrom DEF Landed, Returned
  <2>4. Outcome' = Outcome
    BY <2>3 DEF Outcome
  <2> QED
    BY <2>1, <2>4
<1> QED
  BY <1>1, <1>2, <1>3 DEF Next

\* Whatever the interleaving of the route, the pollers, the workers, the
\* webhook and the admin, and wherever the server stops: each withdrawal is
\* taken from the balance once and settles once, paid or given back in full.
THEOREM SettlesOnce ==
  ASSUME Faults = {}
  PROVE  Spec => ImplementsSettlement
<1>1. Init => Account!Init
  <2> SUFFICES ASSUME Init
               PROVE  Account!Init
    OBVIOUS
  <2>1. \A w \in Withdrawals : ~ Landed(w) /\ refunds[w] = 0 /\ pc[w] = "idle"
    BY DEF Init, Landed
  <2> QED
    BY <2>1 DEF Init, Outcome, Account!Init
<1>2. SafeInv /\ SafeInv' /\ [Next]_vars => [Account!Next]_(Account!vars)
  BY StepSettles
<1> QED
  BY <1>1, <1>2, SafeInvAlways, PTL DEF Spec, ImplementsSettlement, Account!Spec
=============================================================================
