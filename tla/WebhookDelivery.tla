--------------------------- MODULE WebhookDelivery ---------------------------
(***************************************************************************)
(* The webhooks of a developer: events are stored for each active          *)
(* endpoint, and passes of the delivery worker post what is due.  A pass   *)
(* posts with the row as it selected it and writes the outcome over        *)
(* whatever the row is by then; passes may overlap, and a replay may come  *)
(* in between.  Time is only whether a row is due.                         *)
(***************************************************************************)
EXTENDS Naturals

CONSTANTS
  Events,       \* rows of webhook_events, all of one endpoint
  Workers,      \* passes that may overlap
  MaxAttempts,  \* RETRY_DELAYS_MS.length
  MaxReplays,   \* bound: replays of an event
  MaxHalts      \* bound: restarts of the server

ASSUME WebhookAssumption ==
  MaxAttempts \in Nat \ {0} /\ MaxReplays \in Nat /\ MaxHalts \in Nat

VARIABLES
  active,    \* webhook_endpoints.active
  stored,    \* each event: not there, looked up, or a row
  attempts,  \* attempt_count
  delivered, \* delivered_at is set
  next,      \* next_retry_at: none, due now, or later
  delivery,  \* what each pass does with each event
  posts,     \* how often the endpoint was asked, up to MaxAttempts
  received,  \* the events it took
  replays, halts

webhookRows == <<active, stored, attempts, delivered, next>>
webhookVars == <<webhookRows, delivery, posts, received, replays, halts>>

NoDelivery == [at |-> "none", read |-> 0]

InitWebhooks ==
  /\ active = TRUE
  /\ stored = [e \in Events |-> "none"]
  /\ attempts = [e \in Events |-> 0]
  /\ delivered = [e \in Events |-> FALSE]
  /\ next = [e \in Events |-> "none"]
  /\ delivery = [w \in Workers |-> [e \in Events |-> NoDelivery]]
  /\ posts = [e \in Events |-> 0]
  /\ received = {}
  /\ replays = [e \in Events |-> 0]
  /\ halts = 0

-----------------------------------------------------------------------------
\* enqueueWebhook: the active endpoints are read, then a row is inserted for each.
LookUpEndpoints(e) ==
  /\ stored[e] = "none" /\ active
  /\ stored' = [stored EXCEPT ![e] = "found"]
  /\ UNCHANGED <<active, attempts, delivered, next, delivery, posts, received, replays, halts>>

EnqueueWebhook(e) ==
  /\ stored[e] = "found"
  /\ stored' = [stored EXCEPT ![e] = "row"]
  /\ next' = [next EXCEPT ![e] = "now"]
  /\ UNCHANGED <<active, attempts, delivered, delivery, posts, received, replays, halts>>

\* DELETE /v1/webhooks/:id
DisableEndpoint ==
  /\ active
  /\ active' = FALSE
  /\ UNCHANGED <<stored, attempts, delivered, next, delivery, posts, received, replays, halts>>

\* POST /v1/webhooks/:webhook_id/replay/:event_id
Replay(e) ==
  /\ stored[e] = "row" /\ replays[e] < MaxReplays
  /\ replays' = [replays EXCEPT ![e] = @ + 1]
  /\ delivered' = [delivered EXCEPT ![e] = FALSE]
  /\ next' = [next EXCEPT ![e] = "now"]
  /\ attempts' = [attempts EXCEPT ![e] = 0]
  /\ UNCHANGED <<active, stored, delivery, posts, received, halts>>

-----------------------------------------------------------------------------
(***************************************************************************)
(* The worker                                                              *)
(***************************************************************************)
DueEvents == {e \in Events : next[e] = "now" /\ ~ delivered[e]}

StartDelivery(w) ==
  /\ DueEvents # {} /\ \A e \in Events : delivery[w][e] = NoDelivery
  /\ delivery' = [delivery EXCEPT ![w] = [e \in Events |->
       IF e \in DueEvents THEN [at |-> "selected", read |-> attempts[e]] ELSE NoDelivery]]
  /\ UNCHANGED <<webhookRows, posts, received, replays, halts>>

At(w, e, at) == delivery[w][e].at = at
Now(w, e, at) == delivery' = [delivery EXCEPT ![w][e].at = at]
Done(w, e) == delivery' = [delivery EXCEPT ![w][e] = NoDelivery]

FindEndpoint(w, e) ==
  /\ At(w, e, "selected")
  /\ Now(w, e, IF active THEN "post" ELSE "disabled")
  /\ UNCHANGED <<webhookRows, posts, received, replays, halts>>

MarkDisabled(w, e) ==
  /\ At(w, e, "disabled")
  /\ next' = [next EXCEPT ![e] = "none"]
  /\ Done(w, e)
  /\ UNCHANGED <<active, stored, attempts, delivered, posts, received, replays, halts>>

\* The endpoint takes the event or does not; it may take it and the answer be too late.
Post(w, e, takes, answers) ==
  /\ At(w, e, "post")
  /\ answers => takes
  /\ Now(w, e, IF answers THEN "ok" ELSE "failed")
  /\ posts' = [posts EXCEPT ![e] = IF @ < MaxAttempts THEN @ + 1 ELSE @]
  /\ received' = IF takes THEN received \cup {e} ELSE received
  /\ UNCHANGED <<webhookRows, replays, halts>>

\* Mutant of Exhausted: one attempt too few.
ExhaustedEarly(count) == count >= MaxAttempts - 1

\* nextRetryDelay: there is no delay for this count.
Exhausted(count) == count >= MaxAttempts

\* Mutant of NewCount: the attempt is not counted.
SameCount(w, e) == delivery[w][e].read

NewCount(w, e) == delivery[w][e].read + 1

\* The outcome is written with the count as it was read.
WriteDelivery(w, e) ==
  LET ok == At(w, e, "ok")
      count == NewCount(w, e)
  IN /\ ok \/ At(w, e, "failed")
     /\ attempts' = [attempts EXCEPT ![e] = count]
     /\ delivered' = [delivered EXCEPT ![e] = ok]
     /\ next' = [next EXCEPT ![e] = IF ok \/ Exhausted(count) THEN "none" ELSE "later"]
     /\ Done(w, e)
     /\ UNCHANGED <<active, stored, posts, received, replays, halts>>

\* The delay is over.
RetryDue(e) ==
  /\ next[e] = "later"
  /\ next' = [next EXCEPT ![e] = "now"]
  /\ UNCHANGED <<active, stored, attempts, delivered, delivery, posts, received, replays, halts>>

DeliveryStep(w) ==
  \/ StartDelivery(w)
  \/ \E e \in Events :
       \/ FindEndpoint(w, e) \/ MarkDisabled(w, e) \/ WriteDelivery(w, e)
       \/ \E takes, answers \in BOOLEAN : Post(w, e, takes, answers)

\* The server stops; an event may have been posted and not be written.
Halt ==
  /\ halts < MaxHalts
  /\ halts' = halts + 1
  /\ delivery' = [w \in Workers |-> [e \in Events |-> NoDelivery]]
  /\ stored' = [e \in Events |-> IF stored[e] = "found" THEN "none" ELSE stored[e]]
  /\ UNCHANGED <<active, attempts, delivered, next, posts, received, replays>>

WebhookStep ==
  \/ \E e \in Events : LookUpEndpoints(e) \/ EnqueueWebhook(e) \/ Replay(e) \/ RetryDue(e)
  \/ DisableEndpoint
  \/ \E w \in Workers : DeliveryStep(w)
  \/ Halt

WebhookSpec == InitWebhooks /\ [][WebhookStep]_webhookVars

-----------------------------------------------------------------------------
(***************************************************************************)
(* Properties.                                                             *)
(***************************************************************************)

\* Types; no row counts more attempts than the schedule has.
WebhookTypeOK ==
  /\ active \in BOOLEAN
  /\ stored \in [Events -> {"none", "found", "row"}]
  /\ attempts \in [Events -> 0 .. MaxAttempts]
  /\ delivered \in [Events -> BOOLEAN]
  /\ next \in [Events -> {"none", "now", "later"}]
  /\ delivery \in [Workers -> [Events ->
       [at : {"none", "selected", "post", "disabled", "ok", "failed"}, read : Nat]]]
  /\ posts \in [Events -> 0 .. MaxAttempts]
  /\ received \subseteq Events
  /\ replays \in [Events -> 0 .. MaxReplays] /\ halts \in 0 .. MaxHalts

\* "Retry schedule: 5 attempts": a row that waits no more was taken by the
\* endpoint, or was posted as often as the schedule says, unless the endpoint was
\* removed; overlapping passes, replays and restarts may post it more often.
NotGivenUpEarly ==
  \A e \in Events :
    stored[e] = "row" /\ next[e] = "none" /\ active =>
      \/ delivered[e] /\ e \in received
      \/ ~ delivered[e] /\ posts[e] = MaxAttempts

\* Every stored event comes to rest: passes that write back a count they read
\* before may set the count of others back, and yet it is not posted for ever.
EventComesToRest == \A e \in Events : []<>(stored[e] # "row" \/ next[e] = "none")
=============================================================================
