---------------------------- MODULE BillingProofs ----------------------------
(***************************************************************************)
(* What the billing of subscriptions promises, for any number of requests, *)
(* overlapping passes of the worker, codes and restarts: no period is free,*)
(* nothing is given up before its retries are used, and a code charges one *)
(* request.  Then what a developer is told of it, event by event, and that *)
(* what is shown of a plan is what is sold.                                *)
(***************************************************************************)
EXTENDS Subscriptions, WebhookDelivery, Plans, FiniteSetTheorems, SequenceTheorems, TLAPS

-----------------------------------------------------------------------------
(***************************************************************************)
(* Subscriptions                                                           *)
(***************************************************************************)

(***************************************************************************)
(* What a request has done, told by where it stands in its route.          *)
(***************************************************************************)
Placed(r) ==
  \/ request[r].step = 0
  \/ request[r].step = Ended
  \/ Kind(r) \in DOMAIN Program /\ request[r].step <= Len(Program[Kind(r)])

InPayment(r) ==
  /\ ~ OnTrial(r)
  /\ \/ Kind(r) = "pay" /\ request[r].step = 3
     \/ Kind(r) = "passport" /\ request[r].step \in {2, 3}
     \/ Kind(r) = "validate" /\ request[r].step \in {2, 3, 4}

Before(tried, d) == {x \in tried : x < d}

(***************************************************************************)
(* The inductive invariant, for each request, each row, and each row that  *)
(* a pass holds.                                                           *)
(***************************************************************************)
RequestInv(r) ==
  /\ Placed(r)
  /\ request[r].day <= day
  /\ request[r].step = 0 => sub[r] = "none"
  /\ \A s \in request[r].seen : sub[s] # "none"
  /\ InPayment(r) => Charged(r) /\ request[r].day <= paidOn[r]

RowInv(s) ==
  /\ paidOn[s] <= day
  /\ sub[s] = "active" => Charged(s) /\ nextBilling[s] <= paidOn[s] + Period
  /\ retries[s] <= Cardinality(Before(declined[s], lastRetry[s] + 1))
  /\ sub[s] = "failed" => MaxRetries <= Cardinality(declined[s])

HeldInv(p, s) ==
  LET row == pass[p].rows[s]
  IN /\ pass[p].day <= day
     /\ row.at # "none" => sub[s] # "none"
     /\ row.at = "paid" => Charged(s) /\ pass[p].day <= paidOn[s]
     /\ row.at = "declined" => pass[p].day \in declined[s]
     /\ row.at # "none" /\ pass[p].branch = "past_due" =>
          /\ row.retries < MaxRetries
          /\ row.retries <= Cardinality(Before(declined[s], pass[p].day))

BoughtWithCode(r) == Kind(r) = "activate" /\ ~ OnTrial(r) /\ sub[r] # "none"

CodeInv ==
  /\ \A r \in Requests : BoughtWithCode(r) => code[CodeOf[r]] = "used"
  /\ \A q, r \in Requests :
       BoughtWithCode(q) /\ BoughtWithCode(r) /\ CodeOf[q] = CodeOf[r] => q = r

BillingInv ==
  /\ \A r \in Requests : RequestInv(r) /\ RowInv(r)
  /\ \A p \in Passes, s \in Requests : HeldInv(p, s)

-----------------------------------------------------------------------------
(***************************************************************************)
(* The routes.                                                             *)
(***************************************************************************)
RequestRecords == [step : 0 .. Ended, kind : DOMAIN Program \cup {"none"},
                   trial : Nat, day : Days, seen : SUBSET Requests]

LEMMA ProgramKinds ==
  DOMAIN Program = {"activate", "checkout", "holder", "pay", "passport", "validate"}
  BY DEF Program

\* How long each route is, and what each of its steps is.
LEMMA Lengths ==
  /\ \A k \in {"activate", "checkout", "holder"} :
       Len(Program[k]) = 2 /\ Program[k][1] = "begin" /\ Program[k][2] = "commit"
  /\ Len(Program["pay"]) = 3 /\ Program["pay"][1] = "cancel"
  /\ Program["pay"][2] = "charge" /\ Program["pay"][3] = "insert"
  /\ Len(Program["passport"]) = 3 /\ Program["passport"][1] = "charge"
  /\ Program["passport"][2] = "cancel" /\ Program["passport"][3] = "insert"
  /\ Len(Program["validate"]) = 4 /\ Program["validate"][1] = "charge"
  /\ Program["validate"][2] = "cancel" /\ Program["validate"][3] = "insert"
  /\ Program["validate"][4] = "use"
<1>1. /\ Len(<<"begin", "commit">>) = 2
      /\ <<"begin", "commit">>[1] = "begin" /\ <<"begin", "commit">>[2] = "commit"
  OBVIOUS
<1>2. /\ Program["activate"] = <<"begin", "commit">>
      /\ Program["checkout"] = <<"begin", "commit">>
      /\ Program["holder"] = <<"begin", "commit">>
      /\ Program["pay"] = <<"cancel", "charge", "insert">>
      /\ Program["passport"] = <<"charge", "cancel", "insert">>
      /\ Program["validate"] = <<"charge", "cancel", "insert", "use">>
  BY DEF Program, ActivateRoute, CheckoutRoute, HolderRoute, PayRoute, PassportRoute,
         ValidateRoute
<1> QED BY <1>1, <1>2

\* Where a request is that takes a step.
LEMMA Under ==
  ASSUME SubscriptionsTypeOK, NEW r \in Requests, Placed(r), Step(r) # "none"
  PROVE  /\ Kind(r) \in DOMAIN Program
         /\ request[r].step \in 1 .. Len(Program[Kind(r)])
         /\ Step(r) = Program[Kind(r)][request[r].step]
<1>1. request[r].step \in 0 .. 5
  BY DEF SubscriptionsTypeOK, Ended
<1>2. request[r].step # 0 /\ request[r].step # 5
  BY DEF Step, Ended
<1>3. Kind(r) \in DOMAIN Program /\ request[r].step <= Len(Program[Kind(r)])
  BY <1>2 DEF Placed, Ended
<1>4. Len(Program[Kind(r)]) \in Nat
  BY <1>3, ProgramKinds, Lengths
<1> QED BY <1>1, <1>2, <1>3, <1>4 DEF Step, Ended

LEMMA Stands ==
  ASSUME SubscriptionsTypeOK, NEW r \in Requests, Placed(r)
  PROVE  /\ Step(r) \in {"begin", "commit"} =>
              Kind(r) \in {"activate", "checkout", "holder"}
         /\ Step(r) = "begin" => request[r].step = 1
         /\ Step(r) = "commit" => request[r].step = 2
         /\ Step(r) \in {"cancel", "charge", "insert", "use"} =>
              Kind(r) \in {"pay", "passport", "validate"}
         /\ Step(r) = "charge" =>
              request[r].step = IF Kind(r) = "pay" THEN 2 ELSE 1
         /\ Step(r) = "cancel" =>
              request[r].step = IF Kind(r) = "pay" THEN 1 ELSE 2
         /\ Step(r) = "insert" => request[r].step = 3
         /\ Step(r) = "use" => Kind(r) = "validate" /\ request[r].step = 4
<1>1. CASE Step(r) = "none"
  BY <1>1
<1>2. CASE Step(r) # "none"
  BY <1>2, Under, ProgramKinds, Lengths
<1> QED BY <1>1, <1>2

-----------------------------------------------------------------------------
(***************************************************************************)
(* What a step does to the requests.                                       *)
(***************************************************************************)
Others(r) == \A q \in Requests \ {r} : request'[q] = request[q]

RouteEnds(r) ==
  /\ request'[r].step = Ended /\ request'[r].day = 0 /\ request'[r].seen = {}
  /\ request'[r].kind = Kind(r) /\ request'[r].trial = request[r].trial

Further(r, seen) ==
  /\ request'[r].step = request[r].step + 1 /\ request'[r].day = request[r].day
  /\ request'[r].seen = seen
  /\ request'[r].kind = Kind(r) /\ request'[r].trial = request[r].trial

LEMMA OverFacts ==
  ASSUME SubscriptionsTypeOK, NEW r \in Requests
  PROVE  /\ Over(r) \in RequestRecords
         /\ Over(r).step = Ended /\ Over(r).day = 0 /\ Over(r).seen = {}
         /\ Over(r).kind = Kind(r) /\ Over(r).trial = request[r].trial
<1>1. request[r] \in RequestRecords
  BY DEF SubscriptionsTypeOK, RequestRecords
<1>2. 0 \in Days /\ Ended \in 0 .. Ended
  BY SubscriptionsAssumption DEF Days, Ended
<1>3. Over(r) \in RequestRecords
  BY <1>1, <1>2, Zenon DEF Over, RequestRecords
<1>4. Over(r).step = Ended
  BY <1>1, Zenon DEF Over, RequestRecords
<1>5. Over(r).day = 0
  BY <1>1, Zenon DEF Over, RequestRecords
<1>6. Over(r).seen = {}
  BY <1>1, Zenon DEF Over, RequestRecords
<1>7. Over(r).kind = Kind(r)
  BY <1>1, Zenon DEF Over, RequestRecords, Kind
<1>8. Over(r).trial = request[r].trial
  BY <1>1, Zenon DEF Over, RequestRecords
<1> QED BY <1>3, <1>4, <1>5, <1>6, <1>7, <1>8

LEMMA EndFacts ==
  ASSUME SubscriptionsTypeOK, NEW r \in Requests, End(r)
  PROVE  request' \in [Requests -> RequestRecords] /\ Others(r) /\ RouteEnds(r)
<1> DEFINE over == Over(r)
<1>1. request \in [Requests -> RequestRecords]
  BY DEF SubscriptionsTypeOK, RequestRecords
<1>2. request' = [request EXCEPT ![r] = over]
  BY DEF End
<1>3. /\ over \in RequestRecords
      /\ over.step = Ended /\ over.day = 0 /\ over.seen = {}
      /\ over.kind = Kind(r) /\ over.trial = request[r].trial
  BY OverFacts
<1> HIDE DEF over
<1>4. request' \in [Requests -> RequestRecords] /\ Others(r) /\ request'[r] = over
  BY <1>1, <1>2, <1>3 DEF Others
<1> QED BY <1>3, <1>4 DEF RouteEnds
LEMMA ProceedFacts ==
  ASSUME SubscriptionsTypeOK, NEW r \in Requests, Placed(r), Step(r) # "none",
         NEW seen \in SUBSET Requests, Proceed(r, seen)
  PROVE  /\ request' \in [Requests -> RequestRecords] /\ Others(r)
         /\ \/ request[r].step = Len(Program[Kind(r)]) /\ RouteEnds(r)
            \/ request[r].step < Len(Program[Kind(r)]) /\ Further(r, seen)
<1>1. request \in [Requests -> RequestRecords]
  BY DEF SubscriptionsTypeOK, RequestRecords
<1>2. CASE request[r].step = Len(Program[Kind(r)])
  BY <1>2, EndFacts DEF Proceed
<1>3. CASE request[r].step # Len(Program[Kind(r)])
  <2>1. request' = [request EXCEPT ![r].step = @ + 1, ![r].seen = seen]
    BY <1>3 DEF Proceed
  <2>2. /\ request[r].step \in 1 .. Len(Program[Kind(r)])
        /\ Len(Program[Kind(r)]) \in {2, 3, 4}
    BY Under, ProgramKinds, Lengths
  <2>3. request[r].step + 1 \in 0 .. 5
    <3> DEFINE length == Len(Program[Kind(r)])
    <3>1. request[r].step \in 1 .. length /\ length \in {2, 3, 4}
      BY <2>2
    <3> HIDE DEF length
    <3> QED BY <3>1
  <2>4. request[r].step < Len(Program[Kind(r)])
    BY <2>2, <1>3
  <2>5. Others(r)
    BY <2>1, <1>1 DEF Others
  <2>6. request'[r].step = request[r].step + 1
    BY <2>1, <1>1 DEF RequestRecords
  <2>7. request'[r].seen = seen
    BY <2>1, <1>1 DEF RequestRecords
  <2>8. request'[r].kind = request[r].kind
    BY <2>1, <1>1 DEF RequestRecords
  <2>9. request'[r].trial = request[r].trial
    BY <2>1, <1>1 DEF RequestRecords
  <2>10. request'[r].day = request[r].day
    BY <2>1, <1>1 DEF RequestRecords
  <2>11. request' \in [Requests -> RequestRecords]
    <3> DEFINE onward == [request EXCEPT ![r].step = request[r].step + 1]
    <3>1. request' = [onward EXCEPT ![r].seen = seen]
      BY <2>1
    <3>2. onward \in [Requests -> RequestRecords]
      BY <1>1, <2>3 DEF RequestRecords, Ended
    <3> HIDE DEF onward
    <3> QED BY <3>1, <3>2 DEF RequestRecords
  <2> QED BY <2>4, <2>5, <2>6, <2>7, <2>8, <2>9, <2>10, <2>11 DEF Further, Kind
<1> QED BY <1>2, <1>3
-----------------------------------------------------------------------------
(***************************************************************************)
(* What a step does to the books, and what no step undoes: the clock and   *)
(* the days of payments go on, due days paid and days of declined attempts *)
(* are kept, and no row is deleted.                                        *)
(***************************************************************************)
BooksTyped ==
  /\ balance \in [Users -> Nat] /\ waiting \in Nat
  /\ paidFor \in [Requests -> SUBSET Nat] /\ twice \subseteq Requests
  /\ paidOn \in [Requests -> Days]

BooksGrow ==
  \A s \in Requests : paidFor[s] \subseteq paidFor'[s] /\ paidOn[s] <= paidOn'[s]

RowsKept == \A s \in Requests : sub[s] # "none" => sub'[s] # "none"

LEMMA ChargeFacts ==
  ASSUME SubscriptionsTypeOK, NEW s \in Requests, NEW due \in Nat, paidOn[s] <= day,
         ChargeSubscription(s, due)
  PROVE  BooksTyped' /\ BooksGrow /\ Charged(s)' /\ paidOn'[s] = day
         /\ \A q \in Requests \ {s} : paidFor'[q] = paidFor[q] /\ paidOn'[q] = paidOn[q]
<1>1. balance' \in [Users -> Nat] /\ waiting' \in Nat
  <2>1. /\ Subscriber \in Users /\ Payee[s] \in Users /\ Payee[s] # Subscriber
        /\ Price \in Nat
    BY SubscriptionsAssumption
  <2>2. balance \in [Users -> Nat] /\ waiting \in Nat
    BY DEF SubscriptionsTypeOK
  <2>3. balance[Subscriber] - Price \in Nat /\ balance[Payee[s]] + Price \in Nat
    BY <2>1, <2>2 DEF ChargeSubscription, PayOut, MoveBalance, DebitBalance, Covers
  <2>4. CASE Payee[s] \in Joined
    <3> DEFINE less == balance[Subscriber] - Price
               more == balance[Payee[s]] + Price
    <3>1. balance' = [[balance EXCEPT ![Subscriber] = less] EXCEPT ![Payee[s]] = more]
      BY <2>1, <2>2, <2>4 DEF ChargeSubscription, PayOut, MoveBalance
    <3>2. waiting' = waiting
      BY <2>4 DEF ChargeSubscription, PayOut
    <3>3. less \in Nat /\ more \in Nat
      BY <2>3
    <3> HIDE DEF less, more
    <3> QED BY <2>1, <2>2, <3>1, <3>2, <3>3
  <2>5. CASE Payee[s] \notin Joined
    BY <2>1, <2>2, <2>3, <2>5 DEF ChargeSubscription, PayOut, DebitBalance
  <2> QED BY <2>4, <2>5
<1>2. /\ paidFor' = [paidFor EXCEPT ![s] = @ \cup {due}]
      /\ twice' \in {twice, twice \cup {s}}
      /\ paidOn' = [paidOn EXCEPT ![s] = day]
  BY DEF ChargeSubscription
<1>3. /\ paidFor \in [Requests -> SUBSET Nat] /\ twice \subseteq Requests
      /\ paidOn \in [Requests -> Days] /\ day \in Days
      /\ \A q \in Requests : paidOn[q] \in Nat
  BY SubscriptionsAssumption DEF SubscriptionsTypeOK, Days
<1>4. /\ paidFor' \in [Requests -> SUBSET Nat] /\ twice' \subseteq Requests
      /\ paidOn' \in [Requests -> Days]
  BY <1>2, <1>3
<1>5. /\ due \in paidFor'[s] /\ paidOn'[s] = day
      /\ \A q \in Requests \ {s} : paidFor'[q] = paidFor[q] /\ paidOn'[q] = paidOn[q]
      /\ \A q \in Requests : paidFor[q] \subseteq paidFor'[q]
  BY <1>2, <1>3
<1>6. BooksGrow
  BY <1>3, <1>5 DEF BooksGrow
<1> QED BY <1>1, <1>4, <1>5, <1>6 DEF BooksTyped, Charged

LEMMA BooksSame ==
  ASSUME SubscriptionsTypeOK, UNCHANGED books
  PROVE  BooksTyped' /\ BooksGrow /\ paidFor' = paidFor /\ paidOn' = paidOn
<1>1. /\ balance' = balance /\ waiting' = waiting /\ paidFor' = paidFor
      /\ twice' = twice /\ paidOn' = paidOn
  BY DEF books
<1>2. \A s \in Requests : paidOn[s] \in Nat
  BY SubscriptionsAssumption DEF SubscriptionsTypeOK, Days
<1> QED BY <1>1, <1>2 DEF SubscriptionsTypeOK, BooksTyped, world, BooksGrow

\* More attempts, or attempts before a later day, are not fewer.
LEMMA BeforeGrows ==
  ASSUME NEW D \in SUBSET Days, NEW E \in SUBSET Days, D \subseteq E,
         NEW d \in Nat, NEW e \in Nat, d <= e
  PROVE  /\ Cardinality(D) \in Nat /\ Cardinality(Before(D, d)) \in Nat
         /\ Cardinality(Before(D, d)) <= Cardinality(Before(E, e))
         /\ Cardinality(Before(D, d)) <= Cardinality(D)
         /\ Cardinality(D) <= Cardinality(E)
<1>1. IsFiniteSet(Days)
  BY FS_Interval, SubscriptionsAssumption DEF Days
<1>2. IsFiniteSet(D) /\ IsFiniteSet(E)
  BY <1>1, FS_Subset
<1>3. /\ Before(D, d) \subseteq D /\ Before(E, e) \subseteq E
      /\ Before(D, d) \subseteq Before(E, e)
  <2>1. \A x \in D : x \in Nat
    BY SubscriptionsAssumption DEF Days
  <2> QED BY <2>1 DEF Before
<1>4. IsFiniteSet(Before(D, d)) /\ IsFiniteSet(Before(E, e))
  BY <1>2, <1>3, FS_Subset
<1> QED BY <1>2, <1>3, <1>4, FS_Subset, FS_CardinalityType

\* The attempt of a day counts from the next day on.
LEMMA BeforeNext ==
  ASSUME NEW D \in SUBSET Days, NEW d \in D
  PROVE  Cardinality(Before(D, d)) + 1 <= Cardinality(Before(D, d + 1))
<1>1. IsFiniteSet(Days)
  BY FS_Interval, SubscriptionsAssumption DEF Days
<1>2. /\ Before(D, d + 1) = Before(D, d) \cup {d}
      /\ d \notin Before(D, d) /\ Before(D, d) \subseteq Days
  <2>1. \A x \in D : x \in Nat
    BY SubscriptionsAssumption DEF Days
  <2> QED BY <2>1 DEF Before
<1>3. IsFiniteSet(Before(D, d))
  BY <1>1, <1>2, FS_Subset
<1>4. Cardinality(Before(D, d + 1)) = Cardinality(Before(D, d)) + 1
  BY <1>2, <1>3, FS_AddElement
<1> QED BY <1>3, <1>4, FS_CardinalityType

-----------------------------------------------------------------------------
(***************************************************************************)
(* What holds of a request, a row or a row held by a pass goes on to hold  *)
(* when others move.                                                       *)
(***************************************************************************)
LEMMA RequestFrame ==
  ASSUME SubscriptionsTypeOK, SubscriptionsTypeOK', NEW r \in Requests, RequestInv(r),
         request'[r] = request[r], BooksGrow, RowsKept, day <= day',
         request[r].step = 0 => sub'[r] = "none"
  PROVE  RequestInv(r)'
<1>1. /\ request[r].day \in Nat /\ day \in Nat /\ day' \in Nat
      /\ paidOn[r] \in Nat /\ paidOn'[r] \in Nat
      /\ request[r].seen \subseteq Requests
  BY SubscriptionsAssumption DEF SubscriptionsTypeOK, Days
<1>2. Placed(r)' /\ (InPayment(r)' <=> InPayment(r))
  BY DEF RequestInv, Placed, InPayment, OnTrial, Kind
<1>3. request'[r].day <= day'
  BY <1>1 DEF RequestInv
<1>4. \A s \in request'[r].seen : sub'[s] # "none"
  BY <1>1 DEF RequestInv, RowsKept
<1>5. InPayment(r)' => Charged(r)' /\ request'[r].day <= paidOn'[r]
  <2> SUFFICES ASSUME InPayment(r) PROVE Charged(r)' /\ request'[r].day <= paidOn'[r]
    BY <1>2
  <2>1. paidFor[r] # {} /\ request[r].day <= paidOn[r]
    BY DEF RequestInv, Charged
  <2>2. paidFor[r] \subseteq paidFor'[r] /\ paidOn[r] <= paidOn'[r]
    BY DEF BooksGrow
  <2> QED BY <1>1, <2>1, <2>2 DEF Charged
<1> QED BY <1>2, <1>3, <1>4, <1>5 DEF RequestInv

LEMMA RowFrame ==
  ASSUME SubscriptionsTypeOK, SubscriptionsTypeOK', NEW s \in Requests, RowInv(s),
         BooksGrow, declined[s] \subseteq declined'[s], paidOn'[s] <= day',
         sub'[s] = "active" => sub[s] = "active", sub'[s] = "failed" => sub[s] = "failed",
         nextBilling'[s] = nextBilling[s],
         retries'[s] = retries[s], lastRetry'[s] = lastRetry[s]
  PROVE  RowInv(s)'
<1>1. /\ paidOn[s] \in Nat /\ paidOn'[s] \in Nat /\ nextBilling[s] \in Nat
      /\ lastRetry[s] \in Nat /\ retries[s] \in Nat
      /\ Period \in Nat /\ MaxRetries \in Nat
  BY SubscriptionsAssumption DEF SubscriptionsTypeOK, Days
<1>2. paidFor[s] \subseteq paidFor'[s] /\ paidOn[s] <= paidOn'[s]
  BY DEF BooksGrow
<1>3. sub'[s] = "active" => Charged(s)' /\ nextBilling'[s] <= paidOn'[s] + Period
  BY <1>1, <1>2 DEF RowInv, Charged
<1>4. declined[s] \in SUBSET Days /\ declined'[s] \in SUBSET Days
  BY DEF SubscriptionsTypeOK
<1>5. /\ Cardinality(Before(declined[s], lastRetry[s] + 1)) \in Nat
      /\ Cardinality(Before(declined'[s], lastRetry[s] + 1)) \in Nat
      /\ Cardinality(Before(declined[s], lastRetry[s] + 1)) <=
           Cardinality(Before(declined'[s], lastRetry[s] + 1))
      /\ Cardinality(declined[s]) <= Cardinality(declined'[s])
      /\ Cardinality(declined[s]) \in Nat /\ Cardinality(declined'[s]) \in Nat
  <2> DEFINE e == lastRetry[s] + 1
  <2>1. e \in Nat /\ e <= e
    BY <1>1
  <2>2. /\ Cardinality(Before(declined[s], e)) \in Nat
        /\ Cardinality(Before(declined[s], e)) <= Cardinality(Before(declined'[s], e))
        /\ Cardinality(declined[s]) <= Cardinality(declined'[s])
        /\ Cardinality(declined[s]) \in Nat
    <3> HIDE DEF e
    <3> QED BY <1>4, <2>1, BeforeGrows
  <2>3. /\ Cardinality(Before(declined'[s], e)) \in Nat /\ Cardinality(declined'[s]) \in Nat
    <3> HIDE DEF e
    <3> QED BY <1>4, <2>1, BeforeGrows
  <2> QED BY <2>2, <2>3
<1>6. /\ retries[s] <= Cardinality(Before(declined[s], lastRetry[s] + 1))
      /\ sub[s] = "failed" => MaxRetries <= Cardinality(declined[s])
  BY DEF RowInv
<1>7. retries'[s] <= Cardinality(Before(declined'[s], lastRetry'[s] + 1))
  <2> DEFINE m == Cardinality(Before(declined[s], lastRetry[s] + 1))
             n == Cardinality(Before(declined'[s], lastRetry[s] + 1))
  <2>1. m \in Nat /\ n \in Nat /\ m <= n /\ retries[s] <= m
    BY <1>5, <1>6
  <2>2. retries[s] <= n
    <3> HIDE DEF m, n
    <3> QED BY <1>1, <2>1
  <2> QED BY <2>2
<1>8. sub'[s] = "failed" => MaxRetries <= Cardinality(declined'[s])
  BY <1>1, <1>5, <1>6
<1> QED BY <1>3, <1>7, <1>8 DEF RowInv

LEMMA HeldFrame ==
  ASSUME SubscriptionsTypeOK, SubscriptionsTypeOK', NEW p \in Passes, NEW s \in Requests,
         HeldInv(p, s), BooksGrow, RowsKept, declined[s] \subseteq declined'[s], day <= day',
         pass'[p].rows[s] = pass[p].rows[s], pass'[p].day = pass[p].day,
         pass'[p].branch = pass[p].branch
  PROVE  HeldInv(p, s)'
<1>1. /\ pass[p].day \in Nat /\ paidOn[s] \in Nat /\ paidOn'[s] \in Nat
      /\ day \in Nat /\ day' \in Nat /\ pass[p].rows[s].retries \in Nat
  BY SubscriptionsAssumption DEF SubscriptionsTypeOK, Days, Rows
<1>2. paidFor[s] \subseteq paidFor'[s] /\ paidOn[s] <= paidOn'[s]
  BY DEF BooksGrow
<1>3. declined[s] \in SUBSET Days /\ declined'[s] \in SUBSET Days
  BY DEF SubscriptionsTypeOK
<1>4. /\ Cardinality(Before(declined[s], pass[p].day)) \in Nat
      /\ Cardinality(Before(declined'[s], pass[p].day)) \in Nat
      /\ Cardinality(Before(declined[s], pass[p].day)) <=
           Cardinality(Before(declined'[s], pass[p].day))
  <2> DEFINE d == pass[p].day
  <2>1. d \in Nat /\ d <= d
    BY <1>1
  <2> HIDE DEF d
  <2>2. /\ Cardinality(Before(declined[s], d)) \in Nat
        /\ Cardinality(Before(declined[s], d)) <= Cardinality(Before(declined'[s], d))
    BY <1>3, <2>1, BeforeGrows
  <2>3. Cardinality(Before(declined'[s], d)) \in Nat
    BY <1>3, <2>1, BeforeGrows
  <2> QED BY <2>2, <2>3 DEF d
<1>5. pass'[p].day <= day'
  BY <1>1 DEF HeldInv
<1>6. pass'[p].rows[s].at # "none" => sub'[s] # "none"
  BY DEF HeldInv, RowsKept
<1>7. pass'[p].rows[s].at = "paid" => Charged(s)' /\ pass'[p].day <= paidOn'[s]
  BY <1>1, <1>2 DEF HeldInv, Charged
<1>8. pass'[p].rows[s].at = "declined" => pass'[p].day \in declined'[s]
  BY DEF HeldInv
<1>9. pass'[p].rows[s].at # "none" /\ pass'[p].branch = "past_due" =>
        /\ pass'[p].rows[s].retries < MaxRetries
        /\ pass'[p].rows[s].retries <= Cardinality(Before(declined'[s], pass'[p].day))
  <2> DEFINE m == Cardinality(Before(declined[s], pass[p].day))
             n == Cardinality(Before(declined'[s], pass[p].day))
  <2> SUFFICES ASSUME pass[p].rows[s].at # "none", pass[p].branch = "past_due"
               PROVE  pass[p].rows[s].retries < MaxRetries /\ pass[p].rows[s].retries <= n
    OBVIOUS
  <2>1. /\ m \in Nat /\ n \in Nat /\ m <= n
        /\ pass[p].rows[s].retries <= m /\ pass[p].rows[s].retries < MaxRetries
    BY <1>4 DEF HeldInv
  <2> HIDE DEF m, n
  <2> QED BY <1>1, <2>1
<1> QED BY <1>5, <1>6, <1>7, <1>8, <1>9 DEF HeldInv
-----------------------------------------------------------------------------
(***************************************************************************)
(* The steps of a request.                                                 *)
(***************************************************************************)
RequestTyped == request \in [Requests -> RequestRecords]

RowsTyped ==
  sub \in [Requests -> Statuses \cup {"none"}] /\ nextBilling \in [Requests -> Nat]

CodesTyped == code \in [Codes -> {"none", "new", "valid", "invalidated", "expired", "used"}]

\* What no step of a request touches.
Untouched == UNCHANGED <<day, retries, lastRetry, pass, declined, world>>

\* The rows of the others stay, or are cancelled.
OtherRows(r) ==
  \A s \in Requests \ {r} :
    /\ sub'[s] = sub[s] \/ (sub[s] # "none" /\ sub'[s] = "cancelled")
    /\ nextBilling'[s] = nextBilling[s]

PaidByNow == \A s \in Requests : paidOn'[s] <= day

LEMMA RequestStep ==
  ASSUME SubscriptionsTypeOK, BillingInv, NEW r \in Requests,
         RequestTyped', BooksTyped', RowsTyped', CodesTyped', Untouched,
         Others(r), BooksGrow, PaidByNow, OtherRows(r),
         sub[r] # "none" => sub'[r] # "none",
         SubscriptionsTypeOK' => RequestInv(r)' /\ RowInv(r)'
  PROVE  SubscriptionsTypeOK' /\ BillingInv'
<1>1. SubscriptionsTypeOK'
  BY DEF SubscriptionsTypeOK, RequestTyped, RequestRecords, BooksTyped, RowsTyped,
         CodesTyped, Untouched, world
<1>2. RowsKept
  BY DEF OtherRows, RowsKept
<1>3. day \in Nat
  BY SubscriptionsAssumption DEF SubscriptionsTypeOK, Days
<1>4. day' = day /\ day <= day'
  BY <1>3 DEF Untouched
<1>5. \A s \in Requests : RequestInv(s)' /\ RowInv(s)'
  <2>1. ASSUME NEW s \in Requests, s # r PROVE RequestInv(s)' /\ RowInv(s)'
    <3>1. RequestInv(s) /\ RowInv(s)
      BY DEF BillingInv
    <3>2. request'[s] = request[s]
      BY <2>1 DEF Others
    <3>3. /\ sub'[s] = sub[s] \/ (sub[s] # "none" /\ sub'[s] = "cancelled")
          /\ nextBilling'[s] = nextBilling[s]
      BY <2>1 DEF OtherRows
    <3>4. request[s].step = 0 => sub'[s] = "none"
      BY <3>1, <3>3 DEF RequestInv
    <3>5. RequestInv(s)'
      BY <1>1, <1>2, <1>4, <3>1, <3>2, <3>4, RequestFrame
    <3>6. declined'[s] = declined[s] /\ retries'[s] = retries[s] /\ lastRetry'[s] = lastRetry[s]
      BY DEF Untouched
    <3>7. paidOn'[s] <= day'
      BY <1>4 DEF PaidByNow
    <3>8. /\ sub'[s] = "active" => sub[s] = "active"
          /\ sub'[s] = "failed" => sub[s] = "failed"
      BY <3>3
    <3>9. RowInv(s)'
      BY <1>1, <3>1, <3>3, <3>6, <3>7, <3>8, RowFrame
    <3> QED BY <3>5, <3>9
  <2> QED BY <1>1, <2>1
<1>6. ASSUME NEW p \in Passes, NEW s \in Requests PROVE HeldInv(p, s)'
  <2>1. HeldInv(p, s)
    BY DEF BillingInv
  <2>2. declined'[s] = declined[s] /\ pass' = pass
    BY DEF Untouched
  <2> QED BY <1>1, <1>2, <1>4, <2>1, <2>2, HeldFrame
<1> QED BY <1>1, <1>5, <1>6 DEF BillingInv

\* A request that is over.
LEMMA RouteEndsInv ==
  ASSUME SubscriptionsTypeOK, NEW r \in Requests, RouteEnds(r), day' = day
  PROVE  RequestInv(r)'
<1>1. day \in Nat
  BY SubscriptionsAssumption DEF SubscriptionsTypeOK, Days
<1>2. Placed(r)' /\ ~ InPayment(r)'
  BY DEF RouteEnds, Placed, InPayment, Ended
<1> QED BY <1>1, <1>2 DEF RequestInv, RouteEnds, Ended

\* A row that no step of a request touches.
LEMMA RowStays ==
  ASSUME SubscriptionsTypeOK, SubscriptionsTypeOK', BillingInv, NEW s \in Requests, Untouched,
         BooksGrow, PaidByNow, sub'[s] \in {sub[s], "cancelled"}, nextBilling'[s] = nextBilling[s]
  PROVE  RowInv(s)'
<1>1. RowInv(s)
  BY DEF BillingInv
<1>2. /\ declined'[s] = declined[s] /\ retries'[s] = retries[s]
      /\ lastRetry'[s] = lastRetry[s] /\ paidOn'[s] <= day'
  BY DEF Untouched, PaidByNow
<1> QED BY <1>1, <1>2, RowFrame

LEMMA InsertFacts ==
  ASSUME SubscriptionsTypeOK, NEW r \in Requests, NEW others \in SUBSET Inserted,
         InsertSubscription(r, others)
  PROVE  /\ RowsTyped' /\ OtherRows(r) /\ retries' = retries /\ lastRetry' = lastRetry
         /\ IF OnTrial(r) THEN sub'[r] = "trialing"
            ELSE sub'[r] = "active" /\ nextBilling'[r] = request[r].day + Period
<1>1. /\ request[r].day \in Nat /\ request[r].trial \in Nat /\ Period \in Nat
      /\ nextBilling \in [Requests -> Nat]
  BY SubscriptionsAssumption DEF SubscriptionsTypeOK, Days
<1> DEFINE until == request[r].day + (IF OnTrial(r) THEN request[r].trial ELSE Period)
<1>2. until \in Nat
  BY <1>1
<1>3. nextBilling' = [nextBilling EXCEPT ![r] = until]
  BY DEF InsertSubscription
<1>4. /\ nextBilling' \in [Requests -> Nat] /\ nextBilling'[r] = until
      /\ \A s \in Requests \ {r} : nextBilling'[s] = nextBilling[s]
  <2> HIDE DEF until
  <2> QED BY <1>1, <1>2, <1>3
<1>5. sub' = [s \in Requests |->
        IF s = r THEN IF OnTrial(r) THEN "trialing" ELSE "active"
        ELSE IF s \in others THEN "cancelled" ELSE sub[s]]
  BY DEF InsertSubscription
<1>6. /\ sub' \in [Requests -> Statuses \cup {"none"}]
      /\ sub'[r] = IF OnTrial(r) THEN "trialing" ELSE "active"
      /\ \A s \in Requests \ {r} : sub'[s] \in {sub[s], "cancelled"}
      /\ \A s \in Requests \ {r} : sub'[s] # sub[s] => s \in others /\ sub'[s] = "cancelled"
  BY <1>5 DEF SubscriptionsTypeOK, Statuses, Branches
<1>7. OtherRows(r)
  <2>1. \A s \in others : sub[s] # "none"
    BY DEF Inserted
  <2> HIDE DEF until
  <2> QED BY <1>4, <1>6, <2>1 DEF OtherRows
<1> QED BY <1>4, <1>6, <1>7 DEF RowsTyped, InsertSubscription

LEMMA MarkUsedTyped ==
  ASSUME SubscriptionsTypeOK, NEW r \in Requests, MarkUsed(CodeOf[r]) \/ UNCHANGED code
  PROVE  CodesTyped'
<1>1. CodeOf[r] \in Codes
  BY SubscriptionsAssumption
<1> QED BY <1>1 DEF SubscriptionsTypeOK, CodesTyped, MarkUsed
LEMMA ReceiveInv ==
  ASSUME SubscriptionsTypeOK, BillingInv, NEW r \in Requests,
         NEW kind \in Routes[r], NEW trial \in Trials[r], Receive(r, kind, trial)
  PROVE  SubscriptionsTypeOK' /\ BillingInv'
<1> DEFINE begun == [NewRequest EXCEPT !.step = 1, !.kind = kind, !.trial = trial, !.day = day]
<1>1. /\ request' = [request EXCEPT ![r] = begun]
      /\ request[r].step = 0
      /\ UNCHANGED <<day, billing, code, pass, books, declined, world>>
  BY DEF Receive
<1>3. kind \in DOMAIN Program /\ trial \in Nat
  BY SubscriptionsAssumption
<1>4. day \in Days
  BY DEF SubscriptionsTypeOK
<1>5. NewRequest \in RequestRecords
  BY SubscriptionsAssumption DEF NewRequest, RequestRecords, Days, Ended
<1>2. /\ begun \in RequestRecords
      /\ begun.step = 1 /\ begun.kind = kind
      /\ begun.day = day /\ begun.seen = {}
  <2>1. 1 \in 0 .. Ended
    BY DEF Ended
  <2>2. begun \in RequestRecords
    BY <1>3, <1>4, <1>5, <2>1, Zenon DEF RequestRecords
  <2>3. begun.step = 1
    BY <1>5, Zenon DEF RequestRecords
  <2>4. begun.kind = kind
    BY <1>5, Zenon DEF RequestRecords
  <2>5. begun.day = day
    BY <1>5, Zenon DEF RequestRecords
  <2>6. begun.seen = NewRequest.seen
    BY <1>5, Zenon DEF RequestRecords
  <2>7. NewRequest.seen = {}
    BY DEF NewRequest
  <2> QED BY <2>2, <2>3, <2>4, <2>5, <2>6, <2>7, Zenon
<1>6. RequestTyped' /\ Others(r) /\ request'[r] = begun
  <2> HIDE DEF begun
  <2> QED BY <1>1, <1>2 DEF SubscriptionsTypeOK, RequestTyped, RequestRecords, Others
<1>7. /\ UNCHANGED <<sub, nextBilling, retries, lastRetry>> /\ UNCHANGED books
      /\ UNCHANGED <<day, code, pass, declined, world>>
  <2> HIDE DEF begun
  <2> QED BY <1>1 DEF billing
<1>8. BooksTyped' /\ BooksGrow /\ paidOn' = paidOn
  BY <1>7, BooksSame
<1>9. Untouched /\ RowsTyped' /\ CodesTyped' /\ OtherRows(r)
  BY <1>7 DEF Untouched, RowsTyped, CodesTyped, OtherRows, SubscriptionsTypeOK
<1>10. PaidByNow
  BY <1>8 DEF PaidByNow, BillingInv, RowInv
<1>11. RequestInv(r)'
  <2>1. sub[r] = "none"
    BY <1>1 DEF BillingInv, RequestInv
  <2>2. /\ request'[r].step = 1 /\ request'[r].kind = kind
        /\ request'[r].day = day /\ request'[r].seen = {}
    <3> HIDE DEF begun
    <3> QED BY <1>2, <1>6
  <2>3. 1 <= Len(Program[kind])
    BY <1>3, ProgramKinds, Lengths
  <2>4. Placed(r)' /\ ~ InPayment(r)'
    BY <1>3, <2>2, <2>3 DEF Placed, InPayment, Kind
  <2>5. day \in Nat /\ day' = day /\ sub' = sub
    BY <1>4, <1>7, SubscriptionsAssumption DEF Days
  <2> HIDE DEF begun
  <2> QED BY <2>1, <2>2, <2>4, <2>5 DEF RequestInv
<1>12. SubscriptionsTypeOK' => RowInv(r)'
  BY <1>7, <1>8, <1>9, <1>10, RowStays
<1> HIDE DEF begun
<1> QED BY <1>6, <1>7, <1>8, <1>9, <1>10, <1>11, <1>12, RequestStep

\* A step that writes nothing but the request.
LEMMA OnlyRequest ==
  ASSUME SubscriptionsTypeOK, BillingInv, NEW r \in Requests, RequestTyped', Others(r),
         RequestInv(r)', UNCHANGED <<day, billing, code, pass, books, declined, world>>
  PROVE  SubscriptionsTypeOK' /\ BillingInv'
<1>1. /\ UNCHANGED <<sub, nextBilling, retries, lastRetry>> /\ UNCHANGED books
      /\ UNCHANGED <<day, code, pass, declined, world>>
  BY DEF billing
<1>2. BooksTyped' /\ BooksGrow /\ paidOn' = paidOn
  BY <1>1, BooksSame
<1>3. Untouched /\ RowsTyped' /\ CodesTyped' /\ OtherRows(r)
  BY <1>1 DEF Untouched, RowsTyped, CodesTyped, OtherRows, SubscriptionsTypeOK
<1>4. PaidByNow
  BY <1>2 DEF PaidByNow, BillingInv, RowInv
<1>5. SubscriptionsTypeOK' => RowInv(r)'
  BY <1>1, <1>2, <1>3, <1>4, RowStays
<1> QED BY <1>1, <1>2, <1>3, <1>4, <1>5, RequestStep

LEMMA BeginInv ==
  ASSUME SubscriptionsTypeOK, BillingInv, NEW r \in Requests, BeginActivation(r)
  PROVE  SubscriptionsTypeOK' /\ BillingInv'
<1>1. /\ Step(r) = "begin" /\ Proceed(r, Inserted)
      /\ UNCHANGED <<day, billing, code, pass, books, declined, world>>
  BY DEF BeginActivation
<1>2. RequestInv(r) /\ Placed(r) /\ Inserted \in SUBSET Requests
  BY DEF BillingInv, RequestInv, Inserted
<1>3. /\ Kind(r) \in {"activate", "checkout", "holder"} /\ request[r].step = 1
      /\ Kind(r) \in DOMAIN Program /\ Len(Program[Kind(r)]) = 2
  BY <1>1, <1>2, Stands, ProgramKinds, Lengths
<1>4. RequestTyped' /\ Others(r) /\ Further(r, Inserted)
  BY <1>1, <1>2, <1>3, ProceedFacts DEF RequestTyped
<1>5. Placed(r)' /\ ~ InPayment(r)'
  <2>1. request'[r].step = 2 /\ request'[r].kind = Kind(r)
    BY <1>3, <1>4 DEF Further
  <2>2. Placed(r)'
    <3> DEFINE k == Kind(r)
    <3>1. k \in DOMAIN Program /\ 2 <= Len(Program[k])
      BY <1>3
    <3>2. request'[r].step = 2 /\ request'[r].kind = k
      BY <2>1
    <3> HIDE DEF k
    <3> QED BY <3>1, <3>2, Zenon DEF Placed, Kind
  <2>3. ~ InPayment(r)'
    BY <1>3, <2>1 DEF InPayment, Kind
  <2> QED BY <2>2, <2>3
<1>6. sub' = sub /\ day' = day
  BY <1>1 DEF billing
<1>7. RequestInv(r)'
  BY <1>2, <1>3, <1>4, <1>5, <1>6 DEF RequestInv, Further, Inserted
<1> QED BY <1>1, <1>4, <1>7, OnlyRequest

LEMMA RefuseInv ==
  ASSUME SubscriptionsTypeOK, BillingInv, NEW r \in Requests, RefuseActivation(r)
  PROVE  SubscriptionsTypeOK' /\ BillingInv'
<1>1. End(r) /\ UNCHANGED <<day, billing, code, pass, books, declined, world>>
  BY DEF RefuseActivation
<1>2. RequestTyped' /\ Others(r) /\ RouteEnds(r)
  BY <1>1, EndFacts DEF RequestTyped
<1>3. RequestInv(r)'
  BY <1>1, <1>2, RouteEndsInv
<1> QED BY <1>1, <1>2, <1>3, OnlyRequest
LEMMA CommitInv ==
  ASSUME SubscriptionsTypeOK, BillingInv, NEW r \in Requests, CommitActivation(r)
  PROVE  SubscriptionsTypeOK' /\ BillingInv'
<1>1. /\ Step(r) = "commit" /\ Proceed(r, {}) /\ InsertSubscription(r, request[r].seen)
      /\ UNCHANGED <<day, pass, declined, world>>
      /\ OnTrial(r) \/ ChargeSubscription(r, request[r].day)
      /\ OnTrial(r) => UNCHANGED books
      /\ MarkUsed(CodeOf[r]) \/ UNCHANGED code
  BY DEF CommitActivation
<1>2. RequestInv(r) /\ RowInv(r) /\ Placed(r) /\ {} \in SUBSET Requests
  BY DEF BillingInv, RequestInv
<1>3. Kind(r) \in DOMAIN Program /\ ~ (request[r].step < Len(Program[Kind(r)]))
  <2>1. request[r].step = 2 /\ Kind(r) \in {"activate", "checkout", "holder"}
    BY <1>1, <1>2, Stands
  <2>2. Kind(r) \in DOMAIN Program /\ Len(Program[Kind(r)]) = 2
    BY <2>1, ProgramKinds, Lengths
  <2> QED BY <2>1, <2>2
<1>4. RequestTyped' /\ Others(r) /\ RouteEnds(r)
  BY <1>1, <1>2, <1>3, ProceedFacts DEF RequestTyped
<1>5. /\ RowsTyped' /\ OtherRows(r) /\ retries' = retries /\ lastRetry' = lastRetry
      /\ IF OnTrial(r) THEN sub'[r] = "trialing"
         ELSE sub'[r] = "active" /\ nextBilling'[r] = request[r].day + Period
  <2>1. request[r].seen \in SUBSET Inserted
    BY <1>2 DEF RequestInv, Inserted, SubscriptionsTypeOK
  <2> QED BY <1>1, <2>1, InsertFacts
<1>6. /\ request[r].day \in Nat /\ day \in Nat /\ Period \in Nat /\ day \in Days
      /\ \A s \in Requests : paidOn[s] <= day
      /\ request[r].day <= day
  BY SubscriptionsAssumption DEF SubscriptionsTypeOK, Days, BillingInv, RowInv, RequestInv
<1>7. /\ BooksTyped' /\ BooksGrow /\ PaidByNow
      /\ ~ OnTrial(r) => Charged(r)' /\ paidOn'[r] = day
  <2>1. CASE OnTrial(r)
    BY <1>1, <1>6, <2>1, BooksSame DEF PaidByNow
  <2>2. CASE ~ OnTrial(r)
    <3>1. /\ BooksTyped' /\ BooksGrow /\ Charged(r)' /\ paidOn'[r] = day
          /\ \A q \in Requests \ {r} : paidOn'[q] = paidOn[q]
      BY <1>1, <1>6, <2>2, ChargeFacts
    <3> QED BY <1>6, <3>1 DEF PaidByNow
  <2> QED BY <2>1, <2>2
<1>8. Untouched
  BY <1>1, <1>5 DEF Untouched
<1>9. CodesTyped'
  BY <1>1, MarkUsedTyped
<1>10. sub'[r] # "none" /\ sub'[r] # "failed"
  BY <1>5
<1>11. RequestInv(r)'
  BY <1>1, <1>4, RouteEndsInv
<1>12. RowInv(r)'
  <2>1. /\ declined' = declined /\ retries' = retries /\ lastRetry' = lastRetry
        /\ paidOn'[r] <= day /\ day' = day
    BY <1>7, <1>8 DEF Untouched, PaidByNow
  <2>2. sub'[r] = "active" => Charged(r)' /\ nextBilling'[r] <= paidOn'[r] + Period
    BY <1>5, <1>6, <1>7
  <2> QED BY <1>2, <1>10, <2>1, <2>2 DEF RowInv
<1> QED BY <1>4, <1>5, <1>7, <1>8, <1>9, <1>10, <1>11, <1>12, RequestStep

\* A request that goes on stands within its route.
LEMMA FurtherPlaced ==
  ASSUME SubscriptionsTypeOK, NEW r \in Requests, NEW seen, Kind(r) \in DOMAIN Program,
         request[r].step < Len(Program[Kind(r)]), Further(r, seen)
  PROVE  Placed(r)'
<1> DEFINE k == Kind(r)
           n == Len(Program[k])
<1>1. request'[r].step = request[r].step + 1 /\ request'[r].kind = k
  BY DEF Further
<1>2. k \in DOMAIN Program /\ request[r].step < n
  OBVIOUS
<1>3. n \in Nat
  BY ProgramKinds, Lengths
<1>4. request[r].step \in Nat
  BY DEF SubscriptionsTypeOK
<1>5. request'[r].step <= n
  <2> HIDE DEF n, k
  <2> QED BY <1>1, <1>2, <1>3, <1>4
<1> HIDE DEF k
<1> QED BY <1>1, <1>2, <1>5, Zenon DEF Placed, Kind

LEMMA CancelInv ==
  ASSUME SubscriptionsTypeOK, BillingInv, NEW r \in Requests, CancelEarlier(r)
  PROVE  SubscriptionsTypeOK' /\ BillingInv'
<1>1. /\ Step(r) = "cancel" /\ Proceed(r, {})
      /\ sub' = [s \in Requests |-> IF sub[s] = "none" THEN "none" ELSE "cancelled"]
      /\ UNCHANGED <<day, nextBilling, retries, lastRetry, code, pass, books, declined, world>>
  BY DEF CancelEarlier
<1>2. RequestInv(r) /\ Placed(r) /\ {} \in SUBSET Requests
  BY DEF BillingInv, RequestInv
<1>3. /\ Kind(r) \in {"pay", "passport", "validate"} /\ Kind(r) \in DOMAIN Program
      /\ request[r].step = IF Kind(r) = "pay" THEN 1 ELSE 2
      /\ request[r].step < Len(Program[Kind(r)])
      /\ request[r].step # Len(Program[Kind(r)])
  BY <1>1, <1>2, Stands, ProgramKinds, Lengths
<1>4. RequestTyped' /\ Others(r) /\ Further(r, {})
  BY <1>1, <1>2, <1>3, ProceedFacts DEF RequestTyped
<1>5. /\ sub' \in [Requests -> Statuses \cup {"none"}]
      /\ \A s \in Requests : sub'[s] = sub[s] \/ (sub[s] # "none" /\ sub'[s] = "cancelled")
  BY <1>1 DEF SubscriptionsTypeOK, Statuses
<1>6. BooksTyped' /\ BooksGrow /\ paidFor' = paidFor /\ paidOn' = paidOn
  BY <1>1, BooksSame
<1>7. Untouched /\ RowsTyped' /\ CodesTyped' /\ OtherRows(r)
  BY <1>1, <1>5 DEF Untouched, RowsTyped, CodesTyped, OtherRows, SubscriptionsTypeOK
<1>8. PaidByNow
  BY <1>6 DEF PaidByNow, BillingInv, RowInv
<1>9. RequestInv(r)'
  <2>1. Placed(r)'
    BY <1>3, <1>4, FurtherPlaced
  <2>2. InPayment(r)' => InPayment(r)
    BY <1>3, <1>4 DEF InPayment, Further, OnTrial, Kind
  <2>3. /\ request'[r].step # 0 /\ request'[r].day = request[r].day
        /\ request'[r].seen = {}
    BY <1>3, <1>4 DEF Further
  <2>4. day' = day /\ Charged(r)' = Charged(r)
    BY <1>1, <1>6 DEF Charged
  <2> QED BY <1>2, <1>6, <2>1, <2>2, <2>3, <2>4 DEF RequestInv
<1>10. SubscriptionsTypeOK' => RowInv(r)'
  BY <1>1, <1>5, <1>6, <1>7, <1>8, RowStays
<1> QED BY <1>4, <1>5, <1>6, <1>7, <1>8, <1>9, <1>10, RequestStep

LEMMA ChargeInv ==
  ASSUME SubscriptionsTypeOK, BillingInv, NEW r \in Requests, ChargeFirst(r)
  PROVE  SubscriptionsTypeOK' /\ BillingInv'
<1>1. /\ Step(r) = "charge" /\ Proceed(r, {})
      /\ OnTrial(r) \/ ChargeSubscription(r, request[r].day)
      /\ OnTrial(r) => UNCHANGED books
      /\ UNCHANGED <<day, billing, code, pass, declined, world>>
  BY DEF ChargeFirst
<1>2. RequestInv(r) /\ Placed(r) /\ {} \in SUBSET Requests
  BY DEF BillingInv, RequestInv
<1>3. /\ Kind(r) \in {"pay", "passport", "validate"} /\ Kind(r) \in DOMAIN Program
      /\ request[r].step = IF Kind(r) = "pay" THEN 2 ELSE 1
      /\ request[r].step < Len(Program[Kind(r)])
      /\ request[r].step # Len(Program[Kind(r)])
  BY <1>1, <1>2, Stands, ProgramKinds, Lengths
<1>4. RequestTyped' /\ Others(r) /\ Further(r, {})
  BY <1>1, <1>2, <1>3, ProceedFacts DEF RequestTyped
<1>5. /\ request[r].day \in Nat /\ day \in Nat
      /\ \A s \in Requests : paidOn[s] <= day
      /\ request[r].day <= day
  BY SubscriptionsAssumption DEF SubscriptionsTypeOK, Days, BillingInv, RowInv, RequestInv
<1>6. /\ BooksTyped' /\ BooksGrow /\ PaidByNow
      /\ ~ OnTrial(r) => Charged(r)' /\ paidOn'[r] = day
  <2>1. CASE OnTrial(r)
    BY <1>1, <1>5, <2>1, BooksSame DEF PaidByNow
  <2>2. CASE ~ OnTrial(r)
    <3>1. /\ BooksTyped' /\ BooksGrow /\ Charged(r)' /\ paidOn'[r] = day
          /\ \A q \in Requests \ {r} : paidOn'[q] = paidOn[q]
      BY <1>1, <1>5, <2>2, ChargeFacts
    <3> QED BY <1>5, <3>1 DEF PaidByNow
  <2> QED BY <2>1, <2>2
<1>7. /\ Untouched /\ RowsTyped' /\ CodesTyped' /\ OtherRows(r) /\ sub' = sub
      /\ nextBilling' = nextBilling
  BY <1>1 DEF billing, Untouched, RowsTyped, CodesTyped, OtherRows, SubscriptionsTypeOK
<1>8. RequestInv(r)'
  <2>1. Placed(r)'
    BY <1>3, <1>4, FurtherPlaced
  <2>2. InPayment(r)' => ~ OnTrial(r)
    BY <1>4 DEF InPayment, Further, OnTrial
  <2>3. /\ request'[r].step # 0 /\ request'[r].day = request[r].day
        /\ request'[r].seen = {}
    BY <1>3, <1>4 DEF Further
  <2> QED BY <1>1, <1>5, <1>6, <2>1, <2>2, <2>3 DEF RequestInv
<1>9. SubscriptionsTypeOK' => RowInv(r)'
  BY <1>6, <1>7, RowStays
<1> QED BY <1>4, <1>6, <1>7, <1>8, <1>9, RequestStep
LEMMA InsertRowInv ==
  ASSUME SubscriptionsTypeOK, BillingInv, NEW r \in Requests, InsertRow(r)
  PROVE  SubscriptionsTypeOK' /\ BillingInv'
<1>1. /\ Step(r) = "insert" /\ Proceed(r, {}) /\ InsertSubscription(r, {})
      /\ UNCHANGED <<day, code, pass, books, declined, world>>
  BY DEF InsertRow
<1>2. /\ RequestInv(r) /\ RowInv(r) /\ Placed(r) /\ {} \in SUBSET Requests
      /\ {} \in SUBSET Inserted
  BY DEF BillingInv, RequestInv
<1>3. /\ Kind(r) \in {"pay", "passport", "validate"} /\ Kind(r) \in DOMAIN Program
      /\ request[r].step = 3
  BY <1>1, <1>2, Stands, ProgramKinds
<1>4. /\ RequestTyped' /\ Others(r)
      /\ RouteEnds(r) \/ (request[r].step < Len(Program[Kind(r)]) /\ Further(r, {}))
  BY <1>1, <1>2, ProceedFacts DEF RequestTyped
<1>5. /\ RowsTyped' /\ OtherRows(r) /\ retries' = retries /\ lastRetry' = lastRetry
      /\ IF OnTrial(r) THEN sub'[r] = "trialing"
         ELSE sub'[r] = "active" /\ nextBilling'[r] = request[r].day + Period
  BY <1>1, <1>2, InsertFacts
<1>6. BooksTyped' /\ BooksGrow /\ paidFor' = paidFor /\ paidOn' = paidOn
  BY <1>1, BooksSame
<1>7. Untouched /\ CodesTyped'
  BY <1>1, <1>5 DEF Untouched, CodesTyped, SubscriptionsTypeOK
<1>8. PaidByNow
  BY <1>6 DEF PaidByNow, BillingInv, RowInv
<1>9. ~ OnTrial(r) => Charged(r) /\ request[r].day <= paidOn[r]
  BY <1>2, <1>3 DEF RequestInv, InPayment
<1>10. sub'[r] # "none" /\ sub'[r] # "failed"
  BY <1>5
<1>11. RequestInv(r)'
  <2>1. CASE RouteEnds(r)
    BY <1>1, <2>1, RouteEndsInv
  <2>2. CASE request[r].step < Len(Program[Kind(r)]) /\ Further(r, {})
    <3>1. Placed(r)'
      BY <1>3, <2>2, FurtherPlaced
    <3>2. InPayment(r)' => ~ OnTrial(r)
      BY <2>2 DEF InPayment, Further, OnTrial
    <3>3. /\ request'[r].step # 0 /\ request'[r].day = request[r].day
          /\ request'[r].seen = {}
      BY <1>3, <2>2 DEF Further
    <3>4. day' = day /\ Charged(r)' = Charged(r)
      BY <1>1, <1>6 DEF Charged
    <3> QED BY <1>2, <1>6, <1>9, <3>1, <3>2, <3>3, <3>4 DEF RequestInv
  <2> QED BY <1>4, <2>1, <2>2
<1>12. RowInv(r)'
  <2>1. /\ declined' = declined /\ retries' = retries /\ lastRetry' = lastRetry
        /\ day' = day /\ Charged(r)' = Charged(r)
    BY <1>6, <1>7 DEF Untouched, Charged
  <2>2. /\ request[r].day \in Nat /\ paidOn[r] \in Nat /\ Period \in Nat
    BY SubscriptionsAssumption DEF SubscriptionsTypeOK, Days
  <2>3. sub'[r] = "active" => Charged(r)' /\ nextBilling'[r] <= paidOn'[r] + Period
    BY <1>5, <1>6, <1>9, <2>1, <2>2
  <2> QED BY <1>2, <1>6, <1>10, <2>1, <2>3 DEF RowInv
<1> QED BY <1>4, <1>5, <1>6, <1>7, <1>8, <1>10, <1>11, <1>12, RequestStep

LEMMA UseInv ==
  ASSUME SubscriptionsTypeOK, BillingInv, NEW r \in Requests, UseCode(r)
  PROVE  SubscriptionsTypeOK' /\ BillingInv'
<1>1. /\ Step(r) = "use" /\ Proceed(r, {}) /\ MarkUsed(CodeOf[r])
      /\ UNCHANGED <<day, billing, pass, books, declined, world>>
  BY DEF UseCode
<1>2. RequestInv(r) /\ Placed(r) /\ {} \in SUBSET Requests
  BY DEF BillingInv, RequestInv
<1>3. ~ (request[r].step < Len(Program[Kind(r)]))
  <2>1. request[r].step = 4 /\ Kind(r) = "validate"
    BY <1>1, <1>2, Stands
  <2> QED BY <2>1, Lengths
<1>4. RequestTyped' /\ Others(r) /\ RouteEnds(r)
  BY <1>1, <1>2, <1>3, ProceedFacts DEF RequestTyped
<1>5. BooksTyped' /\ BooksGrow /\ paidOn' = paidOn
  BY <1>1, BooksSame
<1>6. /\ Untouched /\ RowsTyped' /\ OtherRows(r) /\ sub' = sub
      /\ nextBilling' = nextBilling
  BY <1>1 DEF billing, Untouched, RowsTyped, OtherRows, SubscriptionsTypeOK
<1>7. CodesTyped'
  BY <1>1, MarkUsedTyped
<1>8. PaidByNow
  BY <1>5 DEF PaidByNow, BillingInv, RowInv
<1>9. RequestInv(r)'
  BY <1>1, <1>4, RouteEndsInv
<1>10. SubscriptionsTypeOK' => RowInv(r)'
  BY <1>5, <1>6, <1>8, RowStays
<1> QED BY <1>4, <1>5, <1>6, <1>7, <1>8, <1>9, <1>10, RequestStep

-----------------------------------------------------------------------------
(***************************************************************************)
(* The steps that leave the requests alone.                                *)
(***************************************************************************)
\* Codes, the clock, a top-up.
LEMMA AsideInv ==
  ASSUME SubscriptionsTypeOK, BillingInv,
         UNCHANGED <<request, billing, pass, paidFor, paidOn, declined>>,
         day' \in Days, day <= day'
  PROVE  SubscriptionsTypeOK' => BillingInv'
<1> SUFFICES ASSUME SubscriptionsTypeOK' PROVE BillingInv'
  OBVIOUS
<1>1. /\ request' = request /\ pass' = pass /\ declined' = declined /\ paidFor' = paidFor
      /\ paidOn' = paidOn
      /\ sub' = sub /\ nextBilling' = nextBilling /\ retries' = retries
      /\ lastRetry' = lastRetry
  BY DEF billing
<1>2. \A s \in Requests : paidOn[s] \in Nat /\ paidOn[s] <= day
  BY SubscriptionsAssumption DEF SubscriptionsTypeOK, Days, BillingInv, RowInv
<1>3. day \in Nat /\ day' \in Nat
  BY SubscriptionsAssumption DEF SubscriptionsTypeOK, Days
<1>4. BooksGrow /\ RowsKept
  BY <1>1, <1>2 DEF BooksGrow, RowsKept
<1>5. ASSUME NEW r \in Requests PROVE RequestInv(r)' /\ RowInv(r)'
  <2>1. RequestInv(r) /\ RowInv(r)
    BY DEF BillingInv
  <2>2. request[r].step = 0 => sub'[r] = "none"
    BY <1>1, <2>1 DEF RequestInv
  <2>3. RequestInv(r)'
    BY <1>1, <1>4, <2>1, <2>2, RequestFrame
  <2>4. paidOn'[r] <= day'
    BY <1>1, <1>2, <1>3
  <2>5. RowInv(r)'
    BY <1>1, <1>4, <2>1, <2>4, RowFrame
  <2> QED BY <2>3, <2>5
<1>6. ASSUME NEW p \in Passes, NEW s \in Requests PROVE HeldInv(p, s)'
  <2>1. HeldInv(p, s)
    BY DEF BillingInv
  <2> QED BY <1>1, <1>4, <2>1, HeldFrame
<1> QED BY <1>5, <1>6 DEF BillingInv

LEMMA CodeStepInv ==
  ASSUME SubscriptionsTypeOK, BillingInv, NEW c \in Codes,
         SupersedeCodes(c) \/ GenerateCode(c) \/ ExpireCode(c)
  PROVE  SubscriptionsTypeOK' /\ BillingInv'
<1>1. UnchangedButCode
  BY DEF SupersedeCodes, GenerateCode, ExpireCode
<1>2. CodesTyped'
  <2>1. CodesTyped
    BY DEF CodesTyped, SubscriptionsTypeOK
  <2>2. \/ code' = [code EXCEPT ![c] = "valid"] \/ code' = [code EXCEPT ![c] = "expired"]
        \/ code' = [d \in Codes |-> IF d = c THEN "new"
                                   ELSE IF code[d] = "valid" THEN "invalidated" ELSE code[d]]
    BY DEF SupersedeCodes, GenerateCode, ExpireCode
  <2> QED BY <2>1, <2>2 DEF CodesTyped
<1>3. SubscriptionsTypeOK'
  BY <1>1, <1>2 DEF UnchangedButCode, billing, books, world, CodesTyped, SubscriptionsTypeOK
<1>4. day' \in Days /\ day <= day'
  BY <1>1, SubscriptionsAssumption DEF UnchangedButCode, SubscriptionsTypeOK, Days
<1>5. UNCHANGED <<request, billing, pass, paidFor, paidOn, declined>>
  BY <1>1 DEF UnchangedButCode, books
<1> QED BY <1>3, <1>4, <1>5, AsideInv

LEMMA TickInv ==
  ASSUME SubscriptionsTypeOK, BillingInv, Tick
  PROVE  SubscriptionsTypeOK' /\ BillingInv'
<1>1. day' \in Days /\ day <= day'
  BY SubscriptionsAssumption DEF Tick, SubscriptionsTypeOK, Days
<1>2. SubscriptionsTypeOK'
  BY <1>1 DEF Tick, billing, books, world, SubscriptionsTypeOK
<1>3. UNCHANGED <<request, billing, pass, paidFor, paidOn, declined>>
  BY DEF Tick, books
<1> QED BY <1>1, <1>2, <1>3, AsideInv

\* What happens to the subscriber's account and to the plans.
LEMMA WorldInv ==
  ASSUME SubscriptionsTypeOK, BillingInv,
         TopUp \/ DeleteSubscriber \/ \E s \in Requests : RedirectPlan(s)
  PROVE  SubscriptionsTypeOK' /\ BillingInv'
<1>1. events' \in 0 .. MaxEvents
  <2>1. Event
    BY DEF TopUp, DeleteSubscriber, RedirectPlan
  <2> QED BY <2>1, SubscriptionsAssumption DEF Event, SubscriptionsTypeOK
<1>2. balance' \in [Users -> Nat]
  BY SubscriptionsAssumption
  DEF TopUp, DeleteSubscriber, RedirectPlan, CreditBalance, books, SubscriptionsTypeOK
<1>3. closed' \in BOOLEAN /\ ownPlans' \subseteq Requests
  BY DEF TopUp, DeleteSubscriber, RedirectPlan, SubscriptionsTypeOK
<1>4. UNCHANGED <<day, request, billing, code, pass, waiting, paidFor, paidOn, twice, declined>>
  BY DEF TopUp, DeleteSubscriber, RedirectPlan, books
<1>5. SubscriptionsTypeOK'
  BY <1>1, <1>2, <1>3, <1>4 DEF billing, SubscriptionsTypeOK
<1>6. day' \in Days /\ day <= day'
  BY <1>4, SubscriptionsAssumption DEF SubscriptionsTypeOK, Days
<1> QED BY <1>4, <1>5, <1>6, AsideInv
-----------------------------------------------------------------------------
(***************************************************************************)
(* The steps that handle one row.                                          *)
(***************************************************************************)
PassRecords == [branch : Branches \cup {"idle"}, day : Days, rows : [Requests -> Rows]]

\* Nothing but row s is handled by the passes.
HeldByOthers(s) ==
  \A p \in Passes :
    /\ pass'[p].day = pass[p].day /\ pass'[p].branch = pass[p].branch
    /\ \A q \in Requests \ {s} : pass'[p].rows[q] = pass[p].rows[q]

LEMMA RowStep ==
  ASSUME SubscriptionsTypeOK, SubscriptionsTypeOK', BillingInv, NEW s \in Requests,
         UNCHANGED <<day, request>>, BooksGrow, PaidByNow, HeldByOthers(s),
         declined[s] \subseteq declined'[s], sub[s] # "none", sub'[s] # "none",
         \A q \in Requests \ {s} :
           /\ sub'[q] = sub[q] /\ nextBilling'[q] = nextBilling[q]
           /\ retries'[q] = retries[q] /\ lastRetry'[q] = lastRetry[q]
           /\ declined'[q] = declined[q],
         RowInv(s)', \A p \in Passes : HeldInv(p, s)'
  PROVE  BillingInv'
<1>1. RowsKept
  BY DEF RowsKept
<1>2. day' = day /\ day <= day' /\ \A q \in Requests : paidOn'[q] <= day'
  BY SubscriptionsAssumption DEF SubscriptionsTypeOK, Days, PaidByNow
<1>3. ASSUME NEW q \in Requests PROVE RequestInv(q)' /\ RowInv(q)'
  <2>1. RequestInv(q) /\ RowInv(q)
    BY DEF BillingInv
  <2>2. request[q].step = 0 => sub'[q] = "none"
    BY <2>1 DEF RequestInv
  <2>3. RequestInv(q)'
    BY <1>1, <1>2, <2>1, <2>2, RequestFrame
  <2>4. CASE q # s
    BY <1>2, <2>1, <2>3, <2>4, RowFrame
  <2> QED BY <2>3, <2>4
<1>4. ASSUME NEW p \in Passes, NEW q \in Requests PROVE HeldInv(p, q)'
  <2>1. HeldInv(p, q)
    BY DEF BillingInv
  <2>2. CASE q # s
    BY <1>1, <1>2, <2>1, <2>2, HeldFrame DEF HeldByOthers
  <2> QED BY <2>2
<1> QED BY <1>3, <1>4 DEF BillingInv

\* A pass goes on to hold its rows while one of them changes.
LEMMA StillHeld ==
  ASSUME SubscriptionsTypeOK, SubscriptionsTypeOK', BillingInv, NEW s \in Requests,
         UNCHANGED <<day, pass>>, BooksGrow, RowsKept, declined[s] \subseteq declined'[s]
  PROVE  HeldByOthers(s) /\ \A p \in Passes : HeldInv(p, s)'
<1>1. day' = day /\ day <= day' /\ pass' = pass
  BY SubscriptionsAssumption DEF SubscriptionsTypeOK, Days
<1>2. ASSUME NEW p \in Passes PROVE HeldInv(p, s)'
  <2>1. HeldInv(p, s)
    BY DEF BillingInv
  <2> QED BY <1>1, <2>1, HeldFrame
<1> QED BY <1>1, <1>2 DEF HeldByOthers

LEMMA RetryInv ==
  ASSUME SubscriptionsTypeOK, BillingInv, NEW s \in Requests, Retry(s)
  PROVE  SubscriptionsTypeOK' /\ BillingInv'
<1>1. /\ sub[s] = "past_due" /\ ChargeSubscription(s, nextBilling[s])
      /\ sub' = [sub EXCEPT ![s] = "active"]
      /\ nextBilling' = [nextBilling EXCEPT ![s] = day + Period]
      /\ retries' = [retries EXCEPT ![s] = 0]
      /\ lastRetry' = [lastRetry EXCEPT ![s] = 0]
      /\ UNCHANGED <<day, request, code, pass, declined, world>>
  BY DEF Retry
<1>2. /\ sub \in [Requests -> Statuses \cup {"none"}] /\ nextBilling \in [Requests -> Nat]
      /\ retries \in [Requests -> 0 .. MaxRetries] /\ lastRetry \in [Requests -> Days]
      /\ day \in Nat /\ Period \in Nat /\ MaxRetries \in Nat /\ 0 \in Days
      /\ \A q \in Requests : paidOn[q] <= day
  BY SubscriptionsAssumption DEF SubscriptionsTypeOK, Days, BillingInv, RowInv
<1>3. /\ BooksTyped' /\ BooksGrow /\ Charged(s)' /\ paidOn'[s] = day
      /\ \A q \in Requests \ {s} : paidOn'[q] = paidOn[q]
  BY <1>1, <1>2, ChargeFacts
<1>4. PaidByNow
  BY <1>2, <1>3 DEF PaidByNow
<1>5. /\ sub' \in [Requests -> Statuses \cup {"none"}] /\ nextBilling' \in [Requests -> Nat]
      /\ retries' \in [Requests -> 0 .. MaxRetries] /\ lastRetry' \in [Requests -> Days]
      /\ sub'[s] = "active" /\ nextBilling'[s] = day + Period
      /\ retries'[s] = 0 /\ lastRetry'[s] = 0
      /\ \A q \in Requests \ {s} :
           /\ sub'[q] = sub[q] /\ nextBilling'[q] = nextBilling[q]
           /\ retries'[q] = retries[q] /\ lastRetry'[q] = lastRetry[q]
  BY <1>1, <1>2 DEF Statuses, Branches
<1>6. SubscriptionsTypeOK'
  BY <1>1, <1>3, <1>5 DEF SubscriptionsTypeOK, BooksTyped, world
<1>7. declined' = declined /\ declined[s] \in SUBSET Days
  BY <1>1 DEF SubscriptionsTypeOK
<1>8. RowInv(s)'
  <2>1. Cardinality(Before(declined[s], 1)) \in Nat
    BY <1>7, BeforeGrows
  <2>2. retries'[s] <= Cardinality(Before(declined'[s], lastRetry'[s] + 1))
    <3>1. lastRetry'[s] + 1 = 1
      BY <1>5
    <3> QED BY <1>5, <1>7, <2>1, <3>1
  <2> QED BY <1>1, <1>2, <1>3, <1>5, <2>2 DEF RowInv
<1>9. RowsKept
  BY <1>1, <1>5 DEF RowsKept
<1>10. HeldByOthers(s) /\ \A p \in Passes : HeldInv(p, s)'
  BY <1>1, <1>3, <1>6, <1>7, <1>9, StillHeld
<1> QED BY <1>1, <1>3, <1>4, <1>5, <1>6, <1>7, <1>8, <1>10, RowStep

LEMMA CancelSubscriptionInv ==
  ASSUME SubscriptionsTypeOK, BillingInv, NEW s \in Requests, CancelSubscription(s)
  PROVE  SubscriptionsTypeOK' /\ BillingInv'
<1>1. /\ sub[s] # "none"
      /\ sub' = [sub EXCEPT ![s] = "cancelled"]
      /\ UNCHANGED <<day, request, nextBilling, retries, lastRetry, code, pass, books,
                     declined, world>>
  BY DEF CancelSubscription, Branches
<1>2. BooksTyped' /\ BooksGrow /\ paidOn' = paidOn
  BY <1>1, BooksSame
<1>3. PaidByNow
  BY <1>2 DEF PaidByNow, BillingInv, RowInv
<1>4. /\ sub' \in [Requests -> Statuses \cup {"none"}] /\ sub'[s] = "cancelled"
      /\ \A q \in Requests \ {s} : sub'[q] = sub[q]
  BY <1>1 DEF SubscriptionsTypeOK, Statuses
<1>5. SubscriptionsTypeOK'
  BY <1>1, <1>2, <1>4 DEF SubscriptionsTypeOK, BooksTyped, world
<1>6. RowsKept
  BY <1>1, <1>4 DEF RowsKept
<1>7. HeldByOthers(s) /\ \A p \in Passes : HeldInv(p, s)'
  BY <1>1, <1>2, <1>5, <1>6, StillHeld
<1>8. RowInv(s)'
  <2>1. RowInv(s)
    BY DEF BillingInv
  <2>2. paidOn'[s] <= day'
    BY <1>1, <1>3 DEF PaidByNow
  <2> QED BY <1>1, <1>2, <1>4, <1>5, <2>1, <2>2, RowFrame
<1> QED BY <1>1, <1>2, <1>3, <1>4, <1>5, <1>7, <1>8, RowStep
-----------------------------------------------------------------------------
(***************************************************************************)
(* The passes of the worker.                                               *)
(***************************************************************************)
LEMMA SelectInv ==
  ASSUME SubscriptionsTypeOK, BillingInv, NEW p \in Passes,
         NEW branch \in Branches \cup {"idle"}, NEW today \in Days,
         Requests # {} => today <= day, Select(p, branch, today), UnchangedButPass
  PROVE  SubscriptionsTypeOK' /\ BillingInv'
<1> DEFINE row(s) == IF branch # "idle" /\ DueIn(branch, today, s)
                       THEN [at |-> "selected", due |-> nextBilling[s], retries |-> retries[s],
                             own |-> s \in ownPlans]
                       ELSE NoRow
           rows == [s \in Requests |-> row(s)]
           selected == [branch |-> branch, day |-> today, rows |-> rows]
<1>1. pass' = [pass EXCEPT ![p] = selected]
  BY DEF Select
<1>2. \A s \in Requests : row(s) \in Rows
  <2>1. \A s \in Requests : nextBilling[s] \in Nat /\ retries[s] \in Nat
    BY SubscriptionsAssumption DEF SubscriptionsTypeOK
  <2> QED BY <2>1 DEF Rows, Stages, NoRow
<1>3. selected \in PassRecords
  <2>1. rows \in [Requests -> Rows]
    BY <1>2
  <2> HIDE DEF rows
  <2> QED BY <2>1 DEF PassRecords
<1>4. /\ pass' \in [Passes -> PassRecords] /\ pass'[p] = selected
      /\ \A q \in Passes \ {p} : pass'[q] = pass[q]
  <2> HIDE DEF selected
  <2> QED BY <1>1, <1>3 DEF SubscriptionsTypeOK, PassRecords
<1>5. /\ UNCHANGED <<day, request, code, declined, world>> /\ UNCHANGED books
      /\ UNCHANGED <<sub, nextBilling, retries, lastRetry>>
  BY DEF UnchangedButPass, billing
<1>6. BooksTyped' /\ BooksGrow /\ paidOn' = paidOn /\ paidFor' = paidFor
  BY <1>5, BooksSame
<1>7. SubscriptionsTypeOK'
  BY <1>4, <1>5, <1>6 DEF SubscriptionsTypeOK, BooksTyped, world, PassRecords
<1>8. RowsKept /\ day' = day /\ day <= day' /\ declined' = declined
  BY <1>5, SubscriptionsAssumption DEF RowsKept, SubscriptionsTypeOK, Days
<1>9. ASSUME NEW s \in Requests PROVE RequestInv(s)' /\ RowInv(s)'
  <2>1. RequestInv(s) /\ RowInv(s)
    BY DEF BillingInv
  <2>2. RequestInv(s)'
    BY <1>5, <1>6, <1>7, <1>8, <2>1, RequestFrame DEF RequestInv
  <2>3. paidOn'[s] <= day'
    BY <1>6, <1>8, <2>1 DEF RowInv
  <2>4. RowInv(s)'
    BY <1>5, <1>6, <1>7, <1>8, <2>1, <2>3, RowFrame
  <2> QED BY <2>2, <2>4
<1>10. ASSUME NEW s \in Requests PROVE HeldInv(p, s)'
  <2>1. pass'[p].day = today /\ pass'[p].branch = branch /\ pass'[p].rows[s] = row(s)
    BY <1>4
  <2>2. pass'[p].day <= day'
    BY <1>8, <2>1
  <2>3. row(s).at # "none" => /\ row(s).at = "selected" /\ DueIn(branch, today, s)
                             /\ row(s).retries = retries[s] /\ branch # "idle"
    BY DEF NoRow
  <2>4. row(s).at # "none" => sub'[s] # "none"
    BY <1>5, <2>3 DEF DueIn, Branches
  <2>5. ASSUME DueIn("past_due", today, s)
        PROVE  retries[s] < MaxRetries /\ retries[s] <= Cardinality(Before(declined[s], today))
    <3> DEFINE e == lastRetry[s] + 1
               m == Cardinality(Before(declined[s], e))
               n == Cardinality(Before(declined[s], today))
    <3>1. lastRetry[s] < today /\ retries[s] < MaxRetries
      BY <2>5 DEF DueIn
    <3>2. /\ e \in Nat /\ today \in Nat /\ e <= today /\ declined[s] \in SUBSET Days
          /\ retries[s] \in Nat
      BY <3>1, SubscriptionsAssumption DEF SubscriptionsTypeOK, Days
    <3>3. retries[s] <= m
      BY DEF BillingInv, RowInv
    <3>4. m \in Nat /\ m <= n
      <4> HIDE DEF e
      <4> QED BY <3>2, BeforeGrows
    <3>5. n \in Nat
      <4>1. today <= today
        BY <3>2
      <4> QED BY <3>2, <4>1, BeforeGrows
    <3> HIDE DEF m, n, e
    <3>6. retries[s] <= n
      BY <3>2, <3>3, <3>4, <3>5
    <3> QED BY <3>1, <3>6 DEF n
  <2> HIDE DEF row
  <2> QED BY <1>8, <2>1, <2>2, <2>3, <2>4, <2>5, Zenon DEF HeldInv
<1>11. ASSUME NEW q \in Passes, NEW s \in Requests, q # p PROVE HeldInv(q, s)'
  <2>1. HeldInv(q, s) /\ pass'[q] = pass[q]
    BY <1>4, <1>11 DEF BillingInv
  <2> QED BY <1>6, <1>7, <1>8, <2>1, HeldFrame
<1> HIDE DEF selected
<1> QED BY <1>7, <1>9, <1>10, <1>11 DEF BillingInv

LEMMA PassMovesInv ==
  ASSUME SubscriptionsTypeOK, BillingInv, NEW p \in Passes, StartPass(p) \/ NextBranch(p)
  PROVE  SubscriptionsTypeOK' /\ BillingInv'
<1>1. CASE StartPass(p)
  <2>1. "trialing" \in Branches \cup {"idle"} /\ day \in Days /\ day <= day
    BY SubscriptionsAssumption DEF Branches, SubscriptionsTypeOK, Days
  <2>2. Select(p, "trialing", day) /\ UnchangedButPass
    BY <1>1 DEF StartPass
  <2> QED BY <2>1, <2>2, SelectInv
<1>2. CASE NextBranch(p)
  <2> DEFINE branch == Following[pass[p].branch]
             today == IF branch = "idle" THEN 0 ELSE pass[p].day
  <2>1. pass[p].branch \in Branches
    BY <1>2 DEF NextBranch, SubscriptionsTypeOK
  <2>2. branch \in Branches \cup {"idle"}
    BY <2>1 DEF Following, Branches
  <2>3. today \in Days /\ (Requests # {} => today <= day)
    <3>1. Requests # {} => pass[p].day <= day
      BY DEF BillingInv, HeldInv
    <3>2. pass[p].day \in Days /\ 0 \in Days /\ 0 <= day
      BY SubscriptionsAssumption DEF SubscriptionsTypeOK, Days
    <3> HIDE DEF branch
    <3> QED BY <3>1, <3>2
  <2>4. Select(p, branch, today) /\ UnchangedButPass
    BY <1>2 DEF NextBranch
  <2> HIDE DEF branch, today
  <2> QED BY <2>2, <2>3, <2>4, SelectInv
<1> QED BY <1>1, <1>2
\* A pass notes what became of a row that it holds.
LEMMA OutcomeFacts ==
  ASSUME SubscriptionsTypeOK, NEW p \in Passes, NEW s \in Requests,
         NEW at \in {"found", "paid", "declined"}, Outcome(p, s, at)
  PROVE  /\ pass' \in [Passes -> PassRecords] /\ HeldByOthers(s)
         /\ pass'[p].rows[s].at = at /\ pass'[p].rows[s].retries = pass[p].rows[s].retries
         /\ \A q \in Passes \ {p} : pass'[q].rows[s] = pass[q].rows[s]
<1> DEFINE row == [at |-> at, due |-> pass[p].rows[s].due,
                   retries |-> pass[p].rows[s].retries, own |-> pass[p].rows[s].own]
<1>1. pass \in [Passes -> PassRecords] /\ pass[p].rows[s] \in Rows
  BY DEF SubscriptionsTypeOK, PassRecords
<1>2. pass' = [pass EXCEPT ![p].rows[s].at = at]
  BY DEF Outcome
<1>3. row \in Rows /\ row.at = at /\ row.retries = pass[p].rows[s].retries
  BY <1>1 DEF Rows, Stages
<1>4. pass' = [pass EXCEPT ![p].rows[s] = row]
  <2>1. [pass[p].rows[s] EXCEPT !.at = at] = row
    BY <1>1 DEF Rows
  <2> QED BY <1>1, <1>2, <2>1 DEF PassRecords
<1> HIDE DEF row
<1>5. /\ pass' \in [Passes -> PassRecords] /\ pass'[p].rows[s] = row
      /\ \A q \in Passes \ {p} : pass'[q] = pass[q]
      /\ \A q \in Requests \ {s} : pass'[p].rows[q] = pass[p].rows[q]
      /\ pass'[p].day = pass[p].day /\ pass'[p].branch = pass[p].branch
  BY <1>1, <1>3, <1>4 DEF PassRecords
<1> QED BY <1>3, <1>5 DEF HeldByOthers

\* A pass is done with a row.
LEMMA HandledFacts ==
  ASSUME SubscriptionsTypeOK, NEW p \in Passes, NEW s \in Requests, Handled(p, s)
  PROVE  /\ pass' \in [Passes -> PassRecords] /\ HeldByOthers(s)
         /\ pass'[p].rows[s] = NoRow
         /\ \A q \in Passes \ {p} : pass'[q].rows[s] = pass[q].rows[s]
<1>1. pass \in [Passes -> PassRecords] /\ NoRow \in Rows
  BY DEF SubscriptionsTypeOK, PassRecords, Rows, Stages, NoRow
<1>2. pass' = [pass EXCEPT ![p].rows[s] = NoRow]
  BY DEF Handled
<1>3. /\ pass' \in [Passes -> PassRecords] /\ pass'[p].rows[s] = NoRow
      /\ \A q \in Passes \ {p} : pass'[q] = pass[q]
      /\ \A q \in Requests \ {s} : pass'[p].rows[q] = pass[p].rows[q]
      /\ pass'[p].day = pass[p].day /\ pass'[p].branch = pass[p].branch
  BY <1>1, <1>2 DEF PassRecords
<1> QED BY <1>3 DEF HeldByOthers
LEMMA SucceedsInv ==
  ASSUME SubscriptionsTypeOK, BillingInv, NEW p \in Passes, NEW s \in Requests,
         BillingSucceeds(p, s)
  PROVE  SubscriptionsTypeOK' /\ BillingInv'
<1>1. /\ pass[p].rows[s].at = "found" /\ ChargeSubscription(s, pass[p].rows[s].due)
      /\ Outcome(p, s, "paid")
      /\ UNCHANGED <<day, request, code, declined, world>>
      /\ UNCHANGED <<sub, nextBilling, retries, lastRetry>>
  BY DEF BillingSucceeds, billing
<1>2. RowInv(s) /\ HeldInv(p, s) /\ \A q \in Requests : paidOn[q] <= day
  BY DEF BillingInv, RowInv
<1>3. /\ pass' \in [Passes -> PassRecords] /\ HeldByOthers(s)
      /\ pass'[p].rows[s].at = "paid" /\ pass'[p].rows[s].retries = pass[p].rows[s].retries
      /\ \A q \in Passes \ {p} : pass'[q].rows[s] = pass[q].rows[s]
  BY <1>1, OutcomeFacts
<1>4. pass[p].rows[s].due \in Nat /\ day \in Nat
  BY SubscriptionsAssumption DEF SubscriptionsTypeOK, Rows, Days
<1>5. /\ BooksTyped' /\ BooksGrow /\ Charged(s)' /\ paidOn'[s] = day
      /\ \A q \in Requests \ {s} : paidOn'[q] = paidOn[q]
  BY <1>1, <1>2, <1>4, ChargeFacts
<1>6. PaidByNow
  BY <1>2, <1>4, <1>5 DEF PaidByNow
<1>7. SubscriptionsTypeOK'
  BY <1>1, <1>3, <1>5 DEF SubscriptionsTypeOK, BooksTyped, world, PassRecords
<1>8. sub[s] # "none" /\ sub'[s] # "none" /\ RowsKept
  BY <1>1, <1>2 DEF HeldInv, RowsKept
<1>9. declined' = declined /\ day' = day /\ day <= day'
  BY <1>1, <1>4
<1>10. RowInv(s)'
  <2>1. paidOn'[s] <= day'
    BY <1>4, <1>5, <1>9
  <2> QED BY <1>1, <1>2, <1>5, <1>7, <1>9, <2>1, RowFrame
<1>11. HeldInv(p, s)'
  <2>1. pass'[p].day = pass[p].day /\ pass'[p].branch = pass[p].branch
    BY <1>3 DEF HeldByOthers
  <2>2. pass[p].rows[s].at # "none"
    BY <1>1
  <2> QED BY <1>2, <1>3, <1>5, <1>8, <1>9, <2>1, <2>2 DEF HeldInv
<1>12. ASSUME NEW q \in Passes PROVE HeldInv(q, s)'
  <2>1. CASE q # p
    <3>1. /\ pass'[q].rows[s] = pass[q].rows[s] /\ pass'[q].day = pass[q].day
          /\ pass'[q].branch = pass[q].branch
      BY <1>3, <2>1 DEF HeldByOthers
    <3>2. HeldInv(q, s)
      BY DEF BillingInv
    <3> QED BY <1>5, <1>7, <1>8, <1>9, <3>1, <3>2, HeldFrame
  <2> QED BY <1>11, <2>1
<1> QED BY <1>1, <1>3, <1>5, <1>6, <1>7, <1>8, <1>9, <1>10, <1>12, RowStep

LEMMA DeclinedInv ==
  ASSUME SubscriptionsTypeOK, BillingInv, NEW p \in Passes, NEW s \in Requests,
         BillingDeclined(p, s)
  PROVE  SubscriptionsTypeOK' /\ BillingInv'
<1>1. /\ pass[p].rows[s].at = "found" /\ Outcome(p, s, "declined")
      /\ declined' = [declined EXCEPT ![s] = @ \cup {pass[p].day}]
      /\ UNCHANGED <<day, request, code, world>> /\ UNCHANGED books
      /\ UNCHANGED <<sub, nextBilling, retries, lastRetry>>
  BY DEF BillingDeclined, billing
<1>2. RowInv(s) /\ HeldInv(p, s)
  BY DEF BillingInv
<1>3. /\ pass' \in [Passes -> PassRecords] /\ HeldByOthers(s)
      /\ pass'[p].rows[s].at = "declined"
      /\ pass'[p].rows[s].retries = pass[p].rows[s].retries
      /\ \A q \in Passes \ {p} : pass'[q].rows[s] = pass[q].rows[s]
  BY <1>1, OutcomeFacts
<1>4. /\ declined \in [Requests -> SUBSET Days] /\ pass[p].day \in Days /\ day \in Nat
      /\ pass[p].rows[s].retries \in Nat
  BY SubscriptionsAssumption DEF SubscriptionsTypeOK, Rows, Days
<1>5. /\ declined' \in [Requests -> SUBSET Days] /\ pass[p].day \in declined'[s]
      /\ declined[s] \subseteq declined'[s]
      /\ \A q \in Requests \ {s} : declined'[q] = declined[q]
  BY <1>1, <1>4
<1>6. BooksTyped' /\ BooksGrow /\ paidOn' = paidOn
  BY <1>1, BooksSame
<1>7. PaidByNow
  BY <1>6 DEF PaidByNow, BillingInv, RowInv
<1>8. SubscriptionsTypeOK'
  BY <1>1, <1>3, <1>5, <1>6 DEF SubscriptionsTypeOK, BooksTyped, world, PassRecords
<1>9. sub[s] # "none" /\ sub'[s] # "none" /\ RowsKept /\ day' = day /\ day <= day'
  BY <1>1, <1>2, <1>4 DEF HeldInv, RowsKept
<1>10. RowInv(s)'
  <2>1. paidOn'[s] <= day'
    BY <1>7, <1>9 DEF PaidByNow
  <2> QED BY <1>1, <1>2, <1>5, <1>6, <1>8, <2>1, RowFrame
<1>11. HeldInv(p, s)'
  <2>1. pass'[p].day = pass[p].day /\ pass'[p].branch = pass[p].branch
    BY <1>3 DEF HeldByOthers
  <2> DEFINE d == pass[p].day
             m == Cardinality(Before(declined[s], d))
             n == Cardinality(Before(declined'[s], d))
  <2>2. m \in Nat /\ n \in Nat /\ m <= n
    <3>1. /\ d \in Nat /\ d <= d /\ declined[s] \in SUBSET Days
          /\ declined'[s] \in SUBSET Days
      BY <1>4, <1>5, SubscriptionsAssumption DEF Days
    <3> HIDE DEF d
    <3> QED BY <1>5, <3>1, BeforeGrows
  <2>3. d <= day /\ (pass[p].branch = "past_due" =>
          pass[p].rows[s].retries < MaxRetries /\ pass[p].rows[s].retries <= m)
    BY <1>1, <1>2 DEF HeldInv
  <2>4. pass[p].branch = "past_due" => pass[p].rows[s].retries <= n
    <3> HIDE DEF m, n
    <3> QED BY <1>4, <2>2, <2>3
  <2> QED BY <1>3, <1>5, <1>9, <2>1, <2>3, <2>4 DEF HeldInv
<1>12. ASSUME NEW q \in Passes PROVE HeldInv(q, s)'
  <2>1. CASE q # p
    <3>1. /\ pass'[q].rows[s] = pass[q].rows[s] /\ pass'[q].day = pass[q].day
          /\ pass'[q].branch = pass[q].branch
      BY <1>3, <2>1 DEF HeldByOthers
    <3>2. HeldInv(q, s)
      BY DEF BillingInv
    <3> QED BY <1>5, <1>6, <1>8, <1>9, <3>1, <3>2, HeldFrame
  <2> QED BY <1>11, <2>1
<1> QED BY <1>1, <1>3, <1>5, <1>6, <1>7, <1>8, <1>9, <1>10, <1>12, RowStep

\* What an outcome does to the row.
RowWritten(p, s) ==
  /\ sub' \in [Requests -> Statuses \cup {"none"}] /\ nextBilling' \in [Requests -> Nat]
  /\ retries' \in [Requests -> 0 .. MaxRetries] /\ lastRetry' \in [Requests -> Days]
  /\ \A q \in Requests \ {s} :
       /\ sub'[q] = sub[q] /\ nextBilling'[q] = nextBilling[q]
       /\ retries'[q] = retries[q] /\ lastRetry'[q] = lastRetry[q]
  /\ sub[s] # "none" => sub'[s] # "none"
  /\ sub'[s] = "active" => nextBilling'[s] <= paidOn[s] + Period /\ Charged(s)
  /\ retries'[s] <= Cardinality(Before(declined[s], lastRetry'[s] + 1))
  /\ sub'[s] = "failed" => MaxRetries <= Cardinality(declined[s])

LEMMA PaidWritten ==
  ASSUME SubscriptionsTypeOK, NEW p \in Passes, NEW s \in Requests, RowInv(s), HeldInv(p, s),
         pass[p].rows[s].at = "paid", PaidStatus(p, s)
  PROVE  RowWritten(p, s)
<1> DEFINE status == IF pass[p].branch = "active" THEN sub[s] ELSE "active"
           tried == IF pass[p].branch = "past_due" THEN 0 ELSE lastRetry[s]
<1>1. /\ sub' = [sub EXCEPT ![s] = status]
      /\ nextBilling' = [nextBilling EXCEPT ![s] = pass[p].day + Period]
      /\ retries' = [retries EXCEPT ![s] = 0]
      /\ lastRetry' = [lastRetry EXCEPT ![s] = tried]
  BY DEF PaidStatus
<1>2. /\ sub \in [Requests -> Statuses \cup {"none"}] /\ nextBilling \in [Requests -> Nat]
      /\ retries \in [Requests -> 0 .. MaxRetries] /\ lastRetry \in [Requests -> Days]
      /\ pass[p].day \in Nat /\ paidOn[s] \in Nat /\ Period \in Nat /\ MaxRetries \in Nat
      /\ 0 \in Days
  BY SubscriptionsAssumption DEF SubscriptionsTypeOK, Days
<1>3. status \in Statuses \cup {"none"} /\ tried \in Days /\ tried \in Nat
      /\ (sub[s] # "none" => status # "none")
      /\ (status = "failed" => sub[s] = "failed")
  BY <1>2, SubscriptionsAssumption DEF Statuses, Branches, Days
<1> HIDE DEF status, tried
<1>4. /\ sub' \in [Requests -> Statuses \cup {"none"}] /\ nextBilling' \in [Requests -> Nat]
      /\ retries' \in [Requests -> 0 .. MaxRetries] /\ lastRetry' \in [Requests -> Days]
      /\ sub'[s] = status /\ nextBilling'[s] = pass[p].day + Period
      /\ retries'[s] = 0 /\ lastRetry'[s] = tried
      /\ \A q \in Requests \ {s} :
           /\ sub'[q] = sub[q] /\ nextBilling'[q] = nextBilling[q]
           /\ retries'[q] = retries[q] /\ lastRetry'[q] = lastRetry[q]
  BY <1>1, <1>2, <1>3
<1>5. Charged(s) /\ pass[p].day <= paidOn[s]
  BY DEF HeldInv
<1>6. nextBilling'[s] <= paidOn[s] + Period
  BY <1>2, <1>4, <1>5
<1>7. retries'[s] <= Cardinality(Before(declined[s], lastRetry'[s] + 1))
  <2> DEFINE e == tried + 1
  <2>1. e \in Nat /\ e <= e /\ declined[s] \in SUBSET Days
    BY <1>3 DEF SubscriptionsTypeOK
  <2>2. Cardinality(Before(declined[s], e)) \in Nat
    <3> HIDE DEF e
    <3> QED BY <2>1, BeforeGrows
  <2> QED BY <1>4, <2>2
<1>8. sub'[s] = "failed" => MaxRetries <= Cardinality(declined[s])
  BY <1>3, <1>4 DEF RowInv
<1> QED BY <1>3, <1>4, <1>5, <1>6, <1>7, <1>8 DEF RowWritten

LEMMA DeclinedWritten ==
  ASSUME SubscriptionsTypeOK, NEW p \in Passes, NEW s \in Requests, RowInv(s), HeldInv(p, s),
         pass[p].rows[s].at = "declined", DeclinedStatus(p, s)
  PROVE  RowWritten(p, s)
<1> DEFINE count == IF pass[p].branch = "past_due" THEN pass[p].rows[s].retries + 1 ELSE 1
           status == IF pass[p].branch = "past_due" /\ count >= MaxRetries
                       THEN "failed" ELSE "past_due"
           today == pass[p].day
           n == Cardinality(Before(declined[s], today + 1))
           m == Cardinality(Before(declined[s], today))
<1>1. /\ sub' = [sub EXCEPT ![s] = status]
      /\ retries' = [retries EXCEPT ![s] = count]
      /\ lastRetry' = [lastRetry EXCEPT ![s] = today]
      /\ nextBilling' = nextBilling
  BY DEF DeclinedStatus
<1>2. /\ sub \in [Requests -> Statuses \cup {"none"}] /\ nextBilling \in [Requests -> Nat]
      /\ retries \in [Requests -> 0 .. MaxRetries] /\ lastRetry \in [Requests -> Days]
      /\ today \in Days /\ today \in Nat /\ MaxRetries \in Nat /\ MaxRetries >= 1
      /\ pass[p].rows[s].retries \in Nat /\ declined[s] \in SUBSET Days
  BY SubscriptionsAssumption DEF SubscriptionsTypeOK, Days, Rows
<1>3. today \in declined[s] /\ (pass[p].branch = "past_due" =>
        pass[p].rows[s].retries < MaxRetries /\ pass[p].rows[s].retries <= m)
  BY DEF HeldInv
<1>4. m \in Nat /\ n \in Nat /\ m + 1 <= n /\ n <= Cardinality(declined[s])
      /\ Cardinality(declined[s]) \in Nat
  <2>1. today + 1 \in Nat /\ today <= today /\ today + 1 <= today + 1
    BY <1>2
  <2> DEFINE tomorrow == today + 1
  <2>2. n \in Nat /\ n <= Cardinality(declined[s]) /\ Cardinality(declined[s]) \in Nat
    <3>1. tomorrow \in Nat /\ tomorrow <= tomorrow
      BY <2>1
    <3>2. n = Cardinality(Before(declined[s], tomorrow))
      OBVIOUS
    <3> HIDE DEF n, tomorrow
    <3> QED BY <1>2, <3>1, <3>2, BeforeGrows
  <2>3. m \in Nat
    <3> HIDE DEF today
    <3> QED BY <1>2, <2>1, BeforeGrows
  <2>4. m + 1 <= n
    <3> HIDE DEF today
    <3> QED BY <1>2, <1>3, BeforeNext
  <2> HIDE DEF m, n
  <2> QED BY <2>2, <2>3, <2>4
<1> HIDE DEF m, n, today
<1>5. count \in 0 .. MaxRetries /\ count <= n
  BY <1>2, <1>3, <1>4
<1>6. status \in {"failed", "past_due"} /\ status \in Statuses \cup {"none"}
      /\ (status = "failed" => MaxRetries <= Cardinality(declined[s]))
  <2>1. status = "failed" => MaxRetries <= count /\ count \in Nat
    BY <1>2, <1>5
  <2> HIDE DEF count
  <2>2. status = "failed" => MaxRetries <= Cardinality(declined[s])
    BY <1>2, <1>4, <1>5, <2>1
  <2> QED BY <2>2 DEF Statuses, Branches
<1> HIDE DEF count, status
<1>7. /\ sub' \in [Requests -> Statuses \cup {"none"}] /\ nextBilling' \in [Requests -> Nat]
      /\ retries' \in [Requests -> 0 .. MaxRetries] /\ lastRetry' \in [Requests -> Days]
      /\ sub'[s] = status /\ retries'[s] = count /\ lastRetry'[s] = today
      /\ \A q \in Requests \ {s} :
           /\ sub'[q] = sub[q] /\ nextBilling'[q] = nextBilling[q]
           /\ retries'[q] = retries[q] /\ lastRetry'[q] = lastRetry[q]
  BY <1>1, <1>2, <1>5, <1>6
<1>8. retries'[s] <= Cardinality(Before(declined[s], lastRetry'[s] + 1))
  BY <1>5, <1>7 DEF n
<1> QED BY <1>6, <1>7, <1>8 DEF RowWritten
LEMMA WriteInv ==
  ASSUME SubscriptionsTypeOK, BillingInv, NEW p \in Passes, NEW s \in Requests,
         WriteOutcome(p, s)
  PROVE  SubscriptionsTypeOK' /\ BillingInv'
<1>1. /\ \/ pass[p].rows[s].at = "paid" /\ PaidStatus(p, s)
         \/ pass[p].rows[s].at = "declined" /\ DeclinedStatus(p, s)
      /\ Handled(p, s)
      /\ UNCHANGED <<day, request, code, declined, world>> /\ UNCHANGED books
  BY DEF WriteOutcome
<1>2. RowInv(s) /\ HeldInv(p, s)
  BY DEF BillingInv
<1>3. RowWritten(p, s)
  BY <1>1, <1>2, PaidWritten, DeclinedWritten
<1>4. /\ pass' \in [Passes -> PassRecords] /\ HeldByOthers(s)
      /\ pass'[p].rows[s] = NoRow
      /\ \A q \in Passes \ {p} : pass'[q].rows[s] = pass[q].rows[s]
  BY <1>1, HandledFacts
<1>5. BooksTyped' /\ BooksGrow /\ paidOn' = paidOn /\ paidFor' = paidFor
  BY <1>1, BooksSame
<1>6. PaidByNow
  BY <1>5 DEF PaidByNow, BillingInv, RowInv
<1>7. SubscriptionsTypeOK'
  BY <1>1, <1>3, <1>4, <1>5 DEF SubscriptionsTypeOK, BooksTyped, world, RowWritten, PassRecords
<1>8. /\ sub[s] # "none" /\ sub'[s] # "none" /\ RowsKept /\ day' = day /\ day <= day'
      /\ declined' = declined
  BY <1>1, <1>2, <1>3, SubscriptionsAssumption
  DEF HeldInv, RowsKept, RowWritten, SubscriptionsTypeOK, Days
<1>9. RowInv(s)'
  <2>1. paidOn'[s] <= day'
    BY <1>6, <1>8 DEF PaidByNow
  <2>2. Charged(s)' = Charged(s)
    BY <1>5 DEF Charged
  <2> QED BY <1>3, <1>5, <1>8, <2>1, <2>2 DEF RowWritten, RowInv
<1>10. HeldInv(p, s)'
  <2>1. pass'[p].day = pass[p].day /\ pass[p].day <= day
    BY <1>2, <1>4 DEF HeldByOthers, HeldInv
  <2> QED BY <1>4, <1>8, <2>1 DEF HeldInv, NoRow
<1>11. ASSUME NEW q \in Passes PROVE HeldInv(q, s)'
  <2>1. CASE q # p
    <3>1. /\ pass'[q].rows[s] = pass[q].rows[s] /\ pass'[q].day = pass[q].day
          /\ pass'[q].branch = pass[q].branch
      BY <1>4, <2>1 DEF HeldByOthers
    <3>2. HeldInv(q, s)
      BY DEF BillingInv
    <3> QED BY <1>5, <1>7, <1>8, <3>1, <3>2, HeldFrame
  <2> QED BY <1>10, <2>1
<1> QED BY <1>1, <1>3, <1>4, <1>5, <1>6, <1>7, <1>8, <1>9, <1>11, RowStep DEF RowWritten

\* A row that is found, passed over, cancelled as the subscriber's own, or left.
LEMMA QuietInv ==
  ASSUME SubscriptionsTypeOK, BillingInv, NEW p \in Passes, NEW s \in Requests,
         \/ FindSubscriber(p, s) \/ NoSubscriber(p, s)
         \/ CancelOwn(p, s) \/ BillingErrs(p, s)
  PROVE  SubscriptionsTypeOK' /\ BillingInv'
<1>1. /\ pass[p].rows[s].at \in {"selected", "found"}
      /\ Outcome(p, s, "found") \/ Handled(p, s)
      /\ UNCHANGED <<day, request, code, declined, closed, ownPlans>> /\ UNCHANGED books
      /\ UNCHANGED <<nextBilling, retries, lastRetry>>
      /\ sub' = sub \/ sub' = [sub EXCEPT ![s] = "cancelled"]
      /\ events' = events \/ Event
  BY DEF FindSubscriber, NoSubscriber, CancelOwn, BillingErrs, Selected, UnchangedButPass,
         billing, world
<1>2. RowInv(s) /\ HeldInv(p, s)
  BY DEF BillingInv
<1>3. /\ pass' \in [Passes -> PassRecords] /\ HeldByOthers(s)
      /\ \A q \in Passes \ {p} : pass'[q].rows[s] = pass[q].rows[s]
      /\ pass'[p].rows[s].at \in {"found", "none"}
      /\ pass'[p].rows[s].at = "found" =>
           pass'[p].rows[s].retries = pass[p].rows[s].retries
  <2>1. CASE Outcome(p, s, "found")
    BY <2>1, OutcomeFacts
  <2>2. CASE Handled(p, s)
    BY <2>2, HandledFacts DEF NoRow
  <2> QED BY <1>1, <2>1, <2>2
<1>4. BooksTyped' /\ BooksGrow /\ paidOn' = paidOn /\ paidFor' = paidFor
  BY <1>1, BooksSame
<1>5. PaidByNow
  BY <1>4 DEF PaidByNow, BillingInv, RowInv
<1>6. events' \in 0 .. MaxEvents
  BY <1>1, SubscriptionsAssumption DEF Event, SubscriptionsTypeOK
<1>7. /\ sub' \in [Requests -> Statuses \cup {"none"}] /\ sub'[s] \in {sub[s], "cancelled"}
      /\ \A q \in Requests \ {s} : sub'[q] = sub[q]
  <2>1. sub \in [Requests -> Statuses \cup {"none"}] /\ "cancelled" \in Statuses
    BY DEF SubscriptionsTypeOK, Statuses
  <2>2. CASE sub' = sub
    BY <2>1, <2>2
  <2>3. CASE sub' = [sub EXCEPT ![s] = "cancelled"]
    BY <2>1, <2>3
  <2> QED BY <1>1, <2>2, <2>3
<1>8. SubscriptionsTypeOK'
  BY <1>1, <1>3, <1>4, <1>6, <1>7 DEF SubscriptionsTypeOK, BooksTyped, PassRecords
<1>9. sub[s] # "none" /\ sub'[s] # "none" /\ RowsKept
  BY <1>1, <1>2, <1>7 DEF HeldInv, RowsKept
<1>10. day' = day /\ day <= day' /\ declined' = declined
  BY <1>1, SubscriptionsAssumption DEF SubscriptionsTypeOK, Days
<1>11. RowInv(s)'
  <2>1. paidOn'[s] <= day'
    BY <1>5, <1>10 DEF PaidByNow
  <2>2. /\ sub'[s] = "active" => sub[s] = "active"
        /\ sub'[s] = "failed" => sub[s] = "failed"
    BY <1>7
  <2> QED BY <1>1, <1>2, <1>4, <1>8, <1>10, <2>1, <2>2, RowFrame
<1>12. HeldInv(p, s)'
  <2>1. pass'[p].day = pass[p].day /\ pass'[p].branch = pass[p].branch
    BY <1>3 DEF HeldByOthers
  <2>2. pass[p].rows[s].at # "none"
    BY <1>1
  <2> QED BY <1>2, <1>3, <1>9, <1>10, <2>1, <2>2 DEF HeldInv
<1>13. ASSUME NEW q \in Passes PROVE HeldInv(q, s)'
  <2>1. CASE q # p
    <3>1. /\ pass'[q].rows[s] = pass[q].rows[s] /\ pass'[q].day = pass[q].day
          /\ pass'[q].branch = pass[q].branch
      BY <1>3, <2>1 DEF HeldByOthers
    <3>2. HeldInv(q, s)
      BY DEF BillingInv
    <3> QED BY <1>4, <1>8, <1>9, <1>10, <3>1, <3>2, HeldFrame
  <2> QED BY <1>12, <2>1
<1> QED BY <1>1, <1>3, <1>4, <1>5, <1>7, <1>8, <1>9, <1>10, <1>11, <1>13, RowStep

LEMMA RestartInv ==
  ASSUME SubscriptionsTypeOK, BillingInv, Restart
  PROVE  SubscriptionsTypeOK' /\ BillingInv'
<1>1. /\ request' = [r \in Requests |-> IF request[r].step = 0 THEN NewRequest ELSE Over(r)]
      /\ pass' = [p \in Passes |-> NoPass]
      /\ UNCHANGED <<day, declined, closed, ownPlans>> /\ UNCHANGED books
      /\ UNCHANGED <<sub, nextBilling, retries, lastRetry>>
  BY DEF Restart, billing
<1>2. NewRequest \in RequestRecords
  BY SubscriptionsAssumption DEF NewRequest, RequestRecords, Days, Ended
<1>3. ASSUME NEW r \in Requests
      PROVE  /\ request'[r] \in RequestRecords
             /\ request[r].step = 0 => request'[r] = NewRequest
             /\ request[r].step # 0 => RouteEnds(r)
  <2> DEFINE over == Over(r)
  <2>1. /\ over \in RequestRecords
        /\ over.step = Ended /\ over.day = 0 /\ over.seen = {}
        /\ over.kind = Kind(r) /\ over.trial = request[r].trial
    BY OverFacts
  <2>2. request'[r] = IF request[r].step = 0 THEN NewRequest ELSE over
    BY <1>1
  <2> HIDE DEF over
  <2> QED BY <1>2, <2>1, <2>2 DEF RouteEnds
<1>4. request' \in [Requests -> RequestRecords]
  <2>1. request' = [r \in Requests |-> request'[r]]
    BY <1>1
  <2> QED BY <1>3, <2>1
<1>5. NoPass \in PassRecords /\ NoPass.day = 0 /\ \A s \in Requests : NoPass.rows[s] = NoRow
  BY SubscriptionsAssumption DEF NoPass, PassRecords, NoRow, Rows, Stages, Days
<1>6. pass' \in [Passes -> PassRecords] /\ \A p \in Passes : pass'[p] = NoPass
  BY <1>1, <1>5
<1>7. BooksTyped' /\ BooksGrow /\ paidOn' = paidOn /\ paidFor' = paidFor
  BY <1>1, BooksSame
<1>8. CodesTyped' /\ events' \in 0 .. MaxEvents
  BY SubscriptionsAssumption DEF Restart, Event, CodesTyped, SubscriptionsTypeOK
<1>9. SubscriptionsTypeOK'
  BY <1>1, <1>4, <1>6, <1>7, <1>8
  DEF SubscriptionsTypeOK, BooksTyped, PassRecords, RequestRecords, CodesTyped
<1>10. day' = day /\ declined' = declined /\ day \in Nat
  BY <1>1, SubscriptionsAssumption DEF SubscriptionsTypeOK, Days
<1>11. ASSUME NEW r \in Requests PROVE RequestInv(r)' /\ RowInv(r)'
  <2>1. RequestInv(r) /\ RowInv(r)
    BY DEF BillingInv
  <2>2. CASE request[r].step = 0
    <3>1. /\ request'[r].step = 0 /\ request'[r].day = 0 /\ request'[r].seen = {}
      BY <1>3, <2>2 DEF NewRequest
    <3>2. Placed(r)' /\ ~ InPayment(r)'
      BY <3>1 DEF Placed, InPayment
    <3> QED BY <1>1, <1>10, <2>1, <2>2, <3>1, <3>2, <1>7, <1>9, RowFrame
            DEF RequestInv, RowInv
  <2>3. CASE request[r].step # 0
    <3>1. RequestInv(r)'
      BY <1>3, <1>10, <2>3, RouteEndsInv
    <3>2. paidOn'[r] <= day'
      BY <1>7, <1>10, <2>1 DEF RowInv
    <3> QED BY <1>1, <1>7, <1>9, <1>10, <2>1, <3>1, <3>2, RowFrame
  <2> QED BY <2>2, <2>3
<1>12. ASSUME NEW p \in Passes, NEW s \in Requests PROVE HeldInv(p, s)'
  <2>1. pass'[p].day = 0 /\ pass'[p].rows[s].at = "none"
    BY <1>5, <1>6 DEF NoRow
  <2> QED BY <1>10, <2>1 DEF HeldInv
<1> QED BY <1>9, <1>11, <1>12 DEF BillingInv

-----------------------------------------------------------------------------
LEMMA BillingStep ==
  ASSUME SubscriptionsTypeOK, BillingInv, SubscriptionsStep
  PROVE  SubscriptionsTypeOK' /\ BillingInv'
<1>1. ASSUME NEW r \in Requests, Continue(r) PROVE SubscriptionsTypeOK' /\ BillingInv'
  BY <1>1, BeginInv, CommitInv, RefuseInv, CancelInv, ChargeInv, InsertRowInv, UseInv
  DEF Continue
<1>2. ASSUME NEW p \in Passes, PassStep(p) PROVE SubscriptionsTypeOK' /\ BillingInv'
  BY <1>2, PassMovesInv, QuietInv, SucceedsInv, DeclinedInv, WriteInv DEF PassStep
<1> QED BY <1>1, <1>2, CodeStepInv, ReceiveInv, RetryInv, CancelSubscriptionInv, TickInv,
            WorldInv, RestartInv DEF SubscriptionsStep

LEMMA BillingStutter ==
  ASSUME SubscriptionsTypeOK, BillingInv, UNCHANGED subscriptionVars
  PROVE  SubscriptionsTypeOK' /\ BillingInv'
<1>1. SubscriptionsTypeOK'
  BY DEF subscriptionVars, billing, books, world, SubscriptionsTypeOK
<1>2. UNCHANGED <<request, billing, pass, paidFor, paidOn, declined>>
  BY DEF subscriptionVars, books
<1>3. day' \in Days /\ day <= day'
  BY SubscriptionsAssumption DEF subscriptionVars, SubscriptionsTypeOK, Days
<1> QED BY <1>1, <1>2, <1>3, AsideInv

LEMMA BillingInit ==
  ASSUME InitSubscriptions PROVE SubscriptionsTypeOK /\ BillingInv
<1>1. 0 \in Days /\ Period \in Nat /\ 0 \in 0 .. MaxRetries /\ 0 \in 0 .. MaxEvents
  BY SubscriptionsAssumption DEF Days
<1>2. NewRequest \in RequestRecords
  BY <1>1 DEF NewRequest, RequestRecords, Ended
<1>3. NoPass \in PassRecords /\ NoPass.day = 0 /\ \A s \in Requests : NoPass.rows[s] = NoRow
  BY <1>1 DEF NoPass, PassRecords, NoRow, Rows, Stages
<1>4. SubscriptionsTypeOK
  BY <1>1, <1>2, <1>3, OpeningAssumption
  DEF InitSubscriptions, InitBalances, SubscriptionsTypeOK, RequestRecords, PassRecords, Statuses
<1>5. ASSUME NEW r \in Requests PROVE RequestInv(r) /\ RowInv(r)
  <2>1. request[r].step = 0 /\ request[r].day = 0 /\ request[r].seen = {}
    BY DEF InitSubscriptions, NewRequest
  <2>2. RequestInv(r)
    BY <2>1 DEF InitSubscriptions, RequestInv, Placed, InPayment
  <2>3. Cardinality(Before(declined[r], 1)) = 0
    <3>1. Before(declined[r], 1) = {}
      BY DEF InitSubscriptions, Before
    <3> QED BY <3>1, FS_EmptySet
  <2>4. RowInv(r)
    BY <1>1, <2>3 DEF InitSubscriptions, RowInv
  <2> QED BY <2>2, <2>4
<1>6. ASSUME NEW p \in Passes, NEW s \in Requests PROVE HeldInv(p, s)
  BY <1>3 DEF InitSubscriptions, HeldInv, NoRow
<1> QED BY <1>4, <1>5, <1>6 DEF BillingInv

\* The types of the billing's state (routes/subscriptions.ts, lib/subscription-worker.ts);
\* no balance is ever negative and no row counts more retries than there are.
THEOREM BillingInvariant == SubscriptionsSpec => [](SubscriptionsTypeOK /\ BillingInv)
<1>1. SubscriptionsTypeOK /\ BillingInv /\ [SubscriptionsStep]_subscriptionVars
        => SubscriptionsTypeOK' /\ BillingInv'
  BY BillingStep, BillingStutter
<1> QED BY <1>1, BillingInit, PTL DEF SubscriptionsSpec

\* Whoever writes last, worker, subscriber or a stale pass, an active subscription has
\* been paid for and is billed again at most one period after its last payment.
THEOREM NoPeriodFree == SubscriptionsSpec => []NoFreePeriod
<1>1. BillingInv => NoFreePeriod
  BY DEF BillingInv, RowInv, NoFreePeriod
<1> QED BY <1>1, BillingInvariant, PTL

\* The worker gives a subscription up only after as many declined attempts, on days of
\* their own, as it promises.
THEOREM RetriesUsed == SubscriptionsSpec => []FailedAfterRetries
<1>1. SubscriptionsTypeOK /\ BillingInv => FailedAfterRetries
  <2> SUFFICES ASSUME SubscriptionsTypeOK, BillingInv, NEW s \in Requests, sub[s] = "failed"
               PROVE  Cardinality(declined[s]) >= MaxRetries
    BY DEF FailedAfterRetries
  <2>1. declined[s] \in SUBSET Days /\ 0 \in Nat /\ 0 <= 0
    BY DEF SubscriptionsTypeOK
  <2>2. Cardinality(declined[s]) \in Nat /\ MaxRetries \in Nat
    BY <2>1, BeforeGrows, SubscriptionsAssumption
  <2> QED BY <2>2 DEF BillingInv, RowInv
<1> QED BY <1>1, BillingInvariant, PTL
-----------------------------------------------------------------------------
(***************************************************************************)
(* A code charges once.  Only the commit of POST /activate makes a request *)
(* one that bought with its code, and it marks the code in the same        *)
(* transaction in which it finds it free.                                  *)
(***************************************************************************)
NothingBought == \A q \in Requests : BoughtWithCode(q)' => BoughtWithCode(q)

UsedKept == \A c \in Codes : code[c] = "used" => code'[c] = "used"

SamePlan(q) == request'[q].kind = request[q].kind /\ request'[q].trial = request[q].trial

LEMMA CodeFrame ==
  ASSUME CodeInv, NothingBought, UsedKept
  PROVE  CodeInv'
<1>1. \A r \in Requests : CodeOf[r] \in Codes
  BY SubscriptionsAssumption
<1> QED BY <1>1 DEF CodeInv, NothingBought, UsedKept

LEMMA PlanFrame ==
  ASSUME NEW q \in Requests, SamePlan(q), sub'[q] # "none" => sub[q] # "none"
  PROVE  BoughtWithCode(q)' => BoughtWithCode(q)
  BY DEF SamePlan, BoughtWithCode, Kind, OnTrial

LEMMA PlansStay ==
  ASSUME SubscriptionsTypeOK, NEW r \in Requests, Placed(r), NEW seen \in SUBSET Requests,
         End(r) \/ (Step(r) # "none" /\ Proceed(r, seen))
  PROVE  \A q \in Requests : SamePlan(q)
<1>1. Others(r) /\ (RouteEnds(r) \/ Further(r, seen))
  BY EndFacts, ProceedFacts
<1> QED BY <1>1 DEF Others, RouteEnds, Further, SamePlan, Kind

LEMMA MarkKeeps ==
  ASSUME SubscriptionsTypeOK, NEW c \in Codes, MarkUsed(c)
  PROVE  UsedKept /\ code'[c] = "used"
  BY DEF MarkUsed, UsedKept, SubscriptionsTypeOK

\* The steps of a request but the commit.
LEMMA RequestBuysNothing ==
  ASSUME SubscriptionsTypeOK, BillingInv, NEW r \in Requests,
         \/ BeginActivation(r) \/ RefuseActivation(r) \/ CancelEarlier(r)
         \/ ChargeFirst(r) \/ InsertRow(r) \/ UseCode(r)
  PROVE  NothingBought /\ UsedKept
<1>1. Placed(r) /\ Inserted \in SUBSET Requests /\ {} \in SUBSET Requests
  BY DEF BillingInv, RequestInv, Inserted
<1>2. CASE BeginActivation(r) \/ RefuseActivation(r) \/ ChargeFirst(r)
  <2>1. /\ End(r) \/ (Step(r) # "none" /\ \E seen \in SUBSET Requests : Proceed(r, seen))
        /\ sub' = sub /\ code' = code
    BY <1>1, <1>2 DEF BeginActivation, RefuseActivation, ChargeFirst, billing
  <2>2. \A q \in Requests : SamePlan(q)
    BY <1>1, <2>1, PlansStay
  <2> QED BY <2>1, <2>2, PlanFrame DEF NothingBought, UsedKept
<1>3. CASE CancelEarlier(r)
  <2>1. /\ Step(r) # "none" /\ Proceed(r, {}) /\ code' = code
        /\ sub' = [s \in Requests |-> IF sub[s] = "none" THEN "none" ELSE "cancelled"]
    BY <1>3 DEF CancelEarlier
  <2>2. \A q \in Requests : SamePlan(q)
    BY <1>1, <2>1, PlansStay
  <2>3. \A q \in Requests : sub'[q] # "none" => sub[q] # "none"
    BY <2>1
  <2> QED BY <2>1, <2>2, <2>3, PlanFrame DEF NothingBought, UsedKept
<1>4. CASE InsertRow(r)
  <2>1. /\ Step(r) = "insert" /\ Proceed(r, {}) /\ InsertSubscription(r, {}) /\ code' = code
    BY <1>4 DEF InsertRow
  <2>2. \A q \in Requests : SamePlan(q)
    BY <1>1, <2>1, PlansStay
  <2>3. Kind(r) # "activate"
    BY <1>1, <2>1, Stands
  <2>4. ~ BoughtWithCode(r)'
    BY <2>2, <2>3 DEF BoughtWithCode, SamePlan, Kind
  <2>5. OtherRows(r)
    <3>1. {} \in SUBSET Inserted
      OBVIOUS
    <3> QED BY <2>1, <3>1, InsertFacts
  <2>6. \A q \in Requests \ {r} : sub'[q] # "none" => sub[q] # "none"
    BY <2>5 DEF OtherRows
  <2> QED BY <2>1, <2>2, <2>4, <2>6, PlanFrame DEF NothingBought, UsedKept
<1>5. CASE UseCode(r)
  <2>1. /\ Step(r) # "none" /\ Proceed(r, {}) /\ MarkUsed(CodeOf[r]) /\ sub' = sub
    BY <1>5 DEF UseCode, billing
  <2>2. \A q \in Requests : SamePlan(q)
    BY <1>1, <2>1, PlansStay
  <2>3. CodeOf[r] \in Codes
    BY SubscriptionsAssumption
  <2> QED BY <2>1, <2>2, <2>3, PlanFrame, MarkKeeps DEF NothingBought
<1> QED BY <1>2, <1>3, <1>4, <1>5

LEMMA CommitCodeInv ==
  ASSUME SubscriptionsTypeOK, BillingInv, CodeInv, NEW r \in Requests, CommitActivation(r)
  PROVE  CodeInv'
<1>1. /\ Step(r) # "none" /\ Proceed(r, {}) /\ InsertSubscription(r, request[r].seen)
      /\ IF Kind(r) = "activate" THEN MarkUsed(CodeOf[r]) ELSE UNCHANGED code
      /\ Kind(r) = "activate" => OnTrial(r) \/ code[CodeOf[r]] # "used"
  BY DEF CommitActivation, CodeFree
<1>2. /\ Placed(r) /\ {} \in SUBSET Requests /\ request[r].seen \in SUBSET Inserted
      /\ \A q \in Requests : CodeOf[q] \in Codes
  BY SubscriptionsAssumption DEF BillingInv, RequestInv, Inserted, SubscriptionsTypeOK
<1>3. \A q \in Requests : SamePlan(q)
  BY <1>1, <1>2, PlansStay
<1>4. OtherRows(r)
  BY <1>1, <1>2, InsertFacts
<1>5. \A q \in Requests \ {r} : BoughtWithCode(q)' => BoughtWithCode(q)
  <2>1. \A q \in Requests \ {r} : sub'[q] # "none" => sub[q] # "none"
    BY <1>4 DEF OtherRows
  <2> QED BY <1>3, <2>1, PlanFrame
<1>6. UsedKept
  BY <1>1, <1>2, MarkKeeps DEF UsedKept
<1>7. CASE Kind(r) = "activate" /\ ~ OnTrial(r)
  <2>1. code[CodeOf[r]] # "used" /\ code'[CodeOf[r]] = "used"
    BY <1>1, <1>2, <1>7, MarkKeeps
  <2>2. \A q \in Requests \ {r} : BoughtWithCode(q)' => CodeOf[q] # CodeOf[r]
    BY <1>5, <2>1 DEF CodeInv
  <2> QED BY <1>2, <1>5, <1>6, <2>1, <2>2 DEF CodeInv, UsedKept
<1>8. CASE ~ (Kind(r) = "activate" /\ ~ OnTrial(r))
  <2>1. ~ BoughtWithCode(r)'
    BY <1>3, <1>8 DEF BoughtWithCode, SamePlan, Kind, OnTrial
  <2> QED BY <1>5, <1>6, <2>1, CodeFrame DEF NothingBought
<1> QED BY <1>7, <1>8

\* A request that has not begun has no row, and so has bought nothing.
LEMMA ReceiveBuysNothing ==
  ASSUME SubscriptionsTypeOK, BillingInv, NEW r \in Requests,
         NEW kind \in Routes[r], NEW trial \in Trials[r], Receive(r, kind, trial)
  PROVE  NothingBought /\ UsedKept
<1> DEFINE begun == [NewRequest EXCEPT !.step = 1, !.kind = kind, !.trial = trial, !.day = day]
<1>1. /\ request[r].step = 0 /\ request' = [request EXCEPT ![r] = begun]
      /\ sub' = sub /\ code' = code
  BY DEF Receive, billing
<1> HIDE DEF begun
<1>2. \A q \in Requests \ {r} : request'[q] = request[q]
  BY <1>1 DEF SubscriptionsTypeOK
<1>3. sub'[r] = "none"
  BY <1>1 DEF BillingInv, RequestInv
<1> QED BY <1>1, <1>2, <1>3 DEF NothingBought, UsedKept, BoughtWithCode, Kind, OnTrial

LEMMA RestartBuysNothing ==
  ASSUME SubscriptionsTypeOK, BillingInv, Restart
  PROVE  NothingBought /\ UsedKept
<1>1. /\ request' = [r \in Requests |-> IF request[r].step = 0 THEN NewRequest ELSE Over(r)]
      /\ sub' = sub /\ UsedKept
  BY DEF Restart, billing, UsedKept
<1>2. ASSUME NEW q \in Requests PROVE BoughtWithCode(q)' => BoughtWithCode(q)
  <2>1. CASE request[q].step = 0
    <3>1. sub'[q] = "none"
      BY <1>1, <2>1 DEF BillingInv, RequestInv
    <3> QED BY <3>1 DEF BoughtWithCode
  <2>2. CASE request[q].step # 0
    <3> DEFINE over == Over(q)
    <3>1. request'[q] = over
      BY <1>1, <2>2
    <3>2. over.kind = Kind(q) /\ over.trial = request[q].trial
      BY OverFacts
    <3> HIDE DEF over
    <3>3. SamePlan(q)
      BY <3>1, <3>2 DEF SamePlan, Kind
    <3> QED BY <1>1, <3>3, PlanFrame
  <2> QED BY <2>1, <2>2
<1> QED BY <1>1, <1>2 DEF NothingBought

\* Rows that change, but are not inserted.
LEMMA OthersBuyNothing ==
  ASSUME SubscriptionsTypeOK, BillingInv,
         \/ \E c \in Codes : SupersedeCodes(c) \/ GenerateCode(c) \/ ExpireCode(c)
         \/ \E s \in Requests : Retry(s) \/ CancelSubscription(s) \/ RedirectPlan(s)
         \/ \E p \in Passes : PassStep(p)
         \/ Tick \/ TopUp \/ DeleteSubscriber \/ UNCHANGED subscriptionVars
  PROVE  NothingBought /\ UsedKept
<1>1. request' = request
  BY DEF SupersedeCodes, GenerateCode, ExpireCode, UnchangedButCode, Retry, CancelSubscription,
         PassStep, StartPass, NextBranch, UnchangedButPass, FindSubscriber, NoSubscriber,
         CancelOwn, BillingSucceeds, BillingDeclined, BillingErrs, WriteOutcome, Tick, TopUp,
         DeleteSubscriber, RedirectPlan, subscriptionVars
<1>2. UsedKept
  BY DEF SupersedeCodes, GenerateCode, ExpireCode, UnchangedButCode, Retry, CancelSubscription,
         PassStep, StartPass, NextBranch, UnchangedButPass, FindSubscriber, NoSubscriber,
         CancelOwn, BillingSucceeds, BillingDeclined, BillingErrs, WriteOutcome, Tick, TopUp,
         DeleteSubscriber, RedirectPlan, subscriptionVars, UsedKept, SubscriptionsTypeOK
<1>3. \A q \in Requests : sub'[q] # "none" => sub[q] # "none"
  <2>1. ASSUME NEW s \in Requests, Retry(s) \/ CancelSubscription(s)
        PROVE  \A q \in Requests : sub'[q] # "none" => sub[q] # "none"
    BY <2>1 DEF Retry, CancelSubscription, Branches, SubscriptionsTypeOK
  <2>2. ASSUME NEW p \in Passes, NEW s \in Requests, WriteOutcome(p, s)
        PROVE  \A q \in Requests : sub'[q] # "none" => sub[q] # "none"
    <3>1. HeldInv(p, s) /\ RowInv(s)
      BY DEF BillingInv
    <3>2. RowWritten(p, s) /\ sub[s] # "none"
      BY <2>2, <3>1, PaidWritten, DeclinedWritten DEF WriteOutcome, HeldInv
    <3> QED BY <3>2 DEF RowWritten
  <2>3. ASSUME NEW p \in Passes, NEW s \in Requests, CancelOwn(p, s)
        PROVE  \A q \in Requests : sub'[q] # "none" => sub[q] # "none"
    <3>1. HeldInv(p, s)
      BY DEF BillingInv
    <3>2. sub[s] # "none"
      BY <2>3, <3>1 DEF CancelOwn, Selected, HeldInv
    <3> QED BY <2>3, <3>2 DEF CancelOwn, SubscriptionsTypeOK
  <2>4. \/ sub' = sub
        \/ \E s \in Requests : Retry(s) \/ CancelSubscription(s)
        \/ \E p \in Passes, s \in Requests : WriteOutcome(p, s) \/ CancelOwn(p, s)
    BY DEF SupersedeCodes, GenerateCode, ExpireCode, UnchangedButCode, PassStep, StartPass,
           NextBranch, UnchangedButPass, FindSubscriber, NoSubscriber, BillingSucceeds,
           BillingDeclined, BillingErrs, Tick, TopUp, DeleteSubscriber, RedirectPlan,
           subscriptionVars, billing
  <2> QED BY <2>1, <2>2, <2>3, <2>4
<1>4. \A q \in Requests : SamePlan(q)
  BY <1>1 DEF SamePlan
<1> QED BY <1>2, <1>3, <1>4, PlanFrame DEF NothingBought

LEMMA CodeStep ==
  ASSUME SubscriptionsTypeOK, BillingInv, CodeInv, [SubscriptionsStep]_subscriptionVars
  PROVE  CodeInv'
<1>1. ASSUME NEW r \in Requests, Continue(r) PROVE CodeInv'
  BY <1>1, RequestBuysNothing, CommitCodeInv, CodeFrame DEF Continue
<1>2. ASSUME NEW r \in Requests, NEW kind \in Routes[r], NEW trial \in Trials[r],
             Receive(r, kind, trial)
      PROVE  CodeInv'
  BY <1>2, ReceiveBuysNothing, CodeFrame
<1>3. CASE Restart
  BY <1>3, RestartBuysNothing, CodeFrame
<1>4. CASE \/ \E c \in Codes : SupersedeCodes(c) \/ GenerateCode(c) \/ ExpireCode(c)
           \/ \E s \in Requests : Retry(s) \/ CancelSubscription(s) \/ RedirectPlan(s)
           \/ \E p \in Passes : PassStep(p)
           \/ Tick \/ TopUp \/ DeleteSubscriber \/ UNCHANGED subscriptionVars
  BY <1>4, OthersBuyNothing, CodeFrame
<1> QED BY <1>1, <1>2, <1>3, <1>4 DEF SubscriptionsStep

\* However many requests POST /activate gets with one code, it charges one of them.
THEOREM CodeChargesOneRequest == SubscriptionsSpec => []CodeChargesOnce
<1>1. InitSubscriptions => CodeInv
  BY DEF InitSubscriptions, CodeInv, BoughtWithCode
<1>2. SubscriptionsTypeOK /\ BillingInv /\ CodeInv /\ [SubscriptionsStep]_subscriptionVars
        => CodeInv'
  BY CodeStep
<1>3. CodeInv => CodeChargesOnce
  <2> SUFFICES ASSUME CodeInv, NEW c \in Codes
               PROVE  Cardinality({r \in Requests :
                        /\ Kind(r) = "activate" /\ CodeOf[r] = c
                        /\ ~ OnTrial(r) /\ sub[r] # "none"}) <= 1
    BY DEF CodeChargesOnce
  <2> DEFINE buyers == {r \in Requests : /\ Kind(r) = "activate" /\ CodeOf[r] = c
                                        /\ ~ OnTrial(r) /\ sub[r] # "none"}
  <2>1. \A q, r \in buyers : q = r
    BY DEF CodeInv, BoughtWithCode
  <2>2. buyers = {} \/ \E r : buyers = {r}
    BY <2>1
  <2> HIDE DEF buyers
  <2>3. Cardinality(buyers) = 0 \/ Cardinality(buyers) = 1
    BY <2>2, FS_EmptySet, FS_Singleton, Zenon
  <2>4. Cardinality(buyers) <= 1
    BY <2>3
  <2> QED BY <2>4 DEF buyers
<1> QED BY <1>1, <1>2, <1>3, BillingInvariant, PTL DEF SubscriptionsSpec

-----------------------------------------------------------------------------
(***************************************************************************)
(* WebhookDelivery                                                         *)
(***************************************************************************)

(***************************************************************************)
(* What is true of one stored event.  The count in the row is never more   *)
(* than what was posted, a row that still waits has an attempt left, and   *)
(* nothing touches a row that is not there yet.                            *)
(***************************************************************************)
EventInv(e) ==
  /\ attempts[e] <= posts[e]
  /\ delivered[e] => e \in received
  /\ next[e] # "none" => attempts[e] < MaxAttempts /\ stored[e] = "row"
  /\ stored[e] # "row" => attempts[e] = 0
  /\ next[e] = "none" /\ stored[e] = "row" /\ active =>
       delivered[e] \/ posts[e] = MaxAttempts

(***************************************************************************)
(* What a pass has in hand of an event: a count that was read while an     *)
(* attempt was left, however often the row was written since, and once it  *)
(* has posted, a post more than that count.                                *)
(***************************************************************************)
DeliveryInv(w, e) ==
  LET d == delivery[w][e]
  IN d.at # "none" =>
       /\ stored[e] = "row"
       /\ d.read < MaxAttempts /\ d.read <= posts[e]
       /\ d.at \in {"ok", "failed"} => d.read + 1 <= posts[e]
       /\ d.at = "ok" => e \in received
       /\ d.at = "disabled" => ~ active

WebhookInv ==
  /\ WebhookTypeOK
  /\ \A e \in Events : EventInv(e)
  /\ \A w \in Workers, e \in Events : DeliveryInv(w, e)

\* Nothing is stored when the server starts for the first time.
LEMMA WebhookStart == InitWebhooks => WebhookInv
  BY WebhookAssumption
  DEF InitWebhooks, WebhookInv, WebhookTypeOK, EventInv, DeliveryInv, NoDelivery

\* A step of an event that leaves the passes alone.
LEMMA RowSteps ==
  ASSUME WebhookInv, NEW e \in Events,
         LookUpEndpoints(e) \/ EnqueueWebhook(e) \/ Replay(e) \/ RetryDue(e)
  PROVE  WebhookInv'
<1> USE WebhookAssumption DEF WebhookInv
<1>1. CASE LookUpEndpoints(e)
  BY <1>1 DEF LookUpEndpoints, WebhookTypeOK, EventInv, DeliveryInv
<1>2. CASE EnqueueWebhook(e)
  BY <1>2 DEF EnqueueWebhook, WebhookTypeOK, EventInv, DeliveryInv
<1>3. CASE Replay(e)
  BY <1>3 DEF Replay, WebhookTypeOK, EventInv, DeliveryInv
<1>4. CASE RetryDue(e)
  BY <1>4 DEF RetryDue, WebhookTypeOK, EventInv, DeliveryInv
<1> QED BY <1>1, <1>2, <1>3, <1>4

\* The endpoint goes: every row of it may be given up.
LEMMA EndpointGone == ASSUME WebhookInv, DisableEndpoint PROVE WebhookInv'
  BY DEF WebhookInv, DisableEndpoint, WebhookTypeOK, EventInv, DeliveryInv

\* A restart forgets the passes and what was about to be inserted.
LEMMA WebhookRestart == ASSUME WebhookInv, Halt PROVE WebhookInv'
<1> USE WebhookAssumption DEF WebhookInv, Halt, NoDelivery
<1>1. WebhookTypeOK' BY DEF WebhookTypeOK
<1>2. \A e \in Events : EventInv(e)' BY DEF WebhookTypeOK, EventInv
<1>3. \A w \in Workers, e \in Events : DeliveryInv(w, e)' BY DEF DeliveryInv
<1> QED BY <1>1, <1>2, <1>3

\* A pass selects: what it reads is the count of a row with an attempt left.
LEMMA Selection ==
  ASSUME WebhookInv, NEW w \in Workers, StartDelivery(w)
  PROVE  WebhookInv'
<1> USE WebhookAssumption DEF WebhookInv, StartDelivery, webhookRows
<1>1. WebhookTypeOK' BY DEF WebhookTypeOK, NoDelivery
<1>2. \A e \in Events : EventInv(e)' BY DEF WebhookTypeOK, EventInv
<1>3. ASSUME NEW v \in Workers, NEW e \in Events PROVE DeliveryInv(v, e)'
  <2>1. DeliveryInv(v, e) /\ EventInv(e) OBVIOUS
  <2>2. CASE v # w BY <2>1, <2>2 DEF DeliveryInv, WebhookTypeOK
  <2>3. CASE v = w
    BY <2>1, <2>3 DEF DeliveryInv, EventInv, WebhookTypeOK, DueEvents, NoDelivery
  <2> QED BY <2>2, <2>3
<1> QED BY <1>1, <1>2, <1>3

\* A step of a pass with one event: only what it has in hand of that event changes.
LEMMA OneDelivery ==
  ASSUME WebhookTypeOK, NEW w \in Workers, NEW e \in Events,
         NEW d \in [at : {"none", "selected", "post", "disabled", "ok", "failed"}, read : Nat],
         delivery' = [delivery EXCEPT ![w][e] = d]
  PROVE  /\ delivery' \in [Workers -> [Events ->
              [at : {"none", "selected", "post", "disabled", "ok", "failed"}, read : Nat]]]
         /\ delivery'[w][e] = d
         /\ \A v \in Workers, f \in Events :
              v # w \/ f # e => delivery'[v][f] = delivery[v][f]
  BY DEF WebhookTypeOK

LEMMA OneStage ==
  ASSUME WebhookTypeOK, NEW w \in Workers, NEW e \in Events,
         NEW at \in {"post", "disabled", "ok", "failed"}, Now(w, e, at)
  PROVE  /\ delivery' = [delivery EXCEPT ![w][e] = [at |-> at, read |-> delivery[w][e].read]]
         /\ [at |-> at, read |-> delivery[w][e].read] \in
              [at : {"none", "selected", "post", "disabled", "ok", "failed"}, read : Nat]
<1> DEFINE d == delivery[w][e]
<1>1. d \in [at : {"none", "selected", "post", "disabled", "ok", "failed"}, read : Nat]
  BY DEF WebhookTypeOK
<1>2. [d EXCEPT !.at = at] = [at |-> at, read |-> d.read]
  <2> HIDE DEF d
  <2> QED BY <1>1
<1>3. delivery' = [delivery EXCEPT ![w][e] = [d EXCEPT !.at = at]]
  BY DEF Now
<1> QED BY <1>1, <1>2, <1>3

LEMMA DeliverySteps ==
  ASSUME WebhookInv, NEW w \in Workers, NEW e \in Events,
         \/ FindEndpoint(w, e) \/ MarkDisabled(w, e) \/ WriteDelivery(w, e)
         \/ \E takes, answers \in BOOLEAN : Post(w, e, takes, answers)
  PROVE  WebhookInv'
<1> USE WebhookAssumption DEF WebhookInv, webhookRows
<1>1. DeliveryInv(w, e) /\ EventInv(e) OBVIOUS
<1>2. CASE FindEndpoint(w, e)
  <2> DEFINE at == IF active THEN "post" ELSE "disabled"
             d == [at |-> at, read |-> delivery[w][e].read]
  <2>1. at \in {"post", "disabled", "ok", "failed"} /\ Now(w, e, at)
    BY <1>2 DEF FindEndpoint
  <2>2. /\ delivery' = [delivery EXCEPT ![w][e] = d]
        /\ d \in [at : {"none", "selected", "post", "disabled", "ok", "failed"}, read : Nat]
    <3> HIDE DEF at
    <3> QED BY <2>1, OneStage
  <2> QED BY <1>1, <1>2, <2>2, OneDelivery
          DEF FindEndpoint, At, WebhookTypeOK, EventInv, DeliveryInv
<1>3. CASE MarkDisabled(w, e)
  <2>1. delivery' = [delivery EXCEPT ![w][e] = NoDelivery]
    BY <1>3 DEF MarkDisabled, Done
  <2>2. NoDelivery \in [at : {"none", "selected", "post", "disabled", "ok", "failed"}, read : Nat]
    BY DEF NoDelivery
  <2> QED BY <1>1, <1>3, <2>1, <2>2, OneDelivery
          DEF MarkDisabled, At, NoDelivery, WebhookTypeOK, EventInv, DeliveryInv
<1>4. CASE WriteDelivery(w, e)
  <2>1. delivery' = [delivery EXCEPT ![w][e] = NoDelivery]
    BY <1>4 DEF WriteDelivery, Done
  <2>2. NoDelivery \in [at : {"none", "selected", "post", "disabled", "ok", "failed"}, read : Nat]
    BY DEF NoDelivery
  <2> DEFINE count == delivery[w][e].read + 1
             ok == delivery[w][e].at = "ok"
  <2>3. /\ count \in 1 .. MaxAttempts /\ count <= posts[e] /\ stored[e] = "row"
        /\ ok \in BOOLEAN /\ (ok => e \in received)
    BY <1>1, <1>4 DEF WriteDelivery, At, WebhookTypeOK, DeliveryInv
  <2>4. /\ attempts' = [attempts EXCEPT ![e] = count]
        /\ delivered' = [delivered EXCEPT ![e] = ok]
        /\ next' = [next EXCEPT ![e] = IF ok \/ count >= MaxAttempts THEN "none" ELSE "later"]
        /\ UNCHANGED <<active, stored, posts, received, replays, halts>>
    BY <1>4 DEF WriteDelivery, At, NewCount, Exhausted
  <2>5. \A v \in Workers, f \in Events : DeliveryInv(v, f)'
    BY <2>1, <2>2, <2>4, OneDelivery DEF DeliveryInv, NoDelivery
  <2> HIDE DEF count, ok
  <2>6. WebhookTypeOK' BY <2>1, <2>2, <2>3, <2>4, OneDelivery DEF WebhookTypeOK
  <2>7. \A f \in Events : EventInv(f)'
    <3>1. CASE ok BY <2>3, <2>4, <3>1 DEF EventInv, WebhookTypeOK
    <3>2. CASE ~ ok
      <4>1. /\ attempts'[e] = count /\ delivered'[e] = FALSE /\ posts'[e] = posts[e]
            /\ next'[e] # "none" <=> count < MaxAttempts
        BY <2>3, <2>4, <3>2 DEF WebhookTypeOK
      <4>2. EventInv(e)'
        <5>1. posts[e] \in 0 .. MaxAttempts BY DEF WebhookTypeOK
        <5>2. count >= MaxAttempts => posts[e] = MaxAttempts BY <2>3, <5>1
        <5>3. stored'[e] = "row" BY <2>3, <2>4
        <5> QED BY <2>3, <4>1, <5>2, <5>3 DEF EventInv
      <4>3. \A f \in Events \ {e} : EventInv(f)' BY <2>4 DEF EventInv, WebhookTypeOK
      <4> QED BY <4>2, <4>3
    <3> QED BY <3>1, <3>2
  <2> QED BY <2>5, <2>6, <2>7
<1>5. ASSUME NEW takes \in BOOLEAN, NEW answers \in BOOLEAN, Post(w, e, takes, answers)
      PROVE  WebhookInv'
  <2> DEFINE at == IF answers THEN "ok" ELSE "failed"
             d == [at |-> at, read |-> delivery[w][e].read]
  <2>1. at \in {"post", "disabled", "ok", "failed"} /\ Now(w, e, at)
    BY <1>5 DEF Post
  <2>2. /\ delivery' = [delivery EXCEPT ![w][e] = d]
        /\ d \in [at : {"none", "selected", "post", "disabled", "ok", "failed"}, read : Nat]
    <3> HIDE DEF at
    <3> QED BY <2>1, OneStage
  <2> QED BY <1>1, <1>5, <2>2, OneDelivery, SMTT(20)
          DEF Post, At, WebhookTypeOK, EventInv, DeliveryInv
<1> QED BY <1>2, <1>3, <1>4, <1>5

\* Whatever the part does.
LEMMA WebhookNext == WebhookInv /\ [WebhookStep]_webhookVars => WebhookInv'
<1> SUFFICES ASSUME WebhookInv, [WebhookStep]_webhookVars PROVE WebhookInv'
  OBVIOUS
<1>1. CASE UNCHANGED webhookVars
  BY <1>1 DEF webhookVars, webhookRows, WebhookInv, WebhookTypeOK, EventInv, DeliveryInv
<1> QED BY <1>1, RowSteps, EndpointGone, WebhookRestart, Selection, DeliverySteps
        DEF WebhookStep, DeliveryStep

(***************************************************************************)
(* No row is given up early, for any schedule, any number of overlapping   *)
(* passes, replays and restarts: the count a pass writes back may be stale *)
(* and set the row back, and still it is never ahead of the posts.         *)
(***************************************************************************)
THEOREM NoneGivenUpEarly == WebhookSpec => []NotGivenUpEarly
<1>1. WebhookInv => NotGivenUpEarly
  BY DEF WebhookInv, EventInv, WebhookTypeOK, NotGivenUpEarly
<1> QED BY <1>1, WebhookStart, WebhookNext, PTL DEF WebhookSpec

-----------------------------------------------------------------------------
(***************************************************************************)
(* Plans                                                                   *)
(***************************************************************************)

\* A request between two statements: it has a price left to insert, and has inserted
\* that price's tier if it is about to insert the price; it has a row only later.
PublicationInv(p) ==
  /\ publication[p].at \in {"draw", "plan", "tier", "price"} => Len(Terms[p]) > 0
  /\ publication[p].at \in {"new", "draw", "plan"} =>
       merchant[p] = "none" /\ publication[p].done = 0
  /\ publication[p].at \in {"tier", "price"} => publication[p].done < Len(Terms[p])
  /\ publication[p].at = "price" => NextTerm(p).tier \in tiers[p] \cup {0}

\* A price is one that was asked for, and its tier is there.
PriceInv(price) ==
  /\ price[2] \in DOMAIN Terms[price[1]]
  /\ TierOf(price) \in tiers[price[1]] \cup {0}

\* A page has read prices of its own plan, and then the tiers of all of them.
PageInv(g) ==
  page[g].at # "closed" =>
    /\ page[g].plan \in Publications
    /\ \A price \in page[g].prices : price \in prices /\ price[1] = page[g].plan
    /\ page[g].at = "shown" =>
         \A price \in page[g].prices : TierOf(price) \in page[g].tiers \cup {0}

\* A code is for a price of the plan that its merchant id belongs to.
LockedInv(c) ==
  c.merchant # "none" /\ c.price \in prices /\ merchant[c.price[1]] = c.merchant

SoldInv(s) ==
  /\ s.merchant # "none"
  /\ \E p \in Publications :
       /\ merchant[p] = s.merchant
       /\ \E i \in DOMAIN Terms[p] : Terms[p][i].cycle = s.cycle /\ Terms[p][i].amount = s.amount

PlansInv ==
  /\ PlansTypeOK
  /\ \A p \in Publications : PublicationInv(p)
  /\ \A price \in prices : PriceInv(price)
  /\ \A g \in Pages : PageInv(g)
  /\ \A c \in locked : LockedInv(c)
  /\ \A s \in sold : SoldInv(s)

LEMMA PlansStart == InitPlans => PlansInv
  BY PlansAssumption
  DEF InitPlans, ClosedPage, PlansInv, PlansTypeOK, PublicationInv, PriceInv, PageInv,
      LockedInv, SoldInv

\* What only grows keeps every page, code and subscription as good as it was.
LEMMA GrowthKeeps ==
  ASSUME PlansInv, UNCHANGED <<page, locked, sold>>,
         prices \subseteq prices',
         \A p \in Publications : merchant[p] # "none" => merchant'[p] = merchant[p]
  PROVE  /\ \A g \in Pages : PageInv(g)'
         /\ \A c \in locked' : LockedInv(c)'
         /\ \A s \in sold' : SoldInv(s)'
<1>1. \A price \in prices : price[1] \in Publications
  BY DEF PlansInv, PlansTypeOK
<1> QED BY <1>1 DEF PlansInv, PageInv, LockedInv, SoldInv, TierOf, Term

\* The terms of a request, one by one.
LEMMA TermsTyped ==
  ASSUME NEW p \in Publications
  PROVE  /\ Len(Terms[p]) \in Nat /\ DOMAIN Terms[p] = 1 .. Len(Terms[p])
         /\ \A i \in 1 .. Len(Terms[p]) :
              Terms[p][i] \in [tier : Nat, cycle : Cycles, amount : Nat]
         /\ Terms[p] # <<>> => Len(Terms[p]) > 0
<1> DEFINE term == [tier : Nat, cycle : Cycles, amount : Nat]
           t == Terms[p]
<1>1. t \in Seq(term)
  BY PlansAssumption
<1> HIDE DEF term, t
<1>2. Len(t) \in Nat /\ DOMAIN t = 1 .. Len(t)
  BY <1>1
<1>3. \A i \in 1 .. Len(t) : t[i] \in term
  BY <1>1
<1>4. t # <<>> => Len(t) > 0
  BY <1>1
<1> QED BY <1>2, <1>3, <1>4 DEF t, term

\* The next step of a request, the rest of it as it was.
LEMMA Advanced ==
  ASSUME PlansTypeOK, NEW p \in Publications,
         NEW at \in {"new", "draw", "plan", "tier", "price", "over"}, Advance(p, at)
  PROVE  /\ publication' \in [Publications ->
              [at : {"new", "draw", "plan", "tier", "price", "over"},
               id : MerchantIds \cup {"none"}, done : Nat]]
         /\ publication'[p].at = at /\ publication'[p].done = publication[p].done
         /\ \A q \in Publications \ {p} : publication'[q] = publication[q]
  BY DEF PlansTypeOK, Advance

LEMMA PublishSteps ==
  ASSUME PlansInv, NEW p \in Publications,
         Publish(p) \/ InsertPlan(p) \/ BreakOff(p)
  PROVE  PlansInv'
<1>1. PlansTypeOK /\ PublicationInv(p)
  BY DEF PlansInv
<1>2. CASE Publish(p)
  <2> DEFINE at == IF Acceptable(Terms[p]) THEN "draw" ELSE "over"
  <2>1. at \in {"draw", "over"} /\ Advance(p, at) /\ (at = "draw" => Len(Terms[p]) > 0)
    BY <1>2, TermsTyped DEF Publish, Acceptable
  <2>2. UNCHANGED <<merchant, tiers, prices, breaks, page, locked, sold>>
        /\ publication[p].at = "new"
    BY <1>2 DEF Publish, planRows, UnchangedByPublisher
  <2> HIDE DEF at
  <2>3. PlansTypeOK'
    BY <1>1, <2>1, <2>2, Advanced DEF PlansTypeOK
  <2>4. \A q \in Publications : PublicationInv(q)'
    BY <1>1, <2>1, <2>2, Advanced DEF PlansInv, PublicationInv, NextTerm
  <2> QED BY <2>2, <2>3, <2>4, GrowthKeeps DEF PlansInv, PriceInv
<1>3. CASE InsertPlan(p)
  <2> DEFINE taken == \E q \in Publications : merchant[q] = publication[p].id
  <2>1. /\ UNCHANGED <<tiers, prices, breaks, page, locked, sold>> /\ publication[p].at = "plan"
        /\ taken => Advance(p, "over") /\ UNCHANGED merchant
        /\ ~ taken => /\ Advance(p, "tier")
                      /\ merchant' = [merchant EXCEPT ![p] = publication[p].id]
    BY <1>3 DEF InsertPlan, UnchangedByPublisher
  <2>2. PlansTypeOK'
    BY <1>1, <2>1, Advanced DEF PlansTypeOK
  <2>3. \A q \in Publications : PublicationInv(q)'
    <3>1. PublicationInv(p)'
      <4>1. CASE taken BY <1>1, <2>1, <4>1, Advanced DEF PublicationInv
      <4>2. CASE ~ taken
        <5>1. publication'[p].at = "tier" /\ publication'[p].done = 0 /\ Len(Terms[p]) > 0
          BY <1>1, <2>1, <4>2, Advanced DEF PublicationInv
        <5> QED BY <5>1 DEF PublicationInv
      <4> QED BY <4>1, <4>2
    <3>2. ASSUME NEW q \in Publications \ {p} PROVE PublicationInv(q)'
      <4>1. publication'[q] = publication[q] /\ merchant'[q] = merchant[q] /\ tiers'[q] = tiers[q]
        BY <1>1, <2>1, Advanced DEF PlansTypeOK
      <4> QED BY <4>1 DEF PlansInv, PublicationInv, NextTerm
    <3> QED BY <3>1, <3>2
  <2>4. \A q \in Publications : merchant[q] # "none" => merchant'[q] = merchant[q]
    BY <1>1, <2>1 DEF PublicationInv, PlansTypeOK
  <2> QED BY <2>1, <2>2, <2>3, <2>4, GrowthKeeps DEF PlansInv, PriceInv
<1>4. CASE BreakOff(p)
  <2>1. /\ UNCHANGED <<merchant, tiers, prices, page, locked, sold>> /\ Advance(p, "over")
        /\ breaks < MaxBreaks /\ breaks' = breaks + 1
        /\ publication[p].at \in {"draw", "plan", "tier", "price"}
    BY <1>4 DEF BreakOff, planRows, UnchangedByPublisher
  <2>2. PlansTypeOK'
    <3>1. breaks' \in 0 .. MaxBreaks BY <1>1, <2>1, PlansAssumption DEF PlansTypeOK
    <3> QED BY <1>1, <2>1, <3>1, Advanced DEF PlansTypeOK
  <2>3. \A q \in Publications : PublicationInv(q)'
    BY <1>1, <2>1, Advanced DEF PlansInv, PublicationInv, NextTerm
  <2> QED BY <2>1, <2>2, <2>3, GrowthKeeps DEF PlansInv, PriceInv
<1> QED BY <1>2, <1>3, <1>4

\* The id that is drawn is free; nothing else of the request changes.
LEMMA DrawSteps ==
  ASSUME PlansInv, NEW p \in Publications, NEW m \in MerchantIds, DrawMerchantId(p, m)
  PROVE  PlansInv'
<1>1. PlansTypeOK /\ PublicationInv(p)
  BY DEF PlansInv
<1>2. /\ UNCHANGED <<merchant, tiers, prices, breaks, page, locked, sold>>
      /\ publication[p].at = "draw"
      /\ publication' = [publication EXCEPT ![p].at = "plan", ![p].id = m]
  BY DEF DrawMerchantId, planRows, UnchangedByPublisher
<1>3. /\ publication' \in [Publications ->
           [at : {"new", "draw", "plan", "tier", "price", "over"},
            id : MerchantIds \cup {"none"}, done : Nat]]
      /\ publication'[p].at = "plan" /\ publication'[p].done = publication[p].done
      /\ \A q \in Publications \ {p} : publication'[q] = publication[q]
  BY <1>1, <1>2, ZenonT(60) DEF PlansTypeOK
<1>4. PlansTypeOK' BY <1>1, <1>2, <1>3 DEF PlansTypeOK
<1>5. \A q \in Publications : PublicationInv(q)'
  BY <1>1, <1>2, <1>3 DEF PlansInv, PublicationInv, NextTerm
<1> QED BY <1>2, <1>4, <1>5, GrowthKeeps DEF PlansInv, PriceInv

\* The tier goes in before the price of it.
LEMMA TierGoesIn ==
  ASSUME PlansInv, NEW p \in Publications, InsertTier(p)
  PROVE  PlansInv'
<1>1. PlansTypeOK /\ PublicationInv(p)
  BY DEF PlansInv
<1>2. /\ UNCHANGED <<merchant, prices, breaks, page, locked, sold>>
      /\ publication[p].at = "tier" /\ Advance(p, "price")
      /\ tiers' = [tiers EXCEPT ![p] = @ \cup ({NextTerm(p).tier} \ {0})]
  BY DEF InsertTier, UnchangedByPublisher
<1>3. NextTerm(p).tier \in Nat /\ NextTerm(p)' = NextTerm(p)
  BY <1>1, <1>2, TermsTyped, Advanced, SMTT(20) DEF PlansTypeOK, PublicationInv, NextTerm
<1>4. \A q \in Publications : tiers[q] \subseteq tiers'[q]
  BY <1>1, <1>2 DEF PlansTypeOK
<1>5. PlansTypeOK' BY <1>1, <1>2, <1>3, Advanced DEF PlansTypeOK
<1>6. \A q \in Publications : PublicationInv(q)'
  <2>1. PublicationInv(p)'
    BY <1>1, <1>2, <1>3, Advanced DEF PublicationInv, PlansTypeOK
  <2>2. \A q \in Publications \ {p} : PublicationInv(q)'
    BY <1>1, <1>2, <1>4, Advanced DEF PlansInv, PublicationInv, NextTerm
  <2> QED BY <2>1, <2>2
<1>7. \A price \in prices' : PriceInv(price)'
  <2>1. \A price \in prices : price[1] \in Publications
    BY <1>1 DEF PlansTypeOK
  <2> QED BY <1>2, <1>4, <2>1 DEF PlansInv, PriceInv, TierOf, Term
<1> QED BY <1>2, <1>5, <1>6, <1>7, GrowthKeeps DEF PlansInv

\* The price goes in behind its tier, and the request goes on or is over.
LEMMA PriceGoesIn ==
  ASSUME PlansInv, NEW p \in Publications, InsertPrice(p)
  PROVE  PlansInv'
<1> DEFINE n == publication[p].done + 1
           at == IF n = Len(Terms[p]) THEN "over" ELSE "tier"
<1>1. PlansTypeOK /\ PublicationInv(p)
  BY DEF PlansInv
<1>2. /\ UNCHANGED <<merchant, tiers, breaks, page, locked, sold>>
      /\ publication[p].at = "price"
      /\ prices' = prices \cup {<<p, n>>}
      /\ publication' = [publication EXCEPT ![p].done = @ + 1, ![p].at = at]
  BY DEF InsertPrice, UnchangedByPublisher
<1>3. n \in Nat /\ n \in 1 .. Len(Terms[p]) /\ NextTerm(p) = Terms[p][n]
  BY <1>1, <1>2, TermsTyped DEF PlansTypeOK, PublicationInv, NextTerm
<1>4. at \in {"tier", "over"} /\ (at = "tier" => n < Len(Terms[p]))
  BY <1>3, TermsTyped
<1>5. /\ publication' \in [Publications ->
           [at : {"new", "draw", "plan", "tier", "price", "over"},
            id : MerchantIds \cup {"none"}, done : Nat]]
      /\ publication'[p].at = at /\ publication'[p].done = n
      /\ \A q \in Publications \ {p} : publication'[q] = publication[q]
  <2> HIDE DEF at
  <2> QED BY <1>1, <1>2, <1>4 DEF PlansTypeOK
<1> HIDE DEF at
<1>6. PlansTypeOK' BY <1>1, <1>2, <1>3, <1>5 DEF PlansTypeOK
<1>7. \A q \in Publications : PublicationInv(q)'
  BY <1>1, <1>2, <1>4, <1>5 DEF PlansInv, PublicationInv, NextTerm
<1>8. \A price \in prices' : PriceInv(price)'
  <2>1. PICK m \in DOMAIN Terms[p] : m = n
    BY <1>3, TermsTyped
  <2>2. Terms[p][m].tier \in tiers[p] \cup {0}
    BY <1>1, <1>2, <1>3, <2>1 DEF PublicationInv
  <2>3. prices' = prices \cup {<<p, m>>}
    BY <1>2, <2>1
  <2>4. PriceInv(<<p, m>>)'
    BY <1>2, <2>2 DEF PriceInv, TierOf, Term
  <2>5. \A price \in prices : PriceInv(price)'
    BY <1>2 DEF PlansInv, PriceInv, TierOf, Term
  <2> QED BY <2>3, <2>4, <2>5
<1> QED BY <1>2, <1>6, <1>7, <1>8, GrowthKeeps DEF PlansInv

PageType == [at : {"closed", "first", "then", "shown"}, plan : Publications \cup {"none"},
             prices : SUBSET prices, tiers : SUBSET Nat]

\* What a page has read, and then its next step.
LEMMA PageReads ==
  ASSUME NEW d \in PageType, NEW at \in {"closed", "first", "then", "shown"},
         NEW e \in PageType, e.plan = d.plan
  PROVE  LET r == [e EXCEPT !.at = at]
         IN /\ r \in PageType
            /\ r.at = at /\ r.plan = d.plan /\ r.prices = e.prices /\ r.tiers = e.tiers
<1> DEFINE r == [e EXCEPT !.at = at]
<1>1. r \in PageType BY Zenon DEF PageType
<1>2. r.at = at BY Zenon DEF PageType
<1>3. r.plan = e.plan BY Zenon DEF PageType
<1>4. r.prices = e.prices BY Zenon DEF PageType
<1>5. r.tiers = e.tiers BY Zenon DEF PageType
<1> QED BY <1>1, <1>2, <1>3, <1>4, <1>5

LEMMA PricesRead ==
  ASSUME NEW d \in PageType, NEW p \in SUBSET prices
  PROVE  LET e == [d EXCEPT !.prices = p]
         IN e \in PageType /\ e.plan = d.plan /\ e.prices = p /\ e.tiers = d.tiers
<1> DEFINE e == [d EXCEPT !.prices = p]
<1>1. e \in PageType BY Zenon DEF PageType
<1>2. e.plan = d.plan BY Zenon DEF PageType
<1>3. e.prices = p BY Zenon DEF PageType
<1>4. e.tiers = d.tiers BY Zenon DEF PageType
<1> QED BY <1>1, <1>2, <1>3, <1>4

LEMMA TiersRead ==
  ASSUME NEW d \in PageType, NEW t \in SUBSET Nat
  PROVE  LET e == [d EXCEPT !.tiers = t]
         IN e \in PageType /\ e.plan = d.plan /\ e.prices = d.prices /\ e.tiers = t
<1> DEFINE e == [d EXCEPT !.tiers = t]
<1>1. e \in PageType BY Zenon DEF PageType
<1>2. e.plan = d.plan BY Zenon DEF PageType
<1>3. e.prices = d.prices BY Zenon DEF PageType
<1>4. e.tiers = t BY Zenon DEF PageType
<1> QED BY <1>1, <1>2, <1>3, <1>4

\* Whatever a page makes of itself, nothing else is touched.
LEMMA PageTurns ==
  ASSUME PlansInv, NEW g \in Pages,
         UNCHANGED <<publication, merchant, tiers, prices, locked, sold, breaks>>,
         NEW r \in PageType,
         page' = [page EXCEPT ![g] = r],
         r.at # "closed" =>
           /\ r.plan \in Publications
           /\ \A price \in r.prices : price[1] = r.plan
           /\ r.at = "shown" => \A price \in r.prices : TierOf(price) \in r.tiers \cup {0}
  PROVE  PlansInv'
<1>1. PlansTypeOK' BY DEF PlansInv, PlansTypeOK, PageType
<1>2. /\ \A p \in Publications : PublicationInv(p)'
      /\ \A price \in prices' : PriceInv(price)'
      /\ \A c \in locked' : LockedInv(c)'
      /\ \A s \in sold' : SoldInv(s)'
  BY DEF PlansInv, PublicationInv, NextTerm, PriceInv, LockedInv, SoldInv
<1>3. /\ page'[g] = r
      /\ \A h \in Pages \ {g} : page'[h] = page[h]
  BY DEF PlansInv, PlansTypeOK
<1>4. PageInv(g)' BY <1>3 DEF PageInv, PageType, TierOf, Term
<1>5. \A h \in Pages \ {g} : PageInv(h)' BY <1>3 DEF PlansInv, PageInv, TierOf, Term
<1> QED BY <1>1, <1>2, <1>4, <1>5 DEF PlansInv

\* A page: its prices are read first, so the tiers it reads then hold theirs.
LEMMA PageSteps ==
  ASSUME PlansInv, NEW g \in Pages, PageStep(g)
  PROVE  PlansInv'
<1>1. /\ PlansTypeOK /\ PageInv(g)
      /\ page \in [Pages -> PageType] /\ page[g] \in PageType
  BY DEF PlansInv, PlansTypeOK, PageType
<1>2. UNCHANGED <<publication, merchant, tiers, prices, locked, sold, breaks>>
  BY DEF PageStep, OpenPage, ReadPrices, ReadTiers, ClosePage, UnchangedByPage, planRows
<1> DEFINE d == page[g]
<1>3. ASSUME NEW p \in Publications, OpenPage(g, p) PROVE PlansInv'
  <2> DEFINE opened == [ClosedPage EXCEPT !.at = "first"]
             r == [at |-> "first", plan |-> p, prices |-> {}, tiers |-> {}]
  <2>1. opened = [at |-> "first", plan |-> "none", prices |-> {}, tiers |-> {}]
    BY DEF ClosedPage
  <2>2. [ClosedPage EXCEPT !.at = "first", !.plan = p] = [opened EXCEPT !.plan = p]
    OBVIOUS
  <2>3. page' = [page EXCEPT ![g] = [ClosedPage EXCEPT !.at = "first", !.plan = p]]
    BY <1>3 DEF OpenPage
  <2>4. [ClosedPage EXCEPT !.at = "first", !.plan = p] = r
    <3> HIDE DEF opened
    <3> QED BY <2>1, <2>2
  <2>5. page' = [page EXCEPT ![g] = r]
    BY <2>3, <2>4
  <2> QED BY <1>2, <2>5, PageTurns DEF PageType
<1>4. CASE ReadPrices(g)
  <2> DEFINE p == PricesOf(d.plan)
             e == [d EXCEPT !.prices = p]
             r == [e EXCEPT !.at = "then"]
  <2>1. d.at = "first" /\ page' = [page EXCEPT ![g].prices = p, ![g].at = "then"]
    BY <1>4 DEF ReadPrices, ReadsFirst
  <2>2. p \subseteq prices /\ \A price \in p : price[1] = d.plan
    BY DEF PricesOf
  <2>3. page' = [page EXCEPT ![g] = r]
    <3>1. [page EXCEPT ![g].prices = p, ![g].at = "then"]
            = [[page EXCEPT ![g].prices = p] EXCEPT ![g].at = "then"]
      OBVIOUS
    <3> HIDE DEF p
    <3> QED BY <1>1, <2>1, <3>1
  <2> HIDE DEF p
  <2>4. e \in PageType /\ e.plan = d.plan /\ e.prices = p
    BY <1>1, <2>2, PricesRead
  <2> HIDE DEF e
  <2>5. r \in PageType /\ r.at = "then" /\ r.plan = d.plan /\ r.prices = p
    BY <1>1, <2>4, PageReads
  <2>6. d.plan \in Publications
    BY <1>1, <2>1 DEF PageInv
  <2> HIDE DEF d, r
  <2> QED BY <1>2, <2>2, <2>3, <2>5, <2>6, PageTurns
<1>5. CASE ReadTiers(g)
  <2> DEFINE t == tiers[d.plan]
             e == [d EXCEPT !.tiers = t]
             r == [e EXCEPT !.at = "shown"]
  <2>1. d.at = "then" /\ page' = [page EXCEPT ![g].tiers = t, ![g].at = "shown"]
    BY <1>1, <1>5 DEF ReadTiers, ReadsFirst, PageType
  <2>2. /\ d.plan \in Publications /\ t \in SUBSET Nat
        /\ \A price \in d.prices : price[1] = d.plan /\ TierOf(price) \in t \cup {0}
    BY <1>1, <2>1 DEF PlansInv, PlansTypeOK, PageInv, PriceInv
  <2>3. page' = [page EXCEPT ![g] = r]
    <3>1. [page EXCEPT ![g].tiers = t, ![g].at = "shown"]
            = [[page EXCEPT ![g].tiers = t] EXCEPT ![g].at = "shown"]
      OBVIOUS
    <3> HIDE DEF t
    <3> QED BY <1>1, <2>1, <3>1
  <2> HIDE DEF t
  <2>4. e \in PageType /\ e.plan = d.plan /\ e.prices = d.prices /\ e.tiers = t
    BY <1>1, <2>2, TiersRead
  <2> HIDE DEF e
  <2>5. r \in PageType /\ r.at = "shown" /\ r.plan = d.plan /\ r.prices = d.prices /\ r.tiers = t
    BY <1>1, <2>4, PageReads
  <2> HIDE DEF d, r
  <2> QED BY <1>2, <2>2, <2>3, <2>5, PageTurns
<1>6. CASE ClosePage(g)
  <2>1. page' = [page EXCEPT ![g] = [at |-> "closed", plan |-> "none", prices |-> {}, tiers |-> {}]]
    BY <1>6 DEF ClosePage, ClosedPage
  <2> QED BY <1>2, <2>1, PageTurns DEF PageType
<1> QED BY <1>3, <1>4, <1>5, <1>6 DEF PageStep

\* What is locked or sold is of the plan that the merchant id belongs to.
LEMMA SaleSteps ==
  ASSUME PlansInv,
         \/ \E p \in Publications, price \in prices : SellByNumber(p, price) \/ LockPrice(p, price)
         \/ \E p \in Publications, cycle \in Cycles : SellByCycle(p, cycle)
         \/ \E c \in locked : Redeem(c)
  PROVE  PlansInv'
<1> USE DEF UnchangedBySale, planRows
<1>1. ASSUME NEW p \in Publications, NEW price \in prices, price[1] = p, merchant[p] # "none"
      PROVE  /\ Sale(merchant[p], price) \in [merchant : MerchantIds, cycle : Cycles, amount : Nat]
             /\ SoldInv(Sale(merchant[p], price))
  <2>1. price[2] \in 1 .. Len(Terms[p]) /\ Term(price) = Terms[p][price[2]]
    BY <1>1, TermsTyped DEF PlansInv, PriceInv, Term
  <2>2. Term(price) \in [tier : Nat, cycle : Cycles, amount : Nat]
    BY <2>1, TermsTyped
  <2>3. merchant[p] \in MerchantIds BY <1>1 DEF PlansInv, PlansTypeOK
  <2> QED BY <1>1, <2>1, <2>2, <2>3, TermsTyped DEF Sale, SoldInv
<1>2. ASSUME NEW p \in Publications, NEW price \in prices, price[1] = p, merchant[p] # "none",
             sold' = sold \cup {Sale(merchant[p], price)},
             UNCHANGED <<publication, planRows, page, breaks, locked>>
      PROVE  PlansInv'
  <2>1. PlansTypeOK' BY <1>1, <1>2 DEF PlansInv, PlansTypeOK
  <2>2. \A s \in sold' : SoldInv(s)'
    <3>1. \A s \in sold' : SoldInv(s) BY <1>1, <1>2 DEF PlansInv
    <3> QED BY <1>2, <3>1 DEF SoldInv
  <2> QED BY <1>2, <2>1, <2>2
          DEF PlansInv, PublicationInv, NextTerm, PriceInv, PageInv, LockedInv, TierOf, Term
<1>3. ASSUME NEW p \in Publications, NEW price \in prices, SellByNumber(p, price)
      PROVE  PlansInv'
  BY <1>2, <1>3 DEF SellByNumber, OfPlan
<1>4. ASSUME NEW p \in Publications, NEW price \in prices, LockPrice(p, price)
      PROVE  PlansInv'
  <2> DEFINE c == [merchant |-> merchant[p], price |-> price]
  <2>1. /\ price[1] = p /\ merchant[p] # "none" /\ locked' = locked \cup {c}
        /\ UNCHANGED <<publication, merchant, tiers, prices, page, breaks, sold>>
    BY <1>4 DEF LockPrice, OfPlan
  <2>2. PlansTypeOK' BY <2>1 DEF PlansInv, PlansTypeOK
  <2>3. \A d \in locked' : LockedInv(d)'
    BY <2>1 DEF PlansInv, LockedInv
  <2> QED BY <2>1, <2>2, <2>3
          DEF PlansInv, PublicationInv, NextTerm, PriceInv, PageInv, SoldInv, TierOf, Term
<1>5. ASSUME NEW p \in Publications, NEW cycle \in Cycles, SellByCycle(p, cycle)
      PROVE  PlansInv'
  <2>1. PICK price \in PricesOf(p) : sold' = sold \cup {Sale(merchant[p], price)}
    BY <1>5 DEF SellByCycle
  <2> QED BY <1>2, <1>5, <2>1 DEF SellByCycle, PricesOf
<1>6. ASSUME NEW c \in locked, Redeem(c) PROVE PlansInv'
  <2>1. /\ c.price \in prices /\ c.price[1] \in Publications
        /\ merchant[c.price[1]] = c.merchant /\ c.merchant # "none"
    BY DEF PlansInv, PlansTypeOK, LockedInv
  <2> QED BY <1>2, <1>6, <2>1 DEF Redeem
<1> QED BY <1>3, <1>4, <1>5, <1>6

LEMMA PlansNext == PlansInv /\ [PlansStep]_plansVars => PlansInv'
<1> SUFFICES ASSUME PlansInv, [PlansStep]_plansVars PROVE PlansInv'
  OBVIOUS
<1>1. CASE UNCHANGED plansVars
  BY <1>1 DEF plansVars, planRows, PlansInv, PlansTypeOK, PublicationInv, NextTerm, PriceInv,
              PageInv, LockedInv, SoldInv, TierOf, Term
<1> QED BY <1>1, PublishSteps, DrawSteps, TierGoesIn, PriceGoesIn, PageSteps, SaleSteps
        DEF PlansStep, PublishStep

(***************************************************************************)
(* What is shown of a plan and what is sold of it stay one, for any number *)
(* of plans, prices and pages, also of plans that were left half inserted  *)
(* and of ids that two creators drew.                                      *)
(***************************************************************************)
THEOREM PlansStayOne == PlansSpec => []ShownAndSold
<1>1. PlansInv => ShownAndSold
  <2>1. PlansInv => TiersShown
    BY DEF PlansInv, PlansTypeOK, PageInv, TiersShown
  <2>2. PlansInv => SoldAsPublished
    BY DEF PlansInv, SoldInv, SoldAsPublished
  <2> QED BY <2>1, <2>2 DEF ShownAndSold
<1> QED BY <1>1, PlansStart, PlansNext, PTL DEF PlansSpec
=============================================================================
