--------------------------------- MODULE Plans ---------------------------------
(***************************************************************************)
(* Subscription plans: a creator or a developer publishes one, statement   *)
(* after statement and without a transaction; meanwhile checkout pages     *)
(* read it, query after query, and subscriptions are sold.                 *)
(***************************************************************************)
EXTENDS Naturals, Sequences

CONSTANTS
  Publications, \* requests to publish a plan
  Terms,        \* the prices each asks for, in order: tier (0 for none), cycle, amount
  MerchantIds,  \* that may be drawn
  Pages,        \* checkout pages
  MaxBreaks     \* bound: requests that end in an error or a restart

Cycles == {"weekly", "monthly", "yearly"}

ASSUME PlansAssumption ==
  /\ Terms \in [Publications -> Seq([tier : Nat, cycle : Cycles, amount : Nat])]
  /\ MaxBreaks \in Nat

VARIABLES
  publication, \* each request: its next step, its merchant id, how many prices are inserted
  merchant,    \* subscription_plans: the merchant id of each plan, "none" without a row
  tiers,       \* subscription_plan_tiers of each plan
  prices,      \* subscription_intervals: <<plan, number>>
  page,        \* each page: the plan, what it has read
  locked,      \* confirmation codes: the merchant id and the price they are for
  sold,        \* subscriptions: merchant id, cycle, amount
  breaks

planRows == <<merchant, tiers, prices>>
plansVars == <<publication, planRows, page, locked, sold, breaks>>

ClosedPage == [at |-> "closed", plan |-> "none", prices |-> {}, tiers |-> {}]

InitPlans ==
  /\ publication = [p \in Publications |-> [at |-> "new", id |-> "none", done |-> 0]]
  /\ merchant = [p \in Publications |-> "none"]
  /\ tiers = [p \in Publications |-> {}]
  /\ prices = {}
  /\ page = [g \in Pages |-> ClosedPage]
  /\ locked = {}
  /\ sold = {}
  /\ breaks = 0

Term(price) == Terms[price[1]][price[2]]
TierOf(price) == Term(price).tier
PricesOf(p) == {price \in prices : price[1] = p}

-----------------------------------------------------------------------------
(***************************************************************************)
(* POST /subscriptions/plans and POST /v1/plans.                           *)
(***************************************************************************)
Advance(p, at) == publication' = [publication EXCEPT ![p].at = at]

UnchangedByPublisher == UNCHANGED <<page, locked, sold>>

\* The validation: at least one price, all positive, at most five tiers.
Acceptable(terms) ==
  /\ terms # <<>>
  /\ \A i \in DOMAIN terms : terms[i].amount > 0
  /\ \A i \in DOMAIN terms : terms[i].tier <= 5

Publish(p) ==
  /\ publication[p].at = "new"
  /\ Advance(p, IF Acceptable(Terms[p]) THEN "draw" ELSE "over")
  /\ UNCHANGED <<planRows, breaks>> /\ UnchangedByPublisher

\* A drawn id that is taken is drawn again.
DrawMerchantId(p, m) ==
  /\ publication[p].at = "draw"
  /\ \A q \in Publications : merchant[q] # m
  /\ publication' = [publication EXCEPT ![p].at = "plan", ![p].id = m]
  /\ UNCHANGED <<planRows, breaks>> /\ UnchangedByPublisher

\* The column is unique: who drew the same id and is late gets an error.
InsertPlan(p) ==
  /\ publication[p].at = "plan"
  /\ IF \E q \in Publications : merchant[q] = publication[p].id
       THEN Advance(p, "over") /\ UNCHANGED merchant
       ELSE Advance(p, "tier") /\ merchant' = [merchant EXCEPT ![p] = publication[p].id]
  /\ UNCHANGED <<tiers, prices, breaks>> /\ UnchangedByPublisher

NextTerm(p) == Terms[p][publication[p].done + 1]

\* A tier comes before its first price.
InsertTier(p) ==
  /\ publication[p].at = "tier"
  /\ tiers' = [tiers EXCEPT ![p] = @ \cup ({NextTerm(p).tier} \ {0})]
  /\ Advance(p, "price")
  /\ UNCHANGED <<merchant, prices, breaks>> /\ UnchangedByPublisher

InsertPrice(p) ==
  /\ publication[p].at = "price"
  /\ prices' = prices \cup {<<p, publication[p].done + 1>>}
  /\ publication' = [publication EXCEPT ![p].done = @ + 1,
       ![p].at = IF publication[p].done + 1 = Len(Terms[p]) THEN "over" ELSE "tier"]
  /\ UNCHANGED <<merchant, tiers, breaks>> /\ UnchangedByPublisher

\* An error or a restart: what is inserted stays.
BreakOff(p) ==
  /\ publication[p].at \in {"draw", "plan", "tier", "price"}
  /\ breaks < MaxBreaks /\ breaks' = breaks + 1
  /\ Advance(p, "over")
  /\ UNCHANGED planRows /\ UnchangedByPublisher

PublishStep(p) ==
  \/ Publish(p) \/ InsertPlan(p) \/ InsertTier(p) \/ InsertPrice(p) \/ BreakOff(p)
  \/ \E m \in MerchantIds : DrawMerchantId(p, m)

-----------------------------------------------------------------------------
(***************************************************************************)
(* GET /subscriptions/merchant/:merchantId and the page that shows it.     *)
(***************************************************************************)
UnchangedByPage == UNCHANGED <<publication, planRows, locked, sold, breaks>>

OpenPage(g, p) ==
  /\ page[g] = ClosedPage
  /\ merchant[p] # "none"
  /\ page' = [page EXCEPT ![g] = [ClosedPage EXCEPT !.at = "first", !.plan = p]]
  /\ UnchangedByPage

\* Mutant of ReadsFirst: the tiers are read before the prices.
TiersFirst(at) == at = "then"

ReadsFirst(at) == at = "first"

ReadPrices(g) ==
  /\ page[g].at \in {"first", "then"} /\ ReadsFirst(page[g].at)
  /\ page' = [page EXCEPT ![g].prices = PricesOf(page[g].plan),
       ![g].at = IF page[g].at = "first" THEN "then" ELSE "shown"]
  /\ UnchangedByPage

ReadTiers(g) ==
  /\ page[g].at \in {"first", "then"} /\ ~ ReadsFirst(page[g].at)
  /\ page' = [page EXCEPT ![g].tiers = tiers[page[g].plan],
       ![g].at = IF page[g].at = "first" THEN "then" ELSE "shown"]
  /\ UnchangedByPage

ClosePage(g) ==
  /\ page[g].at = "shown"
  /\ page' = [page EXCEPT ![g] = ClosedPage]
  /\ UnchangedByPage

PageStep(g) ==
  \/ \E p \in Publications : OpenPage(g, p)
  \/ ReadPrices(g) \/ ReadTiers(g) \/ ClosePage(g)

-----------------------------------------------------------------------------
(***************************************************************************)
(* Subscriptions sold.  A request names a merchant id and a price, by its  *)
(* number or by its cycle; it may come from a page, an old link or a       *)
(* developer's program.                                                    *)
(***************************************************************************)
OfPlan(price, p) == price[1] = p

Sale(m, price) == [merchant |-> m, cycle |-> Term(price).cycle, amount |-> Term(price).amount]

UnchangedBySale == UNCHANGED <<publication, planRows, page, breaks>>

\* resolveInterval by number and startSubscription.
SellByNumber(p, price) ==
  /\ merchant[p] # "none" /\ price \in prices
  /\ OfPlan(price, p)
  /\ sold' = sold \cup {Sale(merchant[p], price)}
  /\ UNCHANGED locked /\ UnchangedBySale

\* By cycle: one of the rows with it, whichever comes first.
SellByCycle(p, cycle) ==
  /\ merchant[p] # "none"
  /\ \E price \in PricesOf(p) :
       /\ Term(price).cycle = cycle
       /\ sold' = sold \cup {Sale(merchant[p], price)}
  /\ UNCHANGED locked /\ UnchangedBySale

\* POST /confirmation-code/generate writes down merchant id and price.
LockPrice(p, price) ==
  /\ merchant[p] # "none" /\ price \in prices
  /\ OfPlan(price, p)
  /\ locked' = locked \cup {[merchant |-> merchant[p], price |-> price]}
  /\ UNCHANGED sold /\ UnchangedBySale

\* POST /activate, with the merchant id and the cycle of the code.
Redeem(code) ==
  /\ code \in locked
  /\ sold' = sold \cup {Sale(code.merchant, code.price)}
  /\ UNCHANGED locked /\ UnchangedBySale

PlansStep ==
  \/ \E p \in Publications : PublishStep(p)
  \/ \E g \in Pages : PageStep(g)
  \/ \E p \in Publications, price \in prices : SellByNumber(p, price) \/ LockPrice(p, price)
  \/ \E p \in Publications, cycle \in Cycles : SellByCycle(p, cycle)
  \/ \E code \in locked : Redeem(code)

PlansSpec == InitPlans /\ [][PlansStep]_plansVars

-----------------------------------------------------------------------------
(***************************************************************************)
(* Properties.                                                             *)
(***************************************************************************)

\* Types.
PlansTypeOK ==
  /\ publication \in [Publications ->
       [at : {"new", "draw", "plan", "tier", "price", "over"},
        id : MerchantIds \cup {"none"}, done : Nat]]
  /\ merchant \in [Publications -> MerchantIds \cup {"none"}]
  /\ tiers \in [Publications -> SUBSET Nat]
  /\ prices \subseteq Publications \X Nat
  /\ page \in [Pages -> [at : {"closed", "first", "then", "shown"},
       plan : Publications \cup {"none"}, prices : SUBSET prices, tiers : SUBSET Nat]]
  /\ locked \subseteq [merchant : MerchantIds, price : prices]
  /\ sold \subseteq [merchant : MerchantIds, cycle : Cycles, amount : Nat]
  /\ breaks \in 0 .. MaxBreaks

\* Whatever a page reads of a plan that is just being inserted, or never was to the
\* end: a price of a tier is not shown without its tier, as if the plan had none.
TiersShown ==
  \A g \in Pages : page[g].at = "shown" =>
    \A price \in page[g].prices : TierOf(price) = 0 \/ TierOf(price) \in page[g].tiers

\* Whoever holds a merchant id in the end, no one pays under it what somebody else
\* published: every subscription has a cycle and an amount that its creator asked for.
SoldAsPublished ==
  \A s \in sold : \E p \in Publications :
    /\ merchant[p] = s.merchant
    /\ \E i \in DOMAIN Terms[p] : Terms[p][i].cycle = s.cycle /\ Terms[p][i].amount = s.amount

\* The two together: what is shown of a plan and what is sold of it stay one.
ShownAndSold == TiersShown /\ SoldAsPublished
=============================================================================
