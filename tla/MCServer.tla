------------------------------ MODULE MCServer ------------------------------
EXTENDS Server, MCSubscriptions, MCPollWindow, MCBurns

CONSTANTS
  v1, v2, o1, o2,  \* requests and codes of OneTimeCodes
  p1, p2,          \* publications of Plans
  q1, q2, q3       \* requests of WireAccounts

\* Two requests that may present the same code.
TwoPresent == v1 :> {o1} @@ v2 :> {o1, Nothing}

\* A plan of two tiers and a plain one.
TwoPlans ==
  p1 :> <<[tier |-> 1, cycle |-> "monthly", amount |-> 2],
          [tier |-> 2, cycle |-> "monthly", amount |-> 3]>> @@
  p2 :> <<[tier |-> 0, cycle |-> "weekly", amount |-> 1]>>

\* A second block that is longer than the first.
Escalating == <<1, 2>>

\* Two first requests of one user, and one of another.
TwoUsers == q1 :> ann @@ q2 :> ann @@ q3 :> bob

\* Two tables, two pages.
TwoTables == <<"deposits", "escrows", "deposits", "escrows">>
=============================================================================
