----------------------------- MODULE Settlement -----------------------------
(***************************************************************************)
(* What a withdrawal promises to the user's account, whatever route the    *)
(* money takes: the gross amount is taken from the balance once, and then  *)
(* either reaches its destination or is given back in full - one of the    *)
(* two, once, for ever.  Withdrawals implements this specification.        *)
(***************************************************************************)
EXTENDS Naturals

CONSTANTS
  Withdrawals,   \* withdrawal requests of one user
  Amount,        \* gross amount of each request
  MaxBalance     \* bound on the balance the user starts with

VARIABLES
  balance,       \* the user's claimed balance
  outcome        \* "none", "held", "paid" or "returned", per request

vars == <<balance, outcome>>

Init ==
  /\ balance \in 0 .. MaxBalance
  /\ outcome = [w \in Withdrawals |-> "none"]

Settle(w, from, to) ==
  /\ outcome[w] = from
  /\ outcome' = [outcome EXCEPT ![w] = to]

\* The gross amount leaves the balance, which covers it.
Take(w) ==
  /\ balance >= Amount[w]
  /\ Settle(w, "none", "held")
  /\ balance' = balance - Amount[w]

\* The money reaches the destination.
Pay(w) ==
  /\ Settle(w, "held", "paid")
  /\ UNCHANGED balance

\* The gross amount goes back to the balance.
Return(w) ==
  /\ Settle(w, "held", "returned")
  /\ balance' = balance + Amount[w]

Next == \E w \in Withdrawals : Take(w) \/ Pay(w) \/ Return(w)

Spec == Init /\ [][Next]_vars
=============================================================================
