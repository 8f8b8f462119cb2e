----------------------------- MODULE Crediting -----------------------------
(***************************************************************************)
(* What a deposit on a chain promises to the user: once it has arrived for *)
(* good it is credited, and never twice.  Deposits implements this.        *)
(***************************************************************************)
EXTENDS Naturals

CONSTANT Transactions   \* inbound transactions

VARIABLES
  arrived,   \* those that are final on their chain
  credits    \* how often each was credited

vars == <<arrived, credits>>

Init ==
  /\ arrived = {}
  /\ credits = [t \in Transactions |-> 0]

Arrive(t) ==
  /\ t \notin arrived
  /\ arrived' = arrived \cup {t}
  /\ UNCHANGED credits

Credit(t) ==
  /\ t \in arrived
  /\ credits[t] = 0
  /\ credits' = [credits EXCEPT ![t] = 1]
  /\ UNCHANGED arrived

Next == \E t \in Transactions : Arrive(t) \/ Credit(t)

SafeSpec == Init /\ [][Next]_vars
Spec == SafeSpec /\ \A t \in Transactions : WF_vars(Credit(t))
=============================================================================
