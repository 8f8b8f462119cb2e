------------------------------ MODULE Balances ------------------------------
(***************************************************************************)
(* The balances of the users and the ledger's helpers on them: every       *)
(* change is one SQL increment or decrement of the row as it is then, and  *)
(* a decrement carries the condition that the balance covers it.           *)
(***************************************************************************)
EXTENDS Integers

CONSTANTS
  Users,     \* email addresses, registered or not
  Opening    \* balance each of them starts with

ASSUME OpeningAssumption == Opening \in [Users -> Nat]

VARIABLE balance   \* users.claimed_balance

InitBalances == balance = Opening

Covers(u, amount) == balance[u] >= amount

\* The ledger throws for an amount that is not positive.
Debitable(amount) == amount > 0

\* Mutant of DebitBalance: no condition on the row as it is now.
DebitUnguarded(u, amount) ==
  /\ Debitable(amount)
  /\ balance' = [balance EXCEPT ![u] = @ - amount]

DebitBalance(u, amount) ==
  /\ Debitable(amount)
  /\ Covers(u, amount)
  /\ balance' = [balance EXCEPT ![u] = @ - amount]

CreditBalance(u, amount) == balance' = [balance EXCEPT ![u] = @ + amount]

\* A debit and a credit in one transaction.
MoveBalance(u, v, amount) ==
  /\ Covers(u, amount)
  /\ balance' = [balance EXCEPT ![u] = @ - amount, ![v] = @ + amount]
=============================================================================
