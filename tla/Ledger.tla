------------------------------- MODULE Ledger -------------------------------
(***************************************************************************)
(* Transfers and recurring transfers of one server process over the same   *)
(* balances: what becomes of the money, and when a schedule runs.          *)
(***************************************************************************)
EXTENDS Transfers, Recurring

CONSTANT MaxCrashes   \* bound: restarts of the server

ASSUME LedgerAssumption == MaxCrashes \in Nat

VARIABLE crashes

vars == <<balance, transferVars, recurringVars, crashes>>

Init ==
  /\ InitBalances /\ InitTransfers /\ InitRecurring
  /\ crashes = 0

Crash ==
  /\ crashes < MaxCrashes
  /\ crashes' = crashes + 1
  /\ CrashTransfers /\ CrashRecurring
  /\ UNCHANGED balance

Next ==
  \/ TransferStep /\ UNCHANGED <<recurringVars, crashes>>
  \/ RecurringStep /\ UNCHANGED <<transferVars, crashes>>
  \/ Crash

\* A started request and a started pass go on, a user who has verified
\* collects, the timer of the worker fires; nobody has to send or to sign up.
Fairness ==
  /\ \A t \in Transfers : WF_vars(Transfer(t) /\ pc[t] # "idle" /\ UNCHANGED <<recurringVars, crashes>>)
  /\ \A u \in Users : WF_vars((ClaimPending(u) \/ Claim(u)) /\ UNCHANGED <<recurringVars, crashes>>)
  /\ \A p \in Passes :
       WF_vars((StartPass(p) \/ HandleTask(p)) /\ UNCHANGED <<transferVars, crashes>>)

Spec == Init /\ [][Next]_vars
FairSpec == Spec /\ Fairness

-----------------------------------------------------------------------------
(***************************************************************************)
(* Properties.                                                             *)
(***************************************************************************)

LedgerTypeOK ==
  /\ balance \in [Users -> Nat]
  /\ TransfersTypeOK
  /\ RecurringTypeOK
  /\ crashes \in 0 .. MaxCrashes

\* No step creates or destroys money: what the users hold, what waits for a
\* recipient and what the recurring runs took is what the users started with.
Conserved == SumFunction(balance) + OnItsWay + Confirmed = SumFunction(Opening)

\* What has run is never taken up again: a pass reads no time a run has been made
\* for, whatever crashes and however the passes overlap.  A time is paid for again
\* only by passes that had read it before the first of them paid.
NotReadAgain ==
  [][\A p \in Passes, r \in Schedules :
       pass[p][r] = NoTask /\ pass'[p][r] # NoTask => runs[r][pass'[p][r].due] = 0]_vars

\* A due schedule is run, skipped or ended by the worker, or cancelled, if it is
\* for an amount the ledger takes; one that it refuses is due for ever (RefuseRun).
DueHandled == \A r \in Schedules : Debitable(Price[r]) => (Due(r) ~> ~ Due(r))
=============================================================================
