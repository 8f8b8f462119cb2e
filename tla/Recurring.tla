------------------------------ MODULE Recurring ------------------------------
(***************************************************************************)
(* Recurring transfers: schedules the users create and cancel, and the     *)
(* worker that runs every minute.  A pass reads the schedules that are due *)
(* with the balances of their payers, and handles what it read one by one; *)
(* nothing keeps a pass from starting before the last one has ended.       *)
(*                                                                         *)
(* Time is counted in intervals of the schedules.                          *)
(***************************************************************************)
EXTENDS Balances, Functions

CONSTANTS
  Schedules,   \* recurring transfers
  Payer,       \* who pays
  Price,       \* amount of each run, 0: an amount that is stored as 0.000000
  EndDate,     \* time from which a schedule does not run any more
  Passes,      \* passes of the worker that may overlap
  MaxTime      \* bound: intervals

ASSUME RecurringAssumption ==
  /\ Payer \in [Schedules -> Users]
  /\ Price \in [Schedules -> Nat]
  /\ EndDate \in [Schedules -> Nat]
  /\ MaxTime \in Nat

VARIABLES
  now,        \* the clock
  schedule,   \* recurring_transfers.status, "none" before there is a row
  nextRun,    \* recurring_transfers.next_run_at
  pass,       \* per pass, the tasks it has still to handle
  runs        \* how often each schedule ran for each time (rows "confirmed")

recurringVars == <<now, schedule, nextRun, pass, runs>>

Times == 1 .. MaxTime
NoTask == [due |-> 0, funded |-> FALSE]
Tasks == [due : 0 .. MaxTime, funded : BOOLEAN]

InitRecurring ==
  /\ now = 0
  /\ schedule = [r \in Schedules |-> "none"]
  /\ nextRun = [r \in Schedules |-> 0]
  /\ pass = [p \in Passes |-> [r \in Schedules |-> NoTask]]
  /\ runs = [r \in Schedules |-> [d \in Times |-> 0]]

RecurringTypeOK ==
  /\ now \in 0 .. MaxTime
  /\ schedule \in [Schedules -> {"none", "active", "completed", "cancelled"}]
  /\ nextRun \in [Schedules -> 0 .. MaxTime + 1]
  /\ pass \in [Passes -> [Schedules -> Tasks]]
  /\ runs \in [Schedules -> [Times -> Nat]]

-----------------------------------------------------------------------------
\* POST /recurring.
Create(r) ==
  /\ schedule[r] = "none"
  /\ EndDate[r] > now
  /\ schedule' = [schedule EXCEPT ![r] = "active"]
  /\ nextRun' = [nextRun EXCEPT ![r] = now + 1]
  /\ UNCHANGED <<balance, now, pass, runs>>

\* DELETE /recurring/:id: a completed schedule can be cancelled, too.
Cancel(r) ==
  /\ schedule[r] \in {"active", "completed"}
  /\ schedule' = [schedule EXCEPT ![r] = "cancelled"]
  /\ UNCHANGED <<balance, now, nextRun, pass, runs>>

Tick ==
  /\ now < MaxTime
  /\ now' = now + 1
  /\ UNCHANGED <<balance, schedule, nextRun, pass, runs>>

Busy(p) == \E r \in Schedules : pass[p][r] # NoTask
Due(r) == schedule[r] = "active" /\ nextRun[r] <= now

StartPass(p) ==
  /\ ~ Busy(p)
  /\ \E r \in Schedules : Due(r)
  /\ pass' = [pass EXCEPT ![p] =
       [r \in Schedules |->
          IF Due(r) THEN [due |-> nextRun[r], funded |-> Covers(Payer[r], Price[r])]
                    ELSE NoTask]]
  /\ UNCHANGED <<balance, now, schedule, nextRun, runs>>

\* The task is taken off the pass; ended: its end date has come.
Handles(p, r, ended) ==
  /\ pass[p][r] # NoTask
  /\ (EndDate[r] <= now) = ended
  /\ pass' = [pass EXCEPT ![p][r] = NoTask]

\* Mutant of NextRun: the time of the run is not moved on.
SameRun(due) == due

\* From the time of the run, interval by interval, beyond the present.
NextRun(due) == IF due > now THEN due + 1 ELSE now + 1

EndSchedule(p, r) ==
  /\ Handles(p, r, TRUE)
  /\ schedule' = [schedule EXCEPT ![r] = "completed"]
  /\ UNCHANGED <<balance, now, nextRun, runs>>

\* Too little money, as read by the pass or found by the debit.
SkipRun(p, r) ==
  /\ ~ pass[p][r].funded \/ ~ Covers(Payer[r], Price[r])
  /\ nextRun' = [nextRun EXCEPT ![r] = NextRun(pass[p][r].due)]
  /\ Handles(p, r, FALSE)
  /\ UNCHANGED <<balance, now, schedule, runs>>

\* Mutant of RunSchedule: the new time is not part of the transaction.
RunWithoutNext(p, r) ==
  /\ pass[p][r].funded
  /\ DebitBalance(Payer[r], Price[r])
  /\ runs' = [runs EXCEPT ![r][pass[p][r].due] = @ + 1]
  /\ Handles(p, r, FALSE)
  /\ UNCHANGED <<now, schedule, nextRun>>

\* One transaction: the debit, a row with status "confirmed", the next time.
RunSchedule(p, r) ==
  /\ pass[p][r].funded
  /\ DebitBalance(Payer[r], Price[r])
  /\ runs' = [runs EXCEPT ![r][pass[p][r].due] = @ + 1]
  /\ nextRun' = [nextRun EXCEPT ![r] = NextRun(pass[p][r].due)]
  /\ Handles(p, r, FALSE)
  /\ UNCHANGED <<now, schedule>>

\* The ledger takes no amount of 0, although POST /recurring does: the error is
\* logged, and the row stays as it is.
RefuseRun(p, r) ==
  /\ pass[p][r].funded
  /\ ~ Debitable(Price[r])
  /\ Handles(p, r, FALSE)
  /\ UNCHANGED <<balance, now, schedule, nextRun, runs>>

HandleTask(p) ==
  \E r \in Schedules :
    EndSchedule(p, r) \/ SkipRun(p, r) \/ RunSchedule(p, r) \/ RefuseRun(p, r)

RecurringStep ==
  \/ \E r \in Schedules : Create(r) \/ Cancel(r)
  \/ \E p \in Passes : StartPass(p) \/ HandleTask(p)
  \/ Tick

\* The server stops: the passes are gone.
CrashRecurring ==
  /\ pass' = [p \in Passes |-> [r \in Schedules |-> NoTask]]
  /\ UNCHANGED <<now, schedule, nextRun, runs>>

-----------------------------------------------------------------------------
\* What the runs took from the payers: it sits in rows with status "confirmed".
RunCount(r) == SumFunction(runs[r])
Confirmed == SumFunction([r \in Schedules |-> Price[r] * RunCount(r)])
=============================================================================
