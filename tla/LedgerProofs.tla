---------------------------- MODULE LedgerProofs ----------------------------
(***************************************************************************)
(* Proofs about transfers and recurring transfers, for any number of       *)
(* users, transfers, schedules and restarts: a pass of the worker reads no *)
(* time a schedule has run for, however the passes overlap, and no step    *)
(* creates or destroys money.                                              *)
(***************************************************************************)
EXTENDS Ledger, SumTheorems

(***************************************************************************)
(* What a pass holds has come, whoever has moved the row on since.  The    *)
(* row is never ahead of the clock by more than one, so that whoever       *)
(* writes it moves it on; and every run is for a time it has left behind.  *)
(***************************************************************************)
TaskInv(r) ==
  \A p \in Passes :
    pass[p][r] # NoTask => schedule[r] # "none" /\ pass[p][r].due <= now

RunInv(r) ==
  /\ schedule[r] = "none" <=> nextRun[r] = 0
  /\ nextRun[r] <= now + 1
  /\ \A d \in Times : runs[r][d] > 0 => d < nextRun[r]

ScheduleInv == \A r \in Schedules : TaskInv(r) /\ RunInv(r)

-----------------------------------------------------------------------------
\* The next time of a run is later than the time it was due.
LEMMA NextRunLater ==
  ASSUME RecurringTypeOK, NEW due \in 0 .. MaxTime
  PROVE  /\ NextRun(due) \in 0 .. MaxTime + 1 /\ due < NextRun(due)
         /\ due <= now => NextRun(due) = now + 1
  BY RecurringAssumption DEF RecurringTypeOK, NextRun

LEMMA InitScheduleInv == Init => RecurringTypeOK /\ ScheduleInv
  BY RecurringAssumption
  DEF Init, InitRecurring, RecurringTypeOK, ScheduleInv, TaskInv, RunInv, Tasks, NoTask, Times

-----------------------------------------------------------------------------
(***************************************************************************)
(* Types.                                                                  *)
(***************************************************************************)
LEMMA TaskTypes == NoTask \in Tasks
  BY RecurringAssumption DEF NoTask, Tasks

LEMMA StepTypeOK ==
  ASSUME RecurringTypeOK, RecurringStep
  PROVE  RecurringTypeOK'
<1> USE RecurringAssumption, TaskTypes
<1>1. ASSUME NEW r \in Schedules, Create(r) \/ Cancel(r) PROVE RecurringTypeOK'
  <2>1. CASE Create(r)
    <3>1. now + 1 \in 0 .. MaxTime + 1
      BY DEF RecurringTypeOK
    <3>2. nextRun' \in [Schedules -> 0 .. MaxTime + 1]
      BY <2>1, <3>1 DEF Create, RecurringTypeOK
    <3> QED BY <2>1, <3>2 DEF Create, RecurringTypeOK
  <2>2. CASE Cancel(r)
    BY <2>2 DEF Cancel, RecurringTypeOK
  <2> QED BY <1>1, <2>1, <2>2
<1>2. ASSUME NEW p \in Passes, StartPass(p) PROVE RecurringTypeOK'
  <2>1. \A r \in Schedules :
          Due(r) => [due |-> nextRun[r], funded |-> Covers(Payer[r], Price[r])] \in Tasks
    BY DEF Due, RecurringTypeOK, Tasks, Covers
  <2> QED BY <1>2, <2>1 DEF StartPass, RecurringTypeOK
<1>3. ASSUME NEW p \in Passes, NEW r \in Schedules,
             EndSchedule(p, r) \/ SkipRun(p, r) \/ RunSchedule(p, r) \/ RefuseRun(p, r)
      PROVE  RecurringTypeOK'
  <2>1. pass[p][r].due \in 0 .. MaxTime
    BY DEF RecurringTypeOK, Tasks
  <2>2. NextRun(pass[p][r].due) \in 0 .. MaxTime + 1
    BY <2>1, NextRunLater
  <2>3. pass' \in [Passes -> [Schedules -> Tasks]]
    <3>1. pass' = [pass EXCEPT ![p][r] = NoTask]
      BY <1>3 DEF EndSchedule, SkipRun, RunSchedule, RefuseRun, Handles
    <3> QED BY <3>1 DEF RecurringTypeOK
  <2>4. CASE EndSchedule(p, r)
    BY <2>3, <2>4 DEF EndSchedule, RecurringTypeOK
  <2>5. CASE SkipRun(p, r)
    <3>1. nextRun' \in [Schedules -> 0 .. MaxTime + 1]
      BY <2>2, <2>5 DEF SkipRun, RecurringTypeOK
    <3> QED BY <2>3, <2>5, <3>1 DEF SkipRun, RecurringTypeOK
  <2>6. CASE RunSchedule(p, r)
    <3>1. runs' \in [Schedules -> [Times -> Nat]]
      <4> DEFINE due == pass[p][r].due
                 row == [runs[r] EXCEPT ![due] = @ + 1]
      <4>1. runs' = [runs EXCEPT ![r] = row]
        BY <2>6 DEF RunSchedule
      <4>2. row \in [Times -> Nat]
        <5>1. runs[r] \in [Times -> Nat]
          BY DEF RecurringTypeOK
        <5>2. \A d \in Times : runs[r][d] + 1 \in Nat
          BY <5>1
        <5> HIDE DEF due
        <5> QED BY <5>1, <5>2
      <4> HIDE DEF row
      <4> QED BY <4>1, <4>2 DEF RecurringTypeOK
    <3>2. nextRun' \in [Schedules -> 0 .. MaxTime + 1]
      BY <2>2, <2>6 DEF RunSchedule, RecurringTypeOK
    <3> QED BY <2>3, <2>6, <3>1, <3>2 DEF RunSchedule, RecurringTypeOK
  <2>7. CASE RefuseRun(p, r)
    BY <2>3, <2>7 DEF RefuseRun, RecurringTypeOK
  <2> QED BY <1>3, <2>4, <2>5, <2>6, <2>7
<1>4. ASSUME Tick PROVE RecurringTypeOK'
  BY <1>4 DEF Tick, RecurringTypeOK
<1> QED BY <1>1, <1>2, <1>3, <1>4 DEF RecurringStep, HandleTask

-----------------------------------------------------------------------------
(***************************************************************************)
(* The invariant, one lemma for the users' operations and the clock, one   *)
(* for the worker's steps.                                                 *)
(***************************************************************************)
LEMMA UserScheduleInv ==
  ASSUME RecurringTypeOK, ScheduleInv,
         Tick \/ \E r \in Schedules : Create(r) \/ Cancel(r)
  PROVE  ScheduleInv'
<1> SUFFICES ASSUME NEW r \in Schedules PROVE TaskInv(r)' /\ RunInv(r)'
  BY DEF ScheduleInv
<1>1. TaskInv(r) /\ RunInv(r)
  BY DEF ScheduleInv
<1>2. CASE Tick
  <2>1. now \in Nat /\ now' = now + 1 /\ UNCHANGED <<schedule, nextRun, pass, runs>>
    BY <1>2 DEF Tick, RecurringTypeOK
  <2>2. \A p \in Passes : pass[p][r].due \in Nat
    BY DEF RecurringTypeOK, Tasks
  <2>3. nextRun[r] \in Nat
    BY DEF RecurringTypeOK
  <2> QED BY <1>1, <2>1, <2>2, <2>3 DEF TaskInv, RunInv
<1>3. ASSUME NEW s \in Schedules, Create(s) PROVE TaskInv(r)' /\ RunInv(r)'
  <2>1. CASE s = r
    <3>1. /\ schedule[r] = "none" /\ schedule'[r] = "active" /\ nextRun'[r] = now + 1
          /\ pass' = pass /\ runs' = runs /\ now' = now /\ now \in Nat
      BY <1>3, <2>1 DEF Create, RecurringTypeOK
    <3>2. \A d \in Times : runs[r][d] \in Nat
      BY DEF RecurringTypeOK
    <3>3. \A d \in Times : d \in Nat /\ d >= 1
      BY RecurringAssumption DEF Times
    <3> QED BY <1>1, <3>1, <3>2, <3>3 DEF TaskInv, RunInv
  <2>2. CASE s # r
    BY <1>1, <1>3, <2>2 DEF Create, TaskInv, RunInv, RecurringTypeOK
  <2> QED BY <2>1, <2>2
<1>4. ASSUME NEW s \in Schedules, Cancel(s) PROVE TaskInv(r)' /\ RunInv(r)'
  BY <1>1, <1>4 DEF Cancel, TaskInv, RunInv, RecurringTypeOK
<1> QED BY <1>2, <1>3, <1>4

LEMMA PassScheduleInv ==
  ASSUME RecurringTypeOK, ScheduleInv, NEW p \in Passes, StartPass(p)
  PROVE  ScheduleInv'
<1> SUFFICES ASSUME NEW r \in Schedules PROVE TaskInv(r)' /\ RunInv(r)'
  BY DEF ScheduleInv
<1>1. RunInv(r)'
  BY DEF StartPass, ScheduleInv, RunInv
<1>2. pass'[p][r] # NoTask => Due(r) /\ pass'[p][r].due = nextRun[r]
  BY DEF StartPass, RecurringTypeOK
<1>3. \A q \in Passes \ {p} : pass'[q][r] = pass[q][r]
  BY DEF StartPass, RecurringTypeOK
<1>4. TaskInv(r) /\ schedule' = schedule /\ now' = now
  BY DEF ScheduleInv, StartPass
<1>5. TaskInv(r)'
  BY <1>2, <1>3, <1>4 DEF TaskInv, Due
<1> QED BY <1>1, <1>5

LEMMA TaskScheduleInv ==
  ASSUME RecurringTypeOK, ScheduleInv,
         NEW p \in Passes, NEW s \in Schedules,
         EndSchedule(p, s) \/ SkipRun(p, s) \/ RunSchedule(p, s) \/ RefuseRun(p, s)
  PROVE  ScheduleInv'
<1> SUFFICES ASSUME NEW r \in Schedules PROVE TaskInv(r)' /\ RunInv(r)'
  BY DEF ScheduleInv
<1> DEFINE due == pass[p][s].due
<1>1. TaskInv(r) /\ RunInv(r)
  BY DEF ScheduleInv
<1>2. pass[p][s] # NoTask /\ pass' = [pass EXCEPT ![p][s] = NoTask] /\ now' = now
  BY DEF EndSchedule, SkipRun, RunSchedule, RefuseRun, Handles
<1>3. schedule[s] # "none" /\ due \in 0 .. MaxTime /\ due <= now
  <2>1. TaskInv(s)
    BY DEF ScheduleInv
  <2> QED BY <1>2, <2>1 DEF TaskInv, RecurringTypeOK, Tasks
<1>4. schedule'[r] = "none" <=> schedule[r] = "none"
  BY <1>3 DEF EndSchedule, SkipRun, RunSchedule, RefuseRun, RecurringTypeOK
<1>5. TaskInv(r)'
  <2>1. \A q \in Passes : pass'[q][r] # NoTask => pass'[q][r] = pass[q][r]
    BY <1>2 DEF RecurringTypeOK
  <2> QED BY <1>1, <1>2, <1>4, <2>1 DEF TaskInv
<1>6. NextRun(due) = now + 1 /\ now \in Nat
  BY <1>3, NextRunLater DEF RecurringTypeOK
<1>7. nextRun'[r] = nextRun[r] \/ (s = r /\ nextRun'[r] = now + 1)
  BY <1>6 DEF EndSchedule, SkipRun, RunSchedule, RefuseRun, RecurringTypeOK
<1>8. \A d \in Times :
        runs'[r][d] > 0 => runs[r][d] > 0 \/ (d = due /\ nextRun'[r] = now + 1)
  <2>1. CASE runs' = runs
    BY <2>1
  <2>2. CASE s # r
    <3>1. runs'[r] = runs[r]
      BY <2>2 DEF EndSchedule, SkipRun, RunSchedule, RefuseRun, RecurringTypeOK
    <3> QED BY <3>1
  <2>3. CASE RunSchedule(p, s) /\ s = r
    <3>1. nextRun'[r] = now + 1
      BY <1>6, <2>3 DEF RunSchedule, RecurringTypeOK
    <3>2. \A d \in Times \ {due} : runs'[r][d] = runs[r][d]
      BY <2>3 DEF RunSchedule, RecurringTypeOK
    <3> QED BY <3>1, <3>2
  <2> QED BY <2>1, <2>2, <2>3 DEF EndSchedule, SkipRun, RefuseRun
<1>9. RunInv(r)'
  <2>1. \A d \in Times : d \in Nat
    BY DEF Times
  <2>2. nextRun[r] \in Nat /\ nextRun[r] <= now + 1 /\ nextRun'[r] >= nextRun[r]
    BY <1>1, <1>6, <1>7 DEF RunInv, RecurringTypeOK
  <2>3. \A d \in Times : runs[r][d] > 0 => d < nextRun'[r]
    BY <1>1, <1>6, <1>7, <2>1, <2>2 DEF RunInv
  <2>4. \A d \in Times : runs'[r][d] > 0 => d < nextRun'[r]
    BY <1>3, <1>6, <1>8, <2>1, <2>3
  <2>5. schedule'[r] = "none" <=> nextRun'[r] = 0
    BY <1>1, <1>3, <1>4, <1>6, <1>7 DEF RunInv
  <2> QED BY <1>2, <1>6, <1>7, <2>2, <2>4, <2>5 DEF RunInv
<1> QED BY <1>5, <1>9

LEMMA NextScheduleInv ==
  ASSUME RecurringTypeOK, ScheduleInv, [Next]_vars
  PROVE  RecurringTypeOK' /\ ScheduleInv'
<1>1. CASE UNCHANGED recurringVars
  BY <1>1 DEF recurringVars, RecurringTypeOK, ScheduleInv, TaskInv, RunInv
<1>2. CASE RecurringStep
  <2>1. RecurringTypeOK'
    BY <1>2, StepTypeOK
  <2> QED BY <1>2, <2>1, UserScheduleInv, PassScheduleInv, TaskScheduleInv
          DEF RecurringStep, HandleTask
<1>3. CASE CrashRecurring
  <2>1. RecurringTypeOK'
    BY <1>3, TaskTypes DEF CrashRecurring, RecurringTypeOK
  <2> QED BY <1>3, <2>1 DEF CrashRecurring, ScheduleInv, TaskInv, RunInv
<1> QED BY <1>1, <1>2, <1>3 DEF Next, Crash, vars

\* Whatever a pass takes up in a step, nobody has paid for: it is the time of the
\* row, which every run has left behind.
LEMMA StepReadsNew ==
  ASSUME RecurringTypeOK, ScheduleInv, [Next]_vars, NEW p \in Passes, NEW r \in Schedules,
         pass[p][r] = NoTask, pass'[p][r] # NoTask
  PROVE  runs[r][pass'[p][r].due] = 0
<1>1. PICK q \in Passes : StartPass(q)
  <2>1. ~ UNCHANGED pass
    OBVIOUS
  <2>2. CASE Crash
    BY <2>2 DEF Crash, CrashRecurring
  <2>3. CASE RecurringStep
    <3>1. ASSUME NEW q \in Passes, HandleTask(q) PROVE FALSE
      <4>1. PICK s \in Schedules : pass' = [pass EXCEPT ![q][s] = NoTask]
        BY <3>1 DEF HandleTask, EndSchedule, SkipRun, RunSchedule, RefuseRun, Handles
      <4> QED BY <4>1 DEF RecurringTypeOK
    <3> QED BY <2>1, <2>3, <3>1 DEF RecurringStep, Create, Cancel, Tick
  <2> QED BY <2>1, <2>2, <2>3 DEF Next, vars, recurringVars
<1>2. schedule[r] = "active" /\ pass'[p][r].due = nextRun[r] /\ nextRun[r] <= now
  BY <1>1 DEF StartPass, Due, RecurringTypeOK
<1>3. RunInv(r)
  BY DEF ScheduleInv
<1>4. CASE nextRun[r] \in Times
  <2>1. runs[r][nextRun[r]] \in Nat /\ nextRun[r] \in Nat
    BY <1>4 DEF RecurringTypeOK
  <2> QED BY <1>2, <1>3, <1>4, <2>1 DEF RunInv
<1>5. nextRun[r] \in Times
  <2>1. nextRun[r] \in Nat /\ nextRun[r] # 0 /\ now \in 0 .. MaxTime /\ MaxTime \in Nat
    BY <1>2, <1>3, RecurringAssumption DEF RunInv, RecurringTypeOK
  <2> QED BY <1>2, <2>1 DEF Times
<1> QED BY <1>4, <1>5

\* However many passes overlap, none reads a time the schedule has already run
\* for, whatever the users, the clock, the other transfers and the restarts do:
\* whoever writes the time of the next run, even from a stale row, moves it beyond
\* the present.  So only passes that had read a time before it was paid can pay it.
THEOREM NothingReadAgain == Spec => NotReadAgain
<1>1. RecurringTypeOK /\ ScheduleInv /\ [Next]_vars => (RecurringTypeOK /\ ScheduleInv)'
  BY NextScheduleInv
<1>2. RecurringTypeOK /\ ScheduleInv /\ [Next]_vars =>
        [\A p \in Passes, r \in Schedules :
           pass[p][r] = NoTask /\ pass'[p][r] # NoTask => runs[r][pass'[p][r].due] = 0]_vars
  BY StepReadsNew
<1> QED BY InitScheduleInv, <1>1, <1>2, PTL DEF Spec, NotReadAgain

-----------------------------------------------------------------------------
(***************************************************************************)
(* The books: there are finitely many of each kind of row.                 *)
(***************************************************************************)
FiniteBooks == IsFiniteSet(Users) /\ IsFiniteSet(Transfers) /\ IsFiniteSet(Schedules)

\* The row of a transfer is written with the last of its statements.
TransferInv == \A t \in Transfers : pc[t] # "done" => escrow[t] = "none"

\* A pass has only taken tasks of schedules that were due, at a time there has been.
DueInv ==
  /\ \A r \in Schedules : schedule[r] # "none" => nextRun[r] >= 1
  /\ \A p \in Passes, r \in Schedules :
       pass[p][r] # NoTask => schedule[r] # "none" /\ pass[p][r].due \in Times

BooksInv == LedgerTypeOK /\ TransferInv /\ DueInv

-----------------------------------------------------------------------------
(***************************************************************************)
(* What each helper makes of the sum of the balances.                      *)
(***************************************************************************)
LEMMA DebitSum ==
  ASSUME FiniteBooks, balance \in [Users -> Nat], NEW u \in Users, NEW amount \in Nat,
         DebitBalance(u, amount)
  PROVE  balance' \in [Users -> Nat] /\ SumFunction(balance') + amount = SumFunction(balance)
<1>1. balance[u] >= amount /\ balance' = [balance EXCEPT ![u] = balance[u] - amount]
  BY DEF DebitBalance, Covers
<1>2. balance[u] - amount \in Nat
  BY <1>1
<1>3. balance' \in [Users -> Nat]
  BY <1>1, <1>2
<1>4. SumFunction(balance') + balance[u] = SumFunction(balance) + balance'[u]
  <2>1. \A v \in Users \ {u} : balance'[v] = balance[v]
    BY <1>1
  <2> QED BY <1>3, <2>1, SumChanges DEF FiniteBooks
<1>5. balance'[u] = balance[u] - amount
  BY <1>1
<1>6. SumFunction(balance) \in Nat /\ SumFunction(balance') \in Nat
  BY <1>3, SumFunctionType DEF FiniteBooks
<1> QED BY <1>2, <1>3, <1>4, <1>5, <1>6

LEMMA CreditSum ==
  ASSUME FiniteBooks, balance \in [Users -> Nat], NEW u \in Users, NEW amount \in Nat,
         CreditBalance(u, amount)
  PROVE  balance' \in [Users -> Nat] /\ SumFunction(balance') = SumFunction(balance) + amount
<1>1. balance' = [balance EXCEPT ![u] = balance[u] + amount]
  BY DEF CreditBalance
<1>2. balance[u] + amount \in Nat
  OBVIOUS
<1>3. balance' \in [Users -> Nat]
  BY <1>1, <1>2
<1>4. SumFunction(balance') + balance[u] = SumFunction(balance) + balance'[u]
  <2>1. \A v \in Users \ {u} : balance'[v] = balance[v]
    BY <1>1
  <2> QED BY <1>3, <2>1, SumChanges DEF FiniteBooks
<1>5. balance'[u] = balance[u] + amount
  BY <1>1
<1>6. SumFunction(balance) \in Nat /\ SumFunction(balance') \in Nat
  BY <1>3, SumFunctionType DEF FiniteBooks
<1> QED BY <1>2, <1>3, <1>4, <1>5, <1>6

LEMMA MoveSum ==
  ASSUME FiniteBooks, balance \in [Users -> Nat], NEW u \in Users, NEW v \in Users, u # v,
         NEW amount \in Nat, MoveBalance(u, v, amount)
  PROVE  balance' \in [Users -> Nat] /\ SumFunction(balance') = SumFunction(balance)
<1> DEFINE less == [balance EXCEPT ![u] = balance[u] - amount]
<1>1. balance[u] >= amount /\ balance' = [less EXCEPT ![v] = balance[v] + amount]
  BY DEF MoveBalance, Covers
<1>2. balance[u] - amount \in Nat /\ balance[v] + amount \in Nat
  BY <1>1
<1>3. less \in [Users -> Nat] /\ less[u] = balance[u] - amount /\ less[v] = balance[v]
  BY <1>2
<1>4. SumFunction(less) + balance[u] = SumFunction(balance) + less[u]
  <2>1. \A y \in Users \ {u} : less[y] = balance[y]
    OBVIOUS
  <2> HIDE DEF less
  <2> QED BY <1>3, <2>1, SumChanges DEF FiniteBooks
<1> HIDE DEF less
<1>5. balance' \in [Users -> Nat] /\ balance'[v] = balance[v] + amount
  BY <1>1, <1>2, <1>3
<1>6. SumFunction(balance') + less[v] = SumFunction(less) + balance'[v]
  <2>1. \A y \in Users \ {v} : balance'[y] = less[y]
    BY <1>1, <1>3
  <2> QED BY <1>3, <1>5, <2>1, SumChanges DEF FiniteBooks
<1>7. /\ SumFunction(balance) \in Nat /\ SumFunction(balance') \in Nat
      /\ SumFunction(less) \in Nat
  BY <1>3, <1>5, SumFunctionType DEF FiniteBooks
<1>8. balance[u] \in Nat /\ balance[v] \in Nat
  OBVIOUS
<1>9. SumFunction(balance') = SumFunction(balance)
  BY <1>2, <1>3, <1>4, <1>5, <1>6, <1>7, <1>8
<1> QED BY <1>5, <1>9

-----------------------------------------------------------------------------
(***************************************************************************)
(* What is on its way: a transfer joins it, or some leave it.              *)
(***************************************************************************)
OnWay == {t \in Transfers : Waits(t)}

LEMMA AmountNat == \A t \in Transfers : Amount[t] \in Nat
  BY TransfersAssumption

LEMMA WayType ==
  ASSUME FiniteBooks
  PROVE  IsFiniteSet(OnWay) /\ OnItsWay \in Nat /\ OnItsWay = SumFunctionOnSet(Amount, OnWay)
<1>1. OnWay \in SUBSET Transfers
  BY DEF OnWay
<1>2. IsFiniteSet(OnWay)
  BY <1>1, FS_Subset DEF FiniteBooks
<1>3. SumFunctionOnSet(Amount, OnWay) \in Nat
  BY <1>1, <1>2, AmountNat, SumType
<1> QED BY <1>2, <1>3 DEF OnItsWay, OnWay

LEMMA WayTypeNext ==
  ASSUME FiniteBooks
  PROVE  IsFiniteSet(OnWay') /\ OnItsWay' \in Nat /\ OnItsWay' = SumFunctionOnSet(Amount, OnWay')
<1>1. OnWay' \in SUBSET Transfers
  BY DEF OnWay
<1>2. IsFiniteSet(OnWay')
  BY <1>1, FS_Subset DEF FiniteBooks
<1>3. SumFunctionOnSet(Amount, OnWay') \in Nat
  BY <1>1, <1>2, AmountNat, SumType
<1> QED BY <1>2, <1>3 DEF OnItsWay, OnWay

LEMMA WayKept ==
  ASSUME \A t \in Transfers : Waits(t)' <=> Waits(t)
  PROVE  OnItsWay' = OnItsWay
<1>1. OnWay' = OnWay
  BY DEF OnWay
<1> QED BY <1>1 DEF OnItsWay, OnWay

LEMMA WayJoined ==
  ASSUME FiniteBooks, NEW t \in Transfers, ~ Waits(t), Waits(t)',
         \A s \in Transfers \ {t} : Waits(s)' <=> Waits(s)
  PROVE  OnItsWay' = OnItsWay + Amount[t]
<1>1. OnWay' = OnWay \cup {t} /\ t \notin OnWay /\ OnWay \in SUBSET Transfers
  BY DEF OnWay
<1>2. SumFunctionOnSet(Amount, OnWay \cup {t}) = Amount[t] + SumFunctionOnSet(Amount, OnWay)
  BY <1>1, WayType, AmountNat, SumWith
<1> QED BY <1>1, <1>2, AmountNat, WayType, WayTypeNext

LEMMA WayLeft ==
  ASSUME FiniteBooks, NEW S \in SUBSET Transfers,
         \A t \in S : Waits(t) /\ ~ Waits(t)',
         \A t \in Transfers \ S : Waits(t)' <=> Waits(t)
  PROVE  OnItsWay = OnItsWay' + SumFunctionOnSet(Amount, S) /\ SumFunctionOnSet(Amount, S) \in Nat
<1>1. OnWay = OnWay' \cup S /\ OnWay' \cap S = {} /\ OnWay' \in SUBSET Transfers
  BY DEF OnWay
<1>2. IsFiniteSet(S)
  BY FS_Subset DEF FiniteBooks
<1>3. SumFunctionOnSet(Amount, OnWay)
        = SumFunctionOnSet(Amount, OnWay') + SumFunctionOnSet(Amount, S)
  BY <1>1, <1>2, WayTypeNext, AmountNat, SumOfBoth
<1>4. SumFunctionOnSet(Amount, S) \in Nat
  BY <1>2, AmountNat, SumType
<1> QED BY <1>3, <1>4, WayType, WayTypeNext

-----------------------------------------------------------------------------
(***************************************************************************)
(* The steps of the transfers.                                             *)
(***************************************************************************)
LEMMA BooksTypes ==
  ASSUME FiniteBooks, LedgerTypeOK
  PROVE  SumFunction(balance) \in Nat /\ OnItsWay \in Nat
  BY WayType, SumFunctionType DEF FiniteBooks, LedgerTypeOK

\* Where one request goes on, the others stay.
LEMMA ProceedOne ==
  ASSUME TransfersTypeOK, NEW t \in Transfers, NEW from, NEW to \in TransferLabels,
         Proceed(t, from, to)
  PROVE  /\ pc[t] = from /\ pc'[t] = to /\ pc' \in [Transfers -> TransferLabels]
         /\ \A s \in Transfers \ {t} : pc'[s] = pc[s]
  BY DEF Proceed, TransfersTypeOK

LEMMA EscrowOne ==
  ASSUME TransfersTypeOK, NEW t \in Transfers, NEW to \in EscrowStates, SetEscrow(t, to)
  PROVE  /\ escrow'[t] = to /\ escrow' \in [Transfers -> EscrowStates]
         /\ \A s \in Transfers \ {t} : escrow'[s] = escrow[s]
  BY DEF SetEscrow, TransfersTypeOK

\* What a step of the transfers keeps.
TransfersKept ==
  /\ balance' \in [Users -> Nat] /\ TransfersTypeOK' /\ TransferInv'
  /\ SumFunction(balance') + OnItsWay' = SumFunction(balance) + OnItsWay

LEMMA TransferKeeps ==
  ASSUME FiniteBooks, LedgerTypeOK, TransferInv, NEW t \in Transfers, Transfer(t)
  PROVE  TransfersKept
<1> USE DEF TransferLabels, EscrowStates
<1>1. /\ From[t] \in Users /\ To[t] \in Users /\ From[t] # To[t]
      /\ Amount[t] \in Nat
  BY TransfersAssumption
<1>2. balance \in [Users -> Nat] /\ TransfersTypeOK
  BY DEF LedgerTypeOK
<1>3. SumFunction(balance) \in Nat /\ OnItsWay \in Nat /\ OnItsWay' \in Nat
  BY BooksTypes, WayTypeNext
<1>4. \A s \in Transfers : pc[s] # "done" => escrow[s] = "none"
  BY DEF TransferInv
<1>5. CASE LookUpRecipient(t)
  <2>1. PICK to \in {"known", "unknown"} : Proceed(t, "idle", to)
    BY <1>5, Zenon DEF LookUpRecipient
  <2>2. /\ pc[t] = "idle" /\ pc'[t] = to /\ pc' \in [Transfers -> TransferLabels]
        /\ \A s \in Transfers \ {t} : pc'[s] = pc[s]
    BY <1>2, <2>1, ProceedOne
  <2>3. UNCHANGED <<balance, account, escrow>>
    BY <1>5 DEF LookUpRecipient
  <2>4. \A s \in Transfers : Waits(s)' <=> Waits(s)
    BY <2>1, <2>2, <2>3 DEF Waits
  <2>5. TransferInv' /\ TransfersTypeOK'
    BY <1>2, <1>4, <2>1, <2>2, <2>3 DEF TransferInv, TransfersTypeOK
  <2> QED BY <1>2, <2>3, <2>4, <2>5, WayKept DEF TransfersKept
<1>6. CASE SendPlatform(t)
  <2>1. UNCHANGED account
    BY <1>6 DEF SendPlatform
  <2>2. CASE /\ Proceed(t, "known", "done") /\ MoveBalance(From[t], To[t], Amount[t])
             /\ SetEscrow(t, "claimed")
    <3>1. /\ pc[t] = "known" /\ pc'[t] = "done" /\ pc' \in [Transfers -> TransferLabels]
          /\ \A s \in Transfers \ {t} : pc'[s] = pc[s]
      BY <1>2, <2>2, ProceedOne
    <3>2. /\ escrow'[t] = "claimed" /\ escrow' \in [Transfers -> EscrowStates]
          /\ \A s \in Transfers \ {t} : escrow'[s] = escrow[s]
      BY <1>2, <2>2, EscrowOne
    <3>3. \A s \in Transfers : Waits(s)' <=> Waits(s)
      BY <1>4, <3>1, <3>2 DEF Waits
    <3>4. balance' \in [Users -> Nat] /\ SumFunction(balance') = SumFunction(balance)
      BY <1>1, <1>2, <2>2, MoveSum
    <3>5. TransferInv' /\ TransfersTypeOK'
      BY <1>2, <1>4, <2>1, <3>1, <3>2 DEF TransferInv, TransfersTypeOK
    <3> QED BY <3>3, <3>4, <3>5, WayKept DEF TransfersKept
  <2>3. CASE /\ Proceed(t, "unknown", "done") /\ DebitBalance(From[t], Amount[t])
             /\ SetEscrow(t, "pending")
    <3>1. /\ pc[t] = "unknown" /\ pc'[t] = "done" /\ pc' \in [Transfers -> TransferLabels]
          /\ \A s \in Transfers \ {t} : pc'[s] = pc[s]
      BY <1>2, <2>3, ProceedOne
    <3>2. /\ escrow'[t] = "pending" /\ escrow' \in [Transfers -> EscrowStates]
          /\ \A s \in Transfers \ {t} : escrow'[s] = escrow[s]
      BY <1>2, <2>3, EscrowOne
    <3>3. /\ ~ Waits(t) /\ Waits(t)'
          /\ \A s \in Transfers \ {t} : Waits(s)' <=> Waits(s)
      BY <1>4, <3>1, <3>2 DEF Waits
    <3>4. OnItsWay' = OnItsWay + Amount[t]
      BY <3>3, WayJoined
    <3>5. /\ balance' \in [Users -> Nat]
          /\ SumFunction(balance') + Amount[t] = SumFunction(balance)
      BY <1>1, <1>2, <2>3, DebitSum
    <3>6. TransferInv' /\ TransfersTypeOK'
      BY <1>2, <1>4, <2>1, <3>1, <3>2 DEF TransferInv, TransfersTypeOK
    <3>7. SumFunction(balance') \in Nat
      BY <3>5, SumFunctionType DEF FiniteBooks
    <3>8. SumFunction(balance') + OnItsWay' = SumFunction(balance) + OnItsWay
      BY <1>1, <1>3, <3>4, <3>5, <3>7
    <3> QED BY <3>5, <3>6, <3>8 DEF TransfersKept
  <2> QED BY <1>6, <2>2, <2>3 DEF SendPlatform
<1>7. CASE SendRefused(t)
  <2>1. PICK from \in {"known", "unknown"} : Proceed(t, from, "done")
    BY <1>7 DEF SendRefused
  <2>2. /\ pc[t] = from /\ pc'[t] = "done" /\ pc' \in [Transfers -> TransferLabels]
        /\ \A s \in Transfers \ {t} : pc'[s] = pc[s]
    BY <1>2, <2>1, ProceedOne
  <2>3. UNCHANGED <<balance, account, escrow>>
    BY <1>7 DEF SendRefused
  <2>4. \A s \in Transfers : Waits(s)' <=> Waits(s)
    BY <2>1, <2>2, <2>3 DEF Waits
  <2>5. TransferInv' /\ TransfersTypeOK'
    BY <1>2, <1>4, <2>1, <2>2, <2>3 DEF TransferInv, TransfersTypeOK
  <2> QED BY <1>2, <2>3, <2>4, <2>5, WayKept DEF TransfersKept
<1>8. CASE DebitSender(t)
  <2>1. /\ pc[t] = "idle" /\ pc'[t] = "debited" /\ pc' \in [Transfers -> TransferLabels]
        /\ \A s \in Transfers \ {t} : pc'[s] = pc[s]
    BY <1>2, <1>8, ProceedOne DEF DebitSender
  <2>2. UNCHANGED <<account, escrow>>
    BY <1>8 DEF DebitSender
  <2>3. /\ ~ Waits(t) /\ Waits(t)'
        /\ \A s \in Transfers \ {t} : Waits(s)' <=> Waits(s)
    BY <1>4, <2>1, <2>2 DEF Waits
  <2>4. OnItsWay' = OnItsWay + Amount[t]
    BY <2>3, WayJoined
  <2>5. /\ balance' \in [Users -> Nat]
        /\ SumFunction(balance') + Amount[t] = SumFunction(balance)
    BY <1>1, <1>2, <1>8, DebitSum DEF DebitSender
  <2>6. TransferInv' /\ TransfersTypeOK'
    BY <1>2, <1>4, <2>1, <2>2 DEF TransferInv, TransfersTypeOK
  <2>7. SumFunction(balance') \in Nat
    BY <2>5, SumFunctionType DEF FiniteBooks
  <2>8. SumFunction(balance') + OnItsWay' = SumFunction(balance) + OnItsWay
    BY <1>1, <1>3, <2>4, <2>5, <2>7
  <2> QED BY <2>5, <2>6, <2>8 DEF TransfersKept
<1>9. CASE CreditRecipient(t)
  <2>1. /\ pc[t] = "debited" /\ pc'[t] = "credited" /\ pc' \in [Transfers -> TransferLabels]
        /\ \A s \in Transfers \ {t} : pc'[s] = pc[s]
    BY <1>2, <1>9, ProceedOne DEF CreditRecipient
  <2>2. UNCHANGED <<account, escrow>>
    BY <1>9 DEF CreditRecipient
  <2>3. /\ Waits(t) /\ ~ Waits(t)'
        /\ \A s \in Transfers \ {t} : Waits(s)' <=> Waits(s)
    BY <1>4, <2>1, <2>2 DEF Waits
  <2>4. OnItsWay = OnItsWay' + SumFunctionOnSet(Amount, {t})
    BY <2>3, WayLeft
  <2>5. SumFunctionOnSet(Amount, {t}) = Amount[t]
    <3>1. SumFunctionOnSet(Amount, {} \cup {t}) = Amount[t] + SumFunctionOnSet(Amount, {})
      BY <1>1, FS_EmptySet, SumWith
    <3>2. {} \cup {t} = {t}
      OBVIOUS
    <3> QED BY <1>1, <3>1, <3>2, SumOfNone
  <2>6. /\ balance' \in [Users -> Nat]
        /\ SumFunction(balance') = SumFunction(balance) + Amount[t]
    BY <1>1, <1>2, <1>9, CreditSum DEF CreditRecipient
  <2>7. TransferInv' /\ TransfersTypeOK'
    BY <1>2, <1>4, <2>1, <2>2 DEF TransferInv, TransfersTypeOK
  <2>8. SumFunction(balance') + OnItsWay' = SumFunction(balance) + OnItsWay
    BY <1>1, <1>3, <2>4, <2>5, <2>6
  <2> QED BY <2>6, <2>7, <2>8 DEF TransfersKept
<1>10. CASE RecordTransfer(t)
  <2>1. /\ pc[t] = "credited" /\ pc'[t] = "done" /\ pc' \in [Transfers -> TransferLabels]
        /\ \A s \in Transfers \ {t} : pc'[s] = pc[s]
    BY <1>2, <1>10, ProceedOne DEF RecordTransfer
  <2>2. /\ escrow'[t] = "claimed" /\ escrow' \in [Transfers -> EscrowStates]
        /\ \A s \in Transfers \ {t} : escrow'[s] = escrow[s]
    BY <1>2, <1>10, EscrowOne DEF RecordTransfer
  <2>3. UNCHANGED <<balance, account>>
    BY <1>10 DEF RecordTransfer
  <2>4. \A s \in Transfers : Waits(s)' <=> Waits(s)
    BY <1>4, <2>1, <2>2 DEF Waits
  <2>5. TransferInv' /\ TransfersTypeOK'
    BY <1>2, <1>4, <2>1, <2>2, <2>3 DEF TransferInv, TransfersTypeOK
  <2> QED BY <1>2, <2>3, <2>4, <2>5, WayKept DEF TransfersKept
<1> QED BY <1>5, <1>6, <1>7, <1>8, <1>9, <1>10 DEF Transfer

\* Signing up moves money only where it collects what waits, and collects it all.
LEMMA SignUpKeeps ==
  ASSUME FiniteBooks, LedgerTypeOK, TransferInv, NEW u \in Users, SignUp(u)
  PROVE  TransfersKept
<1>1. balance \in [Users -> Nat] /\ TransfersTypeOK
  BY DEF LedgerTypeOK
<1>2. SumFunction(balance) \in Nat /\ OnItsWay \in Nat /\ OnItsWay' \in Nat
  BY BooksTypes, WayTypeNext
<1>3. \A s \in Transfers : pc[s] # "done" => escrow[s] = "none"
  BY DEF TransferInv
<1>4. ASSUME UNCHANGED <<balance, escrow, pc>>, account' \in [Users -> AccountStates]
      PROVE  TransfersKept
  <2>1. \A s \in Transfers : Waits(s)' <=> Waits(s)
    BY <1>4 DEF Waits
  <2>2. TransferInv' /\ TransfersTypeOK'
    BY <1>1, <1>3, <1>4 DEF TransferInv, TransfersTypeOK
  <2> QED BY <1>1, <1>4, <2>1, <2>2, WayKept DEF TransfersKept
<1>5. ASSUME NEW from, NEW to \in AccountStates, SetAccount(u, from, to)
      PROVE  account' \in [Users -> AccountStates]
  BY <1>1, <1>5 DEF SetAccount, TransfersTypeOK
<1>6. CASE Register(u) \/ VerifyByCode(u) \/ VerifyByLink(u)
  <2>1. account' \in [Users -> AccountStates]
    BY <1>5, <1>6 DEF Register, VerifyByCode, VerifyByLink, AccountStates
  <2> QED BY <1>4, <1>6, <2>1 DEF Register, VerifyByCode, VerifyByLink
<1>7. CASE Claim(u)
  BY <1>1, <1>4, <1>7 DEF Claim, transferVars, TransfersTypeOK
<1>8. CASE ClaimPending(u)
  <2> DEFINE S == Waiting(u)
             sum == SumFunctionOnSet(Amount, S)
  <2>1. /\ CreditBalance(u, sum) /\ pc' = pc
        /\ escrow' = [t \in Transfers |-> IF t \in S THEN "claimed" ELSE escrow[t]]
        /\ account' \in [Users -> AccountStates]
    BY <1>5, <1>8 DEF ClaimPending, AccountStates
  <2>2. S \in SUBSET Transfers
    BY DEF Waiting
  <2>3. \A t \in S : escrow[t] = "pending" /\ pc[t] = "done"
    BY <1>3 DEF Waiting
  <2> HIDE DEF S, sum
  <2>4. \A t \in S : Waits(t) /\ ~ Waits(t)'
    BY <2>1, <2>2, <2>3 DEF Waits
  <2>5. \A t \in Transfers \ S : Waits(t)' <=> Waits(t)
    BY <2>1 DEF Waits
  <2>6. OnItsWay = OnItsWay' + sum /\ sum \in Nat
    BY <2>2, <2>4, <2>5, WayLeft DEF sum
  <2>7. balance' \in [Users -> Nat] /\ SumFunction(balance') = SumFunction(balance) + sum
    BY <1>1, <2>1, <2>6, CreditSum
  <2>8. TransferInv' /\ TransfersTypeOK'
    BY <1>1, <1>3, <2>1, <2>3 DEF TransferInv, TransfersTypeOK, EscrowStates
  <2>9. SumFunction(balance') + OnItsWay' = SumFunction(balance) + OnItsWay
    BY <1>2, <2>6, <2>7
  <2> QED BY <2>7, <2>8, <2>9 DEF TransfersKept
<1> QED BY <1>6, <1>7, <1>8 DEF SignUp

-----------------------------------------------------------------------------
(***************************************************************************)
(* The steps of the recurring transfers.                                   *)
(***************************************************************************)
Taken == [r \in Schedules |-> Price[r] * RunCount(r)]

LEMMA TimesFinite == IsFiniteSet(Times)
  BY RecurringAssumption, FS_Interval DEF Times

LEMMA TakenType ==
  ASSUME FiniteBooks, RecurringTypeOK
  PROVE  /\ \A r \in Schedules : RunCount(r) \in Nat
         /\ Taken \in [Schedules -> Nat] /\ Confirmed \in Nat /\ Confirmed = SumFunction(Taken)
<1>1. \A r \in Schedules : RunCount(r) \in Nat
  BY TimesFinite, SumFunctionType DEF RunCount, RecurringTypeOK
<1>2. \A r \in Schedules : Price[r] * RunCount(r) \in Nat
  <2> SUFFICES ASSUME NEW r \in Schedules PROVE Price[r] * RunCount(r) \in Nat
    OBVIOUS
  <2>1. Price[r] \in Nat /\ RunCount(r) \in Nat
    BY <1>1, RecurringAssumption
  <2> QED BY <2>1
<1>3. Taken \in [Schedules -> Nat]
  BY <1>2 DEF Taken
<1>4. SumFunction(Taken) \in Nat
  BY <1>3, SumFunctionType DEF FiniteBooks
<1> QED BY <1>1, <1>3, <1>4 DEF Confirmed, Taken

LEMMA TakenTypeNext ==
  ASSUME FiniteBooks, RecurringTypeOK'
  PROVE  /\ \A r \in Schedules : RunCount(r)' \in Nat
         /\ Taken' \in [Schedules -> Nat] /\ Confirmed' \in Nat
         /\ Confirmed' = SumFunction(Taken')
<1>1. \A r \in Schedules : RunCount(r)' \in Nat
  BY TimesFinite, SumFunctionType DEF RunCount, RecurringTypeOK
<1>2. \A r \in Schedules : Price[r] * RunCount(r)' \in Nat
  <2> SUFFICES ASSUME NEW r \in Schedules PROVE Price[r] * RunCount(r)' \in Nat
    OBVIOUS
  <2>1. Price[r] \in Nat /\ RunCount(r)' \in Nat
    BY <1>1, RecurringAssumption
  <2> QED BY <2>1
<1>3. Taken' \in [Schedules -> Nat]
  BY <1>2 DEF Taken
<1>4. SumFunction(Taken') \in Nat
  BY <1>3, SumFunctionType DEF FiniteBooks
<1> QED BY <1>1, <1>3, <1>4 DEF Confirmed, Taken

\* One more run takes the price once more.
LEMMA OneMoreRun ==
  ASSUME FiniteBooks, RecurringTypeOK, RecurringTypeOK', NEW r \in Schedules, NEW due \in Times,
         runs' = [runs EXCEPT ![r][due] = @ + 1]
  PROVE  Confirmed' = Confirmed + Price[r]
<1>1. runs[r] \in [Times -> Nat] /\ runs'[r] \in [Times -> Nat]
  BY DEF RecurringTypeOK
<1>2. /\ runs'[r][due] = runs[r][due] + 1
      /\ \A d \in Times \ {due} : runs'[r][d] = runs[r][d]
      /\ \A s \in Schedules \ {r} : runs'[s] = runs[s]
  BY <1>1 DEF RecurringTypeOK
<1>3. RunCount(r)' = RunCount(r) + 1
  <2>1. SumFunction(runs'[r]) + runs[r][due] = SumFunction(runs[r]) + runs'[r][due]
    BY <1>1, <1>2, TimesFinite, SumChanges
  <2>2. runs[r][due] \in Nat /\ RunCount(r) \in Nat /\ RunCount(r)' \in Nat
    BY <1>1, TakenType, TakenTypeNext
  <2> QED BY <1>2, <2>1, <2>2 DEF RunCount
<1>4. \A s \in Schedules \ {r} : RunCount(s)' = RunCount(s)
  BY <1>2 DEF RunCount
<1>5. Taken[r] \in Nat /\ Price[r] \in Nat /\ Taken'[r] = Taken[r] + Price[r]
  <2>1. Price[r] \in Nat /\ RunCount(r) \in Nat
    BY RecurringAssumption, TakenType
  <2>2. Taken[r] = Price[r] * RunCount(r) /\ Taken'[r] = Price[r] * (RunCount(r) + 1)
    BY <1>3 DEF Taken
  <2>3. Taken[r] \in Nat
    BY TakenType
  <2> QED BY <2>1, <2>2, <2>3
<1>6. \A s \in Schedules \ {r} : Taken'[s] = Taken[s]
  BY <1>4 DEF Taken
<1>7. SumFunction(Taken') + Taken[r] = SumFunction(Taken) + Taken'[r]
  <2>1. Taken \in [Schedules -> Nat] /\ Taken' \in [Schedules -> Nat]
    BY TakenType, TakenTypeNext
  <2> QED BY <1>6, <2>1, SumChanges DEF FiniteBooks
<1>8. /\ Confirmed \in Nat /\ Confirmed = SumFunction(Taken)
      /\ Confirmed' \in Nat /\ Confirmed' = SumFunction(Taken')
  BY TakenType, TakenTypeNext
<1> QED BY <1>5, <1>7, <1>8

\* What a step of the recurring transfers keeps.
RecurringKept ==
  /\ balance' \in [Users -> Nat] /\ DueInv'
  /\ SumFunction(balance') + Confirmed' = SumFunction(balance) + Confirmed

LEMMA RecurringKeeps ==
  ASSUME FiniteBooks, LedgerTypeOK, DueInv, RecurringStep
  PROVE  RecurringTypeOK' /\ RecurringKept
<1>1. balance \in [Users -> Nat] /\ RecurringTypeOK /\ RecurringTypeOK'
  BY StepTypeOK DEF LedgerTypeOK
<1>2. \A r \in Schedules : schedule[r] # "none" => nextRun[r] >= 1
  BY DEF DueInv
<1>3. \A p \in Passes, r \in Schedules :
        pass[p][r] # NoTask => schedule[r] # "none" /\ pass[p][r].due \in Times
  BY DEF DueInv
<1>4. now \in 0 .. MaxTime /\ MaxTime \in Nat /\ \A r \in Schedules : nextRun[r] \in 0 .. MaxTime + 1
  BY <1>1, RecurringAssumption DEF RecurringTypeOK
<1>5. ASSUME UNCHANGED <<balance, runs>>, DueInv' PROVE RecurringKept
  <2>1. Confirmed' = Confirmed
    BY <1>5 DEF Confirmed, RunCount
  <2> QED BY <1>1, <1>5, <2>1 DEF RecurringKept
<1>6. ASSUME NEW r \in Schedules, Create(r) PROVE RecurringKept
  <2>1. /\ schedule' = [schedule EXCEPT ![r] = "active"]
        /\ nextRun' = [nextRun EXCEPT ![r] = now + 1] /\ pass' = pass
    BY <1>6 DEF Create
  <2>2. DueInv'
    BY <1>1, <1>2, <1>3, <1>4, <2>1 DEF DueInv, RecurringTypeOK
  <2> QED BY <1>5, <1>6, <2>2 DEF Create
<1>7. ASSUME NEW r \in Schedules, Cancel(r) PROVE RecurringKept
  <2>1. /\ schedule[r] # "none" /\ schedule' = [schedule EXCEPT ![r] = "cancelled"]
        /\ nextRun' = nextRun /\ pass' = pass
    BY <1>7 DEF Cancel
  <2>2. DueInv'
    BY <1>1, <1>2, <1>3, <2>1 DEF DueInv, RecurringTypeOK
  <2> QED BY <1>5, <1>7, <2>2 DEF Cancel
<1>8. ASSUME NEW p \in Passes, StartPass(p) PROVE RecurringKept
  <2> DEFINE tasks == [r \in Schedules |->
          IF Due(r) THEN [due |-> nextRun[r], funded |-> Covers(Payer[r], Price[r])] ELSE NoTask]
  <2>1. /\ pass' = [pass EXCEPT ![p] = tasks] /\ schedule' = schedule /\ nextRun' = nextRun
    BY <1>8 DEF StartPass
  <2>2. \A r \in Schedules :
          tasks[r] # NoTask => schedule[r] # "none" /\ tasks[r].due \in Times
    <3>1. \A r \in Schedules : Due(r) => schedule[r] # "none" /\ nextRun[r] \in Times
      BY <1>2, <1>4 DEF Due, Times
    <3> QED BY <3>1
  <2>3. \A q \in Passes, r \in Schedules : pass'[q][r] = IF q = p THEN tasks[r] ELSE pass[q][r]
    <3> HIDE DEF tasks
    <3> QED BY <1>1, <2>1 DEF RecurringTypeOK
  <2> HIDE DEF tasks
  <2>4. DueInv'
    BY <1>2, <1>3, <2>1, <2>2, <2>3 DEF DueInv
  <2> QED BY <1>5, <1>8, <2>4 DEF StartPass
<1>9. ASSUME NEW p \in Passes, NEW r \in Schedules,
             EndSchedule(p, r) \/ SkipRun(p, r) \/ RunSchedule(p, r) \/ RefuseRun(p, r)
      PROVE  RecurringKept
  <2>1. pass[p][r] # NoTask /\ pass' = [pass EXCEPT ![p][r] = NoTask]
    BY <1>9 DEF EndSchedule, SkipRun, RunSchedule, RefuseRun, Handles
  <2>2. \A q \in Passes, s \in Schedules :
          pass'[q][s] = IF q = p /\ s = r THEN NoTask ELSE pass[q][s]
    BY <1>1, <2>1 DEF RecurringTypeOK
  <2> DEFINE due == pass[p][r].due
  <2>3. due \in Times /\ schedule[r] # "none"
    BY <1>3, <2>1
  <2>4. NextRun(due) \in Nat /\ NextRun(due) >= 1
    BY <1>4, <2>3 DEF NextRun, Times
  <2>5. CASE EndSchedule(p, r)
    <3>1. /\ schedule' = [schedule EXCEPT ![r] = "completed"] /\ nextRun' = nextRun
          /\ UNCHANGED <<balance, runs>>
      BY <2>5 DEF EndSchedule
    <3>2. DueInv'
      BY <1>1, <1>2, <1>3, <2>2, <2>3, <3>1 DEF DueInv, RecurringTypeOK
    <3> QED BY <1>5, <3>1, <3>2
  <2>6. CASE SkipRun(p, r) \/ RunSchedule(p, r)
    <3>1. schedule' = schedule /\ nextRun' = [nextRun EXCEPT ![r] = NextRun(due)]
      BY <2>6 DEF SkipRun, RunSchedule
    <3> HIDE DEF due
    <3>2. DueInv'
      BY <1>1, <1>2, <1>3, <2>2, <2>4, <3>1 DEF DueInv, RecurringTypeOK
    <3>3. CASE SkipRun(p, r)
      BY <1>5, <3>2, <3>3 DEF SkipRun
    <3>4. CASE RunSchedule(p, r)
      <4>1. Price[r] \in Nat /\ Payer[r] \in Users
        BY RecurringAssumption
      <4>2. /\ balance' \in [Users -> Nat]
            /\ SumFunction(balance') + Price[r] = SumFunction(balance)
        BY <1>1, <3>4, <4>1, DebitSum DEF RunSchedule
      <4>3. runs' = [runs EXCEPT ![r][due] = @ + 1]
        BY <3>4 DEF RunSchedule, due
      <4>4. Confirmed' = Confirmed + Price[r]
        BY <1>1, <2>3, <4>3, OneMoreRun
      <4>5. Confirmed \in Nat /\ SumFunction(balance) \in Nat /\ SumFunction(balance') \in Nat
        BY <1>1, <4>2, TakenType, SumFunctionType DEF FiniteBooks
      <4>6. SumFunction(balance') + Confirmed' = SumFunction(balance) + Confirmed
        BY <4>1, <4>2, <4>4, <4>5
      <4> QED BY <3>2, <4>2, <4>6 DEF RecurringKept
    <3> QED BY <2>6, <3>3, <3>4
  <2>7. CASE RefuseRun(p, r)
    <3>1. UNCHANGED <<schedule, nextRun, balance, runs>>
      BY <2>7 DEF RefuseRun
    <3>2. DueInv'
      BY <1>1, <1>2, <1>3, <2>2, <3>1 DEF DueInv, RecurringTypeOK
    <3> QED BY <1>5, <3>1, <3>2
  <2> QED BY <1>9, <2>5, <2>6, <2>7
<1>10. ASSUME Tick PROVE RecurringKept
  <2>1. DueInv'
    BY <1>2, <1>3, <1>10 DEF Tick, DueInv
  <2> QED BY <1>5, <1>10, <2>1 DEF Tick
<1> QED BY <1>1, <1>6, <1>7, <1>8, <1>9, <1>10 DEF RecurringStep, HandleTask

-----------------------------------------------------------------------------
(***************************************************************************)
(* All steps.                                                              *)
(***************************************************************************)
LEMMA CrashKeeps ==
  ASSUME BooksInv, Crash
  PROVE  BooksInv' /\ (~ SplitCrash /\ Conserved => Conserved')
<1>1. LedgerTypeOK /\ TransferInv /\ DueInv
  BY DEF BooksInv
<1>2. balance' = balance /\ escrow' = escrow /\ crashes' \in 0 .. MaxCrashes
  BY <1>1, LedgerAssumption DEF Crash, CrashTransfers, LedgerTypeOK
<1>3. /\ pc' = [t \in Transfers |-> IF pc[t] = "idle" THEN "idle" ELSE "done"]
      /\ account' = [u \in Users |-> IF account[u] = "verified" THEN "active" ELSE account[u]]
  BY DEF Crash, CrashTransfers
<1>4. TransfersTypeOK' /\ TransferInv'
  BY <1>1, <1>2, <1>3
  DEF LedgerTypeOK, TransfersTypeOK, TransferInv, AccountStates, TransferLabels
<1>5. /\ UNCHANGED <<now, schedule, nextRun, runs>>
      /\ pass' = [p \in Passes |-> [r \in Schedules |-> NoTask]]
  BY DEF Crash, CrashRecurring
<1>6. RecurringTypeOK' /\ DueInv'
  BY <1>1, <1>5, TaskTypes DEF LedgerTypeOK, RecurringTypeOK, DueInv
<1>7. ASSUME ~ SplitCrash, Conserved PROVE Conserved'
  <2>1. \A t \in Transfers : pc[t] # "debited"
    BY <1>7 DEF Crash, CrashTransfers
  <2>2. \A t \in Transfers : Waits(t)' <=> Waits(t)
    BY <1>2, <1>3, <2>1 DEF Waits
  <2>3. OnItsWay' = OnItsWay /\ Confirmed' = Confirmed
    BY <1>5, <2>2, WayKept DEF Confirmed, RunCount
  <2> QED BY <1>2, <1>7, <2>3 DEF Conserved
<1> QED BY <1>1, <1>2, <1>4, <1>6, <1>7 DEF BooksInv, LedgerTypeOK

LEMMA StepKeepsBooks ==
  ASSUME FiniteBooks, BooksInv, [Next]_vars
  PROVE  BooksInv' /\ (~ SplitCrash /\ Conserved => Conserved')
<1>1. LedgerTypeOK /\ TransferInv /\ DueInv
  BY DEF BooksInv
<1>2. /\ SumFunction(balance) \in Nat /\ OnItsWay \in Nat /\ OnItsWay' \in Nat
      /\ Confirmed \in Nat
  BY <1>1, BooksTypes, WayTypeNext, TakenType DEF LedgerTypeOK
<1>3. CASE TransferStep /\ UNCHANGED <<recurringVars, crashes>>
  <2>1. TransfersKept
    BY <1>1, <1>3, TransferKeeps, SignUpKeeps DEF TransferStep
  <2>2. RecurringTypeOK' /\ DueInv' /\ Confirmed' = Confirmed
    BY <1>1, <1>3
    DEF recurringVars, LedgerTypeOK, RecurringTypeOK, DueInv, Confirmed, RunCount
  <2>3. SumFunction(balance') \in Nat
    BY <2>1, SumFunctionType DEF FiniteBooks, TransfersKept
  <2>4. Conserved => Conserved'
    BY <1>2, <2>1, <2>2, <2>3 DEF TransfersKept, Conserved
  <2> QED BY <1>1, <1>3, <2>1, <2>2, <2>4 DEF TransfersKept, BooksInv, LedgerTypeOK
<1>4. CASE RecurringStep /\ UNCHANGED <<transferVars, crashes>>
  <2>1. RecurringTypeOK' /\ RecurringKept
    BY <1>1, <1>4, RecurringKeeps
  <2>2. UNCHANGED <<account, escrow, pc, crashes>>
    BY <1>4 DEF transferVars
  <2>3. TransfersTypeOK' /\ TransferInv'
    BY <1>1, <2>2 DEF LedgerTypeOK, TransfersTypeOK, TransferInv
  <2>4. OnItsWay' = OnItsWay
    <3>1. \A t \in Transfers : Waits(t)' <=> Waits(t)
      BY <2>2 DEF Waits
    <3> QED BY <3>1, WayKept
  <2>5. SumFunction(balance') \in Nat /\ Confirmed' \in Nat
    BY <2>1, SumFunctionType, TakenTypeNext DEF FiniteBooks, RecurringKept
  <2>6. Conserved => Conserved'
    BY <1>2, <2>1, <2>4, <2>5 DEF RecurringKept, Conserved
  <2> QED BY <1>1, <2>1, <2>2, <2>3, <2>6 DEF RecurringKept, BooksInv, LedgerTypeOK
<1>5. CASE Crash
  BY <1>5, CrashKeeps
<1>6. CASE UNCHANGED vars
  <2>1. UNCHANGED <<balance, account, escrow, pc, now, schedule, nextRun, pass, runs, crashes>>
    BY <1>6 DEF vars, transferVars, recurringVars
  <2>2. LedgerTypeOK' /\ TransferInv' /\ DueInv'
    BY <1>1, <2>1
    DEF LedgerTypeOK, TransfersTypeOK, RecurringTypeOK, TransferInv, DueInv
  <2>3. OnItsWay' = OnItsWay
    <3>1. \A t \in Transfers : Waits(t)' <=> Waits(t)
      BY <2>1 DEF Waits
    <3> QED BY <3>1, WayKept
  <2>4. Confirmed' = Confirmed
    BY <2>1 DEF Confirmed, RunCount
  <2> QED BY <2>1, <2>2, <2>3, <2>4 DEF BooksInv, Conserved
<1> QED BY <1>3, <1>4, <1>5, <1>6 DEF Next

LEMMA InitBooks ==
  ASSUME FiniteBooks, Init
  PROVE  BooksInv /\ Conserved
<1>1. balance \in [Users -> Nat] /\ balance = Opening
  BY OpeningAssumption DEF Init, InitBalances
<1>2. TransfersTypeOK /\ TransferInv
  BY DEF Init, InitTransfers, TransfersTypeOK, TransferInv, AccountStates, EscrowStates,
         TransferLabels
<1>3. RecurringTypeOK
  BY InitScheduleInv
<1>4. DueInv
  BY DEF Init, InitRecurring, DueInv
<1>5. OnItsWay = 0
  <2>1. OnWay = {}
    BY DEF OnWay, Waits, Init, InitTransfers
  <2> QED BY <2>1, WayType, SumOfNone
<1>6. Confirmed = 0
  <2>1. \A r \in Schedules : RunCount(r) = 0
    <3> SUFFICES ASSUME NEW r \in Schedules PROVE RunCount(r) = 0
      OBVIOUS
    <3>1. runs[r] = [d \in Times |-> 0]
      BY DEF Init, InitRecurring
    <3> QED BY <3>1, TimesFinite, SumOfZeros DEF RunCount
  <2>2. Taken = [r \in Schedules |-> 0]
    BY <2>1, RecurringAssumption DEF Taken
  <2> QED BY <1>3, <2>2, TakenType, SumOfZeros DEF FiniteBooks
<1>7. Conserved
  <2>1. SumFunction(balance) \in Nat
    BY <1>1, SumFunctionType DEF FiniteBooks
  <2> QED BY <1>1, <1>5, <1>6, <2>1 DEF Conserved
<1>8. LedgerTypeOK
  BY <1>1, <1>2, <1>3, LedgerAssumption DEF LedgerTypeOK, Init
<1> QED BY <1>2, <1>4, <1>7, <1>8 DEF BooksInv

\* No balance goes below zero, and everything else keeps its type, whatever the
\* requests, the passes of the worker, the sign-ups and the restarts do.
THEOREM LedgerTypeCorrect ==
  ASSUME FiniteBooks
  PROVE  Spec => []LedgerTypeOK
<1>1. BooksInv /\ [Next]_vars => BooksInv'
  BY StepKeepsBooks
<1>2. Init => BooksInv
  BY InitBooks
<1>3. BooksInv => LedgerTypeOK
  BY DEF BooksInv
<1> QED BY <1>1, <1>2, <1>3, PTL DEF Spec

\* No step creates or destroys money: the transfers, the claims of those who join,
\* the recurring runs and the restarts in any order, for any number of users, as
\* long as no restart falls between the statements of a transfer to a wallet.
THEOREM MoneyConserved ==
  ASSUME FiniteBooks, ~ SplitCrash
  PROVE  Spec => []Conserved
<1>1. BooksInv /\ Conserved /\ [Next]_vars => (BooksInv /\ Conserved)'
  BY StepKeepsBooks
<1>2. Init => BooksInv /\ Conserved
  BY InitBooks
<1> QED BY <1>1, <1>2, PTL DEF Spec
=============================================================================
