--------------------------- MODULE DepositsProofs ---------------------------
(***************************************************************************)
(* Deposits are credited once, and only when they have arrived, for any    *)
(* number of transactions, wires, webhook requests and restarts, as long   *)
(* as no two transactions of Circle's list share a hash on the chain.      *)
(***************************************************************************)
EXTENDS Deposits, TLAPS

HashesDiffer == \A s, t \in Transactions : Hash[s] = Hash[t] => s = t

(***************************************************************************)
(* Whoever is about to promote a row has a final report about it, or about *)
(* a transaction with the hash of the row.                                 *)
(***************************************************************************)
PromoteOK(f) ==
  at[f] = "promote" => task[f].final /\ Hash[task[f].row] = Hash[task[f].of]

TaskInv == \A f \in Finders : PromoteOK(f)

\* A report that may go to a label.
Fits(label, j) ==
  \/ label = "idle"
  \/ /\ label \in {"by_hash", "by_ref", "promote", "patch", "insert"}
     /\ ReportOK(j)
     /\ label = "promote" => j.final /\ Hash[j.row] = Hash[j.of]
  \/ label \in {"credit_wire", "record_wire"} /\ j \in Tasks /\ j.of \in Wires

Moves(f) == \E label, j : Go(f, label, j) /\ Fits(label, j)

-----------------------------------------------------------------------------
LEMMA InitDepositsInv == Init => DepositsTypeOK /\ TaskInv
  BY DepositsAssumption
  DEF Init, DepositsTypeOK, TaskOK, TaskInv, PromoteOK, Labels

LEMMA ReportTypes ==
  ASSUME NEW t \in Transactions, NEW final \in BOOLEAN, NEW hash \in BOOLEAN,
         DepositsTypeOK, Reported(t, final)
  PROVE  ReportOK(Report(t, final, hash))
  BY DEF Report, ReportOK, Tasks, Reported, DepositsTypeOK

\* A lookup leads to a label that the report fits.
LEMMA LookUpHashMoves ==
  ASSUME NEW f \in Finders, NEW j, NEW missing \in {"by_ref", "insert"},
         DepositsTypeOK, ReportOK(j), LookUpHash(f, j, missing)
  PROVE  Moves(f)
<1>1. CASE WithHash(j.of) = {} /\ Go(f, missing, j)
  BY <1>1 DEF Moves, Fits
<1>2. ASSUME NEW s \in WithHash(j.of), row[s] = "pending", j.final,
             Go(f, "promote", [j EXCEPT !.row = s])
      PROVE  Moves(f)
  <2> DEFINE k == [j EXCEPT !.row = s]
  <2>1. s \in Transactions /\ Hash[s] = Hash[j.of]
    BY DEF WithHash
  <2>2. /\ k \in Tasks
        /\ k.of = j.of /\ k.final = j.final /\ k.row = s
    BY <2>1 DEF ReportOK, Tasks
  <2>3. Fits("promote", k)
    BY <1>2, <2>1, <2>2 DEF Fits, ReportOK
  <2> QED BY <1>2, <2>3 DEF Moves
<1>3. CASE End(f)
  BY <1>3 DEF Moves, Fits, End
<1> QED BY <1>1, <1>2, <1>3 DEF LookUpHash

LEMMA LookUpRefMoves ==
  ASSUME NEW f \in Finders, NEW j, NEW missing \in {"by_hash", "insert"},
         DepositsTypeOK, ReportOK(j), LookUpRef(f, j, missing)
  PROVE  Moves(f)
<1>1. CASE Go(f, missing, j)
  BY <1>1 DEF Moves, Fits
<1>2. ASSUME j.final, Go(f, "promote", [j EXCEPT !.row = j.of, !.hash = @ \/ hashed[j.of]])
      PROVE  Moves(f)
  <2> DEFINE k == [j EXCEPT !.row = j.of, !.hash = @ \/ hashed[j.of]]
  <2>1. (j.hash \/ hashed[j.of]) \in BOOLEAN
    OBVIOUS
  <2>2. /\ k \in Tasks
        /\ k.of = j.of /\ k.final = j.final /\ k.row = j.of
    BY <2>1 DEF ReportOK, Tasks
  <2>3. Fits("promote", k)
    BY <1>2, <2>2 DEF Fits, ReportOK
  <2> QED BY <1>2, <2>3 DEF Moves
<1>3. CASE Go(f, "patch", j)
  BY <1>3 DEF Moves, Fits
<1>4. CASE End(f)
  BY <1>4 DEF Moves, Fits, End
<1>5. row[j.of] \in {"none", "pending", "completed"}
  BY DEF ReportOK, DepositsTypeOK
<1> QED BY <1>1, <1>2, <1>3, <1>4, <1>5 DEF LookUpRef

\* A finder that moves to a label its report fits keeps types and invariant,
\* as the others do not move.
LEMMA MovesOK ==
  ASSUME NEW f \in Finders, DepositsTypeOK, TaskInv, Moves(f), UNCHANGED chain
  PROVE  /\ at' \in [Finders -> Labels]
         /\ DOMAIN task' = Finders
         /\ \A g \in Finders : TaskOK(g)'
         /\ TaskInv'
<1> PICK label, j : Go(f, label, j) /\ Fits(label, j)
  BY DEF Moves
<1>1. label \in Labels
  BY DEF Fits, Labels
<1>2. at' \in [Finders -> Labels] /\ DOMAIN task' = Finders
  BY <1>1 DEF Go, DepositsTypeOK
<1>3. at'[f] = label /\ task'[f] = j
  BY DEF Go, DepositsTypeOK
<1>4. ASSUME NEW g \in Finders PROVE TaskOK(g)' /\ PromoteOK(g)'
  <2>1. CASE g = f
    BY <1>3, <2>1 DEF Fits, TaskOK, PromoteOK, ReportOK
  <2>2. CASE g # f
    <3>1. at'[g] = at[g] /\ task'[g] = task[g]
      BY <2>2 DEF Go, DepositsTypeOK
    <3>2. TaskOK(g) /\ PromoteOK(g)
      BY DEF DepositsTypeOK, TaskInv
    <3> QED BY <3>1, <3>2 DEF TaskOK, PromoteOK, ReportOK
  <2> QED BY <2>1, <2>2
<1> QED BY <1>2, <1>4 DEF TaskInv

-----------------------------------------------------------------------------
(***************************************************************************)
(* What a step may do to the rows: nothing that shows in CreditsMatch, or  *)
(* credit one transaction that has arrived and complete its row, which was *)
(* not completed.                                                          *)
(***************************************************************************)
RowTypes ==
  /\ row \in [Transactions \cup Wires -> {"none", "pending", "completed"}]
  /\ hashed \in [Transactions -> BOOLEAN]
  /\ credits \in [Transactions \cup Wires -> Nat]

Quiet ==
  \A t \in Transactions :
    credits'[t] = credits[t] /\ (row'[t] = "completed" <=> row[t] = "completed")

Completes(t) ==
  /\ chain[t] = "complete"
  /\ row[t] # "completed" /\ row'[t] = "completed"
  /\ credits' = [credits EXCEPT ![t] = @ + 1]
  /\ \A s \in Transactions \ {t} : row'[s] = row[s]

RowStep == Quiet \/ \E t \in Transactions : Completes(t)

LEMMA InsertStep ==
  ASSUME NEW j, DepositsTypeOK, ReportOK(j), InsertRow(j)
  PROVE  RowTypes' /\ RowStep
<1>1. CASE UNCHANGED rows
  BY <1>1 DEF rows, RowTypes, RowStep, Quiet, DepositsTypeOK
<1>2. CASE row[j.of] = "none" /\ (j.hash => WithHash(j.of) = {})
  <2>1. j.of \in Transactions /\ j.hash \in BOOLEAN /\ j.final \in BOOLEAN
    BY DEF ReportOK, Tasks
  <2>2. /\ row' = [row EXCEPT ![j.of] = IF j.final THEN "completed" ELSE "pending"]
        /\ hashed' = [hashed EXCEPT ![j.of] = j.hash]
        /\ credits' = [credits EXCEPT ![j.of] = IF j.final THEN @ + 1 ELSE @]
    BY <1>2 DEF InsertRow
  <2>3. RowTypes'
    BY <2>1, <2>2 DEF RowTypes, DepositsTypeOK
  <2>4. CASE j.final
    <3>1. Completes(j.of)
      BY <1>2, <2>1, <2>2, <2>4 DEF Completes, ReportOK, DepositsTypeOK
    <3> QED BY <2>1, <2>3, <3>1 DEF RowStep
  <2>5. CASE ~ j.final
    <3>1. Quiet
      BY <1>2, <2>1, <2>2, <2>5 DEF Quiet, DepositsTypeOK
    <3> QED BY <2>3, <3>1 DEF RowStep
  <2> QED BY <2>4, <2>5
<1> QED BY <1>1, <1>2 DEF InsertRow

LEMMA PatchStep ==
  ASSUME NEW j, j.of \in Transactions, DepositsTypeOK, PatchRow(j)
  PROVE  RowTypes' /\ RowStep
  BY DEF PatchRow, rows, RowTypes, RowStep, Quiet, DepositsTypeOK

LEMMA PromoteTypes ==
  ASSUME NEW j, DepositsTypeOK, ReportOK(j), PromoteRow(j)
  PROVE  RowTypes'
<1>1. /\ j.of \in Transactions /\ j.row \in Transactions
      /\ j.hash \in BOOLEAN
  BY DEF ReportOK, Tasks
<1> QED BY <1>1 DEF PromoteRow, rows, RowTypes, DepositsTypeOK

LEMMA PromoteStep ==
  ASSUME NEW j, DepositsTypeOK, ReportOK(j), PromoteRow(j),
         j.final, Hash[j.row] = Hash[j.of], HashesDiffer
  PROVE  RowStep
<1>1. j.of \in Transactions /\ j.row = j.of /\ chain[j.of] = "complete"
  BY DEF ReportOK, HashesDiffer
<1>2. CASE UNCHANGED rows
  BY <1>2 DEF rows, RowStep, Quiet
<1>3. CASE /\ row[j.row] = "pending"
           /\ row' = [row EXCEPT ![j.row] = "completed"]
           /\ credits' = [credits EXCEPT ![j.of] = @ + 1]
  <2>1. Completes(j.of)
    BY <1>1, <1>3 DEF Completes, DepositsTypeOK
  <2> QED BY <1>1, <2>1 DEF RowStep
<1> QED BY <1>2, <1>3 DEF PromoteRow

-----------------------------------------------------------------------------
(***************************************************************************)
(* One lemma per group of actions: it keeps types and invariant, and is a  *)
(* RowStep.                                                                *)
(***************************************************************************)
DepositsInv == DepositsTypeOK /\ TaskInv

\* What a promotion needs and only distinct hashes give.
StepOK == DepositsInv' /\ (HashesDiffer => RowStep)

LEMMA LookUpsOK ==
  ASSUME DepositsInv, NEW f \in Finders, Moves(f),
         UNCHANGED <<chain, rows, crashes>>,
         notices' \in [Wires -> 0 .. MaxNotices]
  PROVE  StepOK
<1>1. RowStep
  BY DEF rows, RowStep, Quiet
<1>2. DepositsInv'
  BY MovesOK DEF DepositsInv, DepositsTypeOK, rows
<1> QED BY <1>1, <1>2 DEF StepOK

LEMMA WritesOK ==
  ASSUME DepositsInv, NEW f \in Finders, Promote(f) \/ Patch(f) \/ Insert(f)
  PROVE  StepOK
<1> USE DEF DepositsInv
<1>1. End(f) /\ UNCHANGED <<chain, notices, crashes>>
  BY DEF Promote, Patch, Insert, Finish
<1>2. Moves(f)
  BY <1>1 DEF End, Moves, Fits
<1>3. ASSUME RowTypes' PROVE DepositsInv'
  BY <1>1, <1>2, <1>3, MovesOK DEF DepositsTypeOK, RowTypes
<1>4. ReportOK(task[f]) /\ (at[f] = "promote" => PromoteOK(f))
  <2>1. TaskOK(f) /\ PromoteOK(f)
    BY DEF DepositsTypeOK, TaskInv
  <2>2. at[f] \in {"promote", "patch", "insert"}
    BY DEF Promote, Patch, Insert, Finish
  <2> QED BY <2>1, <2>2 DEF TaskOK
<1>5. CASE Promote(f)
  <2>1. at[f] = "promote" /\ PromoteRow(task[f])
    BY <1>5 DEF Promote, Finish
  <2>2. RowTypes'
    BY <1>4, <2>1, PromoteTypes
  <2>3. HashesDiffer => RowStep
    BY <1>4, <2>1, PromoteStep DEF PromoteOK
  <2> QED BY <1>3, <2>2, <2>3 DEF StepOK
<1>6. CASE Patch(f)
  <2>1. PatchRow(task[f]) /\ task[f].of \in Transactions
    BY <1>4, <1>6 DEF Patch, Finish, ReportOK
  <2> QED BY <1>3, <2>1, PatchStep DEF StepOK
<1>7. CASE Insert(f)
  <2>1. InsertRow(task[f])
    BY <1>7 DEF Insert, Finish
  <2> QED BY <1>3, <1>4, <2>1, InsertStep DEF StepOK
<1> QED BY <1>5, <1>6, <1>7

LEMMA NotifyOK ==
  ASSUME DepositsInv, NEW h \in Hooks
  PROVE  /\ \A t \in Transactions, final, hash \in BOOLEAN :
              Notify(h, t, final, hash) => StepOK
         /\ NotifyByHash(h) => StepOK
<1> h \in Finders
  BY DEF Finders
<1>1. ASSUME NEW t \in Transactions, NEW final \in BOOLEAN, NEW hash \in BOOLEAN,
             Notify(h, t, final, hash)
      PROVE  StepOK
  <2> DEFINE j == Report(t, final, hash)
             missing == IF hash THEN "by_hash" ELSE "insert"
  <2>1. ReportOK(j)
    BY <1>1, ReportTypes DEF Notify, DepositsInv
  <2>2. LookUpRef(h, j, missing) /\ missing \in {"by_hash", "insert"}
    BY <1>1 DEF Notify
  <2>3. Moves(h)
    <3> HIDE DEF j, missing
    <3> QED BY <2>1, <2>2, LookUpRefMoves DEF DepositsInv
  <2>4. UNCHANGED <<chain, rows, notices, crashes>>
    BY <1>1 DEF Notify
  <2> QED BY <2>3, <2>4, LookUpsOK DEF DepositsInv, DepositsTypeOK
<1>2. ASSUME NotifyByHash(h) PROVE StepOK
  <2>1. at[h] = "by_hash" /\ LookUpHash(h, task[h], "insert")
        /\ UNCHANGED <<chain, rows, notices, crashes>>
    BY <1>2 DEF NotifyByHash
  <2>2. ReportOK(task[h])
    BY <2>1 DEF DepositsInv, DepositsTypeOK, TaskOK
  <2>3. Moves(h)
    BY <2>1, <2>2, LookUpHashMoves DEF DepositsInv
  <2> QED BY <2>1, <2>3, LookUpsOK DEF DepositsInv, DepositsTypeOK
<1> QED BY <1>1, <1>2

LEMMA WiresOK ==
  ASSUME DepositsInv, NEW h \in Hooks
  PROVE  /\ \A w \in Wires : NotifyWire(h, w) => StepOK
         /\ CreditWire(h) \/ RecordWire(h) => StepOK
<1> USE DEF DepositsInv
<1> h \in Finders
  BY DEF Finders
<1>1. ASSUME NEW w \in Wires, NotifyWire(h, w) PROVE StepOK
  <2>1. Report(w, TRUE, FALSE) \in Tasks /\ Report(w, TRUE, FALSE).of = w
    BY DEF Report, Tasks
  <2>2. Moves(h)
    BY <1>1, <2>1 DEF NotifyWire, Moves, Fits, End
  <2>3. notices' \in [Wires -> 0 .. MaxNotices]
    BY <1>1, DepositsAssumption DEF NotifyWire, DepositsTypeOK
  <2>4. UNCHANGED <<chain, rows, crashes>>
    BY <1>1 DEF NotifyWire
  <2> QED BY <2>2, <2>3, <2>4, LookUpsOK
<1>2. ASSUME at[h] \in {"credit_wire", "record_wire"}
      PROVE  task[h] \in Tasks /\ task[h].of \in Wires /\ task[h].of \notin Transactions
  BY <1>2, DepositsAssumption DEF DepositsTypeOK, TaskOK
<1>3. ASSUME CreditWire(h) PROVE StepOK
  <2>1. at[h] = "credit_wire"
    BY <1>3 DEF CreditWire
  <2>2. Moves(h)
    BY <1>2, <1>3, <2>1 DEF CreditWire, Moves, Fits
  <2>3. RowTypes' /\ RowStep
    BY <1>2, <1>3, <2>1 DEF CreditWire, RowTypes, RowStep, Quiet, DepositsTypeOK
  <2>4. UNCHANGED <<chain, notices, crashes>>
    BY <1>3 DEF CreditWire
  <2> QED BY <2>2, <2>3, <2>4, MovesOK DEF StepOK, DepositsTypeOK, RowTypes
<1>4. ASSUME RecordWire(h) PROVE StepOK
  <2>1. at[h] = "record_wire"
    BY <1>4 DEF RecordWire
  <2>2. Moves(h)
    BY <1>4 DEF RecordWire, End, Moves, Fits
  <2>3. RowTypes' /\ RowStep
    BY <1>2, <1>4, <2>1 DEF RecordWire, RowTypes, RowStep, Quiet, DepositsTypeOK
  <2>4. UNCHANGED <<chain, notices, crashes>>
    BY <1>4 DEF RecordWire
  <2> QED BY <2>2, <2>3, <2>4, MovesOK DEF StepOK, DepositsTypeOK, RowTypes
<1> QED BY <1>1, <1>3, <1>4

LEMMA PollOK ==
  ASSUME DepositsInv
  PROVE  /\ \A t \in Transactions, final \in BOOLEAN : List(t, final) => StepOK
         /\ PollStep => StepOK
<1> Poll \in Finders
  BY DEF Finders
<1>1. ASSUME NEW t \in Transactions, NEW final \in BOOLEAN, List(t, final)
      PROVE  StepOK
  <2> DEFINE j == Report(t, final, TRUE)
  <2>1. ReportOK(j)
    BY <1>1, ReportTypes DEF List, DepositsInv
  <2>2. LookUpHash(Poll, j, "by_ref") /\ UNCHANGED <<chain, rows, notices, crashes>>
    BY <1>1 DEF List
  <2>3. Moves(Poll)
    <3> HIDE DEF j
    <3> QED BY <2>1, <2>2, LookUpHashMoves DEF DepositsInv
  <2> QED BY <2>2, <2>3, LookUpsOK DEF DepositsInv, DepositsTypeOK
<1>2. ASSUME ListByRef PROVE StepOK
  <2>1. at[Poll] = "by_ref" /\ LookUpRef(Poll, task[Poll], "insert")
        /\ UNCHANGED <<chain, rows, notices, crashes>>
    BY <1>2 DEF ListByRef
  <2>2. ReportOK(task[Poll])
    BY <2>1 DEF DepositsInv, DepositsTypeOK, TaskOK
  <2>3. Moves(Poll)
    BY <2>1, <2>2, LookUpRefMoves DEF DepositsInv
  <2> QED BY <2>1, <2>3, LookUpsOK DEF DepositsInv, DepositsTypeOK
<1>3. ASSUME Promote(Poll) \/ Patch(Poll) \/ Insert(Poll) PROVE StepOK
  BY <1>3, WritesOK
<1> QED BY <1>1, <1>2, <1>3 DEF PollStep

LEMMA ScansOK ==
  ASSUME DepositsInv, NEW t \in Transactions, ScanArc(t) \/ Backfill(t)
  PROVE  StepOK
<1> USE DEF DepositsInv
<1>1. RowTypes' /\ RowStep
  <2>1. CASE ScanArc(t)
    BY <2>1, ReportTypes, InsertStep DEF ScanArc
  <2>2. CASE Backfill(t)
    BY <2>2, PatchStep DEF Backfill, Report
  <2> QED BY <2>1, <2>2
<1>2. UNCHANGED <<chain, at, task, notices, crashes>>
  BY DEF ScanArc, Backfill
<1> QED BY <1>1, <1>2
  DEF StepOK, DepositsTypeOK, RowTypes, TaskOK, ReportOK, TaskInv, PromoteOK

\* A transaction Circle knows stays known, and a complete one complete.
LEMMA CircleOK ==
  ASSUME DepositsInv, NEW t \in Transactions, Circle(t)
  PROVE  StepOK
<1>1. PICK from \in SUBSET {"none", "pending"}, to \in {"pending", "complete", "failed"} :
        Advance(t, from, to)
  BY DEF Circle
<1>2. /\ chain[t] \in {"none", "pending"}
      /\ chain' = [chain EXCEPT ![t] = to]
      /\ UNCHANGED <<rows, at, task, notices, crashes>>
  BY <1>1 DEF Advance
<1>3. chain' \in [Transactions -> {"none", "pending", "complete", "failed"}]
  BY <1>2 DEF DepositsInv, DepositsTypeOK
<1>4. ASSUME NEW f \in Finders PROVE TaskOK(f)'
  <2>1. TaskOK(f)
    BY DEF DepositsInv, DepositsTypeOK
  <2>2. ReportOK(task[f]) => ReportOK(task[f])'
    BY <1>2 DEF ReportOK, DepositsInv, DepositsTypeOK
  <2> QED BY <1>2, <2>1, <2>2 DEF TaskOK
<1>5. TaskInv' /\ RowStep
  BY <1>2 DEF DepositsInv, TaskInv, PromoteOK, RowStep, Quiet, rows
<1> QED BY <1>2, <1>3, <1>4, <1>5 DEF StepOK, DepositsInv, DepositsTypeOK, rows

LEMMA CrashOK ==
  ASSUME DepositsInv, Crash
  PROVE  StepOK
<1>1. crashes' \in 0 .. MaxCrashes
  BY DepositsAssumption DEF Crash, DepositsInv, DepositsTypeOK
<1> QED BY <1>1
  DEF Crash, StepOK, DepositsInv, DepositsTypeOK, TaskOK, TaskInv, PromoteOK, Labels,
      RowStep, Quiet, rows

LEMMA StutterOK ==
  ASSUME DepositsInv, UNCHANGED vars
  PROVE  StepOK
  BY DEF vars, StepOK, DepositsInv, DepositsTypeOK, TaskOK, ReportOK, TaskInv, PromoteOK,
         RowStep, Quiet

LEMMA NextOK == DepositsInv /\ [Next]_vars => StepOK
<1> SUFFICES ASSUME DepositsInv, [Next]_vars PROVE StepOK
  OBVIOUS
<1>1. ASSUME NEW h \in Hooks, Webhook(h) PROVE StepOK
  <2> h \in Finders
    BY DEF Finders
  <2> QED BY <1>1, NotifyOK, WiresOK, WritesOK DEF Webhook
<1>2. ASSUME NEW t \in OnArc, ScanArc(t) PROVE StepOK
  BY <1>2, DepositsAssumption, ScansOK
<1> QED BY <1>1, <1>2, CircleOK, PollOK, ScansOK, CrashOK, StutterOK DEF Next

-----------------------------------------------------------------------------
\* Every state has the right types, and a final report is about a complete
\* transaction.
THEOREM DepositsTypeCorrect == Spec => []DepositsTypeOK
<1>1. Init => DepositsInv
  BY InitDepositsInv DEF DepositsInv
<1>2. DepositsInv /\ [Next]_vars => DepositsInv'
  BY NextOK DEF StepOK
<1>3. DepositsInv => DepositsTypeOK
  BY DEF DepositsInv
<1> QED BY <1>1, <1>2, <1>3, PTL DEF Spec

LEMMA MatchKept ==
  ASSUME DepositsInv, CreditsMatch, RowStep
  PROVE  CreditsMatch'
<1>1. CASE Quiet
  BY <1>1 DEF Quiet, CreditsMatch
<1>2. ASSUME NEW t \in Transactions, Completes(t) PROVE CreditsMatch'
  <2>1. credits[t] = 0 /\ credits'[t] = 1
    BY <1>2 DEF Completes, CreditsMatch, DepositsInv, DepositsTypeOK
  <2>2. \A s \in Transactions \ {t} : credits'[s] = credits[s] /\ row'[s] = row[s]
    BY <1>2 DEF Completes, DepositsInv, DepositsTypeOK
  <2> QED BY <1>2, <2>1, <2>2 DEF Completes, CreditsMatch
<1> QED BY <1>1, <1>2 DEF RowStep

\* A transaction is credited exactly once when its row is completed, and not
\* before: the unique indexes and the guarded promotion see to it, whichever
\* of the webhook, the poll and the Arc scan comes first.
THEOREM DepositsCreditedOnce == HashesDiffer /\ Spec => []CreditsMatch
<1> DEFINE Inv == DepositsInv /\ CreditsMatch
<1>1. Init => Inv
  BY InitDepositsInv, DepositsAssumption DEF DepositsInv, Init, CreditsMatch
<1>2. ASSUME HashesDiffer PROVE Inv /\ [Next]_vars => Inv'
  BY <1>2, NextOK, MatchKept DEF StepOK
<1>3. CASE ~ HashesDiffer
  BY <1>3
<1>4. CASE HashesDiffer
  <2>1. Inv /\ [Next]_vars => Inv'
    BY <1>2, <1>4
  <2>2. Inv => CreditsMatch
    OBVIOUS
  <2> QED BY <1>1, <2>1, <2>2, PTL DEF Spec
<1> QED BY <1>3, <1>4

-----------------------------------------------------------------------------
LEMMA CreditingStep ==
  ASSUME DepositsInv, CreditsMatch, HashesDiffer, [Next]_vars
  PROVE  [Promise!Next]_(Promise!vars)
<1> DEFINE a == {t \in Transactions : chain[t] = "complete"}
           c == [t \in Transactions |-> credits[t]]
<1>1. StepOK
  BY NextOK
<1>2. RowStep
  BY <1>1 DEF StepOK
<1>3. ASSUME NEW t \in Transactions, Circle(t)
      PROVE  [Promise!Next]_(Promise!vars)
  <2>1. PICK from \in SUBSET {"none", "pending"}, to \in {"pending", "complete", "failed"} :
          Advance(t, from, to)
    BY <1>3 DEF Circle
  <2>2. chain[t] # "complete" /\ chain' = [chain EXCEPT ![t] = to] /\ credits' = credits
    BY <2>1 DEF Advance, rows
  <2>3. c' = c
    BY <2>2
  <2>4. CASE to = "complete"
    <3>1. t \notin a /\ a' = a \cup {t}
      BY <2>2, <2>4 DEF DepositsInv, DepositsTypeOK
    <3>2. Promise!Arrive(t)
      BY <2>3, <3>1 DEF Promise!Arrive
    <3> QED BY <3>2 DEF Promise!Next
  <2>5. CASE to # "complete"
    <3>1. a' = a
      BY <2>2, <2>5 DEF DepositsInv, DepositsTypeOK
    <3> QED BY <2>3, <3>1 DEF Promise!vars
  <2> QED BY <2>4, <2>5
<1>4. ASSUME chain' = chain PROVE [Promise!Next]_(Promise!vars)
  <2>1. a' = a
    BY <1>4
  <2>2. CASE Quiet
    <3>1. c' = c
      BY <2>2 DEF Quiet
    <3> QED BY <2>1, <3>1 DEF Promise!vars
  <2>3. ASSUME NEW t \in Transactions, Completes(t) PROVE Promise!Credit(t)
    <3>1. t \in a /\ c[t] = 0
      BY <2>3 DEF Completes, CreditsMatch
    <3>2. \A s \in Transactions : credits'[s] = IF s = t THEN 1 ELSE credits[s]
      <4>1. credits[t] = 0
        BY <3>1
      <4>2. t \in DOMAIN credits /\ Transactions \subseteq DOMAIN credits
        BY DEF DepositsInv, DepositsTypeOK
      <4> QED BY <2>3, <4>1, <4>2 DEF Completes
    <3>3. c' = [c EXCEPT ![t] = 1]
      BY <3>2
    <3> QED BY <2>1, <3>1, <3>3 DEF Promise!Credit
  <2> QED BY <1>2, <2>2, <2>3 DEF RowStep, Promise!Next
<1>5. (\E t \in Transactions : Circle(t)) \/ chain' = chain
  <2>1. CASE UNCHANGED vars
    BY <2>1 DEF vars
  <2>2. CASE Next
    BY <2>2 DEF Next, Webhook, Notify, NotifyByHash, NotifyWire, CreditWire, RecordWire,
                Promote, Patch, Insert, Finish, List, PollStep, ListByRef, ScanArc, Backfill, Crash
  <2> QED BY <2>1, <2>2
<1> QED BY <1>3, <1>4, <1>5

\* Deposits are credited after they have arrived, and once, as Crediting
\* says.  (That they are credited in the end is checked by TLC.)
THEOREM DepositsImplementCrediting == HashesDiffer /\ Spec => Promise!SafeSpec
<1> DEFINE Inv == DepositsInv /\ CreditsMatch
<1>1. Init => Inv /\ Promise!Init
  <2>1. Init => Inv
    BY InitDepositsInv, DepositsAssumption DEF DepositsInv, Init, CreditsMatch
  <2>2. Init => Promise!Init
    BY DepositsAssumption DEF Init, Promise!Init
  <2> QED BY <2>1, <2>2
<1>2. CASE ~ HashesDiffer
  BY <1>2
<1>3. CASE HashesDiffer
  <2>1. Inv /\ [Next]_vars => Inv'
    BY <1>3, NextOK, MatchKept DEF StepOK
  <2>2. Inv /\ [Next]_vars => [Promise!Next]_(Promise!vars)
    BY <1>3, CreditingStep
  <2> QED BY <1>1, <2>1, <2>2, PTL DEF Spec, Promise!SafeSpec
<1> QED BY <1>2, <1>3
=============================================================================
