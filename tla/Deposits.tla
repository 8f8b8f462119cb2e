------------------------------ MODULE Deposits ------------------------------
(***************************************************************************)
(* Deposits: Circle reports what arrives in the users' wallets, and three  *)
(* finders look for it at the same time - the webhook, the poll of all     *)
(* chains and the scan of the Arc wallets.  Whoever finds a transaction    *)
(* first inserts its row, and the row is credited once it is final.  Bank  *)
(* wires come by the webhook only.                                         *)
(*                                                                         *)
(* A step is one statement or transaction of the database.  A row has the  *)
(* reference of the transaction that inserted it ("circle-" and its id):   *)
(* row[t] is that row.  The hash is the one of the transaction on the      *)
(* chain, which several transfers may share.                               *)
(***************************************************************************)
EXTENDS Naturals

CONSTANTS
  Transactions,  \* inbound transactions in Circle's list
  Hash,          \* hash on the chain of each
  OnArc,         \* those to an Arc wallet
  Wires,         \* bank wires
  Hooks,         \* webhook requests that may be under way at a time
  Poll,          \* the poll, which handles one transaction after the other
  MaxNotices,    \* bound: notifications of one wire
  MaxCrashes     \* bound: restarts of the server

ASSUME DepositsAssumption ==
  /\ OnArc \subseteq Transactions
  /\ Transactions \cap Wires = {}
  /\ Poll \notin Hooks
  /\ MaxNotices \in Nat /\ MaxCrashes \in Nat

VARIABLES
  chain,    \* what Circle knows of each transaction
  row,      \* deposits.status, "none" before there is a row
  hashed,   \* whether deposits.tx_hash is set
  credits,  \* how often claimed_balance was credited for each deposit
  at,       \* where each finder is
  task,     \* what it is about
  notices,  \* notifications of each wire so far
  crashes

vars == <<chain, row, hashed, credits, at, task, notices, crashes>>
rows == <<row, hashed, credits>>

Finders == Hooks \cup {Poll}
Labels == {"idle", "by_hash", "by_ref", "promote", "patch", "insert",
           "credit_wire", "record_wire"}

\* A report about a transaction or wire: whether it is final and has a hash,
\* and the row it was found to have.
Tasks == [of : Transactions \cup Wires, final : BOOLEAN, hash : BOOLEAN,
          row : Transactions \cup Wires]
NoTask == "none"

Init ==
  /\ chain = [t \in Transactions |-> "none"]
  /\ row = [x \in Transactions \cup Wires |-> "none"]
  /\ hashed = [t \in Transactions |-> FALSE]
  /\ credits = [x \in Transactions \cup Wires |-> 0]
  /\ at = [f \in Finders |-> "idle"]
  /\ task = [f \in Finders |-> NoTask]
  /\ notices = [w \in Wires |-> 0]
  /\ crashes = 0

-----------------------------------------------------------------------------
(***************************************************************************)
(* Circle.                                                                 *)
(***************************************************************************)
Advance(t, from, to) ==
  /\ chain[t] \in from
  /\ chain' = [chain EXCEPT ![t] = to]
  /\ UNCHANGED <<rows, at, task, notices, crashes>>

Circle(t) ==
  \/ Advance(t, {"none"}, "pending")
  \/ Advance(t, {"none", "pending"}, "complete")
  \/ Advance(t, {"pending"}, "failed")

\* Mutant of Reported: a confirmed transaction is taken for a complete one.
ReportedEarly(t, final) == chain[t] # "none"

\* What Circle may say, perhaps late, of a transaction; only a complete one
\* is reported as final.
Reported(t, final) == IF final THEN chain[t] = "complete" ELSE chain[t] # "none"

-----------------------------------------------------------------------------
(***************************************************************************)
(* What the finders share.                                                 *)
(***************************************************************************)
Go(f, label, j) ==
  /\ at' = [at EXCEPT ![f] = label]
  /\ task' = [task EXCEPT ![f] = j]

End(f) == Go(f, "idle", NoTask)

Report(x, final, hash) == [of |-> x, final |-> final, hash |-> hash, row |-> x]

\* The rows that have the hash of t; the unique index allows one.
WithHash(t) ==
  {s \in Transactions : row[s] # "none" /\ hashed[s] /\ Hash[s] = Hash[t]}

\* The unique index on tx_hash lets the row of t have its hash.
HashFree(t) == WithHash(t) \subseteq {t}

\* Mutant of LookUpHash: any row with the hash ends the matter.
LookUpHashStrands(f, j, missing) ==
  IF WithHash(j.of) = {} THEN Go(f, missing, j) ELSE End(f)

\* Look a report up by its hash.  A pending row is promoted by a final
\* report; any other row ends the matter.
LookUpHash(f, j, missing) ==
  \/ WithHash(j.of) = {} /\ Go(f, missing, j)
  \/ \E s \in WithHash(j.of) :
       IF row[s] = "pending" /\ j.final
         THEN Go(f, "promote", [j EXCEPT !.row = s])
         ELSE End(f)

\* Look a report up by its reference.  A row that is not promoted gets the
\* hash if it has none.  The promotion writes the hash of the report or else
\* the one it has just read.
LookUpRef(f, j, missing) ==
  CASE row[j.of] = "none" -> Go(f, missing, j)
    [] row[j.of] = "pending" /\ j.final ->
         Go(f, "promote", [j EXCEPT !.row = j.of, !.hash = @ \/ hashed[j.of]])
    [] row[j.of] # "none" /\ ~ (row[j.of] = "pending" /\ j.final) ->
         IF j.hash /\ ~ hashed[j.of] THEN Go(f, "patch", j) ELSE End(f)

\* Mutant of PromoteRow: the promotion trusts the status that was read.
PromoteUnguarded(j) ==
  IF j.hash => HashFree(j.row)
    THEN /\ row' = [row EXCEPT ![j.row] = "completed"]
         /\ hashed' = [hashed EXCEPT ![j.row] = j.hash]
         /\ credits' = [credits EXCEPT ![j.of] = @ + 1]
    ELSE UNCHANGED rows

\* Promote a row that is still pending, and credit, in one transaction; the
\* index on the hash may refuse it.
PromoteRow(j) ==
  IF row[j.row] = "pending" /\ (j.hash => HashFree(j.row))
    THEN /\ row' = [row EXCEPT ![j.row] = "completed"]
         /\ hashed' = [hashed EXCEPT ![j.row] = j.hash]
         /\ credits' = [credits EXCEPT ![j.of] = @ + 1]
    ELSE UNCHANGED rows

PatchRow(j) ==
  IF HashFree(j.of)
    THEN /\ hashed' = [hashed EXCEPT ![j.of] = TRUE]
         /\ UNCHANGED <<row, credits>>
    ELSE UNCHANGED rows

\* Insert a row unless its reference or its hash is there; a final one is
\* credited in the same transaction.
InsertRow(j) ==
  IF row[j.of] = "none" /\ (j.hash => WithHash(j.of) = {})
    THEN /\ row' = [row EXCEPT ![j.of] = IF j.final THEN "completed" ELSE "pending"]
         /\ hashed' = [hashed EXCEPT ![j.of] = j.hash]
         /\ credits' = [credits EXCEPT ![j.of] = IF j.final THEN @ + 1 ELSE @]
    ELSE UNCHANGED rows

Finish(f, label) ==
  /\ at[f] = label
  /\ End(f)
  /\ UNCHANGED <<chain, notices, crashes>>

Promote(f) == Finish(f, "promote") /\ PromoteRow(task[f])
Patch(f) == Finish(f, "patch") /\ PatchRow(task[f])
Insert(f) == Finish(f, "insert") /\ InsertRow(task[f])

-----------------------------------------------------------------------------
(***************************************************************************)
(* The webhook: by reference, then by hash if the report has one.          *)
(***************************************************************************)
Notify(h, t, final, hash) ==
  /\ at[h] = "idle"
  /\ Reported(t, final)
  /\ LookUpRef(h, Report(t, final, hash), IF hash THEN "by_hash" ELSE "insert")
  /\ UNCHANGED <<chain, rows, notices, crashes>>

NotifyByHash(h) ==
  /\ at[h] = "by_hash"
  /\ LookUpHash(h, task[h], "insert")
  /\ UNCHANGED <<chain, rows, notices, crashes>>

\* Wires: a duplicate check, the credit and the row, one after the other.
\* A second row with the reference is refused.
NotifyWire(h, w) ==
  /\ at[h] = "idle"
  /\ notices[w] < MaxNotices
  /\ notices' = [notices EXCEPT ![w] = @ + 1]
  /\ IF row[w] = "none" THEN Go(h, "credit_wire", Report(w, TRUE, FALSE)) ELSE End(h)
  /\ UNCHANGED <<chain, rows, crashes>>

CreditWire(h) ==
  /\ at[h] = "credit_wire"
  /\ credits' = [credits EXCEPT ![task[h].of] = @ + 1]
  /\ Go(h, "record_wire", task[h])
  /\ UNCHANGED <<chain, row, hashed, notices, crashes>>

RecordWire(h) ==
  /\ at[h] = "record_wire"
  /\ row' = [row EXCEPT ![task[h].of] = "completed"]
  /\ End(h)
  /\ UNCHANGED <<chain, hashed, credits, notices, crashes>>

Webhook(h) ==
  \/ \E t \in Transactions, final, hash \in BOOLEAN : Notify(h, t, final, hash)
  \/ NotifyByHash(h)
  \/ \E w \in Wires : NotifyWire(h, w)
  \/ CreditWire(h)
  \/ RecordWire(h)
  \/ Promote(h)
  \/ Patch(h)
  \/ Insert(h)

-----------------------------------------------------------------------------
(***************************************************************************)
(* The poll: by hash, which every transaction it handles has, then by      *)
(* reference.  The scan of the Arc wallets only inserts.                   *)
(***************************************************************************)
List(t, final) ==
  /\ at[Poll] = "idle"
  /\ Reported(t, final)
  /\ LookUpHash(Poll, Report(t, final, TRUE), "by_ref")
  /\ UNCHANGED <<chain, rows, notices, crashes>>

ListByRef ==
  /\ at[Poll] = "by_ref"
  /\ LookUpRef(Poll, task[Poll], "insert")
  /\ UNCHANGED <<chain, rows, notices, crashes>>

PollStep == ListByRef \/ Promote(Poll) \/ Patch(Poll) \/ Insert(Poll)

ScanArc(t) ==
  /\ Reported(t, TRUE)
  /\ InsertRow(Report(t, TRUE, TRUE))
  /\ UNCHANGED <<chain, at, task, notices, crashes>>

\* GET /user/history looks up the hashes that rows lack.
Backfill(t) ==
  /\ row[t] # "none" /\ ~ hashed[t]
  /\ PatchRow(Report(t, FALSE, TRUE))
  /\ UNCHANGED <<chain, at, task, notices, crashes>>

-----------------------------------------------------------------------------
\* Requests and the poll die with the server.
Crash ==
  /\ crashes < MaxCrashes
  /\ crashes' = crashes + 1
  /\ at' = [f \in Finders |-> "idle"]
  /\ task' = [f \in Finders |-> NoTask]
  /\ UNCHANGED <<chain, rows, notices>>

Next ==
  \/ \E t \in Transactions : Circle(t)
  \/ \E h \in Hooks : Webhook(h)
  \/ \E t \in Transactions, final \in BOOLEAN : List(t, final)
  \/ PollStep
  \/ \E t \in OnArc : ScanArc(t)
  \/ \E t \in Transactions : Backfill(t)
  \/ Crash

\* The poll goes on with what it has begun, and lists a complete transaction
\* again and again.  No webhook need arrive, nor finish, and no Arc scan run.
Fairness ==
  /\ WF_vars(PollStep)
  /\ \A t \in Transactions : SF_vars(List(t, TRUE))

Spec == Init /\ [][Next]_vars
FairSpec == Spec /\ Fairness

-----------------------------------------------------------------------------
(***************************************************************************)
(* Properties.                                                             *)
(***************************************************************************)

\* Types.  A final report is about a transaction that is complete.
ReportOK(j) ==
  /\ j \in Tasks
  /\ j.of \in Transactions /\ j.row \in Transactions
  /\ chain[j.of] # "none"
  /\ j.final => chain[j.of] = "complete"

TaskOK(f) ==
  \/ at[f] = "idle"
  \/ at[f] \in {"credit_wire", "record_wire"} /\ task[f] \in Tasks /\ task[f].of \in Wires
  \/ at[f] \in {"by_hash", "by_ref", "promote", "patch", "insert"} /\ ReportOK(task[f])

DepositsTypeOK ==
  /\ chain \in [Transactions -> {"none", "pending", "complete", "failed"}]
  /\ row \in [Transactions \cup Wires -> {"none", "pending", "completed"}]
  /\ hashed \in [Transactions -> BOOLEAN]
  /\ credits \in [Transactions \cup Wires -> Nat]
  /\ at \in [Finders -> Labels]
  /\ DOMAIN task = Finders
  /\ notices \in [Wires -> 0 .. MaxNotices]
  /\ crashes \in 0 .. MaxCrashes
  /\ \A f \in Finders : TaskOK(f)

\* Whoever finds a transaction, and however the finders interleave: it was
\* credited exactly once if its row is completed, and not at all before.
CreditsMatch ==
  \A t \in Transactions : credits[t] = IF row[t] = "completed" THEN 1 ELSE 0

\* What arrives is credited in the end, once, whatever the webhook misses.
Promise == INSTANCE Crediting WITH
  arrived <- {t \in Transactions : chain[t] = "complete"},
  credits <- [t \in Transactions |-> credits[t]]

ImplementsCrediting == Promise!Spec

\* "A reliable fallback for any events the webhook misses": a complete
\* transaction is credited in the end.
EventuallyCredited ==
  \A t \in Transactions : chain[t] = "complete" ~> credits[t] > 0

\* "Idempotency" of the wire webhook: a wire is credited once, however often
\* Circle reports it.
WireCreditedOnce == \A w \in Wires : credits[w] <= 1
=============================================================================
