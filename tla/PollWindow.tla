----------------------------- MODULE PollWindow -----------------------------
(***************************************************************************)
(* The window in time of the two pollers that find deposits: the poll of   *)
(* all chains and the scan of the Arc wallets.  Each lists the complete    *)
(* transactions created since its cursor, as many as it asks for at most,  *)
(* handles them one by one, and then moves the cursor to half an hour      *)
(* before the start of the poll.                                           *)
(* The rows and the credits are in Deposits, where a complete transaction  *)
(* is listed again and again: here is why it is listed once at least.      *)
(***************************************************************************)
EXTENDS Integers, FiniteSets

CONSTANTS
  Inbound,     \* transactions of Circle
  Pollers,     \* depositIndexer and arcDepositWorker
  Capacity,    \* what each lists at most: 20 pages of 50, and one page of 50 of a wallet
  Buffer,      \* 30 minutes
  Lookback,    \* 24 hours
  MaxTime,     \* bound: the clock
  MaxOutages,  \* bound: how often the server is down
  Delay        \* Circle: from the creation of a transaction until it is complete

\* "A safety buffer": confirming takes 5 to 15 minutes where it is slow.
ASSUME PollWindowAssumption ==
  /\ Capacity \in [Pollers -> Nat \ {0}]
  /\ Buffer \in Nat /\ Lookback \in Nat /\ Delay \in 0 .. Buffer
  /\ MaxTime \in Nat /\ MaxOutages \in Nat

VARIABLES
  clock,
  created,   \* the time each transaction was created, -1 before
  complete,  \* the transactions that are complete
  cursor,    \* _lastPollTime of each poller
  poll,      \* its poll: the cursor to come, what it has still to handle
  found,     \* the transactions handled
  skipped,   \* for each poller, those whose handling failed
  cut,       \* for each poller, those that were on none of the pages it asked for
  outages

windowVars == <<clock, created, complete, cursor, poll, found, skipped, cut, outages>>

Idle == [at |-> "idle", next |-> 0, rest |-> {}]

InitPollWindow ==
  /\ clock = 0
  /\ created = [t \in Inbound |-> -1]
  /\ complete = {}
  /\ cursor = [p \in Pollers |-> 0 - Lookback]
  /\ poll = [p \in Pollers |-> Idle]
  /\ found = {}
  /\ skipped = [p \in Pollers |-> {}]
  /\ cut = [p \in Pollers |-> {}]
  /\ outages = 0

-----------------------------------------------------------------------------
Create(t) ==
  /\ created[t] = -1
  /\ created' = [created EXCEPT ![t] = clock]
  /\ UNCHANGED <<clock, complete, cursor, poll, found, skipped, cut, outages>>

Complete(t) ==
  /\ created[t] # -1 /\ t \notin complete
  /\ complete' = complete \cup {t}
  /\ UNCHANGED <<clock, created, cursor, poll, found, skipped, cut, outages>>

\* No transaction may be late when the clock has moved to time.
InTime(time) ==
  \A t \in Inbound : created[t] # -1 /\ t \notin complete => time - created[t] <= Delay

PassTime ==
  /\ clock < MaxTime /\ InTime(clock + 1)
  /\ clock' = clock + 1
  /\ UNCHANGED <<created, complete, cursor, poll, found, skipped, cut, outages>>

-----------------------------------------------------------------------------
StartPoll(p) ==
  /\ poll[p].at = "idle"
  /\ poll' = [poll EXCEPT ![p] = [at |-> "list", next |-> clock - Buffer, rest |-> {}]]
  /\ UNCHANGED <<clock, created, complete, cursor, found, skipped, cut, outages>>

\* What is complete and created since the cursor.
InWindow(p) == {t \in complete : created[t] >= cursor[p]}

\* The pages of one call, which end where the poller asks for no more; each wallet of
\* the Arc scan is a call of its own.
ListComplete(p) ==
  /\ poll[p].at = "list"
  /\ \E listed \in SUBSET InWindow(p) :
       /\ listed = InWindow(p) \/ Cardinality(listed) = Capacity[p]
       /\ Cardinality(listed) <= Capacity[p]
       /\ poll' = [poll EXCEPT ![p] = [at |-> "handle", next |-> @.next, rest |-> listed]]
       /\ cut' = [cut EXCEPT ![p] = @ \cup (InWindow(p) \ listed)]
  /\ UNCHANGED <<clock, created, complete, cursor, found, skipped, outages>>

HandleTx(p, t) ==
  /\ t \in poll[p].rest
  /\ poll' = [poll EXCEPT ![p].rest = @ \ {t}]
  /\ found' = found \cup {t}
  /\ UNCHANGED <<clock, created, complete, cursor, skipped, cut, outages>>

\* The database refuses, or a call of the Arc scan fails: the poll goes on without it.
SkipTx(p, t) ==
  /\ t \in poll[p].rest
  /\ poll' = [poll EXCEPT ![p].rest = @ \ {t}]
  /\ skipped' = [skipped EXCEPT ![p] = @ \cup {t}]
  /\ UNCHANGED <<clock, created, complete, cursor, found, cut, outages>>

\* Mutant of NextCursor: the cursor is the end of the poll, not its start.
CursorAtEnd(p) == clock - Buffer

NextCursor(p) == poll[p].next

EndPoll(p) ==
  /\ poll[p].at = "handle" /\ poll[p].rest = {}
  /\ cursor' = [cursor EXCEPT ![p] = NextCursor(p)]
  /\ poll' = [poll EXCEPT ![p] = Idle]
  /\ UNCHANGED <<clock, created, complete, found, skipped, cut, outages>>

\* Circle does not answer: the cursor stays.
PollFails(p) ==
  /\ poll[p].at = "list"
  /\ poll' = [poll EXCEPT ![p] = Idle]
  /\ UNCHANGED <<clock, created, complete, cursor, found, skipped, cut, outages>>

\* The server stops, and starts with cursors of its own, less than a day after
\* the last polls that did not fail.
Outage(time) ==
  /\ outages < MaxOutages
  /\ InTime(time)
  /\ \A p \in Pollers : time - Lookback <= cursor[p]
  /\ outages' = outages + 1
  /\ clock' = time
  /\ cursor' = [p \in Pollers |-> time - Lookback]
  /\ poll' = [p \in Pollers |-> Idle]
  /\ UNCHANGED <<created, complete, found, skipped, cut>>

PollStep(p) ==
  \/ StartPoll(p) \/ ListComplete(p) \/ EndPoll(p) \/ PollFails(p)
  \/ \E t \in Inbound : HandleTx(p, t) \/ SkipTx(p, t)

PollWindowStep ==
  \/ \E t \in Inbound : Create(t) \/ Complete(t)
  \/ PassTime
  \/ \E p \in Pollers : PollStep(p)
  \/ \E time \in clock .. MaxTime : Outage(time)

PollWindowSpec == InitPollWindow /\ [][PollWindowStep]_windowVars

-----------------------------------------------------------------------------
(***************************************************************************)
(* Properties.                                                             *)
(***************************************************************************)

\* Types.
PollWindowTypeOK ==
  /\ clock \in Nat
  /\ created \in [Inbound -> Int]
  /\ complete \subseteq Inbound
  /\ cursor \in [Pollers -> Int]
  /\ poll \in [Pollers -> [at : {"idle", "list", "handle"}, next : Int, rest : SUBSET Inbound]]
  /\ found \subseteq Inbound
  /\ skipped \in [Pollers -> SUBSET Inbound]
  /\ cut \in [Pollers -> SUBSET Inbound]
  /\ outages \in Nat

Unhandled(p) == {t \in Inbound : created[t] # -1 /\ t \notin found /\ t \notin skipped[p]}

\* "A safety buffer": no poller's cursor passes a transaction that nobody has
\* handled, be it complete or not, across polls that fail, polls that take long,
\* and restarts; unless that poller failed to handle it, or it was on none of the
\* pages the poller asks for.
NotPassedOver == \A p \in Pollers : \A t \in Unhandled(p) \ cut[p] : created[t] >= cursor[p]
=============================================================================
