------------------------------- MODULE Throttle -------------------------------
(***************************************************************************)
(* What keeps callers in check: the record of strikes per address, with    *)
(* blocks that grow longer, and the budget of calls per developer key. A   *)
(* response is scored only when it has been sent, so requests let in       *)
(* before a block still strike during it; one refused for its key's budget *)
(* strikes twice.                                                          *)
(***************************************************************************)
EXTENDS Integers, Sequences, Functions

CONSTANTS
  Callers,      \* addresses other than the machine's own
  Keys,         \* active developer keys
  Threshold,    \* strikes in the window that block
  StrikeWindow, \* how long a strike counts
  BlockLengths, \* the first block, the second, ..., the last and all after it
  RateLimit,    \* requests of an address per Minute before each costs a strike
  Budget,       \* calls of a key per Minute
  Minute,
  RecordTtl,    \* how long an idle record is kept
  MaxClock, MaxRequests, MaxWipes \* bounds: time, requests of an address let in, restarts

ASSUME ThrottleAssumption ==
  /\ Threshold \in Nat \ {0}
  /\ StrikeWindow \in Nat
  /\ BlockLengths \in Seq(Nat) /\ BlockLengths # <<>>
  /\ {RateLimit, Budget, Minute, RecordTtl, MaxRequests, MaxWipes} \subseteq Nat
  /\ MaxClock \in Nat \ {0}

VARIABLES
  instant,
  record,   \* store: the record of each address, or NoRecord
  open,     \* requests let in and not yet answered
  requests, \* requests let in
  allowance,\* rateLimitStore: of each key, or NoAllowance
  struck,   \* history: strikes given to each address
  imposed,  \* history: blocks imposed on each
  wipes

throttleVars == <<instant, record, open, requests, allowance, struck, imposed, wipes>>

Instants == 1..MaxClock

\* The strikes on a record, as many as there are of each time.
NoStrikes == [t \in Instants |-> 0]

NoRecord == [known |-> FALSE, violations |-> NoStrikes, blockUntil |-> 0, blockCount |-> 0,
             reqCount |-> 0, reqWindowStart |-> 0, lastSeenAt |-> 0]
NoAllowance == [count |-> 0, resetAt |-> -1]

InitThrottle ==
  /\ instant = 1
  /\ record = [c \in Callers |-> NoRecord]
  /\ open = [c \in Callers |-> 0]
  /\ requests = [c \in Callers |-> 0]
  /\ allowance = [k \in Keys |-> NoAllowance]
  /\ struck = [c \in Callers |-> 0]
  /\ imposed = [c \in Callers |-> 0]
  /\ wipes = 0

GetRecord(c) ==
  IF record[c].known THEN [record[c] EXCEPT !.lastSeenAt = instant]
  ELSE [NoRecord EXCEPT !.known = TRUE, !.reqWindowStart = instant, !.lastSeenAt = instant]

PruneViolations(violations) ==
  [t \in Instants |-> IF t > instant - StrikeWindow THEN violations[t] ELSE 0]

BlockDuration(count) ==
  BlockLengths[IF count + 1 <= Len(BlockLengths) THEN count + 1 ELSE Len(BlockLengths)]

\* Mutant of AfterBlock: the strikes that led to a block stay on the record.
AfterBlockKept(violations) == violations

AfterBlock(violations) == NoStrikes
-----------------------------------------------------------------------------
Strikes(violations, score) == [PruneViolations(violations) EXCEPT ![instant] = @ + score]

Blocks(r, score) ==
  r.blockUntil <= instant /\ SumFunction(Strikes(r.violations, score)) >= Threshold

\* What recordViolation makes of the record r of an address.
WithStrikes(r, score) ==
  LET violations == Strikes(r.violations, score)
  IN IF Blocks(r, score)
     THEN [r EXCEPT !.violations = AfterBlock(violations),
                    !.blockUntil = instant + BlockDuration(r.blockCount),
                    !.blockCount = @ + 1]
     ELSE [r EXCEPT !.violations = violations]

RecordViolation(c, r, score) ==
  /\ record' = [record EXCEPT ![c] = WithStrikes(r, score)]
  /\ struck' = [struck EXCEPT ![c] = @ + score]
  /\ imposed' = [imposed EXCEPT ![c] = @ + (IF Blocks(r, score) THEN 1 ELSE 0)]

\* The record once one more API request is counted.
Counted(r) ==
  IF instant - r.reqWindowStart > Minute THEN [r EXCEPT !.reqCount = 1, !.reqWindowStart = instant]
  ELSE [r EXCEPT !.reqCount = @ + 1]

\* A request of an address that is blocked: answered at once, and not scored.
TurnAway(c) ==
  /\ GetRecord(c).blockUntil > instant
  /\ record' = [record EXCEPT ![c] = GetRecord(c)]
  /\ UNCHANGED <<instant, open, requests, allowance, struck, imposed, wipes>>

\* Any other request goes on, though it may itself have caused a block. Paths
\* outside the API are not counted.
LetIn(c) ==
  /\ GetRecord(c).blockUntil <= instant
  /\ requests[c] < MaxRequests
  /\ requests' = [requests EXCEPT ![c] = @ + 1]
  /\ open' = [open EXCEPT ![c] = @ + 1]
  /\ LET counted == Counted(GetRecord(c))
     IN \/ counted.reqCount > RateLimit /\ RecordViolation(c, counted, 1)
        \/ /\ counted.reqCount <= RateLimit
           /\ record' = [record EXCEPT ![c] = counted]
           /\ UNCHANGED <<struck, imposed>>
        \/ record' = [record EXCEPT ![c] = GetRecord(c)] /\ UNCHANGED <<struck, imposed>>
  /\ UNCHANGED <<instant, allowance, wipes>>

\* The answer to a request has been sent: nothing for most, one strike for 401,
\* 403 and an API path that does not exist, two for 429.
Finish(c, score) ==
  /\ open[c] > 0
  /\ open' = [open EXCEPT ![c] = @ - 1]
  /\ IF score = 0 THEN UNCHANGED <<record, struck, imposed>>
     ELSE RecordViolation(c, GetRecord(c), score)

Answer(c) ==
  /\ \E score \in 0..2 : Finish(c, score)
  /\ UNCHANGED <<instant, requests, allowance, wipes>>
-----------------------------------------------------------------------------
\* checkRateLimit: the budget of a key with one more call.
Renewed(entry) ==
  IF instant > entry.resetAt THEN [count |-> 1, resetAt |-> instant + Minute]
  ELSE [entry EXCEPT !.count = @ + 1]

\* requireApiKey: a request of c, let in before, presents the key k and is
\* answered, by its route or for the budget.
Call(c, k) ==
  /\ open[c] > 0
  /\ allowance' = [allowance EXCEPT ![k] = Renewed(@)]
  /\ IF allowance'[k].count <= Budget
     THEN \E score \in 0..1 : Finish(c, score)
     ELSE Finish(c, 2)
  /\ UNCHANGED <<instant, requests, wipes>>
-----------------------------------------------------------------------------
\* The hourly cleanup.
Forget ==
  /\ record' = [c \in Callers |->
                  IF record[c].lastSeenAt < instant - RecordTtl /\ record[c].blockUntil < instant
                  THEN NoRecord ELSE record[c]]
  /\ UNCHANGED <<instant, open, requests, allowance, struck, imposed, wipes>>

\* POST /api/admin/unblock-ip: the count of blocks stays.
UnblockIp(c) ==
  /\ record[c].known
  /\ record' = [record EXCEPT ![c].blockUntil = 0, ![c].violations = NoStrikes]
  /\ UNCHANGED <<instant, open, requests, allowance, struck, imposed, wipes>>

\* Records and budgets are in memory.
Wipe ==
  /\ wipes < MaxWipes
  /\ record' = [c \in Callers |-> NoRecord]
  /\ open' = [c \in Callers |-> 0]
  /\ allowance' = [k \in Keys |-> NoAllowance]
  /\ wipes' = wipes + 1
  /\ UNCHANGED <<instant, requests, struck, imposed>>

Elapse ==
  /\ instant < MaxClock
  /\ instant' = instant + 1
  /\ UNCHANGED <<record, open, requests, allowance, struck, imposed, wipes>>

ThrottleStep ==
  \/ \E c \in Callers : TurnAway(c) \/ LetIn(c) \/ Answer(c) \/ UnblockIp(c)
  \/ \E c \in Callers, k \in Keys : Call(c, k)
  \/ Forget
  \/ Wipe
  \/ Elapse

ThrottleSpec == InitThrottle /\ [][ThrottleStep]_throttleVars
-----------------------------------------------------------------------------
ThrottleTypeOK ==
  /\ instant \in Instants
  /\ \A c \in Callers :
       /\ record[c].violations \in [Instants -> Nat]
       /\ record[c].blockUntil \in Nat
       /\ record[c].blockCount \in 0..imposed[c]
       /\ struck[c] \in Nat /\ imposed[c] \in Nat
  /\ \A c \in Callers : open[c] \in 0..requests[c] /\ requests[c] <= MaxRequests
  /\ wipes \in 0..MaxWipes

(***************************************************************************)
(* No strike counts for two blocks: however requests overlap a block, an   *)
(* unblocking or a cleanup, an address has been given Threshold strikes    *)
(* for each of its blocks. (threatMonitor.ts, recordViolation: "reset      *)
(* strike count after blocking so window is fresh".)                       *)
(***************************************************************************)
BlockedForCause == \A c \in Callers : Threshold * imposed[c] <= struck[c]
=============================================================================
