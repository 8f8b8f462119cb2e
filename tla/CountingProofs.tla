---------------------------- MODULE CountingProofs ---------------------------
(***************************************************************************)
(* Parts of the server that are right because something adds up: the       *)
(* strikes behind a block (Throttle), what several chains burn for one     *)
(* withdrawal (Burns), and how many rows are newer than those of a page    *)
(* (History).                                                              *)
(***************************************************************************)
EXTENDS Throttle, Burns, History, SumTheorems, SequenceTheorems, TLAPS

-----------------------------------------------------------------------------
(***************************************************************************)
(* Throttle                                                                *)
(***************************************************************************)
StrikeRecords ==
  [known : BOOLEAN, violations : [Instants -> Nat], blockUntil : Int, blockCount : Nat,
   reqCount : Nat, reqWindowStart : Int, lastSeenAt : Int]

\* What is on record of an address has not been spent on a block yet.
CauseInv(c) == Threshold * imposed[c] + SumFunction(record[c].violations) <= struck[c]

ThrottleInv ==
  /\ instant \in Instants
  /\ record \in [Callers -> StrikeRecords]
  /\ struck \in [Callers -> Nat] /\ imposed \in [Callers -> Nat]
  /\ \A c \in Callers : CauseInv(c)

LEMMA InstantsFinite == IsFiniteSet(Instants)
<1>1. 1 \in Int /\ MaxClock \in Int
  BY ThrottleAssumption
<1> QED BY <1>1, FS_Interval DEF Instants

LEMMA StrikesType ==
  ASSUME NEW v \in [Instants -> Nat]
  PROVE  SumFunction(v) \in Nat
  BY InstantsFinite, SumFunctionType

LEMMA NoStrikesSum == NoStrikes \in [Instants -> Nat] /\ SumFunction(NoStrikes) = 0
<1>1. NoStrikes = [t \in Instants |-> 0]
  BY DEF NoStrikes
<1> QED BY <1>1, InstantsFinite, SumOfZeros

LEMMA NoRecordType == NoRecord \in StrikeRecords /\ NoRecord.violations = NoStrikes
  BY NoStrikesSum DEF NoRecord, StrikeRecords

\* Looking an address up leaves its strikes alone.
LEMMA Looked ==
  ASSUME ThrottleInv, NEW c \in Callers
  PROVE  /\ GetRecord(c) \in StrikeRecords
         /\ SumFunction(GetRecord(c).violations) <= SumFunction(record[c].violations)
<1>1. record[c] \in StrikeRecords /\ instant \in Int
  BY DEF ThrottleInv, Instants
<1>2. SumFunction(record[c].violations) \in Nat
  BY <1>1, StrikesType DEF StrikeRecords
<1>3. CASE record[c].known
  <2>1. GetRecord(c) = [record[c] EXCEPT !.lastSeenAt = instant]
    BY <1>3 DEF GetRecord
  <2>2. GetRecord(c) \in StrikeRecords /\ GetRecord(c).violations = record[c].violations
    BY <1>1, <2>1 DEF StrikeRecords
  <2> QED BY <1>2, <2>2
<1>4. CASE ~ record[c].known
  <2>1. GetRecord(c) = [NoRecord EXCEPT !.known = TRUE, !.reqWindowStart = instant,
                                        !.lastSeenAt = instant]
    BY <1>4 DEF GetRecord
  <2>2. GetRecord(c) \in StrikeRecords /\ GetRecord(c).violations = NoRecord.violations
    BY <1>1, <2>1, NoRecordType DEF StrikeRecords
  <2> QED BY <1>2, <2>2, NoRecordType, NoStrikesSum
<1> QED BY <1>3, <1>4

LEMMA CountedType ==
  ASSUME instant \in Instants, NEW r \in StrikeRecords
  PROVE  Counted(r) \in StrikeRecords /\ Counted(r).violations = r.violations
<1>1. instant \in Int /\ r.reqCount + 1 \in Nat /\ 1 \in Nat
  BY DEF Instants, StrikeRecords
<1>2. CASE instant - r.reqWindowStart > Minute
  <2>1. Counted(r) = [r EXCEPT !.reqCount = 1, !.reqWindowStart = instant]
    BY <1>2 DEF Counted
  <2> QED BY <1>1, <2>1 DEF StrikeRecords
<1>3. CASE ~ (instant - r.reqWindowStart > Minute)
  <2>1. Counted(r) = [r EXCEPT !.reqCount = r.reqCount + 1]
    BY <1>3 DEF Counted
  <2> QED BY <1>1, <2>1 DEF StrikeRecords
<1> QED BY <1>2, <1>3

\* Old strikes are dropped, and the new ones are as many as the score.
LEMMA StrikesSum ==
  ASSUME instant \in Instants, NEW v \in [Instants -> Nat], NEW score \in Nat
  PROVE  /\ Strikes(v, score) \in [Instants -> Nat]
         /\ SumFunction(Strikes(v, score)) <= SumFunction(v) + score
<1> DEFINE kept == PruneViolations(v)
           new == Strikes(v, score)
<1>1. kept \in [Instants -> Nat] /\ \A t \in Instants : kept[t] <= v[t]
  BY DEF PruneViolations
<1>2. new = [kept EXCEPT ![instant] = kept[instant] + score]
  BY DEF Strikes
<1> HIDE DEF kept, new
<1>3. kept[instant] + score \in Nat
  BY <1>1
<1>4. /\ new \in [Instants -> Nat] /\ new[instant] = kept[instant] + score
      /\ \A t \in Instants \ {instant} : new[t] = kept[t]
  BY <1>1, <1>2, <1>3
<1>5. SumFunction(new) + kept[instant] = SumFunction(kept) + new[instant]
  BY <1>1, <1>4, InstantsFinite, SumChanges
<1>6. SumFunction(kept) <= SumFunction(v)
  BY <1>1, InstantsFinite, SumSmaller
<1>7. /\ SumFunction(new) \in Nat /\ SumFunction(kept) \in Nat /\ SumFunction(v) \in Nat
      /\ kept[instant] \in Nat
  BY <1>1, <1>4, StrikesType
<1>8. SumFunction(new) <= SumFunction(v) + score
  BY <1>4, <1>5, <1>6, <1>7
<1> QED BY <1>4, <1>8 DEF new

\* A block is imposed for Threshold strikes, which are gone then.
LEMMA StrikesSpent ==
  ASSUME instant \in Instants, NEW r \in StrikeRecords, NEW score \in Nat
  PROVE  /\ WithStrikes(r, score) \in StrikeRecords
         /\ Blocks(r, score) =>
              Threshold + SumFunction(WithStrikes(r, score).violations)
                <= SumFunction(r.violations) + score
         /\ ~ Blocks(r, score) =>
              SumFunction(WithStrikes(r, score).violations) <= SumFunction(r.violations) + score
<1> DEFINE v == Strikes(r.violations, score)
<1>1. r.violations \in [Instants -> Nat] /\ r.blockCount \in Nat
  BY DEF StrikeRecords
<1>2. v \in [Instants -> Nat] /\ SumFunction(v) <= SumFunction(r.violations) + score
  BY <1>1, StrikesSum
<1>3. SumFunction(v) \in Nat /\ SumFunction(r.violations) \in Nat /\ Threshold \in Nat
  BY <1>1, <1>2, StrikesType, ThrottleAssumption
<1>4. CASE Blocks(r, score)
  <2>1. SumFunction(v) >= Threshold
    BY <1>4 DEF Blocks
  <2>2. instant + BlockDuration(r.blockCount) \in Int
    <3>1. BlockDuration(r.blockCount) \in Nat
      <4>1. Len(BlockLengths) \in Nat /\ Len(BlockLengths) >= 1
        BY ThrottleAssumption, EmptySeq
      <4>2. (IF r.blockCount + 1 <= Len(BlockLengths) THEN r.blockCount + 1
             ELSE Len(BlockLengths)) \in 1 .. Len(BlockLengths)
        BY <1>1, <4>1
      <4> QED BY <4>2, ThrottleAssumption, SMTT(20) DEF BlockDuration
    <3>2. instant \in Int
      BY DEF Instants
    <3> QED BY <3>1, <3>2
  <2> DEFINE until == instant + BlockDuration(r.blockCount)
  <2>3. WithStrikes(r, score) = [r EXCEPT !.violations = NoStrikes, !.blockUntil = until,
                                          !.blockCount = r.blockCount + 1]
    BY <1>4 DEF WithStrikes, AfterBlock
  <2>4. /\ WithStrikes(r, score) \in StrikeRecords
        /\ WithStrikes(r, score).violations = NoStrikes
    <3>1. until \in Int /\ r.blockCount + 1 \in Nat
      BY <1>1, <2>2
    <3> HIDE DEF v, until
    <3> QED BY <2>3, <3>1, NoStrikesSum DEF StrikeRecords
  <2> HIDE DEF v, until
  <2> QED BY <1>2, <1>3, <1>4, <2>1, <2>4, NoStrikesSum
<1>5. CASE ~ Blocks(r, score)
  <2>1. WithStrikes(r, score) = [r EXCEPT !.violations = v]
    BY <1>5 DEF WithStrikes
  <2> HIDE DEF v
  <2>2. WithStrikes(r, score) \in StrikeRecords /\ WithStrikes(r, score).violations = v
    BY <1>2, <2>1 DEF StrikeRecords
  <2> QED BY <1>2, <1>5, <2>2
<1> QED BY <1>4, <1>5

\* A record changes, its strikes do not grow.
LEMMA RecordKept ==
  ASSUME ThrottleInv, NEW c \in Callers, NEW r \in StrikeRecords,
         SumFunction(r.violations) <= SumFunction(record[c].violations),
         record' = [record EXCEPT ![c] = r], instant' \in Instants, UNCHANGED <<struck, imposed>>
  PROVE  ThrottleInv'
<1>1. record' \in [Callers -> StrikeRecords] /\ record'[c] = r
      /\ \A d \in Callers \ {c} : record'[d] = record[d]
  BY DEF ThrottleInv
<1>2. ASSUME NEW d \in Callers PROVE CauseInv(d)'
  <2>1. CauseInv(d) /\ struck[d] \in Nat /\ imposed[d] \in Nat /\ Threshold \in Nat
    BY ThrottleAssumption DEF ThrottleInv
  <2>2. Threshold * imposed[d] \in Nat
    BY <2>1
  <2>3. SumFunction(record[d].violations) \in Nat /\ SumFunction(record'[d].violations) \in Nat
    <3>1. record[d] \in StrikeRecords /\ record'[d] \in StrikeRecords
      BY <1>1 DEF ThrottleInv
    <3> QED BY <3>1, StrikesType DEF StrikeRecords
  <2>4. SumFunction(record'[d].violations) <= SumFunction(record[d].violations)
    BY <1>1, <2>3
  <2> QED BY <2>1, <2>2, <2>3, <2>4 DEF CauseInv
<1> QED BY <1>1, <1>2 DEF ThrottleInv

\* A record of the address as it stands is struck.
LEMMA StrikeKept ==
  ASSUME ThrottleInv, NEW c \in Callers, NEW r \in StrikeRecords, NEW score \in Nat,
         SumFunction(r.violations) <= SumFunction(record[c].violations),
         RecordViolation(c, r, score), instant' = instant
  PROVE  ThrottleInv'
<1> DEFINE new == WithStrikes(r, score)
           block == IF Blocks(r, score) THEN 1 ELSE 0
<1>1. instant \in Instants
  BY DEF ThrottleInv
<1>2. new \in StrikeRecords
  BY <1>1, StrikesSpent
<1>3. Threshold * block + SumFunction(new.violations) <= SumFunction(r.violations) + score
  <2>1. Threshold \in Nat
    BY ThrottleAssumption
  <2>2. CASE Blocks(r, score)
    BY <1>1, <2>1, <2>2, StrikesSpent
  <2>3. CASE ~ Blocks(r, score)
    <3>1. SumFunction(new.violations) \in Nat
      BY <1>2, StrikesType DEF StrikeRecords
    <3> QED BY <1>1, <2>1, <2>3, <3>1, StrikesSpent
  <2> QED BY <2>2, <2>3
<1>4. block \in Nat
  OBVIOUS
<1>5. /\ record' = [record EXCEPT ![c] = new]
      /\ struck' = [struck EXCEPT ![c] = @ + score]
      /\ imposed' = [imposed EXCEPT ![c] = @ + block]
  BY DEF RecordViolation
<1> HIDE DEF new, block
<1>6. /\ record' \in [Callers -> StrikeRecords] /\ record'[c] = new
      /\ struck' \in [Callers -> Nat] /\ struck'[c] = struck[c] + score
      /\ imposed' \in [Callers -> Nat] /\ imposed'[c] = imposed[c] + block
      /\ \A d \in Callers \ {c} :
           record'[d] = record[d] /\ struck'[d] = struck[d] /\ imposed'[d] = imposed[d]
  BY <1>2, <1>4, <1>5 DEF ThrottleInv
<1>7. ASSUME NEW d \in Callers \ {c} PROVE CauseInv(d)'
  BY <1>6 DEF CauseInv, ThrottleInv
<1>8. CauseInv(c)'
  <2>1. CauseInv(c) /\ struck[c] \in Nat /\ imposed[c] \in Nat /\ Threshold \in Nat
    BY ThrottleAssumption DEF ThrottleInv
  <2>2. Threshold * imposed'[c] = Threshold * imposed[c] + Threshold * block
    BY <1>4, <1>6, <2>1
  <2>3. Threshold * imposed[c] \in Nat /\ Threshold * block \in Nat
    BY <1>4, <2>1
  <2>4. /\ SumFunction(record[c].violations) \in Nat /\ SumFunction(new.violations) \in Nat
        /\ SumFunction(r.violations) \in Nat
    <3>1. record[c] \in StrikeRecords
      BY DEF ThrottleInv
    <3> QED BY <1>2, <3>1, StrikesType DEF StrikeRecords
  <2>5. Threshold * imposed[c] + SumFunction(record[c].violations) <= struck[c]
    BY <2>1 DEF CauseInv
  <2> HIDE DEF CauseInv
  <2>6. Threshold * imposed'[c] + SumFunction(record'[c].violations) <= struck'[c]
    BY <1>3, <1>6, <2>1, <2>2, <2>3, <2>4, <2>5
  <2> QED BY <2>6 DEF CauseInv
<1> QED BY <1>1, <1>6, <1>7, <1>8 DEF ThrottleInv

LEMMA FinishKeeps ==
  ASSUME ThrottleInv, NEW c \in Callers, NEW score \in Nat, Finish(c, score), instant' = instant
  PROVE  ThrottleInv'
<1>1. CASE score = 0
  BY <1>1 DEF Finish, ThrottleInv, CauseInv
<1>2. CASE score # 0
  <2>1. RecordViolation(c, GetRecord(c), score)
    BY <1>2 DEF Finish
  <2> QED BY <2>1, Looked, StrikeKept
<1> QED BY <1>1, <1>2

LEMMA LetInKeeps ==
  ASSUME ThrottleInv, NEW c \in Callers, LetIn(c)
  PROVE  ThrottleInv'
<1> DEFINE counted == Counted(GetRecord(c))
<1>1. instant' = instant /\ instant \in Instants
  BY DEF LetIn, ThrottleInv
<1>2. /\ counted \in StrikeRecords
      /\ SumFunction(counted.violations) <= SumFunction(record[c].violations)
  <2>1. counted \in StrikeRecords /\ counted.violations = GetRecord(c).violations
    BY <1>1, Looked, CountedType
  <2> HIDE DEF counted
  <2> QED BY <2>1, Looked
<1>3. \/ RecordViolation(c, counted, 1)
      \/ record' = [record EXCEPT ![c] = counted] /\ UNCHANGED <<struck, imposed>>
      \/ record' = [record EXCEPT ![c] = GetRecord(c)] /\ UNCHANGED <<struck, imposed>>
  BY DEF LetIn
<1> HIDE DEF counted
<1>4. CASE RecordViolation(c, counted, 1)
  BY <1>1, <1>2, <1>4, StrikeKept
<1>5. CASE record' = [record EXCEPT ![c] = counted] /\ UNCHANGED <<struck, imposed>>
  BY <1>1, <1>2, <1>5, RecordKept
<1>6. CASE record' = [record EXCEPT ![c] = GetRecord(c)] /\ UNCHANGED <<struck, imposed>>
  BY <1>1, <1>6, Looked, RecordKept
<1> QED BY <1>3, <1>4, <1>5, <1>6

\* What is forgotten strikes nobody.
LEMMA ForgottenKeeps ==
  ASSUME ThrottleInv, instant' \in Instants, UNCHANGED <<struck, imposed>>,
         DOMAIN record' = Callers, record' = [c \in Callers |-> record'[c]],
         \A c \in Callers : record'[c] \in {record[c], NoRecord}
  PROVE  ThrottleInv'
<1>1. \A c \in Callers : record'[c] \in StrikeRecords
  BY NoRecordType DEF ThrottleInv
<1>2. record' \in [Callers -> StrikeRecords]
  BY <1>1
<1>3. ASSUME NEW c \in Callers PROVE CauseInv(c)'
  <2>1. CauseInv(c) /\ struck[c] \in Nat /\ imposed[c] \in Nat /\ Threshold \in Nat
    BY ThrottleAssumption DEF ThrottleInv
  <2>2. Threshold * imposed[c] \in Nat
    BY <2>1
  <2>3. SumFunction(record[c].violations) \in Nat
    BY StrikesType DEF ThrottleInv, StrikeRecords
  <2>4. CASE record'[c] = record[c]
    BY <2>1, <2>4 DEF CauseInv
  <2>5. CASE record'[c] = NoRecord
    BY <2>1, <2>2, <2>3, <2>5, NoRecordType, NoStrikesSum DEF CauseInv
  <2> QED BY <2>4, <2>5
<1> QED BY <1>2, <1>3 DEF ThrottleInv

LEMMA ThrottleStepKeeps ==
  ASSUME ThrottleInv, [ThrottleStep]_throttleVars
  PROVE  ThrottleInv'
<1>1. instant \in Instants
  BY DEF ThrottleInv
<1>2. ASSUME NEW c \in Callers, TurnAway(c) PROVE ThrottleInv'
  <2>1. /\ record' = [record EXCEPT ![c] = GetRecord(c)]
        /\ instant' = instant /\ UNCHANGED <<struck, imposed>>
    BY <1>2 DEF TurnAway
  <2> QED BY <1>1, <2>1, Looked, RecordKept
<1>3. ASSUME NEW c \in Callers, LetIn(c) PROVE ThrottleInv'
  BY <1>3, LetInKeeps
<1>4. ASSUME NEW c \in Callers, Answer(c) PROVE ThrottleInv'
  <2>1. PICK score \in 0 .. 2 : Finish(c, score)
    BY <1>4 DEF Answer
  <2>2. score \in Nat /\ instant' = instant
    BY <1>4 DEF Answer
  <2> QED BY <2>1, <2>2, FinishKeeps
<1>5. ASSUME NEW c \in Callers, UnblockIp(c) PROVE ThrottleInv'
  <2> DEFINE cleared == [record[c] EXCEPT !.blockUntil = 0, !.violations = NoStrikes]
  <2>1. record[c] \in StrikeRecords /\ 0 \in Int
    BY DEF ThrottleInv
  <2>2. /\ record' = [record EXCEPT ![c] = cleared]
        /\ instant' = instant /\ UNCHANGED <<struck, imposed>>
    BY <1>5, <2>1 DEF UnblockIp, ThrottleInv, StrikeRecords
  <2>3. cleared \in StrikeRecords /\ cleared.violations = NoStrikes
    BY <2>1, NoStrikesSum DEF StrikeRecords
  <2>4. SumFunction(record[c].violations) \in Nat
    BY <2>1, StrikesType DEF StrikeRecords
  <2> HIDE DEF cleared
  <2>5. SumFunction(cleared.violations) <= SumFunction(record[c].violations)
    BY <2>3, <2>4, NoStrikesSum
  <2> QED BY <1>1, <2>2, <2>3, <2>5, RecordKept
<1>6. ASSUME NEW c \in Callers, NEW k \in Keys, Call(c, k) PROVE ThrottleInv'
  <2>1. PICK score \in {0, 1, 2} : Finish(c, score)
    BY <1>6 DEF Call
  <2>2. score \in Nat /\ instant' = instant
    BY <1>6 DEF Call
  <2> QED BY <2>1, <2>2, FinishKeeps
<1>7. ASSUME Forget PROVE ThrottleInv'
  <2>1. /\ DOMAIN record' = Callers /\ record' = [c \in Callers |-> record'[c]]
        /\ \A c \in Callers : record'[c] \in {record[c], NoRecord}
        /\ instant' = instant /\ UNCHANGED <<struck, imposed>>
    BY <1>7 DEF Forget
  <2> QED BY <1>1, <2>1, ForgottenKeeps
<1>8. ASSUME Wipe PROVE ThrottleInv'
  <2>1. /\ DOMAIN record' = Callers /\ record' = [c \in Callers |-> record'[c]]
        /\ \A c \in Callers : record'[c] \in {record[c], NoRecord}
        /\ instant' = instant /\ UNCHANGED <<struck, imposed>>
    BY <1>8 DEF Wipe
  <2> QED BY <1>1, <2>1, ForgottenKeeps
<1>9. ASSUME Elapse PROVE ThrottleInv'
  <2>1. instant' \in Instants
    BY <1>1, <1>9, ThrottleAssumption DEF Elapse, Instants
  <2> QED BY <1>9, <2>1 DEF Elapse, ThrottleInv, CauseInv
<1>10. ASSUME UNCHANGED throttleVars PROVE ThrottleInv'
  BY <1>10 DEF throttleVars, ThrottleInv, CauseInv
<1> QED BY <1>2, <1>3, <1>4, <1>5, <1>6, <1>7, <1>8, <1>9, <1>10 DEF ThrottleStep

BlockTyped(r, blocks) == r.blockUntil \in Nat /\ r.blockCount \in 0 .. blocks

CallerTyped(c) ==
  /\ BlockTyped(record[c], imposed[c])
  /\ open[c] <= requests[c] /\ requests[c] <= MaxRequests

ThrottleRest ==
  /\ open \in [Callers -> Nat] /\ requests \in [Callers -> Nat]
  /\ \A c \in Callers : CallerTyped(c)
  /\ wipes \in 0 .. MaxWipes

LEMMA NoRecordBlocks == ASSUME NEW n \in Nat PROVE BlockTyped(NoRecord, n)
  BY DEF BlockTyped, NoRecord

LEMMA LookedBlocks ==
  ASSUME ThrottleInv, NEW c \in Callers, BlockTyped(record[c], imposed[c])
  PROVE  BlockTyped(GetRecord(c), imposed[c])
<1>1. record[c] \in StrikeRecords /\ imposed[c] \in Nat
  BY DEF ThrottleInv
<1>2. GetRecord(c).blockUntil \in {record[c].blockUntil, 0}
      /\ GetRecord(c).blockCount \in {record[c].blockCount, 0}
  BY <1>1 DEF GetRecord, NoRecord, StrikeRecords
<1> QED BY <1>1, <1>2 DEF BlockTyped

LEMMA CountedBlocks ==
  ASSUME NEW r \in StrikeRecords, NEW n \in Nat, BlockTyped(r, n)
  PROVE  BlockTyped(Counted(r), n)
<1>1. Counted(r).blockUntil = r.blockUntil /\ Counted(r).blockCount = r.blockCount
  <2>1. CASE instant - r.reqWindowStart > Minute
    BY <2>1 DEF Counted, StrikeRecords
  <2>2. CASE ~ (instant - r.reqWindowStart > Minute)
    <3>1. Counted(r) = [r EXCEPT !.reqCount = r.reqCount + 1]
      BY <2>2 DEF Counted
    <3> QED BY <3>1 DEF StrikeRecords
  <2> QED BY <2>1, <2>2
<1> QED BY <1>1 DEF BlockTyped

LEMMA BlockLasts == ASSUME NEW n \in Nat PROVE BlockDuration(n) \in Nat
<1>1. BlockLengths \in Seq(Nat) /\ Len(BlockLengths) \in Nat /\ Len(BlockLengths) # 0
  BY ThrottleAssumption
<1>2. n + 1 <= Len(BlockLengths) => n + 1 \in 1 .. Len(BlockLengths)
  BY <1>1
<1>3. Len(BlockLengths) \in 1 .. Len(BlockLengths)
  BY <1>1
<1>4. \A i \in 1 .. Len(BlockLengths) : BlockLengths[i] \in Nat
  BY <1>1
<1> QED BY <1>2, <1>3, <1>4 DEF BlockDuration

LEMMA StruckBlocks ==
  ASSUME instant \in Instants, NEW r \in StrikeRecords, NEW n \in Nat, BlockTyped(r, n),
         NEW score
  PROVE  BlockTyped(WithStrikes(r, score), n + (IF Blocks(r, score) THEN 1 ELSE 0))
<1>1. r.blockUntil \in Nat /\ r.blockCount \in Nat /\ r.blockCount <= n
      /\ instant \in Nat /\ BlockDuration(r.blockCount) \in Nat
  BY BlockLasts DEF BlockTyped, Instants
<1>2. CASE Blocks(r, score)
  <2> DEFINE violations == AfterBlock(Strikes(r.violations, score))
             until == instant + BlockDuration(r.blockCount)
             count == r.blockCount + 1
  <2>1. WithStrikes(r, score) =
          [r EXCEPT !.violations = violations, !.blockUntil = until, !.blockCount = count]
    BY <1>2 DEF WithStrikes
  <2>2. until \in Nat /\ count \in 0 .. n + 1
    BY <1>1
  <2> HIDE DEF violations, until, count
  <2>3. WithStrikes(r, score).blockUntil = until /\ WithStrikes(r, score).blockCount = count
    BY <2>1 DEF StrikeRecords
  <2> QED BY <1>2, <2>2, <2>3 DEF BlockTyped
<1>3. CASE ~ Blocks(r, score)
  <2> DEFINE violations == Strikes(r.violations, score)
  <2>1. WithStrikes(r, score) = [r EXCEPT !.violations = violations]
    BY <1>3 DEF WithStrikes
  <2> HIDE DEF violations
  <2>2. /\ WithStrikes(r, score).blockUntil = r.blockUntil
        /\ WithStrikes(r, score).blockCount = r.blockCount
    BY <2>1 DEF StrikeRecords
  <2> QED BY <1>1, <1>3, <2>2 DEF BlockTyped
<1> QED BY <1>2, <1>3

\* One record is written, as another address's stay.
LEMMA RecordBlocks ==
  ASSUME ThrottleInv, NEW c \in Callers, NEW r, BlockTyped(r, imposed[c]),
         \A d \in Callers : BlockTyped(record[d], imposed[d]),
         record' = [record EXCEPT ![c] = r], UNCHANGED imposed
  PROVE  \A d \in Callers : BlockTyped(record'[d], imposed'[d])
  BY DEF ThrottleInv

LEMMA StrikeBlocks ==
  ASSUME ThrottleInv, NEW c \in Callers, NEW r \in StrikeRecords, BlockTyped(r, imposed[c]),
         \A d \in Callers : BlockTyped(record[d], imposed[d]),
         NEW score, RecordViolation(c, r, score)
  PROVE  \A d \in Callers : BlockTyped(record'[d], imposed'[d])
<1> DEFINE new == WithStrikes(r, score)
           block == IF Blocks(r, score) THEN 1 ELSE 0
<1>1. imposed[c] \in Nat /\ instant \in Instants
  BY DEF ThrottleInv
<1>2. BlockTyped(new, imposed[c] + block)
  BY <1>1, StruckBlocks
<1>3. record' = [record EXCEPT ![c] = new] /\ imposed' = [imposed EXCEPT ![c] = @ + block]
  BY DEF RecordViolation
<1> HIDE DEF new, block
<1> QED BY <1>2, <1>3 DEF ThrottleInv

LEMMA FinishBlocks ==
  ASSUME ThrottleInv, ThrottleRest, NEW c \in Callers, NEW score, Finish(c, score),
         UNCHANGED <<requests, wipes>>
  PROVE  ThrottleRest'
<1>1. \A d \in Callers : BlockTyped(record[d], imposed[d])
  BY DEF ThrottleRest, CallerTyped
<1>2. \A d \in Callers : BlockTyped(record'[d], imposed'[d])
  <2>1. CASE score = 0
    BY <1>1, <2>1 DEF Finish
  <2>2. CASE score # 0
    <3>1. RecordViolation(c, GetRecord(c), score)
      BY <2>2 DEF Finish
    <3>2. GetRecord(c) \in StrikeRecords /\ BlockTyped(GetRecord(c), imposed[c])
      BY <1>1, Looked, LookedBlocks
    <3> QED BY <1>1, <3>1, <3>2, StrikeBlocks
  <2> QED BY <2>1, <2>2
<1>3. open' \in [Callers -> Nat] /\ \A d \in Callers : open'[d] <= open[d]
  BY DEF Finish, ThrottleRest
<1>4. \A d \in Callers : open'[d] <= requests'[d] /\ requests'[d] <= MaxRequests
  BY <1>3, ThrottleAssumption DEF ThrottleRest, CallerTyped
<1> QED BY <1>2, <1>3, <1>4 DEF ThrottleRest, CallerTyped

LEMMA LetInBlocks ==
  ASSUME ThrottleInv, ThrottleRest, NEW c \in Callers, LetIn(c)
  PROVE  ThrottleRest'
<1> DEFINE counted == Counted(GetRecord(c))
<1>1. \A d \in Callers : BlockTyped(record[d], imposed[d])
  BY DEF ThrottleRest, CallerTyped
<1>2. /\ GetRecord(c) \in StrikeRecords /\ counted \in StrikeRecords
      /\ BlockTyped(GetRecord(c), imposed[c]) /\ BlockTyped(counted, imposed[c])
  <2>1. instant \in Instants /\ imposed[c] \in Nat
    BY DEF ThrottleInv
  <2> QED BY <1>1, <2>1, Looked, LookedBlocks, CountedType, CountedBlocks
<1>3. \/ RecordViolation(c, counted, 1)
      \/ record' = [record EXCEPT ![c] = counted] /\ UNCHANGED imposed
      \/ record' = [record EXCEPT ![c] = GetRecord(c)] /\ UNCHANGED imposed
  BY DEF LetIn
<1> HIDE DEF counted
<1>4. \A d \in Callers : BlockTyped(record'[d], imposed'[d])
  BY <1>1, <1>2, <1>3, RecordBlocks, StrikeBlocks
<1>5. /\ requests[c] < MaxRequests /\ MaxRequests \in Nat
      /\ requests' = [requests EXCEPT ![c] = @ + 1] /\ open' = [open EXCEPT ![c] = @ + 1]
      /\ UNCHANGED wipes
  BY ThrottleAssumption DEF LetIn
<1>6. /\ open' \in [Callers -> Nat] /\ requests' \in [Callers -> Nat]
      /\ \A d \in Callers : open'[d] <= requests'[d] /\ requests'[d] <= MaxRequests
  BY <1>5 DEF ThrottleRest, CallerTyped
<1> QED BY <1>4, <1>5, <1>6 DEF ThrottleRest, CallerTyped

\* What is forgotten blocks nobody.
LEMMA ForgottenBlocks ==
  ASSUME ThrottleInv, ThrottleRest, UNCHANGED <<requests, imposed>>,
         \A c \in Callers : record'[c] \in {record[c], NoRecord},
         open' \in [Callers -> Nat], \A c \in Callers : open'[c] <= open[c],
         wipes' \in 0 .. MaxWipes
  PROVE  ThrottleRest'
<1>1. ASSUME NEW c \in Callers PROVE CallerTyped(c)'
  <2>1. CallerTyped(c) /\ imposed[c] \in Nat
    BY DEF ThrottleInv, ThrottleRest
  <2>2. BlockTyped(record'[c], imposed[c])
    BY <2>1, NoRecordBlocks DEF CallerTyped
  <2>3. open'[c] <= requests[c]
    BY <2>1 DEF CallerTyped, ThrottleRest
  <2> QED BY <2>1, <2>2, <2>3 DEF CallerTyped
<1> QED BY <1>1 DEF ThrottleRest

LEMMA ThrottleStepTyped ==
  ASSUME ThrottleInv, ThrottleRest, [ThrottleStep]_throttleVars
  PROVE  ThrottleRest'
<1>1. /\ \A d \in Callers : BlockTyped(record[d], imposed[d])
      /\ MaxWipes \in Nat
  BY ThrottleAssumption DEF ThrottleRest, CallerTyped
<1>2. ASSUME NEW c \in Callers, NEW r, BlockTyped(r, imposed[c]),
             record' = [record EXCEPT ![c] = r], UNCHANGED <<imposed, open, requests, wipes>>
      PROVE  ThrottleRest'
  <2>1. \A d \in Callers : BlockTyped(record'[d], imposed'[d])
    BY <1>1, <1>2, RecordBlocks
  <2> QED BY <1>2, <2>1 DEF ThrottleRest, CallerTyped
<1>3. ASSUME NEW c \in Callers, TurnAway(c) PROVE ThrottleRest'
  BY <1>1, <1>2, <1>3, LookedBlocks DEF TurnAway
<1>4. ASSUME NEW c \in Callers, LetIn(c) PROVE ThrottleRest'
  BY <1>4, LetInBlocks
<1>5. ASSUME NEW c \in Callers, Answer(c) PROVE ThrottleRest'
  <2>1. PICK score \in 0 .. 2 : Finish(c, score)
    BY <1>5 DEF Answer
  <2> QED BY <1>5, <2>1, FinishBlocks DEF Answer
<1>6. ASSUME NEW c \in Callers, UnblockIp(c) PROVE ThrottleRest'
  <2> DEFINE cleared == [record[c] EXCEPT !.blockUntil = 0, !.violations = NoStrikes]
  <2>1. record[c] \in StrikeRecords /\ BlockTyped(record[c], imposed[c]) /\ imposed[c] \in Nat
    BY <1>1 DEF ThrottleInv
  <2>2. /\ record' = [record EXCEPT ![c] = cleared]
        /\ UNCHANGED <<imposed, open, requests, wipes>>
    BY <1>6, <2>1 DEF UnblockIp, ThrottleInv, StrikeRecords
  <2>3. cleared.blockUntil = 0 /\ cleared.blockCount = record[c].blockCount
    BY <2>1 DEF StrikeRecords
  <2> HIDE DEF cleared
  <2>4. BlockTyped(cleared, imposed[c])
    BY <2>1, <2>3 DEF BlockTyped
  <2> QED BY <1>2, <2>2, <2>4
<1>7. ASSUME NEW c \in Callers, NEW k \in Keys, Call(c, k) PROVE ThrottleRest'
  <2>1. PICK score \in {0, 1, 2} : Finish(c, score)
    BY <1>7 DEF Call
  <2> QED BY <1>7, <2>1, FinishBlocks DEF Call
<1>8. ASSUME Forget PROVE ThrottleRest'
  <2>1. \A c \in Callers : record'[c] \in {record[c], NoRecord}
    BY <1>8 DEF Forget
  <2>2. open' = open /\ wipes' = wipes /\ UNCHANGED <<requests, imposed>>
    BY <1>8 DEF Forget
  <2>3. open' \in [Callers -> Nat] /\ (\A c \in Callers : open'[c] <= open[c])
        /\ wipes' \in 0 .. MaxWipes
    BY <2>2 DEF ThrottleRest
  <2> QED BY <2>1, <2>2, <2>3, ForgottenBlocks
<1>9. ASSUME Wipe PROVE ThrottleRest'
  <2>1. /\ \A c \in Callers : record'[c] \in {record[c], NoRecord}
        /\ open' = [c \in Callers |-> 0] /\ wipes < MaxWipes /\ wipes' = wipes + 1
        /\ UNCHANGED <<requests, imposed>>
    BY <1>9 DEF Wipe
  <2>2. open' \in [Callers -> Nat] /\ (\A c \in Callers : open'[c] <= open[c])
    BY <2>1 DEF ThrottleRest
  <2>3. wipes' \in 0 .. MaxWipes
    BY <1>1, <2>1 DEF ThrottleRest
  <2> QED BY <2>1, <2>2, <2>3, ForgottenBlocks
<1>10. ASSUME Elapse PROVE ThrottleRest'
  BY <1>10 DEF Elapse, ThrottleRest, CallerTyped
<1>11. ASSUME UNCHANGED throttleVars PROVE ThrottleRest'
  BY <1>11 DEF throttleVars, ThrottleRest, CallerTyped
<1> QED
  BY <1>3, <1>4, <1>5, <1>6, <1>7, <1>8, <1>9, <1>10, <1>11 DEF ThrottleStep

LEMMA ThrottleStart == InitThrottle => ThrottleInv /\ ThrottleRest
<1> SUFFICES ASSUME InitThrottle PROVE ThrottleInv /\ ThrottleRest
  OBVIOUS
<1>1. /\ instant = 1 /\ record = [c \in Callers |-> NoRecord]
      /\ struck = [c \in Callers |-> 0] /\ imposed = [c \in Callers |-> 0]
      /\ open = [c \in Callers |-> 0] /\ requests = [c \in Callers |-> 0] /\ wipes = 0
      /\ MaxRequests \in Nat /\ MaxWipes \in Nat
  BY ThrottleAssumption DEF InitThrottle
<1>2. instant \in Instants
  BY <1>1, ThrottleAssumption DEF Instants
<1>3. ASSUME NEW c \in Callers PROVE CauseInv(c) /\ CallerTyped(c)
  BY <1>1, NoRecordType, NoStrikesSum, NoRecordBlocks, ThrottleAssumption
  DEF CauseInv, CallerTyped
<1> QED BY <1>1, <1>2, <1>3, NoRecordType DEF ThrottleInv, ThrottleRest

\* Every block of an address is backed by Threshold strikes of its own, which count
\* for no other block, for any number of callers, keys, restarts and lengths.
THEOREM BlocksHaveCause == ThrottleSpec => []BlockedForCause
<1>1. InitThrottle => ThrottleInv
  BY ThrottleStart
<1>2. ThrottleInv => BlockedForCause
  <2> SUFFICES ASSUME ThrottleInv, NEW c \in Callers PROVE Threshold * imposed[c] <= struck[c]
    BY DEF BlockedForCause
  <2>1. /\ CauseInv(c) /\ struck[c] \in Nat /\ imposed[c] \in Nat /\ Threshold \in Nat
        /\ record[c] \in StrikeRecords
    BY ThrottleAssumption DEF ThrottleInv
  <2>2. Threshold * imposed[c] \in Nat /\ SumFunction(record[c].violations) \in Nat
    BY <2>1, StrikesType DEF StrikeRecords
  <2> QED BY <2>1, <2>2 DEF CauseInv
<1>3. ThrottleInv /\ [ThrottleStep]_throttleVars => ThrottleInv'
  BY ThrottleStepKeeps
<1> QED BY <1>1, <1>2, <1>3, PTL DEF ThrottleSpec

\* A record counts no more blocks than were imposed, and no more requests are open
\* than were let in, across unblocking, cleanups and restarts.  (threatMonitor.ts.)
THEOREM ThrottleTyped == ThrottleSpec => []ThrottleTypeOK
<1>1. ThrottleInv /\ ThrottleRest => ThrottleTypeOK
  <2> SUFFICES ASSUME ThrottleInv, ThrottleRest PROVE ThrottleTypeOK
    OBVIOUS
  <2>1. ASSUME NEW c \in Callers
        PROVE  /\ record[c].violations \in [Instants -> Nat]
               /\ record[c].blockUntil \in Nat /\ record[c].blockCount \in 0 .. imposed[c]
               /\ struck[c] \in Nat /\ imposed[c] \in Nat
               /\ open[c] \in 0 .. requests[c] /\ requests[c] <= MaxRequests
    <3>1. CallerTyped(c) /\ open[c] \in Nat /\ requests[c] \in Nat
      BY DEF ThrottleRest
    <3>2. record[c].violations \in [Instants -> Nat] /\ struck[c] \in Nat /\ imposed[c] \in Nat
      BY DEF ThrottleInv, StrikeRecords
    <3> QED BY <3>1, <3>2 DEF CallerTyped, BlockTyped
  <2> QED BY <2>1 DEF ThrottleTypeOK, ThrottleInv, ThrottleRest
<1>2. ThrottleInv /\ ThrottleRest /\ [ThrottleStep]_throttleVars => ThrottleInv' /\ ThrottleRest'
  BY ThrottleStepKeeps, ThrottleStepTyped
<1> QED BY <1>1, <1>2, ThrottleStart, PTL DEF ThrottleSpec

-----------------------------------------------------------------------------
(***************************************************************************)
(* Burns                                                                   *)
(***************************************************************************)
Refusals == [chain : SourceChains, available : Nat]

(***************************************************************************)
(* The refusals a call has heard, each by another chain that it has tried. *)
(***************************************************************************)
RefusalInv(b) ==
  LET seen == attempt[b].seen
  IN /\ seen \in Seq(Refusals)
     /\ \A i \in DOMAIN seen :
          \E p \in DOMAIN Candidates(b) :
            p < attempt[b].next /\ seen[i].chain = Candidates(b)[p]
     /\ \A i, j \in DOMAIN seen : seen[i].chain = seen[j].chain => i = j

(***************************************************************************)
(* The account on Solana that it is minted to, as long as nothing failed.  *)
(***************************************************************************)
AccountInv(b) ==
  Destination[b] = "solana" /\ errors = 0 =>
    /\ attempt[b].at = "seed" => recipient[b] = "canonical" /\ tokenAccount[b] = "none"
    /\ attempt[b].at \notin {"resolve", "seed"} => recipient[b] = tokenAccount[b]

(***************************************************************************)
(* What is burned and not hidden by an error answer: nothing while it      *)
(* tries and when it fails, what was asked when it has an answer, and in   *)
(* no case more.                                                           *)
(***************************************************************************)
AmountInv(b) ==
  /\ attempt[b].at \in {"resolve", "seed", "trying", "failed"} => Answered(b) = 0
  /\ attempt[b].at = "submitted" => Want[b] - Answered(b) < Dust
  /\ 0 <= Answered(b) /\ Answered(b) <= Want[b]
  /\ hidden[b] > 0 => errors > 0

AttemptType ==
  [at : {"resolve", "seed", "trying", "submitted", "failed", "unanswered"},
   next : Nat, seen : Seq(Refusals)]

TokenAccounts == {"none", "raw", "canonical"}

BurnsType ==
  /\ unified \in [SourceChains -> Nat] /\ delegated \subseteq SourceChains
  /\ attempt \in [Burners -> AttemptType]
  /\ burned \in [Burners -> Nat] /\ hidden \in [Burners -> Nat]
  /\ tokenAccount \in [Burners -> TokenAccounts] /\ recipient \in [Burners -> TokenAccounts]
  /\ deposits \in 0..MaxDeposits /\ errors \in 0..MaxErrors

TriedInv(b) ==
  /\ attempt[b].next \in 1..(Len(Candidates(b)) + 1)
  /\ Len(attempt[b].seen) < attempt[b].next

BurnerInv(b) == TriedInv(b) /\ RefusalInv(b) /\ AccountInv(b) /\ AmountInv(b)

BurnsInv == BurnsType /\ \A b \in Burners : BurnerInv(b)

LEMMA BurnConstants ==
  /\ Fee \in Nat /\ Headroom \in Nat /\ Dust \in Nat /\ Dust > 0
  /\ MaxDeposits \in Nat /\ MaxErrors \in Nat
  /\ \A b \in Burners : Want[b] \in Nat /\ Want[b] > 0
  BY BurnsAssumption

LEMMA CandidatesType ==
  ASSUME NEW b \in Burners
  PROVE  /\ Candidates(b) \in Seq(SourceChains)
         /\ \A i, j \in DOMAIN Candidates(b) : Candidates(b)[i] = Candidates(b)[j] => i = j
<1>1. /\ Priority \in Seq(SourceChains)
      /\ \A i, j \in DOMAIN Priority : Priority[i] = Priority[j] => i = j
  BY BurnsAssumption
<1>2. CASE Destination[b] \notin SourceChains
  BY <1>1, <1>2 DEF Candidates
<1>3. CASE Destination[b] \in SourceChains
  <2> DEFINE n == Len(Priority)
             D == Destination[b]
             place == CHOOSE k \in DOMAIN Priority : Priority[k] = D
             S == [k \in DOMAIN Priority |->
                     IF k = 1 THEN D ELSE IF k <= place THEN Priority[k - 1] ELSE Priority[k]]
  <2>1. n \in Nat /\ DOMAIN Priority = 1..n /\ \A k \in 1..n : Priority[k] \in SourceChains
    BY <1>1
  <2>2. place \in 1..n /\ Priority[place] = D
    <3>1. \E k \in DOMAIN Priority : Priority[k] = D
      BY <1>3 DEF SourceChains, Range
    <3> QED BY <2>1, <3>1
  <2>3. Candidates(b) = S
    BY <1>3 DEF Candidates
  <2> HIDE DEF n, place
  <2>4. S = [k \in 1..n |->
               IF k = 1 THEN D ELSE IF k <= place THEN Priority[k - 1] ELSE Priority[k]]
    BY <2>1
  <2>5. \A k \in 1..n : S[k] \in SourceChains
    BY <1>3, <2>1, <2>2, <2>4
  <2>6. S \in Seq(SourceChains) /\ DOMAIN S = 1..n
    <3>1. S \in [1..n -> SourceChains]
      BY <2>4, <2>5
    <3> HIDE DEF S
    <3> QED BY <2>1, <3>1
  <2>7. \A k \in 1..n : \E i \in 1..n :
          /\ S[k] = Priority[i]
          /\ \/ k = 1 /\ i = place
             \/ k > 1 /\ k <= place /\ i = k - 1
             \/ k > place /\ i = k
    <3> TAKE k \in 1..n
    <3>1. CASE k = 1
      BY <2>1, <2>2, <2>4, <3>1
    <3>2. CASE k > 1 /\ k <= place
      <4>1. k - 1 \in 1..n
        BY <2>1, <3>2
      <4> QED BY <2>1, <2>2, <2>4, <3>2, <4>1
    <3>3. CASE k > 1 /\ k > place
      BY <2>1, <2>2, <2>4, <3>3
    <3> QED BY <2>1, <2>2, <3>1, <3>2, <3>3
  <2>8. \A i, j \in 1..n : S[i] = S[j] => i = j
    <3> HIDE DEF S
    <3> TAKE i, j \in 1..n
    <3> HAVE S[i] = S[j]
    <3>1. PICK p \in 1..n : /\ S[i] = Priority[p]
                            /\ \/ i = 1 /\ p = place
                               \/ i > 1 /\ i <= place /\ p = i - 1
                               \/ i > place /\ p = i
      BY <2>7
    <3>2. PICK q \in 1..n : /\ S[j] = Priority[q]
                            /\ \/ j = 1 /\ q = place
                               \/ j > 1 /\ j <= place /\ q = j - 1
                               \/ j > place /\ q = j
      BY <2>7
    <3>3. p = q
      BY <1>1, <2>1, <3>1, <3>2
    <3> QED BY <2>1, <2>2, <3>1, <3>2, <3>3
  <2> HIDE DEF S
  <2> QED BY <2>3, <2>6, <2>8
<1> QED BY <1>2, <1>3

(***************************************************************************)
(* What is taken from each in turn adds up to what is wanted, to less than *)
(* a grain, if together they have it.                                      *)
(***************************************************************************)
LEMMA CoveredInTurn ==
  ASSUME NEW n \in Nat, NEW w \in [1..n -> Nat], NEW want \in Nat, NEW dust \in Nat, dust > 0,
         want <= FirstSum(w, n),
         NEW rest, \A k \in 1..n : rest[k] = IF FirstSum(w, k - 1) < want
                                                THEN want - FirstSum(w, k - 1) ELSE 0,
         NEW used \in SUBSET (1..n), \A k \in 1..n : k \in used <=> rest[k] >= dust,
         NEW share, \A k \in used : share[k] = IF rest[k] <= w[k] THEN rest[k] ELSE w[k]
  PROVE  /\ SumFunctionOnSet(share, used) \in Nat
         /\ SumFunctionOnSet(share, used) <= want
         /\ want - SumFunctionOnSet(share, used) < dust
<1> DEFINE P(k) == FirstSum(w, k)
<1>1. \A k \in 0..n : P(k) \in Nat
  BY FirstSums
<1>2. P(0) = 0
  BY FirstSums
<1>3. \A k \in 1..n : P(k) = P(k - 1) + w[k]
  <2> TAKE k \in 1..n
  <2>1. k - 1 \in 0..n /\ k - 1 < n /\ (k - 1) + 1 = k
    OBVIOUS
  <2>2. P((k - 1) + 1) = P(k - 1) + w[(k - 1) + 1]
    BY <2>1, FirstSums
  <2> QED BY <2>1, <2>2
<1>4. ASSUME NEW k \in 0..n, NEW j \in 0..k PROVE P(j) <= P(k)
  BY FirstSumsGrow
<1>5. \A k \in 1..n : rest[k] = IF P(k - 1) < want THEN want - P(k - 1) ELSE 0
  OBVIOUS
<1>6. want <= P(n)
  OBVIOUS
<1> HIDE DEF P
<1>7. CASE used = {}
  <2>1. want < dust
    <3>1. CASE n = 0
      BY <1>2, <1>6, <3>1
    <3>2. CASE n > 0
      <4>1. 1 \in 1..n /\ 1 - 1 = 0
        BY <3>2
      <4>2. ~ (rest[1] >= dust)
        BY <1>7, <4>1
      <4>3. rest[1] = IF P(0) < want THEN want - P(0) ELSE 0
        BY <1>5, <4>1
      <4> QED BY <1>2, <4>2, <4>3
    <3> QED BY <3>1, <3>2
  <2>2. SumFunctionOnSet(share, used) = 0
    BY <1>7, SumOfNone
  <2> QED BY <2>1, <2>2
<1>8. CASE used # {}
  <2>1. PICK m \in used : \A k \in used : k <= m
    <3> DEFINE Above == {x \in Nat : \A k \in used : k <= x}
    <3>1. n \in Above
      OBVIOUS
    <3>2. PICK m \in Above : \A x \in Above : m <= x
      <4>1. Above \in SUBSET Nat /\ Above # {}
        BY <3>1
      <4> HIDE DEF Above
      <4> QED BY <4>1, LeastNatural
    <3>3. PICK k0 \in used : TRUE
      BY <1>8
    <3>4. m \in used
      <4> SUFFICES ASSUME m \notin used PROVE FALSE
        OBVIOUS
      <4>1. m \in Nat /\ m >= k0 /\ k0 \in Nat /\ k0 >= 1
        BY <3>2
      <4>2. m - 1 \in Above
        <5>1. \A k \in used : k <= m - 1
          <6> TAKE k \in used
          <6>1. k <= m /\ k # m /\ k \in Nat
            BY <3>2
          <6> QED BY <4>1, <6>1
        <5> QED BY <4>1, <5>1
      <4>3. m <= m - 1
        BY <3>2, <4>2
      <4> QED BY <4>1, <4>3
    <3> QED BY <3>2, <3>4
  <2>2. m \in 1..n /\ rest[m] >= dust
    BY <2>1
  <2>3. P(m - 1) \in Nat /\ P(m) \in Nat /\ w[m] \in Nat /\ P(m) = P(m - 1) + w[m]
    <3>1. m - 1 \in 0..n /\ m \in 0..n
      BY <2>2
    <3> QED BY <1>1, <1>3, <2>2, <3>1
  <2>4. P(m - 1) < want /\ rest[m] = want - P(m - 1)
    BY <1>5, <2>2, <2>3
  <2>5. \A k \in 1..m : k \in used /\ (k < m => share[k] = w[k])
    <3> TAKE k \in 1..m
    <3>1. k \in 1..n /\ k - 1 \in 0..(m - 1) /\ m - 1 \in 0..n
      BY <2>2
    <3>2. P(k - 1) <= P(m - 1) /\ P(k - 1) \in Nat
      <4>1. k - 1 \in 0..n
        BY <2>2, <3>1
      <4> QED BY <1>1, <1>4, <3>1, <4>1
    <3>3. rest[k] = want - P(k - 1)
      BY <1>5, <2>3, <2>4, <3>1, <3>2
    <3>4. k \in used
      <4>1. rest[m] >= dust
        BY <2>2
      <4>2. rest[k] >= rest[m]
        BY <2>3, <2>4, <3>2, <3>3
      <4>3. rest[k] \in Int /\ rest[m] \in Int
        BY <2>3, <2>4, <3>2, <3>3, SMTT(20)
      <4>4. rest[k] >= dust
        BY <4>1, <4>2, <4>3
      <4> QED BY <3>1, <4>4
    <3>5. ASSUME k < m PROVE share[k] = w[k]
      <4>1. k \in 0..(m - 1) /\ k \in 0..n
        BY <3>1, <3>5
      <4>2. P(k) <= P(m - 1) /\ P(k) \in Nat
        BY <1>1, <1>4, <3>1, <4>1
      <4>3. P(k) = P(k - 1) + w[k] /\ w[k] \in Nat
        BY <1>3, <3>1
      <4>4. P(k) < want
        BY <2>3, <2>4, <4>2
      <4>5. w[k] < want - P(k - 1)
        BY <3>2, <4>2, <4>3, <4>4
      <4>6. ~ (rest[k] <= w[k])
        BY <3>2, <3>3, <4>3, <4>5
      <4> QED BY <3>4, <4>6
    <3> QED BY <3>4, <3>5
  <2>6. used = 1..m
    <3>1. \A k \in used : k \in 1..m
      BY <2>1, <2>2
    <3> QED BY <2>5, <3>1
  <2>7. SumFunctionOnSet(share, 1..(m - 1)) = P(m - 1)
    <3>1. IsFiniteSet(1..(m - 1))
      <4>1. 1 \in Int /\ m - 1 \in Int
        BY <2>2
      <4> QED BY <4>1, FS_Interval
    <3>2. \A k \in 1..(m - 1) : share[k] = w[k]
      <4> TAKE k \in 1..(m - 1)
      <4>1. k \in 1..m /\ k < m
        BY <2>2
      <4> QED BY <2>5, <4>1
    <3>3. SumFunctionOnSet(share, 1..(m - 1)) = SumFunctionOnSet(w, 1..(m - 1))
      BY <3>1, <3>2, SumAgrees
    <3> QED BY <3>3 DEF P, FirstSum
  <2>8. share[m] = IF rest[m] <= w[m] THEN rest[m] ELSE w[m]
    BY <2>1
  <2>9. SumFunctionOnSet(share, used) = share[m] + P(m - 1)
    <3>1. 1..m = 1..(m - 1) \cup {m} /\ m \notin 1..(m - 1)
      BY <2>2
    <3>2. IsFiniteSet(1..(m - 1))
      <4>1. 1 \in Int /\ m - 1 \in Int
        BY <2>2
      <4> QED BY <4>1, FS_Interval
    <3>3. \A k \in 1..(m - 1) \cup {m} : share[k] \in Nat
      <4>1. share[m] \in Nat
        BY <2>3, <2>4, <2>8
      <4>2. \A k \in 1..(m - 1) : share[k] \in Nat
        <5> TAKE k \in 1..(m - 1)
        <5>1. k \in 1..m /\ k < m /\ k \in 1..n
          BY <2>2
        <5> QED BY <2>5, <5>1
      <4> QED BY <4>1, <4>2
    <3>4. SumFunctionOnSet(share, 1..(m - 1) \cup {m})
            = share[m] + SumFunctionOnSet(share, 1..(m - 1))
      BY <3>1, <3>2, <3>3, SumWith
    <3> QED BY <2>6, <2>7, <3>1, <3>4
  <2>10. CASE rest[m] <= w[m]
    BY <2>3, <2>4, <2>8, <2>9, <2>10
  <2>11. CASE ~ (rest[m] <= w[m])
    <3>1. SumFunctionOnSet(share, used) = P(m) /\ P(m) < want
      BY <2>3, <2>4, <2>8, <2>9, <2>11
    <3>2. m # n
      BY <1>6, <2>3, <3>1
    <3>3. m + 1 \in 1..n /\ (m + 1) - 1 = m
      BY <2>2, <3>2
    <3>4. rest[m + 1] = want - P(m)
      BY <1>5, <3>1, <3>3
    <3>5. m + 1 \notin used
      <4>1. ~ (m + 1 <= m)
        BY <2>2
      <4> QED BY <2>1, <4>1
    <3>6. ~ (want - P(m) >= dust)
      BY <3>3, <3>4, <3>5
    <3> QED BY <2>3, <3>1, <3>6
  <2> QED BY <2>10, <2>11
<1> QED BY <1>7, <1>8

LEMMA UsableType ==
  ASSUME NEW r \in Refusals
  PROVE  Usable(r) \in Nat
  BY BurnConstants DEF Usable, Refusals

LEMMA ShareIs ==
  ASSUME NEW x \in Nat, NEW y \in Nat
  PROVE  Share(x, y) = IF x <= y THEN x ELSE y
<1> DEFINE lower == IF x <= y THEN x ELSE y
<1>1. lower \in {x, y} /\ \A z \in {x, y} : lower <= z
  OBVIOUS
<1>2. \A v \in {x, y} : (\A z \in {x, y} : v <= z) => v = lower
  OBVIOUS
<1>3. Min({x, y}) = lower
  <2> HIDE DEF lower
  <2>1. Min({x, y}) = CHOOSE v \in {x, y} : \A z \in {x, y} : v <= z
    BY DEF Min
  <2> QED BY <1>1, <1>2, <2>1
<1> QED BY <1>3 DEF Share

LEMMA UsableChainsType ==
  ASSUME NEW b \in Burners, RefusalInv(b)
  PROVE  \E n \in Nat :
           /\ DOMAIN UsableChains(b) = 1..n
           /\ UsableChains(b) \in [1..n -> Refusals]
           /\ \A k, l \in 1..n : UsableChains(b)[k].chain = UsableChains(b)[l].chain => k = l
<1> DEFINE seen == attempt[b].seen
           kept == {i \in DOMAIN seen : Usable(seen[i]) > Dust}
           ahead(i) == {j \in kept : \/ Usable(seen[j]) > Usable(seen[i])
                                     \/ Usable(seen[j]) = Usable(seen[i]) /\ j < i}
           Ahead == [i \in kept |-> ahead(i)]
           n == Cardinality(kept)
           place(k) == CHOOSE i \in kept : Cardinality(ahead(i)) = k - 1
           chains == [k \in 1..n |-> seen[place(k)]]
<1>1. UsableChains(b) = chains
  BY DEF UsableChains
<1>2. seen \in Seq(Refusals) /\ \A i, j \in DOMAIN seen : seen[i].chain = seen[j].chain => i = j
  BY DEF RefusalInv
<1>3. DOMAIN seen = 1..Len(seen) /\ Len(seen) \in Nat
  BY <1>2
<1>4. IsFiniteSet(kept) /\ kept \subseteq Nat
  <2>1. IsFiniteSet(1..Len(seen))
    <3>1. 1 \in Int /\ Len(seen) \in Int
      BY <1>3
    <3> QED BY <3>1, FS_Interval
  <2>2. kept \in SUBSET (1..Len(seen))
    BY <1>3
  <2> HIDE DEF kept, seen
  <2>3. kept \subseteq Nat
    BY <1>3, <2>2
  <2> QED BY <2>1, <2>2, <2>3, FS_Subset
<1>5. \A i \in kept : Usable(seen[i]) \in Nat /\ i \in Nat
  <2> TAKE i \in kept
  <2>1. seen[i] \in Refusals /\ i \in Nat
    BY <1>2, <1>3
  <2> QED BY <2>1, UsableType
<1>6. n \in Nat
  BY <1>4, FS_CardinalityType
<1>7. \A k \in 1..n : \E i \in kept : Cardinality(Ahead[i]) = k - 1
  <2> HIDE DEF kept, seen
  <2>1. Ahead \in [kept -> SUBSET kept]
    OBVIOUS
  <2>2. \A i \in kept : i \notin Ahead[i]
    BY <1>5
  <2>3. \A i, j \in kept : i # j => i \in Ahead[j] \/ j \in Ahead[i]
    BY <1>5
  <2>4. \A i \in kept : \A j \in Ahead[i] : Ahead[j] \subseteq Ahead[i]
    BY <1>5
  <2> HIDE DEF Ahead, n
  <2> QED BY <1>4, <2>1, <2>2, <2>3, <2>4, Ranks, ZenonT(60) DEF n
<1>8. \A k \in 1..n : place(k) \in kept /\ Cardinality(ahead(place(k))) = k - 1
  <2> TAKE k \in 1..n
  <2>1. \E i \in kept : Cardinality(ahead(i)) = k - 1
    BY <1>7
  <2> HIDE DEF kept, ahead
  <2> QED BY <2>1
<1> HIDE DEF place
<1>9. \A k, l \in 1..n : place(k) = place(l) => k = l
  <2> TAKE k, l \in 1..n
  <2> HAVE place(k) = place(l)
  <2>1. k - 1 = l - 1
    <3> HIDE DEF ahead, n
    <3> QED BY <1>8
  <2>2. k \in Nat /\ l \in Nat
    <3> HIDE DEF n
    <3> QED BY <1>6
  <2> QED BY <2>1, <2>2
<1>10. \A k \in 1..n : chains[k] = seen[place(k)] /\ place(k) \in DOMAIN seen
  BY <1>8
<1>11. \A k \in 1..n : chains[k] \in Refusals
  <2> HIDE DEF n, chains, seen
  <2> QED BY <1>2, <1>10
<1>12. chains \in [1..n -> Refusals] /\ DOMAIN chains = 1..n
  <2>1. chains = [k \in 1..n |-> chains[k]]
    OBVIOUS
  <2> HIDE DEF n, chains
  <2> QED BY <1>11, <2>1
<1>13. \A k, l \in 1..n : chains[k].chain = chains[l].chain => k = l
  <2> HIDE DEF n, chains, seen
  <2> QED BY <1>2, <1>9, <1>10
<1> HIDE DEF chains, n
<1> QED BY <1>1, <1>6, <1>12, <1>13

(***************************************************************************)
(* A split over chains that cover what is wanted adds up to it.            *)
(***************************************************************************)
LEMMA SplitAdds ==
  ASSUME NEW b \in Burners, RefusalInv(b), Coverable(b)
  PROVE  /\ \A c \in DOMAIN Split(b) : Split(b)[c] \in Nat
         /\ Total(Split(b)) \in Nat /\ Total(Split(b)) <= Want[b]
         /\ Want[b] - Total(Split(b)) < Dust
<1> DEFINE chains == UsableChains(b)
           w == Usables(chains)
<1>1. PICK n \in Nat :
        /\ DOMAIN chains = 1..n
        /\ chains \in [1..n -> Refusals]
        /\ \A k, l \in 1..n : chains[k].chain = chains[l].chain => k = l
  BY UsableChainsType
<1> DEFINE used == {k \in DOMAIN chains : Remaining(b, chains, k) >= Dust}
           turn(c) == CHOOSE k \in used : chains[k].chain = c
           rest == [k \in 1..n |-> Remaining(b, chains, k)]
           share == [k \in used |-> Share(rest[k], w[k])]
           name == [k \in used |-> chains[k].chain]
<1>2. Split(b) = [c \in {chains[k].chain : k \in used} |->
                    Share(Remaining(b, chains, turn(c)), Usable(chains[turn(c)]))]
  BY DEF Split
<1>3. Want[b] <= SumFunction(w)
  BY DEF Coverable
<1> HIDE DEF chains
<1>4. w = [k \in 1..n |-> Usable(chains[k])] /\ w \in [1..n -> Nat]
  <2>1. w = [k \in 1..n |-> Usable(chains[k])]
    BY <1>1 DEF Usables
  <2>2. \A k \in 1..n : Usable(chains[k]) \in Nat
    BY <1>1, UsableType
  <2> QED BY <2>1, <2>2
<1>5. DOMAIN w = 1..n
  BY <1>4
<1>6. rest = [k \in 1..n |-> IF FirstSum(w, k - 1) < Want[b]
                               THEN Want[b] - FirstSum(w, k - 1) ELSE 0]
  BY DEF Remaining, FirstSum
<1> HIDE DEF w
<1>7. Want[b] <= FirstSum(w, n)
  BY <1>3, <1>5 DEF SumFunction, FirstSum
<1>8. \A k \in 1..n : rest[k] \in Nat /\ rest[k] = Remaining(b, chains, k)
  <2> TAKE k \in 1..n
  <2>1. k - 1 \in 0..n
    OBVIOUS
  <2>2. FirstSum(w, k - 1) \in Nat
    BY <1>4, <2>1, FirstSums
  <2>3. rest[k] = IF FirstSum(w, k - 1) < Want[b] THEN Want[b] - FirstSum(w, k - 1) ELSE 0
    BY <1>6
  <2> QED BY <2>2, <2>3, BurnConstants
<1>9. used = {k \in 1..n : rest[k] >= Dust}
  BY <1>1, <1>8
<1> HIDE DEF rest, used
<1>10. \A k \in used : /\ k \in 1..n
                       /\ share[k] = IF rest[k] <= w[k] THEN rest[k] ELSE w[k]
                       /\ share[k] \in Nat
  <2> TAKE k \in used
  <2>1. k \in 1..n
    BY <1>9
  <2>2. rest[k] \in Nat /\ w[k] \in Nat
    BY <1>4, <1>8, <2>1
  <2>3. Share(rest[k], w[k]) = IF rest[k] <= w[k] THEN rest[k] ELSE w[k]
    BY <2>2, ShareIs
  <2> QED BY <2>1, <2>2, <2>3
<1>11. /\ SumFunctionOnSet(share, used) \in Nat
       /\ SumFunctionOnSet(share, used) <= Want[b]
       /\ Want[b] - SumFunctionOnSet(share, used) < Dust
  <2>1. \A k \in used : share[k] = IF rest[k] <= w[k] THEN rest[k] ELSE w[k]
    BY <1>10
  <2>2. Want[b] \in Nat /\ Dust \in Nat /\ Dust > 0
    BY BurnConstants
  <2>3. \A k \in 1..n : rest[k] = IF FirstSum(w, k - 1) < Want[b]
                                    THEN Want[b] - FirstSum(w, k - 1) ELSE 0
    BY <1>6
  <2>4. used \in SUBSET (1..n) /\ \A k \in 1..n : k \in used <=> rest[k] >= Dust
    BY <1>9
  <2> HIDE DEF share
  <2> QED BY <1>4, <1>7, <2>1, <2>2, <2>3, <2>4, CoveredInTurn, ZenonT(60)
<1>12. \A k \in used : turn(chains[k].chain) = k
  <2> TAKE k \in used
  <2>1. turn(chains[k].chain) \in used /\ chains[turn(chains[k].chain)].chain = chains[k].chain
    OBVIOUS
  <2> HIDE DEF turn
  <2> QED BY <1>1, <1>10, <2>1
<1>13. \A k \in used : Split(b)[name[k]] = share[k]
  <2> TAKE k \in used
  <2>1. name[k] \in {chains[l].chain : l \in used} /\ turn(name[k]) = k
    BY <1>12
  <2>2. Split(b)[name[k]] = Share(Remaining(b, chains, k), Usable(chains[k]))
    <3> HIDE DEF name, turn
    <3> QED BY <1>2, <2>1
  <2>3. share[k] = Share(rest[k], w[k]) /\ rest[k] = Remaining(b, chains, k)
    BY <1>8, <1>10
  <2>4. w[k] = Usable(chains[k])
    BY <1>4, <1>10
  <2> QED BY <2>2, <2>3, <2>4
<1>14. DOMAIN Split(b) = {name[k] : k \in used}
  BY <1>2
<1>15. SumFunctionOnSet(Split(b), {name[k] : k \in used}) = SumFunctionOnSet(share, used)
  <2>1. IsFiniteSet(used)
    <3>1. IsFiniteSet(1..n)
      <4>1. 1 \in Int /\ n \in Int
        OBVIOUS
      <4> QED BY <4>1, FS_Interval
    <3>2. used \in SUBSET (1..n)
      BY <1>9
    <3> QED BY <3>1, <3>2, FS_Subset
  <2>2. \A k \in used : share[k] \in Nat /\ Split(b)[name[k]] = share[k]
    BY <1>10, <1>13
  <2>3. \A k, l \in used : name[k] = name[l] => k = l
    BY <1>1, <1>10
  <2> HIDE DEF share, name
  <2> QED BY <2>1, <2>2, <2>3, SumRenamed
<1>16. Total(Split(b)) = SumFunctionOnSet(share, used)
  <2> HIDE DEF share, name
  <2> QED BY <1>14, <1>15 DEF Total, SumFunction
<1>17. \A c \in DOMAIN Split(b) : Split(b)[c] \in Nat
  <2> HIDE DEF share, name
  <2> QED BY <1>10, <1>13, <1>14
<1> HIDE DEF share
<1> QED BY <1>11, <1>16, <1>17

LEMMA BurnsInvProves ==
  ASSUME BurnsInv
  PROVE  BurnsTypeOK /\ BurnedAsAsked
<1>1. BurnsTypeOK
  BY DEF BurnsInv, BurnsType, BurnsTypeOK, BurnerInv, TriedInv, AttemptType, TokenAccounts
<1>2. BurnedAsAsked
  <2> SUFFICES ASSUME NEW b \in Burners
               PROVE  /\ attempt[b].at \in {"resolve", "seed", "trying", "failed"} =>
                           Answered(b) = 0
                      /\ attempt[b].at = "submitted" =>
                           Answered(b) <= Want[b] /\ Want[b] - Answered(b) < Dust
                      /\ 0 <= Answered(b) /\ Answered(b) <= Want[b]
                      /\ hidden[b] > 0 => errors > 0
                      /\ burned[b] > 0 /\ Destination[b] = "solana" /\ errors = 0 =>
                           recipient[b] = tokenAccount[b]
    BY DEF BurnedAsAsked
  <2>1. AmountInv(b) /\ AccountInv(b) /\ burned[b] \in Nat /\ hidden[b] \in Nat
    BY DEF BurnsInv, BurnsType, BurnerInv
  <2>2. burned[b] > 0 /\ errors = 0 => attempt[b].at \notin {"resolve", "seed"}
    BY <2>1 DEF AmountInv, Answered
  <2> QED BY <2>1, <2>2 DEF AmountInv, AccountInv
<1> QED BY <1>1, <1>2

\* A call that another step leaves alone.
LEMMA OtherBurner ==
  ASSUME NEW d \in Burners, BurnerInv(d), errors \in Nat, errors' \in Nat, errors <= errors',
         attempt'[d] = attempt[d], burned'[d] = burned[d], hidden'[d] = hidden[d],
         recipient'[d] = recipient[d], tokenAccount'[d] = tokenAccount[d]
  PROVE  BurnerInv(d)'
<1>1. TriedInv(d)'
  BY DEF BurnerInv, TriedInv
<1>2. RefusalInv(d)'
  BY DEF BurnerInv, RefusalInv
<1>3. AccountInv(d)'
  BY DEF BurnerInv, AccountInv
<1>4. AmountInv(d)'
  BY DEF BurnerInv, AmountInv, Answered
<1> QED BY <1>1, <1>2, <1>3, <1>4 DEF BurnerInv

LEMMA WholeAdds ==
  ASSUME NEW b \in Burners
  PROVE  /\ \A c \in DOMAIN Whole(b) : Whole(b)[c] \in Nat
         /\ Total(Whole(b)) = Want[b]
<1> DEFINE f == [c \in {Chain(b)} |-> Want[b]]
           x == Chain(b)
<1>1. f[x] = Want[b] /\ Want[b] \in Nat /\ DOMAIN f = {x} /\ Whole(b) = f
  BY BurnConstants DEF Whole
<1> HIDE DEF f, x
<1>2. SumFunctionOnSet(f, {} \cup {x}) = f[x] + SumFunctionOnSet(f, {})
  BY <1>1, SumWith, FS_EmptySet
<1>3. {} \cup {x} = {x} /\ SumFunctionOnSet(f, {}) = 0
  BY SumOfNone
<1>4. SumFunction(f) = Want[b]
  BY <1>1, <1>2, <1>3 DEF SumFunction
<1> QED BY <1>1, <1>4 DEF Total

\* What Gateway takes.
LEMMA BurnAtAdds ==
  ASSUME BurnsType, NEW b \in Burners, NEW shares, Total(shares) \in Nat,
         \A c \in DOMAIN shares : shares[c] \in Nat,
         BurnAt(b, shares)
  PROVE  /\ unified' \in [SourceChains -> Nat]
         /\ burned' \in [Burners -> Nat]
         /\ burned'[b] = burned[b] + Total(shares)
         /\ \A d \in Burners \ {b} : burned'[d] = burned[d]
<1>1. \A c \in SourceChains : c \in DOMAIN shares => unified[c] - shares[c] - Fee \in Nat
  <2> TAKE c \in SourceChains
  <2> HAVE c \in DOMAIN shares
  <2>1. unified[c] >= shares[c] + Fee
    BY DEF BurnAt, Honourable
  <2>2. unified[c] \in Nat /\ shares[c] \in Nat /\ Fee \in Nat
    BY BurnConstants DEF BurnsType
  <2> QED BY <2>1, <2>2
<1>2. unified' = [c \in SourceChains |->
                    IF c \in DOMAIN shares THEN unified[c] - shares[c] - Fee ELSE unified[c]]
  BY DEF BurnAt
<1>3. \A c \in SourceChains : unified[c] \in Nat
  BY DEF BurnsType
<1>4. unified' \in [SourceChains -> Nat]
  BY <1>1, <1>2, <1>3
<1>5. burned' = [burned EXCEPT ![b] = @ + Total(shares)] /\ burned \in [Burners -> Nat]
  BY DEF BurnAt, BurnsType
<1> QED BY <1>4, <1>5

\* A step of one call.
LEMMA OneBurner ==
  ASSUME BurnsInv, BurnsType', NEW b \in Burners, BurnerInv(b)', errors <= errors',
         \A d \in Burners \ {b} :
           /\ attempt'[d] = attempt[d] /\ burned'[d] = burned[d] /\ hidden'[d] = hidden[d]
           /\ recipient'[d] = recipient[d] /\ tokenAccount'[d] = tokenAccount[d]
  PROVE  BurnsInv'
<1>1. errors \in Nat /\ errors' \in Nat
  <2>1. \A k \in 0..MaxErrors : k \in Nat
    BY BurnConstants
  <2> QED BY <2>1 DEF BurnsInv, BurnsType
<1>2. \A d \in Burners \ {b} : BurnerInv(d)'
  BY <1>1, OtherBurner DEF BurnsInv
<1>3. \A d \in Burners : BurnerInv(d)'
  BY <1>2
<1> QED BY <1>3 DEF BurnsInv

LEMMA Moved ==
  ASSUME BurnsType, NEW b \in Burners, NEW to, Move(b, to),
         to \in {"resolve", "seed", "trying", "submitted", "failed", "unanswered"}
  PROVE  /\ attempt' \in [Burners -> AttemptType]
         /\ attempt'[b].at = to /\ attempt'[b].next = attempt[b].next
         /\ attempt'[b].seen = attempt[b].seen
         /\ \A d \in Burners \ {b} : attempt'[d] = attempt[d]
<1>1. attempt \in [Burners -> AttemptType] /\ attempt[b] \in AttemptType
  BY DEF BurnsType
<1>2. attempt' = [attempt EXCEPT ![b] = [attempt[b] EXCEPT !.at = to]]
  BY DEF Move
<1>3. [attempt[b] EXCEPT !.at = to] \in AttemptType
  BY <1>1 DEF AttemptType
<1>4. attempt'[b] = [attempt[b] EXCEPT !.at = to]
  BY <1>1, <1>2
<1>5. attempt'[b].at = to /\ attempt'[b].next = attempt[b].next
      /\ attempt'[b].seen = attempt[b].seen
  BY <1>1, <1>4 DEF AttemptType
<1> QED BY <1>1, <1>2, <1>3, <1>5

\* What a move leaves as it was.
LEMMA MovedKeeps ==
  ASSUME NEW b \in Burners, BurnerInv(b),
         attempt'[b].next = attempt[b].next, attempt'[b].seen = attempt[b].seen
  PROVE  TriedInv(b)' /\ RefusalInv(b)'
  BY DEF BurnerInv, TriedInv, RefusalInv

LEMMA ErrorType ==
  ASSUME BurnsType
  PROVE  /\ errors \in Nat
         /\ UNCHANGED errors => errors' \in 0..MaxErrors /\ errors <= errors'
         /\ Error => errors' \in 0..MaxErrors /\ errors <= errors' /\ errors' # 0
<1>1. errors \in Nat /\ errors \in 0..MaxErrors /\ MaxErrors \in Nat
  BY BurnConstants DEF BurnsType
<1>2. ASSUME Error PROVE errors' \in 0..MaxErrors /\ errors <= errors' /\ errors' # 0
  <2>1. errors < MaxErrors /\ errors' = errors + 1
    BY <1>2 DEF Error
  <2> QED BY <1>1, <2>1
<1> QED BY <1>1, <1>2

\* A refusal, also one that hides a burn: what is burned and not hidden stays.
LEMMA RefusalHides ==
  ASSUME BurnsType, NEW b \in Burners, AmountInv(b), NEW shares, Total(shares) \in Nat,
         \A c \in DOMAIN shares : shares[c] \in Nat,
         \/ TakenForRefusal(b, shares)
         \/ UNCHANGED <<unified, burned, hidden, errors>>
  PROVE  /\ unified' \in [SourceChains -> Nat]
         /\ burned' \in [Burners -> Nat] /\ hidden' \in [Burners -> Nat]
         /\ errors' \in 0..MaxErrors /\ errors <= errors'
         /\ Answered(b)' = Answered(b)
         /\ hidden'[b] > 0 => errors' > 0
         /\ \A d \in Burners \ {b} : burned'[d] = burned[d] /\ hidden'[d] = hidden[d]
<1>1. /\ burned \in [Burners -> Nat] /\ hidden \in [Burners -> Nat]
      /\ unified \in [SourceChains -> Nat]
  BY DEF BurnsType
<1>2. CASE UNCHANGED <<unified, burned, hidden, errors>>
  BY <1>1, <1>2, ErrorType DEF Answered, AmountInv
<1>3. CASE TakenForRefusal(b, shares)
  <2>1. /\ errors' \in 0..MaxErrors /\ errors <= errors' /\ errors' # 0 /\ errors \in Nat
    BY <1>3, ErrorType DEF TakenForRefusal
  <2>2. errors' > 0
    BY <2>1, BurnConstants
  <2>3. CASE BurnAt(b, shares) /\ hidden' = [hidden EXCEPT ![b] = @ + Total(shares)]
    <3>1. /\ unified' \in [SourceChains -> Nat] /\ burned' \in [Burners -> Nat]
          /\ burned'[b] = burned[b] + Total(shares)
          /\ \A d \in Burners \ {b} : burned'[d] = burned[d]
      BY <2>3, BurnAtAdds
    <3>2. /\ hidden' \in [Burners -> Nat] /\ hidden'[b] = hidden[b] + Total(shares)
          /\ \A d \in Burners \ {b} : hidden'[d] = hidden[d]
      BY <1>1, <2>3
    <3>3. burned'[b] - hidden'[b] = burned[b] - hidden[b]
      BY <1>1, <3>1, <3>2
    <3> QED BY <2>1, <2>2, <3>1, <3>2, <3>3 DEF Answered
  <2>4. CASE UNCHANGED <<unified, burned, hidden>>
    BY <1>1, <2>1, <2>2, <2>4 DEF Answered
  <2> QED BY <1>3, <2>3, <2>4 DEF TakenForRefusal
<1> QED BY <1>2, <1>3

LEMMA ResolveKeeps ==
  ASSUME BurnsInv, NEW b \in Burners, ResolveAccount(b)
  PROVE  BurnsInv'
<1>1. BurnsType /\ BurnerInv(b)
  BY DEF BurnsInv
<1>2. attempt[b].at = "resolve"
  BY DEF ResolveAccount
<1>3. errors' \in 0..MaxErrors /\ errors <= errors' /\ errors \in Nat
  BY <1>1, ErrorType DEF ResolveAccount
<1>4. /\ recipient' \in [Burners -> TokenAccounts] /\ UNCHANGED tokenAccount
      /\ \A d \in Burners \ {b} : recipient'[d] = recipient[d]
  BY <1>1 DEF ResolveAccount, BurnsType, TokenAccounts
<1>5. PICK to \in {"seed", "trying"} :
        /\ Move(b, to)
        /\ to = "trying" => recipient'[b] = tokenAccount[b]
        /\ to = "seed" /\ errors' = 0 => recipient'[b] = "canonical" /\ tokenAccount[b] = "none"
  <2>1. recipient \in [Burners -> TokenAccounts]
    BY <1>1 DEF BurnsType
  <2>2. CASE /\ tokenAccount[b] # "none"
             /\ recipient' = [recipient EXCEPT ![b] = tokenAccount[b]]
             /\ Move(b, "trying")
    BY <2>1, <2>2
  <2>3. CASE /\ IF tokenAccount[b] = "none" THEN UNCHANGED errors ELSE Error
             /\ recipient' = [recipient EXCEPT ![b] = "canonical"]
             /\ Move(b, "seed")
    <3>1. errors' = 0 => tokenAccount[b] = "none"
      BY <1>1, <2>3, ErrorType
    <3> QED BY <2>1, <2>3, <3>1
  <2> QED BY <2>2, <2>3 DEF ResolveAccount
<1>6. /\ attempt' \in [Burners -> AttemptType]
      /\ attempt'[b].at = to /\ attempt'[b].next = attempt[b].next
      /\ attempt'[b].seen = attempt[b].seen
      /\ \A d \in Burners \ {b} : attempt'[d] = attempt[d]
  BY <1>1, <1>5, Moved
<1>7. UNCHANGED <<unified, delegated, burned, hidden, deposits>>
  BY DEF ResolveAccount
<1>8. BurnsType'
  BY <1>1, <1>3, <1>4, <1>6, <1>7 DEF BurnsType
<1>9. AccountInv(b)'
  BY <1>4, <1>5, <1>6 DEF AccountInv
<1>10. AmountInv(b)'
  BY <1>1, <1>2, <1>3, <1>5, <1>6, <1>7, BurnConstants DEF BurnerInv, AmountInv, Answered
<1>11. BurnerInv(b)'
  BY <1>1, <1>6, <1>9, <1>10, MovedKeeps DEF BurnerInv
<1> QED BY <1>3, <1>4, <1>6, <1>7, <1>8, <1>11, OneBurner

LEMMA SeedKeeps ==
  ASSUME BurnsInv, NEW b \in Burners, SeedAccount(b)
  PROVE  BurnsInv'
<1>1. BurnsType /\ BurnerInv(b)
  BY DEF BurnsInv
<1>2. attempt[b].at = "seed" /\ Move(b, "trying")
  BY DEF SeedAccount
<1>3. errors' \in 0..MaxErrors /\ errors <= errors' /\ errors \in Nat
  BY <1>1, ErrorType DEF SeedAccount
<1>4. /\ tokenAccount' \in [Burners -> TokenAccounts] /\ UNCHANGED recipient
      /\ \A d \in Burners \ {b} : tokenAccount'[d] = tokenAccount[d]
      /\ errors' = 0 /\ tokenAccount[b] = "none" => tokenAccount'[b] = "canonical"
  <2>1. tokenAccount \in [Burners -> TokenAccounts]
    BY <1>1 DEF BurnsType
  <2>2. CASE tokenAccount' = [tokenAccount EXCEPT ![b] = IF @ = "none" THEN "canonical" ELSE @]
    BY <2>1, <2>2 DEF SeedAccount, TokenAccounts
  <2>3. CASE Error /\ UNCHANGED tokenAccount
    BY <1>1, <2>1, <2>3, ErrorType DEF SeedAccount
  <2> QED BY <2>2, <2>3 DEF SeedAccount
<1>5. errors' = 0 => errors = 0
  BY <1>3
<1>6. /\ attempt' \in [Burners -> AttemptType]
      /\ attempt'[b].at = "trying" /\ attempt'[b].next = attempt[b].next
      /\ attempt'[b].seen = attempt[b].seen
      /\ \A d \in Burners \ {b} : attempt'[d] = attempt[d]
  BY <1>1, <1>2, Moved
<1>7. UNCHANGED <<unified, delegated, burned, hidden, deposits>>
  BY DEF SeedAccount
<1>8. BurnsType'
  BY <1>1, <1>3, <1>4, <1>6, <1>7 DEF BurnsType
<1>9. AccountInv(b)'
  BY <1>1, <1>2, <1>4, <1>5, <1>6 DEF AccountInv, BurnerInv
<1>10. AmountInv(b)'
  BY <1>1, <1>2, <1>3, <1>6, <1>7, BurnConstants DEF BurnerInv, AmountInv, Answered
<1>11. BurnerInv(b)'
  BY <1>1, <1>6, <1>9, <1>10, MovedKeeps DEF BurnerInv
<1> QED BY <1>3, <1>4, <1>6, <1>7, <1>8, <1>11, OneBurner

(***************************************************************************)
(* The answer of Gateway, or none, to a batch that adds up to what is      *)
(* wanted.                                                                 *)
(***************************************************************************)
LEMMA PostAnswered ==
  ASSUME BurnsInv, NEW b \in Burners, attempt[b].at = "trying",
         NEW shares, Total(shares) \in Nat, \A c \in DOMAIN shares : shares[c] \in Nat,
         Total(shares) <= Want[b], Want[b] - Total(shares) < Dust,
         \/ Posted(b, shares)
         \/ NoAnswer(b, shares)
         \/ /\ Move(b, "failed")
            /\ \/ TakenForRefusal(b, shares)
               \/ UNCHANGED <<unified, burned, hidden, errors>>,
         UNCHANGED <<delegated, tokenAccount, recipient, deposits>>
  PROVE  BurnsInv'
<1>1. BurnsType /\ BurnerInv(b) /\ AmountInv(b)
  BY DEF BurnsInv, BurnerInv
<1>2. /\ Answered(b) = 0 /\ Want[b] \in Nat /\ errors \in Nat
      /\ burned \in [Burners -> Nat] /\ hidden \in [Burners -> Nat]
  BY <1>1, BurnConstants, ErrorType DEF AmountInv, BurnsType
<1>3. PICK to \in {"submitted", "failed", "unanswered"} :
        /\ Move(b, to)
        /\ unified' \in [SourceChains -> Nat]
        /\ burned' \in [Burners -> Nat] /\ hidden' \in [Burners -> Nat]
        /\ errors' \in 0..MaxErrors /\ errors <= errors'
        /\ hidden'[b] > 0 => errors' > 0
        /\ Answered(b)' \in {0, Total(shares)}
        /\ to = "submitted" => Answered(b)' = Total(shares)
        /\ to = "failed" => Answered(b)' = 0
        /\ \A d \in Burners \ {b} : burned'[d] = burned[d] /\ hidden'[d] = hidden[d]
  <2>1. ASSUME BurnAt(b, shares), UNCHANGED hidden
        PROVE  /\ unified' \in [SourceChains -> Nat]
               /\ burned' \in [Burners -> Nat] /\ hidden' \in [Burners -> Nat]
               /\ Answered(b)' = Total(shares)
               /\ \A d \in Burners \ {b} : burned'[d] = burned[d] /\ hidden'[d] = hidden[d]
    <3>1. /\ unified' \in [SourceChains -> Nat] /\ burned' \in [Burners -> Nat]
          /\ burned'[b] = burned[b] + Total(shares)
          /\ \A d \in Burners \ {b} : burned'[d] = burned[d]
      BY <1>1, <2>1, BurnAtAdds
    <3>2. burned'[b] - hidden'[b] = Total(shares)
      BY <1>2, <2>1, <3>1 DEF Answered
    <3> QED BY <1>2, <2>1, <3>1, <3>2 DEF Answered
  <2>2. CASE Posted(b, shares)
    <3>1. errors' \in 0..MaxErrors /\ errors <= errors' /\ errors' = errors
      BY <1>1, <2>2, ErrorType DEF Posted
    <3>2. hidden'[b] > 0 => errors' > 0
      BY <1>1, <2>2, <3>1 DEF Posted, AmountInv
    <3> QED BY <2>1, <2>2, <3>1, <3>2 DEF Posted
  <2>3. CASE NoAnswer(b, shares)
    <3>1. errors' \in 0..MaxErrors /\ errors <= errors' /\ errors' # 0
      BY <1>1, <2>3, ErrorType DEF NoAnswer
    <3>2. errors' > 0
      BY <3>1, BurnConstants
    <3>3. Move(b, "unanswered") /\ UNCHANGED hidden
      BY <2>3 DEF NoAnswer
    <3>4. CASE BurnAt(b, shares)
      BY <2>1, <3>1, <3>2, <3>3, <3>4
    <3>5. CASE UNCHANGED <<unified, burned>>
      BY <1>1, <1>2, <3>1, <3>2, <3>3, <3>5 DEF Answered, BurnsType
    <3> QED BY <2>3, <3>4, <3>5 DEF NoAnswer
  <2>4. CASE /\ Move(b, "failed")
             /\ \/ TakenForRefusal(b, shares)
                \/ UNCHANGED <<unified, burned, hidden, errors>>
    BY <1>1, <1>2, <2>4, RefusalHides
  <2> QED BY <2>2, <2>3, <2>4
<1>4. attempt' \in [Burners -> AttemptType]
  BY <1>1, <1>3, Moved
<1>5. errors' \in Nat
  BY <1>3, BurnConstants
<1>6. /\ attempt' \in [Burners -> AttemptType]
      /\ attempt'[b].at = to /\ attempt'[b].next = attempt[b].next
      /\ attempt'[b].seen = attempt[b].seen
      /\ \A d \in Burners \ {b} : attempt'[d] = attempt[d]
  BY <1>1, <1>3, Moved
<1>7. BurnsType'
  BY <1>1, <1>3, <1>6 DEF BurnsType
<1>8. errors' = 0 => errors = 0
  BY <1>2, <1>3, <1>5
<1>9. AccountInv(b)'
  BY <1>1, <1>3, <1>6, <1>8 DEF AccountInv, BurnerInv
<1>10. AmountInv(b)'
  <2>1. attempt'[b].at = to /\ Answered(b)' \in {0, Total(shares)}
    BY <1>3, <1>6
  <2>2. 0 <= Answered(b)' /\ Answered(b)' <= Want[b]
    BY <1>2, <2>1
  <2> QED BY <1>3, <2>1, <2>2 DEF AmountInv
<1>11. BurnerInv(b)'
  BY <1>1, <1>6, <1>9, <1>10, MovedKeeps DEF BurnerInv
<1> QED BY <1>3, <1>6, <1>7, <1>11, OneBurner

(***************************************************************************)
(* The next chain, with the refusal of this one or without.                *)
(***************************************************************************)
LEMMA NextKeeps ==
  ASSUME BurnsInv, NEW b \in Burners, Trying(b), NEW seen, TryNext(b, seen),
         \/ seen = attempt[b].seen
         \/ /\ Chain(b) \in delegated
            /\ seen = Append(attempt[b].seen, [chain |-> Chain(b), available |-> unified[Chain(b)]]),
         \/ TakenForRefusal(b, Whole(b))
         \/ UNCHANGED <<unified, burned, hidden, errors>>,
         UNCHANGED <<delegated, tokenAccount, recipient, deposits>>
  PROVE  BurnsInv'
<1> DEFINE tried == attempt[b].next
           old == attempt[b].seen
           all == Candidates(b)
<1>1. BurnsType /\ BurnerInv(b) /\ errors \in Nat
  BY ErrorType DEF BurnsInv
<1>0. /\ unified' \in [SourceChains -> Nat]
      /\ burned' \in [Burners -> Nat] /\ hidden' \in [Burners -> Nat]
      /\ errors' \in 0..MaxErrors /\ errors <= errors'
      /\ Answered(b)' = Answered(b)
      /\ hidden'[b] > 0 => errors' > 0
      /\ \A d \in Burners \ {b} : burned'[d] = burned[d] /\ hidden'[d] = hidden[d]
  <2>1. Total(Whole(b)) \in Nat /\ \A c \in DOMAIN Whole(b) : Whole(b)[c] \in Nat
    BY WholeAdds, BurnConstants
  <2> QED BY <1>1, <2>1, RefusalHides DEF BurnerInv
<1>2. /\ attempt[b].at = "trying" /\ tried <= Len(all) /\ tried \in Nat /\ tried >= 1
      /\ all \in Seq(SourceChains) /\ tried \in DOMAIN all
      /\ \A i, j \in DOMAIN all : all[i] = all[j] => i = j
      /\ Len(old) < tried /\ Chain(b) = all[tried]
  BY <1>1, CandidatesType DEF Trying, BurnerInv, TriedInv, Chain
<1>3. /\ old \in Seq(Refusals)
      /\ \A i \in DOMAIN old : \E p \in DOMAIN all : p < tried /\ old[i].chain = all[p]
      /\ \A i, j \in DOMAIN old : old[i].chain = old[j].chain => i = j
  BY <1>1 DEF BurnerInv, RefusalInv
<1> DEFINE r == [chain |-> Chain(b), available |-> unified[Chain(b)]]
<1>4. r \in Refusals /\ r.chain = all[tried]
  BY <1>1, <1>2 DEF Refusals, BurnsType
<1> HIDE DEF tried, old, all, r
<1>5. /\ seen \in Seq(Refusals) /\ Len(seen) <= Len(old) + 1
      /\ \A i \in DOMAIN seen :
           \E p \in DOMAIN all : p < tried + 1 /\ seen[i].chain = all[p]
      /\ \A i, j \in DOMAIN seen : seen[i].chain = seen[j].chain => i = j
  <2>1. CASE seen = old
    <3>1. Len(old) \in Nat
      BY <1>3
    <3>2. \A p \in DOMAIN all : p < tried => p < tried + 1
      BY <1>2
    <3> QED BY <1>3, <2>1, <3>1, <3>2
  <2>2. CASE seen = Append(old, r)
    <3>1. /\ seen \in Seq(Refusals) /\ Len(seen) = Len(old) + 1 /\ Len(old) \in Nat
          /\ DOMAIN seen = 1..(Len(old) + 1) /\ DOMAIN old = 1..Len(old)
          /\ seen[Len(old) + 1] = r
          /\ \A i \in 1..Len(old) : seen[i] = old[i]
      BY <1>3, <1>4, <2>2
    <3>2. \A i \in DOMAIN seen :
            \/ i \in DOMAIN old /\ seen[i] = old[i]
            \/ i = Len(old) + 1 /\ seen[i] = r
      BY <3>1
    <3>3. \A p \in DOMAIN all : p < tried => p < tried + 1 /\ p # tried
      BY <1>2
    <3>4. tried < tried + 1
      BY <1>2
    <3>5. \A i \in DOMAIN old : old[i].chain # r.chain
      BY <1>2, <1>3, <1>4, <3>3
    <3>6. \A i \in DOMAIN seen :
            \E p \in DOMAIN all : p < tried + 1 /\ seen[i].chain = all[p]
      BY <1>2, <1>3, <1>4, <3>2, <3>3, <3>4
    <3>7. \A i, j \in DOMAIN seen : seen[i].chain = seen[j].chain => i = j
      BY <1>3, <3>2, <3>5
    <3> QED BY <3>1, <3>6, <3>7
  <2> QED BY <2>1, <2>2 DEF old, r
<1>6. /\ attempt' \in [Burners -> AttemptType]
      /\ attempt'[b].at = "trying" /\ attempt'[b].next = tried + 1 /\ attempt'[b].seen = seen
      /\ \A d \in Burners \ {b} : attempt'[d] = attempt[d]
  <2>1. attempt \in [Burners -> AttemptType] /\ attempt[b] \in AttemptType
    BY <1>1 DEF BurnsType
  <2> DEFINE m == tried + 1
             new == [attempt[b] EXCEPT !.next = m, !.seen = seen]
  <2>2. m \in Nat /\ attempt[b].at = "trying"
    BY <1>2
  <2>3. attempt' = [attempt EXCEPT ![b] = new]
    BY <2>1 DEF TryNext, tried
  <2> HIDE DEF m
  <2>4. new \in AttemptType
    BY <1>5, <2>1, <2>2 DEF AttemptType
  <2>5. new.at = "trying" /\ new.next = m /\ new.seen = seen
    BY <1>5, <2>1, <2>2 DEF AttemptType
  <2> HIDE DEF new
  <2> QED BY <2>1, <2>3, <2>4, <2>5 DEF m
<1>7. BurnsType'
  BY <1>0, <1>1, <1>6 DEF BurnsType
<1>8. TriedInv(b)'
  <2>1. Len(seen) \in Nat /\ Len(old) \in Nat /\ Len(all) \in Nat
    BY <1>2, <1>3, <1>5
  <2>2. tried + 1 \in 1..(Len(all) + 1) /\ Len(seen) < tried + 1
    BY <1>2, <1>5, <2>1
  <2> QED BY <1>6, <2>2 DEF TriedInv, all
<1>9. RefusalInv(b)'
  BY <1>5, <1>6 DEF RefusalInv, all
<1>10. errors' = 0 => errors = 0
  <2>1. errors' \in Nat
    BY <1>0, BurnConstants
  <2> QED BY <1>0, <1>1, <2>1
<1>11. AccountInv(b)'
  BY <1>1, <1>2, <1>6, <1>10 DEF AccountInv, BurnerInv
<1>12. AmountInv(b)'
  BY <1>0, <1>1, <1>2, <1>6 DEF AmountInv, BurnerInv
<1>13. BurnerInv(b)'
  BY <1>8, <1>9, <1>11, <1>12 DEF BurnerInv
<1> QED BY <1>0, <1>6, <1>7, <1>13, OneBurner

LEMMA TryChainKeeps ==
  ASSUME BurnsInv, NEW b \in Burners, TryChain(b)
  PROVE  BurnsInv'
<1>1. BurnsType /\ Trying(b) /\ attempt[b].at = "trying"
  BY DEF BurnsInv, TryChain, Trying
<1>2. UNCHANGED <<delegated, tokenAccount, recipient, deposits>>
  BY DEF TryChain
<1>3. /\ \A c \in DOMAIN Whole(b) : Whole(b)[c] \in Nat
      /\ Total(Whole(b)) \in Nat /\ Total(Whole(b)) <= Want[b]
      /\ Want[b] - Total(Whole(b)) < Dust
  BY WholeAdds, BurnConstants
<1>4. CASE Posted(b, Whole(b)) \/ NoAnswer(b, Whole(b))
  BY <1>1, <1>2, <1>3, <1>4, PostAnswered
<1>5. ASSUME NEW seen, TryNext(b, seen),
             \/ TakenForRefusal(b, Whole(b))
             \/ UNCHANGED <<unified, burned, hidden, errors>>,
             \/ seen = attempt[b].seen
             \/ /\ Chain(b) \in delegated
                /\ seen = Append(attempt[b].seen,
                                 [chain |-> Chain(b), available |-> unified[Chain(b)]])
      PROVE  BurnsInv'
  BY <1>1, <1>2, <1>5, NextKeeps
<1> QED BY <1>4, <1>5 DEF TryChain

LEMMA AggregateKeeps ==
  ASSUME BurnsInv, NEW b \in Burners, Aggregate(b)
  PROVE  BurnsInv'
<1>1. BurnsType /\ RefusalInv(b) /\ attempt[b].at = "trying" /\ Coverable(b)
  BY DEF BurnsInv, BurnerInv, Aggregate
<1>2. UNCHANGED <<delegated, tokenAccount, recipient, deposits>>
  BY DEF Aggregate
<1>3. /\ \A c \in DOMAIN Split(b) : Split(b)[c] \in Nat
      /\ Total(Split(b)) \in Nat /\ Total(Split(b)) <= Want[b]
      /\ Want[b] - Total(Split(b)) < Dust
  BY <1>1, SplitAdds
<1>4. CASE /\ Move(b, "failed")
           /\ \/ TakenForRefusal(b, Split(b))
              \/ UNCHANGED <<unified, burned, hidden, errors>>
  BY <1>1, <1>2, <1>3, <1>4, PostAnswered
<1>5. CASE Posted(b, Split(b)) \/ NoAnswer(b, Split(b))
  BY <1>1, <1>2, <1>3, <1>5, PostAnswered
<1> QED BY <1>4, <1>5 DEF Aggregate

LEMMA GiveUpKeeps ==
  ASSUME BurnsInv, NEW b \in Burners, GiveUpBurn(b)
  PROVE  BurnsInv'
<1>1. /\ BurnsType /\ attempt[b].at = "trying" /\ Move(b, "failed")
      /\ UNCHANGED <<delegated, tokenAccount, recipient, deposits>>
      /\ UNCHANGED <<unified, burned, hidden, errors>>
  BY DEF BurnsInv, GiveUpBurn
<1>2. /\ \A c \in DOMAIN Whole(b) : Whole(b)[c] \in Nat
      /\ Total(Whole(b)) \in Nat /\ Total(Whole(b)) <= Want[b]
      /\ Want[b] - Total(Whole(b)) < Dust
  BY WholeAdds, BurnConstants
<1> QED BY <1>1, <1>2, PostAnswered

LEMMA ChainsKeep ==
  ASSUME BurnsInv, NEW c \in SourceChains, DepositFor(c) \/ AddDelegate(c)
  PROVE  BurnsInv'
<1>1. BurnsType
  BY DEF BurnsInv
<1>2. UNCHANGED <<tokenAccount, recipient, attempt, burned, hidden, errors>>
  BY DEF DepositFor, AddDelegate
<1>3. BurnsType'
  <2>1. CASE DepositFor(c)
    <3>1. deposits' \in 0..MaxDeposits
      BY <1>1, <2>1, BurnConstants DEF BurnsType, DepositFor
    <3>2. unified' \in [SourceChains -> Nat]
      BY <1>1, <2>1, BurnConstants DEF BurnsType, DepositFor
    <3> QED BY <1>1, <1>2, <2>1, <3>1, <3>2 DEF BurnsType, DepositFor
  <2>2. CASE AddDelegate(c)
    BY <1>1, <1>2, <2>2 DEF BurnsType, AddDelegate
  <2> QED BY <2>1, <2>2
<1>4. errors \in Nat /\ errors' \in Nat /\ errors <= errors'
  BY <1>1, <1>2, ErrorType
<1>5. \A d \in Burners : BurnerInv(d)'
  BY <1>2, <1>4, OtherBurner DEF BurnsInv
<1> QED BY <1>3, <1>5 DEF BurnsInv

LEMMA BurnsInit ==
  ASSUME InitBurns
  PROVE  BurnsInv
<1>1. BurnsType
  <2>1. unified \in [SourceChains -> Nat]
    BY BurnsAssumption DEF InitBurns
  <2>2. delegated \subseteq SourceChains
    BY BurnsAssumption DEF InitBurns
  <2>3. attempt \in [Burners -> AttemptType]
    BY DEF InitBurns, AttemptType
  <2>4. deposits \in 0..MaxDeposits /\ errors \in 0..MaxErrors
    BY BurnConstants DEF InitBurns
  <2>5. burned \in [Burners -> Nat] /\ hidden \in [Burners -> Nat]
    BY DEF InitBurns
  <2> QED BY <2>1, <2>2, <2>3, <2>4, <2>5 DEF InitBurns, BurnsType, TokenAccounts
<1>2. ASSUME NEW b \in Burners PROVE BurnerInv(b)
  <2>1. /\ attempt[b].at = IF Destination[b] = "solana" THEN "resolve" ELSE "trying"
        /\ attempt[b].next = 1 /\ attempt[b].seen = <<>> /\ burned[b] = 0
        /\ hidden[b] = 0
    BY DEF InitBurns
  <2>2. TriedInv(b)
    <3>1. Len(Candidates(b)) \in Nat
      BY CandidatesType
    <3> QED BY <2>1, <3>1 DEF TriedInv
  <2>3. RefusalInv(b)
    BY <2>1 DEF RefusalInv
  <2>4. AccountInv(b)
    BY <2>1 DEF AccountInv
  <2>5. AmountInv(b)
    BY <2>1, BurnConstants DEF AmountInv, Answered
  <2> QED BY <2>2, <2>3, <2>4, <2>5 DEF BurnerInv
<1> QED BY <1>1, <1>2 DEF BurnsInv

LEMMA BurnsStays ==
  ASSUME BurnsInv, UNCHANGED burnVars
  PROVE  BurnsInv'
<1>1. UNCHANGED <<unified, delegated, tokenAccount, recipient, attempt, burned, hidden, deposits,
                  errors>>
  BY DEF burnVars
<1>2. BurnsType'
  BY <1>1 DEF BurnsInv, BurnsType
<1>3. errors \in Nat /\ errors' \in Nat /\ errors <= errors'
  BY <1>1, ErrorType DEF BurnsInv
<1>4. \A d \in Burners : BurnerInv(d)'
  BY <1>1, <1>3, OtherBurner DEF BurnsInv
<1> QED BY <1>2, <1>4 DEF BurnsInv

LEMMA BurnsNext == BurnsInv /\ [BurnStep]_burnVars => BurnsInv'
<1> SUFFICES ASSUME BurnsInv, [BurnStep]_burnVars PROVE BurnsInv'
  OBVIOUS
<1>1. ASSUME NEW b \in Burners,
             ResolveAccount(b) \/ SeedAccount(b) \/ TryChain(b) \/ Aggregate(b) \/ GiveUpBurn(b)
      PROVE  BurnsInv'
  BY <1>1, ResolveKeeps, SeedKeeps, TryChainKeeps, AggregateKeeps, GiveUpKeeps
<1>2. ASSUME NEW c \in SourceChains, DepositFor(c) \/ AddDelegate(c)
      PROVE  BurnsInv'
  BY <1>2, ChainsKeep
<1>3. CASE UNCHANGED burnVars
  BY <1>3, BurnsStays
<1> QED BY <1>1, <1>2, <1>3 DEF BurnStep

(***************************************************************************)
(* Whatever others burn meanwhile, and whatever answers are lost: besides  *)
(* what Gateway burned with an answer that was an error, a call that       *)
(* returns has burned what was asked, up to less than Dust, and one that   *)
(* fails nothing.  What error answers hide is not bounded here.            *)
(* (gatewaySweep.ts, gatewayWithdrawal.)                                   *)
(***************************************************************************)
THEOREM BurnsWhatWasAsked == BurnSpec => []BurnedAsAsked
<1>1. InitBurns => BurnsInv
  BY BurnsInit
<1>2. BurnsInv /\ [BurnStep]_burnVars => BurnsInv'
  BY BurnsNext
<1>3. BurnsInv => BurnedAsAsked
  BY BurnsInvProves
<1> QED BY <1>1, <1>2, <1>3, PTL DEF BurnSpec

LEMMA BurnsTyped == BurnsInv => BurnsTypeOK
  BY DEF BurnsInv, BurnsType, BurnsTypeOK, BurnerInv, TriedInv, AttemptType, TokenAccounts

-----------------------------------------------------------------------------
(***************************************************************************)
(* History                                                                 *)
(***************************************************************************)

\* What the route merges in the end, if nothing more is recorded.
Merging == {e \in recorded : TableOf[e] \in DOMAIN read => e \in read[TableOf[e]]}

Newer(listed, e) == {f \in listed : f > e}
Sorted(listed) ==
  [k \in 1..Cardinality(listed) |-> CHOOSE e \in listed : Cardinality(Newer(listed, e)) = k - 1]

OnPages(pages) == UNION {Range(pages[k].entries) : k \in 1..Len(pages)}

HistoryPages == [page : Nat, totalPages : Nat, entries : Seq(Items)]

(***************************************************************************)
(* Pages that were cut out of lists that grew: what was there at the       *)
(* beginning and is on none of them is older than all that is, as many as  *)
(* fit on them are newer, and the last page says that there are more.      *)
(***************************************************************************)
PagesInv(pages, began, listed) ==
  /\ pages \in Seq(HistoryPages)
  /\ began \subseteq listed /\ OnPages(pages) \subseteq listed
  /\ pages # <<>> => Last(pages).page = Len(pages)
  /\ HasNext(pages) => Cardinality(listed) > Len(pages) * PageSize
  /\ \A e \in began \ OnPages(pages) :
       /\ Cardinality(Newer(listed, e)) >= Len(pages) * PageSize
       /\ pages # <<>> => HasNext(pages)
       /\ \A o \in OnPages(pages) : e < o

Queries == [page : Nat, want : Nat, got : Seq(HistoryPages), began : SUBSET Items]

HistoryInv ==
  /\ recorded \subseteq Items
  /\ DOMAIN read \subseteq Tables
  /\ \A t \in DOMAIN read : read[t] \subseteq {e \in recorded : TableOf[e] = t}
  /\ query \in Queries
  /\ query # NoQuery =>
       /\ query.page = Len(query.got) + 1
       /\ query.got # <<>> => HasNext(query.got)
       /\ PagesInv(query.got, query.began, Merging)
  /\ PagesInv(data, known, recorded)
  /\ data = <<>> => known = {}

LEMMA PageSizeType ==
  /\ PageSize \in Nat /\ PageSize >= 1 /\ MaxItems \in Nat
  /\ IsFiniteSet(Items) /\ Items \subseteq Nat
<1>1. PageSize \in Nat /\ PageSize >= 1 /\ MaxItems \in Nat
  BY HistoryAssumption
<1>2. 1 \in Int /\ MaxItems \in Int
  BY <1>1
<1>3. IsFiniteSet(1..MaxItems)
  BY <1>2, FS_Interval
<1> QED BY <1>1, <1>3 DEF Items

LEMMA RowsFinite ==
  ASSUME NEW listed \in SUBSET Items
  PROVE  /\ IsFiniteSet(listed) /\ Cardinality(listed) \in Nat
         /\ \A e : /\ IsFiniteSet(Newer(listed, e)) /\ Cardinality(Newer(listed, e)) \in Nat
<1>1. IsFiniteSet(listed)
  BY PageSizeType, FS_Subset
<1>2. \A e : Newer(listed, e) \in SUBSET listed
  BY DEF Newer
<1>3. \A e : IsFiniteSet(Newer(listed, e))
  BY <1>1, <1>2, FS_Subset
<1> QED BY <1>1, <1>3, FS_CardinalityType

(***************************************************************************)
(* The list: every row has the place that its rank gives it.               *)
(***************************************************************************)
LEMMA SortedRows ==
  ASSUME NEW listed \in SUBSET Items
  PROVE  /\ \A k \in 1..Cardinality(listed) :
              /\ Sorted(listed)[k] \in listed
              /\ Cardinality(Newer(listed, Sorted(listed)[k])) = k - 1
         /\ \A e \in listed :
              /\ Cardinality(Newer(listed, e)) < Cardinality(listed)
              /\ Sorted(listed)[Cardinality(Newer(listed, e)) + 1] = e
<1> DEFINE n == Cardinality(listed)
           Ahead == [e \in listed |-> Newer(listed, e)]
           at(k) == CHOOSE e \in listed : Cardinality(Newer(listed, e)) = k - 1
<1>1. IsFiniteSet(listed) /\ n \in Nat
  BY RowsFinite
<1>2. \A e \in listed : e \in Nat
  BY PageSizeType
<1>3. /\ \A x \in listed : Cardinality(Ahead[x]) \in 0..(n - 1)
      /\ \A x, y \in listed : Cardinality(Ahead[x]) = Cardinality(Ahead[y]) => x = y
      /\ \A k \in 1..n : \E x \in listed : Cardinality(Ahead[x]) = k - 1
  <2>1. Ahead \in [listed -> SUBSET listed]
    BY DEF Newer
  <2>2. \A x \in listed : x \notin Ahead[x]
    BY <1>2 DEF Newer
  <2>3. \A x, y \in listed : x # y => x \in Ahead[y] \/ y \in Ahead[x]
    BY <1>2 DEF Newer
  <2>4. \A x \in listed : \A y \in Ahead[x] : Ahead[y] \subseteq Ahead[x]
    BY <1>2 DEF Newer
  <2> HIDE DEF Ahead, n
  <2> QED BY <1>1, <2>1, <2>2, <2>3, <2>4, Ranks DEF n
<1>4. /\ \A x \in listed : Cardinality(Newer(listed, x)) \in 0..(n - 1)
      /\ \A x, y \in listed : Cardinality(Newer(listed, x)) = Cardinality(Newer(listed, y)) => x = y
      /\ \A k \in 1..n : \E x \in listed : Cardinality(Newer(listed, x)) = k - 1
  BY <1>3
<1>5. \A k \in 1..n : at(k) \in listed /\ Cardinality(Newer(listed, at(k))) = k - 1
  BY <1>4
<1>6. \A k \in 1..n : Sorted(listed)[k] = at(k)
  BY DEF Sorted
<1> HIDE DEF at
<1>7. \A k \in 1..n : Sorted(listed)[k] \in listed /\ Cardinality(Newer(listed, Sorted(listed)[k])) = k - 1
  BY <1>5, <1>6
<1>8. \A e \in listed : /\ Cardinality(Newer(listed, e)) < n
                      /\ Sorted(listed)[Cardinality(Newer(listed, e)) + 1] = e
  <2> TAKE e \in listed
  <2> DEFINE r == Cardinality(Newer(listed, e))
  <2>1. r \in 0..(n - 1)
    BY <1>4
  <2>2. r + 1 \in 1..n /\ (r + 1) - 1 = r /\ r < n
    <3> HIDE DEF r, n
    <3> QED BY <1>1, <2>1
  <2>3. Sorted(listed)[r + 1] \in listed /\ Cardinality(Newer(listed, Sorted(listed)[r + 1])) = r
    <3> HIDE DEF n, r
    <3> QED BY <1>7, <2>2
  <2> QED BY <1>4, <2>2, <2>3
<1> QED BY <1>7, <1>8

\* Which pages there are.
LEMMA PagesNeeded ==
  ASSUME NEW n \in Nat, n > 0, NEW size \in Nat, size >= 1
  PROVE  LET q == (n + size - 1) \div size
         IN q \in Nat /\ q >= 1 /\ n <= q * size /\ (q - 1) * size < n
<1> DEFINE q == (n + size - 1) \div size
           m == (n + size - 1) % size
<1>1. n + size - 1 \in Nat
  OBVIOUS
<1>2. q \in Int /\ m \in 0..(size - 1) /\ n + size - 1 = size * q + m
  BY <1>1
<1> HIDE DEF q, m
<1>3. size * q = q * size /\ (q - 1) * size = q * size - size /\ q * size \in Int
  BY <1>2
<1>4. n <= q * size /\ (q - 1) * size < n
  BY <1>2, <1>3
<1>5. q >= 1
  <2> SUFFICES ASSUME q <= 0 PROVE FALSE
    BY <1>2
  <2>1. q * size <= 0
    BY <1>2
  <2> QED BY <1>3, <1>4, <2>1
<1> QED BY <1>2, <1>4, <1>5 DEF q

LEMMA TimesGrows ==
  ASSUME NEW a \in Int, NEW b \in Int, a <= b, NEW size \in Nat
  PROVE  a * size <= b * size
  OBVIOUS

\* More rows are only added, which takes nothing away from what is known of the pages.
LEMMA MoreRows ==
  ASSUME NEW pages, NEW began, NEW listed \in SUBSET Items, NEW more \in SUBSET Items,
         PagesInv(pages, began, listed), listed \subseteq more
  PROVE  PagesInv(pages, began, more)
<1>1. Cardinality(listed) <= Cardinality(more) /\ Cardinality(listed) \in Nat /\ Cardinality(more) \in Nat
  BY RowsFinite, FS_Subset
<1>2. Len(pages) * PageSize \in Nat
  BY PageSizeType DEF PagesInv
<1>3. HasNext(pages) => Cardinality(more) > Len(pages) * PageSize
  BY <1>1, <1>2 DEF PagesInv
<1>4. ASSUME NEW e \in began \ OnPages(pages)
      PROVE  Cardinality(Newer(more, e)) >= Len(pages) * PageSize
  <2>1. Newer(listed, e) \in SUBSET Newer(more, e)
    BY DEF Newer
  <2>2. /\ IsFiniteSet(Newer(more, e))
        /\ Cardinality(Newer(listed, e)) \in Nat /\ Cardinality(Newer(more, e)) \in Nat
    BY RowsFinite
  <2>3. Cardinality(Newer(listed, e)) <= Cardinality(Newer(more, e))
    BY <2>1, <2>2, FS_Subset
  <2>4. Cardinality(Newer(listed, e)) >= Len(pages) * PageSize
    BY <1>4 DEF PagesInv
  <2> QED BY <1>2, <2>2, <2>3, <2>4
<1>5. /\ pages \in Seq(HistoryPages)
      /\ began \subseteq more /\ OnPages(pages) \subseteq more
      /\ pages # <<>> => Last(pages).page = Len(pages)
  BY DEF PagesInv
<1>6. \A e \in began \ OnPages(pages) :
        (pages # <<>> => HasNext(pages)) /\ \A o \in OnPages(pages) : e < o
  BY DEF PagesInv
<1> QED BY <1>3, <1>4, <1>5, <1>6 DEF PagesInv

LEMMA NoPages ==
  ASSUME NEW listed \in SUBSET Items, NEW began \in SUBSET listed
  PROVE  PagesInv(<<>>, began, listed)
<1>1. OnPages(<<>>) = {}
  BY DEF OnPages
<1>2. <<>> \in Seq(HistoryPages) /\ Len(<<>>) = 0 /\ ~ HasNext(<<>>)
  BY DEF HasNext
<1>3. \A e : Cardinality(Newer(listed, e)) \in Nat
  BY RowsFinite
<1>4. \A e : Cardinality(Newer(listed, e)) >= Len(<<>>) * PageSize
  BY <1>2, <1>3, PageSizeType
<1> QED BY <1>1, <1>2, <1>4 DEF PagesInv

LEMMA OnOneMore ==
  ASSUME NEW pages \in Seq(HistoryPages), NEW p \in HistoryPages
  PROVE  /\ OnPages(Append(pages, p)) = OnPages(pages) \cup Range(p.entries)
         /\ Append(pages, p) \in Seq(HistoryPages)
         /\ Len(Append(pages, p)) = Len(pages) + 1 /\ Append(pages, p) # <<>>
         /\ Last(Append(pages, p)) = p
<1> DEFINE new == Append(pages, p)
           n == Len(pages)
<1>1. /\ n \in Nat /\ Len(new) = n + 1 /\ new \in Seq(HistoryPages)
      /\ new[n + 1] = p /\ \A k \in 1..n : new[k] = pages[k]
  OBVIOUS
<1> HIDE DEF new, n
<1>2. \A k \in 1..(n + 1) : k \in 1..n \/ k = n + 1
  BY <1>1
<1>3. n + 1 \in 1..(n + 1) /\ \A k \in 1..n : k \in 1..(n + 1)
  BY <1>1
<1>4. UNION {Range(new[k].entries) : k \in 1..(n + 1)}
        = (UNION {Range(pages[k].entries) : k \in 1..n}) \cup Range(p.entries)
  <2> DEFINE entries(k) == Range(new[k].entries)
  <2>1. entries(n + 1) = Range(p.entries) /\ \A k \in 1..n : entries(k) = Range(pages[k].entries)
    BY <1>1
  <2>2. {Range(pages[k].entries) : k \in 1..n} = {entries(k) : k \in 1..n}
    BY <2>1
  <2> HIDE DEF entries
  <2>3. UNION {entries(k) : k \in 1..(n + 1)} = (UNION {entries(k) : k \in 1..n}) \cup entries(n + 1)
    <3>1. 1..(n + 1) = 1..n \cup {n + 1}
      BY <1>2, <1>3
    <3>2. {entries(k) : k \in 1..n \cup {n + 1}} = {entries(k) : k \in 1..n} \cup {entries(n + 1)}
      OBVIOUS
    <3>3. UNION ({entries(k) : k \in 1..n} \cup {entries(n + 1)})
            = (UNION {entries(k) : k \in 1..n}) \cup entries(n + 1)
      OBVIOUS
    <3> QED BY <3>1, <3>2, <3>3
  <2> QED BY <2>1, <2>2, <2>3 DEF entries
<1>5. OnPages(new) = OnPages(pages) \cup Range(p.entries)
  BY <1>1, <1>4 DEF OnPages, n
<1>6. Last(new) = p /\ new # <<>>
  BY <1>1 DEF Last
<1> QED BY <1>1, <1>5, <1>6 DEF new, n

LEMMA CutOut ==
  ASSUME NEW S, NEW s \in Seq(S), NEW a \in Nat, NEW b \in Nat
  PROVE  SubSeq(s, a + 1, b) = [i \in 1..(b - a) |-> s[a + i]]
<1>1. SubSeq(s, a + 1, b) = [i \in 1..(1 + b - (a + 1)) |-> s[i + (a + 1) - 1]]
  BY SMTT(20)
<1>2. 1 + b - (a + 1) = b - a
  OBVIOUS
<1>3. \A i \in 1..(b - a) : i + (a + 1) - 1 = a + i
  OBVIOUS
<1> QED BY <1>1, <1>2, <1>3

(***************************************************************************)
(* One page more.                                                          *)
(***************************************************************************)
LEMMA PageAdded ==
  ASSUME NEW listed \in SUBSET Items, NEW pages, NEW began, PagesInv(pages, began, listed),
         pages # <<>> => HasNext(pages)
  PROVE  PagesInv(Append(pages, PageOf(Sorted(listed), Len(pages) + 1)), began, listed)
<1> DEFINE n == Cardinality(listed)
           all == Sorted(listed)
           asked == Len(pages) + 1
           total == TotalPages(all)
           cutPage == IF asked < total THEN asked ELSE total
           last == Start(cutPage) + PageSize
           end == IF last < Len(all) THEN last ELSE Len(all)
           p == [page |-> cutPage, totalPages |-> total,
                 entries |-> SubSeq(all, Start(cutPage) + 1, end)]
<1>1. PageOf(all, asked) = p
  BY DEF PageOf
<1>2. n \in Nat /\ pages \in Seq(HistoryPages) /\ Len(pages) \in Nat
  BY RowsFinite DEF PagesInv
<1>3. \A e : Cardinality(Newer(listed, e)) \in Nat
  BY RowsFinite
<1>4. \A k \in 1..n : all[k] \in listed /\ Cardinality(Newer(listed, all[k])) = k - 1
  BY SortedRows
<1>5. \A e \in listed : /\ Cardinality(Newer(listed, e)) < n
                      /\ all[Cardinality(Newer(listed, e)) + 1] = e
  BY SortedRows
<1>6. DOMAIN all = 1..n
  BY DEF Sorted
<1> HIDE DEF n, all
<1>7. all \in [1..n -> listed]
  <2>1. all = [k \in 1..n |-> all[k]]
    BY DEF all, Sorted, n
  <2> QED BY <1>4, <2>1
<1>8. all \in Seq(listed) /\ Len(all) = n /\ (all = <<>> <=> n = 0)
  BY <1>2, <1>7
<1>9. /\ total \in Nat /\ total >= 1
      /\ n <= total * PageSize
      /\ n > 0 => (total - 1) * PageSize < n
  <2>1. CASE n = 0
    <3>1. total = 1
      BY <1>8, <2>1 DEF TotalPages
    <3> QED BY <2>1, <3>1, PageSizeType
  <2>2. CASE n > 0
    <3>1. total = (n + PageSize - 1) \div PageSize
      BY <1>8, <2>2 DEF TotalPages
    <3> QED BY <1>2, <2>2, <3>1, PageSizeType, PagesNeeded
  <2> QED BY <1>2, <2>1, <2>2
<1> HIDE DEF total
<1>10. asked \in Nat /\ asked >= 1 /\ asked - 1 = Len(pages)
  BY <1>2
<1>11. asked > 1 => n > (asked - 1) * PageSize
  <2> HAVE asked > 1
  <2>1. pages # <<>>
    BY <1>2
  <2>2. Cardinality(listed) > Len(pages) * PageSize
    BY <2>1 DEF PagesInv
  <2> QED BY <1>10, <2>2 DEF n
<1> HIDE DEF asked
<1>12. asked <= total
  <2> SUFFICES ASSUME total < asked PROVE FALSE
    BY <1>9, <1>10
  <2>1. asked > 1 /\ total <= asked - 1
    BY <1>9, <1>10
  <2>2. total * PageSize <= (asked - 1) * PageSize
    BY <1>9, <1>10, <2>1, PageSizeType, TimesGrows
  <2>3. total * PageSize \in Int /\ (asked - 1) * PageSize \in Int
    BY <1>9, <1>10, PageSizeType
  <2> QED BY <1>2, <1>9, <1>11, <2>1, <2>2, <2>3
<1>13. cutPage = asked
  BY <1>9, <1>10, <1>12
<1> DEFINE from == (asked - 1) * PageSize
           to == asked * PageSize
<1>14. /\ from \in Nat /\ to \in Nat /\ to = from + PageSize /\ Start(cutPage) = from
       /\ from = Len(pages) * PageSize
  BY <1>10, <1>13, PageSizeType DEF Start
<1>15. end = IF to < n THEN to ELSE n
  BY <1>8, <1>14
<1>16. asked < total => to < n
  <2> HAVE asked < total
  <2>1. asked <= total - 1
    BY <1>9, <1>10
  <2>2. asked * PageSize <= (total - 1) * PageSize
    BY <1>9, <1>10, <2>1, PageSizeType, TimesGrows
  <2>3. n > 0
    <3> SUFFICES ASSUME n = 0 PROVE FALSE
      BY <1>2
    <3>1. total = 1
      BY <1>8 DEF TotalPages, total
    <3> QED BY <1>10, <3>1
  <2>4. (total - 1) * PageSize < n /\ (total - 1) * PageSize \in Int /\ to \in Int
    BY <1>9, <1>14, <2>3, PageSizeType
  <2> QED BY <1>2, <2>2, <2>4
<1>17. to < n => asked < total
  <2> SUFFICES ASSUME total <= asked, to < n PROVE FALSE
    BY <1>9, <1>10
  <2>1. total * PageSize <= asked * PageSize
    BY <1>9, <1>10, PageSizeType, TimesGrows
  <2>2. total * PageSize \in Int
    BY <1>9, PageSizeType
  <2> QED BY <1>2, <1>9, <1>14, <2>1, <2>2
<1> HIDE DEF cutPage, last, from, to
<1>18. p.page = asked /\ p.totalPages = total /\ p.entries = SubSeq(all, from + 1, end)
  BY <1>13, <1>14
<1>19. p.entries \in Seq(listed) /\ Range(p.entries) = {all[k] : k \in (from + 1)..end}
  <2>1. end \in Nat /\ end <= n
    BY <1>2, <1>14, <1>15
  <2> HIDE DEF end, p
  <2>2. p.entries = [i \in 1..(end - from) |-> all[from + i]]
    <3> HIDE DEF all
    <3>1. all \in Seq(listed) /\ from \in Nat
      BY <1>8, <1>14
    <3>2. SubSeq(all, from + 1, end) = [i \in 1..(end - from) |-> all[from + i]]
      BY <2>1, <3>1, CutOut
    <3> QED BY <1>18, <3>2
  <2>3. \A i \in 1..(end - from) : from + i \in 1..n /\ from + i \in (from + 1)..end
    BY <1>2, <1>14, <2>1
  <2>4. \A k \in (from + 1)..end : k - from \in 1..(end - from) /\ from + (k - from) = k
    BY <1>14, <2>1
  <2>5. p.entries \in Seq(listed)
    <3>1. \A i \in 1..(end - from) : all[from + i] \in listed
      BY <1>4, <2>3
    <3>2. CASE end >= from
      <4>1. end - from \in Nat
        BY <1>14, <2>1, <3>2
      <4>2. p.entries \in [1..(end - from) -> listed]
        BY <2>2, <3>1
      <4> QED BY <4>1, <4>2
    <3>3. CASE end < from
      <4>1. 1..(end - from) = {}
        BY <1>14, <2>1, <3>3
      <4>2. p.entries = <<>>
        BY <2>2, <4>1
      <4> QED BY <4>2
    <3> QED BY <1>14, <2>1, <3>2, <3>3
  <2>6. Range(p.entries) = {all[from + i] : i \in 1..(end - from)}
    BY <2>2 DEF Range
  <2>7. {all[from + i] : i \in 1..(end - from)} = {all[k] : k \in (from + 1)..end}
    BY <2>3, <2>4
  <2> QED BY <2>5, <2>6, <2>7
<1>20. p \in HistoryPages
  <2>1. p.entries \in Seq(Items)
    BY <1>19
  <2>2. asked \in Nat /\ total \in Nat
    BY <1>9, <1>10
  <2>3. p = [page |-> p.page, totalPages |-> p.totalPages, entries |-> p.entries]
    OBVIOUS
  <2> HIDE DEF p
  <2> QED BY <1>18, <2>1, <2>2, <2>3 DEF HistoryPages
<1> HIDE DEF p, end
<1> DEFINE new == Append(pages, p)
<1>21. /\ OnPages(new) = OnPages(pages) \cup Range(p.entries)
       /\ new \in Seq(HistoryPages) /\ Len(new) = asked /\ new # <<>> /\ Last(new) = p
  BY <1>2, <1>10, <1>20, OnOneMore
<1> HIDE DEF new
<1>22. HasNext(new) <=> asked < total
  BY <1>18, <1>21 DEF HasNext
<1>23. Len(new) * PageSize = to
  BY <1>21 DEF to
<1>24. ASSUME NEW e \in began \ OnPages(new)
       PROVE  /\ Cardinality(Newer(listed, e)) >= to
              /\ to < n
              /\ \A o \in OnPages(new) : e < o
  <2> DEFINE r == Cardinality(Newer(listed, e))
  <2>1. e \in began \ OnPages(pages) /\ e \notin Range(p.entries) /\ e \in listed
    BY <1>21, <1>24 DEF PagesInv
  <2>2. /\ r >= from /\ r \in Nat
        /\ \A o \in OnPages(pages) : e < o
    BY <1>3, <1>14, <2>1 DEF PagesInv
  <2>3. r < n /\ all[r + 1] = e
    BY <1>5, <2>1
  <2> HIDE DEF r
  <2>4. r >= to
    <3> SUFFICES ASSUME r < to PROVE FALSE
      BY <1>14, <2>2
    <3>1. r + 1 \in (from + 1)..end
      BY <1>2, <1>14, <1>15, <2>2, <2>3
    <3> QED BY <1>19, <2>1, <2>3, <3>1
  <2>5. to < n
    BY <1>2, <1>14, <2>2, <2>3, <2>4
  <2>6. ASSUME NEW o \in Range(p.entries) PROVE e < o
    <3>1. PICK k \in (from + 1)..end : o = all[k]
      BY <1>19
    <3>2. k \in 1..n /\ k <= to /\ k \in Nat
      BY <1>2, <1>14, <1>15, <3>1
    <3>3. o \in listed /\ Cardinality(Newer(listed, o)) = k - 1
      BY <1>4, <3>1, <3>2
    <3>4. e \in Nat /\ o \in Nat
      BY <2>1, <3>3, PageSizeType
    <3> SUFFICES ASSUME o <= e PROVE FALSE
      BY <3>4
    <3>5. Newer(listed, e) \in SUBSET Newer(listed, o)
      <4>1. \A f \in listed : f \in Nat
        BY PageSizeType
      <4>2. \A f \in listed : f > e => f > o
        BY <3>4, <4>1
      <4> QED BY <4>2 DEF Newer
    <3>6. r <= Cardinality(Newer(listed, o))
      BY <3>5, RowsFinite, FS_Subset DEF r
    <3> QED BY <1>14, <2>2, <2>4, <3>2, <3>3, <3>6
  <2> QED BY <1>21, <2>2, <2>4, <2>5, <2>6 DEF r
<1>25. PagesInv(new, began, listed)
  <2>1. began \subseteq listed /\ OnPages(new) \subseteq listed
    <3>1. \A k \in (from + 1)..end : k \in 1..n
      BY <1>2, <1>14, <1>15
    <3>2. Range(p.entries) \subseteq listed
      BY <1>4, <1>19, <3>1
    <3>3. began \subseteq listed /\ OnPages(pages) \subseteq listed
      BY DEF PagesInv
    <3> QED BY <1>21, <3>2, <3>3
  <2>2. Last(new).page = Len(new)
    BY <1>18, <1>21
  <2>3. HasNext(new) => Cardinality(listed) > Len(new) * PageSize
    BY <1>2, <1>14, <1>16, <1>22, <1>23 DEF n
  <2>4. \A e \in began \ OnPages(new) :
          /\ Cardinality(Newer(listed, e)) >= Len(new) * PageSize
          /\ HasNext(new)
          /\ \A o \in OnPages(new) : e < o
    BY <1>17, <1>22, <1>23, <1>24
  <2> QED BY <1>21, <2>1, <2>2, <2>3, <2>4 DEF PagesInv
<1> QED BY <1>1, <1>25 DEF new, asked, all

LEMMA HistoryInvProves ==
  ASSUME HistoryInv
  PROVE  HistoryTypeOK /\ NoneSkipped
<1>1. Listed = OnPages(data)
  BY DEF Listed, OnPages
<1>2. PagesInv(data, known, recorded) /\ (data = <<>> => known = {})
  BY DEF HistoryInv
<1>3. HistoryTypeOK
  <2>1. query.page \in Nat /\ query.want \in Nat
    BY DEF HistoryInv, Queries
  <2>2. query.began \subseteq recorded
    <3>1. CASE query = NoQuery
      BY <3>1 DEF NoQuery
    <3>2. CASE query # NoQuery
      <4>1. query.began \subseteq Merging
        BY <3>2 DEF HistoryInv, PagesInv
      <4> QED BY <4>1 DEF Merging
    <3> QED BY <3>1, <3>2
  <2>3. known \subseteq recorded /\ Listed \subseteq recorded
    BY <1>1, <1>2 DEF PagesInv
  <2>4. /\ recorded \subseteq Items /\ DOMAIN read \subseteq Tables
        /\ \A t \in DOMAIN read : read[t] \subseteq recorded
    BY DEF HistoryInv
  <2> QED BY <2>1, <2>2, <2>3, <2>4 DEF HistoryTypeOK
<1>4. NoneSkipped
  <2> SUFFICES ASSUME NEW e \in known, e \notin Listed,
                      ~HasNext(data) \/ \E older \in Listed : older <= e
               PROVE  FALSE
    BY DEF NoneSkipped
  <2>1. HasNext(data) /\ \A o \in Listed : e < o
    BY <1>1, <1>2 DEF PagesInv
  <2>2. PICK older \in Listed : older <= e
    BY <2>1
  <2>3. e \in Nat /\ older \in Nat
    BY <1>1, <1>2, PageSizeType DEF PagesInv, HistoryInv
  <2> QED BY <2>1, <2>2, <2>3
<1> QED BY <1>3, <1>4

LEMMA MergingType ==
  ASSUME HistoryInv
  PROVE  recorded \in SUBSET Items /\ Merging \in SUBSET Items /\ Merging \subseteq recorded
  BY DEF HistoryInv, Merging

\* The tables have all been read.
LEMMA MergedIs ==
  ASSUME HistoryInv, DOMAIN read = Tables
  PROVE  Merged = Sorted(Merging)
<1>1. \A e \in recorded : TableOf[e] \in Tables
  BY HistoryAssumption DEF HistoryInv, Tables, Range
<1>2. UNION Range(read) = Merging
  <2>1. \A e : e \in UNION Range(read) <=> \E t \in Tables : e \in read[t]
    BY DEF Range
  <2>2. \A t \in Tables : read[t] \subseteq {e \in recorded : TableOf[e] = t}
    BY DEF HistoryInv
  <2>3. \A e : (\E t \in Tables : e \in read[t]) <=> e \in Merging
    BY <1>1, <2>2 DEF Merging
  <2> QED BY <2>1, <2>3
<1>3. Merged = Sorted(UNION Range(read))
  BY DEF Merged, Sorted, Newer
<1> QED BY <1>2, <1>3

LEMMA RecordKeeps ==
  ASSUME HistoryInv, NEW e \in Items, Record(e)
  PROVE  HistoryInv'
<1>1. recorded' = recorded \cup {e} /\ UNCHANGED <<query, read, data, known>>
  BY DEF Record
<1>2. recorded' \in SUBSET Items /\ recorded \in SUBSET Items /\ recorded \subseteq recorded'
  BY <1>1 DEF HistoryInv
<1>3. Merging \in SUBSET Items /\ Merging' \in SUBSET Items /\ Merging \subseteq Merging'
  BY <1>1, <1>2, MergingType DEF Merging
<1>4. PagesInv(data, known, recorded)'
  <2>1. PagesInv(data, known, recorded')
    BY <1>2, MoreRows DEF HistoryInv
  <2> QED BY <1>1, <2>1
<1>5. query # NoQuery => PagesInv(query.got, query.began, Merging)'
  <2> HAVE query # NoQuery
  <2>1. PagesInv(query.got, query.began, Merging')
    BY <1>3, MoreRows DEF HistoryInv
  <2> QED BY <1>1, <2>1
<1> QED BY <1>1, <1>2, <1>4, <1>5 DEF HistoryInv, NoQuery, Queries

LEMMA ReadKeeps ==
  ASSUME HistoryInv, NEW t \in Tables, ReadTable(t)
  PROVE  HistoryInv'
<1>1. UNCHANGED <<recorded, query, data, known>> /\ t \notin DOMAIN read
  BY DEF ReadTable
<1>2. read' = [u \in DOMAIN read \cup {t} |->
                 IF u = t THEN {e \in recorded : TableOf[e] = t} ELSE read[u]]
  BY DEF ReadTable
<1>3. DOMAIN read' = DOMAIN read \cup {t} /\ DOMAIN read \subseteq Tables
  BY <1>2 DEF HistoryInv
<1>4. \A u \in DOMAIN read' : read'[u] \subseteq {e \in recorded : TableOf[e] = u}
  BY <1>2 DEF HistoryInv
<1>5. Merging' = Merging
  <2>1. \A e \in recorded :
          (TableOf[e] \in DOMAIN read' => e \in read'[TableOf[e]])
            <=> (TableOf[e] \in DOMAIN read => e \in read[TableOf[e]])
    BY <1>1, <1>2, <1>3
  <2> QED BY <1>1, <2>1 DEF Merging
<1>6. PagesInv(data, known, recorded)'
  BY <1>1 DEF HistoryInv
<1>7. query' # NoQuery => PagesInv(query.got, query.began, Merging)'
  BY <1>1, <1>5 DEF HistoryInv
<1> QED BY <1>1, <1>3, <1>4, <1>6, <1>7 DEF HistoryInv, NoQuery, Queries

\* A query begins: nothing of it has been read.
LEMMA NothingRead ==
  ASSUME read' = Unread, UNCHANGED recorded
  PROVE  Merging' = recorded /\ DOMAIN read' = {}
  BY DEF Merging, Unread

LEMMA RefetchKeeps ==
  ASSUME HistoryInv, Refetch
  PROVE  HistoryInv'
<1>1. /\ query' = [page |-> 1, want |-> IF data = <<>> THEN 1 ELSE Len(data),
                   got |-> <<>>, began |-> recorded]
      /\ UNCHANGED <<recorded, data, known>>
  BY DEF Refetch
<1>2. Merging' = recorded /\ DOMAIN read' = {}
  BY NothingRead DEF Refetch
<1>3. recorded \in SUBSET Items /\ Len(data) \in Nat
  BY DEF HistoryInv, PagesInv
<1>4. query' \in Queries
  <2>1. <<>> \in Seq(HistoryPages) /\ (IF data = <<>> THEN 1 ELSE Len(data)) \in Nat
    BY <1>3
  <2> QED BY <1>1, <1>3, <2>1 DEF Queries
<1>5. query'.page = Len(query'.got) + 1 /\ query'.got = <<>> /\ query'.began = recorded
  BY <1>1
<1>6. PagesInv(query'.got, query'.began, Merging')
  BY <1>2, <1>3, <1>5, NoPages
<1>7. PagesInv(data, known, recorded)'
  BY <1>1 DEF HistoryInv
<1>8. data' = <<>> => known' = {}
  BY <1>1 DEF HistoryInv
<1> QED BY <1>1, <1>2, <1>3, <1>4, <1>5, <1>6, <1>7, <1>8 DEF HistoryInv

LEMMA LoadMoreKeeps ==
  ASSUME HistoryInv, FetchNextPage
  PROVE  HistoryInv'
<1>1. /\ query' = [page |-> Last(data).page + 1, want |-> Len(data) + 1,
                   got |-> data, began |-> known]
      /\ UNCHANGED <<recorded, data, known>>
      /\ HasNext(data)
  BY DEF FetchNextPage
<1>2. Merging' = recorded /\ DOMAIN read' = {}
  BY NothingRead DEF FetchNextPage
<1>3. /\ PagesInv(data, known, recorded) /\ recorded \subseteq Items
      /\ data \in Seq(HistoryPages) /\ Len(data) \in Nat /\ known \subseteq Items
      /\ Last(data).page = Len(data)
  BY <1>1 DEF HistoryInv, PagesInv, HasNext
<1>4. query' \in Queries
  BY <1>1, <1>3 DEF Queries
<1>5. query'.page = Len(query'.got) + 1 /\ query'.got = data /\ query'.began = known
  BY <1>1, <1>3
<1>6. PagesInv(query'.got, query'.began, Merging')
  BY <1>2, <1>3, <1>5
<1>7. PagesInv(data, known, recorded)'
  BY <1>1, <1>3
<1>8. data' = <<>> => known' = {}
  BY <1>1 DEF HistoryInv
<1> QED BY <1>1, <1>2, <1>3, <1>4, <1>5, <1>6, <1>7, <1>8 DEF HistoryInv

LEMMA AnsweredKeeps ==
  ASSUME HistoryInv, PageAnswered
  PROVE  HistoryInv'
<1> DEFINE cutPage == PageOf(Merged, query.page)
           got == Append(query.got, cutPage)
<1>1. /\ query # NoQuery /\ DOMAIN read = Tables /\ read' = Unread /\ UNCHANGED recorded
      /\ IF Len(got) < query.want /\ HasNext(got)
           THEN /\ query' = [query EXCEPT !.page = Last(got).page + 1, !.got = got]
                /\ UNCHANGED <<data, known>>
           ELSE /\ query' = NoQuery /\ data' = got /\ known' = query.began
  BY DEF PageAnswered
<1>2. Merging' = recorded /\ DOMAIN read' = {}
  BY <1>1, NothingRead
<1>3. recorded \in SUBSET Items /\ Merging \in SUBSET Items /\ Merging \subseteq recorded
  BY MergingType
<1>4. /\ query \in Queries /\ query.page = Len(query.got) + 1
      /\ query.got # <<>> => HasNext(query.got)
      /\ PagesInv(query.got, query.began, Merging)
  BY <1>1 DEF HistoryInv
<1>5. PagesInv(got, query.began, Merging)
  BY <1>1, <1>3, <1>4, MergedIs, PageAdded
<1>6. PagesInv(got, query.began, recorded)
  BY <1>3, <1>5, MoreRows
<1>7. got \in Seq(HistoryPages) /\ got # <<>> /\ Last(got).page = Len(got) /\ Len(got) \in Nat
  <2>1. got # <<>>
    <3>1. query.got \in Seq(HistoryPages)
      BY <1>4 DEF Queries
    <3>2. Len(got) = Len(query.got) + 1 /\ Len(query.got) \in Nat
      BY <3>1
    <3> HIDE DEF got
    <3>3. got = <<>> => Len(got) = 0
      OBVIOUS
    <3> QED BY <3>2, <3>3
  <2> HIDE DEF got
  <2> QED BY <1>5, <2>1 DEF PagesInv
<1> HIDE DEF got
<1>8. CASE Len(got) < query.want /\ HasNext(got)
  <2>1. query' = [query EXCEPT !.page = Last(got).page + 1, !.got = got] /\ UNCHANGED <<data, known>>
    BY <1>1, <1>8
  <2> DEFINE after == Last(got).page + 1
  <2>2. after \in Nat /\ after = Len(got) + 1
    BY <1>7
  <2> HIDE DEF after
  <2>3. query' = [query EXCEPT !.page = after, !.got = got]
    BY <2>1 DEF after
  <2>4. query' \in Queries
    BY <1>4, <1>7, <2>2, <2>3 DEF Queries
  <2>5. query'.page = after /\ query'.got = got /\ query'.began = query.began
    BY <1>4, <1>7, <2>2, <2>3 DEF Queries
  <2>6. PagesInv(query'.got, query'.began, Merging')
    BY <1>2, <1>6, <2>5
  <2>7. PagesInv(data, known, recorded)' /\ (data' = <<>> => known' = {})
    BY <1>1, <2>1 DEF HistoryInv
  <2> QED BY <1>1, <1>2, <1>3, <1>8, <2>2, <2>4, <2>5, <2>6, <2>7 DEF HistoryInv
<1>9. CASE ~ (Len(got) < query.want /\ HasNext(got))
  <2>1. query' = NoQuery /\ data' = got /\ known' = query.began
    BY <1>1, <1>9
  <2>2. NoQuery \in Queries
    BY DEF NoQuery, Queries
  <2>3. PagesInv(data, known, recorded)'
    BY <1>1, <1>6, <2>1
  <2> QED BY <1>1, <1>2, <1>3, <1>7, <2>1, <2>2, <2>3 DEF HistoryInv, NoQuery
<1> QED BY <1>8, <1>9

LEMMA FetchFailsKeeps ==
  ASSUME HistoryInv, FetchFails
  PROVE  HistoryInv'
<1>1. query' = NoQuery /\ UNCHANGED <<recorded, data, known>>
  BY DEF FetchFails
<1>2. DOMAIN read' = {}
  BY NothingRead DEF FetchFails
<1>3. NoQuery \in Queries
  BY DEF NoQuery, Queries
<1>4. PagesInv(data, known, recorded)'
  BY <1>1 DEF HistoryInv
<1> QED BY <1>1, <1>2, <1>3, <1>4 DEF HistoryInv, NoQuery

LEMMA HistoryInit ==
  ASSUME InitHistory
  PROVE  HistoryInv
<1>1. recorded = {} /\ query = NoQuery /\ read = Unread /\ data = <<>> /\ known = {}
  BY DEF InitHistory
<1>2. NoQuery \in Queries
  BY DEF NoQuery, Queries
<1>3. PagesInv(data, known, recorded)
  BY <1>1, NoPages
<1>4. DOMAIN read = {}
  BY <1>1 DEF Unread
<1> QED BY <1>1, <1>2, <1>3, <1>4 DEF HistoryInv

LEMMA HistoryStays ==
  ASSUME HistoryInv, UNCHANGED historyVars
  PROVE  HistoryInv'
<1>1. UNCHANGED <<recorded, query, read, data, known>>
  BY DEF historyVars
<1>2. Merging' = Merging
  BY <1>1 DEF Merging
<1>3. PagesInv(data, known, recorded)'
  BY <1>1 DEF HistoryInv
<1>4. query' # NoQuery => PagesInv(query.got, query.began, Merging)'
  BY <1>1, <1>2 DEF HistoryInv
<1> QED BY <1>1, <1>3, <1>4 DEF HistoryInv, NoQuery, Queries

LEMMA HistoryNext == HistoryInv /\ [HistoryStep]_historyVars => HistoryInv'
  BY RecordKeeps, ReadKeeps, RefetchKeeps, LoadMoreKeeps, AnsweredKeeps, FetchFailsKeeps,
     HistoryStays DEF HistoryStep

(***************************************************************************)
(* However rows are added between the reads of the tables and of the       *)
(* pages, the list of a dashboard misses nothing that was there when it    *)
(* was asked for, down to the oldest it shows.                             *)
(* (user.ts, GET /history; use-dashboard-data.ts.)                         *)
(***************************************************************************)
THEOREM NothingSkipped == HistorySpec => []NoneSkipped
<1>1. InitHistory => HistoryInv
  BY HistoryInit
<1>2. HistoryInv /\ [HistoryStep]_historyVars => HistoryInv'
  BY HistoryNext
<1>3. HistoryInv => NoneSkipped
  BY HistoryInvProves
<1> QED BY <1>1, <1>2, <1>3, PTL DEF HistorySpec

LEMMA HistoryTyped == HistoryInv => HistoryTypeOK
<1> SUFFICES ASSUME HistoryInv PROVE HistoryTypeOK
  OBVIOUS
<1>1. known \subseteq recorded /\ Listed \subseteq recorded
  BY DEF HistoryInv, PagesInv, Listed, OnPages
<1>2. query.page \in Nat /\ query.want \in Nat
  BY DEF HistoryInv, Queries
<1>3. query.began \subseteq recorded
  <2>1. CASE query = NoQuery
    BY <2>1 DEF NoQuery
  <2>2. CASE query # NoQuery
    BY <2>2, MergingType DEF HistoryInv, PagesInv
  <2> QED BY <2>1, <2>2
<1> QED BY <1>1, <1>2, <1>3 DEF HistoryInv, HistoryTypeOK
=============================================================================
