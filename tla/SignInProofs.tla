---------------------------- MODULE SignInProofs ----------------------------
(***************************************************************************)
(* What lets a user in, and what stays shut: a code is accepted once, only *)
(* a proved secret is active, a time step passes once as long as nobody    *)
(* writes the row, a ticket gives one session, a changed password ends the *)
(* older sessions, a revoked passport comes back only by a payment that    *)
(* the revocation overtook; and of the account itself, how often its owner *)
(* is welcomed and what an erased one leaves; for any number of codes,     *)
(* requests and restarts.                                                  *)
(***************************************************************************)
EXTENDS Integers, OneTimeCodes, SecondFactor, Sessions, Passports, Accounts, Erasure,
        FiniteSetTheorems, SequenceTheorems, TLAPS

-----------------------------------------------------------------------------
(***************************************************************************)
(* OneTimeCodes                                                            *)
(***************************************************************************)
IssueStates == [at : {"new", "void", "insert", "record", "over"}, recent : Int]

ConfirmStates ==
  [at : {"new", "right", "wrong", "lock", "factor", "consume", "over"},
   code : OtpCodes \cup {Nothing}]

OtpTypes ==
  /\ otp \in [OtpCodes -> Unspent \cup {"none", "used", "deleted"}]
  /\ issue \in [OtpCodes -> IssueStates]
  /\ issued \in [n : Int, fresh : BOOLEAN]
  /\ confirm \in [Confirms -> ConfirmStates]
  /\ accepted \in [OtpCodes -> Nat]

\* No row before its insert: what InsertOtp makes live was never there.
NoRowYet == \A c \in OtpCodes : issue[c].at \in {"new", "void", "insert"} => otp[c] = "none"

\* Until it is spent, a code was neither accepted nor voided.
UnspentUntouched ==
  \A c \in OtpCodes : otp[c] \in Unspent \cup {"none"} => accepted[c] = 0 /\ c \notin voided

\* What a request is about to consume is a code.
HeldIsCode ==
  \A v \in Confirms :
    confirm[v].at \in {"right", "factor", "consume"} => confirm[v].code \in OtpCodes

CodesInv ==
  /\ OtpTypes /\ NoRowYet /\ UnspentUntouched /\ HeldIsCode
  /\ AcceptedOnce

LEMMA InitCodesInv == InitOneTimeCodes => CodesInv
<1> SUFFICES ASSUME InitOneTimeCodes PROVE CodesInv
  OBVIOUS
<1>1. OtpTypes
  BY OneTimeCodesAssumption
  DEF InitOneTimeCodes, OtpTypes, IssueStates, ConfirmStates, NeverIssued, Unspent
<1>2. NoRowYet /\ UnspentUntouched /\ HeldIsCode
  BY DEF InitOneTimeCodes, NoRowYet, UnspentUntouched, HeldIsCode
<1>3. AcceptedOnce
  BY DEF InitOneTimeCodes, AcceptedOnce
<1> QED BY <1>1, <1>2, <1>3 DEF CodesInv

\* What a code went through is not disturbed by the steps that leave the rows alone.
LEMMA RowsUntouched ==
  ASSUME CodesInv, UNCHANGED <<otp, history>>, OtpTypes', HeldIsCode',
         \A c \in OtpCodes : (issue[c].at \in {"new", "void", "insert"})'
                               => issue[c].at \in {"new", "void", "insert"}
  PROVE  CodesInv'
  BY DEF CodesInv, NoRowYet, UnspentUntouched, AcceptedOnce, history

\* Rows are voided, expire and are deleted; none becomes live.
LEMMA VoidingKeeps ==
  ASSUME CodesInv, VoidCodes, UNCHANGED accepted, HeldIsCode',
         issue' \in [OtpCodes -> IssueStates],
         issued' \in [n : Int, fresh : BOOLEAN],
         confirm' \in [Confirms -> ConfirmStates],
         \A c \in OtpCodes : (issue[c].at \in {"new", "void", "insert"})'
                               => issue[c].at \in {"new", "void", "insert"}
  PROVE  CodesInv'
<1>1. OtpTypes'
  BY DEF CodesInv, OtpTypes, IssueStates, ConfirmStates, VoidCodes, Unspent
<1>2. NoRowYet' /\ UnspentUntouched'
  BY DEF CodesInv, OtpTypes, IssueStates, ConfirmStates, NoRowYet, UnspentUntouched,
         VoidCodes, Unspent
<1>3. AcceptedOnce'
  BY DEF CodesInv, OtpTypes, IssueStates, ConfirmStates, UnspentUntouched,
         AcceptedOnce, VoidCodes, Unspent
<1> QED BY <1>1, <1>2, <1>3 DEF CodesInv

LEMMA IssueStepKept ==
  ASSUME CodesInv, NEW c \in OtpCodes,
         BeginIssue(c) \/ VoidEarlier(c) \/ InsertOtp(c) \/ RecordIssue(c) \/ ExpireOtp(c)
  PROVE  CodesInv'
<1>1. CASE BeginIssue(c)
  <2>1. OtpTypes' /\ HeldIsCode'
    BY <1>1
    DEF BeginIssue, memory, history, CodesInv, OtpTypes, IssueStates, ConfirmStates,
        HeldIsCode
  <2> QED
    BY <1>1, <2>1, RowsUntouched
    DEF BeginIssue, CodesInv, OtpTypes, IssueStates, ConfirmStates
<1>2. CASE VoidEarlier(c)
  <2>1. issue' = [issue EXCEPT ![c] = [@ EXCEPT !.at = "insert"]] /\ issue[c].at = "void"
    BY <1>2 DEF VoidEarlier, IssueStep
  <2> QED
    BY <1>2, <2>1, VoidingKeeps
    DEF VoidEarlier, memory, CodesInv, OtpTypes, IssueStates, ConfirmStates, HeldIsCode
<1>3. CASE InsertOtp(c)
  <2>1. issue' = [issue EXCEPT ![c] = [@ EXCEPT !.at = "record"]] /\ issue[c].at = "insert"
    BY <1>3 DEF InsertOtp, IssueStep
  <2>2. OtpTypes' /\ HeldIsCode'
    BY <1>3, <2>1
    DEF InsertOtp, memory, history, CodesInv, OtpTypes, IssueStates, ConfirmStates,
        HeldIsCode, Unspent
  <2>3. NoRowYet' /\ UnspentUntouched'
    BY <1>3, <2>1
    DEF InsertOtp, history, CodesInv, OtpTypes, IssueStates, ConfirmStates, NoRowYet,
        UnspentUntouched
  <2> QED
    BY <1>3, <2>2, <2>3
    DEF InsertOtp, history, CodesInv, AcceptedOnce
<1>4. CASE RecordIssue(c)
  <2>1. issue' = [issue EXCEPT ![c] = IssueOver]
    BY <1>4 DEF RecordIssue, IssueStep
  <2>2. OtpTypes' /\ HeldIsCode'
    BY <1>4, <2>1
    DEF RecordIssue, IssueOver, history, CodesInv, OtpTypes, IssueStates, ConfirmStates,
        HeldIsCode
  <2> QED
    BY <1>4, <2>1, <2>2, RowsUntouched
    DEF RecordIssue, IssueOver, CodesInv, OtpTypes, IssueStates, ConfirmStates
<1>5. CASE ExpireOtp(c)
  BY <1>5
  DEF ExpireOtp, memory, history, CodesInv, OtpTypes, IssueStates, ConfirmStates, NoRowYet,
      UnspentUntouched, HeldIsCode, AcceptedOnce, Unspent
<1> QED BY <1>1, <1>2, <1>3, <1>4, <1>5

\* A request that presents a code moves on.
LEMMA ConfirmMoves ==
  ASSUME CodesInv, NEW v \in Confirms,
         NEW from \in {"right", "wrong", "lock", "factor", "consume"},
         NEW to \in {"lock", "factor", "consume", "over"},
         ConfirmStep(v, from, to),
         to \in {"factor", "consume"} => from \in {"right", "factor"}
  PROVE  /\ confirm' \in [Confirms -> ConfirmStates]
         /\ HeldIsCode'
<1>1. CASE to = "over"
  <2>1. confirm' = [confirm EXCEPT ![v] = ConfirmOver]
    BY <1>1 DEF ConfirmStep
  <2> QED
    BY <2>1
    DEF ConfirmOver, CodesInv, OtpTypes, IssueStates, ConfirmStates, HeldIsCode
<1>2. CASE to # "over"
  <2>1. confirm' = [confirm EXCEPT ![v] = [@ EXCEPT !.at = to]] /\ confirm[v].at = from
    BY <1>2 DEF ConfirmStep
  <2> QED BY <1>2, <2>1 DEF CodesInv, OtpTypes, IssueStates, ConfirmStates, HeldIsCode
<1> QED BY <1>1, <1>2

LEMMA ConfirmStepKept ==
  ASSUME CodesInv, NEW v \in Confirms,
         \/ \E code \in Presents[v] : FindOtp(v, code)
         \/ RightCode(v) \/ WrongCode(v) \/ LockOut(v)
         \/ PassFactor(v) \/ FailFactor(v) \/ ConsumeOtp(v)
  PROVE  CodesInv'
<1>1. ASSUME NEW code \in Presents[v], FindOtp(v, code) PROVE CodesInv'
  <2>1. OtpTypes' /\ HeldIsCode'
    BY <1>1
    DEF FindOtp, memory, history, CodesInv, OtpTypes, IssueStates, ConfirmStates, HeldIsCode
  <2> QED BY <1>1, <2>1, RowsUntouched DEF FindOtp
<1>2. CASE RightCode(v)
  <2>1. OtpTypes' /\ HeldIsCode'
    BY <1>2, ConfirmMoves
    DEF RightCode, NeverIssued, history, CodesInv, OtpTypes, IssueStates, ConfirmStates
  <2> QED BY <1>2, <2>1, RowsUntouched DEF RightCode
<1>3. CASE WrongCode(v)
  <2>1. OtpTypes' /\ HeldIsCode'
    BY <1>3, ConfirmMoves
    DEF WrongCode, history, CodesInv, OtpTypes, IssueStates, ConfirmStates
  <2> QED BY <1>3, <2>1, RowsUntouched DEF WrongCode
<1>4. CASE LockOut(v)
  <2>1. confirm' \in [Confirms -> ConfirmStates] /\ HeldIsCode'
    BY <1>4, ConfirmMoves DEF LockOut
  <2> QED
    BY <1>4, <2>1, VoidingKeeps
    DEF LockOut, memory, CodesInv, OtpTypes, IssueStates, ConfirmStates
<1>5. CASE PassFactor(v)
  <2>1. confirm' \in [Confirms -> ConfirmStates] /\ HeldIsCode'
    BY <1>5, ConfirmMoves DEF PassFactor
  <2>2. OtpTypes'
    BY <1>5, <2>1
    DEF PassFactor, memory, history, CodesInv, OtpTypes, IssueStates, ConfirmStates
  <2> QED BY <1>5, <2>1, <2>2, RowsUntouched DEF PassFactor
<1>6. CASE FailFactor(v)
  <2>1. OtpTypes' /\ HeldIsCode'
    BY <1>6, ConfirmMoves
    DEF FailFactor, memory, history, CodesInv, OtpTypes, IssueStates, ConfirmStates
  <2> QED BY <1>6, <2>1, RowsUntouched DEF FailFactor
<1>7. CASE ConsumeOtp(v)
  <2> DEFINE c == confirm[v].code
  <2>1. confirm' \in [Confirms -> ConfirmStates] /\ HeldIsCode'
    BY <1>7, ConfirmMoves DEF ConsumeOtp
  <2>2. c \in OtpCodes /\ UNCHANGED <<failures, issued, issue, voided>>
    <3>1. confirm[v].at = "consume"
      BY <1>7, Zenon DEF ConsumeOtp, ConfirmStep
    <3> QED BY <1>7, <3>1 DEF ConsumeOtp, CodesInv, HeldIsCode, memory
  <2>3. CASE otp[c] \in Unspent
    <3>1. otp' = [otp EXCEPT ![c] = "used"] /\ accepted' = [accepted EXCEPT ![c] = @ + 1]
      BY <1>7, <2>3 DEF ConsumeOtp, StillUnspent
    <3>2. OtpTypes'
      BY <2>1, <2>2, <3>1 DEF CodesInv, OtpTypes, IssueStates, ConfirmStates
    <3>3. accepted[c] = 0 /\ c \notin voided /\ otp[c] # "none"
      BY <2>2, <2>3 DEF CodesInv, UnspentUntouched, Unspent
    <3>4. NoRowYet' /\ UnspentUntouched' /\ AcceptedOnce'
      BY <2>2, <3>1, <3>3
      DEF CodesInv, OtpTypes, IssueStates, ConfirmStates, NoRowYet, UnspentUntouched,
          AcceptedOnce, Unspent
    <3> QED
      BY <2>1, <2>2, <3>2, <3>4 DEF CodesInv, AcceptedOnce
  <2>4. CASE otp[c] \notin Unspent
    <3>1. UNCHANGED <<otp, accepted>>
      BY <1>7, <2>4 DEF ConsumeOtp, StillUnspent
    <3>2. OtpTypes'
      BY <2>1, <2>2, <3>1 DEF CodesInv, OtpTypes, IssueStates, ConfirmStates
    <3> QED BY <2>1, <2>2, <3>1, <3>2, RowsUntouched DEF history
  <2> QED BY <2>3, <2>4
<1> QED BY <1>1, <1>2, <1>3, <1>4, <1>5, <1>6, <1>7

LEMMA OtpStepKept == CodesInv /\ [OtpStep]_otpVars => CodesInv'
<1> SUFFICES ASSUME CodesInv, [OtpStep]_otpVars PROVE CodesInv'
  OBVIOUS
<1>1. CASE RunCleanup
  BY <1>1
  DEF RunCleanup, memory, history, CodesInv, OtpTypes, IssueStates, ConfirmStates, NoRowYet,
      UnspentUntouched, HeldIsCode, AcceptedOnce, Unspent
<1>2. CASE IssueAges
  <2>1. issued' \in [n : Int, fresh : BOOLEAN]
    <3>1. issued \in [n : Int, fresh : BOOLEAN]
      BY DEF CodesInv, OtpTypes, IssueStates, ConfirmStates
    <3>2. \/ issued' = [issued EXCEPT !.fresh = FALSE]
          \/ issued' = [issued EXCEPT !.n = issued.n - 1]
      BY <1>2, Zenon DEF IssueAges
    <3>3. CASE issued' = [issued EXCEPT !.fresh = FALSE]
      BY <3>1, <3>3
    <3>4. CASE issued' = [issued EXCEPT !.n = issued.n - 1]
      BY <3>1, <3>4
    <3> QED BY <3>2, <3>3, <3>4
  <2>2. OtpTypes' /\ HeldIsCode'
    BY <1>2, <2>1
    DEF IssueAges, history, CodesInv, OtpTypes, IssueStates, ConfirmStates, HeldIsCode
  <2> QED BY <1>2, <2>2, RowsUntouched DEF IssueAges
<1>3. CASE OtpRestart
  <2>1. OtpTypes' /\ HeldIsCode'
    BY <1>3
    DEF OtpRestart, NeverIssued, IssueOver, ConfirmOver, history, CodesInv, OtpTypes,
        IssueStates, ConfirmStates, HeldIsCode
  <2> QED BY <1>3, <2>1, RowsUntouched DEF OtpRestart, IssueOver
<1>4. CASE UNCHANGED otpVars
  <2>1. OtpTypes' /\ HeldIsCode'
    BY <1>4
    DEF otpVars, memory, history, CodesInv, OtpTypes, IssueStates, ConfirmStates, HeldIsCode
  <2> QED BY <1>4, <2>1, RowsUntouched DEF otpVars
<1> QED BY <1>1, <1>2, <1>3, <1>4, IssueStepKept, ConfirmStepKept DEF OtpStep

\* No code is accepted twice, and none after it was voided, whatever requests present
\* it at the same time (otp.ts: consumeOtp).
THEOREM NothingAcceptedTwice == OtpSpec => []AcceptedOnce
<1>1. InitOneTimeCodes => CodesInv
  BY InitCodesInv
<1>2. CodesInv /\ [OtpStep]_otpVars => CodesInv'
  BY OtpStepKept
<1>3. CodesInv => AcceptedOnce
  BY DEF CodesInv
<1> QED BY <1>1, <1>2, <1>3, PTL DEF OtpSpec

-----------------------------------------------------------------------------
(***************************************************************************)
(* SecondFactor                                                            *)
(***************************************************************************)
TicketRecords == [open : BOOLEAN, issued : BOOLEAN, challenge : BOOLEAN]

EnableRecords ==
  [at : {"new", "store", "over"}, secret : Setups \cup {Missing}, step : TimeSteps \cup {0}]

BiometricRecords ==
  [at : {"new", "verify", "finish", "over"}, ticket : Tickets \cup {Missing}]

FactorTypes ==
  /\ enable \in [Enables -> EnableRecords]
  /\ pending \in Setups \cup {Missing}
  /\ ticket \in [Tickets -> TicketRecords]
  /\ biometric \in [Biometrics -> BiometricRecords]
  /\ sessionsOf \in [Tickets -> Nat]

\* What is about to be stored was verified.
StoresProved == \A e \in Enables : enable[e].at = "store" => enable[e].secret \in proved

\* The request b has the challenge of t and is being checked.
Verifies(b, t) == biometric[b].at \in {"verify", "finish"} /\ biometric[b].ticket = t

\* The challenge, the request that took it and the session that comes of it: a ticket
\* has one of them at a time, and none before it is issued.
TicketSpentOnce ==
  /\ \A b \in Biometrics :
       biometric[b].at \in {"verify", "finish"} => biometric[b].ticket \in Tickets
  /\ \A t \in Tickets :
       /\ ticket[t].challenge => ticket[t].issued
       /\ ~ ticket[t].issued \/ ticket[t].challenge =>
            sessionsOf[t] = 0 /\ \A b \in Biometrics : ~ Verifies(b, t)
       /\ \A b \in Biometrics : Verifies(b, t) =>
            sessionsOf[t] = 0 /\ \A c \in Biometrics : Verifies(c, t) => c = b

FactorInv ==
  FactorTypes /\ StoresProved /\ TicketSpentOnce /\ ActiveSecretProved /\ OneSessionPerTicket

LEMMA InitFactorInv == InitSecondFactor => FactorInv
  BY DEF InitSecondFactor, NotEnabling, HasTotp, FactorInv, FactorTypes, TicketRecords, EnableRecords,
         BiometricRecords, StoresProved, TicketSpentOnce, Verifies, ActiveSecretProved,
         OneSessionPerTicket

\* The ticket t is closed, or its challenge is taken; nothing else about tickets changes.
LEMMA TicketClosed ==
  ASSUME FactorTypes, NEW t \in Tickets, ticket' = [ticket EXCEPT ![t].open = FALSE]
  PROVE  /\ ticket' \in [Tickets -> TicketRecords]
         /\ \A u \in Tickets :
              ticket'[u].issued = ticket[u].issued /\ ticket'[u].challenge = ticket[u].challenge
<1>1. ticket' \in [Tickets -> TicketRecords]
  BY DEF FactorTypes, TicketRecords
<1>2. ASSUME NEW u \in Tickets
      PROVE  ticket'[u].issued = ticket[u].issued /\ ticket'[u].challenge = ticket[u].challenge
  <2>1. CASE u = t
    <3>1. ticket'[u] = [ticket[t] EXCEPT !.open = FALSE]
      BY <2>1, Zenon DEF FactorTypes
    <3> QED BY <2>1, <3>1, Zenon DEF FactorTypes, TicketRecords
  <2>2. CASE u # t
    <3>1. ticket'[u] = ticket[u]
      BY <2>2, Zenon DEF FactorTypes
    <3> QED BY <3>1
  <2> QED BY <2>1, <2>2
<1> QED BY <1>1, <1>2

LEMMA ChallengeTaken ==
  ASSUME FactorTypes, NEW t \in Tickets, TakeChallenge(t)
  PROVE  /\ ticket' \in [Tickets -> TicketRecords]
         /\ ticket'[t].issued = ticket[t].issued /\ ~ ticket'[t].challenge
         /\ \A u \in Tickets : u # t => ticket'[u] = ticket[u]
<1>1. ticket' \in [Tickets -> TicketRecords]
  BY DEF TakeChallenge, FactorTypes, TicketRecords
<1>2. ticket'[t] = [ticket[t] EXCEPT !.challenge = FALSE]
  BY Zenon DEF TakeChallenge, FactorTypes
<1>3. ticket'[t].issued = ticket[t].issued /\ ~ ticket'[t].challenge
  BY <1>2, Zenon DEF FactorTypes, TicketRecords
<1>4. \A u \in Tickets : u # t => ticket'[u] = ticket[u]
  BY Zenon DEF TakeChallenge, FactorTypes
<1> QED BY <1>1, <1>3, <1>4

LEMMA TicketForgotten ==
  ASSUME NEW r \in TicketRecords
  PROVE  LET forgotten == [r EXCEPT !.open = FALSE, !.challenge = FALSE]
         IN /\ forgotten \in TicketRecords
            /\ forgotten.issued = r.issued /\ ~ forgotten.challenge
<1> DEFINE forgotten == [r EXCEPT !.open = FALSE, !.challenge = FALSE]
<1>1. forgotten.issued = r.issued /\ forgotten.challenge = FALSE
  BY Zenon DEF TicketRecords
<1>2. forgotten \in TicketRecords
  <2>1. [r EXCEPT !.open = FALSE] \in TicketRecords
    BY DEF TicketRecords
  <2>2. ASSUME NEW q \in TicketRecords PROVE [q EXCEPT !.challenge = FALSE] \in TicketRecords
    BY DEF TicketRecords
  <2> QED BY <2>1, <2>2
<1> QED BY <1>1, <1>2

\* The steps of an authenticator and a device leave tickets alone.
LEMMA LoginUntouched ==
  ASSUME FactorInv, UNCHANGED loginJobs,
         enable' \in [Enables -> EnableRecords],
         pending' \in Setups \cup {Missing},
         StoresProved', ActiveSecretProved'
  PROVE  FactorInv'
  BY DEF FactorInv, FactorTypes, TicketSpentOnce, Verifies, OneSessionPerTicket, loginJobs

\* The steps of a sign-in leave the secrets alone.
LEMMA SecretsUntouched ==
  ASSUME FactorInv, UnchangedButLogin,
         ticket' \in [Tickets -> TicketRecords],
         biometric' \in [Biometrics -> BiometricRecords],
         sessionsOf' \in [Tickets -> Nat],
         TicketSpentOnce', OneSessionPerTicket'
  PROVE  FactorInv'
  BY DEF FactorInv, FactorTypes, StoresProved, ActiveSecretProved, HasTotp,
         UnchangedButLogin, factorRows, totpRow, factorJobs, factorHistory

LEMMA AuthenticatorStepKept ==
  ASSUME FactorInv,
         \/ \E s \in Setups : BeginSetup(s) \/ StoreSetup(s)
         \/ \E e \in Enables : StoreEnable(e) \/ \E step \in TimeSteps : BeginEnable(e, step)
         \/ \E d \in Disables : BeginDisable(d) \/ ClearTotp(d) \/ DeletePasskeys(d)
  PROVE  FactorInv'
<1> USE DEF FactorInv, FactorTypes, TicketRecords, EnableRecords, BiometricRecords,
            StoresProved, ActiveSecretProved, HasTotp
<1>1. ASSUME NEW s \in Setups, BeginSetup(s) \/ StoreSetup(s) PROVE FactorInv'
  BY <1>1, LoginUntouched DEF BeginSetup, StoreSetup, factorRows, totpRow, factorHistory
<1>2. ASSUME NEW e \in Enables, NEW step \in TimeSteps, BeginEnable(e, step)
      PROVE  FactorInv'
  BY <1>2, LoginUntouched DEF BeginEnable, factorRows, totpRow
<1>3. ASSUME NEW e \in Enables, StoreEnable(e) PROVE FactorInv'
  BY <1>3, LoginUntouched DEF StoreEnable, Verified, NotEnabling
<1>4. ASSUME NEW d \in Disables, BeginDisable(d) \/ ClearTotp(d) \/ DeletePasskeys(d)
      PROVE  FactorInv'
  BY <1>4, LoginUntouched
  DEF BeginDisable, ClearTotp, DeletePasskeys, factorRows, totpRow, factorHistory
<1> QED BY <1>1, <1>2, <1>3, <1>4

LEMMA DeviceStepKept ==
  ASSUME FactorInv,
         \/ \E k \in Devices :
              \/ RegisterOptions(k) \/ RegisterVerify(k) \/ TakeRegistration(k)
              \/ InsertPasskey(k) \/ RemovePasskey(k)
         \/ \E t \in TotpChecks \cup Disables :
              ClaimStep(t) \/ \E step \in TimeSteps : VerifyTotp(t, step)
  PROVE  FactorInv'
<1>1. UNCHANGED <<secret, pending, enable, proved, loginJobs>>
  BY DEF RegisterOptions, RegisterVerify, TakeRegistration, InsertPasskey, RemovePasskey,
         VerifyTotp, ClaimStep, UnchangedButCheck, factorRows, totpRow, factorJobs,
         factorHistory
<1> QED
  BY <1>1, LoginUntouched
  DEF FactorInv, FactorTypes, StoresProved, ActiveSecretProved, HasTotp

LEMMA LoginStepKept ==
  ASSUME FactorInv,
         \/ \E t \in Tickets : IssueLoginTicket(t) \/ EndTicket(t)
         \/ \E b \in Biometrics :
              \/ \E t \in Tickets : BeginBiometric(b, t)
              \/ VerifyAssertion(b) \/ FinishBiometric(b)
  PROVE  FactorInv'
<1> USE DEF FactorInv, FactorTypes, TicketRecords, EnableRecords, BiometricRecords,
            TicketSpentOnce, Verifies, OneSessionPerTicket
<1>1. ASSUME NEW t \in Tickets, IssueLoginTicket(t) PROVE FactorInv'
  BY <1>1, SecretsUntouched DEF IssueLoginTicket
<1>2. ASSUME NEW t \in Tickets, EndTicket(t) PROVE FactorInv'
  <2>1. ticket' = [ticket EXCEPT ![t].open = FALSE]
    BY <1>2, Zenon DEF EndTicket
  <2>2. UNCHANGED <<biometric, sessionsOf>> /\ UnchangedButLogin
    BY <1>2, Zenon DEF EndTicket
  <2>3. /\ ticket' \in [Tickets -> TicketRecords]
        /\ \A u \in Tickets :
             ticket'[u].issued = ticket[u].issued /\ ticket'[u].challenge = ticket[u].challenge
    BY <2>1, TicketClosed DEF FactorInv
  <2> QED BY <2>2, <2>3, SecretsUntouched
<1>3. ASSUME NEW b \in Biometrics, NEW t \in Tickets, BeginBiometric(b, t) PROVE FactorInv'
  <2>1. TakeChallenge(t)
    BY <1>3, Zenon DEF BeginBiometric
  <2>2. /\ biometric' = [biometric EXCEPT ![b] = [at |-> "verify", ticket |-> t]]
        /\ biometric[b].at = "new" /\ ticket[t].challenge
        /\ UNCHANGED sessionsOf /\ UnchangedButLogin
    BY <1>3, Zenon DEF BeginBiometric
  <2>3. /\ ticket' \in [Tickets -> TicketRecords]
        /\ ticket'[t].issued = ticket[t].issued /\ ~ ticket'[t].challenge
        /\ \A u \in Tickets : u # t => ticket'[u] = ticket[u]
    BY <2>1, ChallengeTaken DEF FactorInv
  <2> QED BY <2>2, <2>3, SecretsUntouched
<1>4. ASSUME NEW b \in Biometrics, VerifyAssertion(b) PROVE FactorInv'
  <2>1. [biometric[b] EXCEPT !.at = "finish"] = [at |-> "finish", ticket |-> biometric[b].ticket]
    OBVIOUS
  <2>2. biometric' = [biometric EXCEPT ![b] =
          IF passkeys # {} THEN [biometric[b] EXCEPT !.at = "finish"] ELSE BiometricOver]
    BY <1>4, Zenon DEF VerifyAssertion
  <2> DEFINE finishing == [at |-> "finish", ticket |-> biometric[b].ticket]
  <2>3. \/ biometric' = [biometric EXCEPT ![b] = finishing]
        \/ biometric' = [biometric EXCEPT ![b] = BiometricOver]
    BY <2>1, <2>2, Zenon
  <2>4. biometric[b].at = "verify" /\ UNCHANGED <<ticket, sessionsOf>> /\ UnchangedButLogin
    BY <1>4, Zenon DEF VerifyAssertion
  <2>5. CASE biometric' = [biometric EXCEPT ![b] = finishing]
    <3>1. biometric[b].ticket \in Tickets
      BY <2>4
    <3>2. biometric' \in [Biometrics -> BiometricRecords]
      BY <2>5, <3>1
    <3>3. \A c \in Biometrics, u \in Tickets : Verifies(c, u)' <=> Verifies(c, u)
      BY <2>4, <2>5
    <3>4. TicketSpentOnce'
      BY <2>4, <2>5, <3>1, <3>3
    <3> QED BY <2>4, <3>2, <3>4, SecretsUntouched
  <2>6. CASE biometric' = [biometric EXCEPT ![b] = BiometricOver]
    BY <2>4, <2>6, SecretsUntouched DEF BiometricOver
  <2> QED BY <2>3, <2>5, <2>6
<1>5. ASSUME NEW b \in Biometrics, FinishBiometric(b) PROVE FactorInv'
  <2> DEFINE t == biometric[b].ticket
  <2>1. biometric[b].at = "finish" /\ biometric' = [biometric EXCEPT ![b] = BiometricOver]
    BY <1>5 DEF FinishBiometric
  <2>2. UnchangedButLogin
    BY <1>5 DEF FinishBiometric
  <2>3. CASE UNCHANGED <<ticket, sessionsOf>>
    BY <2>1, <2>2, <2>3, SecretsUntouched DEF BiometricOver
  <2>4. CASE /\ ticket' = [ticket EXCEPT ![t].open = FALSE]
             /\ sessionsOf' = [sessionsOf EXCEPT ![t] = @ + 1]
    <3>1. t \in Tickets
      BY <2>1
    <3>2. /\ ticket' \in [Tickets -> TicketRecords]
          /\ \A u \in Tickets :
               ticket'[u].issued = ticket[u].issued /\ ticket'[u].challenge = ticket[u].challenge
      BY <2>4, <3>1, TicketClosed DEF FactorInv
    <3>3. sessionsOf' = [sessionsOf EXCEPT ![t] = @ + 1]
      BY <2>4
    <3> QED BY <2>1, <2>2, <3>1, <3>2, <3>3, SecretsUntouched DEF BiometricOver
  <2> QED BY <1>5, <2>3, <2>4 DEF FinishBiometric
<1> QED BY <1>1, <1>2, <1>3, <1>4, <1>5

LEMMA RebootKept == ASSUME FactorInv, Reboot PROVE FactorInv'
<1>1. ticket' = [t \in Tickets |-> [ticket[t] EXCEPT !.open = FALSE, !.challenge = FALSE]]
  BY Zenon DEF Reboot
<1>2. /\ ticket' \in [Tickets -> TicketRecords]
      /\ \A t \in Tickets : ticket'[t].issued = ticket[t].issued /\ ~ ticket'[t].challenge
  BY <1>1, TicketForgotten, Zenon DEF FactorInv, FactorTypes
<1>3. /\ enable' = [e \in Enables |->
           IF enable[e].at = "new" THEN enable[e] ELSE NotEnabling]
      /\ biometric' = [b \in Biometrics |->
           IF biometric[b].at = "new" THEN biometric[b] ELSE BiometricOver]
      /\ UNCHANGED <<secret, pending, proved, sessionsOf>>
  BY Zenon DEF Reboot, factorRows, totpRow, factorHistory
<1>4. FactorTypes' /\ StoresProved' /\ ActiveSecretProved'
  <2>1. NotEnabling \in EnableRecords /\ NotEnabling.at = "over"
    BY DEF NotEnabling, EnableRecords
  <2>2. enable' \in [Enables -> EnableRecords]
    BY <1>3, <2>1 DEF FactorInv, FactorTypes
  <2>3. biometric' \in [Biometrics -> BiometricRecords]
    BY <1>3 DEF FactorInv, FactorTypes, BiometricRecords, BiometricOver
  <2> QED
    BY <1>2, <1>3, <2>1, <2>2, <2>3
    DEF FactorInv, FactorTypes, StoresProved, ActiveSecretProved, HasTotp
<1>5. TicketSpentOnce' /\ OneSessionPerTicket'
  BY <1>2, <1>3
  DEF FactorInv, FactorTypes, TicketRecords, EnableRecords, BiometricRecords,
      TicketSpentOnce, Verifies, OneSessionPerTicket, BiometricOver
<1> QED BY <1>4, <1>5 DEF FactorInv

LEMMA FactorStepKept == FactorInv /\ [FactorStep]_factorVars => FactorInv'
<1> SUFFICES ASSUME FactorInv, [FactorStep]_factorVars PROVE FactorInv'
  OBVIOUS
<1>1. CASE UNCHANGED factorVars
  BY <1>1, LoginUntouched
  DEF factorVars, factorRows, totpRow, factorJobs, factorHistory, FactorInv, FactorTypes, StoresProved,
      ActiveSecretProved, HasTotp
<1> QED
  BY <1>1, AuthenticatorStepKept, DeviceStepKept, LoginStepKept, RebootKept DEF FactorStep

\* The active secret is one of which a code was verified, whatever set-ups overlap the
\* enabling.  (security.ts: /2fa/setup, /2fa/enable.)
THEOREM OnlyProvedActive == FactorSpec => []ActiveSecretProved
<1>1. FactorInv => ActiveSecretProved
  BY DEF FactorInv
<1> QED BY <1>1, InitFactorInv, FactorStepKept, PTL DEF FactorSpec

\* A ticket lets one sign-in through, though the sign-in that ends it does not ask
\* whether another one has: its challenge is taken by one.  (webauthn.ts: takeChallenge;
\* auth.ts: /login/biometric.)
THEOREM TicketSignsInOnce == FactorSpec => []OneSessionPerTicket
<1>1. FactorInv => OneSessionPerTicket
  BY DEF FactorInv
<1> QED BY <1>1, InitFactorInv, FactorStepKept, PTL DEF FactorSpec

-----------------------------------------------------------------------------
(***************************************************************************)
(* Sessions                                                                *)
(***************************************************************************)
SessionTypes ==
  /\ version \in Nat /\ writes \in Nat
  /\ token \in [Holders -> [at : {"none", "read", "issued", "ended"}, sv : Nat, seen : Nat]]
  /\ writer \in [Writers ->
       [at : {"new", "hashing", "written", "done", "lost"}, write : Nat]]

\* Versions and passwords are counted up.
CountedUp ==
  /\ \A h \in Holders : token[h].sv <= version
  /\ \A w \in Writers : writer[w].write <= writes

\* A token of the present version, also one that is still to be handed out, was made
\* from a row with every password whose request has ended.
PresentSeen ==
  \A w \in Writers, h \in Holders :
    /\ writer[w].at = "done"
    /\ token[h].at \in {"read", "issued"} /\ token[h].sv = version
    => writer[w].write <= token[h].seen

SessionInv == SessionTypes /\ CountedUp /\ PresentSeen

LEMMA InitSessionInv == InitSessions => SessionInv
  BY DEF InitSessions, NoToken, SessionInv, SessionTypes, CountedUp, PresentSeen

LEMMA SessionStepKept == SessionInv /\ [SessionsStep]_sessionVars => SessionInv'
<1> SUFFICES ASSUME SessionInv, [SessionsStep]_sessionVars PROVE SessionInv'
  OBVIOUS
<1>1. ASSUME NEW s \in SignIns, ReadUser(s) \/ IssueSession(s) PROVE SessionInv'
  <2>1. s \in Holders
    BY DEF Holders
  <2>2. CASE ReadUser(s)
    BY <2>1, <2>2 DEF ReadUser, SessionInv, SessionTypes, CountedUp, PresentSeen
  <2>3. CASE IssueSession(s)
    BY <2>1, <2>3 DEF IssueSession, SessionInv, SessionTypes, CountedUp, PresentSeen
  <2> QED BY <1>1, <2>2, <2>3
<1>2. ASSUME NEW h \in Holders, EndSession(h) PROVE SessionInv'
  <2>1. [NoToken EXCEPT !.at = "ended"] = [at |-> "ended", sv |-> 0, seen |-> 0]
    BY DEF NoToken
  <2>2. /\ token' = [token EXCEPT ![h] = [at |-> "ended", sv |-> 0, seen |-> 0]]
        /\ UNCHANGED <<version, writes, writer>>
    BY <1>2, <2>1 DEF EndSession
  <2> QED BY <2>2 DEF SessionInv, SessionTypes, CountedUp, PresentSeen
<1>3. CASE IssueResetToken \/ ResetTokenExpires
  BY <1>3
  DEF IssueResetToken, ResetTokenExpires, SessionInv, SessionTypes, CountedUp, PresentSeen
<1>4. ASSUME NEW w \in Writers, BeginWrite(w) PROVE SessionInv'
  BY <1>4 DEF BeginWrite, SessionInv, SessionTypes, CountedUp, PresentSeen
<1>5. ASSUME NEW w \in Writers, WritePassword(w) PROVE SessionInv'
  BY <1>5 DEF WritePassword, SessionInv, SessionTypes, CountedUp, PresentSeen
<1>6. ASSUME NEW w \in Writers, EndAllSessions(w) PROVE SessionInv'
  <2>1. /\ version' = version + 1 /\ UNCHANGED writes
        /\ writer' = [writer EXCEPT ![w].at = "done"]
    BY <1>6 DEF EndAllSessions, NextVersion
  <2>2. CASE w \in Changes
    <3>1. token' = [token EXCEPT ![w] = [at |-> "issued", sv |-> version + 1, seen |-> writes]]
      BY <1>6, <2>2 DEF EndAllSessions, NextVersion
    <3>2. w \in Holders
      BY <2>2 DEF Holders
    <3> QED BY <2>1, <3>1, <3>2 DEF SessionInv, SessionTypes, CountedUp, PresentSeen
  <2>3. CASE w \notin Changes
    <3>1. UNCHANGED token
      BY <1>6, <2>3 DEF EndAllSessions
    <3> QED BY <2>1, <3>1 DEF SessionInv, SessionTypes, CountedUp, PresentSeen
  <2> QED BY <2>2, <2>3
<1>7. CASE StopSessions
  <2>1. [NoToken EXCEPT !.at = "ended"] = [at |-> "ended", sv |-> 0, seen |-> 0]
    BY DEF NoToken
  <2>2. token' = [h \in Holders |->
          IF token[h].at = "read" THEN [at |-> "ended", sv |-> 0, seen |-> 0] ELSE token[h]]
    BY <1>7, <2>1 DEF StopSessions
  <2>3. \A w \in Writers :
          [writer[w] EXCEPT !.at = "lost"] = [at |-> "lost", write |-> writer[w].write]
    BY DEF SessionInv, SessionTypes
  <2>4. writer' = [w \in Writers |->
          IF writer[w].at \in {"hashing", "written"}
            THEN [at |-> "lost", write |-> writer[w].write] ELSE writer[w]]
    BY <1>7, <2>3 DEF StopSessions
  <2>5. UNCHANGED <<version, writes>>
    BY <1>7, Zenon DEF StopSessions
  <2> QED
    BY <2>2, <2>4, <2>5 DEF SessionInv, SessionTypes, CountedUp, PresentSeen
<1>8. CASE UNCHANGED sessionVars
  BY <1>8 DEF sessionVars, SessionInv, SessionTypes, CountedUp, PresentSeen
<1> QED
  BY <1>1, <1>2, <1>3, <1>4, <1>5, <1>6, <1>7, <1>8
  DEF SessionsStep, BeginReset, BeginChange, Writers

\* Once a request that set a password has ended, no token is accepted that was made
\* from a row without that password, however resets, changes and sign-ins overlap and
\* restarts cut them off.  (auth.ts, security.ts: endAllSessions; requireAuth.)
THEOREM PasswordEndsSessions == SessionsSpec => []OlderSessionsEnded
<1>1. InitSessions => SessionInv
  BY InitSessionInv
<1>2. SessionInv /\ [SessionsStep]_sessionVars => SessionInv'
  BY SessionStepKept
<1>3. SessionInv => OlderSessionsEnded
  BY DEF SessionInv, PresentSeen, OlderSessionsEnded, Accepted
<1> QED BY <1>1, <1>2, <1>3, PTL DEF SessionsSpec

-----------------------------------------------------------------------------
(***************************************************************************)
(* Passports                                                               *)
(***************************************************************************)
PassportTypes ==
  payment \in [Payments ->
    [at : {"new", "pay", "read", "issue", "lift", "over"}, kind : Kinds \cup {"none"}]]

\* While nobody has undone a revocation, whoever may still lift a suspension had read it
\* before.
LiftersOvertaken ==
  revoked /\ undone = {} => \A p \in Payments : payment[p].at = "lift" => p \in overtaken

PassportInv == PassportTypes /\ LiftersOvertaken /\ OnlyOvertakenReinstate

\* Where a step of a payment takes it.
LEMMA PaymentGoes ==
  ASSUME PassportTypes, NEW p \in Payments,
         NEW from \in {"pay", "read", "issue", "lift"},
         NEW to \in {"read", "issue", "lift", "over"},
         PaymentTo(p, from, to)
  PROVE  /\ PassportTypes'
         /\ payment[p].at = from
         /\ \A q \in Payments : payment'[q].at = IF q = p THEN to ELSE payment[q].at
<1>1. CASE to = "over"
  <2>1. payment' = [payment EXCEPT ![p] = PaymentOver] /\ payment[p].at = from
    BY <1>1 DEF PaymentTo
  <2> QED BY <1>1, <2>1 DEF PassportTypes, PaymentOver
<1>2. CASE to # "over"
  <2>1. [payment[p] EXCEPT !.at = to] = [at |-> to, kind |-> payment[p].kind]
    BY DEF PassportTypes
  <2>2. payment' = [payment EXCEPT ![p] = [payment[p] EXCEPT !.at = to]] /\ payment[p].at = from
    BY <1>2, Zenon DEF PaymentTo
  <2>3. payment' = [payment EXCEPT ![p] = [at |-> to, kind |-> payment[p].kind]]
    BY <2>1, <2>2, Zenon
  <2> QED BY <2>2, <2>3 DEF PassportTypes
<1> QED BY <1>1, <1>2

LEMMA InitPassportInv == InitPassports => PassportInv
  BY DEF InitPassports, NotPaying, PassportInv, PassportTypes, LiftersOvertaken,
         OnlyOvertakenReinstate

LEMMA PaymentStepKept ==
  ASSUME PassportInv, NEW p \in Payments,
         \/ \E kind \in Kinds : Approve(p, kind)
         \/ StartedOrRefused(p) \/ ReadPassport(p) \/ IssuePassport(p) \/ LiftSuspension(p)
  PROVE  PassportInv'
<1>1. ASSUME NEW kind \in Kinds, Approve(p, kind) PROVE PassportInv'
  BY <1>1
  DEF Approve, UnchangedByPayment, PassportInv, PassportTypes, LiftersOvertaken,
      OnlyOvertakenReinstate
<1>2. CASE StartedOrRefused(p)
  <2>1. PICK to \in {"over", "read"} : PaymentTo(p, "pay", to)
    BY <1>2, Zenon DEF StartedOrRefused
  <2>2. UNCHANGED <<passport, revoked, overtaken, undone>>
    BY <1>2 DEF StartedOrRefused, UnchangedByPayment
  <2>3. /\ PassportTypes'
        /\ \A q \in Payments : payment'[q].at = IF q = p THEN to ELSE payment[q].at
    BY <2>1, PaymentGoes DEF PassportInv
  <2> QED BY <2>2, <2>3 DEF PassportInv, LiftersOvertaken, OnlyOvertakenReinstate
<1>3. CASE ReadPassport(p)
  <2>1. PICK to \in {"issue", "lift", "over"} :
          PaymentTo(p, "read", to) /\ (to = "lift" => passport = "suspended")
    BY <1>3, Zenon DEF ReadPassport
  <2>2. UNCHANGED <<passport, revoked, overtaken, undone>>
    BY <1>3 DEF ReadPassport, UnchangedByPayment
  <2>3. /\ PassportTypes'
        /\ \A q \in Payments : payment'[q].at = IF q = p THEN to ELSE payment[q].at
    BY <2>1, PaymentGoes DEF PassportInv
  <2> QED BY <2>1, <2>2, <2>3 DEF PassportInv, LiftersOvertaken, OnlyOvertakenReinstate
<1>4. CASE IssuePassport(p)
  <2>1. /\ PaymentTo(p, "issue", "over")
        /\ passport' = IF passport = "none" THEN "active" ELSE passport
        /\ UNCHANGED <<revoked, overtaken, undone>>
    BY <1>4, Zenon DEF IssuePassport, UnchangedByPayment
  <2>2. /\ PassportTypes'
        /\ \A q \in Payments : payment'[q].at = IF q = p THEN "over" ELSE payment[q].at
    BY <2>1, PaymentGoes DEF PassportInv
  <2> QED BY <2>1, <2>2 DEF PassportInv, LiftersOvertaken, OnlyOvertakenReinstate
<1>5. CASE LiftSuspension(p)
  <2>1. /\ PaymentTo(p, "lift", "over")
        /\ undone' = IF p \in overtaken THEN undone \cup {p} ELSE undone
        /\ UNCHANGED <<revoked, overtaken>>
    BY <1>5, Zenon DEF LiftSuspension, UnchangedByPayment
  <2>2. /\ PassportTypes' /\ payment[p].at = "lift"
        /\ \A q \in Payments : payment'[q].at = IF q = p THEN "over" ELSE payment[q].at
    BY <2>1, PaymentGoes DEF PassportInv
  <2>3. ~ (revoked' /\ undone' = {})
    BY <2>1, <2>2 DEF PassportInv, LiftersOvertaken
  <2> QED BY <2>2, <2>3 DEF PassportInv, LiftersOvertaken, OnlyOvertakenReinstate
<1> QED BY <1>1, <1>2, <1>3, <1>4, <1>5

LEMMA PassportStepKept == PassportInv /\ [PassportsStep]_passportVars => PassportInv'
<1> SUFFICES ASSUME PassportInv, [PassportsStep]_passportVars PROVE PassportInv'
  OBVIOUS
<1>1. ASSUME NEW r \in Revocations, BeginRevocation(r) \/ Revoke(r) PROVE PassportInv'
  BY <1>1
  DEF BeginRevocation, Revoke, Lifting, PassportInv, PassportTypes, LiftersOvertaken,
      OnlyOvertakenReinstate
<1>2. ASSUME NEW f \in FirstPasswords, BeginFirst(f) \/ WriteFirst(f) PROVE PassportInv'
  BY <1>2
  DEF BeginFirst, WriteFirst, UnchangedByPassword, PassportInv, PassportTypes,
      LiftersOvertaken, OnlyOvertakenReinstate
<1>3. ASSUME NEW c \in PasswordChanges, WriteNewPassword(c) \/ SuspendPassport(c)
      PROVE  PassportInv'
  BY <1>3
  DEF WriteNewPassword, SuspendPassport, MaySuspend, UnchangedByPassword, PassportInv,
      PassportTypes, LiftersOvertaken, OnlyOvertakenReinstate
<1>4. CASE PassportHalt
  BY <1>4
  DEF PassportHalt, NotPaying, PaymentOver, PassportInv, PassportTypes, LiftersOvertaken,
      OnlyOvertakenReinstate
<1>5. CASE UNCHANGED passportVars
  BY <1>5
  DEF passportVars, passportJobs, PassportInv, PassportTypes, LiftersOvertaken,
      OnlyOvertakenReinstate
<1> QED BY <1>1, <1>2, <1>3, <1>4, <1>5, PaymentStepKept DEF PassportsStep

\* Only a payment that was about to lift a suspension when the passport was revoked
\* reinstates it: none that reads the row later does, and no change of the password
\* makes way for one, however they overlap.  (subscriptions.ts: DELETE /passport and
\* the update behind ensurePassport; security.ts.)
THEOREM RevocationStands == PassportsSpec => []OnlyOvertakenReinstate
<1>1. InitPassports => PassportInv
  BY InitPassportInv
<1>2. PassportInv /\ [PassportsStep]_passportVars => PassportInv'
  BY PassportStepKept
<1>3. PassportInv => OnlyOvertakenReinstate
  BY DEF PassportInv
<1> QED BY <1>1, <1>2, <1>3, PTL DEF PassportsSpec

-----------------------------------------------------------------------------
(***************************************************************************)
(* Types                                                                   *)
(***************************************************************************)

LEMMA IssueStepTyped ==
  ASSUME OtpTypeOK, NEW c \in OtpCodes, NEW from, NEW to \in {"insert", "record", "over"},
         IssueStep(c, from, to)
  PROVE  issue' \in [OtpCodes ->
           [at : {"new", "void", "insert", "record", "over"}, recent : Nat]]
  BY DEF OtpTypeOK, IssueStep, IssueOver

LEMMA ConfirmStepTyped ==
  ASSUME OtpTypeOK, NEW v \in Confirms, NEW from,
         NEW to \in {"factor", "lock", "consume", "over"}, ConfirmStep(v, from, to)
  PROVE  confirm' \in [Confirms ->
           [at : {"new", "right", "wrong", "lock", "factor", "consume", "over"},
            code : OtpCodes \cup {Nothing}]]
  BY SMTT(20) DEF OtpTypeOK, ConfirmStep, ConfirmOver

LEMMA OtpTypesKept == OtpTypeOK /\ [OtpStep]_otpVars => OtpTypeOK'
<1> SUFFICES ASSUME OtpTypeOK, [OtpStep]_otpVars PROVE OtpTypeOK'
  OBVIOUS
<1> USE DEF memory, history
<1>1. ASSUME NEW c \in OtpCodes, BeginIssue(c) \/ ExpireOtp(c) PROVE OtpTypeOK'
  <2>1. CASE BeginIssue(c)
    BY <2>1, SMTT(20) DEF BeginIssue, OtpTypeOK
  <2>2. CASE ExpireOtp(c)
    BY <2>2 DEF ExpireOtp, OtpTypeOK, Unspent
  <2> QED BY <1>1, <2>1, <2>2
<1>2. ASSUME NEW c \in OtpCodes, VoidEarlier(c) PROVE OtpTypeOK'
  <2>1. IssueStep(c, "void", "insert")
    BY <1>2 DEF VoidEarlier
  <2> QED BY <1>2, <2>1, IssueStepTyped DEF VoidEarlier, VoidCodes, OtpTypeOK, Unspent
<1>3. ASSUME NEW c \in OtpCodes, InsertOtp(c) PROVE OtpTypeOK'
  <2>1. IssueStep(c, "insert", "record")
    BY <1>3 DEF InsertOtp
  <2> QED BY <1>3, <2>1, IssueStepTyped DEF InsertOtp, OtpTypeOK, Unspent
<1>4. ASSUME NEW c \in OtpCodes, RecordIssue(c) PROVE OtpTypeOK'
  <2>1. IssueStep(c, "record", "over")
    BY <1>4 DEF RecordIssue
  <2> QED BY <1>4, <2>1, IssueStepTyped DEF RecordIssue, OtpTypeOK
<1>5. ASSUME NEW v \in Confirms, NEW code \in Presents[v], FindOtp(v, code) PROVE OtpTypeOK'
  BY <1>5 DEF FindOtp, OtpTypeOK
<1>6. ASSUME NEW v \in Confirms, RightCode(v) PROVE OtpTypeOK'
  <2>1. ConfirmStep(v, "right", "factor")
    BY <1>6 DEF RightCode
  <2> QED BY <1>6, <2>1, ConfirmStepTyped DEF RightCode, NeverIssued, OtpTypeOK
<1>7. ASSUME NEW v \in Confirms, WrongCode(v) PROVE OtpTypeOK'
  <2>1. PICK to \in {"lock", "over"} : ConfirmStep(v, "wrong", to)
    BY <1>7 DEF WrongCode
  <2> QED BY <1>7, <2>1, ConfirmStepTyped DEF WrongCode, OtpTypeOK
<1>8. ASSUME NEW v \in Confirms, LockOut(v) PROVE OtpTypeOK'
  <2>1. ConfirmStep(v, "lock", "over")
    BY <1>8 DEF LockOut
  <2> QED BY <1>8, <2>1, ConfirmStepTyped DEF LockOut, VoidCodes, OtpTypeOK, Unspent
<1>9. ASSUME NEW v \in Confirms, PassFactor(v) PROVE OtpTypeOK'
  <2>1. ConfirmStep(v, "factor", "consume")
    BY <1>9 DEF PassFactor
  <2> QED BY <1>9, <2>1, ConfirmStepTyped DEF PassFactor, OtpTypeOK
<1>10. ASSUME NEW v \in Confirms, FailFactor(v) PROVE OtpTypeOK'
  <2>1. ConfirmStep(v, "factor", "over")
    BY <1>10 DEF FailFactor
  <2> QED BY <1>10, <2>1, ConfirmStepTyped DEF FailFactor, OtpTypeOK
<1>11. ASSUME NEW v \in Confirms, ConsumeOtp(v) PROVE OtpTypeOK'
  <2>1. ConfirmStep(v, "consume", "over")
    BY <1>11 DEF ConsumeOtp
  <2>2. otp' \in [OtpCodes -> Unspent \cup {"none", "used", "deleted"}]
    BY <1>11 DEF ConsumeOtp, OtpTypeOK
  <2> QED BY <1>11, <2>1, <2>2, ConfirmStepTyped DEF ConsumeOtp, OtpTypeOK
<1>12. CASE RunCleanup
  BY <1>12 DEF RunCleanup, OtpTypeOK
<1>13. CASE IssueAges
  <2>1. issued' \in [n : Nat, fresh : BOOLEAN]
    <3>1. issued.n \in Nat /\ issued.fresh \in BOOLEAN /\ issued.n > 0
      BY <1>13 DEF IssueAges, OtpTypeOK
    <3>2. issued = [n |-> issued.n, fresh |-> issued.fresh]
      BY DEF OtpTypeOK
    <3>3. \/ issued' = [n |-> issued.n, fresh |-> FALSE]
          \/ issued' = [n |-> issued.n - 1, fresh |-> issued.fresh]
      BY <1>13, <3>2 DEF IssueAges
    <3>4. issued.n - 1 \in Nat
      BY <3>1
    <3>5. CASE issued' = [n |-> issued.n, fresh |-> FALSE]
      BY <3>1, <3>5
    <3>6. CASE issued' = [n |-> issued.n - 1, fresh |-> issued.fresh]
      BY <3>1, <3>4, <3>6
    <3> QED BY <3>3, <3>5, <3>6
  <2> QED BY <1>13, <2>1 DEF IssueAges, OtpTypeOK
<1>14. CASE OtpRestart
  BY <1>14, OneTimeCodesAssumption
  DEF OtpRestart, OtpTypeOK, NeverIssued, IssueOver, ConfirmOver
<1>15. CASE UNCHANGED otpVars
  BY <1>15 DEF otpVars, OtpTypeOK
<1> QED
  BY <1>1, <1>2, <1>3, <1>4, <1>5, <1>6, <1>7, <1>8, <1>9, <1>10, <1>11, <1>12, <1>13, <1>14,
     <1>15
  DEF OtpStep

LEMMA SessionTypesKept == SessionsTypeOK /\ [SessionsStep]_sessionVars => SessionsTypeOK'
<1> SUFFICES ASSUME SessionsTypeOK, [SessionsStep]_sessionVars PROVE SessionsTypeOK'
  OBVIOUS
<1>1. ASSUME NEW s \in SignIns, ReadUser(s) \/ IssueSession(s) PROVE SessionsTypeOK'
  BY <1>1 DEF ReadUser, IssueSession, SessionsTypeOK
<1>2. ASSUME NEW h \in Holders, EndSession(h) PROVE SessionsTypeOK'
  BY <1>2 DEF EndSession, NoToken, SessionsTypeOK
<1>3. CASE IssueResetToken \/ ResetTokenExpires
  BY <1>3 DEF IssueResetToken, ResetTokenExpires, SessionsTypeOK
<1>4. ASSUME NEW w, BeginReset(w) \/ BeginChange(w) PROVE SessionsTypeOK'
  BY <1>4 DEF BeginReset, BeginChange, BeginWrite, SessionsTypeOK
<1>5. ASSUME NEW w \in Writers, WritePassword(w) PROVE SessionsTypeOK'
  <2>1. writes \in Nat /\ writes + 1 \in Nat
    BY DEF SessionsTypeOK
  <2>2. resetToken' \in BOOLEAN
    BY <1>5, Zenon DEF WritePassword, SessionsTypeOK
  <2>3. writer' \in [Writers ->
          [at : {"new", "hashing", "written", "done", "lost"}, write : Nat]]
    BY <1>5, <2>1 DEF WritePassword, SessionsTypeOK
  <2> QED BY <1>5, <2>1, <2>2, <2>3 DEF WritePassword, SessionsTypeOK
<1>6. ASSUME NEW w \in Writers, EndAllSessions(w) PROVE SessionsTypeOK'
  <2>1. version' \in Nat /\ writes \in Nat
    BY <1>6 DEF EndAllSessions, NextVersion, SessionsTypeOK
  <2>2. token' \in [Holders -> [at : {"none", "read", "issued", "ended"}, sv : Nat, seen : Nat]]
    BY <1>6, <2>1 DEF EndAllSessions, SessionsTypeOK
  <2>3. writer' \in [Writers ->
          [at : {"new", "hashing", "written", "done", "lost"}, write : Nat]]
    BY <1>6 DEF EndAllSessions, SessionsTypeOK
  <2> QED BY <1>6, <2>1, <2>2, <2>3 DEF EndAllSessions, SessionsTypeOK
<1>7. CASE StopSessions
  BY <1>7 DEF StopSessions, NoToken, SessionsTypeOK
<1>8. CASE UNCHANGED sessionVars
  BY <1>8 DEF sessionVars, SessionsTypeOK
<1> QED BY <1>1, <1>2, <1>3, <1>4, <1>5, <1>6, <1>7, <1>8 DEF SessionsStep

\* What is about to be stored or claimed is a code of a secret.
CodesHeld ==
  /\ \A e \in Enables :
       enable[e].at = "store" => enable[e].secret \in Setups /\ enable[e].step \in TimeSteps
  /\ \A t \in TotpChecks \cup Disables :
       totpCheck[t].at = "claim" =>
         totpCheck[t].secret \in Setups /\ totpCheck[t].step \in TimeSteps

CheckRecords == [at : {"new", "claim", "passed", "over"}, secret : Setups \cup {Missing},
                 step : TimeSteps \cup {0}]

LEMMA CodeStepTyped ==
  ASSUME FactorTypeOK, CodesHeld,
         \/ \E e \in Enables : StoreEnable(e) \/ \E step \in TimeSteps : BeginEnable(e, step)
         \/ \E t \in TotpChecks \cup Disables :
              ClaimStep(t) \/ \E step \in TimeSteps : VerifyTotp(t, step)
  PROVE  FactorTypeOK' /\ CodesHeld'
<1> USE DEF factorRows, totpRow, factorJobs, loginJobs, factorHistory, UnchangedButCheck
<1>1. /\ enable \in [Enables -> EnableRecords]
      /\ totpCheck \in [TotpChecks \cup Disables -> CheckRecords]
      /\ secret \in Setups \cup {Missing} /\ pending \in Setups \cup {Missing}
      /\ lastStep \in TimeSteps \cup {0} /\ proved \subseteq Setups /\ era \in Nat
      /\ claims \subseteq [by : Enables \cup TotpChecks \cup Disables, secret : Setups,
                           step : TimeSteps, era : Nat]
  BY DEF FactorTypeOK, EnableRecords, CheckRecords
<1>2. ASSUME NEW e \in Enables, NEW step \in TimeSteps, BeginEnable(e, step)
      PROVE  FactorTypeOK' /\ CodesHeld'
  <2>1. pending \in Setups
    BY <1>1, <1>2 DEF BeginEnable
  <2>2. enable' = [enable EXCEPT ![e] = [at |-> "store", secret |-> pending, step |-> step]]
    BY <1>2 DEF BeginEnable
  <2>3. enable' \in [Enables -> EnableRecords]
    BY <1>1, <2>1, <2>2 DEF EnableRecords
  <2>4. CodesHeld'
    BY <1>1, <1>2, <2>1, <2>2 DEF BeginEnable, CodesHeld
  <2> QED BY <1>1, <1>2, <2>1, <2>3, <2>4 DEF BeginEnable, FactorTypeOK, EnableRecords
<1>3. ASSUME NEW e \in Enables, StoreEnable(e) PROVE FactorTypeOK' /\ CodesHeld'
  <2> DEFINE claim == Claim(e, enable[e].secret, enable[e].step, era + 1)
  <2>1. enable[e].secret \in Setups /\ enable[e].step \in TimeSteps
    BY <1>3 DEF StoreEnable, CodesHeld
  <2>2. enable' = [enable EXCEPT ![e] = NotEnabling]
    BY <1>3 DEF StoreEnable
  <2>3. enable' \in [Enables -> EnableRecords]
    BY <1>1, <2>2 DEF EnableRecords, NotEnabling
  <2>4. CodesHeld'
    BY <1>1, <1>3, <2>2 DEF StoreEnable, CodesHeld, NotEnabling
  <2>5. claim \in [by : Enables \cup TotpChecks \cup Disables, secret : Setups,
                   step : TimeSteps, era : Nat]
    BY <1>1, <2>1 DEF Claim
  <2>6. claims' = claims \cup {claim}
    BY <1>3 DEF StoreEnable
  <2>7. claims' \subseteq [by : Enables \cup TotpChecks \cup Disables, secret : Setups,
                          step : TimeSteps, era : Nat]
    <3> HIDE DEF claim
    <3> QED BY <1>1, <2>5, <2>6
  <2>8. /\ secret' = enable[e].secret /\ lastStep' = enable[e].step /\ pending' = Missing
        /\ era' = era + 1
    BY <1>3 DEF StoreEnable, Verified
  <2>9. era' \in Nat
    BY <1>1, <2>8
  <2> QED BY <1>3, <2>1, <2>3, <2>4, <2>7, <2>8, <2>9
          DEF StoreEnable, FactorTypeOK, EnableRecords
<1>4. ASSUME NEW t \in TotpChecks \cup Disables, NEW step \in TimeSteps, VerifyTotp(t, step)
      PROVE  FactorTypeOK' /\ CodesHeld'
  <2>1. secret \in Setups
    BY <1>1, <1>4 DEF VerifyTotp, HasTotp
  <2>2. totpCheck' = [totpCheck EXCEPT ![t] = [at |-> "claim", secret |-> secret, step |-> step]]
    BY <1>4 DEF VerifyTotp
  <2>3. totpCheck' \in [TotpChecks \cup Disables -> CheckRecords]
    BY <1>1, <2>1, <2>2 DEF CheckRecords
  <2>4. CodesHeld'
    BY <1>1, <1>4, <2>1, <2>2 DEF VerifyTotp, CodesHeld
  <2> QED BY <1>4, <2>3, <2>4 DEF VerifyTotp, FactorTypeOK, CheckRecords
<1>5. ASSUME NEW t \in TotpChecks \cup Disables, ClaimStep(t)
      PROVE  FactorTypeOK' /\ CodesHeld'
  <2> DEFINE claim == Claim(t, totpCheck[t].secret, totpCheck[t].step, era)
             next == [CheckOver EXCEPT !.at = "passed"]
  <2>1. totpCheck[t].secret \in Setups /\ totpCheck[t].step \in TimeSteps
    BY <1>5 DEF ClaimStep, CodesHeld
  <2>2. claim \in [by : Enables \cup TotpChecks \cup Disables, secret : Setups,
                   step : TimeSteps, era : Nat]
    BY <1>1, <2>1 DEF Claim
  <2>3. next = [at |-> "passed", secret |-> Missing, step |-> 0]
    BY DEF CheckOver
  <2>4. /\ lastStep' \in {lastStep, totpCheck[t].step}
        /\ claims' \in {claims, claims \cup {claim}}
        /\ \/ totpCheck' = [totpCheck EXCEPT ![t] = next]
           \/ totpCheck' = [totpCheck EXCEPT ![t] = CheckOver]
    BY <1>5 DEF ClaimStep
  <2> HIDE DEF next, claim
  <2>5. /\ totpCheck' \in [TotpChecks \cup Disables -> CheckRecords]
        /\ totpCheck'[t].at # "claim"
        /\ \A u \in TotpChecks \cup Disables : u # t => totpCheck'[u] = totpCheck[u]
    BY <1>1, <2>3, <2>4 DEF CheckRecords, CheckOver
  <2>6. CodesHeld'
    BY <1>5, <2>5 DEF ClaimStep, CodesHeld
  <2> QED BY <1>1, <1>5, <2>1, <2>2, <2>4, <2>5, <2>6 DEF ClaimStep, FactorTypeOK, CheckRecords
<1> QED BY <1>2, <1>3, <1>4, <1>5

LEMMA FactorTypesKept ==
  FactorTypeOK /\ CodesHeld /\ [FactorStep]_factorVars => FactorTypeOK' /\ CodesHeld'
<1> SUFFICES ASSUME FactorTypeOK, CodesHeld, [FactorStep]_factorVars
             PROVE  FactorTypeOK' /\ CodesHeld'
  OBVIOUS
<1> USE DEF factorRows, totpRow, factorJobs, loginJobs, factorHistory, UnchangedButLogin
<1>1. ASSUME NEW s \in Setups, BeginSetup(s) \/ StoreSetup(s) PROVE FactorTypeOK' /\ CodesHeld'
  BY <1>1 DEF BeginSetup, StoreSetup, FactorTypeOK, CodesHeld
<1>2. ASSUME NEW d \in Disables, BeginDisable(d) \/ ClearTotp(d) \/ DeletePasskeys(d)
      PROVE FactorTypeOK' /\ CodesHeld'
  <2>1. CASE BeginDisable(d)
    <3>1. totpCheck' = [totpCheck EXCEPT ![d] = CheckOver]
      BY <2>1 DEF BeginDisable
    <3>2. totpCheck \in [TotpChecks \cup Disables -> CheckRecords]
      BY DEF FactorTypeOK, CheckRecords
    <3>3. totpCheck' \in [TotpChecks \cup Disables -> CheckRecords]
      BY <3>1, <3>2 DEF CheckRecords, CheckOver
    <3>4. CodesHeld'
      BY <2>1, <3>1, <3>2 DEF BeginDisable, CodesHeld, CheckOver
    <3> QED BY <2>1, <3>3, <3>4 DEF BeginDisable, FactorTypeOK, CheckRecords
  <2>2. CASE ClearTotp(d)
    <3>1. era' \in Nat
      BY <2>2 DEF ClearTotp, FactorTypeOK
    <3>2. disable' \in [Disables -> {"new", "clear", "delete", "over"}]
      BY <2>2 DEF ClearTotp, FactorTypeOK
    <3>3. CodesHeld'
      BY <2>2 DEF ClearTotp, CodesHeld
    <3> QED BY <2>2, <3>1, <3>2, <3>3 DEF ClearTotp, FactorTypeOK
  <2>3. CASE DeletePasskeys(d)
    <3>1. disable' \in [Disables -> {"new", "clear", "delete", "over"}]
      BY <2>3 DEF DeletePasskeys, FactorTypeOK
    <3>2. CodesHeld'
      BY <2>3 DEF DeletePasskeys, CodesHeld
    <3> QED BY <2>3, <3>1, <3>2 DEF DeletePasskeys, FactorTypeOK
  <2> QED BY <1>2, <2>1, <2>2, <2>3
<1>3. ASSUME NEW k \in Devices,
             \/ RegisterOptions(k) \/ RegisterVerify(k) \/ TakeRegistration(k)
             \/ InsertPasskey(k) \/ RemovePasskey(k)
      PROVE FactorTypeOK' /\ CodesHeld'
  BY <1>3
  DEF RegisterOptions, RegisterVerify, TakeRegistration, InsertPasskey, RemovePasskey,
      DeviceStep, FactorTypeOK, CodesHeld
<1>4. ASSUME NEW t \in Tickets, IssueLoginTicket(t) \/ EndTicket(t) PROVE FactorTypeOK' /\ CodesHeld'
  <2>1. ticket' \in [Tickets -> [open : BOOLEAN, issued : BOOLEAN, challenge : BOOLEAN]]
    <3>1. ticket \in [Tickets -> [open : BOOLEAN, issued : BOOLEAN, challenge : BOOLEAN]]
      BY DEF FactorTypeOK, CodesHeld
    <3>2. CASE IssueLoginTicket(t)
      BY <3>1, <3>2 DEF IssueLoginTicket
    <3>3. CASE EndTicket(t)
      BY <3>1, <3>3 DEF EndTicket
    <3> QED BY <1>4, <3>2, <3>3
  <2> QED BY <1>4, <2>1 DEF IssueLoginTicket, EndTicket, FactorTypeOK, CodesHeld
<1>5. ASSUME NEW b \in Biometrics, NEW t \in Tickets, BeginBiometric(b, t)
      PROVE FactorTypeOK' /\ CodesHeld'
  <2>1. ticket' \in [Tickets -> [open : BOOLEAN, issued : BOOLEAN, challenge : BOOLEAN]]
    <3>1. ticket \in [Tickets -> [open : BOOLEAN, issued : BOOLEAN, challenge : BOOLEAN]]
      BY DEF FactorTypeOK, CodesHeld
    <3>2. ticket' = [ticket EXCEPT ![t].challenge = FALSE]
      BY <1>5 DEF BeginBiometric, TakeChallenge
    <3> QED BY <3>1, <3>2
  <2>2. biometric' \in [Biometrics ->
          [at : {"new", "verify", "finish", "over"}, ticket : Tickets \cup {Missing}]]
    BY <1>5 DEF BeginBiometric, FactorTypeOK, CodesHeld
  <2> QED BY <1>5, <2>1, <2>2 DEF BeginBiometric, FactorTypeOK, CodesHeld
<1>6. ASSUME NEW b \in Biometrics, VerifyAssertion(b) PROVE FactorTypeOK' /\ CodesHeld'
  BY <1>6 DEF VerifyAssertion, BiometricOver, FactorTypeOK, CodesHeld
<1>7. ASSUME NEW b \in Biometrics, FinishBiometric(b) PROVE FactorTypeOK' /\ CodesHeld'
  <2>1. biometric' \in [Biometrics ->
          [at : {"new", "verify", "finish", "over"}, ticket : Tickets \cup {Missing}]]
    BY <1>7 DEF FinishBiometric, BiometricOver, FactorTypeOK, CodesHeld
  <2>2. ticket' \in [Tickets -> [open : BOOLEAN, issued : BOOLEAN, challenge : BOOLEAN]]
    <3> DEFINE t == biometric[b].ticket
    <3>1. ticket \in [Tickets -> [open : BOOLEAN, issued : BOOLEAN, challenge : BOOLEAN]]
      BY DEF FactorTypeOK, CodesHeld
    <3>2. \/ ticket' = [ticket EXCEPT ![t].open = FALSE]
          \/ ticket' = ticket
      <4>1. CASE HasTotp
        BY <1>7, <4>1, Zenon DEF FinishBiometric
      <4>2. CASE ~ HasTotp
        BY <1>7, <4>2, Zenon DEF FinishBiometric
      <4> QED BY <4>1, <4>2
    <3> HIDE DEF t
    <3> QED BY <3>1, <3>2
  <2>3. sessionsOf' \in [Tickets -> Nat]
    <3> DEFINE t == biometric[b].ticket
    <3>1. sessionsOf \in [Tickets -> Nat]
      BY DEF FactorTypeOK, CodesHeld
    <3>2. \/ sessionsOf' = [sessionsOf EXCEPT ![t] = sessionsOf[t] + 1]
          \/ sessionsOf' = sessionsOf
      <4>1. CASE HasTotp
        BY <1>7, <4>1, Zenon DEF FinishBiometric
      <4>2. CASE ~ HasTotp
        BY <1>7, <4>2, Zenon DEF FinishBiometric
      <4> QED BY <4>1, <4>2
    <3> HIDE DEF t
    <3> QED BY <3>1, <3>2
  <2> QED BY <1>7, <2>1, <2>2, <2>3 DEF FinishBiometric, FactorTypeOK, CodesHeld
<1>8. CASE Reboot
  <2>1. reboots' \in 0 .. MaxReboots
    <3>1. reboots \in 0 .. MaxReboots /\ MaxReboots \in Nat
      BY SecondFactorAssumption DEF FactorTypeOK, CodesHeld
    <3>2. reboots < MaxReboots /\ reboots' = reboots + 1
      BY <1>8 DEF Reboot
    <3> QED BY <3>1, <3>2
  <2>2. ticket' \in [Tickets -> [open : BOOLEAN, issued : BOOLEAN, challenge : BOOLEAN]]
    <3>1. ticket \in [Tickets -> [open : BOOLEAN, issued : BOOLEAN, challenge : BOOLEAN]]
      BY DEF FactorTypeOK, CodesHeld
    <3>2. ASSUME NEW t \in Tickets
          PROVE  [ticket[t] EXCEPT !.open = FALSE, !.challenge = FALSE] \in
                   [open : BOOLEAN, issued : BOOLEAN, challenge : BOOLEAN]
      BY <3>1
    <3> QED BY <1>8, <3>2 DEF Reboot
  <2>3. biometric' \in [Biometrics ->
          [at : {"new", "verify", "finish", "over"}, ticket : Tickets \cup {Missing}]]
    BY <1>8 DEF Reboot, BiometricOver, FactorTypeOK
  <2>4. /\ enable' \in [Enables -> EnableRecords]
        /\ \A e \in Enables : enable'[e].at # "store"
    <3>1. enable \in [Enables -> EnableRecords] /\ NotEnabling \in EnableRecords
      BY DEF FactorTypeOK, EnableRecords, NotEnabling
    <3> QED BY <1>8, <3>1 DEF Reboot, NotEnabling
  <2>5. /\ totpCheck' \in [TotpChecks \cup Disables -> CheckRecords]
        /\ \A t \in TotpChecks \cup Disables : totpCheck'[t].at # "claim"
    BY <1>8 DEF Reboot, NoCheck, CheckOver, CheckRecords
  <2>6. CodesHeld'
    BY <2>4, <2>5 DEF CodesHeld
  <2> QED BY <1>8, <2>1, <2>2, <2>3, <2>4, <2>5, <2>6
          DEF Reboot, FactorTypeOK, EnableRecords, CheckRecords
<1>9. CASE UNCHANGED factorVars
  BY <1>9 DEF factorVars, FactorTypeOK, CodesHeld
<1> QED
  BY <1>1, <1>2, <1>3, <1>4, <1>5, <1>6, <1>7, <1>8, <1>9, CodeStepTyped DEF FactorStep

LEMMA PassportTypesKept == PassportsTypeOK /\ [PassportsStep]_passportVars => PassportsTypeOK'
<1> SUFFICES ASSUME PassportsTypeOK, [PassportsStep]_passportVars PROVE PassportsTypeOK'
  OBVIOUS
<1> USE DEF UnchangedByPayment, UnchangedByPassword
<1>1. ASSUME NEW p \in Payments, NEW from, NEW to \in {"read", "issue", "lift", "over"},
             PaymentTo(p, from, to)
      PROVE payment' \in [Payments ->
              [at : {"new", "pay", "read", "issue", "lift", "over"}, kind : Kinds \cup {"none"}]]
  BY <1>1 DEF PaymentTo, PaymentOver, PassportsTypeOK
<1>2. ASSUME NEW p \in Payments, NEW kind \in Kinds, Approve(p, kind) PROVE PassportsTypeOK'
  BY <1>2 DEF Approve, PassportsTypeOK
<1>3. ASSUME NEW p \in Payments, StartedOrRefused(p) \/ ReadPassport(p) PROVE PassportsTypeOK'
  <2>1. PICK to \in {"read", "issue", "lift", "over"} :
          PaymentTo(p, "pay", to) \/ PaymentTo(p, "read", to)
    BY <1>3 DEF StartedOrRefused, ReadPassport
  <2> QED BY <1>1, <1>3, <2>1 DEF StartedOrRefused, ReadPassport, PassportsTypeOK
<1>4. ASSUME NEW p \in Payments, IssuePassport(p) \/ LiftSuspension(p) PROVE PassportsTypeOK'
  <2>1. PaymentTo(p, "issue", "over") \/ PaymentTo(p, "lift", "over")
    BY <1>4 DEF IssuePassport, LiftSuspension
  <2>2. undone' \subseteq Payments
    BY <1>4 DEF IssuePassport, LiftSuspension, PassportsTypeOK
  <2> QED BY <1>1, <1>4, <2>1, <2>2 DEF IssuePassport, LiftSuspension, PassportsTypeOK
<1>5. ASSUME NEW r \in Revocations, BeginRevocation(r) \/ Revoke(r) PROVE PassportsTypeOK'
  BY <1>5 DEF BeginRevocation, Revoke, Lifting, PassportsTypeOK
<1>6. ASSUME NEW f \in FirstPasswords, BeginFirst(f) \/ WriteFirst(f) PROVE PassportsTypeOK'
  BY <1>6 DEF BeginFirst, WriteFirst, PassportsTypeOK
<1>7. ASSUME NEW c \in PasswordChanges, WriteNewPassword(c) \/ SuspendPassport(c)
      PROVE PassportsTypeOK'
  BY <1>7 DEF WriteNewPassword, SuspendPassport, PassportsTypeOK
<1>8. CASE PassportHalt
  BY <1>8, PassportsAssumption
  DEF PassportHalt, NotPaying, PaymentOver, PassportsTypeOK
<1>9. CASE UNCHANGED passportVars
  BY <1>9 DEF passportVars, passportJobs, PassportsTypeOK
<1> QED BY <1>2, <1>3, <1>4, <1>5, <1>6, <1>7, <1>8, <1>9 DEF PassportsStep

LEMMA FactorTypesStart == InitSecondFactor => FactorTypeOK /\ CodesHeld
<1> SUFFICES ASSUME InitSecondFactor PROVE FactorTypeOK /\ CodesHeld
  OBVIOUS
<1>1. enable = [e \in Enables |-> [at |-> "new", secret |-> Missing, step |-> 0]]
  BY DEF InitSecondFactor, NotEnabling
<1>2. totpCheck \in [TotpChecks \cup Disables -> CheckRecords]
  BY DEF InitSecondFactor, NoCheck, CheckRecords
<1>3. CodesHeld
  BY <1>1 DEF InitSecondFactor, NoCheck, CodesHeld
<1> QED BY <1>1, <1>2, <1>3, SecondFactorAssumption
        DEF InitSecondFactor, FactorTypeOK, CheckRecords

\* What no step of the authenticator does is to accept a step behind the last one.
ClaimInv ==
  /\ \A a \in claims : a.era <= era /\ (a.era = era => a.step <= lastStep)
  /\ StepPassedOnce

LEMMA ClaimAdded ==
  ASSUME FactorTypeOK, ClaimInv, NEW claim, claims' = claims \cup {claim},
         era' \in {era, era + 1}, lastStep' \in Nat,
         claim.era = era', claim.step = lastStep',
         era' = era => lastStep < lastStep'
  PROVE  ClaimInv'
<1>1. /\ era \in Nat /\ lastStep \in Nat
      /\ \A a \in claims : a.era \in Nat /\ a.step \in Nat
  <2>1. era \in Nat /\ lastStep \in Nat
    BY SecondFactorAssumption DEF FactorTypeOK
  <2>2. claims \subseteq [by : Enables \cup TotpChecks \cup Disables, secret : Setups,
                         step : TimeSteps, era : Nat]
    BY DEF FactorTypeOK
  <2> QED BY <2>1, <2>2, SecondFactorAssumption
<1>2. \A a \in claims : a.era <= era' /\ (a.era = era' => a.step < lastStep')
  BY <1>1 DEF ClaimInv
<1>3. \A a \in claims' : a.era <= era' /\ (a.era = era' => a.step <= lastStep')
  BY <1>1, <1>2
<1>4. StepPassedOnce'
  BY <1>1, <1>2 DEF ClaimInv, StepPassedOnce
<1> QED BY <1>3, <1>4 DEF ClaimInv

LEMMA ClaimKept ==
  FactorTypeOK /\ CodesHeld /\ ClaimInv /\ [FactorStep]_factorVars => ClaimInv'
<1> SUFFICES ASSUME FactorTypeOK, CodesHeld, ClaimInv, [FactorStep]_factorVars PROVE ClaimInv'
  OBVIOUS
<1> USE DEF factorRows, totpRow, factorJobs, loginJobs, factorHistory
<1>1. era \in Nat /\ lastStep \in Nat /\ \A a \in claims : a.era \in Nat
  BY SecondFactorAssumption DEF FactorTypeOK
<1>2. ASSUME UNCHANGED <<lastStep, era, claims>> PROVE ClaimInv'
  BY <1>2 DEF ClaimInv, StepPassedOnce
<1>3. ASSUME NEW e \in Enables, StoreEnable(e) PROVE ClaimInv'
  <2> DEFINE claim == Claim(e, enable[e].secret, enable[e].step, era + 1)
  <2>1. /\ claims' = claims \cup {claim} /\ era' = era + 1 /\ lastStep' = enable[e].step
    BY <1>3 DEF StoreEnable
  <2>2. claim.era = era + 1 /\ claim.step = enable[e].step
    BY DEF Claim
  <2>3. enable[e].step \in Nat
    BY <1>3, SecondFactorAssumption DEF StoreEnable, CodesHeld
  <2> HIDE DEF claim
  <2> QED BY <1>1, <2>1, <2>2, <2>3, ClaimAdded
<1>4. ASSUME NEW t \in TotpChecks \cup Disables, ClaimStep(t) PROVE ClaimInv'
  <2> DEFINE claim == Claim(t, totpCheck[t].secret, totpCheck[t].step, era)
  <2>1. CASE StepUnclaimed(totpCheck[t].step)
    <3>1. /\ claims' = claims \cup {claim} /\ era' = era /\ lastStep' = totpCheck[t].step
          /\ lastStep < totpCheck[t].step
      BY <1>4, <2>1 DEF ClaimStep, UnchangedButCheck, StepUnclaimed
    <3>2. claim.era = era /\ claim.step = totpCheck[t].step
      BY DEF Claim
    <3>3. totpCheck[t].step \in Nat
      BY <1>4, SecondFactorAssumption DEF ClaimStep, CodesHeld
    <3> HIDE DEF claim
    <3> QED BY <1>1, <3>1, <3>2, <3>3, ClaimAdded
  <2>2. CASE ~ StepUnclaimed(totpCheck[t].step)
    BY <1>2, <1>4, <2>2 DEF ClaimStep, UnchangedButCheck
  <2> QED BY <2>1, <2>2
<1>5. ASSUME NEW d \in Disables, ClearTotp(d) PROVE ClaimInv'
  <2>1. era' = era + 1 /\ claims' = claims
    BY <1>5 DEF ClearTotp
  <2>2. \A a \in claims : a.era <= era' /\ a.era # era'
    BY <1>1, <2>1 DEF ClaimInv
  <2> QED BY <2>1, <2>2 DEF ClaimInv, StepPassedOnce
<1>6. \/ UNCHANGED <<lastStep, era, claims>>
      \/ \E e \in Enables : StoreEnable(e)
      \/ \E t \in TotpChecks \cup Disables : ClaimStep(t)
      \/ \E d \in Disables : ClearTotp(d)
  BY DEF FactorStep, factorVars, BeginSetup, StoreSetup, BeginEnable, VerifyTotp,
         UnchangedButCheck, BeginDisable, DeletePasskeys, RegisterOptions, RegisterVerify,
         TakeRegistration, InsertPasskey, RemovePasskey, IssueLoginTicket, EndTicket,
         BeginBiometric, VerifyAssertion, FinishBiometric, UnchangedButLogin, Reboot
<1> QED BY <1>2, <1>3, <1>4, <1>5, <1>6

\* As long as nobody enables or disables the authenticator in between, a code passes
\* once, however many requests check it at the same time, and not at all if it is the
\* one that enabled it.  (two-factor.ts: the claim of the time step.)
THEOREM StepPassesOnce == FactorSpec => []StepPassedOnce
<1>1. InitSecondFactor => FactorTypeOK /\ CodesHeld /\ ClaimInv
  <2>1. InitSecondFactor => ClaimInv
    BY DEF InitSecondFactor, ClaimInv, StepPassedOnce
  <2> QED BY <2>1, FactorTypesStart
<1>2. FactorTypeOK /\ CodesHeld /\ ClaimInv /\ [FactorStep]_factorVars
        => FactorTypeOK' /\ CodesHeld' /\ ClaimInv'
  BY FactorTypesKept, ClaimKept
<1>3. ClaimInv => StepPassedOnce
  BY DEF ClaimInv
<1> QED BY <1>1, <1>2, <1>3, PTL DEF FactorSpec

(***************************************************************************)
(* Codes and requests, tokens, secrets and tickets, and the passport have  *)
(* their types in every state, whatever overlaps: counts are never         *)
(* negative, and a request holds only what there is.                       *)
(***************************************************************************)
THEOREM SignInTyped ==
  /\ OtpSpec => []OtpTypeOK
  /\ SessionsSpec => []SessionsTypeOK
  /\ FactorSpec => []FactorTypeOK
  /\ PassportsSpec => []PassportsTypeOK
<1>1. InitOneTimeCodes => OtpTypeOK
  BY OneTimeCodesAssumption DEF InitOneTimeCodes, NeverIssued, OtpTypeOK
<1>2. InitSessions => SessionsTypeOK
  <2> SUFFICES ASSUME InitSessions PROVE SessionsTypeOK
    OBVIOUS
  <2>1. token \in [Holders -> [at : {"none", "read", "issued", "ended"}, sv : Nat, seen : Nat]]
    BY DEF InitSessions, NoToken
  <2>2. writer \in [Writers ->
          [at : {"new", "hashing", "written", "done", "lost"}, write : Nat]]
    BY DEF InitSessions
  <2> QED BY <2>1, <2>2 DEF InitSessions, SessionsTypeOK
<1>3. InitSecondFactor => FactorTypeOK /\ CodesHeld
  BY FactorTypesStart
<1>4. InitPassports => PassportsTypeOK
  <2> SUFFICES ASSUME InitPassports PROVE PassportsTypeOK
    OBVIOUS
  <2>1. NotPaying \in
          [at : {"new", "pay", "read", "issue", "lift", "over"}, kind : Kinds \cup {"none"}]
    BY DEF NotPaying
  <2>2. payment \in [Payments ->
          [at : {"new", "pay", "read", "issue", "lift", "over"}, kind : Kinds \cup {"none"}]]
    BY <2>1 DEF InitPassports
  <2>3. passportHalts \in 0 .. MaxPassportHalts
    BY PassportsAssumption DEF InitPassports
  <2> QED BY <2>2, <2>3 DEF InitPassports, PassportsTypeOK
<1>5. OtpSpec => []OtpTypeOK
  BY <1>1, OtpTypesKept, PTL DEF OtpSpec
<1>6. SessionsSpec => []SessionsTypeOK
  BY <1>2, SessionTypesKept, PTL DEF SessionsSpec
<1>7. FactorSpec => []FactorTypeOK
  BY <1>3, FactorTypesKept, PTL DEF FactorSpec
<1>8. PassportsSpec => []PassportsTypeOK
  BY <1>4, PassportTypesKept, PTL DEF PassportsSpec
<1> QED BY <1>5, <1>6, <1>7, <1>8

-----------------------------------------------------------------------------
(***************************************************************************)
(* Accounts                                                                *)
(***************************************************************************)
AccountType ==
  [exists : BOOLEAN, verified : BOOLEAN, google : BOOLEAN,
   password : Registrations \cup {"none", "unusable"}, link : Resends \cup {"none"},
   loginAttempts : 0 .. LoginMaxAttempts, lockedUntil : Nat]

TallyType == [count : 0 .. MaxChecks, expiresAt : Nat]

Used == {c \in Checks : check[c] # "new"}

AccountTypes ==
  /\ account \in AccountType
  /\ handler \in [Handlers -> [at : {"new", "read", "done"}, read : AccountType]]
  /\ welcomes \in Nat /\ unproved \in Nat /\ tick \in Nat \ {0} /\ challenge \in Nat
  /\ tally \in TallyType
  /\ check \in [Checks -> {"new", "checking", "done"}]

(***************************************************************************)
(* Rows that were read are of the past: who read one finds one.  There is  *)
(* one welcome more than the Google links of a row read unverified only if *)
(* the row is verified by now, so that no other request can flip it.       *)
(***************************************************************************)
WelcomeInv ==
  /\ account.verified => account.exists
  /\ \A h \in Handlers : Saw(h).exists => account.exists
  /\ welcomes <= 1 + unproved
  /\ welcomes > unproved => account.verified

(***************************************************************************)
(* Every check that was let in is counted in what is remembered of the     *)
(* challenge, and that is remembered for as long as the challenge is good. *)
(***************************************************************************)
TallyInv ==
  /\ challenge <= tick
  /\ IsFiniteSet(Used) /\ Cardinality(Used) <= tally.count
  /\ tally # Forgotten => challenge > 0 /\ tally.expiresAt >= challenge + Lifetime

AccountsInv == AccountTypes /\ WelcomeInv /\ TallyInv

LEMMA ConstantsTyped ==
  /\ LoginMaxAttempts \in Nat /\ MaxChecks \in Nat /\ Lifetime \in Nat
  /\ WithTotp \in BOOLEAN
  BY AccountsAssumption

LEMMA NoAccountTyped ==
  NoAccount \in AccountType /\ NoAccount.exists = FALSE /\ NoAccount.verified = FALSE
  BY ConstantsTyped DEF NoAccount, AccountType

LEMMA AccountsStart == InitAccounts => AccountsInv
<1> SUFFICES ASSUME InitAccounts PROVE AccountsInv
  OBVIOUS
<1>1. AccountTypes
  BY NoAccountTyped, ConstantsTyped DEF InitAccounts, AccountTypes, Forgotten, TallyType
<1>2. WelcomeInv
  BY NoAccountTyped DEF InitAccounts, WelcomeInv, Saw
<1>3. TallyInv
  <2>1. Used = {} BY DEF InitAccounts, Used
  <2> QED BY <2>1, FS_EmptySet DEF InitAccounts, TallyInv, Forgotten
<1> QED BY <1>1, <1>2, <1>3 DEF AccountsInv

\* The updates of the row, each by what it leaves of whether the row exists and is
\* verified.
LEMMA PendingOverwritten ==
  ASSUME NEW r \in AccountType, NEW h \in Registrations
  PROVE  LET new == [r EXCEPT !.password = h, !.link = "none"]
         IN new \in AccountType /\ new.exists = r.exists /\ new.verified = r.verified
<1> DEFINE new == [r EXCEPT !.password = h, !.link = "none"]
<1>1. new \in AccountType BY Zenon DEF AccountType
<1>2. new.exists = r.exists BY Zenon DEF AccountType
<1>3. new.verified = r.verified BY Zenon DEF AccountType
<1> QED BY <1>1, <1>2, <1>3

LEMMA PendingCreated ==
  ASSUME NEW h \in Registrations
  PROVE  LET new == [NoAccount EXCEPT !.exists = TRUE, !.password = h]
         IN new \in AccountType /\ new.exists = TRUE /\ new.verified = FALSE
<1> DEFINE new == [NoAccount EXCEPT !.exists = TRUE, !.password = h]
<1>1. new \in AccountType BY NoAccountTyped, Zenon DEF AccountType
<1>2. new.exists = TRUE BY NoAccountTyped, Zenon DEF AccountType
<1>3. new.verified = FALSE BY NoAccountTyped, Zenon DEF AccountType
<1> QED BY <1>1, <1>2, <1>3

LEMMA LinkMade ==
  ASSUME NEW r \in AccountType, NEW h \in Resends
  PROVE  LET new == [r EXCEPT !.link = h]
         IN new \in AccountType /\ new.exists = r.exists /\ new.verified = r.verified
<1> DEFINE new == [r EXCEPT !.link = h]
<1>1. new \in AccountType BY Zenon DEF AccountType
<1>2. new.exists = r.exists BY Zenon DEF AccountType
<1>3. new.verified = r.verified BY Zenon DEF AccountType
<1> QED BY <1>1, <1>2, <1>3

LEMMA RowFlipped ==
  ASSUME NEW r \in AccountType
  PROVE  LET new == [r EXCEPT !.verified = TRUE, !.link = "none"]
         IN new \in AccountType /\ new.exists = r.exists /\ new.verified = TRUE
<1> DEFINE new == [r EXCEPT !.verified = TRUE, !.link = "none"]
<1>1. new \in AccountType BY Zenon DEF AccountType
<1>2. new.exists = r.exists BY Zenon DEF AccountType
<1>3. new.verified = TRUE BY Zenon DEF AccountType
<1> QED BY <1>1, <1>2, <1>3

LEMMA GoogleAdded ==
  ASSUME NEW r \in AccountType
  PROVE  LET new == [r EXCEPT !.google = TRUE]
         IN new \in AccountType /\ new.exists = r.exists /\ new.verified = r.verified
<1> DEFINE new == [r EXCEPT !.google = TRUE]
<1>1. new \in AccountType BY Zenon DEF AccountType
<1>2. new.exists = r.exists BY Zenon DEF AccountType
<1>3. new.verified = r.verified BY Zenon DEF AccountType
<1> QED BY <1>1, <1>2, <1>3

LEMMA GoogleVerified ==
  ASSUME NEW r \in AccountType
  PROVE  LET new == [r EXCEPT !.google = TRUE, !.verified = TRUE, !.link = "none",
                            !.password = "unusable"]
         IN new \in AccountType /\ new.exists = r.exists /\ new.verified = TRUE
<1> DEFINE new == [r EXCEPT !.google = TRUE, !.verified = TRUE, !.link = "none",
                            !.password = "unusable"]
<1>1. new \in AccountType BY Zenon DEF AccountType
<1>2. new.exists = r.exists BY Zenon DEF AccountType
<1>3. new.verified = TRUE BY Zenon DEF AccountType
<1> QED BY <1>1, <1>2, <1>3

LEMMA GoogleCreated ==
         LET new == [NoAccount EXCEPT !.exists = TRUE, !.verified = TRUE,
                                    !.google = TRUE, !.password = "unusable"]
         IN new \in AccountType /\ new.exists = TRUE /\ new.verified = TRUE
<1> DEFINE new == [NoAccount EXCEPT !.exists = TRUE, !.verified = TRUE,
                                    !.google = TRUE, !.password = "unusable"]
<1>1. new \in AccountType BY NoAccountTyped, Zenon DEF AccountType
<1>2. new.exists = TRUE BY NoAccountTyped, Zenon DEF AccountType
<1>3. new.verified = TRUE BY NoAccountTyped, Zenon DEF AccountType
<1> QED BY <1>1, <1>2, <1>3

LEMMA AttemptsWritten ==
  ASSUME NEW r \in AccountType, NEW n \in 0 .. LoginMaxAttempts
  PROVE  LET new == [r EXCEPT !.loginAttempts = n]
         IN new \in AccountType /\ new.exists = r.exists /\ new.verified = r.verified
<1> DEFINE new == [r EXCEPT !.loginAttempts = n]
<1>1. new \in AccountType BY Zenon DEF AccountType
<1>2. new.exists = r.exists BY Zenon DEF AccountType
<1>3. new.verified = r.verified BY Zenon DEF AccountType
<1> QED BY <1>1, <1>2, <1>3

LEMMA LockWritten ==
  ASSUME NEW r \in AccountType, NEW n \in 0 .. LoginMaxAttempts, NEW t \in Nat
  PROVE  LET new == [r EXCEPT !.loginAttempts = n, !.lockedUntil = t]
         IN new \in AccountType /\ new.exists = r.exists /\ new.verified = r.verified
<1> DEFINE new == [r EXCEPT !.loginAttempts = n, !.lockedUntil = t]
<1>1. new \in AccountType BY Zenon DEF AccountType
<1>2. new.exists = r.exists BY Zenon DEF AccountType
<1>3. new.verified = r.verified BY Zenon DEF AccountType
<1> QED BY <1>1, <1>2, <1>3

\* What an answer may do to the row, to the welcome mails and to the challenge.
RowMoves ==
  /\ account' \in AccountType
  /\ account.exists => account'.exists
  /\ account.verified => account'.verified
  /\ account'.verified => account'.exists

WelcomesMove ==
  \/ UNCHANGED <<welcomes, unproved>>
  \/ /\ account'.verified /\ welcomes' = welcomes + 1
     /\ \/ unproved' = unproved + 1
        \/ unproved' = unproved /\ ~ account.verified

ChallengeMoves ==
  /\ UNCHANGED <<tally, check>>
  /\ challenge' = challenge \/ (challenge = 0 /\ challenge' = tick)

LEMMA TallyKept ==
  ASSUME AccountTypes, TallyInv, ChallengeMoves, tick' \in Nat \ {0}, tick' >= tick
  PROVE  TallyInv' /\ challenge' \in Nat
<1>1. Used' = Used BY DEF ChallengeMoves, Used
<1>2. challenge' \in Nat /\ challenge' <= tick' /\ (challenge > 0 => challenge' = challenge)
  BY DEF AccountTypes, ChallengeMoves, TallyInv
<1>3. tally' # Forgotten => challenge > 0 /\ tally'.expiresAt >= challenge + Lifetime
  BY DEF ChallengeMoves, TallyInv
<1> QED BY <1>1, <1>2, <1>3 DEF ChallengeMoves, TallyInv

LEMMA AnswerKeeps ==
  ASSUME AccountsInv, NEW h \in Handlers, Answers(h), RowMoves, WelcomesMove, ChallengeMoves
  PROVE  AccountsInv'
<1>1. /\ handler' = [handler EXCEPT ![h] = [at |-> "done", read |-> NoAccount]]
      /\ tick' = tick
  BY DEF Answers
<1>2. \A g \in Handlers : Saw(g)' = Saw(g) \/ Saw(g)' = NoAccount
  BY <1>1 DEF AccountsInv, AccountTypes, Saw
<1>3. handler' \in [Handlers -> [at : {"new", "read", "done"}, read : AccountType]]
  BY <1>1, NoAccountTyped DEF AccountsInv, AccountTypes
<1>4. TallyInv' /\ challenge' \in Nat
  BY <1>1, TallyKept DEF AccountsInv, AccountTypes
<1>5. welcomes' \in Nat /\ unproved' \in Nat
  BY DEF AccountsInv, AccountTypes, WelcomesMove
<1>6. WelcomeInv'
  <2>1. \A g \in Handlers : Saw(g)'.exists => account'.exists
    BY <1>2, NoAccountTyped DEF AccountsInv, WelcomeInv, RowMoves
  <2>2. welcomes' <= 1 + unproved' /\ (welcomes' > unproved' => account'.verified)
    <3>1. /\ welcomes \in Nat /\ unproved \in Nat /\ welcomes <= 1 + unproved
          /\ welcomes > unproved => account.verified
      BY DEF AccountsInv, AccountTypes, WelcomeInv
    <3>2. CASE UNCHANGED <<welcomes, unproved>>
      BY <3>1, <3>2 DEF RowMoves
    <3>3. CASE /\ account'.verified /\ welcomes' = welcomes + 1 /\ unproved' = unproved + 1
      BY <3>1, <3>3
    <3>4. CASE /\ account'.verified /\ welcomes' = welcomes + 1 /\ unproved' = unproved
               /\ ~ account.verified
      BY <3>1, <3>4
    <3> QED BY <3>2, <3>3, <3>4 DEF WelcomesMove
  <2> QED BY <2>1, <2>2 DEF WelcomeInv, RowMoves
<1>7. AccountTypes'
  BY <1>1, <1>3, <1>4, <1>5 DEF AccountsInv, AccountTypes, RowMoves, ChallengeMoves
<1> QED BY <1>4, <1>6, <1>7 DEF AccountsInv

\* A refusal, and a row written that says no less than the row there was.
LEMMA RefusalKeeps ==
  ASSUME AccountsInv, NEW h \in Handlers, Refused(h)
  PROVE  AccountsInv'
  BY AnswerKeeps DEF Refused, RowMoves, WelcomesMove, ChallengeMoves, challengeVars,
                     AccountsInv, AccountTypes, WelcomeInv

LEMMA WriteKeeps ==
  ASSUME AccountsInv, NEW h \in Handlers, NEW row \in AccountType, Write(h, row),
         account.exists => row.exists, account.verified => row.verified,
         row.verified => row.exists, UNCHANGED welcomes
  PROVE  AccountsInv'
  BY AnswerKeeps DEF Write, RowMoves, WelcomesMove, ChallengeMoves, challengeVars

LEMMA Seen ==
  ASSUME AccountsInv, NEW h \in Handlers
  PROVE  /\ Saw(h) \in AccountType /\ (Saw(h).exists => account.exists)
         /\ account \in AccountType /\ (account.verified => account.exists)
  BY DEF AccountsInv, AccountTypes, WelcomeInv, Saw

LEMMA RegisterSteps ==
  ASSUME AccountsInv, NEW h \in Registrations, Register(h)
  PROVE  AccountsInv'
<1>1. h \in Handlers BY DEF Handlers
<1>2. CASE Refused(h) BY <1>1, <1>2, RefusalKeeps
<1>3. CASE /\ Saw(h).exists /\ UNCHANGED welcomes
           /\ Write(h, [account EXCEPT !.password = h, !.link = "none"])
  <2> DEFINE row == [account EXCEPT !.password = h, !.link = "none"]
  <2>1. row \in AccountType /\ row.exists = account.exists /\ row.verified = account.verified
    BY <1>1, Seen, PendingOverwritten
  <2> HIDE DEF row
  <2> QED BY <1>1, <1>3, <2>1, Seen, WriteKeeps DEF row
<1>4. CASE /\ ~ account.exists /\ UNCHANGED welcomes
           /\ Write(h, [NoAccount EXCEPT !.exists = TRUE, !.password = h])
  <2> DEFINE row == [NoAccount EXCEPT !.exists = TRUE, !.password = h]
  <2>1. row \in AccountType /\ row.exists = TRUE /\ row.verified = FALSE
    BY PendingCreated
  <2>2. ~ account.verified BY <1>1, <1>4, Seen
  <2> HIDE DEF row
  <2> QED BY <1>1, <1>4, <2>1, <2>2, WriteKeeps DEF row
<1> QED BY <1>2, <1>3, <1>4 DEF Register

LEMMA ResendSteps ==
  ASSUME AccountsInv, NEW h \in Resends, ResendVerification(h)
  PROVE  AccountsInv'
<1>1. h \in Handlers BY DEF Handlers
<1>2. CASE Refused(h) BY <1>1, <1>2, RefusalKeeps
<1>3. CASE Write(h, [account EXCEPT !.link = h]) /\ UNCHANGED welcomes
  <2> DEFINE row == [account EXCEPT !.link = h]
  <2>1. row \in AccountType /\ row.exists = account.exists /\ row.verified = account.verified
    BY <1>1, Seen, LinkMade
  <2> HIDE DEF row
  <2> QED BY <1>1, <1>3, <2>1, Seen, WriteKeeps DEF row
<1> QED BY <1>2, <1>3 DEF ResendVerification

\* The update names the row as unverified: that is what makes the welcome the first.
LEMMA VerifySteps ==
  ASSUME AccountsInv, NEW h \in Handlers, Verify(h)
  PROVE  AccountsInv'
<1>1. CASE ~ Unverified BY <1>1, RefusalKeeps DEF Verify
<1>2. CASE Unverified
  <2> DEFINE row == [account EXCEPT !.verified = TRUE, !.link = "none"]
  <2>1. row \in AccountType /\ row.exists = account.exists /\ row.verified = TRUE
    BY Seen, RowFlipped
  <2>2. /\ Answers(h) /\ account' = row /\ UNCHANGED <<unproved, challenge, tally, check>>
        /\ welcomes' = welcomes + 1
    BY <1>2 DEF Verify, Write, challengeVars
  <2>3. account.exists /\ ~ account.verified BY <1>2 DEF Unverified
  <2> HIDE DEF row
  <2>4. RowMoves /\ WelcomesMove /\ ChallengeMoves
    BY <2>1, <2>2, <2>3 DEF RowMoves, WelcomesMove, ChallengeMoves
  <2> QED BY <2>2, <2>4, AnswerKeeps
<1> QED BY <1>1, <1>2

\* A Google sign-in welcomes who it creates, and, counted apart, who it read unverified.
LEMMA GoogleSteps ==
  ASSUME AccountsInv, NEW h \in Googles, Google(h)
  PROVE  AccountsInv'
<1>1. h \in Handlers BY DEF Handlers
<1>2. Answers(h) BY DEF Google
<1>3. ASSUME NEW row, SignedIn(row) PROVE ChallengeMoves
  BY <1>3 DEF SignedIn, ChallengeMoves, challengeVars
<1>4. CASE UNCHANGED <<account, welcomes, unproved>> /\ ChallengeMoves
  BY <1>1, <1>2, <1>4, Seen, AnswerKeeps DEF RowMoves, WelcomesMove
<1>5. CASE /\ Saw(h).exists /\ account' = Linked(Saw(h)) /\ ChallengeMoves
           /\ welcomes' = welcomes + (IF Saw(h).verified THEN 0 ELSE 1)
           /\ unproved' = unproved + (IF Saw(h).verified THEN 0 ELSE 1)
  <2>1. CASE Saw(h).verified
    <3> DEFINE row == [account EXCEPT !.google = TRUE]
    <3>1. row \in AccountType /\ row.exists = account.exists /\ row.verified = account.verified
      BY <1>1, Seen, GoogleAdded
    <3>2. account' = row BY <1>5, <2>1 DEF Linked
    <3>3. UNCHANGED <<welcomes, unproved>>
      BY <1>5, <2>1 DEF AccountsInv, AccountTypes
    <3> HIDE DEF row
    <3> QED BY <1>1, <1>2, <1>5, <3>1, <3>2, <3>3, Seen, AnswerKeeps DEF RowMoves, WelcomesMove
  <2>2. CASE ~ Saw(h).verified
    <3> DEFINE row == [account EXCEPT !.google = TRUE, !.verified = TRUE, !.link = "none",
                                      !.password = "unusable"]
    <3>1. row \in AccountType /\ row.exists = account.exists /\ row.verified = TRUE
      BY <1>1, Seen, GoogleVerified
    <3>2. account' = row BY <1>5, <2>2 DEF Linked
    <3>3. welcomes' = welcomes + 1 /\ unproved' = unproved + 1
      BY <1>5, <2>2
    <3> HIDE DEF row
    <3> QED BY <1>1, <1>2, <1>5, <3>1, <3>2, <3>3, Seen, AnswerKeeps DEF RowMoves, WelcomesMove
  <2> QED BY <2>1, <2>2
<1>6. CASE /\ ~ account.exists /\ welcomes' = welcomes + 1 /\ UNCHANGED unproved
           /\ account' = [NoAccount EXCEPT !.exists = TRUE, !.verified = TRUE,
                                           !.google = TRUE, !.password = "unusable"]
           /\ ChallengeMoves
  <2> DEFINE row == [NoAccount EXCEPT !.exists = TRUE, !.verified = TRUE,
                                      !.google = TRUE, !.password = "unusable"]
  <2>1. row \in AccountType /\ row.exists = TRUE /\ row.verified = TRUE
    BY GoogleCreated
  <2>2. account' = row /\ ~ account.verified BY <1>1, <1>6, Seen
  <2> HIDE DEF row
  <2> QED BY <1>1, <1>2, <1>6, <2>1, <2>2, AnswerKeeps DEF RowMoves, WelcomesMove
<1>7. CASE Saw(h).google /\ SignedIn(account) /\ UNCHANGED <<account, welcomes, unproved>>
  BY <1>3, <1>4, <1>7
<1>8. CASE /\ Saw(h).exists /\ ~Saw(h).google
           /\ account' = Linked(Saw(h))
           /\ welcomes' = welcomes + (IF Saw(h).verified THEN 0 ELSE 1)
           /\ unproved' = unproved + (IF Saw(h).verified THEN 0 ELSE 1)
           /\ SignedIn(account')
  <2>1. ChallengeMoves BY <1>8 DEF SignedIn, ChallengeMoves, challengeVars
  <2> QED BY <1>5, <1>8, <2>1
<1>9. CASE /\ ~Saw(h).exists
           /\ IF account.exists THEN UNCHANGED <<account, welcomes>>
              ELSE /\ account' = [NoAccount EXCEPT !.exists = TRUE, !.verified = TRUE,
                                                   !.google = TRUE, !.password = "unusable"]
                   /\ welcomes' = welcomes + 1
           /\ UNCHANGED <<unproved, challengeVars>>
  <2>1. ChallengeMoves BY <1>9 DEF ChallengeMoves, challengeVars
  <2> QED BY <1>4, <1>6, <1>9, <2>1
<1> QED BY <1>7, <1>8, <1>9 DEF Google

\* Logins write their counts and locks, and nothing that this is about.
LEMMA LoginSteps ==
  ASSUME AccountsInv, NEW h \in Logins, Login(h)
  PROVE  AccountsInv'
<1>1. h \in Handlers BY DEF Handlers
<1>2. CASE Refused(h) BY <1>1, <1>2, RefusalKeeps
<1>3. CASE WrongPassword(h)
  <2>1. /\ Answers(h) /\ UNCHANGED <<welcomes, unproved>> /\ ChallengeMoves
    BY <1>3 DEF WrongPassword, ChallengeMoves, challengeVars
  <2>2. /\ account' \in AccountType /\ account'.exists = account.exists
        /\ account'.verified = account.verified
    <3>1. CASE Saw(h).loginAttempts + 1 >= LoginMaxAttempts
      <4>1. account' = [account EXCEPT !.loginAttempts = 0, !.lockedUntil = tick + Lifetime]
        BY <1>3, <3>1 DEF WrongPassword
      <4>2. tick + Lifetime \in Nat /\ 0 \in 0 .. LoginMaxAttempts
        BY ConstantsTyped DEF AccountsInv, AccountTypes
      <4> QED BY <1>1, <4>1, <4>2, Seen, LockWritten
    <3>2. CASE ~ Saw(h).loginAttempts + 1 >= LoginMaxAttempts
      <4> DEFINE n == Saw(h).loginAttempts + 1
      <4>1. account' = [account EXCEPT !.loginAttempts = n]
        BY <1>3, <3>2 DEF WrongPassword
      <4>2. n \in 0 .. LoginMaxAttempts
        BY <1>1, <3>2, ConstantsTyped, Seen DEF AccountType
      <4> HIDE DEF n
      <4> QED BY <1>1, <4>1, <4>2, Seen, AttemptsWritten
    <3> QED BY <3>1, <3>2
  <2> QED BY <1>1, <2>1, <2>2, Seen, AnswerKeeps DEF RowMoves, WelcomesMove
<1>4. CASE RightPassword(h)
  <2>1. CASE Write(h, account) /\ UNCHANGED welcomes
    BY <1>1, <2>1, Seen, WriteKeeps
  <2>2. CASE /\ UNCHANGED welcomes
             /\ Write(h, [account EXCEPT !.loginAttempts = 0, !.lockedUntil = 0])
    <3> DEFINE row == [account EXCEPT !.loginAttempts = 0, !.lockedUntil = 0]
    <3>1. row \in AccountType /\ row.exists = account.exists /\ row.verified = account.verified
      <4>1. 0 \in Nat /\ 0 \in 0 .. LoginMaxAttempts BY ConstantsTyped
      <4> QED BY <1>1, <4>1, Seen, LockWritten
    <3> HIDE DEF row
    <3> QED BY <1>1, <2>2, <3>1, Seen, WriteKeeps DEF row
  <2> QED BY <1>4, <2>1, <2>2 DEF RightPassword
<1> QED BY <1>2, <1>3, <1>4 DEF Login

\* A request reads the row there is; time passes.
LEMMA ReadSteps ==
  ASSUME AccountsInv, (\E h \in Handlers : Read(h)) \/ Wait
  PROVE  AccountsInv'
<1>1. ASSUME NEW h \in Handlers, Read(h) PROVE AccountsInv'
  <2>1. /\ handler' = [handler EXCEPT ![h] = [at |-> "read", read |-> account]]
        /\ UNCHANGED <<account, welcomes, unproved, tick, challenge, tally, check>>
    BY <1>1 DEF Read, challengeVars
  <2>2. AccountTypes' BY <2>1 DEF AccountsInv, AccountTypes
  <2>3. \A g \in Handlers : Saw(g)' = Saw(g) \/ Saw(g)' = account
    BY <2>1 DEF AccountsInv, AccountTypes, Saw
  <2>4. WelcomeInv' BY <2>1, <2>3 DEF AccountsInv, WelcomeInv
  <2>5. TallyInv' BY <2>1, TallyKept DEF AccountsInv, AccountTypes, ChallengeMoves
  <2> QED BY <2>2, <2>4, <2>5 DEF AccountsInv
<1>2. CASE Wait
  <2>1. tick' \in Nat \ {0} /\ tick' >= tick /\ ChallengeMoves
        /\ UNCHANGED <<account, handler, welcomes, unproved, challenge, tally, check>>
    BY <1>2 DEF Wait, challengeVars, ChallengeMoves, AccountsInv, AccountTypes
  <2>2. TallyInv' BY <2>1, TallyKept DEF AccountsInv
  <2> QED BY <2>1, <2>2 DEF AccountsInv, AccountTypes, WelcomeInv, Saw
<1> QED BY <1>1, <1>2

\* A check is counted in the step that lets it in, before anything is awaited.
LEMMA CheckSteps ==
  ASSUME AccountsInv, NEW c \in Checks, ReadChallenge(c) \/ CheckChallenge(c)
  PROVE  AccountsInv'
<1> USE ConstantsTyped
<1>1. AccountTypes /\ TallyInv BY DEF AccountsInv
<1>2. UNCHANGED <<account, handler, welcomes, unproved, tick, challenge>>
  BY DEF ReadChallenge, CheckChallenge
<1>3. WelcomeInv' BY <1>2 DEF AccountsInv, WelcomeInv, Saw
<1>4. CASE ReadChallenge(c)
  <2>1. /\ check[c] = "new" /\ challenge > 0 /\ tick < challenge + Lifetime
        /\ Remembered.count < MaxChecks /\ tally' = Count(Remembered)
        /\ check' = [check EXCEPT ![c] = "checking"]
    BY <1>4 DEF ReadChallenge, Valid
  <2>2. Remembered = tally
    BY <1>1, <2>1 DEF Remembered, TallyInv, AccountTypes, TallyType, Forgotten
  <2>3. /\ tally'.count = tally.count + 1 /\ tally'.count \in 0 .. MaxChecks
        /\ tally'.expiresAt \in Nat /\ tally'.expiresAt >= challenge + Lifetime
        /\ tally' \in TallyType
    BY <1>1, <2>1, <2>2 DEF Count, TallyInv, AccountTypes, TallyType
  <2>4. Used' = Used \cup {c} /\ c \notin Used
    BY <1>1, <2>1 DEF Used, AccountTypes
  <2>5. IsFiniteSet(Used') /\ Cardinality(Used') = Cardinality(Used) + 1
    BY <1>1, <2>4, FS_AddElement DEF TallyInv
  <2>6. Cardinality(Used) \in Nat BY <1>1, FS_CardinalityType DEF TallyInv
  <2>7. TallyInv'
    BY <1>1, <1>2, <2>1, <2>3, <2>5, <2>6 DEF TallyInv, AccountTypes, TallyType
  <2>8. AccountTypes' BY <1>1, <1>2, <2>1, <2>3 DEF AccountTypes
  <2> QED BY <1>3, <2>7, <2>8 DEF AccountsInv
<1>5. CASE CheckChallenge(c)
  <2>1. /\ check[c] = "checking" /\ check' = [check EXCEPT ![c] = "done"]
        /\ tally' = tally \/ tally' = [count |-> MaxChecks, expiresAt |-> tick + Lifetime]
    BY <1>5 DEF CheckChallenge
  <2>2. Used' = Used /\ c \in Used
    BY <1>1, <2>1 DEF Used, AccountTypes
  <2>3. tally # Forgotten
    <3>1. Cardinality(Used) # 0 BY <1>1, <2>2, FS_EmptySet DEF TallyInv
    <3>2. Cardinality(Used) \in Nat BY <1>1, FS_CardinalityType DEF TallyInv
    <3> QED BY <1>1, <3>1, <3>2 DEF TallyInv, Forgotten
  <2>4. TallyInv' /\ tally' \in TallyType
    <3>1. CASE tally' = tally BY <1>1, <1>2, <2>2, <3>1 DEF TallyInv, AccountTypes
    <3>2. CASE tally' = [count |-> MaxChecks, expiresAt |-> tick + Lifetime]
      <4>1. Cardinality(Used) <= MaxChecks
        <5>1. Cardinality(Used) \in Nat BY <1>1, FS_CardinalityType DEF TallyInv
        <5> QED BY <1>1, <5>1 DEF TallyInv, AccountTypes, TallyType
      <4> QED BY <1>1, <1>2, <2>2, <2>3, <3>2, <4>1 DEF TallyInv, AccountTypes, TallyType
    <3> QED BY <2>1, <3>1, <3>2
  <2>5. AccountTypes' BY <1>1, <1>2, <2>1, <2>4 DEF AccountTypes
  <2> QED BY <1>3, <2>4, <2>5 DEF AccountsInv
<1> QED BY <1>4, <1>5

LEMMA AccountsNext == AccountsInv /\ [AccountStep]_accountVars => AccountsInv'
<1> SUFFICES ASSUME AccountsInv, [AccountStep]_accountVars PROVE AccountsInv'
  OBVIOUS
<1>1. CASE UNCHANGED accountVars
  BY <1>1 DEF accountVars, AccountsInv, AccountTypes, WelcomeInv, Saw, TallyInv, Used
<1>2. ASSUME NEW h \in Clicks, Click(h) PROVE AccountsInv'
  BY <1>2, RefusalKeeps, VerifySteps DEF Click, Handlers
<1>3. ASSUME NEW h \in Entries, EnterCode(h) PROVE AccountsInv'
  BY <1>3, RefusalKeeps, VerifySteps DEF EnterCode, Handlers
<1> QED BY <1>1, <1>2, <1>3, ReadSteps, RegisterSteps, ResendSteps, GoogleSteps, LoginSteps,
           CheckSteps
        DEF AccountStep

(***************************************************************************)
(* Registrations, codes, links, new Google accounts and Google links of a  *)
(* row read verified welcome the owner once among them, for any number of  *)
(* them that race. A Google link of a row that was read unverified sends a *)
(* mail of its own (auth.ts, POST /google), so with one of those that      *)
(* races another way in, the owner is welcomed twice.                      *)
(***************************************************************************)
THEOREM OneWelcome == AccountSpec => []FlipWelcomesOnce
<1>1. AccountsInv => FlipWelcomesOnce
  BY DEF AccountsInv, AccountTypes, WelcomeInv, FlipWelcomesOnce
<1> QED BY <1>1, AccountsStart, AccountsNext, PTL DEF AccountSpec

(***************************************************************************)
(* A login challenge lets in no more checks than it is good for, whatever  *)
(* is sent at once, and although what is remembered of it is dropped.      *)
(***************************************************************************)
THEOREM ChecksBounded == AccountSpec => []ChallengeBounded
<1>1. AccountsInv => ChallengeBounded
  <2> SUFFICES ASSUME AccountsInv PROVE Cardinality(Used) <= MaxChecks
    BY DEF ChallengeBounded, Used
  <2>1. Cardinality(Used) \in Nat BY FS_CardinalityType DEF AccountsInv, TallyInv
  <2> QED BY <2>1, ConstantsTyped DEF AccountsInv, TallyInv, AccountTypes, TallyType
<1> QED BY <1>1, AccountsStart, AccountsNext, PTL DEF AccountSpec

LEMMA AccountsTyped == AccountsInv => AccountsTypeOK
<1> SUFFICES ASSUME AccountsInv PROVE AccountsTypeOK
  OBVIOUS
<1>1. handler \in [Handlers -> [at : {"new", "read", "done"}, read : {Saw(h) : h \in Handlers}]]
  <2>1. ASSUME NEW h \in Handlers
        PROVE  handler[h] \in [at : {"new", "read", "done"}, read : {Saw(g) : g \in Handlers}]
    <3>1. /\ handler[h] \in [at : {"new", "read", "done"}, read : AccountType]
          /\ handler[h].read = Saw(h)
      BY DEF AccountsInv, AccountTypes, Saw
    <3> QED BY <3>1
  <2> QED BY <2>1 DEF AccountsInv, AccountTypes
<1> QED
  BY <1>1 DEF AccountsInv, AccountTypes, AccountType, TallyType, WelcomeInv, AccountsTypeOK

-----------------------------------------------------------------------------
(***************************************************************************)
(* Erasure                                                                 *)
(***************************************************************************)

\* The order of the statements: "users" comes last, so whatever else is kept is
\* passed before the account goes.
LEMMA UsersLast ==
  /\ ErasureOver = 13 /\ DOMAIN Statements = 1 .. 12
  /\ \A i \in 1 .. 12 : Statement(i) = "users" <=> i = 12
  /\ \A table \in Kept : \E i \in 1 .. 11 : Statement(i) = table
<1>1. ErasureOver = 13 /\ DOMAIN Statements = 1 .. 12
  BY DEF ErasureOver, Statements
<1>2. \A i \in 1 .. 12 : Statement(i) = "users" <=> i = 12
  <2>1. /\ Statement(1) # "users" /\ Statement(2) # "users" /\ Statement(3) # "users"
        /\ Statement(4) # "users" /\ Statement(5) # "users" /\ Statement(6) # "users"
        /\ Statement(7) # "users" /\ Statement(8) # "users" /\ Statement(9) # "users"
        /\ Statement(10) # "users" /\ Statement(11) # "users" /\ Statement(12) = "users"
    BY DEF Statement, Statements
  <2>2. \A i \in 1 .. 12 : \/ i = 1 \/ i = 2 \/ i = 3 \/ i = 4 \/ i = 5 \/ i = 6
                          \/ i = 7 \/ i = 8 \/ i = 9 \/ i = 10 \/ i = 11 \/ i = 12
    OBVIOUS
  <2> QED BY <2>1, <2>2
<1>3. ASSUME NEW table \in Kept PROVE \E i \in 1 .. 11 : Statement(i) = table
  <2>1. table \in ToSet(Statements) /\ table # "users"
    BY ErasureAssumption
  <2>2. PICK i \in 1 .. 12 : Statements[i] = table
    BY <1>1, <2>1 DEF ToSet
  <2> QED BY <1>2, <2>1, <2>2 DEF Statement
<1> QED BY <1>1, <1>2, <1>3

(***************************************************************************)
(* Why nothing is left behind: each deletion under way has emptied the     *)
(* tables it has passed, but for the rows that came after it.              *)
(***************************************************************************)
ErasureInv ==
  /\ ErasureTypeOK
  /\ ErasedWhenGone
  /\ \A e \in Erasures : \A table \in rows : PassedBy(e, table) => table \in late

LEMMA ErasureStart == InitErasure => ErasureInv
<1> SUFFICES ASSUME InitErasure PROVE ErasureInv
  OBVIOUS
<1>1. ErasureTypeOK
  <2>1. {accountRow, pakLocked, copied, pakCode, deletionCode} \subseteq BOOLEAN
    BY Zenon DEF InitErasure
  <2> QED BY <2>1, ErasureAssumption, UsersLast DEF InitErasure, ErasureTypeOK
<1>2. \A e \in Erasures, table \in rows : ~ PassedBy(e, table)
  BY DEF InitErasure, PassedBy
<1> QED BY <1>1, <1>2 DEF InitErasure, ErasureInv, ErasedWhenGone

\* What the key does is nothing to the deletion.
LEMMA KeySteps ==
  ASSUME ErasureInv,
         \/ RequestPakCode \/ ConfirmCopied \/ LockEnds
         \/ \E k \in KeyRequests : BeginKey(k) \/ StoreKey(k)
  PROVE  ErasureInv'
<1>1. UNCHANGED <<deletionVars, erasureHalts>>
  BY DEF RequestPakCode, ConfirmCopied, LockEnds, BeginKey, StoreKey, UnchangedByKey
<1>2. ErasureTypeOK'
  <2>1. {accountRow, pakLocked, copied, pakCode, deletionCode}' \subseteq BOOLEAN
    BY <1>1, Zenon
    DEF ErasureInv, ErasureTypeOK, deletionVars, RequestPakCode, ConfirmCopied, LockEnds,
        BeginKey, StoreKey
  <2>2. pak' \in Nat /\ keyRequest' \in [KeyRequests -> {"new", "write", "over"}]
    BY DEF ErasureInv, ErasureTypeOK, RequestPakCode, ConfirmCopied, LockEnds,
           BeginKey, StoreKey, KeyRequestTo
  <2> QED BY <1>1, <2>1, <2>2 DEF ErasureInv, ErasureTypeOK, deletionVars
<1> QED BY <1>1, <1>2 DEF ErasureInv, ErasedWhenGone, PassedBy, deletionVars

\* A row inserted behind a deletion is late.
LEMMA RowAdded ==
  ASSUME ErasureInv, NEW table, AddRow(table), UNCHANGED <<accountRow, erasing>>
  PROVE  /\ late' \subseteq rows' /\ rows' \subseteq Kept
         /\ ErasedWhenGone'
         /\ \A e \in Erasures : \A t \in rows' : PassedBy(e, t)' => t \in late'
<1>1. \A e \in Erasures : \A t : PassedBy(e, t)' <=> PassedBy(e, t)
  BY DEF PassedBy
<1>2. CASE table \notin Kept
  BY <1>1, <1>2 DEF AddRow, ErasureInv, ErasureTypeOK, ErasedWhenGone
<1>3. CASE table \in Kept
  BY <1>1, <1>3 DEF AddRow, ErasureInv, ErasureTypeOK, ErasedWhenGone
<1> QED BY <1>2, <1>3

LEMMA InsertSteps ==
  ASSUME ErasureInv,
         RequestDeletionCode \/ \E w \in Inserts : LetInsert(w) \/ InsertLater(w)
  PROVE  ErasureInv'
<1>1. CASE RequestDeletionCode
  <2>1. AddRow("otp_codes") /\ UNCHANGED <<accountRow, erasing>>
    BY <1>1 DEF RequestDeletionCode
  <2>2. ErasureTypeOK'
    BY <1>1, <2>1, RowAdded
    DEF RequestDeletionCode, ErasureInv, ErasureTypeOK, UnchangedByErasure, keyVars
  <2> QED BY <2>1, <2>2, RowAdded DEF ErasureInv
<1>2. ASSUME NEW w \in Inserts, LetInsert(w) PROVE ErasureInv'
  BY <1>2 DEF LetInsert, ErasureInv, ErasureTypeOK, ErasedWhenGone, PassedBy,
              UnchangedByErasure, keyVars
<1>3. ASSUME NEW w \in Inserts, InsertLater(w) PROVE ErasureInv'
  <2>1. PICK table \in Kept : AddRow(table)
    BY <1>3 DEF InsertLater
  <2>2. UNCHANGED <<accountRow, erasing>>
    BY <1>3 DEF InsertLater
  <2>3. ErasureTypeOK'
    BY <1>3, <2>1, <2>2, RowAdded
    DEF InsertLater, ErasureInv, ErasureTypeOK, UnchangedByErasure, keyVars
  <2> QED BY <2>1, <2>2, <2>3, RowAdded DEF ErasureInv
<1> QED BY <1>1, <1>2, <1>3

\* A deletion begins having passed nothing.
LEMMA DeletionBegins ==
  ASSUME ErasureInv, NEW e \in Erasures, BeginErasure(e)
  PROVE  ErasureInv'
<1>1. ErasureTypeOK'
  <2>1. {accountRow, pakLocked, copied, pakCode, deletionCode}' \subseteq BOOLEAN
    BY Zenon DEF BeginErasure, ErasureInv, ErasureTypeOK, UnchangedByErasure, keyVars
  <2> QED BY <2>1, UsersLast
          DEF BeginErasure, ErasureInv, ErasureTypeOK, UnchangedByErasure, keyVars
<1>2. \A f \in Erasures : \A t : PassedBy(f, t)' => PassedBy(f, t)
  BY UsersLast DEF BeginErasure, PassedBy, ErasureInv, ErasureTypeOK
<1> QED BY <1>1, <1>2 DEF BeginErasure, ErasureInv, ErasedWhenGone

\* Each statement passes its table, and the last one finds all others passed.
LEMMA StatementRuns ==
  ASSUME ErasureInv, NEW e \in Erasures, EraseNext(e)
  PROVE  ErasureInv'
<1> DEFINE table == Statement(erasing[e])
<1>1. /\ erasing[e] \in 1 .. 12 /\ erasing \in [Erasures -> 0 .. 13]
      /\ erasing' = [erasing EXCEPT ![e] = @ + 1]
      /\ rows' = rows \ {table} /\ late' = late \ {table}
      /\ accountRow' = (accountRow /\ table # "users")
      /\ late \subseteq rows /\ rows \subseteq Kept
  BY UsersLast DEF EraseNext, ErasureInv, ErasureTypeOK
<1>2. ErasureTypeOK'
  BY <1>1, UsersLast
  DEF EraseNext, ErasureInv, ErasureTypeOK, UnchangedByErasure, keyVars
<1>3. \A f \in Erasures : \A t \in rows' : PassedBy(f, t)' => t \in late'
  <2>1. ASSUME NEW f \in Erasures, NEW t \in rows', PassedBy(f, t)' PROVE PassedBy(f, t)
    BY <1>1, <2>1, UsersLast DEF PassedBy
  <2> QED BY <1>1, <2>1 DEF ErasureInv
<1>4. ErasedWhenGone'
  <2>1. CASE erasing[e] # 12
    BY <1>1, <2>1, UsersLast DEF ErasureInv, ErasedWhenGone
  <2>2. CASE erasing[e] = 12
    <3>1. \A t \in rows : PassedBy(e, t)
      BY <1>1, <2>2, UsersLast DEF PassedBy
    <3> QED BY <1>1, <3>1 DEF ErasureInv, ErasedWhenGone
  <2> QED BY <2>1, <2>2
<1> QED BY <1>2, <1>3, <1>4 DEF ErasureInv

\* A deletion that was cut short passes nothing any more.
LEMMA DeletionCut == ASSUME ErasureInv, ErasureHalt PROVE ErasureInv'
<1>1. ErasureTypeOK'
  BY ErasureAssumption, UsersLast DEF ErasureHalt, ErasureInv, ErasureTypeOK
<1>2. \A f \in Erasures : \A t : ~ PassedBy(f, t)'
  BY UsersLast DEF ErasureHalt, PassedBy
<1> QED BY <1>1, <1>2 DEF ErasureHalt, ErasureInv, ErasedWhenGone

LEMMA ErasureNext == ErasureInv /\ [ErasureStep]_erasureVars => ErasureInv'
<1> SUFFICES ASSUME ErasureInv, [ErasureStep]_erasureVars PROVE ErasureInv'
  OBVIOUS
<1>1. CASE UNCHANGED erasureVars
  BY <1>1 DEF erasureVars, keyVars, deletionVars, ErasureInv, ErasureTypeOK, ErasedWhenGone,
              PassedBy
<1> QED BY <1>1, KeySteps, InsertSteps, DeletionBegins, StatementRuns, DeletionCut
        DEF ErasureStep

(***************************************************************************)
(* In the tables that the deletion names (security.ts, DELETE /account),   *)
(* nothing outlives the account but what requests under way inserted       *)
(* behind its statement: for any number of deletions that run at once, are *)
(* cut short and are started again. Tables it does not name (passkeys,     *)
(* subscriptions, passports, developer accounts) keep their rows.          *)
(***************************************************************************)
THEOREM NothingLeftBehind == ErasureSpec => []ErasedWhenGone
<1>1. ErasureInv => ErasedWhenGone
  BY DEF ErasureInv
<1> QED BY <1>1, ErasureStart, ErasureNext, PTL DEF ErasureSpec
=============================================================================
