---------------------------- MODULE OneTimeCodes ----------------------------
(***************************************************************************)
(* The six-digit codes of one user for one purpose: issuing, voiding,      *)
(* counting wrong guesses, and the routes that ask for a code and then,    *)
(* before they spend it, for a second factor (SecondFactor has that one).  *)
(* The rows of otp_codes are in the database; the guesses and the times of *)
(* issue are in memory.  A step is one statement, or what runs between two *)
(* of them.                                                                *)
(***************************************************************************)
EXTENDS Naturals, FiniteSets

CONSTANTS
  OtpCodes,      \* codes that may be issued, each by one request
  Nothing,       \* no code
  Confirms,      \* requests that present a code
  Presents,      \* what each may present; what is no code is a wrong guess
  MaxFailures,   \* OTP_MAX_FAILURES
  MaxIssues,     \* MAX_ISSUES_PER_HOUR
  MaxOtpRestarts \* bound: restarts of the server

ASSUME OneTimeCodesAssumption ==
  /\ DOMAIN Presents = Confirms /\ Nothing \notin OtpCodes
  /\ MaxFailures \in Nat \ {0} /\ MaxIssues \in Nat \ {0}
  /\ MaxOtpRestarts \in Nat

VARIABLES
  otp,       \* otp_codes: the state of each code
  failures,  \* failures.get(key)
  issued,    \* issued.get(key): codes of the last hour, and whether one is of the last 30 s
  issue,     \* the requests that issue a code: their next step and the count they read
  confirm,   \* the requests that present one: their next step
  accepted,  \* how often each code was accepted
  voided,    \* codes voided by a newer one or by wrong guesses
  otpRestarts

memory == <<failures, issued>>
history == <<accepted, voided>>
otpVars ==
  <<otp, memory, issue, confirm, history, otpRestarts>>

Unspent == {"live", "expired"}     \* used = false
NeverIssued == [n |-> 0, fresh |-> FALSE]

InitOneTimeCodes ==
  /\ otp = [c \in OtpCodes |-> "none"]
  /\ failures = 0
  /\ issued = NeverIssued
  /\ issue = [c \in OtpCodes |-> [at |-> "new", recent |-> 0]]
  /\ confirm = [v \in Confirms |-> [at |-> "new", code |-> Nothing]]
  /\ accepted = [c \in OtpCodes |-> 0]
  /\ voided = {}
  /\ otpRestarts = 0

-----------------------------------------------------------------------------
(***************************************************************************)
(* issueOtp                                                                *)
(***************************************************************************)
IssueOver == [at |-> "over", recent |-> 0]

IssueStep(c, from, to) ==
  /\ issue[c].at = from
  /\ issue' = [issue EXCEPT ![c] = IF to = "over" THEN IssueOver ELSE [@ EXCEPT !.at = to]]

\* One code in 30 seconds, MaxIssues in an hour; the count is kept for later.
Throttled == issued.fresh \/ issued.n >= MaxIssues

BeginIssue(c) ==
  /\ issue[c].at = "new"
  /\ ~ Throttled
  /\ issue' = [issue EXCEPT ![c] = [at |-> "void", recent |-> issued.n]]
  /\ UNCHANGED <<otp, memory, confirm, history, otpRestarts>>

VoidCodes ==
  /\ otp' = [c \in OtpCodes |-> IF otp[c] \in Unspent THEN "used" ELSE otp[c]]
  /\ voided' = voided \cup {c \in OtpCodes : otp[c] \in Unspent}

VoidEarlier(c) ==
  /\ IssueStep(c, "void", "insert")
  /\ VoidCodes
  /\ UNCHANGED <<memory, confirm, accepted, otpRestarts>>

InsertOtp(c) ==
  /\ IssueStep(c, "insert", "record")
  /\ otp' = [otp EXCEPT ![c] = "live"]
  /\ UNCHANGED <<memory, confirm, history, otpRestarts>>

RecordIssue(c) ==
  /\ IssueStep(c, "record", "over")
  /\ issued' = [n |-> issue[c].recent + 1, fresh |-> TRUE]
  /\ failures' = 0
  /\ UNCHANGED <<otp, confirm, history, otpRestarts>>

-----------------------------------------------------------------------------
(***************************************************************************)
(* findOtp, the second factor, consumeOtp, in the order of the routes      *)
(***************************************************************************)
ConfirmOver == [at |-> "over", code |-> Nothing]

ConfirmStep(v, from, to) ==
  /\ confirm[v].at = from
  /\ confirm' = [confirm EXCEPT ![v] = IF to = "over" THEN ConfirmOver ELSE [@ EXCEPT !.at = to]]

\* The code is looked for unless guessing is locked.
FindOtp(v, code) ==
  /\ confirm[v].at = "new"
  /\ failures < MaxFailures
  /\ LET live == code \in OtpCodes /\ otp[code] = "live"
     IN confirm' = [confirm EXCEPT ![v] = IF live
          THEN [at |-> "right", code |-> code]
          ELSE [at |-> "wrong", code |-> Nothing]]
  /\ UNCHANGED <<otp, memory, issue, history, otpRestarts>>

RightCode(v) ==
  /\ ConfirmStep(v, "right", "factor")
  /\ failures' = 0
  /\ issued' = NeverIssued
  /\ UNCHANGED <<otp, issue, history, otpRestarts>>

WrongCode(v) ==
  /\ ConfirmStep(v, "wrong", IF failures + 1 >= MaxFailures THEN "lock" ELSE "over")
  /\ failures' = failures + 1
  /\ UNCHANGED <<otp, issued, issue, history, otpRestarts>>

LockOut(v) ==
  /\ ConfirmStep(v, "lock", "over")
  /\ VoidCodes
  /\ UNCHANGED <<memory, issue, accepted, otpRestarts>>

\* The authenticator's code or the authorization key was right, or none is asked for.
PassFactor(v) ==
  /\ ConfirmStep(v, "factor", "consume")
  /\ UNCHANGED <<otp, memory, issue, history, otpRestarts>>

\* A wrong authenticator code, a step that is taken, a wrong authorization key.
FailFactor(v) ==
  /\ ConfirmStep(v, "factor", "over")
  /\ UNCHANGED <<otp, memory, issue, history, otpRestarts>>

\* Mutant of StillUnspent: the row is marked whatever it is.
SpentOrNot(c) == TRUE

StillUnspent(c) == otp[c] \in Unspent

ConsumeOtp(v) ==
  /\ ConfirmStep(v, "consume", "over")
  /\ LET c == confirm[v].code
     IN IF StillUnspent(c)
          THEN /\ otp' = [otp EXCEPT ![c] = "used"]
               /\ accepted' = [accepted EXCEPT ![c] = @ + 1]
          ELSE UNCHANGED <<otp, accepted>>
  /\ UNCHANGED <<memory, issue, voided, otpRestarts>>

-----------------------------------------------------------------------------
(***************************************************************************)
(* Time, the cleanup worker, a restart                                     *)
(***************************************************************************)
ExpireOtp(c) ==
  /\ otp[c] = "live"
  /\ otp' = [otp EXCEPT ![c] = "expired"]
  /\ UNCHANGED <<memory, issue, confirm, history, otpRestarts>>

RunCleanup ==
  /\ \E c \in OtpCodes : otp[c] \in {"used", "expired"}
  /\ otp' = [c \in OtpCodes |-> IF otp[c] \in {"used", "expired"} THEN "deleted" ELSE otp[c]]
  /\ UNCHANGED <<memory, issue, confirm, history, otpRestarts>>

\* The 30 seconds, or the hour, after an issue are over.
IssueAges ==
  /\ issued.n > 0
  /\ issued' = IF issued.fresh THEN [issued EXCEPT !.fresh = FALSE]
                               ELSE [issued EXCEPT !.n = @ - 1]
  /\ UNCHANGED <<otp, failures, issue, confirm, history, otpRestarts>>

OtpRestart ==
  /\ otpRestarts < MaxOtpRestarts
  /\ otpRestarts' = otpRestarts + 1
  /\ failures' = 0
  /\ issued' = NeverIssued
  /\ issue' = [c \in OtpCodes |-> IF issue[c].at = "new" THEN issue[c] ELSE IssueOver]
  /\ confirm' = [v \in Confirms |-> IF confirm[v].at = "new" THEN confirm[v] ELSE ConfirmOver]
  /\ UNCHANGED <<otp, history>>

OtpStep ==
  \/ \E c \in OtpCodes :
       BeginIssue(c) \/ VoidEarlier(c) \/ InsertOtp(c) \/ RecordIssue(c) \/ ExpireOtp(c)
  \/ \E v \in Confirms :
       \/ \E code \in Presents[v] : FindOtp(v, code)
       \/ RightCode(v) \/ WrongCode(v) \/ LockOut(v)
       \/ PassFactor(v) \/ FailFactor(v) \/ ConsumeOtp(v)
  \/ RunCleanup \/ IssueAges \/ OtpRestart

OtpSpec == InitOneTimeCodes /\ [][OtpStep]_otpVars

-----------------------------------------------------------------------------
(***************************************************************************)
(* Properties.                                                             *)
(***************************************************************************)

\* Types.
OtpTypeOK ==
  /\ otp \in [OtpCodes -> Unspent \cup {"none", "used", "deleted"}]
  /\ failures \in Nat
  /\ issued \in [n : Nat, fresh : BOOLEAN]
  /\ issue \in [OtpCodes -> [at : {"new", "void", "insert", "record", "over"}, recent : Nat]]
  /\ confirm \in [Confirms ->
       [at : {"new", "right", "wrong", "lock", "factor", "consume", "over"},
        code : OtpCodes \cup {Nothing}]]
  /\ otpRestarts \in 0 .. MaxOtpRestarts
  /\ voided \subseteq OtpCodes

\* A code is accepted at most once, whatever requests present it at the same
\* time, and never after it was voided (consumeOtp: "false if another request
\* already used it").
AcceptedOnce ==
  /\ \A c \in OtpCodes : accepted[c] <= 1
  /\ \A c \in OtpCodes : c \in voided => accepted[c] = 0
=============================================================================
