------------------------------ MODULE Passports ------------------------------
(***************************************************************************)
(* The Subscription Passport of one user and the transaction password      *)
(* behind it.  A payment issues the passport or, unless the developer's    *)
(* API took the code, lifts a suspension; a change of the password         *)
(* suspends it; the user revokes it.  Each of them reads the row and       *)
(* writes it in a later statement.                                         *)
(***************************************************************************)
EXTENDS Naturals

CONSTANTS
  Payments,        \* requests that start a subscription
  Revocations,     \* DELETE /passport
  FirstPasswords,  \* POST /txn-password/set
  PasswordChanges, \* POST /change-txn-password/confirm
  MaxPassportHalts \* bound: restarts

ASSUME PassportsAssumption == MaxPassportHalts \in Nat

VARIABLES
  passport,      \* the row of subscription_passports, "none" if there is none
  password,      \* users.transaction_password_hash: 0, or which one it is
  payment, revocation, first, change,  \* the next step of each request
  revoked,       \* history: the user has revoked it
  overtaken,     \* history: payments about to lift a suspension when that was written last
  undone,        \* history: those of them that have lifted it since
  passportHalts

passportJobs == <<payment, revocation, first, change>>
passportVars ==
  <<passport, password, passportJobs, revoked, overtaken, undone, passportHalts>>

\* POST /checkout, /pay/checkout, /activate, the developer's /validate, and those
\* that want a passport.
Kinds == {"checkout", "pay", "activate", "validate", "holder"}

NotPaying == [at |-> "new", kind |-> "none"]
PaymentOver == [at |-> "over", kind |-> "none"]

InitPassports ==
  /\ passport = "none"
  /\ password = 0
  /\ payment = [p \in Payments |-> NotPaying]
  /\ revocation = [r \in Revocations |-> "new"]
  /\ first = [f \in FirstPasswords |-> "new"]
  /\ change = [c \in PasswordChanges |-> "new"]
  /\ revoked = FALSE
  /\ overtaken = {} /\ undone = {}
  /\ passportHalts = 0

-----------------------------------------------------------------------------
(***************************************************************************)
(* Payments                                                                *)
(***************************************************************************)
UnchangedByPayment ==
  UNCHANGED <<password, revocation, first, change, revoked, overtaken, passportHalts>>

PaymentTo(p, from, to) ==
  /\ payment[p].at = from
  /\ payment' = [payment EXCEPT
       ![p] = IF to = "over" THEN PaymentOver ELSE [@ EXCEPT !.at = to]]

\* POST /checkout wants a transaction password, the holder's way an active passport.
Approve(p, kind) ==
  /\ payment[p].at = "new"
  /\ kind = "checkout" => password > 0
  /\ kind = "holder" => passport = "active"
  /\ payment' = [payment EXCEPT ![p] = [at |-> "pay", kind |-> kind]]
  /\ UNCHANGED <<passport, undone>> /\ UnchangedByPayment

\* The subscription is started, or not; a holder has a passport already.
StartedOrRefused(p) ==
  /\ \/ PaymentTo(p, "pay", "over")
     \/ payment[p].kind # "holder" /\ PaymentTo(p, "pay", "read")
  /\ UNCHANGED <<passport, undone>> /\ UnchangedByPayment

Lifts(kind) == kind \in {"checkout", "pay", "activate"}

ReadPassport(p) ==
  /\ PaymentTo(p, "read",
       IF passport = "none" THEN "issue"
       ELSE IF passport = "suspended" /\ Lifts(payment[p].kind) THEN "lift"
       ELSE "over")
  /\ UNCHANGED <<passport, undone>> /\ UnchangedByPayment

\* user_id is unique: a second insert fails, and the payment goes on without it.
IssuePassport(p) ==
  /\ PaymentTo(p, "issue", "over")
  /\ passport' = IF passport = "none" THEN "active" ELSE passport
  /\ UNCHANGED undone /\ UnchangedByPayment

LiftSuspension(p) ==
  /\ PaymentTo(p, "lift", "over")
  /\ passport' = "active"
  /\ undone' = IF p \in overtaken THEN undone \cup {p} ELSE undone
  /\ UnchangedByPayment

-----------------------------------------------------------------------------
(***************************************************************************)
(* Revocation                                                              *)
(***************************************************************************)
BeginRevocation(r) ==
  /\ revocation[r] = "new"
  /\ passport \notin {"none", "revoked"}
  /\ revocation' = [revocation EXCEPT ![r] = "write"]
  /\ UNCHANGED <<passport, password, payment, first, change, revoked, overtaken, undone,
                 passportHalts>>

Lifting == {p \in Payments : payment[p].at = "lift"}

Revoke(r) ==
  /\ revocation[r] = "write"
  /\ revocation' = [revocation EXCEPT ![r] = "over"]
  /\ passport' = "revoked"
  /\ revoked' = TRUE
  /\ overtaken' = Lifting /\ undone' = {}
  /\ UNCHANGED <<password, payment, first, change, passportHalts>>

-----------------------------------------------------------------------------
(***************************************************************************)
(* The transaction password                                                *)
(***************************************************************************)
UnchangedByPassword ==
  UNCHANGED <<payment, revocation, revoked, overtaken, undone, passportHalts>>

\* For the first one no proof is asked, so there must be none; but that was read
\* before the hash was computed.
BeginFirst(f) ==
  /\ first[f] = "new" /\ password = 0
  /\ first' = [first EXCEPT ![f] = "write"]
  /\ UNCHANGED <<passport, password, change>> /\ UnchangedByPassword

WriteFirst(f) ==
  /\ first[f] = "write"
  /\ first' = [first EXCEPT ![f] = "over"]
  /\ password' = password + 1
  /\ UNCHANGED <<passport, change>> /\ UnchangedByPassword

\* After the code and the second factor (OneTimeCodes).
WriteNewPassword(c) ==
  /\ change[c] = "new"
  /\ change' = [change EXCEPT ![c] = "suspend"]
  /\ password' = password + 1
  /\ UNCHANGED <<passport, first>> /\ UnchangedByPassword

\* Mutant of MaySuspend: whatever the row is.
SuspendAny == passport # "none"

MaySuspend == passport \notin {"none", "revoked"}

\* "old TXN password verification is now stale".
SuspendPassport(c) ==
  /\ change[c] = "suspend"
  /\ change' = [change EXCEPT ![c] = "over"]
  /\ passport' = IF MaySuspend THEN "suspended" ELSE passport
  /\ UNCHANGED <<password, first>> /\ UnchangedByPassword

-----------------------------------------------------------------------------
\* A restart ends every request, also one between its two writes.
PassportHalt ==
  /\ passportHalts < MaxPassportHalts
  /\ passportHalts' = passportHalts + 1
  /\ payment' = [p \in Payments |-> IF payment[p].at = "new" THEN NotPaying ELSE PaymentOver]
  /\ revocation' = [r \in Revocations |-> IF revocation[r] = "new" THEN "new" ELSE "over"]
  /\ first' = [f \in FirstPasswords |-> IF first[f] = "new" THEN "new" ELSE "over"]
  /\ change' = [c \in PasswordChanges |-> IF change[c] = "new" THEN "new" ELSE "over"]
  /\ UNCHANGED <<passport, password, revoked, overtaken, undone>>

PassportsStep ==
  \/ \E p \in Payments :
       \/ \E kind \in Kinds : Approve(p, kind)
       \/ StartedOrRefused(p) \/ ReadPassport(p) \/ IssuePassport(p) \/ LiftSuspension(p)
  \/ \E r \in Revocations : BeginRevocation(r) \/ Revoke(r)
  \/ \E f \in FirstPasswords : BeginFirst(f) \/ WriteFirst(f)
  \/ \E c \in PasswordChanges : WriteNewPassword(c) \/ SuspendPassport(c)
  \/ PassportHalt

PassportsSpec == InitPassports /\ [][PassportsStep]_passportVars

-----------------------------------------------------------------------------
(***************************************************************************)
(* Properties.                                                             *)
(***************************************************************************)

\* Types.
PassportsTypeOK ==
  /\ passport \in {"none", "active", "suspended", "revoked"}
  /\ password \in Nat
  /\ payment \in [Payments ->
       [at : {"new", "pay", "read", "issue", "lift", "over"}, kind : Kinds \cup {"none"}]]
  /\ revocation \in [Revocations -> {"new", "write", "over"}]
  /\ first \in [FirstPasswords -> {"new", "write", "over"}]
  /\ change \in [PasswordChanges -> {"new", "suspend", "over"}]
  /\ revoked \in BOOLEAN /\ overtaken \subseteq Payments /\ undone \subseteq Payments
  /\ passportHalts \in 0 .. MaxPassportHalts

\* Neither a payment that reads the passport after it was revoked reinstates it, nor
\* a change of the password, by way of a suspension that a later payment lifts.  What
\* does is a payment that had read "suspended" before: see RevokedIsFinal.
OnlyOvertakenReinstate == revoked /\ undone = {} => passport = "revoked"

\* "Revoked passports are not reinstated."
RevokedIsFinal == revoked => passport = "revoked"
=============================================================================
