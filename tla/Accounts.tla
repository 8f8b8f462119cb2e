------------------------------- MODULE Accounts -------------------------------
(***************************************************************************)
(* The account of one email address: registrations, the code and the link  *)
(* that verify it, Google sign-ins that create or link it, password logins *)
(* with their lockout, and the challenge that stands between a Google      *)
(* sign-in and the authenticator. Every handler reads the row, awaits, and *)
(* writes it. The codes themselves are in OneTimeCodes.                    *)
(***************************************************************************)
EXTENDS Integers, FiniteSets

CONSTANTS
  Registrations, \* POST /register
  Resends,       \* POST /resend-verification: each makes a link of its own
  Clicks,        \* GET /verify-email
  Entries,       \* POST /verify-otp with the right sign-up code
  Googles,       \* POST /google, of the identity that owns the address
  Logins,        \* POST /login
  Checks,        \* POST /2fa/verify-login and /2fa/verify-login-biometric
  LoginMaxAttempts,   \* LOGIN_MAX_ATTEMPTS
  MaxChecks,     \* MAX_CHALLENGE_ATTEMPTS
  Lifetime,      \* of a challenge, and of what is remembered of it
  WithTotp,      \* whether the authenticator is on once the account is verified
  LastTick,      \* bound: time
  MaxHandled     \* bound: requests made

ASSUME AccountsAssumption ==
  /\ {LoginMaxAttempts, MaxChecks, Lifetime, LastTick, MaxHandled} \subseteq Nat
  /\ WithTotp \in BOOLEAN

Handlers == Registrations \cup Resends \cup Clicks \cup Entries \cup Googles \cup Logins

VARIABLES
  account,   \* users: the row, or NoAccount
  handler,   \* each request: where it is and the row it read
  welcomes,  \* history: welcome mails sent
  unproved,  \* history: Google links of a row that was read unverified
  tick,
  challenge, \* the one login challenge: when it was issued; 0 for never
  tally,  \* what is remembered of it: checks counted, and until when
  check      \* each check of it: "new", "checking", "done"

accountVars == <<account, handler, welcomes, unproved, tick, challenge, tally, check>>
challengeVars == <<challenge, tally, check>>

NoAccount == [exists |-> FALSE, verified |-> FALSE, google |-> FALSE, password |-> "none",
              link |-> "none", loginAttempts |-> 0, lockedUntil |-> 0]
Forgotten == [count |-> 0, expiresAt |-> 0]

InitAccounts ==
  /\ account = NoAccount
  /\ handler = [h \in Handlers |-> [at |-> "new", read |-> NoAccount]]
  /\ welcomes = 0 /\ unproved = 0
  /\ tick = 1
  /\ challenge = 0
  /\ tally = Forgotten
  /\ check = [c \in Checks |-> "new"]

Read(h) ==
  /\ handler[h].at = "new"
  /\ Cardinality({g \in Handlers : handler[g].at # "new"}) < MaxHandled
  /\ handler' = [handler EXCEPT ![h] = [at |-> "read", read |-> account]]
  /\ UNCHANGED <<account, welcomes, unproved, tick, challengeVars>>

Answers(h) ==
  /\ handler[h].at = "read"
  /\ handler' = [handler EXCEPT ![h] = [at |-> "done", read |-> NoAccount]]
  /\ UNCHANGED tick

Refused(h) == Answers(h) /\ UNCHANGED <<account, welcomes, unproved, challengeVars>>

Write(h, row) == Answers(h) /\ account' = row /\ UNCHANGED <<unproved, challengeVars>>
Saw(h) == handler[h].read
-----------------------------------------------------------------------------
\* A new row, or the pending one overwritten, verified meanwhile or not. The
\* unique index refuses a second row.
Register(h) ==
  \/ Saw(h).verified /\ Refused(h)
  \/ /\ Saw(h).exists /\ ~Saw(h).verified
     /\ Write(h, [account EXCEPT !.password = h, !.link = "none"])
     /\ UNCHANGED welcomes
  \/ /\ ~Saw(h).exists
     /\ IF account.exists THEN Refused(h)
        ELSE /\ Write(h, [NoAccount EXCEPT !.exists = TRUE, !.password = h])
             /\ UNCHANGED welcomes

ResendVerification(h) ==
  \/ (Saw(h).verified \/ ~Saw(h).exists) /\ Refused(h)
  \/ /\ Saw(h).exists /\ ~Saw(h).verified
     /\ Write(h, [account EXCEPT !.link = h])
     /\ UNCHANGED welcomes

Unverified == account.exists /\ ~account.verified

\* Only the request that flips the row sends the welcome mail.
Verify(h) ==
  IF Unverified
  THEN /\ Write(h, [account EXCEPT !.verified = TRUE, !.link = "none"])
       /\ welcomes' = welcomes + 1
  ELSE Refused(h)

\* The link is looked up in the row that was read.
Click(h) ==
  \/ (Saw(h).verified \/ Saw(h).link = "none") /\ Refused(h)
  \/ ~Saw(h).verified /\ Saw(h).link # "none" /\ Verify(h)

EnterCode(h) ==
  \/ (Saw(h).verified \/ ~Saw(h).exists) /\ Refused(h)
  \/ ~Saw(h).verified /\ Saw(h).exists /\ Verify(h)

\* A session, or the challenge when the authenticator is on.
SignedIn(row) ==
  IF row.verified /\ WithTotp /\ challenge = 0 THEN challenge' = tick /\ UNCHANGED <<tally, check>>
  ELSE UNCHANGED challengeVars

\* The first verification discards the password registered before.
Linked(seen) ==
  IF seen.verified THEN [account EXCEPT !.google = TRUE]
  ELSE [account EXCEPT !.google = TRUE, !.verified = TRUE, !.link = "none", !.password = "unusable"]

Google(h) ==
  /\ Answers(h)
  /\ \/ /\ Saw(h).google
        /\ SignedIn(account)
        /\ UNCHANGED <<account, welcomes, unproved>>
     \/ /\ Saw(h).exists /\ ~Saw(h).google
        /\ account' = Linked(Saw(h))
        /\ welcomes' = welcomes + (IF Saw(h).verified THEN 0 ELSE 1)
        /\ unproved' = unproved + (IF Saw(h).verified THEN 0 ELSE 1)
        /\ SignedIn(account')
     \/ /\ ~Saw(h).exists
        /\ IF account.exists THEN UNCHANGED <<account, welcomes>>
           ELSE /\ account' = [NoAccount EXCEPT !.exists = TRUE, !.verified = TRUE,
                                                !.google = TRUE, !.password = "unusable"]
                /\ welcomes' = welcomes + 1
        /\ UNCHANGED <<unproved, challengeVars>>
-----------------------------------------------------------------------------
\* A wrong password: the count that was read, plus one, or the lock.
WrongPassword(h) ==
  /\ Answers(h)
  /\ account' =
       IF Saw(h).loginAttempts + 1 >= LoginMaxAttempts
       THEN [account EXCEPT !.loginAttempts = 0, !.lockedUntil = tick + Lifetime]
       ELSE [account EXCEPT !.loginAttempts = Saw(h).loginAttempts + 1]
  /\ UNCHANGED <<welcomes, unproved, challengeVars>>

\* The right one clears the count if there was one, and goes on to the codes.
RightPassword(h) ==
  /\ Saw(h).password \in Registrations
  /\ Write(h, IF Saw(h).loginAttempts > 0 \/ Saw(h).lockedUntil > 0
              THEN [account EXCEPT !.loginAttempts = 0, !.lockedUntil = 0] ELSE account)
  /\ UNCHANGED welcomes

Login(h) ==
  \/ (~Saw(h).exists \/ Saw(h).lockedUntil > tick) /\ Refused(h)
  \/ /\ Saw(h).exists /\ Saw(h).lockedUntil <= tick
     /\ WrongPassword(h) \/ RightPassword(h)
-----------------------------------------------------------------------------
\* readLoginChallenge: counted before anything is awaited. What is remembered
\* of the challenge is dropped once it is older than the challenge can be.
Remembered == IF tally.expiresAt < tick THEN Forgotten ELSE tally
Valid == challenge > 0 /\ tick < challenge + Lifetime

\* Mutant of Count: it is counted once the code has been checked.
CountLater(entry) == [entry EXCEPT !.expiresAt = tick + Lifetime]

Count(entry) ==
  [count |-> entry.count + 1,
   expiresAt |-> IF entry = Forgotten THEN tick + Lifetime ELSE entry.expiresAt]

ReadChallenge(c) ==
  /\ check[c] = "new"
  /\ Valid /\ Remembered.count < MaxChecks
  /\ tally' = Count(Remembered)
  /\ check' = [check EXCEPT ![c] = "checking"]
  /\ UNCHANGED <<account, handler, welcomes, unproved, tick, challenge>>

\* The right code or passkey uses the challenge up.
CheckChallenge(c) ==
  /\ check[c] = "checking"
  /\ check' = [check EXCEPT ![c] = "done"]
  /\ \/ tally' = [count |-> MaxChecks, expiresAt |-> tick + Lifetime]
     \/ UNCHANGED tally
  /\ UNCHANGED <<account, handler, welcomes, unproved, tick, challenge>>

Wait ==
  /\ tick < LastTick
  /\ tick' = tick + 1
  /\ UNCHANGED <<account, handler, welcomes, unproved, challengeVars>>

AccountStep ==
  \/ \E h \in Handlers : Read(h)
  \/ \E h \in Registrations : handler[h].at = "read" /\ Register(h)
  \/ \E h \in Resends : handler[h].at = "read" /\ ResendVerification(h)
  \/ \E h \in Clicks : handler[h].at = "read" /\ Click(h)
  \/ \E h \in Entries : handler[h].at = "read" /\ EnterCode(h)
  \/ \E h \in Googles : handler[h].at = "read" /\ Google(h)
  \/ \E h \in Logins : handler[h].at = "read" /\ Login(h)
  \/ \E c \in Checks : ReadChallenge(c) \/ CheckChallenge(c)
  \/ Wait

AccountSpec == InitAccounts /\ [][AccountStep]_accountVars
-----------------------------------------------------------------------------
AccountsTypeOK ==
  /\ account.exists \in BOOLEAN /\ account.google \in BOOLEAN
  /\ account.verified => account.exists
  /\ account.password \in Registrations \cup {"none", "unusable"}
  /\ account.link \in Resends \cup {"none"}
  /\ account.loginAttempts \in 0..LoginMaxAttempts
  /\ handler \in [Handlers -> [at : {"new", "read", "done"}, read : {Saw(h) : h \in Handlers}]]
  /\ tally.count \in 0..MaxChecks
  /\ check \in [Checks -> {"new", "checking", "done"}]

\* The sign-up code, the link and a first Google sign-in welcome the owner once among
\* them, however they race. The Google links of a row that was read unverified are
\* counted apart: each of them sends a mail, whether or not it is the request that
\* verifies the account.
FlipWelcomesOnce == welcomes - unproved <= 1

(***************************************************************************)
(* A challenge is good for MaxChecks checks in all, also when they are     *)
(* sent at once and when what is remembered of it is dropped.              *)
(* (two-factor.ts, readLoginChallenge: "Each challenge allows a limited    *)
(* number of code attempts before it must be restarted".)                  *)
(***************************************************************************)
ChallengeBounded == Cardinality({c \in Checks : check[c] # "new"}) <= MaxChecks
=============================================================================
