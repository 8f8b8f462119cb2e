---------------------------- MODULE SecondFactor ----------------------------
(***************************************************************************)
(* Two-factor authentication of one user: setting up, checking and         *)
(* removing the authenticator, registering a passkey, and signing in with  *)
(* the passkey after the password.  The secrets, the last time step and    *)
(* the passkeys are in the database, the tickets and the challenges in     *)
(* memory.  A secret bears the name of the set-up that created it, a       *)
(* passkey that of its registration.  The code of a time step is the step. *)
(***************************************************************************)
EXTENDS Naturals, FiniteSets

CONSTANTS
  Setups,     \* POST /security/2fa/setup
  Enables,    \* POST /security/2fa/enable
  Disables,   \* POST /security/2fa/disable
  TotpChecks, \* the other requests that check a code with checkUserTotp
  TimeSteps,  \* time steps of which a code may be presented
  Devices,    \* POST /webauthn/register/options and then /verify
  Tickets,    \* POST /auth/login with the right password
  Biometrics, \* POST /auth/login/biometric
  Missing,    \* null
  MaxReboots  \* bound: restarts of the server

ASSUME SecondFactorAssumption ==
  /\ Missing \notin Setups \cup Devices
  /\ TimeSteps \subseteq Nat \ {0}
  /\ MaxReboots \in Nat

VARIABLES
  secret,     \* users.totp_secret_enc, with totp_enabled_at
  pending,    \* users.totp_pending_secret_enc
  lastStep,   \* users.totp_last_step, 0 for null
  passkeys,   \* webauthn_credentials
  setup, enable, disable, device,  \* the next step of each request, and what it has read
  registering,  \* the challenge register:<user>
  ticket,     \* tickets: "open" until it is used, and the challenge login:<ticket>
  biometric,  \* the next step of each sign-in, and its ticket
  totpCheck,  \* the check of a code: its next step, the secret and the time step of the code
  proved,     \* the secrets of which a code was verified
  era,        \* how often enabling or disabling has written the row
  claims,     \* the codes accepted: by which request, and in which era
  sessionsOf, \* sessions that came out of each ticket
  reboots

totpRow == <<secret, pending, lastStep>>
factorRows == <<totpRow, passkeys>>
factorJobs == <<setup, enable, disable, device, registering, totpCheck>>
loginJobs == <<ticket, biometric, sessionsOf>>
factorHistory == <<proved, era, claims>>
factorVars == <<factorRows, factorJobs, loginJobs, factorHistory, reboots>>

NotEnabling == [at |-> "over", secret |-> Missing, step |-> 0]
NoCheck == [at |-> "new", secret |-> Missing, step |-> 0]
CheckOver == [at |-> "over", secret |-> Missing, step |-> 0]

InitSecondFactor ==
  /\ secret = Missing /\ pending = Missing /\ lastStep = 0 /\ passkeys = {}
  /\ setup = [s \in Setups |-> "new"]
  /\ enable = [e \in Enables |-> [NotEnabling EXCEPT !.at = "new"]]
  /\ disable = [d \in Disables |-> "new"]
  /\ totpCheck = [t \in TotpChecks \cup Disables |-> NoCheck]
  /\ device = [k \in Devices |-> "new"]
  /\ registering = Missing
  /\ ticket = [t \in Tickets |-> [open |-> FALSE, issued |-> FALSE, challenge |-> FALSE]]
  /\ biometric = [b \in Biometrics |-> [at |-> "new", ticket |-> Missing]]
  /\ proved = {} /\ era = 0 /\ claims = {}
  /\ sessionsOf = [t \in Tickets |-> 0]
  /\ reboots = 0

HasTotp == secret # Missing

-----------------------------------------------------------------------------
(***************************************************************************)
(* The authenticator                                                       *)
(***************************************************************************)
BeginSetup(s) ==
  /\ setup[s] = "new" /\ ~ HasTotp
  /\ setup' = [setup EXCEPT ![s] = "store"]
  /\ UNCHANGED <<factorRows, enable, disable, device, registering, totpCheck, loginJobs,
                 factorHistory, reboots>>

StoreSetup(s) ==
  /\ setup[s] = "store"
  /\ pending' = s
  /\ setup' = [setup EXCEPT ![s] = "over"]
  /\ UNCHANGED <<secret, lastStep, passkeys, enable, disable, device, registering, totpCheck,
                 loginJobs, factorHistory, reboots>>

\* A code that matches the pending secret as it was read.
BeginEnable(e, step) ==
  /\ enable[e].at = "new" /\ ~ HasTotp /\ pending # Missing
  /\ enable' = [enable EXCEPT ![e] = [at |-> "store", secret |-> pending, step |-> step]]
  /\ proved' = proved \cup {pending}
  /\ UNCHANGED <<factorRows, setup, disable, device, registering, totpCheck, loginJobs,
                 era, claims, reboots>>

\* Mutant of Verified: the pending secret is copied in the statement.
PendingNow(e) == pending

Verified(e) == enable[e].secret

Claim(by, key, step, when) == [by |-> by, secret |-> key, step |-> step, era |-> when]

\* The last time step becomes that of the code, older or not than the one there.
StoreEnable(e) ==
  /\ enable[e].at = "store"
  /\ secret' = Verified(e)
  /\ pending' = Missing
  /\ lastStep' = enable[e].step
  /\ era' = era + 1
  /\ claims' = claims \cup {Claim(e, enable[e].secret, enable[e].step, era + 1)}
  /\ enable' = [enable EXCEPT ![e] = NotEnabling]
  /\ UNCHANGED <<passkeys, setup, disable, device, registering, totpCheck, loginJobs, proved,
                 reboots>>

-----------------------------------------------------------------------------
(***************************************************************************)
(* checkUserTotp                                                           *)
(***************************************************************************)
UnchangedButCheck ==
  UNCHANGED <<secret, pending, passkeys, setup, enable, disable, device, registering,
              loginJobs, proved, era, reboots>>

\* The row of the user is read; the code matches its secret, and its time step is
\* later than the one read.
VerifyTotp(t, step) ==
  /\ totpCheck[t].at = "new"
  /\ HasTotp /\ step > lastStep
  /\ totpCheck' = [totpCheck EXCEPT ![t] = [at |-> "claim", secret |-> secret, step |-> step]]
  /\ UNCHANGED <<lastStep, claims>> /\ UnchangedButCheck

\* Mutant of StepUnclaimed: what was read with the row is relied on.
AsRead(step) == TRUE

StepUnclaimed(step) == lastStep < step

\* The time step is claimed in one statement with its condition, or the code refused.
ClaimStep(t) ==
  /\ totpCheck[t].at = "claim"
  /\ IF StepUnclaimed(totpCheck[t].step)
       THEN /\ lastStep' = totpCheck[t].step
            /\ claims' = claims \cup {Claim(t, totpCheck[t].secret, totpCheck[t].step, era)}
            /\ totpCheck' = [totpCheck EXCEPT ![t] = [CheckOver EXCEPT !.at = "passed"]]
       ELSE /\ totpCheck' = [totpCheck EXCEPT ![t] = CheckOver]
            /\ UNCHANGED <<lastStep, claims>>
  /\ UnchangedButCheck

-----------------------------------------------------------------------------
(***************************************************************************)
(* Removing the authenticator                                              *)
(***************************************************************************)
\* The email code was right, and so was the authorization key or the
\* authenticator's code.
BeginDisable(d) ==
  /\ disable[d] = "new"
  /\ totpCheck[d].at = "new" => HasTotp
  /\ totpCheck[d].at \in {"new", "passed"}
  /\ totpCheck' = [totpCheck EXCEPT ![d] = CheckOver]
  /\ disable' = [disable EXCEPT ![d] = "clear"]
  /\ UNCHANGED <<factorRows, setup, enable, device, registering, loginJobs, factorHistory, reboots>>

ClearTotp(d) ==
  /\ disable[d] = "clear"
  /\ secret' = Missing /\ pending' = Missing /\ lastStep' = 0
  /\ era' = era + 1
  /\ disable' = [disable EXCEPT ![d] = "delete"]
  /\ UNCHANGED <<passkeys, setup, enable, device, registering, totpCheck, loginJobs, proved,
                 claims, reboots>>

DeletePasskeys(d) ==
  /\ disable[d] = "delete"
  /\ passkeys' = {}
  /\ disable' = [disable EXCEPT ![d] = "over"]
  /\ UNCHANGED <<totpRow, setup, enable, device, registering, totpCheck, loginJobs, factorHistory,
                 reboots>>

-----------------------------------------------------------------------------
(***************************************************************************)
(* Passkeys                                                                *)
(***************************************************************************)
DeviceStep(k, from, to) == device[k] = from /\ device' = [device EXCEPT ![k] = to]

\* A user has one challenge for registering: the last one asked for.
RegisterOptions(k) ==
  /\ DeviceStep(k, "new", "asked") /\ HasTotp
  /\ registering' = k
  /\ UNCHANGED <<factorRows, setup, enable, disable, totpCheck, loginJobs, factorHistory, reboots>>

RegisterVerify(k) ==
  /\ DeviceStep(k, "asked", "checked") /\ HasTotp
  /\ UNCHANGED <<factorRows, setup, enable, disable, registering, totpCheck, loginJobs,
                 factorHistory, reboots>>

\* The challenge is taken in any case; an answer to another one is refused.
TakeRegistration(k) ==
  /\ DeviceStep(k, "checked", IF registering = k THEN "insert" ELSE "over")
  /\ registering' = Missing
  /\ UNCHANGED <<factorRows, setup, enable, disable, totpCheck, loginJobs, factorHistory, reboots>>

InsertPasskey(k) ==
  /\ DeviceStep(k, "insert", "over")
  /\ passkeys' = passkeys \cup {k}
  /\ UNCHANGED <<totpRow, setup, enable, disable, registering, totpCheck, loginJobs,
                 factorHistory, reboots>>

RemovePasskey(k) ==
  /\ k \in passkeys
  /\ passkeys' = passkeys \ {k}
  /\ UNCHANGED <<totpRow, factorJobs, loginJobs, factorHistory, reboots>>

-----------------------------------------------------------------------------
(***************************************************************************)
(* Signing in with a passkey                                               *)
(***************************************************************************)
UnchangedButLogin == UNCHANGED <<factorRows, factorJobs, factorHistory, reboots>>

\* POST /login: the password was right, and there is a passkey.
IssueLoginTicket(t) ==
  /\ ~ ticket[t].issued
  /\ HasTotp /\ passkeys # {}
  /\ ticket' = [ticket EXCEPT ![t] = [open |-> TRUE, issued |-> TRUE, challenge |-> TRUE]]
  /\ UNCHANGED <<biometric, sessionsOf>> /\ UnchangedButLogin

\* Mutant of TakeChallenge: the challenge is only looked at.
PeekChallenge(t) == ticket' = ticket

TakeChallenge(t) == ticket' = [ticket EXCEPT ![t].challenge = FALSE]

BeginBiometric(b, t) ==
  /\ biometric[b].at = "new"
  /\ ticket[t].open /\ ticket[t].challenge
  /\ TakeChallenge(t)
  /\ biometric' = [biometric EXCEPT ![b] = [at |-> "verify", ticket |-> t]]
  /\ UNCHANGED sessionsOf /\ UnchangedButLogin

BiometricOver == [at |-> "over", ticket |-> Missing]

\* The assertion of a registered passkey.
VerifyAssertion(b) ==
  /\ biometric[b].at = "verify"
  /\ biometric' = [biometric EXCEPT ![b] =
       IF passkeys # {} THEN [@ EXCEPT !.at = "finish"] ELSE BiometricOver]
  /\ UNCHANGED <<ticket, sessionsOf>> /\ UnchangedButLogin

\* The row is read once more; the ticket ends, whether or not it still was open.
FinishBiometric(b) ==
  /\ biometric[b].at = "finish"
  /\ biometric' = [biometric EXCEPT ![b] = BiometricOver]
  /\ LET t == biometric[b].ticket
     IN IF HasTotp
          THEN /\ ticket' = [ticket EXCEPT ![t].open = FALSE]
               /\ sessionsOf' = [sessionsOf EXCEPT ![t] = @ + 1]
          ELSE UNCHANGED <<ticket, sessionsOf>>
  /\ UnchangedButLogin

\* POST /login/code, or three minutes have passed.
EndTicket(t) ==
  /\ ticket[t].open
  /\ ticket' = [ticket EXCEPT ![t].open = FALSE]
  /\ UNCHANGED <<biometric, sessionsOf>> /\ UnchangedButLogin

-----------------------------------------------------------------------------
\* The server stops: what is in memory is gone, and what was being handled.
Reboot ==
  /\ reboots < MaxReboots
  /\ reboots' = reboots + 1
  /\ setup' = [s \in Setups |-> IF setup[s] = "new" THEN "new" ELSE "over"]
  /\ enable' = [e \in Enables |->
       IF enable[e].at = "new" THEN enable[e] ELSE NotEnabling]
  /\ disable' = [d \in Disables |-> IF disable[d] = "new" THEN "new" ELSE "over"]
  /\ device' = [k \in Devices |-> IF device[k] \in {"new", "asked"} THEN device[k] ELSE "over"]
  /\ registering' = Missing
  /\ totpCheck' = [t \in TotpChecks \cup Disables |->
       IF totpCheck[t].at = "new" THEN NoCheck ELSE CheckOver]
  /\ ticket' = [t \in Tickets |-> [ticket[t] EXCEPT !.open = FALSE, !.challenge = FALSE]]
  /\ biometric' = [b \in Biometrics |->
       IF biometric[b].at = "new" THEN biometric[b] ELSE BiometricOver]
  /\ UNCHANGED <<factorRows, factorHistory, sessionsOf>>

FactorStep ==
  \/ \E s \in Setups : BeginSetup(s) \/ StoreSetup(s)
  \/ \E e \in Enables : StoreEnable(e) \/ \E step \in TimeSteps : BeginEnable(e, step)
  \/ \E t \in TotpChecks \cup Disables : ClaimStep(t) \/ \E step \in TimeSteps : VerifyTotp(t, step)
  \/ \E d \in Disables : BeginDisable(d) \/ ClearTotp(d) \/ DeletePasskeys(d)
  \/ \E k \in Devices :
       \/ RegisterOptions(k) \/ RegisterVerify(k) \/ TakeRegistration(k)
       \/ InsertPasskey(k) \/ RemovePasskey(k)
  \/ \E t \in Tickets : IssueLoginTicket(t) \/ EndTicket(t)
  \/ \E b \in Biometrics :
       \/ \E t \in Tickets : BeginBiometric(b, t)
       \/ VerifyAssertion(b) \/ FinishBiometric(b)
  \/ Reboot

FactorSpec == InitSecondFactor /\ [][FactorStep]_factorVars

-----------------------------------------------------------------------------
(***************************************************************************)
(* Properties.                                                             *)
(***************************************************************************)

\* Types.
FactorTypeOK ==
  /\ secret \in Setups \cup {Missing} /\ pending \in Setups \cup {Missing}
  /\ lastStep \in TimeSteps \cup {0} /\ passkeys \subseteq Devices
  /\ setup \in [Setups -> {"new", "store", "over"}]
  /\ enable \in [Enables ->
       [at : {"new", "store", "over"}, secret : Setups \cup {Missing}, step : TimeSteps \cup {0}]]
  /\ disable \in [Disables -> {"new", "clear", "delete", "over"}]
  /\ device \in [Devices -> {"new", "asked", "checked", "insert", "over"}]
  /\ totpCheck \in [TotpChecks \cup Disables ->
       [at : {"new", "claim", "passed", "over"}, secret : Setups \cup {Missing},
        step : TimeSteps \cup {0}]]
  /\ registering \in Devices \cup {Missing}
  /\ ticket \in [Tickets -> [open : BOOLEAN, issued : BOOLEAN, challenge : BOOLEAN]]
  /\ biometric \in [Biometrics ->
       [at : {"new", "verify", "finish", "over"}, ticket : Tickets \cup {Missing}]]
  /\ proved \subseteq Setups /\ era \in Nat
  /\ claims \subseteq [by : Enables \cup TotpChecks \cup Disables, secret : Setups,
                       step : TimeSteps, era : Nat]
  /\ sessionsOf \in [Tickets -> Nat] /\ reboots \in 0 .. MaxReboots

\* "It only becomes active after /2fa/enable verifies a code from the app, so a
\* half-finished setup never locks anyone out": the active secret is one of which
\* a code was verified, whatever set-ups were begun since the enabling read its own.
ActiveSecretProved == HasTotp => secret \in proved

\* A ticket lets one sign-in through, however many answers to its challenge are
\* being checked: the sign-in that ends it does not ask whether another one has.
OneSessionPerTicket == \A t \in Tickets : sessionsOf[t] <= 1

\* Between two statements of enabling or disabling that write the row, a code is
\* accepted once, whatever requests check it at the same time, and the code that
\* enabled the authenticator does not sign anyone in.  Across such a statement it may
\* be accepted again, since both write the last time step: disabling makes it null,
\* and enabling puts back the step of a code that was verified before.
StepPassedOnce == \A a, b \in claims : a.era = b.era /\ a.step = b.step => a = b
=============================================================================
