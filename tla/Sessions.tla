------------------------------ MODULE Sessions ------------------------------
(***************************************************************************)
(* The sessions of one user and what ends them.  A token carries the       *)
(* session version of the row it was made from; requireAuth compares it    *)
(* with the row's.  Setting a password and bumping the version are two     *)
(* statements, and a sign-in reads its row some awaits before it answers.  *)
(***************************************************************************)
EXTENDS Naturals

CONSTANTS
  SignIns,   \* requests that end in a session, by any route
  Resets,    \* POST /auth/reset-password
  Changes,   \* POST /security/change-login-password/confirm
  MaxStops   \* bound: restarts of the server

ASSUME SessionsAssumption ==
  /\ Resets \cap Changes = {} /\ SignIns \cap (Resets \cup Changes) = {}
  /\ MaxStops \in Nat

Writers == Resets \cup Changes
Holders == SignIns \cup Changes   \* both may end with a token

VARIABLES
  version,     \* users.session_version
  writes,      \* how often users.password_hash was set: its present value
  resetToken,  \* users.password_reset_token is set and has not expired
  token,       \* the token of each holder: its version, and the password it was made with
  writer,      \* the requests that set the password: their next step, the password they set
  stops

sessionVars == <<version, writes, resetToken, token, writer, stops>>

NoToken == [at |-> "none", sv |-> 0, seen |-> 0]

InitSessions ==
  /\ version = 0
  /\ writes = 0
  /\ resetToken = FALSE
  /\ token = [h \in Holders |-> NoToken]
  /\ writer = [w \in Writers |-> [at |-> "new", write |-> 0]]
  /\ stops = 0

\* requireAuth lets a token through while its version is the row's.
Accepted(h) == token[h].at = "issued" /\ token[h].sv = version

-----------------------------------------------------------------------------
(***************************************************************************)
(* Signing in: the row is read, codes and factors are checked, and then    *)
(* sessionToken is made from the row as it was read.                       *)
(***************************************************************************)
ReadUser(s) ==
  /\ token[s].at = "none"
  /\ token' = [token EXCEPT ![s] = [at |-> "read", sv |-> version, seen |-> writes]]
  /\ UNCHANGED <<version, writes, resetToken, writer, stops>>

IssueSession(s) ==
  /\ token[s].at = "read"
  /\ token' = [token EXCEPT ![s].at = "issued"]
  /\ UNCHANGED <<version, writes, resetToken, writer, stops>>

\* Logged out, or seven days old.
EndSession(h) ==
  /\ token[h].at = "issued"
  /\ token' = [token EXCEPT ![h] = [NoToken EXCEPT !.at = "ended"]]
  /\ UNCHANGED <<version, writes, resetToken, writer, stops>>

-----------------------------------------------------------------------------
(***************************************************************************)
(* Setting the password                                                    *)
(***************************************************************************)
\* The code, or the authorization key, of "Forgot password" was right.
IssueResetToken ==
  /\ ~ resetToken
  /\ resetToken' = TRUE
  /\ UNCHANGED <<version, writes, token, writer, stops>>

ResetTokenExpires ==
  /\ resetToken
  /\ resetToken' = FALSE
  /\ UNCHANGED <<version, writes, token, writer, stops>>

BeginWrite(w) ==
  /\ writer[w].at = "new"
  /\ writer' = [writer EXCEPT ![w].at = "hashing"]
  /\ UNCHANGED <<version, writes, resetToken, token, stops>>

BeginReset(w) == resetToken /\ BeginWrite(w)

BeginChange(w) == (\E h \in Holders : Accepted(h)) /\ BeginWrite(w)

WritePassword(w) ==
  /\ writer[w].at = "hashing"
  /\ writes' = writes + 1
  /\ writer' = [writer EXCEPT ![w] = [at |-> "written", write |-> writes + 1]]
  /\ resetToken' = IF w \in Resets THEN FALSE ELSE resetToken
  /\ UNCHANGED <<version, token, stops>>

\* Mutant of NextVersion: the version stays.
SameVersion == version

NextVersion == version + 1

\* endAllSessions; the device that changed the password gets a token of the new version.
EndAllSessions(w) ==
  /\ writer[w].at = "written"
  /\ version' = NextVersion
  /\ writer' = [writer EXCEPT ![w].at = "done"]
  /\ token' = IF w \in Changes
       THEN [token EXCEPT ![w] = [at |-> "issued", sv |-> NextVersion, seen |-> writes]]
       ELSE token
  /\ UNCHANGED <<writes, resetToken, stops>>

-----------------------------------------------------------------------------
\* The server stops: what was being handled is not finished.
StopSessions ==
  /\ stops < MaxStops
  /\ stops' = stops + 1
  /\ token' = [h \in Holders |->
       IF token[h].at = "read" THEN [NoToken EXCEPT !.at = "ended"] ELSE token[h]]
  /\ writer' = [w \in Writers |->
       IF writer[w].at \in {"hashing", "written"} THEN [writer[w] EXCEPT !.at = "lost"] ELSE writer[w]]
  /\ UNCHANGED <<version, writes, resetToken>>

SessionsStep ==
  \/ \E s \in SignIns : ReadUser(s) \/ IssueSession(s)
  \/ \E h \in Holders : EndSession(h)
  \/ IssueResetToken \/ ResetTokenExpires
  \/ \E w \in Resets : BeginReset(w)
  \/ \E w \in Changes : BeginChange(w)
  \/ \E w \in Writers : WritePassword(w) \/ EndAllSessions(w)
  \/ StopSessions

SessionsSpec == InitSessions /\ [][SessionsStep]_sessionVars

-----------------------------------------------------------------------------
(***************************************************************************)
(* Properties.                                                             *)
(***************************************************************************)

\* Types.
SessionsTypeOK ==
  /\ version \in Nat /\ writes \in Nat /\ resetToken \in BOOLEAN /\ stops \in Nat
  /\ token \in [Holders -> [at : {"none", "read", "issued", "ended"}, sv : Nat, seen : Nat]]
  /\ writer \in [Writers ->
       [at : {"new", "hashing", "written", "done", "lost"}, write : Nat]]

\* "A password change or reset bumps the version, ending every older session":
\* once a request that set a password has run to its end, no token is accepted
\* that was made from a row without that password, whenever it was handed out
\* and however resets, changes and sign-ins overlap.
OlderSessionsEnded ==
  \A w \in Writers, h \in Holders :
    writer[w].at = "done" /\ Accepted(h) => writer[w].write <= token[h].seen
=============================================================================
