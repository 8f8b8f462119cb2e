------------------------------ MODULE Transfers ------------------------------
(***************************************************************************)
(* Transfers between users: by email (POST /escrow/send/platform), which   *)
(* wait as a pending escrow if the recipient has no account, and to a      *)
(* wallet address of the platform (POST /withdraw/crypto), with the ways   *)
(* an account comes about and collects the escrows that wait for it.       *)
(*                                                                         *)
(* A step is one statement or transaction of the database.                 *)
(***************************************************************************)
EXTENDS Balances, Functions

CONSTANTS
  Members,     \* users with a verified account at the start
  Transfers,   \* requests to transfer
  From, To,    \* sender and recipient of each
  Amount,      \* amount of each
  SplitCrash   \* may the server stop between the statements of a wallet transfer?

ASSUME TransfersAssumption ==
  /\ Members \subseteq Users
  /\ From \in [Transfers -> Users] /\ To \in [Transfers -> Users]
  /\ \A t \in Transfers : From[t] # To[t]
  /\ Amount \in [Transfers -> Nat \ {0}]
  /\ SplitCrash \in BOOLEAN

VARIABLES
  account,   \* per user: "none", "created" (not verified), "verified" or "active"
  escrow,    \* escrows.status of the transfer's row, "none" before there is one
  pc         \* where the request is

transferVars == <<account, escrow, pc>>

AccountStates == {"none", "created", "verified", "active"}
EscrowStates == {"none", "pending", "claimed"}
TransferLabels == {"idle", "known", "unknown", "debited", "credited", "done"}

InitTransfers ==
  /\ account = [u \in Users |-> IF u \in Members THEN "active" ELSE "none"]
  /\ escrow = [t \in Transfers |-> "none"]
  /\ pc = [t \in Transfers |-> "idle"]

TransfersTypeOK ==
  /\ account \in [Users -> AccountStates]
  /\ escrow \in [Transfers -> EscrowStates]
  /\ pc \in [Transfers -> TransferLabels]

-----------------------------------------------------------------------------
Registered(u) == account[u] # "none"
EmailVerified(u) == account[u] \in {"verified", "active"}

Proceed(t, from, to) ==
  /\ pc[t] = from
  /\ pc' = [pc EXCEPT ![t] = to]

SetEscrow(t, s) == escrow' = [escrow EXCEPT ![t] = s]

\* The sender is checked, and the recipient is looked up before the transaction.
LookUpRecipient(t) ==
  /\ EmailVerified(From[t])
  /\ Covers(From[t], Amount[t])
  /\ Proceed(t, "idle", IF Registered(To[t]) THEN "known" ELSE "unknown")
  /\ UNCHANGED <<balance, account, escrow>>

\* The transaction: debit, then credit or a pending row, as looked up.
SendPlatform(t) ==
  /\ \/ /\ Proceed(t, "known", "done")
        /\ MoveBalance(From[t], To[t], Amount[t])
        /\ SetEscrow(t, "claimed")
     \/ /\ Proceed(t, "unknown", "done")
        /\ DebitBalance(From[t], Amount[t])
        /\ SetEscrow(t, "pending")
  /\ UNCHANGED account

\* The balance dropped since the check: the transaction rolls back.
SendRefused(t) ==
  /\ ~ Covers(From[t], Amount[t])
  /\ Proceed(t, "known", "done") \/ Proceed(t, "unknown", "done")
  /\ UNCHANGED <<balance, account, escrow>>

\* A transfer to the wallet address of a user: three statements, no transaction.
DebitSender(t) ==
  /\ EmailVerified(From[t]) /\ Registered(To[t])
  /\ Proceed(t, "idle", "debited")
  /\ DebitBalance(From[t], Amount[t])
  /\ UNCHANGED <<account, escrow>>

CreditRecipient(t) ==
  /\ Proceed(t, "debited", "credited")
  /\ CreditBalance(To[t], Amount[t])
  /\ UNCHANGED <<account, escrow>>

RecordTransfer(t) ==
  /\ Proceed(t, "credited", "done")
  /\ SetEscrow(t, "claimed")
  /\ UNCHANGED <<balance, account>>

Transfer(t) ==
  \/ LookUpRecipient(t) \/ SendPlatform(t) \/ SendRefused(t)
  \/ DebitSender(t) \/ CreditRecipient(t) \/ RecordTransfer(t)

-----------------------------------------------------------------------------
SetAccount(u, from, to) ==
  /\ account[u] = from
  /\ account' = [account EXCEPT ![u] = to]

\* Sign-up with a password: the account exists before its email is verified.
Register(u) ==
  /\ SetAccount(u, "none", "created")
  /\ UNCHANGED <<balance, escrow, pc>>

\* The emailed code, or a sign-up with Google: next, the waiting escrows.
VerifyByCode(u) ==
  /\ SetAccount(u, "created", "verified") \/ SetAccount(u, "none", "verified")
  /\ UNCHANGED <<balance, escrow, pc>>

\* The emailed link, or Google linked to the account: nothing is collected.
VerifyByLink(u) ==
  /\ SetAccount(u, "created", "active")
  /\ UNCHANGED <<balance, escrow, pc>>

Waiting(u) == {t \in Transfers : To[t] = u /\ escrow[t] = "pending"}

\* Mutant of ClaimPending: credits the rows without marking them.
ClaimUnmarked(u) ==
  /\ SetAccount(u, "verified", "active")
  /\ CreditBalance(u, SumFunctionOnSet(Amount, Waiting(u)))
  /\ UNCHANGED <<escrow, pc>>

\* claimPendingEscrows, one transaction.
ClaimPending(u) ==
  /\ SetAccount(u, "verified", "active")
  /\ CreditBalance(u, SumFunctionOnSet(Amount, Waiting(u)))
  /\ escrow' = [t \in Transfers |-> IF t \in Waiting(u) THEN "claimed" ELSE escrow[t]]
  /\ UNCHANGED pc

\* POST /escrow/claim and /claim/auto: the new balance is cast to TEXT, which
\* Postgres does not assign to a numeric column.  The transaction rolls back.
Claim(u) ==
  /\ EmailVerified(u)
  /\ Waiting(u) # {}
  /\ UNCHANGED <<balance, transferVars>>

SignUp(u) == Register(u) \/ VerifyByCode(u) \/ VerifyByLink(u) \/ ClaimPending(u) \/ Claim(u)

TransferStep == (\E t \in Transfers : Transfer(t)) \/ (\E u \in Users : SignUp(u))

\* The server stops: requests under way are gone.
CrashTransfers ==
  /\ (\E t \in Transfers : pc[t] = "debited") => SplitCrash
  /\ pc' = [t \in Transfers |-> IF pc[t] = "idle" THEN "idle" ELSE "done"]
  /\ account' = [u \in Users |-> IF account[u] = "verified" THEN "active" ELSE account[u]]
  /\ UNCHANGED escrow

-----------------------------------------------------------------------------
\* Money of transfers that has left the sender and not yet reached anybody:
\* in a pending row, or between the statements of a wallet transfer.
Waits(t) == escrow[t] = "pending" \/ pc[t] = "debited"
OnItsWay == SumFunctionOnSet(Amount, {t \in Transfers : Waits(t)})
=============================================================================
