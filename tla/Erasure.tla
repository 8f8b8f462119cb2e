------------------------------- MODULE Erasure -------------------------------
(***************************************************************************)
(* A user's Personal Authorization Key (PAK) and what it authorizes for    *)
(* good: the deletion of the account, one statement per table, without a   *)
(* transaction, while requests let in before still insert rows.            *)
(***************************************************************************)
EXTENDS Naturals, Sequences, SequencesExt

CONSTANTS
  KeyRequests,  \* POST /pak/generate-first and /pak/generate
  Erasures,     \* POST /delete-account/confirm
  Inserts,      \* other requests that insert a row of the user
  Kept,         \* the tables in which the user may have rows
  MaxErasureHalts \* bound: restarts

\* The statements of the route, in its order; escrows take three.
Statements ==
  <<"otp_codes", "claim_nonces", "recurring_transfers", "withdrawals", "deposits",
    "virtual_accounts", "escrows sent", "escrows by email", "escrows received",
    "escrow_balances", "chain_transactions", "users">>

ErasureOver == Len(Statements) + 1

ASSUME ErasureAssumption ==
  /\ Kept \subseteq ToSet(Statements) \ {"users"}
  /\ MaxErasureHalts \in Nat

VARIABLES
  accountRow,   \* the row of users is there
  pak,       \* users.pak_hash: 0, or which key
  pakLocked,    \* six months since pak_created_at are not over
  copied,    \* users.pak_copied_at
  pakCode, deletionCode, \* the one-time code for each purpose
  keyRequest, erasing, inserting, \* the next step of each request; of a deletion, its statement
  rows,      \* the tables with rows of the user
  late,      \* history: those whose rows came when a deletion had passed them
  erasureHalts

keyVars == <<pak, pakLocked, copied, pakCode, keyRequest>>
deletionVars == <<accountRow, deletionCode, erasing, inserting, rows, late>>
erasureVars == <<keyVars, deletionVars, erasureHalts>>

InitErasure ==
  /\ accountRow = TRUE
  /\ pak = 0 /\ pakLocked = FALSE /\ copied = FALSE
  /\ pakCode = FALSE /\ deletionCode = FALSE
  /\ keyRequest = [k \in KeyRequests |-> "new"]
  /\ erasing = [e \in Erasures |-> 0]
  /\ inserting = [w \in Inserts |-> "new"]
  /\ rows \in SUBSET Kept
  /\ late = {}
  /\ erasureHalts = 0

-----------------------------------------------------------------------------
(***************************************************************************)
(* The PAK                                                                 *)
(***************************************************************************)
UnchangedByKey == UNCHANGED <<deletionVars, erasureHalts>>

KeyRequestTo(k, from, to) ==
  keyRequest[k] = from /\ keyRequest' = [keyRequest EXCEPT ![k] = to]

\* What GET /status says, and what POST /pak/request-otp goes by.
PakCanRegenerate == pak = 0 \/ ~ pakLocked

RequestPakCode ==
  /\ accountRow /\ PakCanRegenerate
  /\ pakCode' = TRUE
  /\ UNCHANGED <<pak, pakLocked, copied, keyRequest>> /\ UnchangedByKey

\* The first key needs no code, any other one spends one; the lock is not asked again.
BeginKey(k) ==
  /\ accountRow /\ KeyRequestTo(k, "new", "write")
  /\ \/ pak = 0 /\ UNCHANGED pakCode
     \/ pakCode /\ pakCode' = FALSE
  /\ UNCHANGED <<pak, pakLocked, copied>> /\ UnchangedByKey

StoreKey(k) ==
  /\ KeyRequestTo(k, "write", "over")
  /\ IF accountRow THEN pak' = pak + 1 /\ pakLocked' = TRUE /\ copied' = FALSE
                ELSE UNCHANGED <<pak, pakLocked, copied>>
  /\ UNCHANGED pakCode /\ UnchangedByKey

ConfirmCopied ==
  /\ accountRow /\ pak > 0 /\ ~ copied
  /\ copied' = TRUE
  /\ UNCHANGED <<pak, pakLocked, pakCode, keyRequest>> /\ UnchangedByKey

LockEnds ==
  /\ pakLocked
  /\ pakLocked' = FALSE
  /\ UNCHANGED <<pak, copied, pakCode, keyRequest>> /\ UnchangedByKey

-----------------------------------------------------------------------------
(***************************************************************************)
(* The deletion                                                            *)
(***************************************************************************)
UnchangedByErasure == UNCHANGED <<keyVars, erasureHalts>>

\* Mutant of Statement: the account first, then what belonged to it.
StatementUsersFirst(i) == Reverse(Statements)[i]

Statement(i) == Statements[i]

PassedBy(e, table) ==
  erasing[e] # ErasureOver /\ \E i \in 1 .. erasing[e] - 1 : Statement(i) = table

\* What a row inserted into the table leaves of the books.
AddRow(table) ==
  IF table \notin Kept THEN UNCHANGED <<rows, late>>
  ELSE /\ rows' = rows \cup {table}
       /\ late' = IF ~ accountRow \/ \E e \in Erasures : PassedBy(e, table)
                    THEN late \cup {table} ELSE late

\* POST /delete-account/request-otp, with the PAK.
RequestDeletionCode ==
  /\ accountRow /\ pak > 0
  /\ deletionCode' = TRUE
  /\ AddRow("otp_codes")
  /\ UNCHANGED <<accountRow, erasing, inserting>> /\ UnchangedByErasure

\* The PAK is compared again, then the code is spent.
BeginErasure(e) ==
  /\ accountRow /\ pak > 0 /\ deletionCode
  /\ erasing[e] = 0
  /\ erasing' = [erasing EXCEPT ![e] = 1]
  /\ deletionCode' = FALSE
  /\ UNCHANGED <<accountRow, inserting, rows, late>> /\ UnchangedByErasure

EraseNext(e) ==
  /\ erasing[e] \in DOMAIN Statements
  /\ LET table == Statement(erasing[e])
     IN /\ rows' = rows \ {table}
        /\ late' = late \ {table}
        /\ accountRow' = (accountRow /\ table # "users")
        /\ deletionCode' = (deletionCode /\ table # "otp_codes")
  /\ erasing' = [erasing EXCEPT ![e] = @ + 1]
  /\ UNCHANGED inserting /\ UnchangedByErasure

\* Any other request: let in while the account was there, it inserts its row later.
LetInsert(w) ==
  /\ accountRow /\ inserting[w] = "new"
  /\ inserting' = [inserting EXCEPT ![w] = "insert"]
  /\ UNCHANGED <<accountRow, deletionCode, erasing, rows, late>> /\ UnchangedByErasure

InsertLater(w) ==
  /\ inserting[w] = "insert"
  /\ inserting' = [inserting EXCEPT ![w] = "over"]
  /\ \E table \in Kept : AddRow(table)
  /\ UNCHANGED <<accountRow, deletionCode, erasing>> /\ UnchangedByErasure

\* A restart, or a statement that fails: what has been deleted is deleted.
ErasureHalt ==
  /\ erasureHalts < MaxErasureHalts
  /\ erasureHalts' = erasureHalts + 1
  /\ keyRequest' = [k \in KeyRequests |-> IF keyRequest[k] = "new" THEN "new" ELSE "over"]
  /\ erasing' = [e \in Erasures |-> IF erasing[e] = 0 THEN 0 ELSE ErasureOver]
  /\ inserting' = [w \in Inserts |-> IF inserting[w] = "new" THEN "new" ELSE "over"]
  /\ UNCHANGED <<accountRow, pak, pakLocked, copied, pakCode, deletionCode, rows, late>>

ErasureStep ==
  \/ RequestPakCode \/ ConfirmCopied \/ LockEnds
  \/ \E k \in KeyRequests : BeginKey(k) \/ StoreKey(k)
  \/ RequestDeletionCode
  \/ \E e \in Erasures : BeginErasure(e) \/ EraseNext(e)
  \/ \E w \in Inserts : LetInsert(w) \/ InsertLater(w)
  \/ ErasureHalt

ErasureSpec == InitErasure /\ [][ErasureStep]_erasureVars

-----------------------------------------------------------------------------
(***************************************************************************)
(* Properties.                                                             *)
(***************************************************************************)

\* Types.
ErasureTypeOK ==
  /\ {accountRow, pakLocked, copied, pakCode, deletionCode} \subseteq BOOLEAN
  /\ pak \in Nat
  /\ keyRequest \in [KeyRequests -> {"new", "write", "over"}]
  /\ erasing \in [Erasures -> 0 .. ErasureOver]
  /\ inserting \in [Inserts -> {"new", "insert", "over"}]
  /\ late \subseteq rows /\ rows \subseteq Kept
  /\ erasureHalts \in 0 .. MaxErasureHalts

\* Once the account is gone, the tables that the deletion names hold nothing of it but
\* what requests under way inserted behind the deletion.  One that stops halfway
\* leaves the account, so its owner can start again.
ErasedWhenGone == accountRow \/ rows \subseteq late
=============================================================================
