----------------------------- MODULE MCDeposits -----------------------------
(***************************************************************************)
(* Two transactions, one of them on Arc, and a wire.                       *)
(***************************************************************************)
EXTENDS Deposits, TLC

CONSTANTS t1, t2, hash1, hash2

TwoTransactions == {t1, t2}
OwnHashes == t1 :> hash1 @@ t2 :> hash2
SharedHash == t1 :> hash1 @@ t2 :> hash1
ArcTransactions == {t1}
=============================================================================
