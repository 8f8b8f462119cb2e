------------------------------ MODULE MCLedger ------------------------------
(***************************************************************************)
(* A member who transfers, by email or by wallet, to somebody who may join *)
(* at any time, and pays two schedules.                                    *)
(***************************************************************************)
EXTENDS Ledger, TLC

CONSTANTS ann, bob, joe, t1, s1, s2, p1, p2

ThreeUsers == {ann, bob, joe}
OpeningBalances == ann :> 3 @@ bob :> 0 @@ joe :> 1
TwoMembers == {ann, joe}

OneTransfer == {t1}
OneSender == t1 :> ann
OneRecipient == t1 :> bob
OneAmount == t1 :> 2

\* The second schedule is for 0.0000001, stored as 0.000000, and has no end.
TwoSchedules == {s1, s2}
TwoPayers == s1 :> ann @@ s2 :> ann
TwoPrices == s1 :> 1 @@ s2 :> 0
TwoEnds == s1 :> 3 @@ s2 :> 9
=============================================================================
