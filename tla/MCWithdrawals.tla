--------------------------- MODULE MCWithdrawals ---------------------------
(***************************************************************************)
(* Two withdrawals of different amounts out of one balance.                *)
(***************************************************************************)
EXTENDS Withdrawals, TLC

CONSTANTS w1, w2

TwoWithdrawals == {w1, w2}
TwoAmounts == w1 :> 1 @@ w2 :> 2

OneWithdrawal == {w1}
OneAmount == w1 :> 1
=============================================================================
