-------------------------- MODULE MCSubscriptions --------------------------
(***************************************************************************)
(* A user who starts two subscriptions to one merchant, one of them paid   *)
(* out to somebody without an account.                                     *)
(***************************************************************************)
EXTENDS Subscriptions, TLC

CONSTANTS ann, bob, joe, r1, r2, c1

Emails == {ann, bob, joe}
OneFunded == ann :> 1 @@ bob :> 0 @@ joe :> 0
NothingYet == [u \in Emails |-> 0]
TwoRequests == {r1, r2}
OneCode == r1 :> c1 @@ r2 :> c1
Mixed == r1 :> {"activate", "checkout", "pay", "validate"} @@ r2 :> {"activate"}
Checkouts == [r \in {r1, r2} |-> {"checkout"}]
MaybeTrial == r1 :> {0, 1} @@ r2 :> {0}
TrialDay == [r \in {r1, r2} |-> {1}]
\* One subscription by itself, with or without a trial.
OneRequest == r1 :> {"checkout", "validate"}
OnesCode == r1 :> c1
OnesTrial == r1 :> {0, 1}
OnesPayout == r1 :> bob

PayoutEmails == r1 :> bob @@ r2 :> joe
=============================================================================
