------------------------------- MODULE SendFlow -------------------------------
(***************************************************************************)
(* The page that sends money: form, review, sent.  Its fields stay open    *)
(* while the recipient is looked up, one can go back, scan a code or leave *)
(* while a payment is on its way, and an answer that comes then still sets *)
(* the step.  Payments have no idempotency key: an answer that is lost     *)
(* leaves the review as it is, and the button may be pressed again.        *)
(***************************************************************************)
EXTENDS Naturals, Sequences, FiniteSets

CONSTANTS
  Recipients, \* emails that money can be sent to
  Named,      \* those of them the lookup has a name for
  Wallet,     \* the address of a withdrawal
  Nobody,     \* an empty field, or one the server refuses
  MaxJobs, MaxLeaves \* bounds: requests, times the page is left

ASSUME SendFlowAssumption ==
  /\ {Wallet, Nobody} \cap Recipients = {} /\ Wallet # Nobody
  /\ Named \subseteq Recipients
  /\ {MaxJobs, MaxLeaves} \subseteq Nat

VARIABLES
  screen,    \* step, mode, the email, preview, busy, result
  approving,  \* the passkey this page saw, and whether the password is used all the same
  jobs,      \* what the page has asked for: lookups and payments
  leaves,    \* times the page was left
  visit,     \* the first payment pressed in this review, 0 before it is
  touched    \* the recipient was changed while it was looked up

sendVars == <<screen, approving, jobs, leaves, visit, touched>>

Steps == {"form", "review", "sent"}
Modes == {"usd", "usdc"}
Maybe == Recipients \cup {Wallet, Nobody}

NewScreen ==
  [step |-> "form", mode |-> "usd", email |-> Nobody,
   preview |-> Nobody, busy |-> FALSE, result |-> Nobody]

\* localStorage may have a passkey of this device: it is registered and removed in the
\* settings, and forgotten when the server has none or 2FA is off.
Enrolled == BOOLEAN

\* It is looked for once, when the page opens.
NewApproval(passkey) == [available |-> passkey, usePassword |-> FALSE]

InitSendFlow ==
  /\ screen = NewScreen
  /\ \E passkey \in Enrolled : approving = NewApproval(passkey)
  /\ jobs = <<>>
  /\ leaves = 0 /\ visit = 0
  /\ touched = FALSE

Recipient == IF screen.mode = "usd" THEN screen.email ELSE Wallet
Active == approving.available /\ ~approving.usePassword

\* What the receipt of a payment to a recipient will say: the name of whoever was looked
\* up, if there is one.
Receipt(to) == IF screen.mode = "usd" /\ screen.preview \in Named THEN screen.preview ELSE to

Ask(kind, to, shownAs, review) ==
  /\ Len(jobs) < MaxJobs
  /\ jobs' = Append(jobs, [kind |-> kind, to |-> to, receipt |-> shownAs, visit |-> review,
                           page |-> leaves])

Become(j, kind) == jobs' = [jobs EXCEPT ![j].kind = kind]

\* Nothing is left of it but that it has paid.
EndedJob == [kind |-> "over", to |-> Nobody, receipt |-> Nobody, visit |-> 0, page |-> 0]

EndJob(j, kind) ==
  jobs' = [jobs EXCEPT ![j] =
    IF kind = "paid" THEN [@ EXCEPT !.kind = kind, !.receipt = Nobody, !.page = 0] ELSE EndedJob]

\* The page that asked is still open.
Here(j) == jobs[j].page = leaves
Awaited(kinds) == \E j \in 1..Len(jobs) : jobs[j].kind \in kinds /\ Here(j)
LookingUp == Awaited({"lookup"})
Paying == Awaited({"approve", "post", "executed"})
-----------------------------------------------------------------------------
(***************************************************************************)
(* The fields                                                              *)
(***************************************************************************)

\* Typing a recipient or choosing a contact; the fields are open while busy.
EditRecipient(r) ==
  /\ screen.step = "form" /\ screen.mode = "usd" /\ r # screen.email
  /\ screen' = [screen EXCEPT !.email = r]
  /\ touched' = (touched \/ LookingUp)
  /\ UNCHANGED <<approving, jobs, leaves, visit>>

SetMode(m) ==
  /\ screen.step = "form" /\ m # screen.mode
  /\ screen' = [screen EXCEPT !.mode = m]
  /\ UNCHANGED <<approving, jobs, leaves, visit, touched>>

\* A scanned code fills in the recipient and starts again, whatever is on its way;
\* the scanner is opened from the form.
Scan(r) ==
  /\ ~(screen.step = "review" /\ Paying)
  /\ screen' = [screen EXCEPT !.step = "form", !.mode = "usd", !.email = r,
                              !.preview = Nobody, !.result = Nobody]
  /\ touched' = (touched \/ LookingUp)
  /\ UNCHANGED <<approving, jobs, leaves, visit>>

BackToForm ==
  /\ screen.step = "review"
  /\ screen' = [screen EXCEPT !.step = "form"]
  /\ UNCHANGED <<approving, jobs, leaves, visit, touched>>

ResetForm ==
  /\ screen.step = "sent"
  /\ screen' = [NewScreen EXCEPT !.mode = screen.mode, !.busy = screen.busy]
  /\ UNCHANGED <<approving, jobs, leaves, visit, touched>>

\* "Use password instead", and back.
SwitchApproval ==
  /\ screen.step = "review" /\ approving.available
  /\ approving' = [approving EXCEPT !.usePassword = ~@]
  /\ UNCHANGED <<screen, jobs, leaves, visit, touched>>
-----------------------------------------------------------------------------
(***************************************************************************)
(* goReview and send                                                       *)
(***************************************************************************)
Reviewed(preview) ==
  /\ screen' = [screen EXCEPT !.step = "review", !.busy = FALSE, !.preview = preview]
  /\ visit' = 0

NotBusy == screen' = [screen EXCEPT !.busy = FALSE]

\* A wallet is not looked up.
GoReview ==
  /\ screen.step = "form" /\ ~screen.busy /\ Recipient # Nobody
  /\ IF screen.mode = "usd"
       THEN /\ Ask("lookup", Recipient, Nobody, 0)
            /\ screen' = [screen EXCEPT !.busy = TRUE]
            /\ touched' = FALSE
            /\ UNCHANGED visit
       ELSE Reviewed(screen.preview) /\ UNCHANGED <<jobs, touched>>
  /\ UNCHANGED <<approving, leaves>>

\* The answer moves on to the review whatever the field says by now; an error does not.
LookupAnswered(j) ==
  /\ jobs[j].kind = "lookup" /\ Here(j)
  /\ EndJob(j, "over")
  /\ Reviewed(jobs[j].to) \/ (NotBusy /\ UNCHANGED visit)
  /\ UNCHANGED <<approving, leaves, touched>>

\* Mutant of ButtonEnabled: it stays enabled while busy.
ButtonAlways == screen.step = "review"

ButtonEnabled == screen.step = "review" /\ ~screen.busy

SendPressed ==
  /\ ButtonEnabled
  /\ visit' = IF visit = 0 THEN Len(jobs) + 1 ELSE visit
  /\ Ask(IF Active THEN "approve" ELSE "post", Recipient, Receipt(Recipient), visit')
  /\ screen' = [screen EXCEPT !.busy = TRUE]
  /\ UNCHANGED <<approving, leaves, touched>>

\* getApproval: the prompt succeeds, or the password is asked for instead.
Approved(j) ==
  /\ jobs[j].kind = "approve"
  /\ \/ Become(j, "post") /\ UNCHANGED <<screen, approving>>
     \/ /\ EndJob(j, "over")
        /\ IF Here(j)
             THEN NotBusy /\ approving' = [approving EXCEPT !.usePassword = TRUE]
             ELSE UNCHANGED <<screen, approving>>
  /\ UNCHANGED <<leaves, visit, touched>>

\* POST /escrow/send/platform or /withdraw/crypto, which runs whether or not the page
\* is still there.
ServerPays(j) ==
  /\ jobs[j].kind = "post" /\ jobs[j].to # Nobody
  /\ Become(j, "executed")
  /\ UNCHANGED <<screen, approving, leaves, visit, touched>>

PaymentAnswered(j) ==
  /\ jobs[j].kind = "executed"
  /\ EndJob(j, "paid")
  /\ screen' = IF Here(j)
       THEN [screen EXCEPT !.step = "sent", !.busy = FALSE, !.result = jobs[j].receipt]
       ELSE screen
  /\ UNCHANGED <<approving, leaves, visit, touched>>

\* A refusal, or an answer that was lost: the two look the same, and the step stays.
\* A refused passkey makes room for the password.
PaymentFailed(j) ==
  /\ jobs[j].kind \in {"post", "executed"}
  /\ EndJob(j, "over")
  /\ \/ Here(j) /\ NotBusy /\ UNCHANGED approving
     \/ Here(j) /\ NotBusy /\ Active /\ jobs[j].kind = "post"
          /\ approving' = [approving EXCEPT !.usePassword = TRUE]
     \/ ~Here(j) /\ UNCHANGED <<screen, approving>>
  /\ UNCHANGED <<leaves, visit, touched>>

\* Another page is opened, or the session has ended and the login page is; payments go
\* on without the page.
LeavePage ==
  /\ leaves < MaxLeaves
  /\ leaves' = leaves + 1
  /\ screen' = NewScreen
  /\ \E passkey \in Enrolled : approving' = NewApproval(passkey)
  /\ visit' = 0
  /\ touched' = FALSE
  /\ jobs' = [j \in 1..Len(jobs) |->
       IF jobs[j].kind = "lookup" THEN EndedJob ELSE jobs[j]]

SendFlowStep ==
  \/ \E r \in Recipients : EditRecipient(r) \/ Scan(r)
  \/ \E m \in Modes : SetMode(m)
  \/ BackToForm \/ ResetForm \/ SwitchApproval
  \/ GoReview \/ SendPressed \/ LeavePage
  \/ \E j \in 1..Len(jobs) :
       \/ LookupAnswered(j) \/ Approved(j) \/ ServerPays(j)
       \/ PaymentAnswered(j) \/ PaymentFailed(j)

SendFlowSpec == InitSendFlow /\ [][SendFlowStep]_sendVars
-----------------------------------------------------------------------------
SendFlowTypeOK ==
  /\ screen \in [step : Steps, mode : Modes, email : Maybe, preview : Maybe,
                 busy : BOOLEAN, result : Maybe]
  /\ approving \in [available : BOOLEAN, usePassword : BOOLEAN]
  /\ touched \in BOOLEAN
  /\ Len(jobs) <= MaxJobs
  /\ \A j \in 1..Len(jobs) :
       jobs[j] \in [kind : {"lookup", "approve", "post", "executed", "over", "paid"},
                    to : Maybe, receipt : Maybe, visit : 0..MaxJobs, page : 0..MaxLeaves]
  /\ leaves \in 0..MaxLeaves /\ visit \in 0..MaxJobs

PaidFrom(v, kinds) == {j \in 1..Len(jobs) : jobs[j].visit = v /\ jobs[j].kind \in kinds}

(***************************************************************************)
(* Whatever is pressed, scanned or left in between: a review leads to one  *)
(* payment at most, besides those whose answer was lost; and, unless the   *)
(* field was changed while the recipient was looked up, the name in a      *)
(* review is that of the recipient in it, and "sent" names one who was     *)
(* paid.                                                                   *)
(* (use-send-flow.ts, goReview and send.)                                  *)
(***************************************************************************)
SentAsReviewed ==
  /\ \A v \in 1..MaxJobs : Cardinality(PaidFrom(v, {"executed", "paid"})) <= 1
  /\ screen.step = "sent" /\ ~touched =>
       \E j \in 1..Len(jobs) : jobs[j].kind = "paid" /\ jobs[j].to = screen.result
  /\ screen.step = "review" /\ screen.mode = "usd" =>
       screen.preview = Recipient \/ touched
=============================================================================
