----------------------------- MODULE ServerProofs -----------------------------
(***************************************************************************)
(* Proofs about parts of the server that share no state: sends, the way of *)
(* a deposit, wallets and the treasury, each from the specification of its *)
(* part; and that a behaviour of the server is one of each part, so that   *)
(* what is proved of a part, here or in BillingProofs, SignInProofs and    *)
(* CountingProofs, is true of the server.                                  *)
(***************************************************************************)
EXTENDS Server, BillingProofs, SignInProofs, CountingProofs

-----------------------------------------------------------------------------
(***************************************************************************)
(* SendFlow                                                                *)
(***************************************************************************)
JobType ==
  [kind : {"lookup", "approve", "post", "executed", "over", "paid"},
   to : Maybe, receipt : Maybe, visit : 0 .. MaxJobs, page : 0 .. MaxLeaves]

ScreenType ==
  [step : Steps, mode : Modes, email : Maybe, preview : Maybe, busy : BOOLEAN, result : Maybe]

AllJobs == 1 .. Len(jobs)

\* A payment that was pressed and has not failed.
Live(j) == jobs[j].kind \in {"approve", "post", "executed", "paid"}

\* The open page waits for its answer.
AwaitedHere(j) == jobs[j].kind \in {"lookup", "approve", "post", "executed"} /\ Here(j)

SendTypes ==
  /\ screen \in ScreenType
  /\ approving \in [available : BOOLEAN, usePassword : BOOLEAN]
  /\ touched \in BOOLEAN
  /\ jobs \in Seq(JobType) /\ Len(jobs) <= MaxJobs
  /\ leaves \in 0 .. MaxLeaves /\ visit \in 0 .. MaxJobs

\* Nothing is of the future; the page is busy while it waits, and waits for one thing.
WaitsForOne ==
  /\ visit <= Len(jobs)
  /\ \A j \in AllJobs : jobs[j].page <= leaves /\ jobs[j].visit <= Len(jobs)
  /\ \A j \in AllJobs : AwaitedHere(j) => screen.busy
  /\ \A j, k \in AllJobs : AwaitedHere(j) /\ AwaitedHere(k) => j = k

(***************************************************************************)
(* One payment of a review is live.  What is live of this review was asked *)
(* by the page that is open, and has not been paid while the review shows: *)
(* so it may be pressed again only when the one before has failed.         *)
(***************************************************************************)
OnePerReview ==
  /\ \A j, k \in AllJobs :
       Live(j) /\ Live(k) /\ jobs[j].visit = jobs[k].visit /\ jobs[j].visit # 0 => j = k
  /\ \A j \in AllJobs : visit # 0 /\ jobs[j].visit = visit /\ Live(j) =>
       \/ AwaitedHere(j)
       \/ jobs[j].kind = "paid" /\ screen.step # "review"

\* "sent" names a payment, and a receipt its recipient; a lookup is for the field; all
\* of it unless that was touched.
ShownRight ==
  /\ screen.step = "sent" /\ ~ touched =>
       \E j \in AllJobs : jobs[j].kind = "paid" /\ jobs[j].to = screen.result
  /\ \A j \in AllJobs : jobs[j].kind \in {"approve", "post", "executed"} /\ Here(j) =>
       jobs[j].receipt = jobs[j].to \/ touched
  /\ \A j \in AllJobs : jobs[j].kind = "lookup" /\ Here(j) =>
       screen.step = "form" /\ (jobs[j].to = screen.email \/ touched)
  /\ screen.step = "review" /\ screen.mode = "usd" => screen.preview = screen.email \/ touched

SendInv == SendTypes /\ WaitsForOne /\ OnePerReview /\ ShownRight

\* The screen is written field by field: what each edit leaves alone.
EmailOf(r, e) ==
  [r EXCEPT !.email = e]

LEMMA EmailTyped ==
  ASSUME NEW r \in ScreenType, NEW e \in Maybe
  PROVE  LET new == EmailOf(r, e)
         IN /\ new \in ScreenType
            /\ new.step = r.step /\ new.mode = r.mode /\ new.email = e
            /\ new.preview = r.preview /\ new.busy = r.busy /\ new.result = r.result
<1> DEFINE new == EmailOf(r, e)
<1>1. new \in ScreenType BY Zenon DEF ScreenType, EmailOf
<1>2. new.step = r.step BY Zenon DEF ScreenType, EmailOf
<1>3. new.mode = r.mode BY Zenon DEF ScreenType, EmailOf
<1>4. new.email = e BY Zenon DEF ScreenType, EmailOf
<1>5. new.preview = r.preview BY Zenon DEF ScreenType, EmailOf
<1>6. new.busy = r.busy BY Zenon DEF ScreenType, EmailOf
<1>7. new.result = r.result BY Zenon DEF ScreenType, EmailOf
<1> QED BY <1>1, <1>2, <1>3, <1>4, <1>5, <1>6, <1>7

ModeOf(r, m) ==
  [r EXCEPT !.mode = m]

LEMMA ModeSet ==
  ASSUME NEW r \in ScreenType, NEW m \in Modes
  PROVE  LET new == ModeOf(r, m)
         IN /\ new \in ScreenType
            /\ new.step = r.step /\ new.mode = m /\ new.email = r.email
            /\ new.preview = r.preview /\ new.busy = r.busy /\ new.result = r.result
<1> DEFINE new == ModeOf(r, m)
<1>1. new \in ScreenType BY Zenon DEF ScreenType, ModeOf
<1>2. new.step = r.step BY Zenon DEF ScreenType, ModeOf
<1>3. new.mode = m BY Zenon DEF ScreenType, ModeOf
<1>4. new.email = r.email BY Zenon DEF ScreenType, ModeOf
<1>5. new.preview = r.preview BY Zenon DEF ScreenType, ModeOf
<1>6. new.busy = r.busy BY Zenon DEF ScreenType, ModeOf
<1>7. new.result = r.result BY Zenon DEF ScreenType, ModeOf
<1> QED BY <1>1, <1>2, <1>3, <1>4, <1>5, <1>6, <1>7

StepOf(r, s) ==
  [r EXCEPT !.step = s]

LEMMA StepSet ==
  ASSUME NEW r \in ScreenType, NEW s \in Steps
  PROVE  LET new == StepOf(r, s)
         IN /\ new \in ScreenType
            /\ new.step = s /\ new.mode = r.mode /\ new.email = r.email
            /\ new.preview = r.preview /\ new.busy = r.busy /\ new.result = r.result
<1> DEFINE new == StepOf(r, s)
<1>1. new \in ScreenType BY Zenon DEF ScreenType, StepOf
<1>2. new.step = s BY Zenon DEF ScreenType, StepOf
<1>3. new.mode = r.mode BY Zenon DEF ScreenType, StepOf
<1>4. new.email = r.email BY Zenon DEF ScreenType, StepOf
<1>5. new.preview = r.preview BY Zenon DEF ScreenType, StepOf
<1>6. new.busy = r.busy BY Zenon DEF ScreenType, StepOf
<1>7. new.result = r.result BY Zenon DEF ScreenType, StepOf
<1> QED BY <1>1, <1>2, <1>3, <1>4, <1>5, <1>6, <1>7

BusyOf(r, b) ==
  [r EXCEPT !.busy = b]

LEMMA BusySet ==
  ASSUME NEW r \in ScreenType, NEW b \in BOOLEAN
  PROVE  LET new == BusyOf(r, b)
         IN /\ new \in ScreenType
            /\ new.step = r.step /\ new.mode = r.mode /\ new.email = r.email
            /\ new.preview = r.preview /\ new.busy = b /\ new.result = r.result
<1> DEFINE new == BusyOf(r, b)
<1>1. new \in ScreenType BY Zenon DEF ScreenType, BusyOf
<1>2. new.step = r.step BY Zenon DEF ScreenType, BusyOf
<1>3. new.mode = r.mode BY Zenon DEF ScreenType, BusyOf
<1>4. new.email = r.email BY Zenon DEF ScreenType, BusyOf
<1>5. new.preview = r.preview BY Zenon DEF ScreenType, BusyOf
<1>6. new.busy = b BY Zenon DEF ScreenType, BusyOf
<1>7. new.result = r.result BY Zenon DEF ScreenType, BusyOf
<1> QED BY <1>1, <1>2, <1>3, <1>4, <1>5, <1>6, <1>7


LEMMA ScreenTypes ==
  /\ "form" \in Steps /\ "review" \in Steps /\ "sent" \in Steps /\ "usd" \in Modes
  /\ Nobody \in Maybe /\ Wallet \in Maybe /\ Recipients \subseteq Maybe
  /\ MaxJobs \in Nat /\ MaxLeaves \in Nat /\ 0 \in 0 .. MaxJobs /\ 0 \in 0 .. MaxLeaves
  BY SendFlowAssumption DEF Steps, Modes, Maybe

LEMMA NewScreenTyped ==
  /\ NewScreen \in ScreenType
  /\ NewScreen.step = "form" /\ NewScreen.mode = "usd" /\ NewScreen.email = Nobody
  /\ NewScreen.preview = Nobody /\ NewScreen.busy = FALSE /\ NewScreen.result = Nobody
  BY ScreenTypes DEF NewScreen, ScreenType

ScanOf(r, e) ==
  [r EXCEPT !.step = "form", !.mode = "usd", !.email = e, !.preview = Nobody, !.result = Nobody]

LEMMA Scanned ==
  ASSUME NEW r \in ScreenType, NEW e \in Maybe
  PROVE  LET new == ScanOf(r, e)
         IN /\ new \in ScreenType
            /\ new.step = "form" /\ new.mode = "usd" /\ new.email = e
            /\ new.preview = Nobody /\ new.busy = r.busy /\ new.result = Nobody
<1> DEFINE new == ScanOf(r, e)
<1>1. new \in ScreenType BY ScreenTypes, Zenon DEF ScreenType, ScanOf
<1>2. new.step = "form" BY ScreenTypes, Zenon DEF ScreenType, ScanOf
<1>3. new.mode = "usd" BY ScreenTypes, Zenon DEF ScreenType, ScanOf
<1>4. new.email = e BY ScreenTypes, Zenon DEF ScreenType, ScanOf
<1>5. new.preview = Nobody BY ScreenTypes, Zenon DEF ScreenType, ScanOf
<1>6. new.busy = r.busy BY ScreenTypes, Zenon DEF ScreenType, ScanOf
<1>7. new.result = Nobody BY ScreenTypes, Zenon DEF ScreenType, ScanOf
<1> QED BY <1>1, <1>2, <1>3, <1>4, <1>5, <1>6, <1>7

RestartOf(m, b) ==
  [NewScreen EXCEPT !.mode = m, !.busy = b]

LEMMA Restarted ==
  ASSUME NEW m \in Modes, NEW b \in BOOLEAN
  PROVE  LET new == RestartOf(m, b)
         IN /\ new \in ScreenType
            /\ new.step = NewScreen.step /\ new.mode = m /\ new.email = NewScreen.email
            /\ new.preview = NewScreen.preview /\ new.busy = b /\ new.result = NewScreen.result
<1> DEFINE new == RestartOf(m, b)
<1>1. new \in ScreenType BY NewScreenTyped, Zenon DEF ScreenType, RestartOf
<1>2. new.step = NewScreen.step BY NewScreenTyped, Zenon DEF ScreenType, RestartOf
<1>3. new.mode = m BY NewScreenTyped, Zenon DEF ScreenType, RestartOf
<1>4. new.email = NewScreen.email BY NewScreenTyped, Zenon DEF ScreenType, RestartOf
<1>5. new.preview = NewScreen.preview BY NewScreenTyped, Zenon DEF ScreenType, RestartOf
<1>6. new.busy = b BY NewScreenTyped, Zenon DEF ScreenType, RestartOf
<1>7. new.result = NewScreen.result BY NewScreenTyped, Zenon DEF ScreenType, RestartOf
<1> QED BY <1>1, <1>2, <1>3, <1>4, <1>5, <1>6, <1>7

ReviewOf(r, p) ==
  [r EXCEPT !.step = "review", !.busy = FALSE, !.preview = p]

LEMMA ReviewSet ==
  ASSUME NEW r \in ScreenType, NEW p \in Maybe
  PROVE  LET new == ReviewOf(r, p)
         IN /\ new \in ScreenType
            /\ new.step = "review" /\ new.mode = r.mode /\ new.email = r.email
            /\ new.preview = p /\ new.busy = FALSE /\ new.result = r.result
<1> DEFINE new == ReviewOf(r, p)
<1>1. new \in ScreenType BY ScreenTypes, Zenon DEF ScreenType, ReviewOf
<1>2. new.step = "review" BY ScreenTypes, Zenon DEF ScreenType, ReviewOf
<1>3. new.mode = r.mode BY ScreenTypes, Zenon DEF ScreenType, ReviewOf
<1>4. new.email = r.email BY ScreenTypes, Zenon DEF ScreenType, ReviewOf
<1>5. new.preview = p BY ScreenTypes, Zenon DEF ScreenType, ReviewOf
<1>6. new.busy = FALSE BY ScreenTypes, Zenon DEF ScreenType, ReviewOf
<1>7. new.result = r.result BY ScreenTypes, Zenon DEF ScreenType, ReviewOf
<1> QED BY <1>1, <1>2, <1>3, <1>4, <1>5, <1>6, <1>7

SentOf(r, p) ==
  [r EXCEPT !.step = "sent", !.busy = FALSE, !.result = p]

LEMMA SentSet ==
  ASSUME NEW r \in ScreenType, NEW p \in Maybe
  PROVE  LET new == SentOf(r, p)
         IN /\ new \in ScreenType
            /\ new.step = "sent" /\ new.mode = r.mode /\ new.email = r.email
            /\ new.preview = r.preview /\ new.busy = FALSE /\ new.result = p
<1> DEFINE new == SentOf(r, p)
<1>1. new \in ScreenType BY ScreenTypes, Zenon DEF ScreenType, SentOf
<1>2. new.step = "sent" BY ScreenTypes, Zenon DEF ScreenType, SentOf
<1>3. new.mode = r.mode BY ScreenTypes, Zenon DEF ScreenType, SentOf
<1>4. new.email = r.email BY ScreenTypes, Zenon DEF ScreenType, SentOf
<1>5. new.preview = r.preview BY ScreenTypes, Zenon DEF ScreenType, SentOf
<1>6. new.busy = FALSE BY ScreenTypes, Zenon DEF ScreenType, SentOf
<1>7. new.result = p BY ScreenTypes, Zenon DEF ScreenType, SentOf
<1> QED BY <1>1, <1>2, <1>3, <1>4, <1>5, <1>6, <1>7


\* The jobs, when one is asked for, when one goes on, and when the page is left.
LEMMA JobAsked ==
  ASSUME SendTypes, NEW kind \in {"lookup", "approve", "post"}, NEW to \in Maybe,
         NEW shownAs \in Maybe, NEW review \in 0 .. MaxJobs, Ask(kind, to, shownAs, review)
  PROVE  /\ jobs' \in Seq(JobType) /\ Len(jobs') = Len(jobs) + 1 /\ Len(jobs') <= MaxJobs
         /\ jobs'[Len(jobs) + 1] = [kind |-> kind, to |-> to, receipt |-> shownAs,
                                    visit |-> review, page |-> leaves]
         /\ \A j \in AllJobs : jobs'[j] = jobs[j]
<1> DEFINE entry == [kind |-> kind, to |-> to, receipt |-> shownAs, visit |-> review,
                     page |-> leaves]
<1>1. entry \in JobType BY DEF SendTypes, JobType
<1>2. jobs \in Seq(JobType) BY DEF SendTypes
<1>3. jobs' = Append(jobs, entry) /\ Len(jobs) < MaxJobs BY DEF Ask
<1> HIDE DEF entry
<1>4. /\ jobs' \in Seq(JobType) /\ Len(jobs') = Len(jobs) + 1
      /\ jobs'[Len(jobs) + 1] = entry
      /\ \A j \in 1 .. Len(jobs) : jobs'[j] = jobs[j]
  BY <1>1, <1>2, <1>3, AppendProperties
<1>5. Len(jobs) \in Nat BY <1>2
<1> QED BY <1>3, <1>4, <1>5, ScreenTypes DEF entry, AllJobs

LEMMA JobWritten ==
  ASSUME SendTypes, NEW j \in AllJobs, NEW entry \in JobType, jobs' = [jobs EXCEPT ![j] = entry]
  PROVE  /\ jobs' \in Seq(JobType) /\ Len(jobs') = Len(jobs) /\ Len(jobs') <= MaxJobs
         /\ jobs'[j] = entry
         /\ \A k \in AllJobs \ {j} : jobs'[k] = jobs[k]
  BY ExceptSeq DEF SendTypes, AllJobs

LEMMA JobTyped ==
  ASSUME SendTypes, NEW j \in AllJobs
  PROVE  /\ jobs[j] \in JobType /\ jobs[j].to \in Maybe
         /\ jobs[j].receipt \in Maybe
         /\ jobs[j].visit \in 0 .. MaxJobs /\ jobs[j].page \in 0 .. MaxLeaves
<1>1. jobs[j] \in JobType BY ElementOfSeq DEF SendTypes, AllJobs
<1> QED BY <1>1 DEF JobType

\* It goes on as another kind, or is over.
LEMMA JobGoesOn ==
  ASSUME SendTypes, NEW j \in AllJobs, NEW kind \in {"post", "executed"}, Become(j, kind)
  PROVE  /\ jobs' \in Seq(JobType) /\ Len(jobs') = Len(jobs) /\ Len(jobs') <= MaxJobs
         /\ jobs'[j].kind = kind /\ jobs'[j].to = jobs[j].to
         /\ jobs'[j].receipt = jobs[j].receipt
         /\ jobs'[j].visit = jobs[j].visit /\ jobs'[j].page = jobs[j].page
         /\ \A k \in AllJobs \ {j} : jobs'[k] = jobs[k]
<1> DEFINE old == jobs[j]
           entry == [old EXCEPT !.kind = kind]
<1>1. old \in JobType BY JobTyped
<1>2. jobs' = [jobs EXCEPT ![j] = entry] BY DEF Become
<1> HIDE DEF old
<1>3. entry \in JobType BY <1>1, Zenon DEF JobType
<1>4. entry.kind = kind BY <1>1, Zenon DEF JobType
<1>5. entry.to = old.to BY <1>1, Zenon DEF JobType
<1>6. entry.visit = old.visit BY <1>1, Zenon DEF JobType
<1>7. entry.page = old.page BY <1>1, Zenon DEF JobType
<1>8. entry.receipt = old.receipt BY <1>1, Zenon DEF JobType
<1> HIDE DEF entry
<1> QED BY <1>2, <1>3, <1>4, <1>5, <1>6, <1>7, <1>8, JobWritten DEF old

LEMMA JobEnds ==
  ASSUME SendTypes, NEW j \in AllJobs, EndJob(j, "over")
  PROVE  /\ jobs' \in Seq(JobType) /\ Len(jobs') = Len(jobs) /\ Len(jobs') <= MaxJobs
         /\ jobs'[j].kind = "over" /\ jobs'[j].visit = 0 /\ jobs'[j].page = 0
         /\ \A k \in AllJobs \ {j} : jobs'[k] = jobs[k]
<1>1. EndedJob \in JobType BY ScreenTypes DEF EndedJob, JobType
<1>2. jobs' = [jobs EXCEPT ![j] = EndedJob] BY DEF EndJob
<1>3. EndedJob.kind = "over" /\ EndedJob.visit = 0 /\ EndedJob.page = 0 BY DEF EndedJob
<1> QED BY <1>1, <1>2, <1>3, JobWritten

LEMMA JobIsPaid ==
  ASSUME SendTypes, NEW j \in AllJobs, EndJob(j, "paid")
  PROVE  /\ jobs' \in Seq(JobType) /\ Len(jobs') = Len(jobs) /\ Len(jobs') <= MaxJobs
         /\ jobs'[j].kind = "paid" /\ jobs'[j].to = jobs[j].to
         /\ jobs'[j].visit = jobs[j].visit /\ jobs'[j].page = 0
         /\ \A k \in AllJobs \ {j} : jobs'[k] = jobs[k]
<1> DEFINE old == jobs[j]
           entry == [old EXCEPT !.kind = "paid", !.receipt = Nobody, !.page = 0]
<1>1. old \in JobType /\ 0 \in 0 .. MaxLeaves /\ Nobody \in Maybe BY JobTyped, ScreenTypes
<1>2. jobs' = [jobs EXCEPT ![j] = entry] BY DEF EndJob
<1> HIDE DEF old
<1>3. entry \in JobType BY <1>1, Zenon DEF JobType
<1>4. entry.kind = "paid" BY <1>1, Zenon DEF JobType
<1>5. entry.to = old.to BY <1>1, Zenon DEF JobType
<1>6. entry.visit = old.visit BY <1>1, Zenon DEF JobType
<1>7. entry.page = 0 BY <1>1, Zenon DEF JobType
<1> HIDE DEF entry
<1> QED BY <1>2, <1>3, <1>4, <1>5, <1>6, <1>7, JobWritten DEF old

LEMMA JobsLeft ==
  ASSUME SendTypes,
         jobs' = [j \in AllJobs |-> IF jobs[j].kind = "lookup" THEN EndedJob ELSE jobs[j]]
  PROVE  /\ jobs' \in Seq(JobType) /\ Len(jobs') = Len(jobs)
         /\ \A j \in AllJobs :
              jobs'[j] = IF jobs[j].kind = "lookup" THEN EndedJob ELSE jobs[j]
<1>1. EndedJob \in JobType BY ScreenTypes DEF EndedJob, JobType
<1>2. \A j \in AllJobs : (IF jobs[j].kind = "lookup" THEN EndedJob ELSE jobs[j]) \in JobType
  BY <1>1, JobTyped
<1>3. Len(jobs) \in Nat BY DEF SendTypes
<1> QED BY <1>2, <1>3 DEF AllJobs

LEMMA SendStart == InitSendFlow => SendInv
<1> SUFFICES ASSUME InitSendFlow PROVE SendInv
  OBVIOUS
<1>1. screen = NewScreen /\ jobs = <<>> /\ leaves = 0 /\ visit = 0 /\ touched = FALSE
  BY DEF InitSendFlow
<1>2. SendTypes
  <2>1. approving \in [available : BOOLEAN, usePassword : BOOLEAN]
    BY DEF InitSendFlow, Enrolled, NewApproval
  <2>2. jobs \in Seq(JobType) /\ Len(jobs) = 0
    <3> HIDE DEF JobType
    <3> QED BY <1>1, EmptySeq
  <2>3. screen \in ScreenType /\ touched \in BOOLEAN BY <1>1, NewScreenTyped
  <2> QED BY <1>1, <2>1, <2>2, <2>3, ScreenTypes DEF SendTypes
<1>3. AllJobs = {} BY <1>1 DEF AllJobs
<1> QED BY <1>1, <1>2, <1>3, NewScreenTyped
        DEF SendInv, WaitsForOne, OnePerReview, ShownRight

\* A step of the page alone: who is busy stays so, and a review is not entered.
LEMMA PageAlone ==
  ASSUME SendInv, UNCHANGED <<jobs, leaves, visit>>, screen' \in ScreenType,
         approving' \in [available : BOOLEAN, usePassword : BOOLEAN], touched' \in BOOLEAN,
         screen'.busy = screen.busy,
         screen'.step = "review" => screen.step = "review"
  PROVE  SendTypes' /\ WaitsForOne' /\ OnePerReview'
<1>1. SendTypes' BY DEF SendInv, SendTypes
<1>2. AllJobs' = AllJobs BY DEF AllJobs
<1>3. \A j \in AllJobs : (AwaitedHere(j)' <=> AwaitedHere(j)) /\ (Live(j)' <=> Live(j))
  BY DEF AwaitedHere, Live, Here
<1>4. WaitsForOne' BY <1>2, <1>3 DEF SendInv, WaitsForOne
<1>5. OnePerReview' BY <1>2, <1>3 DEF SendInv, OnePerReview
<1> QED BY <1>1, <1>4, <1>5

\* The fields are open all the time: who changes one while it is looked up has touched it.
LEMMA FieldSteps ==
  ASSUME SendInv,
         \/ \E r \in Recipients : EditRecipient(r) \/ Scan(r)
         \/ \E m \in Modes : SetMode(m)
  PROVE  SendInv'
<1>0. SendTypes BY DEF SendInv
<1>1. ASSUME NEW r \in Recipients, EditRecipient(r) PROVE SendInv'
  <2>1. /\ screen.step = "form" /\ screen' = [screen EXCEPT !.email = r]
        /\ touched' = (touched \/ LookingUp) /\ UNCHANGED <<approving, jobs, leaves, visit>>
    BY <1>1 DEF EditRecipient
  <2>2. screen' \in ScreenType /\ screen'.step = screen.step /\ screen'.busy = screen.busy
    <3>1. screen' = EmailOf(screen, r) BY <2>1 DEF EmailOf
    <3> QED BY <1>0, <3>1, EmailTyped, ScreenTypes DEF SendTypes
  <2>3. touched' \in BOOLEAN BY <1>0, <2>1 DEF SendTypes
  <2>4. ShownRight'
    BY <2>1, <2>2 DEF SendInv, ShownRight, AllJobs, Here, LookingUp, Awaited
  <2> QED BY <1>0, <2>1, <2>2, <2>3, <2>4, PageAlone DEF SendInv, SendTypes
<1>2. ASSUME NEW r \in Recipients, Scan(r) PROVE SendInv'
  <2>1. /\ screen' = [screen EXCEPT !.step = "form", !.mode = "usd", !.email = r,
                                    !.preview = Nobody, !.result = Nobody]
        /\ touched' = (touched \/ LookingUp) /\ UNCHANGED <<approving, jobs, leaves, visit>>
    BY <1>2 DEF Scan
  <2>2. screen' \in ScreenType /\ screen'.step = "form" /\ screen'.busy = screen.busy
    <3>1. screen \in ScreenType /\ r \in Maybe BY <1>0, ScreenTypes DEF SendTypes
    <3>2. screen' = ScanOf(screen, r) BY <2>1 DEF ScanOf
    <3> QED BY <3>1, <3>2, Scanned
  <2>3. touched' \in BOOLEAN BY <1>0, <2>1 DEF SendTypes
  <2>4. ShownRight'
    BY <2>1, <2>2 DEF SendInv, ShownRight, AllJobs, Here, LookingUp, Awaited
  <2> QED BY <1>0, <2>1, <2>2, <2>3, <2>4, PageAlone DEF SendInv, SendTypes
<1>3. ASSUME NEW m \in Modes, SetMode(m) PROVE SendInv'
  <2>1. /\ screen.step = "form" /\ screen' = [screen EXCEPT !.mode = m]
        /\ UNCHANGED <<approving, jobs, leaves, visit, touched>>
    BY <1>3 DEF SetMode
  <2>2. /\ screen' \in ScreenType /\ screen'.step = screen.step /\ screen'.busy = screen.busy
        /\ screen'.email = screen.email
    <3>1. screen' = ModeOf(screen, m) BY <2>1 DEF ModeOf
    <3> QED BY <1>0, <3>1, ModeSet DEF SendTypes
  <2>3. ShownRight' BY <2>1, <2>2 DEF SendInv, ShownRight, AllJobs, Here
  <2> QED BY <1>0, <2>1, <2>2, <2>3, PageAlone DEF SendInv, SendTypes
<1> QED BY <1>1, <1>2, <1>3

\* Back, once more, or with the password: nothing is asked for.
LEMMA NavigationSteps ==
  ASSUME SendInv, BackToForm \/ ResetForm \/ SwitchApproval
  PROVE  SendInv'
<1>0. SendTypes BY DEF SendInv
<1>1. CASE BackToForm
  <2>1. /\ screen.step = "review" /\ screen' = [screen EXCEPT !.step = "form"]
        /\ UNCHANGED <<approving, jobs, leaves, visit, touched>>
    BY <1>1 DEF BackToForm
  <2>2. /\ screen' \in ScreenType /\ screen'.step = "form" /\ screen'.busy = screen.busy
        /\ screen'.email = screen.email
    <3>1. screen' = StepOf(screen, "form") BY <2>1 DEF StepOf
    <3> QED BY <1>0, <3>1, StepSet, ScreenTypes DEF SendTypes
  <2>3. ShownRight' BY <2>1, <2>2 DEF SendInv, ShownRight, AllJobs, Here
  <2> QED BY <1>0, <2>1, <2>2, <2>3, PageAlone DEF SendInv, SendTypes
<1>2. CASE ResetForm
  <2>1. /\ screen.step = "sent"
        /\ screen' = [NewScreen EXCEPT !.mode = screen.mode, !.busy = screen.busy]
        /\ UNCHANGED <<approving, jobs, leaves, visit, touched>>
    BY <1>2 DEF ResetForm
  <2>2. screen.mode \in Modes /\ screen.busy \in BOOLEAN
    BY <1>0 DEF SendTypes, ScreenType
  <2>3. screen' \in ScreenType /\ screen'.step = "form" /\ screen'.busy = screen.busy
    <3>1. screen' = RestartOf(screen.mode, screen.busy) BY <2>1 DEF RestartOf
    <3>2. screen' \in ScreenType /\ screen'.step = NewScreen.step /\ screen'.busy = screen.busy
      BY <2>2, <3>1, Restarted
    <3> QED BY <3>2, NewScreenTyped
  <2>4. ShownRight' BY <2>1, <2>3 DEF SendInv, ShownRight, AllJobs, Here
  <2> QED BY <1>0, <2>1, <2>3, <2>4, PageAlone DEF SendInv, SendTypes
<1>3. CASE SwitchApproval
  <2>1. /\ approving' = [approving EXCEPT !.usePassword = ~@]
        /\ UNCHANGED <<screen, jobs, leaves, visit, touched>>
    BY <1>3 DEF SwitchApproval
  <2>2. approving' \in [available : BOOLEAN, usePassword : BOOLEAN]
    BY <1>0, <2>1, Zenon DEF SendTypes
  <2>3. ShownRight' BY <2>1 DEF SendInv, ShownRight, AllJobs, Here
  <2> QED BY <1>0, <2>1, <2>2, <2>3, PageAlone DEF SendInv, SendTypes
<1> QED BY <1>1, <1>2, <1>3

\* A review begins: the page waits for nothing, and no payment of it is pressed.
LEMMA ReviewBegins ==
  ASSUME SendInv, NEW p \in Maybe, Reviewed(p)
  PROVE  /\ screen' \in ScreenType /\ visit' = 0
         /\ screen'.step = "review" /\ screen'.busy = FALSE /\ screen'.preview = p
         /\ screen'.email = screen.email /\ screen'.mode = screen.mode
<1>1. screen \in ScreenType BY DEF SendInv, SendTypes
<1>2. screen' = ReviewOf(screen, p) BY DEF Reviewed, ReviewOf
<1>3. visit' = 0
  BY DEF Reviewed
<1>4. /\ screen' \in ScreenType
      /\ screen'.step = "review" /\ screen'.busy = FALSE /\ screen'.preview = p
      /\ screen'.email = screen.email /\ screen'.mode = screen.mode
  BY <1>1, <1>2, ReviewSet
<1> QED BY <1>3, <1>4

LEMMA GoReviewStep == ASSUME SendInv, GoReview PROVE SendInv'
<1>0. SendTypes BY DEF SendInv
<1>1. /\ screen.step = "form" /\ ~ screen.busy /\ UNCHANGED <<approving, leaves>>
      /\ screen.mode \in Modes /\ screen.email \in Maybe /\ screen.preview \in Maybe
      /\ Len(jobs) \in Nat
  BY <1>0 DEF GoReview, SendTypes, ScreenType
<1>2. CASE screen.mode = "usd"
  <2>1. Ask("lookup", screen.email, Nobody, 0) /\ touched' = FALSE /\ UNCHANGED visit
        /\ screen' = [screen EXCEPT !.busy = TRUE]
    BY <1>2 DEF GoReview, Recipient
  <2>2. /\ screen' \in ScreenType /\ screen'.step = "form" /\ screen'.busy = TRUE
        /\ screen'.email = screen.email
    <3>1. screen' = BusyOf(screen, TRUE) BY <2>1 DEF BusyOf
    <3> QED BY <1>0, <1>1, <3>1, BusySet DEF SendTypes
  <2>0. PICK n \in Nat : n = Len(jobs) + 1 BY <1>1
  <2>3. /\ jobs' \in Seq(JobType) /\ Len(jobs') = n /\ Len(jobs') <= MaxJobs
        /\ jobs'[n].kind = "lookup" /\ jobs'[n].to = screen.email /\ jobs'[n].visit = 0
        /\ jobs'[n].page = leaves
        /\ \A j \in AllJobs : jobs'[j] = jobs[j]
    <3>1. /\ jobs' \in Seq(JobType) /\ Len(jobs') = n /\ Len(jobs') <= MaxJobs
          /\ jobs'[n] = [kind |-> "lookup", to |-> screen.email, receipt |-> Nobody,
                         visit |-> 0, page |-> leaves]
          /\ \A j \in AllJobs : jobs'[j] = jobs[j]
      <4>1. 0 \in 0 .. MaxJobs /\ Nobody \in Maybe BY ScreenTypes
      <4> QED BY <1>0, <1>1, <2>0, <2>1, <4>1, JobAsked
    <3> QED BY <3>1
  <2>4. AllJobs' = AllJobs \cup {n} /\ n \in AllJobs'
    BY <1>1, <2>0, <2>3 DEF AllJobs
  <2>5. /\ \A j \in AllJobs : (AwaitedHere(j)' <=> AwaitedHere(j)) /\ (Live(j)' <=> Live(j))
        /\ \A j \in AllJobs : ~ AwaitedHere(j)
    BY <1>1, <2>3 DEF AwaitedHere, Live, Here, SendInv, WaitsForOne
  <2>6. SendTypes' BY <1>0, <1>1, <2>0, <2>1, <2>2, <2>3 DEF SendTypes
  <2>7. WaitsForOne'
    <3>1. \A j \in AllJobs' : j \in AllJobs \/ j = n BY <2>4
    <3>2. visit' <= Len(jobs') BY <1>0, <1>1, <2>0, <2>1, <2>3 DEF SendInv, WaitsForOne, SendTypes
    <3>3. \A j \in AllJobs' : jobs'[j].page <= leaves' /\ jobs'[j].visit <= Len(jobs')
      <4>1. \A j \in AllJobs : jobs[j].visit \in Nat BY <1>0, JobTyped
      <4>2. leaves \in Nat BY <1>0 DEF SendTypes
      <4> QED BY <1>1, <2>0, <2>3, <3>1, <4>1, <4>2 DEF SendInv, WaitsForOne
    <3> QED BY <2>2, <2>5, <3>1, <3>2, <3>3 DEF WaitsForOne
  <2>8. OnePerReview'
    <3>1. \A j \in AllJobs' : j \in AllJobs \/ j = n BY <2>4
    <3>2. ~ Live(n)' BY <2>3 DEF Live
    <3> QED BY <1>1, <2>1, <2>2, <2>3, <2>5, <3>1, <3>2 DEF SendInv, OnePerReview
  <2>9. ShownRight'
    <3>1. \A j \in AllJobs' : j \in AllJobs \/ j = n BY <2>4
    <3>2. \A j \in AllJobs :
             ~ (jobs'[j].kind \in {"lookup", "approve", "post", "executed"} /\ Here(j)')
      BY <1>1, <2>3, <2>5 DEF AwaitedHere, Here
    <3> QED BY <2>2, <2>3, <3>1, <3>2 DEF ShownRight
  <2> QED BY <2>6, <2>7, <2>8, <2>9 DEF SendInv
<1>3. CASE screen.mode # "usd"
  <2>1. Reviewed(screen.preview) /\ UNCHANGED <<jobs, touched>>
    BY <1>3 DEF GoReview
  <2>2. /\ screen' \in ScreenType /\ visit' = 0
        /\ screen'.step = "review" /\ screen'.busy = FALSE /\ screen'.mode = screen.mode
    BY <1>1, <2>1, ReviewBegins
  <2>3. AllJobs' = AllJobs BY <2>1 DEF AllJobs
  <2>4. \A j \in AllJobs : /\ ~ AwaitedHere(j) /\ ~ AwaitedHere(j)' /\ (Live(j)' <=> Live(j))
    BY <1>1, <2>1 DEF AwaitedHere, Live, Here, SendInv, WaitsForOne
  <2>5. SendTypes' BY <1>0, <1>1, <2>1, <2>2, ScreenTypes DEF SendTypes
  <2>6. WaitsForOne'
    BY <1>1, <2>1, <2>2, <2>3, <2>4 DEF SendInv, WaitsForOne
  <2>7. OnePerReview' BY <2>1, <2>2, <2>3, <2>4 DEF SendInv, OnePerReview
  <2>8. ShownRight'
    <3>1. \A j \in AllJobs' :
             ~ (jobs'[j].kind \in {"lookup", "approve", "post", "executed"} /\ Here(j)')
      BY <2>3, <2>4 DEF AwaitedHere, Here
    <3> QED BY <1>3, <2>2, <3>1 DEF ShownRight
  <2> QED BY <2>5, <2>6, <2>7, <2>8 DEF SendInv
<1> QED BY <1>2, <1>3

\* One job is written and the page stays: the others are as they were.
LEMMA OtherJobs ==
  ASSUME NEW j \in AllJobs, Len(jobs') = Len(jobs), UNCHANGED leaves,
         \A k \in AllJobs \ {j} : jobs'[k] = jobs[k]
  PROVE  /\ AllJobs' = AllJobs
         /\ \A k \in AllJobs \ {j} : /\ AwaitedHere(k)' <=> AwaitedHere(k)
                                     /\ Live(k)' <=> Live(k)
                                     /\ Here(k)' <=> Here(k)
  BY DEF AllJobs, AwaitedHere, Live, Here

\* What the page waited for has failed: it waits for nothing, and the step stays.
LEMMA JobSettled ==
  ASSUME SendInv, NEW j \in AllJobs, AwaitedHere(j), EndJob(j, "over"), NotBusy,
         UNCHANGED <<leaves, visit, touched>>,
         approving' \in [available : BOOLEAN, usePassword : BOOLEAN]
  PROVE  SendInv'
<1>0. SendTypes BY DEF SendInv
<1>1. /\ jobs' \in Seq(JobType) /\ Len(jobs') = Len(jobs) /\ Len(jobs') <= MaxJobs
      /\ jobs'[j].kind = "over" /\ jobs'[j].visit = 0 /\ jobs'[j].page = 0
      /\ \A k \in AllJobs \ {j} : jobs'[k] = jobs[k]
  BY <1>0, JobEnds
<1>2. /\ screen' \in ScreenType /\ screen'.busy = FALSE /\ screen'.step = screen.step
      /\ screen'.mode = screen.mode /\ screen'.email = screen.email
      /\ screen'.preview = screen.preview /\ screen'.result = screen.result
  <2>1. screen' = BusyOf(screen, FALSE) BY DEF NotBusy, BusyOf
  <2> QED BY <1>0, <2>1, BusySet DEF SendTypes
<1>3. /\ AllJobs' = AllJobs
      /\ \A k \in AllJobs \ {j} : (Live(k)' <=> Live(k)) /\ (AwaitedHere(k)' <=> AwaitedHere(k))
  BY <1>1, OtherJobs
<1>4. ~ Live(j)' /\ \A k \in AllJobs : ~ AwaitedHere(k)'
  BY <1>1, <1>3 DEF SendInv, WaitsForOne, AwaitedHere, Live
<1>5. SendTypes' BY <1>0, <1>1, <1>2 DEF SendTypes
<1>6. WaitsForOne'
  <2>1. 0 <= leaves /\ 0 <= Len(jobs) BY <1>0 DEF SendTypes
  <2> QED BY <1>1, <1>3, <1>4, <2>1 DEF SendInv, WaitsForOne
<1>7. OnePerReview'
  <2>1. \A k \in AllJobs \ {j} : AwaitedHere(k) => k = j
    BY DEF SendInv, WaitsForOne
  <2> QED BY <1>1, <1>2, <1>3, <1>4, <2>1 DEF SendInv, OnePerReview
<1>8. ShownRight'
  <2>1. \A k \in AllJobs' :
           ~ (jobs'[k].kind \in {"lookup", "approve", "post", "executed"} /\ Here(k)')
    BY <1>3, <1>4 DEF AwaitedHere
  <2>2. \A k \in AllJobs : jobs[k].kind = "paid" => jobs'[k] = jobs[k]
    BY <1>1 DEF AwaitedHere
  <2> QED BY <1>2, <1>3, <2>1, <2>2 DEF SendInv, ShownRight
<1> QED BY <1>5, <1>6, <1>7, <1>8 DEF SendInv

\* A job of a page that was left fails unseen.
LEMMA JobGone ==
  ASSUME SendInv, NEW j \in AllJobs, jobs[j].kind \in {"approve", "post", "executed"},
         EndJob(j, "over"), UNCHANGED <<screen, approving, leaves, visit, touched>>, ~ Here(j)
  PROVE  SendInv'
<1>0. SendTypes BY DEF SendInv
<1>1. /\ jobs' \in Seq(JobType) /\ Len(jobs') = Len(jobs) /\ Len(jobs') <= MaxJobs
      /\ jobs'[j].kind = "over" /\ jobs'[j].visit = 0 /\ jobs'[j].page = 0
      /\ \A k \in AllJobs \ {j} : jobs'[k] = jobs[k]
  BY <1>0, JobEnds
<1>2. /\ AllJobs' = AllJobs
      /\ \A k \in AllJobs \ {j} : /\ AwaitedHere(k)' <=> AwaitedHere(k)
                                  /\ Live(k)' <=> Live(k)
                                  /\ Here(k)' <=> Here(k)
  BY <1>1, OtherJobs
<1>3. ~ Live(j)' /\ ~ AwaitedHere(j)' BY <1>1 DEF AwaitedHere, Live
<1>4. SendTypes' BY <1>0, <1>1 DEF SendTypes
<1>5. WaitsForOne'
  <2>1. 0 <= leaves /\ 0 <= Len(jobs) BY <1>0 DEF SendTypes
  <2> QED BY <1>1, <1>2, <1>3, <2>1 DEF SendInv, WaitsForOne
<1>6. OnePerReview' BY <1>1, <1>2, <1>3 DEF SendInv, OnePerReview
<1>7. ShownRight'
  <2>1. \A k \in AllJobs : jobs[k].kind = "paid" => jobs'[k] = jobs[k] BY <1>1
  <2> QED BY <1>1, <1>2, <2>1 DEF SendInv, ShownRight
<1> QED BY <1>4, <1>5, <1>6, <1>7 DEF SendInv

\* A payment goes on: it is as live and as awaited as before.
LEMMA PaymentGoesOn ==
  ASSUME SendInv, NEW j \in AllJobs, NEW kind \in {"post", "executed"},
         jobs[j].kind \in {"approve", "post"}, Become(j, kind),
         UNCHANGED <<screen, approving, leaves, visit, touched>>
  PROVE  SendInv'
<1>0. SendTypes BY DEF SendInv
<1>1. /\ jobs' \in Seq(JobType) /\ Len(jobs') = Len(jobs) /\ Len(jobs') <= MaxJobs
      /\ jobs'[j].kind = kind /\ jobs'[j].visit = jobs[j].visit /\ jobs'[j].page = jobs[j].page
      /\ jobs'[j].to = jobs[j].to /\ jobs'[j].receipt = jobs[j].receipt
      /\ \A k \in AllJobs \ {j} : jobs'[k] = jobs[k]
  BY <1>0, JobGoesOn
<1>2. /\ AllJobs' = AllJobs
      /\ \A k \in AllJobs : /\ AwaitedHere(k)' <=> AwaitedHere(k)
                            /\ Live(k)' <=> Live(k)
                            /\ Here(k)' <=> Here(k)
  BY <1>1, OtherJobs DEF AwaitedHere, Live, Here
<1>3. \A k \in AllJobs : jobs'[k].visit = jobs[k].visit /\ jobs'[k].page = jobs[k].page
  BY <1>1
<1>4. \A k \in AllJobs : /\ jobs'[k].kind = "paid" <=> jobs[k].kind = "paid"
                         /\ jobs'[k].kind = "lookup" <=> jobs[k].kind = "lookup"
                         /\ jobs'[k].kind \in {"approve", "post", "executed"} =>
                              jobs[k].kind \in {"approve", "post", "executed"}
                         /\ jobs'[k].to = jobs[k].to /\ jobs'[k].receipt = jobs[k].receipt
  BY <1>1
<1>5. SendTypes' BY <1>0, <1>1 DEF SendTypes
<1>6. WaitsForOne' BY <1>1, <1>2, <1>3 DEF SendInv, WaitsForOne
<1>7. OnePerReview' BY <1>2, <1>3, <1>4 DEF SendInv, OnePerReview
<1>8. ShownRight' BY <1>2, <1>4 DEF SendInv, ShownRight
<1> QED BY <1>5, <1>6, <1>7, <1>8 DEF SendInv

LEMMA LookupStep ==
  ASSUME SendInv, NEW j \in AllJobs, LookupAnswered(j)
  PROVE  SendInv'
<1>0. SendTypes /\ approving' \in [available : BOOLEAN, usePassword : BOOLEAN]
  BY DEF SendInv, SendTypes, LookupAnswered
<1>1. /\ jobs[j].kind = "lookup" /\ Here(j) /\ AwaitedHere(j) /\ EndJob(j, "over")
      /\ UNCHANGED <<approving, leaves, touched>>
  BY DEF LookupAnswered, AwaitedHere
<1>2. CASE NotBusy /\ UNCHANGED visit
  BY <1>0, <1>1, <1>2, JobSettled
<1>3. CASE Reviewed(jobs[j].to)
  <2>1. /\ jobs' \in Seq(JobType) /\ Len(jobs') = Len(jobs) /\ Len(jobs') <= MaxJobs
        /\ jobs'[j].kind = "over" /\ jobs'[j].visit = 0 /\ jobs'[j].page = 0
        /\ \A k \in AllJobs \ {j} : jobs'[k] = jobs[k]
    BY <1>0, <1>1, JobEnds
  <2>2. /\ screen' \in ScreenType /\ visit' = 0
        /\ screen'.step = "review" /\ screen'.busy = FALSE /\ screen'.preview = jobs[j].to
        /\ screen'.email = screen.email
    BY <1>0, <1>3, JobTyped, ReviewBegins
  <2>3. /\ AllJobs' = AllJobs
        /\ \A k \in AllJobs \ {j} : (Live(k)' <=> Live(k)) /\ (AwaitedHere(k)' <=> AwaitedHere(k))
    BY <1>1, <2>1, OtherJobs
  <2>4. ~ Live(j)' /\ \A k \in AllJobs : ~ AwaitedHere(k)'
    BY <1>1, <2>1, <2>3 DEF SendInv, WaitsForOne, AwaitedHere, Live
  <2>5. SendTypes' BY <1>0, <1>1, <2>1, <2>2, ScreenTypes DEF SendTypes
  <2>6. WaitsForOne'
    <3>1. 0 <= leaves /\ 0 <= Len(jobs) BY <1>0 DEF SendTypes
    <3> QED BY <1>1, <2>1, <2>2, <2>3, <2>4, <3>1 DEF SendInv, WaitsForOne
  <2>7. OnePerReview' BY <2>1, <2>2, <2>3, <2>4 DEF SendInv, OnePerReview
  <2>8. ShownRight'
    <3>1. \A k \in AllJobs' :
             ~ (jobs'[k].kind \in {"lookup", "approve", "post", "executed"} /\ Here(k)')
      BY <2>3, <2>4 DEF AwaitedHere
    <3>2. screen'.preview = screen'.email \/ touched'
      BY <1>1, <2>2 DEF SendInv, ShownRight
    <3> QED BY <2>2, <3>1, <3>2 DEF ShownRight
  <2> QED BY <2>5, <2>6, <2>7, <2>8 DEF SendInv
<1> QED BY <1>2, <1>3 DEF LookupAnswered

\* The button: the page waits for nothing, and no payment of this review is live.
LEMMA PressStep == ASSUME SendInv, SendPressed PROVE SendInv'
<1>0. SendTypes BY DEF SendInv
<1> DEFINE kind == IF Active THEN "approve" ELSE "post"
<1>1. PICK n \in Nat : n = Len(jobs) + 1 BY <1>0 DEF SendTypes
<1>2. PICK v : v = visit' OBVIOUS
<1>3. PICK k \in {"approve", "post"} : k = kind OBVIOUS
<1>4. /\ screen.step = "review" /\ ~ screen.busy
      /\ v = IF visit = 0 THEN n ELSE visit
      /\ Ask(k, Recipient, Receipt(Recipient), v) /\ screen' = BusyOf(screen, TRUE)
      /\ UNCHANGED <<approving, leaves, touched>>
  BY <1>1, <1>2, <1>3 DEF SendPressed, ButtonEnabled, BusyOf
<1> HIDE DEF kind
<1>5. Recipient \in Maybe /\ Receipt(Recipient) \in Maybe
  BY <1>0, ScreenTypes DEF Recipient, Receipt, SendTypes, ScreenType
<1>6. v \in 0 .. MaxJobs /\ v # 0 /\ v <= n
  <2>1. Len(jobs) < MaxJobs BY <1>4 DEF Ask
  <2>2. visit \in 0 .. MaxJobs /\ visit <= Len(jobs) /\ Len(jobs) \in Nat
    BY <1>0 DEF SendInv, SendTypes, WaitsForOne
  <2> QED BY <1>1, <1>4, <2>1, <2>2, ScreenTypes
<1>7. /\ jobs' \in Seq(JobType) /\ Len(jobs') = n /\ Len(jobs') <= MaxJobs
      /\ jobs'[n].kind = k /\ jobs'[n].visit = v /\ jobs'[n].page = leaves
      /\ jobs'[n].to = Recipient /\ jobs'[n].receipt = Receipt(Recipient)
      /\ \A j \in AllJobs : jobs'[j] = jobs[j]
  <2>1. /\ jobs' \in Seq(JobType) /\ Len(jobs') = n /\ Len(jobs') <= MaxJobs
        /\ jobs'[n] = [kind |-> k, to |-> Recipient, receipt |-> Receipt(Recipient),
                       visit |-> v, page |-> leaves]
        /\ \A j \in AllJobs : jobs'[j] = jobs[j]
    BY <1>0, <1>1, <1>3, <1>4, <1>5, <1>6, JobAsked
  <2> QED BY <2>1
<1>8. /\ screen' \in ScreenType /\ screen'.busy = TRUE /\ screen'.step = screen.step
      /\ screen'.mode = screen.mode /\ screen'.email = screen.email
      /\ screen'.preview = screen.preview
  BY <1>0, <1>4, BusySet DEF SendTypes
<1>9. AllJobs' = AllJobs \cup {n} /\ n \notin AllJobs /\ \A j \in AllJobs' : j \in AllJobs \/ j = n
  BY <1>0, <1>1, <1>7 DEF AllJobs, SendTypes
<1>10. /\ \A j \in AllJobs : ~ AwaitedHere(j) /\ ~ AwaitedHere(j)' /\ (Live(j)' <=> Live(j))
       /\ AwaitedHere(n)' /\ Live(n)'
  BY <1>4, <1>7 DEF AwaitedHere, Live, Here, SendInv, WaitsForOne
<1>11. \A j \in AllJobs : Live(j) => jobs[j].visit # v
  <2>1. CASE visit = 0
    <3>1. \A j \in AllJobs : jobs[j].visit \in Nat /\ jobs[j].visit <= Len(jobs)
      BY <1>0, JobTyped DEF SendInv, WaitsForOne
    <3>2. Len(jobs) \in Nat BY <1>0 DEF SendTypes
    <3> QED BY <1>1, <1>4, <2>1, <3>1, <3>2
  <2>2. CASE visit # 0
    BY <1>4, <1>10, <2>2 DEF SendInv, OnePerReview
  <2> QED BY <2>1, <2>2
<1>12. SendTypes' BY <1>0, <1>2, <1>4, <1>6, <1>7, <1>8 DEF SendTypes
<1>13. WaitsForOne'
  <2>1. leaves \in Nat /\ Len(jobs) \in Nat /\ \A j \in AllJobs : jobs[j].visit \in Nat
    BY <1>0, JobTyped DEF SendTypes
  <2>2. \A j \in AllJobs' : jobs'[j].page <= leaves' /\ jobs'[j].visit <= Len(jobs')
    BY <1>1, <1>4, <1>6, <1>7, <1>9, <2>1 DEF SendInv, WaitsForOne
  <2>3. visit' <= Len(jobs') BY <1>2, <1>6, <1>7
  <2> QED BY <1>8, <1>9, <1>10, <2>2, <2>3 DEF WaitsForOne
<1>14. OnePerReview'
  <2>1. \A j \in AllJobs : jobs'[j].visit = v => ~ Live(j)' BY <1>7, <1>10, <1>11
  <2> QED BY <1>2, <1>7, <1>9, <1>10, <2>1 DEF SendInv, OnePerReview
<1>15. ShownRight'
  <2>1. \A j \in AllJobs' : ~ (jobs'[j].kind = "lookup" /\ Here(j)')
    BY <1>7, <1>9, <1>10 DEF AwaitedHere
  <2>2. Receipt(Recipient) = Recipient \/ touched
    BY <1>4 DEF Receipt, Recipient, SendInv, ShownRight
  <2>3. \A j \in AllJobs' : jobs'[j].kind \in {"approve", "post", "executed"} /\ Here(j)' =>
           jobs'[j].receipt = jobs'[j].to \/ touched'
    BY <1>4, <1>7, <1>9, <1>10, <2>2 DEF AwaitedHere
  <2> QED BY <1>4, <1>8, <2>1, <2>3 DEF SendInv, ShownRight
<1> QED BY <1>12, <1>13, <1>14, <1>15 DEF SendInv

\* A payment is answered: the page moves on to it from wherever it is by now.
LEMMA PaidStep ==
  ASSUME SendInv, NEW j \in AllJobs, PaymentAnswered(j)
  PROVE  SendInv'
<1>0. SendTypes BY DEF SendInv
<1>1. /\ jobs[j].kind = "executed" /\ Live(j) /\ EndJob(j, "paid") /\ (AwaitedHere(j) <=> Here(j))
      /\ UNCHANGED <<approving, leaves, visit, touched>>
  BY DEF PaymentAnswered, Live, AwaitedHere
<1>2. /\ jobs' \in Seq(JobType) /\ Len(jobs') = Len(jobs) /\ Len(jobs') <= MaxJobs
      /\ jobs'[j].kind = "paid" /\ jobs'[j].to = jobs[j].to
      /\ jobs'[j].visit = jobs[j].visit /\ jobs'[j].page = 0
      /\ \A k \in AllJobs \ {j} : jobs'[k] = jobs[k]
  BY <1>0, <1>1, JobIsPaid
<1>3. /\ AllJobs' = AllJobs
      /\ \A k \in AllJobs \ {j} : /\ AwaitedHere(k)' <=> AwaitedHere(k)
                                  /\ Live(k)' <=> Live(k)
                                  /\ Here(k)' <=> Here(k)
  BY <1>1, <1>2, OtherJobs
<1>4. Live(j)' /\ ~ AwaitedHere(j)' BY <1>2 DEF AwaitedHere, Live
<1>5. \A k \in AllJobs : jobs'[k].visit = jobs[k].visit /\ (Live(k)' <=> Live(k))
  BY <1>1, <1>2, <1>3, <1>4
<1>6. \A k \in AllJobs' : jobs'[k].page <= leaves' /\ jobs'[k].visit <= Len(jobs')
  <2>1. 0 <= leaves BY <1>0 DEF SendTypes
  <2> QED BY <1>1, <1>2, <1>3, <1>5, <2>1 DEF SendInv, WaitsForOne
<1>7. \A k, l \in AllJobs' :
        Live(k)' /\ Live(l)' /\ jobs'[k].visit = jobs'[l].visit /\ jobs'[k].visit # 0 => k = l
  BY <1>3, <1>5 DEF SendInv, OnePerReview
<1>8. CASE Here(j)
  <2>1. screen' = [screen EXCEPT !.step = "sent", !.busy = FALSE, !.result = jobs[j].receipt]
    BY <1>8 DEF PaymentAnswered
  <2>2. screen' = SentOf(screen, jobs[j].receipt) BY <2>1 DEF SentOf
  <2>3. /\ screen' \in ScreenType /\ screen'.step = "sent" /\ screen'.busy = FALSE
        /\ screen'.result = jobs[j].receipt
    BY <1>0, <2>2, JobTyped, SentSet DEF SendTypes
  <2>4. \A k \in AllJobs : ~ AwaitedHere(k)' /\ (AwaitedHere(k) => k = j)
    BY <1>1, <1>3, <1>4, <1>8 DEF SendInv, WaitsForOne
  <2>5. SendTypes' BY <1>0, <1>1, <1>2, <2>3 DEF SendTypes
  <2>6. WaitsForOne' BY <1>1, <1>2, <1>3, <1>6, <2>4 DEF SendInv, WaitsForOne
  <2>7. OnePerReview'
    <3>1. \A k \in AllJobs' : visit' # 0 /\ jobs'[k].visit = visit' /\ Live(k)' =>
             jobs'[k].kind = "paid" /\ screen'.step # "review"
      BY <1>1, <1>2, <1>3, <1>5, <2>3, <2>4 DEF SendInv, OnePerReview
    <3> QED BY <1>7, <3>1 DEF OnePerReview
  <2>8. ShownRight'
    <3>1. \A k \in AllJobs' :
             ~ (jobs'[k].kind \in {"lookup", "approve", "post", "executed"} /\ Here(k)')
      BY <1>3, <2>4 DEF AwaitedHere
    <3>2. jobs[j].receipt = jobs[j].to \/ touched
      BY <1>1, <1>8 DEF SendInv, ShownRight
    <3> QED BY <1>1, <1>2, <1>3, <2>3, <3>1, <3>2 DEF ShownRight
  <2> QED BY <2>5, <2>6, <2>7, <2>8 DEF SendInv
<1>9. CASE ~ Here(j)
  <2>1. screen' = screen BY <1>9 DEF PaymentAnswered
  <2>2. visit # 0 => jobs[j].visit # visit
    BY <1>1, <1>9 DEF SendInv, OnePerReview
  <2>3. SendTypes' BY <1>0, <1>1, <1>2, <2>1 DEF SendTypes
  <2>4. WaitsForOne' BY <1>1, <1>2, <1>3, <1>4, <1>6, <2>1 DEF SendInv, WaitsForOne
  <2>5. OnePerReview'
    <3>1. \A k \in AllJobs' : visit' # 0 /\ jobs'[k].visit = visit' /\ Live(k)' =>
             \/ AwaitedHere(k)'
             \/ jobs'[k].kind = "paid" /\ screen'.step # "review"
      BY <1>1, <1>2, <1>3, <1>5, <2>1, <2>2 DEF SendInv, OnePerReview
    <3> QED BY <1>7, <3>1 DEF OnePerReview
  <2>6. ShownRight'
    <3>1. \A k \in AllJobs : jobs[k].kind = "paid" => jobs'[k] = jobs[k] BY <1>1, <1>2
    <3>2. \A k \in AllJobs' : jobs'[k].kind = "lookup" /\ Here(k)' =>
             screen'.step = "form" /\ (jobs'[k].to = screen'.email \/ touched')
      BY <1>1, <1>2, <1>3, <2>1 DEF SendInv, ShownRight
    <3>3. \A k \in AllJobs' : jobs'[k].kind \in {"approve", "post", "executed"} /\ Here(k)' =>
             jobs'[k].receipt = jobs'[k].to \/ touched'
      BY <1>1, <1>2, <1>3, <2>1 DEF SendInv, ShownRight
    <3> QED BY <1>1, <1>3, <2>1, <3>1, <3>2, <3>3 DEF SendInv, ShownRight
  <2> QED BY <2>3, <2>4, <2>5, <2>6 DEF SendInv
<1> QED BY <1>8, <1>9

\* The approval, the server, and a failure: each goes on, settles or is gone.
LEMMA PaymentSteps ==
  ASSUME SendInv, NEW j \in AllJobs, Approved(j) \/ ServerPays(j) \/ PaymentFailed(j)
  PROVE  SendInv'
<1>0. approving \in [available : BOOLEAN, usePassword : BOOLEAN]
  BY DEF SendInv, SendTypes
<1>1. [approving EXCEPT !.usePassword = TRUE] \in [available : BOOLEAN, usePassword : BOOLEAN]
  BY <1>0, Zenon
<1>2. CASE Approved(j)
  <2>1. jobs[j].kind = "approve" /\ UNCHANGED <<leaves, visit, touched>>
    BY <1>2 DEF Approved
  <2>2. CASE Become(j, "post") /\ UNCHANGED <<screen, approving>>
    BY <2>1, <2>2, PaymentGoesOn
  <2>3. CASE EndJob(j, "over") /\ Here(j) /\ NotBusy
             /\ approving' = [approving EXCEPT !.usePassword = TRUE]
    BY <1>1, <2>1, <2>3, JobSettled DEF AwaitedHere
  <2>4. CASE EndJob(j, "over") /\ ~ Here(j) /\ UNCHANGED <<screen, approving>>
    BY <2>1, <2>4, JobGone
  <2> QED BY <1>2, <2>2, <2>3, <2>4 DEF Approved
<1>3. CASE ServerPays(j)
  BY <1>3, PaymentGoesOn DEF ServerPays
<1>4. CASE PaymentFailed(j)
  <2>1. /\ jobs[j].kind \in {"post", "executed"} /\ EndJob(j, "over")
        /\ UNCHANGED <<leaves, visit, touched>>
    BY <1>4 DEF PaymentFailed
  <2>2. CASE Here(j) /\ NotBusy /\ UNCHANGED approving
    BY <1>0, <2>1, <2>2, JobSettled DEF AwaitedHere
  <2>3. CASE Here(j) /\ NotBusy /\ approving' = [approving EXCEPT !.usePassword = TRUE]
    BY <1>1, <2>1, <2>3, JobSettled DEF AwaitedHere
  <2>4. CASE ~ Here(j) /\ UNCHANGED <<screen, approving>>
    BY <2>1, <2>4, JobGone
  <2> QED BY <1>4, <2>2, <2>3, <2>4 DEF PaymentFailed
<1> QED BY <1>2, <1>3, <1>4

\* The page is left: nothing that was asked for is awaited any more.
LEMMA LeaveStep == ASSUME SendInv, LeavePage PROVE SendInv'
<1>0. SendTypes BY DEF SendInv
<1>1. /\ leaves < MaxLeaves /\ leaves' = leaves + 1 /\ screen' = NewScreen
      /\ visit' = 0 /\ touched' = FALSE
      /\ jobs' = [j \in AllJobs |-> IF jobs[j].kind = "lookup" THEN EndedJob ELSE jobs[j]]
  BY DEF LeavePage, AllJobs
<1>2. approving' \in [available : BOOLEAN, usePassword : BOOLEAN]
  BY DEF LeavePage, Enrolled, NewApproval
<1>3. /\ jobs' \in Seq(JobType) /\ Len(jobs') = Len(jobs)
      /\ \A j \in AllJobs : jobs'[j] = IF jobs[j].kind = "lookup" THEN EndedJob ELSE jobs[j]
  BY <1>0, <1>1, JobsLeft
<1>4. AllJobs' = AllJobs BY <1>3 DEF AllJobs
<1>5. /\ EndedJob.kind = "over" /\ EndedJob.visit = 0 /\ EndedJob.page = 0
  BY DEF EndedJob
<1>6. leaves \in 0 .. MaxLeaves /\ Len(jobs) \in Nat /\ Len(jobs) <= MaxJobs
  BY <1>0 DEF SendTypes
<1>7. \A j \in AllJobs : jobs'[j].page <= leaves /\ jobs'[j].visit <= Len(jobs)
  BY <1>3, <1>5, <1>6 DEF SendInv, WaitsForOne
<1>8. \A j \in AllJobs : ~ Here(j)' /\ ~ AwaitedHere(j)'
  <2>1. \A j \in AllJobs : jobs'[j].page \in 0 .. MaxLeaves
    BY <1>0, <1>3, <1>5, JobTyped, ScreenTypes
  <2> QED BY <1>1, <1>6, <1>7, <2>1, ScreenTypes DEF Here, AwaitedHere
<1>9. \A j \in AllJobs : Live(j)' => Live(j) /\ jobs'[j].visit = jobs[j].visit
  BY <1>3, <1>5 DEF Live
<1>10. SendTypes'
  <2>1. leaves' \in 0 .. MaxLeaves BY <1>1, <1>6, ScreenTypes
  <2>2. visit' \in 0 .. MaxJobs /\ touched' \in BOOLEAN /\ screen' \in ScreenType
    BY <1>1, NewScreenTyped, ScreenTypes
  <2>3. jobs' \in Seq(JobType) /\ Len(jobs') <= MaxJobs BY <1>3, <1>6
  <2> QED BY <1>2, <2>1, <2>2, <2>3 DEF SendTypes
<1>11. WaitsForOne'
  <2>1. \A j \in AllJobs : jobs'[j].page <= leaves'
    <3>1. \A j \in AllJobs : jobs'[j].page \in 0 .. MaxLeaves
      BY <1>0, <1>3, <1>5, JobTyped, ScreenTypes
    <3> QED BY <1>1, <1>6, <1>7, <3>1, ScreenTypes
  <2>2. visit' <= Len(jobs')
    <3>1. visit' = 0 BY <1>1
    <3>2. Len(jobs') \in Nat BY <1>3, <1>6
    <3> QED BY <3>1, <3>2
  <2>3. \A j \in AllJobs' : jobs'[j].page <= leaves' /\ jobs'[j].visit <= Len(jobs')
    BY <1>3, <1>4, <1>7, <2>1
  <2> QED BY <1>4, <1>8, <2>2, <2>3 DEF WaitsForOne
<1>12. OnePerReview' BY <1>1, <1>4, <1>9 DEF SendInv, OnePerReview
<1>13. ShownRight' BY <1>1, <1>4, <1>8, NewScreenTyped DEF ShownRight
<1> QED BY <1>10, <1>11, <1>12, <1>13 DEF SendInv

LEMMA SendNext == SendInv /\ [SendFlowStep]_sendVars => SendInv'
<1> SUFFICES ASSUME SendInv, [SendFlowStep]_sendVars PROVE SendInv'
  OBVIOUS
<1>1. CASE UNCHANGED sendVars
  BY <1>1 DEF sendVars, SendInv, SendTypes, WaitsForOne, OnePerReview, ShownRight, AllJobs,
              AwaitedHere, Live, Here
<1> QED BY <1>1, FieldSteps, NavigationSteps, GoReviewStep, PressStep, LeaveStep, LookupStep,
           PaymentSteps, PaidStep
        DEF SendFlowStep, AllJobs

(***************************************************************************)
(* A review leads to one payment at most besides those whose answer was    *)
(* lost, whatever is pressed, scanned, touched or left; and unless the     *)
(* field was changed while it was looked up, "sent" names a recipient who  *)
(* was paid, and the name in a review is that of its recipient.            *)
(***************************************************************************)
THEOREM WhatIsReviewedIsSent == SendFlowSpec => []SentAsReviewed
<1>1. SendInv => SentAsReviewed
  <2> SUFFICES ASSUME SendInv PROVE SentAsReviewed
    OBVIOUS
  <2>1. ASSUME NEW v \in 1 .. MaxJobs
        PROVE  Cardinality(PaidFrom(v, {"executed", "paid"})) <= 1
    <3> DEFINE paid == PaidFrom(v, {"executed", "paid"})
    <3>1. \A j, k \in paid : j = k
      BY DEF PaidFrom, SendInv, OnePerReview, Live, AllJobs
    <3>2. CASE paid = {} BY <3>2, FS_EmptySet
    <3>3. CASE paid # {}
      <4>1. PICK j : paid = {j} BY <3>1, <3>3
      <4> QED BY <4>1, FS_Singleton
    <3> QED BY <3>2, <3>3
  <2>2. ShownRight BY DEF SendInv
  <2> QED BY <2>1, <2>2 DEF SentAsReviewed, ShownRight, AllJobs, Recipient
<1> QED BY <1>1, SendStart, SendNext, PTL DEF SendFlowSpec

LEMMA SendTyped == SendInv => SendFlowTypeOK
<1> SUFFICES ASSUME SendInv PROVE SendFlowTypeOK
  OBVIOUS
<1>1. \A j \in 1 .. Len(jobs) : jobs[j] \in JobType
  BY DEF SendInv, SendTypes
<1> QED BY <1>1 DEF SendInv, SendTypes, SendFlowTypeOK, JobType, ScreenType

-----------------------------------------------------------------------------
(***************************************************************************)
(* PollWindow                                                              *)
(***************************************************************************)
Waits(p, t) == t \in Unhandled(p) \ cut[p]

\* A cursor is never ahead of the present, the one to come at least the buffer behind it.
CursorsBehind ==
  \A p \in Pollers :
    /\ cursor[p] <= clock
    /\ poll[p].at \in {"list", "handle"} => poll[p].next <= clock - Buffer

\* What a poll that has listed will not handle lies behind the cursor to come.
ListedOrNewer ==
  \A p \in Pollers, t \in Inbound :
    Waits(p, t) /\ poll[p].at = "handle" => t \in poll[p].rest \/ poll[p].next <= created[t]

WindowTypes ==
  /\ clock \in Int
  /\ created \in [Inbound -> Int]
  /\ complete \subseteq Inbound
  /\ cursor \in [Pollers -> Int]
  /\ poll \in [Pollers -> [at : {"idle", "list", "handle"}, next : Int, rest : SUBSET Inbound]]
  /\ skipped \in [Pollers -> SUBSET Inbound]
  /\ cut \in [Pollers -> SUBSET Inbound]

WindowInv ==
  /\ WindowTypes
  /\ InTime(clock)
  /\ CursorsBehind
  /\ ListedOrNewer
  /\ NotPassedOver

LEMMA InitWindowInv == InitPollWindow => WindowInv
<1> SUFFICES ASSUME InitPollWindow PROVE WindowInv
  OBVIOUS
<1>1. WindowTypes
  BY PollWindowAssumption DEF InitPollWindow, WindowTypes, Idle
<1>2. InTime(clock)
  BY DEF InitPollWindow, InTime
<1>3. CursorsBehind /\ ListedOrNewer /\ NotPassedOver
  BY PollWindowAssumption
  DEF InitPollWindow, CursorsBehind, ListedOrNewer, NotPassedOver, Unhandled, Idle
<1> QED BY <1>1, <1>2, <1>3 DEF WindowInv

LEMMA WindowStepKept == WindowInv /\ [PollWindowStep]_windowVars => WindowInv'
<1> SUFFICES ASSUME WindowInv, [PollWindowStep]_windowVars PROVE WindowInv'
  OBVIOUS
<1> USE PollWindowAssumption DEF WindowInv
<1>1. ASSUME NEW t \in Inbound, Create(t) PROVE WindowInv'
  <2>1. WindowTypes' /\ CursorsBehind'
    BY <1>1 DEF Create, WindowTypes, CursorsBehind
  <2>2. InTime(clock)'
    BY <1>1 DEF Create, WindowTypes, InTime
  <2>3. ListedOrNewer' /\ NotPassedOver'
    BY <1>1 DEF Create, WindowTypes, CursorsBehind, ListedOrNewer, NotPassedOver, Waits, Unhandled
  <2> QED BY <2>1, <2>2, <2>3
<1>2. ASSUME NEW t \in Inbound, Complete(t) PROVE WindowInv'
  BY <1>2
  DEF Complete, WindowTypes, CursorsBehind, InTime, ListedOrNewer, NotPassedOver, Waits, Unhandled
<1>3. CASE PassTime
  BY <1>3
  DEF PassTime, WindowTypes, CursorsBehind, InTime, ListedOrNewer, NotPassedOver, Waits, Unhandled
<1>4. ASSUME NEW p \in Pollers, StartPoll(p) PROVE WindowInv'
  BY <1>4
  DEF StartPoll, WindowTypes, CursorsBehind, InTime, ListedOrNewer, NotPassedOver, Waits, Unhandled
<1>5. ASSUME NEW p \in Pollers, ListComplete(p) PROVE WindowInv'
  <2>1. PICK listed \in SUBSET InWindow(p) :
          /\ poll' = [poll EXCEPT ![p] = [at |-> "handle", next |-> @.next, rest |-> listed]]
          /\ cut' = [cut EXCEPT ![p] = @ \cup (InWindow(p) \ listed)]
    BY <1>5 DEF ListComplete
  <2>2. poll[p].at = "list" /\ UNCHANGED <<clock, created, complete, cursor, found, skipped>>
    BY <1>5 DEF ListComplete
  <2>3. InWindow(p) \subseteq Inbound
    BY DEF InWindow, WindowTypes
  <2>4. poll' \in [Pollers -> [at : {"idle", "list", "handle"}, next : Int,
                             rest : SUBSET Inbound]]
    BY <2>1, <2>3 DEF WindowTypes
  <2>5. cut' \in [Pollers -> SUBSET Inbound] /\ \A q \in Pollers : cut[q] \subseteq cut'[q]
    BY <2>1, <2>3 DEF WindowTypes
  <2>6. WindowTypes'
    BY <2>2, <2>4, <2>5 DEF WindowTypes
  <2>7. CursorsBehind' /\ InTime(clock)'
    BY <2>1, <2>2 DEF WindowTypes, CursorsBehind, InTime
  <2>8. \A q \in Pollers, t \in Inbound : Waits(q, t)' => Waits(q, t)
    BY <2>2, <2>5 DEF Waits, Unhandled
  <2>9. NotPassedOver'
    BY <2>2, <2>8 DEF NotPassedOver, Waits, Unhandled
  <2>10. ASSUME NEW q \in Pollers, NEW t \in Inbound, Waits(q, t)', (poll[q].at = "handle")'
         PROVE  t \in poll'[q].rest \/ poll'[q].next <= created[t]
    <3>1. Waits(q, t)
      BY <2>8, <2>10
    <3>2. CASE q # p
      BY <2>1, <2>10, <3>1, <3>2 DEF WindowTypes, ListedOrNewer
    <3>3. CASE q = p /\ t \in complete
      <4>1. t \in InWindow(p)
        BY <3>1, <3>3 DEF NotPassedOver, Waits, Unhandled, InWindow
      <4>2. t \notin cut'[p]
        BY <2>10, <3>3 DEF Waits
      <4>3. t \in listed
        BY <2>1, <4>1, <4>2 DEF WindowTypes
      <4>4. poll'[p].rest = listed
        BY <2>1 DEF WindowTypes
      <4> QED BY <3>3, <4>3, <4>4
    <3>4. CASE q = p /\ t \notin complete
      <4>1. poll'[p].next = poll[p].next
        BY <2>1 DEF WindowTypes
      <4>2. created[t] # -1
        BY <3>1 DEF Waits, Unhandled
      <4>3. poll[p].next <= clock - Buffer /\ clock - created[t] <= Delay
        BY <2>2, <3>4, <4>2 DEF CursorsBehind, InTime
      <4> QED BY <3>4, <4>1, <4>3 DEF WindowTypes
    <3> QED BY <3>2, <3>3, <3>4
  <2>11. ListedOrNewer'
    BY <2>2, <2>10 DEF ListedOrNewer
  <2> QED BY <2>6, <2>7, <2>9, <2>11
<1>6. ASSUME NEW p \in Pollers, NEW t \in Inbound, HandleTx(p, t) \/ SkipTx(p, t)
      PROVE  WindowInv'
  <2>1. WindowTypes' /\ CursorsBehind' /\ InTime(clock)'
    BY <1>6, SMTT(20) DEF HandleTx, SkipTx, WindowTypes, CursorsBehind, InTime
  <2>2. CASE HandleTx(p, t)
    BY <2>1, <2>2 DEF HandleTx, WindowTypes, ListedOrNewer, NotPassedOver, Waits, Unhandled
  <2>3. CASE SkipTx(p, t)
    BY <2>1, <2>3 DEF SkipTx, WindowTypes, ListedOrNewer, NotPassedOver, Waits, Unhandled
  <2> QED BY <1>6, <2>2, <2>3
<1>7. ASSUME NEW p \in Pollers, EndPoll(p) PROVE WindowInv'
  BY <1>7
  DEF EndPoll, NextCursor, Idle, WindowTypes, CursorsBehind, InTime, ListedOrNewer,
      NotPassedOver, Waits, Unhandled
<1>8. ASSUME NEW p \in Pollers, PollFails(p) PROVE WindowInv'
  BY <1>8
  DEF PollFails, Idle, WindowTypes, CursorsBehind, InTime, ListedOrNewer, NotPassedOver, Waits, Unhandled
<1>9. ASSUME NEW time \in clock .. MaxTime, Outage(time) PROVE WindowInv'
  <2>1. time \in Int /\ Lookback \in Int /\ Lookback >= 0
    BY <1>9 DEF WindowTypes
  <2>2. WindowTypes' /\ CursorsBehind' /\ ListedOrNewer'
    BY <1>9, <2>1 DEF Outage, Idle, WindowTypes, CursorsBehind, ListedOrNewer
  <2>3. InTime(clock)'
    BY <1>9 DEF Outage, InTime
  <2>4. NotPassedOver'
    BY <1>9, <2>1 DEF Outage, WindowTypes, NotPassedOver, Unhandled
  <2> QED BY <2>2, <2>3, <2>4
<1>10. CASE UNCHANGED windowVars
  BY <1>10
  DEF windowVars, WindowTypes, CursorsBehind, InTime, ListedOrNewer, NotPassedOver, Waits, Unhandled
<1> QED
  BY <1>1, <1>2, <1>3, <1>4, <1>5, <1>6, <1>7, <1>8, <1>9, <1>10
  DEF PollWindowStep, PollStep

\* No cursor passes a transaction that nobody has handled, whatever polls fail or
\* outlast the buffer, and however often the server stops for less than a day; but
\* those whose handling failed, and those beyond the pages that a poll asks for.
\* (depositIndexer.ts and arcDepositWorker.ts: the cursor and its safety buffer.)
THEOREM NeverPassedOver == PollWindowSpec => []NotPassedOver
<1>1. InitPollWindow => WindowInv
  BY InitWindowInv
<1>2. WindowInv /\ [PollWindowStep]_windowVars => WindowInv'
  BY WindowStepKept
<1>3. WindowInv => NotPassedOver
  BY DEF WindowInv
<1> QED BY <1>1, <1>2, <1>3, PTL DEF PollWindowSpec

LEMMA WindowRest ==
  ASSUME WindowInv, clock \in Nat, found \subseteq Inbound, outages \in Nat,
         [PollWindowStep]_windowVars
  PROVE  clock' \in Nat /\ found' \subseteq Inbound /\ outages' \in Nat
<1>1. clock' = clock \/ clock' = clock + 1 \/ clock' \in clock .. MaxTime
  BY DEF windowVars, PollWindowStep, Create, Complete, PassTime, PollStep, StartPoll,
         ListComplete, EndPoll, PollFails, HandleTx, SkipTx, Outage
<1>2. found' = found \/ \E t \in Inbound : found' = found \cup {t}
  BY DEF windowVars, PollWindowStep, Create, Complete, PassTime, PollStep, StartPoll,
         ListComplete, EndPoll, PollFails, HandleTx, SkipTx, Outage
<1>3. outages' = outages \/ outages' = outages + 1
  BY DEF windowVars, PollWindowStep, Create, Complete, PassTime, PollStep, StartPoll,
         ListComplete, EndPoll, PollFails, HandleTx, SkipTx, Outage
<1> QED BY <1>1, <1>2, <1>3, PollWindowAssumption

\* The clock, the cursors and what a poll has in hand have their types, and what was
\* found is a transaction there is.  (depositIndexer.ts, arcDepositWorker.ts.)
THEOREM WindowTyped == PollWindowSpec => []PollWindowTypeOK
<1> DEFINE InRange == clock \in Nat /\ found \subseteq Inbound /\ outages \in Nat
<1>1. InitPollWindow => InRange
  BY DEF InitPollWindow
<1>2. WindowInv /\ InRange /\ [PollWindowStep]_windowVars => InRange'
  BY WindowRest
<1>3. WindowInv /\ InRange => PollWindowTypeOK
  BY DEF WindowInv, WindowTypes, PollWindowTypeOK
<1> HIDE DEF InRange
<1> QED BY <1>1, <1>2, <1>3, InitWindowInv, WindowStepKept, PTL DEF PollWindowSpec

-----------------------------------------------------------------------------
(***************************************************************************)
(* WireAccounts                                                            *)
(***************************************************************************)
Row(u, ref) == [user |-> u, ref |-> ref]

\* A request has a reference of its own user: before the row is inserted it is an
\* account at Circle, when it is shown it is in a row.
RequestsKnown ==
  \A q \in Instructed :
    /\ instruction[q].at = "insert" =>
         instruction[q].ref \in Instructed /\ InstructedTo[instruction[q].ref] = InstructedTo[q]
    /\ instruction[q].at = "show" => Row(InstructedTo[q], instruction[q].ref) \in virtual

\* A reference is the one user's for whom Circle made it.
RowsKnown ==
  /\ bankRefs \subseteq Instructed
  /\ virtual \subseteq [user : Depositors, ref : Instructed]
  /\ \A row \in virtual : row.user = InstructedTo[row.ref]

ShownKnown == \A u \in Depositors : \A ref \in shown[u] : Row(u, ref) \in virtual

WiresKnown ==
  \A w \in WiresSent : wire[w].at # "none" => Row(wire[w].by, wire[w].ref) \in virtual

WireTypes ==
  /\ instruction \in [Instructed ->
       [at : {"new", "create", "insert", "show", "over"}, ref : Refs]]
  /\ shown \in [Depositors -> SUBSET Instructed]
  /\ wire \in [WiresSent -> [at : {"none", "sent", "credited", "dropped", "lost"},
                             by : Depositors \cup {NoRef}, ref : Refs,
                             credited : Depositors \cup {NoRef}]]

WireInv ==
  /\ WireTypes /\ RequestsKnown /\ RowsKnown /\ ShownKnown /\ WiresKnown
  /\ WireReachesSender

LEMMA InitWireInv == InitWireAccounts => WireInv
<1> SUFFICES ASSUME InitWireAccounts PROVE WireInv
  OBVIOUS
<1>1. WireTypes
  BY DEF InitWireAccounts, WireTypes, NewInstruction, NoWire, Refs
<1>2. RequestsKnown /\ RowsKnown /\ ShownKnown /\ WiresKnown /\ WireReachesSender
  BY DEF InitWireAccounts, NewInstruction, NoWire, RequestsKnown, RowsKnown, ShownKnown,
         WiresKnown, WireReachesSender
<1> QED BY <1>1, <1>2 DEF WireInv

\* A request moves on, with a reference it may have at its new place; the rest follows.
LEMMA RequestGoes ==
  ASSUME WireInv,
         NEW q \in Instructed,
         NEW place \in {"create", "insert", "show", "over"},
         NEW ref \in Refs,
         Goes(q, place, ref),
         virtual \subseteq virtual', RowsKnown', ShownKnown', UNCHANGED wire,
         shown' \in [Depositors -> SUBSET Instructed],
         place = "insert" => ref \in Instructed /\ InstructedTo[ref] = InstructedTo[q],
         place = "show" => Row(InstructedTo[q], ref) \in virtual'
  PROVE  WireInv'
<1>1. instruction' = [instruction EXCEPT ![q] = [at |-> place, ref |-> ref]]
  BY DEF Goes
<1>2. WireTypes'
  BY <1>1 DEF WireInv, WireTypes
<1>3. RequestsKnown'
  BY <1>1 DEF WireInv, WireTypes, RequestsKnown
<1>4. WiresKnown' /\ WireReachesSender'
  BY DEF WireInv, WiresKnown, WireReachesSender
<1> QED BY <1>2, <1>3, <1>4 DEF WireInv

LEMMA WireStepKept == WireInv /\ [WireAccountsStep]_wireVars => WireInv'
<1> SUFFICES ASSUME WireInv, [WireAccountsStep]_wireVars PROVE WireInv'
  OBVIOUS
<1>1. ASSUME NEW q \in Instructed, BeginInstructions(q) PROVE WireInv'
  <2>1. UNCHANGED <<virtual, bankRefs, shown, wire>> /\ RowsKnown' /\ ShownKnown'
    BY <1>1 DEF BeginInstructions, WireInv, RowsKnown, ShownKnown
  <2>2. CASE Goes(q, "create", NoRef)
    BY <1>1, <2>1, <2>2, RequestGoes DEF Refs, WireInv, WireTypes
  <2>3. ASSUME NEW row \in RowsOf(InstructedTo[q]), Goes(q, "show", row.ref)
        PROVE  WireInv'
    <3>1. row \in virtual /\ row = Row(InstructedTo[q], row.ref) /\ row.ref \in Instructed
      BY <2>3 DEF RowsOf, Row, WireInv, RowsKnown
    <3> QED BY <2>1, <2>3, <3>1, RequestGoes DEF Refs, WireInv, WireTypes
  <2> QED BY <1>1, <2>2, <2>3 DEF BeginInstructions
<1>2. ASSUME NEW q \in Instructed, CreateWireAccount(q) PROVE WireInv'
  <2>1. PICK ref \in {q} \cup {r \in bankRefs : InstructedTo[r] = InstructedTo[q]} :
          bankRefs' = bankRefs \cup {ref} /\ Goes(q, "insert", ref)
    BY <1>2 DEF CreateWireAccount, AfterCreate
  <2>2. ref \in Instructed /\ InstructedTo[ref] = InstructedTo[q]
    BY <2>1 DEF WireInv, RowsKnown
  <2>3. UNCHANGED <<virtual, shown, wire>> /\ RowsKnown' /\ ShownKnown'
    BY <1>2, <2>1, <2>2 DEF CreateWireAccount, WireInv, RowsKnown, ShownKnown
  <2> QED BY <2>1, <2>2, <2>3, RequestGoes DEF Refs, WireInv, WireTypes
<1>3. ASSUME NEW q \in Instructed, InsertAccount(q) PROVE WireInv'
  <2> DEFINE ref == instruction[q].ref
  <2>1. /\ virtual' = virtual \cup {Row(InstructedTo[q], ref)}
        /\ Goes(q, "show", ref)
        /\ UNCHANGED <<bankRefs, shown, wire>>
    BY <1>3 DEF InsertAccount, Row
  <2>2. ref \in Instructed /\ InstructedTo[ref] = InstructedTo[q]
    BY <1>3 DEF InsertAccount, WireInv, RequestsKnown
  <2>3. InstructedTo[q] \in Depositors
    BY DEF Depositors
  <2>4. RowsKnown' /\ ShownKnown'
    BY <2>1, <2>2, <2>3 DEF WireInv, RowsKnown, ShownKnown, Row
  <2> HIDE DEF ref
  <2> QED BY <2>1, <2>2, <2>4, RequestGoes DEF Refs, WireInv, WireTypes
<1>4. ASSUME NEW q \in Instructed, ShowInstructions(q) PROVE WireInv'
  <2> DEFINE ref == instruction[q].ref
  <2>1. /\ shown' = [shown EXCEPT ![InstructedTo[q]] = @ \cup {ref}]
        /\ Goes(q, "over", NoRef)
        /\ UNCHANGED <<virtual, bankRefs, wire>>
    BY <1>4 DEF ShowInstructions, Ends, Goes, InstructionOver
  <2>2. Row(InstructedTo[q], ref) \in virtual
    BY <1>4 DEF ShowInstructions, WireInv, RequestsKnown
  <2>3. ref \in Instructed /\ InstructedTo[q] \in Depositors
    BY <2>2 DEF WireInv, RowsKnown, Row, Depositors
  <2>4. RowsKnown' /\ ShownKnown' /\ shown' \in [Depositors -> SUBSET Instructed]
    BY <2>1, <2>2, <2>3 DEF WireInv, WireTypes, RowsKnown, ShownKnown
  <2> QED BY <2>1, <2>4, RequestGoes DEF Refs
<1>5. ASSUME NEW q \in Instructed, InstructionFails(q) PROVE WireInv'
  <2>1. /\ Goes(q, "over", NoRef)
        /\ bankRefs' \subseteq bankRefs \cup {q}
        /\ UNCHANGED <<virtual, shown, wire>>
    BY <1>5 DEF InstructionFails, Ends, Goes, InstructionOver
  <2>2. RowsKnown' /\ ShownKnown'
    BY <2>1 DEF WireInv, RowsKnown, ShownKnown
  <2> QED BY <2>1, <2>2, RequestGoes DEF Refs, WireInv, WireTypes
<1>6. ASSUME NEW w \in WiresSent, NEW u \in Depositors, SendWire(w, u) \/ MockWire(w, u)
      PROVE  WireInv'
  <2>1. PICK ref : Row(u, ref) \in virtual /\ Sent(w, u, ref)
    <3>1. CASE SendWire(w, u)
      BY <3>1 DEF SendWire, WireInv, ShownKnown
    <3>2. CASE MockWire(w, u)
      <4>1. PICK row \in RowsOf(u) : Sent(w, u, row.ref)
        BY <3>2 DEF MockWire
      <4>2. row = Row(u, row.ref) /\ row \in virtual
        BY <4>1 DEF RowsOf, Row, WireInv, RowsKnown
      <4> QED BY <4>1, <4>2
    <3> QED BY <1>6, <3>1, <3>2
  <2>2. ref \in Instructed
    BY <2>1 DEF WireInv, RowsKnown, Row
  <2>3. /\ wire' = [wire EXCEPT ![w] = [at |-> "sent", by |-> u, ref |-> ref, credited |-> NoRef]]
        /\ UNCHANGED <<instruction, virtual, bankRefs, shown>>
    BY <2>1 DEF Sent, NoWire
  <2>4. WireTypes'
    BY <2>2, <2>3 DEF WireInv, WireTypes, Refs
  <2>5. WiresKnown' /\ WireReachesSender'
    BY <2>1, <2>3 DEF WireInv, WireTypes, WiresKnown, WireReachesSender
  <2> QED
    BY <2>3, <2>4, <2>5 DEF WireInv, RequestsKnown, RowsKnown, ShownKnown
<1>7. ASSUME NEW w \in WiresSent, WireArrives(w) PROVE WireInv'
  <2>1. Row(wire[w].by, wire[w].ref) \in virtual
    BY <1>7 DEF WireArrives, WireInv, WiresKnown
  <2>2. PICK row \in virtual :
          /\ row.ref = wire[w].ref
          /\ wire' = [wire EXCEPT ![w] =
               [at |-> "credited", by |-> @.by, ref |-> @.ref, credited |-> row.user]]
    BY <1>7, <2>1 DEF WireArrives, Row
  <2>3. row.user = wire[w].by /\ wire[w].by \in Depositors
    BY <2>1, <2>2 DEF WireInv, RowsKnown, Row
  <2>4. /\ wire' = [wire EXCEPT ![w] = [at |-> "credited", by |-> wire[w].by,
                                       ref |-> wire[w].ref, credited |-> wire[w].by]]
        /\ UNCHANGED <<instruction, virtual, bankRefs, shown>>
    BY <1>7, <2>2, <2>3 DEF WireArrives, WireInv, WireTypes
  <2>5. WireTypes'
    BY <2>3, <2>4 DEF WireInv, WireTypes
  <2>6. WiresKnown' /\ WireReachesSender'
    BY <2>1, <2>4 DEF WireInv, WireTypes, WiresKnown, WireReachesSender
  <2> QED
    BY <2>4, <2>5, <2>6 DEF WireInv, RequestsKnown, RowsKnown, ShownKnown
<1>8. ASSUME NEW w \in WiresSent, LoseWire(w) PROVE WireInv'
  <2>1. /\ wire' = [wire EXCEPT ![w].at = "lost"]
        /\ wire[w].at = "sent"
        /\ UNCHANGED <<instruction, virtual, bankRefs, shown>>
    BY <1>8 DEF LoseWire
  <2>2. WireTypes'
    BY <2>1 DEF WireInv, WireTypes
  <2>3. wire \in [WiresSent -> [at : {"none", "sent", "credited", "dropped", "lost"},
                               by : Depositors \cup {NoRef}, ref : Refs,
                               credited : Depositors \cup {NoRef}]]
    BY DEF WireInv, WireTypes
  <2>4. WiresKnown' /\ WireReachesSender'
    BY <2>1, <2>3 DEF WireInv, WiresKnown, WireReachesSender
  <2> QED
    BY <2>1, <2>2, <2>4 DEF WireInv, RequestsKnown, RowsKnown, ShownKnown
<1>9. CASE UNCHANGED wireVars
  BY <1>9
  DEF wireVars, WireInv, WireTypes, RequestsKnown, RowsKnown, ShownKnown, WiresKnown,
      WireReachesSender
<1> QED
  BY <1>1, <1>2, <1>3, <1>4, <1>5, <1>6, <1>7, <1>8, <1>9 DEF WireAccountsStep

\* A wire that follows instructions its sender was shown credits its sender, however
\* many first requests of one user overlap, fail and are lost in restarts.
\* (deposit.ts, GET /wire/instructions and POST /circle/webhook.)
THEOREM WiresReachSenders == WireAccountsSpec => []WireReachesSender
<1>1. InitWireAccounts => WireInv
  BY InitWireInv
<1>2. WireInv /\ [WireAccountsStep]_wireVars => WireInv'
  BY WireStepKept
<1>3. WireInv => WireReachesSender
  BY DEF WireInv
<1> QED BY <1>1, <1>2, <1>3, PTL DEF WireAccountsSpec

\* A reference is that of a request, in a request, a row or a wire, and Circle's
\* errors are counted.  (deposit.ts, GET /wire/instructions.)
THEOREM WiresTyped == WireAccountsSpec => []WireAccountsTypeOK
<1> DEFINE Errors == bankErrors \in 0 .. MaxBankErrors
<1>1. InitWireAccounts => Errors
  BY WireAccountsAssumption DEF InitWireAccounts
<1>2. Errors /\ [WireAccountsStep]_wireVars => Errors'
  <2> SUFFICES ASSUME Errors, [WireAccountsStep]_wireVars PROVE Errors'
    OBVIOUS
  <2>1. CASE \E w \in WiresSent : LoseWire(w)
    BY <2>1, WireAccountsAssumption DEF LoseWire, BankError
  <2>2. CASE \E q \in Instructed : InstructionFails(q)
    BY <2>2, WireAccountsAssumption DEF InstructionFails, BankError
  <2>3. CASE \E q \in Instructed : BeginInstructions(q) \/ CreateWireAccount(q)
                                    \/ InsertAccount(q) \/ ShowInstructions(q)
    BY <2>3 DEF BeginInstructions, CreateWireAccount, InsertAccount, ShowInstructions
  <2>4. CASE \E w \in WiresSent :
               WireArrives(w) \/ \E u \in Depositors : SendWire(w, u) \/ MockWire(w, u)
    BY <2>4 DEF WireArrives, SendWire, MockWire, Sent
  <2>5. CASE UNCHANGED wireVars
    BY <2>5 DEF wireVars
  <2> QED BY <2>1, <2>2, <2>3, <2>4, <2>5 DEF WireAccountsStep
<1>3. WireInv /\ Errors => WireAccountsTypeOK
  BY DEF WireInv, WireTypes, RowsKnown, WireAccountsTypeOK
<1> HIDE DEF Errors
<1> QED BY <1>1, <1>2, <1>3, InitWireInv, WireStepKept, PTL DEF WireAccountsSpec

-----------------------------------------------------------------------------
(***************************************************************************)
(* Wallets                                                                 *)
(***************************************************************************)
ProvisioningType ==
  [at : {"idle", "evm", "other", "write"}, creates : BOOLEAN,
   map : SUBSET WalletChains, grew : BOOLEAN]

LEMMA NoJobTyped == NoJob \in ProvisioningType
  BY DEF NoJob, ProvisioningType

LEMMA BeginTyped ==
  ASSUME NEW creates \in BOOLEAN, NEW map \in SUBSET WalletChains
  PROVE  Begin(creates, map) \in ProvisioningType
  BY DEF Begin, ProvisioningType

\* A map only grows by chains that there are.
LEMMA GrownTyped ==
  ASSUME NEW r \in ProvisioningType, NEW at \in {"other", "write"},
         NEW given \in SUBSET WalletChains, NEW grew \in BOOLEAN
  PROVE  [r EXCEPT !.at = at, !.map = @ \cup given, !.grew = grew] \in ProvisioningType
<1>1. r.map \cup given \in SUBSET WalletChains
  BY DEF ProvisioningType
<1> QED BY <1>1 DEF ProvisioningType

LEMMA WalletTypesKept == WalletsTypeOK /\ [WalletsStep]_walletVars => WalletsTypeOK'
<1> SUFFICES ASSUME WalletsTypeOK, [WalletsStep]_walletVars PROVE WalletsTypeOK'
  OBVIOUS
<1>1. /\ primary \in BOOLEAN /\ wallets \in SUBSET WalletChains
      /\ job \in [Provisionings -> ProvisioningType]
      /\ refusals \in 0 .. MaxRefusals /\ MaxRefusals \in Nat
  BY WalletsAssumption DEF WalletsTypeOK, ProvisioningType
<1>2. SUFFICES /\ primary' \in BOOLEAN /\ wallets' \in SUBSET WalletChains
               /\ job' \in [Provisionings -> ProvisioningType]
               /\ refusals' \in 0 .. MaxRefusals
  BY DEF WalletsTypeOK, ProvisioningType
<1>3. ASSUME Refuse \/ UNCHANGED refusals PROVE refusals' \in 0 .. MaxRefusals
  BY <1>1, <1>3 DEF Refuse
<1>4. ASSUME NEW j \in Provisionings, Visit(j) \/ ShowAddresses(j)
      PROVE job' \in [Provisionings -> ProvisioningType]
  <2>1. PICK creates \in BOOLEAN, map \in SUBSET WalletChains :
          job' = [job EXCEPT ![j] = Begin(creates, map)]
    BY <1>1, <1>4 DEF Visit, ShowAddresses
  <2> QED BY <1>1, <2>1, BeginTyped
<1>5. ASSUME NEW j \in Provisionings, NEW given \in SUBSET EvmChains, CreateEvm(j, given)
      PROVE job' \in [Provisionings -> ProvisioningType]
  <2>1. job[j] \in ProvisioningType /\ given \in SUBSET WalletChains
    BY <1>1 DEF WalletChains
  <2>2. (job[j].grew \/ given # {}) \in BOOLEAN
    OBVIOUS
  <2> DEFINE grown == [job[j] EXCEPT !.at = "other", !.map = @ \cup given,
                                     !.grew = @ \/ given # {}]
  <2>3. grown \in ProvisioningType
    BY <2>1, <2>2, GrownTyped
  <2>4. job' \in [Provisionings -> ProvisioningType]
    <3>1. job' = [job EXCEPT ![j] =
                   IF job[j].creates /\ BaseChain \notin given THEN NoJob ELSE grown]
      BY <1>5, Zenon DEF CreateEvm
    <3> HIDE DEF grown
    <3> QED BY <1>1, <2>3, <3>1, NoJobTyped
  <2> QED BY <2>4
<1>6. ASSUME NEW j \in Provisionings, NEW given \in SUBSET OtherChains, CreateOther(j, given)
      PROVE job' \in [Provisionings -> ProvisioningType]
  <2>1. job[j] \in ProvisioningType /\ given \in SUBSET WalletChains
    BY <1>1 DEF WalletChains
  <2> DEFINE grown == [job[j] EXCEPT !.at = "write", !.map = @ \cup given, !.grew = TRUE]
  <2>2. grown \in ProvisioningType
    BY <2>1, GrownTyped
  <2>3. job' = [job EXCEPT ![j] = IF job[j].grew \/ given # {} THEN grown ELSE NoJob]
    BY <1>6, Zenon DEF CreateOther
  <2> HIDE DEF grown
  <2> QED BY <1>1, <2>2, <2>3, NoJobTyped
<1>7. ASSUME NEW j \in Provisionings, WriteWallets(j)
      PROVE /\ primary' \in BOOLEAN /\ wallets' \in SUBSET WalletChains
            /\ job' \in [Provisionings -> ProvisioningType]
  <2>1. job[j].map \in SUBSET WalletChains /\ job[j].creates \in BOOLEAN
    BY <1>1 DEF ProvisioningType
  <2>2. wallets' = job[j].map /\ primary' = (primary \/ job[j].creates)
        /\ job' = [job EXCEPT ![j] = NoJob]
    BY <1>7 DEF WriteWallets
  <2>3. primary' \in BOOLEAN
    BY <2>2, Zenon
  <2> QED BY <1>1, <2>1, <2>2, <2>3, NoJobTyped
<1>8. CASE \E j \in Provisionings : Visit(j) \/ ShowAddresses(j)
  BY <1>1, <1>3, <1>4, <1>8 DEF Visit, ShowAddresses
<1>9. CASE \E j \in Provisionings, given \in SUBSET EvmChains : CreateEvm(j, given)
  <2>1. PICK j \in Provisionings, given \in SUBSET EvmChains : CreateEvm(j, given)
    BY <1>9
  <2>2. (Refuse \/ UNCHANGED refusals) /\ UNCHANGED <<primary, wallets>>
    BY <2>1 DEF CreateEvm
  <2> QED BY <1>1, <1>3, <1>5, <2>1, <2>2
<1>10. CASE \E j \in Provisionings, given \in SUBSET OtherChains : CreateOther(j, given)
  <2>1. PICK j \in Provisionings, given \in SUBSET OtherChains : CreateOther(j, given)
    BY <1>10
  <2>2. (Refuse \/ UNCHANGED refusals) /\ UNCHANGED <<primary, wallets>>
    BY <2>1 DEF CreateOther
  <2> QED BY <1>1, <1>3, <1>6, <2>1, <2>2
<1>11. CASE \E j \in Provisionings : WriteWallets(j)
  BY <1>1, <1>7, <1>11 DEF WriteWallets
<1>12. CASE StopProvisioning
  BY <1>1, <1>3, <1>12, NoJobTyped DEF StopProvisioning
<1>13. CASE UNCHANGED walletVars
  BY <1>1, <1>13 DEF walletVars
<1> QED
  BY <1>8, <1>9, <1>10, <1>11, <1>12, <1>13 DEF WalletsStep, ProvisioningStep

\* The maps of a user name only chains that there are, whichever jobs overlap.
THEOREM WalletsTyped == WalletsSpec => []WalletsTypeOK
<1>1. InitWallets => WalletsTypeOK
  <2> SUFFICES ASSUME InitWallets PROVE WalletsTypeOK
    OBVIOUS
  <2>1. job \in [Provisionings -> ProvisioningType]
    BY NoJobTyped DEF InitWallets
  <2>2. wallets \subseteq WalletChains /\ refusals \in 0 .. MaxRefusals
    BY WalletsAssumption DEF InitWallets
  <2> QED BY <2>1, <2>2 DEF InitWallets, WalletsTypeOK, ProvisioningType
<1> QED BY <1>1, WalletTypesKept, PTL DEF WalletsSpec

-----------------------------------------------------------------------------
(***************************************************************************)
(* Treasury                                                                *)
(***************************************************************************)
SweepType ==
  [at : {"none", "submit", "wait", "approve", "depositFor", "end"},
   wallet : UserWallets \cup {"none"}, amount : Nat]

WorkerType ==
  [at : {"idle", "read", "approve", "approved", "depositFor", "deposit", "end"},
   balance : Nat]

AdminType == [at : {"new", "approve", "approved", "over"}, amount : Nat]

TransactionType ==
  [of : Flows, kind : {"sweep", "approve", "depositFor", "deposit", "payout"},
   wallet : UserWallets \cup {"none"}, amount : Nat]

(***************************************************************************)
(* Why what the worker deposits is an amount, and cooldowns are of amounts *)
(* that arrived: the worker goes on only with a balance above its float,   *)
(* and nothing else reaches a wallet.                                      *)
(***************************************************************************)
TreasuryInv ==
  /\ TreasuryTypeOK
  /\ worker.at # "idle" => worker.balance >= Float
  /\ \A u \in UserWallets : inWallet[u] <= arrivals

CoinTypes ==
  /\ network \in Networks
  /\ inWallet \in [UserWallets -> Nat] /\ treasury \in Nat
  /\ inGateway \in Nat /\ approval \in Nat
  /\ \A u \in UserWallets : inWallet[u] <= arrivals

JobTypes ==
  /\ reports \in [UserWallets -> Nat] /\ busy \in BOOLEAN
  /\ cooling \subseteq Cooldowns
  /\ sweep \in [Sweeps -> SweepType]
  /\ worker \in WorkerType /\ (worker.at # "idle" => worker.balance >= Float)
  /\ admin \in AdminType
  /\ paidOut \in BOOLEAN
  /\ submitted \subseteq TransactionType

LEMMA TreasuryInParts ==
  TreasuryInv <=>
    CoinTypes /\ JobTypes /\ arrivals \in 0 .. MaxArrivals /\ faults \in 0 .. MaxFaults
  BY DEF TreasuryInv, TreasuryTypeOK, CoinTypes, JobTypes, SweepType, WorkerType, AdminType,
         TransactionType

LEMMA TreasuryInPartsNext ==
  TreasuryInv' <=>
    CoinTypes' /\ JobTypes' /\ arrivals' \in 0 .. MaxArrivals /\ faults' \in 0 .. MaxFaults
  BY DEF TreasuryInv, TreasuryTypeOK, CoinTypes, JobTypes, SweepType, WorkerType, AdminType,
         TransactionType

LEMMA FaultCounted ==
  ASSUME faults \in 0 .. MaxFaults, Fault PROVE faults' \in 0 .. MaxFaults
  BY TreasuryAssumption DEF Fault

LEMMA SweepGoesOn ==
  ASSUME NEW r \in SweepType, NEW to \in {"submit", "wait", "approve", "depositFor", "end"}
  PROVE  [r EXCEPT !.at = to] \in SweepType
  BY DEF SweepType

LEMMA WorkerGoesOn ==
  ASSUME NEW r \in WorkerType, r.balance >= Float,
         NEW to \in {"approve", "approved", "depositFor", "deposit", "end"}
  PROVE  /\ [r EXCEPT !.at = to] \in WorkerType
         /\ [r EXCEPT !.at = to].balance >= Float
  BY DEF WorkerType

\* What a flow submits is of its wallet, and an amount.
LEMMA Submitted ==
  ASSUME submitted \subseteq TransactionType,
         NEW f \in Flows, NEW kind \in {"sweep", "approve", "depositFor", "deposit", "payout"},
         NEW wallet \in UserWallets \cup {"none"}, NEW amount \in Nat,
         Submit(f, kind, wallet, amount)
  PROVE  submitted' \subseteq TransactionType
<1>1. [of |-> f, kind |-> kind, wallet |-> wallet, amount |-> amount] \in TransactionType
  BY DEF TransactionType
<1> QED BY <1>1 DEF Submit

\* Whoever hears of a transaction goes on, or ends.
LEMMA Heard ==
  ASSUME JobTypes, NEW t \in TransactionType, NEW ok, Hear(t, ok)
  PROVE  /\ sweep' \in [Sweeps -> SweepType]
         /\ worker' \in WorkerType /\ (worker'.at # "idle" => worker'.balance >= Float)
         /\ admin' \in AdminType
<1>1. sweep' \in [Sweeps -> SweepType]
  <2>1. PICK to \in {"approve", "end"} :
          \/ sweep' = [sweep EXCEPT ![t.of].at = to]
          \/ sweep' = sweep
    BY DEF Hear
  <2>2. CASE t.of \in Sweeps
    <3>1. sweep[t.of] \in SweepType /\ sweep \in [Sweeps -> SweepType]
      BY <2>2 DEF JobTypes
    <3>2. [sweep[t.of] EXCEPT !.at = to] \in SweepType
      BY <3>1, SweepGoesOn
    <3> QED BY <2>1, <2>2, <3>1, <3>2
  <2>3. CASE t.of \notin Sweeps
    BY <2>1, <2>3 DEF JobTypes
  <2> QED BY <2>2, <2>3
<1>2. worker' \in WorkerType /\ (worker'.at # "idle" => worker'.balance >= Float)
  <2>1. CASE t.of = Worker /\ worker.at = t.kind
    <3>1. worker.balance >= Float /\ worker \in WorkerType
      BY <2>1 DEF JobTypes, TransactionType
    <3>2. PICK to \in {"approved", "end"} : worker' = [worker EXCEPT !.at = to]
      BY <2>1 DEF Hear
    <3> QED BY <3>1, <3>2, WorkerGoesOn
  <2>2. CASE ~ (t.of = Worker /\ worker.at = t.kind)
    BY <2>2 DEF Hear, JobTypes
  <2> QED BY <2>1, <2>2
<1>3. admin' \in AdminType
  <2>1. \/ admin' = admin \/ admin' = AdminOver
        \/ admin' = [admin EXCEPT !.at = "approved"]
    BY DEF Hear
  <2> QED BY <2>1 DEF JobTypes, AdminType, AdminOver
<1> QED BY <1>1, <1>2, <1>3

\* Nothing is taken from where it is not.
LEMMA Effected ==
  ASSUME CoinTypes, NEW t \in TransactionType, Possible(t), Effect(t), UNCHANGED arrivals,
         arrivals \in Nat
  PROVE  CoinTypes'
<1>1. /\ t.amount \in Nat /\ network \in Networks
      /\ inWallet \in [UserWallets -> Nat] /\ treasury \in Nat
      /\ inGateway \in Nat /\ approval \in Nat
      /\ \A u \in UserWallets : inWallet[u] <= arrivals
  BY DEF CoinTypes, TransactionType
<1>2. CASE t.kind = "sweep"
  <2>1. /\ inWallet[t.wallet] >= t.amount
        /\ inWallet' = [inWallet EXCEPT ![t.wallet] = @ - t.amount]
        /\ treasury' = treasury + t.amount
        /\ UNCHANGED <<network, inGateway, approval>>
    BY <1>2 DEF Possible, Effect
  <2>2. \A u \in UserWallets : inWallet'[u] \in Nat /\ inWallet'[u] <= inWallet[u]
    BY <1>1, <2>1
  <2>3. inWallet' \in [UserWallets -> Nat]
    BY <1>1, <2>1, <2>2
  <2>4. \A u \in UserWallets : inWallet'[u] <= arrivals'
    BY <1>1, <2>2
  <2> QED BY <1>1, <2>1, <2>3, <2>4 DEF CoinTypes
<1>3. CASE t.kind = "approve"
  BY <1>1, <1>3 DEF Effect, CoinTypes
<1>4. CASE t.kind = "depositFor"
  BY <1>1, <1>4 DEF Possible, Effect, CoinTypes
<1>5. CASE t.kind = "deposit"
  BY <1>1, <1>5 DEF Possible, Effect, CoinTypes
<1>6. CASE t.kind = "payout"
  BY <1>1, <1>6 DEF Possible, Effect, CoinTypes
<1> QED BY <1>2, <1>3, <1>4, <1>5, <1>6 DEF TransactionType

LEMMA CoinsStay ==
  ASSUME CoinTypes, UNCHANGED <<coins, arrivals>> PROVE CoinTypes'
  BY DEF CoinTypes, coins

LEMMA CircleSteps ==
  ASSUME TreasuryInv, NEW t \in submitted, Execute(t) \/ Reject(t)
  PROVE  TreasuryInv'
<1>1. /\ CoinTypes /\ JobTypes /\ arrivals \in 0 .. MaxArrivals /\ faults \in 0 .. MaxFaults
      /\ arrivals \in Nat
  BY TreasuryInParts, TreasuryAssumption
<1>2. t \in TransactionType
  BY <1>1 DEF JobTypes
<1>3. faults' \in 0 .. MaxFaults /\ UNCHANGED arrivals
  BY <1>1, FaultCounted DEF Execute, Reject, UnchangedByChain
<1>4. Hear(t, Possible(t)) \/ Hear(t, FALSE)
  BY DEF Execute, Reject
<1>5. CoinTypes'
  <2>1. CASE UNCHANGED coins
    BY <1>1, <1>3, <2>1, CoinsStay
  <2>2. CASE Possible(t) /\ Effect(t)
    BY <1>1, <1>2, <1>3, <2>2, Effected
  <2> QED BY <2>1, <2>2 DEF Execute, Reject
<1>6. JobTypes'
  <2>1. /\ sweep' \in [Sweeps -> SweepType]
        /\ worker' \in WorkerType /\ (worker'.at # "idle" => worker'.balance >= Float)
        /\ admin' \in AdminType
    BY <1>1, <1>2, <1>4, Heard
  <2>2. UNCHANGED <<reports, busy, cooling, paidOut>> /\ submitted' \subseteq submitted
    BY DEF Execute, Reject, UnchangedByChain
  <2> QED BY <1>1, <2>1, <2>2 DEF JobTypes
<1> QED BY <1>1, <1>3, <1>5, <1>6, TreasuryInPartsNext

LEMMA Arrived ==
  ASSUME TreasuryInv, NEW u \in UserWallets, Arrive(u)
  PROVE  TreasuryInv'
<1>1. /\ CoinTypes /\ JobTypes /\ arrivals \in 0 .. MaxArrivals /\ faults \in 0 .. MaxFaults
      /\ MaxArrivals \in Nat
  BY TreasuryInParts, TreasuryAssumption
<1>2. arrivals' = arrivals + 1 /\ arrivals' \in 0 .. MaxArrivals
  BY <1>1 DEF Arrive
<1>3. CoinTypes'
  <2>1. /\ inWallet \in [UserWallets -> Nat] /\ inWallet' = [inWallet EXCEPT ![u] = @ + 1]
        /\ \A v \in UserWallets : inWallet[v] <= arrivals
    BY <1>1 DEF Arrive, CoinTypes
  <2>2. \A v \in UserWallets : inWallet'[v] <= arrivals'
    BY <1>1, <1>2, <2>1
  <2> QED BY <1>1, <2>1, <2>2 DEF Arrive, CoinTypes
<1>4. JobTypes'
  BY <1>1 DEF Arrive, JobTypes
<1> QED BY <1>1, <1>2, <1>3, <1>4, TreasuryInPartsNext DEF Arrive

\* What a sweep begins with.
LEMMA SweepBegins ==
  ASSUME JobTypes, NEW s \in Sweeps, NEW u \in UserWallets, NEW amount \in Nat,
         StartSweep(s, u, amount)
  PROVE  sweep' \in [Sweeps -> SweepType] /\ busy' \in BOOLEAN
<1>1. [at |-> "submit", wallet |-> u, amount |-> amount] \in SweepType
  BY DEF SweepType
<1>2. busy' \in BOOLEAN
  BY Zenon DEF StartSweep
<1> QED BY <1>1, <1>2 DEF StartSweep, JobTypes

LEMMA SweepsBegin ==
  ASSUME TreasuryInv, NEW s \in Sweeps, NEW u \in UserWallets,
         SweepDeposit(s, u) \/ Reconcile(s, u) \/ AdminSweep(s, u)
  PROVE  TreasuryInv'
<1>1. /\ CoinTypes /\ JobTypes /\ arrivals \in 0 .. MaxArrivals /\ faults \in 0 .. MaxFaults
  BY TreasuryInParts
<1>2. UNCHANGED <<coins, worker, admin, paidOut, submitted, arrivals, faults>>
  BY DEF SweepDeposit, Reconcile, AdminSweep
<1>3. CoinTypes'
  BY <1>1, <1>2, CoinsStay
<1>4. inWallet[u] \in Nat /\ inWallet[u] <= arrivals /\ MaxArrivals \in Nat
  BY <1>1, TreasuryAssumption DEF CoinTypes
<1>5. CASE SweepDeposit(s, u)
  <2>1. StartSweep(s, u, 1) /\ UNCHANGED cooling
        /\ reports' = [reports EXCEPT ![u] = @ - 1] /\ reports[u] > 0
    BY <1>5 DEF SweepDeposit
  <2>2. sweep' \in [Sweeps -> SweepType] /\ busy' \in BOOLEAN
    BY <1>1, <2>1, SweepBegins
  <2>3. reports' \in [UserWallets -> Nat]
    BY <1>1, <2>1 DEF JobTypes
  <2>4. JobTypes'
    BY <1>1, <1>2, <2>1, <2>2, <2>3 DEF JobTypes
  <2> QED BY <1>1, <1>2, <1>3, <2>4, TreasuryInPartsNext
<1>6. CASE Reconcile(s, u)
  <2>1. PICK amount \in WalletBalance(u) :
          amount > 0 /\ cooling' = cooling \cup {<<u, amount>>} /\ StartSweep(s, u, amount)
    BY <1>6 DEF Reconcile
  <2>2. amount \in Nat /\ amount \in 1 .. MaxArrivals
    BY <1>1, <1>4, <2>1 DEF WalletBalance
  <2>3. sweep' \in [Sweeps -> SweepType] /\ busy' \in BOOLEAN
    BY <1>1, <2>1, <2>2, SweepBegins
  <2>4. <<u, amount>> \in Cooldowns
    BY <2>2 DEF Cooldowns
  <2>5. cooling' \subseteq Cooldowns
    BY <1>1, <2>1, <2>4 DEF JobTypes
  <2>6. UNCHANGED reports
    BY <1>6 DEF Reconcile
  <2>7. JobTypes'
    BY <1>1, <1>2, <2>3, <2>5, <2>6 DEF JobTypes
  <2> QED BY <1>1, <1>2, <1>3, <2>7, TreasuryInPartsNext
<1>7. CASE AdminSweep(s, u)
  <2>1. PICK amount \in WalletBalance(u) \cup (1 .. MaxArrivals) : StartSweep(s, u, amount)
    BY <1>7 DEF AdminSweep
  <2>2. amount \in Nat
    BY <1>4, <2>1 DEF WalletBalance
  <2>3. sweep' \in [Sweeps -> SweepType] /\ busy' \in BOOLEAN
    BY <1>1, <2>1, <2>2, SweepBegins
  <2>4. UNCHANGED <<reports, cooling>>
    BY <1>7 DEF AdminSweep
  <2>5. JobTypes'
    BY <1>1, <1>2, <2>3, <2>4 DEF JobTypes
  <2> QED BY <1>1, <1>2, <1>3, <2>5, TreasuryInPartsNext
<1> QED BY <1>5, <1>6, <1>7

LEMMA SweepMoves ==
  ASSUME JobTypes, NEW s \in Sweeps, NEW from, NEW to \in {"wait", "depositFor", "end"},
         MoveSweep(s, from, to)
  PROVE  sweep' \in [Sweeps -> SweepType]
  BY SweepGoesOn DEF MoveSweep, JobTypes

LEMMA SweepsGoOn ==
  ASSUME TreasuryInv, NEW s \in Sweeps, SweepStep(s) \/ SweepFails(s)
  PROVE  TreasuryInv'
<1>1. /\ CoinTypes /\ JobTypes /\ arrivals \in 0 .. MaxArrivals /\ faults \in 0 .. MaxFaults
  BY TreasuryInParts
<1>2. /\ sweep[s].wallet \in UserWallets \cup {"none"} /\ sweep[s].amount \in Nat
      /\ s \in Flows
  BY <1>1 DEF JobTypes, SweepType, Flows
<1> USE DEF UnchangedBySweep
<1>3. ASSUME UnchangedBySweep, sweep' \in [Sweeps -> SweepType], busy' \in BOOLEAN,
             submitted' \subseteq TransactionType, faults' \in 0 .. MaxFaults
      PROVE  TreasuryInv'
  <2>1. CoinTypes'
    BY <1>1, <1>3, CoinsStay
  <2>2. JobTypes'
    BY <1>1, <1>3 DEF JobTypes
  <2> QED BY <1>1, <1>3, <2>1, <2>2, TreasuryInPartsNext
<1>4. submitted \subseteq TransactionType /\ busy \in BOOLEAN
  BY <1>1 DEF JobTypes
<1>5. ASSUME NEW to \in {"wait", "end"}, SubmitTransfer(s, to) PROVE TreasuryInv'
  <2>1. /\ MoveSweep(s, "submit", to) /\ Submit(s, "sweep", sweep[s].wallet, sweep[s].amount)
        /\ UNCHANGED <<busy, faults>> /\ UnchangedBySweep
    BY <1>5 DEF SubmitTransfer
  <2>2. sweep' \in [Sweeps -> SweepType]
    BY <1>1, <2>1, SweepMoves
  <2>3. submitted' \subseteq TransactionType
    BY <1>2, <1>4, <2>1, Submitted
  <2> QED BY <1>1, <1>3, <1>4, <2>1, <2>2, <2>3
<1>6. CASE SubmitEvmSweep(s) \/ SubmitArcSweep(s) \/ SubmitSolanaSweep(s)
  BY <1>5, <1>6 DEF SubmitEvmSweep, SubmitArcSweep, SubmitSolanaSweep
<1>7. CASE NoTokenFound(s)
  <2>1. MoveSweep(s, "submit", "end") /\ UNCHANGED <<busy, submitted, faults>> /\ UnchangedBySweep
    BY <1>7 DEF NoTokenFound
  <2>2. sweep' \in [Sweeps -> SweepType]
    BY <1>1, <2>1, SweepMoves
  <2> QED BY <1>1, <1>3, <1>4, <2>1, <2>2
<1>8. CASE SubmitApprove(s)
  <2>1. /\ MoveSweep(s, "approve", "depositFor")
        /\ Submit(s, "approve", sweep[s].wallet, sweep[s].amount)
        /\ UNCHANGED <<busy, faults>> /\ UnchangedBySweep
    BY <1>8 DEF SubmitApprove
  <2>2. sweep' \in [Sweeps -> SweepType]
    BY <1>1, <2>1, SweepMoves
  <2>3. submitted' \subseteq TransactionType
    BY <1>2, <1>4, <2>1, Submitted
  <2> QED BY <1>1, <1>3, <1>4, <2>1, <2>2, <2>3
<1>9. CASE SubmitDepositFor(s)
  <2>1. /\ MoveSweep(s, "depositFor", "end")
        /\ Submit(s, "depositFor", sweep[s].wallet, sweep[s].amount)
        /\ UNCHANGED <<busy, faults>> /\ UnchangedBySweep
    BY <1>9 DEF SubmitDepositFor
  <2>2. sweep' \in [Sweeps -> SweepType]
    BY <1>1, <2>1, SweepMoves
  <2>3. submitted' \subseteq TransactionType
    BY <1>2, <1>4, <2>1, Submitted
  <2> QED BY <1>1, <1>3, <1>4, <2>1, <2>2, <2>3
<1>10. CASE EndSweep(s)
  <2>1. /\ sweep' = [sweep EXCEPT ![s] = NoSweep] /\ busy' = (busy \/ Marks)
        /\ UNCHANGED <<submitted, faults>> /\ UnchangedBySweep
    BY <1>10 DEF EndSweep
  <2>2. sweep' \in [Sweeps -> SweepType]
    BY <1>1, <2>1 DEF NoSweep, SweepType, JobTypes
  <2>3. busy' \in BOOLEAN
    BY <2>1, Zenon
  <2> QED BY <1>1, <1>3, <1>4, <2>1, <2>2, <2>3
<1>11. CASE SweepFails(s)
  <2>1. sweep' = [sweep EXCEPT ![s].at = "end"] /\ UNCHANGED <<busy, submitted>> /\ UnchangedBySweep
    BY <1>11 DEF SweepFails
  <2>2. sweep' \in [Sweeps -> SweepType]
    BY <1>1, <2>1, SweepGoesOn DEF JobTypes
  <2>3. faults' \in 0 .. MaxFaults
    BY <1>1, <1>11, FaultCounted DEF SweepFails
  <2> QED BY <1>3, <1>4, <2>1, <2>2, <2>3
<1> QED BY <1>6, <1>7, <1>8, <1>9, <1>10, <1>11 DEF SweepStep

LEMMA WorkerSteps ==
  ASSUME TreasuryInv, WorkerStep \/ WorkerFails
  PROVE  TreasuryInv'
<1>1. /\ CoinTypes /\ JobTypes /\ arrivals \in 0 .. MaxArrivals /\ faults \in 0 .. MaxFaults
      /\ Float \in Nat /\ MinSweep \in Nat
  BY TreasuryInParts, TreasuryAssumption
<1>2. /\ worker \in WorkerType /\ worker.balance \in Nat
      /\ worker.at # "idle" => worker.balance >= Float
      /\ submitted \subseteq TransactionType /\ busy \in BOOLEAN
  BY <1>1 DEF JobTypes, WorkerType
<1>3. ASSUME UnchangedByWorker, worker' \in WorkerType,
             worker'.at # "idle" => worker'.balance >= Float, busy' \in BOOLEAN,
             submitted' \subseteq TransactionType, faults' \in 0 .. MaxFaults
      PROVE  TreasuryInv'
  <2>1. CoinTypes'
    BY <1>1, <1>3, CoinsStay DEF UnchangedByWorker
  <2>2. JobTypes'
    BY <1>1, <1>3 DEF JobTypes, UnchangedByWorker
  <2> QED BY <1>1, <1>3, <2>1, <2>2, TreasuryInPartsNext DEF UnchangedByWorker
<1>4. CASE BeginWorker
  <2>1. PICK amount \in TreasuryBalance :
          WorthDepositing(amount) /\ worker' = [at |-> "read", balance |-> amount]
    BY <1>4 DEF BeginWorker
  <2>2. amount \in Nat
    BY <1>1, <2>1 DEF TreasuryBalance, CoinTypes
  <2>3. amount >= Float
    BY <1>1, <2>1, <2>2 DEF WorthDepositing
  <2>4. worker' \in WorkerType /\ worker'.balance >= Float
    BY <2>1, <2>2, <2>3 DEF WorkerType
  <2> QED BY <1>1, <1>2, <1>3, <1>4, <2>4 DEF BeginWorker
<1>5. ASSUME NEW to \in {"approve", "depositFor", "deposit"},
             NEW kind \in {"approve", "depositFor", "deposit"},
             worker.at # "idle", worker' = [worker EXCEPT !.at = to],
             Submit(Worker, kind, "none", worker.balance - Float),
             UnchangedByWorker, UNCHANGED faults, busy' \in BOOLEAN
      PROVE  TreasuryInv'
  <2>1. worker.balance >= Float /\ worker.balance - Float \in Nat /\ Worker \in Flows
    BY <1>1, <1>2, <1>5 DEF Flows
  <2>2. worker' \in WorkerType /\ worker'.balance >= Float
    BY <1>2, <1>5, <2>1, WorkerGoesOn
  <2>3. submitted' \subseteq TransactionType
    BY <1>2, <1>5, <2>1, Submitted
  <2> QED BY <1>1, <1>3, <1>5, <2>2, <2>3
<1>6. CASE SubmitWorkerApprove
  BY <1>2, <1>5, <1>6 DEF SubmitWorkerApprove
<1>7. CASE SubmitWorkerDeposit
  BY <1>2, <1>5, <1>7 DEF SubmitWorkerDeposit
<1>8. CASE SubmitSolanaDeposit
  BY <1>2, <1>5, <1>8 DEF SubmitSolanaDeposit
<1>9. CASE WorkerFails
  <2>1. /\ worker.at # "idle" /\ worker' = [worker EXCEPT !.at = "end"] /\ Fault
        /\ UNCHANGED <<busy, submitted>> /\ UnchangedByWorker
    BY <1>9 DEF WorkerFails
  <2>2. worker' \in WorkerType /\ worker'.balance >= Float
    BY <1>2, <2>1, WorkerGoesOn
  <2>3. faults' \in 0 .. MaxFaults
    BY <1>1, <2>1, FaultCounted
  <2> QED BY <1>2, <1>3, <2>1, <2>2, <2>3
<1>10. CASE EndWorker
  <2>1. worker' \in WorkerType /\ worker'.at = "idle"
    BY <1>10 DEF EndWorker, IdleWorker, WorkerType
  <2> QED BY <1>1, <1>2, <1>3, <1>10, <2>1 DEF EndWorker
<1> QED BY <1>4, <1>6, <1>7, <1>8, <1>9, <1>10 DEF WorkerStep

LEMMA OtherSteps ==
  ASSUME TreasuryInv,
         \/ AdminApprove \/ AdminDeposit \/ WithdrawDirect \/ WithdrawByAdmin
         \/ BusyEnds \/ \E key \in Cooldowns : ForgetSweep(key)
         \/ PowerCut
  PROVE  TreasuryInv'
<1>1. /\ CoinTypes /\ JobTypes /\ arrivals \in 0 .. MaxArrivals /\ faults \in 0 .. MaxFaults
      /\ Stock \in Nat
  BY TreasuryInParts, TreasuryAssumption
<1>2. submitted \subseteq TransactionType /\ Admin \in Flows /\ Payout \in Flows
  BY <1>1 DEF JobTypes, Flows
<1>3. ASSUME UNCHANGED <<coins, arrivals>>, faults' \in 0 .. MaxFaults, JobTypes'
      PROVE  TreasuryInv'
  <2>1. CoinTypes'
    BY <1>1, <1>3, CoinsStay
  <2> QED BY <1>1, <1>3, <2>1, TreasuryInPartsNext
<1>4. CASE AdminApprove
  <2>1. PICK amount \in 1 .. Stock :
          /\ admin' = [at |-> "approve", amount |-> amount]
          /\ Submit(Admin, "approve", "none", amount)
    BY <1>4 DEF AdminApprove
  <2>2. amount \in Nat
    BY <1>1, <2>1
  <2>3. submitted' \subseteq TransactionType
    BY <1>2, <2>1, <2>2, Submitted
  <2>4. admin' \in AdminType
    BY <2>1, <2>2 DEF AdminType
  <2>5. JobTypes'
    BY <1>1, <1>4, <2>3, <2>4 DEF JobTypes, AdminApprove, UnchangedByAdmin
  <2> QED BY <1>1, <1>3, <1>4, <2>5 DEF AdminApprove, UnchangedByAdmin
<1>5. CASE AdminDeposit
  <2>1. admin.amount \in Nat
    BY <1>1 DEF JobTypes, AdminType
  <2>2. submitted' \subseteq TransactionType
    BY <1>2, <1>5, <2>1, Submitted DEF AdminDeposit
  <2>3. admin' \in AdminType
    BY <1>5 DEF AdminDeposit, AdminOver, AdminType
  <2>4. JobTypes'
    BY <1>1, <1>5, <2>2, <2>3 DEF JobTypes, AdminDeposit, UnchangedByAdmin
  <2> QED BY <1>1, <1>3, <1>5, <2>4 DEF AdminDeposit, UnchangedByAdmin
<1>6. CASE WithdrawDirect \/ WithdrawByAdmin
  <2>1. Submit(Payout, "payout", "none", 1)
    BY <1>6 DEF WithdrawDirect, WithdrawByAdmin
  <2>2. submitted' \subseteq TransactionType
    BY <1>2, <2>1, Submitted
  <2>3. JobTypes'
    BY <1>1, <1>6, <2>2 DEF JobTypes, WithdrawDirect, WithdrawByAdmin
  <2> QED BY <1>1, <1>3, <1>6, <2>3 DEF WithdrawDirect, WithdrawByAdmin
<1>7. CASE BusyEnds \/ \E key \in Cooldowns : ForgetSweep(key)
  <2>1. JobTypes'
    BY <1>1, <1>7 DEF JobTypes, BusyEnds, ForgetSweep
  <2> QED BY <1>1, <1>3, <1>7, <2>1 DEF BusyEnds, ForgetSweep
<1>8. CASE PowerCut
  <2>1. NoSweep \in SweepType /\ IdleWorker \in WorkerType /\ IdleWorker.at = "idle"
        /\ NoAdmin \in AdminType /\ AdminOver \in AdminType
    BY DEF NoSweep, SweepType, IdleWorker, WorkerType, NoAdmin, AdminOver, AdminType
  <2>2. admin' \in AdminType
    BY <1>8, <2>1 DEF PowerCut
  <2>3. sweep' \in [Sweeps -> SweepType] /\ reports' \in [UserWallets -> Nat]
    BY <1>8, <2>1 DEF PowerCut
  <2>4. JobTypes'
    BY <1>1, <1>8, <2>1, <2>2, <2>3 DEF JobTypes, PowerCut
  <2>5. faults' \in 0 .. MaxFaults
    BY <1>1, <1>8, FaultCounted DEF PowerCut
  <2> QED BY <1>3, <1>8, <2>4, <2>5 DEF PowerCut
<1> QED BY <1>4, <1>5, <1>6, <1>7, <1>8

LEMMA TreasuryStart == InitTreasury => TreasuryInv
<1> SUFFICES ASSUME InitTreasury PROVE TreasuryInv
  OBVIOUS
<1>1. MaxArrivals \in Nat /\ MaxFaults \in Nat /\ Stock \in Nat
  BY TreasuryAssumption
<1>2. CoinTypes
  BY <1>1 DEF InitTreasury, CoinTypes
<1>3. NoSweep \in SweepType /\ IdleWorker \in WorkerType /\ NoAdmin \in AdminType
      /\ IdleWorker.at = "idle"
  BY DEF NoSweep, SweepType, IdleWorker, WorkerType, NoAdmin, AdminType
<1>4. JobTypes
  BY <1>3 DEF InitTreasury, JobTypes
<1> QED BY <1>1, <1>2, <1>4, TreasuryInParts DEF InitTreasury

LEMMA TreasuryKept == TreasuryInv /\ [TreasuryStep]_treasuryVars => TreasuryInv'
<1> SUFFICES ASSUME TreasuryInv, [TreasuryStep]_treasuryVars PROVE TreasuryInv'
  OBVIOUS
<1>1. CASE UNCHANGED treasuryVars
  <2>1. /\ CoinTypes /\ JobTypes /\ arrivals \in 0 .. MaxArrivals /\ faults \in 0 .. MaxFaults
    BY TreasuryInParts
  <2>2. CoinTypes' /\ JobTypes'
    BY <1>1, <2>1, CoinsStay DEF treasuryVars, treasuryJobs, JobTypes
  <2> QED BY <1>1, <2>1, <2>2, TreasuryInPartsNext DEF treasuryVars
<1>2. CASE \E u \in UserWallets : Arrive(u)
  BY <1>2, Arrived
<1>3. CASE \E t \in submitted : Execute(t) \/ Reject(t)
  BY <1>3, CircleSteps
<1>4. CASE \E s \in Sweeps : SweepStep(s) \/ SweepFails(s)
  BY <1>4, SweepsGoOn
<1>5. CASE \E s \in Sweeps, u \in UserWallets :
             SweepDeposit(s, u) \/ Reconcile(s, u) \/ AdminSweep(s, u)
  BY <1>5, SweepsBegin
<1>6. CASE WorkerStep \/ WorkerFails
  BY <1>6, WorkerSteps
<1>7. CASE \/ AdminApprove \/ AdminDeposit \/ WithdrawDirect \/ WithdrawByAdmin
           \/ BusyEnds \/ \E key \in Cooldowns : ForgetSweep(key)
           \/ PowerCut
  BY <1>7, OtherSteps
<1> QED
  BY <1>1, <1>2, <1>3, <1>4, <1>5, <1>6, <1>7 DEF TreasuryStep

(***************************************************************************)
(* Nothing is taken from the treasury, a wallet or an approval that is not *)
(* there, and the worker deposits no negative amount, for any number of    *)
(* sweeps, wallets, arrivals and failures.                                 *)
(***************************************************************************)
THEOREM TreasuryTyped == TreasurySpec => []TreasuryTypeOK
<1>1. TreasuryInv => TreasuryTypeOK
  BY DEF TreasuryInv
<1> QED BY <1>1, TreasuryStart, TreasuryKept, PTL DEF TreasurySpec

-----------------------------------------------------------------------------
(***************************************************************************)
(* The server                                                              *)
(***************************************************************************)

\* Whichever part is served takes a step of its own, and the others are left alone.
LEMMA ServedOrLeft ==
  ASSUME [ServerStep]_serverVars
  PROVE  /\ [SubscriptionsStep]_subscriptionVars
         /\ [OtpStep]_otpVars
         /\ [SessionsStep]_sessionVars
         /\ [FactorStep]_factorVars
         /\ [WebhookStep]_webhookVars
         /\ [PollWindowStep]_windowVars
         /\ [PlansStep]_plansVars
         /\ [ThrottleStep]_throttleVars
         /\ [AccountStep]_accountVars
         /\ [PassportsStep]_passportVars
         /\ [ErasureStep]_erasureVars
         /\ [WireAccountsStep]_wireVars
         /\ [SendFlowStep]_sendVars
         /\ [BurnStep]_burnVars
         /\ [HistoryStep]_historyVars
         /\ [WalletsStep]_walletVars
         /\ [TreasuryStep]_treasuryVars
<1>1. CASE UNCHANGED serverVars
  BY <1>1 DEF serverVars
<1>2. CASE Serves("subscriptions") /\ Rest /\ SubscriptionsStep
  BY <1>2 DEF Serves, Rest
<1>3. CASE Serves("codes") /\ Rest /\ OtpStep
  BY <1>3 DEF Serves, Rest
<1>4. CASE Serves("sessions") /\ Rest /\ SessionsStep
  BY <1>4 DEF Serves, Rest
<1>5. CASE Serves("factor") /\ Rest /\ FactorStep
  BY <1>5 DEF Serves, Rest
<1>6. CASE Serves("webhooks") /\ Rest /\ WebhookStep
  BY <1>6 DEF Serves, Rest
<1>7. CASE Serves("treasury") /\ Rest /\ TreasuryStep
  BY <1>7 DEF Serves, Rest
<1>8. CASE Serves("window") /\ Rest /\ PollWindowStep
  BY <1>8 DEF Serves, Rest
<1>9. CASE Serves("wallets") /\ Rest /\ WalletsStep
  BY <1>9 DEF Serves, Rest
<1>10. CASE Serves("plans") /\ Rest /\ PlansStep
  BY <1>10 DEF Serves, Rest
<1>11. CASE Serves("throttle") /\ Rest /\ ThrottleStep
  BY <1>11 DEF Serves, Rest
<1>12. CASE Serves("burns") /\ Rest /\ BurnStep
  BY <1>12 DEF Serves, Rest
<1>13. CASE Serves("accounts") /\ Rest /\ AccountStep
  BY <1>13 DEF Serves, Rest
<1>14. CASE Serves("passports") /\ Rest /\ PassportsStep
  BY <1>14 DEF Serves, Rest
<1>15. CASE Serves("erasure") /\ Rest /\ ErasureStep
  BY <1>15 DEF Serves, Rest
<1>16. CASE Serves("wires") /\ Rest /\ WireAccountsStep
  BY <1>16 DEF Serves, Rest
<1>17. CASE Serves("history") /\ Rest /\ HistoryStep
  BY <1>17 DEF Serves, Rest
<1>18. CASE Serves("sending") /\ Rest /\ SendFlowStep
  BY <1>18 DEF Serves, Rest
<1> QED
  BY <1>1, <1>2, <1>3, <1>4, <1>5, <1>6, <1>7, <1>8, <1>9, <1>10, <1>11, <1>12, <1>13, <1>14,
     <1>15, <1>16, <1>17, <1>18 DEF ServerStep

\* A behaviour of the server is one of each of its parts.
THEOREM ServerOfParts ==
  ServerSpec =>
    /\ SubscriptionsSpec /\ OtpSpec /\ SessionsSpec /\ FactorSpec /\ WebhookSpec
    /\ PollWindowSpec /\ PlansSpec /\ ThrottleSpec /\ AccountSpec /\ PassportsSpec
    /\ ErasureSpec /\ WireAccountsSpec /\ SendFlowSpec /\ BurnSpec /\ HistorySpec
    /\ WalletsSpec /\ TreasurySpec
<1>1. InitServer =>
        /\ InitSubscriptions /\ InitOneTimeCodes /\ InitSessions /\ InitSecondFactor
        /\ InitWebhooks /\ InitPollWindow /\ InitPlans /\ InitThrottle /\ InitAccounts
        /\ InitPassports /\ InitErasure /\ InitWireAccounts /\ InitSendFlow
        /\ InitBurns /\ InitHistory /\ InitWallets /\ InitTreasury
  BY DEF InitServer
<1> QED
  BY <1>1, ServedOrLeft, PTL
  DEF ServerSpec, SubscriptionsSpec, OtpSpec, SessionsSpec, FactorSpec, WebhookSpec,
      PollWindowSpec, PlansSpec, ThrottleSpec, AccountSpec, PassportsSpec, ErasureSpec,
      WireAccountsSpec, SendFlowSpec, BurnSpec, HistorySpec, WalletsSpec, TreasurySpec

\* Whatever part the server serves, and however often it is asked: nobody is given a
\* period for nothing, a subscription that failed has used its retries, a code charges
\* one request, and is accepted once; older sessions end, an active secret was proved,
\* a time step passes once while nobody enables or disables the authenticator, a ticket
\* opens one session; no event is given up early, a wire that is handled reaches its
\* sender; what is shown of a plan is what is sold; blocks have their cause; a challenge
\* is good for so many checks, an erased account leaves nothing in the tables that its
\* deletion names; what is sent is what was reviewed, and no entry is skipped.  Four
\* hold with exceptions that the code has: a payment that overtakes a revocation
\* reinstates it (OnlyOvertakenReinstate), a Google link of a row read unverified
\* welcomes the owner again (FlipWelcomesOnce), what is beyond the pages of a poll is
\* passed over (NotPassedOver), and a burn that Gateway answered with an error is not
\* known of (BurnedAsAsked).
THEOREM ServerSafe ==
  ServerSpec =>
    [](/\ NoFreePeriod /\ FailedAfterRetries /\ CodeChargesOnce
       /\ AcceptedOnce /\ OlderSessionsEnded /\ ActiveSecretProved /\ OneSessionPerTicket
       /\ StepPassedOnce /\ OnlyOvertakenReinstate
       /\ NotGivenUpEarly /\ NotPassedOver /\ WireReachesSender
       /\ ShownAndSold /\ BlockedForCause
       /\ FlipWelcomesOnce /\ ChallengeBounded /\ ErasedWhenGone
       /\ SentAsReviewed /\ BurnedAsAsked /\ NoneSkipped)
  BY ServerOfParts, NoPeriodFree, RetriesUsed, CodeChargesOneRequest, NothingAcceptedTwice,
     OnlyProvedActive, TicketSignsInOnce, StepPassesOnce, PasswordEndsSessions,
     RevocationStands, NoneGivenUpEarly, NeverPassedOver, WiresReachSenders, PlansStayOne,
     BlocksHaveCause, OneWelcome, ChecksBounded, NothingLeftBehind, WhatIsReviewedIsSent,
     BurnsWhatWasAsked, NothingSkipped, PTL

(***************************************************************************)
(* Whatever part the server serves, its state has its types: no count is   *)
(* negative, no coin is taken from where it is not, a job or a request     *)
(* holds only what there is.                                               *)
(***************************************************************************)
THEOREM ServerTypesCorrect == ServerSpec => []ServerTypeOK
<1>1. ServerSpec => [](focus \in Parts)
  <2>1. InitServer => focus \in Parts
    BY DEF InitServer
  <2>2. focus \in Parts /\ [ServerStep]_serverVars => (focus \in Parts)'
    BY DEF ServerStep, serverVars, Serves
  <2> QED BY <2>1, <2>2, PTL DEF ServerSpec
<1>2. WebhookSpec => []WebhookTypeOK
  <2>1. WebhookInv => WebhookTypeOK
    BY DEF WebhookInv
  <2> QED BY <2>1, WebhookStart, WebhookNext, PTL DEF WebhookSpec
<1>3. PlansSpec => []PlansTypeOK
  <2>1. PlansInv => PlansTypeOK
    BY DEF PlansInv
  <2> QED BY <2>1, PlansStart, PlansNext, PTL DEF PlansSpec
<1>4. AccountSpec => []AccountsTypeOK
  BY AccountsTyped, AccountsStart, AccountsNext, PTL DEF AccountSpec
<1>5. ErasureSpec => []ErasureTypeOK
  <2>1. ErasureInv => ErasureTypeOK
    BY DEF ErasureInv
  <2> QED BY <2>1, ErasureStart, ErasureNext, PTL DEF ErasureSpec
<1>6. SendFlowSpec => []SendFlowTypeOK
  BY SendTyped, SendStart, SendNext, PTL DEF SendFlowSpec
<1>7. BurnSpec => []BurnsTypeOK
  <2>1. InitBurns => BurnsInv
    BY BurnsInit
  <2> QED BY <2>1, BurnsTyped, BurnsNext, PTL DEF BurnSpec
<1>8. HistorySpec => []HistoryTypeOK
  <2>1. InitHistory => HistoryInv
    BY HistoryInit
  <2> QED BY <2>1, HistoryTyped, HistoryNext, PTL DEF HistorySpec
<1>9. ServerSpec =>
        [](/\ focus \in Parts
           /\ SubscriptionsTypeOK /\ OtpTypeOK /\ SessionsTypeOK /\ FactorTypeOK
           /\ WebhookTypeOK /\ TreasuryTypeOK /\ PollWindowTypeOK /\ WalletsTypeOK
           /\ PlansTypeOK /\ ThrottleTypeOK /\ BurnsTypeOK /\ AccountsTypeOK
           /\ PassportsTypeOK /\ ErasureTypeOK /\ WireAccountsTypeOK /\ HistoryTypeOK
           /\ SendFlowTypeOK)
  BY ServerOfParts, BillingInvariant, SignInTyped, TreasuryTyped, WindowTyped, WalletsTyped,
     ThrottleTyped, WiresTyped, <1>1, <1>2, <1>3, <1>4, <1>5, <1>6, <1>7, <1>8, PTL
<1>10. (/\ focus \in Parts
        /\ SubscriptionsTypeOK /\ OtpTypeOK /\ SessionsTypeOK /\ FactorTypeOK
        /\ WebhookTypeOK /\ TreasuryTypeOK /\ PollWindowTypeOK /\ WalletsTypeOK
        /\ PlansTypeOK /\ ThrottleTypeOK /\ BurnsTypeOK /\ AccountsTypeOK
        /\ PassportsTypeOK /\ ErasureTypeOK /\ WireAccountsTypeOK /\ HistoryTypeOK
        /\ SendFlowTypeOK)
         => ServerTypeOK
  BY DEF Parts, ServerTypeOK
<1> QED BY <1>9, <1>10, PTL
=============================================================================
