----------------------------- MODULE WireAccounts -----------------------------
(***************************************************************************)
(* Deposits by wire, up to the credit: GET /deposit/wire/instructions      *)
(* makes a bank account at Circle the first time, and stores the reference *)
(* by which the webhook finds the user again.  Two first requests of one   *)
(* user, a restart between Circle and the row, and a wire that arrives     *)
(* years later all go through that row.                                    *)
(***************************************************************************)
EXTENDS Naturals, FiniteSets

CONSTANTS
  Instructed,  \* requests for instructions
  InstructedTo, \* the user of each
  WiresSent,   \* wires, real ones and those of POST /deposit/wire/mock
  MaxBankErrors \* bound: refusals and lost answers of Circle, errors and restarts

Depositors == {InstructedTo[q] : q \in Instructed}

ASSUME WireAccountsAssumption ==
  DOMAIN InstructedTo = Instructed /\ MaxBankErrors \in Nat

VARIABLES
  instruction, \* each request: where it is, and its reference
  virtual,     \* virtual_accounts: the user and the reference of each row
  bankRefs,    \* the bank accounts at Circle, a reference each; it bears the name of a request
  shown,       \* the references each user was shown
  wire,        \* each wire: where it is, its sender, its reference, who was credited
  bankErrors

wireVars == <<instruction, virtual, bankRefs, shown, wire, bankErrors>>

NoRef == "none"
NewInstruction == [at |-> "new", ref |-> NoRef]
InstructionOver == [at |-> "over", ref |-> NoRef]
NoWire == [at |-> "none", by |-> NoRef, ref |-> NoRef, credited |-> NoRef]

InitWireAccounts ==
  /\ instruction = [q \in Instructed |-> NewInstruction]
  /\ virtual = {}
  /\ bankRefs = {}
  /\ shown = [u \in Depositors |-> {}]
  /\ wire = [w \in WiresSent |-> NoWire]
  /\ bankErrors = 0

BankError == bankErrors < MaxBankErrors /\ bankErrors' = bankErrors + 1

Goes(q, at, ref) == instruction' = [instruction EXCEPT ![q] = [at |-> at, ref |-> ref]]
Ends(q) == instruction' = [instruction EXCEPT ![q] = InstructionOver]
-----------------------------------------------------------------------------
(***************************************************************************)
(* GET /deposit/wire/instructions                                          *)
(***************************************************************************)
\* Mutant of AfterCreate: what Circle answered is shown at once, the row left for later.
ShownFirst == "show"

AfterCreate == "insert"

RowsOf(u) == {row \in virtual : row.user = u}

\* The row of the user, or any of them if there are two.
BeginInstructions(q) ==
  /\ instruction[q].at = "new"
  /\ \/ RowsOf(InstructedTo[q]) = {} /\ Goes(q, "create", NoRef)
     \/ \E row \in RowsOf(InstructedTo[q]) : Goes(q, "show", row.ref)
  /\ UNCHANGED <<virtual, bankRefs, shown, wire, bankErrors>>

\* Circle makes an account, or answers with the one it has for the same bank account.
CreateWireAccount(q) ==
  /\ instruction[q].at = "create"
  /\ \E ref \in {q} \cup {r \in bankRefs : InstructedTo[r] = InstructedTo[q]} :
       /\ bankRefs' = bankRefs \cup {ref}
       /\ Goes(q, AfterCreate, ref)
  /\ UNCHANGED <<virtual, shown, wire, bankErrors>>

InsertAccount(q) ==
  /\ instruction[q].at = "insert"
  /\ virtual' = virtual \cup {[user |-> InstructedTo[q], ref |-> instruction[q].ref]}
  /\ Goes(q, "show", instruction[q].ref)
  /\ UNCHANGED <<bankRefs, shown, wire, bankErrors>>

ShowInstructions(q) ==
  /\ instruction[q].at = "show"
  /\ shown' = [shown EXCEPT ![InstructedTo[q]] = @ \cup {instruction[q].ref}]
  /\ Ends(q)
  /\ UNCHANGED <<virtual, bankRefs, wire, bankErrors>>

\* Circle refuses, perhaps after it made the account; or the server stops.
InstructionFails(q) ==
  /\ instruction[q].at \in {"create", "insert", "show"}
  /\ BankError
  /\ Ends(q)
  /\ IF instruction[q].at = "create"
       THEN bankRefs' \in {bankRefs, bankRefs \cup {q}}
       ELSE UNCHANGED bankRefs
  /\ UNCHANGED <<virtual, shown, wire>>
-----------------------------------------------------------------------------
(***************************************************************************)
(* The wire                                                                *)
(***************************************************************************)
Sent(w, u, ref) ==
  /\ wire[w] = NoWire
  /\ wire' = [wire EXCEPT ![w] = [at |-> "sent", by |-> u, ref |-> ref, credited |-> NoRef]]
  /\ UNCHANGED <<instruction, virtual, bankRefs, shown, bankErrors>>

\* To the account the user was shown, now or long ago.
SendWire(w, u) == \E ref \in shown[u] : Sent(w, u, ref)

\* POST /deposit/wire/mock: to the account in the row.
MockWire(w, u) == \E row \in RowsOf(u) : Sent(w, u, row.ref)

\* POST /deposit/circle/webhook: the user is the one of the row; without a row the
\* notification is dropped.
WireArrives(w) ==
  /\ wire[w].at = "sent"
  /\ \/ \E row \in virtual :
          /\ row.ref = wire[w].ref
          /\ wire' = [wire EXCEPT ![w] =
               [at |-> "credited", by |-> @.by, ref |-> @.ref, credited |-> row.user]]
     \/ /\ \A row \in virtual : row.ref # wire[w].ref
        /\ wire' = [wire EXCEPT ![w].at = "dropped"]
  /\ UNCHANGED <<instruction, virtual, bankRefs, shown, bankErrors>>

\* Circle was told first that the notification has been received: when the database
\* then refuses, or the server stops, nobody sends it again.
LoseWire(w) ==
  /\ wire[w].at = "sent"
  /\ BankError
  /\ wire' = [wire EXCEPT ![w].at = "lost"]
  /\ UNCHANGED <<instruction, virtual, bankRefs, shown>>

WireAccountsStep ==
  \/ \E q \in Instructed :
       \/ BeginInstructions(q) \/ CreateWireAccount(q) \/ InsertAccount(q)
       \/ ShowInstructions(q) \/ InstructionFails(q)
  \/ \E w \in WiresSent :
       WireArrives(w) \/ LoseWire(w) \/ \E u \in Depositors : SendWire(w, u) \/ MockWire(w, u)

WireAccountsSpec == InitWireAccounts /\ [][WireAccountsStep]_wireVars
-----------------------------------------------------------------------------
Refs == Instructed \cup {NoRef}

WireAccountsTypeOK ==
  /\ \A q \in Instructed :
       /\ instruction[q].at \in {"new", "create", "insert", "show", "over"}
       /\ instruction[q].ref \in Refs
  /\ virtual \subseteq [user : Depositors, ref : Instructed]
  /\ bankRefs \subseteq Instructed
  /\ shown \in [Depositors -> SUBSET Instructed]
  /\ wire \in [WiresSent -> [at : {"none", "sent", "credited", "dropped", "lost"},
                             by : Depositors \cup {NoRef}, ref : Refs,
                             credited : Depositors \cup {NoRef}]]
  /\ bankErrors \in 0..MaxBankErrors

(***************************************************************************)
(* A wire that follows instructions its sender was shown is never dropped  *)
(* for want of a row, and credits its sender: of two accounts made side by *)
(* side both are known, and an account the server lost was shown to        *)
(* nobody.  (Whether it is handled at all is another matter, see LoseWire; *)
(* accounts that are deleted lose their rows, see Erasure.)                *)
(* (deposit.ts, GET /wire/instructions and POST /circle/webhook.)          *)
(***************************************************************************)
WireReachesSender ==
  \A w \in WiresSent :
    /\ wire[w].at # "dropped"
    /\ wire[w].at = "credited" => wire[w].credited = wire[w].by
=============================================================================
