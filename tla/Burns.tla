-------------------------------- MODULE Burns ---------------------------------
(***************************************************************************)
(* gatewayWithdrawal: where a Gateway withdrawal is burned. Each source    *)
(* chain is tried with the whole amount; when all refuse, the balances     *)
(* their refusals named are used to split it over several chains in one    *)
(* batch. Withdrawals run side by side, so a balance read in a refusal may *)
(* be gone when the batch is sent. An answer that is an error, was cut off *)
(* or names no transfer is taken for a refusal, though Gateway may have    *)
(* burned. In Withdrawals this is one call.                                *)
(* On Solana the mint goes to a token account, which is looked up first.   *)
(***************************************************************************)
EXTENDS Integers, Sequences, FiniteSetsExt, Functions

CONSTANTS
  Burners,     \* Gateway withdrawals
  Want,        \* the amount of each
  Destination, \* its chain; Solana has its own kind of recipient
  Priority,    \* SOURCE_CHAIN_PRIORITY, the chains with a treasury wallet and a domain
  Delegated,   \* the chains whose treasury has authorized the signer at first
  Stocks,      \* what the Unified Balance may hold on a chain at first
  Fee,         \* Gateway's, on each burn
  Headroom,    \* FEE_HEADROOM
  Dust,        \* 0.001 USDC
  MaxDeposits, MaxErrors \* bounds: deposits meanwhile, answers that are errors or lost

SourceChains == Range(Priority)

ASSUME BurnsAssumption ==
  /\ \A b \in Burners :
       Want[b] \in Nat \ {0} /\ Destination[b] \in SourceChains \cup {"solana"}
  /\ "solana" \notin SourceChains /\ Delegated \subseteq SourceChains
  /\ Priority \in Seq(SourceChains)
  /\ \A i, j \in DOMAIN Priority : Priority[i] = Priority[j] => i = j
  /\ Stocks \subseteq Nat
  /\ {Fee, Headroom, Dust, MaxDeposits, MaxErrors} \subseteq Nat
  /\ Fee <= Headroom /\ Dust > 0

VARIABLES
  unified, \* the Unified Balance on each chain, as Gateway has it
  delegated, \* the chains whose treasury has authorized the signer
  tokenAccount, \* on Solana: the recipient's USDC account, if Circle or the faucet has made one
  recipient, \* the one that is minted to
  attempt, \* each call: where it is, the chain it is at, the refusals that named a balance
  burned,  \* what Gateway has accepted to burn for each
  hidden,  \* of this, what it burned with an answer that was taken for a refusal
  deposits, errors

burnVars ==
  <<unified, delegated, tokenAccount, recipient, attempt, burned, hidden, deposits, errors>>

InitBurns ==
  /\ unified \in [SourceChains -> Stocks]
  /\ delegated = Delegated
  /\ tokenAccount \in [Burners -> {"none", "raw"}]
  /\ \A b \in Burners : Destination[b] # "solana" => tokenAccount[b] = "none"
  /\ recipient = [b \in Burners |-> "none"]
  /\ attempt = [b \in Burners |->
       [at |-> IF Destination[b] = "solana" THEN "resolve" ELSE "trying",
        next |-> 1, seen |-> <<>>]]
  /\ burned = [b \in Burners |-> 0] /\ hidden = [b \in Burners |-> 0]
  /\ deposits = 0 /\ errors = 0

\* The destination first, if it is a source: burning there is cheapest.
Candidates(b) ==
  LET place == CHOOSE k \in DOMAIN Priority : Priority[k] = Destination[b]
  IN IF Destination[b] \in SourceChains
       THEN [k \in DOMAIN Priority |->
               IF k = 1 THEN Destination[b]
               ELSE IF k <= place THEN Priority[k - 1] ELSE Priority[k]]
       ELSE Priority

Total(shares) == SumFunction(shares)

\* Gateway takes a batch, a value for each of some chains, whole or not at all.
Honourable(shares) ==
  \A c \in DOMAIN shares : c \in delegated /\ unified[c] >= shares[c] + Fee

BurnAt(b, shares) ==
  /\ Honourable(shares)
  /\ unified' = [c \in SourceChains |->
                   IF c \in DOMAIN shares THEN unified[c] - shares[c] - Fee ELSE unified[c]]
  /\ burned' = [burned EXCEPT ![b] = @ + Total(shares)]

Move(b, to) == attempt' = [attempt EXCEPT ![b].at = to]

Error ==
  /\ errors < MaxErrors
  /\ errors' = errors + 1

\* No answer: the batch may have been taken. Nothing else is tried.
NoAnswer(b, shares) ==
  /\ Error
  /\ Move(b, "unanswered")
  /\ BurnAt(b, shares) \/ UNCHANGED <<unified, burned>>
  /\ UNCHANGED hidden

\* An HTTP error, a body that breaks off, or no transfer in it: "a rejection", whether
\* Gateway has burned or not.
TakenForRefusal(b, shares) ==
  /\ Error
  /\ \/ BurnAt(b, shares) /\ hidden' = [hidden EXCEPT ![b] = @ + Total(shares)]
     \/ UNCHANGED <<unified, burned, hidden>>

Posted(b, shares) ==
  /\ BurnAt(b, shares)
  /\ Move(b, "submitted")
  /\ UNCHANGED <<hidden, errors>>
-----------------------------------------------------------------------------
(***************************************************************************)
(* resolveSolanaUsdcTokenAccount                                           *)
(***************************************************************************)

\* Whatever account there is; if there is none, or the lookup fails, the canonical one.
ResolveAccount(b) ==
  /\ attempt[b].at = "resolve"
  /\ \/ /\ tokenAccount[b] # "none"
        /\ recipient' = [recipient EXCEPT ![b] = tokenAccount[b]]
        /\ Move(b, "trying")
        /\ UNCHANGED errors
     \/ /\ IF tokenAccount[b] = "none" THEN UNCHANGED errors ELSE Error
        /\ recipient' = [recipient EXCEPT ![b] = "canonical"]
        /\ Move(b, "seed")
  /\ UNCHANGED <<unified, delegated, tokenAccount, burned, hidden, deposits>>

\* The faucet creates the canonical account, unless the wallet has USDC, or it fails;
\* the withdrawal goes on in any case.
SeedAccount(b) ==
  /\ attempt[b].at = "seed"
  /\ Move(b, "trying")
  /\ \/ tokenAccount' = [tokenAccount EXCEPT ![b] = IF @ = "none" THEN "canonical" ELSE @]
        /\ UNCHANGED errors
     \/ Error /\ UNCHANGED tokenAccount
  /\ UNCHANGED <<unified, delegated, recipient, burned, hidden, deposits>>
-----------------------------------------------------------------------------
Chain(b) == Candidates(b)[attempt[b].next]
Whole(b) == [c \in {Chain(b)} |-> Want[b]]
Trying(b) == attempt[b].at = "trying" /\ attempt[b].next <= Len(Candidates(b))

\* "Insufficient balance: available X", or any other refusal, such as that the signer
\* is no delegate of the treasury.
TryNext(b, seen) ==
  attempt' = [attempt EXCEPT ![b].next = @ + 1, ![b].seen = seen]

TryChain(b) ==
  /\ Trying(b)
  /\ \/ Posted(b, Whole(b))
     \/ /\ ~Honourable(Whole(b)) /\ Chain(b) \in delegated
        /\ TryNext(b, Append(attempt[b].seen, [chain |-> Chain(b), available |-> unified[Chain(b)]]))
        /\ UNCHANGED <<unified, burned, hidden, errors>>
     \/ /\ Chain(b) \notin delegated
        /\ TryNext(b, attempt[b].seen)
        /\ UNCHANGED <<unified, burned, hidden, errors>>
     \/ TakenForRefusal(b, Whole(b)) /\ TryNext(b, attempt[b].seen)
     \/ NoAnswer(b, Whole(b))
  /\ UNCHANGED <<delegated, tokenAccount, recipient, deposits>>
-----------------------------------------------------------------------------
Usable(refusal) == IF refusal.available > Headroom THEN refusal.available - Headroom ELSE 0

\* The usable chains, the largest first; of equals, the one tried first.
UsableChains(b) ==
  LET seen == attempt[b].seen
      kept == {i \in DOMAIN seen : Usable(seen[i]) > Dust}
      ahead(i) == {j \in kept : \/ Usable(seen[j]) > Usable(seen[i])
                                \/ Usable(seen[j]) = Usable(seen[i]) /\ j < i}
  IN [k \in 1..Cardinality(kept) |->
        seen[CHOOSE i \in kept : Cardinality(ahead(i)) = k - 1]]

Usables(chains) == [k \in DOMAIN chains |-> Usable(chains[k])]

\* What is still to be covered when the k-th usable chain has its turn: those before it
\* are drained.
Remaining(b, chains, k) ==
  LET drained == SumFunctionOnSet(Usables(chains), 1..(k - 1))
  IN IF drained < Want[b] THEN Want[b] - drained ELSE 0

\* Mutant of Share: the chain is drained.
ShareDrained(rest, usable) == usable

Share(rest, usable) == Min({rest, usable})

Split(b) ==
  LET chains == UsableChains(b)
      used == {k \in DOMAIN chains : Remaining(b, chains, k) >= Dust}
      turn(c) == CHOOSE k \in used : chains[k].chain = c
  IN [c \in {chains[k].chain : k \in used} |->
        Share(Remaining(b, chains, turn(c)), Usable(chains[turn(c)]))]

Coverable(b) ==
  LET chains == UsableChains(b)
  IN Len(chains) >= 2 /\ Want[b] <= SumFunction(Usables(chains))

Aggregate(b) ==
  /\ attempt[b].at = "trying" /\ ~Trying(b)
  /\ Coverable(b)
  /\ \/ Posted(b, Split(b))
     \/ /\ ~Honourable(Split(b))
        /\ Move(b, "failed")
        /\ UNCHANGED <<unified, burned, hidden, errors>>
     \/ TakenForRefusal(b, Split(b)) /\ Move(b, "failed")
     \/ NoAnswer(b, Split(b))
  /\ UNCHANGED <<delegated, tokenAccount, recipient, deposits>>

\* The caller gives the amount back to the user.
GiveUpBurn(b) ==
  /\ attempt[b].at = "trying" /\ ~Trying(b)
  /\ ~Coverable(b)
  /\ Move(b, "failed")
  /\ UNCHANGED <<unified, delegated, tokenAccount, recipient, burned, hidden, deposits, errors>>

\* A sweep reaches the Unified Balance meanwhile.
DepositFor(c) ==
  /\ deposits < MaxDeposits
  /\ deposits' = deposits + 1
  /\ unified' = [unified EXCEPT ![c] = @ + Dust]
  /\ UNCHANGED <<delegated, tokenAccount, recipient, attempt, burned, hidden, errors>>

\* provisionGatewayDelegate asks the treasury of each chain in turn; one that fails
\* is skipped, and the call may be made again.
AddDelegate(c) ==
  /\ c \notin delegated
  /\ delegated' = delegated \cup {c}
  /\ UNCHANGED <<unified, tokenAccount, recipient, attempt, burned, hidden, deposits, errors>>

BurnStep ==
  \/ \E b \in Burners :
       ResolveAccount(b) \/ SeedAccount(b) \/ TryChain(b) \/ Aggregate(b) \/ GiveUpBurn(b)
  \/ \E c \in SourceChains : DepositFor(c) \/ AddDelegate(c)

BurnSpec == InitBurns /\ [][BurnStep]_burnVars
-----------------------------------------------------------------------------
BurnsTypeOK ==
  /\ unified \in [SourceChains -> Nat]
  /\ \A b \in Burners :
       /\ attempt[b].at \in
            {"resolve", "seed", "trying", "submitted", "failed", "unanswered"}
       /\ tokenAccount[b] \in {"none", "raw", "canonical"}
       /\ recipient[b] \in {"none", "raw", "canonical"}
       /\ attempt[b].next \in 1..(Len(Candidates(b)) + 1)
       /\ Len(attempt[b].seen) < attempt[b].next
       /\ burned[b] \in Nat /\ hidden[b] \in Nat
  /\ delegated \subseteq SourceChains
  /\ deposits \in 0..MaxDeposits /\ errors \in 0..MaxErrors

\* What Gateway burned with an answer that says so, or with none at all.
Answered(b) == burned[b] - hidden[b]

(***************************************************************************)
(* All or nothing, but for what an error answer hides: when the call       *)
(* returns a transfer, what was asked for is burned, once, up to less than *)
(* Dust; when it fails, and while it still tries, nothing is.  Without an  *)
(* error answer nothing is hidden.  What goes to Solana has an account to  *)
(* go to, unless the lookup or the faucet failed.                          *)
(* (gatewaySweep.ts, gatewayWithdrawal.)                                   *)
(***************************************************************************)
BurnedAsAsked ==
  \A b \in Burners :
    /\ attempt[b].at \in {"resolve", "seed", "trying", "failed"} => Answered(b) = 0
    /\ attempt[b].at = "submitted" => Answered(b) <= Want[b] /\ Want[b] - Answered(b) < Dust
    /\ 0 <= Answered(b) /\ Answered(b) <= Want[b]
    /\ hidden[b] > 0 => errors > 0
    /\ burned[b] > 0 /\ Destination[b] = "solana" /\ errors = 0 => recipient[b] = tokenAccount[b]
=============================================================================
