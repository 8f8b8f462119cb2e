------------------------------- MODULE Wallets -------------------------------
(***************************************************************************)
(* The deposit wallets of one user.  Registration, sign-in and the pages   *)
(* create them, or add the chains that are missing, in the background: the *)
(* row is read, Circle is asked, and the maps are written back whole,      *)
(* whatever they are by then.  The id and the address of the first wallet  *)
(* are written together, so that recoverWalletIdFromCircle, for rows with  *)
(* an address alone, has nothing to do.                                    *)
(***************************************************************************)
EXTENDS Naturals

CONSTANTS
  Provisionings, \* background jobs that may overlap
  EvmChains,     \* created by one call of Circle
  OtherChains,   \* SOL-DEVNET, created by another
  BaseChain,     \* BASE-SEPOLIA
  MaxRefusals    \* bound: calls that Circle refuses, restarts

ASSUME WalletsAssumption ==
  BaseChain \in EvmChains /\ EvmChains \cap OtherChains = {} /\ MaxRefusals \in Nat

WalletChains == EvmChains \cup OtherChains

VARIABLES
  primary,   \* users.circle_wallet_id and circle_wallet_address are set
  wallets,   \* the chains of circle_wallet_ids_json and circle_wallet_addresses_json
  job,       \* each job: its next step, whether it creates, its map, whether that grew
  refusals

walletVars == <<primary, wallets, job, refusals>>

NoJob == [at |-> "idle", creates |-> FALSE, map |-> {}, grew |-> FALSE]

Begin(creates, map) == [at |-> "evm", creates |-> creates, map |-> map, grew |-> creates]

InitWallets ==
  /\ primary = FALSE
  /\ wallets = {}
  /\ job = [j \in Provisionings |-> NoJob]
  /\ refusals = 0

Refuse == refusals < MaxRefusals /\ refusals' = refusals + 1

\* Registration, sign-in, GET /auth/me: create, or add what is missing.
Visit(j) ==
  /\ job[j] = NoJob
  /\ ~ primary \/ wallets # WalletChains
  /\ job' = [job EXCEPT ![j] = Begin(~ primary, IF primary THEN wallets ELSE {})]
  /\ UNCHANGED <<primary, wallets, refusals>>

\* GET /deposit/addresses adds without asking for a primary wallet.
ShowAddresses(j) ==
  /\ job[j] = NoJob /\ wallets # WalletChains
  /\ job' = [job EXCEPT ![j] = Begin(FALSE, wallets)]
  /\ UNCHANGED <<primary, wallets, refusals>>

\* Mutant of MissingFrom: who has the base chain is taken to have them all.
MissingFromBase(map, chains) == IF BaseChain \in map THEN {} ELSE chains \ map

MissingFrom(map, chains) == chains \ map

\* Circle may return fewer wallets than it was asked for.
CreateEvm(j, given) ==
  /\ job[j].at = "evm"
  /\ given \subseteq MissingFrom(job[j].map, EvmChains)
  /\ IF given = MissingFrom(job[j].map, EvmChains) THEN UNCHANGED refusals ELSE Refuse
  /\ job' = [job EXCEPT ![j] =
       IF job[j].creates /\ BaseChain \notin given THEN NoJob
       ELSE [job[j] EXCEPT !.at = "other", !.map = @ \cup given,
                           !.grew = @ \/ given # {}]]
  /\ UNCHANGED <<primary, wallets>>

CreateOther(j, given) ==
  /\ job[j].at = "other"
  /\ given \subseteq MissingFrom(job[j].map, OtherChains)
  /\ IF given = MissingFrom(job[j].map, OtherChains) THEN UNCHANGED refusals ELSE Refuse
  /\ job' = [job EXCEPT ![j] =
       IF job[j].grew \/ given # {}
       THEN [job[j] EXCEPT !.at = "write", !.map = @ \cup given, !.grew = TRUE]
       ELSE NoJob]
  /\ UNCHANGED <<primary, wallets>>

WriteWallets(j) ==
  /\ job[j].at = "write"
  /\ wallets' = job[j].map
  /\ primary' = (primary \/ job[j].creates)
  /\ job' = [job EXCEPT ![j] = NoJob]
  /\ UNCHANGED refusals

StopProvisioning ==
  /\ Refuse
  /\ job' = [j \in Provisionings |-> NoJob]
  /\ UNCHANGED <<primary, wallets>>

ProvisioningStep(j) ==
  \/ \E given \in SUBSET EvmChains : CreateEvm(j, given)
  \/ \E given \in SUBSET OtherChains : CreateOther(j, given)
  \/ WriteWallets(j)

WalletsStep ==
  \/ \E j \in Provisionings : Visit(j) \/ ShowAddresses(j) \/ ProvisioningStep(j)
  \/ StopProvisioning

WalletsSpec == InitWallets /\ [][WalletsStep]_walletVars

-----------------------------------------------------------------------------
(***************************************************************************)
(* Properties.                                                             *)
(***************************************************************************)

WalletsTypeOK ==
  /\ primary \in BOOLEAN
  /\ wallets \subseteq WalletChains
  /\ job \in [Provisionings ->
       [at : {"idle", "evm", "other", "write"}, creates : BOOLEAN,
        map : SUBSET WalletChains, grew : BOOLEAN]]
  /\ refusals \in 0 .. MaxRefusals

\* However jobs overwrite each other's maps and whatever Circle refused, a user who
\* keeps coming back has a wallet on every chain in the end, and keeps it.
AllChainsReady == <>[](primary /\ wallets = WalletChains)
=============================================================================
