------------------------------- MODULE MCBurns -------------------------------
EXTENDS Burns, TLC

CONSTANTS b1, b2  \* withdrawals

\* Two withdrawals that need more than one chain, or the same one.
Wants == b1 :> 5 @@ b2 :> 4
Destinations == b1 :> "base" @@ b2 :> "solana"
SourceChainPriority == <<"base", "arc">>
=============================================================================
