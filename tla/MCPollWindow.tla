----------------------------- MODULE MCPollWindow -----------------------------
EXTENDS PollWindow

\* One page of one transaction.
OneAtATime == [p \in Pollers |-> 1]
=============================================================================
