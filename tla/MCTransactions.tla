--------------------------- MODULE MCTransactions ---------------------------
(* Instances of Transactions: two callers that sign with one key.          *)
EXTENDS Transactions, TLC

CONSTANTS c1, c2, k1

\* One key; c2 runs the node's binary or broadcasts from the test process.
MCKeyOf == [c \in Callers |-> k1]
MCOpsOf == c1 :> {"SendIBCTransfer", "TextProposal", "StoreContract"} @@ c2 :> {"RegisterRollAppToHub", "BroadcastTx"}
MCCalls == c1 :> 1 @@ c2 :> 2

=============================================================================
