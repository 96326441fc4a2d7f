-------------------------- MODULE MCRelayerCommands --------------------------
(* An instance of RelayerCommands for TLC. *)
EXTENDS RelayerCommands

CONSTANTS c1, c2, r1, r2

\* One goroutine gives the relayer keys or looks for a channel, the other links.
MCCallsOf == [c \in Callers |->
  IF c = c1 THEN {<<"GetTransferChannel", r1>>, <<"AddKey", r1>>, <<"RestoreKey", r1>>}
  ELSE {<<"AddChainConfiguration", r2>>, <<"GeneratePath", r2>>,
        <<"LinkPath", r1>>, <<"LinkPath", r2>>,
        <<"CreateClients", r1>>, <<"CreateConnections", r1>>, <<"CreateChannel", r1>>, <<"Flush", r1>>}]

MCMaxCalls == [c \in Callers |-> IF c = c1 THEN 2 ELSE 1]
=============================================================================
