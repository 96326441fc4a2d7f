---------------------------- MODULE MCChainNodes ----------------------------
(* An instance of ChainNodes.                                                *)
EXTENDS ChainNodes

Config(v, f, s, c, a, g) ==
  [vals |-> v, full |-> f, side |-> s, sides |-> c, adds |-> a, gm |-> g]

\* A validator with a sidecar; the same with a full node; a full node, a
\* chain-level sidecar and up to two more full nodes; a validator alone, to
\* which a full node is added; a rollkit rollapp.
SomeChains == {Config(1, 0, TRUE, 0, 0, FALSE), Config(1, 1, TRUE, 0, 0, FALSE),
               Config(1, 1, FALSE, 1, 2, FALSE), Config(1, 0, FALSE, 0, 1, FALSE),
               Config(1, 0, FALSE, 0, 0, TRUE)}

=============================================================================
