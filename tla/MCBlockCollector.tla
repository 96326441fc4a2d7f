-------------------------- MODULE MCBlockCollector --------------------------
(* Instances of BlockCollector.                                            *)
EXTENDS BlockCollector

\* Blocks without, with one and with several transactions.
SomeTxs == [h \in Heights |-> IF h = 1 THEN 2 ELSE h - 2]

=============================================================================
