--------------------------- MODULE MCIBCTransfer ---------------------------
(* Instances of IBCTransfer: transfers of two amounts.                     *)
EXTENDS IBCTransfer

=============================================================================
