-------------------------- MODULE MCLedgerBringUp --------------------------
(* LedgerBringUp.tla on a small instance: three processes, the six statements *)
(* of the script, of which the first three create the tables.                 *)
EXTENDS LedgerBringUp
=============================================================================
