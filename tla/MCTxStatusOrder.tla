-------------------------- MODULE MCTxStatusOrder --------------------------
(* Two values of each field type: every pair of variants, and within a     *)
(* variant every way two fields can tie or differ.                         *)
EXTENDS TxStatusOrder
=============================================================================
