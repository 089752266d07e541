---------------------------- MODULE MCTxTracking ----------------------------
(* Small instances of TxTracking.                                          *)
EXTENDS TxTracking

CONSTANTS c1, c2

TwoCalls == {c1, c2}
=============================================================================
