----------------------------- MODULE MCTxQueue -----------------------------
(***************************************************************************)
(* A small instance of TxQueue for TLC.                                    *)
(***************************************************************************)
EXTENDS TxQueue

CONSTANTS c1, c2, t1, v1, k1
=============================================================================
