---------------------------- MODULE MCContracts -----------------------------
(***************************************************************************)
(* Small instances of Contracts for TLC.                                   *)
(***************************************************************************)
EXTENDS Contracts, TLC

CONSTANTS s1, s2, w1, w2

MCTxs == 1..2
=============================================================================
