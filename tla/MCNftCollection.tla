-------------------------- MODULE MCNftCollection ---------------------------
(***************************************************************************)
(* Small instances of NftCollection for TLC.                               *)
(***************************************************************************)
EXTENDS NftCollection, TLC

CONSTANTS d1, d2, c1, c2, t1, t2, w1
=============================================================================
