--------------------------- MODULE MCCreditLedger ---------------------------
(***************************************************************************)
(* Small instances of CreditLedger for TLC.                                *)
(***************************************************************************)
EXTENDS CreditLedger, TLC

CONSTANTS p1, p2, p3, r1, r2

\* one cheap and one dear product
MCPrice == [r \in Refs |-> IF r = r1 THEN 1 ELSE 2]

Symmetry == Permutations(Procs)
=============================================================================
