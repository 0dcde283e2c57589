----------------------------- MODULE MCJobLock -----------------------------
(***************************************************************************)
(* Small instances of JobLock for TLC.                                     *)
(***************************************************************************)
EXTENDS JobLock

CONSTANTS i1, i2, i3
=============================================================================
