---------------------------- MODULE MCFileUpload ----------------------------
(***************************************************************************)
(* Small instances of FileUpload for TLC.  The bounds are a sum, not a     *)
(* product: one run of the worker at a time with a file that is deleted    *)
(* and restored, two runs, or one run of a large session.                  *)
(***************************************************************************)
EXTENDS FileUpload, TLC

CONSTANTS f1, f2, s1, c1

(* Two files of a session, with the same content. *)
MCSessionOf == [f \in Files |-> s1]
MCCid == [f \in Files |-> c1]
MCLimits == {[workers |-> {1}, removable |-> {f1}, large |-> {}],
             [workers |-> {1, 2}, removable |-> {}, large |-> {}],
             [workers |-> {1}, removable |-> {}, large |-> {s1}]}
=============================================================================
