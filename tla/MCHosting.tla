----------------------------- MODULE MCHosting ------------------------------
(***************************************************************************)
(* An instance of Hosting for TLC: a page and its index, a session that    *)
(* uploads both and one that uploads the index only.  The bounds are a     *)
(* sum, not a product: two deployments at a time after one that was        *)
(* staged, with two workers; one deployment that fails once with two       *)
(* workers, or twice with one; and two reviewers of one deployment.        *)
(***************************************************************************)
EXTENDS Hosting, TLC

CONSTANTS d1, d2, d3, w1, w2, r1, r2, index, page

MCUploaded == [k \in Sessions |-> IF k = 1 THEN Paths ELSE {index}]
Bound(ds, ws, rs, n) ==
    [deployments |-> ds, workers |-> ws, reviewers |-> rs, faults |-> n]
MCLimits == {Bound({d2, d3}, {w1, w2}, {r1}, 0), Bound({d2}, {w1, w2}, {r1}, 1),
             Bound({d2}, {w1}, {r1}, 2), Bound({d2}, {w1}, {r1, r2}, 0)}
=============================================================================
