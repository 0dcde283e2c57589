--------------------------- MODULE MCSubscriptions ---------------------------
(***************************************************************************)
(* An instance of Subscriptions for TLC: two packages and the RPC plan,    *)
(* warnings at the ages 1 and 2.  The bounds are a sum, not a product: two *)
(* subscriptions with concurrent and failing webhooks over one expiry; one *)
(* subscription changed twice, with events out of order; one subscription  *)
(* long enough for every warning, a renewal and the release that follows   *)
(* it; the RPC plan beside a package, each changed once, with an event     *)
(* that comes again or a handler that fails.                               *)
(***************************************************************************)
EXTENDS Subscriptions

CONSTANTS s1, s2

MCPackages == 1..3
MCLevels   == {1, 2}
MCLimits ==
    {[checkouts |-> {s1, s2}, packages |-> {1, 2}, hooks |-> {1, 2}, days |-> 1,
      updates |-> 1, rows |-> 2, faults |-> 1],
     [checkouts |-> {s1}, packages |-> {1, 2}, hooks |-> {1}, days |-> 2,
      updates |-> 2, rows |-> 3, faults |-> 1],
     [checkouts |-> {s1}, packages |-> {1, 2}, hooks |-> {1}, days |-> 4,
      updates |-> 2, rows |-> 2, faults |-> 0],
     [checkouts |-> {s1, s2}, packages |-> {2, 3}, hooks |-> {1}, days |-> 1,
      updates |-> 1, rows |-> 3, faults |-> 1]}
=============================================================================
