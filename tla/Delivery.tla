------------------------------ MODULE Delivery ------------------------------
(***************************************************************************)
(* What the outbox of transaction outcomes promises to the services that   *)
(* created the transactions: an outcome is delivered after it is final, it *)
(* is noted as delivered only if it was, and in the end it is delivered.   *)
(* It may be delivered more than once and in any order.                    *)
(***************************************************************************)
CONSTANT Txs

VARIABLES
    final,      \* the transactions that have an outcome
    delivered,  \* those whose outcome was put into the consumer's queue
    noted       \* those whose outcome is known to have been delivered

vars == <<final, delivered, noted>>

Init == final = {} /\ delivered = {} /\ noted = {}

Settle == /\ \E S \in SUBSET Txs : final' = final \cup S
          /\ UNCHANGED <<delivered, noted>>

Deliver == /\ \E S \in SUBSET final : delivered' = delivered \cup S
           /\ UNCHANGED <<final, noted>>

Note == /\ \E S \in SUBSET delivered : noted' = noted \cup S
        /\ UNCHANGED <<final, delivered>>

Next == Settle \/ Deliver \/ Note

Spec == Init /\ [][Next]_vars

(* No outcome stays behind. *)
Prompt == \A t \in Txs : t \in final ~> t \in delivered
FairSpec == Spec /\ Prompt
=============================================================================
