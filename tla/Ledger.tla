------------------------------- MODULE Ledger -------------------------------
(***************************************************************************)
(* What the credit service promises: an account whose balance changes in   *)
(* single atomic bookings, each of which moves the balance and the books   *)
(* by the same amount and none of which takes the balance below zero.      *)
(***************************************************************************)
EXTENDS Integers

VARIABLES balance, credited, debited

vars == <<balance, credited, debited>>

Init == balance = 0 /\ credited = 0 /\ debited = 0

Deposit(amount) == /\ balance' = balance + amount
                   /\ credited' = credited + amount
                   /\ UNCHANGED debited

Withdraw(amount) == /\ amount =< balance
                    /\ balance' = balance - amount
                    /\ debited' = debited + amount
                    /\ UNCHANGED credited

(* The amounts are not enumerable, so they are read off the books. *)
Next == \/ credited' >= credited /\ Deposit(credited' - credited)
        \/ debited' >= debited /\ Withdraw(debited' - debited)

Spec == Init /\ [][Next]_vars
=============================================================================
