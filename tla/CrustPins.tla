----------------------------- MODULE CrustPins ------------------------------
(***************************************************************************)
(* Files of the storage service and the requests to pin them to CRUST.     *)
(*                                                                         *)
(* pinFileToCRUST makes a request for content that has none; the scheduled *)
(* PinToCrustWorker, one at a time (JobLock), has the blockchain service   *)
(* place the order and tries again what failed, up to MaxRuns times;       *)
(* UpdateCrustStatusWorker gets the outcome of the order.                  *)
(***************************************************************************)
EXTENDS Integers, FiniteSets

CONSTANTS
    Files,
    Cid,       \* the content identifier of each file
    MaxRuns,   \* numOfExecutions < 5
    MaxFaults  \* bound on what goes wrong, and on the renewals

ASSUME MaxRunsAssumption == MaxRuns \in Nat \ {0}
ASSUME MaxFaultsAssumption == MaxFaults \in Nat

VARIABLES
    file,      \* table file: status of the row, and fileStatus
    pin,       \* table pin_to_crust_request, by the file of the request
    orders,    \* requests with an order on its way
    faults     \* how much has gone wrong

pins == <<pin, orders>>

NoFile == [row |-> "none", status |-> "none"]
NoPin == [status |-> "none", runs |-> 0]

PinsInit == /\ file = [f \in Files |-> NoFile]
            /\ pin = [f \in Files |-> NoPin]
            /\ orders = {}
            /\ faults = 0

Fault == /\ faults < MaxFaults
         /\ faults' = faults + 1

(* populateByCid *)
Requests(f) == {g \in Files : Cid[g] = Cid[f] /\ pin[g].status # "none"}

(* pinFileToCRUST, where the content has a request: the file counts as     *)
(* pinned, and a request that was given up is taken up again.              *)
Requested(f) ==
    /\ file' = [file EXCEPT ![f].status = "pinned"]
    /\ \E g \in Requests(f) :
         pin' = IF pin[g].status = "FAILED" /\ pin[g].runs >= MaxRuns
                THEN [pin EXCEPT ![g] = [status |-> "PENDING", runs |-> 0]]
                ELSE pin
    /\ UNCHANGED <<orders, faults>>

(* pinFileToCRUST, where it has found none. *)
Request(f) ==
    /\ pin' = [pin EXCEPT ![f] = [status |-> "PENDING", runs |-> 0]]
    /\ UNCHANGED <<file, orders, faults>>

-----------------------------------------------------------------------------
\* seeded fault: a failed order is not tried again
PendingOnly(f) == pin[f].status = "PENDING" /\ pin[f].runs < MaxRuns

\* seeded fault: one execution too many
PendingOnceMore(f) ==
    pin[f].status \in {"PENDING", "FAILED"} /\ pin[f].runs <= MaxRuns

(* getPendingRequest *)
Pending(f) == pin[f].status \in {"PENDING", "FAILED"} /\ pin[f].runs < MaxRuns

Ran(f, status) ==
    /\ Pending(f)
    /\ pin' = [pin EXCEPT ![f] = [status |-> status, runs |-> @.runs + 1]]

PlaceOrder(f) ==
    /\ Ran(f, "SUCCESSFULL")
    /\ orders' = orders \cup {f}
    /\ UNCHANGED <<file, faults>>

(* The endpoint or the blockchain service cannot be reached; or it is the  *)
(* answer that is lost, and the order is placed all the same.              *)
OrderFails(f) ==
    /\ Ran(f, "FAILED")
    /\ \/ UNCHANGED <<orders, faults>>
       \/ Fault /\ orders' = orders \cup {f}
    /\ UNCHANGED file

(* renewOldRequests, at the end of a run: after six months.  Bounded like  *)
(* the faults.                                                             *)
Renew(f) ==
    /\ pin[f].status = "SUCCESSFULL"
    /\ pin' = [pin EXCEPT ![f] = [status |-> "PENDING", runs |-> 0]]
    /\ Fault
    /\ UNCHANGED <<file, orders>>

(* UpdateCrustStatusWorker: only a confirmed order of a file that is not   *)
(* deleted changes anything.                                               *)
Outcome(f) ==
    /\ f \in orders
    /\ orders' = orders \ {f}
    /\ \/ UNCHANGED file
       \/ /\ file[f].row \in {"active", "blocked"}
          /\ file' = [file EXCEPT ![f].status = "pinned"]
    /\ UNCHANGED <<pin, faults>>

PinsNext ==
    \E f \in Files : PlaceOrder(f) \/ OrderFails(f) \/ Renew(f) \/ Outcome(f)

PinsTypeOK ==
    /\ file \in [Files -> [row : {"none", "active", "deleted", "blocked"},
                           status : {"none", "s3", "ipfs", "pinned"}]]
    /\ pin \in [Files -> [status : {"none", "PENDING", "SUCCESSFULL", "FAILED"},
                          runs : 0..MaxRuns]]
    /\ orders \subseteq Files
    /\ faults \in 0..MaxFaults
=============================================================================
