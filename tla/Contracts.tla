----------------------------- MODULE Contracts ------------------------------
(***************************************************************************)
(* One contract of the contracts service, from the payment for its         *)
(* deployment to the outcome of its transactions.                          *)
(*                                                                         *)
(* Every transaction stands for the call of the API that makes it: the     *)
(* first deploys the contract, the others call it or transfer its owner-   *)
(* ship.  A call pays (CreditLedger), has the blockchain service create    *)
(* the transaction (TxQueue), and stores what it got in rows of the        *)
(* contracts service, each in a statement of its own.  The outcome comes   *)
(* back through the outbox (Webhooks) and TransactionStatusWorker, which   *)
(* keeps the rows and gives back the credits of what failed.               *)
(***************************************************************************)
EXTENDS Webhooks

CONSTANTS
    Deploy,    \* the transaction that deploys the contract
    Workers    \* items TransactionStatusWorker works on at a time

ASSUME DeployAssumption == Deploy \in Txs

VARIABLES
    contract,  \* contract_deploy.contractStatus, "none" if there is no row
    rows,      \* transactions of table transaction
    recorded,  \* their transactionStatus
    kind,      \* transactionType
    call,      \* where each call of the API is
    paid,      \* references with a SPEND booking
    refunded,  \* references with a RECEIVE booking
    worker,    \* items in work: where, and which transaction
    missed,    \* history: outcomes that came before their row and were dropped
    swallowed  \* history: refunds that failed, which the wrapper only logs

service == <<contract, rows, recorded, kind, call>>
credits == <<paid, refunded, swallowed>>
consumer == <<worker, missed>>
vars == <<chain, queue, outbox, service, credits, consumer>>

ContractStatus == {"none", "DEPLOYING", "DEPLOYED", "FAILED", "TRANSFERRING",
                   "TRANSFERRED"}
Deployed == {"DEPLOYED", "TRANSFERRING", "TRANSFERRED"}
Kinds == {"deploy", "call", "transfer"}
Calls == {"idle", "checked", "paid", "created", "saved", "marking", "done"}
Idle == [pc |-> "idle", tx |-> Deploy]

Init == /\ OutboxInit
        /\ contract = "none"
        /\ rows = {}
        /\ recorded = [t \in Txs |-> "none"]
        /\ kind = [t \in Txs |-> IF t = Deploy THEN "deploy" ELSE "call"]
        /\ call = [t \in Txs |-> "idle"]
        /\ paid = {} /\ refunded = {} /\ swallowed = {}
        /\ worker = [w \in Workers |-> Idle]
        /\ missed = {}

-----------------------------------------------------------------------------
(* The calls of the API *)

Step(t, from, to) == /\ call[t] = from
                     /\ call' = [call EXCEPT ![t] = to]

\* seeded fault: any contract that has a row can be called
CheckExists(t) ==
    /\ t # Deploy
    /\ contract # "none"
    /\ \E k \in {"call", "transfer"} : kind' = [kind EXCEPT ![t] = k]
    /\ Step(t, "idle", "checked")
    /\ UNCHANGED <<chain, queue, outbox, contract, rows, recorded, credits,
                   consumer>>

(* getDeployedContractForCall: only a deployed contract can be called. *)
Check(t) ==
    /\ t # Deploy
    /\ contract = "DEPLOYED"
    /\ \E k \in {"call", "transfer"} : kind' = [kind EXCEPT ![t] = k]
    /\ Step(t, "idle", "checked")
    /\ UNCHANGED <<chain, queue, outbox, contract, rows, recorded, credits,
                   consumer>>

(* spendCreditAction pays under the contract's uuid or, for a call, under  *)
(* a new one.                                                              *)
Pay(t) ==
    /\ Step(t, IF t = Deploy THEN "idle" ELSE "checked", "paid")
    /\ paid' = paid \cup {t}
    /\ UNCHANGED <<chain, queue, outbox, contract, rows, recorded, kind,
                   refunded, swallowed, consumer>>

(* The blockchain service commits the transaction. *)
Create(t) ==
    /\ Step(t, "paid", "created")
    /\ chain' = [chain EXCEPT ![t] = "pending"]
    /\ UNCHANGED <<queue, outbox, contract, rows, recorded, kind, credits,
                   consumer>>

(* refundCredit: the booking, or an error that it swallows. *)
Refund(t) ==
    \/ /\ refunded' = refunded \cup ({t} \cap paid)
       /\ UNCHANGED swallowed
    \/ /\ Faults
       /\ swallowed' = swallowed \cup {t}
       /\ UNCHANGED refunded

(* createEvmTransaction throws; it may have committed all the same, if the *)
(* answer was lost.  spendCreditAction refunds and rethrows.               *)
CreateFails(t) ==
    /\ Step(t, "paid", "done")
    /\ \/ UNCHANGED chain
       \/ Faults /\ chain' = [chain EXCEPT ![t] = "pending"]
    /\ Refund(t)
    /\ UNCHANGED <<queue, outbox, contract, rows, recorded, kind, paid, consumer>>

SaveContract ==
    /\ Step(Deploy, "created", "saved")
    /\ contract' = "DEPLOYING"
    /\ UNCHANGED <<chain, queue, outbox, rows, recorded, kind, credits, consumer>>

SaveTx(t) ==
    /\ Step(t, IF t = Deploy THEN "saved" ELSE "created",
               IF kind[t] = "transfer" THEN "marking" ELSE "done")
    /\ rows' = rows \cup {t}
    /\ recorded' = [recorded EXCEPT ![t] = "pending"]
    /\ UNCHANGED <<chain, queue, outbox, contract, kind, credits, consumer>>

(* updateContractDeployStatus *)
MarkTransferring(t) ==
    /\ Step(t, "marking", "done")
    /\ contract' = "TRANSFERRING"
    /\ UNCHANGED <<chain, queue, outbox, rows, recorded, kind, credits, consumer>>

\* seeded fault: the rest of the call is part of the paid action
CallDiesRefunded(t) ==
    /\ Faults
    /\ call[t] \in {"created", "saved", "marking"}
    /\ call' = [call EXCEPT ![t] = "done"]
    /\ refunded' = refunded \cup {t}
    /\ UNCHANGED <<chain, queue, outbox, contract, rows, recorded, kind, paid,
                   swallowed, consumer>>

(* A statement after spendCreditAction throws, or the lambda dies.  A call *)
(* that dies earlier is one that makes no further step.                    *)
CallDies(t) ==
    /\ Faults
    /\ call[t] \in {"created", "saved", "marking"}
    /\ call' = [call EXCEPT ![t] = "done"]
    /\ UNCHANGED <<chain, queue, outbox, contract, rows, recorded, kind, credits,
                   consumer>>

-----------------------------------------------------------------------------
(* TransactionStatusWorker, for one item of a message.  All items of a     *)
(* message are worked on at a time (runWithWorkers); the message is gone   *)
(* when all are done, and comes again if one fails, so an item that is     *)
(* done may stay in the queue.                                             *)

Goto(w, label) == worker' = [worker EXCEPT ![w].pc = label]
Finish(w) == worker' = [worker EXCEPT ![w] = Idle]
Acknowledge(t) == queue' = queue \/ queue' = queue \ {t}

\* seeded fault: a row is made up for a hash that has none
RecordUnknown(w, t) ==
    /\ worker[w].pc = "idle"
    /\ t \in queue
    /\ recorded' = [recorded EXCEPT ![t] = chain[t]]
    /\ worker' = [worker EXCEPT ![w] = [pc |-> "apply", tx |-> t]]
    /\ UNCHANGED <<chain, queue, outbox, contract, rows, kind, call, credits,
                   missed>>

(* populateByTransactionHash, and transaction.update() of what it found. *)
Record(w, t) ==
    /\ worker[w].pc = "idle"
    /\ t \in queue \cap rows
    /\ recorded' = [recorded EXCEPT ![t] = chain[t]]
    /\ worker' = [worker EXCEPT ![w] = [pc |-> "apply", tx |-> t]]
    /\ UNCHANGED <<chain, queue, outbox, contract, rows, kind, call, credits,
                   missed>>

(* No row has this hash: a warning, and nothing else. *)
Miss(w, t) ==
    /\ worker[w].pc = "idle"
    /\ t \in queue \ rows
    /\ missed' = missed \cup {t}
    /\ Acknowledge(t)
    /\ UNCHANGED <<chain, outbox, service, credits, worker>>

(* markAsDeployed, markAsTransferred, markAsFailedDeploying,               *)
(* markAsNotTransferred                                                    *)
Marked(t, outcome) ==
    CASE kind[t] = "deploy" -> IF outcome = "confirmed" THEN "DEPLOYED" ELSE "FAILED"
      [] kind[t] = "transfer" -> IF outcome = "confirmed" THEN "TRANSFERRED"
                                 ELSE "DEPLOYED"
      [] OTHER -> contract

(* populateByUUID, and contractDeploy.update() with the new status. *)
Apply(w) ==
    LET t == worker[w].tx
        failed == chain[t] = "failed" /\ contract # "none"
    IN /\ worker[w].pc = "apply"
       /\ contract' = IF contract = "none" THEN contract ELSE Marked(t, chain[t])
       /\ \/ failed /\ Goto(w, "refund") /\ UNCHANGED queue
          \/ ~ failed /\ Finish(w) /\ Acknowledge(t)
       /\ UNCHANGED <<chain, outbox, rows, recorded, kind, call, credits, missed>>

\* seeded fault: the refund of a deployment has another reference
RefundOther(w) ==
    LET t == worker[w].tx
    IN /\ worker[w].pc = "refund"
       /\ IF t = Deploy THEN UNCHANGED <<refunded, swallowed>> ELSE Refund(t)
       /\ Finish(w) /\ Acknowledge(t)
       /\ UNCHANGED <<chain, outbox, service, paid, missed>>

(* transaction_uuid is the reference that was paid under. *)
RefundFailed(w) ==
    LET t == worker[w].tx
    IN /\ worker[w].pc = "refund"
       /\ Refund(t)
       /\ Finish(w) /\ Acknowledge(t)
       /\ UNCHANGED <<chain, outbox, service, paid, missed>>

(* A statement throws or the lambda dies: the message will come again. *)
WorkerDies(w) ==
    /\ Faults
    /\ worker[w].pc # "idle"
    /\ Finish(w)
    /\ UNCHANGED <<chain, queue, outbox, service, credits, missed>>

-----------------------------------------------------------------------------
Invoke(t) == \/ Check(t) \/ Pay(t) \/ Create(t) \/ CreateFails(t)
             \/ SaveTx(t) \/ MarkTransferring(t)

Handle(w) == \/ \E t \in Txs : Record(w, t) \/ Miss(w, t)
             \/ Apply(w) \/ RefundFailed(w)

Next == \/ \E t \in Txs : Invoke(t) \/ CallDies(t)
        \/ SaveContract
        \/ \E t \in Txs : Settle(t) /\ UNCHANGED <<service, credits, consumer>>
        \/ OutboxNext /\ UNCHANGED <<service, credits, consumer>>
        \/ \E w \in Workers : Handle(w) \/ WorkerDies(w)

Spec == Init /\ [][Next]_vars

(* Lambdas that can go on do: each run of EvmTransactionWorker starts the  *)
(* outbox again.  SQS does not refuse an outcome for ever, and delivers it *)
(* again until it was worked through: the worker does not die on the same  *)
(* outcome for ever.                                                       *)
FairSpec ==
    /\ Spec
    /\ \A s \in Senders :
         WF_vars(Send(s) /\ UNCHANGED <<service, credits, consumer>>)
    /\ \A t \in Txs :
         SF_vars((\E s \in Senders : Deliver(s, t))
                   /\ UNCHANGED <<service, credits, consumer>>)
    /\ \A t \in Txs :
         /\ WF_vars(SaveTx(t))
         /\ SF_vars(\E w \in Workers : Record(w, t) \/ Miss(w, t))
         /\ SF_vars(\E w \in Workers : worker[w].tx = t /\ Apply(w))
         /\ SF_vars(\E w \in Workers : worker[w].tx = t /\ RefundFailed(w))
    /\ WF_vars(SaveContract)

-----------------------------------------------------------------------------
(* Types of the rows, the bookings and what the lambdas remember; only     *)
(* final outcomes of transactions the service knows are worked on.         *)
TypeOK ==
    /\ OutboxTypeOK
    /\ contract \in ContractStatus
    /\ rows \subseteq Txs
    /\ recorded \in [Txs -> Status]
    /\ kind \in [Txs -> Kinds]
    /\ call \in [Txs -> Calls]
    /\ paid \subseteq Txs /\ refunded \subseteq Txs /\ swallowed \subseteq Txs
    /\ worker \in [Workers -> [pc : {"idle", "apply", "refund"}, tx : Txs]]
    /\ \A w \in Workers :
         worker[w].pc # "idle" => worker[w].tx \in rows \cap Settled
    /\ missed \subseteq Txs

(* Credits go back only for what was paid and has failed, or has got no    *)
(* row: nothing that the service knows, and that happened or still may     *)
(* happen, is ever free of charge.                                         *)
RefundSound ==
    \A t \in refunded : /\ t \in paid
                        /\ chain[t] \in {"none", "failed"} \/ t \notin rows

(* The contract's status never claims more than the chain: it is deployed  *)
(* or failed if its deployment is, it is transferred if a transfer was     *)
(* confirmed, and nobody pays for a call before the deployment is          *)
(* confirmed, in whatever order outcomes come and however often.           *)
StatusBacked ==
    /\ contract \in Deployed => chain[Deploy] = "confirmed"
    /\ contract = "FAILED" => chain[Deploy] = "failed"
    /\ contract = "TRANSFERRED" =>
         \E t \in Txs : kind[t] = "transfer" /\ chain[t] = "confirmed"
    /\ \A t \in Txs \ {Deploy} :
         call[t] # "idle" => chain[Deploy] = "confirmed"

(* Every outcome gets to the row of its transaction, and what has failed   *)
(* is paid back, unless the call has stored no row, the outcome came       *)
(* before the row and was dropped, or the wrapper swallowed the error of   *)
(* the refund.                                                             *)
Answered(t) == /\ recorded[t] = chain[t]
               /\ chain[t] = "failed" => t \in refunded \cup swallowed
Unstored(t) == t \notin rows /\ call[t] = "done"
OutcomesHandled ==
    \A t \in Txs :
      t \in Settled ~> Answered(t) \/ t \in missed \/ Unstored(t)
=============================================================================
