------------------------------ MODULE Webhooks ------------------------------
(***************************************************************************)
(* The outbox of the blockchain service.  A row of transaction_queue whose *)
(* status is final and whose webhookTriggered is NULL is an outcome that   *)
(* its service has not been told.  TransactionWebhookWorker (EVM) and      *)
(* executeWebhooksForTransmittedTransactionsInWallet (Substrate) read such *)
(* rows with FOR UPDATE SKIP LOCKED, send them in batches to the queue of  *)
(* the service, set webhookTriggered and commit, in this order.            *)
(*                                                                         *)
(* The queue delivers at least once and in any order, so it is a set of    *)
(* outcomes: what is sent twice is as good as delivered twice.             *)
(***************************************************************************)
EXTENDS Integers, FiniteSets

CONSTANTS
    Txs,        \* ids of transactions
    Senders,    \* lambda invocations that send webhooks
    BatchSize,  \* outcomes in one message: 10
    Checked,    \* whether the number of sending errors is looked at (EVM)
    Faults      \* whether messages get lost and lambdas die

ASSUME TxsAssumption == Txs \subseteq Nat
ASSUME BatchAssumption == BatchSize \in Nat \ {0}

VARIABLES
    chain,      \* transaction_queue.transactionStatus, "none" if no row
    triggered,  \* the rows whose webhookTriggered is set
    queue,      \* outcomes waiting in the queue of the service
    delivered,  \* history: outcomes that were ever put into the queue
    sender      \* the memory of the invocations

outbox == <<triggered, delivered, sender>>

Status == {"none", "pending", "confirmed", "failed"}
Settled == {t \in Txs : chain[t] \in {"confirmed", "failed"}}

(* rows are locked until the transaction ends; left are still to be sent;  *)
(* ids are those to be noted.                                              *)
Sender == [pc : {"idle", "sending"}, rows : SUBSET Txs,
           left : SUBSET Txs, ids : SUBSET Txs]
NoSender == [pc |-> "idle", rows |-> {}, left |-> {}, ids |-> {}]

OutboxInit == /\ chain = [t \in Txs |-> "none"]
              /\ triggered = {}
              /\ queue = {}
              /\ delivered = {}
              /\ sender = [s \in Senders |-> NoSender]

-----------------------------------------------------------------------------
(* The verifier of the transaction queue (TxQueue) books an outcome. *)
Settle(t) ==
    /\ chain[t] = "pending"
    /\ \E outcome \in {"confirmed", "failed"} :
         chain' = [chain EXCEPT ![t] = outcome]
    /\ UNCHANGED <<queue, outbox>>

\* seeded fault: SELECT without FOR UPDATE SKIP LOCKED
NoneLocked == {}

Locked == UNION {sender[s].rows : s \in Senders}

Select(s) ==
    /\ sender[s].pc = "idle"
    /\ LET found == (Settled \ triggered) \ Locked IN
       /\ found # {}
       /\ sender' = [sender EXCEPT ![s] = [NoSender EXCEPT !.pc = "sending",
                                             !.rows = found, !.left = found]]
    /\ UNCHANGED <<chain, queue, triggered, delivered>>

(* The next ten rows, in the order of their ids. *)
Batch(left) == {t \in left : Cardinality({u \in left : u < t}) < BatchSize}

Sent(s, batch, ids) ==
    /\ sender[s].pc = "sending"
    /\ sender[s].left # {}
    /\ sender' = [sender EXCEPT ![s].left = @ \ batch, ![s].ids = @ \cup ids]
    /\ UNCHANGED <<chain, triggered>>

Arrive(batch) == /\ queue' = queue \cup batch
                 /\ delivered' = delivered \cup batch

SendTaken(s) ==
    LET batch == Batch(sender[s].left)
    IN Sent(s, batch, batch) /\ Arrive(batch)

(* The call of SQS throws, before or after the message was taken.  The EVM *)
(* worker goes on with the next batch and does not note this one.          *)
SendFails(s) ==
    LET batch == Batch(sender[s].left)
    IN /\ Faults
       /\ Sent(s, batch, IF Checked THEN {} ELSE batch)
       /\ Arrive(batch) \/ UNCHANGED <<queue, delivered>>

\* seeded fault: all rows of the transaction are noted
NoteAll(s) ==
    /\ sender[s].pc = "sending"
    /\ sender[s].left = {}
    /\ triggered' = triggered \cup sender[s].rows
    /\ sender' = [sender EXCEPT ![s] = NoSender]
    /\ UNCHANGED <<chain, queue, delivered>>

(* UPDATE ... SET webhookTriggered = NOW() WHERE id IN (ids), commit. *)
Note(s) ==
    /\ sender[s].pc = "sending"
    /\ sender[s].left = {}
    /\ triggered' = triggered \cup sender[s].ids
    /\ sender' = [sender EXCEPT ![s] = NoSender]
    /\ UNCHANGED <<chain, queue, delivered>>

(* An exception or the end of the lambda rolls the transaction back; what  *)
(* was sent is sent.                                                       *)
SenderDies(s) ==
    /\ Faults
    /\ sender[s].pc # "idle"
    /\ sender' = [sender EXCEPT ![s] = NoSender]
    /\ UNCHANGED <<chain, queue, triggered, delivered>>

Send(s) == Select(s) \/ SendTaken(s) \/ Note(s)

OutboxNext == \E s \in Senders : Send(s) \/ SendFails(s) \/ SenderDies(s)

Deliver(s, t) == SendTaken(s) /\ t \in Batch(sender[s].left)

-----------------------------------------------------------------------------
(* Types of the rows, the queue and the memory of the invocations. *)
OutboxTypeOK == /\ chain \in [Txs -> Status]
                /\ triggered \subseteq Txs
                /\ queue \subseteq Txs /\ delivered \subseteq Txs
                /\ sender \in [Senders -> Sender]

(* No two invocations send the same row at the same time, and none sends a *)
(* row without having it locked: SKIP LOCKED and one transaction.          *)
OutboxExclusive ==
    /\ \A s, u \in Senders : s # u => sender[s].rows \cap sender[u].rows = {}
    /\ \A s \in Senders :
         sender[s].left \cup sender[s].ids \subseteq sender[s].rows \ triggered

Promise == INSTANCE Delivery WITH final <- Settled, noted <- triggered

(* The outbox, with its locks, batches, errors of the queue and crashes,   *)
(* is a Delivery: no outcome is sent before it is final, and none is noted *)
(* that was not sent.                                                      *)
ImplementsDelivery == Promise!Spec
=============================================================================
