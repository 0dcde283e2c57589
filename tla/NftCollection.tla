---------------------------- MODULE NftCollection ---------------------------
(***************************************************************************)
(* One collection of the nfts service: it is created, deployed, minted     *)
(* from and transferred.  Its row is read whole and written whole by calls *)
(* of the API, by DeployCollectionWorker and by TransactionStatusWorker,   *)
(* and none of them locks it.                                              *)
(*                                                                         *)
(* A deployment goes through the pipeline of the storage service           *)
(* (NftMetadata).  Outcomes of transactions come as Webhooks delivers them *)
(* (Delivery): after they are final, in any order, once or more often.     *)
(***************************************************************************)
EXTENDS NftMetadata

CONSTANTS
    Calls,      \* calls of the API that make a transaction or set a field
    DeployTxs,  \* transactions that deploy the collection
    Workers,    \* items TransactionStatusWorker works on at a time
    Creator,    \* the call of createCollection
    Uuid, Id,   \* collection_uuid and collection.id
    Evm         \* whether the address is known before the outcome

ASSUME CollectionAssumption ==
    /\ DeployTxs # {} /\ Calls \cap DeployTxs = {}
    /\ Creator \notin Preparations
    /\ Uuid \notin Calls
    /\ Evm \in BOOLEAN

Txs == Calls \cup DeployTxs
Deployers == Preparations \cup {Creator}

VARIABLES
    coll,      \* the row: collectionStatus, and which of contractAddress and
               \* bucket_uuid are set
    request,   \* where each call of deployCollection is, and the row it read
    deployer,  \* where createCollection and DeployCollectionWorker are
    call,      \* where the other calls are
    kind,      \* what they do
    chain,     \* status of a transaction in the blockchain service
    queue,     \* outcomes in the queue of the nfts service
    rows,      \* transactions of table transaction
    recorded,  \* their transactionStatus
    worker,    \* items in work
    paid,      \* references with a SPEND booking
    refunded,  \* references with a RECEIVE booking
    lost,      \* history: a row was written over one that was not read
    missed     \* history: outcomes that came before their row and were dropped

requests == <<request, pipeline>>
books == <<rows, recorded>>
inbox == <<queue, missed>>
credits == <<paid, refunded>>
api == <<call, kind>>
vars == <<losses, coll, requests, deployer, api, chain, books, worker, credits,
          lost, inbox>>

Collection == [status : {"none", "CREATED", "DEPLOY_INITIATED", "DEPLOYING",
                         "DEPLOYED", "TRANSFERED", "FAILED"},
               address : BOOLEAN, bucket : BOOLEAN]
Missing == [status |-> "none", address |-> FALSE, bucket |-> FALSE]
Kinds == {"mint", "transfer", "website"}
SomeTx == CHOOSE t \in DeployTxs : TRUE

(* Where a lambda is, and the row that it has read. *)
At(label, row) == [pc |-> label, seen |-> row]
Idle == [pc |-> "idle", seen |-> Missing, tx |-> SomeTx]

Init == /\ MetadataInit
        /\ coll = Missing
        /\ request = [d \in Preparations |-> At("idle", Missing)]
        /\ deployer = [p \in Deployers |-> Idle]
        /\ call = [c \in Calls |-> At("idle", Missing)]
        /\ kind = [c \in Calls |-> "mint"]
        /\ chain = [t \in Txs |-> "none"]
        /\ queue = {} /\ rows = {}
        /\ recorded = [t \in Txs |-> "none"]
        /\ worker = [w \in Workers |-> Idle]
        /\ paid = {} /\ refunded = {}
        /\ lost = FALSE
        /\ missed = {}

(* collection.update(): the row as it was read, with some fields changed. *)
Save(base, row) == /\ coll' = row
                   /\ lost' = (lost \/ coll # base)

\* seeded fault: a refund does not look for the payment
RefundUnpaid(ref) == refunded' = refunded \cup {ref}

(* refundCredit: only what was paid is paid back.  That it may fail, and   *)
(* swallows the error, is left to Contracts.                               *)
Refund(ref) == refunded' = refunded \cup ({ref} \cap paid)

-----------------------------------------------------------------------------
(* deployCollection *)

(* The status allows a deployment: so do FAILED and TRANSFERED. *)
DeployCheck(d) ==
    /\ request[d].pc = "idle"
    /\ coll.status \in {"CREATED", "FAILED", "TRANSFERED"}
    /\ request' = [request EXCEPT ![d] = At("checked", coll)]
    /\ UNCHANGED <<coll, pipeline, deployer, api, chain, books, worker, credits,
                   lost, inbox, losses>>

DeployInit(d) ==
    LET row == [request[d].seen EXCEPT !.status = "DEPLOY_INITIATED"] IN
    /\ request[d].pc = "checked"
    /\ Save(request[d].seen, row)
    /\ request' = [request EXCEPT ![d] = At("initiated", row)]
    /\ UNCHANGED <<pipeline, deployer, api, chain, books, worker, credits,
                   inbox, losses>>

DeployPrepare(d) ==
    /\ request[d].pc = "initiated"
    /\ request[d].seen.bucket
    /\ Prepare(d)
    /\ request' = [request EXCEPT ![d].pc = "prepared"]
    /\ UNCHANGED <<coll, deployer, api, chain, books, worker, credits, lost,
                   inbox>>

DeployAnswered(d) ==
    /\ request[d].pc = "prepared"
    /\ request' = [request EXCEPT ![d] = At("done", Missing)]
    /\ UNCHANGED <<coll, pipeline, deployer, api, chain, books, worker, credits,
                   lost, inbox, losses>>

\* seeded fault: the status is not set back
FailsInitiated(d) ==
    /\ \/ ~ request[d].seen.bucket /\ UNCHANGED losses
       \/ request[d].seen.bucket /\ Fault /\ UNCHANGED unsent
    /\ request[d].pc \in {"initiated", "prepared"}
    /\ request' = [request EXCEPT ![d] = At("done", Missing)]
    /\ UNCHANGED <<coll, lost, pipeline, deployer, api, chain, books, worker,
                   credits, inbox>>

(* The storage service throws, as it does for a collection that has no     *)
(* bucket, or its answer is lost: status CREATED.                          *)
PrepareFails(d) ==
    /\ \/ ~ request[d].seen.bucket /\ UNCHANGED losses
       \/ request[d].seen.bucket /\ Fault /\ UNCHANGED unsent
    /\ request[d].pc \in {"initiated", "prepared"}
    /\ Save(request[d].seen, [request[d].seen EXCEPT !.status = "CREATED"])
    /\ request' = [request EXCEPT ![d] = At("done", Missing)]
    /\ UNCHANGED <<pipeline, deployer, api, chain, books, worker, credits,
                   inbox>>

DeployDies(d) ==
    /\ Fault
    /\ request[d].pc = "initiated"
    /\ request' = [request EXCEPT ![d] = At("dead", Missing)]
    /\ UNCHANGED <<coll, pipeline, deployer, api, chain, books, worker, credits,
                   lost, inbox, unsent>>

-----------------------------------------------------------------------------
(* createCollection, and DeployCollectionWorker for the message of d *)

Goto(p, label) ==
    deployer' = [deployer EXCEPT ![p] =
                   IF label \in {"idle", "done"} THEN [Idle EXCEPT !.pc = label]
                   ELSE [@ EXCEPT !.pc = label]]

CreatePay ==
    /\ deployer[Creator].pc = "idle"
    /\ paid' = paid \cup {Uuid}
    /\ Goto(Creator, "paid")
    /\ UNCHANGED <<coll, requests, api, chain, books, worker, refunded, lost,
                   inbox, losses>>

(* Without a baseUri there is a bucket for the metadata, and the row is    *)
(* inserted.                                                               *)
CreateInsert ==
    /\ deployer[Creator].pc = "paid"
    /\ coll' = [status |-> "CREATED", address |-> FALSE, bucket |-> TRUE]
    /\ Goto(Creator, "done")
    /\ UNCHANGED <<requests, api, chain, books, worker, credits, lost, inbox,
                   losses>>

(* The insert is rolled back, spendCreditAction refunds and rethrows. *)
CreateFails ==
    /\ deployer[Creator].pc \in {"paid", "sent"}
    /\ Refund(Uuid)
    /\ Goto(Creator, "done")
    /\ UNCHANGED <<coll, requests, api, chain, books, worker, paid, lost, inbox,
                   losses>>

\* seeded fault: the worker deploys whatever the status is
ReadAlways(d) ==
    /\ deployer[d].pc = "idle"
    /\ deployment[d] # {}
    /\ deployer' = [deployer EXCEPT ![d] = [@ EXCEPT !.pc = "read", !.seen = coll]]
    /\ UNCHANGED <<coll, requests, api, chain, books, worker, credits, lost,
                   inbox, losses>>

(* populateByUUID, and the test of the status. *)
Read(d) ==
    /\ deployer[d].pc = "idle"
    /\ deployment[d] # {}
    /\ coll.status \notin {"DEPLOYING", "DEPLOYED"}
    /\ deployer' = [deployer EXCEPT ![d] = [@ EXCEPT !.pc = "read", !.seen = coll]]
    /\ UNCHANGED <<coll, requests, api, chain, books, worker, credits, lost,
                   inbox, losses>>

(* "Collection already deployed.": the message is taken all the same. *)
Refuse(d) ==
    /\ deployer[d].pc = "idle"
    /\ deployment[d] # {}
    /\ coll.status \in {"DEPLOYING", "DEPLOYED"}
    /\ \E base \in deployment[d] :
         deployment' = [deployment EXCEPT ![d] = @ \ {base}]
    /\ UNCHANGED <<coll, request, uploads, deployer, api, chain, books, worker,
                   credits, lost, inbox, losses>>

Mark(d) ==
    LET row == [deployer[d].seen EXCEPT !.status = "DEPLOYING"] IN
    /\ deployer[d].pc = "read"
    /\ Save(deployer[d].seen, row)
    /\ deployer' = [deployer EXCEPT ![d] = [@ EXCEPT !.pc = "marked", !.seen = row]]
    /\ UNCHANGED <<requests, api, chain, books, worker, credits, inbox, losses>>

(* A message that was worked through is removed, or comes again. *)
TakenAway(d) ==
    \/ /\ \E base \in deployment[d] :
            deployment' = [deployment EXCEPT ![d] = @ \ {base}]
       /\ UNCHANGED losses
    \/ Fault /\ UNCHANGED <<deployment, unsent>>

(* deployNFTCollectionContract, in a transaction of the database: the      *)
(* blockchain service creates the transaction ...                          *)
CreateTx(p) ==
    /\ deployer[p].pc = IF p = Creator THEN "paid" ELSE "marked"
    /\ \E t \in DeployTxs : chain[t] = "none"
    /\ LET t == CHOOSE u \in DeployTxs : chain[u] = "none" IN
       /\ chain' = [chain EXCEPT ![t] = "pending"]
       /\ deployer' = [deployer EXCEPT ![p].pc = "sent", ![p].tx = t]
    /\ UNCHANGED <<coll, requests, api, books, worker, credits, lost, inbox,
                   losses>>

(* ... and the rows are stored and committed. *)
Commit(p) ==
    LET row == [status |-> "DEPLOYING", address |-> Evm, bucket |-> p # Creator] IN
    /\ deployer[p].pc = "sent"
    /\ rows' = rows \cup {deployer[p].tx}
    /\ recorded' = [recorded EXCEPT ![deployer[p].tx] = "pending"]
    /\ IF p = Creator
       THEN /\ coll' = row /\ UNCHANGED <<lost, deployment, losses>>
            /\ Goto(p, "done")
       ELSE /\ Save(deployer[p].seen, row)
            /\ Goto(p, "idle")
            /\ TakenAway(p)
    /\ UNCHANGED <<request, uploads, api, chain, worker, credits, inbox>>

(* The transaction is rolled back, whether the blockchain service has made *)
(* its own or not.  The row in memory may have got its address before the  *)
(* update or the commit failed, and is written with it.                    *)
DeployFails(d) ==
    /\ Fault
    /\ deployer[d].pc \in {"marked", "sent"}
    /\ \/ \E address \in {deployer[d].seen.address}
                            \cup IF deployer[d].pc = "sent" THEN {Evm} ELSE {} :
            Save(deployer[d].seen, [deployer[d].seen EXCEPT !.status = "FAILED",
                                                            !.address = address])
       \/ UNCHANGED <<coll, lost>>
    /\ Goto(d, "failed")
    /\ UNCHANGED <<requests, api, chain, books, worker, credits, inbox, unsent>>

RefundDeploy(d) ==
    /\ deployer[d].pc = "failed"
    /\ Refund(Uuid)
    /\ Goto(d, "idle")
    /\ TakenAway(d)
    /\ UNCHANGED <<coll, request, uploads, api, chain, books, worker, paid, lost,
                   inbox>>

DeployerDies(d) ==
    /\ Fault
    /\ deployer[d].pc # "idle"
    /\ Goto(d, "idle")
    /\ UNCHANGED <<coll, requests, api, chain, books, worker, credits, lost,
                   inbox, unsent>>

-----------------------------------------------------------------------------
(* Calls of the API.  mint stands for the calls that make a transaction    *)
(* and leave the row alone; website for those that only set a field of it. *)

Step(c, from, to) ==
    /\ call[c].pc = from
    /\ call' = [call EXCEPT ![c] = IF to = "done" THEN At(to, Missing)
                                   ELSE [@ EXCEPT !.pc = to]]

(* checkCollection; checkTransferConditions: no transfer is pending or     *)
(* confirmed.                                                              *)
Begin(c) ==
    /\ call[c].pc = "idle"
    /\ coll.status # "none"
    /\ \E k \in Kinds :
         /\ k # "website" => coll.address /\ coll.status # "TRANSFERED"
         /\ k = "transfer" => \A t \in Calls \cap rows :
              kind[t] = "transfer" => recorded[t] = "failed"
         /\ kind' = [kind EXCEPT ![c] = k]
         /\ call' = [call EXCEPT ![c] =
                       At(IF k = "website" THEN "updating" ELSE "checked", coll)]
    /\ UNCHANGED <<coll, requests, deployer, chain, books, worker, credits,
                   lost, inbox, losses>>

Pay(c) ==
    /\ Step(c, "checked", "paid")
    /\ paid' = paid \cup {c}
    /\ UNCHANGED <<kind, coll, requests, deployer, chain, books, worker,
                   refunded, lost, inbox, losses>>

(* sendTransaction: the blockchain service creates the transaction, ... *)
SendTx(c) ==
    /\ Step(c, "paid", "sent")
    /\ chain' = [chain EXCEPT ![c] = "pending"]
    /\ UNCHANGED <<kind, coll, requests, deployer, books, worker, credits, lost,
                   inbox, losses>>

(* ... and its row is stored. *)
StoreTx(c) ==
    /\ Step(c, "sent", IF kind[c] = "transfer" THEN "updating" ELSE "done")
    /\ rows' = rows \cup {c}
    /\ recorded' = [recorded EXCEPT ![c] = "pending"]
    /\ UNCHANGED <<kind, coll, requests, deployer, chain, worker, credits, lost,
                   inbox, losses>>

(* adminAddress, websiteUuid, ipns_uuid or baseUri change, and nothing     *)
(* else of the row that was read.                                          *)
Update(c) ==
    /\ Step(c, "updating", "done")
    /\ Save(call[c].seen, call[c].seen)
    /\ UNCHANGED <<kind, requests, deployer, chain, books, worker, credits,
                   inbox, losses>>

(* The paid action throws: also when the transaction is stored and only    *)
(* the update after it fails.                                              *)
CallFails(c) ==
    /\ \/ call[c].pc \in {"paid", "sent"} /\ UNCHANGED losses
       \/ call[c].pc = "updating" /\ Fault /\ UNCHANGED unsent
    /\ call' = [call EXCEPT ![c] = At("done", Missing)]
    /\ Refund(c)
    /\ UNCHANGED <<kind, coll, requests, deployer, chain, books, worker, paid,
                   lost, inbox>>

CallDies(c) ==
    /\ Fault
    /\ call[c].pc \in {"paid", "sent", "updating"}
    /\ call' = [call EXCEPT ![c] = At("done", Missing)]
    /\ UNCHANGED <<kind, coll, requests, deployer, chain, books, worker,
                   credits, lost, inbox, unsent>>

-----------------------------------------------------------------------------
(* The blockchain service *)

(* A call has a later nonce than the deployment it was sent after.  The    *)
(* outcome is sent to the nfts service; when it is worked on is open.      *)
Settle(t) ==
    /\ chain[t] = "pending"
    /\ t \in Calls => \E u \in DeployTxs : chain[u] \in {"confirmed", "failed"}
    /\ \E outcome \in {"confirmed", "failed"} :
         chain' = [chain EXCEPT ![t] = outcome]
    /\ queue' = queue \cup {t}
    /\ UNCHANGED <<coll, requests, deployer, api, books, worker, credits, lost,
                   missed, losses>>

(* The sender or the queue delivers it once more. *)
Duplicate(t) ==
    /\ Fault
    /\ chain[t] \in {"confirmed", "failed"}
    /\ t \notin queue
    /\ queue' = queue \cup {t}
    /\ UNCHANGED <<coll, requests, deployer, api, chain, books, worker, credits,
                   lost, missed, unsent>>

-----------------------------------------------------------------------------
(* TransactionStatusWorker *)

Kind(t) == IF t \in DeployTxs THEN "deploy" ELSE kind[t]
Finish(w) == worker' = [worker EXCEPT ![w] = Idle]
Acknowledge(t) == queue' = queue \ {t}

(* No row has the hash: nothing is done. *)
Miss(t) ==
    /\ t \in queue \ rows
    /\ missed' = missed \cup {t}
    /\ Acknowledge(t)
    /\ UNCHANGED <<coll, requests, deployer, api, chain, books, worker, credits,
                   lost, losses>>

(* transaction.update(); then the collection is read. *)
Record(w, t) ==
    /\ worker[w].pc = "idle"
    /\ t \in queue \cap rows
    /\ recorded' = [recorded EXCEPT ![t] = chain[t]]
    /\ worker' = [worker EXCEPT ![w] = [pc |-> "recorded", tx |-> t, seen |-> coll]]
    /\ UNCHANGED <<coll, requests, deployer, api, chain, queue, rows, credits,
                   lost, missed, losses>>

\* seeded fault: the outcome of the transaction is not looked at
ApplyAny(w) ==
    LET t == worker[w].tx IN
    /\ worker[w].pc = "recorded"
    /\ Kind(t) \in {"deploy", "transfer"}
    /\ Save(worker[w].seen, [worker[w].seen EXCEPT !.status =
              IF Kind(t) = "deploy" THEN "DEPLOYED" ELSE "TRANSFERED"])
    /\ Finish(w) /\ Acknowledge(t)
    /\ UNCHANGED <<requests, deployer, api, chain, books, credits, missed,
                   losses>>

(* updateCollectionStatus: only a confirmed transaction changes the row. *)
Apply(w) ==
    LET t == worker[w].tx IN
    /\ worker[w].pc = "recorded"
    /\ Kind(t) \in {"deploy", "transfer"}
    /\ chain[t] = "confirmed"
    /\ Save(worker[w].seen,
            IF Kind(t) = "deploy"
            THEN [worker[w].seen EXCEPT !.status = "DEPLOYED",
                                        !.address = @ \/ ~ Evm]
            ELSE [worker[w].seen EXCEPT !.status = "TRANSFERED"])
    /\ Finish(w) /\ Acknowledge(t)
    /\ UNCHANGED <<requests, deployer, api, chain, books, credits, missed,
                   losses>>

(* A confirmed call of another kind changes nothing else. *)
Leave(w) ==
    LET t == worker[w].tx IN
    /\ worker[w].pc = "recorded"
    /\ Kind(t) \notin {"deploy", "transfer"}
    /\ chain[t] = "confirmed"
    /\ Finish(w) /\ Acknowledge(t)
    /\ UNCHANGED <<coll, requests, deployer, api, chain, books, credits, lost,
                   missed, losses>>

\* seeded fault: nothing is paid back
NoRefund(w) ==
    LET t == worker[w].tx IN
    /\ worker[w].pc = "recorded"
    /\ chain[t] = "failed"
    /\ Finish(w) /\ Acknowledge(t)
    /\ UNCHANGED <<coll, requests, deployer, api, chain, books, credits, lost,
                   missed, losses>>

(* A deployment was paid under collection_uuid; its refund has refId, the  *)
(* id of the collection.                                                   *)
RefundFailed(w) ==
    LET t == worker[w].tx IN
    /\ worker[w].pc = "recorded"
    /\ chain[t] = "failed"
    /\ Refund(IF t \in DeployTxs THEN Id ELSE t)
    /\ Finish(w) /\ Acknowledge(t)
    /\ UNCHANGED <<coll, requests, deployer, api, chain, books, paid, lost,
                   missed, losses>>

WorkerDies(w) ==
    /\ Fault
    /\ worker[w].pc # "idle"
    /\ Finish(w)
    /\ UNCHANGED <<coll, requests, deployer, api, chain, books, credits, lost,
                   inbox, unsent>>

-----------------------------------------------------------------------------
Request(d) == \/ DeployCheck(d) \/ DeployInit(d) \/ DeployPrepare(d)
              \/ DeployAnswered(d) \/ PrepareFails(d) \/ DeployDies(d)
Deployment(d) == \/ Read(d) \/ Refuse(d) \/ Mark(d) \/ DeployFails(d)
                 \/ RefundDeploy(d) \/ DeployerDies(d)
Invoke(c) == \/ Begin(c) \/ Pay(c) \/ SendTx(c) \/ StoreTx(c) \/ Update(c)
             \/ CallFails(c) \/ CallDies(c)
Handle(w) == Apply(w) \/ Leave(w) \/ RefundFailed(w) \/ \E t \in Txs : Record(w, t)
service == <<coll, request, deployer, api, chain, books, worker, credits,
             lost, inbox>>

Next == \/ CreatePay \/ CreateInsert \/ CreateFails
        \/ \E p \in Deployers : CreateTx(p) \/ Commit(p)
        \/ \E d \in Preparations : Request(d) \/ Deployment(d)
        \/ MetadataNext /\ UNCHANGED service
        \/ \E c \in Calls : Invoke(c)
        \/ \E t \in Txs : Settle(t) \/ Duplicate(t) \/ Miss(t)
        \/ \E w \in Workers : Handle(w) \/ WorkerDies(w)

Spec == Init /\ [][Next]_vars

(* Lambdas that have something to do do it in the end.  Queues deliver a   *)
(* message again until it was worked through, so this includes what a run  *)
(* that died has left.                                                     *)
Progress ==
    \/ CreateInsert
    \/ \E p \in Deployers : CreateTx(p) \/ Commit(p)
    \/ \E d \in Preparations :
         \/ DeployInit(d) \/ DeployPrepare(d) \/ PrepareFails(d)
         \/ PipelineStep(d) /\ UNCHANGED service
         \/ Read(d) \/ Refuse(d) \/ Mark(d) \/ RefundDeploy(d)
    \/ \E c \in Calls : StoreTx(c) \/ Update(c)
    \/ \E w \in Workers : Handle(w)
    \/ \E t \in Txs : Miss(t)

FairSpec == Spec /\ WF_vars(Progress)

-----------------------------------------------------------------------------
(* Types of the rows and of what the lambdas remember. *)
TypeOK ==
    /\ MetadataTypeOK
    /\ coll \in Collection /\ lost \in BOOLEAN
    /\ request \in [Preparations ->
         [pc : {"idle", "checked", "initiated", "prepared", "done", "dead"},
          seen : Collection]]
    /\ deployer \in [Deployers ->
         [pc : {"idle", "paid", "read", "marked", "sent", "failed", "done"},
          seen : Collection, tx : DeployTxs]]
    /\ call \in [Calls ->
         [pc : {"idle", "checked", "paid", "sent", "updating", "done"},
          seen : Collection]]
    /\ kind \in [Calls -> Kinds]
    /\ chain \in [Txs -> {"none", "pending", "confirmed", "failed"}]
    /\ queue \subseteq Txs /\ rows \subseteq Txs
    /\ recorded \in [Txs -> {"none", "pending", "confirmed", "failed"}]
    /\ worker \in [Workers -> [pc : {"idle", "recorded"}, tx : Txs, seen : Collection]]
    /\ paid \subseteq Calls \cup {Uuid}
    /\ refunded \subseteq paid
    /\ missed \subseteq Txs

(* However stale the rows are that the lambdas write back, what the        *)
(* collection says happened on the chain: it is deployed if a deployment   *)
(* was confirmed, transferred if a transfer was, and has an address only   *)
(* from a deployment; nobody pays for a call before there is an address.   *)
Confirmed(S) == \E t \in S : chain[t] = "confirmed"
Backed(row) ==
    /\ row.status = "DEPLOYED" => Confirmed(DeployTxs)
    /\ row.status = "TRANSFERED" =>
         Confirmed({c \in Calls : kind[c] = "transfer"})
    /\ row.address => IF Evm THEN \E t \in DeployTxs : chain[t] # "none"
                             ELSE Confirmed(DeployTxs)
StatusBacked ==
    /\ Backed(coll)
    /\ \A c \in Calls \cap paid : \E t \in DeployTxs : chain[t] # "none"

(* As long as no row was overwritten that had not been read, and nothing   *)
(* was transferred, at most one deployment is stored that has not failed:  *)
(* messages that come twice or late do not deploy again.                   *)
Transferred == Confirmed({c \in Calls : kind[c] = "transfer"})
SingleDeployment ==
    \/ lost \/ Transferred
    \/ Cardinality({t \in DeployTxs \cap rows : chain[t] # "failed"}) <= 1

(* Every outcome gets to the row of its transaction, and a call that       *)
(* failed on the chain is paid back, unless its row was not stored, the    *)
(* outcome came before it, or the refund failed.                           *)
Answered(t) == /\ recorded[t] = chain[t]
               /\ t \in Calls /\ chain[t] = "failed" => t \in refunded
Unstored(t) == t \notin rows /\ (t \in Calls => call[t].pc = "done")
OutcomesHandled ==
    \A t \in Txs : chain[t] \in {"confirmed", "failed"} ~>
                     Answered(t) \/ t \in missed \/ Unstored(t)

(* A collection whose deployment was started does not stay so, unless the  *)
(* request died before the storage service got it, a message could not be  *)
(* sent, the metadata is stuck, or rows were overwritten.  A deployment    *)
(* that the chain confirms makes the collection deployed, unless its own   *)
(* row was not stored, the outcome came before it, or rows were            *)
(* overwritten.                                                            *)
DeploymentMoves ==
    /\ coll.status = "DEPLOY_INITIATED" ~>
         \/ coll.status # "DEPLOY_INITIATED"
         \/ lost
         \/ \E d \in Preparations :
              request[d].pc = "dead" \/ d \in unsent \/ Stuck(d)
    /\ \A t \in DeployTxs : chain[t] = "confirmed" /\ recorded[t] # "confirmed" ~>
         \/ coll.status \in {"DEPLOYED", "TRANSFERED"}
         \/ lost \/ t \in missed \/ Unstored(t)

(* "For ContractDeploy, reference for credit is collection": a deployment  *)
(* that failed on the chain is paid back.                                  *)
FailedDeployRefunded ==
    \A t \in DeployTxs :
      recorded[t] = "failed" ~> Uuid \in refunded
=============================================================================
