------------------------ MODULE NftCollectionProofs -------------------------
(***************************************************************************)
(* Proofs about NftCollection, for any number of requests, calls,          *)
(* transactions and workers, and any number of faults.                     *)
(***************************************************************************)
EXTENDS NftCollection, FiniteSetTheorems, TLAPS

-----------------------------------------------------------------------------
(* Types *)

LEMMA Constants ==
    /\ Missing \in Collection /\ Missing.status = "none" /\ ~ Missing.address
    /\ SomeTx \in DeployTxs /\ DeployTxs \subseteq Txs /\ Calls \subseteq Txs
    /\ Calls \cap DeployTxs = {}
    /\ Creator \in Deployers /\ Preparations \subseteq Deployers
    /\ Creator \notin Preparations /\ Uuid \notin Calls /\ Evm \in BOOLEAN
    /\ MaxFaults \in Nat
<1>1. SomeTx \in DeployTxs
  BY CollectionAssumption DEF SomeTx
<1>2. QED
  BY <1>1, CollectionAssumption, FaultsAssumption
     DEF Missing, Collection, Txs, Deployers

RequestTypes == [pc : {"idle", "checked", "initiated", "prepared", "done", "dead"},
                 seen : Collection]
DeployerTypes == [pc : {"idle", "paid", "read", "marked", "sent", "failed", "done"},
                  seen : Collection, tx : DeployTxs]
CallTypes == [pc : {"idle", "checked", "paid", "sent", "updating", "done"},
              seen : Collection]
WorkerTypes == [pc : {"idle", "recorded"}, tx : Txs, seen : Collection]

LEMMA IdleTypes ==
    /\ Idle \in DeployerTypes /\ Idle \in WorkerTypes
    /\ Idle.pc = "idle" /\ Idle.seen = Missing
    /\ \A l \in {"idle", "done", "dead"} : At(l, Missing) \in RequestTypes
    /\ \A l \in {"idle", "done"} : At(l, Missing) \in CallTypes
    /\ First \in Message /\ NoRun \in Run
  BY Constants DEF Idle, DeployerTypes, WorkerTypes, RequestTypes, CallTypes, At,
     NoRun, Run, Message, First

LEMMA MetadataInitType == MetadataInit => MetadataTypeOK
  BY IdleTypes, Constants DEF MetadataInit, MetadataTypeOK, Steps

LEMMA TypeInit == Init => TypeOK
<1> SUFFICES ASSUME Init PROVE TypeOK
  OBVIOUS
<1>1. MetadataTypeOK
  BY MetadataInitType DEF Init
<1>2. QED
  BY <1>1, IdleTypes, Constants
     DEF Init, TypeOK, RequestTypes, DeployerTypes, CallTypes, WorkerTypes, Kinds

(* Types of the messages that are sent and of the rows that are saved. *)
LEMMA MessageTypes ==
    /\ \A run \in Run : NextMessage(run) \in Message
    /\ \A m \in Message : [m EXCEPT !.used = TRUE] \in Message
    /\ \A m \in Message : BaseUri(m) \in Bases
    /\ \A m \in Message : [NoRun EXCEPT !.pc = "moved", !.msg = m] \in Run
  BY DEF NextMessage, Message, Run, BaseUri, Bases, NoRun

LEMMA AdvanceTypes ==
    ASSUME MetadataTypeOK, NEW d \in Preparations, NEW m \in Message,
           NEW at \in {"images", "jsons", "metadata"}, Advance(d, at, m)
    PROVE  /\ step' \in [Preparations -> Steps]
           /\ message' \in [Preparations -> SUBSET Message]
           /\ runner' \in [Preparations -> Run]
<1>1. /\ step \in [Preparations -> Steps] /\ message \in [Preparations -> SUBSET Message]
      /\ runner \in [Preparations -> Run] /\ [m EXCEPT !.used = TRUE] \in Message
  BY MessageTypes DEF MetadataTypeOK
<1>2. After[at] \in Steps
  BY DEF After, Steps
<1>3. step' \in [Preparations -> Steps]
  BY <1>1, <1>2 DEF Advance
<1>4. message' \in [Preparations -> SUBSET Message]
  BY <1>1 DEF Advance
<1>5. [pc |-> "saved", msg |-> [m EXCEPT !.used = TRUE], cid |-> at = "metadata"] \in Run
  BY <1>1 DEF Run
<1>6. QED BY <1>1, <1>3, <1>4, <1>5 DEF Advance

(* The pipeline keeps its types, whoever makes the step. *)
LEMMA MetadataStep ==
    ASSUME MetadataTypeOK, NEW d \in Preparations,
           PipelineStep(d) \/ RunDies(d) \/ Prepare(d)
    PROVE  MetadataTypeOK'
<1>1. /\ step \in [Preparations -> Steps] /\ message \in [Preparations -> SUBSET Message]
      /\ runner \in [Preparations -> Run] /\ deployment \in [Preparations -> SUBSET Bases]
      /\ transferred \subseteq Preparations /\ again \subseteq Preparations
      /\ faults \in 0..MaxFaults /\ unsent \subseteq Preparations
      /\ runner[d] \in Run /\ runner[d].msg \in Message /\ message[d] \subseteq Message
  BY DEF MetadataTypeOK, Run
<1>2. /\ UNCHANGED losses => faults' \in 0..MaxFaults /\ unsent' \subseteq Preparations
      /\ Fault => faults' \in 0..MaxFaults
  BY <1>1, Constants DEF losses, Fault
<1>3. ASSUME NEW q \in SUBSET Message, NEW m \in Message, Sent(d, q, m)
      PROVE  /\ message' \in [Preparations -> SUBSET Message]
             /\ faults' \in 0..MaxFaults /\ unsent' \subseteq Preparations
  BY <1>1, <1>2, <1>3 DEF Sent
<1>4. ASSUME NEW at, NEW m \in message[d], Starts(d, at, m)
      PROVE  /\ again' \subseteq Preparations /\ m \in Message
             /\ step[d] = at /\ runner[d].pc = "idle"
  BY <1>1, <1>4 DEF Starts
<1>5. CASE Prepare(d)
  <2>1. step' \in [Preparations -> Steps]
    BY <1>1, <1>5 DEF Prepare, Steps
  <2>2. QED BY <1>1, <1>3, <1>5, <2>1, IdleTypes DEF Prepare, MetadataTypeOK
<1>6. CASE SaveStep(d)
  <2>1. PICK at \in {"images", "jsons"}, m \in message[d] : Starts(d, at, m) /\ Advance(d, at, m)
    BY <1>6 DEF SaveStep
  <2>2. QED BY <1>1, <1>2, <1>4, <1>6, <2>1, AdvanceTypes DEF SaveStep, MetadataTypeOK
<1>7. CASE Transfer(d)
  <2>1. PICK m \in message[d] :
          /\ Starts(d, "metadata", m)
          /\ runner' = [runner EXCEPT ![d] = [NoRun EXCEPT !.pc = "moved", !.msg = m]]
    BY <1>7 DEF Transfer
  <2>2. runner' \in [Preparations -> Run] /\ again' \subseteq Preparations
    BY <1>1, <1>4, <2>1, MessageTypes
  <2>3. QED BY <1>1, <1>2, <1>7, <2>2 DEF Transfer, MetadataTypeOK
<1>8. CASE SaveTransfer(d)
  BY <1>1, <1>2, <1>8, AdvanceTypes DEF SaveTransfer, MetadataTypeOK
<1>9. CASE SendNext(d)
  <2>1. NextMessage(runner[d]) \in Message /\ message[d] \ {runner[d].msg} \in SUBSET Message
    BY <1>1, MessageTypes
  <2>2. runner' \in [Preparations -> Run]
    BY <1>1, <1>9, IdleTypes DEF SendNext
  <2>3. QED BY <1>1, <1>3, <1>9, <2>1, <2>2 DEF SendNext, MetadataTypeOK
<1>10. CASE RunDies(d)
  <2>1. runner' \in [Preparations -> Run]
    BY <1>1, <1>10, IdleTypes DEF RunDies
  <2>2. message' \in [Preparations -> SUBSET Message]
    <3>1. NextMessage(runner[d]) \in Message
      BY <1>1, MessageTypes
    <3>2. message' \in {message, [message EXCEPT ![d] = @ \cup {NextMessage(runner[d])}]}
      BY <1>10 DEF RunDies
    <3>3. QED BY <1>1, <3>1, <3>2
  <2>3. QED BY <1>1, <1>2, <1>10, <2>1, <2>2 DEF RunDies, MetadataTypeOK
<1>11. CASE Publish(d)
  <2>1. PICK m \in message[d] :
          /\ Starts(d, "publish", m)
          /\ deployment' \in {deployment, [deployment EXCEPT ![d] = @ \cup {BaseUri(m)}]}
          /\ message' \in {message, [message EXCEPT ![d] = @ \ {m}]}
    BY <1>11 DEF Publish
  <2>2. /\ deployment' \in [Preparations -> SUBSET Bases]
        /\ message' \in [Preparations -> SUBSET Message] /\ again' \subseteq Preparations
    <3>1. again' \subseteq Preparations /\ m \in Message
      BY <1>4, <2>1
    <3>2. BaseUri(m) \in Bases
      BY <3>1, MessageTypes
    <3>3. QED BY <1>1, <2>1, <3>1, <3>2
  <2>3. step' \in [Preparations -> Steps]
    BY <1>1, <1>11 DEF Publish, Steps
  <2>4. faults' \in 0..MaxFaults /\ unsent' \subseteq Preparations
    BY <1>1, <1>2, <1>11 DEF Publish
  <2>5. QED BY <1>1, <1>11, <2>2, <2>3, <2>4 DEF Publish, MetadataTypeOK
<1>12. CASE Ignore(d)
  BY <1>1, <1>2, <1>12 DEF Ignore, MetadataTypeOK
<1>13. QED BY <1>5, <1>6, <1>7, <1>8, <1>9, <1>10, <1>11, <1>12 DEF PipelineStep

(* What each of the actions may be. *)
LEMMA NextCases ==
    ASSUME [Next]_vars
    PROVE  \/ CreatePay \/ CreateInsert \/ CreateFails
           \/ \E p \in Deployers : CreateTx(p) \/ Commit(p)
           \/ \E d \in Preparations : Request(d)
           \/ \E d \in Preparations : Deployment(d)
           \/ MetadataNext /\ UNCHANGED service
           \/ \E c \in Calls : Invoke(c)
           \/ \E t \in Txs : Settle(t) \/ Duplicate(t) \/ Miss(t)
           \/ \E w \in Workers : Handle(w) \/ WorkerDies(w)
           \/ UNCHANGED vars
  BY DEF Next

(* Types of what the actions share. *)
LEMMA SharedTypes ==
    ASSUME TypeOK
    PROVE  /\ Fault => faults' \in 0..MaxFaults
           /\ \A base : \A row \in Collection :
                Save(base, row) => coll' \in Collection /\ lost' \in BOOLEAN
           /\ \A p \in Deployers :
                \A l \in {"idle", "paid", "read", "marked", "sent", "failed", "done"} :
                  Goto(p, l) => deployer' \in [Deployers -> DeployerTypes]
           /\ \A c \in Calls :
                \A l, m \in {"idle", "checked", "paid", "sent", "updating", "done"} :
                  Step(c, l, m) => call' \in [Calls -> CallTypes]
           /\ \A w \in Workers : Finish(w) => worker' \in [Workers -> WorkerTypes]
           /\ \A ref : Refund(ref) => refunded \subseteq refunded' /\ refunded' \subseteq paid
<1>1. /\ coll \in Collection /\ lost \in BOOLEAN /\ faults \in 0..MaxFaults
      /\ deployer \in [Deployers -> DeployerTypes] /\ call \in [Calls -> CallTypes]
      /\ worker \in [Workers -> WorkerTypes] /\ refunded \subseteq paid
  BY DEF TypeOK, MetadataTypeOK, DeployerTypes, CallTypes, WorkerTypes
<1>2. Fault => faults' \in 0..MaxFaults
  BY <1>1, Constants DEF Fault
<1>3. \A base : \A row \in Collection :
        Save(base, row) => coll' \in Collection /\ lost' \in BOOLEAN
  BY <1>1 DEF Save
<1>4. \A p \in Deployers :
        \A l \in {"idle", "paid", "read", "marked", "sent", "failed", "done"} :
          Goto(p, l) => deployer' \in [Deployers -> DeployerTypes]
  BY <1>1, IdleTypes DEF Goto, DeployerTypes
<1>5. \A c \in Calls :
        \A l, m \in {"idle", "checked", "paid", "sent", "updating", "done"} :
          Step(c, l, m) => call' \in [Calls -> CallTypes]
  BY <1>1, IdleTypes DEF Step, CallTypes
<1>6. \A w \in Workers : Finish(w) => worker' \in [Workers -> WorkerTypes]
  BY <1>1, IdleTypes DEF Finish
<1>7. \A ref : Refund(ref) => refunded \subseteq refunded' /\ refunded' \subseteq paid
  BY <1>1 DEF Refund
<1>8. QED BY <1>2, <1>3, <1>4, <1>5, <1>6, <1>7

LEMMA TypeStep == TypeOK /\ [Next]_vars => TypeOK'
<1> SUFFICES ASSUME TypeOK, [Next]_vars PROVE TypeOK'
  OBVIOUS
<1> USE DEF requests, books, inbox, credits, api, pipeline, uploads, losses
<1>1. /\ coll \in Collection /\ lost \in BOOLEAN /\ faults \in 0..MaxFaults
      /\ unsent \subseteq Preparations
      /\ deployment \in [Preparations -> SUBSET Bases]
      /\ deployer \in [Deployers -> DeployerTypes] /\ call \in [Calls -> CallTypes]
      /\ worker \in [Workers -> WorkerTypes] /\ request \in [Preparations -> RequestTypes]
      /\ queue \subseteq Txs /\ rows \subseteq Txs /\ missed \subseteq Txs
      /\ paid \subseteq Calls \cup {Uuid} /\ refunded \subseteq paid
      /\ kind \in [Calls -> Kinds]
      /\ chain \in [Txs -> {"none", "pending", "confirmed", "failed"}]
      /\ recorded \in [Txs -> {"none", "pending", "confirmed", "failed"}]
  BY DEF TypeOK, MetadataTypeOK, RequestTypes, DeployerTypes, CallTypes, WorkerTypes
<1>2. CASE CreatePay
  BY <1>2, SharedTypes, Constants DEF CreatePay, TypeOK, MetadataTypeOK, DeployerTypes
<1>3. CASE CreateInsert
  BY <1>3, SharedTypes, Constants
     DEF CreateInsert, TypeOK, MetadataTypeOK, DeployerTypes, Collection
<1>4. CASE CreateFails
  BY <1>4, SharedTypes, Constants DEF CreateFails, TypeOK, MetadataTypeOK, DeployerTypes
<1>5. ASSUME NEW p \in Deployers, CreateTx(p)
      PROVE  TypeOK'
  <2> DEFINE t == CHOOSE u \in DeployTxs : chain[u] = "none"
  <2>1. /\ t \in DeployTxs /\ t \in Txs
        /\ chain' = [chain EXCEPT ![t] = "pending"]
        /\ deployer' = [deployer EXCEPT ![p].pc = "sent", ![p].tx = t]
    BY <1>5, Constants DEF CreateTx
  <2> HIDE DEF t
  <2>2. deployer' \in [Deployers -> DeployerTypes]
    BY <1>1, <2>1 DEF DeployerTypes
  <2>3. chain' \in [Txs -> {"none", "pending", "confirmed", "failed"}]
    BY <1>1, <2>1
  <2>4. QED BY <1>5, <2>2, <2>3 DEF CreateTx, TypeOK, MetadataTypeOK, DeployerTypes
<1>6. ASSUME NEW p \in Deployers, Commit(p)
      PROVE  TypeOK'
  <2> DEFINE row == [status |-> "DEPLOYING", address |-> Evm, bucket |-> p # Creator]
  <2>1. row \in Collection
    BY Constants DEF Collection
  <2>2. deployer[p].tx \in Txs
    BY <1>1, Constants DEF DeployerTypes
  <2>3. /\ rows' \subseteq Txs
        /\ recorded' \in [Txs -> {"none", "pending", "confirmed", "failed"}]
    BY <1>1, <1>6, <2>2 DEF Commit
  <2>4. /\ coll' \in Collection /\ lost' \in BOOLEAN
        /\ deployer' \in [Deployers -> DeployerTypes]
    <3>1. CASE p = Creator
      BY <1>1, <1>6, <2>1, <3>1, SharedTypes DEF Commit
    <3>2. CASE p # Creator
      BY <1>6, <2>1, <3>2, SharedTypes DEF Commit
    <3>3. QED BY <3>1, <3>2
  <2>5. /\ deployment' \in [Preparations -> SUBSET Bases]
        /\ faults' \in 0..MaxFaults /\ unsent' \subseteq Preparations
    BY <1>1, <1>6, SharedTypes DEF Commit, TakenAway
  <2>6. QED BY <1>6, <2>3, <2>4, <2>5 DEF Commit, TypeOK, MetadataTypeOK, DeployerTypes
<1>7. ASSUME NEW d \in Preparations, Request(d)
      PROVE  TypeOK'
  <2>1. request[d].seen \in Collection
    BY <1>1 DEF RequestTypes
  <2>2. CASE DeployCheck(d)
    BY <1>1, <2>2 DEF DeployCheck, At, TypeOK, MetadataTypeOK, RequestTypes
  <2>3. CASE DeployInit(d)
    <3> DEFINE row == [request[d].seen EXCEPT !.status = "DEPLOY_INITIATED"]
    <3>1. row \in Collection
      BY <2>1 DEF Collection
    <3>2. request' \in [Preparations -> RequestTypes]
      BY <1>1, <2>3, <3>1 DEF DeployInit, At, RequestTypes
    <3>3. coll' \in Collection /\ lost' \in BOOLEAN
      BY <2>3, <3>1, SharedTypes DEF DeployInit
    <3>4. QED BY <2>3, <3>2, <3>3 DEF DeployInit, TypeOK, MetadataTypeOK, RequestTypes
  <2>4. CASE DeployPrepare(d)
    <3>1. MetadataTypeOK'
      BY <2>4, MetadataStep DEF DeployPrepare, TypeOK
    <3>2. request' \in [Preparations -> RequestTypes]
      BY <1>1, <2>4 DEF DeployPrepare, RequestTypes
    <3>3. QED BY <2>4, <3>1, <3>2 DEF DeployPrepare, TypeOK, RequestTypes
  <2>5. CASE DeployAnswered(d)
    BY <1>1, <2>5, IdleTypes DEF DeployAnswered, TypeOK, MetadataTypeOK, RequestTypes
  <2>6. CASE PrepareFails(d)
    <3> DEFINE row == [request[d].seen EXCEPT !.status = "CREATED"]
    <3>1. row \in Collection
      BY <2>1 DEF Collection
    <3>2. request' \in [Preparations -> RequestTypes]
      BY <1>1, <2>6, IdleTypes DEF PrepareFails
    <3>3. /\ coll' \in Collection /\ lost' \in BOOLEAN
          /\ faults' \in 0..MaxFaults /\ unsent' = unsent
      BY <1>1, <2>6, <3>1, SharedTypes DEF PrepareFails
    <3>4. QED BY <2>6, <3>2, <3>3 DEF PrepareFails, TypeOK, MetadataTypeOK, RequestTypes
  <2>7. CASE DeployDies(d)
    BY <1>1, <2>7, IdleTypes, SharedTypes
       DEF DeployDies, TypeOK, MetadataTypeOK, RequestTypes
  <2>8. QED BY <1>7, <2>2, <2>3, <2>4, <2>5, <2>6, <2>7 DEF Request
<1>8. ASSUME NEW d \in Preparations, Deployment(d)
      PROVE  TypeOK'
  <2>1. deployer[d] \in DeployerTypes /\ deployer[d].seen \in Collection /\ d \in Deployers
    BY <1>1, Constants DEF DeployerTypes
  <2>2. CASE Read(d)
    <3>1. deployer' \in [Deployers -> DeployerTypes]
      BY <1>1, <2>1, <2>2 DEF Read, DeployerTypes
    <3>2. QED BY <2>2, <3>1 DEF Read, TypeOK, MetadataTypeOK, DeployerTypes
  <2>3. CASE Refuse(d)
    BY <1>1, <2>3 DEF Refuse, TypeOK, MetadataTypeOK
  <2>4. CASE Mark(d)
    <3> DEFINE row == [deployer[d].seen EXCEPT !.status = "DEPLOYING"]
    <3>1. row \in Collection
      BY <2>1 DEF Collection
    <3>2. deployer' \in [Deployers -> DeployerTypes]
      BY <1>1, <2>1, <2>4, <3>1 DEF Mark, DeployerTypes
    <3>3. coll' \in Collection /\ lost' \in BOOLEAN
      BY <2>4, <3>1, SharedTypes DEF Mark
    <3>4. QED BY <2>4, <3>2, <3>3 DEF Mark, TypeOK, MetadataTypeOK, DeployerTypes
  <2>5. CASE DeployFails(d)
    <3>1. \A a \in BOOLEAN :
            [deployer[d].seen EXCEPT !.status = "FAILED", !.address = a] \in Collection
      BY <2>1 DEF Collection
    <3>2. coll' \in Collection /\ lost' \in BOOLEAN
      <4>1. CASE UNCHANGED <<coll, lost>>
        BY <1>1, <4>1
      <4>2. CASE \E a \in BOOLEAN :
              Save(deployer[d].seen,
                   [deployer[d].seen EXCEPT !.status = "FAILED", !.address = a])
        BY <3>1, <4>2, SharedTypes
      <4>3. deployer[d].seen.address \in BOOLEAN
        BY <2>1 DEF Collection
      <4>4. QED BY <2>5, <4>1, <4>2, <4>3, Constants DEF DeployFails
    <3>3. /\ faults' \in 0..MaxFaults
          /\ deployer' \in [Deployers -> DeployerTypes]
      BY <1>1, <2>1, <2>5, SharedTypes DEF DeployFails
    <3>4. QED BY <2>5, <3>2, <3>3 DEF DeployFails, TypeOK, MetadataTypeOK, DeployerTypes
  <2>6. CASE RefundDeploy(d)
    <3>1. /\ deployment' \in [Preparations -> SUBSET Bases]
          /\ faults' \in 0..MaxFaults /\ unsent' \subseteq Preparations
      BY <1>1, <2>6, SharedTypes DEF RefundDeploy, TakenAway
    <3>2. QED
      BY <1>1, <2>1, <2>6, <3>1, SharedTypes
         DEF RefundDeploy, TypeOK, MetadataTypeOK, DeployerTypes
  <2>7. CASE DeployerDies(d)
    BY <1>1, <2>1, <2>7, SharedTypes DEF DeployerDies, TypeOK, MetadataTypeOK, DeployerTypes
  <2>8. QED BY <1>8, <2>2, <2>3, <2>4, <2>5, <2>6, <2>7 DEF Deployment
<1>9. CASE MetadataNext /\ UNCHANGED service
  BY <1>9, MetadataStep DEF MetadataNext, service, TypeOK
<1>10. ASSUME NEW c \in Calls, Invoke(c)
       PROVE  TypeOK'
  <2>1. call[c].seen \in Collection /\ c \in Txs
    BY <1>1, Constants DEF CallTypes
  <2>2. CASE Begin(c)
    <3>1. kind' \in [Calls -> Kinds] /\ call' \in [Calls -> CallTypes]
      BY <1>1, <2>2 DEF Begin, At, CallTypes
    <3>2. QED BY <2>2, <3>1 DEF Begin, TypeOK, MetadataTypeOK, CallTypes
  <2>3. CASE Pay(c)
    BY <1>1, <2>3, SharedTypes DEF Pay, TypeOK, MetadataTypeOK, CallTypes
  <2>4. CASE SendTx(c)
    BY <1>1, <2>1, <2>4, SharedTypes DEF SendTx, TypeOK, MetadataTypeOK, CallTypes
  <2>5. CASE StoreTx(c)
    BY <1>1, <2>1, <2>5, SharedTypes DEF StoreTx, TypeOK, MetadataTypeOK, CallTypes
  <2>6. CASE Update(c)
    BY <1>1, <2>1, <2>6, SharedTypes DEF Update, TypeOK, MetadataTypeOK, CallTypes
  <2>7. CASE CallFails(c)
    BY <1>1, <2>7, IdleTypes, SharedTypes DEF CallFails, TypeOK, MetadataTypeOK, CallTypes
  <2>8. CASE CallDies(c)
    BY <1>1, <2>8, IdleTypes, SharedTypes DEF CallDies, TypeOK, MetadataTypeOK, CallTypes
  <2>9. QED BY <1>10, <2>2, <2>3, <2>4, <2>5, <2>6, <2>7, <2>8 DEF Invoke
<1>11. ASSUME NEW t \in Txs, Settle(t) \/ Duplicate(t) \/ Miss(t)
       PROVE  TypeOK'
  <2>1. CASE Settle(t)
    BY <1>1, <2>1 DEF Settle, TypeOK, MetadataTypeOK
  <2>2. CASE Duplicate(t)
    BY <1>1, <2>2, SharedTypes DEF Duplicate, TypeOK, MetadataTypeOK
  <2>3. CASE Miss(t)
    BY <1>1, <2>3 DEF Miss, Acknowledge, TypeOK, MetadataTypeOK
  <2>4. QED BY <1>11, <2>1, <2>2, <2>3
<1>12. ASSUME NEW w \in Workers, Handle(w) \/ WorkerDies(w)
       PROVE  TypeOK'
  <2>1. worker[w].seen \in Collection
    BY <1>1 DEF WorkerTypes
  <2>2. CASE Apply(w)
    <3> DEFINE t == worker[w].tx
               row == IF Kind(t) = "deploy"
                      THEN [worker[w].seen EXCEPT !.status = "DEPLOYED",
                                                  !.address = @ \/ ~ Evm]
                      ELSE [worker[w].seen EXCEPT !.status = "TRANSFERED"]
    <3>1. row \in Collection
      BY <2>1, Constants DEF Collection
    <3>2. Save(worker[w].seen, row) /\ Finish(w) /\ Acknowledge(t)
      BY <2>2 DEF Apply
    <3>3. coll' \in Collection /\ lost' \in BOOLEAN /\ worker' \in [Workers -> WorkerTypes]
      BY <3>1, <3>2, SharedTypes
    <3>4. QED BY <1>1, <2>2, <3>3 DEF Apply, Acknowledge, TypeOK, MetadataTypeOK, WorkerTypes
  <2>3. CASE Leave(w)
    BY <1>1, <2>3, SharedTypes DEF Leave, Acknowledge, TypeOK, MetadataTypeOK, WorkerTypes
  <2>4. CASE RefundFailed(w)
    BY <1>1, <2>4, SharedTypes
       DEF RefundFailed, Acknowledge, TypeOK, MetadataTypeOK, WorkerTypes
  <2>5. ASSUME NEW t \in Txs, Record(w, t)
        PROVE  TypeOK'
    BY <1>1, <2>5 DEF Record, TypeOK, MetadataTypeOK, WorkerTypes
  <2>6. CASE WorkerDies(w)
    BY <1>1, <2>6, SharedTypes DEF WorkerDies, TypeOK, MetadataTypeOK, WorkerTypes
  <2>7. QED BY <1>12, <2>2, <2>3, <2>4, <2>5, <2>6 DEF Handle
<1>13. CASE UNCHANGED vars
  BY <1>13 DEF vars, TypeOK, MetadataTypeOK
<1>14. QED
  BY <1>2, <1>3, <1>4, <1>5, <1>6, <1>7, <1>8, <1>9, <1>10, <1>11, <1>12, <1>13, NextCases

(* The types hold in every reachable state: in particular a reference is   *)
(* only refunded that was paid.                                            *)
THEOREM TypeCorrect == Spec => []TypeOK
<1>1. QED BY TypeInit, TypeStep, PTL DEF Spec

-----------------------------------------------------------------------------
(* The CID of the metadata.  Until a message is run once more after its    *)
(* run has saved a step, at most one message of a preparation is unused;   *)
(* when the metadata is to be published that one carries the CID, or the   *)
(* run that has the CID has no other message beside it.                    *)
CidInv(d) ==
    \/ d \in again
    \/ /\ "undefined" \notin deployment[d]
       /\ \A m, n \in message[d] : m.used \/ n.used \/ m = n
       /\ step[d] = "none" => message[d] = {} /\ runner[d].pc = "idle"
       /\ runner[d].pc = "saved" => /\ \A m \in message[d] : m.used
                                    /\ step[d] = "publish" => runner[d].cid
       /\ runner[d].pc = "moved" => /\ step[d] = "metadata"
                                    /\ runner[d].msg \in message[d]
                                    /\ ~ runner[d].msg.used
       /\ runner[d].pc = "idle" /\ step[d] = "publish" =>
            \A m \in message[d] : m.used \/ m.cid

BaseUriInv == \A d \in Preparations : CidInv(d)

(* Which steps touch the pipeline; of the messages that deploy a           *)
(* collection the others only take some away.                              *)
LEMMA PipelineSteps ==
    ASSUME TypeOK, [Next]_vars
    PROVE  \/ \E d \in Preparations : Prepare(d) \/ PipelineStep(d) \/ RunDies(d)
           \/ /\ UNCHANGED uploads
              /\ \A d \in Preparations : deployment'[d] \subseteq deployment[d]
<1> DEFINE Rest == /\ UNCHANGED uploads
                   /\ \A d \in Preparations : deployment'[d] \subseteq deployment[d]
<1>1. deployment \in [Preparations -> SUBSET Bases]
  BY DEF TypeOK, MetadataTypeOK
<1>2. UNCHANGED pipeline => Rest
  BY DEF pipeline
<1>3. ASSUME NEW p \in Deployers, CreateTx(p) \/ Commit(p)
      PROVE  Rest
  <2>1. CASE CreateTx(p)
    BY <2>1 DEF CreateTx, requests, pipeline
  <2>2. CASE Commit(p)
    BY <1>1, <2>2 DEF Commit, TakenAway
  <2>3. QED BY <1>3, <2>1, <2>2
<1>4. ASSUME NEW d \in Preparations, Deployment(d)
      PROVE  Rest
  <2>1. CASE Refuse(d) \/ RefundDeploy(d)
    BY <1>1, <2>1 DEF Refuse, RefundDeploy, TakenAway
  <2>2. CASE Read(d) \/ Mark(d) \/ DeployFails(d) \/ DeployerDies(d)
    BY <2>2 DEF Read, Mark, DeployFails, DeployerDies, requests, pipeline
  <2>3. QED BY <1>4, <2>1, <2>2 DEF Deployment
<1>5. ASSUME NEW d \in Preparations, Request(d)
      PROVE  Prepare(d) \/ UNCHANGED pipeline
  BY <1>5 DEF Request, DeployCheck, DeployInit, DeployPrepare, DeployAnswered,
       PrepareFails, DeployDies, requests
<1>6. ASSUME CreatePay \/ CreateInsert \/ CreateFails \/ UNCHANGED vars
      PROVE  UNCHANGED pipeline
  BY <1>6 DEF CreatePay, CreateInsert, CreateFails, vars, requests
<1>7. ASSUME NEW c \in Calls, Invoke(c)
      PROVE  UNCHANGED pipeline
  BY <1>7 DEF Invoke, Begin, Pay, SendTx, StoreTx, Update, CallFails, CallDies, requests
<1>8. ASSUME NEW t \in Txs, Settle(t) \/ Duplicate(t) \/ Miss(t)
      PROVE  UNCHANGED pipeline
  BY <1>8 DEF Settle, Duplicate, Miss, requests
<1>9. ASSUME NEW w \in Workers, Handle(w) \/ WorkerDies(w)
      PROVE  UNCHANGED pipeline
  BY <1>9 DEF Handle, Apply, Leave, RefundFailed, Record, WorkerDies, requests
<1> HIDE DEF Rest
<1>10. \/ \E d \in Preparations : Prepare(d) \/ PipelineStep(d) \/ RunDies(d)
       \/ Rest
  BY <1>2, <1>3, <1>4, <1>5, <1>6, <1>7, <1>8, <1>9, NextCases DEF MetadataNext
<1>11. QED BY <1>10 DEF Rest

(* A step of one preparation leaves the others alone. *)
LEMMA PipelineFrame ==
    ASSUME MetadataTypeOK, NEW d \in Preparations, NEW e \in Preparations, e # d,
           Prepare(d) \/ PipelineStep(d) \/ RunDies(d)
    PROVE  /\ step'[e] = step[e] /\ message'[e] = message[e]
           /\ runner'[e] = runner[e] /\ deployment'[e] = deployment[e]
           /\ e \in again => e \in again'
<1>1. /\ step \in [Preparations -> Steps] /\ message \in [Preparations -> SUBSET Message]
      /\ runner \in [Preparations -> Run] /\ deployment \in [Preparations -> SUBSET Bases]
  BY DEF MetadataTypeOK
<1>2. CASE Prepare(d) \/ SendNext(d) \/ RunDies(d) \/ Ignore(d)
  BY <1>1, <1>2 DEF Prepare, SendNext, RunDies, Ignore, Sent
<1>3. CASE SaveStep(d) \/ SaveTransfer(d)
  BY <1>1, <1>3 DEF SaveStep, SaveTransfer, Advance, Starts
<1>4. CASE Transfer(d)
  BY <1>1, <1>4 DEF Transfer, Starts
<1>5. CASE Publish(d)
  BY <1>1, <1>5 DEF Publish, Starts
<1>6. QED BY <1>2, <1>3, <1>4, <1>5 DEF PipelineStep

(* What a run that saves leaves: its message used, like all the others. *)
LEMMA Advanced ==
    ASSUME MetadataTypeOK, NEW d \in Preparations,
           NEW at \in {"images", "jsons", "metadata"},
           NEW m \in message[d], ~ m.used, Advance(d, at, m),
           \A k, n \in message[d] : k.used \/ n.used \/ k = n
    PROVE  /\ \A k \in message'[d] : k.used
           /\ runner'[d].pc = "saved" /\ step'[d] = After[at]
           /\ at = "metadata" => runner'[d].cid
<1>1. /\ step \in [Preparations -> Steps] /\ message \in [Preparations -> SUBSET Message]
      /\ runner \in [Preparations -> Run] /\ m \in Message
  BY DEF MetadataTypeOK
<1>2. /\ message'[d] = (message[d] \ {m}) \cup {[m EXCEPT !.used = TRUE]}
      /\ runner'[d] = [pc |-> "saved", msg |-> [m EXCEPT !.used = TRUE],
                       cid |-> at = "metadata"]
      /\ step'[d] = After[at]
  BY <1>1 DEF Advance
<1>3. [m EXCEPT !.used = TRUE].used
  BY <1>1 DEF Message
<1>4. \A k \in message[d] \ {m} : k.used
  OBVIOUS
<1>5. ASSUME NEW k \in message'[d]
      PROVE  k.used
  <2>1. k \in message[d] \ {m} \/ k = [m EXCEPT !.used = TRUE]
    BY <1>2
  <2>2. QED BY <1>3, <1>4, <2>1, Zenon
<1>6. runner'[d].pc = "saved" /\ step'[d] = After[at]
  BY <1>2
<1>7. ASSUME at = "metadata" PROVE runner'[d].cid
  <2>1. runner'[d].cid = (at = "metadata")
    BY <1>2
  <2>2. QED BY <1>7, <2>1
<1>8. QED BY <1>5, <1>6, <1>7

LEMMA BaseUriStep == TypeOK /\ BaseUriInv /\ [Next]_vars => BaseUriInv'
<1> SUFFICES ASSUME TypeOK, BaseUriInv, [Next]_vars PROVE BaseUriInv'
  OBVIOUS
<1>1. /\ step \in [Preparations -> Steps] /\ message \in [Preparations -> SUBSET Message]
      /\ runner \in [Preparations -> Run] /\ deployment \in [Preparations -> SUBSET Bases]
      /\ MetadataTypeOK
  BY DEF TypeOK, MetadataTypeOK
<1>2. ASSUME NEW d \in Preparations,
             Prepare(d) \/ PipelineStep(d) \/ RunDies(d)
      PROVE  BaseUriInv'
  <2>1. \A e \in Preparations : e # d => CidInv(e)'
    BY <1>1, <1>2, PipelineFrame DEF BaseUriInv, CidInv
  <2>2. CidInv(d)
    BY DEF BaseUriInv
  <2> SUFFICES ASSUME d \notin again' PROVE CidInv(d)'
    BY <2>1 DEF BaseUriInv, CidInv
  <2>3. d \notin again
    BY <1>2 DEF Prepare, PipelineStep, SaveStep, Transfer, SaveTransfer, SendNext,
         Publish, RunDies, Ignore, Starts
  <2>4. \A at : \A m \in message[d] : Starts(d, at, m) =>
          ~ m.used /\ step[d] = at /\ runner[d].pc = "idle"
    BY DEF Starts
  <2>5. CASE Prepare(d)
    <3>1. /\ step[d] = "none" /\ step'[d] = "images" /\ message'[d] \subseteq {First}
          /\ runner' = runner /\ deployment' = deployment
      BY <1>1, <2>5 DEF Prepare, Sent
    <3>2. QED BY <2>2, <2>3, <3>1 DEF CidInv
  <2>6. CASE SaveStep(d)
    <3>1. PICK at \in {"images", "jsons"}, m \in message[d] :
            Starts(d, at, m) /\ Advance(d, at, m)
      BY <2>6 DEF SaveStep
    <3>2. /\ \A k \in message'[d] : k.used
          /\ runner'[d].pc = "saved" /\ step'[d] = After[at]
      BY <1>1, <2>2, <2>3, <2>4, <3>1, Advanced DEF CidInv
    <3>3. step'[d] \in {"jsons", "metadata"} /\ deployment' = deployment
      BY <2>6, <3>2 DEF After, SaveStep
    <3>4. QED BY <2>2, <2>3, <3>2, <3>3 DEF CidInv
  <2>7. CASE Transfer(d)
    <3>1. PICK m \in message[d] :
            /\ Starts(d, "metadata", m)
            /\ runner' = [runner EXCEPT ![d] = [NoRun EXCEPT !.pc = "moved", !.msg = m]]
      BY <2>7 DEF Transfer
    <3>2. runner'[d].pc = "moved" /\ runner'[d].msg = m
      BY <1>1, <3>1 DEF NoRun
    <3>3. UNCHANGED <<step, message, deployment>>
      BY <2>7 DEF Transfer
    <3>4. QED BY <2>2, <2>3, <2>4, <3>1, <3>2, <3>3 DEF CidInv
  <2>8. CASE SaveTransfer(d)
    <3>1. runner[d].pc = "moved" /\ Advance(d, "metadata", runner[d].msg)
      BY <2>8 DEF SaveTransfer
    <3>2. /\ \A k \in message'[d] : k.used
          /\ runner'[d].pc = "saved" /\ step'[d] = After["metadata"] /\ runner'[d].cid
      BY <1>1, <2>2, <2>3, <3>1, Advanced DEF CidInv
    <3>3. step'[d] = "publish" /\ deployment' = deployment
      BY <2>8, <3>2 DEF After, SaveTransfer
    <3>4. QED BY <2>2, <2>3, <3>2, <3>3 DEF CidInv
  <2>9. CASE SendNext(d) \/ (RunDies(d) /\ runner[d].pc = "saved")
    <3>1. /\ runner[d].pc = "saved" /\ runner'[d].pc = "idle" /\ step' = step
          /\ deployment' = deployment
          /\ message'[d] \subseteq message[d] \cup {NextMessage(runner[d])}
      BY <1>1, <2>9 DEF SendNext, RunDies, Sent, NoRun
    <3>2. /\ \A m \in message[d] : m.used
          /\ step[d] = "publish" => runner[d].cid
      BY <2>2, <2>3, <3>1 DEF CidInv
    <3>3. runner[d].cid => NextMessage(runner[d]).cid
      BY DEF NextMessage
    <3>4. \A m \in message'[d] : m.used \/ m = NextMessage(runner[d])
      BY <3>1, <3>2
    <3>5. step'[d] = "publish" => \A m \in message'[d] : m.used \/ m.cid
      BY <3>1, <3>2, <3>3, <3>4
    <3>6. "undefined" \notin deployment'[d] /\ step[d] # "none"
      BY <2>2, <2>3, <3>1 DEF CidInv
    <3>7. QED BY <3>1, <3>4, <3>5, <3>6 DEF CidInv
  <2>10. CASE RunDies(d) /\ runner[d].pc # "saved"
    <3>1. /\ runner[d].pc = "moved" /\ runner'[d].pc = "idle"
          /\ UNCHANGED <<step, message, deployment>>
      BY <1>1, <2>10 DEF RunDies, NoRun, Run
    <3>2. QED BY <2>2, <2>3, <3>1 DEF CidInv
  <2>11. CASE Publish(d)
    <3>1. PICK m \in message[d] :
            /\ Starts(d, "publish", m)
            /\ deployment' \in {deployment, [deployment EXCEPT ![d] = @ \cup {BaseUri(m)}]}
            /\ message' \in {message, [message EXCEPT ![d] = @ \ {m}]}
            /\ step' \in {step, [step EXCEPT ![d] = "prepared"]}
      BY <2>11 DEF Publish
    <3>2. ~ m.used /\ step[d] = "publish" /\ runner[d].pc = "idle" /\ runner' = runner
      BY <2>4, <2>11, <3>1 DEF Publish
    <3>3. m.cid
      BY <2>2, <2>3, <3>2 DEF CidInv
    <3>4. BaseUri(m) = "known"
      BY <3>3 DEF BaseUri
    <3>5. "undefined" \notin deployment'[d]
      BY <1>1, <2>2, <2>3, <3>1, <3>4 DEF CidInv
    <3>6. message'[d] \subseteq message[d] /\ step'[d] \in {"publish", "prepared"}
      BY <1>1, <3>1, <3>2
    <3>7. QED BY <2>2, <2>3, <3>2, <3>5, <3>6 DEF CidInv
  <2>12. CASE Ignore(d)
    <3>1. /\ message'[d] = {} /\ runner'[d].pc = "idle" /\ step'[d] = "prepared"
          /\ deployment' = deployment
      BY <1>1, <2>12 DEF Ignore
    <3>2. "undefined" \notin deployment'[d]
      BY <2>2, <2>3, <3>1 DEF CidInv
    <3>3. QED BY <3>1, <3>2 DEF CidInv
  <2>13. CASE RunDies(d)
    BY <2>9, <2>10, <2>13
  <2>14. CASE SendNext(d)
    BY <2>9, <2>14
  <2>15. QED
    BY <1>2, <2>13, <2>14, <2>5, <2>6, <2>7, <2>8, <2>11, <2>12 DEF PipelineStep
<1>3. ASSUME UNCHANGED uploads,
             \A d \in Preparations : deployment'[d] \subseteq deployment[d]
      PROVE  BaseUriInv'
  BY <1>3 DEF BaseUriInv, CidInv, uploads
<1>4. QED BY <1>2, <1>3, PipelineSteps

(* Whatever fails and dies, and however often messages come before a run   *)
(* of theirs has saved its step: a collection is sent to be deployed       *)
(* without the CID only if a message was run once more after that.         *)
THEOREM BaseUriHolds == Spec => []BaseUriKnown
<1>1. Init => BaseUriInv
  BY DEF Init, MetadataInit, BaseUriInv, CidInv, NoRun
<1>2. BaseUriInv => BaseUriKnown
  BY DEF BaseUriInv, BaseUriKnown, CidInv
<1>3. QED BY <1>1, <1>2, BaseUriStep, TypeCorrect, PTL DEF Spec

-----------------------------------------------------------------------------
(* What there is on the chain: nothing of a call before it is sent, and    *)
(* something of all that is stored.                                        *)
ChainInv ==
    /\ \A c \in Calls : call[c].pc \in {"idle", "checked", "paid"} => chain[c] = "none"
    /\ \A c \in Calls : call[c].pc = "sent" => chain[c] # "none"
    /\ \A t \in rows : chain[t] # "none"
    /\ \A p \in Deployers : deployer[p].pc = "sent" => chain[deployer[p].tx] # "none"

(* Outcomes are final, and so is what a call is once it was sent. *)
Growth ==
    /\ \A t \in Txs : chain'[t] # chain[t] =>
         \/ chain[t] = "none" /\ chain'[t] = "pending"
         \/ chain[t] = "pending" /\ chain'[t] \in {"confirmed", "failed"}
    /\ \A c \in Calls : chain[c] # "none" => kind'[c] = kind[c]

LEMMA ChainStep ==
    ASSUME TypeOK, ChainInv, [Next]_vars
    PROVE  ChainInv' /\ Growth
<1> USE DEF requests, books, inbox, credits, api
<1>1. /\ chain \in [Txs -> {"none", "pending", "confirmed", "failed"}]
      /\ kind \in [Calls -> Kinds]
      /\ deployer \in [Deployers -> DeployerTypes] /\ call \in [Calls -> CallTypes]
      /\ rows \subseteq Txs
  BY DEF TypeOK, DeployerTypes, CallTypes
<1>2. \A p \in Deployers :
        \A l \in {"idle", "paid", "done", "failed"} :
          Goto(p, l) => \A q \in Deployers :
            deployer'[q].pc = "sent" => deployer'[q] = deployer[q]
  BY <1>1, IdleTypes DEF Goto, DeployerTypes, Idle
<1>3. CASE CreatePay \/ CreateInsert \/ CreateFails
  BY <1>1, <1>2, <1>3, Constants
     DEF CreatePay, CreateInsert, CreateFails, ChainInv, Growth
<1>4. ASSUME NEW p \in Deployers, CreateTx(p)
      PROVE  ChainInv' /\ Growth
  <2> DEFINE t == CHOOSE u \in DeployTxs : chain[u] = "none"
  <2>1. /\ t \in DeployTxs /\ t \in Txs /\ t \notin Calls /\ chain[t] = "none"
        /\ chain' = [chain EXCEPT ![t] = "pending"]
        /\ deployer' = [deployer EXCEPT ![p].pc = "sent", ![p].tx = t]
        /\ UNCHANGED <<call, kind, rows>>
    BY <1>4, Constants DEF CreateTx
  <2> HIDE DEF t
  <2>2. /\ chain'[t] = "pending" /\ \A u \in Txs : u # t => chain'[u] = chain[u]
        /\ deployer'[p].tx = t
        /\ \A q \in Deployers : q # p => deployer'[q] = deployer[q]
    BY <1>1, <2>1 DEF DeployerTypes
  <2>3. Growth
    BY <2>1, <2>2 DEF Growth
  <2>4. \A q \in Deployers : deployer[q].tx \in Txs
    BY <1>1, Constants DEF DeployerTypes
  <2>5. ChainInv'
    BY <1>1, <2>1, <2>2, <2>4, Constants DEF ChainInv
  <2>6. QED BY <2>3, <2>5
<1>5. ASSUME NEW p \in Deployers, Commit(p)
      PROVE  ChainInv' /\ Growth
  <2>1. Goto(p, "done") \/ Goto(p, "idle")
    BY <1>5 DEF Commit
  <2>2. \A q \in Deployers : deployer'[q].pc = "sent" => deployer'[q] = deployer[q]
    BY <1>2, <2>1
  <2>3. QED BY <1>1, <1>5, <2>2 DEF Commit, ChainInv, Growth
<1>6. ASSUME NEW d \in Preparations, Request(d)
      PROVE  ChainInv' /\ Growth
  BY <1>6 DEF Request, DeployCheck, DeployInit, DeployPrepare, DeployAnswered,
       PrepareFails, DeployDies, ChainInv, Growth
<1>7. ASSUME NEW d \in Preparations, Deployment(d)
      PROVE  ChainInv' /\ Growth
  <2>1. UNCHANGED <<chain, call, kind, rows>>
    BY <1>7 DEF Deployment, Read, Refuse, Mark, DeployFails, RefundDeploy, DeployerDies
  <2>2. d \in Deployers
    BY Constants
  <2>3. \A q \in Deployers : deployer'[q].pc = "sent" => deployer'[q] = deployer[q]
    BY <1>1, <1>2, <1>7, <2>2
       DEF Deployment, Read, Refuse, Mark, DeployFails, RefundDeploy, DeployerDies,
           DeployerTypes
  <2>4. QED BY <2>1, <2>3 DEF ChainInv, Growth
<1>8. CASE MetadataNext /\ UNCHANGED service
  BY <1>8 DEF service, ChainInv, Growth
<1>9. ASSUME NEW c \in Calls, Invoke(c)
      PROVE  ChainInv' /\ Growth
  <2>1. UNCHANGED deployer
    BY <1>9 DEF Invoke, Begin, Pay, SendTx, StoreTx, Update, CallFails, CallDies
  <2>2. \A u \in Calls : u # c => call'[u] = call[u] /\ kind'[u] = kind[u]
    BY <1>1, <1>9 DEF Invoke, Begin, Pay, SendTx, StoreTx, Update, CallFails, CallDies,
         Step
  <2>3. \/ /\ UNCHANGED <<chain, rows>>
           /\ \/ call'[c].pc = "checked" /\ call[c].pc = "idle"
              \/ call'[c].pc = "updating" /\ call[c].pc = "idle"
              \/ call'[c].pc = "paid" /\ call[c].pc = "checked" /\ UNCHANGED kind
              \/ call'[c].pc = "done" /\ UNCHANGED kind
        \/ /\ call[c].pc = "paid" /\ call'[c].pc = "sent" /\ UNCHANGED <<rows, kind>>
           /\ chain' = [chain EXCEPT ![c] = "pending"]
        \/ /\ call[c].pc = "sent" /\ call'[c].pc \in {"updating", "done"}
           /\ rows' = rows \cup {c} /\ UNCHANGED <<chain, kind>>
    BY <1>1, <1>9 DEF Invoke, Begin, Pay, SendTx, StoreTx, Update, CallFails, CallDies,
         Step, At, CallTypes
  <2>4. \A p \in Deployers : deployer[p].tx \in DeployTxs
    BY <1>1 DEF DeployerTypes
  <2>5. Growth
    BY <1>1, <2>2, <2>3, Constants DEF Growth, ChainInv
  <2>6. ChainInv'
    BY <1>1, <2>1, <2>2, <2>3, <2>4, Constants DEF ChainInv
  <2>7. QED BY <2>5, <2>6
<1>10. ASSUME NEW t \in Txs, Settle(t) \/ Duplicate(t) \/ Miss(t)
       PROVE  ChainInv' /\ Growth
  <2>1. CASE Settle(t)
    <3>1. PICK outcome \in {"confirmed", "failed"} :
            chain' = [chain EXCEPT ![t] = outcome]
      BY <2>1 DEF Settle
    <3>2. /\ chain[t] = "pending" /\ chain'[t] = outcome
          /\ \A u \in Txs : u # t => chain'[u] = chain[u]
          /\ UNCHANGED <<call, kind, rows, deployer>>
      BY <1>1, <2>1, <3>1 DEF Settle
    <3>3. \A p \in Deployers : deployer[p].tx \in Txs
      BY <1>1, Constants DEF DeployerTypes
    <3>4. QED BY <1>1, <3>2, <3>3, Constants DEF ChainInv, Growth
  <2>2. CASE Duplicate(t) \/ Miss(t)
    BY <2>2 DEF Duplicate, Miss, ChainInv, Growth
  <2>3. QED BY <1>10, <2>1, <2>2
<1>11. ASSUME NEW w \in Workers, Handle(w) \/ WorkerDies(w)
       PROVE  ChainInv' /\ Growth
  BY <1>11 DEF Handle, Apply, Leave, RefundFailed, Record, WorkerDies, ChainInv, Growth
<1>12. CASE UNCHANGED vars
  BY <1>12 DEF vars, ChainInv, Growth
<1>13. QED
  BY <1>3, <1>4, <1>5, <1>6, <1>7, <1>8, <1>9, <1>10, <1>11, <1>12, NextCases

-----------------------------------------------------------------------------
(* Backed, of any chain and any kinds of calls: what the proofs say of a   *)
(* row, stored or remembered, before and after a step.                     *)
Evidence(ch, kd, row) ==
    /\ row.status = "DEPLOYED" => \E t \in DeployTxs : ch[t] = "confirmed"
    /\ row.status = "TRANSFERED" =>
         \E c \in Calls : kd[c] = "transfer" /\ ch[c] = "confirmed"
    /\ row.address => IF Evm THEN \E t \in DeployTxs : ch[t] # "none"
                             ELSE \E t \in DeployTxs : ch[t] = "confirmed"

(* Every row is backed that is stored or that a lambda remembers. *)
SeenInv ==
    /\ Evidence(chain, kind, coll)
    /\ \A d \in Preparations : Evidence(chain, kind, request[d].seen)
    /\ \A p \in Deployers : Evidence(chain, kind, deployer[p].seen)
    /\ \A c \in Calls : Evidence(chain, kind, call[c].seen)
    /\ \A w \in Workers : Evidence(chain, kind, worker[w].seen)

(* Who has paid, or is about to, has seen an address. *)
Begun == \E t \in DeployTxs : chain[t] # "none"
PaidInv == \A c \in Calls : c \in paid \/ call[c].pc = "checked" => Begun

LEMMA EvidenceGrows ==
    ASSUME TypeOK, Growth
    PROVE  /\ \A row : Evidence(chain, kind, row) => Evidence(chain', kind', row)
           /\ Begun => Begun'
<1>1. DeployTxs \subseteq Txs /\ Calls \subseteq Txs
  BY Constants
<1>2. \A t \in Txs : /\ chain[t] # "none" => chain'[t] # "none"
                     /\ chain[t] = "confirmed" => chain'[t] = "confirmed"
  BY DEF Growth
<1>3. \A c \in Calls : kind[c] = "transfer" /\ chain[c] = "confirmed"
                         => kind'[c] = "transfer" /\ chain'[c] = "confirmed"
  BY <1>1, <1>2 DEF Growth
<1>4. QED BY <1>1, <1>2, <1>3 DEF Evidence, Begun

LEMMA EvidenceOf ==
    /\ \A ch, kd : Evidence(ch, kd, Missing)
    /\ \A ch, kd : \A row \in Collection :
         \A s \in {"CREATED", "DEPLOY_INITIATED", "DEPLOYING", "FAILED"} :
           Evidence(ch, kd, row) => Evidence(ch, kd, [row EXCEPT !.status = s])
<1>1. \A ch, kd : Evidence(ch, kd, Missing)
  BY Constants DEF Evidence
<1>2. ASSUME NEW ch, NEW kd, NEW row \in Collection,
             NEW s \in {"CREATED", "DEPLOY_INITIATED", "DEPLOYING", "FAILED"},
             Evidence(ch, kd, row)
      PROVE  Evidence(ch, kd, [row EXCEPT !.status = s])
  <2> DEFINE new == [row EXCEPT !.status = s]
  <2>1. new.status = s /\ new.address = row.address
    BY DEF Collection
  <2>2. QED BY <1>2, <2>1 DEF Evidence
<1>3. QED BY <1>1, <1>2

(* A step that makes no row of its own. *)
LEMMA SeenKept ==
    ASSUME TypeOK, SeenInv, Growth,
           coll' = coll,
           \A d \in Preparations : request'[d].seen \in {request[d].seen, coll, Missing},
           \A p \in Deployers : deployer'[p].seen \in {deployer[p].seen, coll, Missing},
           \A c \in Calls : call'[c].seen \in {call[c].seen, coll, Missing},
           \A w \in Workers : worker'[w].seen \in {worker[w].seen, coll, Missing}
    PROVE  SeenInv'
<1>1. \A row : Evidence(chain, kind, row) => Evidence(chain', kind', row)
  BY EvidenceGrows
<1>2. Evidence(chain', kind', Missing) /\ Evidence(chain', kind', coll)
  BY <1>1, EvidenceOf DEF SeenInv
<1>3. Evidence(chain', kind', coll')
  BY <1>2
<1>4. \A d \in Preparations : Evidence(chain', kind', request'[d].seen)
  BY <1>1, <1>2 DEF SeenInv
<1>5. \A p \in Deployers : Evidence(chain', kind', deployer'[p].seen)
  BY <1>1, <1>2 DEF SeenInv
<1>6. \A c \in Calls : Evidence(chain', kind', call'[c].seen)
  BY <1>1, <1>2 DEF SeenInv
<1>7. \A w \in Workers : Evidence(chain', kind', worker'[w].seen)
  BY <1>1, <1>2 DEF SeenInv
<1>8. QED BY <1>3, <1>4, <1>5, <1>6, <1>7 DEF SeenInv

(* A step that writes a row, which one lambda may go on to remember. *)
LEMMA SeenWritten ==
    ASSUME TypeOK, SeenInv, Growth, NEW row,
           Evidence(chain', kind', row),
           coll' \in {coll, row},
           \A d \in Preparations : request'[d].seen \in {request[d].seen, row, Missing},
           \A p \in Deployers : deployer'[p].seen \in {deployer[p].seen, row, Missing},
           \A c \in Calls : call'[c].seen \in {call[c].seen, Missing},
           \A w \in Workers : worker'[w].seen \in {worker[w].seen, Missing}
    PROVE  SeenInv'
<1>1. \A r : Evidence(chain, kind, r) => Evidence(chain', kind', r)
  BY EvidenceGrows
<1>2. Evidence(chain', kind', Missing)
  BY EvidenceOf
<1>3. Evidence(chain', kind', coll')
  BY <1>1 DEF SeenInv
<1>4. \A d \in Preparations : Evidence(chain', kind', request'[d].seen)
  BY <1>1, <1>2 DEF SeenInv
<1>5. \A p \in Deployers : Evidence(chain', kind', deployer'[p].seen)
  BY <1>1, <1>2 DEF SeenInv
<1>6. \A c \in Calls : Evidence(chain', kind', call'[c].seen)
  BY <1>1, <1>2 DEF SeenInv
<1>7. \A w \in Workers : Evidence(chain', kind', worker'[w].seen)
  BY <1>1, <1>2 DEF SeenInv
<1>8. QED BY <1>3, <1>4, <1>5, <1>6, <1>7 DEF SeenInv

LEMMA SeenStep ==
    ASSUME TypeOK, ChainInv, SeenInv, [Next]_vars
    PROVE  SeenInv'
<1> USE DEF requests, books, inbox, credits, api
<1>1. /\ Growth
      /\ \A row : Evidence(chain, kind, row) => Evidence(chain', kind', row)
  BY ChainStep, EvidenceGrows
<1>2. /\ deployer \in [Deployers -> DeployerTypes] /\ call \in [Calls -> CallTypes]
      /\ worker \in [Workers -> WorkerTypes] /\ request \in [Preparations -> RequestTypes]
  BY DEF TypeOK, DeployerTypes, CallTypes, WorkerTypes, RequestTypes
<1>3. \A p \in Deployers : \A l :
        Goto(p, l) => \A q \in Deployers : deployer'[q].seen \in {deployer[q].seen, Missing}
  BY <1>2, IdleTypes DEF Goto, DeployerTypes, Idle
<1>4. \A w \in Workers :
        Finish(w) => \A v \in Workers : worker'[v].seen \in {worker[v].seen, Missing}
  BY <1>2, IdleTypes DEF Finish
<1>5. CASE CreatePay \/ CreateFails
  BY <1>1, <1>3, <1>5, SeenKept, Constants DEF CreatePay, CreateFails
<1>6. CASE CreateInsert
  <2> DEFINE row == [status |-> "CREATED", address |-> FALSE, bucket |-> TRUE]
  <2>1. Evidence(chain', kind', row)
    BY DEF Evidence
  <2> HIDE DEF row
  <2>2. coll' = row /\ Goto(Creator, "done") /\ UNCHANGED <<request, call, worker>>
    BY <1>6 DEF CreateInsert, row
  <2>3. QED BY <1>1, <1>3, <2>1, <2>2, SeenWritten, Constants
<1>7. ASSUME NEW p \in Deployers, CreateTx(p)
      PROVE  SeenInv'
  <2>1. /\ \E t : deployer' = [deployer EXCEPT ![p].pc = "sent", ![p].tx = t]
        /\ UNCHANGED <<coll, request, call, worker>>
    BY <1>7 DEF CreateTx
  <2>2. \A q \in Deployers : deployer'[q].seen = deployer[q].seen
    BY <1>2, <2>1 DEF DeployerTypes
  <2>3. QED BY <1>1, <2>1, <2>2, SeenKept
<1>8. ASSUME NEW p \in Deployers, Commit(p)
      PROVE  SeenInv'
  <2> DEFINE row == [status |-> "DEPLOYING", address |-> Evm, bucket |-> p # Creator]
  <2>1. deployer[p].tx \in DeployTxs /\ chain[deployer[p].tx] # "none" /\ chain' = chain
    BY <1>2, <1>8 DEF DeployerTypes, ChainInv, Commit
  <2>2. Evidence(chain', kind', row)
    BY <2>1 DEF Evidence
  <2>3. coll' = row /\ UNCHANGED <<request, call, worker>>
    BY <1>8 DEF Commit, Save
  <2>4. \E l : Goto(p, l)
    BY <1>8 DEF Commit
  <2> HIDE DEF row
  <2>5. QED BY <1>1, <1>3, <2>2, <2>3, <2>4, SeenWritten
<1>9. ASSUME NEW d \in Preparations, Request(d)
      PROVE  SeenInv'
  <2>1. request[d].seen \in Collection /\ Evidence(chain', kind', request[d].seen)
    BY <1>1, <1>2 DEF RequestTypes, SeenInv
  <2>2. CASE DeployInit(d) \/ PrepareFails(d)
    <3>1. PICK s \in {"DEPLOY_INITIATED", "CREATED"} :
            /\ coll' = [request[d].seen EXCEPT !.status = s]
            /\ \E l : request' = [request EXCEPT ![d] =
                 At(l, IF s = "CREATED" THEN Missing
                       ELSE [request[d].seen EXCEPT !.status = s])]
      BY <2>2 DEF DeployInit, PrepareFails, Save
    <3> DEFINE row == [request[d].seen EXCEPT !.status = s]
    <3>2. Evidence(chain', kind', row)
      BY <2>1, EvidenceOf
    <3>3. \A e \in Preparations : request'[e].seen \in {request[e].seen, row, Missing}
      BY <1>2, <3>1 DEF RequestTypes, At
    <3>4. coll' = row /\ UNCHANGED <<deployer, call, worker>>
      BY <2>2, <3>1 DEF DeployInit, PrepareFails
    <3> HIDE DEF row
    <3>5. QED BY <1>1, <3>2, <3>3, <3>4, SeenWritten
  <2>3. CASE ~ (DeployInit(d) \/ PrepareFails(d))
    <3>1. \A e \in Preparations : request'[e].seen \in {request[e].seen, coll, Missing}
      BY <1>2, <1>9, <2>3 DEF Request, DeployCheck, DeployPrepare, DeployAnswered,
           DeployDies, At, RequestTypes
    <3>2. UNCHANGED <<coll, deployer, call, worker>>
      BY <1>9, <2>3 DEF Request, DeployCheck, DeployPrepare, DeployAnswered, DeployDies
    <3>3. QED BY <1>1, <3>1, <3>2, SeenKept
  <2>4. QED BY <2>2, <2>3
<1>10. ASSUME NEW d \in Preparations, Deployment(d)
       PROVE  SeenInv'
  <2>1. /\ d \in Deployers /\ deployer[d].seen \in Collection
        /\ Evidence(chain', kind', deployer[d].seen)
    BY <1>1, <1>2, Constants DEF DeployerTypes, SeenInv
  <2>2. UNCHANGED <<request, call, worker>>
    BY <1>10 DEF Deployment, Read, Refuse, Mark, DeployFails, RefundDeploy, DeployerDies
  <2>3. CASE Mark(d)
    <3> DEFINE row == [deployer[d].seen EXCEPT !.status = "DEPLOYING"]
    <3>1. Evidence(chain', kind', row)
      BY <2>1, EvidenceOf
    <3>2. /\ coll' = row
          /\ deployer' = [deployer EXCEPT ![d] = [@ EXCEPT !.pc = "marked", !.seen = row]]
      BY <2>3 DEF Mark, Save
    <3> HIDE DEF row
    <3>3. \A q \in Deployers : deployer'[q].seen \in {deployer[q].seen, row}
      BY <1>2, <3>2 DEF DeployerTypes
    <3>4. QED BY <1>1, <2>2, <3>1, <3>2, <3>3, SeenWritten
  <2>4. CASE DeployFails(d)
    <3>1. PICK a \in {deployer[d].seen.address}
                     \cup (IF deployer[d].pc = "sent" THEN {Evm} ELSE {}) :
            coll' \in {coll, [deployer[d].seen EXCEPT !.status = "FAILED", !.address = a]}
      BY <2>4 DEF DeployFails, Save
    <3> DEFINE row == [deployer[d].seen EXCEPT !.status = "FAILED", !.address = a]
    <3>2. Goto(d, "failed") /\ chain' = chain
      BY <2>4 DEF DeployFails
    <3>3. row.status = "FAILED" /\ row.address = a
      BY <2>1 DEF Collection
    <3>4. deployer[d].pc = "sent" => \E t \in DeployTxs : chain'[t] # "none"
      BY <1>2, <2>1, <3>2 DEF ChainInv, DeployerTypes
    <3>5. Evidence(chain', kind', row)
      BY <2>1, <3>1, <3>3, <3>4 DEF Evidence
    <3>6. coll' \in {coll, row}
      BY <3>1
    <3> HIDE DEF row
    <3>7. QED BY <1>1, <1>3, <2>1, <2>2, <3>2, <3>5, <3>6, SeenWritten
  <2>5. CASE ~ (Mark(d) \/ DeployFails(d))
    <3>1. /\ UNCHANGED coll
          /\ \/ \E l : Goto(d, l)
             \/ UNCHANGED deployer
             \/ deployer' = [deployer EXCEPT ![d] = [@ EXCEPT !.pc = "read", !.seen = coll]]
      BY <1>10, <2>5 DEF Deployment, Read, Refuse, RefundDeploy, DeployerDies
    <3>2. \A q \in Deployers : deployer'[q].seen \in {deployer[q].seen, coll, Missing}
      BY <1>2, <1>3, <2>1, <3>1 DEF DeployerTypes
    <3>3. QED BY <1>1, <2>2, <3>1, <3>2, SeenKept
  <2>6. QED BY <2>3, <2>4, <2>5
<1>11. CASE MetadataNext /\ UNCHANGED service
  BY <1>1, <1>11, SeenKept DEF service
<1>12. ASSUME NEW c \in Calls, Invoke(c)
       PROVE  SeenInv'
  <2>1. UNCHANGED <<request, deployer, worker>>
    BY <1>12 DEF Invoke, Begin, Pay, SendTx, StoreTx, Update, CallFails, CallDies
  <2>2. \A u \in Calls : call'[u].seen \in {call[u].seen, coll, Missing}
    BY <1>2, <1>12 DEF Invoke, Begin, Pay, SendTx, StoreTx, Update, CallFails, CallDies,
         Step, At, CallTypes
  <2>3. CASE Update(c)
    <3>1. Evidence(chain', kind', call[c].seen) /\ coll' = call[c].seen
      BY <1>1, <2>3 DEF Update, Save, SeenInv
    <3>2. \A u \in Calls : call'[u].seen \in {call[u].seen, Missing}
      BY <1>2, <2>3 DEF Update, Step, At, CallTypes
    <3>3. QED BY <1>1, <2>1, <3>1, <3>2, SeenWritten
  <2>4. CASE ~ Update(c)
    <3>1. UNCHANGED coll
      BY <1>12, <2>4 DEF Invoke, Begin, Pay, SendTx, StoreTx, CallFails, CallDies
    <3>2. QED BY <1>1, <2>1, <2>2, <3>1, SeenKept
  <2>5. QED BY <2>3, <2>4
<1>13. ASSUME NEW t \in Txs, Settle(t) \/ Duplicate(t) \/ Miss(t)
       PROVE  SeenInv'
  BY <1>1, <1>13, SeenKept DEF Settle, Duplicate, Miss
<1>14. ASSUME NEW w \in Workers, Handle(w) \/ WorkerDies(w)
       PROVE  SeenInv'
  <2>1. UNCHANGED <<request, deployer, call, chain, kind>>
    BY <1>14 DEF Handle, Apply, Leave, RefundFailed, Record, WorkerDies
  <2>2. CASE Apply(w)
    <3> DEFINE t == worker[w].tx
               seen == worker[w].seen
               row == IF Kind(t) = "deploy"
                      THEN [seen EXCEPT !.status = "DEPLOYED", !.address = @ \/ ~ Evm]
                      ELSE [seen EXCEPT !.status = "TRANSFERED"]
    <3>1. /\ chain[t] = "confirmed" /\ Kind(t) \in {"deploy", "transfer"}
          /\ t \in Txs /\ seen \in Collection /\ Evidence(chain, kind, seen)
      BY <1>2, <2>2 DEF Apply, WorkerTypes, SeenInv
    <3>2. coll' = row /\ Finish(w)
      BY <2>2 DEF Apply, Save
    <3>3. CASE Kind(t) = "deploy"
      <4>1. t \in DeployTxs
        BY <3>1, <3>3, Constants DEF Kind, Txs, TypeOK, Kinds
      <4>2. row.status = "DEPLOYED"
        BY <3>1, <3>3 DEF Collection
      <4>3. Evidence(chain, kind, row)
        BY <3>1, <4>1, <4>2 DEF Evidence
      <4> HIDE DEF row
      <4>4. QED BY <1>1, <1>4, <2>1, <3>2, <4>3, SeenWritten
    <3>4. CASE Kind(t) # "deploy"
      <4>1. t \in Calls /\ kind[t] = "transfer"
        BY <3>1, <3>4 DEF Kind, Txs
      <4>2. row.status = "TRANSFERED" /\ row.address = seen.address
        BY <3>1, <3>4 DEF Collection
      <4>3. Evidence(chain, kind, row)
        BY <3>1, <4>1, <4>2 DEF Evidence
      <4> HIDE DEF row
      <4>4. QED BY <1>1, <1>4, <2>1, <3>2, <4>3, SeenWritten
    <3>5. QED BY <3>3, <3>4
  <2>3. CASE ~ Apply(w)
    <3>1. UNCHANGED coll
      BY <1>14, <2>3 DEF Handle, Leave, RefundFailed, Record, WorkerDies
    <3>2. \A v \in Workers : worker'[v].seen \in {worker[v].seen, coll, Missing}
      BY <1>2, <1>4, <1>14, <2>3
         DEF Handle, Leave, RefundFailed, Record, WorkerDies, WorkerTypes
    <3>3. QED BY <1>1, <2>1, <3>1, <3>2, SeenKept
  <2>4. QED BY <2>2, <2>3
<1>15. CASE UNCHANGED vars
  BY <1>1, <1>15, SeenKept DEF vars
<1>16. QED
  BY <1>5, <1>6, <1>7, <1>8, <1>9, <1>10, <1>11, <1>12, <1>13, <1>14, <1>15, NextCases

LEMMA PaidStep ==
    ASSUME TypeOK, ChainInv, SeenInv, PaidInv, [Next]_vars
    PROVE  PaidInv'
<1> USE DEF requests, books, inbox, credits, api
<1>1. Begun => Begun'
  BY ChainStep, EvidenceGrows
<1>2. ASSUME NEW c \in Calls, Invoke(c)
      PROVE  PaidInv'
  <2>1. call \in [Calls -> CallTypes] /\ DeployTxs \subseteq Txs /\ Evm \in BOOLEAN
    BY Constants DEF TypeOK, CallTypes
  <2>2. CASE Begin(c)
    <3>1. /\ call'[c].pc = "checked" => coll.address
          /\ \A u \in Calls : u # c => call'[u] = call[u]
          /\ paid' = paid
      BY <2>1, <2>2 DEF Begin, At
    <3>2. coll.address => Begun
      BY <2>1 DEF SeenInv, Evidence, Begun
    <3>3. QED BY <1>1, <3>1, <3>2 DEF PaidInv
  <2>3. CASE ~ Begin(c)
    <3>1. /\ call'[c].pc # "checked"
          /\ \A u \in Calls : u # c => call'[u] = call[u]
          /\ \/ paid' = paid
             \/ paid' = paid \cup {c} /\ call[c].pc = "checked"
      <4>1. CASE Pay(c)
        BY <2>1, <4>1 DEF Pay, Step, CallTypes
      <4>2. CASE SendTx(c) \/ StoreTx(c) \/ Update(c)
        BY <2>1, <4>2 DEF SendTx, StoreTx, Update, Step, At, CallTypes
      <4>3. CASE CallFails(c) \/ CallDies(c)
        BY <2>1, <4>3 DEF CallFails, CallDies, At
      <4>4. QED BY <1>2, <2>3, <4>1, <4>2, <4>3 DEF Invoke
    <3>2. QED BY <1>1, <3>1 DEF PaidInv
  <2>4. QED BY <2>2, <2>3
<1>3. ASSUME UNCHANGED call, paid' \subseteq paid \cup {Uuid}
      PROVE  PaidInv'
  BY <1>1, <1>3, Constants DEF PaidInv
<1>4. CASE CreatePay \/ CreateInsert \/ CreateFails \/ UNCHANGED vars
  BY <1>3, <1>4 DEF CreatePay, CreateInsert, CreateFails, vars
<1>5. ASSUME NEW p \in Deployers, CreateTx(p) \/ Commit(p)
      PROVE  PaidInv'
  BY <1>3, <1>5 DEF CreateTx, Commit
<1>6. ASSUME NEW d \in Preparations, Request(d)
      PROVE  PaidInv'
  BY <1>3, <1>6 DEF Request, DeployCheck, DeployInit, DeployPrepare, DeployAnswered,
       PrepareFails, DeployDies
<1>7. ASSUME NEW d \in Preparations, Deployment(d)
      PROVE  PaidInv'
  BY <1>3, <1>7 DEF Deployment, Read, Refuse, Mark, DeployFails, RefundDeploy, DeployerDies
<1>8. CASE MetadataNext /\ UNCHANGED service
  BY <1>3, <1>8 DEF service
<1>9. ASSUME NEW t \in Txs, Settle(t) \/ Duplicate(t) \/ Miss(t)
      PROVE  PaidInv'
  BY <1>3, <1>9 DEF Settle, Duplicate, Miss
<1>10. ASSUME NEW w \in Workers, Handle(w) \/ WorkerDies(w)
       PROVE  PaidInv'
  BY <1>3, <1>10 DEF Handle, Apply, Leave, RefundFailed, Record, WorkerDies
<1>11. QED
  BY <1>2, <1>4, <1>5, <1>6, <1>7, <1>8, <1>9, <1>10, NextCases

LEMMA BackedInit == Init => ChainInv /\ SeenInv /\ PaidInv
<1> SUFFICES ASSUME Init PROVE ChainInv /\ SeenInv /\ PaidInv
  OBVIOUS
<1>1. ChainInv
  BY IdleTypes, Constants DEF Init, ChainInv, At
<1>2. SeenInv
  BY IdleTypes, EvidenceOf DEF Init, SeenInv, At
<1>3. PaidInv
  BY DEF Init, PaidInv, At
<1>4. QED BY <1>1, <1>2, <1>3

LEMMA ChainHolds == Spec => []ChainInv
<1>1. TypeOK /\ ChainInv /\ [Next]_vars => ChainInv'
  BY ChainStep
<1>2. QED BY <1>1, BackedInit, TypeCorrect, PTL DEF Spec

(* However stale the rows are that are written back, a collection never    *)
(* says more than the chain does, and nobody pays before there is an       *)
(* address.                                                                *)
THEOREM StatusHolds == Spec => []StatusBacked
<1>1. TypeOK /\ ChainInv /\ SeenInv /\ PaidInv /\ [Next]_vars => SeenInv' /\ PaidInv'
  BY SeenStep, PaidStep
<1>2. SeenInv /\ PaidInv => StatusBacked
  BY DEF SeenInv, PaidInv, Evidence, Begun, StatusBacked, Backed, Confirmed
<1>3. QED BY <1>1, <1>2, BackedInit, TypeCorrect, ChainHolds, PTL DEF Spec

-----------------------------------------------------------------------------
(* One deployment.  The statuses that keep DeployCollectionWorker away,    *)
(* the deployments that are stored and have not failed, and who is about   *)
(* to store one.                                                           *)
Deploying == {"DEPLOYING", "DEPLOYED"}
Stored == {t \in DeployTxs \cap rows : chain[t] # "failed"}
Busy(p) == deployer[p].pc \in {"marked", "sent"}

(* Before createCollection has ended there is nothing. *)
FreshInv ==
    deployer[Creator].pc # "done" =>
      /\ coll = Missing /\ rows = {}
      /\ \A d \in Preparations :
           /\ request[d].pc = "idle" /\ deployer[d].pc = "idle"
           /\ step[d] = "none" /\ runner[d].pc = "idle" /\ deployment[d] = {}
      /\ \A c \in Calls : call[c].pc = "idle"
      /\ \A w \in Workers : worker[w].pc = "idle"

(* What the row said that a lambda has read, or has written. *)
LabelInv ==
    /\ \A d \in Preparations :
         /\ request[d].pc = "checked" => request[d].seen.status \notin Deploying
         /\ request[d].pc \in {"initiated", "prepared"} =>
              request[d].seen.status = "DEPLOY_INITIATED"
    /\ \A p \in Preparations :
         deployer[p].pc = "read" => deployer[p].seen.status \notin Deploying

(* As long as no row was overwritten, who is about to store a deployment   *)
(* is alone, no other one is stored, and the status tells.                 *)
SingleInv ==
    \/ lost \/ Transferred
    \/ /\ \A t, u \in Stored : t = u
       /\ Stored # {} => coll.status \in Deploying
       /\ \A p \in Preparations : Busy(p) =>
            /\ Stored = {} /\ coll.status \in Deploying
            /\ \A q \in Preparations : Busy(q) => q = p

LEMMA LabelStep ==
    ASSUME TypeOK, LabelInv, [Next]_vars
    PROVE  LabelInv'
<1> USE DEF Deploying
<1>1. /\ deployer \in [Deployers -> DeployerTypes]
      /\ request \in [Preparations -> RequestTypes]
  BY DEF TypeOK, DeployerTypes, RequestTypes
<1>2. ASSUME UNCHANGED request,
             \A p \in Preparations : deployer'[p].pc = "read" => deployer'[p] = deployer[p]
      PROVE  LabelInv'
  BY <1>2 DEF LabelInv
<1>3. \A p \in Deployers : \A l \in {"idle", "paid", "done", "failed"} :
        Goto(p, l) => \A q \in Preparations :
          deployer'[q].pc = "read" => deployer'[q] = deployer[q]
  BY <1>1, IdleTypes, Constants DEF Goto, DeployerTypes, Idle
<1>4. CASE CreatePay \/ CreateInsert \/ CreateFails
  BY <1>2, <1>3, <1>4, Constants DEF CreatePay, CreateInsert, CreateFails, requests
<1>5. ASSUME NEW p \in Deployers, CreateTx(p)
      PROVE  LabelInv'
  <2>1. /\ \E t : deployer' = [deployer EXCEPT ![p].pc = "sent", ![p].tx = t]
        /\ UNCHANGED request
    BY <1>5 DEF CreateTx, requests
  <2>2. \A q \in Deployers : deployer'[q].pc = "read" => deployer'[q] = deployer[q]
    BY <1>1, <2>1 DEF DeployerTypes
  <2>3. QED BY <1>2, <2>1, <2>2, Constants
<1>6. ASSUME NEW p \in Deployers, Commit(p)
      PROVE  LabelInv'
  <2>1. (Goto(p, "done") \/ Goto(p, "idle")) /\ UNCHANGED request
    BY <1>6 DEF Commit
  <2>2. QED BY <1>2, <1>3, <2>1
<1>7. ASSUME NEW d \in Preparations, Request(d)
      PROVE  LabelInv'
  <2>1. UNCHANGED deployer
    BY <1>7 DEF Request, DeployCheck, DeployInit, DeployPrepare, DeployAnswered,
         PrepareFails, DeployDies
  <2>2. \A e \in Preparations : e # d => request'[e] = request[e]
    BY <1>1, <1>7 DEF Request, DeployCheck, DeployInit, DeployPrepare, DeployAnswered,
         PrepareFails, DeployDies
  <2>3. CASE DeployCheck(d)
    <3>1. request'[d].pc = "checked" /\ request'[d].seen.status \notin Deploying
      BY <1>1, <2>3 DEF DeployCheck, At
    <3>2. QED BY <2>1, <2>2, <3>1 DEF LabelInv
  <2>4. CASE DeployInit(d)
    <3>1. /\ request'[d].pc = "initiated"
          /\ request'[d].seen = [request[d].seen EXCEPT !.status = "DEPLOY_INITIATED"]
      BY <1>1, <2>4 DEF DeployInit, At
    <3>2. request'[d].seen.status = "DEPLOY_INITIATED"
      BY <1>1, <3>1 DEF RequestTypes, Collection
    <3>3. QED BY <2>1, <2>2, <3>1, <3>2 DEF LabelInv
  <2>5. CASE DeployPrepare(d)
    <3>1. /\ request[d].pc = "initiated" /\ request'[d].pc = "prepared"
          /\ request'[d].seen = request[d].seen
      BY <1>1, <2>5 DEF DeployPrepare, RequestTypes
    <3>2. QED BY <2>1, <2>2, <3>1 DEF LabelInv
  <2>6. CASE DeployAnswered(d) \/ PrepareFails(d) \/ DeployDies(d)
    <3>1. request'[d].pc \in {"done", "dead"}
      BY <1>1, <2>6 DEF DeployAnswered, PrepareFails, DeployDies, At
    <3>2. QED BY <2>1, <2>2, <3>1 DEF LabelInv
  <2>7. QED BY <1>7, <2>3, <2>4, <2>5, <2>6 DEF Request
<1>8. ASSUME NEW d \in Preparations, Deployment(d)
      PROVE  LabelInv'
  <2>1. UNCHANGED request /\ d \in Deployers
    BY <1>8, Constants
       DEF Deployment, Read, Refuse, Mark, DeployFails, RefundDeploy, DeployerDies, requests
  <2>2. CASE Read(d)
    <3>1. /\ deployer'[d].seen = coll /\ coll.status \notin Deploying
          /\ \A p \in Deployers : p # d => deployer'[p] = deployer[p]
      BY <1>1, <2>1, <2>2 DEF Read, DeployerTypes
    <3>2. QED BY <2>1, <3>1, Constants DEF LabelInv
  <2>3. CASE Mark(d)
    <3>1. \A p \in Deployers : deployer'[p].pc = "read" => deployer'[p] = deployer[p]
      BY <1>1, <2>1, <2>3 DEF Mark, DeployerTypes
    <3>2. QED BY <1>2, <2>1, <3>1, Constants
  <2>4. CASE ~ (Read(d) \/ Mark(d))
    <3>1. Goto(d, "idle") \/ Goto(d, "failed") \/ UNCHANGED deployer
      BY <1>8, <2>4 DEF Deployment, Refuse, DeployFails, RefundDeploy, DeployerDies
    <3>2. QED BY <1>2, <1>3, <2>1, <3>1
  <2>5. QED BY <2>2, <2>3, <2>4
<1>9. CASE (MetadataNext /\ UNCHANGED service) \/ UNCHANGED vars
  BY <1>2, <1>9 DEF service, vars, requests
<1>10. ASSUME NEW c \in Calls, Invoke(c)
       PROVE  LabelInv'
  BY <1>2, <1>10 DEF Invoke, Begin, Pay, SendTx, StoreTx, Update, CallFails, CallDies,
     requests
<1>11. ASSUME NEW t \in Txs, Settle(t) \/ Duplicate(t) \/ Miss(t)
       PROVE  LabelInv'
  BY <1>2, <1>11 DEF Settle, Duplicate, Miss, requests
<1>12. ASSUME NEW w \in Workers, Handle(w) \/ WorkerDies(w)
       PROVE  LabelInv'
  BY <1>2, <1>12 DEF Handle, Apply, Leave, RefundFailed, Record, WorkerDies, requests
<1>13. QED
  BY <1>4, <1>5, <1>6, <1>7, <1>8, <1>9, <1>10, <1>11, <1>12, NextCases

LEMMA FreshStep ==
    ASSUME TypeOK, FreshInv, [Next]_vars
    PROVE  FreshInv'
<1> USE DEF requests, pipeline, uploads, books, inbox, credits, api
<1>1. /\ deployer \in [Deployers -> DeployerTypes] /\ Creator \in Deployers
      /\ Preparations \subseteq Deployers /\ Creator \notin Preparations
      /\ runner \in [Preparations -> Run]
  BY Constants DEF TypeOK, MetadataTypeOK, DeployerTypes
<1>2. CASE CreatePay \/ CreateInsert \/ CreateFails
  <2>1. \A p \in Preparations : deployer'[p] = deployer[p]
    BY <1>1, <1>2 DEF CreatePay, CreateInsert, CreateFails, Goto
  <2>2. CreateInsert => deployer'[Creator].pc = "done"
    BY <1>1 DEF CreateInsert, Goto, DeployerTypes, Idle
  <2>3. CreatePay \/ CreateFails => UNCHANGED coll /\ deployer[Creator].pc # "done"
    BY DEF CreatePay, CreateFails
  <2>4. UNCHANGED <<request, pipeline, call, rows, worker>>
    BY <1>2 DEF CreatePay, CreateInsert, CreateFails
  <2>5. QED BY <1>2, <2>1, <2>2, <2>3, <2>4 DEF FreshInv
<1>3. ASSUME NEW p \in Deployers, CreateTx(p)
      PROVE  FreshInv'
  <2>1. /\ \E t : deployer' = [deployer EXCEPT ![p].pc = "sent", ![p].tx = t]
        /\ UNCHANGED <<coll, request, pipeline, call, rows, worker>>
    BY <1>3 DEF CreateTx
  <2>2. deployer[p].pc = IF p = Creator THEN "paid" ELSE "marked"
    BY <1>3 DEF CreateTx
  <2>3. \A q \in Deployers : q # p => deployer'[q] = deployer[q]
    BY <1>1, <2>1 DEF DeployerTypes
  <2>4. QED BY <1>1, <2>1, <2>2, <2>3 DEF FreshInv, Deployers
<1>4. ASSUME NEW p \in Deployers, Commit(p)
      PROVE  FreshInv'
  <2>1. deployer[p].pc = "sent"
    BY <1>4 DEF Commit
  <2>2. CASE p = Creator
    <3>1. deployer'[Creator].pc = "done"
      BY <1>1, <1>4, <2>2 DEF Commit, Goto, DeployerTypes, Idle
    <3>2. QED BY <3>1 DEF FreshInv
  <2>3. CASE p # Creator
    <3>1. p \in Preparations /\ deployer[Creator].pc = "done"
      BY <2>1, <2>3 DEF Deployers, FreshInv
    <3>2. deployer'[Creator].pc = "done"
      BY <1>1, <1>4, <2>3, <3>1 DEF Commit, Goto
    <3>3. QED BY <3>2 DEF FreshInv
  <2>4. QED BY <2>2, <2>3
<1>5. ASSUME NEW d \in Preparations, Request(d)
      PROVE  FreshInv'
  <2>1. UNCHANGED deployer
    BY <1>5 DEF Request, DeployCheck, DeployInit, DeployPrepare, DeployAnswered,
         PrepareFails, DeployDies
  <2>2. deployer[Creator].pc = "done"
    BY <1>5, Constants DEF Request, DeployCheck, DeployInit, DeployPrepare,
         DeployAnswered, PrepareFails, DeployDies, FreshInv
  <2>3. QED BY <2>1, <2>2 DEF FreshInv
<1>6. ASSUME NEW d \in Preparations, Deployment(d)
      PROVE  FreshInv'
  <2>1. deployer[Creator].pc = "done"
    BY <1>6 DEF Deployment, Read, Refuse, Mark, DeployFails, RefundDeploy, DeployerDies,
         FreshInv
  <2>2. deployer'[Creator] = deployer[Creator]
    BY <1>1, <1>6 DEF Deployment, Read, Refuse, Mark, DeployFails, RefundDeploy,
         DeployerDies, Goto
  <2>3. QED BY <2>1, <2>2 DEF FreshInv
<1>7. CASE MetadataNext /\ UNCHANGED service
  <2>1. deployer[Creator].pc = "done"
    <3>1. PICK d \in Preparations : PipelineStep(d) \/ RunDies(d)
      BY <1>7 DEF MetadataNext
    <3>2. step[d] # "none" \/ runner[d].pc # "idle"
      BY <3>1 DEF PipelineStep, SaveStep, Transfer, SaveTransfer, SendNext, RunDies,
           Publish, Ignore, Starts
    <3>3. QED BY <3>2 DEF FreshInv
  <2>2. QED BY <1>7, <2>1 DEF FreshInv, service
<1>8. ASSUME NEW c \in Calls, Invoke(c)
      PROVE  FreshInv'
  <2>1. deployer[Creator].pc = "done" /\ UNCHANGED deployer
    <3>1. CASE Begin(c)
      BY <3>1, Constants DEF Begin, FreshInv
    <3>2. CASE ~ Begin(c)
      BY <1>8, <3>2 DEF Invoke, Pay, SendTx, StoreTx, Update, CallFails, CallDies,
           Step, FreshInv
    <3>3. QED BY <3>1, <3>2
  <2>2. QED BY <2>1 DEF FreshInv
<1>9. ASSUME NEW t \in Txs, Settle(t) \/ Duplicate(t) \/ Miss(t)
      PROVE  FreshInv'
  BY <1>9 DEF Settle, Duplicate, Miss, FreshInv
<1>10. ASSUME NEW w \in Workers, Handle(w) \/ WorkerDies(w)
       PROVE  FreshInv'
  <2>1. deployer[Creator].pc = "done" /\ UNCHANGED deployer
    BY <1>10 DEF Handle, Apply, Leave, RefundFailed, Record, WorkerDies, FreshInv
  <2>2. QED BY <2>1 DEF FreshInv
<1>11. CASE UNCHANGED vars
  BY <1>11 DEF vars, FreshInv
<1>12. QED
  BY <1>2, <1>3, <1>4, <1>5, <1>6, <1>7, <1>8, <1>9, <1>10, <1>11, NextCases

(* Steps that write no row. *)
LEMMA SingleKept ==
    ASSUME SingleInv, TypeOK, Growth,
           coll' = coll, lost' = lost, Stored' \subseteq Stored,
           \A p \in Preparations : Busy(p)' => Busy(p)
    PROVE  SingleInv'
<1>1. Transferred => Transferred'
  BY Constants DEF Growth, Transferred, Confirmed
<1>2. QED BY <1>1 DEF SingleInv

(* Steps that write a row over the one that was read. *)
LEMMA SingleWritten ==
    ASSUME SingleInv, TypeOK, Growth, NEW base, NEW row, Save(base, row),
           Stored' \subseteq Stored,
           \A p \in Preparations : Busy(p)' => Busy(p),
           \/ row = base
           \/ row.status \in Deploying
           \/ base.status \notin Deploying
           \/ Stored = {} /\ \A p \in Preparations : ~ Busy(p)'
    PROVE  SingleInv'
<1>1. Transferred => Transferred'
  BY Constants DEF Growth, Transferred, Confirmed
<1>2. CASE lost' \/ Transferred'
  BY <1>2 DEF SingleInv
<1>3. CASE ~ lost' /\ ~ Transferred'
  <2>1. /\ ~ lost /\ ~ Transferred /\ coll = base /\ coll' = row
    BY <1>1, <1>3 DEF Save
  <2>2. /\ \A t, u \in Stored : t = u
        /\ Stored # {} => coll.status \in Deploying
        /\ \A p \in Preparations : Busy(p) =>
             /\ Stored = {} /\ coll.status \in Deploying
             /\ \A q \in Preparations : Busy(q) => q = p
    BY <2>1 DEF SingleInv
  <2>3. /\ \A t, u \in Stored' : t = u
        /\ Stored' # {} => coll'.status \in Deploying
        /\ \A p \in Preparations : Busy(p)' =>
             /\ Stored' = {} /\ coll'.status \in Deploying
             /\ \A q \in Preparations : Busy(q)' => q = p
    BY <2>1, <2>2 DEF Deploying
  <2>4. QED BY <2>3 DEF SingleInv
<1>4. QED BY <1>2, <1>3

LEMMA SingleStep ==
    ASSUME TypeOK, ChainInv, LabelInv, FreshInv, SingleInv, [Next]_vars
    PROVE  SingleInv'
<1> USE DEF requests, books, inbox, credits, api
<1>1. /\ deployer \in [Deployers -> DeployerTypes]
      /\ worker \in [Workers -> WorkerTypes] /\ request \in [Preparations -> RequestTypes]
      /\ chain \in [Txs -> {"none", "pending", "confirmed", "failed"}]
      /\ kind \in [Calls -> Kinds]
      /\ Creator \in Deployers /\ Preparations \subseteq Deployers
      /\ Creator \notin Preparations
  BY Constants DEF TypeOK, DeployerTypes, WorkerTypes, RequestTypes
<1>2. /\ Growth
      /\ Transferred => Transferred'
      /\ rows' = rows => Stored' \subseteq Stored
  <2>1. Growth
    BY ChainStep
  <2>2. Transferred => Transferred'
    BY <2>1, Constants DEF Growth, Transferred, Confirmed
  <2>3. rows' = rows => Stored' \subseteq Stored
    BY <2>1, Constants DEF Growth, Stored
  <2>4. QED BY <2>1, <2>2, <2>3
<1>3. UNCHANGED deployer => \A p \in Preparations : Busy(p)' => Busy(p)
  BY DEF Busy
<1>4. \A p \in Deployers : \A l \in {"idle", "paid", "done", "failed"} :
        Goto(p, l) => \A q \in Preparations : Busy(q)' => Busy(q) /\ q # p
  BY <1>1, IdleTypes DEF Goto, DeployerTypes, Idle, Busy
<1>5. CASE CreatePay \/ CreateFails
  BY <1>1, <1>2, <1>4, <1>5, SingleKept DEF CreatePay, CreateFails
<1>6. CASE CreateInsert
  <2>1. /\ coll'.status = "CREATED" /\ UNCHANGED <<rows, lost>> /\ Goto(Creator, "done")
        /\ deployer[Creator].pc = "paid"
    BY <1>6 DEF CreateInsert
  <2>2. Stored' = {} /\ \A q \in Preparations : ~ Busy(q)'
    BY <1>2, <1>4, <2>1, <1>1 DEF FreshInv, Stored, Busy
  <2>3. QED BY <2>2 DEF SingleInv
<1>7. ASSUME NEW p \in Deployers, CreateTx(p)
      PROVE  SingleInv'
  <2>1. /\ \E t : deployer' = [deployer EXCEPT ![p].pc = "sent", ![p].tx = t]
        /\ deployer[p].pc = IF p = Creator THEN "paid" ELSE "marked"
        /\ UNCHANGED <<coll, rows, lost>>
    BY <1>7 DEF CreateTx
  <2>2. \A q \in Preparations : Busy(q)' => Busy(q)
    BY <1>1, <2>1 DEF DeployerTypes, Busy
  <2>3. QED BY <1>2, <2>1, <2>2, SingleKept
<1>8. ASSUME NEW p \in Deployers, Commit(p)
      PROVE  SingleInv'
  <2>1. /\ coll'.status = "DEPLOYING" /\ rows' = rows \cup {deployer[p].tx}
        /\ deployer[p].pc = "sent" /\ chain' = chain
    BY <1>8 DEF Commit, Save
  <2>2. Goto(p, "done") \/ Goto(p, "idle")
    BY <1>8 DEF Commit
  <2>3. Stored' \subseteq Stored \cup {deployer[p].tx}
    BY <2>1 DEF Stored
  <2>4. \A q \in Preparations : Busy(q)' => Busy(q) /\ q # p
    BY <1>4, <2>2
  <2>5. CASE p = Creator
    <3>1. rows = {} /\ \A q \in Preparations : deployer[q].pc = "idle"
      BY <2>1, <2>5 DEF FreshInv
    <3>2. Stored = {} /\ \A q \in Preparations : ~ Busy(q)'
      BY <2>4, <3>1 DEF Stored, Busy
    <3>3. QED BY <2>1, <2>3, <3>2 DEF SingleInv, Deploying
  <2>6. CASE p # Creator
    <3>1. p \in Preparations /\ Busy(p)
      BY <2>1, <2>6 DEF Deployers, Busy
    <3>2. lost => lost'
      BY <1>8, <2>6 DEF Commit, Save
    <3>3. CASE lost \/ Transferred
      BY <1>2, <3>2, <3>3 DEF SingleInv
    <3>4. CASE ~ lost /\ ~ Transferred
      <4>1. Stored = {} /\ \A q \in Preparations : ~ Busy(q)'
        BY <2>4, <3>1, <3>4 DEF SingleInv
      <4>2. QED BY <2>1, <2>3, <4>1 DEF SingleInv, Deploying
    <3>5. QED BY <3>3, <3>4
  <2>7. QED BY <2>5, <2>6
<1>9. ASSUME NEW d \in Preparations, Request(d)
      PROVE  SingleInv'
  <2>1. UNCHANGED <<deployer, rows>>
    BY <1>9 DEF Request, DeployCheck, DeployInit, DeployPrepare, DeployAnswered,
         PrepareFails, DeployDies
  <2>2. CASE DeployInit(d) \/ PrepareFails(d)
    <3>1. request[d].seen.status \notin Deploying
      BY <2>2 DEF DeployInit, PrepareFails, LabelInv, Deploying
    <3>2. \E row : Save(request[d].seen, row)
      BY <2>2 DEF DeployInit, PrepareFails
    <3>3. QED BY <1>2, <1>3, <2>1, <3>1, <3>2, SingleWritten
  <2>3. CASE ~ (DeployInit(d) \/ PrepareFails(d))
    <3>1. UNCHANGED <<coll, lost>>
      BY <1>9, <2>3 DEF Request, DeployCheck, DeployPrepare, DeployAnswered, DeployDies
    <3>2. QED BY <1>2, <1>3, <2>1, <3>1, SingleKept
  <2>4. QED BY <2>2, <2>3
<1>10. ASSUME NEW d \in Preparations, Deployment(d)
       PROVE  SingleInv'
  <2>1. d \in Deployers /\ UNCHANGED <<rows, chain, kind>>
    BY <1>10, Constants
       DEF Deployment, Read, Refuse, Mark, DeployFails, RefundDeploy, DeployerDies
  <2>2. Stored' = Stored /\ Transferred' = Transferred
    BY <2>1 DEF Stored, Transferred, Confirmed
  <2>3. CASE Read(d)
    <3>1. UNCHANGED <<coll, lost>> /\ \A q \in Preparations : Busy(q)' => Busy(q)
      BY <1>1, <2>1, <2>3 DEF Read, DeployerTypes, Busy
    <3>2. QED BY <1>2, <2>2, <3>1, SingleKept
  <2>4. CASE Mark(d)
    <3>1. /\ coll' = [deployer[d].seen EXCEPT !.status = "DEPLOYING"]
          /\ lost' = (lost \/ coll # deployer[d].seen)
          /\ deployer[d].seen.status \notin Deploying
          /\ deployer[d].seen \in Collection
      BY <1>1, <2>1, <2>4 DEF Mark, Save, LabelInv, DeployerTypes
    <3>2. coll'.status = "DEPLOYING"
      BY <3>1 DEF Collection
    <3>3. \A q \in Preparations : q # d => (Busy(q)' => Busy(q))
      BY <1>1, <2>1, <2>4 DEF Mark, Busy
    <3>4. CASE lost' \/ Transferred
      BY <2>2, <3>4 DEF SingleInv
    <3>5. CASE ~ lost' /\ ~ Transferred
      <4>1. ~ lost /\ coll.status \notin Deploying
        BY <3>1, <3>5
      <4>2. Stored = {} /\ \A q \in Preparations : ~ Busy(q)
        BY <3>5, <4>1 DEF SingleInv
      <4>3. QED BY <2>2, <3>2, <3>3, <4>2 DEF SingleInv, Deploying
    <3>6. QED BY <3>4, <3>5
  <2>5. CASE DeployFails(d)
    <3>1. Busy(d) /\ \A q \in Preparations : Busy(q)' => Busy(q) /\ q # d
      BY <1>4, <2>1, <2>5 DEF DeployFails, Busy
    <3>2. /\ lost => lost'
      BY <2>5 DEF DeployFails, Save
    <3>3. CASE lost \/ Transferred
      BY <2>2, <3>2, <3>3 DEF SingleInv
    <3>4. CASE ~ lost /\ ~ Transferred
      <4>1. Stored = {} /\ \A q \in Preparations : ~ Busy(q)'
        BY <3>1, <3>4 DEF SingleInv
      <4>2. QED BY <2>2, <4>1 DEF SingleInv
    <3>5. QED BY <3>3, <3>4
  <2>6. CASE Refuse(d) \/ RefundDeploy(d) \/ DeployerDies(d)
    <3>1. UNCHANGED <<coll, lost>> /\ (Goto(d, "idle") \/ UNCHANGED deployer)
      BY <2>6 DEF Refuse, RefundDeploy, DeployerDies
    <3>2. QED BY <1>2, <1>3, <1>4, <2>1, <2>2, <3>1, SingleKept
  <2>7. QED BY <1>10, <2>3, <2>4, <2>5, <2>6 DEF Deployment
<1>11. CASE MetadataNext /\ UNCHANGED service
  BY <1>2, <1>3, <1>11, SingleKept DEF service
<1>12. ASSUME NEW c \in Calls, Invoke(c)
       PROVE  SingleInv'
  <2>1. UNCHANGED deployer
    BY <1>12 DEF Invoke, Begin, Pay, SendTx, StoreTx, Update, CallFails, CallDies
  <2>2. rows' = rows \/ rows' = rows \cup {c}
    BY <1>12 DEF Invoke, Begin, Pay, SendTx, StoreTx, Update, CallFails, CallDies
  <2>3. Stored' \subseteq Stored
    BY <1>2, <2>2, Constants DEF Stored, Growth
  <2>4. CASE Update(c)
    BY <1>2, <1>3, <2>1, <2>3, <2>4, SingleWritten DEF Update
  <2>5. CASE ~ Update(c)
    <3>1. UNCHANGED <<coll, lost>>
      BY <1>12, <2>5 DEF Invoke, Begin, Pay, SendTx, StoreTx, CallFails, CallDies
    <3>2. QED BY <1>2, <1>3, <2>1, <2>3, <3>1, SingleKept
  <2>6. QED BY <2>4, <2>5
<1>13. ASSUME NEW t \in Txs, Settle(t) \/ Duplicate(t) \/ Miss(t)
       PROVE  SingleInv'
  <2>1. UNCHANGED <<coll, lost, rows, deployer>>
    BY <1>13 DEF Settle, Duplicate, Miss
  <2>2. QED BY <1>2, <1>3, <2>1, SingleKept
<1>14. ASSUME NEW w \in Workers, Handle(w) \/ WorkerDies(w)
       PROVE  SingleInv'
  <2>1. UNCHANGED <<deployer, rows, chain, kind>>
    BY <1>14 DEF Handle, Apply, Leave, RefundFailed, Record, WorkerDies
  <2>2. CASE Apply(w)
    <3> DEFINE t == worker[w].tx
               seen == worker[w].seen
               row == IF Kind(t) = "deploy"
                      THEN [seen EXCEPT !.status = "DEPLOYED", !.address = @ \/ ~ Evm]
                      ELSE [seen EXCEPT !.status = "TRANSFERED"]
    <3>1. /\ chain[t] = "confirmed" /\ Kind(t) \in {"deploy", "transfer"}
          /\ t \in Txs /\ seen \in Collection /\ Save(seen, row)
      BY <1>1, <2>2 DEF Apply, WorkerTypes
    <3>2. CASE Kind(t) = "deploy"
      <4>1. row.status \in Deploying
        BY <3>1, <3>2 DEF Collection, Deploying
      <4> HIDE DEF row
      <4>2. QED BY <1>2, <1>3, <2>1, <3>1, <4>1, SingleWritten
    <3>3. CASE Kind(t) # "deploy"
      <4>1. t \in Calls /\ kind[t] = "transfer"
        BY <3>1, <3>3 DEF Kind, Txs
      <4>2. Transferred
        BY <3>1, <4>1 DEF Transferred, Confirmed
      <4>3. QED BY <1>2, <4>2 DEF SingleInv
    <3>4. QED BY <3>2, <3>3
  <2>3. CASE ~ Apply(w)
    <3>1. UNCHANGED <<coll, lost>>
      BY <1>14, <2>3 DEF Handle, Leave, RefundFailed, Record, WorkerDies
    <3>2. QED BY <1>2, <1>3, <2>1, <3>1, SingleKept
  <2>4. QED BY <2>2, <2>3
<1>15. CASE UNCHANGED vars
  BY <1>2, <1>3, <1>15, SingleKept DEF vars
<1>16. QED
  BY <1>5, <1>6, <1>7, <1>8, <1>9, <1>10, <1>11, <1>12, <1>13, <1>14, <1>15, NextCases

LEMMA AtMostOne ==
    ASSUME NEW S, \A t, u \in S : t = u
    PROVE  Cardinality(S) <= 1
<1>1. CASE S = {}
  BY <1>1, FS_EmptySet
<1>2. CASE S # {}
  <2>1. PICK t \in S : S = {t}
    BY <1>2
  <2>2. Cardinality({t}) = 1
    BY FS_Singleton
  <2>3. Cardinality(S) = 1
    BY <2>1, <2>2
  <2>4. QED BY <2>3
<1>3. QED BY <1>1, <1>2

(* Messages that come twice or late, lambdas that die, deployments that    *)
(* are asked for again: no second deployment is stored as long as no row   *)
(* was overwritten that had not been read.                                 *)
THEOREM OneDeployment == Spec => []SingleDeployment
<1>1. Init => LabelInv /\ FreshInv /\ SingleInv
  BY IdleTypes, Constants DEF Init, MetadataInit, LabelInv, FreshInv, SingleInv, At,
     NoRun, Stored, Busy
<1>2. TypeOK /\ ChainInv /\ LabelInv /\ FreshInv /\ SingleInv /\ [Next]_vars
        => LabelInv' /\ FreshInv' /\ SingleInv'
  BY LabelStep, FreshStep, SingleStep
<1>3. SingleInv => SingleDeployment
  <2>1. (\A t, u \in Stored : t = u) => Cardinality(Stored) <= 1
    BY AtMostOne
  <2>2. QED BY <2>1 DEF SingleInv, SingleDeployment, Stored
<1>4. QED BY <1>1, <1>2, <1>3, TypeCorrect, ChainHolds, PTL DEF Spec
=============================================================================
