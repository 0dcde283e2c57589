--------------------------- MODULE ContractsProofs ---------------------------
(***************************************************************************)
(* Proofs about Contracts and the outbox it is composed with, for any      *)
(* number of transactions, senders and workers, and any size of a batch.   *)
(***************************************************************************)
EXTENDS Contracts, TLAPS

-----------------------------------------------------------------------------
(* The inductive invariant, in the parts that the proofs need one by one.  *)

(* What a sender has in hand: the rows are final, and what it sends and    *)
(* notes are rows that nobody has noted.                                   *)
SenderInv ==
    \A s \in Senders :
      /\ sender[s].pc = "idle" => sender[s] = NoSender
      /\ sender[s].rows \subseteq Settled

(* What has been sent is final; and with the errors looked at, what a      *)
(* sender is to note was sent.                                             *)
QueueInv ==
    /\ queue \subseteq delivered
    /\ delivered \subseteq Settled
    /\ Checked => /\ triggered \subseteq delivered
                  /\ \A s \in Senders : sender[s].ids \subseteq delivered

OutboxInv == OutboxTypeOK /\ OutboxExclusive /\ SenderInv /\ QueueInv

(* How far a call is says what there can be of its transaction. *)
Unsaved == {"idle", "checked", "paid", "created", "saved"}
CallInv ==
    /\ \A t \in Txs : call[t] \in {"idle", "checked", "paid"} => chain[t] = "none"
    /\ \A t \in Txs : call[t] \in Unsaved => t \notin rows /\ t \notin refunded
    /\ \A t \in Txs : kind[t] = "deploy" <=> t = Deploy
    /\ call[Deploy] # "marking"

WorkInv == \A w \in Workers :
             worker[w].pc = "refund" => chain[worker[w].tx] = "failed"

IInv == TypeOK /\ OutboxInv /\ CallInv /\ WorkInv /\ RefundSound /\ StatusBacked

-----------------------------------------------------------------------------
(* The statuses of transactions: what is final stays as it is. *)
Steady == \A t \in Txs : chain'[t] # chain[t] =>
            \/ chain[t] = "none" /\ chain'[t] = "pending"
            \/ chain[t] = "pending" /\ chain'[t] \in {"confirmed", "failed"}

LEMMA SettledGrows ==
    ASSUME Steady
    PROVE  /\ Settled \subseteq Settled'
           /\ \A t \in Txs : chain[t] \in {"confirmed", "failed"} => chain'[t] = chain[t]
  BY DEF Steady, Settled

LEMMA BatchIsPart == \A left \in SUBSET Txs : Batch(left) \subseteq left
  BY DEF Batch

LEMMA NoSenderType == NoSender \in Sender
  BY DEF NoSender, Sender

(* A step of the service or of the chain leaves the outbox alone, and the  *)
(* queue has nothing new.                                                  *)
LEMMA OutboxQuiet ==
    ASSUME OutboxInv, Steady, UNCHANGED outbox, chain' \in [Txs -> Status],
           queue' \subseteq queue
    PROVE  OutboxInv'
<1>1. Settled \subseteq Settled'
  BY SettledGrows
<1>2. OutboxTypeOK' /\ OutboxExclusive'
  BY DEF OutboxInv, OutboxTypeOK, OutboxExclusive, outbox
<1>3. SenderInv' /\ QueueInv'
  BY <1>1 DEF OutboxInv, SenderInv, QueueInv, outbox
<1>4. QED BY <1>2, <1>3 DEF OutboxInv

LEMMA SelectStep ==
    ASSUME OutboxInv, NEW s \in Senders, Select(s)
    PROVE  OutboxInv'
<1> DEFINE found == (Settled \ triggered) \ Locked
           new == [NoSender EXCEPT !.pc = "sending", !.rows = found, !.left = found]
<1>1. /\ sender' = [sender EXCEPT ![s] = new]
      /\ UNCHANGED <<chain, queue, triggered, delivered>>
  BY DEF Select
<1>2. Settled' = Settled
  BY <1>1 DEF Settled
<1>3. /\ found \subseteq Txs /\ found \subseteq Settled \ triggered
      /\ \A u \in Senders : found \cap sender[u].rows = {}
  BY DEF Settled, Locked
<1> HIDE DEF found
<1>4. NoSender \in Sender /\ NoSender.ids = {}
  BY NoSenderType DEF NoSender
<1>5. /\ new \in Sender /\ new.pc = "sending"
      /\ new.rows = found /\ new.left = found /\ new.ids = {}
  BY <1>3, <1>4 DEF Sender
<1> HIDE DEF new
<1>6. /\ sender' \in [Senders -> Sender]
      /\ sender'[s] = new
      /\ \A u \in Senders : u # s => sender'[u] = sender[u]
  BY <1>1, <1>5 DEF OutboxInv, OutboxTypeOK
<1>7. OutboxTypeOK'
  BY <1>1, <1>6 DEF OutboxInv, OutboxTypeOK
<1>8. OutboxExclusive'
  BY <1>1, <1>3, <1>5, <1>6 DEF OutboxInv, OutboxExclusive
<1>9. SenderInv' /\ QueueInv'
  BY <1>1, <1>2, <1>3, <1>5, <1>6 DEF OutboxInv, SenderInv, QueueInv
<1>10. QED BY <1>7, <1>8, <1>9 DEF OutboxInv

(* Sending a batch, whatever comes of it. *)
LEMMA SentStep ==
    ASSUME OutboxInv, NEW s \in Senders, NEW ids, ids \in {{}, Batch(sender[s].left)},
           Sent(s, Batch(sender[s].left), ids),
           \/ Arrive(Batch(sender[s].left))
           \/ UNCHANGED <<queue, delivered>> /\ (Checked => ids = {})
    PROVE  OutboxInv'
<1> DEFINE batch == Batch(sender[s].left)
           new == [sender[s] EXCEPT !.left = @ \ batch, !.ids = @ \cup ids]
<1>1. /\ sender' = [sender EXCEPT ![s] = new]
      /\ sender[s].pc = "sending"
      /\ UNCHANGED <<chain, triggered>>
  BY DEF Sent, OutboxInv, OutboxTypeOK, Sender
<1>2. /\ sender[s] \in Sender
      /\ batch \subseteq sender[s].left
      /\ ids \subseteq batch
  BY BatchIsPart DEF OutboxInv, OutboxTypeOK, Sender
<1> HIDE DEF batch
<1>3. /\ new \in Sender /\ new.pc = "sending" /\ new.rows = sender[s].rows
      /\ new.left \subseteq sender[s].left
      /\ new.ids = sender[s].ids \cup ids
  BY <1>1, <1>2 DEF Sender
<1> HIDE DEF new
<1>4. /\ sender' \in [Senders -> Sender]
      /\ sender'[s] = new
      /\ \A u \in Senders : u # s => sender'[u] = sender[u]
  BY <1>1, <1>3 DEF OutboxInv, OutboxTypeOK
<1>5. batch \subseteq sender[s].rows \ triggered /\ sender[s].rows \subseteq Settled
  BY <1>2 DEF OutboxInv, OutboxExclusive, SenderInv
<1>6. /\ queue' \subseteq queue \cup batch
      /\ delivered \subseteq delivered' /\ delivered' \subseteq delivered \cup batch
      /\ queue' \subseteq delivered'
      /\ Checked => ids \subseteq delivered'
  BY <1>2 DEF Arrive, batch, OutboxInv, QueueInv
<1>7. batch \subseteq Txs
  BY <1>2 DEF Sender
<1>8. OutboxTypeOK'
  BY <1>1, <1>4, <1>6, <1>7 DEF OutboxInv, OutboxTypeOK
<1>9. OutboxExclusive'
  BY <1>1, <1>2, <1>3, <1>4, <1>5 DEF OutboxInv, OutboxExclusive
<1>10. Settled' = Settled
  BY <1>1 DEF Settled
<1>11. SenderInv'
  BY <1>1, <1>3, <1>4, <1>10 DEF OutboxInv, SenderInv
<1>12. QueueInv'
  BY <1>1, <1>3, <1>4, <1>5, <1>6, <1>10 DEF OutboxInv, QueueInv
<1>13. QED BY <1>8, <1>9, <1>11, <1>12 DEF OutboxInv

(* Giving the rows back, with some of what was to be noted noted. *)
LEMMA EndStep ==
    ASSUME OutboxInv, NEW s \in Senders,
           sender' = [sender EXCEPT ![s] = NoSender],
           triggered' = triggered \/ triggered' = triggered \cup sender[s].ids,
           UNCHANGED <<chain, queue, delivered>>
    PROVE  OutboxInv'
<1>1. /\ sender' \in [Senders -> Sender]
      /\ sender'[s] = NoSender
      /\ \A u \in Senders : u # s => sender'[u] = sender[u]
  BY NoSenderType DEF OutboxInv, OutboxTypeOK
<1>2. Settled' = Settled
  BY DEF Settled
<1>3. triggered' \subseteq triggered \cup sender[s].ids /\ sender[s].ids \subseteq sender[s].rows
  BY DEF OutboxInv, OutboxExclusive
<1>4. sender[s].ids \subseteq Txs
  BY DEF OutboxInv, OutboxTypeOK, Sender
<1>5. OutboxTypeOK'
  BY <1>1, <1>3, <1>4 DEF OutboxInv, OutboxTypeOK
<1>6. OutboxExclusive'
  BY <1>1, <1>3 DEF OutboxInv, OutboxExclusive, NoSender
<1>7. SenderInv' /\ QueueInv'
  BY <1>1, <1>2, <1>3 DEF OutboxInv, SenderInv, QueueInv, NoSender
<1>8. QED BY <1>5, <1>6, <1>7 DEF OutboxInv

LEMMA OutboxStep == OutboxInv /\ OutboxNext => OutboxInv'
<1> SUFFICES ASSUME OutboxInv, NEW s \in Senders,
                    Send(s) \/ SendFails(s) \/ SenderDies(s)
             PROVE  OutboxInv'
  BY DEF OutboxNext
<1>1. CASE Select(s)
  BY <1>1, SelectStep
<1>2. CASE SendTaken(s)
  BY <1>2, SentStep DEF SendTaken
<1>3. CASE SendFails(s)
  <2>1. PICK ids \in {{}, Batch(sender[s].left)} :
          /\ Sent(s, Batch(sender[s].left), ids)
          /\ Checked => ids = {}
    BY <1>3 DEF SendFails
  <2>2. QED BY <1>3, <2>1, SentStep DEF SendFails
<1>4. CASE Note(s) \/ SenderDies(s)
  BY <1>4, EndStep DEF Note, SenderDies
<1>5. QED BY <1>1, <1>2, <1>3, <1>4 DEF Send

-----------------------------------------------------------------------------
(* Steps of the calls of the API.  None of them touches the worker, so     *)
(* what it knows stays true as long as rows and outcomes only grow.        *)

LEMMA WorkerQuiet ==
    ASSUME IInv, Steady, UNCHANGED consumer, rows \subseteq rows'
    PROVE  /\ WorkInv'
           /\ \A w \in Workers :
                worker'[w].pc # "idle" => worker'[w].tx \in (rows \cap Settled)'
<1>1. \A w \in Workers : /\ worker[w].tx \in Txs
                         /\ worker[w].pc # "idle" => worker[w].tx \in rows \cap Settled
  BY DEF IInv, TypeOK
<1>2. worker' = worker
  BY DEF consumer
<1>3. QED BY <1>1, <1>2, SettledGrows DEF IInv, WorkInv

(* Where a call goes on, and nobody else. *)
LEMMA Stepped ==
    ASSUME IInv, NEW t \in Txs, NEW from, NEW to \in Calls, Step(t, from, to)
    PROVE  /\ call[t] = from /\ call' \in [Txs -> Calls] /\ call'[t] = to
           /\ \A u \in Txs : u # t => call'[u] = call[u]
  BY DEF IInv, TypeOK, Step

LEMMA CheckStep ==
    ASSUME IInv, NEW t \in Txs, Check(t)
    PROVE  IInv'
<1>1. /\ t # Deploy /\ contract = "DEPLOYED"
      /\ Step(t, "idle", "checked")
      /\ UNCHANGED <<chain, queue, outbox, contract, rows, recorded, credits, consumer>>
  BY DEF Check
<1>2. /\ call[t] = "idle" /\ call' \in [Txs -> Calls] /\ call'[t] = "checked"
      /\ \A u \in Txs : u # t => call'[u] = call[u]
  BY <1>1, Stepped DEF Calls
<1>3. /\ kind' \in [Txs -> Kinds] /\ kind'[t] # "deploy"
      /\ \A u \in Txs : u # t => kind'[u] = kind[u]
  BY DEF Check, IInv, TypeOK, Kinds
<1>4. Steady /\ chain' \in [Txs -> Status]
  BY <1>1 DEF Steady, IInv, TypeOK, OutboxTypeOK
<1>5. OutboxInv'
  BY <1>1, <1>4, OutboxQuiet DEF IInv
<1>6. TypeOK' /\ WorkInv'
  BY <1>1, <1>2, <1>3, <1>4, <1>5, WorkerQuiet
     DEF IInv, TypeOK, OutboxInv, credits, consumer
<1>7. CallInv'
  BY <1>1, <1>2, <1>3, DeployAssumption DEF IInv, CallInv, Unsaved, credits
<1>8. RefundSound'
  BY <1>1 DEF IInv, RefundSound, credits
<1>9. StatusBacked'
  <2>1. chain[Deploy] = "confirmed" /\ chain[t] = "none"
    BY <1>1, <1>2 DEF IInv, StatusBacked, Deployed, CallInv
  <2>2. QED BY <1>1, <1>2, <1>3, <2>1 DEF IInv, StatusBacked, Deployed
<1>10. QED BY <1>5, <1>6, <1>7, <1>8, <1>9 DEF IInv

LEMMA PayStep ==
    ASSUME IInv, NEW t \in Txs, Pay(t)
    PROVE  IInv'
<1>1. /\ Step(t, IF t = Deploy THEN "idle" ELSE "checked", "paid")
      /\ paid' = paid \cup {t}
      /\ UNCHANGED <<chain, queue, outbox, contract, rows, recorded, kind, refunded,
                     swallowed, consumer>>
  BY DEF Pay
<1>2. /\ call[t] \in {"idle", "checked"} /\ (t # Deploy => call[t] # "idle")
      /\ call' \in [Txs -> Calls] /\ call'[t] = "paid"
      /\ \A u \in Txs : u # t => call'[u] = call[u]
  BY <1>1, Stepped DEF Calls
<1>3. Steady /\ chain' \in [Txs -> Status]
  BY <1>1 DEF Steady, IInv, TypeOK, OutboxTypeOK
<1>4. OutboxInv'
  BY <1>1, <1>3, OutboxQuiet DEF IInv
<1>5. TypeOK' /\ WorkInv'
  BY <1>1, <1>2, <1>3, <1>4, WorkerQuiet DEF IInv, TypeOK, OutboxInv, consumer
<1>6. CallInv' /\ RefundSound'
  BY <1>1, <1>2, DeployAssumption DEF IInv, CallInv, RefundSound, Unsaved
<1>7. StatusBacked'
  BY <1>1, <1>2 DEF IInv, StatusBacked
<1>8. QED BY <1>4, <1>5, <1>6, <1>7 DEF IInv

LEMMA SaveContractStep ==
    ASSUME IInv, SaveContract
    PROVE  IInv'
<1>1. /\ Step(Deploy, "created", "saved") /\ contract' = "DEPLOYING"
      /\ UNCHANGED <<chain, queue, outbox, rows, recorded, kind, credits, consumer>>
  BY DEF SaveContract
<1>2. /\ call[Deploy] = "created" /\ call' \in [Txs -> Calls]
      /\ call'[Deploy] = "saved"
      /\ \A u \in Txs : u # Deploy => call'[u] = call[u]
  BY <1>1, Stepped, DeployAssumption DEF Calls
<1>3. Steady /\ chain' \in [Txs -> Status]
  BY <1>1 DEF Steady, IInv, TypeOK, OutboxTypeOK
<1>4. OutboxInv'
  BY <1>1, <1>3, OutboxQuiet DEF IInv
<1>5. TypeOK' /\ WorkInv'
  BY <1>1, <1>2, <1>3, <1>4, WorkerQuiet
     DEF IInv, TypeOK, OutboxInv, ContractStatus, credits, consumer
<1>6. CallInv' /\ RefundSound'
  BY <1>1, <1>2 DEF IInv, CallInv, RefundSound, Unsaved, credits
<1>7. StatusBacked'
  BY <1>1, <1>2 DEF IInv, StatusBacked, Deployed
<1>8. QED BY <1>4, <1>5, <1>6, <1>7 DEF IInv

LEMMA SaveTxStep ==
    ASSUME IInv, NEW t \in Txs, SaveTx(t)
    PROVE  IInv'
<1>1. /\ Step(t, IF t = Deploy THEN "saved" ELSE "created",
                 IF kind[t] = "transfer" THEN "marking" ELSE "done")
      /\ rows' = rows \cup {t}
      /\ recorded' = [recorded EXCEPT ![t] = "pending"]
      /\ UNCHANGED <<chain, queue, outbox, contract, kind, credits, consumer>>
  BY DEF SaveTx
<1>2. /\ call[t] \in {"saved", "created"}
      /\ call' \in [Txs -> Calls]
      /\ call'[t] = IF kind[t] = "transfer" THEN "marking" ELSE "done"
      /\ \A u \in Txs : u # t => call'[u] = call[u]
  BY <1>1, Stepped DEF Calls
<1>3. Steady /\ chain' \in [Txs -> Status]
  BY <1>1 DEF Steady, IInv, TypeOK, OutboxTypeOK
<1>4. OutboxInv'
  BY <1>1, <1>3, OutboxQuiet DEF IInv
<1>5. TypeOK' /\ WorkInv'
  BY <1>1, <1>2, <1>3, <1>4, WorkerQuiet
     DEF IInv, TypeOK, OutboxInv, Status, credits, consumer
<1>6. CallInv' /\ RefundSound'
  BY <1>1, <1>2, DeployAssumption DEF IInv, CallInv, RefundSound, Unsaved, credits
<1>7. StatusBacked'
  BY <1>1, <1>2 DEF IInv, StatusBacked
<1>8. QED BY <1>4, <1>5, <1>6, <1>7 DEF IInv

LEMMA MarkStep ==
    ASSUME IInv, NEW t \in Txs, MarkTransferring(t)
    PROVE  IInv'
<1>1. /\ Step(t, "marking", "done") /\ contract' = "TRANSFERRING"
      /\ UNCHANGED <<chain, queue, outbox, rows, recorded, kind, credits, consumer>>
  BY DEF MarkTransferring
<1>2. /\ call[t] = "marking" /\ call' \in [Txs -> Calls] /\ call'[t] = "done"
      /\ \A u \in Txs : u # t => call'[u] = call[u]
  BY <1>1, Stepped DEF Calls
<1>3. Steady /\ chain' \in [Txs -> Status]
  BY <1>1 DEF Steady, IInv, TypeOK, OutboxTypeOK
<1>4. OutboxInv'
  BY <1>1, <1>3, OutboxQuiet DEF IInv
<1>5. TypeOK' /\ WorkInv'
  BY <1>1, <1>2, <1>3, <1>4, WorkerQuiet
     DEF IInv, TypeOK, OutboxInv, ContractStatus, credits, consumer
<1>6. CallInv' /\ RefundSound'
  BY <1>1, <1>2, DeployAssumption DEF IInv, CallInv, RefundSound, Unsaved, credits
<1>7. StatusBacked'
  <2>1. chain[Deploy] = "confirmed"
    BY <1>2 DEF IInv, CallInv, StatusBacked
  <2>2. QED BY <1>1, <1>2, <2>1 DEF IInv, StatusBacked, Deployed
<1>8. QED BY <1>4, <1>5, <1>6, <1>7 DEF IInv

LEMMA CallDiesStep ==
    ASSUME IInv, NEW t \in Txs, CallDies(t)
    PROVE  IInv'
<1>1. /\ call[t] \in {"created", "saved", "marking"}
      /\ call' = [call EXCEPT ![t] = "done"]
      /\ UNCHANGED <<chain, queue, outbox, contract, rows, recorded, kind, credits,
                     consumer>>
  BY DEF CallDies
<1>2. /\ call' \in [Txs -> Calls] /\ call'[t] = "done"
      /\ \A u \in Txs : u # t => call'[u] = call[u]
  BY <1>1 DEF IInv, TypeOK, Calls
<1>3. Steady /\ chain' \in [Txs -> Status]
  BY <1>1 DEF Steady, IInv, TypeOK, OutboxTypeOK
<1>4. OutboxInv'
  BY <1>1, <1>3, OutboxQuiet DEF IInv
<1>5. TypeOK' /\ WorkInv'
  BY <1>1, <1>2, <1>3, <1>4, WorkerQuiet
     DEF IInv, TypeOK, OutboxInv, credits, consumer
<1>6. CallInv' /\ RefundSound'
  BY <1>1, <1>2, DeployAssumption DEF IInv, CallInv, RefundSound, Unsaved, credits
<1>7. StatusBacked'
  BY <1>1, <1>2 DEF IInv, StatusBacked
<1>8. QED BY <1>4, <1>5, <1>6, <1>7 DEF IInv

-----------------------------------------------------------------------------
(* Steps that change the chain: what the service believes of it stays true *)
(* as outcomes are final.                                                  *)

LEMMA StatusSteady ==
    ASSUME IInv, Steady, UNCHANGED <<contract, kind>>,
           \A u \in Txs : call'[u] # "idle" => call[u] # "idle"
    PROVE  StatusBacked'
<1>1. \A u \in Txs : chain[u] \in {"confirmed", "failed"} => chain'[u] = chain[u]
  BY SettledGrows
<1>2. QED BY <1>1, DeployAssumption DEF IInv, StatusBacked

LEMMA CreateStep ==
    ASSUME IInv, NEW t \in Txs, Create(t)
    PROVE  IInv'
<1>1. /\ Step(t, "paid", "created")
      /\ chain' = [chain EXCEPT ![t] = "pending"]
      /\ UNCHANGED <<queue, outbox, contract, rows, recorded, kind, credits, consumer>>
  BY DEF Create
<1>2. /\ call[t] = "paid" /\ call' \in [Txs -> Calls] /\ call'[t] = "created"
      /\ \A u \in Txs : u # t => call'[u] = call[u]
  BY <1>1, Stepped DEF Calls
<1>3. /\ chain[t] = "none" /\ t \notin rows /\ t \notin refunded
      /\ chain' \in [Txs -> Status] /\ chain'[t] = "pending"
      /\ \A u \in Txs : u # t => chain'[u] = chain[u]
  BY <1>1, <1>2 DEF IInv, CallInv, Unsaved, TypeOK, OutboxTypeOK, Status
<1>4. Steady
  BY <1>3 DEF Steady
<1>5. OutboxInv'
  BY <1>1, <1>3, <1>4, OutboxQuiet DEF IInv
<1>6. TypeOK' /\ WorkInv'
  BY <1>1, <1>2, <1>4, <1>5, WorkerQuiet DEF IInv, TypeOK, OutboxInv, credits, consumer
<1>7. CallInv'
  BY <1>1, <1>2, <1>3, DeployAssumption DEF IInv, CallInv, Unsaved, credits
<1>8. RefundSound'
  BY <1>1, <1>3 DEF IInv, TypeOK, RefundSound, credits
<1>9. StatusBacked'
  BY <1>1, <1>2, <1>4, StatusSteady
<1>10. QED BY <1>5, <1>6, <1>7, <1>8, <1>9 DEF IInv

LEMMA CreateFailsStep ==
    ASSUME IInv, NEW t \in Txs, CreateFails(t)
    PROVE  IInv'
<1>1. /\ Step(t, "paid", "done")
      /\ chain' = chain \/ chain' = [chain EXCEPT ![t] = "pending"]
      /\ Refund(t)
      /\ UNCHANGED <<queue, outbox, contract, rows, recorded, kind, paid, consumer>>
  BY DEF CreateFails
<1>2. /\ call[t] = "paid" /\ call' \in [Txs -> Calls] /\ call'[t] = "done"
      /\ \A u \in Txs : u # t => call'[u] = call[u]
  BY <1>1, Stepped DEF Calls
<1>3. /\ chain[t] = "none" /\ t \notin rows
      /\ chain' \in [Txs -> Status] /\ chain'[t] \in {"none", "pending"}
      /\ \A u \in Txs : u # t => chain'[u] = chain[u]
  BY <1>1, <1>2 DEF IInv, CallInv, Unsaved, TypeOK, OutboxTypeOK, Status
<1>4. /\ refunded' \subseteq refunded \cup ({t} \cap paid)
      /\ refunded' \subseteq Txs /\ swallowed' \subseteq Txs
  BY <1>1 DEF Refund, IInv, TypeOK
<1>5. Steady
  BY <1>3 DEF Steady
<1>6. OutboxInv'
  BY <1>1, <1>3, <1>5, OutboxQuiet DEF IInv
<1>7. TypeOK' /\ WorkInv'
  BY <1>1, <1>2, <1>4, <1>5, <1>6, WorkerQuiet DEF IInv, TypeOK, OutboxInv, consumer
<1>8. CallInv'
  BY <1>1, <1>2, <1>3, <1>4, DeployAssumption DEF IInv, CallInv, Unsaved
<1>9. RefundSound'
  BY <1>1, <1>3, <1>4 DEF IInv, TypeOK, RefundSound
<1>10. StatusBacked'
  BY <1>1, <1>2, <1>5, StatusSteady
<1>11. QED BY <1>6, <1>7, <1>8, <1>9, <1>10 DEF IInv

LEMMA SettleStep ==
    ASSUME IInv, NEW t \in Txs, Settle(t), UNCHANGED <<service, credits, consumer>>
    PROVE  IInv'
<1>1. PICK outcome \in {"confirmed", "failed"} :
        chain' = [chain EXCEPT ![t] = outcome]
  BY DEF Settle
<1>2. /\ chain[t] = "pending" /\ UNCHANGED <<queue, outbox>>
      /\ chain' \in [Txs -> Status] /\ chain'[t] = outcome
      /\ \A u \in Txs : u # t => chain'[u] = chain[u]
  BY <1>1 DEF Settle, IInv, TypeOK, OutboxTypeOK, Status
<1>3. Steady
  BY <1>2 DEF Steady
<1>4. OutboxInv'
  BY <1>2, <1>3, OutboxQuiet DEF IInv
<1>5. TypeOK' /\ WorkInv'
  BY <1>3, <1>4, WorkerQuiet DEF IInv, TypeOK, OutboxInv, service, credits, consumer
<1>6. CallInv'
  BY <1>2, DeployAssumption DEF IInv, CallInv, Unsaved, service, credits
<1>7. RefundSound'
  BY <1>2 DEF IInv, TypeOK, RefundSound, service, credits
<1>8. StatusBacked'
  BY <1>3, StatusSteady DEF service
<1>9. QED BY <1>4, <1>5, <1>6, <1>7, <1>8 DEF IInv

(* The outbox changes neither the chain nor the service. *)
LEMMA OutboxOnlyStep ==
    ASSUME IInv, OutboxNext, UNCHANGED <<service, credits, consumer>>
    PROVE  IInv'
<1>1. UNCHANGED chain
  BY DEF OutboxNext, Send, Select, SendTaken, SendFails, Sent, Note, SenderDies
<1>2. Steady
  BY <1>1 DEF Steady
<1>3. OutboxInv'
  BY OutboxStep DEF IInv
<1>4. TypeOK' /\ WorkInv'
  BY <1>2, <1>3, WorkerQuiet DEF IInv, TypeOK, OutboxInv, service, credits, consumer
<1>5. CallInv' /\ RefundSound'
  BY <1>1 DEF IInv, CallInv, RefundSound, Unsaved, service, credits
<1>6. StatusBacked'
  BY <1>2, StatusSteady DEF service
<1>7. QED BY <1>3, <1>4, <1>5, <1>6 DEF IInv

-----------------------------------------------------------------------------
(* Steps of the status worker: the chain and the calls stand still, and    *)
(* the queue has nothing new.                                              *)

LEMMA WorkerStep ==
    ASSUME IInv, UNCHANGED <<chain, outbox, rows, call, kind, paid>>,
           queue' \subseteq queue,
           recorded' \in [Txs -> Status], contract' \in ContractStatus,
           swallowed' \subseteq Txs, missed' \subseteq Txs,
           refunded' \subseteq Txs,
           \A u \in refunded' \ refunded :
             u \in paid /\ u \in rows /\ chain[u] = "failed",
           NEW w \in Workers, NEW item \in [pc : {"idle", "apply", "refund"}, tx : Txs],
           worker' \in {worker, [worker EXCEPT ![w] = item]},
           item.pc # "idle" => item.tx \in rows \cap Settled,
           item.pc = "refund" => chain[item.tx] = "failed"
    PROVE  /\ TypeOK' /\ OutboxInv' /\ CallInv' /\ WorkInv' /\ RefundSound'
           /\ contract' = contract => IInv'
<1>1. Steady /\ Settled' = Settled /\ chain' \in [Txs -> Status]
  BY DEF Steady, Settled, IInv, TypeOK, OutboxTypeOK
<1>2. OutboxInv'
  BY <1>1, OutboxQuiet DEF IInv
<1>3. \A v \in Workers : worker'[v] \in {worker[v], item}
  BY DEF IInv, TypeOK
<1>4. worker' \in [Workers -> [pc : {"idle", "apply", "refund"}, tx : Txs]]
  BY DEF IInv, TypeOK
<1>5. TypeOK'
  BY <1>1, <1>2, <1>3, <1>4 DEF IInv, TypeOK, OutboxInv
<1>6. CallInv'
  BY DEF IInv, CallInv, Unsaved
<1>7. WorkInv'
  BY <1>3 DEF IInv, WorkInv
<1>8. RefundSound'
  BY DEF IInv, RefundSound
<1>9. contract' = contract => StatusBacked'
  BY <1>1, StatusSteady
<1>10. QED BY <1>2, <1>5, <1>6, <1>7, <1>8, <1>9 DEF IInv

LEMMA HandleStep ==
    ASSUME IInv, NEW w \in Workers, Handle(w) \/ WorkerDies(w)
    PROVE  IInv'
<1> USE DeployAssumption
<1>1. /\ recorded \in [Txs -> Status] /\ contract \in ContractStatus
      /\ refunded \subseteq Txs /\ swallowed \subseteq Txs /\ missed \subseteq Txs
      /\ queue \subseteq Txs /\ chain \in [Txs -> Status]
      /\ worker[w] \in [pc : {"idle", "apply", "refund"}, tx : Txs]
      /\ worker[w].pc # "idle" => worker[w].tx \in rows \cap Settled
      /\ Idle \in [pc : {"idle", "apply", "refund"}, tx : Txs] /\ Idle.pc = "idle"
  BY DEF IInv, TypeOK, OutboxTypeOK, Idle
<1>2. ASSUME NEW t \in Txs, Record(w, t)
      PROVE  IInv'
  <2> DEFINE item == [pc |-> "apply", tx |-> t]
  <2>1. /\ t \in rows \cap Settled
        /\ item \in [pc : {"idle", "apply", "refund"}, tx : Txs]
        /\ item.pc = "apply" /\ item.tx = t
    BY <1>2 DEF Record, IInv, OutboxInv, QueueInv
  <2>2. /\ worker' = [worker EXCEPT ![w] = item]
        /\ recorded' \in [Txs -> Status]
        /\ UNCHANGED <<chain, queue, outbox, contract, rows, kind, call, credits, missed>>
    BY <1>1, <1>2 DEF Record
  <2> HIDE DEF item
  <2>3. QED BY <1>1, <2>1, <2>2, WorkerStep DEF credits
<1>3. ASSUME NEW t \in Txs, Miss(w, t)
      PROVE  IInv'
  <2>1. /\ UNCHANGED <<chain, outbox, service, credits, worker>>
        /\ queue' \subseteq queue /\ missed' \subseteq Txs
    BY <1>1, <1>3 DEF Miss, Acknowledge
  <2>2. QED BY <1>1, <2>1, WorkerStep DEF service, credits
<1>4. CASE Apply(w)
  <2> DEFINE t == worker[w].tx
             item == IF chain[t] = "failed" /\ contract # "none"
                     THEN [worker[w] EXCEPT !.pc = "refund"] ELSE Idle
  <2>1. t \in Txs /\ t \in rows \cap Settled
    BY <1>1, <1>4 DEF Apply
  <2>2. /\ item \in [pc : {"idle", "apply", "refund"}, tx : Txs]
        /\ item.pc # "idle" => item.tx = t /\ chain[t] = "failed"
    BY <1>1
  <2>3. worker' = [worker EXCEPT ![w] = item]
    BY <1>1, <1>4 DEF Apply, Goto, Finish, IInv, TypeOK
  <2>4. /\ contract' = IF contract = "none" THEN contract ELSE Marked(t, chain[t])
        /\ queue' \subseteq queue
        /\ UNCHANGED <<chain, outbox, rows, recorded, kind, call, credits, missed>>
    BY <1>4 DEF Apply, Acknowledge
  <2> HIDE DEF item
  <2>5. contract' \in ContractStatus
    BY <1>1, <2>4 DEF Marked, ContractStatus
  <2>6. TypeOK' /\ OutboxInv' /\ CallInv' /\ WorkInv' /\ RefundSound'
    BY <1>1, <2>1, <2>2, <2>3, <2>4, <2>5, WorkerStep DEF credits
  <2>7. chain[t] \in {"confirmed", "failed"} /\ call[t] \notin Unsaved
    BY <2>1 DEF Settled, IInv, CallInv
  <2>8. /\ t = Deploy <=> kind[t] = "deploy"
        /\ t # Deploy => chain[Deploy] = "confirmed"
    BY <2>1, <2>7 DEF IInv, CallInv, StatusBacked, Unsaved
  <2>9. StatusBacked'
    <3>1. CASE contract' = contract
      BY <2>4, <3>1 DEF IInv, StatusBacked
    <3>2. CASE contract' # contract
      <4>1. contract' = Marked(t, chain[t])
        BY <2>4, <3>2
      <4>2. CASE kind[t] = "deploy"
        BY <2>4, <2>7, <2>8, <4>1, <4>2 DEF Marked, IInv, StatusBacked, Deployed
      <4>3. CASE kind[t] = "transfer"
        BY <2>1, <2>4, <2>7, <2>8, <4>1, <4>3 DEF Marked, IInv, StatusBacked, Deployed
      <4>4. QED BY <3>2, <4>1, <4>2, <4>3 DEF Marked
    <3>3. QED BY <3>1, <3>2
  <2>10. QED BY <2>6, <2>9 DEF IInv
<1>5. CASE RefundFailed(w)
  <2> DEFINE t == worker[w].tx
  <2>1. t \in Txs /\ t \in rows /\ chain[t] = "failed"
    BY <1>1, <1>5 DEF RefundFailed, IInv, WorkInv
  <2>2. /\ refunded' \subseteq refunded \cup ({t} \cap paid) /\ swallowed' \subseteq Txs
        /\ worker' = [worker EXCEPT ![w] = Idle] /\ queue' \subseteq queue
        /\ UNCHANGED <<chain, outbox, service, paid, missed>>
    BY <1>1, <1>5 DEF RefundFailed, Refund, Finish, Acknowledge
  <2>3. QED BY <1>1, <2>1, <2>2, WorkerStep DEF service
<1>6. CASE WorkerDies(w)
  BY <1>1, <1>6, WorkerStep DEF WorkerDies, Finish, service, credits
<1>7. QED BY <1>2, <1>3, <1>4, <1>5, <1>6 DEF Handle

-----------------------------------------------------------------------------
LEMMA InvInit == Init => IInv
<1> SUFFICES ASSUME Init PROVE IInv
  OBVIOUS
<1> USE DeployAssumption
<1>1. Settled = {} /\ chain \in [Txs -> Status] /\ \A t \in Txs : chain[t] = "none"
  BY DEF Init, OutboxInit, Settled, Status
<1>2. OutboxInv
  BY <1>1, NoSenderType DEF Init, OutboxInit, OutboxInv, OutboxTypeOK,
       OutboxExclusive, SenderInv, QueueInv, NoSender
<1>3. /\ recorded \in [Txs -> Status] /\ kind \in [Txs -> Kinds]
      /\ call \in [Txs -> Calls] /\ contract \in ContractStatus
      /\ worker \in [Workers -> [pc : {"idle", "apply", "refund"}, tx : Txs]]
      /\ \A w \in Workers : worker[w].pc = "idle"
  BY DEF Init, Status, Kinds, Calls, ContractStatus, Idle
<1>4. TypeOK
  BY <1>2, <1>3 DEF Init, TypeOK, OutboxInv
<1>5. CallInv /\ WorkInv /\ RefundSound /\ StatusBacked
  BY <1>1, <1>3 DEF Init, CallInv, WorkInv, RefundSound, StatusBacked, Unsaved, Deployed
<1>6. QED BY <1>2, <1>4, <1>5 DEF IInv

LEMMA InvStep == IInv /\ [Next]_vars => IInv'
<1> SUFFICES ASSUME IInv, [Next]_vars PROVE IInv'
  OBVIOUS
<1>1. CASE \E t \in Txs : Invoke(t) \/ CallDies(t)
  BY <1>1, CheckStep, PayStep, CreateStep, CreateFailsStep, SaveTxStep, MarkStep,
     CallDiesStep DEF Invoke
<1>2. CASE SaveContract
  BY <1>2, SaveContractStep
<1>3. CASE \E t \in Txs : Settle(t) /\ UNCHANGED <<service, credits, consumer>>
  BY <1>3, SettleStep
<1>4. CASE OutboxNext /\ UNCHANGED <<service, credits, consumer>>
  BY <1>4, OutboxOnlyStep
<1>5. CASE \E w \in Workers : Handle(w) \/ WorkerDies(w)
  BY <1>5, HandleStep
<1>6. CASE UNCHANGED vars
  <2>1. Steady /\ Settled' = Settled
    BY <1>6 DEF Steady, Settled, vars
  <2>2. OutboxInv'
    BY <1>6, <2>1, OutboxQuiet DEF IInv, vars, OutboxInv, OutboxTypeOK
  <2>3. TypeOK' /\ WorkInv'
    BY <1>6, <2>1, <2>2, WorkerQuiet
       DEF IInv, TypeOK, OutboxInv, vars, service, credits, consumer
  <2>4. CallInv' /\ RefundSound' /\ StatusBacked'
    BY <1>6 DEF IInv, CallInv, RefundSound, StatusBacked, Unsaved, vars, service, credits
  <2>5. QED BY <2>2, <2>3, <2>4 DEF IInv
<1>7. QED BY <1>1, <1>2, <1>3, <1>4, <1>5, <1>6 DEF Next

(* The inductive invariant: what a sender holds, how far a call is, and     *)
(* what the worker knows agree with the chain in every reachable state.    *)
THEOREM InvHolds == Spec => []IInv
<1>1. QED BY InvInit, InvStep, PTL DEF Spec

(* The types hold in every reachable state, and what is worked on is the   *)
(* final outcome of a transaction that has a row.                          *)
THEOREM TypeCorrect == Spec => []TypeOK
<1>1. IInv => TypeOK
  BY DEF IInv
<1>2. QED BY <1>1, InvHolds, PTL

(* No two invocations ever send the same row at a time, however many there *)
(* are, and whichever of them die.                                         *)
THEOREM SendersExclusive == Spec => []OutboxExclusive
<1>1. IInv => OutboxExclusive
  BY DEF IInv, OutboxInv
<1>2. QED BY <1>1, InvHolds, PTL

(* Nothing that happened, and that the service has a row of, is free of    *)
(* charge: not with lost answers, duplicates and lambdas that die.         *)
THEOREM RefundsSound == Spec => []RefundSound
<1>1. IInv => RefundSound
  BY DEF IInv
<1>2. QED BY <1>1, InvHolds, PTL

(* The contract's status never claims more than the chain has confirmed,   *)
(* in whatever order outcomes come and however often.                      *)
THEOREM StatusHolds == Spec => []StatusBacked
<1>1. IInv => StatusBacked
  BY DEF IInv
<1>2. QED BY <1>1, InvHolds, PTL

-----------------------------------------------------------------------------
(* The refinement.  Steps of the outbox map to Deliver and Note, what      *)
(* changes the chain maps to Settle, and the rest to stuttering.           *)

LEMMA InitMaps == Init => Promise!Init
  BY DEF Init, OutboxInit, Promise!Init, Settled

LEMMA SendMaps ==
    ASSUME IInv, Checked = TRUE, OutboxNext
    PROVE  [Promise!Next]_(Promise!vars)
<1> SUFFICES ASSUME NEW s \in Senders, Send(s) \/ SendFails(s) \/ SenderDies(s)
             PROVE  [Promise!Next]_(Promise!vars)
  BY DEF OutboxNext
<1>1. Settled' = Settled
  BY DEF Send, Select, SendTaken, SendFails, Sent, Note, SenderDies, Settled
<1>2. Batch(sender[s].left) \subseteq Settled
  <2>1. sender[s].left \subseteq Settled /\ sender[s].left \in SUBSET Txs
    BY DEF IInv, OutboxInv, OutboxTypeOK, OutboxExclusive, SenderInv, Sender
  <2>2. QED BY <2>1, BatchIsPart
<1>3. sender[s].ids \subseteq delivered
  BY DEF IInv, OutboxInv, QueueInv
<1>4. CASE Select(s) \/ SenderDies(s)
  BY <1>1, <1>4 DEF Select, SenderDies, Promise!vars
<1>5. CASE SendTaken(s) \/ SendFails(s)
  <2>1. /\ triggered' = triggered
        /\ \/ delivered' = delivered
           \/ delivered' = delivered \cup Batch(sender[s].left)
    BY <1>5 DEF SendTaken, SendFails, Sent, Arrive
  <2>2. QED BY <1>1, <1>2, <2>1 DEF Promise!vars, Promise!Next, Promise!Deliver
<1>6. CASE Note(s)
  BY <1>1, <1>3, <1>6 DEF Note, Promise!Next, Promise!Note
<1>7. QED BY <1>4, <1>5, <1>6 DEF Send

LEMMA ChainMaps ==
    ASSUME Steady, UNCHANGED outbox
    PROVE  [Promise!Next]_(Promise!vars)
<1>1. Settled' = Settled \cup Settled' /\ Settled' \in SUBSET Txs
  BY SettledGrows DEF Settled
<1>2. UNCHANGED <<delivered, triggered>>
  BY DEF outbox
<1>3. Promise!Settle
  BY <1>1, <1>2 DEF Promise!Settle
<1>4. QED BY <1>3 DEF Promise!Next

LEMMA StepMaps ==
    ASSUME IInv, Checked = TRUE, [Next]_vars
    PROVE  [Promise!Next]_(Promise!vars)
<1>1. CASE OutboxNext
  BY <1>1, SendMaps
<1>2. CASE ~ OutboxNext
  <2>1. /\ UNCHANGED outbox
        /\ \/ chain' = chain
           \/ \E t \in Txs : Create(t) \/ CreateFails(t) \/ Settle(t)
    BY <1>2 DEF Next, Invoke, Check, Pay, Create, CreateFails, Settle, SaveContract,
         SaveTx, MarkTransferring, CallDies, Handle, Record, Miss, Apply,
         RefundFailed, WorkerDies, vars
  <2>2. Steady
    <3>1. CASE chain' = chain
      BY <3>1 DEF Steady
    <3>2. ASSUME NEW t \in Txs, Create(t) \/ CreateFails(t)
          PROVE  Steady
      <4>1. /\ call[t] = "paid"
            /\ chain' = chain \/ chain' = [chain EXCEPT ![t] = "pending"]
        BY <3>2 DEF Create, CreateFails, Step
      <4>2. chain[t] = "none" /\ chain \in [Txs -> Status]
        BY <4>1 DEF IInv, CallInv, TypeOK, OutboxTypeOK
      <4>3. QED BY <4>1, <4>2 DEF Steady
    <3>3. ASSUME NEW t \in Txs, Settle(t)
          PROVE  Steady
      BY <3>3 DEF Settle, Steady, IInv, TypeOK, OutboxTypeOK
    <3>4. QED BY <2>1, <3>1, <3>2, <3>3
  <2>3. QED BY <2>1, <2>2, ChainMaps
<1>3. QED BY <1>1, <1>2

(* The outbox of EVM transactions, whose worker looks at the errors of     *)
(* sending, keeps the promise of Delivery: nothing is sent before it is    *)
(* final, and nothing is noted that was not sent.                          *)
THEOREM OutboxImplementsDelivery ==
    ASSUME Checked = TRUE
    PROVE  Spec => ImplementsDelivery
<1>1. IInv /\ [Next]_vars => [Promise!Next]_(Promise!vars)
  BY StepMaps
<1>2. QED BY <1>1, InitMaps, InvHolds, PTL DEF Spec, ImplementsDelivery, Promise!Spec
=============================================================================
