---------------------------- MODULE NftMetadata -----------------------------
(***************************************************************************)
(* PrepareMetadataForCollectionWorker of the storage service: what happens *)
(* between the request to deploy a collection and the message that deploys *)
(* it.  The worker goes through the steps of the row collection_metadata,  *)
(* one message per step.  A run loads the row, works, saves the next step, *)
(* sends the message of the next run, and only then its own message is     *)
(* removed; only the message that step three sends carries the CID of the  *)
(* metadata.                                                               *)
(*                                                                         *)
(* A run that throws or dies leaves its message to be delivered again, and *)
(* the queue may deliver a message again that was worked through: a        *)
(* message may be run at a later step than the one it was sent for.  Two   *)
(* deliveries are worked on one after the other.  Runs that upload another *)
(* batch of the same step change nothing here.                             *)
(***************************************************************************)
EXTENDS Integers, FiniteSets

CONSTANTS
    Preparations,  \* rows of collection_metadata
    MaxFaults      \* bound: how often lambdas die and calls fail

ASSUME FaultsAssumption == MaxFaults \in Nat

VARIABLES
    step,       \* collection_metadata.currentStep, "none" if there is no row
    transferred,\* rows whose metadata files are all UPLOAD_COMPLETED
    message,    \* messages in the queue of the storage service
    runner,     \* where the run of a message is
    deployment, \* base URIs in messages for DeployCollectionWorker
    again,      \* history: rows for which a message was run once more after
                \* a run of it had saved its step
    faults,     \* how many faults there were
    unsent      \* history: rows for which sendToWorkerQueue failed

uploads == <<step, transferred, message, runner, again>>
pipeline == <<uploads, deployment>>
losses == <<faults, unsent>>
stages == <<pipeline, losses>>

Steps == {"none", "images", "jsons", "metadata", "publish", "prepared"}
After == [images |-> "jsons", jsons |-> "metadata", metadata |-> "publish"]

(* Whether a message carries the CID of the metadata, and (history)        *)
(* whether a run of it has saved its step.                                 *)
Message == [cid : BOOLEAN, used : BOOLEAN]
First == [cid |-> FALSE, used |-> FALSE]
NoRun == [pc |-> "idle", msg |-> First, cid |-> FALSE]
Run == [pc : {"idle", "moved", "saved"}, msg : Message, cid : BOOLEAN]

(* The base URI of a collection is made of the CID, or of "undefined". *)
Bases == {"known", "undefined"}
BaseUri(m) == IF m.cid THEN "known" ELSE "undefined"

MetadataInit == /\ step = [d \in Preparations |-> "none"]
                /\ transferred = {}
                /\ message = [d \in Preparations |-> {}]
                /\ runner = [d \in Preparations |-> NoRun]
                /\ deployment = [d \in Preparations |-> {}]
                /\ again = {}
                /\ faults = 0 /\ unsent = {}

Fault == faults < MaxFaults /\ faults' = faults + 1

-----------------------------------------------------------------------------
(* sendToWorkerQueue: the message is put into the queue of the storage     *)
(* service, or the error of that is logged and the caller goes on.         *)
Sent(d, queue, m) ==
    \/ /\ message' = [message EXCEPT ![d] = queue \cup {m}]
       /\ UNCHANGED losses
    \/ /\ message' = [message EXCEPT ![d] = queue]
       /\ Fault /\ unsent' = unsent \cup {d}

(* prepareBaseUriForCollection: a row at its first step, and a message. *)
Prepare(d) ==
    /\ step[d] = "none"
    /\ step' = [step EXCEPT ![d] = "images"]
    /\ Sent(d, {}, First)
    /\ UNCHANGED <<transferred, runner, deployment, again>>

(* A run of message m begins at this step of the row. *)
Starts(d, at, m) ==
    /\ runner[d].pc = "idle"
    /\ step[d] = at
    /\ m \in message[d]
    /\ again' = IF m.used THEN again \cup {d} ELSE again

(* collectionMetadata.update(): the step after the one that was done. *)
Advance(d, at, m) ==
    /\ step' = [step EXCEPT ![d] = After[at]]
    /\ message' = [message EXCEPT ![d] = (@ \ {m}) \cup {[m EXCEPT !.used = TRUE]}]
    /\ runner' = [runner EXCEPT ![d] =
                    [pc |-> "saved", msg |-> [m EXCEPT !.used = TRUE],
                     cid |-> at = "metadata"]]

(* Steps one and two: the last batch of images is uploaded, the JSON files *)
(* point to their images.  A run that ends before it saves, is done again. *)
SaveStep(d) ==
    /\ \E at \in {"images", "jsons"}, m \in message[d] :
         Starts(d, at, m) /\ Advance(d, at, m)
    /\ UNCHANGED <<transferred, deployment, losses>>

(* Step three: the metadata files get their CID and are marked completed.  *)
(* When they already are, the list of files to upload is empty, and        *)
(* uploadFURsToIPFSFromS3 throws on its first element.                     *)
Transfer(d) ==
    /\ d \notin transferred
    /\ \E m \in message[d] :
         /\ Starts(d, "metadata", m)
         /\ runner' = [runner EXCEPT ![d] = [NoRun EXCEPT !.pc = "moved", !.msg = m]]
    /\ transferred' = transferred \cup {d}
    /\ UNCHANGED <<step, message, deployment, losses>>

SaveTransfer(d) ==
    /\ runner[d].pc = "moved"
    /\ Advance(d, "metadata", runner[d].msg)
    /\ UNCHANGED <<transferred, deployment, again, losses>>

\* seeded fault: the CID is not put into the message
NextMessageBare(run) == [cid |-> run.msg.cid, used |-> FALSE]

(* The message of the next run: what the run's own message had, and the    *)
(* CID if the run has got it.                                              *)
NextMessage(run) == [cid |-> run.msg.cid \/ run.cid, used |-> FALSE]

(* The next message is sent, the run ends, and its own message is removed. *)
SendNext(d) ==
    /\ runner[d].pc = "saved"
    /\ Sent(d, message[d] \ {runner[d].msg}, NextMessage(runner[d]))
    /\ runner' = [runner EXCEPT ![d] = NoRun]
    /\ UNCHANGED <<step, transferred, deployment, again>>

(* The run throws or dies, before or after it has sent the next message,   *)
(* or the queue delivers its own message although it has ended well.       *)
RunDies(d) ==
    /\ Fault
    /\ runner[d].pc # "idle"
    /\ \/ UNCHANGED message
       \/ /\ runner[d].pc = "saved"
          /\ message' = [message EXCEPT ![d] = @ \cup {NextMessage(runner[d])}]
    /\ runner' = [runner EXCEPT ![d] = NoRun]
    /\ UNCHANGED <<step, transferred, deployment, again, unsent>>

(* Step four: publish to IPNS, send the collection to be deployed with the *)
(* CID of the run's own message, save, and the message is removed; a run   *)
(* that ends before it saves does it all again.                            *)
Publish(d) ==
    /\ \E m \in message[d] :
         /\ Starts(d, "publish", m)
         /\ \/ /\ deployment' = [deployment EXCEPT ![d] = @ \cup {BaseUri(m)}]
               /\ step' = [step EXCEPT ![d] = "prepared"]
               /\ message' = [message EXCEPT ![d] = @ \ {m}]
               /\ UNCHANGED losses
            \/ /\ step' = [step EXCEPT ![d] = "prepared"]
               /\ message' = [message EXCEPT ![d] = @ \ {m}]
               /\ Fault /\ unsent' = unsent \cup {d}
               /\ UNCHANGED deployment
            \/ /\ deployment' = [deployment EXCEPT ![d] = @ \cup {BaseUri(m)}]
               /\ Fault
               /\ UNCHANGED <<step, message, unsent>>
    /\ UNCHANGED <<transferred, runner>>

(* A message that comes after all is done is taken and does nothing. *)
Ignore(d) ==
    /\ runner[d].pc = "idle"
    /\ step[d] = "prepared"
    /\ message[d] # {}
    /\ message' = [message EXCEPT ![d] = {}]
    /\ UNCHANGED <<step, transferred, runner, deployment, again, losses>>

PipelineStep(d) == \/ SaveStep(d) \/ Transfer(d) \/ SaveTransfer(d)
                   \/ SendNext(d) \/ Publish(d) \/ Ignore(d)
MetadataNext == \E d \in Preparations : PipelineStep(d) \/ RunDies(d)

-----------------------------------------------------------------------------
(* Types of the rows, the messages and the runs. *)
MetadataTypeOK ==
    /\ step \in [Preparations -> Steps]
    /\ transferred \subseteq Preparations /\ again \subseteq Preparations
    /\ message \in [Preparations -> SUBSET Message]
    /\ runner \in [Preparations -> Run]
    /\ deployment \in [Preparations -> SUBSET Bases]
    /\ faults \in 0..MaxFaults /\ unsent \subseteq Preparations

(* A collection is sent to be deployed with the CID of its metadata        *)
(* ("Metadata is prepared. Run nft deploy with cid or ipns as base URI"),  *)
(* whatever fails, dies or is done again before a run has saved its step.  *)
(* Only a message that is run once more after that, at a later step than   *)
(* its own, gets to the last step without the CID.                         *)
BaseUriKnown ==
    \A d \in Preparations : "undefined" \in deployment[d] => d \in again

(* The metadata files are completed and their run has ended before it      *)
(* saved the step: every run of the message throws.                        *)
Stuck(d) == d \in transferred /\ step[d] = "metadata" /\ runner[d].pc = "idle"
=============================================================================
