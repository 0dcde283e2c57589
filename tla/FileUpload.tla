----------------------------- MODULE FileUpload -----------------------------
(***************************************************************************)
(* Uploads to one bucket of the storage service.  A client asks for URLs   *)
(* to put files to S3 and ends the session; the files are registered, and  *)
(* SyncToIPFSWorker validates them and moves them, in batches and in as    *)
(* many runs, to IPFS, asks for them to be pinned to CRUST (CrustPins) and *)
(* adds their sizes to the bucket.  Files are deleted and restored.        *)
(*                                                                         *)
(* Rows of bucket and session are read whole and written whole, without a  *)
(* lock.  Every file has size 1, and a transfer is not wrapped with a      *)
(* directory.  What is read and written of a file's row is one step.       *)
(***************************************************************************)
EXTENDS CrustPins

CONSTANTS
    Sessions,
    SessionOf,  \* the session of each file
    Enders,     \* calls of endFileUploadSession, in the order they begin
    Workers,    \* runs of SyncToIPFSWorker at a time, numbered
    BatchSize,  \* STORAGE_MAX_FILE_BATCH_SIZE_FOR_IPFS
    Quota,      \* availableStorage
    Limits      \* bounds: each says how many runs of the worker there are at a
                \* time, which files somebody deletes and restores, and which
                \* sessions have more than 1000 files

ASSUME FileUploadAssumption ==
    /\ {Enders, Workers} \subseteq SUBSET Nat
    /\ SessionOf \in [Files -> Sessions] /\ IsFiniteSet(Files)
    /\ Sessions # {}
    /\ Limits \subseteq [workers : SUBSET Workers, removable : SUBSET Files,
                        large : SUBSET Sessions]

VARIABLES
    session,    \* sessionStatus
    fur,        \* fileStatus of each file upload request; "asked" is a call
                \* that has passed its checks and not inserted it yet
    s3,         \* files in the queue bucket on S3
    html,       \* those of them that are HTML
    msgs,       \* messages for SyncToIPFSWorker
    ender,      \* the calls of endFileUploadSession
    worker,     \* the runs of SyncToIPFSWorker
    bucket,     \* bucket.size
    remover,    \* calls that delete and restore a file; bound: each once
    lost,       \* history: the bucket was written over a size not read
    again,      \* history: sessions that were worked on twice at a time
    stuck,      \* history: sessions whose call threw or whose message was lost
    dropped,    \* history: files whose run ended before they were pinned
    uncounted,  \* history: files whose run ended before they were counted
    limits

client == <<fur, s3, html>>
size == <<bucket, lost>>
ended == <<ender, stuck>>
runs == <<worker, dropped, uncounted>>
vars == <<file, pins, faults, session, client, msgs, ended, runs, size, remover,
          again, limits>>

(* Sessions whose files are registered by the worker. *)
Large == limits.large

Message == [session : Sessions, process : BOOLEAN, validate : BOOLEAN]
First(s) == [session |-> s, process |-> s \in Large, validate |-> TRUE]
Later(s) == [session |-> s, process |-> FALSE, validate |-> FALSE]

SomeSession == CHOOSE s \in Sessions : TRUE
NoRun == [pc |-> "idle", msg |-> Later(SomeSession), base |-> 0, more |-> FALSE,
          failed |-> FALSE, left |-> {}, moved |-> {}, done |-> {},
          unasked |-> {}, looked |-> {}]

Init == /\ PinsInit
        /\ session = [s \in Sessions |-> "CREATED"]
        /\ fur = [f \in Files |-> "none"]
        /\ s3 = {} /\ html = {}
        /\ msgs = {}
        /\ ender = [e \in Enders |-> [pc |-> "idle", session |-> SomeSession]]
        /\ worker = [w \in Workers |-> NoRun]
        /\ bucket = 0 /\ lost = FALSE
        /\ remover = [f \in Files |-> [pc |-> "idle", base |-> 0]]
        /\ again = {} /\ stuck = {} /\ dropped = {} /\ uncounted = {}
        /\ limits \in Limits

Of(s) == {f \in Files : SessionOf[f] = s}
Registered(s) == {f \in Of(s) : fur[f] \notin {"none", "asked"}}
Completed == {f \in Files : fur[f] = "COMPLETED"}

(* checkStorageSpace throws otherwise. *)
Fits(n) == bucket + n < Quota

(* bucket.update(): the size that was read, with the change. *)
SaveBucket(base, n) == /\ bucket' = base + n
                       /\ lost' = (lost \/ bucket # base)

-----------------------------------------------------------------------------
(* The client *)

(* generateMultipleS3UrlsForUpload: the checks ... *)
AskUrl(f) ==
    /\ fur[f] = "none"
    /\ session[SessionOf[f]] = "CREATED"
    /\ Fits(0)
    /\ fur' = [fur EXCEPT ![f] = "asked"]
    /\ UNCHANGED <<file, pins, faults, session, s3, html, msgs, ended, runs,
                   size, remover, again>>

(* ... and createFURAndS3Url. *)
CreateFur(f) ==
    /\ fur[f] = "asked"
    /\ fur' = [fur EXCEPT ![f] = "SIGNED"]
    /\ UNCHANGED <<file, pins, faults, session, s3, html, msgs, ended, runs,
                   size, remover, again>>

(* The URL stays valid when the session has ended. *)
Put(f) ==
    /\ fur[f] = "SIGNED"
    /\ f \notin s3
    /\ s3' = s3 \cup {f}
    /\ html' \in {html, html \cup {f}}
    /\ UNCHANGED <<file, pins, faults, session, fur, msgs, ended, runs, size,
                   remover, again>>

-----------------------------------------------------------------------------
(* processSessionFiles *)

OnS3(s) == Registered(s) \cap s3
Processable(s) == OnS3(s) # {} /\ Fits(Cardinality(OnS3(s)))

(* A request whose file is not on S3 is marked so; the others get a row    *)
(* of table file, if there is none (INSERT IGNORE).                        *)
ProcessedFurs(s) ==
    [f \in Files |-> IF f \in Registered(s) \ s3 THEN "MISSING" ELSE fur[f]]
ProcessedFiles(s) ==
    [f \in Files |-> IF f \in OnS3(s) /\ file[f] = NoFile
                     THEN [row |-> "active", status |-> "s3"] ELSE file[f]]

(* endFileUploadSession *)

Goto(e, label) == ender' = [ender EXCEPT ![e] =
    [pc |-> label, session |-> IF label = "done" THEN SomeSession ELSE @.session]]

(* A client that has got no answer may call once more. *)
End(e, s) ==
    /\ ender[e].pc = "idle" /\ \A d \in Enders : d < e => ender[d].pc # "idle"
    /\ session[s] = "CREATED"
    /\ IF \E d \in Enders : ender[d] = [pc |-> "read", session |-> s]
       THEN Fault ELSE UNCHANGED faults
    /\ ender' = [ender EXCEPT ![e] = [pc |-> "read", session |-> s]]
    /\ UNCHANGED <<file, pins, session, client, msgs, stuck, runs, size,
                   remover, again>>

MarkEnded(e) ==
    LET s == ender[e].session IN
    /\ ender[e].pc = "read"
    /\ session' = [session EXCEPT ![s] = "IN_PROGRESS"]
    /\ again' = IF session[s] = "CREATED" THEN again ELSE again \cup {s}
    /\ Goto(e, "marked")
    /\ UNCHANGED <<file, pins, faults, client, msgs, stuck, runs, size,
                   remover>>

Process(e) ==
    LET s == ender[e].session IN
    /\ ender[e].pc = "marked"
    /\ s \notin Large => Processable(s)
    /\ fur' = IF s \in Large THEN fur ELSE ProcessedFurs(s)
    /\ file' = IF s \in Large THEN file ELSE ProcessedFiles(s)
    /\ Goto(e, "processed")
    /\ UNCHANGED <<pins, faults, session, s3, html, msgs, stuck, runs, size,
                   remover, again>>

(* Nothing is on S3, there is not enough space, or the call dies: the      *)
(* session has been marked and cannot be ended once more.                  *)
ProcessFails(e) ==
    LET s == ender[e].session IN
    /\ ender[e].pc \in {"marked", "processed"}
    /\ \/ Fault
       \/ ender[e].pc = "marked" /\ s \notin Large /\ ~ Processable(s)
          /\ UNCHANGED faults
    /\ Goto(e, "done")
    /\ stuck' = stuck \cup {s}
    /\ UNCHANGED <<file, pins, session, client, msgs, runs, size, remover,
                   again>>

(* sendToWorkerQueue does not throw, whether the message was taken or not. *)
Send(s, rest) ==
    \/ msgs' = rest \cup {Later(s)} /\ UNCHANGED <<stuck, faults>>
    \/ Fault /\ msgs' = rest /\ stuck' = stuck \cup {s}

SendFirst(e) ==
    LET s == ender[e].session IN
    /\ ender[e].pc = "processed"
    /\ \/ msgs' = msgs \cup {First(s)} /\ UNCHANGED <<stuck, faults>>
       \/ Fault /\ stuck' = stuck \cup {s} /\ UNCHANGED msgs
    /\ Goto(e, "done")
    /\ UNCHANGED <<file, pins, session, client, runs, size, remover, again>>

-----------------------------------------------------------------------------
(* SyncToIPFSWorker *)

(* populateFileUploadRequestsInSessionWithFileSize, and the filter *)
Done == {"COMPLETED", "MISSING"}

Busy(s) == \E w \in Workers : worker[w].pc # "idle" /\ worker[w].msg.session = s
InWork(m) == \E w \in Workers : worker[w].pc # "idle" /\ worker[w].msg = m
Clear(w) == worker' = [worker EXCEPT ![w] = NoRun]

(* The rows of the session, of the bucket and of what is still to be moved *)
(* are read.  A message that is being worked on comes once more if that    *)
(* takes too long, or as a second one; another of the session just comes.  *)
Start(w, m) ==
    LET s == m.session
        furs == IF m.process THEN ProcessedFurs(s) ELSE fur
        left == {f \in Registered(s) : furs[f] \notin Done}
    IN /\ w \in limits.workers
       /\ worker[w].pc = "idle" /\ \A v \in Workers : v < w => worker[v].pc # "idle"
       /\ m \in msgs
       /\ m.process => Processable(s)
       /\ m.validate => left \subseteq s3
       /\ IF InWork(m) THEN Fault ELSE UNCHANGED faults
       /\ again' = IF Busy(s) \/ (m.process /\ Of(s) \cap Completed # {})
                   THEN again \cup {s} ELSE again
       /\ fur' = furs
       /\ file' = IF m.process THEN ProcessedFiles(s) ELSE file
       /\ worker' = [worker EXCEPT ![w] =
            [NoRun EXCEPT !.pc = "read", !.msg = m, !.base = bucket, !.left = left]]
       /\ UNCHANGED <<pins, session, s3, html, msgs, ended, dropped, uncounted,
                      size, remover>>

Reached(w, status) ==
    session' = [session EXCEPT ![worker[w].msg.session] = status]

Empty(w) ==
    /\ worker[w].pc = "read"
    /\ worker[w].left = {}
    /\ Reached(w, "FINISHED")
    /\ msgs' = msgs \ {worker[w].msg}
    /\ Clear(w)
    /\ UNCHANGED <<file, pins, faults, client, ended, dropped, uncounted, size,
                   remover, again>>

Validate(w) ==
    LET run == worker[w] IN
    /\ run.pc = "read" /\ run.msg.validate /\ run.left # {}
    /\ run.left \subseteq s3 \ html
    /\ Reached(w, "VALIDATION_PASSED")
    /\ Send(run.msg.session, msgs \ {run.msg})
    /\ Clear(w)
    /\ UNCHANGED <<file, pins, client, ender, dropped, uncounted, size, remover,
                   again>>

(* blockFiles: also those that are deleted. *)
Reject(w) ==
    LET run == worker[w] IN
    /\ run.pc = "read" /\ run.msg.validate
    /\ run.left \cap html \cap s3 # {}
    /\ Reached(w, "VALIDATION_FAILED")
    /\ file' = [f \in Files |-> IF f \in run.left /\ file[f] # NoFile
                                THEN [file[f] EXCEPT !.row = "blocked"] ELSE file[f]]
    /\ msgs' = msgs \ {run.msg}
    /\ Clear(w)
    /\ UNCHANGED <<pins, faults, client, ended, dropped, uncounted, size,
                   remover, again>>

(* storageBucketSyncFilesToIPFS: the files of a batch move at a time. *)
TakeBatch(w) ==
    LET run == worker[w] IN
    /\ run.pc = "read" /\ ~ run.msg.validate /\ run.left # {}
    /\ \E B \in SUBSET run.left :
         /\ Cardinality(B) = BatchSize \/ (B = run.left /\ Cardinality(B) < BatchSize)
         /\ worker' = [worker EXCEPT ![w].pc = "moving", ![w].left = B,
                                     ![w].more = B # run.left]
    /\ UNCHANGED <<file, pins, faults, session, client, msgs, ended, dropped,
                   uncounted, size, remover, again>>

Move(w, f) ==
    /\ worker[w].pc = "moving"
    /\ f \in worker[w].left \cap s3
    /\ file' = [file EXCEPT ![f] = [row |-> IF @.row = "none" THEN "active" ELSE @.row,
                                    status |-> "ipfs"]]
    /\ worker' = [worker EXCEPT ![w].left = @ \ {f}, ![w].moved = @ \cup {f}]
    /\ UNCHANGED <<pins, faults, session, client, msgs, ended, dropped,
                   uncounted, size, remover, again>>

MoveMissing(w, f) ==
    /\ worker[w].pc = "moving"
    /\ f \in worker[w].left \ s3
    /\ fur' = [fur EXCEPT ![f] = "MISSING"]
    /\ worker' = [worker EXCEPT ![w].left = @ \ {f}]
    /\ UNCHANGED <<file, pins, faults, session, s3, html, msgs, ended, dropped,
                   uncounted, size, remover, again>>

MoveFails(w, f) ==
    /\ Fault
    /\ worker[w].pc = "moving"
    /\ f \in worker[w].left
    /\ fur' = [fur EXCEPT ![f] = "ERROR"]
    /\ worker' = [worker EXCEPT ![w].left = @ \ {f}, ![w].failed = TRUE]
    /\ UNCHANGED <<file, pins, session, s3, html, msgs, ended, dropped,
                   uncounted, size, remover, again>>

(* The request is completed, the size is added in memory, and the file is  *)
(* removed from S3; or this last call fails.                               *)
Complete(w, f) ==
    /\ f \in worker[w].moved
    /\ fur' = [fur EXCEPT ![f] = "COMPLETED"]
    /\ \E failed \in BOOLEAN :
         /\ IF failed THEN Fault /\ UNCHANGED <<s3, html>>
            ELSE s3' = s3 \ {f} /\ html' = html \ {f} /\ UNCHANGED faults
         /\ worker' = [worker EXCEPT
              ![w].moved = @ \ {f}, ![w].done = @ \cup {f},
              ![w].unasked = @ \cup {f}, ![w].failed = @ \/ failed]
    /\ UNCHANGED <<file, pins, session, msgs, ended, dropped, uncounted, size,
                   remover, again>>

Moved(w) == /\ worker[w].pc = "moving" /\ ~ worker[w].failed
            /\ worker[w].left = {} /\ worker[w].moved = {}

\* seeded fault: content without a request is passed over
AskKnown(w, f) ==
    /\ Moved(w)
    /\ f \in worker[w].unasked
    /\ IF Requests(f) # {} THEN Requested(f) ELSE UNCHANGED <<file, pins,
                                                              faults>>
    /\ worker' = [worker EXCEPT ![w].unasked = @ \ {f}]
    /\ UNCHANGED <<session, client, msgs, ended, dropped, uncounted, size,
                   remover, again>>

(* pinFileToCRUST for each file: the look-up, and the insert if there is   *)
(* no request for the content.                                             *)
Ask(w, f) ==
    /\ Moved(w)
    /\ f \in worker[w].unasked \ worker[w].looked
    /\ \/ /\ Requests(f) # {}
          /\ Requested(f)
          /\ worker' = [worker EXCEPT ![w].unasked = @ \ {f}]
       \/ /\ Requests(f) = {}
          /\ worker' = [worker EXCEPT ![w].looked = @ \cup {f}]
          /\ UNCHANGED <<file, pins, faults>>
    /\ UNCHANGED <<session, client, msgs, ended, dropped, uncounted, size,
                   remover, again>>

AskNew(w, f) ==
    /\ f \in worker[w].looked
    /\ Request(f)
    /\ worker' = [worker EXCEPT ![w].unasked = @ \ {f}, ![w].looked = @ \ {f}]
    /\ UNCHANGED <<session, client, msgs, ended, dropped, uncounted, size,
                   remover, again>>

\* seeded fault: files that are not on S3 are counted with the batch
CountBatch(w) ==
    /\ Moved(w)
    /\ worker[w].unasked = {}
    /\ SaveBucket(worker[w].base, BatchSize)
    /\ worker' = [worker EXCEPT ![w].pc = "counted", ![w].base = 0,
                                ![w].done = {}]
    /\ UNCHANGED <<file, pins, faults, session, client, msgs, ended, dropped,
                   uncounted, remover, again>>

Count(w) ==
    /\ Moved(w)
    /\ worker[w].unasked = {}
    /\ SaveBucket(worker[w].base, Cardinality(worker[w].done))
    /\ worker' = [worker EXCEPT ![w].pc = "counted", ![w].base = 0,
                                ![w].done = {}]
    /\ UNCHANGED <<file, pins, faults, session, client, msgs, ended, dropped,
                   uncounted, remover, again>>

\* seeded fault: no message for the next batch
FinishBatch(w) ==
    LET run == worker[w] IN
    /\ run.pc = "counted"
    /\ IF run.more THEN UNCHANGED session ELSE Reached(w, "FINISHED")
    /\ msgs' = msgs \ {run.msg}
    /\ Clear(w)
    /\ UNCHANGED <<file, pins, faults, client, ended, dropped, uncounted, size,
                   remover, again>>

(* The session is finished, or another message starts the next batch. *)
Finish(w) ==
    LET run == worker[w] IN
    /\ run.pc = "counted"
    /\ IF run.more
       THEN Send(run.msg.session, msgs \ {run.msg}) /\ UNCHANGED session
       ELSE /\ Reached(w, "FINISHED")
            /\ msgs' = msgs \ {run.msg}
            /\ UNCHANGED <<stuck, faults>>
    /\ Clear(w)
    /\ UNCHANGED <<file, pins, client, ender, dropped, uncounted, size, remover,
                   again>>

(* The run ends before it is through; its message will come again. *)
Ended(w) ==
    /\ Clear(w)
    /\ dropped' = dropped \cup worker[w].unasked
    /\ uncounted' = uncounted \cup worker[w].done
    /\ UNCHANGED <<file, pins, session, client, msgs, ended, size, remover,
                   again>>

(* A file of the batch has failed, and the run with it (runWithWorkers):   *)
(* those that are moved at the same time get as far as they get.           *)
RunFails(w) == worker[w].failed /\ Ended(w) /\ UNCHANGED faults

(* What is to be validated has gone from S3 meanwhile. *)
ValidateThrows(w) ==
    /\ worker[w].pc = "read" /\ worker[w].msg.validate
    /\ ~ (worker[w].left \subseteq s3)
    /\ Ended(w)
    /\ UNCHANGED faults

RunDies(w) == worker[w].pc # "idle" /\ Fault /\ Ended(w)

-----------------------------------------------------------------------------
(* deleteFile and restoreFile *)

DeleteRead(f) ==
    /\ f \in limits.removable
    /\ remover[f].pc = "idle"
    /\ file[f].row = "active"
    /\ remover' = [remover EXCEPT ![f] = [pc |-> "deleting", base |-> bucket]]
    /\ UNCHANGED <<file, pins, faults, session, client, msgs, ended, runs, size,
                   again>>

MarkDeleted(f) ==
    /\ remover[f].pc = "deleting"
    /\ file' = [file EXCEPT ![f].row = "deleted"]
    /\ remover' = [remover EXCEPT ![f].pc = "marked"]
    /\ UNCHANGED <<pins, faults, session, client, msgs, ended, runs, size,
                   again>>

DeleteCount(f) ==
    /\ remover[f].pc = "marked"
    /\ SaveBucket(remover[f].base, -1)
    /\ remover' = [remover EXCEPT ![f] = [pc |-> "deleted", base |-> 0]]
    /\ UNCHANGED <<file, pins, faults, session, client, msgs, ended, runs,
                   again>>

RestoreRead(f) ==
    /\ remover[f].pc = "deleted"
    /\ file[f].row = "deleted"
    /\ Fits(1)
    /\ remover' = [remover EXCEPT ![f] = [pc |-> "restoring", base |-> bucket]]
    /\ UNCHANGED <<file, pins, faults, session, client, msgs, ended, runs, size,
                   again>>

(* One transaction of the database. *)
Restore(f) ==
    /\ remover[f].pc = "restoring"
    /\ file' = [file EXCEPT ![f].row = "active"]
    /\ SaveBucket(remover[f].base, 1)
    /\ remover' = [remover EXCEPT ![f] = [pc |-> "restored", base |-> 0]]
    /\ UNCHANGED <<pins, faults, session, client, msgs, ended, runs, again>>

-----------------------------------------------------------------------------
service == <<session, client, msgs, ended, runs, size, remover, again>>

Close(e) == \/ MarkEnded(e) \/ Process(e) \/ ProcessFails(e) \/ SendFirst(e)
            \/ \E s \in Sessions : End(e, s)
MoveOne(w, f) == \/ Move(w, f) \/ MoveMissing(w, f) \/ MoveFails(w, f)
                 \/ Complete(w, f) \/ Ask(w, f) \/ AskNew(w, f)
Run(w) == \/ \E m \in msgs : Start(w, m)
          \/ Empty(w) \/ Validate(w) \/ Reject(w) \/ TakeBatch(w)
          \/ Count(w) \/ Finish(w) \/ RunFails(w) \/ ValidateThrows(w)
          \/ RunDies(w)
          \/ \E f \in Files : MoveOne(w, f)
Remove(f) == \/ DeleteRead(f) \/ MarkDeleted(f) \/ DeleteCount(f)
             \/ RestoreRead(f) \/ Restore(f)

Step == \/ \E f \in Files : AskUrl(f) \/ CreateFur(f) \/ Put(f) \/ Remove(f)
        \/ \E e \in Enders : Close(e)
        \/ \E w \in Workers : Run(w)
        \/ PinsNext /\ UNCHANGED service

Next == Step /\ UNCHANGED limits

Spec == Init /\ [][Next]_vars

(* Calls and runs that have something to do do it in the end; the queue    *)
(* delivers a message until it was worked through, and the scheduler       *)
(* starts PinToCrustWorker again and again.                                *)
Progress ==
    \/ \E f \in Files : CreateFur(f)
    \/ \E e \in Enders :
         MarkEnded(e) \/ Process(e) \/ ProcessFails(e) \/ SendFirst(e)
    \/ \E w \in Workers : Run(w)
    \/ \E f \in Files : (PlaceOrder(f) \/ OrderFails(f)) /\ UNCHANGED service

FairSpec == Spec /\ WF_vars(Progress /\ UNCHANGED limits)

-----------------------------------------------------------------------------
(* Types of the rows, the queue and what the runs remember. *)
TypeOK ==
    /\ PinsTypeOK
    /\ session \in [Sessions -> {"CREATED", "IN_PROGRESS", "VALIDATION_PASSED",
                                 "VALIDATION_FAILED", "FINISHED"}]
    /\ fur \in [Files -> {"none", "asked", "SIGNED", "ERROR", "MISSING",
                          "COMPLETED"}]
    /\ html \subseteq s3 /\ s3 \subseteq Files
    /\ msgs \subseteq Message
    /\ ender \in [Enders ->
         [pc : {"idle", "read", "marked", "processed", "done"}, session : Sessions]]
    /\ \A w \in Workers :
         LET run == worker[w] IN
         /\ run.pc \in {"idle", "read", "moving", "counted"}
         /\ run.msg \in Message /\ run.base \in Int
         /\ {run.more, run.failed} \subseteq BOOLEAN
         /\ run.left \cup run.moved \cup run.done \subseteq Of(run.msg.session)
         /\ run.looked \subseteq run.unasked /\ run.unasked \subseteq run.done
    /\ bucket \in Int /\ lost \in BOOLEAN
    /\ \A f \in Files : remover[f].base \in Int
    /\ limits \in Limits
    /\ again \subseteq Sessions /\ stuck \subseteq Sessions
    /\ dropped \subseteq Files /\ uncounted \subseteq Files

Unasked == UNION {worker[w].unasked : w \in Workers}
Uncounted == UNION {worker[w].done : w \in Workers}

(* The content of a file whose upload is completed has been asked to be    *)
(* pinned, or will be by the run that moved it; it is forgotten only if    *)
(* that run ended in between: nobody looks at a completed file again.      *)
CompletedPinned ==
    \A f \in Completed \ (dropped \cup Unasked) : Requests(f) # {}

(* The size of the bucket is that of the files that were moved, without    *)
(* those whose run ended before it counted them, less the deletions; as    *)
(* long as no update was lost and no session was worked on twice at a time.*)
SizeAccounted ==
    \/ lost \/ again # {}
    \/ bucket = Cardinality(Completed \ (uncounted \cup Uncounted))
                  - Cardinality({f \in Files :
                                   remover[f].pc \in {"deleted", "restoring"}})

(* A session that was ended is finished or rejected, unless its call       *)
(* threw, a message was lost, or a file is still to be put to S3.          *)
Awaited(s) == \E f \in Of(s) : fur[f] \in {"SIGNED", "ERROR"} /\ f \notin s3
SessionsFinish ==
    \A s \in Sessions :
      session[s] \in {"IN_PROGRESS", "VALIDATION_PASSED"} ~>
        \/ session[s] \in {"FINISHED", "VALIDATION_FAILED"}
        \/ s \in stuck \/ Awaited(s)
        \/ \E m \in msgs : m.session = s /\ m.process /\ ~ Processable(s)

(* A request to pin is placed, or given up after MaxRuns attempts. *)
PinsSettle ==
    \A f \in Files :
      pin[f].status = "PENDING" ~>
        pin[f].status = "SUCCESSFULL" \/ pin[f].runs = MaxRuns
=============================================================================
