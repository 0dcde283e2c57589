------------------------------ MODULE Hosting -------------------------------
(***************************************************************************)
(* One website of the storage service: its upload bucket, which sessions   *)
(* fill, its staging and production buckets, which deployments fill, the   *)
(* payment of a deployment, the runs of DeployWebsiteWorker with their     *)
(* retries, and the review of websites without a subscription.             *)
(*                                                                         *)
(* The content of a bucket, or of a directory on IPFS, says for each path  *)
(* which session its file is from, 0 for no file; it stands for its CID.   *)
(* Rows of deployments are read whole and written whole, without a lock.   *)
(* Left out: IPNS records, sizes, pins to CRUST, the cache invalidation,   *)
(* and failures of the writes of the handler of errors itself.             *)
(***************************************************************************)
EXTENDS Naturals, FiniteSets

CONSTANTS
    Deployments,
    Staged,      \* those that were deployed to staging before
    Workers,     \* runs of DeployWebsiteWorker at a time
    Reviewers,   \* calls of approveDeployment or rejectDeployment at a time
    Paths,
    Index,       \* the path of index.html
    Sessions,    \* upload sessions, numbered in the order they end
    Uploaded,    \* the paths of the files of each session
    MaxRetries,  \* 3
    Limits       \* bounds: each says which deployments, workers and reviewers
                 \* there are, and how often calls fail and lambdas die

ASSUME HostingAssumption ==
    /\ Index \in Paths
    /\ Sessions \subseteq Nat \ {0}
    /\ 1 \in Sessions
    /\ Uploaded \in [Sessions -> SUBSET Paths]
    /\ Deployments # {} /\ Staged \subseteq Deployments
    /\ MaxRetries \in Nat
    /\ Limits \subseteq [deployments : SUBSET Deployments, workers : SUBSET Workers,
                        reviewers : SUBSET Reviewers, faults : Nat]

VARIABLES
    upload,      \* content of the upload bucket: rows of files, and S3
    session,     \* the sessions that were ended, and what is still to be
                 \* registered of the last one
    target,      \* staging and production bucket: CID and rows of files
    mfs,         \* the directory of each deployment on the IPFS node
    row,         \* table deployment
    request,     \* the calls of deployWebsite
    queue,       \* messages per deployment
    run,         \* the runs of the worker
    review,      \* the calls of the reviewers
    paid, refunded,
    published,   \* history: deployments that were committed
    approved,    \* history: contents a reviewer has approved
    waived,      \* history: contents that went on without a review
    unsent,      \* history: paid deployments whose message was not sent, or
                 \* whose refund failed
    late,        \* history: deployments worked on twice, or after their end
    disturbed,   \* history: a source bucket changed under a deployment
    limits,
    faults

buckets == <<limits, upload, session, target>>
site == <<buckets, mfs>>
books == <<paid, refunded>>
past == <<published, approved, waived, unsent, late, disturbed>>
vars == <<site, row, request, queue, run, review, books, past, faults>>

-----------------------------------------------------------------------------
Content == [Paths -> Sessions \cup {0}]
Empty == [p \in Paths |-> 0]
Of(k) == [p \in Paths |-> IF p \in Uploaded[k] THEN k ELSE 0]
Over(new, old) == [p \in Paths |-> IF new[p] # 0 THEN new[p] ELSE old[p]]

Environments == {"STAGING", "PRODUCTION", "DIRECT_TO_PRODUCTION"}
Statuses == {"INITIATED", "IN_PROGRESS", "IN_REVIEW", "APPROVED", "SUCCESSFUL",
             "FAILED", "REJECTED"}
Row == [status : Statuses \cup {"none"}, environment : Environments,
        number : Nat, cid : Content, retryCount : 0..MaxRetries]
NoRow == [status |-> "none", environment |-> "STAGING", number |-> 0,
          cid |-> Empty, retryCount |-> 0]
NoRun(d) == [pc |-> "idle", of |-> d, row |-> NoRow, files |-> Empty, cid |-> Empty]
NoReview(d) == [pc |-> "idle", of |-> d, row |-> NoRow]
Some == CHOOSE d \in Deployments : TRUE

Target(environment) == IF environment = "STAGING" THEN "staging" ELSE "production"

(* A website that was created, and deployed to staging once if Staged says *)
(* so, from an upload bucket that was not cleared.                         *)
Init ==
    /\ LET staged == Staged # {}
           first == IF staged THEN Of(1) ELSE Empty
       IN /\ upload = first
          /\ session = [ended |-> IF staged THEN {1} ELSE {}, left |-> {}]
          /\ target = [b \in {"staging", "production"} |->
                         IF b = "staging" THEN [cid |-> first, files |-> first]
                                          ELSE [cid |-> Empty, files |-> Empty]]
          /\ mfs = [d \in Deployments |-> IF d \in Staged THEN first ELSE Empty]
          /\ row = [d \in Deployments |->
                      IF d \in Staged
                      THEN [NoRow EXCEPT !.status = "SUCCESSFUL", !.number = 1,
                                         !.cid = first]
                      ELSE NoRow]
          /\ approved = IF staged THEN {first} ELSE {}
    /\ request = [d \in Deployments |-> IF d \in Staged THEN "done" ELSE "idle"]
    /\ queue = [d \in Deployments |-> 0]
    /\ run = [w \in Workers |-> NoRun(Some)]
    /\ review = [r \in Reviewers |-> NoReview(Some)]
    /\ paid = Staged /\ refunded = {}
    /\ published = Staged /\ waived = {} /\ unsent = {} /\ late = {}
    /\ disturbed = FALSE
    /\ limits \in Limits
    /\ faults = 0

Fault == /\ faults < limits.faults
         /\ faults' = faults + 1

-----------------------------------------------------------------------------
(* The upload bucket *)

Pending(d) == \/ queue[d] > 0
              \/ \E w \in Workers : run[w].pc # "idle" /\ run[w].of = d

(* A deployment has taken what it found in the upload bucket, and may look *)
(* there once more.                                                        *)
Taken(d) == /\ mfs[d] # Empty
            /\ \/ Pending(d)
               \/ row[d].status \in {"IN_REVIEW", "APPROVED"}
               \/ \E r \in Reviewers : review[r].pc # "idle" /\ review[r].of = d
Reading == \E w \in Workers : /\ run[w].pc = "files"
                              /\ run[w].row.environment # "PRODUCTION"
Change(content, working) ==
    /\ upload' = content
    /\ disturbed' = (disturbed \/ Reading \/ \E d \in Deployments \ working : Taken(d))

(* endFileUploadSession of a hosting bucket: the bucket is cleared, ...    *)
EndSession(k) ==
    /\ k \notin session.ended
    /\ \A j \in Sessions : j < k => j \in session.ended
    /\ session.left = {}
    /\ Change(Empty, {})
    /\ session' = [ended |-> session.ended \cup {k}, left |-> Uploaded[k]]
    /\ UNCHANGED <<limits, target, mfs, row, request, queue, run, review, books,
                   published, approved, waived, unsent, late, faults>>

(* ... and the files of the session get their rows one at a time.          *)
Register(p) ==
    /\ p \in session.left
    /\ \E k \in session.ended :
         /\ \A j \in session.ended : j <= k
         /\ Change([upload EXCEPT ![p] = k], {})
    /\ session' = [session EXCEPT !.left = @ \ {p}]
    /\ UNCHANGED <<limits, target, mfs, row, request, queue, run, review, books,
                   published, approved, waived, unsent, late, faults>>

(* deleteFile: a file of the upload bucket, which has no CID.              *)
DeleteFile(p) ==
    /\ upload[p] # 0
    /\ Fault
    /\ Change([upload EXCEPT ![p] = 0], {})
    /\ UNCHANGED <<limits, session, target, mfs, row, request, queue, run, review,
                   books, published, approved, waived, unsent, late>>

-----------------------------------------------------------------------------
(* deployWebsite *)

\* seeded fault: production takes its files from the upload bucket
SourceUpload(environment) == upload

Source(environment) ==
    IF environment = "PRODUCTION" THEN target["staging"].files ELSE upload

(* The rows populateLastDeployment may find: of those with the same number *)
(* it finds any.                                                           *)
Last(environments) ==
    LET done == {d \in Deployments : /\ row[d].status = "SUCCESSFUL"
                                     /\ row[d].environment \in environments}
    IN {row[d] : d \in {e \in done : \A f \in done : row[f].number <= row[e].number}}
       \cup (IF done = {} THEN {NoRow} ELSE {})
LastStaging == Last({"STAGING"})
LastProduction == Last({"PRODUCTION", "DIRECT_TO_PRODUCTION"})

(* The checks and the new row.  Two calls at the same time give two rows   *)
(* the same number, as two calls before the first of them succeeds do.     *)
Request(d, environment) ==
    /\ request[d] = "idle"
    /\ d \in limits.deployments
    /\ Source(environment)[Index] # 0
    /\ \E staging \in LastStaging, production \in LastProduction :
         /\ environment = "PRODUCTION" => staging.cid # production.cid
         /\ row' = [row EXCEPT ![d] =
              [status |-> "INITIATED", environment |-> environment,
               number |-> 1 + (IF environment = "STAGING" THEN staging.number
                                                          ELSE production.number),
               cid |-> Empty, retryCount |-> 0]]
    /\ request' = [request EXCEPT ![d] = "inserted"]
    /\ UNCHANGED <<site, queue, run, review, books, past, faults>>

Spend(d) ==
    /\ request[d] = "inserted"
    /\ paid' = paid \cup {d}
    /\ request' = [request EXCEPT ![d] = "paid"]
    /\ UNCHANGED <<site, row, queue, run, review, refunded, past, faults>>

SpendFails(d) ==
    /\ request[d] = "inserted"
    /\ row' = [row EXCEPT ![d] = NoRow]
    /\ request' = [request EXCEPT ![d] = "done"]
    /\ UNCHANGED <<site, queue, run, review, books, past, faults>>

(* deployment.deploy(): an error of the queue is logged, and nothing else. *)
Send(d) == \/ queue' = [queue EXCEPT ![d] = @ + 1] /\ UNCHANGED <<unsent, faults>>
           \/ Fault /\ unsent' = unsent \cup {d} /\ UNCHANGED queue

Deploy(d) ==
    /\ request[d] = "paid"
    /\ Send(d)
    /\ request' = [request EXCEPT ![d] = "done"]
    /\ UNCHANGED <<site, row, run, review, books, published, approved, waived,
                   late, disturbed>>

RequestDies(d) ==
    /\ request[d] \in {"inserted", "paid"}
    /\ Fault
    /\ request' = [request EXCEPT ![d] = "done"]
    /\ unsent' = unsent \cup {d}
    /\ UNCHANGED <<site, row, queue, run, review, books, published, approved,
                   waived, late, disturbed>>

-----------------------------------------------------------------------------
(* DeployWebsiteWorker *)

Put(d, new) == row' = [row EXCEPT ![d] = new]
Goto(w, pc) == run' = [run EXCEPT ![w].pc = pc]
(* The message comes again, or is deleted. *)
Again(w) == /\ queue' = [queue EXCEPT ![run[w].of] = @ + 1]
            /\ run' = [run EXCEPT ![w] = NoRun(Some)]
Drop(w) == run' = [run EXCEPT ![w] = NoRun(Some)]

Take(w, d) ==
    /\ run[w].pc = "idle"
    /\ w \in limits.workers
    /\ queue[d] > 0
    /\ queue' = [queue EXCEPT ![d] = @ - 1]
    /\ run' = [run EXCEPT ![w] = [NoRun(d) EXCEPT !.pc = "taken", !.row = row[d]]]
    /\ late' = IF d \in published \cup refunded
                   \/ \E v \in Workers : run[v].pc # "idle" /\ run[v].of = d
               THEN late \cup {d} ELSE late
    /\ UNCHANGED <<site, row, request, review, books, published, approved, waived,
                   unsent, disturbed, faults>>

(* A run remembers that the deployment was approved in row.status. *)
Mark(w) ==
    LET new == [run[w].row EXCEPT !.status = "IN_PROGRESS"] IN
    /\ run[w].pc = "taken"
    /\ Put(run[w].of, new)
    /\ Goto(w, IF run[w].row.environment = "PRODUCTION" THEN "marked" ELSE "bucket")
    /\ UNCHANGED <<site, request, queue, review, books, past, faults>>

ReadBucket(w) ==
    /\ run[w].pc = "marked"
    /\ run' = [run EXCEPT ![w].pc = "bucket", ![w].cid = target["staging"].cid]
    /\ UNCHANGED <<site, row, request, queue, review, books, past, faults>>

ReadFiles(w) ==
    LET environment == run[w].row.environment IN
    /\ run[w].pc = "bucket"
    /\ run' = [run EXCEPT
         ![w].pc = IF environment = "PRODUCTION" THEN "ready" ELSE "files",
         ![w].files = Source(environment)]
    /\ UNCHANGED <<site, row, request, queue, review, books, past, faults>>

(* The files that are still on S3 are written one by one, over what an     *)
(* earlier attempt of the deployment left in its directory.                *)
OnS3(content) ==
    [p \in Paths |-> IF upload[p] = content[p] THEN content[p] ELSE 0]
Written(w, paths) ==
    Over([p \in Paths |-> IF p \in paths THEN OnS3(run[w].files)[p] ELSE 0],
         mfs[run[w].of])
Directory(w) == Written(w, Paths)
(* A run that ends while it uploads leaves the files it has written.       *)
Leave(w) == IF run[w].pc = "files"
            THEN \E paths \in SUBSET Paths :
                   mfs' = [mfs EXCEPT ![run[w].of] = Written(w, paths)]
            ELSE UNCHANGED mfs
Uploadable(w) == run[w].files # Empty /\ Directory(w) # Empty

\* seeded fault: any deployment of that content makes it known
KnownAny(cid) == \E d \in Deployments : row[d].cid = cid

(* populateDeploymentByCid *)
Known(cid) ==
    \E d \in Deployments : row[d].status = "SUCCESSFUL" /\ row[d].cid = cid
Reviewed(w) == run[w].row.status = "APPROVED" \/ Known(Directory(w))

(* At each run the website may be that of a collection, its project may    *)
(* have a subscription then, or another website may have published the     *)
(* same content: it is excused from the review.                            *)
Upload(w) ==
    LET cid == Directory(w) IN
    /\ run[w].pc = "files"
    /\ Uploadable(w)
    /\ mfs' = [mfs EXCEPT ![run[w].of] = cid]
    /\ \E excused \in BOOLEAN :
         /\ run' = [run EXCEPT
              ![w].pc = IF excused \/ Reviewed(w) THEN "ready" ELSE "review",
              ![w].cid = cid, ![w].row.cid = cid]
         /\ waived' = IF excused /\ ~ Reviewed(w) THEN waived \cup {cid} ELSE waived
    /\ UNCHANGED <<buckets, row, request, queue, review, books, published, approved,
                   unsent, late, disturbed, faults>>

(* sendToReview: the row, and then the screenshot and the message.         *)
SendToReview(w) ==
    LET new == [run[w].row EXCEPT !.status = "IN_REVIEW"] IN
    /\ run[w].pc = "review"
    /\ Put(run[w].of, new)
    /\ run' = [run EXCEPT ![w].pc = "asked", ![w].row = new]
    /\ UNCHANGED <<site, request, queue, review, books, past, faults>>

(* The transaction of the worker. *)
Done(w) == [run[w].row EXCEPT !.status = "SUCCESSFUL", !.cid = run[w].cid]
Commit(w) ==
    LET bucket == Target(run[w].row.environment) IN
    /\ run[w].pc = "ready"
    /\ target' = [target EXCEPT ![bucket] = [cid |-> run[w].cid,
                                             files |-> run[w].files]]
    /\ Put(run[w].of, Done(w))
    /\ run' = [run EXCEPT ![w].pc = "committed", ![w].row = Done(w)]
    /\ published' = published \cup {run[w].of}
    /\ disturbed' = (disturbed \/ /\ bucket = "staging"
                                  /\ \E v \in Workers :
                                       /\ run[v].pc = "bucket"
                                       /\ run[v].row.environment = "PRODUCTION")
    /\ UNCHANGED <<limits, upload, session, mfs, request, queue, review, books,
                   approved, waived, unsent, late, faults>>

(* clearBucketForUpload is a choice of the client.  Errors are ignored.    *)
ClearSource(w) ==
    /\ run[w].pc = "committed"
    /\ run[w].row.environment # "PRODUCTION"
    /\ Change(Empty, {run[w].of})
    /\ Goto(w, "cleared")
    /\ UNCHANGED <<limits, session, target, mfs, row, request, queue, review, books,
                   published, approved, waived, unsent, late, faults>>

Finish(w) ==
    /\ run[w].pc \in {"asked", "committed", "cleared"}
    /\ Drop(w)
    /\ UNCHANGED <<site, row, request, queue, review, books, past, faults>>

\* seeded fault: the error is swallowed after a retry was noted
CatchSwallowed(w, new) ==
    LET d == run[w].of IN
    /\ Put(d, [new EXCEPT !.retryCount = (@ + 1) % (MaxRetries + 1)])
    /\ Drop(w)
    /\ UNCHANGED <<buckets, request, queue, review, books, past>>

(* The handler of errors: the row is written as it is in memory, and the   *)
(* message comes again, MaxRetries times.                                  *)
Catch(w, new) ==
    LET d == run[w].of IN
    /\ late' = IF d \in published THEN late \cup {d} ELSE late
    /\ IF new.retryCount < MaxRetries
       THEN /\ Put(d, [new EXCEPT !.retryCount = @ + 1])
            /\ Again(w)
       ELSE /\ Put(d, [new EXCEPT !.status = "FAILED"])
            /\ Goto(w, "failed")
            /\ UNCHANGED queue
    /\ UNCHANGED <<buckets, request, review, books, published, approved, waived,
                   unsent, disturbed>>

(* What the row in memory may say: before sendToReview writes it, and     *)
(* also when that write fails, either.                                     *)
InMemory(w) ==
    LET pc == run[w].pc
        As(status) == [run[w].row EXCEPT !.status = status]
    IN CASE pc \in {"marked", "bucket", "files", "ready"} -> {As("IN_PROGRESS")}
         [] pc = "review" -> {As("IN_PROGRESS"), As("IN_REVIEW")}
         [] OTHER -> {run[w].row}

Fails(w) ==
    /\ run[w].pc \in {"marked", "bucket", "files", "ready", "review", "asked",
                      "committed", "cleared"}
    /\ Fault
    /\ \E new \in InMemory(w) : Catch(w, new)
    /\ Leave(w)

(* No files were found, or none of them is on S3 any more.                 *)
UploadFails(w) ==
    /\ run[w].pc = "files"
    /\ ~ Uploadable(w)
    /\ \E new \in InMemory(w) : Catch(w, new)
    /\ UNCHANGED <<mfs, faults>>

\* seeded fault: an error of the commit does not reach the handler of errors
CommitFailsSwallowed(w) ==
    /\ run[w].pc = "ready"
    /\ Fault
    /\ Put(run[w].of, Done(w))
    /\ Drop(w)
    /\ UNCHANGED <<site, request, queue, review, books, past>>

(* The end of the transaction fails: it is rolled back, but the row in     *)
(* memory already says SUCCESSFUL.                                         *)
CommitFails(w) ==
    /\ run[w].pc = "ready"
    /\ Fault
    /\ Catch(w, Done(w))
    /\ UNCHANGED mfs

Refund(w) ==
    /\ run[w].pc = "failed"
    /\ \/ refunded' = refunded \cup (paid \cap {run[w].of})
          /\ UNCHANGED <<unsent, faults>>
       \/ Fault /\ unsent' = unsent \cup {run[w].of} /\ UNCHANGED refunded
    /\ Drop(w)
    /\ UNCHANGED <<site, row, request, queue, review, paid, published, approved,
                   waived, late, disturbed>>

Dies(w) ==
    /\ run[w].pc # "idle"
    /\ Fault
    /\ Again(w)
    /\ Leave(w)
    /\ UNCHANGED <<buckets, row, request, review, books, past>>

-----------------------------------------------------------------------------
(* approveDeployment and rejectDeployment *)

Look(r, d) ==
    /\ review[r].pc = "idle"
    /\ r \in limits.reviewers
    /\ row[d].status = "IN_REVIEW"
    /\ review' = [review EXCEPT ![r] = [pc |-> "read", of |-> d, row |-> row[d]]]
    /\ UNCHANGED <<site, row, request, queue, run, books, past, faults>>

Approve(r) ==
    /\ review[r].pc = "read"
    /\ Put(review[r].of, [review[r].row EXCEPT !.status = "APPROVED"])
    /\ approved' = approved \cup {review[r].row.cid}
    /\ review' = [review EXCEPT ![r].pc = "approved"]
    /\ UNCHANGED <<site, request, queue, run, books, published, waived, unsent,
                   late, disturbed, faults>>

SendApproved(r) ==
    /\ review[r].pc = "approved"
    /\ Send(review[r].of)
    /\ review' = [review EXCEPT ![r] = NoReview(Some)]
    /\ UNCHANGED <<site, row, request, run, books, published, approved, waived,
                   late, disturbed>>

Reject(r) ==
    /\ review[r].pc = "read"
    /\ Put(review[r].of, [review[r].row EXCEPT !.status = "REJECTED"])
    /\ review' = [review EXCEPT ![r] = NoReview(Some)]
    /\ UNCHANGED <<site, request, queue, run, books, past, faults>>

-----------------------------------------------------------------------------
Client == \/ \E k \in Sessions : EndSession(k)
          \/ \E p \in Paths : Register(p) \/ DeleteFile(p)
          \/ \E d \in Deployments : \E e \in Environments : Request(d, e)
Call(d) == Spend(d) \/ SpendFails(d) \/ Deploy(d) \/ RequestDies(d)
Work(w) == \/ Mark(w) \/ ReadBucket(w) \/ ReadFiles(w) \/ Upload(w)
           \/ SendToReview(w) \/ Commit(w) \/ ClearSource(w) \/ Finish(w)
           \/ UploadFails(w) \/ Refund(w)
Trouble(w) == Fails(w) \/ CommitFails(w) \/ Dies(w)
Decide(r) == Approve(r) \/ SendApproved(r) \/ Reject(r)

Next == \/ Client
        \/ \E d \in Deployments : Call(d)
        \/ \E w \in Workers : \/ Work(w) \/ Trouble(w)
                              \/ \E d \in Deployments : Take(w, d)
        \/ \E r \in Reviewers : Decide(r) \/ \E d \in Deployments : Look(r, d)

Spec == Init /\ [][Next]_vars

(* Calls and runs that have begun go on, and the queue delivers a message  *)
(* in the end, whatever else it has to deliver.  Nobody has to review.     *)
FairSpec ==
    /\ Spec
    /\ \A d \in Deployments : /\ WF_vars(Spend(d) \/ SpendFails(d) \/ Deploy(d))
                              /\ SF_vars(\E w \in Workers : Take(w, d))
    /\ \A w \in Workers : WF_vars(Work(w))
    /\ \A r \in Reviewers : WF_vars(Decide(r))

-----------------------------------------------------------------------------
(* Types of the rows, of the queue and of what the lambdas remember. *)
PCs == {"idle", "taken", "marked", "bucket", "files", "review", "asked", "ready",
        "committed", "cleared", "failed"}
TypeOK ==
    /\ upload \in Content
    /\ session \in [ended : SUBSET Sessions, left : SUBSET Paths]
    /\ target \in [{"staging", "production"} -> [cid : Content, files : Content]]
    /\ mfs \in [Deployments -> Content]
    /\ row \in [Deployments -> Row]
    /\ request \in [Deployments -> {"idle", "inserted", "paid", "done"}]
    /\ queue \in [Deployments -> Nat]
    /\ run \in [Workers -> [pc : PCs, of : Deployments, row : Row,
                            files : Content, cid : Content]]
    /\ review \in [Reviewers ->
                     [pc : {"idle", "read", "approved"}, of : Deployments, row : Row]]
    /\ paid \subseteq Deployments /\ refunded \subseteq paid
    /\ published \subseteq Deployments
    /\ approved \subseteq Content /\ waived \subseteq Content
    /\ unsent \subseteq Deployments /\ late \subseteq Deployments
    /\ disturbed \in BOOLEAN
    /\ limits \in Limits
    /\ faults \in 0..limits.faults

(* What the rows of a target bucket list is what its CID holds, whatever   *)
(* was retried, rolled back or deployed at the same time, as long as no    *)
(* source bucket changed under a deployment.                               *)
BucketsConsistent ==
    disturbed \/ \A b \in {"staging", "production"} : target[b].files = target[b].cid

(* Nothing is deployed to any bucket that a reviewer has not approved and  *)
(* that was not excused from the review when it was uploaded, as long as   *)
(* no source changed under a deployment.                                   *)
ReviewedFirst ==
    \/ disturbed
    \/ \A b \in {"staging", "production"} :
         target[b].cid \in approved \cup waived \cup {Empty}

(* A deployment that says it was successful was committed, or its message  *)
(* comes again; and what was committed is refunded only if the worker went *)
(* on with it after that, or had it twice at the same time.                *)
OutcomeSound ==
    \A d \in Deployments :
      /\ row[d].status = "SUCCESSFUL" => d \in published \/ Pending(d)
      /\ d \in refunded \cap published => d \in late

(* A paid deployment is published, reviewed or, when it fails, paid back,  *)
(* unless a message could not be sent, the refund failed, or the worker    *)
(* had the deployment twice at the same time: then each run writes back    *)
(* the count of retries it has read, and they may try for ever.            *)
Settled(d) ==
    \/ row[d].status \in {"SUCCESSFUL", "IN_REVIEW", "REJECTED"}
    \/ row[d].status = "FAILED" /\ d \in refunded
    \/ d \in unsent \cup late
DeploymentsSettle ==
    \A d \in Deployments : d \in paid /\ ~ Settled(d) ~> Settled(d)
=============================================================================
