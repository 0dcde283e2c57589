---------------------------- MODULE HostingProofs ----------------------------
(***************************************************************************)
(* Proofs about Hosting, for any number of deployments, workers and        *)
(* reviewers, any files and sessions, any number of retries and faults.    *)
(***************************************************************************)
EXTENDS Hosting, TLAPS

-----------------------------------------------------------------------------
(* The inductive invariant, in the parts that the proofs need one by one.  *)
Active(w) == run[w].pc # "idle"
Deciding(r) == review[r].pc # "idle"

(* Before a deployment was sent to the queue there is nothing of it. *)
FreshInv ==
    \A d \in Deployments : request[d] # "done" =>
      /\ mfs[d] = Empty /\ queue[d] = 0
      /\ row[d].status \in {"none", "INITIATED"}
      /\ \A w \in Workers : Active(w) => run[w].of # d
      /\ \A r \in Reviewers : Deciding(r) => review[r].of # d

(* What a run remembers of its deployment. *)
StateInv ==
    \A w \in Workers :
      /\ run[w].pc = "files" => run[w].row.environment # "PRODUCTION"
      /\ run[w].pc = "asked" => run[w].row.status = "IN_REVIEW"
      /\ run[w].pc \in {"committed", "cleared"} => /\ run[w].row.status = "SUCCESSFUL"
                                                   /\ run[w].of \in published

(* What was taken from the upload bucket, all of it or some files of it,   *)
(* is there, until the bucket is cleared.                                  *)
Part(part, whole) == \A p \in Paths : part[p] \in {0, whole[p]}
TakenInv ==
    disturbed \/ \A d \in Deployments :
      Taken(d) => upload = Empty \/ Part(mfs[d], upload)

(* What a run has read of its source is what is there. *)
ReadInv ==
    disturbed \/ \A w \in Workers :
      /\ run[w].pc = "files" => run[w].files = upload
      /\ run[w].pc = "bucket" /\ run[w].row.environment = "PRODUCTION" =>
           run[w].cid = target["staging"].cid
      /\ run[w].pc = "ready" => run[w].files = run[w].cid

(* What a reviewer is shown, and what he has approved, is the directory of *)
(* the deployment, and that holds all the files of the upload bucket.      *)
Whole(d) == mfs[d] # Empty /\ upload \in {mfs[d], Empty}
Shown(d, r) == Whole(d) /\ r.cid = mfs[d]
Passed(d) == Whole(d) /\ mfs[d] \in approved
ReviewInv ==
    disturbed \/
      /\ \A d \in Deployments : /\ row[d].status = "IN_REVIEW" => Shown(d, row[d])
                                /\ row[d].status = "APPROVED" => Passed(d)
      /\ \A w \in Workers :
           /\ run[w].pc \in {"review", "asked"} => Shown(run[w].of, run[w].row)
           /\ Active(w) /\ run[w].row.status = "APPROVED" => Passed(run[w].of)
      /\ \A r \in Reviewers :
           review[r].pc = "read" => Shown(review[r].of, review[r].row)

(* Whatever may come to be deployed was approved, or excused.              *)
Fine(cid) == cid \in approved \cup waived \cup {Empty}
CidInv ==
    disturbed \/
      /\ \A b \in {"staging", "production"} : Fine(target[b].cid)
      /\ \A d \in Deployments : row[d].status = "SUCCESSFUL" => Fine(row[d].cid)
      /\ \A w \in Workers :
           /\ run[w].pc = "ready" => Fine(run[w].cid)
           /\ run[w].pc = "bucket" /\ run[w].row.environment = "PRODUCTION" =>
                Fine(run[w].cid)
           /\ run[w].pc \in {"committed", "cleared"} => Fine(run[w].row.cid)

(* A successful row that was not committed is about to be written again; a *)
(* deployment that ends twice was worked on twice, or after its end.       *)
EndInv ==
    /\ \A d \in Deployments :
         row[d].status = "SUCCESSFUL" /\ d \notin published =>
           queue[d] > 0 \/ \E w \in Workers : run[w].pc = "taken" /\ run[w].of = d
    /\ \A v, w \in Workers :
         Active(v) /\ Active(w) /\ v # w /\ run[v].of = run[w].of => run[v].of \in late
    /\ \A w \in Workers :
         /\ run[w].pc = "failed" /\ run[w].of \in published => run[w].of \in late
         /\ Active(w) /\ run[w].of \in refunded => run[w].of \in late
    /\ refunded \cap published \subseteq late

IInv == /\ TypeOK /\ FreshInv /\ StateInv /\ TakenInv /\ ReadInv /\ ReviewInv
        /\ CidInv /\ EndInv /\ BucketsConsistent

-----------------------------------------------------------------------------
(* Types *)

Run == [pc : PCs, of : Deployments, row : Row, files : Content, cid : Content]
Review == [pc : {"idle", "read", "approved"}, of : Deployments, row : Row]
Buckets == {"staging", "production"}

(* What the assumption says of the constants.                              *)
LEMMA Constants ==
    /\ Some \in Deployments /\ Staged \subseteq Deployments
    /\ MaxRetries \in Nat /\ \A l \in Limits : l.faults \in Nat
  BY HostingAssumption DEF Some

(* Contents of buckets, and how they change.                               *)
LEMMA Contents ==
    /\ Empty \in Content
    /\ \A k \in Sessions : Of(k) \in Content
    /\ \A new, old \in Content : Over(new, old) \in Content
    /\ \A content \in Content : \A p \in Paths :
         /\ [content EXCEPT ![p] = 0] \in Content
         /\ \A k \in Sessions : [content EXCEPT ![p] = k] \in Content
  BY DEF Content, Empty, Of, Over

(* Rows and runs, and how they change.                                     *)
LEMMA Rows ==
    /\ NoRow \in Row
    /\ \A r \in Row :
         /\ \A s \in Statuses : [r EXCEPT !.status = s] \in Row
         /\ \A c \in Content : [r EXCEPT !.cid = c] \in Row
         /\ r.retryCount < MaxRetries => [r EXCEPT !.retryCount = @ + 1] \in Row
    /\ \A d \in Deployments : NoRun(d) \in Run /\ NoReview(d) \in Review
<1>1. NoRow \in Row
  BY Contents, Constants DEF NoRow, Row, Environments
<1>2. ASSUME NEW r \in Row
      PROVE  /\ \A s \in Statuses : [r EXCEPT !.status = s] \in Row
             /\ \A c \in Content : [r EXCEPT !.cid = c] \in Row
             /\ r.retryCount < MaxRetries => [r EXCEPT !.retryCount = @ + 1] \in Row
  BY Constants DEF Row
<1>3. \A d \in Deployments : NoRun(d) \in Run /\ NoReview(d) \in Review
  BY <1>1, Contents DEF NoRun, NoReview, Run, Review, PCs
<1>4. QED BY <1>1, <1>2, <1>3

(* The initial states have their types.                                    *)
LEMMA TypeInit == Init => TypeOK
<1> SUFFICES ASSUME Init PROVE TypeOK
  OBVIOUS
<1>1. Of(1) \in Content /\ Empty \in Content
  BY Contents, HostingAssumption
<1>2. [NoRow EXCEPT !.status = "SUCCESSFUL", !.number = 1, !.cid = Of(1)] \in Row
  <2>1. ASSUME NEW r \in Row, NEW s \in Statuses, NEW n \in Nat, NEW c \in Content
        PROVE  [r EXCEPT !.status = s, !.number = n, !.cid = c] \in Row
    BY DEF Row
  <2>2. "SUCCESSFUL" \in Statuses /\ 1 \in Nat
    BY DEF Statuses
  <2>3. QED BY <1>1, <2>1, <2>2, Rows
<1>3. /\ upload \in Content
      /\ session \in [ended : SUBSET Sessions, left : SUBSET Paths]
      /\ target \in [{"staging", "production"} -> [cid : Content, files : Content]]
      /\ mfs \in [Deployments -> Content]
      /\ approved \subseteq Content /\ waived \subseteq Content
  BY <1>1, HostingAssumption DEF Init
<1>4. row \in [Deployments -> Row]
  BY <1>1, <1>2, Rows DEF Init
<1>5. /\ run \in [Workers -> Run] /\ review \in [Reviewers -> Review]
      /\ queue \in [Deployments -> Nat]
      /\ request \in [Deployments -> {"idle", "inserted", "paid", "done"}]
  BY Rows, Constants DEF Init
<1>6. faults \in 0..limits.faults /\ limits \in Limits
  <2>1. limits \in Limits /\ faults = 0
    BY DEF Init
  <2>2. limits.faults \in Nat
    BY <2>1, Constants
  <2>3. QED BY <2>1, <2>2
<1>7. QED
  BY <1>3, <1>4, <1>5, <1>6, Constants DEF Init, TypeOK, Run, Review

(* Types of what the actions share. *)
LEMMA SharedTypes ==
    ASSUME TypeOK, limits' = limits
    PROVE  /\ Fault \/ UNCHANGED faults => faults' \in 0..limits.faults
           /\ \A d \in Deployments : \A new \in Row : Put(d, new) => row' \in [Deployments -> Row]
           /\ \A w \in Workers : \A pc \in PCs : Goto(w, pc) => run' \in [Workers -> Run]
           /\ \A w \in Workers : Drop(w) => run' \in [Workers -> Run]
           /\ \A w \in Workers : Again(w) => /\ run' \in [Workers -> Run]
                                             /\ queue' \in [Deployments -> Nat]
           /\ \A d \in Deployments :
                Send(d) => /\ queue' \in [Deployments -> Nat] /\ unsent' \subseteq Deployments
                           /\ faults' \in 0..limits.faults
           /\ \A content \in Content : \A S : Change(content, S) =>
                upload' \in Content /\ disturbed' \in BOOLEAN
<1>1. /\ faults \in 0..limits.faults /\ limits.faults \in Nat
      /\ row \in [Deployments -> Row] /\ run \in [Workers -> Run]
      /\ queue \in [Deployments -> Nat] /\ unsent \subseteq Deployments
      /\ disturbed \in BOOLEAN
  BY Constants DEF TypeOK, Run
<1>2. Fault \/ UNCHANGED faults => faults' \in 0..limits.faults
  BY <1>1 DEF Fault
<1>3. \A d \in Deployments : \A new \in Row : Put(d, new) => row' \in [Deployments -> Row]
  BY <1>1 DEF Put
<1>4. \A w \in Workers : \A pc \in PCs : Goto(w, pc) => run' \in [Workers -> Run]
  BY <1>1 DEF Goto, Run
<1>5. \A w \in Workers : Drop(w) => run' \in [Workers -> Run]
  BY <1>1, Rows, Constants DEF Drop
<1>6. \A w \in Workers : Again(w) => /\ run' \in [Workers -> Run]
                                     /\ queue' \in [Deployments -> Nat]
  BY <1>1, Rows, Constants DEF Again, Run
<1>7. \A d \in Deployments :
        Send(d) => /\ queue' \in [Deployments -> Nat] /\ unsent' \subseteq Deployments
                   /\ faults' \in 0..limits.faults
  BY <1>1, <1>2 DEF Send
<1>8. \A content \in Content : \A S : Change(content, S) =>
        upload' \in Content /\ disturbed' \in BOOLEAN
  BY <1>1 DEF Change
<1>9. QED BY <1>2, <1>3, <1>4, <1>5, <1>6, <1>7, <1>8

(* The handler of errors keeps the types.                                  *)
LEMMA CatchTypes ==
    ASSUME TypeOK, limits' = limits, NEW w \in Workers, NEW new \in Row, Catch(w, new)
    PROVE  /\ row' \in [Deployments -> Row] /\ run' \in [Workers -> Run]
           /\ queue' \in [Deployments -> Nat] /\ late' \subseteq Deployments
           /\ UNCHANGED <<buckets, request, review, books, published, approved, waived,
                          unsent, disturbed>>
<1>1. /\ run[w].of \in Deployments /\ queue \in [Deployments -> Nat]
      /\ late \subseteq Deployments
  BY DEF TypeOK
<1>2. /\ UNCHANGED <<buckets, request, review, books, published, approved, waived,
                     unsent, disturbed>>
      /\ late' \subseteq Deployments
  BY <1>1 DEF Catch
<1>3. CASE new.retryCount < MaxRetries
  BY <1>1, <1>2, <1>3, Rows, SharedTypes DEF Catch
<1>4. CASE ~ (new.retryCount < MaxRetries)
  <2>1. /\ Put(run[w].of, [new EXCEPT !.status = "FAILED"]) /\ Goto(w, "failed")
        /\ queue' = queue
    BY <1>4 DEF Catch
  <2>2. QED BY <1>1, <1>2, <2>1, Rows, SharedTypes DEF Statuses, PCs
<1>5. QED BY <1>3, <1>4

(* What a run writes to IPFS and to its row.                               *)
LEMMA DirectoryTypes ==
    ASSUME TypeOK, NEW w \in Workers
    PROVE  /\ Directory(w) \in Content /\ InMemory(w) \subseteq Row /\ Done(w) \in Row
           /\ \A paths \in SUBSET Paths : Written(w, paths) \in Content
           /\ Leave(w) \/ UNCHANGED mfs => mfs' \in [Deployments -> Content]
<1>1. /\ run[w].files \in Content /\ mfs[run[w].of] \in Content
      /\ run[w].row \in Row /\ run[w].cid \in Content
  BY DEF TypeOK
<1>2. OnS3(run[w].files) \in Content
  BY <1>1 DEF OnS3, Content
<1>3. \A paths \in SUBSET Paths : Written(w, paths) \in Content
  <2> SUFFICES ASSUME NEW paths \in SUBSET Paths PROVE Written(w, paths) \in Content
    OBVIOUS
  <2>1. [p \in Paths |-> IF p \in paths THEN OnS3(run[w].files)[p] ELSE 0] \in Content
    BY <1>2 DEF Content
  <2>2. QED BY <1>1, <2>1, Contents DEF Written
<1>7. Directory(w) \in Content
  BY <1>3 DEF Directory
<1>8. Leave(w) \/ UNCHANGED mfs => mfs' \in [Deployments -> Content]
  BY <1>3 DEF Leave, TypeOK
<1>4. InMemory(w) \subseteq Row
  BY <1>1, Rows DEF InMemory, Statuses
<1>5. Done(w) \in Row
  <2>1. [run[w].row EXCEPT !.status = "SUCCESSFUL"] \in Row
    BY <1>1, Rows DEF Statuses
  <2>2. Done(w) = [[run[w].row EXCEPT !.status = "SUCCESSFUL"] EXCEPT !.cid = run[w].cid]
    BY <1>1 DEF Done, Row
  <2>3. QED BY <1>1, <2>1, <2>2, Rows
<1>6. QED BY <1>3, <1>4, <1>5, <1>7, <1>8

(* Runs whose step, row, files or content changed. *)
LEMMA RunUpdates ==
    ASSUME NEW r \in Run
    PROVE  /\ \A pc \in PCs : /\ [r EXCEPT !.pc = pc] \in Run
                             /\ \A x \in Row : [r EXCEPT !.pc = pc, !.row = x] \in Run
           /\ \A pc \in PCs, c \in Content :
                /\ [r EXCEPT !.pc = pc, !.cid = c] \in Run
                /\ [r EXCEPT !.pc = pc, !.files = c] \in Run
  BY DEF Run

(* Every step keeps the types.                                             *)
LEMMA TypeStep == TypeOK /\ [Next]_vars => TypeOK'
<1> SUFFICES ASSUME TypeOK, [Next]_vars PROVE TypeOK'
  OBVIOUS
<1>1. /\ upload \in Content
      /\ session \in [ended : SUBSET Sessions, left : SUBSET Paths]
      /\ target \in [Buckets -> [cid : Content, files : Content]]
      /\ mfs \in [Deployments -> Content]
      /\ row \in [Deployments -> Row]
      /\ request \in [Deployments -> {"idle", "inserted", "paid", "done"}]
      /\ queue \in [Deployments -> Nat]
      /\ run \in [Workers -> Run] /\ review \in [Reviewers -> Review]
      /\ paid \subseteq Deployments /\ refunded \subseteq paid
      /\ published \subseteq Deployments
      /\ approved \subseteq Content /\ waived \subseteq Content
      /\ unsent \subseteq Deployments /\ late \subseteq Deployments
      /\ disturbed \in BOOLEAN /\ limits \in Limits
      /\ faults \in 0..limits.faults
  BY DEF TypeOK, Run, Review, Buckets
<1>0. {"taken", "bucket", "asked", "committed"} \subseteq PCs
  BY DEF PCs
<1> USE DEF Run, Review, Buckets
<1>2. CASE \E k \in Sessions : EndSession(k)
  <2>1. PICK k \in Sessions : EndSession(k)
    BY <1>2
  <2>2. upload' \in Content /\ disturbed' \in BOOLEAN
    BY <2>1, Contents, SharedTypes DEF EndSession
  <2>3. session' \in [ended : SUBSET Sessions, left : SUBSET Paths]
    BY <1>1, <2>1, HostingAssumption DEF EndSession
  <2>4. QED BY <1>1, <2>1, <2>2, <2>3 DEF EndSession, TypeOK, books
<1>3. CASE \E p \in Paths : Register(p)
  <2>1. PICK p \in Paths : Register(p)
    BY <1>3
  <2>2. PICK k \in session.ended : Change([upload EXCEPT ![p] = k], {})
    BY <2>1 DEF Register
  <2>3. k \in Sessions
    BY <1>1, <2>2
  <2>4. [upload EXCEPT ![p] = k] \in Content /\ UNCHANGED limits
    BY <1>1, <2>1, <2>3, Contents DEF Register
  <2>5. upload' \in Content /\ disturbed' \in BOOLEAN
    BY <2>2, <2>4, SharedTypes
  <2>6. session' \in [ended : SUBSET Sessions, left : SUBSET Paths]
    BY <1>1, <2>1 DEF Register
  <2>7. QED BY <1>1, <2>1, <2>5, <2>6 DEF Register, TypeOK, books
<1>4. CASE \E p \in Paths : DeleteFile(p)
  <2>1. PICK p \in Paths : DeleteFile(p)
    BY <1>4
  <2>2. [upload EXCEPT ![p] = 0] \in Content /\ UNCHANGED limits
    BY <1>1, <2>1, Contents DEF DeleteFile
  <2>3. upload' \in Content /\ disturbed' \in BOOLEAN /\ faults' \in 0..limits.faults
    BY <2>1, <2>2, SharedTypes DEF DeleteFile
  <2>4. QED BY <1>1, <2>1, <2>3 DEF DeleteFile, TypeOK, books
<1>5. ASSUME NEW d \in Deployments, NEW e \in Environments, Request(d, e)
      PROVE  TypeOK'
  <2>1. PICK staging \in LastStaging, production \in LastProduction :
          row' = [row EXCEPT ![d] =
                    [status |-> "INITIATED", environment |-> e,
                     number |-> 1 + (IF e = "STAGING" THEN staging.number
                                                      ELSE production.number),
                     cid |-> Empty, retryCount |-> 0]]
    BY <1>5 DEF Request
  <2>2. LastStaging \subseteq Row /\ LastProduction \subseteq Row
    BY <1>1, Rows DEF LastStaging, LastProduction, Last
  <2>3. \A x \in Row : x.number \in Nat
    BY DEF Row
  <2>4. 0 \in 0..MaxRetries
    BY Constants
  <2>5. [status |-> "INITIATED", environment |-> e,
         number |-> 1 + (IF e = "STAGING" THEN staging.number ELSE production.number),
         cid |-> Empty, retryCount |-> 0] \in Row
    <3>1. staging.number \in Nat /\ production.number \in Nat
      BY <2>1, <2>2, <2>3
    <3>2. 1 + (IF e = "STAGING" THEN staging.number ELSE production.number) \in Nat
      BY <3>1
    <3>3. QED BY <3>2, <2>4, Contents DEF Row, Statuses
  <2>6. row' \in [Deployments -> Row]
    BY <1>1, <2>1, <2>5
  <2>7. QED BY <1>1, <1>5, <2>6 DEF Request, TypeOK, site, buckets, books, past
<1>6. ASSUME NEW d \in Deployments, Spend(d)
      PROVE  TypeOK'
  BY <1>1, <1>6 DEF Spend, TypeOK, site, buckets, past
<1>7. ASSUME NEW d \in Deployments, SpendFails(d)
      PROVE  TypeOK'
  BY <1>1, <1>7, Rows DEF SpendFails, TypeOK, site, buckets, past, books
<1>8. ASSUME NEW d \in Deployments, Deploy(d)
      PROVE  TypeOK'
  <2>1. /\ queue' \in [Deployments -> Nat] /\ unsent' \subseteq Deployments
        /\ faults' \in 0..limits.faults
    BY <1>8, SharedTypes DEF Deploy, site, buckets
  <2>2. QED BY <1>1, <1>8, <2>1 DEF Deploy, TypeOK, site, buckets, books
<1>9. ASSUME NEW d \in Deployments, RequestDies(d)
      PROVE  TypeOK'
  <2>1. faults' \in 0..limits.faults
    BY <1>9, SharedTypes DEF RequestDies, site, buckets
  <2>2. QED BY <1>1, <1>9, <2>1 DEF RequestDies, TypeOK, site, buckets, books
<1>10. ASSUME NEW w \in Workers, Work(w) \/ Trouble(w) \/ \E d \in Deployments : Take(w, d)
       PROVE  TypeOK'
  <2>1. /\ run[w] \in Run /\ run[w].row \in Row /\ run[w].of \in Deployments
        /\ run[w].files \in Content /\ run[w].cid \in Content
    BY <1>1
  <2>2. CASE \E d \in Deployments : Take(w, d)
    <3>1. PICK d \in Deployments : Take(w, d)
      BY <2>2
    <3>2. queue' \in [Deployments -> Nat] /\ late' \subseteq Deployments
      BY <1>1, <3>1 DEF Take
    <3>3. [NoRun(d) EXCEPT !.pc = "taken", !.row = row[d]] \in Run
      <4>1. NoRun(d) \in Run /\ row[d] \in Row
        BY <1>1, Rows
      <4>2. QED BY <1>0, <4>1, RunUpdates
    <3>4. run' \in [Workers -> Run]
      BY <1>1, <3>1, <3>3 DEF Take
    <3>5. QED BY <1>1, <3>1, <3>2, <3>4 DEF Take, TypeOK, site, buckets, books
  <2>3. CASE Mark(w)
    <3>1. [run[w].row EXCEPT !.status = "IN_PROGRESS"] \in Row
      BY <2>1, Rows DEF Statuses
    <3>2. UNCHANGED limits
      BY <2>3 DEF Mark, site, buckets
    <3>3. row' \in [Deployments -> Row]
      BY <2>1, <2>3, <3>1, <3>2, SharedTypes DEF Mark
    <3>4. run' \in [Workers -> Run]
      BY <2>3, <3>2, SharedTypes DEF Mark, PCs
    <3>5. QED BY <1>1, <2>3, <3>3, <3>4 DEF Mark, TypeOK, site, buckets, books, past
  <2>4. CASE ReadBucket(w)
    <3>1. run' \in [Workers -> Run]
      <4>1. run' = [run EXCEPT ![w] = [run[w] EXCEPT !.pc = "bucket", !.cid = target["staging"].cid]]
        BY <1>1, <2>4 DEF ReadBucket
      <4>2. [run[w] EXCEPT !.pc = "bucket", !.cid = target["staging"].cid] \in Run
        BY <1>0, <1>1, <2>1, RunUpdates
      <4>3. QED BY <1>1, <4>1, <4>2
    <3>2. QED BY <1>1, <2>4, <3>1 DEF ReadBucket, TypeOK, site, buckets, books, past
  <2>5. CASE ReadFiles(w)
    <3>1. Source(run[w].row.environment) \in Content
      BY <1>1 DEF Source
    <3>2. run' \in [Workers -> Run]
      <4> DEFINE pc == IF run[w].row.environment = "PRODUCTION" THEN "ready" ELSE "files"
                 new == [run[w] EXCEPT !.pc = pc,
                                       !.files = Source(run[w].row.environment)]
      <4>1. run' = [run EXCEPT ![w] = new]
        BY <1>1, <2>5 DEF ReadFiles
      <4>2. pc \in PCs
        BY DEF PCs
      <4>3. new \in Run
        BY <2>1, <3>1, <4>2, RunUpdates
      <4>4. QED BY <1>1, <4>1, <4>3
    <3>3. QED BY <1>1, <2>5, <3>2 DEF ReadFiles, TypeOK, site, buckets, books, past
  <2>6. CASE Upload(w)
    <3>1. Directory(w) \in Content
      BY DirectoryTypes
    <3>2. [run[w].row EXCEPT !.cid = Directory(w)] \in Row
      BY <2>1, <3>1, Rows
    <3>3. mfs' \in [Deployments -> Content] /\ run' \in [Workers -> Run]
      <4>1. PICK pc \in {"ready", "review"} :
              run' = [run EXCEPT ![w].pc = pc, ![w].cid = Directory(w),
                                 ![w].row.cid = Directory(w)]
        BY <2>6 DEF Upload
      <4>2. mfs' = [mfs EXCEPT ![run[w].of] = Directory(w)]
        BY <2>6 DEF Upload
      <4>3. QED BY <1>1, <2>1, <3>1, <3>2, <4>1, <4>2 DEF PCs
    <3>4. waived' \subseteq Content
      BY <1>1, <2>6, <3>1 DEF Upload
    <3>5. QED BY <1>1, <2>6, <3>3, <3>4 DEF Upload, TypeOK, buckets, books
  <2>7. CASE SendToReview(w)
    <3>1. [run[w].row EXCEPT !.status = "IN_REVIEW"] \in Row
      BY <2>1, Rows DEF Statuses
    <3>2. row' \in [Deployments -> Row]
      BY <1>1, <2>1, <2>7, <3>1 DEF SendToReview, Put
    <3>3. run' \in [Workers -> Run]
      <4>1. run' = [run EXCEPT ![w] = [run[w] EXCEPT !.pc = "asked",
                          !.row = [run[w].row EXCEPT !.status = "IN_REVIEW"]]]
        BY <1>1, <2>7 DEF SendToReview
      <4>2. [run[w] EXCEPT !.pc = "asked",
                          !.row = [run[w].row EXCEPT !.status = "IN_REVIEW"]] \in Run
        BY <1>0, <2>1, <3>1, RunUpdates
      <4>3. QED BY <1>1, <4>1, <4>2
    <3>4. QED BY <1>1, <2>7, <3>2, <3>3 DEF SendToReview, TypeOK, site, buckets, books, past
  <2>8. CASE Commit(w)
    <3>1. Done(w) \in Row
      BY DirectoryTypes
    <3>2. row' \in [Deployments -> Row]
      BY <1>1, <2>1, <2>8, <3>1 DEF Commit, Put
    <3>3. run' \in [Workers -> Run]
      <4>1. run' = [run EXCEPT ![w] = [run[w] EXCEPT !.pc = "committed", !.row = Done(w)]]
        BY <1>1, <2>8 DEF Commit
      <4>2. [run[w] EXCEPT !.pc = "committed", !.row = Done(w)] \in Run
        BY <1>0, <2>1, <3>1, RunUpdates
      <4>3. QED BY <1>1, <4>1, <4>2
    <3>4. target' \in [Buckets -> [cid : Content, files : Content]]
      BY <1>1, <2>1, <2>8 DEF Commit, Target
    <3>5. published' \subseteq Deployments /\ disturbed' \in BOOLEAN
      BY <1>1, <2>1, <2>8 DEF Commit
    <3>6. QED BY <1>1, <2>8, <3>2, <3>3, <3>4, <3>5 DEF Commit, TypeOK, books
  <2>9. CASE ClearSource(w)
    <3>1. upload' \in Content /\ disturbed' \in BOOLEAN
      BY <2>9, Contents, SharedTypes DEF ClearSource
    <3>2. run' \in [Workers -> Run]
      BY <2>9, SharedTypes DEF ClearSource, PCs
    <3>3. QED BY <1>1, <2>9, <3>1, <3>2 DEF ClearSource, TypeOK, books
  <2>10. CASE Finish(w)
    <3>1. run' \in [Workers -> Run]
      BY <2>10, SharedTypes DEF Finish, site, buckets
    <3>2. QED BY <1>1, <2>10, <3>1 DEF Finish, TypeOK, site, buckets, books, past
  <2>11. CASE UploadFails(w) \/ Fails(w) \/ CommitFails(w)
    <3>1. PICK new \in Row : Catch(w, new)
      BY <2>11, DirectoryTypes DEF UploadFails, Fails, CommitFails
    <3>2. UNCHANGED <<limits, upload, session, target, request, review, paid, refunded,
                      published, approved, waived, unsent, disturbed>>
      BY <3>1 DEF Catch, buckets, books
    <3>3. /\ row' \in [Deployments -> Row] /\ run' \in [Workers -> Run]
          /\ queue' \in [Deployments -> Nat] /\ late' \subseteq Deployments
      BY <3>1, <3>2, CatchTypes
    <3>4. faults' \in 0..limits.faults
      BY <2>11, <3>2, SharedTypes DEF UploadFails, Fails, CommitFails
    <3>5. mfs' \in [Deployments -> Content]
      BY <2>11, DirectoryTypes DEF UploadFails, Fails, CommitFails
    <3>6. QED BY <1>1, <3>2, <3>3, <3>4, <3>5 DEF TypeOK
  <2>12. CASE Refund(w)
    <3>1. run' \in [Workers -> Run]
      BY <2>12, SharedTypes DEF Refund, site, buckets
    <3>2. faults' \in 0..limits.faults
      BY <2>12, SharedTypes DEF Refund, site, buckets
    <3>3. refunded' \subseteq paid' /\ unsent' \subseteq Deployments
      BY <1>1, <2>1, <2>12 DEF Refund
    <3>4. QED BY <1>1, <2>12, <3>1, <3>2, <3>3 DEF Refund, TypeOK, site, buckets
  <2>13. CASE Dies(w)
    <3>1. /\ run' \in [Workers -> Run] /\ queue' \in [Deployments -> Nat]
          /\ faults' \in 0..limits.faults
      BY <2>13, SharedTypes DEF Dies, buckets
    <3>2. mfs' \in [Deployments -> Content]
      BY <2>13, DirectoryTypes DEF Dies
    <3>3. QED BY <1>1, <2>13, <3>1, <3>2 DEF Dies, TypeOK, buckets, books, past
  <2>14. QED
    BY <1>10, <2>2, <2>3, <2>4, <2>5, <2>6, <2>7, <2>8, <2>9, <2>10, <2>11, <2>12, <2>13
    DEF Work, Trouble
<1>11. ASSUME NEW r \in Reviewers, Decide(r) \/ \E d \in Deployments : Look(r, d)
       PROVE  TypeOK'
  <2>1. review[r].of \in Deployments /\ review[r].row \in Row /\ review[r].row.cid \in Content
    BY <1>1 DEF Row
  <2>2. CASE \E d \in Deployments : Look(r, d)
    <3>1. review' \in [Reviewers -> Review]
      BY <1>1, <2>2 DEF Look
    <3>2. QED BY <1>1, <2>2, <3>1 DEF Look, TypeOK, site, buckets, books, past
  <2>3. CASE Approve(r)
    <3>1. row' \in [Deployments -> Row]
      BY <1>1, <2>1, <2>3, Rows DEF Approve, Put, Statuses
    <3>2. review' \in [Reviewers -> Review] /\ approved' \subseteq Content
      BY <1>1, <2>1, <2>3 DEF Approve
    <3>3. QED BY <1>1, <2>3, <3>1, <3>2 DEF Approve, TypeOK, site, buckets, books
  <2>4. CASE SendApproved(r)
    <3>1. review' \in [Reviewers -> Review]
      BY <1>1, <2>4, Rows, Constants DEF SendApproved
    <3>2. /\ queue' \in [Deployments -> Nat] /\ unsent' \subseteq Deployments
          /\ faults' \in 0..limits.faults
      BY <2>1, <2>4, SharedTypes DEF SendApproved, site, buckets
    <3>3. QED BY <1>1, <2>4, <3>1, <3>2 DEF SendApproved, TypeOK, site, buckets, books
  <2>5. CASE Reject(r)
    <3>1. row' \in [Deployments -> Row]
      BY <1>1, <2>1, <2>5, Rows DEF Reject, Put, Statuses
    <3>2. review' \in [Reviewers -> Review]
      BY <1>1, <2>5, Rows, Constants DEF Reject
    <3>3. QED BY <1>1, <2>5, <3>1, <3>2 DEF Reject, TypeOK, site, buckets, books, past
  <2>6. QED BY <1>11, <2>2, <2>3, <2>4, <2>5 DEF Decide
<1>12. CASE UNCHANGED vars
  BY <1>1, <1>12 DEF vars, site, buckets, books, past, TypeOK
<1>13. QED
  BY <1>2, <1>3, <1>4, <1>5, <1>6, <1>7, <1>8, <1>9, <1>10, <1>11, <1>12
  DEF Next, Client, Call

-----------------------------------------------------------------------------
(* What the steps of a run of the worker change *)

(* They touch their own run, and the row, directory and queue of their     *)
(* deployment only.                                                        *)
Frame(w) ==
    /\ Active(w)
    /\ \A v \in Workers : v # w => run'[v] = run[v]
    /\ run'[w].pc = "idle" \/ run'[w].of = run[w].of
    /\ \A d \in Deployments : d # run[w].of =>
         row'[d] = row[d] /\ mfs'[d] = mfs[d] /\ queue'[d] = queue[d]
    /\ UNCHANGED <<request, review, approved>> /\ waived \subseteq waived'

(* The types in the form the proofs below use.                             *)
LEMMA Types ==
    ASSUME TypeOK
    PROVE  /\ mfs \in [Deployments -> Content] /\ row \in [Deployments -> Row]
           /\ queue \in [Deployments -> Nat]
           /\ request \in [Deployments -> {"idle", "inserted", "paid", "done"}]
           /\ run \in [Workers -> Run] /\ review \in [Reviewers -> Review]
           /\ target \in [Buckets -> [cid : Content, files : Content]]
           /\ \A w \in Workers : /\ run[w].of \in Deployments
                                 /\ run[w].row \in Row /\ run[w].cid \in Content
           /\ \A r \in Reviewers : /\ review[r].of \in Deployments
                                   /\ review[r].row \in Row
  BY DEF TypeOK, Run, Review, Buckets

(* The steps of a run that ends in the handler of errors.                  *)
LEMMA Caught ==
    ASSUME TypeOK, NEW w \in Workers, UploadFails(w) \/ Fails(w) \/ CommitFails(w)
    PROVE  /\ Frame(w)
           /\ UNCHANGED <<upload, session, target, books, published, unsent, disturbed>>
           /\ Leave(w) \/ UNCHANGED mfs
           /\ late' = IF run[w].of \in published THEN late \cup {run[w].of} ELSE late
           /\ \/ /\ run'[w].pc = "failed" /\ run'[w].row = run[w].row /\ queue' = queue
                 /\ row'[run[w].of].status = "FAILED"
              \/ /\ run'[w].pc = "idle"
                 /\ queue'[run[w].of] = queue[run[w].of] + 1
                 /\ \/ row'[run[w].of].status = "IN_PROGRESS"
                    \/ /\ run[w].pc = "review" /\ row'[run[w].of].status = "IN_REVIEW"
                       /\ row'[run[w].of].cid = run[w].row.cid
                    \/ /\ run[w].pc \in {"asked", "committed", "cleared"}
                       /\ row'[run[w].of].status = run[w].row.status
                       /\ row'[run[w].of].cid = run[w].row.cid
                    \/ /\ run[w].pc = "ready" /\ row'[run[w].of].status = "SUCCESSFUL"
                       /\ row'[run[w].of].cid = run[w].cid
<1> DEFINE d == run[w].of
<1>1. /\ d \in Deployments /\ run[w].row \in Row /\ run[w].cid \in Content
      /\ row \in [Deployments -> Row] /\ run \in [Workers -> Run]
      /\ queue \in [Deployments -> Nat]
  BY Types
<1>2. PICK new \in Row :
        /\ Catch(w, new)
        /\ \/ new.status = "IN_PROGRESS"
           \/ run[w].pc = "review" /\ new.status = "IN_REVIEW" /\ new.cid = run[w].row.cid
           \/ run[w].pc \in {"asked", "committed", "cleared"} /\ new = run[w].row
           \/ run[w].pc = "ready" /\ new.status = "SUCCESSFUL" /\ new.cid = run[w].cid
  <2>1. CASE CommitFails(w)
    <3>1. Done(w) \in Row
      BY DirectoryTypes
    <3>2. Done(w).status = "SUCCESSFUL" /\ Done(w).cid = run[w].cid
      BY <1>1 DEF Done, Row
    <3>3. QED BY <2>1, <3>1, <3>2 DEF CommitFails
  <2>2. CASE UploadFails(w) \/ Fails(w)
    <3>1. PICK new \in InMemory(w) : Catch(w, new)
      BY <2>2 DEF UploadFails, Fails
    <3>2. new \in Row
      BY <3>1, DirectoryTypes
    <3>3. run[w].pc \in {"marked", "bucket", "files", "ready", "review", "asked",
                         "committed", "cleared"}
      BY <2>2 DEF UploadFails, Fails
    <3>4. \A s \in Statuses : [run[w].row EXCEPT !.status = s].status = s
                              /\ [run[w].row EXCEPT !.status = s].cid = run[w].row.cid
      BY <1>1 DEF Row
    <3>5. CASE run[w].pc \in {"marked", "bucket", "files", "ready"}
      <4>1. new = [run[w].row EXCEPT !.status = "IN_PROGRESS"]
        BY <3>1, <3>5 DEF InMemory
      <4>2. QED BY <3>1, <3>2, <3>4, <4>1 DEF Statuses
    <3>6. CASE run[w].pc = "review"
      <4>1. \/ new = [run[w].row EXCEPT !.status = "IN_PROGRESS"]
            \/ new = [run[w].row EXCEPT !.status = "IN_REVIEW"]
        BY <3>1, <3>6 DEF InMemory
      <4>2. \/ new.status = "IN_PROGRESS"
            \/ new.status = "IN_REVIEW" /\ new.cid = run[w].row.cid
        BY <3>4, <4>1 DEF Statuses
      <4>3. QED BY <3>1, <3>2, <3>6, <4>2
    <3>7. CASE run[w].pc \in {"asked", "committed", "cleared"}
      <4>1. new = run[w].row
        BY <3>1, <3>7 DEF InMemory
      <4>2. QED BY <3>1, <3>2, <3>7, <4>1
    <3>8. QED BY <3>3, <3>5, <3>6, <3>7
  <2>3. QED BY <2>1, <2>2
<1>3. /\ UNCHANGED <<request, review, approved, waived, upload, session, target, books,
                     published, unsent, disturbed>>
      /\ late' = IF d \in published THEN late \cup {d} ELSE late
  BY <1>2 DEF Catch, buckets
<1>8. /\ Leave(w) \/ UNCHANGED mfs
      /\ \A e \in Deployments : e # d => mfs'[e] = mfs[e]
  <2>1. Leave(w) \/ UNCHANGED mfs
    BY DEF UploadFails, Fails, CommitFails
  <2>2. QED BY <2>1, Types DEF Leave
<1>4. Active(w)
  BY DEF Active, UploadFails, Fails, CommitFails
<1>5. CASE new.retryCount < MaxRetries
  <2>1. /\ row' = [row EXCEPT ![d] = [new EXCEPT !.retryCount = @ + 1]]
        /\ queue' = [queue EXCEPT ![d] = @ + 1]
        /\ run' = [run EXCEPT ![w] = NoRun(Some)]
    BY <1>2, <1>5 DEF Catch, Put, Again
  <2>2. /\ row'[d].status = new.status /\ row'[d].cid = new.cid
        /\ \A e \in Deployments : e # d => row'[e] = row[e] /\ queue'[e] = queue[e]
        /\ queue'[d] = queue[d] + 1
    BY <1>1, <2>1 DEF Row
  <2>3. run'[w].pc = "idle" /\ \A v \in Workers : v # w => run'[v] = run[v]
    BY <1>1, <2>1 DEF NoRun
  <2>4. QED BY <1>2, <1>3, <1>4, <1>8, <2>2, <2>3 DEF Frame
<1>6. CASE ~ (new.retryCount < MaxRetries)
  <2>1. /\ row' = [row EXCEPT ![d] = [new EXCEPT !.status = "FAILED"]]
        /\ run' = [run EXCEPT ![w].pc = "failed"]
        /\ queue' = queue
    BY <1>2, <1>6 DEF Catch, Put, Goto
  <2>2. /\ row'[d].status = "FAILED"
        /\ \A e \in Deployments : e # d => row'[e] = row[e] /\ queue'[e] = queue[e]
    BY <1>1, <2>1 DEF Row
  <2>3. /\ run'[w].pc = "failed" /\ run'[w].row = run[w].row /\ run'[w].of = d
        /\ \A v \in Workers : v # w => run'[v] = run[v]
    BY <1>1, <2>1 DEF Run
  <2>4. QED BY <1>3, <1>4, <1>8, <2>1, <2>2, <2>3 DEF Frame
<1>7. QED BY <1>5, <1>6

(* The steps of a run that has no trouble. *)
LEMMA Worked ==
    ASSUME TypeOK, NEW w \in Workers
    PROVE  LET d == run[w].of IN
      /\ Mark(w) =>
           /\ run[w].pc = "taken"
           /\ run'[w].pc = IF run[w].row.environment = "PRODUCTION" THEN "marked" ELSE "bucket"
           /\ run'[w].row = run[w].row /\ row'[d].status = "IN_PROGRESS"
           /\ Frame(w) /\ UNCHANGED <<upload, session, target, mfs, queue, books, past>>
      /\ ReadBucket(w) =>
           /\ run[w].pc = "marked" /\ run'[w].pc = "bucket"
           /\ run'[w].row = run[w].row /\ run'[w].cid = target["staging"].cid
           /\ Frame(w) /\ UNCHANGED <<upload, session, target, mfs, row, queue, books, past>>
      /\ ReadFiles(w) =>
           /\ run[w].pc = "bucket"
           /\ run'[w].pc = IF run[w].row.environment = "PRODUCTION" THEN "ready" ELSE "files"
           /\ run'[w].row = run[w].row /\ run'[w].cid = run[w].cid
           /\ run'[w].files = Source(run[w].row.environment)
           /\ Frame(w) /\ UNCHANGED <<upload, session, target, mfs, row, queue, books, past>>
      /\ Upload(w) =>
           /\ run[w].pc = "files" /\ Uploadable(w)
           /\ run'[w].pc \in {"ready", "review"}
           /\ run'[w].pc = "ready" => Reviewed(w) \/ Directory(w) \in waived'
           /\ mfs'[d] = Directory(w) /\ run'[w].cid = Directory(w)
           /\ run'[w].row.cid = Directory(w) /\ run'[w].files = run[w].files
           /\ run'[w].row.status = run[w].row.status
           /\ Frame(w)
           /\ UNCHANGED <<upload, session, target, row, queue, books, published, approved,
                          unsent, late, disturbed>>
      /\ SendToReview(w) =>
           /\ run[w].pc = "review" /\ run'[w].pc = "asked"
           /\ run'[w].row.cid = run[w].row.cid /\ run'[w].row.status = "IN_REVIEW"
           /\ row'[d] = run'[w].row
           /\ Frame(w) /\ UNCHANGED <<upload, session, target, mfs, queue, books, past>>
      /\ Commit(w) =>
           /\ run[w].pc = "ready" /\ run'[w].pc = "committed"
           /\ run'[w].row.cid = run[w].cid /\ run'[w].row.status = "SUCCESSFUL"
           /\ row'[d] = run'[w].row
           /\ Frame(w)
           /\ UNCHANGED <<upload, session, mfs, queue, books, approved, unsent, late>>
      /\ ClearSource(w) =>
           /\ run[w].pc = "committed" /\ run'[w].pc = "cleared"
           /\ run'[w].row = run[w].row
           /\ Frame(w)
           /\ UNCHANGED <<session, target, mfs, row, queue, books, published, approved,
                          unsent, late>>
      /\ Finish(w) =>
           /\ run[w].pc \in {"asked", "committed", "cleared"} /\ run'[w].pc = "idle"
           /\ Frame(w) /\ UNCHANGED <<upload, session, target, mfs, row, queue, books, past>>
      /\ Refund(w) =>
           /\ run[w].pc = "failed" /\ run'[w].pc = "idle"
           /\ Frame(w) /\ refunded' \subseteq refunded \cup {d}
           /\ UNCHANGED <<upload, session, target, mfs, row, queue, published, approved,
                          late, disturbed>>
      /\ Dies(w) =>
           /\ Active(w) /\ run'[w].pc = "idle" /\ queue'[d] = queue[d] + 1
           /\ Frame(w) /\ Leave(w) /\ UNCHANGED <<upload, session, target, row, books, past>>
<1> DEFINE d == run[w].of
<1>1. /\ d \in Deployments /\ run[w].row \in Row /\ run[w].cid \in Content
      /\ row \in [Deployments -> Row] /\ run \in [Workers -> Run]
      /\ queue \in [Deployments -> Nat] /\ mfs \in [Deployments -> Content]
  BY Types
<1>2. ASSUME Mark(w)
      PROVE  /\ run[w].pc = "taken"
             /\ run'[w].pc = IF run[w].row.environment = "PRODUCTION" THEN "marked" ELSE "bucket"
             /\ run'[w].row = run[w].row /\ row'[d].status = "IN_PROGRESS"
             /\ Frame(w) /\ UNCHANGED <<upload, session, target, mfs, queue, books, past>>
  <2>1. row' = [row EXCEPT ![d] = [run[w].row EXCEPT !.status = "IN_PROGRESS"]]
    BY <1>2 DEF Mark, Put
  <2>2. row'[d].status = "IN_PROGRESS" /\ \A e \in Deployments : e # d => row'[e] = row[e]
    BY <1>1, <2>1 DEF Row
  <2>3. /\ run[w].pc = "taken"
        /\ run'[w].pc = IF run[w].row.environment = "PRODUCTION" THEN "marked" ELSE "bucket"
        /\ run'[w].row = run[w].row /\ run'[w].of = d
        /\ \A v \in Workers : v # w => run'[v] = run[v]
    BY <1>1, <1>2 DEF Mark, Goto, Run
  <2>4. QED BY <1>2, <2>2, <2>3 DEF Frame, Active, Mark, site, buckets, past
<1>3. ASSUME ReadBucket(w)
      PROVE  /\ run[w].pc = "marked" /\ run'[w].pc = "bucket"
             /\ run'[w].row = run[w].row /\ run'[w].cid = target["staging"].cid
             /\ Frame(w) /\ UNCHANGED <<upload, session, target, mfs, row, queue, books, past>>
  <2>1. /\ run[w].pc = "marked" /\ run'[w].pc = "bucket"
        /\ run'[w].row = run[w].row /\ run'[w].of = d /\ run'[w].cid = target["staging"].cid
        /\ \A v \in Workers : v # w => run'[v] = run[v]
    BY <1>1, <1>3 DEF ReadBucket, Run
  <2>2. QED BY <1>3, <2>1 DEF Frame, Active, ReadBucket, site, buckets, past
<1>4. ASSUME ReadFiles(w)
      PROVE  /\ run[w].pc = "bucket"
             /\ run'[w].pc = IF run[w].row.environment = "PRODUCTION" THEN "ready" ELSE "files"
             /\ run'[w].row = run[w].row /\ run'[w].cid = run[w].cid
             /\ run'[w].files = Source(run[w].row.environment)
             /\ Frame(w) /\ UNCHANGED <<upload, session, target, mfs, row, queue, books, past>>
  <2>1. /\ run[w].pc = "bucket"
        /\ run'[w].pc = IF run[w].row.environment = "PRODUCTION" THEN "ready" ELSE "files"
        /\ run'[w].row = run[w].row /\ run'[w].of = d /\ run'[w].cid = run[w].cid
        /\ run'[w].files = Source(run[w].row.environment)
        /\ \A v \in Workers : v # w => run'[v] = run[v]
    BY <1>1, <1>4 DEF ReadFiles, Run
  <2>2. QED BY <1>4, <2>1 DEF Frame, Active, ReadFiles, site, buckets, past
<1>5. ASSUME Upload(w)
      PROVE  /\ run[w].pc = "files" /\ Uploadable(w)
             /\ run'[w].pc \in {"ready", "review"}
             /\ run'[w].pc = "ready" => Reviewed(w) \/ Directory(w) \in waived'
             /\ mfs'[d] = Directory(w) /\ run'[w].cid = Directory(w)
             /\ run'[w].row.cid = Directory(w) /\ run'[w].files = run[w].files
             /\ run'[w].row.status = run[w].row.status
             /\ Frame(w)
             /\ UNCHANGED <<upload, session, target, row, queue, books, published, approved,
                            unsent, late, disturbed>>
  <2>1. /\ run[w].pc = "files" /\ Uploadable(w)
        /\ run'[w].pc \in {"ready", "review"}
        /\ run'[w].pc = "ready" => Reviewed(w) \/ Directory(w) \in waived'
        /\ waived \subseteq waived'
        /\ run'[w].cid = Directory(w) /\ run'[w].of = d
        /\ run'[w].row = [run[w].row EXCEPT !.cid = Directory(w)]
        /\ run'[w].files = run[w].files
        /\ \A v \in Workers : v # w => run'[v] = run[v]
    BY <1>1, <1>5 DEF Upload, Run
  <2>2. run'[w].row.cid = Directory(w) /\ run'[w].row.status = run[w].row.status
    BY <1>1, <2>1 DEF Row
  <2>3. mfs'[d] = Directory(w) /\ \A e \in Deployments : e # d => mfs'[e] = mfs[e]
    BY <1>1, <1>5 DEF Upload
  <2>4. QED BY <1>5, <2>1, <2>2, <2>3 DEF Frame, Active, Upload, buckets
<1>6. ASSUME SendToReview(w)
      PROVE  /\ run[w].pc = "review" /\ run'[w].pc = "asked"
             /\ run'[w].row.cid = run[w].row.cid /\ run'[w].row.status = "IN_REVIEW"
             /\ row'[d] = run'[w].row
             /\ Frame(w) /\ UNCHANGED <<upload, session, target, mfs, queue, books, past>>
  <2> DEFINE new == [run[w].row EXCEPT !.status = "IN_REVIEW"]
  <2>1. new.status = "IN_REVIEW" /\ new.cid = run[w].row.cid
    BY <1>1 DEF Row
  <2>2. /\ row' = [row EXCEPT ![d] = new]
        /\ run' = [run EXCEPT ![w] = [run[w] EXCEPT !.pc = "asked", !.row = new]]
        /\ run[w].pc = "review"
    BY <1>1, <1>6 DEF SendToReview, Put
  <2> HIDE DEF new
  <2>3. /\ run'[w].pc = "asked" /\ run'[w].row = new /\ run'[w].of = d
        /\ \A v \in Workers : v # w => run'[v] = run[v]
        /\ row'[d] = new /\ \A e \in Deployments : e # d => row'[e] = row[e]
    BY <1>1, <2>2 DEF Run
  <2>4. QED BY <1>6, <2>1, <2>2, <2>3 DEF Frame, Active, SendToReview, site, buckets, past
<1>7. ASSUME Commit(w)
      PROVE  /\ run[w].pc = "ready" /\ run'[w].pc = "committed"
             /\ run'[w].row.cid = run[w].cid /\ run'[w].row.status = "SUCCESSFUL"
             /\ row'[d] = run'[w].row
             /\ Frame(w)
             /\ UNCHANGED <<upload, session, mfs, queue, books, approved, unsent, late>>
  <2>1. Done(w).status = "SUCCESSFUL" /\ Done(w).cid = run[w].cid
    BY <1>1 DEF Row, Done
  <2>2. /\ row' = [row EXCEPT ![d] = Done(w)]
        /\ run' = [run EXCEPT ![w] = [run[w] EXCEPT !.pc = "committed", !.row = Done(w)]]
        /\ run[w].pc = "ready"
    BY <1>1, <1>7 DEF Commit, Put
  <2>3. /\ run'[w].pc = "committed" /\ run'[w].row = Done(w) /\ run'[w].of = d
        /\ \A v \in Workers : v # w => run'[v] = run[v]
        /\ row'[d] = Done(w) /\ \A e \in Deployments : e # d => row'[e] = row[e]
    BY <1>1, <2>2 DEF Run
  <2>4. QED BY <1>7, <2>1, <2>2, <2>3 DEF Frame, Active, Commit
<1>8. ASSUME ClearSource(w)
      PROVE  /\ run[w].pc = "committed" /\ run'[w].pc = "cleared"
             /\ run'[w].row = run[w].row
             /\ Frame(w)
             /\ UNCHANGED <<session, target, mfs, row, queue, books, published, approved,
                            unsent, late>>
  <2>1. /\ run[w].pc = "committed" /\ run'[w].pc = "cleared"
        /\ run'[w].row = run[w].row /\ run'[w].of = d
        /\ \A v \in Workers : v # w => run'[v] = run[v]
    BY <1>1, <1>8 DEF ClearSource, Goto, Run
  <2>2. QED BY <1>8, <2>1 DEF Frame, Active, ClearSource
<1>9. ASSUME Finish(w)
      PROVE  /\ run[w].pc \in {"asked", "committed", "cleared"} /\ run'[w].pc = "idle"
             /\ Frame(w) /\ UNCHANGED <<upload, session, target, mfs, row, queue, books, past>>
  <2>1. run'[w].pc = "idle" /\ \A v \in Workers : v # w => run'[v] = run[v]
    BY <1>1, <1>9 DEF Finish, Drop, NoRun
  <2>2. QED BY <1>9, <2>1 DEF Frame, Active, Finish, site, buckets, past
<1>10. ASSUME Refund(w)
       PROVE  /\ run[w].pc = "failed" /\ run'[w].pc = "idle"
              /\ Frame(w) /\ refunded' \subseteq refunded \cup {d}
              /\ UNCHANGED <<upload, session, target, mfs, row, queue, published, approved,
                             late, disturbed>>
  <2>1. run'[w].pc = "idle" /\ \A v \in Workers : v # w => run'[v] = run[v]
    BY <1>1, <1>10 DEF Refund, Drop, NoRun
  <2>2. QED BY <1>10, <2>1 DEF Frame, Active, Refund, site, buckets
<1>11. ASSUME Dies(w)
       PROVE  /\ Active(w) /\ run'[w].pc = "idle" /\ queue'[d] = queue[d] + 1
              /\ Frame(w) /\ Leave(w) /\ UNCHANGED <<upload, session, target, row, books, past>>
  <2>1. run'[w].pc = "idle" /\ \A v \in Workers : v # w => run'[v] = run[v]
    BY <1>1, <1>11 DEF Dies, Again, NoRun
  <2>2. queue'[d] = queue[d] + 1 /\ \A e \in Deployments : e # d => queue'[e] = queue[e]
    BY <1>1, <1>11 DEF Dies, Again
  <2>3. Leave(w) /\ \A e \in Deployments : e # d => mfs'[e] = mfs[e]
    BY <1>1, <1>11 DEF Dies, Leave
  <2>4. QED BY <1>11, <2>1, <2>2, <2>3 DEF Frame, Active, Dies, buckets, past
<1> HIDE DEF d
<1>12. QED
  BY <1>2, <1>3, <1>4, <1>5, <1>6, <1>7, <1>8, <1>9, <1>10, <1>11 DEF d

-----------------------------------------------------------------------------
(* The parts that need no other part *)

(* The initial states satisfy every part.                                  *)
LEMMA InitParts == Init => /\ FreshInv /\ StateInv /\ TakenInv /\ ReadInv /\ ReviewInv
                           /\ CidInv /\ EndInv /\ BucketsConsistent
<1> SUFFICES ASSUME Init
             PROVE  /\ FreshInv /\ StateInv /\ TakenInv /\ ReadInv /\ ReviewInv
                    /\ CidInv /\ EndInv /\ BucketsConsistent
  OBVIOUS
<1>1. /\ \A w \in Workers : run[w].pc = "idle"
      /\ \A r \in Reviewers : review[r].pc = "idle"
      /\ \A d \in Deployments : queue[d] = 0
  BY DEF Init, NoRun, NoReview
<1>2. \A d \in Deployments :
        IF d \in Staged
        THEN row[d].status = "SUCCESSFUL" /\ row[d].cid = Of(1) /\ request[d] = "done"
        ELSE row[d].status = "none" /\ mfs[d] = Empty
  BY DEF Init, NoRow
<1>3. /\ published = Staged /\ refunded = {}
      /\ IF Staged # {}
         THEN /\ approved = {Of(1)}
              /\ target["staging"] = [cid |-> Of(1), files |-> Of(1)]
         ELSE target["staging"] = [cid |-> Empty, files |-> Empty]
      /\ target["production"] = [cid |-> Empty, files |-> Empty]
  BY DEF Init
<1>4. FreshInv /\ StateInv /\ ReadInv /\ TakenInv
  BY <1>1, <1>2 DEF FreshInv, StateInv, ReadInv, TakenInv, Taken, Pending, Active, Deciding
<1>5. ReviewInv
  BY <1>1, <1>2 DEF ReviewInv, Active
<1>6. CidInv
  BY <1>1, <1>2, <1>3 DEF CidInv, Fine
<1>7. EndInv /\ BucketsConsistent
  BY <1>1, <1>2, <1>3 DEF EndInv, Active, BucketsConsistent
<1>8. QED BY <1>4, <1>5, <1>6, <1>7

(* What the steps of the calls and of the reviewers change. *)
LEMMA Called ==
    ASSUME TypeOK, NEW d \in Deployments
    PROVE  /\ \A e \in Environments : Request(d, e) =>
                /\ request[d] = "idle" /\ request'[d] = "inserted"
                /\ row'[d].status = "INITIATED"
                /\ UNCHANGED <<site, queue, run, review, books, past>>
           /\ Spend(d) \/ RequestDies(d) =>
                /\ request[d] # "done"
                /\ UNCHANGED <<site, queue, row, run, review, refunded, published,
                               approved, waived, late, disturbed>>
           /\ SpendFails(d) =>
                /\ request[d] # "done" /\ request'[d] = "done"
                /\ row'[d].status = "none"
                /\ UNCHANGED <<site, queue, run, review, books, past>>
           /\ Deploy(d) =>
                /\ request[d] # "done" /\ request'[d] = "done"
                /\ queue'[d] \in {queue[d], queue[d] + 1}
                /\ UNCHANGED <<site, row, run, review, books, published, approved,
                               waived, late, disturbed>>
           /\ (\E e \in Environments : Request(d, e)) \/ Call(d) =>
                \A c \in Deployments : c # d => /\ request'[c] = request[c]
                                                /\ row'[c] = row[c] /\ queue'[c] = queue[c]
<1>1. /\ row \in [Deployments -> Row] /\ queue \in [Deployments -> Nat]
      /\ request \in [Deployments -> {"idle", "inserted", "paid", "done"}]
  BY Types
<1>2. ASSUME NEW e \in Environments, Request(d, e)
      PROVE  /\ request[d] = "idle" /\ request'[d] = "inserted"
             /\ row'[d].status = "INITIATED"
             /\ UNCHANGED <<site, queue, run, review, books, past>>
             /\ \A c \in Deployments : c # d => /\ request'[c] = request[c]
                                                /\ row'[c] = row[c] /\ queue'[c] = queue[c]
  BY <1>1, <1>2 DEF Request
<1>3. ASSUME Spend(d) \/ RequestDies(d)
      PROVE  /\ request[d] # "done"
             /\ UNCHANGED <<site, queue, row, run, review, refunded, published,
                            approved, waived, late, disturbed>>
             /\ \A c \in Deployments : c # d => request'[c] = request[c]
  BY <1>1, <1>3 DEF Spend, RequestDies, past, books
<1>4. ASSUME SpendFails(d)
      PROVE  /\ request[d] # "done" /\ request'[d] = "done" /\ row'[d].status = "none"
             /\ UNCHANGED <<site, queue, run, review, books, past>>
             /\ \A c \in Deployments : c # d => request'[c] = request[c] /\ row'[c] = row[c]
  BY <1>1, <1>4 DEF SpendFails, NoRow
<1>5. ASSUME Deploy(d)
      PROVE  /\ request[d] # "done" /\ request'[d] = "done"
             /\ queue'[d] \in {queue[d], queue[d] + 1}
             /\ UNCHANGED <<site, row, run, review, books, published, approved,
                            waived, late, disturbed>>
             /\ \A c \in Deployments : c # d => request'[c] = request[c] /\ queue'[c] = queue[c]
  BY <1>1, <1>5 DEF Deploy, Send
<1>6. QED BY <1>2, <1>3, <1>4, <1>5 DEF Call

LEMMA Decided ==
    ASSUME TypeOK, NEW r \in Reviewers
    PROVE  LET d == review[r].of IN
      /\ Approve(r) =>
           /\ review[r].pc = "read" /\ review'[r].pc = "approved" /\ review'[r].of = d
           /\ row'[d].status = "APPROVED" /\ approved' = approved \cup {review[r].row.cid}
           /\ UNCHANGED <<site, request, queue, run, books, published, waived, unsent,
                          late, disturbed>>
      /\ SendApproved(r) =>
           /\ review[r].pc = "approved" /\ review'[r].pc = "idle"
           /\ queue'[d] \in {queue[d], queue[d] + 1}
           /\ UNCHANGED <<site, row, request, run, books, published, approved, waived,
                          late, disturbed>>
      /\ Reject(r) =>
           /\ review[r].pc = "read" /\ review'[r].pc = "idle"
           /\ row'[d].status = "REJECTED"
           /\ UNCHANGED <<site, request, queue, run, books, past>>
      /\ \A e \in Deployments : Look(r, e) =>
           /\ review[r].pc = "idle" /\ row[e].status = "IN_REVIEW"
           /\ review'[r] = [pc |-> "read", of |-> e, row |-> row[e]]
           /\ UNCHANGED <<site, row, request, queue, run, books, past>>
      /\ Decide(r) => \A e \in Deployments : e # d => row'[e] = row[e] /\ queue'[e] = queue[e]
      /\ Decide(r) \/ (\E e \in Deployments : Look(r, e)) =>
           \A q \in Reviewers : q # r => review'[q] = review[q]
<1> DEFINE d == review[r].of
<1>1. /\ row \in [Deployments -> Row] /\ queue \in [Deployments -> Nat]
      /\ review \in [Reviewers -> Review] /\ d \in Deployments /\ review[r].row \in Row
  BY Types
<1>2. ASSUME Approve(r)
      PROVE  /\ review[r].pc = "read" /\ review'[r].pc = "approved" /\ review'[r].of = d
             /\ row'[d].status = "APPROVED" /\ approved' = approved \cup {review[r].row.cid}
             /\ UNCHANGED <<site, request, queue, run, books, published, waived, unsent,
                            late, disturbed>>
             /\ \A e \in Deployments : e # d => row'[e] = row[e]
             /\ \A q \in Reviewers : q # r => review'[q] = review[q]
  <2>1. row' = [row EXCEPT ![d] = [review[r].row EXCEPT !.status = "APPROVED"]]
    BY <1>2 DEF Approve, Put
  <2>2. row'[d].status = "APPROVED" /\ \A e \in Deployments : e # d => row'[e] = row[e]
    BY <1>1, <2>1 DEF Row
  <2>3. /\ review'[r].pc = "approved" /\ review'[r].of = d
        /\ \A q \in Reviewers : q # r => review'[q] = review[q]
    BY <1>1, <1>2 DEF Approve, Review
  <2>4. QED BY <1>2, <2>2, <2>3 DEF Approve
<1>3. ASSUME SendApproved(r)
      PROVE  /\ review[r].pc = "approved" /\ review'[r].pc = "idle"
             /\ queue'[d] \in {queue[d], queue[d] + 1}
             /\ UNCHANGED <<site, row, request, run, books, published, approved, waived,
                            late, disturbed>>
             /\ \A e \in Deployments : e # d => queue'[e] = queue[e]
             /\ \A q \in Reviewers : q # r => review'[q] = review[q]
  BY <1>1, <1>3 DEF SendApproved, Send, NoReview
<1>4. ASSUME Reject(r)
      PROVE  /\ review[r].pc = "read" /\ review'[r].pc = "idle"
             /\ row'[d].status = "REJECTED"
             /\ UNCHANGED <<site, request, queue, run, books, past>>
             /\ \A e \in Deployments : e # d => row'[e] = row[e]
             /\ \A q \in Reviewers : q # r => review'[q] = review[q]
  <2>1. row' = [row EXCEPT ![d] = [review[r].row EXCEPT !.status = "REJECTED"]]
    BY <1>4 DEF Reject, Put
  <2>2. row'[d].status = "REJECTED" /\ \A e \in Deployments : e # d => row'[e] = row[e]
    BY <1>1, <2>1 DEF Row
  <2>3. review'[r].pc = "idle" /\ \A q \in Reviewers : q # r => review'[q] = review[q]
    BY <1>1, <1>4 DEF Reject, NoReview
  <2>4. QED BY <1>4, <2>2, <2>3 DEF Reject
<1>5. ASSUME NEW e \in Deployments, Look(r, e)
      PROVE  /\ review[r].pc = "idle" /\ row[e].status = "IN_REVIEW"
             /\ review'[r] = [pc |-> "read", of |-> e, row |-> row[e]]
             /\ UNCHANGED <<site, row, request, queue, run, books, past>>
             /\ \A q \in Reviewers : q # r => review'[q] = review[q]
  BY <1>1, <1>5 DEF Look
<1> HIDE DEF d
<1>6. QED BY <1>2, <1>3, <1>4, <1>5 DEF Decide, d

(* Taking a message. *)
LEMMA TakenUp ==
    ASSUME TypeOK, NEW w \in Workers, NEW d \in Deployments, Take(w, d)
    PROVE  /\ run[w].pc = "idle" /\ queue[d] > 0
           /\ run'[w].pc = "taken" /\ run'[w].of = d /\ run'[w].row = row[d]
           /\ \A v \in Workers : v # w => run'[v] = run[v]
           /\ \A e \in Deployments : e # d => queue'[e] = queue[e]
           /\ late \subseteq late'
           /\ d \in published \cup refunded => d \in late'
           /\ \A v \in Workers : Active(v) /\ run[v].of = d => d \in late'
           /\ UNCHANGED <<site, row, request, review, books, published, approved,
                          waived, unsent, disturbed>>
<1>1. /\ queue \in [Deployments -> Nat] /\ run \in [Workers -> Run]
  BY Types
<1>2. /\ run'[w] = [NoRun(d) EXCEPT !.pc = "taken", !.row = row[d]]
      /\ \A v \in Workers : v # w => run'[v] = run[v]
      /\ \A e \in Deployments : e # d => queue'[e] = queue[e]
  BY <1>1 DEF Take
<1>3. run'[w].pc = "taken" /\ run'[w].of = d /\ run'[w].row = row[d]
  BY <1>2 DEF NoRun
<1>4. /\ late \subseteq late'
      /\ d \in published \cup refunded => d \in late'
      /\ \A v \in Workers : Active(v) /\ run[v].of = d => d \in late'
  BY DEF Take, Active
<1>5. QED BY <1>2, <1>3, <1>4 DEF Take

(* What the client does to the upload bucket. *)
ClientChange == \/ \E k \in Sessions : EndSession(k)
                \/ \E p \in Paths : Register(p) \/ DeleteFile(p)

LEMMA Changed ==
    ASSUME ClientChange
    PROVE  /\ UNCHANGED <<target, mfs, row, request, queue, run, review, books,
                          published, approved, waived, late>>
           /\ disturbed' <=> disturbed \/ Reading \/ \E d \in Deployments : Taken(d)
<1>1. CASE \E k \in Sessions : EndSession(k)
  BY <1>1 DEF EndSession, Change
<1>2. CASE \E p \in Paths : Register(p) \/ DeleteFile(p)
  BY <1>2 DEF Register, DeleteFile, Change
<1>3. QED BY <1>1, <1>2 DEF ClientChange

WorkerStep(w) == Work(w) \/ Trouble(w)
ReviewStep(r) == Decide(r) \/ \E d \in Deployments : Look(r, d)
CallStep(d) == Call(d) \/ \E e \in Environments : Request(d, e)

(* The steps, by who takes them.                                           *)
LEMMA Steps ==
    Next => \/ ClientChange
            \/ \E d \in Deployments : CallStep(d)
            \/ \E w \in Workers : WorkerStep(w) \/ \E d \in Deployments : Take(w, d)
            \/ \E r \in Reviewers : ReviewStep(r)
  BY DEF Next, Client, ClientChange, CallStep, WorkerStep, ReviewStep

(* Every step of a run keeps to its own deployment.                        *)
LEMMA Framed ==
    ASSUME TypeOK, NEW w \in Workers, WorkerStep(w)
    PROVE  Frame(w)
  BY Worked, Caught DEF WorkerStep, Work, Trouble

(* Nothing comes to be of a deployment before its message is sent.         *)
LEMMA FreshStep == TypeOK /\ FreshInv /\ [Next]_vars => FreshInv'
<1> SUFFICES ASSUME TypeOK, FreshInv, [Next]_vars PROVE FreshInv'
  OBVIOUS
<1>1. CASE ClientChange
  BY <1>1, Changed DEF FreshInv, Active, Deciding
<1>2. ASSUME NEW d \in Deployments, CallStep(d)
      PROVE  FreshInv'
  <2>1. \A c \in Deployments : c # d => /\ request'[c] = request[c]
                                        /\ row'[c] = row[c] /\ queue'[c] = queue[c]
    BY <1>2, Called DEF CallStep
  <2>2. request[d] # "done" /\ UNCHANGED <<mfs, run, review>>
    BY <1>2, Called DEF CallStep, Call, site, buckets
  <2>3. \/ request'[d] = "done"
        \/ queue'[d] = queue[d] /\ row'[d].status \in {row[d].status, "INITIATED"}
    BY <1>2, Called DEF CallStep, Call
  <2>4. QED BY <2>1, <2>2, <2>3 DEF FreshInv, Active, Deciding
<1>3. ASSUME NEW w \in Workers, NEW d \in Deployments, Take(w, d)
      PROVE  FreshInv'
  <2>1. /\ queue[d] > 0 /\ run'[w].of = d
        /\ \A v \in Workers : v # w => run'[v] = run[v]
        /\ \A e \in Deployments : e # d => queue'[e] = queue[e]
        /\ UNCHANGED <<mfs, row, request, review>>
    BY <1>3, TakenUp DEF site, buckets
  <2>2. request[d] = "done"
    BY <2>1 DEF FreshInv
  <2>3. QED BY <2>1, <2>2 DEF FreshInv, Active, Deciding
<1>4. ASSUME NEW w \in Workers, WorkerStep(w)
      PROVE  FreshInv'
  <2>1. Frame(w) /\ run[w].of \in Deployments
    BY <1>4, Framed, Types
  <2>2. request[run[w].of] = "done"
    BY <2>1 DEF FreshInv, Frame
  <2>3. QED BY <2>1, <2>2 DEF FreshInv, Frame, Active, Deciding
<1>5. ASSUME NEW r \in Reviewers, Decide(r)
      PROVE  FreshInv'
  <2>1. /\ review[r].of \in Deployments /\ Deciding(r)
        /\ \A e \in Deployments : e # review[r].of => row'[e] = row[e] /\ queue'[e] = queue[e]
        /\ \A q \in Reviewers : q # r => review'[q] = review[q]
        /\ review'[r].pc = "idle" \/ review'[r].of = review[r].of
        /\ UNCHANGED <<mfs, request, run>>
    BY <1>5, Decided, Types DEF Decide, Deciding, site, buckets
  <2>2. request[review[r].of] = "done"
    BY <2>1 DEF FreshInv
  <2>3. QED BY <2>1, <2>2 DEF FreshInv, Active, Deciding
<1>6. ASSUME NEW r \in Reviewers, NEW d \in Deployments, Look(r, d)
      PROVE  FreshInv'
  <2>0. /\ row[d].status = "IN_REVIEW"
        /\ review'[r] = [pc |-> "read", of |-> d, row |-> row[d]]
        /\ UNCHANGED <<site, row, request, queue, run>>
    BY <1>6, Decided
  <2>1. /\ row[d].status = "IN_REVIEW" /\ review'[r].of = d
        /\ \A q \in Reviewers : q # r => review'[q] = review[q]
        /\ UNCHANGED <<mfs, row, request, queue, run>>
    BY <1>6, <2>0, Decided DEF site, buckets
  <2>2. request[d] = "done"
    BY <2>1 DEF FreshInv
  <2>3. QED BY <2>1, <2>2 DEF FreshInv, Active, Deciding
<1>7. CASE UNCHANGED vars
  BY <1>7 DEF FreshInv, Active, Deciding, vars, site, buckets
<1>8. QED BY <1>1, <1>2, <1>3, <1>4, <1>5, <1>6, <1>7, Steps DEF ReviewStep

(* A run remembers what it has written.                                    *)
LEMMA StateStep == TypeOK /\ StateInv /\ [Next]_vars => StateInv'
<1> SUFFICES ASSUME TypeOK, StateInv, [Next]_vars PROVE StateInv'
  OBVIOUS
<1>1. CASE ClientChange
  BY <1>1, Changed DEF StateInv
<1>2. CASE \E d \in Deployments : CallStep(d)
  BY <1>2, Called DEF CallStep, Call, StateInv, past
<1>3. CASE \E w \in Workers, d \in Deployments : Take(w, d)
  BY <1>3, TakenUp DEF StateInv
<1>4. ASSUME NEW w \in Workers, WorkerStep(w)
      PROVE  StateInv'
  <2>1. \A v \in Workers : v # w => run'[v] = run[v]
    BY <1>4, Framed DEF Frame
  <2>2. published \subseteq published'
    <3>1. CASE Commit(w)
      BY <3>1 DEF Commit
    <3>2. CASE ~ Commit(w)
      BY <1>4, <3>2, Worked, Caught DEF WorkerStep, Work, Trouble, past
    <3>3. QED BY <3>1, <3>2
  <2>3. /\ run'[w].pc = "files" => run'[w].row.environment # "PRODUCTION"
        /\ run'[w].pc = "asked" => run'[w].row.status = "IN_REVIEW"
        /\ run'[w].pc \in {"committed", "cleared"} =>
             run'[w].row.status = "SUCCESSFUL" /\ run'[w].of \in published'
    <3>1. CASE Commit(w)
      <4>1. run'[w].of = run[w].of
        BY <1>4, <3>1, Framed, Worked DEF Frame
      <4>2. run[w].of \in published'
        BY <3>1 DEF Commit
      <4>3. QED BY <3>1, <4>1, <4>2, Worked
    <3>2. CASE ClearSource(w)
      <4>1. run'[w].of = run[w].of
        BY <1>4, <3>2, Framed, Worked DEF Frame
      <4>2. QED BY <2>2, <3>2, <4>1, Worked DEF StateInv
    <3>3. CASE Mark(w) \/ ReadBucket(w) \/ ReadFiles(w) \/ Upload(w) \/ SendToReview(w)
               \/ Finish(w) \/ Refund(w) \/ Dies(w)
      BY <3>3, Worked
    <3>4. CASE UploadFails(w) \/ Fails(w) \/ CommitFails(w)
      BY <3>4, Caught
    <3>5. QED BY <1>4, <3>1, <3>2, <3>3, <3>4 DEF WorkerStep, Work, Trouble
  <2>4. QED BY <2>1, <2>2, <2>3 DEF StateInv
<1>5. CASE \E r \in Reviewers : ReviewStep(r)
  <2>1. UNCHANGED <<run, published>>
    BY <1>5 DEF ReviewStep, Decide, Approve, SendApproved, Reject, Look, past
  <2>2. QED BY <2>1 DEF StateInv
<1>6. CASE UNCHANGED vars
  BY <1>6 DEF StateInv, vars, past
<1>7. QED BY <1>1, <1>2, <1>3, <1>4, <1>5, <1>6, Steps

-----------------------------------------------------------------------------
(* What is read of the source, and what is deployed *)

(* Once a source has changed under a deployment, it has. *)
LEMMA Lasting ==
    ASSUME TypeOK, [Next]_vars, disturbed
    PROVE  disturbed'
<1>1. CASE ClientChange
  BY <1>1, Changed
<1>2. CASE \E d \in Deployments : CallStep(d)
  BY <1>2, Called DEF CallStep, Call, past
<1>3. CASE \E w \in Workers, d \in Deployments : Take(w, d)
  BY <1>3, TakenUp
<1>4. ASSUME NEW w \in Workers, WorkerStep(w)
      PROVE  disturbed'
  BY <1>4, Worked, Caught DEF WorkerStep, Work, Trouble, Commit, ClearSource, Change, past
<1>5. CASE \E r \in Reviewers : ReviewStep(r)
  BY <1>5 DEF ReviewStep, Decide, Approve, SendApproved, Reject, Look, past
<1>6. CASE UNCHANGED vars
  BY <1>6 DEF vars, past
<1>7. QED BY <1>1, <1>2, <1>3, <1>4, <1>5, <1>6, Steps

(* What a run writes to its directory, some files or all of them, is in    *)
(* the upload bucket, whatever an earlier attempt has left there, and adds *)
(* nothing to a directory that was whole.                                  *)
LEMMA WrittenIs ==
    ASSUME TypeOK, TakenInv, ReadInv, ~ disturbed,
           NEW w \in Workers, run[w].pc = "files", NEW paths \in SUBSET Paths
    PROVE  /\ upload = Empty \/ Part(Written(w, paths), upload)
           /\ Whole(run[w].of) => Written(w, paths) = mfs[run[w].of]
<1> DEFINE d == run[w].of
           new == [p \in Paths |-> IF p \in paths THEN OnS3(run[w].files)[p] ELSE 0]
<1>1. /\ d \in Deployments /\ upload \in Content /\ mfs[d] \in Content
      /\ run[w].files = upload
  BY Types DEF TypeOK, ReadInv
<1>2. \A p \in Paths : new[p] = IF p \in paths THEN upload[p] ELSE 0
  BY <1>1 DEF OnS3
<1>3. mfs[d] = Empty \/ upload = Empty \/ Part(mfs[d], upload)
  BY <1>1 DEF TakenInv, Taken, Pending
<1>4. /\ Written(w, paths) = [p \in Paths |-> IF new[p] # 0 THEN new[p] ELSE mfs[d][p]]
      /\ \A p \in Paths : Written(w, paths)[p] = IF new[p] # 0 THEN new[p] ELSE mfs[d][p]
  BY DEF Written, Over
<1> HIDE DEF new
<1>5. upload # Empty => Part(Written(w, paths), upload)
  BY <1>1, <1>2, <1>3, <1>4 DEF Part, Empty
<1>6. ASSUME Whole(d)
      PROVE  Written(w, paths) = mfs[d]
  <2>1. \A p \in Paths : new[p] # 0 => new[p] = mfs[d][p]
    BY <1>1, <1>2, <1>6 DEF Whole, Empty
  <2>2. Written(w, paths) = [p \in Paths |-> mfs[d][p]]
    BY <1>4, <2>1
  <2>3. QED BY <1>1, <2>2 DEF Content
<1>7. QED BY <1>5, <1>6

(* What a whole upload leaves in the directory is the upload bucket.       *)
LEMMA DirectoryIs ==
    ASSUME TypeOK, TakenInv, ReadInv, ~ disturbed,
           NEW w \in Workers, run[w].pc = "files", Uploadable(w)
    PROVE  Directory(w) = upload /\ upload # Empty
<1> DEFINE d == run[w].of
<1>1. run[w].files = upload /\ upload # Empty
  BY DEF ReadInv, Uploadable
<1>2. d \in Deployments /\ upload \in Content /\ mfs[d] \in Content
  BY Types DEF TypeOK
<1>3. mfs[d] = Empty \/ Part(mfs[d], upload)
  BY <1>1, <1>2 DEF TakenInv, Taken, Pending
<1>4. Directory(w) = [p \in Paths |-> IF upload[p] # 0 THEN upload[p] ELSE mfs[d][p]]
  BY <1>1 DEF Directory, Written, OnS3, Over
<1>5. \A p \in Paths : upload[p] = 0 => mfs[d][p] = 0
  BY <1>2, <1>3 DEF Part, Empty
<1>6. Directory(w) = [p \in Paths |-> upload[p]]
  BY <1>4, <1>5
<1>7. QED BY <1>1, <1>2, <1>6 DEF Content

(* The upload bucket stays what was taken from it.                         *)
LEMMA TakenStep ==
    ASSUME TypeOK, FreshInv, TakenInv, ReadInv, [Next]_vars
    PROVE  TakenInv'
<1>1. SUFFICES ASSUME ~ disturbed', ~ disturbed PROVE TakenInv'
  BY Lasting DEF TakenInv
<1>2. \A d \in Deployments : Taken(d) => upload = Empty \/ Part(mfs[d], upload)
  BY <1>1 DEF TakenInv
<1>3. CASE ClientChange
  <2>1. \A d \in Deployments : ~ Taken(d)
    BY <1>1, <1>3, Changed
  <2>2. \A d \in Deployments : ~ Taken(d)'
    BY <1>3, <2>1, Changed DEF Taken, Pending
  <2>3. QED BY <2>2 DEF TakenInv
<1>4. ASSUME NEW d \in Deployments, CallStep(d)
      PROVE  TakenInv'
  <2>1. /\ \A c \in Deployments : c # d => row'[c] = row[c] /\ queue'[c] = queue[c]
        /\ request[d] # "done" /\ UNCHANGED <<upload, mfs, run, review>>
    BY <1>4, Called DEF CallStep, Call, site, buckets
  <2>2. mfs[d] = Empty
    BY <2>1 DEF FreshInv
  <2>3. \A c \in Deployments : Taken(c)' => Taken(c)
    BY <2>1, <2>2 DEF Taken, Pending
  <2>4. QED BY <1>2, <2>1, <2>3 DEF TakenInv
<1>5. ASSUME NEW w \in Workers, NEW d \in Deployments, Take(w, d)
      PROVE  TakenInv'
  <2>1. /\ queue[d] > 0 /\ run'[w].of = d
        /\ \A v \in Workers : v # w => run'[v] = run[v]
        /\ \A e \in Deployments : e # d => queue'[e] = queue[e]
        /\ UNCHANGED <<upload, mfs, row, review>>
    BY <1>5, TakenUp DEF site, buckets
  <2>2. \A c \in Deployments : Taken(c)' => Taken(c)
    BY <2>1 DEF Taken, Pending
  <2>3. QED BY <1>2, <2>1, <2>2 DEF TakenInv
<1>6. ASSUME NEW w \in Workers, WorkerStep(w)
      PROVE  TakenInv'
  <2>1. Frame(w) /\ run[w].of \in Deployments
    BY <1>6, Framed, Types
  <2>2. \A c \in Deployments : c # run[w].of /\ Taken(c)' => Taken(c)
    BY <2>1 DEF Frame, Taken, Pending, Active
  <2>3. mfs[run[w].of] # Empty => Taken(run[w].of)
    BY <2>1 DEF Frame, Active, Taken, Pending
  <2>4. CASE Upload(w)
    <3>1. /\ mfs'[run[w].of] = upload /\ upload' = upload
          /\ \A e \in Deployments : e # run[w].of => mfs'[e] = mfs[e]
      BY <1>1, <2>1, <2>4, Worked, DirectoryIs DEF Frame
    <3>2. Part(upload, upload)
      BY DEF Part
    <3>3. QED BY <1>2, <2>2, <3>1, <3>2 DEF TakenInv
  <2>5. CASE ClearSource(w)
    BY <2>5 DEF ClearSource, Change, TakenInv
  <2>6. CASE UNCHANGED <<upload, mfs>>
    <3>1. \A c \in Deployments : Taken(c)' => Taken(c)
      BY <2>2, <2>3, <2>6 DEF Taken
    <3>2. QED BY <1>2, <2>6, <3>1 DEF TakenInv
  (* A run that ends while it uploads. *)
  <2>7. CASE run[w].pc = "files" /\ Leave(w) /\ UNCHANGED upload
    <3>1. PICK paths \in SUBSET Paths : mfs' = [mfs EXCEPT ![run[w].of] = Written(w, paths)]
      BY <2>7 DEF Leave
    <3>2. /\ mfs'[run[w].of] = Written(w, paths)
          /\ \A e \in Deployments : e # run[w].of => mfs'[e] = mfs[e]
      BY <2>1, <3>1, Types
    <3>3. upload = Empty \/ Part(Written(w, paths), upload)
      BY <1>1, <2>7, WrittenIs
    <3>4. QED BY <1>2, <2>2, <2>7, <3>2, <3>3 DEF TakenInv
  <2>8. CASE ~ Upload(w) /\ ~ ClearSource(w)
    <3>1. UNCHANGED upload /\ (Leave(w) \/ UNCHANGED mfs)
      BY <1>6, <2>8, Worked, Caught DEF WorkerStep, Work, Trouble
    <3>2. QED BY <2>6, <2>7, <3>1 DEF Leave
  <2>9. QED BY <2>4, <2>5, <2>8
<1>7. ASSUME NEW r \in Reviewers, Decide(r)
      PROVE  TakenInv'
  <2>1. /\ review[r].of \in Deployments /\ Deciding(r)
        /\ \A e \in Deployments : e # review[r].of => row'[e] = row[e] /\ queue'[e] = queue[e]
        /\ \A q \in Reviewers : q # r => review'[q] = review[q]
        /\ review'[r].pc = "idle" \/ review'[r].of = review[r].of
        /\ UNCHANGED <<upload, mfs, run>>
    BY <1>7, Decided, Types DEF Decide, Deciding, site, buckets
  <2>2. mfs[review[r].of] # Empty => Taken(review[r].of)
    BY <2>1 DEF Taken, Deciding
  <2>3. \A c \in Deployments : Taken(c)' => Taken(c)
    BY <2>1, <2>2 DEF Taken, Pending
  <2>4. QED BY <1>2, <2>1, <2>3 DEF TakenInv
<1>8. ASSUME NEW r \in Reviewers, NEW d \in Deployments, Look(r, d)
      PROVE  TakenInv'
  <2>1. /\ row[d].status = "IN_REVIEW"
        /\ review'[r] = [pc |-> "read", of |-> d, row |-> row[d]]
        /\ UNCHANGED <<site, row, request, queue, run>>
    BY <1>8, Decided
  <2>2. /\ review'[r].of = d /\ \A q \in Reviewers : q # r => review'[q] = review[q]
        /\ UNCHANGED <<upload, mfs, row, queue, run>>
    BY <1>8, <2>1, Decided DEF site, buckets
  <2>3. \A c \in Deployments : Taken(c)' => Taken(c)
    BY <2>1, <2>2 DEF Taken, Pending
  <2>4. QED BY <1>2, <2>2, <2>3 DEF TakenInv
<1>9. CASE UNCHANGED vars
  BY <1>2, <1>9 DEF vars, site, buckets, TakenInv, Taken, Pending
<1>10. QED BY <1>3, <1>4, <1>5, <1>6, <1>7, <1>8, <1>9, Steps DEF ReviewStep

(* What a run has read stays what is there.                                *)
LEMMA ReadStep ==
    ASSUME TypeOK, StateInv, TakenInv, ReadInv, BucketsConsistent, [Next]_vars
    PROVE  ReadInv'
<1>1. SUFFICES ASSUME ~ disturbed', ~ disturbed PROVE ReadInv'
  BY Lasting DEF ReadInv
<1>2. \A w \in Workers :
        /\ run[w].pc = "files" => run[w].files = upload
        /\ run[w].pc = "bucket" /\ run[w].row.environment = "PRODUCTION" =>
             run[w].cid = target["staging"].cid
        /\ run[w].pc = "ready" => run[w].files = run[w].cid
  BY <1>1 DEF ReadInv
<1>3. CASE ClientChange
  <2>1. \A w \in Workers : run[w].pc # "files"
    BY <1>1, <1>3, Changed DEF Reading, StateInv
  <2>2. QED BY <1>2, <1>3, <2>1, Changed DEF ReadInv
<1>4. CASE \E d \in Deployments : CallStep(d)
  <2>1. UNCHANGED <<upload, target, run>>
    BY <1>4, Called DEF CallStep, Call, site, buckets
  <2>2. QED BY <1>2, <2>1 DEF ReadInv
<1>5. CASE \E w \in Workers, d \in Deployments : Take(w, d)
  BY <1>2, <1>5, TakenUp DEF ReadInv, site, buckets
<1>6. ASSUME NEW w \in Workers, WorkerStep(w)
      PROVE  ReadInv'
  <2>1. Frame(w) /\ \A v \in Workers : v # w => run'[v] = run[v]
    BY <1>6, Framed DEF Frame
  <2>2. CASE ClearSource(w)
    <3>1. \A v \in Workers : run[v].pc # "files"
      BY <1>1, <2>2 DEF ClearSource, Change, Reading, StateInv
    <3>2. QED BY <1>2, <2>1, <2>2, <3>1, Worked DEF ReadInv
  <2>3. CASE Commit(w)
    <3>1. Target(run[w].row.environment) = "staging" =>
            \A v \in Workers :
              ~ (run[v].pc = "bucket" /\ run[v].row.environment = "PRODUCTION")
      BY <1>1, <2>3 DEF Commit
    <3>2. Target(run[w].row.environment) # "staging" => target'["staging"] = target["staging"]
      BY <2>3, Types DEF Commit, Buckets
    <3>3. QED BY <1>2, <2>1, <2>3, <3>1, <3>2, Worked DEF ReadInv
  <2>4. CASE Upload(w)
    <3>1. run'[w].files = upload /\ run'[w].cid = upload /\ UNCHANGED <<upload, target>>
      BY <1>1, <1>2, <2>4, Worked, DirectoryIs
    <3>2. run'[w].pc # "bucket"
      BY <2>4, Worked
    <3>3. QED BY <1>2, <2>1, <3>1, <3>2 DEF ReadInv
  <2>5. CASE ReadFiles(w)
    <3>1. UNCHANGED <<upload, target>> /\ run'[w].pc # "bucket"
      BY <2>5, Worked
    <3>2. CASE run[w].row.environment = "PRODUCTION"
      <4>1. run'[w].files = target["staging"].files /\ run'[w].cid = target["staging"].cid
        BY <1>2, <2>5, <3>2, Worked DEF Source
      <4>2. target["staging"].files = target["staging"].cid
        BY <1>1 DEF BucketsConsistent
      <4>3. QED BY <1>2, <2>1, <2>5, <3>1, <3>2, <4>1, <4>2, Worked DEF ReadInv
    <3>3. CASE run[w].row.environment # "PRODUCTION"
      <4>1. run'[w].files = upload /\ run'[w].pc = "files"
        BY <2>5, <3>3, Worked DEF Source
      <4>2. QED BY <1>2, <2>1, <3>1, <4>1 DEF ReadInv
    <3>4. QED BY <3>2, <3>3
  <2>6. CASE Mark(w) \/ ReadBucket(w)
    BY <1>2, <2>1, <2>6, Worked DEF ReadInv
  <2>7. CASE SendToReview(w) \/ Finish(w) \/ Refund(w) \/ Dies(w)
    BY <1>2, <2>1, <2>7, Worked DEF ReadInv
  <2>8. CASE UploadFails(w) \/ Fails(w) \/ CommitFails(w)
    BY <1>2, <2>1, <2>8, Caught DEF ReadInv
  <2>9. QED
    BY <1>6, <2>2, <2>3, <2>4, <2>5, <2>6, <2>7, <2>8 DEF WorkerStep, Work, Trouble
<1>7. CASE \E r \in Reviewers : ReviewStep(r)
  <2>1. UNCHANGED <<upload, target, run>>
    BY <1>7 DEF ReviewStep, Decide, Approve, SendApproved, Reject, Look, site, buckets
  <2>2. QED BY <1>2, <2>1 DEF ReadInv
<1>8. CASE UNCHANGED vars
  BY <1>2, <1>8 DEF vars, site, buckets, ReadInv
<1>9. QED BY <1>3, <1>4, <1>5, <1>6, <1>7, <1>8, Steps

(* Only the transaction of the worker writes the target buckets. *)
LEMMA TargetFrame ==
    ASSUME TypeOK, [Next]_vars
    PROVE  target' = target \/ \E w \in Workers : Commit(w)
<1>1. CASE ClientChange
  BY <1>1, Changed
<1>2. CASE \E d \in Deployments : CallStep(d)
  BY <1>2, Called DEF CallStep, Call, site, buckets
<1>3. CASE \E w \in Workers, d \in Deployments : Take(w, d)
  BY <1>3, TakenUp DEF site, buckets
<1>4. ASSUME NEW w \in Workers, WorkerStep(w)
      PROVE  target' = target \/ Commit(w)
  BY <1>4, Worked, Caught DEF WorkerStep, Work, Trouble
<1>5. CASE \E r \in Reviewers : ReviewStep(r)
  BY <1>5 DEF ReviewStep, Decide, Approve, SendApproved, Reject, Look, site, buckets
<1>6. CASE UNCHANGED vars
  BY <1>6 DEF vars, site, buckets
<1>7. QED BY <1>1, <1>2, <1>3, <1>4, <1>5, <1>6, Steps

(* A commit writes CID and files of a bucket together.                     *)
LEMMA CommitTarget ==
    ASSUME TypeOK, NEW w \in Workers, Commit(w)
    PROVE  \A b \in Buckets :
             \/ target'[b] = target[b]
             \/ target'[b].cid = run[w].cid /\ target'[b].files = run[w].files
  BY Types DEF Commit, Target, Buckets

(* A commit leaves rows and CID of its bucket alike.                       *)
LEMMA BucketsStep ==
    ASSUME TypeOK, ReadInv, BucketsConsistent, [Next]_vars
    PROVE  BucketsConsistent'
<1>1. SUFFICES ASSUME ~ disturbed', ~ disturbed PROVE BucketsConsistent'
  BY Lasting DEF BucketsConsistent
<1>2. \A b \in Buckets : target[b].files = target[b].cid
  BY <1>1 DEF BucketsConsistent, Buckets
<1>3. CASE target' = target
  BY <1>2, <1>3 DEF BucketsConsistent, Buckets
<1>4. ASSUME NEW w \in Workers, Commit(w)
      PROVE  BucketsConsistent'
  <2>1. run[w].files = run[w].cid
    BY <1>1, <1>4 DEF Commit, ReadInv
  <2>2. \A b \in Buckets : target'[b].files = target'[b].cid
    BY <1>2, <1>4, <2>1, CommitTarget
  <2>3. QED BY <2>2 DEF BucketsConsistent, Buckets
<1>5. QED BY <1>3, <1>4, TargetFrame

-----------------------------------------------------------------------------
(* Directories that are whole stay as they are while they may be used;     *)
(* approvals and excuses last.                                             *)
LEMMA Kept ==
    ASSUME TypeOK, TakenInv, ReadInv, ~ disturbed, ~ disturbed', [Next]_vars
    PROVE  /\ \A d \in Deployments : Taken(d) /\ Whole(d) => mfs'[d] = mfs[d] /\ Whole(d)'
           /\ approved \subseteq approved' /\ waived \subseteq waived'
<1>1. CASE ClientChange
  BY <1>1, Changed
<1>2. CASE \E d \in Deployments : CallStep(d)
  <2>1. UNCHANGED <<upload, mfs, approved, waived>>
    BY <1>2, Called DEF CallStep, Call, site, buckets, past
  <2>2. QED BY <2>1 DEF Whole
<1>3. CASE \E w \in Workers, d \in Deployments : Take(w, d)
  BY <1>3, TakenUp DEF site, buckets, Whole
<1>4. ASSUME NEW w \in Workers, WorkerStep(w)
      PROVE  /\ \A d \in Deployments : Taken(d) /\ Whole(d) => mfs'[d] = mfs[d] /\ Whole(d)'
             /\ approved \subseteq approved' /\ waived \subseteq waived'
  <2>1. Frame(w) /\ run[w].of \in Deployments
    BY <1>4, Framed, Types
  <2>2. upload' \in {upload, Empty}
    <3>1. CASE ClearSource(w)
      BY <3>1 DEF ClearSource, Change
    <3>2. CASE ~ ClearSource(w)
      BY <1>4, <3>2, Worked, Caught DEF WorkerStep, Work, Trouble
    <3>3. QED BY <3>1, <3>2
  <2>3. Whole(run[w].of) => mfs'[run[w].of] = mfs[run[w].of]
    <3>1. CASE Upload(w)
      <4>1. Directory(w) = upload /\ upload # Empty /\ mfs'[run[w].of] = Directory(w)
        BY <3>1, Worked, DirectoryIs
      <4>2. QED BY <4>1 DEF Whole
    <3>2. CASE run[w].pc = "files" /\ Leave(w)
      <4>1. PICK paths \in SUBSET Paths : mfs' = [mfs EXCEPT ![run[w].of] = Written(w, paths)]
        BY <3>2 DEF Leave
      <4>2. mfs'[run[w].of] = Written(w, paths)
        BY <2>1, <4>1, Types
      <4>3. QED BY <3>2, <4>2, WrittenIs
    <3>3. CASE UNCHANGED mfs
      BY <3>3
    <3>4. Upload(w) \/ Leave(w) \/ UNCHANGED mfs
      BY <1>4, Worked, Caught DEF WorkerStep, Work, Trouble
    <3>5. QED BY <3>1, <3>2, <3>3, <3>4 DEF Leave
  <2>4. QED BY <2>1, <2>2, <2>3 DEF Frame, Whole
<1>5. CASE \E r \in Reviewers : ReviewStep(r)
  <2>1. /\ UNCHANGED <<upload, mfs, waived>>
        /\ approved \subseteq approved'
    BY <1>5 DEF ReviewStep, Decide, Approve, SendApproved, Reject, Look, site, buckets, past
  <2>2. QED BY <2>1 DEF Whole
<1>6. CASE UNCHANGED vars
  BY <1>6 DEF vars, site, buckets, past, Whole
<1>7. QED BY <1>1, <1>2, <1>3, <1>4, <1>5, <1>6, Steps

(* A review is about what the directory holds then and later.              *)
LEMMA ReviewInvStep ==
    ASSUME TypeOK, StateInv, TakenInv, ReadInv, ReviewInv, [Next]_vars
    PROVE  ReviewInv'
<1>1. SUFFICES ASSUME ~ disturbed', ~ disturbed PROVE ReviewInv'
  BY Lasting DEF ReviewInv
(* Deployments that are looked at may be looked at once more.              *)
<1>0. /\ \A d \in Deployments :
           row[d].status \in {"IN_REVIEW", "APPROVED"} /\ Whole(d) => Taken(d)
      /\ \A w \in Workers : Active(w) /\ Whole(run[w].of) => Taken(run[w].of)
      /\ \A r \in Reviewers : review[r].pc = "read" /\ Whole(review[r].of) =>
                               Taken(review[r].of)
  BY DEF Whole, Taken, Pending, Active
<1>2. /\ \A d \in Deployments :
           /\ row[d].status = "IN_REVIEW" => Shown(d, row[d]) /\ Taken(d)
           /\ row[d].status = "APPROVED" => Passed(d) /\ Taken(d)
      /\ \A w \in Workers :
           /\ run[w].pc \in {"review", "asked"} =>
                Shown(run[w].of, run[w].row) /\ Taken(run[w].of)
           /\ Active(w) /\ run[w].row.status = "APPROVED" =>
                Passed(run[w].of) /\ Taken(run[w].of)
      /\ \A r \in Reviewers : review[r].pc = "read" =>
           Shown(review[r].of, review[r].row) /\ Taken(review[r].of)
  BY <1>0, <1>1 DEF ReviewInv, Shown, Passed, Active
<1>3. /\ \A d \in Deployments : Taken(d) /\ Passed(d) => Passed(d)'
      /\ approved \subseteq approved'
  BY <1>1, Kept DEF Passed
(* What was shown of a deployment stays what its directory is. *)
<1>4. \A d \in Deployments, r \in Row :
        Taken(d) /\ Shown(d, r) => Whole(d)' /\ r.cid = mfs'[d]
  BY <1>1, Kept DEF Shown
<1>5. /\ \A d \in Deployments : row[d] \in Row
      /\ \A w \in Workers : run[w].of \in Deployments /\ run[w].row \in Row
      /\ \A r \in Reviewers : review[r].of \in Deployments /\ review[r].row \in Row
  BY Types
<1> DEFINE Row1(d) == /\ row'[d].status = "IN_REVIEW" => Shown(d, row[d])'
                      /\ row'[d].status = "APPROVED" => Passed(d)'
           Run1(w) == /\ run'[w].pc \in {"review", "asked"} => Shown(run[w].of, run[w].row)'
                      /\ Active(w)' /\ run'[w].row.status = "APPROVED" => Passed(run[w].of)'
           Rev1(r) == review'[r].pc = "read" => Shown(review[r].of, review[r].row)'
<1>6. /\ \A d \in Deployments : row'[d] = row[d] => Row1(d)
      /\ \A w \in Workers : run'[w] = run[w] => Run1(w)
      /\ \A r \in Reviewers : review'[r] = review[r] => Rev1(r)
  BY <1>2, <1>3, <1>4, <1>5 DEF Shown, Active
<1>7. SUFFICES /\ \A d \in Deployments : Row1(d)
               /\ \A w \in Workers : Run1(w)
               /\ \A r \in Reviewers : Rev1(r)
  BY DEF ReviewInv
<1>8. CASE ClientChange
  <2>1. UNCHANGED <<row, run, review>>
    BY <1>8, Changed
  <2> HIDE DEF Row1, Run1, Rev1
  <2>2. QED BY <1>6, <2>1
<1>9. ASSUME NEW d \in Deployments, CallStep(d)
      PROVE  /\ \A e \in Deployments : Row1(e)
             /\ \A w \in Workers : Run1(w)
             /\ \A r \in Reviewers : Rev1(r)
  <2>1. /\ \A c \in Deployments : c # d => row'[c] = row[c]
        /\ UNCHANGED <<run, review>>
        /\ row'[d] = row[d] \/ row'[d].status \in {"INITIATED", "none"}
    BY <1>9, Called DEF CallStep, Call
  <2>2. Row1(d)
    BY <1>6, <2>1
  <2> HIDE DEF Row1, Run1, Rev1
  <2>3. QED BY <1>6, <2>1, <2>2
<1>10. ASSUME NEW w \in Workers, NEW d \in Deployments, Take(w, d)
       PROVE  /\ \A e \in Deployments : Row1(e)
              /\ \A v \in Workers : Run1(v)
              /\ \A r \in Reviewers : Rev1(r)
  <2>1. /\ run'[w].pc = "taken" /\ run'[w].of = d /\ run'[w].row = row[d]
        /\ \A v \in Workers : v # w => run'[v] = run[v]
        /\ UNCHANGED <<row, review>>
    BY <1>10, TakenUp
  <2>2. Run1(w)
    BY <1>2, <1>3, <2>1
  <2> HIDE DEF Row1, Run1, Rev1
  <2>3. QED BY <1>6, <2>1, <2>2
<1>11. ASSUME NEW w \in Workers, WorkerStep(w)
       PROVE  /\ \A e \in Deployments : Row1(e)
              /\ \A v \in Workers : Run1(v)
              /\ \A r \in Reviewers : Rev1(r)
  <2>0. PICK d \in Deployments : d = run[w].of
    BY <1>5
  <2>1. /\ Active(w) /\ UNCHANGED review
        /\ \A v \in Workers : v # w => run'[v] = run[v]
        /\ \A e \in Deployments : e # d => row'[e] = row[e]
        /\ run'[w].pc = "idle" \/ run'[w].of = d
    BY <2>0, <1>11, Framed DEF Frame
  <2>2. Row1(d) /\ Run1(w)
    <3>1. CASE Mark(w) \/ ReadBucket(w) \/ ReadFiles(w) \/ ClearSource(w) \/ Finish(w)
               \/ Refund(w) \/ Dies(w)
      <4>1. /\ row'[d] = row[d] \/ row'[d].status = "IN_PROGRESS"
            /\ run'[w].pc = "idle" \/ run'[w].row = run[w].row
            /\ run'[w].pc \notin {"review", "asked"}
        BY <2>0, <3>1, Worked
      <4>2. Row1(d)
        BY <1>6, <2>1, <4>1
      <4>3. Run1(w)
        BY <1>2, <1>3, <2>0, <2>1, <4>1 DEF Active
      <4>4. QED BY <4>2, <4>3
    <3>2. CASE Upload(w)
      <4>1. /\ row' = row /\ run'[w].row.status = run[w].row.status
            /\ run'[w].row.cid = Directory(w) /\ mfs'[d] = Directory(w)
            /\ run'[w].of = d
        BY <2>0, <2>1, <3>2, Worked
      <4>2. Directory(w) = upload /\ upload # Empty /\ upload' = upload
        BY <1>1, <3>2, Worked, DirectoryIs
      <4>3. Row1(d)
        BY <1>6, <2>1, <4>1
      <4>4. Whole(d)'
        BY <4>1, <4>2 DEF Whole
      <4>5. Shown(run[w].of, run[w].row)'
        BY <4>1, <4>4 DEF Shown
      <4>6. Run1(w)
        BY <1>2, <1>3, <2>0, <2>1, <4>1, <4>5
      <4>7. QED BY <4>3, <4>6
    <3>3. CASE SendToReview(w)
      <4>1. /\ run[w].pc = "review" /\ run'[w].pc = "asked" /\ run'[w].of = d
            /\ run'[w].row.cid = run[w].row.cid /\ run'[w].row.status = "IN_REVIEW"
            /\ row'[d] = run'[w].row
        BY <2>0, <2>1, <3>3, Worked
      <4>2. Whole(d)' /\ run'[w].row.cid = mfs'[d]
        BY <1>2, <1>4, <1>5, <2>0, <4>1
      <4>3. QED BY <4>1, <4>2 DEF Shown
    <3>4. CASE Commit(w)
      <4>1. /\ run'[w].pc = "committed" /\ run'[w].row.status = "SUCCESSFUL"
            /\ row'[d] = run'[w].row
        BY <2>0, <3>4, Worked
      <4>2. QED BY <4>1
    <3>5. CASE UploadFails(w) \/ Fails(w) \/ CommitFails(w)
      <4>1. CASE /\ run'[w].pc = "failed" /\ run'[w].row = run[w].row
                 /\ row'[d].status = "FAILED"
        BY <1>2, <1>3, <2>0, <2>1, <4>1
      <4>2. CASE /\ run'[w].pc = "idle"
                 /\ \/ row'[d].status \in {"IN_PROGRESS", "SUCCESSFUL"}
                    \/ /\ run[w].pc \in {"review", "asked"} /\ row'[d].status = "IN_REVIEW"
                       /\ row'[d].cid = run[w].row.cid
        <5>1. run[w].pc \in {"review", "asked"} =>
                Whole(d)' /\ run[w].row.cid = mfs'[d]
          BY <1>2, <1>4, <1>5, <2>0
        <5>2. QED BY <4>2, <5>1 DEF Shown, Active
      <4>3. run[w].pc = "asked" => run[w].row.status = "IN_REVIEW"
        BY DEF StateInv
      <4>4. run[w].pc \in {"committed", "cleared"} => run[w].row.status = "SUCCESSFUL"
        BY DEF StateInv
      <4> HIDE DEF Row1, Run1, Rev1
      <4>5. QED BY <3>5, <4>1, <4>2, <4>3, <4>4, <2>0, Caught
    <3> HIDE DEF Row1, Run1, Rev1
    <3>6. QED BY <1>11, <3>1, <3>2, <3>3, <3>4, <3>5 DEF WorkerStep, Work, Trouble
  <2> HIDE DEF Row1, Run1, Rev1
  <2>3. QED BY <1>6, <2>1, <2>2
<1>12. ASSUME NEW r \in Reviewers, Decide(r)
       PROVE  /\ \A e \in Deployments : Row1(e)
              /\ \A v \in Workers : Run1(v)
              /\ \A q \in Reviewers : Rev1(q)
  <2>0. PICK d \in Deployments : d = review[r].of
    BY <1>5
  <2>1. /\ \A e \in Deployments : e # d => row'[e] = row[e]
        /\ \A q \in Reviewers : q # r => review'[q] = review[q]
        /\ review'[r].pc # "read" /\ UNCHANGED <<run, mfs>>
    BY <2>0, <1>12, Decided DEF Decide, site, buckets
  <2>2. Row1(d)
    <3>1. CASE Approve(r)
      <4>1. /\ row'[d].status = "APPROVED" /\ review[r].pc = "read"
            /\ review[r].row.cid \in approved'
        BY <2>0, <3>1, Decided
      <4>2. Whole(d)' /\ review[r].row.cid = mfs'[d]
        BY <1>2, <1>4, <1>5, <2>0, <4>1
      <4>3. QED BY <4>1, <4>2 DEF Passed
    <3>2. CASE SendApproved(r)
      <4>1. row' = row
        BY <3>2, Decided
      <4>2. QED BY <1>6, <2>1, <4>1
    <3>3. CASE Reject(r)
      BY <2>0, <3>3, Decided
    <3>4. QED BY <1>12, <3>1, <3>2, <3>3 DEF Decide
  <2>3. Rev1(r)
    BY <2>1
  <2> HIDE DEF Row1, Run1, Rev1
  <2>4. QED BY <1>6, <2>1, <2>2, <2>3
<1>13. ASSUME NEW r \in Reviewers, NEW d \in Deployments, Look(r, d)
       PROVE  /\ \A e \in Deployments : Row1(e)
              /\ \A v \in Workers : Run1(v)
              /\ \A q \in Reviewers : Rev1(q)
  <2>1. /\ row[d].status = "IN_REVIEW"
        /\ review'[r] = [pc |-> "read", of |-> d, row |-> row[d]]
        /\ UNCHANGED <<site, row, run>>
    BY <1>13, Decided
  <2>2. \A q \in Reviewers : q # r => review'[q] = review[q]
    BY <1>13, Decided
  <2>3. Whole(d)' /\ row[d].cid = mfs'[d]
    BY <1>2, <1>4, <1>5, <2>1
  <2>4. Rev1(r)
    BY <2>1, <2>3 DEF Shown
  <2> HIDE DEF Row1, Run1, Rev1
  <2>5. QED BY <1>6, <2>1, <2>2, <2>4
<1>14. CASE UNCHANGED vars
  <2>1. UNCHANGED <<row, run, review>>
    BY <1>14 DEF vars
  <2> HIDE DEF Row1, Run1, Rev1
  <2>2. QED BY <1>6, <2>1
<1> HIDE DEF Row1, Run1, Rev1
<1>15. QED
  BY <1>8, <1>9, <1>10, <1>11, <1>12, <1>13, <1>14, Steps DEF ReviewStep

(* Only what was approved, or excused, comes to be deployed.               *)
LEMMA CidStep ==
    ASSUME TypeOK, StateInv, TakenInv, ReadInv, ReviewInv, CidInv, [Next]_vars
    PROVE  CidInv'
<1>1. SUFFICES ASSUME ~ disturbed', ~ disturbed PROVE CidInv'
  BY Lasting DEF CidInv
<1>2. approved \subseteq approved' /\ waived \subseteq waived'
  BY <1>1, Kept
<1>3. /\ \A b \in Buckets : Fine(target[b].cid)
      /\ \A d \in Deployments : row[d].status = "SUCCESSFUL" => Fine(row[d].cid)
      /\ \A w \in Workers :
           /\ run[w].pc = "ready" => Fine(run[w].cid)
           /\ run[w].pc = "bucket" /\ run[w].row.environment = "PRODUCTION" =>
                Fine(run[w].cid)
           /\ run[w].pc \in {"committed", "cleared"} => Fine(run[w].row.cid)
  BY <1>1, <1>2 DEF CidInv, Buckets
<1> DEFINE Fine1(cid) == cid \in approved' \cup waived' \cup {Empty}
           Row1(d) == row'[d].status = "SUCCESSFUL" => Fine1(row'[d].cid)
           Run1(w) == /\ run'[w].pc = "ready" => Fine1(run'[w].cid)
                      /\ run'[w].pc = "bucket" /\ run'[w].row.environment = "PRODUCTION" =>
                           Fine1(run'[w].cid)
                      /\ run'[w].pc \in {"committed", "cleared"} => Fine1(run'[w].row.cid)
<1>4. \A cid : Fine(cid) => Fine1(cid)
  BY <1>2 DEF Fine
<1>5. /\ \A d \in Deployments : row'[d] = row[d] => Row1(d)
      /\ \A w \in Workers : run'[w] = run[w] => Run1(w)
  BY <1>3, <1>4
<1>6. \A b \in Buckets : Fine1(target'[b].cid)
  <2>1. CASE target' = target
    BY <1>3, <1>4, <2>1
  <2>2. ASSUME NEW w \in Workers, Commit(w)
        PROVE  \A b \in Buckets : Fine1(target'[b].cid)
    <3>1. Fine(run[w].cid)
      BY <1>3, <2>2 DEF Commit
    <3>2. QED BY <1>3, <1>4, <2>2, <3>1, CommitTarget
  <2>3. QED BY <2>1, <2>2, TargetFrame
<1>7. SUFFICES /\ \A d \in Deployments : Row1(d)
               /\ \A w \in Workers : Run1(w)
  BY <1>6 DEF CidInv, Fine, Buckets
<1>8. CASE ClientChange
  <2>1. UNCHANGED <<row, run>>
    BY <1>8, Changed
  <2> HIDE DEF Row1, Run1
  <2>2. QED BY <1>5, <2>1
<1>9. ASSUME NEW d \in Deployments, CallStep(d)
      PROVE  /\ \A e \in Deployments : Row1(e)
             /\ \A w \in Workers : Run1(w)
  <2>1. /\ \A c \in Deployments : c # d => row'[c] = row[c]
        /\ UNCHANGED run
        /\ row'[d] = row[d] \/ row'[d].status \in {"INITIATED", "none"}
    BY <1>9, Called DEF CallStep, Call
  <2>2. Row1(d)
    BY <1>5, <2>1
  <2> HIDE DEF Row1, Run1
  <2>3. QED BY <1>5, <2>1, <2>2
<1>10. ASSUME NEW w \in Workers, NEW d \in Deployments, Take(w, d)
       PROVE  /\ \A e \in Deployments : Row1(e)
              /\ \A v \in Workers : Run1(v)
  <2>1. /\ run'[w].pc = "taken" /\ UNCHANGED row
        /\ \A v \in Workers : v # w => run'[v] = run[v]
    BY <1>10, TakenUp
  <2>2. Run1(w)
    BY <2>1
  <2> HIDE DEF Row1, Run1
  <2>3. QED BY <1>5, <2>1, <2>2
<1>11. ASSUME NEW w \in Workers, WorkerStep(w)
       PROVE  /\ \A e \in Deployments : Row1(e)
              /\ \A v \in Workers : Run1(v)
  <2>0. PICK d \in Deployments : d = run[w].of
    BY Types
  <2>1. /\ \A v \in Workers : v # w => run'[v] = run[v]
        /\ \A e \in Deployments : e # d => row'[e] = row[e]
    BY <2>0, <1>11, Framed DEF Frame
  <2>2. Row1(d) /\ Run1(w)
    <3>1. CASE Mark(w) \/ Finish(w) \/ Refund(w) \/ Dies(w)
      <4>1. /\ row'[d] = row[d] \/ row'[d].status = "IN_PROGRESS"
            /\ run'[w].pc \in {"idle", "marked", "bucket"}
            /\ run'[w].pc = "bucket" => run'[w].row.environment # "PRODUCTION"
        BY <2>0, <3>1, Worked
      <4>2. Row1(d)
        BY <1>5, <4>1
      <4>3. Run1(w)
        BY <4>1
      <4>4. QED BY <4>2, <4>3
    <3>2. CASE ReadBucket(w)
      <4>1. /\ row' = row /\ run'[w].pc = "bucket"
            /\ run'[w].cid = target["staging"].cid
        BY <3>2, Worked
      <4>2. Fine1(target["staging"].cid)
        BY <1>3, <1>4 DEF Buckets
      <4>3. Row1(d)
        BY <1>5, <4>1
      <4>4. Run1(w)
        BY <4>1, <4>2
      <4>5. QED BY <4>3, <4>4
    <3>3. CASE ReadFiles(w)
      <4>1. /\ row' = row /\ run[w].pc = "bucket" /\ run'[w].cid = run[w].cid
            /\ run'[w].pc = IF run[w].row.environment = "PRODUCTION"
                            THEN "ready" ELSE "files"
        BY <3>3, Worked
      <4>2. Row1(d)
        BY <1>5, <4>1
      <4>3. run[w].row.environment = "PRODUCTION" => Fine1(run[w].cid)
        BY <1>3, <1>4, <4>1
      <4>4. Run1(w)
        BY <4>1, <4>3
      <4>5. QED BY <4>2, <4>4
    <3>4. CASE Upload(w)
      <4>1. /\ row' = row /\ run[w].pc = "files" /\ run'[w].cid = Directory(w)
            /\ run'[w].pc \in {"ready", "review"}
            /\ run'[w].pc = "ready" => Reviewed(w) \/ Directory(w) \in waived'
            /\ Uploadable(w)
        BY <3>4, Worked
      <4>2. Row1(d)
        BY <1>5, <4>1
      <4>3. ASSUME Reviewed(w) PROVE Fine(Directory(w))
        <5>1. CASE run[w].row.status = "APPROVED"
          <6>1. Passed(d)
            BY <1>1, <2>0, <4>1, <5>1 DEF ReviewInv, Active
          <6>2. Directory(w) = mfs[d]
            BY <1>1, <2>0, <4>1, <6>1, DirectoryIs DEF Passed, Whole
          <6>3. QED BY <6>1, <6>2 DEF Passed, Fine
        <5>2. CASE Known(Directory(w))
          BY <1>3, <5>2 DEF Known
        <5>3. QED BY <4>3, <5>1, <5>2 DEF Reviewed
      <4>4. Run1(w)
        BY <1>4, <4>1, <4>3
      <4>5. QED BY <4>2, <4>4
    <3>5. CASE SendToReview(w)
      <4>1. run'[w].pc = "asked" /\ row'[d].status = "IN_REVIEW"
        BY <2>0, <3>5, Worked
      <4>2. QED BY <4>1
    <3>6. CASE Commit(w)
      <4>1. /\ run[w].pc = "ready" /\ run'[w].pc = "committed"
            /\ run'[w].row.cid = run[w].cid /\ row'[d] = run'[w].row
        BY <2>0, <3>6, Worked
      <4>2. Fine1(run[w].cid)
        BY <1>3, <1>4, <4>1
      <4>3. QED BY <4>1, <4>2
    <3>7. CASE ClearSource(w)
      <4>1. /\ row' = row /\ run[w].pc = "committed" /\ run'[w].pc = "cleared"
            /\ run'[w].row = run[w].row
        BY <3>7, Worked
      <4>2. Fine1(run[w].row.cid)
        BY <1>3, <1>4, <4>1
      <4>3. Row1(d)
        BY <1>5, <4>1
      <4>4. Run1(w)
        BY <4>1, <4>2
      <4>5. QED BY <4>3, <4>4
    <3>8. CASE UploadFails(w) \/ Fails(w) \/ CommitFails(w)
      <4>1. run'[w].pc \in {"idle", "failed"}
        BY <3>8, Caught
      <4>2. Run1(w)
        BY <4>1
      <4>3. \/ row'[d].status \in {"FAILED", "IN_PROGRESS", "IN_REVIEW"}
            \/ /\ run[w].pc \in {"asked", "committed", "cleared"}
               /\ row'[d].status = run[w].row.status /\ row'[d].cid = run[w].row.cid
            \/ run[w].pc = "ready" /\ row'[d].cid = run[w].cid
        BY <2>0, <3>8, Caught
      <4>4. run[w].pc = "asked" => run[w].row.status = "IN_REVIEW"
        BY DEF StateInv
      <4>5. /\ run[w].pc \in {"committed", "cleared"} => Fine1(run[w].row.cid)
            /\ run[w].pc = "ready" => Fine1(run[w].cid)
        BY <1>3, <1>4
      <4>6. Row1(d)
        BY <4>3, <4>4, <4>5
      <4>7. QED BY <4>2, <4>6
    <3> HIDE DEF Row1, Run1
    <3>9. QED
      BY <1>11, <3>1, <3>2, <3>3, <3>4, <3>5, <3>6, <3>7, <3>8 DEF WorkerStep, Work, Trouble
  <2> HIDE DEF Row1, Run1
  <2>3. QED BY <1>5, <2>1, <2>2
<1>12. ASSUME NEW r \in Reviewers, ReviewStep(r)
       PROVE  /\ \A e \in Deployments : Row1(e)
              /\ \A v \in Workers : Run1(v)
  <2>0. PICK d \in Deployments : d = review[r].of
    BY Types
  <2>1. run' = run
    BY <1>12 DEF ReviewStep, Decide, Approve, SendApproved, Reject, Look
  <2>2. \A e \in Deployments : e # d => row'[e] = row[e]
    BY <1>12, <2>0, Decided DEF ReviewStep
  <2>3. row'[d] = row[d] \/ row'[d].status \in {"APPROVED", "REJECTED"}
    BY <1>12, <2>0, Decided DEF ReviewStep, Decide
  <2>4. Row1(d)
    BY <1>5, <2>3
  <2> HIDE DEF Row1, Run1
  <2>5. QED BY <1>5, <2>1, <2>2, <2>4
<1>13. CASE UNCHANGED vars
  <2>1. UNCHANGED <<row, run>>
    BY <1>13 DEF vars
  <2> HIDE DEF Row1, Run1
  <2>2. QED BY <1>5, <2>1
<1> HIDE DEF Row1, Run1
<1>14. QED
  BY <1>8, <1>9, <1>10, <1>11, <1>12, <1>13, Steps

-----------------------------------------------------------------------------
(* How deployments end *)

(* A successful row is committed, or the message of its deployment is      *)
(* still to be worked on.                                                  *)
Coming(d) == queue[d] > 0 \/ \E w \in Workers : run[w].pc = "taken" /\ run[w].of = d

(* How a deployment ends is noted once, or it is late.                     *)
LEMMA EndStep ==
    ASSUME TypeOK, StateInv, EndInv, [Next]_vars
    PROVE  EndInv'
<1>1. /\ \A d \in Deployments : row[d].status = "SUCCESSFUL" /\ d \notin published => Coming(d)
      /\ \A v, w \in Workers :
           Active(v) /\ Active(w) /\ v # w /\ run[v].of = run[w].of => run[v].of \in late
      /\ \A w \in Workers :
           /\ run[w].pc = "failed" /\ run[w].of \in published => run[w].of \in late
           /\ Active(w) /\ run[w].of \in refunded => run[w].of \in late
      /\ refunded \cap published \subseteq late
  BY DEF EndInv, Coming
<1>2. queue \in [Deployments -> Nat] /\ \A w \in Workers : run[w].of \in Deployments
  BY Types
<1>3. CASE ClientChange
  <2>1. UNCHANGED <<row, queue, run, refunded, published, late>>
    BY <1>3, Changed DEF books
  <2>2. QED BY <2>1 DEF EndInv, Active
<1>4. ASSUME NEW d \in Deployments, CallStep(d)
      PROVE  EndInv'
  <2>1. /\ \A c \in Deployments : c # d => row'[c] = row[c] /\ queue'[c] = queue[c]
        /\ UNCHANGED <<run, refunded, published, late>>
        /\ row'[d] = row[d] \/ row'[d].status \in {"INITIATED", "none"}
        /\ queue'[d] \in {queue[d], queue[d] + 1}
    BY <1>4, Called DEF CallStep, Call, books, past
  <2>2. \A c \in Deployments :
          row'[c].status = "SUCCESSFUL" /\ c \notin published => Coming(c)'
    BY <1>1, <1>2, <2>1 DEF Coming
  <2>3. QED BY <1>1, <2>1, <2>2 DEF EndInv, Active, Coming
<1>5. ASSUME NEW w \in Workers, NEW d \in Deployments, Take(w, d)
      PROVE  EndInv'
  <2>1. /\ run'[w].pc = "taken" /\ run'[w].of = d /\ run[w].pc = "idle"
        /\ \A v \in Workers : v # w => run'[v] = run[v]
        /\ \A e \in Deployments : e # d => queue'[e] = queue[e]
        /\ late \subseteq late' /\ (d \in published \cup refunded => d \in late')
        /\ \A v \in Workers : Active(v) /\ run[v].of = d => d \in late'
        /\ UNCHANGED <<row, refunded, published>>
    BY <1>5, TakenUp DEF books
  <2>2. \A c \in Deployments :
          row'[c].status = "SUCCESSFUL" /\ c \notin published' => Coming(c)'
    BY <1>1, <2>1 DEF Coming
  <2>3. \A u, v \in Workers :
          Active(u)' /\ Active(v)' /\ u # v /\ run'[u].of = run'[v].of => run'[u].of \in late'
    BY <1>1, <2>1 DEF Active
  <2>4. \A v \in Workers :
          /\ run'[v].pc = "failed" /\ run'[v].of \in published' => run'[v].of \in late'
          /\ Active(v)' /\ run'[v].of \in refunded' => run'[v].of \in late'
    BY <1>1, <2>1 DEF Active
  <2>5. QED BY <1>1, <2>1, <2>2, <2>3, <2>4 DEF EndInv, Coming
<1>6. ASSUME NEW w \in Workers, WorkerStep(w)
      PROVE  EndInv'
  <2>0. PICK d \in Deployments : d = run[w].of
    BY <1>2
  <2>1. /\ Active(w) /\ \A v \in Workers : v # w => run'[v] = run[v]
        /\ \A e \in Deployments : e # d => row'[e] = row[e] /\ queue'[e] = queue[e]
        /\ run'[w].pc = "idle" \/ run'[w].of = d
    BY <1>6, <2>0, Framed DEF Frame
  <2>2. /\ late \subseteq late'
        /\ published' = IF Commit(w) THEN published \cup {d} ELSE published
        /\ refunded \subseteq refunded'
        /\ refunded' = refunded \/ (Refund(w) /\ refunded' \subseteq refunded \cup {d})
    <3>1. CASE Commit(w)
      BY <2>0, <3>1 DEF Commit, books
    <3>2. CASE Refund(w)
      <4>1. ~ Commit(w)
        BY <3>2 DEF Refund, Commit
      <4>2. QED BY <2>0, <3>2, <4>1 DEF Refund
    <3>3. CASE ~ Commit(w) /\ ~ Refund(w)
      BY <1>6, <3>3, Worked, Caught DEF WorkerStep, Work, Trouble, past, books
    <3>4. QED BY <3>1, <3>2, <3>3
  (* Another run of the deployment at the same time is noted in late.      *)
  <2>3. \A v \in Workers : v # w /\ Active(v) /\ run[v].of = d => d \in late
    BY <1>1, <2>0, <2>1
  <2>4. \A u, v \in Workers :
          Active(u)' /\ Active(v)' /\ u # v /\ run'[u].of = run'[v].of => run'[u].of \in late'
    BY <1>1, <2>0, <2>1, <2>2, <2>3 DEF Active
  <2>5. run'[w].pc = "failed" /\ run'[w].of \in published' => run'[w].of \in late'
    <3>1. CASE UploadFails(w) \/ Fails(w) \/ CommitFails(w)
      <4>1. /\ late' = IF d \in published THEN late \cup {d} ELSE late
            /\ published' = published
        BY <2>0, <3>1, Caught
      <4>2. QED BY <2>1, <4>1
    <3>2. CASE ~ (UploadFails(w) \/ Fails(w) \/ CommitFails(w))
      BY <1>6, <3>2, Worked DEF WorkerStep, Work, Trouble
    <3>3. QED BY <3>1, <3>2
  <2>6. \A v \in Workers : v # w => 
          (run'[v].pc = "failed" /\ run'[v].of \in published' => run'[v].of \in late')
    BY <1>1, <2>1, <2>2, <2>3 DEF Active
  <2>7. \A v \in Workers : Active(v)' /\ run'[v].of \in refunded' => run'[v].of \in late'
    <3>1. CASE Refund(w)
      <4>1. run'[w].pc = "idle"
        BY <3>1, Worked
      <4>2. QED BY <1>1, <2>1, <2>2, <2>3, <4>1 DEF Active
    <3>2. CASE ~ Refund(w)
      BY <1>1, <2>0, <2>1, <2>2, <3>2 DEF Active
    <3>3. QED BY <3>1, <3>2
  <2>8. refunded' \cap published' \subseteq late'
    <3>1. CASE Commit(w)
      <4>1. refunded' = refunded
        BY <3>1 DEF Commit, books
      <4>2. d \in refunded => d \in late
        BY <1>1, <2>0, <2>1
      <4>3. QED BY <1>1, <2>2, <3>1, <4>1, <4>2
    <3>2. CASE Refund(w)
      <4>1. ~ Commit(w) /\ run[w].pc = "failed"
        BY <3>2 DEF Refund, Commit
      <4>2. d \in published => d \in late
        BY <1>1, <2>0, <4>1
      <4>3. QED BY <1>1, <2>2, <4>1, <4>2
    <3>3. CASE ~ Commit(w) /\ ~ Refund(w)
      BY <1>1, <2>2, <3>3
    <3>4. QED BY <3>1, <3>2, <3>3
  <2>9. \A e \in Deployments : e # d =>
          (row'[e].status = "SUCCESSFUL" /\ e \notin published' => Coming(e)')
    <3>1. ASSUME NEW e \in Deployments, e # d, Coming(e)
          PROVE  Coming(e)'
      BY <2>0, <2>1, <3>1 DEF Coming
    <3>2. QED BY <1>1, <2>1, <2>2, <3>1
  <2>10. row'[d].status = "SUCCESSFUL" /\ d \notin published' => Coming(d)'
    <3>1. CASE Mark(w) \/ SendToReview(w)
      <4>1. row'[d].status \in {"IN_PROGRESS", "IN_REVIEW"}
        BY <2>0, <3>1, Worked
      <4>2. QED BY <4>1
    <3>2. CASE Commit(w)
      BY <2>2, <3>2
    <3>3. CASE ReadBucket(w) \/ ReadFiles(w) \/ Upload(w) \/ ClearSource(w) \/ Finish(w)
               \/ Refund(w)
      <4>1. run[w].pc # "taken" /\ row' = row /\ queue' = queue
        BY <3>3, Worked
      <4>2. Coming(d) => Coming(d)'
        BY <2>1, <4>1 DEF Coming
      <4>3. QED BY <1>1, <2>2, <4>1, <4>2
    <3>4. CASE Dies(w)
      <4>1. queue'[d] = queue[d] + 1
        BY <2>0, <3>4, Worked
      <4>2. QED BY <1>2, <4>1 DEF Coming
    <3>5. CASE UploadFails(w) \/ Fails(w) \/ CommitFails(w)
      <4>1. row'[d].status = "FAILED" \/ queue'[d] = queue[d] + 1
        BY <2>0, <3>5, Caught
      <4>2. QED BY <1>2, <4>1 DEF Coming
    <3>6. QED BY <1>6, <3>1, <3>2, <3>3, <3>4, <3>5 DEF WorkerStep, Work, Trouble
  <2>11. \A e \in Deployments :
           row'[e].status = "SUCCESSFUL" /\ e \notin published' => Coming(e)'
    BY <2>9, <2>10
  <2>12. QED BY <2>4, <2>5, <2>6, <2>7, <2>8, <2>11 DEF EndInv, Coming
<1>7. ASSUME NEW r \in Reviewers, ReviewStep(r)
      PROVE  EndInv'
  <2>0. PICK d \in Deployments : d = review[r].of
    BY Types
  <2>1. UNCHANGED <<run, refunded, published, late>>
    BY <1>7 DEF ReviewStep, Decide, Approve, SendApproved, Reject, Look, books, past
  <2>2. \A e \in Deployments : e # d => row'[e] = row[e] /\ queue'[e] = queue[e]
    BY <1>7, <2>0, Decided DEF ReviewStep
  <2>3. /\ row'[d] = row[d] \/ row'[d].status \in {"APPROVED", "REJECTED"}
        /\ queue'[d] \in {queue[d], queue[d] + 1}
    BY <1>7, <2>0, Decided DEF ReviewStep, Decide
  <2>4. \A e \in Deployments :
          row'[e].status = "SUCCESSFUL" /\ e \notin published' => Coming(e)'
    BY <1>1, <1>2, <2>1, <2>2, <2>3 DEF Coming
  <2>5. QED BY <1>1, <2>1, <2>4 DEF EndInv, Active, Coming
<1>8. CASE UNCHANGED vars
  <2>1. UNCHANGED <<row, queue, run, refunded, published, late>>
    BY <1>8 DEF vars, books, past
  <2>2. QED BY <2>1 DEF EndInv, Active
<1>9. QED BY <1>3, <1>4, <1>5, <1>6, <1>7, <1>8, Steps

-----------------------------------------------------------------------------
(* The theorems *)

(* The whole invariant holds, of any instance. *)
THEOREM InvHolds == Spec => []IInv
<1>1. Init => IInv
  BY TypeInit, InitParts DEF IInv
<1>2. IInv /\ [Next]_vars => IInv'
  BY TypeStep, FreshStep, StateStep, TakenStep, ReadStep, BucketsStep, ReviewInvStep,
     CidStep, EndStep DEF IInv
<1>3. QED BY <1>1, <1>2, PTL DEF Spec

(* The rows of deployments, what the lambdas remember and the contents of  *)
(* the buckets have their types.                                           *)
THEOREM TypeCorrect == Spec => []TypeOK
<1>1. IInv => TypeOK
  BY DEF IInv
<1>2. QED BY <1>1, InvHolds, PTL

(* The rows of the files of a target bucket list what its CID holds, for   *)
(* any number of deployments, retries and failures, as long as no source   *)
(* bucket changes under a deployment.                                      *)
THEOREM BucketsHold == Spec => []BucketsConsistent
<1>1. IInv => BucketsConsistent
  BY DEF IInv
<1>2. QED BY <1>1, InvHolds, PTL

(* What the worker deploys of a website was approved by a reviewer, or its *)
(* upload was excused from the review, however the reviews, retries and    *)
(* runs interleave, as long as no source bucket changes under a deployment.*)
THEOREM ReviewHolds == Spec => []ReviewedFirst
<1>1. IInv => ReviewedFirst
  BY DEF IInv, CidInv, Fine, ReviewedFirst
<1>2. QED BY <1>1, InvHolds, PTL

(* A row that says SUCCESSFUL was committed or is still to be worked on,   *)
(* and a committed deployment is refunded only if it was worked on twice.  *)
THEOREM OutcomeHolds == Spec => []OutcomeSound
<1>1. IInv => OutcomeSound
  BY DEF IInv, EndInv, OutcomeSound, Pending
<1>2. QED BY <1>1, InvHolds, PTL
=============================================================================
