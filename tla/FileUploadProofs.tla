-------------------------- MODULE FileUploadProofs ---------------------------
(***************************************************************************)
(* Proofs about FileUpload and CrustPins, for any files, sessions, calls   *)
(* and runs of the worker at a time, any size of a batch and any quota.    *)
(***************************************************************************)
EXTENDS FileUpload, FiniteSetTheorems, TLAPS

-----------------------------------------------------------------------------
(* The inductive invariant, in the parts that the proofs need one by one.  *)

(* A run of the worker and a call that removes a file. *)
RunRecord ==
    [pc : {"idle", "read", "moving", "counted"}, msg : Message, base : Int,
     more : BOOLEAN, failed : BOOLEAN, left : SUBSET Files,
     moved : SUBSET Files, done : SUBSET Files, unasked : SUBSET Files,
     looked : SUBSET Files]
RemoverRecord ==
    [pc : {"idle", "deleting", "marked", "deleted", "restoring", "restored"},
     base : Int]
Records == /\ worker \in [Workers -> RunRecord]
           /\ remover \in [Files -> RemoverRecord]

(* What TypeOK says of the tables, of the queue and the calls, of each run *)
(* and of the size and the history.                                        *)
RowsOK ==
    /\ PinsTypeOK
    /\ session \in [Sessions -> {"CREATED", "IN_PROGRESS", "VALIDATION_PASSED",
                                 "VALIDATION_FAILED", "FINISHED"}]
    /\ fur \in [Files -> {"none", "asked", "SIGNED", "ERROR", "MISSING",
                          "COMPLETED"}]
    /\ html \subseteq s3 /\ s3 \subseteq Files
CallsOK ==
    /\ msgs \subseteq Message
    /\ ender \in [Enders ->
         [pc : {"idle", "read", "marked", "processed", "done"}, session : Sessions]]
SizeOK ==
    /\ bucket \in Int
    /\ limits \in Limits
    /\ again \subseteq Sessions /\ stuck \subseteq Sessions
    /\ dropped \subseteq Files /\ uncounted \subseteq Files
RunFits(run) ==
    /\ run.pc \in {"idle", "read", "moving", "counted"}
    /\ run.msg \in Message /\ run.base \in Int
    /\ {run.more, run.failed} \subseteq BOOLEAN
    /\ run.left \cup run.moved \cup run.done \subseteq Of(run.msg.session)
    /\ run.looked \subseteq run.unasked /\ run.unasked \subseteq run.done

(* A run remembers what it has moved only while it moves a batch. *)
Phases ==
    \A w \in Workers :
      /\ worker[w].pc = "idle" => worker[w].left = {}
      /\ worker[w].pc # "moving" =>
           worker[w].moved = {} /\ worker[w].done = {} /\ worker[w].unasked = {}

(* No session was worked on twice at a time: the runs have sessions of     *)
(* their own, a session has one call that ends it, and before the call is  *)
(* through there is neither a message nor a run nor a completed file.      *)
Active(w) == worker[w].pc # "idle"
Quiet(s) == /\ \A m \in msgs : m.session # s
            /\ ~ Busy(s)
            /\ Of(s) \cap Completed = {}
Ending(e, s) == /\ ender[e].pc \in {"marked", "processed"}
                /\ ender[e].session = s
Apart ==
    \A v, w \in Workers :
      v # w /\ Active(v) /\ Active(w) => worker[v].msg.session # worker[w].msg.session
Early ==
    \A s \in Sessions :
      /\ session[s] = "CREATED" => Quiet(s) /\ \A e \in Enders : ~ Ending(e, s)
      /\ \A e \in Enders : Ending(e, s) =>
           Quiet(s) /\ \A d \in Enders : Ending(d, s) => d = e

(* What a run has in hand is not completed, what it has done is, and it is *)
(* not among what a run before it has left uncounted.                      *)
Fresh ==
    \A w \in Workers :
      /\ worker[w].left \cap worker[w].moved = {}
      /\ (worker[w].left \cup worker[w].moved) \cap Completed = {}
Counted ==
    /\ uncounted \subseteq Completed
    /\ \A w \in Workers : worker[w].done \subseteq Completed \ uncounted

OneByOne == again # {} \/ (Apart /\ Early /\ Fresh /\ Counted)

(* The numbers of files the size is made of. *)
Sized == Completed \ (uncounted \cup Uncounted)
Removed == {f \in Files : remover[f].pc \in {"deleted", "restoring"}}

IInv == /\ TypeOK /\ Records /\ Phases /\ CompletedPinned /\ OneByOne
        /\ SizeAccounted

-----------------------------------------------------------------------------
(* Types *)

LEMMA Constants ==
    /\ SomeSession \in Sessions
    /\ \A s \in Sessions : First(s) \in Message /\ Later(s) \in Message
    /\ \A s \in Sessions : First(s).session = s /\ Later(s).session = s
    /\ NoRun \in RunRecord
    /\ NoRun.pc = "idle" /\ NoRun.left = {} /\ NoRun.moved = {}
    /\ NoRun.done = {} /\ NoRun.unasked = {} /\ NoRun.looked = {}
    /\ RunFits(NoRun)
<1>1. SomeSession \in Sessions
  BY FileUploadAssumption DEF SomeSession
<1>2. \A s \in Sessions : First(s) \in Message /\ Later(s) \in Message
  BY DEF First, Later, Message
<1>3. \A s \in Sessions : First(s).session = s /\ Later(s).session = s
  BY DEF First, Later
<1>4. Later(SomeSession) \in Message
  BY <1>1, <1>2
<1>5. NoRun \in RunRecord
  BY <1>4 DEF NoRun, RunRecord
<1>6. RunFits(NoRun)
  BY <1>4 DEF NoRun, RunFits
<1> QED BY <1>1, <1>2, <1>3, <1>5, <1>6 DEF NoRun

LEMMA TypeParts ==
    TypeOK <=> /\ RowsOK /\ CallsOK /\ SizeOK /\ lost \in BOOLEAN
               /\ \A w \in Workers : RunFits(worker[w])
               /\ \A f \in Files : remover[f].base \in Int
BY Zenon DEF TypeOK, RowsOK, CallsOK, SizeOK, RunFits

LEMMA TypeInit == Init => TypeOK /\ Records
<1> SUFFICES ASSUME Init PROVE TypeOK /\ Records
  OBVIOUS
<1>1. PinsTypeOK
  BY MaxRunsAssumption, MaxFaultsAssumption
     DEF Init, PinsInit, PinsTypeOK, NoFile, NoPin
<1>2. RowsOK
  BY <1>1 DEF Init, RowsOK
<1>3. CallsOK
  BY Constants DEF Init, CallsOK
<1>4. SizeOK
  BY DEF Init, SizeOK
<1>5. Records
  BY Constants DEF Init, Records, RemoverRecord
<1>8. lost \in BOOLEAN
  BY Zenon DEF Init
<1>6. \A w \in Workers : RunFits(worker[w])
  BY Constants DEF Init
<1>7. \A f \in Files : remover[f].base \in Int
  BY DEF Init
<1> QED BY <1>2, <1>3, <1>4, <1>5, <1>6, <1>7, <1>8,
           TypeParts, Zenon

-----------------------------------------------------------------------------
(* What the steps of a run make of it, and that it stays a run. *)

Started(m, left) ==
    [NoRun EXCEPT !.pc = "read", !.msg = m, !.base = bucket, !.left = left]
Batch(r, B) == [r EXCEPT !.pc = "moving", !.left = B, !.more = B # r.left]
MovedOne(r, f) == [r EXCEPT !.left = @ \ {f}, !.moved = @ \cup {f}]
MissedOne(r, f) == [r EXCEPT !.left = @ \ {f}]
FailedOne(r, f) == [r EXCEPT !.left = @ \ {f}, !.failed = TRUE]
CompletedOne(r, f, failed) ==
    [r EXCEPT !.moved = @ \ {f}, !.done = @ \cup {f}, !.unasked = @ \cup {f},
              !.failed = @ \/ failed]
Asked(r, f) == [r EXCEPT !.unasked = @ \ {f}]
LookedUp(r, f) == [r EXCEPT !.looked = @ \cup {f}]
AskedNew(r, f) == [r EXCEPT !.unasked = @ \ {f}, !.looked = @ \ {f}]
CountedRun(r) == [r EXCEPT !.pc = "counted", !.base = 0, !.done = {}]

LEMMA StartedIs ==
  ASSUME NEW m \in Message, NEW left \in SUBSET Of(m.session), bucket \in Int
  PROVE  LET r == Started(m, left) IN
         /\ r \in RunRecord /\ RunFits(r)
         /\ r.pc = "read" /\ r.msg = m /\ r.left = left
         /\ r.moved = {} /\ r.done = {} /\ r.unasked = {} /\ r.looked = {}
<1> DEFINE r == Started(m, left)
<1>1. left \in SUBSET Files
  BY DEF Of
<1>2. r \in RunRecord
  BY <1>1, Constants DEF Started, RunRecord
<1>3. /\ r.pc = "read" /\ r.msg = m /\ r.left = left /\ r.base = bucket
      /\ r.moved = {} /\ r.done = {} /\ r.unasked = {} /\ r.looked = {}
      /\ r.more = NoRun.more /\ r.failed = NoRun.failed
  BY Constants DEF Started, RunRecord
<1>4. RunFits(r)
  BY <1>3, Constants DEF RunFits
<1> QED BY <1>2, <1>3, <1>4

LEMMA BatchIs ==
  ASSUME NEW r \in RunRecord, RunFits(r), NEW B \in SUBSET r.left
  PROVE  LET q == Batch(r, B) IN
         /\ q \in RunRecord /\ RunFits(q)
         /\ q.pc = "moving" /\ q.msg = r.msg /\ q.left = B
         /\ q.moved = r.moved /\ q.done = r.done /\ q.unasked = r.unasked
         /\ q.looked = r.looked
<1> DEFINE q == Batch(r, B)
<1>1. q \in RunRecord
  BY DEF Batch, RunRecord
<1>2. /\ q.pc = "moving" /\ q.msg = r.msg /\ q.left = B /\ q.base = r.base
      /\ q.moved = r.moved /\ q.done = r.done /\ q.unasked = r.unasked
      /\ q.looked = r.looked /\ q.failed = r.failed
  BY DEF Batch, RunRecord
<1>3. q.more \in BOOLEAN
  BY <1>1 DEF RunRecord
<1>4. RunFits(q)
  BY <1>2, <1>3 DEF RunFits
<1> QED BY <1>1, <1>2, <1>4

LEMMA MovedOneIs ==
  ASSUME NEW r \in RunRecord, RunFits(r), NEW f \in r.left
  PROVE  LET q == MovedOne(r, f) IN
         /\ q \in RunRecord /\ RunFits(q)
         /\ q.pc = r.pc /\ q.msg = r.msg /\ q.left = r.left \ {f}
         /\ q.moved = r.moved \cup {f} /\ q.done = r.done
         /\ q.unasked = r.unasked /\ q.looked = r.looked
<1> DEFINE q == MovedOne(r, f)
<1>1. q \in RunRecord
  BY DEF MovedOne, RunRecord
<1>2. /\ q.pc = r.pc /\ q.msg = r.msg /\ q.left = r.left \ {f}
      /\ q.moved = r.moved \cup {f} /\ q.done = r.done /\ q.base = r.base
      /\ q.unasked = r.unasked /\ q.looked = r.looked
      /\ q.more = r.more /\ q.failed = r.failed
  BY DEF MovedOne, RunRecord
<1>3. RunFits(q)
  BY <1>2 DEF RunFits
<1> QED BY <1>1, <1>2, <1>3

LEMMA MissedOneIs ==
  ASSUME NEW r \in RunRecord, RunFits(r), NEW f \in r.left
  PROVE  LET q == MissedOne(r, f) IN
         /\ q \in RunRecord /\ RunFits(q)
         /\ q.pc = r.pc /\ q.msg = r.msg /\ q.left = r.left \ {f}
         /\ q.moved = r.moved /\ q.done = r.done
         /\ q.unasked = r.unasked /\ q.looked = r.looked
<1> DEFINE q == MissedOne(r, f)
<1>1. q \in RunRecord
  BY DEF MissedOne, RunRecord
<1>2. /\ q.pc = r.pc /\ q.msg = r.msg /\ q.left = r.left \ {f}
      /\ q.moved = r.moved /\ q.done = r.done /\ q.base = r.base
      /\ q.unasked = r.unasked /\ q.looked = r.looked
      /\ q.more = r.more /\ q.failed = r.failed
  BY DEF MissedOne, RunRecord
<1>3. RunFits(q)
  BY <1>2 DEF RunFits
<1> QED BY <1>1, <1>2, <1>3

LEMMA FailedOneIs ==
  ASSUME NEW r \in RunRecord, RunFits(r), NEW f \in r.left
  PROVE  LET q == FailedOne(r, f) IN
         /\ q \in RunRecord /\ RunFits(q)
         /\ q.pc = r.pc /\ q.msg = r.msg /\ q.left = r.left \ {f}
         /\ q.moved = r.moved /\ q.done = r.done
         /\ q.unasked = r.unasked /\ q.looked = r.looked
<1> DEFINE q == FailedOne(r, f)
<1>1. q \in RunRecord
  BY DEF FailedOne, RunRecord
<1>2. /\ q.pc = r.pc /\ q.msg = r.msg /\ q.left = r.left \ {f}
      /\ q.moved = r.moved /\ q.done = r.done /\ q.base = r.base
      /\ q.unasked = r.unasked /\ q.looked = r.looked
      /\ q.more = r.more
  BY DEF FailedOne, RunRecord
<1>3. q.failed \in BOOLEAN
  BY <1>1 DEF RunRecord
<1>4. RunFits(q)
  BY <1>2, <1>3 DEF RunFits
<1> QED BY <1>1, <1>2, <1>4

LEMMA CompletedOneIs ==
  ASSUME NEW r \in RunRecord, RunFits(r), NEW f \in r.moved,
         NEW failed \in BOOLEAN
  PROVE  LET q == CompletedOne(r, f, failed) IN
         /\ q \in RunRecord /\ RunFits(q)
         /\ q.pc = r.pc /\ q.msg = r.msg /\ q.left = r.left
         /\ q.moved = r.moved \ {f} /\ q.done = r.done \cup {f}
         /\ q.unasked = r.unasked \cup {f} /\ q.looked = r.looked
<1> DEFINE q == CompletedOne(r, f, failed)
<1>1. q \in RunRecord
  BY DEF CompletedOne, RunRecord
<1>2. /\ q.pc = r.pc /\ q.msg = r.msg /\ q.left = r.left
      /\ q.moved = r.moved \ {f} /\ q.done = r.done \cup {f}
      /\ q.unasked = r.unasked \cup {f} /\ q.looked = r.looked
      /\ q.more = r.more /\ q.base = r.base
  BY DEF CompletedOne, RunRecord
<1>3. q.failed \in BOOLEAN
  BY <1>1 DEF RunRecord
<1>4. RunFits(q)
  BY <1>2, <1>3 DEF RunFits
<1> QED BY <1>1, <1>2, <1>4

LEMMA AskedIs ==
  ASSUME NEW r \in RunRecord, RunFits(r), NEW f \in r.unasked \ r.looked
  PROVE  LET q == Asked(r, f) IN
         /\ q \in RunRecord /\ RunFits(q)
         /\ q.pc = r.pc /\ q.msg = r.msg /\ q.left = r.left
         /\ q.moved = r.moved /\ q.done = r.done
         /\ q.unasked = r.unasked \ {f} /\ q.looked = r.looked
<1> DEFINE q == Asked(r, f)
<1>1. q \in RunRecord
  BY DEF Asked, RunRecord
<1>2. /\ q.pc = r.pc /\ q.msg = r.msg /\ q.left = r.left
      /\ q.moved = r.moved /\ q.done = r.done /\ q.base = r.base
      /\ q.unasked = r.unasked \ {f} /\ q.looked = r.looked
      /\ q.more = r.more /\ q.failed = r.failed
  BY DEF Asked, RunRecord
<1>3. RunFits(q)
  BY <1>2 DEF RunFits
<1> QED BY <1>1, <1>2, <1>3

LEMMA LookedUpIs ==
  ASSUME NEW r \in RunRecord, RunFits(r), NEW f \in r.unasked
  PROVE  LET q == LookedUp(r, f) IN
         /\ q \in RunRecord /\ RunFits(q)
         /\ q.pc = r.pc /\ q.msg = r.msg /\ q.left = r.left
         /\ q.moved = r.moved /\ q.done = r.done
         /\ q.unasked = r.unasked
<1> DEFINE q == LookedUp(r, f)
<1>1. q \in RunRecord
  BY DEF LookedUp, RunRecord
<1>2. /\ q.pc = r.pc /\ q.msg = r.msg /\ q.left = r.left
      /\ q.moved = r.moved /\ q.done = r.done /\ q.base = r.base
      /\ q.unasked = r.unasked /\ q.looked = r.looked \cup {f}
      /\ q.more = r.more /\ q.failed = r.failed
  BY DEF LookedUp, RunRecord
<1>3. RunFits(q)
  BY <1>2 DEF RunFits
<1> QED BY <1>1, <1>2, <1>3

LEMMA AskedNewIs ==
  ASSUME NEW r \in RunRecord, RunFits(r), NEW f \in r.looked
  PROVE  LET q == AskedNew(r, f) IN
         /\ q \in RunRecord /\ RunFits(q)
         /\ q.pc = r.pc /\ q.msg = r.msg /\ q.left = r.left
         /\ q.moved = r.moved /\ q.done = r.done
         /\ q.unasked = r.unasked \ {f}
<1> DEFINE q == AskedNew(r, f)
<1>1. q \in RunRecord
  BY DEF AskedNew, RunRecord
<1>2. /\ q.pc = r.pc /\ q.msg = r.msg /\ q.left = r.left
      /\ q.moved = r.moved /\ q.done = r.done /\ q.base = r.base
      /\ q.unasked = r.unasked \ {f} /\ q.looked = r.looked \ {f}
      /\ q.more = r.more /\ q.failed = r.failed
  BY DEF AskedNew, RunRecord
<1>3. RunFits(q)
  BY <1>2 DEF RunFits
<1> QED BY <1>1, <1>2, <1>3

LEMMA CountedRunIs ==
  ASSUME NEW r \in RunRecord, RunFits(r), r.unasked = {}
  PROVE  LET q == CountedRun(r) IN
         /\ q \in RunRecord /\ RunFits(q)
         /\ q.pc = "counted" /\ q.msg = r.msg /\ q.left = r.left
         /\ q.moved = r.moved /\ q.done = {} /\ q.unasked = {}
<1> DEFINE q == CountedRun(r)
<1>0. ASSUME NEW S \in SUBSET Files, NEW n \in Int
      PROVE  [r EXCEPT !.pc = "counted", !.base = n, !.done = S] \in RunRecord
  BY DEF RunRecord
<1>1. q \in RunRecord
  <2>1. {} \in SUBSET Files /\ 0 \in Int
    OBVIOUS
  <2>2. [r EXCEPT !.pc = "counted", !.base = 0, !.done = {}] \in RunRecord
    BY <1>0, <2>1, Zenon
  <2> QED BY <2>2 DEF CountedRun
<1>2. /\ q.pc = "counted" /\ q.msg = r.msg /\ q.left = r.left
      /\ q.moved = r.moved /\ q.done = {} /\ q.base = 0
      /\ q.unasked = r.unasked /\ q.looked = r.looked
      /\ q.more = r.more /\ q.failed = r.failed
  BY DEF CountedRun, RunRecord
<1>3. RunFits(q)
  BY <1>2 DEF RunFits
<1> QED BY <1>1, <1>2, <1>3

LEMMA Updated ==
  ASSUME Records, NEW w \in Workers, NEW r \in RunRecord,
         worker' = [worker EXCEPT ![w] = r]
  PROVE  /\ worker' \in [Workers -> RunRecord]
         /\ worker'[w] = r
         /\ \A v \in Workers : v # w => worker'[v] = worker[v]
BY DEF Records

(* Each step of a run in terms of these. *)
LEMMA RunEffects ==
  ASSUME Records, NEW w \in Workers
  PROVE  /\ \A m \in msgs : Start(w, m) =>
              \E left \in SUBSET Registered(m.session) :
                /\ worker' = [worker EXCEPT ![w] = Started(m, left)]
                /\ \A f \in left : fur'[f] \notin Done
         /\ Empty(w) \/ Validate(w) \/ Reject(w) \/ Finish(w) \/ Ended(w) =>
              worker' = [worker EXCEPT ![w] = NoRun]
         /\ TakeBatch(w) =>
              \E B \in SUBSET worker[w].left :
                worker' = [worker EXCEPT ![w] = Batch(worker[w], B)]
         /\ Count(w) => worker' = [worker EXCEPT ![w] = CountedRun(worker[w])]
         /\ \A f \in Files :
              /\ Move(w, f) => worker' = [worker EXCEPT ![w] = MovedOne(worker[w], f)]
              /\ MoveMissing(w, f) =>
                   worker' = [worker EXCEPT ![w] = MissedOne(worker[w], f)]
              /\ MoveFails(w, f) =>
                   worker' = [worker EXCEPT ![w] = FailedOne(worker[w], f)]
              /\ Complete(w, f) =>
                   \E failed \in BOOLEAN :
                     worker' = [worker EXCEPT ![w] = CompletedOne(worker[w], f, failed)]
              /\ Ask(w, f) =>
                   \/ /\ Requests(f) # {} /\ Requested(f)
                      /\ worker' = [worker EXCEPT ![w] = Asked(worker[w], f)]
                   \/ /\ UNCHANGED <<file, pins, faults>>
                      /\ worker' = [worker EXCEPT ![w] = LookedUp(worker[w], f)]
              /\ AskNew(w, f) =>
                   worker' = [worker EXCEPT ![w] = AskedNew(worker[w], f)]
<1>1. ASSUME NEW m \in msgs, Start(w, m)
      PROVE  \E left \in SUBSET Registered(m.session) :
               /\ worker' = [worker EXCEPT ![w] = Started(m, left)]
               /\ \A f \in left : fur'[f] \notin Done
  <2> DEFINE furs == IF m.process THEN ProcessedFurs(m.session) ELSE fur
             left == {f \in Registered(m.session) : furs[f] \notin Done}
  <2>1. worker' = [worker EXCEPT ![w] = Started(m, left)] /\ fur' = furs
    BY <1>1, Zenon DEF Start, Started
  <2>2. \A f \in left : fur'[f] \notin Done
    BY <2>1
  <2>3. left \in SUBSET Registered(m.session)
    OBVIOUS
  <2> QED BY <2>1, <2>2, <2>3
<1>2. Empty(w) \/ Validate(w) \/ Reject(w) \/ Finish(w) \/ Ended(w) =>
        worker' = [worker EXCEPT ![w] = NoRun]
  BY DEF Empty, Validate, Reject, Finish, Ended, Clear
<1>3. ASSUME TakeBatch(w)
      PROVE  \E B \in SUBSET worker[w].left :
               worker' = [worker EXCEPT ![w] = Batch(worker[w], B)]
  BY <1>3 DEF TakeBatch, Batch, Records
<1>4. Count(w) => worker' = [worker EXCEPT ![w] = CountedRun(worker[w])]
  BY DEF Count, CountedRun, Records
<1>5. ASSUME NEW f \in Files
      PROVE  /\ Move(w, f) => worker' = [worker EXCEPT ![w] = MovedOne(worker[w], f)]
             /\ MoveMissing(w, f) =>
                  worker' = [worker EXCEPT ![w] = MissedOne(worker[w], f)]
             /\ MoveFails(w, f) =>
                  worker' = [worker EXCEPT ![w] = FailedOne(worker[w], f)]
             /\ AskNew(w, f) =>
                  worker' = [worker EXCEPT ![w] = AskedNew(worker[w], f)]
  <2>1. Move(w, f) => worker' = [worker EXCEPT ![w] = MovedOne(worker[w], f)]
    BY DEF Move, MovedOne, Records
  <2>2. MoveMissing(w, f) =>
          worker' = [worker EXCEPT ![w] = MissedOne(worker[w], f)]
    BY DEF MoveMissing, MissedOne, Records
  <2>3. MoveFails(w, f) =>
          worker' = [worker EXCEPT ![w] = FailedOne(worker[w], f)]
    BY DEF MoveFails, FailedOne, Records
  <2>4. AskNew(w, f) => worker' = [worker EXCEPT ![w] = AskedNew(worker[w], f)]
    BY DEF AskNew, AskedNew, Records
  <2> QED BY <2>1, <2>2, <2>3, <2>4
<1>6. ASSUME NEW f \in Files, Complete(w, f)
      PROVE  \E failed \in BOOLEAN :
               worker' = [worker EXCEPT ![w] = CompletedOne(worker[w], f, failed)]
  <2>1. PICK failed \in BOOLEAN :
          worker' = [worker EXCEPT
              ![w].moved = @ \ {f}, ![w].done = @ \cup {f},
              ![w].unasked = @ \cup {f}, ![w].failed = @ \/ failed]
    BY <1>6, Zenon DEF Complete
  <2>2. worker' = [worker EXCEPT ![w] = CompletedOne(worker[w], f, failed)]
    BY <2>1 DEF CompletedOne, Records
  <2> QED BY <2>2
<1>7. ASSUME NEW f \in Files, Ask(w, f)
      PROVE  \/ /\ Requests(f) # {} /\ Requested(f)
                /\ worker' = [worker EXCEPT ![w] = Asked(worker[w], f)]
             \/ /\ UNCHANGED <<file, pins, faults>>
                /\ worker' = [worker EXCEPT ![w] = LookedUp(worker[w], f)]
  <2>1. CASE /\ Requests(f) # {} /\ Requested(f)
             /\ worker' = [worker EXCEPT ![w].unasked = @ \ {f}]
    BY <2>1 DEF Asked, Records
  <2>2. CASE /\ worker' = [worker EXCEPT ![w].looked = @ \cup {f}]
             /\ UNCHANGED <<file, pins, faults>>
    BY <2>2 DEF LookedUp, Records
  <2> QED BY <1>7, <2>1, <2>2 DEF Ask
<1> QED BY <1>1, <1>2, <1>3, <1>4, <1>5, <1>6, <1>7

-----------------------------------------------------------------------------
(* Every step keeps the types. *)

FileRecord == [row : {"none", "active", "deleted", "blocked"},
               status : {"none", "s3", "ipfs", "pinned"}]
PinRecord == [status : {"none", "PENDING", "SUCCESSFULL", "FAILED"},
              runs : 0..MaxRuns]
FurStatus == {"none", "asked", "SIGNED", "ERROR", "MISSING", "COMPLETED"}

LEMMA FaultType ==
  ASSUME faults \in 0..MaxFaults, Fault \/ UNCHANGED faults
  PROVE  faults' \in 0..MaxFaults
BY MaxFaultsAssumption DEF Fault

LEMMA ProcessedTypes ==
  ASSUME RowsOK, NEW s
  PROVE  /\ ProcessedFurs(s) \in [Files -> FurStatus]
         /\ ProcessedFiles(s) \in [Files -> FileRecord]
<1>1. ProcessedFurs(s) \in [Files -> FurStatus]
  BY DEF RowsOK, ProcessedFurs, FurStatus
<1>2. [row |-> "active", status |-> "s3"] \in FileRecord
  BY DEF FileRecord
<1>3. file \in [Files -> FileRecord]
  BY DEF RowsOK, PinsTypeOK, FileRecord
<1>4. ProcessedFiles(s) \in [Files -> FileRecord]
  BY <1>2, <1>3 DEF ProcessedFiles
<1> QED BY <1>1, <1>4

LEMMA SetTypes ==
  ASSUME RowsOK, NEW f \in Files
  PROVE  /\ \A status \in FurStatus :
              [fur EXCEPT ![f] = status] \in [Files -> FurStatus]
         /\ \A r \in FileRecord : [file EXCEPT ![f] = r] \in [Files -> FileRecord]
         /\ \A status \in {"none", "s3", "ipfs", "pinned"} :
              [file EXCEPT ![f].status = status] \in [Files -> FileRecord]
         /\ \A row \in {"none", "active", "deleted", "blocked"} :
              [file EXCEPT ![f].row = row] \in [Files -> FileRecord]
         /\ \A p \in PinRecord : [pin EXCEPT ![f] = p] \in [Files -> PinRecord]
<1>1. /\ fur \in [Files -> FurStatus] /\ file \in [Files -> FileRecord]
      /\ pin \in [Files -> PinRecord]
  BY DEF RowsOK, PinsTypeOK, FurStatus, FileRecord, PinRecord
<1>2. \A status \in {"none", "s3", "ipfs", "pinned"} :
        [file EXCEPT ![f].status = status] \in [Files -> FileRecord]
  BY <1>1 DEF FileRecord
<1>3. \A row \in {"none", "active", "deleted", "blocked"} :
        [file EXCEPT ![f].row = row] \in [Files -> FileRecord]
  BY <1>1 DEF FileRecord
<1> QED BY <1>1, <1>2, <1>3

(* RowsOK by its parts. *)
LEMMA RowsParts ==
    RowsOK <=>
      /\ file \in [Files -> FileRecord] /\ pin \in [Files -> PinRecord]
      /\ orders \subseteq Files /\ faults \in 0..MaxFaults
      /\ session \in [Sessions -> {"CREATED", "IN_PROGRESS", "VALIDATION_PASSED",
                                   "VALIDATION_FAILED", "FINISHED"}]
      /\ fur \in [Files -> FurStatus]
      /\ html \subseteq s3 /\ s3 \subseteq Files
BY Zenon DEF RowsOK, PinsTypeOK, FileRecord, PinRecord, FurStatus

(* The requests to pin. *)
LEMMA RequestedTypes ==
  ASSUME RowsOK, NEW f \in Files
  PROVE  /\ Requested(f) => /\ file' \in [Files -> FileRecord]
                            /\ pin' \in [Files -> PinRecord]
                            /\ UNCHANGED <<orders, faults>>
         /\ Request(f) => /\ pin' \in [Files -> PinRecord]
                          /\ UNCHANGED <<file, orders, faults>>
<1>1. [status |-> "PENDING", runs |-> 0] \in PinRecord
  BY MaxRunsAssumption DEF PinRecord
<1>3. ASSUME Requested(f) PROVE pin' \in [Files -> PinRecord]
  <2>1. PICK g \in Requests(f) :
         pin' = IF pin[g].status = "FAILED" /\ pin[g].runs >= MaxRuns
                THEN [pin EXCEPT ![g] = [status |-> "PENDING", runs |-> 0]]
                ELSE pin
    BY <1>3, Zenon DEF Requested
  <2>2. g \in Files
    BY DEF Requests
  <2>3. pin \in [Files -> PinRecord]
    BY RowsParts
  <2> QED BY <1>1, <2>1, <2>2, <2>3
<1>4. Requested(f) => file' \in [Files -> FileRecord]
  <2>1. [file EXCEPT ![f].status = "pinned"] \in [Files -> FileRecord]
    BY RowsParts DEF FileRecord
  <2> QED BY <2>1, Zenon DEF Requested
<1>5. Request(f) => pin' \in [Files -> PinRecord]
  <2>1. [pin EXCEPT ![f] = [status |-> "PENDING", runs |-> 0]]
          \in [Files -> PinRecord]
    BY <1>1, RowsParts
  <2> QED BY <2>1, Zenon DEF Request
<1> QED BY <1>3, <1>4, <1>5 DEF Requested, Request

LEMMA PinsStep ==
  ASSUME RowsOK, PinsNext
  PROVE  /\ file' \in [Files -> FileRecord] /\ pin' \in [Files -> PinRecord]
         /\ orders' \subseteq Files /\ faults' \in 0..MaxFaults
<1> USE RowsParts
<1>1. PICK f \in Files : PlaceOrder(f) \/ OrderFails(f) \/ Renew(f) \/ Outcome(f)
  BY DEF PinsNext
<1>2. ASSUME NEW status \in {"SUCCESSFULL", "FAILED"}, Ran(f, status)
      PROVE  pin' \in [Files -> PinRecord]
  BY <1>2, MaxRunsAssumption DEF Ran, Pending, PinRecord
<1>3. CASE PlaceOrder(f)
  BY <1>2, <1>3 DEF PlaceOrder
<1>4. CASE OrderFails(f)
  <2>1. Fault \/ UNCHANGED faults
    BY <1>4 DEF OrderFails
  <2> QED BY <1>2, <1>4, <2>1, FaultType DEF OrderFails
<1>5. CASE Renew(f)
  <2>1. [status |-> "PENDING", runs |-> 0] \in PinRecord
    BY MaxRunsAssumption DEF PinRecord
  <2> QED BY <1>5, <2>1, FaultType DEF Renew
<1>6. CASE Outcome(f)
  <2>1. [file EXCEPT ![f].status = "pinned"] \in [Files -> FileRecord]
    BY DEF FileRecord
  <2> QED BY <1>6, <2>1 DEF Outcome
<1> QED BY <1>1, <1>3, <1>4, <1>5, <1>6

LEMMA RowsNext ==
  ASSUME file' \in [Files -> FileRecord], pin' \in [Files -> PinRecord],
         orders' \subseteq Files, faults' \in 0..MaxFaults,
         session' \in [Sessions -> {"CREATED", "IN_PROGRESS", "VALIDATION_PASSED",
                                    "VALIDATION_FAILED", "FINISHED"}],
         fur' \in [Files -> FurStatus], html' \subseteq s3', s3' \subseteq Files
  PROVE  RowsOK'
BY Zenon DEF RowsOK, PinsTypeOK, FileRecord, PinRecord, FurStatus

LEMMA ClientRows ==
  ASSUME RowsOK, NEW f \in Files, AskUrl(f) \/ CreateFur(f) \/ Put(f) \/ Remove(f)
  PROVE  RowsOK'
<1> USE RowsParts
<1>1. \A status \in FurStatus : [fur EXCEPT ![f] = status] \in [Files -> FurStatus]
  OBVIOUS
<1>2. \A row \in {"none", "active", "deleted", "blocked"} :
        [file EXCEPT ![f].row = row] \in [Files -> FileRecord]
  BY DEF FileRecord
<1>3. "asked" \in FurStatus /\ "SIGNED" \in FurStatus
  BY DEF FurStatus
<1>4. CASE AskUrl(f)
  BY <1>1, <1>3, <1>4, RowsNext DEF AskUrl, pins, size
<1>5. CASE CreateFur(f)
  BY <1>1, <1>3, <1>5, RowsNext DEF CreateFur, pins, size
<1>6. CASE Put(f)
  BY <1>6, RowsNext DEF Put, pins
<1>7. CASE Remove(f)
  <2>1. file' \in [Files -> FileRecord]
    BY <1>2, <1>7 DEF Remove, DeleteRead, MarkDeleted, DeleteCount, RestoreRead,
                      Restore
  <2>2. UNCHANGED <<pins, faults, session, client>>
    BY <1>7, Zenon DEF Remove, DeleteRead, MarkDeleted, DeleteCount, RestoreRead,
                       Restore
  <2> QED BY <2>1, <2>2, RowsNext DEF pins, client
<1> QED BY <1>4, <1>5, <1>6, <1>7

LEMMA CallRows ==
  ASSUME RowsOK, CallsOK, NEW e \in Enders, Close(e)
  PROVE  RowsOK'
<1> USE RowsParts
<1>1. ender[e].session \in Sessions
  BY DEF CallsOK
<1>2. CASE \E s \in Sessions : End(e, s)
  <2>1. UNCHANGED <<file, pins, session, client>> /\ (Fault \/ UNCHANGED faults)
    BY <1>2, Zenon DEF End
  <2> QED BY <2>1, FaultType, RowsNext DEF pins, client
<1>3. CASE MarkEnded(e)
  BY <1>1, <1>3, RowsNext DEF MarkEnded, pins, client
<1>4. CASE Process(e)
  <2>1. /\ fur' \in [Files -> FurStatus] /\ file' \in [Files -> FileRecord]
        /\ UNCHANGED <<pins, faults, session, s3, html>>
    BY <1>4, ProcessedTypes DEF Process
  <2> QED BY <2>1, RowsNext DEF pins
<1>5. CASE ProcessFails(e)
  <2>1. UNCHANGED <<file, pins, session, client>> /\ (Fault \/ UNCHANGED faults)
    BY <1>5, Zenon DEF ProcessFails
  <2> QED BY <2>1, FaultType, RowsNext DEF pins, client
<1>6. CASE SendFirst(e)
  <2>1. UNCHANGED <<file, pins, session, client>> /\ (Fault \/ UNCHANGED faults)
    BY <1>6, Zenon DEF SendFirst
  <2> QED BY <2>1, FaultType, RowsNext DEF pins, client
<1> QED BY <1>2, <1>3, <1>4, <1>5, <1>6 DEF Close

LEMMA RunRows ==
  ASSUME RowsOK, Records, NEW w \in Workers, Run(w)
  PROVE  RowsOK'
<1> USE RowsParts
<1>1. \A r \in RunRecord : r.msg.session \in Sessions
  BY DEF RunRecord, Message
<1>2. worker[w].msg.session \in Sessions
  BY <1>1 DEF Records
<1>3. ASSUME NEW status \in {"VALIDATION_PASSED", "VALIDATION_FAILED", "FINISHED"},
             Reached(w, status)
      PROVE  session' \in [Sessions -> {"CREATED", "IN_PROGRESS",
                   "VALIDATION_PASSED", "VALIDATION_FAILED", "FINISHED"}]
  BY <1>2, <1>3 DEF Reached
<1>4. \A status \in FurStatus, f \in Files :
        [fur EXCEPT ![f] = status] \in [Files -> FurStatus]
  OBVIOUS
<1>5. CASE \E m \in msgs : Start(w, m)
  <2>1. PICK m \in msgs : Start(w, m)
    BY <1>5
  <2>2. Fault \/ UNCHANGED faults
    BY <2>1, Zenon DEF Start
  <2>3. fur' = IF m.process THEN ProcessedFurs(m.session) ELSE fur
    BY <2>1, Zenon DEF Start
  <2>4. file' = IF m.process THEN ProcessedFiles(m.session) ELSE file
    BY <2>1, Zenon DEF Start
  <2>5. UNCHANGED <<pins, session, s3, html>>
    BY <2>1, Zenon DEF Start
  <2> QED BY <2>2, <2>3, <2>4, <2>5, FaultType, ProcessedTypes, RowsNext DEF pins
<1>6. CASE Empty(w)
  BY <1>3, <1>6, RowsNext DEF Empty, pins, client
<1>7. CASE Validate(w)
  <2>1. Fault \/ UNCHANGED faults
    BY <1>7, Zenon DEF Validate, Send
  <2>2. UNCHANGED <<file, pins, client>> /\ Reached(w, "VALIDATION_PASSED")
    BY <1>7, Zenon DEF Validate
  <2> QED BY <1>3, <2>1, <2>2, FaultType, RowsNext DEF pins, client
<1>8. CASE Reject(w)
  <2>1. \A f \in Files : [file[f] EXCEPT !.row = "blocked"] \in FileRecord
    BY DEF FileRecord
  <2>2. file' \in [Files -> FileRecord]
    BY <1>8, <2>1 DEF Reject
  <2>3. UNCHANGED <<pins, faults, client>> /\ Reached(w, "VALIDATION_FAILED")
    BY <1>8, Zenon DEF Reject
  <2> QED BY <1>3, <2>2, <2>3, RowsNext DEF pins, client
<1>9. CASE TakeBatch(w) \/ Count(w) \/ RunFails(w) \/ ValidateThrows(w) \/ RunDies(w)
  <2>1. UNCHANGED <<file, pins, session, client>> /\ (Fault \/ UNCHANGED faults)
    BY <1>9, Zenon DEF TakeBatch, Count, RunFails, ValidateThrows, RunDies, Ended
  <2> QED BY <2>1, FaultType, RowsNext DEF pins, client
<1>10. CASE Finish(w)
  <2>1. /\ UNCHANGED <<file, pins, client>>
        /\ Reached(w, "FINISHED") \/ UNCHANGED session
        /\ Fault \/ UNCHANGED faults
    BY <1>10, Zenon DEF Finish, Send
  <2> QED BY <1>3, <2>1, FaultType, RowsNext DEF pins, client
<1>11. CASE \E f \in Files : MoveOne(w, f)
  <2>1. PICK f \in Files : MoveOne(w, f)
    BY <1>11
  <2>2. {"MISSING", "ERROR", "COMPLETED"} \subseteq FurStatus
    BY DEF FurStatus
  <2>3. CASE Move(w, f)
    <3>1. [row |-> IF file[f].row = "none" THEN "active" ELSE file[f].row,
           status |-> "ipfs"] \in FileRecord
      BY DEF FileRecord
    <3>2. /\ file' = [file EXCEPT ![f] =
                 [row |-> IF file[f].row = "none" THEN "active" ELSE file[f].row,
                  status |-> "ipfs"]]
          /\ UNCHANGED <<pins, faults, session, client>>
      BY <2>3, Zenon DEF Move
    <3>3. file' \in [Files -> FileRecord]
      BY <3>1, <3>2
    <3> QED BY <3>2, <3>3, RowsNext DEF pins, client
  <2>4. CASE MoveMissing(w, f)
    BY <1>4, <2>2, <2>4, RowsNext DEF MoveMissing, pins
  <2>5. CASE MoveFails(w, f)
    BY <1>4, <2>2, <2>5, FaultType, RowsNext DEF MoveFails, pins
  <2>6. CASE Complete(w, f)
    <3>1. /\ fur' = [fur EXCEPT ![f] = "COMPLETED"]
          /\ UNCHANGED <<file, pins, session>>
          /\ Fault \/ UNCHANGED faults
          /\ \/ UNCHANGED <<s3, html>>
             \/ s3' = s3 \ {f} /\ html' = html \ {f}
      BY <2>6, Zenon DEF Complete
    <3>2. html' \subseteq s3' /\ s3' \subseteq Files
      BY <3>1
    <3> QED BY <1>4, <2>2, <3>1, <3>2, FaultType, RowsNext DEF pins
  <2>7. CASE Ask(w, f)
    <3>1. /\ Requested(f) \/ UNCHANGED <<file, pins, faults>>
          /\ UNCHANGED <<session, client>>
      BY <2>7, Zenon DEF Ask
    <3> QED BY <3>1, RequestedTypes, RowsNext DEF pins, client
  <2>8. CASE AskNew(w, f)
    <3>1. Request(f) /\ UNCHANGED <<session, client>>
      BY <2>8, Zenon DEF AskNew
    <3> QED BY <3>1, RequestedTypes, RowsNext DEF client
  <2> QED BY <2>1, <2>3, <2>4, <2>5, <2>6, <2>7, <2>8 DEF MoveOne
<1> QED
  BY <1>5, <1>6, <1>7, <1>8, <1>9, <1>10, <1>11 DEF Run

LEMMA CallsStep ==
  ASSUME CallsOK, Records, Step
  PROVE  CallsOK'
<1> USE DEF CallsOK
<1>1. \A w \in Workers : worker[w].msg.session \in Sessions
  <2>1. \A r \in RunRecord : r.msg.session \in Sessions
    BY DEF RunRecord, Message
  <2> QED BY <2>1 DEF Records
<1>2. ASSUME NEW f \in Files, AskUrl(f) \/ CreateFur(f) \/ Put(f) \/ Remove(f)
      PROVE  UNCHANGED <<msgs, ender>>
  BY <1>2, Zenon DEF AskUrl, CreateFur, Put, Remove, DeleteRead, MarkDeleted,
                     DeleteCount, RestoreRead, Restore, ended
<1>3. ASSUME NEW e \in Enders, Close(e)
      PROVE  CallsOK'
  <2>1. ender[e].session \in Sessions
    OBVIOUS
  <2>2. ASSUME NEW label \in {"marked", "processed", "done"}, Goto(e, label)
        PROVE  ender' \in [Enders ->
           [pc : {"idle", "read", "marked", "processed", "done"}, session : Sessions]]
    <3>1. SomeSession \in Sessions
      BY Constants
    <3> QED BY <2>1, <2>2, <3>1 DEF Goto
  <2>3. CASE \E s \in Sessions : End(e, s)
    BY <2>3 DEF End
  <2>4. CASE MarkEnded(e)
    BY <2>2, <2>4 DEF MarkEnded
  <2>5. CASE Process(e)
    BY <2>2, <2>5 DEF Process
  <2>6. CASE ProcessFails(e)
    BY <2>2, <2>6 DEF ProcessFails
  <2>7. CASE SendFirst(e)
    <3>1. msgs' = msgs \cup {First(ender[e].session)} \/ UNCHANGED msgs
      BY <2>7, Zenon DEF SendFirst
    <3>2. Goto(e, "done")
      BY <2>7, Zenon DEF SendFirst
    <3> QED BY <2>1, <2>2, <3>1, <3>2, Constants
  <2> QED BY <1>3, <2>3, <2>4, <2>5, <2>6, <2>7 DEF Close
<1>4. ASSUME NEW w \in Workers, Run(w)
      PROVE  CallsOK'
  <2>1. UNCHANGED ender
    BY <1>4, Zenon DEF Run, Start, Empty, Validate, Reject, TakeBatch, Count, Finish,
         RunFails, ValidateThrows, RunDies, Ended, MoveOne, Move, MoveMissing,
         MoveFails, Complete, Ask, AskNew, ended
  <2>2. ASSUME NEW m \in Message, Send(worker[w].msg.session, msgs \ {m})
        PROVE  msgs' \subseteq Message
    BY <1>1, <2>2, Constants DEF Send
  <2>3. CASE Validate(w)
    <3>1. Send(worker[w].msg.session, msgs \ {worker[w].msg})
      BY <2>3, Zenon DEF Validate
    <3> QED BY <1>1, <2>1, <3>1, Constants DEF Send
  <2>4. CASE Finish(w)
    <3>1. \/ Send(worker[w].msg.session, msgs \ {worker[w].msg})
          \/ msgs' = msgs \ {worker[w].msg}
      BY <2>4, Zenon DEF Finish
    <3> QED BY <1>1, <2>1, <3>1, Constants DEF Send
  <2>5. CASE ~ (Validate(w) \/ Finish(w))
    <3>1. msgs' \in {msgs, msgs \ {worker[w].msg}}
      BY <1>4, <2>5 DEF Run, Start, Empty, Reject, TakeBatch, Count,
         RunFails, ValidateThrows, RunDies, Ended, MoveOne, Move, MoveMissing,
         MoveFails, Complete, Ask, AskNew, ended
    <3> QED BY <2>1, <3>1
  <2> QED BY <2>3, <2>4, <2>5
<1>5. ASSUME PinsNext, UNCHANGED service
      PROVE  CallsOK'
  BY <1>5 DEF service, ended
<1> QED BY <1>2, <1>3, <1>4, <1>5 DEF Step

LEMMA SizeStep ==
  ASSUME CallsOK, SizeOK, Records, Step, UNCHANGED limits
  PROVE  SizeOK' /\ (lost \in BOOLEAN => lost' \in BOOLEAN)
<1> USE DEF SizeOK
<1>1. /\ \A f \in Files : remover[f] \in RemoverRecord /\ remover[f].base \in Int
      /\ \A w \in Workers : worker[w] \in RunRecord
  BY DEF Records, RemoverRecord
<1>2. \A w \in Workers :
        LET r == worker[w] IN
        /\ r.msg \in Message /\ r.msg.session \in Sessions /\ r.base \in Int
        /\ r.done \in SUBSET Files /\ r.unasked \in SUBSET Files
  BY <1>1 DEF RunRecord, Message
<1>3. \A e \in Enders : ender[e].session \in Sessions
  BY DEF CallsOK
<1>4. ASSUME NEW base \in Int, NEW n \in Int, SaveBucket(base, n)
      PROVE  bucket' \in Int /\ lost' \in BOOLEAN
  <2>1. bucket' \in Int
    BY <1>4 DEF SaveBucket
  <2>2. lost' \in BOOLEAN
    BY <1>4, Zenon DEF SaveBucket
  <2> QED BY <2>1, <2>2
<1>5. ASSUME NEW f \in Files, AskUrl(f) \/ CreateFur(f) \/ Put(f) \/ Remove(f)
      PROVE  SizeOK' /\ (lost \in BOOLEAN => lost' \in BOOLEAN)
  <2>1. UNCHANGED <<again, stuck, dropped, uncounted>>
    BY <1>5, Zenon DEF AskUrl, CreateFur, Put, Remove, DeleteRead, MarkDeleted,
                       DeleteCount, RestoreRead, Restore, ended, runs
  <2>2. \/ UNCHANGED <<bucket, lost>>
        \/ SaveBucket(remover[f].base, -1) \/ SaveBucket(remover[f].base, 1)
    BY <1>5, Zenon DEF AskUrl, CreateFur, Put, Remove, DeleteRead, MarkDeleted,
                       DeleteCount, RestoreRead, Restore, size
  <2>3. -1 \in Int /\ 1 \in Int
    OBVIOUS
  <2>4. bucket' \in Int /\ (lost \in BOOLEAN => lost' \in BOOLEAN)
    BY <1>1, <1>4, <2>2, <2>3
  <2> QED BY <2>1, <2>4
<1>6. ASSUME NEW e \in Enders, Close(e)
      PROVE  SizeOK' /\ (lost \in BOOLEAN => lost' \in BOOLEAN)
  <2>1. UNCHANGED <<bucket, lost, dropped, uncounted>>
    BY <1>6, Zenon DEF Close, End, MarkEnded, Process, ProcessFails, SendFirst,
                       size, runs
  <2>2. /\ again' \in {again, again \cup {ender[e].session}}
        /\ stuck' \in {stuck, stuck \cup {ender[e].session}}
    BY <1>6 DEF Close, End, MarkEnded, Process, ProcessFails, SendFirst
  <2> QED BY <1>3, <2>1, <2>2
<1>7. ASSUME NEW w \in Workers, Run(w)
      PROVE  SizeOK' /\ (lost \in BOOLEAN => lost' \in BOOLEAN)
  <2>1. CASE Count(w)
    <3>1. Cardinality(worker[w].done) \in Int
      BY <1>2, FileUploadAssumption, FS_Subset, FS_CardinalityType
    <3>2. SaveBucket(worker[w].base, Cardinality(worker[w].done))
      BY <2>1, Zenon DEF Count
    <3>3. UNCHANGED <<again, stuck, dropped, uncounted>>
      BY <2>1, Zenon DEF Count, ended
    <3> QED BY <1>2, <1>4, <3>1, <3>2, <3>3
  <2>2. CASE Validate(w) \/ Finish(w)
    <3>1. UNCHANGED <<bucket, lost, again, dropped, uncounted>>
      BY <2>2, Zenon DEF Validate, Finish, size
    <3>2. stuck' \in {stuck, stuck \cup {worker[w].msg.session}}
      BY <2>2 DEF Validate, Finish, Send
    <3> QED BY <1>2, <3>1, <3>2
  <2>3. CASE \E m \in msgs : Start(w, m)
    <3>1. PICK m \in msgs : Start(w, m)
      BY <2>3
    <3>2. UNCHANGED <<bucket, lost, stuck, dropped, uncounted>>
      BY <3>1, Zenon DEF Start, size, ended
    <3>3. again' \in {again, again \cup {m.session}}
      BY <3>1 DEF Start
    <3>4. m.session \in Sessions
      BY DEF CallsOK, Message
    <3> QED BY <3>2, <3>3, <3>4
  <2>4. CASE Ended(w)
    <3>1. /\ dropped' = dropped \cup worker[w].unasked
          /\ uncounted' = uncounted \cup worker[w].done
          /\ UNCHANGED <<bucket, lost, again, stuck>>
      BY <2>4, Zenon DEF Ended, ended, size
    <3> QED BY <1>2, <3>1
  <2>5. CASE ~ (Count(w) \/ Validate(w) \/ Finish(w) \/ Ended(w)
                  \/ \E m \in msgs : Start(w, m))
    <3>1. UNCHANGED <<bucket, lost, again, stuck, dropped, uncounted>>
      BY <1>7, <2>5, Zenon DEF Run, Empty, Reject, TakeBatch, RunFails,
           ValidateThrows, RunDies, MoveOne, Move, MoveMissing, MoveFails, Complete,
           Ask, AskNew, ended, size
    <3> QED BY <3>1
  <2> QED BY <2>1, <2>2, <2>3, <2>4, <2>5
<1>8. ASSUME PinsNext, UNCHANGED service
      PROVE  SizeOK' /\ (lost \in BOOLEAN => lost' \in BOOLEAN)
  BY <1>8 DEF service, ended, runs, size
<1> QED BY <1>5, <1>6, <1>7, <1>8, Zenon DEF Step

LEMMA RecordsStep ==
  ASSUME TypeOK, Records, Step
  PROVE  /\ Records'
         /\ \A w \in Workers : RunFits(worker'[w])
         /\ \A f \in Files : remover'[f].base \in Int
<1> USE TypeParts
<1>1. ASSUME UNCHANGED worker
      PROVE  /\ worker' \in [Workers -> RunRecord]
             /\ \A w \in Workers : RunFits(worker'[w])
  BY <1>1 DEF Records
<1>2. ASSUME NEW w \in Workers, Run(w)
      PROVE  /\ worker' \in [Workers -> RunRecord]
             /\ \A v \in Workers : RunFits(worker'[v])
  <2>1. ASSUME NEW r \in RunRecord, RunFits(r), worker' = [worker EXCEPT ![w] = r]
        PROVE  /\ worker' \in [Workers -> RunRecord]
               /\ \A v \in Workers : RunFits(worker'[v])
    <3>1. /\ worker' \in [Workers -> RunRecord] /\ worker'[w] = r
          /\ \A v \in Workers : v # w => worker'[v] = worker[v]
      BY <2>1, Updated
    <3> QED BY <2>1, <3>1
  <2>2. worker[w] \in RunRecord /\ RunFits(worker[w])
    BY DEF Records
  <2>3. CASE \E m \in msgs : Start(w, m)
    <3>1. PICK m \in msgs : Start(w, m)
      BY <2>3
    <3>2. PICK left \in SUBSET Registered(m.session) :
            worker' = [worker EXCEPT ![w] = Started(m, left)]
      BY <3>1, RunEffects
    <3>3. m \in Message /\ bucket \in Int /\ left \in SUBSET Of(m.session)
      BY DEF CallsOK, SizeOK, Registered
    <3>4. Started(m, left) \in RunRecord /\ RunFits(Started(m, left))
      BY <3>3, StartedIs
    <3> QED BY <2>1, <3>2, <3>4
  <2>4. CASE Empty(w) \/ Validate(w) \/ Reject(w) \/ Finish(w) \/ Ended(w)
    BY <2>1, <2>4, RunEffects, Constants
  <2>5. CASE TakeBatch(w)
    BY <2>1, <2>2, <2>5, RunEffects, BatchIs
  <2>6. CASE Count(w)
    <3>1. worker[w].unasked = {}
      BY <2>6 DEF Count
    <3> QED BY <2>1, <2>2, <2>6, <3>1, RunEffects, CountedRunIs
  <2>7. CASE \E f \in Files : MoveOne(w, f)
    <3>1. PICK f \in Files : MoveOne(w, f)
      BY <2>7
    <3>2. CASE Move(w, f)
      <4>1. f \in worker[w].left
        BY <3>2 DEF Move
      <4> QED BY <2>1, <2>2, <3>2, <4>1, RunEffects, MovedOneIs
    <3>3. CASE MoveMissing(w, f)
      <4>1. f \in worker[w].left
        BY <3>3 DEF MoveMissing
      <4> QED BY <2>1, <2>2, <3>3, <4>1, RunEffects, MissedOneIs
    <3>4. CASE MoveFails(w, f)
      <4>1. f \in worker[w].left
        BY <3>4 DEF MoveFails
      <4> QED BY <2>1, <2>2, <3>4, <4>1, RunEffects, FailedOneIs
    <3>5. CASE Complete(w, f)
      <4>1. f \in worker[w].moved
        BY <3>5 DEF Complete
      <4>2. PICK failed \in BOOLEAN :
              worker' = [worker EXCEPT ![w] = CompletedOne(worker[w], f, failed)]
        BY <3>5, RunEffects
      <4> QED BY <2>1, <2>2, <4>1, <4>2, CompletedOneIs
    <3>6. CASE Ask(w, f)
      <4>1. f \in worker[w].unasked \ worker[w].looked
        BY <3>6 DEF Ask
      <4>2. \/ worker' = [worker EXCEPT ![w] = Asked(worker[w], f)]
            \/ worker' = [worker EXCEPT ![w] = LookedUp(worker[w], f)]
        BY <3>6, RunEffects
      <4> QED BY <2>1, <2>2, <4>1, <4>2, AskedIs, LookedUpIs
    <3>7. CASE AskNew(w, f)
      <4>1. f \in worker[w].looked
        BY <3>7 DEF AskNew
      <4> QED BY <2>1, <2>2, <3>7, <4>1, RunEffects, AskedNewIs
    <3> QED BY <3>1, <3>2, <3>3, <3>4, <3>5, <3>6, <3>7 DEF MoveOne
  <2> QED BY <1>2, <2>3, <2>4, <2>5, <2>6, <2>7
          DEF Run, RunFails, ValidateThrows, RunDies
<1>3. ASSUME ~ (\E w \in Workers : Run(w))
      PROVE  UNCHANGED worker
  BY <1>3, Zenon DEF Step, Close, End, MarkEnded, Process, ProcessFails, SendFirst,
       AskUrl, CreateFur, Put, Remove, DeleteRead, MarkDeleted, DeleteCount,
       RestoreRead, Restore, service, runs
<1>4. /\ remover' \in [Files -> RemoverRecord]
      /\ \A f \in Files : remover'[f].base \in Int
  <2>1. CASE \E f \in Files : Remove(f)
    <3>1. PICK f \in Files : Remove(f)
      BY <2>1
    <3>2. \A n \in Int : \A label \in {"deleting", "restoring"} :
            [pc |-> label, base |-> n] \in RemoverRecord
      BY DEF RemoverRecord
    <3>3. bucket \in Int
      BY DEF SizeOK
    <3>4. remover' \in [Files -> RemoverRecord]
      <4>1. CASE DeleteRead(f)
        BY <3>2, <3>3, <4>1 DEF DeleteRead, Records
      <4>2. CASE MarkDeleted(f)
        BY <4>2 DEF MarkDeleted, Records, RemoverRecord
      <4>0. /\ [pc |-> "deleted", base |-> 0] \in RemoverRecord
            /\ [pc |-> "restored", base |-> 0] \in RemoverRecord
        BY DEF RemoverRecord
      <4>3. CASE DeleteCount(f)
        BY <4>0, <4>3 DEF DeleteCount, Records
      <4>4. CASE RestoreRead(f)
        BY <3>2, <3>3, <4>4 DEF RestoreRead, Records
      <4>5. CASE Restore(f)
        BY <4>0, <4>5 DEF Restore, Records
      <4> QED BY <3>1, <4>1, <4>2, <4>3, <4>4, <4>5 DEF Remove
    <3> QED BY <3>4 DEF RemoverRecord
  <2>2. CASE ~ (\E f \in Files : Remove(f))
    <3>1. ASSUME NEW f \in Files, AskUrl(f) \/ CreateFur(f) \/ Put(f)
          PROVE  UNCHANGED remover
      BY <3>1, Zenon DEF AskUrl, CreateFur, Put
    <3>2. ASSUME NEW e \in Enders, Close(e)
          PROVE  UNCHANGED remover
      BY <3>2, Zenon DEF Close, End, MarkEnded, Process, ProcessFails, SendFirst
    <3>3. ASSUME NEW w \in Workers, Run(w)
          PROVE  UNCHANGED remover
      BY <3>3, Zenon DEF Run, Start, Empty, Validate, Reject, TakeBatch, Count,
         Finish, RunFails, ValidateThrows, RunDies, Ended, MoveOne, Move, MoveMissing,
         MoveFails, Complete, Ask, AskNew
    <3>4. UNCHANGED remover
      BY <2>2, <3>1, <3>2, <3>3, Zenon DEF Step, service
    <3> QED BY <3>4 DEF Records, RemoverRecord
  <2> QED BY <2>1, <2>2
<1> QED BY <1>1, <1>2, <1>3, <1>4 DEF Records

LEMMA TypeStep == TypeOK /\ Records /\ [Next]_vars => TypeOK' /\ Records'
<1> SUFFICES ASSUME TypeOK, Records, [Next]_vars
             PROVE  TypeOK' /\ Records'
  OBVIOUS
<1> USE TypeParts
<1>1. CASE UNCHANGED vars
  BY <1>1, Zenon DEF vars, pins, client, ended, runs, size, TypeOK, PinsTypeOK, Records,
                     Of, Message
<1>2. CASE Next
  <2>1. Step /\ UNCHANGED limits
    BY <1>2 DEF Next
  <2>2. RowsOK'
    <3>1. CASE \E f \in Files : AskUrl(f) \/ CreateFur(f) \/ Put(f) \/ Remove(f)
      BY <3>1, ClientRows
    <3>2. CASE \E e \in Enders : Close(e)
      BY <3>2, CallRows
    <3>3. CASE \E w \in Workers : Run(w)
      BY <3>3, RunRows
    <3>4. CASE PinsNext /\ UNCHANGED service
      BY <3>4, PinsStep, RowsParts, RowsNext DEF service, client
    <3> QED BY <2>1, <3>1, <3>2, <3>3, <3>4 DEF Step
  <2>3. CallsOK' /\ SizeOK' /\ lost' \in BOOLEAN
    BY <2>1, CallsStep, SizeStep
  <2>4. /\ Records'
        /\ \A w \in Workers : RunFits(worker'[w])
        /\ \A f \in Files : remover'[f].base \in Int
    BY <2>1, RecordsStep
  <2>5. TypeOK'
    BY <2>2, <2>3, <2>4, Zenon DEF TypeOK, RowsOK, CallsOK, SizeOK, RunFits
  <2> QED BY <2>4, <2>5
<1> QED BY <1>1, <1>2

-----------------------------------------------------------------------------
(* A step of one run, and what it leaves alone. *)

(* The runs v differ from the run w and do not take part in a step of w. *)
Others(w) == \A v \in Workers : v # w => worker'[v] = worker[v]

(* r is the run q with other files in hand. *)
Same(r, q) == r.pc = q.pc /\ r.msg = q.msg
SameHand(r, q) == r.left = q.left /\ r.moved = q.moved
SameDone(r, q) == r.done = q.done /\ r.unasked = q.unasked

LEMMA RunAfter ==
  ASSUME TypeOK, Records, NEW w \in Workers, Run(w)
  PROVE  /\ Others(w)
         /\ LET q == worker[w]
                r == worker'[w] IN
            \/ \E m \in msgs : \E left \in SUBSET Registered(m.session) :
                 /\ Start(w, m)
                 /\ \A f \in left : fur'[f] \notin Done
                 /\ r.pc = "read" /\ r.msg = m /\ r.left = left
                 /\ r.moved = {} /\ r.done = {} /\ r.unasked = {}
            \/ /\ Empty(w) \/ Validate(w) \/ Reject(w) \/ Finish(w) \/ Ended(w)
               /\ r = NoRun
            \/ /\ TakeBatch(w)
               /\ r.left \subseteq q.left /\ r.moved = q.moved
               /\ r.pc = "moving" /\ r.msg = q.msg /\ SameDone(r, q)
            \/ /\ Count(w)
               /\ r.pc = "counted" /\ r.msg = q.msg /\ SameHand(r, q)
               /\ r.done = {} /\ r.unasked = {}
            \/ \E f \in Files :
                 \/ /\ Move(w, f)
                    /\ Same(r, q) /\ SameDone(r, q)
                    /\ r.left = q.left \ {f} /\ r.moved = q.moved \cup {f}
                 \/ /\ MoveMissing(w, f) \/ MoveFails(w, f)
                    /\ Same(r, q) /\ SameDone(r, q)
                    /\ r.left = q.left \ {f} /\ r.moved = q.moved
                 \/ /\ Complete(w, f)
                    /\ Same(r, q)
                    /\ r.left = q.left /\ r.moved = q.moved \ {f}
                    /\ r.done = q.done \cup {f}
                    /\ r.unasked = q.unasked \cup {f}
                 \/ /\ Ask(w, f)
                    /\ Same(r, q) /\ SameHand(r, q) /\ r.done = q.done
                    /\ \/ /\ Requests(f) # {} /\ Requested(f)
                          /\ r.unasked = q.unasked \ {f}
                       \/ /\ UNCHANGED <<file, pins, faults>>
                          /\ r.unasked = q.unasked
                 \/ /\ AskNew(w, f)
                    /\ Same(r, q) /\ SameHand(r, q) /\ r.done = q.done
                    /\ r.unasked = q.unasked \ {f}
<1> DEFINE q == worker[w]
           r == worker'[w]
<1> USE TypeParts DEF Others
<1>1. ASSUME NEW s \in RunRecord, worker' = [worker EXCEPT ![w] = s]
      PROVE  worker'[w] = s /\ Others(w)
  BY <1>1, Updated
<1>2. worker[w] \in RunRecord /\ RunFits(worker[w])
  BY DEF Records
<1>3. CASE \E m \in msgs : Start(w, m)
  <2>1. PICK m \in msgs : Start(w, m)
    BY <1>3
  <2>2. PICK left \in SUBSET Registered(m.session) :
          /\ worker' = [worker EXCEPT ![w] = Started(m, left)]
          /\ \A f \in left : fur'[f] \notin Done
    BY <2>1, RunEffects
  <2>3. m \in Message /\ bucket \in Int /\ left \in SUBSET Of(m.session)
    BY DEF CallsOK, SizeOK, Registered
  <2>4. Started(m, left) \in RunRecord
    BY <2>3, StartedIs
  <2>5. r = Started(m, left) /\ Others(w)
    BY <1>1, <2>2, <2>4
  <2>6. /\ r.pc = "read" /\ r.msg = m /\ r.left = left
        /\ r.moved = {} /\ r.done = {} /\ r.unasked = {}
    BY <2>3, <2>5, StartedIs
  <2> QED BY <2>1, <2>2, <2>5, <2>6
<1>4. CASE Empty(w) \/ Validate(w) \/ Reject(w) \/ Finish(w) \/ Ended(w)
  <2>1. r = NoRun /\ Others(w)
    BY <1>1, <1>4, RunEffects, Constants
  <2> QED BY <1>4, <2>1
<1>5. CASE TakeBatch(w)
  <2>1. PICK B \in SUBSET q.left : worker' = [worker EXCEPT ![w] = Batch(q, B)]
    BY <1>5, RunEffects
  <2>2. Batch(q, B) \in RunRecord
    BY <1>2, BatchIs
  <2>3. r = Batch(q, B) /\ Others(w)
    BY <1>1, <2>1, <2>2
  <2>4. /\ r.left \subseteq q.left /\ r.moved = q.moved
        /\ r.pc = "moving" /\ r.msg = q.msg /\ SameDone(r, q)
    BY <1>2, <2>3, BatchIs DEF SameDone
  <2> QED BY <1>5, <2>3, <2>4
<1>6. CASE Count(w)
  <2>1. q.unasked = {}
    BY <1>6 DEF Count
  <2>2. CountedRun(q) \in RunRecord
    BY <1>2, <2>1, CountedRunIs
  <2>3. r = CountedRun(q) /\ Others(w)
    BY <1>1, <1>6, <2>2, RunEffects
  <2>4. /\ r.pc = "counted" /\ r.msg = q.msg /\ SameHand(r, q)
        /\ r.done = {} /\ r.unasked = {}
    BY <1>2, <2>1, <2>3, CountedRunIs DEF SameHand
  <2> QED BY <1>6, <2>3, <2>4
<1>7. ASSUME NEW f \in Files, Move(w, f)
      PROVE  /\ Others(w)
             /\ Same(r, q) /\ SameDone(r, q)
             /\ r.left = q.left \ {f} /\ r.moved = q.moved \cup {f}
  <2>1. f \in q.left
    BY <1>7 DEF Move
  <2>2. MovedOne(q, f) \in RunRecord
    BY <1>2, <2>1, MovedOneIs
  <2>3. r = MovedOne(q, f) /\ Others(w)
    BY <1>1, <1>7, <2>2, RunEffects
  <2> QED BY <1>2, <2>1, <2>3, MovedOneIs DEF Same, SameDone
<1>8. ASSUME NEW f \in Files, MoveMissing(w, f) \/ MoveFails(w, f)
      PROVE  /\ Others(w)
             /\ Same(r, q) /\ SameDone(r, q)
             /\ r.left = q.left \ {f} /\ r.moved = q.moved
  <2>1. f \in q.left
    BY <1>8 DEF MoveMissing, MoveFails
  <2>2. CASE MoveMissing(w, f)
    <3>1. MissedOne(q, f) \in RunRecord
      BY <1>2, <2>1, MissedOneIs
    <3>2. r = MissedOne(q, f) /\ Others(w)
      BY <1>1, <2>2, <3>1, RunEffects
    <3> QED BY <1>2, <2>1, <3>2, MissedOneIs DEF Same, SameDone
  <2>3. CASE MoveFails(w, f)
    <3>1. FailedOne(q, f) \in RunRecord
      BY <1>2, <2>1, FailedOneIs
    <3>2. r = FailedOne(q, f) /\ Others(w)
      BY <1>1, <2>3, <3>1, RunEffects
    <3> QED BY <1>2, <2>1, <3>2, FailedOneIs DEF Same, SameDone
  <2> QED BY <1>8, <2>2, <2>3
<1>9. ASSUME NEW f \in Files, Complete(w, f)
      PROVE  /\ Others(w)
             /\ Same(r, q)
             /\ r.left = q.left /\ r.moved = q.moved \ {f}
             /\ r.done = q.done \cup {f} /\ r.unasked = q.unasked \cup {f}
  <2>1. f \in q.moved
    BY <1>9 DEF Complete
  <2>2. PICK failed \in BOOLEAN :
          worker' = [worker EXCEPT ![w] = CompletedOne(q, f, failed)]
    BY <1>9, RunEffects
  <2>3. CompletedOne(q, f, failed) \in RunRecord
    BY <1>2, <2>1, CompletedOneIs
  <2>4. r = CompletedOne(q, f, failed) /\ Others(w)
    BY <1>1, <2>2, <2>3
  <2> QED BY <1>2, <2>1, <2>4, CompletedOneIs DEF Same
<1>10. ASSUME NEW f \in Files, Ask(w, f)
       PROVE  /\ Others(w)
              /\ Same(r, q) /\ SameHand(r, q) /\ r.done = q.done
              /\ \/ /\ Requests(f) # {} /\ Requested(f)
                    /\ r.unasked = q.unasked \ {f}
                 \/ /\ UNCHANGED <<file, pins, faults>>
                    /\ r.unasked = q.unasked
  <2>1. f \in q.unasked \ q.looked
    BY <1>10 DEF Ask
  <2>2. Asked(q, f) \in RunRecord /\ LookedUp(q, f) \in RunRecord
    BY <1>2, <2>1, AskedIs, LookedUpIs
  <2>3. CASE /\ Requests(f) # {} /\ Requested(f)
             /\ worker' = [worker EXCEPT ![w] = Asked(q, f)]
    <3>1. r = Asked(q, f) /\ Others(w)
      BY <1>1, <2>2, <2>3
    <3> QED BY <1>2, <2>1, <2>3, <3>1, AskedIs DEF Same, SameHand
  <2>4. CASE /\ UNCHANGED <<file, pins, faults>>
             /\ worker' = [worker EXCEPT ![w] = LookedUp(q, f)]
    <3>1. r = LookedUp(q, f) /\ Others(w)
      BY <1>1, <2>2, <2>4
    <3> QED BY <1>2, <2>1, <2>4, <3>1, LookedUpIs DEF Same, SameHand
  <2> QED BY <1>10, <2>3, <2>4, RunEffects
<1>11. ASSUME NEW f \in Files, AskNew(w, f)
       PROVE  /\ Others(w)
              /\ Same(r, q) /\ SameHand(r, q) /\ r.done = q.done
              /\ r.unasked = q.unasked \ {f}
  <2>1. f \in q.looked
    BY <1>11 DEF AskNew
  <2>2. AskedNew(q, f) \in RunRecord
    BY <1>2, <2>1, AskedNewIs
  <2>3. r = AskedNew(q, f) /\ Others(w)
    BY <1>1, <1>11, <2>2, RunEffects
  <2> QED BY <1>2, <2>1, <2>3, AskedNewIs DEF Same, SameHand
<1>12. \/ \E m \in msgs : Start(w, m)
       \/ Empty(w) \/ Validate(w) \/ Reject(w) \/ Finish(w) \/ Ended(w)
       \/ TakeBatch(w) \/ Count(w)
       \/ \E f \in Files : MoveOne(w, f)
  BY Zenon DEF Run, RunFails, ValidateThrows, RunDies
<1>13. CASE \E f \in Files : MoveOne(w, f)
  <2>1. PICK f \in Files : MoveOne(w, f)
    BY <1>13
  <2>2. \/ Move(w, f) \/ (MoveMissing(w, f) \/ MoveFails(w, f)) \/ Complete(w, f)
        \/ Ask(w, f) \/ AskNew(w, f)
    BY <2>1 DEF MoveOne
  <2> HIDE DEF q, r
  <2> QED BY <1>7, <1>8, <1>9, <1>10, <1>11, <2>2, Zenon DEF q, r
<1> QED BY <1>3, <1>4, <1>5, <1>6, <1>12, <1>13

(* Everybody else leaves the runs alone, and what they have in hand. *)
LEMMA RunsAlone ==
  ASSUME Step, ~ \E w \in Workers : Run(w)
  PROVE  UNCHANGED <<worker, dropped, uncounted>>
<1>1. ASSUME NEW f \in Files, AskUrl(f) \/ CreateFur(f) \/ Put(f) \/ Remove(f)
      PROVE  UNCHANGED <<worker, dropped, uncounted>>
  BY <1>1, Zenon DEF AskUrl, CreateFur, Put, Remove, DeleteRead, MarkDeleted,
                     DeleteCount, RestoreRead, Restore, runs
<1>2. ASSUME NEW e \in Enders, Close(e)
      PROVE  UNCHANGED <<worker, dropped, uncounted>>
  BY <1>2, Zenon DEF Close, End, MarkEnded, Process, ProcessFails, SendFirst, runs
<1> QED BY <1>1, <1>2, Zenon DEF Step, service, runs

LEMMA PhasesStep ==
  ASSUME TypeOK, Records, Phases, [Next]_vars
  PROVE  Phases'
<1> USE DEF Phases
<1>1. CASE UNCHANGED vars
  BY <1>1 DEF vars, runs
<1>2. CASE Next /\ ~ \E w \in Workers : Run(w)
  BY <1>2, RunsAlone DEF Next
<1>3. ASSUME NEW w \in Workers, Run(w)
      PROVE  Phases'
  <2>1. /\ worker'[w].pc = "idle" => worker'[w].left = {}
        /\ worker'[w].pc # "moving" =>
          worker'[w].moved = {} /\ worker'[w].done = {} /\ worker'[w].unasked = {}
    <3>1. Count(w) => worker[w].moved = {} /\ worker[w].unasked = {}
      BY DEF Count, Moved
    <3>3. \A f \in Files : /\ Complete(w, f) => worker[w].moved # {}
                           /\ Ask(w, f) => worker[w].unasked # {}
                           /\ AskNew(w, f) => worker[w].looked # {}
                           /\ Move(w, f) => worker[w].pc = "moving"
      BY DEF Complete, Ask, AskNew, Move
    <3>4. worker[w].looked \subseteq worker[w].unasked
      BY TypeParts DEF RunFits
    <3>5. /\ worker[w].pc = "idle" => worker[w].left = {}
          /\ worker[w].pc # "moving" =>
               worker[w].moved = {} /\ worker[w].done = {} /\ worker[w].unasked = {}
      OBVIOUS
    <3> QED BY <1>3, <3>1, <3>3, <3>4, <3>5, RunAfter, Constants
            DEF Same, SameHand, SameDone
  <2>2. Others(w)
    BY <1>3, RunAfter
  <2> QED BY <2>1, <2>2 DEF Others
<1> QED BY <1>1, <1>2, <1>3 DEF Next, Step

-----------------------------------------------------------------------------
(* What was asked to be pinned stays asked for. *)
LEMMA RequestsStay ==
  ASSUME TypeOK, Records, Step
  PROVE  \A g \in Files : pin[g].status # "none" => pin'[g].status # "none"
<1> DEFINE Stays == \A g \in Files : pin[g].status # "none" => pin'[g].status # "none"
<1>1. pin \in [Files -> PinRecord]
  BY TypeParts, RowsParts
<1>2. ASSUME NEW f \in Files, Requested(f) \/ Request(f)
      PROVE  Stays
  <2>1. CASE Requested(f)
    <3>1. PICK g \in Requests(f) :
            pin' = IF pin[g].status = "FAILED" /\ pin[g].runs >= MaxRuns
                   THEN [pin EXCEPT ![g] = [status |-> "PENDING", runs |-> 0]]
                   ELSE pin
      BY <2>1, Zenon DEF Requested
    <3>2. g \in Files
      BY DEF Requests
    <3> QED BY <1>1, <3>1, <3>2
  <2>2. CASE Request(f)
    BY <1>1, <2>2 DEF Request
  <2> QED BY <1>2, <2>1, <2>2
<1>3. ASSUME PinsNext
      PROVE  Stays
  <2>1. PICK f \in Files :
          PlaceOrder(f) \/ OrderFails(f) \/ Renew(f) \/ Outcome(f)
    BY <1>3 DEF PinsNext
  <2>2. ASSUME NEW status \in {"SUCCESSFULL", "FAILED"}, Ran(f, status)
        PROVE  Stays
    BY <1>1, <2>2 DEF Ran
  <2>3. CASE Renew(f)
    BY <1>1, <2>3 DEF Renew
  <2> QED BY <2>1, <2>2, <2>3 DEF PlaceOrder, OrderFails, Outcome
<1>4. UNCHANGED pin \/ PinsNext \/ \E f \in Files : Requested(f) \/ Request(f)
  <2>1. ASSUME NEW f \in Files, AskUrl(f) \/ CreateFur(f) \/ Put(f) \/ Remove(f)
        PROVE  UNCHANGED pin
    BY <2>1, Zenon DEF AskUrl, CreateFur, Put, Remove, DeleteRead, MarkDeleted,
                       DeleteCount, RestoreRead, Restore, pins
  <2>2. ASSUME NEW e \in Enders, Close(e)
        PROVE  UNCHANGED pin
    BY <2>2, Zenon DEF Close, End, MarkEnded, Process, ProcessFails, SendFirst, pins
  <2>3. ASSUME NEW w \in Workers, Run(w)
        PROVE  UNCHANGED pin \/ \E f \in Files : Requested(f) \/ Request(f)
    BY <2>3, Zenon DEF Run, Start, Empty, Validate, Reject, TakeBatch, Count,
         Finish, RunFails, ValidateThrows, RunDies, Ended, MoveOne, Move, MoveMissing,
         MoveFails, Complete, Ask, AskNew, pins
  <2> QED BY <2>1, <2>2, <2>3, Zenon DEF Step
<1> QED BY <1>2, <1>3, <1>4

(* A request is completed by the run that has the file in hand. *)
LEMMA CompletedBy ==
  ASSUME TypeOK, Records, Step, NEW f \in Files,
         fur'[f] = "COMPLETED", fur[f] # "COMPLETED"
  PROVE  \E w \in Workers : Complete(w, f)
<1> USE TypeParts, RowsParts
<1>1. fur \in [Files -> FurStatus]
  OBVIOUS
<1>2. \A s : ProcessedFurs(s)[f] # "COMPLETED"
  BY DEF ProcessedFurs
<1>3. ASSUME NEW g \in Files, AskUrl(g) \/ CreateFur(g) \/ Put(g) \/ Remove(g)
      PROVE  FALSE
  <2>1. \/ fur' = [fur EXCEPT ![g] = "asked"] \/ fur' = [fur EXCEPT ![g] = "SIGNED"]
        \/ UNCHANGED fur
    BY <1>3, Zenon DEF AskUrl, CreateFur, Put, Remove, DeleteRead, MarkDeleted,
                       DeleteCount, RestoreRead, Restore, client
  <2> QED BY <1>1, <2>1
<1>4. ASSUME NEW e \in Enders, Close(e)
      PROVE  FALSE
  <2>1. UNCHANGED fur \/ \E s : fur' = ProcessedFurs(s)
    BY <1>4, Zenon DEF Close, End, MarkEnded, Process, ProcessFails, SendFirst, client
  <2> QED BY <1>2, <2>1
<1>5. ASSUME NEW w \in Workers, Run(w), ~ Complete(w, f)
      PROVE  FALSE
  <2>1. \/ UNCHANGED fur \/ \E s : fur' = ProcessedFurs(s)
        \/ \E g \in Files : \/ fur' = [fur EXCEPT ![g] = "MISSING"]
                            \/ fur' = [fur EXCEPT ![g] = "ERROR"]
                            \/ g # f /\ fur' = [fur EXCEPT ![g] = "COMPLETED"]
    BY <1>5, Zenon DEF Run, Start, Empty, Validate, Reject, TakeBatch, Count,
         Finish, RunFails, ValidateThrows, RunDies, Ended, MoveOne, Move, MoveMissing,
         MoveFails, Complete, Ask, AskNew, client
  <2> QED BY <1>1, <1>2, <2>1
<1>6. PinsNext /\ UNCHANGED service => UNCHANGED fur
  BY DEF service, client
<1> QED BY <1>3, <1>4, <1>5, <1>6, Zenon DEF Step

(* A file leaves those that a run has yet to ask for when it is asked for, *)
(* or when the run has ended.                                              *)
LEMMA UnaskedGo ==
  ASSUME TypeOK, Records, Phases, Step, NEW w \in Workers,
         NEW f \in worker[w].unasked
  PROVE  f \in worker'[w].unasked \/ f \in dropped' \/ Requests(f)' # {}
<1> USE TypeParts
<1>1. f \in Files
  BY DEF Records, RunRecord
<1>2. ASSUME NEW g \in Requests(f), pin'[g].status # "none"
      PROVE  Requests(f)' # {}
  BY <1>2 DEF Requests
<1>3. ASSUME ~ \E v \in Workers : Run(v)
      PROVE  worker'[w] = worker[w]
  BY <1>3, RunsAlone
<1>4. ASSUME NEW v \in Workers, Run(v), v # w
      PROVE  worker'[w] = worker[w]
  BY <1>4, RunAfter DEF Others
<1>5. ASSUME Run(w), f \notin worker'[w].unasked
      PROVE  f \in dropped' \/ Requests(f)' # {}
  <2>1. worker[w].pc = "moving"
    BY DEF Phases
  <2>2. ~ (\/ \E m \in msgs : Start(w, m)
           \/ Empty(w) \/ Validate(w) \/ Reject(w) \/ Finish(w) \/ Count(w))
    BY <2>1 DEF Start, Empty, Validate, Reject, Finish, Count
  <2>3. CASE Ended(w)
    BY <2>3 DEF Ended
  <2>4. CASE Requests(f) # {}
    <3>1. PICK g \in Requests(f) : TRUE
      BY <2>4
    <3>2. g \in Files /\ pin[g].status # "none"
      BY DEF Requests
    <3> QED BY <1>2, <3>2, RequestsStay
  <2>5. CASE AskNew(w, f)
    <3>1. pin' = [pin EXCEPT ![f] = [status |-> "PENDING", runs |-> 0]]
      BY <2>5 DEF AskNew, Request
    <3>2. pin'[f].status # "none"
      BY <1>1, <3>1, RowsParts
    <3> QED BY <1>1, <3>2 DEF Requests
  <2>6. /\ \A g \in Files : AskNew(w, g) /\ worker'[w].unasked = worker[w].unasked \ {g}
                              => AskNew(w, f)
        /\ \A g \in Files : Requests(g) # {} /\ worker'[w].unasked = worker[w].unasked \ {g}
                              => Requests(f) # {}
    BY <1>5
  <2> QED
    BY <1>5, <2>2, <2>3, <2>4, <2>5, <2>6, RunAfter DEF SameDone
<1> QED BY <1>3, <1>4, <1>5

LEMMA DroppedGrow ==
  ASSUME Step
  PROVE  dropped \subseteq dropped' /\ uncounted \subseteq uncounted'
<1>1. ASSUME NEW w \in Workers, Run(w)
      PROVE  dropped \subseteq dropped' /\ uncounted \subseteq uncounted'
  <2>1. CASE Ended(w)
    BY <2>1 DEF Ended
  <2>2. CASE ~ Ended(w)
    <3>1. UNCHANGED <<dropped, uncounted>>
      BY <1>1, <2>2, Zenon DEF Run, Start, Empty, Validate, Reject, TakeBatch, Count,
         Finish, RunFails, ValidateThrows, RunDies, MoveOne, Move, MoveMissing,
         MoveFails, Complete, Ask, AskNew, runs
    <3> QED BY <3>1
  <2> QED BY <2>1, <2>2
<1> QED BY <1>1, RunsAlone

LEMMA PinnedStep ==
  ASSUME TypeOK, Records, Phases, CompletedPinned, [Next]_vars
  PROVE  CompletedPinned'
<1>1. CASE UNCHANGED vars
  BY <1>1 DEF vars, pins, client, runs, CompletedPinned, Completed, Unasked, Requests
<1>2. CASE Next
  <2>0. Step
    BY <1>2 DEF Next
  <2> SUFFICES ASSUME NEW f \in Files, fur'[f] = "COMPLETED", f \notin dropped',
                      \A w \in Workers : f \notin worker'[w].unasked
               PROVE  Requests(f)' # {}
    BY DEF CompletedPinned, Completed, Unasked
  <2>1. fur[f] = "COMPLETED"
    <3> SUFFICES ASSUME fur[f] # "COMPLETED"
                 PROVE  FALSE
      OBVIOUS
    <3>1. PICK w \in Workers : Complete(w, f)
      BY <2>0, CompletedBy
    <3>2. Run(w)
      BY <3>1 DEF Run, MoveOne
    <3>3. worker[w] \in RunRecord /\ RunFits(worker[w]) /\ f \in worker[w].moved
      BY <3>1, TypeParts DEF Records, Complete
    <3>4. PICK failed \in BOOLEAN :
            worker' = [worker EXCEPT ![w] = CompletedOne(worker[w], f, failed)]
      BY <3>1, RunEffects
    <3>5. /\ CompletedOne(worker[w], f, failed) \in RunRecord
          /\ f \in CompletedOne(worker[w], f, failed).unasked
      BY <3>3, CompletedOneIs
    <3>6. f \in worker'[w].unasked
      BY <3>4, <3>5, Updated
    <3> QED BY <3>6
  <2>2. f \notin dropped
    BY <2>0, DroppedGrow
  <2>3. CASE \E w \in Workers : f \in worker[w].unasked
    BY <2>0, <2>3, UnaskedGo
  <2>4. CASE \A w \in Workers : f \notin worker[w].unasked
    <3>1. Requests(f) # {}
      BY <2>1, <2>2, <2>4 DEF CompletedPinned, Completed, Unasked
    <3>2. PICK g \in Requests(f) : TRUE
      BY <3>1
    <3>3. g \in Files /\ Cid[g] = Cid[f] /\ pin[g].status # "none"
      BY DEF Requests
    <3> QED BY <2>0, <3>3, RequestsStay DEF Requests
  <2> QED BY <2>3, <2>4
<1> QED BY <1>1, <1>2

-----------------------------------------------------------------------------
(* As long as no session was worked on twice at a time. *)

LEMMA HistoryGrows ==
  ASSUME Step
  PROVE  again \subseteq again' /\ (lost => lost')
<1>1. ASSUME NEW f \in Files, AskUrl(f) \/ CreateFur(f) \/ Put(f) \/ Remove(f)
      PROVE  again \subseteq again' /\ (lost => lost')
  <2>1. UNCHANGED again
    BY <1>1, Zenon DEF AskUrl, CreateFur, Put, Remove, DeleteRead, MarkDeleted,
                       DeleteCount, RestoreRead, Restore
  <2>2. lost => lost'
    BY <1>1, Zenon DEF AskUrl, CreateFur, Put, Remove, DeleteRead, MarkDeleted,
                       DeleteCount, RestoreRead, Restore, SaveBucket, size
  <2> QED BY <2>1, <2>2
<1>2. ASSUME NEW e \in Enders, Close(e)
      PROVE  again \subseteq again' /\ (lost => lost')
  <2>1. UNCHANGED lost
    BY <1>2, Zenon DEF Close, End, MarkEnded, Process, ProcessFails, SendFirst, size
  <2>2. again' \in {again, again \cup {ender[e].session}}
    BY <1>2 DEF Close, End, MarkEnded, Process, ProcessFails, SendFirst
  <2> QED BY <2>1, <2>2
<1>3. ASSUME NEW w \in Workers, Run(w)
      PROVE  again \subseteq again' /\ (lost => lost')
  <2>1. again \subseteq again'
    <3>1. UNCHANGED again \/ \E s : again' = again \cup {s}
      BY <1>3, Zenon DEF Run, Start, Empty, Validate, Reject, TakeBatch, Count,
         Finish, RunFails, ValidateThrows, RunDies, Ended, MoveOne, Move, MoveMissing,
         MoveFails, Complete, Ask, AskNew
    <3> QED BY <3>1
  <2>2. lost => lost'
    BY <1>3, Zenon DEF Run, Start, Empty, Validate, Reject, TakeBatch, Count,
         Finish, RunFails, ValidateThrows, RunDies, Ended, MoveOne, Move, MoveMissing,
         MoveFails, Complete, Ask, AskNew, SaveBucket, size
  <2> QED BY <2>1, <2>2
<1>4. ASSUME PinsNext, UNCHANGED service
      PROVE  again \subseteq again' /\ (lost => lost')
  BY <1>4 DEF service, size
<1> QED BY <1>1, <1>2, <1>3, <1>4, Zenon DEF Step

(* A session that is worked on is not quiet, and a file of it is not of    *)
(* another one.                                                            *)
LEMMA InHand ==
  ASSUME TypeOK, Records, Phases, NEW w \in Workers,
         NEW f \in worker[w].left \cup worker[w].moved \cup worker[w].done
  PROVE  /\ Active(w) /\ f \in Of(worker[w].msg.session)
         /\ worker[w].msg.session \in Sessions
<1>1. RunFits(worker[w]) /\ worker[w] \in RunRecord
  BY TypeParts DEF Records
<1>2. worker[w].msg.session \in Sessions
  BY <1>1 DEF RunRecord, Message
<1>3. Active(w)
  BY DEF Active, Phases
<1> QED BY <1>1, <1>2, <1>3 DEF RunFits

(* A completed request stays completed. *)
LEMMA CompletedStay ==
  ASSUME TypeOK, Records, Early, Fresh, Step, again' = {},
         NEW f \in Files, fur[f] = "COMPLETED"
  PROVE  fur'[f] = "COMPLETED"
<1> USE TypeParts, RowsParts
<1>1. fur \in [Files -> FurStatus]
  OBVIOUS
<1>2. ASSUME NEW s, Of(s) \cap Completed = {}
      PROVE  ProcessedFurs(s)[f] = "COMPLETED"
  BY <1>1, <1>2 DEF ProcessedFurs, Registered, Completed
<1>3. ASSUME NEW g \in Files, AskUrl(g) \/ CreateFur(g) \/ Put(g) \/ Remove(g)
      PROVE  fur'[f] = "COMPLETED"
  <2>1. \/ fur[g] = "none" /\ fur' = [fur EXCEPT ![g] = "asked"]
        \/ fur[g] = "asked" /\ fur' = [fur EXCEPT ![g] = "SIGNED"]
        \/ UNCHANGED fur
    BY <1>3, Zenon DEF AskUrl, CreateFur, Put, Remove, DeleteRead, MarkDeleted,
                       DeleteCount, RestoreRead, Restore, client
  <2> QED BY <1>1, <2>1
<1>4. ASSUME NEW e \in Enders, Close(e)
      PROVE  fur'[f] = "COMPLETED"
  <2>1. CASE Process(e)
    <3>1. Ending(e, ender[e].session) /\ ender[e].session \in Sessions
      BY <2>1 DEF Process, Ending, CallsOK
    <3>2. Of(ender[e].session) \cap Completed = {}
      BY <3>1 DEF Early, Quiet
    <3>3. fur' \in {fur, ProcessedFurs(ender[e].session)}
      BY <2>1 DEF Process
    <3> QED BY <1>2, <3>2, <3>3
  <2>2. CASE ~ Process(e)
    <3>1. UNCHANGED fur
      BY <1>4, <2>2, Zenon DEF Close, End, MarkEnded, ProcessFails, SendFirst, client
    <3> QED BY <3>1
  <2> QED BY <2>1, <2>2
<1>5. ASSUME NEW w \in Workers, Run(w)
      PROVE  fur'[f] = "COMPLETED"
  <2>1. CASE \E m \in msgs : Start(w, m)
    <3>1. PICK m \in msgs : Start(w, m)
      BY <2>1
    <3>2. m.process => Of(m.session) \cap Completed = {}
      BY <3>1 DEF Start
    <3>3. fur' = IF m.process THEN ProcessedFurs(m.session) ELSE fur
      BY <3>1, Zenon DEF Start
    <3> QED BY <1>2, <3>2, <3>3
  <2>2. CASE ~ \E m \in msgs : Start(w, m)
    <3>1. \/ UNCHANGED fur
          \/ \E g \in Files : \/ /\ g \in worker[w].left
                                 /\ \/ fur' = [fur EXCEPT ![g] = "MISSING"]
                                    \/ fur' = [fur EXCEPT ![g] = "ERROR"]
                              \/ fur' = [fur EXCEPT ![g] = "COMPLETED"]
      BY <1>5, <2>2 DEF Run, Empty, Validate, Reject, TakeBatch, Count,
         Finish, RunFails, ValidateThrows, RunDies, Ended, MoveOne, Move, MoveMissing,
         MoveFails, Complete, Ask, AskNew, client
    <3>2. f \notin worker[w].left
      BY DEF Fresh, Completed
    <3> QED BY <1>1, <3>1, <3>2
  <2> QED BY <2>1, <2>2
<1>6. PinsNext /\ UNCHANGED service => UNCHANGED fur
  BY DEF service, client
<1> QED BY <1>3, <1>4, <1>5, <1>6 DEF Step

LEMMA ApartStep ==
  ASSUME TypeOK, Records, Phases, Apart, Step, again' = {}
  PROVE  Apart'
<1>1. CASE ~ \E w \in Workers : Run(w)
  BY <1>1, RunsAlone DEF Apart, Active
<1>2. ASSUME NEW w \in Workers, Run(w)
      PROVE  Apart'
  <2>1. Others(w)
    BY <1>2, RunAfter
  <2>2. CASE \E m \in msgs : Start(w, m) /\ worker'[w].msg = m
    <3>1. PICK m \in msgs : Start(w, m) /\ worker'[w].msg = m
      BY <2>2
    <3>2. ~ Busy(m.session)
      BY <3>1 DEF Start
    <3>3. \A v \in Workers : Active(v) => worker[v].msg.session # m.session
      BY <3>2 DEF Busy, Active
    <3> QED BY <2>1, <3>1, <3>3 DEF Others, Apart, Active
  <2>3. CASE worker'[w].pc # "idle" =>
               worker[w].pc # "idle" /\ worker'[w].msg = worker[w].msg
    BY <2>1, <2>3 DEF Others, Apart, Active
  <2>4. /\ NoRun.pc = "idle"
        /\ TakeBatch(w) \/ Count(w) => worker[w].pc # "idle"
    BY Constants DEF TakeBatch, Count, Moved
  <2> QED BY <1>2, <2>2, <2>3, <2>4, RunAfter DEF Same
<1> QED BY <1>1, <1>2

LEMMA FreshStep ==
  ASSUME TypeOK, Records, Phases, Apart, Early, Fresh, Step, again' = {}
  PROVE  Fresh'
<1>2. ASSUME NEW v \in Workers
      PROVE  worker'[v].left \cap worker'[v].moved = {}
  <2>1. CASE ~ \E w \in Workers : Run(w)
    BY <2>1, RunsAlone DEF Fresh
  <2>2. ASSUME NEW w \in Workers, Run(w), w # v
        PROVE  worker'[v].left \cap worker'[v].moved = {}
    BY <2>2, RunAfter DEF Others, Fresh
  <2>3. CASE Run(v)
    <3>1. worker[v].left \cap worker[v].moved = {} /\ NoRun.left = {}
      BY Constants DEF Fresh
    <3> QED BY <2>3, <3>1, RunAfter DEF SameHand
  <2> QED BY <2>1, <2>2, <2>3
<1>3. ASSUME NEW v \in Workers, NEW f \in worker'[v].left \cup worker'[v].moved,
             fur'[f] = "COMPLETED", f \in Files
      PROVE  FALSE
  <2>1. \/ f \in worker[v].left \cup worker[v].moved
        \/ fur'[f] \notin Done
    <3>1. CASE ~ \E w \in Workers : Run(w)
      BY <3>1, RunsAlone
    <3>2. ASSUME NEW w \in Workers, Run(w), w # v
          PROVE  f \in worker[v].left \cup worker[v].moved
      BY <3>2, RunAfter DEF Others
    <3>3. CASE Run(v)
      <4>1. NoRun.left = {} /\ NoRun.moved = {}
        BY Constants
      <4>2. \A g \in Files : Move(v, g) => g \in worker[v].left
        BY DEF Move
      <4> QED BY <3>3, <4>1, <4>2, RunAfter DEF SameHand
    <3> QED BY <3>1, <3>2, <3>3
  <2>2. f \in worker[v].left \cup worker[v].moved
    BY <1>3, <2>1 DEF Done
  <2>3. fur[f] # "COMPLETED"
    BY <1>3, <2>2 DEF Fresh, Completed
  <2>4. PICK w \in Workers : Complete(w, f)
    BY <1>3, <2>3, CompletedBy
  <2>5. Run(w) /\ f \in worker[w].moved
    BY <1>3, <2>4 DEF Run, MoveOne, Complete
  <2>6. w = v
    BY <2>2, <2>5, InHand DEF Apart, Of
  <2>7. f \notin worker[v].left
    BY <2>5, <2>6 DEF Fresh
  <2>8. worker[w] \in RunRecord /\ RunFits(worker[w])
    BY TypeParts DEF Records
  <2>9. PICK failed \in BOOLEAN :
          worker' = [worker EXCEPT ![w] = CompletedOne(worker[w], f, failed)]
    BY <1>3, <2>4, RunEffects
  <2>10. /\ CompletedOne(worker[w], f, failed) \in RunRecord
         /\ CompletedOne(worker[w], f, failed).left = worker[w].left
         /\ CompletedOne(worker[w], f, failed).moved = worker[w].moved \ {f}
    BY <2>5, <2>8, CompletedOneIs
  <2>11. worker'[w] = CompletedOne(worker[w], f, failed)
    BY <2>9, <2>10, Updated
  <2> QED BY <1>3, <2>6, <2>7, <2>10, <2>11
<1> QED BY <1>2, <1>3 DEF Fresh, Completed

(* What a completion does to what is done. *)
LEMMA CompleteOne ==
  ASSUME TypeOK, Records, NEW w \in Workers, NEW f \in Files, Complete(w, f)
  PROVE  /\ Run(w) /\ f \in worker[w].moved /\ fur'[f] = "COMPLETED"
         /\ worker'[w].done = worker[w].done \cup {f}
         /\ Others(w) /\ UNCHANGED uncounted
<1>1. Run(w) /\ f \in worker[w].moved /\ UNCHANGED uncounted
  BY DEF Run, MoveOne, Complete
<1>2. fur'[f] = "COMPLETED"
  BY TypeParts, RowsParts DEF Complete
<1>3. worker[w] \in RunRecord /\ RunFits(worker[w])
  BY TypeParts DEF Records
<1>4. PICK failed \in BOOLEAN :
        worker' = [worker EXCEPT ![w] = CompletedOne(worker[w], f, failed)]
  BY RunEffects
<1>5. /\ CompletedOne(worker[w], f, failed) \in RunRecord
      /\ CompletedOne(worker[w], f, failed).done = worker[w].done \cup {f}
  BY <1>1, <1>3, CompletedOneIs
<1>6. worker'[w] = CompletedOne(worker[w], f, failed)
  BY <1>4, <1>5, Updated
<1>7. Others(w)
  BY <1>1, RunAfter
<1> QED BY <1>1, <1>2, <1>5, <1>6, <1>7

(* When a run is ended before it is through, what it has done is left      *)
(* uncounted.                                                              *)
LEMMA EndedRun ==
  ASSUME TypeOK, Records, NEW w \in Workers, Run(w)
  PROVE  /\ Others(w)
         /\ Ended(w) => /\ uncounted' = uncounted \cup worker[w].done
                        /\ worker'[w] = NoRun
         /\ ~ Ended(w) => UNCHANGED uncounted
<1>1. Others(w)
  BY RunAfter
<1>2. CASE Ended(w)
  <2>1. uncounted' = uncounted \cup worker[w].done
    BY <1>2 DEF Ended
  <2>2. worker' = [worker EXCEPT ![w] = NoRun]
    BY <1>2, RunEffects
  <2>3. worker'[w] = NoRun
    BY <2>2, Updated, Constants
  <2> QED BY <1>1, <1>2, <2>1, <2>3
<1>3. CASE ~ Ended(w)
  <2>1. UNCHANGED uncounted
    BY <1>3, Zenon DEF Run, Start, Empty, Validate, Reject, TakeBatch, Count,
       Finish, RunFails, ValidateThrows, RunDies, MoveOne, Move, MoveMissing,
       MoveFails, Complete, Ask, AskNew, runs
  <2> QED BY <1>1, <1>3, <2>1
<1> QED BY <1>2, <1>3

LEMMA UncountedFrom ==
  ASSUME TypeOK, Records, Step, NEW f \in uncounted', f \notin uncounted
  PROVE  \E w \in Workers : f \in worker[w].done /\ worker'[w] = NoRun
BY EndedRun, RunsAlone

(* Where a file that a run has done is after a step. *)
LEMMA DoneGoes ==
  ASSUME TypeOK, Records, Phases, Step, NEW v \in Workers, NEW f \in Files
  PROVE  /\ f \in worker'[v].done => f \in worker[v].done \/ Complete(v, f)
         /\ f \in worker[v].done =>
              f \in worker'[v].done \/ f \in uncounted' \/ Count(v)
<1>1. CASE ~ \E w \in Workers : Run(w)
  BY <1>1, RunsAlone
<1>3. ASSUME NEW w \in Workers, Run(w), w # v
      PROVE  worker'[v] = worker[v]
  BY <1>3, EndedRun DEF Others
<1>4. CASE Run(v)
  <2>1. f \in worker'[v].done => f \in worker[v].done \/ Complete(v, f)
    <3>1. NoRun.done = {}
      BY Constants
    <3> QED BY <1>4, <3>1, RunAfter DEF SameDone
  <2>2. ASSUME f \in worker[v].done, ~ Ended(v), ~ Count(v)
        PROVE  f \in worker'[v].done
    <3>1. worker[v].pc = "moving"
      BY <2>2 DEF Phases
    <3>2. ~ (\/ \E m \in msgs : Start(v, m)
             \/ Empty(v) \/ Validate(v) \/ Reject(v) \/ Finish(v))
      BY <3>1 DEF Start, Empty, Validate, Reject, Finish
    <3> QED BY <1>4, <2>2, <3>2, RunAfter DEF SameDone
  <2>3. Ended(v) /\ f \in worker[v].done => f \in uncounted'
    BY <1>4, EndedRun
  <2> QED BY <2>1, <2>2, <2>3
<1> QED BY <1>1, <1>3, <1>4

LEMMA CountedStep ==
  ASSUME TypeOK, Records, Phases, Apart, Early, Fresh, Counted, Step, again' = {}
  PROVE  Counted'
<1>1. /\ uncounted' \subseteq Files /\ uncounted \subseteq Files
      /\ \A w \in Workers : worker'[w].done \subseteq Files /\ worker[w].done \subseteq Files
  <2>2. Records'
    BY RecordsStep
  <2>3. uncounted \subseteq Files
    BY TypeParts DEF SizeOK
  <2>4. uncounted' \subseteq Files
    <3>1. ASSUME NEW w \in Workers, Run(w)
          PROVE  UNCHANGED uncounted \/ uncounted' = uncounted \cup worker[w].done
      BY <3>1, Zenon DEF Run, Start, Empty, Validate, Reject, TakeBatch, Count,
         Finish, RunFails, ValidateThrows, RunDies, Ended, MoveOne, Move, MoveMissing,
         MoveFails, Complete, Ask, AskNew, runs
    <3>2. \A w \in Workers : worker[w].done \subseteq Files
      BY DEF Records, RunRecord
    <3> QED BY <2>3, <3>1, <3>2, RunsAlone
  <2> QED BY <2>2, <2>3, <2>4 DEF Records, RunRecord
<1>2. \A f \in Files : fur[f] = "COMPLETED" => fur'[f] = "COMPLETED"
  BY CompletedStay
<1>3. ASSUME NEW f \in uncounted'
      PROVE  fur'[f] = "COMPLETED"
  <2>1. f \in uncounted \/ \E w \in Workers : f \in worker[w].done
    BY <1>1, <1>3, UncountedFrom
  <2>2. fur[f] = "COMPLETED"
    BY <2>1 DEF Counted, Completed
  <2> QED BY <1>1, <1>2, <1>3, <2>2
<1>4. ASSUME NEW v \in Workers, NEW f \in worker'[v].done
      PROVE  fur'[f] = "COMPLETED" /\ f \notin uncounted'
  <2>0. f \in Files
    BY <1>1
  <2>1. CASE Complete(v, f)
    <3>1. f \in worker[v].moved /\ fur'[f] = "COMPLETED" /\ UNCHANGED uncounted
      BY <2>0, <2>1, CompleteOne
    <3>2. fur[f] # "COMPLETED"
      BY <2>0, <3>1 DEF Fresh, Completed
    <3> QED BY <3>1, <3>2 DEF Counted, Completed
  <2>2. CASE f \in worker[v].done
    <3>1. fur'[f] = "COMPLETED"
      BY <1>2, <2>0, <2>2 DEF Counted, Completed
    <3>2. ASSUME NEW w \in Workers, f \in worker[w].done, worker'[w] = NoRun
          PROVE  FALSE
      <4>1. w # v
        BY <3>2, Constants
      <4> QED BY <2>2, <3>2, <4>1, InHand DEF Apart, Of
    <3>3. f \notin uncounted
      BY <2>2 DEF Counted
    <3> QED BY <2>0, <3>1, <3>2, <3>3, UncountedFrom
  <2> QED BY <2>0, <2>1, <2>2, DoneGoes
<1> QED BY <1>1, <1>3, <1>4 DEF Counted, Completed

(* The sessions of messages and of calls. *)
LEMMA MessagesFrom ==
  ASSUME TypeOK, Records, Step, NEW m \in msgs'
  PROVE  \/ \E n \in msgs : n.session = m.session
         \/ \E w \in Workers : Active(w) /\ worker[w].msg.session = m.session
         \/ \E e \in Enders : SendFirst(e) /\ ender[e].session = m.session
<1> USE TypeParts
<1>1. ASSUME NEW f \in Files, AskUrl(f) \/ CreateFur(f) \/ Put(f) \/ Remove(f)
      PROVE  UNCHANGED msgs
  BY <1>1, Zenon DEF AskUrl, CreateFur, Put, Remove, DeleteRead, MarkDeleted,
                     DeleteCount, RestoreRead, Restore
<1>2. ASSUME NEW e \in Enders, Close(e), ~ SendFirst(e)
      PROVE  UNCHANGED msgs
  BY <1>2, Zenon DEF Close, End, MarkEnded, Process, ProcessFails
<1>3. ASSUME NEW e \in Enders, SendFirst(e)
      PROVE  m \in msgs \/ m.session = ender[e].session
  <2>1. msgs' \in {msgs, msgs \cup {First(ender[e].session)}}
    BY <1>3 DEF SendFirst
  <2>2. ender[e].session \in Sessions
    BY DEF CallsOK
  <2> QED BY <2>1, <2>2, Constants
<1>4. ASSUME NEW w \in Workers, Run(w)
      PROVE  m \in msgs \/ (Active(w) /\ worker[w].msg.session = m.session)
  <2>1. worker[w].msg.session \in Sessions
    BY DEF Records, RunRecord, Message
  <2>2. CASE Validate(w) \/ Finish(w)
    <3>1. msgs' \subseteq msgs \cup {Later(worker[w].msg.session)}
      BY <2>2 DEF Validate, Finish, Send
    <3>2. Active(w)
      BY <2>2 DEF Validate, Finish, Active
    <3> QED BY <2>1, <3>1, <3>2, Constants
  <2>3. CASE ~ (Validate(w) \/ Finish(w))
    <3>1. msgs' \in {msgs, msgs \ {worker[w].msg}}
      BY <1>4, <2>3 DEF Run, Start, Empty, Reject, TakeBatch, Count, RunFails,
         ValidateThrows, RunDies, Ended, MoveOne, Move, MoveMissing, MoveFails,
         Complete, Ask, AskNew
    <3> QED BY <3>1
  <2> QED BY <2>2, <2>3
<1> QED BY <1>1, <1>2, <1>3, <1>4 DEF Step, service

LEMMA EndingFrom ==
  ASSUME TypeOK, Step
  PROVE  /\ \A e \in Enders, s \in Sessions :
              Ending(e, s)' => \/ Ending(e, s) /\ ~ SendFirst(e)
                               \/ MarkEnded(e) /\ ender[e].session = s
         /\ \A s \in Sessions : session'[s] = "CREATED" => session[s] = "CREATED"
         /\ \A e \in Enders : MarkEnded(e) =>
              /\ session'[ender[e].session] # "CREATED"
              /\ \A d \in Enders : d # e => ender'[d] = ender[d]
<1> USE TypeParts
<1>1. ASSUME NEW f \in Files, AskUrl(f) \/ CreateFur(f) \/ Put(f) \/ Remove(f)
      PROVE  UNCHANGED <<session, ender>>
  BY <1>1, Zenon DEF AskUrl, CreateFur, Put, Remove, DeleteRead, MarkDeleted,
                     DeleteCount, RestoreRead, Restore, ended
<1>2. ASSUME NEW w \in Workers, Run(w)
      PROVE  /\ UNCHANGED ender
             /\ UNCHANGED session
                \/ \E status \in {"FINISHED", "VALIDATION_PASSED", "VALIDATION_FAILED"} :
                     Reached(w, status)
  BY <1>2 DEF Run, Start, Empty, Validate, Reject, TakeBatch, Count, Finish,
         RunFails, ValidateThrows, RunDies, Ended, MoveOne, Move, MoveMissing,
         MoveFails, Complete, Ask, AskNew, ended
<1>3. ASSUME NEW e \in Enders, Close(e)
      PROVE  /\ \A d \in Enders : d # e => ender'[d] = ender[d]
             /\ ~ MarkEnded(e) => UNCHANGED session
             /\ \/ ender'[e].pc \in {"read", "done"}
                \/ MarkEnded(e) /\ ender'[e].session = ender[e].session
                \/ /\ ender'[e].session = ender[e].session
                   /\ ender[e].pc = "marked" /\ ender'[e].pc = "processed"
  <2> ender[e].session \in Sessions
    BY DEF CallsOK
  <2>1. CASE \E s \in Sessions : End(e, s)
    BY <2>1 DEF End, CallsOK, ended
  <2>2. CASE MarkEnded(e)
    BY <2>2 DEF MarkEnded, Goto, CallsOK
  <2>3. CASE Process(e)
    BY <2>3 DEF Process, Goto, CallsOK
  <2>4. CASE ProcessFails(e) \/ SendFirst(e)
    BY <2>4 DEF ProcessFails, SendFirst, Goto, CallsOK
  <2> QED BY <1>3, <2>1, <2>2, <2>3, <2>4 DEF Close
<1>4. ASSUME NEW e \in Enders, MarkEnded(e)
      PROVE  /\ Close(e)
             /\ session' = [session EXCEPT ![ender[e].session] = "IN_PROGRESS"]
             /\ ender[e].session \in Sessions
  BY <1>4 DEF MarkEnded, Close, CallsOK
<1>5. session \in [Sessions ->
         {"CREATED", "IN_PROGRESS", "VALIDATION_PASSED", "VALIDATION_FAILED", "FINISHED"}]
  BY DEF RowsOK
<1>6. \A e \in Enders : SendFirst(e) => ender'[e].pc = "done"
  BY DEF SendFirst, Goto, CallsOK
<1>7. ASSUME NEW s \in Sessions, session'[s] = "CREATED"
      PROVE  session[s] = "CREATED"
  <2>1. ASSUME NEW e \in Enders, Close(e)
        PROVE  session[s] = "CREATED"
    <3>1. CASE MarkEnded(e)
      BY <1>4, <1>5, <1>7, <3>1
    <3>2. CASE ~ MarkEnded(e)
      BY <1>3, <1>7, <2>1, <3>2
    <3> QED BY <3>1, <3>2
  <2>2. ASSUME NEW w \in Workers, Run(w)
        PROVE  session[s] = "CREATED"
    <3>1. CASE \E status \in {"FINISHED", "VALIDATION_PASSED",
                              "VALIDATION_FAILED"} : Reached(w, status)
      BY <1>5, <1>7, <3>1 DEF Reached
    <3> QED BY <1>2, <1>7, <2>2, <3>1
  <2> QED BY <1>1, <1>7, <2>1, <2>2 DEF Step, service
<1>8. ASSUME NEW e \in Enders, NEW s \in Sessions, Ending(e, s)'
      PROVE  \/ Ending(e, s) /\ ~ SendFirst(e)
             \/ MarkEnded(e) /\ ender[e].session = s
  <2>1. CASE ender'[e] = ender[e]
    BY <1>6, <1>8, <2>1 DEF Ending
  <2>2. CASE ender'[e] # ender[e]
    <3>1. Close(e)
      BY <1>1, <1>2, <1>3, <2>2 DEF Step, service, ended
    <3> QED BY <1>3, <1>6, <1>8, <3>1 DEF Ending
  <2> QED BY <2>1, <2>2
<1>9. ASSUME NEW e \in Enders, MarkEnded(e)
      PROVE  /\ session'[ender[e].session] # "CREATED"
             /\ \A d \in Enders : d # e => ender'[d] = ender[d]
  BY <1>3, <1>4, <1>5, <1>9
<1> QED BY <1>7, <1>8, <1>9

LEMMA QuietStays ==
  ASSUME TypeOK, Records, Phases, Step, NEW s \in Sessions, Quiet(s)
  PROVE  Quiet(s)' \/ \E e \in Enders : SendFirst(e) /\ ender[e].session = s
<1> SUFFICES ASSUME ~ \E e \in Enders : SendFirst(e) /\ ender[e].session = s
             PROVE  Quiet(s)'
  OBVIOUS
<1>1. \A w \in Workers : Active(w) => worker[w].msg.session # s
  BY DEF Quiet, Busy, Active
<1>2. \A m \in msgs' : m.session # s
  BY <1>1, MessagesFrom DEF Quiet
<1>3. ASSUME NEW v \in Workers, worker'[v].pc # "idle", worker'[v].msg.session = s
      PROVE  FALSE
  <2>1. CASE worker'[v] = worker[v]
    BY <1>1, <1>3, <2>1 DEF Active
  <2>2. CASE worker'[v] # worker[v]
    <3>1. Run(v)
      BY <2>2, RunsAlone, RunAfter DEF Others
    <3>2. \/ \E m \in msgs : worker'[v].msg = m
          \/ worker'[v] = NoRun
          \/ worker[v].pc # "idle" /\ worker'[v].msg = worker[v].msg
      <4>1. TakeBatch(v) \/ Count(v) => worker[v].pc # "idle"
        BY DEF TakeBatch, Count, Moved
      <4> QED BY <1>3, <3>1, <4>1, RunAfter DEF Same
    <3> QED BY <1>1, <1>3, <3>2, Constants DEF Quiet, Active
  <2> QED BY <2>1, <2>2
<1>4. ASSUME NEW f \in Of(s), fur'[f] = "COMPLETED"
      PROVE  FALSE
  <2>1. f \in Files /\ fur[f] # "COMPLETED"
    BY DEF Quiet, Of, Completed
  <2>2. PICK w \in Workers : Complete(w, f)
    BY <1>4, <2>1, CompletedBy
  <2>3. f \in worker[w].moved
    BY <2>2 DEF Complete
  <2> QED BY <1>1, <2>3, InHand DEF Of
<1> QED BY <1>2, <1>3, <1>4 DEF Quiet, Busy, Of, Completed

LEMMA EarlyStep ==
  ASSUME TypeOK, Records, Phases, Early, Step, again = {}, again' = {}
  PROVE  Early'
<1>1. ASSUME NEW e \in Enders, MarkEnded(e)
      PROVE  ender[e].session \in Sessions /\ session[ender[e].session] = "CREATED"
  <2>1. ender[e].session \in Sessions
    BY TypeParts DEF CallsOK
  <2> QED BY <1>1, <2>1 DEF MarkEnded
<1>2. \A e \in Enders : SendFirst(e) =>
        ender[e].session \in Sessions /\ Ending(e, ender[e].session)
  BY TypeParts DEF CallsOK, SendFirst, Ending
<1>3. ASSUME NEW s \in Sessions, session'[s] = "CREATED"
      PROVE  Quiet(s)' /\ \A e \in Enders : ~ Ending(e, s)'
  <2>1. Quiet(s) /\ \A e \in Enders : ~ Ending(e, s)
    BY <1>3, EndingFrom DEF Early
  <2>2. Quiet(s)'
    BY <1>2, <2>1, QuietStays
  <2>3. \A e \in Enders : ~ Ending(e, s)'
    BY <1>3, <2>1, EndingFrom
  <2> QED BY <2>2, <2>3
<1>4. ASSUME NEW s \in Sessions, NEW e \in Enders, Ending(e, s)'
      PROVE  Quiet(s)' /\ \A d \in Enders : Ending(d, s)' => d = e
  <2>1. CASE Ending(e, s) /\ ~ SendFirst(e)
    <3>1. Quiet(s) /\ \A d \in Enders : Ending(d, s) => d = e
      BY <2>1 DEF Early
    <3>2. Quiet(s)'
      BY <1>2, <2>1, <3>1, QuietStays
    <3>3. session[s] # "CREATED"
      BY <2>1 DEF Early
    <3>4. \A d \in Enders : Ending(d, s)' => Ending(d, s)
      BY <1>1, <3>3, EndingFrom
    <3> QED BY <3>1, <3>2, <3>4
  <2>2. CASE MarkEnded(e) /\ ender[e].session = s
    <3>1. Quiet(s) /\ \A d \in Enders : ~ Ending(d, s)
      BY <1>1, <2>2 DEF Early
    <3>2. Quiet(s)'
      BY <1>2, <3>1, QuietStays
    <3>3. ASSUME NEW d \in Enders, d # e
          PROVE  ~ Ending(d, s)'
      BY <2>2, <3>1, <3>3, EndingFrom DEF Ending
    <3> QED BY <3>2, <3>3
  <2> QED BY <1>4, <2>1, <2>2, EndingFrom
<1> QED BY <1>3, <1>4 DEF Early

LEMMA OneByOneStep ==
  ASSUME TypeOK, Records, Phases, OneByOne, [Next]_vars
  PROVE  OneByOne'
<1>1. CASE UNCHANGED vars
  BY <1>1 DEF vars, client, runs, ended, OneByOne, Apart, Early, Fresh, Counted,
              Active, Quiet, Busy, Ending, Completed, Of
<1>2. CASE Next
  <2>1. Step
    BY <1>2 DEF Next
  <2> SUFFICES ASSUME again' = {}
               PROVE  Apart' /\ Early' /\ Fresh' /\ Counted'
    BY DEF OneByOne
  <2>2. again = {}
    BY <2>1, HistoryGrows
  <2>3. Apart /\ Early /\ Fresh /\ Counted
    BY <2>2 DEF OneByOne
  <2> QED BY <2>1, <2>2, <2>3, ApartStep, EarlyStep, FreshStep, CountedStep
<1> QED BY <1>1, <1>2


-----------------------------------------------------------------------------
(* The size of the bucket *)

LEMMA Saved ==
  ASSUME NEW base, NEW n, SaveBucket(base, n), ~ lost'
  PROVE  bucket = base /\ bucket' = base + n /\ ~ lost
BY Zenon DEF SaveBucket

LEMMA CountOne ==
  ASSUME TypeOK, Records, NEW w \in Workers, Count(w)
  PROVE  /\ Run(w) /\ Others(w) /\ UNCHANGED <<fur, uncounted, remover>>
         /\ worker[w].pc = "moving" /\ worker'[w].pc = "counted"
         /\ worker'[w].done = {}
         /\ SaveBucket(worker[w].base, Cardinality(worker[w].done))
<1>1. Run(w)
  BY DEF Run
<1>2. Others(w)
  BY <1>1, EndedRun
<1>3. worker[w] \in RunRecord
  BY DEF Records
<1>4. worker'[w].pc = "counted" /\ worker'[w].done = {}
  BY <1>3 DEF Count, Records, RunRecord
<1>5. UNCHANGED <<fur, uncounted, remover>>
  BY DEF Count, client
<1>6. worker[w].pc = "moving"
  BY DEF Count, Moved
<1> QED BY <1>1, <1>2, <1>4, <1>5, <1>6 DEF Count

(* What a run has done and not counted yet is not counted, and a step      *)
(* counts exactly what Count adds.                                         *)
LEMMA SizedStep ==
  ASSUME TypeOK, Records, Phases, Apart, Early, Fresh, Counted, Step, again' = {}
  PROVE  /\ \A w \in Workers : worker[w].done \cap Sized = {}
         /\ \A f \in Files :
              f \in Sized' <=>
                f \in Sized \/ \E w \in Workers : Count(w) /\ f \in worker[w].done
<1>1. \A w \in Workers : worker[w].done \cap Sized = {}
  BY DEF Sized, Uncounted
<1>2. ASSUME NEW f \in Files, f \in Completed
      PROVE  f \in Completed'
  BY <1>2, CompletedStay DEF Completed
<1>3. ASSUME NEW f \in Files, f \in Completed, f \notin uncounted \cup Uncounted
      PROVE  f \notin (uncounted \cup Uncounted)'
  <2>1. f \notin uncounted'
    BY <1>3, UncountedFrom DEF Uncounted
  <2>2. ASSUME NEW v \in Workers, f \in worker'[v].done
        PROVE  FALSE
    <3>1. Complete(v, f)
      BY <1>3, <2>2, DoneGoes DEF Uncounted
    <3>2. f \in worker[v].moved
      BY <3>1 DEF Complete
    <3> QED BY <1>3, <3>2 DEF Fresh
  <2> QED BY <2>1, <2>2 DEF Uncounted
<1>4. ASSUME NEW f \in Files, f \in Sized', f \notin Sized
      PROVE  \E w \in Workers : Count(w) /\ f \in worker[w].done
  <2>1. f \in Completed
    <3>1. SUFFICES ASSUME f \notin Completed PROVE FALSE
      OBVIOUS
    <3>2. PICK w \in Workers : Complete(w, f)
      BY <1>4, <3>1, CompletedBy DEF Sized, Completed
    <3>3. f \in worker'[w].done
      BY <3>2, CompleteOne
    <3> QED BY <1>4, <3>3 DEF Sized, Uncounted
  <2>2. f \notin uncounted
    BY <1>4, DroppedGrow DEF Sized
  <2>3. PICK w \in Workers : f \in worker[w].done
    BY <1>4, <2>1, <2>2 DEF Sized, Uncounted
  <2>4. f \notin worker'[w].done /\ f \notin uncounted'
    BY <1>4 DEF Sized, Uncounted
  <2>5. Count(w)
    BY <2>3, <2>4, DoneGoes
  <2> QED BY <2>3, <2>5
<1>5. ASSUME NEW w \in Workers, Count(w), NEW f \in worker[w].done
      PROVE  f \in Sized'
  <2>1. f \in Completed \ uncounted /\ f \in Files
    BY <1>5 DEF Counted, Completed
  <2>2. f \in Completed' /\ f \notin uncounted'
    BY <1>2, <1>5, <2>1, CountOne
  <2>3. ASSUME NEW v \in Workers, f \in worker'[v].done
        PROVE  FALSE
    <3>1. v # w
      BY <1>5, <2>3, CountOne
    <3>2. f \in worker[v].done
      BY <1>5, <2>3, <3>1, CountOne DEF Others
    <3>3. /\ Active(v) /\ f \in Of(worker[v].msg.session)
          /\ Active(w) /\ f \in Of(worker[w].msg.session)
      BY <1>5, <3>2, InHand
    <3> QED BY <3>1, <3>3 DEF Apart, Of
  <2> QED BY <2>2, <2>3 DEF Sized, Uncounted
<1>6. ASSUME NEW f \in Files, f \in Sized
      PROVE  f \in Sized'
  BY <1>2, <1>3, <1>6 DEF Sized
<1> QED BY <1>1, <1>4, <1>5, <1>6


(* A step that does not count leaves the counted files as they are. *)
LEMMA SizedSame ==
  ASSUME TypeOK, Records, Phases, Apart, Early, Fresh, Counted, Step, again' = {},
         \A w \in Workers : ~ Count(w)
  PROVE  Sized' = Sized
<1>1. Sized \subseteq Files /\ Sized' \subseteq Files
  BY DEF Sized, Completed
<1> QED BY <1>1, SizedStep

LEMMA SizedMore ==
  ASSUME TypeOK, Records, Phases, Apart, Early, Fresh, Counted, Step, again' = {},
         NEW w \in Workers, Count(w)
  PROVE  Sized' = Sized \cup worker[w].done /\ Sized \cap worker[w].done = {}
<1>1. Sized \subseteq Files /\ Sized' \subseteq Files
  BY DEF Sized, Completed
<1>2. worker[w].done \subseteq Files
  BY DEF Records, RunRecord
<1>3. ASSUME NEW v \in Workers, Count(v)
      PROVE  v = w
  BY <1>3, CountOne DEF Others
<1> QED BY <1>1, <1>2, <1>3, SizedStep

(* The size is what the definition of SizeAccounted says of it. *)
Accounts == bucket = Cardinality(Sized) - Cardinality(Removed)

LEMMA Accounting == SizeAccounted <=> lost \/ again # {} \/ Accounts
BY Zenon DEF SizeAccounted, Accounts, Sized, Removed

LEMMA Numbers ==
    /\ IsFiniteSet(Files)
    /\ \A S \in SUBSET Files : IsFiniteSet(S) /\ Cardinality(S) \in Nat
<1>1. IsFiniteSet(Files)
  BY FileUploadAssumption
<1> QED BY <1>1, FS_Subset, FS_CardinalityType

(* What a call that removes a file makes of the size. *)
LEMMA RemoveSize ==
  ASSUME TypeOK, Records, Accounts, NEW f \in Files, Remove(f), ~ lost',
         Sized' = Sized
  PROVE  Accounts'
<1>1. remover \in [Files -> RemoverRecord]
  BY DEF Records
<1>2. Removed \in SUBSET Files /\ Sized \in SUBSET Files
  BY DEF Removed, Sized, Completed
<1>3. /\ Cardinality(Removed) \in Nat /\ Cardinality(Sized) \in Nat
      /\ IsFiniteSet(Removed)
  BY <1>2, Numbers
<1>4. ASSUME \A g \in Files : g # f => remover'[g] = remover[g]
      PROVE  /\ remover'[f].pc \in {"deleted", "restoring"} =>
                  Removed' = Removed \cup {f}
             /\ remover'[f].pc \notin {"deleted", "restoring"} =>
                  Removed' = Removed \ {f}
  BY <1>4 DEF Removed
<1>5. CASE DeleteRead(f)
  <2>1. /\ remover[f].pc = "idle"
        /\ remover'[f].pc = "deleting"
        /\ \A g \in Files : g # f => remover'[g] = remover[g]
    BY <1>1, <1>5 DEF DeleteRead
  <2>2. Removed' = Removed \ {f}
    BY <1>4, <2>1
  <2>3. f \notin Removed
    BY <2>1 DEF Removed
  <2> QED BY <1>5, <2>2, <2>3 DEF DeleteRead, size, Accounts
<1>6. CASE MarkDeleted(f)
  <2>1. /\ remover[f].pc = "deleting"
        /\ remover'[f].pc = "marked"
        /\ \A g \in Files : g # f => remover'[g] = remover[g]
    BY <1>1, <1>6 DEF MarkDeleted, RemoverRecord
  <2>2. Removed' = Removed
    BY <2>1 DEF Removed
  <2> QED BY <1>6, <2>2 DEF MarkDeleted, size, Accounts
<1>7. CASE DeleteCount(f)
  <2>1. /\ remover[f].pc = "marked"
        /\ remover'[f].pc = "deleted"
        /\ \A g \in Files : g # f => remover'[g] = remover[g]
    BY <1>1, <1>7 DEF DeleteCount
  <2>2. Removed' = Removed \cup {f}
    BY <1>4, <2>1
  <2>3. f \notin Removed
    BY <2>1 DEF Removed
  <2>4. Cardinality(Removed') = Cardinality(Removed) + 1
    BY <1>3, <2>2, <2>3, FS_AddElement
  <2>5. SaveBucket(remover[f].base, -1)
    BY <1>7 DEF DeleteCount
  <2>6. bucket' = bucket - 1
    BY <2>5, Saved
  <2> QED BY <1>3, <2>4, <2>6 DEF Accounts
<1>8. CASE RestoreRead(f)
  <2>1. /\ remover[f].pc = "deleted"
        /\ remover'[f].pc = "restoring"
        /\ \A g \in Files : g # f => remover'[g] = remover[g]
    BY <1>1, <1>8 DEF RestoreRead
  <2>2. Removed' = Removed \cup {f}
    BY <1>4, <2>1
  <2>3. f \in Removed
    BY <2>1 DEF Removed
  <2> QED BY <1>8, <2>2, <2>3 DEF RestoreRead, size, Accounts
<1>9. CASE Restore(f)
  <2>1. /\ remover[f].pc = "restoring"
        /\ remover'[f].pc = "restored"
        /\ \A g \in Files : g # f => remover'[g] = remover[g]
    BY <1>1, <1>9 DEF Restore
  <2>2. Removed' = Removed \ {f}
    BY <1>4, <2>1
  <2>3. f \in Removed
    BY <2>1 DEF Removed
  <2>4. Cardinality(Removed') = Cardinality(Removed) - 1
    BY <1>3, <2>2, <2>3, FS_RemoveElement
  <2>5. SaveBucket(remover[f].base, 1)
    BY <1>9 DEF Restore
  <2>6. bucket' = bucket + 1
    BY <2>5, Saved
  <2> QED BY <1>3, <2>4, <2>6 DEF Accounts
<1> QED BY <1>5, <1>6, <1>7, <1>8, <1>9 DEF Remove

LEMMA CountSize ==
  ASSUME TypeOK, Records, Phases, Apart, Early, Fresh, Counted, Step, again' = {},
         Accounts, ~ lost', NEW w \in Workers, Count(w)
  PROVE  Accounts'
<1>1. /\ Sized \in SUBSET Files /\ Removed \in SUBSET Files
      /\ worker[w].done \in SUBSET Files
  BY DEF Sized, Completed, Removed, Records, RunRecord
<1>2. /\ IsFiniteSet(Sized) /\ IsFiniteSet(worker[w].done)
      /\ Cardinality(Sized) \in Nat /\ Cardinality(Removed) \in Nat
      /\ Cardinality(worker[w].done) \in Nat
  BY <1>1, Numbers
<1>3. Sized' = Sized \cup worker[w].done /\ Sized \cap worker[w].done = {}
  BY SizedMore
<1>4. Cardinality(Sized') = Cardinality(Sized) + Cardinality(worker[w].done)
  <2>1. Cardinality(Sized \cup worker[w].done) =
          Cardinality(Sized) + Cardinality(worker[w].done)
            - Cardinality(Sized \cap worker[w].done)
    BY <1>2, FS_Union
  <2>2. Cardinality(Sized') = Cardinality(Sized \cup worker[w].done)
    BY <1>3, Zenon
  <2>3. Cardinality(Sized \cap worker[w].done) = 0
    BY <1>3, FS_EmptySet, Zenon
  <2> QED BY <1>2, <2>1, <2>2, <2>3
<1>5. bucket' = bucket + Cardinality(worker[w].done)
  <2>1. SaveBucket(worker[w].base, Cardinality(worker[w].done))
    BY CountOne
  <2> QED BY <2>1, Saved
<1>6. Removed' = Removed
  BY CountOne DEF Removed
<1> QED BY <1>2, <1>4, <1>5, <1>6 DEF Accounts

LEMMA SizeAccountedStep ==
  ASSUME TypeOK, Records, Phases, OneByOne, SizeAccounted, [Next]_vars
  PROVE  SizeAccounted'
<1>1. CASE Next
  <2>0. Step
    BY <1>1 DEF Next
  <2> SUFFICES ASSUME ~ lost', again' = {}
               PROVE  Accounts'
    BY Zenon, Accounting DEF SizeAccounted, Accounts, Sized, Removed
  <2>1. ~ lost /\ again = {}
    BY <2>0, HistoryGrows, Zenon
  <2>2. Accounts /\ Apart /\ Early /\ Fresh /\ Counted
    BY <2>1, Accounting, Zenon DEF OneByOne
  <2>3. CASE \E w \in Workers : Count(w)
    BY <2>0, <2>2, <2>3, CountSize
  <2>4. CASE \A w \in Workers : ~ Count(w)
    <3>1. Sized' = Sized
      BY <2>0, <2>2, <2>4, SizedSame
    <3>2. CASE \E f \in Files : Remove(f)
      BY <2>2, <3>1, <3>2, RemoveSize
    <3>3. CASE UNCHANGED <<bucket, remover>>
      <4>1. Removed' = Removed
        BY <3>3 DEF Removed
      <4> QED BY <2>2, <3>1, <3>3, <4>1 DEF Accounts
    <3>4. ASSUME NEW f \in Files, AskUrl(f) \/ CreateFur(f) \/ Put(f)
          PROVE  UNCHANGED <<bucket, remover>>
      BY <3>4 DEF AskUrl, CreateFur, Put, size
    <3>5. ASSUME NEW e \in Enders, Close(e)
          PROVE  UNCHANGED <<bucket, remover>>
      BY <3>5 DEF Close, MarkEnded, Process, ProcessFails, SendFirst, End, size
    <3>6. ASSUME NEW w \in Workers, Run(w)
          PROVE  UNCHANGED <<bucket, remover>>
      BY <2>4, <3>6, Zenon DEF Run, Start, Empty, Validate, Reject, TakeBatch,
         Finish, RunFails, ValidateThrows, RunDies, Ended, MoveOne, Move,
         MoveMissing, MoveFails, Complete, Ask, AskNew, size
    <3>7. UNCHANGED service => UNCHANGED <<bucket, remover>>
      BY DEF service, size
    <3> QED BY <2>0, <3>2, <3>3, <3>4, <3>5, <3>6, <3>7, Zenon DEF Step
  <2> QED BY <2>3, <2>4
<1>2. CASE UNCHANGED vars
  BY <1>2, Zenon DEF vars, size, runs, client, SizeAccounted, Completed, Uncounted
<1> QED BY <1>1, <1>2

-----------------------------------------------------------------------------
(* The theorems *)

LEMMA InitParts == Init => Phases /\ CompletedPinned /\ OneByOne /\ SizeAccounted
<1> SUFFICES ASSUME Init PROVE Phases /\ CompletedPinned /\ OneByOne /\ SizeAccounted
  OBVIOUS
<1>1. \A w \in Workers : worker[w] = NoRun
  BY DEF Init
<1>2. Completed = {}
  BY DEF Init, Completed
<1>3. Phases
  BY <1>1, Constants DEF Phases
<1>4. CompletedPinned
  BY <1>2 DEF CompletedPinned
<1>5. Apart
  BY <1>1, Constants DEF Apart, Active
<1>6. Early
  <2>1. \A s \in Sessions : Quiet(s)
    BY <1>1, <1>2, Constants DEF Init, Quiet, Busy
  <2>2. \A e \in Enders, s \in Sessions : ~ Ending(e, s)
    BY DEF Init, Ending
  <2> QED BY <2>1, <2>2 DEF Early
<1>7. Fresh /\ Counted
  BY <1>1, <1>2, Constants DEF Init, Fresh, Counted
<1>8. Accounts
  <2>1. Sized = {} /\ Removed = {} /\ bucket = 0
    BY <1>2 DEF Init, Sized, Removed
  <2> QED BY <2>1, FS_EmptySet DEF Accounts
<1>9. OneByOne
  BY <1>5, <1>6, <1>7 DEF OneByOne
<1>10. SizeAccounted
  BY <1>8, Accounting
<1> QED BY <1>3, <1>4, <1>9, <1>10

(* The invariant is inductive: every step of a client, of a call that ends *)
(* a session, of a run of SyncToIPFSWorker, of a call that deletes or      *)
(* restores a file, and of PinToCrustWorker preserves it.                  *)
THEOREM InvHolds == Spec => []IInv
<1>1. Init => IInv
  BY TypeInit, InitParts DEF IInv
<1>2. IInv /\ [Next]_vars => IInv'
  BY TypeStep, PhasesStep, PinnedStep, OneByOneStep, SizeAccountedStep DEF IInv
<1> QED BY <1>1, <1>2, PTL DEF Spec

(* Every row, message, call and run has its type in every reachable state; *)
(* above all, what a run of SyncToIPFSWorker has in hand are files of the  *)
(* session of its message.                                                 *)
THEOREM TypeCorrect == Spec => []TypeOK
<1>1. IInv => TypeOK
  BY DEF IInv
<1> QED BY <1>1, InvHolds, PTL

(* The content of a file whose upload is completed has been asked to be    *)
(* pinned, or the run that moved it will ask or has ended: whatever runs,  *)
(* whatever is delivered twice, and whichever calls fail.                  *)
THEOREM PinnedHolds == Spec => []CompletedPinned
<1>1. IInv => CompletedPinned
  BY DEF IInv
<1> QED BY <1>1, InvHolds, PTL

(* The size of the bucket is the number of the files that were counted,    *)
(* less those deleted, unless a write of the bucket overwrote another or a *)
(* session was worked on twice at a time.                                  *)
THEOREM SizeHolds == Spec => []SizeAccounted
<1>1. IInv => SizeAccounted
  BY DEF IInv
<1> QED BY <1>1, InvHolds, PTL
=============================================================================
