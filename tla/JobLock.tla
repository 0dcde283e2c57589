------------------------------ MODULE JobLock ------------------------------
(***************************************************************************)
(* BaseSingleThreadWorker: a worker whose lambda instances are meant to    *)
(* run one at a time, kept apart by the row of table job that they share.  *)
(* The row holds a status, a counter of executors and the time of the last *)
(* run.  before() claims the row in a transaction with SELECT ... FOR      *)
(* UPDATE, which every other writer of the row waits for, so the claim is  *)
(* one step; everything after it (ServerlessWorker.run) reads the row and  *)
(* writes all of it back in separate statements.                           *)
(*                                                                         *)
(* Times are kept as ages: how long ago lastRun is, counted up to Timeout, *)
(* where the code stops telling them apart.                                *)
(***************************************************************************)
EXTENDS Integers

CONSTANTS
    Instances,   \* lambda instances of one worker
    Timeout,     \* job.timeout, in units of the clock
    MaxRun,      \* after this time the platform kills a lambda instance
    HasRun,      \* whether the job row starts with a lastRun
    TimePasses   \* whether the clock runs (FALSE: everything within one unit)

ASSUME TimeAssumption == Timeout \in Nat \ {0} /\ MaxRun \in Nat \ {0}
ASSUME FlagsAssumption == HasRun \in BOOLEAN /\ TimePasses \in BOOLEAN

VARIABLES
    job,      \* the row: status, executorCount, age of lastRun
    inst,     \* per instance: where it is, the row it read, the age of the
              \* run that its workerDefinition remembers, its own lifetime
    lost,     \* history: a write replaced a status it had not seen
    overrun   \* history: a lock was taken over from a live instance

vars == <<job, inst, lost, overrun>>

Never == -1
Age == {Never} \cup 0..Timeout
Row == [status : {"ACTIVE", "LOCKED"}, executorCount : Nat, lastRun : Age]

PCs == {"idle", "startRead", "startWrite", "run", "succRead", "succWrite",
        "doneRead", "doneWrite", "failRead", "failWrite"}
(* From the claim to the release of the lock. *)
Held == {"startRead", "startWrite", "run", "succRead", "succWrite"}

Inst == [pc : PCs, seen : Row, lastRun : Age, life : 0..MaxRun]

NoRow == [status |-> "ACTIVE", executorCount |-> 0, lastRun |-> Never]
NoInst == [pc |-> "idle", seen |-> NoRow, lastRun |-> Never, life |-> 0]

Init == /\ job = [NoRow EXCEPT !.lastRun = IF HasRun THEN 0 ELSE Never]
        /\ inst = [i \in Instances |-> NoInst]
        /\ lost = FALSE
        /\ overrun = FALSE

-----------------------------------------------------------------------------
(* before() *)

\* seeded faults: the timeout does not ignore the count; nobody counts as one
TimedOutUncounted == /\ job.lastRun # Never
                     /\ job.status = "LOCKED" /\ job.executorCount = 0
                     /\ job.lastRun >= Timeout
TakenByMany == job.executorCount > 1

TimedOut == /\ job.lastRun # Never
            /\ job.status = "LOCKED"
            /\ job.lastRun >= Timeout
Taken == job.executorCount >= 1 \/ job.status = "LOCKED"

Claim(i, count) ==
    /\ inst[i].pc = "idle"
    /\ job' = [job EXCEPT !.status = "LOCKED", !.executorCount = count]
    /\ inst' = [inst EXCEPT ![i] = [NoInst EXCEPT !.pc = "startRead",
                                                  !.lastRun = job.lastRun]]
    /\ UNCHANGED lost

(* The lock is older than the job's timeout: take it whoever holds it. *)
TakeOver(i) ==
    /\ TimedOut
    /\ Claim(i, 1)
    /\ overrun' = (overrun \/ \E j \in Instances : inst[j].pc \in Held)

Acquire(i) ==
    /\ ~ TimedOut
    /\ ~ Taken
    /\ Claim(i, job.executorCount + 1)
    /\ UNCHANGED overrun

(* Otherwise the transaction is rolled back, the rest of run() does        *)
(* nothing, and the message is discarded: no step of this module.          *)

-----------------------------------------------------------------------------
(* Each update of the row is a read and, later, a write of the whole row.  *)
(* What was read is not used again after the write.                        *)

Read(i, from, to) ==
    /\ inst[i].pc = from
    /\ inst' = [inst EXCEPT ![i].pc = to, ![i].seen = job]
    /\ UNCHANGED <<job, lost, overrun>>

Write(i, from, row) ==
    /\ inst[i].pc = from
    /\ job' = row
    /\ lost' = (lost \/ inst[i].seen.status # job.status)
    /\ UNCHANGED overrun

(* updateOnStarted(): the run starts now. *)
StartedRead(i) == Read(i, "startRead", "startWrite")
StartedWrite(i) ==
    /\ Write(i, "startWrite", [inst[i].seen EXCEPT !.lastRun = 0])
    /\ inst' = [inst EXCEPT ![i].pc = "run", ![i].lastRun = 0,
                             ![i].seen = NoRow]

(* execute() returns; onSuccess() gives the lock back (updateJobState). *)
RunOk(i) ==
    /\ inst[i].pc = "run"
    /\ inst' = [inst EXCEPT ![i].pc = "succRead"]
    /\ UNCHANGED <<job, lost, overrun>>
SuccessRead(i) == Read(i, "succRead", "succWrite")
\* seeded fault: the counter is forgotten
ReleasedUncounted(row) == [row EXCEPT !.status = "ACTIVE"]

Released(row) ==
    [row EXCEPT !.status = "ACTIVE",
                !.executorCount = IF @ > 0 THEN @ - 1 ELSE 0]
SuccessWrite(i) ==
    /\ Write(i, "succWrite", Released(inst[i].seen))
    /\ inst' = [inst EXCEPT ![i].pc = "doneRead", ![i].seen = NoRow]

(* updateOnCompleted() writes the definition, with the instance's own      *)
(* lastRun, over the row as it is read once more.                          *)
CompletedRead(i) == Read(i, "doneRead", "doneWrite")
CompletedWrite(i) ==
    /\ Write(i, "doneWrite", [inst[i].seen EXCEPT !.lastRun = inst[i].lastRun])
    /\ inst' = [inst EXCEPT ![i] = NoInst]

(* execute(), or a statement after the claim, throws: onError() only logs, *)
(* updateOnError() writes the definition; the job stays locked.            *)
Fail(i) ==
    /\ inst[i].pc \in PCs \ {"idle", "failRead", "failWrite"}
    /\ inst' = [inst EXCEPT ![i].pc = "failRead", ![i].seen = NoRow]
    /\ UNCHANGED <<job, lost, overrun>>
FailedRead(i) == Read(i, "failRead", "failWrite")
FailedWrite(i) ==
    /\ Write(i, "failWrite", [inst[i].seen EXCEPT !.lastRun = inst[i].lastRun])
    /\ inst' = [inst EXCEPT ![i] = NoInst]

-----------------------------------------------------------------------------
(* The platform *)

(* The instance dies, or is killed at its limit. *)
Crash(i) ==
    /\ inst[i].pc # "idle"
    /\ inst' = [inst EXCEPT ![i] = NoInst]
    /\ UNCHANGED <<job, lost, overrun>>

Older(age) == IF age = Never \/ age = Timeout THEN age ELSE age + 1

Tick ==
    /\ TimePasses
    /\ \A i \in Instances : inst[i].life < MaxRun
    /\ job' = [job EXCEPT !.lastRun = Older(@)]
    /\ inst' = [i \in Instances |->
                  IF inst[i].pc = "idle" THEN inst[i]
                  ELSE [inst[i] EXCEPT !.seen.lastRun = Older(@),
                                       !.lastRun = Older(@),
                                       !.life = @ + 1]]
    /\ UNCHANGED <<lost, overrun>>

-----------------------------------------------------------------------------
(* A message of the queue or the scheduler starts an instance. *)
Invoke(i) == TakeOver(i) \/ Acquire(i)

Work(i) == \/ StartedRead(i) \/ StartedWrite(i)
           \/ RunOk(i) \/ SuccessRead(i) \/ SuccessWrite(i)
           \/ CompletedRead(i) \/ CompletedWrite(i)
           \/ FailedRead(i) \/ FailedWrite(i)

Next == \/ \E i \in Instances : Invoke(i) \/ Work(i) \/ Fail(i) \/ Crash(i)
        \/ Tick

Spec == Init /\ [][Next]_vars

(* The scheduler starts every pending job again, instances run, time       *)
(* passes: an instance at its limit keeps Tick from being enabled only     *)
(* until it is gone.                                                       *)
FairSpec == /\ Spec
            /\ \A i \in Instances : WF_vars(Invoke(i)) /\ WF_vars(Work(i))
            /\ SF_vars(Tick)

-----------------------------------------------------------------------------
(* Types of the row and of what the instances keep. *)
TypeOK == /\ job \in Row
          /\ inst \in [Instances -> Inst]
          /\ lost \in BOOLEAN
          /\ overrun \in BOOLEAN

(* Status and counter go together in the row and in every copy of it: a    *)
(* row that were ACTIVE with an executor counted would refuse every        *)
(* instance, and the timeout, which looks at LOCKED rows only, would never *)
(* free it.                                                                *)
Paired(row) == row.executorCount = (IF row.status = "LOCKED" THEN 1 ELSE 0)
LockReleasable == Paired(job) /\ \A i \in Instances : Paired(inst[i].seen)

(* "Worker that is forced to run as in single thread. All parallel         *)
(* instances will fail to run."                                            *)
Running(i) == inst[i].pc = "run"
SingleThread ==
    \A i, j \in Instances : Running(i) /\ Running(j) => i = j

(* There are two ways, and no third, to break the exclusion: an instance   *)
(* writes back a status that changed after it read the row, or a lock is   *)
(* taken over, on account of its age, while its holder is alive.  As long  *)
(* as neither happens at most one instance is between claim and release,   *)
(* and the row is locked for it.                                           *)
Exclusive ==
    /\ \A i, j \in Instances :
         inst[i].pc \in Held /\ inst[j].pc \in Held => i = j
    /\ \A i \in Instances : inst[i].pc \in Held => job.status = "LOCKED"
ExclusiveUnlessRaced == lost \/ overrun \/ Exclusive

(* "if past timeout - ignore count and locked status": a job whose         *)
(* instance died holding the lock is run again.                            *)
Abandoned == /\ job.status = "LOCKED"
             /\ \A i \in Instances : inst[i].pc = "idle"
Recovery == Abandoned ~> \E i \in Instances : inst[i].pc = "startRead"
=============================================================================
