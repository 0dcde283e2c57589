--------------------------- MODULE JobLockProofs ---------------------------
(***************************************************************************)
(* Proofs about JobLock, for any number of instances and any times.        *)
(***************************************************************************)
EXTENDS JobLock, TLAPS

LEMMA Times == Timeout \in Nat \ {0} /\ MaxRun \in Nat \ {0}
  BY TimeAssumption

LEMMA NoInstType == NoInst \in Inst /\ NoRow \in Row
  BY Times DEF NoInst, Inst, NoRow, Row, PCs, Age, Never

LEMMA OlderType == \A age \in Age : Older(age) \in Age
  BY Times DEF Age, Older, Never

LEMMA ReleasedType == \A row \in Row : Released(row) \in Row
<1> SUFFICES ASSUME NEW row \in Row PROVE Released(row) \in Row
  OBVIOUS
<1>1. (IF row.executorCount > 0 THEN row.executorCount - 1 ELSE 0) \in Nat
  BY DEF Row
<1>2. QED BY <1>1 DEF Released, Row

(* Reading the row and going on, for the four reads. *)
LEMMA ReadType ==
    ASSUME TypeOK, NEW i \in Instances, NEW from, NEW to \in PCs, Read(i, from, to)
    PROVE  TypeOK'
<1>1. [inst[i] EXCEPT !.pc = to, !.seen = job] \in Inst
  BY DEF TypeOK, Inst
<1>2. inst' = [inst EXCEPT ![i] = [inst[i] EXCEPT !.pc = to, !.seen = job]]
  BY DEF Read, TypeOK
<1>3. QED BY <1>1, <1>2 DEF Read, TypeOK

(* Writing a row, for the four writes. *)
LEMMA WriteType ==
    ASSUME TypeOK, NEW i \in Instances, NEW from, NEW row \in Row, Write(i, from, row),
           NEW new \in Inst, inst' = [inst EXCEPT ![i] = new]
    PROVE  TypeOK'
  BY DEF TypeOK, Write

LEMMA TypeStep == TypeOK /\ [Next]_vars => TypeOK'
<1> SUFFICES ASSUME TypeOK, [Next]_vars PROVE TypeOK'
  OBVIOUS
<1> USE Times, NoInstType
<1>1. CASE UNCHANGED vars
  BY <1>1 DEF vars, TypeOK
<1>2. ASSUME NEW i \in Instances, Invoke(i) PROVE TypeOK'
  <2>1. ASSUME NEW count \in Nat, Claim(i, count)
        PROVE  job' \in Row /\ inst' \in [Instances -> Inst] /\ lost' \in BOOLEAN
    <3>1. [NoInst EXCEPT !.pc = "startRead", !.lastRun = job.lastRun] \in Inst
      BY DEF TypeOK, Inst, Row, PCs
    <3>2. QED BY <2>1, <3>1 DEF Claim, TypeOK, Row
  <2>2. CASE TakeOver(i)
    BY <2>1, <2>2 DEF TakeOver, TypeOK
  <2>3. CASE Acquire(i)
    <3>1. job.executorCount + 1 \in Nat
      BY DEF TypeOK, Row
    <3>2. QED BY <2>1, <2>3, <3>1 DEF Acquire, TypeOK
  <2>4. QED BY <1>2, <2>2, <2>3 DEF Invoke
<1>3. ASSUME NEW i \in Instances, Work(i) PROVE TypeOK'
  <2>1. CASE StartedRead(i) \/ SuccessRead(i) \/ CompletedRead(i) \/ FailedRead(i)
    BY <2>1, ReadType DEF StartedRead, SuccessRead, CompletedRead, FailedRead, PCs
  <2>2. CASE StartedWrite(i)
    <3>1. [inst[i].seen EXCEPT !.lastRun = 0] \in Row
      BY DEF TypeOK, Inst, Row, Age
    <3>2. [inst[i] EXCEPT !.pc = "run", !.lastRun = 0, !.seen = NoRow] \in Inst
      <4>1. inst[i] \in Inst /\ 0 \in Age
        BY DEF TypeOK, Age
      <4>2. QED BY <4>1 DEF Inst, PCs
    <3>3. inst' = [inst EXCEPT ![i] =
                     [inst[i] EXCEPT !.pc = "run", !.lastRun = 0, !.seen = NoRow]]
      BY <2>2 DEF StartedWrite, TypeOK
    <3>4. QED BY <2>2, <3>1, <3>2, <3>3, WriteType DEF StartedWrite
  <2>3. CASE RunOk(i)
    <3>1. [inst[i] EXCEPT !.pc = "succRead"] \in Inst
      BY DEF TypeOK, Inst, PCs
    <3>2. inst' = [inst EXCEPT ![i] = [inst[i] EXCEPT !.pc = "succRead"]]
      BY <2>3 DEF RunOk, TypeOK
    <3>3. QED BY <2>3, <3>1, <3>2 DEF RunOk, TypeOK
  <2>4. CASE SuccessWrite(i)
    <3>1. Released(inst[i].seen) \in Row
      BY ReleasedType DEF TypeOK, Inst
    <3>2. [inst[i] EXCEPT !.pc = "doneRead", !.seen = NoRow] \in Inst
      BY DEF TypeOK, Inst, PCs
    <3>3. inst' = [inst EXCEPT ![i] = [inst[i] EXCEPT !.pc = "doneRead", !.seen = NoRow]]
      BY <2>4 DEF SuccessWrite, TypeOK
    <3>4. QED BY <2>4, <3>1, <3>2, <3>3, WriteType DEF SuccessWrite
  <2>5. CASE CompletedWrite(i) \/ FailedWrite(i)
    <3>1. [inst[i].seen EXCEPT !.lastRun = inst[i].lastRun] \in Row
      BY DEF TypeOK, Inst, Row
    <3>2. QED BY <2>5, <3>1, WriteType DEF CompletedWrite, FailedWrite
  <2>6. QED BY <1>3, <2>1, <2>2, <2>3, <2>4, <2>5 DEF Work
<1>4. ASSUME NEW i \in Instances, Fail(i) PROVE TypeOK'
  <2>1. [inst[i] EXCEPT !.pc = "failRead", !.seen = NoRow] \in Inst
    BY DEF TypeOK, Inst, PCs
  <2>2. inst' = [inst EXCEPT ![i] = [inst[i] EXCEPT !.pc = "failRead", !.seen = NoRow]]
    BY <1>4 DEF Fail, TypeOK
  <2>3. QED BY <1>4, <2>1, <2>2 DEF Fail, TypeOK
<1>5. ASSUME NEW i \in Instances, Crash(i) PROVE TypeOK'
  BY <1>5 DEF Crash, TypeOK
<1>6. CASE Tick
  <2>1. job' \in Row
    BY <1>6, OlderType DEF Tick, TypeOK, Row
  <2>2. ASSUME NEW i \in Instances PROVE inst'[i] \in Inst
    <3>1. inst[i].life < MaxRun
      BY <1>6 DEF Tick
    <3>2. [inst[i] EXCEPT !.seen.lastRun = Older(@), !.lastRun = Older(@),
                          !.life = @ + 1] \in Inst
      <4>1. inst[i] \in Inst /\ inst[i].life + 1 \in 0..MaxRun
        BY <3>1 DEF TypeOK, Inst
      <4>2. [inst[i].seen EXCEPT !.lastRun = Older(@)] \in Row
        BY <4>1, OlderType DEF Inst, Row
      <4>3. Older(inst[i].lastRun) \in Age
        BY <4>1, OlderType DEF Inst
      <4>4. [inst[i] EXCEPT !.seen = [inst[i].seen EXCEPT !.lastRun = Older(@)],
                            !.lastRun = Older(@), !.life = @ + 1] \in Inst
        BY <4>1, <4>2, <4>3 DEF Inst
      <4>5. QED BY <4>1, <4>4 DEF Inst
    <3>3. QED BY <1>6, <3>2 DEF Tick, TypeOK
  <2>3. QED BY <1>6, <2>1, <2>2 DEF Tick, TypeOK
<1>7. QED BY <1>1, <1>2, <1>3, <1>4, <1>5, <1>6 DEF Next

(* The types hold in every reachable state. *)
THEOREM TypeCorrect == Spec => []TypeOK
<1>1. Init => TypeOK
  <2>1. (IF HasRun THEN 0 ELSE Never) \in Age
    BY Times DEF Age
  <2>2. [NoRow EXCEPT !.lastRun = IF HasRun THEN 0 ELSE Never] \in Row
    BY <2>1, NoInstType DEF Row
  <2>3. QED BY <2>2, NoInstType DEF Init, TypeOK
<1>2. QED BY <1>1, TypeStep, PTL DEF Spec

-----------------------------------------------------------------------------
(* Status and counter never part: no interleaving of stale writes leaves a *)
(* row that refuses every instance and that no timeout frees.              *)
THEOREM Releasable == Spec => []LockReleasable
<1>1. Init => LockReleasable
  BY DEF Init, LockReleasable, Paired, NoRow, NoInst
<1>2. TypeOK /\ LockReleasable /\ [Next]_vars => LockReleasable'
  <2> SUFFICES ASSUME TypeOK, LockReleasable, [Next]_vars PROVE LockReleasable'
    OBVIOUS
  <2> USE DEF TypeOK, LockReleasable, Paired, Inst, Row
  <2>1. CASE UNCHANGED vars
    BY <2>1 DEF vars
  <2>2. ASSUME NEW i \in Instances, Invoke(i) PROVE LockReleasable'
    <3>1. CASE TakeOver(i)
      BY <3>1 DEF TakeOver, Claim, NoInst, NoRow
    <3>2. CASE Acquire(i)
      BY <3>2 DEF Acquire, Taken, Claim, NoInst, NoRow
    <3>3. QED BY <2>2, <3>1, <3>2 DEF Invoke
  <2>3. ASSUME NEW i \in Instances, Work(i) PROVE LockReleasable'
    <3>1. CASE StartedRead(i) \/ SuccessRead(i) \/ CompletedRead(i) \/ FailedRead(i)
      BY <3>1 DEF StartedRead, SuccessRead, CompletedRead, FailedRead, Read
    <3>2. CASE StartedWrite(i)
      BY <3>2 DEF StartedWrite, Write, NoRow
    <3>3. CASE RunOk(i)
      BY <3>3 DEF RunOk
    <3>4. CASE SuccessWrite(i)
      BY <3>4 DEF SuccessWrite, Write, Released, NoRow
    <3>5. CASE CompletedWrite(i) \/ FailedWrite(i)
      BY <3>5 DEF CompletedWrite, FailedWrite, Write, NoInst, NoRow
    <3>6. QED BY <2>3, <3>1, <3>2, <3>3, <3>4, <3>5 DEF Work
  <2>4. ASSUME NEW i \in Instances, Fail(i) \/ Crash(i) PROVE LockReleasable'
    BY <2>4 DEF Fail, Crash, NoInst, NoRow
  <2>5. CASE Tick
    BY <2>5 DEF Tick
  <2>6. QED BY <2>1, <2>2, <2>3, <2>4, <2>5 DEF Next
<1>3. QED BY <1>1, <1>2, TypeCorrect, PTL DEF Spec

(* As long as no stale status is written back and no live instance is      *)
(* robbed of its lock, one instance at most is between claim and release.  *)
THEOREM ExclusionHolds == Spec => []ExclusiveUnlessRaced
<1>1. Init => ExclusiveUnlessRaced
  BY DEF Init, ExclusiveUnlessRaced, Exclusive, NoInst, Held
<1>2. TypeOK /\ ExclusiveUnlessRaced /\ [Next]_vars => ExclusiveUnlessRaced'
  <2> SUFFICES ASSUME TypeOK, ExclusiveUnlessRaced, [Next]_vars, ~ lost', ~ overrun'
               PROVE  Exclusive'
    BY DEF ExclusiveUnlessRaced
  <2>0. Exclusive
    <3>1. ~ lost /\ ~ overrun
      BY DEF TypeOK, vars, Next, Invoke, TakeOver, Acquire, Claim, Work,
             StartedRead, SuccessRead, CompletedRead, FailedRead, Read, StartedWrite,
             SuccessWrite, CompletedWrite, FailedWrite, Write, RunOk, Fail, Crash, Tick
    <3>2. QED BY <3>1 DEF ExclusiveUnlessRaced
  <2>a. /\ inst \in [Instances -> Inst] /\ job \in Row
        /\ \A i \in Instances : inst[i].seen \in Row
    BY DEF TypeOK, Inst
  \* a step that keeps the status and brings nobody into Held
  <2>b. ASSUME job'.status = job.status,
               \A i \in Instances : inst'[i].pc \in Held => inst[i].pc \in Held
        PROVE  Exclusive'
    BY <2>0, <2>b DEF Exclusive
  <2>1. CASE UNCHANGED vars
    BY <2>b, <2>1 DEF vars
  <2>2. ASSUME NEW i \in Instances, Invoke(i) PROVE Exclusive'
    <3>1. \A j \in Instances : inst[j].pc \notin Held
      <4>1. CASE TakeOver(i)
        BY <4>1 DEF TakeOver
      <4>2. CASE Acquire(i)
        BY <2>0, <4>2 DEF Acquire, Taken, Exclusive
      <4>3. QED BY <2>2, <4>1, <4>2 DEF Invoke
    <3>2. /\ job'.status = "LOCKED"
          /\ \A j \in Instances \ {i} : inst'[j] = inst[j]
      BY <2>2, <2>a DEF Invoke, TakeOver, Acquire, Claim, Row
    <3>3. QED BY <3>1, <3>2 DEF Exclusive
  <2>3. ASSUME NEW i \in Instances, Work(i) PROVE Exclusive'
    <3>1. CASE StartedRead(i) \/ SuccessRead(i) \/ CompletedRead(i) \/ FailedRead(i)
      <4>1. /\ job' = job
            /\ \A j \in Instances : inst'[j].pc \in Held => inst[j].pc \in Held
        BY <2>a, <3>1 DEF StartedRead, SuccessRead, CompletedRead, FailedRead, Read, Inst, Held
      <4>2. QED BY <2>b, <4>1
    <3>2. CASE StartedWrite(i) \/ CompletedWrite(i) \/ FailedWrite(i)
      <4>1. job'.status = job.status
        BY <2>a, <3>2 DEF StartedWrite, CompletedWrite, FailedWrite, Write, Row
      <4>2. \A j \in Instances : inst'[j].pc \in Held => inst[j].pc \in Held
        BY <2>a, <3>2 DEF StartedWrite, CompletedWrite, FailedWrite, Write, NoInst, Inst, Held
      <4>3. QED BY <2>b, <4>1, <4>2
    <3>3. CASE RunOk(i)
      <4>1. /\ job' = job
            /\ \A j \in Instances : inst'[j].pc \in Held => inst[j].pc \in Held
        BY <2>a, <3>3 DEF RunOk, Inst, Held
      <4>2. QED BY <2>b, <4>1
    <3>4. CASE SuccessWrite(i)
      <4>1. inst[i].pc \in Held /\ inst'[i].pc \notin Held
        BY <2>a, <3>4 DEF SuccessWrite, Write, Inst, Held
      <4>2. \A j \in Instances \ {i} : inst'[j] = inst[j]
        BY <2>a, <3>4 DEF SuccessWrite
      <4>3. QED BY <2>0, <4>1, <4>2 DEF Exclusive
    <3>5. QED BY <2>3, <3>1, <3>2, <3>3, <3>4 DEF Work
  <2>4. ASSUME NEW i \in Instances, Fail(i) \/ Crash(i) PROVE Exclusive'
    <3>1. /\ job' = job
          /\ \A j \in Instances : inst'[j].pc \in Held => inst[j].pc \in Held
      BY <2>4, <2>a DEF Fail, Crash, NoInst, Inst, Held
    <3>2. QED BY <2>b, <3>1
  <2>5. CASE Tick
    <3>1. job'.status = job.status
      BY <2>5, <2>a DEF Tick, Row
    <3>2. \A j \in Instances : inst'[j].pc = inst[j].pc
      BY <2>5, <2>a DEF Tick, Inst
    <3>3. QED BY <2>b, <3>1, <3>2
  <2>6. QED BY <2>1, <2>2, <2>3, <2>4, <2>5 DEF Next
<1>3. QED BY <1>1, <1>2, TypeCorrect, PTL DEF Spec
=============================================================================
