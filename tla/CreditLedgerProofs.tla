------------------------ MODULE CreditLedgerProofs ------------------------
(***************************************************************************)
(* Proofs about CreditLedger, for any number of invocations, references,   *)
(* amounts and calls.                                                      *)
(***************************************************************************)
EXTENDS CreditLedger, TLAPS

(* What every run needs and no property says: there is an account as soon  *)
(* as something was spent, and a refund under way was checked.             *)
AccountExists ==
    /\ ~ credit.exists => credit.balance = 0
    /\ \A r \in Refs : spends[r] > 0 => credit.exists
    /\ \A p \in Procs : job[p].pc \in Refunding => spends[job[p].ref] > 0
    /\ \A p \in Procs : job[p].pc = "configUpdate" => job[p].seen.exists

IInv == TypeOK /\ NoStaleWrite /\ AccountExists /\ OncePerReference

LEMMA AssumptionsHold ==
    /\ NoProc \notin Procs /\ NoRef \notin Refs
    /\ Price \in [Refs -> Nat]
    /\ TopUps \subseteq Nat /\ Thresholds \subseteq Nat
    /\ CallsPerRef \in Nat /\ MaxTopUps \in Nat
  BY ProcsAssumption, PriceAssumption, AmountsAssumption, BoundsAssumption

(* The actions of one invocation, as the cases of every step proof. *)
LEMMA NextCases ==
    ASSUME Next
    PROVE  \E p \in Procs :
             \/ \E a \in TopUps : AddCall(p, a)
             \/ \E r \in Refs : SpendCall(p, r) \/ RefundCall(p, r)
             \/ \E t \in Thresholds : ConfigCall(p, t)
             \/ Work(p) \/ StatementFails(p) \/ Crash(p)
  BY DEF Next, Calls

-----------------------------------------------------------------------------
LEMMA RowTypes == NoRow \in Row /\ \A row \in Row : row.balance \in Nat
  BY DEF NoRow, Row, DefaultThreshold

LEMMA NoJobType == NoJob \in Job
  BY RowTypes DEF NoJob, Job, PCs, OnRef

(* How each of the ways an invocation moves keeps the type of job. *)
LEMMA StartType ==
    ASSUME TypeOK, NEW p \in Procs, NEW j \in Job, Start(p, j)
    PROVE  job' \in [Procs -> Job]
  BY DEF TypeOK, Start

LEMMA ReturnType ==
    ASSUME TypeOK, NEW p \in Procs, Return(p)
    PROVE  job' \in [Procs -> Job]
  BY NoJobType DEF TypeOK, Return

LEMMA GotoType ==
    ASSUME TypeOK, NEW p \in Procs, job[p].pc \in OnRef,
           NEW label \in PCs, Goto(p, label)
    PROVE  job' \in [Procs -> Job]
<1>1. [job[p] EXCEPT !.pc = label] \in Job
  BY DEF TypeOK, Job, Row
<1>2. job' = [job EXCEPT ![p] = [job[p] EXCEPT !.pc = label]]
  BY DEF Goto, TypeOK
<1>3. QED BY <1>1, <1>2 DEF TypeOK

LEMMA SeenType ==
    ASSUME TypeOK, NEW p \in Procs, NEW to \in PCs, to \in OnRef => job[p].pc \in OnRef,
           job' = [job EXCEPT ![p].pc = to, ![p].seen = credit]
    PROVE  job' \in [Procs -> Job]
<1>1. [job[p] EXCEPT !.pc = to, !.seen = credit] \in Job
  BY DEF TypeOK, Job, Row
<1>2. job' = [job EXCEPT ![p] = [job[p] EXCEPT !.pc = to, !.seen = credit]]
  BY DEF TypeOK
<1>3. QED BY <1>1, <1>2 DEF TypeOK

LEMMA SelectType ==
    ASSUME TypeOK, NEW p \in Procs, NEW from, NEW to \in PCs,
           to \in OnRef => from \in OnRef, Select(p, from, to)
    PROVE  TypeOK'
<1>1. job' \in [Procs -> Job]
  BY SeenType DEF Select
<1>2. QED BY <1>1 DEF Select, TypeOK, transactions

LEMMA JobFields ==
    ASSUME TypeOK, NEW p \in Procs
    PROVE  /\ job[p].amount \in Nat /\ job[p].seen \in Row
           /\ job[p].pc \in OnRef \/ job[p].paying => job[p].ref \in Refs
  BY DEF TypeOK, Job

LEMMA RethrowType ==
    ASSUME TypeOK, NEW p \in Procs, Rethrow(p)
    PROVE  answered' \in [Refs -> Nat]
  BY DEF TypeOK, Job, Rethrow

LEMMA UnlockedType ==
    ASSUME TypeOK, NEW p \in Procs, Unlocked(p)
    PROVE  lock' \in Procs \cup {NoProc}
  BY DEF TypeOK, Unlocked

LEMMA TypeStep == TypeOK /\ [Next]_vars => TypeOK'
<1> SUFFICES ASSUME TypeOK, [Next]_vars PROVE TypeOK'
  OBVIOUS
<1> USE AssumptionsHold
<1>1. CASE UNCHANGED vars
  BY <1>1 DEF vars, transactions, TypeOK
<1>2. ASSUME NEW p \in Procs, NEW a \in TopUps, AddCall(p, a) PROVE TypeOK'
  <2>1. [NoJob EXCEPT !.pc = "addSelect", !.amount = a] \in Job
    BY NoJobType DEF Job, NoJob, PCs, OnRef
  <2>2. job' \in [Procs -> Job]
    BY <1>2, <2>1, StartType DEF AddCall
  <2>3. QED BY <1>2, <2>2 DEF AddCall, TypeOK, transactions
<1>3. ASSUME NEW p \in Procs, NEW r \in Refs, SpendCall(p, r) PROVE TypeOK'
  <2>1. [NoJob EXCEPT !.pc = "spendSelect", !.ref = r, !.paying = TRUE] \in Job
    BY NoJobType DEF Job, NoJob, PCs, OnRef
  <2>2. job' \in [Procs -> Job]
    BY <1>3, <2>1, StartType DEF SpendCall
  <2>3. QED BY <1>3, <2>2 DEF SpendCall, TypeOK, transactions
<1>4. ASSUME NEW p \in Procs, NEW r \in Refs, RefundCall(p, r) PROVE TypeOK'
  <2>1. [NoJob EXCEPT !.pc = "refundCheck", !.ref = r] \in Job
    BY NoJobType DEF Job, NoJob, PCs, OnRef
  <2>2. job' \in [Procs -> Job]
    BY <1>4, <2>1, StartType DEF RefundCall
  <2>3. QED BY <1>4, <2>2 DEF RefundCall, TypeOK, transactions
<1>5. ASSUME NEW p \in Procs, NEW t \in Thresholds, ConfigCall(p, t) PROVE TypeOK'
  <2>1. [NoJob EXCEPT !.pc = "configSelect", !.amount = t] \in Job
    BY NoJobType DEF Job, NoJob, PCs, OnRef
  <2>2. job' \in [Procs -> Job]
    BY <1>5, <2>1, StartType DEF ConfigCall
  <2>3. QED BY <1>5, <2>2 DEF ConfigCall, TypeOK, transactions
<1>6. ASSUME NEW p \in Procs, Work(p) PROVE TypeOK'
  <2> USE JobFields
  <2>1. CASE AddSelect(p)
    BY <2>1, SelectType DEF AddSelect, PCs, OnRef
  <2>2. CASE AddCommit(p)
    <3>1. job' \in [Procs -> Job]
      BY <2>2, ReturnType DEF AddCommit
    <3>2. [job[p].seen EXCEPT !.balance = @ + job[p].amount, !.alerted = FALSE] \in Row
      <4>1. \A row \in Row, n \in Nat : [row EXCEPT !.balance = n, !.alerted = FALSE] \in Row
        BY DEF Row
      <4>2. job[p].seen \in Row /\ job[p].seen.balance + job[p].amount \in Nat
        BY RowTypes
      <4>3. QED BY <4>1, <4>2
    <3>3. [NoRow EXCEPT !.exists = TRUE, !.balance = job[p].amount] \in Row
      BY DEF Row, NoRow, DefaultThreshold
    <3>4. credit' \in Row
      BY <2>2, <3>2, <3>3 DEF AddCommit
    <3>5. QED BY <2>2, <3>1, <3>4 DEF AddCommit, TypeOK, transactions
  <2>3. CASE SpendSelect(p)
    BY <2>3, SelectType DEF SpendSelect, PCs, OnRef
  <2>4. CASE SpendReject(p)
    <3>1. job' \in [Procs -> Job]
      BY <2>4, ReturnType DEF SpendReject
    <3>2. QED BY <2>4, <3>1 DEF SpendReject, TypeOK, transactions
  <2>5. CASE SpendCommit(p)
    <3>1. job' \in [Procs -> Job]
      BY <2>5, GotoType DEF SpendCommit, PCs, OnRef
    <3>2. job[p].ref \in Refs /\ Price[job[p].ref] \in Nat
      BY <2>5 DEF SpendCommit, OnRef
    <3>3. job[p].seen.balance - Price[job[p].ref] \in Nat
      BY <2>5, <3>2, RowTypes DEF SpendCommit, Affordable
    <3>4. \A mailed \in BOOLEAN :
            [job[p].seen EXCEPT !.balance = job[p].seen.balance - Price[job[p].ref],
                                !.alerted = @ \/ mailed] \in Row
      BY <3>3 DEF Row
    <3>5. credit' \in Row
      BY <2>5, <3>4, RowTypes DEF SpendCommit, Row
    <3>6. QED BY <2>5, <3>1, <3>2, <3>5 DEF SpendCommit, TypeOK, transactions
  <2>6. CASE ActionSucceeds(p)
    <3>1. job' \in [Procs -> Job]
      BY <2>6, ReturnType DEF ActionSucceeds
    <3>2. QED BY <2>6, <3>1 DEF ActionSucceeds, TypeOK, transactions
  <2>7. CASE ActionFails(p)
    <3>1. job' \in [Procs -> Job]
      BY <2>7, GotoType DEF ActionFails, PCs, OnRef
    <3>2. QED BY <2>7, <3>1 DEF ActionFails, TypeOK, transactions
  <2>8. CASE RefundCheck(p)
    <3>1. job' \in [Procs -> Job]
      BY <2>8, GotoType DEF RefundCheck, PCs, OnRef
    <3>2. QED BY <2>8, <3>1 DEF RefundCheck, TypeOK, transactions
  <2>9. CASE RefundReject(p)
    <3>1. job' \in [Procs -> Job] /\ answered' \in [Refs -> Nat]
      BY <2>9, ReturnType, RethrowType DEF RefundReject
    <3>2. QED BY <2>9, <3>1 DEF RefundReject, TypeOK, transactions
  <2>10. CASE RefundSelect(p)
    BY <2>10, SelectType DEF RefundSelect, PCs, OnRef
  <2>11. CASE RefundCommit(p)
    <3>1. job' \in [Procs -> Job] /\ answered' \in [Refs -> Nat]
      BY <2>11, ReturnType, RethrowType DEF RefundCommit
    <3>2. job[p].ref \in Refs /\ Price[job[p].ref] \in Nat
      BY <2>11 DEF RefundCommit, OnRef
    <3>3. credit' \in Row
      BY <2>11, <3>2, RowTypes DEF RefundCommit, Row
    <3>4. receives' \in [Refs -> Nat]
      BY <2>11, <3>2 DEF RefundCommit, TypeOK
    <3>5. QED BY <2>11, <3>1, <3>2, <3>3, <3>4 DEF RefundCommit, TypeOK, transactions
  <2>12. CASE ConfigSelect(p)
    <3>1. job' \in [Procs -> Job]
      BY <2>12, ReturnType, SeenType DEF ConfigSelect, PCs, OnRef
    <3>2. QED BY <2>12, <3>1 DEF ConfigSelect, TypeOK, transactions
  <2>13. CASE ConfigUpdate(p)
    <3>1. job' \in [Procs -> Job]
      BY <2>13, ReturnType DEF ConfigUpdate
    <3>2. credit' \in Row
      BY <2>13, RowTypes DEF ConfigUpdate, Row, TypeOK
    <3>3. QED BY <2>13, <3>1, <3>2 DEF ConfigUpdate, TypeOK, transactions
  <2>14. CASE DuplicateKey(p)
    <3>1. job' \in [Procs -> Job] /\ answered' \in [Refs -> Nat]
      BY <2>14, ReturnType, RethrowType DEF DuplicateKey, TypeOK
    <3>2. QED BY <2>14, <3>1 DEF DuplicateKey, TypeOK, transactions
  <2>15. QED
    BY <1>6, <2>1, <2>2, <2>3, <2>4, <2>5, <2>6, <2>7, <2>8, <2>9, <2>10, <2>11, <2>12, <2>13, <2>14 DEF Work
<1>7. ASSUME NEW p \in Procs, StatementFails(p) PROVE TypeOK'
  <2>1. job' \in [Procs -> Job] /\ answered' \in [Refs -> Nat] /\ lock' \in Procs \cup {NoProc}
    BY <1>7, ReturnType, RethrowType, UnlockedType DEF StatementFails, TypeOK
  <2>2. QED BY <1>7, <2>1 DEF StatementFails, TypeOK, transactions
<1>8. ASSUME NEW p \in Procs, Crash(p) PROVE TypeOK'
  <2>1. job' \in [Procs -> Job] /\ lock' \in Procs \cup {NoProc}
    BY <1>8, ReturnType, UnlockedType DEF Crash
  <2>2. QED BY <1>8, <2>1 DEF Crash, TypeOK, transactions
<1>9. QED
  BY <1>1, <1>2, <1>3, <1>4, <1>5, <1>6, <1>7, <1>8, NextCases

LEMMA TypeInit == Init => TypeOK
  BY AssumptionsHold, RowTypes, NoJobType DEF Init, TypeOK

(* The types hold in every reachable state; in particular the balance is   *)
(* never negative, whatever the interleaving.                              *)
THEOREM TypeCorrect == Spec => []TypeOK
<1>1. QED BY TypeInit, TypeStep, PTL DEF Spec

-----------------------------------------------------------------------------
(* The row lock. *)
LEMMA LockStep == TypeOK /\ NoStaleWrite /\ [Next]_vars => NoStaleWrite'
<1> SUFFICES ASSUME TypeOK /\ NoStaleWrite, [Next]_vars PROVE NoStaleWrite'
  OBVIOUS
<1> USE AssumptionsHold, JobFields DEF TypeOK, NoStaleWrite, Holding
<1>1. CASE UNCHANGED vars
  BY <1>1 DEF vars, transactions
<1>2. ASSUME NEW p \in Procs, NEW a \in TopUps, AddCall(p, a) PROVE NoStaleWrite'
  BY <1>2 DEF AddCall, Start, NoJob, transactions
<1>3. ASSUME NEW p \in Procs, NEW r \in Refs, SpendCall(p, r) PROVE NoStaleWrite'
  BY <1>3 DEF SpendCall, Start, NoJob, transactions
<1>4. ASSUME NEW p \in Procs, NEW r \in Refs, RefundCall(p, r) PROVE NoStaleWrite'
  BY <1>4 DEF RefundCall, Start, NoJob, transactions
<1>5. ASSUME NEW p \in Procs, NEW t \in Thresholds, ConfigCall(p, t) PROVE NoStaleWrite'
  BY <1>5 DEF ConfigCall, Start, NoJob, transactions
<1>6. ASSUME NEW p \in Procs, Work(p) PROVE NoStaleWrite'
  <2>1. CASE AddSelect(p)
    BY <2>1 DEF AddSelect, Select, transactions
  <2>2. CASE AddCommit(p)
    BY <2>2 DEF AddCommit, Return, NoJob, transactions
  <2>3. CASE SpendSelect(p)
    BY <2>3 DEF SpendSelect, Select, transactions
  <2>4. CASE SpendReject(p)
    BY <2>4 DEF SpendReject, Return, NoJob, transactions
  <2>5. CASE SpendCommit(p)
    BY <2>5 DEF SpendCommit, Goto, Affordable, transactions
  <2>6. CASE ActionSucceeds(p)
    BY <2>6 DEF ActionSucceeds, Return, NoJob, transactions
  <2>7. CASE ActionFails(p)
    BY <2>7 DEF ActionFails, Goto, transactions
  <2>8. CASE RefundCheck(p)
    BY <2>8 DEF RefundCheck, Goto, Refundable, transactions
  <2>9. CASE RefundReject(p)
    BY <2>9 DEF RefundReject, Return, NoJob, transactions
  <2>10. CASE RefundSelect(p)
    BY <2>10 DEF RefundSelect, Select, transactions
  <2>11. CASE RefundCommit(p)
    BY <2>11 DEF RefundCommit, Return, NoJob, transactions
  <2>12. CASE ConfigSelect(p)
    <3>1. CASE job' = [job EXCEPT ![p].pc = "configUpdate", ![p].seen = credit]
      BY <2>12, <3>1 DEF ConfigSelect, transactions
    <3>2. CASE Return(p)
      BY <2>12, <3>2 DEF ConfigSelect, Return, NoJob, transactions
    <3>3. QED BY <2>12, <3>1, <3>2 DEF ConfigSelect
  <2>13. CASE ConfigUpdate(p)
    BY <2>13 DEF ConfigUpdate, Return, NoJob, transactions
  <2>14. CASE DuplicateKey(p)
    BY <2>14 DEF DuplicateKey, Return, NoJob, transactions
  <2>15. QED
    BY <1>6, <2>1, <2>2, <2>3, <2>4, <2>5, <2>6, <2>7, <2>8, <2>9, <2>10, <2>11, <2>12, <2>13, <2>14 DEF Work
<1>7. ASSUME NEW p \in Procs, StatementFails(p) PROVE NoStaleWrite'
  BY <1>7 DEF StatementFails, Return, Unlocked, NoJob, transactions
<1>8. ASSUME NEW p \in Procs, Crash(p) PROVE NoStaleWrite'
  BY <1>8 DEF Crash, Return, Unlocked, NoJob, transactions
<1>9. QED
  BY <1>1, <1>2, <1>3, <1>4, <1>5, <1>6, <1>7, <1>8, NextCases

LEMMA AccountStep == IInv /\ [Next]_vars => AccountExists'
<1> SUFFICES ASSUME IInv, [Next]_vars PROVE AccountExists'
  OBVIOUS
<1> USE AssumptionsHold, JobFields DEF TypeOK, IInv, AccountExists, NoStaleWrite, Holding, Refunding, OnRef, NoRow
<1>1. CASE UNCHANGED vars
  BY <1>1 DEF vars, transactions
<1>2. ASSUME NEW p \in Procs, NEW a \in TopUps, AddCall(p, a) PROVE AccountExists'
  BY <1>2 DEF AddCall, Start, NoJob, transactions
<1>3. ASSUME NEW p \in Procs, NEW r \in Refs, SpendCall(p, r) PROVE AccountExists'
  BY <1>3 DEF SpendCall, Start, NoJob, transactions
<1>4. ASSUME NEW p \in Procs, NEW r \in Refs, RefundCall(p, r) PROVE AccountExists'
  BY <1>4 DEF RefundCall, Start, NoJob, transactions
<1>5. ASSUME NEW p \in Procs, NEW t \in Thresholds, ConfigCall(p, t) PROVE AccountExists'
  BY <1>5 DEF ConfigCall, Start, NoJob, transactions
<1>6. ASSUME NEW p \in Procs, Work(p) PROVE AccountExists'
  <2>1. CASE AddSelect(p)
    BY <2>1 DEF AddSelect, Select, transactions
  <2>2. CASE AddCommit(p)
    BY <2>2 DEF AddCommit, Return, NoJob, transactions
  <2>3. CASE SpendSelect(p)
    BY <2>3 DEF SpendSelect, Select, transactions
  <2>4. CASE SpendReject(p)
    BY <2>4 DEF SpendReject, Return, NoJob, transactions
  <2>5. CASE SpendCommit(p)
    BY <2>5 DEF SpendCommit, Goto, Affordable, transactions
  <2>6. CASE ActionSucceeds(p)
    BY <2>6 DEF ActionSucceeds, Return, NoJob, transactions
  <2>7. CASE ActionFails(p)
    BY <2>7 DEF ActionFails, Goto, transactions
  <2>8. CASE RefundCheck(p)
    BY <2>8 DEF RefundCheck, Goto, Refundable, transactions
  <2>9. CASE RefundReject(p)
    BY <2>9 DEF RefundReject, Return, NoJob, transactions
  <2>10. CASE RefundSelect(p)
    BY <2>10 DEF RefundSelect, Select, transactions
  <2>11. CASE RefundCommit(p)
    BY <2>11 DEF RefundCommit, Return, NoJob, transactions
  <2>12. CASE ConfigSelect(p)
    <3>1. CASE job' = [job EXCEPT ![p].pc = "configUpdate", ![p].seen = credit] /\ credit.exists
      BY <2>12, <3>1 DEF ConfigSelect, transactions
    <3>2. CASE Return(p)
      BY <2>12, <3>2 DEF ConfigSelect, Return, NoJob, transactions
    <3>3. QED BY <2>12, <3>1, <3>2 DEF ConfigSelect
  <2>13. CASE ConfigUpdate(p)
    BY <2>13 DEF ConfigUpdate, Return, NoJob, transactions
  <2>14. CASE DuplicateKey(p)
    BY <2>14 DEF DuplicateKey, Return, NoJob, transactions
  <2>15. QED
    BY <1>6, <2>1, <2>2, <2>3, <2>4, <2>5, <2>6, <2>7, <2>8, <2>9, <2>10, <2>11, <2>12, <2>13, <2>14 DEF Work
<1>7. ASSUME NEW p \in Procs, StatementFails(p) PROVE AccountExists'
  BY <1>7 DEF StatementFails, Return, Unlocked, NoJob, transactions
<1>8. ASSUME NEW p \in Procs, Crash(p) PROVE AccountExists'
  BY <1>8 DEF Crash, Return, Unlocked, NoJob, transactions
<1>9. QED
  BY <1>1, <1>2, <1>3, <1>4, <1>5, <1>6, <1>7, <1>8, NextCases

LEMMA BackedStep == IInv /\ [Next]_vars => OncePerReference'
<1> SUFFICES ASSUME IInv, [Next]_vars PROVE OncePerReference'
  OBVIOUS
<1> USE AssumptionsHold, JobFields DEF TypeOK, IInv, AccountExists, OncePerReference, Refunding, OnRef
<1>1. CASE UNCHANGED vars
  BY <1>1 DEF vars, transactions
<1>2. ASSUME NEW p \in Procs, NEW a \in TopUps, AddCall(p, a) PROVE OncePerReference'
  BY <1>2 DEF AddCall, Start, NoJob, transactions
<1>3. ASSUME NEW p \in Procs, NEW r \in Refs, SpendCall(p, r) PROVE OncePerReference'
  BY <1>3 DEF SpendCall, Start, NoJob, transactions
<1>4. ASSUME NEW p \in Procs, NEW r \in Refs, RefundCall(p, r) PROVE OncePerReference'
  BY <1>4 DEF RefundCall, Start, NoJob, transactions
<1>5. ASSUME NEW p \in Procs, NEW t \in Thresholds, ConfigCall(p, t) PROVE OncePerReference'
  BY <1>5 DEF ConfigCall, Start, NoJob, transactions
<1>6. ASSUME NEW p \in Procs, Work(p) PROVE OncePerReference'
  <2>1. CASE AddSelect(p)
    BY <2>1 DEF AddSelect, Select, transactions
  <2>2. CASE AddCommit(p)
    BY <2>2 DEF AddCommit, Return, NoJob, transactions
  <2>3. CASE SpendSelect(p)
    BY <2>3 DEF SpendSelect, Select, transactions
  <2>4. CASE SpendReject(p)
    BY <2>4 DEF SpendReject, Return, NoJob, transactions
  <2>5. CASE SpendCommit(p)
    BY <2>5 DEF SpendCommit, Goto, Affordable, transactions
  <2>6. CASE ActionSucceeds(p)
    BY <2>6 DEF ActionSucceeds, Return, NoJob, transactions
  <2>7. CASE ActionFails(p)
    BY <2>7 DEF ActionFails, Goto, transactions
  <2>8. CASE RefundCheck(p)
    BY <2>8 DEF RefundCheck, Goto, Refundable, transactions
  <2>9. CASE RefundReject(p)
    BY <2>9 DEF RefundReject, Return, NoJob, transactions
  <2>10. CASE RefundSelect(p)
    BY <2>10 DEF RefundSelect, Select, transactions
  <2>11. CASE RefundCommit(p)
    BY <2>11 DEF RefundCommit, Return, NoJob, transactions
  <2>12. CASE ConfigSelect(p)
    <3>1. CASE job' = [job EXCEPT ![p].pc = "configUpdate", ![p].seen = credit] /\ credit.exists
      BY <2>12, <3>1 DEF ConfigSelect, transactions
    <3>2. CASE Return(p)
      BY <2>12, <3>2 DEF ConfigSelect, Return, NoJob, transactions
    <3>3. QED BY <2>12, <3>1, <3>2 DEF ConfigSelect
  <2>13. CASE ConfigUpdate(p)
    BY <2>13 DEF ConfigUpdate, Return, NoJob, transactions
  <2>14. CASE DuplicateKey(p)
    BY <2>14 DEF DuplicateKey, Return, NoJob, transactions
  <2>15. QED
    BY <1>6, <2>1, <2>2, <2>3, <2>4, <2>5, <2>6, <2>7, <2>8, <2>9, <2>10, <2>11, <2>12, <2>13, <2>14 DEF Work
<1>7. ASSUME NEW p \in Procs, StatementFails(p) PROVE OncePerReference'
  BY <1>7 DEF StatementFails, Return, Unlocked, NoJob, transactions
<1>8. ASSUME NEW p \in Procs, Crash(p) PROVE OncePerReference'
  BY <1>8 DEF Crash, Return, Unlocked, NoJob, transactions
<1>9. QED
  BY <1>1, <1>2, <1>3, <1>4, <1>5, <1>6, <1>7, <1>8, NextCases

LEMMA InvInit == Init => IInv
  BY AssumptionsHold, TypeInit
  DEF Init, IInv, NoStaleWrite, Holding, AccountExists, OncePerReference,
      Refunding, NoRow, NoJob

(* The inductive invariant: the one that holds the row lock has read the    *)
(* stored row, and the bookings of every reference agree with its calls.   *)
THEOREM InvariantHolds == Spec => []IInv
<1>1. IInv /\ [Next]_vars => IInv'
  BY TypeStep, LockStep, AccountStep, BackedStep DEF IInv
<1>2. QED BY InvInit, <1>1, PTL DEF Spec

(* No transaction ever writes a row that has changed since it read it: the *)
(* row lock covers the whole of addCredit, spendCredit and refundCredit.   *)
THEOREM NoStaleWrites == Spec => []NoStaleWrite
<1>1. IInv => NoStaleWrite
  BY DEF IInv
<1>2. QED BY InvariantHolds, <1>1, PTL

(* Each reference is paid at most once, and refunded at most once if paid. *)
THEOREM PaidOnce == Spec => []OncePerReference
<1>1. IInv => OncePerReference
  BY DEF IInv
<1>2. QED BY InvariantHolds, <1>1, PTL

-----------------------------------------------------------------------------
(* What a step does to the balance and to the books. *)

(* A step books amount on both sides, for the three handlers that may. *)
Deposited(amount) == /\ credit'.balance = credit.balance + amount
                     /\ sumIn' = sumIn + amount
                     /\ UNCHANGED sumOut
Withdrawn(amount) == /\ amount =< credit.balance
                     /\ credit'.balance = credit.balance - amount
                     /\ sumOut' = sumOut + amount
                     /\ UNCHANGED sumIn
Untouched == UNCHANGED <<credit, sumIn, sumOut>>

LEMMA Bookings ==
    ASSUME IInv, [Next]_vars
    PROVE  \/ \E amount \in Nat : Deposited(amount) \/ Withdrawn(amount)
           \/ Untouched
           \/ \E p \in Procs : ConfigUpdate(p)
<1> USE AssumptionsHold, JobFields DEF IInv
<1>1. ASSUME NEW p \in Procs, AddCommit(p)
      PROVE  Deposited(job[p].amount)
  <2>1. job[p].seen = credit
    BY <1>1 DEF AddCommit, NoStaleWrite, Holding
  <2>2. CASE credit.exists
    BY <1>1, <2>1, <2>2 DEF AddCommit, Deposited, TypeOK, Row
  <2>3. CASE ~ credit.exists
    BY <1>1, <2>1, <2>3 DEF AddCommit, Deposited, TypeOK, AccountExists, NoRow, Row
  <2>4. QED BY <2>2, <2>3
<1>2. ASSUME NEW p \in Procs, SpendCommit(p)
      PROVE  Withdrawn(Price[job[p].ref]) /\ Price[job[p].ref] \in Nat
  <2>1. job[p].seen = credit /\ job[p].ref \in Refs
    BY <1>2 DEF SpendCommit, NoStaleWrite, Holding, OnRef
  <2>2. QED BY <1>2, <2>1 DEF SpendCommit, Affordable, Withdrawn, TypeOK, Row
<1>3. ASSUME NEW p \in Procs, RefundCommit(p)
      PROVE  Deposited(Price[job[p].ref]) /\ Price[job[p].ref] \in Nat
  <2>1. job[p].seen = credit /\ job[p].ref \in Refs
    BY <1>3 DEF RefundCommit, NoStaleWrite, Holding, OnRef
  <2>2. QED BY <1>3, <2>1 DEF RefundCommit, Deposited, TypeOK, Row
<1>4. CASE UNCHANGED vars
  BY <1>4 DEF vars, transactions, Untouched
<1>5. ASSUME NEW p \in Procs,
             \/ \E a \in TopUps : AddCall(p, a)
             \/ \E r \in Refs : SpendCall(p, r) \/ RefundCall(p, r)
             \/ \E t \in Thresholds : ConfigCall(p, t)
             \/ StatementFails(p) \/ Crash(p)
      PROVE  Untouched
  BY <1>5 DEF AddCall, SpendCall, RefundCall, ConfigCall, StatementFails, Crash,
              Untouched, transactions
<1>6. ASSUME NEW p \in Procs,
             \/ AddSelect(p) \/ SpendSelect(p) \/ SpendReject(p)
             \/ ActionSucceeds(p) \/ ActionFails(p) \/ RefundCheck(p)
             \/ RefundReject(p) \/ RefundSelect(p) \/ ConfigSelect(p)
             \/ DuplicateKey(p)
      PROVE  Untouched
  BY <1>6 DEF DuplicateKey, AddSelect, SpendSelect, SpendReject, ActionSucceeds, ActionFails,
              RefundCheck, RefundReject, RefundSelect, ConfigSelect, Select,
              Untouched, transactions
<1>7. QED
  <2>1. CASE Next
    <3>1. PICK p \in Procs :
             \/ \E a \in TopUps : AddCall(p, a)
             \/ \E r \in Refs : SpendCall(p, r) \/ RefundCall(p, r)
             \/ \E t \in Thresholds : ConfigCall(p, t)
             \/ Work(p) \/ StatementFails(p) \/ Crash(p)
      BY <2>1, NextCases
    <3>2. QED BY <3>1, <1>1, <1>2, <1>3, <1>5, <1>6 DEF Work
  <2>2. QED BY <1>4, <2>1

(* The difference between the balance and credit_transaction changes only  *)
(* when configureCredit writes back a balance that was changed meanwhile.  *)
THEOREM DriftOnlyByConfigure == Spec => DriftOnlyByStaleConfigure
<1>1. ASSUME IInv, [Next]_vars, Drift' # Drift
      PROVE  StaleConfigure
  <2>1. PICK p \in Procs : ConfigUpdate(p)
    <3>1. ASSUME NEW amount \in Nat, Deposited(amount) PROVE Drift' = Drift
      BY <1>1, <3>1 DEF Deposited, Drift, IInv, TypeOK, Row
    <3>2. ASSUME NEW amount \in Nat, Withdrawn(amount) PROVE Drift' = Drift
      BY <1>1, <3>2 DEF Withdrawn, Drift, IInv, TypeOK, Row
    <3>3. CASE Untouched
      BY <1>1, <3>3 DEF Untouched, Drift
    <3>4. QED BY <1>1, <3>1, <3>2, <3>3, Bookings
  <2>2. /\ job[p].pc = "configUpdate" /\ UNCHANGED <<sumIn, sumOut>>
        /\ credit' = [job[p].seen EXCEPT !.threshold = job[p].amount, !.alerted = FALSE]
    BY <2>1 DEF ConfigUpdate, transactions
  <2>3. job[p].seen \in Row
    BY <1>1, JobFields DEF IInv
  <2>4. credit'.balance = job[p].seen.balance
    BY <2>2, <2>3 DEF Row
  <2>5. QED BY <1>1, <2>2, <2>4 DEF Drift, StaleConfigure
<1>2. IInv /\ [Next]_vars => [DriftStep]_vars
  BY <1>1 DEF DriftStep
<1>3. QED BY InvariantHolds, <1>2, PTL DEF Spec, DriftOnlyByStaleConfigure

-----------------------------------------------------------------------------
(* Accounts whose threshold nobody configures. *)

NoConfigure == \A p \in Procs : job[p].pc \notin {"configSelect", "configUpdate"}
LedgerInv == IInv /\ NoConfigure /\ BalanceIsLedger

LEMMA LedgerStep ==
    ASSUME Thresholds = {}
    PROVE  LedgerInv /\ [Next]_vars => LedgerInv'
<1> SUFFICES ASSUME LedgerInv, [Next]_vars PROVE LedgerInv'
  OBVIOUS
<1>1. IInv'
  BY TypeStep, LockStep, AccountStep, BackedStep DEF IInv, LedgerInv
<1>2. ~ \E p \in Procs : ConfigUpdate(p)
  BY DEF LedgerInv, NoConfigure, ConfigUpdate
<1>3. BalanceIsLedger'
  <2>1. ASSUME NEW amount \in Nat, Deposited(amount) PROVE BalanceIsLedger'
    BY <2>1 DEF Deposited, BalanceIsLedger, Drift, LedgerInv, IInv, TypeOK, Row
  <2>2. ASSUME NEW amount \in Nat, Withdrawn(amount) PROVE BalanceIsLedger'
    BY <2>2 DEF Withdrawn, BalanceIsLedger, Drift, LedgerInv, IInv, TypeOK, Row
  <2>3. CASE Untouched
    BY <2>3 DEF Untouched, BalanceIsLedger, Drift, LedgerInv
  <2>4. QED BY <1>2, <2>1, <2>2, <2>3, Bookings DEF LedgerInv
<1>4. NoConfigure'
  <2> SUFFICES ASSUME NEW q \in Procs
               PROVE  job'[q].pc \notin {"configSelect", "configUpdate"}
    BY DEF NoConfigure
  <2> USE DEF LedgerInv, NoConfigure, IInv, TypeOK
  <2>1. CASE UNCHANGED vars
    BY <2>1 DEF vars
  <2>2. ASSUME NEW p \in Procs,
               \/ \E a \in TopUps : AddCall(p, a)
               \/ \E r \in Refs : SpendCall(p, r) \/ RefundCall(p, r)
        PROVE  job'[q].pc \notin {"configSelect", "configUpdate"}
    BY <2>2 DEF AddCall, SpendCall, RefundCall, Start, NoJob
  <2>3. ASSUME NEW p \in Procs, StatementFails(p) \/ Crash(p)
        PROVE  job'[q].pc \notin {"configSelect", "configUpdate"}
    BY <2>3 DEF StatementFails, Crash, Return, NoJob
  <2>4. ASSUME NEW p \in Procs, Work(p)
        PROVE  job'[q].pc \notin {"configSelect", "configUpdate"}
    <3>1. CASE AddSelect(p) \/ SpendSelect(p) \/ RefundSelect(p)
      BY <3>1 DEF AddSelect, SpendSelect, RefundSelect, Select, Job
    <3>2. CASE SpendCommit(p) \/ ActionFails(p) \/ RefundCheck(p)
      BY <3>2 DEF SpendCommit, ActionFails, RefundCheck, Goto, Job
    <3>3. CASE AddCommit(p) \/ SpendReject(p) \/ ActionSucceeds(p)
      BY <3>3 DEF AddCommit, SpendReject, ActionSucceeds, Return, NoJob
    <3>4. CASE RefundReject(p) \/ RefundCommit(p) \/ DuplicateKey(p)
      BY <3>4 DEF RefundReject, RefundCommit, DuplicateKey, Return, NoJob
    <3>5. CASE ConfigSelect(p) \/ ConfigUpdate(p)
      BY <3>5 DEF ConfigSelect, ConfigUpdate
    <3>6. QED BY <2>4, <3>1, <3>2, <3>3, <3>4, <3>5 DEF Work
  <2>5. QED BY <2>1, <2>2, <2>3, <2>4, NextCases
<1>5. QED BY <1>1, <1>3, <1>4 DEF LedgerInv

(* As long as no threshold is configured, the balance is at any time what  *)
(* credit_transaction says it is.                                          *)
THEOREM BalanceMatches ==
    ASSUME Thresholds = {}
    PROVE  Spec => []BalanceIsLedger
<1>1. Init => LedgerInv
  BY InvInit DEF LedgerInv, NoConfigure, BalanceIsLedger, Drift, Init, NoRow, NoJob
<1>2. LedgerInv => BalanceIsLedger
  BY DEF LedgerInv
<1>3. QED BY <1>1, <1>2, LedgerStep, PTL DEF Spec

(* As long as no threshold is configured, a project never spends more than *)
(* it was given.                                                           *)
THEOREM NeverOverspent ==
    ASSUME Thresholds = {}
    PROVE  Spec => []Solvent
<1>1. TypeOK /\ BalanceIsLedger => Solvent
  BY DEF TypeOK, BalanceIsLedger, Drift, Solvent, Row
<1>2. QED BY <1>1, TypeCorrect, BalanceMatches, PTL

(* As long as no threshold is configured, the handlers, row lock and all,  *)
(* implement the atomic ledger: every step is one booking, or none.        *)
THEOREM Refinement ==
    ASSUME Thresholds = {}
    PROVE  Spec => ImplementsLedger
<1>1. Init => LedgerInv
  BY InvInit DEF LedgerInv, NoConfigure, BalanceIsLedger, Drift, Init, NoRow, NoJob
<1>2. Init => Atomic!Init
  BY DEF Init, NoRow, Atomic!Init
<1>3. LedgerInv /\ [Next]_vars => [Atomic!Next]_(Atomic!vars)
  <2> SUFFICES ASSUME LedgerInv, [Next]_vars PROVE [Atomic!Next]_(Atomic!vars)
    OBVIOUS
  <2> USE DEF LedgerInv, IInv, TypeOK, Row
  <2>1. ASSUME NEW amount \in Nat, Deposited(amount) PROVE Atomic!Next
    BY <2>1 DEF Deposited, Atomic!Next, Atomic!Deposit
  <2>2. ASSUME NEW amount \in Nat, Withdrawn(amount) PROVE Atomic!Next
    BY <2>2 DEF Withdrawn, Atomic!Next, Atomic!Withdraw
  <2>3. CASE Untouched
    BY <2>3 DEF Untouched, Atomic!vars
  <2>4. ~ \E p \in Procs : ConfigUpdate(p)
    BY DEF NoConfigure, ConfigUpdate
  <2>5. QED BY <2>1, <2>2, <2>3, <2>4, Bookings
<1>4. QED BY <1>1, <1>2, <1>3, LedgerStep, PTL DEF Spec, ImplementsLedger, Atomic!Spec

-----------------------------------------------------------------------------
(* Without faults: at most one invocation is past the payment of a         *)
(* reference, and while it is nothing was answered for the reference yet.  *)
PastPayment == {"action", "refundCheck", "refundSelect", "refundCommit"}
Paid(p, r) == job[p].paying /\ job[p].ref = r /\ job[p].pc \in PastPayment
AnswerInv ==
    \A r \in Refs :
      /\ answered[r] =< receives[r]
      /\ \A p \in Procs : Paid(p, r) => spends[r] = 1 /\ answered[r] = 0
      /\ \A p, q \in Procs : Paid(p, r) /\ Paid(q, r) => p = q

(* A step that pays nothing and answers nothing brings no invocation past  *)
(* the payment.                                                            *)
LEMMA AnswerQuiet ==
    ASSUME IInv, AnswerInv, UNCHANGED <<spends, receives, answered>>,
           \A q \in Procs, r \in Refs : Paid(q, r)' => Paid(q, r)
    PROVE  AnswerInv'
  BY DEF AnswerInv

LEMMA AnswerStep ==
    ASSUME Faults = FALSE
    PROVE  IInv /\ AnswerInv /\ [Next]_vars => AnswerInv'
<1> SUFFICES ASSUME IInv, AnswerInv, [Next]_vars PROVE AnswerInv'
  OBVIOUS
<1> USE JobFields DEF IInv, TypeOK
<1>1. CASE UNCHANGED vars
  BY <1>1 DEF vars, transactions, AnswerInv, Paid
<1>2. ASSUME NEW p \in Procs,
             \/ \E a \in TopUps : AddCall(p, a)
             \/ \E r \in Refs : SpendCall(p, r) \/ RefundCall(p, r)
             \/ \E t \in Thresholds : ConfigCall(p, t)
      PROVE  AnswerInv'
  <2>1. UNCHANGED <<spends, receives, answered>>
    BY <1>2 DEF AddCall, SpendCall, RefundCall, ConfigCall, transactions
  <2>2. \A q \in Procs, r \in Refs : Paid(q, r)' => Paid(q, r)
    <3> SUFFICES ASSUME NEW q \in Procs, NEW r \in Refs, Paid(q, r)' PROVE Paid(q, r)
      OBVIOUS
    <3>1. CASE q # p
      <4>1. job'[q] = job[q]
        BY <1>2, <3>1 DEF AddCall, SpendCall, RefundCall, ConfigCall, Start
      <4>2. QED BY <4>1 DEF Paid
    <3>2. CASE q = p
      <4>1. job'[p].pc \notin PastPayment \/ job'[p].paying = FALSE
        <5>1. ASSUME NEW a \in TopUps, AddCall(p, a) PROVE job'[p].pc = "addSelect"
          BY <5>1 DEF AddCall, Start, NoJob
        <5>2. ASSUME NEW s \in Refs, SpendCall(p, s) PROVE job'[p].pc = "spendSelect"
          BY <5>2 DEF SpendCall, Start, NoJob
        <5>3. ASSUME NEW s \in Refs, RefundCall(p, s) PROVE job'[p].paying = FALSE
          BY <5>3 DEF RefundCall, Start, NoJob
        <5>4. ASSUME NEW t \in Thresholds, ConfigCall(p, t) PROVE job'[p].pc = "configSelect"
          BY <5>4 DEF ConfigCall, Start, NoJob
        <5>5. QED BY <1>2, <5>1, <5>2, <5>3, <5>4 DEF PastPayment
      <4>2. QED BY <3>2, <4>1 DEF Paid
    <3>3. QED BY <3>1, <3>2
  <2>3. QED BY <2>1, <2>2, AnswerQuiet
<1>3. ASSUME NEW p \in Procs, Work(p) PROVE AnswerInv'
  <2>1. CASE AddSelect(p) \/ SpendSelect(p) \/ RefundSelect(p)
    <3>1. UNCHANGED <<spends, receives, answered>>
      BY <2>1 DEF AddSelect, SpendSelect, RefundSelect, Select, transactions
    <3>2. \A q \in Procs, r \in Refs : Paid(q, r)' => Paid(q, r)
      BY <2>1 DEF AddSelect, SpendSelect, RefundSelect, Select, Paid, PastPayment, Job
    <3>3. QED BY <3>1, <3>2, AnswerQuiet
  <2>2. CASE AddCommit(p) \/ SpendReject(p) \/ ActionSucceeds(p)
    <3>1. UNCHANGED <<spends, receives, answered>>
      BY <2>2 DEF AddCommit, SpendReject, ActionSucceeds, transactions
    <3>2. \A q \in Procs, r \in Refs : Paid(q, r)' => Paid(q, r)
      BY <2>2 DEF AddCommit, SpendReject, ActionSucceeds, Return, NoJob, Paid, PastPayment
    <3>3. QED BY <3>1, <3>2, AnswerQuiet
  <2>3. CASE ActionFails(p) \/ RefundCheck(p)
    <3>1. UNCHANGED <<spends, receives, answered>>
      BY <2>3 DEF ActionFails, RefundCheck, transactions
    <3>2. \A q \in Procs, r \in Refs : Paid(q, r)' => Paid(q, r)
      BY <2>3 DEF ActionFails, RefundCheck, Goto, Paid, PastPayment, Job
    <3>3. QED BY <3>1, <3>2, AnswerQuiet
  <2>4. CASE ConfigSelect(p) \/ ConfigUpdate(p)
    <3>1. UNCHANGED <<spends, receives, answered>>
      BY <2>4 DEF ConfigSelect, ConfigUpdate, transactions
    <3>2. \A q \in Procs, r \in Refs : Paid(q, r)' => Paid(q, r)
      BY <2>4 DEF ConfigSelect, ConfigUpdate, Return, NoJob, Paid, PastPayment, Job
    <3>3. QED BY <3>1, <3>2, AnswerQuiet
  <2>5. CASE SpendCommit(p)
    <3> DEFINE s == job[p].ref
    <3>1. s \in Refs /\ spends[s] = 0 /\ spends' = [spends EXCEPT ![s] = @ + 1]
      BY <2>5 DEF SpendCommit, OnRef
    <3>2. UNCHANGED <<receives, answered>>
      BY <2>5 DEF SpendCommit
    <3>3. answered[s] = 0
      BY <3>1 DEF AnswerInv, OncePerReference
    <3>4. \A q \in Procs : ~ Paid(q, s)
      BY <3>1 DEF AnswerInv
    <3>5. \A q \in Procs, r \in Refs : Paid(q, r)' => Paid(q, r) \/ (q = p /\ r = s)
      BY <2>5 DEF SpendCommit, Goto, Paid, PastPayment, Job
    <3>6. QED BY <3>1, <3>2, <3>3, <3>4, <3>5 DEF AnswerInv
  <2>6. CASE \/ RefundReject(p) \/ RefundCommit(p)
             \/ DuplicateKey(p) /\ job[p].pc = "refundCommit"
    <3> DEFINE s == job[p].ref
    <3>1. s \in Refs /\ job[p].pc \in PastPayment
      BY <2>6 DEF RefundReject, RefundCommit, OnRef, PastPayment
    <3>2. Rethrow(p) /\ spends' = spends
      BY <2>6 DEF RefundReject, RefundCommit, DuplicateKey, transactions
    <3>3. \A r \in Refs : receives'[r] >= receives[r]
      BY <2>6 DEF RefundReject, RefundCommit, DuplicateKey, transactions
    <3>4. job[p].paying => receives'[s] >= 1
      <4>1. CASE RefundReject(p)
        <5>1. job[p].paying => spends[s] > 0
          BY <3>1 DEF AnswerInv, Paid
        <5>2. QED BY <4>1, <5>1, <3>1 DEF RefundReject, Refundable, transactions
      <4>2. CASE RefundCommit(p)
        BY <4>2, <3>1 DEF RefundCommit
      <4>3. CASE DuplicateKey(p)
        BY <2>6, <4>3, <3>1 DEF DuplicateKey, transactions, RefundReject, RefundCommit
      <4>4. QED BY <2>6, <4>1, <4>2, <4>3
    <3>5. \A q \in Procs, r \in Refs : Paid(q, r)' => Paid(q, r) /\ q # p
      BY <2>6 DEF RefundReject, RefundCommit, DuplicateKey, Return, NoJob, Paid, PastPayment
    <3>6. CASE job[p].paying
      <4>1. Paid(p, s)
        BY <3>1, <3>6 DEF Paid
      <4>2. answered[s] = 0 /\ \A q \in Procs : Paid(q, s) => q = p
        BY <4>1, <3>1 DEF AnswerInv
      <4>3. answered' = [answered EXCEPT ![s] = @ + 1]
        BY <3>2, <3>6 DEF Rethrow
      <4>4. receives' \in [Refs -> Nat]
        BY TypeStep
      <4>5. ASSUME NEW r \in Refs
            PROVE  /\ answered'[r] =< receives'[r]
                   /\ \A q \in Procs : Paid(q, r)' => spends'[r] = 1 /\ answered'[r] = 0
                   /\ \A q, o \in Procs : Paid(q, r)' /\ Paid(o, r)' => q = o
        <5>1. CASE r = s
          BY <3>1, <3>4, <3>5, <3>6, <4>2, <4>3, <4>4, <5>1
        <5>2. CASE r # s
          <6>1. answered'[r] = answered[r] /\ receives'[r] >= receives[r]
            BY <3>1, <3>3, <4>3, <5>2
          <6>2. answered[r] =< receives[r]
            BY DEF AnswerInv
          <6>3. answered'[r] =< receives'[r]
            BY <4>4, <6>1, <6>2
          <6>4. QED BY <3>2, <3>5, <6>1, <6>3 DEF AnswerInv
        <5>3. QED BY <5>1, <5>2
      <4>6. QED BY <4>5 DEF AnswerInv
    <3>7. CASE ~ job[p].paying
      <4>1. answered' = answered
        BY <3>2, <3>7 DEF Rethrow
      <4>2. receives' \in [Refs -> Nat]
        BY TypeStep
      <4>3. QED BY <3>2, <3>3, <3>5, <4>1, <4>2 DEF AnswerInv
    <3>8. QED BY <3>6, <3>7
  <2>7. CASE DuplicateKey(p) /\ job[p].pc # "refundCommit"
    <3>1. UNCHANGED <<spends, receives, answered>>
      BY <2>7 DEF DuplicateKey, transactions
    <3>2. \A q \in Procs, r \in Refs : Paid(q, r)' => Paid(q, r)
      BY <2>7 DEF DuplicateKey, Return, NoJob, Paid, PastPayment
    <3>3. QED BY <3>1, <3>2, AnswerQuiet
  <2>8. QED BY <1>3, <2>1, <2>2, <2>3, <2>4, <2>5, <2>6, <2>7 DEF Work
<1>4. ASSUME NEW p \in Procs, StatementFails(p) \/ Crash(p) PROVE AnswerInv'
  BY <1>4 DEF StatementFails, Crash
<1>5. QED BY <1>1, <1>2, <1>3, <1>4, NextCases

(* Without faults, the error of a paid action reaches its caller only with *)
(* the credits back on the account, also where references are used again.  *)
THEOREM FailuresRefunded ==
    ASSUME Faults = FALSE
    PROVE  Spec => []EachFailureRefunded
<1>1. Init => AnswerInv
  BY DEF Init, AnswerInv, Paid, NoJob
<1>2. AnswerInv => EachFailureRefunded
  BY DEF AnswerInv, EachFailureRefunded
<1>3. QED BY InvariantHolds, <1>1, <1>2, AnswerStep, PTL DEF Spec
=============================================================================
