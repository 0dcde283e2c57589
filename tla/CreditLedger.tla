---------------------------- MODULE CreditLedger ----------------------------
(***************************************************************************)
(* The credit account of one project: the row of table credit, the rows of *)
(* table credit_transaction, and the handlers of the config service that   *)
(* change them (addCredit, configureCredit, spendCredit, refundCredit),    *)
(* with the wrapper spendCreditAction that every paying service runs.      *)
(*                                                                         *)
(* A handler is a lambda invocation; Procs are the invocations in flight.  *)
(* Each transaction starts with SELECT ... FOR UPDATE and ends with COMMIT *)
(* or ROLLBACK, so it has two steps: Lock (which reads the row into the    *)
(* invocation's memory) and the commit (which publishes the writes made in *)
(* between).  A statement that runs outside a transaction is one step.     *)
(* The table has no index on project_uuid, so FOR UPDATE locks every row:  *)
(* one lock word stands for the table.                                     *)
(*                                                                         *)
(* credit_transaction is kept as the facts its readers ask for: per        *)
(* reference the number of SPEND and of RECEIVE rows, and the two sums.    *)
(* Its key transaction_key makes (direction, reference) unique.            *)
(***************************************************************************)
EXTENDS Integers

CONSTANTS
    Procs,        \* concurrent lambda invocations
    Refs,         \* the (referenceTable, referenceId) pairs that are paid for
    Price,        \* Price[r]: credits that the product behind r costs
    TopUps,       \* amounts a payment, a subscription or a promo code adds
    Thresholds,   \* alert thresholds a project owner may configure
    CallsPerRef,  \* bound: calls of spendCreditAction with the same reference
    MaxTopUps,    \* bound: calls of addCredit
    Faults,       \* whether an invocation may crash or lose its database
    NoProc, NoRef \* "nobody" and "nothing"

ASSUME ProcsAssumption == NoProc \notin Procs /\ NoRef \notin Refs
ASSUME PriceAssumption == Price \in [Refs -> Nat]
ASSUME AmountsAssumption == TopUps \subseteq Nat /\ Thresholds \subseteq Nat
ASSUME BoundsAssumption == CallsPerRef \in Nat /\ MaxTopUps \in Nat
ASSUME FaultsAssumption == Faults \in BOOLEAN

VARIABLES
    credit,    \* the committed row of table credit
    spends,    \* SPEND rows of credit_transaction, per reference
    receives,  \* RECEIVE rows of credit_transaction, per reference
    sumIn,     \* sum of the amounts of all RECEIVE rows
    sumOut,    \* sum of the amounts of all SPEND rows
    topUps,    \* calls of addCredit so far (bounded by MaxTopUps)
    calls,     \* calls of spendCreditAction so far, per reference (bounded by
               \* CallsPerRef; more than one where no fresh uuid is made, as
               \* for the second change of a website's domain on one day)
    lock,      \* the invocation whose transaction holds the row lock
    job,       \* what each invocation is doing
    answered   \* per reference, calls of spendCreditAction that ended by
               \* rethrowing the error of the paid action

transactions == <<spends, receives, sumIn, sumOut>>
vars == <<credit, transactions, topUps, calls, lock, job, answered>>

DefaultThreshold == 200
NoRow == [exists |-> FALSE, balance |-> 0, threshold |-> DefaultThreshold,
          alerted |-> FALSE]
Row == [exists : BOOLEAN, balance : Nat, threshold : Nat, alerted : BOOLEAN]

Holding == {"addCommit", "spendCommit", "refundCommit"}
OnRef == {"spendSelect", "spendCommit", "action", "refundCheck",
          "refundSelect", "refundCommit"}
Refunding == {"refundSelect", "refundCommit"}
PCs == {"idle", "configSelect", "configUpdate", "addSelect", "addCommit"} \cup OnRef

(* What an invocation keeps in memory: where it is, the reference or the   *)
(* amount it was called with, the row it read, and whether it runs inside  *)
(* spendCreditAction.  An invocation that works on a reference has one.    *)
Job == {j \in [pc : PCs, ref : Refs \cup {NoRef}, amount : Nat, seen : Row,
                paying : BOOLEAN] :
          j.pc \in OnRef \/ j.paying => j.ref \in Refs}
NoJob == [pc |-> "idle", ref |-> NoRef, amount |-> 0, seen |-> NoRow,
          paying |-> FALSE]

Init == /\ credit = NoRow
        /\ spends = [r \in Refs |-> 0]
        /\ receives = [r \in Refs |-> 0]
        /\ sumIn = 0 /\ sumOut = 0
        /\ topUps = 0
        /\ calls = [r \in Refs |-> 0]
        /\ lock = NoProc
        /\ job = [p \in Procs |-> NoJob]
        /\ answered = [r \in Refs |-> 0]

-----------------------------------------------------------------------------
(* How an invocation moves. *)

Start(p, newJob) ==
    /\ job[p].pc = "idle"
    /\ job' = [job EXCEPT ![p] = newJob]
Goto(p, label) == job' = [job EXCEPT ![p].pc = label]
Return(p) == job' = [job EXCEPT ![p] = NoJob]

(* spendCreditAction rethrows the error of the action once its refund came *)
(* back, whatever the refund's result was.                                 *)
Rethrow(p) ==
    answered' = IF job[p].paying
                THEN [answered EXCEPT ![job[p].ref] = @ + 1]
                ELSE answered

\* seeded fault: the row is read without FOR UPDATE
SelectUnlocked(p, from, to) ==
    /\ job[p].pc = from
    /\ lock' = p
    /\ job' = [job EXCEPT ![p].pc = to, ![p].seen = credit]
    /\ UNCHANGED <<credit, transactions, topUps, calls, answered>>

(* SELECT * FROM credit ... FOR UPDATE, the first statement of the         *)
(* transactions of addCredit, spendCredit and refundCredit.                *)
Select(p, from, to) ==
    /\ job[p].pc = from
    /\ lock = NoProc
    /\ lock' = p
    /\ job' = [job EXCEPT ![p].pc = to, ![p].seen = credit]
    /\ UNCHANGED <<credit, transactions, topUps, calls, answered>>

-----------------------------------------------------------------------------
(* addCredit *)

AddCall(p, amount) ==
    /\ topUps < MaxTopUps
    /\ Start(p, [NoJob EXCEPT !.pc = "addSelect", !.amount = amount])
    /\ topUps' = topUps + 1
    /\ UNCHANGED <<credit, transactions, calls, lock, answered>>

AddSelect(p) == Select(p, "addSelect", "addCommit")

AddCommit(p) ==
    /\ job[p].pc = "addCommit"
    /\ LET row == job[p].seen IN
       credit' = IF row.exists
                 THEN [row EXCEPT !.balance = @ + job[p].amount, !.alerted = FALSE]
                 ELSE [NoRow EXCEPT !.exists = TRUE, !.balance = job[p].amount]
    /\ sumIn' = sumIn + job[p].amount
    /\ lock' = NoProc
    /\ Return(p)
    /\ UNCHANGED <<spends, receives, sumOut, topUps, calls, answered>>

-----------------------------------------------------------------------------
(* spendCredit, called by spendCreditAction *)

SpendCall(p, r) ==
    /\ calls[r] < CallsPerRef
    /\ Start(p, [NoJob EXCEPT !.pc = "spendSelect", !.ref = r, !.paying = TRUE])
    /\ calls' = [calls EXCEPT ![r] = @ + 1]
    /\ UNCHANGED <<credit, transactions, topUps, lock, answered>>

SpendSelect(p) == Select(p, "spendSelect", "spendCommit")

Affordable(row, r) == row.exists /\ row.balance >= Price[r]

\* seeded fault: thrown without a rollback
SpendRejectHolding(p) ==
    /\ job[p].pc = "spendCommit"
    /\ ~ Affordable(job[p].seen, job[p].ref)
    /\ Return(p)
    /\ UNCHANGED <<credit, transactions, topUps, calls, lock, answered>>

(* CREDIT_BALANCE_TOO_LOW: roll back; the paid action is not run. *)
SpendReject(p) ==
    /\ job[p].pc = "spendCommit"
    /\ ~ Affordable(job[p].seen, job[p].ref)
    /\ lock' = NoProc
    /\ Return(p)
    /\ UNCHANGED <<credit, transactions, topUps, calls, answered>>

(* The alert mail goes out (and is noted in the row) only if the owner can *)
(* be looked up and the mail service answers.                              *)
SpendCommit(p) ==
    LET row == job[p].seen
        r == job[p].ref
        left == row.balance - Price[r]
    IN /\ job[p].pc = "spendCommit"
       /\ Affordable(row, r)
       /\ spends[r] = 0
       /\ \E mailed \in {FALSE, left < row.threshold /\ ~ row.alerted} :
            credit' = [row EXCEPT !.balance = left, !.alerted = @ \/ mailed]
       /\ spends' = [spends EXCEPT ![r] = @ + 1]
       /\ sumOut' = sumOut + Price[r]
       /\ lock' = NoProc
       /\ Goto(p, "action")
       /\ UNCHANGED <<receives, sumIn, topUps, calls, answered>>

(* The paid action itself runs in the paying service. *)
ActionSucceeds(p) ==
    /\ job[p].pc = "action"
    /\ Return(p)
    /\ UNCHANGED <<credit, transactions, topUps, calls, lock, answered>>

\* seeded fault: the error is rethrown without a refund
ActionFailsUnrefunded(p) ==
    /\ job[p].pc = "action"
    /\ Return(p) /\ Rethrow(p)
    /\ UNCHANGED <<credit, transactions, topUps, calls, lock>>

ActionFails(p) ==
    /\ job[p].pc = "action"
    /\ Goto(p, "refundCheck")
    /\ UNCHANGED <<credit, transactions, topUps, calls, lock, answered>>

-----------------------------------------------------------------------------
(* refundCredit, called by spendCreditAction after a failed action and by  *)
(* the workers that learn later that a paid transaction failed             *)

RefundCall(p, r) ==
    /\ Start(p, [NoJob EXCEPT !.pc = "refundCheck", !.ref = r])
    /\ UNCHANGED <<credit, transactions, topUps, calls, lock, answered>>

(* populateRefundableTransaction: a query of its own, before the           *)
(* transaction starts.                                                     *)
Refundable(r) == spends[r] > 0 /\ receives[r] = 0

RefundCheck(p) ==
    /\ job[p].pc = "refundCheck"
    /\ Refundable(job[p].ref)
    /\ Goto(p, "refundSelect")
    /\ UNCHANGED <<credit, transactions, topUps, calls, lock, answered>>

RefundReject(p) ==
    /\ job[p].pc = "refundCheck"
    /\ ~ Refundable(job[p].ref)
    /\ Return(p)
    /\ Rethrow(p)
    /\ UNCHANGED <<credit, transactions, topUps, calls, lock>>

RefundSelect(p) == Select(p, "refundSelect", "refundCommit")

\* seeded fault: credit_transaction has no unique key
RefundCommitUnkeyed(p) ==
    LET r == job[p].ref
    IN /\ job[p].pc = "refundCommit"
       /\ credit' = [job[p].seen EXCEPT !.balance = @ + Price[r]]
       /\ receives' = [receives EXCEPT ![r] = @ + 1]
       /\ sumIn' = sumIn + Price[r]
       /\ lock' = NoProc
       /\ Return(p)
       /\ Rethrow(p)
       /\ UNCHANGED <<spends, sumOut, topUps, calls>>

RefundCommit(p) ==
    LET r == job[p].ref
    IN /\ job[p].pc = "refundCommit"
       /\ receives[r] = 0
       /\ credit' = [job[p].seen EXCEPT !.balance = @ + Price[r]]
       /\ receives' = [receives EXCEPT ![r] = @ + 1]
       /\ sumIn' = sumIn + Price[r]
       /\ lock' = NoProc
       /\ Return(p)
       /\ Rethrow(p)
       /\ UNCHANGED <<spends, sumOut, topUps, calls>>

(* The insert of a second row with the same direction and reference fails: *)
(* the transaction is rolled back, the new balance with it.  A payment is  *)
(* refused then; a refund is logged and its error swallowed.               *)
DuplicateKey(p) ==
    /\ \/ /\ job[p].pc = "spendCommit"
          /\ Affordable(job[p].seen, job[p].ref)
          /\ spends[job[p].ref] > 0
          /\ UNCHANGED answered
       \/ /\ job[p].pc = "refundCommit"
          /\ receives[job[p].ref] > 0
          /\ Rethrow(p)
    /\ lock' = NoProc
    /\ Return(p)
    /\ UNCHANGED <<credit, transactions, topUps, calls>>

-----------------------------------------------------------------------------
(* configureCredit: the SELECT ... FOR UPDATE gets no connection, so it is *)
(* a transaction of its own and its lock is gone when it returns.          *)

ConfigCall(p, threshold) ==
    /\ Start(p, [NoJob EXCEPT !.pc = "configSelect", !.amount = threshold])
    /\ UNCHANGED <<credit, transactions, topUps, calls, lock, answered>>

ConfigSelect(p) ==
    /\ job[p].pc = "configSelect"
    /\ lock = NoProc
    /\ IF credit.exists /\ credit.threshold # job[p].amount
       THEN job' = [job EXCEPT ![p].pc = "configUpdate", ![p].seen = credit]
       ELSE Return(p)
    /\ UNCHANGED <<credit, transactions, topUps, calls, lock, answered>>

(* update() writes every column that is serializable for UPDATE_DB, the    *)
(* balance among them.                                                     *)
ConfigUpdate(p) ==
    /\ job[p].pc = "configUpdate"
    /\ lock = NoProc
    /\ credit' = [job[p].seen EXCEPT !.threshold = job[p].amount,
                                     !.alerted = FALSE]
    /\ Return(p)
    /\ UNCHANGED <<transactions, topUps, calls, lock, answered>>

-----------------------------------------------------------------------------
(* Faults *)

Unlocked(p) == lock' = IF lock = p THEN NoProc ELSE lock

\* seeded fault: the row is updated on a connection of its own, so that a
\* failure of the next statement does not roll it back
StatementFailsHalfway(p) ==
    /\ Faults
    /\ job[p].pc = "addCommit"
    /\ credit' = [job[p].seen EXCEPT !.exists = TRUE, !.balance = @ + job[p].amount]
    /\ Unlocked(p) /\ Return(p)
    /\ UNCHANGED <<transactions, topUps, calls, answered>>

(* A statement fails (deadlock victim, lost connection): the handler rolls *)
(* back and throws; the refund wrapper logs and swallows the error.        *)
StatementFails(p) ==
    /\ Faults
    /\ job[p].pc \notin {"idle", "action"}
    /\ Unlocked(p)
    /\ Return(p)
    /\ IF job[p].pc \in {"refundCheck", "refundSelect", "refundCommit"}
       THEN Rethrow(p)
       ELSE UNCHANGED answered
    /\ UNCHANGED <<credit, transactions, topUps, calls>>

(* The lambda dies, or the caller never gets its answer; the database      *)
(* rolls back an open transaction.                                         *)
Crash(p) ==
    /\ Faults
    /\ job[p].pc # "idle"
    /\ Unlocked(p)
    /\ Return(p)
    /\ UNCHANGED <<credit, transactions, topUps, calls, answered>>

-----------------------------------------------------------------------------
Calls(p) ==
    \/ \E a \in TopUps : AddCall(p, a)
    \/ \E r \in Refs : SpendCall(p, r) \/ RefundCall(p, r)
    \/ \E t \in Thresholds : ConfigCall(p, t)

(* The steps an invocation takes once it was called. *)
Work(p) ==
    \/ AddSelect(p) \/ AddCommit(p)
    \/ SpendSelect(p) \/ SpendReject(p) \/ SpendCommit(p)
    \/ ActionSucceeds(p) \/ ActionFails(p)
    \/ RefundCheck(p) \/ RefundReject(p) \/ RefundSelect(p) \/ RefundCommit(p)
    \/ DuplicateKey(p)
    \/ ConfigSelect(p) \/ ConfigUpdate(p)

Next == \E p \in Procs : Calls(p) \/ Work(p) \/ StatementFails(p) \/ Crash(p)

Spec == Init /\ [][Next]_vars

(* InnoDB grants a row lock in the order it was asked for, hence strong    *)
(* fairness for an invocation that is again and again able to take it.     *)
FairSpec == Spec /\ \A p \in Procs : SF_vars(Work(p))

-----------------------------------------------------------------------------
(* Types of the row, the counters and what each invocation keeps in        *)
(* memory.  The balance is a natural number: spendCredit refuses what the  *)
(* row cannot pay.                                                         *)
TypeOK ==
    /\ credit \in Row
    /\ spends \in [Refs -> Nat] /\ receives \in [Refs -> Nat]
    /\ sumIn \in Nat /\ sumOut \in Nat
    /\ topUps \in 0..MaxTopUps /\ calls \in [Refs -> 0..CallsPerRef]
    /\ lock \in Procs \cup {NoProc}
    /\ job \in [Procs -> Job]
    /\ answered \in [Refs -> Nat]

(* A transaction that is about to write the row still sees the row as it   *)
(* is in the database: FOR UPDATE on the transaction's own connection keeps *)
(* every other writer, configureCredit included, out until COMMIT.         *)
NoStaleWrite ==
    \A p \in Procs : job[p].pc \in Holding => lock = p /\ job[p].seen = credit

(* The balance of the account is what credit_transaction says it is:       *)
(* everything received minus everything spent, after any interleaving of   *)
(* top-ups, payments and refunds and any rollback.                         *)
Drift == credit.balance - (sumIn - sumOut)
BalanceIsLedger == Drift = 0

(* A project never spends more than it was given. *)
Solvent == sumOut =< sumIn

(* Where the balance and credit_transaction come apart, it is by a         *)
(* configureCredit that writes back a balance which changed after it was   *)
(* read; no step of another handler ever adds to the difference.           *)
StaleConfigure == \E p \in Procs : /\ job[p].pc = "configUpdate"
                                   /\ job[p].seen.balance # credit.balance
DriftStep == Drift' # Drift => StaleConfigure
DriftOnlyByStaleConfigure == [][DriftStep]_vars

(* What is paid under a reference is paid once and given back at most once, *)
(* however often the payment is tried and its failure reported, although   *)
(* the check for a refundable payment is made before the transaction.      *)
OncePerReference == \A r \in Refs : receives[r] =< spends[r] /\ spends[r] =< 1

(* When spendCreditAction has reported the failure of the paid action to   *)
(* its caller, the credits of that call are back on the account.           *)
EachFailureRefunded == \A r \in Refs : answered[r] =< receives[r]

(* The handlers, row lock and all, are an atomic ledger to whoever reads   *)
(* the committed tables.                                                   *)
Atomic == INSTANCE Ledger WITH balance <- credit.balance,
                               credited <- sumIn, debited <- sumOut
ImplementsLedger == Atomic!Spec

(* Every invocation ends: none waits forever for the row lock. *)
InvocationsEnd ==
    \A p \in Procs : job[p].pc # "idle" ~> job[p].pc = "idle"
=============================================================================
