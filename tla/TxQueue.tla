------------------------------ MODULE TxQueue ------------------------------
(***************************************************************************)
(* The blockchain service's transaction queue of one EVM wallet: creation  *)
(* (a nonce is drawn under the wallet's row lock), transmission to the     *)
(* node, verification against the indexer, and the check that finds        *)
(* transactions the node forgot and makes them be sent again.  The four    *)
(* are lambdas that share the rows of tables wallet and transaction_queue; *)
(* each of them reads, calls the node or the indexer, and writes later     *)
(* what it concluded.  Nothing keeps two instances of one apart here (see  *)
(* JobLock for what their job lock is worth).                              *)
(*                                                                         *)
(* The node, the chain and the indexer are external: a pool of accepted    *)
(* transactions, of which the chain takes the lowest nonce next, blocks    *)
(* that are sealed, and an indexer that follows.  Blocks are final.        *)
(* queue[n + 1] is the row of the transaction with nonce n.                *)
(***************************************************************************)
EXTENDS Integers, Sequences

CONSTANTS
    Creators,      \* instances of createTransaction
    Transmitters,  \* instances of transmitTransactions
    Verifiers,     \* instances of EvmTransactionWorker
    Checkers,      \* instances of CheckPendingTransactionsWorker
    ParseSize,     \* wallet.blockParseSize
    MaxTxs,        \* bound: transactions created
    EmptyBlocks,   \* bound: blocks without a transaction of this wallet
    MaxDrops,      \* bound: transactions the node forgets
    NodeErrors,    \* whether the node may refuse, or its answer be lost
    Faults,        \* whether lambdas may die and transactions roll back
    Nobody         \* holder of a free lock

ASSUME RolesAssumption == Nobody \notin Creators
ASSUME SizeAssumption == ParseSize \in Nat \ {0}
ASSUME BoundsAssumption == MaxTxs \in Nat /\ EmptyBlocks \in Nat /\ MaxDrops \in Nat
ASSUME FaultsAssumption == NodeErrors \in BOOLEAN /\ Faults \in BOOLEAN

VARIABLES
    queue,      \* table transaction_queue, ordered by nonce
    wallet,     \* the wallet's row
    lock,       \* the creator whose transaction holds the wallet's row
    drawn,      \* per creator, the nonce it read
    transmit,   \* per transmitter, its local state
    verify,     \* per verifier, its local state
    check,      \* per checker, its local state
    pool,       \* external: nonces the node has accepted, not yet in a block
    mined,      \* external: mined[n + 1] is the block and outcome of nonce n
    height,     \* external: the last sealed block
    indexed,    \* external: the last block the indexer has
    drops,      \* transactions dropped so far (bounded by MaxDrops)
    accepted    \* history: nonces the node has ever accepted

chain == <<pool, mined, height, indexed, drops, accepted>>
vars == <<queue, wallet, lock, drawn, transmit, verify, check, chain>>

Pending == "PENDING"
Confirmed == "CONFIRMED"
Failed == "FAILED"
Final == {Confirmed, Failed}
Tx == [nonce : Nat, status : {Pending} \cup Final]

None == -2   \* null or undefined where a nonce may stand

Wallet == [nextNonce : Nat, lastProcessed : Nat \cup {-1},
           lastReset : Nat \cup {-1, None}, lastParsed : Nat]
Transmit == [pc : {"idle", "list", "send", "repair", "done"},
             base : Nat \cup {-1}, list : Seq(Tx), pos : Nat \ {0},
             latest : Nat \cup {None}]
Verify == [pc : {"idle", "fetch", "update"}, from : Nat, to : Nat]
Check == [pc : {"idle", "count", "reset"}, minNonce : Nat,
          lastProcessed : Nat \cup {-1}]
Mined == [block : Nat, ok : BOOLEAN]

NoTransmit == [pc |-> "idle", base |-> -1, list |-> <<>>, pos |-> 1,
               latest |-> None]
NoVerify == [pc |-> "idle", from |-> 0, to |-> 0]
NoCheck == [pc |-> "idle", minNonce |-> 0, lastProcessed |-> -1]

Init == /\ queue = <<>>
        /\ wallet = [nextNonce |-> 0, lastProcessed |-> -1,
                     lastReset |-> None, lastParsed |-> 0]
        /\ lock = Nobody
        /\ drawn = [c \in Creators |-> 0]
        /\ transmit = [t \in Transmitters |-> NoTransmit]
        /\ verify = [v \in Verifiers |-> NoVerify]
        /\ check = [c \in Checkers |-> NoCheck]
        /\ pool = {} /\ mined = <<>> /\ height = 0 /\ indexed = 0
        /\ drops = 0 /\ accepted = {}

-----------------------------------------------------------------------------
(* createTransaction *)

(* SELECT * FROM wallet ... FOR UPDATE *)
CreateSelect(c) ==
    /\ Len(queue) < MaxTxs
    /\ lock = Nobody
    /\ lock' = c
    /\ drawn' = [drawn EXCEPT ![c] = wallet.nextNonce]
    /\ UNCHANGED <<queue, wallet, transmit, verify, check, chain>>

(* The row is inserted, nextNonce counted up in the database, and both are *)
(* committed; (chain, address, nonce) is unique.                           *)
CreateCommit(c) ==
    /\ lock = c
    /\ \A k \in 1..Len(queue) : queue[k].nonce # drawn[c]
    /\ queue' = Append(queue, [nonce |-> drawn[c], status |-> Pending])
    /\ wallet' = [wallet EXCEPT !.nextNonce = @ + 1]
    /\ lock' = Nobody
    /\ UNCHANGED <<drawn, transmit, verify, check, chain>>

\* seeded fault: nextNonce is counted up outside the transaction
CreateRollbackIterated(c) ==
    /\ lock = c
    /\ Faults
    /\ lock' = Nobody
    /\ wallet' = [wallet EXCEPT !.nextNonce = @ + 1]
    /\ UNCHANGED <<queue, drawn, transmit, verify, check, chain>>

(* Gas estimation, signing or the insert fails: rollback. *)
CreateRollback(c) ==
    /\ lock = c
    /\ Faults \/ \E k \in 1..Len(queue) : queue[k].nonce = drawn[c]
    /\ lock' = Nobody
    /\ UNCHANGED <<queue, wallet, drawn, transmit, verify, check, chain>>

-----------------------------------------------------------------------------
(* transmitTransactions.  A send has one of four answers: the node takes   *)
(* the transaction; it takes it but the answer is lost; it knows it or has *)
(* its nonce in a block already; or any other error.                       *)

Sending(t) == /\ transmit[t].pc = "send"
              /\ transmit[t].pos =< Len(transmit[t].list)
Current(t) == transmit[t].list[transmit[t].pos]
Nonce(t) == Current(t).nonce

(* for (const transaction of transactions): on to the next, or out.        *)
Continue(t, latest) ==
    transmit' = [transmit EXCEPT ![t].pc = "send", ![t].pos = @ + 1,
                                 ![t].latest = latest]
Break(t, latest) ==
    transmit' = [transmit EXCEPT ![t].pc = "done", ![t].latest = latest]

Known(n) == n \in pool \/ n < Len(mined)

Accept(n) == /\ pool' = pool \cup {n}
             /\ accepted' = accepted \cup {n}
             /\ UNCHANGED <<mined, height, indexed, drops>>

TransmitBegin(t) ==
    /\ transmit[t].pc = "idle"
    /\ transmit' = [transmit EXCEPT ![t].pc = "list",
                                    ![t].base = wallet.lastProcessed]
    /\ UNCHANGED <<queue, wallet, lock, drawn, verify, check, chain>>

(* getList: the rows with a higher nonce than base, ordered by nonce. *)
RowsAfter(base) ==
    [k \in 1..(Len(queue) - base - 1) |-> queue[base + 1 + k]]

TransmitList(t) ==
    /\ transmit[t].pc = "list"
    /\ transmit' = [transmit EXCEPT ![t].pc = "send",
                                    ![t].list = RowsAfter(transmit[t].base)]
    /\ UNCHANGED <<queue, wallet, lock, drawn, verify, check, chain>>

SkipFinal(t) ==
    /\ Sending(t)
    /\ Current(t).status \in Final
    /\ Continue(t, Nonce(t))
    /\ UNCHANGED <<queue, wallet, lock, drawn, verify, check, chain>>

SendTaken(t) ==
    /\ Sending(t)
    /\ Current(t).status \notin Final
    /\ ~ Known(Nonce(t))
    /\ Accept(Nonce(t))
    /\ Continue(t, Nonce(t))
    /\ UNCHANGED <<queue, wallet, lock, drawn, verify, check>>

SendLost(t) ==
    /\ NodeErrors
    /\ Sending(t)
    /\ Current(t).status \notin Final
    /\ ~ Known(Nonce(t))
    /\ Accept(Nonce(t))
    /\ Break(t, transmit[t].latest)
    /\ UNCHANGED <<queue, wallet, lock, drawn, verify, check>>

\* seeded fault: after an error the loop goes on
SendRejectedContinue(t) ==
    /\ NodeErrors
    /\ Sending(t)
    /\ Current(t).status \notin Final
    /\ Continue(t, transmit[t].latest)
    /\ UNCHANGED <<queue, wallet, lock, drawn, verify, check, chain>>

SendRejected(t) ==
    /\ NodeErrors
    /\ Sending(t)
    /\ Current(t).status \notin Final
    /\ Break(t, transmit[t].latest)
    /\ UNCHANGED <<queue, wallet, lock, drawn, verify, check, chain>>

SendKnown(t) ==
    /\ Sending(t)
    /\ Current(t).status \notin Final
    /\ Known(Nonce(t))
    /\ transmit' = [transmit EXCEPT ![t].pc = "repair"]
    /\ UNCHANGED <<queue, wallet, lock, drawn, verify, check, chain>>

(* getTransactionCount(address, "pending"): what is in blocks, and what of *)
(* the pool follows without a gap.                                         *)
IsPendingCount(count) ==
    /\ count >= Len(mined)
    /\ count \notin pool
    /\ \A n \in Len(mined)..(count - 1) : n \in pool

\* seeded fault: the next nonce for the last one
RepairedAhead(t, count) ==
    IF count # 0 /\ transmit[t].base =< count - 1 THEN count ELSE None

(* trySelfRepairNonce, with the wallet as it was read at the beginning.    *)
(* Where it finds nothing, and also where it finds nonce 0, the loop ends; *)
(* what was sent before is forgotten if it finds nothing.                  *)
(* The transaction of the row is then asked of the chain by its hash and   *)
(* compared with the address and the nonce.  The node knows it, as count   *)
(* includes it, and a hash stands for one sender and one nonce: that check *)
(* passes.                                                                 *)
Repaired(t, count) ==
    IF /\ count # 0
       /\ transmit[t].base =< count - 1
       /\ \E k \in 1..Len(queue) : queue[k].nonce = count - 1
    THEN count - 1
    ELSE None

TransmitRepair(t) ==
    /\ transmit[t].pc = "repair"
    /\ \E count \in 0..MaxTxs :
         /\ IsPendingCount(count)
         /\ IF Repaired(t, count) \in {None, 0}
            THEN Break(t, Repaired(t, count))
            ELSE Continue(t, Repaired(t, count))
    /\ UNCHANGED <<queue, wallet, lock, drawn, verify, check, chain>>

(* updateLastProcessedNonce, unless nothing was learnt. *)
TransmitFinish(t) ==
    /\ \/ transmit[t].pc = "done"
       \/ transmit[t].pc = "send" /\ ~ Sending(t)
    /\ lock = Nobody
    /\ wallet' = IF transmit[t].latest = None THEN wallet
                 ELSE [wallet EXCEPT !.lastProcessed = transmit[t].latest]
    /\ transmit' = [transmit EXCEPT ![t] = NoTransmit]
    /\ UNCHANGED <<queue, lock, drawn, verify, check, chain>>

TransmitDies(t) ==
    /\ Faults
    /\ transmit[t].pc # "idle"
    /\ transmit' = [transmit EXCEPT ![t] = NoTransmit]
    /\ UNCHANGED <<queue, wallet, lock, drawn, verify, check, chain>>

-----------------------------------------------------------------------------
(* EvmTransactionWorker *)

VerifyBegin(v) ==
    /\ verify[v].pc = "idle"
    /\ verify' = [verify EXCEPT ![v].pc = "fetch", ![v].from = wallet.lastParsed]
    /\ UNCHANGED <<queue, wallet, lock, drawn, transmit, check, chain>>

\* seeded fault: a full page is taken, however far the indexer is
VerifyFetchAhead(v) ==
    /\ verify[v].pc = "fetch"
    /\ verify' = [verify EXCEPT ![v].pc = "update", ![v].to = verify[v].from + ParseSize]
    /\ UNCHANGED <<queue, wallet, lock, drawn, transmit, check, chain>>

(* The block height of the indexer is read first, then the transactions of *)
(* the blocks after from, up to to; blocks are final, so they are those.   *)
VerifyFetch(v) ==
    /\ verify[v].pc = "fetch"
    /\ LET last == verify[v].from + ParseSize
           to == IF last < indexed THEN last ELSE indexed
       IN verify' = [verify EXCEPT ![v].pc = "update", ![v].to = to]
    /\ UNCHANGED <<queue, wallet, lock, drawn, transmit, check, chain>>

(* The outcome of queue[k] that the blocks fetched by v hold, if any. *)
Fetched(v, k) == /\ k =< Len(mined)
                 /\ verify[v].from < mined[k].block
                 /\ mined[k].block =< verify[v].to
Outcome(k) == IF mined[k].ok THEN Confirmed ELSE Failed

(* The statuses and lastParsedBlock are committed together. *)
VerifyCommit(v) ==
    /\ verify[v].pc = "update"
    /\ lock = Nobody
    /\ queue' = [k \in DOMAIN queue |->
                   IF Fetched(v, k) THEN [queue[k] EXCEPT !.status = Outcome(k)]
                                    ELSE queue[k]]
    /\ wallet' = [wallet EXCEPT !.lastParsed = verify[v].to]
    /\ verify' = [verify EXCEPT ![v] = NoVerify]
    /\ UNCHANGED <<lock, drawn, transmit, check, chain>>

VerifyRollback(v) ==
    /\ Faults
    /\ verify[v].pc # "idle"
    /\ verify' = [verify EXCEPT ![v] = NoVerify]
    /\ UNCHANGED <<queue, wallet, lock, drawn, transmit, check, chain>>

-----------------------------------------------------------------------------
(* CheckPendingTransactionsWorker.  Transactions are old enough to be      *)
(* looked at 15 minutes after their creation: at any time, in the model,   *)
(* and the lower nonces are the older ones.                                *)

CheckQuery(c) ==
    /\ check[c].pc = "idle"
    /\ \E k \in 1..Len(queue) :
         /\ queue[k].status = Pending
         /\ \A j \in 1..(k - 1) : queue[j].status # Pending
         /\ \/ wallet.lastReset = None
            \/ wallet.lastProcessed > wallet.lastReset
         /\ check' = [check EXCEPT ![c] =
                        [pc |-> "count", minNonce |-> queue[k].nonce,
                         lastProcessed |-> wallet.lastProcessed]]
    /\ UNCHANGED <<queue, wallet, lock, drawn, transmit, verify, chain>>

\* seeded fault: off by one
ForgottenLate(c, count) == /\ count < check[c].minNonce
                           /\ count < check[c].lastProcessed

(* The node forgot the oldest pending transaction if it expects its nonce, *)
(* or a lower one, next.  From here on lastProcessed is what to reset to.  *)
Forgotten(c, count) == /\ count - 1 < check[c].minNonce
                       /\ count - 1 < check[c].lastProcessed

CheckCount(c) ==
    /\ check[c].pc = "count"
    /\ \E count \in 0..MaxTxs :
         /\ IsPendingCount(count)
         /\ check' = [check EXCEPT ![c] =
                        IF Forgotten(c, count)
                        THEN [@ EXCEPT !.pc = "reset", !.lastProcessed = count - 1]
                        ELSE NoCheck]
    /\ UNCHANGED <<queue, wallet, lock, drawn, transmit, verify, chain>>

CheckReset(c) ==
    /\ check[c].pc = "reset"
    /\ lock = Nobody
    /\ wallet' = [wallet EXCEPT !.lastProcessed = check[c].lastProcessed,
                                !.lastReset = check[c].lastProcessed]
    /\ check' = [check EXCEPT ![c] = NoCheck]
    /\ UNCHANGED <<queue, lock, drawn, transmit, verify, chain>>

CheckDies(c) ==
    /\ Faults
    /\ check[c].pc # "idle"
    /\ check' = [check EXCEPT ![c] = NoCheck]
    /\ UNCHANGED <<queue, wallet, lock, drawn, transmit, verify, chain>>

-----------------------------------------------------------------------------
(* The node, the chain and the indexer *)

Include(ok) ==
    /\ Len(mined) \in pool
    /\ mined' = Append(mined, [block |-> height + 1, ok |-> ok])
    /\ pool' = pool \ {Len(mined)}
    /\ UNCHANGED <<queue, wallet, lock, drawn, transmit, verify, check,
                   height, indexed, drops, accepted>>

Seal ==
    /\ height < Len(mined) + EmptyBlocks
    /\ height' = height + 1
    /\ UNCHANGED <<queue, wallet, lock, drawn, transmit, verify, check,
                   pool, mined, indexed, drops, accepted>>

Index ==
    /\ indexed < height
    /\ indexed' = indexed + 1
    /\ UNCHANGED <<queue, wallet, lock, drawn, transmit, verify, check,
                   pool, mined, height, drops, accepted>>

Drop(n) ==
    /\ drops < MaxDrops
    /\ n \in pool
    /\ pool' = pool \ {n}
    /\ drops' = drops + 1
    /\ UNCHANGED <<queue, wallet, lock, drawn, transmit, verify, check,
                   mined, height, indexed, accepted>>

-----------------------------------------------------------------------------
Create(c) == CreateSelect(c) \/ CreateCommit(c) \/ CreateRollback(c)

TransmitStep(t) ==
    \/ TransmitBegin(t) \/ TransmitList(t)
    \/ SkipFinal(t) \/ SendTaken(t) \/ SendKnown(t)
    \/ TransmitRepair(t) \/ TransmitFinish(t)
TransmitFails(t) == SendLost(t) \/ SendRejected(t) \/ TransmitDies(t)

VerifyStep(v) == VerifyBegin(v) \/ VerifyFetch(v) \/ VerifyCommit(v)
CheckStep(c) == CheckQuery(c) \/ CheckCount(c) \/ CheckReset(c)

Mine == \E ok \in BOOLEAN : Include(ok)

Next == \/ \E c \in Creators : Create(c)
        \/ \E t \in Transmitters : TransmitStep(t) \/ TransmitFails(t)
        \/ \E v \in Verifiers : VerifyStep(v) \/ VerifyRollback(v)
        \/ \E c \in Checkers : CheckStep(c) \/ CheckDies(c)
        \/ Mine \/ Seal \/ Index
        \/ \E n \in pool : Drop(n)

Spec == Init /\ [][Next]_vars

(* A step that is not the end of a lambda, although it may look like one:  *)
(* who learnt nothing leaves no trace either.                              *)
Regular ==
    /\ \A c \in Creators : ~ CreateRollback(c)
    /\ \A t \in Transmitters : TransmitDies(t) => TransmitFinish(t)
    /\ \A v \in Verifiers : VerifyRollback(v) => VerifyCommit(v)
    /\ \A c \in Checkers : CheckDies(c) => CheckCount(c)

(* The workers are started every few minutes by the scheduler (intervals   *)
(* of the job seeds), and a lambda that runs goes on.  The node does not   *)
(* refuse forever what is sent again and again, and lambdas do not die and *)
(* roll back forever: the two assumptions that are needed.  The chain and  *)
(* the indexer move.                                                       *)
FairSpec ==
    /\ Spec
    /\ \A c \in Creators : WF_vars(CreateCommit(c))
    /\ \A t \in Transmitters :
         WF_vars(TransmitStep(t)) /\ SF_vars(SkipFinal(t) \/ SendTaken(t) \/ SendKnown(t))
    /\ \A v \in Verifiers : WF_vars(VerifyStep(v))
    /\ \A c \in Checkers : WF_vars(CheckStep(c))
    /\ <>[][Regular]_vars
    /\ WF_vars(Mine) /\ WF_vars(Seal) /\ WF_vars(Index)

-----------------------------------------------------------------------------
(* Types of the rows and of what the four kinds of lambda keep. *)
TypeOK ==
    /\ queue \in Seq(Tx) /\ wallet \in Wallet
    /\ lock \in Creators \cup {Nobody} /\ drawn \in [Creators -> Nat]
    /\ transmit \in [Transmitters -> Transmit]
    /\ verify \in [Verifiers -> Verify]
    /\ check \in [Checkers -> Check]
    /\ pool \subseteq Nat /\ accepted \subseteq Nat
    /\ mined \in Seq(Mined)
    /\ height \in Nat /\ indexed \in Nat /\ drops \in Nat

(* Nonces are handed out without a gap and without a repeat, whatever was  *)
(* rolled back: a gap would block the wallet for good, a repeat would lose *)
(* a transaction.                                                          *)
NonceOrder ==
    /\ wallet.nextNonce = Len(queue)
    /\ \A k \in 1..Len(queue) : queue[k].nonce = k - 1

(* No transaction is passed over: the node was given every transaction up  *)
(* to lastProcessedNonce at least once, although several transmitters and  *)
(* the nonce check write that column from what they read some time ago.    *)
NoSkip == \A n \in 0..wallet.lastProcessed : n \in accepted

(* The verifiers never step over a transaction: what is in a parsed block  *)
(* has its outcome in the queue, and the queue reports no outcome that the *)
(* chain does not have.                                                    *)
ParsedSound ==
    /\ \A k \in 1..Len(mined) :
         mined[k].block =< wallet.lastParsed => queue[k].status = Outcome(k)
    /\ \A k \in 1..Len(queue) :
         queue[k].status \in Final =>
            k =< Len(mined) /\ queue[k].status = Outcome(k)

(* Every transaction that was created gets an outcome, although the node   *)
(* refuses it at times, answers get lost and the node forgets one.         *)
Delivered ==
    \A k \in 1..MaxTxs :
        Len(queue) >= k ~> Len(queue) >= k /\ queue[k].status \in Final
=============================================================================
