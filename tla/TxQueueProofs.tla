--------------------------- MODULE TxQueueProofs ---------------------------
(***************************************************************************)
(* Proofs about TxQueue, for any number of instances of the four lambdas   *)
(* and any bounds.                                                         *)
(***************************************************************************)
EXTENDS TxQueue, SequenceTheorems, TLAPS

(* The constants. *)
LEMMA Assumptions ==
    /\ Nobody \notin Creators
    /\ ParseSize \in Nat \ {0}
    /\ MaxTxs \in Nat /\ EmptyBlocks \in Nat /\ MaxDrops \in Nat
  BY RolesAssumption, SizeAssumption, BoundsAssumption

(* A function on 1..n is a sequence of length n. *)
LEMMA FunctionIsSeq ==
    ASSUME NEW S, NEW n \in Nat, NEW f \in [1..n -> S]
    PROVE  f \in Seq(S) /\ Len(f) = n
<1>1. f \in Seq(S)
  BY SeqDef
<1>2. Len(f) \in Nat /\ DOMAIN f = 1..Len(f)
  BY <1>1, LenProperties
<1>3. 1..n = 1..Len(f)
  BY <1>2
<1>4. QED BY <1>1, <1>2, <1>3

(* The answer of getList. *)
LEMMA RowsAfterType ==
    ASSUME TypeOK, NEW base \in Nat \cup {-1}
    PROVE  /\ RowsAfter(base) \in Seq(Tx)
           /\ base < Len(queue) => Len(RowsAfter(base)) = Len(queue) - base - 1
<1>0. Len(queue) \in Nat /\ \A k \in 1..Len(queue) : queue[k] \in Tx
  BY LenProperties, ElementOfSeq DEF TypeOK
<1>1. CASE base < Len(queue)
  <2>1. Len(queue) - base - 1 \in Nat
    BY <1>0, <1>1
  <2>2. RowsAfter(base) \in [1..(Len(queue) - base - 1) -> Tx]
    BY <1>0, <1>1 DEF RowsAfter
  <2>3. QED BY <2>1, <2>2, FunctionIsSeq
<1>2. CASE ~ (base < Len(queue))
  <2>1. 1..(Len(queue) - base - 1) = 1..0
    BY <1>0, <1>2
  <2>2. RowsAfter(base) \in [1..0 -> Tx]
    BY <2>1 DEF RowsAfter
  <2>3. QED BY <1>2, <2>2, FunctionIsSeq
<1>3. QED BY <1>1, <1>2

(* The queue with the outcomes of the blocks that v fetched. *)
Updated(v) == [k \in DOMAIN queue |->
                 IF Fetched(v, k) THEN [queue[k] EXCEPT !.status = Outcome(k)]
                                  ELSE queue[k]]

LEMMA UpdatedType ==
    ASSUME TypeOK, NEW v \in Verifiers
    PROVE  /\ Updated(v) \in Seq(Tx)
           /\ Len(Updated(v)) = Len(queue)
           /\ \A k \in 1..Len(queue) :
                Updated(v)[k] = IF Fetched(v, k) THEN [queue[k] EXCEPT !.status = Outcome(k)]
                                                 ELSE queue[k]
<1>0. /\ Len(queue) \in Nat /\ DOMAIN queue = 1..Len(queue)
      /\ \A k \in 1..Len(queue) : queue[k] \in Tx
  BY LenProperties, ElementOfSeq DEF TypeOK
<1>1. ASSUME NEW k \in 1..Len(queue)
      PROVE  [queue[k] EXCEPT !.status = Outcome(k)] \in Tx
  BY <1>0 DEF Tx, Outcome, Final, Confirmed, Failed
<1>2. Updated(v) \in [1..Len(queue) -> Tx]
  BY <1>0, <1>1 DEF Updated
<1>3. QED BY <1>0, <1>2, FunctionIsSeq DEF Updated

(* A pending count is a number. *)
LEMMA PendingCountType ==
    ASSUME NEW count \in 0..MaxTxs
    PROVE  count \in Nat /\ count - 1 \in Nat \cup {-1}
  BY Assumptions

-----------------------------------------------------------------------------
(* A lambda that is not running has the type of one that is. *)
LEMMA IdleTypes ==
    NoTransmit \in Transmit /\ NoVerify \in Verify /\ NoCheck \in Check
  BY EmptySeq DEF NoTransmit, Transmit, NoVerify, Verify, NoCheck, Check, None

(* The transaction a transmitter sends is one of its list. *)
LEMMA SendingNonce ==
    ASSUME TypeOK, NEW t \in Transmitters, Sending(t)
    PROVE  /\ transmit[t].pos \in 1..Len(transmit[t].list)
           /\ Current(t) \in Tx /\ Nonce(t) \in Nat
<1>1. transmit[t].list \in Seq(Tx) /\ transmit[t].pos \in Nat \ {0}
  BY DEF TypeOK, Transmit
<1>2. transmit[t].pos \in 1..Len(transmit[t].list)
  BY <1>1, LenProperties DEF Sending
<1>3. Current(t) \in Tx
  BY <1>1, <1>2, ElementOfSeq DEF Current
<1>4. QED BY <1>2, <1>3 DEF Nonce, Tx

(* What each lambda keeps has its type after one of its steps. *)
LEMMA TransmitType ==
    ASSUME TypeOK, NEW t \in Transmitters, TransmitStep(t) \/ TransmitFails(t)
    PROVE  transmit' \in [Transmitters -> Transmit]
<1> USE Assumptions DEF TypeOK
<1>0. /\ transmit[t] \in Transmit /\ transmit[t].pos + 1 \in Nat \ {0}
  BY DEF Transmit
<1>1. CASE TransmitBegin(t)
  <2>1. [transmit[t] EXCEPT !.pc = "list", !.base = wallet.lastProcessed] \in Transmit
    BY <1>0 DEF Transmit, Wallet
  <2>2. transmit' = [transmit EXCEPT ![t] =
          [transmit[t] EXCEPT !.pc = "list", !.base = wallet.lastProcessed]]
    BY <1>1 DEF TransmitBegin
  <2>3. QED BY <2>1, <2>2
<1>2. CASE TransmitList(t)
  <2>1. RowsAfter(transmit[t].base) \in Seq(Tx)
    BY <1>0, RowsAfterType DEF Transmit
  <2>2. [transmit[t] EXCEPT !.pc = "send", !.list = RowsAfter(transmit[t].base)] \in Transmit
    BY <1>0, <2>1 DEF Transmit
  <2>3. transmit' = [transmit EXCEPT ![t] =
          [transmit[t] EXCEPT !.pc = "send", !.list = RowsAfter(transmit[t].base)]]
    BY <1>2 DEF TransmitList
  <2>4. QED BY <2>2, <2>3
<1>3. ASSUME NEW latest \in Nat \cup {None}, Continue(t, latest) \/ Break(t, latest)
      PROVE  transmit' \in [Transmitters -> Transmit]
  <2>1. CASE Continue(t, latest)
    <3>1. [transmit[t] EXCEPT !.pc = "send", !.pos = @ + 1, !.latest = latest] \in Transmit
      BY <1>0 DEF Transmit
    <3>2. transmit' = [transmit EXCEPT ![t] =
            [transmit[t] EXCEPT !.pc = "send", !.pos = @ + 1, !.latest = latest]]
      BY <2>1 DEF Continue
    <3>3. QED BY <3>1, <3>2
  <2>2. CASE Break(t, latest)
    <3>1. [transmit[t] EXCEPT !.pc = "done", !.latest = latest] \in Transmit
      BY <1>0 DEF Transmit
    <3>2. transmit' = [transmit EXCEPT ![t] =
            [transmit[t] EXCEPT !.pc = "done", !.latest = latest]]
      BY <2>2 DEF Break
    <3>3. QED BY <3>1, <3>2
  <2>3. QED BY <1>3, <2>1, <2>2
<1>4. ASSUME Sending(t) PROVE Nonce(t) \in Nat
  BY <1>4, SendingNonce
<1>5. transmit[t].latest \in Nat \cup {None}
  BY <1>0 DEF Transmit
<1>6. CASE SkipFinal(t) \/ SendTaken(t)
  BY <1>3, <1>4, <1>6 DEF SkipFinal, SendTaken
<1>7. CASE SendLost(t) \/ SendRejected(t)
  BY <1>3, <1>5, <1>7 DEF SendLost, SendRejected
<1>8. CASE SendKnown(t)
  <2>1. [transmit[t] EXCEPT !.pc = "repair"] \in Transmit
    BY <1>0 DEF Transmit
  <2>2. transmit' = [transmit EXCEPT ![t] = [transmit[t] EXCEPT !.pc = "repair"]]
    BY <1>8 DEF SendKnown
  <2>3. QED BY <2>1, <2>2
<1>9. CASE TransmitRepair(t)
  <2>1. PICK count \in 0..MaxTxs :
          IF Repaired(t, count) \in {None, 0} THEN Break(t, Repaired(t, count))
                                              ELSE Continue(t, Repaired(t, count))
    BY <1>9 DEF TransmitRepair
  <2>2. Repaired(t, count) \in Nat \cup {None}
    BY PendingCountType DEF Repaired
  <2>3. QED BY <1>3, <2>1, <2>2
<1>10. CASE TransmitFinish(t) \/ TransmitDies(t)
  BY <1>10, IdleTypes DEF TransmitFinish, TransmitDies
<1>11. QED BY <1>1, <1>2, <1>6, <1>7, <1>8, <1>9, <1>10 DEF TransmitStep, TransmitFails

(* The same for a verifier. *)
LEMMA VerifyType ==
    ASSUME TypeOK, NEW v \in Verifiers, VerifyStep(v) \/ VerifyRollback(v)
    PROVE  verify' \in [Verifiers -> Verify]
<1> USE Assumptions DEF TypeOK
<1>0. verify[v] \in Verify
  OBVIOUS
<1>1. CASE VerifyBegin(v)
  <2>1. [verify[v] EXCEPT !.pc = "fetch", !.from = wallet.lastParsed] \in Verify
    BY <1>0 DEF Verify, Wallet
  <2>2. verify' = [verify EXCEPT ![v] =
          [verify[v] EXCEPT !.pc = "fetch", !.from = wallet.lastParsed]]
    BY <1>1 DEF VerifyBegin
  <2>3. QED BY <2>1, <2>2
<1>2. CASE VerifyFetch(v)
  <2> DEFINE last == verify[v].from + ParseSize
             to == IF last < indexed THEN last ELSE indexed
  <2>0. to \in Nat
    BY <1>0 DEF Verify
  <2>1. verify' = [verify EXCEPT ![v].pc = "update", ![v].to = to]
    BY <1>2 DEF VerifyFetch
  <2> HIDE DEF to
  <2>2. [verify[v] EXCEPT !.pc = "update", !.to = to] \in Verify
    BY <1>0, <2>0 DEF Verify
  <2>3. verify' = [verify EXCEPT ![v] = [verify[v] EXCEPT !.pc = "update", !.to = to]]
    BY <2>1
  <2>4. QED BY <2>2, <2>3
<1>3. CASE VerifyCommit(v) \/ VerifyRollback(v)
  BY <1>3, IdleTypes DEF VerifyCommit, VerifyRollback
<1>4. QED BY <1>1, <1>2, <1>3 DEF VerifyStep

(* The same for a checker. *)
LEMMA CheckType ==
    ASSUME TypeOK, NEW c \in Checkers, CheckStep(c) \/ CheckDies(c)
    PROVE  check' \in [Checkers -> Check]
<1> USE Assumptions DEF TypeOK
<1>1. CASE CheckQuery(c)
  <2>1. PICK k \in 1..Len(queue) :
          check' = [check EXCEPT ![c] =
                      [pc |-> "count", minNonce |-> queue[k].nonce,
                       lastProcessed |-> wallet.lastProcessed]]
    BY <1>1 DEF CheckQuery
  <2>2. queue[k].nonce \in Nat /\ wallet.lastProcessed \in Nat \cup {-1}
    <3>1. queue[k] \in Tx
      BY ElementOfSeq
    <3>2. QED BY <3>1 DEF Tx, Wallet
  <2>3. QED BY <2>1, <2>2 DEF Check
<1>2. CASE CheckCount(c)
  <2>1. PICK count \in 0..MaxTxs :
          check' = [check EXCEPT ![c] =
                      IF Forgotten(c, count)
                      THEN [check[c] EXCEPT !.pc = "reset", !.lastProcessed = count - 1]
                      ELSE NoCheck]
    BY <1>2 DEF CheckCount
  <2>2. [check[c] EXCEPT !.pc = "reset", !.lastProcessed = count - 1] \in Check
    BY PendingCountType DEF Check
  <2>3. QED BY <2>1, <2>2, IdleTypes
<1>3. CASE CheckReset(c) \/ CheckDies(c)
  BY <1>3, IdleTypes DEF CheckReset, CheckDies
<1>4. QED BY <1>1, <1>2, <1>3 DEF CheckStep

(* Every step keeps the types. *)
LEMMA TypeStep == TypeOK /\ [Next]_vars => TypeOK'
<1> SUFFICES ASSUME TypeOK, [Next]_vars PROVE TypeOK'
  OBVIOUS
<1> USE Assumptions
<1>1. CASE UNCHANGED vars
  BY <1>1 DEF vars, chain, TypeOK
<1>2. ASSUME NEW c \in Creators, Create(c) PROVE TypeOK'
  <2>1. CASE CreateSelect(c)
    BY <2>1 DEF CreateSelect, TypeOK, Wallet, chain
  <2>2. CASE CreateCommit(c)
    <3>1. [nonce |-> drawn[c], status |-> Pending] \in Tx
      BY DEF TypeOK, Tx
    <3>2. queue' \in Seq(Tx)
      BY <2>2, <3>1, AppendProperties DEF CreateCommit, TypeOK
    <3>3. wallet' \in Wallet
      <4>1. wallet \in Wallet /\ wallet.nextNonce + 1 \in Nat
        BY DEF TypeOK, Wallet
      <4>2. QED BY <2>2, <4>1 DEF CreateCommit, Wallet
    <3>4. QED BY <2>2, <3>2, <3>3 DEF CreateCommit, TypeOK, chain
  <2>3. CASE CreateRollback(c)
    BY <2>3 DEF CreateRollback, TypeOK, chain
  <2>4. QED BY <1>2, <2>1, <2>2, <2>3 DEF Create
<1>3. ASSUME NEW t \in Transmitters, TransmitStep(t) \/ TransmitFails(t) PROVE TypeOK'
  <2>1. transmit' \in [Transmitters -> Transmit]
    BY <1>3, TransmitType
  <2>2. UNCHANGED <<queue, lock, drawn, verify, check>>
    BY <1>3 DEF TransmitStep, TransmitFails, TransmitBegin, TransmitList, SkipFinal,
                SendTaken, SendLost, SendRejected, SendKnown, TransmitRepair,
                TransmitFinish, TransmitDies
  <2>3. wallet' \in Wallet
    <3>1. CASE TransmitFinish(t)
      <4>1. wallet.lastProcessed \in Nat \cup {-1}
            /\ transmit[t].latest \in Nat \cup {None}
        BY DEF TypeOK, Wallet, Transmit
      <4>2. QED BY <3>1, <4>1 DEF TransmitFinish, TypeOK, Wallet
    <3>2. CASE ~ TransmitFinish(t)
      BY <1>3, <3>2 DEF TransmitStep, TransmitFails, TransmitBegin, TransmitList,
                SkipFinal, SendTaken, SendLost, SendRejected, SendKnown, TransmitRepair,
                TransmitDies, TypeOK
    <3>3. QED BY <3>1, <3>2
  <2>4. /\ pool' \subseteq Nat /\ accepted' \subseteq Nat
        /\ UNCHANGED <<mined, height, indexed, drops>>
    <3>1. ASSUME Sending(t) PROVE Nonce(t) \in Nat
      BY <3>1, SendingNonce
    <3>2. CASE SendTaken(t) \/ SendLost(t)
      BY <3>1, <3>2 DEF SendTaken, SendLost, Accept, TypeOK
    <3>3. CASE ~ (SendTaken(t) \/ SendLost(t))
      BY <1>3, <3>3 DEF TransmitStep, TransmitFails, TransmitBegin, TransmitList,
                SkipFinal, SendRejected, SendKnown, TransmitRepair, TransmitFinish,
                TransmitDies, TypeOK, chain
    <3>4. QED BY <3>2, <3>3
  <2>5. QED BY <2>1, <2>2, <2>3, <2>4 DEF TypeOK
<1>4. ASSUME NEW v \in Verifiers, VerifyStep(v) \/ VerifyRollback(v) PROVE TypeOK'
  <2>1. verify' \in [Verifiers -> Verify]
    BY <1>4, VerifyType
  <2>2. CASE VerifyCommit(v)
    <3>1. queue' \in Seq(Tx)
      BY <2>2, UpdatedType DEF VerifyCommit, Updated
    <3>2. wallet' \in Wallet
      BY <2>2 DEF VerifyCommit, TypeOK, Wallet, Verify
    <3>3. QED BY <2>1, <2>2, <3>1, <3>2 DEF VerifyCommit, TypeOK, chain
  <2>3. CASE VerifyBegin(v) \/ VerifyFetch(v) \/ VerifyRollback(v)
    BY <2>1, <2>3 DEF VerifyBegin, VerifyFetch, VerifyRollback, TypeOK, chain
  <2>4. QED BY <1>4, <2>2, <2>3 DEF VerifyStep
<1>5. ASSUME NEW c \in Checkers, CheckStep(c) \/ CheckDies(c) PROVE TypeOK'
  <2>1. check' \in [Checkers -> Check]
    BY <1>5, CheckType
  <2>2. CASE CheckReset(c)
    <3>1. wallet' \in Wallet
      BY <2>2 DEF CheckReset, TypeOK, Wallet, Check
    <3>2. QED BY <2>1, <2>2, <3>1 DEF CheckReset, TypeOK, chain
  <2>3. CASE CheckQuery(c) \/ CheckCount(c) \/ CheckDies(c)
    BY <2>1, <2>3 DEF CheckQuery, CheckCount, CheckDies, TypeOK, chain
  <2>4. QED BY <1>5, <2>2, <2>3 DEF CheckStep
<1>6. ASSUME NEW ok \in BOOLEAN, Include(ok) PROVE TypeOK'
  <2>1. [block |-> height + 1, ok |-> ok] \in Mined
    BY DEF TypeOK, Mined
  <2>2. mined' \in Seq(Mined)
    BY <1>6, <2>1, AppendProperties DEF Include, TypeOK
  <2>3. QED BY <1>6, <2>2 DEF Include, TypeOK
<1>7. CASE Seal \/ Index
  <2>1. height' \in Nat /\ indexed' \in Nat
    BY <1>7 DEF Seal, Index, TypeOK
  <2>2. UNCHANGED <<queue, wallet, lock, drawn, transmit, verify, check, pool, mined,
                    drops, accepted>>
    BY <1>7 DEF Seal, Index
  <2>3. QED BY <2>1, <2>2 DEF TypeOK
<1>8. ASSUME NEW n \in pool, Drop(n) PROVE TypeOK'
  BY <1>8 DEF Drop, TypeOK
<1>9. QED BY <1>1, <1>2, <1>3, <1>4, <1>5, <1>6, <1>7, <1>8 DEF Next, Mine

(* The types hold initially. *)
LEMMA TypeInit == Init => TypeOK
<1>1. <<>> \in Seq(Tx) /\ <<>> \in Seq(Mined)
  BY EmptySeq
<1>2. QED BY <1>1, IdleTypes DEF Init, TypeOK, Wallet, None

(* The types hold in every reachable state. *)
THEOREM TypeCorrect == Spec => []TypeOK
<1>1. QED BY TypeInit, TypeStep, PTL DEF Spec
-----------------------------------------------------------------------------
(* A creator that holds the wallet's row still knows its nextNonce. *)
LockInv == \A c \in Creators : lock = c => drawn[c] = wallet.nextNonce

(* Which steps change the queue or the chain, and how. *)
LEMMA QueueStep ==
    ASSUME TypeOK, [Next]_vars
    PROVE  \/ /\ \E c \in Creators : CreateCommit(c)
              /\ UNCHANGED mined
           \/ /\ \E v \in Verifiers : VerifyCommit(v)
              /\ UNCHANGED <<mined, wallet.nextNonce, lock, drawn>>
           \/ /\ \E ok \in BOOLEAN : Include(ok)
              /\ UNCHANGED <<queue, wallet.nextNonce, lock, drawn>>
           \/ /\ UNCHANGED <<queue, wallet.nextNonce, mined>>
              /\ \A c \in Creators : lock' = c => \/ drawn'[c] = wallet.nextNonce
                                                  \/ lock = c /\ drawn' = drawn
<1>0. wallet \in Wallet /\ drawn \in [Creators -> Nat]
  BY DEF TypeOK
<1>1. CASE UNCHANGED vars
  BY <1>1 DEF vars, chain
<1>2. ASSUME NEW c \in Creators, Create(c)
      PROVE  \/ CreateCommit(c) /\ UNCHANGED mined
             \/ /\ UNCHANGED <<queue, wallet.nextNonce, mined>>
                /\ \A d \in Creators : lock' = d => \/ drawn'[d] = wallet.nextNonce
                                                    \/ lock = d /\ drawn' = drawn
  <2>1. CASE CreateSelect(c)
    BY <1>0, <2>1 DEF CreateSelect, chain
  <2>2. CASE CreateCommit(c)
    BY <2>2 DEF CreateCommit, chain
  <2>3. CASE CreateRollback(c)
    BY <2>3, Assumptions DEF CreateRollback, chain
  <2>4. QED BY <1>2, <2>1, <2>2, <2>3 DEF Create
<1>3. ASSUME NEW t \in Transmitters, TransmitStep(t) \/ TransmitFails(t)
      PROVE  UNCHANGED <<queue, lock, drawn, mined, wallet.nextNonce>>
  <2>1. UNCHANGED <<queue, lock, drawn, mined>>
    BY <1>3 DEF TransmitStep, TransmitFails, TransmitBegin, TransmitList, SkipFinal,
                SendTaken, SendLost, SendRejected, SendKnown, TransmitRepair,
                TransmitFinish, TransmitDies, Accept, chain
  <2>2. CASE TransmitFinish(t)
    BY <1>0, <2>1, <2>2 DEF TransmitFinish, Wallet
  <2>3. CASE ~ TransmitFinish(t)
    BY <1>3, <2>1, <2>3 DEF TransmitStep, TransmitFails, TransmitBegin, TransmitList,
                SkipFinal, SendTaken, SendLost, SendRejected, SendKnown, TransmitRepair,
                TransmitDies
  <2>4. QED BY <2>2, <2>3
<1>4. ASSUME NEW v \in Verifiers, VerifyStep(v) \/ VerifyRollback(v)
      PROVE  /\ UNCHANGED <<lock, drawn, mined, wallet.nextNonce>>
             /\ VerifyCommit(v) \/ UNCHANGED queue
  <2>1. CASE VerifyCommit(v)
    BY <1>0, <2>1 DEF VerifyCommit, Wallet, chain
  <2>2. CASE VerifyBegin(v) \/ VerifyFetch(v) \/ VerifyRollback(v)
    BY <2>2 DEF VerifyBegin, VerifyFetch, VerifyRollback, chain
  <2>3. QED BY <1>4, <2>1, <2>2 DEF VerifyStep
<1>5. ASSUME NEW c \in Checkers, CheckStep(c) \/ CheckDies(c)
      PROVE  UNCHANGED <<queue, lock, drawn, mined, wallet.nextNonce>>
  BY <1>0, <1>5 DEF CheckStep, CheckQuery, CheckCount, CheckReset, CheckDies, Wallet, chain
<1>6. ASSUME NEW ok \in BOOLEAN, Include(ok)
      PROVE  UNCHANGED <<queue, lock, drawn, wallet.nextNonce>>
  BY <1>6 DEF Include
<1>7. CASE Seal \/ Index \/ \E n \in pool : Drop(n)
  BY <1>7 DEF Seal, Index, Drop
<1>8. QED BY <1>1, <1>2, <1>3, <1>4, <1>5, <1>6, <1>7 DEF Next, Mine

(* Nonces stay in order. *)
LEMMA NonceStep ==
    ASSUME TypeOK, NonceOrder, LockInv, [Next]_vars
    PROVE  NonceOrder' /\ LockInv'
<1>0. /\ Len(queue) \in Nat /\ \A k \in 1..Len(queue) : queue[k] \in Tx
      /\ wallet \in Wallet
  BY LenProperties, ElementOfSeq DEF TypeOK
<1>1. ASSUME NEW c \in Creators, CreateCommit(c) PROVE NonceOrder' /\ LockInv'
  <2>1. lock = c /\ drawn[c] = Len(queue)
    BY <1>1 DEF CreateCommit, LockInv, NonceOrder
  <2>2. /\ Len(queue') = Len(queue) + 1
        /\ queue'[Len(queue) + 1].nonce = Len(queue)
        /\ \A k \in 1..Len(queue) : queue'[k] = queue[k]
    <3>1. [nonce |-> drawn[c], status |-> Pending] \in Tx
      BY DEF TypeOK, Tx
    <3>2. QED BY <1>1, <2>1, <3>1, AppendProperties DEF CreateCommit, TypeOK
  <2>3. wallet'.nextNonce = wallet.nextNonce + 1 /\ lock' = Nobody
    BY <1>0, <1>1 DEF CreateCommit, Wallet
  <2>4. LockInv'
    BY <2>3, Assumptions DEF LockInv
  <2>5. NonceOrder'
    BY <1>0, <2>2, <2>3 DEF NonceOrder
  <2>6. QED BY <2>4, <2>5
<1>2. ASSUME NEW v \in Verifiers, VerifyCommit(v),
             UNCHANGED <<wallet.nextNonce, lock, drawn>>
      PROVE  NonceOrder' /\ LockInv'
  <2>1. queue' = Updated(v)
    BY <1>2 DEF VerifyCommit, Updated
  <2>2. /\ Len(queue') = Len(queue)
        /\ \A k \in 1..Len(queue) : queue'[k].nonce = queue[k].nonce
    BY <1>0, <2>1, UpdatedType DEF Tx
  <2>3. QED BY <1>2, <2>2 DEF NonceOrder, LockInv
<1>3. CASE UNCHANGED <<queue, wallet.nextNonce>> /\
           \A c \in Creators : lock' = c => \/ drawn'[c] = wallet.nextNonce
                                            \/ lock = c /\ drawn' = drawn
  BY <1>3 DEF NonceOrder, LockInv
<1>4. QED BY <1>1, <1>2, <1>3, QueueStep DEF LockInv

(* Nonces have no gap and no repeat, however many creators draw, fail and  *)
(* roll back.                                                              *)
THEOREM NonceOrderHolds == Spec => [](NonceOrder /\ LockInv)
<1>1. Init => NonceOrder /\ LockInv
  BY Assumptions DEF Init, NonceOrder, LockInv
<1>2. TypeOK /\ NonceOrder /\ LockInv /\ [Next]_vars => NonceOrder' /\ LockInv'
  BY NonceStep
<1>3. QED BY <1>1, <1>2, TypeCorrect, PTL DEF Spec

-----------------------------------------------------------------------------
(* The half of ParsedSound that speaks of the queue. *)
StatusSound == \A k \in 1..Len(queue) :
                 queue[k].status \in Final =>
                    k =< Len(mined) /\ queue[k].status = Outcome(k)

(* No step books an outcome that the chain does not have. *)
LEMMA StatusStep ==
    ASSUME TypeOK, StatusSound, [Next]_vars
    PROVE  StatusSound'
<1>0. /\ Len(queue) \in Nat /\ \A k \in 1..Len(queue) : queue[k] \in Tx
      /\ Len(mined) \in Nat
  BY LenProperties, ElementOfSeq DEF TypeOK
<1>1. ASSUME NEW c \in Creators, CreateCommit(c), UNCHANGED mined PROVE StatusSound'
  <2>1. /\ Len(queue') = Len(queue) + 1
        /\ queue'[Len(queue) + 1].status = Pending
        /\ \A k \in 1..Len(queue) : queue'[k] = queue[k]
    <3>1. [nonce |-> drawn[c], status |-> Pending] \in Tx
      BY DEF TypeOK, Tx
    <3>2. QED BY <1>1, <3>1, AppendProperties DEF CreateCommit, TypeOK
  <2>2. \A k \in 1..Len(queue') : k \in 1..Len(queue) \/ k = Len(queue) + 1
    BY <1>0, <2>1
  <2>3. QED BY <1>1, <2>1, <2>2 DEF StatusSound, Outcome, Final, Pending, Confirmed, Failed
<1>2. ASSUME NEW v \in Verifiers, VerifyCommit(v), UNCHANGED mined PROVE StatusSound'
  <2>1. queue' = Updated(v)
    BY <1>2 DEF VerifyCommit, Updated
  <2>2. /\ Len(queue') = Len(queue)
        /\ \A k \in 1..Len(queue) :
             \/ Fetched(v, k) /\ queue'[k].status = Outcome(k)
             \/ queue'[k] = queue[k]
    BY <1>0, <2>1, UpdatedType DEF Tx
  <2>3. QED BY <1>2, <2>2 DEF StatusSound, Fetched, Outcome
<1>3. ASSUME NEW ok \in BOOLEAN, Include(ok), UNCHANGED queue PROVE StatusSound'
  <2>1. /\ Len(mined') = Len(mined) + 1
        /\ \A k \in 1..Len(mined) : mined'[k] = mined[k]
    <3>1. [block |-> height + 1, ok |-> ok] \in Mined
      BY DEF TypeOK, Mined
    <3>2. QED BY <1>3, <3>1, AppendProperties DEF Include, TypeOK
  <2>2. QED BY <1>0, <1>3, <2>1 DEF StatusSound, Outcome
<1>4. CASE UNCHANGED <<queue, mined>>
  BY <1>4 DEF StatusSound, Outcome
<1>5. QED BY <1>1, <1>2, <1>3, <1>4, QueueStep

(* Every outcome in the queue is the chain's. *)
LEMMA StatusHolds == Spec => []StatusSound
<1>1. Init => StatusSound
  BY DEF Init, StatusSound
<1>2. TypeOK /\ StatusSound /\ [Next]_vars => StatusSound'
  BY StatusStep
<1>3. QED BY <1>1, <1>2, TypeCorrect, PTL DEF Spec

-----------------------------------------------------------------------------
(* What is behind NoSkip: what the node was given, what each transmitter   *)
(* and checker knows to have been given, and what a transmitter's list is. *)
UpTo(n) == \A k \in 0..n : k \in accepted

AcceptedInv == /\ pool \subseteq accepted
               /\ \A n \in 0..(Len(mined) - 1) : n \in accepted
               /\ \A n \in accepted : n < Len(queue)

ListInv(s) == /\ s.base + Len(s.list) < Len(queue)
              /\ \A k \in 1..Len(s.list) :
                   /\ s.list[k].nonce = s.base + k
                   /\ s.list[k].status \in Final => s.list[k].nonce < Len(mined)

TransmitInv(t) ==
    LET s == transmit[t] IN
    /\ s.pc \in {"idle", "list"} => s.pos = 1 /\ s.latest = None
    /\ s.pc # "idle" => UpTo(s.base)
    /\ s.latest # None => UpTo(s.latest)
    /\ s.pc \in {"send", "repair"} => ListInv(s)
    /\ s.pc = "send" => UpTo(s.base + s.pos - 1)
    /\ s.pc = "repair" => UpTo(s.base + s.pos)

CheckInv(c) == check[c].pc = "reset" => UpTo(check[c].lastProcessed)

SkipInv == /\ AcceptedInv
           /\ \A t \in Transmitters : TransmitInv(t)
           /\ \A c \in Checkers : CheckInv(c)
           /\ NoSkip

(* Nothing is taken back from the queue, the chain or the history. *)
LEMMA Grows ==
    ASSUME TypeOK, [Next]_vars
    PROVE  /\ accepted \subseteq accepted'
           /\ Len(queue) \in Nat /\ Len(queue') \in Nat /\ Len(queue) =< Len(queue')
           /\ Len(mined) \in Nat /\ Len(mined') \in Nat /\ Len(mined) =< Len(mined')
<1>0. Len(queue) \in Nat /\ Len(mined) \in Nat /\ TypeOK'
  BY LenProperties, TypeStep DEF TypeOK
<1>1. accepted \subseteq accepted'
  BY DEF Next, Create, CreateSelect, CreateCommit, CreateRollback, TransmitStep,
         TransmitFails, TransmitBegin, TransmitList, SkipFinal, SendTaken, SendLost,
         SendRejected, SendKnown, TransmitRepair, TransmitFinish, TransmitDies, Accept,
         VerifyStep, VerifyBegin, VerifyFetch, VerifyCommit, VerifyRollback, CheckStep,
         CheckQuery, CheckCount, CheckReset, CheckDies, Mine, Include, Seal, Index, Drop,
         chain, vars
<1>2. Len(queue) =< Len(queue')
  <2>1. ASSUME NEW c \in Creators, CreateCommit(c) PROVE Len(queue) =< Len(queue')
    <3>1. [nonce |-> drawn[c], status |-> Pending] \in Tx
      BY DEF TypeOK, Tx
    <3>2. QED BY <1>0, <2>1, <3>1, AppendProperties DEF CreateCommit, TypeOK
  <2>2. ASSUME NEW v \in Verifiers, VerifyCommit(v) PROVE Len(queue) =< Len(queue')
    BY <1>0, <2>2, UpdatedType DEF VerifyCommit, Updated
  <2>3. QED BY <1>0, <2>1, <2>2, QueueStep
<1>3. Len(mined) =< Len(mined')
  <2>1. ASSUME NEW ok \in BOOLEAN, Include(ok) PROVE Len(mined) =< Len(mined')
    <3>1. [block |-> height + 1, ok |-> ok] \in Mined
      BY DEF TypeOK, Mined
    <3>2. QED BY <1>0, <2>1, <3>1, AppendProperties DEF Include, TypeOK
  <2>2. QED BY <1>0, <2>1, QueueStep
<1>4. Len(queue') \in Nat /\ Len(mined') \in Nat
  BY <1>0, LenProperties DEF TypeOK
<1>5. QED BY <1>0, <1>1, <1>2, <1>3, <1>4

(* What a lambda knows stays true while the others work. *)
LEMMA TransmitStable ==
    ASSUME TypeOK, [Next]_vars, NEW t \in Transmitters, TransmitInv(t),
           transmit'[t] = transmit[t]
    PROVE  TransmitInv(t)'
<1>0. transmit[t].base \in Int /\ transmit[t].list \in Seq(Tx)
  BY DEF TypeOK, Transmit
<1>1. ASSUME NEW n, UpTo(n) PROVE UpTo(n)'
  BY <1>1, Grows DEF UpTo
<1>2. ASSUME ListInv(transmit[t]) PROVE ListInv(transmit[t])'
  <2>1. /\ Len(transmit[t].list) \in Nat
        /\ \A k \in 1..Len(transmit[t].list) : transmit[t].list[k].nonce \in Nat
    <3>1. \A k \in 1..Len(transmit[t].list) : transmit[t].list[k] \in Tx
      BY <1>0, ElementOfSeq
    <3>2. QED BY <1>0, <3>1, LenProperties DEF Tx
  <2>2. QED BY <1>0, <1>2, <2>1, Grows DEF ListInv
<1>3. QED BY <1>1, <1>2 DEF TransmitInv

(* And so for a checker. *)
LEMMA CheckStable ==
    ASSUME TypeOK, [Next]_vars, NEW c \in Checkers, CheckInv(c), check'[c] = check[c]
    PROVE  CheckInv(c)'
  BY Grows DEF CheckInv, UpTo

(* The pending count never runs ahead of what the node was given. *)
LEMMA PendingCountSound ==
    ASSUME TypeOK, AcceptedInv, NEW count \in 0..MaxTxs, IsPendingCount(count)
    PROVE  UpTo(count - 1)
<1>1. Len(mined) \in Nat
  BY LenProperties DEF TypeOK
<1>2. SUFFICES ASSUME NEW k \in 0..(count - 1) PROVE k \in accepted
  BY DEF UpTo
<1>3. k \in 0..(Len(mined) - 1) \/ k \in Len(mined)..(count - 1)
  BY <1>1, Assumptions
<1>4. QED BY <1>3 DEF IsPendingCount, AcceptedInv

(* The list a transmitter reads: what follows base, in order. *)
LEMMA RowsAfterInv ==
    ASSUME TypeOK, NonceOrder, StatusSound, AcceptedInv,
           NEW base \in Nat \cup {-1}, UpTo(base)
    PROVE  /\ base + Len(RowsAfter(base)) < Len(queue)
           /\ \A k \in 1..Len(RowsAfter(base)) :
                /\ RowsAfter(base)[k].nonce = base + k
                /\ RowsAfter(base)[k].status \in Final
                      => RowsAfter(base)[k].nonce < Len(mined)
<1>0. Len(queue) \in Nat /\ Len(mined) \in Nat
  BY LenProperties DEF TypeOK
<1>1. base < Len(queue)
  BY <1>0 DEF UpTo, AcceptedInv
<1>2. Len(RowsAfter(base)) = Len(queue) - base - 1
  BY <1>1, RowsAfterType
<1>3. ASSUME NEW k \in 1..Len(RowsAfter(base))
      PROVE  /\ RowsAfter(base)[k] = queue[base + 1 + k]
             /\ base + 1 + k \in 1..Len(queue)
  BY <1>0, <1>1, <1>2 DEF RowsAfter
<1>4. ASSUME NEW k \in 1..Len(RowsAfter(base))
      PROVE  /\ RowsAfter(base)[k].nonce = base + k
             /\ RowsAfter(base)[k].status \in Final
                   => RowsAfter(base)[k].nonce < Len(mined)
  <2>1. RowsAfter(base)[k].nonce = base + k
    BY <1>3 DEF NonceOrder
  <2>2. ASSUME RowsAfter(base)[k].status \in Final PROVE base + 1 + k =< Len(mined)
    BY <1>3, <2>2 DEF StatusSound
  <2>3. QED BY <1>0, <1>2, <2>1, <2>2
<1>5. QED BY <1>0, <1>2, <1>4

(* The transaction a transmitter is about to send follows what it knows.   *)
LEMMA SendingInv ==
    ASSUME TypeOK, NEW t \in Transmitters, TransmitInv(t), Sending(t)
    PROVE  /\ Nonce(t) = transmit[t].base + transmit[t].pos
           /\ Nonce(t) < Len(queue)
           /\ UpTo(Nonce(t) - 1) /\ ListInv(transmit[t])
           /\ Current(t).status \in Final => Nonce(t) < Len(mined)
<1>0. /\ transmit[t].base \in Int /\ transmit[t].pos \in Nat
      /\ transmit[t].list \in Seq(Tx) /\ Len(queue) \in Nat
  BY LenProperties DEF TypeOK, Transmit
<1>1. Len(transmit[t].list) \in Nat /\ transmit[t].pos \in 1..Len(transmit[t].list)
  BY <1>0, LenProperties, SendingNonce
<1>2. transmit[t].pc = "send" /\ ListInv(transmit[t])
      /\ UpTo(transmit[t].base + transmit[t].pos - 1)
  BY DEF Sending, TransmitInv
<1>3. /\ Nonce(t) = transmit[t].base + transmit[t].pos
      /\ Current(t).status \in Final => Nonce(t) < Len(mined)
  BY <1>1, <1>2 DEF ListInv, Nonce, Current
<1>4. transmit[t].base + Len(transmit[t].list) < Len(queue)
  BY <1>2 DEF ListInv
<1>5. Nonce(t) < Len(queue)
  BY <1>0, <1>1, <1>3, <1>4
<1>6. UpTo(Nonce(t) - 1)
  <2>1. Nonce(t) - 1 = transmit[t].base + transmit[t].pos - 1
    BY <1>0, <1>3
  <2>2. QED BY <1>2, <2>1
<1>7. QED BY <1>2, <1>3, <1>5, <1>6

(* What a step makes true of the transmitter that takes it. *)
LEMMA TransmitOwn ==
    ASSUME TypeOK, NonceOrder, StatusSound, SkipInv, [Next]_vars,
           NEW t \in Transmitters, TransmitStep(t) \/ TransmitFails(t)
    PROVE  TransmitInv(t)'
<1> DEFINE s == transmit[t]
           r == transmit'[t]
           n == Nonce(t)
           Given(m) == \A k \in 0..m : k \in accepted'
           Listed(q) == /\ q.base + Len(q.list) < Len(queue')
                        /\ \A k \in 1..Len(q.list) :
                             /\ q.list[k].nonce = q.base + k
                             /\ q.list[k].status \in Final
                                   => q.list[k].nonce < Len(mined')
<1>0. /\ s \in Transmit /\ TransmitInv(t) /\ AcceptedInv /\ NoSkip
      /\ transmit \in [Transmitters -> Transmit]
  BY DEF SkipInv, TypeOK
<1>a. ASSUME NEW m, UpTo(m) PROVE Given(m)
  BY <1>a, Grows DEF UpTo
<1>b. ASSUME ListInv(s), r.base = s.base, r.list = s.list PROVE Listed(r)
  <2>1. s.base \in Int /\ Len(s.list) \in Nat
    BY <1>0, LenProperties DEF Transmit
  <2>2. \A k \in 1..Len(s.list) : s.list[k].nonce \in Nat
    <3>1. \A k \in 1..Len(s.list) : s.list[k] \in Tx
      BY <1>0, ElementOfSeq DEF Transmit
    <3>2. QED BY <3>1 DEF Tx
  <2>3. QED BY <1>b, <2>1, <2>2, Grows DEF ListInv
<1>c. SUFFICES /\ r.pc \in {"idle", "list"} => r.pos = 1 /\ r.latest = None
               /\ r.pc # "idle" => Given(r.base)
               /\ r.latest # None => Given(r.latest)
               /\ r.pc \in {"send", "repair"} => Listed(r)
               /\ r.pc = "send" => Given(r.base + r.pos - 1)
               /\ r.pc = "repair" => Given(r.base + r.pos)
  BY DEF TransmitInv, UpTo, ListInv
<1>d. ASSUME Sending(t)
      PROVE  /\ n = s.base + s.pos /\ n \in Nat
             /\ Given(n - 1) /\ Listed(s) /\ s.pc = "send"
             /\ n \in accepted' => Given(n)
             /\ Current(t).status \in Final => n < Len(mined)
  <2>1. /\ n = s.base + s.pos /\ n \in Nat /\ UpTo(n - 1) /\ ListInv(s)
        /\ Current(t).status \in Final => n < Len(mined)
    BY <1>0, <1>d, SendingInv, SendingNonce
  <2>2. Given(n - 1)
    BY <1>a, <2>1
  <2>3. Listed(s)
    <3>1. s.base \in Int /\ Len(s.list) \in Nat
      BY <1>0, LenProperties DEF Transmit
    <3>2. \A k \in 1..Len(s.list) : s.list[k].nonce \in Nat
      <4>1. \A k \in 1..Len(s.list) : s.list[k] \in Tx
        BY <1>0, ElementOfSeq DEF Transmit
      <4>2. QED BY <4>1 DEF Tx
    <3>3. QED BY <2>1, <3>1, <3>2, Grows DEF ListInv
  <2>4. n \in accepted' => Given(n)
    <3>1. \A k \in 0..n : k \in 0..(n - 1) \/ k = n
      BY <2>1
    <3>2. QED BY <2>2, <3>1
  <2>5. QED BY <1>d, <2>1, <2>2, <2>3, <2>4 DEF Sending
<1> HIDE DEF Given, Listed, n
<1>1. CASE TransmitBegin(t)
  <2>1. s.pc = "idle" /\ r.pc = "list" /\ r.base = wallet.lastProcessed
        /\ r.pos = s.pos /\ r.latest = s.latest
    BY <1>0, <1>1 DEF TransmitBegin, Transmit
  <2>2. Given(wallet.lastProcessed)
    BY <1>0, <1>a DEF NoSkip, UpTo
  <2>3. s.pos = 1 /\ s.latest = None
    BY <1>0, <2>1 DEF TransmitInv
  <2>4. QED BY <2>1, <2>2, <2>3
<1>2. CASE TransmitList(t)
  <2>1. s.pc = "list" /\ r.pc = "send" /\ r.base = s.base /\ r.list = RowsAfter(s.base)
        /\ r.pos = s.pos /\ r.latest = s.latest
    BY <1>0, <1>2 DEF TransmitList, Transmit
  <2>2. s.base \in Nat \cup {-1} /\ UpTo(s.base) /\ s.pos = 1 /\ s.latest = None
    BY <1>0, <2>1 DEF TransmitInv, Transmit
  <2>3. queue' = queue /\ mined' = mined
    BY <1>2 DEF TransmitList, chain
  <2>4. Listed(r)
    BY <1>0, <2>1, <2>2, <2>3, RowsAfterInv DEF Listed
  <2>5. Given(r.base) /\ r.base + r.pos - 1 = r.base
    BY <1>a, <2>1, <2>2
  <2>6. QED BY <2>1, <2>2, <2>4, <2>5
<1>3. CASE SkipFinal(t) \/ SendTaken(t)
  <2>1. Sending(t) /\ Continue(t, n)
    BY <1>3 DEF SkipFinal, SendTaken, n
  <2>2. r.pc = "send" /\ r.base = s.base /\ r.list = s.list /\ r.pos = s.pos + 1
        /\ r.latest = n
    BY <1>0, <2>1 DEF Continue, Transmit
  <2>3. n \in accepted'
    <3>1. CASE SkipFinal(t)
      <4>1. n \in 0..(Len(mined) - 1)
        BY <1>d, <2>1, <3>1, Grows DEF SkipFinal
      <4>2. QED BY <1>0, <4>1, Grows DEF AcceptedInv
    <3>2. CASE SendTaken(t)
      BY <3>2 DEF SendTaken, Accept, n
    <3>3. QED BY <1>3, <3>1, <3>2
  <2>4. Given(r.base)
    BY <1>0, <1>a, <1>d, <2>1, <2>2 DEF TransmitInv
  <2>5. Listed(r) /\ r.base + r.pos - 1 = n
    BY <1>0, <1>d, <2>1, <2>2 DEF Listed, Transmit
  <2>6. QED BY <1>d, <2>1, <2>2, <2>3, <2>4, <2>5
<1>4. CASE SendLost(t) \/ SendRejected(t)
  <2>1. r.pc = "done" /\ r.base = s.base /\ r.latest = s.latest /\ s.pc = "send"
    BY <1>0, <1>4 DEF SendLost, SendRejected, Break, Transmit, Sending
  <2>2. s.latest # None => Given(s.latest)
    BY <1>0, <1>a DEF TransmitInv
  <2>3. Given(s.base)
    BY <1>0, <1>a, <2>1 DEF TransmitInv
  <2>4. QED BY <2>1, <2>2, <2>3
<1>5. CASE SendKnown(t)
  <2>1. Sending(t) /\ Known(n)
    BY <1>5 DEF SendKnown, n
  <2>2. r.pc = "repair" /\ r.base = s.base /\ r.list = s.list /\ r.pos = s.pos
        /\ r.latest = s.latest
    BY <1>0, <1>5 DEF SendKnown, Transmit
  <2>3. n \in accepted'
    <3>1. n \in pool \/ n \in 0..(Len(mined) - 1)
      BY <1>d, <2>1, Grows DEF Known
    <3>2. QED BY <1>0, <3>1, Grows DEF AcceptedInv
  <2>4. s.latest # None => Given(s.latest)
    BY <1>0, <1>a DEF TransmitInv
  <2>5. Given(s.base) /\ Given(r.base + r.pos)
    BY <1>0, <1>a, <1>d, <2>1, <2>2, <2>3 DEF TransmitInv
  <2>6. Listed(r)
    BY <1>d, <2>1, <2>2 DEF Listed
  <2>7. QED BY <2>2, <2>4, <2>5, <2>6
<1>6. CASE TransmitRepair(t)
  <2>1. PICK count \in 0..MaxTxs :
          /\ IsPendingCount(count)
          /\ IF Repaired(t, count) \in {None, 0}
             THEN Break(t, Repaired(t, count))
             ELSE Continue(t, Repaired(t, count))
    BY <1>6 DEF TransmitRepair
  <2>2. Repaired(t, count) # None => Given(Repaired(t, count))
    <3>1. UpTo(count - 1)
      BY <1>0, <2>1, PendingCountSound
    <3>2. Given(count - 1)
      BY <1>a, <3>1
    <3>3. QED BY <3>2 DEF Repaired
  <2>3. ListInv(s) /\ Given(s.base) /\ Given(s.base + s.pos)
    BY <1>0, <1>6, <1>a DEF TransmitRepair, TransmitInv
  <2>4. /\ r.base = s.base /\ r.list = s.list /\ r.latest = Repaired(t, count)
        /\ r.pc = "done" \/ (r.pc = "send" /\ r.pos = s.pos + 1)
    <3>1. CASE Break(t, Repaired(t, count))
      BY <1>0, <3>1 DEF Break, Transmit
    <3>2. CASE Continue(t, Repaired(t, count))
      BY <1>0, <3>2 DEF Continue, Transmit
    <3>3. QED BY <2>1, <3>1, <3>2
  <2>5. s.base + (s.pos + 1) - 1 = s.base + s.pos
    BY <1>0 DEF Transmit
  <2>6. Listed(r)
    BY <1>b, <2>3, <2>4
  <2>7. QED BY <2>2, <2>3, <2>4, <2>5, <2>6
<1>7. CASE TransmitFinish(t) \/ TransmitDies(t)
  <2>1. r = NoTransmit
    BY <1>0, <1>7 DEF TransmitFinish, TransmitDies
  <2>2. QED BY <2>1 DEF NoTransmit, None
<1>8. QED BY <1>1, <1>2, <1>3, <1>4, <1>5, <1>6, <1>7 DEF TransmitStep, TransmitFails

(* The pool and the chain hold only what the node was given. *)
LEMMA AcceptedStep ==
    ASSUME TypeOK, SkipInv, [Next]_vars
    PROVE  AcceptedInv'
<1>0. /\ AcceptedInv /\ pool \subseteq Nat /\ accepted \subseteq Nat
      /\ Len(mined) \in Nat /\ Len(queue) \in Nat
  BY Grows DEF SkipInv, TypeOK
<1>1. CASE UNCHANGED <<pool, accepted, mined>>
  BY <1>0, <1>1, Grows DEF AcceptedInv
<1>2. ASSUME NEW t \in Transmitters, SendTaken(t) \/ SendLost(t) PROVE AcceptedInv'
  <2>1. Sending(t) /\ Accept(Nonce(t)) /\ queue' = queue
    BY <1>2 DEF SendTaken, SendLost
  <2>2. Nonce(t) < Len(queue)
    BY <2>1, SendingInv DEF SkipInv
  <2>3. QED BY <1>0, <2>1, <2>2 DEF Accept, AcceptedInv
<1>3. ASSUME NEW ok \in BOOLEAN, Include(ok) PROVE AcceptedInv'
  <2>1. Len(mined') = Len(mined) + 1
    <3>1. [block |-> height + 1, ok |-> ok] \in Mined
      BY DEF TypeOK, Mined
    <3>2. QED BY <1>3, <3>1, AppendProperties DEF Include, TypeOK
  <2>2. Len(mined) \in accepted /\ pool' \subseteq pool
        /\ accepted' = accepted /\ queue' = queue
    BY <1>0, <1>3 DEF Include, AcceptedInv
  <2>3. \A k \in 0..(Len(mined') - 1) : k \in 0..(Len(mined) - 1) \/ k = Len(mined)
    BY <1>0, <2>1
  <2>4. QED BY <1>0, <2>2, <2>3 DEF AcceptedInv
<1>4. ASSUME NEW n \in pool, Drop(n) PROVE AcceptedInv'
  BY <1>0, <1>4 DEF Drop, AcceptedInv
<1>5. QED
  <2>1. ASSUME NEW c \in Creators, Create(c) PROVE UNCHANGED <<pool, accepted, mined>>
    BY <2>1 DEF Create, CreateSelect, CreateCommit, CreateRollback, chain
  <2>2. ASSUME NEW t \in Transmitters, TransmitStep(t) \/ TransmitFails(t)
        PROVE  UNCHANGED <<pool, accepted, mined>> \/ SendTaken(t) \/ SendLost(t)
    BY <2>2 DEF TransmitStep, TransmitFails, TransmitBegin, TransmitList, SkipFinal,
                SendRejected, SendKnown, TransmitRepair, TransmitFinish, TransmitDies, chain
  <2>3. ASSUME NEW v \in Verifiers, VerifyStep(v) \/ VerifyRollback(v)
        PROVE  UNCHANGED <<pool, accepted, mined>>
    BY <2>3 DEF VerifyStep, VerifyBegin, VerifyFetch, VerifyCommit, VerifyRollback, chain
  <2>4. ASSUME NEW c \in Checkers, CheckStep(c) \/ CheckDies(c)
        PROVE  UNCHANGED <<pool, accepted, mined>>
    BY <2>4 DEF CheckStep, CheckQuery, CheckCount, CheckReset, CheckDies, chain
  <2>5. CASE Seal \/ Index \/ UNCHANGED vars
    BY <1>1, <2>5 DEF Seal, Index, vars, chain
  <2>6. QED BY <1>1, <1>2, <1>3, <1>4, <2>1, <2>2, <2>3, <2>4, <2>5 DEF Next, Mine

(* Whose local state a step changes. *)
LEMMA OwnStep ==
    ASSUME TypeOK, [Next]_vars
    PROVE  /\ \A t \in Transmitters : \/ transmit'[t] = transmit[t]
                                      \/ TransmitStep(t) \/ TransmitFails(t)
           /\ \A c \in Checkers : \/ check'[c] = check[c]
                                  \/ CheckStep(c) \/ CheckDies(c)
           /\ \/ wallet'.lastProcessed = wallet.lastProcessed
              \/ \E t \in Transmitters : TransmitFinish(t)
              \/ \E c \in Checkers : CheckReset(c)
<1>0. /\ transmit \in [Transmitters -> Transmit] /\ check \in [Checkers -> Check]
      /\ wallet \in Wallet
  BY DEF TypeOK
<1>1. CASE UNCHANGED vars
  BY <1>1 DEF vars
<1>2. ASSUME NEW c \in Creators, Create(c)
      PROVE  UNCHANGED <<transmit, check, wallet.lastProcessed>>
  BY <1>0, <1>2 DEF Create, CreateSelect, CreateCommit, CreateRollback, Wallet
<1>3. ASSUME NEW t \in Transmitters, TransmitStep(t) \/ TransmitFails(t)
      PROVE  /\ check' = check
             /\ \A u \in Transmitters : u = t \/ transmit'[u] = transmit[u]
             /\ wallet' = wallet \/ TransmitFinish(t)
  BY <1>0, <1>3 DEF TransmitStep, TransmitFails, TransmitBegin, TransmitList, SkipFinal,
                SendTaken, SendLost, SendRejected, SendKnown, TransmitRepair,
                TransmitFinish, TransmitDies, Continue, Break
<1>4. ASSUME NEW v \in Verifiers, VerifyStep(v) \/ VerifyRollback(v)
      PROVE  UNCHANGED <<transmit, check, wallet.lastProcessed>>
  BY <1>0, <1>4 DEF VerifyStep, VerifyBegin, VerifyFetch, VerifyCommit, VerifyRollback, Wallet
<1>5. ASSUME NEW c \in Checkers, CheckStep(c) \/ CheckDies(c)
      PROVE  /\ transmit' = transmit
             /\ \A d \in Checkers : d = c \/ check'[d] = check[d]
             /\ wallet' = wallet \/ CheckReset(c)
  BY <1>0, <1>5 DEF CheckStep, CheckQuery, CheckCount, CheckReset, CheckDies
<1>6. CASE Mine \/ Seal \/ Index \/ \E n \in pool : Drop(n)
  BY <1>6 DEF Mine, Include, Seal, Index, Drop
<1>7. QED BY <1>1, <1>2, <1>3, <1>4, <1>5, <1>6 DEF Next

(* What a checker is about to reset to was given to the node. *)
LEMMA CheckOwn ==
    ASSUME TypeOK, SkipInv, [Next]_vars, NEW c \in Checkers, CheckStep(c) \/ CheckDies(c)
    PROVE  CheckInv(c)'
<1>0. check \in [Checkers -> Check]
  BY DEF TypeOK
<1>1. CASE CheckCount(c)
  <2>1. PICK count \in 0..MaxTxs :
          /\ IsPendingCount(count)
          /\ check' = [check EXCEPT ![c] =
                         IF Forgotten(c, count)
                         THEN [check[c] EXCEPT !.pc = "reset", !.lastProcessed = count - 1]
                         ELSE NoCheck]
    BY <1>1 DEF CheckCount
  <2>2. check'[c].pc = "reset" => check'[c].lastProcessed = count - 1
    BY <1>0, <2>1 DEF NoCheck, Check
  <2>3. UpTo(count - 1)
    BY <2>1, PendingCountSound DEF SkipInv
  <2>4. QED BY <2>2, <2>3, Grows DEF CheckInv, UpTo
<1>2. CASE CheckQuery(c) \/ CheckReset(c) \/ CheckDies(c)
  <2>1. check'[c].pc # "reset"
    BY <1>0, <1>2 DEF CheckQuery, CheckReset, CheckDies, NoCheck
  <2>2. QED BY <2>1 DEF CheckInv
<1>3. QED BY <1>1, <1>2 DEF CheckStep

(* The invariant behind NoSkip is kept by every step. *)
LEMMA SkipStep ==
    ASSUME TypeOK, NonceOrder, StatusSound, SkipInv, [Next]_vars
    PROVE  SkipInv'
<1>1. AcceptedInv'
  BY AcceptedStep
<1>2. ASSUME NEW t \in Transmitters PROVE TransmitInv(t)'
  BY OwnStep, TransmitOwn, TransmitStable DEF SkipInv
<1>3. ASSUME NEW c \in Checkers PROVE CheckInv(c)'
  BY OwnStep, CheckOwn, CheckStable DEF SkipInv
<1>4. NoSkip'
  <2>0. wallet \in Wallet
    BY DEF TypeOK
  <2>1. CASE wallet'.lastProcessed = wallet.lastProcessed
    BY <2>1, Grows DEF SkipInv, NoSkip
  <2>2. ASSUME NEW t \in Transmitters, TransmitFinish(t) PROVE NoSkip'
    <3>1. TransmitInv(t) /\ accepted' = accepted /\ NoSkip
      BY <2>2 DEF SkipInv, TransmitFinish, chain
    <3>2. wallet'.lastProcessed = IF transmit[t].latest = None THEN wallet.lastProcessed
                                  ELSE transmit[t].latest
      BY <2>0, <2>2 DEF TransmitFinish, Wallet
    <3>3. QED BY <3>1, <3>2 DEF TransmitInv, NoSkip, UpTo
  <2>3. ASSUME NEW c \in Checkers, CheckReset(c) PROVE NoSkip'
    <3>1. UpTo(check[c].lastProcessed) /\ accepted' = accepted
      BY <2>3 DEF SkipInv, CheckInv, CheckReset, chain
    <3>2. wallet'.lastProcessed = check[c].lastProcessed
      BY <2>0, <2>3 DEF CheckReset, Wallet
    <3>3. QED BY <3>1, <3>2 DEF NoSkip, UpTo
  <2>4. QED BY <2>1, <2>2, <2>3, OwnStep
<1>5. QED BY <1>1, <1>2, <1>3, <1>4 DEF SkipInv

(* The invariant behind NoSkip holds. *)
LEMMA SkipHolds == Spec => []SkipInv
<1>1. Init => SkipInv
  <2>1. ASSUME Init PROVE Len(mined) = 0 /\ Len(queue) = 0
    BY <2>1, EmptySeq DEF Init
  <2>2. QED BY <2>1 DEF Init, SkipInv, AcceptedInv, TransmitInv, CheckInv, NoSkip,
                        NoTransmit, NoCheck, None, UpTo
<1>2. TypeOK /\ NonceOrder /\ StatusSound /\ SkipInv /\ [Next]_vars => SkipInv'
  BY SkipStep
<1>3. QED BY <1>1, <1>2, TypeCorrect, NonceOrderHolds, StatusHolds, PTL DEF Spec

(* Whatever the transmitters and checkers wrote from what they had read    *)
(* earlier, no transaction up to lastProcessedNonce was kept from the node. *)
THEOREM NothingSkipped == Spec => []NoSkip
<1>1. SkipInv => NoSkip
  BY DEF SkipInv
<1>2. QED BY <1>1, SkipHolds, PTL

-----------------------------------------------------------------------------
(* What is behind ParsedSound: nothing is mined into a block the indexer   *)
(* has, and all up to where a verifier began is booked.                    *)
ParsedTo(b) == \A k \in 1..Len(mined) :
                 mined[k].block =< b => queue[k].status = Outcome(k)

VerifyInv(v) == /\ verify[v].from =< indexed /\ verify[v].to =< indexed
                /\ verify[v].pc # "idle" => ParsedTo(verify[v].from)

ParsedInv == /\ indexed =< height /\ wallet.lastParsed =< indexed
             /\ ParsedTo(wallet.lastParsed)
             /\ \A v \in Verifiers : VerifyInv(v)

(* What is booked stays booked, and no transaction joins an old block. *)
LEMMA ParsedStable ==
    ASSUME TypeOK, AcceptedInv, [Next]_vars,
           NEW b \in Nat, b =< height, ParsedTo(b)
    PROVE  ParsedTo(b)'
<1>0. /\ Len(queue) \in Nat /\ \A k \in 1..Len(queue) : queue[k] \in Tx
      /\ Len(mined) \in Nat /\ height \in Nat
  BY LenProperties, ElementOfSeq DEF TypeOK
<1>1. Len(mined) =< Len(queue)
  <2>1. CASE Len(mined) = 0
    BY <1>0, <2>1
  <2>2. CASE Len(mined) # 0
    <3>1. Len(mined) - 1 \in 0..(Len(mined) - 1)
      BY <1>0, <2>2
    <3>2. Len(mined) - 1 < Len(queue)
      BY <3>1 DEF AcceptedInv
    <3>3. QED BY <1>0, <3>2
  <2>3. QED BY <2>1, <2>2
<1>2. ASSUME NEW c \in Creators, CreateCommit(c), mined' = mined PROVE ParsedTo(b)'
  <2>1. [nonce |-> drawn[c], status |-> Pending] \in Tx
    BY DEF TypeOK, Tx
  <2>2. \A k \in 1..Len(queue) : queue'[k] = queue[k]
    BY <1>2, <2>1, AppendProperties DEF CreateCommit, TypeOK
  <2>3. QED BY <1>0, <1>1, <1>2, <2>2 DEF ParsedTo, Outcome
<1>3. ASSUME NEW v \in Verifiers, VerifyCommit(v), mined' = mined PROVE ParsedTo(b)'
  <2>1. \A k \in 1..Len(queue) : \/ queue'[k].status = Outcome(k)
                                 \/ queue'[k] = queue[k]
    BY <1>0, <1>3, UpdatedType DEF VerifyCommit, Updated, Tx
  <2>2. QED BY <1>0, <1>1, <1>3, <2>1 DEF ParsedTo, Outcome
<1>4. ASSUME NEW ok \in BOOLEAN, Include(ok), queue' = queue PROVE ParsedTo(b)'
  <2>1. /\ Len(mined') = Len(mined) + 1
        /\ \A k \in 1..Len(mined) : mined'[k] = mined[k]
        /\ mined'[Len(mined) + 1].block = height + 1
    <3>1. [block |-> height + 1, ok |-> ok] \in Mined
      BY DEF TypeOK, Mined
    <3>2. QED BY <1>4, <3>1, AppendProperties DEF Include, TypeOK
  <2>2. \A k \in 1..Len(mined') : k \in 1..Len(mined) \/ k = Len(mined) + 1
    BY <1>0, <2>1
  <2>3. QED BY <1>0, <1>4, <2>1, <2>2 DEF ParsedTo, Outcome
<1>5. CASE UNCHANGED <<queue, mined>>
  BY <1>5 DEF ParsedTo, Outcome
<1>6. QED BY <1>2, <1>3, <1>4, <1>5, QueueStep

(* A verifier that commits has booked all up to where it parsed. *)
LEMMA CommitBooks ==
    ASSUME TypeOK, AcceptedInv, [Next]_vars, NEW v \in Verifiers, VerifyInv(v),
           VerifyCommit(v)
    PROVE  \A k \in 1..Len(mined') :
             mined'[k].block =< verify[v].to => queue'[k].status = Outcome(k)'
<1>0. /\ Len(queue) \in Nat /\ \A k \in 1..Len(queue) : queue[k] \in Tx
      /\ Len(mined) \in Nat /\ \A k \in 1..Len(mined) : mined[k] \in Mined
      /\ verify[v] \in Verify /\ mined' = mined
  BY LenProperties, ElementOfSeq DEF TypeOK, VerifyCommit, chain
<1>1. \A k \in 1..Len(mined) : k \in 1..Len(queue)
  <2>1. \A k \in 1..Len(mined) : k - 1 \in 0..(Len(mined) - 1)
    BY <1>0
  <2>2. \A k \in 1..Len(mined) : k - 1 < Len(queue)
    BY <2>1 DEF AcceptedInv
  <2>3. QED BY <1>0, <2>2
<1>2. SUFFICES ASSUME NEW k \in 1..Len(mined), mined[k].block =< verify[v].to
               PROVE  queue'[k].status = Outcome(k)
  BY <1>0 DEF Outcome
<1>3. queue' = Updated(v) /\ ParsedTo(verify[v].from)
  BY DEF VerifyCommit, Updated, VerifyInv
<1>4. CASE Fetched(v, k)
  BY <1>0, <1>1, <1>3, <1>4, UpdatedType DEF Tx
<1>5. CASE ~ Fetched(v, k)
  <2>1. mined[k].block =< verify[v].from
    BY <1>0, <1>2, <1>5 DEF Fetched, Mined, Verify
  <2>2. queue'[k] = queue[k]
    BY <1>1, <1>3, <1>5, UpdatedType
  <2>3. QED BY <1>3, <2>1, <2>2 DEF ParsedTo
<1>6. QED BY <1>4, <1>5

(* The invariant behind ParsedSound is kept by every step. *)
LEMMA ParsedStep ==
    ASSUME TypeOK, AcceptedInv, ParsedInv, [Next]_vars
    PROVE  ParsedInv'
<1>0. /\ wallet \in Wallet /\ verify \in [Verifiers -> Verify]
      /\ height \in Nat /\ indexed \in Nat
  BY DEF TypeOK
<1>1. height' >= height /\ indexed' >= indexed /\ height' \in Nat /\ indexed' \in Nat
      /\ indexed' =< height'
  <2>1. CASE Seal \/ Index
    BY <1>0, <2>1 DEF Seal, Index, ParsedInv
  <2>2. CASE ~ (Seal \/ Index)
    <3>1. UNCHANGED <<height, indexed>>
      BY <2>2 DEF Next, Create, CreateSelect, CreateCommit, CreateRollback, TransmitStep,
         TransmitFails, TransmitBegin, TransmitList, SkipFinal, SendTaken, SendLost,
         SendRejected, SendKnown, TransmitRepair, TransmitFinish, TransmitDies, Accept,
         VerifyStep, VerifyBegin, VerifyFetch, VerifyCommit, VerifyRollback, CheckStep,
         CheckQuery, CheckCount, CheckReset, CheckDies, Mine, Include, Drop, chain, vars
    <3>2. QED BY <1>0, <3>1 DEF ParsedInv
  <2>3. QED BY <2>1, <2>2
<1>2. ASSUME NEW b \in Nat, b =< indexed, ParsedTo(b) PROVE ParsedTo(b)' /\ b =< indexed'
  <2>1. b =< height
    BY <1>0, <1>2 DEF ParsedInv
  <2>2. QED BY <1>0, <1>1, <1>2, <2>1, ParsedStable
<1>3. ASSUME NEW v \in Verifiers PROVE VerifyInv(v)'
  <2>0. VerifyInv(v) /\ verify[v] \in Verify
    BY <1>0 DEF ParsedInv
  <2>1. CASE verify'[v] = verify[v]
    <3>1. verify[v].from \in Nat /\ verify[v].to \in Nat
      BY <2>0 DEF Verify
    <3>2. QED BY <1>0, <1>1, <1>2, <2>0, <2>1, <3>1 DEF VerifyInv
  <2>2. CASE VerifyBegin(v)
    <3>1. /\ verify'[v].from = wallet.lastParsed /\ verify'[v].to = verify[v].to
          /\ verify[v].to \in Nat /\ wallet.lastParsed \in Nat
      BY <1>0, <2>0, <2>2 DEF VerifyBegin, Verify, Wallet
    <3>2. ParsedTo(wallet.lastParsed) /\ wallet.lastParsed =< indexed
      BY DEF ParsedInv
    <3>3. QED BY <1>0, <1>1, <1>2, <2>0, <3>1, <3>2 DEF VerifyInv, ParsedTo, Outcome
  <2>3. CASE VerifyFetch(v)
    <3>1. /\ verify'[v].from = verify[v].from /\ verify[v].from \in Nat
          /\ verify'[v].to \in Nat /\ verify'[v].to =< indexed
          /\ verify[v].pc # "idle"
      <4>1. verify[v].from \in Nat /\ verify[v].from + ParseSize \in Nat
        BY <2>0, Assumptions DEF Verify
      <4>2. QED BY <1>0, <2>0, <2>3, <4>1 DEF VerifyFetch, Verify
    <3>2. QED BY <1>0, <1>1, <1>2, <2>0, <3>1 DEF VerifyInv, ParsedTo, Outcome
  <2>4. CASE VerifyCommit(v) \/ VerifyRollback(v)
    <3>1. verify'[v] = NoVerify
      BY <1>0, <2>4 DEF VerifyCommit, VerifyRollback
    <3>2. QED BY <1>1, <3>1 DEF VerifyInv, NoVerify
  <2>5. verify'[v] = verify[v] \/ VerifyStep(v) \/ VerifyRollback(v)
    BY <1>0 DEF Next, Create, CreateSelect, CreateCommit, CreateRollback, TransmitStep,
         TransmitFails, TransmitBegin, TransmitList, SkipFinal, SendTaken, SendLost,
         SendRejected, SendKnown, TransmitRepair, TransmitFinish, TransmitDies,
         VerifyStep, VerifyBegin, VerifyFetch, VerifyCommit, VerifyRollback, CheckStep,
         CheckQuery, CheckCount, CheckReset, CheckDies, Mine, Include, Seal, Index,
         Drop, vars
  <2>6. QED BY <2>1, <2>2, <2>3, <2>4, <2>5 DEF VerifyStep
<1>4. wallet'.lastParsed =< indexed' /\ ParsedTo(wallet.lastParsed)'
  <2>1. CASE wallet'.lastParsed = wallet.lastParsed
    <3>1. wallet.lastParsed \in Nat /\ wallet.lastParsed =< indexed
          /\ ParsedTo(wallet.lastParsed)
      BY <1>0 DEF ParsedInv, Wallet
    <3>2. QED BY <1>0, <1>1, <1>2, <2>1, <3>1 DEF ParsedTo, Outcome
  <2>2. ASSUME NEW v \in Verifiers, VerifyCommit(v)
        PROVE  wallet'.lastParsed =< indexed' /\ ParsedTo(wallet.lastParsed)'
    <3>1. wallet'.lastParsed = verify[v].to /\ verify[v].to \in Nat
      BY <1>0, <2>2 DEF VerifyCommit, Wallet, Verify
    <3>2. VerifyInv(v)
      BY DEF ParsedInv
    <3>3. verify[v].to =< indexed'
      BY <1>0, <1>1, <3>1, <3>2 DEF VerifyInv
    <3>4. QED BY <2>2, <3>1, <3>2, <3>3, CommitBooks DEF ParsedTo
  <2>3. ASSUME \A v \in Verifiers : ~ VerifyCommit(v)
        PROVE  wallet'.lastParsed = wallet.lastParsed
    BY <1>0, <2>3 DEF Next, Create, CreateSelect, CreateCommit, CreateRollback,
         TransmitStep, TransmitFails, TransmitBegin, TransmitList, SkipFinal, SendTaken,
         SendLost, SendRejected, SendKnown, TransmitRepair, TransmitFinish, TransmitDies,
         VerifyStep, VerifyBegin, VerifyFetch, VerifyRollback, CheckStep, CheckQuery,
         CheckCount, CheckReset, CheckDies, Mine, Include, Seal, Index, Drop, vars, Wallet
  <2>4. QED BY <2>1, <2>2, <2>3
<1>5. QED BY <1>1, <1>3, <1>4 DEF ParsedInv

(* Part of it that ParsedSound needs as well. *)
LEMMA AcceptedHolds == Spec => []AcceptedInv
<1>1. SkipInv => AcceptedInv
  BY DEF SkipInv
<1>2. QED BY <1>1, SkipHolds, PTL

(* No verifier steps over a block it has not booked, and no outcome is     *)
(* booked that the chain does not have, with any number of verifiers that  *)
(* commit in any order.                                                    *)
THEOREM OutcomesSound == Spec => []ParsedSound
<1>1. Init => ParsedInv
  <2>1. ASSUME Init PROVE Len(mined) = 0
    BY <2>1, EmptySeq DEF Init
  <2>2. QED BY <2>1 DEF Init, ParsedInv, VerifyInv, ParsedTo, NoVerify
<1>2. TypeOK /\ AcceptedInv /\ ParsedInv /\ [Next]_vars => ParsedInv'
  BY ParsedStep
<1>3. ParsedInv /\ StatusSound => ParsedSound
  BY DEF ParsedInv, ParsedTo, StatusSound, ParsedSound
<1>4. QED BY <1>1, <1>2, <1>3, TypeCorrect, AcceptedHolds, StatusHolds, PTL DEF Spec
=============================================================================
