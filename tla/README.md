# Formal models of the Apillon services

TLA+ models of the parts of this repository whose correctness depends on what
several lambdas do to the same rows at the same time, TLC configurations that
check them on small instances, and proofs that TLAPS checks for every value of
the constants.

1. [The system](#1-the-system): the components, their state and how they interact
2. [What is modelled](#2-what-is-modelled): modules and their correspondence to the code
3. [Runs](#3-runs): what TLC checks, bounds, fairness
4. [Proofs](#4-proofs): what is proved, from what, along which argument
5. [What the models say about the code](#5-what-the-models-say-about-the-code)
6. [Not modelled](#6-not-modelled)

## 1. The system

The platform is a set of microservices that run as AWS lambdas. HTTP APIs
(`modules/*-api`) validate a request and invoke the lambda of a service
(`services/*`) synchronously through the clients in
`packages/lib/src/lib/at-services`. Each service has a MySQL schema of its own
and, where it works in the background, workers: lambdas started by a scheduler
(cron expressions in table `job`) or by messages of an SQS queue. Nothing is
shared between lambdas but database rows, messages and the outside world
(chains, indexers, Crust, IPFS, Stripe, KILT, mail). So every hard behaviour here
is of one kind: several invocations read rows, call somebody, and write later
what they concluded, and any of them may die between two statements.

Most rows are read whole by `populateById` and its like and written whole by
`update()`, without a lock and without a version: two lambdas that work on one
row overwrite each other. Where a property holds only as long as that has not
happened, the model keeps a history variable that says whether it has (`lost`,
`late`, `disturbed`, `stale`, `raced`), and the property names it.

| component | state | operations | interacts with | hard behaviour | correct means |
|---|---|---|---|---|---|
| credit account (`services/config/.../credit`) | rows `credit`, `credit_transaction` | addCredit, spendCredit, refundCredit, configureCredit | every paying service through `spendCreditAction`; Stripe and promo codes through addCredit | concurrent bookings, partial failure, refunds reported twice | balance equals the sum of the bookings, never negative; each reference paid once and refunded once |
| job lock (`packages/workers-lib`) | row `job`: status, executorCount, lastRun | before, execute, onSuccess, onError, three updates of the definition | scheduler, SQS, the clock | take-over by age, death of the holder, unlocked read-modify-write | one instance at a time; a dead holder does not block the job |
| EVM transaction queue (`services/blockchain`) | rows `transaction_queue`, `wallet` | createTransaction, transmitTransactions, EvmTransactionWorker, CheckPendingTransactionsWorker | node, chain, indexer, the services that wait for the outcome | nonces, lost answers, forgotten transactions, stale columns | no gap or repeat of nonces, no transaction passed over, outcomes are the chain's, every transaction gets one |
| transaction webhooks (`services/blockchain`) | column `webhookTriggered` | TransactionWebhookWorker, processWebhook | SQS, status workers of nfts, contracts, computing, social, storage | lost and repeated messages, two senders, a sender that dies | every outcome reaches its consumer, none that is not final |
| contracts (`services/contracts`) | rows `contract_deploy`, `transaction` | deploy, call, transfer, TransactionStatusWorker | credit account, transaction queue, webhooks | payment, transaction, row and refund in different lambdas | a failed paid transaction is refunded; the status says what happened on chain |
| nfts (`services/nfts`) | rows `collection`, `transaction` | create, deploy, mint, transfer, DeployCollectionWorker, TransactionStatusWorker | as contracts, and storage for the metadata | a row written from stale reads by three kinds of lambda | as contracts; a collection is deployed once, with the CID of its metadata |
| upload sessions, pins (`services/storage`) | sessions, upload requests, files, bucket size, `pin_to_crust_request`, S3 | createUploadUrls, endFileUploadSession, SyncToIPFSWorker, PinToCrustWorker, deleteFile, restoreFile | S3, IPFS node, Crust | batches with failing files, repeated messages, counters | what is completed is pinned and counted; every session that was ended finishes |
| hosting (`services/storage`) | websites, deployments, three buckets, IPFS directories | deployWebsite, DeployWebsiteWorker, approveDeployment, rejectDeployment | credit account, sessions, reviewers (Slack) | retries, review between two runs, upload bucket changes meanwhile | bucket and CID agree, nothing is published that was neither approved nor excused, a paid deployment settles |
| subscriptions, invoices (`services/config`) | rows `subscription`, `invoice` | create, update, credits, ExpiredSubscriptionsWorker | Stripe events (repeated, unordered), credit account, storage quota | two transactions that should be one; late events | credits once per purchase, the row says what Stripe says, files are not released early |
| MySQL access (`packages/lib/.../mysql.ts`) | pool of 10 connections | start, commit, rollback, paramExecute | everything | connections not released | no invocation waits for a connection forever |
| computing, social | contracts, spaces, posts | deployments, transactions, posts | credit account, queues | as contracts, smaller | as contracts |
| authentication, access, infrastructure, deploy, referral, simplets, mailing, monitoring | single rows | CRUD and calls of providers | providers | little | - |

The hazards, each at the line where it bites and with the properties that watch
it, are listed in `PROJECT.json`.

## 2. What is modelled

| module | what it is |
|---|---|
| `CreditLedger` | the account of one project and its four handlers, statement by statement |
| `Ledger` | its abstract specification: an atomic account that never goes below zero |
| `JobLock` | `BaseSingleThreadWorker` and `ServerlessWorker.run` on the row of one job |
| `TxQueue` | creation, transmission, verification and pending check on one EVM wallet |
| `Webhooks` | the outbox of outcomes: selection, batches, messages, the note of what was sent |
| `Delivery` | its abstract specification: at-least-once delivery of what is final |
| `Contracts` | one contract from payment to outcome; EXTENDS `Webhooks`, so the two are checked as one system |
| `NftMetadata` | the storage worker that prepares a collection for its deployment |
| `NftCollection` | one collection from creation to transfer; EXTENDS `NftMetadata` |
| `CrustPins` | requests to pin content on Crust and the workers that place them |
| `FileUpload` | upload sessions of one bucket; EXTENDS `CrustPins` |
| `Hosting` | the deployments of one website and their review |
| `Subscriptions` | the subscriptions of one project |
| `MC*` | constants and bounds for TLC |
| `CreditLedgerProofs`, `JobLockProofs`, `TxQueueProofs`, `ContractsProofs`, `NftCollectionProofs`, `HostingProofs`, `FileUploadProofs`, `SubscriptionsProofs` | theorems and proofs |

An operator marked `seeded fault` is a variant of the definition that follows it,
with a mistake somebody could make in that code. It is no part of the
specification. `PROJECT.json` names, for each property, the variant under which
the property must fail, and for each definition the lines it stands for.

### CreditLedger

`Procs` are the lambda invocations in flight, `Refs` the (referenceTable,
referenceId) pairs something is paid under. `credit` is the committed row;
`credit_transaction` is kept as what its readers ask for (the number of SPEND
and RECEIVE rows per reference, and both sums). `job[p]` is the memory of an
invocation: where it is, what it was called with, the row it read.

A transaction has two steps, as its effect on others has: `Select` (SELECT ...
FOR UPDATE: takes the lock and reads) and the commit, which publishes the
row and the `credit_transaction` row together. `credit` has no index on
`project_uuid`, so the lock is one word for the table.

| action | code |
|---|---|
| `AddCall`, `AddSelect`, `AddCommit` | `CreditService.addCredit` |
| `SpendCall`, `SpendSelect`, `SpendReject`, `SpendCommit` | `spendCreditAction`, `CreditService.spendCredit` |
| `ActionSucceeds`, `ActionFails` | the paid action inside `spendCreditAction` |
| `RefundCall`, `RefundCheck`, `RefundReject`, `RefundSelect`, `RefundCommit` | `refundCredit`, called by the wrapper and by status workers |
| `ConfigCall`, `ConfigSelect`, `ConfigUpdate` | `configureCredit`: no connection is passed, so each statement is a transaction of its own |
| `StatementFails`, `Crash` | the `catch` of each handler; the end of a lambda |

Three details matter. The check for a refundable payment (`RefundCheck`) is a
query before the transaction, so it is a step of its own, and two refunds may
both pass it. What keeps the second one out is the unique key of
`credit_transaction` (`12-credit-transaction.ts`), which refuses a second SPEND
and a second RECEIVE row of one reference and rolls their transactions back. And
`configureCredit` writes every column of the row it read, the balance among them.

### JobLock

`before()` claims the row in a transaction with FOR UPDATE; that is one step
(`TakeOver` if the lock is older than the timeout, else `Acquire`). Afterwards
the row is read and written back as a whole by separate statements, three times:
`updateOnStarted` (sets lastRun), `updateJobState` (gives the lock back),
`updateOnCompleted` or `updateOnError` (writes the instance's lastRun). Each is a
read and a write. `Fail` is an exception anywhere after the claim, `Crash` the
end of the instance.

Times are ages, counted up to the timeout, because nothing distinguishes older
ones. `MaxRun` is the platform's limit on a lambda, which is not above the
timeout of a job (900 s for both in the seeds and in `serverless.yml`).

### TxQueue

One wallet and its rows. `queue[n + 1]` is the row with nonce n. The four kinds
of lambda are `Creators`, `Transmitters`, `Verifiers`, `Checkers`, with as many
instances as the constants say: the job lock is meant to allow one transmitter
and one verifier, but does not keep that promise (section 5), so nothing here
relies on it.

| action | code |
|---|---|
| `CreateSelect`, `CreateCommit`, `CreateRollback` | `EvmService.createTransaction`: FOR UPDATE on the wallet, insert and `iterateNonce`, commit |
| `TransmitBegin`, `TransmitList` | `getWallets`, `getList` |
| `SkipFinal`, `SendTaken`, `SendLost`, `SendRejected`, `SendKnown` | one turn of the loop of `transmitTransactions`, by what the node does |
| `TransmitRepair` | `trySelfRepairNonce` and what the loop makes of its result, nonce 0 being taken for a failure included |
| `TransmitFinish`, `TransmitDies` | `updateLastProcessedNonce`; an exception |
| `VerifyBegin`, `VerifyFetch`, `VerifyCommit`, `VerifyRollback` | `EvmTransactionWorker.runExecutor` for a wallet |
| `CheckQuery`, `CheckCount`, `CheckReset`, `CheckDies` | `CheckPendingTransactionsWorker.execute` for a wallet |
| `Include`, `Seal`, `Index`, `Drop` | external: a pool from which the chain takes the lowest nonce next, blocks, the indexer, a node that forgets |

`accepted` is a history variable: the nonces the node ever took. A statement that
updates the wallet waits while a creator holds its row (`lock = Nobody`).

Abstractions: blocks are final and the indexer is never reset; getList's limit of
1000 rows is not reached; a transaction the repair looks up is known to the node
or the call throws (`TransmitDies`); the 15 minutes before a pending transaction
is looked at may have passed at any time, in the order of the nonces.

### Webhooks, Delivery, Contracts

`Webhooks` begins where `TxQueue` ends: `Settle(t)` is the verifier's booking of
an outcome. An SQS queue is the set of the messages in it; `Acknowledge` takes
one out or leaves it, since SQS delivers at least once.

| action | code |
|---|---|
| `Select`, `SendTaken`, `SendFails`, `Note`, `SenderDies` | `TransactionWebhookWorker.runExecutor`: FOR UPDATE SKIP LOCKED, `processWebhook` per batch, `webhookTriggered`, commit |
| `Check`, `Pay`, `Create`, `CreateFails`, `SaveContract`, `SaveTx`, `MarkTransferring`, `CallDies` | deploy, call and transfer of the contracts service, in the order of their statements |
| `Record`, `Miss`, `Apply`, `RefundFailed`, `WorkerDies` | `TransactionStatusWorker` of the contracts service, for one item of a message |

`Checked` says whether the number of failed sends is looked at. The worker of the
EVM queue does (`TRUE` in the run and in the theorem); the Substrate variant in
`webhook-procedures.ts` notes what it sent without looking.

`Delivery` has three sets, what is final, delivered and noted, and says only that
each grows out of the one before. `ImplementsDelivery` is the refinement.

### NftMetadata, NftCollection

`NftMetadata` is `PrepareMetadataForCollectionWorker`, one message per step of the
row `collection_metadata`. A run works, saves the next step, sends its message and
ends; only then is its own message removed. So a message can be run again at a
later step than its own: because the run died in between, or because the queue
delivers it once more although the run ended well (`RunDies` has both). `again` has
the rows this happened to. Two deliveries are worked on one after the other.

| action | code |
|---|---|
| `Prepare` | `prepareBaseUriForCollection`: the row and its first message |
| `SaveStep` | steps one and two: images, JSON files |
| `Transfer`, `SaveTransfer` | step three: the metadata files are marked completed, and after that the step is saved |
| `SendNext` | the message of the next run, with the CID if the run has it |
| `Publish`, `Ignore` | step four, which sends the deployment; a message that comes after it |
| `RunDies` | an exception or the end of the lambda, a repeated message |
| `DeployCheck`, `DeployInit`, `DeployPrepare`, `DeployAnswered`, `PrepareFails`, `DeployDies` | `deployCollection` |
| `CreatePay`, `CreateInsert`, `CreateFails` | `createCollection`, with and without metadata of its own |
| `Read`, `Refuse`, `Mark`, `DeployFails`, `RefundDeploy`, `DeployerDies` | `DeployCollectionWorker` |
| `CreateTx`, `Commit` | `deployNFTCollectionContract`, for both |
| `Begin`, `Pay`, `SendTx`, `StoreTx`, `Update`, `CallFails`, `CallDies` | mint and the calls like it, transfer of ownership, update of a field |
| `Settle`, `Duplicate` | external: the outcome, as `Delivery` promises it |
| `Record`, `Miss`, `Apply`, `Leave`, `RefundFailed`, `WorkerDies` | `TransactionStatusWorker` of the nfts service |

`Save(base, row)` is `collection.update()`; it sets `lost` when the row in the
table is not the row that was read. `DeployFails` writes FAILED with the address
that `deployNFTCollectionContract` has put into the row in memory, if it got so far.

### CrustPins, FileUpload

`pin[f]` is the request that was made for file f; files with the same content
share one. The look-up and the insert of `pinFileToCRUST` are two statements
(`Ask`, `AskNew`). `PlaceOrder`, `OrderFails` and `Renew` are `PinToCrustWorker`,
`Outcome` is `UpdateCrustStatusWorker`.

| action | code |
|---|---|
| `AskUrl`, `CreateFur`, `Put` | `generateMultipleS3UrlsForUpload`, `createFURAndS3Url`; the client's upload |
| `End`, `MarkEnded`, `Process`, `ProcessFails`, `SendFirst` | `endFileUploadSession`, of a small or a large session |
| `Start`, `Empty`, `Validate`, `Reject` | `SyncToIPFSWorker` up to the batch |
| `TakeBatch`, `Move`, `MoveMissing`, `MoveFails`, `Complete`, `Ask`, `AskNew`, `Count`, `Finish` | `storageBucketSyncFilesToIPFS` on a batch and the message of the next |
| `RunFails`, `ValidateThrows`, `RunDies` | an exception; the end of the lambda |
| `DeleteRead`, `MarkDeleted`, `DeleteCount`, `RestoreRead`, `Restore` | `deleteFile`, `restoreFile` with the size of the bucket |

### Hosting

A content says for each path which session its file is from; it stands for the
CID, so that two CIDs are equal when the contents are. `target[b]` has the CID of
a bucket and what its rows of files say, because the code stores them in
different statements. `run[w]` is a run of the worker with the row it has read.
`mfs[d]` is the directory of a deployment on the IPFS node, to which the files are
written one by one: a run that fails or dies while it uploads leaves any part of
them (`Leave`), and the next attempt writes over it.

Whether a deployment needs a review is asked by every run again: not if the website
is that of a collection or its project has a subscription then, nor if the content
was published before, by any website and for any reason
(`populateDeploymentByCid`). `Known` is the last of these for the deployments of this
website; the others are the choice `excused` of `Upload`, noted in `waived`.

| action | code |
|---|---|
| `EndSession`, `Register`, `DeleteFile` | the upload bucket: `endFileUploadSession` clears and fills it; `deleteFile` |
| `Request`, `Spend`, `SpendFails`, `Deploy`, `RequestDies` | `deployWebsite` |
| `Take`, `Mark`, `ReadBucket`, `ReadFiles`, `Upload`, `SendToReview`, `Commit`, `ClearSource`, `Finish` | `DeployWebsiteWorker`, one run |
| `Fails`, `UploadFails`, `CommitFails`, `Refund`, `Dies` | its handler of errors, with retries and refund; the end of the lambda |
| `Look`, `Approve`, `SendApproved`, `Reject` | `approveDeployment`, `rejectDeployment` |

### Subscriptions

Stripe is modelled by what it holds of a subscription and by the events it has
not seen acknowledged; an event is delivered until it is, in any order. Of the
previous attributes of an event the code asks one thing, whether the subscription
was active until this change; that is `ended`. Packages are numbers, and `Rpc` is the
one whose rows `getActiveSubscription` does not count, so it may be bought beside
another, and its completed event is booked again when it comes again.

| action | code |
|---|---|
| `OpenCheckout` | `createStripeSubscriptionPaymentSession`: no active subscription |
| `Pay`, `Renew`, `ChangePlan`, `Turn` | external: Stripe. A period begins, the package or the status changes, or something else (`Turn` to the same status) |
| `Begin`, `Credit`, `Book` | `handleSubscriptionPurchase`, `createSubscription`, the invoice; the credits are a transaction of their own |
| `Read`, `Save` | `updateSubscription`, package changes included |
| `Abort` | an exception or the end of the lambda in any handler |
| `Look`, `Warn`, `Release` | `ExpiredSubscriptionsWorker`, one row |
| `Tick` | a day |

## 3. Runs

| run | instance | checks | states |
|---|---|---|---|
| `credit_ledger` | 3 invocations, 2 references (prices 1 and 2) called twice each, 2 top-ups of 1 or 3, faults | `BalanceIsLedger`, `OncePerReference`, `ImplementsLedger` | 522 thousand |
| `credit_live` | 2 invocations, 2 references, a threshold, no faults, `FairSpec` | `EachFailureRefunded`, `DriftOnlyByStaleConfigure`, `InvocationsEnd` | 144 thousand |
| `job_lock` | 2 instances, timeout 2, limit 1, the job has run before, `FairSpec` | `LockReleasable`, `ExclusiveUnlessRaced`, `Recovery` | all reachable |
| `txqueue` | 2 creators, a transmitter, a verifier, the check, 2 transactions, 2 drops, refusals, lost answers, faults, `FairSpec` | `NonceOrder`, `NoSkip`, `ParsedSound`, `Delivered` | 301 thousand |
| `contracts` | 2 transactions (a deployment, a call or transfer), 2 senders with batches of one, a worker, faults, `FairSpec` | `TypeOK`, `OutboxExclusive`, `RefundSound`, `StatusBacked`, `ImplementsDelivery`, `OutcomesHandled` | 80 thousand |
| `nft` | a deployment request, 2 deploying transactions, one other call, a worker, 2 faults, `FairSpec` | `TypeOK`, `StatusBacked`, `SingleDeployment`, `BaseUriKnown`, `OutcomesHandled`, `DeploymentMoves` | 196 thousand |
| `upload` | a session of two files with the same content, 2 calls that end it, batches of one, one fault; bounds as a sum, `FairSpec` | `TypeOK`, `CompletedPinned`, `SizeAccounted`, `SessionsFinish`, `PinsSettle` | 401 thousand |
| `subs` | 2 packages and the RPC plan, warnings at ages 1 and 2; bounds as a sum, `FairSpec` | `TypeOK`, `CreditsOnce`, `OneRowPerPurchase`, `UpToDate`, `EarlyOnlyIfExtended`, `PaidBooked` | 529 thousand |
| `hosting` | 2 paths, 2 sessions; bounds as a sum, `FairSpec` | `BucketsConsistent`, `ReviewedFirst`, `OutcomeSound`, `DeploymentsSettle` | 253 thousand |

The runs that show a violation (`credit_lost_update`, `lock_stale_write`,
`nft_deploy_refund`) are in section 5.

**Bounds as a sum.** A behaviour of `FileUpload`, `Subscriptions` or `Hosting` picks
one element of `Limits` at its start and keeps to it. So one run has several instances, each
large in one respect: for `FileUpload` one worker with a file that is deleted and
restored, two workers, one worker and a session of more than 1000 files; for
`Subscriptions` two subscriptions with concurrent and
failing webhooks, one subscription changed twice with events out of order, one
subscription long enough for every warning, a renewal and the release, two
subscriptions of which one may be the RPC plan, with an event that comes again; for
`Hosting` two deployments with two workers after one that was staged, one
deployment that fails once with two workers or twice with one, and two reviewers.

**Why the bounds suffice.** Races on the credit row need two writers, and a third
to be the one that is overwritten or that reports the failure again; with
prices 1 and 2 against top-ups of 1 and 3 a payment is affordable, just
affordable, and too dear. The stale write in `JobLock` takes three instances (one
that has released, one that has claimed, one that is let in), which
`lock_stale_write` has. In `TxQueue` two transactions are enough for one to be
passed over by the other, for nonces 0 and 1 (0 is the value the repair loop
cannot tell from failure), and for the last processed nonce to be before, at and
after a forgotten one; two drops let the same transaction be forgotten again;
more transmitters than one are left to the theorems, which hold for any number.
In `Contracts` two senders and batches of one make every interleaving of two
senders and a queue that fails in between; a deployment and one other transaction
are all the kinds that set the status. In `NftCollection` two deploying
transactions are what `SingleDeployment` can tell apart. In `FileUpload` two
files of the same content are two batches, and race for one request to pin.
`MaxTopUps`, `CallsPerRef`, `MaxTxs`, `EmptyBlocks`, `MaxDrops`, `MaxFaults`,
`MaxRuns`, `MaxRetries` and `Limits` are bounds of the models (`MaxRuns` and
`MaxRetries` stand for 5 and 3 in the code).

`credit_ledger` has no thresholds because with them `BalanceIsLedger` is false
(section 5); `credit_live` has one, and shows that nothing but that handler
causes it. `CHECK_DEADLOCK FALSE` stands where the system comes to rest: all
calls made and all messages worked through, or, in `lock_stale_write`, time
standing still. The other runs have no deadlock.

**Types.** The type invariants of `CreditLedger`, `JobLock`, `TxQueue` and
`Hosting` are proved instead of run (section 4).

**Fairness.** In each case: a lambda that can go on goes on, a queue delivers a
message until it was worked through, the scheduler starts a job again. What is
not fair: calls of clients, reviewers, top-ups, and every fault.

- `CreditLedger`: strong fairness of each invocation's next step; InnoDB queues
  the requests for a row lock, so an invocation that waits gets it.
- `JobLock`: the scheduler starts every pending job again (`getPendingJobs`), an
  instance that runs goes on, time passes.
- `TxQueue`: weak fairness of every lambda (the seeds of table `job` start them
  every few minutes), of the chain and of the indexer; strong fairness of a send
  that is tried again and again, which says that the node does not refuse for
  ever; and `<>[][Regular]_vars`: lambdas do not die for ever.
- `Contracts`: weak fairness of each sender, strong fairness of the sending
  of an outcome (SQS does not refuse it for ever) and of each step of the worker
  on an outcome (it does not die on the same outcome for ever).
- `NftCollection`, `FileUpload`: weak fairness of `Progress`, the steps of calls
  and runs that have begun, as one; as faults are bounded and no such step can be
  repeated for ever, every one that stays possible is taken.
- `Hosting`: weak fairness of each call and run, strong fairness of the delivery
  of each deployment's message, which another one may delay.
- `Subscriptions`: weak fairness of the webhook's slots: Stripe sends an event
  until it is acknowledged. (It gives up after some days, which is more than the
  runs have.)

## 4. Proofs

All theorems are of the form `Spec => ...` for arbitrary constants that satisfy
the assumptions in the modules.

**CreditLedger.** `InvariantHolds` proves the inductive invariant: types, the
lock protocol (an invocation at a commit is the holder of the lock, and the row
it read is the row in the table), non-negative sums, and what each reference in
use has booked. `NoStaleWrite` is the part everything rests on: it makes the
arithmetic of a commit, which uses the row in memory, arithmetic on the committed
row. From it follow `TypeCorrect`, `NoStaleWrites`, `PaidOnce` (a reference is
paid at most once and refunded at most once, whatever fails or dies) and
`DriftOnlyByConfigure` without further assumption; with `Thresholds = {}` (no call
of configureCredit) `BalanceMatches`, `NeverOverspent` and `Refinement`: each step
of the handlers is a step of `Ledger` or a stutter; and with `Faults = FALSE`
`FailuresRefunded`. The first assumption is needed: `credit_lost_update` refutes
the three without it.

**JobLock.** `TypeCorrect`; `Releasable`, where the invariant has to speak of the
copies of the row that instances hold as well, since they are written back;
`ExclusionHolds`, whose invariant ties each copy that was read inside the lock
to the row as long as no write was lost and no live lock was taken over.

**TxQueue.** All three invariants of the run, for any number of lambdas of each
kind and any bounds. `TypeCorrect`; `NonceOrderHolds`, with the fact that a
creator that holds the wallet's row knows its `nextNonce` (`LockInv`).
`NothingSkipped` needs the invariant `SkipInv`, which says what each lambda knows
while it works from an old read: all up to the `base` of a transmitter, up to the
position in its list, and up to the nonce it learnt, was given to the node
(`TransmitInv`); its list is without a gap and a row it saw as final has a nonce
below the chain's (`ListInv`); what a checker is about to reset to was given
(`CheckInv`). As what was given only grows, a stale write puts back a lower value
but never a wrong one. The pending count a repair relies on is bounded by
`PendingCountSound`. `OutcomesSound` rests on `ParsedInv`: the indexer is not ahead
of the chain, so no transaction joins a block it has, and all up to the block a
verifier began at is booked when it commits, though others committed in between.

**Contracts and Webhooks.** `InvHolds` is the inductive invariant of the
composition, for any number of transactions, senders and workers and any size of a
batch. To the types and the run's invariants it adds what the steps need:
`SenderInv` (an idle sender holds nothing, and the rows a sender holds are final),
`QueueInv` (what is in the queue was delivered, what was delivered is final and,
where the errors of sending are looked at, what is noted or about to be noted was
delivered), `CallInv` (how far a call of the API is says what there can be of its
transaction: none on the chain before `Create`, no row and no refund before
`SaveTx`) and `WorkInv` (a refund is under way only for what failed). From it
follow `TypeCorrect`, `SendersExclusive`, `RefundsSound` and `StatusHolds`; all hold
with faults: lost answers, messages that come again, lambdas that die at any step.
`Steady` carries the argument of the last two: an outcome never changes, so what was
concluded from it stays right in whatever order steps come.
`OutboxImplementsDelivery` is the safety half of the refinement: each step of the
outbox is a `Deliver`, a `Note` or a stutter, and what changes the chain is a
`Settle`. It assumes `Checked = TRUE`, the EVM worker: with FALSE (Substrate) a
failed batch is noted although it was not sent, and the refinement does not hold.

**NftCollection.** All invariants of its run, for any number of requests for a
deployment, calls, transactions and workers. `CollectionAssumption` says that calls
are no deployments, that the references of payments differ and that there is a
transaction to deploy with. `BaseUriHolds` rests on `CidInv`, which says of a
preparation whose messages were not run again after a run of them had saved its
step: at most one message is still unused, a run that has saved step three has the
CID, and at the last step every unused message carries it. A run that died before it
saved may be repeated as often as it likes. `StatusHolds` rests on `SeenInv`: not
only the row of the table is backed by the chain but every copy of it that a
request, a deployer, a call or a worker remembers (`Evidence`). As outcomes are
final (`Growth`), a copy stays backed, so an update from a stale copy can lose
something but never claim too much. `PaidInv` is its other half: who pays has seen
an address. `OneDeployment` rests on `FreshInv` (nothing happens before the
collection is created), `LabelInv` (what the row said that a lambda has read) and
`SingleInv`: as long as no update was lost, who is about to store a deployment is
alone and the status tells of it.

**Hosting.** The three safety invariants of its run, for any number of deployments,
workers, reviewers, files, sessions, retries and faults. The argument is about one
directory on IPFS per deployment. `FreshInv`: there is none before the message is
sent. `TakenInv`: while a deployment may come back to it, each file in the directory
is that of the upload bucket (`Part`: an upload may have stopped half way), and once
an upload was completed the bucket is empty or just what the directory holds
(`Whole`), or the ghost `disturbed` says that somebody changed the bucket. So a
retry writes over files that are the same (`DirectoryIs`), a whole directory stays as
it is (`Kept`), and what a reviewer was shown is what is deployed after the approval
(`ReviewInv`, `CidInv`). `ReadInv` says the same of what a run has read of its source, up
to the commit, which gives `BucketsHold`. `ReviewHolds` follows from `CidInv`: a run
that is ready to commit has a content that was approved or waived when it was
uploaded, or that a published row had (`Known`), of which the same was true.
`OutcomeHolds` rests on `EndInv`: a row that a
failed commit left as SUCCESSFUL has a message or a run that is still to write it
again, and the ghost `late` has every deployment with two runs at a time or a run
after its end. The exceptions `disturbed` and `late` are needed: section 5.

**FileUpload and CrustPins.** The three invariants of the run, for any number of
files, sessions, calls, runs, orders and faults. `FileUploadAssumption` says that
the files are finitely many, since their number is counted, and that there is a
session. `TypeCorrect` carries that a run only ever has files of the session of its
message in hand, and what it has still to ask for is among what it has done.
`PinnedHolds` is then inductive: a file is completed together with its entry in
`unasked`, and leaves that set only with a request or with the run. `SizeHolds` is
about two counts of files, so the proof follows each step in what it adds to `Sized`
(completed and not yet counted out) and to `Removed`. What makes it inductive is
`OneByOne`: as long as no session was worked on twice at a time (`again`), the runs
have sessions of their own (`Apart`), a session that is being ended has neither
message nor run nor completed file (`Early`), what a run has in hand is not
completed (`Fresh`) and what it has done is completed and not among what a dead run
left uncounted (`Counted`). Without `Early` two calls could both send the first
message, without `Fresh` a file would be counted twice.

**Subscriptions.** All five invariants of the run, for any subscriptions, packages,
overlapping invocations, warning levels and bounds. The assumption is the one TLC
evaluates: numbers are numbers, and there are warning levels, finitely many, so that
there is a last one. Three parts of the invariant hold whatever happens. `Keys`: ids
are given out once, also to open transactions and in the credits of those that were
rolled back, and a row that was read is still there. `Sold`: an event that nothing
came after says what Stripe says (`Fits`), the last change of a subscription was
applied or is under way (`Sent`, which is the theorem `NothingLost`), and what an
invocation is to insert is what was paid for (`Purchase`). The rest, `Calm`, holds
until two webhooks write at the same time (`raced`). `Undisturbed`: what an
invocation has read is what the table says, but for the level, so whoever writes
without a race writes to the latest row, and the package it took for new is new.
With it `Referred` gives `CreditsHold` (a referred credit is for its row's package,
and one at most), `Counted` gives `RowsHold` (a change of the package retires one
row for the one it adds) and `Current` (the latest row agrees with the last change,
if that was applied: its package, and its period or, if it ended the subscription,
an expiry that is past) gives `UpToDateHolds`. `EarlyHolds` needs two more: `Lower`,
since a warning sets the level of all rows of a subscription but a webhook writes
back the level it read: a later row, what a webhook has read of it and what the
worker has in hand never stand in a higher level than an earlier one; and `Overdue`:
whoever says that the last warning was sent, row or copy, stands for an expiry that
was warned of in its time. Without `Lower` a first warning for a new expiry could
leave a copy behind that says the last one was sent. The exception `raced` is in the
code (section 5): once two webhooks wrote at the same time each part of `Calm` can
fail, as TLC shows.

**Only model-checked** are the liveness properties (liveness under fairness is out of
the prover's reach): `InvocationsEnd`, `Recovery`, `Delivered`, `OutcomesHandled`,
`DeploymentMoves`, `SessionsFinish`, `PinsSettle`, `PaidBooked` and
`DeploymentsSettle`. Every safety property that a passing run checks is proved; each
inductive invariant was an invariant of a run of TLC before.

**Induction.** No installed prover can instantiate a theorem with an operator as
parameter, so the induction rules of the library are out of reach. That a set of
numbers that is finite has a largest member (`LargestFinite`, for the last level, the
latest row, the first due warning) is proved from the well-foundedness of the strict
subset relation on finite sets, which takes a set: a least set without a largest
member loses an element and is no least one. Cardinalities of sets that a step maps
to one another are compared by surjections and injections (`FiniteRows`,
`CountedLevel`).

## 5. What the models say about the code

Three runs check one property each that a comment of the repository states, and
TLC refutes it.

| run | what happens | statement |
|---|---|---|
| `credit_lost_update` | configureCredit reads the row, a payment commits, configureCredit writes the old balance back | credit.model.ts:126 "Use this population method, when credit balance will be changed" |
| `lock_stale_write` | an instance that has finished writes the ACTIVE row it read over the claim of the next, and a third is let in | base-single-thread-worker.ts:17 "All parallel instances will fail to run" |
| `nft_deploy_refund` | a deployment that failed on the chain is refunded under the collection's id, but was paid under its uuid: nothing is found, nothing is refunded | nfts transaction-status-worker.ts:74 "For ContractDeploy, reference for credit is collection" |

What else was met on the way. These are limits that the properties spell out as
exceptions, or behaviour no comment of the repository denies:

- *Credits.* A payment under a reference that was used before is refused by the
  unique key, also where the code means a new payment (hosting.service.ts:249: a
  second domain change of a website on the same day).
- *Job lock.* The lock is committed before lastRun is, so for a moment its age is
  the age of the run before; `ExclusiveUnlessRaced` counts that as `overrun`. An
  instance that dies in the very first run of a job, before lastRun is written
  (base-single-thread-worker.ts:164), leaves a lock without an age that nothing
  takes over, so `Recovery` is checked for a job that has run before. A job that
  is DEACTIVATED but started through the queue comes out ACTIVE.
- *Contracts, nfts.* A lambda that dies after the blockchain service has committed
  the transaction leaves a transaction nobody knows (`Unstored`); an outcome that
  comes before the row is dropped (`missed`). `checkTransferConditions` is a check
  before the act, so two transfers may pass it. The outcome of a deployment that
  is delivered twice can set a TRANSFERED collection back to DEPLOYED. A failed
  deployment on chain leaves the collection DEPLOYING. A FAILED or TRANSFERED
  collection may be deployed again without a payment. Nor does anything move a
  collection on from DEPLOYING when the deploy worker dies right after it has
  marked it, or when writing FAILED fails.
- *Metadata of a collection.* The CID travels in the message only, the step in the
  row. A message of an earlier step that comes once more while the row is at
  PUBLISH_TO_IPNS deploys a collection with the base URI `ipfs://undefined/`
  (prepare-metada-for-collection-worker.ts:383-456), although line 408 says
  "Metadata is prepared. Run nft deploy with cid or ipns as base URI";
  `BaseUriKnown` names the case (`again`). A run that dies after it marked the
  metadata files completed and before it saved the step is repeated with no file to
  upload, and `event.fileUploadRequests[0].bucket_id` (ipfs.service.ts:233) throws
  at every repetition: the collection stays DEPLOY_INITIATED (`Stuck` in
  `DeploymentMoves`).
- *Uploads.* A run that dies after it marked a file COMPLETED and before it asked
  for the pin or counted the size leaves both undone for good (`dropped`,
  `uncounted`). A session that is ended twice is worked on twice (`again`).
- *Hosting.* A session that ends while a deployment works changes the bucket the
  deployment, or its retry after a review, reads (`disturbed`). The count of retries
  is part of the row that is read and written whole: two messages of one deployment
  can keep each other from reaching the limit for ever (`late`). A failed commit
  leaves SUCCESSFUL in memory, which is written with the retry. A rejected
  deployment is not refunded. When the answer of the credit account is lost, the
  deployment is deleted and the payment stays. Files are written to the directory of
  the deployment and never removed from it: if an upload stops half way and the
  client then changes the bucket, the next attempt publishes a CID that also holds
  files its rows do not list (`disturbed`). Content that was published without a
  review, under a subscription or by another website, is known from then on and
  never reviewed, also after the subscription has ended (`waived` keeps it).
- *Subscriptions.* Updates are applied in the order they arrive (`stale`). The
  update that ends a subscription moves its expiry to the moment it is handled; a
  later one, from past_due to unpaid or a change of the package meanwhile, writes
  the end of the period again and so revives the row, although the comment at
  payments.service.ts:177 reads "If status is no longer active, set subscription as
  expired": what is asked is whether it was active before this change. `UpToDate`
  says what the code does. The level of warnings is kept per subscription and not
  reset, which may release files early (`EarlyOnlyIfExtended` names the cases). A
  completed event of the RPC plan that comes again books a second row, as rows of
  that plan do not count as active; `OneRowPerPurchase` counts the bookings. Two
  completed events handled at once each find no active subscription: there are two
  rows, and the credits of a package may be given twice (`raced`).

What holds in spite of that is as informative: `TxQueue` needs no exclusion. With
two transmitters, stale reads and lost answers no transaction is passed over and
none is booked wrongly, because the node refuses repeats and because
`lastProcessedNonce` is only ever set to a nonce the node has seen. And the outbox
of outcomes loses nothing, though senders die between the message and its note.

## 6. Not modelled

`PROJECT.json` lists every component with its status and reason.

- *Substrate transactions*: a second queue over the same tables, with the same
  nonces and other answers of the node; `TxQueue` is the model of the design.
- *Accounting, contract events, balances of wallets*: written after the fact from
  what the chain says; nothing else reads them.
- *Computing, social*: pipelines of payment, transaction and outcome with the same
  steps as `Contracts`, over their own rows.
- *Authentication, access, infrastructure, deploy, referral, simplets, mailing,
  monitoring, the HTTP APIs*: CRUD on single rows, calls of providers in sequence,
  input and output. Their payments are those of `CreditLedger`.
- *The connection pool*: it belongs to one lambda and ends with it. That
  EvmTransactionWorker commits on the raw connection, which does not release it,
  bounds the wallets of a run by ten; that is arithmetic and no interleaving.
- *Parts of modelled components*: IPNS records and their republishing, domains,
  directories, bandwidth and IPFS monitoring, quotas and products (look-ups),
  purchases of credits (`AddCall` of `CreditLedger`), Solana and Substrate
  collections, archiving (hides a row from lists), `onAutoRemove` of workers,
  time of day in the query of expired subscriptions, and the worker that makes RPC
  rows inactive on the day they expire.
- *Data*: amounts of gas, sizes in bytes, names, contents of messages and mails;
  a file counts one, a price is a small number.
