# A verification project for the wPAW backend

The wPAW backend moves money between three ledgers: the PAW node (a block
lattice, where the backend owns a *hot wallet*), its own books in Redis (a
*balance* for every PAW wallet that deposited into the hot wallet), and the wPAW
token on an EVM blockchain. This directory holds TLA+ modules that model how it
does so, TLC configurations that check them on small instances, and TLAPS proofs, for every
instance, of every safety property those runs check.

Paths below are relative to the repository: `Service.ts:213` is line 213 of
`src/services/Service.ts`.

    tlc -config storage_ledger.cfg MCDepositsStorage      # a run: see "Runs"
    tlapm DepositsStorage_proofs.tla                      # the proofs
    tlapm Withdrawals_proofs.tla    # likewise Claims_, Deposits_, Swaps_,
                                    # BlockScan_, EventStreams_, Sums_proofs

## 1. The system

| component | state it keeps | operations |
|---|---|---|
| Deposits storage (`storage/RedisUsersDepositsStorage.ts`) | in Redis: balances, audit entries (sorted sets and a hash per entry), claims, pending claims with a TTL, the last block scanned; locks with leases (redlock) | read a balance; store a deposit, a withdrawal, a swap to wPAW, a swap to PAW; ask what was stored; claims; last block |
| Users deposits service (`services/UsersDepositsService.ts`) | none | asks the storage before it stores; decides which stores are awaited |
| Operations queue (`services/queuing/RedisProcessingQueue.ts`, `ProcessingQueueWorker.ts`) | jobs in Redis (BullMQ): three attempts, backoff, delays, identifiers | add a deposit, withdrawal, pending withdrawal, swap; one worker that runs a processor by the job's name |
| Withdrawals (`Service.withdrawPAW`, `processWithdrawPAW`, `withdrawalProcessor`) | what the worker is doing | check signature, timestamp, claim and balance; pay from the hot wallet or postpone; debit |
| Claims (`Service.claim`, `UsersDepositsService`, storage) | the claim keys | ask for a claim; confirm it with a deposit; expiry |
| Wallet blacklist (`KirbyPawWalletsBlacklist.ts`) | a downloaded list | is a wallet on it? |
| Deposits (`Paw.ts`) | web socket; PAW accounts at the node | notification; check of pending payments every minute; process a deposit (confirm a claim, receive, credit or refund, feed the cold wallet) |
| Swaps (`Service.swapToWPAW`, `swapToPAW` and their processors, `Blockchain.createMintReceipt`) | what the worker is doing | sign a receipt and debit; credit an event |
| Blockchain scan (`Blockchain.ts`, `RedisBlockchainScanQueue.ts`) | jobs in Redis, the last block | repeated job, scan of a range in slices, live subscription, hand-over of events |
| HTTP interface (`app.ts`) | none | the routes |
| Server-sent events (`services/sse/`, `JobListener.ts`) | open connections by wallet | tell a client its job's result |
| Prices, gas price, tokens (`prices/`, `BlockchainGasPriceTracker.ts`, `TokensList.ts`) | none | forward a question |
| Configuration, models, errors | none | |

How they interact. An HTTP request, a notification or an event of the blockchain
becomes a job; the queue's *one* worker runs the jobs one at a time; a job calls
the node, the blockchain and the storage. The storage is shared by the worker, by
HTTP requests (which only read balances, but take the balance's lock to do so),
and by **detached stores**: `storeUserDeposit`, `storeUserWithdrawal` and
`storeUserSwapToPaw` are started and not awaited, so that a job is over, retried
or followed by the next one while its store still waits for a lock.

What is hard:

* *Interleaving.* A balance is read, added to and written in three steps under a
  lease of a second; several methods name the lock differently, and a swap to
  wPAW gives it back before it writes.
* *Partial failure.* A payment at the node and its entry in the books are two
  steps. Either may fail, and the job's retry has only the books to go by.
* *Retries.* A job runs up to three times after errors, and once more when it is
  stalled; a postponed withdrawal is replaced by another job.
* *Delivery.* The web socket loses notifications and repeats what a check also
  finds; the live subscription and the scan report the same events.
* *Ordering.* The last block is read and set by calls nobody waits for.
* *Connections.* Clients leave, come back and open a second stream; the server hears
  of each close late, and keeps one stream per wallet.
* *Expiry.* Leases and pending claims end under whoever relies on them.

`PROJECT.json` lists these hazards at their lines, with the properties aimed at
each.

## 2. Modules

    LedgerOps <- Ledger                       what a posted operation is worth
        ^          ^ (refines)
        +---- DepositsStorage                 balances, locks, detached calls
                 ^     ^     ^
      Withdrawals  Deposits  Swaps            each with  INSTANCE JobQueue
           ^         |
           |    Claims, ColdWallet
    PendingWithdrawals
    BlockScan, EventStreams                   each with  INSTANCE JobQueue

Withdrawals, Deposits and Swaps extend `Sums` (`SumOver`, the sum of a function over a
finite set). The theorems about a module `M` and their proofs are in `M_proofs`, which
extends it; those of the three also extend the proofs of the storage, those of
Deposits the proofs of Claims.

**LedgerOps, Ledger.** An operation is a record of kind, wallet, spelling,
amount, hash and stamp; `Delta` and `Entry` say what it does to a balance and
what is filed. `Ledger` is the abstract promise: one indivisible step moves the
balance of one wallet by exactly the operation's amount and files its entry, and
a swap to PAW is posted once.

**DepositsStorage.** `balance`, `known`, `entries`, `lock` and `swapLock` are the
Redis keys; `pc`, `op`, `read` are the calls in progress. One action per step
between two awaits: the lock (`TryLock` in the invocation, `Acquire` in a retry,
`LockError` when redlock gives up), `Recheck`, `Get`, `Exec` (the `MULTI` that
sets the balance and files the entry), `Unlock`. A swap to wPAW has an outer lock
(`TrySwapLock`, `UnlockSwap`), reads through the same code as
`getUserAvailableBalance`, gives the balance's lock back in `PassUnlock` and only
then reaches `Exec`. `RedisError` fails any command, an attempt at a lock included (`AttemptFails`); what
is then released and what stays to its TTL (`Orphan`) follows each method's `try`,
`catch` and `finally`. Leases end (`Expire`), under their holder too if
`"leaseExpiry"` is among the faults. All commands of a process go down one connection in order.

**JobQueue.** The record of a job: its state, its failed attempts, how often it
was stalled. An add of an identifier whose record exists does nothing. The order
of waiting jobs and the length of delays are left open, so that every order is
covered.

**Withdrawals, Deposits, Swaps.** Each composes the storage with the queue and
the outside party. The worker is a program counter `worker.at` with one action
per stretch between awaits; its storage call is `WorkerCall`, its detached stores
take a free slot of `StoreCalls`, and HTTP reads one of `ReaderCalls`. `Restart`
is a crash: the calls and the worker are gone, Redis stays, and an active job
becomes stalled. The node's side (`payments`, `sent`, `received`, `burnt`) is
external, modelled from how the code uses it. With `"redisError"` among the faults
(`RedisFails`) the worker's own awaited questions and adds reject, too, and fail the
job, or what they asked for is done and its answer lost; the questions asked of the
node may be refused like its payments.

**PendingWithdrawals.** `GET /withdrawals/pending` beside the withdrawals: the waiting
jobs are read (`AskWaiting`), the program goes on (`Meanwhile`), then the delayed ones
are read and both are added up (`Answer`). What the query has seen is its state; the
jobs promoted since are history, for the properties.

**ColdWallet.** Pure arithmetic: what of a deposit goes on to the cold wallet
(`ColdShare`), and when the percentage kept cannot be computed with (`RatioThrows`).
`Deposits` adds what the hot wallet holds: `HotBalance` at the node, `HotTotal` with
the payments not received yet, which is what the code goes by. `FeedColdWallet`
sends the share, and a retry of the job sends it again.

**Claims.** A request is suspended at each of its questions, any of which may fail and
leave it unanswered (`QuestionFails`); an error of Redis in the last step is caught and
answered, with the pending claim stored or not. The request spells its wallet:
the blacklist is asked with the spelling (`KirbyPawWalletsBlacklist.ts:32`), and the
keys are named after its lower case (`LowerCase`). Pending claims
expire at any moment. Deposits confirm them: any pair that was ever stored, for
the list of pending claims is read before the claim is set, and the pending key may
have ended between the two (`ConfirmClaim`). A crash loses the requests
(`LoseRequests`).

**BlockScan.** The repeated job and the scans share one worker. `saves` is the
queue of detached read-then-set calls of `setLastBlockchainBlockProcessed`,
answered in order; `handed` are the events given to the listener and not yet in
the operations queue, `lost` those whose add failed. A *malformed* event, one that lacks
an address or the amount, makes its slice throw (`SliceThrows`): the slice's other
events are handed over, and nothing is saved. A `Fault` is counted
(`MaxFaults`), and none happens from the height `Calm` on.

**EventStreams.** `clients` is the manager's map. A stream is open, *gone* (the
client left and the server was not told) or closed; `Close` deletes what is filed
under the wallet, whichever stream that is. `Finish` records a job as completed and
`JobCompleted` then calls the listener; a crash between them loses the result.
`heard` and the `met` of a stream are history, for the properties.

**MC\*.** Instances: constants as model values, and for Deposits the restriction
`MCAskOnce`, for Swaps `MCReadOnce` and `MCInOrder` (section 4).

A definition whose comment begins with "Mutant of" is a plausible bug of the
definition after it. It is used in no specification; put in the definition's
place, it must make the property listed with it in `PROJECT.json` fail.

## 3. Runs

`CHECK_DEADLOCK FALSE` stands in every configuration: an instance has finitely
many requests, and rightly stops when they are done.

| run | shows |
|---|---|
| `storage_ledger` | three overlapping calls of all kinds on two wallets, with lock timeouts, Redis errors and a crash: the storage's inductive invariant, and that it implements `Ledger`, for wallets whose writers agree on a lock |
| `storage_faults` | every kind on both wallets, other spellings and every fault, leases ending early too: no call is over with a lock in its name (`LocksInUse`); every call settles; every lock comes back, though no lease need end under its holder |
| `withdrawals_safe` | requests of 1 and of 3 from a balance of 3 and one of 2 in the same millisecond as the first, an empty hot wallet that is topped up, up to two postponements: no overdraft, one payment per wallet and millisecond, each that is queued ends, each payment is recorded, the amount of pending withdrawals, read in two steps, covers each that is put off unless its job is promoted between them |
| `withdrawals_books` | one request with an HTTP read, every fault, refused payments and questions, and lost answers: nothing is debited that was not paid, the balance is the opening one less what is filed |
| `withdrawals_unclaimed` | **violated**: an unclaimed wallet's withdrawal is paid (section 6) |
| `claims` | two requests at once, three owners, two wallets, one of them with two spellings of which one is on the blacklist, the other on it with its only one; failing questions and stores, lost replies: every claim was stored by a request that was let through; pending claims are bounded by the requests that can race |
| `deposits_safe` | a whole payment, one with a fraction, one of the hot wallet's own and one of nine digits of RAW, reported by web socket, checks, or both, with a claim racing them: one outcome each, credited once, all settle, what is only to be received is received |
| `deposits_faults` | one payment with HTTP reads and every fault: only a whole deposit of a claimed wallet is credited; a claim needs an accepted request and a deposit; feeding the cold wallet, repeated by retries, leaves the hot wallet's minimum |
| `deposits_twice` | **violated**: with no fault and the default ratio, a deposit is credited twice (section 6) |
| `swaps_safe` | a swap to wPAW of 2 from a balance of 3 that retries sign again, a transaction with two burns into another wallet reported again and again, an HTTP read, refused node calls and crashes: receipts in reach stay covered, those in the user's hands are debited, the books balance, every entry has an event or a receipt behind it, and one of the burns is credited unless a crash cuts its store off or its job fails for good |
| `scan` | slices of two, jobs of three, a chain growing from three to four blocks, an event in the third and a malformed one in the fourth, two faults of any kind and one that makes a job fail for good before the fourth: no block up to the recorded one was left out; completed jobs went through their whole range; no event is lost but by its own add, and every other is queued in the end unless it is behind the malformed one, whatever the subscription does |
| `events` | three streams of two wallets, that open, break and are closed in any order, a job added twice, retries and crashes: the manager keeps no dead stream; a client that is its wallet's only one stays registered, and hears of its job; a result is told once, to a stream of its wallet |

### Bounds

* *Storage.* A call slot serves one operation (`MCNext`), so three slots are three
  operations, overlapping in every way. Two writers and a reader are enough for a
  lost update, a swap overtaken by another, and a lock given away under its
  holder; two wallets tell a wallet's lock from another's. The proofs have no
  such bound. `storage_ledger` is symmetric in the calls; runs with liveness
  properties use no symmetry.
* *Withdrawals.* Two requests are what an overdraft takes, and `withdrawals_safe` has
  a third of the first one's millisecond, which shares its identifier. A job runs up to three
  times and a request is postponed up to `MaxPostpones` times, two, or one in
  `withdrawals_books` (the code has no
  limit; the model stops at the bound, which `RequestsEnd` names). Hashes bound the
  number of payments: one that is made takes a fresh hash, and an instance has
  more of them than requests.
* *Pending withdrawals.* The amount is asked for and answered, any number of times, while
  the hot wallet is still to be topped up (`MCQueryNext`), which is what it is asked for;
  `AnswerIsEnough` has no such bound.
* *Deposits.* One wallet, every kind of payment once; a PAW is 100 units, of 250 sent
  at most 200 are split, and 20 percent kept. In `deposits_safe` the minimum is
  reached and passed by what users send; in `deposits_faults` a hot wallet of 200 over
  a minimum of 100 lets a job feed the cold wallet more than once.
  `deposits_faults` takes states that differ only in how a detached store or an HTTP
  read *ended* as one (`MCView`): every action asks no more than whether such a call
  is over.
* *Swaps.* Two fresh receipts: one covers the balance of 3, two exceed it. The one HTTP
  read is of the wallet that pays for them, and begins between the check of its balance
  and the debit (`MCReadOnce`).
* *Scan.* Slices of two and jobs of three give a full slice, a short one, and a job
  cut off at its window; a chain that grows while a job runs gives ranges that
  overlap. Two faults meet in every order, and a third (`MaxFaults`) is the one that makes a job
  fail for good, at once or when it is found stalled (`MCLastFault`); that they end
  before the chain's last block (`Calm`) is what lets a scan named by a new range make
  up for one that failed for good. `MaxJobs` is as many as there are ranges. The
  proofs have no such bound.
* *Streams.* Three streams are a client, the one it comes back with, and one of
  another wallet, or three of one. One job, added twice, that runs up to three times:
  jobs only meet in the worker, which runs one at a time.

### Fairness

* Of leases, only those of locks that nobody will release end for certain
  (`StorageFairness`): one in use may end early, and need not, so that `LocksComeBack`
  says that the methods give their locks back.
* The event loop runs a continuation once its reply is in (weak fairness of
  `CallStep`, of the worker and of the storage's step), Redis ends a lease, and the
  queue's scheduler promotes delayed and puts back stalled jobs. None of this is in
  the power of another component to prevent.
* A lock that others take again and again is taken fairly: only finitely many calls
  are made, and redlock's retries end.
* The node's pending payments are listed every minute and each listed payment is
  come to (`DepositFairness`); an operator tops the hot wallet up
  (`RefillHotWallet`), without which a withdrawal rightly waits for ever.
* In the scan, the repeated job and each scan job are taken in the queue's order,
  first in first out. The model leaves that order open; what it gives, that neither
  is overtaken for ever, is the strong fairness of `ReadLatest` and `Start`.
* A query for the amount of pending withdrawals is answered (`MCFairQuerySpec`).
* The blockchain grows (`BlockArrives`), as long as the instance lets it.
* Notifications, the live subscription, users' requests and their streams have no
  fairness at all.

## 4. Assumptions

* *One process, one worker of each queue*, as `app.ts` starts them. Two processes
  would interleave jobs, which nothing in the code is written for.
* *`WritersAgree`* (for the refinement and the theorems about books, section 7): a wallet has either writers that swap
  to wPAW or writers that do not, callers spell it in lower case, and no lease ends
  under its holder. Section 5 says what happens otherwise.
* What the modules name as assumptions on their constants: the operations they ask the
  storage for are among its operations (`WithdrawalOpsAssumption`,
  `SwapOpsAssumption`, `DepositOpsAssumption`); the worker's call is none of the detached
  or HTTP calls; finitely many claim requests are under way (`ClaimsAssumption`), and a
  transaction holds finitely many burns (`TwinsAssumption`).
* *`SwapHashAssumption`*: swaps to PAW of one transaction hash credit one wallet.
  A job's identifier names the blockchain wallet and the transaction; so does the
  hash of a burn in the models.
* *`MCAskOnce`*: a claim is asked for once, with a good signature. A pending claim
  lives five minutes and a job's backoffs are seconds: without the restriction the
  model has a user renew a claim under each of the three attempts of a job and let
  it expire before the next, and the job fails for good.
* *`MCReadOnce`, `MCInOrder`* (bounds of `swaps_safe`): one HTTP read of a balance, at
  any time; the two events of a transaction are first reported in their order.
* Signatures of withdrawals and swaps are good; amounts are natural numbers in the
  smallest unit, and whether a deposit has more than two decimals is in its record.
* Blocks of the EVM chain are not reorganised.

## 5. Where the properties stop

Each property holds under the conditions its run has. The conditions are real
limits of the code, and the model shows each of them when the constant named here
is changed in the configuration (for a wallet that swaps both ways, the wallet of
`MCBurns`):

* *Overdraft.* `NoOverdraft` with `ReaderCalls = {reader1}` and `reader1` in
  `Calls`: the detached debit of a withdrawal waits for the lock an HTTP read
  holds, the next withdrawal reads the balance before it (`Service.ts:229`), and
  both are paid.
* *Paid twice.* `PaidAtMostOnce` with `Faults = {"crash"}`: the only record of a
  payment is the entry stored after it (`Service.ts:414`). A lost answer of the
  node does the same.
* *Same millisecond.* `RedisProcessingQueue.ts:97` names a withdrawal after its wallet
  and millisecond: the second of two is answered 201 and never queued. `RequestsEnd`
  speaks of requests that are in the queue.
* *A replaced pending withdrawal* is retried, not removed: `Service.ts:448` throws
  to have it "failed and removed", but it has two attempts left.
* *Books of a wallet that swaps both ways.* `Swaps!BooksBalance` with mints and
  burns of one wallet: the swap to wPAW writes what it read before it gave the
  lock back (`RedisUsersDepositsStorage.ts:303`), over a credit made meanwhile.
* *Undebited receipts.* `ReceiptsAreDebited` with `"lockTimeout"` or `"redisError"`: the
  store of a swap to wPAW catches and logs its errors and resolves
  (`RedisUsersDepositsStorage.ts:324`); the user gets the receipt.
* *A lock of a balance without a key.* Its read returns before the unlock
  (`RedisUsersDepositsStorage.ts:54`), with no fault: `LocksComeBack` holds because the
  TTL ends such a lock, and for every other because its holder gives it back.
* *Lost deposits and credits.* `DepositsSettle` with `"redisError"`, or with
  `"lockTimeout"` and an HTTP read: the store is detached
  (`UsersDepositsService.ts:75`), and the job completes whatever becomes of it.
* *Two owners of a wallet.* `Service.claim` asks whether the same blockchain wallet
  holds the claim and whether anyone's is pending, never whether another one holds
  it (`Service.ts:145`). Once the first pending claim has expired, another owner
  is accepted and the next deposit confirms it (`RedisUsersDepositsStorage.ts:138`).
* *Two refunds.* `OneOutcome` with `"lostReply"`, `"redisError"` or a crash: a refund leaves no
  record (`Paw.ts:286`).
* *Nine digits of RAW.* `Paw.ts:211` receives amounts shorter than nine digits;
  one of nine is made of RAW only, too, and cutting nine digits off leaves the
  empty string, of which `BigNumber.from` throws: the payment stays pending
  (`SkipNineDigits`). `DustIsReceived` leaves it out.
* *The cold wallet.* With the default ratio (`config.ts:41`), `Paw.ts:386` makes a
  `BigNumber` of 99.8, which throws: every credited deposit's job that has something
  above the minimum fails, which is how `deposits_twice` comes about. The share is
  computed from a total that counts payments that will be refunded: a refund after
  it may take the hot wallet below its minimum (`HotKeepsMinimum` adds refunds back).
* *Events of a crash.* A block is recorded as processed while its event is still on
  its way to the queue; `EventsAreHanded` and `EventsAreQueued` leave out the events
  whose own add fails or dies (`lost`), which only the live subscription brings back.
* *Burns of one transaction.* `BurnsAreCredited` says that one of them is credited:
  the second event has the job identifier and the audit entry of the first
  (`RedisProcessingQueue.ts:144`).
* *Credits of a crash.* `BurnsAreCredited` leaves out a crash with the detached store
  under way: the job is completed, and nothing makes up for it.
* *The sum of pending withdrawals.* A replaced job is retried beside its successor, and
  both are counted; and the two lists are read one after the other
  (`RedisProcessingQueue.ts:155`), so that a job that moves between them is missed
  or counted twice. `AnswerCoversOwed` says that nothing else is left out; with `Owed` for
  `Unmoved` in it, it fails. It and `OwedArePending` fail with `NodeFaults = {"refused"}`: a pending job is
  removed when its third attempt fails (`RedisProcessingQueue.ts:120`), and its request,
  completed as far as its first job knows, is then owed, and counted nowhere.
* *Failing adds.* An add of a pending withdrawal that rejects fails the job, with the
  attempt already counted up in memory (`RedisProcessingQueue.ts:110`):
  `withdrawals_books` has it, and no liveness property speaks of it.
* *Spellings on the blacklist.* `ClaimsWereAccepted` speaks of wallets all of whose
  spellings are on the list: a request passes with one that is not, and its claim is
  kept under the wallet's lower case.
* *Malformed events.* The scan never gets past the slice of an event without an address
  or an amount (`Blockchain.ts:204`): `EventsAreQueued` speaks of the events that are not
  behind one.
* *Requests for nothing.* `Service.ts:224` refuses negative amounts, not zero. The read of
  a wallet without a key leaves its lock to the lease, and the store of a withdrawal of
  nothing then waits for it beyond the end of its job. No property fails for it, but
  the invariant of section 7 speaks of stores that are over by then (`Undisturbed`).
* *Two streams of a wallet.* The second takes the place of the first, and the close of
  the first deletes the second (`app.ts:246`): a client that reconnects before its
  first connection is closed, or a second tab, hears of nothing from then on.
  `LoneStreamRegistered` and `LoneClientHears` are about streams that never met another
  of their wallet. A stream is filed under the wallet as the URL spells it and looked
  up as the job's result does.
* *Results of a crash.* A job that completed just before the process died is told to
  nobody, nor is one that fails.

## 6. Findings

* `withdrawals_unclaimed`: `Service.ts:212` verifies "is the claim was previously
  done", but 213 and 216 negate promises. A promise is truthy, so neither error is
  ever thrown. The swap to wPAW awaits the same question (288).
* `deposits_twice`: `UsersDepositsService.ts:62` checks that the transaction "wasn't
  already ingested", outside the lock and not again inside it. A job that fails
  after it started its detached store is retried, and, if the store still waits for
  the lock, starts a second one; both add the amount. With the default ratio of the
  cold wallet the job fails without any fault, right after it started the store.

## 7. Proofs

Every safety property of the passing runs is a theorem, for every value of the
constants that satisfies the modules' assumptions: any number of wallets, requests,
calls, hashes, blocks and clients. Where a theorem needs more, its hypothesis is a
named definition:

| hypothesis | says | needed because |
|---|---|---|
| `WritersAgree` | the writers of a wallet take the same lock, callers spell it as it is stored, no lease ends early | otherwise an update is lost (section 5, *Books*) |
| `Undisturbed` (Withdrawals) | no fault of Redis, no crash, no lost answer of the node, no HTTP read, amounts above zero | section 5, *Overdraft*, *Paid twice*, *Requests for nothing* |
| `Willing` (Withdrawals) | `Undisturbed`, and the node does not refuse | a pending job that fails three times is removed (section 5) |
| `StoresAnswered` (Swaps) | no Redis error, no lock timeout | section 5, *Undebited receipts* |
| `NothingFails` (Deposits) | no Redis error, lock timeout or crash, no deposit left unreceived, no lost answer, no failed transfer to the cold wallet, a ratio that is a percentage | a job that fails after it did something does it again (section 5, *Two refunds*; `deposits_twice`) |

The runs satisfy the hypotheses of the theorems about their properties, so no hypothesis
is empty.

**Storage** (`DepositsStorage_proofs`).

* `TypeCorrect`, `LocksAreInUse`: `StorageTypeOK` and `LocksInUse`, with no
  restriction on faults or operations. `LocksInUse` is not inductive: that a lock in
  a call's name is given back takes that it is *the* lock the call will release. The
  invariant `BaseInv` adds to the types which operations a call in each place can
  serve (`ServesOps`) and that a lock in a call's name is the one its operation
  names (`LocksMatch`).
* `StorageInvariant`, `StorageImplementsLedger`: with `WritersAgree`, `StorageInv`
  and the refinement of `Ledger`. `BaseInv` says who *may* hold a lock; exclusion
  is the converse, that whoever is inside owns it (`OwnsLock`, `OwnsSwapLock`), and
  from it that what a writer read is still the balance when it writes
  (`ReadIsCurrent`). A swap to wPAW is inside twice: while it reads, and, after
  `PassUnlock`, while only its outer lock protects what it read. That other writers
  of the wallet take the same outer lock is what `WritersAgree` gives. Every step
  but `Exec` leaves balances and entries alone; `Exec` is `Post`.

**Composition.** `WithdrawalsUseStorage`, `SwapsUseStorage`, `DepositsUseStorage`: each
of the three implements `StorageSpec`, for what a job, a request or a restart does to the
storage's variables is a step of the storage. So the storage's theorems hold in each, and
the proofs below use them: the balance a store read is the balance it writes to.
`DepositsUseClaims` says the same of `ClaimSpec`. The type invariants
(`WithdrawalTypeCorrect`, `SwapTypeCorrect`, `DepositTypeCorrect`) need that a job of the
worker is active and that one which has not failed has attempts and stalls left
(`JobsLive`).

**Withdrawals** (`Withdrawals_proofs`), a chain of invariants, each resting on the one
before it:

* `DebitsFollowPayments`, with no hypothesis: `PaidFirst` adds that from the node's
  answer to the store the worker holds the hash of a payment, and that a call that
  stores a withdrawal stores a payment (`Paying`).
* `WithdrawalBooksBalance`, with `WritersAgree`: that the balance is the opening one
  less a *sum* over the entries takes that a call adds an entry that was not there.
  `HashedInv` says so: the node numbers its payments, a hash is stored by one call,
  and that call writes once.
* `PaidOnce`, `NeverOverdrawn`, with `Undisturbed`: `SafeInv`. At any moment at most one
  payment is not in the books (`Filed`), the one the worker or its store is about; the
  store has its lock before the worker reports, and the worker's next read waits for it
  (`CallsQuiet`), so that a new job finds all payments filed. Then a request that passed
  the first question was not paid (`NewRequest`), and a balance that was compared is
  still there when the payment is asked for (`Covered`). `Money` is the account: balance
  and payments, less the one under way, are what the wallet began with.
* `PutOffIsPending`, with `Willing`: `OwedArePending`, on which the next rests and which
  no run checks by itself; from `PendingInv`. A request whose job was completed is
  over, the worker's, or in the queue under another attempt (`PutOff`). A replaced
  job fails three times beside its successor, so what is kept is that a job about to end
  without a payment leaves *another* in the queue (`Succeeded`); that a job which finds its
  request processed found *its* payment, not that of a request of the same millisecond,
  takes that a name is one submitted request's (`NamesTaken`).
* `AnswerIsEnough`, with `Willing`, about `PendingWithdrawals`, whose behaviours are those of
  Withdrawals with a query beside it (`QueryReads`). A pending job comes to wait from the
  delayed ones alone (`ComesToWait`), so that one which waits at the second read was seen by
  the first or promoted since (`Watched`). Owed requests that did not move then have a job
  each in one of the lists, and the sum over them is within the sum of both (`SumUnion`,
  `SumInjected`).

**Swaps** (`Swaps_proofs`).

* `SwapEntriesAreBacked`, with no hypothesis, so with Redis errors as well, which
  `swaps_safe` has not: only events are credited and only signed
  receipts debited (`CallsServe`).
* `ReceiptsDebited`, with `StoresAnswered`: a worker past the store of a receipt has it on
  file (`FollowedUp`), through stalls and crashes, for a receipt signed again is another
  one (`Distinct`, `NotFiled`).
* `SwapBooksBalance`, with `WritersAgree`; `ReceiptsAreCovered`, with both: between the
  worker's read and the debit nobody else takes from the balance (`Solvent`), and what is
  debited in all is covered by the opening balance and the credits.

**Claims** (`Claims_proofs`).

* `ClaimsAccepted`: what a request has passed says something of its spelling, what was
  stored came from such a request, and only what was stored is confirmed (`Accepted`).
* `PendingBounded`: a request past its last question is going to be one more pending
  claim, so what is kept is that pending claims and such requests together are no
  more than the requests there can be (`BoundInv`).

**Deposits** (`Deposits_proofs`).

* `OnlyClaimedCredited`, `ClaimsFollowDeposits`, `HotWalletKeepsMinimum`, with no
  hypothesis. A claim does not end, so a wallet the worker found claimed is claimed when
  the detached store writes (`CreditHeld`). `HotWalletKeepsMinimum` rests on
  `ShareKeepsMinimum`: `ColdShare` is between zero and the deposit, and what is above
  zero leaves the minimum, whatever the unit and the percentage; jobs that are retried
  send it again, and compute it anew.
* `OneOutcomeOnly`, with `NothingFails`: `OnceInv`. A deposit whose job has not got as far
  as its outcome has neither a refund nor anything in the books or on its way there, and
  of one that has it has one (`Once`); the job that is about it is the only active one
  (`Quiet`). A refund or a transfer that the hot wallet cannot pay for would fail the
  job, so the argument needs money, too: what left the hot wallet is covered by the
  deposits it left for (`Budget`), and the share of the next is there (`Affordable`).
* `DepositsCreditedOnce`, with `WritersAgree` also: a balance is the opening one and the
  sum of the deposits filed, for a store then writes a deposit that was not there.

**Blockchain scan** (`BlockScan_proofs`).

* `ScanTypeCorrect`, `ScanSkipsNothing`, `ScanSlicesRange`: with `ScanInv`.
  `NoBlockSkipped` speaks of the record alone; what it needs is that everything
  that may become the record is covered too: the saves under way, the value the
  repeated job has read, the range a job starts from, and the part of it that the
  worker has been through (`AllCovered`). `SliceFits` says that the slices left are
  exactly those the rest of the range needs, which is where the division of
  `Blockchain.ts:125` is used; `JobsLive` bounds the attempts of a job that runs.
* `ScanHandsEvents`: `EventsAreHanded`, by the same argument for events: those of every
  block that was queried are handed over, queued or lost (`EventsSeenStep`), and by
  `ScanSkipsNothing` every block up to the record was queried.

**Event streams** (`EventStreams_proofs`).

* `StreamTypeCorrect`, `ManagerLeaksNothing`, `LoneStreamStays`, `ResultToldOnce`: with
  `StreamInv`. That the close of a stream does not delete a lone one takes that two
  streams of a wallet that are alive together have both met (`Companions`). That a
  result is told once takes that a job that was told of is completed and not about to
  be told (`HeardAreDone`), so that neither an add nor a retry runs it again.

**Sums** (`Sums_proofs`). The library defines `MapThenSumSet` by a recursive function,
and its induction theorems take an operator as a parameter, which the provers here
cannot instantiate. A least counterexample does instead: a set of natural numbers has
a least element (`Least`), so a smallest set for which a statement about sums fails
has a smaller one for which it holds. That gives that the recursion has one solution
(`SumsExist`, `SumsAgree`), and from it the facts used above: a sum is that of an
element and the rest (`SumAdd`, `SumRemove`), grows with its set (`SumSubset`), is shared
out over two that do not meet (`SumUnion`), depends
on the values alone (`SumSame`) and not on the names (`SumInjected`).

Only model-checked: all liveness (`CallsSettle`, `LocksComeBack`, `RequestsEnd`,
`PaymentsAreRecorded`, `DepositsSettle`, `DustIsReceived`, `BurnsAreCredited`,
`EventsAreQueued`, `LoneClientHears`), which TLAPS does not reach.

## 8. Not modelled

Prices, gas price and tokens: each forwards a question and keeps no state. The history
routes: they list entries, and change nothing. The download of the blacklist, and the
reconnection of the web socket beyond the notifications it loses: I/O. Pings, and the
manager's `count`, `multicast` and `deleteAll`, which nothing calls. Models and errors
have no behaviour; of the configuration, what matters is a constant of the modules.
Amounts as floating-point numbers (`Paw.ts:295`) are beyond TLC: a deposit is whole or
not by its record.

## 9. Plan

Done, in this order: the storage and its ledger (everything else rests on them), the
queue, withdrawals, claims, deposits, swaps, the scan, their first two proof modules;
then the scan under faults that end, event streams and their proofs, the cold wallet's
arithmetic, burns of one transaction and their liveness, pending withdrawals; then the
proofs of withdrawals, swaps, claims and deposits, sums over finite sets, and with them
all the safety properties.

Next:

1. A wallet that swaps both ways, with what can still be said of its books: how much a
   swap to wPAW that overtakes a credit can cost.
2. Weaker hypotheses: `PaidOnce` for requests for nothing, and `NeverOverdrawn` with HTTP
   reads of other wallets than those that withdraw.
3. `DepositsCreditedOnce` per deposit: a job that does not fail is credited once though
   others do.
