----------------------------- MODULE Withdrawals -----------------------------
(***************************************************************************)
(* A PAW withdrawal from the HTTP request to the debit of the balance:     *)
(* Service.processWithdrawPAW run by the queue's one worker, on top of the *)
(* storage and of the PAW node that makes the payment.                     *)
(*                                                                         *)
(* The worker's program counter                                            *)
(*   idle       between jobs                                               *)
(*   contains   asking whether the request was already processed           *)
(*   checked    about to read the balance;   balance  waiting for it       *)
(*   hot        asking the node for the balance of the hot wallet          *)
(*   postpone   adding the pending job;      send     asking for payment   *)
(*   record     asking again whether the request was processed             *)
(*   debit      starting the store of the withdrawal                       *)
(*   report     about to read the balance;   reply    waiting for it       *)
(*                                                                         *)
(* The store of a withdrawal is detached: nobody waits for it.             *)
(***************************************************************************)
EXTENDS DepositsStorage, Sums

CONSTANTS
  Requests,       \* the requests, [wallet, amount, stamp]
  Claimed,        \* the requests whose blockchain wallet holds the claim of the PAW wallet
  MaxPostpones,   \* bound on how often a request is postponed
  Hot, Refill,    \* the hot wallet's balance at the start, and what an operator may add
  WorkerCall,     \* the storage call of the worker
  StoreCalls,     \* the detached storage calls
  ReaderCalls,    \* the storage calls of HTTP requests for a balance
  NodeFaults      \* subset of {"refused", "lostReply"}

ASSUME WithdrawalsAssumption ==
  /\ Requests \subseteq [wallet : Wallets, amount : Nat, stamp : Stamps]
  /\ Claimed \subseteq Requests
  /\ MaxPostpones \in Nat /\ Hot \in Nat /\ Refill \in Nat
  /\ Calls = {WorkerCall} \cup StoreCalls \cup ReaderCalls
  /\ WorkerCall \notin StoreCalls \cup ReaderCalls
  /\ Hashes \subseteq Nat /\ 0 \in Hashes

VARIABLES
  job,        \* the queue's records
  worker,     \* what the worker is doing: [at, id, hash]
  hot,        \* the hot wallet's balance at the node
  refilled,   \* has the operator topped it up?
  payments    \* the payments the node made: [request, hash]

withdrawalVars == <<storageVars, job, worker, hot, refilled, payments>>

\* paw-withdrawal-<wallet>-<stamp>, and pending-...-attempt-<n> for n > 0.
WithdrawalJobs == [request : Requests, attempt : 0..MaxPostpones]
PendingJobs    == {j \in WithdrawalJobs : j.attempt > 0}

INSTANCE JobQueue WITH JobIds <- WithdrawalJobs, RemovedOnFail <- PendingJobs

NoHash == 0
Idle   == [at |-> "idle"]

Payments == [request : Requests, hash : Hashes]

Places == {"contains", "checked", "balance", "hot", "postpone", "replaced", "send", "record",
           "debit", "report", "reply"}

WithdrawalInit ==
  /\ StorageInit
  /\ QueueInit
  /\ worker = Idle
  /\ hot = Hot /\ refilled = FALSE
  /\ payments = {}

-----------------------------------------------------------------------------
ReadOp(w) == [kind |-> "read", wallet |-> w, spelling |-> w, amount |-> 0,
              hash |-> NoHash, stamp |-> CHOOSE s \in Stamps : TRUE]

StoreOp(r, h) == [kind |-> "withdrawal", wallet |-> r.wallet, spelling |-> r.wallet,
                  amount |-> r.amount, hash |-> h, stamp |-> r.stamp]

\* Mutant of ContainsRequest: more than one.
ContainsRequestTwice(r) ==
  Cardinality({e \in entries : e.kind = "withdrawal" /\ e.wallet = r.wallet
                                 /\ e.stamp = r.stamp}) > 1

\* The number of withdrawals filed at the request's timestamp is exactly one.
ContainsRequest(r) ==
  Cardinality({e \in entries : e.kind = "withdrawal" /\ e.wallet = r.wallet
                                 /\ e.stamp = r.stamp}) = 1

Request == worker.id.request

GoesTo(where) == worker' = [worker EXCEPT !.at = where]

JobFails == Fail(worker.id) /\ worker' = Idle

NodeSame == UNCHANGED <<hot, refilled, payments>>

\* The storage is called with these operations.
ASSUME WithdrawalOpsAssumption ==
  /\ \A w \in Wallets : ReadOp(w) \in Ops
  /\ \A r \in Requests, h \in Hashes : StoreOp(r, h) \in Ops

-----------------------------------------------------------------------------
(***************************************************************************)
(* POST /withdrawals/paw: the add is not awaited, and its identifier is the*)
(* wallet and the millisecond.  A second request of a wallet in the same   *)
(* one is answered 201 as well, and changes nothing.                       *)
(***************************************************************************)
SameName(r, s) == r.wallet = s.wallet /\ r.stamp = s.stamp

Submit(r) ==
  /\ \A s \in Requests : SameName(r, s) => job[[request |-> s, attempt |-> 0]].state = "none"
  /\ Add([request |-> r, attempt |-> 0], "waiting")
  /\ NodeSame /\ UNCHANGED <<storageVars, worker>>

Start(j) ==
  /\ worker.at = "idle"
  /\ Take(j)
  /\ worker' = [at |-> "contains", id |-> j, hash |-> NoHash]
  /\ NodeSame /\ UNCHANGED storageVars

\* "check if request was already processed"
Check ==
  /\ worker.at = "contains"
  /\ \/ (ContainsRequest(Request) \/ RedisFails) /\ JobFails
     \/ ~ContainsRequest(Request) /\ GoesTo("checked") /\ UNCHANGED job
  /\ NodeSame /\ UNCHANGED storageVars

(***************************************************************************)
(* The signature of every request in Requests is good.  The two questions  *)
(* about the claim are asked of promises that are not awaited, and a       *)
(* promise is never falsy: they stop nobody, whether or not the request is *)
(* in Claimed.                                                             *)
(***************************************************************************)
ReadBalance ==
  /\ worker.at = "checked"
  /\ Invoke(WorkerCall, ReadOp(Request.wallet))
  /\ GoesTo("balance")
  /\ NodeSame /\ UNCHANGED job

\* Mutant of CheckBalance: any balance will do.
CheckBalanceMissing ==
  /\ worker.at = "balance"
  /\ \/ pc[WorkerCall] = "resolved" /\ GoesTo("hot") /\ UNCHANGED job
     \/ pc[WorkerCall] = "rejected" /\ JobFails
  /\ NodeSame /\ UNCHANGED storageVars

CheckBalance ==
  /\ worker.at = "balance"
  /\ \/ /\ pc[WorkerCall] = "resolved" /\ read[WorkerCall] >= Request.amount
        /\ GoesTo("hot")
        /\ UNCHANGED job
     \/ /\ pc[WorkerCall] = "resolved" /\ read[WorkerCall] < Request.amount
        /\ JobFails
     \/ pc[WorkerCall] = "rejected" /\ JobFails
  /\ NodeSame /\ UNCHANGED storageVars

CheckHotWallet ==
  /\ worker.at = "hot"
  /\ \/ GoesTo(IF hot < Request.amount THEN "postpone" ELSE "send") /\ UNCHANGED job
     \/ "refused" \in NodeFaults /\ JobFails
  /\ NodeSame /\ UNCHANGED storageVars

\* Mutant of Postpone: the pending job is not added.
PostponeForgotten ==
  /\ worker.at = "postpone"
  /\ worker.id.attempt < MaxPostpones
  /\ GoesTo(IF worker.id.attempt + 1 = 1 THEN "report" ELSE "replaced")
  /\ NodeSame /\ UNCHANGED <<storageVars, job>>

(***************************************************************************)
(* addPawUserPendingWithdrawal adds one to the attempt of the job's data   *)
(* in memory and adds the pending job.  The processor then completes the   *)
(* job if that attempt is 1, and throws otherwise.  So it does if the add, *)
(* which is awaited, rejects: with the job added or not.                   *)
(***************************************************************************)
AddSuccessor == Add([worker.id EXCEPT !.attempt = @ + 1], "delayed")

Postpone ==
  /\ worker.at = "postpone"
  /\ worker.id.attempt < MaxPostpones
  /\ \/ AddSuccessor /\ GoesTo(IF worker.id.attempt + 1 = 1 THEN "report" ELSE "replaced")
     \/ RedisFails /\ (AddSuccessor \/ UNCHANGED job) /\ GoesTo("replaced")
  /\ NodeSame /\ UNCHANGED storageVars

Replaced ==
  /\ worker.at = "replaced"
  /\ JobFails
  /\ NodeSame /\ UNCHANGED storageVars

\* The node makes the payment, under a hash of its own.
Pay(h) ==
  /\ hot >= Request.amount
  /\ h = Cardinality(payments) + 1
  /\ payments' = payments \cup {[request |-> Request, hash |-> h]}
  /\ hot' = hot - Request.amount
  /\ UNCHANGED refilled

Send ==
  /\ worker.at = "send"
  /\ \E h \in Hashes :
        /\ Pay(h)
        /\ worker' = [worker EXCEPT !.at = "record", !.hash = h]
  /\ UNCHANGED <<storageVars, job>>

\* Mutant of SendFails: the error is caught, and the withdrawal stored.
SendErrorCaught ==
  /\ worker.at = "send"
  /\ "refused" \in NodeFaults
  /\ GoesTo("record")
  /\ NodeSame /\ UNCHANGED <<storageVars, job>>

\* The node answers with an error, or its answer is lost after it paid.
SendFails ==
  /\ worker.at = "send"
  /\ \/ "refused" \in NodeFaults /\ NodeSame
     \/ "lostReply" \in NodeFaults /\ \E h \in Hashes : Pay(h)
  /\ JobFails
  /\ UNCHANGED storageVars

\* UsersDepositsService.storeUserWithdrawal asks again, then stores without waiting.  If the
\* question fails, so does the job, and the payment it made is in no entry.
Record ==
  /\ worker.at = "record"
  /\ \/ GoesTo(IF ContainsRequest(Request) THEN "report" ELSE "debit") /\ UNCHANGED job
     \/ RedisFails /\ JobFails
  /\ NodeSame /\ UNCHANGED storageVars

\* Mutant of Debit: the withdrawal is not stored.
DebitForgotten ==
  /\ worker.at = "debit"
  /\ GoesTo("report")
  /\ NodeSame /\ UNCHANGED <<storageVars, job>>

Debit ==
  /\ worker.at = "debit"
  /\ \E c \in StoreCalls : Invoke(c, StoreOp(Request, worker.hash))
  /\ GoesTo("report")
  /\ NodeSame /\ UNCHANGED job

\* The result of the job carries the balance.
Report ==
  /\ worker.at = "report"
  /\ Invoke(WorkerCall, ReadOp(Request.wallet))
  /\ GoesTo("reply")
  /\ NodeSame /\ UNCHANGED job

Reply ==
  /\ worker.at = "reply"
  /\ \/ pc[WorkerCall] = "resolved" /\ Complete(worker.id) /\ worker' = Idle
     \/ pc[WorkerCall] = "rejected" /\ JobFails
  /\ NodeSame /\ UNCHANGED storageVars

-----------------------------------------------------------------------------
PromoteJob ==
  /\ \E j \in WithdrawalJobs : Promote(j)
  /\ NodeSame /\ UNCHANGED <<storageVars, worker>>

Attended(j) == worker.at # "idle" /\ worker.id = j

StallJob ==
  /\ \E j \in WithdrawalJobs : ~Attended(j) /\ Stall(j)
  /\ NodeSame /\ UNCHANGED <<storageVars, worker>>

\* GET /deposits/paw/<wallet>
ReadOverHttp ==
  /\ \E c \in ReaderCalls, w \in Wallets : Invoke(c, ReadOp(w))
  /\ NodeSame /\ UNCHANGED <<job, worker>>

StorageStep ==
  /\ \/ \E c \in Calls : CallStep(c) \/ RedisError(c)
     \/ LeaseStep
  /\ NodeSame /\ UNCHANGED <<job, worker>>

RefillHotWallet ==
  /\ ~refilled /\ refilled' = TRUE
  /\ hot' = hot + Refill
  /\ UNCHANGED <<storageVars, job, worker, payments>>

\* The process dies and is started again.
Restart ==
  /\ Crash
  /\ worker' = Idle
  /\ NodeSame /\ UNCHANGED job

WorkerStep ==
  \/ \E j \in WithdrawalJobs : Start(j)
  \/ Check \/ ReadBalance \/ CheckBalance \/ CheckHotWallet \/ Postpone \/ Replaced
  \/ Send \/ Record \/ Debit \/ Report \/ Reply

WithdrawalNext ==
  \/ \E r \in Requests : Submit(r)
  \/ WorkerStep \/ SendFails
  \/ PromoteJob \/ StallJob
  \/ ReadOverHttp \/ StorageStep \/ RefillHotWallet \/ Restart

WithdrawalSpec == WithdrawalInit /\ [][WithdrawalNext]_withdrawalVars

-----------------------------------------------------------------------------
(***************************************************************************)
(* Properties.                                                             *)
(***************************************************************************)
\* Every variable has its type.
WithdrawalTypeOK ==
  /\ StorageTypeOK /\ JobTypeOK
  /\ worker \in {Idle} \cup [at : Places, id : WithdrawalJobs, hash : Hashes]
  /\ hot \in Nat /\ refilled \in BOOLEAN
  /\ payments \subseteq Payments

PaidAmount == [p \in Payments |-> p.request.amount]

PaidTo(w) == SumOver(PaidAmount, {p \in payments : p.request.wallet = w})

Withdrawn(w) == SumOver(EntryAmount, {e \in entries : e.wallet = w})

(***************************************************************************)
(* A wallet is never paid more than was deposited from it, however its     *)
(* requests are interleaved, retried and postponed ("check if deposits are *)
(* greater than or equal to amount to withdraw").                          *)
(***************************************************************************)
NoOverdraft == \A w \in Wallets : PaidTo(w) <= Opening[w]

(***************************************************************************)
(* A request is paid once, though its job may run three times and may be   *)
(* replaced by pending jobs that run three times each; and of requests a   *)
(* wallet makes in the same millisecond one is paid.                       *)
(***************************************************************************)
PaidAtMostOnce == \A p, q \in payments : SameName(p.request, q.request) => p = q

(***************************************************************************)
(* Nothing is debited that was not paid: an entry carries the hash of a    *)
(* payment of its wallet, amount and timestamp.                            *)
(***************************************************************************)
DebitFollowsPayment ==
  \A e \in entries : \E p \in payments : e = Entry(StoreOp(p.request, p.hash))

(***************************************************************************)
(* The balance is what the audit trail says: the opening balance less the  *)
(* withdrawals filed.                                                      *)
(***************************************************************************)
BooksBalance == \A w \in Wallets : balance[w] = Opening[w] - Withdrawn(w)

(***************************************************************************)
(* Only a request from the blockchain wallet that holds the claim is paid  *)
(* ("verify is the claim was previously done").                            *)
(***************************************************************************)
OnlyClaimedPaid == \A p \in payments : p.request \in Claimed

(***************************************************************************)
(* A request that was put off and is still to be paid has a pending job    *)
(* waiting or delayed, unless the worker is about it: whatever fails, is   *)
(* replaced or retried, it is in the amount the operator is told to top    *)
(* the hot wallet up by, and will be paid when that is done.               *)
(***************************************************************************)
JobOf(r, n) == job[[request |-> r, attempt |-> n]].state

Paid(r) == \E p \in payments : p.request = r

Owed == {r \in Requests : /\ JobOf(r, 0) = "completed" /\ ~Paid(r)
                          /\ r.amount <= balance[r.wallet]
                          /\ worker.at # "idle" => Request # r}

OwedArePending ==
  \A r \in Owed : \E j \in PendingJobs : j.request = r /\ job[j].state \in {"waiting", "delayed"}

-----------------------------------------------------------------------------
(***************************************************************************)
(* Fairness: the worker and the event loop go on, Redis ends leases, the   *)
(* scheduler promotes delayed jobs and puts stalled ones back, and the     *)
(* operator tops the hot wallet up.                                        *)
(***************************************************************************)
WithdrawalFairness ==
  /\ WF_withdrawalVars(WorkerStep)
  /\ WF_withdrawalVars(PromoteJob) /\ WF_withdrawalVars(StallJob)
  /\ WF_withdrawalVars(StorageStep)
  /\ WF_withdrawalVars(RefillHotWallet)

(***************************************************************************)
(* A submitted request is not forgotten: it is paid once the hot wallet    *)
(* can, unless the balance does not cover it (or a request is to be        *)
(* postponed beyond the bound MaxPostpones, where the model stops).        *)
(***************************************************************************)
AtBound == worker.at = "postpone" /\ worker.id.attempt = MaxPostpones

Ended(r) == Paid(r) \/ balance[r.wallet] < r.amount \/ AtBound

RequestsEnd == \A r \in Requests : JobOf(r, 0) = "waiting" ~> Ended(r)

\* Without faults every payment reaches the books, though its store is detached.
Recorded(r) == \E e \in entries : e.wallet = r.wallet /\ e.stamp = r.stamp

PaymentsAreRecorded == \A r \in Requests : Paid(r) ~> Recorded(r)
=============================================================================
