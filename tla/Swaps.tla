--------------------------------- MODULE Swaps ---------------------------------
(***************************************************************************)
(* Swaps between PAW and wPAW.  To wPAW: Service.processSwapToWPAW signs a *)
(* receipt the user can mint with and debits the balance.  To PAW: an      *)
(* event of the token contract, seen by a listener and by the scan of      *)
(* blocks, is queued by Service.swapToPAW and credited by                  *)
(* Service.processSwapToPAW.  The queue's one worker runs both.            *)
(*                                                                         *)
(* The worker's program counter                                            *)
(*   idle      between jobs                                                *)
(*   claim     asking for the claim;       checked  about to read          *)
(*   balance   waiting for the balance;    mint     signing the receipt    *)
(*   debit     about to store;             stored   waiting for the store  *)
(*   posted    asking whether the event was credited                       *)
(*   credit    starting the (detached) store                               *)
(*   report    about to read the balance;  reply    waiting for it         *)
(***************************************************************************)
EXTENDS DepositsStorage, Sums

CONSTANTS
  Mints,         \* requests to swap to wPAW: [kind, wallet, amount, stamp]
  Claimed,       \* those whose blockchain wallet holds the claim of the PAW wallet
  Burns,         \* events of swaps to PAW: [kind, wallet, spelling, amount, hash]
  WorkerCall,    \* the storage call of the worker
  StoreCalls,    \* the detached storage calls
  ReaderCalls,   \* the storage calls of HTTP requests for a balance
  NodeFaults     \* subset of {"refused"}: a call of the blockchain node fails

ASSUME SwapsAssumption ==
  /\ Mints \subseteq [kind : {"mint"}, wallet : Wallets, amount : Nat, stamp : Stamps]
  /\ Claimed \subseteq Mints
  /\ Burns \subseteq [kind : {"burn"}, wallet : Wallets, spelling : Names, amount : Nat, hash : Hashes]
  /\ Calls = {WorkerCall} \cup StoreCalls \cup ReaderCalls
  /\ WorkerCall \notin StoreCalls \cup ReaderCalls

VARIABLES
  job,         \* the queue's records
  worker,      \* what the worker is doing: [at, id, receipt]
  receipts,    \* the receipts createMintReceipt returned: [request, hash]
  delivered,   \* those a completed job handed to the user
  burnt        \* the events on the blockchain

swapVars == <<storageVars, job, worker, receipts, delivered, burnt>>

SwapJobs == Mints \cup Burns

INSTANCE JobQueue WITH JobIds <- SwapJobs, RemovedOnFail <- {}

Receipts  == Hashes \ {b.hash : b \in Burns}
NoReceipt == 0
Idle      == [at |-> "idle"]

SignedReceipts == [request : Mints, hash : Receipts]

Places == {"claim", "checked", "balance", "mint", "debit", "stored", "posted", "credit", "report",
           "reply"}

SwapInit ==
  /\ StorageInit /\ QueueInit
  /\ worker = Idle
  /\ receipts = {} /\ delivered = {} /\ burnt = {}

-----------------------------------------------------------------------------
Stamp0 == CHOOSE s \in Stamps : TRUE

SpellingOf(id) == IF id.kind = "burn" THEN id.spelling ELSE id.wallet

ReadOp(id) == [kind |-> "read", wallet |-> id.wallet, spelling |-> SpellingOf(id),
               amount |-> 0, hash |-> NoReceipt, stamp |-> Stamp0]

DebitOp(m, h) == [kind |-> "swapToWPaw", wallet |-> m.wallet, spelling |-> m.wallet,
                  amount |-> m.amount, hash |-> h, stamp |-> m.stamp]

CreditOp(b) == [kind |-> "swapToPaw", wallet |-> b.wallet, spelling |-> b.spelling,
                amount |-> b.amount, hash |-> b.hash, stamp |-> Stamp0]

Swap == worker.id

GoesTo(where) == worker' = [worker EXCEPT !.at = where]

JobFails == Fail(Swap) /\ worker' = Idle

Outside == UNCHANGED <<receipts, delivered, burnt>>

\* The storage is called with these operations.
ASSUME SwapOpsAssumption ==
  /\ \A id \in SwapJobs : ReadOp(id) \in Ops
  /\ \A m \in Mints, h \in Receipts : DebitOp(m, h) \in Ops
  /\ \A b \in Burns : CreditOp(b) \in Ops

\* POST /swap
Submit(m) ==
  /\ job[m].state = "none"
  /\ Add(m, "waiting")
  /\ Outside /\ UNCHANGED <<storageVars, worker>>

(***************************************************************************)
(* Users burn wPAW; the listener and the scan may each report it, at any   *)
(* time.  A job is named after the blockchain wallet and the transaction:  *)
(* where a transaction has several events, one is queued and the add of    *)
(* another does nothing.                                                   *)
(***************************************************************************)
Twins(b) == {d \in Burns : d.hash = b.hash}

\* A transaction has finitely many events.
ASSUME TwinsAssumption == \A b \in Burns : IsFiniteSet(Twins(b))

Burn(b) ==
  /\ b \notin burnt
  /\ burnt' = burnt \cup Twins(b)
  /\ UNCHANGED <<storageVars, job, worker, receipts, delivered>>

Observe(b) ==
  /\ b \in burnt
  /\ IF \E d \in Twins(b) : job[d].state # "none" THEN UNCHANGED job ELSE Add(b, "waiting")
  /\ Outside /\ UNCHANGED <<storageVars, worker>>

Start(id) ==
  /\ worker.at = "idle"
  /\ Take(id)
  /\ worker' = [at |-> IF id.kind = "mint" THEN "claim" ELSE "posted", id |-> id,
                receipt |-> NoReceipt]
  /\ Outside /\ UNCHANGED storageVars

-----------------------------------------------------------------------------
(***************************************************************************)
(* To wPAW.  Signatures are taken to be good.                              *)
(***************************************************************************)
CheckClaim ==
  /\ worker.at = "claim"
  /\ \/ Swap \in Claimed /\ GoesTo("checked") /\ UNCHANGED job
     \/ (Swap \notin Claimed \/ RedisFails) /\ JobFails
  /\ Outside /\ UNCHANGED storageVars

ReadBalance ==
  /\ worker.at = "checked"
  /\ Invoke(WorkerCall, ReadOp(Swap))
  /\ GoesTo("balance")
  /\ Outside /\ UNCHANGED job

\* Mutant of CheckBalance: any balance will do.
CheckBalanceMissing ==
  /\ worker.at = "balance"
  /\ \/ pc[WorkerCall] = "resolved" /\ GoesTo("mint") /\ UNCHANGED job
     \/ pc[WorkerCall] = "rejected" /\ JobFails
  /\ Outside /\ UNCHANGED storageVars

CheckBalance ==
  /\ worker.at = "balance"
  /\ \/ pc[WorkerCall] = "resolved" /\ read[WorkerCall] >= Swap.amount
        /\ GoesTo("mint") /\ UNCHANGED job
     \/ pc[WorkerCall] = "resolved" /\ read[WorkerCall] < Swap.amount /\ JobFails
     \/ pc[WorkerCall] = "rejected" /\ JobFails
  /\ Outside /\ UNCHANGED storageVars

(***************************************************************************)
(* A receipt has an identifier of its own: the clock at the time of        *)
(* signing.  The node is asked afterwards for the user's wPAW: if that     *)
(* fails the receipt is dropped where it was made, and is not in receipts. *)
(***************************************************************************)
CreateMintReceipt ==
  /\ worker.at = "mint"
  /\ \/ /\ \E h \in Receipts \ {NoReceipt} :
              /\ \A r \in receipts : r.hash # h
              /\ \A g \in Receipts \ {NoReceipt} : g < h => \E r \in receipts : r.hash = g
              /\ receipts' = receipts \cup {[request |-> Swap, hash |-> h]}
              /\ worker' = [worker EXCEPT !.at = "debit", !.receipt = h]
        /\ UNCHANGED job
     \/ "refused" \in NodeFaults /\ JobFails /\ UNCHANGED receipts
  /\ UNCHANGED <<storageVars, delivered, burnt>>

\* Mutant of Debit: the receipt is handed over, and not debited.
DebitForgotten ==
  /\ worker.at = "debit"
  /\ GoesTo("report")
  /\ Outside /\ UNCHANGED <<storageVars, job>>

Debit ==
  /\ worker.at = "debit"
  /\ Invoke(WorkerCall, DebitOp(Swap, worker.receipt))
  /\ GoesTo("stored")
  /\ Outside /\ UNCHANGED job

\* The store is awaited; it resolves too when an error inside it was caught.
Debited ==
  /\ worker.at = "stored"
  /\ \/ pc[WorkerCall] = "resolved" /\ GoesTo("report") /\ UNCHANGED job
     \/ pc[WorkerCall] = "rejected" /\ JobFails
  /\ Outside /\ UNCHANGED storageVars

-----------------------------------------------------------------------------
(***************************************************************************)
(* To PAW.                                                                 *)
(***************************************************************************)
CheckPosted ==
  /\ worker.at = "posted"
  /\ \/ GoesTo(IF SwapPosted(Swap, entries) THEN "report" ELSE "credit") /\ UNCHANGED job
     \/ RedisFails /\ JobFails
  /\ Outside /\ UNCHANGED storageVars

\* Mutant of Credit: nothing is stored.
CreditForgotten ==
  /\ worker.at = "credit"
  /\ GoesTo("report")
  /\ Outside /\ UNCHANGED <<storageVars, job>>

Credit ==
  /\ worker.at = "credit"
  /\ \E c \in StoreCalls : Invoke(c, CreditOp(Swap))
  /\ GoesTo("report")
  /\ Outside /\ UNCHANGED job

\* The result of either job carries the balance; a receipt is in it.
Report ==
  /\ worker.at = "report"
  /\ Invoke(WorkerCall, ReadOp(Swap))
  /\ GoesTo("reply")
  /\ Outside /\ UNCHANGED job

Reply ==
  /\ worker.at = "reply"
  /\ \/ /\ pc[WorkerCall] = "resolved"
        /\ Complete(Swap) /\ worker' = Idle
        /\ delivered' = delivered \cup {r \in receipts : r.hash = worker.receipt}
     \/ pc[WorkerCall] = "rejected" /\ JobFails /\ UNCHANGED delivered
  /\ UNCHANGED <<storageVars, receipts, burnt>>

-----------------------------------------------------------------------------
PromoteJob ==
  /\ \E id \in SwapJobs : Promote(id)
  /\ Outside /\ UNCHANGED <<storageVars, worker>>

Attended(id) == worker.at # "idle" /\ worker.id = id

StallJob ==
  /\ \E id \in SwapJobs : ~Attended(id) /\ Stall(id)
  /\ Outside /\ UNCHANGED <<storageVars, worker>>

ReadOverHttp ==
  /\ \E c \in ReaderCalls, id \in SwapJobs : Invoke(c, ReadOp(id))
  /\ Outside /\ UNCHANGED <<job, worker>>

StorageStep ==
  /\ \/ \E c \in Calls : CallStep(c) \/ RedisError(c)
     \/ LeaseStep
  /\ Outside /\ UNCHANGED <<job, worker>>

Restart ==
  /\ Crash
  /\ worker' = Idle
  /\ Outside /\ UNCHANGED job

WorkerStep ==
  \/ \E id \in SwapJobs : Start(id)
  \/ CheckClaim \/ ReadBalance \/ CheckBalance \/ CreateMintReceipt \/ Debit \/ Debited
  \/ CheckPosted \/ Credit \/ Report \/ Reply

SwapNext ==
  \/ \E m \in Mints : Submit(m)
  \/ \E b \in Burns : Burn(b) \/ Observe(b)
  \/ WorkerStep
  \/ PromoteJob \/ StallJob
  \/ ReadOverHttp \/ StorageStep \/ Restart

SwapSpec == SwapInit /\ [][SwapNext]_swapVars

-----------------------------------------------------------------------------
(***************************************************************************)
(* Properties.                                                             *)
(***************************************************************************)
\* Every variable has its type.
SwapTypeOK ==
  /\ StorageTypeOK /\ JobTypeOK
  /\ worker \in {Idle} \cup [at : Places, id : SwapJobs, receipt : Receipts \cup {NoReceipt}]
  /\ receipts \subseteq SignedReceipts
  /\ delivered \subseteq receipts
  /\ burnt \subseteq Burns

EntriesOf(kind, w) == {e \in entries : e.kind = kind /\ e.wallet = w}

Filed(kind, w) == SumOver(EntryAmount, EntriesOf(kind, w))

BurnAmount == [b \in Burns |-> b.amount]

BurntFor(w) == SumOver(BurnAmount, {b \in burnt : b.wallet = w})

(***************************************************************************)
(* The wPAW the receipts within a user's reach can mint, those handed over *)
(* and those on file, is covered by what was deposited and burnt, whatever *)
(* swaps run before, after and again.                                      *)
(***************************************************************************)
OnFile(r) == Entry(DebitOp(r.request, r.hash)) \in entries

ReceiptAmount == [r \in SignedReceipts |-> r.request.amount]

InReach(w) == {r \in receipts : r.request.wallet = w /\ (r \in delivered \/ OnFile(r))}

ReceiptsCovered ==
  \A w \in Wallets : SumOver(ReceiptAmount, InReach(w)) <= Opening[w] + BurntFor(w)

(***************************************************************************)
(* A receipt in the user's hands has been debited ("decrease user          *)
(* deposits").                                                             *)
(***************************************************************************)
ReceiptsAreDebited == \A r \in delivered : OnFile(r)

(***************************************************************************)
(* The balance is what the audit trail says, through retries, crashes and  *)
(* stores an error of Redis cuts off, for a wallet that swaps in one       *)
(* direction.                                                              *)
(***************************************************************************)
BooksBalance ==
  \A w \in Wallets : balance[w] = Opening[w] + Filed("swapToPaw", w) - Filed("swapToWPaw", w)

\* Only an event of the blockchain is credited, and only a receipt debited.
EntriesAreBacked ==
  \A e \in entries : \/ \E b \in burnt : e = Entry(CreditOp(b))
                     \/ \E r \in receipts : e = Entry(DebitOp(r.request, r.hash))

-----------------------------------------------------------------------------
(***************************************************************************)
(* Fairness: the worker and the event loop go on, the scheduler promotes   *)
(* delayed jobs and puts stalled ones back, Redis answers and ends leases. *)
(***************************************************************************)
SwapFairness ==
  /\ WF_swapVars(WorkerStep)
  /\ WF_swapVars(PromoteJob) /\ WF_swapVars(StallJob)
  /\ WF_swapVars(StorageStep)

CreditedTransaction(b) == \E d \in Twins(b) : Entry(CreditOp(d)) \in entries

CutOff == \E c \in StoreCalls : pc[c] = "dead"

(***************************************************************************)
(* A burn that is queued is credited, or one of the same transaction is,   *)
(* unless its job runs out of attempts or the process dies with a detached *)
(* store under way, which nobody makes up for.                             *)
(***************************************************************************)
BurnsAreCredited ==
  \A b \in Burns : job[b].state = "waiting" ~>
                     CreditedTransaction(b) \/ job[b].state = "failed" \/ CutOff
=============================================================================
