------------------------------- MODULE Deposits -------------------------------
(***************************************************************************)
(* A PAW deposit from the payment a user makes to the hot wallet to the    *)
(* credit of the balance, or back to the user: Paw.wsMessageReceived and   *)
(* Paw.processPendingTransactions queue it, Paw.processUserDeposit, run by *)
(* the queue's one worker, confirms a pending claim, receives the payment, *)
(* and credits or refunds it.                                              *)
(*                                                                         *)
(* The worker's program counter                                            *)
(*   idle       between jobs                                               *)
(*   pending    asking for a pending claim;  confirm  listing them         *)
(*   claim      setting the claim;           receive  receiving at the node*)
(*   claimed    asking for a claim;          refund   sending the PAW back *)
(*   contains   asking whether the deposit was ingested                    *)
(*   credit     starting the store;          cold     feeding the cold wallet*)
(*   report     about to read the balance;   reply    waiting for it       *)
(***************************************************************************)
EXTENDS DepositsStorage, Claims, ColdWallet, Sums

CONSTANTS
  Deposits,       \* the payments users make: [wallet, amount, hash, whole]
  Own,            \* those made by the deposits wallets themselves
  Raw,            \* those made of RAW only, at most nine digits of it
  NineDigits,     \* those of Raw with nine digits
  WorkerCall,     \* the storage call of the worker
  StoreCalls,     \* the detached storage calls
  ReaderCalls,    \* the storage calls of HTTP requests for a balance
  HotOpening,     \* what the hot wallet holds at the start
  NodeFaults      \* subset of {"notReceived", "refused", "lostReply", "cold"}

ASSUME DepositsAssumption ==
  /\ PawWallets = Wallets
  /\ Deposits \subseteq [wallet : Wallets, amount : Nat \ {0}, hash : Hashes, whole : BOOLEAN]
  /\ \A d, e \in Deposits : d.hash = e.hash => d = e
  /\ NineDigits \subseteq Raw /\ Raw \subseteq Deposits /\ Own \subseteq Deposits
  /\ HotOpening \in Nat
  /\ Calls = {WorkerCall} \cup StoreCalls \cup ReaderCalls
  /\ WorkerCall \notin StoreCalls \cup ReaderCalls

VARIABLES
  job,        \* the queue's records, one identifier per deposit
  worker,     \* what the worker is doing: [at, id] and, at "claim", the pair
  sent,       \* the payments the users made
  received,   \* those received in the hot wallet's account
  scan,       \* the pending payments a check has listed and not yet gone through
  refunds,    \* how often each deposit was sent back
  cold        \* what was sent to the cold wallet

depositVars == <<storageVars, claimVars, job, worker, sent, received, scan, refunds, cold>>

INSTANCE JobQueue WITH JobIds <- Deposits, RemovedOnFail <- {}

Idle == [at |-> "idle"]

\* What the hot wallet only receives.
Dust == Own \cup Raw

DepositInit ==
  /\ StorageInit /\ ClaimInit /\ QueueInit
  /\ worker = Idle
  /\ sent = {} /\ received = {} /\ scan = {}
  /\ refunds = [d \in Deposits |-> 0] /\ cold = 0

-----------------------------------------------------------------------------
(***************************************************************************)
(* The hot wallet at the node: what it received less what it sent, and the *)
(* same with the payments it has not received yet.                         *)
(***************************************************************************)
Amount   == [d \in Deposits |-> d.amount]
SentBack == [d \in Deposits |-> refunds[d] * d.amount]

Returns == SumOver(SentBack, sent)

HotBalance == HotOpening + SumOver(Amount, received) - Returns - cold

HotTotal == HotOpening + SumOver(Amount, sent) - Returns - cold

(***************************************************************************)
(* The node and the two ways a payment reaches the queue.  A notification  *)
(* may come late, twice, or (while the web socket is down) never; the      *)
(* check of every minute lists what is still to be received.  The next     *)
(* check is taken to begin after the last one.                             *)
(***************************************************************************)
NodeVars == <<sent, received, refunds, cold>>

Pay(d) ==
  /\ d \notin sent
  /\ sent' = sent \cup {d}
  /\ UNCHANGED <<storageVars, claimVars, job, worker, received, scan, refunds, cold>>

Notify(d) ==
  /\ d \in sent \ Dust
  /\ Add(d, "waiting")
  /\ UNCHANGED <<storageVars, claimVars, worker, scan, NodeVars>>

\* A notification of a payment by the deposits wallets: it is received at once,
\* unless its amount, read first, is made of RAW only.
NotifyOwn(d) ==
  /\ d \in (sent \cap Own) \ Raw
  /\ received' = received \cup {d}
  /\ UNCHANGED <<storageVars, claimVars, job, worker, sent, scan, refunds, cold>>

ListPending ==
  /\ scan = {}
  /\ scan' = sent \ received
  /\ UNCHANGED <<storageVars, claimVars, job, worker, NodeVars>>

\* Mutant of QueueMissed: the payment is gone through and not queued.
QueueMissedForgotten(d) ==
  /\ d \in scan \ Dust
  /\ scan' = scan \ {d}
  /\ UNCHANGED <<storageVars, claimVars, job, worker, NodeVars>>

QueueMissed(d) ==
  /\ d \in scan \ Dust
  /\ scan' = scan \ {d}
  /\ Add(d, "waiting")
  /\ UNCHANGED <<storageVars, claimVars, worker, NodeVars>>

(***************************************************************************)
(* A payment made of RAW only, or by the deposits wallets themselves, is   *)
(* received, and the check returns: what it listed behind it waits for the *)
(* next one.                                                               *)
(***************************************************************************)
\* Mutant of ReceiveDust: the check returns before it receives.
ReceiveDustForgotten(d) ==
  /\ d \in (scan \cap Dust) \ NineDigits
  /\ scan' = {}
  /\ UNCHANGED <<storageVars, claimVars, job, worker, NodeVars>>

ReceiveDust(d) ==
  /\ d \in (scan \cap Dust) \ NineDigits
  /\ scan' = {}
  /\ \/ received' = received \cup {d}
     \/ "refused" \in NodeFaults /\ UNCHANGED received
  /\ UNCHANGED <<storageVars, claimVars, job, worker, sent, refunds, cold>>

(***************************************************************************)
(* Nine digits are not fewer than nine, and leave no digit once the last   *)
(* nine are cut off: the amount cannot be read, and the check goes on.     *)
(***************************************************************************)
SkipNineDigits(d) ==
  /\ d \in scan \cap NineDigits
  /\ scan' = scan \ {d}
  /\ UNCHANGED <<storageVars, claimVars, job, worker, NodeVars>>

-----------------------------------------------------------------------------
ReadOp(w) == [kind |-> "read", wallet |-> w, spelling |-> w, amount |-> 0,
              hash |-> CHOOSE h \in Hashes : TRUE, stamp |-> CHOOSE s \in Stamps : TRUE]

CreditOp(d) == [kind |-> "deposit", wallet |-> d.wallet, spelling |-> d.wallet,
                amount |-> d.amount, hash |-> d.hash, stamp |-> CHOOSE s \in Stamps : TRUE]

ASSUME DepositOpsAssumption ==
  /\ \A w \in Wallets : ReadOp(w) \in Ops
  /\ \A d \in Deposits : CreditOp(d) \in Ops

ContainsDeposit(d) == \E e \in entries : e.kind = "deposit" /\ e.wallet = d.wallet /\ e.hash = d.hash

Deposit == worker.id

GoesTo(where) == worker' = [at |-> where, id |-> Deposit]

JobFails == Fail(Deposit) /\ worker' = Idle

Elsewhere == UNCHANGED <<sent, scan>>

Start(d) ==
  /\ worker.at = "idle"
  /\ Take(d)
  /\ worker' = [at |-> "pending", id |-> d]
  /\ Elsewhere /\ UNCHANGED <<storageVars, claimVars, received, refunds, cold>>

AskPendingClaim ==
  /\ worker.at = "pending"
  /\ \/ GoesTo(IF HasPendingClaim(Deposit.wallet) THEN "confirm" ELSE "receive") /\ UNCHANGED job
     \/ RedisFails /\ JobFails
  /\ Elsewhere /\ UNCHANGED <<storageVars, claimVars, received, refunds, cold>>

\* The pending claim may have expired since: there is no first key, a TypeError.
ListClaims ==
  /\ worker.at = "confirm"
  /\ \/ (PendingOf(Deposit.wallet) = {} \/ RedisFails) /\ JobFails
     \/ \E p \in PendingOf(Deposit.wallet) :
           worker' = [at |-> "claim", id |-> Deposit, pair |-> p] /\ UNCHANGED job
  /\ Elsewhere /\ UNCHANGED <<storageVars, claimVars, received, refunds, cold>>

\* The SET may fail, or be done and its answer be lost.
SetClaim ==
  /\ worker.at = "claim"
  /\ \/ ConfirmClaim(worker.pair) /\ GoesTo("receive") /\ UNCHANGED job
     \/ RedisFails /\ (ConfirmClaim(worker.pair) \/ UNCHANGED claimVars) /\ JobFails
  /\ Elsewhere /\ UNCHANGED <<storageVars, received, refunds, cold>>

\* An error of the node is caught: the deposit is processed as if received.
Receive ==
  /\ worker.at = "receive"
  /\ \/ received' = received \cup {Deposit}
     \/ "notReceived" \in NodeFaults /\ UNCHANGED received
  /\ GoesTo("claimed")
  /\ Elsewhere /\ UNCHANGED <<storageVars, claimVars, job, refunds, cold>>

\* Mutant of Sort: the claim is not asked for.
SortUnclaimed ==
  /\ worker.at = "claimed"
  /\ GoesTo(IF Deposit.whole THEN "contains" ELSE "refund")
  /\ Elsewhere /\ UNCHANGED <<storageVars, claimVars, job, received, refunds, cold>>

\* Unclaimed, or more than two decimals: back to the sender.
Sort ==
  /\ worker.at = "claimed"
  /\ \/ GoesTo(IF IsClaimed(Deposit.wallet) /\ Deposit.whole THEN "contains" ELSE "refund")
        /\ UNCHANGED job
     \/ RedisFails /\ JobFails
  /\ Elsewhere /\ UNCHANGED <<storageVars, claimVars, received, refunds, cold>>

Returned == refunds' = [refunds EXCEPT ![Deposit] = @ + 1]

\* The node sends no more than it has received.
Refund ==
  /\ worker.at = "refund"
  /\ Deposit.amount <= HotBalance /\ Returned
  /\ GoesTo("report")
  /\ Elsewhere /\ UNCHANGED <<storageVars, claimVars, job, received, cold>>

RefundFails ==
  /\ worker.at = "refund"
  /\ \/ ("refused" \in NodeFaults \/ Deposit.amount > HotBalance) /\ UNCHANGED refunds
     \/ "lostReply" \in NodeFaults /\ Deposit.amount <= HotBalance /\ Returned
  /\ JobFails
  /\ Elsewhere /\ UNCHANGED <<storageVars, claimVars, received, cold>>

\* "check if the transaction wasn't already ingested!"
AskContains ==
  /\ worker.at = "contains"
  /\ \/ GoesTo(IF ContainsDeposit(Deposit) THEN "cold" ELSE "credit") /\ UNCHANGED job
     \/ RedisFails /\ JobFails
  /\ Elsewhere /\ UNCHANGED <<storageVars, claimVars, received, refunds, cold>>

\* The store is started and not waited for.
Credit ==
  /\ worker.at = "credit"
  /\ \E c \in StoreCalls : Invoke(c, CreditOp(Deposit))
  /\ GoesTo("cold")
  /\ Elsewhere /\ UNCHANGED <<claimVars, job, received, refunds, cold>>

(***************************************************************************)
(* eventuallySendToColdWallet, after the credit was started.  It throws    *)
(* where the ratio does, or the node does not tell its balance or does not *)
(* send; a retry comes here again, whether or not the deposit was credited *)
(* and shared before.                                                      *)
(***************************************************************************)
Share == ColdShare(HotTotal, Deposit.amount)

FeedColdWallet ==
  /\ worker.at = "cold"
  /\ ~RatioThrows(HotTotal) /\ Share <= HotBalance
  /\ cold' = cold + Share
  /\ GoesTo("report")
  /\ Elsewhere /\ UNCHANGED <<storageVars, claimVars, job, received, refunds>>

ColdWalletFails ==
  /\ worker.at = "cold"
  /\ \/ /\ RatioThrows(HotTotal) \/ Share > HotBalance \/ "cold" \in NodeFaults
        /\ UNCHANGED cold
     \/ "lostReply" \in NodeFaults /\ 0 < Share /\ Share <= HotBalance /\ cold' = cold + Share
  /\ JobFails
  /\ Elsewhere /\ UNCHANGED <<storageVars, claimVars, received, refunds>>

Report ==
  /\ worker.at = "report"
  /\ Invoke(WorkerCall, ReadOp(Deposit.wallet))
  /\ GoesTo("reply")
  /\ Elsewhere /\ UNCHANGED <<claimVars, job, received, refunds, cold>>

Reply ==
  /\ worker.at = "reply"
  /\ \/ pc[WorkerCall] = "resolved" /\ Complete(Deposit) /\ worker' = Idle
     \/ pc[WorkerCall] = "rejected" /\ JobFails
  /\ Elsewhere /\ UNCHANGED <<storageVars, claimVars, received, refunds, cold>>

-----------------------------------------------------------------------------
Background == UNCHANGED <<worker, sent, received, scan, refunds, cold>>

PromoteJob == (\E d \in Deposits : Promote(d)) /\ Background /\ UNCHANGED <<storageVars, claimVars>>

Attended(d) == worker.at # "idle" /\ worker.id = d

StallJob ==
  /\ \E d \in Deposits : ~Attended(d) /\ Stall(d)
  /\ Background /\ UNCHANGED <<storageVars, claimVars>>

ReadOverHttp ==
  /\ \E c \in ReaderCalls, w \in Wallets : Invoke(c, ReadOp(w))
  /\ Background /\ UNCHANGED <<claimVars, job>>

StorageStep ==
  /\ \/ \E c \in Calls : CallStep(c) \/ RedisError(c)
     \/ LeaseStep
  /\ Background /\ UNCHANGED <<claimVars, job>>

ClaimOverHttp ==
  /\ \/ \E c \in ClaimCalls, s \in Spellings, o \in Owners : RequestClaim(c, s, o)
     \/ \E c \in ClaimCalls : ClaimStep(c)
     \/ \E p \in Pairs : ExpirePendingClaim(p)
  /\ Background /\ UNCHANGED <<storageVars, job>>

\* The process dies and is started again: a check and the claim requests are gone.
Restart ==
  /\ Crash
  /\ worker' = Idle /\ scan' = {}
  /\ LoseRequests
  /\ UNCHANGED <<job, sent, received, refunds, cold>>

WorkerStep ==
  \/ \E d \in Deposits : Start(d)
  \/ AskPendingClaim \/ ListClaims \/ SetClaim \/ Receive \/ Sort \/ Refund
  \/ AskContains \/ Credit \/ FeedColdWallet \/ Report \/ Reply

DepositStep ==
  \/ \E d \in Deposits : Pay(d) \/ Notify(d) \/ NotifyOwn(d)
  \/ \E d \in Deposits : QueueMissed(d) \/ ReceiveDust(d) \/ SkipNineDigits(d)
  \/ ListPending
  \/ WorkerStep \/ RefundFails \/ ColdWalletFails
  \/ PromoteJob \/ StallJob
  \/ StorageStep \/ Restart

DepositNext == DepositStep \/ ReadOverHttp \/ ClaimOverHttp

DepositSpec == DepositInit /\ [][DepositNext]_depositVars

-----------------------------------------------------------------------------
(***************************************************************************)
(* Properties.                                                             *)
(***************************************************************************)
Places == {"pending", "confirm", "receive", "claimed", "refund", "contains", "credit", "cold",
           "report", "reply"}

\* Every variable has its type.
DepositTypeOK ==
  /\ StorageTypeOK /\ ClaimTypeOK /\ JobTypeOK
  /\ worker \in {Idle} \cup [at : Places, id : Deposits]
                       \cup [at : {"claim"}, id : Deposits, pair : Pairs]
  /\ sent \subseteq Deposits /\ received \subseteq sent /\ scan \subseteq sent
  /\ refunds \in [Deposits -> Nat] /\ cold \in Nat

Credited(d) == Entry(CreditOp(d)) \in entries

(***************************************************************************)
(* A deposit leads to one thing: to a credit or to a refund, and to one of *)
(* it, though a web socket and a check may both queue it, a check may list *)
(* it again while it is processed, and its job may run three times.        *)
(***************************************************************************)
OneOutcome == \A d \in Deposits : refunds[d] + (IF Credited(d) THEN 1 ELSE 0) <= 1

(***************************************************************************)
(* Only a deposit the hot wallet was sent, from a wallet that is claimed,  *)
(* is credited; with a fraction it never is.                               *)
(***************************************************************************)
CreditsAreClaimed ==
  \A e \in entries : /\ IsClaimed(e.wallet)
                     /\ \E d \in sent : d.whole /\ e = Entry(CreditOp(d))

\* A claim needs a request that was let through, and a deposit: one of the wallet's own
\* was being processed.
ClaimsNeedDeposit ==
  \A p \in claims : p \in stored /\ \E d \in sent : d.wallet = p.wallet

(***************************************************************************)
(* "... make sure the transaction is not store twice but once!"  The       *)
(* balance is the sum of the deposits filed.                               *)
(***************************************************************************)
CreditedOf(w) == {d \in Deposits : d.wallet = w /\ Credited(d)}

CreditedOnce ==
  \A w \in Wallets :
     balance[w] = Opening[w] + SumOver(Amount, CreditedOf(w))

(***************************************************************************)
(* Feeding the cold wallet leaves the hot wallet its minimum, but for what *)
(* is sent back to users afterwards, however often jobs are retried ("this *)
(* code will only send to cold wallet if the hot wallet has at least ...") *)
(***************************************************************************)
HotKeepsMinimum == cold > 0 => HotTotal + Returns >= HotMinimum

-----------------------------------------------------------------------------
(***************************************************************************)
(* Fairness: the node's pending payments are checked every minute, and the *)
(* worker, the event loop, the scheduler and Redis go on.                  *)
(***************************************************************************)
DepositFairness ==
  /\ WF_depositVars(WorkerStep)
  /\ WF_depositVars(PromoteJob) /\ WF_depositVars(StallJob)
  /\ WF_depositVars(StorageStep)
  /\ WF_depositVars(ListPending)
  /\ \A d \in Deposits : WF_depositVars(QueueMissed(d) \/ ReceiveDust(d) \/ SkipNineDigits(d))

\* No payment is forgotten, its notification lost or not.
DepositsSettle == \A d \in Deposits \ Dust : d \in sent ~> Credited(d) \/ refunds[d] > 0

(***************************************************************************)
(* What is only to be received is received, unless its amount has nine     *)
(* digits, though every check returns at the first such payment it finds.  *)
(***************************************************************************)
DustIsReceived == \A d \in Dust \ NineDigits : d \in sent ~> d \in received
=============================================================================
