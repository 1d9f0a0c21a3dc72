---------------------------- MODULE Deposits_proofs ----------------------------
(***************************************************************************)
(* Proofs about Deposits and the cold wallet, for every value of their     *)
(* constants.                                                              *)
(***************************************************************************)
EXTENDS Deposits, DepositsStorage_proofs, Claims_proofs, Sums_proofs

(***************************************************************************)
(* What a deposit lets through to the cold wallet, for every minimum,      *)
(* percentage, unit, balance and deposit.                                  *)
(***************************************************************************)
\* What \div rounds to.
LEMMA DivRoundsDown ==
  ASSUME NEW n \in Nat, NEW d \in Nat \ {0}
  PROVE  n \div d \in Nat /\ (n \div d) * d \in Nat /\ (n \div d) * d <= n
<1>1. /\ n \div d \in Int
      /\ (n \div d) * d <= n /\ n < (n \div d + 1) * d
  BY SMT
<1>2. n \div d >= 0
  BY <1>1, SMT
<1> QED
  BY <1>1, <1>2, SMT

\* A part of a number is no more than it.
LEMMA PartIsLess ==
  ASSUME NEW q \in Nat, NEW k \in 0..100
  PROVE  q * (100 - k) \in Nat /\ q * (100 - k) <= q * 100
<1>1. q * k \in Nat
  BY SMT
<1>2. q * (100 - k) = q * 100 - q * k
  BY SMT
<1>3. 100 - k \in Nat
  BY SMT
<1>4. q * (100 - k) \in Nat
  BY <1>3, SMT
<1> QED
  BY <1>1, <1>2, <1>4, SMT

(***************************************************************************)
(* The cold wallet is never sent more than the deposit, nor anything of    *)
(* the minimum: what is sent leaves the hot wallet, by the total it was    *)
(* computed from, at least the minimum.                                    *)
(***************************************************************************)
THEOREM ShareKeepsMinimum ==
  ASSUME NEW total \in Int, NEW deposit \in Nat
  PROVE  /\ ColdShare(total, deposit) \in 0..deposit
         /\ ColdShare(total, deposit) > 0 =>
               total - ColdShare(total, deposit) >= HotMinimum
<1>1. CASE AboveMinimum(total) <= 0 \/ KeptPercent = Fractional
  BY <1>1 DEF ColdShare
<1>2. CASE ~(AboveMinimum(total) <= 0 \/ KeptPercent = Fractional)
  <2> DEFINE least == Smaller(AboveMinimum(total), deposit)
             cut   == AmountToSplit(total, deposit)
  <2>1. /\ PAW \in Nat \ {0} /\ HotMinimum \in Nat /\ KeptPercent \in 0..100
        /\ AboveMinimum(total) = total - HotMinimum /\ AboveMinimum(total) > 0
    BY <1>2, ColdWalletAssumption DEF AboveMinimum
  <2>2. least \in Nat /\ least <= total - HotMinimum /\ least <= deposit
    BY <2>1 DEF Smaller
  <2>3. cut = (least \div PAW) * PAW
    BY DEF AmountToSplit
  <2> HIDE DEF least
  <2>4. cut \in Nat /\ cut <= least
    BY <2>1, <2>2, <2>3, DivRoundsDown
  <2> HIDE DEF cut
  <2>5. cut \div 100 \in Nat /\ (cut \div 100) * 100 <= cut
    BY <2>4, DivRoundsDown
  <2>6. ColdShare(total, deposit) = (cut \div 100) * (100 - KeptPercent)
    BY <1>2 DEF ColdShare, cut
  <2>7. ColdShare(total, deposit) \in Nat /\ ColdShare(total, deposit) <= cut
    BY <2>1, <2>4, <2>5, <2>6, PartIsLess
  <2> QED
    BY <2>1, <2>2, <2>4, <2>7
<1> QED
  BY <1>1, <1>2

-----------------------------------------------------------------------------
(***************************************************************************)
(* The worker's job is active, one that has not failed has attempts and    *)
(* stalls left, and a job is about a payment that was made.                *)
(***************************************************************************)
JobsLive ==
  /\ \A d \in Deposits : job[d].state # "failed" =>
        job[d].tries < MaxAttempts /\ job[d].stalls <= MaxStalled
  /\ \A d \in Deposits : job[d].state # "none" => d \in sent
  /\ worker.at # "idle" => job[worker.id].state = "active"

\* The pair about to be set as a claim was once pending, and is of the wallet that paid.
PairHeld ==
  worker.at = "claim" => worker.pair \in stored /\ worker.pair.wallet = worker.id.wallet

DepositBase ==
  BaseInv /\ AcceptedInv /\ DepositTypeOK /\ JobsLive /\ PairHeld /\ IsFiniteSet(sent)

LEMMA DepositFacts ==
  ASSUME NEW d \in Deposits
  PROVE  /\ d.wallet \in Wallets /\ d.amount \in Nat /\ d.amount > 0 /\ d.hash \in Hashes
         /\ d.whole \in BOOLEAN /\ CreditOp(d) \in Ops /\ ReadOp(d.wallet) \in Ops
  BY DepositsAssumption, DepositOpsAssumption

LEMMA CallFacts ==
  /\ WorkerCall \in Calls /\ StoreCalls \subseteq Calls /\ ReaderCalls \subseteq Calls
  /\ WorkerCall \notin StoreCalls /\ WorkerCall \notin ReaderCalls
  BY DepositsAssumption

LEMMA WorkerFacts ==
  ASSUME DepositTypeOK, worker.at # "idle"
  PROVE  /\ worker.at \in Places \cup {"claim"} /\ Deposit \in Deposits /\ Deposit = worker.id
         /\ Deposit.wallet \in Wallets /\ Deposit.amount \in Nat
         /\ ReadOp(Deposit.wallet) \in Ops /\ CreditOp(Deposit) \in Ops
         /\ worker.at = "claim" => worker.pair \in Pairs
<1>1. worker.at \in Places \cup {"claim"} /\ worker.id \in Deposits
      /\ (worker.at = "claim" => worker.pair \in Pairs)
  BY DEF DepositTypeOK, Idle, Places
<1> QED
  BY <1>1, DepositFacts DEF Deposit

(***************************************************************************)
(* What a deposit does to the storage is a step of the storage, and what   *)
(* it does to the claims is one of the claims.                             *)
(***************************************************************************)
LEMMA StorageOfStep ==
  ASSUME DepositTypeOK, [DepositNext]_depositVars
  PROVE  [StorageNext]_storageVars
<1>1. ASSUME NEW c \in Calls, NEW o \in Ops, Invoke(c, o) PROVE StorageNext
  BY <1>1 DEF StorageNext
<1>2. CASE Credit
  BY <1>1, <1>2, CallFacts, WorkerFacts DEF Credit
<1>3. CASE Report
  BY <1>1, <1>3, CallFacts, WorkerFacts DEF Report
<1>4. CASE ReadOverHttp
  BY <1>1, <1>4, CallFacts, DepositOpsAssumption DEF ReadOverHttp
<1>5. CASE StorageStep \/ Restart
  BY <1>5 DEF StorageStep, Restart, StorageNext
<1>6. CASE WorkerStep /\ ~Credit /\ ~Report
  BY <1>6 DEF WorkerStep, Start, AskPendingClaim, ListClaims, SetClaim, Receive, Sort, Refund,
     AskContains, FeedColdWallet, Reply
<1>7. CASE \E d \in Deposits : \/ Pay(d) \/ Notify(d) \/ NotifyOwn(d)
                               \/ QueueMissed(d) \/ ReceiveDust(d) \/ SkipNineDigits(d)
  BY <1>7 DEF Pay, Notify, NotifyOwn, QueueMissed, ReceiveDust, SkipNineDigits
<1>8. CASE ListPending \/ RefundFails \/ ColdWalletFails \/ PromoteJob \/ StallJob \/ ClaimOverHttp
  BY <1>8 DEF ListPending, RefundFails, ColdWalletFails, PromoteJob, StallJob, ClaimOverHttp
<1>9. CASE UNCHANGED depositVars
  BY <1>9 DEF depositVars
<1> QED
  BY <1>2, <1>3, <1>4, <1>5, <1>6, <1>7, <1>8, <1>9 DEF DepositNext, DepositStep

LEMMA ClaimsOfStep ==
  ASSUME PairHeld, [DepositNext]_depositVars
  PROVE  [ClaimNext]_claimVars
<1>1. CASE SetClaim
  BY <1>1 DEF SetClaim, PairHeld, ClaimNext
<1>2. CASE Restart
  BY <1>2 DEF Restart, ClaimNext
<1>3. CASE ClaimOverHttp
  BY <1>3 DEF ClaimOverHttp, ClaimNext
<1>4. CASE WorkerStep /\ ~SetClaim
  BY <1>4 DEF WorkerStep, Start, AskPendingClaim, ListClaims, Receive, Sort, Refund,
     AskContains, Credit, FeedColdWallet, Report, Reply
<1>5. CASE \E d \in Deposits : \/ Pay(d) \/ Notify(d) \/ NotifyOwn(d)
                               \/ QueueMissed(d) \/ ReceiveDust(d) \/ SkipNineDigits(d)
  BY <1>5 DEF Pay, Notify, NotifyOwn, QueueMissed, ReceiveDust, SkipNineDigits
<1>6. CASE ListPending \/ RefundFails \/ ColdWalletFails \/ PromoteJob \/ StallJob
           \/ StorageStep \/ ReadOverHttp
  BY <1>6 DEF ListPending, RefundFails, ColdWalletFails, PromoteJob, StallJob, StorageStep, ReadOverHttp
<1>7. CASE UNCHANGED depositVars
  BY <1>7 DEF depositVars
<1> QED
  BY <1>1, <1>2, <1>3, <1>4, <1>5, <1>6, <1>7 DEF DepositNext, DepositStep

LEMMA BaseOfInit == DepositInit => DepositBase
<1> SUFFICES ASSUME DepositInit PROVE DepositBase
  OBVIOUS
<1>1. BaseInv
  BY BaseInit DEF DepositInit
<1>2. AcceptedInv
  BY ClaimTypeInit DEF DepositInit, ClaimInit, NoRequest, AcceptedInv, Accepted, Questions
<1>3. JobTypeOK /\ JobsLive
  BY DEF DepositInit, QueueInit, JobTypeOK, JobsLive, NoJob, JobStates, MaxAttempts, MaxStalled, Idle
<1>4. DepositTypeOK
  BY <1>1, <1>2, <1>3 DEF DepositInit, DepositTypeOK, BaseInv, AcceptedInv, Idle
<1>5. PairHeld /\ IsFiniteSet(sent)
  BY FS_EmptySet DEF DepositInit, PairHeld, Idle
<1> QED
  BY <1>1, <1>2, <1>3, <1>4, <1>5 DEF DepositBase

(***************************************************************************)
(* The queue and the worker.                                               *)
(***************************************************************************)
Records == [state : JobStates, tries : 0..MaxAttempts, stalls : 0..MaxStalled + 1]

LiveRecord(r) == r.state # "failed" => r.tries < MaxAttempts /\ r.stalls <= MaxStalled

WorkerType == {Idle} \cup [at : Places, id : Deposits]
                     \cup [at : {"claim"}, id : Deposits, pair : Pairs]

LEMMA FailedRecord ==
  ASSUME NEW d \in Deposits, JobTypeOK, job[d].tries < MaxAttempts, job[d].stalls <= MaxStalled,
         Fail(d)
  PROVE  /\ job'[d] \in Records /\ LiveRecord(job'[d]) /\ job'[d].state \in {"delayed", "failed"}
         /\ \A k \in Deposits \ {d} : job'[k] = job[k]
         /\ job' = [job EXCEPT ![d] = job'[d]]
<1>1. PICK old \in Records : old = job[d]
  BY DEF JobTypeOK, Records
<1>2. job \in [Deposits -> Records]
  BY DEF JobTypeOK, Records
<1>3. old.tries \in 0..2 /\ old.tries + 1 \in 1..3 /\ old.stalls \in 0..1 /\ old.state \in JobStates
  BY <1>1 DEF Records, MaxAttempts, MaxStalled
<1> DEFINE After(s) == [old EXCEPT !.state = s, !.tries = old.tries + 1]
<1>4. ASSUME NEW s \in {"delayed", "failed"}
      PROVE  /\ After(s) \in Records
             /\ After(s).state = s /\ After(s).tries = old.tries + 1
             /\ After(s).stalls = old.stalls
  <2>1. s \in JobStates /\ old.tries + 1 \in 0..MaxAttempts
    BY <1>3 DEF MaxAttempts, JobStates
  <2>2. [old EXCEPT !.state = s] \in Records
    BY <2>1 DEF Records
  <2>3. After(s) = [[old EXCEPT !.state = s] EXCEPT !.tries = old.tries + 1]
    OBVIOUS
  <2> QED
    BY <2>1, <2>2, <2>3 DEF Records
<1>5. job' = [job EXCEPT ![d] = IF old.tries + 1 < MaxAttempts THEN After("delayed")
                                                               ELSE After("failed")]
  BY <1>1 DEF Fail
<1> HIDE DEF After
<1> QED
  BY <1>2, <1>3, <1>4, <1>5 DEF LiveRecord, MaxStalled

LEMMA QueueStep ==
  ASSUME DepositTypeOK, JobsLive, [DepositNext]_depositVars
  PROVE  JobTypeOK' /\ JobsLive' /\ worker' \in WorkerType
<1> DEFINE Goal == JobTypeOK' /\ JobsLive' /\ worker' \in WorkerType
<1> SUFFICES Goal
  OBVIOUS
<1>0. JobTypeOK /\ worker \in WorkerType /\ scan \subseteq sent /\ sent \subseteq Deposits
  BY DEF DepositTypeOK, WorkerType
<1> USE DEF JobsLive, JobTypeOK, JobStates, MaxAttempts, MaxStalled, NoJob
<1>1. CASE JobFails /\ worker.at # "idle" /\ UNCHANGED sent
  <2>1. Deposit \in Deposits /\ job[Deposit].state = "active" /\ Deposit \in sent
    BY <1>0, <1>1, WorkerFacts
  <2>2. Fail(Deposit) /\ worker' = Idle
    BY <1>1 DEF JobFails
  <2>3. /\ job'[Deposit] \in Records /\ LiveRecord(job'[Deposit])
        /\ \A k \in Deposits \ {Deposit} : job'[k] = job[k]
        /\ job' = [job EXCEPT ![Deposit] = job'[Deposit]]
    BY <1>0, <2>1, <2>2, FailedRecord
  <2> QED
    BY <1>0, <1>1, <2>1, <2>2, <2>3 DEF Records, LiveRecord, Idle, WorkerType
<1>2. ASSUME worker.at # "idle", UNCHANGED <<job, sent>>, NEW p \in Places, GoesTo(p) PROVE Goal
  BY <1>0, <1>2, WorkerFacts DEF GoesTo, Idle, WorkerType, Places
<1>3. CASE UNCHANGED <<job, worker, sent>>
  BY <1>0, <1>3 DEF Idle
<1>4. CASE WorkerStep
  <2>0. UNCHANGED sent
    BY <1>4 DEF WorkerStep, Start, AskPendingClaim, ListClaims, SetClaim, Receive, Sort, Refund,
       AskContains, Credit, FeedColdWallet, Report, Reply, Elsewhere
  <2>1. ASSUME NEW d \in Deposits, Start(d) PROVE Goal
    BY <1>0, <2>0, <2>1 DEF Start, Take, Move, Places, WorkerType, Idle
  <2>2. CASE AskPendingClaim
    BY <1>1, <1>2, <2>0, <2>2 DEF AskPendingClaim, Places
  <2>3. CASE ListClaims
    <3>1. ASSUME NEW p \in PendingOf(Deposit.wallet), UNCHANGED job,
                 worker' = [at |-> "claim", id |-> Deposit, pair |-> p]
          PROVE  Goal
      <4>1. p \in Pairs
        BY DEF PendingOf, DepositTypeOK, ClaimTypeOK
      <4>2. Deposit \in Deposits
        BY <2>3, WorkerFacts DEF ListClaims
      <4>3. worker' \in WorkerType /\ worker'.id = Deposit
        BY <3>1, <4>1, <4>2 DEF WorkerType
      <4> QED
        BY <1>0, <2>0, <2>3, <3>1, <4>2, <4>3, WorkerFacts DEF ListClaims
    <3> QED
      BY <1>1, <2>0, <2>3, <3>1 DEF ListClaims
  <2>4. CASE SetClaim
    BY <1>1, <1>2, <2>0, <2>4 DEF SetClaim, Places
  <2>5. CASE Receive
    BY <1>2, <2>0, <2>5 DEF Receive, Places
  <2>6. CASE Sort
    BY <1>1, <1>2, <2>0, <2>6 DEF Sort, Places
  <2>7. CASE Refund \/ AskContains
    BY <1>1, <1>2, <2>0, <2>7 DEF Refund, AskContains, Places
  <2>8. CASE Credit \/ FeedColdWallet \/ Report
    BY <1>2, <2>0, <2>8 DEF Credit, FeedColdWallet, Report, Places
  <2>9. CASE Reply
    <3>1. CASE Complete(Deposit) /\ worker' = Idle
      BY <1>0, <2>0, <2>9, <3>1, WorkerFacts DEF Reply, Complete, Move, Idle, WorkerType
    <3> QED
      BY <1>1, <2>0, <2>9, <3>1 DEF Reply
  <2> QED
    BY <1>4, <2>1, <2>2, <2>3, <2>4, <2>5, <2>6, <2>7, <2>8, <2>9 DEF WorkerStep
<1>5. CASE RefundFails \/ ColdWalletFails
  BY <1>1, <1>5 DEF RefundFails, ColdWalletFails, Elsewhere
<1>6. ASSUME NEW d \in sent, Add(d, "waiting"), UNCHANGED <<worker, sent>> PROVE Goal
  BY <1>0, <1>6, WorkerFacts DEF Add
<1>7. ASSUME NEW d \in Deposits, Pay(d) PROVE Goal
  BY <1>0, <1>7 DEF Pay, Idle
<1>8. ASSUME NEW d \in Deposits,
             Notify(d) \/ NotifyOwn(d) \/ QueueMissed(d) \/ ReceiveDust(d) \/ SkipNineDigits(d)
      PROVE  Goal
  BY <1>0, <1>3, <1>6, <1>8 DEF Notify, NotifyOwn, QueueMissed, ReceiveDust, SkipNineDigits, NodeVars
<1>9. CASE PromoteJob
  BY <1>0, <1>9, WorkerFacts DEF PromoteJob, Promote, Move, Background
<1>10. CASE StallJob
  BY <1>0, <1>10, WorkerFacts DEF StallJob, Stall, Attended, Background, Deposit
<1>11. CASE ListPending \/ StorageStep \/ ReadOverHttp \/ ClaimOverHttp
  BY <1>3, <1>11 DEF ListPending, StorageStep, ReadOverHttp, ClaimOverHttp, Background, NodeVars
<1>12. CASE Restart
  BY <1>0, <1>12 DEF Restart, Idle, WorkerType
<1>13. CASE UNCHANGED depositVars
  BY <1>3, <1>13 DEF depositVars
<1> HIDE DEF Goal
<1> QED
  BY <1>4, <1>5, <1>7, <1>8, <1>9, <1>10, <1>11, <1>12, <1>13 DEF DepositNext, DepositStep

(***************************************************************************)
(* The node.                                                               *)
(***************************************************************************)
LEMMA AmountTypes ==
  ASSUME DepositTypeOK
  PROVE  /\ Amount \in [Deposits -> Nat] /\ Amount \in [Deposits -> Int]
         /\ SentBack \in [Deposits -> Nat] /\ SentBack \in [Deposits -> Int]
<1>1. ASSUME NEW d \in Deposits PROVE d.amount \in Nat /\ refunds[d] * d.amount \in Nat
  <2>1. d.amount \in Nat /\ refunds[d] \in Nat
    BY DepositFacts DEF DepositTypeOK
  <2> QED
    BY <2>1
<1> QED
  BY <1>1 DEF Amount, SentBack

LEMMA SumTypes ==
  ASSUME DepositTypeOK, IsFiniteSet(sent)
  PROVE  /\ IsFiniteSet(received)
         /\ SumOver(Amount, received) \in Int /\ SumOver(Amount, sent) \in Int
         /\ Returns \in Nat /\ HotBalance \in Int /\ HotTotal \in Int /\ cold \in Nat
         /\ \A d \in Deposits : ColdShare(HotTotal, d.amount) \in 0..d.amount
<1>1. sent \in SUBSET Deposits /\ received \in SUBSET sent /\ cold \in Nat /\ HotOpening \in Nat
  BY DepositsAssumption DEF DepositTypeOK
<1>2. IsFiniteSet(received) /\ received \in SUBSET Deposits
  BY <1>1, FS_Subset
<1>3. SumOver(Amount, received) \in Int /\ SumOver(Amount, sent) \in Int /\ SumOver(SentBack, sent) \in Int
  BY <1>1, <1>2, AmountTypes, SumInt
<1>4. 0 <= SumOver(SentBack, sent)
  BY <1>1, AmountTypes, SumSubset
<1>5. Returns \in Nat
  BY <1>3, <1>4 DEF Returns
<1>6. HotBalance \in Int /\ HotTotal \in Int
  BY <1>1, <1>3, <1>5 DEF HotBalance, HotTotal
<1> QED
  BY <1>1, <1>2, <1>3, <1>5, <1>6, DepositFacts, ShareKeepsMinimum

\* What a step is to the node.
Pays(d)    == d \in Deposits \ sent /\ sent' = sent \cup {d} /\ UNCHANGED <<received, refunds, cold>>
Receives(d) == d \in sent /\ received' = received \cup {d} /\ UNCHANGED <<sent, refunds, cold>>
Refunds    == /\ worker.at = "refund" /\ Deposit.amount <= HotBalance /\ Returned
              /\ "lostReply" \in NodeFaults \/ Refund
              /\ UNCHANGED <<sent, received, cold>>
Feeds      == /\ worker.at = "cold" /\ ~RatioThrows(HotTotal) /\ Share <= HotBalance
              /\ "lostReply" \in NodeFaults \/ FeedColdWallet
              /\ cold' = cold + Share /\ UNCHANGED <<sent, received, refunds>>
NodeRests  == UNCHANGED <<sent, received, refunds, cold>>

LEMMA NodeCases ==
  ASSUME DepositTypeOK, JobsLive, [DepositNext]_depositVars
  PROVE  \/ \E d \in Deposits : Pays(d) \/ Receives(d)
         \/ Refunds \/ Feeds \/ NodeRests
<1>1. ASSUME NEW d \in Deposits,
             \/ Pay(d) \/ Notify(d) \/ NotifyOwn(d)
             \/ QueueMissed(d) \/ ReceiveDust(d) \/ SkipNineDigits(d)
      PROVE  Pays(d) \/ Receives(d) \/ NodeRests
  BY <1>1
  DEF Pay, Notify, NotifyOwn, QueueMissed, ReceiveDust, SkipNineDigits, NodeVars, DepositTypeOK,
      Pays, Receives, NodeRests
<1>2. CASE Receive
  BY <1>2, WorkerFacts DEF Receive, Elsewhere, Receives, NodeRests, JobsLive
<1>3. CASE Refund \/ FeedColdWallet
  BY <1>3 DEF Refund, FeedColdWallet, Elsewhere, Refunds, Feeds
<1>4. CASE RefundFails
  BY <1>4 DEF RefundFails, Elsewhere, Refunds, NodeRests
<1>5. CASE ColdWalletFails
  <2>1. CASE UNCHANGED cold
    BY <1>5, <2>1 DEF ColdWalletFails, Elsewhere, NodeRests
  <2>2. CASE "lostReply" \in NodeFaults /\ 0 < Share /\ Share <= HotBalance /\ cold' = cold + Share
    <3>1. ~RatioThrows(HotTotal)
      BY <2>2 DEF RatioThrows, Share, ColdShare
    <3> QED
      BY <1>5, <2>2, <3>1 DEF ColdWalletFails, Elsewhere, Feeds
  <2> QED
    BY <1>5, <2>1, <2>2 DEF ColdWalletFails
<1>6. CASE \E d \in Deposits : Start(d)
  BY <1>6 DEF Start, Elsewhere, NodeRests
<1>7. CASE AskPendingClaim \/ ListClaims \/ SetClaim \/ Sort \/ AskContains \/ Credit \/ Report \/ Reply
  BY <1>7 DEF AskPendingClaim, ListClaims, SetClaim, Sort, AskContains, Credit, Report, Reply,
     Elsewhere, NodeRests
<1>8. CASE ListPending \/ PromoteJob \/ StallJob \/ StorageStep \/ ReadOverHttp \/ ClaimOverHttp \/ Restart
  BY <1>8 DEF ListPending, PromoteJob, StallJob, StorageStep, ReadOverHttp, ClaimOverHttp, Restart,
     Background, NodeVars, NodeRests
<1>9. CASE UNCHANGED depositVars
  BY <1>9 DEF depositVars, NodeRests
<1> QED
  BY <1>1, <1>2, <1>3, <1>4, <1>5, <1>6, <1>7, <1>8, <1>9 DEF DepositNext, DepositStep, WorkerStep

LEMMA NodeStep ==
  ASSUME DepositTypeOK, JobsLive, IsFiniteSet(sent), [DepositNext]_depositVars
  PROVE  /\ sent \subseteq sent' /\ sent' \subseteq Deposits /\ IsFiniteSet(sent')
         /\ received \subseteq received' /\ received' \subseteq sent'
         /\ refunds' \in [Deposits -> Nat] /\ cold' \in Nat
<1>1. ASSUME NEW d \in Deposits, Pays(d) PROVE IsFiniteSet(sent')
  BY <1>1, FS_AddElement DEF Pays
<1>2. CASE Refunds
  BY <1>2, WorkerFacts DEF Refunds, Returned, DepositTypeOK
<1>3. CASE Feeds
  <2>1. Share \in Nat
    BY <1>3, SumTypes, WorkerFacts DEF Feeds, Share
  <2>2. cold' \in Nat
    BY <1>3, <2>1 DEF Feeds, DepositTypeOK
  <2> QED
    BY <1>3, <2>2 DEF Feeds, DepositTypeOK
<1>4. ASSUME NEW d \in Deposits, Pays(d) \/ Receives(d)
      PROVE  /\ sent \subseteq sent' /\ sent' \subseteq Deposits /\ IsFiniteSet(sent')
             /\ received \subseteq received' /\ received' \subseteq sent'
             /\ refunds' \in [Deposits -> Nat] /\ cold' \in Nat
  BY <1>1, <1>4 DEF Pays, Receives, DepositTypeOK
<1> QED
  BY <1>2, <1>3, <1>4, NodeCases DEF NodeRests, Refunds, DepositTypeOK

LEMMA ScanStep ==
  ASSUME DepositTypeOK, [DepositNext]_depositVars, sent \subseteq sent'
  PROVE  scan' \subseteq sent'
<1>1. ASSUME NEW d \in Deposits,
             \/ Pay(d) \/ Notify(d) \/ NotifyOwn(d)
             \/ QueueMissed(d) \/ ReceiveDust(d) \/ SkipNineDigits(d)
      PROVE  scan' \subseteq scan
  BY <1>1 DEF Pay, Notify, NotifyOwn, QueueMissed, ReceiveDust, SkipNineDigits
<1>2. CASE WorkerStep \/ RefundFails \/ ColdWalletFails
  BY <1>2 DEF WorkerStep, Start, AskPendingClaim, ListClaims, SetClaim, Receive, Sort, Refund, AskContains,
     Credit, FeedColdWallet, Report, Reply, RefundFails, ColdWalletFails, Elsewhere, DepositTypeOK
<1>3. CASE ListPending
  BY <1>3 DEF ListPending, NodeVars
<1>4. CASE PromoteJob \/ StallJob \/ StorageStep \/ ReadOverHttp \/ ClaimOverHttp \/ Restart
  BY <1>4 DEF PromoteJob, StallJob, StorageStep, ReadOverHttp, ClaimOverHttp, Restart, Background,
     DepositTypeOK
<1>5. CASE UNCHANGED depositVars
  BY <1>5 DEF depositVars, DepositTypeOK
<1> QED
  BY <1>1, <1>2, <1>3, <1>4, <1>5 DEF DepositNext, DepositStep, DepositTypeOK

LEMMA PairStep ==
  ASSUME DepositBase, [DepositNext]_depositVars, stored \subseteq stored'
  PROVE  PairHeld'
<1>1. CASE UNCHANGED worker
  BY <1>1 DEF DepositBase, PairHeld
<1>2. CASE worker'.at # "claim"
  BY <1>2 DEF PairHeld
<1>3. CASE ListClaims /\ worker' # Idle
  <2>1. PICK p \in PendingOf(Deposit.wallet) : worker' = [at |-> "claim", id |-> Deposit, pair |-> p]
    BY <1>3 DEF ListClaims, JobFails
  <2>2. p \in stored /\ p.wallet = Deposit.wallet
    BY <2>1 DEF PendingOf, DepositBase, AcceptedInv, Accepted
  <2>3. worker'.pair = p /\ worker'.id = Deposit
    BY <2>1
  <2> QED
    BY <2>2, <2>3 DEF PairHeld
<1>4. worker' # Idle => UNCHANGED worker \/ worker'.at # "claim" \/ ListClaims
  BY DEF DepositNext, DepositStep, WorkerStep, Start, AskPendingClaim, SetClaim, Receive, Sort, Refund,
     AskContains, Credit, FeedColdWallet, Report, Reply, RefundFails, ColdWalletFails, JobFails, GoesTo,
     Pay, Notify, NotifyOwn, QueueMissed, ReceiveDust, SkipNineDigits, ListPending, PromoteJob,
     StallJob, StorageStep, ReadOverHttp, ClaimOverHttp, Restart, Background, depositVars
<1>5. worker' = Idle => worker'.at # "claim"
  BY DEF Idle
<1> QED
  BY <1>1, <1>2, <1>3, <1>4, <1>5

LEMMA BaseOfStep == DepositBase /\ [DepositNext]_depositVars => DepositBase'
<1> SUFFICES ASSUME DepositBase, [DepositNext]_depositVars PROVE DepositBase'
  OBVIOUS
<1>1. BaseInv'
  BY StorageOfStep, BaseStep DEF DepositBase
<1>2. [ClaimNext]_claimVars
  BY ClaimsOfStep DEF DepositBase
<1>3. AcceptedInv'
  BY <1>2, ClaimTypeStep, AcceptedStep DEF DepositBase, AcceptedInv
<1>4. JobTypeOK' /\ JobsLive' /\ worker' \in WorkerType
  BY QueueStep DEF DepositBase
<1>5. /\ sent \subseteq sent' /\ sent' \subseteq Deposits /\ IsFiniteSet(sent') /\ received' \subseteq sent'
      /\ refunds' \in [Deposits -> Nat] /\ cold' \in Nat
  BY NodeStep DEF DepositBase
<1>6. scan' \subseteq sent'
  BY <1>5, ScanStep DEF DepositBase
<1>7. stored \subseteq stored'
  BY <1>2 DEF ClaimNext, RequestClaim, ClaimStep, CheckBlacklist, CheckClaim, CheckPendingClaim,
     RecheckPendingClaim, StorePendingClaim, QuestionFails, ExpirePendingClaim, ConfirmClaim, LoseRequests,
     claimVars
<1>8. PairHeld'
  BY <1>7, PairStep
<1> QED
  BY <1>1, <1>3, <1>4, <1>5, <1>6, <1>8 DEF DepositBase, DepositTypeOK, BaseInv, AcceptedInv, WorkerType

LEMMA DepositBaseInvariance == DepositSpec => []DepositBase
  BY BaseOfInit, BaseOfStep, PTL DEF DepositSpec

(***************************************************************************)
(* Type correctness, whatever the faults: jobs are only of payments that   *)
(* were made, what is received was sent, and the queue's counters stay     *)
(* within the attempts and stalls BullMQ allows.                           *)
(***************************************************************************)
THEOREM DepositTypeCorrect == DepositSpec => []DepositTypeOK
<1>1. DepositBase => DepositTypeOK
  BY DEF DepositBase
<1> QED
  BY <1>1, DepositBaseInvariance, PTL

(***************************************************************************)
(* The worker uses the storage as it is meant to be used: what a deposit   *)
(* does to balances, entries, locks and calls is a behaviour of            *)
(* DepositsStorage, so every theorem about the storage holds of it.        *)
(***************************************************************************)
THEOREM DepositsUseStorage == DepositSpec => StorageSpec
<1>1. DepositInit => StorageInit
  BY DEF DepositInit
<1>2. DepositBase => DepositTypeOK
  BY DEF DepositBase
<1> QED
  BY <1>1, <1>2, StorageOfStep, DepositBaseInvariance, PTL DEF DepositSpec, StorageSpec

(***************************************************************************)
(* And so do the claims: a deposit confirms only what was pending once,    *)
(* though the pending claim may have expired since it was listed, so that  *)
(* every theorem about claims holds while deposits confirm them.           *)
(***************************************************************************)
THEOREM DepositsUseClaims == DepositSpec => ClaimSpec
<1>1. DepositInit => ClaimInit
  BY DEF DepositInit
<1>2. DepositBase => PairHeld
  BY DEF DepositBase
<1> QED
  BY <1>1, <1>2, ClaimsOfStep, DepositBaseInvariance, PTL DEF DepositSpec, ClaimSpec

-----------------------------------------------------------------------------
(***************************************************************************)
(* Whoever is about to be credited is claimed, and has sent a whole        *)
(* deposit: from the worker's question to the write of the detached store. *)
(***************************************************************************)
CreditsDeposit(o) == IsClaimed(o.wallet) /\ \E d \in sent : d.whole /\ o = CreditOp(d)

CreditHeld ==
  /\ worker.at \in {"contains", "credit"} => IsClaimed(Deposit.wallet) /\ Deposit.whole
  /\ \A c \in Calls : op[c].kind \in {"none", "read"} \/ CreditsDeposit(op[c])

CreditInv == DepositBase /\ CreditHeld /\ CreditsAreClaimed

\* What a step is to the storage and to the worker.
LEMMA StepCases ==
  ASSUME DepositTypeOK, [DepositNext]_depositVars
  PROVE  \/ UNCHANGED storageVars
         \/ Report
         \/ Credit
         \/ \E c \in ReaderCalls, w \in Wallets : Invoke(c, ReadOp(w)) /\ UNCHANGED worker
         \/ InternalStep /\ (UNCHANGED worker \/ worker' = Idle)
<1>1. CASE \E d \in Deposits : \/ Pay(d) \/ Notify(d) \/ NotifyOwn(d)
                               \/ QueueMissed(d) \/ ReceiveDust(d) \/ SkipNineDigits(d)
  BY <1>1 DEF Pay, Notify, NotifyOwn, QueueMissed, ReceiveDust, SkipNineDigits
<1>2. CASE WorkerStep /\ ~Credit /\ ~Report
  BY <1>2 DEF WorkerStep, Start, AskPendingClaim, ListClaims, SetClaim, Receive, Sort, Refund,
     AskContains, FeedColdWallet, Reply
<1>3. CASE ListPending \/ RefundFails \/ ColdWalletFails \/ PromoteJob \/ StallJob \/ ClaimOverHttp
  BY <1>3 DEF ListPending, RefundFails, ColdWalletFails, PromoteJob, StallJob, ClaimOverHttp
<1>4. CASE StorageStep \/ Restart
  BY <1>4 DEF StorageStep, Restart, Background, InternalStep
<1>5. CASE ReadOverHttp
  BY <1>5 DEF ReadOverHttp, Background
<1>6. CASE UNCHANGED depositVars
  BY <1>6 DEF depositVars
<1> QED
  BY <1>1, <1>2, <1>3, <1>4, <1>5, <1>6 DEF DepositNext, DepositStep

LEMMA ClaimsGrow ==
  ASSUME DepositBase, [DepositNext]_depositVars
  PROVE  claims \subseteq claims' /\ sent \subseteq sent'
<1>1. [ClaimNext]_claimVars
  BY ClaimsOfStep DEF DepositBase
<1>2. claims \subseteq claims'
  BY <1>1 DEF ClaimNext, RequestClaim, ClaimStep, CheckBlacklist, CheckClaim, CheckPendingClaim,
     RecheckPendingClaim, StorePendingClaim, QuestionFails, ExpirePendingClaim, ConfirmClaim, LoseRequests,
     claimVars
<1> QED
  BY <1>2, NodeStep DEF DepositBase

\* Only Sort sends a deposit on to be credited.
LEMMA ToCredit ==
  ASSUME DepositTypeOK, [DepositNext]_depositVars
  PROVE  \/ UNCHANGED worker \/ worker'.at \notin {"contains", "credit"}
         \/ Sort /\ worker'.id = worker.id
         \/ worker.at = "contains" /\ worker'.id = worker.id /\ AskContains
<1>1. ASSUME worker.at # "idle", NEW p \in Places \ {"contains", "credit"}, GoesTo(p)
      PROVE  worker'.at \notin {"contains", "credit"}
  BY <1>1 DEF GoesTo
<1>2. CASE worker' = Idle
  BY <1>2 DEF Idle
<1>3. CASE WorkerStep
  <2>1. ASSUME NEW d \in Deposits, Start(d) PROVE worker'.at = "pending"
    BY <2>1 DEF Start
  <2>2. CASE AskPendingClaim \/ SetClaim \/ Receive \/ Refund \/ Credit \/ FeedColdWallet \/ Report
    BY <1>1, <1>2, <2>2 DEF AskPendingClaim, SetClaim, Receive, Refund, Credit, FeedColdWallet, Report,
       Places, JobFails
  <2>3. CASE ListClaims \/ Reply
    BY <1>2, <2>3 DEF ListClaims, Reply, JobFails
  <2>4. CASE Sort \/ AskContains
    BY <1>2, <2>4 DEF Sort, AskContains, GoesTo, Deposit, JobFails
  <2> QED
    BY <1>3, <2>1, <2>2, <2>3, <2>4 DEF WorkerStep
<1>4. CASE RefundFails \/ ColdWalletFails \/ Restart
  BY <1>2, <1>4 DEF RefundFails, ColdWalletFails, Restart, JobFails
<1> QED
  BY <1>3, <1>4
  DEF DepositNext, DepositStep, Pay, Notify, NotifyOwn, QueueMissed, ReceiveDust, SkipNineDigits,
      ListPending, PromoteJob, StallJob, StorageStep, ReadOverHttp, ClaimOverHttp, Background,
      NodeVars, depositVars

LEMMA CreditHeldStep ==
  ASSUME CreditInv, [DepositNext]_depositVars
  PROVE  CreditHeld'
<1>1. DepositTypeOK /\ StorageTypeOK /\ claims \subseteq claims' /\ sent \subseteq sent'
  BY ClaimsGrow DEF CreditInv, DepositBase, DepositTypeOK
<1>2. \A o : CreditsDeposit(o) => CreditsDeposit(o)'
  BY <1>1 DEF CreditsDeposit, IsClaimed
<1>3. (worker.at \in {"contains", "credit"} => IsClaimed(Deposit.wallet) /\ Deposit.whole)'
  <2>1. CASE UNCHANGED worker
    BY <1>1, <2>1 DEF CreditInv, CreditHeld, IsClaimed, Deposit
  <2>2. CASE Sort /\ worker'.id = worker.id
    BY <1>1, <2>2 DEF Sort, GoesTo, JobFails, Idle, Deposit, IsClaimed
  <2>3. CASE worker.at = "contains" /\ worker'.id = worker.id
    BY <1>1, <2>3 DEF CreditInv, CreditHeld, IsClaimed, Deposit
  <2> QED
    BY <1>1, <2>1, <2>2, <2>3, ToCredit
<1> DEFINE Held == \A c \in Calls : op[c].kind \in {"none", "read"} \/ CreditsDeposit(op[c])
<1>4. Held'
  <2>1. CASE UNCHANGED storageVars
    BY <1>2, <2>1 DEF CreditInv, CreditHeld, storageVars
  <2>2. ASSUME NEW c \in Calls, NEW w \in Wallets, Invoke(c, ReadOp(w)) PROVE Held'
    BY <1>1, <1>2, <2>2, InvokeFrame, DepositOpsAssumption DEF CreditInv, CreditHeld, ReadOp
  <2>3. CASE Credit
    <3>1. PICK c \in Calls : Invoke(c, CreditOp(Deposit))
      BY <2>3, CallFacts DEF Credit
    <3>2. CreditOp(Deposit) \in Ops /\ Deposit \in sent /\ CreditOp(Deposit).wallet = Deposit.wallet
      BY <1>1, <2>3, WorkerFacts DEF Credit, CreditInv, DepositBase, JobsLive, CreditOp
    <3>3. CreditsDeposit(CreditOp(Deposit))
      BY <2>3, <3>2 DEF Credit, CreditInv, CreditHeld, CreditsDeposit
    <3> QED
      BY <1>1, <1>2, <3>1, <3>2, <3>3, InvokeFrame DEF CreditInv, CreditHeld
  <2>4. CASE InternalStep
    BY <1>1, <1>2, <2>4, InternalFrame DEF CreditInv, CreditHeld, NoOp
  <2>5. CASE Report
    BY <1>1, <2>2, <2>5, CallFacts, WorkerFacts DEF Report
  <2> QED
    BY <1>1, <2>1, <2>2, <2>3, <2>4, <2>5, StepCases, CallFacts
<1> QED
  BY <1>3, <1>4 DEF CreditHeld

\* A call that writes credits a deposit.
LEMMA ExecCredits ==
  ASSUME CreditInv, NEW c \in Calls, Exec(c)
  PROVE  /\ op[c].kind = "deposit" /\ IsClaimed(op[c].wallet)
         /\ \E d \in sent : d.whole /\ op[c] = CreditOp(d)
<1>1. op[c].kind \notin {"none", "read"}
  BY OpFacts DEF Exec, CreditInv, DepositBase, BaseInv, ServesOps, ServesOp, Settled, Writes, Kinds
<1>2. CreditsDeposit(op[c])
  BY <1>1 DEF CreditInv, CreditHeld
<1>3. \A d \in sent : CreditOp(d).kind = "deposit"
  BY DEF CreditOp
<1> QED
  BY <1>2, <1>3 DEF CreditsDeposit

LEMMA CreditsStep ==
  ASSUME CreditInv, [DepositNext]_depositVars
  PROVE  CreditsAreClaimed'
<1>1. /\ [StorageNext]_storageVars /\ StorageTypeOK /\ claims \subseteq claims' /\ sent \subseteq sent'
  BY ClaimsGrow, StorageOfStep DEF CreditInv, DepositBase, DepositTypeOK
<1>2. CASE UNCHANGED entries
  BY <1>1, <1>2 DEF CreditInv, CreditsAreClaimed, IsClaimed
<1>3. ASSUME NEW c \in Calls, Exec(c) PROVE CreditsAreClaimed'
  <2>1. entries' = entries \cup {Entry(op[c])} /\ Entry(op[c]).wallet = op[c].wallet
    BY <1>3 DEF Exec, Entry
  <2> QED
    BY <1>1, <1>3, <2>1, ExecCredits DEF CreditInv, CreditsAreClaimed, IsClaimed
<1>4. ASSUME NEW c \in Calls, NEW o \in Ops, Invoke(c, o) PROVE UNCHANGED entries
  BY <1>4 DEF Invoke, dataVars
<1>5. CASE InternalStep
  BY <1>1, <1>2, <1>3, <1>5, InternalFrame DEF dataVars
<1> QED
  BY <1>1, <1>2, <1>4, <1>5 DEF StorageNext, InternalStep, storageVars

LEMMA CreditInvariance == DepositSpec => []CreditInv
<1>1. DepositInit => CreditInv
  BY BaseOfInit
  DEF DepositInit, StorageInit, CreditInv, CreditHeld, CreditsAreClaimed, NoOp, Idle
<1>2. CreditInv /\ [DepositNext]_depositVars => CreditInv'
  BY BaseOfStep, CreditHeldStep, CreditsStep DEF CreditInv
<1> QED
  BY <1>1, <1>2, PTL DEF DepositSpec

(***************************************************************************)
(* Whatever fails, only a whole deposit the hot wallet was sent, from a    *)
(* wallet that is claimed, is in the books.                                *)
(***************************************************************************)
THEOREM OnlyClaimedCredited == DepositSpec => []CreditsAreClaimed
<1>1. CreditInv => CreditsAreClaimed
  BY DEF CreditInv
<1> QED
  BY <1>1, CreditInvariance, PTL

(***************************************************************************)
(* Whatever fails, a claim was asked for, stored, and confirmed by a       *)
(* deposit of its own wallet.                                              *)
(***************************************************************************)
THEOREM ClaimsFollowDeposits == DepositSpec => []ClaimsNeedDeposit
<1> DEFINE Backed == \A p \in claims : \E d \in sent : d.wallet = p.wallet
<1>1. DepositInit => Backed
  BY DEF DepositInit, ClaimInit
<1>2. ASSUME DepositBase, Backed, [DepositNext]_depositVars PROVE Backed'
  <2>1. claims \subseteq claims' /\ sent \subseteq sent'
    BY <1>2, ClaimsGrow
  <2>2. CASE SetClaim
    <3>1. claims' \subseteq claims \cup {worker.pair} /\ worker.pair.wallet = Deposit.wallet
      BY <1>2, <2>2 DEF SetClaim, ConfirmClaim, DepositBase, PairHeld, Deposit, claimVars
    <3>2. Deposit \in sent
      BY <1>2, <2>2, WorkerFacts DEF SetClaim, DepositBase, JobsLive
    <3> QED
      BY <1>2, <2>1, <3>1, <3>2
  <2>3. CASE ~SetClaim
    <3>1. claims' = claims
      BY <1>2, <2>3
      DEF DepositNext, DepositStep, WorkerStep, Start, AskPendingClaim, ListClaims, Receive, Sort,
          Refund, AskContains, Credit, FeedColdWallet, Report, Reply, RefundFails, ColdWalletFails,
          Pay, Notify, NotifyOwn, QueueMissed, ReceiveDust, SkipNineDigits, ListPending, PromoteJob,
          StallJob, StorageStep, ReadOverHttp, ClaimOverHttp, RequestClaim, ClaimStep, CheckBlacklist,
          CheckClaim, CheckPendingClaim, RecheckPendingClaim, StorePendingClaim, QuestionFails,
          ExpirePendingClaim, Restart, LoseRequests, claimVars, depositVars
    <3> QED
      BY <1>2, <2>1, <3>1
  <2> QED
    BY <2>2, <2>3
<1>3. DepositBase /\ Backed => ClaimsNeedDeposit
  BY DEF DepositBase, AcceptedInv, Accepted, ClaimsNeedDeposit
<1> HIDE DEF Backed
<1>4. DepositBase /\ Backed /\ [DepositNext]_depositVars => Backed'
  BY <1>2
<1> QED
  BY <1>1, <1>3, <1>4, DepositBaseInvariance, PTL DEF DepositSpec

(***************************************************************************)
(* Whatever fails and however often a job is retried, feeding the cold     *)
(* wallet leaves the hot wallet its minimum, but for what was sent back.   *)
(***************************************************************************)
THEOREM HotWalletKeepsMinimum == DepositSpec => []HotKeepsMinimum
<1> DEFINE Kept == cold > 0 => HotOpening + SumOver(Amount, sent) - cold >= HotMinimum
<1>1. ASSUME DepositTypeOK, IsFiniteSet(sent) PROVE Kept <=> HotKeepsMinimum
  <2>1. HotTotal + Returns = HotOpening + SumOver(Amount, sent) - cold
    BY <1>1, SumTypes, DepositsAssumption DEF HotTotal
  <2> QED
    BY <2>1 DEF HotKeepsMinimum
<1>2. DepositInit => Kept
  BY DEF DepositInit
<1>3. ASSUME DepositBase, Kept, [DepositNext]_depositVars PROVE Kept'
  <2>1. /\ DepositTypeOK /\ JobsLive /\ IsFiniteSet(sent) /\ sent \in SUBSET Deposits
        /\ SumOver(Amount, sent) \in Int /\ cold \in Nat /\ HotTotal \in Int /\ Returns \in Nat
        /\ HotOpening \in Nat /\ HotMinimum \in Nat
    BY <1>3, SumTypes, DepositsAssumption, ColdWalletAssumption DEF DepositBase, DepositTypeOK
  <2>2. ASSUME NEW d \in Deposits, Pays(d) PROVE Kept'
    <3>1. SumOver(Amount, sent') = SumOver(Amount, sent) + Amount[d]
      BY <2>1, <2>2, AmountTypes, SumAdd DEF Pays
    <3>2. Amount[d] \in Nat /\ cold' = cold /\ Amount' = Amount
      BY <2>1, <2>2, AmountTypes DEF Pays, Amount
    <3> QED
      BY <1>3, <2>1, <3>1, <3>2
  <2>3. CASE Feeds
    <3>1. Share \in Nat /\ (Share > 0 => HotTotal - Share >= HotMinimum)
      <4>1. Deposit.amount \in Nat
        BY <2>1, <2>3, WorkerFacts DEF Feeds
      <4>2. /\ ColdShare(HotTotal, Deposit.amount) \in 0..Deposit.amount
            /\ ColdShare(HotTotal, Deposit.amount) > 0 =>
                 HotTotal - ColdShare(HotTotal, Deposit.amount) >= HotMinimum
        BY <2>1, <4>1, ShareKeepsMinimum
      <4> QED
        BY <4>1, <4>2 DEF Share
    <3>2. cold' = cold + Share /\ sent' = sent
      BY <2>3 DEF Feeds
    <3>3. HotTotal = HotOpening + SumOver(Amount, sent) - Returns - cold
      BY DEF HotTotal
    <3> HIDE DEF Kept
    <3>4. CASE Share = 0
      BY <1>3, <2>1, <3>2, <3>4 DEF Kept
    <3>5. CASE Share > 0
      <4>1. HotOpening + SumOver(Amount, sent) - (cold + Share) >= HotMinimum
        BY <2>1, <3>1, <3>3, <3>5
      <4> QED
        BY <3>2, <4>1 DEF Kept
    <3> QED
      BY <3>1, <3>4, <3>5
  <2>4. CASE UNCHANGED <<sent, cold>>
    BY <1>3, <2>4
  <2> QED
    BY <1>3, <2>1, <2>2, <2>3, <2>4, NodeCases DEF Receives, Refunds, NodeRests
<1>4. DepositBase => DepositTypeOK /\ IsFiniteSet(sent)
  BY DEF DepositBase
<1> HIDE DEF Kept
<1>5. DepositBase /\ Kept /\ [DepositNext]_depositVars => Kept'
  BY <1>3
<1>6. DepositBase /\ Kept => HotKeepsMinimum
  BY <1>1, <1>4
<1> QED
  BY <1>2, <1>5, <1>6, DepositBaseInvariance, PTL DEF DepositSpec

-----------------------------------------------------------------------------
(***************************************************************************)
(* One outcome, and one credit.  A job that does something and then fails  *)
(* does it again (deposits_twice shows it with no fault but the default    *)
(* ratio), so that both take that a job that has got so far goes on to its *)
(* end: no step of it fails, no answer is lost, and the ratio is a         *)
(* percentage.  A node that refuses to send, or to receive what is only to *)
(* be received, HTTP reads and claims that come or expire at any moment    *)
(* are all allowed.                                                        *)
(***************************************************************************)
NothingFails ==
  /\ Faults \cap {"lockTimeout", "redisError", "crash"} = {}
  /\ NodeFaults \cap {"notReceived", "lostReply", "cold"} = {}
  /\ KeptPercent # Fractional

\* The deposit has been sent back, or its store was started; and its share was sent on.
Late(d) ==
  job[d].state = "completed" \/ (Attended(d) /\ worker.at \in {"cold", "report", "reply"})

Finished(d) ==
  job[d].state = "completed" \/ (Attended(d) /\ worker.at \in {"report", "reply"})

\* Nothing is in the books, or on its way there, for the deposit with this hash.
Fresh(h) ==
  /\ \A e \in entries : e.hash # h
  /\ \A c \in Calls : op[c].kind = "deposit" => op[c].hash # h

OwnHash(c) ==
  /\ \A b \in Calls \ {c} : op[b].kind = "deposit" => op[b].hash # op[c].hash
  /\ pc[c] \in Unwritten => \A e \in entries : e.hash # op[c].hash

\* A deposit is untouched until it is late, refunded or credited and not both, and once.
Once ==
  /\ \A d \in Deposits : ~Late(d) => refunds[d] = 0 /\ Fresh(d.hash)
  /\ \A d \in Deposits : refunds[d] = 0 \/ (refunds[d] = 1 /\ Fresh(d.hash))
  /\ \A c \in Calls : op[c].kind = "deposit" => OwnHash(c)

Quiet ==
  /\ \A c \in Calls : pc[c] \notin {"rejected", "dead"}
  /\ \A d \in Deposits : job[d].state = "active" => Attended(d)
  /\ worker.at \in {"claimed", "refund", "contains", "credit", "cold"} => Deposit \in received

\* What left the hot wallet is covered by the deposits it left for.
FinishedOnes == {d \in received : Finished(d)}

Budget == Returns + cold <= SumOver(Amount, FinishedOnes)

OnceInv == CreditInv /\ Once /\ Quiet /\ Budget

\* So the share of a deposit is in the hot wallet when it is sent.
LEMMA Affordable ==
  ASSUME OnceInv, worker.at = "cold"
  PROVE  Share <= HotBalance
<1>1. /\ DepositTypeOK /\ IsFiniteSet(sent) /\ received \in SUBSET Deposits
      /\ Deposit \in received /\ Deposit \in Deposits /\ job[Deposit].state = "active"
  BY WorkerFacts
  DEF OnceInv, CreditInv, DepositBase, DepositTypeOK, JobsLive, Quiet
<1>2. Deposit \notin FinishedOnes /\ FinishedOnes \in SUBSET Deposits /\ FinishedOnes \in SUBSET received
  BY <1>1 DEF FinishedOnes, Finished
<1>3. IsFiniteSet(received) /\ IsFiniteSet(FinishedOnes)
  BY <1>1, <1>2, SumTypes, FS_Subset
<1>4. SumOver(Amount, FinishedOnes \cup {Deposit}) = SumOver(Amount, FinishedOnes) + Amount[Deposit]
  BY <1>1, <1>2, <1>3, AmountTypes, SumAdd
<1>5. FinishedOnes \cup {Deposit} \in SUBSET received
  BY <1>1, <1>2
<1>6. SumOver(Amount, FinishedOnes \cup {Deposit}) <= SumOver(Amount, received)
  BY <1>1, <1>3, <1>5, AmountTypes, SumSubset
<1>7. /\ SumOver(Amount, FinishedOnes) \in Int /\ SumOver(Amount, received) \in Int
      /\ Returns \in Nat /\ cold \in Nat /\ HotOpening \in Nat /\ Amount[Deposit] = Deposit.amount
      /\ Deposit.amount \in Nat /\ Share \in 0..Deposit.amount
  BY <1>1, <1>2, <1>3, AmountTypes, SumInt, SumTypes, DepositFacts, DepositsAssumption DEF Amount, Share
<1> QED
  BY <1>4, <1>6, <1>7 DEF OnceInv, Budget, HotBalance

(***************************************************************************)
(* What a step is to the worker and its job.                               *)
(***************************************************************************)
Over(s) == s \in {"active", "completed"}

Rests ==
  /\ UNCHANGED worker
  /\ \A d \in Deposits : job'[d].state = job[d].state \/ ~(Over(job[d].state) \/ Over(job'[d].state))

Starts(d) ==
  /\ worker.at = "idle" /\ job[d].state = "waiting"
  /\ worker' = [at |-> "pending", id |-> d]
  /\ job'[d].state = "active" /\ \A k \in Deposits \ {d} : job'[k] = job[k]

GivesUp ==
  /\ worker.at \in {"confirm", "refund"} /\ worker' = Idle
  /\ ~Over(job'[Deposit].state) /\ \A k \in Deposits \ {Deposit} : job'[k] = job[k]

Concludes ==
  /\ worker.at = "reply" /\ worker' = Idle
  /\ job'[Deposit].state = "completed" /\ \A k \in Deposits \ {Deposit} : job'[k] = job[k]

Goes(from, to) ==
  worker.at = from /\ worker'.at = to /\ worker'.id = worker.id /\ UNCHANGED job

Goes1 == \/ Goes("pending", "confirm") \/ Goes("pending", "receive") \/ Goes("confirm", "claim")
         \/ Goes("claim", "receive")
         \/ Goes("receive", "claimed") /\ Deposit \in received'

Goes2 == \/ Goes("claimed", "contains") \/ Goes("claimed", "refund") \/ Goes("contains", "credit")

Goes3 == \/ Goes("contains", "cold") \/ Goes("credit", "cold")
         \/ Goes("refund", "report") \/ Goes("cold", "report") \/ Goes("report", "reply")

Moves == Rests \/ (\E d \in Deposits : Starts(d)) \/ GivesUp \/ Concludes \/ Goes1 \/ Goes2 \/ Goes3

LEMMA GoesFacts ==
  ASSUME DepositTypeOK, worker.at # "idle", NEW p, GoesTo(p), UNCHANGED job
  PROVE  Goes(worker.at, p)
  BY DEF GoesTo, Goes, Deposit

LEMMA FailsFacts ==
  ASSUME DepositBase, worker.at \in {"confirm", "refund"}, JobFails
  PROVE  GivesUp
<1>1. Deposit \in Deposits /\ JobTypeOK
  BY WorkerFacts DEF DepositBase, DepositTypeOK
<1>2. job[Deposit].tries < MaxAttempts /\ job[Deposit].stalls <= MaxStalled
  BY <1>1, WorkerFacts DEF DepositBase, JobsLive
<1> QED
  BY <1>1, <1>2, FailedRecord DEF JobFails, GivesUp, Over

LEMMA MoveCases ==
  ASSUME NothingFails, OnceInv, [DepositNext]_depositVars
  PROVE  Moves
<1>0. /\ DepositBase /\ DepositTypeOK /\ JobsLive
      /\ job \in [Deposits -> Records]
  BY DEF OnceInv, CreditInv, DepositBase, DepositTypeOK, JobTypeOK, Records
<1>1. ASSUME NEW d \in Deposits, Add(d, "waiting"), UNCHANGED worker PROVE Rests
  BY <1>0, <1>1 DEF Add, NoJob, Rests, Over, Records
<1>2. CASE UNCHANGED <<job, worker>>
  BY <1>2 DEF Rests, Moves
<1>3. CASE WorkerStep
  <2>1. ASSUME NEW d \in Deposits, Start(d) PROVE Starts(d)
    BY <1>0, <2>1 DEF Start, Take, Move, Starts, Records
  <2>2. CASE AskPendingClaim \/ SetClaim
    BY <1>0, <2>2, GoesFacts DEF AskPendingClaim, SetClaim, NothingFails, RedisFails, Moves, Goes1
  <2>3. CASE ListClaims
    <3>1. CASE JobFails
      BY <1>0, <2>3, <3>1, FailsFacts DEF ListClaims, Moves
    <3>2. CASE ~JobFails
      BY <1>0, <2>3, <3>2 DEF ListClaims, Moves, Goes1, Goes, Deposit
    <3> QED
      BY <3>1, <3>2
  <2>4. CASE Receive
    BY <1>0, <2>4, GoesFacts DEF Receive, NothingFails, Moves, Goes1
  <2>5. CASE Sort
    BY <1>0, <2>5, GoesFacts DEF Sort, NothingFails, RedisFails, Moves, Goes2
  <2>6. CASE AskContains
    BY <1>0, <2>6, GoesFacts DEF AskContains, NothingFails, RedisFails, Moves, Goes2, Goes3
  <2>7. CASE Refund \/ Credit \/ FeedColdWallet \/ Report
    BY <1>0, <2>7, GoesFacts DEF Refund, Credit, FeedColdWallet, Report, Moves, Goes3
  <2>8. CASE Reply
    <3>1. Complete(Deposit) /\ worker' = Idle /\ worker.at = "reply"
      BY <2>8, CallFacts DEF Reply, OnceInv, Quiet
    <3>2. Deposit \in Deposits
      BY <1>0, <3>1, WorkerFacts
    <3> QED
      BY <1>0, <3>1, <3>2 DEF Complete, Move, Concludes, Moves, Records
  <2> QED
    BY <1>3, <2>1, <2>2, <2>3, <2>4, <2>5, <2>6, <2>7, <2>8 DEF WorkerStep, Moves
<1>4. CASE RefundFails
  BY <1>0, <1>4, FailsFacts DEF RefundFails, Moves
<1>5. ~ColdWalletFails
  <2> SUFFICES ASSUME ColdWalletFails PROVE FALSE
    OBVIOUS
  <2>1. Share \in Int /\ HotBalance \in Int
    BY <1>0, SumTypes, WorkerFacts DEF ColdWalletFails, Share, DepositBase
  <2>2. Share <= HotBalance
    BY Affordable DEF ColdWalletFails
  <2>3. Share > HotBalance
    BY DEF ColdWalletFails, NothingFails, RatioThrows
  <2> QED
    BY <2>1, <2>2, <2>3
<1>6. ASSUME NEW d \in Deposits,
             \/ Pay(d) \/ Notify(d) \/ NotifyOwn(d)
             \/ QueueMissed(d) \/ ReceiveDust(d) \/ SkipNineDigits(d)
      PROVE  Rests \/ UNCHANGED <<job, worker>>
  BY <1>1, <1>6 DEF Pay, Notify, NotifyOwn, QueueMissed, ReceiveDust, SkipNineDigits, NodeVars
<1>7. CASE PromoteJob
  BY <1>0, <1>7 DEF PromoteJob, Promote, Move, Background, Rests, Over, Moves, Records
<1>8. ~StallJob
  BY DEF StallJob, Stall, OnceInv, Quiet
<1>9. ~Restart
  BY DEF Restart, Crash, NothingFails
<1>10. CASE ListPending \/ StorageStep \/ ReadOverHttp \/ ClaimOverHttp
  BY <1>2, <1>10 DEF ListPending, StorageStep, ReadOverHttp, ClaimOverHttp, Background, NodeVars
<1>11. CASE UNCHANGED depositVars
  BY <1>2, <1>11 DEF depositVars
<1> QED
  BY <1>2, <1>3, <1>4, <1>5, <1>6, <1>7, <1>8, <1>9, <1>10, <1>11 DEF DepositNext, DepositStep, Moves

\* What is late stays late, and what is finished stays finished.
LEMMA LateGrows ==
  ASSUME NothingFails, OnceInv, [DepositNext]_depositVars, NEW d \in Deposits
  PROVE  /\ Late(d) => Late(d)'
         /\ Finished(d) => Finished(d)'
<1>0. Moves /\ (worker.at # "idle" => Deposit \in Deposits /\ job[Deposit].state = "active")
  BY MoveCases, WorkerFacts DEF OnceInv, CreditInv, DepositBase, DepositTypeOK, JobsLive
<1> USE DEF Late, Finished, Attended, Over
<1>1. CASE Rests
  BY <1>1 DEF Rests
<1>2. ASSUME NEW k \in Deposits, Starts(k) PROVE (Late(d) => Late(d)') /\ (Finished(d) => Finished(d)')
  BY <1>2 DEF Starts
<1>3. CASE GivesUp \/ Concludes
  BY <1>0, <1>3 DEF GivesUp, Concludes, Deposit
<1>4. CASE Goes1 \/ Goes2 \/ Goes3
  BY <1>0, <1>4 DEF Goes1, Goes2, Goes3, Goes, Deposit
<1> QED
  BY <1>0, <1>1, <1>2, <1>3, <1>4 DEF Moves

LEMMA CallsSettleWell ==
  ASSUME NothingFails, OnceInv, [DepositNext]_depositVars
  PROVE  \A c \in Calls : pc'[c] \notin {"rejected", "dead"}
<1>0. StorageTypeOK /\ DepositTypeOK /\ \A c \in Calls : pc[c] \notin {"rejected", "dead"}
  BY DEF OnceInv, CreditInv, DepositBase, DepositTypeOK, Quiet
<1>1. CASE UNCHANGED storageVars
  BY <1>0, <1>1 DEF storageVars
<1>2. ASSUME NEW c \in Calls, NEW o \in Ops, Invoke(c, o)
      PROVE  \A b \in Calls : pc'[b] \notin {"rejected", "dead"}
  BY <1>0, <1>2 DEF Invoke, TryLock, TrySwapLock, Goto, Entered, StorageTypeOK
<1>3. ASSUME NEW c \in Calls, CallStep(c)
      PROVE  \A b \in Calls : pc'[b] \notin {"rejected", "dead"}
  BY <1>0, <1>3
  DEF CallStep, Acquire, AcquireSwap, LockError, SwapLockError, Recheck, Get, Exec, Unlock, UnlockSwap,
      PassUnlock, TryLock, TrySwapLock, Goto, Settle, Entered, AfterExec, StorageTypeOK, RetriesRunOut, RedisFails,
      NothingFails
<1>4. CASE LeaseStep
  BY <1>0, <1>4 DEF LeaseStep, Expire, ExpireSwap, callVars
<1>5. \A c \in Calls : ~RedisError(c)
  BY DEF RedisError, RedisFails, NothingFails
<1>6. ~Crash
  BY DEF Crash, NothingFails
<1> QED
  BY <1>0, <1>1, <1>2, <1>3, <1>4, <1>5, <1>6, StorageOfStep DEF StorageNext

LEMMA QuietStep ==
  ASSUME NothingFails, OnceInv, [DepositNext]_depositVars
  PROVE  Quiet'
<1>0. /\ Moves /\ (worker.at # "idle" => Deposit \in Deposits)
      /\ received \subseteq received'
      /\ \A d \in Deposits : job[d].state = "active" => Attended(d)
      /\ worker.at \in {"claimed", "refund", "contains", "credit", "cold"} => Deposit \in received
  BY MoveCases, WorkerFacts, NodeStep DEF OnceInv, CreditInv, DepositBase, Quiet
<1> DEFINE OneActive == \A d \in Deposits : job[d].state = "active" => Attended(d)
           Got == worker.at \in {"claimed", "refund", "contains", "credit", "cold"} => Deposit \in received
<1> USE DEF Attended, Over, Deposit
<1>1. ASSUME Rests PROVE OneActive' /\ Got'
  BY <1>0, <1>1 DEF Rests
<1>2. ASSUME NEW k \in Deposits, Starts(k) PROVE OneActive' /\ Got'
  BY <1>0, <1>2 DEF Starts
<1>3. ASSUME GivesUp \/ Concludes PROVE OneActive' /\ Got'
  BY <1>0, <1>3 DEF GivesUp, Concludes, Idle
<1>4. ASSUME Goes1 \/ Goes2 \/ Goes3 PROVE OneActive' /\ Got'
  BY <1>0, <1>4 DEF Goes1, Goes2, Goes3, Goes
<1>5. OneActive' /\ Got'
  BY <1>0, <1>1, <1>2, <1>3, <1>4 DEF Moves
<1> QED
  BY <1>5, CallsSettleWell DEF Quiet

(***************************************************************************)
(* The books of a deposit change only when its store is started.           *)
(***************************************************************************)
LEMMA FreshStep ==
  ASSUME OnceInv, [DepositNext]_depositVars, NEW h, Fresh(h), Credit => Deposit.hash # h
  PROVE  Fresh(h)'
<1>0. StorageTypeOK /\ DepositTypeOK
  BY DEF OnceInv, CreditInv, DepositBase, DepositTypeOK
<1>1. CASE UNCHANGED storageVars
  BY <1>1 DEF storageVars, Fresh
<1>2. ASSUME NEW c \in Calls, NEW w \in Wallets, Invoke(c, ReadOp(w)) PROVE Fresh(h)'
  BY <1>0, <1>2, InvokeFrame, DepositOpsAssumption DEF Fresh, ReadOp, dataVars
<1>3. CASE Credit
  <2>1. PICK c \in Calls : Invoke(c, CreditOp(Deposit))
    BY <1>3, CallFacts DEF Credit
  <2>2. CreditOp(Deposit) \in Ops /\ CreditOp(Deposit).hash = Deposit.hash
    BY <1>0, <1>3, WorkerFacts DEF Credit, CreditOp
  <2> QED
    BY <1>0, <1>3, <2>1, <2>2, InvokeFrame DEF Fresh, dataVars
<1>4. CASE InternalStep
  <2>1. /\ \A c \in Calls : op'[c] = op[c] \/ op'[c] = NoOp
        /\ UNCHANGED dataVars \/ \E c \in Calls : Exec(c)
    BY <1>0, <1>4, InternalFrame
  <2>2. \A c \in Calls : op'[c].kind = "deposit" => op'[c].hash # h
    BY <2>1 DEF Fresh, NoOp
  <2>3. ASSUME NEW c \in Calls, Exec(c) PROVE \A e \in entries' : e.hash # h
    <3>1. op[c].kind = "deposit" /\ entries' = entries \cup {Entry(op[c])} /\ Entry(op[c]).hash = op[c].hash
      BY <2>3, ExecCredits DEF OnceInv, Exec, Entry
    <3> QED
      BY <3>1 DEF Fresh
  <2> QED
    BY <2>1, <2>2, <2>3 DEF Fresh, dataVars
<1>5. CASE Report
  BY <1>0, <1>2, <1>5, CallFacts, WorkerFacts DEF Report
<1> QED
  BY <1>0, <1>1, <1>2, <1>3, <1>4, <1>5, StepCases, CallFacts

LEMMA OwnHashStep ==
  ASSUME OnceInv, [DepositNext]_depositVars
  PROVE  \A c \in Calls : op'[c].kind = "deposit" => OwnHash(c)'
<1> DEFINE Goal == \A c \in Calls : op[c].kind = "deposit" => OwnHash(c)
<1>0. BaseInv /\ StorageTypeOK /\ DepositTypeOK /\ Goal
  BY DEF OnceInv, CreditInv, DepositBase, DepositTypeOK, Once
<1>1. CASE UNCHANGED storageVars
  BY <1>0, <1>1 DEF storageVars, OwnHash
<1>2. ASSUME NEW c \in Calls, NEW w \in Wallets, Invoke(c, ReadOp(w)) PROVE Goal'
  <2>1. UNCHANGED entries /\ op'[c].kind = "read" /\ \A b \in Calls \ {c} : op'[b] = op[b] /\ pc'[b] = pc[b]
    BY <1>0, <1>2, InvokeFrame, DepositOpsAssumption DEF ReadOp, dataVars
  <2> QED
    BY <1>0, <2>1 DEF OwnHash
<1>3. CASE Credit
  <2>1. PICK c \in Calls : Invoke(c, CreditOp(Deposit))
    BY <1>3, CallFacts DEF Credit
  <2>2. CreditOp(Deposit) \in Ops /\ CreditOp(Deposit).hash = Deposit.hash /\ Deposit \in Deposits
    BY <1>0, <1>3, WorkerFacts DEF Credit, CreditOp
  <2>3. ~Late(Deposit)
    BY <1>3 DEF Credit, Late, OnceInv, CreditInv, DepositBase, JobsLive, Deposit
  <2>4. Fresh(Deposit.hash)
    BY <2>2, <2>3 DEF OnceInv, Once
  <2>5. /\ UNCHANGED entries /\ op'[c].hash = Deposit.hash
        /\ \A b \in Calls \ {c} : op'[b] = op[b] /\ pc'[b] = pc[b]
    BY <1>0, <2>1, <2>2, InvokeFrame DEF dataVars
  <2> QED
    BY <1>0, <2>4, <2>5 DEF OwnHash, Fresh
<1>4. CASE InternalStep
  <2>1. /\ \A c \in Calls : op'[c] = op[c] \/ op'[c] = NoOp
        /\ UNCHANGED dataVars \/ \E c \in Calls : Exec(c)
    BY <1>0, <1>4, InternalFrame
  <2>2. \A c \in Calls : op'[c].kind = "deposit" => op'[c] = op[c] /\ op[c].kind = "deposit"
    BY <2>1 DEF NoOp
  <2>3. \A c \in Calls : op[c].kind = "deposit" /\ pc'[c] \in Unwritten => pc[c] \in Unwritten /\ ~Exec(c)
    BY <1>0, <1>4, UnwrittenFrame
  <2>4. CASE UNCHANGED entries
    BY <1>0, <2>2, <2>3, <2>4 DEF OwnHash
  <2>5. ASSUME NEW c \in Calls, Exec(c) PROVE Goal'
    <3>1. /\ entries' = entries \cup {Entry(op[c])} /\ op[c].kind = "deposit"
          /\ Entry(op[c]).hash = op[c].hash
      BY <2>5, ExecCredits DEF OnceInv, Exec, Entry
    <3>2. \A b \in Calls : op'[b].kind = "deposit" /\ pc'[b] \in Unwritten => b # c /\ op[b].hash # op[c].hash
      BY <1>0, <2>2, <2>3, <2>5, <3>1 DEF OwnHash
    <3> QED
      BY <1>0, <2>2, <2>3, <3>1, <3>2 DEF OwnHash
  <2> QED
    BY <2>1, <2>4, <2>5 DEF dataVars
<1>5. CASE Report
  BY <1>0, <1>2, <1>5, CallFacts, WorkerFacts DEF Report
<1> QED
  BY <1>0, <1>1, <1>2, <1>3, <1>4, <1>5, StepCases, CallFacts

\* A deposit that is sent back was untouched, and is late and finished afterwards.
LEMMA RefundFacts ==
  ASSUME NothingFails, OnceInv, Refunds
  PROVE  /\ Deposit \in Deposits \cap received /\ Refund /\ UNCHANGED storageVars
         /\ ~Late(Deposit) /\ ~Finished(Deposit) /\ refunds[Deposit] = 0 /\ Fresh(Deposit.hash)
         /\ Late(Deposit)' /\ Finished(Deposit)'
         /\ refunds' = [refunds EXCEPT ![Deposit] = 1]
<1>1. Deposit \in Deposits /\ worker.at = "refund" /\ Deposit \in received /\ job[Deposit].state = "active"
  BY WorkerFacts DEF Refunds, OnceInv, CreditInv, DepositBase, JobsLive, Quiet, Deposit
<1>2. Refund
  BY DEF Refunds, NothingFails
<1>3. ~Late(Deposit) /\ ~Finished(Deposit)
  BY <1>1 DEF Late, Finished, Deposit
<1>4. refunds[Deposit] = 0 /\ Fresh(Deposit.hash)
  BY <1>1, <1>3 DEF OnceInv, Once
<1>5. worker'.at = "report" /\ worker'.id = Deposit
  BY <1>2 DEF Refund, GoesTo, Deposit
<1>6. Late(Deposit)' /\ Finished(Deposit)'
  BY <1>5 DEF Late, Finished, Attended, Deposit
<1>7. refunds' = [refunds EXCEPT ![Deposit] = 1]
  BY <1>4 DEF Refunds, Returned
<1> QED
  BY <1>1, <1>2, <1>3, <1>4, <1>6, <1>7 DEF Refund

LEMMA OnceStep ==
  ASSUME NothingFails, OnceInv, [DepositNext]_depositVars
  PROVE  Once'
<1>0. /\ DepositBase /\ DepositTypeOK /\ JobsLive /\ refunds \in [Deposits -> Nat]
      /\ \A d \in Deposits : ~Late(d) => refunds[d] = 0 /\ Fresh(d.hash)
      /\ \A d \in Deposits : refunds[d] = 0 \/ (refunds[d] = 1 /\ Fresh(d.hash))
      /\ \A d \in Deposits : Late(d) => Late(d)'
  BY LateGrows DEF OnceInv, CreditInv, DepositBase, DepositTypeOK, Once
<1>1. Credit => Deposit \in Deposits /\ ~Late(Deposit) /\ Late(Deposit)'
  <2> SUFFICES ASSUME Credit PROVE Deposit \in Deposits /\ ~Late(Deposit) /\ Late(Deposit)'
    OBVIOUS
  <2>1. Deposit \in Deposits /\ worker.at = "credit" /\ job[Deposit].state = "active"
    BY <1>0, WorkerFacts DEF Credit, JobsLive, Deposit
  <2>2. worker'.at = "cold" /\ worker'.id = Deposit
    BY DEF Credit, GoesTo, Deposit
  <2> QED
    BY <2>1, <2>2 DEF Late, Attended, Deposit
<1>2. \A d \in Deposits : Credit /\ Deposit.hash = d.hash => d = Deposit
  BY <1>1, DepositsAssumption
<1>3. ASSUME NEW d \in Deposits, Fresh(d.hash), ~(Credit /\ d = Deposit) PROVE Fresh(d.hash)'
  BY <1>2, <1>3, FreshStep
<1>4. CASE Refunds
  <2>1. UNCHANGED storageVars /\ Deposit \in Deposits /\ Fresh(Deposit.hash) /\ Late(Deposit)'
        /\ refunds' = [refunds EXCEPT ![Deposit] = 1]
    BY <1>4, RefundFacts
  <2>2. \A h : Fresh(h) => Fresh(h)'
    BY <2>1 DEF Fresh, storageVars
  <2>3. \A d \in Deposits \ {Deposit} : refunds'[d] = refunds[d]
    BY <1>0, <2>1
  <2>4. refunds'[Deposit] = 1
    BY <1>0, <2>1
  <2>5. \A d \in Deposits : ~Late(d)' => refunds'[d] = 0 /\ Fresh(d.hash)'
    <3> SUFFICES ASSUME NEW d \in Deposits, ~Late(d)' PROVE refunds'[d] = 0 /\ Fresh(d.hash)'
      OBVIOUS
    <3>1. d # Deposit
      <4>1. worker'.id = worker.id /\ worker'.at = "report"
        BY <1>4, RefundFacts DEF Refund, GoesTo, Deposit
      <4> QED
        BY <4>1 DEF Late, Attended, Deposit
    <3>2. ~Late(d)
      BY <1>0
    <3>3. refunds[d] = 0 /\ Fresh(d.hash)
      BY <1>0, <3>2
    <3> QED
      BY <2>2, <2>3, <3>1, <3>3
  <2>6. \A d \in Deposits : refunds'[d] = 0 \/ (refunds'[d] = 1 /\ Fresh(d.hash)')
    BY <1>0, <2>1, <2>2, <2>3, <2>4
  <2> QED
    BY <2>5, <2>6, OwnHashStep DEF Once
<1>5. CASE UNCHANGED refunds
  <2>1. ASSUME NEW d \in Deposits, ~Late(d)' PROVE refunds'[d] = 0 /\ Fresh(d.hash)'
    <3>1. ~Late(d)
      BY <1>0, <2>1
    <3>2. refunds[d] = 0 /\ Fresh(d.hash)
      BY <1>0, <3>1
    <3>3. ~(Credit /\ d = Deposit)
      <4>1. Credit => worker.id \in Deposits /\ worker'.id = worker.id /\ worker'.at = "cold"
        BY <1>1 DEF Credit, GoesTo, Deposit
      <4> QED
        BY <2>1, <4>1 DEF Late, Attended, Deposit
    <3> QED
      BY <1>3, <1>5, <3>2, <3>3
  <2>2. ASSUME NEW d \in Deposits, refunds'[d] # 0 PROVE refunds'[d] = 1 /\ Fresh(d.hash)'
    BY <1>0, <1>1, <1>3, <1>5, <2>2
  <2> QED
    BY <2>1, <2>2, OwnHashStep DEF Once
<1> QED
  BY <1>0, <1>4, <1>5, NodeCases DEF Pays, Receives, Feeds, NodeRests

LEMMA BudgetStep ==
  ASSUME NothingFails, OnceInv, [DepositNext]_depositVars
  PROVE  Budget'
<1>0. /\ DepositBase /\ DepositTypeOK /\ JobsLive /\ IsFiniteSet(sent) /\ IsFiniteSet(received)
      /\ sent \in SUBSET Deposits /\ received \in SUBSET Deposits
      /\ refunds \in [Deposits -> Nat] /\ refunds' \in [Deposits -> Nat]
      /\ sent' \in SUBSET Deposits /\ IsFiniteSet(sent') /\ received \subseteq received'
      /\ received' \subseteq sent' /\ Returns \in Nat /\ cold \in Nat
  BY NodeStep, SumTypes DEF OnceInv, CreditInv, DepositBase, DepositTypeOK
<1>1. /\ Amount \in [Deposits -> Nat] /\ Amount \in [Deposits -> Int] /\ Amount' = Amount
      /\ SentBack \in [Deposits -> Nat] /\ SentBack \in [Deposits -> Int]
  BY <1>0, AmountTypes DEF Amount
<1>2. SentBack' \in [Deposits -> Int] /\ \A d \in Deposits : SentBack'[d] = refunds'[d] * d.amount
  <2>1. ASSUME NEW d \in Deposits PROVE refunds'[d] * d.amount \in Int
    <3>1. refunds'[d] \in Nat /\ d.amount \in Nat
      BY <1>0, DepositFacts
    <3> QED
      BY <3>1
  <2> QED
    BY <2>1 DEF SentBack
<1> DEFINE Old == FinishedOnes
           New == FinishedOnes'
<1>3. /\ Old \in SUBSET New /\ New \in SUBSET Deposits /\ IsFiniteSet(New)
      /\ Old \in SUBSET Deposits /\ IsFiniteSet(Old)
  <2>1. Old \subseteq New
    BY <1>0, LateGrows DEF FinishedOnes
  <2>2. New \in SUBSET sent' /\ Old \in SUBSET received
    BY <1>0 DEF FinishedOnes
  <2> QED
    BY <1>0, <2>1, <2>2, FS_Subset
<1>4. Returns + cold <= SumOver(Amount, Old) /\ Returns' = SumOver(SentBack', sent')
  BY DEF OnceInv, Budget, Returns
<1>5. ASSUME Returns' + cold' <= SumOver(Amount, New) PROVE Budget'
  BY <1>1, <1>5 DEF Budget
<1>6. ASSUME Deposit \in Deposits, Deposit \notin Old, Deposit \in received',
             Finished(Deposit)', worker'.id = worker.id
      PROVE  SumOver(Amount, Old) + Deposit.amount <= SumOver(Amount, New)
  <2>1. Deposit \in New
    BY <1>6 DEF FinishedOnes, Deposit, Finished, Attended
  <2> HIDE DEF Old, New
  <2>2. SumOver(Amount, Old \cup {Deposit}) = SumOver(Amount, Old) + Amount[Deposit]
    BY <1>1, <1>3, <1>6, SumAdd
  <2>3. Old \cup {Deposit} \in SUBSET New
    BY <1>3, <2>1
  <2>4. SumOver(Amount, Old \cup {Deposit}) <= SumOver(Amount, New)
    BY <1>1, <1>3, <2>3, SumSubset
  <2>5. Amount[Deposit] = Deposit.amount
    BY <1>6 DEF Amount
  <2> QED
    BY <2>2, <2>4, <2>5
<1> HIDE DEF Old, New
<1>7. /\ SumOver(Amount, Old) \in Int /\ SumOver(Amount, New) \in Int
      /\ SumOver(Amount, Old) <= SumOver(Amount, New)
  BY <1>1, <1>3, SumInt, SumSubset
<1>8. ASSUME UNCHANGED <<sent, refunds, cold>> PROVE Budget'
  <2>1. Returns' = Returns
    BY <1>8 DEF Returns, SentBack
  <2> QED
    BY <1>0, <1>4, <1>5, <1>7, <1>8, <2>1
<1>9. ASSUME NEW d \in Deposits, Pays(d) PROVE Budget'
  <2>1. d \in Deposits \ sent /\ sent' = sent \cup {d} /\ refunds' = refunds /\ cold' = cold
    BY <1>9 DEF Pays
  <2>2. ~Late(d)
    BY <1>0, <2>1 DEF JobsLive, Late, Attended
  <2>3. refunds[d] = 0 /\ d.amount \in Nat
    BY <2>2, DepositFacts DEF OnceInv, Once
  <2>4. SentBack[d] = 0 /\ SentBack' = SentBack
    BY <2>1, <2>3 DEF SentBack
  <2>5. SumOver(SentBack, sent \cup {d}) = SumOver(SentBack, sent) + SentBack[d]
    BY <1>0, <1>1, <2>1, SumAdd
  <2>6. Returns' = Returns
    BY <1>0, <2>1, <2>4, <2>5 DEF Returns
  <2> QED
    BY <1>0, <1>4, <1>5, <1>7, <2>1, <2>6
<1>10. CASE Refunds
  <2>1. /\ Deposit \in Deposits /\ Deposit \in received /\ Refund
        /\ ~Finished(Deposit) /\ Finished(Deposit)' /\ refunds[Deposit] = 0
        /\ refunds' = [refunds EXCEPT ![Deposit] = 1]
    BY <1>10, RefundFacts
  <2>2. worker'.id = worker.id /\ sent' = sent /\ cold' = cold /\ Deposit \in received' /\ Deposit \in sent
    BY <1>0, <2>1 DEF Refund, GoesTo, Deposit, Elsewhere, DepositTypeOK
  <2>3. Deposit \notin Old
    BY <2>1 DEF Old, FinishedOnes
  <2>4. SumOver(Amount, Old) + Deposit.amount <= SumOver(Amount, New)
    BY <1>6, <2>1, <2>2, <2>3
  <2> DEFINE Others == sent \ {Deposit}
  <2>5. Deposit.amount \in Nat
    BY <2>1, DepositFacts
  <2>6. SentBack[Deposit] = 0 /\ SentBack'[Deposit] = Deposit.amount
    <3>1. refunds'[Deposit] = 1 /\ SentBack'[Deposit] = refunds'[Deposit] * Deposit.amount
      BY <1>0, <1>2, <2>1
    <3>2. SentBack[Deposit] = refunds[Deposit] * Deposit.amount
      BY <2>1 DEF SentBack
    <3> QED
      BY <2>1, <2>5, <3>1, <3>2
  <2>7. \A d \in Others : SentBack[d] = SentBack'[d]
    <3> SUFFICES ASSUME NEW d \in Others PROVE SentBack[d] = SentBack'[d]
      OBVIOUS
    <3>1. d \in Deposits /\ refunds'[d] = refunds[d]
      BY <1>0, <2>1
    <3> QED
      BY <1>2, <3>1 DEF SentBack
  <2>8. Others \in SUBSET Deposits /\ IsFiniteSet(Others)
    BY <1>0, FS_Subset
  <2> HIDE DEF Others
  <2>9. SumOver(SentBack, Others) = SumOver(SentBack', Others) /\ SumOver(SentBack, Others) \in Int
    BY <1>1, <1>2, <2>7, <2>8, SumSame, SumInt
  <2>10. SumOver(SentBack, sent) = SumOver(SentBack, Others) + SentBack[Deposit]
    BY <1>0, <1>1, <2>2, SumRemove DEF Others
  <2>11. SumOver(SentBack', sent) = SumOver(SentBack', Others) + SentBack'[Deposit]
    BY <1>0, <1>2, <2>2, SumRemove DEF Others
  <2>12. Returns' = Returns + Deposit.amount
    BY <1>4, <2>2, <2>5, <2>6, <2>9, <2>10, <2>11 DEF Returns
  <2> QED
    BY <1>0, <1>4, <1>5, <1>7, <2>2, <2>4, <2>5, <2>12
<1>11. CASE Feeds
  <2>1. FeedColdWallet /\ cold' = cold + Share /\ UNCHANGED <<sent, received, refunds>>
    BY <1>11 DEF Feeds, NothingFails
  <2>2. /\ worker.at = "cold" /\ worker'.at = "report" /\ worker'.id = worker.id /\ Deposit' = Deposit
    BY <2>1 DEF FeedColdWallet, GoesTo, Deposit
  <2>3. /\ Deposit \in Deposits /\ Deposit \in received /\ job[Deposit].state = "active"
        /\ Share \in 0..Deposit.amount /\ Deposit.amount \in Nat
    BY <1>0, <2>2, WorkerFacts, SumTypes DEF OnceInv, Quiet, JobsLive, Share, Deposit
  <2>4. Finished(Deposit)' /\ Deposit \notin Old
    BY <2>2, <2>3 DEF Finished, Attended, Old, FinishedOnes, Deposit
  <2>5. SumOver(Amount, Old) + Deposit.amount <= SumOver(Amount, New)
    BY <1>0, <1>6, <2>2, <2>3, <2>4
  <2>6. Returns' = Returns
    BY <2>1 DEF Returns, SentBack
  <2> QED
    BY <1>0, <1>4, <1>5, <1>7, <2>1, <2>3, <2>5, <2>6
<1> QED
  BY <1>0, <1>8, <1>9, <1>10, <1>11, NodeCases DEF Receives, NodeRests

LEMMA OnceInvariance == NothingFails => (DepositSpec => []OnceInv)
<1> SUFFICES ASSUME NothingFails PROVE DepositSpec => []OnceInv
  OBVIOUS
<1>1. DepositInit => OnceInv
  <2> SUFFICES ASSUME DepositInit PROVE OnceInv
    OBVIOUS
  <2>1. CreditInv
    BY BaseOfInit DEF DepositInit, StorageInit, CreditInv, CreditHeld, CreditsAreClaimed, NoOp, Idle
  <2>2. Once /\ Quiet
    BY DEF DepositInit, StorageInit, QueueInit, NoJob, NoOp, Idle, Once, Quiet, Fresh, OwnHash
  <2>3. FinishedOnes = {} /\ sent = {} /\ cold = 0
    BY DEF DepositInit, FinishedOnes
  <2>4. Returns = 0 /\ SumOver(Amount, {}) = 0
    BY <2>1, <2>3, AmountTypes, SumEmpty DEF Returns, CreditInv, DepositBase
  <2> QED
    BY <2>1, <2>2, <2>3, <2>4 DEF OnceInv, Budget
<1>2. OnceInv /\ [DepositNext]_depositVars => OnceInv'
  BY BaseOfStep, CreditHeldStep, CreditsStep, OnceStep, QuietStep, BudgetStep DEF OnceInv, CreditInv
<1> QED
  BY <1>1, <1>2, PTL DEF DepositSpec

(***************************************************************************)
(* Where nothing fails, a deposit is credited or sent back, not both, and  *)
(* once, however often it is announced, listed or queued.                  *)
(***************************************************************************)
THEOREM OneOutcomeOnly == NothingFails => (DepositSpec => []OneOutcome)
<1> SUFFICES ASSUME NothingFails PROVE DepositSpec => []OneOutcome
  OBVIOUS
<1>1. ASSUME OnceInv PROVE OneOutcome
  <2>1. ASSUME NEW d \in Deposits PROVE refunds[d] + (IF Credited(d) THEN 1 ELSE 0) <= 1
    <3>1. refunds[d] = 0 \/ (refunds[d] = 1 /\ Fresh(d.hash))
      BY <1>1 DEF OnceInv, Once
    <3>2. Fresh(d.hash) => ~Credited(d)
      BY DEF Fresh, Credited, Entry, CreditOp
    <3> QED
      BY <3>1, <3>2
  <2> QED
    BY <2>1 DEF OneOutcome
<1> QED
  BY <1>1, OnceInvariance, PTL

-----------------------------------------------------------------------------
(***************************************************************************)
(* The books.                                                              *)
(***************************************************************************)
LEMMA CreditedFinite ==
  ASSUME OnceInv
  PROVE  \A w : /\ CreditedOf(w) \in SUBSET Deposits /\ IsFiniteSet(CreditedOf(w))
                /\ SumOver(Amount, CreditedOf(w)) \in Int
<1>1. DepositTypeOK /\ IsFiniteSet(sent)
  BY DEF OnceInv, CreditInv, DepositBase
<1>2. ASSUME NEW d \in Deposits, Credited(d) PROVE d \in sent
  <2>1. PICK e \in sent : Entry(CreditOp(d)) = Entry(CreditOp(e))
    BY <1>2 DEF Credited, OnceInv, CreditInv, CreditsAreClaimed
  <2>2. e.hash = d.hash
    BY <2>1 DEF Entry, CreditOp
  <2>3. e \in Deposits
    BY <1>1 DEF DepositTypeOK
  <2> QED
    BY <2>2, <2>3, DepositsAssumption
<1>3. ASSUME NEW w PROVE CreditedOf(w) \in SUBSET Deposits /\ IsFiniteSet(CreditedOf(w))
  <2>1. CreditedOf(w) \in SUBSET Deposits /\ CreditedOf(w) \in SUBSET sent
    BY <1>2 DEF CreditedOf
  <2> QED
    BY <1>1, <2>1, FS_Subset
<1> QED
  BY <1>1, <1>3, AmountTypes, SumInt

LEMMA ExecCredited ==
  ASSUME OnceInv, NEW c \in Calls, Exec(c), NEW d \in Deposits, op[c] = CreditOp(d)
  PROVE  \A w \in Wallets :
           SumOver(Amount, CreditedOf(w)') =
             SumOver(Amount, CreditedOf(w)) + (IF w = d.wallet THEN d.amount ELSE 0)
<1>1. /\ entries' = entries \cup {Entry(CreditOp(d))} /\ op[c].kind = "deposit" /\ op[c].hash = d.hash
      /\ pc[c] \in Unwritten
  BY DEF Exec, CreditOp, Unwritten
<1>2. ~Credited(d)
  <2>1. \A e \in entries : e.hash # d.hash
    BY <1>1 DEF OnceInv, Once, OwnHash
  <2> QED
    BY <2>1 DEF Credited, Entry, CreditOp
<1>3. \A e \in Deposits : Credited(e)' <=> Credited(e) \/ e = d
  <2>1. \A e \in Deposits : Entry(CreditOp(e)) = Entry(CreditOp(d)) => e.hash = d.hash
    BY DEF Entry, CreditOp
  <2>2. \A e \in Deposits : Entry(CreditOp(e)) = Entry(CreditOp(d)) => e = d
    BY <2>1, DepositsAssumption
  <2> QED
    BY <1>1, <2>2 DEF Credited
<1>4. DepositTypeOK
  BY DEF OnceInv, CreditInv, DepositBase
<1>5. ASSUME NEW w \in Wallets
      PROVE  SumOver(Amount, CreditedOf(w)') =
               SumOver(Amount, CreditedOf(w)) + (IF w = d.wallet THEN d.amount ELSE 0)
  <2>1. CASE w = d.wallet
    <3>1. CreditedOf(w)' = CreditedOf(w) \cup {d} /\ d \notin CreditedOf(w)
      BY <1>2, <1>3, <2>1 DEF CreditedOf
    <3>2. SumOver(Amount, CreditedOf(w) \cup {d}) = SumOver(Amount, CreditedOf(w)) + Amount[d]
      BY <1>4, <3>1, AmountTypes, CreditedFinite, SumAdd
    <3>3. Amount[d] = d.amount
      BY DEF Amount
    <3> QED
      BY <2>1, <3>1, <3>2, <3>3
  <2>2. CASE w # d.wallet
    <3>1. CreditedOf(w)' = CreditedOf(w)
      BY <1>3, <2>2 DEF CreditedOf
    <3>2. SumOver(Amount, CreditedOf(w)) \in Int
      BY CreditedFinite
    <3> QED
      BY <2>2, <3>1, <3>2
  <2> QED
    BY <2>1, <2>2
<1> QED
  BY <1>5

LEMMA CreditedOnceStep ==
  ASSUME OnceInv, AgreedInv, CreditedOnce, [DepositNext]_depositVars
  PROVE  CreditedOnce'
<1>1. [StorageNext]_storageVars /\ StorageTypeOK /\ Amount' = Amount
  BY StorageOfStep DEF OnceInv, CreditInv, DepositBase, DepositTypeOK, Amount
<1>2. CASE UNCHANGED dataVars
  BY <1>1, <1>2 DEF CreditedOnce, CreditedOf, Credited, dataVars
<1>3. ASSUME NEW c \in Calls, Exec(c) PROVE CreditedOnce'
  <2>1. PICK d \in sent : op[c] = CreditOp(d)
    BY <1>3, ExecCredits DEF OnceInv
  <2>2. d \in Deposits /\ d.wallet \in Wallets /\ d.amount \in Nat
    BY <2>1, DepositFacts DEF OnceInv, CreditInv, DepositBase, DepositTypeOK
  <2>3. op[c].wallet = d.wallet /\ Delta(op[c]) = d.amount
    BY <2>1 DEF Delta, CreditOp
  <2>4. read[c] = balance[op[c].wallet]
    BY <1>3 DEF AgreedInv, Currency, ReadIsCurrent, Exec
  <2>5. balance' = [balance EXCEPT ![d.wallet] = balance[d.wallet] + d.amount]
    BY <1>1, <1>3, <2>3, <2>4 DEF Exec, StorageTypeOK
  <2>6. ASSUME NEW w \in Wallets PROVE balance'[w] = Opening[w] + SumOver(Amount, CreditedOf(w)')
    <3>1. /\ SumOver(Amount, CreditedOf(w)') =
               SumOver(Amount, CreditedOf(w)) + (IF w = d.wallet THEN d.amount ELSE 0)
          /\ SumOver(Amount, CreditedOf(w)) \in Int /\ Opening[w] \in Int /\ balance[w] \in Int
          /\ balance[w] = Opening[w] + SumOver(Amount, CreditedOf(w))
      BY <1>1, <1>3, <2>1, <2>2, ExecCredited, CreditedFinite, StorageAssumption DEF CreditedOnce, StorageTypeOK
    <3>2. balance'[w] = balance[w] + (IF w = d.wallet THEN d.amount ELSE 0)
      BY <1>1, <2>2, <2>5, <3>1 DEF StorageTypeOK
    <3> QED
      BY <2>2, <3>1, <3>2
  <2> QED
    BY <1>1, <2>6 DEF CreditedOnce
<1>4. CASE InternalStep
  BY <1>1, <1>2, <1>3, <1>4, InternalFrame
<1> QED
  BY <1>1, <1>2, <1>4 DEF StorageNext, InternalStep, storageVars, Invoke, dataVars

(***************************************************************************)
(* Where nothing fails, no lease ends under its holder and the writers of  *)
(* a wallet agree on a lock, a balance is the sum of the deposits filed.   *)
(***************************************************************************)
THEOREM DepositsCreditedOnce == NothingFails /\ WritersAgree => (DepositSpec => []CreditedOnce)
<1> SUFFICES ASSUME NothingFails, WritersAgree PROVE DepositSpec => []CreditedOnce
  OBVIOUS
<1>1. DepositSpec => []AgreedInv
  BY DepositsUseStorage, AgreedInvariance
<1>2. DepositInit => CreditedOnce
  <2> SUFFICES ASSUME DepositInit PROVE CreditedOnce
    OBVIOUS
  <2>1. entries = {} /\ balance = Opening /\ DepositTypeOK
    BY BaseOfInit DEF DepositInit, StorageInit, DepositBase
  <2>2. \A w \in Wallets : CreditedOf(w) = {}
    BY <2>1 DEF CreditedOf, Credited
  <2>3. SumOver(Amount, {}) = 0
    BY <2>1, AmountTypes, SumEmpty
  <2>4. \A w \in Wallets : Opening[w] \in Int /\ Opening[w] = Opening[w] + 0
    BY StorageAssumption
  <2> QED
    BY <2>1, <2>2, <2>3, <2>4 DEF CreditedOnce
<1>3. OnceInv /\ AgreedInv /\ CreditedOnce /\ [DepositNext]_depositVars => CreditedOnce'
  BY CreditedOnceStep
<1> QED
  BY <1>1, <1>2, <1>3, OnceInvariance, PTL DEF DepositSpec
=============================================================================
