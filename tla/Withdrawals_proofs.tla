-------------------------- MODULE Withdrawals_proofs --------------------------
(***************************************************************************)
(* Proofs about Withdrawals and PendingWithdrawals, for every value of     *)
(* their constants.                                                        *)
(***************************************************************************)
EXTENDS PendingWithdrawals, DepositsStorage_proofs, Sums_proofs

(***************************************************************************)
(* The worker's job is active, and a job that has not failed has attempts  *)
(* and stalls left: that keeps the counters of the queue in their types.   *)
(***************************************************************************)
JobsLive ==
  /\ \A j \in WithdrawalJobs : job[j].state # "failed" =>
        job[j].tries < MaxAttempts /\ job[j].stalls <= MaxStalled
  /\ worker.at # "idle" => job[worker.id].state = "active"

WithdrawalBase == BaseInv /\ WithdrawalTypeOK /\ JobsLive

LEMMA RequestFacts ==
  ASSUME NEW r \in Requests
  PROVE  r.wallet \in Wallets /\ r.amount \in Nat /\ r.stamp \in Stamps
  BY WithdrawalsAssumption

LEMMA CallFacts ==
  /\ WorkerCall \in Calls /\ StoreCalls \subseteq Calls /\ ReaderCalls \subseteq Calls
  /\ WorkerCall \notin StoreCalls /\ WorkerCall \notin ReaderCalls
  BY WithdrawalsAssumption

LEMMA WorkerFacts ==
  ASSUME WithdrawalTypeOK, worker.at # "idle"
  PROVE  /\ worker.at \in Places /\ worker.id \in WithdrawalJobs /\ worker.hash \in Hashes
         /\ worker = [at |-> worker.at, id |-> worker.id, hash |-> worker.hash]
         /\ Request \in Requests /\ Request.wallet \in Wallets /\ Request.amount \in Nat
         /\ Request.stamp \in Stamps
         /\ ReadOp(Request.wallet) \in Ops /\ StoreOp(Request, worker.hash) \in Ops
<1>1. worker \in [at : Places, id : WithdrawalJobs, hash : Hashes]
  BY DEF WithdrawalTypeOK, Idle
<1>2. /\ worker.at \in Places /\ worker.id \in WithdrawalJobs /\ worker.hash \in Hashes
      /\ worker = [at |-> worker.at, id |-> worker.id, hash |-> worker.hash]
  BY <1>1
<1>3. Request \in Requests
  BY <1>2 DEF Request, WithdrawalJobs
<1> QED
  BY <1>2, <1>3, RequestFacts, WithdrawalOpsAssumption

(***************************************************************************)
(* What a withdrawal does to the storage is a step of the storage.         *)
(***************************************************************************)
LEMMA StorageOfStep ==
  ASSUME WithdrawalTypeOK, [WithdrawalNext]_withdrawalVars
  PROVE  [StorageNext]_storageVars
<1> USE DEF NodeSame, JobFails
<1>1. ASSUME NEW c \in Calls, NEW o \in Ops, Invoke(c, o) PROVE StorageNext
  BY <1>1 DEF StorageNext
<1>2. CASE WorkerStep
  <2>1. ASSUME NEW j \in WithdrawalJobs, Start(j) PROVE UNCHANGED storageVars
    BY <2>1 DEF Start
  <2>2. CASE Check
    BY <2>2 DEF Check
  <2>3. CASE ReadBalance
    BY <1>1, <2>3, CallFacts, WorkerFacts DEF ReadBalance
  <2>4. CASE CheckBalance
    BY <2>4 DEF CheckBalance
  <2>5. CASE CheckHotWallet
    BY <2>5 DEF CheckHotWallet
  <2>6. CASE Postpone
    BY <2>6 DEF Postpone
  <2>7. CASE Replaced
    BY <2>7 DEF Replaced
  <2>8. CASE Send
    BY <2>8 DEF Send
  <2>9. CASE Record
    BY <2>9 DEF Record
  <2>10. CASE Debit
    BY <1>1, <2>10, CallFacts, WorkerFacts DEF Debit
  <2>11. CASE Report
    BY <1>1, <2>11, CallFacts, WorkerFacts DEF Report
  <2>12. CASE Reply
    BY <2>12 DEF Reply
  <2> QED
    BY <1>2, <2>1, <2>2, <2>3, <2>4, <2>5, <2>6, <2>7, <2>8, <2>9, <2>10, <2>11, <2>12
    DEF WorkerStep
<1>3. CASE SendFails
  BY <1>3 DEF SendFails
<1>4. CASE \E r \in Requests : Submit(r)
  BY <1>4 DEF Submit
<1>5. CASE PromoteJob \/ StallJob
  BY <1>5 DEF PromoteJob, StallJob
<1>6. CASE ReadOverHttp
  BY <1>1, <1>6, CallFacts, WithdrawalOpsAssumption DEF ReadOverHttp
<1>7. CASE StorageStep
  BY <1>7 DEF StorageStep, StorageNext
<1>8. CASE RefillHotWallet
  BY <1>8 DEF RefillHotWallet
<1>9. CASE Restart
  BY <1>9 DEF Restart, StorageNext
<1>10. CASE UNCHANGED withdrawalVars
  BY <1>10 DEF withdrawalVars
<1> QED
  BY <1>2, <1>3, <1>4, <1>5, <1>6, <1>7, <1>8, <1>9, <1>10 DEF WithdrawalNext

LEMMA BaseOfInit == WithdrawalInit => WithdrawalBase
<1> SUFFICES ASSUME WithdrawalInit PROVE WithdrawalBase
  OBVIOUS
<1>1. BaseInv
  BY BaseInit DEF WithdrawalInit
<1>2. WithdrawalTypeOK
  <2>1. JobTypeOK
    BY DEF WithdrawalInit, QueueInit, JobTypeOK, NoJob, JobStates, MaxAttempts, MaxStalled
  <2> QED
    BY <1>1, <2>1, WithdrawalsAssumption DEF WithdrawalInit, WithdrawalTypeOK, BaseInv
<1>3. JobsLive
  BY DEF WithdrawalInit, JobsLive, QueueInit, NoJob, MaxAttempts, MaxStalled, Idle
<1> QED
  BY <1>1, <1>2, <1>3 DEF WithdrawalBase

(***************************************************************************)
(* The queue and the worker.                                               *)
(***************************************************************************)
Records == [state : JobStates, tries : 0..MaxAttempts, stalls : 0..MaxStalled + 1]

LiveRecord(r) == r.state # "failed" => r.tries < MaxAttempts /\ r.stalls <= MaxStalled

LEMMA FailedRecord ==
  ASSUME NEW j \in WithdrawalJobs, JobTypeOK, job[j].tries < MaxAttempts, job[j].stalls <= MaxStalled,
         Fail(j)
  PROVE  /\ job'[j] \in Records /\ LiveRecord(job'[j])
         /\ \A k \in WithdrawalJobs \ {j} : job'[k] = job[k]
         /\ job' = [job EXCEPT ![j] = job'[j]]
<1>1. PICK old \in Records : old = job[j]
  BY DEF JobTypeOK, Records
<1>2. job \in [WithdrawalJobs -> Records]
  BY DEF JobTypeOK, Records
<1>3. old.tries \in 0..2 /\ old.tries + 1 \in 1..3 /\ old.stalls \in 0..1 /\ old.state \in JobStates
  BY <1>1 DEF Records, MaxAttempts, MaxStalled
<1> DEFINE After(s) == [old EXCEPT !.state = s, !.tries = old.tries + 1]
<1>4. ASSUME NEW s \in {"delayed", "failed"}
      PROVE  /\ After(s) \in Records
             /\ After(s).state = s /\ After(s).tries = old.tries + 1
             /\ After(s).stalls = old.stalls
  <2>1. s \in JobStates /\ old.tries + 1 \in 0..MaxAttempts
    BY <1>3 DEF MaxAttempts, JobStates
  <2>2. [old EXCEPT !.state = s] \in Records
    BY <2>1 DEF Records
  <2>3. After(s) = [[old EXCEPT !.state = s] EXCEPT !.tries = old.tries + 1]
    OBVIOUS
  <2> QED
    BY <2>1, <2>2, <2>3 DEF Records
<1>5. job' = [job EXCEPT ![j] = IF old.tries + 1 < MaxAttempts THEN After("delayed")
                                ELSE IF j \in PendingJobs THEN NoJob ELSE After("failed")]
  BY <1>1 DEF Fail
<1> HIDE DEF After
<1>6. CASE old.tries + 1 < MaxAttempts
  BY <1>2, <1>3, <1>4, <1>5, <1>6 DEF LiveRecord, MaxStalled
<1>7. CASE ~(old.tries + 1 < MaxAttempts) /\ j \in PendingJobs
  BY <1>2, <1>5, <1>7 DEF LiveRecord, MaxAttempts, MaxStalled, JobStates, NoJob, Records
<1>8. CASE ~(old.tries + 1 < MaxAttempts) /\ j \notin PendingJobs
  BY <1>2, <1>3, <1>4, <1>5, <1>8 DEF LiveRecord
<1> QED
  BY <1>6, <1>7, <1>8

LEMMA QueueStep ==
  ASSUME WithdrawalTypeOK, JobsLive, [WithdrawalNext]_withdrawalVars
  PROVE  /\ JobTypeOK' /\ JobsLive'
         /\ worker' \in {Idle} \cup [at : Places, id : WithdrawalJobs, hash : Hashes]
<1> DEFINE Goal == /\ JobTypeOK' /\ JobsLive'
                   /\ worker' \in {Idle} \cup [at : Places, id : WithdrawalJobs, hash : Hashes]
<1> SUFFICES Goal
  OBVIOUS
<1>0. /\ JobTypeOK
      /\ worker \in {Idle} \cup [at : Places, id : WithdrawalJobs, hash : Hashes]
  BY DEF WithdrawalTypeOK
<1> USE DEF JobsLive, JobTypeOK, JobStates, MaxAttempts, MaxStalled, NoJob
<1>1. CASE JobFails /\ worker.at # "idle"
  <2>1. worker.id \in WithdrawalJobs /\ job[worker.id].state = "active"
    BY <1>1, WorkerFacts
  <2>2. Fail(worker.id) /\ worker' = Idle
    BY <1>1 DEF JobFails
  <2>3. /\ job'[worker.id] \in Records /\ LiveRecord(job'[worker.id])
        /\ \A k \in WithdrawalJobs \ {worker.id} : job'[k] = job[k]
        /\ job' = [job EXCEPT ![worker.id] = job'[worker.id]]
    BY <1>0, <2>1, <2>2, FailedRecord
  <2> QED
    BY <1>0, <2>1, <2>2, <2>3 DEF Records, LiveRecord, Idle
<1>2. ASSUME worker.at # "idle", UNCHANGED job, NEW p \in Places, GoesTo(p) PROVE Goal
  BY <1>0, <1>2, WorkerFacts DEF GoesTo, Idle
<1>3. CASE UNCHANGED <<job, worker>>
  BY <1>0, <1>3 DEF Idle
<1>4. CASE WorkerStep
  <2>1. ASSUME NEW j \in WithdrawalJobs, Start(j) PROVE Goal
    BY <1>0, <2>1, WithdrawalsAssumption DEF Start, Take, Move, NoHash, Places
  <2>2. CASE Check
    BY <1>1, <1>2, <2>2 DEF Check, Places
  <2>3. CASE ReadBalance
    BY <1>2, <2>3 DEF ReadBalance, NodeSame, Places
  <2>4. CASE CheckBalance
    BY <1>1, <1>2, <2>4 DEF CheckBalance, Places
  <2>5. CASE CheckHotWallet
    BY <1>1, <1>2, <2>5 DEF CheckHotWallet, Places
  <2>6. CASE Postpone
    <3>1. worker.at # "idle" /\ worker.id \in WithdrawalJobs
      BY <2>6, WorkerFacts DEF Postpone
    <3>2. PICK p \in Places : GoesTo(p)
      BY <2>6 DEF Postpone, Places
    <3> DEFINE k == [worker.id EXCEPT !.attempt = @ + 1]
    <3>3. k \in WithdrawalJobs
      BY <2>6, <3>1, WithdrawalsAssumption DEF Postpone, WithdrawalJobs
    <3>4. Add(k, "delayed") \/ UNCHANGED job
      BY <2>6 DEF Postpone, AddSuccessor
    <3> HIDE DEF k
    <3> QED
      BY <1>0, <3>1, <3>2, <3>3, <3>4, WorkerFacts DEF GoesTo, Add, Idle
  <2>7. CASE Replaced
    BY <1>1, <2>7 DEF Replaced
  <2>8. CASE Send
    BY <1>0, <2>8, WorkerFacts DEF Send, Places, Idle
  <2>9. CASE Record
    BY <1>1, <1>2, <2>9 DEF Record, Places
  <2>10. CASE Debit
    BY <1>2, <2>10 DEF Debit, Places
  <2>11. CASE Report
    BY <1>2, <2>11 DEF Report, Places
  <2>12. CASE Reply
    BY <1>0, <1>1, <2>12, WorkerFacts DEF Reply, Complete, Move, Idle
  <2> QED
    BY <1>4, <2>1, <2>2, <2>3, <2>4, <2>5, <2>6, <2>7, <2>8, <2>9, <2>10, <2>11, <2>12
    DEF WorkerStep
<1>5. CASE SendFails
  BY <1>1, <1>5 DEF SendFails
<1>6. ASSUME NEW r \in Requests, Submit(r) PROVE Goal
  <2>1. [request |-> r, attempt |-> 0] \in WithdrawalJobs
    BY WithdrawalsAssumption DEF WithdrawalJobs
  <2> QED
    BY <1>0, <1>6, <2>1, WorkerFacts DEF Submit, Add, NodeSame
<1>7. CASE PromoteJob
  BY <1>0, <1>7, WorkerFacts DEF PromoteJob, Promote, Move
<1>8. CASE StallJob
  BY <1>0, <1>8, WorkerFacts DEF StallJob, Stall, Attended
<1>9. CASE ReadOverHttp \/ StorageStep \/ RefillHotWallet
  BY <1>3, <1>9 DEF ReadOverHttp, StorageStep, RefillHotWallet
<1>10. CASE Restart
  BY <1>0, <1>10 DEF Restart, Idle
<1>11. CASE UNCHANGED withdrawalVars
  BY <1>3, <1>11 DEF withdrawalVars
<1> HIDE DEF Goal
<1> QED
  BY <1>4, <1>5, <1>6, <1>7, <1>8, <1>9, <1>10, <1>11 DEF WithdrawalNext

(***************************************************************************)
(* The node.                                                               *)
(***************************************************************************)
LEMMA PayFacts ==
  ASSUME WithdrawalTypeOK, worker.at # "idle", NEW h \in Hashes, Pay(h)
  PROVE  hot' \in Nat /\ refilled' \in BOOLEAN /\ payments' \subseteq Payments
  BY WorkerFacts DEF WithdrawalTypeOK, Pay, Payments

LEMMA NodeStep ==
  ASSUME WithdrawalTypeOK, [WithdrawalNext]_withdrawalVars
  PROVE  hot' \in Nat /\ refilled' \in BOOLEAN /\ payments' \subseteq Payments
<1>1. CASE NodeSame
  BY <1>1 DEF NodeSame, WithdrawalTypeOK
<1>2. CASE Send \/ SendFails
  BY <1>1, <1>2, PayFacts DEF Send, SendFails
<1>3. CASE RefillHotWallet
  BY <1>3, WithdrawalsAssumption DEF RefillHotWallet, WithdrawalTypeOK
<1>4. CASE UNCHANGED withdrawalVars
  BY <1>4 DEF withdrawalVars, WithdrawalTypeOK
<1> QED
  BY <1>1, <1>2, <1>3, <1>4
  DEF WithdrawalNext, WorkerStep, Start, Check, ReadBalance, CheckBalance, CheckHotWallet,
      Postpone, Replaced, Record, Debit, Report, Reply, Submit, PromoteJob, StallJob,
      ReadOverHttp, StorageStep, Restart

LEMMA BaseOfStep == WithdrawalBase /\ [WithdrawalNext]_withdrawalVars => WithdrawalBase'
<1> SUFFICES ASSUME WithdrawalBase, [WithdrawalNext]_withdrawalVars PROVE WithdrawalBase'
  OBVIOUS
<1>1. BaseInv'
  BY StorageOfStep, BaseStep DEF WithdrawalBase
<1>2. JobTypeOK' /\ JobsLive'
      /\ worker' \in {Idle} \cup [at : Places, id : WithdrawalJobs, hash : Hashes]
  BY QueueStep DEF WithdrawalBase
<1>3. hot' \in Nat /\ refilled' \in BOOLEAN /\ payments' \subseteq Payments
  BY NodeStep DEF WithdrawalBase
<1> QED
  BY <1>1, <1>2, <1>3 DEF WithdrawalBase, WithdrawalTypeOK, BaseInv

LEMMA WithdrawalBaseInvariance == WithdrawalSpec => []WithdrawalBase
  BY BaseOfInit, BaseOfStep, PTL DEF WithdrawalSpec

(***************************************************************************)
(* Type correctness, whatever the faults: the queue's counters stay within *)
(* the attempts and stalls BullMQ allows, and the worker, the payments and *)
(* the calls it makes keep their types.                                    *)
(***************************************************************************)
THEOREM WithdrawalTypeCorrect == WithdrawalSpec => []WithdrawalTypeOK
<1>1. WithdrawalBase => WithdrawalTypeOK
  BY DEF WithdrawalBase
<1> QED
  BY <1>1, WithdrawalBaseInvariance, PTL

(***************************************************************************)
(* The worker uses the storage as it is meant to be used: what a           *)
(* withdrawal does to balances, entries, locks and calls is a behaviour of *)
(* DepositsStorage, so every theorem about the storage holds of it.        *)
(***************************************************************************)
THEOREM WithdrawalsUseStorage == WithdrawalSpec => StorageSpec
<1>1. WithdrawalInit => StorageInit
  BY DEF WithdrawalInit
<1>2. WithdrawalBase => WithdrawalTypeOK
  BY DEF WithdrawalBase
<1> QED
  BY <1>1, <1>2, StorageOfStep, WithdrawalBaseInvariance, PTL DEF WithdrawalSpec, StorageSpec

-----------------------------------------------------------------------------
(***************************************************************************)
(* Nothing is debited that was not paid: the worker holds the hash of a    *)
(* payment from the answer of the node to the start of the store, and a    *)
(* call that stores a withdrawal stores a payment.                         *)
(***************************************************************************)
StoresPayment(o) == \E p \in payments : o = StoreOp(p.request, p.hash)

Paying ==
  /\ worker.at \in {"record", "debit"} => [request |-> Request, hash |-> worker.hash] \in payments
  /\ \A c \in Calls : op[c].kind \in {"none", "read"} \/ StoresPayment(op[c])

PaidFirst == WithdrawalBase /\ Paying /\ DebitFollowsPayment

LEMMA PaymentsGrow ==
  ASSUME [WithdrawalNext]_withdrawalVars
  PROVE  payments \subseteq payments'
  BY DEF WithdrawalNext, WorkerStep, Start, Check, ReadBalance, CheckBalance, CheckHotWallet, Postpone,
     Replaced, Send, SendFails, Pay, Record, Debit, Report, Reply, Submit, PromoteJob, StallJob,
     ReadOverHttp, StorageStep, RefillHotWallet, Restart, NodeSame, withdrawalVars

LEMMA PayingStep ==
  ASSUME PaidFirst, [WithdrawalNext]_withdrawalVars
  PROVE  Paying'
<1>1. payments \subseteq payments'
  BY PaymentsGrow
<1>2. WithdrawalTypeOK /\ StorageTypeOK
  BY DEF PaidFirst, WithdrawalBase, WithdrawalTypeOK
<1> DEFINE Held   == worker.at \in {"record", "debit"} =>
                       [request |-> Request, hash |-> worker.hash] \in payments
           Stored2 == \A c \in Calls : op[c].kind \in {"none", "read"} \/ StoresPayment(op[c])
<1>3. Stored2'
  <2>1. CASE UNCHANGED op
    BY <1>1, <2>1 DEF PaidFirst, Paying, StoresPayment
  <2>2. ASSUME NEW c \in Calls, NEW w \in Wallets, Invoke(c, ReadOp(w)) PROVE Stored2'
    BY <1>1, <1>2, <2>2, InvokeFrame, WithdrawalOpsAssumption DEF PaidFirst, Paying, StoresPayment, ReadOp
  <2>3. CASE Debit
    <3>1. PICK c \in Calls : Invoke(c, StoreOp(Request, worker.hash))
      BY <2>3, CallFacts DEF Debit
    <3>2. StoreOp(Request, worker.hash) \in Ops /\ StoresPayment(StoreOp(Request, worker.hash))
      BY <1>2, <2>3, WorkerFacts DEF Debit, PaidFirst, Paying, StoresPayment
    <3> QED
      BY <1>1, <1>2, <3>1, <3>2, InvokeFrame DEF PaidFirst, Paying, StoresPayment
  <2>4. CASE InternalStep
    BY <1>1, <1>2, <2>4, InternalFrame DEF PaidFirst, Paying, StoresPayment, NoOp
  <2> QED
    BY <1>2, <2>1, <2>2, <2>3, <2>4, CallFacts, WorkerFacts
    DEF WithdrawalNext, WorkerStep, Start, Check, ReadBalance, CheckBalance, CheckHotWallet, Postpone,
        Replaced, Send, SendFails, Record, Report, Reply, Submit, PromoteJob, StallJob,
        ReadOverHttp, StorageStep, RefillHotWallet, Restart, withdrawalVars, storageVars, InternalStep
<1>4. Held'
  <2>1. CASE UNCHANGED worker \/ worker' = Idle
    BY <1>1, <2>1 DEF PaidFirst, Paying, Idle, Request
  <2>2. ASSUME NEW p \in Places \ {"record", "debit"}, worker.at # "idle", GoesTo(p) PROVE Held'
    BY <1>2, <2>2, WorkerFacts DEF GoesTo
  <2>3. ASSUME NEW j \in WithdrawalJobs, Start(j) PROVE Held'
    BY <2>3 DEF Start
  <2>4. CASE Send
    BY <1>2, <2>4, WorkerFacts DEF Send, Pay, Request
  <2>5. CASE Record
    BY <1>1, <1>2, <2>1, <2>5, WorkerFacts DEF Record, JobFails, GoesTo, Request, PaidFirst, Paying
  <2> HIDE DEF Held
  <2> QED
    BY <2>1, <2>2, <2>3, <2>4, <2>5
    DEF WithdrawalNext, WorkerStep, Check, ReadBalance, CheckBalance, CheckHotWallet, Postpone,
        Replaced, SendFails, Debit, Report, Reply, Submit, PromoteJob, StallJob, JobFails,
        ReadOverHttp, StorageStep, RefillHotWallet, Restart, withdrawalVars, Places
<1> QED
  BY <1>3, <1>4 DEF Paying

LEMMA DebitsFollowStep ==
  ASSUME PaidFirst, [WithdrawalNext]_withdrawalVars
  PROVE  DebitFollowsPayment'
<1>1. payments \subseteq payments' /\ [StorageNext]_storageVars /\ StorageTypeOK
  BY PaymentsGrow, StorageOfStep DEF PaidFirst, WithdrawalBase, WithdrawalTypeOK
<1>2. CASE UNCHANGED entries
  BY <1>1, <1>2 DEF PaidFirst, DebitFollowsPayment
<1>3. ASSUME NEW c \in Calls, Exec(c) PROVE DebitFollowsPayment'
  <2>1. entries' = entries \cup {Entry(op[c])} /\ op[c].kind \notin {"none", "read"}
    BY <1>3, OpFacts DEF Exec, PaidFirst, WithdrawalBase, BaseInv, ServesOps, ServesOp, Settled, Writes, Kinds
  <2>2. StoresPayment(op[c])
    BY <2>1 DEF PaidFirst, Paying
  <2> QED
    BY <1>1, <2>1, <2>2 DEF PaidFirst, DebitFollowsPayment, StoresPayment
<1>4. ASSUME NEW c \in Calls, NEW o \in Ops, Invoke(c, o) PROVE UNCHANGED entries
  BY <1>4 DEF Invoke, dataVars
<1>5. CASE InternalStep
  BY <1>1, <1>2, <1>3, <1>5, InternalFrame DEF dataVars
<1> QED
  BY <1>1, <1>2, <1>4, <1>5 DEF StorageNext, InternalStep, storageVars

LEMMA PaidFirstInvariance == WithdrawalSpec => []PaidFirst
<1>1. WithdrawalInit => PaidFirst
  <2> SUFFICES ASSUME WithdrawalInit PROVE PaidFirst
    OBVIOUS
  <2> QED
    BY BaseOfInit
    DEF WithdrawalInit, StorageInit, PaidFirst, Paying, DebitFollowsPayment, NoOp, Idle
<1>2. PaidFirst /\ [WithdrawalNext]_withdrawalVars => PaidFirst'
  BY BaseOfStep, PayingStep, DebitsFollowStep DEF PaidFirst
<1> QED
  BY <1>1, <1>2, PTL DEF WithdrawalSpec

(***************************************************************************)
(* Nothing is debited that was not paid, whatever the faults: a member of  *)
(* the withdrawals set carries the hash of a payment of its wallet, amount *)
(* and timestamp.                                                          *)
(***************************************************************************)
THEOREM DebitsFollowPayments == WithdrawalSpec => []DebitFollowsPayment
<1>1. PaidFirst => DebitFollowsPayment
  BY DEF PaidFirst
<1> QED
  BY <1>1, PaidFirstInvariance, PTL

-----------------------------------------------------------------------------
(***************************************************************************)
(* A hash is used once: the node numbers its payments, the worker stores a *)
(* payment in one call, and that call writes one entry.                    *)
(***************************************************************************)
Fresh(h) ==
  /\ \A e \in entries : e.hash # h
  /\ \A c \in Calls : op[c].kind = "withdrawal" => op[c].hash # h

OwnHash(c) ==
  /\ \A d \in Calls \ {c} : op[d].kind = "withdrawal" => op[d].hash # op[c].hash
  /\ pc[c] \in Unwritten => \A e \in entries : e.hash # op[c].hash

Numbered ==
  /\ IsFiniteSet(payments)
  /\ \A p \in payments : p.hash \in 1..Cardinality(payments)
  /\ \A p, q \in payments : p.hash = q.hash => p = q

HashedOnce ==
  /\ Numbered
  /\ worker.at \in {"record", "debit"} => Fresh(worker.hash)
  /\ \A c \in Calls : op[c].kind = "withdrawal" => OwnHash(c)

HashedInv == PaidFirst /\ HashedOnce /\ IsFiniteSet(entries)

(***************************************************************************)
(* What a step is to the storage and to the worker.                        *)
(***************************************************************************)
LEMMA StepCases ==
  ASSUME WithdrawalTypeOK, [WithdrawalNext]_withdrawalVars
  PROVE  \/ UNCHANGED storageVars
         \/ worker.at \in {"checked", "report"} /\ worker'.at \in {"balance", "reply"}
              /\ Invoke(WorkerCall, ReadOp(Request.wallet)) /\ Request.wallet \in Wallets
         \/ Debit
         \/ \E c \in ReaderCalls, w \in Wallets : Invoke(c, ReadOp(w)) /\ UNCHANGED worker
         \/ InternalStep /\ (UNCHANGED worker \/ worker' = Idle)
  BY WorkerFacts
  DEF WithdrawalNext, WorkerStep, Start, Check, ReadBalance, CheckBalance, CheckHotWallet, Postpone,
      Replaced, Send, SendFails, Record, Report, Reply, Submit, PromoteJob, StallJob, GoesTo,
      ReadOverHttp, StorageStep, RefillHotWallet, Restart, NodeSame, withdrawalVars, InternalStep

LEMMA WorkerMoves ==
  ASSUME WithdrawalTypeOK, [WithdrawalNext]_withdrawalVars, ~(Send \/ Record)
  PROVE  UNCHANGED worker \/ worker'.at \notin {"record", "debit"}
<1>1. ASSUME worker.at # "idle", NEW p \in Places \ {"record", "debit"}, GoesTo(p)
      PROVE  worker'.at \notin {"record", "debit"}
  BY <1>1, WorkerFacts DEF GoesTo
<1>2. CASE worker' = Idle
  BY <1>2 DEF Idle
<1>3. CASE WorkerStep
  <2>1. ASSUME NEW j \in WithdrawalJobs, Start(j) PROVE worker'.at = "contains"
    BY <2>1 DEF Start
  <2>2. CASE Check \/ ReadBalance \/ CheckBalance \/ CheckHotWallet \/ Postpone
    BY <1>1, <1>2, <2>2 DEF Check, ReadBalance, CheckBalance, CheckHotWallet, Postpone, JobFails, Places
  <2>3. CASE Replaced \/ Debit \/ Report \/ Reply
    BY <1>1, <1>2, <2>3 DEF Replaced, Debit, Report, Reply, JobFails, Places
  <2> QED
    BY <1>3, <2>1, <2>2, <2>3 DEF WorkerStep
<1> QED
  BY <1>2, <1>3
  DEF WithdrawalNext, SendFails, Submit, PromoteJob, StallJob, JobFails,
      ReadOverHttp, StorageStep, RefillHotWallet, Restart, NodeSame, withdrawalVars

LEMMA ExecWrites ==
  ASSUME PaidFirst, NEW c \in Calls, Exec(c)
  PROVE  op[c].kind = "withdrawal" /\ \E p \in payments : op[c] = StoreOp(p.request, p.hash)
<1>1. op[c].kind \notin {"none", "read"}
  BY OpFacts DEF Exec, PaidFirst, WithdrawalBase, BaseInv, ServesOps, ServesOp, Settled, Writes, Kinds
<1>2. StoresPayment(op[c])
  BY <1>1 DEF PaidFirst, Paying
<1> QED
  BY <1>2 DEF StoresPayment, StoreOp

LEMMA NodeFrame ==
  ASSUME [WithdrawalNext]_withdrawalVars
  PROVE  UNCHANGED payments \/ (worker.at = "send" /\ \E h \in Hashes : Pay(h) /\ UNCHANGED storageVars)
<1>1. CASE Send \/ SendFails
  BY <1>1 DEF Send, SendFails, NodeSame
<1> QED
  BY <1>1
  DEF WithdrawalNext, WorkerStep, Start, Check, ReadBalance, CheckBalance, CheckHotWallet, Postpone,
      Replaced, Record, Debit, Report, Reply, Submit, PromoteJob, StallJob,
      ReadOverHttp, StorageStep, RefillHotWallet, Restart, NodeSame, withdrawalVars

LEMMA NumberedStep ==
  ASSUME WithdrawalTypeOK, Numbered, [WithdrawalNext]_withdrawalVars
  PROVE  Numbered'
<1>1. CASE UNCHANGED payments
  BY <1>1 DEF Numbered
<1>2. ASSUME worker.at = "send", NEW h \in Hashes, Pay(h) PROVE Numbered'
  <2> DEFINE n == Cardinality(payments)
             p == [request |-> Request, hash |-> h]
  <2>1. n \in Nat /\ h = n + 1 /\ payments' = payments \cup {p} /\ p.hash = h
    BY <1>2, FS_CardinalityType DEF Numbered, Pay
  <2>2. \A q \in payments : q.hash \in 1..n
    BY DEF Numbered
  <2>3. p \notin payments
    BY <2>1, <2>2
  <2>4. IsFiniteSet(payments') /\ Cardinality(payments') = n + 1
    BY <2>1, <2>3, FS_AddElement DEF Numbered
  <2> HIDE DEF n, p
  <2>5. \A q \in payments' : q.hash \in 1..(n + 1)
    BY <2>1, <2>2
  <2>6. \A q, r \in payments' : q.hash = r.hash => q = r
    BY <2>1, <2>2 DEF Numbered
  <2> QED
    BY <2>4, <2>5, <2>6 DEF Numbered
<1> QED
  BY <1>1, <1>2, NodeFrame

LEMMA HashedStep ==
  ASSUME HashedInv, [WithdrawalNext]_withdrawalVars
  PROVE  HashedOnce' /\ IsFiniteSet(entries')
<1>1. /\ WithdrawalTypeOK /\ StorageTypeOK /\ BaseInv
      /\ Numbered /\ Numbered' /\ PaidFirst /\ PaidFirst'
  BY NumberedStep, BaseOfStep, PayingStep, DebitsFollowStep
  DEF HashedInv, HashedOnce, PaidFirst, WithdrawalBase, WithdrawalTypeOK
<1> DEFINE OneCall == \A c \in Calls : op[c].kind = "withdrawal" => OwnHash(c)
           Held    == worker.at \in {"record", "debit"} => Fresh(worker.hash)
<1>2. CASE UNCHANGED storageVars
  <2>1. OneCall' /\ IsFiniteSet(entries') /\ \A h : Fresh(h)' <=> Fresh(h)
    BY <1>2 DEF storageVars, HashedInv, HashedOnce, OwnHash, Fresh
  <2>2. Held'
    <3>1. CASE UNCHANGED worker
      BY <2>1, <3>1 DEF HashedInv, HashedOnce
    <3>2. CASE Record
      BY <1>1, <2>1, <3>2, WorkerFacts DEF Record, JobFails, Idle, GoesTo, HashedInv, HashedOnce
    <3>3. CASE Send
      <4>1. PICK h \in Hashes : Pay(h) /\ worker' = [worker EXCEPT !.at = "record", !.hash = h]
        BY <3>3 DEF Send
      <4>2. worker'.hash = h
        BY <1>1, <3>3, <4>1, WorkerFacts DEF Send
      <4>3. h = Cardinality(payments) + 1 /\ Cardinality(payments) \in Nat
        BY <1>1, <4>1, FS_CardinalityType DEF Pay, Numbered
      <4>4. \A p \in payments : p.hash # h
        BY <1>1, <4>3 DEF Numbered
      <4>5. \A e \in entries : e.hash # h
        BY <4>4 DEF HashedInv, PaidFirst, DebitFollowsPayment, Entry, StoreOp
      <4>6. ASSUME NEW c \in Calls, op[c].kind = "withdrawal" PROVE op[c].hash # h
        <5>1. PICK p \in payments : op[c] = StoreOp(p.request, p.hash)
          BY <4>6 DEF HashedInv, PaidFirst, Paying, StoresPayment
        <5> QED
          BY <4>4, <5>1 DEF StoreOp
      <4> QED
        BY <2>1, <4>2, <4>5, <4>6 DEF Fresh
    <3>4. CASE worker'.at \notin {"record", "debit"}
      BY <3>4
    <3>5. CASE ~(Send \/ Record)
      <4>1. UNCHANGED worker \/ worker'.at \notin {"record", "debit"}
        BY <1>1, <3>5, WorkerMoves
      <4> QED
        BY <3>1, <3>4, <4>1
    <3> QED
      BY <3>2, <3>3, <3>5
  <2> QED
    BY <1>1, <2>1, <2>2 DEF HashedOnce
<1>3. ASSUME NEW c \in Calls, NEW w \in Wallets, Invoke(c, ReadOp(w)), worker'.at \notin {"record", "debit"} \/ UNCHANGED worker
      PROVE  HashedOnce' /\ IsFiniteSet(entries')
  <2>1. UNCHANGED entries /\ op'[c].kind = "read" /\ \A d \in Calls \ {c} : op'[d] = op[d] /\ pc'[d] = pc[d]
    BY <1>1, <1>3, InvokeFrame, WithdrawalOpsAssumption DEF dataVars, ReadOp
  <2>2. OneCall'
    BY <2>1 DEF HashedInv, HashedOnce, OwnHash
  <2>3. Held'
    BY <1>3, <2>1 DEF HashedInv, HashedOnce, Fresh
  <2> QED
    BY <1>1, <2>1, <2>2, <2>3 DEF HashedInv, HashedOnce
<1>4. CASE Debit
  <2>1. PICK c \in Calls : Invoke(c, StoreOp(Request, worker.hash))
    BY <1>4, CallFacts DEF Debit
  <2>2. /\ UNCHANGED entries /\ op'[c] = StoreOp(Request, worker.hash)
        /\ \A d \in Calls \ {c} : op'[d] = op[d] /\ pc'[d] = pc[d]
    BY <1>1, <1>4, <2>1, InvokeFrame, WorkerFacts DEF Debit, dataVars
  <2>3. Fresh(worker.hash)
    BY <1>4 DEF Debit, HashedInv, HashedOnce
  <2>4. op'[c].hash = worker.hash
    BY <2>2 DEF StoreOp
  <2>5. worker'.at = "report"
    BY <1>1, <1>4, WorkerFacts DEF Debit, GoesTo
  <2>6. OneCall'
    BY <2>2, <2>3, <2>4 DEF HashedInv, HashedOnce, OwnHash, Fresh
  <2> QED
    BY <1>1, <2>2, <2>5, <2>6 DEF HashedInv, HashedOnce
<1>5. CASE InternalStep /\ (UNCHANGED worker \/ worker' = Idle)
  <2>1. /\ \A c \in Calls : op'[c] = op[c] \/ op'[c] = NoOp
        /\ UNCHANGED dataVars \/ \E c \in Calls : Exec(c)
    BY <1>1, <1>5, InternalFrame
  <2>2. \A c \in Calls : op'[c].kind = "withdrawal" => op'[c] = op[c] /\ op[c].kind = "withdrawal"
    BY <2>1 DEF NoOp
  <2>3. CASE UNCHANGED entries
    <3>1. OneCall'
      BY <1>1, <1>5, <2>2, <2>3, UnwrittenFrame DEF HashedInv, HashedOnce, OwnHash
    <3>2. Held'
      BY <1>5, <2>2, <2>3 DEF HashedInv, HashedOnce, Fresh, Idle
    <3> QED
      BY <1>1, <2>3, <3>1, <3>2 DEF HashedInv, HashedOnce
  <2>4. ASSUME NEW c \in Calls, Exec(c) PROVE HashedOnce' /\ IsFiniteSet(entries')
    <3>1. entries' = entries \cup {Entry(op[c])} /\ op[c].kind = "withdrawal" /\ Entry(op[c]).hash = op[c].hash
      BY <1>1, <2>4, ExecWrites DEF HashedInv, Exec, Entry
    <3>2. ASSUME NEW d \in Calls, op'[d].kind = "withdrawal", pc'[d] \in Unwritten
          PROVE  pc[d] \in Unwritten /\ d # c
      BY <1>1, <1>5, <2>2, <2>4, <3>2, UnwrittenFrame
    <3>3. OneCall'
      BY <2>2, <3>1, <3>2 DEF HashedInv, HashedOnce, OwnHash
    <3>4. Held'
      BY <1>5, <2>2, <3>1 DEF HashedInv, HashedOnce, Fresh, Idle
    <3>5. IsFiniteSet(entries')
      BY <3>1, FS_AddElement DEF HashedInv
    <3> QED
      BY <1>1, <3>3, <3>4, <3>5 DEF HashedOnce
  <2> QED
    BY <2>1, <2>3, <2>4 DEF dataVars
<1> QED
  BY <1>1, <1>2, <1>3, <1>4, <1>5, StepCases, CallFacts, WorkerFacts

LEMMA HashedInvariance == WithdrawalSpec => []HashedInv
<1>1. WithdrawalInit => HashedInv
  <2> SUFFICES ASSUME WithdrawalInit PROVE HashedInv
    OBVIOUS
  <2>1. PaidFirst
    BY BaseOfInit
    DEF WithdrawalInit, StorageInit, PaidFirst, Paying, DebitFollowsPayment, NoOp, Idle
  <2>2. IsFiniteSet(payments) /\ IsFiniteSet(entries)
    BY FS_EmptySet DEF WithdrawalInit, StorageInit
  <2>3. HashedOnce
    BY <2>2 DEF WithdrawalInit, StorageInit, HashedOnce, Numbered, NoOp, Idle
  <2> QED
    BY <2>1, <2>2, <2>3 DEF HashedInv
<1>2. HashedInv /\ [WithdrawalNext]_withdrawalVars => HashedInv'
  BY BaseOfStep, PayingStep, DebitsFollowStep, HashedStep DEF HashedInv, PaidFirst
<1> QED
  BY <1>1, <1>2, PTL DEF WithdrawalSpec

-----------------------------------------------------------------------------
(***************************************************************************)
(* The books.                                                              *)
(***************************************************************************)
LEMMA WithdrawnInt ==
  ASSUME HashedInv
  PROVE  /\ EntryAmount \in [Entries -> Int] /\ EntryAmount \in [Entries -> Nat]
         /\ \A w : Withdrawn(w) \in Int
<1>1. EntryAmount \in [Entries -> Nat] /\ EntryAmount \in [Entries -> Int]
  BY DEF EntryAmount, Entries
<1>2. IsFiniteSet(entries) /\ entries \subseteq Entries
  BY DEF HashedInv, PaidFirst, WithdrawalBase, WithdrawalTypeOK, StorageTypeOK
<1>3. ASSUME NEW w PROVE Withdrawn(w) \in Int
  <2> DEFINE S == {e \in entries : e.wallet = w}
  <2>1. S \in SUBSET Entries /\ IsFiniteSet(S)
    BY <1>2, FS_Subset
  <2> HIDE DEF S
  <2>2. SumOver(EntryAmount, S) \in Int
    BY <1>1, <2>1, SumInt
  <2> QED
    BY <2>2 DEF S, Withdrawn
<1> QED
  BY <1>1, <1>3

LEMMA ExecFiles ==
  ASSUME HashedInv, NEW c \in Calls, Exec(c)
  PROVE  \A w \in Wallets :
           Withdrawn(w)' = Withdrawn(w) + (IF w = op[c].wallet THEN op[c].amount ELSE 0)
<1>1. /\ IsFiniteSet(entries) /\ entries \subseteq Entries /\ op[c] \in Ops
      /\ entries' = entries \cup {Entry(op[c])} /\ op[c].kind = "withdrawal"
  BY ExecWrites
  DEF HashedInv, PaidFirst, WithdrawalBase, WithdrawalTypeOK, BaseInv, StorageTypeOK, ServesOps, ServesOp,
      Exec, Settled
<1> DEFINE f == Entry(op[c])
<1>2. /\ f \in Entries /\ f.wallet = op[c].wallet /\ EntryAmount[f] = op[c].amount
      /\ op[c].amount \in Nat /\ f.hash = op[c].hash
  BY <1>1, OpFacts, OpsAssumption DEF Entry, EntryAmount, Operations
<1>3. f \notin entries
  BY <1>1, <1>2 DEF HashedInv, HashedOnce, OwnHash, Unwritten, Exec
<1> HIDE DEF f
<1>4. ASSUME NEW w \in Wallets
      PROVE  Withdrawn(w)' = Withdrawn(w) + (IF w = op[c].wallet THEN op[c].amount ELSE 0)
  <2> DEFINE S == {e \in entries : e.wallet = w}
             T == {e \in entries' : e.wallet = w}
  <2>1. S \in SUBSET Entries /\ IsFiniteSet(S) /\ f \notin S
    BY <1>1, <1>3, FS_Subset
  <2>2. CASE w = op[c].wallet
    <3>1. T = S \cup {f}
      BY <1>1, <1>2, <2>2 DEF f
    <3> HIDE DEF S, T
    <3>2. SumOver(EntryAmount, S \cup {f}) = SumOver(EntryAmount, S) + EntryAmount[f]
      BY <1>2, <2>1, SumAdd, WithdrawnInt
    <3> QED
      BY <1>2, <2>2, <3>1, <3>2 DEF Withdrawn, S, T
  <2>3. CASE w # op[c].wallet
    <3>1. T = S
      BY <1>1, <1>2, <2>3 DEF f
    <3>2. Withdrawn(w)' = Withdrawn(w)
      BY <3>1 DEF Withdrawn
    <3>3. Withdrawn(w) \in Int
      BY WithdrawnInt
    <3> QED
      BY <2>3, <3>2, <3>3
  <2> QED
    BY <2>2, <2>3
<1> QED
  BY <1>4

BooksInv == HashedInv /\ AgreedInv /\ BooksBalance

LEMMA BooksStep ==
  ASSUME BooksInv, [WithdrawalNext]_withdrawalVars
  PROVE  BooksBalance'
<1>1. [StorageNext]_storageVars /\ StorageTypeOK
  BY StorageOfStep DEF BooksInv, HashedInv, PaidFirst, WithdrawalBase, WithdrawalTypeOK
<1>2. CASE UNCHANGED dataVars
  BY <1>2 DEF BooksInv, BooksBalance, Withdrawn, dataVars
<1>3. ASSUME NEW c \in Calls, Exec(c) PROVE BooksBalance'
  <2>1. op[c].kind = "withdrawal" /\ op[c] \in Ops /\ op[c].amount \in Nat /\ op[c].wallet \in Wallets
    BY <1>3, ExecWrites, OpsAssumption
    DEF BooksInv, HashedInv, PaidFirst, WithdrawalBase, BaseInv, ServesOps, ServesOp, Exec, Settled, Operations
  <2>2. Delta(op[c]) = -op[c].amount
    BY <2>1 DEF Delta
  <2>3. read[c] = balance[op[c].wallet]
    BY <1>3 DEF BooksInv, AgreedInv, Currency, ReadIsCurrent, Exec
  <2>4. balance' = [balance EXCEPT ![op[c].wallet] = balance[op[c].wallet] - op[c].amount]
    BY <1>1, <1>3, <2>1, <2>2, <2>3 DEF Exec, StorageTypeOK
  <2>5. ASSUME NEW w \in Wallets PROVE balance'[w] = Opening[w] - Withdrawn(w)'
    <3>1. /\ Withdrawn(w)' = Withdrawn(w) + (IF w = op[c].wallet THEN op[c].amount ELSE 0)
          /\ Withdrawn(w) \in Int /\ Opening[w] \in Int /\ balance[w] \in Int
          /\ balance[w] = Opening[w] - Withdrawn(w)
      BY <1>1, <1>3, ExecFiles, WithdrawnInt, StorageAssumption DEF BooksInv, BooksBalance, StorageTypeOK
    <3>2. balance'[w] = balance[w] - (IF w = op[c].wallet THEN op[c].amount ELSE 0)
      BY <1>1, <2>4, <3>1 DEF StorageTypeOK
    <3> QED
      BY <2>1, <3>1, <3>2
  <2> QED
    BY <2>5 DEF BooksBalance
<1>4. CASE InternalStep
  BY <1>1, <1>2, <1>3, <1>4, InternalFrame
<1> QED
  BY <1>1, <1>2, <1>4 DEF StorageNext, InternalStep, storageVars, Invoke, dataVars

(***************************************************************************)
(* The balance is what the audit trail says, whatever lock timeouts, Redis *)
(* errors, crashes and errors of the node happen, as long as no lease ends *)
(* under its holder and the writers of a wallet agree on a lock.           *)
(***************************************************************************)
THEOREM WithdrawalBooksBalance == WritersAgree => (WithdrawalSpec => []BooksBalance)
<1> SUFFICES ASSUME WritersAgree PROVE WithdrawalSpec => []BooksBalance
  OBVIOUS
<1>1. WithdrawalSpec => []AgreedInv
  BY WithdrawalsUseStorage, AgreedInvariance
<1>2. WithdrawalInit => BooksBalance
  <2> SUFFICES ASSUME WithdrawalInit PROVE BooksBalance
    OBVIOUS
  <2>1. entries = {} /\ balance = Opening
    BY DEF WithdrawalInit, StorageInit
  <2>2. EntryAmount \in [Entries -> Int]
    BY DEF EntryAmount, Entries
  <2>3. SumOver(EntryAmount, {}) = 0
    BY <2>2, SumEmpty
  <2>4. \A w \in Wallets : Withdrawn(w) = 0
    BY <2>1, <2>3 DEF Withdrawn
  <2>5. \A w \in Wallets : Opening[w] \in Int /\ Opening[w] = Opening[w] - 0
    BY StorageAssumption
  <2> QED
    BY <2>1, <2>4, <2>5 DEF BooksBalance
<1>3. HashedInv /\ AgreedInv /\ BooksBalance /\ [WithdrawalNext]_withdrawalVars => BooksBalance'
  BY BooksStep DEF BooksInv
<1> QED
  BY <1>1, <1>2, <1>3, HashedInvariance, PTL DEF WithdrawalSpec

-----------------------------------------------------------------------------
(***************************************************************************)
(* Payments.  What follows is about a system nothing disturbs: no fault of *)
(* Redis or of the process, a node that answers when it paid, and no       *)
(* balance asked for over HTTP meanwhile.  Without one of these a payment  *)
(* may go unrecorded, or its detached store be still under way, when the   *)
(* next job looks for the request or reads the balance.  Requests are for  *)
(* something: the handler lets a request for nothing through, and the read *)
(* of a wallet without a key makes its store wait for a lease to end.      *)
(***************************************************************************)
Undisturbed ==
  /\ Faults = {} /\ "lostReply" \notin NodeFaults
  /\ ReaderCalls = {}
  /\ \A r \in Requests : r.amount > 0
  /\ WritersAgree

(***************************************************************************)
(* The store of the last payment is under way only while the worker        *)
(* reports, it has the lock by then, and the worker's read waits for it.   *)
(***************************************************************************)
CallsQuiet ==
  /\ \A c \in Calls : pc[c] \notin {"rejected", "dead"}
  /\ op[WorkerCall].kind \in {"none", "read"}
  /\ pc[WorkerCall] \notin Settled =>
       worker.at \in {"balance", "reply"} /\ op[WorkerCall] = ReadOp(Request.wallet)
  /\ \A c \in StoreCalls : pc[c] \notin Settled =>
       /\ worker.at \in {"report", "reply"}
       /\ op[c] = StoreOp(Request, worker.hash) /\ pc[c] \in {"get", "exec", "unlock"}
       /\ worker.at = "reply" => pc[WorkerCall] \notin Settled

\* A lock left to its TTL is one of a wallet without a key, and such a wallet is not paid.
KeysKnown ==
  /\ \A w \in Wallets : lock[w] = Orphan => w \notin known
  /\ \A p \in payments : p.request.wallet \in known

\* Every payment is in the books, but for the one the worker or its store is about.
Flying == worker.at \in {"record", "debit"} \/ \E c \in StoreCalls : pc[c] \in Unwritten

Payment == [request |-> Request, hash |-> worker.hash]

PaymentEntry(p) == Entry(StoreOp(p.request, p.hash))

Filed ==
  /\ \A p \in payments : PaymentEntry(p) \in entries \/ (Flying /\ p = Payment)
  /\ Flying => Payment \in payments /\ PaymentEntry(Payment) \notin entries

\* A request that passed the first question was not paid before.
NewRequest ==
  /\ worker.at \in {"checked", "balance", "hot", "postpone", "replaced", "send"} =>
       \A p \in payments : ~SameName(p.request, Request)
  /\ worker.at \in {"record", "debit"} =>
       \A p \in payments : SameName(p.request, Request) => p = Payment

\* The balance the worker read is still the balance when it asks for the payment.
Covered ==
  /\ worker.at = "balance" /\ pc[WorkerCall] \in {"unlock", "resolved"} =>
       read[WorkerCall] = balance[Request.wallet]
  /\ worker.at \in {"hot", "postpone", "send"} => Request.amount <= balance[Request.wallet]

\* What was paid and is not yet taken from the balance.
Due(w) == IF Flying /\ Request.wallet = w THEN Request.amount ELSE 0

Money ==
  \A w \in Wallets :
    balance[w] + PaidTo(w) - Due(w) = Opening[w] /\ Due(w) <= balance[w] /\ 0 <= balance[w]

SafeInv ==
  /\ HashedInv /\ AgreedInv
  /\ CallsQuiet /\ KeysKnown /\ Filed /\ NewRequest /\ PaidAtMostOnce /\ Covered /\ Money

(***************************************************************************)
(* What the steps are, when nothing disturbs.                              *)
(***************************************************************************)
Stays == UNCHANGED <<storageVars, worker, payments>>

Leaves ==
  /\ UNCHANGED <<storageVars, payments>>
  /\ worker'.at \in {"idle", "contains"}
  /\ worker.at \in {"idle", "contains", "balance", "hot", "replaced", "send", "reply"}
  /\ worker.at \in {"balance", "reply"} => pc[WorkerCall] \in Settled

Goes(from, to) ==
  worker.at = from /\ worker'.at = to /\ worker'.id = worker.id /\ worker'.hash = worker.hash

Advances ==
  /\ UNCHANGED <<storageVars, payments>>
  /\ \/ Goes("contains", "checked") /\ ~ContainsRequest(Request)
     \/ Goes("balance", "hot") /\ pc[WorkerCall] = "resolved" /\ read[WorkerCall] >= Request.amount
     \/ Goes("hot", "postpone") \/ Goes("hot", "send")
     \/ Goes("postpone", "report") \/ Goes("postpone", "replaced")
     \/ Goes("record", "report") /\ ContainsRequest(Request)
     \/ Goes("record", "debit")

Sends ==
  /\ UNCHANGED storageVars
  /\ worker.at = "send" /\ worker'.at = "record" /\ worker'.id = worker.id
  /\ payments' = payments \cup {[request |-> Request, hash |-> worker'.hash]}

AsksBalance ==
  /\ UNCHANGED payments
  /\ Goes("checked", "balance") \/ Goes("report", "reply")
  /\ Invoke(WorkerCall, ReadOp(Request.wallet))

Stores(c) ==
  /\ UNCHANGED payments
  /\ Goes("debit", "report")
  /\ Invoke(c, StoreOp(Request, worker.hash))

Serves(c) == UNCHANGED <<worker, payments>> /\ CallStep(c)

Lapses ==
  /\ UNCHANGED <<worker, payments, dataVars, callVars>>
  /\ \A n \in Names : lock'[n] \in {lock[n], Free}

SafeMove ==
  \/ Stays \/ Leaves \/ Advances \/ Sends \/ AsksBalance
  \/ \E c \in StoreCalls : Stores(c)
  \/ \E c \in Calls : Serves(c)
  \/ Lapses

LEMMA GoesFacts ==
  ASSUME WithdrawalTypeOK, worker.at # "idle", NEW p \in Places, GoesTo(p)
  PROVE  Goes(worker.at, p)
  BY WorkerFacts DEF GoesTo, Goes

LEMMA SafeCases ==
  ASSUME Undisturbed, WithdrawalTypeOK, [WithdrawalNext]_withdrawalVars
  PROVE  SafeMove
<1>0. ~RedisFails
  BY DEF Undisturbed, RedisFails
<1>1. ASSUME worker.at \in {"contains", "balance", "hot", "replaced", "send", "reply"},
             worker.at \in {"balance", "reply"} => pc[WorkerCall] \in Settled,
             UNCHANGED <<storageVars, payments>>, worker' = Idle
      PROVE  SafeMove
  BY <1>1 DEF Leaves, SafeMove, Idle
<1>2. CASE WorkerStep
  <2>1. ASSUME NEW j \in WithdrawalJobs, Start(j) PROVE SafeMove
    BY <2>1 DEF Start, Leaves, SafeMove, NodeSame
  <2>2. CASE Check
    <3>1. CASE ContainsRequest(Request)
      BY <1>1, <2>2, <3>1 DEF Check, JobFails, NodeSame
    <3>2. CASE ~ContainsRequest(Request)
      BY <1>0, <2>2, <3>2, GoesFacts DEF Check, Advances, SafeMove, Places, NodeSame
    <3> QED
      BY <3>1, <3>2
  <2>3. CASE ReadBalance
    BY <2>3, GoesFacts DEF ReadBalance, AsksBalance, SafeMove, Places, NodeSame
  <2>4. CASE CheckBalance
    <3>1. CASE JobFails
      BY <1>1, <2>4, <3>1 DEF CheckBalance, JobFails, NodeSame, Settled
    <3>2. CASE ~JobFails
      BY <2>4, <3>2, GoesFacts DEF CheckBalance, Advances, SafeMove, Places, NodeSame
    <3> QED
      BY <3>1, <3>2
  <2>5. CASE CheckHotWallet
    <3>1. CASE GoesTo("postpone") \/ GoesTo("send")
      BY <2>5, <3>1, GoesFacts DEF CheckHotWallet, Advances, SafeMove, Places, NodeSame
    <3>2. CASE JobFails
      BY <1>1, <2>5, <3>2 DEF CheckHotWallet, JobFails, NodeSame
    <3> QED
      BY <2>5, <3>1, <3>2 DEF CheckHotWallet
  <2>6. CASE Postpone
    <3>1. GoesTo("report") \/ GoesTo("replaced")
      BY <2>6 DEF Postpone
    <3> QED
      BY <2>6, <3>1, GoesFacts DEF Postpone, Advances, SafeMove, Places, NodeSame
  <2>7. CASE Replaced
    BY <1>1, <2>7 DEF Replaced, JobFails, NodeSame
  <2>8. CASE Send
    BY <2>8, WorkerFacts DEF Send, Pay, Sends, SafeMove
  <2>9. CASE Record
    <3>1. CASE ContainsRequest(Request)
      BY <1>0, <2>9, <3>1, GoesFacts DEF Record, Advances, SafeMove, Places, NodeSame
    <3>2. CASE ~ContainsRequest(Request)
      BY <1>0, <2>9, <3>2, GoesFacts DEF Record, Advances, SafeMove, Places, NodeSame
    <3> QED
      BY <3>1, <3>2
  <2>10. CASE Debit
    BY <2>10, GoesFacts DEF Debit, Stores, SafeMove, Places, NodeSame
  <2>11. CASE Report
    BY <2>11, GoesFacts DEF Report, AsksBalance, SafeMove, Places, NodeSame
  <2>12. CASE Reply
    BY <1>1, <2>12 DEF Reply, JobFails, NodeSame, Settled
  <2> QED
    BY <1>2, <2>1, <2>2, <2>3, <2>4, <2>5, <2>6, <2>7, <2>8, <2>9, <2>10, <2>11, <2>12
    DEF WorkerStep
<1>3. CASE SendFails
  BY <1>1, <1>3 DEF SendFails, JobFails, NodeSame, Undisturbed
<1>4. CASE StorageStep
  <2>1. ASSUME NEW c \in Calls, CallStep(c) PROVE SafeMove
    BY <1>4, <2>1 DEF StorageStep, Serves, SafeMove, NodeSame
  <2>2. ASSUME NEW c \in Calls, RedisError(c) PROVE SafeMove
    BY <1>0, <2>2 DEF RedisError
  <2>3. CASE LeaseStep
    BY <1>4, <2>3 DEF StorageStep, NodeSame, Lapses, SafeMove, LeaseStep, Expire, ExpireSwap, dataVars, callVars,
       WithdrawalTypeOK, StorageTypeOK
  <2> QED
    BY <1>4, <2>1, <2>2, <2>3 DEF StorageStep
<1>5. CASE Stays
  BY <1>5 DEF SafeMove
<1> QED
  BY <1>2, <1>3, <1>4, <1>5
  DEF WithdrawalNext, Submit, PromoteJob, StallJob, RefillHotWallet, ReadOverHttp, Restart, Crash,
      Undisturbed, NodeSame, Stays, withdrawalVars

-----------------------------------------------------------------------------
(***************************************************************************)
(* The calls, when nothing disturbs.                                       *)
(***************************************************************************)
LEMMA SafeFacts ==
  ASSUME Undisturbed, SafeInv
  PROVE  /\ WithdrawalTypeOK /\ StorageTypeOK /\ BaseInv /\ PaidFirst
         /\ Calls = {WorkerCall} \cup StoreCalls
         /\ Wallets \subseteq Names
         /\ worker.at # "idle" => Request \in Requests /\ Request.wallet \in Wallets
              /\ Request.amount \in Nat /\ Request.amount > 0
              /\ ReadOp(Request.wallet) \in Ops /\ StoreOp(Request, worker.hash) \in Ops
<1>1. WithdrawalTypeOK /\ StorageTypeOK /\ BaseInv /\ PaidFirst
  BY DEF SafeInv, HashedInv, PaidFirst, WithdrawalBase, WithdrawalTypeOK
<1> QED
  BY <1>1, WithdrawalsAssumption, OpsAssumption, WorkerFacts DEF Undisturbed

LEMMA StoreOwns ==
  ASSUME SafeInv, NEW c \in StoreCalls, pc[c] \notin Settled
  PROVE  /\ worker.at \in {"report", "reply"} /\ op[c] = StoreOp(Request, worker.hash)
         /\ pc[c] \in {"get", "exec", "unlock"} /\ lock[Request.wallet] = c
<1>1. /\ worker.at \in {"report", "reply"} /\ op[c] = StoreOp(Request, worker.hash)
      /\ pc[c] \in {"get", "exec", "unlock"}
  BY DEF SafeInv, CallsQuiet
<1>2. LockName(op[c]) = Request.wallet /\ ~IsSwapToWPaw(op[c])
  BY <1>1 DEF LockName, StoreOp, IsSwapToWPaw
<1>3. OwnsLock(c)
  BY CallFacts DEF SafeInv, AgreedInv, Exclusion
<1> QED
  BY <1>1, <1>2, <1>3 DEF OwnsLock, Critical

LEMMA WorkerOwns ==
  ASSUME SafeInv, pc[WorkerCall] \in Critical
  PROVE  lock[Request.wallet] = WorkerCall
<1>1. op[WorkerCall] = ReadOp(Request.wallet)
  BY DEF SafeInv, CallsQuiet, Critical, Settled
<1>2. LockName(op[WorkerCall]) = Request.wallet /\ ~IsSwapToWPaw(op[WorkerCall])
  BY <1>1 DEF LockName, ReadOp, IsSwapToWPaw
<1>3. OwnsLock(WorkerCall)
  BY CallFacts DEF SafeInv, AgreedInv, Exclusion
<1> QED
  BY <1>2, <1>3 DEF OwnsLock

\* While a store is under way the worker's read is not in the lock, and no other store is.
LEMMA OneStore ==
  ASSUME SafeInv, NEW c \in StoreCalls, pc[c] \notin Settled
  PROVE  pc[WorkerCall] \notin Critical /\ \A d \in StoreCalls \ {c} : pc[d] \in Settled
  BY StoreOwns, WorkerOwns, CallFacts

WorkerServed ==
  /\ UNCHANGED dataVars
  /\ \A d \in StoreCalls : pc'[d] = pc[d] /\ op'[d] = op[d]
  /\ pc[WorkerCall] \notin Settled
  /\ \/ pc'[WorkerCall] = "get" /\ op'[WorkerCall] = op[WorkerCall]
     \/ /\ pc'[WorkerCall] = "unlock" /\ op'[WorkerCall] = op[WorkerCall]
        /\ read'[WorkerCall] = balance[Request.wallet]
     \/ /\ pc[WorkerCall] = "get" /\ pc'[WorkerCall] = "resolved" /\ op'[WorkerCall] = NoOp
        /\ read'[WorkerCall] = balance[Request.wallet]
     \/ /\ pc[WorkerCall] = "unlock" /\ pc'[WorkerCall] = "resolved" /\ op'[WorkerCall] = NoOp
        /\ read'[WorkerCall] = read[WorkerCall]
  /\ \A w \in Wallets : lock'[w] = Orphan => lock[w] = Orphan \/ w \notin known

StoreServed(c) ==
  /\ \A d \in Calls \ {c} : pc'[d] = pc[d] /\ op'[d] = op[d] /\ read'[d] = read[d]
  /\ \/ pc[c] = "get" /\ pc'[c] = "exec" /\ op'[c] = op[c] /\ UNCHANGED dataVars
     \/ Exec(c) /\ pc'[c] = "unlock" /\ op'[c] = op[c]
     \/ pc[c] = "unlock" /\ pc'[c] = "resolved" /\ op'[c] = NoOp /\ UNCHANGED dataVars
  /\ \A w \in Wallets : lock'[w] = Orphan => lock[w] = Orphan

LEMMA WorkerServedStep ==
  ASSUME Undisturbed, SafeInv, CallStep(WorkerCall)
  PROVE  WorkerServed
<1>1. /\ WorkerCall \in Calls /\ WorkerCall \notin StoreCalls /\ StoreCalls \subseteq Calls
      /\ StorageTypeOK /\ Wallets \subseteq Names
      /\ WorkerCall # Orphan
  BY SafeFacts, CallFacts, StorageAssumption
<1>2. pc[WorkerCall] \notin Settled
  BY DEF CallStep, Acquire, AcquireSwap, LockError, SwapLockError, Recheck, Get, Exec, Unlock, UnlockSwap,
     Settled
<1>3. /\ op[WorkerCall] = ReadOp(Request.wallet) /\ worker.at # "idle"
      /\ Request.wallet \in Wallets
  BY <1>2, SafeFacts DEF SafeInv, CallsQuiet
<1>4. /\ op[WorkerCall].kind = "read" /\ op[WorkerCall].wallet = Request.wallet
      /\ LockName(op[WorkerCall]) = Request.wallet
  BY <1>3 DEF ReadOp, LockName
<1>5. pc[WorkerCall] \notin {"exec", "recheck", "swapLock", "swapUnlock"}
  BY <1>1, <1>4, SafeFacts DEF BaseInv, ServesOps, ServesOp, Writes, IsSwapToWPaw
<1>6. \A holder : ~RetriesRunOut(holder)
  BY DEF Undisturbed, RetriesRunOut, RedisFails
<1> USE <1>1, <1>2, <1>3, <1>4, <1>5 DEF StorageTypeOK, Goto, Settle, WorkerServed
<1>7. CASE Acquire(WorkerCall)
  BY <1>7 DEF Acquire, TryLock, Entered, AttemptFails, RedisFails, Undisturbed
<1>8. CASE Get(WorkerCall)
  <2>1. Stored(Request.wallet) = balance[Request.wallet]
        /\ (Request.wallet \notin known => balance[Request.wallet] = 0)
    BY DEF SafeInv, AgreedInv, UnknownIsZero, Stored
  <2>2. CASE Request.wallet \in known
    BY <1>8, <2>1, <2>2 DEF Get, IsSwapToWPaw, ReadsOnly
  <2>3. CASE Request.wallet \notin known
    BY <1>8, <2>1, <2>3 DEF Get, IsSwapToWPaw, ReadsOnly, Abandon, Settled
  <2> QED
    BY <2>2, <2>3
<1>9. CASE Unlock(WorkerCall)
  BY <1>9, StorageAssumption DEF Unlock, PassUnlock, Release, IsSwapToWPaw, Settled, Free, Orphan
<1> QED
  BY <1>5, <1>6, <1>7, <1>8, <1>9
  DEF CallStep, AcquireSwap, LockError, SwapLockError, Recheck, Exec, UnlockSwap

LEMMA StoreServedStep ==
  ASSUME Undisturbed, SafeInv, NEW c \in StoreCalls, CallStep(c)
  PROVE  StoreServed(c) /\ pc[c] \notin Settled
<1>1. c \in Calls /\ StorageTypeOK /\ Wallets \subseteq Names
  BY SafeFacts, CallFacts
<1>2. pc[c] \notin Settled
  BY DEF CallStep, Acquire, AcquireSwap, LockError, SwapLockError, Recheck, Get, Exec, Unlock, UnlockSwap,
     Settled
<1>3. pc[c] \in {"get", "exec", "unlock"} /\ op[c] = StoreOp(Request, worker.hash)
  BY <1>2, StoreOwns
<1>4. op[c].kind = "withdrawal" /\ ~IsSwapToWPaw(op[c]) /\ ~ReadsOnly(op[c])
  BY <1>3 DEF StoreOp, IsSwapToWPaw, ReadsOnly
<1> USE <1>1, <1>2, <1>3, <1>4 DEF StorageTypeOK, Goto, Settle, StoreServed
<1>5. CASE Get(c)
  BY <1>5 DEF Get
<1>6. CASE Exec(c)
  BY <1>6 DEF Exec, AfterExec, lockVars
<1>7. CASE Unlock(c)
  BY <1>7 DEF Unlock, PassUnlock, Release, Free, Orphan
<1> QED
  BY <1>2, <1>5, <1>6, <1>7
  DEF CallStep, Acquire, AcquireSwap, LockError, SwapLockError, Recheck, UnlockSwap

(***************************************************************************)
(* Each part of the invariant, kept by each step.                          *)
(***************************************************************************)
LEMMA RequestSame ==
  ASSUME NEW from, NEW to, Goes(from, to)
  PROVE  Request' = Request /\ Payment' = Payment /\ worker'.hash = worker.hash
  BY DEF Goes, Request, Payment

LEMMA InvokeWhere ==
  ASSUME Undisturbed, StorageTypeOK, NEW c \in Calls, NEW o \in Ops, o.kind \in {"read", "withdrawal"}, Invoke(c, o)
  PROVE  /\ pc'[c] \in {"lock", "get"} /\ op'[c] = o
         /\ \A d \in Calls \ {c} : pc'[d] = pc[d] /\ op'[d] = op[d] /\ read'[d] = read[d]
         /\ lock[LockName(o)] = Free => pc'[c] = "get"
         /\ UNCHANGED dataVars
         /\ \A n \in Names : n # LockName(o) => lock'[n] = lock[n]
         /\ lock'[LockName(o)] \in {lock[LockName(o)], c}
<1>1. LockName(o) \in Names
  BY OpFacts
<1> QED
  BY <1>1
  DEF Invoke, TryLock, AttemptFails, RedisFails, Undisturbed, Entered, IsSwapToWPaw, StorageTypeOK, Goto

\* When every call is over, the lock of a wallet with a key is free.
LEMMA LockIsFree ==
  ASSUME SafeInv, NEW w \in Wallets, w \in known, \A c \in Calls : pc[c] \in Settled
  PROVE  lock[w] = Free
<1>1. w \in Names /\ lock[w] \in Calls \cup {Free, Orphan}
  BY OpsAssumption DEF SafeInv, HashedInv, PaidFirst, WithdrawalBase, WithdrawalTypeOK, StorageTypeOK
<1>2. lock[w] # Orphan
  BY DEF SafeInv, KeysKnown
<1>3. lock[w] \notin Calls
  BY <1>1 DEF SafeInv, HashedInv, PaidFirst, WithdrawalBase, BaseInv, LocksMatch, LockIsOf, Critical, Settled
<1> QED
  BY <1>1, <1>2, <1>3

LEMMA CallsQuietStep ==
  ASSUME Undisturbed, SafeInv, SafeMove
  PROVE  CallsQuiet'
<1>0. CallsQuiet /\ WorkerCall \in Calls /\ WorkerCall \notin StoreCalls /\ StoreCalls \subseteq Calls
  BY CallFacts DEF SafeInv
<1>1. CASE Stays
  BY <1>0, <1>1 DEF CallsQuiet, Stays, storageVars, Request
<1>2. CASE Leaves
  BY <1>0, <1>2 DEF CallsQuiet, Leaves, storageVars
<1>3. CASE Advances
  <2>1. /\ pc' = pc /\ op' = op /\ pc[WorkerCall] \in Settled
        /\ \A c \in StoreCalls : pc[c] \in Settled
    BY <1>0, <1>3 DEF Advances, Goes, CallsQuiet, storageVars, Settled
  <2> QED
    BY <1>0, <2>1 DEF CallsQuiet
<1>4. CASE Sends
  BY <1>0, <1>4 DEF CallsQuiet, Sends, storageVars
<1>5. CASE AsksBalance
  <2>1. worker.at # "idle" /\ Request' = Request /\ worker'.hash = worker.hash
    BY <1>5, RequestSame DEF AsksBalance, Goes
  <2>2. ReadOp(Request.wallet) \in Ops /\ ReadOp(Request.wallet).kind = "read"
    BY <2>1, SafeFacts DEF ReadOp
  <2>3. /\ pc'[WorkerCall] \in {"lock", "get"} /\ op'[WorkerCall] = ReadOp(Request.wallet)
        /\ \A d \in Calls \ {WorkerCall} : pc'[d] = pc[d] /\ op'[d] = op[d]
    BY <1>0, <1>5, <2>2, InvokeWhere, SafeFacts DEF AsksBalance
  <2> QED
    BY <1>0, <1>5, <2>1, <2>2, <2>3 DEF CallsQuiet, AsksBalance, Goes, Settled
<1>6. ASSUME NEW c \in StoreCalls, Stores(c) PROVE CallsQuiet'
  <2>1. worker.at = "debit" /\ Request' = Request /\ worker'.hash = worker.hash /\ worker'.at = "report"
    BY <1>6, RequestSame DEF Stores, Goes
  <2>2. /\ StoreOp(Request, worker.hash) \in Ops /\ StoreOp(Request, worker.hash).kind = "withdrawal"
        /\ LockName(StoreOp(Request, worker.hash)) = Request.wallet /\ Request.wallet \in Wallets
    BY <2>1, SafeFacts DEF StoreOp, LockName
  <2>3. \A d \in Calls : pc[d] \in Settled
    BY <1>0, <2>1, SafeFacts DEF CallsQuiet
  <2>4. Request.wallet \in known
    BY <2>1 DEF SafeInv, HashedInv, PaidFirst, Paying, KeysKnown
  <2>5. lock[Request.wallet] = Free
    BY <2>2, <2>3, <2>4, LockIsFree
  <2>6. /\ pc'[c] = "get" /\ op'[c] = StoreOp(Request, worker.hash)
        /\ \A d \in Calls \ {c} : pc'[d] = pc[d] /\ op'[d] = op[d]
    BY <1>0, <1>6, <2>2, <2>5, InvokeWhere, SafeFacts DEF Stores
  <2> QED
    BY <1>0, <2>1, <2>2, <2>3, <2>6 DEF CallsQuiet, Settled
<1>7. CASE Serves(WorkerCall)
  <2>1. WorkerServed /\ worker' = worker
    BY <1>7, WorkerServedStep DEF Serves
  <2>2. pc'[WorkerCall] = "resolved" => \A d \in StoreCalls : pc[d] \in Settled
    BY <2>1, OneStore DEF WorkerServed, Critical
  <2> QED
    BY <1>0, <2>1, <2>2, SafeFacts DEF CallsQuiet, WorkerServed, Request, NoOp, Settled
<1>8. ASSUME NEW c \in StoreCalls, Serves(c) PROVE CallsQuiet'
  <2>1. StoreServed(c) /\ pc[c] \notin Settled /\ worker' = worker
    BY <1>8, StoreServedStep DEF Serves
  <2> QED
    BY <1>0, <2>1, SafeFacts DEF CallsQuiet, StoreServed, Request, NoOp, Settled
<1>9. CASE Lapses
  BY <1>0, <1>9 DEF CallsQuiet, Lapses, callVars, Request
<1> QED
  BY <1>1, <1>2, <1>3, <1>4, <1>5, <1>6, <1>7, <1>8, <1>9, SafeFacts DEF SafeMove

LEMMA KeysKnownStep ==
  ASSUME Undisturbed, SafeInv, SafeMove
  PROVE  KeysKnown'
<1>0. /\ KeysKnown /\ WorkerCall \in Calls /\ StoreCalls \subseteq Calls /\ Wallets \subseteq Names
      /\ Orphan \notin Calls /\ StorageTypeOK
  BY CallFacts, SafeFacts, StorageAssumption DEF SafeInv
<1>1. CASE Stays \/ Leaves \/ Advances
  BY <1>0, <1>1 DEF KeysKnown, Stays, Leaves, Advances, storageVars
<1>2. CASE Sends
  <2>1. Request.wallet \in known
    <3>1. Request.amount <= balance[Request.wallet] /\ Request.wallet \in Wallets
          /\ Request.amount > 0 /\ Request.amount \in Nat
      BY <1>2, SafeFacts DEF Sends, SafeInv, Covered
    <3>2. balance[Request.wallet] # 0
      BY <1>0, <3>1 DEF StorageTypeOK
    <3> QED
      BY <3>1, <3>2 DEF SafeInv, AgreedInv, UnknownIsZero
  <2> QED
    BY <1>0, <1>2, <2>1 DEF KeysKnown, Sends, storageVars
<1>3. ASSUME NEW c \in Calls, NEW o \in Ops, o.kind \in {"read", "withdrawal"}, Invoke(c, o),
             UNCHANGED payments
      PROVE  KeysKnown'
  BY <1>0, <1>3, InvokeWhere DEF KeysKnown, dataVars
<1>4. CASE AsksBalance
  <2>1. ReadOp(Request.wallet) \in Ops /\ ReadOp(Request.wallet).kind = "read"
    BY <1>4, SafeFacts DEF ReadOp, AsksBalance, Goes
  <2> QED
    BY <1>0, <1>3, <1>4, <2>1 DEF AsksBalance
<1>5. ASSUME NEW c \in StoreCalls, Stores(c) PROVE KeysKnown'
  <2>1. StoreOp(Request, worker.hash) \in Ops /\ StoreOp(Request, worker.hash).kind = "withdrawal"
    BY <1>5, SafeFacts DEF StoreOp, Stores, Goes
  <2> QED
    BY <1>0, <1>3, <1>5, <2>1 DEF Stores
<1>6. CASE Serves(WorkerCall)
  BY <1>0, <1>6, WorkerServedStep DEF KeysKnown, Serves, WorkerServed, dataVars
<1>7. ASSUME NEW c \in StoreCalls, Serves(c) PROVE KeysKnown'
  <2>1. StoreServed(c) /\ UNCHANGED payments
    BY <1>7, StoreServedStep DEF Serves
  <2>2. known' = known
    <3>1. CASE Exec(c)
      <4>1. PICK p \in payments : op[c] = StoreOp(p.request, p.hash)
        BY <1>0, <3>1, ExecWrites, SafeFacts
      <4>2. op[c].wallet \in known
        BY <1>0, <4>1 DEF StoreOp, KeysKnown
      <4> QED
        BY <3>1, <4>2 DEF Exec
    <3> QED
      BY <2>1, <3>1 DEF StoreServed, dataVars
  <2> QED
    BY <1>0, <2>1, <2>2 DEF KeysKnown, StoreServed
<1>8. CASE Lapses
  BY <1>0, <1>8 DEF KeysKnown, Lapses, dataVars, Free, Orphan
<1> QED
  BY <1>1, <1>2, <1>4, <1>5, <1>6, <1>7, <1>8, SafeFacts DEF SafeMove

(***************************************************************************)
(* What "check if request was already processed" answers: when every       *)
(* payment is filed, whether a request of that name was paid; and while    *)
(* one is not filed, no for that one.                                      *)
(***************************************************************************)
FiledAs(r) == {e \in entries : e.kind = "withdrawal" /\ e.wallet = r.wallet /\ e.stamp = r.stamp}

LEMMA FiledIsPaid ==
  ASSUME SafeInv, NEW r, NEW e \in FiledAs(r)
  PROVE  \E p \in payments : e = PaymentEntry(p) /\ SameName(p.request, r)
<1>1. PICK p \in payments : e = Entry(StoreOp(p.request, p.hash))
  BY DEF FiledAs, SafeInv, HashedInv, PaidFirst, DebitFollowsPayment
<1>2. p.request.wallet = r.wallet /\ p.request.stamp = r.stamp
  BY <1>1 DEF FiledAs, Entry, StoreOp
<1> QED
  BY <1>1, <1>2 DEF PaymentEntry, SameName

LEMMA ContainsPaid ==
  ASSUME SafeInv, NEW r, NEW p \in payments, SameName(p.request, r), PaymentEntry(p) \in entries
  PROVE  ContainsRequest(r)
<1>1. PaymentEntry(p) \in FiledAs(r)
  BY DEF PaymentEntry, FiledAs, Entry, StoreOp, SameName
<1>2. ASSUME NEW e \in FiledAs(r) PROVE e = PaymentEntry(p)
  <2>1. PICK q \in payments : e = PaymentEntry(q) /\ SameName(q.request, r)
    BY FiledIsPaid
  <2>2. q = p
    BY <2>1 DEF SafeInv, PaidAtMostOnce, SameName
  <2> QED
    BY <2>1, <2>2
<1>3. FiledAs(r) = {PaymentEntry(p)}
  BY <1>1, <1>2
<1> QED
  BY <1>3, FS_Singleton DEF ContainsRequest, FiledAs

LEMMA NotContained ==
  ASSUME SafeInv, worker.at \in {"record", "debit"}
  PROVE  ~ContainsRequest(Request)
<1>1. SUFFICES ASSUME ContainsRequest(Request) PROVE FALSE
  OBVIOUS
<1>2. FiledAs(Request) # {}
  BY <1>1, FS_EmptySet DEF ContainsRequest, FiledAs
<1>3. PICK e \in FiledAs(Request) : TRUE
  BY <1>2
<1>4. PICK p \in payments : e = PaymentEntry(p) /\ SameName(p.request, Request)
  BY FiledIsPaid
<1>5. p = Payment
  BY <1>4 DEF SafeInv, NewRequest
<1> QED
  BY <1>4, <1>5 DEF SafeInv, Filed, Flying, FiledAs

LEMMA NewRequestStep ==
  ASSUME Undisturbed, SafeInv, SafeMove
  PROVE  NewRequest' /\ PaidAtMostOnce'
<1>0. NewRequest /\ PaidAtMostOnce
  BY DEF SafeInv
<1> DEFINE Goal == NewRequest' /\ PaidAtMostOnce'
<1>1. CASE UNCHANGED <<worker, payments>>
  BY <1>0, <1>1 DEF NewRequest, PaidAtMostOnce, Request, Payment
<1>2. CASE Leaves
  BY <1>0, <1>2 DEF NewRequest, PaidAtMostOnce, Leaves
<1>3. CASE Advances
  <2>1. Request' = Request /\ Payment' = Payment /\ UNCHANGED payments
    BY <1>3, RequestSame DEF Advances
  <2>2. CASE Goes("contains", "checked") /\ ~ContainsRequest(Request)
    <3>1. \A p \in payments : ~SameName(p.request, Request)
      <4>1. SUFFICES ASSUME NEW p \in payments, SameName(p.request, Request) PROVE FALSE
        OBVIOUS
      <4>2. PaymentEntry(p) \notin entries
        BY <2>2, <4>1, ContainsPaid
      <4>3. Flying
        BY <4>2 DEF SafeInv, Filed
      <4>4. PICK c \in StoreCalls : pc[c] \in Unwritten
        BY <2>2, <4>3 DEF Flying, Goes
      <4> QED
        BY <2>2, <4>4, StoreOwns DEF Unwritten, Settled, Goes
    <3> QED
      BY <1>0, <2>1, <2>2, <3>1 DEF NewRequest, PaidAtMostOnce, Goes
  <2>3. CASE Goes("record", "report") \/ Goes("record", "debit")
    BY <1>0, <2>1, <2>3 DEF NewRequest, PaidAtMostOnce, Goes
  <2>4. CASE \/ Goes("balance", "hot") \/ Goes("hot", "postpone") \/ Goes("hot", "send")
             \/ Goes("postpone", "report") \/ Goes("postpone", "replaced")
    BY <1>0, <2>1, <2>4 DEF NewRequest, PaidAtMostOnce, Goes
  <2> QED
    BY <1>3, <2>2, <2>3, <2>4 DEF Advances
<1>4. CASE Sends
  <2>1. /\ Request' = Request /\ worker'.at = "record"
        /\ payments' = payments \cup {Payment'}
        /\ Payment'.request = Request
    BY <1>4 DEF Sends, Request, Payment
  <2>2. \A p \in payments : ~SameName(p.request, Request)
    BY <1>0, <1>4 DEF NewRequest, Sends
  <2> HIDE DEF Goal
  <2>3. NewRequest'
    BY <2>1, <2>2 DEF NewRequest
  <2>4. PaidAtMostOnce'
    BY <1>0, <2>1, <2>2 DEF PaidAtMostOnce, SameName
  <2> QED
    BY <2>3, <2>4
<1>5. CASE AsksBalance
  BY <1>0, <1>5, RequestSame DEF AsksBalance, Goes, NewRequest, PaidAtMostOnce
<1>6. ASSUME NEW c \in StoreCalls, Stores(c) PROVE Goal
  BY <1>0, <1>6 DEF Stores, Goes, NewRequest, PaidAtMostOnce
<1> QED
  BY <1>1, <1>2, <1>3, <1>4, <1>5, <1>6 DEF SafeMove, Stays, Serves, Lapses

\* When the worker is neither at the record nor at the report, nothing is under way.
LEMMA NotFlying ==
  ASSUME SafeInv, worker.at \notin {"record", "debit", "report", "reply"}
  PROVE  ~Flying
  BY StoreOwns DEF Flying, Unwritten, Settled

LEMMA FlyingNow ==
  ASSUME SafeInv
  PROVE  Flying <=> worker.at \in {"record", "debit"} \/ \E c \in StoreCalls : pc[c] \in {"get", "exec"}
  BY StoreOwns DEF Flying, Unwritten, Settled

LEMMA FiledStep ==
  ASSUME Undisturbed, SafeInv, SafeMove, HashedInv'
  PROVE  Filed'
<1>0. /\ Filed /\ WorkerCall \in Calls /\ WorkerCall \notin StoreCalls /\ StoreCalls \subseteq Calls
      /\ StorageTypeOK
  BY CallFacts, SafeFacts DEF SafeInv
<1>1. CASE Stays
  <2>1. entries' = entries /\ payments' = payments /\ Payment' = Payment /\ Flying' = Flying
    BY <1>1 DEF Stays, storageVars, Payment, Request, Flying
  <2> QED
    BY <1>0, <2>1 DEF Filed, PaymentEntry
<1>2. CASE Leaves
  <2>1. ~Flying
    <3>1. CASE worker.at = "reply"
      <4>1. \A c \in StoreCalls : pc[c] \in Settled
        BY <1>2, <3>1 DEF Leaves, SafeInv, CallsQuiet
      <4> QED
        BY <3>1, <4>1 DEF Flying, Unwritten, Settled
    <3>2. CASE worker.at # "reply"
      BY <1>2, <3>2, NotFlying DEF Leaves
    <3> QED
      BY <3>1, <3>2
  <2>2. ~Flying'
    BY <1>2, <2>1 DEF Flying, Leaves, storageVars
  <2> QED
    BY <1>0, <1>2, <2>1, <2>2 DEF Filed, Leaves, storageVars, PaymentEntry
<1>3. CASE Advances
  <2>1. Payment' = Payment /\ entries' = entries /\ payments' = payments /\ pc' = pc
    BY <1>3, RequestSame DEF Advances, storageVars
  <2>2. CASE Goes("record", "debit")
    BY <1>0, <2>1, <2>2 DEF Filed, Flying, Goes, PaymentEntry
  <2>3. ~(Goes("record", "report") /\ ContainsRequest(Request))
    BY NotContained DEF Goes
  <2>4. CASE worker.at \in {"contains", "balance", "hot", "postpone"} /\ worker'.at \notin {"record", "debit"}
    <3>1. ~Flying
      BY <2>4, NotFlying
    <3>2. ~Flying'
      BY <2>1, <2>4, <3>1 DEF Flying
    <3> QED
      BY <1>0, <2>1, <3>1, <3>2 DEF Filed, PaymentEntry
  <2> QED
    BY <1>3, <2>2, <2>3, <2>4 DEF Advances, Goes
<1>4. CASE Sends
  <2>1. /\ Payment' = [request |-> Request, hash |-> worker'.hash] /\ payments' = payments \cup {Payment'}
        /\ entries' = entries /\ worker'.at = "record"
    BY <1>4 DEF Sends, storageVars, Payment, Request
  <2>2. ~Flying
    BY <1>4, NotFlying DEF Sends
  <2>3. Flying'
    BY <2>1 DEF Flying
  <2>4. \A e \in entries' : e.hash # worker'.hash
    BY <2>1 DEF HashedInv, HashedOnce, Fresh
  <2>5. PaymentEntry(Payment)' \notin entries'
    BY <2>1, <2>4 DEF PaymentEntry, Entry, StoreOp
  <2> QED
    BY <1>0, <2>1, <2>2, <2>3, <2>5 DEF Filed, PaymentEntry
<1>5. CASE AsksBalance
  <2>1. /\ Payment' = Payment /\ payments' = payments
        /\ ReadOp(Request.wallet) \in Ops /\ ReadOp(Request.wallet).kind = "read"
    BY <1>5, RequestSame, SafeFacts DEF AsksBalance, ReadOp, Goes
  <2>2. entries' = entries /\ \A c \in StoreCalls : pc'[c] = pc[c]
    BY <1>0, <1>5, <2>1, InvokeWhere DEF AsksBalance, dataVars
  <2>3. Flying' <=> Flying
    BY <1>5, <2>2 DEF Flying, AsksBalance, Goes
  <2> QED
    BY <1>0, <2>1, <2>2, <2>3 DEF Filed, PaymentEntry
<1>6. ASSUME NEW c \in StoreCalls, Stores(c) PROVE Filed'
  <2>1. /\ Payment' = Payment /\ payments' = payments
        /\ StoreOp(Request, worker.hash) \in Ops /\ StoreOp(Request, worker.hash).kind = "withdrawal"
    BY <1>6, RequestSame, SafeFacts DEF Stores, StoreOp, Goes
  <2>2. entries' = entries /\ pc'[c] \in {"lock", "get"}
    BY <1>0, <1>6, <2>1, InvokeWhere DEF Stores, dataVars
  <2>3. Flying' /\ Flying
    BY <1>6, <2>2 DEF Flying, Stores, Goes, Unwritten
  <2> QED
    BY <1>0, <2>1, <2>2, <2>3 DEF Filed, PaymentEntry
<1>7. CASE Serves(WorkerCall)
  <2>1. WorkerServed /\ UNCHANGED <<worker, payments>>
    BY <1>7, WorkerServedStep DEF Serves
  <2>2. entries' = entries /\ Payment' = Payment /\ payments' = payments
    BY <2>1 DEF WorkerServed, dataVars, Payment, Request
  <2>3. Flying' <=> Flying
    BY <2>1 DEF Flying, WorkerServed
  <2> QED
    BY <1>0, <2>2, <2>3 DEF Filed, PaymentEntry
<1>8. ASSUME NEW c \in StoreCalls, Serves(c) PROVE Filed'
  <2>1. /\ StoreServed(c) /\ pc[c] \notin Settled /\ UNCHANGED <<worker, payments>>
        /\ Payment' = Payment
    BY <1>8, StoreServedStep DEF Serves, Payment, Request
  <2>2. worker.at \in {"report", "reply"} /\ \A d \in StoreCalls \ {c} : pc'[d] \in Settled
    BY <1>0, <2>1, StoreOwns, OneStore DEF StoreServed
  <2>3. CASE Exec(c)
    <3>1. ~Flying'
      BY <1>0, <2>1, <2>2, <2>3 DEF Flying, StoreServed, Unwritten, Settled, Exec
    <3>2. entries' = entries \cup {PaymentEntry(Payment)}
      BY <2>1, <2>3, StoreOwns DEF Exec, PaymentEntry, Payment
    <3> QED
      BY <1>0, <2>1, <3>1, <3>2 DEF Filed, PaymentEntry
  <2>4. CASE ~Exec(c)
    <3>1. entries' = entries
      BY <2>1, <2>4 DEF StoreServed, dataVars
    <3>2. Flying' <=> Flying
      BY <1>0, <2>1, <2>2, <2>4 DEF Flying, StoreServed, Unwritten, Settled
    <3> QED
      BY <1>0, <2>1, <3>1, <3>2 DEF Filed, PaymentEntry
  <2> QED
    BY <2>3, <2>4
<1>9. CASE Lapses
  <2>1. entries' = entries /\ payments' = payments /\ Payment' = Payment /\ Flying' = Flying
    BY <1>9 DEF Lapses, dataVars, callVars, Payment, Request, Flying
  <2> QED
    BY <1>0, <2>1 DEF Filed, PaymentEntry
<1> QED
  BY <1>1, <1>2, <1>3, <1>4, <1>5, <1>6, <1>7, <1>8, <1>9, SafeFacts DEF SafeMove

LEMMA CoveredStep ==
  ASSUME Undisturbed, SafeInv, SafeMove
  PROVE  Covered'
<1>0. /\ Covered /\ WorkerCall \in Calls /\ WorkerCall \notin StoreCalls /\ StoreCalls \subseteq Calls
      /\ StorageTypeOK
  BY CallFacts, SafeFacts DEF SafeInv
<1>1. CASE Stays \/ Lapses
  BY <1>0, <1>1 DEF Covered, Stays, Lapses, storageVars, dataVars, callVars, Request
<1>2. CASE Leaves \/ Sends
  BY <1>2 DEF Covered, Leaves, Sends
<1>3. CASE Advances
  <2>1. Request' = Request /\ balance' = balance
    BY <1>3, RequestSame DEF Advances, storageVars
  <2>2. CASE Goes("balance", "hot") /\ pc[WorkerCall] = "resolved" /\ read[WorkerCall] >= Request.amount
    <3>1. read[WorkerCall] = balance[Request.wallet]
      BY <1>0, <2>2 DEF Covered, Goes
    <3>2. Request.amount \in Nat /\ balance[Request.wallet] \in Int
      BY <1>0, <2>2, SafeFacts DEF StorageTypeOK, Goes
    <3> QED
      BY <2>1, <2>2, <3>1, <3>2 DEF Covered, Goes
  <2>3. CASE worker'.at \notin {"balance", "hot", "postpone", "send"}
    BY <2>3 DEF Covered
  <2>4. CASE Goes("hot", "postpone") \/ Goes("hot", "send")
    BY <1>0, <2>1, <2>4 DEF Covered, Goes
  <2> QED
    BY <1>3, <2>2, <2>3, <2>4 DEF Advances, Goes
<1>4. CASE AsksBalance
  <2>1. pc'[WorkerCall] \in {"lock", "get"}
    <3>1. ReadOp(Request.wallet) \in Ops /\ ReadOp(Request.wallet).kind = "read"
      BY <1>4, SafeFacts DEF AsksBalance, ReadOp, Goes
    <3> QED
      BY <1>0, <1>4, <3>1, InvokeWhere DEF AsksBalance
  <2> QED
    BY <1>4, <2>1 DEF Covered, AsksBalance, Goes
<1>5. ASSUME NEW c \in StoreCalls, Stores(c) PROVE Covered'
  BY <1>5 DEF Covered, Stores, Goes
<1>6. CASE Serves(WorkerCall)
  <2>1. WorkerServed /\ worker' = worker /\ Request' = Request
    BY <1>6, WorkerServedStep DEF Serves, Request
  <2>2. worker.at \in {"balance", "reply"}
    BY <2>1 DEF WorkerServed, SafeInv, CallsQuiet
  <2> QED
    BY <1>0, <2>1, <2>2 DEF Covered, WorkerServed, dataVars
<1>7. ASSUME NEW c \in StoreCalls, Serves(c) PROVE Covered'
  BY <1>7, StoreServedStep, StoreOwns DEF Serves, Covered
<1> QED
  BY <1>1, <1>2, <1>3, <1>4, <1>5, <1>6, <1>7, SafeFacts DEF SafeMove

(***************************************************************************)
(* The money: what was paid to a wallet and what its balance holds, less   *)
(* the payment under way, is what it started with.                         *)
(***************************************************************************)
LEMMA PaidInt ==
  ASSUME SafeInv
  PROVE  PaidAmount \in [Payments -> Int] /\ \A w : PaidTo(w) \in Int
<1>1. PaidAmount \in [Payments -> Int]
  BY RequestFacts DEF PaidAmount, Payments
<1>2. IsFiniteSet(payments) /\ payments \subseteq Payments
  BY DEF SafeInv, HashedInv, HashedOnce, Numbered, PaidFirst, WithdrawalBase, WithdrawalTypeOK
<1>3. ASSUME NEW w PROVE PaidTo(w) \in Int
  <2> DEFINE S == {p \in payments : p.request.wallet = w}
  <2>1. S \in SUBSET Payments /\ IsFiniteSet(S)
    BY <1>2, FS_Subset
  <2> HIDE DEF S
  <2>2. SumOver(PaidAmount, S) \in Int
    BY <1>1, <2>1, SumInt
  <2> QED
    BY <2>2 DEF S, PaidTo
<1> QED
  BY <1>1, <1>3

LEMMA SendsPays ==
  ASSUME Undisturbed, SafeInv, Sends, HashedInv'
  PROVE  \A w \in Wallets : PaidTo(w)' = PaidTo(w) + (IF w = Request.wallet THEN Request.amount ELSE 0)
<1> DEFINE p == [request |-> Request, hash |-> worker'.hash]
<1>1. /\ payments' = payments \cup {p} /\ Request \in Requests /\ Request.amount \in Nat
      /\ p.request = Request /\ worker.at = "send"
  BY SafeFacts DEF Sends
<1>2. p \notin payments
  BY <1>1 DEF SafeInv, NewRequest, SameName
<1>3. IsFiniteSet(payments) /\ payments \subseteq Payments /\ payments' \subseteq Payments
  BY DEF SafeInv, HashedInv, HashedOnce, Numbered, PaidFirst, WithdrawalBase, WithdrawalTypeOK
<1>4. p \in Payments /\ PaidAmount[p] = Request.amount
  BY <1>1, <1>3 DEF PaidAmount
<1> HIDE DEF p
<1>5. ASSUME NEW w \in Wallets
      PROVE  PaidTo(w)' = PaidTo(w) + (IF w = Request.wallet THEN Request.amount ELSE 0)
  <2> DEFINE S == {q \in payments : q.request.wallet = w}
             T == {q \in payments' : q.request.wallet = w}
  <2>1. S \in SUBSET Payments /\ IsFiniteSet(S) /\ p \notin S
    BY <1>2, <1>3, FS_Subset
  <2>2. CASE w = Request.wallet
    <3>1. T = S \cup {p}
      BY <1>1, <2>2
    <3> HIDE DEF S, T
    <3>2. SumOver(PaidAmount, S \cup {p}) = SumOver(PaidAmount, S) + PaidAmount[p]
      BY <1>4, <2>1, SumAdd, PaidInt
    <3> QED
      BY <1>4, <2>2, <3>1, <3>2 DEF PaidTo, S, T
  <2>3. CASE w # Request.wallet
    <3>1. T = S
      BY <1>1, <2>3
    <3>2. PaidTo(w)' = PaidTo(w)
      BY <3>1 DEF PaidTo
    <3>3. PaidTo(w) \in Int
      BY PaidInt
    <3> QED
      BY <2>3, <3>2, <3>3
  <2> QED
    BY <2>2, <2>3
<1> QED
  BY <1>5

LEMMA DueInt ==
  ASSUME Undisturbed, SafeInv
  PROVE  \A w : Due(w) \in Nat
<1>1. Flying => worker.at # "idle"
  BY NotFlying
<1> QED
  BY <1>1, SafeFacts DEF Due

LEMMA MoneyStep ==
  ASSUME Undisturbed, SafeInv, SafeMove, HashedInv', CallsQuiet'
  PROVE  Money'
<1>0. /\ Money /\ WorkerCall \in Calls /\ WorkerCall \notin StoreCalls /\ StoreCalls \subseteq Calls
      /\ StorageTypeOK
  BY CallFacts, SafeFacts DEF SafeInv
<1>1. ASSUME balance' = balance, payments' = payments, \A w \in Wallets : Due(w)' = Due(w) PROVE Money'
  BY <1>0, <1>1 DEF Money, PaidTo
<1>2. ASSUME balance' = balance, payments' = payments, Request' = Request, Flying' <=> Flying
      PROVE  Money'
  BY <1>1, <1>2 DEF Due
<1>3. ASSUME balance' = balance, payments' = payments, ~Flying, ~Flying' PROVE Money'
  BY <1>1, <1>3 DEF Due
<1>4. CASE Stays
  BY <1>2, <1>4 DEF Stays, storageVars, Request, Flying
<1>5. CASE Leaves
  <2>1. ~Flying
    <3>1. CASE worker.at = "reply"
      <4>1. \A c \in StoreCalls : pc[c] \in Settled
        BY <1>5, <3>1 DEF Leaves, SafeInv, CallsQuiet
      <4> QED
        BY <3>1, <4>1 DEF Flying, Unwritten, Settled
    <3>2. CASE worker.at # "reply"
      BY <1>5, <3>2, NotFlying DEF Leaves
    <3> QED
      BY <3>1, <3>2
  <2> QED
    BY <1>3, <1>5, <2>1 DEF Flying, Leaves, storageVars
<1>6. CASE Advances
  <2>1. Request' = Request /\ balance' = balance /\ payments' = payments /\ pc' = pc
    BY <1>6, RequestSame DEF Advances, storageVars
  <2>2. CASE Goes("record", "debit")
    BY <1>2, <2>1, <2>2 DEF Flying, Goes
  <2>3. ~(Goes("record", "report") /\ ContainsRequest(Request))
    BY NotContained DEF Goes
  <2>4. CASE worker.at \in {"contains", "balance", "hot", "postpone"} /\ worker'.at \notin {"record", "debit"}
    <3>1. ~Flying
      BY <2>4, NotFlying
    <3>2. ~Flying'
      BY <2>1, <2>4, <3>1 DEF Flying
    <3> QED
      BY <1>3, <2>1, <3>1, <3>2
  <2> QED
    BY <1>6, <2>2, <2>3, <2>4 DEF Advances, Goes
<1>7. CASE Sends
  <2>1. balance' = balance /\ Request' = Request /\ worker'.at = "record" /\ worker.at = "send"
    BY <1>7 DEF Sends, storageVars, Request
  <2>2. ~Flying /\ Flying'
    BY <2>1, NotFlying DEF Flying
  <2>3. Request.wallet \in Wallets /\ Request.amount \in Nat /\ Request.amount <= balance[Request.wallet]
    BY <2>1, SafeFacts DEF SafeInv, Covered
  <2>4. ASSUME NEW w \in Wallets
        PROVE  /\ balance'[w] + PaidTo(w)' - Due(w)' = Opening[w]
               /\ Due(w)' <= balance'[w] /\ 0 <= balance'[w]
    <3>1. /\ PaidTo(w)' = PaidTo(w) + (IF w = Request.wallet THEN Request.amount ELSE 0)
          /\ PaidTo(w) \in Int /\ balance[w] \in Int
      BY <1>0, <1>7, SendsPays, PaidInt DEF StorageTypeOK
    <3>2. Due(w) = 0 /\ Due(w)' = (IF w = Request.wallet THEN Request.amount ELSE 0)
      BY <2>1, <2>2 DEF Due
    <3>3. balance[w] + PaidTo(w) - 0 = Opening[w] /\ 0 <= balance[w]
      BY <1>0, <3>2 DEF Money
    <3>4. CASE w = Request.wallet
      BY <2>1, <2>3, <3>1, <3>2, <3>3, <3>4
    <3>5. CASE w # Request.wallet
      BY <2>1, <3>1, <3>2, <3>3, <3>5
    <3> QED
      BY <3>4, <3>5
  <2> QED
    BY <2>4 DEF Money
<1>8. CASE AsksBalance
  <2>1. /\ Request' = Request /\ payments' = payments
        /\ ReadOp(Request.wallet) \in Ops /\ ReadOp(Request.wallet).kind = "read"
    BY <1>8, RequestSame, SafeFacts DEF AsksBalance, ReadOp, Goes
  <2>2. balance' = balance /\ \A c \in StoreCalls : pc'[c] = pc[c]
    BY <1>0, <1>8, <2>1, InvokeWhere DEF AsksBalance, dataVars
  <2>3. Flying' <=> Flying
    BY <1>8, <2>2 DEF Flying, AsksBalance, Goes
  <2> QED
    BY <1>2, <2>1, <2>2, <2>3
<1>9. ASSUME NEW c \in StoreCalls, Stores(c) PROVE Money'
  <2>1. /\ Request' = Request /\ payments' = payments
        /\ StoreOp(Request, worker.hash) \in Ops /\ StoreOp(Request, worker.hash).kind = "withdrawal"
    BY <1>9, RequestSame, SafeFacts DEF Stores, StoreOp, Goes
  <2>2. balance' = balance /\ pc'[c] \in {"lock", "get"}
    BY <1>0, <1>9, <2>1, InvokeWhere DEF Stores, dataVars
  <2>3. Flying' /\ Flying
    BY <1>9, <2>2 DEF Flying, Stores, Goes, Unwritten
  <2> QED
    BY <1>2, <2>1, <2>2, <2>3
<1>10. CASE Serves(WorkerCall)
  <2>1. WorkerServed /\ UNCHANGED <<worker, payments>>
    BY <1>10, WorkerServedStep DEF Serves
  <2> QED
    BY <1>2, <2>1 DEF WorkerServed, dataVars, Request, Flying
<1>11. ASSUME NEW c \in StoreCalls, Serves(c) PROVE Money'
  <2>1. /\ StoreServed(c) /\ pc[c] \notin Settled /\ payments' = payments /\ worker' = worker
        /\ Request' = Request
    BY <1>11, StoreServedStep DEF Serves, Request
  <2>2. /\ worker.at \in {"report", "reply"} /\ op[c] = StoreOp(Request, worker.hash)
        /\ \A d \in StoreCalls \ {c} : pc'[d] \in Settled
    BY <1>0, <2>1, StoreOwns, OneStore DEF StoreServed
  <2>3. CASE Exec(c)
    <3>1. Flying /\ ~Flying'
      BY <1>0, <2>1, <2>2, <2>3 DEF Flying, StoreServed, Unwritten, Settled, Exec
    <3>2. /\ op[c].wallet = Request.wallet /\ Delta(op[c]) = -Request.amount
          /\ Request.wallet \in Wallets /\ Request.amount \in Nat
      BY <2>2, SafeFacts DEF StoreOp, Delta
    <3>3. read[c] = balance[Request.wallet]
      BY <1>0, <2>3, <3>2 DEF SafeInv, AgreedInv, Currency, ReadIsCurrent, Exec
    <3>4. balance' = [balance EXCEPT ![Request.wallet] = balance[Request.wallet] + (-Request.amount)]
      BY <2>3, <3>2, <3>3 DEF Exec
    <3>5. ASSUME NEW w \in Wallets
          PROVE  /\ balance'[w] + PaidTo(w)' - Due(w)' = Opening[w]
                 /\ Due(w)' <= balance'[w] /\ 0 <= balance'[w]
      <4>1. PaidTo(w)' = PaidTo(w) /\ PaidTo(w) \in Int /\ balance[w] \in Int
        BY <1>0, <2>1, PaidInt DEF StorageTypeOK, PaidTo
      <4>2. Due(w)' = 0 /\ Due(w) = (IF w = Request.wallet THEN Request.amount ELSE 0)
        BY <3>1 DEF Due
      <4>3. balance[w] + PaidTo(w) - Due(w) = Opening[w] /\ 0 <= balance[w] /\ Due(w) <= balance[w]
        BY <1>0 DEF Money
      <4>4. CASE w = Request.wallet
        <5>1. balance'[w] = balance[w] - Request.amount
          BY <1>0, <3>2, <3>4, <4>1, <4>4 DEF StorageTypeOK
        <5> QED
          BY <3>2, <4>1, <4>2, <4>3, <4>4, <5>1
      <4>5. CASE w # Request.wallet
        <5>1. balance'[w] = balance[w]
          BY <1>0, <3>4, <4>5 DEF StorageTypeOK
        <5> QED
          BY <4>1, <4>2, <4>3, <4>5, <5>1
      <4> QED
        BY <4>4, <4>5
    <3> QED
      BY <3>5 DEF Money
  <2>4. CASE ~Exec(c)
    <3>1. balance' = balance
      BY <2>1, <2>4 DEF StoreServed, dataVars
    <3>2. Flying' <=> Flying
      BY <1>0, <2>1, <2>2, <2>4 DEF Flying, StoreServed, Unwritten, Settled
    <3> QED
      BY <1>2, <2>1, <3>1, <3>2
  <2> QED
    BY <2>3, <2>4
<1>12. CASE Lapses
  BY <1>2, <1>12 DEF Lapses, dataVars, callVars, Request, Flying
<1> QED
  BY <1>4, <1>5, <1>6, <1>7, <1>8, <1>9, <1>10, <1>11, <1>12, SafeFacts DEF SafeMove

LEMMA SafeInvariance == Undisturbed => (WithdrawalSpec => []SafeInv)
<1> SUFFICES ASSUME Undisturbed PROVE WithdrawalSpec => []SafeInv
  OBVIOUS
<1>1. WithdrawalSpec => []AgreedInv
  BY WithdrawalsUseStorage, AgreedInvariance DEF Undisturbed
<1> DEFINE Rest == CallsQuiet /\ KeysKnown /\ Filed /\ NewRequest /\ PaidAtMostOnce /\ Covered /\ Money
<1>2. WithdrawalInit => Rest
  <2> SUFFICES ASSUME WithdrawalInit PROVE Rest
    OBVIOUS
  <2>1. /\ worker.at = "idle" /\ payments = {} /\ balance = Opening
        /\ \A c \in Calls : pc[c] = "idle" /\ op[c] = NoOp
        /\ \A n \in Names : lock[n] = Free
    BY DEF WithdrawalInit, StorageInit, Idle
  <2>2. CallsQuiet /\ KeysKnown /\ ~Flying
    BY <2>1, CallFacts, OpsAssumption DEF CallsQuiet, KeysKnown, Flying, Settled, NoOp, Unwritten, Free, Orphan
  <2>3. Filed /\ NewRequest /\ PaidAtMostOnce /\ Covered
    BY <2>1, <2>2 DEF Filed, NewRequest, PaidAtMostOnce, Covered
  <2>4. SumOver(PaidAmount, {}) = 0
    <3>1. PaidAmount \in [Payments -> Int]
      BY RequestFacts DEF PaidAmount, Payments
    <3> QED
      BY <3>1, SumEmpty
  <2>5. ASSUME NEW w \in Wallets PROVE PaidTo(w) = 0 /\ Due(w) = 0 /\ Opening[w] \in Nat
    BY <2>1, <2>2, <2>4, StorageAssumption DEF PaidTo, Due
  <2>6. Money
    <3>1. balance = Opening
      BY <2>1
    <3>2. ASSUME NEW w \in Wallets
          PROVE /\ balance[w] + PaidTo(w) - Due(w) = Opening[w]
                /\ Due(w) <= balance[w] /\ 0 <= balance[w]
      BY <3>1, <2>5
    <3> QED
      BY <3>2 DEF Money
  <2> QED
    BY <2>2, <2>3, <2>6
<1>3. /\ HashedInv /\ AgreedInv /\ Rest /\ [WithdrawalNext]_withdrawalVars /\ HashedInv'
      => Rest'
  <2> SUFFICES ASSUME SafeInv, [WithdrawalNext]_withdrawalVars, HashedInv' PROVE Rest'
    BY DEF SafeInv
  <2>1. SafeMove
    BY SafeFacts, SafeCases
  <2> QED
    BY <2>1, CallsQuietStep, KeysKnownStep, FiledStep, NewRequestStep, CoveredStep, MoneyStep
<1>4. HashedInv /\ AgreedInv /\ Rest => SafeInv
  BY DEF SafeInv
<1> QED
  BY <1>1, <1>2, <1>3, <1>4, HashedInvariance, PTL DEF WithdrawalSpec

(***************************************************************************)
(* A request is paid once, and of requests a wallet makes in the same      *)
(* millisecond one is paid, however often its job is attempted, stalled    *)
(* and put off, for any number of wallets and requests.                    *)
(***************************************************************************)
THEOREM PaidOnce == Undisturbed => (WithdrawalSpec => []PaidAtMostOnce)
<1>1. SafeInv => PaidAtMostOnce
  BY DEF SafeInv
<1> QED
  BY <1>1, SafeInvariance, PTL

(***************************************************************************)
(* A wallet is never paid more than was deposited from it, for any number  *)
(* of wallets and requests: the balance the worker compared is the one the *)
(* store will debit.                                                       *)
(***************************************************************************)
THEOREM NeverOverdrawn == Undisturbed => (WithdrawalSpec => []NoOverdraft)
<1> SUFFICES ASSUME Undisturbed PROVE WithdrawalSpec => []NoOverdraft
  OBVIOUS
<1>1. SafeInv => NoOverdraft
  <2> SUFFICES ASSUME SafeInv, NEW w \in Wallets PROVE PaidTo(w) <= Opening[w]
    BY DEF NoOverdraft
  <2>1. PaidTo(w) \in Int /\ Due(w) \in Nat /\ balance[w] \in Int
    BY PaidInt, DueInt, SafeFacts DEF StorageTypeOK
  <2>2. balance[w] + PaidTo(w) - Due(w) = Opening[w] /\ Due(w) <= balance[w]
    BY DEF SafeInv, Money
  <2> QED
    BY <2>1, <2>2
<1> QED
  BY <1>1, SafeInvariance, PTL

-----------------------------------------------------------------------------
(***************************************************************************)
(* What GET /withdrawals/pending answers.  A pending job that fails three  *)
(* times is removed, and its request counted no more: that takes a node    *)
(* that refuses to pay.                                                    *)
(***************************************************************************)
Willing == Undisturbed /\ "refused" \notin NodeFaults

JobNamed(r, n) == [request |-> r, attempt |-> n]

Queued(j) == job[j].state \in {"waiting", "delayed"}

Submitted(r) == JobOf(r, 0) # "none"

\* The request was paid, or is beyond the balance; it will be neither any less.
Over(r) == Paid(r) \/ balance[r.wallet] < r.amount

Working(r) == worker.at # "idle" /\ Request = r

InQueue(r) == \E n \in 1..MaxPostpones : Queued(JobNamed(r, n))

\* A job is active while the worker is about it, and a pending one ends by the payment.
Orderly ==
  /\ \A j \in WithdrawalJobs : job[j].state = "active" => Attended(j)
  /\ \A j \in PendingJobs : /\ job[j].state # "failed"
                            /\ job[j].state = "completed" => Paid(j.request)

\* A wallet and a millisecond are one submitted request's.
NamesTaken ==
  /\ \A j \in WithdrawalJobs : job[j].state # "none" => Submitted(j.request)
  /\ \A p \in payments : Submitted(p.request)
  /\ \A r, s \in Requests : SameName(r, s) /\ Submitted(r) /\ Submitted(s) => r = s

\* A job that is about to end without a payment leaves another in the queue.
Succeeded ==
  /\ worker.at \in {"replaced", "report", "reply"} =>
       \/ Over(Request)
       \/ \E n \in 1..MaxPostpones : n # worker.id.attempt /\ Queued(JobNamed(Request, n))
  /\ worker.at \in {"report", "reply"} /\ worker.id.attempt > 0 => Paid(Request)

\* A request whose job was completed is over, or the worker's, or in the queue.
PutOff ==
  \A r \in Requests : JobOf(r, 0) = "completed" => Over(r) \/ Working(r) \/ InQueue(r)

LiveJobs == {j \in WithdrawalJobs : job[j].state # "none"}

PendingInv == SafeInv /\ Orderly /\ NamesTaken /\ Succeeded /\ PutOff /\ IsFiniteSet(LiveJobs)

(***************************************************************************)
(* What a step is to the queue: one job is touched at most.                *)
(***************************************************************************)
Touches(j, s) ==
  /\ j \in WithdrawalJobs
  /\ job'[j].state = s
  /\ \A k \in WithdrawalJobs \ {j} : job'[k] = job[k]

Stands == UNCHANGED <<job, worker>>

Submits(r) ==
  /\ UNCHANGED worker
  /\ \A s \in Requests : SameName(r, s) => ~Submitted(s)
  /\ Touches(JobNamed(r, 0), "waiting")

Promotes(j) ==
  /\ UNCHANGED worker
  /\ job[j].state = "delayed" /\ Touches(j, "waiting")

Takes(j) ==
  /\ worker.at = "idle" /\ worker'.at = "contains" /\ worker'.id = j
  /\ job[j].state = "waiting" /\ Touches(j, "active")

\* A job fails when it is replaced, or when there is nothing left to do.
Drops ==
  /\ worker' = Idle
  /\ \/ worker.at = "replaced"
     \/ worker.at \in {"contains", "balance"} /\ Over(Request)
  /\ \E s \in {"delayed", "none", "failed"} :
        /\ Touches(worker.id, s)
        /\ s = "none" <=> s # "delayed" /\ worker.id \in PendingJobs

Completes ==
  /\ worker.at = "reply" /\ worker' = Idle
  /\ Touches(worker.id, "completed")

Postpones ==
  /\ \/ Goes("postpone", "report") /\ worker.id.attempt = 0
     \/ Goes("postpone", "replaced") /\ worker.id.attempt # 0
  /\ \E n \in 1..MaxPostpones :
        /\ n # worker.id.attempt
        /\ \/ job[JobNamed(Request, n)].state = "none" /\ Touches(JobNamed(Request, n), "delayed")
           \/ job[JobNamed(Request, n)].state # "none" /\ UNCHANGED job

Walks ==
  /\ UNCHANGED job
  /\ worker.at # "idle" /\ worker'.at # "idle" /\ worker'.id = worker.id
  /\ worker'.at # "replaced"
  /\ worker'.at = "report" => worker.at \in {"record", "debit"}
  /\ worker'.at = "reply" => worker.at = "report"

JobMove ==
  \/ Stands \/ Drops \/ Completes \/ Postpones \/ Walks
  \/ \E r \in Requests : Submits(r)
  \/ \E j \in WithdrawalJobs : Promotes(j) \/ Takes(j)

LEMMA PendingFacts ==
  ASSUME Willing, PendingInv
  PROVE  /\ Undisturbed /\ SafeInv /\ WithdrawalTypeOK /\ JobTypeOK /\ JobsLive /\ CallsQuiet
         /\ WorkerCall \in Calls
         /\ worker.at # "idle" => /\ Request \in Requests /\ worker.id \in WithdrawalJobs
                                  /\ worker.at \in Places
                                  /\ worker.id = JobNamed(Request, worker.id.attempt)
                                  /\ worker.id.attempt \in 0..MaxPostpones
                                  /\ job[worker.id].state = "active"
                                  /\ Submitted(Request)
<1>1. /\ Undisturbed /\ SafeInv /\ WithdrawalTypeOK /\ JobTypeOK /\ JobsLive /\ CallsQuiet
      /\ WorkerCall \in Calls
  BY CallFacts DEF Willing, PendingInv, SafeInv, HashedInv, PaidFirst, WithdrawalBase, WithdrawalTypeOK
<1>2. ASSUME worker.at # "idle"
      PROVE  /\ Request \in Requests /\ worker.id \in WithdrawalJobs
             /\ worker.at \in Places
             /\ worker.id = JobNamed(Request, worker.id.attempt)
             /\ worker.id.attempt \in 0..MaxPostpones
             /\ job[worker.id].state = "active"
  BY <1>1, <1>2, WorkerFacts DEF JobsLive, JobNamed, WithdrawalJobs, Request
<1>3. worker.at # "idle" => Submitted(Request)
  BY <1>2 DEF PendingInv, NamesTaken, Request
<1> QED
  BY <1>1, <1>2, <1>3

LEMMA JobNames ==
  /\ \A r \in Requests : JobNamed(r, 0) \in WithdrawalJobs \ PendingJobs
  /\ \A r \in Requests, n \in 1..MaxPostpones : JobNamed(r, n) \in PendingJobs
  /\ \A r, n : JobNamed(r, n).request = r /\ JobNamed(r, n).attempt = n
  /\ \A j \in WithdrawalJobs \ PendingJobs : j = JobNamed(j.request, 0)
  /\ \A j \in WithdrawalJobs : j.request \in Requests
  /\ PendingJobs \subseteq WithdrawalJobs
  BY WithdrawalsAssumption DEF JobNamed, PendingJobs, WithdrawalJobs

LEMMA DropTouches ==
  ASSUME JobTypeOK, NEW j \in WithdrawalJobs, Fail(j)
  PROVE  \E s \in {"delayed", "none", "failed"} :
           Touches(j, s) /\ (s = "none" <=> s # "delayed" /\ j \in PendingJobs)
<1> USE DEF JobTypeOK, Fail, Touches
<1>1. CASE job[j].tries + 1 < MaxAttempts
  BY <1>1
<1>2. CASE ~(job[j].tries + 1 < MaxAttempts) /\ j \in PendingJobs
  BY <1>2 DEF NoJob
<1>3. CASE ~(job[j].tries + 1 < MaxAttempts) /\ j \notin PendingJobs
  BY <1>3
<1> QED
  BY <1>1, <1>2, <1>3

LEMMA AddTouches ==
  ASSUME JobTypeOK, NEW j \in WithdrawalJobs, NEW s, Add(j, s)
  PROVE  \/ job[j].state = "none" /\ Touches(j, s)
         \/ job[j].state # "none" /\ UNCHANGED job
<1>1. CASE job[j].state = "none"
  BY <1>1 DEF Add, Touches, JobTypeOK, NoJob
<1>2. CASE job[j].state # "none"
  BY <1>2 DEF Add, JobTypeOK
<1> QED
  BY <1>1, <1>2

LEMMA JobCases ==
  ASSUME Willing, PendingInv, [WithdrawalNext]_withdrawalVars
  PROVE  JobMove
<1>0. /\ Undisturbed /\ SafeInv /\ WithdrawalTypeOK /\ JobTypeOK /\ CallsQuiet
      /\ WorkerCall \in Calls
  BY PendingFacts
<1>. ~RedisFails
  BY <1>0 DEF Undisturbed, RedisFails
<1>1. CASE Stands
  BY <1>1 DEF JobMove
<1>2. ASSUME worker.at # "idle", JobFails,
             worker.at = "replaced" \/ (worker.at \in {"contains", "balance"} /\ Over(Request))
      PROVE  JobMove
  BY <1>0, <1>2, PendingFacts, DropTouches DEF JobFails, Drops, JobMove
<1>3. ASSUME worker.at # "idle", NEW p \in Places, GoesTo(p), UNCHANGED job, p # "replaced",
             p = "report" => worker.at \in {"record", "debit"}, p = "reply" => worker.at = "report"
      PROVE  JobMove
  <2>1. Goes(worker.at, p)
    BY <1>0, <1>3, GoesFacts
  <2>2. p # "idle"
    BY DEF Places
  <2> QED
    BY <1>3, <2>1, <2>2 DEF Goes, Walks, JobMove
<1>4. CASE WorkerStep
  <2>1. ASSUME NEW j \in WithdrawalJobs, Start(j) PROVE JobMove
    <3>1. Takes(j)
      BY <1>0, <2>1 DEF Start, Take, Move, Takes, Touches, JobTypeOK
    <3> QED
      BY <3>1 DEF JobMove
  <2>2. CASE Check
    <3>1. CASE ContainsRequest(Request)
      <4>1. PICK e \in FiledAs(Request) : TRUE
        BY <3>1, FS_EmptySet DEF ContainsRequest, FiledAs
      <4>2. PICK p \in payments : SameName(p.request, Request)
        BY <1>0, FiledIsPaid
      <4>3. worker.at # "idle" /\ JobFails
        BY <2>2, <3>1 DEF Check
      <4>4. p.request \in Requests /\ Submitted(p.request) /\ Submitted(Request) /\ Request \in Requests
        BY <1>0, <4>3, PendingFacts DEF PendingInv, NamesTaken, WithdrawalTypeOK, Payments
      <4>5. p.request = Request
        BY <4>2, <4>4 DEF PendingInv, NamesTaken
      <4> QED
        BY <1>2, <2>2, <4>3, <4>5 DEF Check, Over, Paid
    <3>2. CASE ~ContainsRequest(Request)
      BY <1>3, <2>2, <3>2 DEF Check, Places
    <3> QED
      BY <3>1, <3>2
  <2>3. CASE ReadBalance
    BY <1>3, <2>3 DEF ReadBalance, Places
  <2>4. CASE CheckBalance
    <3>1. CASE GoesTo("hot") /\ UNCHANGED job
      BY <1>3, <2>4, <3>1 DEF CheckBalance, Places
    <3>2. CASE JobFails
      <4>1. pc[WorkerCall] = "resolved" /\ worker.at = "balance"
        BY <1>0, <2>4, <3>2 DEF CheckBalance, CallsQuiet, JobFails, Fail, GoesTo, Idle
      <4>2. read[WorkerCall] = balance[Request.wallet]
        BY <1>0, <4>1 DEF SafeInv, Covered
      <4>3. worker.id # Idle
        BY <1>0, <4>1, PendingFacts DEF Idle, JobNamed
      <4>4. ~GoesTo("hot")
        BY <1>0, <3>2, <4>1, WorkerFacts DEF JobFails, GoesTo, Idle
      <4>5. balance[Request.wallet] < Request.amount
        BY <2>4, <4>1, <4>2, <4>4 DEF CheckBalance
      <4> QED
        BY <1>2, <3>2, <4>1, <4>5 DEF Over
    <3> QED
      BY <2>4, <3>1, <3>2 DEF CheckBalance
  <2>5. CASE CheckHotWallet
    <3>1. GoesTo("postpone") \/ GoesTo("send")
      BY <2>5 DEF CheckHotWallet, Willing
    <3>2. UNCHANGED job
      BY <2>5 DEF CheckHotWallet, Willing
    <3> QED
      BY <1>3, <2>5, <3>1, <3>2 DEF CheckHotWallet, Places
  <2>6. CASE Postpone
    <3> DEFINE n == worker.id.attempt + 1
    <3>1. /\ worker.at = "postpone" /\ worker.id.attempt < MaxPostpones
          /\ worker.id.attempt \in 0..MaxPostpones /\ MaxPostpones \in Nat
          /\ worker.id = JobNamed(Request, worker.id.attempt)
      BY <2>6, PendingFacts, WithdrawalsAssumption DEF Postpone
    <3>2. n \in 1..MaxPostpones /\ n # worker.id.attempt /\ (n = 1 <=> worker.id.attempt = 0)
      BY <3>1
    <3>3. [worker.id EXCEPT !.attempt = @ + 1] = JobNamed(Request, n)
      <4>1. \A a : [JobNamed(Request, a) EXCEPT !.attempt = @ + 1] = JobNamed(Request, a + 1)
        BY DEF JobNamed
      <4> QED
        BY <3>1, <4>1
    <3>4. GoesTo(IF n = 1 THEN "report" ELSE "replaced") /\ Add(JobNamed(Request, n), "delayed")
      BY <2>6, <3>3 DEF Postpone, AddSuccessor
    <3>5. \/ Goes("postpone", "report") /\ worker.id.attempt = 0
          \/ Goes("postpone", "replaced") /\ worker.id.attempt # 0
      BY <1>0, <3>1, <3>2, <3>4, GoesFacts DEF Places
    <3>6. JobNamed(Request, n) \in WithdrawalJobs
      BY <1>0, <3>1, <3>2, PendingFacts, JobNames
    <3> HIDE DEF n
    <3>7. \/ job[JobNamed(Request, n)].state = "none" /\ Touches(JobNamed(Request, n), "delayed")
          \/ job[JobNamed(Request, n)].state # "none" /\ UNCHANGED job
      BY <1>0, <3>4, <3>6, AddTouches
    <3> QED
      BY <3>2, <3>5, <3>7 DEF Postpones, JobMove
  <2>7. CASE Replaced
    BY <1>2, <2>7 DEF Replaced
  <2>8. CASE Send
    BY <1>0, <2>8, WorkerFacts DEF Send, Walks, JobMove
  <2>9. CASE Record
    <3>1. GoesTo("report") \/ GoesTo("debit")
      BY <2>9 DEF Record
    <3> QED
      BY <1>3, <2>9, <3>1 DEF Record, Places
  <2>10. CASE Debit
    BY <1>3, <2>10 DEF Debit, Places
  <2>11. CASE Report
    BY <1>3, <2>11 DEF Report, Places
  <2>12. CASE Reply
    <3>1. worker.at = "reply" /\ Complete(worker.id) /\ worker' = Idle
      BY <1>0, <2>12 DEF Reply, CallsQuiet
    <3>2. Touches(worker.id, "completed")
      BY <1>0, <3>1, PendingFacts DEF Complete, Move, Touches, JobTypeOK
    <3> QED
      BY <3>1, <3>2 DEF Completes, JobMove
  <2> QED
    BY <1>4, <2>1, <2>2, <2>3, <2>4, <2>5, <2>6, <2>7, <2>8, <2>9, <2>10, <2>11, <2>12
    DEF WorkerStep
<1>5. CASE SendFails
  BY <1>5 DEF SendFails, Willing, Undisturbed
<1>6. ASSUME NEW r \in Requests, Submit(r) PROVE JobMove
  <2>1. JobOf(r, 0) = "none"
    BY <1>6 DEF Submit, SameName, JobOf
  <2>2. Touches(JobNamed(r, 0), "waiting")
    BY <1>0, <1>6, <2>1, JobNames, AddTouches DEF Submit, JobOf, JobNamed
  <2>3. Submits(r)
    BY <1>6, <2>2 DEF Submit, Submits, Submitted, JobOf
  <2> QED
    BY <2>3 DEF JobMove
<1>7. ASSUME NEW j \in WithdrawalJobs, Promote(j), UNCHANGED worker PROVE JobMove
  <2>1. Promotes(j)
    BY <1>0, <1>7 DEF Promote, Move, Promotes, Touches, JobTypeOK
  <2> QED
    BY <2>1 DEF JobMove
<1>8. CASE StallJob
  BY <1>8 DEF StallJob, Stall, PendingInv, Orderly
<1>9. CASE ReadOverHttp \/ StorageStep \/ RefillHotWallet
  BY <1>1, <1>9 DEF ReadOverHttp, StorageStep, RefillHotWallet, Stands
<1>10. CASE Restart
  BY <1>0, <1>10 DEF Restart, Crash, Undisturbed
<1>11. CASE UNCHANGED withdrawalVars
  BY <1>1, <1>11 DEF withdrawalVars, Stands
<1> QED
  BY <1>4, <1>5, <1>6, <1>7, <1>8, <1>9, <1>10, <1>11 DEF WithdrawalNext, PromoteJob

(***************************************************************************)
(* A request that is over stays so: payments are not unmade, and no        *)
(* withdrawal raises a balance.                                            *)
(***************************************************************************)
LEMMA BalanceFalls ==
  ASSUME Undisturbed, SafeInv, SafeMove
  PROVE  \A w \in Wallets : balance'[w] <= balance[w]
<1>0. /\ WorkerCall \in Calls /\ WorkerCall \notin StoreCalls /\ StoreCalls \subseteq Calls
      /\ StorageTypeOK
  BY CallFacts, SafeFacts
<1>1. CASE balance' = balance
  BY <1>0, <1>1 DEF StorageTypeOK
<1>2. ASSUME NEW c \in Calls, NEW o \in Ops, Invoke(c, o) PROVE balance' = balance
  BY <1>2 DEF Invoke, dataVars
<1>3. CASE AsksBalance
  BY <1>0, <1>1, <1>2, <1>3, SafeFacts DEF AsksBalance, Goes
<1>4. ASSUME NEW c \in StoreCalls, Stores(c) PROVE balance' = balance
  BY <1>0, <1>2, <1>4, SafeFacts DEF Stores, Goes
<1>5. CASE Serves(WorkerCall)
  BY <1>1, <1>5, WorkerServedStep DEF Serves, WorkerServed, dataVars
<1>6. ASSUME NEW c \in StoreCalls, Serves(c) PROVE \A w \in Wallets : balance'[w] <= balance[w]
  <2>1. StoreServed(c) /\ pc[c] \notin Settled
    BY <1>6, StoreServedStep DEF Serves
  <2>2. worker.at \in {"report", "reply"} /\ op[c] = StoreOp(Request, worker.hash)
    BY <2>1, StoreOwns
  <2>3. /\ op[c].wallet = Request.wallet /\ Delta(op[c]) = -Request.amount
        /\ Request.wallet \in Wallets /\ Request.amount \in Nat
    BY <2>2, SafeFacts DEF StoreOp, Delta
  <2>4. CASE Exec(c)
    <3>1. read[c] = balance[Request.wallet] /\ balance[Request.wallet] \in Int
      BY <1>0, <2>3, <2>4 DEF SafeInv, AgreedInv, Currency, ReadIsCurrent, Exec, StorageTypeOK
    <3>2. balance' = [balance EXCEPT ![Request.wallet] = balance[Request.wallet] + (-Request.amount)]
      BY <2>3, <2>4, <3>1 DEF Exec
    <3>3. balance'[Request.wallet] = balance[Request.wallet] - Request.amount
      BY <1>0, <2>3, <3>1, <3>2 DEF StorageTypeOK
    <3>4. \A w \in Wallets \ {Request.wallet} : balance'[w] = balance[w] /\ balance[w] \in Int
      BY <1>0, <3>2 DEF StorageTypeOK
    <3>5. balance'[Request.wallet] <= balance[Request.wallet]
      BY <2>3, <3>1, <3>3
    <3> QED
      BY <3>4, <3>5
  <2> QED
    BY <1>1, <2>1, <2>4 DEF StoreServed, dataVars
<1> QED
  BY <1>0, <1>1, <1>3, <1>4, <1>5, <1>6, SafeFacts
  DEF SafeMove, Stays, Leaves, Advances, Sends, Lapses, storageVars, dataVars

LEMMA OverStays ==
  ASSUME Willing, PendingInv, [WithdrawalNext]_withdrawalVars, NEW r \in Requests
  PROVE  (Paid(r) => Paid(r)') /\ (Over(r) => Over(r)')
<1>1. payments \subseteq payments'
  BY PaymentsGrow
<1>2. Paid(r) => Paid(r)'
  BY <1>1 DEF Paid
<1>3. balance'[r.wallet] <= balance[r.wallet]
  BY PendingFacts, SafeCases, BalanceFalls, RequestFacts
<1>4. r.amount \in Nat /\ balance[r.wallet] \in Int /\ balance'[r.wallet] \in Int
  <2>1. StorageTypeOK /\ StorageTypeOK'
    BY PendingFacts, StorageOfStep, BaseOfStep DEF PendingInv, SafeInv, HashedInv, PaidFirst, WithdrawalBase, BaseInv
  <2> QED
    BY <2>1, RequestFacts DEF StorageTypeOK
<1> QED
  BY <1>2, <1>3, <1>4 DEF Over

\* A job touched is not another.
LEMMA QueuedStays ==
  ASSUME NEW r \in Requests, NEW n \in 1..MaxPostpones, Queued(JobNamed(r, n)),
         NEW j, NEW s, Touches(j, s), j # JobNamed(r, n) \/ s \in {"waiting", "delayed"}
  PROVE  Queued(JobNamed(r, n))'
<1>1. JobNamed(r, n) \in WithdrawalJobs
  BY JobNames
<1>2. JobNamed(r, n)' = JobNamed(r, n)
  BY DEF JobNamed
<1> QED
  BY <1>1, <1>2 DEF Touches, Queued

LEMMA OrderlyStep ==
  ASSUME Willing, PendingInv, [WithdrawalNext]_withdrawalVars
  PROVE  Orderly'
<1>0. Orderly /\ JobMove /\ Succeeded /\ WithdrawalTypeOK
  BY JobCases, PendingFacts DEF PendingInv
<1>1. \A j \in PendingJobs : Paid(j.request) => Paid(j.request)'
  BY OverStays, JobNames
<1> USE JobNames
<1>2. CASE Stands
  BY <1>0, <1>1, <1>2 DEF Orderly, Stands, Attended
<1>3. CASE Drops
  BY <1>0, <1>1, <1>3, PendingFacts DEF Orderly, Drops, Touches, Attended
<1>4. CASE Completes
  BY <1>0, <1>1, <1>4, PendingFacts DEF Orderly, Completes, Touches, Attended, Succeeded, PendingJobs, Request, Idle
<1>5. CASE Postpones
  <2>1. worker.at # "idle" /\ worker'.at # "idle" /\ worker'.id = worker.id
    BY <1>5 DEF Postpones, Goes
  <2> QED
    BY <1>0, <1>1, <1>5, <2>1 DEF Orderly, Postpones, Touches, Attended
<1>6. CASE Walks
  BY <1>0, <1>1, <1>6 DEF Orderly, Walks, Attended
<1>7. ASSUME NEW r \in Requests, Submits(r) PROVE Orderly'
  BY <1>0, <1>1, <1>7 DEF Orderly, Submits, Touches, Attended
<1>8. ASSUME NEW j \in WithdrawalJobs, Promotes(j) PROVE Orderly'
  BY <1>0, <1>1, <1>8 DEF Orderly, Promotes, Touches, Attended
<1>9. ASSUME NEW j \in WithdrawalJobs, Takes(j) PROVE Orderly'
  BY <1>0, <1>1, <1>9 DEF Orderly, Takes, Touches, Attended
<1> QED
  BY <1>0, <1>2, <1>3, <1>4, <1>5, <1>6, <1>7, <1>8, <1>9 DEF JobMove

LEMMA NamesTakenStep ==
  ASSUME Willing, PendingInv, [WithdrawalNext]_withdrawalVars
  PROVE  NamesTaken'
<1>0. NamesTaken /\ JobMove /\ SafeMove /\ WithdrawalTypeOK
  BY JobCases, SafeCases, PendingFacts DEF PendingInv
<1> DEFINE Jobs == \A j \in WithdrawalJobs : job[j].state # "none" => Submitted(j.request)
           Kept == \A r \in Requests : Submitted(r) => Submitted(r)'
           New  == \A r \in Requests : Submitted(r)' =>
                      Submitted(r) \/ \A s \in Requests : SameName(r, s) => ~Submitted(s)
           One  == \A r, s \in Requests : Submitted(r)' /\ Submitted(s)' =>
                      r = s \/ Submitted(r) \/ Submitted(s)
           Goal == Kept /\ New /\ One /\ Jobs'
<1> USE JobNames DEF JobOf, JobNamed, Submitted, NamesTaken
<1>1. ASSUME UNCHANGED job PROVE Goal
  BY <1>0, <1>1
<1>2. ASSUME NEW j, NEW s, Touches(j, s), job[j].state # "none", s # "none" \/ j \in PendingJobs PROVE Goal
  BY <1>0, <1>2 DEF Touches, PendingJobs
<1>3. ASSUME NEW n \in 1..MaxPostpones, Postpones, Touches(JobNamed(Request, n), "delayed") PROVE Goal
  <2>1. Submitted(Request) /\ Request \in Requests
    BY <1>3, PendingFacts DEF Postpones, Goes
  <2> QED
    BY <1>0, <1>3, <2>1 DEF Touches
<1>4. ASSUME NEW r \in Requests, Submits(r) PROVE Goal
  BY <1>0, <1>4 DEF Submits, Touches
<1>5. Goal
  <2> HIDE DEF Goal
  <2>1. CASE Drops
    BY <1>2, <2>1, PendingFacts DEF Drops
  <2>2. CASE Completes
    BY <1>2, <2>2, PendingFacts DEF Completes
  <2>3. CASE Postpones
    BY <1>1, <1>3, <2>3 DEF Postpones
  <2>4. ASSUME NEW j \in WithdrawalJobs, Promotes(j) \/ Takes(j) PROVE Goal
    BY <1>2, <2>4 DEF Promotes, Takes
  <2> QED
    BY <1>0, <1>1, <1>4, <2>1, <2>2, <2>3, <2>4 DEF JobMove, Stands, Walks
<1>6. Kept /\ New /\ One
  BY <1>5
<1>7. ASSUME NEW p \in payments' PROVE Submitted(p.request)'
  <2>1. p.request \in Requests /\ Submitted(p.request)
    <3>1. CASE p \in payments
      BY <1>0, <3>1 DEF WithdrawalTypeOK, Payments
    <3>2. CASE Sends
      <4>1. Submitted(Request) /\ Request \in Requests
        BY <3>2, PendingFacts DEF Sends
      <4>2. p \in payments \/ p.request = Request
        BY <3>2 DEF Sends
      <4> QED
        BY <3>1, <4>1, <4>2
    <3>3. Sends \/ payments' = payments
      BY <1>0 DEF SafeMove, Stays, Leaves, Advances, AsksBalance, Stores, Serves, Lapses
    <3> QED
      BY <3>1, <3>2, <3>3
  <2> QED
    BY <1>6, <2>1
<1>8. \A r, s \in Requests : SameName(r, s) /\ Submitted(r)' /\ Submitted(s)' => r = s
  <2>1. SUFFICES ASSUME NEW r \in Requests, NEW s \in Requests, SameName(r, s), Submitted(r)', Submitted(s)'
                 PROVE  r = s
    OBVIOUS
  <2>2. SameName(s, r)
    BY <2>1 DEF SameName
  <2>3. CASE Submitted(r) /\ Submitted(s)
    BY <1>0, <2>1, <2>3
  <2>4. CASE ~Submitted(r) \/ ~Submitted(s)
    BY <1>6, <2>1, <2>2, <2>4
  <2> QED
    BY <2>3, <2>4
<1> QED
  BY <1>5, <1>7, <1>8 DEF SameName

LEMMA SucceededStep ==
  ASSUME Willing, PendingInv, [WithdrawalNext]_withdrawalVars
  PROVE  Succeeded'
<1>0. Succeeded /\ JobMove /\ Orderly /\ WithdrawalTypeOK /\ WithdrawalTypeOK'
  <2>1. WithdrawalTypeOK'
    BY BaseOfStep DEF PendingInv, SafeInv, HashedInv, PaidFirst, WithdrawalBase
  <2> QED
    BY <2>1, JobCases, PendingFacts DEF PendingInv
<1> DEFINE Left(r, n) == n # worker.id.attempt /\ Queued(JobNamed(r, n))
           Followed(r) == Over(r) \/ \E n \in 1..MaxPostpones : Left(r, n)
<1>1. SUFFICES ASSUME worker'.at \in {"replaced", "report", "reply"},
                      worker.at # "idle", worker'.id = worker.id,
                      NEW r \in Requests, r = Request
               PROVE  Followed(r)' /\ (worker'.at # "replaced" /\ worker.id.attempt > 0 => Paid(r)')
  <2>1. ASSUME worker'.at \in {"replaced", "report", "reply"}
        PROVE  worker.at # "idle" /\ worker'.id = worker.id /\ Request \in Requests /\ Request' = Request
    <3>1. worker.at # "idle" /\ worker'.id = worker.id
      BY <1>0, <2>1 DEF JobMove, Stands, Drops, Completes, Postpones, Walks, Submits, Promotes, Takes, Goes, Idle
    <3> QED
      BY <1>0, <3>1, PendingFacts DEF Request
  <2> QED
    BY <1>1, <2>1 DEF Succeeded, Over, Paid, Queued, JobNamed
<1>2. (Paid(r) => Paid(r)') /\ (Over(r) => Over(r)')
  BY OverStays
<1>3. ASSUME worker.at \in {"report", "reply", "replaced"}
      PROVE  Followed(r) /\ (worker.at # "replaced" /\ worker.id.attempt > 0 => Paid(r))
  BY <1>0, <1>1, <1>3 DEF Succeeded
<1>4. ASSUME NEW n \in 1..MaxPostpones, Queued(JobNamed(r, n))', n # worker.id.attempt PROVE Followed(r)'
  <2>1. Left(r, n)'
    BY <1>1, <1>4 DEF JobNamed
  <2> HIDE DEF Left
  <2> QED
    BY <2>1
<1> HIDE DEF Followed
<1>5. ASSUME worker'.at = worker.at, UNCHANGED job \/ (\E j, s : Touches(j, s) /\ s \in {"waiting", "delayed"})
      PROVE  Followed(r)' /\ (worker'.at # "replaced" /\ worker.id.attempt > 0 => Paid(r)')
  <2>1. CASE Over(r)
    BY <1>1, <1>2, <1>3, <1>5, <2>1 DEF Followed
  <2>2. ASSUME NEW n \in 1..MaxPostpones, Left(r, n) PROVE Followed(r)'
    <3>1. Queued(JobNamed(r, n))'
      BY <1>5, <2>2, QueuedStays DEF Queued, JobNamed
    <3> QED
      BY <1>4, <2>2, <3>1
  <2> QED
    BY <1>1, <1>2, <1>3, <1>5, <2>1, <2>2 DEF Followed
<1>6. CASE Postpones
  <2>1. PICK n \in 1..MaxPostpones :
          /\ n # worker.id.attempt
          /\ \/ job[JobNamed(r, n)].state = "none" /\ Touches(JobNamed(r, n), "delayed")
             \/ job[JobNamed(r, n)].state # "none" /\ UNCHANGED job
    BY <1>1, <1>6 DEF Postpones
  <2>2. worker'.at = "report" => worker.id.attempt = 0
    BY <1>6 DEF Postpones, Goes
  <2>3. JobNamed(r, n) \in PendingJobs /\ JobNamed(r, n) \in WithdrawalJobs
    BY JobNames
  <2>4. worker'.at \in {"replaced", "report"}
    BY <1>6 DEF Postpones, Goes
  <2>5. CASE Queued(JobNamed(r, n))'
    BY <1>4, <2>1, <2>2, <2>4, <2>5
  <2>6. CASE UNCHANGED job /\ job[JobNamed(r, n)].state \notin {"none", "waiting", "delayed"}
    <3>1. job[JobNamed(r, n)].state # "active"
      BY <1>0, <2>1, <2>3 DEF Orderly, Attended, JobNamed
    <3>2. job[JobNamed(r, n)].state = "completed"
      BY <1>0, <2>3, <2>6, <3>1, PendingFacts DEF Orderly, JobTypeOK, JobStates
    <3>3. Paid(r)
      BY <1>0, <2>3, <3>2, JobNames DEF Orderly
    <3> QED
      BY <1>2, <2>2, <2>4, <3>3 DEF Followed, Over
  <2> QED
    BY <2>1, <2>3, <2>5, <2>6 DEF Queued, JobNamed, Touches
<1>7. CASE Walks
  <2>1. CASE worker'.at = "report"
    <3>1. [request |-> Request, hash |-> worker.hash] \in payments
      BY <1>7, <2>1, PendingFacts DEF Walks, SafeInv, HashedInv, PaidFirst, Paying
    <3>2. Paid(r)
      BY <1>1, <3>1 DEF Paid
    <3> QED
      BY <1>2, <3>2 DEF Followed, Over
  <2>2. CASE worker'.at = "reply"
    <3>1. worker.at = "report" /\ UNCHANGED job
      BY <1>7, <2>2 DEF Walks
    <3>2. CASE Over(r)
      BY <1>1, <1>2, <1>3, <3>1, <3>2 DEF Followed
    <3>3. ASSUME NEW n \in 1..MaxPostpones, Left(r, n) PROVE Followed(r)'
      BY <1>4, <3>1, <3>3 DEF Queued, JobNamed
    <3> QED
      BY <1>2, <1>3, <3>1, <3>2, <3>3 DEF Followed
  <2> QED
    BY <1>1, <1>7, <2>1, <2>2 DEF Walks
<1> QED
  BY <1>0, <1>1, <1>5, <1>6, <1>7 DEF JobMove, Stands, Drops, Completes, Submits, Promotes, Takes, Idle

LEMMA PutOffStep ==
  ASSUME Willing, PendingInv, [WithdrawalNext]_withdrawalVars
  PROVE  PutOff'
<1>0. /\ PutOff /\ Succeeded /\ JobMove
      /\ worker.at # "idle" => worker.id \in WithdrawalJobs /\ job[worker.id].state = "active"
  BY JobCases, PendingFacts DEF PendingInv
<1>1. SUFFICES ASSUME NEW r \in Requests, JobOf(r, 0)' = "completed"
               PROVE  Over(r)' \/ Working(r)' \/ InQueue(r)'
  BY DEF PutOff
<1>2. Over(r) => Over(r)'
  BY OverStays
<1>3. ASSUME NEW n \in 1..MaxPostpones, Queued(JobNamed(r, n)) PROVE Working(r)' \/ InQueue(r)'
  <2>1. ASSUME Queued(JobNamed(r, n))' PROVE InQueue(r)'
    BY <2>1 DEF InQueue, JobNamed
  <2>2. ASSUME NEW j, NEW s, Touches(j, s), j # JobNamed(r, n) \/ s \in {"waiting", "delayed"} PROVE InQueue(r)'
    BY <1>3, <2>1, <2>2, QueuedStays
  <2>3. CASE UNCHANGED job
    BY <1>3, <2>1, <2>3 DEF Queued, JobNamed
  <2>4. CASE Drops \/ Completes
    <3>1. worker.id # JobNamed(r, n)
      BY <1>0, <1>3, <2>4 DEF Queued, Drops, Completes
    <3> QED
      BY <2>2, <2>4, <3>1 DEF Drops, Completes
  <2>5. CASE Postpones
    BY <2>2, <2>3, <2>5 DEF Postpones
  <2>6. ASSUME NEW j \in WithdrawalJobs, Takes(j) PROVE Working(r)' \/ InQueue(r)'
    <3>1. CASE j = JobNamed(r, n)
      BY <2>6, <3>1 DEF Takes, Working, Request, JobNamed
    <3>2. CASE j # JobNamed(r, n)
      BY <2>2, <2>6, <3>2 DEF Takes
    <3> QED
      BY <3>1, <3>2
  <2> QED
    BY <1>0, <2>2, <2>3, <2>4, <2>5, <2>6 DEF JobMove, Stands, Walks, Submits, Promotes
<1>4. ASSUME Working(r), worker.at \in {"replaced", "report", "reply"}
      PROVE  Over(r) \/ \E n \in 1..MaxPostpones : Queued(JobNamed(r, n))
  BY <1>0, <1>4 DEF Succeeded, Working
<1>5. CASE JobOf(r, 0) = "completed" /\ Working(r)
  <2>1. CASE worker'.at # "idle" /\ worker'.id = worker.id
    BY <1>5, <2>1 DEF Working, Request
  <2>2. CASE Drops \/ Completes
    BY <1>2, <1>3, <1>4, <1>5, <2>2 DEF Drops, Completes, Working
  <2> QED
    BY <1>0, <1>5, <2>1, <2>2 DEF JobMove, Stands, Postpones, Goes, Walks, Submits, Promotes, Takes, Working
<1>6. CASE JobOf(r, 0) = "completed" /\ ~Working(r)
  BY <1>0, <1>2, <1>3, <1>6 DEF PutOff, InQueue
<1>7. CASE JobOf(r, 0) # "completed"
  <2>1. JobNamed(r, 0) \in WithdrawalJobs /\ job'[JobNamed(r, 0)].state = "completed"
        /\ job[JobNamed(r, 0)].state # "completed"
    BY <1>1, <1>7, JobNames DEF JobOf, JobNamed
  <2>2. Completes /\ worker.id = JobNamed(r, 0)
    BY <1>0, <2>1 DEF JobMove, Stands, Drops, Completes, Postpones, Walks, Submits, Promotes, Takes, Touches
  <2>3. Working(r) /\ worker.at = "reply"
    BY <2>2 DEF Completes, Working, Request, JobNamed
  <2> QED
    BY <1>2, <1>3, <1>4, <2>3
<1> QED
  BY <1>5, <1>6, <1>7

LEMMA LiveJobsStep ==
  ASSUME Willing, PendingInv, [WithdrawalNext]_withdrawalVars
  PROVE  IsFiniteSet(LiveJobs)'
<1>1. JobMove /\ IsFiniteSet(LiveJobs)
  BY JobCases DEF PendingInv
<1>2. CASE UNCHANGED job
  BY <1>1, <1>2 DEF LiveJobs
<1>3. ASSUME NEW j, NEW s, Touches(j, s) PROVE IsFiniteSet(LiveJobs)'
  <2>1. LiveJobs' \subseteq LiveJobs \cup {j}
    BY <1>3 DEF LiveJobs, Touches
  <2>2. IsFiniteSet(LiveJobs \cup {j})
    BY <1>1, FS_AddElement
  <2> QED
    BY <2>1, <2>2, FS_Subset
<1> QED
  BY <1>1, <1>2, <1>3 DEF JobMove, Stands, Drops, Completes, Postpones, Walks, Submits, Promotes, Takes

LEMMA PendingInvariance == Willing => (WithdrawalSpec => []PendingInv)
<1> SUFFICES ASSUME Willing PROVE WithdrawalSpec => []PendingInv
  OBVIOUS
<1> DEFINE Rest == Orderly /\ NamesTaken /\ Succeeded /\ PutOff /\ IsFiniteSet(LiveJobs)
<1>1. WithdrawalSpec => []SafeInv
  BY SafeInvariance DEF Willing
<1>2. WithdrawalInit => Rest
  <2> SUFFICES ASSUME WithdrawalInit PROVE Rest
    OBVIOUS
  <2>1. /\ worker.at = "idle" /\ payments = {}
        /\ \A j \in WithdrawalJobs : job[j].state = "none"
    BY DEF WithdrawalInit, QueueInit, NoJob, Idle
  <2>2. \A r \in Requests : JobOf(r, 0) = "none"
    BY <2>1, JobNames DEF JobOf, JobNamed
  <2>3. LiveJobs = {}
    BY <2>1 DEF LiveJobs
  <2> QED
    BY <2>1, <2>2, <2>3, JobNames, FS_EmptySet DEF Orderly, NamesTaken, Succeeded, PutOff, Submitted
<1>3. SafeInv /\ Rest /\ [WithdrawalNext]_withdrawalVars => Rest'
  BY OrderlyStep, NamesTakenStep, SucceededStep, PutOffStep, LiveJobsStep DEF PendingInv
<1>4. SafeInv /\ Rest => PendingInv
  BY DEF PendingInv
<1> QED
  BY <1>1, <1>2, <1>3, <1>4, PTL DEF WithdrawalSpec

LEMMA OwedWaits ==
  ASSUME Willing, PendingInv, NEW r \in Owed
  PROVE  \E n \in 1..MaxPostpones : Queued(JobNamed(r, n))
<1>1. JobOf(r, 0) = "completed" /\ r \in Requests /\ ~Paid(r) /\ ~Working(r)
      /\ r.amount <= balance[r.wallet]
  BY DEF Owed, Working
<1>2. ~(balance[r.wallet] < r.amount)
  <2>1. balance[r.wallet] \in Int /\ r.amount \in Int
    BY <1>1, PendingFacts, RequestFacts DEF WithdrawalTypeOK, StorageTypeOK
  <2> QED
    BY <1>1, <2>1
<1>3. InQueue(r)
  BY <1>1, <1>2 DEF PendingInv, PutOff, Over
<1> QED
  BY <1>3 DEF InQueue

(***************************************************************************)
(* A request that was put off and is still to be paid has a pending job    *)
(* waiting or delayed, for any number of requests and wallets, through     *)
(* retries and replacements: none is forgotten.                            *)
(***************************************************************************)
THEOREM PutOffIsPending == Willing => (WithdrawalSpec => []OwedArePending)
<1> SUFFICES ASSUME Willing PROVE WithdrawalSpec => []OwedArePending
  OBVIOUS
<1>1. PendingInv => OwedArePending
  <2> SUFFICES ASSUME PendingInv, NEW r \in Owed
               PROVE  \E j \in PendingJobs : j.request = r /\ job[j].state \in {"waiting", "delayed"}
    BY DEF OwedArePending
  <2>1. PICK n \in 1..MaxPostpones : Queued(JobNamed(r, n))
    BY OwedWaits
  <2>2. JobNamed(r, n) \in PendingJobs /\ JobNamed(r, n).request = r
    BY JobNames DEF Owed
  <2> QED
    BY <2>1, <2>2 DEF Queued
<1> QED
  BY <1>1, PendingInvariance, PTL

-----------------------------------------------------------------------------
(***************************************************************************)
(* The query reads and moves nothing: what happens around it is a          *)
(* behaviour of Withdrawals.                                               *)
(***************************************************************************)
LEMMA QueryReads == QuerySpec => WithdrawalSpec
<1>1. QueryInit => WithdrawalInit
  BY DEF QueryInit
<1>2. [QueryNext]_queryVars => [WithdrawalNext]_withdrawalVars
  BY DEF QueryNext, AskWaiting, AnswerPending, queryVars
<1> QED
  BY <1>1, <1>2, PTL DEF QuerySpec, WithdrawalSpec

(***************************************************************************)
(* Between the two reads, a pending job that waits was seen by the first   *)
(* or was promoted since.                                                  *)
(***************************************************************************)
QueryType == query \in [at : {"idle", "delayed"}, seen : SUBSET PendingJobs,
                        promoted : SUBSET PendingJobs]

Watched ==
  /\ QueryType /\ IsFiniteSet(query.seen)
  /\ query.at = "delayed" =>
       \A j \in PendingJobs : job[j].state = "waiting" => j \in query.seen \cup query.promoted

LEMMA ListsFinite ==
  ASSUME PendingInv, NEW s \in {"waiting", "delayed"}
  PROVE  PendingIn(s) \in SUBSET PendingJobs /\ IsFiniteSet(PendingIn(s))
<1>1. PendingIn(s) \subseteq LiveJobs
  BY DEF PendingIn, LiveJobs, PendingJobs
<1> QED
  BY <1>1, FS_Subset DEF PendingInv, PendingIn

\* A pending job comes to wait from the delayed ones.
LEMMA ComesToWait ==
  ASSUME Willing, PendingInv, [WithdrawalNext]_withdrawalVars, NEW j \in PendingJobs,
         job'[j].state = "waiting"
  PROVE  job[j].state \in {"waiting", "delayed"}
<1>1. JobMove /\ j \in WithdrawalJobs
  BY JobCases, JobNames
<1>2. CASE UNCHANGED job
  BY <1>2
<1>3. ASSUME NEW k, NEW s, Touches(k, s), k # j \/ s # "waiting" PROVE job[j].state = "waiting"
  BY <1>1, <1>3 DEF Touches
<1>4. ASSUME NEW r \in Requests, Submits(r) PROVE job[j].state = "waiting"
  BY <1>3, <1>4, JobNames DEF Submits
<1>5. ASSUME NEW k \in WithdrawalJobs, Promotes(k) PROVE job[j].state \in {"waiting", "delayed"}
  BY <1>3, <1>5 DEF Promotes
<1> QED
  BY <1>1, <1>2, <1>3, <1>4, <1>5 DEF JobMove, Stands, Drops, Completes, Postpones, Walks, Takes

LEMMA WatchedStep ==
  ASSUME Willing, PendingInv, Watched, [QueryNext]_queryVars
  PROVE  Watched'
<1>1. CASE AskWaiting
  <2>1. PendingIn("waiting") \in SUBSET PendingJobs /\ IsFiniteSet(PendingIn("waiting"))
    BY ListsFinite
  <2>2. /\ query' = [at |-> "delayed", seen |-> PendingIn("waiting"), promoted |-> {}]
        /\ job' = job
    BY <1>1 DEF AskWaiting, NoQuery, withdrawalVars
  <2> QED
    BY <2>1, <2>2 DEF Watched, QueryType, PendingIn
<1>2. CASE query' = NoQuery
  BY <1>2, FS_EmptySet DEF Watched, QueryType, NoQuery
<1>3. CASE WithdrawalNext /\ Meanwhile
  <2>1. ~Restart
    BY DEF Restart, Crash, Willing, Undisturbed
  <2>2. CASE query.at = "idle"
    BY <1>2, <1>3, <2>2 DEF Meanwhile
  <2>3. CASE query.at # "idle"
    <3>1. query' = [query EXCEPT !.promoted = @ \cup Promoted]
      BY <1>3, <2>1, <2>3 DEF Meanwhile
    <3>2. Promoted \in SUBSET PendingJobs
      BY DEF Promoted, PendingIn
    <3>3. /\ query'.at = query.at /\ query'.seen = query.seen
          /\ query'.promoted = query.promoted \cup Promoted /\ QueryType'
      BY <3>1, <3>2 DEF Watched, QueryType
    <3>4. ASSUME NEW j \in PendingJobs, job'[j].state = "waiting", query.at = "delayed"
          PROVE  j \in query.seen \cup query.promoted \cup Promoted
      <4>1. job[j].state \in {"waiting", "delayed"}
        BY <1>3, <3>4, ComesToWait
      <4> QED
        BY <3>4, <4>1 DEF Watched, Promoted, PendingIn
    <3> QED
      BY <3>3, <3>4 DEF Watched
  <2> QED
    BY <2>2, <2>3
<1>4. CASE UNCHANGED queryVars
  BY <1>4 DEF queryVars, withdrawalVars, Watched, QueryType
<1> QED
  BY <1>1, <1>2, <1>3, <1>4 DEF QueryNext, AnswerPending

LEMMA OwedFinite ==
  ASSUME PendingInv
  PROVE  Owed \in SUBSET Requests /\ IsFiniteSet(Owed)
<1> DEFINE S == {j \in LiveJobs : j \notin PendingJobs}
           T == {r \in Requests : Submitted(r)}
           asked == [j \in S |-> j.request]
<1>1. IsFiniteSet(S)
  BY FS_Subset DEF PendingInv
<1>2. \A j \in S : j = JobNamed(asked[j], 0) /\ asked[j] \in T
  BY JobNames DEF LiveJobs, Submitted, JobOf, JobNamed
<1>3. \A r \in T : JobNamed(r, 0) \in S /\ asked[JobNamed(r, 0)] = r
  BY JobNames DEF LiveJobs, Submitted, JobOf, JobNamed
<1>4. asked \in Bijection(S, T)
  <2>1. asked \in [S -> T]
    BY <1>2
  <2> HIDE DEF asked, S, T
  <2>2. \A i, j \in S : asked[i] = asked[j] => i = j
    BY <1>2
  <2> QED
    BY <1>3, <2>1, <2>2 DEF Bijection, Injection, Surjection, IsInjective
<1>5. IsFiniteSet(T)
  BY <1>1, <1>4, FS_Bijection DEF ExistsBijection
<1>6. Owed \subseteq T
  BY DEF Owed, Submitted
<1> QED
  BY <1>5, <1>6, FS_Subset DEF Owed

\* To each request owed and not moved belongs a job of its own that one of the reads lists.
LEMMA ListedOnce ==
  ASSUME Willing, PendingInv, Watched, query.at = "delayed", NEW r \in Unmoved
  PROVE  \E n \in 1..MaxPostpones : JobNamed(r, n) \in query.seen \cup PendingIn("delayed")
<1>1. r \in Owed /\ r \in Requests
  BY DEF Unmoved, Owed
<1>2. PICK n \in 1..MaxPostpones : Queued(JobNamed(r, n))
  BY <1>1, OwedWaits
<1>3. JobNamed(r, n) \in PendingJobs /\ JobNamed(r, n).request = r
  BY <1>1, JobNames
<1>4. JobNamed(r, n) \notin query.promoted
  BY <1>3 DEF Unmoved
<1> QED
  BY <1>2, <1>3, <1>4 DEF Queued, Watched, PendingIn

LEMMA WatchedCovers ==
  ASSUME Willing, PendingInv, Watched
  PROVE  AnswerCoversOwed
<1> SUFFICES ASSUME query.at = "delayed" PROVE SumOver(RequestAmount, Unmoved) <= Answer
  BY DEF AnswerCoversOwed
<1> DEFINE Listed == query.seen \cup PendingIn("delayed")
           Late   == PendingIn("delayed") \ query.seen
           Place(r) == CHOOSE n \in 1..MaxPostpones : JobNamed(r, n) \in Listed
           heir == [r \in Unmoved |-> JobNamed(r, Place(r))]
           Heirs == {heir[r] : r \in Unmoved}
<1>1. Unmoved \in SUBSET Requests /\ IsFiniteSet(Unmoved)
  <2>1. Unmoved \in SUBSET Owed
    BY DEF Unmoved
  <2> QED
    BY <2>1, OwedFinite, FS_Subset
<1>2. ASSUME NEW r \in Unmoved PROVE heir[r] \in Listed /\ heir[r].request = r
  <2>1. JobNamed(r, Place(r)) \in Listed
    BY ListedOnce
  <2> HIDE DEF Place, Listed
  <2> QED
    BY <1>1, <2>1, JobNames
<1>3. /\ RequestAmount \in [Requests -> Nat] /\ RequestAmount \in [Requests -> Int]
      /\ JobAmount \in [WithdrawalJobs -> Nat] /\ JobAmount \in [WithdrawalJobs -> Int]
  BY RequestFacts, JobNames DEF JobAmount, RequestAmount
<1>4. /\ query.seen \in SUBSET WithdrawalJobs /\ IsFiniteSet(query.seen)
      /\ PendingIn("delayed") \in SUBSET WithdrawalJobs /\ IsFiniteSet(PendingIn("delayed"))
  BY ListsFinite, JobNames DEF Watched, QueryType
<1>5. /\ Late \in SUBSET WithdrawalJobs /\ IsFiniteSet(Late)
      /\ Listed \in SUBSET WithdrawalJobs /\ IsFiniteSet(Listed)
      /\ Listed = query.seen \cup Late /\ query.seen \cap Late = {}
      /\ Late \in SUBSET PendingIn("delayed")
  <2>1. IsFiniteSet(Late)
    BY <1>4, FS_Subset
  <2>2. IsFiniteSet(Listed)
    BY <1>4, FS_Union
  <2> QED
    BY <1>4, <2>1, <2>2
<1>6. /\ \A r \in Unmoved : heir[r] \in WithdrawalJobs /\ JobAmount[heir[r]] = RequestAmount[r]
      /\ \A r, s \in Unmoved : heir[r] = heir[s] => r = s
      /\ Heirs \in SUBSET Listed
  <2> HIDE DEF heir, Listed
  <2> QED
    BY <1>1, <1>2, <1>5 DEF JobAmount, RequestAmount
<1> HIDE DEF heir, Heirs, Listed, Late
<1>7. SumOver(JobAmount, Heirs) = SumOver(RequestAmount, Unmoved)
  <2>1. RequestAmount \in [Requests -> Int] /\ JobAmount \in [WithdrawalJobs -> Int]
    BY <1>3
  <2> QED
    BY <1>1, <1>6, <2>1, SumInjected DEF Heirs
<1>8. SumOver(JobAmount, Heirs) <= SumOver(JobAmount, Listed)
  BY <1>3, <1>5, <1>6, SumSubset
<1>9. SumOver(JobAmount, Listed) = SumOver(JobAmount, query.seen) + SumOver(JobAmount, Late)
  BY <1>3, <1>4, <1>5, SumUnion
<1>10. SumOver(JobAmount, Late) <= SumOver(JobAmount, PendingIn("delayed"))
  BY <1>3, <1>4, <1>5, SumSubset
<1>11. /\ SumOver(JobAmount, query.seen) \in Int /\ SumOver(JobAmount, Late) \in Int
       /\ SumOver(JobAmount, PendingIn("delayed")) \in Int /\ SumOver(JobAmount, Listed) \in Int
       /\ SumOver(RequestAmount, Unmoved) \in Int
  BY <1>1, <1>3, <1>4, <1>5, SumInt
<1> QED
  BY <1>7, <1>8, <1>9, <1>10, <1>11 DEF Answer

(***************************************************************************)
(* What GET /withdrawals/pending answers covers every request that was put *)
(* off and is still to be paid, of which no job was promoted between its   *)
(* two reads: for any number of requests and wallets, whatever else the    *)
(* worker and the queue do between the reads.                              *)
(***************************************************************************)
THEOREM AnswerIsEnough == Willing => (QuerySpec => []AnswerCoversOwed)
<1> SUFFICES ASSUME Willing PROVE QuerySpec => []AnswerCoversOwed
  OBVIOUS
<1>1. QuerySpec => []PendingInv
  BY QueryReads, PendingInvariance
<1>2. QueryInit => Watched
  BY FS_EmptySet DEF QueryInit, NoQuery, Watched, QueryType
<1>3. PendingInv /\ Watched /\ [QueryNext]_queryVars => Watched'
  BY WatchedStep
<1>4. PendingInv /\ Watched => AnswerCoversOwed
  BY WatchedCovers
<1> QED
  BY <1>1, <1>2, <1>3, <1>4, PTL DEF QuerySpec
=============================================================================
