----------------------------- MODULE Swaps_proofs -----------------------------
(***************************************************************************)
(* Proofs about Swaps, for every value of its constants.                   *)
(***************************************************************************)
EXTENDS Swaps, DepositsStorage_proofs, Sums_proofs

(***************************************************************************)
(* The worker's job is active, and a job that has not failed has attempts  *)
(* and stalls left: that keeps the counters of the queue in their types.   *)
(***************************************************************************)
JobsLive ==
  /\ \A j \in SwapJobs : job[j].state # "failed" =>
        job[j].tries < MaxAttempts /\ job[j].stalls <= MaxStalled
  /\ worker.at # "idle" => job[worker.id].state = "active"

WorkerStates == {Idle} \cup [at : Places, id : SwapJobs, receipt : Receipts \cup {NoReceipt}]

SwapBase == BaseInv /\ SwapTypeOK /\ JobsLive

LEMMA MintFacts ==
  ASSUME NEW m \in Mints
  PROVE  m.kind = "mint" /\ m.wallet \in Wallets /\ m.amount \in Nat /\ m.stamp \in Stamps
  BY SwapsAssumption

LEMMA BurnFacts ==
  ASSUME NEW b \in Burns
  PROVE  b.kind = "burn" /\ b.wallet \in Wallets /\ b.amount \in Nat /\ b.hash \in Hashes
  BY SwapsAssumption

LEMMA JobFacts ==
  ASSUME NEW id \in SwapJobs
  PROVE  /\ id \in Mints \/ id \in Burns
         /\ id.kind \in {"mint", "burn"} /\ (id.kind = "mint" <=> id \in Mints)
         /\ id.wallet \in Wallets /\ id.amount \in Nat
         /\ ReadOp(id) \in Ops
  BY MintFacts, BurnFacts, SwapOpsAssumption DEF SwapJobs

LEMMA CallFacts ==
  /\ WorkerCall \in Calls /\ StoreCalls \subseteq Calls /\ ReaderCalls \subseteq Calls
  /\ WorkerCall \notin StoreCalls /\ WorkerCall \notin ReaderCalls
  BY SwapsAssumption

LEMMA WorkerFacts ==
  ASSUME SwapTypeOK, worker.at # "idle"
  PROVE  /\ worker.at \in Places /\ worker.id \in SwapJobs
         /\ worker.receipt \in Receipts \cup {NoReceipt}
         /\ worker = [at |-> worker.at, id |-> worker.id, receipt |-> worker.receipt]
         /\ Swap \in SwapJobs /\ ReadOp(Swap) \in Ops
<1>1. worker \in [at : Places, id : SwapJobs, receipt : Receipts \cup {NoReceipt}]
  BY DEF SwapTypeOK, Idle
<1> QED
  BY <1>1, SwapOpsAssumption DEF Swap

(***************************************************************************)
(* Where a job stands says which way it goes, and a job of a burn exists   *)
(* once the burn is on the blockchain.                                     *)
(***************************************************************************)
MintPlaces == {"claim", "checked", "balance", "mint", "debit", "stored"}

Signature == [request |-> Swap, hash |-> worker.receipt]

Sides ==
  /\ worker.at \in MintPlaces => Swap \in Mints
  /\ worker.at \in {"posted", "credit"} => Swap \in burnt
  /\ \A b \in Burns : job[b].state # "none" => b \in burnt
  /\ worker.at \in {"debit", "stored"} => worker.receipt # NoReceipt
  /\ worker.at # "idle" /\ worker.receipt # NoReceipt => Signature \in receipts

SidedInv == SwapBase /\ Sides

LEMMA SidedFacts ==
  ASSUME SidedInv
  PROVE  /\ worker.at = "debit" => DebitOp(Swap, worker.receipt) \in Ops
         /\ worker.at = "credit" => CreditOp(Swap) \in Ops
<1>1. CASE worker.at = "debit"
  <2>1. SwapTypeOK /\ Swap \in Mints /\ worker.receipt \in Receipts
    BY <1>1, WorkerFacts DEF SidedInv, SwapBase, Sides, MintPlaces
  <2> QED
    BY <1>1, <2>1, SwapOpsAssumption
<1>2. CASE worker.at = "credit"
  <2>1. Swap \in Burns
    BY <1>2 DEF SidedInv, SwapBase, Sides, SwapTypeOK
  <2> QED
    BY <1>2, <2>1, SwapOpsAssumption
<1> QED
  BY <1>1, <1>2

(***************************************************************************)
(* What a swap does to the storage is a step of the storage.               *)
(***************************************************************************)
LEMMA StorageOfStep ==
  ASSUME SidedInv, [SwapNext]_swapVars
  PROVE  [StorageNext]_storageVars
<1> USE DEF Outside, JobFails
<1>0. SwapTypeOK
  BY DEF SidedInv, SwapBase
<1>1. ASSUME NEW c \in Calls, NEW o \in Ops, Invoke(c, o) PROVE StorageNext
  BY <1>1 DEF StorageNext
<1>2. CASE WorkerStep
  <2>1. ASSUME NEW j \in SwapJobs, Start(j) PROVE UNCHANGED storageVars
    BY <2>1 DEF Start
  <2>2. CASE CheckClaim
    BY <2>2 DEF CheckClaim
  <2>3. CASE ReadBalance
    BY <1>0, <1>1, <2>3, CallFacts, WorkerFacts DEF ReadBalance
  <2>4. CASE CheckBalance
    BY <2>4 DEF CheckBalance
  <2>5. CASE CreateMintReceipt
    BY <2>5 DEF CreateMintReceipt
  <2>6. CASE Debit
    BY <1>0, <1>1, <2>6, CallFacts, SidedFacts DEF Debit
  <2>7. CASE Debited
    BY <2>7 DEF Debited
  <2>8. CASE CheckPosted
    BY <2>8 DEF CheckPosted
  <2>9. CASE Credit
    BY <1>0, <1>1, <2>9, CallFacts, SidedFacts DEF Credit
  <2>10. CASE Report
    BY <1>0, <1>1, <2>10, CallFacts, WorkerFacts DEF Report
  <2>11. CASE Reply
    BY <2>11 DEF Reply
  <2> QED
    BY <1>2, <2>1, <2>2, <2>3, <2>4, <2>5, <2>6, <2>7, <2>8, <2>9, <2>10, <2>11 DEF WorkerStep
<1>3. CASE \E m \in Mints : Submit(m)
  BY <1>3 DEF Submit
<1>4. CASE \E b \in Burns : Burn(b) \/ Observe(b)
  BY <1>4 DEF Burn, Observe
<1>5. CASE PromoteJob \/ StallJob
  BY <1>5 DEF PromoteJob, StallJob
<1>6. CASE ReadOverHttp
  BY <1>1, <1>6, CallFacts, SwapOpsAssumption DEF ReadOverHttp
<1>7. CASE StorageStep
  BY <1>7 DEF StorageStep, StorageNext
<1>8. CASE Restart
  BY <1>8 DEF Restart, StorageNext
<1>9. CASE UNCHANGED swapVars
  BY <1>9 DEF swapVars
<1> QED
  BY <1>2, <1>3, <1>4, <1>5, <1>6, <1>7, <1>8, <1>9 DEF SwapNext

LEMMA BaseOfInit == SwapInit => SidedInv
<1> SUFFICES ASSUME SwapInit PROVE SidedInv
  OBVIOUS
<1>1. BaseInv
  BY BaseInit DEF SwapInit
<1>2. JobTypeOK
  BY DEF SwapInit, QueueInit, JobTypeOK, NoJob, JobStates, MaxAttempts, MaxStalled
<1>3. SwapTypeOK
  BY <1>1, <1>2 DEF SwapInit, SwapTypeOK, BaseInv
<1>4. JobsLive
  BY DEF SwapInit, JobsLive, QueueInit, NoJob, MaxAttempts, MaxStalled, Idle
<1>5. Sides
  BY DEF SwapInit, Sides, QueueInit, NoJob, Idle, MintPlaces, SwapJobs
<1> QED
  BY <1>1, <1>3, <1>4, <1>5 DEF SidedInv, SwapBase

(***************************************************************************)
(* What a step is to the queue, the worker and the receipts.               *)
(***************************************************************************)
Path == {<<"claim", "checked">>, <<"checked", "balance">>, <<"balance", "mint">>,
         <<"debit", "stored">>, <<"stored", "report">>, <<"posted", "report">>,
         <<"posted", "credit">>, <<"credit", "report">>, <<"report", "reply">>}

Going == /\ \E p \in Places : <<worker.at, p>> \in Path /\ GoesTo(p)
         /\ worker.at \in Places
         /\ UNCHANGED <<job, receipts, delivered, burnt>>

Failing == worker.at # "idle" /\ JobFails /\ UNCHANGED <<storageVars, receipts, delivered, burnt>>

Signing == /\ worker.at = "mint" /\ UNCHANGED <<storageVars, job, delivered, burnt>>
           /\ \E h \in Receipts \ {NoReceipt} :
                /\ \A r \in receipts : r.hash # h
                /\ receipts' = receipts \cup {[request |-> Swap, hash |-> h]}
                /\ worker' = [worker EXCEPT !.at = "debit", !.receipt = h]

Delivering == /\ worker.at = "reply" /\ UNCHANGED <<storageVars, receipts, burnt>>
              /\ Complete(Swap) /\ worker' = Idle
              /\ delivered' = delivered \cup {r \in receipts : r.hash = worker.receipt}

Starting == (\E id \in SwapJobs : Start(id)) /\ UNCHANGED <<storageVars, receipts, delivered, burnt>>

Queueing == /\ \/ \E m \in Mints : Submit(m)
               \/ \E b \in Burns : Observe(b)
               \/ PromoteJob \/ StallJob
            /\ UNCHANGED <<storageVars, worker, receipts, delivered, burnt>>

Burning == (\E b \in Burns : Burn(b)) /\ UNCHANGED <<storageVars, job, worker, receipts, delivered>>

Storing == (ReadOverHttp \/ StorageStep) /\ UNCHANGED <<job, worker, receipts, delivered, burnt>>

Restarting == Restart /\ UNCHANGED <<job, receipts, delivered, burnt>>

Moves == \/ Going \/ Failing \/ Signing \/ Delivering \/ Starting \/ Queueing \/ Burning
         \/ Storing \/ Restarting \/ UNCHANGED swapVars

LEMMA MoveCases ==
  ASSUME [SwapNext]_swapVars
  PROVE  Moves
<1> USE DEF Outside
<1>1. CASE WorkerStep
  <2>1. CASE \E id \in SwapJobs : Start(id)
    BY <2>1 DEF Start, Moves, Starting
  <2>2. CASE CheckClaim
    BY <2>2 DEF CheckClaim, Moves, Going, Failing, Path, Places
  <2>3. CASE ReadBalance
    BY <2>3 DEF ReadBalance, Moves, Going, Path, Places
  <2>4. CASE CheckBalance
    BY <2>4 DEF CheckBalance, Moves, Going, Failing, Path, Places
  <2>5. CASE CreateMintReceipt
    BY <2>5 DEF CreateMintReceipt, Moves, Failing, Signing
  <2>6. CASE Debit
    BY <2>6 DEF Debit, Moves, Going, Path, Places
  <2>7. CASE Debited
    BY <2>7 DEF Debited, Moves, Going, Failing, Path, Places
  <2>8. CASE CheckPosted
    BY <2>8 DEF CheckPosted, Moves, Going, Failing, Path, Places
  <2>9. CASE Credit
    BY <2>9 DEF Credit, Moves, Going, Path, Places
  <2>10. CASE Report
    BY <2>10 DEF Report, Moves, Going, Path, Places
  <2>11. CASE Reply
    BY <2>11 DEF Reply, Moves, Failing, Delivering
  <2> QED
    BY <1>1, <2>1, <2>2, <2>3, <2>4, <2>5, <2>6, <2>7, <2>8, <2>9, <2>10, <2>11 DEF WorkerStep
<1>2. CASE \E m \in Mints : Submit(m)
  BY <1>2 DEF Submit, Moves, Queueing
<1>3. ASSUME NEW b \in Burns, Burn(b) PROVE Moves
  BY <1>3 DEF Burn, Moves, Burning
<1>4. ASSUME NEW b \in Burns, Observe(b) PROVE Moves
  BY <1>4 DEF Observe, Moves, Queueing
<1>5. CASE PromoteJob \/ StallJob
  BY <1>5 DEF PromoteJob, StallJob, Moves, Queueing
<1>6. CASE ReadOverHttp \/ StorageStep
  BY <1>6 DEF ReadOverHttp, StorageStep, Moves, Storing
<1>7. CASE Restart
  BY <1>7 DEF Restart, Moves, Restarting
<1>8. CASE UNCHANGED swapVars
  BY <1>8 DEF Moves
<1> QED
  BY <1>1, <1>2, <1>3, <1>4, <1>5, <1>6, <1>7, <1>8 DEF SwapNext

(***************************************************************************)
(* The queue and the worker.                                               *)
(***************************************************************************)
Records == [state : JobStates, tries : 0..MaxAttempts, stalls : 0..MaxStalled + 1]

LiveRecord(r) == r.state # "failed" => r.tries < MaxAttempts /\ r.stalls <= MaxStalled

LEMMA FailedRecord ==
  ASSUME NEW j \in SwapJobs, JobTypeOK, job[j].tries < MaxAttempts, job[j].stalls <= MaxStalled,
         Fail(j)
  PROVE  /\ job'[j] \in Records /\ LiveRecord(job'[j])
         /\ \A k \in SwapJobs \ {j} : job'[k] = job[k]
         /\ job' = [job EXCEPT ![j] = job'[j]]
<1>1. PICK old \in Records : old = job[j]
  BY DEF JobTypeOK, Records
<1>2. job \in [SwapJobs -> Records]
  BY DEF JobTypeOK, Records
<1>3. old.tries \in 0..2 /\ old.tries + 1 \in 1..3 /\ old.stalls \in 0..1 /\ old.state \in JobStates
  BY <1>1 DEF Records, MaxAttempts, MaxStalled
<1> DEFINE After(s) == [old EXCEPT !.state = s, !.tries = old.tries + 1]
<1>4. ASSUME NEW s \in {"delayed", "failed"}
      PROVE  /\ After(s) \in Records
             /\ After(s).state = s /\ After(s).tries = old.tries + 1
             /\ After(s).stalls = old.stalls
  <2>1. s \in JobStates /\ old.tries + 1 \in 0..MaxAttempts
    BY <1>3 DEF MaxAttempts, JobStates
  <2>2. [old EXCEPT !.state = s] \in Records
    BY <2>1 DEF Records
  <2>3. After(s) = [[old EXCEPT !.state = s] EXCEPT !.tries = old.tries + 1]
    OBVIOUS
  <2> QED
    BY <2>1, <2>2, <2>3 DEF Records
<1>5. job' = [job EXCEPT ![j] = IF old.tries + 1 < MaxAttempts THEN After("delayed")
                                ELSE After("failed")]
  BY <1>1 DEF Fail
<1> HIDE DEF After
<1>6. CASE old.tries + 1 < MaxAttempts
  BY <1>2, <1>3, <1>4, <1>5, <1>6 DEF LiveRecord, MaxStalled
<1>7. CASE ~(old.tries + 1 < MaxAttempts)
  BY <1>2, <1>3, <1>4, <1>5, <1>7 DEF LiveRecord
<1> QED
  BY <1>6, <1>7

QueueFine == JobTypeOK /\ JobsLive /\ worker \in WorkerStates

LEMMA QueueStep ==
  ASSUME SwapTypeOK, JobsLive, Moves
  PROVE  QueueFine'
<1>0. JobTypeOK /\ worker \in WorkerStates
  BY DEF SwapTypeOK, WorkerStates
<1> USE DEF JobsLive, JobTypeOK, JobStates, MaxAttempts, MaxStalled, NoJob, QueueFine
<1>1. CASE Failing
  <2>1. worker.id \in SwapJobs /\ job[worker.id].state = "active"
    BY <1>1, WorkerFacts DEF Failing
  <2>2. Fail(worker.id) /\ worker' = Idle
    BY <1>1 DEF Failing, JobFails, Swap
  <2>3. /\ job'[worker.id] \in Records /\ LiveRecord(job'[worker.id])
        /\ \A k \in SwapJobs \ {worker.id} : job'[k] = job[k]
        /\ job' = [job EXCEPT ![worker.id] = job'[worker.id]]
    BY <1>0, <2>1, <2>2, FailedRecord
  <2> QED
    BY <1>0, <2>1, <2>2, <2>3 DEF Records, LiveRecord, Idle, WorkerStates
<1>2. CASE Going
  <2>1. worker.at # "idle"
    BY <1>2 DEF Going, Places
  <2> QED
    BY <1>0, <1>2, <2>1, WorkerFacts DEF Going, GoesTo, Idle, WorkerStates
<1>3. CASE UNCHANGED <<job, worker>>
  BY <1>0, <1>3 DEF Idle, WorkerStates
<1>4. CASE Signing
  BY <1>0, <1>4, WorkerFacts DEF Signing, WorkerStates, Idle, Places
<1>5. CASE Delivering
  BY <1>0, <1>5, WorkerFacts DEF Delivering, Complete, Move, Idle, WorkerStates, Swap
<1>6. ASSUME NEW id \in SwapJobs, Start(id) PROVE QueueFine'
  BY <1>0, <1>6 DEF Start, Take, Move, NoReceipt, Places, WorkerStates, Idle
<1>7. ASSUME NEW m \in Mints, Submit(m), UNCHANGED worker PROVE QueueFine'
  BY <1>0, <1>7, WorkerFacts DEF Submit, Add, SwapJobs, WorkerStates, Idle
<1>8. ASSUME NEW b \in Burns, Observe(b), UNCHANGED worker PROVE QueueFine'
  BY <1>0, <1>8, WorkerFacts DEF Observe, Add, SwapJobs, WorkerStates, Idle
<1>9. CASE PromoteJob /\ UNCHANGED worker
  BY <1>0, <1>9, WorkerFacts DEF PromoteJob, Promote, Move, WorkerStates, Idle
<1>10. CASE StallJob /\ UNCHANGED worker
  BY <1>0, <1>10, WorkerFacts DEF StallJob, Stall, Attended, WorkerStates, Idle
<1>11. CASE Restarting
  BY <1>0, <1>11 DEF Restarting, Restart, Idle, WorkerStates
<1> QED
  BY <1>1, <1>2, <1>3, <1>4, <1>5, <1>6, <1>7, <1>8, <1>9, <1>10, <1>11
  DEF Moves, Starting, Queueing, Burning, Storing, swapVars

LEMMA ReceiptsStep ==
  ASSUME SwapTypeOK, Sides, Moves
  PROVE  receipts' \subseteq SignedReceipts /\ delivered' \subseteq receipts' /\ burnt' \subseteq Burns
<1>1. receipts \subseteq SignedReceipts /\ delivered \subseteq receipts /\ burnt \subseteq Burns
  BY DEF SwapTypeOK
<1>2. CASE Signing
  <2>1. Swap \in Mints
    BY <1>2 DEF Signing, Sides, MintPlaces
  <2> QED
    BY <1>1, <1>2, <2>1 DEF Signing, SignedReceipts
<1>3. CASE Delivering
  BY <1>1, <1>3 DEF Delivering
<1>4. CASE Burning
  BY <1>1, <1>4 DEF Burning, Burn, Twins
<1>5. CASE UNCHANGED <<receipts, delivered, burnt>>
  BY <1>1, <1>5
<1> QED
  BY <1>2, <1>3, <1>4, <1>5
  DEF Moves, Going, Failing, Starting, Queueing, Storing, Restarting, swapVars

(***************************************************************************)
(* A burn's job: added for a burn on the blockchain, never removed.        *)
(***************************************************************************)
Reported == \A b \in Burns : job[b].state # "none" => b \in burnt

LEMMA ReportedStep ==
  ASSUME SwapTypeOK, JobsLive, Sides, Moves
  PROVE  Reported'
<1>1. Reported /\ burnt \subseteq Burns /\ JobTypeOK
  BY DEF Sides, Reported, SwapTypeOK
<1>2. ASSUME UNCHANGED burnt,
             \A b \in Burns : job'[b].state # "none" => job[b].state # "none" \/ b \in burnt
      PROVE  Reported'
  BY <1>1, <1>2 DEF Reported
<1>3. CASE UNCHANGED <<job, burnt>>
  BY <1>2, <1>3
<1>4. CASE Failing
  <2>1. worker.id \in SwapJobs /\ job[worker.id].state = "active" /\ Fail(worker.id)
    BY <1>4, WorkerFacts DEF Failing, JobsLive, JobFails, Swap
  <2>2. \A b \in Burns \ {worker.id} : job'[b] = job[b]
    BY <1>1, <2>1 DEF Fail, JobTypeOK, SwapJobs
  <2> QED
    BY <1>2, <1>4, <2>1, <2>2 DEF Failing
<1>5. CASE Delivering
  <2>1. worker.id \in SwapJobs /\ job[worker.id].state = "active"
    BY <1>5, WorkerFacts DEF Delivering, JobsLive
  <2> QED
    BY <1>1, <1>2, <1>5, <2>1 DEF Delivering, Complete, Move, Swap, JobTypeOK, SwapJobs
<1>6. ASSUME NEW id \in SwapJobs, Start(id), UNCHANGED burnt PROVE Reported'
  BY <1>1, <1>2, <1>6 DEF Start, Take, Move, JobTypeOK, SwapJobs
<1>7. ASSUME NEW m \in Mints, Submit(m), UNCHANGED burnt PROVE Reported'
  <2>1. m \notin Burns
    BY MintFacts, BurnFacts
  <2>2. \A b \in Burns : job'[b] = job[b]
    BY <1>1, <1>7, <2>1 DEF Submit, Add, JobTypeOK, SwapJobs
  <2> QED
    BY <1>2, <1>7, <2>2
<1>8. ASSUME NEW b \in Burns, Observe(b), UNCHANGED burnt PROVE Reported'
  <2>1. b \in burnt /\ \A d \in Burns \ {b} : job'[d] = job[d]
    BY <1>1, <1>8 DEF Observe, Add, JobTypeOK, SwapJobs
  <2> QED
    BY <1>2, <1>8, <2>1
<1>9. CASE PromoteJob /\ UNCHANGED burnt
  BY <1>1, <1>2, <1>9 DEF PromoteJob, Promote, Move, JobTypeOK, SwapJobs
<1>10. CASE StallJob /\ UNCHANGED burnt
  BY <1>1, <1>2, <1>10 DEF StallJob, Stall, JobTypeOK, SwapJobs
<1>11. CASE Burning
  BY <1>1, <1>11 DEF Burning, Burn, Reported
<1> QED
  BY <1>3, <1>4, <1>5, <1>6, <1>7, <1>8, <1>9, <1>10, <1>11
  DEF Moves, Going, Signing, Starting, Queueing, Storing, Restarting, swapVars

(***************************************************************************)
(* Where the worker is, after a step that moves it.                        *)
(***************************************************************************)
LEMMA GoingFacts ==
  ASSUME SwapTypeOK, Going
  PROVE  /\ <<worker.at, worker'.at>> \in Path /\ worker.at # "idle" /\ worker'.at # "idle"
         /\ Swap' = Swap /\ worker'.receipt = worker.receipt /\ Signature' = Signature
<1>1. PICK p \in Places : <<worker.at, p>> \in Path /\ GoesTo(p) /\ worker.at \in Places
  BY DEF Going
<1>2. worker.at # "idle" /\ p # "idle"
  BY <1>1 DEF Places
<1>3. worker' = [at |-> p, id |-> worker.id, receipt |-> worker.receipt]
  BY <1>1, <1>2, WorkerFacts DEF GoesTo
<1> QED
  BY <1>1, <1>2, <1>3 DEF Swap, Signature

LEMMA SigningFacts ==
  ASSUME SwapTypeOK, Signing
  PROVE  /\ worker'.at = "debit" /\ Swap' = Swap /\ receipts' = receipts \cup {Signature'}
         /\ worker'.receipt \in Receipts \ {NoReceipt}
         /\ \A r \in receipts : r.hash # worker'.receipt
<1>1. PICK h \in Receipts \ {NoReceipt} :
         /\ \A r \in receipts : r.hash # h
         /\ receipts' = receipts \cup {[request |-> Swap, hash |-> h]}
         /\ worker' = [worker EXCEPT !.at = "debit", !.receipt = h]
  BY DEF Signing
<1>2. worker' = [at |-> "debit", id |-> worker.id, receipt |-> h]
  BY <1>1, WorkerFacts DEF Signing
<1> QED
  BY <1>1, <1>2 DEF Swap, Signature

LEMMA StartingFacts ==
  ASSUME SwapTypeOK, Starting
  PROVE  /\ Swap' \in SwapJobs /\ job[Swap'].state # "none" /\ worker'.receipt = NoReceipt
         /\ worker'.at = (IF Swap'.kind = "mint" THEN "claim" ELSE "posted")
<1>1. PICK id \in SwapJobs : Start(id)
  BY DEF Starting
<1> QED
  BY <1>1 DEF Start, Take, Swap

LEMMA SidesStep ==
  ASSUME SwapTypeOK, JobsLive, Sides, Moves
  PROVE  Sides'
<1>1. Reported'
  BY ReportedStep
<1>2. receipts \subseteq receipts' /\ burnt \subseteq burnt'
  BY DEF Moves, Going, Failing, Signing, Delivering, Starting, Queueing, Burning, Storing, Restarting,
         Burn, swapVars
<1>3. CASE Going
  BY <1>1, <1>2, <1>3, GoingFacts, JobFacts DEF Sides, Path, MintPlaces, Reported, Going, SwapTypeOK
<1>4. CASE Signing
  BY <1>1, <1>2, <1>4, SigningFacts DEF Sides, MintPlaces, Reported, Signing
<1>5. CASE worker' = Idle
  BY <1>1, <1>5 DEF Sides, Idle, MintPlaces, Reported
<1>6. CASE Starting
  <2>1. Swap' \in Mints \/ (Swap' \in burnt /\ worker'.at = "posted")
    BY <1>6, StartingFacts, JobFacts DEF Sides
  <2> QED
    BY <1>1, <1>2, <1>6, <2>1, StartingFacts, JobFacts DEF Sides, MintPlaces, Reported
<1>7. CASE UNCHANGED worker
  BY <1>1, <1>2, <1>7 DEF Sides, Reported, Swap, Signature
<1> QED
  BY <1>3, <1>4, <1>5, <1>6, <1>7
  DEF Moves, Failing, JobFails, Delivering, Queueing, Burning, Storing, Restarting, Restart, swapVars

LEMMA SidedStep == SidedInv /\ [SwapNext]_swapVars => SidedInv'
<1> SUFFICES ASSUME SidedInv, [SwapNext]_swapVars PROVE SidedInv'
  OBVIOUS
<1>1. SwapTypeOK /\ JobsLive /\ Sides /\ BaseInv /\ Moves
  BY MoveCases DEF SidedInv, SwapBase
<1>2. BaseInv'
  BY <1>1, StorageOfStep, BaseStep
<1>3. QueueFine' /\ Sides'
  BY <1>1, QueueStep, SidesStep
<1>4. receipts' \subseteq SignedReceipts /\ delivered' \subseteq receipts' /\ burnt' \subseteq Burns
  BY <1>1, ReceiptsStep
<1> QED
  BY <1>2, <1>3, <1>4 DEF SidedInv, SwapBase, SwapTypeOK, QueueFine, WorkerStates, BaseInv

LEMMA SidedInvariance == SwapSpec => []SidedInv
  BY BaseOfInit, SidedStep, PTL DEF SwapSpec

(***************************************************************************)
(* Type correctness, whatever the faults: the queue's counters stay within *)
(* the attempts and stalls BullMQ allows, a job of a swap to wPAW is never *)
(* run as one to PAW, and what is delivered was signed.                    *)
(***************************************************************************)
THEOREM SwapTypeCorrect == SwapSpec => []SwapTypeOK
<1>1. SidedInv => SwapTypeOK
  BY DEF SidedInv, SwapBase
<1> QED
  BY <1>1, SidedInvariance, PTL

(***************************************************************************)
(* The worker uses the storage as it is meant to be used: what swaps do to *)
(* balances, entries, locks and calls is a behaviour of DepositsStorage,   *)
(* so every theorem about the storage holds of it.                         *)
(***************************************************************************)
THEOREM SwapsUseStorage == SwapSpec => StorageSpec
<1>1. SwapInit => StorageInit
  BY DEF SwapInit
<1> QED
  BY <1>1, StorageOfStep, SidedInvariance, PTL DEF SwapSpec, StorageSpec

-----------------------------------------------------------------------------
(***************************************************************************)
(* Only an event of the blockchain is credited, and only a receipt         *)
(* debited: the detached calls store burns, and the call of the worker     *)
(* stores the receipt the worker waits to see stored.                      *)
(***************************************************************************)
CallsServe ==
  \A c \in Calls :
    \/ op[c].kind \in {"none", "read"}
    \/ c \in StoreCalls /\ \E b \in burnt : op[c] = CreditOp(b)
    \/ c = WorkerCall /\ worker.at = "stored" /\ op[c] = DebitOp(Swap, worker.receipt)

SettledServe == \A c \in Calls : pc[c] \in Settled => op[c] = NoOp

BackedInv == SidedInv /\ CallsServe /\ SettledServe /\ EntriesAreBacked

\* What a step is to the storage.
Asking == /\ worker.at \in {"checked", "report"} /\ Going
          /\ Invoke(WorkerCall, ReadOp(Swap)) /\ ReadOp(Swap) \in Ops

Debiting == /\ worker.at = "debit" /\ Going /\ worker'.at = "stored"
            /\ Invoke(WorkerCall, DebitOp(Swap, worker.receipt))
            /\ DebitOp(Swap, worker.receipt) \in Ops

Crediting == /\ worker.at = "credit" /\ Going /\ CreditOp(Swap) \in Ops
             /\ \E c \in StoreCalls : Invoke(c, CreditOp(Swap))

Reading == /\ \E c \in ReaderCalls, id \in SwapJobs : Invoke(c, ReadOp(id))
           /\ UNCHANGED <<job, worker, receipts, delivered, burnt>>

Running == /\ \/ \E c \in Calls : CallStep(c) \/ RedisError(c)
              \/ LeaseStep
           /\ UNCHANGED <<job, worker, receipts, delivered, burnt>>

Resting == /\ UNCHANGED storageVars /\ Moves
           /\ worker.at \in {"checked", "debit"} => UNCHANGED worker
           /\ worker.at = "stored" /\ worker' # worker => pc[WorkerCall] \in {"resolved", "rejected"}
           /\ worker.at = "balance" /\ worker'.at = "mint" => read[WorkerCall] >= Swap.amount

LEMMA StorageCases ==
  ASSUME SidedInv, [SwapNext]_swapVars
  PROVE  Asking \/ Debiting \/ Crediting \/ Reading \/ Running \/ Restarting \/ Resting
<1>0. SwapTypeOK /\ Moves
  BY MoveCases DEF SidedInv, SwapBase
<1>1. CASE WorkerStep
  <2>1. CASE ReadBalance
    <3>1. Going
      BY <2>1 DEF ReadBalance, Going, Path, Places, Outside
    <3> QED
      BY <1>0, <2>1, <3>1, WorkerFacts DEF ReadBalance, Asking
  <2>2. CASE Report
    <3>1. Going
      BY <2>2 DEF Report, Going, Path, Places, Outside
    <3> QED
      BY <1>0, <2>2, <3>1, WorkerFacts DEF Report, Asking
  <2>3. CASE Debit
    <3>1. Going
      BY <2>3 DEF Debit, Going, Path, Places, Outside
    <3>2. worker'.at = "stored"
      BY <1>0, <2>3, WorkerFacts DEF Debit, GoesTo
    <3> QED
      BY <1>0, <2>3, <3>1, <3>2, SidedFacts DEF Debit, Debiting
  <2>4. CASE Credit
    <3>1. Going
      BY <2>4 DEF Credit, Going, Path, Places, Outside
    <3> QED
      BY <1>0, <2>4, <3>1, SidedFacts DEF Credit, Crediting
  <2>5. CASE Debited
    BY <1>0, <2>5 DEF Debited, Resting
  <2>6. CASE CheckBalance
    BY <1>0, <2>6 DEF CheckBalance, Resting, JobFails, Idle
  <2>7. CASE (\E id \in SwapJobs : Start(id)) \/ CheckClaim \/ CreateMintReceipt \/ CheckPosted \/ Reply
    BY <1>0, <2>7 DEF Start, CheckClaim, CreateMintReceipt, CheckPosted, Reply, Resting
  <2> QED
    BY <1>1, <2>1, <2>2, <2>3, <2>4, <2>5, <2>6, <2>7 DEF WorkerStep
<1>2. CASE ReadOverHttp
  BY <1>2 DEF ReadOverHttp, Reading, Outside
<1>3. CASE StorageStep
  BY <1>3 DEF StorageStep, Running, Outside
<1>4. CASE Restart
  BY <1>4 DEF Restart, Restarting, Outside
<1>5. CASE UNCHANGED <<storageVars, worker>>
  BY <1>0, <1>5 DEF Resting
<1> QED
  BY <1>1, <1>2, <1>3, <1>4, <1>5 DEF SwapNext, Submit, Burn, Observe, PromoteJob, StallJob, swapVars

LEMMA ReceiptsGrow ==
  ASSUME Moves
  PROVE  receipts \subseteq receipts' /\ burnt \subseteq burnt'
  BY DEF Moves, Going, Failing, Signing, Delivering, Starting, Queueing, Burning, Storing, Restarting,
         Burn, swapVars

LEMMA SettledStep ==
  ASSUME SidedInv, SettledServe, [SwapNext]_swapVars
  PROVE  SettledServe'
<1>0. StorageTypeOK /\ [StorageNext]_storageVars
  BY StorageOfStep DEF SidedInv, SwapBase, SwapTypeOK
<1> USE DEF SettledServe, StorageTypeOK, Settled, Goto
<1>1. ASSUME NEW c \in Calls, NEW o \in Ops, Invoke(c, o) PROVE SettledServe'
  BY <1>0, <1>1 DEF Invoke, TryLock, TrySwapLock, Entered
<1>2. ASSUME NEW c \in Calls, CallStep(c) PROVE SettledServe'
  <2>1. CASE Acquire(c) \/ AcquireSwap(c)
    BY <1>0, <2>1 DEF Acquire, AcquireSwap, TryLock, TrySwapLock, Entered
  <2>2. CASE LockError(c) \/ SwapLockError(c)
    BY <1>0, <2>2 DEF LockError, SwapLockError, Settle
  <2>3. CASE Recheck(c) \/ Exec(c)
    BY <1>0, <2>3 DEF Recheck, Exec, AfterExec
  <2>4. CASE Get(c)
    BY <1>0, <2>4 DEF Get, Settle
  <2>5. CASE Unlock(c) \/ UnlockSwap(c)
    BY <1>0, <2>5 DEF Unlock, PassUnlock, UnlockSwap, Settle
  <2> QED
    BY <1>2, <2>1, <2>2, <2>3, <2>4, <2>5 DEF CallStep
<1>3. ASSUME NEW c \in Calls, RedisError(c) PROVE SettledServe'
  BY <1>0, <1>3 DEF RedisError, CommandFails, PassUnlock, AfterExec, Settle
<1>4. CASE Crash
  BY <1>0, <1>4 DEF Crash
<1>5. CASE UNCHANGED callVars
  BY <1>5 DEF callVars
<1> QED
  BY <1>0, <1>1, <1>2, <1>3, <1>4, <1>5
  DEF StorageNext, LeaseStep, Expire, ExpireSwap, storageVars, callVars

LEMMA ServeStep ==
  ASSUME SidedInv, CallsServe, SettledServe, [SwapNext]_swapVars
  PROVE  CallsServe'
<1>0. /\ StorageTypeOK /\ SwapTypeOK /\ burnt \subseteq burnt'
  BY MoveCases, ReceiptsGrow DEF SidedInv, SwapBase, SwapTypeOK
<1>1. CASE Asking
  <2>1. /\ op'[WorkerCall].kind = "read"
        /\ \A d \in Calls \ {WorkerCall} : op'[d] = op[d]
    BY <1>0, <1>1, InvokeFrame, CallFacts DEF Asking, ReadOp
  <2> QED
    BY <1>0, <2>1 DEF CallsServe
<1>2. CASE Debiting
  <2>1. /\ op'[WorkerCall] = DebitOp(Swap, worker.receipt)
        /\ \A d \in Calls \ {WorkerCall} : op'[d] = op[d]
    BY <1>0, <1>2, InvokeFrame, CallFacts DEF Debiting
  <2>2. worker'.at = "stored" /\ Swap' = Swap /\ worker'.receipt = worker.receipt
    BY <1>0, <1>2, GoingFacts DEF Debiting
  <2> QED
    BY <1>0, <2>1, <2>2 DEF CallsServe, DebitOp
<1>3. CASE Crediting
  <2>1. PICK c \in StoreCalls : Invoke(c, CreditOp(Swap))
    BY <1>3 DEF Crediting
  <2>2. op'[c] = CreditOp(Swap) /\ \A d \in Calls \ {c} : op'[d] = op[d]
    BY <1>0, <1>3, <2>1, InvokeFrame, CallFacts DEF Crediting
  <2>3. Swap \in burnt'
    BY <1>0, <1>3 DEF Crediting, SidedInv, Sides
  <2>4. worker.at # "stored"
    BY <1>3 DEF Crediting
  <2> QED
    BY <1>0, <2>2, <2>3, <2>4 DEF CallsServe
<1>4. CASE Reading
  <2>1. PICK c \in ReaderCalls, id \in SwapJobs : Invoke(c, ReadOp(id))
    BY <1>4 DEF Reading
  <2>2. op'[c].kind = "read" /\ \A d \in Calls \ {c} : op'[d] = op[d]
    BY <1>0, <2>1, InvokeFrame, CallFacts, SwapOpsAssumption DEF ReadOp
  <2> QED
    BY <1>0, <1>4, <2>2 DEF Reading, CallsServe, Swap
<1>5. CASE Running
  <2>1. \A c \in Calls : op'[c] = op[c] \/ op'[c] = NoOp
    BY <1>0, <1>5, InternalFrame DEF Running, InternalStep
  <2> QED
    BY <1>0, <1>5, <2>1 DEF Running, CallsServe, Swap, NoOp
<1>6. CASE Restarting
  BY <1>6 DEF Restarting, Restart, Crash, CallsServe, NoOp
<1>7. CASE Resting
  <2>1. op' = op
    BY <1>7 DEF Resting, storageVars
  <2>2. CASE worker' = worker
    BY <1>0, <2>1, <2>2 DEF CallsServe, Swap
  <2>3. CASE worker' # worker /\ worker.at = "stored"
    <3>1. op[WorkerCall].kind = "none"
      BY <1>7, <2>3, CallFacts DEF Resting, SettledServe, Settled, NoOp
    <3> QED
      BY <1>0, <2>1, <3>1 DEF CallsServe
  <2>4. CASE worker.at # "stored"
    BY <1>0, <2>1, <2>4 DEF CallsServe
  <2> QED
    BY <2>2, <2>3, <2>4
<1> QED
  BY <1>1, <1>2, <1>3, <1>4, <1>5, <1>6, <1>7, StorageCases

\* Where the entry of a call that executes comes from.
LEMMA ExecServes ==
  ASSUME SidedInv, CallsServe, NEW c \in Calls, Exec(c)
  PROVE  /\ op[c] \in Ops
         /\ entries' = entries \cup {Entry(op[c])}
         /\ \/ c \in StoreCalls /\ \E b \in burnt : op[c] = CreditOp(b)
            \/ /\ c = WorkerCall /\ worker.at = "stored" /\ op[c] = DebitOp(Swap, worker.receipt)
               /\ Signature \in receipts
<1>1. pc[c] = "exec" /\ entries' = entries \cup {Entry(op[c])}
  BY DEF Exec
<1>2. op[c] \in Ops /\ Writes(op[c])
  BY <1>1 DEF SidedInv, SwapBase, BaseInv, ServesOps, ServesOp, Settled
<1>3. op[c].kind \notin {"none", "read"}
  BY <1>2, OpsAssumption DEF Operations, Kinds, Writes
<1>4. worker.at = "stored" => Signature \in receipts
  BY DEF SidedInv, Sides
<1> QED
  BY <1>1, <1>2, <1>3, <1>4 DEF CallsServe

LEMMA DataFrame ==
  ASSUME SidedInv, [SwapNext]_swapVars
  PROVE  UNCHANGED dataVars \/ (Running /\ \E c \in Calls : Exec(c))
<1>0. StorageTypeOK
  BY DEF SidedInv, SwapBase, SwapTypeOK
<1>1. CASE Asking \/ Debiting \/ Crediting \/ Reading
  BY <1>1 DEF Asking, Debiting, Crediting, Reading, Invoke
<1>2. CASE Running
  BY <1>0, <1>2, InternalFrame DEF Running, InternalStep
<1>3. CASE Restarting
  BY <1>3 DEF Restarting, Restart, Crash
<1>4. CASE Resting
  BY <1>4 DEF Resting, storageVars, dataVars
<1> QED
  BY <1>1, <1>2, <1>3, <1>4, StorageCases

LEMMA BackedStep ==
  ASSUME BackedInv, [SwapNext]_swapVars
  PROVE  EntriesAreBacked'
<1>0. SidedInv /\ CallsServe /\ receipts \subseteq receipts' /\ burnt \subseteq burnt'
  BY MoveCases, ReceiptsGrow DEF BackedInv
<1>1. CASE UNCHANGED dataVars
  BY <1>0, <1>1 DEF BackedInv, EntriesAreBacked, dataVars
<1>2. ASSUME NEW c \in Calls, Exec(c) PROVE EntriesAreBacked'
  <2>1. entries' = entries \cup {Entry(op[c])}
    BY <1>0, <1>2, ExecServes
  <2>2. CASE \E b \in burnt : op[c] = CreditOp(b)
    BY <1>0, <2>1, <2>2 DEF BackedInv, EntriesAreBacked
  <2>3. CASE op[c] = DebitOp(Swap, worker.receipt) /\ Signature \in receipts
    <3>1. op[c] = DebitOp(Signature.request, Signature.hash)
      BY <2>3 DEF Signature
    <3> QED
      BY <1>0, <2>1, <2>3, <3>1 DEF BackedInv, EntriesAreBacked
  <2> QED
    BY <1>0, <1>2, <2>2, <2>3, ExecServes
<1> QED
  BY <1>0, <1>1, <1>2, DataFrame

LEMMA BackedInvariance == SwapSpec => []BackedInv
<1>1. SwapInit => CallsServe /\ SettledServe /\ EntriesAreBacked
  BY DEF SwapInit, StorageInit, CallsServe, SettledServe, EntriesAreBacked, NoOp
<1>2. BackedInv /\ [SwapNext]_swapVars => BackedInv'
  BY SidedStep, ServeStep, SettledStep, BackedStep DEF BackedInv
<1> QED
  BY <1>1, <1>2, BaseOfInit, PTL DEF SwapSpec, BackedInv

(***************************************************************************)
(* Whatever the faults, an entry of a swap to PAW is of an event on the    *)
(* blockchain, and one of a swap to wPAW of a receipt that was signed.     *)
(***************************************************************************)
THEOREM SwapEntriesAreBacked == SwapSpec => []EntriesAreBacked
<1>1. BackedInv => EntriesAreBacked
  BY DEF BackedInv
<1> QED
  BY <1>1, BackedInvariance, PTL

-----------------------------------------------------------------------------
(***************************************************************************)
(* A receipt has an identifier of its own, and is debited by one call.     *)
(***************************************************************************)
Distinct ==
  \A r \in receipts, s \in receipts : r.hash # NoReceipt /\ (r.hash = s.hash => r = s)

UnwrittenSwap == {"swapLock", "lock", "get", "unlock", "exec"}

NotFiled ==
  /\ worker.at = "debit" => ~OnFile(Signature)
  /\ IsSwapToWPaw(op[WorkerCall]) /\ pc[WorkerCall] \in UnwrittenSwap =>
       Entry(op[WorkerCall]) \notin entries

Finite == IsFiniteSet(receipts) /\ IsFiniteSet(burnt) /\ IsFiniteSet(entries)

OnceInv == BackedInv /\ Distinct /\ NotFiled /\ Finite

LEMMA SwapFrame ==
  ASSUME BaseInv, InternalStep, NEW c \in Calls, IsSwapToWPaw(op[c])
  PROVE  /\ IsSwapToWPaw(op'[c]) /\ pc'[c] \in UnwrittenSwap =>
              pc[c] \in UnwrittenSwap /\ op'[c] = op[c] /\ ~Exec(c)
         /\ Faults \cap {"redisError", "lockTimeout"} = {} /\ pc[c] \in UnwrittenSwap
              /\ ((\E d \in Calls : CallStep(d)) \/ LeaseStep) =>
                   Exec(c) \/ (pc'[c] \in UnwrittenSwap /\ op'[c] = op[c])
<1> DEFINE Back  == IsSwapToWPaw(op'[c]) /\ pc'[c] \in UnwrittenSwap =>
                      pc[c] \in UnwrittenSwap /\ op'[c] = op[c]
           Forth == Faults \cap {"redisError", "lockTimeout"} = {} /\ pc[c] \in UnwrittenSwap =>
                      Exec(c) \/ (pc'[c] \in UnwrittenSwap /\ op'[c] = op[c])
<1>0. Exec(c) => pc'[c] = "swapUnlock"
  BY DEF Exec, AfterExec, Goto, BaseInv, StorageTypeOK
<1> USE DEF BaseInv, StorageTypeOK, Settle, Goto, UnwrittenSwap, IsSwapToWPaw, lockVars, callVars, NoOp
<1>1. ASSUME NEW d \in Calls, CallStep(d) PROVE Back /\ Forth
  <2>1. CASE Acquire(d) \/ AcquireSwap(d)
    BY <2>1 DEF Acquire, AcquireSwap, TryLock, TrySwapLock, Entered
  <2>2. CASE LockError(d) \/ SwapLockError(d)
    BY <2>2 DEF LockError, SwapLockError, RetriesRunOut, RedisFails
  <2>3. CASE Recheck(d)
    BY <2>3 DEF Recheck, ServesOps, ServesOp, Settled
  <2>4. CASE Get(d)
    BY <2>4 DEF Get, ReadsOnly
  <2>5. CASE Exec(d)
    BY <2>5 DEF Exec, AfterExec
  <2>6. CASE Unlock(d) \/ UnlockSwap(d)
    BY <2>6 DEF Unlock, PassUnlock, UnlockSwap
  <2> QED
    BY <1>1, <2>1, <2>2, <2>3, <2>4, <2>5, <2>6 DEF CallStep
<1>2. ASSUME NEW d \in Calls, RedisError(d) PROVE Back
  BY <1>2 DEF RedisError, CommandFails, PassUnlock, AfterExec, ReadsOnly, ServesOps, ServesOp, Settled
<1>3. ASSUME Crash PROVE Back
  BY <1>3 DEF Crash
<1>4. ASSUME UNCHANGED callVars PROVE Back /\ Forth
  <2>1. pc'[c] = pc[c] /\ op'[c] = op[c]
    BY <1>4
  <2> QED
    BY <2>1
<1>5. ASSUME LeaseStep PROVE Back /\ Forth
  BY <1>4, <1>5 DEF LeaseStep, Expire, ExpireSwap
<1>6. Back
  BY <1>1, <1>2, <1>3, <1>5 DEF InternalStep
<1>7. (\E d \in Calls : CallStep(d)) \/ LeaseStep => Forth
  BY <1>1, <1>5
<1> QED
  BY <1>0, <1>6, <1>7

LEMMA DistinctStep ==
  ASSUME SidedInv, Distinct, Moves
  PROVE  Distinct'
<1>1. CASE Signing
  BY <1>1, SigningFacts DEF Distinct, SidedInv, SwapBase, Signature
<1>2. CASE UNCHANGED receipts
  BY <1>2 DEF Distinct
<1> QED
  BY <1>1, <1>2
  DEF Moves, Going, Failing, Delivering, Starting, Queueing, Burning, Storing, Restarting, swapVars

LEMMA FiniteStep ==
  ASSUME BackedInv, Finite, [SwapNext]_swapVars
  PROVE  Finite'
<1>0. SidedInv /\ CallsServe /\ Moves
  BY MoveCases DEF BackedInv
<1>1. IsFiniteSet(receipts')
  <2>1. CASE Signing
    <3>1. receipts' = receipts \cup {Signature'}
      BY <1>0, <2>1, SigningFacts DEF SidedInv, SwapBase
    <3> QED
      BY <3>1, FS_AddElement DEF Finite
  <2>2. CASE UNCHANGED receipts
    BY <2>2 DEF Finite
  <2> QED
    BY <1>0, <2>1, <2>2
    DEF Moves, Going, Failing, Delivering, Starting, Queueing, Burning, Storing, Restarting, swapVars
<1>2. IsFiniteSet(burnt')
  <2>1. ASSUME NEW b \in Burns, Burn(b) PROVE IsFiniteSet(burnt')
    BY <2>1, TwinsAssumption, FS_Union DEF Burn, Finite
  <2>2. CASE UNCHANGED burnt
    BY <2>2 DEF Finite
  <2> QED
    BY <1>0, <2>1, <2>2
    DEF Moves, Going, Failing, Signing, Delivering, Starting, Queueing, Burning, Storing, Restarting, swapVars
<1>3. IsFiniteSet(entries')
  <2>1. CASE UNCHANGED dataVars
    BY <2>1 DEF Finite, dataVars
  <2>2. ASSUME NEW c \in Calls, Exec(c) PROVE IsFiniteSet(entries')
    BY <1>0, <2>2, ExecServes, FS_AddElement DEF Finite
  <2> QED
    BY <1>0, <2>1, <2>2, DataFrame
<1> QED
  BY <1>1, <1>2, <1>3 DEF Finite

\* A receipt that was not signed is not on file.
LEMMA NewIsNotFiled ==
  ASSUME BackedInv, NEW m, NEW h, \A r \in receipts : r.hash # h
  PROVE  Entry(DebitOp(m, h)) \notin entries
<1>1. SUFFICES ASSUME Entry(DebitOp(m, h)) \in entries PROVE FALSE
  OBVIOUS
<1>2. CASE \E b \in burnt : Entry(DebitOp(m, h)) = Entry(CreditOp(b))
  BY <1>2 DEF Entry, DebitOp, CreditOp
<1>3. CASE \E r \in receipts : Entry(DebitOp(m, h)) = Entry(DebitOp(r.request, r.hash))
  <2>1. PICK r \in receipts : Entry(DebitOp(m, h)) = Entry(DebitOp(r.request, r.hash))
    BY <1>3
  <2>2. Entry(DebitOp(m, h)).hash = h /\ Entry(DebitOp(r.request, r.hash)).hash = r.hash
    BY DEF Entry, DebitOp
  <2> QED
    BY <2>1, <2>2
<1> QED
  BY <1>1, <1>2, <1>3 DEF BackedInv, EntriesAreBacked

LEMMA NotFiledStep ==
  ASSUME BackedInv, NotFiled, [SwapNext]_swapVars
  PROVE  NotFiled'
<1>0. /\ SidedInv /\ CallsServe /\ SwapTypeOK /\ StorageTypeOK /\ BaseInv /\ WorkerCall \in Calls
  BY CallFacts DEF BackedInv, SidedInv, SwapBase, SwapTypeOK
<1> DEFINE Held  == worker.at = "debit" => ~OnFile(Signature)
           Under == IsSwapToWPaw(op[WorkerCall]) /\ pc[WorkerCall] \in UnwrittenSwap =>
                      Entry(op[WorkerCall]) \notin entries
<1>1. CASE Asking
  <2>1. /\ UNCHANGED entries /\ op'[WorkerCall].kind = "read"
    BY <1>0, <1>1, InvokeFrame DEF Asking, ReadOp, dataVars
  <2>2. worker'.at # "debit"
    BY <1>0, <1>1, GoingFacts DEF Asking, Path
  <2> QED
    BY <2>1, <2>2 DEF NotFiled, IsSwapToWPaw
<1>2. CASE Debiting
  <2>1. UNCHANGED entries /\ op'[WorkerCall] = DebitOp(Swap, worker.receipt)
    BY <1>0, <1>2, InvokeFrame DEF Debiting, dataVars
  <2>2. Entry(DebitOp(Swap, worker.receipt)) \notin entries
    BY <1>2 DEF Debiting, NotFiled, OnFile, Signature
  <2> QED
    BY <1>2, <2>1, <2>2 DEF Debiting, NotFiled
<1>3. CASE Crediting
  <2>1. /\ UNCHANGED entries /\ op'[WorkerCall] = op[WorkerCall] /\ pc'[WorkerCall] = pc[WorkerCall]
    BY <1>0, <1>3, InvokeFrame, CallFacts DEF Crediting, dataVars
  <2>2. worker'.at # "debit"
    BY <1>0, <1>3, GoingFacts DEF Crediting, Path
  <2> QED
    BY <2>1, <2>2 DEF NotFiled
<1>4. CASE Reading
  <2>1. /\ UNCHANGED entries /\ op'[WorkerCall] = op[WorkerCall] /\ pc'[WorkerCall] = pc[WorkerCall]
    BY <1>0, <1>4, InvokeFrame, CallFacts, SwapOpsAssumption DEF Reading, dataVars
  <2> QED
    BY <1>4, <2>1 DEF Reading, NotFiled, OnFile, Signature, Swap
<1>5. CASE Running
  <2>1. /\ IsSwapToWPaw(op'[WorkerCall]) => IsSwapToWPaw(op[WorkerCall])
        /\ InternalStep /\ (UNCHANGED dataVars \/ \E c \in Calls : Exec(c))
    BY <1>0, <1>5, InternalFrame DEF Running, InternalStep, IsSwapToWPaw, NoOp
  <2>2. CASE UNCHANGED dataVars
    <3>1. Held'
      BY <1>5, <2>2 DEF NotFiled, OnFile, Signature, Swap, Running, dataVars
    <3>2. Under'
      BY <1>0, <2>1, <2>2, SwapFrame DEF NotFiled, dataVars
    <3> QED
      BY <3>1, <3>2 DEF NotFiled
  <2>3. ASSUME NEW c \in Calls, Exec(c) PROVE NotFiled'
    <3>1. CASE c = WorkerCall
      <4>1. c \notin StoreCalls
        BY <3>1, CallFacts
      <4>2. worker.at = "stored" /\ op[WorkerCall] = DebitOp(Swap, worker.receipt)
        BY <1>0, <2>3, <3>1, <4>1, ExecServes
      <4>3. pc'[WorkerCall] \notin UnwrittenSwap \/ ~IsSwapToWPaw(op'[WorkerCall])
        BY <1>0, <2>1, <2>3, <3>1, SwapFrame
      <4> QED
        BY <1>5, <4>2, <4>3 DEF NotFiled, Running
    <3>2. CASE c # WorkerCall
      <4>1. PICK b \in burnt : op[c] = CreditOp(b)
        BY <1>0, <2>3, <3>2, ExecServes
      <4>2. entries' = entries \cup {Entry(CreditOp(b))}
        BY <1>0, <2>3, <4>1, ExecServes
      <4>3. \A o : IsSwapToWPaw(o) => Entry(o) # Entry(CreditOp(b))
        BY DEF IsSwapToWPaw, Entry, CreditOp
      <4>4. Held'
        <5>1. IsSwapToWPaw(DebitOp(Swap, worker.receipt))
          BY DEF IsSwapToWPaw, DebitOp
        <5> QED
          BY <1>5, <4>2, <4>3, <5>1 DEF NotFiled, OnFile, Signature, Swap, Running
      <4>5. Under'
        BY <1>0, <2>1, <4>2, <4>3, SwapFrame DEF NotFiled
      <4> QED
        BY <4>4, <4>5 DEF NotFiled
    <3> QED
      BY <3>1, <3>2
  <2> QED
    BY <2>1, <2>2, <2>3
<1>6. CASE Restarting
  BY <1>6, CallFacts DEF Restarting, Restart, Crash, NotFiled, NoOp, Idle, IsSwapToWPaw
<1>7. CASE Resting
  <2>1. UNCHANGED <<entries, op, pc>> /\ Moves
    BY <1>7 DEF Resting, storageVars
  <2>2. Under'
    BY <2>1 DEF NotFiled
  <2>3. CASE worker'.at # "debit"
    BY <2>2, <2>3 DEF NotFiled
  <2>4. CASE UNCHANGED worker
    BY <2>1, <2>2, <2>4 DEF NotFiled, OnFile, Signature, Swap
  <2>5. CASE Signing
    <3>1. \A r \in receipts : r.hash # worker'.receipt
      BY <1>0, <2>5, SigningFacts
    <3>2. Entry(DebitOp(Swap', worker'.receipt)) \notin entries
      BY <3>1, NewIsNotFiled
    <3> QED
      BY <2>1, <2>2, <3>2 DEF NotFiled, OnFile, Signature
  <2>6. CASE Going
    BY <1>0, <2>3, <2>6, GoingFacts DEF Path
  <2>7. CASE Starting
    BY <1>0, <2>3, <2>7, StartingFacts
  <2> QED
    BY <2>1, <2>3, <2>4, <2>5, <2>6, <2>7
    DEF Moves, Failing, JobFails, Delivering, Queueing, Burning, Storing, Restarting, Restart, swapVars, Idle
<1> QED
  BY <1>1, <1>2, <1>3, <1>4, <1>5, <1>6, <1>7, StorageCases DEF BackedInv

LEMMA OnceInvariance == SwapSpec => []OnceInv
<1>1. SwapInit => Distinct /\ NotFiled /\ Finite
  <2> SUFFICES ASSUME SwapInit PROVE Distinct /\ NotFiled /\ Finite
    OBVIOUS
  <2>1. IsFiniteSet({})
    BY FS_EmptySet
  <2> QED
    BY <2>1, CallFacts
    DEF SwapInit, StorageInit, Distinct, NotFiled, Finite, Idle, NoOp, IsSwapToWPaw
<1>2. OnceInv /\ [SwapNext]_swapVars => OnceInv'
  <2> SUFFICES ASSUME OnceInv, [SwapNext]_swapVars PROVE OnceInv'
    OBVIOUS
  <2>1. BackedInv /\ SidedInv /\ Moves
    BY MoveCases DEF OnceInv, BackedInv
  <2>2. BackedInv'
    BY <2>1, SidedStep, ServeStep, SettledStep, BackedStep DEF BackedInv
  <2> QED
    BY <2>1, <2>2, DistinctStep, NotFiledStep, FiniteStep DEF OnceInv
<1> QED
  BY <1>1, <1>2, BackedInvariance, PTL DEF SwapSpec, OnceInv

-----------------------------------------------------------------------------
(***************************************************************************)
(* A receipt in the user's hands has been debited.  The store of a swap to *)
(* wPAW swallows a Redis error and a lock it did not get, so the theorem   *)
(* is about a Redis that answers; the process may die at any time.         *)
(***************************************************************************)
StoresAnswered == Faults \cap {"redisError", "lockTimeout"} = {}

FollowedUp ==
  /\ worker.at = "stored" =>
       \/ OnFile(Signature)
       \/ op[WorkerCall] = DebitOp(Swap, worker.receipt) /\ pc[WorkerCall] \in UnwrittenSwap
  /\ worker.at \in {"posted", "credit"} => worker.receipt = NoReceipt
  /\ worker.at \in {"report", "reply"} /\ worker.receipt # NoReceipt => OnFile(Signature)

DebitedInv == OnceInv /\ FollowedUp /\ ReceiptsAreDebited

LEMMA EntriesGrow ==
  ASSUME BackedInv, [SwapNext]_swapVars
  PROVE  entries \subseteq entries'
<1>1. ASSUME NEW c \in Calls, Exec(c) PROVE entries \subseteq entries'
  BY <1>1 DEF Exec
<1>2. SidedInv
  BY DEF BackedInv
<1> QED
  BY <1>1, <1>2, DataFrame DEF dataVars

LEMMA FollowedUpStep ==
  ASSUME StoresAnswered, OnceInv, FollowedUp, [SwapNext]_swapVars
  PROVE  FollowedUp'
<1>0. /\ BackedInv /\ SidedInv /\ CallsServe /\ SwapTypeOK /\ StorageTypeOK /\ BaseInv
      /\ WorkerCall \in Calls /\ entries \subseteq entries'
  BY CallFacts, EntriesGrow DEF OnceInv, BackedInv, SidedInv, SwapBase, SwapTypeOK
<1>1. CASE Asking
  <2>1. <<worker.at, worker'.at>> \in Path /\ worker'.receipt = worker.receipt /\ Signature' = Signature
    BY <1>0, <1>1, GoingFacts DEF Asking
  <2> QED
    BY <1>0, <1>1, <2>1 DEF Asking, Path, FollowedUp, OnFile
<1>2. CASE Debiting
  <2>1. op'[WorkerCall] = DebitOp(Swap, worker.receipt) /\ pc'[WorkerCall] \in UnwrittenSwap
    BY <1>0, <1>2, InvokeFrame
    DEF Debiting, Invoke, TrySwapLock, Goto, UnwrittenSwap, IsSwapToWPaw, DebitOp, StorageTypeOK
  <2>2. Swap' = Swap /\ worker'.receipt = worker.receipt /\ worker'.at = "stored"
    BY <1>0, <1>2, GoingFacts DEF Debiting
  <2> QED
    BY <2>1, <2>2 DEF FollowedUp
<1>3. CASE Crediting
  <2>1. <<worker.at, worker'.at>> \in Path /\ worker'.receipt = worker.receipt
    BY <1>0, <1>3, GoingFacts DEF Crediting
  <2> QED
    BY <1>3, <2>1 DEF Crediting, Path, FollowedUp
<1>4. CASE Reading
  <2>1. op'[WorkerCall] = op[WorkerCall] /\ pc'[WorkerCall] = pc[WorkerCall]
    BY <1>0, <1>4, InvokeFrame, CallFacts, SwapOpsAssumption DEF Reading
  <2> QED
    BY <1>0, <1>4, <2>1 DEF Reading, FollowedUp, OnFile, Signature, Swap
<1>5. CASE Running
  <2>1. UNCHANGED worker /\ InternalStep
    BY <1>5 DEF Running, InternalStep
  <2>2. (\E c \in Calls : CallStep(c)) \/ LeaseStep
    BY <1>5 DEF Running, RedisError, RedisFails, StoresAnswered
  <2>3. CASE worker.at = "stored" /\ ~OnFile(Signature)
    <3>1. op[WorkerCall] = DebitOp(Swap, worker.receipt) /\ pc[WorkerCall] \in UnwrittenSwap
      BY <2>3 DEF FollowedUp
    <3>2. IsSwapToWPaw(op[WorkerCall])
      BY <3>1 DEF IsSwapToWPaw, DebitOp
    <3>3. Exec(WorkerCall) \/ (pc'[WorkerCall] \in UnwrittenSwap /\ op'[WorkerCall] = op[WorkerCall])
      BY <1>0, <2>1, <2>2, <3>1, <3>2, SwapFrame DEF StoresAnswered
    <3>4. CASE Exec(WorkerCall)
      <4>1. Entry(DebitOp(Swap, worker.receipt)) \in entries'
        BY <3>1, <3>4 DEF Exec
      <4> QED
        BY <2>1, <2>3, <4>1 DEF FollowedUp, OnFile, Signature, Swap
    <3> QED
      BY <2>1, <2>3, <3>1, <3>3, <3>4 DEF FollowedUp, Swap
  <2>4. CASE worker.at # "stored" \/ OnFile(Signature)
    BY <1>0, <2>1, <2>4 DEF FollowedUp, OnFile, Signature, Swap
  <2> QED
    BY <2>3, <2>4
<1>6. CASE Restarting
  BY <1>6 DEF Restarting, Restart, FollowedUp, Idle
<1>7. CASE Resting
  <2>1. UNCHANGED <<entries, op, pc>> /\ Moves
    BY <1>7 DEF Resting, storageVars
  <2>2. CASE UNCHANGED worker
    BY <2>1, <2>2 DEF FollowedUp, OnFile, Signature, Swap
  <2>3. CASE worker' = Idle
    BY <2>3 DEF FollowedUp, Idle
  <2>4. CASE Signing
    BY <1>0, <2>4, SigningFacts DEF FollowedUp
  <2>5. CASE Starting
    BY <1>0, <2>5, StartingFacts DEF FollowedUp
  <2>6. CASE Going
    <3>1. <<worker.at, worker'.at>> \in Path /\ worker'.receipt = worker.receipt /\ Signature' = Signature
      BY <1>0, <2>6, GoingFacts
    <3>2. worker' # worker /\ worker.at # worker'.at
      BY <3>1 DEF Path
    <3>3. worker.at = "stored" => OnFile(Signature)
      BY <1>7, <3>2 DEF Resting, FollowedUp, UnwrittenSwap
    <3>4. worker'.at = "stored" => worker.at = "debit"
      BY <3>1 DEF Path
    <3>5. worker.at # "debit"
      BY <1>7, <3>2 DEF Resting
    <3> QED
      BY <2>1, <3>1, <3>3, <3>4, <3>5 DEF FollowedUp, OnFile, Path
  <2> QED
    BY <2>1, <2>2, <2>3, <2>4, <2>5, <2>6
    DEF Moves, Failing, JobFails, Delivering, Queueing, Burning, Storing, Restarting, Restart, swapVars
<1> QED
  BY <1>0, <1>1, <1>2, <1>3, <1>4, <1>5, <1>6, <1>7, StorageCases

LEMMA DeliveredStep ==
  ASSUME DebitedInv, [SwapNext]_swapVars
  PROVE  ReceiptsAreDebited'
<1>0. BackedInv /\ SidedInv /\ Moves /\ entries \subseteq entries' /\ receipts \subseteq receipts'
  BY MoveCases, EntriesGrow, ReceiptsGrow DEF DebitedInv, OnceInv, BackedInv
<1>1. CASE Delivering
  <2>1. ASSUME NEW r \in receipts, r.hash = worker.receipt PROVE OnFile(r)
    <3>1. worker.receipt # NoReceipt
      BY <2>1 DEF DebitedInv, OnceInv, Distinct
    <3>2. Signature \in receipts /\ OnFile(Signature) /\ Signature.hash = worker.receipt
      BY <1>0, <1>1, <3>1 DEF Delivering, SidedInv, Sides, DebitedInv, FollowedUp, Signature
    <3>3. r = Signature
      BY <2>1, <3>2 DEF DebitedInv, OnceInv, Distinct
    <3> QED
      BY <3>2, <3>3
  <2> QED
    BY <1>0, <1>1, <2>1 DEF Delivering, DebitedInv, ReceiptsAreDebited, OnFile
<1>2. CASE UNCHANGED delivered
  BY <1>0, <1>2 DEF DebitedInv, ReceiptsAreDebited, OnFile
<1> QED
  BY <1>0, <1>1, <1>2
  DEF Moves, Going, Failing, Signing, Starting, Queueing, Burning, Storing, Restarting, swapVars

LEMMA DebitedInvariance == StoresAnswered => (SwapSpec => []DebitedInv)
<1> SUFFICES ASSUME StoresAnswered PROVE SwapSpec => []DebitedInv
  OBVIOUS
<1>1. SwapInit => FollowedUp /\ ReceiptsAreDebited
  BY DEF SwapInit, FollowedUp, ReceiptsAreDebited, Idle
<1>2. OnceInv /\ FollowedUp /\ ReceiptsAreDebited /\ [SwapNext]_swapVars
      => FollowedUp' /\ ReceiptsAreDebited'
  BY FollowedUpStep, DeliveredStep DEF DebitedInv
<1>3. OnceInv /\ FollowedUp /\ ReceiptsAreDebited <=> DebitedInv
  BY DEF DebitedInv
<1> QED
  BY <1>1, <1>2, <1>3, OnceInvariance, PTL DEF SwapSpec

(***************************************************************************)
(* A receipt the user holds has been debited, whatever is retried and      *)
(* wherever the process dies or a lease ends, as long as no Redis command  *)
(* fails and every lock is got: the store of a swap to wPAW answers the    *)
(* worker the same way when it wrote nothing.                              *)
(***************************************************************************)
THEOREM ReceiptsDebited == StoresAnswered => (SwapSpec => []ReceiptsAreDebited)
<1>1. DebitedInv => ReceiptsAreDebited
  BY DEF DebitedInv
<1> QED
  BY <1>1, DebitedInvariance, PTL

-----------------------------------------------------------------------------
(***************************************************************************)
(* The books.  Every write files an entry that was not there: a receipt is *)
(* debited once, and the recheck under the lock keeps a burn from being    *)
(* credited twice.                                                         *)
(***************************************************************************)
LEMMA AmountFacts ==
  /\ EntryAmount \in [Entries -> Int] /\ EntryAmount \in [Entries -> Nat]
  /\ ReceiptAmount \in [SignedReceipts -> Int] /\ ReceiptAmount \in [SignedReceipts -> Nat]
  /\ BurnAmount \in [Burns -> Int] /\ BurnAmount \in [Burns -> Nat]
<1>1. EntryAmount \in [Entries -> Nat]
  BY DEF EntryAmount, Entries
<1>2. ReceiptAmount \in [SignedReceipts -> Nat]
  BY MintFacts DEF ReceiptAmount, SignedReceipts
<1>3. BurnAmount \in [Burns -> Nat]
  BY BurnFacts DEF BurnAmount
<1>4. ASSUME NEW D, NEW f \in [D -> Nat] PROVE f \in [D -> Int]
  OBVIOUS
<1> QED
  BY <1>1, <1>2, <1>3, <1>4

LEMMA FiledInt ==
  ASSUME SidedInv, Finite, NEW k, NEW w
  PROVE  /\ EntriesOf(k, w) \in SUBSET Entries /\ IsFiniteSet(EntriesOf(k, w))
         /\ Filed(k, w) \in Int
<1>1. entries \subseteq Entries /\ IsFiniteSet(entries)
  BY DEF SidedInv, SwapBase, SwapTypeOK, StorageTypeOK, Finite
<1>2. EntriesOf(k, w) \in SUBSET Entries /\ IsFiniteSet(EntriesOf(k, w))
  BY <1>1, FS_Subset DEF EntriesOf
<1> QED
  BY <1>2, AmountFacts, SumInt DEF Filed

LEMMA FiledStep ==
  ASSUME SidedInv, Finite, NEW e \in Entries, e \notin entries, entries' = entries \cup {e}
  PROVE  \A k, w : Filed(k, w)' = Filed(k, w) + (IF e.kind = k /\ e.wallet = w THEN e.amount ELSE 0)
<1> SUFFICES ASSUME NEW k, NEW w
             PROVE  Filed(k, w)' = Filed(k, w) + (IF e.kind = k /\ e.wallet = w THEN e.amount ELSE 0)
  OBVIOUS
<1> DEFINE S == EntriesOf(k, w)
<1>1. S \in SUBSET Entries /\ IsFiniteSet(S) /\ e \notin S /\ Filed(k, w) \in Int
  BY FiledInt DEF EntriesOf
<1>2. CASE e.kind = k /\ e.wallet = w
  <2>1. EntriesOf(k, w)' = S \cup {e}
    BY <1>2 DEF EntriesOf
  <2>2. EntryAmount[e] = e.amount
    BY DEF EntryAmount
  <2> HIDE DEF S
  <2>3. SumOver(EntryAmount, S \cup {e}) = SumOver(EntryAmount, S) + EntryAmount[e]
    BY <1>1, AmountFacts, SumAdd
  <2> QED
    BY <1>2, <2>1, <2>2, <2>3 DEF Filed, S
<1>3. CASE ~(e.kind = k /\ e.wallet = w)
  <2>1. EntriesOf(k, w)' = S
    BY <1>3 DEF EntriesOf
  <2>2. Filed(k, w)' = Filed(k, w)
    BY <2>1 DEF Filed
  <2> QED
    BY <1>1, <1>3, <2>2
<1> QED
  BY <1>2, <1>3

\* What a write does: the new entry, and the balance that follows it.
LEMMA ExecAdds ==
  ASSUME OnceInv, AgreedInv, NEW c \in Calls, Exec(c)
  PROVE  LET o == op[c]  e == Entry(o) IN
         /\ o \in Ops /\ e \in Entries /\ e \notin entries /\ entries' = entries \cup {e}
         /\ e.kind = o.kind /\ e.wallet = o.wallet /\ e.amount = o.amount
         /\ o.kind \in {"swapToPaw", "swapToWPaw"} /\ o.wallet \in Wallets /\ o.amount \in Nat
         /\ balance' = [balance EXCEPT ![o.wallet] = @ + Delta(o)]
         /\ Delta(o) = IF o.kind = "swapToPaw" THEN o.amount ELSE -o.amount
<1> DEFINE o == op[c]
<1>1. SidedInv /\ CallsServe /\ NotFiled
  BY DEF OnceInv, BackedInv
<1>2. o \in Ops /\ entries' = entries \cup {Entry(o)} /\ Entry(o) \in Entries
  BY <1>1, ExecServes, OpFacts
<1>3. \/ o.kind = "swapToPaw"
      \/ c = WorkerCall /\ o.kind = "swapToWPaw"
  <2>1. CASE \E b \in burnt : o = CreditOp(b)
    BY <2>1 DEF CreditOp
  <2>2. CASE c = WorkerCall /\ o = DebitOp(Swap, worker.receipt)
    BY <2>2 DEF DebitOp
  <2> QED
    BY <1>1, <2>1, <2>2, ExecServes
<1>4. Entry(o) \notin entries
  <2>1. CASE o.kind = "swapToPaw"
    BY <2>1 DEF AgreedInv, Currency, StillNotPosted, Exec, SwapPosted, Entry
  <2>2. CASE c = WorkerCall /\ o.kind = "swapToWPaw"
    BY <1>1, <2>2 DEF NotFiled, Exec, UnwrittenSwap, IsSwapToWPaw
  <2> QED
    BY <1>3, <2>1, <2>2
<1>5. o.wallet \in Wallets /\ o.amount \in Nat
  BY <1>2, OpsAssumption DEF Operations
<1>6. Delta(o) = IF o.kind = "swapToPaw" THEN o.amount ELSE -o.amount
  BY <1>3 DEF Delta
<1>7. read[c] = balance[o.wallet]
  BY DEF AgreedInv, Currency, ReadIsCurrent, Exec
<1>8. balance' = [balance EXCEPT ![o.wallet] = @ + Delta(o)]
  BY <1>7 DEF Exec
<1>9. Entry(o).kind = o.kind /\ Entry(o).wallet = o.wallet /\ Entry(o).amount = o.amount
  BY DEF Entry
<1> QED
  BY <1>2, <1>3, <1>4, <1>5, <1>6, <1>8, <1>9

LEMMA BooksStep ==
  ASSUME OnceInv, AgreedInv, BooksBalance, [SwapNext]_swapVars
  PROVE  BooksBalance'
<1>0. BackedInv /\ SidedInv /\ Finite /\ balance \in [Wallets -> Int]
  BY DEF OnceInv, BackedInv, SidedInv, SwapBase, SwapTypeOK, StorageTypeOK
<1>1. CASE UNCHANGED dataVars
  BY <1>1 DEF BooksBalance, Filed, EntriesOf, dataVars
<1>2. ASSUME NEW c \in Calls, Exec(c) PROVE BooksBalance'
  <2> DEFINE o == op[c]
             e == Entry(o)
  <2>1. /\ e \in Entries /\ e \notin entries /\ entries' = entries \cup {e}
        /\ e.kind = o.kind /\ e.wallet = o.wallet /\ e.amount = o.amount
        /\ o.kind \in {"swapToPaw", "swapToWPaw"} /\ o.wallet \in Wallets /\ o.amount \in Nat
        /\ balance' = [balance EXCEPT ![o.wallet] = @ + Delta(o)]
        /\ Delta(o) = IF o.kind = "swapToPaw" THEN o.amount ELSE -o.amount
    BY <1>2, ExecAdds
  <2> HIDE DEF o, e
  <2>2. ASSUME NEW w \in Wallets
        PROVE  balance'[w] = Opening[w] + Filed("swapToPaw", w)' - Filed("swapToWPaw", w)'
    <3>1. /\ Filed("swapToPaw", w)' = Filed("swapToPaw", w)
               + (IF e.kind = "swapToPaw" /\ e.wallet = w THEN e.amount ELSE 0)
          /\ Filed("swapToWPaw", w)' = Filed("swapToWPaw", w)
               + (IF e.kind = "swapToWPaw" /\ e.wallet = w THEN e.amount ELSE 0)
      BY <1>0, <2>1, FiledStep
    <3>2. /\ balance[w] \in Int /\ Opening[w] \in Int
          /\ Filed("swapToPaw", w) \in Int /\ Filed("swapToWPaw", w) \in Int
          /\ balance[w] = Opening[w] + Filed("swapToPaw", w) - Filed("swapToWPaw", w)
      BY <1>0, FiledInt, StorageAssumption DEF BooksBalance
    <3>3. balance'[w] = balance[w] + (IF w = o.wallet THEN Delta(o) ELSE 0)
      BY <1>0, <2>1, <3>2
    <3> QED
      BY <2>1, <3>1, <3>2, <3>3
  <2> QED
    BY <2>2 DEF BooksBalance
<1> QED
  BY <1>0, <1>1, <1>2, DataFrame

LEMMA NothingFiled ==
  ASSUME SwapInit
  PROVE  BooksBalance /\ \A k, w : Filed(k, w) = 0
<1>1. entries = {} /\ balance = Opening
  BY DEF SwapInit, StorageInit
<1>2. SumOver(EntryAmount, {}) = 0
  BY AmountFacts, SumEmpty
<1>3. \A k, w : Filed(k, w) = 0
  BY <1>1, <1>2 DEF Filed, EntriesOf
<1>4. \A w \in Wallets : Opening[w] \in Int /\ Opening[w] = Opening[w] + 0 - 0
  BY StorageAssumption
<1> QED
  BY <1>1, <1>3, <1>4 DEF BooksBalance

LEMMA SwapsAgreed == WritersAgree => (SwapSpec => [](OnceInv /\ AgreedInv))
  BY SwapsUseStorage, AgreedInvariance, OnceInvariance, PTL

(***************************************************************************)
(* The balance is what the audit trail says, for any number of swaps in    *)
(* either direction, whatever Redis errors, lock timeouts, crashes and     *)
(* failures of the node happen, as long as no lease ends under its holder  *)
(* and a wallet swaps in one direction.                                    *)
(***************************************************************************)
THEOREM SwapBooksBalance == WritersAgree => (SwapSpec => []BooksBalance)
<1> SUFFICES ASSUME WritersAgree PROVE SwapSpec => []BooksBalance
  OBVIOUS
<1>1. SwapInit => BooksBalance
  BY NothingFiled
<1>2. OnceInv /\ AgreedInv /\ BooksBalance /\ [SwapNext]_swapVars => BooksBalance'
  BY BooksStep
<1> QED
  BY <1>1, <1>2, SwapsAgreed, PTL DEF SwapSpec

-----------------------------------------------------------------------------
(***************************************************************************)
(* What is debited the wallet had: between the worker's read of a balance  *)
(* and its debit nobody else takes from it.                                *)
(***************************************************************************)
Solvent ==
  /\ worker.at = "balance" =>
       read[WorkerCall] <= balance[Swap.wallet] /\ op[WorkerCall] \in {ReadOp(Swap), NoOp}
  /\ worker.at \in {"mint", "debit"} => Swap.amount <= balance[Swap.wallet]
  /\ IsSwapToWPaw(op[WorkerCall]) /\ pc[WorkerCall] \in UnwrittenSwap =>
       op[WorkerCall].amount <= balance[op[WorkerCall].wallet]
  /\ \A w \in Wallets : 0 <= balance[w]

LEMMA ReadFrame ==
  ASSUME StorageTypeOK, InternalStep, NEW c \in Calls
  PROVE  \/ read'[c] = read[c] \/ read'[c] = 0
         \/ pc[c] = "get" /\ read'[c] = Stored(op[c].wallet)
<1> USE DEF StorageTypeOK, Settle, lockVars, callVars
<1>1. ASSUME NEW d \in Calls, CallStep(d)
      PROVE  \/ read'[c] = read[c] \/ read'[c] = 0
             \/ pc[c] = "get" /\ read'[c] = Stored(op[c].wallet)
  <2>1. CASE Acquire(d) \/ AcquireSwap(d) \/ LockError(d) \/ SwapLockError(d) \/ Recheck(d) \/ Exec(d)
    BY <2>1 DEF Acquire, AcquireSwap, LockError, SwapLockError, Recheck, Exec
  <2>2. CASE Get(d)
    BY <2>2 DEF Get
  <2>3. CASE Unlock(d) \/ UnlockSwap(d)
    BY <2>3 DEF Unlock, PassUnlock, UnlockSwap
  <2> QED
    BY <1>1, <2>1, <2>2, <2>3 DEF CallStep
<1>2. ASSUME NEW d \in Calls, RedisError(d) PROVE read'[c] = read[c] \/ read'[c] = 0
  BY <1>2 DEF RedisError, CommandFails, PassUnlock
<1>3. CASE Crash
  BY <1>3 DEF Crash
<1>4. CASE LeaseStep
  BY <1>4 DEF LeaseStep, Expire, ExpireSwap
<1> QED
  BY <1>1, <1>2, <1>3, <1>4 DEF InternalStep

\* Where the balance goes: up by a credit, or down by the debit it covers.
LEMMA BalanceMoves ==
  ASSUME OnceInv, AgreedInv, Solvent, NEW c \in Calls, Exec(c)
  PROVE  /\ \A w \in Wallets : 0 <= balance'[w]
         /\ c # WorkerCall => \A w \in Wallets : balance[w] <= balance'[w]
         /\ c = WorkerCall => worker.at = "stored"
<1> DEFINE o == op[c]
<1>0. SidedInv /\ CallsServe /\ balance \in [Wallets -> Int]
  BY DEF OnceInv, BackedInv, SidedInv, SwapBase, SwapTypeOK, StorageTypeOK
<1>1. /\ o.kind \in {"swapToPaw", "swapToWPaw"} /\ o.wallet \in Wallets /\ o.amount \in Nat
      /\ balance' = [balance EXCEPT ![o.wallet] = @ + Delta(o)]
      /\ Delta(o) = IF o.kind = "swapToPaw" THEN o.amount ELSE -o.amount
  BY ExecAdds
<1>2. CASE c # WorkerCall
  <2>1. PICK b \in burnt : o = CreditOp(b)
    BY <1>0, <1>2, ExecServes
  <2>2. Delta(o) = o.amount
    BY <1>1, <2>1 DEF CreditOp
  <2> HIDE DEF o
  <2> QED
    BY <1>0, <1>1, <1>2, <2>2 DEF Solvent
<1>3. CASE c = WorkerCall
  <2>1. worker.at = "stored" /\ o = DebitOp(Swap, worker.receipt)
    BY <1>0, <1>3, ExecServes, CallFacts
  <2>2. IsSwapToWPaw(o) /\ pc[c] = "exec"
    BY <2>1 DEF IsSwapToWPaw, DebitOp, Exec
  <2>3. o.amount <= balance[o.wallet] /\ Delta(o) = -o.amount
    BY <1>1, <1>3, <2>2 DEF Solvent, UnwrittenSwap, IsSwapToWPaw
  <2> HIDE DEF o
  <2> QED
    BY <1>0, <1>1, <1>3, <2>1, <2>3 DEF Solvent
<1> QED
  BY <1>2, <1>3

LEMMA SolventStep ==
  ASSUME OnceInv, AgreedInv, Solvent, [SwapNext]_swapVars
  PROVE  Solvent'
<1>0. /\ BackedInv /\ SidedInv /\ CallsServe /\ SwapTypeOK /\ StorageTypeOK /\ BaseInv
      /\ WorkerCall \in Calls /\ balance \in [Wallets -> Int] /\ read \in [Calls -> Int]
      /\ UnknownIsZero
  BY CallFacts DEF OnceInv, BackedInv, SidedInv, SwapBase, SwapTypeOK, StorageTypeOK, AgreedInv
<1>1. CASE Asking
  <2>1. /\ op'[WorkerCall] = ReadOp(Swap) /\ UNCHANGED balance
        /\ read'[WorkerCall] = 0
    BY <1>0, <1>1, InvokeFrame DEF Asking, dataVars, Invoke
  <2>2. <<worker.at, worker'.at>> \in Path /\ Swap' = Swap
    BY <1>0, <1>1, GoingFacts DEF Asking
  <2>3. Swap.wallet \in Wallets
    BY <1>0, <1>1, WorkerFacts, JobFacts DEF Asking
  <2> QED
    BY <1>1, <2>1, <2>2, <2>3 DEF Solvent, Asking, Path, IsSwapToWPaw, ReadOp
<1>2. CASE Debiting
  <2>1. op'[WorkerCall] = DebitOp(Swap, worker.receipt) /\ UNCHANGED balance
    BY <1>0, <1>2, InvokeFrame DEF Debiting, dataVars
  <2>2. op'[WorkerCall].amount = Swap.amount /\ op'[WorkerCall].wallet = Swap.wallet
    BY <2>1 DEF DebitOp
  <2> QED
    BY <1>2, <2>1, <2>2 DEF Debiting, Solvent
<1>3. CASE Crediting
  <2>1. PICK c \in StoreCalls : Invoke(c, CreditOp(Swap))
    BY <1>3 DEF Crediting
  <2>2. /\ UNCHANGED balance
        /\ op'[WorkerCall] = op[WorkerCall] /\ pc'[WorkerCall] = pc[WorkerCall]
    BY <1>0, <1>3, <2>1, InvokeFrame, CallFacts DEF Crediting, dataVars
  <2>3. <<worker.at, worker'.at>> \in Path
    BY <1>0, <1>3, GoingFacts DEF Crediting
  <2> QED
    BY <1>3, <2>2, <2>3 DEF Solvent, Crediting, Path
<1>4. CASE Reading
  <2>1. PICK c \in ReaderCalls, id \in SwapJobs : Invoke(c, ReadOp(id))
    BY <1>4 DEF Reading
  <2>2. /\ UNCHANGED balance /\ read'[WorkerCall] = read[WorkerCall]
        /\ op'[WorkerCall] = op[WorkerCall] /\ pc'[WorkerCall] = pc[WorkerCall]
    BY <1>0, <2>1, InvokeFrame, CallFacts, SwapOpsAssumption DEF dataVars, Invoke
  <2> QED
    BY <1>4, <2>2 DEF Solvent, Reading, Swap
<1>5. CASE Running
  <2>1. /\ UNCHANGED worker /\ InternalStep /\ Swap' = Swap
        /\ op'[WorkerCall] = op[WorkerCall] \/ op'[WorkerCall] = NoOp
    BY <1>0, <1>5, InternalFrame DEF Running, InternalStep, Swap
  <2>2. worker.at # "idle" => Swap.wallet \in Wallets /\ Swap.amount \in Nat
    BY <1>0, WorkerFacts, JobFacts
  <2>3. ASSUME worker.at = "balance"
        PROVE  read'[WorkerCall] <= balance[Swap.wallet] /\ op'[WorkerCall] \in {ReadOp(Swap), NoOp}
    <3>1. CASE read'[WorkerCall] = read[WorkerCall] \/ read'[WorkerCall] = 0
      BY <2>1, <2>2, <2>3, <3>1 DEF Solvent
    <3>2. CASE pc[WorkerCall] = "get" /\ read'[WorkerCall] = Stored(op[WorkerCall].wallet)
      <4>1. op[WorkerCall] \in Ops
        BY <1>0, <3>2 DEF BaseInv, ServesOps, ServesOp, Settled
      <4>2. op[WorkerCall].kind # "none"
        BY <4>1, OpsAssumption DEF Operations, Kinds
      <4>3. op[WorkerCall] = ReadOp(Swap)
        BY <2>3, <4>2 DEF Solvent, NoOp
      <4>4. op[WorkerCall].wallet = Swap.wallet
        BY <4>3 DEF ReadOp
      <4> QED
        BY <1>0, <2>1, <2>2, <2>3, <3>2, <4>4 DEF Solvent, Stored
    <3> QED
      BY <1>0, <2>1, <3>1, <3>2, ReadFrame
  <2>4. IsSwapToWPaw(op'[WorkerCall]) /\ pc'[WorkerCall] \in UnwrittenSwap =>
          /\ IsSwapToWPaw(op[WorkerCall]) /\ pc[WorkerCall] \in UnwrittenSwap
          /\ op'[WorkerCall] = op[WorkerCall] /\ ~Exec(WorkerCall)
          /\ op[WorkerCall].wallet \in Wallets /\ op[WorkerCall].amount \in Nat
    <3>1. SUFFICES ASSUME IsSwapToWPaw(op'[WorkerCall]), pc'[WorkerCall] \in UnwrittenSwap
                   PROVE  /\ IsSwapToWPaw(op[WorkerCall]) /\ pc[WorkerCall] \in UnwrittenSwap
                          /\ op'[WorkerCall] = op[WorkerCall] /\ ~Exec(WorkerCall)
                          /\ op[WorkerCall].wallet \in Wallets /\ op[WorkerCall].amount \in Nat
      OBVIOUS
    <3>2. IsSwapToWPaw(op[WorkerCall])
      BY <2>1, <3>1 DEF IsSwapToWPaw, NoOp
    <3>3. pc[WorkerCall] \in UnwrittenSwap /\ op'[WorkerCall] = op[WorkerCall] /\ ~Exec(WorkerCall)
      BY <1>0, <2>1, <3>1, <3>2, SwapFrame
    <3>4. op[WorkerCall] \in Ops
      BY <1>0, <3>3 DEF BaseInv, ServesOps, ServesOp, Settled, UnwrittenSwap
    <3> QED
      BY <3>2, <3>3, <3>4, OpsAssumption DEF Operations
  <2>5. CASE UNCHANGED dataVars
    BY <2>1, <2>3, <2>4, <2>5 DEF Solvent, dataVars
  <2>6. ASSUME NEW c \in Calls, Exec(c) PROVE Solvent'
    <3>1. /\ \A w \in Wallets : 0 <= balance'[w]
          /\ c # WorkerCall => \A w \in Wallets : balance[w] <= balance'[w]
          /\ c = WorkerCall => worker.at = "stored"
      BY <2>6, BalanceMoves
    <3>2. \A w \in Wallets : balance[w] \in Int /\ balance'[w] \in Int
      BY <1>0, <2>6, ExecAdds DEF OnceInv
    <3>3. CASE c = WorkerCall
      BY <2>1, <2>4, <2>6, <3>1, <3>3 DEF Solvent
    <3>4. CASE c # WorkerCall
      <4>1. \A w \in Wallets, n \in Int : n <= balance[w] => n <= balance'[w]
        BY <3>1, <3>2, <3>4
      <4>2. worker'.at = "balance" =>
              read'[WorkerCall] <= balance'[Swap.wallet] /\ op'[WorkerCall] \in {ReadOp(Swap), NoOp}
        <5>1. read'[WorkerCall] \in Int
          BY <1>0, StorageOfStep, TypeStep DEF StorageTypeOK
        <5> QED
          BY <2>1, <2>2, <2>3, <4>1, <5>1
      <4>3. worker'.at \in {"mint", "debit"} => Swap.amount <= balance'[Swap.wallet]
        BY <2>1, <2>2, <4>1 DEF Solvent
      <4>4. IsSwapToWPaw(op'[WorkerCall]) /\ pc'[WorkerCall] \in UnwrittenSwap =>
              op'[WorkerCall].amount <= balance'[op'[WorkerCall].wallet]
        BY <2>4, <4>1 DEF Solvent
      <4> QED
        BY <2>1, <3>1, <4>2, <4>3, <4>4 DEF Solvent
    <3> QED
      BY <3>3, <3>4
  <2> QED
    BY <1>0, <2>1, <2>5, <2>6, InternalFrame
<1>6. CASE Restarting
  BY <1>6, CallFacts
  DEF Restarting, Restart, Crash, Solvent, NoOp, Idle, IsSwapToWPaw, dataVars
<1>7. CASE Resting
  <2>1. UNCHANGED <<balance, op, pc, read>> /\ Moves
    BY <1>7 DEF Resting, storageVars
  <2>2. CASE worker'.at \notin {"balance", "mint", "debit"}
    BY <2>1, <2>2 DEF Solvent
  <2>3. CASE UNCHANGED worker
    BY <2>1, <2>3 DEF Solvent, Swap
  <2>4. CASE Going
    <3>1. <<worker.at, worker'.at>> \in Path /\ Swap' = Swap
      BY <1>0, <2>4, GoingFacts
    <3>2. CASE worker'.at = "mint"
      <4>1. /\ worker.at = "balance" /\ read[WorkerCall] <= balance[Swap.wallet]
            /\ Swap.wallet \in Wallets /\ Swap.amount \in Nat /\ read[WorkerCall] \in Int
        BY <1>0, <3>1, <3>2, WorkerFacts, JobFacts DEF Path, Solvent
      <4>2. Swap.amount <= read[WorkerCall] /\ balance[Swap.wallet] \in Int
        BY <1>0, <1>7, <3>2, <4>1 DEF Resting
      <4>3. Swap.amount <= balance[Swap.wallet]
        BY <4>1, <4>2
      <4> QED
        BY <2>1, <3>1, <3>2, <4>3 DEF Solvent
    <3>3. CASE worker'.at = "balance"
      BY <1>7, <3>1, <3>3 DEF Resting, Path
    <3>4. worker'.at # "debit"
      BY <3>1 DEF Path
    <3> QED
      BY <2>2, <3>2, <3>3, <3>4
  <2>5. CASE Signing
    BY <1>0, <2>1, <2>5, SigningFacts DEF Signing, Solvent
  <2>6. CASE Starting
    BY <1>0, <2>2, <2>6, StartingFacts
  <2> QED
    BY <2>1, <2>2, <2>3, <2>4, <2>5, <2>6
    DEF Moves, Failing, JobFails, Delivering, Queueing, Burning, Storing, Restarting, Restart, swapVars, Idle
<1> QED
  BY <1>0, <1>1, <1>2, <1>3, <1>4, <1>5, <1>6, <1>7, StorageCases

-----------------------------------------------------------------------------
(***************************************************************************)
(* The entries against the receipts and the burns they are of.             *)
(***************************************************************************)
OnFileOf(w) == {r \in receipts : r.request.wallet = w /\ OnFile(r)}

CreditedOf(w) == {b \in burnt : b.wallet = w /\ Entry(CreditOp(b)) \in entries}

DebitsMatch ==
  \A w \in Wallets : SumOver(ReceiptAmount, OnFileOf(w)) = Filed("swapToWPaw", w)

CreditsMatch ==
  \A w \in Wallets : SumOver(BurnAmount, CreditedOf(w)) = Filed("swapToPaw", w)

\* Where wallets are spelt in lower case an entry says of which burn it is.
LEMMA OneBurn ==
  ASSUME WritersAgree, NEW b \in Burns, NEW d \in Burns, Entry(CreditOp(b)) = Entry(CreditOp(d))
  PROVE  b = d
<1>1. b.spelling = b.wallet /\ d.spelling = d.wallet
  <2>1. CreditOp(b) \in Ops /\ CreditOp(d) \in Ops
    BY SwapOpsAssumption
  <2>2. CreditOp(b).spelling = CreditOp(b).wallet /\ CreditOp(d).spelling = CreditOp(d).wallet
    BY <2>1 DEF WritersAgree
  <2> QED
    BY <2>2 DEF CreditOp
<1>2. b.wallet = d.wallet /\ b.amount = d.amount /\ b.hash = d.hash
  BY DEF Entry, CreditOp
<1>3. b \in [kind : {"burn"}, wallet : Wallets, spelling : Names, amount : Nat, hash : Hashes]
  BY SwapsAssumption
<1>4. d \in [kind : {"burn"}, wallet : Wallets, spelling : Names, amount : Nat, hash : Hashes]
  BY SwapsAssumption
<1> QED
  BY <1>1, <1>2, <1>3, <1>4

LEMMA MatchFacts ==
  ASSUME OnceInv, NEW w
  PROVE  /\ OnFileOf(w) \in SUBSET SignedReceipts /\ IsFiniteSet(OnFileOf(w))
         /\ CreditedOf(w) \in SUBSET Burns /\ IsFiniteSet(CreditedOf(w))
         /\ SumOver(ReceiptAmount, OnFileOf(w)) \in Int
         /\ SumOver(BurnAmount, CreditedOf(w)) \in Int
<1>1. /\ receipts \subseteq SignedReceipts /\ burnt \subseteq Burns
      /\ IsFiniteSet(receipts) /\ IsFiniteSet(burnt)
  BY DEF OnceInv, BackedInv, SidedInv, SwapBase, SwapTypeOK, Finite
<1>2. /\ OnFileOf(w) \in SUBSET SignedReceipts /\ IsFiniteSet(OnFileOf(w))
      /\ CreditedOf(w) \in SUBSET Burns /\ IsFiniteSet(CreditedOf(w))
  BY <1>1, FS_Subset DEF OnFileOf, CreditedOf
<1> QED
  BY <1>2, AmountFacts, SumInt

\* A new receipt is not on file, and a burn that is new was not credited.
LEMMA MatchFrame ==
  ASSUME WritersAgree, OnceInv, Moves, UNCHANGED entries, NEW w
  PROVE  OnFileOf(w)' = OnFileOf(w) /\ CreditedOf(w)' = CreditedOf(w)
<1>0. /\ BackedInv /\ SidedInv /\ SwapTypeOK /\ burnt \subseteq Burns
      /\ receipts \subseteq receipts' /\ burnt \subseteq burnt'
  BY ReceiptsGrow DEF OnceInv, BackedInv, SidedInv, SwapBase, SwapTypeOK
<1>1. ASSUME NEW r \in receipts', OnFile(r) PROVE r \in receipts
  <2>1. CASE Signing
    <3>1. receipts' = receipts \cup {Signature'} /\ \A s \in receipts : s.hash # Signature'.hash
      BY <1>0, <2>1, SigningFacts DEF Signature
    <3>2. ~OnFile(Signature')
      BY <1>0, <3>1, NewIsNotFiled DEF OnFile
    <3> QED
      BY <1>1, <3>1, <3>2
  <2>2. CASE UNCHANGED receipts
    BY <1>1, <2>2
  <2> QED
    BY <2>1, <2>2
    DEF Moves, Going, Failing, Delivering, Starting, Queueing, Burning, Storing, Restarting, swapVars
<1>2. ASSUME NEW b \in burnt', Entry(CreditOp(b)) \in entries PROVE b \in burnt
  <2>1. b \in Burns
    BY <1>0, <1>2
    DEF Moves, Going, Failing, Signing, Delivering, Starting, Queueing, Burning, Storing, Restarting,
        Burn, Twins, swapVars
  <2>2. PICK d \in burnt : Entry(CreditOp(b)) = Entry(CreditOp(d))
    <3>1. \A r : Entry(CreditOp(b)) # Entry(DebitOp(r.request, r.hash))
      BY DEF Entry, CreditOp, DebitOp
    <3> QED
      BY <1>0, <1>2, <3>1 DEF BackedInv, EntriesAreBacked
  <2> QED
    BY <1>0, <2>1, <2>2, OneBurn
<1>3. OnFileOf(w)' = OnFileOf(w)
  BY <1>0, <1>1 DEF OnFileOf, OnFile
<1>4. CreditedOf(w)' = CreditedOf(w)
  BY <1>0, <1>2 DEF CreditedOf
<1> QED
  BY <1>3, <1>4

LEMMA DebitMatches ==
  ASSUME OnceInv, NEW e \in Entries, e \notin entries, entries' = entries \cup {e},
         UNCHANGED receipts, Signature \in receipts, e = Entry(DebitOp(Swap, worker.receipt)),
         NEW w \in Wallets
  PROVE  /\ SumOver(ReceiptAmount, OnFileOf(w)') =
              SumOver(ReceiptAmount, OnFileOf(w)) + (IF e.wallet = w THEN e.amount ELSE 0)
         /\ \A b : Entry(CreditOp(b)) # e
<1> DEFINE S == OnFileOf(w)
           r == Signature
<1>1. /\ r \in SignedReceipts /\ e = Entry(DebitOp(r.request, r.hash))
      /\ ReceiptAmount[r] = e.amount /\ r.request.wallet = e.wallet
  BY DEF OnceInv, BackedInv, SidedInv, SwapBase, SwapTypeOK, ReceiptAmount, Signature, Entry, DebitOp
<1>2. \A s \in receipts : Entry(DebitOp(s.request, s.hash)) = e => s = r
  <2>1. ASSUME NEW s \in receipts, Entry(DebitOp(s.request, s.hash)) = e PROVE s = r
    <3>1. s.hash = r.hash
      BY <1>1, <2>1 DEF Entry, DebitOp
    <3> QED
      BY <3>1 DEF OnceInv, Distinct
  <2> QED
    BY <2>1
<1>3. /\ S \in SUBSET SignedReceipts /\ IsFiniteSet(S) /\ r \notin S
      /\ SumOver(ReceiptAmount, S) \in Int
  BY <1>1, MatchFacts DEF OnFileOf, OnFile
<1>4. \A b : Entry(CreditOp(b)) # e
  BY DEF Entry, CreditOp, DebitOp
<1>5. CASE e.wallet = w
  <2>1. OnFileOf(w)' = S \cup {r}
    BY <1>1, <1>2, <1>5 DEF OnFileOf, OnFile
  <2> HIDE DEF S, r
  <2>2. SumOver(ReceiptAmount, S \cup {r}) = SumOver(ReceiptAmount, S) + ReceiptAmount[r]
    BY <1>1, <1>3, AmountFacts, SumAdd
  <2> QED
    BY <1>1, <1>4, <1>5, <2>1, <2>2 DEF S
<1>6. CASE e.wallet # w
  <2>1. OnFileOf(w)' = S
    BY <1>1, <1>2, <1>6 DEF OnFileOf, OnFile
  <2> QED
    BY <1>3, <1>4, <1>6, <2>1
<1> QED
  BY <1>5, <1>6

LEMMA CreditMatches ==
  ASSUME WritersAgree, OnceInv, NEW e \in Entries, e \notin entries, entries' = entries \cup {e},
         UNCHANGED burnt, NEW b \in burnt, e = Entry(CreditOp(b)), NEW w \in Wallets
  PROVE  /\ SumOver(BurnAmount, CreditedOf(w)') =
              SumOver(BurnAmount, CreditedOf(w)) + (IF e.wallet = w THEN e.amount ELSE 0)
         /\ \A r : Entry(DebitOp(r.request, r.hash)) # e
<1> DEFINE S == CreditedOf(w)
<1>1. /\ burnt \subseteq Burns /\ b \in Burns
      /\ BurnAmount[b] = e.amount /\ b.wallet = e.wallet
  BY DEF OnceInv, BackedInv, SidedInv, SwapBase, SwapTypeOK, BurnAmount, Entry, CreditOp
<1>2. \A d \in burnt : Entry(CreditOp(d)) = e => d = b
  BY <1>1, OneBurn
<1>3. /\ S \in SUBSET Burns /\ IsFiniteSet(S) /\ b \notin S
      /\ SumOver(BurnAmount, S) \in Int
  BY MatchFacts DEF CreditedOf
<1>4. \A r : Entry(DebitOp(r.request, r.hash)) # e
  BY DEF Entry, CreditOp, DebitOp
<1>5. CASE e.wallet = w
  <2>1. CreditedOf(w)' = S \cup {b}
    BY <1>1, <1>2, <1>5 DEF CreditedOf
  <2> HIDE DEF S
  <2>2. SumOver(BurnAmount, S \cup {b}) = SumOver(BurnAmount, S) + BurnAmount[b]
    BY <1>1, <1>3, AmountFacts, SumAdd
  <2> QED
    BY <1>1, <1>4, <1>5, <2>1, <2>2 DEF S
<1>6. CASE e.wallet # w
  <2>1. CreditedOf(w)' = S
    BY <1>1, <1>2, <1>6 DEF CreditedOf
  <2> QED
    BY <1>3, <1>4, <1>6, <2>1
<1> QED
  BY <1>5, <1>6

LEMMA MatchStep ==
  ASSUME WritersAgree, OnceInv, AgreedInv, DebitsMatch, CreditsMatch, [SwapNext]_swapVars
  PROVE  DebitsMatch' /\ CreditsMatch'
<1>0. BackedInv /\ SidedInv /\ CallsServe /\ Moves /\ Finite
  BY MoveCases DEF OnceInv, BackedInv
<1>1. CASE UNCHANGED dataVars
  <2>1. UNCHANGED entries
    BY <1>1 DEF dataVars
  <2>2. ASSUME NEW w PROVE /\ OnFileOf(w)' = OnFileOf(w) /\ CreditedOf(w)' = CreditedOf(w)
                           /\ \A k : Filed(k, w)' = Filed(k, w)
    BY <1>0, <2>1, MatchFrame DEF Filed, EntriesOf
  <2>3. ASSUME NEW w \in Wallets
        PROVE  /\ SumOver(ReceiptAmount, OnFileOf(w)') = Filed("swapToWPaw", w)'
               /\ SumOver(BurnAmount, CreditedOf(w)') = Filed("swapToPaw", w)'
    BY <2>2 DEF DebitsMatch, CreditsMatch
  <2> QED
    BY <2>3 DEF DebitsMatch, CreditsMatch
<1>2. ASSUME NEW c \in Calls, Exec(c), Running PROVE DebitsMatch' /\ CreditsMatch'
  <2> DEFINE o == op[c]
             e == Entry(o)
  <2>1. /\ e \in Entries /\ e \notin entries /\ entries' = entries \cup {e}
        /\ UNCHANGED <<receipts, burnt>> /\ e.amount \in Int
    BY <1>2, ExecAdds DEF Running
  <2>2. \A k, w : Filed(k, w)' = Filed(k, w) + (IF e.kind = k /\ e.wallet = w THEN e.amount ELSE 0)
    BY <1>0, <2>1, FiledStep
  <2>3. \A k, w : Filed(k, w) \in Int
    BY <1>0, FiledInt
  <2>4. ASSUME NEW w \in Wallets
        PROVE  /\ SumOver(ReceiptAmount, OnFileOf(w)') = Filed("swapToWPaw", w)'
               /\ SumOver(BurnAmount, CreditedOf(w)') = Filed("swapToPaw", w)'
    <3>1. /\ SumOver(ReceiptAmount, OnFileOf(w)) = Filed("swapToWPaw", w)
          /\ SumOver(BurnAmount, CreditedOf(w)) = Filed("swapToPaw", w)
      BY DEF DebitsMatch, CreditsMatch
    <3>2. CASE \E b \in burnt : o = CreditOp(b)
      <4>1. PICK b \in burnt : e = Entry(CreditOp(b))
        BY <3>2
      <4>2. e.kind = "swapToPaw"
        BY <4>1 DEF Entry, CreditOp
      <4> HIDE DEF e
      <4>3. /\ SumOver(BurnAmount, CreditedOf(w)') =
                 SumOver(BurnAmount, CreditedOf(w)) + (IF e.wallet = w THEN e.amount ELSE 0)
            /\ \A r : Entry(DebitOp(r.request, r.hash)) # e
        BY <2>1, <4>1, CreditMatches
      <4>4. OnFileOf(w)' = OnFileOf(w)
        BY <2>1, <4>3 DEF OnFileOf, OnFile
      <4>5. Filed("swapToWPaw", w)' = Filed("swapToWPaw", w)
        BY <2>2, <2>3, <4>2
      <4> QED
        BY <2>2, <3>1, <4>2, <4>3, <4>4, <4>5
    <3>3. CASE o = DebitOp(Swap, worker.receipt) /\ Signature \in receipts
      <4>1. e = Entry(DebitOp(Swap, worker.receipt)) /\ e.kind = "swapToWPaw"
        BY <3>3 DEF Entry, DebitOp
      <4> HIDE DEF e
      <4>2. /\ SumOver(ReceiptAmount, OnFileOf(w)') =
                 SumOver(ReceiptAmount, OnFileOf(w)) + (IF e.wallet = w THEN e.amount ELSE 0)
            /\ \A b : Entry(CreditOp(b)) # e
        BY <2>1, <3>3, <4>1, DebitMatches
      <4>3. CreditedOf(w)' = CreditedOf(w)
        BY <2>1, <4>2 DEF CreditedOf
      <4>4. Filed("swapToPaw", w)' = Filed("swapToPaw", w)
        BY <2>2, <2>3, <4>1
      <4> QED
        BY <2>2, <3>1, <4>1, <4>2, <4>3, <4>4
    <3> QED
      BY <1>0, <1>2, <3>2, <3>3, ExecServes
  <2> QED
    BY <2>4 DEF DebitsMatch, CreditsMatch
<1> QED
  BY <1>0, <1>1, <1>2, DataFrame

LEMMA CoveredInvariance ==
  WritersAgree => (SwapSpec => [](Solvent /\ DebitsMatch /\ CreditsMatch))
<1> SUFFICES ASSUME WritersAgree PROVE SwapSpec => [](Solvent /\ DebitsMatch /\ CreditsMatch)
  OBVIOUS
<1>1. SwapInit => Solvent /\ DebitsMatch /\ CreditsMatch
  <2> SUFFICES ASSUME SwapInit PROVE Solvent /\ DebitsMatch /\ CreditsMatch
    OBVIOUS
  <2>1. Solvent
    BY CallFacts, StorageAssumption
    DEF SwapInit, StorageInit, Solvent, Idle, NoOp, IsSwapToWPaw
  <2>2. \A w : OnFileOf(w) = {} /\ CreditedOf(w) = {}
    BY DEF SwapInit, OnFileOf, CreditedOf
  <2>3. SumOver(ReceiptAmount, {}) = 0 /\ SumOver(BurnAmount, {}) = 0
    BY AmountFacts, SumEmpty
  <2>4. \A k, w : Filed(k, w) = 0
    BY NothingFiled
  <2> QED
    BY <2>1, <2>2, <2>3, <2>4 DEF DebitsMatch, CreditsMatch
<1>2. /\ OnceInv /\ AgreedInv /\ (Solvent /\ DebitsMatch /\ CreditsMatch) /\ [SwapNext]_swapVars
      => (Solvent /\ DebitsMatch /\ CreditsMatch)'
  BY SolventStep, MatchStep
<1> QED
  BY <1>1, <1>2, SwapsAgreed, PTL DEF SwapSpec

(***************************************************************************)
(* The wPAW the receipts within a user's reach can mint is covered by what *)
(* was deposited and burnt: any number of swaps in any order, repeated by  *)
(* retries and cut off by crashes, mint nothing out of nothing.  As for    *)
(* ReceiptsDebited, Redis answers; a wallet swaps in one direction.        *)
(***************************************************************************)
THEOREM ReceiptsAreCovered ==
  WritersAgree /\ StoresAnswered => (SwapSpec => []ReceiptsCovered)
<1> SUFFICES ASSUME WritersAgree, StoresAnswered PROVE SwapSpec => []ReceiptsCovered
  OBVIOUS
<1>1. /\ OnceInv /\ ReceiptsAreDebited /\ BooksBalance
      /\ Solvent /\ DebitsMatch /\ CreditsMatch
      => ReceiptsCovered
  <2> SUFFICES ASSUME OnceInv, ReceiptsAreDebited, BooksBalance, Solvent, DebitsMatch, CreditsMatch,
                      NEW w \in Wallets
               PROVE  SumOver(ReceiptAmount, InReach(w)) <= Opening[w] + BurntFor(w)
    BY DEF ReceiptsCovered
  <2>1. InReach(w) = OnFileOf(w)
    BY DEF InReach, OnFileOf, ReceiptsAreDebited
  <2>2. /\ SumOver(ReceiptAmount, OnFileOf(w)) = Filed("swapToWPaw", w)
        /\ SumOver(BurnAmount, CreditedOf(w)) = Filed("swapToPaw", w)
    BY DEF DebitsMatch, CreditsMatch
  <2>3. /\ balance[w] = Opening[w] + Filed("swapToPaw", w) - Filed("swapToWPaw", w)
        /\ 0 <= balance[w]
    BY DEF BooksBalance, Solvent
  <2>4. /\ SidedInv /\ Finite /\ balance[w] \in Int /\ Opening[w] \in Int
        /\ Filed("swapToPaw", w) \in Int /\ Filed("swapToWPaw", w) \in Int
    BY FiledInt, StorageAssumption
    DEF OnceInv, BackedInv, SidedInv, SwapBase, SwapTypeOK, StorageTypeOK
  <2>5. BurntFor(w) \in Int /\ SumOver(BurnAmount, CreditedOf(w)) <= BurntFor(w)
    <3> DEFINE S == {b \in burnt : b.wallet = w}
               T == CreditedOf(w)
    <3>1. burnt \subseteq Burns /\ IsFiniteSet(burnt)
      BY <2>4 DEF SidedInv, SwapBase, SwapTypeOK, Finite
    <3>2. S \in SUBSET Burns /\ IsFiniteSet(S) /\ T \in SUBSET S
      BY <3>1, FS_Subset DEF CreditedOf
    <3> HIDE DEF S, T
    <3>3. SumOver(BurnAmount, T) <= SumOver(BurnAmount, S)
      BY <3>2, AmountFacts, SumSubset
    <3>4. SumOver(BurnAmount, S) \in Int
      BY <3>2, AmountFacts, SumInt
    <3> QED
      BY <3>3, <3>4 DEF S, T, BurntFor
  <2> QED
    BY <2>1, <2>2, <2>3, <2>4, <2>5
<1> QED
  BY <1>1, SwapsAgreed, ReceiptsDebited, SwapBooksBalance, CoveredInvariance, PTL
=============================================================================
