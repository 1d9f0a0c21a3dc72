------------------------------- MODULE BlockScan -------------------------------
(***************************************************************************)
(* The scan of the blockchain for SwapToPaw events.  A repeated job of the *)
(* scan queue (RedisBlockchainScanQueue) reads the last block processed    *)
(* and queues a job for the blocks behind it; Blockchain.processBlocks     *)
(* goes through them slice by slice, hands the events it finds to the      *)
(* listener, and saves how far it got.  One worker runs both.              *)
(*                                                                         *)
(* Two calls are not awaited: the listener, which adds the event to the    *)
(* operations queue, and the save, which reads the last block and sets it  *)
(* when the answer is in.                                                  *)
(***************************************************************************)
EXTENDS Integers, Sequences, FiniteSets

CONSTANTS
  Slice,          \* BLOCK_SLICE, the blocks of one query
  Window,         \* the blocks of one job, at most
  StartFrom,      \* the last block taken as processed at the first start
  FirstHeight,    \* the height of the blockchain at the first start
  MaxHeight,      \* bound on its height
  MaxJobs,        \* bound on the scan jobs
  Events,         \* the SwapToPaw events, [block, hash]
  Malformed,      \* those the listener is not told: an address or the amount is missing
  Confirmations,  \* how long the live listener waits
  Faults,         \* subset of {"refused", "redisError", "crash"}
  MaxFaults,      \* bound on the faults
  Calm            \* the height from which nothing fails any more

ASSUME SliceAssumption == Slice \in Nat \ {0} /\ Window \in Nat \ {0}

ASSUME HeightAssumption ==
  /\ StartFrom \in Nat /\ Confirmations \in Nat /\ Calm \in Nat /\ MaxFaults \in Nat
  /\ FirstHeight \in Nat /\ MaxHeight \in Nat /\ MaxJobs \in Nat
  /\ StartFrom <= FirstHeight /\ FirstHeight <= MaxHeight
  /\ \A e \in Events : e.block \in Nat /\ e.block > StartFrom
  /\ Malformed \subseteq Events

VARIABLES
  height,    \* the height of the blockchain
  latest,    \* blockchain:blocks:latest
  saves,     \* saves whose read is out, in the order of the answers: [block, seen]
  job,       \* the records of the scan jobs
  worker,    \* what the worker of the scan queue is doing
  scanned,   \* the blocks of the slices that were queried and gone through
  handed,    \* events given to the listener, whose add is not done yet
  queued,    \* events in the operations queue
  lost,      \* events whose add failed, or was under way when the process died
  faults     \* the faults there were

scanVars == <<height, latest, saves, job, worker, scanned, handed, queued, lost, faults>>

\* <from>-<height>, which also determine the last block of the job.
ScanJobs == [from : StartFrom + 1..MaxHeight + 1, height : FirstHeight..MaxHeight]

INSTANCE JobQueue WITH JobIds <- ScanJobs, RemovedOnFail <- {}

Least(a, b) == IF a < b THEN a ELSE b

BlockTo(j) == Least(j.from - 1 + Window, j.height)

Idle == [at |-> "idle"]

ScanInit ==
  /\ height = FirstHeight
  /\ latest = StartFrom
  /\ saves = <<>>
  /\ QueueInit
  /\ worker = Idle
  /\ scanned = {} /\ handed = {} /\ queued = {} /\ lost = {} /\ faults = 0

Fault(kind) ==
  /\ kind \in Faults /\ height < Calm
  /\ faults < MaxFaults /\ faults' = faults + 1

-----------------------------------------------------------------------------
(***************************************************************************)
(* The repeated job.  The read of the last block is answered after those   *)
(* of the saves that went before it, but read before they set anything.    *)
(***************************************************************************)
ReadLatest ==
  /\ worker.at = "idle"
  /\ Cardinality({j \in ScanJobs : job[j] # NoJob}) < MaxJobs
  /\ worker' = [at |-> "repeat", latest |-> latest]
  /\ UNCHANGED <<height, latest, saves, job, scanned, handed, queued, lost, faults>>

\* Mutant of QueueScan: the identifier names the first block and not the height.
QueueScanByBlock ==
  /\ worker.at = "repeat" /\ saves = <<>>
  /\ IF \E j \in ScanJobs : j.from = worker.latest + 1 /\ job[j] # NoJob
       THEN UNCHANGED job
       ELSE Add([from |-> worker.latest + 1, height |-> height], "waiting")
  /\ worker' = Idle
  /\ UNCHANGED <<height, latest, saves, scanned, handed, queued, lost, faults>>

\* The add is not awaited either; it may fail, and so may the question for the height.
QueueScan ==
  /\ worker.at = "repeat" /\ saves = <<>>
  /\ \/ Add([from |-> worker.latest + 1, height |-> height], "waiting") /\ UNCHANGED faults
     \/ (Fault("refused") \/ Fault("redisError")) /\ UNCHANGED job
  /\ worker' = Idle
  /\ UNCHANGED <<height, latest, saves, scanned, handed, queued, lost>>

-----------------------------------------------------------------------------
(***************************************************************************)
(* processBlocks.  The worker keeps the slice it is about to query and how *)
(* many slices are left; a range without blocks has none.                  *)
(***************************************************************************)
\* Mutant of NumberOfSlices: the last slice is left out.
NumberOfFullSlices(from, to) == (to - from) \div Slice

NumberOfSlices(from, to) == (to - from) \div Slice + 1

FirstSlice(j) ==
  [at |-> "slice", id |-> j, from |-> j.from, to |-> Least(j.from + Slice - 1, BlockTo(j)),
   left |-> NumberOfSlices(j.from, BlockTo(j))]

NextSlice(s) ==
  LET from == s.from + (s.to - s.from + 1) IN
  [s EXCEPT !.from = from, !.to = @ + Least(Slice, BlockTo(s.id) - from + 1), !.left = @ - 1]

Start(j) ==
  /\ worker.at = "idle"
  /\ Take(j)
  /\ worker' = FirstSlice(j)
  /\ UNCHANGED <<height, latest, saves, scanned, handed, queued, lost, faults>>

\* Mutant of Save: the end of the job is saved with every slice.
SaveWholeJob(block) ==
  saves' = Append(saves, [block |-> BlockTo(worker.id), seen |-> latest])

\* setLastBlockchainBlockProcessed issues its read and leaves.
Save(block) == saves' = Append(saves, [block |-> block, seen |-> latest])

\* Mutant of Found: a query that excludes its last block.
FoundBefore(from, to) == {e \in Events : e.block \in from..to - 1}

Found(from, to) == {e \in Events : e.block \in from..to}

HandOver ==
  /\ worker.at = "slice" /\ worker.left > 0
  /\ handed' = handed \cup (Found(worker.from, worker.to) \ Malformed)

\* Some event of the slice makes handleSwapToPawEvents throw.
Throws == Found(worker.from, worker.to) \cap Malformed # {}

\* processBlocksSlice: query, hand the events over, save.
ProcessSlice ==
  /\ HandOver
  /\ ~Throws
  /\ scanned' = scanned \cup (worker.from..worker.to)
  /\ Save(worker.to)
  /\ worker' = NextSlice(worker)
  /\ UNCHANGED <<height, latest, job, queued, lost, faults>>

\* The events are handed over side by side: those that throw do not stop the others, but
\* the slice is not saved, and the job fails; so will every other that comes to the slice.
SliceThrows ==
  /\ HandOver
  /\ Throws
  /\ Fail(worker.id) /\ worker' = Idle
  /\ UNCHANGED <<height, latest, saves, scanned, queued, lost, faults>>

\* The node fails the query, or a question about one of its events.
SliceFails ==
  /\ Fault("refused")
  /\ worker.at = "slice" /\ worker.left > 0
  /\ Fail(worker.id) /\ worker' = Idle
  /\ UNCHANGED <<height, latest, saves, scanned, handed, queued, lost>>

Finish ==
  /\ worker.at = "slice" /\ worker.left <= 0
  /\ Complete(worker.id) /\ worker' = Idle
  /\ UNCHANGED <<height, latest, saves, scanned, handed, queued, lost, faults>>

\* The oldest read is answered: set the last block if it was behind.
SetLatest ==
  /\ saves # <<>>
  /\ latest' = IF Head(saves).block > Head(saves).seen THEN Head(saves).block ELSE latest
  /\ saves' = Tail(saves)
  /\ UNCHANGED <<height, job, worker, scanned, handed, queued, lost, faults>>

\* The read or the set of a save fails, and nobody is told.
SaveFails ==
  /\ Fault("redisError")
  /\ saves # <<>>
  /\ saves' = Tail(saves)
  /\ UNCHANGED <<height, latest, job, worker, scanned, handed, queued, lost>>

-----------------------------------------------------------------------------
(***************************************************************************)
(* Around it.                                                              *)
(***************************************************************************)
BlockArrives ==
  /\ height < MaxHeight
  /\ height' = height + 1
  /\ UNCHANGED <<latest, saves, job, worker, scanned, handed, queued, lost, faults>>

\* The subscription to the contract reports an event, once it is confirmed.
Listen(e) ==
  /\ e.block + Confirmations <= height
  /\ e \notin handed \cup Malformed
  /\ handed' = handed \cup {e}
  /\ UNCHANGED <<height, latest, saves, job, worker, scanned, queued, lost, faults>>

\* swapToPAW adds the event to the operations queue, or fails unheard.
AddSwap(e) ==
  /\ e \in handed
  /\ handed' = handed \ {e}
  /\ \/ queued' = queued \cup {e} /\ UNCHANGED <<lost, faults>>
     \/ Fault("redisError") /\ lost' = lost \cup {e} /\ UNCHANGED queued
  /\ UNCHANGED <<height, latest, saves, job, worker, scanned>>

PromoteJob ==
  /\ \E j \in ScanJobs : Promote(j)
  /\ UNCHANGED <<height, latest, saves, worker, scanned, handed, queued, lost, faults>>

Attended(j) == worker.at = "slice" /\ worker.id = j

StallJob ==
  /\ \E j \in ScanJobs : ~Attended(j) /\ Stall(j)
  /\ UNCHANGED <<height, latest, saves, worker, scanned, handed, queued, lost, faults>>

Restart ==
  /\ Fault("crash")
  /\ worker' = Idle /\ saves' = <<>>
  /\ handed' = {} /\ lost' = lost \cup handed
  /\ UNCHANGED <<height, latest, job, scanned, queued>>

ScanNext ==
  \/ ReadLatest \/ QueueScan
  \/ \E j \in ScanJobs : Start(j)
  \/ ProcessSlice \/ SliceThrows \/ SliceFails \/ Finish
  \/ SetLatest \/ SaveFails
  \/ BlockArrives
  \/ \E e \in Events : Listen(e) \/ AddSwap(e)
  \/ PromoteJob \/ StallJob \/ Restart

ScanSpec == ScanInit /\ [][ScanNext]_scanVars

-----------------------------------------------------------------------------
(***************************************************************************)
(* Properties.                                                             *)
(***************************************************************************)
\* Every variable has its type.
ScanTypeOK ==
  /\ height \in FirstHeight..MaxHeight
  /\ latest \in StartFrom..MaxHeight
  /\ saves \in Seq([block : StartFrom + 1..MaxHeight, seen : StartFrom..MaxHeight])
  /\ JobTypeOK
  /\ worker \in {Idle} \cup [at : {"repeat"}, latest : StartFrom..MaxHeight]
                 \cup [at : {"slice"}, id : ScanJobs, from : Int, to : Int, left : Int]
  /\ scanned \subseteq StartFrom + 1..MaxHeight
  /\ handed \subseteq Events /\ queued \subseteq Events /\ lost \subseteq Events
  /\ faults \in 0..MaxFaults

(***************************************************************************)
(* No block is skipped: every block up to the one recorded as the last     *)
(* processed was queried, whatever jobs fail, are repeated, or overlap,    *)
(* and though the record is read and set by calls nobody waits for.        *)
(***************************************************************************)
Covered(n) == \A b \in StartFrom + 1..n : b \in scanned

NoBlockSkipped == Covered(latest)

(***************************************************************************)
(* A job that completed went through all of its blocks, with queries that  *)
(* stay inside them and are no longer than a slice.                        *)
(***************************************************************************)
RangeIsSliced ==
  /\ \A j \in ScanJobs :
        job[j].state = "completed" => \A b \in j.from..BlockTo(j) : b \in scanned
  /\ worker.at = "slice" /\ worker.left > 0 =>
        /\ worker.from <= worker.to /\ worker.to <= BlockTo(worker.id)
        /\ worker.to - worker.from < Slice

(***************************************************************************)
(* An event at or below the last block is queued, or about to be, or its   *)
(* add to the operations queue failed, which nobody notices: nothing else  *)
(* that fails loses it, and a malformed one stays above the last block.    *)
(***************************************************************************)
EventsAreHanded == \A e \in Events : e.block <= latest => e \in handed \cup queued \cup lost

-----------------------------------------------------------------------------
(***************************************************************************)
(* Fairness: the blockchain grows; the scheduler repeats its job and the   *)
(* worker takes jobs in turn, neither of which can overtake the other for  *)
(* ever; what is under way goes on.  Nothing is assumed of the             *)
(* subscription.                                                           *)
(***************************************************************************)
ScanFairness ==
  /\ WF_scanVars(BlockArrives)
  /\ SF_scanVars(ReadLatest) /\ SF_scanVars(\E j \in ScanJobs : Start(j))
  /\ WF_scanVars(QueueScan \/ ProcessSlice \/ SliceThrows \/ Finish)
  /\ WF_scanVars(SetLatest)
  /\ WF_scanVars(\E e \in Events : AddSwap(e))
  /\ WF_scanVars(PromoteJob) /\ WF_scanVars(StallJob)

(***************************************************************************)
(* Every event on the blockchain gets to the operations queue, unless its  *)
(* add fails: the jobs that fail for good, the saves that fail and the     *)
(* crashes only put it off, until the blockchain has grown.  The scan      *)
(* never gets past the slice of a malformed event: what is said is said of *)
(* events no later than the first of these.                                *)
(***************************************************************************)
NotBehindMalformed == {e \in Events \ Malformed : \A m \in Malformed : e.block <= m.block}

EventsAreQueued == \A e \in NotBehindMalformed : e.block <= height ~> e \in queued \cup lost
=============================================================================
