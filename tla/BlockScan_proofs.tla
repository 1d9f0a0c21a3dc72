---------------------------- MODULE BlockScan_proofs ----------------------------
(***************************************************************************)
(* That the scan skips no block, for slices and windows of every size.     *)
(*                                                                         *)
(* Covered(n) only grows.  It holds for the last block on record, for what *)
(* every save under way is about to record, for the block before every     *)
(* queued job, and for the block before the slice the worker is at: each   *)
(* is where the next comes from.                                           *)
(***************************************************************************)
EXTENDS BlockScan, TLAPS

\* The job the worker is at is active, and one that has not failed has attempts left.
JobsLive ==
  /\ worker.at = "slice" => job[worker.id].state = "active"
  /\ \A j \in ScanJobs : job[j].state # "failed" =>
        job[j].tries < MaxAttempts /\ job[j].stalls <= MaxStalled

\* The slice is the next of its job's range, and what is left is what it takes.
SliceFits ==
  worker.at = "slice" =>
    /\ worker.from >= worker.id.from
    /\ worker.to = Least(worker.from + Slice - 1, BlockTo(worker.id))
    /\ (worker.left - 1) * Slice <= BlockTo(worker.id) - worker.from
    /\ BlockTo(worker.id) - worker.from < worker.left * Slice

AllCovered ==
  /\ Covered(latest)
  /\ \A i \in DOMAIN saves : Covered(saves[i].block)
  /\ \A j \in ScanJobs : job[j].state # "none" => Covered(j.from - 1)
  /\ \A j \in ScanJobs : job[j].state = "completed" => Covered(BlockTo(j))
  /\ worker.at = "repeat" => Covered(worker.latest)
  /\ worker.at = "slice" => Covered(worker.from - 1)

ScanInv == ScanTypeOK /\ JobsLive /\ SliceFits /\ AllCovered

\* A fault is counted.
LEMMA FaultsBounded ==
  ASSUME faults \in 0..MaxFaults, NEW kind, Fault(kind)
  PROVE  faults' \in 0..MaxFaults
BY HeightAssumption DEF Fault

\* What \div rounds to.
LEMMA DivBounds ==
  ASSUME NEW n \in Int, NEW d \in Nat \ {0}
  PROVE  /\ n \div d \in Int
         /\ (n \div d) * d <= n
         /\ n < (n \div d + 1) * d
BY SMT

\* The range of a job ends at the height it was queued at, or before.
LEMMA RangeFacts ==
  ASSUME NEW j \in ScanJobs
  PROVE  /\ j.from \in Int /\ j.from > StartFrom /\ BlockTo(j) \in Int
         /\ BlockTo(j) <= MaxHeight
BY SliceAssumption, HeightAssumption DEF ScanJobs, BlockTo, Least

\* A slice the worker is about to query lies in its job's range and is no longer than Slice.
LEMMA SliceBounds ==
  ASSUME ScanTypeOK, SliceFits, worker.at = "slice", worker.left > 0
  PROVE  /\ worker.from <= worker.to /\ worker.to <= BlockTo(worker.id)
         /\ worker.to - worker.from < Slice
         /\ worker.from > StartFrom /\ worker.to <= MaxHeight
<1>1. /\ worker.id \in ScanJobs /\ worker.from \in Int /\ worker.to \in Int /\ worker.left \in Int
  BY DEF ScanTypeOK, Idle
<1>2. BlockTo(worker.id) \in Int /\ BlockTo(worker.id) <= MaxHeight /\ worker.id.from > StartFrom
        /\ worker.id.from \in Int
  BY <1>1, RangeFacts
<1>3. worker.left - 1 >= 0 => (worker.left - 1) * Slice >= 0
  BY <1>1, SliceAssumption, SMT
<1>4. worker.from <= BlockTo(worker.id)
  BY <1>1, <1>2, <1>3, SliceAssumption DEF SliceFits
<1> QED
  BY <1>1, <1>2, <1>4, SliceAssumption, HeightAssumption DEF SliceFits, Least

-----------------------------------------------------------------------------
(***************************************************************************)
(* Where the worker goes: into the first slice of a job, and on to the     *)
(* next slice behind one that was queried.                                 *)
(***************************************************************************)
Slices == [at : {"slice"}, id : ScanJobs, from : Int, to : Int, left : Int]

LEMMA FirstSliceFits ==
  ASSUME NEW j \in ScanJobs, worker' = FirstSlice(j)
  PROVE  worker' \in Slices /\ SliceFits'
<1>1. j.from \in Int /\ BlockTo(j) \in Int
  BY RangeFacts
<1>2. BlockTo(j) - j.from \in Int
  BY <1>1
<1> DEFINE q == (BlockTo(j) - j.from) \div Slice
<1>3. q \in Int /\ q * Slice <= BlockTo(j) - j.from /\ BlockTo(j) - j.from < (q + 1) * Slice
  BY <1>2, DivBounds, SliceAssumption
<1>4. /\ worker'.at = "slice" /\ worker'.id = j /\ worker'.from = j.from
      /\ worker'.to = Least(j.from + Slice - 1, BlockTo(j)) /\ worker'.left = q + 1
      /\ worker' = [at |-> "slice", id |-> j, from |-> j.from,
                    to |-> Least(j.from + Slice - 1, BlockTo(j)), left |-> q + 1]
  BY DEF FirstSlice, NumberOfSlices
<1>5. Least(j.from + Slice - 1, BlockTo(j)) \in Int
  BY <1>1, SliceAssumption DEF Least
<1> HIDE DEF q
<1>6. worker' \in Slices
  BY <1>1, <1>3, <1>4, <1>5 DEF Slices
<1>7. (q + 1) - 1 = q
  BY <1>3
<1>8. SliceFits'
  BY <1>1, <1>3, <1>4, <1>7 DEF SliceFits, BlockTo
<1> QED
  BY <1>6, <1>8

LEMMA NextSliceFits ==
  ASSUME ScanTypeOK, SliceFits, worker.at = "slice", worker.left > 0,
         worker' = NextSlice(worker)
  PROVE  worker' \in Slices /\ SliceFits' /\ worker'.from = worker.to + 1
<1>1. /\ worker \in Slices
      /\ worker.id \in ScanJobs /\ worker.from \in Int /\ worker.to \in Int /\ worker.left \in Int
  BY DEF ScanTypeOK, Idle, Slices
<1>2. BlockTo(worker.id) \in Int /\ worker.id.from \in Int
  BY <1>1, RangeFacts
<1>3. worker.from <= worker.to /\ worker.to <= BlockTo(worker.id)
  BY SliceBounds
<1> DEFINE last == BlockTo(worker.id)
           from == worker.from + (worker.to - worker.from + 1)
           to   == worker.to + Least(Slice, last - from + 1)
<1>4. from = worker.to + 1
  BY <1>1
<1>5. /\ worker'.at = "slice" /\ worker'.id = worker.id /\ worker'.from = from
      /\ worker'.to = to /\ worker'.left = worker.left - 1
      /\ worker' = [at |-> "slice", id |-> worker.id, from |-> from, to |-> to,
                    left |-> worker.left - 1]
  BY <1>1 DEF NextSlice, Slices
<1>6. to = Least(from + Slice - 1, last) /\ to \in Int
  BY <1>1, <1>2, <1>4, SliceAssumption DEF Least
<1>7. /\ (worker.left - 1 - 1) * Slice = (worker.left - 1) * Slice - Slice
      /\ worker.left * Slice = (worker.left - 1) * Slice + Slice
      /\ (worker.left - 1) * Slice \in Int /\ (worker.left - 1) * Slice >= 0
  BY <1>1, SliceAssumption, SMT
<1>8. worker.left - 1 >= 1 => (worker.left - 1) * Slice >= Slice
  BY <1>1, SliceAssumption, SMT
<1>9. worker.left - 1 = 0 => (worker.left - 1) * Slice = 0
  BY <1>1, SliceAssumption, SMT
<1>10. /\ (worker.left - 1 - 1) * Slice <= last - from
       /\ last - from < (worker.left - 1) * Slice
  <2>1. CASE worker.to = worker.from + Slice - 1
    BY <2>1, <1>1, <1>2, <1>4, <1>7, SliceAssumption DEF SliceFits
  <2>2. CASE worker.to # worker.from + Slice - 1
    <3>1. worker.to = last /\ last - worker.from < Slice - 1
      BY <2>2, <1>1, <1>2, SliceAssumption DEF SliceFits, Least
    <3>2. last - from = -1
      BY <3>1, <1>2, <1>4
    <3>3. (worker.left - 1) * Slice <= last - worker.from
      BY DEF SliceFits
    <3>4. (worker.left - 1) * Slice < Slice
      BY <3>1, <3>3, <1>1, <1>2, <1>7, SliceAssumption
    <3>5. (worker.left - 1) * Slice = 0
      BY <3>4, <1>1, <1>7, <1>8, <1>9, SliceAssumption
    <3> QED
      BY <3>2, <3>5, <1>7, SliceAssumption
  <2> QED
    BY <2>1, <2>2
<1>11. from >= worker.id.from
  BY <1>1, <1>2, <1>3, <1>4 DEF SliceFits
<1> HIDE DEF from, to
<1>12. SliceFits'
  BY <1>5, <1>6, <1>10, <1>11 DEF SliceFits, BlockTo
<1>13. worker' \in Slices
  BY <1>1, <1>4, <1>5, <1>6 DEF Slices
<1> QED
  BY <1>4, <1>5, <1>12, <1>13

-----------------------------------------------------------------------------
(***************************************************************************)
(* What each change of a job's record leaves of the records' types and of  *)
(* their bounds.                                                           *)
(***************************************************************************)
JobsOK == JobTypeOK /\ \A j \in ScanJobs : job[j].state # "failed" =>
                          job[j].tries < MaxAttempts /\ job[j].stalls <= MaxStalled

\* Only the record of j changes.
OnlyJob(j) == \A i \in ScanJobs : i # j => job'[i] = job[i]

LEMMA MoveKeeps ==
  ASSUME JobsOK, NEW j \in ScanJobs, NEW where \in JobStates,
         job[j].state # "failed", where # "failed", Move(j, where)
  PROVE  JobsOK' /\ OnlyJob(j) /\ job'[j].state = where
BY DEF JobsOK, JobTypeOK, JobStates, OnlyJob, Move, MaxAttempts, MaxStalled

LEMMA AddKeeps ==
  ASSUME JobsOK, NEW j \in ScanJobs, Add(j, "waiting")
  PROVE  JobsOK' /\ OnlyJob(j) /\ job'[j].state \in {job[j].state, "waiting"}
BY DEF JobsOK, JobTypeOK, JobStates, OnlyJob, Add, NoJob, MaxAttempts, MaxStalled

LEMMA FailKeeps ==
  ASSUME JobsOK, NEW j \in ScanJobs, job[j].state = "active", Fail(j)
  PROVE  JobsOK' /\ OnlyJob(j) /\ job'[j].state \in {"delayed", "failed"}
<1> DEFINE tries  == job[j].tries + 1
           record == IF tries < MaxAttempts
                       THEN [job[j] EXCEPT !.state = "delayed", !.tries = tries]
                       ELSE [job[j] EXCEPT !.state = "failed", !.tries = tries]
           Records == [state : JobStates, tries : 0..MaxAttempts, stalls : 0..MaxStalled + 1]
<1>1. job' = [job EXCEPT ![j] = record]
  BY DEF Fail
<1>2. job \in [ScanJobs -> Records] /\ job[j] \in Records
  BY DEF JobsOK, JobTypeOK
<1>3. job[j].tries \in 0..MaxAttempts /\ job[j].tries < MaxAttempts /\ job[j].stalls <= MaxStalled
  BY <1>2 DEF JobsOK
<1>4. tries \in 0..MaxAttempts
  BY <1>3 DEF MaxAttempts
<1>5. /\ record \in Records /\ record.state \in {"delayed", "failed"}
      /\ record.state # "failed" => record.tries < MaxAttempts /\ record.stalls <= MaxStalled
  BY <1>2, <1>3, <1>4 DEF JobStates
<1> HIDE DEF record
<1> QED
  BY <1>1, <1>2, <1>5 DEF JobsOK, JobTypeOK, OnlyJob

LEMMA StallKeeps ==
  ASSUME JobsOK, NEW j \in ScanJobs, Stall(j)
  PROVE  /\ JobsOK' /\ OnlyJob(j) /\ job[j].state = "active"
         /\ job'[j].state \in {"waiting", "failed"}
BY DEF JobsOK, JobTypeOK, JobStates, OnlyJob, Stall, NoJob, MaxAttempts, MaxStalled

-----------------------------------------------------------------------------
(***************************************************************************)
(* The invariant holds at the start.                                       *)
(***************************************************************************)
LEMMA ScanInvInit == ScanInit => ScanInv
<1> SUFFICES ASSUME ScanInit PROVE ScanInv
  OBVIOUS
<1>1. ScanTypeOK
  BY HeightAssumption DEF ScanInit, ScanTypeOK, QueueInit, JobTypeOK, JobStates, NoJob, Idle,
                          MaxAttempts, MaxStalled
<1>2. JobsLive /\ SliceFits
  BY DEF ScanInit, QueueInit, NoJob, Idle, JobsLive, SliceFits, MaxAttempts, MaxStalled
<1>3. AllCovered
  BY HeightAssumption DEF ScanInit, QueueInit, NoJob, Idle, AllCovered, Covered
<1> QED
  BY <1>1, <1>2, <1>3 DEF ScanInv

-----------------------------------------------------------------------------
(***************************************************************************)
(* A step of the queue that leaves the worker where it is.                 *)
(***************************************************************************)
LEMMA QueueStep ==
  ASSUME ScanInv, NEW j \in ScanJobs, JobsOK', OnlyJob(j), ~Attended(j),
         UNCHANGED <<height, latest, saves, worker, scanned, handed, queued, lost, faults>>,
         job[j].state # "none", job'[j].state \notin {"none", "completed"}
  PROVE  ScanInv'
<1>1. ScanTypeOK'
  BY DEF ScanInv, ScanTypeOK, JobsOK, JobTypeOK
<1>2. JobsLive'
  BY DEF ScanInv, ScanTypeOK, JobsLive, JobsOK, OnlyJob, Attended, Idle
<1>3. SliceFits'
  BY DEF ScanInv, SliceFits, BlockTo
<1>4. AllCovered'
  BY DEF ScanInv, AllCovered, Covered, OnlyJob, BlockTo
<1> QED
  BY <1>1, <1>2, <1>3, <1>4 DEF ScanInv

LEMMA InvJobs == ScanInv => JobsOK
BY DEF ScanInv, ScanTypeOK, JobsLive, JobsOK

(***************************************************************************)
(* A step that ends with an idle worker and moves only the record of the   *)
(* job it was at.                                                          *)
(***************************************************************************)
LEMMA WorkerLeaves ==
  ASSUME ScanInv, NEW j \in ScanJobs, JobsOK', OnlyJob(j), worker' = Idle,
         UNCHANGED <<height, latest, saves, scanned, queued, lost>>, handed' \subseteq Events,
         faults' \in 0..MaxFaults,
         job[j].state # "none",
         job'[j].state = "completed" => Covered(BlockTo(j))
  PROVE  ScanInv'
<1>1. ScanTypeOK'
  BY DEF ScanInv, ScanTypeOK, JobsOK, JobTypeOK
<1>2. JobsLive' /\ SliceFits'
  BY DEF JobsLive, JobsOK, SliceFits, Idle
<1>3. AllCovered'
  BY DEF ScanInv, AllCovered, Covered, OnlyJob, BlockTo, Idle
<1> QED
  BY <1>1, <1>2, <1>3 DEF ScanInv

-----------------------------------------------------------------------------
(***************************************************************************)
(* A slice is queried, and the worker moves on behind it.                  *)
(***************************************************************************)
SaveRecords == [block : StartFrom + 1..MaxHeight, seen : StartFrom..MaxHeight]

LEMMA SliceStep == ScanInv /\ ProcessSlice => ScanInv'
<1> SUFFICES ASSUME ScanInv, ProcessSlice PROVE ScanInv'
  OBVIOUS
<1>1. ScanTypeOK /\ SliceFits /\ worker.at = "slice" /\ worker.left > 0
  BY DEF ScanInv, ProcessSlice, HandOver
<1>2. /\ worker.id \in ScanJobs /\ worker.from \in Int /\ worker.to \in Int
      /\ worker.at = "slice"
  BY <1>1 DEF ScanTypeOK, Idle
<1>3. /\ worker.from <= worker.to /\ worker.from > StartFrom /\ worker.to <= MaxHeight
      /\ worker.to \in StartFrom + 1..MaxHeight
  BY <1>1, <1>2, SliceBounds, HeightAssumption
<1>4. worker' \in Slices /\ SliceFits' /\ worker'.from = worker.to + 1
  BY <1>1, NextSliceFits DEF ProcessSlice
<1>5. worker'.at = "slice" /\ worker'.id = worker.id
  BY <1>1, <1>4 DEF ProcessSlice, NextSlice, ScanTypeOK, Idle, Slices
<1>6. /\ saves \in Seq(SaveRecords)
      /\ saves' = Append(saves, [block |-> worker.to, seen |-> latest])
      /\ [block |-> worker.to, seen |-> latest] \in SaveRecords
  BY <1>1, <1>3 DEF ProcessSlice, Save, ScanTypeOK, SaveRecords
<1>7. /\ saves' \in Seq(SaveRecords) /\ Len(saves') = Len(saves) + 1 /\ Len(saves) \in Nat
      /\ DOMAIN saves = 1..Len(saves) /\ DOMAIN saves' = 1..Len(saves')
      /\ \A i \in 1..Len(saves) : saves'[i] = saves[i]
      /\ saves'[Len(saves) + 1].block = worker.to
  BY <1>6
<1>8. ScanTypeOK'
  <2>1. scanned' \subseteq StartFrom + 1..MaxHeight
    BY <1>1, <1>2, <1>3, HeightAssumption DEF ScanTypeOK, ProcessSlice
  <2>2. handed' \subseteq Events
    BY <1>1 DEF ScanTypeOK, ProcessSlice, HandOver, Found
  <2> QED
    BY <1>1, <1>4, <1>7, <2>1, <2>2 DEF ScanTypeOK, ProcessSlice, Slices, SaveRecords, JobTypeOK
<1>9. JobsLive'
  BY <1>1, <1>5 DEF ScanInv, JobsLive, ProcessSlice
<1>10. /\ \A n \in Int : Covered(n) => \A b \in StartFrom + 1..n : b \in scanned'
       /\ \A b \in StartFrom + 1..worker.to : b \in scanned'
  BY <1>1, <1>2, <1>3, HeightAssumption DEF ScanInv, AllCovered, Covered, ProcessSlice
<1>11. AllCovered'
  <2>1. Covered(latest)'
    BY <1>1, <1>10 DEF ScanInv, AllCovered, Covered, ProcessSlice, ScanTypeOK
  <2>2. \A i \in DOMAIN saves' : \A b \in StartFrom + 1..saves'[i].block : b \in scanned'
    BY <1>7, <1>10 DEF ScanInv, AllCovered, Covered, ProcessSlice
  <2>3. \A j \in ScanJobs : /\ job'[j].state # "none" => Covered(j.from - 1)'
                            /\ job'[j].state = "completed" => Covered(BlockTo(j))'
    BY DEF ScanInv, AllCovered, Covered, ProcessSlice, BlockTo
  <2>4. worker'.from - 1 = worker.to
    BY <1>2, <1>4
  <2> QED
    BY <1>5, <1>10, <2>1, <2>2, <2>3, <2>4 DEF AllCovered, Covered
<1> QED
  BY <1>4, <1>8, <1>9, <1>11 DEF ScanInv

(***************************************************************************)
(* A save is answered, and sets the last block or not.                     *)
(***************************************************************************)
LEMMA SaveStep == ScanInv /\ (SetLatest \/ SaveFails) => ScanInv'
<1> SUFFICES ASSUME ScanInv, SetLatest \/ SaveFails PROVE ScanInv'
  OBVIOUS
<1>1. /\ saves \in Seq(SaveRecords) /\ saves # <<>> /\ saves' = Tail(saves)
      /\ UNCHANGED <<height, job, worker, scanned, handed, queued, lost>>
  BY DEF ScanInv, ScanTypeOK, SaveRecords, SetLatest, SaveFails
<1>2. /\ saves' \in Seq(SaveRecords) /\ Len(saves) \in Nat \ {0}
      /\ DOMAIN saves = 1..Len(saves) /\ DOMAIN saves' = 1..Len(saves) - 1
      /\ \A i \in 1..Len(saves) - 1 : saves'[i] = saves[i + 1] /\ i + 1 \in DOMAIN saves
      /\ Head(saves) = saves[1] /\ 1 \in DOMAIN saves /\ Head(saves) \in SaveRecords
  BY <1>1
<1>3. latest' \in {latest, Head(saves).block}
  BY DEF SetLatest, SaveFails
<1>4. ScanTypeOK'
  <2>1. faults' \in 0..MaxFaults
    BY FaultsBounded DEF ScanInv, ScanTypeOK, SetLatest, SaveFails
  <2>2. latest' \in StartFrom..MaxHeight
    BY <1>2, <1>3, HeightAssumption DEF ScanInv, ScanTypeOK, SaveRecords
  <2> QED
    BY <1>1, <1>2, <2>1, <2>2 DEF ScanInv, ScanTypeOK, JobTypeOK, SaveRecords
<1>5. JobsLive' /\ SliceFits'
  BY <1>1 DEF ScanInv, JobsLive, SliceFits, BlockTo
<1>6. AllCovered'
  <2>1. Covered(latest)'
    BY <1>1, <1>2, <1>3 DEF ScanInv, AllCovered, Covered
  <2>2. (\A i \in DOMAIN saves : Covered(saves[i].block))'
    BY <1>1, <1>2 DEF ScanInv, AllCovered, Covered
  <2> QED
    BY <1>1, <2>1, <2>2 DEF ScanInv, AllCovered, Covered, BlockTo
<1> QED
  BY <1>4, <1>5, <1>6 DEF ScanInv

-----------------------------------------------------------------------------
(***************************************************************************)
(* Every step preserves the invariant.                                     *)
(***************************************************************************)
LEMMA ScanInvStep == ScanInv /\ [ScanNext]_scanVars => ScanInv'
<1> SUFFICES ASSUME ScanInv, [ScanNext]_scanVars PROVE ScanInv'
  OBVIOUS
<1>0. ScanTypeOK /\ JobsLive /\ SliceFits /\ AllCovered /\ JobsOK
  BY InvJobs DEF ScanInv
<1>1. CASE ReadLatest
  <2>1. ScanTypeOK'
    BY <1>0, <1>1 DEF ReadLatest, ScanTypeOK, JobTypeOK
  <2>2. JobsLive' /\ SliceFits' /\ AllCovered'
    BY <1>0, <1>1 DEF ReadLatest, JobsLive, SliceFits, AllCovered, Covered, BlockTo
  <2> QED
    BY <2>1, <2>2 DEF ScanInv
<1>2. CASE QueueScan
  <2> DEFINE j == [from |-> worker.latest + 1, height |-> height]
  <2>1. /\ j \in ScanJobs /\ j.from - 1 = worker.latest /\ Covered(worker.latest)
        /\ worker' = Idle
        /\ UNCHANGED <<height, latest, saves, scanned, handed, queued, lost>>
    BY <1>0, <1>2, HeightAssumption DEF QueueScan, ScanTypeOK, Idle, ScanJobs, AllCovered
  <2>2. JobsOK' /\ OnlyJob(j) /\ (job'[j].state = job[j].state \/ job'[j].state = "waiting")
    <3>1. CASE Add(j, "waiting")
      BY <3>1, <2>1, <1>0, AddKeeps
    <3>2. CASE UNCHANGED job
      BY <3>2, <1>0 DEF JobsOK, JobTypeOK, OnlyJob
    <3> QED
      BY <3>1, <3>2, <1>2 DEF QueueScan
  <2> HIDE DEF j
  <2>3. ScanTypeOK'
    <3>1. faults' \in 0..MaxFaults
      BY <1>0, <1>2, FaultsBounded DEF QueueScan, ScanTypeOK
    <3> QED
      BY <1>0, <2>1, <2>2, <3>1 DEF ScanTypeOK, JobsOK, JobTypeOK
  <2>4. JobsLive' /\ SliceFits'
    BY <2>1, <2>2 DEF JobsLive, JobsOK, SliceFits, Idle
  <2>5. AllCovered'
    BY <1>0, <2>1, <2>2 DEF AllCovered, Covered, OnlyJob, BlockTo, Idle
  <2> QED
    BY <2>3, <2>4, <2>5 DEF ScanInv
<1>3. ASSUME NEW j \in ScanJobs, Start(j) PROVE ScanInv'
  <2>1. JobsOK' /\ OnlyJob(j) /\ job'[j].state = "active" /\ job[j].state = "waiting"
    BY <1>0, <1>3, MoveKeeps DEF Start, Take, JobStates
  <2>2. worker' \in Slices /\ SliceFits' /\ worker'.at = "slice" /\ worker'.id = j
          /\ worker'.from = j.from
    BY <1>3, FirstSliceFits DEF Start, FirstSlice
  <2>3. ScanTypeOK'
    BY <1>0, <1>3, <2>1, <2>2 DEF Start, ScanTypeOK, JobsOK, JobTypeOK, Slices
  <2>4. JobsLive'
    BY <2>1, <2>2 DEF JobsLive, JobsOK
  <2>5. AllCovered'
    BY <1>0, <1>3, <2>1, <2>2 DEF Start, AllCovered, Covered, OnlyJob, BlockTo
  <2> QED
    BY <2>2, <2>3, <2>4, <2>5 DEF ScanInv
<1>4. CASE ProcessSlice
  BY <1>4, SliceStep
<1>5. CASE SliceFails
  <2>1. worker.id \in ScanJobs /\ job[worker.id].state = "active"
    BY <1>0, <1>5 DEF SliceFails, ScanTypeOK, JobsLive, Idle
  <2>2. JobsOK' /\ OnlyJob(worker.id) /\ job'[worker.id].state \in {"delayed", "failed"}
    BY <1>0, <1>5, <2>1, FailKeeps DEF SliceFails
  <2>3. faults' \in 0..MaxFaults
    BY <1>0, <1>5, FaultsBounded DEF SliceFails, ScanTypeOK
  <2> QED
    BY <1>0, <1>5, <2>1, <2>2, <2>3, WorkerLeaves DEF SliceFails, ScanTypeOK
<1>14. CASE SliceThrows
  <2>1. worker.id \in ScanJobs /\ job[worker.id].state = "active" /\ handed' \subseteq Events
    BY <1>0, <1>14 DEF SliceThrows, HandOver, Found, ScanTypeOK, JobsLive, Idle
  <2>2. JobsOK' /\ OnlyJob(worker.id) /\ job'[worker.id].state \in {"delayed", "failed"}
    BY <1>0, <1>14, <2>1, FailKeeps DEF SliceThrows
  <2>3. faults' \in 0..MaxFaults
    BY <1>0, <1>14 DEF SliceThrows, ScanTypeOK
  <2> QED
    BY <1>14, <2>1, <2>2, <2>3, WorkerLeaves DEF SliceThrows
<1>6. CASE Finish
  <2>1. /\ worker.id \in ScanJobs /\ worker.from \in Int /\ worker.left \in Int
        /\ job[worker.id].state = "active" /\ worker.at = "slice" /\ worker.left <= 0
    BY <1>0, <1>6 DEF Finish, ScanTypeOK, JobsLive, Idle
  <2>2. JobsOK' /\ OnlyJob(worker.id)
    BY <1>0, <1>6, <2>1, MoveKeeps DEF Finish, Complete, JobStates
  <2>3. worker.left * Slice <= 0
    BY <2>1, SliceAssumption, SMT
  <2>4. worker.left * Slice \in Int
    BY <2>1, SliceAssumption, SMT
  <2>5. BlockTo(worker.id) \in Int /\ BlockTo(worker.id) < worker.from
    BY <1>0, <2>1, <2>3, <2>4, RangeFacts DEF SliceFits
  <2>6. Covered(BlockTo(worker.id))
    BY <1>0, <2>1, <2>5, HeightAssumption DEF AllCovered, Covered
  <2>7. faults' \in 0..MaxFaults
    BY <1>0, <1>6 DEF Finish, ScanTypeOK
  <2> QED
    BY <1>0, <1>6, <2>1, <2>2, <2>6, <2>7, WorkerLeaves DEF Finish, ScanTypeOK
<1>7. CASE SetLatest \/ SaveFails
  BY <1>7, SaveStep
<1>8. CASE BlockArrives
  <2>1. ScanTypeOK'
    BY <1>0, <1>8, HeightAssumption DEF BlockArrives, ScanTypeOK, JobTypeOK
  <2>2. JobsLive' /\ SliceFits' /\ AllCovered'
    BY <1>0, <1>8 DEF BlockArrives, JobsLive, SliceFits, AllCovered, Covered, BlockTo
  <2> QED
    BY <2>1, <2>2 DEF ScanInv
<1>9. ASSUME NEW e \in Events, Listen(e) \/ AddSwap(e) PROVE ScanInv'
  <2>1. ScanTypeOK'
    <3>1. faults' \in 0..MaxFaults
      BY <1>0, <1>9, FaultsBounded DEF Listen, AddSwap, ScanTypeOK
    <3> QED
      BY <1>0, <1>9, <3>1 DEF Listen, AddSwap, ScanTypeOK, JobTypeOK
  <2>2. JobsLive' /\ SliceFits' /\ AllCovered'
    BY <1>0, <1>9 DEF Listen, AddSwap, JobsLive, SliceFits, AllCovered, Covered, BlockTo
  <2> QED
    BY <2>1, <2>2 DEF ScanInv
<1>10. CASE PromoteJob
  <2>1. PICK j \in ScanJobs : Promote(j)
    BY <1>10 DEF PromoteJob
  <2>2. /\ JobsOK' /\ OnlyJob(j) /\ job[j].state = "delayed" /\ job'[j].state = "waiting"
    BY <1>0, <2>1, MoveKeeps DEF Promote, JobStates
  <2>3. ~Attended(j)
    BY <1>0, <2>2 DEF JobsLive, Attended
  <2> QED
    BY <1>10, <2>2, <2>3, QueueStep DEF PromoteJob
<1>11. CASE StallJob
  <2>1. PICK j \in ScanJobs : ~Attended(j) /\ Stall(j)
    BY <1>11 DEF StallJob
  <2>2. /\ JobsOK' /\ OnlyJob(j) /\ job[j].state = "active"
        /\ job'[j].state \in {"waiting", "failed"}
    BY <1>0, <2>1, StallKeeps
  <2> QED
    BY <1>11, <2>1, <2>2, QueueStep DEF StallJob
<1>12. CASE Restart
  <2>1. ScanTypeOK'
    <3>1. faults' \in 0..MaxFaults
      BY <1>0, <1>12, FaultsBounded DEF Restart, ScanTypeOK
    <3> QED
      BY <1>0, <1>12, <3>1 DEF Restart, ScanTypeOK, JobTypeOK
  <2>2. JobsLive' /\ SliceFits' /\ AllCovered'
    BY <1>0, <1>12 DEF Restart, JobsLive, SliceFits, AllCovered, Covered, BlockTo, Idle
  <2> QED
    BY <2>1, <2>2 DEF ScanInv
<1>13. CASE UNCHANGED scanVars
  BY <1>0, <1>13 DEF scanVars, ScanInv, ScanTypeOK, JobTypeOK, JobsLive, SliceFits, AllCovered,
                     Covered, BlockTo
<1> QED
  BY <1>1, <1>2, <1>3, <1>4, <1>5, <1>6, <1>7, <1>8, <1>9, <1>10, <1>11, <1>12, <1>13,
     <1>14
  DEF ScanNext

LEMMA ScanInvariance == ScanSpec => []ScanInv
BY ScanInvInit, ScanInvStep, PTL DEF ScanSpec

-----------------------------------------------------------------------------
\* Every variable of the scan has its type, whatever fails.
THEOREM ScanTypeCorrect == ScanSpec => []ScanTypeOK
<1>1. ScanInv => ScanTypeOK
  BY DEF ScanInv
<1> QED
  BY <1>1, ScanInvariance, PTL

(***************************************************************************)
(* processBlocks and setLastBlockchainBlockProcessed: no block up to the   *)
(* one on record as the last processed was skipped, for every size of the  *)
(* slices and of the window, whatever fails and however the un-awaited     *)
(* saves of two jobs overlap.                                              *)
(***************************************************************************)
THEOREM ScanSkipsNothing == ScanSpec => []NoBlockSkipped
<1>1. ScanInv => NoBlockSkipped
  BY DEF ScanInv, AllCovered, NoBlockSkipped
<1> QED
  BY <1>1, ScanInvariance, PTL

(***************************************************************************)
(* processBlocks: the slices of a job lie inside its range, none is longer *)
(* than BLOCK_SLICE, and a job that completed has gone through all of it.  *)
(***************************************************************************)
THEOREM ScanSlicesRange == ScanSpec => []RangeIsSliced
<1>1. ScanInv => RangeIsSliced
  <2> SUFFICES ASSUME ScanInv PROVE RangeIsSliced
    OBVIOUS
  <2>1. \A j \in ScanJobs : job[j].state = "completed" =>
           \A b \in j.from..BlockTo(j) : b \in scanned
    BY RangeFacts, HeightAssumption DEF ScanInv, AllCovered, Covered
  <2>2. worker.at = "slice" /\ worker.left > 0 =>
          /\ worker.from <= worker.to /\ worker.to <= BlockTo(worker.id)
          /\ worker.to - worker.from < Slice
    BY SliceBounds DEF ScanInv
  <2> QED
    BY <2>1, <2>2 DEF RangeIsSliced
<1> QED
  BY <1>1, ScanInvariance, PTL

-----------------------------------------------------------------------------
(***************************************************************************)
(* The events.  One in a block that was gone through is in the hands of the*)
(* listener, or queued, or lost on the way between them, and a step moves  *)
(* it only from one of the three to another.                               *)
(***************************************************************************)
EventsSeen == \A e \in Events : e.block \in scanned => e \in handed \cup queued \cup lost

LEMMA EventsSeenStep == ScanTypeOK /\ EventsSeen /\ [ScanNext]_scanVars => EventsSeen'
<1> SUFFICES ASSUME ScanTypeOK, EventsSeen, [ScanNext]_scanVars PROVE EventsSeen'
  OBVIOUS
<1>1. CASE ProcessSlice
  <2>1. /\ scanned' = scanned \cup (worker.from..worker.to)
        /\ handed' = handed \cup Found(worker.from, worker.to)
        /\ UNCHANGED <<queued, lost>>
    BY <1>1 DEF ProcessSlice, HandOver, Throws, Found
  <2> QED
    BY <2>1 DEF EventsSeen, Found
<1>7. CASE SliceThrows
  BY <1>7 DEF SliceThrows, HandOver, EventsSeen
<1>2. ASSUME NEW e \in Events, AddSwap(e) PROVE EventsSeen'
  <2>1. /\ handed' = handed \ {e} /\ UNCHANGED scanned
        /\ \/ queued' = queued \cup {e} /\ UNCHANGED lost
           \/ lost' = lost \cup {e} /\ UNCHANGED queued
    BY <1>2 DEF AddSwap
  <2> QED
    BY <2>1 DEF EventsSeen
<1>3. ASSUME NEW e \in Events, Listen(e) PROVE EventsSeen'
  BY <1>3 DEF Listen, EventsSeen
<1>4. CASE Restart
  BY <1>4 DEF Restart, EventsSeen
<1>5. CASE \/ ReadLatest \/ QueueScan \/ SliceFails \/ Finish \/ SetLatest \/ SaveFails
           \/ BlockArrives \/ PromoteJob \/ StallJob \/ \E j \in ScanJobs : Start(j)
  <2>1. UNCHANGED <<scanned, handed, queued, lost>>
    BY <1>5 DEF ReadLatest, QueueScan, SliceFails, Finish, SetLatest, SaveFails, BlockArrives,
                PromoteJob, StallJob, Start
  <2> QED
    BY <2>1 DEF EventsSeen
<1>6. CASE UNCHANGED scanVars
  BY <1>6 DEF scanVars, EventsSeen
<1> QED
  BY <1>1, <1>2, <1>3, <1>4, <1>5, <1>6, <1>7 DEF ScanNext

(***************************************************************************)
(* processBlocksSlice and swapToPAW: an event at or below the block on     *)
(* record is queued, about to be, or was lost by the add nobody waits for, *)
(* for any set of events and any faults; so no malformed one is there.     *)
(***************************************************************************)
THEOREM ScanHandsEvents == ScanSpec => []EventsAreHanded
<1>1. ScanInit => EventsSeen
  BY DEF ScanInit, EventsSeen
<1>2. ScanInv /\ EventsSeen /\ [ScanNext]_scanVars => EventsSeen'
  BY EventsSeenStep DEF ScanInv
<1>3. ScanInv /\ EventsSeen => EventsAreHanded
  <2> SUFFICES ASSUME ScanInv, EventsSeen, NEW e \in Events, e.block <= latest
               PROVE  e \in handed \cup queued \cup lost
    BY DEF EventsAreHanded
  <2>1. e.block \in StartFrom + 1..latest
    BY HeightAssumption DEF ScanInv, ScanTypeOK
  <2>2. e.block \in scanned
    BY <2>1 DEF ScanInv, AllCovered, Covered
  <2> QED
    BY <2>2 DEF EventsSeen
<1> QED
  BY <1>1, <1>2, <1>3, ScanInvariance, PTL DEF ScanSpec
=============================================================================
