------------------------------ MODULE MCBlockScan ------------------------------
(***************************************************************************)
(* Instances of BlockScan for TLC: slices of two blocks, jobs of at most   *)
(* three, so that a job has up to two slices and the last may be short.    *)
(* The last block has a malformed event.                                   *)
(***************************************************************************)
EXTENDS BlockScan

MCGood == {[block |-> 3, hash |-> 1]}
MCBad  == {[block |-> 4, hash |-> 2]}
MCBoth == MCGood \cup MCBad

\* The last fault is one that makes a job fail for good, at once or when it is found stalled.
MCLastFault ==
  faults < MaxFaults /\ faults' = MaxFaults =>
    \E j \in ScanJobs : job[j].state = "active" /\
      \/ job'[j].state = "failed"
      \/ Attended(j) /\ worker' = Idle /\ job' = job /\ job[j].stalls >= MaxStalled

MCFairSpec == ScanInit /\ [][ScanNext /\ MCLastFault]_scanVars /\ ScanFairness
=============================================================================
