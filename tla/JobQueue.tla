------------------------------- MODULE JobQueue -------------------------------
(***************************************************************************)
(* The operations queue as RedisProcessingQueue configures BullMQ: three   *)
(* attempts with a backoff between them, records kept when a job is over   *)
(* (except a failed "pending-" one), and an add of an identifier whose     *)
(* record is still there does nothing.                                     *)
(*                                                                         *)
(* The order of waiting jobs and the length of a delay are left open.      *)
(***************************************************************************)
EXTENDS Integers

CONSTANTS
  JobIds,          \* identifiers of jobs
  RemovedOnFail    \* those added with removeOnFail

VARIABLE job       \* the record of every identifier

MaxAttempts == 3   \* attempts of the default job options
MaxStalled  == 1   \* times the scheduler puts a stalled job back

JobStates == {"none", "waiting", "delayed", "active", "completed", "failed"}

NoJob == [state |-> "none", tries |-> 0, stalls |-> 0]

JobTypeOK == job \in [JobIds -> [state : JobStates, tries : 0..MaxAttempts,
                                 stalls : 0..MaxStalled + 1]]

QueueInit == job = [j \in JobIds |-> NoJob]

Move(j, where) == job' = [job EXCEPT ![j].state = where]

\* Mutant of Add: a record that is over does not stop the add.
AddAgain(j, where) ==
  job' = [job EXCEPT ![j] = IF @.state \in {"none", "completed"}
                              THEN [NoJob EXCEPT !.state = where] ELSE @]

Add(j, where) ==
  job' = [job EXCEPT ![j] = IF @.state = "none" THEN [NoJob EXCEPT !.state = where] ELSE @]

Take(j) == job[j].state = "waiting" /\ Move(j, "active")

Complete(j) == Move(j, "completed")

\* Mutant of Fail: one attempt too many.
FailOneMore(j) ==
  LET tries == job[j].tries + 1 IN
  job' = [job EXCEPT ![j] =
            [@ EXCEPT !.state = IF tries <= MaxAttempts THEN "delayed" ELSE "failed",
                      !.tries = tries]]

\* The processor threw: another attempt after the backoff, or the end.
Fail(j) ==
  LET tries == job[j].tries + 1 IN
  job' = [job EXCEPT ![j] =
            IF tries < MaxAttempts    THEN [@ EXCEPT !.state = "delayed", !.tries = tries]
            ELSE IF j \in RemovedOnFail THEN NoJob
                                        ELSE [@ EXCEPT !.state = "failed", !.tries = tries]]

\* The backoff, or the delay the job was added with, is over.
Promote(j) == job[j].state = "delayed" /\ Move(j, "waiting")

\* Mutant of Stall: a stalled job is put back however often it stalled.
StallForever(j) ==
  /\ job[j].state = "active"
  /\ job' = [job EXCEPT ![j].stalls = @ + 1, ![j].state = "waiting"]

\* The scheduler finds an active job that no worker is renewing.
Stall(j) ==
  /\ job[j].state = "active"
  /\ job' = [job EXCEPT ![j].stalls = @ + 1,
                        ![j].state = IF job[j].stalls + 1 > MaxStalled THEN "failed" ELSE "waiting"]
=============================================================================
