-------------------------- MODULE EventStreams_proofs --------------------------
(***************************************************************************)
(* That the manager leaks no stream, that a lone one stays registered, and *)
(* that a result is told once, for all clients, wallets and jobs.          *)
(*                                                                         *)
(* Two streams of a wallet that are alive together have met: so the close  *)
(* of a stream cannot delete one that never met another.  A job that was   *)
(* told of is completed, and not about to be: its record stands in the way *)
(* of a second run.                                                        *)
(***************************************************************************)
EXTENDS EventStreams, TLAPS

\* A job the worker is at is active, a job it is about to report completed.
JobsLive ==
  /\ worker.at = "running" => job[worker.id].state = "active"
  /\ worker.at = "emit" => job[worker.id].state = "completed"
  /\ \A j \in Jobs : job[j].state # "failed" =>
        job[j].tries < MaxAttempts /\ job[j].stalls <= MaxStalled

Companions ==
  \A c, d \in Streams :
     c # d /\ Alive(c) /\ Alive(d) /\ stream[c].id = stream[d].id => stream[c].met

Registered ==
  /\ \A c \in Streams : Alive(c) => stream[c].id \in Ids
  /\ NoStreamLeaks /\ LoneStreamRegistered /\ Companions

About(j) == worker.at = "emit" /\ worker.id = j

HeardAreDone ==
  \A c \in Streams : \A m \in DOMAIN heard[c] :
     job[heard[c][m]].state = "completed" /\ ~About(heard[c][m])

NewHeardNothing == \A c \in Streams : stream[c].at = "new" => heard[c] = <<>>

StreamInv ==
  /\ StreamTypeOK /\ JobsLive /\ Registered
  /\ HeardAreDone /\ NewHeardNothing /\ ToldOnce

-----------------------------------------------------------------------------
(***************************************************************************)
(* The queue: each operation changes one record, and none that is over.    *)
(***************************************************************************)
JobsOK == JobTypeOK /\ \A j \in Jobs : job[j].state # "failed" =>
                         job[j].tries < MaxAttempts /\ job[j].stalls <= MaxStalled

OnlyJob(j) == \A i \in Jobs : i # j => job'[i] = job[i]

LEMMA MoveJob ==
  ASSUME JobsOK, NEW j \in Jobs, NEW where \in JobStates,
         job[j].state # "failed", Move(j, where)
  PROVE  JobsOK' /\ OnlyJob(j) /\ job'[j].state = where
BY DEF JobsOK, JobTypeOK, JobStates, OnlyJob, Move, MaxAttempts, MaxStalled

LEMMA AddOneJob ==
  ASSUME JobsOK, NEW j \in Jobs, Add(j, "waiting")
  PROVE  /\ JobsOK' /\ OnlyJob(j)
         /\ job[j].state # "none" => job' = job
BY DEF JobsOK, JobTypeOK, JobStates, OnlyJob, Add, NoJob, MaxAttempts, MaxStalled

LEMMA FailOneJob ==
  ASSUME JobsOK, NEW j \in Jobs, job[j].state = "active", Fail(j)
  PROVE  JobsOK' /\ OnlyJob(j)
<1> DEFINE tries == job[j].tries + 1
           next == IF tries < MaxAttempts THEN [job[j] EXCEPT !.state = "delayed", !.tries = tries]
                                          ELSE [job[j] EXCEPT !.state = "failed", !.tries = tries]
           Records == [state : JobStates, tries : 0..MaxAttempts, stalls : 0..MaxStalled + 1]
<1>1. job' = [job EXCEPT ![j] = next]
  BY DEF Fail
<1>2. job \in [Jobs -> Records] /\ job[j] \in Records
  BY DEF JobsOK, JobTypeOK
<1>3. job[j].tries < MaxAttempts /\ job[j].stalls <= MaxStalled
  BY DEF JobsOK
<1>4. tries \in 0..MaxAttempts /\ job[j].stalls \in 0..MaxStalled + 1
  BY <1>2, <1>3 DEF MaxAttempts, MaxStalled
<1>5. next \in Records /\ (next.state # "failed" =>
                             next.tries < MaxAttempts /\ next.stalls <= MaxStalled)
  BY <1>2, <1>3, <1>4 DEF JobStates
<1> HIDE DEF next
<1> QED
  BY <1>1, <1>2, <1>5 DEF JobsOK, JobTypeOK, OnlyJob

LEMMA StallOneJob ==
  ASSUME JobsOK, NEW j \in Jobs, Stall(j)
  PROVE  JobsOK' /\ OnlyJob(j) /\ job[j].state = "active"
BY DEF JobsOK, JobTypeOK, JobStates, OnlyJob, Stall, NoJob, MaxAttempts, MaxStalled

LEMMA InvJobs == StreamInv => JobsOK
BY DEF StreamInv, StreamTypeOK, JobsLive, JobsOK

-----------------------------------------------------------------------------
LEMMA StreamInitInv == StreamInit => StreamInv
<1> SUFFICES ASSUME StreamInit PROVE StreamInv
  OBVIOUS
<1>1. StreamTypeOK
  BY StreamsAssumption DEF StreamInit, StreamTypeOK, QueueInit, JobTypeOK, JobStates, NoJob, Idle,
     New, MaxAttempts, MaxStalled
<1>2. JobsLive
  BY DEF StreamInit, QueueInit, NoJob, Idle, JobsLive, MaxAttempts, MaxStalled
<1>3. \A c \in Streams : ~Alive(c)
  BY DEF StreamInit, New, Alive
<1>4. Registered
  BY <1>3 DEF StreamInit, Registered, NoStreamLeaks, LoneStreamRegistered, Lone, Companions
<1>5. HeardAreDone /\ NewHeardNothing /\ ToldOnce
  BY DEF StreamInit, HeardAreDone, NewHeardNothing, ToldOnce
<1> QED
  BY <1>1, <1>2, <1>4, <1>5 DEF StreamInv

-----------------------------------------------------------------------------
(***************************************************************************)
(* The manager's steps leave the queue alone.                              *)
(***************************************************************************)
LEMMA OpenInv ==
  ASSUME StreamInv, NEW c \in Streams, NEW id \in Ids, Open(c, id)
  PROVE  StreamInv'
<1> DEFINE opened == [id |-> id, at |-> "open", met |-> Beside(id) # {}]
<1>1. /\ stream[c].at = "new" /\ UNCHANGED <<job, adds, worker, heard>>
      /\ clients' = [clients EXCEPT ![id] = c]
      /\ stream' = [d \in Streams |->
                      IF d = c THEN opened
                      ELSE IF d \in Beside(id) THEN [stream[d] EXCEPT !.met = TRUE]
                      ELSE stream[d]]
  BY DEF Open, QueueSame
<1>2. /\ stream \in [Streams -> [id : Ids \cup {NoStream}, met : BOOLEAN,
                                 at : {"new", "open", "gone", "closed"}]]
      /\ clients \in [Ids -> Streams \cup {NoStream}]
  BY DEF StreamInv, StreamTypeOK
<1>3. /\ stream'[c].id = id /\ stream'[c].at = "open" /\ stream'[c].met = (Beside(id) # {})
      /\ \A d \in Streams \ {c} :
            /\ stream'[d].id = stream[d].id /\ stream'[d].at = stream[d].at
            /\ stream'[d].met = (d \in Beside(id) \/ stream[d].met)
  BY <1>1, <1>2
<1>4. stream' \in [Streams -> [id : Ids \cup {NoStream}, met : BOOLEAN,
                               at : {"new", "open", "gone", "closed"}]]
  BY <1>1, <1>2
<1>5. clients' \in [Ids -> Streams \cup {NoStream}]
  BY <1>1, <1>2
<1>6. StreamTypeOK' /\ JobsLive'
  BY <1>1, <1>4, <1>5 DEF StreamInv, StreamTypeOK, JobTypeOK, JobsLive
<1>7. Alive(c)' /\ ~Alive(c) /\ \A d \in Streams \ {c} : Alive(d)' <=> Alive(d)
  BY <1>1, <1>3 DEF Alive
<1>8. Registered'
  <2>1. \A d \in Streams : Alive(d)' => stream'[d].id \in Ids
    BY <1>3, <1>7 DEF StreamInv, Registered
  <2>2. NoStreamLeaks'
    BY <1>1, <1>2, <1>3, <1>7 DEF StreamInv, Registered, NoStreamLeaks, Beside
  <2>3. LoneStreamRegistered'
    BY <1>1, <1>2, <1>3, <1>7 DEF StreamInv, Registered, LoneStreamRegistered, Lone, Beside
  <2>4. Companions'
    <3> SUFFICES ASSUME NEW d \in Streams, NEW e \in Streams, d # e, Alive(d)', Alive(e)',
                        stream'[d].id = stream'[e].id
                 PROVE  stream'[d].met
      BY DEF Companions
    <3>1. CASE d = c
      <4>1. e \in Beside(id)
        BY <3>1, <1>3, <1>7 DEF Beside
      <4> QED
        BY <4>1, <3>1, <1>3
    <3>2. CASE e = c
      <4>1. d \in Beside(id)
        BY <3>2, <1>3, <1>7 DEF Beside
      <4> QED
        BY <4>1, <3>2, <1>3
    <3>3. CASE d # c /\ e # c
      <4>1. stream[d].met
        BY <3>3, <1>3, <1>7 DEF StreamInv, Registered, Companions
      <4> QED
        BY <4>1, <3>3, <1>3
    <3> QED
      BY <3>1, <3>2, <3>3
  <2> QED
    BY <2>1, <2>2, <2>3, <2>4 DEF Registered
<1>9. HeardAreDone' /\ NewHeardNothing'
  BY <1>1, <1>3 DEF StreamInv, HeardAreDone, NewHeardNothing, About
<1>10. heard[c] = <<>>
  BY <1>1 DEF StreamInv, NewHeardNothing
<1>11. ToldOnce'
  BY <1>1, <1>3, <1>10 DEF StreamInv, ToldOnce
<1> QED
  BY <1>6, <1>8, <1>9, <1>11 DEF StreamInv

(***************************************************************************)
(* A step that ends streams, or begins to, and deletes from the manager    *)
(* what it ends: the others, and what was heard, stay as they are.         *)
(***************************************************************************)
LEMMA EndInv ==
  ASSUME StreamInv, NEW c \in Streams, Alive(c), NEW where \in {"gone", "closed"},
         stream' = [stream EXCEPT ![c].at = where],
         \/ where = "gone" /\ clients' = clients
         \/ where = "closed" /\ clients' = [clients EXCEPT ![stream[c].id] = NoStream],
         UNCHANGED <<job, adds, worker, heard>>
  PROVE  StreamInv'
<1>1. /\ stream \in [Streams -> [id : Ids \cup {NoStream}, met : BOOLEAN,
                                 at : {"new", "open", "gone", "closed"}]]
      /\ clients \in [Ids -> Streams \cup {NoStream}]
      /\ stream[c].id \in Ids /\ stream[c].at # "new"
  BY DEF StreamInv, StreamTypeOK, Registered, Alive
<1>2. /\ stream'[c].at = where
      /\ \A d \in Streams : /\ stream'[d].id = stream[d].id /\ stream'[d].met = stream[d].met
                            /\ d # c => stream'[d].at = stream[d].at
  BY <1>1
<1>3. stream' \in [Streams -> [id : Ids \cup {NoStream}, met : BOOLEAN,
                               at : {"new", "open", "gone", "closed"}]]
  BY <1>1
<1>4. clients' \in [Ids -> Streams \cup {NoStream}]
  BY <1>1
<1>5. StreamTypeOK' /\ JobsLive'
  BY <1>3, <1>4 DEF StreamInv, StreamTypeOK, JobTypeOK, JobsLive
<1>6. /\ \A d \in Streams \ {c} : Alive(d)' <=> Alive(d)
      /\ where = "gone" => Alive(c)'
      /\ where = "closed" => ~Alive(c)'
  BY <1>2 DEF Alive
<1>7. NoStreamLeaks'
  BY <1>1, <1>2, <1>6 DEF StreamInv, Registered, NoStreamLeaks, Beside
<1>8. LoneStreamRegistered'
  BY <1>1, <1>2, <1>6 DEF StreamInv, Registered, LoneStreamRegistered, Lone, Companions
<1>9. Companions' /\ \A d \in Streams : Alive(d)' => stream'[d].id \in Ids
  BY <1>2, <1>6 DEF StreamInv, Registered, Companions
<1>10. HeardAreDone' /\ NewHeardNothing' /\ ToldOnce'
  BY <1>1, <1>2 DEF StreamInv, HeardAreDone, NewHeardNothing, About, ToldOnce
<1> QED
  BY <1>5, <1>7, <1>8, <1>9, <1>10 DEF StreamInv, Registered

LEMMA LeaveInv ==
  ASSUME StreamInv, NEW c \in Streams, Leave(c)
  PROVE  StreamInv'
BY EndInv DEF Leave, QueueSame, Alive

LEMMA CloseInv ==
  ASSUME StreamInv, NEW c \in Streams, Close(c)
  PROVE  StreamInv'
BY EndInv DEF Close, Delete, QueueSame, Alive

-----------------------------------------------------------------------------
(***************************************************************************)
(* A step of the queue leaves the manager alone, and the records that are  *)
(* over as they are.                                                       *)
(***************************************************************************)
KeepsDone == \A j \in Jobs : job[j].state = "completed" => job'[j] = job[j]

LEMMA QueueStep ==
  ASSUME StreamInv, JobsOK', KeepsDone,
         UNCHANGED <<stream, clients, heard>>,
         adds' \in 0..MaxAdds,
         worker' \in {Idle} \cup [at : {"running", "emit"}, id : Jobs],
         worker'.at = "running" => job'[worker'.id].state = "active",
         worker'.at = "emit" => \/ worker' = worker
                                \/ /\ job[worker'.id].state # "completed"
                                   /\ job'[worker'.id].state = "completed"
  PROVE  StreamInv'
<1>1. StreamTypeOK'
  BY DEF StreamInv, StreamTypeOK, JobsOK, JobTypeOK
<1>2. worker' = worker /\ worker.at = "emit" => worker.id \in Jobs
  BY DEF StreamInv, StreamTypeOK, Idle
<1>3. worker'.at = "emit" => job'[worker'.id].state = "completed"
  BY <1>2 DEF StreamInv, JobsLive, KeepsDone
<1>4. JobsLive'
  BY <1>3 DEF JobsLive, JobsOK
<1>5. Registered'
  BY DEF StreamInv, Registered, NoStreamLeaks, LoneStreamRegistered, Lone, Companions, Alive, Beside
<1>6. \A c \in Streams : \A m \in DOMAIN heard[c] : heard[c][m] \in Jobs
  BY DEF StreamInv, StreamTypeOK
<1>7. HeardAreDone'
  BY <1>6 DEF StreamInv, HeardAreDone, About, KeepsDone
<1>8. NewHeardNothing' /\ ToldOnce'
  BY DEF StreamInv, NewHeardNothing, ToldOnce
<1> QED
  BY <1>1, <1>4, <1>5, <1>7, <1>8 DEF StreamInv

LEMMA WorkerType ==
  ASSUME StreamInv
  PROVE  /\ worker \in {Idle} \cup [at : {"running", "emit"}, id : Jobs]
         /\ worker.at \in {"running", "emit"} => worker.id \in Jobs
         /\ worker.at = "running" => job[worker.id].state = "active"
         /\ adds \in 0..MaxAdds
BY DEF StreamInv, StreamTypeOK, JobsLive, Idle

LEMMA AddJobInv ==
  ASSUME StreamInv, NEW j \in Jobs, AddJob(j)
  PROVE  StreamInv'
<1>1. JobsOK' /\ OnlyJob(j) /\ (job[j].state # "none" => job' = job)
  BY InvJobs, AddOneJob DEF AddJob
<1>2. KeepsDone /\ adds' \in 0..MaxAdds /\ UNCHANGED <<stream, clients, worker, heard>>
  BY <1>1, WorkerType, StreamsAssumption DEF KeepsDone, OnlyJob, AddJob
<1>3. worker.at = "running" => job'[worker.id].state = "active"
  BY <1>1, WorkerType DEF OnlyJob
<1> QED
  BY <1>1, <1>2, <1>3, WorkerType, QueueStep

LEMMA StartInv ==
  ASSUME StreamInv, NEW j \in Jobs, Start(j)
  PROVE  StreamInv'
<1>1. JobsOK' /\ OnlyJob(j) /\ job'[j].state = "active" /\ job[j].state = "waiting"
  BY InvJobs, MoveJob DEF Start, Take, JobStates
<1>2. /\ worker' = [at |-> "running", id |-> j] /\ KeepsDone
      /\ UNCHANGED <<stream, clients, adds, heard>>
  BY <1>1 DEF Start, KeepsDone, OnlyJob
<1> QED
  BY <1>1, <1>2, WorkerType, QueueStep

LEMMA FinishInv ==
  ASSUME StreamInv, Finish
  PROVE  StreamInv'
<1>1. worker.id \in Jobs /\ job[worker.id].state = "active"
  BY WorkerType DEF Finish
<1>2. JobsOK' /\ OnlyJob(worker.id) /\ job'[worker.id].state = "completed"
  BY <1>1, InvJobs, MoveJob DEF Finish, Complete, JobStates
<1>3. /\ worker' = [worker EXCEPT !.at = "emit"] /\ worker.at = "running" /\ KeepsDone
      /\ UNCHANGED <<stream, clients, adds, heard>>
  BY <1>1, <1>2 DEF Finish, KeepsDone, OnlyJob
<1>4. /\ worker' \in [at : {"running", "emit"}, id : Jobs]
      /\ worker'.at = "emit" /\ worker'.id = worker.id
  BY <1>3, WorkerType DEF Idle
<1> QED
  BY <1>1, <1>2, <1>3, <1>4, WorkerType, QueueStep

LEMMA JobFailedInv ==
  ASSUME StreamInv, JobFailed
  PROVE  StreamInv'
<1>1. worker.id \in Jobs /\ job[worker.id].state = "active"
  BY WorkerType DEF JobFailed
<1>2. JobsOK' /\ OnlyJob(worker.id)
  BY <1>1, InvJobs, FailOneJob DEF JobFailed
<1>3. KeepsDone /\ worker' = Idle /\ UNCHANGED <<stream, clients, adds, heard>>
  BY <1>1, <1>2 DEF JobFailed, KeepsDone, OnlyJob
<1> QED
  BY <1>2, <1>3, WorkerType, QueueStep DEF Idle

\* The scheduler: a delayed job, or a stalled one, that the worker is not about.
LEMMA SchedulerInv ==
  ASSUME StreamInv, PromoteJob \/ StallJob
  PROVE  StreamInv'
<1>1. PICK j \in Jobs : Promote(j) \/ (~Attended(j) /\ Stall(j))
  BY DEF PromoteJob, StallJob
<1>2. JobsOK' /\ OnlyJob(j) /\ job[j].state \in {"delayed", "active"}
  BY <1>1, InvJobs, MoveJob, StallOneJob DEF Promote, JobStates
<1>3. KeepsDone /\ UNCHANGED <<stream, clients, adds, worker, heard>>
  BY <1>2 DEF PromoteJob, StallJob, KeepsDone, OnlyJob
<1>4. worker.at = "running" => worker.id # j
  BY <1>1, WorkerType DEF Promote, Attended
<1>5. worker.at = "running" => job'[worker.id].state = "active"
  BY <1>2, <1>4, WorkerType DEF OnlyJob
<1> QED
  BY <1>2, <1>3, <1>5, WorkerType, QueueStep

-----------------------------------------------------------------------------
(***************************************************************************)
(* A result is written to at most one stream, of its wallet, and to none   *)
(* that has heard it.                                                      *)
(***************************************************************************)
LEMMA JobCompletedInv ==
  ASSUME StreamInv, JobCompleted
  PROVE  StreamInv'
<1> DEFINE j == worker.id
           To(c) == clients[WalletOf[j]] = c /\ stream[c].at = "open"
<1>1. /\ worker.at = "emit" /\ j \in Jobs /\ worker' = Idle /\ WalletOf[j] \in Ids
      /\ UNCHANGED <<stream, clients, job, adds>>
      /\ heard' = [c \in Streams |-> IF To(c) THEN Append(heard[c], j) ELSE heard[c]]
  BY WorkerType, StreamsAssumption DEF JobCompleted, Unicast
<1>2. heard \in [Streams -> Seq(Jobs)] /\ job[j].state = "completed"
  BY <1>1 DEF StreamInv, StreamTypeOK, JobsLive
<1> HIDE DEF j
<1>3. \A c \in Streams : \A m \in DOMAIN heard[c] : heard[c][m] # j /\ heard[c][m] \in Jobs
  BY <1>1, <1>2 DEF StreamInv, HeardAreDone, About, j
<1>4. \A c \in Streams : To(c) => stream[c].id = WalletOf[j]
  BY <1>1, StreamsAssumption DEF StreamInv, Registered, NoStreamLeaks, Beside
<1>5. \A c \in Streams : heard'[c] = IF To(c) THEN Append(heard[c], j) ELSE heard[c]
  BY <1>1
<1>6. \A c, d \in Streams : To(c) /\ To(d) => c = d
  OBVIOUS
<1> HIDE DEF To
<1>7. \A c \in Streams :
         /\ To(c) => /\ DOMAIN heard'[c] = 1..Len(heard[c]) + 1
                     /\ heard'[c][Len(heard[c]) + 1] = j
                     /\ \A m \in 1..Len(heard[c]) : heard'[c][m] = heard[c][m]
         /\ ~To(c) => heard'[c] = heard[c]
         /\ DOMAIN heard[c] = 1..Len(heard[c]) /\ Len(heard[c]) \in Nat
         /\ heard'[c] \in Seq(Jobs)
  BY <1>1, <1>2, <1>5
<1>8. \A c \in Streams : \A m \in DOMAIN heard'[c] :
         \/ m \in DOMAIN heard[c] /\ heard'[c][m] = heard[c][m]
         \/ To(c) /\ m = Len(heard[c]) + 1 /\ heard'[c][m] = j
  BY <1>7
<1>9. StreamTypeOK' /\ JobsLive'
  BY <1>1, <1>7 DEF StreamInv, StreamTypeOK, JobTypeOK, JobsLive, Idle
<1>10. Registered'
  BY <1>1 DEF StreamInv, Registered, NoStreamLeaks, LoneStreamRegistered, Lone, Companions,
              Alive, Beside
<1>11. HeardAreDone'
  BY <1>1, <1>2, <1>8 DEF StreamInv, HeardAreDone, About, Idle
<1>12. NewHeardNothing'
  BY <1>1, <1>5 DEF StreamInv, NewHeardNothing, To
<1>13. ToldOnce'
  <2> SUFFICES ASSUME NEW c \in Streams, NEW d \in Streams,
                      NEW m \in DOMAIN heard'[c], NEW n \in DOMAIN heard'[d]
               PROVE  /\ stream[c].id = WalletOf[heard'[c][m]]
                      /\ heard'[c][m] = heard'[d][n] => <<c, m>> = <<d, n>>
    BY <1>1 DEF ToldOnce
  <2>1. stream[c].id = WalletOf[heard'[c][m]]
    BY <1>4, <1>8 DEF StreamInv, ToldOnce
  <2>2. CASE m \in DOMAIN heard[c] /\ heard'[c][m] = heard[c][m]
             /\ n \in DOMAIN heard[d] /\ heard'[d][n] = heard[d][n]
    BY <2>1, <2>2 DEF StreamInv, ToldOnce
  <2>3. CASE heard'[c][m] = j /\ To(c) /\ m = Len(heard[c]) + 1
             /\ heard'[d][n] = j /\ To(d) /\ n = Len(heard[d]) + 1
    BY <2>1, <2>3, <1>6
  <2> QED
    BY <2>1, <2>2, <2>3, <1>3, <1>8
<1> QED
  BY <1>9, <1>10, <1>11, <1>12, <1>13 DEF StreamInv

\* The process dies, and every stream with it.
LEMMA RestartInv ==
  ASSUME StreamInv, Restart
  PROVE  StreamInv'
<1>1. /\ stream' = [c \in Streams |-> IF Alive(c) THEN [stream[c] EXCEPT !.at = "closed"]
                                                  ELSE stream[c]]
      /\ clients' = [id \in Ids |-> NoStream] /\ worker' = Idle
      /\ UNCHANGED <<job, adds, heard>>
  BY DEF Restart
<1>2. stream \in [Streams -> [id : Ids \cup {NoStream}, met : BOOLEAN,
                              at : {"new", "open", "gone", "closed"}]]
  BY DEF StreamInv, StreamTypeOK
<1>3. \A c \in Streams : stream'[c].id = stream[c].id /\ stream'[c].met = stream[c].met
                         /\ stream'[c].at \in {"new", "closed"}
                         /\ (stream'[c].at = "new" => stream[c].at = "new")
  BY <1>1, <1>2 DEF Alive
<1>4. stream' \in [Streams -> [id : Ids \cup {NoStream}, met : BOOLEAN,
                               at : {"new", "open", "gone", "closed"}]]
  BY <1>1, <1>2
<1>5. StreamTypeOK' /\ JobsLive'
  BY <1>1, <1>4 DEF StreamInv, StreamTypeOK, JobTypeOK, JobsLive, Idle
<1>6. \A c \in Streams : ~Alive(c)'
  BY <1>3 DEF Alive
<1>7. Registered'
  BY <1>1, <1>6 DEF Registered, NoStreamLeaks, LoneStreamRegistered, Lone, Companions
<1>8. HeardAreDone' /\ NewHeardNothing' /\ ToldOnce'
  BY <1>1, <1>3 DEF StreamInv, HeardAreDone, About, Idle, NewHeardNothing, ToldOnce
<1> QED
  BY <1>5, <1>7, <1>8 DEF StreamInv

-----------------------------------------------------------------------------
LEMMA StreamStepInv == StreamInv /\ [StreamNext]_streamVars => StreamInv'
<1> SUFFICES ASSUME StreamInv, [StreamNext]_streamVars PROVE StreamInv'
  OBVIOUS
<1>1. ASSUME NEW c \in Streams, NEW id \in Ids, Open(c, id) PROVE StreamInv'
  BY <1>1, OpenInv
<1>2. ASSUME NEW c \in Streams, Leave(c) \/ Close(c) PROVE StreamInv'
  BY <1>2, LeaveInv, CloseInv
<1>3. ASSUME NEW j \in Jobs, AddJob(j) \/ Start(j) PROVE StreamInv'
  BY <1>3, AddJobInv, StartInv
<1>4. CASE Finish \/ JobCompleted \/ JobFailed
  BY <1>4, FinishInv, JobCompletedInv, JobFailedInv
<1>5. CASE PromoteJob \/ StallJob \/ Restart
  BY <1>5, SchedulerInv, RestartInv
<1>6. CASE UNCHANGED streamVars
  BY <1>6 DEF streamVars, StreamInv, StreamTypeOK, JobTypeOK, JobsLive, Registered, NoStreamLeaks,
     LoneStreamRegistered, Lone, Companions, Alive, Beside, HeardAreDone, About,
     NewHeardNothing, ToldOnce
<1> QED
  BY <1>1, <1>2, <1>3, <1>4, <1>5, <1>6 DEF StreamNext, WorkerStep

LEMMA StreamInvAlways == StreamSpec => []StreamInv
BY StreamInitInv, StreamStepInv, PTL DEF StreamSpec

(***************************************************************************)
(* The variables of the streams and of the queue keep their types.         *)
(***************************************************************************)
THEOREM StreamTypeCorrect == StreamSpec => []StreamTypeOK
<1>1. StreamInv => StreamTypeOK
  BY DEF StreamInv
<1> QED
  BY <1>1, StreamInvAlways, PTL

(***************************************************************************)
(* The manager holds no stream whose close was handled.                    *)
(***************************************************************************)
THEOREM ManagerLeaksNothing == StreamSpec => []NoStreamLeaks
<1>1. StreamInv => NoStreamLeaks
  BY DEF StreamInv, Registered
<1> QED
  BY <1>1, StreamInvAlways, PTL

(***************************************************************************)
(* A stream that never was beside another of its wallet stays registered.  *)
(***************************************************************************)
THEOREM LoneStreamStays == StreamSpec => []LoneStreamRegistered
<1>1. StreamInv => LoneStreamRegistered
  BY DEF StreamInv, Registered
<1> QED
  BY <1>1, StreamInvAlways, PTL

(***************************************************************************)
(* The result of a job is written once, and to a stream of its wallet.     *)
(***************************************************************************)
THEOREM ResultToldOnce == StreamSpec => []ToldOnce
<1>1. StreamInv => ToldOnce
  BY DEF StreamInv
<1> QED
  BY <1>1, StreamInvAlways, PTL
=============================================================================
