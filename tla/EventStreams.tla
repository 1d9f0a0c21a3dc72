----------------------------- MODULE EventStreams -----------------------------
(***************************************************************************)
(* The server-sent events of app.ts: GET /events/:paw_wallet opens a       *)
(* stream, SSEManager keeps one stream for every wallet, and the listener  *)
(* of the operations queue writes the result of a job that completed to    *)
(* the stream of the wallet the result names.                              *)
(*                                                                         *)
(* The manager files a stream under the wallet as the URL spells it; the   *)
(* close of a request deletes what is filed there, whichever stream it is. *)
(* Pings change no state and are left out.                                 *)
(***************************************************************************)
EXTENDS Integers, Sequences

CONSTANTS
  Streams,      \* the requests for /events, numbered as they come
  Ids,          \* the spellings of wallets they are filed under
  NoStream,     \* what the manager has for an id without a stream
  Jobs,         \* the jobs of the operations queue
  WalletOf,     \* the pawWallet in the result of a job
  MaxAdds       \* bound on the adds to the queue

ASSUME StreamsAssumption ==
  /\ Streams \subseteq Nat /\ NoStream \notin Streams
  /\ WalletOf \in [Jobs -> Ids]
  /\ MaxAdds \in Nat

VARIABLES
  stream,    \* what became of a stream: [id, at, met]
  clients,   \* SSEManager.clients
  job,       \* the queue's records
  adds,      \* the adds there were
  worker,    \* what the worker is doing
  heard      \* the jobs whose results were written to a stream that was open

streamVars == <<stream, clients, job, adds, worker, heard>>

INSTANCE JobQueue WITH JobIds <- Jobs, RemovedOnFail <- {}

(***************************************************************************)
(* A stream is new, open, gone (the client has left, and the server was    *)
(* not told yet), or closed.  "met" is for the properties: was there ever  *)
(* another stream of the same wallet beside it?                            *)
(***************************************************************************)
New == [id |-> NoStream, at |-> "new", met |-> FALSE]

Alive(c) == stream[c].at \in {"open", "gone"}

Beside(id) == {c \in Streams : Alive(c) /\ stream[c].id = id}

Idle == [at |-> "idle"]

StreamInit ==
  /\ stream = [c \in Streams |-> New]
  /\ clients = [id \in Ids |-> NoStream]
  /\ QueueInit /\ adds = 0
  /\ worker = Idle
  /\ heard = [c \in Streams |-> <<>>]

QueueSame == UNCHANGED <<job, adds, worker>>

-----------------------------------------------------------------------------
(***************************************************************************)
(* SSEManager.                                                             *)
(***************************************************************************)
\* Mutant of Delete: deleteAll.
DeleteAll(id) == clients' = [i \in Ids |-> NoStream]

Delete(id) == clients' = [clients EXCEPT ![id] = NoStream]

\* GET /events/<id>: whatever was filed under the id is replaced, and not closed.
Open(c, id) ==
  /\ stream[c].at = "new" /\ \A d \in Streams : d < c => stream[d].at # "new"
  /\ clients' = [clients EXCEPT ![id] = c]
  /\ stream' = [d \in Streams |->
                  IF d = c THEN [id |-> id, at |-> "open", met |-> Beside(id) # {}]
                  ELSE IF d \in Beside(id) THEN [stream[d] EXCEPT !.met = TRUE]
                  ELSE stream[d]]
  /\ QueueSame /\ UNCHANGED heard

\* The client closes the stream, or its connection breaks.
Leave(c) ==
  /\ stream[c].at = "open"
  /\ stream' = [stream EXCEPT ![c].at = "gone"]
  /\ QueueSame /\ UNCHANGED <<clients, heard>>

\* Mutant of Close: nothing is deleted.
CloseOnly(c) ==
  /\ stream[c].at = "gone"
  /\ stream' = [stream EXCEPT ![c].at = "closed"]
  /\ QueueSame /\ UNCHANGED <<clients, heard>>

\* req.on("close")
Close(c) ==
  /\ stream[c].at = "gone"
  /\ stream' = [stream EXCEPT ![c].at = "closed"]
  /\ Delete(stream[c].id)
  /\ QueueSame /\ UNCHANGED heard

\* Mutant of Unicast: the client is looked up by the identifier of the job.
UnicastById(id, j) == UNCHANGED heard

\* A message to a client that is gone is lost.
Unicast(id, j) ==
  heard' = [c \in Streams |-> IF clients[id] = c /\ stream[c].at = "open"
                                THEN Append(heard[c], j) ELSE heard[c]]

-----------------------------------------------------------------------------
(***************************************************************************)
(* The worker, and the listener that is called when a job completed.       *)
(***************************************************************************)
\* A request, the node's socket, the blockchain's listener or its scan adds a job.
AddJob(j) ==
  /\ adds < MaxAdds /\ adds' = adds + 1
  /\ Add(j, "waiting")
  /\ UNCHANGED <<stream, clients, worker, heard>>

Start(j) ==
  /\ worker.at = "idle"
  /\ Take(j)
  /\ worker' = [at |-> "running", id |-> j]
  /\ UNCHANGED <<stream, clients, adds, heard>>

\* The record is moved to the completed ones, then the worker emits "completed".
Finish ==
  /\ worker.at = "running"
  /\ Complete(worker.id)
  /\ worker' = [worker EXCEPT !.at = "emit"]
  /\ UNCHANGED <<stream, clients, adds, heard>>

\* onJobCompleted: every processor's result names its wallet, so none is broadcast.
JobCompleted ==
  /\ worker.at = "emit"
  /\ Unicast(WalletOf[worker.id], worker.id)
  /\ worker' = Idle
  /\ UNCHANGED <<stream, clients, job, adds>>

\* The processor throws: the clients are told nothing.
JobFailed ==
  /\ worker.at = "running"
  /\ Fail(worker.id)
  /\ worker' = Idle
  /\ UNCHANGED <<stream, clients, adds, heard>>

PromoteJob ==
  /\ \E j \in Jobs : Promote(j)
  /\ UNCHANGED <<stream, clients, adds, worker, heard>>

Attended(j) == worker.at = "running" /\ worker.id = j

StallJob ==
  /\ \E j \in Jobs : ~Attended(j) /\ Stall(j)
  /\ UNCHANGED <<stream, clients, adds, worker, heard>>

\* The process dies, its connections with it, and is started again.
Restart ==
  /\ stream' = [c \in Streams |-> IF Alive(c) THEN [stream[c] EXCEPT !.at = "closed"]
                                              ELSE stream[c]]
  /\ clients' = [id \in Ids |-> NoStream]
  /\ worker' = Idle
  /\ UNCHANGED <<job, adds, heard>>

WorkerStep == (\E j \in Jobs : Start(j)) \/ Finish \/ JobCompleted

StreamNext ==
  \/ \E c \in Streams, id \in Ids : Open(c, id)
  \/ \E c \in Streams : Leave(c) \/ Close(c)
  \/ \E j \in Jobs : AddJob(j)
  \/ WorkerStep \/ JobFailed
  \/ PromoteJob \/ StallJob \/ Restart

StreamSpec == StreamInit /\ [][StreamNext]_streamVars

-----------------------------------------------------------------------------
(***************************************************************************)
(* Properties.                                                             *)
(***************************************************************************)
\* Every variable has its type.
StreamTypeOK ==
  /\ stream \in [Streams -> [id : Ids \cup {NoStream}, met : BOOLEAN,
                             at : {"new", "open", "gone", "closed"}]]
  /\ clients \in [Ids -> Streams \cup {NoStream}]
  /\ JobTypeOK /\ adds \in 0..MaxAdds
  /\ worker \in {Idle} \cup [at : {"running", "emit"}, id : Jobs]
  /\ heard \in [Streams -> Seq(Jobs)]

(***************************************************************************)
(* The manager holds no stream whose close was handled (it would be        *)
(* written to, and kept, for ever), and files each under its own wallet.   *)
(***************************************************************************)
NoStreamLeaks == \A id \in Ids : clients[id] # NoStream => clients[id] \in Beside(id)

(***************************************************************************)
(* A stream that is the only one of its wallet for as long as it lives     *)
(* stays registered, whatever the other clients do.  (One that is not can  *)
(* be replaced by a newer one, or deleted by the close of an older one:    *)
(* the first lines of the module.)                                         *)
(***************************************************************************)
Lone(c) == Alive(c) /\ ~stream[c].met

LoneStreamRegistered == \A c \in Streams : Lone(c) => clients[stream[c].id] = c

(***************************************************************************)
(* The result of a job is written once, to one stream, of the wallet the   *)
(* result names: though an operation may be added twice, and run again     *)
(* after a crash, and its wallet may have several clients.                 *)
(***************************************************************************)
ToldOnce ==
  \A c, d \in Streams : \A m \in DOMAIN heard[c], n \in DOMAIN heard[d] :
     /\ stream[c].id = WalletOf[heard[c][m]]
     /\ heard[c][m] = heard[d][n] => <<c, m>> = <<d, n>>

-----------------------------------------------------------------------------
(***************************************************************************)
(* Fairness: the worker goes on, the scheduler promotes delayed jobs and   *)
(* puts stalled ones back.  Nothing is assumed of the clients.             *)
(***************************************************************************)
StreamFairness ==
  /\ WF_streamVars(WorkerStep)
  /\ WF_streamVars(PromoteJob) /\ WF_streamVars(StallJob)

Heard(c, j) == \E n \in DOMAIN heard[c] : heard[c][n] = j

Listens(c, j) == stream[c].at = "open" /\ ~stream[c].met /\ stream[c].id = WalletOf[j]

(***************************************************************************)
(* A client that is the only one of its wallet, and stays, hears of the    *)
(* operation it waits for, unless that fails for good.                     *)
(***************************************************************************)
LoneClientHears ==
  \A c \in Streams, j \in Jobs :
     job[j].state \in {"waiting", "delayed", "active"} /\ Listens(c, j) ~>
        Heard(c, j) \/ ~Listens(c, j) \/ job[j].state = "failed"
=============================================================================
