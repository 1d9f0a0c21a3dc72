-------------------------- MODULE PendingWithdrawals --------------------------
(***************************************************************************)
(* GET /withdrawals/pending while withdrawals are processed: the amount    *)
(* the hot wallet is to be topped up by.  The waiting jobs are read, and   *)
(* then, by another call to Redis, the delayed ones; what moves from one   *)
(* list to the other in between moves under the reader.                    *)
(***************************************************************************)
EXTENDS Withdrawals

VARIABLE
  query    \* the request for the amount: [at, the waiting jobs it has seen], and, for the
           \* properties, the jobs promoted since

queryVars == <<withdrawalVars, query>>

NoQuery == [at |-> "idle", seen |-> {}, promoted |-> {}]

QueryInit == WithdrawalInit /\ query = NoQuery

PendingIn(state) == {j \in PendingJobs : job[j].state = state}

JobAmount == [j \in WithdrawalJobs |-> j.request.amount]

-----------------------------------------------------------------------------
\* Mutant of AskWaiting: the jobs whose delay is over are left out.
AskWaitingNot ==
  /\ query.at = "idle"
  /\ query' = [NoQuery EXCEPT !.at = "delayed"]
  /\ UNCHANGED withdrawalVars

AskWaiting ==
  /\ query.at = "idle"
  /\ query' = [NoQuery EXCEPT !.at = "delayed", !.seen = PendingIn("waiting")]
  /\ UNCHANGED withdrawalVars

\* What is answered if the delayed jobs are read now: both lists are added up.
Answer == SumOver(JobAmount, query.seen) + SumOver(JobAmount, PendingIn("delayed"))

AnswerPending ==
  /\ query.at = "delayed"
  /\ query' = NoQuery
  /\ UNCHANGED withdrawalVars

\* The program goes on between the two reads; a restart ends the query.
Promoted == {j \in PendingIn("delayed") : job'[j].state = "waiting"}

Meanwhile ==
  query' = IF query.at = "idle" \/ Restart THEN NoQuery
                                           ELSE [query EXCEPT !.promoted = @ \cup Promoted]

QueryNext ==
  \/ AskWaiting \/ AnswerPending
  \/ WithdrawalNext /\ Meanwhile

QuerySpec == QueryInit /\ [][QueryNext]_queryVars

-----------------------------------------------------------------------------
(***************************************************************************)
(* Properties.                                                             *)
(***************************************************************************)
RequestAmount == [r \in Requests |-> r.amount]

(***************************************************************************)
(* The amount answered covers every request that was put off and is still  *)
(* to be paid, but for one the worker is about and one of which a job was  *)
(* promoted between the two reads, which is in neither list.  (It may be   *)
(* more: a replaced job is retried, and counted, beside its successor.)    *)
(***************************************************************************)
Unmoved == {r \in Owed : \A j \in query.promoted : j.request # r}

AnswerCoversOwed == query.at = "delayed" => SumOver(RequestAmount, Unmoved) <= Answer
=============================================================================
