------------------------- MODULE MCPendingWithdrawals -------------------------
(***************************************************************************)
(* Instances of PendingWithdrawals for TLC: those of MCWithdrawals, with   *)
(* the bound that the amount is asked for and answered while the hot       *)
(* wallet is still to be topped up.                                        *)
(***************************************************************************)
EXTENDS PendingWithdrawals, MCWithdrawals

MCQueryNext ==
  \/ AskWaiting /\ ~refilled
  \/ AnswerPending
  \/ WithdrawalNext /\ Meanwhile /\ (query.at = "idle" \/ ~refilled')

MCFairQuerySpec ==
  /\ QueryInit /\ [][MCQueryNext]_queryVars
  /\ WithdrawalFairness /\ WF_queryVars(AnswerPending)
=============================================================================
