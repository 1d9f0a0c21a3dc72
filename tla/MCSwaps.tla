------------------------------- MODULE MCSwaps -------------------------------
(***************************************************************************)
(* An instance of Swaps for TLC: a swap of one wallet to wPAW, which a     *)
(* retry repeats for more than the wallet holds, and a transaction with    *)
(* two events of a swap to PAW into another wallet.                        *)
(***************************************************************************)
EXTENDS Swaps, TLC

CONSTANTS w1, w2, worker1, store1, reader1

MCOpening == w1 :> 3 @@ w2 :> 0

MCMints == {[kind |-> "mint", wallet |-> w1, amount |-> 2, stamp |-> 1]}

MCBurn(amount) == [kind |-> "burn", wallet |-> w2, spelling |-> w2, amount |-> amount, hash |-> 11]
MCBurns == {MCBurn(1), MCBurn(2)}

MCOps ==
  {ReadOp(id) : id \in SwapJobs} \cup {DebitOp(m, h) : m \in Mints, h \in Receipts}
    \cup {CreditOp(b) : b \in Burns}

\* The one HTTP read is of the wallet that swaps to wPAW, between its balance's read and debit.
MCReadOnce ==
  \A c \in ReaderCalls :
    op'[c] \in {op[c], NoOp}
      \/ (pc[c] = "idle" /\ op'[c].wallet = w1 /\ worker.at \in {"mint", "debit"})

\* The events of the transaction are reported in their order, the first again at any time.
MCInOrder(b) == \A d \in Twins(b) : d.amount < b.amount => job[d].state # "none"

MCNext ==
  \/ \E m \in Mints : Submit(m)
  \/ \E b \in Burns : Burn(b) \/ (MCInOrder(b) /\ Observe(b))
  \/ WorkerStep
  \/ PromoteJob \/ StallJob
  \/ (ReadOverHttp /\ MCReadOnce) \/ StorageStep \/ Restart

MCFairSpec == SwapInit /\ [][MCNext]_swapVars /\ SwapFairness
=============================================================================
