-------------------------- MODULE MCDepositsStorage --------------------------
(***************************************************************************)
(* Instances of DepositsStorage for TLC.  A call slot serves one operation *)
(* (MCNext invokes from "idle" only), so Calls bounds the calls of a       *)
(* behaviour as well as the concurrent ones.                               *)
(***************************************************************************)
EXTENDS DepositsStorage, TLC

CONSTANTS w1, w2, W1, h1, h2, h3, h4, h5

MCNext ==
  \/ \E c \in Calls, o \in Ops : pc[c] = "idle" /\ Invoke(c, o)
  \/ \E c \in Calls : CallStep(c)
  \/ \E c \in Calls : RedisError(c)
  \/ LeaseStep
  \/ Crash

MCSpec == StorageInit /\ [][MCNext]_storageVars

MCFairSpec == MCSpec /\ StorageFairness

MCCallsSymmetry == Permutations(Calls)

MCOp(kind, wallet, spelling, amount, hash) ==
  [kind |-> kind, wallet |-> wallet, spelling |-> spelling, amount |-> amount,
   hash |-> hash, stamp |-> 1]

\* w1 has no key yet, w2 holds 4.
MCOpening == w1 :> 0 @@ w2 :> 4

\* The writers of w1 share its lock, those of w2 all swap to wPAW.
MCAgreeingOps ==
  {MCOp("read", w1, w1, 0, h1), MCOp("deposit", w1, w1, 3, h1),
   MCOp("withdrawal", w1, w1, 1, h2), MCOp("swapToPaw", w1, w1, 5, h3),
   MCOp("read", w2, w2, 0, h1), MCOp("swapToWPaw", w2, w2, 1, h4),
   MCOp("swapToWPaw", w2, w2, 2, h5)}

\* Every kind on both wallets, and reads and swaps to PAW that spell w1 another way.
MCAllOps ==
  {MCOp("read", w1, W1, 0, h1), MCOp("read", w2, w2, 0, h1),
   MCOp("deposit", w2, w2, 3, h1), MCOp("withdrawal", w2, w2, 1, h2),
   MCOp("swapToPaw", w1, W1, 5, h3), MCOp("swapToWPaw", w1, w1, 1, h4),
   MCOp("swapToWPaw", w2, w2, 2, h5)}
=============================================================================
