---------------------------- MODULE MCEventStreams ----------------------------
(***************************************************************************)
(* Instances of EventStreams for TLC: three streams over two wallets, so   *)
(* that a client reconnects beside a client of another wallet; one job, in *)
(* the queue twice.                                                        *)
(***************************************************************************)
EXTENDS EventStreams

CONSTANTS w1, w2, job1

MCWalletOf == [j \in Jobs |-> w1]

MCFairSpec == StreamSpec /\ StreamFairness
=============================================================================
