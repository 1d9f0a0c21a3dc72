---------------------------- MODULE MCWithdrawals ----------------------------
(***************************************************************************)
(* Instances of Withdrawals for TLC: one wallet, two requests that together*)
(* ask for more than it holds, and one in the same millisecond as the first*)
(***************************************************************************)
EXTENDS Withdrawals, TLC

CONSTANTS w1, worker1, store1, store2, reader1

MCOpening == w1 :> 3

MCFirst  == [wallet |-> w1, amount |-> 1, stamp |-> 1]
MCSecond == [wallet |-> w1, amount |-> 3, stamp |-> 2]

MCTwin   == [wallet |-> w1, amount |-> 2, stamp |-> 1]

MCAll  == {MCFirst, MCSecond, MCTwin}
MCOne  == {MCFirst}

MCOps == {ReadOp(w) : w \in Wallets} \cup {StoreOp(r, h) : r \in Requests, h \in Hashes}

MCFairSpec == WithdrawalSpec /\ WithdrawalFairness
=============================================================================
