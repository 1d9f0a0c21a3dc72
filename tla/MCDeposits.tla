------------------------------ MODULE MCDeposits ------------------------------
(***************************************************************************)
(* Instances of Deposits for TLC: one PAW wallet, a payment it can be      *)
(* credited for, one with a fraction, one of the hot wallet's own, and one *)
(* made of nine digits of RAW.                                             *)
(***************************************************************************)
EXTENDS Deposits, TLC

CONSTANTS w1, o1, o2, k1, worker1, store1, store2, reader1

MCOpening   == w1 :> 0
MCLowerCase == w1 :> w1

MCWhole    == [wallet |-> w1, amount |-> 250, hash |-> 1, whole |-> TRUE]
MCFraction == [wallet |-> w1, amount |-> 125, hash |-> 2, whole |-> FALSE]
MCOwnOne   == [wallet |-> w1, amount |-> 100, hash |-> 3, whole |-> TRUE]
MCNine     == [wallet |-> w1, amount |-> 1, hash |-> 4, whole |-> TRUE]

MCPayment == {MCWhole}
MCOwn     == {MCOwnOne}
MCRaw     == {MCNine}
MCMixed   == {MCWhole, MCFraction} \cup MCOwn \cup MCRaw

MCOps == {ReadOp(w) : w \in Wallets} \cup {CreditOp(d) : d \in Deposits}

\* A claim call asks once, and with a good signature: its pending claim, which lives
\* five minutes, can expire under one attempt of a job and not, renewed each time,
\* under all three.
MCAskOnce ==
  \A k \in ClaimCalls :
     /\ claimCall[k].at \in Answers => claimCall'[k] = claimCall[k]
     /\ claimCall'[k].at # "InvalidSignature"

\* How a detached store or a reader's call ended matters to nobody: states that differ
\* in no more than that are one.
MCView ==
  LET Over(c) == c # WorkerCall /\ pc[c] \in Settled IN
  <<dataVars, lockVars, op, claimVars, job, worker, sent, received, scan, refunds, cold,
    [c \in Calls |-> IF Over(c) THEN <<>> ELSE <<pc[c], read[c]>>]>>

MCFairSpec ==
  DepositInit /\ [][DepositStep \/ ReadOverHttp \/ (ClaimOverHttp /\ MCAskOnce)]_depositVars
    /\ DepositFairness
=============================================================================
