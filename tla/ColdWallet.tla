------------------------------ MODULE ColdWallet ------------------------------
(***************************************************************************)
(* How much of a deposit goes on from the hot wallet to the cold one:      *)
(* Paw.eventuallySendToColdWallet, as arithmetic.                          *)
(*                                                                         *)
(* The percentage kept is subtracted from 100 as a floating-point number,  *)
(* and a result that is not an integer is no BigNumber: the conversion     *)
(* throws.  The default, 0.2, is such a percentage.                        *)
(***************************************************************************)
EXTENDS Integers

CONSTANTS
  PAW,          \* the units of one PAW
  HotMinimum,   \* PawUsersDepositsHotWalletMinimum, in these units
  KeptPercent,  \* PawUsersDepositsHotWalletToColdWalletRatio
  Fractional    \* stands for a KeptPercent that is not an integer

ASSUME ColdWalletAssumption ==
  /\ PAW \in Nat \ {0} /\ PAW % 100 = 0
  /\ HotMinimum \in Nat
  /\ KeptPercent \in 0..100 \cup {Fractional}

AboveMinimum(total) == total - HotMinimum

\* BigNumber.from(100 - ratio), reached only with something above the minimum.
RatioThrows(total) == AboveMinimum(total) > 0 /\ KeptPercent = Fractional

Smaller(a, b) == IF a < b THEN a ELSE b

\* Mutant of AmountToSplit: the minimum is not kept.
AmountOfTotal(total, deposit) == (Smaller(total, deposit) \div PAW) * PAW

\* At most the deposit, cut to whole PAW.
AmountToSplit(total, deposit) == (Smaller(AboveMinimum(total), deposit) \div PAW) * PAW

\* What is sent to the cold wallet; zero is not sent.
ColdShare(total, deposit) ==
  IF AboveMinimum(total) <= 0 \/ KeptPercent = Fractional THEN 0
  ELSE (AmountToSplit(total, deposit) \div 100) * (100 - KeptPercent)
=============================================================================
