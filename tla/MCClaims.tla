------------------------------- MODULE MCClaims -------------------------------
(***************************************************************************)
(* Instances of Claims for TLC: three blockchain wallets ask for two PAW   *)
(* wallets, one of which may be spelt in two ways.  The blacklist holds    *)
(* the only spelling of w2, and one of the two of w1.                      *)
(***************************************************************************)
EXTENDS Claims

CONSTANTS w1, W1, w2, o1, o2, o3, k1, k2

MCLowerCase == [s \in Spellings |-> IF s = W1 THEN w1 ELSE s]
=============================================================================
