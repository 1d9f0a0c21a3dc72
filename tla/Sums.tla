--------------------------------- MODULE Sums ---------------------------------
(***************************************************************************)
(* The sum of f[x] over the elements x of a finite set.                    *)
(***************************************************************************)
EXTENDS FiniteSetsExt

SumOver(f, S) == MapThenSumSet(LAMBDA x : f[x], S)
=============================================================================
