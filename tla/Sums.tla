-------------------------------- MODULE Sums --------------------------------
(* Sums over finite sets, as the callback of `reduce` in createEntry adds them up. *)
EXTENDS Integers, Folds

(* The sum of f[i] for all i in S. *)
Sum(f, S) == MapThenFoldSet(+, 0, LAMBDA i : f[i], LAMBDA T : CHOOSE i \in T : TRUE, S)
=============================================================================
