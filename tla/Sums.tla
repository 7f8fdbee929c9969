---------------------------------- MODULE Sums ----------------------------------
(***************************************************************************)
(* Sums of the first values of a sequence.  A recursive function, where    *)
(* the folds of the library would do, for the proofs of the modules that   *)
(* use it.                                                                 *)
(***************************************************************************)
EXTENDS Integers

SumTo(f, n) ==
    LET sum[i \in 0 .. n] == IF i = 0 THEN 0 ELSE sum[i - 1] + f[i]
    IN sum[n]
================================================================================
