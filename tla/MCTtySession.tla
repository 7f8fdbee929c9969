----------------------------- MODULE MCTtySession -----------------------------
(* Instances of TtySession for TLC.                                        *)
EXTENDS TtySession, TLC

CONSTANTS c1, c2

OneCall  == {c1}
TwoCalls == {c1, c2}
NoCall   == {}

OnlyStdout == {"stdout"}

Symmetry == Permutations(Calls)
===============================================================================
