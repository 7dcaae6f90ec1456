------------------------------- MODULE MCLifo -------------------------------
(* TLC instances of CLifo: threads are interchangeable, and so are values.   *)
EXTENDS CLifo, TLC

Symmetry == Permutations(Threads) \cup Permutations(Values)
=============================================================================
