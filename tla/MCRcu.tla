------------------------------- MODULE MCRcu --------------------------------
(* TLC instances of Rcu: objects are interchangeable.                        *)
EXTENDS Rcu, TLC

Symmetry == Permutations(Objects)
=============================================================================
