------------------------------- MODULE MCTxn --------------------------------
(* Small instances of module Txn for TLC. *)
EXTENDS Txn

Symmetric == Permutations(Threads) \cup Permutations(Keys)
=============================================================================
