----------------------------- MODULE MCSkiplist -----------------------------
(* TLC instances of Skiplist: threads are interchangeable.  A thread's name  *)
(* is also the value it writes.                                              *)
EXTENDS Skiplist, Linearizability

Symmetry == Permutations(Threads)

(* Three threads on one key or two threads on two. *)
OneKey == {[threads |-> Cardinality(Threads), keys |-> 1]}
MCCasts == OneKey \cup {[threads |-> 2, keys |-> 2]}

(* Linearizability: whenever no call is in progress, the calls made so far   *)
(* can be ordered so that each returns what map.h promises (sl_lookup,       *)
(* sl_cas and sl_remove, skiplist.c:219-419).                                *)
Linearizable ==
    Quiet => \A k \in Keys : Explains({o \in done : o.key = k}, initial[k])
=============================================================================
