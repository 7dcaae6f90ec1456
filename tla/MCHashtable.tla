---------------------------- MODULE MCHashtable -----------------------------
(* TLC instances of Hashtable: threads are interchangeable.  A thread's name *)
(* is also the value it writes.                                              *)
EXTENDS Hashtable, Linearizability, TLC

Symmetry == Permutations(Threads)

Calls == [get |-> 1, cas |-> 2, remove |-> 1, iterate |-> 1]

(* Three tables: the first, with an entry that only key 1 looks at, and the  *)
(* second run out of room.                                                   *)
ThreeSizes == <<2, 1, 2>>
ThreeProbe == <<<<<<1, 2>>, <<1>>>>, <<<<1>>, <<1>>>>, <<<<1, 2>>, <<2, 1>>>>>>

(* Linearizability: whenever no call is in progress, the calls made so far   *)
(* can be ordered so that each returns what map.h promises (ht_get, ht_cas   *)
(* and ht_remove, hashtable.c:328-606).                                      *)
Linearizable ==
    Quiet => \A k \in Keys : Explains({o \in done : o.key = k}, initial[k])
=============================================================================
