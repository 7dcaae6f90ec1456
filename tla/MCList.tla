------------------------------- MODULE MCList -------------------------------
(* TLC instances of List: threads are interchangeable.  A thread's name is   *)
(* also the value it writes.                                                 *)
EXTENDS List, Linearizability, TLC

Symmetry == Permutations(Threads)

(* Linearizability: whenever no call is in progress, the calls made so far   *)
(* can be ordered so that each returns what map.h promises (ll_lookup,       *)
(* ll_cas and ll_remove, list.c:194-330).                                    *)
Linearizable ==
    (\A t \in Threads : pc[t] = "idle") =>
        \A k \in Keys : Explains({o \in done : o.key = k}, initial[k])
=============================================================================
