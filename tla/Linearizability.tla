-------------------------- MODULE Linearizability ---------------------------
(***************************************************************************)
(* Histories of finished map operations.  Besides the fields of MapOps a   *)
(* finished operation has an id, the value it returned (ret) and the ids   *)
(* of the operations that had returned when it was called (after).  An     *)
(* operation touches one key, so a history is linearizable when it is so   *)
(* key by key.                                                             *)
(***************************************************************************)
EXTENDS MapOps

(* The operations can be put in an order that respects "returned before it   *)
(* was called" and in which each returns what map.h promises, starting from  *)
(* val.                                                                      *)
RECURSIVE Explains(_, _)
Explains(ops, val) ==
    \/ ops = {}
    \/ \E op \in ops :
         /\ \A other \in ops : other.id \notin op.after
         /\ op.ret = val
         /\ Explains(ops \ {op}, Effect(val, op))
=============================================================================
