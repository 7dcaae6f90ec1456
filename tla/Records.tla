------------------------------ MODULE Records -------------------------------
(* Records as the locals of a thread: what a step changes, and what it adds. *)

(* The record r with the fields of changes in the place of its own. *)
With(r, changes) ==
    [f \in DOMAIN r \cup DOMAIN changes |-> IF f \in DOMAIN changes THEN changes[f] ELSE r[f]]
=============================================================================
