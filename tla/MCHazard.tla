------------------------------ MODULE MCHazard ------------------------------
(* Two threads; small blocks share a page, a large one has a page of its own. *)
EXTENDS Hazard

MCPageBlocks == [s \in Scales |-> IF s = "small" THEN 2 ELSE 1]
MCMaxMallocs == [heap |-> 4, hazard |-> 5]
=============================================================================
