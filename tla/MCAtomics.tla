----------------------------- MODULE MCAtomics ------------------------------
(* Threads call every operation on a word of two one-bit halves. *)
EXTENDS Atomics

MCArgs == {{0}, {1}}
=============================================================================
