------------------------------- MODULE MapOps -------------------------------
(***************************************************************************)
(* What src/map/map.h promises of one key of a map, whichever structure    *)
(* implements it.  An operation is a record with a kind ("get", "cas" or   *)
(* "remove"), a key, and for "cas" an expectation and a new value; map_set,*)
(* map_add and map_replace are "cas" with one of the three special         *)
(* expectations, map_cas is "cas" with a value to compare.  Each operation *)
(* returns the value the key had before it.                                *)
(***************************************************************************)
CONSTANT DOES_NOT_EXIST

CAS_EXPECT_DOES_NOT_EXIST == "CAS_EXPECT_DOES_NOT_EXIST"
CAS_EXPECT_EXISTS == "CAS_EXPECT_EXISTS"
CAS_EXPECT_WHATEVER == "CAS_EXPECT_WHATEVER"

Meets(val, expectation) ==
    \/ expectation = CAS_EXPECT_WHATEVER
    \/ expectation = CAS_EXPECT_DOES_NOT_EXIST /\ val = DOES_NOT_EXIST
    \/ expectation = CAS_EXPECT_EXISTS /\ val # DOES_NOT_EXIST
    \/ expectation = val

(* The key's value after the operation, when it was val before. *)
Effect(val, op) ==
    CASE op.kind = "get" -> val
      [] op.kind = "remove" -> DOES_NOT_EXIST
      [] op.kind = "cas" -> IF Meets(val, op.expectation) THEN op.new_val ELSE val
=============================================================================
