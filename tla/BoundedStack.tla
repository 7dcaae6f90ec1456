---------------------------- MODULE BoundedStack ----------------------------
(***************************************************************************)
(* What a bounded stack promises its callers: the value taken is the one   *)
(* given last among those still inside.                                    *)
(***************************************************************************)
EXTENDS Naturals, Sequences

CONSTANTS Values, Depth

VARIABLES stack,   \* the values inside, newest last
          taken    \* the values handed out so far

Init == stack = << >> /\ taken = {}

Push(v) ==
    /\ Len(stack) < Depth
    /\ stack' = Append(stack, v)
    /\ UNCHANGED taken

Pop ==
    /\ stack # << >>
    /\ stack' = SubSeq(stack, 1, Len(stack) - 1)
    /\ taken' = taken \cup {stack[Len(stack)]}

Next == Pop \/ \E v \in Values : Push(v)

Spec == Init /\ [][Next]_<<stack, taken>>
=============================================================================
