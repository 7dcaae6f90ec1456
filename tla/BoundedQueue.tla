---------------------------- MODULE BoundedQueue ----------------------------
(***************************************************************************)
(* What a bounded queue promises its callers: values come out in the order *)
(* they went in, each exactly once, and never more than Capacity of them   *)
(* are inside.                                                             *)
(***************************************************************************)
EXTENDS Naturals, Sequences

CONSTANTS Values, Capacity

VARIABLES queue,      \* the values inside, oldest first
          delivered   \* every value handed out so far, in order

Init == queue = << >> /\ delivered = << >>

Enqueue(v) ==
    /\ Len(queue) < Capacity
    /\ queue' = Append(queue, v)
    /\ UNCHANGED delivered

Dequeue ==
    /\ queue # << >>
    /\ queue' = Tail(queue)
    /\ delivered' = Append(delivered, Head(queue))

Next == Dequeue \/ \E v \in Values : Enqueue(v)

Spec == Init /\ [][Next]_<<queue, delivered>>
=============================================================================
