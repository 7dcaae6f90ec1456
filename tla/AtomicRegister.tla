--------------------------- MODULE AtomicRegister ---------------------------
(***************************************************************************)
(* What <stdatomic.h> promises of one atomic integer: every call takes     *)
(* effect on the whole word in one step between its call and its return.   *)
(* A word is the set of its bits that are 1.                               *)
(***************************************************************************)
EXTENDS Naturals

CONSTANTS Threads,
          Width,      \* bits of the word
          Args,       \* words passed as arguments
          Value(_),   \* the number a word stands for
          ToWord(_)   \* and back

Fetches == {"fetch_add", "fetch_sub", "fetch_or", "fetch_xor", "fetch_and"}
Ops == Fetches \cup {"load", "store", "exchange", "compare_exchange"}
Calls == {c \in [op : Ops, arg : Args, expected : Args] :
            c.op # "compare_exchange" => c.expected = c.arg}
NoCall == CHOOSE c \in Calls : c.op = "load"

(* The word after call c on a word that was old. *)
After(c, old) ==
    IF c.op = "compare_exchange" THEN IF old = c.expected THEN c.arg ELSE old
    ELSE [load |-> old,
          store |-> c.arg,
          exchange |-> c.arg,
          fetch_add |-> ToWord((Value(old) + Value(c.arg)) % 2^Width),
          fetch_sub |-> ToWord((Value(old) + 2^Width - Value(c.arg)) % 2^Width),
          fetch_or |-> old \cup c.arg,
          fetch_xor |-> (old \cup c.arg) \ (old \cap c.arg),
          fetch_and |-> old \cap c.arg][c.op]

VARIABLES obj,
          status,     \* of each thread: "idle", "called" or "done"
          call,       \* what it called
          ret         \* the word it found

vars == <<obj, status, call, ret>>

Init ==
    /\ obj \in Args
    /\ status = [t \in Threads |-> "idle"]
    /\ call = [t \in Threads |-> NoCall]
    /\ ret = [t \in Threads |-> {}]

Call(t) ==
    /\ status[t] = "idle"
    /\ status' = [status EXCEPT ![t] = "called"]
    /\ \E c \in Calls : call' = [call EXCEPT ![t] = c]
    /\ UNCHANGED <<obj, ret>>

TakeEffect(t) ==
    /\ status[t] = "called"
    /\ status' = [status EXCEPT ![t] = "done"]
    /\ obj' = After(call[t], obj)
    /\ ret' = [ret EXCEPT ![t] = obj]
    /\ UNCHANGED call

Return(t) ==
    /\ status[t] = "done"
    /\ status' = [status EXCEPT ![t] = "idle"]
    /\ call' = [call EXCEPT ![t] = NoCall]
    /\ ret' = [ret EXCEPT ![t] = {}]
    /\ UNCHANGED obj

Next == \E t \in Threads : Call(t) \/ TakeEffect(t) \/ Return(t)

Spec == Init /\ [][Next]_vars
=============================================================================
