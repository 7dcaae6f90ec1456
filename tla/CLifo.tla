------------------------------- MODULE CLifo --------------------------------
(***************************************************************************)
(* The array stack of src/lifo/clifo.c.  A call first moves head with a    *)
(* compare-and-swap, which gives it a slot, and then takes that slot's     *)
(* lock: a pusher waits for EMPTY, a popper for FULL, so a pop can reach   *)
(* its slot before the push that fills it ("dual-data structure").  The    *)
(* spinning compare-and-swap of NST_PP_LOCK is a step that waits.          *)
(***************************************************************************)
EXTENDS Integers, Sequences, FiniteSets

CONSTANTS Threads,          \* callers of clifo_push and clifo_pop
          Values, NoValue,  \* bound: every push brings a value not seen before
          Size              \* the size given to clifo_alloc

ASSUME CLifoAssumption ==
    /\ IsFiniteSet(Threads)
    /\ Size \in Nat \ {0}
    /\ NoValue \notin Values

VARIABLES head, lock, buffer,  \* struct _clifo_s_
          pc,      \* next step of each thread
          lhead,   \* the thread's local head
          lvalue,  \* the value pushed, or read from the slot
          given,   \* history: values whose push got a slot
          taken,   \* history: values returned by a pop
          turns    \* the callers take turns: no call overlaps another

vars == <<head, lock, buffer, pc, lhead, lvalue, given, taken, turns>>

Slots == 0..(Size - 1)

Init ==
    /\ head = 0
    /\ lock = [i \in Slots |-> "EMPTY"]
    /\ buffer = [i \in Slots |-> NoValue]
    /\ pc = [t \in Threads |-> "idle"]
    /\ lhead = [t \in Threads |-> 0]
    /\ lvalue = [t \in Threads |-> NoValue]
    /\ given = {} /\ taken = {}
    /\ turns \in BOOLEAN

Goto(t, from, to) == pc[t] = from /\ pc' = [pc EXCEPT ![t] = to]

MayCall == turns => \A t \in Threads : pc[t] = "idle"

PushSlot(t) == lhead[t]
PopSlot(t) == lhead[t] - 1

-----------------------------------------------------------------------------
(* clifo_push *)

PushCall(t, v) ==
    /\ MayCall
    /\ v \notin given
    /\ \A u \in Threads : lvalue[u] # v
    /\ Goto(t, "idle", "push_load")
    /\ lvalue' = [lvalue EXCEPT ![t] = v]
    /\ UNCHANGED <<head, lock, buffer, lhead, given, taken, turns>>

(* The last slot is never used: head stops at size - 1 and the push returns -1. *)
PushLoad(t) ==
    /\ Goto(t, "push_load", IF head = Size - 1 THEN "idle" ELSE "push_cas")
    /\ lhead' = [lhead EXCEPT ![t] = head]
    /\ UNCHANGED <<head, lock, buffer, lvalue, given, taken, turns>>

PushCas(t) ==
    \/ /\ head = lhead[t]
       /\ Goto(t, "push_cas", "push_lock")
       /\ head' = head + 1
       /\ given' = given \cup {lvalue[t]}
       /\ UNCHANGED <<lock, buffer, lhead, lvalue, taken, turns>>
    \/ /\ head # lhead[t]
       /\ Goto(t, "push_cas", "push_load")
       /\ UNCHANGED <<head, lock, buffer, lhead, lvalue, given, taken, turns>>

(* Mutant of PushLock: takes the lock in any state. *)
PushLock_AnyState(t) ==
    /\ Goto(t, "push_lock", "push_write")
    /\ lock' = [lock EXCEPT ![PushSlot(t)] = "BUSY"]
    /\ UNCHANGED <<head, buffer, lhead, lvalue, given, taken, turns>>

(* Mutant of PushLock: a full slot is as good as an empty one. *)
PushLock_NotBusy(t) ==
    /\ Goto(t, "push_lock", "push_write")
    /\ lock[PushSlot(t)] # "BUSY"
    /\ lock' = [lock EXCEPT ![PushSlot(t)] = "BUSY"]
    /\ UNCHANGED <<head, buffer, lhead, lvalue, given, taken, turns>>

PushLock(t) ==
    /\ Goto(t, "push_lock", "push_write")
    /\ lock[PushSlot(t)] = "EMPTY"
    /\ lock' = [lock EXCEPT ![PushSlot(t)] = "BUSY"]
    /\ UNCHANGED <<head, buffer, lhead, lvalue, given, taken, turns>>

PushWrite(t) ==
    /\ Goto(t, "push_write", "push_unlock")
    /\ buffer' = [buffer EXCEPT ![PushSlot(t)] = lvalue[t]]
    /\ UNCHANGED <<head, lock, lhead, lvalue, given, taken, turns>>

(* Mutant of PushUnlock: releases the slot in a popper's way. *)
PushUnlock_Empty(t) ==
    /\ Goto(t, "push_unlock", "idle")
    /\ lock' = [lock EXCEPT ![PushSlot(t)] = "EMPTY"]
    /\ UNCHANGED <<head, buffer, lhead, lvalue, given, taken, turns>>

PushUnlock(t) ==
    /\ Goto(t, "push_unlock", "idle")
    /\ lock' = [lock EXCEPT ![PushSlot(t)] = "FULL"]
    /\ UNCHANGED <<head, buffer, lhead, lvalue, given, taken, turns>>

-----------------------------------------------------------------------------
(* clifo_pop *)

PopCall(t) ==
    /\ MayCall
    /\ Goto(t, "idle", "pop_load")
    /\ lvalue' = [lvalue EXCEPT ![t] = NoValue]
    /\ UNCHANGED <<head, lock, buffer, lhead, given, taken, turns>>

PopLoad(t) ==
    /\ Goto(t, "pop_load", IF head = 0 THEN "idle" ELSE "pop_cas")
    /\ lhead' = [lhead EXCEPT ![t] = head]
    /\ UNCHANGED <<head, lock, buffer, lvalue, given, taken, turns>>

(* Mutant of PopCas: a store where the compare-and-swap should be. *)
PopCas_Store(t) ==
    /\ Goto(t, "pop_cas", "pop_lock")
    /\ head' = lhead[t] - 1
    /\ UNCHANGED <<lock, buffer, lhead, lvalue, given, taken, turns>>

PopCas(t) ==
    \/ /\ head = lhead[t]
       /\ Goto(t, "pop_cas", "pop_lock")
       /\ head' = head - 1
       /\ UNCHANGED <<lock, buffer, lhead, lvalue, given, taken, turns>>
    \/ /\ head # lhead[t]
       /\ Goto(t, "pop_cas", "pop_load")
       /\ UNCHANGED <<head, lock, buffer, lhead, lvalue, given, taken, turns>>

PopLock(t) ==
    /\ Goto(t, "pop_lock", "pop_read")
    /\ lock[PopSlot(t)] = "FULL"
    /\ lock' = [lock EXCEPT ![PopSlot(t)] = "BUSY"]
    /\ UNCHANGED <<head, buffer, lhead, lvalue, given, taken, turns>>

(* Mutant of PopRead: reads at head instead of next. *)
PopRead_AtHead(t) ==
    /\ Goto(t, "pop_read", "pop_unlock")
    /\ lvalue' = [lvalue EXCEPT ![t] = buffer[lhead[t]]]
    /\ UNCHANGED <<head, lock, buffer, lhead, given, taken, turns>>

PopRead(t) ==
    /\ Goto(t, "pop_read", "pop_unlock")
    /\ lvalue' = [lvalue EXCEPT ![t] = buffer[PopSlot(t)]]
    /\ UNCHANGED <<head, lock, buffer, lhead, given, taken, turns>>

(* Mutant of PopUnlock: releases the slot in a pusher's way. *)
PopUnlock_Full(t) ==
    /\ Goto(t, "pop_unlock", "idle")
    /\ lock' = [lock EXCEPT ![PopSlot(t)] = "FULL"]
    /\ taken' = taken \cup {lvalue[t]}
    /\ UNCHANGED <<head, buffer, lhead, lvalue, given, turns>>

PopUnlock(t) ==
    /\ Goto(t, "pop_unlock", "idle")
    /\ lock' = [lock EXCEPT ![PopSlot(t)] = "EMPTY"]
    /\ taken' = taken \cup {lvalue[t]}
    /\ UNCHANGED <<head, buffer, lhead, lvalue, given, turns>>

-----------------------------------------------------------------------------
Step(t) ==
    \/ PushLoad(t) \/ PushCas(t) \/ PushLock(t) \/ PushWrite(t) \/ PushUnlock(t)
    \/ PopLoad(t) \/ PopCas(t) \/ PopLock(t) \/ PopRead(t) \/ PopUnlock(t)

Next ==
    \E t \in Threads : Step(t) \/ PopCall(t) \/ \E v \in Values : PushCall(t, v)

Spec == Init /\ [][Next]_vars

(* A thread inside a call keeps running; nobody has to call. *)
FairSpec == Spec /\ \A t \in Threads : WF_vars(Step(t))

-----------------------------------------------------------------------------
(* Properties *)

Pcs == {"idle", "push_load", "push_cas", "push_lock", "push_write", "push_unlock",
        "pop_load", "pop_cas", "pop_lock", "pop_read", "pop_unlock"}

(* Every variable has the type of its C declaration; head stays in the array. *)
TypeOK ==
    /\ head \in Slots
    /\ lock \in [Slots -> {"EMPTY", "BUSY", "FULL"}]
    /\ buffer \in [Slots -> Values \cup {NoValue}]
    /\ pc \in [Threads -> Pcs]
    /\ lhead \in [Threads -> Slots]
    /\ lvalue \in [Threads -> Values \cup {NoValue}]
    /\ given \subseteq Values
    /\ taken \subseteq Values \cup {NoValue}
    /\ turns \in BOOLEAN

PushWaits(i) == {t \in Threads : pc[t] = "push_lock" /\ PushSlot(t) = i}
PopWaits(i) == {t \in Threads : pc[t] = "pop_lock" /\ PopSlot(t) = i}
Pushing(i) == {t \in Threads : pc[t] \in {"push_write", "push_unlock"} /\ PushSlot(t) = i}
Popping(i) == {t \in Threads : pc[t] \in {"pop_read", "pop_unlock"} /\ PopSlot(t) = i}

(* The slot lock of NST_PP_LOCK is a mutual exclusion: a slot is BUSY exactly *)
(* while one thread, pushing or popping, is between its lock and unlock.      *)
SlotExclusive ==
    \A i \in Slots :
        /\ \A t, u \in Pushing(i) \cup Popping(i) : t = u
        /\ (lock[i] = "BUSY") <=> (Pushing(i) \cup Popping(i) # {})

(* No caller of clifo_pop waits for a value nobody brings, and no caller of   *)
(* clifo_push for room nobody makes: whoever waits at a slot in the opposite  *)
(* state has a partner waiting there or holding it.                           *)
WaiterHasPartner ==
    \A i \in Slots :
        /\ PopWaits(i) # {} /\ lock[i] = "EMPTY" => PushWaits(i) # {}
        /\ PushWaits(i) # {} /\ lock[i] = "FULL" => PopWaits(i) # {}

(* Between calls the array is a stack: the slots below head are FULL, the     *)
(* others EMPTY, whatever order the calls that got there were interleaved in. *)
QuietShape ==
    (\A t \in Threads : pc[t] \in {"idle", "push_load", "push_cas", "pop_load", "pop_cas"})
      => \A i \in Slots : lock[i] = IF i < head THEN "FULL" ELSE "EMPTY"

(* The places a value that was given can be. *)
Homes(v) ==
    {<<"pusher", t>> : t \in {u \in Threads : lvalue[u] = v
                                /\ pc[u] \in {"push_lock", "push_write"}}}
    \cup {<<"slot", i>> : i \in {j \in Slots : buffer[j] = v /\
            \/ lock[j] = "FULL"
            \/ \E t \in Pushing(j) : pc[t] = "push_unlock"
            \/ \E t \in Popping(j) : pc[t] = "pop_read"}}
    \cup {<<"popper", t>> : t \in {u \in Threads : lvalue[u] = v /\ pc[u] = "pop_unlock"}}
    \cup IF v \in taken THEN {<<"taken">>} ELSE {}

(* Nothing is lost and nothing comes out twice: a value whose push got a slot *)
(* is in exactly one place, with its pusher, in a slot, with its popper or    *)
(* returned.                                                                  *)
Conserved == \A v \in given : Cardinality(Homes(v)) = 1

Filled == {i \in Slots : lock[i] = "FULL" \/ Popping(i) # {}}
Stack == INSTANCE BoundedStack WITH
    stack <- IF turns THEN [k \in 1..Cardinality(Filled) |-> buffer[k - 1]] ELSE << >>,
    taken <- IF turns THEN taken ELSE {},
    Depth <- Size - 1

(* A stack, for callers that take turns: clifo_pop returns what was pushed    *)
(* last and is still there (clifo.c:69-119).                                  *)
RefinesStack == Stack!Spec

(* Every call returns: the spin on a slot's lock ends, for pushers and        *)
(* poppers that meet at the same slot in any order.                           *)
EveryCallReturns == \A t \in Threads : pc[t] # "idle" ~> pc[t] = "idle"
=============================================================================
