------------------------------- MODULE CFifo --------------------------------
(***************************************************************************)
(* The array queue of src/fifo/cfifo.c.  Every atomic load, compare-and-   *)
(* swap or fetch-and-add of cfifo_push and cfifo_pop is a step of its own; *)
(* a thread's locals are kept between steps.  head, tail and sentinel are  *)
(* size_t counters that only grow; they are natural numbers here, so the   *)
(* model covers the first 2^64 pushes of a queue.                          *)
(***************************************************************************)
EXTENDS Integers, Sequences, FiniteSets

CONSTANTS Producers, Consumers,  \* threads inside cfifo_push, cfifo_pop
          Values, NoValue,       \* what is pushed; NULL and uninitialised slots
          Capacity,              \* the size given to cfifo_alloc
          MaxPush                \* the sets of threads that may share a queue; bound:
                                 \* no push starts once tail reaches MaxPush[cast]

ASSUME CFifoAssumption ==
    /\ Capacity \in Nat
    /\ IsFiniteSet(Producers) /\ IsFiniteSet(Consumers)
    /\ Producers \cap Consumers = {}
    /\ DOMAIN MaxPush \subseteq SUBSET (Producers \cup Consumers)
    /\ \A c \in DOMAIN MaxPush : MaxPush[c] \in Nat
    /\ NoValue \notin Values

VARIABLES head, tail, sentinel, used, buffer,  \* struct _cfifo_s_
          pc,         \* next step of each thread
          ltail,      \* cfifo_push's local tail
          lsentinel,  \* cfifo_pop's local sentinel
          lhead,      \* cfifo_pop's local head
          lvalue,     \* the value pushed, or read from the slot
          claimed,    \* history: values in the order their slots were claimed
          delivered,  \* history: values in the order they were popped
          cast        \* the threads that use this queue

shared == <<head, tail, sentinel, used, buffer>>
locals == <<ltail, lsentinel, lhead, lvalue>>
history == <<claimed, delivered>>
vars == <<shared, pc, locals, history, cast>>

Threads == Producers \cup Consumers

(* cfifo_alloc reserves one more slot than asked for, "for full & empty". *)
size == Capacity + 1

Slot(i) == i % size

Init ==
    /\ head = 0 /\ tail = 0 /\ sentinel = 0 /\ used = 0
    /\ buffer = [i \in 0..Capacity |-> NoValue]
    /\ pc = [t \in Threads |-> "idle"]
    /\ ltail = [p \in Producers |-> 0]
    /\ lsentinel = [c \in Consumers |-> 0]
    /\ lhead = [c \in Consumers |-> 0]
    /\ lvalue = [t \in Threads |-> NoValue]
    /\ claimed = << >> /\ delivered = << >>
    /\ cast \in DOMAIN MaxPush

Goto(t, from, to) == pc[t] = from /\ pc' = [pc EXCEPT ![t] = to] /\ UNCHANGED cast

-----------------------------------------------------------------------------
(* cfifo_push *)

PushCall(p, v) ==
    /\ p \in cast
    /\ tail < MaxPush[cast]
    /\ Goto(p, "idle", "load_tail")
    /\ lvalue' = [lvalue EXCEPT ![p] = v]
    /\ UNCHANGED <<shared, ltail, lsentinel, lhead, history>>

PushLoadTail(p) ==
    /\ Goto(p, "load_tail", "load_head")
    /\ ltail' = [ltail EXCEPT ![p] = tail]
    /\ UNCHANGED <<shared, lsentinel, lhead, lvalue, history>>

(* Mutant of PushLoadHead: a second slot is kept free. *)
PushLoadHead_Early(p) ==
    /\ Goto(p, "load_head",
            IF Slot(ltail[p] + 1) = Slot(head) \/ Slot(ltail[p] + 2) = Slot(head)
            THEN "idle" ELSE "cas_tail")
    /\ UNCHANGED <<shared, locals, history>>

(* Loads head and compares: a push that finds the ring full returns -1. *)
PushLoadHead(p) ==
    /\ Goto(p, "load_head",
            IF Slot(ltail[p] + 1) = Slot(head) THEN "idle" ELSE "cas_tail")
    /\ UNCHANGED <<shared, locals, history>>

(* Mutant of PushCasTail: a store where the compare-and-swap should be. *)
PushCasTail_Store(p) ==
    /\ Goto(p, "cas_tail", "write")
    /\ tail' = ltail[p] + 1
    /\ claimed' = Append(claimed, lvalue[p])
    /\ UNCHANGED <<head, sentinel, used, buffer, locals, delivered>>

PushCasTail(p) ==
    \/ /\ tail = ltail[p]
       /\ Goto(p, "cas_tail", "write")
       /\ tail' = tail + 1
       /\ claimed' = Append(claimed, lvalue[p])
       /\ UNCHANGED <<head, sentinel, used, buffer, locals, delivered>>
    \/ /\ tail # ltail[p]
       /\ Goto(p, "cas_tail", "load_tail")
       /\ UNCHANGED <<shared, locals, history>>

PushWrite(p) ==
    /\ Goto(p, "write", "publish")
    /\ buffer' = [buffer EXCEPT ![Slot(ltail[p])] = lvalue[p]]
    /\ UNCHANGED <<head, tail, sentinel, used, locals, history>>

(* Mutant of PushPublish: moves the sentinel without waiting its turn. *)
PushPublish_NoWait(p) ==
    /\ Goto(p, "publish", "count")
    /\ sentinel' = sentinel + 1
    /\ UNCHANGED <<head, tail, used, buffer, locals, history>>

(* Mutant of PushPublish: waits to be the last claim instead of the next. *)
PushPublish_WaitForTail(p) ==
    /\ Goto(p, "publish", "count")
    /\ sentinel = tail - 1
    /\ sentinel' = sentinel + 1
    /\ UNCHANGED <<head, tail, used, buffer, locals, history>>

(* Spins until the sentinel reaches its own ticket, then moves it on. *)
PushPublish(p) ==
    /\ Goto(p, "publish", "count")
    /\ sentinel = ltail[p]
    /\ sentinel' = sentinel + 1
    /\ UNCHANGED <<head, tail, used, buffer, locals, history>>

PushCount(p) ==
    /\ Goto(p, "count", "idle")
    /\ used' = used + 1
    /\ UNCHANGED <<head, tail, sentinel, buffer, locals, history>>

-----------------------------------------------------------------------------
(* cfifo_pop *)

PopCall(c) ==
    /\ c \in cast
    /\ Goto(c, "idle", "load_sentinel")
    /\ UNCHANGED <<shared, locals, history>>

PopLoadSentinel(c) ==
    /\ Goto(c, "load_sentinel", "load_head")
    /\ lsentinel' = [lsentinel EXCEPT ![c] = sentinel]
    /\ UNCHANGED <<shared, ltail, lhead, lvalue, history>>

(* Loads head and compares: a pop that finds the ring empty returns NULL. *)
PopLoadHead(c) ==
    /\ Goto(c, "load_head",
            IF Slot(head) = Slot(lsentinel[c]) THEN "idle" ELSE "read")
    /\ lhead' = [lhead EXCEPT ![c] = head]
    /\ UNCHANGED <<shared, ltail, lsentinel, lvalue, history>>

PopRead(c) ==
    /\ Goto(c, "read", "cas_head")
    /\ lvalue' = [lvalue EXCEPT ![c] = buffer[Slot(lhead[c])]]
    /\ UNCHANGED <<shared, ltail, lsentinel, lhead, history>>

PopCasHead(c) ==
    \/ /\ head = lhead[c]
       /\ Goto(c, "cas_head", "count")
       /\ head' = head + 1
       /\ delivered' = Append(delivered, lvalue[c])
       /\ UNCHANGED <<tail, sentinel, used, buffer, locals, claimed>>
    \/ /\ head # lhead[c]
       /\ Goto(c, "cas_head", "load_sentinel")
       /\ UNCHANGED <<shared, locals, history>>

(* Mutant of PopCount: the popped value is not taken off the count. *)
PopCount_Forgotten(c) ==
    /\ Goto(c, "count", "idle")
    /\ UNCHANGED <<shared, locals, history>>

PopCount(c) ==
    /\ Goto(c, "count", "idle")
    /\ used' = used - 1
    /\ UNCHANGED <<head, tail, sentinel, buffer, locals, history>>

-----------------------------------------------------------------------------
PushStep(p) ==
    \/ PushLoadTail(p) \/ PushLoadHead(p) \/ PushCasTail(p)
    \/ PushWrite(p) \/ PushPublish(p) \/ PushCount(p)

PopStep(c) ==
    \/ PopLoadSentinel(c) \/ PopLoadHead(c) \/ PopRead(c)
    \/ PopCasHead(c) \/ PopCount(c)

Next ==
    \/ \E p \in Producers : PushStep(p) \/ \E v \in Values : PushCall(p, v)
    \/ \E c \in Consumers : PopStep(c) \/ PopCall(c)

Spec == Init /\ [][Next]_vars

(* A thread inside a call keeps running; nobody has to call. *)
FairSpec ==
    /\ Spec
    /\ \A p \in Producers : WF_vars(PushStep(p))
    /\ \A c \in Consumers : WF_vars(PopStep(c))

-----------------------------------------------------------------------------
(* Properties *)

PushPc == {"idle", "load_tail", "load_head", "cas_tail", "write", "publish", "count"}
PopPc == {"idle", "load_sentinel", "load_head", "read", "cas_head", "count"}

(* Every variable has the type of its C declaration (cfifo.c:15-22). *)
TypeOK ==
    /\ head \in Nat /\ tail \in Nat /\ sentinel \in Nat /\ used \in Int
    /\ buffer \in [0..Capacity -> Values \cup {NoValue}]
    /\ pc \in [Threads -> PushPc \cup PopPc]
    /\ \A p \in Producers : pc[p] \in PushPc
    /\ \A c \in Consumers : pc[c] \in PopPc
    /\ ltail \in [Producers -> Nat]
    /\ lsentinel \in [Consumers -> Nat]
    /\ lhead \in [Consumers -> Nat]
    /\ lvalue \in [Threads -> Values \cup {NoValue}]
    /\ claimed \in Seq(Values)
    /\ delivered \in Seq(Values \cup {NoValue})
    /\ cast \in DOMAIN MaxPush

(* The rest of the file speaks of a queue with one consumer wherever two      *)
(* would let the head overtake the sentinel; TakesOnlyPublished shows that.   *)
OneConsumer == \A c, d \in cast \cap Consumers : c = d

(* The ring never holds more than it was allocated for, and a reader never   *)
(* passes the last writer that is done: head, sentinel and tail stay in that *)
(* order and within Capacity of each other (cfifo.c:65, 72, 95).             *)
Ordered ==
    OneConsumer => head <= sentinel /\ sentinel <= tail /\ tail - head <= Capacity

(* "avoiding w/w race", "avoiding r/w race" (cfifo.c:69, 98): no two         *)
(* producers are about to write one slot, and none is about to write the     *)
(* slot a consumer is about to read.                                         *)
NoSlotRace ==
    OneConsumer =>
        \A p \in Producers : pc[p] = "write" =>
            /\ \A q \in Producers \ {p} :
                  pc[q] = "write" => Slot(ltail[q]) # Slot(ltail[p])
            /\ \A c \in Consumers :
                  pc[c] = "read" => Slot(lhead[c]) # Slot(ltail[p])

(* The counter behind cfifo_size is the number of published values, up to    *)
(* the calls that have yet to count theirs (cfifo.c:79, 102), with any       *)
(* number of consumers; between calls it is exact.                           *)
UsedAgrees ==
    used = sentinel - head
           - Cardinality({p \in Producers : pc[p] = "count"})
           + Cardinality({c \in Consumers : pc[c] = "count"})

(* A pop takes a slot only after its writer has moved the sentinel past it:  *)
(* "then update sentinel to tell reader that writer is done" (cfifo.c:72).   *)
TakesOnlyPublished == [][head' # head => head < sentinel]_vars

(* cfifo_pop gives up as "empty" only when the ring was empty as it loaded   *)
(* the sentinel: equal slots are equal counters (cfifo.c:95-97).  cfifo_push *)
(* gives up as "full" only when Capacity slots are claimed, unless another   *)
(* push claimed one between its two loads (cfifo.c:63-67): a stale tail can  *)
(* look like a full ring that has room.                                      *)
RefusesRightly ==
    [][OneConsumer =>
         /\ \A c \in Consumers :
              pc[c] = "load_head" /\ pc'[c] = "idle" => lsentinel[c] = head
         /\ \A p \in Producers :
              pc[p] = "load_head" /\ pc'[p] = "idle" /\ ltail[p] = tail
                => tail - head = Capacity]_vars

(* The published part of a ring with one consumer implements a bounded       *)
(* queue: the sentinel step is the enqueue, the head step the dequeue.       *)
Queue == INSTANCE BoundedQueue WITH
    queue <- IF OneConsumer
             THEN [i \in 1..(sentinel - head) |-> buffer[Slot(head + i - 1)]]
             ELSE << >>,
    delivered <- IF OneConsumer THEN delivered ELSE << >>

RefinesQueue == Queue!Spec

(* Every call returns: no push waits forever for the sentinel, no            *)
(* compare-and-swap loop retries forever once the pushes run out.            *)
EveryCallReturns == \A t \in Threads : pc[t] # "idle" ~> pc[t] = "idle"
=============================================================================
