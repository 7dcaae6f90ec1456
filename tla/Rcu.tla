-------------------------------- MODULE Rcu ---------------------------------
(***************************************************************************)
(* Deferred reclamation of src/runtime/rcu.c.  Threads sit on a ring.  A   *)
(* thread that has queued enough objects posts its queue head to the next  *)
(* thread; each thread passes a posted head on from rcu_update, where it   *)
(* holds no reference; once the head is back at its owner the owner frees  *)
(* up to it.  A queue (fifo_t) is the sequence of everything ever put on   *)
(* it: head is its length, the slots before tail have been freed, and the  *)
(* assertion of rcu_defer_free keeps the circular buffer from overwriting. *)
(***************************************************************************)
EXTENDS Integers, Sequences, FiniteSets

CONSTANTS N,          \* threads that call nbd_thread_init, numbered from 0
          Objects,    \* bound: each is deferred at most once
          Threshold,  \* RCU_POST_THRESHOLD
          QueueSize,  \* 1 << RCU_QUEUE_SCALE
          Barrier     \* TRUE: work starts when every thread has joined, as the
                      \* worker threads of test/ wait for each other

ASSUME RcuAssumption ==
    /\ N \in Nat \ {0}
    /\ Threshold \in Nat
    /\ QueueSize \in Nat \ {0}
    /\ Barrier \in BOOLEAN

Tids == 0..(N - 1)

VARIABLES joined,           \* threads with pending_[t] # NULL
          rcu,              \* rcu_[t][i]: head of i's queue as known to t
          rcu_last_posted,  \* rcu_last_posted_[t][i]
          pending, tail,    \* fifo_t of each thread
          pc, next_thread_index, i, x,  \* locals of rcu_update
          held,             \* objects a thread has a reference to
          object            \* "linked", "retired" (deferred) or "freed"

ring == <<joined, rcu, rcu_last_posted>>
queues == <<pending, tail>>
locals == <<pc, next_thread_index, i, x>>
vars == <<ring, queues, locals, held, object>>

num_threads == Cardinality(joined)

head(t) == Len(pending[t])

Init ==
    /\ joined = {}
    /\ rcu = [t \in Tids |-> [j \in Tids |-> 0]]
    /\ rcu_last_posted = [t \in Tids |-> [j \in Tids |-> 0]]
    /\ pending = [t \in Tids |-> << >>]
    /\ tail = [t \in Tids |-> 0]
    /\ pc = [t \in Tids |-> "idle"]
    /\ next_thread_index = [t \in Tids |-> 0]
    /\ i = [t \in Tids |-> 0]
    /\ x = [t \in Tids |-> 0]
    /\ held = [t \in Tids |-> {}]
    /\ object = [o \in Objects |-> "linked"]

(* The thread may call: it has joined, the barrier is passed and no            *)
(* assertion has ended the process.                                            *)
Running(t) ==
    /\ t \in joined
    /\ Barrier => joined = Tids
    /\ \A u \in Tids : pc[u] # "abort"

(* rcu_thread_init *)
ThreadInit(t) ==
    /\ t \notin joined
    /\ \A u \in Tids : pc[u] # "abort"
    /\ joined' = joined \cup {t}
    /\ UNCHANGED <<rcu, rcu_last_posted, queues, locals, held, object>>

(* The client picks up a reference to an object it can still reach. *)
Acquire(t, o) ==
    /\ Running(t) /\ pc[t] = "idle"
    /\ object[o] = "linked"
    /\ held' = [held EXCEPT ![t] = @ \cup {o}]
    /\ UNCHANGED <<ring, queues, locals, object>>

-----------------------------------------------------------------------------
(* rcu_defer_free, called by the thread that unlinked the object.  Only the  *)
(* store to rcu_[next] touches what another thread reads, so the call is one *)
(* step.                                                                     *)

DeferFree(t, o) ==
    /\ Running(t) /\ pc[t] = "idle"
    /\ object[o] = "linked"
    /\ head(t) + 1 - tail[t] # QueueSize
    /\ object' = [object EXCEPT ![o] = "retired"]
    /\ pending' = [pending EXCEPT ![t] = Append(@, o)]
    /\ IF head(t) + 1 - rcu_last_posted[t][t] >= Threshold
       THEN /\ rcu' = [rcu EXCEPT ![(t + 1) % num_threads][t] = head(t) + 1]
            /\ rcu_last_posted' = [rcu_last_posted EXCEPT ![t][t] = head(t) + 1]
       ELSE UNCHANGED <<rcu, rcu_last_posted>>
    /\ UNCHANGED <<joined, tail, locals, held>>

(* assert(MOD_SCALE(q->head + 1, q->scale) != MOD_SCALE(q->tail, q->scale)) *)
DeferFreeAborts(t) ==
    /\ Running(t) /\ pc[t] = "idle"
    /\ \E o \in Objects : object[o] = "linked"
    /\ head(t) + 1 - tail[t] = QueueSize
    /\ pc' = [pc EXCEPT ![t] = "abort"]
    /\ UNCHANGED <<ring, queues, next_thread_index, i, x, held, object>>

-----------------------------------------------------------------------------
(* rcu_update: the caller has let go of every reference. *)

UpdateCall(t) ==
    /\ Running(t) /\ pc[t] = "idle"
    /\ pc' = [pc EXCEPT ![t] = "check"]
    /\ next_thread_index' = [next_thread_index EXCEPT ![t] = (t + 1) % num_threads]
    /\ i' = [i EXCEPT ![t] = 0]
    /\ held' = [held EXCEPT ![t] = {}]
    /\ UNCHANGED <<ring, queues, x, object>>

(* Mutant of UpdateCheck: a thread passes its own head on as well. *)
UpdateCheck_Self(t) ==
    /\ Running(t) /\ pc[t] = "check"
    /\ \/ i[t] >= num_threads /\ pc' = [pc EXCEPT ![t] = "free"] /\ UNCHANGED i
       \/ /\ i[t] < num_threads /\ rcu[t][i[t]] = rcu_last_posted[t][i[t]]
          /\ i' = [i EXCEPT ![t] = @ + 1] /\ UNCHANGED pc
       \/ /\ i[t] < num_threads /\ rcu[t][i[t]] # rcu_last_posted[t][i[t]]
          /\ pc' = [pc EXCEPT ![t] = "load"] /\ UNCHANGED i
    /\ UNCHANGED <<ring, queues, next_thread_index, x, held, object>>

(* Mutant of UpdateCheck: the loop ends one thread early. *)
UpdateCheck_Short(t) ==
    /\ Running(t) /\ pc[t] = "check"
    /\ \/ i[t] >= num_threads - 1 /\ pc' = [pc EXCEPT ![t] = "free"] /\ UNCHANGED i
       \/ /\ i[t] < num_threads - 1
          /\ i[t] = t \/ rcu[t][i[t]] = rcu_last_posted[t][i[t]]
          /\ i' = [i EXCEPT ![t] = @ + 1] /\ UNCHANGED pc
       \/ /\ i[t] < num_threads - 1
          /\ i[t] # t /\ rcu[t][i[t]] # rcu_last_posted[t][i[t]]
          /\ pc' = [pc EXCEPT ![t] = "load"] /\ UNCHANGED i
    /\ UNCHANGED <<ring, queues, next_thread_index, x, held, object>>

(* One turn of the loop up to the comparison; num_threads_ is read again. *)
UpdateCheck(t) ==
    /\ Running(t) /\ pc[t] = "check"
    /\ \/ /\ i[t] >= num_threads
          /\ pc' = [pc EXCEPT ![t] = "free"]
          /\ UNCHANGED i
       \/ /\ i[t] < num_threads
          /\ i[t] = t \/ rcu[t][i[t]] = rcu_last_posted[t][i[t]]
          /\ i' = [i EXCEPT ![t] = @ + 1]
          /\ UNCHANGED pc
       \/ /\ i[t] < num_threads
          /\ i[t] # t /\ rcu[t][i[t]] # rcu_last_posted[t][i[t]]
          /\ pc' = [pc EXCEPT ![t] = "load"]
          /\ UNCHANGED i
    /\ UNCHANGED <<ring, queues, next_thread_index, x, held, object>>

UpdateLoad(t) ==
    /\ Running(t) /\ pc[t] = "load"
    /\ x' = [x EXCEPT ![t] = rcu[t][i[t]]]
    /\ pc' = [pc EXCEPT ![t] = "store"]
    /\ UNCHANGED <<ring, queues, next_thread_index, i, held, object>>

UpdateStore(t) ==
    /\ Running(t) /\ pc[t] = "store"
    /\ rcu' = [rcu EXCEPT ![next_thread_index[t]][i[t]] = x[t]]
    /\ rcu_last_posted' = [rcu_last_posted EXCEPT ![t][i[t]] = x[t]]
    /\ pc' = [pc EXCEPT ![t] = "check"]
    /\ i' = [i EXCEPT ![t] = @ + 1]
    /\ UNCHANGED <<joined, queues, next_thread_index, x, held, object>>

(* Mutant of UpdateFree: frees what was posted, not what came back. *)
UpdateFree_Posted(t) ==
    /\ Running(t) /\ pc[t] = "free"
    /\ \/ /\ tail[t] # rcu_last_posted[t][t]
          /\ object' = [object EXCEPT ![pending[t][tail[t] + 1]] = "freed"]
          /\ tail' = [tail EXCEPT ![t] = @ + 1]
          /\ UNCHANGED pc
       \/ /\ tail[t] = rcu_last_posted[t][t]
          /\ pc' = [pc EXCEPT ![t] = "idle"]
          /\ UNCHANGED <<object, tail>>
    /\ UNCHANGED <<ring, pending, next_thread_index, i, x, held>>

(* Mutant of UpdateFree: the tail stays behind. *)
UpdateFree_SameTail(t) ==
    /\ Running(t) /\ pc[t] = "free"
    /\ \/ /\ tail[t] # rcu[t][t]
          /\ object' = [object EXCEPT ![pending[t][tail[t] + 1]] = "freed"]
          /\ UNCHANGED <<pc, tail>>
       \/ /\ tail[t] = rcu[t][t]
          /\ pc' = [pc EXCEPT ![t] = "idle"]
          /\ UNCHANGED <<object, tail>>
    /\ UNCHANGED <<ring, pending, next_thread_index, i, x, held>>

(* One turn of the free loop, or its end. *)
UpdateFree(t) ==
    /\ Running(t) /\ pc[t] = "free"
    /\ \/ /\ tail[t] # rcu[t][t]
          /\ object' = [object EXCEPT ![pending[t][tail[t] + 1]] = "freed"]
          /\ tail' = [tail EXCEPT ![t] = @ + 1]
          /\ UNCHANGED pc
       \/ /\ tail[t] = rcu[t][t]
          /\ pc' = [pc EXCEPT ![t] = "idle"]
          /\ UNCHANGED <<object, tail>>
    /\ UNCHANGED <<ring, pending, next_thread_index, i, x, held>>

UpdateStep(t) ==
    UpdateCheck(t) \/ UpdateLoad(t) \/ UpdateStore(t) \/ UpdateFree(t)

-----------------------------------------------------------------------------
Next ==
    \E t \in Tids :
        \/ ThreadInit(t) \/ UpdateCall(t) \/ UpdateStep(t) \/ DeferFreeAborts(t)
        \/ \E o \in Objects : Acquire(t, o) \/ DeferFree(t, o)

Spec == Init /\ [][Next]_vars

(* Threads start, and each one that updates does so again and again, as the  *)
(* loops of test/ do after every operation.                                  *)
FairSpec ==
    /\ Spec
    /\ \A t \in Tids : WF_vars(ThreadInit(t))
    /\ \A t \in Tids : WF_vars(UpdateCall(t)) /\ WF_vars(UpdateStep(t))

-----------------------------------------------------------------------------
(* Properties *)

(* Every variable has its type; a posted head is a position of its queue.    *)
TypeOK ==
    /\ joined \subseteq Tids
    /\ rcu \in [Tids -> [Tids -> Nat]]
    /\ rcu_last_posted \in [Tids -> [Tids -> Nat]]
    /\ pending \in [Tids -> Seq(Objects)]
    /\ tail \in [Tids -> Nat]
    /\ pc \in [Tids -> {"idle", "check", "load", "store", "free", "abort"}]
    /\ next_thread_index \in [Tids -> Tids]
    /\ i \in [Tids -> Nat]
    /\ x \in [Tids -> Nat]
    /\ held \in [Tids -> SUBSET Objects]
    /\ object \in [Objects -> {"linked", "retired", "freed"}]

(* Grace period: no object is freed while a thread still has a reference to  *)
(* it (rcu.c:5, "safe memory reclamation").                                  *)
NoUseAfterFree == \A t \in Tids : \A o \in held[t] : object[o] # "freed"

(* The free loop only meets objects that were deferred and not freed yet: it *)
(* never runs past the head of its queue and never frees twice.              *)
FreesOnlyRetired ==
    \A t \in Tids : pc[t] = "free" /\ tail[t] # rcu[t][t] =>
        /\ tail[t] < head(t)
        /\ object[pending[t][tail[t] + 1]] = "retired"

(* A posted head never falls back, at any thread, though two threads write   *)
(* an entry of rcu_ in turn and the value stored was read two steps before.  *)
PostsGrow == [][\A t, j \in Tids : rcu'[t][j] >= rcu[t][j]]_vars

Posted(o) == \E t \in Tids : \E k \in 1..rcu_last_posted[t][t] : pending[t][k] = o

(* An object up to which a thread has posted its queue is freed in the end,  *)
(* when every thread on the ring keeps calling rcu_update, unless the        *)
(* assertion of rcu_defer_free has ended the process (rcu.c:50-76, 82).      *)
PostedIsFreed ==
    \A o \in Objects :
        Posted(o) ~> object[o] = "freed" \/ \E u \in Tids : pc[u] = "abort"
=============================================================================
