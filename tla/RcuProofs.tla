----------------------------- MODULE RcuProofs ------------------------------
(***************************************************************************)
(* Grace-period safety of Rcu for any number of threads and objects, when  *)
(* every thread joins the ring before the first one works (Barrier).       *)
(*                                                                         *)
(* The argument follows one queue around the ring.  Seen from its owner j, *)
(* thread t has a rank as the thread that sends j's head on (Source) and   *)
(* as the one that receives it (Target); a head that has reached a thread  *)
(* has been sent by every thread before it (Chain), a thread sends only    *)
(* from rcu_update, where it holds nothing, and what it has sent it cannot *)
(* acquire any more (Grace).  So a head that is back at its owner has been *)
(* sent by everybody.                                                      *)
(***************************************************************************)
EXTENDS Rcu, FiniteSetTheorems, TLAPS

Succ(t) == IF t = N - 1 THEN 0 ELSE t + 1

Source(j, t) == IF t >= j THEN t - j ELSE t - j + N
Target(j, t) == IF t > j THEN t - j ELSE t - j + N

InUpdate(t) == pc[t] \in {"check", "load", "store", "free"}

Updating ==
    \A t \in Tids : InUpdate(t) =>
        joined = Tids /\ held[t] = {} /\ next_thread_index[t] = Succ(t)

Locals ==
    \A t \in Tids :
        /\ pc[t] \in {"load", "store"} => i[t] \in Tids /\ i[t] # t
        /\ pc[t] = "store" =>
             rcu_last_posted[t][i[t]] <= x[t] /\ x[t] <= rcu[t][i[t]]

Linked == \A t, j \in Tids : rcu[Succ(t)][j] = rcu_last_posted[t][j]

Bounded ==
    \A t \in Tids :
        /\ rcu_last_posted[t][t] <= head(t)
        /\ tail[t] <= rcu[t][t]
        /\ \A j \in Tids \ {t} : rcu_last_posted[t][j] <= rcu[t][j]

Chain ==
    \A j, t, u \in Tids :
        Source(j, t) < Target(j, u) => rcu[u][j] <= rcu_last_posted[t][j]

Queued ==
    \A t \in Tids : \A k \in 1..head(t) :
        object[pending[t][k]] = IF k <= tail[t] THEN "freed" ELSE "retired"

QueuedOnce ==
    \A t, u \in Tids : \A k \in 1..head(t), m \in 1..head(u) :
        pending[t][k] = pending[u][m] => t = u /\ k = m

Grace ==
    \A t, j \in Tids : t # j =>
        \A k \in 1..head(j) :
            k <= rcu_last_posted[t][j] => pending[j][k] \notin held[t]

IInv ==
    /\ TypeOK /\ Updating /\ Locals /\ Linked /\ Bounded /\ Chain
    /\ Queued /\ QueuedOnce /\ Grace /\ NoUseAfterFree

-----------------------------------------------------------------------------
(* The thread index arithmetic of rcu.c, (t + 1) % num_threads_, is the      *)
(* successor on the ring once everybody has joined.                          *)
LEMMA NextIndex ==
    ASSUME joined = Tids, NEW t \in Tids
    PROVE  num_threads = N /\ (t + 1) % num_threads = Succ(t) /\ Succ(t) \in Tids
<1>1. Cardinality(0..(N - 1)) = N
  BY RcuAssumption, FS_Interval
<1>2. num_threads = N
  BY <1>1 DEF num_threads, Tids
<1>3. (t + 1) % N = Succ(t)
  BY RcuAssumption DEF Tids, Succ
<1> QED
  BY <1>2, <1>3, RcuAssumption DEF Tids, Succ

(* Succ is a permutation of the threads. *)
LEMMA SuccFacts ==
    ASSUME NEW t \in Tids, NEW u \in Tids
    PROVE  Succ(t) \in Tids /\ (Succ(t) = Succ(u) => t = u)
BY RcuAssumption DEF Tids, Succ

(* Who comes before the successor of w comes before w or is w itself; every  *)
(* thread comes before the owner, and the owner before every thread.         *)
LEMMA RankFacts ==
    ASSUME NEW j \in Tids, NEW t \in Tids, NEW w \in Tids
    PROVE  /\ Source(j, t) < Target(j, Succ(w)) =>
                t = w \/ (w # j /\ Source(j, t) < Target(j, w))
           /\ Source(j, t) < Target(j, j)
           /\ Source(j, j) < Target(j, t)
           /\ Source(j, w) < Target(j, Succ(w))
BY RcuAssumption DEF Tids, Succ, Source, Target

(* The inductive invariant holds before any thread has joined. *)
LEMMA InitIInv == Init => IInv
<1> SUFFICES ASSUME Init PROVE IInv
  OBVIOUS
<1> USE RcuAssumption DEF Init, Tids
<1>1. TypeOK
  BY DEF TypeOK
<1>2. Updating /\ Locals
  BY DEF Updating, Locals, InUpdate
<1>3. Linked /\ Bounded /\ Chain
  BY DEF Linked, Bounded, Chain, Succ, head
<1>4. Queued /\ QueuedOnce /\ Grace /\ NoUseAfterFree
  BY DEF Queued, QueuedOnce, Grace, NoUseAfterFree, head
<1> QED
  BY <1>1, <1>2, <1>3, <1>4 DEF IInv

(* A new thread changes nothing that the others have. *)
LEMMA ThreadInitStep ==
    ASSUME IInv, NEW t \in Tids, ThreadInit(t)
    PROVE  IInv'
<1> USE DEF IInv, ThreadInit, queues, locals
<1>1. TypeOK'
  BY DEF TypeOK
<1>2. Updating'
  BY DEF Updating, InUpdate
<1>3. (Locals /\ Linked /\ Bounded /\ Chain)'
  BY DEF Locals, Linked, Bounded, Chain, head
<1>4. (Queued /\ QueuedOnce /\ Grace /\ NoUseAfterFree)'
  BY DEF Queued, QueuedOnce, Grace, NoUseAfterFree, head
<1> QED
  BY <1>1, <1>2, <1>3, <1>4

(* A thread acquires only linked objects, and no queued object is linked. *)
LEMMA AcquireStep ==
    ASSUME IInv, NEW t \in Tids, NEW o \in Objects, Acquire(t, o)
    PROVE  IInv'
<1> USE DEF IInv, Acquire, Running, ring, queues, locals
<1>1. TypeOK'
  BY DEF TypeOK
<1>2. Updating'
  BY DEF Updating, InUpdate, TypeOK
<1>3. (Locals /\ Linked /\ Bounded /\ Chain)'
  BY DEF Locals, Linked, Bounded, Chain, head
<1>4. (Queued /\ QueuedOnce)'
  BY DEF Queued, QueuedOnce, head
<1>5. Grace'
  BY DEF Grace, Queued, TypeOK, head
<1>6. NoUseAfterFree'
  BY DEF NoUseAfterFree, TypeOK
<1> QED
  BY <1>1, <1>2, <1>3, <1>4, <1>5, <1>6

(* A failed assertion stops the process. *)
LEMMA AbortStep ==
    ASSUME IInv, NEW t \in Tids, DeferFreeAborts(t)
    PROVE  IInv'
<1> USE DEF IInv, DeferFreeAborts, ring, queues
<1>1. TypeOK'
  BY DEF TypeOK
<1>2. (Updating /\ Locals)'
  BY DEF Updating, Locals, InUpdate, TypeOK
<1>3. (Linked /\ Bounded /\ Chain)'
  BY DEF Linked, Bounded, Chain, head
<1>4. (Queued /\ QueuedOnce /\ Grace /\ NoUseAfterFree)'
  BY DEF Queued, QueuedOnce, Grace, NoUseAfterFree, head
<1> QED
  BY <1>1, <1>2, <1>3, <1>4

(* rcu_update begins: the caller lets go of its references. *)
LEMMA UpdateCallStep ==
    ASSUME Barrier, IInv, NEW t \in Tids, UpdateCall(t)
    PROVE  IInv'
<1> USE DEF IInv, UpdateCall, Running, ring, queues
<1>1. joined = Tids /\ (t + 1) % num_threads = Succ(t) /\ Succ(t) \in Tids
  BY NextIndex
<1>2. TypeOK'
  BY <1>1 DEF TypeOK
<1>3. Updating'
  BY <1>1 DEF Updating, InUpdate, TypeOK
<1>4. Locals'
  BY DEF Locals, TypeOK
<1>5. (Linked /\ Bounded /\ Chain)'
  BY DEF Linked, Bounded, Chain, head
<1>6. (Queued /\ QueuedOnce)'
  BY DEF Queued, QueuedOnce, head
<1>7. \A u \in Tids : held'[u] \subseteq held[u]
  BY DEF TypeOK
<1>8. Grace'
  BY <1>7 DEF Grace, head
<1>9. NoUseAfterFree'
  BY <1>7 DEF NoUseAfterFree
<1> QED
  BY <1>2, <1>3, <1>4, <1>5, <1>6, <1>8, <1>9

(* The loop looks at the next queue. *)
LEMMA UpdateCheckStep ==
    ASSUME IInv, NEW t \in Tids, UpdateCheck(t)
    PROVE  IInv'
<1> USE DEF IInv, ring, queues
<1>1. joined = Tids /\ num_threads = N
  BY NextIndex DEF UpdateCheck, Updating, InUpdate
<1>2. /\ i' = i \/ i' = [i EXCEPT ![t] = @ + 1]
      /\ \/ pc' = [pc EXCEPT ![t] = "free"]
         \/ pc' = pc
         \/ pc' = [pc EXCEPT ![t] = "load"] /\ i[t] \in Tids /\ i[t] # t /\ i' = i
      /\ pc[t] = "check"
      /\ UNCHANGED <<ring, queues, next_thread_index, x, held, object>>
  <2>1. i[t] \in Nat
    BY DEF TypeOK
  <2>2. i[t] < num_threads => i[t] \in Tids
    BY <1>1, <2>1, RcuAssumption DEF Tids
  <2> QED
    BY <2>2 DEF UpdateCheck
<1>3. \A u \in Tids : u # t => pc'[u] = pc[u] /\ i'[u] = i[u]
  BY <1>2 DEF TypeOK
<1>4. pc'[t] \in {"free", "check", "load"} /\ i'[t] \in Nat
  BY <1>2 DEF TypeOK
<1>5. pc'[t] = "load" => i'[t] \in Tids /\ i'[t] # t
  BY <1>2 DEF TypeOK
<1>6. TypeOK'
  <2>1. i' \in [Tids -> Nat]
    <3>1. i \in [Tids -> Nat]
      BY DEF TypeOK
    <3>2. CASE i' = i
      BY <3>1, <3>2
    <3>3. CASE i' = [i EXCEPT ![t] = @ + 1]
      BY <3>1, <3>3
    <3> QED
      BY <3>2, <3>3, <1>2
  <2>2. pc' \in [Tids -> {"idle", "check", "load", "store", "free", "abort"}]
    BY <1>2 DEF TypeOK
  <2> QED
    BY <1>2, <2>1, <2>2 DEF TypeOK
<1>7. Updating'
  BY <1>2, <1>3, <1>4 DEF Updating, InUpdate
<1>8. Locals'
  <2> SUFFICES ASSUME NEW u \in Tids
               PROVE  /\ pc'[u] \in {"load", "store"} => i'[u] \in Tids /\ i'[u] # u
                      /\ pc'[u] = "store" =>
                           rcu_last_posted'[u][i'[u]] <= x'[u] /\ x'[u] <= rcu'[u][i'[u]]
    BY DEF Locals
  <2>1. CASE u = t
    BY <2>1, <1>4, <1>5
  <2>2. CASE u # t
    BY <2>2, <1>2, <1>3 DEF Locals
  <2> QED
    BY <2>1, <2>2
<1>9. (Linked /\ Bounded /\ Chain)'
  BY <1>2 DEF Linked, Bounded, Chain, head
<1>10. (Queued /\ QueuedOnce /\ Grace /\ NoUseAfterFree)'
  BY <1>2 DEF Queued, QueuedOnce, Grace, NoUseAfterFree, head
<1> QED
  BY <1>6, <1>7, <1>8, <1>9, <1>10

(* The value to pass on is at least what was passed on before. *)
LEMMA UpdateLoadStep ==
    ASSUME IInv, NEW t \in Tids, UpdateLoad(t)
    PROVE  IInv'
<1> USE DEF IInv, UpdateLoad, ring, queues
<1>1. TypeOK'
  BY DEF TypeOK, Locals
<1>2. Updating'
  BY DEF Updating, InUpdate, TypeOK
<1>3. Locals'
  <2> SUFFICES ASSUME NEW u \in Tids
               PROVE  /\ pc'[u] \in {"load", "store"} => i'[u] \in Tids /\ i'[u] # u
                      /\ pc'[u] = "store" =>
                           rcu_last_posted'[u][i'[u]] <= x'[u] /\ x'[u] <= rcu'[u][i'[u]]
    BY DEF Locals
  <2>1. CASE u = t
    <3>1. i[t] \in Tids \ {t} /\ i'[t] = i[t] /\ x'[t] = rcu[t][i[t]]
      BY DEF Locals, TypeOK
    <3>2. rcu_last_posted[t][i[t]] <= rcu[t][i[t]] /\ rcu[t][i[t]] \in Nat
      BY <3>1 DEF Bounded, TypeOK
    <3> QED
      BY <2>1, <3>1, <3>2
  <2>2. CASE u # t
    BY <2>2 DEF Locals, TypeOK
  <2> QED
    BY <2>1, <2>2
<1>4. (Linked /\ Bounded /\ Chain)'
  BY DEF Linked, Bounded, Chain, head
<1>5. (Queued /\ QueuedOnce /\ Grace /\ NoUseAfterFree)'
  BY DEF Queued, QueuedOnce, Grace, NoUseAfterFree, head
<1> QED
  BY <1>1, <1>2, <1>3, <1>4, <1>5

(* A thread passes on what it received: the head it sends is one that every  *)
(* thread before it has sent.                                                *)
LEMMA UpdateStoreStep ==
    ASSUME IInv, NEW t \in Tids, UpdateStore(t)
    PROVE  IInv' /\ \A u, k \in Tids : rcu'[u][k] >= rcu[u][k]
<1> DEFINE j == i[t]
           n == Succ(t)
<1> USE DEF IInv, queues
<1>1. /\ pc[t] = "store" /\ held[t] = {} /\ next_thread_index[t] = n
      /\ j \in Tids /\ j # t /\ x[t] \in Nat /\ n \in Tids
      /\ rcu_last_posted[t][j] <= x[t] /\ x[t] <= rcu[t][j]
  BY SuccFacts DEF UpdateStore, Updating, InUpdate, Locals, TypeOK
<1>2. /\ rcu' = [rcu EXCEPT ![n][j] = x[t]]
      /\ rcu_last_posted' = [rcu_last_posted EXCEPT ![t][j] = x[t]]
      /\ pc' = [pc EXCEPT ![t] = "check"]
      /\ i' = [i EXCEPT ![t] = @ + 1]
      /\ UNCHANGED <<joined, pending, tail, next_thread_index, x, held, object>>
  BY <1>1 DEF UpdateStore
<1> HIDE DEF j, n
<1>3. \A u, k \in Tids :
          rcu'[u][k] = IF u = n /\ k = j THEN x[t] ELSE rcu[u][k]
  BY <1>1, <1>2 DEF TypeOK
<1>4. \A u, k \in Tids :
          rcu_last_posted'[u][k] = IF u = t /\ k = j THEN x[t] ELSE rcu_last_posted[u][k]
  BY <1>1, <1>2 DEF TypeOK
<1>5. rcu \in [Tids -> [Tids -> Nat]] /\ rcu_last_posted \in [Tids -> [Tids -> Nat]]
  BY DEF TypeOK
<1>6. rcu[n][j] = rcu_last_posted[t][j]
  BY <1>1 DEF Linked, n
<1>7. TypeOK'
  <2>1. rcu' \in [Tids -> [Tids -> Nat]] /\ rcu_last_posted' \in [Tids -> [Tids -> Nat]]
    BY <1>1, <1>2, <1>5
  <2>2. i' \in [Tids -> Nat]
    BY <1>2 DEF TypeOK
  <2>3. pc' \in [Tids -> {"idle", "check", "load", "store", "free", "abort"}]
    BY <1>2 DEF TypeOK
  <2> QED
    BY <1>2, <2>1, <2>2, <2>3 DEF TypeOK
<1>8. \A u \in Tids : u # t => pc'[u] = pc[u] /\ i'[u] = i[u]
  BY <1>2 DEF TypeOK
<1>9. pc'[t] = "check"
  BY <1>2 DEF TypeOK
<1>10. Updating'
  BY <1>1, <1>2, <1>8 DEF Updating, InUpdate
<1>11. Locals'
  <2> SUFFICES ASSUME NEW u \in Tids
               PROVE  /\ pc'[u] \in {"load", "store"} => i'[u] \in Tids /\ i'[u] # u
                      /\ pc'[u] = "store" =>
                           rcu_last_posted'[u][i'[u]] <= x'[u] /\ x'[u] <= rcu'[u][i'[u]]
    BY DEF Locals
  <2>1. CASE u = t
    BY <2>1, <1>9
  <2>2. CASE u # t
    <3>1. pc'[u] \in {"load", "store"} => i'[u] \in Tids /\ i'[u] # u
      BY <2>2, <1>8 DEF Locals
    <3> SUFFICES ASSUME pc'[u] = "store"
                 PROVE  rcu_last_posted'[u][i'[u]] <= x'[u] /\ x'[u] <= rcu'[u][i'[u]]
      BY <3>1
    <3>2. i'[u] = i[u] /\ i[u] \in Tids /\ x'[u] = x[u] /\ x[u] \in Nat
      BY <2>2, <1>2, <1>8 DEF Locals, TypeOK
    <3>3. rcu_last_posted[u][i[u]] <= x[u] /\ x[u] <= rcu[u][i[u]]
      BY <2>2, <1>8 DEF Locals
    <3>4. rcu[u][i[u]] <= rcu'[u][i[u]]
      BY <3>2, <1>1, <1>3, <1>5, <1>6
    <3>5. rcu_last_posted'[u][i[u]] = rcu_last_posted[u][i[u]]
      BY <2>2, <3>2, <1>4
    <3>6. rcu[u][i[u]] \in Nat /\ rcu'[u][i[u]] \in Nat
      BY <3>2, <1>7 DEF TypeOK
    <3> QED
      BY <3>2, <3>3, <3>4, <3>5, <3>6
  <2> QED
    BY <2>1, <2>2
<1>12. Linked'
  <2> SUFFICES ASSUME NEW u \in Tids, NEW k \in Tids
               PROVE  rcu'[Succ(u)][k] = rcu_last_posted'[u][k]
    BY DEF Linked
  <2>1. Succ(u) \in Tids /\ (Succ(u) = n => u = t)
    BY SuccFacts DEF n
  <2>2. rcu[Succ(u)][k] = rcu_last_posted[u][k]
    BY DEF Linked
  <2> QED
    BY <2>1, <2>2, <1>3, <1>4 DEF n
<1>13. Bounded'
  <2> SUFFICES ASSUME NEW u \in Tids
               PROVE  /\ rcu_last_posted'[u][u] <= head(u)'
                      /\ tail'[u] <= rcu'[u][u]
                      /\ \A k \in Tids \ {u} : rcu_last_posted'[u][k] <= rcu'[u][k]
    BY DEF Bounded
  <2>1. \A k \in Tids : rcu[u][k] <= rcu'[u][k] /\ rcu[u][k] \in Nat /\ rcu'[u][k] \in Nat
    BY <1>1, <1>3, <1>5, <1>6
  <2>2. rcu_last_posted'[u][u] <= head(u)'
    BY <1>1, <1>2, <1>4 DEF Bounded, head
  <2>3. tail'[u] <= rcu'[u][u]
    <3>1. tail[u] <= rcu[u][u] /\ tail[u] \in Nat
      BY DEF Bounded, TypeOK
    <3> QED
      BY <3>1, <2>1, <1>2
  <2>4. ASSUME NEW k \in Tids \ {u} PROVE rcu_last_posted'[u][k] <= rcu'[u][k]
    <3>1. rcu_last_posted[u][k] <= rcu[u][k] /\ rcu_last_posted[u][k] \in Nat
      BY <1>5 DEF Bounded
    <3>2. CASE u = t /\ k = j
      BY <3>2, <1>1, <1>4, <2>1
    <3>3. CASE ~(u = t /\ k = j)
      BY <3>3, <3>1, <1>4, <2>1
    <3> QED
      BY <3>2, <3>3
  <2> QED
    BY <2>2, <2>3, <2>4
<1>14. Chain'
  <2> SUFFICES ASSUME NEW k \in Tids, NEW s \in Tids, NEW u \in Tids,
                      Source(k, s) < Target(k, u)
               PROVE  rcu'[u][k] <= rcu_last_posted'[s][k]
    BY DEF Chain
  <2>1. rcu[u][k] <= rcu_last_posted[s][k]
    BY DEF Chain
  <2>2. /\ rcu_last_posted[s][k] <= rcu_last_posted'[s][k]
        /\ rcu_last_posted[s][k] \in Nat /\ rcu_last_posted'[s][k] \in Nat
        /\ rcu[u][k] \in Nat
    BY <1>1, <1>4, <1>5
  <2>3. CASE u = n /\ k = j
    <3>1. s = t \/ Source(k, s) < Target(k, t)
      BY <2>3, RankFacts DEF n
    <3>2. CASE s = t
      BY <3>2, <2>3, <1>1, <1>3, <1>4
    <3>3. CASE s # t /\ Source(k, s) < Target(k, t)
      <4>1. rcu[t][j] <= rcu_last_posted[s][j] /\ rcu[t][j] \in Nat
        BY <3>3, <2>3, <1>5 DEF Chain
      <4> QED
        BY <4>1, <3>3, <2>3, <2>2, <1>1, <1>3, <1>4
    <3> QED
      BY <3>1, <3>2, <3>3
  <2>4. CASE ~(u = n /\ k = j)
    BY <2>4, <2>1, <2>2, <1>3
  <2> QED
    BY <2>3, <2>4
<1>15. (Queued /\ QueuedOnce /\ NoUseAfterFree)'
  BY <1>2 DEF Queued, QueuedOnce, NoUseAfterFree, head
<1>16. Grace'
  <2> SUFFICES ASSUME NEW u \in Tids, NEW k \in Tids, u # k, NEW m \in 1..head(k)',
                      m <= rcu_last_posted'[u][k]
               PROVE  pending'[k][m] \notin held'[u]
    BY DEF Grace
  <2>1. CASE u = t
    BY <2>1, <1>1, <1>2
  <2>2. CASE u # t
    BY <2>2, <1>2, <1>4 DEF Grace, head
  <2> QED
    BY <2>1, <2>2
<1>17. \A u, k \in Tids : rcu'[u][k] >= rcu[u][k]
  BY <1>1, <1>3, <1>5, <1>6
<1> QED
  BY <1>7, <1>10, <1>11, <1>12, <1>13, <1>14, <1>15, <1>16, <1>17

(* The free loop frees what has been around the ring: nobody holds it. *)
LEMMA UpdateFreeStep ==
    ASSUME IInv, NEW t \in Tids, UpdateFree(t)
    PROVE  IInv'
<1> USE DEF IInv, ring
<1>1. /\ pc[t] = "free" /\ held[t] = {} /\ joined = Tids
      /\ UNCHANGED <<joined, rcu, rcu_last_posted, pending, next_thread_index, i, x, held>>
  BY DEF UpdateFree, Updating, InUpdate
<1>2. CASE tail[t] = rcu[t][t]
  <2>1. pc' = [pc EXCEPT ![t] = "idle"] /\ UNCHANGED <<object, tail>>
    BY <1>2 DEF UpdateFree
  <2>2. TypeOK'
    BY <2>1, <1>1 DEF TypeOK
  <2>3. (Updating /\ Locals)'
    BY <2>1, <1>1 DEF Updating, Locals, InUpdate, TypeOK
  <2>4. (Linked /\ Bounded /\ Chain)'
    BY <2>1, <1>1 DEF Linked, Bounded, Chain, head
  <2>5. (Queued /\ QueuedOnce /\ Grace /\ NoUseAfterFree)'
    BY <2>1, <1>1 DEF Queued, QueuedOnce, Grace, NoUseAfterFree, head
  <2> QED
    BY <1>2, <2>2, <2>3, <2>4, <2>5
<1>3. CASE tail[t] # rcu[t][t]
  <2> DEFINE m == tail[t] + 1
             o == pending[t][m]
  <2>1. /\ object' = [object EXCEPT ![o] = "freed"]
        /\ tail' = [tail EXCEPT ![t] = m]
        /\ pc' = pc
    BY <1>3 DEF UpdateFree
  <2> HIDE DEF o
  <2>2. tail[t] \in Nat /\ rcu[t][t] \in Nat /\ head(t) \in Nat
    BY DEF TypeOK, head
  <2>3. tail[t] < rcu[t][t]
    BY <1>3, <2>2 DEF Bounded
  <2>4. \A u \in Tids : rcu[t][t] <= rcu_last_posted[u][t] /\ rcu_last_posted[u][t] \in Nat
    BY RankFacts DEF Chain, TypeOK
  <2>5. m \in 1..head(t) /\ m <= rcu[t][t]
    BY <2>2, <2>3, <2>4 DEF Bounded
  <2>6. o \in Objects /\ object[o] = "retired"
    <3>1. pending[t] \in Seq(Objects)
      BY DEF TypeOK
    <3>2. o \in Objects
      BY <3>1, <2>5 DEF o, head
    <3> QED
      BY <3>2, <2>2, <2>5 DEF Queued, o
  <2>7. \A u \in Tids : o \notin held[u]
    <3> TAKE u \in Tids
    <3>1. CASE u = t
      BY <3>1, <1>1
    <3>2. CASE u # t
      <4>1. m <= rcu_last_posted[u][t]
        BY <2>2, <2>4, <2>5
      <4> QED
        BY <4>1, <3>2, <2>5 DEF Grace, o
    <3> QED
      BY <3>1, <3>2
  <2>8. TypeOK'
    <3>1. tail' \in [Tids -> Nat]
      BY <2>1, <2>2 DEF TypeOK
    <3>2. object' \in [Objects -> {"linked", "retired", "freed"}]
      BY <2>1 DEF TypeOK
    <3> QED
      BY <3>1, <3>2, <2>1, <1>1 DEF TypeOK
  <2>9. (Updating /\ Locals /\ Linked /\ Chain)'
    BY <2>1, <1>1 DEF Updating, Locals, InUpdate, Linked, Chain
  <2>10. Bounded'
    <3>1. \A u \in Tids : tail'[u] <= rcu[u][u]
      BY <2>1, <2>5 DEF Bounded, TypeOK
    <3> QED
      BY <3>1, <1>1 DEF Bounded, head
  <2>11. Queued'
    <3> SUFFICES ASSUME NEW u \in Tids, NEW k \in 1..head(u)
                 PROVE  object'[pending[u][k]] = IF k <= tail'[u] THEN "freed" ELSE "retired"
      BY <1>1 DEF Queued, head
    <3>1. pending[u][k] \in Objects
      BY DEF TypeOK, head
    <3>2. object[pending[u][k]] = IF k <= tail[u] THEN "freed" ELSE "retired"
      BY DEF Queued
    <3>3. CASE u = t /\ k = m
      BY <3>1, <3>3, <2>1, <2>2 DEF o, TypeOK
    <3>4. CASE ~(u = t /\ k = m)
      <4>1. pending[u][k] # o
        BY <3>4, <2>5 DEF QueuedOnce, o
      <4>2. object'[pending[u][k]] = object[pending[u][k]]
        BY <4>1, <3>1, <2>1 DEF TypeOK
      <4>3. k <= tail'[u] <=> k <= tail[u]
        BY <3>4, <2>1, <2>2 DEF TypeOK, head
      <4> QED
        BY <4>2, <4>3, <3>2
    <3> QED
      BY <3>3, <3>4
  <2>12. (QueuedOnce /\ Grace)'
    BY <1>1 DEF QueuedOnce, Grace, head
  <2>13. NoUseAfterFree'
    BY <2>1, <2>7, <1>1 DEF NoUseAfterFree, TypeOK
  <2> QED
    BY <2>2, <2>5, <2>8, <2>9, <2>10, <2>11, <2>12, <2>13
<1> QED
  BY <1>2, <1>3

(* A deferred object is behind every head that has been sent so far, so that *)
(* whoever still holds it has not sent it.                                   *)
LEMMA DeferFreeStep ==
    ASSUME Barrier, IInv, NEW t \in Tids, NEW o \in Objects, DeferFree(t, o)
    PROVE  IInv' /\ \A u, k \in Tids : rcu'[u][k] >= rcu[u][k]
<1> DEFINE h == head(t)
           n == Succ(t)
<1> USE DEF IInv, locals
<1>1. /\ joined = Tids /\ (t + 1) % num_threads = n /\ n \in Tids
      /\ h \in Nat /\ pending[t] \in Seq(Objects) /\ pc[t] = "idle"
  BY NextIndex DEF DeferFree, Running, TypeOK, head
<1>2. /\ object[o] = "linked"
      /\ object' = [object EXCEPT ![o] = "retired"]
      /\ pending' = [pending EXCEPT ![t] = Append(@, o)]
      /\ UNCHANGED <<joined, tail, pc, next_thread_index, i, x, held>>
  BY DEF DeferFree
<1>3. \/ UNCHANGED <<rcu, rcu_last_posted>>
      \/ /\ rcu' = [rcu EXCEPT ![n][t] = h + 1]
         /\ rcu_last_posted' = [rcu_last_posted EXCEPT ![t][t] = h + 1]
  BY <1>1 DEF DeferFree
<1>4. rcu \in [Tids -> [Tids -> Nat]] /\ rcu_last_posted \in [Tids -> [Tids -> Nat]]
  BY DEF TypeOK
<1>5. rcu[n][t] = rcu_last_posted[t][t] /\ rcu_last_posted[t][t] <= h
  BY DEF Linked, Bounded
<1>6. /\ head(t)' = h + 1 /\ pending'[t][h + 1] = o
      /\ \A k \in 1..h : pending'[t][k] = pending[t][k]
      /\ \A u \in Tids : u # t => pending'[u] = pending[u] /\ head(u)' = head(u)
  BY <1>1, <1>2 DEF head, TypeOK
<1> HIDE DEF h, n
<1>7. \A u, k \in Tids :
          /\ ~(u = n /\ k = t) => rcu'[u][k] = rcu[u][k]
          /\ ~(u = t /\ k = t) => rcu_last_posted'[u][k] = rcu_last_posted[u][k]
  <2>1. CASE UNCHANGED <<rcu, rcu_last_posted>>
    BY <2>1
  <2>2. CASE ~UNCHANGED <<rcu, rcu_last_posted>>
    <3>1. /\ rcu' = [rcu EXCEPT ![n][t] = h + 1]
          /\ rcu_last_posted' = [rcu_last_posted EXCEPT ![t][t] = h + 1]
      BY <2>2, <1>3
    <3> QED
      BY <3>1, <1>1, <1>4
  <2> QED
    BY <2>1, <2>2
<1>8. /\ rcu'[n][t] = rcu_last_posted'[t][t]
      /\ rcu'[n][t] \in {rcu[n][t], h + 1}
  BY <1>1, <1>3, <1>4, <1>5
<1>9. /\ rcu' \in [Tids -> [Tids -> Nat]]
      /\ rcu_last_posted' \in [Tids -> [Tids -> Nat]]
  <2>1. CASE UNCHANGED <<rcu, rcu_last_posted>>
    BY <2>1, <1>4
  <2>2. CASE ~UNCHANGED <<rcu, rcu_last_posted>>
    <3>1. /\ rcu' = [rcu EXCEPT ![n][t] = h + 1]
          /\ rcu_last_posted' = [rcu_last_posted EXCEPT ![t][t] = h + 1]
      BY <2>2, <1>3
    <3>2. h + 1 \in Nat
      BY <1>1
    <3> QED
      BY <3>1, <3>2, <1>1, <1>4
  <2> QED
    BY <2>1, <2>2
<1>10. \A u, k \in Tids :
          rcu[u][k] <= rcu'[u][k] /\ rcu_last_posted[u][k] <= rcu_last_posted'[u][k]
  <2> TAKE u, k \in Tids
  <2>1. rcu[u][k] \in Nat /\ rcu_last_posted[u][k] \in Nat
    BY <1>4
  <2>2. rcu[n][t] <= rcu'[n][t] /\ rcu_last_posted[t][t] <= rcu_last_posted'[t][t]
    <3>1. rcu[n][t] \in Nat /\ h \in Nat /\ rcu[n][t] <= h
      BY <1>1, <1>4, <1>5
    <3>2. rcu[n][t] <= rcu'[n][t]
      BY <3>1, <1>8
    <3> QED
      BY <3>2, <1>5, <1>8
  <2>3. (u = n /\ k = t) \/ rcu'[u][k] = rcu[u][k]
    BY <1>7
  <2>4. (u = t /\ k = t) \/ rcu_last_posted'[u][k] = rcu_last_posted[u][k]
    BY <1>7
  <2>5. rcu[u][k] <= rcu'[u][k]
    BY <2>1, <2>2, <2>3
  <2>6. rcu_last_posted[u][k] <= rcu_last_posted'[u][k]
    BY <2>1, <2>2, <2>4
  <2> QED
    BY <2>5, <2>6
<1>11. TypeOK'
  <2>1. pending' \in [Tids -> Seq(Objects)]
    BY <1>1, <1>2 DEF TypeOK
  <2>2. object' \in [Objects -> {"linked", "retired", "freed"}]
    BY <1>2 DEF TypeOK
  <2> QED
    BY <2>1, <2>2, <1>2, <1>9 DEF TypeOK
<1>12. Updating'
  BY <1>2 DEF Updating, InUpdate
<1>13. Locals'
  <2> SUFFICES ASSUME NEW u \in Tids
               PROVE  /\ pc'[u] \in {"load", "store"} => i'[u] \in Tids /\ i'[u] # u
                      /\ pc'[u] = "store" =>
                           rcu_last_posted'[u][i'[u]] <= x'[u] /\ x'[u] <= rcu'[u][i'[u]]
    BY DEF Locals
  <2>1. pc[u] \in {"load", "store"} => i[u] \in Tids /\ i[u] # u
    BY DEF Locals
  <2>2. ASSUME pc[u] = "store"
        PROVE  rcu_last_posted'[u][i[u]] <= x[u] /\ x[u] <= rcu'[u][i[u]]
    <3>1. i[u] \in Tids /\ i[u] # u /\ x[u] \in Nat
      BY <2>1, <2>2 DEF TypeOK
    <3>2. rcu_last_posted[u][i[u]] <= x[u] /\ x[u] <= rcu[u][i[u]]
      BY <2>2 DEF Locals
    <3> QED
      BY <3>1, <3>2, <1>4, <1>7, <1>9, <1>10
  <2> QED
    BY <2>1, <2>2, <1>2
<1>14. Linked'
  <2> SUFFICES ASSUME NEW u \in Tids, NEW k \in Tids
               PROVE  rcu'[Succ(u)][k] = rcu_last_posted'[u][k]
    BY DEF Linked
  <2>1. Succ(u) \in Tids /\ (Succ(u) = n => u = t)
    BY SuccFacts DEF n
  <2>2. rcu[Succ(u)][k] = rcu_last_posted[u][k]
    BY DEF Linked
  <2> QED
    BY <2>1, <2>2, <1>7, <1>8 DEF n
<1>15. Bounded'
  <2> SUFFICES ASSUME NEW u \in Tids
               PROVE  /\ rcu_last_posted'[u][u] <= head(u)'
                      /\ tail'[u] <= rcu'[u][u]
                      /\ \A k \in Tids \ {u} : rcu_last_posted'[u][k] <= rcu'[u][k]
    BY DEF Bounded
  <2>1. rcu_last_posted'[u][u] <= head(u)'
    <3>1. CASE u = t
      BY <3>1, <1>1, <1>4, <1>5, <1>6, <1>8
    <3>2. CASE u # t
      BY <3>2, <1>6, <1>7 DEF Bounded
    <3> QED
      BY <3>1, <3>2
  <2>2. tail'[u] <= rcu'[u][u]
    <3>1. tail[u] <= rcu[u][u] /\ tail[u] \in Nat
      BY DEF Bounded, TypeOK
    <3> QED
      BY <3>1, <1>2, <1>4, <1>9, <1>10
  <2>3. ASSUME NEW k \in Tids \ {u} PROVE rcu_last_posted'[u][k] <= rcu'[u][k]
    <3>1. rcu_last_posted[u][k] <= rcu[u][k]
      BY DEF Bounded
    <3> QED
      BY <3>1, <1>4, <1>7, <1>9, <1>10
  <2> QED
    BY <2>1, <2>2, <2>3
<1>16. Chain'
  <2> SUFFICES ASSUME NEW k \in Tids, NEW s \in Tids, NEW u \in Tids,
                      Source(k, s) < Target(k, u)
               PROVE  rcu'[u][k] <= rcu_last_posted'[s][k]
    BY DEF Chain
  <2>1. rcu[u][k] <= rcu_last_posted[s][k]
    BY DEF Chain
  <2>2. CASE u = n /\ k = t
    <3>1. s = t
      BY <2>2, RankFacts DEF n
    <3> QED
      BY <3>1, <2>2, <1>8, <1>9
  <2>3. CASE ~(u = n /\ k = t)
    BY <2>1, <2>3, <1>4, <1>7, <1>9, <1>10
  <2> QED
    BY <2>2, <2>3
<1>17. \A u \in Tids : \A k \in 1..head(u) :
           pending[u][k] \in Objects /\ pending[u][k] # o /\ tail[u] \in Nat
  <2> TAKE u \in Tids
  <2> TAKE k \in 1..head(u)
  <2>1. pending[u] \in Seq(Objects) /\ tail[u] \in Nat
    BY DEF TypeOK
  <2>2. pending[u][k] \in Objects
    BY <2>1 DEF head
  <2>3. object[pending[u][k]] \in {"freed", "retired"}
    BY DEF Queued
  <2> QED
    BY <2>1, <2>2, <2>3, <1>2
<1>18. tail[t] <= h
  <2>1. tail[t] <= rcu[t][t] /\ rcu[t][t] <= rcu_last_posted[t][t]
    BY RankFacts DEF Bounded, Chain
  <2> QED
    BY <2>1, <1>1, <1>4, <1>5 DEF TypeOK
<1>19. Queued'
  <2> SUFFICES ASSUME NEW u \in Tids, NEW k \in 1..head(u)'
               PROVE  object'[pending'[u][k]] = IF k <= tail[u] THEN "freed" ELSE "retired"
    BY <1>2 DEF Queued, head
  <2>1. CASE k \in 1..head(u)
    <3>1. pending'[u][k] = pending[u][k]
      BY <2>1, <1>6 DEF h
    <3>2. object'[pending[u][k]] = object[pending[u][k]]
      BY <2>1, <1>2, <1>17 DEF TypeOK
    <3> QED
      BY <2>1, <3>1, <3>2 DEF Queued
  <2>2. CASE k \notin 1..head(u)
    <3>1. u = t /\ k = h + 1
      BY <2>2, <1>1, <1>6 DEF h
    <3>2. ~(k <= tail[u])
      BY <3>1, <1>1, <1>18 DEF TypeOK
    <3>3. object'[o] = "retired"
      BY <1>2 DEF TypeOK
    <3> QED
      BY <3>1, <3>2, <3>3, <1>6
  <2> QED
    BY <2>1, <2>2
<1>20. QueuedOnce'
  <2> SUFFICES ASSUME NEW u \in Tids, NEW v \in Tids,
                      NEW k \in 1..head(u)', NEW m \in 1..head(v)',
                      pending'[u][k] = pending'[v][m]
               PROVE  u = v /\ k = m
    BY DEF QueuedOnce
  <2>1. \A w \in Tids : \A l \in 1..head(w)' :
            IF l \in 1..head(w) THEN pending'[w][l] = pending[w][l] /\ pending[w][l] # o
                                ELSE w = t /\ l = h + 1 /\ pending'[w][l] = o
    BY <1>1, <1>6, <1>17 DEF h
  <2> QED
    BY <2>1 DEF QueuedOnce
<1>21. Grace'
  <2> SUFFICES ASSUME NEW u \in Tids, NEW k \in Tids, u # k, NEW m \in 1..head(k)',
                      m <= rcu_last_posted'[u][k]
               PROVE  pending'[k][m] \notin held[u]
    BY <1>2 DEF Grace
  <2>1. m <= rcu_last_posted[u][k]
    BY <1>7
  <2>2. rcu_last_posted[u][k] <= head(k)
    <3>1. rcu_last_posted[u][k] = rcu[Succ(u)][k] /\ Succ(u) \in Tids
      BY SuccFacts DEF Linked
    <3>2. rcu[Succ(u)][k] <= rcu_last_posted[k][k]
      BY <3>1, RankFacts DEF Chain
    <3>3. rcu_last_posted[k][k] <= head(k) /\ head(k) \in Nat
      BY DEF Bounded, TypeOK, head
    <3> QED
      BY <3>1, <3>2, <3>3, <1>4
  <2>3. m \in 1..head(k)
    <3>1. head(k) \in Nat /\ rcu_last_posted[u][k] \in Nat
      BY <1>4 DEF TypeOK, head
    <3>2. m \in Nat /\ m >= 1
      BY <1>6, <3>1, <1>1
    <3> QED
      BY <2>1, <2>2, <3>1, <3>2
  <2> QED
    BY <2>1, <2>3, <1>6 DEF Grace, h
<1>22. NoUseAfterFree'
  BY <1>2 DEF NoUseAfterFree, TypeOK
<1>23. \A u, k \in Tids : rcu'[u][k] >= rcu[u][k]
  BY <1>4, <1>9, <1>10
<1> QED
  BY <1>11, <1>12, <1>13, <1>14, <1>15, <1>16, <1>19, <1>20, <1>21, <1>22, <1>23

-----------------------------------------------------------------------------
(* The inductive invariant holds throughout, with the barrier. *)
THEOREM Invariance == ASSUME Barrier PROVE Spec => []IInv
<1>1. IInv /\ [Next]_vars => IInv'
  <2> SUFFICES ASSUME IInv, [Next]_vars PROVE IInv'
    OBVIOUS
  <2>1. CASE UNCHANGED vars
    BY <2>1 DEF vars, ring, queues, locals, IInv, TypeOK, Updating, InUpdate, Locals,
                Linked, Bounded, Chain, Queued, QueuedOnce, Grace, NoUseAfterFree, head
  <2>2. ASSUME NEW t \in Tids,
               \/ ThreadInit(t) \/ UpdateCall(t) \/ UpdateStep(t) \/ DeferFreeAborts(t)
               \/ \E o \in Objects : Acquire(t, o) \/ DeferFree(t, o)
        PROVE  IInv'
    BY <2>2, ThreadInitStep, UpdateCallStep, UpdateCheckStep, UpdateLoadStep, UpdateStoreStep,
       UpdateFreeStep, AbortStep, AcquireStep, DeferFreeStep DEF UpdateStep
  <2> QED
    BY <2>1, <2>2 DEF Next
<1> QED
  BY InitIInv, <1>1, PTL DEF Spec

(* rcu.c is type correct: its thread indices stay on the ring. *)
THEOREM TypeCorrect == ASSUME Barrier PROVE Spec => []TypeOK
<1>1. IInv => TypeOK
  BY DEF IInv
<1> QED
  BY Invariance, <1>1, PTL

(* No thread ever has a reference to freed memory, for any number of threads *)
(* and objects and any threshold (rcu_update, rcu_defer_free).               *)
THEOREM GracePeriod == ASSUME Barrier PROVE Spec => []NoUseAfterFree
<1>1. IInv => NoUseAfterFree
  BY DEF IInv
<1> QED
  BY Invariance, <1>1, PTL

(* The free loop of rcu_update stays within its queue and frees each object  *)
(* once.                                                                     *)
THEOREM FreesOnce == ASSUME Barrier PROVE Spec => []FreesOnlyRetired
<1>1. IInv => FreesOnlyRetired
  <2> SUFFICES ASSUME IInv, NEW t \in Tids, tail[t] # rcu[t][t]
               PROVE  tail[t] < head(t) /\ object[pending[t][tail[t] + 1]] = "retired"
    BY DEF FreesOnlyRetired
  <2> USE DEF IInv
  <2>1. tail[t] \in Nat /\ rcu[t][t] \in Nat /\ head(t) \in Nat /\ rcu_last_posted[t][t] \in Nat
    BY DEF TypeOK, head
  <2>2. tail[t] <= rcu[t][t] /\ rcu[t][t] <= rcu_last_posted[t][t] /\ rcu_last_posted[t][t] <= head(t)
    BY RankFacts DEF Bounded, Chain
  <2>3. tail[t] < head(t)
    BY <2>1, <2>2
  <2> QED
    BY <2>1, <2>3 DEF Queued
<1> QED
  BY Invariance, <1>1, PTL

(* The entries of rcu_ only grow, whoever writes them. *)
THEOREM HeadsGrow == ASSUME Barrier PROVE Spec => PostsGrow
<1>1. IInv /\ [Next]_vars => [\A t, j \in Tids : rcu'[t][j] >= rcu[t][j]]_vars
  <2> SUFFICES ASSUME IInv, Next PROVE \A t, j \in Tids : rcu'[t][j] >= rcu[t][j]
    OBVIOUS
  <2>1. rcu' = rcu => \A t, j \in Tids : rcu'[t][j] >= rcu[t][j]
    BY DEF IInv, TypeOK
  <2>2. PICK t \in Tids :
            \/ ThreadInit(t) \/ UpdateCall(t) \/ UpdateStep(t) \/ DeferFreeAborts(t)
            \/ \E o \in Objects : Acquire(t, o) \/ DeferFree(t, o)
    BY DEF Next
  <2>3. \/ rcu' = rcu
        \/ UpdateStore(t)
        \/ \E o \in Objects : DeferFree(t, o)
    BY <2>2 DEF ThreadInit, UpdateCall, UpdateStep, UpdateCheck, UpdateLoad, UpdateFree,
                DeferFreeAborts, Acquire, ring
  <2> QED
    BY <2>1, <2>3, UpdateStoreStep, DeferFreeStep
<1> QED
  BY Invariance, <1>1, PTL DEF Spec, PostsGrow
=============================================================================
