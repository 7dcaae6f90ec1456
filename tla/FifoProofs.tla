----------------------------- MODULE FifoProofs -----------------------------
(***************************************************************************)
(* The ring of CFifo for any number of producers, any capacity and any     *)
(* values, when one consumer uses it.  The counters never come further     *)
(* apart than Capacity, so two of them name one slot only when they are    *)
(* equal (SlotsDiffer); everything else follows from where a claimed slot  *)
(* lies: between the sentinel and the tail until it is published, between  *)
(* the head and the sentinel until it is popped.                           *)
(***************************************************************************)
EXTENDS CFifo, FiniteSetTheorems, SequenceTheorems, TLAPS

(* A thread inside cfifo_push holds the value it was called with. *)
Valued == \A p \in Producers : pc[p] # "idle" => lvalue[p] \in Values

(* What a producer knows between its steps. *)
Pushing ==
    \A p \in Producers :
        /\ pc[p] \in {"load_head", "cas_tail"} => ltail[p] <= tail
        /\ pc[p] = "cas_tail" /\ ltail[p] = tail => tail - head < Capacity
        /\ pc[p] \in {"write", "publish"} => sentinel <= ltail[p] /\ ltail[p] < tail
        /\ pc[p] = "publish" => buffer[Slot(ltail[p])] = lvalue[p]

(* A slot that is claimed and not yet published has one owner. *)
ClaimedOnce ==
    \A p, q \in Producers :
        pc[p] \in {"write", "publish"} /\ pc[q] \in {"write", "publish"} /\ p # q
          => ltail[p] # ltail[q]

(* What the consumer knows between its steps. *)
Popping ==
    \A c \in Consumers :
        /\ pc[c] # "idle" => c \in cast
        /\ pc[c] \in {"load_head", "read", "cas_head"} =>
             head <= lsentinel[c] /\ lsentinel[c] <= sentinel
        /\ pc[c] \in {"read", "cas_head"} => lhead[c] = head /\ head < lsentinel[c]
        /\ pc[c] = "cas_head" => lvalue[c] = buffer[Slot(head)]

Ring == Ordered /\ Pushing /\ ClaimedOnce /\ Popping

IInv == TypeOK /\ Valued /\ (OneConsumer => Ring)

-----------------------------------------------------------------------------
(* Two numbers with the same rest that differ are n apart. *)
LEMMA MultiplesApart ==
    ASSUME NEW n \in Nat, NEW a \in Int, NEW b \in Int, NEW r \in Int,
           n * a + r < n * b + r
    PROVE  (n * b + r) - (n * a + r) >= n
<1>1. CASE b <= a
  <2>1. n * b <= n * a
    BY <1>1, SMT
  <2> QED
    BY <2>1, SMT
<1>2. CASE b >= a + 1
  <2>1. n * b >= n * (a + 1)
    BY <1>2, SMT
  <2>2. n * (a + 1) = n * a + n
    BY SMT
  <2> QED
    BY <2>1, <2>2, SMT
<1> QED
  BY <1>1, <1>2

(* Adding n to a number leaves its rest alone. *)
LEMMA SameRest ==
    ASSUME NEW n \in Nat \ {0}, NEW a \in Int, NEW b \in Int,
           NEW r \in 0..(n - 1), NEW s \in 0..(n - 1), n * b + s = n * a + r + n
    PROVE  s = r
<1>1. n * (b - a - 1) = r - s
  <2>1. n * (b - a - 1) = n * b - n * a - n
    BY SMT
  <2> QED
    BY <2>1, SMT
<1>2. CASE b - a - 1 >= 1
  <2>1. n * (b - a - 1) >= n
    BY <1>2, SMT
  <2> QED
    BY <1>1, <2>1, SMT
<1>3. CASE b - a - 1 <= -1
  <2>1. n * (b - a - 1) <= -n
    BY <1>3, SMT
  <2> QED
    BY <1>1, <2>1, SMT
<1>4. CASE b - a - 1 = 0
  BY <1>1, <1>4, SMT
<1> QED
  BY <1>2, <1>3, <1>4

(* A number is its quotient times n and its rest. *)
LEMMA Division ==
    ASSUME NEW n \in Nat \ {0}, NEW i \in Nat
    PROVE  i = n * (i \div n) + (i % n) /\ i \div n \in Int /\ i % n \in 0..(n - 1)
<1>1. i \div n \in Int /\ i % n \in 0..(n - 1)
  BY SMT
<1>2. i = n * (i \div n) + (i % n)
  BY SMT
<1> QED
  BY <1>1, <1>2

(* Counters less than a ring apart name different slots. *)
LEMMA SlotsDiffer ==
    ASSUME NEW i \in Nat, NEW j \in Nat, i < j, j - i <= Capacity
    PROVE  Slot(i) # Slot(j)
<1> DEFINE n == Capacity + 1
<1>1. n \in Nat \ {0}
  BY CFifoAssumption
<1> HIDE DEF n
<1>2. i = n * (i \div n) + (i % n) /\ i \div n \in Int /\ i % n \in Int
  BY <1>1, Division
<1>3. j = n * (j \div n) + (j % n) /\ j \div n \in Int
  BY <1>1, Division
<1>4. ASSUME i % n = j % n PROVE j - i >= n
  BY <1>1, <1>2, <1>3, <1>4, MultiplesApart, Zenon
<1> QED
  BY <1>1, <1>4, CFifoAssumption DEF Slot, size, n

(* What the full test compares (cfifo.c:65). *)
LEMMA SlotWraps == ASSUME NEW i \in Nat PROVE Slot(i + size) = Slot(i)
<1> DEFINE n == Capacity + 1
<1>1. n \in Nat \ {0} /\ i + n \in Nat
  BY CFifoAssumption
<1> HIDE DEF n
<1>2. i = n * (i \div n) + (i % n) /\ i \div n \in Int /\ i % n \in 0..(n - 1)
  BY <1>1, Division
<1> DEFINE k == i + n
<1> HIDE DEF k
<1>3. k = n * (k \div n) + (k % n) /\ k \div n \in Int /\ k % n \in 0..(n - 1)
  <2>1. k \in Nat
    BY <1>1 DEF k
  <2> QED
    BY <1>1, <2>1, Division
<1>4. n * (k \div n) + (k % n) = n * (i \div n) + (i % n) + n
  BY <1>1, <1>2, <1>3 DEF k
<1>5. k % n = i % n
  BY <1>1, <1>2, <1>3, <1>4, SameRest, Zenon
<1> QED
  BY <1>5 DEF Slot, size, n, k

(* The full test of a push finds the ring full only when it is (cfifo.c:65). *)
LEMMA NotFull ==
    ASSUME NEW h \in Nat, NEW t \in Nat, t - h <= Capacity, Slot(t + 1) # Slot(h)
    PROVE  t - h < Capacity
<1>1. SUFFICES ASSUME t - h = Capacity PROVE FALSE
  BY CFifoAssumption
<1>2. t + 1 = h + size
  BY <1>1, CFifoAssumption DEF size
<1> QED
  BY <1>2, SlotWraps

(* A slot is an index of the buffer. *)
LEMMA SlotIsIndex == ASSUME NEW i \in Nat PROVE Slot(i) \in 0..Capacity
  BY CFifoAssumption, SMT DEF Slot, size

(* Appending keeps the type of a sequence. *)
LEMMA AppendTyped ==
    ASSUME NEW S, NEW s \in Seq(S), NEW e \in S PROVE Append(s, e) \in Seq(S)
  OBVIOUS

USE DEF PushPc, PopPc

(* Every step keeps the types. *)
LEMMA TypeStep == TypeOK /\ Valued /\ [Next]_vars => TypeOK'
<1> SUFFICES ASSUME TypeOK, Valued, [Next]_vars PROVE TypeOK'
  OBVIOUS
<1> USE CFifoAssumption DEF TypeOK, Threads, Goto, shared, locals, history
<1>1. CASE UNCHANGED vars
  BY <1>1 DEF vars
<1>2. ASSUME NEW p \in Producers, NEW v \in Values, PushCall(p, v) PROVE TypeOK'
  BY <1>2 DEF PushCall
<1>3. ASSUME NEW p \in Producers, PushStep(p) PROVE TypeOK'
  <2>1. CASE PushLoadTail(p)
    BY <2>1 DEF PushLoadTail
  <2>2. CASE PushLoadHead(p)
    BY <2>2 DEF PushLoadHead
  <2>3. CASE PushCasTail(p)
    <3>1. lvalue[p] \in Values
      BY <2>3 DEF PushCasTail, Valued
    <3>2. Append(claimed, lvalue[p]) \in Seq(Values)
      BY <3>1, AppendTyped
    <3>3. claimed' \in Seq(Values) /\ tail' \in Nat
      <4>1. claimed' = Append(claimed, lvalue[p]) \/ claimed' = claimed
        BY <2>3 DEF PushCasTail
      <4>2. tail' = tail + 1 \/ tail' = tail
        BY <2>3 DEF PushCasTail
      <4>3. claimed' \in Seq(Values)
        BY <3>2, <4>1, Zenon
      <4> QED
        BY <4>2, <4>3
    <3>4. pc' \in [Threads -> PushPc \cup PopPc] /\ \A t \in Threads : t # p => pc'[t] = pc[t]
      BY <2>3, Zenon DEF PushCasTail
    <3>5. pc'[p] \in PushPc /\ UNCHANGED <<head, sentinel, used, buffer, locals, delivered, cast>>
      BY <2>3 DEF PushCasTail
    <3> QED
      BY <3>3, <3>4, <3>5, Zenon
  <2>4. CASE PushWrite(p)
    BY <2>4, SlotIsIndex, Zenon DEF PushWrite
  <2>5. CASE PushPublish(p)
    BY <2>5 DEF PushPublish
  <2>6. CASE PushCount(p)
    BY <2>6 DEF PushCount
  <2> QED
    BY <1>3, <2>1, <2>2, <2>3, <2>4, <2>5, <2>6, Zenon DEF PushStep
<1>4. ASSUME NEW c \in Consumers, PopCall(c) PROVE TypeOK'
  BY <1>4 DEF PopCall
<1>5. ASSUME NEW c \in Consumers, PopStep(c) PROVE TypeOK'
  <2>1. CASE PopLoadSentinel(c)
    BY <2>1 DEF PopLoadSentinel
  <2>2. CASE PopLoadHead(c)
    BY <2>2 DEF PopLoadHead
  <2>3. CASE PopRead(c)
    BY <2>3, SlotIsIndex, Zenon DEF PopRead
  <2>4. CASE PopCasHead(c)
    <3>1. lvalue[c] \in Values \cup {NoValue}
      OBVIOUS
    <3>2. Append(delivered, lvalue[c]) \in Seq(Values \cup {NoValue})
      BY <3>1, AppendTyped
    <3>3. delivered' \in Seq(Values \cup {NoValue}) /\ head' \in Nat
      <4>1. delivered' = Append(delivered, lvalue[c]) \/ delivered' = delivered
        BY <2>4 DEF PopCasHead
      <4>2. head' = head + 1 \/ head' = head
        BY <2>4 DEF PopCasHead
      <4>3. delivered' \in Seq(Values \cup {NoValue})
        BY <3>2, <4>1, Zenon
      <4> QED
        BY <4>2, <4>3
    <3>4. pc' \in [Threads -> PushPc \cup PopPc] /\ \A t \in Threads : t # c => pc'[t] = pc[t]
      BY <2>4, Zenon DEF PopCasHead
    <3>5. pc'[c] \in PopPc /\ UNCHANGED <<tail, sentinel, used, buffer, locals, claimed, cast>>
      BY <2>4 DEF PopCasHead
    <3> QED
      BY <3>3, <3>4, <3>5, Zenon
  <2>5. CASE PopCount(c)
    BY <2>5 DEF PopCount
  <2> QED
    BY <1>5, <2>1, <2>2, <2>3, <2>4, <2>5, Zenon DEF PopStep
<1> QED
  BY <1>1, <1>2, <1>3, <1>4, <1>5, Zenon DEF Next

(* A call keeps the value it was made with. *)
LEMMA ValuedStep == TypeOK /\ Valued /\ [Next]_vars => Valued'
<1> SUFFICES ASSUME TypeOK, Valued, [Next]_vars PROVE Valued'
  OBVIOUS
<1> USE CFifoAssumption DEF TypeOK, Valued, Threads, Goto, shared, locals, history
<1>1. CASE UNCHANGED vars
  BY <1>1 DEF vars
<1>2. ASSUME NEW p \in Producers, NEW v \in Values, PushCall(p, v) PROVE Valued'
  BY <1>2 DEF PushCall
<1>3. ASSUME NEW p \in Producers, PushStep(p) PROVE Valued'
  <2>1. CASE PushLoadTail(p) \/ PushLoadHead(p)
    BY <2>1 DEF PushLoadTail, PushLoadHead
  <2>2. CASE PushCasTail(p)
    BY <2>2 DEF PushCasTail
  <2>3. CASE PushWrite(p) \/ PushPublish(p) \/ PushCount(p)
    BY <2>3 DEF PushWrite, PushPublish, PushCount
  <2> QED
    BY <1>3, <2>1, <2>2, <2>3 DEF PushStep
<1>4. ASSUME NEW c \in Consumers, PopCall(c) \/ PopStep(c) PROVE Valued'
  BY <1>4 DEF PopCall, PopStep, PopLoadSentinel, PopLoadHead, PopRead,
              PopCasHead, PopCount
<1> QED
  BY <1>1, <1>2, <1>3, <1>4 DEF Next

(* With one consumer every step keeps the order of the ring. *)
LEMMA RingStep ==
    TypeOK /\ Valued /\ OneConsumer /\ Ring /\ [Next]_vars => Ring'
<1> SUFFICES ASSUME TypeOK, Valued, OneConsumer, Ring, [Next]_vars PROVE Ring'
  OBVIOUS
<1> USE CFifoAssumption DEF TypeOK, Threads, Goto, shared, locals, history,
        OneConsumer, Ring, Ordered, Pushing, ClaimedOnce, Popping
<1>1. CASE UNCHANGED vars
  BY <1>1 DEF vars, Slot
<1>2. ASSUME NEW p \in Producers, NEW v \in Values, PushCall(p, v) PROVE Ring'
  BY <1>2 DEF PushCall, Slot
<1>3. ASSUME NEW p \in Producers, PushLoadTail(p) PROVE Ring'
  BY <1>3 DEF PushLoadTail, Slot
<1>4. ASSUME NEW p \in Producers, PushLoadHead(p) PROVE Ring'
  <2>1. ltail[p] = tail /\ Slot(ltail[p] + 1) # Slot(head) => tail - head < Capacity
    BY NotFull
  <2> QED
    <3>1. CASE Slot(ltail[p] + 1) = Slot(head)
      BY <1>4, <3>1 DEF PushLoadHead
    <3>2. CASE Slot(ltail[p] + 1) # Slot(head)
      BY <1>4, <2>1, <3>2 DEF PushLoadHead
    <3> QED
      BY <3>1, <3>2
<1>5. ASSUME NEW p \in Producers, PushCasTail(p) PROVE Ring'
  <2>1. CASE tail # ltail[p]
    <3>1. pc[p] = "cas_tail" /\ pc' = [pc EXCEPT ![p] = "load_tail"]
      BY <1>5, <2>1 DEF PushCasTail
    <3>2. UNCHANGED <<shared, locals, history, cast>>
      BY <1>5, <2>1 DEF PushCasTail
    <3> QED
      BY <3>1, <3>2 DEF Slot
  <2>2. CASE tail = ltail[p]
    <3>1. /\ pc[p] = "cas_tail" /\ pc' = [pc EXCEPT ![p] = "write"] /\ tail' = tail + 1
          /\ UNCHANGED <<head, sentinel, used, buffer, locals, delivered, cast>>
      BY <1>5, <2>2 DEF PushCasTail
    <3>2. Ordered'
      BY <2>2, <3>1
    <3>3. Pushing'
      BY <2>2, <3>1
    <3>4. ClaimedOnce'
      BY <2>2, <3>1
    <3>5. Popping'
      BY <2>2, <3>1
    <3> QED
      BY <3>2, <3>3, <3>4, <3>5
  <2> QED
    BY <2>1, <2>2
<1>6. ASSUME NEW p \in Producers, PushWrite(p) PROVE Ring'
  <2>1. /\ pc[p] = "write" /\ pc' = [pc EXCEPT ![p] = "publish"]
        /\ buffer' = [buffer EXCEPT ![Slot(ltail[p])] = lvalue[p]]
        /\ UNCHANGED <<head, tail, sentinel, used, locals, history, cast>>
    BY <1>6 DEF PushWrite
  <2>2. Slot(ltail[p]) \in 0..Capacity /\ buffer'[Slot(ltail[p])] = lvalue[p]
    BY <2>1, SlotIsIndex
  <2>3. ASSUME NEW q \in Producers, q # p, pc[q] = "publish"
        PROVE  buffer'[Slot(ltail[q])] = buffer[Slot(ltail[q])]
    <3>1. /\ ltail[p] \in Nat /\ ltail[q] \in Nat /\ ltail[p] # ltail[q]
          /\ ltail[p] - ltail[q] <= Capacity /\ ltail[q] - ltail[p] <= Capacity
      BY <2>1, <2>3
    <3>2. Slot(ltail[p]) # Slot(ltail[q])
      BY <3>1, SlotsDiffer
    <3> QED
      BY <2>1, <3>1, <3>2, SlotIsIndex
  <2>4. ASSUME NEW c \in Consumers, pc[c] = "cas_head"
        PROVE  buffer'[Slot(head)] = buffer[Slot(head)]
    <3>1. ltail[p] \in Nat /\ head < ltail[p] /\ ltail[p] - head <= Capacity
      BY <2>1, <2>4
    <3>2. Slot(ltail[p]) # Slot(head)
      BY <3>1, SlotsDiffer
    <3> QED
      BY <2>1, <3>2, SlotIsIndex
  <2>5. Pushing'
    BY <2>1, <2>2, <2>3 DEF Slot
  <2>6. Popping'
    BY <2>1, <2>4 DEF Slot
  <2>7. Ordered' /\ ClaimedOnce'
    BY <2>1
  <2> QED
    BY <2>5, <2>6, <2>7
<1>7. ASSUME NEW p \in Producers, PushPublish(p) PROVE Ring'
  BY <1>7 DEF PushPublish
<1>8. ASSUME NEW p \in Producers, PushCount(p) PROVE Ring'
  BY <1>8 DEF PushCount
<1>9. ASSUME NEW c \in Consumers, PopCall(c) \/ PopLoadSentinel(c) PROVE Ring'
  <2>1. CASE PopCall(c)
    BY <2>1 DEF PopCall
  <2>2. CASE PopLoadSentinel(c)
    BY <2>2 DEF PopLoadSentinel
  <2> QED
    BY <1>9, <2>1, <2>2
<1>10. ASSUME NEW c \in Consumers, PopLoadHead(c) PROVE Ring'
  BY <1>10 DEF PopLoadHead
<1>11. ASSUME NEW c \in Consumers, PopRead(c) PROVE Ring'
  BY <1>11 DEF PopRead
<1>12. ASSUME NEW c \in Consumers, PopCasHead(c) PROVE Ring'
  <2>1. CASE head # lhead[c]
    BY <1>12, <2>1 DEF PopCasHead
  <2>2. CASE head = lhead[c]
    <3>1. /\ pc[c] = "cas_head" /\ pc' = [pc EXCEPT ![c] = "count"] /\ head' = head + 1
          /\ UNCHANGED <<tail, sentinel, used, buffer, locals, claimed, cast>>
      BY <1>12, <2>2 DEF PopCasHead
    <3>2. \A d \in Consumers : d # c => pc[d] = "idle"
      BY <3>1
    <3>3. Ordered'
      BY <3>1
    <3>4. Pushing'
      BY <3>1
    <3>5. ClaimedOnce'
      BY <3>1
    <3>6. Popping'
      BY <3>1, <3>2
    <3> QED
      BY <3>3, <3>4, <3>5, <3>6
  <2> QED
    BY <2>1, <2>2
<1>13. ASSUME NEW c \in Consumers, PopCount(c) PROVE Ring'
  BY <1>13 DEF PopCount
<1> QED
  BY <1>1, <1>2, <1>3, <1>4, <1>5, <1>6, <1>7, <1>8, <1>9, <1>10, <1>11, <1>12, <1>13, Zenon
  DEF Next, PushStep, PopStep

(* The invariant holds always. *)
LEMMA Inductive == Spec => []IInv
<1>1. Init => IInv
  BY CFifoAssumption
  DEF Init, IInv, TypeOK, Valued, Ring, Ordered, Pushing, ClaimedOnce, Popping, Threads
<1>2. IInv /\ [Next]_vars => IInv'
  <2> SUFFICES ASSUME IInv, [Next]_vars PROVE IInv'
    OBVIOUS
  <2>1. UNCHANGED cast
    BY DEF Next, PushStep, PopStep, PushCall, PushLoadTail, PushLoadHead, PushCasTail,
           PushWrite, PushPublish, PushCount, PopCall, PopLoadSentinel, PopLoadHead,
           PopRead, PopCasHead, PopCount, Goto, vars
  <2>2. OneConsumer' = OneConsumer
    BY <2>1 DEF OneConsumer
  <2> QED
    BY <2>2, TypeStep, ValuedStep, RingStep DEF IInv
<1> QED
  BY <1>1, <1>2, PTL DEF Spec

(* The counters of a ring with one consumer stay in order and within its     *)
(* capacity, whatever the number of producers (cfifo.c:65, 72, 95).          *)
THEOREM CountersOrdered == Spec => []Ordered
<1>1. IInv => Ordered
  BY DEF IInv, Ring, Ordered
<1> QED
  BY <1>1, Inductive, PTL

(* No slot is written by two producers at once, or written while it is read  *)
(* (cfifo.c:69, 98): a claimed slot lies between sentinel and tail, the slot *)
(* to be read below the sentinel, and both within one lap.                   *)
THEOREM SlotsNotRaced == Spec => []NoSlotRace
<1>1. IInv => NoSlotRace
  <2> SUFFICES ASSUME IInv, OneConsumer, NEW p \in Producers, pc[p] = "write"
               PROVE  /\ \A q \in Producers \ {p} :
                            pc[q] = "write" => Slot(ltail[q]) # Slot(ltail[p])
                      /\ \A c \in Consumers :
                            pc[c] = "read" => Slot(lhead[c]) # Slot(ltail[p])
    BY DEF NoSlotRace
  <2> USE DEF IInv, Ring, Ordered, Pushing, ClaimedOnce, Popping, TypeOK
  <2>1. ASSUME NEW q \in Producers \ {p}, pc[q] = "write"
        PROVE  Slot(ltail[q]) # Slot(ltail[p])
    <3>1. /\ ltail[p] \in Nat /\ ltail[q] \in Nat /\ ltail[p] # ltail[q]
          /\ ltail[p] - ltail[q] <= Capacity /\ ltail[q] - ltail[p] <= Capacity
      BY <2>1, CFifoAssumption
    <3> QED
      BY <3>1, SlotsDiffer
  <2>2. ASSUME NEW c \in Consumers, pc[c] = "read"
        PROVE  Slot(lhead[c]) # Slot(ltail[p])
    <3>1. /\ ltail[p] \in Nat /\ lhead[c] \in Nat
          /\ lhead[c] < ltail[p] /\ ltail[p] - lhead[c] <= Capacity
      BY <2>2, CFifoAssumption
    <3> QED
      BY <3>1, SlotsDiffer
  <2> QED
    BY <2>1, <2>2
<1> QED
  BY <1>1, Inductive, PTL

(* A pop that answers "empty" found an empty ring, and a push that answers   *)
(* "full" a full one, unless another push came between its two loads         *)
(* (cfifo.c:63-67, 95-97), for every capacity.                               *)
THEOREM AnswersRight == Spec => RefusesRightly
<1>1. IInv /\ [Next]_vars => [OneConsumer =>
         /\ \A c \in Consumers :
              pc[c] = "load_head" /\ pc'[c] = "idle" => lsentinel[c] = head
         /\ \A p \in Producers :
              pc[p] = "load_head" /\ pc'[p] = "idle" /\ ltail[p] = tail
                => tail - head = Capacity]_vars
  <2> SUFFICES ASSUME IInv, Next, OneConsumer
               PROVE  /\ \A c \in Consumers :
                           pc[c] = "load_head" /\ pc'[c] = "idle" => lsentinel[c] = head
                      /\ \A p \in Producers :
                           pc[p] = "load_head" /\ pc'[p] = "idle" /\ ltail[p] = tail
                             => tail - head = Capacity
    OBVIOUS
  <2> USE CFifoAssumption DEF IInv, TypeOK, Threads, Goto
  <2>1. ASSUME NEW p \in Producers, NEW t \in Threads \ {p},
               PushStep(p) \/ \E v \in Values : PushCall(p, v)
        PROVE  pc'[t] = pc[t]
    BY <2>1 DEF PushStep, PushCall, PushLoadTail, PushLoadHead, PushCasTail, PushWrite,
                PushPublish, PushCount
  <2>2. ASSUME NEW c \in Consumers, NEW t \in Threads \ {c}, PopStep(c) \/ PopCall(c)
        PROVE  pc'[t] = pc[t]
    BY <2>2 DEF PopStep, PopCall, PopLoadSentinel, PopLoadHead, PopRead, PopCasHead, PopCount
  <2>3. ASSUME NEW c \in Consumers, pc[c] = "load_head", pc'[c] = "idle"
        PROVE  Slot(head) = Slot(lsentinel[c])
    <3>1. PopStep(c) \/ PopCall(c)
      BY <2>1, <2>2, <2>3, Zenon DEF Next
    <3> QED
      BY <2>3, <3>1 DEF PopStep, PopCall, PopLoadSentinel, PopLoadHead, PopRead,
                        PopCasHead, PopCount
  <2>4. ASSUME NEW p \in Producers, pc[p] = "load_head", pc'[p] = "idle"
        PROVE  Slot(ltail[p] + 1) = Slot(head)
    <3>1. PushStep(p) \/ \E v \in Values : PushCall(p, v)
      <4>1. \A c \in Consumers : ~ (PopStep(c) \/ PopCall(c))
        BY <2>2, <2>4, Zenon
      <4>2. PICK q \in Producers : PushStep(q) \/ \E v \in Values : PushCall(q, v)
        BY <4>1 DEF Next
      <4>3. q = p
        BY <2>1, <2>4, <4>2
      <4> QED
        BY <4>2, <4>3
    <3> QED
      BY <2>4, <3>1 DEF PushStep, PushCall, PushLoadTail, PushLoadHead, PushCasTail,
                        PushWrite, PushPublish, PushCount
  <2>5. ASSUME NEW c \in Consumers, pc[c] = "load_head", pc'[c] = "idle"
        PROVE  lsentinel[c] = head
    <3>1. head <= lsentinel[c] /\ lsentinel[c] - head <= Capacity
      BY <2>5 DEF Ring, Popping, Ordered
    <3>2. head < lsentinel[c] => Slot(head) # Slot(lsentinel[c])
      BY <3>1, SlotsDiffer
    <3> QED
      BY <2>3, <2>5, <3>1, <3>2
  <2>6. ASSUME NEW p \in Producers, pc[p] = "load_head", pc'[p] = "idle", ltail[p] = tail
        PROVE  tail - head = Capacity
    <3>1. head <= tail /\ tail - head <= Capacity
      BY DEF Ring, Ordered
    <3>2. tail - head < Capacity => Slot(head) # Slot(tail + 1)
      BY <3>1, SlotsDiffer
    <3> QED
      BY <2>4, <2>6, <3>1, <3>2
  <2> QED
    BY <2>5, <2>6
<1> QED
  BY <1>1, Inductive, PTL DEF Spec, RefusesRightly

-----------------------------------------------------------------------------
(* The ring as a queue: a push enqueues when it moves the sentinel past its  *)
(* slot, a pop dequeues when it moves the head.                              *)

(* The queue that the refinement mapping sees in a ring. *)
Between(h, s, b) == [i \in 1..(s - h) |-> b[Slot(h + i - 1)]]

Published == Between(head, sentinel, buffer)

(* A function on 1..n is a sequence of length n. *)
LEMMA FunctionIsSeq ==
    ASSUME NEW n \in Nat, NEW S, NEW f \in [1..n -> S]
    PROVE  f \in Seq(S) /\ Len(f) = n
<1>1. f \in Seq(S)
  BY SMT
<1>2. DOMAIN f = 1..n /\ DOMAIN f = 1..Len(f) /\ Len(f) \in Nat
  BY <1>1, LenProperties
<1> QED
  BY <1>1, <1>2

(* The queue in a ring is as long as the counters are apart. *)
LEMMA BetweenIsSeq ==
    ASSUME NEW h \in Nat, NEW s \in Nat, h <= s,
           NEW b \in [0..Capacity -> Values \cup {NoValue}]
    PROVE  /\ Between(h, s, b) \in Seq(Values \cup {NoValue})
           /\ Len(Between(h, s, b)) = s - h
           /\ \A i \in 1..(s - h) : Between(h, s, b)[i] = b[Slot(h + i - 1)]
<1>1. s - h \in Nat /\ \A i \in 1..(s - h) : h + i - 1 \in Nat
  OBVIOUS
<1>2. \A i \in 1..(s - h) : b[Slot(h + i - 1)] \in Values \cup {NoValue}
  BY <1>1, SlotIsIndex
<1>3. Between(h, s, b) \in [1..(s - h) -> Values \cup {NoValue}]
  BY <1>2, Zenon DEF Between
<1>4. Between(h, s, b) \in Seq(Values \cup {NoValue}) /\ Len(Between(h, s, b)) = s - h
  BY <1>1, <1>3, FunctionIsSeq
<1>5. \A i \in 1..(s - h) : Between(h, s, b)[i] = b[Slot(h + i - 1)]
  BY DEF Between
<1> QED
  BY <1>4, <1>5

(* The slot that a push writes is not published yet (cfifo.c:70). *)
LEMMA WriteKeepsQueue ==
    ASSUME IInv, OneConsumer, NEW p \in Producers, PushWrite(p)
    PROVE  Published' = Published
<1> USE CFifoAssumption DEF IInv, Ring, Ordered, Pushing, TypeOK
<1>1. /\ pc[p] = "write" /\ buffer' = [buffer EXCEPT ![Slot(ltail[p])] = lvalue[p]]
      /\ head' = head /\ sentinel' = sentinel
  BY DEF PushWrite, Goto
<1>2. ASSUME NEW i \in 1..(sentinel - head)
      PROVE  buffer'[Slot(head + i - 1)] = buffer[Slot(head + i - 1)]
  <2>1. /\ head + i - 1 \in Nat /\ ltail[p] \in Nat
        /\ head + i - 1 < ltail[p] /\ ltail[p] - (head + i - 1) <= Capacity
    BY <1>1
  <2>2. Slot(head + i - 1) # Slot(ltail[p])
    BY <2>1, SlotsDiffer
  <2> QED
    BY <1>1, <2>1, <2>2, SlotIsIndex
<1> QED
  BY <1>1, <1>2, Zenon DEF Published, Between, Slot

(* A push enqueues its value when it moves the sentinel (cfifo.c:74). *)
LEMMA PublishEnqueues ==
    ASSUME IInv, IInv', OneConsumer, NEW p \in Producers, PushPublish(p)
    PROVE  /\ Len(Published) < Capacity /\ lvalue[p] \in Values
           /\ Published' = Append(Published, lvalue[p])
           /\ delivered' = delivered
<1>1. /\ pc[p] = "publish" /\ sentinel = ltail[p] /\ sentinel' = sentinel + 1
      /\ head' = head /\ buffer' = buffer /\ delivered' = delivered /\ cast' = cast
  BY DEF PushPublish, Goto, history, locals
<1>2. /\ head \in Nat /\ sentinel \in Nat /\ tail \in Nat /\ Capacity \in Nat
      /\ head <= sentinel /\ sentinel < tail /\ tail - head <= Capacity
      /\ buffer \in [0..Capacity -> Values \cup {NoValue}]
      /\ buffer[Slot(sentinel)] = lvalue[p] /\ lvalue[p] \in Values
  BY <1>1, CFifoAssumption, Zenon DEF IInv, Ring, Ordered, TypeOK, Pushing, Valued
<1>3. /\ Published \in Seq(Values \cup {NoValue}) /\ Len(Published) = sentinel - head
      /\ \A i \in 1..(sentinel - head) : Published[i] = buffer[Slot(head + i - 1)]
  BY <1>2, BetweenIsSeq, Zenon DEF Published
<1>5. /\ Published' \in Seq(Values \cup {NoValue}) /\ Len(Published') = (sentinel + 1) - head
      /\ \A i \in 1..((sentinel + 1) - head) : Published'[i] = buffer[Slot(head + i - 1)]
  <2>1. Published' = Between(head, sentinel + 1, buffer)
    BY <1>1 DEF Published, Between, Slot
  <2> QED
    <3> DEFINE s == sentinel + 1
    <3>1. head <= s /\ s \in Nat
      BY <1>2
    <3> HIDE DEF s
    <3>2. /\ Between(head, s, buffer) \in Seq(Values \cup {NoValue})
          /\ Len(Between(head, s, buffer)) = s - head
          /\ \A i \in 1..(s - head) : Between(head, s, buffer)[i] = buffer[Slot(head + i - 1)]
      BY <1>2, <3>1, BetweenIsSeq, Zenon
    <3> QED
      BY <2>1, <3>2 DEF s
<1>6. Published' = Append(Published, lvalue[p])
  <2> DEFINE A == Append(Published, lvalue[p])
  <2>1. /\ A \in Seq(Values \cup {NoValue}) /\ Len(A) = sentinel - head + 1
        /\ \A i \in 1..(sentinel - head) : A[i] = Published[i]
        /\ A[sentinel - head + 1] = lvalue[p]
    <3>1. lvalue[p] \in Values \cup {NoValue}
      BY <1>2
    <3>2. /\ A \in Seq(Values \cup {NoValue}) /\ Len(A) = Len(Published) + 1
          /\ \A i \in 1..Len(Published) : A[i] = Published[i]
          /\ A[Len(Published) + 1] = lvalue[p]
      BY <1>3, <3>1, AppendProperties
    <3> QED
      BY <1>3, <3>2
  <2> HIDE DEF A
  <2>2. ASSUME NEW i \in 1..((sentinel + 1) - head) PROVE Published'[i] = A[i]
    <3>1. CASE i \in 1..(sentinel - head)
      BY <1>3, <1>5, <2>1, <3>1, Zenon
    <3>2. CASE i = sentinel - head + 1
      <4>1. head + i - 1 = sentinel
        BY <1>2, <3>2
      <4> QED
        BY <1>2, <1>5, <2>1, <3>2, <4>1
    <3> QED
      BY <1>2, <3>1, <3>2
  <2>3. Len(Published') = Len(A)
    BY <1>2, <1>5, <2>1
  <2> QED
    BY <1>2, <1>5, <2>1, <2>2, <2>3, SeqEqual DEF A
<1> QED
  BY <1>1, <1>2, <1>3, <1>6

(* A pop dequeues the value it has read when it moves the head (cfifo.c:100). *)
LEMMA PopDequeues ==
    ASSUME IInv, IInv', OneConsumer, NEW c \in Consumers, PopCasHead(c), head = lhead[c]
    PROVE  /\ Published # << >> /\ Published' = Tail(Published)
           /\ delivered' = Append(delivered, Head(Published))
<1>1. /\ pc[c] = "cas_head" /\ head' = head + 1 /\ sentinel' = sentinel
      /\ buffer' = buffer /\ delivered' = Append(delivered, lvalue[c]) /\ cast' = cast
  BY DEF PopCasHead, Goto, history, locals
<1>2. /\ head \in Nat /\ sentinel \in Nat /\ head < sentinel /\ head <= sentinel
      /\ buffer \in [0..Capacity -> Values \cup {NoValue}]
      /\ lvalue[c] = buffer[Slot(head)]
  <2>1. lsentinel[c] \in Nat
    BY DEF IInv, TypeOK
  <2>2. head < lsentinel[c] /\ lsentinel[c] <= sentinel /\ lvalue[c] = buffer[Slot(head)]
    BY <1>1 DEF IInv, Ring, Popping
  <2> QED
    BY <2>1, <2>2 DEF IInv, TypeOK
<1>3. /\ Published \in Seq(Values \cup {NoValue}) /\ Len(Published) = sentinel - head
      /\ \A i \in 1..(sentinel - head) : Published[i] = buffer[Slot(head + i - 1)]
  BY <1>2, BetweenIsSeq, Zenon DEF Published
<1>5. /\ Published' \in Seq(Values \cup {NoValue}) /\ Len(Published') = sentinel - head - 1
      /\ \A i \in 1..(sentinel - head - 1) : Published'[i] = buffer[Slot(head + 1 + i - 1)]
  <2>1. Published' = Between(head + 1, sentinel, buffer)
    BY <1>1 DEF Published, Between, Slot
  <2> DEFINE h == head + 1
  <2>2. sentinel - h = sentinel - head - 1 /\ h \in Nat /\ h <= sentinel
    BY <1>2
  <2> HIDE DEF h
  <2>3. /\ Between(h, sentinel, buffer) \in Seq(Values \cup {NoValue})
        /\ Len(Between(h, sentinel, buffer)) = sentinel - h
        /\ \A i \in 1..(sentinel - h) : Between(h, sentinel, buffer)[i] = buffer[Slot(h + i - 1)]
    BY <1>2, <2>2, BetweenIsSeq, Zenon
  <2>4. Published' = Between(h, sentinel, buffer)
    BY <2>1 DEF h
  <2> QED
    BY <2>2, <2>3, <2>4 DEF h
<1>6. Published # << >>
  BY <1>2, <1>3, EmptySeq
<1>7. Head(Published) = lvalue[c]
  <2>1. Head(Published) = Published[1]
    BY <1>3, <1>6
  <2>2. Published[1] = buffer[Slot(head + 1 - 1)] /\ head + 1 - 1 = head
    BY <1>2, <1>3
  <2> QED
    BY <1>2, <2>1, <2>2
<1>8. Published' = Tail(Published)
  <2> DEFINE T == Tail(Published)
  <2>1. /\ T \in Seq(Values \cup {NoValue}) /\ Len(T) = sentinel - head - 1
        /\ \A i \in 1..(sentinel - head - 1) : T[i] = Published[i + 1]
    BY <1>3, <1>6, HeadTailProperties
  <2> HIDE DEF T
  <2>2. ASSUME NEW i \in 1..(sentinel - head - 1) PROVE Published'[i] = T[i]
    <3>1. i + 1 \in 1..(sentinel - head) /\ head + (i + 1) - 1 = head + 1 + i - 1
      BY <1>2
    <3>2. Published[i + 1] = buffer[Slot(head + 1 + i - 1)]
      BY <1>3, <3>1
    <3> QED
      BY <1>5, <2>1, <3>2
  <2> QED
    BY <1>5, <2>1, <2>2, SeqEqual DEF T
<1> QED
  BY <1>1, <1>6, <1>7, <1>8

(* A ring with one consumer implements a bounded queue, for any number of    *)
(* producers and any capacity (cfifo.c:55-105): values come out in the order *)
(* in which they were published, each once, and never more than Capacity are *)
(* inside.                                                                   *)
THEOREM ImplementsQueue == Spec => RefinesQueue
<1> DEFINE q == IF OneConsumer THEN Published ELSE << >>
           d == IF OneConsumer THEN delivered ELSE << >>
<1>1. Init => Queue!Init
  <2> SUFFICES ASSUME Init PROVE Queue!Init
    OBVIOUS
  <2>1. Published = << >> /\ delivered = << >>
    BY CFifoAssumption, FunctionIsSeq DEF Init, Published, Between
  <2> QED
    BY <2>1 DEF Init, Queue!Init, Published, Between
<1>2. IInv /\ IInv' /\ [Next]_vars => [Queue!Next]_<<q, d>>
  <2> SUFFICES ASSUME IInv, IInv', [Next]_vars PROVE [Queue!Next]_<<q, d>>
    OBVIOUS
  <2> USE DEF Goto, shared, locals, history
  <2>1. cast' = cast
    BY DEF Next, PushStep, PopStep, PushCall, PushLoadTail, PushLoadHead, PushCasTail,
           PushWrite, PushPublish, PushCount, PopCall, PopLoadSentinel, PopLoadHead,
           PopRead, PopCasHead, PopCount, Goto, vars
  <2>2. OneConsumer' = OneConsumer
    BY <2>1 DEF OneConsumer
  <2>3. CASE ~ OneConsumer
    BY <2>2, <2>3
  <2>4. ASSUME UNCHANGED <<head, sentinel, buffer, delivered>> PROVE UNCHANGED <<q, d>>
    BY <2>2, <2>4 DEF Published, Between, Slot
  <2>5. CASE OneConsumer
    <3>1. ASSUME NEW p \in Producers, PushWrite(p) PROVE UNCHANGED <<q, d>>
      BY <2>2, <3>1, WriteKeepsQueue, Zenon DEF PushWrite
    <3>2. ASSUME NEW p \in Producers, PushPublish(p) PROVE Queue!Next
      <4>1. Queue!Enqueue(lvalue[p]) /\ lvalue[p] \in Values
        BY <2>2, <2>5, <3>2, PublishEnqueues, Zenon DEF Queue!Enqueue, Published, Between
      <4> QED
        BY <4>1 DEF Queue!Next
    <3>3. ASSUME NEW c \in Consumers, PopCasHead(c), head = lhead[c] PROVE Queue!Next
      <4>1. Queue!Dequeue
        BY <2>2, <2>5, <3>3, PopDequeues, Zenon DEF Queue!Dequeue, Published, Between
      <4> QED
        BY <4>1 DEF Queue!Next
    <3>4. ASSUME NEW c \in Consumers, PopCasHead(c), head # lhead[c] PROVE UNCHANGED <<q, d>>
      BY <2>4, <3>4 DEF PopCasHead
    <3>5. ASSUME NEW p \in Producers,
                 \/ \E v \in Values : PushCall(p, v)
                 \/ PushLoadTail(p) \/ PushLoadHead(p) \/ PushCasTail(p) \/ PushCount(p)
          PROVE  UNCHANGED <<q, d>>
      BY <2>4, <3>5 DEF PushCall, PushLoadTail, PushLoadHead, PushCasTail, PushCount
    <3>6. ASSUME NEW c \in Consumers,
                 \/ PopCall(c) \/ PopLoadSentinel(c) \/ PopLoadHead(c)
                 \/ PopRead(c) \/ PopCount(c)
          PROVE  UNCHANGED <<q, d>>
      BY <2>4, <3>6 DEF PopCall, PopLoadSentinel, PopLoadHead, PopRead, PopCount
    <3>7. CASE UNCHANGED vars
      BY <2>4, <3>7 DEF vars
    <3> QED
      BY <3>1, <3>2, <3>3, <3>4, <3>5, <3>6, <3>7 DEF Next, PushStep, PopStep
  <2> QED
    BY <2>3, <2>5
<1>3. RefinesQueue <=> Queue!Init /\ [][Queue!Next]_<<q, d>>
  BY DEF RefinesQueue, Queue!Spec, Published, Between
<1> QED
  BY <1>1, <1>2, <1>3, Inductive, PTL DEF Spec

(* The calls that have moved a counter of the ring and not yet the count. *)
CountingPushes == {p \in Producers : pc[p] = "count"}
CountingPops == {c \in Consumers : pc[c] = "count"}

(* One call more or less is one more or less in the count of them. *)
LEMMA CountingStep ==
    ASSUME NEW S, IsFiniteSet(S), NEW t
    PROVE  /\ Cardinality(S) \in Int
           /\ t \notin S => Cardinality(S \cup {t}) = Cardinality(S) + 1
           /\ t \in S => Cardinality(S \ {t}) = Cardinality(S) - 1
  BY FS_AddElement, FS_RemoveElement, FS_CardinalityType

(* The count behind cfifo_size is right up to the calls that have yet to     *)
(* count theirs (cfifo.c:79, 102), for any number of producers and           *)
(* consumers, even where consumers overtake the sentinel.                    *)
THEOREM SizeAgrees == Spec => []UsedAgrees
<1>1. Init => UsedAgrees
  <2> SUFFICES ASSUME Init PROVE UsedAgrees
    OBVIOUS
  <2>1. CountingPushes = {} /\ CountingPops = {}
    BY DEF Init, Threads, CountingPushes, CountingPops
  <2>2. Cardinality(CountingPushes) = 0 /\ Cardinality(CountingPops) = 0
    BY <2>1, FS_EmptySet
  <2>3. used = sentinel - head - Cardinality(CountingPushes) + Cardinality(CountingPops)
    BY <2>2 DEF Init
  <2> QED
    BY <2>3 DEF UsedAgrees, CountingPushes, CountingPops
<1>2. IInv /\ UsedAgrees /\ [Next]_vars => UsedAgrees'
  <2> SUFFICES ASSUME IInv, UsedAgrees, [Next]_vars PROVE UsedAgrees'
    OBVIOUS
  <2>1. IsFiniteSet(CountingPushes) /\ IsFiniteSet(CountingPops)
    BY CFifoAssumption, FS_Subset DEF CountingPushes, CountingPops
  <2>2. /\ head \in Int /\ sentinel \in Int /\ used \in Int
        /\ pc \in [Threads -> PushPc \cup PopPc] /\ Producers \cap Consumers = {}
        /\ Cardinality(CountingPushes) \in Int /\ Cardinality(CountingPops) \in Int
    <3>1. Cardinality(CountingPushes) \in Int /\ Cardinality(CountingPops) \in Int
      BY <2>1, CountingStep, Zenon
    <3> QED
      BY <3>1, CFifoAssumption DEF IInv, TypeOK
  <2>3. used = sentinel - head - Cardinality(CountingPushes) + Cardinality(CountingPops)
    BY DEF UsedAgrees, CountingPushes, CountingPops
  <2>4. SUFFICES used' = sentinel' - head' - Cardinality(CountingPushes')
                           + Cardinality(CountingPops')
    BY DEF UsedAgrees, CountingPushes, CountingPops
  <2> USE DEF Goto, Threads, shared, locals, history
  <2>5. ASSUME NEW p \in Producers, PushPublish(p) PROVE <2>4!1
    <3>1. CountingPushes' = CountingPushes \cup {p} /\ CountingPops' = CountingPops
          /\ p \notin CountingPushes
      BY <2>2, <2>5 DEF PushPublish, CountingPushes, CountingPops
    <3>2. Cardinality(CountingPushes') = Cardinality(CountingPushes) + 1
      BY <2>1, <3>1, CountingStep
    <3> QED
      BY <2>2, <2>3, <2>5, <3>1, <3>2 DEF PushPublish
  <2>6. ASSUME NEW p \in Producers, PushCount(p) PROVE <2>4!1
    <3>1. CountingPushes' = CountingPushes \ {p} /\ CountingPops' = CountingPops
          /\ p \in CountingPushes
      BY <2>2, <2>6 DEF PushCount, CountingPushes, CountingPops
    <3>2. Cardinality(CountingPushes') = Cardinality(CountingPushes) - 1
      BY <2>1, <3>1, CountingStep
    <3> QED
      BY <2>2, <2>3, <2>6, <3>1, <3>2 DEF PushCount
  <2>7. ASSUME NEW c \in Consumers, PopCasHead(c), head = lhead[c] PROVE <2>4!1
    <3>1. CountingPops' = CountingPops \cup {c} /\ CountingPushes' = CountingPushes
          /\ c \notin CountingPops
      BY <2>2, <2>7 DEF PopCasHead, CountingPushes, CountingPops
    <3>2. Cardinality(CountingPops') = Cardinality(CountingPops) + 1
      BY <2>1, <3>1, CountingStep
    <3>3. head' = head + 1 /\ used' = used /\ sentinel' = sentinel
      BY <2>7 DEF PopCasHead
    <3> QED
      BY <2>2, <2>3, <3>1, <3>2, <3>3
  <2>8. ASSUME NEW c \in Consumers, PopCount(c) PROVE <2>4!1
    <3>1. CountingPops' = CountingPops \ {c} /\ CountingPushes' = CountingPushes
          /\ c \in CountingPops
      BY <2>2, <2>8 DEF PopCount, CountingPushes, CountingPops
    <3>2. Cardinality(CountingPops') = Cardinality(CountingPops) - 1
      BY <2>1, <3>1, CountingStep
    <3> QED
      BY <2>2, <2>3, <2>8, <3>1, <3>2 DEF PopCount
  <2>9. ASSUME UNCHANGED <<CountingPushes, CountingPops, used, sentinel, head>> PROVE <2>4!1
    BY <2>3, <2>9
  <2>10. ASSUME NEW p \in Producers,
                \/ \E v \in Values : PushCall(p, v)
                \/ PushLoadTail(p) \/ PushLoadHead(p) \/ PushCasTail(p) \/ PushWrite(p)
         PROVE  <2>4!1
    BY <2>2, <2>9, <2>10 DEF PushCall, PushLoadTail, PushLoadHead, PushCasTail, PushWrite,
                             CountingPushes, CountingPops
  <2>11. ASSUME NEW c \in Consumers,
                \/ PopCall(c) \/ PopLoadSentinel(c) \/ PopLoadHead(c) \/ PopRead(c)
                \/ PopCasHead(c) /\ head # lhead[c]
         PROVE  <2>4!1
    BY <2>2, <2>9, <2>11 DEF PopCall, PopLoadSentinel, PopLoadHead, PopRead, PopCasHead,
                             CountingPushes, CountingPops
  <2>12. CASE UNCHANGED vars
    BY <2>9, <2>12 DEF vars, CountingPushes, CountingPops
  <2> QED
    BY <2>5, <2>6, <2>7, <2>8, <2>10, <2>11, <2>12 DEF Next, PushStep, PopStep
<1> QED
  BY <1>1, <1>2, Inductive, PTL DEF Spec
=============================================================================
