----------------------------- MODULE LifoProofs -----------------------------
(***************************************************************************)
(* The slots of CLifo for any number of threads and any size.  A slot is a *)
(* lock (Exclusive), and the pushes and pops that moved head over it are   *)
(* balanced (Balanced): counting the pushes that have yet to fill the slot, *)
(* the pops that have yet to empty it and what is in it, the sum says      *)
(* whether head is above.  So a pop never waits at a slot that nobody will *)
(* fill, nor a push at one that nobody will empty.                         *)
(***************************************************************************)
EXTENDS CLifo, FiniteSetTheorems, TLAPS

Pushers(i) ==
    {t \in Threads : pc[t] \in {"push_lock", "push_write", "push_unlock"} /\ PushSlot(t) = i}
Poppers(i) ==
    {t \in Threads : pc[t] \in {"pop_lock", "pop_read", "pop_unlock"} /\ PopSlot(t) = i}

Filling(i) == IF lock[i] = "FULL" \/ Popping(i) # {} THEN 1 ELSE 0

Balanced(i) ==
    Filling(i) + Cardinality(Pushers(i)) - Cardinality(Poppers(i))
      = IF i < head THEN 1 ELSE 0

Exclusive(i) ==
    /\ \A t, u \in Pushing(i) \cup Popping(i) : t = u
    /\ (lock[i] = "BUSY") <=> (Pushing(i) \cup Popping(i) # {})

(* What a thread knows about its local head, and what it brought. *)
Locals ==
    \A t \in Threads :
        /\ pc[t] \in {"push_cas", "push_lock", "push_write", "push_unlock"} =>
             lhead[t] < Size - 1
        /\ pc[t] \in {"pop_cas", "pop_lock", "pop_read", "pop_unlock"} => 0 < lhead[t]
        /\ pc[t] \in {"push_load", "push_cas"} => lvalue[t] \in Values

IInv == TypeOK /\ Locals /\ \A i \in Slots : Exclusive(i) /\ Balanced(i)

USE DEF Pcs, Slots, Goto, PushSlot, PopSlot

-----------------------------------------------------------------------------
(* Every step keeps the types. *)
LEMMA TypeStep == TypeOK /\ Locals /\ [Next]_vars => TypeOK' /\ Locals'
<1> SUFFICES ASSUME TypeOK, Locals, [Next]_vars PROVE TypeOK' /\ Locals'
  OBVIOUS
<1> USE CLifoAssumption DEF TypeOK, Locals
<1>1. CASE UNCHANGED vars
  BY <1>1 DEF vars
<1>2. ASSUME NEW t \in Threads, NEW v \in Values, PushCall(t, v) PROVE TypeOK' /\ Locals'
  BY <1>2 DEF PushCall
<1>3. ASSUME NEW t \in Threads, PushLoad(t) PROVE TypeOK' /\ Locals'
  BY <1>3 DEF PushLoad
<1>4. ASSUME NEW t \in Threads, PushCas(t) PROVE TypeOK' /\ Locals'
  <2>1. CASE head = lhead[t]
    <3>1. /\ pc[t] = "push_cas" /\ pc' = [pc EXCEPT ![t] = "push_lock"] /\ head' = head + 1
          /\ given' = given \cup {lvalue[t]}
          /\ UNCHANGED <<lock, buffer, lhead, lvalue, taken, turns>>
      BY <1>4, <2>1 DEF PushCas
    <3>2. head < Size - 1 /\ lvalue[t] \in Values
      BY <2>1, <3>1
    <3>3. head' \in Slots /\ given' \subseteq Values
      BY <3>1, <3>2
    <3>4. TypeOK'
      BY <3>1, <3>3
    <3>5. Locals'
      BY <3>1
    <3> QED
      BY <3>4, <3>5
  <2>2. CASE head # lhead[t]
    BY <1>4, <2>2, Zenon DEF PushCas
  <2> QED
    BY <2>1, <2>2
<1>5. ASSUME NEW t \in Threads, PushLock(t) PROVE TypeOK' /\ Locals'
  BY <1>5 DEF PushLock
<1>6. ASSUME NEW t \in Threads, PushWrite(t) PROVE TypeOK' /\ Locals'
  BY <1>6 DEF PushWrite
<1>7. ASSUME NEW t \in Threads, PushUnlock(t) PROVE TypeOK' /\ Locals'
  BY <1>7 DEF PushUnlock
<1>8. ASSUME NEW t \in Threads, PopCall(t) PROVE TypeOK' /\ Locals'
  BY <1>8 DEF PopCall
<1>9. ASSUME NEW t \in Threads, PopLoad(t) PROVE TypeOK' /\ Locals'
  BY <1>9 DEF PopLoad
<1>10. ASSUME NEW t \in Threads, PopCas(t) PROVE TypeOK' /\ Locals'
  <2>1. CASE head = lhead[t]
    <3>1. /\ pc[t] = "pop_cas" /\ pc' = [pc EXCEPT ![t] = "pop_lock"] /\ head' = head - 1
          /\ UNCHANGED <<lock, buffer, lhead, lvalue, given, taken, turns>>
      BY <1>10, <2>1 DEF PopCas
    <3>2. head' \in Slots
      BY <2>1, <3>1
    <3>3. TypeOK'
      BY <3>1, <3>2
    <3>4. Locals'
      BY <3>1
    <3> QED
      BY <3>3, <3>4
  <2>2. CASE head # lhead[t]
    BY <1>10, <2>2, Zenon DEF PopCas
  <2> QED
    BY <2>1, <2>2
<1>11. ASSUME NEW t \in Threads, PopLock(t) PROVE TypeOK' /\ Locals'
  BY <1>11 DEF PopLock
<1>12. ASSUME NEW t \in Threads, PopRead(t) PROVE TypeOK' /\ Locals'
  BY <1>12 DEF PopRead
<1>13. ASSUME NEW t \in Threads, PopUnlock(t) PROVE TypeOK' /\ Locals'
  BY <1>13 DEF PopUnlock
<1> QED
  BY <1>1, <1>2, <1>3, <1>4, <1>5, <1>6, <1>7, <1>8, <1>9, <1>10, <1>11, <1>12, <1>13
  DEF Next, Step

(* A step of one thread leaves every other thread where it is. *)
LEMMA OthersStay ==
    ASSUME NEW t \in Threads, NEW i,
           \A u \in Threads \ {t} : pc'[u] = pc[u] /\ lhead'[u] = lhead[u]
    PROVE  /\ Pushing(i)' \ {t} = Pushing(i) \ {t}
           /\ Popping(i)' \ {t} = Popping(i) \ {t}
           /\ Pushers(i)' \ {t} = Pushers(i) \ {t}
           /\ Poppers(i)' \ {t} = Poppers(i) \ {t}
  BY DEF Pushing, Popping, Pushers, Poppers

(* Two sets that agree but for t differ by t or not at all. *)
LEMMA Change ==
    ASSUME NEW S, NEW T, NEW t, S \ {t} = T \ {t}
    PROVE  /\ (t \in S <=> t \in T) => S = T
           /\ t \in S /\ t \notin T => S = T \cup {t}
           /\ t \notin S /\ t \in T => S = T \ {t}
<1>1. ASSUME t \in S <=> t \in T PROVE S = T
  BY <1>1
<1>2. ASSUME t \in S, t \notin T PROVE S = T \cup {t}
  BY <1>2
<1>3. ASSUME t \notin S, t \in T PROVE S = T \ {t}
  BY <1>3
<1> QED
  BY <1>1, <1>2, <1>3

(* So what happens to these sets follows from where that thread goes. *)
LEMMA OneMoves ==
    ASSUME NEW t \in Threads, NEW i,
           \A u \in Threads \ {t} : pc'[u] = pc[u] /\ lhead'[u] = lhead[u]
    PROVE  /\ (t \in Pushing(i)' <=> t \in Pushing(i)) => Pushing(i)' = Pushing(i)
           /\ t \in Pushing(i)' /\ t \notin Pushing(i) => Pushing(i)' = Pushing(i) \cup {t}
           /\ t \notin Pushing(i)' /\ t \in Pushing(i) => Pushing(i)' = Pushing(i) \ {t}
           /\ (t \in Popping(i)' <=> t \in Popping(i)) => Popping(i)' = Popping(i)
           /\ t \in Popping(i)' /\ t \notin Popping(i) => Popping(i)' = Popping(i) \cup {t}
           /\ t \notin Popping(i)' /\ t \in Popping(i) => Popping(i)' = Popping(i) \ {t}
           /\ (t \in Pushers(i)' <=> t \in Pushers(i)) => Pushers(i)' = Pushers(i)
           /\ t \in Pushers(i)' /\ t \notin Pushers(i) => Pushers(i)' = Pushers(i) \cup {t}
           /\ t \notin Pushers(i)' /\ t \in Pushers(i) => Pushers(i)' = Pushers(i) \ {t}
           /\ (t \in Poppers(i)' <=> t \in Poppers(i)) => Poppers(i)' = Poppers(i)
           /\ t \in Poppers(i)' /\ t \notin Poppers(i) => Poppers(i)' = Poppers(i) \cup {t}
           /\ t \notin Poppers(i)' /\ t \in Poppers(i) => Poppers(i)' = Poppers(i) \ {t}
<1>1. /\ (t \in Pushing(i)' <=> t \in Pushing(i)) => Pushing(i)' = Pushing(i)
      /\ t \in Pushing(i)' /\ t \notin Pushing(i) => Pushing(i)' = Pushing(i) \cup {t}
      /\ t \notin Pushing(i)' /\ t \in Pushing(i) => Pushing(i)' = Pushing(i) \ {t}
  <2>1. Pushing(i)' \ {t} = Pushing(i) \ {t}
    BY OthersStay
  <2> QED
    BY <2>1, Change
<1>2. /\ (t \in Popping(i)' <=> t \in Popping(i)) => Popping(i)' = Popping(i)
      /\ t \in Popping(i)' /\ t \notin Popping(i) => Popping(i)' = Popping(i) \cup {t}
      /\ t \notin Popping(i)' /\ t \in Popping(i) => Popping(i)' = Popping(i) \ {t}
  <2>1. Popping(i)' \ {t} = Popping(i) \ {t}
    BY OthersStay
  <2> QED
    BY <2>1, Change
<1>3. /\ (t \in Pushers(i)' <=> t \in Pushers(i)) => Pushers(i)' = Pushers(i)
      /\ t \in Pushers(i)' /\ t \notin Pushers(i) => Pushers(i)' = Pushers(i) \cup {t}
      /\ t \notin Pushers(i)' /\ t \in Pushers(i) => Pushers(i)' = Pushers(i) \ {t}
  <2>1. Pushers(i)' \ {t} = Pushers(i) \ {t}
    BY OthersStay
  <2> QED
    BY <2>1, Change
<1>4. /\ (t \in Poppers(i)' <=> t \in Poppers(i)) => Poppers(i)' = Poppers(i)
      /\ t \in Poppers(i)' /\ t \notin Poppers(i) => Poppers(i)' = Poppers(i) \cup {t}
      /\ t \notin Poppers(i)' /\ t \in Poppers(i) => Poppers(i)' = Poppers(i) \ {t}
  <2>1. Poppers(i)' \ {t} = Poppers(i) \ {t}
    BY OthersStay
  <2> QED
    BY <2>1, Change
<1> QED
  BY <1>1, <1>2, <1>3, <1>4

(* The steps that neither move head nor take or release a slot. *)
LEMMA FreeStep ==
    ASSUME TypeOK, Locals, NEW t \in Threads,
           \/ (\E v \in Values : PushCall(t, v)) \/ PushLoad(t) \/ PopCall(t) \/ PopLoad(t)
           \/ (PushCas(t) /\ head # lhead[t]) \/ (PopCas(t) /\ head # lhead[t])
           \/ PushWrite(t) \/ PopRead(t)
    PROVE  /\ head' = head /\ lock' = lock
           /\ \A i \in Slots : /\ Pushing(i)' = Pushing(i) /\ Popping(i)' = Popping(i)
                               /\ Pushers(i)' = Pushers(i) /\ Poppers(i)' = Poppers(i)
<1> USE CLifoAssumption DEF TypeOK, Locals
<1>1. \A u \in Threads \ {t} : pc'[u] = pc[u] /\ lhead'[u] = lhead[u]
  BY DEF PushCall, PushLoad, PopCall, PopLoad, PushCas, PopCas, PushWrite, PopRead
<1>2. head' = head /\ lock' = lock
  BY DEF PushCall, PushLoad, PopCall, PopLoad, PushCas, PopCas, PushWrite, PopRead
<1>3. ASSUME NEW i \in Slots
      PROVE  /\ t \in Pushing(i)' <=> t \in Pushing(i)
             /\ t \in Popping(i)' <=> t \in Popping(i)
             /\ t \in Pushers(i)' <=> t \in Pushers(i)
             /\ t \in Poppers(i)' <=> t \in Poppers(i)
  BY DEF PushCall, PushLoad, PopCall, PopLoad, PushCas, PopCas, PushWrite, PopRead,
         Pushing, Popping, Pushers, Poppers
<1>4. ASSUME NEW i \in Slots
      PROVE  /\ Pushing(i)' = Pushing(i) /\ Popping(i)' = Popping(i)
             /\ Pushers(i)' = Pushers(i) /\ Poppers(i)' = Poppers(i)
  BY <1>1, <1>3, OneMoves
<1> QED
  BY <1>2, <1>4

(* A push claims the slot at the head: it is one more pusher of it. *)
LEMMA PushCasStep ==
    ASSUME TypeOK, Locals, NEW t \in Threads, PushCas(t), head = lhead[t], NEW s, s = head
    PROVE  /\ s \in Slots
           /\ head' = head + 1
           /\ lock' = lock
           /\ Pushing(s)' = Pushing(s)
           /\ Popping(s)' = Popping(s)
           /\ t \notin Pushers(s) /\ Pushers(s)' = Pushers(s) \cup {t}
           /\ Poppers(s)' = Poppers(s)
           /\ \A i \in Slots \ {s} : /\ Pushing(i)' = Pushing(i) /\ Popping(i)' = Popping(i)
                                     /\ Pushers(i)' = Pushers(i) /\ Poppers(i)' = Poppers(i)
<1> USE CLifoAssumption DEF TypeOK, Locals, PushCas
<1>1. \A u \in Threads \ {t} : pc'[u] = pc[u] /\ lhead'[u] = lhead[u]
  OBVIOUS
<1>2. s \in Slots /\ head' = head + 1 /\ lock' = lock
  OBVIOUS
<1>3. /\ t \in Pushing(s)' <=> t \in Pushing(s)
      /\ t \in Popping(s)' <=> t \in Popping(s)
      /\ t \notin Pushers(s) /\ t \in Pushers(s)'
      /\ t \in Poppers(s)' <=> t \in Poppers(s)
  BY DEF Pushing, Popping, Pushers, Poppers
<1>4. Pushing(s)' = Pushing(s)
  BY <1>1, <1>3, OneMoves
<1>5. Popping(s)' = Popping(s)
  BY <1>1, <1>3, OneMoves
<1>6. t \notin Pushers(s) /\ Pushers(s)' = Pushers(s) \cup {t}
  BY <1>1, <1>3, OneMoves
<1>7. Poppers(s)' = Poppers(s)
  BY <1>1, <1>3, OneMoves
<1>8. ASSUME NEW i \in Slots \ {s}
      PROVE  /\ Pushing(i)' = Pushing(i) /\ Popping(i)' = Popping(i)
             /\ Pushers(i)' = Pushers(i) /\ Poppers(i)' = Poppers(i)
  <2>1. /\ t \in Pushing(i)' <=> t \in Pushing(i)
        /\ t \in Popping(i)' <=> t \in Popping(i)
        /\ t \in Pushers(i)' <=> t \in Pushers(i)
        /\ t \in Poppers(i)' <=> t \in Poppers(i)
    BY <1>8 DEF Pushing, Popping, Pushers, Poppers
  <2> QED
    BY <1>1, <2>1, OneMoves
<1> QED
  BY <1>2, <1>4, <1>5, <1>6, <1>7, <1>8

(* A pop claims the slot below the head: it is one more popper of it. *)
LEMMA PopCasStep ==
    ASSUME TypeOK, Locals, NEW t \in Threads, PopCas(t), head = lhead[t], NEW s, s = head - 1
    PROVE  /\ s \in Slots
           /\ head' = head - 1
           /\ lock' = lock
           /\ Pushing(s)' = Pushing(s)
           /\ Popping(s)' = Popping(s)
           /\ Pushers(s)' = Pushers(s)
           /\ t \notin Poppers(s) /\ Poppers(s)' = Poppers(s) \cup {t}
           /\ \A i \in Slots \ {s} : /\ Pushing(i)' = Pushing(i) /\ Popping(i)' = Popping(i)
                                     /\ Pushers(i)' = Pushers(i) /\ Poppers(i)' = Poppers(i)
<1> USE CLifoAssumption DEF TypeOK, Locals, PopCas
<1>1. \A u \in Threads \ {t} : pc'[u] = pc[u] /\ lhead'[u] = lhead[u]
  OBVIOUS
<1>2. s \in Slots /\ head' = head - 1 /\ lock' = lock
  OBVIOUS
<1>3. /\ t \in Pushing(s)' <=> t \in Pushing(s)
      /\ t \in Popping(s)' <=> t \in Popping(s)
      /\ t \in Pushers(s)' <=> t \in Pushers(s)
      /\ t \notin Poppers(s) /\ t \in Poppers(s)'
  BY DEF Pushing, Popping, Pushers, Poppers
<1>4. Pushing(s)' = Pushing(s)
  BY <1>1, <1>3, OneMoves
<1>5. Popping(s)' = Popping(s)
  BY <1>1, <1>3, OneMoves
<1>6. Pushers(s)' = Pushers(s)
  BY <1>1, <1>3, OneMoves
<1>7. t \notin Poppers(s) /\ Poppers(s)' = Poppers(s) \cup {t}
  BY <1>1, <1>3, OneMoves
<1>8. ASSUME NEW i \in Slots \ {s}
      PROVE  /\ Pushing(i)' = Pushing(i) /\ Popping(i)' = Popping(i)
             /\ Pushers(i)' = Pushers(i) /\ Poppers(i)' = Poppers(i)
  <2>1. /\ t \in Pushing(i)' <=> t \in Pushing(i)
        /\ t \in Popping(i)' <=> t \in Popping(i)
        /\ t \in Pushers(i)' <=> t \in Pushers(i)
        /\ t \in Poppers(i)' <=> t \in Poppers(i)
    BY <1>8 DEF Pushing, Popping, Pushers, Poppers
  <2> QED
    BY <1>1, <2>1, OneMoves
<1> QED
  BY <1>2, <1>4, <1>5, <1>6, <1>7, <1>8

(* A push locks its slot, which was empty. *)
LEMMA PushLockStep ==
    ASSUME TypeOK, Locals, NEW t \in Threads, PushLock(t), NEW s, s = PushSlot(t)
    PROVE  /\ s \in Slots
           /\ head' = head
           /\ lock[PushSlot(t)] = "EMPTY"
           /\ lock' = [lock EXCEPT ![PushSlot(t)] = "BUSY"]
           /\ t \notin Pushing(s) /\ Pushing(s)' = Pushing(s) \cup {t}
           /\ Popping(s)' = Popping(s)
           /\ Pushers(s)' = Pushers(s)
           /\ Poppers(s)' = Poppers(s)
           /\ \A i \in Slots \ {s} : /\ Pushing(i)' = Pushing(i) /\ Popping(i)' = Popping(i)
                                     /\ Pushers(i)' = Pushers(i) /\ Poppers(i)' = Poppers(i)
<1> USE CLifoAssumption DEF TypeOK, Locals, PushLock
<1>1. \A u \in Threads \ {t} : pc'[u] = pc[u] /\ lhead'[u] = lhead[u]
  OBVIOUS
<1>2. s \in Slots /\ head' = head /\ lock[PushSlot(t)] = "EMPTY" /\ lock' = [lock EXCEPT ![PushSlot(t)] = "BUSY"]
  OBVIOUS
<1>3. /\ t \notin Pushing(s) /\ t \in Pushing(s)'
      /\ t \in Popping(s)' <=> t \in Popping(s)
      /\ t \in Pushers(s)' <=> t \in Pushers(s)
      /\ t \in Poppers(s)' <=> t \in Poppers(s)
  BY DEF Pushing, Popping, Pushers, Poppers
<1>4. t \notin Pushing(s) /\ Pushing(s)' = Pushing(s) \cup {t}
  BY <1>1, <1>3, OneMoves
<1>5. Popping(s)' = Popping(s)
  BY <1>1, <1>3, OneMoves
<1>6. Pushers(s)' = Pushers(s)
  BY <1>1, <1>3, OneMoves
<1>7. Poppers(s)' = Poppers(s)
  BY <1>1, <1>3, OneMoves
<1>8. ASSUME NEW i \in Slots \ {s}
      PROVE  /\ Pushing(i)' = Pushing(i) /\ Popping(i)' = Popping(i)
             /\ Pushers(i)' = Pushers(i) /\ Poppers(i)' = Poppers(i)
  <2>1. /\ t \in Pushing(i)' <=> t \in Pushing(i)
        /\ t \in Popping(i)' <=> t \in Popping(i)
        /\ t \in Pushers(i)' <=> t \in Pushers(i)
        /\ t \in Poppers(i)' <=> t \in Poppers(i)
    BY <1>8 DEF Pushing, Popping, Pushers, Poppers
  <2> QED
    BY <1>1, <2>1, OneMoves
<1> QED
  BY <1>2, <1>4, <1>5, <1>6, <1>7, <1>8

(* A push leaves its slot full, and is no pusher of it any more. *)
LEMMA PushUnlockStep ==
    ASSUME TypeOK, Locals, NEW t \in Threads, PushUnlock(t), NEW s, s = PushSlot(t)
    PROVE  /\ s \in Slots
           /\ head' = head
           /\ lock' = [lock EXCEPT ![PushSlot(t)] = "FULL"]
           /\ t \in Pushing(s) /\ Pushing(s)' = Pushing(s) \ {t}
           /\ Popping(s)' = Popping(s)
           /\ t \in Pushers(s) /\ Pushers(s)' = Pushers(s) \ {t}
           /\ Poppers(s)' = Poppers(s)
           /\ \A i \in Slots \ {s} : /\ Pushing(i)' = Pushing(i) /\ Popping(i)' = Popping(i)
                                     /\ Pushers(i)' = Pushers(i) /\ Poppers(i)' = Poppers(i)
<1> USE CLifoAssumption DEF TypeOK, Locals, PushUnlock
<1>1. \A u \in Threads \ {t} : pc'[u] = pc[u] /\ lhead'[u] = lhead[u]
  OBVIOUS
<1>2. s \in Slots /\ head' = head /\ lock' = [lock EXCEPT ![PushSlot(t)] = "FULL"]
  OBVIOUS
<1>3. /\ t \in Pushing(s) /\ t \notin Pushing(s)'
      /\ t \in Popping(s)' <=> t \in Popping(s)
      /\ t \in Pushers(s) /\ t \notin Pushers(s)'
      /\ t \in Poppers(s)' <=> t \in Poppers(s)
  BY DEF Pushing, Popping, Pushers, Poppers
<1>4. t \in Pushing(s) /\ Pushing(s)' = Pushing(s) \ {t}
  BY <1>1, <1>3, OneMoves
<1>5. Popping(s)' = Popping(s)
  BY <1>1, <1>3, OneMoves
<1>6. t \in Pushers(s) /\ Pushers(s)' = Pushers(s) \ {t}
  BY <1>1, <1>3, OneMoves
<1>7. Poppers(s)' = Poppers(s)
  BY <1>1, <1>3, OneMoves
<1>8. ASSUME NEW i \in Slots \ {s}
      PROVE  /\ Pushing(i)' = Pushing(i) /\ Popping(i)' = Popping(i)
             /\ Pushers(i)' = Pushers(i) /\ Poppers(i)' = Poppers(i)
  <2>1. /\ t \in Pushing(i)' <=> t \in Pushing(i)
        /\ t \in Popping(i)' <=> t \in Popping(i)
        /\ t \in Pushers(i)' <=> t \in Pushers(i)
        /\ t \in Poppers(i)' <=> t \in Poppers(i)
    BY <1>8 DEF Pushing, Popping, Pushers, Poppers
  <2> QED
    BY <1>1, <2>1, OneMoves
<1> QED
  BY <1>2, <1>4, <1>5, <1>6, <1>7, <1>8

(* A pop locks its slot, which was full. *)
LEMMA PopLockStep ==
    ASSUME TypeOK, Locals, NEW t \in Threads, PopLock(t), NEW s, s = PopSlot(t)
    PROVE  /\ s \in Slots
           /\ head' = head
           /\ lock[PopSlot(t)] = "FULL"
           /\ lock' = [lock EXCEPT ![PopSlot(t)] = "BUSY"]
           /\ Pushing(s)' = Pushing(s)
           /\ t \notin Popping(s) /\ Popping(s)' = Popping(s) \cup {t}
           /\ Pushers(s)' = Pushers(s)
           /\ Poppers(s)' = Poppers(s)
           /\ \A i \in Slots \ {s} : /\ Pushing(i)' = Pushing(i) /\ Popping(i)' = Popping(i)
                                     /\ Pushers(i)' = Pushers(i) /\ Poppers(i)' = Poppers(i)
<1> USE CLifoAssumption DEF TypeOK, Locals, PopLock
<1>1. \A u \in Threads \ {t} : pc'[u] = pc[u] /\ lhead'[u] = lhead[u]
  OBVIOUS
<1>2. s \in Slots /\ head' = head /\ lock[PopSlot(t)] = "FULL" /\ lock' = [lock EXCEPT ![PopSlot(t)] = "BUSY"]
  OBVIOUS
<1>3. /\ t \in Pushing(s)' <=> t \in Pushing(s)
      /\ t \notin Popping(s) /\ t \in Popping(s)'
      /\ t \in Pushers(s)' <=> t \in Pushers(s)
      /\ t \in Poppers(s)' <=> t \in Poppers(s)
  BY DEF Pushing, Popping, Pushers, Poppers
<1>4. Pushing(s)' = Pushing(s)
  BY <1>1, <1>3, OneMoves
<1>5. t \notin Popping(s) /\ Popping(s)' = Popping(s) \cup {t}
  BY <1>1, <1>3, OneMoves
<1>6. Pushers(s)' = Pushers(s)
  BY <1>1, <1>3, OneMoves
<1>7. Poppers(s)' = Poppers(s)
  BY <1>1, <1>3, OneMoves
<1>8. ASSUME NEW i \in Slots \ {s}
      PROVE  /\ Pushing(i)' = Pushing(i) /\ Popping(i)' = Popping(i)
             /\ Pushers(i)' = Pushers(i) /\ Poppers(i)' = Poppers(i)
  <2>1. /\ t \in Pushing(i)' <=> t \in Pushing(i)
        /\ t \in Popping(i)' <=> t \in Popping(i)
        /\ t \in Pushers(i)' <=> t \in Pushers(i)
        /\ t \in Poppers(i)' <=> t \in Poppers(i)
    BY <1>8 DEF Pushing, Popping, Pushers, Poppers
  <2> QED
    BY <1>1, <2>1, OneMoves
<1> QED
  BY <1>2, <1>4, <1>5, <1>6, <1>7, <1>8

(* A pop leaves its slot empty, and is no popper of it any more. *)
LEMMA PopUnlockStep ==
    ASSUME TypeOK, Locals, NEW t \in Threads, PopUnlock(t), NEW s, s = PopSlot(t)
    PROVE  /\ s \in Slots
           /\ head' = head
           /\ lock' = [lock EXCEPT ![PopSlot(t)] = "EMPTY"]
           /\ Pushing(s)' = Pushing(s)
           /\ t \in Popping(s) /\ Popping(s)' = Popping(s) \ {t}
           /\ Pushers(s)' = Pushers(s)
           /\ t \in Poppers(s) /\ Poppers(s)' = Poppers(s) \ {t}
           /\ \A i \in Slots \ {s} : /\ Pushing(i)' = Pushing(i) /\ Popping(i)' = Popping(i)
                                     /\ Pushers(i)' = Pushers(i) /\ Poppers(i)' = Poppers(i)
<1> USE CLifoAssumption DEF TypeOK, Locals, PopUnlock
<1>1. \A u \in Threads \ {t} : pc'[u] = pc[u] /\ lhead'[u] = lhead[u]
  OBVIOUS
<1>2. s \in Slots /\ head' = head /\ lock' = [lock EXCEPT ![PopSlot(t)] = "EMPTY"]
  OBVIOUS
<1>3. /\ t \in Pushing(s)' <=> t \in Pushing(s)
      /\ t \in Popping(s) /\ t \notin Popping(s)'
      /\ t \in Pushers(s)' <=> t \in Pushers(s)
      /\ t \in Poppers(s) /\ t \notin Poppers(s)'
  BY DEF Pushing, Popping, Pushers, Poppers
<1>4. Pushing(s)' = Pushing(s)
  BY <1>1, <1>3, OneMoves
<1>5. t \in Popping(s) /\ Popping(s)' = Popping(s) \ {t}
  BY <1>1, <1>3, OneMoves
<1>6. Pushers(s)' = Pushers(s)
  BY <1>1, <1>3, OneMoves
<1>7. t \in Poppers(s) /\ Poppers(s)' = Poppers(s) \ {t}
  BY <1>1, <1>3, OneMoves
<1>8. ASSUME NEW i \in Slots \ {s}
      PROVE  /\ Pushing(i)' = Pushing(i) /\ Popping(i)' = Popping(i)
             /\ Pushers(i)' = Pushers(i) /\ Poppers(i)' = Poppers(i)
  <2>1. /\ t \in Pushing(i)' <=> t \in Pushing(i)
        /\ t \in Popping(i)' <=> t \in Popping(i)
        /\ t \in Pushers(i)' <=> t \in Pushers(i)
        /\ t \in Poppers(i)' <=> t \in Poppers(i)
    BY <1>8 DEF Pushing, Popping, Pushers, Poppers
  <2> QED
    BY <1>1, <2>1, OneMoves
<1> QED
  BY <1>2, <1>4, <1>5, <1>6, <1>7, <1>8

(* The threads at a slot can be counted. *)
LEMMA Finite ==
    ASSUME NEW i
    PROVE  /\ IsFiniteSet(Pushers(i)) /\ IsFiniteSet(Poppers(i))
           /\ Cardinality(Pushers(i)) \in Int /\ Cardinality(Poppers(i)) \in Int
<1>1. IsFiniteSet(Pushers(i)) /\ IsFiniteSet(Poppers(i))
  BY CLifoAssumption, FS_Subset DEF Pushers, Poppers
<1> QED
  BY <1>1, FS_CardinalityType

(* One member more or less is one more or less in the count. *)
LEMMA Cards ==
    ASSUME NEW S, IsFiniteSet(S), NEW t
    PROVE  /\ t \notin S => Cardinality(S \cup {t}) = Cardinality(S) + 1
           /\ t \in S => Cardinality(S \ {t}) = Cardinality(S) - 1
  BY FS_AddElement, FS_RemoveElement

(* A slot that no part of a step concerns stays as it is. *)
LEMMA SlotStays ==
    ASSUME NEW i \in Slots, Exclusive(i), Balanced(i), lock'[i] = lock[i],
           (i < head') <=> (i < head),
           Pushing(i)' = Pushing(i), Popping(i)' = Popping(i),
           Pushers(i)' = Pushers(i), Poppers(i)' = Poppers(i)
    PROVE  Exclusive(i)' /\ Balanced(i)'
  BY DEF Exclusive, Balanced, Filling

(* Every step keeps a slot with one holder, and its claims in balance. *)
LEMMA SlotStep ==
    ASSUME TypeOK, Locals, \A i \in Slots : Exclusive(i) /\ Balanced(i), [Next]_vars
    PROVE  \A i \in Slots : Exclusive(i)' /\ Balanced(i)'
<1> DEFINE Goal == \A i \in Slots : Exclusive(i)' /\ Balanced(i)'
<1> HIDE DEF Goal
<1> USE CLifoAssumption
<1>1. CASE UNCHANGED vars
  BY <1>1 DEF vars, Goal, Exclusive, Balanced, Filling, Pushing, Popping, Pushers, Poppers
<1>2. ASSUME NEW t \in Threads,
             \/ (\E v \in Values : PushCall(t, v)) \/ PushLoad(t) \/ PopCall(t) \/ PopLoad(t)
             \/ (PushCas(t) /\ head # lhead[t]) \/ (PopCas(t) /\ head # lhead[t])
             \/ PushWrite(t) \/ PopRead(t)
      PROVE  Goal
  BY <1>2, FreeStep, SlotStays DEF Goal
<1>3. ASSUME NEW t \in Threads, PushCas(t), head = lhead[t] PROVE Goal
  <2>1. PICK s : s = head
    OBVIOUS
  <2>2. /\ s \in Slots
        /\ head' = head + 1 /\ lock' = lock
        /\ Pushing(s)' = Pushing(s)
        /\ Popping(s)' = Popping(s)
        /\ t \notin Pushers(s) /\ Pushers(s)' = Pushers(s) \cup {t}
        /\ Poppers(s)' = Poppers(s)
        /\ \A i \in Slots \ {s} : /\ Pushing(i)' = Pushing(i) /\ Popping(i)' = Popping(i)
                                  /\ Pushers(i)' = Pushers(i) /\ Poppers(i)' = Poppers(i)
    BY <1>3, <2>1, PushCasStep
  <2>3. Cardinality(Pushers(s)') = Cardinality(Pushers(s)) + 1
    BY <2>2, Finite, Cards
  <2>4. Exclusive(s)' /\ Balanced(s)'
    <3>1. Exclusive(s) /\ Balanced(s)
      BY <2>2
    <3>2. Exclusive(s)'
      BY <2>2, <3>1 DEF Exclusive, TypeOK
    <3>3. Filling(s)' = Filling(s) /\ Filling(s) \in Int
      BY <2>2, <3>1 DEF Exclusive, Filling, TypeOK
    <3>4. Balanced(s)'
      <4>1. head \in Int /\ s = head /\ ~ (s < head) /\ s < head'
        BY <2>1, <2>2 DEF TypeOK
      <4>2. Cardinality(Pushers(s)) \in Int /\ Cardinality(Poppers(s)) \in Int
        BY Finite
      <4> QED
        BY <2>2, <2>3, <3>1, <3>3, <4>1, <4>2 DEF Balanced
    <3> QED
      BY <3>2, <3>4
  <2>5. ASSUME NEW i \in Slots \ {s} PROVE Exclusive(i)' /\ Balanced(i)'
    <3>1. (i < head') <=> (i < head)
      BY <2>1, <2>2 DEF TypeOK
    <3>2. lock'[i] = lock[i]
      BY <2>2 DEF TypeOK
    <3> QED
      BY <2>2, <3>1, <3>2, SlotStays
  <2> QED
    BY <2>4, <2>5 DEF Goal
<1>4. ASSUME NEW t \in Threads, PopCas(t), head = lhead[t] PROVE Goal
  <2>1. PICK s : s = head - 1
    OBVIOUS
  <2>2. /\ s \in Slots
        /\ head' = head - 1 /\ lock' = lock
        /\ Pushing(s)' = Pushing(s)
        /\ Popping(s)' = Popping(s)
        /\ Pushers(s)' = Pushers(s)
        /\ t \notin Poppers(s) /\ Poppers(s)' = Poppers(s) \cup {t}
        /\ \A i \in Slots \ {s} : /\ Pushing(i)' = Pushing(i) /\ Popping(i)' = Popping(i)
                                  /\ Pushers(i)' = Pushers(i) /\ Poppers(i)' = Poppers(i)
    BY <1>4, <2>1, PopCasStep
  <2>3. Cardinality(Poppers(s)') = Cardinality(Poppers(s)) + 1
    BY <2>2, Finite, Cards
  <2>4. Exclusive(s)' /\ Balanced(s)'
    <3>1. Exclusive(s) /\ Balanced(s)
      BY <2>2
    <3>2. Exclusive(s)'
      BY <2>2, <3>1 DEF Exclusive, TypeOK
    <3>3. Filling(s)' = Filling(s) /\ Filling(s) \in Int
      BY <2>2, <3>1 DEF Exclusive, Filling, TypeOK
    <3>4. Balanced(s)'
      <4>1. head \in Int /\ s < head /\ ~ (s < head')
        BY <2>1, <2>2 DEF TypeOK
      <4>2. Cardinality(Pushers(s)) \in Int /\ Cardinality(Poppers(s)) \in Int
        BY Finite
      <4> QED
        BY <2>2, <2>3, <3>1, <3>3, <4>1, <4>2 DEF Balanced
    <3> QED
      BY <3>2, <3>4
  <2>5. ASSUME NEW i \in Slots \ {s} PROVE Exclusive(i)' /\ Balanced(i)'
    <3>1. (i < head') <=> (i < head)
      BY <2>1, <2>2 DEF TypeOK
    <3>2. lock'[i] = lock[i]
      BY <2>2 DEF TypeOK
    <3> QED
      BY <2>2, <3>1, <3>2, SlotStays
  <2> QED
    BY <2>4, <2>5 DEF Goal
<1>5. ASSUME NEW t \in Threads, PushLock(t) PROVE Goal
  <2>1. PICK s : s = PushSlot(t)
    OBVIOUS
  <2>2. /\ s \in Slots
        /\ head' = head /\ lock[s] = "EMPTY" /\ lock' = [lock EXCEPT ![s] = "BUSY"]
        /\ t \notin Pushing(s) /\ Pushing(s)' = Pushing(s) \cup {t}
        /\ Popping(s)' = Popping(s)
        /\ Pushers(s)' = Pushers(s)
        /\ Poppers(s)' = Poppers(s)
        /\ \A i \in Slots \ {s} : /\ Pushing(i)' = Pushing(i) /\ Popping(i)' = Popping(i)
                                  /\ Pushers(i)' = Pushers(i) /\ Poppers(i)' = Poppers(i)
    BY <1>5, <2>1, PushLockStep
  <2>4. Exclusive(s)' /\ Balanced(s)'
    <3>1. Exclusive(s) /\ Balanced(s)
      BY <2>2
    <3>2. Exclusive(s)'
      BY <2>2, <3>1 DEF Exclusive, TypeOK
    <3>3. Filling(s) = 0 /\ Filling(s)' = 0
      BY <2>2, <3>1 DEF Exclusive, Filling, TypeOK
    <3>4. Balanced(s)'
      BY <2>1, <2>2, <3>1, <3>3, Finite DEF Balanced, TypeOK
    <3> QED
      BY <3>2, <3>4
  <2>5. ASSUME NEW i \in Slots \ {s} PROVE Exclusive(i)' /\ Balanced(i)'
    <3>1. (i < head') <=> (i < head)
      BY <2>1, <2>2 DEF TypeOK
    <3>2. lock'[i] = lock[i]
      BY <2>2 DEF TypeOK
    <3> QED
      BY <2>2, <3>1, <3>2, SlotStays
  <2> QED
    BY <2>4, <2>5 DEF Goal
<1>6. ASSUME NEW t \in Threads, PushUnlock(t) PROVE Goal
  <2>1. PICK s : s = PushSlot(t)
    OBVIOUS
  <2>2. /\ s \in Slots
        /\ head' = head /\ lock' = [lock EXCEPT ![s] = "FULL"]
        /\ t \in Pushing(s) /\ Pushing(s)' = Pushing(s) \ {t}
        /\ Popping(s)' = Popping(s)
        /\ t \in Pushers(s) /\ Pushers(s)' = Pushers(s) \ {t}
        /\ Poppers(s)' = Poppers(s)
        /\ \A i \in Slots \ {s} : /\ Pushing(i)' = Pushing(i) /\ Popping(i)' = Popping(i)
                                  /\ Pushers(i)' = Pushers(i) /\ Poppers(i)' = Poppers(i)
    BY <1>6, <2>1, PushUnlockStep
  <2>3. Cardinality(Pushers(s)') = Cardinality(Pushers(s)) - 1
    BY <2>2, Finite, Cards
  <2>4. Exclusive(s)' /\ Balanced(s)'
    <3>1. Exclusive(s) /\ Balanced(s)
      BY <2>2
    <3>2. Pushing(s) = {t} /\ Popping(s) = {}
      <4>1. t \notin Popping(s)
        BY <1>6 DEF PushUnlock, Popping, TypeOK
      <4> QED
        BY <2>2, <3>1, <4>1 DEF Exclusive
    <3>3. Pushing(s)' = {} /\ Popping(s)' = {} /\ lock'[s] # "BUSY" /\ lock[s] = "BUSY"
      BY <2>2, <3>1, <3>2 DEF Exclusive, TypeOK
    <3>4. Exclusive(s)'
      BY <3>3 DEF Exclusive
    <3>5. Filling(s) = 0 /\ Filling(s)' = 1
      BY <2>2, <3>2, <3>3 DEF Filling, TypeOK
    <3>6. Balanced(s)'
      BY <2>1, <2>2, <2>3, <3>1, <3>5, Finite DEF Balanced, TypeOK
    <3> QED
      BY <3>4, <3>6
  <2>5. ASSUME NEW i \in Slots \ {s} PROVE Exclusive(i)' /\ Balanced(i)'
    <3>1. (i < head') <=> (i < head)
      BY <2>1, <2>2 DEF TypeOK
    <3>2. lock'[i] = lock[i]
      BY <2>2 DEF TypeOK
    <3> QED
      BY <2>2, <3>1, <3>2, SlotStays
  <2> QED
    BY <2>4, <2>5 DEF Goal
<1>7. ASSUME NEW t \in Threads, PopLock(t) PROVE Goal
  <2>1. PICK s : s = PopSlot(t)
    OBVIOUS
  <2>2. /\ s \in Slots
        /\ head' = head /\ lock[s] = "FULL" /\ lock' = [lock EXCEPT ![s] = "BUSY"]
        /\ Pushing(s)' = Pushing(s)
        /\ t \notin Popping(s) /\ Popping(s)' = Popping(s) \cup {t}
        /\ Pushers(s)' = Pushers(s)
        /\ Poppers(s)' = Poppers(s)
        /\ \A i \in Slots \ {s} : /\ Pushing(i)' = Pushing(i) /\ Popping(i)' = Popping(i)
                                  /\ Pushers(i)' = Pushers(i) /\ Poppers(i)' = Poppers(i)
    BY <1>7, <2>1, PopLockStep
  <2>4. Exclusive(s)' /\ Balanced(s)'
    <3>1. Exclusive(s) /\ Balanced(s)
      BY <2>2
    <3>2. Exclusive(s)'
      BY <2>2, <3>1 DEF Exclusive, TypeOK
    <3>3. Filling(s) = 1 /\ Filling(s)' = 1
      BY <2>2, <3>1 DEF Exclusive, Filling, TypeOK
    <3>4. Balanced(s)'
      BY <2>1, <2>2, <3>1, <3>3, Finite DEF Balanced, TypeOK
    <3> QED
      BY <3>2, <3>4
  <2>5. ASSUME NEW i \in Slots \ {s} PROVE Exclusive(i)' /\ Balanced(i)'
    <3>1. (i < head') <=> (i < head)
      BY <2>1, <2>2 DEF TypeOK
    <3>2. lock'[i] = lock[i]
      BY <2>2 DEF TypeOK
    <3> QED
      BY <2>2, <3>1, <3>2, SlotStays
  <2> QED
    BY <2>4, <2>5 DEF Goal
<1>8. ASSUME NEW t \in Threads, PopUnlock(t) PROVE Goal
  <2>1. PICK s : s = PopSlot(t)
    OBVIOUS
  <2>2. /\ s \in Slots
        /\ head' = head /\ lock' = [lock EXCEPT ![s] = "EMPTY"]
        /\ Pushing(s)' = Pushing(s)
        /\ t \in Popping(s) /\ Popping(s)' = Popping(s) \ {t}
        /\ Pushers(s)' = Pushers(s)
        /\ t \in Poppers(s) /\ Poppers(s)' = Poppers(s) \ {t}
        /\ \A i \in Slots \ {s} : /\ Pushing(i)' = Pushing(i) /\ Popping(i)' = Popping(i)
                                  /\ Pushers(i)' = Pushers(i) /\ Poppers(i)' = Poppers(i)
    BY <1>8, <2>1, PopUnlockStep, Zenon
  <2>3. Cardinality(Poppers(s)') = Cardinality(Poppers(s)) - 1
    BY <2>2, Finite, Cards
  <2>4. Exclusive(s)' /\ Balanced(s)'
    <3>1. Exclusive(s) /\ Balanced(s)
      BY <2>2
    <3>2. Popping(s) = {t} /\ Pushing(s) = {}
      <4>1. t \notin Pushing(s)
        BY <1>8 DEF PopUnlock, Pushing, TypeOK
      <4> QED
        BY <2>2, <3>1, <4>1 DEF Exclusive
    <3>3. Popping(s)' = {} /\ Pushing(s)' = {} /\ lock'[s] # "BUSY" /\ lock[s] = "BUSY"
      BY <2>2, <3>1, <3>2 DEF Exclusive, TypeOK
    <3>4. Exclusive(s)'
      BY <3>3 DEF Exclusive
    <3>5. Filling(s) = 1 /\ Filling(s)' = 0
      BY <2>2, <3>2, <3>3 DEF Filling, TypeOK
    <3>6. Balanced(s)'
      <4>1. head \in Int /\ head' = head
        BY <2>1, <2>2 DEF TypeOK
      <4>2. Cardinality(Pushers(s)) \in Int /\ Cardinality(Poppers(s)) \in Int
        BY Finite
      <4> QED
        BY <2>2, <2>3, <3>1, <3>5, <4>1, <4>2 DEF Balanced
    <3> QED
      BY <3>4, <3>6
  <2>5. ASSUME NEW i \in Slots \ {s} PROVE Exclusive(i)' /\ Balanced(i)'
    <3>1. (i < head') <=> (i < head)
      BY <2>1, <2>2 DEF TypeOK
    <3>2. lock'[i] = lock[i]
      BY <2>2 DEF TypeOK
    <3> QED
      BY <2>2, <3>1, <3>2, SlotStays
  <2> QED
    BY <2>4, <2>5 DEF Goal
<1> QED
  BY <1>1, <1>2, <1>3, <1>4, <1>5, <1>6, <1>7, <1>8 DEF Next, Step, Goal

(* The invariant holds always. *)
LEMMA Inductive == Spec => []IInv
<1>1. Init => IInv
  <2> SUFFICES ASSUME Init PROVE IInv
    OBVIOUS
  <2>1. TypeOK /\ Locals
    BY CLifoAssumption DEF Init, TypeOK, Locals
  <2>2. ASSUME NEW i \in Slots PROVE Exclusive(i) /\ Balanced(i)
    <3>1. Pushing(i) = {} /\ Popping(i) = {} /\ Pushers(i) = {} /\ Poppers(i) = {}
      BY DEF Init, Pushing, Popping, Pushers, Poppers
    <3>2. Cardinality(Pushers(i)) = 0 /\ Cardinality(Poppers(i)) = 0
      BY <3>1, FS_EmptySet
    <3>3. Filling(i) = 0 /\ ~ (i < head) /\ lock[i] # "BUSY"
      BY <3>1, CLifoAssumption DEF Init, Filling
    <3> QED
      BY <3>1, <3>2, <3>3 DEF Exclusive, Balanced
  <2> QED
    BY <2>1, <2>2 DEF IInv
<1>2. IInv /\ [Next]_vars => IInv'
  <2> SUFFICES ASSUME IInv, [Next]_vars PROVE IInv'
    OBVIOUS
  <2>1. TypeOK' /\ Locals'
    BY TypeStep DEF IInv
  <2>2. \A i \in Slots : Exclusive(i)' /\ Balanced(i)'
    BY SlotStep DEF IInv
  <2> QED
    BY <2>1, <2>2 DEF IInv
<1> QED
  BY <1>1, <1>2, PTL DEF Spec

(* head and the locals stay inside the array, however many threads push and  *)
(* pop (clifo.c:75-82, 98-105).                                              *)
THEOREM TypeCorrect == Spec => []TypeOK
<1>1. IInv => TypeOK
  BY DEF IInv
<1> QED
  BY <1>1, Inductive, PTL

(* NST_PP_LOCK excludes: one thread at a time is between the lock and the    *)
(* unlock of a slot (clifo.c:22-30).                                         *)
THEOREM SlotsExclusive == Spec => []SlotExclusive
<1>1. IInv => SlotExclusive
  BY DEF IInv, Exclusive, SlotExclusive
<1> QED
  BY <1>1, Inductive, PTL

(* Whoever waits at a slot in the wrong state has a partner there that will  *)
(* change it (clifo.c:25), for any number of threads and any size.           *)
THEOREM NobodyWaitsAlone == Spec => []WaiterHasPartner
<1>1. IInv => WaiterHasPartner
  <2> SUFFICES ASSUME IInv, NEW i \in Slots
               PROVE  /\ PopWaits(i) # {} /\ lock[i] = "EMPTY" => PushWaits(i) # {}
                      /\ PushWaits(i) # {} /\ lock[i] = "FULL" => PopWaits(i) # {}
    BY DEF WaiterHasPartner
  <2>1. Exclusive(i) /\ Balanced(i)
    BY DEF IInv
  <2>2. Pushers(i) = PushWaits(i) \cup Pushing(i) /\ Poppers(i) = PopWaits(i) \cup Popping(i)
    BY DEF Pushers, Poppers, PushWaits, PopWaits, Pushing, Popping
  <2>3. /\ Cardinality(Pushers(i)) \in Nat /\ Cardinality(Poppers(i)) \in Nat
        /\ Pushers(i) # {} => Cardinality(Pushers(i)) > 0
        /\ Poppers(i) # {} => Cardinality(Poppers(i)) > 0
        /\ Pushers(i) = {} => Cardinality(Pushers(i)) = 0
        /\ Poppers(i) = {} => Cardinality(Poppers(i)) = 0
    BY Finite, FS_EmptySet, FS_CardinalityType
  <2>4. ASSUME PopWaits(i) # {}, lock[i] = "EMPTY" PROVE PushWaits(i) # {}
    <3>1. Pushing(i) = {} /\ Filling(i) = 0
      BY <2>1, <2>4 DEF Exclusive, Filling
    <3>2. Poppers(i) # {}
      BY <2>2, <2>4
    <3>3. Pushers(i) # {}
      BY <2>1, <2>3, <3>1, <3>2 DEF Balanced
    <3> QED
      BY <2>2, <3>1, <3>3
  <2>5. ASSUME PushWaits(i) # {}, lock[i] = "FULL" PROVE PopWaits(i) # {}
    <3>1. Popping(i) = {} /\ Filling(i) = 1
      BY <2>1, <2>5 DEF Exclusive, Filling
    <3>2. Pushers(i) # {}
      BY <2>2, <2>5
    <3>3. Poppers(i) # {}
      BY <2>1, <2>3, <3>1, <3>2 DEF Balanced
    <3> QED
      BY <2>2, <3>1, <3>3
  <2> QED
    BY <2>4, <2>5
<1> QED
  BY <1>1, Inductive, PTL

(* When nobody is between a compare-and-swap and an unlock, the slots below  *)
(* head are full and the others empty, whatever happened before              *)
(* (clifo.c:69-119).                                                         *)
THEOREM RestsAsStack == Spec => []QuietShape
<1>1. IInv => QuietShape
  <2> SUFFICES ASSUME IInv, NEW i \in Slots,
                      \A t \in Threads : pc[t] \in {"idle", "push_load", "push_cas",
                                                    "pop_load", "pop_cas"}
               PROVE  lock[i] = IF i < head THEN "FULL" ELSE "EMPTY"
    BY DEF QuietShape
  <2>1. Pushing(i) = {} /\ Popping(i) = {} /\ Pushers(i) = {} /\ Poppers(i) = {}
    BY DEF Pushers, Poppers, Pushing, Popping
  <2>2. Cardinality(Pushers(i)) = 0 /\ Cardinality(Poppers(i)) = 0
    BY <2>1, FS_EmptySet
  <2>3. Exclusive(i) /\ Balanced(i) /\ lock[i] \in {"EMPTY", "BUSY", "FULL"}
    BY DEF IInv, TypeOK
  <2>4. lock[i] # "BUSY"
    BY <2>1, <2>3 DEF Exclusive
  <2>5. Filling(i) = IF i < head THEN 1 ELSE 0
    BY <2>2, <2>3 DEF Balanced, Filling
  <2> QED
    BY <2>1, <2>3, <2>4, <2>5 DEF Filling
<1> QED
  BY <1>1, Inductive, PTL

-----------------------------------------------------------------------------
(* Where the values are *)

(* A guarded choice takes the guard that holds.  Used by every step below: an  *)
(* obligation with a CASE in it goes to the SMT solver without type inference, *)
(* whose tables grow with every obligation of a module.                        *)
LEMMA Untyped == (CASE TRUE -> 1 [] OTHER -> 0) = 1
  OBVIOUS

USE Untyped

Carriers(v) == {u \in Threads : lvalue[u] = v /\ pc[u] \in {"push_lock", "push_write"}}
Holding(t, j) == \/ pc[t] = "push_unlock" /\ PushSlot(t) = j
                 \/ pc[t] = "pop_read" /\ PopSlot(t) = j
Holds(j) == lock[j] = "FULL" \/ \E t \in Threads : Holding(t, j)
Stores(v) == {j \in Slots : buffer[j] = v /\ Holds(j)}
Takers(v) == {u \in Threads : lvalue[u] = v /\ pc[u] = "pop_unlock"}

(* Values of pushes that have no slot yet are new and differ; every other    *)
(* value that is anywhere is in one place.                                   *)
Offers(t) == pc[t] \in {"push_load", "push_cas"}
Kept ==
    /\ \A t \in Threads : Offers(t) => lvalue[t] \notin given
    /\ \A t, u \in Threads : Offers(t) /\ Offers(u) /\ lvalue[t] = lvalue[u] => t = u
    /\ \A v \in Values \ given : Homes(v) = {}
    /\ \A v \in given : \E h : Homes(v) = {h}

(* What is anywhere, by the kind of place. *)
LEMMA Places ==
    ASSUME NEW v
    PROVE  Homes(v) = {<<"pusher", t>> : t \in Carriers(v)} \cup {<<"slot", i>> : i \in Stores(v)}
                      \cup {<<"popper", t>> : t \in Takers(v)}
                      \cup IF v \in taken THEN {<<"taken">>} ELSE {}
<1>1. ASSUME NEW j \in Slots
      PROVE  Holds(j) <=> ( lock[j] = "FULL"
                               \/ (\E t \in Pushing(j) : pc[t] = "push_unlock")
                               \/ (\E t \in Popping(j) : pc[t] = "pop_read") )
  <2>1. \A t \in Threads : /\ t \in Pushing(j) <=> /\ pc[t] \in {"push_write", "push_unlock"}
                                                   /\ PushSlot(t) = j
                           /\ t \in Popping(j) <=> /\ pc[t] \in {"pop_read", "pop_unlock"}
                                                   /\ PopSlot(t) = j
    BY DEF Pushing, Popping
  <2>2. Pushing(j) \subseteq Threads /\ Popping(j) \subseteq Threads
    BY DEF Pushing, Popping
  <2> QED
    BY <2>1, <2>2 DEF Holds, Holding
<1>2. Stores(v) = {j \in Slots : buffer[j] = v /\
                     \/ lock[j] = "FULL"
                     \/ \E t \in Pushing(j) : pc[t] = "push_unlock"
                     \/ \E t \in Popping(j) : pc[t] = "pop_read"}
  BY <1>1, Zenon DEF Stores
<1> QED
  BY <1>2 DEF Homes, Carriers, Takers

(* The same after a step. *)
LEMMA PlacesAfter ==
    ASSUME NEW v
    PROVE  Homes(v)' = {<<"pusher", t>> : t \in Carriers(v)'} \cup {<<"slot", i>> : i \in Stores(v)'}
                       \cup {<<"popper", t>> : t \in Takers(v)'}
                       \cup IF v \in taken' THEN {<<"taken">>} ELSE {}
<1>1. ASSUME NEW j \in Slots
      PROVE  Holds(j)' <=> ( lock'[j] = "FULL"
                               \/ (\E t \in Pushing(j)' : pc'[t] = "push_unlock")
                               \/ (\E t \in Popping(j)' : pc'[t] = "pop_read") )
  <2>1. \A t \in Threads : /\ t \in Pushing(j)' <=> /\ pc'[t] \in {"push_write", "push_unlock"}
                                                    /\ PushSlot(t)' = j
                           /\ t \in Popping(j)' <=> /\ pc'[t] \in {"pop_read", "pop_unlock"}
                                                    /\ PopSlot(t)' = j
    BY DEF Pushing, Popping
  <2>2. Pushing(j)' \subseteq Threads /\ Popping(j)' \subseteq Threads
    BY DEF Pushing, Popping
  <2> QED
    BY <2>1, <2>2 DEF Holds, Holding
<1>2. Stores(v)' = {j \in Slots : buffer'[j] = v /\
                     \/ lock'[j] = "FULL"
                     \/ \E t \in Pushing(j)' : pc'[t] = "push_unlock"
                     \/ \E t \in Popping(j)' : pc'[t] = "pop_read"}
  BY <1>1, Zenon DEF Stores
<1> QED
  BY <1>2 DEF Homes, Carriers, Takers

(* A step that moves nothing. *)
LEMMA NothingMoves ==
    ASSUME Kept, UNCHANGED <<given, taken>>,
           \A v \in Values : /\ Carriers(v)' = Carriers(v) /\ Stores(v)' = Stores(v)
                             /\ Takers(v)' = Takers(v),
           \A t \in Threads : Offers(t)' => lvalue'[t] \notin given,
           \A t, u \in Threads : Offers(t)' /\ Offers(u)' /\ lvalue'[t] = lvalue'[u] => t = u,
           given \subseteq Values
    PROVE  Kept'
<1>1. \A v \in Values : Homes(v)' = Homes(v)
  <2> TAKE v \in Values
  <2> QED
    BY Places, PlacesAfter, Zenon
<1> QED
  BY <1>1 DEF Kept

(* A step that moves one value from its place to another. *)
LEMMA OneValueMoves ==
    ASSUME Kept, given \subseteq Values, NEW x, NEW from, NEW to, from \in Homes(x),
           Homes(x) = {from} => Homes(x)' = {to}, UNCHANGED given,
           \A v \in Values \ {x} : Homes(v)' = Homes(v),
           \A t \in Threads : Offers(t)' => Offers(t) /\ lvalue'[t] = lvalue[t]
    PROVE  Kept'
<1>1. x \in Values => x \in given /\ Homes(x) = {from}
  BY DEF Kept
<1> QED
  BY <1>1, Zenon DEF Kept

(* The only place is the only one of its kind, and there is none of others. *)
LEMMA OnlyPlace ==
    ASSUME NEW v
    PROVE  /\ \A t : Homes(v) = {<<"pusher", t>>} => /\ Carriers(v) = {t} /\ Stores(v) = {}
                                                     /\ Takers(v) = {} /\ v \notin taken
           /\ \A i : Homes(v) = {<<"slot", i>>} => /\ Carriers(v) = {} /\ Stores(v) = {i}
                                                   /\ Takers(v) = {} /\ v \notin taken
           /\ \A t : Homes(v) = {<<"popper", t>>} => /\ Carriers(v) = {} /\ Stores(v) = {}
                                                     /\ Takers(v) = {t} /\ v \notin taken
<1>1. /\ \A t : t \in Carriers(v) <=> <<"pusher", t>> \in Homes(v)
      /\ \A i : i \in Stores(v) <=> <<"slot", i>> \in Homes(v)
      /\ \A t : t \in Takers(v) <=> <<"popper", t>> \in Homes(v)
      /\ v \in taken <=> <<"taken">> \in Homes(v)
  BY Places
<1>2. ASSUME NEW t, Homes(v) = {<<"pusher", t>>}
      PROVE  Carriers(v) = {t} /\ Stores(v) = {} /\ Takers(v) = {} /\ v \notin taken
  BY <1>1, <1>2
<1>3. ASSUME NEW i, Homes(v) = {<<"slot", i>>}
      PROVE  Carriers(v) = {} /\ Stores(v) = {i} /\ Takers(v) = {} /\ v \notin taken
  BY <1>1, <1>3
<1>4. ASSUME NEW t, Homes(v) = {<<"popper", t>>}
      PROVE  Carriers(v) = {} /\ Stores(v) = {} /\ Takers(v) = {t} /\ v \notin taken
  BY <1>1, <1>4
<1> QED
  BY <1>2, <1>3, <1>4, Zenon

(* Slot j keeps what it has when one thread moves elsewhere. *)
LEMMA HoldsStays ==
    ASSUME NEW t \in Threads, NEW j \in Slots,
           \A u \in Threads \ {t} : pc'[u] = pc[u] /\ lhead'[u] = lhead[u],
           lock'[j] = lock[j], Holding(t, j)' <=> Holding(t, j)
    PROVE  Holds(j)' <=> Holds(j)
<1>1. \A u \in Threads \ {t} : Holding(u, j)' <=> Holding(u, j)
  BY DEF Holding
<1>2. (\E u \in Threads : Holding(u, j)') <=> (\E u \in Threads : Holding(u, j))
  BY <1>1
<1> QED
  BY <1>2 DEF Holds

(* A step of one thread that does not concern the slots. *)
LEMMA ElsewhereKeeps ==
    ASSUME IInv, Kept, NEW t \in Threads, UNCHANGED <<lock, buffer, given, taken>>,
           \A u \in Threads \ {t} : /\ pc'[u] = pc[u] /\ lhead'[u] = lhead[u]
                                      /\ lvalue'[u] = lvalue[u],
           pc[t] \in {"idle", "push_load", "push_cas", "pop_load", "pop_cas"},
           pc'[t] \in {"idle", "push_load", "push_cas", "pop_load", "pop_cas", "pop_lock"},
           Offers(t)' => /\ lvalue'[t] \notin given
                         /\ \A u \in Threads \ {t} : Offers(u) => lvalue[u] # lvalue'[t]
    PROVE  Kept'
<1>1. \A j \in Slots : ~Holding(t, j)' /\ ~Holding(t, j)
  BY DEF Holding
<1>2. \A j \in Slots : Holds(j)' <=> Holds(j)
  BY <1>1, HoldsStays, Zenon
<1>3. \A v \in Values : Stores(v)' = Stores(v)
  BY <1>2, Zenon DEF Stores
<1>4. \A v \in Values : Carriers(v)' = Carriers(v) /\ Takers(v)' = Takers(v)
  BY Zenon DEF Carriers, Takers
<1>5. \A u \in Threads : Offers(u)' => lvalue'[u] \notin given
  BY DEF Offers, Kept
<1>6. \A u, w \in Threads : Offers(u)' /\ Offers(w)' /\ lvalue'[u] = lvalue'[w] => u = w
  BY DEF Offers, Kept
<1> QED
  BY <1>3, <1>4, <1>5, <1>6, NothingMoves DEF IInv, TypeOK

(* A step that takes or releases the lock of the slot its thread is at. *)
LEMMA LockKeeps ==
    ASSUME IInv, Kept, NEW t \in Threads, NEW s,
           \/ s = PushSlot(t) /\ (PushLock(t) \/ PushUnlock(t))
           \/ s = PopSlot(t) /\ PopLock(t)
    PROVE  Kept'
<1>1. /\ UNCHANGED <<buffer, lhead, lvalue, given, taken>>
      /\ \A u \in Threads \ {t} : pc'[u] = pc[u]
      /\ ~Offers(t)' /\ ~Offers(t)
  BY DEF PushLock, PushUnlock, PopLock, Offers, IInv, TypeOK
<1>2. s \in Slots /\ Exclusive(s) /\ \A j \in Slots \ {s} : lock'[j] = lock[j]
  BY CLifoAssumption DEF PushLock, PushUnlock, PopLock, IInv, TypeOK, Locals
<1>3. Holds(s)' <=> Holds(s)
  <2>1. CASE PushLock(t) /\ s = PushSlot(t)
    <3>1. lock[s] = "EMPTY" /\ lock'[s] = "BUSY" /\ ~Holding(t, s)'
      BY <1>2, <2>1 DEF PushLock, Holding, IInv, TypeOK
    <3>2. \A u \in Threads : ~Holding(u, s)
      BY <1>2, <3>1, Zenon DEF Exclusive, Pushing, Popping, Holding
    <3>3. \A u \in Threads : ~Holding(u, s)'
      BY <1>1, <3>1, <3>2, Zenon DEF Holding
    <3> QED
      BY <3>1, <3>2, <3>3 DEF Holds
  <2>2. CASE PushUnlock(t) /\ s = PushSlot(t)
    <3>1. lock'[s] = "FULL" /\ Holding(t, s)
      BY <1>2, <2>2 DEF PushUnlock, Holding, IInv, TypeOK
    <3> QED
      BY <3>1 DEF Holds
  <2>3. CASE PopLock(t) /\ s = PopSlot(t)
    <3>1. lock[s] = "FULL" /\ Holding(t, s)'
      BY <1>2, <2>3 DEF PopLock, Holding, IInv, TypeOK
    <3> QED
      BY <3>1 DEF Holds
  <2> QED
    BY <2>1, <2>2, <2>3
<1>4. \A j \in Slots \ {s} : Holds(j)' <=> Holds(j)
  <2> TAKE j \in Slots \ {s}
  <2>1. Holding(t, j)' <=> Holding(t, j)
    BY DEF PushLock, PushUnlock, PopLock, Holding, IInv, TypeOK
  <2> QED
    BY <1>1, <1>2, <2>1, HoldsStays
<1>5. \A v \in Values : Stores(v)' = Stores(v)
  <2>1. \A j \in Slots : Holds(j)' <=> Holds(j)
    BY <1>3, <1>4
  <2> QED
    BY <1>1, <2>1 DEF Stores
<1>6. \A v \in Values : Carriers(v)' = Carriers(v) /\ Takers(v)' = Takers(v)
  BY DEF Carriers, Takers, PushLock, PushUnlock, PopLock, IInv, TypeOK
<1>7. \A u \in Threads : Offers(u)' => Offers(u)
  BY <1>1 DEF Offers
<1> QED
  BY <1>1, <1>5, <1>6, <1>7, NothingMoves, Zenon DEF IInv, TypeOK, Kept

(* The steps that move a value: head's compare-and-swap, the write of the    *)
(* slot, the read of it and the return.                                      *)
LEMMA PushCasKeeps ==
    ASSUME IInv, Kept, NEW t \in Threads, PushCas(t), head = lhead[t],
           NEW x, x = lvalue[t]
    PROVE  Kept'
<1>1. /\ pc[t] = "push_cas" /\ pc' = [pc EXCEPT ![t] = "push_lock"]
      /\ given' = given \cup {x} /\ UNCHANGED <<lock, buffer, lhead, lvalue, taken>>
      /\ pc \in [Threads -> Pcs] /\ given \subseteq Values /\ x \in Values
  BY DEF PushCas, IInv, TypeOK, Locals
<1>2. Offers(t) /\ x \notin given /\ Homes(x) = {}
  BY <1>1 DEF Offers, Kept
<1>3. \A j \in Slots : Holds(j)' <=> Holds(j)
  <2> TAKE j \in Slots
  <2>1. ~Holding(t, j)' /\ ~Holding(t, j)
    BY <1>1 DEF Holding
  <2> QED
    BY <1>1, <2>1, HoldsStays
<1>4. \A v : Stores(v)' = Stores(v)
  BY <1>1, <1>3 DEF Stores
<1>5. \A v : Takers(v)' = Takers(v)
  BY <1>1 DEF Takers
<1>6. \A v : v # x => Carriers(v)' = Carriers(v)
  BY <1>1 DEF Carriers
<1>7. Carriers(x)' = Carriers(x) \cup {t}
  BY <1>1 DEF Carriers
<1>8. \A v : v # x => Homes(v)' = Homes(v)
  BY <1>1, <1>4, <1>5, <1>6, Places, PlacesAfter, Zenon
<1>9. Homes(x)' = Homes(x) \cup {<<"pusher", t>>}
  BY <1>1, <1>4, <1>5, <1>7, Places, PlacesAfter
<1>10. \A u \in Threads : Offers(u)' => Offers(u) /\ u # t
  BY <1>1 DEF Offers
<1>11. \A u \in Threads : Offers(u)' => lvalue[u] # x
  BY <1>2, <1>10 DEF Kept
<1> QED
  BY <1>1, <1>2, <1>8, <1>9, <1>10, <1>11, Zenon DEF Kept

(* Nobody else is at a slot whose lock a thread has. *)
LEMMA HolderIsAlone ==
    ASSUME IInv, NEW t \in Threads, NEW s \in Slots, t \in Pushing(s) \cup Popping(s)
    PROVE  lock[s] = "BUSY" /\ \A u \in Threads \ {t} : ~Holding(u, s)
<1>1. Exclusive(s)
  BY DEF IInv
<1>2. \A u \in Threads : Holding(u, s) => u \in Pushing(s) \cup Popping(s)
  BY DEF Holding, Pushing, Popping
<1> QED
  BY <1>1, <1>2 DEF Exclusive

(* A push writes its value: it moves from the call to the slot. *)
LEMMA PushWriteKeeps ==
    ASSUME IInv, Kept, NEW t \in Threads, PushWrite(t), NEW x, x = lvalue[t],
           NEW s, s = PushSlot(t)
    PROVE  Kept'
<1>1. /\ pc[t] = "push_write" /\ pc' = [pc EXCEPT ![t] = "push_unlock"]
      /\ buffer' = [buffer EXCEPT ![s] = x] /\ UNCHANGED <<lock, lhead, lvalue, given, taken>>
      /\ pc \in [Threads -> Pcs] /\ given \subseteq Values
      /\ s \in Slots /\ lhead[t] = s /\ buffer \in [Slots -> Values \cup {NoValue}]
  BY DEF PushWrite, IInv, TypeOK
<1>2. t \in Pushing(s)
  BY <1>1 DEF Pushing
<1>3. ~Holds(s) /\ Holds(s)'
  <2>1. lock[s] = "BUSY" /\ \A u \in Threads \ {t} : ~Holding(u, s)
    BY <1>1, <1>2, HolderIsAlone
  <2>2. ~Holding(t, s) /\ Holding(t, s)'
    BY <1>1 DEF Holding
  <2> QED
    BY <2>1, <2>2 DEF Holds
<1>4. \A j \in Slots \ {s} : Holds(j)' <=> Holds(j)
  <2> TAKE j \in Slots \ {s}
  <2>1. ~Holding(t, j)' /\ ~Holding(t, j)
    BY <1>1 DEF Holding
  <2> QED
    BY <1>1, <2>1, HoldsStays
<1>5. \A v : v # x => Stores(v)' = Stores(v)
  BY <1>1, <1>3, <1>4 DEF Stores
<1>6. Stores(x)' = Stores(x) \cup {s}
  BY <1>1, <1>3, <1>4 DEF Stores
<1>7. \A v : Takers(v)' = Takers(v)
  BY <1>1 DEF Takers
<1>8. \A v : v # x => Carriers(v)' = Carriers(v)
  BY <1>1 DEF Carriers
<1>9. Carriers(x)' = Carriers(x) \ {t} /\ t \in Carriers(x)
  BY <1>1 DEF Carriers
<1>10. \A v \in Values \ {x} : Homes(v)' = Homes(v)
  BY <1>1, <1>5, <1>7, <1>8, Places, PlacesAfter, Zenon
<1>11. ASSUME Homes(x) = {<<"pusher", t>>}
       PROVE  Homes(x)' = {<<"slot", s>>}
  <2>1. Carriers(x)' = {} /\ Stores(x)' = {s} /\ Takers(x)' = {} /\ x \notin taken'
    BY <1>1, <1>6, <1>7, <1>9, <1>11, OnlyPlace, Zenon
  <2> QED
    BY <2>1, PlacesAfter
<1>12. <<"pusher", t>> \in Homes(x)
  BY <1>9, Places
<1>13. \A u \in Threads : Offers(u)' => Offers(u) /\ lvalue'[u] = lvalue[u]
  BY <1>1 DEF Offers
<1> QED
  BY <1>1, <1>10, <1>11, <1>12, <1>13, OneValueMoves, Zenon

(* A pop reads its slot: the value is in the slot until the slot is unlocked. *)
LEMMA PopReadKeeps ==
    ASSUME IInv, Kept, NEW t \in Threads, PopRead(t), NEW s, s = PopSlot(t),
           NEW x, x = buffer[s]
    PROVE  Kept'
<1>1. /\ pc[t] = "pop_read" /\ pc' = [pc EXCEPT ![t] = "pop_unlock"]
      /\ lvalue' = [lvalue EXCEPT ![t] = x] /\ UNCHANGED <<lock, buffer, lhead, given, taken>>
      /\ pc \in [Threads -> Pcs] /\ given \subseteq Values /\ lvalue \in [Threads -> Values \cup {NoValue}]
      /\ s \in Slots /\ lhead[t] - 1 = s
  BY CLifoAssumption DEF PopRead, IInv, TypeOK, Locals
<1>2. t \in Popping(s)
  BY <1>1 DEF Popping
<1>3. Holds(s) /\ ~Holds(s)'
  <2>1. lock[s] = "BUSY" /\ \A u \in Threads \ {t} : ~Holding(u, s)
    BY <1>1, <1>2, HolderIsAlone
  <2>2. Holding(t, s) /\ ~Holding(t, s)'
    BY <1>1 DEF Holding
  <2>3. \A u \in Threads \ {t} : ~Holding(u, s)'
    BY <1>1, <2>1 DEF Holding
  <2> QED
    BY <1>1, <2>1, <2>2, <2>3 DEF Holds
<1>4. \A j \in Slots \ {s} : Holds(j)' <=> Holds(j)
  <2> TAKE j \in Slots \ {s}
  <2>1. ~Holding(t, j)' /\ ~Holding(t, j)
    BY <1>1 DEF Holding
  <2> QED
    BY <1>1, <2>1, HoldsStays
<1>5. \A v : v # x => Stores(v)' = Stores(v)
  BY <1>1, <1>3, <1>4 DEF Stores
<1>6. Stores(x)' = Stores(x) \ {s} /\ s \in Stores(x)
  BY <1>1, <1>3, <1>4 DEF Stores
<1>7. \A v : Carriers(v)' = Carriers(v)
  BY <1>1 DEF Carriers
<1>8. \A v : v # x => Takers(v)' = Takers(v)
  BY <1>1 DEF Takers
<1>9. Takers(x)' = Takers(x) \cup {t}
  BY <1>1 DEF Takers
<1>10. \A v \in Values \ {x} : Homes(v)' = Homes(v)
  BY <1>1, <1>5, <1>7, <1>8, Places, PlacesAfter, Zenon
<1>11. ASSUME Homes(x) = {<<"slot", s>>}
       PROVE  Homes(x)' = {<<"popper", t>>}
  <2>1. Carriers(x)' = {} /\ Stores(x)' = {} /\ Takers(x)' = {t} /\ x \notin taken'
    BY <1>1, <1>6, <1>7, <1>9, <1>11, OnlyPlace, Zenon
  <2> QED
    BY <2>1, PlacesAfter
<1>12. <<"slot", s>> \in Homes(x)
  BY <1>6, Places, Zenon
<1>13. \A u \in Threads : Offers(u)' => Offers(u) /\ lvalue'[u] = lvalue[u]
  BY <1>1 DEF Offers
<1> QED
  BY <1>1, <1>10, <1>11, <1>12, <1>13, OneValueMoves, Zenon

(* A pop unlocks its slot: the value moves from the slot to the caller. *)
LEMMA PopUnlockKeeps ==
    ASSUME IInv, Kept, NEW t \in Threads, PopUnlock(t), NEW s, s = PopSlot(t),
           NEW x, x = lvalue[t]
    PROVE  Kept'
<1>1. /\ pc[t] = "pop_unlock" /\ pc' = [pc EXCEPT ![t] = "idle"]
      /\ lock' = [lock EXCEPT ![s] = "EMPTY"] /\ taken' = taken \cup {x}
      /\ UNCHANGED <<buffer, lhead, lvalue, given>>
      /\ pc \in [Threads -> Pcs] /\ given \subseteq Values /\ lock \in [Slots -> {"EMPTY", "BUSY", "FULL"}]
      /\ s \in Slots /\ lhead[t] - 1 = s
  BY CLifoAssumption DEF PopUnlock, IInv, TypeOK, Locals
<1>2. t \in Popping(s)
  BY <1>1 DEF Popping
<1>3. ~Holds(s) /\ ~Holds(s)'
  <2>1. lock[s] = "BUSY" /\ \A u \in Threads \ {t} : ~Holding(u, s)
    BY <1>1, <1>2, HolderIsAlone
  <2>2. ~Holding(t, s) /\ ~Holding(t, s)' /\ lock'[s] = "EMPTY"
    BY <1>1 DEF Holding
  <2>3. \A u \in Threads \ {t} : ~Holding(u, s)'
    BY <1>1, <2>1 DEF Holding
  <2> QED
    BY <2>1, <2>2, <2>3 DEF Holds
<1>4. \A j \in Slots \ {s} : Holds(j)' <=> Holds(j)
  <2> TAKE j \in Slots \ {s}
  <2>1. ~Holding(t, j)' /\ ~Holding(t, j) /\ lock'[j] = lock[j]
    BY <1>1 DEF Holding
  <2> QED
    BY <1>1, <2>1, HoldsStays
<1>5. \A v : Stores(v)' = Stores(v)
  BY <1>1, <1>3, <1>4 DEF Stores
<1>6. \A v : Carriers(v)' = Carriers(v)
  BY <1>1 DEF Carriers
<1>7. \A v : v # x => Takers(v)' = Takers(v)
  BY <1>1 DEF Takers
<1>8. Takers(x)' = Takers(x) \ {t} /\ t \in Takers(x)
  BY <1>1 DEF Takers
<1>9. \A v \in Values \ {x} : Homes(v)' = Homes(v)
  <2>1. \A v \in Values \ {x} : v \in taken' <=> v \in taken
    BY <1>1
  <2> QED
    BY <1>5, <1>6, <1>7, <2>1, Places, PlacesAfter, Zenon
<1>10. ASSUME Homes(x) = {<<"popper", t>>}
       PROVE  Homes(x)' = {<<"taken">>}
  <2>1. Carriers(x)' = {} /\ Stores(x)' = {} /\ Takers(x)' = {} /\ x \in taken'
    BY <1>1, <1>5, <1>6, <1>8, <1>10, OnlyPlace, Zenon
  <2> QED
    BY <2>1, PlacesAfter
<1>11. <<"popper", t>> \in Homes(x)
  BY <1>8, Places
<1>12. \A u \in Threads : Offers(u)' => Offers(u) /\ lvalue'[u] = lvalue[u]
  BY <1>1 DEF Offers
<1> QED
  BY <1>1, <1>9, <1>10, <1>11, <1>12, OneValueMoves, Zenon

(* No value is lost and none comes out twice: what a push got a slot for is  *)
(* with its pusher, in a slot, with its popper or returned, and in one of    *)
(* these places only (clifo.c:69-119).                                       *)
THEOREM ValuesConserved == Spec => []Conserved
<1>1. Init => Kept
  <2> SUFFICES ASSUME Init
               PROVE  Kept
    OBVIOUS
  <2>1. \A t \in Threads : pc[t] = "idle"
    BY DEF Init
  <2>2. ASSUME NEW v
        PROVE  Carriers(v) = {} /\ Stores(v) = {} /\ Takers(v) = {} /\ v \notin taken
    BY <2>1 DEF Init, Carriers, Stores, Takers, Holds, Holding
  <2>3. \A v : Homes(v) = {}
    BY <2>2, Places
  <2> QED
    BY <2>1, <2>3 DEF Kept, Offers, Init
<1>2. IInv /\ Kept /\ [Next]_vars => Kept'
  <2> SUFFICES ASSUME IInv, Kept, [Next]_vars
               PROVE  Kept'
    OBVIOUS
  <2>1. ASSUME UNCHANGED vars
        PROVE  Kept'
    <3>1. /\ \A v : Carriers(v)' = Carriers(v) /\ Takers(v)' = Takers(v)
          /\ UNCHANGED <<buffer, lvalue, given, taken>>
          /\ \A t \in Threads : Offers(t)' => Offers(t)
      BY <2>1, Zenon DEF vars, Carriers, Takers, Offers
    <3>2. \A j \in Slots : Holds(j)' <=> Holds(j)
      BY <2>1 DEF vars, Holds, Holding
    <3>3. \A v : Stores(v)' = Stores(v)
      BY <3>1, <3>2 DEF Stores
    <3> QED
      BY <3>1, <3>3, NothingMoves, Zenon DEF IInv, TypeOK, Kept
  <2>2. ASSUME NEW t \in Threads, NEW v \in Values, PushCall(t, v)
        PROVE  Kept'
    <3>1. /\ pc[t] = "idle" /\ pc'[t] = "push_load" /\ lvalue'[t] = v /\ v \notin given
          /\ \A u \in Threads \ {t} : /\ pc'[u] = pc[u] /\ lhead'[u] = lhead[u]
                                       /\ lvalue'[u] = lvalue[u] /\ lvalue[u] # v
          /\ UNCHANGED <<lock, buffer, given, taken>>
      BY <2>2 DEF PushCall, IInv, TypeOK
    <3> QED
      BY <3>1, ElsewhereKeeps
  <2>3. ASSUME NEW t \in Threads, PushLoad(t) \/ PopLoad(t) \/ PopCas(t)
        PROVE  Kept'
    <3>1. /\ pc[t] \in {"push_load", "pop_load", "pop_cas"}
          /\ pc'[t] \in {"idle", "push_cas", "pop_load", "pop_cas", "pop_lock"}
          /\ pc'[t] = "push_cas" => pc[t] = "push_load"
          /\ \A u \in Threads \ {t} : pc'[u] = pc[u] /\ lhead'[u] = lhead[u]
          /\ UNCHANGED <<lock, buffer, lvalue, given, taken>>
      BY <2>3 DEF PushLoad, PopLoad, PopCas, IInv, TypeOK
    <3>2. Offers(t)' => Offers(t)
      BY <3>1 DEF Offers
    <3>3. Offers(t)' => /\ lvalue'[t] \notin given
                        /\ \A u \in Threads \ {t} : Offers(u) => lvalue[u] # lvalue'[t]
      BY <3>1, <3>2, Zenon DEF Kept
    <3> QED
      BY <3>1, <3>3, ElsewhereKeeps, Zenon
  <2>4. ASSUME NEW t \in Threads, PopCall(t)
        PROVE  Kept'
    BY <2>4, ElsewhereKeeps DEF PopCall, IInv, TypeOK, Offers
  <2>5. ASSUME NEW t \in Threads, PushCas(t)
        PROVE  Kept'
    <3>1. CASE head = lhead[t]
      BY <2>5, <3>1, PushCasKeeps
    <3>2. CASE head # lhead[t]
      <4>1. /\ pc[t] = "push_cas" /\ pc'[t] = "push_load"
            /\ \A u \in Threads \ {t} : pc'[u] = pc[u] /\ lhead'[u] = lhead[u]
            /\ UNCHANGED <<lock, buffer, lvalue, given, taken>>
        BY <2>5, <3>2 DEF PushCas, IInv, TypeOK
      <4>2. Offers(t)
        BY <4>1 DEF Offers
      <4>3. /\ lvalue'[t] \notin given
            /\ \A u \in Threads \ {t} : Offers(u) => lvalue[u] # lvalue'[t]
        BY <4>1, <4>2 DEF Kept
      <4> QED
        BY <4>1, <4>3, ElsewhereKeeps
    <3> QED
      BY <3>1, <3>2
  <2>6. ASSUME NEW t \in Threads, PushLock(t) \/ PushUnlock(t) \/ PopLock(t)
        PROVE  Kept'
    BY <2>6, LockKeeps
  <2>7. ASSUME NEW t \in Threads, PushWrite(t) \/ PopRead(t) \/ PopUnlock(t)
        PROVE  Kept'
    BY <2>7, PushWriteKeeps, PopReadKeeps, PopUnlockKeeps
  <2> QED
    BY <2>1, <2>2, <2>3, <2>4, <2>5, <2>6, <2>7 DEF Next, Step
<1>3. Kept => Conserved
  BY FS_Singleton DEF Kept, Conserved
<1> QED
  BY <1>1, <1>2, <1>3, Inductive, PTL DEF Spec

-----------------------------------------------------------------------------
(* Calls in turns *)

(* When callers take turns: the one thread inside a call, how far its slot   *)
(* is from the head, and whose value is in the slot.                         *)
Turn ==
    turns => \A t \in Threads : pc[t] # "idle" =>
        /\ \A u \in Threads : u # t => pc[u] = "idle"
        /\ pc[t] \in {"push_lock", "push_write", "push_unlock"} =>
             head = lhead[t] + 1 /\ lvalue[t] \in Values
        /\ pc[t] \in {"pop_lock", "pop_read", "pop_unlock"} => head = lhead[t] - 1
        /\ pc[t] = "push_unlock" => buffer[lhead[t]] = lvalue[t]
        /\ pc[t] = "pop_unlock" => lvalue[t] = buffer[lhead[t] - 1]

(* How many values are inside, when t is the only one that may be in a call. *)
Alone(t) == turns /\ \A u \in Threads : u # t => pc[u] = "idle"
Claims(t) == pc[t] \in {"push_lock", "push_write", "push_unlock",
                        "pop_lock", "pop_read", "pop_unlock"}
Level(t) == IF Claims(t) THEN lhead[t] ELSE head
Counts == \A t \in Threads : Alone(t) => Cardinality(Filled) = Level(t)

(* Every step keeps what is known of the one inside. *)
LEMMA TurnStep == IInv /\ Turn /\ [Next]_vars => Turn'
<1> SUFFICES ASSUME IInv, Turn, [Next]_vars, turns' PROVE Turn'
  BY DEF Turn
<1>1. turns
  BY Zenon DEF Next, Step, vars, PushCall, PushLoad, PushCas, PushLock, PushWrite, PushUnlock,
         PopCall, PopLoad, PopCas, PopLock, PopRead, PopUnlock
<1>2. TypeOK /\ Locals
  BY DEF IInv
<1>3. CASE UNCHANGED vars
  BY <1>3, Zenon DEF vars, Turn
<1> DEFINE Only(t) == /\ \A u \in Threads : u # t => pc'[u] = "idle"
                      /\ pc'[t] \in {"push_lock", "push_write", "push_unlock"} =>
                           head' = lhead'[t] + 1 /\ lvalue'[t] \in Values
                      /\ pc'[t] \in {"pop_lock", "pop_read", "pop_unlock"} => head' = lhead'[t] - 1
                      /\ pc'[t] = "push_unlock" => buffer'[lhead'[t]] = lvalue'[t]
                      /\ pc'[t] = "pop_unlock" => lvalue'[t] = buffer'[lhead'[t] - 1]
<1>4. ASSUME NEW t \in Threads, Only(t) PROVE Turn'
  BY <1>4 DEF Turn
<1>5. ASSUME NEW t \in Threads, PopCall(t) \/ \E v \in Values : PushCall(t, v) PROVE Turn'
  <2>1. Only(t)
    BY <1>1, <1>2, <1>5 DEF PopCall, PushCall, MayCall, TypeOK
  <2> QED
    BY <1>4, <2>1
<1>6. ASSUME NEW t \in Threads, Step(t) PROVE Turn'
  <2>1. /\ pc[t] # "idle" /\ \A u \in Threads : u # t => pc[u] = "idle"
        /\ pc[t] \in {"push_lock", "push_write", "push_unlock"} =>
             head = lhead[t] + 1 /\ lvalue[t] \in Values
        /\ pc[t] \in {"pop_lock", "pop_read", "pop_unlock"} => head = lhead[t] - 1
        /\ pc[t] = "push_unlock" => buffer[lhead[t]] = lvalue[t]
        /\ pc[t] = "pop_unlock" => lvalue[t] = buffer[lhead[t] - 1]
    <3>1. pc[t] # "idle"
      BY <1>6, Zenon DEF Step, PushLoad, PushCas, PushLock, PushWrite, PushUnlock,
                  PopLoad, PopCas, PopLock, PopRead, PopUnlock
    <3> QED
      BY <1>1, <3>1 DEF Turn
  <2>2. pc \in [Threads -> Pcs] /\ lhead \in [Threads -> Slots] /\ head \in Slots
        /\ lvalue \in [Threads -> Values \cup {NoValue}] /\ Size \in Nat
        /\ buffer \in [Slots -> Values \cup {NoValue}]
    BY <1>2, CLifoAssumption DEF TypeOK
  <2>3. CASE PushLoad(t) \/ PopLoad(t)
    <3>1. Only(t)
      BY <2>1, <2>2, <2>3, Zenon DEF PushLoad, PopLoad
    <3> QED
      BY <1>4, <3>1
  <2>4. CASE PushCas(t) \/ PopCas(t)
    <3>1. pc[t] = "push_cas" => lvalue[t] \in Values
      BY <1>2 DEF Locals
    <3>2. Only(t)
      BY <2>1, <2>2, <2>4, <3>1, Zenon DEF PushCas, PopCas
    <3> QED
      BY <1>4, <3>2
  <2>5. CASE PushLock(t) \/ PopLock(t)
    <3>1. Only(t)
      BY <2>1, <2>2, <2>5, Zenon DEF PushLock, PopLock
    <3> QED
      BY <1>4, <3>1
  <2>6. CASE PushWrite(t)
    <3>1. /\ pc' = [pc EXCEPT ![t] = "push_unlock"] /\ pc[t] = "push_write"
          /\ buffer' = [buffer EXCEPT ![lhead[t]] = lvalue[t]]
          /\ lhead' = lhead /\ lvalue' = lvalue /\ head' = head
      BY <2>6 DEF PushWrite
    <3>2. Only(t)
      BY <2>1, <2>2, <3>1
    <3> QED
      BY <1>4, <3>2
  <2>8. CASE PopRead(t)
    <3>1. /\ pc' = [pc EXCEPT ![t] = "pop_unlock"] /\ pc[t] = "pop_read"
          /\ lvalue' = [lvalue EXCEPT ![t] = buffer[lhead[t] - 1]]
          /\ lhead' = lhead /\ buffer' = buffer /\ head' = head
      BY <2>8 DEF PopRead
    <3>2. Only(t)
      BY <2>1, <2>2, <3>1
    <3> QED
      BY <1>4, <3>2
  <2>7. CASE PushUnlock(t) \/ PopUnlock(t)
    <3>1. Only(t)
      BY <2>1, <2>2, <2>7, Zenon DEF PushUnlock, PopUnlock
    <3> QED
      BY <1>4, <3>1
  <2> QED
    BY <1>6, <2>3, <2>4, <2>5, <2>6, <2>7, <2>8 DEF Step
<1> QED
  BY <1>3, <1>5, <1>6 DEF Next

(* What is in the slots follows from the balance of each. *)
LEMMA LevelIsCount ==
    ASSUME IInv, Turn
    PROVE  Counts
<1> SUFFICES ASSUME NEW t \in Threads, Alone(t) PROVE Cardinality(Filled) = Level(t)
  BY DEF Counts
<1>1. /\ head \in 0..(Size - 1) /\ lhead[t] \in 0..(Size - 1) /\ Size \in Nat \ {0}
      /\ pc[t] \in {"pop_lock", "pop_read", "pop_unlock"} => 0 < lhead[t] /\ head = lhead[t] - 1
      /\ pc[t] \in {"push_lock", "push_write", "push_unlock"} => head = lhead[t] + 1
  BY CLifoAssumption DEF IInv, TypeOK, Locals, Turn, Alone
<1>2. ASSUME NEW i \in Slots
      PROVE  Filling(i) = IF i < Level(t) THEN 1 ELSE 0
  <2>1. Balanced(i)
    BY DEF IInv
  <2>2. /\ Pushers(i) = IF pc[t] \in {"push_lock", "push_write", "push_unlock"} /\ lhead[t] = i
                        THEN {t} ELSE {}
        /\ Poppers(i) = IF pc[t] \in {"pop_lock", "pop_read", "pop_unlock"} /\ lhead[t] - 1 = i
                        THEN {t} ELSE {}
    BY DEF Pushers, Poppers, Alone
  <2>3. /\ Cardinality(Pushers(i)) =
             IF pc[t] \in {"push_lock", "push_write", "push_unlock"} /\ lhead[t] = i THEN 1 ELSE 0
        /\ Cardinality(Poppers(i)) =
             IF pc[t] \in {"pop_lock", "pop_read", "pop_unlock"} /\ lhead[t] - 1 = i THEN 1 ELSE 0
    BY <2>2, FS_EmptySet, FS_Singleton, Zenon
  <2>4. Filling(i) \in 0..1
    BY DEF Filling
  <2>5. CASE pc[t] \in {"push_lock", "push_write", "push_unlock"}
    BY <1>1, <2>1, <2>3, <2>4, <2>5 DEF Balanced, Level, Claims
  <2>6. CASE pc[t] \in {"pop_lock", "pop_read", "pop_unlock"}
    BY <1>1, <2>1, <2>3, <2>4, <2>6 DEF Balanced, Level, Claims
  <2>7. CASE ~Claims(t)
    BY <1>1, <2>1, <2>3, <2>4, <2>7 DEF Balanced, Level, Claims
  <2> QED
    BY <2>5, <2>6, <2>7 DEF Claims
<1>3. Level(t) \in 0..(Size - 1)
  BY <1>1 DEF Level
<1>4. Filled = 0..(Level(t) - 1)
  BY <1>1, <1>2, <1>3 DEF Filled, Filling
<1>5. Cardinality(0..(Level(t) - 1)) = Level(t)
  <2>1. /\ Level(t) \in Nat /\ 0 \in Int /\ Level(t) - 1 \in Int
        /\ IF 0 > Level(t) - 1 THEN Level(t) = 0 ELSE (Level(t) - 1) - 0 + 1 = Level(t)
    BY <1>3, CLifoAssumption
  <2>2. Cardinality(0..(Level(t) - 1)) =
          IF 0 > Level(t) - 1 THEN 0 ELSE (Level(t) - 1) - 0 + 1
    BY <2>1, FS_Interval, Zenon
  <2> QED
    BY <2>1, <2>2
<1> QED
  BY <1>4, <1>5

(* The stack that the refinement mapping sees. *)
Inside(n, b) == [k \in 1..n |-> b[k - 1]]

(* As many values as the level says, in the order of the slots. *)
LEMMA InsideIsSeq ==
    ASSUME NEW n \in Nat, n < Size, NEW b \in [Slots -> Values \cup {NoValue}]
    PROVE  /\ Inside(n, b) \in Seq(Values \cup {NoValue}) /\ Len(Inside(n, b)) = n
           /\ DOMAIN Inside(n, b) = 1..n
           /\ \A k \in 1..n : Inside(n, b)[k] = b[k - 1]
<1>1. \A k \in 1..n : b[k - 1] \in Values \cup {NoValue}
  BY CLifoAssumption
<1>2. Inside(n, b) \in [1..n -> Values \cup {NoValue}]
  BY <1>1 DEF Inside
<1>3. Inside(n, b) \in Seq(Values \cup {NoValue})
  BY <1>2
<1>4. Len(Inside(n, b)) = n
  BY <1>2, <1>3
<1> QED
  BY <1>2, <1>3, <1>4 DEF Inside

(* One slot more is one value more at the end. *)
LEMMA PushAppends ==
    ASSUME NEW n \in Nat, n + 1 < Size, NEW b \in [Slots -> Values \cup {NoValue}]
    PROVE  Inside(n + 1, b) = Append(Inside(n, b), b[n])
<1>1. n < Size /\ n + 1 \in Nat
  BY CLifoAssumption
<1>2. /\ Inside(n, b) \in Seq(Values \cup {NoValue}) /\ Len(Inside(n, b)) = n
      /\ \A k \in 1..n : Inside(n, b)[k] = b[k - 1]
  BY <1>1, InsideIsSeq, Zenon
<1>3. b[n] \in Values \cup {NoValue}
  BY <1>1, CLifoAssumption
<1> DEFINE A == Append(Inside(n, b), b[n])
<1>4. /\ DOMAIN A = 1..(n + 1) /\ \A k \in 1..n : A[k] = b[k - 1]
      /\ A[n + 1] = b[n] /\ A = [k \in DOMAIN A |-> A[k]]
  BY <1>2, <1>3
<1> HIDE DEF A
<1>5. \A k \in 1..(n + 1) : A[k] = b[k - 1]
  BY <1>4
<1> QED
  BY <1>4, <1>5 DEF A, Inside

(* One slot less is the last value less. *)
LEMMA PopShortens ==
    ASSUME NEW n \in Nat \ {0}, n < Size, NEW b \in [Slots -> Values \cup {NoValue}]
    PROVE  Inside(n - 1, b) = SubSeq(Inside(n, b), 1, n - 1)
<1>2. /\ Inside(n, b) \in Seq(Values \cup {NoValue}) /\ Len(Inside(n, b)) = n
      /\ \A k \in 1..n : Inside(n, b)[k] = b[k - 1]
  BY InsideIsSeq, Zenon
<1> DEFINE A == SubSeq(Inside(n, b), 1, n - 1)
<1>4. A = [k \in 1..(n - 1) |-> Inside(n, b)[k]]
  BY <1>2
<1> HIDE DEF A
<1> QED
  BY <1>2, <1>4 DEF A, Inside

(* The invariant of the slots, with what turns add to it. *)
TInv == IInv /\ Turn /\ Counts

(* All of this holds always. *)
LEMMA TurnsInductive == Spec => []TInv
<1>1. Init => Turn
  BY DEF Init, Turn
<1>2. IInv /\ Turn => Counts
  BY LevelIsCount
<1> QED
  BY <1>1, <1>2, Inductive, TurnStep, PTL DEF Spec, TInv

(* A step of the one thread inside, and what it does to the stack. *)
LEMMA StackStep ==
    ASSUME TInv, TInv', turns, turns', NEW t \in Threads, Alone(t), Alone(t)',
           Step(t) \/ PopCall(t) \/ \E v \in Values : PushCall(t, v)
    PROVE  LET n == Cardinality(Filled) IN
           /\ n \in Nat /\ n < Size
           /\ \/ /\ Cardinality(Filled') = n /\ taken' = taken
                 /\ \A k \in 1..n : buffer'[k - 1] = buffer[k - 1]
              \/ /\ Cardinality(Filled') = n + 1 /\ n + 1 < Size /\ taken' = taken
                 /\ buffer' = buffer /\ buffer[n] \in Values
              \/ /\ n # 0 /\ Cardinality(Filled') = n - 1 /\ buffer' = buffer
                 /\ taken' = taken \cup {buffer[n - 1]}
<1>1. Cardinality(Filled) = Level(t) /\ Cardinality(Filled') = Level(t)'
  BY DEF TInv, Counts
<1>2. /\ head \in 0..(Size - 1) /\ lhead[t] \in 0..(Size - 1) /\ Size \in Nat \ {0}
      /\ pc \in [Threads -> Pcs] /\ lhead \in [Threads -> 0..(Size - 1)]
      /\ buffer \in [0..(Size - 1) -> Values \cup {NoValue}]
  BY CLifoAssumption DEF TInv, IInv, TypeOK
<1>3. /\ pc[t] \in {"push_lock", "push_write", "push_unlock"} =>
           head = lhead[t] + 1 /\ lvalue[t] \in Values /\ lhead[t] < Size - 1
      /\ pc[t] \in {"pop_lock", "pop_read", "pop_unlock"} => head = lhead[t] - 1 /\ 0 < lhead[t]
      /\ pc[t] = "push_unlock" => buffer[lhead[t]] = lvalue[t]
      /\ pc[t] = "pop_unlock" => lvalue[t] = buffer[lhead[t] - 1]
  BY Zenon DEF TInv, IInv, Turn, Locals
<1>4. Level(t) \in Nat /\ Level(t) < Size
  BY <1>2 DEF Level
<1>5. CASE PopCall(t) \/ \E v \in Values : PushCall(t, v)
  <2>1. Level(t)' = Level(t) /\ taken' = taken /\ buffer' = buffer
    BY <1>2, <1>5 DEF PopCall, PushCall, Level, Claims
  <2> QED
    BY <1>1, <1>4, <2>1
<1>6. CASE PushLoad(t) \/ PopLoad(t)
  <2>1. Level(t)' = Level(t) /\ taken' = taken /\ buffer' = buffer
    BY <1>2, <1>6 DEF PushLoad, PopLoad, Level, Claims
  <2> QED
    BY <1>1, <1>4, <2>1
<1>7. CASE PushCas(t) \/ PopCas(t)
  <2>1. Level(t)' = Level(t) /\ taken' = taken /\ buffer' = buffer
    BY <1>2, <1>7 DEF PushCas, PopCas, Level, Claims
  <2> QED
    BY <1>1, <1>4, <2>1
<1>8. CASE PushLock(t) \/ PopLock(t) \/ PopRead(t)
  <2>1. Level(t)' = Level(t) /\ taken' = taken /\ buffer' = buffer
    BY <1>2, <1>8 DEF PushLock, PopLock, PopRead, Level, Claims
  <2> QED
    BY <1>1, <1>4, <2>1
<1>9. CASE PushWrite(t)
  <2>1. /\ Level(t)' = Level(t) /\ Level(t) = lhead[t] /\ taken' = taken
        /\ buffer' = [buffer EXCEPT ![lhead[t]] = lvalue[t]]
    BY <1>2, <1>9 DEF PushWrite, Level, Claims
  <2>2. \A k \in 1..lhead[t] : buffer'[k - 1] = buffer[k - 1]
    BY <1>2, <2>1
  <2> QED
    BY <1>1, <1>4, <2>1, <2>2, Zenon
<1>10. CASE PushUnlock(t)
  <2>1. /\ pc[t] = "push_unlock" /\ pc' = [pc EXCEPT ![t] = "idle"] /\ taken' = taken
        /\ buffer' = buffer /\ lhead' = lhead /\ head' = head
    BY <1>10 DEF PushUnlock
  <2>2. Level(t) = lhead[t] /\ Level(t)' = head
    BY <1>2, <2>1 DEF Level, Claims
  <2> QED
    BY <1>1, <1>2, <1>3, <2>1, <2>2
<1>11. CASE PopUnlock(t)
  <2>1. /\ pc[t] = "pop_unlock" /\ pc' = [pc EXCEPT ![t] = "idle"]
        /\ taken' = taken \cup {lvalue[t]}
        /\ buffer' = buffer /\ lhead' = lhead /\ head' = head
    BY <1>11, Zenon DEF PopUnlock
  <2>2. Level(t) = lhead[t] /\ Level(t)' = head
    BY <1>2, <2>1 DEF Level, Claims
  <2> QED
    BY <1>1, <1>2, <1>3, <2>1, <2>2
<1> QED
  BY <1>5, <1>6, <1>7, <1>8, <1>9, <1>10, <1>11, Zenon DEF Step

(* Callers that take turns see a stack: clifo_pop returns what was pushed    *)
(* last and is still there (clifo.c:69-119), for any number of threads and   *)
(* any size.                                                                 *)
THEOREM ImplementsStack == Spec => RefinesStack
<1> DEFINE s == IF turns THEN Inside(Cardinality(Filled), buffer) ELSE << >>
           d == IF turns THEN taken ELSE {}
<1>1. Init => Stack!Init
  <2> SUFFICES ASSUME Init PROVE Stack!Init
    OBVIOUS
  <2>1. Filled = {}
    BY DEF Init, Filled, Popping
  <2>2. Cardinality(Filled) = 0
    BY <2>1, FS_EmptySet
  <2>3. [k \in 1..Cardinality(Filled) |-> buffer[k - 1]] = << >>
    BY <2>2
  <2> QED
    BY <2>3 DEF Init, Stack!Init
<1>2. TInv /\ TInv' /\ [Next]_vars => [Stack!Next]_<<s, d>>
  <2> SUFFICES ASSUME TInv, TInv', [Next]_vars PROVE [Stack!Next]_<<s, d>>
    OBVIOUS
  <2>1. turns' = turns
    BY Zenon DEF Next, Step, vars, PushCall, PushLoad, PushCas, PushLock, PushWrite, PushUnlock,
           PopCall, PopLoad, PopCas, PopLock, PopRead, PopUnlock
  <2>2. CASE ~turns
    BY <2>1, <2>2
  <2>3. CASE UNCHANGED vars
    BY <2>3, Zenon DEF vars, Filled, Popping, Inside
  <2>4. ASSUME turns, NEW t \in Threads,
               Step(t) \/ PopCall(t) \/ \E v \in Values : PushCall(t, v)
        PROVE  [Stack!Next]_<<s, d>>
    <3>1. Alone(t) /\ Alone(t)'
      <4>1. \A u \in Threads : u # t => pc[u] = "idle"
        <5>1. CASE PopCall(t) \/ \E v \in Values : PushCall(t, v)
          BY <2>4, <5>1, Zenon DEF PopCall, PushCall, MayCall
        <5>2. CASE Step(t)
          <6>1. pc[t] # "idle"
            BY <5>2, Zenon DEF Step, PushLoad, PushCas, PushLock, PushWrite, PushUnlock,
                               PopLoad, PopCas, PopLock, PopRead, PopUnlock
          <6> QED
            BY <2>4, <6>1 DEF TInv, Turn
        <5> QED
          BY <2>4, <5>1, <5>2
      <4>2. \E x : pc' = [pc EXCEPT ![t] = x]
        BY <2>4, Zenon DEF Step, PushCall, PushLoad, PushCas, PushLock, PushWrite, PushUnlock,
                    PopCall, PopLoad, PopCas, PopLock, PopRead, PopUnlock
      <4>3. pc \in [Threads -> Pcs]
        BY DEF TInv, IInv, TypeOK
      <4>4. \A u \in Threads : u # t => pc'[u] = "idle"
        BY <4>1, <4>2, <4>3
      <4> QED
        BY <2>1, <2>4, <4>1, <4>4 DEF Alone
    <3> DEFINE n == Cardinality(Filled)
    <3>2. /\ buffer \in [Slots -> Values \cup {NoValue}]
          /\ buffer' \in [Slots -> Values \cup {NoValue}]
      BY DEF TInv, IInv, TypeOK
    <3>3. n \in Nat /\ n < Size
      BY <2>1, <2>4, <3>1, StackStep
    <3>4. /\ Inside(n, buffer) \in Seq(Values \cup {NoValue}) /\ Len(Inside(n, buffer)) = n
          /\ \A k \in 1..n : Inside(n, buffer)[k] = buffer[k - 1]
      BY <3>2, <3>3, InsideIsSeq, Zenon
    <3>5. /\ s = Inside(n, buffer) /\ s' = Inside(Cardinality(Filled'), buffer')
          /\ d = taken /\ d' = taken'
      BY <2>1, <2>4 DEF Inside
    <3>6. CASE /\ Cardinality(Filled') = n /\ taken' = taken
               /\ \A k \in 1..n : buffer'[k - 1] = buffer[k - 1]
      BY <3>5, <3>6, Zenon DEF Inside
    <3>7. CASE /\ Cardinality(Filled') = n + 1 /\ n + 1 < Size /\ taken' = taken
               /\ buffer' = buffer /\ buffer[n] \in Values
      <4>1. PICK v \in Values : v = buffer[n]
        BY <3>7
      <4>2. Inside(n + 1, buffer) = Append(Inside(n, buffer), v)
        BY <3>2, <3>3, <3>7, <4>1, PushAppends, Zenon
      <4>3. Len(Inside(n, buffer)) < Size - 1
        BY <3>3, <3>4, <3>7, CLifoAssumption
      <4>4. s' = Append(s, v) /\ Len(s) < Size - 1 /\ d' = d
        BY <3>5, <3>7, <4>2, <4>3, Zenon
      <4>5. Stack!Push(v)
        BY <2>1, <2>4, <4>4, Zenon DEF Stack!Push, Inside
      <4> QED
        BY <4>5 DEF Stack!Next
    <3>8. CASE /\ n # 0 /\ Cardinality(Filled') = n - 1 /\ buffer' = buffer
               /\ taken' = taken \cup {buffer[n - 1]}
      <4>1. s' = SubSeq(s, 1, Len(s) - 1)
        BY <3>2, <3>3, <3>4, <3>5, <3>8, PopShortens, Zenon
      <4>2. s # << >> /\ s[Len(s)] = buffer[n - 1]
        BY <3>3, <3>4, <3>5, <3>8
      <4>3. d' = d \cup {s[Len(s)]}
        BY <3>5, <3>8, <4>2
      <4>4. Stack!Pop
        BY <2>1, <2>4, <4>1, <4>2, <4>3, Zenon DEF Stack!Pop, Inside
      <4> QED
        BY <4>4 DEF Stack!Next
    <3> HIDE DEF n, s, d
    <3> QED
      BY <2>1, <2>4, <3>1, <3>6, <3>7, <3>8, StackStep DEF n
  <2> QED
    BY <2>2, <2>3, <2>4 DEF Next
<1>3. RefinesStack <=> Stack!Init /\ [][Stack!Next]_<<s, d>>
  BY DEF RefinesStack, Stack!Spec, Inside
<1> QED
  BY <1>1, <1>2, <1>3, TurnsInductive, PTL DEF Spec
=============================================================================
