--------------------------- MODULE AtomicsProofs ----------------------------
(***************************************************************************)
(* The fallback atomics implement an atomic integer for any threads, width *)
(* and arguments.  A loop replaces the object only when it is the word     *)
(* that the thread expects, so it does not matter how that word came to be *)
(* expected; the invariant needs only types.                               *)
(***************************************************************************)
EXTENDS Atomics, TLAPS

(* What an operation writes fits the word. *)
LEMMA DesiredIsWord ==
    ASSUME NEW c \in Calls, NEW old \in Word, c.op \in Fetches \cup {"store", "exchange"}
    PROVE  Desired(c, old) \in Word
<1>1. \A n : ToWord(n) \in Word
  BY DEF ToWord, Word
<1>2. c.arg \in Word
  BY AtomicsAssumption DEF Calls
<1>3. /\ FetchAdd(c, old) \in Word /\ FetchSub(c, old) \in Word
      /\ FetchOr(c, old) \in Word /\ FetchXor(c, old) \in Word /\ FetchAnd(c, old) \in Word
  BY <1>1, <1>2 DEF FetchAdd, FetchSub, FetchOr, FetchXor, FetchAnd, Word
<1> QED
  BY <1>2, <1>3 DEF Desired, Fetches

(* The call before any call is a load. *)
LEMMA NoCallIsCall == NoCall \in Calls /\ NoCall.op = "load"
<1>1. PICK a \in Args : TRUE
  BY AtomicsAssumption
<1>2. [op |-> "load", arg |-> a, expected |-> a] \in {c \in Calls : c.op = "load"}
  BY DEF Calls, Ops
<1>3. \E c \in Calls : c.op = "load"
  BY <1>2
<1> QED
  BY <1>3 DEF NoCall

(* A macro that stands for another builtin passes its arguments on. *)
LEMMA BuiltinIsCall ==
    ASSUME NEW c \in Calls
    PROVE  /\ Builtin(c) \in Calls
           /\ c.op \in Fetches => Builtin(c).op \in Fetches
           /\ c.op \notin Fetches => Builtin(c) = c
<1>1. CASE c.op \in {"fetch_and", "fetch_or"}
  BY <1>1 DEF Builtin, Calls, Ops, Fetches
<1>2. CASE c.op \notin {"fetch_and", "fetch_or"}
  BY <1>2 DEF Builtin, Fetches
<1> QED
  BY <1>1, <1>2

(* The object and the locals stay within their types whatever is called. *)
THEOREM TypeCorrect == Spec => []TypeOK
<1>1. Init => TypeOK
  BY NoCallIsCall, AtomicsAssumption DEF Init, TypeOK, Word
<1>2. TypeOK /\ [Next]_vars => TypeOK'
  <2> SUFFICES ASSUME TypeOK, [Next]_vars PROVE TypeOK'
    OBVIOUS
  <2>1. CASE UNCHANGED vars
    BY <2>1 DEF TypeOK, Loops, vars, locals
  <2>2. ASSUME NEW t \in Threads, NEW new \in Word, Effect(t, new) PROVE TypeOK'
    BY <2>2 DEF TypeOK, Effect, Loops
  <2>3. ASSUME NEW t \in Threads, NEW word \in Word, NEW step \in {"high", "swap"},
               Loops(call[t].op), step = "high" => word \subseteq Low, Expect(t, word, step)
        PROVE  TypeOK'
    BY <2>3 DEF TypeOK, Expect, Loops
  <2>4. ASSUME NEW t \in Threads, Call(t) PROVE TypeOK'
    BY <2>4, AtomicsAssumption DEF TypeOK, Call, Loops
  <2>5. ASSUME NEW t \in Threads, Return(t) PROVE TypeOK'
    BY <2>5, NoCallIsCall DEF TypeOK, Return, Word, Loops
  <2>6. ASSUME NEW t \in Threads, Step(t) PROVE TypeOK'
    <3>1. /\ call[t] \in Calls /\ obj \in Word /\ guess[t] \in Word
          /\ call[t].arg \in Word /\ obj \cap Low \in Word /\ guess[t] \cup (obj \ Low) \in Word
          /\ {} \in Word
      BY AtomicsAssumption DEF TypeOK, Calls, Word
    <3>2. \A expected, desired \in Word : CompareAndSwap(expected, desired) \in Word
      BY <3>1 DEF CompareAndSwap
    <3>3. call[t].expected \in Word
      BY <3>1, AtomicsAssumption DEF Calls
    <3>4. CASE SyncFetch(t) \/ SyncLoad(t) \/ SyncCompareExchange(t)
      BY <3>4, <3>1, <3>2, <3>3, <2>2, DesiredIsWord, BuiltinIsCall
      DEF SyncFetch, SyncLoad, SyncCompareExchange, At
    <3>5. CASE SyncStore(t) \/ SyncExchange(t)
      BY <3>5, <3>1, <2>3 DEF SyncStore, SyncExchange, At, Loops
    <3>6. CASE MsvcLoad(t) \/ MsvcCompareExchange(t)
      BY <3>6, <3>1, <3>2, <3>3, <2>2 DEF MsvcLoad, MsvcCompareExchange, At
    <3>7. CASE MsvcStore(t) \/ MsvcExchange(t) \/ MsvcFetch(t)
      BY <3>7, <3>1, <2>2, <2>3, DesiredIsWord
      DEF MsvcStore, MsvcExchange, MsvcFetch, At, Loops
    <3>8. CASE ReadHigh(t)
      BY <3>8, <3>1, <2>3 DEF ReadHigh, TypeOK
    <3>9. CASE SwapLoop(t)
      <4>1. Loops(call[t].op) /\ call[t].op \in Fetches \cup {"store", "exchange"}
        BY <3>9 DEF SwapLoop, TypeOK, Loops
      <4> QED
        BY <4>1, <3>9, <3>1, <3>2, <2>2, <2>3, DesiredIsWord DEF SwapLoop
    <3> QED
      BY <2>6, <3>4, <3>5, <3>6, <3>7, <3>8, <3>9, <2>5 DEF Step
  <2> QED
    BY <2>1, <2>4, <2>6 DEF Next
<1> QED
  BY <1>1, <1>2, PTL DEF Spec

(* What a family leaves in the object is what <stdatomic.h> asks for. *)
LEMMA DesiredIsAfter ==
    ASSUME NEW c \in Calls, NEW old \in Word, c.op \in Fetches \cup {"store", "exchange"}
    PROVE  Desired(c, old) = Register!After(c, old)
<1>1. FetchXor(c, old) = (old \cup c.arg) \ (old \cap c.arg)
  BY DEF FetchXor
<1>2. CASE c.op \in {"fetch_add", "fetch_sub"}
  BY <1>2 DEF Desired, FetchAdd, FetchSub, Register!After
<1>3. CASE c.op = "fetch_xor"
  BY <1>3, <1>1 DEF Desired, Register!After
<1>4. CASE c.op = "fetch_or"
  BY <1>4 DEF Desired, FetchOr, Register!After
<1>5. CASE c.op = "fetch_and"
  BY <1>5 DEF Desired, FetchAnd, Register!After
<1>6. CASE c.op \in {"store", "exchange"}
  BY <1>6 DEF Desired, Register!After
<1> QED
  BY <1>2, <1>3, <1>4, <1>5, <1>6 DEF Fetches

(* Every build, whatever is called, implements the atomic integer that        *)
(* RefinesRegister names: with gcc_sync its fetch_and and fetch_or are        *)
(* exchanged.                                                                 *)
THEOREM Implements == Spec => RefinesRegister
<1>1. Init => Register!Init
  <2>1. Init => asked = [t \in Threads |-> NoCall]
    BY NoCallIsCall, BuiltinIsCall DEF Init, asked, Fetches
  <2> QED
    BY <2>1 DEF Init, Register!Init, status, NoCall, Register!NoCall, Calls, Register!Calls, Ops,
                Register!Ops, Fetches, Register!Fetches
<1>2. TypeOK /\ [Next]_vars => [Register!Next]_(Register!vars)
  <2> SUFFICES ASSUME TypeOK, [Next]_vars PROVE [Register!Next]_(Register!vars)
    OBVIOUS
  <2>0. Register!Calls = Calls /\ Register!NoCall = NoCall
    BY DEF NoCall, Register!NoCall, Calls, Register!Calls, Ops, Register!Ops, Fetches,
           Register!Fetches
  <2>1. CASE UNCHANGED vars
    BY <2>1 DEF vars, locals, Register!vars, status, asked
  <2>2. ASSUME NEW t \in Threads, NEW new, new = Register!After(asked[t], obj),
               pc[t] \in {"called", "swap"}, Effect(t, new)
        PROVE  Register!TakeEffect(t)
    <3>1. status[t] = "called" /\ status' = [status EXCEPT ![t] = "done"]
      BY <2>2 DEF status, Effect, TypeOK
    <3>2. UNCHANGED asked
      BY <2>2 DEF Effect, asked
    <3> QED
      BY <2>2, <3>1, <3>2 DEF Register!TakeEffect, Effect
  <2>3. ASSUME NEW t \in Threads, NEW word, NEW step \in {"high", "swap"},
               pc[t] \in {"called", "high", "swap"}, Expect(t, word, step)
        PROVE  UNCHANGED Register!vars
    BY <2>3 DEF Register!vars, status, asked, Expect, TypeOK
  <2>4. ASSUME NEW t \in Threads, Call(t) PROVE Register!Call(t)
    <3>1. status[t] = "idle" /\ status' = [status EXCEPT ![t] = "called"]
      BY <2>4 DEF status, Call, TypeOK
    <3>2. PICK c \in Calls : call' = [call EXCEPT ![t] = c]
      BY <2>4 DEF Call
    <3>3. CASE build = "gcc_sync"
      <4>1. asked' = [asked EXCEPT ![t] = Builtin(c)] /\ Builtin(c) \in Calls
        BY <2>4, <3>2, <3>3, BuiltinIsCall DEF Call, asked, TypeOK
      <4> QED
        BY <2>4, <4>1, <3>1, <2>0 DEF Register!Call, Call
    <3>4. CASE build # "gcc_sync"
      <4>1. asked' = [asked EXCEPT ![t] = c]
        BY <2>4, <3>2, <3>4 DEF Call, asked, TypeOK
      <4> QED
        BY <2>4, <4>1, <3>1, <2>0 DEF Register!Call, Call
    <3> QED
      BY <3>3, <3>4
  <2>5. ASSUME NEW t \in Threads, Return(t) PROVE Register!Return(t)
    <3>1. status[t] = "done" /\ status' = [status EXCEPT ![t] = "idle"]
      BY <2>5 DEF status, Return, TypeOK
    <3>2. Builtin(NoCall) = NoCall
      BY NoCallIsCall, BuiltinIsCall DEF Fetches
    <3>3. asked' = [asked EXCEPT ![t] = NoCall]
      BY <2>5, <3>2 DEF Return, asked, TypeOK
    <3> QED
      BY <2>5, <3>1, <3>3, <2>0 DEF Register!Return, Return
  <2>6. ASSUME NEW t \in Threads, Step(t)
        PROVE  Register!TakeEffect(t) \/ Register!Return(t) \/ UNCHANGED Register!vars
    <3>1. call[t] \in Calls /\ obj \in Word /\ guess[t] \in Word
      BY DEF TypeOK
    <3>0. /\ build # "gcc_sync" \/ call[t].op \notin Fetches => asked[t] = call[t]
          /\ build = "gcc_sync" => asked[t] = Builtin(call[t])
      BY <3>1, BuiltinIsCall DEF asked
    <3>2. ASSUME At(t, "called", {"load"})
          PROVE  \A any : CompareAndSwap(any, any) = Register!After(asked[t], obj)
      <4>1. asked[t].op = "load"
        BY <3>0, <3>2 DEF At, Fetches
      <4> QED
        BY <4>1 DEF CompareAndSwap, Register!After
    <3>3. ASSUME At(t, "called", {"compare_exchange"})
          PROVE  CompareAndSwap(call[t].expected, call[t].arg) = Register!After(asked[t], obj)
      <4>1. asked[t] = call[t] /\ call[t].op = "compare_exchange"
        BY <3>0, <3>3 DEF At, Fetches
      <4> QED
        BY <4>1 DEF CompareAndSwap, Register!After
    <3>4. ASSUME At(t, "called", {"store", "exchange"})
          PROVE  call[t].arg = Register!After(asked[t], obj)
      <4>1. asked[t] = call[t] /\ call[t].op \in {"store", "exchange"}
        BY <3>0, <3>4 DEF At, Fetches
      <4> QED
        BY <4>1 DEF Register!After
    <3>11. ASSUME SyncFetch(t)
           PROVE  Desired(Builtin(call[t]), obj) = Register!After(asked[t], obj)
      <4>1. asked[t] = Builtin(call[t]) /\ Builtin(call[t]) \in Calls
            /\ Builtin(call[t]).op \in Fetches
        BY <3>0, <3>1, <3>11, BuiltinIsCall DEF SyncFetch, At
      <4> QED
        BY <3>1, <4>1, DesiredIsAfter
    <3>5. CASE SyncFetch(t) \/ SyncLoad(t) \/ SyncCompareExchange(t)
      BY <3>5, <3>2, <3>3, <3>11, <2>2 DEF SyncFetch, SyncLoad, SyncCompareExchange, At
    <3>6. CASE SyncStore(t) \/ SyncExchange(t)
      BY <3>6, <2>3 DEF SyncStore, SyncExchange, At
    <3>7. CASE MsvcLoad(t) \/ MsvcCompareExchange(t)
      <4>1. MsvcLoad(t) => Register!After(asked[t], obj) = obj
        <5> SUFFICES ASSUME asked[t].op = "load" PROVE Register!After(asked[t], obj) = obj
          BY <3>0 DEF MsvcLoad, At
        <5> QED
          BY DEF Register!After
      <4> QED
        BY <4>1, <3>7, <3>2, <3>3, <2>2 DEF MsvcLoad, MsvcCompareExchange, At
    <3>8. CASE MsvcStore(t) \/ MsvcExchange(t) \/ MsvcFetch(t)
      BY <3>8, <3>0, <3>1, <3>4, <2>2, <2>3, DesiredIsAfter
      DEF MsvcStore, MsvcExchange, MsvcFetch, At
    <3>9. CASE ReadHigh(t)
      BY <3>9, <2>3 DEF ReadHigh
    <3>10. CASE SwapLoop(t)
      <4>1. call[t].op \in Fetches \cup {"store", "exchange"} /\ asked[t] = call[t]
        BY <3>0, <3>10 DEF SwapLoop, TypeOK, Loops, Fetches
      <4>2. obj = guess[t] =>
              CompareAndSwap(guess[t], Desired(call[t], guess[t])) = Register!After(asked[t], obj)
        BY <4>1, <3>1, DesiredIsAfter DEF CompareAndSwap
      <4> QED
        BY <4>2, <3>10, <2>2, <2>3 DEF SwapLoop
    <3> QED
      BY <2>6, <2>5, <3>5, <3>6, <3>7, <3>8, <3>9, <3>10 DEF Step
  <2> QED
    BY <2>1, <2>4, <2>6 DEF Next, Register!Next
<1> QED
  BY <1>1, <1>2, TypeCorrect, PTL DEF Spec, RefinesRegister, Register!Spec
=============================================================================
