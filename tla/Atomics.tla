------------------------------ MODULE Atomics -------------------------------
(***************************************************************************)
(* The fallback implementations of C11 atomics under src/common, for a     *)
(* word of the widest size.  catomic_gcc_sync.h has only the __sync        *)
(* builtins; catomic_msvc.h has one instruction for most calls, but on     *)
(* 32-bit x86 ("x86") a 64-bit word is read in two halves first and then   *)
(* replaced with compare-and-swap.  A builtin, an intrinsic and a locked   *)
(* instruction are single steps.                                           *)
(***************************************************************************)
EXTENDS Naturals, FiniteSetsExt

CONSTANTS Threads,
          Width,      \* bits of the word
          Args,       \* words passed as arguments
          MaxCalls    \* bound: calls in all

Word == SUBSET (0..(Width - 1))
Low == 0..((Width \div 2) - 1)

ASSUME AtomicsAssumption ==
    /\ {Width, MaxCalls} \subseteq Nat
    /\ Args \subseteq Word /\ Args # {}

(* The words as numbers of Width bits. *)
Value(w) == MapThenSumSet(LAMBDA i : 2^i, w)
ToWord(n) == {i \in 0..(Width - 1) : (n \div 2^i) % 2 = 1}

Fetches == {"fetch_add", "fetch_sub", "fetch_or", "fetch_xor", "fetch_and"}
Ops == Fetches \cup {"load", "store", "exchange", "compare_exchange"}
Calls == {c \in [op : Ops, arg : Args, expected : Args] :
            c.op # "compare_exchange" => c.expected = c.arg}
NoCall == CHOOSE c \in Calls : c.op = "load"

VARIABLES build,    \* what was compiled
          obj,      \* the atomic object
          pc, call, ret,
          guess,    \* of each thread: the word it expects to replace
          calls     \* calls so far

locals == <<pc, call, ret, guess>>
vars == <<build, obj, locals, calls>>

Builds == {"gcc_sync", "x64", "x86", "x86 unaligned"}

Init ==
    /\ build \in Builds
    /\ obj \in Args
    /\ pc = [t \in Threads |-> "idle"]
    /\ call = [t \in Threads |-> NoCall]
    /\ ret = [t \in Threads |-> {}]
    /\ guess = [t \in Threads |-> {}]
    /\ calls = 0

-----------------------------------------------------------------------------
(* What the functions of each family leave in the object; c.arg is op or     *)
(* desired.                                                                  *)

FetchAdd(c, old) == ToWord((Value(old) + Value(c.arg)) % 2^Width)

(* -op is 2^Width - op. *)
FetchSub(c, old) == ToWord((Value(old) + 2^Width - Value(c.arg)) % 2^Width)
FetchOr(c, old) == old \cup c.arg
FetchXor(c, old) == (old \ c.arg) \cup (c.arg \ old)
FetchAnd(c, old) == old \cap c.arg

Desired(c, old) ==
    [fetch_add |-> FetchAdd(c, old), fetch_sub |-> FetchSub(c, old),
     fetch_or |-> FetchOr(c, old), fetch_xor |-> FetchXor(c, old),
     fetch_and |-> FetchAnd(c, old), store |-> c.arg, exchange |-> c.arg][c.op]

(* __sync_val_compare_and_swap, _InterlockedCompareExchange, cmpxchg8b *)
CompareAndSwap(expected, desired) == IF obj = expected THEN desired ELSE obj

-----------------------------------------------------------------------------
At(t, step, op) == pc[t] = step /\ call[t].op \in op

(* The call takes effect: the object is now new, and the call returns what   *)
(* was there.                                                                *)
Effect(t, new) ==
    /\ obj' = new
    /\ ret' = [ret EXCEPT ![t] = obj]
    /\ pc' = [pc EXCEPT ![t] = "return"]
    /\ UNCHANGED <<build, call, guess, calls>>

Expect(t, word, step) ==
    /\ guess' = [guess EXCEPT ![t] = word]
    /\ pc' = [pc EXCEPT ![t] = step]
    /\ UNCHANGED <<build, obj, call, ret, calls>>

Call(t) ==
    /\ pc[t] = "idle" /\ calls < MaxCalls
    /\ pc' = [pc EXCEPT ![t] = "called"]
    /\ calls' = calls + 1
    /\ \E c \in Calls : call' = [call EXCEPT ![t] = c]
    /\ UNCHANGED <<build, obj, ret, guess>>

Return(t) ==
    /\ pc[t] = "return"
    /\ pc' = [pc EXCEPT ![t] = "idle"]
    /\ call' = [call EXCEPT ![t] = NoCall]
    /\ ret' = [ret EXCEPT ![t] = {}]
    /\ guess' = [guess EXCEPT ![t] = {}]
    /\ UNCHANGED <<build, obj, calls>>

-----------------------------------------------------------------------------
(* catomic_gcc_sync.h *)

(* The builtin that a macro expands to: those of and and or are exchanged.   *)
Builtin(c) ==
    IF c.op = "fetch_and" THEN [c EXCEPT !.op = "fetch_or"]
    ELSE IF c.op = "fetch_or" THEN [c EXCEPT !.op = "fetch_and"] ELSE c

SyncFetch(t) ==
    /\ build = "gcc_sync" /\ At(t, "called", Fetches)
    /\ Effect(t, Desired(Builtin(call[t]), obj))

SyncLoad(t) ==
    /\ build = "gcc_sync" /\ At(t, "called", {"load"})
    /\ Effect(t, CompareAndSwap({}, {}))

SyncCompareExchange(t) ==
    /\ build = "gcc_sync" /\ At(t, "called", {"compare_exchange"})
    /\ Effect(t, CompareAndSwap(call[t].expected, call[t].arg))

(* Both begin by expecting the word they want to store. *)
SyncStore(t) ==
    /\ build = "gcc_sync" /\ At(t, "called", {"store"})
    /\ Expect(t, call[t].arg, "swap")

SyncExchange(t) ==
    /\ build = "gcc_sync" /\ At(t, "called", {"exchange"})
    /\ Expect(t, call[t].arg, "swap")

-----------------------------------------------------------------------------
(* catomic_msvc.h *)

(* cmpxchg8b is given what happens to be in ebx and ecx twice. *)
MsvcLoad(t) ==
    /\ build # "gcc_sync" /\ At(t, "called", {"load"})
    /\ IF build = "x86 unaligned" THEN \E any \in Word : Effect(t, CompareAndSwap(any, any))
       ELSE Effect(t, obj)

MsvcStore(t) ==
    /\ build # "gcc_sync" /\ At(t, "called", {"store"})
    /\ IF build = "x86 unaligned" THEN Expect(t, obj \cap Low, "high")
       ELSE Effect(t, call[t].arg)

MsvcExchange(t) ==
    /\ build # "gcc_sync" /\ At(t, "called", {"exchange"})
    /\ IF build = "x64" THEN Effect(t, call[t].arg)
       ELSE Expect(t, obj \cap Low, "high")

MsvcCompareExchange(t) ==
    /\ build # "gcc_sync" /\ At(t, "called", {"compare_exchange"})
    /\ Effect(t, CompareAndSwap(call[t].expected, call[t].arg))

MsvcFetch(t) ==
    /\ build # "gcc_sync" /\ At(t, "called", Fetches)
    /\ IF build = "x64" THEN Effect(t, Desired(call[t], obj))
       ELSE Expect(t, obj \cap Low, "high")

ReadHigh(t) ==
    /\ pc[t] = "high"
    /\ Expect(t, guess[t] \cup (obj \ Low), "swap")

(* Mutant: only the low half is compared. *)
SwapLoopLow(t) ==
    /\ pc[t] = "swap"
    /\ \/ obj \cap Low = guess[t] \cap Low /\ Effect(t, Desired(call[t], guess[t]))
       \/ obj \cap Low # guess[t] \cap Low /\ Expect(t, obj, "swap")

(* Mutant: what was found is not expected next time. *)
SwapLoopAgain(t) ==
    /\ pc[t] = "swap"
    /\ \/ obj = guess[t] /\ Effect(t, Desired(call[t], guess[t]))
       \/ obj # guess[t] /\ Expect(t, guess[t], "swap")

(* One round of the loop: the word is replaced if it is the expected one,    *)
(* and expected next time if it is not.                                      *)
SwapLoop(t) ==
    /\ pc[t] = "swap"
    /\ \/ obj = guess[t] /\ Effect(t, CompareAndSwap(guess[t], Desired(call[t], guess[t])))
       \/ obj # guess[t] /\ Expect(t, obj, "swap")

-----------------------------------------------------------------------------
Step(t) ==
    \/ SyncFetch(t) \/ SyncLoad(t) \/ SyncCompareExchange(t) \/ SyncStore(t) \/ SyncExchange(t)
    \/ MsvcLoad(t) \/ MsvcStore(t) \/ MsvcExchange(t) \/ MsvcCompareExchange(t) \/ MsvcFetch(t)
    \/ ReadHigh(t) \/ SwapLoop(t) \/ Return(t)

Next == \E t \in Threads : Call(t) \/ Step(t)

(* No call waits for another thread to do something. *)
Spec == Init /\ [][Next]_vars /\ \A t \in Threads : WF_vars(Step(t))

-----------------------------------------------------------------------------
(* Properties *)

(* What is done in a loop: with gcc_sync, what has no builtin. *)
Loops(o) == o \in {"store", "exchange"} \/ (build # "gcc_sync" /\ o \in Fetches)

(* The state is within its types; a thread that reads the halves has seen    *)
(* only the low one.                                                         *)
TypeOK ==
    /\ build \in Builds /\ obj \in Word /\ calls \in 0..MaxCalls
    /\ pc \in [Threads -> {"idle", "called", "high", "swap", "return"}]
    /\ call \in [Threads -> Calls]
    /\ ret \in [Threads -> Word] /\ guess \in [Threads -> Word]
    /\ \A t \in Threads : /\ pc[t] = "high" => guess[t] \subseteq Low
                          /\ pc[t] \in {"high", "swap"} => Loops(call[t].op)

status == [t \in Threads |-> IF pc[t] = "idle" THEN "idle"
                             ELSE IF pc[t] = "return" THEN "done" ELSE "called"]

(* What each thread's call asks of the register. *)
asked == [t \in Threads |-> IF build = "gcc_sync" THEN Builtin(call[t]) ELSE call[t]]

Register == INSTANCE AtomicRegister WITH call <- asked

(* Every build is one atomic integer as <stdatomic.h> promises, but that in   *)
(* catomic_gcc_sync.h fetch_and is the integer's fetch_or and fetch_or its    *)
(* fetch_and (lines 25 and 26).  Whatever the loops read in between, a torn   *)
(* word included, each call replaces the word it returns in one step, and the *)
(* arithmetic is modulo the width (catomic_gcc_sync.h:23-241, catomic_msvc.h).*)
RefinesRegister == Register!Spec

(* The compare-and-swap loops end when the other calls do. *)
EveryCallReturns == \A t \in Threads : pc[t] # "idle" ~> pc[t] = "idle"
=============================================================================
