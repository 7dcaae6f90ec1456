------------------------------- MODULE Hazard -------------------------------
(***************************************************************************)
(* The hazard pointers of src/runtime/hazard.c over the allocator, with    *)
(* the user they are made for: a writer allocates a block, exchanges it    *)
(* for the one in a shared pointer and passes that one to haz_defer_free;  *)
(* a reader sets a hazard, static or dynamic, to what it finds in the      *)
(* shared pointer, looks again, and uses the block as long as it likes,    *)
(* also while it makes other calls.  In the other variant the user only    *)
(* calls nbd_malloc and nbd_free, each block from any thread.  Arrays do   *)
(* not grow: there are always fewer hazards than the first ones hold.      *)
(***************************************************************************)
EXTENDS Mem

CONSTANTS MAX_NUM_THREADS, STATIC_HAZ_PER_THREAD,
          DynamicWords,   \* bound: words of each thread that it may register
          Readers,        \* bound: threads that use the shared pointer
          MaxMallocs,     \* bound: calls of nbd_malloc in all, by user
          MaxReads        \* bound: uses of the shared pointer in all

(* Thread ids begin with 1, and the scan goes from 0 to MAX_NUM_THREADS - 1: *)
(* the last id that nbd_thread_init hands out is not scanned.                *)
ASSUME HazardAssumption ==
    /\ {MAX_NUM_THREADS, STATIC_HAZ_PER_THREAD, DynamicWords, MaxReads} \subseteq Nat
    /\ MaxMallocs \in [{"heap", "hazard"} -> Nat]
    /\ Readers \subseteq Tids
    /\ N < MAX_NUM_THREADS
    /\ MaxReads < MAX_NUM_THREADS * STATIC_HAZ_PER_THREAD

VARIABLES user,         \* "heap" or "hazard"
          mallocs, reads,
          shared,       \* the pointer that writers exchange
          haz,          \* of each thread: its hazards, static and dynamic ones
          dynamic,      \* of each thread: the array of the dynamic ones registered
          dynamic_size, dynamic_count,
          pending,      \* of each thread: blocks to be freed
          pending_size,
          using,        \* of each thread: the hazards whose blocks it uses
          missed,       \* history: hazards whose entry was moved behind a scan
          hz            \* of each thread: its locals

hazVars == <<shared, haz, dynamic, dynamic_size, dynamic_count, pending, pending_size, using,
             missed>>
vars == <<memVars, user, mallocs, reads, hazVars, hz>>

(* The static hazards come first. *)
Statics == 1..STATIC_HAZ_PER_THREAD
Dynamics == (STATIC_HAZ_PER_THREAD + 1)..(STATIC_HAZ_PER_THREAD + DynamicWords)
ArraySize == MAX_NUM_THREADS * STATIC_HAZ_PER_THREAD  \* of pending and dynamic at first

(* d: the block retired or looked at; h: the hazard that is set, registered  *)
(* or unregistered; array, i, j, hazards, k, kept: of haz_defer_free.        *)
Idle == [pc |-> "idle", d |-> NULL, h |-> 0, array |-> NULL, i |-> 0, j |-> 0, hazards |-> {},
         k |-> 0, kept |-> <<>>]

Init ==
    /\ MemInit
    /\ user \in {"heap", "hazard"}
    /\ mallocs = 0 /\ reads = 0
    /\ shared = NULL
    /\ haz = [t \in Tids |-> [h \in Statics \cup Dynamics |-> NULL]]
    /\ dynamic = [t \in Tids |-> [e \in 1..ArraySize |-> 0]]
    /\ dynamic_size = [t \in Tids |-> 0]
    /\ dynamic_count = [t \in Tids |-> 0]
    /\ pending = [t \in Tids |-> <<>>]
    /\ pending_size = [t \in Tids |-> 0]
    /\ using = [t \in Tids |-> {}]
    /\ missed = {}
    /\ hz = [t \in Tids |-> Idle]

At(t, pc) == hz[t].pc = pc /\ mem[t].pc = "none"
Got(t, pc) == hz[t].pc = pc /\ mem[t].pc = "got" /\ MemDone(t)
Go(t, changes) == hz' = [hz EXCEPT ![t] = changes @@ @]
Finish(t) == hz' = [hz EXCEPT ![t] = Idle]
KeepBlocks == UNCHANGED <<next, free_list, blocks_from, blocks_to, live>>

-----------------------------------------------------------------------------
(* The user; the objects of the shared pointer have one size, and the arrays *)
(* of hazard.c are of the same scale.                                        *)

ObjectScale == CHOOSE s \in Scales : TRUE

StartMalloc(t) ==
    /\ At(t, "idle") /\ mallocs < MaxMallocs[user]
    /\ \E s \in Scales : (user = "hazard" => s = ObjectScale) /\ Malloc(t, s)
    /\ mallocs' = mallocs + 1
    /\ Go(t, [pc |-> "new"])
    /\ UNCHANGED <<user, reads, hazVars>>

(* nbd_malloc has returned. *)
HeapGot(t) ==
    /\ user = "heap" /\ Got(t, "new")
    /\ Finish(t)
    /\ KeepBlocks /\ UNCHANGED <<user, mallocs, reads, hazVars>>

HeapFree(t) ==
    /\ user = "heap" /\ At(t, "idle")
    /\ \E b \in live : (\A u \in Tids : mem[u].pc = "got" => mem[u].b # b) /\ Free(t, b)
    /\ UNCHANGED <<user, mallocs, reads, hazVars, hz>>

Exchange(t) ==
    /\ user = "hazard" /\ Got(t, "new")
    /\ shared' = mem[t].b
    /\ IF shared = NULL THEN Finish(t) ELSE Go(t, [pc |-> "defer", d |-> shared])
    /\ KeepBlocks
    /\ UNCHANGED <<user, mallocs, reads, haz, dynamic, dynamic_size, dynamic_count, pending,
                   pending_size, using, missed>>

(* A hazard that has no block; which of the dynamic ones makes no difference. *)
StartRead(t) ==
    LET unused == (Statics \cup Dynamics) \ using[t] IN
    /\ user = "hazard" /\ At(t, "idle") /\ t \in Readers /\ reads < MaxReads
    /\ reads' = reads + 1
    /\ \E h \in {g \in unused : \A f \in unused \cap Dynamics : g \in Dynamics => g <= f} :
         Go(t, [pc |-> IF h \in Dynamics THEN "register" ELSE "load", h |-> h])
    /\ UNCHANGED <<memVars, user, mallocs, hazVars>>

(* Without a block to read the reader gives up. *)
Load(t) ==
    /\ At(t, "load")
    /\ Go(t, IF shared = NULL THEN [pc |-> "clear"] ELSE [pc |-> "set", d |-> shared])
    /\ UNCHANGED <<memVars, user, mallocs, reads, hazVars>>

Recheck(t) ==
    /\ At(t, "recheck")
    /\ IF shared = hz[t].d
       THEN using' = [using EXCEPT ![t] = @ \cup {hz[t].h}] /\ Finish(t)
       ELSE Go(t, [pc |-> "load", d |-> NULL]) /\ UNCHANGED using
    /\ UNCHANGED <<memVars, user, mallocs, reads, shared, haz, dynamic, dynamic_size,
                   dynamic_count, pending, pending_size, missed>>

StopUse(t) ==
    /\ At(t, "idle")
    /\ \E h \in using[t] : /\ using' = [using EXCEPT ![t] = @ \ {h}]
                           /\ Go(t, [pc |-> "clear", h |-> h])
    /\ UNCHANGED <<memVars, user, mallocs, reads, shared, haz, dynamic, dynamic_size,
                   dynamic_count, pending, pending_size, missed>>

-----------------------------------------------------------------------------
(* haz_set, on what haz_get_static returned or on a word of the user's own *)

HazSet(t, x) ==
    /\ haz' = [haz EXCEPT ![t][hz[t].h] = x]
    /\ UNCHANGED <<memVars, user, mallocs, reads, shared, dynamic, dynamic_size, dynamic_count,
                   pending, pending_size, using, missed>>

Protect(t) ==
    /\ At(t, "set")
    /\ HazSet(t, hz[t].d)
    /\ Go(t, [pc |-> "recheck"])

Clear(t) ==
    /\ At(t, "clear")
    /\ HazSet(t, NULL)
    /\ IF hz[t].h \in Dynamics THEN Go(t, [pc |-> "unregister"]) ELSE Finish(t)

-----------------------------------------------------------------------------
(* haz_register_dynamic and haz_unregister_dynamic: other threads' scans see *)
(* the store to the array and that to the count one after the other.         *)

(* The first time, the array is allocated. *)
RegisterFirst(t) ==
    /\ At(t, "register") /\ dynamic_size[t] = 0
    /\ Malloc(t, ObjectScale)
    /\ Go(t, [pc |-> "dynamic"])
    /\ UNCHANGED <<user, mallocs, reads, hazVars>>

DynamicGot(t) ==
    /\ Got(t, "dynamic")
    /\ dynamic_size' = [dynamic_size EXCEPT ![t] = ArraySize]
    /\ Go(t, [pc |-> "register"])
    /\ KeepBlocks
    /\ UNCHANGED <<user, mallocs, reads, shared, haz, dynamic, dynamic_count, pending,
                   pending_size, using, missed>>

haz_register_dynamic(t) ==
    /\ At(t, "register") /\ dynamic_count[t] < dynamic_size[t]
    /\ dynamic' = [dynamic EXCEPT ![t][dynamic_count[t] + 1] = hz[t].h]
    /\ Go(t, [pc |-> "raise"])
    /\ UNCHANGED <<memVars, user, mallocs, reads, shared, haz, dynamic_size, dynamic_count,
                   pending, pending_size, using, missed>>

RegisterCount(t) ==
    /\ At(t, "raise")
    /\ dynamic_count' = [dynamic_count EXCEPT ![t] = @ + 1]
    /\ Go(t, [pc |-> "load"])
    /\ UNCHANGED <<memVars, user, mallocs, reads, shared, haz, dynamic, dynamic_size, pending,
                   pending_size, using, missed>>

(* A scan has passed entry e of t and not come to its last one. *)
Behind(t, e) ==
    \E u \in Tids : /\ hz[u].pc = "scan" /\ hz[u].i = t
                    /\ hz[u].j - STATIC_HAZ_PER_THREAD \in (e + 1)..dynamic_count[t]

(* The last entry takes the place of the one that goes. *)
haz_unregister_dynamic(t) ==
    LET e == CHOOSE e \in 1..dynamic_count[t] : dynamic[t][e] = hz[t].h
        moved == dynamic[t][dynamic_count[t]]
    IN
    /\ At(t, "unregister")
    /\ dynamic' = [dynamic EXCEPT ![t][e] = moved]
    /\ missed' = (missed \ {<<t, hz[t].h>>})
                    \cup (IF moved # hz[t].h /\ Behind(t, e) THEN {<<t, moved>>} ELSE {})
    /\ Go(t, [pc |-> "lower"])
    /\ UNCHANGED <<memVars, user, mallocs, reads, shared, haz, dynamic_size, dynamic_count,
                   pending, pending_size, using>>

UnregisterCount(t) ==
    /\ At(t, "lower")
    /\ dynamic_count' = [dynamic_count EXCEPT ![t] = @ - 1]
    /\ Finish(t)
    /\ UNCHANGED <<memVars, user, mallocs, reads, shared, haz, dynamic, dynamic_size, pending,
                   pending_size, using, missed>>

-----------------------------------------------------------------------------
(* haz_defer_free *)

AddPending(t) ==
    /\ pending' = [pending EXCEPT ![t] = Append(@, hz[t].d)]
    /\ Finish(t)
    /\ UNCHANGED <<user, mallocs, reads, shared, haz, dynamic, dynamic_size, dynamic_count,
                   using, missed>>

Defer(t) ==
    /\ At(t, "defer") /\ Len(pending[t]) < pending_size[t]
    /\ AddPending(t)
    /\ UNCHANGED <<memVars, pending_size>>

(* The first time, pending is allocated. *)
DeferFirst(t) ==
    /\ At(t, "defer") /\ pending_size[t] = 0
    /\ pending_size' = [pending_size EXCEPT ![t] = ArraySize]
    /\ Malloc(t, ObjectScale)
    /\ Go(t, [pc |-> "pending"])
    /\ UNCHANGED <<user, mallocs, reads, shared, haz, dynamic, dynamic_size, dynamic_count,
                   pending, using, missed>>

PendingGot(t) ==
    /\ Got(t, "pending")
    /\ AddPending(t)
    /\ KeepBlocks /\ UNCHANGED pending_size

(* A scan allocates an array for the hazards, and frees it at the end. *)
DeferFull(t) ==
    /\ At(t, "defer") /\ pending_size[t] > 0 /\ Len(pending[t]) = pending_size[t]
    /\ Malloc(t, ObjectScale)
    /\ Go(t, [pc |-> "array"])
    /\ UNCHANGED <<user, mallocs, reads, hazVars>>

ArrayGot(t) ==
    /\ Got(t, "array")
    /\ Go(t, [pc |-> "scan", array |-> mem[t].b, i |-> 1, j |-> 1])
    /\ KeepBlocks /\ UNCHANGED <<user, mallocs, reads, hazVars>>

See(t, hazard) ==
    Go(t, [j |-> hz[t].j + 1, hazards |-> hz[t].hazards \cup ({hazard} \ {NULL})])

(* Mutant: the dynamic hazards are not scanned. *)
ScanStatic(t) ==
    LET i == hz[t].i  j == hz[t].j IN
    /\ At(t, "scan")
    /\ \/ i <= N /\ j \in Statics /\ See(t, haz[i][j])
       \/ i <= N /\ j \notin Statics /\ Go(t, [i |-> i + 1, j |-> 1])
       \/ i > N /\ Go(t, [pc |-> "conflicts", k |-> 1, i |-> 0, j |-> 0])
    /\ UNCHANGED <<memVars, user, mallocs, reads, hazVars>>

(* Thread after thread, entry after entry, the static hazards first; the     *)
(* count, the entry and the word of one entry are read in one step.          *)
Scan(t) ==
    LET i == hz[t].i  j == hz[t].j  e == j - STATIC_HAZ_PER_THREAD IN
    /\ At(t, "scan")
    /\ \/ i <= N /\ j \in Statics /\ See(t, haz[i][j])
       \/ i <= N /\ j \notin Statics /\ e <= dynamic_count[i] /\ See(t, haz[i][dynamic[i][e]])
       \/ i <= N /\ j \notin Statics /\ e > dynamic_count[i] /\ Go(t, [i |-> i + 1, j |-> 1])
       \/ i > N /\ Go(t, [pc |-> "conflicts", k |-> 1, i |-> 0, j |-> 0])
    /\ UNCHANGED <<memVars, user, mallocs, reads, hazVars>>

(* Mutant: search_hazards always finds one. *)
ConflictAlways(t) ==
    LET k == hz[t].k IN
    /\ At(t, "conflicts") /\ k <= Len(pending[t])
    /\ Go(t, [k |-> k + 1, kept |-> Append(hz[t].kept, pending[t][k])])
    /\ UNCHANGED <<memVars, user, mallocs, reads, hazVars>>

(* search_hazards decides for each pending block; free_ is nbd_free. *)
Conflict(t) ==
    LET k == hz[t].k IN
    /\ At(t, "conflicts") /\ k <= Len(pending[t])
    /\ \/ /\ pending[t][k] \in hz[t].hazards
          /\ Go(t, [k |-> k + 1, kept |-> Append(hz[t].kept, pending[t][k])])
          /\ UNCHANGED memVars
       \/ /\ pending[t][k] \notin hz[t].hazards
          /\ Go(t, [k |-> k + 1])
          /\ Free(t, pending[t][k])
    /\ UNCHANGED <<user, mallocs, reads, hazVars>>

ConflictsDone(t) ==
    /\ At(t, "conflicts") /\ hz[t].k > Len(pending[t])
    /\ pending' = [pending EXCEPT ![t] = hz[t].kept]
    /\ Free(t, hz[t].array)
    /\ Go(t, [pc |-> "defer", array |-> NULL, k |-> 0, kept |-> <<>>, hazards |-> {}])
    /\ UNCHANGED <<user, mallocs, reads, shared, haz, dynamic, dynamic_size, dynamic_count,
                   pending_size, using, missed>>

-----------------------------------------------------------------------------
RunMem(t) == MemStep(t) /\ UNCHANGED <<user, mallocs, reads, hazVars, hz>>

Step(t) ==
    \/ RunMem(t) \/ HeapGot(t) \/ Exchange(t)
    \/ Load(t) \/ Protect(t) \/ Recheck(t) \/ Clear(t)
    \/ RegisterFirst(t) \/ DynamicGot(t) \/ haz_register_dynamic(t) \/ RegisterCount(t)
    \/ haz_unregister_dynamic(t) \/ UnregisterCount(t)
    \/ Defer(t) \/ DeferFirst(t) \/ PendingGot(t) \/ DeferFull(t) \/ ArrayGot(t)
    \/ Scan(t) \/ Conflict(t) \/ ConflictsDone(t)

Next == \E t \in Tids : StartMalloc(t) \/ StartRead(t) \/ StopUse(t) \/ HeapFree(t) \/ Step(t)

(* A call that was begun goes on: nothing in it waits for another thread.    *)
(* A reader may use its block for ever.                                      *)
Spec == Init /\ [][Next]_vars /\ \A t \in Tids : WF_vars(Step(t))

-----------------------------------------------------------------------------
(* Properties *)

(* Types; the blocks to be freed are still allocated. *)
TypeOK ==
    /\ MemTypeOK
    /\ shared \in {NULL} \cup live
    /\ \A t \in Tids : /\ Len(pending[t]) <= pending_size[t]
                       /\ dynamic_count[t] <= dynamic_size[t]
                       /\ hz[t].pc # "conflicts" =>
                            \A k \in 1..Len(pending[t]) : pending[t][k] \in live

(* A block in use is not freed, nor is the block in the shared pointer or    *)
(* one that is still to be freed (in TypeOK): a hazard that was set before   *)
(* the second look at the shared pointer is seen by every scan that could    *)
(* free the block, though the scan reads the hazards one after another while *)
(* they are set, registered, moved and cleared (hazard.c:82-105).  There is  *)
(* one exception, which the code has: haz_unregister_dynamic moves the last  *)
(* entry behind a scan that is between the two places (hazard.c:171-174),    *)
(* and the scan sees it at neither.                                          *)
UsedIsLive ==
    /\ TypeOK
    /\ \A t \in Tids : \A h \in using[t] : haz[t][h] \in live \/ <<t, h>> \in missed

(* haz_defer_free returns, though readers never stop to use their blocks:    *)
(* there are fewer hazards than pending blocks, so a scan frees one.  So do  *)
(* nbd_malloc, nbd_free and the reader's loop, when the others stop.         *)
EveryCallReturns == \A t \in Tids : []<>(hz[t].pc = "idle" /\ mem[t].pc = "none")
=============================================================================
