----------------------------- MODULE Hashtable ------------------------------
(***************************************************************************)
(* The lock-free hashtable of src/map/hashtable.c with integer keys: a     *)
(* chain of tables, each of which is copied, entry by entry and by all     *)
(* threads together, into the next one once a key finds no room in it.     *)
(* Every load, store or atomic operation on a shared word whose order the  *)
(* others can observe is a step of its own.                                *)
(*                                                                         *)
(* A key is never taken out of an entry, so what hti_lookup finds can be   *)
(* read off at the moment of its last load, and one that finds no room     *)
(* never will: both are one step.  The counters behind ht_count, which     *)
(* only ht_count and the choice of a new table's size read, change in the  *)
(* step of the value they count.  That choice, and the hash that decides   *)
(* where a key is looked for, are constants.                               *)
(***************************************************************************)
EXTENDS Integers, FiniteSets, FiniteSetsExt, Sequences, MapOps, Records

CONSTANTS Threads,
          NumKeys,        \* keys are 1..NumKeys
          Initial,        \* value the keys have at the start, where present
          TOMBSTONE,      \* value of a removed key
          Expectations,   \* expectations callers pass to ht_cas
          Budget,         \* bound: how many calls there are of each kind
          MaxCalls,       \* bound: calls in all
          Sizes,          \* entries of the first, second... table
          Probe,          \* Probe[h][k]: the entries of table h a search for k visits
          ENTRIES_PER_COPY_CHUNK

Keys == 1..NumKeys
Tables == DOMAIN Sizes
Entries(h) == 1..Sizes[h]

(* A chunk divides a table (hashtable.c:148, 496), and the special values    *)
(* are no values of a map (map.h).                                           *)
ASSUME HashtableAssumption ==
    /\ IsFiniteSet(Threads)
    /\ {NumKeys, MaxCalls} \subseteq Nat /\ Budget \in [DOMAIN Budget -> Nat]
    /\ DOES_NOT_EXIST \notin Keys /\ DOES_NOT_EXIST # TOMBSTONE
    /\ {DOES_NOT_EXIST, TOMBSTONE} \cap (Threads \cup {Initial}) = {}
    /\ ENTRIES_PER_COPY_CHUNK \in Nat \ {0}
    /\ 1 \in Tables
    /\ \A h \in Tables : /\ h \in Nat \ {0} /\ 1..h \subseteq Tables
                         /\ Sizes[h] \in Nat \ {0} /\ Sizes[h] % ENTRIES_PER_COPY_CHUNK = 0
                         /\ \A k \in Keys : Probe[h][k] \in Seq(Entries(h))

VARIABLES ht_hti,     \* the table operations start at
          last,       \* the last table of the chain: hti->next is hti + 1 below it, else NULL
          key, val,   \* the entries; a value is <<value, tagged>>
          count,      \* values in each table
          copy_scan, num_entries_copied, ref_count,  \* as in hti_t
          freed,      \* how often each table went to rcu_defer_free
          th,         \* locals of each thread
          op,         \* the operation each thread is in or did last
          calls,      \* calls of each kind so far
          done,       \* history: finished operations
          initial     \* history: the map at the start

tables == <<ht_hti, last, key, val, count, copy_scan, num_entries_copied, ref_count, freed>>
history == <<op, calls, done, initial>>
vars == <<tables, th, history>>

Plain(v) == <<v, FALSE>>
IS_TAGGED(w) == w[2]
TAG_VALUE(w) == <<w[1], TRUE>>
STRIP_TAG(w) == <<w[1], FALSE>>
EMPTY == Plain(DOES_NOT_EXIST)
COPIED_VALUE == TAG_VALUE(EMPTY)

(* An entry that has been copied, or had nothing to copy. *)
Dead(w) == w \in {COPIED_VALUE, TAG_VALUE(Plain(TOMBSTONE))}
Exists(w) == w[1] \notin {DOES_NOT_EXIST, TOMBSTONE}

(* What ht_get, ht_cas and ht_remove make of an entry's value. *)
Value(w) == IF w[1] = TOMBSTONE THEN DOES_NOT_EXIST ELSE w[1]

(* A thread between calls.  h, ent: table and entry it works on; from, to:   *)
(* the entry hti_copy_entry copies and the table it copies to; left: entries *)
(* of its chunk hti_help_copy has not copied yet; iter, idx: an iterator's    *)
(* table and place.                                                          *)
Idle == [pc |-> "idle", key |-> DOES_NOT_EXIST, h |-> 1, ent |-> 0, ent_val |-> EMPTY,
         then |-> "none", from |-> 0, to |-> 1, x |-> 0, left |-> 0, num_copied |-> 0,
         iter |-> 1, idx |-> 0]

NoOp == [kind |-> "none"]

(* Where a key goes when the old ones of 1..NumKeys are inserted in order:   *)
(* to the first free entry on its way, in the first table that has one.      *)
Home(home, old, k) ==
    LET Free(h) == {j \in DOMAIN Probe[h][k] :
                      \A i \in 1..(k - 1) : old[i] => home[i] # <<h, Probe[h][k][j]>>}
    IN  \E h \in Tables : \E j \in Free(h) :
          /\ home[k] = <<h, Probe[h][k][j]>>
          /\ \A g \in 1..(h - 1) : Free(g) = {}
          /\ \A i \in Free(h) : j <= i

(* ht_alloc, and insertions, and removals of some of the keys again. *)
Init ==
    /\ initial \in [Keys -> {Initial, DOES_NOT_EXIST}]
    /\ \E old \in [Keys -> BOOLEAN] :
       \E home \in [Keys -> UNION {{h} \X Entries(h) : h \in Tables}] :
         LET In(h, e) == {k \in Keys : old[k] /\ home[k] = <<h, e>>}
         IN  /\ \A k \in Keys : initial[k] # DOES_NOT_EXIST => old[k]
             /\ \A k \in Keys : old[k] => Home(home, old, k)
             /\ key = [h \in Tables |-> [e \in Entries(h) |->
                         IF In(h, e) = {} THEN DOES_NOT_EXIST ELSE CHOOSE k \in In(h, e) : TRUE]]
             /\ last = Max({1} \cup {home[k][1] : k \in {k \in Keys : old[k]}})
    /\ val = [h \in Tables |-> [e \in Entries(h) |->
                IF key[h][e] = DOES_NOT_EXIST THEN EMPTY
                ELSE IF initial[key[h][e]] = DOES_NOT_EXIST THEN Plain(TOMBSTONE)
                ELSE Plain(Initial)]]
    /\ count = [h \in Tables |-> Cardinality({e \in Entries(h) : Exists(val[h][e])})]
    /\ ht_hti = 1
    /\ copy_scan = [h \in Tables |-> 0]
    /\ num_entries_copied = [h \in Tables |-> 0]
    /\ ref_count = [h \in Tables |-> 1]
    /\ freed = [h \in Tables |-> 0]
    /\ th = [t \in Threads |-> Idle]
    /\ op = [t \in Threads |-> NoOp]
    /\ calls = [k \in DOMAIN Budget |-> 0]
    /\ done = {}

(* The thread is at this step; it goes on with these locals changed. *)
At(t, pc) == th[t].pc = pc
Go(t, changes) == th' = [th EXCEPT ![t] = With(@, changes)]

Return(t, ret) ==
    /\ th' = [th EXCEPT ![t] = Idle]
    /\ op' = [op EXCEPT ![t] = NoOp]
    /\ done' = done \cup {With(op[t], [ret |-> ret])}

(* hti_lookup: the first entry on the key's way that holds it or is empty;   *)
(* 0 when there is neither.                                                  *)
hti_lookup(h, k) ==
    LET hits == {j \in DOMAIN Probe[h][k] : key[h][Probe[h][k][j]] \in {k, DOES_NOT_EXIST}}
    IN  IF hits = {} THEN 0 ELSE Probe[h][k][Min(hits)]

-----------------------------------------------------------------------------
(* Calls: each loads ht->hti. *)

total_calls == MapThenSumSet(LAMBDA kind : calls[kind], DOMAIN Budget)

Call(t, kind, k, expectation, new_val, pc) ==
    /\ At(t, "idle") /\ calls[kind] < Budget[kind] /\ total_calls < MaxCalls
    /\ calls' = [calls EXCEPT ![kind] = @ + 1]
    /\ op' = [op EXCEPT ![t] = [kind |-> kind, key |-> k, expectation |-> expectation,
                 new_val |-> new_val, id |-> <<t, Cardinality({d \in done : d.id[1] = t})>>,
                 after |-> {d.id : d \in {d \in done : d.key = k}}]]
    /\ Go(t, [pc |-> pc, key |-> k, h |-> ht_hti])
    /\ UNCHANGED <<tables, done, initial>>

ht_get(t) == \E k \in Keys : Call(t, "get", k, CAS_EXPECT_WHATEVER, DOES_NOT_EXIST, "get")

ht_cas(t) == \E k \in Keys, e \in Expectations : Call(t, "cas", k, e, t, "begin")

ht_remove(t) == \E k \in Keys : Call(t, "remove", k, CAS_EXPECT_WHATEVER, DOES_NOT_EXIST, "cas")

ht_iter_begin(t) ==
    Call(t, "iterate", DOES_NOT_EXIST, CAS_EXPECT_WHATEVER, DOES_NOT_EXIST, "begin")

(* The locals of a call that returned are forgotten. *)
Forget == [ent |-> 0, ent_val |-> EMPTY, then |-> "none", from |-> 0, to |-> 1,
           left |-> 0, num_copied |-> 0]

(* hti_get and hti_cas go on with the next table. *)
NextTable(t) ==
    With(Forget, [pc |-> IF op[t].kind \in {"get", "iterate"} THEN "get" ELSE "cas",
                  h |-> th[t].h + 1])

-----------------------------------------------------------------------------
(* Mutant of StartCopy: a thread that lost the race installs a table too. *)
StartCopy_Store(h) == last' = last + 1

(* hti_start_copy: of several threads one installs the next table. *)
StartCopy(h) == last' = IF last = h THEN h + 1 ELSE last

(* hti_copy_entry(th.h, th.from, th.to), called from the step named then. *)
CopyEntry(from, to, then) == [pc |-> "copy", from |-> from, to |-> to, then |-> then]

(* It returns whether this thread completed the copy. *)
CopyReturns(t, did_copy) ==
    IF th[t].then = "help"
    THEN With(IF th[t].left = 1 THEN [pc |-> "help_end"]
              ELSE CopyEntry(th[t].from + 1, th[t].h + 1, "help"),
              [num_copied |-> th[t].num_copied + (IF did_copy THEN 1 ELSE 0),
               left |-> th[t].left - 1])
    ELSE IF did_copy THEN [pc |-> "credit"] ELSE NextTable(t)

CopyLoad(t) ==
    LET w == val[th[t].h][th[t].from] IN
    /\ At(t, "copy")
    /\ Go(t, IF Dead(w) THEN CopyReturns(t, FALSE)
             ELSE [pc |-> IF w = EMPTY THEN "copy_kill" ELSE "copy_tag"])
    /\ UNCHANGED <<tables, history>>

(* Kills an empty entry. *)
CopyKill(t) ==
    /\ At(t, "copy_kill")
    /\ \/ /\ val[th[t].h][th[t].from] = EMPTY
          /\ val' = [val EXCEPT ![th[t].h][th[t].from] = COPIED_VALUE]
          /\ Go(t, CopyReturns(t, TRUE))
       \/ /\ val[th[t].h][th[t].from] # EMPTY
          /\ Go(t, [pc |-> "copy_tag"])
          /\ UNCHANGED val
    /\ UNCHANGED <<ht_hti, last, key, count, copy_scan, num_entries_copied, ref_count, freed, history>>

(* Mutant of CopyTag: the value is read and not tagged. *)
CopyTag_ReadOnly(t) ==
    LET w == val[th[t].h][th[t].from] IN
    /\ At(t, "copy_tag")
    /\ Go(t, IF Dead(w) THEN CopyReturns(t, FALSE)
             ELSE IF w = Plain(TOMBSTONE) THEN CopyReturns(t, TRUE)
             ELSE [pc |-> "copy_find", ent_val |-> STRIP_TAG(w)])
    /\ UNCHANGED <<tables, history>>

(* From here on nobody changes the old entry but to mark it as copied. *)
CopyTag(t) ==
    LET w == val[th[t].h][th[t].from] IN
    /\ At(t, "copy_tag")
    /\ val' = [val EXCEPT ![th[t].h][th[t].from] = TAG_VALUE(@)]
    /\ Go(t, IF Dead(w) THEN CopyReturns(t, FALSE)
             ELSE IF w = Plain(TOMBSTONE) THEN CopyReturns(t, TRUE)
             ELSE [pc |-> "copy_find", ent_val |-> STRIP_TAG(w)])
    /\ UNCHANGED <<ht_hti, last, key, count, copy_scan, num_entries_copied, ref_count, freed, history>>

(* Looks for the key's place in the new table; a full one is grown, and the  *)
(* copy starts over with the table after it.                                 *)
CopyFind(t) ==
    LET k == key[th[t].h][th[t].from]
        e == hti_lookup(th[t].to, k) IN
    /\ At(t, "copy_find")
    /\ Go(t, IF e = 0
             THEN IF th[t].to = last THEN [pc |-> "copy_grow"]
                  ELSE CopyEntry(th[t].from, th[t].to + 1, th[t].then)
             ELSE [pc |-> IF key[th[t].to][e] = k THEN "copy_val" ELSE "copy_key", ent |-> e])
    /\ UNCHANGED <<tables, history>>

CopyGrow(t) ==
    /\ At(t, "copy_grow")
    /\ StartCopy(th[t].to)
    /\ Go(t, CopyEntry(th[t].from, th[t].to + 1, th[t].then))
    /\ UNCHANGED <<ht_hti, key, val, count, copy_scan, num_entries_copied, ref_count, freed, history>>

CopyKey(t) ==
    /\ At(t, "copy_key")
    /\ \/ /\ key[th[t].to][th[t].ent] = DOES_NOT_EXIST
          /\ key' = [key EXCEPT ![th[t].to][th[t].ent] = key[th[t].h][th[t].from]]
          /\ Go(t, [pc |-> "copy_val"])
       \/ /\ key[th[t].to][th[t].ent] # DOES_NOT_EXIST
          /\ Go(t, [pc |-> "copy"])
          /\ UNCHANGED key
    /\ UNCHANGED <<ht_hti, last, val, count, copy_scan, num_entries_copied, ref_count, freed, history>>

(* The thread whose value goes into the new entry moves the count; if the    *)
(* new entry is itself copied the value goes to the table after it.          *)
CopyVal(t) ==
    LET w == val[th[t].to][th[t].ent] IN
    /\ At(t, "copy_val")
    /\ \/ /\ w = EMPTY
          /\ val' = [val EXCEPT ![th[t].to][th[t].ent] = th[t].ent_val]
          /\ count' = [count EXCEPT ![th[t].h] = @ - 1, ![th[t].to] = @ + 1]
          /\ Go(t, [pc |-> "copy_done"])
       \/ /\ w = COPIED_VALUE
          /\ Go(t, CopyEntry(th[t].from, th[t].to + 1, th[t].then))
          /\ UNCHANGED <<val, count>>
       \/ /\ w \notin {EMPTY, COPIED_VALUE}
          /\ Go(t, [pc |-> "copy_lost"])
          /\ UNCHANGED <<val, count>>
    /\ UNCHANGED <<ht_hti, last, key, copy_scan, num_entries_copied, ref_count, freed, history>>

(* Mutant of CopyDone: a loser counts the entry too. *)
CopyDone_Both(t) ==
    /\ At(t, "copy_done") \/ At(t, "copy_lost")
    /\ val' = [val EXCEPT ![th[t].h][th[t].from] = COPIED_VALUE]
    /\ Go(t, CopyReturns(t, TRUE))
    /\ UNCHANGED <<ht_hti, last, key, count, copy_scan, num_entries_copied, ref_count, freed, history>>

(* The plain store that marks the old entry, by the winner and by losers. *)
CopyDone(t) ==
    /\ At(t, "copy_done") \/ At(t, "copy_lost")
    /\ val' = [val EXCEPT ![th[t].h][th[t].from] = COPIED_VALUE]
    /\ Go(t, CopyReturns(t, At(t, "copy_done")))
    /\ UNCHANGED <<ht_hti, last, key, count, copy_scan, num_entries_copied, ref_count, freed, history>>

(* hti_get and hti_cas account for the entry they copied. *)
CopyCredit(t) ==
    /\ At(t, "credit")
    /\ num_entries_copied' = [num_entries_copied EXCEPT ![th[t].h] = @ + 1]
    /\ Go(t, NextTable(t))
    /\ UNCHANGED <<ht_hti, last, key, val, count, copy_scan, ref_count, freed, history>>

-----------------------------------------------------------------------------
(* hti_get returns a value: to ht_get's caller, or to ht_iter_next, which    *)
(* goes on when the key was removed.                                         *)
GetReturns(t, v) ==
    IF op[t].kind = "get" THEN Return(t, v)
    ELSE /\ Go(t, With(Forget, [pc |-> "iter_key", h |-> th[t].iter]))
         /\ UNCHANGED <<op, done>>

GetFind(t) ==
    LET e == hti_lookup(th[t].h, th[t].key) IN
    /\ At(t, "get")
    /\ \/ /\ e = 0 /\ th[t].h < last
          /\ Go(t, NextTable(t))
          /\ UNCHANGED <<op, done>>
       \/ /\ \/ e = 0 /\ th[t].h = last
             \/ e # 0 /\ key[th[t].h][e] = DOES_NOT_EXIST
          /\ GetReturns(t, DOES_NOT_EXIST)
       \/ /\ e # 0 /\ key[th[t].h][e] = th[t].key
          /\ Go(t, [pc |-> "get_val", ent |-> e])
          /\ UNCHANGED <<op, done>>
    /\ UNCHANGED <<tables, calls, initial>>

(* A value in the middle of a copy is copied first. *)
GetVal(t) ==
    LET w == val[th[t].h][th[t].ent] IN
    /\ At(t, "get_val")
    /\ \/ /\ IS_TAGGED(w)
          /\ Go(t, IF Dead(w) THEN NextTable(t) ELSE CopyEntry(th[t].ent, th[t].h + 1, "get"))
          /\ UNCHANGED <<op, done>>
       \/ /\ ~IS_TAGGED(w)
          /\ GetReturns(t, Value(w))
    /\ UNCHANGED <<tables, calls, initial>>

-----------------------------------------------------------------------------
(* hti_cas.  A remove is a cas to DOES_NOT_EXIST. *)

(* An empty entry is enough for a caller that wants the key to exist, and    *)
(* for a remove.                                                             *)
NothingToDo(t) ==
    \/ op[t].expectation \notin {CAS_EXPECT_WHATEVER, CAS_EXPECT_DOES_NOT_EXIST}
    \/ op[t].new_val = DOES_NOT_EXIST

CasFind(t) ==
    LET e == hti_lookup(th[t].h, th[t].key)
        is_empty == e # 0 /\ key[th[t].h][e] = DOES_NOT_EXIST IN
    /\ At(t, "cas")
    /\ \/ /\ is_empty /\ NothingToDo(t)
          /\ Return(t, DOES_NOT_EXIST)
       \/ /\ ~(is_empty /\ NothingToDo(t))
          /\ Go(t, IF e # 0 THEN [pc |-> IF is_empty THEN "cas_key" ELSE "cas_load", ent |-> e]
                   ELSE IF th[t].h = last THEN [pc |-> "cas_grow"] ELSE NextTable(t))
          /\ UNCHANGED <<op, done>>
    /\ UNCHANGED <<tables, calls, initial>>

CasGrow(t) ==
    /\ At(t, "cas_grow")
    /\ StartCopy(th[t].h)
    /\ Go(t, NextTable(t))
    /\ UNCHANGED <<ht_hti, key, val, count, copy_scan, num_entries_copied, ref_count, freed, history>>

CasKey(t) ==
    /\ At(t, "cas_key")
    /\ \/ /\ key[th[t].h][th[t].ent] = DOES_NOT_EXIST
          /\ key' = [key EXCEPT ![th[t].h][th[t].ent] = th[t].key]
          /\ Go(t, [pc |-> "cas_load"])
       \/ /\ key[th[t].h][th[t].ent] # DOES_NOT_EXIST
          /\ Go(t, [pc |-> "cas"])
          /\ UNCHANGED key
    /\ UNCHANGED <<ht_hti, last, val, count, copy_scan, num_entries_copied, ref_count, freed, history>>

(* The test of the caller's expectation: a removed key is one that does not  *)
(* exist.                                                                    *)
Expected(t, w) ==
    op[t].expectation \in {CAS_EXPECT_WHATEVER, w[1],
                           IF Exists(w) THEN CAS_EXPECT_EXISTS ELSE CAS_EXPECT_DOES_NOT_EXIST}

(* Mutant of CasLoad: an entry that was copied is taken for an empty one. *)
CasLoad_IgnoresTag(t) ==
    /\ At(t, "cas_load")
    /\ Go(t, [pc |-> "cas_val", ent_val |-> val[th[t].h][th[t].ent]])
    /\ UNCHANGED <<tables, history>>

CasLoad(t) ==
    LET w == val[th[t].h][th[t].ent]
        unchanged == (op[t].new_val = DOES_NOT_EXIST /\ ~Exists(w)) \/ w[1] = op[t].new_val IN
    /\ At(t, "cas_load")
    /\ \/ /\ IS_TAGGED(w)
          /\ Go(t, IF Dead(w) THEN NextTable(t) ELSE CopyEntry(th[t].ent, th[t].h + 1, "cas"))
          /\ UNCHANGED <<op, done>>
       \/ /\ ~IS_TAGGED(w) /\ (~Expected(t, w) \/ unchanged)
          /\ Return(t, Value(w))
       \/ /\ ~IS_TAGGED(w) /\ Expected(t, w) /\ ~unchanged
          /\ Go(t, [pc |-> "cas_val", ent_val |-> w])
          /\ UNCHANGED <<op, done>>
    /\ UNCHANGED <<tables, calls, initial>>

(* Mutant of CasVal: overwriting a removed value does not count. *)
CasVal_Miscounts(t) ==
    LET w == th[t].ent_val
        new == IF op[t].new_val = DOES_NOT_EXIST THEN TOMBSTONE ELSE op[t].new_val IN
    /\ At(t, "cas_val")
    /\ \/ /\ val[th[t].h][th[t].ent] = w
          /\ val' = [val EXCEPT ![th[t].h][th[t].ent] = Plain(new)]
          /\ count' = [count EXCEPT ![th[t].h] = @ + (IF new = TOMBSTONE THEN -1
                                                     ELSE IF w # EMPTY THEN 0 ELSE 1)]
          /\ Return(t, Value(w))
       \/ /\ val[th[t].h][th[t].ent] # w
          /\ Go(t, [pc |-> "cas"])
          /\ UNCHANGED <<val, count, op, done>>
    /\ UNCHANGED <<ht_hti, last, key, copy_scan, num_entries_copied, ref_count, freed, calls, initial>>

CasVal(t) ==
    LET w == th[t].ent_val
        new == IF op[t].new_val = DOES_NOT_EXIST THEN TOMBSTONE ELSE op[t].new_val IN
    /\ At(t, "cas_val")
    /\ \/ /\ val[th[t].h][th[t].ent] = w
          /\ val' = [val EXCEPT ![th[t].h][th[t].ent] = Plain(new)]
          /\ count' = [count EXCEPT ![th[t].h] = @ + (IF new = TOMBSTONE THEN -1
                                                     ELSE IF Exists(w) THEN 0 ELSE 1)]
          /\ Return(t, Value(w))
       \/ /\ val[th[t].h][th[t].ent] # w
          /\ Go(t, [pc |-> "cas"])
          /\ UNCHANGED <<val, count, op, done>>
    /\ UNCHANGED <<ht_hti, last, key, copy_scan, num_entries_copied, ref_count, freed, calls, initial>>

-----------------------------------------------------------------------------
(* ht_cas and ht_iter_begin help with an ongoing copy. *)

Begin(t) ==
    /\ At(t, "begin")
    /\ Go(t, [pc |-> IF th[t].h < last THEN "help"
                     ELSE IF op[t].kind = "cas" THEN "cas" ELSE "iter_ref"])
    /\ UNCHANGED <<tables, history>>

(* hti_help_copy returns whether the copy is done.  ht_cas then unlinks the  *)
(* table; ht_iter_begin goes on to the next one, or helps again.             *)
HelpReturns(t, finished) ==
    With(Forget, IF op[t].kind = "cas" THEN [pc |-> IF finished THEN "unlink" ELSE "cas"]
                 ELSE IF finished THEN [pc |-> "begin", h |-> th[t].h + 1]
                 ELSE [pc |-> "help"])

HelpLoad(t) ==
    /\ At(t, "help")
    /\ Go(t, IF num_entries_copied[th[t].h] = Sizes[th[t].h] THEN HelpReturns(t, TRUE)
             ELSE [pc |-> "help_scan"])
    /\ UNCHANGED <<tables, history>>

(* After two rounds it scans the whole table. *)
HelpScan(t) ==
    LET h == th[t].h IN
    /\ At(t, "help_scan")
    /\ Go(t, IF copy_scan[h] >= 2 * Sizes[h]
             THEN With(CopyEntry(1, h + 1, "help"), [left |-> Sizes[h], num_copied |-> 0])
             ELSE [pc |-> "help_reserve", x |-> copy_scan[h]])
    /\ UNCHANGED <<tables, history>>

(* "There is a race condition here": two threads may reserve the same chunk. *)
HelpReserve(t) ==
    LET h == th[t].h IN
    /\ At(t, "help_reserve")
    /\ copy_scan' = [copy_scan EXCEPT ![h] = th[t].x + ENTRIES_PER_COPY_CHUNK]
    /\ Go(t, With(CopyEntry((th[t].x % Sizes[h]) + 1, h + 1, "help"),
                  [left |-> ENTRIES_PER_COPY_CHUNK, num_copied |-> 0, x |-> 0]))
    /\ UNCHANGED <<ht_hti, last, key, val, count, num_entries_copied, ref_count, freed, history>>

HelpEnd(t) ==
    LET total == num_entries_copied[th[t].h] + th[t].num_copied IN
    /\ At(t, "help_end")
    /\ num_entries_copied' = [num_entries_copied EXCEPT ![th[t].h] = total]
    /\ Go(t, HelpReturns(t, th[t].num_copied # 0 /\ total = Sizes[th[t].h]))
    /\ UNCHANGED <<ht_hti, last, key, val, count, copy_scan, ref_count, freed, history>>

Unlink(t) ==
    /\ At(t, "unlink")
    /\ ht_hti' = IF ht_hti = th[t].h THEN th[t].h + 1 ELSE ht_hti
    /\ Go(t, [pc |-> IF ht_hti = th[t].h THEN "release" ELSE "cas"])
    /\ UNCHANGED <<last, key, val, count, copy_scan, num_entries_copied, ref_count, freed, history>>

(* Mutant of hti_release: whoever releases the table frees it. *)
hti_release_Frees(h) ==
    /\ ref_count' = [ref_count EXCEPT ![h] = @ - 1]
    /\ freed' = [freed EXCEPT ![h] = @ + 1]

(* hti_release, and hti_defer_free for the last reference. *)
hti_release(h) ==
    /\ ref_count' = [ref_count EXCEPT ![h] = @ - 1]
    /\ freed' = [freed EXCEPT ![h] = @ + (IF ref_count[h] = 1 THEN 1 ELSE 0)]

Release(t) ==
    /\ At(t, "release")
    /\ hti_release(th[t].h)
    /\ Go(t, [pc |-> "cas"])
    /\ UNCHANGED <<ht_hti, last, key, val, count, copy_scan, num_entries_copied, history>>

-----------------------------------------------------------------------------
(* The iterator: it keeps a reference to the last table of the chain. *)

(* The loop that raises a count which is not zero; else ht->hti is loaded    *)
(* again.                                                                    *)
IterRef(t) ==
    LET h == th[t].h IN
    /\ At(t, "iter_ref")
    /\ \/ /\ ref_count[h] = 0
          /\ Go(t, [pc |-> "begin", h |-> ht_hti])
          /\ UNCHANGED ref_count
       \/ /\ ref_count[h] # 0
          /\ ref_count' = [ref_count EXCEPT ![h] = @ + 1]
          /\ Go(t, [pc |-> "iter_key", iter |-> h])
    /\ UNCHANGED <<ht_hti, last, key, val, count, copy_scan, num_entries_copied, freed, history>>

(* ht_iter_next loads the key and then the value of the next entry. *)
IterKey(t) ==
    LET i == th[t].idx + 1 IN
    /\ At(t, "iter_key")
    /\ Go(t, IF i > Sizes[th[t].iter] THEN [pc |-> "iter_free"]
             ELSE [pc |-> IF key[th[t].iter][i] = DOES_NOT_EXIST THEN "iter_key" ELSE "iter_val",
                   idx |-> i, key |-> key[th[t].iter][i]])
    /\ UNCHANGED <<tables, history>>

(* A copied value is looked up in the next table. *)
IterVal(t) ==
    LET w == val[th[t].iter][th[t].idx] IN
    /\ At(t, "iter_val")
    /\ Go(t, IF w = COPIED_VALUE THEN [pc |-> "get", h |-> th[t].iter + 1]
             ELSE [pc |-> "iter_key"])
    /\ UNCHANGED <<tables, history>>

IterFree(t) ==
    /\ At(t, "iter_free")
    /\ hti_release(th[t].iter)
    /\ th' = [th EXCEPT ![t] = Idle]
    /\ op' = [op EXCEPT ![t] = NoOp]
    /\ UNCHANGED <<ht_hti, last, key, val, count, copy_scan, num_entries_copied, calls, done, initial>>

-----------------------------------------------------------------------------
Step(t) ==
    \/ CopyLoad(t) \/ CopyKill(t) \/ CopyTag(t) \/ CopyFind(t) \/ CopyGrow(t)
    \/ CopyKey(t) \/ CopyVal(t) \/ CopyDone(t) \/ CopyCredit(t)
    \/ GetFind(t) \/ GetVal(t)
    \/ CasFind(t) \/ CasGrow(t) \/ CasKey(t) \/ CasLoad(t) \/ CasVal(t)
    \/ Begin(t) \/ HelpLoad(t) \/ HelpScan(t) \/ HelpReserve(t) \/ HelpEnd(t)
    \/ Unlink(t) \/ Release(t)
    \/ IterRef(t) \/ IterKey(t) \/ IterVal(t) \/ IterFree(t)

Next == \E t \in Threads : Step(t) \/ ht_get(t) \/ ht_cas(t) \/ ht_remove(t) \/ ht_iter_begin(t)

Spec == Init /\ [][Next]_vars

-----------------------------------------------------------------------------
(* Properties *)

Values == Threads \cup {Initial, DOES_NOT_EXIST, TOMBSTONE}

(* Every variable has its type, the chain never outgrows Sizes, and a key is *)
(* in one entry of a table at most, whoever raced to install it              *)
(* (hashtable.c:279, 365).                                                   *)
TypeOK ==
    /\ last \in Tables /\ ht_hti \in 1..last
    /\ \A h \in Tables :
         /\ key[h] \in [Entries(h) -> Keys \cup {DOES_NOT_EXIST}]
         /\ val[h] \in [Entries(h) -> Values \X BOOLEAN]
         /\ copy_scan[h] \in 0..(2 * Sizes[h] + ENTRIES_PER_COPY_CHUNK)
         /\ ref_count[h] \in 0..(1 + Cardinality(Threads)) /\ freed[h] \in Nat
         /\ \A e1, e2 \in Entries(h) :
              key[h][e1] = key[h][e2] /\ key[h][e1] # DOES_NOT_EXIST => e1 = e2
    /\ \A t \in Threads : th[t].h \in 1..last /\ th[t].to \in 1..last /\ th[t].iter \in 1..last

Quiet == \A t \in Threads : At(t, "idle")

(* An entry is counted once, and only when nothing is left to copy from it,  *)
(* so hti_help_copy's "copy is done" is right and a table is unlinked when   *)
(* all its entries are dead; and none is forgotten, or ht_iter_begin would   *)
(* help for ever (hashtable.c:302-309, 480-520, 668).                        *)
CopiedIsDead ==
    \A h \in Tables :
        LET dead == Cardinality({e \in Entries(h) : Dead(val[h][e])}) IN
        /\ num_entries_copied[h] <= dead
        /\ Quiet => num_entries_copied[h] = dead
        /\ h < ht_hti => num_entries_copied[h] = Sizes[h]

(* hti_defer_free's assertion "copy not in progress" (hashtable.c:530), and  *)
(* that a table is freed once, unlinked, and under no iterator.              *)
FreedIsUnused ==
    \A h \in Tables : freed[h] > 0 =>
        /\ freed[h] = 1 /\ h < ht_hti
        /\ \A e \in Entries(h) : Dead(val[h][e])
        /\ \A t \in Threads : At(t, "iter_key") => th[t].iter # h

(* A dead entry stays dead: no operation that still works on an old table    *)
(* brings a value back to it (hashtable.c:299, 419).                         *)
DeadStaysDead ==
    [][\A h \in Tables : \A e \in Entries(h) : Dead(val[h][e]) => Dead(val'[h][e])]_vars

(* The map's contents, when no call is in progress: the first table in which *)
(* a key's entry is not dead decides.                                        *)
Live == {k \in Keys : \E h \in Tables : \E e \in Entries(h) :
           key[h][e] = k /\ ~IS_TAGGED(val[h][e]) /\ Exists(val[h][e])}

(* ht_count is the number of keys once the calls are over, however a value   *)
(* moved between tables while it was changed (hashtable.c:302-306, 426-430,  *)
(* 609-617).                                                                 *)
CountAgrees ==
    Quiet => MapThenSumSet(LAMBDA h : count[h], {h \in Tables : h >= ht_hti}) = Cardinality(Live)

=============================================================================
