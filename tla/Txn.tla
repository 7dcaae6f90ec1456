-------------------------------- MODULE Txn ---------------------------------
(***************************************************************************)
(* The multi-version transactions of src/txn/txn.c over a hashtable map.   *)
(* A key's word in the map is a literal value or refers to its newest      *)
(* update record; records are chained from newer to older.  map_get and    *)
(* map_cas are single steps, as module Hashtable shows they may be; so are *)
(* sl_cas, sl_remove and sl_min_key on active_, the skiplist that counts   *)
(* the transactions per read version.  Every load or store of a shared     *)
(* field is a step.  A field that the code tests twice in a row without a  *)
(* call in between (update->version) is loaded once.                       *)
(***************************************************************************)
EXTENDS Naturals, Sequences, FiniteSets, TLC

CONSTANTS Threads, Keys,
          Past,           \* transactions that one thread ran before, in one variant
          MaxTxns,        \* bound: transactions in all, after those
          MaxOps          \* bound: gets and sets in all

ASSUME TxnAssumption == {Past, MaxTxns, MaxOps} \subseteq Nat

(* Words of the map and links between records: IS_TAGGED(val, TAG2) tells a  *)
(* record from a literal.  A value is named by the record that brought it.   *)
DOES_NOT_EXIST == <<"none">>
Lit(v) == <<"lit", v>>
Ref(u) == <<"ref", u>>
IsRef(val) == val[1] = "ref"

(* A record's version: the transaction (TAG1), ABORTED_VERSION (TAG1, so     *)
(* larger than every number) or a number.                                    *)
UNDETERMINED_VERSION == 0
ABORTED_VERSION == <<"aborted">>
Writer(x) == <<"txn", x>>
Number(n) == <<"number", n>>
IsNumber(ver) == ver[1] = "number"

UnsignedRange == 16   \* stands for 2^32, the range of the unsigned old_count

MaxVersion == 1 + Past + MaxTxns * Cardinality(Threads)
NotActive == UnsignedRange   \* no node for this version in active_

VARIABLES version_,
          active,   \* active_: per version the value of its node
          txn,      \* the txn_t's, <<thread, number>>; reads: what txn_map_get returned
          rec,      \* the update records, <<transaction, number>>
          map,
          ops,      \* gets and sets called so far
          th,       \* locals of each thread; x: its transaction
          faults    \* history: what has gone wrong, see Fault

store == <<version_, active, txn, rec, map, ops>>
vars == <<store, th, faults>>

NewTxn == [rv |-> 0, wv |-> UNDETERMINED_VERSION, state |-> "RUNNING", writes |-> <<>>,
           reads |-> {}]

(* at: the link the walk stands on; w: the writer looked at; stack: the      *)
(* activations of txn_validate, innermost first.                             *)
Idle == [pc |-> "idle", x |-> <<>>, old_count |-> 0, key |-> 0, newest |-> DOES_NOT_EXIST,
         at |-> DOES_NOT_EXIST, w |-> <<>>, verdict |-> "none",
         min_active |-> 0, version |-> ABORTED_VERSION, i |-> 0, stack |-> <<>>]

(* Nothing has happened yet, or one key was set by Past transactions in turn. *)
Earlier(i) == <<"earlier", i>>
EarlierRec(i) == <<Earlier(i), 1>>

Init ==
    \E n \in {0, Past}, k \in Keys :
    /\ version_ = n + 1
    /\ txn = [x \in {Earlier(i) : i \in 1..n} |->
               [rv |-> x[2], wv |-> x[2] + 1, state |-> "VALIDATED",
                writes |-> <<[key |-> k, rec |-> EarlierRec(x[2])]>>, reads |-> {}]]
    /\ rec = [u \in {EarlierRec(i) : i \in 1..n} |->
               [version |-> Number(u[1][2] + 1), freed |-> FALSE,
                next |-> IF u[1][2] = 1 THEN DOES_NOT_EXIST ELSE Ref(EarlierRec(u[1][2] - 1))]]
    /\ map = [j \in Keys |-> IF j = k /\ n > 0 THEN Ref(EarlierRec(n)) ELSE DOES_NOT_EXIST]
    /\ active = [v \in 1..MaxVersion |-> NotActive]
    /\ ops = 0
    /\ th = [t \in Threads |-> Idle]
    /\ faults = {}

(* The model follows the program until the first fault: a freed record is    *)
(* read, a count in active_ is replaced by one that was not computed from    *)
(* it, or a verdict is overturned.                                           *)
Fault(name, happens) == faults' = IF happens THEN faults \cup {name} ELSE faults

At(t, pc) == th[t].pc = pc /\ faults = {}
Go(t, changes) == th' = [th EXCEPT ![t] = changes @@ @]
Me(t) == th[t].x
Mine(t) == txn[Me(t)]

(* A call is over: back to the body of the transaction, or out of it. *)
BackToBody(t) == th' = [th EXCEPT ![t] = [Idle EXCEPT !.pc = "run", !.x = Me(t)]]
Finish(t) == th' = [th EXCEPT ![t] = Idle]

Touch(u) == Fault("read after free", rec[u].freed)

-----------------------------------------------------------------------------
(* active_, with what sl_cas really does: an expectation other than          *)
(* CAS_EXPECT_DOES_NOT_EXIST (0) is not compared with the value found, and a *)
(* node whose value is 0 (DOES_NOT_EXIST) is retried until it is removed.    *)

SlCasReturns(v) == IF active[v] = NotActive THEN 0 ELSE active[v]

SlCas(v, expectation, new_val) ==
    /\ active[v] # 0
    /\ active' = IF (active[v] = NotActive) = (expectation = 0)
                 THEN [active EXCEPT ![v] = new_val] ELSE active
    /\ Fault("miscount", expectation # 0 /\ active[v] \notin {NotActive, expectation, new_val})

SlMinKey ==
    LET keys == {v \in DOMAIN active : active[v] # NotActive}
    IN  IF keys = {} THEN 0 ELSE CHOOSE v \in keys : \A x \in keys : v <= x

-----------------------------------------------------------------------------
(* txn_begin *)

Begin(t) ==
    LET x == <<t, Cardinality({y \in DOMAIN txn : y[1] = t}) + 1>> IN
    /\ At(t, "idle") /\ Cardinality({y \in DOMAIN txn : y[1] \in Threads}) < MaxTxns
    /\ Go(t, [pc |-> "read_version", x |-> x])
    /\ txn' = (x :> NewTxn) @@ txn
    /\ UNCHANGED <<version_, active, rec, map, ops, faults>>

BeginReadVersion(t) ==
    /\ At(t, "read_version")
    /\ txn' = [txn EXCEPT ![Me(t)].rv = version_]
    /\ Go(t, [pc |-> "raise", old_count |-> 0])
    /\ UNCHANGED <<version_, active, rec, map, ops, faults>>

BeginRaise(t) ==
    LET rv == Mine(t).rv  old_count == th[t].old_count IN
    /\ At(t, "raise")
    /\ SlCas(rv, old_count, (old_count + 1) % UnsignedRange)
    /\ Go(t, IF SlCasReturns(rv) = old_count THEN [pc |-> "recheck"]
             ELSE [old_count |-> SlCasReturns(rv)])
    /\ UNCHANGED <<version_, txn, rec, map, ops>>

BeginRecheck(t) ==
    /\ At(t, "recheck")
    /\ Go(t, IF Mine(t).rv = version_ THEN [pc |-> "run", old_count |-> 0]
             ELSE [pc |-> "undo", old_count |-> 1])
    /\ UNCHANGED <<store, faults>>

BeginUndo(t) ==
    LET rv == Mine(t).rv  old_count == th[t].old_count IN
    /\ At(t, "undo")
    /\ SlCas(rv, old_count, (old_count + UnsignedRange - 1) % UnsignedRange)
    /\ Go(t, IF SlCasReturns(rv) = old_count THEN [pc |-> "read_version"]
             ELSE [old_count |-> SlCasReturns(rv)])
    /\ UNCHANGED <<version_, txn, rec, map, ops>>

-----------------------------------------------------------------------------
(* txn_map_set *)

CallSet(t) ==
    /\ At(t, "run") /\ ops < MaxOps
    /\ ops' = ops + 1
    /\ \E k \in Keys : Go(t, [pc |-> "set", key |-> k, at |-> map[k]])
    /\ UNCHANGED <<version_, active, txn, rec, map, faults>>

(* The record is the thread's own until it is linked. *)
SetPush(t) ==
    LET k == th[t].key  u == <<Me(t), Len(Mine(t).writes) + 1>> IN
    /\ At(t, "set")
    /\ \/ /\ map[k] = th[t].at
          /\ rec' = (u :> [version |-> Writer(Me(t)), next |-> map[k], freed |-> FALSE]) @@ rec
          /\ map' = [map EXCEPT ![k] = Ref(u)]
          /\ txn' = [txn EXCEPT ![Me(t)].writes = Append(@, [key |-> k, rec |-> u])]
          /\ BackToBody(t)
       \/ /\ map[k] # th[t].at
          /\ Go(t, [at |-> map[k]])
          /\ UNCHANGED <<rec, map, txn>>
    /\ UNCHANGED <<version_, active, ops, faults>>

-----------------------------------------------------------------------------
(* txn_map_get: the walk to the newest record visible at rv *)

CallGet(t) ==
    /\ At(t, "run") /\ ops < MaxOps
    /\ ops' = ops + 1
    /\ \E k \in Keys : Go(t, [pc |-> "get", key |-> k, newest |-> map[k], at |-> map[k]])
    /\ UNCHANGED <<version_, active, txn, rec, map, faults>>

Return(t, ret) ==
    /\ txn' = [txn EXCEPT ![Me(t)].reads = @ \cup
                 {[key |-> th[t].key, ret |-> ret, after |-> Len(Mine(t).writes)]}]
    /\ BackToBody(t)
    /\ UNCHANGED <<version_, active, ops>>

GetEnds(t) ==
    /\ At(t, "get") /\ ~IsRef(th[t].at)
    /\ Return(t, th[t].at)
    /\ UNCHANGED <<rec, map, faults>>

(* On to the next older record.  A link changes only when its record is      *)
(* freed, so it is read together with the word that decided to skip it.      *)
GetSkip(t) == Go(t, [pc |-> "get", at |-> rec[th[t].at[2]].next, w |-> <<>>])

GetVersion(t) ==
    LET u == th[t].at[2]  ver == rec[u].version IN
    /\ At(t, "get") /\ IsRef(th[t].at)
    /\ CASE IsNumber(ver) /\ ver[2] <= Mine(t).rv -> Go(t, [pc |-> "found"])
         [] IsNumber(ver) /\ ver[2] > Mine(t).rv -> GetSkip(t)
         [] ver = ABORTED_VERSION -> GetSkip(t)
         [] ver = Writer(Me(t)) -> Go(t, [pc |-> "found"])
         [] OTHER -> Go(t, [pc |-> "get_state", w |-> ver[2]])
    /\ Touch(u)
    /\ UNCHANGED store

(* The writer's wv does not change any more once it is validated. *)
GetUnlessNewer(t) ==
    IF txn[th[t].w].wv > Mine(t).rv THEN GetSkip(t) ELSE Go(t, [pc |-> "found"])

GetState(t) ==
    LET state == txn[th[t].w].state IN
    /\ At(t, "get_state")
    /\ CASE state \in {"RUNNING", "ABORTED"} -> GetSkip(t)
         [] state = "VALIDATING" -> Go(t, [pc |-> "get_help"])
         [] state = "VALIDATED" -> GetUnlessNewer(t)
    /\ Touch(th[t].at[2])
    /\ UNCHANGED store

(* txn_validate(x) is called; its result will be found in verdict, at pc. *)
Validate(t, x, pc) ==
    Go(t, [pc |-> "validate",
           stack |-> <<[txn |-> x, i |-> 0, at |-> DOES_NOT_EXIST, w |-> <<>>, wv |-> 0,
                        back |-> pc]>> \o th[t].stack])

(* Mutant: a writer that is validating is taken for one that is running. *)
GetNoHelp(t) ==
    /\ At(t, "get_help")
    /\ GetSkip(t)
    /\ Touch(th[t].at[2])
    /\ UNCHANGED store

GetHelp(t) ==
    /\ At(t, "get_help")
    /\ IF txn[th[t].w].wv > Mine(t).rv THEN GetSkip(t)
       ELSE Validate(t, th[t].w, "get_verdict")
    /\ Touch(th[t].at[2])
    /\ UNCHANGED store

GetVerdict(t) ==
    /\ At(t, "get_verdict")
    /\ IF th[t].verdict = "ABORTED" THEN GetSkip(t) ELSE GetUnlessNewer(t)
    /\ Touch(th[t].at[2])
    /\ UNCHANGED store

-----------------------------------------------------------------------------
(* txn_map_get: garbage.  A record is freed with its older ones when its     *)
(* version is below every read version in use; a last record visible to all  *)
(* is replaced in the map by its value.                                      *)

GetFound(t) ==
    LET u == th[t].at[2]  next == rec[u].next IN
    /\ At(t, "found")
    /\ CASE IsRef(next) -> /\ Go(t, [pc |-> "collect", w |-> next[2], min_active |-> SlMinKey])
                           /\ UNCHANGED <<version_, active, txn, ops>>
         [] ~IsRef(next) /\ th[t].at = th[t].newest ->
                           /\ Go(t, [pc |-> "merge", w |-> <<>>, min_active |-> SlMinKey])
                           /\ UNCHANGED <<version_, active, txn, ops>>
         [] OTHER -> Return(t, Lit(u))
    /\ Touch(u)
    /\ UNCHANGED <<rec, map>>

(* An aborted or unfinished version is larger than any number, so the loop   *)
(* that looks behind aborted records is never entered.                       *)
GetCollect(t) ==
    LET ver == rec[th[t].w].version IN
    /\ At(t, "collect")
    /\ IF IsNumber(ver) /\ ver[2] < th[t].min_active
       THEN Go(t, [pc |-> "free"]) /\ UNCHANGED <<version_, active, txn, ops>>
       ELSE Return(t, Lit(th[t].at[2]))
    /\ Touch(th[t].w)
    /\ UNCHANGED <<rec, map>>

GetFree(t) ==
    LET temp == th[t].w  next == rec[temp].next IN
    /\ At(t, "free")
    /\ rec' = [rec EXCEPT ![temp].next = DOES_NOT_EXIST,
                          ![temp].freed = @ \/ next # DOES_NOT_EXIST]
    /\ IF IsRef(next)
       THEN Go(t, [w |-> next[2]]) /\ UNCHANGED <<version_, active, txn, ops>>
       ELSE Return(t, Lit(th[t].at[2]))
    /\ Touch(temp)
    /\ UNCHANGED map

GetMerge(t) ==
    LET u == th[t].at[2]  ver == rec[u].version IN
    /\ At(t, "merge")
    /\ IF IsNumber(ver) /\ ver[2] <= th[t].min_active
       THEN Go(t, [pc |-> "merge_cas"]) /\ UNCHANGED <<version_, active, txn, ops>>
       ELSE Return(t, Lit(u))
    /\ Touch(u)
    /\ UNCHANGED <<rec, map>>

GetMergeCas(t) ==
    LET u == th[t].at[2]  k == th[t].key IN
    /\ At(t, "merge_cas")
    /\ map' = IF map[k] = Ref(u) THEN [map EXCEPT ![k] = Lit(u)] ELSE map
    /\ Return(t, Lit(u))
    /\ UNCHANGED <<rec, faults>>

-----------------------------------------------------------------------------
(* txn_validate, for one's own transaction or to help another.  The          *)
(* innermost activation is the head of the stack.                            *)

Frame(t) == Head(th[t].stack)
Target(t) == txn[Frame(t).txn]

(* Go on in the innermost activation with these of its locals changed. *)
GoIn(t, pc, changes) ==
    th' = [th EXCEPT ![t].pc = pc, ![t].verdict = "none", ![t].stack[1] = changes @@ @]

Step(t, pc) == At(t, pc) /\ UNCHANGED <<active, rec, map, ops>>

ValidateReturn(t) ==
    /\ Step(t, "return")
    /\ Go(t, [pc |-> Frame(t).back, verdict |-> Target(t).state, stack |-> Tail(th[t].stack)])
    /\ UNCHANGED <<version_, txn, faults>>

ValidateEnter(t) ==
    /\ Step(t, "validate")
    /\ GoIn(t, IF Target(t).state = "VALIDATING" THEN "wv" ELSE "return", <<>>)
    /\ UNCHANGED <<version_, txn, faults>>

(* SYNC_ADD returns the new version. *)
ValidateWv(t) ==
    /\ Step(t, "wv")
    /\ IF Target(t).wv = UNDETERMINED_VERSION
       THEN version_' = version_ + 1 /\ GoIn(t, "wv_cas", [wv |-> version_ + 1])
       ELSE version_' = version_ /\ GoIn(t, "next_write", <<>>)
    /\ UNCHANGED <<txn, faults>>

ValidateWvCas(t) ==
    /\ Step(t, "wv_cas")
    /\ txn' = [txn EXCEPT ![Frame(t).txn].wv =
                 IF @ = UNDETERMINED_VERSION THEN Frame(t).wv ELSE @]
    /\ GoIn(t, "next_write", [wv |-> 0])
    /\ UNCHANGED <<version_, faults>>

ValidateNextWrite(t) ==
    LET i == Frame(t).i + 1 IN
    /\ Step(t, "next_write")
    /\ IF i <= Len(Target(t).writes)
       THEN GoIn(t, "key", [i |-> i, at |-> map[Target(t).writes[i].key]])
       ELSE GoIn(t, "test_state", <<>>)
    /\ UNCHANGED <<version_, txn, faults>>

ValidateAbort(t) ==
    /\ Step(t, "abort")
    /\ txn' = [txn EXCEPT ![Frame(t).txn].state = "ABORTED"]
    /\ Fault("overturned", Target(t).state = "VALIDATED")
    /\ GoIn(t, "test_state", <<>>)
    /\ UNCHANGED version_

ValidateTestState(t) ==
    /\ Step(t, "test_state")
    /\ GoIn(t, IF Target(t).state = "VALIDATING" THEN "validated" ELSE "return", <<>>)
    /\ UNCHANGED <<version_, txn, faults>>

ValidateStore(t) ==
    /\ Step(t, "validated")
    /\ txn' = [txn EXCEPT ![Frame(t).txn].state = "VALIDATED"]
    /\ GoIn(t, "return", <<>>)
    /\ UNCHANGED <<version_, faults>>

-----------------------------------------------------------------------------
(* validate_key, for one write of the innermost activation *)

(* The key is settled: go on to the next write, or abort. *)
Settle(t, version) ==
    GoIn(t, IF version <= Target(t).rv THEN "next_write" ELSE "abort",
         [at |-> DOES_NOT_EXIST, w |-> <<>>])

KeySkip(t) == GoIn(t, "key", [at |-> rec[Frame(t).at[2]].next, w |-> <<>>])

KeyEnds(t) ==
    /\ Step(t, "key") /\ ~IsRef(Frame(t).at)
    /\ GoIn(t, "next_write", [at |-> DOES_NOT_EXIST])
    /\ UNCHANGED <<version_, txn, faults>>

KeyVersion(t) ==
    LET u == Frame(t).at[2]  ver == rec[u].version IN
    /\ Step(t, "key") /\ IsRef(Frame(t).at)
    /\ CASE IsNumber(ver) -> Settle(t, ver[2])
         [] ver = ABORTED_VERSION -> KeySkip(t)
         [] ver = Writer(Frame(t).txn) -> KeySkip(t)
         [] OTHER -> GoIn(t, "key_state", [w |-> ver[2]])
    /\ Touch(u)
    /\ UNCHANGED <<version_, txn>>

(* Mutant: a writer that is validating is taken for one that is running. *)
KeyStateNoHelp(t) ==
    /\ Step(t, "key_state")
    /\ IF txn[Frame(t).w].state = "VALIDATED" THEN Settle(t, txn[Frame(t).w].wv) ELSE KeySkip(t)
    /\ Touch(Frame(t).at[2])
    /\ UNCHANGED <<version_, txn>>

KeyState(t) ==
    LET state == txn[Frame(t).w].state IN
    /\ Step(t, "key_state")
    /\ CASE state \in {"RUNNING", "ABORTED"} -> KeySkip(t)
         [] state = "VALIDATING" -> Go(t, [pc |-> "key_help"])
         [] state = "VALIDATED" -> Settle(t, txn[Frame(t).w].wv)
    /\ Touch(Frame(t).at[2])
    /\ UNCHANGED <<version_, txn>>

(* Mutant: the versions are not compared. *)
KeyHelpAlways(t) ==
    /\ Step(t, "key_help")
    /\ Validate(t, Frame(t).w, "key_verdict")
    /\ Touch(Frame(t).at[2])
    /\ UNCHANGED <<version_, txn>>

KeyHelp(t) ==
    /\ Step(t, "key_help")
    /\ IF txn[Frame(t).w].wv > Target(t).wv THEN KeySkip(t)
       ELSE Validate(t, Frame(t).w, "key_verdict")
    /\ Touch(Frame(t).at[2])
    /\ UNCHANGED <<version_, txn>>

KeyVerdict(t) ==
    /\ Step(t, "key_verdict")
    /\ IF th[t].verdict = "ABORTED" THEN KeySkip(t) ELSE Settle(t, txn[Frame(t).w].wv)
    /\ Touch(Frame(t).at[2])
    /\ UNCHANGED <<version_, txn>>

-----------------------------------------------------------------------------
(* txn_abort, txn_commit *)

CallAbort(t) ==
    /\ At(t, "run")
    /\ Go(t, [pc |-> "detach"])
    /\ UNCHANGED <<store, faults>>

CallCommit(t) ==
    /\ At(t, "run")
    /\ txn' = [txn EXCEPT ![Me(t)].state = "VALIDATING"]
    /\ Validate(t, Me(t), "outcome")
    /\ UNCHANGED <<version_, active, rec, map, ops, faults>>

CommitOutcome(t) ==
    /\ At(t, "outcome")
    /\ Go(t, [pc |-> "detach",
              version |-> IF Mine(t).state = "ABORTED" THEN ABORTED_VERSION ELSE Number(Mine(t).wv)])
    /\ UNCHANGED <<store, faults>>

(* The loop of both over the writes.  txn_abort is then done, and leaves     *)
(* active_ and the state as they are.                                        *)
Detach(t) ==
    LET i == th[t].i + 1 IN
    /\ At(t, "detach")
    /\ IF i <= Len(Mine(t).writes)
       THEN /\ rec' = [rec EXCEPT ![Mine(t).writes[i].rec].version = th[t].version]
            /\ Go(t, [i |-> i])
       ELSE /\ IF th[t].verdict = "none" THEN Finish(t)
               ELSE Go(t, [pc |-> "lower", old_count |-> 2])
            /\ rec' = rec
    /\ UNCHANGED <<version_, active, txn, map, ops, faults>>

CommitLower(t) ==
    LET rv == Mine(t).rv  old_count == th[t].old_count  temp == SlCasReturns(rv) IN
    /\ At(t, "lower")
    /\ SlCas(rv, old_count, (old_count + UnsignedRange - 1) % UnsignedRange)
    /\ IF temp = 1 /\ rv # version_ THEN Go(t, [pc |-> "remove"])
       ELSE IF temp = old_count THEN Finish(t)
       ELSE Go(t, [old_count |-> temp])
    /\ UNCHANGED <<version_, txn, rec, map, ops>>

CommitRemove(t) ==
    /\ At(t, "remove")
    /\ active' = [active EXCEPT ![Mine(t).rv] = NotActive]
    /\ Finish(t)
    /\ UNCHANGED <<version_, txn, rec, map, ops, faults>>

-----------------------------------------------------------------------------
Next ==
    \E t \in Threads :
        \/ Begin(t) \/ BeginReadVersion(t) \/ BeginRaise(t) \/ BeginRecheck(t) \/ BeginUndo(t)
        \/ CallSet(t) \/ SetPush(t)
        \/ CallGet(t) \/ GetEnds(t) \/ GetVersion(t) \/ GetState(t)
        \/ GetHelp(t) \/ GetVerdict(t)
        \/ GetFound(t) \/ GetCollect(t) \/ GetFree(t) \/ GetMerge(t) \/ GetMergeCas(t)
        \/ ValidateEnter(t) \/ ValidateWv(t) \/ ValidateWvCas(t) \/ ValidateNextWrite(t)
        \/ ValidateAbort(t) \/ ValidateTestState(t) \/ ValidateStore(t) \/ ValidateReturn(t)
        \/ KeyEnds(t) \/ KeyVersion(t) \/ KeyState(t) \/ KeyHelp(t) \/ KeyVerdict(t)
        \/ CallAbort(t) \/ CallCommit(t) \/ CommitOutcome(t) \/ Detach(t)
        \/ CommitLower(t) \/ CommitRemove(t)

Spec == Init /\ [][Next]_vars

-----------------------------------------------------------------------------
(* Properties *)

(* The updates behind a link, from newer to older. *)
RECURSIVE Chain(_)
Chain(val) == IF IsRef(val) THEN <<val[2]>> \o Chain(rec[val[2]].next) ELSE <<>>

(* x's last write of k among its first n writes. *)
Wrote(x, k, n) == \E i \in 1..n : txn[x].writes[i].key = k
LastWrite(x, k, n) ==
    LET i == CHOOSE i \in 1..n : /\ txn[x].writes[i].key = k
                                 /\ \A j \in (i + 1)..n : txn[x].writes[j].key # k
    IN  Lit(txn[x].writes[i].rec)

Writers(k) == {x \in DOMAIN txn : txn[x].state = "VALIDATED" /\ Wrote(x, k, Len(txn[x].writes))}

(* The value k had for transactions that read at version rv. *)
ValueAt(k, rv) ==
    LET ws == {x \in Writers(k) : txn[x].wv <= rv}
        last == CHOOSE x \in ws : \A y \in ws : txn[y].wv <= txn[x].wv
    IN  IF ws = {} THEN DOES_NOT_EXIST ELSE LastWrite(last, k, Len(txn[last].writes))

(* The state is within its types, and no transaction reads or writes at a    *)
(* version that was not handed out yet.                                      *)
TypeOK ==
    /\ version_ \in 1..MaxVersion
    /\ active \in [1..MaxVersion -> 0..NotActive]
    /\ \A x \in DOMAIN txn :
         /\ txn[x].rv \in 0..version_ /\ txn[x].wv \in 0..version_
         /\ txn[x].state \in {"RUNNING", "VALIDATING", "VALIDATED", "ABORTED"}
         /\ \A i \in DOMAIN txn[x].writes : txn[x].writes[i] \in [key : Keys, rec : DOMAIN rec]
    /\ \A k \in Keys : map[k] = DOES_NOT_EXIST \/ map[k][2] \in DOMAIN rec

(* Snapshot reads: txn_map_get returns the transaction's own last write, or  *)
(* what the key had at the version the transaction began with, whatever      *)
(* other transactions commit, abort, collect or merge meanwhile.            *)
SnapshotReads ==
    faults = {} =>
        \A x \in DOMAIN txn : \A r \in txn[x].reads :
            r.ret = IF Wrote(x, r.key, r.after) THEN LastWrite(x, r.key, r.after)
                    ELSE ValueAt(r.key, txn[x].rv)

(* First committer wins: of two committed transactions that wrote the same   *)
(* key one began after the other's write version, so validate_key let no     *)
(* update be lost.                                                           *)
NoLostUpdate ==
    faults = {} =>
        \A k \in Keys : \A x, y \in Writers(k) :
            x = y \/ txn[x].wv <= txn[y].rv \/ txn[y].wv <= txn[x].rv

(* "We can stop at the first committed record we find ...  All the other     *)
(* committed records following it will be older": along the updates of a key *)
(* committed versions descend, and of one transaction's the last comes       *)
(* first.  The updates are linked by txn_map_set in the order of the calls   *)
(* and get their versions much later, in that of validation, with helpers    *)
(* at work (txn.c:62-66, 84-104, 123); both walks rely on it.                *)
CommittedDescend ==
    /\ TypeOK
    /\ \A k \in Keys :
         LET c == Chain(map[k]) IN
         \A i, j \in DOMAIN c :
             LET x == c[i][1]  y == c[j][1] IN
             i < j /\ {txn[x].state, txn[y].state} = {"VALIDATED"} =>
                 IF x = y THEN c[i][2] > c[j][2] ELSE txn[x].wv > txn[y].wv

(* Helping ends: validate_key's rule to ignore a validating writer with a    *)
(* later version keeps two transactions that meet each other's updates from  *)
(* being validated by each other for ever ("avoids infinite ping-ponging").  *)
HelpIsBounded == \A t \in Threads : Len(th[t].stack) <= Cardinality(DOMAIN txn) + 1

(* A transaction found valid stays committed: the stores of the outcome by   *)
(* helpers and by the owner in txn_validate agree.                           *)
VerdictIsFinal == "overturned" \notin faults
=============================================================================
