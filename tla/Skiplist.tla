------------------------------ MODULE Skiplist ------------------------------
(***************************************************************************)
(* The lock-free skiplist of src/map/skiplist.c with integer keys.  Every  *)
(* load, compare-and-swap or swap of a shared word is a step of its own.   *)
(* A node is linked into the lowest level first and marked from its top    *)
(* level down; find_preds, run by every operation, unlinks marked nodes on *)
(* its way.  As in module List, a node handed to rcu_defer_free only joins *)
(* the retired nodes.                                                      *)
(***************************************************************************)
EXTENDS Naturals, FiniteSets, TLC, MapOps

CONSTANTS Threads,
          NumKeys,        \* keys are 1..NumKeys
          Initial,        \* value the keys have at the start, where present
          Expectations,   \* expectations callers pass to sl_cas
          Kinds,          \* kinds of operations callers use
          MaxOps,         \* bound: operations per thread
          Casts,          \* bound: how many threads call, on how many keys
          MAX_LEVELS,     \* levels of the head
          MaxLevels,      \* levels the random number may ask for
          Head, Null

ASSUME SkiplistAssumption ==
    /\ {NumKeys, MaxOps, MAX_LEVELS, MaxLevels} \subseteq Nat
    /\ Casts \subseteq [threads : 0..Cardinality(Threads), keys : 0..NumKeys]

Keys == 1..NumKeys

Levels == 0..(MAX_LEVELS - 1)

(* A node is named by who allocated it; a new value is its thread's name. *)
InitialNode(k) == <<"initial", k>>
Nodes == {InitialNode(k) : k \in Keys} \cup (Threads \X (1..MaxOps))

VARIABLES key, val, num_levels, next,  \* fields of every node; next[n][l] is <<node, marked>>
          high_water,
          retired,   \* how often each node went to rcu_defer_free
          th,        \* locals of each thread
          op,        \* the operation each thread is in or did last
          cast,      \* the one of Casts
          count,     \* operations each thread has called
          done,      \* history: finished operations
          initial    \* history: the map at the start

nodes == <<key, val, num_levels, next, high_water, retired>>
history == <<op, cast, count, done, initial>>
vars == <<nodes, th, history>>

Ref(n) == <<n, FALSE>>
GET_NODE(link) == link[1]
STRIP_MARK(link) == link[1]
HAS_MARK(link) == link[2]
MARK_NODE(n) == <<n, TRUE>>

(* A thread between calls.  goal: who called find_preds; level: its level;   *)
(* match: its d is 0; at: the level sl_cas links or sl_remove marks; last:   *)
(* the key that a walk returned last.                                        *)
Idle == [pc |-> "idle", goal |-> "none", n |-> 0, level |-> 0, match |-> FALSE,
         pred |-> Head, item |-> Null, next |-> Ref(Null), val |-> DOES_NOT_EXIST,
         preds |-> [l \in Levels |-> Head], succs |-> [l \in Levels |-> Null],
         at |-> 0, victim |-> Null, last |-> 0]

NoOp == [kind |-> "none"]

(* sl_alloc, and a skiplist that holds any subset of the keys, linked at the *)
(* lowest level or at two.                                                   *)
Init ==
    /\ cast \in Casts
    /\ initial \in [Keys -> {Initial, DOES_NOT_EXIST}]
    /\ \A k \in Keys : k > cast.keys => initial[k] = DOES_NOT_EXIST
    /\ num_levels \in [Nodes -> {1, 2}]
    /\ \A n \in Nodes : n[1] # "initial" \/ initial[n[2]] = DOES_NOT_EXIST => num_levels[n] = 1
    /\ LET On(l) == {k \in Keys : initial[k] # DOES_NOT_EXIST
                                    /\ l < num_levels[InitialNode(k)]}
           After(k, l) == {j \in On(l) : j > k}
           Link(k, l) == Ref(IF After(k, l) = {} THEN Null
                             ELSE InitialNode(CHOOSE j \in After(k, l) :
                                                \A m \in After(k, l) : j <= m))
       IN  next = [n \in Nodes \cup {Head} |-> [l \in Levels |->
                     IF n = Head THEN Link(0, l)
                     ELSE IF n[1] = "initial" /\ l < num_levels[n] THEN Link(n[2], l)
                     ELSE Ref(Null)]]
    /\ high_water = IF \E n \in Nodes : num_levels[n] = 2 THEN 2 ELSE 1
    /\ key = [n \in Nodes |-> IF n[1] = "initial" /\ initial[n[2]] # DOES_NOT_EXIST
                              THEN n[2] ELSE 0]
    /\ val = [n \in Nodes |-> IF n[1] = "initial" THEN Initial ELSE DOES_NOT_EXIST]
    /\ retired = [n \in Nodes |-> 0]
    /\ th = [t \in Threads |-> Idle]
    /\ op = [t \in Threads |-> NoOp]
    /\ count = [t \in Threads |-> 0]
    /\ done = {}

(* The thread is at this step; it goes on with these locals changed. *)
At(t, pc) == th[t].pc = pc
Go(t, changes) == th' = [th EXCEPT ![t] = changes @@ @]

Search(t, goal) == Go(t, [pc |-> "find", goal |-> goal])

Return(t, ret) ==
    /\ th' = [th EXCEPT ![t] = Idle]
    /\ done' = done \cup {op[t] @@ [ret |-> ret]}

-----------------------------------------------------------------------------
(* Calls *)

Call(t, o) ==
    /\ At(t, "idle") /\ count[t] < MaxOps
    /\ Cardinality({t} \cup {u \in Threads : count[u] > 0}) <= cast.threads
    /\ count' = [count EXCEPT ![t] = @ + 1]
    /\ op' = [op EXCEPT ![t] =
                o @@ [id |-> <<t, count[t] + 1>>, after |-> {d.id : d \in done}]]
    /\ UNCHANGED <<nodes, cast, done, initial>>

CallGet(t) ==
    /\ "get" \in Kinds
    /\ \E k \in 1..cast.keys : Call(t, [kind |-> "get", key |-> k])
    /\ Search(t, "get")

CallCas(t) ==
    /\ "cas" \in Kinds
    /\ \E k \in 1..cast.keys, e \in Expectations :
         Call(t, [kind |-> "cas", key |-> k, expectation |-> e, new_val |-> t])
    /\ Go(t, [pc |-> "levels"])

(* sl_remove passes the high water mark it has loaded as n. *)
CallRemove(t) ==
    /\ "remove" \in Kinds
    /\ \E k \in 1..cast.keys : Call(t, [kind |-> "remove", key |-> k])
    /\ Go(t, [pc |-> "find", goal |-> "remove", n |-> high_water])

(* sl_iter_begin, without a key or with one. *)
CallIterate(t) ==
    /\ "iterate" \in Kinds
    /\ \/ /\ Call(t, [kind |-> "iterate"])
          /\ Go(t, [pc |-> "iter_item", item |-> GET_NODE(next[Head][0])])
       \/ /\ \E k \in 1..cast.keys : Call(t, [kind |-> "iterate", key |-> k])
          /\ Go(t, [pc |-> "find", goal |-> "iterate", n |-> 1])

(* random_levels: asks for any number of levels; one that is too high raises *)
(* the high water mark by one instead.  Threads that do so at once raise it  *)
(* past the levels asked for; the result is at most MAX_LEVELS.              *)
RandomLevels(t) ==
    /\ At(t, "levels")
    /\ \E levels \in 1..MaxLevels :
         IF levels <= high_water
         THEN Go(t, [pc |-> "find", goal |-> "insert", n |-> levels])
         ELSE Go(t, [pc |-> "raise"])
    /\ UNCHANGED <<nodes, history>>

RaiseHighWater(t) ==
    /\ At(t, "raise")
    /\ high_water' = high_water + 1
    /\ LET levels == high_water' IN
       Go(t, [pc |-> "find", goal |-> "insert",
              n |-> IF levels > MAX_LEVELS THEN MAX_LEVELS ELSE levels])
    /\ UNCHANGED <<key, val, num_levels, next, retired, history>>

-----------------------------------------------------------------------------
(* find_preds.  DONT_UNLINK for sl_lookup and sl_iter_begin, FORCE_UNLINK for *)
(* the goal "unlink", ASSIST_UNLINK for the others.                           *)

DONT_UNLINK(t) == th[t].goal \in {"get", "iterate"}

(* Mutant of FORCE_UNLINK: every search that unlinks passes equal keys. *)
FORCE_UNLINK_Assisting(t) == ~DONT_UNLINK(t)

FORCE_UNLINK(t) == th[t].goal = "unlink"

(* sl_cas with no node for its key. *)
Absent(t) ==
    IF op[t].expectation \in {CAS_EXPECT_DOES_NOT_EXIST, CAS_EXPECT_WHATEVER}
    THEN [pc |-> "insert"] ELSE [pc |-> "return"]

(* Where the caller goes on with the node find_preds returns. *)
Found(t, item) ==
    CASE th[t].goal = "get" -> [pc |-> IF item = Null THEN "return" ELSE "read"]
      [] th[t].goal = "iterate" -> [pc |-> "iter_item"]
      [] th[t].goal = "insert" -> IF item = Null THEN Absent(t) ELSE [pc |-> "load_val"]
      [] th[t].goal = "relink" -> [pc |-> "fix_load", level |-> th[t].at]
      [] th[t].goal = "remove" ->
           IF item = Null THEN [pc |-> "return"]
           ELSE [pc |-> "mark_load", victim |-> item, at |-> num_levels[item] - 1]
      [] th[t].goal = "unlink" ->
           [pc |-> IF op[t].kind = "remove" THEN "retire" ELSE "return"]

(* find_preds leaves a level with these locals: a level below n is recorded  *)
(* (sl_remove never looks at its preds), then it goes down or is done.       *)
Leave(t, pred, item, match) ==
    LET l == th[t].level
        kept == l < th[t].n /\ op[t].kind = "cas" IN
    Go(t, (IF l = 0 THEN Found(t, IF match THEN item ELSE Null)
           ELSE [pc |-> "find_level", level |-> l - 1])
          @@ [pred |-> pred, item |-> item, match |-> match,
              preds |-> IF kept THEN [th[t].preds EXCEPT ![l] = pred] ELSE th[t].preds,
              succs |-> IF kept THEN [th[t].succs EXCEPT ![l] = item] ELSE th[t].succs])

(* The traversal of a level moves to a node, or past the last one. *)
Visit(t, pred, item) ==
    IF item = Null THEN Leave(t, pred, item, th[t].match)
    ELSE Go(t, [pc |-> "find_item", pred |-> pred, item |-> item])

(* Loads the high water mark and starts at the head. *)
Find(t) ==
    /\ At(t, "find")
    /\ Go(t, [pc |-> "find_level", level |-> high_water - 1,
              pred |-> Head, item |-> Null, match |-> TRUE])
    /\ UNCHANGED <<nodes, history>>

(* Loads the first link of a level; a marked one means pred is being removed. *)
FindLevel(t) ==
    LET l == th[t].level
        link == next[th[t].pred][l] IN
    /\ At(t, "find_level")
    /\ \/ /\ link = Ref(Null) /\ l >= th[t].n
          /\ Leave(t, th[t].pred, th[t].item, th[t].match)
       \/ /\ HAS_MARK(link)
          /\ Go(t, [pc |-> "find"])
       \/ /\ ~HAS_MARK(link) /\ (link # Ref(Null) \/ l < th[t].n)
          /\ Visit(t, th[t].pred, GET_NODE(link))
    /\ UNCHANGED <<nodes, history>>

(* Loads the item's link and compares the keys. *)
FindItem(t) ==
    LET item == th[t].item
        link == next[item][th[t].level] IN
    /\ At(t, "find_item")
    /\ \/ /\ HAS_MARK(link) /\ DONT_UNLINK(t)
          /\ Visit(t, th[t].pred, STRIP_MARK(link))
       \/ /\ HAS_MARK(link) /\ ~DONT_UNLINK(t)
          /\ Go(t, [pc |-> "find_unlink", next |-> link])
       \/ /\ ~HAS_MARK(link)
          /\ key[item] > op[t].key \/ (key[item] = op[t].key /\ ~FORCE_UNLINK(t))
          /\ Leave(t, th[t].pred, item, key[item] = op[t].key)
       \/ /\ ~HAS_MARK(link)
          /\ key[item] < op[t].key \/ (key[item] = op[t].key /\ FORCE_UNLINK(t))
          /\ IF GET_NODE(link) = Null
             THEN Leave(t, item, Null, key[item] = op[t].key)
             ELSE Go(t, [pred |-> item, item |-> GET_NODE(link),
                         match |-> key[item] = op[t].key])
    /\ UNCHANGED <<nodes, history>>

(* The compare-and-swap that takes a marked node out of one level. *)
FindUnlink(t) ==
    LET l == th[t].level
        link == next[th[t].pred][l] IN
    /\ At(t, "find_unlink")
    /\ \/ /\ link = Ref(th[t].item)
          /\ next' = [next EXCEPT ![th[t].pred][l] = Ref(STRIP_MARK(th[t].next))]
          /\ Visit(t, th[t].pred, STRIP_MARK(th[t].next))
       \/ /\ link # Ref(th[t].item) /\ HAS_MARK(link)
          /\ Go(t, [pc |-> "find"])
          /\ UNCHANGED next
       \/ /\ link # Ref(th[t].item) /\ ~HAS_MARK(link)
          /\ Visit(t, th[t].pred, GET_NODE(link))
          /\ UNCHANGED next
    /\ UNCHANGED <<key, val, num_levels, high_water, retired, history>>

(* A call whose answer is that the key was not there. *)
ReturnNothing(t) ==
    /\ At(t, "return")
    /\ Return(t, DOES_NOT_EXIST)
    /\ UNCHANGED <<nodes, op, cast, count, initial>>

-----------------------------------------------------------------------------
(* sl_lookup, once the node is found *)

LookupRead(t) ==
    /\ At(t, "read")
    /\ Return(t, val[th[t].item])
    /\ UNCHANGED <<nodes, op, cast, count, initial>>

-----------------------------------------------------------------------------
(* update_item *)

UpdateLoad(t) ==
    LET old_val == val[th[t].item] IN
    /\ At(t, "load_val")
    /\ \/ /\ old_val = DOES_NOT_EXIST
          /\ th' = [th EXCEPT ![t] = [Idle EXCEPT !.pc = "levels"]]
          /\ UNCHANGED done
       \/ /\ old_val # DOES_NOT_EXIST
          /\ op[t].expectation = CAS_EXPECT_DOES_NOT_EXIST
          /\ Return(t, old_val)
       \/ /\ old_val # DOES_NOT_EXIST
          /\ op[t].expectation # CAS_EXPECT_DOES_NOT_EXIST
          /\ Go(t, [pc |-> "cas_val", val |-> old_val])
          /\ UNCHANGED done
    /\ UNCHANGED <<nodes, op, cast, count, initial>>

UpdateCas(t) ==
    LET item == th[t].item IN
    /\ At(t, "cas_val")
    /\ \/ /\ val[item] = th[t].val
          /\ val' = [val EXCEPT ![item] = op[t].new_val]
          /\ Return(t, th[t].val)
       \/ /\ val[item] # th[t].val
          /\ Go(t, [pc |-> "load_val", val |-> DOES_NOT_EXIST])
          /\ UNCHANGED <<val, done>>
    /\ UNCHANGED <<key, num_levels, next, high_water, retired, op, cast, count, initial>>

-----------------------------------------------------------------------------
(* sl_cas, when the key has no node *)

new_item(t) == op[t].id

(* node_alloc and the compare-and-swap that makes the node part of the       *)
(* skiplist; one that loses the race is freed and was never visible.         *)
InsertBottom(t) ==
    LET new == new_item(t)
        pred == th[t].preds[0] IN
    /\ At(t, "insert")
    /\ \/ /\ next[pred][0] = Ref(th[t].succs[0])
          /\ key' = [key EXCEPT ![new] = op[t].key]
          /\ val' = [val EXCEPT ![new] = op[t].new_val]
          /\ num_levels' = [num_levels EXCEPT ![new] = th[t].n]
          /\ next' = [next EXCEPT ![new] = [l \in Levels |->
                         Ref(IF l < th[t].n THEN th[t].succs[l] ELSE Null)],
                       ![pred][0] = Ref(new)]
          /\ Go(t, [pc |-> IF th[t].n > 1 THEN "link" ELSE "check", at |-> 1])
       \/ /\ next[pred][0] # Ref(th[t].succs[0])
          /\ th' = [th EXCEPT ![t] = [Idle EXCEPT !.pc = "levels"]]
          /\ UNCHANGED <<key, val, num_levels, next>>
    /\ UNCHANGED <<high_water, retired, history>>

(* Links the node into the next level, or searches for its neighbours again. *)
InsertLink(t) ==
    LET l == th[t].at
        pred == th[t].preds[l] IN
    /\ At(t, "link")
    /\ \/ /\ next[pred][l] = Ref(th[t].succs[l])
          /\ next' = [next EXCEPT ![pred][l] = Ref(new_item(t))]
          /\ Go(t, [pc |-> IF l + 1 < th[t].n THEN "link" ELSE "check", at |-> l + 1])
       \/ /\ next[pred][l] # Ref(th[t].succs[l])
          /\ Search(t, "relink")
          /\ UNCHANGED next
    /\ UNCHANGED <<key, val, num_levels, high_water, retired, history>>

(* The loop that corrects the node's own links after a second search. *)
FixNext(t) ==
    IF th[t].level + 1 < th[t].n THEN [pc |-> "fix_load", level |-> th[t].level + 1]
    ELSE [pc |-> "link"]

FixLoad(t) ==
    LET old_next == next[new_item(t)][th[t].level] IN
    /\ At(t, "fix_load")
    /\ Go(t, IF old_next = Ref(th[t].succs[th[t].level]) THEN FixNext(t)
             ELSE [pc |-> "fix_cas", next |-> old_next])
    /\ UNCHANGED <<nodes, history>>

FixCas(t) ==
    LET l == th[t].level
        other == next[new_item(t)][l] IN
    /\ At(t, "fix_cas")
    /\ next' = IF other = th[t].next
               THEN [next EXCEPT ![new_item(t)][l] = Ref(th[t].succs[l])] ELSE next
    /\ Go(t, IF HAS_MARK(other) THEN [pc |-> "find", goal |-> "unlink", n |-> 0]
             ELSE FixNext(t))
    /\ UNCHANGED <<key, val, num_levels, high_water, retired, history>>

(* Mutant of InsertCheck: returns without looking at the node again. *)
InsertCheck_Trusting(t) ==
    /\ At(t, "check")
    /\ Return(t, DOES_NOT_EXIST)
    /\ UNCHANGED <<nodes, op, cast, count, initial>>

(* The node may have been removed while it was linked: then it is unlinked   *)
(* before the call returns.                                                  *)
InsertCheck(t) ==
    /\ At(t, "check")
    /\ \/ /\ HAS_MARK(next[new_item(t)][th[t].n - 1])
          /\ Go(t, [pc |-> "find", goal |-> "unlink", n |-> 0])
          /\ UNCHANGED done
       \/ /\ ~HAS_MARK(next[new_item(t)][th[t].n - 1])
          /\ Return(t, DOES_NOT_EXIST)
    /\ UNCHANGED <<nodes, op, cast, count, initial>>

-----------------------------------------------------------------------------
(* sl_remove, once the node is found: victim is the node, at the level. *)

RemoveLoad(t) ==
    /\ At(t, "mark_load")
    /\ Go(t, [pc |-> "mark", next |-> next[th[t].victim][th[t].at]])
    /\ UNCHANGED <<nodes, history>>

(* "Marking the bottom level establishes which of them succeeds": a level    *)
(* that is already marked is left alone, the bottom level ends the call.     *)
RemoveMark(t) ==
    LET l == th[t].at
        link == next[th[t].victim][l]
        Down == IF l = 0 THEN [pc |-> "swap"] ELSE [pc |-> "mark_load", at |-> l - 1] IN
    /\ At(t, "mark")
    /\ \/ /\ HAS_MARK(link)
          /\ Go(t, IF l = 0 THEN [pc |-> "return"] ELSE Down)
          /\ UNCHANGED next
       \/ /\ ~HAS_MARK(link) /\ link = th[t].next
          /\ next' = [next EXCEPT ![th[t].victim][l] = MARK_NODE(GET_NODE(link))]
          /\ Go(t, Down)
       \/ /\ ~HAS_MARK(link) /\ link # th[t].next
          /\ Go(t, [next |-> link])
          /\ UNCHANGED next
    /\ UNCHANGED <<key, val, num_levels, high_water, retired, history>>

(* Mutant of RemoveSwap: the value is read and stays. *)
RemoveSwap_ReadOnly(t) ==
    /\ At(t, "swap")
    /\ Go(t, [pc |-> "find", goal |-> "unlink", n |-> 0, val |-> val[th[t].victim]])
    /\ UNCHANGED <<nodes, history>>

(* From here on no update of the node succeeds. *)
RemoveSwap(t) ==
    /\ At(t, "swap")
    /\ val' = [val EXCEPT ![th[t].victim] = DOES_NOT_EXIST]
    /\ Go(t, [pc |-> "find", goal |-> "unlink", n |-> 0, val |-> val[th[t].victim]])
    /\ UNCHANGED <<key, num_levels, next, high_water, retired, history>>

RemoveRetire(t) ==
    /\ At(t, "retire")
    /\ retired' = [retired EXCEPT ![th[t].victim] = @ + 1]
    /\ Return(t, th[t].val)
    /\ UNCHANGED <<key, val, num_levels, next, high_water, op, cast, count, initial>>

-----------------------------------------------------------------------------
(* A client's walk: sl_iter_next until it returns DOES_NOT_EXIST.  item is    *)
(* the iterator's next on the way in.                                         *)

IterEnd(t) == th' = [th EXCEPT ![t] = Idle]

(* Mutant of IterItem: starts over when its node has been removed. *)
IterItem_Restart(t) ==
    LET item == th[t].item IN
    /\ At(t, "iter_item")
    /\ IF item = Null THEN IterEnd(t)
       ELSE IF HAS_MARK(next[item][0]) THEN Go(t, [item |-> GET_NODE(next[Head][0])])
       ELSE Go(t, [pc |-> "iter_next"])
    /\ UNCHANGED <<nodes, history>>

(* Passes over a marked node; its lowest link does not change any more, so   *)
(* testing and following it is one step.                                     *)
IterItem(t) ==
    LET item == th[t].item IN
    /\ At(t, "iter_item")
    /\ \/ item = Null /\ IterEnd(t)
       \/ item # Null /\ HAS_MARK(next[item][0])
          /\ Go(t, [item |-> STRIP_MARK(next[item][0])])
       \/ item # Null /\ ~HAS_MARK(next[item][0])
          /\ Go(t, [pc |-> "iter_next"])
    /\ UNCHANGED <<nodes, history>>

(* The iterator moves on before the value is read. *)
IterNext(t) ==
    /\ At(t, "iter_next")
    /\ Go(t, [pc |-> "iter_val", next |-> Ref(STRIP_MARK(next[th[t].item][0]))])
    /\ UNCHANGED <<nodes, history>>

IterVal(t) ==
    /\ At(t, "iter_val")
    /\ IF val[th[t].item] = DOES_NOT_EXIST THEN IterEnd(t)
       ELSE Go(t, [pc |-> "iter_item", item |-> GET_NODE(th[t].next),
                   last |-> key[th[t].item]])
    /\ UNCHANGED <<nodes, history>>

-----------------------------------------------------------------------------
Step(t) ==
    \/ RandomLevels(t) \/ RaiseHighWater(t)
    \/ Find(t) \/ FindLevel(t) \/ FindItem(t) \/ FindUnlink(t) \/ ReturnNothing(t)
    \/ LookupRead(t) \/ UpdateLoad(t) \/ UpdateCas(t)
    \/ InsertBottom(t) \/ InsertLink(t) \/ FixLoad(t) \/ FixCas(t) \/ InsertCheck(t)
    \/ RemoveLoad(t) \/ RemoveMark(t) \/ RemoveSwap(t) \/ RemoveRetire(t)
    \/ IterItem(t) \/ IterNext(t) \/ IterVal(t)

Next ==
    \E t \in Threads :
        Step(t) \/ CallGet(t) \/ CallCas(t) \/ CallRemove(t) \/ CallIterate(t)

Spec == Init /\ [][Next]_vars

-----------------------------------------------------------------------------
(* Properties *)

Links == (Nodes \cup {Null}) \X BOOLEAN

(* Every variable has its type; the high water mark stays within the head's  *)
(* levels and no step is about to go through NULL.                           *)
TypeOK ==
    /\ key \in [Nodes -> 0..NumKeys]
    /\ val \in [Nodes -> Threads \cup {Initial, DOES_NOT_EXIST}]
    /\ num_levels \in [Nodes -> 1..MAX_LEVELS]
    /\ next \in [Nodes \cup {Head} -> [Levels -> Links]]
    /\ high_water \in 1..MAX_LEVELS
    /\ retired \in [Nodes -> Nat]
    /\ \A t \in Threads :
         /\ th[t].pred # Null
         /\ th[t].pc \in {"find_item", "find_unlink", "read", "load_val", "cas_val"}
              => th[t].item # Null

(* The nodes a walk along one level meets in at most d links. *)
Reached[l \in Levels, d \in Nat] ==
    IF d = 0 THEN {Head}
    ELSE LET near == Reached[l, d - 1]
         IN  near \cup ({GET_NODE(next[n][l]) : n \in near} \ {Null})

Reachable(l) == Reached[l, Cardinality(Nodes)]

Quiet == \A t \in Threads : At(t, "idle")

(* Every level is sorted and holds a key once, but for nodes that are marked *)
(* there: a node may be inserted in front of the one it replaces, which its  *)
(* remover has not unlinked yet (skiplist.c:183-195, 337).  The high water   *)
(* mark stays within the levels and every local refers to what it may.       *)
Sorted ==
    /\ TypeOK
    /\ \A l \in Levels : \A n \in Reachable(l) \ {Head} :
         LET succ == GET_NODE(next[n][l]) IN
         succ # Null => \/ key[n] < key[succ]
                        \/ key[n] = key[succ] /\ HAS_MARK(next[succ][l])

(* A node goes to rcu_defer_free exactly once: when no call is in progress,  *)
(* every node is in the skiplist on all its levels, unmarked, or was retired *)
(* once and is on none (skiplist.c:365-371, 409-416).                        *)
QuietClean ==
    \A n \in Nodes : key[n] # 0 =>
        /\ retired[n] <= 1
        /\ Quiet => \A l \in 0..(num_levels[n] - 1) :
             (n \in Reachable(l)) = (retired[n] = 0) /\ (HAS_MARK(next[n][l]) => retired[n] = 1)

(* A walk returns keys in ascending order and none twice, though the node it  *)
(* stands on may be removed, unlinked and replaced by another with its key    *)
(* before it goes on (skiplist.c:481-496).                                    *)
WalkAscends ==
    \A t \in Threads : At(t, "iter_val") => th[t].last < key[th[t].item]

(* "once a thread thinks it completely unlinks a node it queues it to be     *)
(* freed", so "we have to make sure it is completely unlinked"               *)
(* (skiplist.c:366-368): a node that went to rcu_defer_free cannot be found  *)
(* any more, at any level.  rcu.c's grace period rests on it.                *)
RetiredIsGone ==
    \A n \in Nodes : retired[n] > 0 => \A l \in Levels : n \notin Reachable(l)
=============================================================================
