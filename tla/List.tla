-------------------------------- MODULE List --------------------------------
(***************************************************************************)
(* The lock-free sorted list of src/map/list.c, built without              *)
(* LIST_USE_HAZARD_POINTER.  Every load, compare-and-swap or swap of a     *)
(* shared word is a step of its own.  Node memory is not reused while a    *)
(* thread may refer to it: that is rcu.c's promise (module Rcu), so a node *)
(* handed to rcu_defer_free only joins the set of retired nodes.           *)
(***************************************************************************)
EXTENDS Naturals, MapOps, Records

CONSTANTS Threads,
          NumKeys,          \* keys are 1..NumKeys
          Initial,          \* value the keys have at the start, where present
          Expectations,     \* expectations callers pass to ll_cas
          Kinds,            \* kinds of operations callers use
          MaxOps,           \* bound: operations per thread
          Head, Null

Keys == 1..NumKeys

(* A node is named by who allocated it; a new value is its thread's name. *)
InitialNode(k) == <<"initial", k>>
Nodes == {InitialNode(k) : k \in Keys} \cup (Threads \X (1..MaxOps))

(* The names differ; map.h keeps 0, DOES_NOT_EXIST, from being a value. *)
ASSUME ListAssumption ==
    /\ NumKeys \in Nat /\ MaxOps \in Nat
    /\ "initial" \notin Threads
    /\ Head # Null /\ Nodes \cap {Head, Null} = {}
    /\ DOES_NOT_EXIST \notin Threads \cup {Initial}

VARIABLES key, val, next,  \* fields of every node; next is <<node, marked>>
          retired,         \* how often each node went to rcu_defer_free
          pc, pred, item, lnext, lval,  \* locals of each thread
          op,              \* the operation each thread is in or did last
          count,           \* operations each thread has called
          last,            \* the key that each thread's walk returned last, or 0
          done,            \* history: finished operations
          initial          \* history: the map at the start

nodes == <<key, val, next, retired>>
locals == <<pred, item, lnext, lval>>
history == <<op, count, done, initial>>
vars == <<nodes, pc, locals, last, history>>

Ref(n) == <<n, FALSE>>
GET_NODE(link) == link[1]
HAS_MARK(link) == link[2]
MARK_NODE(n) == <<n, TRUE>>

NoOp == [kind |-> "none"]

(* ll_alloc, and a list that holds any subset of the keys. *)
Init ==
    /\ initial \in [Keys -> {Initial, DOES_NOT_EXIST}]
    /\ LET Present == {k \in Keys : initial[k] # DOES_NOT_EXIST}
           After(k) == {j \in Present : j > k}
           Link(k) == Ref(IF After(k) = {} THEN Null
                          ELSE InitialNode(CHOOSE j \in After(k) :
                                             \A m \in After(k) : j <= m))
       IN  next = [n \in Nodes \cup {Head} |->
                     IF n = Head THEN Link(0)
                     ELSE IF n[1] = "initial" THEN Link(n[2]) ELSE Ref(Null)]
    /\ key = [n \in Nodes |-> IF n[1] = "initial" THEN n[2] ELSE 0]
    /\ val = [n \in Nodes |-> IF n[1] = "initial" THEN Initial ELSE DOES_NOT_EXIST]
    /\ retired = [n \in Nodes |-> 0]
    /\ pc = [t \in Threads |-> "idle"]
    /\ pred = [t \in Threads |-> Null]
    /\ item = [t \in Threads |-> Null]
    /\ lnext = [t \in Threads |-> Ref(Null)]
    /\ lval = [t \in Threads |-> DOES_NOT_EXIST]
    /\ op = [t \in Threads |-> NoOp]
    /\ count = [t \in Threads |-> 0]
    /\ last = [t \in Threads |-> 0]
    /\ done = {}

-----------------------------------------------------------------------------
(* Calls and returns *)

Call(t, o) ==
    /\ pc[t] = "idle" /\ count[t] < MaxOps
    /\ count' = [count EXCEPT ![t] = @ + 1]
    /\ op' = [op EXCEPT ![t] =
                With(o, [id |-> <<t, count[t] + 1>>, after |-> {d.id : d \in done}])]
    /\ UNCHANGED <<nodes, item, lnext, lval, done, initial>>

CallMap(t) ==
    /\ \E k \in Keys :
         \/ \E kind \in Kinds \cap {"get", "remove"} : Call(t, [kind |-> kind, key |-> k])
         \/ /\ "cas" \in Kinds
            /\ \E e \in Expectations :
                 Call(t, [kind |-> "cas", key |-> k, expectation |-> e, new_val |-> t])
    /\ pc' = [pc EXCEPT ![t] = "find"]
    /\ UNCHANGED <<pred, last>>

Return(t, ret) ==
    /\ pc' = [pc EXCEPT ![t] = "idle"]
    /\ done' = done \cup {With(op[t], [ret |-> ret])}

-----------------------------------------------------------------------------
(* find_pred.  ll_cas and ll_remove help unlink removed nodes, ll_lookup and   *)
(* ll_iter_begin do not.                                                      *)

help_remove(t) == op[t].kind \in {"cas", "remove"}

(* Where the caller goes on with the answer of find_pred. *)
Found(t) ==
    /\ pc' = [pc EXCEPT ![t] = CASE op[t].kind = "get" -> "read"
                                 [] op[t].kind = "cas" -> "load_val"
                                 [] op[t].kind = "remove" -> "load_link"
                                 [] op[t].kind = "iterate" -> "iter_next"]
    /\ UNCHANGED done

(* To ll_iter_begin it is the same. *)
NotFound(t) ==
    IF op[t].kind = "iterate" THEN Found(t)
    ELSE IF op[t].kind = "cas" /\ op[t].expectation \in
                                    {CAS_EXPECT_DOES_NOT_EXIST, CAS_EXPECT_WHATEVER}
    THEN pc' = [pc EXCEPT ![t] = "insert"] /\ UNCHANGED done
    ELSE Return(t, DOES_NOT_EXIST)

(* At the end of the list find_pred stores NULL through item_ptr without a   *)
(* test, and the item_ptr of ll_iter_begin is NULL: the program stops there. *)
EndOfList(t) ==
    IF op[t].kind = "iterate" THEN pc' = [pc EXCEPT ![t] = "crashed"] /\ UNCHANGED done
    ELSE NotFound(t)

(* find_pred moves to node n: the end of the list ends the search. *)
MoveTo(t, n) ==
    /\ item' = [item EXCEPT ![t] = n]
    /\ IF n = Null
       THEN EndOfList(t)
       ELSE pc' = [pc EXCEPT ![t] = "load_next"] /\ UNCHANGED done

Find(t) ==
    /\ pc[t] = "find"
    /\ pred' = [pred EXCEPT ![t] = Head]
    /\ MoveTo(t, GET_NODE(next[Head]))
    /\ UNCHANGED <<nodes, lnext, lval, op, count, last, initial>>

(* Loads item->next and compares the keys. *)
FindLoadNext(t) ==
    LET link == next[item[t]] IN
    /\ pc[t] = "load_next"
    /\ lnext' = [lnext EXCEPT ![t] = link]
    /\ \/ /\ HAS_MARK(link)
          /\ pc' = [pc EXCEPT ![t] = IF help_remove(t) THEN "unlink" ELSE "skip"]
          /\ UNCHANGED <<pred, item, done>>
       \/ /\ ~HAS_MARK(link) /\ key[item[t]] > op[t].key
          /\ NotFound(t)
          /\ UNCHANGED <<pred, item>>
       \/ /\ ~HAS_MARK(link) /\ key[item[t]] = op[t].key
          /\ Found(t)
          /\ UNCHANGED <<pred, item>>
       \/ /\ ~HAS_MARK(link) /\ key[item[t]] < op[t].key
          /\ pred' = [pred EXCEPT ![t] = item[t]]
          /\ MoveTo(t, GET_NODE(link))
    /\ UNCHANGED <<nodes, lval, op, count, last, initial>>

FindSkip(t) ==
    /\ pc[t] = "skip"
    /\ MoveTo(t, GET_NODE(next[item[t]]))
    /\ UNCHANGED <<nodes, pred, lnext, lval, op, count, last, initial>>

(* The compare-and-swap that takes a node out of the list, and the            *)
(* rcu_defer_free of the thread that wins it.                                 *)
Unlink(t, succ) ==
    /\ next[pred[t]] = Ref(item[t])
    /\ next' = [next EXCEPT ![pred[t]] = Ref(succ)]
    /\ retired' = [retired EXCEPT ![item[t]] = @ + 1]

FindUnlink(t) ==
    /\ pc[t] = "unlink"
    /\ \/ /\ Unlink(t, GET_NODE(lnext[t]))
          /\ MoveTo(t, GET_NODE(lnext[t]))
       \/ /\ next[pred[t]] # Ref(item[t])
          /\ IF HAS_MARK(next[pred[t]])
             THEN pc' = [pc EXCEPT ![t] = "find"] /\ UNCHANGED <<item, done>>
             ELSE MoveTo(t, GET_NODE(next[pred[t]]))
          /\ UNCHANGED <<next, retired>>
    /\ UNCHANGED <<key, val, pred, lnext, lval, op, count, last, initial>>

-----------------------------------------------------------------------------
(* ll_lookup, once the node is found *)

LookupRead(t) ==
    /\ pc[t] = "read"
    /\ Return(t, val[item[t]])
    /\ UNCHANGED <<nodes, locals, op, count, last, initial>>

-----------------------------------------------------------------------------
(* ll_cas *)

(* Mutant of CasInsert: links in before whatever follows pred by now. *)
CasInsert_Unchecked(t) ==
    LET new_item == op[t].id IN
    /\ pc[t] = "insert"
    /\ ~HAS_MARK(next[pred[t]])
    /\ key' = [key EXCEPT ![new_item] = op[t].key]
    /\ val' = [val EXCEPT ![new_item] = op[t].new_val]
    /\ next' = [next EXCEPT ![new_item] = next[pred[t]], ![pred[t]] = Ref(new_item)]
    /\ Return(t, DOES_NOT_EXIST)
    /\ UNCHANGED <<retired, locals, op, count, last, initial>>

(* node_alloc and the compare-and-swap that links the node in; a node that    *)
(* loses the race is freed at once and was never visible.                     *)
CasInsert(t) ==
    LET new_item == op[t].id IN
    /\ pc[t] = "insert"
    /\ \/ /\ next[pred[t]] = Ref(item[t])
          /\ key' = [key EXCEPT ![new_item] = op[t].key]
          /\ val' = [val EXCEPT ![new_item] = op[t].new_val]
          /\ next' = [next EXCEPT ![new_item] = Ref(item[t]), ![pred[t]] = Ref(new_item)]
          /\ Return(t, DOES_NOT_EXIST)
       \/ /\ next[pred[t]] # Ref(item[t])
          /\ pc' = [pc EXCEPT ![t] = "find"]
          /\ UNCHANGED <<key, val, next, done>>
    /\ UNCHANGED <<retired, locals, op, count, last, initial>>

(* The inner loop of ll_cas with the value it has just seen. *)
CasDecide(t, old_item_val) ==
    /\ lval' = [lval EXCEPT ![t] = old_item_val]
    /\ \/ /\ old_item_val = DOES_NOT_EXIST
          /\ pc' = [pc EXCEPT ![t] = "find"]
          /\ UNCHANGED done
       \/ /\ old_item_val # DOES_NOT_EXIST
          /\ op[t].expectation = CAS_EXPECT_DOES_NOT_EXIST
          /\ Return(t, old_item_val)
       \/ /\ old_item_val # DOES_NOT_EXIST
          /\ op[t].expectation # CAS_EXPECT_DOES_NOT_EXIST
          /\ pc' = [pc EXCEPT ![t] = "cas_val"]
          /\ UNCHANGED done

CasLoadVal(t) ==
    /\ pc[t] = "load_val"
    /\ CasDecide(t, val[item[t]])
    /\ UNCHANGED <<nodes, pred, item, lnext, op, count, last, initial>>

(* Mutant of CasVal: "a CAS and not a SWAP" ignored. *)
CasVal_Swap(t) ==
    /\ pc[t] = "cas_val"
    /\ val' = [val EXCEPT ![item[t]] = op[t].new_val]
    /\ Return(t, val[item[t]])
    /\ UNCHANGED <<key, next, retired, locals, op, count, last, initial>>

CasVal(t) ==
    /\ pc[t] = "cas_val"
    /\ \/ /\ val[item[t]] = lval[t]
          /\ val' = [val EXCEPT ![item[t]] = op[t].new_val]
          /\ Return(t, lval[t])
          /\ UNCHANGED lval
       \/ /\ val[item[t]] # lval[t]
          /\ CasDecide(t, val[item[t]])
          /\ UNCHANGED val
    /\ UNCHANGED <<key, next, retired, pred, item, lnext, op, count, last, initial>>

-----------------------------------------------------------------------------
(* ll_remove *)

RemoveLoadLink(t) ==
    /\ pc[t] = "load_link"
    /\ lnext' = [lnext EXCEPT ![t] = next[item[t]]]
    /\ pc' = [pc EXCEPT ![t] = "mark"]
    /\ UNCHANGED <<nodes, pred, item, lval, last, history>>

RemoveMark(t) ==
    LET link == next[item[t]] IN
    /\ pc[t] = "mark"
    /\ \/ /\ HAS_MARK(link)
          /\ Return(t, DOES_NOT_EXIST)
          /\ UNCHANGED <<next, lnext>>
       \/ /\ ~HAS_MARK(link) /\ link = lnext[t]
          /\ next' = [next EXCEPT ![item[t]] = MARK_NODE(GET_NODE(link))]
          /\ pc' = [pc EXCEPT ![t] = "swap"]
          /\ UNCHANGED <<lnext, done>>
       \/ /\ ~HAS_MARK(link) /\ link # lnext[t]
          /\ lnext' = [lnext EXCEPT ![t] = link]
          /\ UNCHANGED <<next, pc, done>>
    /\ UNCHANGED <<key, val, retired, pred, item, lval, op, count, last, initial>>

(* Mutant of RemoveSwap: reads the value and leaves it there. *)
RemoveSwap_Read(t) ==
    /\ pc[t] = "swap"
    /\ lval' = [lval EXCEPT ![t] = val[item[t]]]
    /\ pc' = [pc EXCEPT ![t] = "remove_unlink"]
    /\ UNCHANGED <<nodes, pred, item, lnext, last, history>>

RemoveSwap(t) ==
    /\ pc[t] = "swap"
    /\ lval' = [lval EXCEPT ![t] = val[item[t]]]
    /\ val' = [val EXCEPT ![item[t]] = DOES_NOT_EXIST]
    /\ pc' = [pc EXCEPT ![t] = "remove_unlink"]
    /\ UNCHANGED <<key, next, retired, pred, item, lnext, last, history>>

(* Mutant of RemoveUnlink: frees the node though another thread unlinked it. *)
RemoveUnlink_Always(t) ==
    /\ pc[t] = "remove_unlink"
    /\ retired' = [retired EXCEPT ![item[t]] = @ + 1]
    /\ next' = IF next[pred[t]] = Ref(item[t])
               THEN [next EXCEPT ![pred[t]] = Ref(GET_NODE(lnext[t]))] ELSE next
    /\ Return(t, lval[t])
    /\ UNCHANGED <<key, val, locals, op, count, last, initial>>

RemoveUnlink(t) ==
    /\ pc[t] = "remove_unlink"
    /\ \/ Unlink(t, GET_NODE(lnext[t]))
       \/ next[pred[t]] # Ref(item[t]) /\ UNCHANGED <<next, retired>>
    /\ Return(t, lval[t])
    /\ UNCHANGED <<key, val, locals, op, count, last, initial>>

-----------------------------------------------------------------------------
(* A client's walk: ll_iter_begin, then ll_iter_next until it returns         *)
(* DOES_NOT_EXIST.  With a key, the walk begins where find_pred stops.        *)

IterBegin(t) ==
    /\ "iterate" \in Kinds
    /\ Call(t, [kind |-> "iterate"])
    /\ pred' = [pred EXCEPT ![t] = Head]
    /\ last' = [last EXCEPT ![t] = 0]
    /\ pc' = [pc EXCEPT ![t] = "iter_next"]

IterBeginAt(t) ==
    /\ "iterate" \in Kinds
    /\ \E k \in Keys : Call(t, [kind |-> "iterate", key |-> k])
    /\ last' = [last EXCEPT ![t] = 0]
    /\ pc' = [pc EXCEPT ![t] = "find"]
    /\ UNCHANGED pred

IterEnd(t) == pc' = [pc EXCEPT ![t] = "idle"]

(* Mutant of IterNext: starts over when its node has been removed. *)
IterNext_Restart(t) ==
    LET link == next[pred[t]] IN
    /\ pc[t] = "iter_next"
    /\ pred' = [pred EXCEPT ![t] = IF HAS_MARK(link) THEN Head ELSE GET_NODE(link)]
    /\ \/ HAS_MARK(link) /\ UNCHANGED pc
       \/ ~HAS_MARK(link) /\ GET_NODE(link) = Null /\ IterEnd(t)
       \/ ~HAS_MARK(link) /\ GET_NODE(link) # Null
          /\ pc' = [pc EXCEPT ![t] = "iter_val"]
    /\ UNCHANGED <<nodes, item, lnext, lval, last, history>>

IterNext(t) ==
    LET link == next[pred[t]] IN
    /\ pc[t] = "iter_next"
    /\ pred' = [pred EXCEPT ![t] = GET_NODE(link)]
    /\ \/ GET_NODE(link) = Null /\ IterEnd(t)
       \/ GET_NODE(link) # Null /\ HAS_MARK(link) /\ UNCHANGED pc
       \/ GET_NODE(link) # Null /\ ~HAS_MARK(link)
          /\ pc' = [pc EXCEPT ![t] = "iter_val"]
    /\ UNCHANGED <<nodes, item, lnext, lval, last, history>>

IterVal(t) ==
    /\ pc[t] = "iter_val"
    /\ \/ /\ val[pred[t]] = DOES_NOT_EXIST
          /\ IterEnd(t)
          /\ UNCHANGED last
       \/ /\ val[pred[t]] # DOES_NOT_EXIST
          /\ last' = [last EXCEPT ![t] = key[pred[t]]]
          /\ pc' = [pc EXCEPT ![t] = "iter_next"]
    /\ UNCHANGED <<nodes, locals, history>>

-----------------------------------------------------------------------------
Step(t) ==
    \/ Find(t) \/ FindLoadNext(t) \/ FindSkip(t) \/ FindUnlink(t)
    \/ LookupRead(t)
    \/ CasInsert(t) \/ CasLoadVal(t) \/ CasVal(t)
    \/ RemoveLoadLink(t) \/ RemoveMark(t) \/ RemoveSwap(t) \/ RemoveUnlink(t)
    \/ IterNext(t) \/ IterVal(t)

Next == \E t \in Threads : Step(t) \/ CallMap(t) \/ IterBegin(t) \/ IterBeginAt(t)

Spec == Init /\ [][Next]_vars

-----------------------------------------------------------------------------
(* Properties *)

Links == ((Nodes \cup {Null}) \X BOOLEAN)

(* Every variable has its type, and no step but that of EndOfList is about   *)
(* to go through NULL.                                                       *)
TypeOK ==
    /\ key \in [Nodes -> 0..NumKeys]
    /\ val \in [Nodes -> Threads \cup {Initial, DOES_NOT_EXIST}]
    /\ next \in [Nodes \cup {Head} -> Links]
    /\ retired \in [Nodes -> Nat]
    /\ pc \in [Threads -> {"idle", "find", "load_next", "skip", "unlink", "read",
                            "insert", "load_val", "cas_val", "load_link", "mark",
                            "swap", "remove_unlink", "iter_next", "iter_val", "crashed"}]
    /\ pred \in [Threads -> Nodes \cup {Head, Null}]
    /\ item \in [Threads -> Nodes \cup {Null}]
    /\ lnext \in [Threads -> Links]
    /\ lval \in [Threads -> Threads \cup {Initial, DOES_NOT_EXIST}]
    /\ count \in [Threads -> 0..MaxOps]
    /\ last \in [Threads -> 0..NumKeys]
    /\ \A t \in Threads :
         /\ pc[t] \notin {"idle", "find", "insert", "iter_next", "iter_val", "crashed"}
              => item[t] # Null
         /\ pc[t] \in {"iter_next", "iter_val"} => pred[t] # Null

Marked(n) == HAS_MARK(next[n])

(* The nodes a walk from the head can meet: those in every set that holds the *)
(* head and what its members link to.                                         *)
Closed == {S \in SUBSET (Nodes \cup {Head}) :
             Head \in S /\ \A n \in S : GET_NODE(next[n]) \in S \cup {Null}}

Reachable == LET sets == Closed IN {n \in Nodes \cup {Head} : \A S \in sets : n \in S}

Inserted == {n \in Nodes : key[n] # 0 /\
               (n[1] = "initial" => initial[n[2]] # DOES_NOT_EXIST)}

(* Links lead to larger keys, from nodes that are still in the list and from  *)
(* nodes that were taken out while a search stands on them; so a key is in    *)
(* the list at most once, no search loops, and every local refers to what it  *)
(* may (list.c:161-175).                                                      *)
Sorted ==
    /\ TypeOK
    /\ \A n \in Inserted :
         GET_NODE(next[n]) # Null => key[n] < key[GET_NODE(next[n])]

(* "The thread that completes the unlink should free the memory" (list.c:128, *)
(* 318): a node goes to rcu_defer_free once, in the step that takes it out of *)
(* the list.  None is freed that a walk from the head can still meet, none    *)
(* twice, and none that left the list is forgotten.                           *)
RetiredWhenGone ==
    LET reachable == Reachable
    IN  \A n \in Inserted : retired[n] = IF n \in reachable THEN 0 ELSE 1

(* "If the node is in the process of being removed ... we could replace       *)
(* DOES_NOT_EXIST with our value" (list.c:263): a node whose value was taken  *)
(* by ll_remove is marked, and neither its mark nor its value ever comes back.*)
RemovedStaysRemoved ==
    [][\A n \in Inserted :
         /\ Marked(n) => next'[n] = next[n]
         /\ val[n] = DOES_NOT_EXIST => Marked(n) /\ val'[n] = DOES_NOT_EXIST]_vars

(* A walk returns keys in ascending order, none twice: each key it returns is *)
(* larger than the one before, though nodes are taken out and put in, also    *)
(* the node it stands on (list.c:366-394).  A walk that begins at a key does. *)
WalkAscends ==
    [][\A t \in Threads :
         pc[t] = "iter_val" /\ pc'[t] = "iter_next" => last[t] < last'[t]]_vars

=============================================================================
