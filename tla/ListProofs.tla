----------------------------- MODULE ListProofs -----------------------------
(***************************************************************************)
(* The list for any number of threads, keys and operations.  The inductive *)
(* invariant says of the nodes that links lead to larger keys, that a node *)
(* with a mark is frozen and that what has no mark is reachable along a    *)
(* path without side entrances; of the threads, what each knows of the two *)
(* nodes it stands on, whatever the others do meanwhile.                   *)
(***************************************************************************)
EXTENDS List, WellFoundedInduction, TLAPS

(* In a call of ll_lookup, ll_cas or ll_remove, or in the search with which  *)
(* ll_iter_begin begins at a key; past the search's start.                   *)
Working(t) == pc[t] \notin {"idle", "iter_next", "iter_val", "crashed"}
Standing(t) == pc[t] \notin {"idle", "find", "iter_next", "iter_val", "crashed"}

Chain == Inserted \cup {Head}
Before(n, k) == n = Head \/ key[n] < k

(* The call a thread is in, and the node it may still insert for it. *)
CallOK(t) ==
    /\ Working(t) => /\ op[t].kind \in {"get", "cas", "remove", "iterate"} /\ op[t].key \in Keys
                     /\ op[t].kind = "iterate" => last[t] = 0
                     /\ op[t].id = <<t, count[t]>> /\ count[t] > 0
                     /\ op[t].kind = "cas" => op[t].new_val = t
    /\ pc[t] \in {"insert", "load_val", "cas_val"} => op[t].kind = "cas"
    /\ \A i \in 1..MaxOps :
         i > count[t] \/ (i = count[t] /\ Working(t)) => key[<<t, i>>] = 0

(* Links lead on, head is never marked, and a removed value was marked first. *)
Shape ==
    /\ \A n \in Chain : /\ GET_NODE(next[n]) \in Inserted \cup {Null}
                        /\ GET_NODE(next[n]) # Null => Before(n, key[GET_NODE(next[n])])
    /\ ~Marked(Head)
    /\ \A n \in Inserted : val[n] = DOES_NOT_EXIST => Marked(n)

(* What find_pred's answer is worth to the caller. *)
AnswerOK(t) ==
    /\ Standing(t) => /\ pred[t] \in Chain /\ Before(pred[t], op[t].key)
                      /\ item[t] \in Inserted \cup {Null}
                      /\ item[t] # Null => Before(pred[t], key[item[t]])
    /\ pc[t] = "insert" /\ item[t] # Null => key[item[t]] > op[t].key
    /\ pc[t] = "unlink" => next[item[t]] = lnext[t] /\ HAS_MARK(lnext[t])
    /\ pc[t] \in {"swap", "remove_unlink"} => next[item[t]] = MARK_NODE(GET_NODE(lnext[t]))
    /\ pc[t] = "cas_val" => lval[t] # DOES_NOT_EXIST

(* Where a walk is. *)
WalkOK(t) ==
    /\ pc[t] = "iter_next" => /\ pred[t] \in Chain
                              /\ last[t] = 0 \/ (pred[t] # Head /\ last[t] <= key[pred[t]])
    /\ pc[t] = "iter_val" => pred[t] \in Inserted /\ last[t] < key[pred[t]]

(* The list from head on. *)
Path ==
    /\ \A n \in Chain : ~Marked(n) => n \in Reachable
    /\ \A m, n \in Reachable : GET_NODE(next[m]) = GET_NODE(next[n])
                               /\ GET_NODE(next[m]) # Null => m = n
    /\ \A n \in Nodes : retired[n] = IF n \in Inserted \ Reachable THEN 1 ELSE 0

IInv ==
    /\ TypeOK /\ DOMAIN op = Threads
    /\ initial \in [Keys -> {Initial, DOES_NOT_EXIST}]
    /\ Shape /\ Path
    /\ \A t \in Threads : CallOK(t) /\ AnswerOK(t) /\ WalkOK(t)

-----------------------------------------------------------------------------
(* What a step leaves alone *)

(* No step takes an inserted node back, changes its key or a link that has a *)
(* mark.                                                                     *)
Grow ==
    /\ initial' = initial
    /\ \A n \in Inserted : /\ n \in Inserted' /\ key'[n] = key[n]
                           /\ Marked(n) => next'[n] = next[n]

(* What belongs to a thread, and what a step of t may change of it. *)
Mine(u) == <<pc[u], pred[u], item[u], lnext[u], lval[u], op[u], count[u], last[u],
             [i \in 1..MaxOps |-> key[<<u, i>>]]>>

Alone(t) == \A u \in Threads \ {t} : Mine(u)' = Mine(u)

(* A guarded choice takes the guard that holds.  Used by every step below: an  *)
(* obligation with a CASE in it goes to the SMT solver without type inference, *)
(* whose tables grow with every obligation of a module.                        *)
LEMMA Untyped == (CASE TRUE -> 1 [] OTHER -> 0) = 1
  OBVIOUS

USE Untyped

(* Inserted nodes are nodes, and Head and Null are not. *)
LEMMA Names ==
    /\ Head # Null /\ Head \notin Nodes /\ Null \notin Nodes
    /\ Inserted \subseteq Nodes
    /\ \A t \in Threads, i \in 1..MaxOps : <<t, i>> \in Nodes
  BY ListAssumption DEF Inserted, Nodes

(* Every set of naturals that is not empty has a least member. *)
LEMMA Least ==
    ASSUME NEW S, S \subseteq Nat, S # {}
    PROVE  \E x \in S : \A y \in S : x <= y
<1> DEFINE R == OpToRel(<, Nat)
<1>1. IsWellFoundedOn(R, Nat)
  BY NatLessThanWellFounded, Zenon
<1>2. \A x, y \in Nat : x < y => <<x, y>> \in R
  BY DEF OpToRel
<1> HIDE DEF R
<1>3. PICK x \in S : \A y \in S : <<y, x>> \notin R
  BY <1>1, WFMin
<1>4. \A y \in S : ~(y < x)
  BY <1>2, <1>3, Zenon
<1> QED
  BY <1>4

(* What the macros make of a node is what they read from it. *)
LEMMA LinkParts ==
    ASSUME NEW n
    PROVE  /\ GET_NODE(MARK_NODE(n)) = n /\ HAS_MARK(MARK_NODE(n)) = TRUE
           /\ GET_NODE(Ref(n)) = n /\ HAS_MARK(Ref(n)) = FALSE
  BY DEF GET_NODE, HAS_MARK, MARK_NODE, Ref

(* A link is a node, or Null, with or without a mark. *)
LEMMA LinkShape ==
    ASSUME NEW l \in Links
    PROVE  /\ GET_NODE(l) \in Nodes \cup {Null} /\ HAS_MARK(l) \in BOOLEAN
           /\ HAS_MARK(l) => l = MARK_NODE(GET_NODE(l))
           /\ ~HAS_MARK(l) => l = Ref(GET_NODE(l))
<1>1. PICK n \in Nodes \cup {Null}, b \in BOOLEAN : l = <<n, b>>
  BY DEF Links
<1>2. CASE b = TRUE
  BY <1>1, <1>2 DEF GET_NODE, HAS_MARK, MARK_NODE, Ref
<1>3. CASE b = FALSE
  BY <1>1, <1>3, Zenon DEF GET_NODE, HAS_MARK, MARK_NODE, Ref
<1> QED
  BY <1>2, <1>3, Zenon

(* A step that changes no node keeps what the nodes are. *)
LEMMA QuietNodes ==
    ASSUME Shape, Path, UNCHANGED <<nodes, initial>>
    PROVE  Shape' /\ Path' /\ Grow
<1>1. Inserted' = Inserted /\ Closed' = Closed
  BY DEF Inserted, Closed, nodes
<1>2. Reachable' = Reachable
  BY <1>1 DEF Reachable
<1> QED
  BY <1>1, <1>2 DEF Shape, Path, Grow, Chain, Before, Marked, nodes

(* A thread that does not move keeps what it knows. *)
LEMMA OthersKeep ==
    ASSUME NEW t \in Threads, NEW u \in Threads \ {t}, TypeOK,
           CallOK(u), AnswerOK(u), WalkOK(u), Grow, Alone(t)
    PROVE  CallOK(u)' /\ AnswerOK(u)' /\ WalkOK(u)'
<1>1. Mine(u)' = Mine(u)
  BY DEF Alone
<1>2. /\ pc'[u] = pc[u] /\ pred'[u] = pred[u] /\ item'[u] = item[u] /\ lnext'[u] = lnext[u]
      /\ lval'[u] = lval[u] /\ op'[u] = op[u] /\ count'[u] = count[u] /\ last'[u] = last[u]
  BY <1>1 DEF Mine
<1>3. \A i \in 1..MaxOps : key'[<<u, i>>] = key[<<u, i>>]
  <2>1. [i \in 1..MaxOps |-> key'[<<u, i>>]] = [i \in 1..MaxOps |-> key[<<u, i>>]]
    BY <1>1 DEF Mine
  <2> QED
    BY <2>1
<1>4. CallOK(u)'
  BY <1>2, <1>3 DEF CallOK, Working
<1>5. pc[u] \in {"unlink", "swap", "remove_unlink"} =>
        item[u] \in Inserted /\ Marked(item[u])
  <2>1. pc[u] \in {"unlink", "swap", "remove_unlink"} => item[u] \in Inserted
    BY DEF AnswerOK, Standing, TypeOK
  <2>2. pc[u] = "unlink" => Marked(item[u])
    BY DEF AnswerOK, Marked
  <2>3. pc[u] \in {"swap", "remove_unlink"} => Marked(item[u])
    BY LinkParts, Zenon DEF AnswerOK, Marked
  <2> QED
    BY <2>1, <2>2, <2>3
<1>6. AnswerOK(u)'
  BY <1>2, <1>5, Names DEF AnswerOK, Standing, Grow, Chain, Before
<1>7. WalkOK(u)'
  BY <1>2, Names DEF WalkOK, Grow, Chain
<1> QED
  BY <1>4, <1>6, <1>7

(* So a step is right when it is for the thread that takes it. *)
LEMMA StepKeeps ==
    ASSUME NEW t \in Threads, IInv, Grow, Alone(t), TypeOK', DOMAIN op' = Threads,
           Shape', Path', CallOK(t)', AnswerOK(t)', WalkOK(t)'
    PROVE  IInv'
<1>1. initial' \in [Keys -> {Initial, DOES_NOT_EXIST}]
  BY DEF IInv, Grow
<1>2. \A u \in Threads \ {t} : CallOK(u)' /\ AnswerOK(u)' /\ WalkOK(u)'
  BY OthersKeep DEF IInv
<1> QED
  BY <1>1, <1>2 DEF IInv

-----------------------------------------------------------------------------
(* find_pred *)

PCs == {"idle", "find", "load_next", "skip", "unlink", "read", "insert", "load_val", "cas_val",
        "load_link", "mark", "swap", "remove_unlink", "iter_next", "iter_val",
        "crashed"}

(* The end of a search that found nothing. *)
LEMMA NotFoundGoes ==
    ASSUME NEW t \in Threads, pc \in [Threads -> PCs], NotFound(t)
    PROVE  /\ pc' \in [Threads -> PCs] /\ \A u \in Threads \ {t} : pc'[u] = pc[u]
           /\ \/ pc'[t] = "idle"
              \/ pc'[t] = "insert" /\ op[t].kind = "cas"
              \/ pc'[t] = "iter_next" /\ op[t].kind = "iterate"
<1>1. CASE op[t].kind = "iterate"
  BY <1>1 DEF NotFound, Found, PCs
<1>2. CASE op[t].kind # "iterate"
  BY <1>2 DEF NotFound, Return, PCs
<1> QED
  BY <1>1, <1>2

(* A search that moves on to n stands right. *)
Moved(t) ==
    /\ pc' \in [Threads -> PCs] /\ item' \in [Threads -> Nodes \cup {Null}]
    /\ \A u \in Threads \ {t} : pc'[u] = pc[u] /\ item'[u] = item[u]
    /\ pc'[t] \in {"idle", "insert", "crashed", "load_next"} /\ (pc'[t] = "load_next" => item'[t] # Null)
    /\ CallOK(t)' /\ AnswerOK(t)' /\ WalkOK(t)'

(* A walk moves on to a node that is still inside its part of the chain. *)
LEMMA Moves ==
    ASSUME NEW t \in Threads, IInv, Working(t), NEW n \in Inserted \cup {Null}, MoveTo(t, n),
           pred'[t] \in Chain, Before(pred'[t], op[t].key),
           n # Null => Before(pred'[t], key[n]),
           UNCHANGED <<key, initial, op, count, last>>
    PROVE  Moved(t)
<1>1. pc \in [Threads -> PCs] /\ item \in [Threads -> Nodes \cup {Null}]
  BY DEF IInv, TypeOK, PCs
<1>2. /\ item' = [item EXCEPT ![t] = n] /\ item' \in [Threads -> Nodes \cup {Null}]
      /\ item'[t] = n
  BY <1>1, Names DEF MoveTo
<1>3. /\ pc' \in [Threads -> PCs] /\ \A u \in Threads \ {t} : pc'[u] = pc[u]
      /\ \/ n = Null /\ pc'[t] \in {"idle", "crashed"}
         \/ n = Null /\ pc'[t] = "insert" /\ op[t].kind = "cas"
         \/ n # Null /\ pc'[t] = "load_next"
  <2>1. CASE n = Null
    <3>1. CASE op[t].kind = "iterate"
      BY <1>1, <2>1, <3>1 DEF MoveTo, EndOfList, PCs
    <3>2. CASE op[t].kind # "iterate"
      BY <1>1, <2>1, <3>2, NotFoundGoes DEF MoveTo, EndOfList
    <3> QED
      BY <3>1, <3>2
  <2>2. CASE n # Null
    BY <1>1, <2>2 DEF MoveTo, PCs
  <2> QED
    BY <2>1, <2>2
<1>4. CallOK(t)'
  BY <1>3 DEF CallOK, Working, IInv
<1>5. Inserted' = Inserted
  BY DEF Inserted
<1>6. AnswerOK(t)'
  BY <1>2, <1>3, <1>5 DEF AnswerOK, Standing, Chain, Before
<1>7. WalkOK(t)'
  BY <1>3 DEF WalkOK
<1> QED
  BY <1>1, <1>2, <1>3, <1>4, <1>6, <1>7, Zenon DEF Moved

(* A walk starts at the head (list.c: find_pred). *)
LEMMA FindKeeps ==
    ASSUME NEW t \in Threads, IInv, Find(t)
    PROVE  IInv'
<1> DEFINE n == GET_NODE(next[Head])
<1>1. Working(t) /\ n \in Inserted \cup {Null} /\ MoveTo(t, n)
  BY DEF Find, Working, IInv, Shape, Chain
<1>2. /\ pred' = [pred EXCEPT ![t] = Head] /\ pred'[t] = Head
      /\ UNCHANGED <<nodes, lnext, lval, op, count, last, initial>>
  BY DEF Find, IInv, TypeOK
<1>3. Shape' /\ Path' /\ Grow
  BY <1>2, QuietNodes DEF IInv
<1> HIDE DEF n
<1>4. Moved(t)
  BY <1>1, <1>2, Moves DEF Chain, Before, nodes
<1>5. Alone(t)
  BY <1>2, <1>4 DEF Moved, Alone, Mine, IInv, TypeOK, nodes
<1>6. TypeOK'
  BY <1>2, <1>4, Names, Zenon DEF Moved, TypeOK, IInv, nodes, PCs
<1> QED
  BY <1>2, <1>3, <1>4, <1>5, <1>6, StepKeeps DEF Moved, IInv

(* The node a thread looks at. *)
LEMMA ItemFacts ==
    ASSUME NEW t \in Threads, IInv, Standing(t), pc[t] # "insert"
    PROVE  /\ item[t] \in Inserted /\ next[item[t]] \in Links
           /\ GET_NODE(next[item[t]]) \in Inserted \cup {Null}
           /\ GET_NODE(next[item[t]]) # Null => key[item[t]] < key[GET_NODE(next[item[t]])]
           /\ pred[t] \in Chain /\ Before(pred[t], key[item[t]]) /\ Before(pred[t], op[t].key)
           /\ key[item[t]] \in 1..NumKeys
<1>1. item[t] \in Inserted /\ pred[t] \in Chain /\ Before(pred[t], key[item[t]])
      /\ Before(pred[t], op[t].key)
  BY DEF IInv, AnswerOK, Standing, TypeOK
<1>2. next[item[t]] \in Links /\ key[item[t]] \in 1..NumKeys
  BY <1>1, Names DEF IInv, TypeOK, Inserted
<1>3. /\ GET_NODE(next[item[t]]) \in Inserted \cup {Null}
      /\ GET_NODE(next[item[t]]) # Null => key[item[t]] < key[GET_NODE(next[item[t]])]
  BY <1>1, Names DEF IInv, Shape, Chain, Before
<1> QED
  BY <1>1, <1>2, <1>3

(* A walk loads the link of the node it looks at, and goes on or stops. *)
LEMMA FindLoadNextKeeps ==
    ASSUME NEW t \in Threads, IInv, FindLoadNext(t)
    PROVE  IInv'
<1> DEFINE link == next[item[t]]
<1>1. pc[t] = "load_next" /\ Working(t) /\ Standing(t)
  BY DEF FindLoadNext, Working, Standing
<1>2. /\ lnext' = [lnext EXCEPT ![t] = link] /\ lnext'[t] = link
      /\ UNCHANGED <<nodes, lval, op, count, last, initial>>
  BY DEF FindLoadNext, IInv, TypeOK
<1>3. Shape' /\ Path' /\ Grow
  BY <1>2, QuietNodes DEF IInv
<1>4. /\ item[t] \in Inserted /\ link \in Links
      /\ GET_NODE(link) \in Inserted \cup {Null}
      /\ GET_NODE(link) # Null => key[item[t]] < key[GET_NODE(link)]
      /\ pred[t] \in Chain /\ Before(pred[t], key[item[t]]) /\ Before(pred[t], op[t].key)
      /\ key[item[t]] \in 1..NumKeys
  BY <1>1, ItemFacts
<1>5. Inserted' = Inserted
  BY <1>2 DEF Inserted, nodes
<1> HIDE DEF link
<1>6. SUFFICES /\ pc' \in [Threads -> PCs] /\ item' \in [Threads -> Nodes \cup {Null}]
               /\ pred' \in [Threads -> Nodes \cup {Head, Null}]
               /\ \A u \in Threads \ {t} : /\ pc'[u] = pc[u] /\ item'[u] = item[u]
                                           /\ pred'[u] = pred[u]
               /\ pc'[t] \in {"iter_next", "idle", "insert", "crashed"} \/ item'[t] # Null
               /\ pc'[t] = "iter_next" => pred'[t] # Null
               /\ pc'[t] # "iter_val"
               /\ CallOK(t)' /\ AnswerOK(t)' /\ WalkOK(t)'
  <2>1. Alone(t)
    BY <1>2, <1>6 DEF Alone, Mine, IInv, TypeOK, nodes
  <2>2. TypeOK'
    BY <1>2, <1>4, <1>6, Names DEF TypeOK, IInv, nodes, PCs
  <2> QED
    BY <1>2, <1>3, <1>6, <2>1, <2>2, StepKeeps DEF IInv
<1>7. pc \in [Threads -> PCs] /\ CallOK(t) /\ item[t] # Null
  BY <1>4, Names DEF IInv, TypeOK, PCs
<1>8. CASE HAS_MARK(link) /\ UNCHANGED <<pred, item>>
           /\ pc' = [pc EXCEPT ![t] = IF help_remove(t) THEN "unlink" ELSE "skip"]
  <2>1. pc'[t] \in {"unlink", "skip"}
    BY <1>7, <1>8
  <2>2. CallOK(t)'
    BY <1>1, <1>2, <1>7, <2>1 DEF CallOK, Working, nodes
  <2>3. AnswerOK(t)'
    BY <1>2, <1>4, <1>5, <1>8, <2>1 DEF AnswerOK, Standing, Chain, Before, nodes, link
  <2>4. WalkOK(t)'
    BY <2>1 DEF WalkOK
  <2> QED
    BY <1>7, <1>8, <2>1, <2>2, <2>3, <2>4 DEF IInv, TypeOK, PCs
<1>9. CASE NotFound(t) /\ UNCHANGED <<pred, item>> /\ key[item[t]] > op[t].key
  <2>1. /\ pc' \in [Threads -> PCs] /\ \A u \in Threads \ {t} : pc'[u] = pc[u]
        /\ \/ pc'[t] = "idle"
           \/ pc'[t] = "insert" /\ op[t].kind = "cas"
           \/ pc'[t] = "iter_next" /\ op[t].kind = "iterate"
    BY <1>7, <1>9, NotFoundGoes
  <2>2. CallOK(t)'
    BY <1>1, <1>2, <1>7, <2>1 DEF CallOK, Working, nodes
  <2>3. AnswerOK(t)'
    BY <1>2, <1>4, <1>5, <1>9, <2>1 DEF AnswerOK, Standing, Chain, Before, nodes
  <2>4. WalkOK(t)'
    BY <1>1, <1>2, <1>4, <1>5, <1>7, <1>9, <2>1 DEF WalkOK, CallOK, Chain, nodes
  <2>5. pred[t] # Null
    BY <1>4, Names DEF Chain
  <2> QED
    BY <1>9, <2>1, <2>2, <2>3, <2>4, <2>5 DEF IInv, TypeOK
<1>10. CASE Found(t) /\ UNCHANGED <<pred, item>> /\ key[item[t]] = op[t].key
  <2>1. \/ pc' = [pc EXCEPT ![t] = "read"]
        \/ pc' = [pc EXCEPT ![t] = "load_val"] /\ op[t].kind = "cas"
        \/ pc' = [pc EXCEPT ![t] = "load_link"]
        \/ pc' = [pc EXCEPT ![t] = "iter_next"] /\ op[t].kind = "iterate"
    BY <1>1, <1>7, <1>10, Zenon DEF Found, CallOK
  <2>2. CallOK(t)'
    BY <1>1, <1>2, <1>7, <2>1 DEF CallOK, Working, nodes
  <2>3. AnswerOK(t)'
    BY <1>2, <1>4, <1>5, <1>7, <1>10, <2>1 DEF AnswerOK, Standing, Chain, Before, nodes
  <2>4. WalkOK(t)'
    BY <1>1, <1>2, <1>4, <1>5, <1>7, <1>10, <2>1 DEF WalkOK, CallOK, Chain, nodes
  <2>5. pred[t] # Null
    BY <1>4, Names DEF Chain
  <2> QED
    BY <1>7, <1>10, <2>1, <2>2, <2>3, <2>4, <2>5 DEF IInv, TypeOK, PCs
<1>11. CASE /\ key[item[t]] < op[t].key /\ pred' = [pred EXCEPT ![t] = item[t]]
            /\ MoveTo(t, GET_NODE(link))
  <2>1. pred'[t] = item[t] /\ pred' \in [Threads -> Nodes \cup {Head, Null}]
        /\ \A u \in Threads \ {t} : pred'[u] = pred[u]
    BY <1>4, <1>11, Names DEF IInv, TypeOK
  <2>2. /\ pred'[t] \in Chain /\ Before(pred'[t], op[t].key)
        /\ GET_NODE(link) # Null => Before(pred'[t], key[GET_NODE(link)])
    BY <1>4, <1>11, <2>1 DEF Chain, Before
  <2>3. Moved(t)
    BY <1>1, <1>2, <1>4, <1>11, <2>2, Moves DEF nodes
  <2> QED
    BY <2>1, <2>3 DEF Moved
<1> QED
  BY <1>8, <1>9, <1>10, <1>11 DEF FindLoadNext, link

(* A walk that does not unlink steps over a marked node. *)
LEMMA FindSkipKeeps ==
    ASSUME NEW t \in Threads, IInv, FindSkip(t)
    PROVE  IInv'
<1> DEFINE n == GET_NODE(next[item[t]])
<1>1. pc[t] = "skip" /\ Working(t) /\ Standing(t) /\ MoveTo(t, n)
  BY DEF FindSkip, Working, Standing
<1>2. UNCHANGED <<nodes, pred, lnext, lval, op, count, last, initial>>
  BY DEF FindSkip
<1>3. Shape' /\ Path' /\ Grow
  BY <1>2, QuietNodes DEF IInv
<1>4. /\ n \in Inserted \cup {Null} /\ pred'[t] \in Chain /\ Before(pred'[t], op[t].key)
      /\ n # Null => Before(pred'[t], key[n])
  <2>1. /\ n \in Inserted \cup {Null} /\ pred[t] \in Chain /\ Before(pred[t], op[t].key)
        /\ n # Null => key[item[t]] < key[n]
        /\ Before(pred[t], key[item[t]]) /\ key[item[t]] \in Nat
    BY <1>1, ItemFacts
  <2>2. /\ pred[t] # Head => key[pred[t]] \in Nat
        /\ n # Null => key[n] \in Nat
    BY <2>1, Names DEF IInv, TypeOK, Chain
  <2> QED
    BY <1>2, <2>1, <2>2 DEF Before
<1> HIDE DEF n
<1>5. Moved(t)
  BY <1>1, <1>2, <1>4, Moves DEF nodes
<1>6. Alone(t)
  BY <1>2, <1>5 DEF Moved, Alone, Mine, nodes
<1>7. TypeOK'
  BY <1>2, <1>5, Names DEF Moved, TypeOK, IInv, nodes, PCs
<1> QED
  BY <1>2, <1>3, <1>5, <1>6, <1>7, StepKeeps DEF Moved, IInv

-----------------------------------------------------------------------------
(* Steps after the search that change no node *)

(* A thread that returns knows nothing any more; its node stays as it is. *)
LEMMA Returns ==
    ASSUME NEW t \in Threads, pc \in [Threads -> PCs], pc' = [pc EXCEPT ![t] = "idle"]
    PROVE  /\ pc' \in [Threads -> PCs] /\ pc'[t] = "idle"
           /\ \A u \in Threads \ {t} : pc'[u] = pc[u]
           /\ AnswerOK(t)' /\ WalkOK(t)'
<1>1. pc'[t] = "idle" /\ pc' \in [Threads -> PCs] /\ \A u \in Threads \ {t} : pc'[u] = pc[u]
  BY DEF PCs
<1> QED
  BY <1>1 DEF AnswerOK, WalkOK, Standing

(* ll_lookup reads the value of the node it found. *)
LEMMA LookupReadKeeps ==
    ASSUME NEW t \in Threads, IInv, LookupRead(t)
    PROVE  IInv'
<1>1. pc[t] = "read" /\ pc' = [pc EXCEPT ![t] = "idle"]
      /\ UNCHANGED <<nodes, locals, op, count, last, initial>>
  BY DEF LookupRead, Return
<1>2. Shape' /\ Path' /\ Grow
  BY <1>1, QuietNodes DEF IInv
<1>3. /\ pc' \in [Threads -> PCs] /\ pc'[t] = "idle"
      /\ \A u \in Threads \ {t} : pc'[u] = pc[u]
      /\ AnswerOK(t)' /\ WalkOK(t)'
  BY <1>1, Returns, Zenon DEF IInv, TypeOK, PCs
<1>4. CallOK(t)'
  BY <1>1, <1>3 DEF CallOK, Working, IInv, nodes
<1>5. Alone(t)
  BY <1>1, <1>3 DEF Alone, Mine, nodes, locals
<1>6. TypeOK'
  BY <1>1, <1>3 DEF TypeOK, IInv, nodes, locals, PCs
<1> QED
  BY <1>1, <1>2, <1>3, <1>4, <1>5, <1>6, StepKeeps DEF IInv

(* The inner loop of ll_cas, whichever load or failed compare-and-swap gave  *)
(* it the value.                                                             *)
LEMMA DecidesKeeps ==
    ASSUME NEW t \in Threads, IInv, pc[t] \in {"load_val", "cas_val"},
           NEW v \in Threads \cup {Initial, DOES_NOT_EXIST}, CasDecide(t, v),
           UNCHANGED <<nodes, pred, item, lnext, op, count, last, initial>>
    PROVE  IInv'
<1>1. Shape' /\ Path' /\ Grow
  BY QuietNodes DEF IInv
<1>2. /\ lval' = [lval EXCEPT ![t] = v]
      /\ \/ pc' = [pc EXCEPT ![t] = "find"]
         \/ pc' = [pc EXCEPT ![t] = "idle"]
         \/ pc' = [pc EXCEPT ![t] = "cas_val"] /\ v # DOES_NOT_EXIST
  BY DEF CasDecide, Return
<1>3. pc \in [Threads -> PCs] /\ lval \in [Threads -> Threads \cup {Initial, DOES_NOT_EXIST}]
  BY DEF IInv, TypeOK, PCs
<1>4. /\ pc' \in [Threads -> PCs] /\ \A u \in Threads \ {t} : pc'[u] = pc[u] /\ lval'[u] = lval[u]
      /\ lval' \in [Threads -> Threads \cup {Initial, DOES_NOT_EXIST}]
      /\ pc'[t] \in {"find", "idle", "cas_val"} /\ (pc'[t] = "cas_val" => lval'[t] # DOES_NOT_EXIST)
  BY <1>2, <1>3 DEF PCs
<1>5. CallOK(t)'
  BY <1>4 DEF CallOK, Working, IInv, nodes
<1>6. Inserted' = Inserted
  BY DEF Inserted, nodes
<1>7. AnswerOK(t)'
  BY <1>4, <1>6 DEF AnswerOK, Standing, IInv, Chain, Before, nodes
<1>8. WalkOK(t)'
  BY <1>4 DEF WalkOK
<1>9. Alone(t)
  BY <1>4 DEF Alone, Mine, nodes
<1>10. TypeOK'
  BY <1>4 DEF TypeOK, IInv, nodes, PCs
<1> QED
  BY <1>1, <1>5, <1>7, <1>8, <1>9, <1>10, StepKeeps DEF IInv

(* ll_cas reads the value it is to replace. *)
LEMMA CasLoadValKeeps ==
    ASSUME NEW t \in Threads, IInv, CasLoadVal(t)
    PROVE  IInv'
<1>1. pc[t] = "load_val" /\ Standing(t)
  BY DEF CasLoadVal, Standing
<1>2. val[item[t]] \in Threads \cup {Initial, DOES_NOT_EXIST}
  BY <1>1, ItemFacts, Names DEF IInv, TypeOK
<1> QED
  BY <1>1, <1>2, DecidesKeeps DEF CasLoadVal

(* ll_remove reads the link it is to mark. *)
LEMMA RemoveLoadLinkKeeps ==
    ASSUME NEW t \in Threads, IInv, RemoveLoadLink(t)
    PROVE  IInv'
<1>1. /\ pc[t] = "load_link" /\ pc' = [pc EXCEPT ![t] = "mark"]
      /\ lnext' = [lnext EXCEPT ![t] = next[item[t]]]
      /\ UNCHANGED <<nodes, pred, item, lval, last, op, count, initial>>
  BY DEF RemoveLoadLink, history
<1>2. Shape' /\ Path' /\ Grow
  BY <1>1, QuietNodes DEF IInv
<1>3. next[item[t]] \in Links
  BY <1>1, ItemFacts DEF Standing
<1>4. /\ pc' \in [Threads -> PCs] /\ lnext' \in [Threads -> Links] /\ pc'[t] = "mark"
      /\ \A u \in Threads \ {t} : pc'[u] = pc[u] /\ lnext'[u] = lnext[u]
  BY <1>1, <1>3 DEF IInv, TypeOK, PCs
<1>5. CallOK(t)'
  BY <1>1, <1>4 DEF CallOK, Working, IInv, nodes
<1>6. Inserted' = Inserted
  BY <1>1 DEF Inserted, nodes
<1>7. AnswerOK(t)'
  BY <1>1, <1>4, <1>6 DEF AnswerOK, Standing, IInv, Chain, Before, nodes
<1>8. WalkOK(t)'
  BY <1>4 DEF WalkOK
<1>9. Alone(t)
  BY <1>1, <1>4 DEF Alone, Mine, nodes
<1>10. TypeOK'
  BY <1>1, <1>4 DEF TypeOK, IInv, nodes, PCs
<1> QED
  BY <1>1, <1>2, <1>5, <1>7, <1>8, <1>9, <1>10, StepKeeps DEF IInv

-----------------------------------------------------------------------------
(* The walk *)

(* An iterator goes on to the next node that is not marked. *)
LEMMA IterNextKeeps ==
    ASSUME NEW t \in Threads, IInv, IterNext(t)
    PROVE  IInv'
<1> DEFINE link == next[pred[t]]
<1>1. pc[t] = "iter_next" /\ pred' = [pred EXCEPT ![t] = GET_NODE(link)]
      /\ UNCHANGED <<nodes, item, lnext, lval, last, op, count, initial>>
  BY DEF IterNext, history
<1>2. Shape' /\ Path' /\ Grow
  BY <1>1, QuietNodes DEF IInv
<1>3. /\ GET_NODE(link) \in Inserted \cup {Null}
      /\ GET_NODE(link) # Null => Before(pred[t], key[GET_NODE(link)])
      /\ pred[t] \in Chain /\ (last[t] = 0 \/ (pred[t] # Head /\ last[t] <= key[pred[t]]))
  BY <1>1 DEF IInv, WalkOK, Shape
<1>4. \/ GET_NODE(link) = Null /\ pc' = [pc EXCEPT ![t] = "idle"]
      \/ GET_NODE(link) # Null /\ pc' = [pc EXCEPT ![t] = "iter_next"]
      \/ GET_NODE(link) # Null /\ pc' = [pc EXCEPT ![t] = "iter_val"]
  <2>1. UNCHANGED pc => pc' = [pc EXCEPT ![t] = "iter_next"]
    BY <1>1 DEF IInv, TypeOK
  <2> QED
    BY <2>1 DEF IterNext, IterEnd
<1> HIDE DEF link
<1>5. /\ pc' \in [Threads -> PCs] /\ pred' \in [Threads -> Nodes \cup {Head, Null}]
      /\ pc'[t] \in {"idle", "iter_next", "iter_val"} /\ pred'[t] = GET_NODE(link)
      /\ pc'[t] # "idle" => GET_NODE(link) # Null
      /\ \A u \in Threads \ {t} : pc'[u] = pc[u] /\ pred'[u] = pred[u]
  BY <1>1, <1>3, <1>4, Names DEF IInv, TypeOK, PCs
<1>6. CallOK(t)'
  BY <1>1, <1>5 DEF CallOK, Working, IInv, nodes
<1>7. AnswerOK(t)'
  BY <1>5 DEF AnswerOK, Standing
<1>8. WalkOK(t)'
  <2>1. Inserted' = Inserted
    BY <1>1 DEF Inserted, nodes
  <2>2. pc'[t] # "idle" => /\ GET_NODE(link) \in Inserted /\ GET_NODE(link) # Head
                           /\ key[GET_NODE(link)] \in Nat \ {0}
    BY <1>3, <1>5, Names DEF IInv, TypeOK, Inserted
  <2>3. last[t] \in Nat /\ (pred[t] # Head => key[pred[t]] \in Nat)
    BY <1>3, Names DEF IInv, TypeOK, Chain
  <2>4. pc'[t] # "idle" => last[t] < key[GET_NODE(link)]
    BY <1>3, <1>5, <2>2, <2>3 DEF Before
  <2> QED
    BY <1>1, <1>5, <2>1, <2>2, <2>3, <2>4 DEF WalkOK, Chain, nodes
<1>9. Alone(t)
  BY <1>1, <1>5 DEF Alone, Mine, nodes
<1>10. TypeOK'
  BY <1>1, <1>5 DEF TypeOK, IInv, nodes, PCs
<1> QED
  BY <1>1, <1>2, <1>6, <1>7, <1>8, <1>9, <1>10, StepKeeps DEF IInv

(* An iterator reads the value of its node. *)
LEMMA IterValKeeps ==
    ASSUME NEW t \in Threads, IInv, IterVal(t)
    PROVE  IInv'
<1>1. pc[t] = "iter_val" /\ UNCHANGED <<nodes, locals, op, count, initial>>
  BY DEF IterVal, history
<1>2. Shape' /\ Path' /\ Grow
  BY <1>1, QuietNodes DEF IInv
<1>3. /\ pred[t] \in Inserted /\ key[pred[t]] \in Keys
      /\ last[t] < key[pred[t]]
  BY <1>1, Names DEF IInv, WalkOK, TypeOK, Inserted, Keys
<1>4. \/ pc' = [pc EXCEPT ![t] = "idle"] /\ last' = last
      \/ pc' = [pc EXCEPT ![t] = "iter_next"] /\ last' = [last EXCEPT ![t] = key[pred[t]]]
  BY DEF IterVal, IterEnd
<1>5. /\ pc' \in [Threads -> PCs] /\ last' \in [Threads -> 0..NumKeys]
      /\ pc'[t] = "idle" \/ (pc'[t] = "iter_next" /\ last'[t] = key[pred[t]])
      /\ \A u \in Threads \ {t} : pc'[u] = pc[u] /\ last'[u] = last[u]
  <2>1. key[pred[t]] \in 0..NumKeys
    BY <1>3 DEF Keys
  <2> QED
    BY <1>4, <2>1 DEF IInv, TypeOK, PCs
<1>6. CallOK(t)'
  BY <1>1, <1>5 DEF CallOK, Working, IInv, nodes
<1>7. AnswerOK(t)'
  BY <1>5 DEF AnswerOK, Standing
<1>8. WalkOK(t)'
  <2>1. Inserted' = Inserted
    BY <1>1 DEF Inserted, nodes
  <2>2. pc'[t] = "iter_next" => last'[t] <= key[pred[t]]
    BY <1>3, <1>5 DEF Keys
  <2> QED
    BY <1>1, <1>3, <1>5, <2>1, <2>2, Names DEF WalkOK, Chain, nodes, locals
<1>9. Alone(t)
  BY <1>1, <1>5 DEF Alone, Mine, nodes, locals
<1>10. TypeOK'
  BY <1>1, <1>5 DEF TypeOK, IInv, nodes, locals, PCs
<1> QED
  BY <1>1, <1>2, <1>6, <1>7, <1>8, <1>9, <1>10, StepKeeps DEF IInv

-----------------------------------------------------------------------------
(* Calls *)

(* A call begins with an operation that has its fields, and a fresh node. *)
Begun(t, o) ==
    /\ pc[t] = "idle" /\ DOMAIN op' = Threads /\ count' \in [Threads -> 0..MaxOps]
    /\ op'[t] = With(o, [id |-> <<t, count[t] + 1>>, after |-> {d.id : d \in done}])
    /\ count'[t] = count[t] + 1 /\ count[t] \in Nat
    /\ \A u \in Threads \ {t} : op'[u] = op[u] /\ count'[u] = count[u]
    /\ \A i \in 1..MaxOps : i >= count'[t] => key[<<t, i>>] = 0
    /\ Shape' /\ Path' /\ Grow
    /\ UNCHANGED <<nodes, item, lnext, lval, initial>>

(* A call notes its operation and the calls that returned before it. *)
LEMMA CallBegins ==
    ASSUME NEW t \in Threads, IInv, NEW o, Call(t, o)
    PROVE  Begun(t, o)
<1>1. /\ pc[t] = "idle" /\ count[t] < MaxOps
      /\ op' = [op EXCEPT ![t] = With(o, [id |-> <<t, count[t] + 1>>, after |-> {d.id : d \in done}])]
      /\ count' = [count EXCEPT ![t] = @ + 1]
      /\ UNCHANGED <<nodes, item, lnext, lval, initial>>
  BY DEF Call
<1>2. Shape' /\ Path' /\ Grow
  BY <1>1, QuietNodes DEF IInv
<1>3. /\ count' \in [Threads -> 0..MaxOps] /\ count'[t] = count[t] + 1 /\ count[t] \in Nat
      /\ \A u \in Threads \ {t} : count'[u] = count[u]
  BY <1>1, ListAssumption DEF IInv, TypeOK
<1>4. /\ DOMAIN op' = Threads /\ \A u \in Threads \ {t} : op'[u] = op[u]
      /\ op'[t] = With(o, [id |-> <<t, count[t] + 1>>, after |-> {d.id : d \in done}])
  BY <1>1 DEF IInv
<1>5. \A i \in 1..MaxOps : i >= count'[t] => key[<<t, i>>] = 0
  BY <1>3 DEF IInv, CallOK
<1> QED
  BY <1>1, <1>2, <1>3, <1>4, <1>5 DEF Begun

(* A call on the map begins. *)
LEMMA CallMapKeeps ==
    ASSUME NEW t \in Threads, IInv, CallMap(t)
    PROVE  IInv'
<1>1. PICK o : /\ Call(t, o)
               /\ \E k \in Keys :
                    \/ \E kind \in {"get", "remove"} : o = [kind |-> kind, key |-> k]
                    \/ \E e : o = [kind |-> "cas", key |-> k, expectation |-> e, new_val |-> t]
  BY Zenon DEF CallMap
<1>0. Begun(t, o)
  BY <1>1, CallBegins
<1>2. pc' = [pc EXCEPT ![t] = "find"] /\ UNCHANGED <<pred, last>>
  BY DEF CallMap
<1>3. /\ op'[t].kind \in {"get", "cas", "remove"} /\ op'[t].key \in Keys
      /\ op'[t].id = <<t, count[t] + 1>> /\ (op'[t].kind = "cas" => op'[t].new_val = t)
  <2>1. op'[t] = With(o, [id |-> <<t, count[t] + 1>>, after |-> {d.id : d \in done}])
    BY <1>0 DEF Begun
  <2>2. PICK k \in Keys :
          \/ \E kind \in {"get", "remove"} : o = [kind |-> kind, key |-> k]
          \/ \E e : o = [kind |-> "cas", key |-> k, expectation |-> e, new_val |-> t]
    BY <1>1
  <2> QED
    BY <2>1, <2>2 DEF With
<1>4. /\ pc' \in [Threads -> PCs] /\ pc'[t] = "find" /\ \A u \in Threads \ {t} : pc'[u] = pc[u]
  BY <1>2 DEF IInv, TypeOK, PCs
<1>5. CallOK(t)'
  BY <1>0, <1>3, <1>4 DEF Begun, CallOK, Working, nodes
<1>6. AnswerOK(t)' /\ WalkOK(t)'
  BY <1>4 DEF AnswerOK, Standing, WalkOK
<1>7. Alone(t)
  BY <1>0, <1>2, <1>4 DEF Begun, Alone, Mine, nodes
<1>8. TypeOK'
  BY <1>0, <1>2, <1>4 DEF Begun, TypeOK, IInv, nodes, PCs
<1> QED
  BY <1>0, <1>5, <1>6, <1>7, <1>8, StepKeeps DEF Begun

(* An iterator begins. *)
LEMMA IterBeginKeeps ==
    ASSUME NEW t \in Threads, IInv, IterBegin(t)
    PROVE  IInv'
<1>1. /\ Call(t, [kind |-> "iterate"]) /\ pc' = [pc EXCEPT ![t] = "iter_next"]
      /\ pred' = [pred EXCEPT ![t] = Head] /\ last' = [last EXCEPT ![t] = 0]
  BY DEF IterBegin
<1>0. Begun(t, [kind |-> "iterate"])
  BY <1>1, CallBegins
<1>2. /\ pc' \in [Threads -> PCs] /\ pc'[t] = "iter_next"
      /\ pred' \in [Threads -> Nodes \cup {Head, Null}] /\ pred'[t] = Head
      /\ last' \in [Threads -> 0..NumKeys] /\ last'[t] = 0
      /\ \A u \in Threads \ {t} : pc'[u] = pc[u] /\ pred'[u] = pred[u] /\ last'[u] = last[u]
  BY <1>1, ListAssumption DEF IInv, TypeOK, PCs
<1>3. CallOK(t)'
  BY <1>0, <1>2 DEF Begun, CallOK, Working, nodes
<1>4. AnswerOK(t)' /\ WalkOK(t)'
  BY <1>2 DEF AnswerOK, Standing, WalkOK, Chain
<1>5. Alone(t)
  BY <1>0, <1>2 DEF Begun, Alone, Mine, nodes
<1>6. TypeOK'
  BY <1>0, <1>2, Names DEF Begun, TypeOK, IInv, nodes, PCs
<1> QED
  BY <1>0, <1>3, <1>4, <1>5, <1>6, StepKeeps DEF Begun

(* An iterator begins at a key. *)
LEMMA IterBeginAtKeeps ==
    ASSUME NEW t \in Threads, IInv, IterBeginAt(t)
    PROVE  IInv'
<1>1. PICK k \in Keys : Call(t, [kind |-> "iterate", key |-> k])
  BY DEF IterBeginAt
<1>2. /\ pc' = [pc EXCEPT ![t] = "find"] /\ last' = [last EXCEPT ![t] = 0]
      /\ UNCHANGED pred
  BY DEF IterBeginAt
<1>0. Begun(t, [kind |-> "iterate", key |-> k])
  BY <1>1, CallBegins
<1>3. op'[t].kind = "iterate" /\ op'[t].key \in Keys /\ op'[t].id = <<t, count[t] + 1>>
  <2>1. op'[t] = With([kind |-> "iterate", key |-> k],
                      [id |-> <<t, count[t] + 1>>, after |-> {d.id : d \in done}])
    BY <1>0 DEF Begun
  <2> QED
    BY <2>1 DEF With
<1>4. /\ pc' \in [Threads -> PCs] /\ pc'[t] = "find"
      /\ last' \in [Threads -> 0..NumKeys] /\ last'[t] = 0
      /\ \A u \in Threads \ {t} : pc'[u] = pc[u] /\ last'[u] = last[u]
  BY <1>2, ListAssumption DEF IInv, TypeOK, PCs
<1>5. CallOK(t)'
  BY <1>0, <1>3, <1>4 DEF Begun, CallOK, Working, nodes
<1>6. AnswerOK(t)' /\ WalkOK(t)'
  BY <1>4 DEF AnswerOK, Standing, WalkOK
<1>7. Alone(t)
  BY <1>0, <1>2, <1>4 DEF Begun, Alone, Mine, nodes
<1>8. TypeOK'
  BY <1>0, <1>2, <1>4 DEF Begun, TypeOK, IInv, nodes, PCs
<1> QED
  BY <1>0, <1>5, <1>6, <1>7, <1>8, StepKeeps DEF Begun

-----------------------------------------------------------------------------
(* Reachability *)

(* Reachable is the least closed set, and it holds inserted nodes only. *)
LEMMA ReachableIsLeast ==
    ASSUME TypeOK, Shape
    PROVE  /\ Reachable \in Closed /\ Reachable \subseteq Chain
           /\ \A S \in Closed : Reachable \subseteq S
<1>1. \A S \in Closed : Reachable \subseteq S
  BY DEF Reachable
<1>2. Head \in Reachable
  BY DEF Reachable, Closed
<1>3. ASSUME NEW n \in Reachable, GET_NODE(next[n]) # Null
      PROVE  GET_NODE(next[n]) \in Reachable
  <2>1. n \in Nodes \cup {Head} /\ next[n] \in Links
    BY DEF Reachable, TypeOK
  <2>2. GET_NODE(next[n]) \in Nodes
    BY <1>3, <2>1, LinkShape
  <2>3. \A S \in Closed : GET_NODE(next[n]) \in S
    BY <1>1, <1>3 DEF Closed
  <2> QED
    BY <2>2, <2>3 DEF Reachable
<1>4. Reachable \in Closed
  <2>1. Reachable \subseteq Nodes \cup {Head}
    BY DEF Reachable
  <2> QED
    BY <1>2, <1>3, <2>1 DEF Closed
<1>5. Chain \in Closed
  BY Names DEF Chain, Closed, Shape
<1> QED
  BY <1>1, <1>4, <1>5

(* A mark does not change what is reachable. *)
LEMMA ReachableKept ==
    ASSUME \A n \in Nodes \cup {Head} : GET_NODE(next'[n]) = GET_NODE(next[n])
    PROVE  Reachable' = Reachable
<1>1. Closed' = Closed
  BY DEF Closed
<1> QED
  BY <1>1 DEF Reachable

(* A node linked in after a reachable one is the only one that comes in. *)
LEMMA ReachableInsert ==
    ASSUME TypeOK, Shape, NEW p \in Reachable, NEW x \in Nodes \ Inserted,
           next' = [next EXCEPT ![x] = Ref(GET_NODE(next[p])), ![p] = Ref(x)]
    PROVE  Reachable' = Reachable \cup {x}
<1>1. /\ Reachable \in Closed /\ Reachable \subseteq Chain
      /\ \A S \in Closed : Reachable \subseteq S
  BY ReachableIsLeast
<1>2. /\ x \notin Chain /\ p # x /\ p \in Nodes \cup {Head} /\ x # Null
  BY <1>1, Names DEF Chain
<1>3. /\ GET_NODE(next'[p]) = x /\ GET_NODE(next'[x]) = GET_NODE(next[p])
      /\ \A n \in (Nodes \cup {Head}) \ {p, x} : next'[n] = next[n]
  BY <1>2, LinkParts, Zenon DEF TypeOK
<1>4. Reachable \cup {x} \in Closed'
  BY <1>1, <1>3, Zenon DEF Closed
<1>5. ASSUME NEW S \in Closed'
      PROVE  Reachable \cup {x} \subseteq S
  <2>1. /\ S \subseteq Nodes \cup {Head} /\ Head \in S
        /\ \A n \in S : GET_NODE(next'[n]) \in S \cup {Null}
    BY Zenon DEF Closed
  <2>2. \A n \in S \cap Chain : GET_NODE(next[n]) \in S \cup {Null}
    BY <1>2, <1>3, <2>1, Zenon
  <2>3. \A n \in S \cap Chain : GET_NODE(next[n]) \in Chain \cup {Null}
    BY DEF Shape, Chain
  <2>4. S \cap Chain \in Closed
    BY <2>1, <2>2, <2>3 DEF Closed, Chain
  <2>5. Reachable \subseteq S
    BY <1>1, <2>4
  <2> QED
    BY <1>2, <1>3, <2>1, <2>5, Zenon
<1>6. Reachable' = {n \in Nodes \cup {Head} : \A S \in Closed' : n \in S}
  BY DEF Reachable
<1>7. Reachable \cup {x} \subseteq Nodes \cup {Head}
  BY <1>2 DEF Reachable
<1> QED
  BY <1>4, <1>5, <1>6, <1>7

(* A node that one reachable node links to is the only one to leave when     *)
(* that node's link goes past it.                                            *)
LEMMA ReachableUnlink ==
    ASSUME TypeOK, Shape, Path, NEW p \in Reachable, NEW x \in Inserted,
           GET_NODE(next[p]) = x, p # x, GET_NODE(next[x]) # x,
           next' = [next EXCEPT ![p] = Ref(GET_NODE(next[x]))]
    PROVE  x \in Reachable /\ Reachable' = Reachable \ {x}
<1> DEFINE succ == GET_NODE(next[x])
<1>1. /\ Reachable \in Closed /\ Reachable \subseteq Chain
      /\ \A S \in Closed : Reachable \subseteq S
  BY ReachableIsLeast
<1>2. x \in Nodes /\ x # Head /\ x # Null /\ p \in Nodes \cup {Head}
  BY <1>1, Names DEF Chain
<1>3. x \in Reachable /\ succ \in Reachable \cup {Null}
  BY <1>1, <1>2 DEF Closed
<1>4. /\ GET_NODE(next'[p]) = succ /\ next'[x] = next[x]
      /\ \A n \in (Nodes \cup {Head}) \ {p} : next'[n] = next[n]
  BY <1>2, LinkParts, Zenon DEF TypeOK
<1>5. Reachable \ {x} \in Closed'
  <2>1. \A n \in Reachable \ {x, p} : GET_NODE(next'[n]) \in (Reachable \ {x}) \cup {Null}
    <3>1. \A n \in Reachable \ {x, p} : GET_NODE(next[n]) # x
      BY <1>2 DEF Path
    <3>2. \A n \in Reachable \ {x, p} : next'[n] = next[n] /\ GET_NODE(next[n]) \in Reachable \cup {Null}
      BY <1>1, <1>4 DEF Closed
    <3> QED
      BY <3>1, <3>2
  <2>2. GET_NODE(next'[p]) \in (Reachable \ {x}) \cup {Null}
    BY <1>3, <1>4
  <2>3. Reachable \ {x} \subseteq Nodes \cup {Head} /\ Head \in Reachable \ {x}
    BY <1>1, <1>2 DEF Closed
  <2> QED
    BY <2>1, <2>2, <2>3 DEF Closed
<1>6. ASSUME NEW S \in Closed'
      PROVE  Reachable \ {x} \subseteq S
  <2>1. /\ S \subseteq Nodes \cup {Head} /\ Head \in S
        /\ \A n \in S : GET_NODE(next'[n]) \in S \cup {Null}
    BY DEF Closed
  <2>2. CASE p \in S
    <3>1. succ \in S \cup {Null}
      BY <1>4, <2>1, <2>2
    <3>2. \A n \in S \cup {x} : GET_NODE(next[n]) \in S \cup {x, Null}
      BY <1>4, <2>1, <3>1
    <3>3. S \cup {x} \in Closed
      BY <1>2, <2>1, <3>2 DEF Closed
    <3> QED
      BY <1>1, <3>3
  <2>3. CASE p \notin S
    <3>1. S \in Closed
      BY <1>4, <2>1, <2>3 DEF Closed
    <3> QED
      BY <1>1, <3>1
  <2> QED
    BY <2>2, <2>3
<1>7. Reachable' = {n \in Nodes \cup {Head} : \A S \in Closed' : n \in S}
  BY DEF Reachable
<1>8. Reachable \subseteq Nodes \cup {Head}
  BY DEF Reachable
<1> QED
  BY <1>3, <1>5, <1>6, <1>7, <1>8

-----------------------------------------------------------------------------
(* Steps that change a value or set a mark *)

(* The nodes are right after a step that keeps keys and links, sets no value *)
(* to DOES_NOT_EXIST but where there is a mark.                              *)
LEMMA ValuesKeep ==
    ASSUME TypeOK, Shape, Path, UNCHANGED <<key, next, retired, initial>>,
           \A n \in Inserted : val'[n] = DOES_NOT_EXIST => Marked(n)
    PROVE  Shape' /\ Path' /\ Grow
<1>1. Inserted' = Inserted /\ Closed' = Closed
  BY DEF Inserted, Closed
<1>2. Reachable' = Reachable
  BY <1>1 DEF Reachable
<1> QED
  BY <1>1, <1>2 DEF Shape, Path, Grow, Chain, Before, Marked

(* ll_cas replaces the value of a node. *)
LEMMA CasValKeeps ==
    ASSUME NEW t \in Threads, IInv, CasVal(t)
    PROVE  IInv'
<1>1. pc[t] = "cas_val" /\ Standing(t) /\ Working(t)
      /\ UNCHANGED <<key, next, retired, pred, item, lnext, op, count, last, initial>>
  BY DEF CasVal, Standing, Working
<1>2. item[t] \in Inserted /\ item[t] \in Nodes
  BY <1>1, ItemFacts, Names
<1>3. CASE /\ val[item[t]] = lval[t] /\ val' = [val EXCEPT ![item[t]] = op[t].new_val]
           /\ Return(t, lval[t]) /\ UNCHANGED lval
  <2>1. op[t].new_val = t /\ t # DOES_NOT_EXIST
    BY <1>1, ListAssumption DEF IInv, CallOK
  <2>2. /\ val' \in [Nodes -> Threads \cup {Initial, DOES_NOT_EXIST}]
        /\ \A n \in Inserted : val'[n] = DOES_NOT_EXIST => Marked(n)
    BY <1>2, <1>3, <2>1, Names DEF IInv, TypeOK, Shape
  <2>3. Shape' /\ Path' /\ Grow
    BY <1>1, <2>2, ValuesKeep DEF IInv
  <2>4. /\ pc' \in [Threads -> PCs] /\ pc'[t] = "idle"
        /\ \A u \in Threads \ {t} : pc'[u] = pc[u]
        /\ AnswerOK(t)' /\ WalkOK(t)'
    BY <1>3, Returns, Zenon DEF IInv, TypeOK, PCs, Return
  <2>5. CallOK(t)'
    BY <1>1, <2>4 DEF CallOK, Working, IInv
  <2>6. Alone(t)
    BY <1>1, <1>3, <2>4 DEF Alone, Mine
  <2>7. TypeOK'
    BY <1>1, <1>3, <2>2, <2>4 DEF TypeOK, IInv, PCs
  <2> QED
    BY <1>1, <2>3, <2>4, <2>5, <2>6, <2>7, StepKeeps DEF IInv
<1>4. CASE CasDecide(t, val[item[t]]) /\ UNCHANGED val
  <2>1. val[item[t]] \in Threads \cup {Initial, DOES_NOT_EXIST}
    BY <1>2 DEF IInv, TypeOK
  <2> QED
    BY <1>1, <1>4, <2>1, DecidesKeeps DEF nodes
<1> QED
  BY <1>3, <1>4 DEF CasVal

(* ll_remove swaps the value of a node it has marked for nothing. *)
LEMMA RemoveSwapKeeps ==
    ASSUME NEW t \in Threads, IInv, RemoveSwap(t)
    PROVE  IInv'
<1>1. /\ pc[t] = "swap" /\ pc' = [pc EXCEPT ![t] = "remove_unlink"]
      /\ lval' = [lval EXCEPT ![t] = val[item[t]]]
      /\ val' = [val EXCEPT ![item[t]] = DOES_NOT_EXIST]
      /\ UNCHANGED <<key, next, retired, pred, item, lnext, last, op, count, initial>>
  BY DEF RemoveSwap, history
<1>2. item[t] \in Inserted /\ item[t] \in Nodes
  BY <1>1, ItemFacts, Names DEF Standing
<1>3. Marked(item[t]) /\ next[item[t]] = MARK_NODE(GET_NODE(lnext[t]))
  BY <1>1, LinkParts, Zenon DEF IInv, AnswerOK, Marked
<1>4. /\ val' \in [Nodes -> Threads \cup {Initial, DOES_NOT_EXIST}]
      /\ \A n \in Inserted : val'[n] = DOES_NOT_EXIST => Marked(n)
  BY <1>1, <1>2, <1>3, Names DEF IInv, TypeOK, Shape
<1>5. Shape' /\ Path' /\ Grow
  BY <1>1, <1>4, ValuesKeep DEF IInv
<1>6. /\ pc' \in [Threads -> PCs] /\ pc'[t] = "remove_unlink"
      /\ lval' \in [Threads -> Threads \cup {Initial, DOES_NOT_EXIST}]
      /\ \A u \in Threads \ {t} : pc'[u] = pc[u] /\ lval'[u] = lval[u]
  BY <1>1, <1>2 DEF IInv, TypeOK, PCs
<1>7. CallOK(t)'
  BY <1>1, <1>6 DEF CallOK, Working, IInv
<1>8. Inserted' = Inserted
  BY <1>1 DEF Inserted
<1>9. AnswerOK(t)'
  BY <1>1, <1>3, <1>6, <1>8 DEF AnswerOK, Standing, IInv, Chain, Before
<1>10. WalkOK(t)'
  BY <1>6 DEF WalkOK
<1>11. Alone(t)
  BY <1>1, <1>6 DEF Alone, Mine
<1>12. TypeOK'
  BY <1>1, <1>4, <1>6 DEF TypeOK, IInv, PCs
<1> QED
  BY <1>1, <1>5, <1>7, <1>9, <1>10, <1>11, <1>12, StepKeeps DEF IInv

(* ll_remove marks the link of a node: from here on the node is removed. *)
LEMMA RemoveMarkKeeps ==
    ASSUME NEW t \in Threads, IInv, RemoveMark(t)
    PROVE  IInv'
<1> DEFINE link == next[item[t]]
<1>1. pc[t] = "mark" /\ Standing(t) /\ Working(t) /\ pc \in [Threads -> PCs]
      /\ UNCHANGED <<key, val, retired, pred, item, lval, op, count, last, initial>>
  BY DEF RemoveMark, Standing, Working, IInv, TypeOK, PCs
<1>2. item[t] \in Inserted /\ item[t] \in Nodes /\ link \in Links /\ Inserted' = Inserted
  BY <1>1, ItemFacts, Names DEF Inserted
<1>3. CASE HAS_MARK(link) /\ Return(t, DOES_NOT_EXIST) /\ UNCHANGED <<next, lnext>>
  <2>1. Shape' /\ Path' /\ Grow
    BY <1>1, <1>3, QuietNodes DEF IInv, nodes
  <2>2. /\ pc' \in [Threads -> PCs] /\ pc'[t] = "idle"
        /\ \A u \in Threads \ {t} : pc'[u] = pc[u]
        /\ AnswerOK(t)' /\ WalkOK(t)'
    BY <1>1, <1>3, Returns, Zenon DEF Return
  <2>3. CallOK(t)'
    BY <1>1, <2>2 DEF CallOK, Working, IInv
  <2>4. Alone(t)
    BY <1>1, <1>3, <2>2 DEF Alone, Mine
  <2>5. TypeOK'
    BY <1>1, <1>3, <2>2 DEF TypeOK, IInv, PCs
  <2> QED
    BY <1>1, <2>1, <2>2, <2>3, <2>4, <2>5, StepKeeps DEF IInv
<1>4. CASE /\ ~HAS_MARK(link) /\ link = lnext[t]
           /\ next' = [next EXCEPT ![item[t]] = MARK_NODE(GET_NODE(link))]
           /\ pc' = [pc EXCEPT ![t] = "swap"] /\ UNCHANGED lnext
  <2>1. /\ next'[item[t]] = MARK_NODE(GET_NODE(lnext[t])) /\ Head # item[t]
        /\ \A n \in (Nodes \cup {Head}) \ {item[t]} : next'[n] = next[n]
        /\ \A n \in Nodes \cup {Head} : GET_NODE(next'[n]) = GET_NODE(next[n])
    BY <1>2, <1>4, LinkParts, Names, Zenon DEF IInv, TypeOK
  <2>2. next' \in [Nodes \cup {Head} -> Links]
    <3>1. MARK_NODE(GET_NODE(link)) \in Links
      BY <1>2, LinkShape, Zenon DEF Links, MARK_NODE
    <3> QED
      BY <1>4, <3>1, Zenon DEF IInv, TypeOK
  <2>3. Reachable' = Reachable
    BY <2>1, ReachableKept
  <2>4. HAS_MARK(next'[item[t]])
    BY <2>1, LinkParts, Zenon
  <2>5. \A n \in Chain : Marked(n) => n # item[t] /\ next'[n] = next[n]
    BY <1>4, <2>1, Names DEF Marked, Chain
  <2>6. Grow
    BY <1>1, <1>2, <2>5 DEF Grow, Chain
  <2>7. Shape'
    BY <1>1, <1>2, <2>1, <2>4, Names DEF IInv, Shape, Chain, Before, Marked
  <2>8. Path'
    <3>1. \A n \in Reachable : n \in Nodes \cup {Head}
      BY DEF Reachable
    <3> QED
      BY <1>1, <1>2, <2>1, <2>3, <2>5, <3>1, Names DEF IInv, Path, Chain, Marked
  <2>9. pc' \in [Threads -> PCs] /\ pc'[t] = "swap" /\ \A u \in Threads \ {t} : pc'[u] = pc[u]
    BY <1>1, <1>4 DEF PCs
  <2>10. CallOK(t)'
    BY <1>1, <2>9 DEF CallOK, Working, IInv
  <2>11. AnswerOK(t)'
    BY <1>1, <1>2, <1>4, <2>1, <2>9 DEF AnswerOK, Standing, IInv, Chain, Before
  <2>12. WalkOK(t)'
    BY <2>9 DEF WalkOK
  <2>13. Alone(t)
    BY <1>1, <1>4, <2>9 DEF Alone, Mine
  <2>14. TypeOK'
    BY <1>1, <1>4, <2>2, <2>9 DEF TypeOK, IInv, PCs
  <2> QED
    BY <1>1, <2>6, <2>7, <2>8, <2>10, <2>11, <2>12, <2>13, <2>14, StepKeeps DEF IInv
<1>5. CASE lnext' = [lnext EXCEPT ![t] = link] /\ UNCHANGED <<next, pc>>
  <2>1. Shape' /\ Path' /\ Grow
    BY <1>1, <1>5, QuietNodes DEF IInv, nodes
  <2>2. lnext' \in [Threads -> Links] /\ \A u \in Threads \ {t} : lnext'[u] = lnext[u]
    BY <1>2, <1>5 DEF IInv, TypeOK
  <2>3. CallOK(t)'
    BY <1>1, <1>5 DEF CallOK, Working, IInv
  <2>4. AnswerOK(t)' /\ WalkOK(t)'
    BY <1>1, <1>2, <1>5 DEF AnswerOK, WalkOK, Standing, IInv, Chain, Before
  <2>5. Alone(t)
    BY <1>1, <1>5, <2>2 DEF Alone, Mine
  <2>6. TypeOK'
    BY <1>1, <1>5, <2>2 DEF TypeOK, IInv, PCs
  <2> QED
    BY <1>1, <2>1, <2>3, <2>4, <2>5, <2>6, StepKeeps DEF IInv
<1> QED
  BY <1>3, <1>4, <1>5 DEF RemoveMark, link

-----------------------------------------------------------------------------
(* Steps that change the list *)

(* A link without a mark that leads to item. *)
LEMMA PredIsReachable ==
    ASSUME NEW t \in Threads, IInv, Standing(t), next[pred[t]] = Ref(item[t])
    PROVE  /\ pred[t] \in Reachable /\ pred[t] \in Chain /\ GET_NODE(next[pred[t]]) = item[t]
           /\ ~Marked(pred[t])
<1>1. pred[t] \in Chain
  BY DEF IInv, AnswerOK
<1>2. GET_NODE(next[pred[t]]) = item[t] /\ ~Marked(pred[t])
  BY LinkParts, Zenon DEF Marked
<1> QED
  BY <1>1, <1>2 DEF IInv, Path

(* ll_cas links a new node. *)
LEMMA CasInsertKeeps ==
    ASSUME NEW t \in Threads, IInv, CasInsert(t)
    PROVE  IInv'
<1> DEFINE x == op[t].id
           p == pred[t]
<1>1. pc[t] = "insert" /\ Standing(t) /\ Working(t) /\ pc \in [Threads -> PCs]
      /\ UNCHANGED <<retired, pred, item, lnext, lval, op, count, last, initial>>
  BY DEF CasInsert, Standing, Working, IInv, TypeOK, PCs, locals
<1>2. CASE /\ next[p] = Ref(item[t])
           /\ key' = [key EXCEPT ![x] = op[t].key] /\ val' = [val EXCEPT ![x] = op[t].new_val]
           /\ next' = [next EXCEPT ![x] = Ref(item[t]), ![p] = Ref(x)]
           /\ Return(t, DOES_NOT_EXIST)
  <2>1. /\ x = <<t, count[t]>> /\ count[t] \in 1..MaxOps /\ op[t].new_val = t
        /\ op[t].key \in Keys /\ key[x] = 0
    <3>1. /\ x = <<t, count[t]>> /\ count[t] > 0 /\ op[t].new_val = t /\ op[t].key \in Keys
      BY <1>1 DEF IInv, CallOK
    <3>2. count[t] \in 1..MaxOps
      BY <3>1 DEF IInv, TypeOK
    <3>3. key[<<t, count[t]>>] = 0
      BY <1>1, <3>2 DEF IInv, CallOK
    <3> QED
      BY <3>1, <3>2, <3>3
  <2>2. /\ p \in Chain /\ Before(p, op[t].key) /\ item[t] \in Inserted \cup {Null}
        /\ item[t] # Null => op[t].key < key[item[t]]
    BY <1>1 DEF IInv, AnswerOK, TypeOK, Keys
  <2>3. x \in Nodes /\ x \notin Inserted /\ x # Head /\ x # Null /\ p # x
    BY <2>1, <2>2, Names DEF Inserted, Chain
  <2>4. /\ key'[x] = op[t].key /\ val'[x] = t
        /\ \A n \in Nodes \ {x} : key'[n] = key[n] /\ val'[n] = val[n]
        /\ key' \in [Nodes -> 0..NumKeys] /\ val' \in [Nodes -> Threads \cup {Initial, DOES_NOT_EXIST}]
    BY <1>2, <2>1, <2>3 DEF IInv, TypeOK, Keys
  <2>5. Inserted' = Inserted \cup {x}
    <3>1. x[1] # "initial" /\ op[t].key # 0
      BY <2>1, ListAssumption DEF Keys
    <3> QED
      BY <1>1, <2>3, <2>4, <3>1 DEF Inserted
  <2>6. p \in Reachable /\ GET_NODE(next[p]) = item[t] /\ ~Marked(p)
    BY <1>1, <1>2, PredIsReachable
  <2>7. Reachable' = Reachable \cup {x} /\ Reachable \subseteq Chain
    BY <1>2, <2>3, <2>6, ReachableInsert, ReachableIsLeast, Zenon DEF IInv
  <2>8. /\ next'[p] = Ref(x) /\ next'[x] = Ref(item[t])
        /\ GET_NODE(next'[p]) = x /\ GET_NODE(next'[x]) = item[t]
        /\ \A n \in (Nodes \cup {Head}) \ {p, x} : next'[n] = next[n]
    BY <1>2, <2>2, <2>3, Names, LinkParts, Zenon DEF IInv, TypeOK, Chain
  <2>9. next' \in [Nodes \cup {Head} -> Links]
    <3>1. Ref(x) \in Links /\ Ref(item[t]) \in Links
      BY <2>2, <2>3, Names, Zenon DEF Links, Ref
    <3> QED
      BY <1>2, <3>1, Zenon DEF IInv, TypeOK
  <2> HIDE DEF x
  <2>10. Grow
    BY <1>1, <2>3, <2>4, <2>5, <2>6, <2>8, Names DEF Grow, Marked, Chain
  <2>11. Shape'
    <3>1. ASSUME NEW n \in Chain'
          PROVE  /\ GET_NODE(next'[n]) \in Inserted' \cup {Null}
                 /\ GET_NODE(next'[n]) # Null => n = Head \/ key'[n] < key'[GET_NODE(next'[n])]
      <4>1. CASE n = x
        BY <2>2, <2>3, <2>4, <2>5, <2>8, <4>1, Names
      <4>2. CASE n = p
        BY <2>2, <2>3, <2>4, <2>5, <2>8, <4>2, Names DEF Chain, Before
      <4>3. CASE n \notin {x, p}
        <5>1. n \in Chain /\ next'[n] = next[n]
          BY <2>5, <2>8, <3>1, <4>3, Names DEF Chain
        <5> QED
          BY <2>3, <2>4, <2>5, <5>1, Names DEF IInv, Shape, Before, Chain
      <4> QED
        BY <4>1, <4>2, <4>3
    <3>2. ~Marked(Head)'
      <4>1. CASE p = Head
        BY <2>8, <4>1, LinkParts, Zenon DEF Marked
      <4>2. CASE p # Head
        BY <2>3, <2>8, <4>2 DEF Marked, IInv, Shape
      <4> QED
        BY <4>1, <4>2
    <3>3. ASSUME NEW n \in Inserted', val'[n] = DOES_NOT_EXIST
          PROVE  Marked(n)'
      <4>1. n # x
        BY <2>4, <3>3, ListAssumption
      <4>2. n \in Inserted /\ val[n] = DOES_NOT_EXIST
        BY <2>4, <2>5, <3>3, <4>1, Names
      <4>3. Marked(n) /\ n # p
        BY <2>6, <4>2 DEF IInv, Shape
      <4> QED
        BY <2>8, <4>1, <4>2, <4>3, Names DEF Marked
    <3> QED
      BY <3>1, <3>2, <3>3 DEF Shape, Before
  <2>12. Path'
    <3>1. ASSUME NEW n \in Chain', ~Marked(n)'
          PROVE  n \in Reachable'
      <4>1. CASE n \in {x, p}
        BY <2>6, <2>7, <4>1
      <4>2. CASE n \notin {x, p}
        BY <2>5, <2>7, <2>8, <3>1, <4>2, Names DEF IInv, Path, Chain, Marked
      <4> QED
        BY <4>1, <4>2
    <3>2. ASSUME NEW m \in Reachable', NEW n \in Reachable',
                 GET_NODE(next'[m]) = GET_NODE(next'[n]), GET_NODE(next'[m]) # Null
          PROVE  m = n
      <4>1. \A r \in Reachable \ {p} : /\ next'[r] = next[r] /\ GET_NODE(next[r]) # x
                                       /\ r # x
        BY <2>3, <2>7, <2>8, Names DEF IInv, Shape, Chain
      <4>2. \A r \in Reachable \ {p} : GET_NODE(next[r]) # Null => GET_NODE(next[r]) # item[t]
        BY <2>6 DEF IInv, Path
      <4>3. CASE m \in Reachable \ {p} /\ n \in Reachable \ {p}
        BY <3>2, <4>1, <4>3 DEF IInv, Path
      <4>4. CASE m \in Reachable \ {p} /\ n \in {p, x}
        BY <2>8, <3>2, <4>1, <4>2, <4>4
      <4>5. CASE n \in Reachable \ {p} /\ m \in {p, x}
        BY <2>8, <3>2, <4>1, <4>2, <4>5
      <4>6. CASE m \in {p, x} /\ n \in {p, x}
        BY <2>2, <2>3, <2>8, <3>2, <4>6
      <4> QED
        BY <2>7, <4>3, <4>4, <4>5, <4>6
    <3>3. ASSUME NEW n \in Nodes
          PROVE  retired'[n] = IF n \in Inserted' \ Reachable' THEN 1 ELSE 0
      BY <1>1, <2>3, <2>5, <2>7 DEF IInv, Path
    <3> QED
      BY <3>1, <3>2, <3>3 DEF Path
  <2>13. /\ pc' \in [Threads -> PCs] /\ pc'[t] = "idle"
         /\ \A u \in Threads \ {t} : pc'[u] = pc[u]
         /\ AnswerOK(t)' /\ WalkOK(t)'
    BY <1>1, <1>2, Returns, Zenon DEF Return
  <2>14. \A u \in Threads, i \in 1..MaxOps : <<u, i>> # x => key'[<<u, i>>] = key[<<u, i>>]
    BY <2>4, Names
  <2>15. CallOK(t)'
    BY <1>1, <2>1, <2>13, <2>14 DEF CallOK, Working, IInv, TypeOK
  <2>16. Alone(t)
    BY <1>1, <2>1, <2>13, <2>14 DEF Alone, Mine
  <2>17. TypeOK'
    BY <1>1, <2>4, <2>9, <2>13 DEF TypeOK, IInv, PCs
  <2> QED
    BY <1>1, <2>10, <2>11, <2>12, <2>13, <2>15, <2>16, <2>17, StepKeeps DEF IInv
<1>3. CASE pc' = [pc EXCEPT ![t] = "find"] /\ UNCHANGED <<key, val, next>>
  <2>1. Shape' /\ Path' /\ Grow
    BY <1>1, <1>3, QuietNodes DEF IInv, nodes
  <2>2. pc' \in [Threads -> PCs] /\ pc'[t] = "find" /\ \A u \in Threads \ {t} : pc'[u] = pc[u]
    BY <1>1, <1>3 DEF PCs
  <2>3. CallOK(t)'
    BY <1>1, <1>3, <2>2 DEF CallOK, Working, IInv
  <2>4. AnswerOK(t)' /\ WalkOK(t)'
    BY <2>2 DEF AnswerOK, Standing, WalkOK
  <2>5. Alone(t)
    BY <1>1, <1>3, <2>2 DEF Alone, Mine
  <2>6. TypeOK'
    BY <1>1, <1>3, <2>2 DEF TypeOK, IInv, PCs
  <2> QED
    BY <1>1, <2>1, <2>3, <2>4, <2>5, <2>6, StepKeeps DEF IInv
<1> QED
  BY <1>2, <1>3 DEF CasInsert

(* The node that is to be taken out is marked, and lnext is what follows it. *)
LEMMA ItemIsFrozen ==
    ASSUME NEW t \in Threads, IInv, pc[t] \in {"unlink", "remove_unlink"}
    PROVE  Marked(item[t]) /\ GET_NODE(next[item[t]]) = GET_NODE(lnext[t])
<1>1. CASE pc[t] = "unlink"
  BY <1>1 DEF IInv, AnswerOK, Marked
<1>2. CASE pc[t] = "remove_unlink"
  BY <1>2, LinkParts, Zenon DEF IInv, AnswerOK, Marked
<1> QED
  BY <1>1, <1>2

(* A marked node is unlinked and retired by the one whose swap succeeds. *)
LEMMA UnlinkKeeps ==
    ASSUME NEW t \in Threads, IInv, pc[t] \in {"unlink", "remove_unlink"},
           Unlink(t, GET_NODE(lnext[t])), UNCHANGED <<key, val, initial>>
    PROVE  /\ Shape' /\ Path' /\ Grow
           /\ next' \in [Nodes \cup {Head} -> Links] /\ retired' \in [Nodes -> Nat]
<1> DEFINE x == item[t]
           p == pred[t]
           succ == GET_NODE(next[x])
<1>1. Standing(t) /\ pc[t] # "insert"
  BY DEF Standing
<1>2. /\ x \in Inserted /\ x \in Nodes /\ x # Head /\ x # Null /\ succ \in Inserted \cup {Null}
      /\ succ # Null => key[x] < key[succ]
      /\ Before(p, key[x]) /\ key[x] \in Nat
  BY <1>1, ItemFacts, Names
<1>3. Marked(x) /\ succ = GET_NODE(lnext[t])
  BY ItemIsFrozen
<1>4. /\ p \in Reachable /\ p \in Chain /\ GET_NODE(next[p]) = x /\ ~Marked(p)
  BY <1>1, PredIsReachable DEF Unlink
<1>5. /\ next' = [next EXCEPT ![p] = Ref(succ)] /\ retired' = [retired EXCEPT ![x] = @ + 1]
  BY <1>3 DEF Unlink
<1>6. p # x /\ succ # x /\ p \in Nodes \cup {Head}
  BY <1>2, <1>3, <1>4, Names DEF Chain
<1>7. x \in Reachable /\ Reachable' = Reachable \ {x} /\ Reachable \subseteq Chain
  BY <1>2, <1>4, <1>5, <1>6, ReachableUnlink, ReachableIsLeast, Zenon DEF IInv
<1>8. Inserted' = Inserted
  BY DEF Inserted
<1>9. /\ next'[p] = Ref(succ) /\ GET_NODE(next'[p]) = succ
      /\ \A n \in (Nodes \cup {Head}) \ {p} : next'[n] = next[n]
  BY <1>5, <1>6, LinkParts, Zenon DEF IInv, TypeOK
<1>10. next' \in [Nodes \cup {Head} -> Links]
  <2>1. Ref(succ) \in Links
    BY <1>2, Names, Zenon DEF Links, Ref
  <2> QED
    BY <1>5, <2>1, Zenon DEF IInv, TypeOK
<1>11. retired[x] = 0 /\ retired'[x] = 1 /\ retired' \in [Nodes -> Nat]
       /\ \A n \in Nodes \ {x} : retired'[n] = retired[n]
  <2>1. retired[x] = 0
    BY <1>2, <1>7 DEF IInv, Path
  <2> QED
    BY <1>2, <1>5, <2>1 DEF IInv, TypeOK
<1> HIDE DEF x, p, succ
<1>12. Grow
  BY <1>4, <1>8, <1>9, Names DEF Grow, Marked, Chain
<1>13. Shape'
  <2>1. ASSUME NEW n \in Chain
        PROVE  /\ GET_NODE(next'[n]) \in Inserted \cup {Null}
               /\ GET_NODE(next'[n]) # Null => Before(n, key[GET_NODE(next'[n])])
    <3>1. CASE n = p
      <4>1. succ # Null => key[succ] \in Nat
        BY <1>2, Names DEF IInv, TypeOK
      <4>2. p # Head => key[p] \in Nat
        BY <1>4, Names DEF IInv, TypeOK, Chain
      <4> QED
        BY <1>2, <1>9, <3>1, <4>1, <4>2 DEF Before
    <3>2. CASE n # p
      BY <1>9, <2>1, <3>2, Names DEF IInv, Shape, Chain
    <3> QED
      BY <3>1, <3>2
  <2>2. ~Marked(Head)'
    BY <1>9, LinkParts, Zenon DEF Marked, IInv, Shape
  <2>3. \A n \in Inserted : val[n] = DOES_NOT_EXIST => Marked(n)'
    BY <1>4, <1>9, Names DEF IInv, Shape, Marked
  <2> QED
    BY <1>8, <2>1, <2>2, <2>3 DEF Shape, Chain, Before
<1>14. Path'
  <2>1. ASSUME NEW n \in Chain, ~Marked(n)'
        PROVE  n \in Reachable'
    <3>1. CASE n = p
      BY <1>4, <1>6, <1>7, <3>1
    <3>2. CASE n # p
      BY <1>3, <1>7, <1>9, <2>1, <3>2, Names DEF IInv, Path, Chain, Marked
    <3> QED
      BY <3>1, <3>2
  <2>2. ASSUME NEW m \in Reachable', NEW n \in Reachable',
               GET_NODE(next'[m]) = GET_NODE(next'[n]), GET_NODE(next'[m]) # Null
        PROVE  m = n
    <3>1. \A r \in Reachable \ {p} : next'[r] = next[r]
      BY <1>7, <1>9, Names DEF Chain
    <3>2. \A r \in Reachable \ {x} : GET_NODE(next[r]) # Null => GET_NODE(next[r]) # succ
      BY <1>7 DEF IInv, Path, succ
    <3> QED
      BY <1>7, <1>9, <2>2, <3>1, <3>2 DEF IInv, Path
  <2>3. ASSUME NEW n \in Nodes
        PROVE  retired'[n] = IF n \in Inserted \ Reachable' THEN 1 ELSE 0
    BY <1>2, <1>7, <1>11 DEF IInv, Path
  <2> QED
    BY <1>8, <2>1, <2>2, <2>3 DEF Path, Chain
<1> QED
  BY <1>10, <1>11, <1>12, <1>13, <1>14

(* A walk unlinks the marked node it met. *)
LEMMA FindUnlinkKeeps ==
    ASSUME NEW t \in Threads, IInv, FindUnlink(t)
    PROVE  IInv'
<1>1. pc[t] = "unlink" /\ Standing(t) /\ Working(t) /\ pc \in [Threads -> PCs]
      /\ UNCHANGED <<key, val, pred, lnext, lval, op, count, last, initial>>
  BY DEF FindUnlink, Standing, Working, IInv, TypeOK, PCs
<1>2. pred[t] \in Chain /\ Before(pred[t], op[t].key)
  BY <1>1, ItemFacts
<1>3. SUFFICES ASSUME Shape' /\ Path' /\ Grow, Moved(t),
                      next' \in [Nodes \cup {Head} -> Links], retired' \in [Nodes -> Nat]
               PROVE  IInv'
  <2>1. CASE Unlink(t, GET_NODE(lnext[t])) /\ MoveTo(t, GET_NODE(lnext[t]))
    <3> DEFINE n == GET_NODE(lnext[t])
    <3>1. /\ Shape' /\ Path' /\ Grow
          /\ next' \in [Nodes \cup {Head} -> Links] /\ retired' \in [Nodes -> Nat]
      BY <1>1, <2>1, UnlinkKeeps
    <3>2. n \in Inserted \cup {Null} /\ (n # Null => Before(pred[t], key[n]))
      <4>1. /\ n \in Inserted \cup {Null} /\ (n # Null => key[item[t]] < key[n])
            /\ Before(pred[t], key[item[t]]) /\ key[item[t]] \in Nat
        BY <1>1, ItemFacts, ItemIsFrozen
      <4>2. /\ pred[t] # Head => key[pred[t]] \in Nat
            /\ n # Null => key[n] \in Nat
        BY <1>2, <4>1, Names DEF IInv, TypeOK, Chain
      <4> QED
        BY <4>1, <4>2 DEF Before
    <3>3. Moved(t)
      BY <1>1, <1>2, <2>1, <3>2, Moves
    <3> QED
      BY <1>3, <3>1, <3>3
  <2>2. CASE HAS_MARK(next[pred[t]]) /\ pc' = [pc EXCEPT ![t] = "find"]
             /\ UNCHANGED <<item, next, retired>>
    <3>1. Shape' /\ Path' /\ Grow
      BY <1>1, <2>2, QuietNodes DEF IInv, nodes
    <3>2. pc' \in [Threads -> PCs] /\ pc'[t] = "find" /\ \A u \in Threads \ {t} : pc'[u] = pc[u]
      BY <1>1, <2>2 DEF PCs
    <3>3. CallOK(t)'
      BY <1>1, <3>2 DEF CallOK, Working, IInv
    <3>4. AnswerOK(t)' /\ WalkOK(t)'
      BY <3>2 DEF AnswerOK, Standing, WalkOK
    <3>5. Alone(t)
      BY <1>1, <2>2, <3>2 DEF Alone, Mine
    <3>6. TypeOK'
      BY <1>1, <2>2, <3>2 DEF TypeOK, IInv, PCs
    <3> QED
      BY <1>1, <3>1, <3>3, <3>4, <3>5, <3>6, StepKeeps DEF IInv
  <2>3. CASE MoveTo(t, GET_NODE(next[pred[t]])) /\ UNCHANGED <<next, retired>>
    <3> DEFINE n == GET_NODE(next[pred[t]])
    <3>1. /\ Shape' /\ Path' /\ Grow
          /\ next' \in [Nodes \cup {Head} -> Links] /\ retired' \in [Nodes -> Nat]
      BY <1>1, <2>3, QuietNodes DEF IInv, nodes, TypeOK
    <3>2. n \in Inserted \cup {Null} /\ (n # Null => Before(pred[t], key[n]))
      BY <1>2 DEF IInv, Shape
    <3>3. Moved(t)
      BY <1>1, <1>2, <2>3, <3>2, Moves
    <3> QED
      BY <1>3, <3>1, <3>3
  <2> QED
    BY <2>1, <2>2, <2>3 DEF FindUnlink
<1>4. Alone(t)
  BY <1>1, <1>3 DEF Moved, Alone, Mine
<1>5. TypeOK'
  BY <1>1, <1>3, Names DEF Moved, TypeOK, IInv, PCs
<1> QED
  BY <1>1, <1>3, <1>4, <1>5, StepKeeps DEF Moved, IInv

(* ll_remove unlinks the node it marked. *)
LEMMA RemoveUnlinkKeeps ==
    ASSUME NEW t \in Threads, IInv, RemoveUnlink(t)
    PROVE  IInv'
<1>1. pc[t] = "remove_unlink" /\ pc' = [pc EXCEPT ![t] = "idle"]
      /\ UNCHANGED <<key, val, pred, item, lnext, lval, op, count, last, initial>>
  BY DEF RemoveUnlink, Return, locals
<1>2. /\ Shape' /\ Path' /\ Grow
      /\ next' \in [Nodes \cup {Head} -> Links] /\ retired' \in [Nodes -> Nat]
  <2>1. CASE Unlink(t, GET_NODE(lnext[t]))
    BY <1>1, <2>1, UnlinkKeeps
  <2>2. CASE UNCHANGED <<next, retired>>
    BY <1>1, <2>2, QuietNodes DEF IInv, nodes, TypeOK
  <2> QED
    BY <2>1, <2>2 DEF RemoveUnlink
<1>3. /\ pc' \in [Threads -> PCs] /\ pc'[t] = "idle"
      /\ \A u \in Threads \ {t} : pc'[u] = pc[u]
      /\ AnswerOK(t)' /\ WalkOK(t)'
  BY <1>1, Returns, Zenon DEF IInv, TypeOK, PCs
<1>4. CallOK(t)'
  BY <1>1, <1>3 DEF CallOK, Working, IInv
<1>5. Alone(t)
  BY <1>1, <1>3 DEF Alone, Mine
<1>6. TypeOK'
  BY <1>1, <1>2, <1>3 DEF TypeOK, IInv, PCs
<1> QED
  BY <1>1, <1>2, <1>3, <1>4, <1>5, <1>6, StepKeeps DEF IInv

-----------------------------------------------------------------------------
(* The initial list *)

Present == {k \in Keys : initial[k] # DOES_NOT_EXIST}
After(k) == {j \in Present : j > k}
Succ(k) == IF After(k) = {} THEN Null
           ELSE InitialNode(CHOOSE j \in After(k) : \A m \in After(k) : j <= m)

(* The node of key k, head standing for 0, below all keys. *)
Node(k) == IF k = 0 THEN Head ELSE InitialNode(k)

(* The next present key is the least above. *)
LEMMA SuccIsLeast ==
    ASSUME NEW k \in Nat, After(k) # {}
    PROVE  \E j \in After(k) : Succ(k) = InitialNode(j) /\ \A m \in After(k) : j <= m
<1> DEFINE j == CHOOSE j \in After(k) : \A m \in After(k) : j <= m
<1>1. After(k) \subseteq Nat
  BY ListAssumption DEF After, Present, Keys
<1>2. j \in After(k) /\ \A m \in After(k) : j <= m
  BY <1>1, Least
<1> QED
  BY <1>2, Zenon DEF Succ

(* What ll_alloc and the inserts before the start leave. *)
LEMMA InitNodes ==
    ASSUME Init
    PROVE  /\ \A k \in Keys : /\ InitialNode(k) \in Nodes /\ key[InitialNode(k)] = k
                               /\ val[InitialNode(k)] = Initial
           /\ \A k \in Keys \cup {0} : next[Node(k)] = Ref(Succ(k))
           /\ \A t \in Threads, i \in 1..MaxOps : key[<<t, i>>] = 0
           /\ Inserted = {InitialNode(k) : k \in Present}
           /\ Chain = {Node(k) : k \in Present \cup {0}}
<1>1. \A k \in Keys : InitialNode(k) \in Nodes /\ InitialNode(k)[1] = "initial"
                      /\ InitialNode(k)[2] = k /\ k # 0
  BY ListAssumption DEF Nodes, InitialNode, Keys
<1>2. \A t \in Threads, i \in 1..MaxOps : <<t, i>> \in Nodes /\ <<t, i>>[1] # "initial"
  BY ListAssumption DEF Nodes
<1>3. \A k \in Keys : key[InitialNode(k)] = k /\ val[InitialNode(k)] = Initial
  BY <1>1, Zenon DEF Init
<1>4. \A t \in Threads, i \in 1..MaxOps : key[<<t, i>>] = 0
  BY <1>2, Zenon DEF Init
<1>5. next[Head] = Ref(Succ(0))
  BY Zenon DEF Init, Succ, After, Present
<1>6. \A k \in Keys : next[InitialNode(k)] = Ref(Succ(k))
  <2>1. \A n \in Nodes : n # Head /\ n[1] = "initial" => next[n] = Ref(Succ(n[2]))
    BY Zenon DEF Init, Succ, After, Present
  <2> QED
    BY <1>1, <2>1, Names
<1>7. \A k \in Keys \cup {0} : next[Node(k)] = Ref(Succ(k))
  BY <1>1, <1>5, <1>6 DEF Node
<1>8. ASSUME NEW n \in Nodes
      PROVE  n \in Inserted <=> n \in {InitialNode(k) : k \in Present}
  <2>1. CASE n \in {InitialNode(k) : k \in Keys}
    BY <1>1, <1>3, <2>1 DEF Inserted, Present
  <2>2. CASE n \in Threads \X (1..MaxOps)
    <3>1. key[n] = 0 /\ n[1] # "initial"
      BY <1>2, <1>4, <2>2
    <3> QED
      BY <1>1, <3>1 DEF Inserted, Present
  <2> QED
    BY <2>1, <2>2 DEF Nodes
<1>9. Inserted = {InitialNode(k) : k \in Present}
  BY <1>1, <1>8, Names DEF Present
<1>10. Chain = {Node(k) : k \in Present \cup {0}}
  BY <1>1, <1>9 DEF Chain, Node, Present
<1> QED
  BY <1>1, <1>3, <1>4, <1>7, <1>9, <1>10

(* The list starts with all of its nodes reachable. *)
LEMMA InitPath ==
    ASSUME Init
    PROVE  Chain \subseteq Reachable
<1>1. SUFFICES ASSUME NEW S \in Closed
               PROVE  Chain \subseteq S
  BY Names DEF Reachable, Chain
<1>2. Head \in S /\ \A n \in S : GET_NODE(next[n]) \in S \cup {Null}
  BY DEF Closed
<1> DEFINE Missing == {k \in Present : Node(k) \notin S}
<1>3. SUFFICES ASSUME Missing # {}
               PROVE  FALSE
  BY <1>2, InitNodes DEF Node
<1>4. Present \subseteq Nat \ {0} /\ Present \subseteq Keys
  BY ListAssumption DEF Present, Keys
<1>5. PICK b \in Missing : \A k \in Missing : b <= k
  BY <1>3, <1>4, Least, Zenon
<1> DEFINE Below == {j \in Present \cup {0} : j < b}
           Gaps == {b - j : j \in Below}
<1>6. /\ b \in Nat \ {0} /\ b \in Present /\ Node(b) \notin S
      /\ Below \subseteq Nat /\ 0 \in Below
  <2>1. b \in Nat \ {0} /\ b \in Present /\ Node(b) \notin S
    BY <1>4, <1>5
  <2>2. 0 < b
    BY <2>1
  <2>3. 0 \in Below
    BY <2>2
  <2>4. Below \subseteq Nat
    <3>1. \A j \in Present \cup {0} : j \in Nat
      BY <1>4
    <3>2. \A j \in Below : j \in Present \cup {0}
      OBVIOUS
    <3> HIDE DEF Below
    <3> QED
      BY <3>1, <3>2
  <2> QED
    BY <2>1, <2>3, <2>4
<1>7. Gaps \subseteq Nat /\ Gaps # {}
  BY <1>6
<1>8. PICK g \in Gaps : \A h \in Gaps : g <= h
  <2> HIDE DEF Gaps
  <2> QED
    BY <1>7, Least
<1>9. PICK j \in Below : g = b - j
  BY <1>8
<1>10. \A m \in Below : m <= j
  <2>1. \A m \in Below : b - j <= b - m
    BY <1>8, <1>9
  <2> HIDE DEF Below
  <2> QED
    BY <1>6, <1>9, <2>1
<1>11. b \in After(j) /\ \A m \in After(j) : b <= m
  BY <1>4, <1>5, <1>6, <1>10 DEF After
<1>12. Succ(j) = InitialNode(b)
  <2>1. PICK l \in After(j) : Succ(j) = InitialNode(l) /\ \A m \in After(j) : l <= m
    BY <1>6, <1>9, <1>11, SuccIsLeast
  <2>2. l = b
    BY <1>4, <1>11, <2>1 DEF After
  <2> QED
    BY <2>1, <2>2
<1>13. Node(j) \in S
  <2>1. CASE j = 0
    BY <1>2, <2>1 DEF Node
  <2>2. CASE j # 0
    <3>1. j \in Present /\ j < b /\ j \in Nat
      BY <1>4, <1>9, <2>2
    <3>2. j \notin Missing
      BY <1>5, <1>6, <3>1
    <3> QED
      BY <3>1, <3>2
  <2> QED
    BY <2>1, <2>2
<1>14. InitialNode(b) \in S \cup {Null}
  <2>1. j \in Keys \cup {0}
    BY <1>4, <1>9
  <2>2. next[Node(j)] = Ref(InitialNode(b))
    BY <1>12, <2>1, InitNodes
  <2> QED
    BY <1>2, <1>13, <2>2, LinkParts, Zenon
<1>15. InitialNode(b) # Null
  BY <1>4, <1>5, InitNodes, Names
<1> QED
  BY <1>5, <1>6, <1>14, <1>15 DEF Node

(* The invariant holds at the start. *)
LEMMA InitHolds == Init => IInv
<1> SUFFICES ASSUME Init
             PROVE  IInv
  OBVIOUS
<1>1. Present \subseteq Nat \ {0} /\ Present \subseteq Keys /\ 0 \notin Keys /\ Keys \subseteq Nat
  BY ListAssumption DEF Present, Keys
<1>2. \A k \in Nat : Succ(k) \in Inserted \cup {Null}
  BY SuccIsLeast, InitNodes DEF After, Succ
<1>3. TypeOK
  <2>1. key \in [Nodes -> 0..NumKeys]
    <3>1. \A n \in Nodes : n[1] = "initial" => n[2] \in Keys
      BY ListAssumption DEF Nodes, InitialNode
    <3>2. Keys \subseteq 0..NumKeys /\ 0 \in 0..NumKeys
      BY ListAssumption DEF Keys
    <3> QED
      BY <3>1, <3>2, Zenon DEF Init
  <2>2. val \in [Nodes -> Threads \cup {Initial, DOES_NOT_EXIST}]
    BY Zenon DEF Init
  <2>3. next \in [Nodes \cup {Head} -> Links]
    <3>1. \A k \in Nat : Ref(Succ(k)) \in Links
      BY <1>2, Names, Zenon DEF Ref, Links
    <3>2. Ref(Null) \in Links
      BY Zenon DEF Ref, Links
    <3>3. \A n \in Nodes : n[1] = "initial" => n[2] \in Nat
      BY ListAssumption DEF Nodes, InitialNode, Keys
    <3> QED
      BY <3>1, <3>2, <3>3, Zenon DEF Init, Succ, After, Present
  <2>4. lnext \in [Threads -> Links]
    BY Zenon DEF Init, Ref, Links
  <2>5. /\ retired \in [Nodes -> Nat]
        /\ pred \in [Threads -> Nodes \cup {Head, Null}]
        /\ item \in [Threads -> Nodes \cup {Null}]
        /\ lval \in [Threads -> Threads \cup {Initial, DOES_NOT_EXIST}]
        /\ count \in [Threads -> 0..MaxOps]
        /\ last \in [Threads -> 0..NumKeys]
    <3>1. 0 \in 0..MaxOps /\ 0 \in Nat /\ 0 \in 0..NumKeys
      BY ListAssumption
    <3> QED
      BY <3>1, Zenon DEF Init
  <2> QED
    BY <2>1, <2>2, <2>3, <2>4, <2>5, Zenon DEF TypeOK, Init
<1>4. \A k \in Present \cup {0} :
        /\ GET_NODE(next[Node(k)]) = Succ(k) /\ HAS_MARK(next[Node(k)]) = FALSE
  <2>1. \A k \in Present \cup {0} : next[Node(k)] = Ref(Succ(k))
    BY <1>1, InitNodes
  <2> QED
    BY <2>1, LinkParts, Zenon
<1>5. ASSUME NEW k \in Present \cup {0}, Succ(k) # Null
      PROVE  \E j \in Present : /\ Succ(k) = InitialNode(j) /\ k < j
                                 /\ key[Succ(k)] = j /\ \A m \in After(k) : j <= m
  <2>1. PICK j \in After(k) : Succ(k) = InitialNode(j) /\ \A m \in After(k) : j <= m
    BY <1>1, <1>5, SuccIsLeast DEF Succ
  <2> QED
    BY <1>1, <2>1, InitNodes DEF After
<1>6. \A k \in Present : Node(k) # Head /\ key[Node(k)] = k
  BY <1>1, InitNodes, Names DEF Node
<1>7. Shape
  <2>1. ASSUME NEW n \in Chain
        PROVE  /\ GET_NODE(next[n]) \in Inserted \cup {Null}
               /\ GET_NODE(next[n]) # Null => Before(n, key[GET_NODE(next[n])])
    <3>1. PICK k \in Present \cup {0} : n = Node(k)
      BY InitNodes
    <3>2. GET_NODE(next[n]) = Succ(k) /\ Succ(k) \in Inserted \cup {Null}
      BY <1>1, <1>2, <1>4, <3>1
    <3>3. Succ(k) # Null => Before(n, key[Succ(k)])
      BY <1>5, <1>6, <3>1 DEF Before, Node
    <3> QED
      BY <3>2, <3>3
  <2>2. ~Marked(Head)
    BY <1>4 DEF Marked, Node
  <2>3. \A n \in Inserted : val[n] # DOES_NOT_EXIST
    BY <1>1, InitNodes, ListAssumption
  <2> QED
    BY <2>1, <2>2, <2>3 DEF Shape
<1>8. Path
  <2>1. Chain \subseteq Reachable /\ Reachable \subseteq Chain
    BY <1>3, <1>7, InitPath, ReachableIsLeast
  <2>2. ASSUME NEW m \in Reachable, NEW n \in Reachable,
               GET_NODE(next[m]) = GET_NODE(next[n]), GET_NODE(next[m]) # Null
        PROVE  m = n
    <3>1. PICK i \in Present \cup {0}, k \in Present \cup {0} : m = Node(i) /\ n = Node(k)
      BY <2>1, InitNodes
    <3>2. Succ(i) = Succ(k) /\ Succ(i) # Null
      BY <1>4, <2>2, <3>1
    <3>3. PICK j \in Present : key[Succ(i)] = j /\ i < j /\ \A l \in After(i) : j <= l
      BY <1>5, <3>2
    <3>4. k < j /\ \A l \in After(k) : j <= l
      BY <1>5, <3>2, <3>3
    <3>5. i = k
      BY <1>1, <3>3, <3>4 DEF After
    <3> QED
      BY <3>1, <3>5
  <2>3. \A n \in Nodes : retired[n] = 0 /\ n \notin Inserted \ Reachable
    BY <2>1, Zenon DEF Init, Chain
  <2> QED
    BY <2>1, <2>2, <2>3 DEF Path
<1>9. \A t \in Threads : CallOK(t) /\ AnswerOK(t) /\ WalkOK(t)
  <2> TAKE t \in Threads
  <2>1. pc[t] = "idle"
    BY Zenon DEF Init
  <2>2. CallOK(t)
    BY <2>1, InitNodes DEF CallOK, Working
  <2>3. AnswerOK(t) /\ WalkOK(t)
    BY <2>1 DEF AnswerOK, WalkOK, Standing
  <2> QED
    BY <2>2, <2>3
<1> QED
  BY <1>3, <1>7, <1>8, <1>9, Zenon DEF IInv, Init

-----------------------------------------------------------------------------
(* Theorems *)

(* No step of the list breaks the invariant. *)
LEMMA NextKeeps == IInv /\ [Next]_vars => IInv'
<1> SUFFICES ASSUME IInv, [Next]_vars
             PROVE  IInv'
  OBVIOUS
<1>1. ASSUME NEW t \in Threads, Step(t)
      PROVE  IInv'
  BY <1>1, FindKeeps, FindLoadNextKeeps, FindSkipKeeps, FindUnlinkKeeps, LookupReadKeeps,
     CasInsertKeeps, CasLoadValKeeps, CasValKeeps, RemoveLoadLinkKeeps, RemoveMarkKeeps,
     RemoveSwapKeeps, RemoveUnlinkKeeps, IterNextKeeps, IterValKeeps DEF Step
<1>2. ASSUME NEW t \in Threads, CallMap(t)
      PROVE  IInv'
  BY <1>2, CallMapKeeps
<1>3. ASSUME NEW t \in Threads, IterBegin(t)
      PROVE  IInv'
  BY <1>3, IterBeginKeeps
<1>5. ASSUME NEW t \in Threads, IterBeginAt(t)
      PROVE  IInv'
  BY <1>5, IterBeginAtKeeps
<1>4. ASSUME UNCHANGED vars
      PROVE  IInv'
  <2>1. Shape' /\ Path'
    BY <1>4, QuietNodes DEF IInv, vars, history
  <2>2. TypeOK' /\ DOMAIN op' = Threads /\ initial' = initial
    BY <1>4 DEF IInv, TypeOK, vars, nodes, locals, history
  <2>3. \A t \in Threads : CallOK(t)' /\ AnswerOK(t)' /\ WalkOK(t)'
    BY <1>4 DEF IInv, vars, nodes, locals, history, CallOK, AnswerOK, WalkOK, Working,
                Standing, Chain, Inserted, Before
  <2> QED
    BY <2>1, <2>2, <2>3 DEF IInv
<1> QED
  BY <1>1, <1>2, <1>3, <1>4, <1>5 DEF Next

(* The invariant holds of every list. *)
THEOREM Invariance == Spec => []IInv
<1> QED
  BY InitHolds, NextKeeps, PTL DEF Spec

(* Keys ascend along every link, also the links of nodes that were removed    *)
(* under a search that stands on them (find_pred, list.c:161-175).            *)
THEOREM ListIsSorted == Spec => []Sorted
<1>1. IInv => Sorted
  BY Names DEF IInv, Sorted, Shape, Chain, Before
<1> QED
  BY <1>1, Invariance, PTL

(* A node is handed to rcu_defer_free once, by the thread whose               *)
(* compare-and-swap takes it out of the list (list.c:128, 318).               *)
THEOREM NodesAreRetiredWhenGone == Spec => []RetiredWhenGone
<1>1. IInv => RetiredWhenGone
  BY Names DEF IInv, RetiredWhenGone, Path
<1> QED
  BY <1>1, Invariance, PTL

(* The mark and the DOES_NOT_EXIST of a removed node are for good             *)
(* (list.c:263).                                                              *)
THEOREM RemovalIsFinal == Spec => RemovedStaysRemoved
<1> DEFINE Final == \A n \in Inserted :
                      /\ Marked(n) => next'[n] = next[n]
                      /\ val[n] = DOES_NOT_EXIST => Marked(n) /\ val'[n] = DOES_NOT_EXIST
<1>1. ASSUME IInv, [Next]_vars
      PROVE  [Final]_vars
  <2>1. \A n \in Inserted : val[n] = DOES_NOT_EXIST => Marked(n)
    BY <1>1 DEF IInv, Shape
  <2>2. SUFFICES ASSUME NEW t \in Threads, Step(t) \/ CallMap(t) \/ IterBegin(t) \/ IterBeginAt(t)
                 PROVE  \A n \in Inserted :
                          /\ Marked(n) => next'[n] = next[n]
                          /\ val[n] = DOES_NOT_EXIST => val'[n] = DOES_NOT_EXIST
    BY <1>1, <2>1 DEF Next
  <2>3. CASE UNCHANGED nodes
    BY <2>3 DEF nodes
  <2>4. CASE CasInsert(t) /\ ~UNCHANGED nodes
    <3> DEFINE x == op[t].id
               p == pred[t]
    <3>1. /\ pc[t] = "insert" /\ next[p] = Ref(item[t])
          /\ val' = [val EXCEPT ![x] = op[t].new_val]
          /\ next' = [next EXCEPT ![x] = Ref(item[t]), ![p] = Ref(x)]
      BY <2>4 DEF CasInsert, nodes
    <3>2. x = <<t, count[t]>> /\ count[t] \in 1..MaxOps /\ key[<<t, count[t]>>] = 0
      <4>1. x = <<t, count[t]>> /\ count[t] > 0
        BY <1>1, <3>1 DEF IInv, CallOK, Working
      <4>2. count[t] \in 1..MaxOps
        BY <1>1, <4>1 DEF IInv, TypeOK
      <4> QED
        BY <1>1, <3>1, <4>1, <4>2 DEF IInv, CallOK, Working
    <3>3. x \notin Inserted
      BY <3>2 DEF Inserted
    <3>4. ~Marked(p)
      BY <3>1, LinkParts, Zenon DEF Marked
    <3> HIDE DEF x, p
    <3> QED
      BY <1>1, <3>1, <3>3, <3>4, Names DEF IInv, TypeOK, Marked
  <2>5. CASE CasVal(t)
    <3>1. lval[t] # DOES_NOT_EXIST
      BY <1>1, <2>5 DEF CasVal, IInv, AnswerOK
    <3> QED
      BY <1>1, <2>5, <3>1, Names DEF CasVal, IInv, TypeOK
  <2>6. CASE RemoveMark(t)
    BY <1>1, <2>6, Names DEF RemoveMark, IInv, TypeOK, Marked
  <2>7. CASE RemoveSwap(t)
    BY <1>1, <2>7, Names DEF RemoveSwap, IInv, TypeOK
  <2>8. CASE FindUnlink(t) \/ RemoveUnlink(t)
    <3>1. UNCHANGED val
      BY <2>8 DEF FindUnlink, RemoveUnlink
    <3>2. UNCHANGED next \/ (Unlink(t, GET_NODE(lnext[t])) /\ UNCHANGED <<key, initial>>)
      BY <2>8 DEF FindUnlink, RemoveUnlink
    <3>3. CASE Unlink(t, GET_NODE(lnext[t]))
      <4>1. next[pred[t]] = Ref(item[t]) /\ next' = [next EXCEPT ![pred[t]] = Ref(GET_NODE(lnext[t]))]
        BY <3>3 DEF Unlink
      <4>2. ~Marked(pred[t])
        BY <4>1, LinkParts, Zenon DEF Marked
      <4> QED
        BY <1>1, <3>1, <4>1, <4>2, Names DEF IInv, TypeOK
    <3> QED
      BY <3>1, <3>2, <3>3
  <2> QED
    BY <2>2, <2>3, <2>4, <2>5, <2>6, <2>7, <2>8, Zenon
       DEF Step, Find, FindLoadNext, FindSkip, LookupRead, CasLoadVal, RemoveLoadLink,
           IterNext, IterVal, CallMap, IterBegin, IterBeginAt, Call
<1>2. Spec => [][Final]_vars
  BY <1>1, Invariance, PTL DEF Spec
<1> QED
  BY <1>2 DEF RemovedStaysRemoved

(* A step moves the thread that takes it and no other. *)
LEMMA OneMoves ==
    ASSUME NEW u \in Threads, pc \in [Threads -> PCs],
           Step(u) \/ CallMap(u) \/ IterBegin(u) \/ IterBeginAt(u)
    PROVE  \A t \in Threads \ {u} : pc'[t] = pc[t]
<1> DEFINE Others == \A t \in Threads \ {u} : pc'[t] = pc[t]
<1>1. ASSUME NEW x, pc' = [pc EXCEPT ![u] = x]
      PROVE  Others
  BY <1>1
<1>2. UNCHANGED pc => Others
  OBVIOUS
<1>3. NotFound(u) \/ Found(u) => Others
  BY <1>1 DEF NotFound, Found, Return
<1>4. \A n : MoveTo(u, n) => Others
  BY <1>1, <1>3 DEF MoveTo, EndOfList
<1>5. \A v : Return(u, v) \/ CasDecide(u, v) => Others
  BY <1>1 DEF Return, CasDecide
<1> HIDE DEF Others
<1>6. Find(u) \/ FindLoadNext(u) \/ FindSkip(u) \/ FindUnlink(u) => Others
  BY <1>1, <1>3, <1>4 DEF Find, FindLoadNext, FindSkip, FindUnlink
<1>7. LookupRead(u) \/ CasInsert(u) \/ CasLoadVal(u) \/ CasVal(u) => Others
  BY <1>1, <1>5 DEF LookupRead, CasInsert, CasLoadVal, CasVal
<1>8. RemoveLoadLink(u) \/ RemoveMark(u) \/ RemoveSwap(u) \/ RemoveUnlink(u) => Others
  BY <1>1, <1>2, <1>5 DEF RemoveLoadLink, RemoveMark, RemoveSwap, RemoveUnlink
<1>9. IterNext(u) \/ IterVal(u) \/ CallMap(u) \/ IterBegin(u) \/ IterBeginAt(u) => Others
  BY <1>1, <1>2 DEF IterNext, IterVal, IterEnd, CallMap, IterBegin, IterBeginAt
<1> QED
  BY <1>6, <1>7, <1>8, <1>9 DEF Step, Others

(* A walk with ll_iter_next returns a larger key each time, so none twice,    *)
(* wherever it began and whatever is inserted and removed meanwhile           *)
(* (list.c:353-394).                                                          *)
THEOREM WalksAscend == Spec => WalkAscends
<1> DEFINE Ascends == \A t \in Threads :
                        pc[t] = "iter_val" /\ pc'[t] = "iter_next" => last[t] < last'[t]
<1>1. ASSUME IInv, [Next]_vars
      PROVE  [Ascends]_vars
  <2> SUFFICES ASSUME NEW u \in Threads,
                      Step(u) \/ CallMap(u) \/ IterBegin(u) \/ IterBeginAt(u),
                      NEW t \in Threads, pc[t] = "iter_val", pc'[t] = "iter_next"
               PROVE  last[t] < last'[t]
    BY <1>1 DEF Next
  <2>0. u = t
    BY <1>1, OneMoves DEF IInv, TypeOK, PCs
  <2>1. CASE IterVal(u)
    <3>1. last[t] < key[pred[t]]
      BY <1>1 DEF IInv, WalkOK
    <3> QED
      BY <1>1, <2>0, <2>1, <3>1 DEF IterVal, IterEnd, IInv, TypeOK
  <2> QED
    BY <2>0, <2>1, Zenon
       DEF Step, Find, FindLoadNext, FindSkip, FindUnlink, LookupRead, CasInsert, CasLoadVal,
           CasVal, RemoveLoadLink, RemoveMark, RemoveSwap, RemoveUnlink, IterNext, CallMap,
           IterBegin, IterBeginAt, Call
<1>2. Spec => [][Ascends]_vars
  BY <1>1, Invariance, PTL DEF Spec
<1> QED
  BY <1>2 DEF WalkAscends
=============================================================================
