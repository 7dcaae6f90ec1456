-------------------------- MODULE HashtableProofs ---------------------------
(***************************************************************************)
(* The steps of the hashtable that rest on counting: searches, which find  *)
(* a least place; copies, which are accounted for; unlinking.  Then the    *)
(* theorems, and the references to a table that the threads hold.          *)
(***************************************************************************)
EXTENDS HashtableWords, FiniteSetTheorems, WellFoundedInduction, TLAPS

USE Untyped

-----------------------------------------------------------------------------
(* Searches *)

(* Every set of naturals that is not empty has a least member. *)
LEMMA Least ==
    ASSUME NEW S, S \subseteq Nat, S # {}
    PROVE  \E x \in S : \A y \in S : x <= y
<1> DEFINE R == OpToRel(<, Nat)
<1>1. IsWellFoundedOn(R, Nat)
  BY NatLessThanWellFounded, Zenon
<1>2. \A x, y \in Nat : x < y => <<x, y>> \in R
  BY DEF OpToRel
<1> HIDE DEF R
<1>3. PICK x \in S : \A y \in S : <<y, x>> \notin R
  BY <1>1, WFMin
<1>4. \A y \in S : ~(y < x)
  BY <1>2, <1>3, Zenon
<1> QED
  BY <1>4

(* A call or a copier looks for its key in a table. *)
LEMMA FindStepsKeep ==
    \A t \in Threads : IInv /\ (GetFind(t) \/ CasFind(t) \/ CopyFind(t)) => IInv'
(* What hti_lookup's answer says of the table. *)
<1>Lookup.
      \A h \in Tables, k \in Keys : \A e : e = hti_lookup(h, k) =>
          \/ e = 0 /\ NoRoom(h, k)
          \/ e # 0 /\ e \in Entries(h) /\ Ends(h, k, e) /\ key[h][e] \in {k, DOES_NOT_EXIST}
  <2> TAKE h \in Tables, k \in Keys
  <2> TAKE e
  <2> HAVE e = hti_lookup(h, k)
  <2> DEFINE hits == {j \in DOMAIN Probe[h][k] : key[h][Probe[h][k][j]] \in {k, DOES_NOT_EXIST}}
  <2>1. e = IF hits = {} THEN 0 ELSE Probe[h][k][Min(hits)]
    BY DEF hti_lookup
  <2>2. CASE hits = {}
    BY <2>1, <2>2 DEF NoRoom
  <2>3. CASE hits # {}
    <3>1. PICK n \in Nat : DOMAIN Probe[h][k] = 1..n /\ \A j \in 1..n : Probe[h][k][j] \in Entries(h)
      BY TableFacts
    <3>2. hits \subseteq Nat
      BY <3>1
    <3>3. \E x \in hits : \A y \in hits : x <= y
      BY <2>3, <3>2, Least, Zenon
    <3>4. Min(hits) \in hits /\ \A y \in hits : Min(hits) <= y
      BY <3>3, Zenon DEF Min
    <3>5. PICK j \in 1..n : /\ j \in hits /\ e = Probe[h][k][j]
                            /\ \A y \in hits : j <= y
      BY <2>1, <2>3, <3>1, <3>4, Zenon
    <3> HIDE DEF hits
    <3>6. \A i \in 1..(j - 1) : i \in DOMAIN Probe[h][k] /\ i \notin hits
      BY <3>1, <3>5
    <3>7. \A i \in 1..(j - 1) : key[h][Probe[h][k][i]] \notin {k, DOES_NOT_EXIST}
      BY <3>6 DEF hits
    <3>8. e \in Entries(h) /\ Ends(h, k, e)
      BY <3>1, <3>5, <3>7 DEF Ends
    <3>9. key[h][e] \in {k, DOES_NOT_EXIST}
      BY <3>5 DEF hits
    <3> QED
      BY <3>8, <3>9, TableFacts
  <2> QED
    BY <2>2, <2>3
(* A thread goes to the entry its search ended at. *)
<1>EntryKeeps.
      ASSUME NEW t \in Threads, IInv, NEW pc, NEW e, Go(t, [pc |-> pc, ent |-> e]),
             e = hti_lookup(th[t].h, th[t].key), e # 0,
             \/ th[t].pc = "get" /\ pc = "get_val" /\ key[th[t].h][e] = th[t].key
             \/ /\ th[t].pc = "cas"
                /\ pc = IF key[th[t].h][e] = DOES_NOT_EXIST THEN "cas_key" ELSE "cas_load",
             UNCHANGED <<tables, op>>
      PROVE  IInv'
  <2> USE <1>EntryKeeps
  <2>1. LocalOK(t) /\ CallOK(t)
    BY Known
  <2>2. /\ DOMAIN th' = Threads /\ DOMAIN th'[t] = Fields
        /\ \A u \in Threads : u # t => th'[u] = th[u]
        /\ \A f \in Fields : th'[t][f] = IF f = "pc" THEN pc ELSE IF f = "ent" THEN e ELSE th[t][f]
    BY Known, Goes DEF Fields
  <2>3. /\ th'[t].pc = pc /\ th'[t].ent = e
        /\ \A f \in {"h", "to", "key", "iter", "idx", "num_copied"} : th'[t][f] = th[t][f]
    BY <2>2 DEF Fields
  <2>4. th[t].key \in Keys /\ th[t].num_copied = 0 /\ th[t].h \in Tables
    BY <2>1, Known DEF LocalOK, CallOK, Casing, Copying, Placing
  <2>5. /\ e \in Entries(th[t].h) /\ Ends(th[t].h, th[t].key, e)
        /\ key[th[t].h][e] \in {th[t].key, DOES_NOT_EXIST}
    BY <2>4, <1>Lookup
  <2>6. LocalOK(t)' /\ th'[t].num_copied = 0
    BY <2>1, <2>2, <2>3, <2>4 DEF LocalOK, tables
  <2>7. CallOK(t)'
    BY <2>1, <2>3, SameTables DEF CallOK, tables, Casing, Helping, Iterating
  <2>8. EntryOK(t)' /\ HelpOK(t)'
    BY <2>3, <2>5, SameTables DEF EntryOK, HelpOK, Helping, tables
  <2>9. th'[t].pc \notin Copying \cup {"credit"} /\ th[t].pc \notin Copying \cup {"credit", "help_end"}
    BY <2>3 DEF Copying, Placing
  <2> QED
    BY <2>2, <2>6, <2>7, <2>8, <2>9, Known, AwayAfter, OnlyMoves DEF tables, Copying, Placing
<1>GetFindKeeps. \A t \in Threads : IInv /\ GetFind(t) => IInv'
  <2> TAKE t \in Threads
  <2> HAVE IInv /\ GetFind(t)
  <2> DEFINE e == hti_lookup(th[t].h, th[t].key)
  <2>1. th[t].pc = "get" /\ UNCHANGED <<tables, calls, initial>>
    BY DEF GetFind, At
  <2>2. op[t].kind \in {"get", "iterate"} /\ last \in Tables /\ last \in Nat
    BY <2>1, Known DEF CallOK, Types
  <2>3. CASE e = 0 /\ th[t].h < last /\ Go(t, NextTable(t)) /\ UNCHANGED <<op, done>>
    <3>1. last <= last' /\ last' \in Tables /\ th[t].h < last'
      BY <2>1, <2>2, <2>3 DEF tables
    <3> QED
      BY <2>1, <2>2, <2>3, <3>1, NextTableKeeps DEF tables
  <2>4. CASE GetReturns(t, DOES_NOT_EXIST)
    BY <2>1, <2>4, GetReturnsKeeps DEF tables
  <2>5. CASE /\ e # 0 /\ key[th[t].h][e] = th[t].key
             /\ Go(t, [pc |-> "get_val", ent |-> e]) /\ UNCHANGED <<op, done>>
    BY <2>1, <2>5, <1>EntryKeeps
  <2> QED
    BY <2>3, <2>4, <2>5 DEF GetFind
<1>CasFindKeeps. \A t \in Threads : IInv /\ CasFind(t) => IInv'
  <2> TAKE t \in Threads
  <2> HAVE IInv /\ CasFind(t)
  <2> DEFINE e == hti_lookup(th[t].h, th[t].key)
             is_empty == e # 0 /\ key[th[t].h][e] = DOES_NOT_EXIST
  <2>1. th[t].pc = "cas" /\ UNCHANGED <<tables, calls, initial>>
    BY DEF CasFind, At
  <2>2. LocalOK(t) /\ CallOK(t)
    BY Known
  <2>3. /\ op[t].kind \in {"cas", "remove"} /\ th[t].key \in Keys
        /\ th[t].h \in Tables /\ th[t].h \in Nat /\ th[t].h <= last /\ last \in Tables /\ last \in Nat
    BY <2>1, <2>2, Known DEF CallOK, Casing, Types
  <2>4. CASE Return(t, DOES_NOT_EXIST)
    BY <2>1, <2>4, ReturnKeeps, Zenon DEF Return, tables, Copying, Placing
  <2>5. CASE /\ e # 0 /\ UNCHANGED <<op, done>>
             /\ Go(t, [pc |-> IF is_empty THEN "cas_key" ELSE "cas_load", ent |-> e])
    BY <2>1, <2>5, <1>EntryKeeps
  <2>6. CASE e = 0 /\ th[t].h = last /\ Go(t, [pc |-> "cas_grow"]) /\ UNCHANGED <<op, done>>
    <3>1. /\ DOMAIN th' = Threads /\ DOMAIN th'[t] = Fields
          /\ \A u \in Threads : u # t => th'[u] = th[u]
          /\ \A f \in Fields : th'[t][f] = IF f = "pc" THEN "cas_grow" ELSE th[t][f]
      BY <2>6, Known, Goes DEF Fields
    <3>2. LocalOK(t)' /\ th'[t].pc \notin Copying \cup {"credit"} /\ th'[t].num_copied = 0
      BY <2>1, <2>2, <3>1 DEF LocalOK, Fields, tables, Copying, Placing
    <3>3. CallOK(t)'
      BY <2>1, <2>2, <2>6, <3>1, SameTables DEF CallOK, Fields, tables, Casing, Helping, Iterating
    <3>4. NoRoom(th[t].h, th[t].key)
      BY <2>3, <2>6, <1>Lookup
    <3>5. EntryOK(t)' /\ HelpOK(t)'
      BY <2>1, <3>1, <3>4, SameTables DEF EntryOK, HelpOK, Fields, tables, Helping
    <3> QED
      BY <2>1, <2>6, <3>1, <3>2, <3>3, <3>5, Known, AwayAfter, OnlyMoves DEF tables, Copying,
         Placing
  <2>7. CASE e = 0 /\ th[t].h # last /\ Go(t, NextTable(t)) /\ UNCHANGED <<op, done>>
    <3>1. Over(th[t].h, th[t].key)
      BY <2>3, <2>7, <1>Lookup DEF Over
    <3>2. last <= last' /\ last' \in Tables /\ th[t].h < last'
      BY <2>1, <2>3, <2>7 DEF tables
    <3> QED
      BY <2>1, <2>7, <3>1, <3>2, NextTableKeeps DEF tables
  <2> QED
    BY <2>4, <2>5, <2>6, <2>7 DEF CasFind
<1>CopyFindKeeps. \A t \in Threads : IInv /\ CopyFind(t) => IInv'
  <2> TAKE t \in Threads
  <2> HAVE IInv /\ CopyFind(t)
  <2>1. /\ th[t].pc = "copy_find" /\ th[t].pc \in Copying /\ th[t].pc \in Placing
        /\ UNCHANGED <<ht_hti, last, key, val, copy_scan, num_entries_copied, op>>
    BY Zenon DEF CopyFind, At, tables, history, Copying, Placing
  <2>2. PICK h, to, from, k, w : Copies(t, h, to, from, k, w)
    BY <2>1, CopyKnown
  <2>3. /\ h = th[t].h /\ to = th[t].to /\ from = th[t].from /\ k = key[h][from] /\ k \in Keys
        /\ h \in Tables /\ to \in Tables
    BY <2>1, <2>2 DEF Copies
  <2>4. PICK e : e = hti_lookup(to, k)
    OBVIOUS
  <2>5. \/ e = 0 /\ NoRoom(to, k)
        \/ e # 0 /\ e \in Entries(to) /\ Ends(to, k, e) /\ key[to][e] \in {k, DOES_NOT_EXIST}
    BY <2>3, <2>4, <1>Lookup, Zenon
  <2>6. /\ last' \in Tables /\ last <= last' /\ last \in Nat /\ th[t].to \in 1..last' /\ to \in Nat
        /\ to <= last
    BY <2>1, <2>3, Known DEF Types
  <2>7. CASE e = 0 /\ to # last
    <3>1. Go(t, CopyEntry(th[t].from, th[t].to + 1, th[t].then))
      BY <2>3, <2>4, <2>7 DEF CopyFind
    <3>2. Passed(to, k)
      BY <2>5, <2>7 DEF Passed
    <3>3. to < last'
      BY <2>1, <2>6, <2>7
    <3> QED
      BY <2>1, <2>2, <2>6, <3>1, <3>2, <3>3, CopyOnward
  <2>8. CASE e = 0 /\ to = last
    <3>1. Go(t, [pc |-> "copy_grow"])
      BY <2>3, <2>4, <2>8 DEF CopyFind
    <3>2. /\ DOMAIN th' = Threads /\ DOMAIN th'[t] = Fields
          /\ \A u \in Threads : u # t => th'[u] = th[u]
          /\ th'[t].pc = "copy_grow"
          /\ \A f \in Fields \ {"pc"} : th'[t][f] = th[t][f]
      BY <3>1, Known, Goes DEF Fields
    <3>3. \A f \in {"key", "h", "then", "from", "left", "num_copied", "iter", "idx"} :
                 th'[t][f] = th[t][f]
      BY <3>2 DEF Fields
    <3>4. th'[t].to = th[t].to /\ th'[t].ent_val = th[t].ent_val
      BY <3>2 DEF Fields
    <3>5. NoRoom(to, k)'
      BY <2>1, <2>5, <2>8, SameTables
    <3>6. Copies(t, h, to, from, k, w)'
      BY <2>1, <2>2, <3>2, <3>3, <3>4, <3>5, SameTables, Zenon DEF Copies, Placing
    <3>7. CopyOK(t)' /\ th'[t].pc \in Copying
      BY <3>2, <3>6, CopyKnownAfter DEF Copying, Placing
    <3> QED
      BY <2>1, <2>6, <3>2, <3>3, <3>4, <3>7, CopierMoves
  <2>9. CASE e # 0
    <3>1. Go(t, [pc |-> IF key[to][e] = k THEN "copy_val" ELSE "copy_key", ent |-> e])
      BY <2>3, <2>4, <2>9, Zenon DEF CopyFind
    <3>2. /\ DOMAIN th' = Threads /\ DOMAIN th'[t] = Fields
          /\ \A u \in Threads : u # t => th'[u] = th[u]
          /\ th'[t].pc = IF key[to][e] = k THEN "copy_val" ELSE "copy_key"
          /\ th'[t].ent = e
          /\ \A f \in Fields \ {"pc", "ent"} : th'[t][f] = th[t][f]
      BY <3>1, Known, Goes DEF Fields
    <3>3. \A f \in {"key", "h", "then", "from", "left", "num_copied", "iter", "idx"} :
                 th'[t][f] = th[t][f]
      BY <3>2 DEF Fields
    <3>4. th'[t].to = th[t].to /\ th'[t].ent_val = th[t].ent_val
      BY <3>2 DEF Fields
    <3>5. Ends(to, k, th[t].ent)'
      BY <2>1, <2>5, <2>9, <3>2, SameTables
    <3>6. Copies(t, h, to, from, k, w)'
      BY <2>1, <2>2, <2>5, <2>9, <3>2, <3>3, <3>4, <3>5, SameTables, Zenon DEF Copies, Placing
    <3>7. CopyOK(t)' /\ th'[t].pc \in Copying /\ th'[t].pc # "copy_done"
      BY <3>2, <3>6, CopyKnownAfter DEF Copying, Placing
    <3> QED
      BY <2>1, <2>6, <3>2, <3>3, <3>4, <3>7, CopierMoves
  <2> QED
    BY <2>7, <2>8, <2>9
<1> QED
  BY <1>GetFindKeeps, <1>CasFindKeeps, <1>CopyFindKeeps

-----------------------------------------------------------------------------
(* Entries are counted once they are dead *)

(* A table has finitely many entries, as many as its size. *)
LEMMA TableSize ==
    \A h \in Tables :
        IsFiniteSet(Entries(h)) /\ Cardinality(Entries(h)) = Sizes[h] /\ Sizes[h] \in Nat
<1> TAKE h \in Tables
<1>1. Sizes[h] \in Nat \ {0} /\ Entries(h) = 1..Sizes[h]
  BY TableFacts
<1> QED
  BY <1>1, FS_Interval

(* A copier marks the entry it copies, or is done with it. *)
LEMMA CopyWritesKeep ==
    \A t \in Threads : IInv /\ (CopyKill(t) \/ CopyTag(t) \/ CopyDone(t)) => IInv'
(* When t completes the copy of an entry, it owes one more. *)
<1>Completed.
      ASSUME NEW t \in Threads, NEW h \in Tables, NEW e \in Entries(h), Counted(h),
             num_entries_copied'[h] = num_entries_copied[h],
             Won(t, h, e) \/ (~Dead(val[h][e]) /\ \A u \in Threads : ~Won(u, h, e)),
             Dead(val'[h][e]),
             \A f \in Entries(h) : f # e => (Dead(val'[h][f]) <=> Dead(val[h][f])),
             \A u \in Threads : u # t => th'[u] = th[u],
             Pending(t, h) \in Nat, Pending(t, h)' = Pending(t, h) + 1,
             th'[t].pc # "copy_done", th[t].pc = "copy_done" => Won(t, h, e)
      PROVE  Counted(h)'
  <2> USE <1>Completed
  <2>1. PICK counted \in SUBSET Entries(h), owner \in [Entries(h) -> Threads \cup {0}] :
          Accounts(h, counted, owner)
    BY DEF Counted
  <2>2. \A u \in Threads : \A f \in Entries(h) : Won(u, h, f) => f \notin counted /\ owner[f] = u
    BY <2>1 DEF Accounts
  <2>3. e \notin counted
    BY <2>1, <2>2 DEF Accounts
  <2> DEFINE own == [owner EXCEPT ![e] = t]
  <2>4. /\ own \in [Entries(h) -> Threads \cup {0}]
        /\ \A f \in Entries(h) : own[f] = IF f = e THEN t ELSE owner[f]
    OBVIOUS
  <2> HIDE DEF own
  <2>5. \A f \in Entries(h) : ~Won(t, h, f)' /\ (Won(t, h, f) => f = e)
    BY DEF Won
  <2>6. \A u \in Threads : u # t => \A f \in Entries(h) : Won(u, h, f)' <=> Won(u, h, f)
    BY DEF Won
  <2>7. \A u \in Threads : u # t => ~Won(u, h, e)
    BY <2>2
  <2>8. ASSUME NEW u \in Threads, u # t
        PROVE  Owed(u, h, counted, own)' = Owed(u, h, counted, owner)
    <3>1. ASSUME NEW f \in Entries(h)
          PROVE  f \in Owed(u, h, counted, own)' <=> f \in Owed(u, h, counted, owner)
      <4>1. CASE f = e
        BY <2>2, <2>4, <2>8, <4>1 DEF Owed
      <4>2. CASE f # e
        BY <2>4, <2>6, <2>8, <4>2 DEF Owed
      <4> QED
        BY <4>1, <4>2
    <3> QED
      BY <3>1 DEF Owed
  <2>9. Owed(t, h, counted, own)' = Owed(t, h, counted, owner) \cup {e}
    <3>1. ASSUME NEW f \in Entries(h)
          PROVE  f \in Owed(t, h, counted, own)' <=> f = e \/ f \in Owed(t, h, counted, owner)
      <4>1. CASE f = e
        BY <2>3, <2>4, <2>5, <4>1 DEF Owed
      <4>2. CASE f # e
        BY <2>4, <2>5, <4>2 DEF Owed
      <4> QED
        BY <4>1, <4>2
    <3> QED
      BY <3>1 DEF Owed
  <2>10. e \notin Owed(t, h, counted, owner)
    BY DEF Owed
  <2>11. IsFiniteSet(Owed(t, h, counted, owner))
    BY TableSize, FS_Subset DEF Owed
  <2>12. Cardinality(Owed(t, h, counted, own)') = Pending(t, h)'
    <3>1. Cardinality(Owed(t, h, counted, owner) \cup {e}) = Cardinality(Owed(t, h, counted, owner)) + 1
      BY <2>10, <2>11, FS_AddElement, Zenon
    <3>2. Cardinality(Owed(t, h, counted, owner)) = Pending(t, h)
      BY <2>1 DEF Accounts
    <3> QED
      BY <2>9, <3>1, <3>2
  <2>13. \A u \in Threads : u # t => Pending(u, h)' = Pending(u, h)
    BY DEF Pending
  <2>14. \A u \in Threads : Cardinality(Owed(u, h, counted, own)') = Pending(u, h)'
    BY <2>1, <2>8, <2>12, <2>13 DEF Accounts
  <2>15. \A f \in counted : Dead(val'[h][f])
    BY <2>1, <2>3 DEF Accounts
  <2>16. \A f \in Entries(h) : Dead(val'[h][f]) /\ f \notin counted => own[f] \in Threads
    BY <2>1, <2>4 DEF Accounts
  <2>17. \A u \in Threads : \A f \in Entries(h) : Won(u, h, f)' => f \notin counted /\ own[f] = u
    BY <2>2, <2>4, <2>5, <2>6, <2>7
  <2>18. Cardinality(counted) = num_entries_copied'[h]
    BY <2>1 DEF Accounts
  <2>19. Accounts(h, counted, own)'
    BY <2>14, <2>15, <2>16, <2>17, <2>18 DEF Accounts
  <2> QED
    BY <2>4, <2>19 DEF Counted
(* hti_copy_entry returns after the store that makes the entry dead: to who  *)
(* completed the copy,                                                       *)
<1>CopyCompletes.
      ASSUME NEW t \in Threads, IInv, th[t].pc \in Copying,
             NEW h \in Tables, NEW from \in Entries(h), h = th[t].h, from = th[t].from,
             NEW w, NEW v, Writes(h, from, w, v), Dead(v), v = COPIED_VALUE \/ w # EMPTY,
             UNCHANGED <<ht_hti, last, key, copy_scan, num_entries_copied, op>>,
             Go(t, CopyReturns(t, TRUE)),
             Won(t, h, from) \/ (~Dead(w) /\ \A u \in Threads : ~Won(u, h, from))
      PROVE  IInv'
  <2> USE <1>CopyCompletes
  <2>1. DOMAIN th' = Threads /\ DOMAIN op' = Threads
    BY Known, CopyReturnsGoes, Zenon
  <2>2. /\ Types' /\ Grow /\ Chain'
        /\ \A g \in Tables : \A f \in Entries(g) :
             val'[g][f] = IF g = h /\ f = from THEN v ELSE val[g][f]
        /\ \A g \in Tables : \A q : Landed(g, q)' => Landed(g, q)
    BY <2>1, WordWritten
  <2>3. w = val[h][from] /\ Dead(val'[h][from])
    BY <2>2, Zenon DEF Writes
  <2>4. /\ ThreadOK(t)' /\ \A u \in Threads : u # t => th'[u] = th[u]
        /\ th'[t].pc # "copy_done"
        /\ \A g \in Tables : g # th[t].h => Pending(t, g) = 0 /\ Pending(t, g)' = 0
        /\ \A g \in Tables : g = th[t].h =>
             Pending(t, g) \in Nat /\ Pending(t, g)' = Pending(t, g) + (IF TRUE THEN 1 ELSE 0)
    BY <2>2, <2>3, CopyReturned, Zenon
  <2>5. Pending(t, h) \in Nat /\ Pending(t, h)' = Pending(t, h) + 1
    BY <2>4
  <2>6. th[t].pc = "copy_done" => Won(t, h, from)
    BY DEF Won
  <2>7. \A g \in Tables : Counted(g) /\ SomeoneWon(g)
    BY DEF IInv
  <2>8. \A g \in Tables : num_entries_copied'[g] = num_entries_copied[g]
    OBVIOUS
  <2>9. Counted(h)'
    BY <2>2, <2>3, <2>4, <2>5, <2>6, <2>7, <2>8, <1>Completed
  <2>10. ASSUME NEW g \in Tables, g # h
         PROVE  Counted(g)'
    <3>1. \A u \in Threads : Pending(u, g)' = Pending(u, g)
      BY <2>4, <2>10 DEF Pending
    <3>2. \A u \in Threads : \A e \in Entries(g) : Won(u, g, e)' <=> Won(u, g, e)
      BY <2>4, <2>10 DEF Won
    <3>3. \A e \in Entries(g) : val'[g][e] = val[g][e]
      BY <2>2, <2>10
    <3> QED
      BY <2>7, <2>8, <3>1, <3>2, <3>3, AccountsStay
  <2>11. ASSUME NEW g \in Tables
         PROVE  SomeoneWon(g)'
    <3>1. \A e \in Entries(g) : Dead(val[g][e]) => Dead(val'[g][e])
      BY <2>2 DEF Grow
    <3>2. \A u \in Threads : \A e \in Entries(g) :
            Won(u, g, e) => Won(u, g, e)' \/ Dead(val'[g][e])
      BY <2>3, <2>4 DEF Won
    <3> QED
      BY <2>2, <2>7, <3>1, <3>2, StillWon
  <2> QED
    BY <2>2, <2>4, <2>9, <2>10, <2>11, StepKeeps
<1>CopyKillKeeps. \A t \in Threads : IInv /\ CopyKill(t) => IInv'
  <2> TAKE t \in Threads
  <2> HAVE IInv /\ CopyKill(t)
  <2>1. /\ th[t].pc = "copy_kill" /\ th[t].pc \in Copying /\ th[t].pc # "copy_done"
        /\ UNCHANGED <<ht_hti, last, key, copy_scan, num_entries_copied, op>>
    BY DEF CopyKill, At, history, Copying, Placing
  <2>2. PICK h, to, from, k, w : Copies(t, h, to, from, k, w)
    BY <2>1, CopyKnown
  <2>3. /\ h = th[t].h /\ to = th[t].to /\ from = th[t].from /\ w = val[h][from]
        /\ h \in Tables /\ to \in Tables /\ from \in Entries(h) /\ h < to
    BY <2>2 DEF Copies
  <2>4. CASE w = EMPTY
    <3>1. val' = [val EXCEPT ![h][from] = COPIED_VALUE] /\ Go(t, CopyReturns(t, TRUE))
      BY <2>3, <2>4, Zenon DEF CopyKill
    <3>2. h < last
      BY <2>3, Known
    <3>3. Writes(h, from, w, COPIED_VALUE)
      BY <2>3, <2>4, <3>1, <3>2, WordNames DEF Writes
    <3>4. Dead(COPIED_VALUE) /\ ~Dead(w) /\ ~Tagged(w)
      BY <2>4, WordNames
    <3>5. \A u \in Threads : ~Won(u, h, from)
      BY <2>3, <3>4, WonIsTagged
    <3> QED
      BY <2>1, <2>3, <3>1, <3>3, <3>4, <3>5, <1>CopyCompletes, Zenon
  <2>5. CASE w # EMPTY
    <3>1. val' = val /\ Go(t, [pc |-> "copy_tag"])
      BY <2>3, <2>5, Zenon DEF CopyKill
    <3>2. /\ DOMAIN th' = Threads /\ DOMAIN th'[t] = Fields
          /\ \A u \in Threads : u # t => th'[u] = th[u]
          /\ th'[t].pc = "copy_tag"
          /\ \A f \in Fields \ {"pc"} : th'[t][f] = th[t][f]
      BY <3>1, Known, Goes DEF Fields
    <3>3. \A f \in {"key", "h", "then", "from", "left", "num_copied", "iter", "idx"} :
                 th'[t][f] = th[t][f]
      BY <3>2 DEF Fields
    <3>4. th'[t].to = th[t].to
      BY <3>2 DEF Fields
    <3>5. Copies(t, h, to, from, k, w)'
      BY <2>1, <2>2, <2>5, <3>1, <3>2, <3>3, <3>4, SameTables, Zenon DEF Copies, Placing
    <3>6. /\ th'[t].pc \in Copying /\ th'[t].pc # "copy_done"
          /\ last' \in Tables /\ last <= last' /\ th'[t].to \in 1..last'
      BY <2>1, <3>2, <3>4, Known DEF Copying, Types
    <3>7. CopyOK(t)'
      BY <3>5, <3>6, CopyKnownAfter
    <3> QED
      BY <2>1, <3>1, <3>2, <3>3, <3>6, <3>7, CopierMoves
  <2> QED
    BY <2>4, <2>5
<1>CopyTagKeeps. \A t \in Threads : IInv /\ CopyTag(t) => IInv'
  <2> TAKE t \in Threads
  <2> HAVE IInv /\ CopyTag(t)
  <2>1. /\ th[t].pc \in Copying
        /\ UNCHANGED <<ht_hti, last, key, copy_scan, num_entries_copied, op>>
    BY DEF CopyTag, At, history, Copying, Placing
  <2>2. ASSUME NEW h, NEW from, Completes(t, h, from)
        PROVE  IInv'
    <3>1. PICK w, v : Writes(h, from, w, v) /\ ~Dead(w) /\ Dead(v) /\ w # EMPTY
      BY <2>2 DEF Completes
    <3>2. /\ h \in Tables /\ from \in Entries(h) /\ h = th[t].h /\ from = th[t].from
          /\ Go(t, CopyReturns(t, TRUE)) /\ \A u \in Threads : ~Won(u, h, from)
      BY <2>2, Zenon DEF Completes
    <3> QED
      BY <2>1, <3>1, <3>2, <1>CopyCompletes, Zenon
  <2> QED
    BY <2>2, CopyTagMarks
<1>CopyDoneKeeps. \A t \in Threads : IInv /\ CopyDone(t) => IInv'
  <2> TAKE t \in Threads
  <2> HAVE IInv /\ CopyDone(t)
  <2>1. /\ th[t].pc \in {"copy_done", "copy_lost"} /\ th[t].pc \in Copying /\ th[t].pc \in Placing
        /\ UNCHANGED <<ht_hti, last, key, copy_scan, num_entries_copied, op>>
        /\ Go(t, CopyReturns(t, th[t].pc = "copy_done"))
    BY DEF CopyDone, At, history, Copying, Placing
  <2>2. PICK h, to, from, k, w : Copies(t, h, to, from, k, w)
    BY <2>1, CopyKnown
  <2>3. /\ h = th[t].h /\ from = th[t].from /\ w = val[h][from] /\ k = key[h][from]
        /\ h \in Tables /\ to \in Tables /\ from \in Entries(h) /\ h < to /\ to = th[t].to
        /\ Landed(h, k) /\ Tagged(w) /\ w # TAG_VALUE(Tombstone) /\ k \in Keys
    BY <2>1, <2>2, Zenon DEF Copies
  <2>4. val' = [val EXCEPT ![h][from] = COPIED_VALUE]
    BY <2>3 DEF CopyDone
  <2>5. h < last
    <3>1. h < to /\ to = th[t].to /\ h = th[t].h
      BY <2>3
    <3> QED
      BY <3>1, Known
  <2>6. Writes(h, from, w, COPIED_VALUE)
    BY <2>3, <2>4, <2>5, WordNames, Zenon DEF Writes
  <2>7. Dead(COPIED_VALUE) /\ h \in Tables /\ from \in Entries(h) /\ h = th[t].h /\ from = th[t].from
    BY <2>3, WordNames
  <2>8. CASE th[t].pc = "copy_done"
    <3>1. Go(t, CopyReturns(t, TRUE)) /\ Won(t, h, from)
      BY <2>1, <2>3, <2>8, Zenon DEF Won
    <3> QED
      BY <2>1, <2>6, <2>7, <3>1, <1>CopyCompletes, Zenon
  <2>9. CASE th[t].pc # "copy_done"
    <3>1. Go(t, CopyReturns(t, FALSE))
      BY <2>1, <2>9, Zenon
    <3>2. Dead(w) \/ \E u \in Threads : Won(u, h, from)
      <4>1. SomeoneWon(h) /\ k # DOES_NOT_EXIST
        BY <2>3, HashtableAssumption DEF IInv
      <4> QED
        BY <2>3, <4>1 DEF SomeoneWon
    <3> QED
      BY <2>1, <2>6, <2>7, <2>9, <3>1, <3>2, CopyMarks, Zenon
  <2> QED
    BY <2>8, <2>9
<1> QED
  BY <1>CopyKillKeeps, <1>CopyTagKeeps, <1>CopyDoneKeeps

(* Copies are counted, and a table is unlinked when all are. *)
LEMMA CountStepsKeep ==
    \A t \in Threads : IInv /\ (CopyCredit(t) \/ HelpEnd(t) \/ Unlink(t)) => IInv'
(* When all entries have been counted all are dead. *)
<1>FullIsDead. \A h \in Tables : Counted(h) /\ num_entries_copied[h] = Sizes[h] => AllDead(h)
  <2> TAKE h \in Tables
  <2> HAVE Counted(h) /\ num_entries_copied[h] = Sizes[h]
  <2>1. PICK counted \in SUBSET Entries(h), owner \in [Entries(h) -> Threads \cup {0}] :
          Accounts(h, counted, owner)
    BY DEF Counted
  <2>2. counted = Entries(h)
    BY <2>1, TableSize, FS_Subset DEF Accounts
  <2> QED
    BY <2>1, <2>2 DEF Accounts, AllDead
<1>UnlinkKeeps. \A t \in Threads : IInv /\ Unlink(t) => IInv'
  <2> TAKE t \in Threads
  <2> HAVE IInv /\ Unlink(t)
  <2> DEFINE pc == IF ht_hti = th[t].h THEN "release" ELSE "cas"
  <2>1. /\ th[t].pc = "unlink" /\ ht_hti' = IF ht_hti = th[t].h THEN th[t].h + 1 ELSE ht_hti
        /\ Go(t, [pc |-> pc])
        /\ UNCHANGED <<last, key, val, copy_scan, num_entries_copied, op>>
    BY DEF Unlink, At, history
  <2>2. LocalOK(t) /\ CallOK(t) /\ HelpOK(t) /\ Types /\ Chain
    BY Known
  <2>3. /\ th[t].h \in Nat \ {0} /\ th[t].h \in Tables /\ last \in Nat /\ ht_hti \in 1..last
        /\ th[t].h < last /\ num_entries_copied[th[t].h] = Sizes[th[t].h]
    BY <2>1, <2>2, Known DEF HelpOK, Types
  <2>4. /\ DOMAIN th' = Threads /\ DOMAIN th'[t] = Fields
        /\ \A u \in Threads : u # t => th'[u] = th[u]
        /\ th'[t].pc = pc /\ \A f \in Fields \ {"pc"} : th'[t][f] = th[t][f]
    BY <2>1, Known, Goes DEF Fields
  <2>5. LocalOK(t)' /\ th'[t].pc \notin Copying \cup {"credit"} /\ th'[t].num_copied = 0
    BY <2>1, <2>2, <2>4 DEF LocalOK, Fields, Copying, Placing
  <2>6. CallOK(t)'
    BY <2>1, <2>2, <2>4, SameTables DEF CallOK, Fields, Casing, Helping, Iterating
  <2>7. EntryOK(t)' /\ HelpOK(t)'
    BY <2>1, <2>3, <2>4 DEF EntryOK, HelpOK, Fields, Helping
  <2>8. ThreadOK(t)'
    BY <2>5, <2>6, <2>7, AwayAfter DEF ThreadOK
  <2>9. Types' /\ last <= last' /\ ht_hti <= ht_hti'
    BY <2>1, <2>2, <2>3, <2>4, Known DEF Types
  <2>10. Grow
    BY <2>1, <2>9, SameTables DEF Grow
  <2>11. Chain'
    <3>1. AllDead(th[t].h)
      BY <2>3, <1>FullIsDead DEF IInv
    <3>2. \A h \in 1..(ht_hti' - 1) : AllDead(h) /\ num_entries_copied[h] = Sizes[h]
      BY <2>1, <2>2, <2>3, <3>1 DEF Chain
    <3> QED
      BY <2>1, <2>2, <3>2, SameTables DEF Chain
  <2>12. \A u \in Threads : \A h, e : Won(u, h, e)' <=> Won(u, h, e)
    BY <2>1, <2>4, <2>5 DEF Won, Copying, Placing
  <2>13. \A h \in Tables : Pending(t, h)' = Pending(t, h)
    BY <2>1, <2>4, <2>5 DEF Pending, Fields, Copying, Placing
  <2>14. \A h \in Tables : Counted(h)'
    BY <2>1, <2>4, <2>12, <2>13, SameAccounts DEF IInv
  <2>15. \A h \in Tables : SomeoneWon(h)'
    BY <2>1, <2>12, SameTables DEF IInv, SomeoneWon
  <2> QED
    BY <2>1, <2>4, <2>8, <2>9, <2>10, <2>11, <2>14, <2>15, StepKeeps
(* A thread adds what it owes, and there are no more entries than that. *)
<1>Settled.
      ASSUME NEW t \in Threads, NEW h \in Tables, Counted(h), Pending(t, h) \in Nat,
             UNCHANGED val, num_entries_copied[h] \in Nat,
             num_entries_copied'[h] = num_entries_copied[h] + Pending(t, h),
             \A u \in Threads : u # t => th'[u] = th[u],
             Pending(t, h)' = 0, th[t].pc # "copy_done", th'[t].pc # "copy_done"
      PROVE  /\ Counted(h)'
             /\ num_entries_copied[h] = Sizes[h] => num_entries_copied'[h] = Sizes[h]
  <2> USE <1>Settled
  <2>1. PICK counted \in SUBSET Entries(h), owner \in [Entries(h) -> Threads \cup {0}] :
          Accounts(h, counted, owner)
    BY DEF Counted
  <2>0. PICK new \in SUBSET Entries(h) : new = counted \cup Owed(t, h, counted, owner)
    BY Zenon DEF Owed
  <2>2. \A u \in Threads : \A e \in Entries(h) : Won(u, h, e)' <=> Won(u, h, e)
    BY DEF Won
  <2>3. /\ IsFiniteSet(counted) /\ IsFiniteSet(Owed(t, h, counted, owner))
        /\ IsFiniteSet(Entries(h))
    BY TableSize, FS_Subset DEF Owed
  <2>4. counted \cap Owed(t, h, counted, owner) = {}
    BY DEF Owed
  <2>5. /\ Cardinality(counted) = num_entries_copied[h]
        /\ Cardinality(Owed(t, h, counted, owner)) = Pending(t, h)
    BY <2>1 DEF Accounts
  <2>6. Cardinality(new) = num_entries_copied'[h]
    <3>1. Cardinality(new) = Cardinality(counted) + Cardinality(Owed(t, h, counted, owner))
                             - Cardinality({})
      BY <2>0, <2>3, <2>4, FS_Union
    <3> QED
      BY <2>5, <3>1, FS_EmptySet
  <2>7. num_entries_copied'[h] <= Sizes[h] /\ Sizes[h] \in Nat
    <3>1. Cardinality(new) <= Cardinality(Entries(h))
      BY <2>3, FS_Subset
    <3>2. Cardinality(Entries(h)) = Sizes[h] /\ Sizes[h] \in Nat
      BY TableSize
    <3> QED
      BY <2>6, <3>1, <3>2
  <2>8. num_entries_copied[h] = Sizes[h] => num_entries_copied'[h] = Sizes[h]
    BY <2>7
  <2>9. Owed(t, h, new, owner)' = {}
    <3>1. \A e \in Entries(h) : Won(t, h, e)' <=> Won(t, h, e)
      BY <2>2
    <3> QED
      BY <2>0, <3>1 DEF Owed
  <2>10. ASSUME NEW u \in Threads, u # t
         PROVE  Owed(u, h, new, owner)' = Owed(u, h, counted, owner)
    <3>1. ASSUME NEW e \in Entries(h)
          PROVE  e \in Owed(u, h, new, owner)' <=> e \in Owed(u, h, counted, owner)
      BY <2>0, <2>2, <2>10 DEF Owed
    <3> QED
      BY <3>1 DEF Owed
  <2>11. \A u \in Threads : u # t => Pending(u, h)' = Pending(u, h)
    BY DEF Pending
  <2>12. ASSUME NEW u \in Threads
         PROVE  Cardinality(Owed(u, h, new, owner)') = Pending(u, h)'
    <3>1. CASE u = t
      BY <2>9, <3>1, FS_EmptySet, Zenon
    <3>2. CASE u # t
      <4>1. Cardinality(Owed(u, h, counted, owner)) = Pending(u, h)
        BY <2>1 DEF Accounts
      <4> QED
        BY <2>10, <2>11, <3>2, <4>1
    <3> QED
      BY <3>1, <3>2
  <2>13. \A e \in new : Dead(val'[h][e])
    BY <2>0, <2>1 DEF Accounts, Owed
  <2>14. \A e \in Entries(h) : Dead(val'[h][e]) /\ e \notin new => owner[e] \in Threads
    BY <2>0, <2>1 DEF Accounts
  <2>15. \A u \in Threads : \A e \in Entries(h) : Won(u, h, e)' => e \notin new /\ owner[e] = u
    BY <2>0, <2>1, <2>2 DEF Accounts, Owed, Won
  <2>16. Accounts(h, new, owner)'
    BY <2>6, <2>12, <2>13, <2>14, <2>15 DEF Accounts
  <2>17. Counted(h)'
    BY <2>16 DEF Counted
  <2> QED
    BY <2>8, <2>17
(* What is left of a step that counts entries. *)
<1>CountKeeps.
      ASSUME NEW t \in Threads, IInv, DOMAIN th' = Threads,
             NEW n \in Nat, n = Pending(t, th[t].h),
             num_entries_copied' = [num_entries_copied EXCEPT ![th[t].h] = @ + n],
             UNCHANGED <<ht_hti, last, key, val, copy_scan, op>>,
             \A u \in Threads : u # t => th'[u] = th[u],
             th'[t].num_copied = 0, th'[t].pc \notin {"credit", "copy_done"}, th[t].pc # "copy_done",
             ThreadOK(t)'
      PROVE  IInv'
  <2> USE <1>CountKeeps
  <2>1. Types /\ Chain /\ th[t].h \in Tables /\ \A h \in Tables : Counted(h) /\ SomeoneWon(h)
    BY Known DEF IInv
  <2>2. num_entries_copied \in [Tables -> Nat] /\ copy_scan \in [Tables -> Nat]
    BY <2>1 DEF Types
  <2>3. /\ num_entries_copied' \in [Tables -> Nat]
        /\ \A h \in Tables : num_entries_copied'[h] =
             IF h = th[t].h THEN num_entries_copied[h] + n ELSE num_entries_copied[h]
        /\ \A h \in Tables : num_entries_copied[h] \in Nat
    BY <2>1, <2>2
  <2>4. Types'
    BY <2>1, <2>3 DEF Types
  <2>5. \A h \in Tables : Pending(t, h)' = 0
    BY DEF Pending
  <2>6. ASSUME NEW h \in Tables
        PROVE  /\ Counted(h)'
               /\ num_entries_copied[h] = Sizes[h] => num_entries_copied'[h] = Sizes[h]
    <3>1. CASE h = th[t].h
      BY <2>1, <2>3, <2>5, <3>1, <1>Settled
    <3>2. CASE h # th[t].h
      <4>1. Pending(t, h) = 0 /\ 0 \in Nat
        BY <3>2 DEF Pending
      <4>2. num_entries_copied'[h] = num_entries_copied[h] + Pending(t, h)
        BY <2>3, <3>2, <4>1
      <4> QED
        BY <2>1, <2>3, <2>5, <4>1, <4>2, <1>Settled
    <3> QED
      BY <3>1, <3>2
  <2>7. last \in Nat /\ ht_hti \in Nat
    BY Known
  <2>8. Grow
    BY <2>6, <2>7, SameTables DEF Grow
  <2>9. Chain'
    <3>1. \A h \in Tables : \A e \in Entries(h) :
            /\ key'[h][e] # DOES_NOT_EXIST =>
                 Ends(h, key[h][e], e)' /\ \A g \in 1..(h - 1) : Shut(g, key[h][e])'
            /\ val'[h][e] \notin {EMPTY, COPIED_VALUE} => key'[h][e] # DOES_NOT_EXIST
            /\ Tagged(val'[h][e]) => h < last'
      BY <2>1, SameTables DEF Chain
    <3>2. \A h \in 1..(ht_hti - 1) : h \in Tables
      BY <2>1, <2>7, TableFacts DEF Types
    <3>3. \A h \in 1..(ht_hti - 1) : AllDead(h)' /\ num_entries_copied'[h] = Sizes[h]
      BY <2>1, <2>6, <3>2, SameTables DEF Chain
    <3> QED
      BY <3>1, <3>3 DEF Chain
  <2>10. \A u \in Threads : \A h, e : Won(u, h, e)' <=> Won(u, h, e)
    BY DEF Won
  <2>11. \A h \in Tables : SomeoneWon(h)'
    BY <2>1, <2>10, SameTables DEF SomeoneWon
  <2> QED
    BY <2>4, <2>6, <2>8, <2>9, <2>11, StepKeeps
<1>CopyCreditKeeps. \A t \in Threads : IInv /\ CopyCredit(t) => IInv'
  <2> TAKE t \in Threads
  <2> HAVE IInv /\ CopyCredit(t)
  <2>1. /\ th[t].pc = "credit" /\ Go(t, NextTable(t))
        /\ num_entries_copied' = [num_entries_copied EXCEPT ![th[t].h] = @ + 1]
        /\ UNCHANGED <<ht_hti, last, key, val, copy_scan, op>>
    BY DEF CopyCredit, At, history
  <2>2. LocalOK(t) /\ CallOK(t) /\ AskedOK(t) /\ Chain
    BY Known
  <2>3. PICK h \in Tables, k \in {th[t].key}, e \in {th[t].from} : h = th[t].h /\ k = th[t].key /\ e = th[t].from
    BY Known
  <2>4. /\ e \in Entries(h) /\ Dead(val[h][e]) /\ k \in Keys /\ key[h][e] = k
        /\ op[t].kind \in {"get", "cas", "remove", "iterate"}
    BY <2>1, <2>2, <2>3 DEF AskedOK
  <2>5. th[t].num_copied = 0 /\ op[t].new_val \in Threads \cup {DOES_NOT_EXIST}
    BY <2>1, <2>2 DEF LocalOK, CallOK, Copying, Placing
  <2>6. 1 = Pending(t, th[t].h)
    BY <2>1, <2>5 DEF Pending
  <2>7. /\ DOMAIN th' = Threads /\ DOMAIN th'[t] = Fields
        /\ \A u \in Threads : u # t => th'[u] = th[u]
        /\ th'[t].pc = IF op[t].kind \in {"get", "iterate"} THEN "get" ELSE "cas"
        /\ th'[t].h = th[t].h + 1 /\ th'[t].to = 1 /\ th'[t].num_copied = 0
        /\ th'[t].key = th[t].key /\ th'[t].iter = th[t].iter /\ th'[t].idx = th[t].idx
    BY <2>1, Known, NextTableGoes
  <2>8. h < last /\ h \in Nat \ {0} /\ last \in Nat
    BY <2>2, <2>3, <2>4, Known, WordNames DEF Chain
  <2>9. LocalOK(t)'
    BY <2>1, <2>2, <2>3, <2>7, <2>8 DEF LocalOK
  <2>10. CallOK(t)'
    <3>1. Over(h, k)
      BY <2>4 DEF Over
    <3>2. op[t].kind \in {"cas", "remove"} => \A g \in 1..(h - 1) : Over(g, k)
      BY <2>2, <2>3 DEF CallOK
    <3>3. \A g \in 1..h : g = h \/ g \in 1..(h - 1)
      BY <2>8
    <3>4. op[t].kind \in {"cas", "remove"} => \A g \in 1..h : Over(g, k)'
      BY <2>1, <3>1, <3>2, <3>3, SameTables
    <3>5. th'[t].h - 1 = h
      BY <2>3, <2>7, <2>8
    <3> QED
      BY <2>1, <2>3, <2>4, <2>5, <2>7, <3>4, <3>5 DEF CallOK, Casing, Helping, Iterating
  <2>11. EntryOK(t)' /\ HelpOK(t)' /\ th'[t].pc \notin Copying \cup {"credit"}
    BY <2>7 DEF EntryOK, HelpOK, Helping, Copying, Placing
  <2>12. ThreadOK(t)'
    BY <2>9, <2>10, <2>11, AwayAfter DEF ThreadOK
  <2>13. th'[t].pc \notin {"credit", "copy_done"} /\ th[t].pc # "copy_done"
    BY <2>1, <2>7
  <2> QED
    BY <2>1, <2>6, <2>7, <2>12, <2>13, <1>CountKeeps, Zenon
<1>HelpEndKeeps. \A t \in Threads : IInv /\ HelpEnd(t) => IInv'
  <2> TAKE t \in Threads
  <2> HAVE IInv /\ HelpEnd(t)
  <2>1. /\ th[t].pc = "help_end"
        /\ num_entries_copied' = [num_entries_copied EXCEPT ![th[t].h] =
                                    num_entries_copied[th[t].h] + th[t].num_copied]
        /\ UNCHANGED <<ht_hti, last, key, val, copy_scan, op>>
    BY DEF HelpEnd, At, history
  <2>2. LocalOK(t) /\ CallOK(t) /\ HelpOK(t) /\ Types
    BY Known
  <2>3. PICK fin \in BOOLEAN :
          /\ Go(t, HelpReturns(t, fin))
          /\ fin => num_entries_copied[th[t].h] + th[t].num_copied = Sizes[th[t].h]
    <3>1. Go(t, HelpReturns(t, th[t].num_copied # 0 /\
            num_entries_copied[th[t].h] + th[t].num_copied = Sizes[th[t].h]))
      BY DEF HelpEnd
    <3> QED
      BY <3>1, Zenon
  <2>4. /\ th[t].h < last /\ op[t].kind \in {"cas", "iterate"} /\ last \in Nat
        /\ th[t].h \in Nat \ {0} /\ th[t].h \in Tables /\ th[t].num_copied \in Nat
        /\ op[t].new_val \in Threads \cup {DOES_NOT_EXIST}
    BY <2>1, <2>2, Known DEF HelpOK, CallOK, LocalOK, Helping
  <2>5. th[t].num_copied = Pending(t, th[t].h)
    BY <2>1, <2>4 DEF Pending
  <2>6. num_entries_copied' = [num_entries_copied EXCEPT ![th[t].h] = @ + th[t].num_copied]
    BY <2>1, <2>2, <2>4 DEF Types
  <2>7. /\ DOMAIN th' = Threads /\ DOMAIN th'[t] = Fields
        /\ \A u \in Threads : u # t => th'[u] = th[u]
        /\ op[t].kind = "cas" => th'[t].pc = (IF fin THEN "unlink" ELSE "cas") /\ th'[t].h = th[t].h
        /\ op[t].kind # "cas" => /\ th'[t].pc = IF fin THEN "begin" ELSE "help"
                                 /\ th'[t].h = IF fin THEN th[t].h + 1 ELSE th[t].h
        /\ th'[t].to = 1 /\ th'[t].num_copied = 0
        /\ th'[t].key = th[t].key /\ th'[t].iter = th[t].iter /\ th'[t].idx = th[t].idx
    BY <2>3, Known, HelpGoes
  <2>8. th'[t].pc \in {"unlink", "cas", "begin", "help"}
    BY <2>7
  <2>9. LocalOK(t)'
    BY <2>1, <2>2, <2>4, <2>7 DEF LocalOK
  <2>10. CallOK(t)'
    BY <2>1, <2>2, <2>4, <2>7, SameTables DEF CallOK, Casing, Helping, Iterating
  <2>11. EntryOK(t)' /\ th'[t].pc \notin Copying \cup {"credit"}
    BY <2>8 DEF EntryOK, Copying, Placing
  <2>12. HelpOK(t)'
    <3>1. fin => num_entries_copied'[th[t].h] = Sizes[th[t].h]
      <4>1. DOMAIN num_entries_copied = Tables
        BY <2>2 DEF Types
      <4>2. num_entries_copied'[th[t].h] = num_entries_copied[th[t].h] + th[t].num_copied
        BY <2>1, <2>4, <4>1
      <4> QED
        BY <2>3, <4>2
    <3> QED
      BY <2>1, <2>4, <2>7, <3>1 DEF HelpOK, Helping
  <2>13. ThreadOK(t)'
    BY <2>9, <2>10, <2>11, <2>12, AwayAfter DEF ThreadOK
  <2>14. th'[t].pc \notin {"credit", "copy_done"} /\ th[t].pc # "copy_done"
    BY <2>1, <2>8
  <2> QED
    BY <2>1, <2>4, <2>5, <2>6, <2>7, <2>13, <2>14, <1>CountKeeps, Zenon
<1> QED
  BY <1>UnlinkKeeps, <1>CopyCreditKeeps, <1>HelpEndKeeps

-----------------------------------------------------------------------------
(* The start *)

(* The invariant holds at the start. *)
LEMMA InitHolds ==
    ASSUME Init, last \in Tables
    PROVE  IInv
<1>1. /\ DOMAIN key = Tables
      /\ \A h \in Tables : key[h] \in [Entries(h) -> Keys \cup {DOES_NOT_EXIST}]
      /\ \A h \in Tables : \A e \in Entries(h) : key[h][e] # DOES_NOT_EXIST =>
           /\ Ends(h, key[h][e], e)
           /\ \A g \in 1..(h - 1) : NoRoom(g, key[h][e])
           /\ \A g \in Tables : \A f \in Entries(g) : key[g][f] = key[h][e] => g = h
  BY InitKeys
<1>2. /\ val = [h \in Tables |-> [e \in Entries(h) |->
                  IF key[h][e] = DOES_NOT_EXIST THEN EMPTY
                  ELSE IF initial[key[h][e]] = DOES_NOT_EXIST THEN Plain(TOMBSTONE)
                  ELSE Plain(Initial)]]
      /\ ht_hti = 1 /\ copy_scan = [h \in Tables |-> 0] /\ num_entries_copied = [h \in Tables |-> 0]
      /\ th = [t \in Threads |-> Idle] /\ op = [t \in Threads |-> NoOp]
  BY Zenon DEF Init
<1>3. EMPTY \in Words /\ Plain(TOMBSTONE) \in Words /\ Plain(Initial) \in Words
  BY WordNames DEF Values
<1>4. /\ DOMAIN val = Tables /\ \A h \in Tables : val[h] \in [Entries(h) -> Words]
      /\ \A h \in Tables : \A e \in Entries(h) :
           /\ val[h][e] \in {EMPTY, Plain(TOMBSTONE), Plain(Initial)}
           /\ val[h][e] # EMPTY => key[h][e] # DOES_NOT_EXIST
  BY <1>2, <1>3
<1>5. \A h \in Tables : \A e \in Entries(h) : ~Tagged(val[h][e]) /\ ~Dead(val[h][e])
  <2>1. ~Tagged(EMPTY) /\ ~Tagged(Plain(TOMBSTONE)) /\ ~Tagged(Plain(Initial))
    BY WordNames
  <2>2. \A h \in Tables : \A e \in Entries(h) : ~Tagged(val[h][e])
    BY <1>4, <2>1
  <2> QED
    BY <2>2, WordNames
<1>6. Types
  <2>1. last \in Nat \ {0}
    BY TableFacts
  <2>2. 1 \in 1..last /\ DOMAIN th = Threads /\ DOMAIN op = Threads
    BY <1>2, <2>1
  <2>3. \A h \in Tables : copy_scan[h] = 0 /\ 0 < 2 * Sizes[h] + ENTRIES_PER_COPY_CHUNK
                          /\ 0 % ENTRIES_PER_COPY_CHUNK = 0
    BY <1>2, HashtableAssumption
  <2> QED
    BY <1>1, <1>2, <1>4, <2>2, <2>3 DEF Types
<1>7. Chain
  BY <1>1, <1>2, <1>4, <1>5 DEF Chain, Shut
<1>8. ASSUME NEW t \in Threads
      PROVE  ThreadOK(t)
  <2>1. th[t] = Idle /\ op[t] = NoOp /\ last \in Nat \ {0}
    BY <1>2, TableFacts
  <2>2. LocalOK(t)
    BY <2>1 DEF LocalOK, Idle, Fields
  <2>3. CallOK(t) /\ EntryOK(t) /\ HelpOK(t) /\ th[t].pc \notin Copying \cup {"credit"}
    BY <2>1 DEF CallOK, EntryOK, HelpOK, Idle, NoOp, Casing, Helping, Iterating, Copying, Placing
  <2> QED
    BY <2>2, <2>3, Away DEF ThreadOK
<1>9. ASSUME NEW h \in Tables
      PROVE  Counted(h)
  <2>1. PICK owner : owner = [e \in Entries(h) |-> 0]
    OBVIOUS
  <2>2. owner \in [Entries(h) -> Threads \cup {0}]
    BY <2>1
  <2>3. \A t \in Threads : Owed(t, h, {}, owner) = {}
    BY <1>5 DEF Owed
  <2>4. \A t \in Threads : Pending(t, h) = 0 /\ \A e \in Entries(h) : ~Won(t, h, e)
    BY <1>2 DEF Pending, Won, Idle
  <2>5. Cardinality({}) = 0 /\ num_entries_copied[h] = 0
    BY <1>2, FS_EmptySet
  <2>6. Accounts(h, {}, owner)
    BY <1>5, <2>3, <2>4, <2>5 DEF Accounts
  <2> QED
    BY <2>2, <2>6 DEF Counted
<1>10. ASSUME NEW h \in Tables
       PROVE  SomeoneWon(h)
  <2>1. \A e \in Entries(h) : key[h][e] # DOES_NOT_EXIST => ~Landed(h, key[h][e])
    BY <1>1, TableFacts DEF Landed
  <2> QED
    BY <2>1 DEF SomeoneWon
<1> QED
  BY <1>6, <1>7, <1>8, <1>9, <1>10 DEF IInv

-----------------------------------------------------------------------------
(* The theorems *)

(* A call or a step of a thread keeps the invariant. *)
LEMMA NextKeeps ==
    ASSUME IInv, [Next]_vars, last' \in Tables
    PROVE  IInv'
<1>1. ASSUME NEW t \in Threads, Step(t)
      PROVE  IInv'
  <2>1. CASE CopyLoad(t)
    BY <2>1, CopyReadsKeep
  <2>2. CASE CopyKill(t)
    BY <2>2, CopyWritesKeep
  <2>3. CASE CopyTag(t)
    BY <2>3, CopyWritesKeep
  <2>4. CASE CopyFind(t)
    BY <2>4, FindStepsKeep
  <2>5. CASE CopyGrow(t)
    BY <2>5, CopyReadsKeep
  <2>6. CASE CopyKey(t)
    BY <2>6, KeyStepsKeep
  <2>7. CASE CopyVal(t)
    BY <2>7, ValueWritesKeep
  <2>8. CASE CopyDone(t)
    BY <2>8, CopyWritesKeep
  <2>9. CASE CopyCredit(t)
    BY <2>9, CountStepsKeep
  <2>10. CASE GetFind(t)
    BY <2>10, FindStepsKeep
  <2>11. CASE GetVal(t)
    BY <2>11, ValueStepsKeep
  <2>12. CASE CasFind(t)
    BY <2>12, FindStepsKeep
  <2>13. CASE CasGrow(t)
    BY <2>13, ValueStepsKeep
  <2>14. CASE CasKey(t)
    BY <2>14, KeyStepsKeep
  <2>15. CASE CasLoad(t)
    BY <2>15, ValueStepsKeep
  <2>16. CASE CasVal(t)
    BY <2>16, ValueWritesKeep
  <2>17. CASE Begin(t)
    BY <2>17, HelpStepsKeep
  <2>18. CASE HelpLoad(t)
    BY <2>18, HelpStepsKeep
  <2>19. CASE HelpScan(t)
    BY <2>19, HelpStepsKeep
  <2>20. CASE HelpReserve(t)
    BY <2>20, HelpStepsKeep
  <2>21. CASE HelpEnd(t)
    BY <2>21, CountStepsKeep
  <2>22. CASE Unlink(t)
    BY <2>22, CountStepsKeep
  <2>23. CASE Release(t)
    BY <2>23, CallStepsKeep
  <2>24. CASE IterRef(t)
    BY <2>24, CallStepsKeep
  <2>25. CASE IterKey(t)
    BY <2>25, CallStepsKeep
  <2>26. CASE IterVal(t)
    BY <2>26, CallStepsKeep
  <2>27. CASE IterFree(t)
    BY <2>27, CallStepsKeep
  <2> QED
    BY <1>1, <2>1, <2>2, <2>3, <2>4, <2>5, <2>6, <2>7, <2>8, <2>9, <2>10, <2>11, <2>12, <2>13,
       <2>14,
       <2>15, <2>16, <2>17, <2>18, <2>19, <2>20, <2>21, <2>22, <2>23, <2>24, <2>25, <2>26,
       <2>27 DEF Step
<1>2. ASSUME NEW t \in Threads, ht_get(t) \/ ht_cas(t) \/ ht_remove(t) \/ ht_iter_begin(t)
      PROVE  IInv'
  BY <1>2, CallStepsKeep
<1>3. CASE UNCHANGED vars
  <2>1. UNCHANGED <<ht_hti, last, key, val, copy_scan, num_entries_copied, th, op>>
    BY <1>3 DEF vars, tables, history
  <2>2. Types' /\ Chain'
    <3>1. Types'
      BY <2>1 DEF IInv, Types
    <3>2. \A h, k, e : (Ends(h, k, e) => Ends(h, k, e)') /\ (Shut(h, k) => Shut(h, k)')
      BY <2>1 DEF Ends, Shut, AllDead, NoRoom
    <3>3. \A h : AllDead(h) => AllDead(h)'
      BY <2>1 DEF AllDead
    <3> QED
      BY <2>1, <3>1, <3>2, <3>3 DEF IInv, Chain
  <2>3. \A t \in Threads : LocalOK(t)' /\ CallOK(t)' /\ EntryOK(t)' /\ HelpOK(t)' /\ AskedOK(t)'
    <3> TAKE t \in Threads
    <3>1. \A h, k, e : (Ends(h, k, e) => Ends(h, k, e)') /\ (Over(h, k) => Over(h, k)')
      BY <2>1 DEF Ends, Over, AllDead, NoRoom
    <3>2. \A h, k : NoRoom(h, k) => NoRoom(h, k)'
      BY <2>1 DEF NoRoom
    <3>3. LocalOK(t)'
      BY <2>1 DEF IInv, ThreadOK, LocalOK
    <3>4. CallOK(t)'
      BY <2>1, <3>1 DEF IInv, ThreadOK, CallOK
    <3>5. EntryOK(t)'
      BY <2>1, <3>1, <3>2 DEF IInv, ThreadOK, EntryOK
    <3>6. HelpOK(t)' /\ AskedOK(t)'
      BY <2>1 DEF IInv, ThreadOK, HelpOK, AskedOK
    <3> QED
      BY <3>3, <3>4, <3>5, <3>6
  <2>4. \A t \in Threads : CopyOK(t)'
    <3>1. \A h, k, e : (Ends(h, k, e) => Ends(h, k, e)') /\ (NoRoom(h, k) => NoRoom(h, k)')
      BY <2>1 DEF Ends, NoRoom
    <3>2. \A h, k : (Passed(h, k) => Passed(h, k)') /\ (Landed(h, k) => Landed(h, k)')
      BY <2>1 DEF Passed, Landed, NoRoom
    <3> QED
      BY <2>1, <3>1, <3>2, Zenon DEF IInv, ThreadOK, CopyOK
  <2>5. ASSUME NEW h \in Tables
        PROVE  Counted(h)' /\ SomeoneWon(h)'
    <3>1. Counted(h) /\ SomeoneWon(h)
      BY DEF IInv
    <3>2. PICK counted \in SUBSET Entries(h), owner \in [Entries(h) -> Threads \cup {0}] :
            Accounts(h, counted, owner)
      BY <3>1 DEF Counted
    <3>3. Accounts(h, counted, owner)'
      BY <2>1, <3>2 DEF Accounts, Owed, Pending, Won
    <3>4. Counted(h)'
      BY <3>3 DEF Counted
    <3>5. SomeoneWon(h)'
      BY <2>1, <3>1 DEF SomeoneWon, Landed, Won
    <3> QED
      BY <3>4, <3>5
  <2> QED
    BY <2>2, <2>3, <2>4, <2>5 DEF IInv, ThreadOK
<1> QED
  BY <1>1, <1>2, <1>3 DEF Next

(* What makes the copy right holds throughout (hashtable.c:252-345). *)
THEOREM Invariance == Spec /\ [](last \in Tables) => []IInv
<1>1. Init /\ last \in Tables => IInv
  BY InitHolds
<1>2. IInv /\ [Next]_vars /\ (last \in Tables)' => IInv'
  BY NextKeeps
<1> QED
  BY <1>1, <1>2, PTL DEF Spec

(* The entries counted as copied are dead ones, and once the threads are     *)
(* idle they are all of them.                                                *)
LEMMA CountedIsDead ==
    ASSUME IInv
    PROVE  CopiedIsDead
<1> SUFFICES ASSUME NEW h \in Tables
             PROVE  LET dead == Cardinality({e \in Entries(h) : Dead(val[h][e])}) IN
                    /\ num_entries_copied[h] <= dead
                    /\ Quiet => num_entries_copied[h] = dead
                    /\ h < ht_hti => num_entries_copied[h] = Sizes[h]
  BY DEF CopiedIsDead
<1> DEFINE D == {e \in Entries(h) : Dead(val[h][e])}
<1>1. IsFiniteSet(D)
  BY TableSize, FS_Subset
<1>2. PICK counted \in SUBSET Entries(h), owner \in [Entries(h) -> Threads \cup {0}] :
        Accounts(h, counted, owner)
  BY DEF IInv, Counted
<1>3. counted \subseteq D /\ Cardinality(counted) = num_entries_copied[h]
  BY <1>2 DEF Accounts
<1>4. num_entries_copied[h] <= Cardinality(D)
  BY <1>1, <1>3, FS_Subset
<1>5. ASSUME Quiet
      PROVE  num_entries_copied[h] = Cardinality(D)
  <2>1. ASSUME NEW e \in D, e \notin counted
        PROVE  FALSE
    <3>1. PICK t \in Threads : owner[e] = t
      BY <1>2, <2>1 DEF Accounts
    <3>2. th[t].pc = "idle" /\ LocalOK(t)
      BY <1>5 DEF Quiet, At, IInv, ThreadOK
    <3>3. th[t].num_copied = 0
      BY <3>2 DEF LocalOK, Copying, Placing
    <3>4. Pending(t, h) = 0
      BY <3>2, <3>3 DEF Pending
    <3>5. e \in Owed(t, h, counted, owner)
      BY <2>1, <3>1, <3>2 DEF Owed, Won
    <3>6. IsFiniteSet(Owed(t, h, counted, owner))
      BY TableSize, FS_Subset DEF Owed
    <3>7. Cardinality(Owed(t, h, counted, owner)) = 0
      BY <1>2, <3>4 DEF Accounts
    <3> QED
      BY <3>5, <3>6, <3>7, FS_EmptySet
  <2>2. counted = D
    BY <1>3, <2>1
  <2> QED
    BY <1>3, <2>2
<1>6. h < ht_hti => num_entries_copied[h] = Sizes[h]
  <2>1. h \in Nat \ {0} /\ ht_hti \in Nat /\ Chain
    BY TableFacts DEF IInv, Types
  <2> QED
    BY <2>1 DEF Chain
<1> QED
  BY <1>4, <1>5, <1>6

(* CopiedIsDead: an entry is counted once, and only when nothing is left to  *)
(* copy from it, so hti_help_copy's answer that the copy is done is right    *)
(* and a table that is unlinked is dead, however many threads copy its       *)
(* entries at the same time; and when they have returned every dead entry    *)
(* has been counted (hashtable.c:302-309, 480-520, 668).                     *)
THEOREM CopiedEntriesAreDead == Spec /\ [](last \in Tables) => []CopiedIsDead
<1>1. IInv => CopiedIsDead
  BY CountedIsDead
<1> QED
  BY <1>1, Invariance, PTL

(* DeadStaysDead: no operation that still works on an old table brings a     *)
(* value back to it (hashtable.c:299, 419).                                  *)
THEOREM DeadEntriesStayDead == Spec /\ [](last \in Tables) => DeadStaysDead
<1>1. IInv /\ [Next]_vars =>
        [\A h \in Tables : \A e \in Entries(h) : Dead(val[h][e]) => Dead(val'[h][e])]_vars
  BY DeadKeeps
<1> QED
  BY <1>1, Invariance, PTL DEF Spec, DeadStaysDead

-----------------------------------------------------------------------------
(* References to a table *)

(* There are finitely many references to a table. *)
LEMMA HoldersFinite ==
    \A h : IsFiniteSet(Holders(h)) /\ Cardinality(Holders(h)) \in Nat
<1> TAKE h
<1>1. IsFiniteSet(Holders(h))
  BY HashtableAssumption, FS_Subset DEF Holders
<1> QED
  BY <1>1, FS_CardinalityType

(* The steps that take or give up a reference. *)
LEMMA RefCountsKeep ==
    \A t \in Threads :
      /\ IInv /\ Refs
      /\ \/ Unlink(t) \/ Release(t) \/ IterRef(t) \/ IterFree(t)
      => Refs'
(* ht_cas unlinks a table: the reference of ht->hti is its own to give up. *)
<1>UnlinkHolds. \A t \in Threads : IInv /\ Refs /\ Unlink(t) => Refs'
  <2> TAKE t \in Threads
  <2> HAVE IInv /\ Refs /\ Unlink(t)
  <2>1. /\ th[t].pc = "unlink" /\ UNCHANGED <<ref_count, freed, op>>
        /\ ht_hti' = IF ht_hti = th[t].h THEN th[t].h + 1 ELSE ht_hti
        /\ Go(t, [pc |-> IF ht_hti = th[t].h THEN "release" ELSE "cas"])
    BY DEF Unlink, At, history
  <2>2. /\ DOMAIN th = Threads /\ DOMAIN th[t] = Fields /\ op[t].kind = "cas"
        /\ th[t].h \in Tables /\ ht_hti \in Nat /\ th[t].h \in Nat
    BY <2>1, Known DEF CallOK
  <2>3. /\ \A u \in Threads : u # t => th'[u] = th[u]
        /\ th'[t].pc = IF ht_hti = th[t].h THEN "release" ELSE "cas"
        /\ th'[t].h = th[t].h
    BY <2>1, <2>2, Goes DEF Fields
  <2>4. CASE ht_hti # th[t].h
    BY <2>1, <2>2, <2>3, <2>4, HoldsNothing, RefsStay
  <2>5. CASE ht_hti = th[t].h
    <3>1. PICK g \in Tables : g = th[t].h
      BY <2>2
    <3>2. \A h \in Tables : \A u \in Threads : u # t => (Holds(u, h)' <=> Holds(u, h))
      BY <2>1, <2>3 DEF Holds, Borrows
    <3>3. \A h \in Tables : ~Holds(t, h) /\ (Holds(t, h)' <=> h = g)
      BY <2>1, <2>2, <2>3, <2>5, <3>1 DEF Holds, Borrows
    <3>4. ASSUME NEW h \in Tables, h # g
          PROVE  Referenced(h)'
      <4>1. Holders(h)' = Holders(h) /\ Referenced(h)
        BY <3>2, <3>3, <3>4 DEF Holders, Refs
      <4>2. h \in Nat /\ (ht_hti' <= h <=> ht_hti <= h)
        BY <2>1, <2>2, <2>5, <3>1, <3>4, TableFacts
      <4> QED
        BY <2>1, <4>1, <4>2 DEF Referenced
    <3>5. Referenced(g)'
      <4>1. Holders(g)' = Holders(g) \cup {t} /\ t \notin Holders(g) /\ Referenced(g)
        BY <3>2, <3>3 DEF Holders, Refs
      <4>2. IsFiniteSet(Holders(g)) /\ Cardinality(Holders(g)) \in Nat
        BY HoldersFinite
      <4>3. Cardinality(Holders(g)') = Cardinality(Holders(g)) + 1
        BY <4>1, <4>2, FS_AddElement, Zenon
      <4>4. ht_hti <= g /\ ~(ht_hti' <= g)
        BY <2>1, <2>2, <2>5, <3>1
      <4> QED
        BY <2>1, <4>1, <4>2, <4>3, <4>4 DEF Referenced
    <3> QED
      BY <2>1, <3>4, <3>5 DEF Refs
  <2> QED
    BY <2>4, <2>5
(* A thread gives up its reference to h; the last one frees the table. *)
<1>GivesUp.
      ASSUME NEW t \in Threads, Refs, NEW h \in Tables, hti_release(h), UNCHANGED ht_hti,
             \A u \in Threads : u # t => th'[u] = th[u] /\ op'[u] = op[u],
             \A g \in Tables : ~Holds(t, g)' /\ (Holds(t, g) <=> g = h)
      PROVE  Refs'
  <2> USE <1>GivesUp
  <2>1. \A g \in Tables : \A u \in Threads : u # t => (Holds(u, g)' <=> Holds(u, g))
    BY DEF Holds, Borrows
  <2>2. /\ DOMAIN ref_count' = Tables /\ DOMAIN freed' = Tables
        /\ \A g \in Tables : g # h => ref_count'[g] = ref_count[g] /\ freed'[g] = freed[g]
        /\ ref_count'[h] = ref_count[h] - 1
        /\ freed'[h] = freed[h] + (IF ref_count[h] = 1 THEN 1 ELSE 0)
    BY DEF hti_release, Refs
  <2>3. ASSUME NEW g \in Tables, g # h
        PROVE  Referenced(g)'
    <3>1. Holders(g)' = Holders(g) /\ Referenced(g)
      BY <2>1, <2>3 DEF Holders, Refs
    <3> QED
      BY <2>2, <2>3, <3>1 DEF Referenced
  <2>4. Referenced(h)'
    <3>1. Holders(h)' = Holders(h) \ {t} /\ t \in Holders(h) /\ Referenced(h)
      BY <2>1 DEF Holders, Refs
    <3>2. IsFiniteSet(Holders(h)) /\ Cardinality(Holders(h)) \in Nat
      BY HoldersFinite
    <3>3. Cardinality(Holders(h)') = Cardinality(Holders(h)) - 1
      BY <3>1, <3>2, FS_RemoveElement, Zenon
    <3>4. IsFiniteSet(Holders(h)') /\ Cardinality(Holders(h)') \in Nat
      BY <3>1, <3>2, FS_RemoveElement, FS_CardinalityType
    <3> QED
      BY <2>2, <3>1, <3>2, <3>3, <3>4 DEF Referenced
  <2> QED
    BY <2>2, <2>3, <2>4 DEF Refs
(* hti_release by who unlinked the table. *)
<1>ReleaseHolds. \A t \in Threads : IInv /\ Refs /\ Release(t) => Refs'
  <2> TAKE t \in Threads
  <2> HAVE IInv /\ Refs /\ Release(t)
  <2>1. th[t].pc = "release" /\ hti_release(th[t].h) /\ Go(t, [pc |-> "cas"]) /\ UNCHANGED <<ht_hti, op>>
    BY DEF Release, At, history
  <2>2. DOMAIN th = Threads /\ DOMAIN th[t] = Fields /\ op[t].kind = "cas" /\ th[t].h \in Tables
    BY <2>1, Known DEF CallOK
  <2>3. th'[t].pc = "cas" /\ \A u \in Threads : u # t => th'[u] = th[u]
    BY <2>1, <2>2, Goes DEF Fields
  <2>4. PICK h \in Tables : h = th[t].h
    BY <2>2
  <2>5. \A g \in Tables : ~Holds(t, g)' /\ (Holds(t, g) <=> g = h)
    BY <2>1, <2>2, <2>3, <2>4 DEF Holds, Borrows
  <2> QED
    BY <2>1, <2>3, <2>4, <2>5, <1>GivesUp
(* ht_iter_begin takes a reference to a table that has not been freed. *)
<1>IterRefHolds. \A t \in Threads : IInv /\ Refs /\ IterRef(t) => Refs'
  <2> TAKE t \in Threads
  <2> HAVE IInv /\ Refs /\ IterRef(t)
  <2>1. th[t].pc = "iter_ref" /\ UNCHANGED <<ht_hti, freed, op>>
    BY DEF IterRef, At, history
  <2>2. /\ DOMAIN th = Threads /\ DOMAIN th[t] = Fields /\ th[t].h \in Tables
        /\ op[t].kind = "iterate"
    BY <2>1, Known DEF CallOK, Iterating
  <2>3. CASE ref_count[th[t].h] = 0
    <3>1. Go(t, [pc |-> "begin", h |-> ht_hti]) /\ UNCHANGED ref_count
      BY <2>3 DEF IterRef
    <3> QED
      BY <2>1, <3>1, GoHolds DEF Fields
  <2>4. CASE ref_count[th[t].h] # 0
    <3>1. PICK h \in Tables : h = th[t].h
      BY <2>2
    <3>2. ref_count' = [ref_count EXCEPT ![h] = @ + 1] /\ Go(t, [pc |-> "iter_key", iter |-> h])
      BY <2>4, <3>1 DEF IterRef
    <3>3. /\ \A u \in Threads : u # t => th'[u] = th[u]
          /\ th'[t].pc = "iter_key" /\ th'[t].iter = h
      BY <2>2, <3>2, Goes DEF Fields
    <3>4. \A g \in Tables : \A u \in Threads : u # t => (Holds(u, g)' <=> Holds(u, g))
      BY <2>1, <3>3 DEF Holds, Borrows
    <3>5. \A g \in Tables : ~Holds(t, g) /\ (Holds(t, g)' <=> g = h)
      BY <2>1, <2>2, <3>3 DEF Holds, Borrows, Copying, Placing
    <3>6. /\ DOMAIN ref_count' = Tables /\ ref_count'[h] = ref_count[h] + 1
          /\ \A g \in Tables : g # h => ref_count'[g] = ref_count[g]
      BY <3>2 DEF Refs
    <3>7. ASSUME NEW g \in Tables, g # h
          PROVE  Referenced(g)'
      <4>1. Holders(g)' = Holders(g) /\ Referenced(g)
        BY <3>4, <3>5, <3>7 DEF Holders, Refs
      <4> QED
        BY <2>1, <3>6, <3>7, <4>1 DEF Referenced
    <3>8. Referenced(h)'
      <4>1. Holders(h)' = Holders(h) \cup {t} /\ t \notin Holders(h) /\ Referenced(h)
        BY <3>4, <3>5 DEF Holders, Refs
      <4>2. IsFiniteSet(Holders(h)) /\ Cardinality(Holders(h)) \in Nat
        BY HoldersFinite
      <4>3. Cardinality(Holders(h)') = Cardinality(Holders(h)) + 1
        BY <4>1, <4>2, FS_AddElement, Zenon
      <4> QED
        BY <2>1, <2>4, <3>1, <3>6, <4>1, <4>2, <4>3 DEF Referenced
    <3> QED
      BY <2>1, <3>6, <3>7, <3>8 DEF Refs
  <2> QED
    BY <2>3, <2>4
(* ht_iter_free. *)
<1>IterFreeHolds. \A t \in Threads : IInv /\ Refs /\ IterFree(t) => Refs'
  <2> TAKE t \in Threads
  <2> HAVE IInv /\ Refs /\ IterFree(t)
  <2>1. /\ th[t].pc = "iter_free" /\ hti_release(th[t].iter) /\ UNCHANGED ht_hti
        /\ th' = [th EXCEPT ![t] = Idle] /\ op' = [op EXCEPT ![t] = NoOp]
    BY DEF IterFree, At
  <2>2. DOMAIN th = Threads /\ DOMAIN op = Threads /\ op[t].kind = "iterate" /\ th[t].iter \in Tables
    BY <2>1, Known DEF CallOK, Iterating
  <2>3. /\ \A u \in Threads : u # t => th'[u] = th[u] /\ op'[u] = op[u]
        /\ th'[t].pc = "idle" /\ op'[t].kind = "none"
    BY <2>1, <2>2 DEF Idle, NoOp
  <2>4. PICK h \in Tables : h = th[t].iter
    BY <2>2
  <2>5. \A g \in Tables : ~Holds(t, g)' /\ (Holds(t, g) <=> g = h)
    BY <2>1, <2>2, <2>3, <2>4 DEF Holds, Borrows
  <2> QED
    BY <2>1, <2>3, <2>4, <2>5, <1>GivesUp
<1> QED
  BY <1>UnlinkHolds, <1>ReleaseHolds, <1>IterRefHolds, <1>IterFreeHolds

(* At the start ht->hti is the only reference. *)
LEMMA InitRefs ==
    ASSUME Init
    PROVE  Refs
<1>1. /\ ht_hti = 1 /\ ref_count = [h \in Tables |-> 1] /\ freed = [h \in Tables |-> 0]
      /\ th = [t \in Threads |-> Idle] /\ op = [t \in Threads |-> NoOp]
  BY Zenon DEF Init
<1>2. \A h \in Tables : Holders(h) = {}
  BY <1>1 DEF Holders, Holds, Borrows, Idle, NoOp
<1>3. Cardinality({}) = 0
  BY FS_EmptySet
<1>4. ASSUME NEW h \in Tables
      PROVE  Referenced(h)
  <2>1. h \in Nat \ {0} /\ Cardinality(Holders(h)) = 0
    BY <1>2, <1>3, TableFacts, Zenon
  <2>2. ref_count[h] = 1 /\ freed[h] = 0 /\ ht_hti <= h
    BY <1>1, <2>1
  <2> QED
    BY <2>1, <2>2 DEF Referenced
<1> QED
  BY <1>1, <1>4 DEF Refs

(* A call or a step of a thread keeps the count of the references. *)
LEMMA RefsKeep ==
    ASSUME IInv, Refs, [Next]_vars
    PROVE  Refs'
<1>1. CASE UNCHANGED vars
  <2>1. UNCHANGED <<ht_hti, ref_count, freed, th, op>>
    BY <1>1 DEF vars, tables, history
  <2>2. \A h \in Tables : \A t \in Threads : Holds(t, h)' <=> Holds(t, h)
    BY <2>1 DEF Holds, Borrows
  <2>3. \A h \in Tables : Holders(h)' = Holders(h)
    BY <2>2 DEF Holders
  <2> QED
    BY <2>1, <2>3 DEF Refs, Referenced
<1>2. ASSUME NEW t \in Threads, Step(t)
      PROVE  Refs'
  BY <1>2, RefStepsKeep, RefCountsKeep DEF Step

<1> QED
  BY <1>1, <1>2, RefStepsKeep DEF Next

(* The reference count of a table is the number of its users, and it is      *)
(* freed when there are none (hashtable.c:522-549, 665-677, 723).            *)
THEOREM ReferencesAreCounted == Spec /\ [](last \in Tables) => []Refs
<1>1. Init => Refs
  BY InitRefs
<1>2. IInv /\ Refs /\ [Next]_vars => Refs'
  BY RefsKeep
<1> QED
  BY <1>1, <1>2, Invariance, PTL DEF Spec

(* FreedIsUnused: a table goes to rcu_defer_free once, after it was unlinked,*)
(* when its copy is complete and no iterator is at it, whatever the order in *)
(* which ht_cas unlinks it and iterators take and give up references         *)
(* (hashtable.c:522-549, 665-677, 723).                                      *)
THEOREM FreedTablesAreUnused == Spec /\ [](last \in Tables) => []FreedIsUnused
<1>1. ASSUME IInv, Refs
      PROVE  FreedIsUnused
  <2> SUFFICES ASSUME NEW h \in Tables, freed[h] > 0
               PROVE  /\ freed[h] = 1 /\ h < ht_hti
                      /\ \A e \in Entries(h) : Dead(val[h][e])
                      /\ \A t \in Threads : At(t, "iter_key") => th[t].iter # h
    BY DEF FreedIsUnused
  <2>1. Referenced(h) /\ IsFiniteSet(Holders(h)) /\ Cardinality(Holders(h)) \in Nat
    BY <1>1, HoldersFinite DEF Refs
  <2>2. freed[h] = 1 /\ ref_count[h] = 0
    BY <2>1 DEF Referenced
  <2>3. h \in Nat \ {0} /\ ht_hti \in Nat /\ last \in Nat
    BY <1>1, TableFacts DEF IInv, Types
  <2>4. Cardinality(Holders(h)) = 0 /\ h < ht_hti
    BY <2>1, <2>2, <2>3 DEF Referenced
  <2>5. Holders(h) = {}
    BY <2>1, <2>4, FS_EmptySet
  <2>6. AllDead(h)
    BY <1>1, <2>3, <2>4 DEF IInv, Chain
  <2>7. ASSUME NEW t \in Threads, th[t].pc = "iter_key"
        PROVE  th[t].iter # h
    <3>1. op[t].kind = "iterate"
      BY <1>1, <2>7, Known DEF CallOK, Iterating
    <3> QED
      BY <2>5, <2>7, <3>1 DEF Holders, Holds, Borrows
  <2> QED
    BY <2>2, <2>4, <2>6, <2>7 DEF AllDead, At
<1> QED
  BY <1>1, Invariance, ReferencesAreCounted, PTL

(* TypeOK: every variable has its type, a key is in one entry of a table at  *)
(* most, whoever raced to install it (hashtable.c:279, 365), and a table has *)
(* at most one reference a thread besides ht->hti's.                         *)
THEOREM TypeCorrect == Spec /\ [](last \in Tables) => []TypeOK
<1>1. ASSUME IInv, Refs
      PROVE  TypeOK
  <2>1. last \in Tables /\ ht_hti \in 1..last
    BY <1>1 DEF IInv, Types
  <2>2. ASSUME NEW h \in Tables
        PROVE  /\ key[h] \in [Entries(h) -> Keys \cup {DOES_NOT_EXIST}]
               /\ val[h] \in [Entries(h) -> Values \X BOOLEAN]
               /\ copy_scan[h] \in 0..(2 * Sizes[h] + ENTRIES_PER_COPY_CHUNK)
    <3>1. /\ key[h] \in [Entries(h) -> Keys \cup {DOES_NOT_EXIST}]
          /\ val[h] \in [Entries(h) -> Words]
          /\ copy_scan[h] \in Nat /\ copy_scan[h] < 2 * Sizes[h] + ENTRIES_PER_COPY_CHUNK
      BY <1>1 DEF IInv, Types
    <3>2. 2 * Sizes[h] + ENTRIES_PER_COPY_CHUNK \in Nat
      BY HashtableAssumption
    <3>3. copy_scan[h] \in 0..(2 * Sizes[h] + ENTRIES_PER_COPY_CHUNK)
      BY <3>1, <3>2
    <3> QED
      BY <3>1, <3>3 DEF Words
  <2>3. ASSUME NEW h \in Tables
        PROVE  ref_count[h] \in 0..(1 + Cardinality(Threads)) /\ freed[h] \in Nat
    <3>1. Referenced(h) /\ IsFiniteSet(Holders(h)) /\ Cardinality(Holders(h)) \in Nat
      BY <1>1, HoldersFinite DEF Refs
    <3>2. Cardinality(Holders(h)) <= Cardinality(Threads) /\ Cardinality(Threads) \in Nat
      <4>1. IsFiniteSet(Threads) /\ Holders(h) \subseteq Threads
        BY HashtableAssumption DEF Holders
      <4> QED
        BY <4>1, FS_Subset, FS_CardinalityType
    <3> QED
      BY <3>1, <3>2 DEF Referenced
  <2>4. ASSUME NEW h \in Tables, NEW e1 \in Entries(h), NEW e2 \in Entries(h),
               key[h][e1] = key[h][e2], key[h][e1] # DOES_NOT_EXIST
        PROVE  e1 = e2
    <3>1. key[h][e1] \in Keys
      BY <2>2, <2>4
    <3> QED
      BY <1>1, <2>4, <3>1, KeyEntry
  <2>5. \A t \in Threads : th[t].h \in 1..last /\ th[t].to \in 1..last /\ th[t].iter \in 1..last
    BY <1>1, Known DEF LocalOK
  <2> QED
    BY <2>1, <2>2, <2>3, <2>4, <2>5 DEF TypeOK
<1> QED
  BY <1>1, Invariance, ReferencesAreCounted, PTL

-----------------------------------------------------------------------------
(* The supply of tables *)

(* The numbers of the tables that the keys of K are in, and the first. *)
Numbers(f, K) == {1} \cup {f[k] : k \in K}

(* They have a greatest. *)
LEMMA Greatest ==
    ASSUME NEW N \in Nat, NEW f, NEW K \in SUBSET (1..N), \A k \in K : f[k] \in Nat \ {0}
    PROVE  Max(Numbers(f, K)) \in Nat \ {0}
<1> DEFINE S(n) == {1} \cup {f[k] : k \in {k \in K : k <= n}}
           Has(n) == \E m \in S(n) : \A i \in S(n) : i <= m
           Bad == {n \in 0..N : ~Has(n)}
<1>0. \A n \in 0..N : S(n) \subseteq Nat \ {0}
  OBVIOUS
<1>1. Has(0)
  <2>1. S(0) = {1}
    OBVIOUS
  <2> QED
    BY <2>1
<1>2. ASSUME NEW n \in 1..N, Has(n - 1)
      PROVE  Has(n)
  <2>1. PICK m \in S(n - 1) : \A i \in S(n - 1) : i <= m
    BY <1>2
  <2>2. n - 1 \in 0..N /\ m \in Nat \ {0}
    BY <1>0, <2>1
  <2>3. CASE n \notin K
    <3>1. S(n) = S(n - 1)
      BY <2>3
    <3> QED
      BY <1>2, <3>1, Zenon
  <2>4. CASE n \in K
    <3>1. S(n) = S(n - 1) \cup {f[n]}
      BY <2>4
    <3>2. f[n] \in Nat \ {0}
      BY <2>4
    <3>0. \A i \in S(n - 1) : i \in Nat
      BY <1>0, <2>2
    <3> HIDE DEF S
    <3>3. CASE f[n] <= m
      BY <2>1, <3>1, <3>3
    <3>4. CASE m < f[n]
      <4>1. ASSUME NEW i \in S(n - 1)
            PROVE  i <= f[n]
        <5>1. i \in Nat /\ i <= m
          BY <2>1, <3>0
        <5> QED
          BY <2>2, <3>2, <3>4, <5>1
      <4>2. f[n] <= f[n]
        BY <3>2
      <4> QED
        BY <3>1, <4>1, <4>2
    <3> QED
      BY <2>2, <3>2, <3>3, <3>4
  <2> QED
    BY <2>3, <2>4
<1>3. Bad = {}
  <2> SUFFICES ASSUME Bad # {} PROVE FALSE
    OBVIOUS
  <2>1. PICK n \in Bad : \A m \in Bad : n <= m
    <3>1. Bad \subseteq Nat
      OBVIOUS
    <3> HIDE DEF Bad
    <3> QED
      BY <3>1, Least
  <2>2. n # 0
    BY <1>1
  <2>3. n \in 1..N /\ n - 1 \in 0..N /\ ~(n <= n - 1)
    BY <2>2
  <2>4. Has(n - 1)
    BY <2>1, <2>3, Zenon
  <2> QED
    BY <1>2, <2>3, <2>4, Zenon
<1>4. S(N) = Numbers(f, K)
  BY DEF Numbers
<1>5. Has(N)
  <2> HIDE DEF Has
  <2>1. N \in 0..N /\ N \notin Bad
    BY <1>3
  <2> QED
    BY <2>1
<1> HIDE DEF S
<1>6. PICK m \in Numbers(f, K) : \A i \in Numbers(f, K) : i <= m
  BY <1>4, <1>5
<1>7. \A i \in Numbers(f, K) : i \in Nat \ {0}
  BY DEF Numbers
<1>8. \A i \in Numbers(f, K) : m >= i
  BY <1>6, <1>7
<1>9. \A T : (\E x \in T : \A y \in T : x >= y) => Max(T) \in T
  BY Zenon DEF Max
<1> QED
  BY <1>7, <1>8, <1>9

(* Where the supply of tables has no end the chain stays within it, so that  *)
(* the theorems above hold without a condition there: hti_start_copy can     *)
(* always allocate the next table (hashtable.c:182-204).                     *)
THEOREM ChainHasRoom ==
    ASSUME Tables = Nat \ {0}
    PROVE  Spec => [](last \in Tables)
<1>1. Init => last \in Tables
  <2> SUFFICES ASSUME Init PROVE last \in Tables
    OBVIOUS
  <2>1. PICK old \in [Keys -> BOOLEAN],
             home \in [Keys -> UNION {{h} \X Entries(h) : h \in Tables}] :
               last = Max({1} \cup {home[k][1] : k \in {k \in Keys : old[k]}})
    BY Zenon DEF Init
  <2> DEFINE f == [k \in Keys |-> home[k][1]]
             K == {k \in Keys : old[k]}
  <2>2. \A k \in K : f[k] \in Nat \ {0}
    OBVIOUS
  <2>3. last = Max(Numbers(f, K))
    BY <2>1, Zenon DEF Numbers
  <2>4. NumKeys \in Nat /\ K \in SUBSET (1..NumKeys)
    BY HashtableAssumption DEF Keys
  <2> HIDE DEF f, K
  <2> QED
    BY <2>2, <2>3, <2>4, Greatest
<1>2. last \in Tables /\ [Next]_vars => (last \in Tables)'
  BY LastGrows DEF Tables
<1> QED
  BY <1>1, <1>2, PTL DEF Spec

=============================================================================
