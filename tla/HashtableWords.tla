--------------------------- MODULE HashtableWords ---------------------------
(***************************************************************************)
(* The steps of the hashtable that write the values of a table, and what   *)
(* every step does to the references a thread holds.                       *)
(***************************************************************************)
EXTENDS HashtableInv

USE Untyped

-----------------------------------------------------------------------------
(* A value is written *)

(* An entry gets a word that may follow the one it has. *)
Writes(g, e, w, v) ==
    /\ w = val[g][e] /\ v \in Words /\ v # EMPTY
    /\ val' = [val EXCEPT ![g][e] = v]
    /\ Dead(w) => v = w
    /\ Tagged(w) /\ v # w => v = COPIED_VALUE
    /\ v = COPIED_VALUE /\ w \notin {EMPTY, COPIED_VALUE} => Landed(g, key[g][e])
    /\ v \notin {EMPTY, COPIED_VALUE} => key[g][e] # DOES_NOT_EXIST
    /\ Tagged(v) => g < last

(* Writing a value to an entry lets the tables grow and no key come back. *)
LEMMA WordWritten ==
    ASSUME IInv, NEW g \in Tables, NEW e \in Entries(g), NEW w, NEW v, Writes(g, e, w, v),
           UNCHANGED <<ht_hti, last, key, copy_scan, num_entries_copied>>,
           DOMAIN th' = Threads, DOMAIN op' = Threads
    PROVE  /\ Types' /\ Grow /\ Chain'
           /\ \A h \in Tables : \A f \in Entries(h) :
                val'[h][f] = IF h = g /\ f = e THEN v ELSE val[h][f]
           /\ \A h \in Tables : \A q : Landed(h, q)' =>
                \/ Landed(h, q)
                \/ w = EMPTY /\ h < g /\ q = key[g][e] /\ v # COPIED_VALUE
<1>1. Types /\ Chain /\ last \in Nat /\ ht_hti \in Nat
  BY TableFacts DEF IInv, Types
<1>2. DOMAIN val = Tables /\ \A h \in Tables : val[h] \in [Entries(h) -> Words]
  BY <1>1 DEF Types
<1>3. /\ w = val[g][e] /\ v \in Words /\ v # EMPTY
      /\ val' = [val EXCEPT ![g][e] = v]
      /\ Dead(w) => v = w
      /\ Tagged(w) /\ v # w => v = COPIED_VALUE
      /\ v = COPIED_VALUE /\ w \notin {EMPTY, COPIED_VALUE} => Landed(g, key[g][e])
      /\ v \notin {EMPTY, COPIED_VALUE} => key[g][e] # DOES_NOT_EXIST
      /\ Tagged(v) => g < last
  BY DEF Writes
<1>4. /\ \A h \in Tables : \A f \in Entries(h) :
           val'[h][f] = IF h = g /\ f = e THEN v ELSE val[h][f]
      /\ DOMAIN val' = Tables
      /\ \A h \in Tables : val'[h] \in [Entries(h) -> Words]
  BY <1>2, <1>3
<1>5. Types'
  BY <1>1, <1>4 DEF Types
<1>6. \A h \in Tables : h \in Nat
  BY TableFacts
<1>8. ASSUME NEW q, Landed(g, q)
      PROVE  Landed(g, q)'
  <2>1. PICK h2 \in Tables : \E f \in Entries(h2) :
          g < h2 /\ key[h2][f] = q /\ val[h2][f] \notin {EMPTY, COPIED_VALUE}
    BY <1>8 DEF Landed
  <2>2. h2 # g
    BY <1>6, <2>1
  <2> QED
    BY <1>4, <2>1, <2>2 DEF Landed
<1>9. ASSUME NEW h \in Tables, NEW q, Landed(h, q)
      PROVE  Landed(h, q)'
  <2>1. PICK h2 \in Tables : \E f \in Entries(h2) :
          h < h2 /\ key[h2][f] = q /\ val[h2][f] \notin {EMPTY, COPIED_VALUE}
    BY <1>9 DEF Landed
  <2>2. PICK f \in Entries(h2) :
          h < h2 /\ key[h2][f] = q /\ val[h2][f] \notin {EMPTY, COPIED_VALUE}
    BY <2>1
  <2>3. CASE ~(h2 = g /\ f = e)
    BY <1>4, <2>2, <2>3 DEF Landed
  <2>4. CASE h2 = g /\ f = e /\ v # COPIED_VALUE
    BY <1>3, <1>4, <2>2, <2>4 DEF Landed
  <2>5. CASE h2 = g /\ f = e /\ v = COPIED_VALUE
    <3>1. Landed(g, q)
      BY <1>3, <2>2, <2>5
    <3>2. PICK h3 \in Tables : \E f3 \in Entries(h3) :
            g < h3 /\ key[h3][f3] = q /\ val[h3][f3] \notin {EMPTY, COPIED_VALUE}
      BY <3>1 DEF Landed
    <3>3. h3 # g /\ h < h3
      BY <1>6, <2>2, <2>5, <3>2
    <3> QED
      BY <1>4, <3>2, <3>3 DEF Landed
  <2> QED
    BY <2>3, <2>4, <2>5
<1>10. ASSUME NEW h \in Tables, NEW q, Landed(h, q)', ~Landed(h, q)
       PROVE  w = EMPTY /\ h < g /\ q = key[g][e] /\ v # COPIED_VALUE
  <2>1. PICK h2 \in Tables : \E f \in Entries(h2) :
          h < h2 /\ key[h2][f] = q /\ val'[h2][f] \notin {EMPTY, COPIED_VALUE}
    BY <1>10 DEF Landed
  <2>2. PICK f \in Entries(h2) :
          h < h2 /\ key[h2][f] = q /\ val'[h2][f] \notin {EMPTY, COPIED_VALUE}
    BY <2>1
  <2>3. h2 = g /\ f = e
    BY <1>4, <1>10, <2>2 DEF Landed
  <2>4. w \in {EMPTY, COPIED_VALUE} /\ v # COPIED_VALUE
    BY <1>3, <1>4, <1>10, <2>2, <2>3 DEF Landed
  <2>5. w # COPIED_VALUE
    BY <1>3, <2>4, WordNames
  <2> QED
    BY <2>2, <2>3, <2>4, <2>5
<1>11. ASSUME NEW h \in Tables, NEW f \in Entries(h)
       PROVE  /\ val[h][f] # EMPTY => val'[h][f] # EMPTY
              /\ Dead(val[h][f]) => val'[h][f] = val[h][f]
              /\ Tagged(val[h][f]) /\ val'[h][f] # val[h][f] =>
                   val'[h][f] = COPIED_VALUE /\ Landed(h, key[h][f])'
  <2>1. CASE h = g /\ f = e
    <3>1. Tagged(w) /\ v # w => v = COPIED_VALUE /\ Landed(g, key[g][e])
      BY <1>3, WordNames
    <3>2. PICK q : q = key[g][e]
      OBVIOUS
    <3>3. Tagged(w) /\ v # w => v = COPIED_VALUE /\ Landed(g, q)'
      BY <1>8, <3>1, <3>2
    <3> QED
      BY <1>3, <1>4, <2>1, <3>2, <3>3
  <2>2. CASE ~(h = g /\ f = e)
    BY <1>4, <2>2
  <2> QED
    BY <2>1, <2>2
<1>12. Grow
  BY <1>1, <1>9, <1>11 DEF Grow
<1>13. ASSUME NEW h \in Tables, NEW f \in Entries(h)
       PROVE  /\ key'[h][f] # DOES_NOT_EXIST =>
                   Ends(h, key[h][f], f)' /\ \A i \in 1..(h - 1) : Shut(i, key[h][f])'
              /\ val'[h][f] \notin {EMPTY, COPIED_VALUE} => key'[h][f] # DOES_NOT_EXIST
              /\ Tagged(val'[h][f]) => h < last'
  <2>1. \A i \in 1..(h - 1) : i \in Tables
    BY TableFacts
  <2>2. /\ val'[h][f] \notin {EMPTY, COPIED_VALUE} => key'[h][f] # DOES_NOT_EXIST
        /\ Tagged(val'[h][f]) => h < last'
    BY <1>1, <1>3, <1>4 DEF Chain
  <2>3. PICK q : q = key[h][f]
    OBVIOUS
  <2>4. q # DOES_NOT_EXIST => q \in Keys
    BY <1>1, <2>3 DEF Types
  <2>5. q # DOES_NOT_EXIST => Ends(h, q, f) /\ \A i \in 1..(h - 1) : Shut(i, q)
    BY <1>1, <2>3 DEF Chain
  <2>6. q # DOES_NOT_EXIST => Ends(h, q, f)' /\ \A i \in 1..(h - 1) : Shut(i, q)'
    BY <1>12, <2>1, <2>4, <2>5, GrowKeeps
  <2> QED
    BY <2>2, <2>3, <2>6
<1>14. \A h \in 1..(ht_hti' - 1) : AllDead(h)' /\ num_entries_copied'[h] = Sizes[h]
  <2>1. \A h \in 1..(ht_hti - 1) : h \in Tables
    BY <1>1, TableFacts DEF Types
  <2>2. \A h \in 1..(ht_hti - 1) : AllDead(h) /\ num_entries_copied[h] = Sizes[h]
    BY <1>1 DEF Chain
  <2> QED
    BY <1>12, <2>1, <2>2 DEF Grow, AllDead
<1>15. Chain'
  BY <1>13, <1>14 DEF Chain
<1> QED
  BY <1>4, <1>5, <1>10, <1>12, <1>15

(* The accounts of a table stay right when the entries that die are those    *)
(* somebody has copied and not accounted for yet.                            *)
LEMMA AccountsStay ==
    ASSUME NEW h \in Tables, Counted(h), num_entries_copied'[h] = num_entries_copied[h],
           \A e \in Entries(h) : Dead(val[h][e]) => Dead(val'[h][e]),
           \A e \in Entries(h) : Dead(val'[h][e]) /\ ~Dead(val[h][e]) =>
               \E u \in Threads : Won(u, h, e),
           \A u \in Threads : Pending(u, h)' = Pending(u, h),
           \A u \in Threads : \A e \in Entries(h) : Won(u, h, e)' <=> Won(u, h, e)
    PROVE  Counted(h)'
<1>1. PICK counted \in SUBSET Entries(h), owner \in [Entries(h) -> Threads \cup {0}] :
        Accounts(h, counted, owner)
  BY DEF Counted
<1>2. \A u \in Threads : \A e \in Entries(h) : Won(u, h, e) => e \notin counted /\ owner[e] = u
  BY <1>1 DEF Accounts
<1>3. ASSUME NEW u \in Threads
      PROVE  Owed(u, h, counted, owner)' = Owed(u, h, counted, owner)
  BY <1>2 DEF Owed
<1>4. \A e \in Entries(h) : Dead(val'[h][e]) /\ e \notin counted => owner[e] \in Threads
  BY <1>1, <1>2 DEF Accounts
<1>5. Accounts(h, counted, owner)'
  BY <1>1, <1>2, <1>3, <1>4 DEF Accounts
<1> QED
  BY <1>1, <1>5 DEF Counted

(* No value lands, and who copied one is still there, or has marked it. *)
LEMMA StillWon ==
    ASSUME NEW h \in Tables, SomeoneWon(h), key' = key,
           \A q : Landed(h, q)' => Landed(h, q),
           \A e \in Entries(h) : Dead(val[h][e]) => Dead(val'[h][e]),
           \A u \in Threads : \A e \in Entries(h) :
               Won(u, h, e) => Won(u, h, e)' \/ Dead(val'[h][e])
    PROVE  SomeoneWon(h)'
  BY DEF SomeoneWon

(* Who copied an entry has seen its tag. *)
LEMMA WonIsTagged ==
    \A u \in Threads : \A h, e : IInv /\ Won(u, h, e) =>
        /\ Tagged(val[h][e]) /\ val[h][e] # TAG_VALUE(Tombstone)
        /\ Landed(h, key[h][e])
  BY Known DEF Won, CopyOK, Placing

(* A table that has an entry for a key. *)
LEMMA KeyEntry ==
    \A g \in Tables : \A f \in Entries(g), k \in Keys : IInv /\ key[g][f] = k =>
        /\ Ends(g, k, f) /\ ~NoRoom(g, k) /\ \A i \in 1..(g - 1) : Shut(i, k)
        /\ \A f2 \in Entries(g) : key[g][f2] = k => f2 = f
<1> TAKE g \in Tables
<1> TAKE f \in Entries(g), k \in Keys
<1> HAVE IInv /\ key[g][f] = k
<1>1. Chain /\ k # DOES_NOT_EXIST
  BY HashtableAssumption DEF IInv
<1>2. /\ \A f2 \in Entries(g) : key[g][f2] = k => Ends(g, k, f2)
      /\ \A i \in 1..(g - 1) : Shut(i, k)
  BY <1>1 DEF Chain
<1>3. Ends(g, k, f)
  BY <1>2
<1>4. ~NoRoom(g, k)
  BY <1>3, EndsHasRoom
<1> QED
  BY <1>2, <1>3, <1>4, OneEntry

(* and to who did not. *)
LEMMA CopyMarks ==
    ASSUME NEW t \in Threads, IInv, th[t].pc \in Copying, th[t].pc # "copy_done",
           NEW h \in Tables, NEW from \in Entries(h), h = th[t].h, from = th[t].from,
           NEW w, NEW v, Writes(h, from, w, v), Dead(v), v = COPIED_VALUE \/ w # EMPTY,
           UNCHANGED <<ht_hti, last, key, copy_scan, num_entries_copied, op>>,
           Go(t, CopyReturns(t, FALSE)),
           Dead(w) \/ \E u \in Threads : Won(u, h, from)
    PROVE  IInv'
<1>1. DOMAIN th' = Threads /\ DOMAIN op' = Threads
  BY Known, CopyReturnsGoes
<1>2. /\ Types' /\ Grow /\ Chain'
      /\ \A g \in Tables : \A f \in Entries(g) :
           val'[g][f] = IF g = h /\ f = from THEN v ELSE val[g][f]
      /\ \A g \in Tables : \A q : Landed(g, q)' => Landed(g, q)
  BY <1>1, WordWritten
<1>3. w = val[h][from] /\ Dead(val'[h][from])
  BY <1>2 DEF Writes
<1>4. /\ ThreadOK(t)' /\ \A u \in Threads : u # t => th'[u] = th[u]
      /\ th'[t].pc # "copy_done"
      /\ \A g \in Tables : g # th[t].h => Pending(t, g) = 0 /\ Pending(t, g)' = 0
      /\ \A g \in Tables : g = th[t].h =>
           Pending(t, g) \in Nat /\ Pending(t, g)' = Pending(t, g) + (IF FALSE THEN 1 ELSE 0)
  BY <1>2, <1>3, CopyReturned
<1>5. \A g \in Tables : Counted(g) /\ SomeoneWon(g)
  BY DEF IInv
<1>6. \A u \in Threads : \A g, e : Won(u, g, e)' <=> Won(u, g, e)
  BY <1>4 DEF Won
<1>7. ASSUME NEW g \in Tables
      PROVE  Counted(g)' /\ SomeoneWon(g)'
  <2>1. Pending(t, g)' = Pending(t, g)
    BY <1>4
  <2>2. \A u \in Threads : Pending(u, g)' = Pending(u, g)
    BY <1>4, <2>1 DEF Pending
  <2>3. \A e \in Entries(g) : Dead(val[g][e]) => Dead(val'[g][e])
    BY <1>2 DEF Grow
  <2>4. \A e \in Entries(g) : Dead(val'[g][e]) /\ ~Dead(val[g][e]) =>
          \E u \in Threads : Won(u, g, e)
    BY <1>2, <1>3
  <2>5. Counted(g)'
    BY <1>5, <1>6, <2>2, <2>3, <2>4, AccountsStay
  <2>6. SomeoneWon(g)'
    BY <1>2, <1>5, <1>6, <2>3, StillWon
  <2> QED
    BY <2>5, <2>6
<1> QED
  BY <1>2, <1>4, <1>7, StepKeeps

(* A call or a copier writes the value of an entry it found. *)
LEMMA ValueWritesKeep ==
    \A t \in Threads : IInv /\ (CopyVal(t) \/ CasVal(t)) => IInv'
(* The thread whose value went into the new table is the only one. *)
<1>Wins.
      ASSUME NEW t \in Threads, NEW h \in Tables, NEW e \in Entries(h), Counted(h),
             num_entries_copied'[h] = num_entries_copied[h],
             ~Dead(val[h][e]), \A u \in Threads : ~Won(u, h, e),
             \A f \in Entries(h) : Dead(val'[h][f]) <=> Dead(val[h][f]),
             \A u \in Threads : u # t => th'[u] = th[u],
             Pending(t, h)' = Pending(t, h),
             th[t].pc # "copy_done", Won(t, h, e)'
      PROVE  Counted(h)'
  <2> USE <1>Wins
  <2>1. PICK counted \in SUBSET Entries(h), owner \in [Entries(h) -> Threads \cup {0}] :
          Accounts(h, counted, owner)
    BY DEF Counted
  <2>2. \A u \in Threads : \A f \in Entries(h) : Won(u, h, f) => f \notin counted /\ owner[f] = u
    BY <2>1 DEF Accounts
  <2>3. e \notin counted
    BY <2>1 DEF Accounts
  <2> DEFINE own == [owner EXCEPT ![e] = t]
  <2>4. /\ own \in [Entries(h) -> Threads \cup {0}]
        /\ \A f \in Entries(h) : own[f] = IF f = e THEN t ELSE owner[f]
    OBVIOUS
  <2> HIDE DEF own
  <2>5. \A f \in Entries(h) : ~Won(t, h, f) /\ (Won(t, h, f)' => f = e)
    BY DEF Won
  <2>6. \A u \in Threads : u # t => \A f \in Entries(h) : Won(u, h, f)' <=> Won(u, h, f)
    BY DEF Won
  <2>7. ASSUME NEW u \in Threads
        PROVE  Owed(u, h, counted, own)' = Owed(u, h, counted, owner)
    <3>1. ASSUME NEW f \in Entries(h)
          PROVE  f \in Owed(u, h, counted, own)' <=> f \in Owed(u, h, counted, owner)
      <4>1. CASE f = e
        BY <4>1 DEF Owed
      <4>2. CASE f # e
        BY <2>4, <2>5, <2>6, <4>2 DEF Owed
      <4> QED
        BY <4>1, <4>2
    <3> QED
      BY <3>1 DEF Owed
  <2>8. \A u \in Threads : Pending(u, h)' = Pending(u, h)
    BY DEF Pending
  <2>9. \A f \in Entries(h) : Dead(val'[h][f]) /\ f \notin counted => own[f] \in Threads
    BY <2>1, <2>4 DEF Accounts
  <2>10. \A u \in Threads : \A f \in Entries(h) : Won(u, h, f)' => f \notin counted /\ own[f] = u
    BY <2>2, <2>3, <2>4, <2>5, <2>6
  <2>11. /\ \A f \in counted : Dead(val'[h][f])
         /\ Cardinality(counted) = num_entries_copied'[h]
         /\ \A u \in Threads : Cardinality(Owed(u, h, counted, owner)) = Pending(u, h)
    BY <2>1 DEF Accounts
  <2>12. Accounts(h, counted, own)'
    BY <2>7, <2>8, <2>9, <2>10, <2>11 DEF Accounts
  <2> QED
    BY <2>4, <2>12 DEF Counted
(* While the place for a value is empty it has not landed. *)
<1>NotLanded.
      ASSUME NEW t \in Threads, IInv, th[t].pc = "copy_val",
             NEW h, NEW to, NEW from, NEW k, NEW w, Copies(t, h, to, from, k, w),
             val[to][th[t].ent] = EMPTY
      PROVE  ~Landed(h, k)
  <2> USE <1>NotLanded
  <2>1. PICK e : e = th[t].ent
    OBVIOUS
  <2>2. /\ h \in Tables /\ to \in Tables /\ k \in Keys /\ e \in Entries(to) /\ key[to][e] = k
        /\ val[to][e] = EMPTY /\ \A g \in (h + 1)..(to - 1) : Passed(g, k)
    BY <2>1 DEF Copies, Placing
  <2>4. ASSUME NEW g \in Tables, NEW f \in Entries(g), key[g][f] = k
        PROVE  /\ ~NoRoom(g, k) /\ \A i \in 1..(g - 1) : Shut(i, k)
               /\ \A f2 \in Entries(g) : key[g][f2] = k => f2 = f
    BY <2>2, <2>4, KeyEntry
  <2>5. SUFFICES ASSUME NEW g \in Tables, NEW f \in Entries(g), h < g, key[g][f] = k,
                        val[g][f] \notin {EMPTY, COPIED_VALUE}
                 PROVE  FALSE
    BY DEF Landed
  <2>6. h \in Nat /\ to \in Nat \ {0} /\ g \in Nat
    BY <2>2, TableFacts
  <2>7. CASE g < to
    <3>1. Passed(g, k)
      BY <2>2, <2>5, <2>6, <2>7
    <3> QED
      BY <2>4, <2>5, <3>1 DEF Passed
  <2>8. CASE g = to
    BY <2>2, <2>4, <2>5, <2>8
  <2>9. CASE to < g
    <3>1. Shut(to, k)
      BY <2>4, <2>5, <2>6, <2>9
    <3>2. ~NoRoom(to, k) /\ \A f2 \in Entries(to) : key[to][f2] = k => f2 = e
      BY <2>2, <2>4
    <3> QED
      BY <2>2, <3>1, <3>2, WordNames DEF Shut, AllDead
  <2> QED
    BY <2>6, <2>7, <2>8, <2>9
(* The value goes into its new place. *)
<1>CopyWinsKeeps.
      ASSUME NEW t \in Threads, IInv, th[t].pc = "copy_val",
             NEW h, NEW to, NEW from, NEW k, NEW w, Copies(t, h, to, from, k, w),
             val[to][th[t].ent] = EMPTY, val' = [val EXCEPT ![to][th[t].ent] = th[t].ent_val],
             Go(t, [pc |-> "copy_done"]),
             UNCHANGED <<ht_hti, last, key, copy_scan, num_entries_copied, op>>
      PROVE  IInv'
  <2> USE <1>CopyWinsKeeps
  <2>1. th[t].pc \in Copying /\ th[t].pc \in Placing
    BY DEF Copying, Placing
  <2>2. PICK e, v : e = th[t].ent /\ v = th[t].ent_val
    OBVIOUS
  <2>3. /\ h = th[t].h /\ to = th[t].to /\ from = th[t].from /\ w = val[h][from] /\ k = key[h][from]
        /\ h \in Tables /\ to \in Tables /\ from \in Entries(h) /\ h < to /\ w \in Words
        /\ Tagged(w) /\ w # TAG_VALUE(Tombstone) /\ k \in Keys
        /\ \A g \in (h + 1)..(to - 1) : Passed(g, k)
        /\ w = COPIED_VALUE => Landed(h, k)
        /\ v \in {Plain(x) : x \in Values \ {DOES_NOT_EXIST, TOMBSTONE}}
        /\ e \in Entries(to) /\ key[to][e] = k
    BY <2>1, <2>2 DEF Copies
  <2>4. k # DOES_NOT_EXIST /\ h \in Nat \ {0} /\ to \in Nat
    BY <2>3, TableFacts, HashtableAssumption
  <2>5. h # to
    <3>1. h < to
      BY <2>3
    <3> QED
      BY <2>4, <3>1
  <2>6. v \in Words /\ v # EMPTY /\ ~Tagged(v) /\ v # COPIED_VALUE /\ ~Dead(v) /\ ~Dead(EMPTY)
    <3>1. PICK x \in Values \ {DOES_NOT_EXIST, TOMBSTONE} : v = Plain(x)
      BY <2>3
    <3>2. v \in Words /\ ~Tagged(v) /\ v # EMPTY
      BY <3>1, WordNames DEF EMPTY
    <3> QED
      BY <3>2, WordNames
  <2>7. Writes(to, e, EMPTY, v)
    BY <2>2, <2>3, <2>4, <2>6, WordNames DEF Writes
  <2>8. /\ DOMAIN th' = Threads /\ DOMAIN th'[t] = Fields
        /\ \A u \in Threads : u # t => th'[u] = th[u]
        /\ th'[t].pc = "copy_done"
        /\ \A f \in Fields \ {"pc"} : th'[t][f] = th[t][f]
    BY Known, Goes DEF Fields
  <2>9. \A f \in {"key", "h", "then", "from", "left", "num_copied", "iter", "idx"} :
               th'[t][f] = th[t][f]
    BY <2>8 DEF Fields
  <2>10. th'[t].to = th[t].to /\ th'[t].ent_val = th[t].ent_val /\ DOMAIN op' = Threads
    BY <2>8, Known DEF Fields
  <2>11. /\ Types' /\ Grow /\ Chain'
         /\ \A g \in Tables : \A f \in Entries(g) :
              val'[g][f] = IF g = to /\ f = e THEN v ELSE val[g][f]
         /\ \A g \in Tables : \A q : Landed(g, q)' =>
              \/ Landed(g, q)
              \/ g < to /\ q = key[to][e]
    <3>1. to \in Tables /\ e \in Entries(to)
      BY <2>3
    <3> QED
      BY <2>7, <2>8, <2>10, <3>1, WordWritten
  <2>12. Landed(h, k)'
    <3>1. to \in Tables /\ e \in Entries(to) /\ h < to /\ key[to][e] = k /\ key' = key
      BY <2>3
    <3>2. val'[to][e] = v
      BY <2>11, <3>1
    <3> QED
      BY <2>6, <3>1, <3>2 DEF Landed
  <2>13. \A g \in (h + 1)..(to - 1) : Passed(g, k)'
    <3>1. \A g \in (h + 1)..(to - 1) : g \in Tables
      BY <2>3, CopyTables
    <3> QED
      BY <2>3, <2>11, <3>1, GrowKeeps
  <2>14. val'[h][from] = w
    <3>1. h \in Tables /\ from \in Entries(h) /\ w = val[h][from]
      BY <2>3
    <3> QED
      BY <2>5, <2>11, <3>1
  <2>15. Copies(t, h, to, from, k, w)'
    BY <2>2, <2>3, <2>8, <2>9, <2>10, <2>12, <2>13, <2>14 DEF Copies, Placing
  <2>16. CopyOK(t)' /\ th'[t].pc \in Copying
    BY <2>8, <2>15, CopyKnownAfter DEF Copying, Placing
  <2>17. th'[t].to \in 1..last'
    BY <2>10, Known
  <2>18. ThreadOK(t)' /\ \A g \in Tables : Pending(t, g)' = Pending(t, g)
    BY <2>1, <2>8, <2>9, <2>11, <2>16, <2>17, CopierStays DEF ThreadOK
  <2>19. ~Landed(h, k)
    BY <1>NotLanded
  <2>20. ~Dead(w) /\ w # EMPTY /\ w # COPIED_VALUE
    BY <2>3, <2>19, WordNames
  <2>21. \A u \in Threads : ~Won(u, h, from)
    BY <2>3, <2>19, WonIsTagged
  <2>22. \A g \in Tables : \A f \in Entries(g) : Dead(val'[g][f]) <=> Dead(val[g][f])
    BY <2>2, <2>6, <2>11
  <2>23. /\ Won(t, h, from)' /\ \A g, f : ~Won(t, g, f) /\ (Won(t, g, f)' => g = h)
         /\ \A u \in Threads : \A g, f : u # t => (Won(u, g, f)' <=> Won(u, g, f))
    BY <2>3, <2>8, <2>9 DEF Won
  <2>24. \A g \in Tables : Counted(g) /\ SomeoneWon(g)
    BY DEF IInv
  <2>25. Counted(h)'
    <3>1. h \in Tables /\ from \in Entries(h) /\ ~Dead(val[h][from])
      BY <2>3, <2>20
    <3> QED
      BY <2>8, <2>18, <2>21, <2>22, <2>23, <2>24, <3>1, <1>Wins
  <2>26. ASSUME NEW g \in Tables, g # h
         PROVE  Counted(g)'
    <3>1. \A u \in Threads : \A f \in Entries(g) : Won(u, g, f)' <=> Won(u, g, f)
      BY <2>23, <2>26
    <3>2. \A u \in Threads : Pending(u, g)' = Pending(u, g)
      BY <2>8, <2>18 DEF Pending
    <3> QED
      BY <2>22, <2>24, <3>1, <3>2, AccountsStay
  <2>27. ASSUME NEW g \in Tables, NEW f \in Entries(g), key[g][f] # DOES_NOT_EXIST,
                Landed(g, key[g][f])', ~Dead(val'[g][f])
         PROVE  \E u \in Threads : Won(u, g, f)'
    <3>1. PICK q : q = key[g][f]
      OBVIOUS
    <3>2. CASE Landed(g, q)
      <4>1. PICK u \in Threads : Won(u, g, f)
        BY <2>22, <2>24, <2>27, <3>1, <3>2 DEF SomeoneWon
      <4> QED
        BY <2>23, <4>1
    <3>3. CASE ~Landed(g, q)
      <4>1. Landed(g, q)'
        BY <2>27, <3>1
      <4>2. g < to /\ q = k
        BY <2>3, <2>11, <3>3, <4>1
      <4>3. g \in Nat /\ ~Dead(val[g][f])
        BY <2>22, <2>27, TableFacts
      <4>4. CASE g = h
        <5>1. f = from
          <6>1. k \in Keys /\ from \in Entries(g) /\ key[g][from] = k /\ key[g][f] = k
            BY <2>3, <3>1, <4>2, <4>4
          <6> QED
            BY <6>1, KeyEntry
        <5> QED
          BY <2>23, <4>4, <5>1
      <4>5. CASE h < g
        <5>1. Passed(g, k)
          <6>1. g \in (h + 1)..(to - 1)
            BY <2>4, <4>2, <4>3, <4>5
          <6> QED
            BY <2>3, <6>1
        <5>2. ~NoRoom(g, k) /\ \A f2 \in Entries(g) : key[g][f2] = k => f2 = f
          <6>1. k \in Keys /\ key[g][f] = k
            BY <2>3, <3>1, <4>2
          <6> QED
            BY <6>1, KeyEntry
        <5> QED
          BY <4>3, <5>1, <5>2, WordNames DEF Passed
      <4>6. CASE g < h
        BY <2>3, <2>20, <3>3, <4>2, <4>6 DEF Landed
      <4> QED
        BY <2>4, <4>3, <4>4, <4>5, <4>6
    <3> QED
      BY <3>2, <3>3
  <2>28. \A g \in Tables : SomeoneWon(g)'
    BY <2>27 DEF SomeoneWon
  <2> QED
    BY <2>8, <2>11, <2>18, <2>25, <2>26, <2>28, StepKeeps
<1>CopyValKeeps. \A t \in Threads : IInv /\ CopyVal(t) => IInv'
  <2> TAKE t \in Threads
  <2> HAVE IInv /\ CopyVal(t)
  <2>1. /\ th[t].pc = "copy_val" /\ th[t].pc \in Copying /\ th[t].pc \in Placing
        /\ UNCHANGED <<ht_hti, last, key, copy_scan, num_entries_copied, op>>
    BY DEF CopyVal, At, history, Copying, Placing
  <2>2. PICK h, to, from, k, w : Copies(t, h, to, from, k, w)
    BY <2>1, CopyKnown
  <2>3. PICK e : e = th[t].ent
    OBVIOUS
  <2>4. /\ to = th[t].to /\ h \in Tables /\ to \in Tables /\ h < to
        /\ e \in Entries(to) /\ key[to][e] = k
    BY <2>1, <2>2, <2>3 DEF Copies
  <2>5. last \in Nat /\ last' \in Tables /\ last <= last' /\ th[t].to \in 1..last'
    BY <2>1, Known DEF Types
  <2>6. CASE val[to][e] = EMPTY
    <3>1. val' = [val EXCEPT ![to][th[t].ent] = th[t].ent_val] /\ Go(t, [pc |-> "copy_done"])
      BY <2>3, <2>4, <2>6, WordNames DEF CopyVal
    <3> QED
      BY <2>1, <2>2, <2>3, <2>6, <3>1, <1>CopyWinsKeeps
  <2>7. CASE val[to][e] = COPIED_VALUE
    <3>1. val' = val /\ Go(t, CopyEntry(th[t].from, th[t].to + 1, th[t].then))
      BY <2>3, <2>4, <2>7, WordNames DEF CopyVal
    <3>2. Passed(to, k)
      BY <2>4, <2>7 DEF Passed
    <3>3. to < last'
      BY <2>1, <2>4, <2>7, Known, WordNames DEF Chain
    <3> QED
      BY <2>1, <2>2, <2>5, <3>1, <3>2, <3>3, CopyOnward
  <2>8. CASE val[to][e] \notin {EMPTY, COPIED_VALUE}
    <3>1. val' = val /\ Go(t, [pc |-> "copy_lost"])
      BY <2>3, <2>4, <2>8 DEF CopyVal
    <3>2. /\ DOMAIN th' = Threads /\ DOMAIN th'[t] = Fields
          /\ \A u \in Threads : u # t => th'[u] = th[u]
          /\ th'[t].pc = "copy_lost"
          /\ \A f \in Fields \ {"pc"} : th'[t][f] = th[t][f]
      BY <3>1, Known, Goes DEF Fields
    <3>3. \A f \in {"key", "h", "then", "from", "left", "num_copied", "iter", "idx"} :
                 th'[t][f] = th[t][f]
      BY <3>2 DEF Fields
    <3>4. th'[t].to = th[t].to /\ th'[t].ent_val = th[t].ent_val
      BY <3>2 DEF Fields
    <3>5. Landed(h, k)'
      BY <2>1, <2>4, <2>8, <3>1 DEF Landed
    <3>6. Copies(t, h, to, from, k, w)'
      BY <2>1, <2>2, <3>1, <3>2, <3>3, <3>4, <3>5, SameTables DEF Copies, Placing
    <3>7. CopyOK(t)' /\ th'[t].pc \in Copying /\ th'[t].pc # "copy_done"
      BY <3>2, <3>6, CopyKnownAfter DEF Copying, Placing
    <3> QED
      BY <2>1, <2>5, <3>1, <3>2, <3>3, <3>4, <3>7, CopierMoves
  <2> QED
    BY <2>6, <2>7, <2>8
(* hti_cas writes a value: the tables before are done with the key, so that  *)
(* nobody is copying it.                                                     *)
<1>CasWritesKeeps.
      ASSUME NEW t \in Threads, IInv, th[t].pc = "cas_val",
             NEW h \in Tables, h = th[t].h, NEW e \in Entries(h), e = th[t].ent,
             NEW x \in Values, val[h][e] = Plain(x),
             NEW y \in Threads \cup {TOMBSTONE}, val' = [val EXCEPT ![h][e] = Plain(y)],
             th' = [th EXCEPT ![t] = Idle], op' = [op EXCEPT ![t] = NoOp],
             UNCHANGED <<ht_hti, last, key, copy_scan, num_entries_copied>>
      PROVE  IInv'
  <2> USE <1>CasWritesKeeps
  <2>1. /\ DOMAIN th' = Threads /\ DOMAIN op' = Threads /\ th'[t] = Idle /\ op'[t] = NoOp
        /\ \A u \in Threads : u # t => th'[u] = th[u] /\ op'[u] = op[u]
        /\ last \in Nat \ {0}
    BY Known
  <2>2. LocalOK(t)' /\ th'[t].num_copied = 0 /\ th'[t].pc = "idle"
    BY <2>1 DEF LocalOK, Idle, Fields
  <2>3. CallOK(t)' /\ EntryOK(t)' /\ HelpOK(t)' /\ th'[t].pc \notin Copying \cup {"credit"}
    BY <2>1, <2>2 DEF CallOK, EntryOK, HelpOK, NoOp, Casing, Helping, Iterating, Copying, Placing
  <2>4. ThreadOK(t)'
    BY <2>2, <2>3, AwayAfter DEF ThreadOK
  <2>5. PICK k : k = th[t].key
    OBVIOUS
  <2>6. k \in Keys /\ key[h][e] = k /\ \A g \in 1..(h - 1) : Over(g, k)
    BY <2>5, Known DEF CallOK, EntryOK, Casing
  <2>7. k # DOES_NOT_EXIST /\ y # DOES_NOT_EXIST /\ y \in Values
    BY <2>6, HashtableAssumption DEF Values
  <2>8. PICK w, v : w = Plain(x) /\ v = Plain(y)
    OBVIOUS
  <2>9. v \in Words /\ ~Tagged(v) /\ ~Tagged(w) /\ v # EMPTY
    BY <2>7, <2>8, WordNames DEF EMPTY
  <2>10. v # COPIED_VALUE /\ ~Dead(v) /\ ~Dead(w)
    BY <2>9, WordNames
  <2>11. Writes(h, e, w, v)
    BY <2>6, <2>7, <2>8, <2>9, <2>10 DEF Writes
  <2>12. /\ Types' /\ Grow /\ Chain'
         /\ \A g \in Tables : \A f \in Entries(g) :
              val'[g][f] = IF g = h /\ f = e THEN v ELSE val[g][f]
         /\ \A g \in Tables : \A q : Landed(g, q)' => Landed(g, q) \/ (g < h /\ q = key[h][e])
    BY <2>1, <2>11, WordWritten
  <2>13. \A g \in Tables : \A f \in Entries(g) : Dead(val'[g][f]) <=> Dead(val[g][f])
    BY <2>8, <2>10, <2>12
  <2>14. \A u \in Threads : \A g, f : Won(u, g, f)' <=> Won(u, g, f)
    BY <2>1, <2>2 DEF Won
  <2>15. \A g \in Tables : Counted(g) /\ SomeoneWon(g)
    BY DEF IInv
  <2>16. \A u \in Threads : \A g \in Tables : Pending(u, g)' = Pending(u, g)
    <3>1. th[t].num_copied = 0
      BY Known DEF LocalOK, Copying, Placing
    <3> QED
      BY <2>1, <2>2, <3>1 DEF Pending
  <2>17. \A g \in Tables : Counted(g)'
    BY <2>13, <2>14, <2>15, <2>16, AccountsStay
  <2>18. ASSUME NEW g \in Tables, NEW f \in Entries(g), key[g][f] # DOES_NOT_EXIST,
                Landed(g, key[g][f])', ~Dead(val'[g][f])
         PROVE  \E u \in Threads : Won(u, g, f)'
    <3>1. PICK q : q = key[g][f]
      OBVIOUS
    <3>2. CASE Landed(g, q)
      BY <2>13, <2>14, <2>15, <2>18, <3>1, <3>2 DEF SomeoneWon
    <3>3. CASE ~Landed(g, q)
      <4>1. Landed(g, q)'
        BY <2>18, <3>1
      <4>2. g < h /\ q = k
        BY <2>6, <2>12, <3>3, <4>1
      <4>3. Over(g, k) /\ ~Dead(val[g][f])
        BY <2>6, <2>13, <2>18, <4>2, TableFacts
      <4>4. ~NoRoom(g, k) /\ \A f2 \in Entries(g) : key[g][f2] = k => f2 = f
        <5>1. k \in Keys /\ key[g][f] = k
          BY <2>6, <3>1, <4>2
        <5> QED
          BY <5>1, KeyEntry
      <4> QED
        BY <4>3, <4>4 DEF Over, AllDead
    <3> QED
      BY <3>2, <3>3
  <2>19. \A g \in Tables : SomeoneWon(g)'
    BY <2>18 DEF SomeoneWon
  <2> QED
    BY <2>1, <2>4, <2>12, <2>17, <2>19, StepKeeps
<1>CasValKeeps. \A t \in Threads : IInv /\ CasVal(t) => IInv'
  <2> TAKE t \in Threads
  <2> HAVE IInv /\ CasVal(t)
  <2>1. /\ th[t].pc = "cas_val"
        /\ UNCHANGED <<ht_hti, last, key, copy_scan, num_entries_copied>>
    BY DEF CasVal, At
  <2>2. PICK h \in Tables, k \in {th[t].key}, e \in {th[t].ent} : h = th[t].h /\ k = th[t].key /\ e = th[t].ent
    BY Known
  <2>3. /\ k \in Keys /\ op[t].kind \in {"cas", "remove"}
        /\ op[t].new_val \in Threads \cup {DOES_NOT_EXIST} /\ \A g \in 1..(h - 1) : Over(g, k)
    BY <2>1, <2>2, Known DEF CallOK, Casing
  <2>4. e \in Entries(h) /\ th[t].ent_val \in {Plain(v) : v \in Values}
    BY <2>1, <2>2, Known DEF EntryOK
  <2>5. PICK x \in Values : th[t].ent_val = Plain(x)
    BY <2>4
  <2>6. th[t].num_copied = 0 /\ DOMAIN op = Threads
    BY <2>1, Known DEF LocalOK, Copying, Placing
  <2>7. CASE val[h][e] = Plain(x)
    <3>1. PICK y : y = IF op[t].new_val = DOES_NOT_EXIST THEN TOMBSTONE ELSE op[t].new_val
      OBVIOUS
    <3>2. /\ val' = [val EXCEPT ![h][e] = Plain(y)]
          /\ th' = [th EXCEPT ![t] = Idle] /\ op' = [op EXCEPT ![t] = NoOp]
      BY <2>2, <2>5, <2>7, <3>1 DEF CasVal, Return
    <3>3. y \in Threads \cup {TOMBSTONE}
      BY <2>3, <3>1
    <3> QED
      BY <2>1, <2>2, <2>4, <2>7, <3>2, <3>3, <1>CasWritesKeeps
  <2>8. CASE val[h][e] # Plain(x)
    <3>1. val' = val /\ Go(t, [pc |-> "cas"]) /\ op' = op
      BY <2>2, <2>5, <2>8 DEF CasVal
    <3>2. /\ DOMAIN th' = Threads /\ DOMAIN th'[t] = Fields
          /\ \A u \in Threads : u # t => th'[u] = th[u]
          /\ th'[t].pc = "cas"
          /\ \A f \in Fields \ {"pc"} : th'[t][f] = th[t][f]
      BY <3>1, Known, Goes DEF Fields
    <3>3. /\ th'[t].h = h /\ th'[t].key = k /\ th'[t].to = th[t].to
          /\ th'[t].iter = th[t].iter /\ th'[t].idx = th[t].idx /\ th'[t].num_copied = 0
      BY <2>2, <2>6, <3>2 DEF Fields
    <3>4. LocalOK(t)'
      BY <2>1, <2>2, <3>2, <3>3, Known DEF LocalOK
    <3>5. CallOK(t)'
      <4>1. \A g \in 1..(h - 1) : Over(g, k)'
        BY <2>1, <2>3, <3>1, SameTables
      <4> QED
        BY <2>3, <3>1, <3>2, <3>3, <4>1 DEF CallOK, Casing, Helping, Iterating
    <3>6. EntryOK(t)' /\ HelpOK(t)'
      BY <3>2 DEF EntryOK, HelpOK, Helping
    <3>7. AskedOK(t)' /\ CopyOK(t)'
      BY <3>2, AwayAfter DEF Copying, Placing
    <3>8. th[t].pc \notin Copying \cup {"credit", "help_end"} /\ th'[t].pc \notin {"copy_done", "credit"}
      BY <2>1, <3>2 DEF Copying, Placing
    <3> QED
      BY <2>1, <2>6, <3>1, <3>2, <3>3, <3>4, <3>5, <3>6, <3>7, <3>8, OnlyMoves
  <2> QED
    BY <2>7, <2>8
<1> QED
  BY <1>CopyValKeeps, <1>CasValKeeps

(* The thread's write makes an entry dead that was not, and nobody else has  *)
(* put its value down: the copy is this thread's to count.                   *)
Completes(t, h, from) ==
    /\ h \in Tables /\ from \in Entries(h) /\ h = th[t].h /\ from = th[t].from
    /\ \E w, v : Writes(h, from, w, v) /\ ~Dead(w) /\ Dead(v) /\ w # EMPTY
    /\ Go(t, CopyReturns(t, TRUE))
    /\ \A u \in Threads : ~Won(u, h, from)

(* The tag: on a value that has to be copied it keeps what holds, on a       *)
(* removed one it completes the copy.                                        *)
LEMMA CopyTagMarks ==
    \A t \in Threads : IInv /\ CopyTag(t) => IInv' \/ \E h, from : Completes(t, h, from)
<1> TAKE t \in Threads
<1> HAVE IInv /\ CopyTag(t)
<1>1. /\ th[t].pc = "copy_tag" /\ th[t].pc \in Copying /\ th[t].pc # "copy_done"
      /\ UNCHANGED <<ht_hti, last, key, copy_scan, num_entries_copied, op>>
  BY DEF CopyTag, At, history, Copying, Placing
<1>2. PICK h, to, from, k, w : Copies(t, h, to, from, k, w)
  BY <1>1, CopyKnown
<1>3. /\ h = th[t].h /\ to = th[t].to /\ from = th[t].from /\ w = val[h][from]
      /\ h \in Tables /\ to \in Tables /\ from \in Entries(h) /\ h < to
      /\ w \in Words /\ w # EMPTY /\ k = key[h][from] /\ k \in Keys \cup {DOES_NOT_EXIST}
      /\ \A g \in (h + 1)..(to - 1) : Passed(g, k)
  BY <1>1, <1>2 DEF Copies
<1>4. /\ val' = [val EXCEPT ![h][from] = TAG_VALUE(w)]
      /\ Go(t, IF Dead(w) THEN CopyReturns(t, FALSE)
               ELSE IF w = Tombstone THEN CopyReturns(t, TRUE)
               ELSE [pc |-> "copy_find", ent_val |-> STRIP_TAG(w)])
  <2>1. DOMAIN val = Tables /\ val[h] \in [Entries(h) -> Words]
    BY <1>3, Known DEF Types
  <2> QED
    BY <1>3, <2>1 DEF CopyTag, Tombstone
<1>5. h < last
  <2>1. h < to
    BY <1>3
  <2> QED
    BY <1>3, <2>1, Known
<1>6. PICK v : v = TAG_VALUE(w)
  OBVIOUS
<1>7. PICK x \in Values : x = w[1]
  BY <1>3, WordShape
<1>8. /\ Tagged(w) => v = w
      /\ ~Tagged(w) => w = Plain(x)
      /\ v \in Words /\ STRIP_TAG(w) = Plain(x) /\ v = TAG_VALUE(Plain(x)) /\ Tagged(v)
  BY <1>3, <1>6, <1>7, WordShape, WordNames DEF Tagged, TAG_VALUE, Plain
<1>9. /\ v # EMPTY /\ v = COPIED_VALUE => w \in {EMPTY, COPIED_VALUE}
      /\ v = TAG_VALUE(Tombstone) => w \in {Tombstone, TAG_VALUE(Tombstone)}
  <2>1. v # EMPTY
    BY <1>8, WordNames
  <2>2. v = COPIED_VALUE => x = DOES_NOT_EXIST
    BY <1>8, WordNames
  <2>3. v = TAG_VALUE(Tombstone) => x = TOMBSTONE
    BY <1>8, WordNames
  <2> QED
    BY <1>8, <2>1, <2>2, <2>3 DEF EMPTY, Tombstone
<1>10. w \notin {EMPTY, COPIED_VALUE} => k # DOES_NOT_EXIST
  BY <1>3, Known DEF Chain
<1>11. Writes(h, from, w, v)
  <2>1. v # EMPTY /\ (Dead(w) => v = w) /\ (Tagged(w) /\ v # w => v = COPIED_VALUE)
    BY <1>8, WordNames
  <2>2. v \notin {EMPTY, COPIED_VALUE} => key[h][from] # DOES_NOT_EXIST
    <3>1. w = COPIED_VALUE => v = COPIED_VALUE
      BY <1>8, WordNames
    <3> QED
      BY <1>3, <1>10, <3>1
  <2> QED
    BY <1>3, <1>4, <1>5, <1>6, <1>8, <1>9, <2>1, <2>2 DEF Writes
<1>12. CASE Dead(w)
  <2>1. Go(t, CopyReturns(t, FALSE)) /\ Dead(v)
    BY <1>4, <1>8, <1>12, WordNames
  <2> QED
    BY <1>1, <1>3, <1>11, <1>12, <2>1, CopyMarks
<1>13. CASE w = Tombstone
  <2>1. ~Dead(w) /\ ~Tagged(w) /\ Dead(v)
    BY <1>6, <1>13, WordNames
  <2>2. Go(t, CopyReturns(t, TRUE))
    BY <1>4, <1>13, <2>1
  <2>3. \A u \in Threads : ~Won(u, h, from)
    BY <1>3, <2>1, WonIsTagged
  <2> QED
    BY <1>3, <1>11, <2>1, <2>2, <2>3 DEF Completes
<1>14. CASE ~Dead(w) /\ w # Tombstone
  <2>1. Go(t, [pc |-> "copy_find", ent_val |-> STRIP_TAG(w)])
    BY <1>4, <1>14
  <2>2. /\ DOMAIN th' = Threads /\ DOMAIN th'[t] = Fields
        /\ \A u \in Threads : u # t => th'[u] = th[u]
        /\ th'[t].pc = "copy_find" /\ th'[t].ent_val = STRIP_TAG(w)
        /\ \A f \in Fields \ {"pc", "ent_val"} : th'[t][f] = th[t][f]
    BY <2>1, Known, Goes DEF Fields
  <2>3. \A f \in {"key", "h", "then", "from", "left", "num_copied", "iter", "idx"} :
               th'[t][f] = th[t][f]
    BY <2>2 DEF Fields
  <2>4. th'[t].to = th[t].to /\ DOMAIN op' = Threads
    BY <1>1, <2>2, Known DEF Fields
  <2>5. /\ Types' /\ Grow /\ Chain'
        /\ \A g \in Tables : \A f \in Entries(g) :
             val'[g][f] = IF g = h /\ f = from THEN v ELSE val[g][f]
        /\ \A g \in Tables : \A q : Landed(g, q)' => Landed(g, q)
    <3>1. h \in Tables /\ from \in Entries(h) /\ w # EMPTY
      BY <1>3
    <3> QED
      BY <1>1, <1>11, <2>2, <2>4, <3>1, WordWritten
  <2>6. ~Dead(v) /\ v # COPIED_VALUE /\ v # TAG_VALUE(Tombstone)
    BY <1>3, <1>9, <1>14, WordNames
  <2>7. k \in Keys
    BY <1>3, <1>10, <1>14, WordNames
  <2>8. STRIP_TAG(w) \in {Plain(y) : y \in Values \ {DOES_NOT_EXIST, TOMBSTONE}}
    <3>1. x # DOES_NOT_EXIST /\ x # TOMBSTONE
      BY <1>8, <2>6 DEF COPIED_VALUE, EMPTY, Tombstone
    <3> QED
      BY <1>8, <3>1
  <2>9. \A g \in (h + 1)..(to - 1) : Passed(g, k)'
    <3>1. \A g \in (h + 1)..(to - 1) : g \in Tables
      BY <1>3, CopyTables
    <3> QED
      BY <1>3, <2>5, <2>7, <3>1, GrowKeeps
  <2>10. Copies(t, h, to, from, k, v)'
    BY <1>1, <1>3, <1>8, <2>2, <2>3, <2>4, <2>5, <2>6, <2>7, <2>8, <2>9 DEF Copies, Placing
  <2>11. CopyOK(t)' /\ th'[t].pc \in Copying /\ th'[t].pc # "copy_done"
    BY <2>2, <2>10, CopyKnownAfter DEF Copying, Placing
  <2>12. th'[t].to \in 1..last'
    BY <1>1, <2>4, Known
  <2>13. ThreadOK(t)' /\ \A g \in Tables : Pending(t, g)' = Pending(t, g)
    BY <1>1, <2>2, <2>3, <2>5, <2>11, <2>12, CopierStays DEF ThreadOK
  <2>14. \A u \in Threads : \A g, e : Won(u, g, e)' <=> Won(u, g, e)
    BY <1>1, <2>2, <2>11 DEF Won
  <2>15. ASSUME NEW g \in Tables
         PROVE  Counted(g)' /\ SomeoneWon(g)'
    <3>1. Counted(g) /\ SomeoneWon(g)
      BY DEF IInv
    <3>2. \A u \in Threads : Pending(u, g)' = Pending(u, g)
      BY <2>2, <2>13 DEF Pending
    <3>3. \A e \in Entries(g) : Dead(val'[g][e]) <=> Dead(val[g][e])
      BY <1>3, <1>14, <2>5, <2>6
    <3>4. Counted(g)'
      BY <1>1, <2>14, <3>1, <3>2, <3>3, AccountsStay
    <3>5. SomeoneWon(g)'
      BY <1>1, <2>5, <2>14, <3>1, <3>3, StillWon
    <3> QED
      BY <3>4, <3>5
  <2> QED
    BY <1>1, <2>2, <2>5, <2>13, <2>15, StepKeeps
<1> QED
  BY <1>12, <1>13, <1>14

-----------------------------------------------------------------------------
(* References to a table *)

(* A thread has a reference to table h: its iterator has one, from           *)
(* ht_iter_begin to ht_iter_free; who unlinked the table is to give up that  *)
(* of ht->hti.                                                               *)
Borrows(t, h) ==
    /\ op[t].kind = "iterate" /\ th[t].iter = h
    /\ \/ th[t].pc \in {"iter_key", "iter_val", "iter_free", "get", "get_val"}
       \/ th[t].pc \in Copying \cup {"credit"} /\ th[t].then = "get"

Holds(t, h) == Borrows(t, h) \/ (th[t].pc = "release" /\ th[t].h = h)

Holders(h) == {t \in Threads : Holds(t, h)}

(* The count is that of the threads that hold the table, and one for the     *)
(* tables that are not unlinked; at zero the table has been freed.           *)
Referenced(h) ==
    /\ ref_count[h] = Cardinality(Holders(h)) + (IF ht_hti <= h THEN 1 ELSE 0)
    /\ freed[h] = IF ref_count[h] = 0 THEN 1 ELSE 0

Refs == /\ DOMAIN ref_count = Tables /\ DOMAIN freed = Tables
        /\ \A h \in Tables : Referenced(h)

(* A step that neither takes nor gives up a reference. *)
LEMMA RefsStay ==
    ASSUME NEW t \in Threads, Refs, UNCHANGED <<ht_hti, ref_count, freed>>,
           \A u \in Threads : u # t => th'[u] = th[u] /\ op'[u] = op[u],
           \A h \in Tables : Holds(t, h)' <=> Holds(t, h)
    PROVE  Refs'
<1>1. \A h \in Tables : \A u \in Threads : Holds(u, h)' <=> Holds(u, h)
  BY DEF Holds, Borrows
<1>2. \A h \in Tables : Holders(h)' = Holders(h)
  BY <1>1 DEF Holders
<1> QED
  BY <1>2 DEF Refs, Referenced

(* A thread that works for no iterator, and is not to release a table. *)
LEMMA HoldsNothing ==
    ASSUME NEW t \in Threads, th[t].pc # "release",
           \/ op[t].kind # "iterate"
           \/ th[t].pc \in Helping \cup {"begin", "iter_ref", "idle"}
           \/ th[t].pc \in Copying /\ th[t].then # "get",
           th'[t].pc # "release",
           \/ op'[t].kind # "iterate"
           \/ th'[t].pc \in Helping \cup {"begin", "iter_ref", "idle"}
           \/ th'[t].pc \in Copying /\ th'[t].then # "get"
    PROVE  \A h \in Tables : Holds(t, h)' <=> Holds(t, h)
  BY DEF Holds, Borrows, Helping, Copying, Placing

(* A thread without a reference moves. *)
LEMMA GoHolds ==
    ASSUME NEW t \in Threads, IInv, Refs, NEW c, Go(t, c), DOMAIN c \subseteq Fields,
           "pc" \in DOMAIN c, c.pc # "release", th[t].pc # "release",
           \/ op[t].kind # "iterate"
           \/ /\ th[t].pc \in Helping \cup {"begin", "iter_ref"}
              /\ \/ c.pc \in Helping \cup {"begin", "iter_ref"}
                 \/ c.pc \in Copying /\ "then" \in DOMAIN c /\ c.then = "help",
           UNCHANGED <<ht_hti, ref_count, freed, op>>
    PROVE  Refs'
<1>1. DOMAIN th = Threads /\ DOMAIN th[t] = Fields
  BY Known
<1>2. /\ \A u \in Threads : u # t => th'[u] = th[u]
      /\ \A f \in Fields : th'[t][f] = IF f \in DOMAIN c THEN c[f] ELSE th[t][f]
  BY <1>1, Goes
<1>3. th'[t].pc = c.pc /\ ("then" \in DOMAIN c => th'[t].then = c.then)
  BY <1>2 DEF Fields
<1> QED
  BY <1>2, <1>3, HoldsNothing, RefsStay

(* The steps that neither take nor give up a reference. *)
LEMMA RefStepsKeep ==
    \A t \in Threads :
      /\ IInv /\ Refs
      /\ \/ ht_get(t) \/ ht_cas(t) \/ ht_remove(t) \/ ht_iter_begin(t) \/ CopyLoad(t) \/ CopyKill(t)
         \/ CopyTag(t) \/ CopyFind(t) \/ CopyGrow(t) \/ CopyKey(t) \/ CopyVal(t) \/ CopyDone(t)
         \/ CopyCredit(t) \/ GetFind(t) \/ GetVal(t) \/ CasFind(t) \/ CasGrow(t) \/ CasKey(t)
         \/ CasLoad(t) \/ CasVal(t) \/ Begin(t) \/ HelpLoad(t) \/ HelpScan(t) \/ HelpReserve(t)
         \/ HelpEnd(t) \/ IterKey(t) \/ IterVal(t)
      => Refs'
(* A thread that is at an entry for the iterator, before the step and after. *)
<1>HoldsOn.
      ASSUME NEW t \in Threads, th'[t].iter = th[t].iter, op'[t].kind = op[t].kind,
             \/ th[t].pc \in {"iter_key", "iter_val", "iter_free", "get", "get_val"}
             \/ th[t].pc \in Copying \cup {"credit"} /\ th[t].then = "get",
             \/ th'[t].pc \in {"iter_key", "iter_val", "iter_free", "get", "get_val"}
             \/ th'[t].pc \in Copying \cup {"credit"} /\ th'[t].then = "get"
      PROVE  \A h \in Tables : Holds(t, h)' <=> Holds(t, h)
    BY <1>HoldsOn DEF Holds, Borrows, Copying, Placing
(* hti_copy_entry, while it goes on. *)
<1>CopyHolds.
      ASSUME NEW t \in Threads, IInv, Refs, NEW c, Go(t, c), DOMAIN c \subseteq Fields \ {"iter"},
             th[t].pc \in Copying, c.pc \in Copying, "pc" \in DOMAIN c,
             "then" \in DOMAIN c => c.then = th[t].then,
             UNCHANGED <<ht_hti, ref_count, freed, op>>
      PROVE  Refs'
  <2> USE <1>CopyHolds
  <2>1. DOMAIN th = Threads /\ DOMAIN th[t] = Fields
    BY Known
  <2>2. /\ \A u \in Threads : u # t => th'[u] = th[u]
        /\ \A f \in Fields : th'[t][f] = IF f \in DOMAIN c THEN c[f] ELSE th[t][f]
    BY <2>1, Goes
  <2>3. th'[t].iter = th[t].iter /\ th'[t].pc \in Copying /\ th'[t].then = th[t].then
    BY <2>2 DEF Fields
  <2>4. \A h \in Tables : Holds(t, h)' <=> Holds(t, h)
    BY <2>3 DEF Holds, Borrows, Copying, Placing
  <2> QED
    BY <2>2, <2>4, RefsStay
(* It returns. *)
<1>CopyReturnHolds.
      ASSUME NEW t \in Threads, IInv, Refs, NEW did \in BOOLEAN, Go(t, CopyReturns(t, did)),
             th[t].pc \in Copying, UNCHANGED <<ht_hti, ref_count, freed, op>>
      PROVE  Refs'
  <2> USE <1>CopyReturnHolds
  <2>1. DOMAIN th = Threads /\ DOMAIN th[t] = Fields /\ AskedOK(t)
    BY Known
  <2>2. /\ \A u \in Threads : u # t => th'[u] = th[u]
        /\ th'[t].iter = th[t].iter
        /\ th[t].then = "help" => th'[t].then = "help" /\ th'[t].pc \in {"help_end", "copy"}
        /\ th[t].then # "help" /\ did => th'[t].pc = "credit" /\ th'[t].then = th[t].then
        /\ th[t].then # "help" /\ ~did =>
             th'[t].pc = IF op[t].kind \in {"get", "iterate"} THEN "get" ELSE "cas"
    BY <2>1, CopyReturnsGoes DEF Fields
  <2>3. CASE th[t].then = "help"
    BY <2>2, <2>3, HoldsNothing, RefsStay DEF Copying, Placing, Helping
  <2>4. CASE th[t].then # "help" /\ op[t].kind # "iterate"
    BY <2>2, <2>4, HoldsNothing, RefsStay DEF Copying, Placing
  <2>5. CASE th[t].then # "help" /\ op[t].kind = "iterate"
    <3>1. th[t].then = "get"
      BY <2>1, <2>5 DEF AskedOK
    <3> QED
      BY <2>2, <2>5, <3>1, <1>HoldsOn, RefsStay
  <2> QED
    BY <2>3, <2>4, <2>5
(* hti_get and hti_cas go on with the next table. *)
<1>NextTableHolds.
      ASSUME NEW t \in Threads, IInv, Refs, Go(t, NextTable(t)),
             th[t].pc \in {"get", "get_val", "credit", "cas", "cas_grow", "cas_load"},
             UNCHANGED <<ht_hti, ref_count, freed, op>>
      PROVE  Refs'
  <2> USE <1>NextTableHolds
  <2>1. DOMAIN th = Threads /\ DOMAIN th[t] = Fields /\ AskedOK(t) /\ CallOK(t)
    BY Known
  <2>2. /\ \A u \in Threads : u # t => th'[u] = th[u]
        /\ th'[t].iter = th[t].iter
        /\ th'[t].pc = IF op[t].kind \in {"get", "iterate"} THEN "get" ELSE "cas"
    BY <2>1, NextTableGoes
  <2>3. CASE op[t].kind # "iterate"
    BY <2>2, <2>3, HoldsNothing, RefsStay
  <2>4. CASE op[t].kind = "iterate"
    <3>1. th[t].pc \in {"get", "get_val"} \/ (th[t].pc = "credit" /\ th[t].then = "get")
      BY <2>1, <2>4 DEF AskedOK, CallOK, Casing
    <3> QED
      BY <2>2, <2>4, <3>1, <1>HoldsOn, RefsStay
  <2> QED
    BY <2>3, <2>4
(* A call returns that is not the iterator's. *)
<1>ReturnHolds.
      ASSUME NEW t \in Threads, IInv, Refs, op[t].kind # "iterate", th[t].pc # "release",
             th' = [th EXCEPT ![t] = Idle], op' = [op EXCEPT ![t] = NoOp],
             UNCHANGED <<ht_hti, ref_count, freed>>
      PROVE  Refs'
  <2> USE <1>ReturnHolds
  <2>1. DOMAIN th = Threads /\ DOMAIN op = Threads
    BY Known
  <2>2. /\ \A u \in Threads : u # t => th'[u] = th[u] /\ op'[u] = op[u]
        /\ th'[t].pc = "idle" /\ op'[t].kind = "none"
    BY <2>1 DEF Idle, NoOp
  <2> QED
    BY <2>2, HoldsNothing, RefsStay
(* hti_get returns, to ht_get or to the iterator. *)
<1>GetReturnHolds.
      ASSUME NEW t \in Threads, IInv, Refs, th[t].pc \in {"get", "get_val"}, NEW v, GetReturns(t, v),
             UNCHANGED <<ht_hti, ref_count, freed>>
      PROVE  Refs'
  <2> USE <1>GetReturnHolds
  <2>1. DOMAIN th = Threads /\ DOMAIN th[t] = Fields /\ op[t].kind \in {"get", "iterate"}
    BY Known DEF CallOK
  <2>2. CASE op[t].kind = "get"
    BY <2>2, <1>ReturnHolds DEF GetReturns, Return
  <2>3. CASE op[t].kind = "iterate"
    <3> DEFINE c == With(Forget, [pc |-> "iter_key", h |-> th[t].iter])
    <3>1. Go(t, c) /\ UNCHANGED op
      BY <2>3 DEF GetReturns
    <3>2. DOMAIN c \subseteq Fields \ {"iter"} /\ "pc" \in DOMAIN c /\ c.pc = "iter_key"
      BY DEF With, Forget, Fields
    <3> HIDE DEF c
    <3>3. /\ \A u \in Threads : u # t => th'[u] = th[u]
          /\ \A f \in Fields : th'[t][f] = IF f \in DOMAIN c THEN c[f] ELSE th[t][f]
      BY <2>1, <3>1, <3>2, Goes
    <3>4. th'[t].iter = th[t].iter /\ th'[t].pc = "iter_key"
      BY <3>2, <3>3 DEF Fields
    <3> QED
      BY <3>1, <3>3, <3>4, <1>HoldsOn, RefsStay
  <2> QED
    BY <2>1, <2>2, <2>3
(* hti_copy_entry. *)
<1>CopyStepsHold.
      ASSUME NEW t \in Threads, IInv, Refs,
             \/ CopyLoad(t) \/ CopyKill(t) \/ CopyTag(t) \/ CopyFind(t) \/ CopyGrow(t)
             \/ CopyKey(t) \/ CopyVal(t) \/ CopyDone(t) \/ CopyCredit(t)
      PROVE  Refs'
  <2> USE <1>CopyStepsHold
  <2>1. UNCHANGED <<ht_hti, ref_count, freed, op>>
    BY DEF CopyLoad, CopyKill, CopyTag, CopyFind, CopyGrow, CopyKey, CopyVal, CopyDone, CopyCredit,
           tables, history
  <2>2. ASSUME NEW pc \in Copying, Go(t, [pc |-> pc]), th[t].pc \in Copying
        PROVE  Refs'
    BY <2>1, <2>2, <1>CopyHolds DEF Fields
  <2>3. ASSUME NEW from, NEW to, Go(t, CopyEntry(from, to, th[t].then)), th[t].pc \in Copying
        PROVE  Refs'
    <3>1. /\ DOMAIN CopyEntry(from, to, th[t].then) = {"pc", "from", "to", "then"}
          /\ CopyEntry(from, to, th[t].then).pc \in Copying
          /\ CopyEntry(from, to, th[t].then).then = th[t].then
      BY DEF CopyEntry, Copying
    <3>2. DOMAIN CopyEntry(from, to, th[t].then) \subseteq Fields \ {"iter"}
      BY <3>1 DEF Fields
    <3> QED
      BY <2>1, <2>3, <3>1, <3>2, <1>CopyHolds
  <2>4. CASE CopyLoad(t)
    <3>1. th[t].pc \in Copying
      BY <2>4 DEF CopyLoad, At, Copying
    <3>2. CASE Dead(val[th[t].h][th[t].from])
      BY <2>1, <2>4, <3>1, <3>2, <1>CopyReturnHolds DEF CopyLoad
    <3>3. CASE ~Dead(val[th[t].h][th[t].from])
      <4>1. PICK pc \in {"copy_kill", "copy_tag"} : Go(t, [pc |-> pc])
        BY <2>4, <3>3 DEF CopyLoad
      <4> QED
        BY <2>2, <3>1, <4>1 DEF Copying
    <3> QED
      BY <3>2, <3>3
  <2>5. CASE CopyKill(t)
    <3>1. th[t].pc \in Copying /\ "copy_tag" \in Copying
      BY <2>5 DEF CopyKill, At, Copying
    <3>2. Go(t, CopyReturns(t, TRUE)) \/ Go(t, [pc |-> "copy_tag"])
      BY <2>5 DEF CopyKill
    <3> QED
      BY <2>1, <2>2, <3>1, <3>2, <1>CopyReturnHolds
  <2>6. CASE CopyTag(t)
    <3> DEFINE w == val[th[t].h][th[t].from]
               c == [pc |-> "copy_find", ent_val |-> STRIP_TAG(w)]
    <3>1. th[t].pc \in Copying /\ c.pc \in Copying /\ DOMAIN c = {"pc", "ent_val"}
      BY <2>6 DEF CopyTag, At, Copying, Placing
    <3>2. Go(t, CopyReturns(t, TRUE)) \/ Go(t, CopyReturns(t, FALSE)) \/ Go(t, c)
      BY <2>6 DEF CopyTag
    <3> HIDE DEF c
    <3>3. DOMAIN c \subseteq Fields \ {"iter"}
      BY <3>1 DEF Fields
    <3>4. CASE Go(t, c)
      BY <2>1, <3>1, <3>3, <3>4, <1>CopyHolds
    <3> QED
      BY <2>1, <3>1, <3>2, <3>4, <1>CopyReturnHolds
  <2>7. CASE CopyFind(t)
    <3>1. th[t].pc \in Copying
      BY <2>7 DEF CopyFind, At, Copying, Placing
    <3>2. \/ Go(t, [pc |-> "copy_grow"])
          \/ Go(t, CopyEntry(th[t].from, th[t].to + 1, th[t].then))
          \/ \E pc \in {"copy_val", "copy_key"}, e \in {hti_lookup(th[t].to, key[th[t].h][th[t].from])} :
               Go(t, [pc |-> pc, ent |-> e])
      BY <2>7 DEF CopyFind
    <3>3. ASSUME NEW pc \in {"copy_val", "copy_key"}, NEW e, Go(t, [pc |-> pc, ent |-> e])
          PROVE  Refs'
      BY <2>1, <3>1, <3>3, <1>CopyHolds DEF Fields, Copying, Placing
    <3>4. CASE Go(t, [pc |-> "copy_grow"])
      BY <2>2, <3>1, <3>4 DEF Copying, Placing
    <3>5. CASE Go(t, CopyEntry(th[t].from, th[t].to + 1, th[t].then))
      BY <2>3, <3>1, <3>5
    <3> QED
      BY <3>2, <3>3, <3>4, <3>5
  <2>8. CASE CopyGrow(t)
    <3>1. th[t].pc \in Copying /\ Go(t, CopyEntry(th[t].from, th[t].to + 1, th[t].then))
      BY <2>8 DEF CopyGrow, At, Copying, Placing
    <3> QED
      BY <2>3, <3>1
  <2>9. CASE CopyKey(t)
    <3>1. th[t].pc \in Copying /\ {"copy_val", "copy"} \subseteq Copying
      BY <2>9 DEF CopyKey, At, Copying, Placing
    <3>2. Go(t, [pc |-> "copy_val"]) \/ Go(t, [pc |-> "copy"])
      BY <2>9 DEF CopyKey
    <3> QED
      BY <2>2, <3>1, <3>2
  <2>10. CASE CopyVal(t)
    <3>1. th[t].pc \in Copying /\ {"copy_done", "copy_lost"} \subseteq Copying
      BY <2>10 DEF CopyVal, At, Copying, Placing
    <3>2. \/ Go(t, [pc |-> "copy_done"]) \/ Go(t, [pc |-> "copy_lost"])
          \/ Go(t, CopyEntry(th[t].from, th[t].to + 1, th[t].then))
      BY <2>10 DEF CopyVal
    <3> QED
      BY <2>2, <2>3, <3>1, <3>2
  <2>11. CASE CopyDone(t)
    <3>1. th[t].pc \in Copying /\ Go(t, CopyReturns(t, At(t, "copy_done"))) /\ At(t, "copy_done") \in BOOLEAN
      BY <2>11 DEF CopyDone, At, Copying, Placing
    <3> QED
      BY <2>1, <3>1, <1>CopyReturnHolds
  <2>12. CASE CopyCredit(t)
    BY <2>1, <2>12, <1>NextTableHolds DEF CopyCredit, At
  <2> QED
    BY <2>4, <2>5, <2>6, <2>7, <2>8, <2>9, <2>10, <2>11, <2>12
(* hti_get. *)
<1>GetHolds. \A t \in Threads : IInv /\ Refs /\ (GetFind(t) \/ GetVal(t)) => Refs'
  <2> TAKE t \in Threads
  <2> HAVE IInv /\ Refs /\ (GetFind(t) \/ GetVal(t))
  <2>1. UNCHANGED <<ht_hti, ref_count, freed>> /\ th[t].pc \in {"get", "get_val"}
    BY DEF GetFind, GetVal, tables, At
  <2>2. \/ Go(t, NextTable(t)) /\ UNCHANGED op
        \/ \E v \in Values \cup {Value(val[th[t].h][th[t].ent])} : GetReturns(t, v)
        \/ \E e \in {hti_lookup(th[t].h, th[t].key)} : Go(t, [pc |-> "get_val", ent |-> e]) /\ UNCHANGED op
        \/ Go(t, CopyEntry(th[t].ent, th[t].h + 1, "get")) /\ UNCHANGED op
    BY DEF GetFind, GetVal, Values
  <2>3. ASSUME NEW c, Go(t, c), UNCHANGED op, "pc" \in DOMAIN c, DOMAIN c \subseteq Fields \ {"iter"},
               c.pc = "get_val" \/ (c.pc = "copy" /\ "then" \in DOMAIN c /\ c.then = "get")
        PROVE  Refs'
    <3>1. DOMAIN th = Threads /\ DOMAIN th[t] = Fields
      BY Known
    <3>2. /\ \A u \in Threads : u # t => th'[u] = th[u]
          /\ \A f \in Fields : th'[t][f] = IF f \in DOMAIN c THEN c[f] ELSE th[t][f]
      BY <2>3, <3>1, Goes
    <3>3. th'[t].iter = th[t].iter
          /\ (th'[t].pc = "get_val" \/ (th'[t].pc \in Copying /\ th'[t].then = "get"))
      BY <2>3, <3>2 DEF Fields, Copying
    <3> QED
      BY <2>1, <2>3, <3>2, <3>3, <1>HoldsOn, RefsStay
  <2>4. ASSUME NEW e, Go(t, [pc |-> "get_val", ent |-> e]), UNCHANGED op
        PROVE  Refs'
    BY <2>3, <2>4 DEF Fields
  <2>5. ASSUME Go(t, CopyEntry(th[t].ent, th[t].h + 1, "get")), UNCHANGED op
        PROVE  Refs'
    BY <2>3, <2>5 DEF Fields, CopyEntry
  <2> QED
    BY <2>1, <2>2, <2>4, <2>5, <1>NextTableHolds, <1>GetReturnHolds
(* hti_cas. *)
<1>CasHolds.
      \A t \in Threads : IInv /\ Refs /\ (CasFind(t) \/ CasGrow(t) \/ CasKey(t) \/ CasLoad(t) \/ CasVal(t)) =>
          Refs'
  <2> TAKE t \in Threads
  <2> HAVE IInv /\ Refs /\ (CasFind(t) \/ CasGrow(t) \/ CasKey(t) \/ CasLoad(t) \/ CasVal(t))
  <2>1. /\ UNCHANGED <<ht_hti, ref_count, freed>>
        /\ th[t].pc \in {"cas", "cas_grow", "cas_key", "cas_load", "cas_val"}
    BY DEF CasFind, CasGrow, CasKey, CasLoad, CasVal, tables, At
  <2>2. op[t].kind # "iterate"
    BY <2>1, Known DEF CallOK, Casing
  <2>3. \/ \E v \in {DOES_NOT_EXIST, Value(val[th[t].h][th[t].ent]), Value(th[t].ent_val)} : Return(t, v)
        \/ Go(t, NextTable(t)) /\ UNCHANGED op
        \/ \E pc \in {"cas", "cas_grow", "cas_load"} : Go(t, [pc |-> pc]) /\ UNCHANGED op
        \/ \E pc \in {"cas_key", "cas_load"}, e \in {hti_lookup(th[t].h, th[t].key)} :
             Go(t, [pc |-> pc, ent |-> e]) /\ UNCHANGED op
        \/ \E w \in {val[th[t].h][th[t].ent]} :
             Go(t, [pc |-> "cas_val", ent_val |-> w]) /\ UNCHANGED op
        \/ Go(t, CopyEntry(th[t].ent, th[t].h + 1, "cas")) /\ UNCHANGED op
    <3>1. CASE CasFind(t)
      BY <3>1 DEF CasFind
    <3>2. CASE CasGrow(t)
      BY <3>2 DEF CasGrow, history
    <3>3. CASE CasKey(t)
      BY <3>3 DEF CasKey, history
    <3>4. CASE CasLoad(t)
      BY <3>4 DEF CasLoad
    <3>5. CASE CasVal(t)
      BY <3>5 DEF CasVal
    <3> QED
      BY <3>1, <3>2, <3>3, <3>4, <3>5
  <2>4. ASSUME NEW c, Go(t, c), UNCHANGED op, "pc" \in DOMAIN c, DOMAIN c \subseteq Fields, c.pc # "release"
        PROVE  Refs'
    BY <2>1, <2>2, <2>4, GoHolds
  <2>5. ASSUME NEW v, Return(t, v)
        PROVE  Refs'
    BY <2>1, <2>2, <2>5, <1>ReturnHolds DEF Return
  <2>6. ASSUME NEW pc \in {"cas", "cas_grow", "cas_load"}, Go(t, [pc |-> pc]), UNCHANGED op
        PROVE  Refs'
    BY <2>4, <2>6 DEF Fields
  <2>7. ASSUME NEW pc \in {"cas_key", "cas_load"}, NEW e, Go(t, [pc |-> pc, ent |-> e]), UNCHANGED op
        PROVE  Refs'
    BY <2>4, <2>7 DEF Fields
  <2>8. ASSUME NEW w, Go(t, [pc |-> "cas_val", ent_val |-> w]), UNCHANGED op
        PROVE  Refs'
    BY <2>4, <2>8 DEF Fields
  <2>9. ASSUME Go(t, CopyEntry(th[t].ent, th[t].h + 1, "cas")), UNCHANGED op
        PROVE  Refs'
    BY <2>4, <2>9 DEF Fields, CopyEntry
  <2>10. ASSUME Go(t, NextTable(t)), UNCHANGED op
         PROVE  Refs'
    <3>1. "pc" \in DOMAIN NextTable(t) /\ DOMAIN NextTable(t) \subseteq Fields /\ NextTable(t).pc # "release"
      BY DEF NextTable, With, Forget, Fields
    <3> QED
      BY <2>4, <2>10, <3>1
  <2> QED
    BY <2>3, <2>5, <2>6, <2>7, <2>8, <2>9, <2>10
(* hti_help_copy. *)
<1>HelpHolds.
      \A t \in Threads : IInv /\ Refs /\ (Begin(t) \/ HelpLoad(t) \/ HelpScan(t) \/ HelpReserve(t) \/ HelpEnd(t)) =>
          Refs'
  <2> TAKE t \in Threads
  <2> HAVE IInv /\ Refs /\ (Begin(t) \/ HelpLoad(t) \/ HelpScan(t) \/ HelpReserve(t) \/ HelpEnd(t))
  <2>1. UNCHANGED <<ht_hti, ref_count, freed, op>> /\ th[t].pc \in Helping \cup {"begin"}
    BY DEF Begin, HelpLoad, HelpScan, HelpReserve, HelpEnd, tables, history, At, Helping
  <2>2. op[t].kind \in {"cas", "iterate"} /\ th[t].pc # "release"
    BY <2>1, Known DEF CallOK, Helping
  <2>3. ASSUME NEW c, Go(t, c), "pc" \in DOMAIN c, DOMAIN c \subseteq Fields, c.pc # "release",
               \/ op[t].kind = "cas"
               \/ c.pc \in Helping \cup {"begin", "iter_ref"}
               \/ c.pc \in Copying /\ "then" \in DOMAIN c /\ c.then = "help"
        PROVE  Refs'
    BY <2>1, <2>2, <2>3, GoHolds
  <2>4. ASSUME NEW fin \in BOOLEAN, Go(t, HelpReturns(t, fin))
        PROVE  Refs'
    <3> DEFINE c == HelpReturns(t, fin)
    <3>1. "pc" \in DOMAIN c /\ DOMAIN c \subseteq Fields
      BY DEF HelpReturns, With, Forget, Fields
    <3>2. c.pc # "release" /\ (op[t].kind # "cas" => c.pc \in Helping \cup {"begin", "iter_ref"})
      BY DEF HelpReturns, With, Forget, Helping
    <3> HIDE DEF c
    <3> QED
      BY <2>2, <2>3, <2>4, <3>1, <3>2 DEF c
  <2>5. CASE Begin(t)
    <3> DEFINE c == [pc |-> IF th[t].h < last THEN "help"
                            ELSE IF op[t].kind = "cas" THEN "cas" ELSE "iter_ref"]
    <3>1. Go(t, c) /\ "pc" \in DOMAIN c /\ DOMAIN c \subseteq Fields
      BY <2>5 DEF Begin, Fields
    <3>2. c.pc # "release" /\ (op[t].kind # "cas" => c.pc \in Helping \cup {"begin", "iter_ref"})
      BY DEF Helping
    <3> HIDE DEF c
    <3> QED
      BY <2>2, <2>3, <3>1, <3>2
  <2>6. CASE HelpLoad(t)
    <3>1. Go(t, HelpReturns(t, TRUE)) \/ Go(t, [pc |-> "help_scan"])
      BY <2>6 DEF HelpLoad
    <3>2. CASE Go(t, [pc |-> "help_scan"])
      BY <2>3, <3>2 DEF Fields, Helping
    <3> QED
      BY <2>4, <3>1, <3>2
  <2>7. CASE HelpScan(t)
    <3> DEFINE c == With(CopyEntry(1, th[t].h + 1, "help"), [left |-> Sizes[th[t].h], num_copied |-> 0])
               d == [pc |-> "help_reserve", x |-> copy_scan[th[t].h]]
    <3>1. Go(t, c) \/ Go(t, d)
      BY <2>7 DEF HelpScan
    <3>2. /\ {"pc", "then"} \subseteq DOMAIN c /\ DOMAIN c \subseteq Fields /\ c.pc = "copy" /\ c.then = "help"
          /\ "pc" \in DOMAIN d /\ DOMAIN d \subseteq Fields /\ d.pc = "help_reserve"
      BY DEF With, CopyEntry, Fields
    <3> HIDE DEF c, d
    <3> QED
      BY <2>3, <3>1, <3>2 DEF Copying, Helping
  <2>8. CASE HelpReserve(t)
    <3> DEFINE c == With(CopyEntry((th[t].x % Sizes[th[t].h]) + 1, th[t].h + 1, "help"),
                         [left |-> ENTRIES_PER_COPY_CHUNK, num_copied |-> 0, x |-> 0])
    <3>1. Go(t, c)
      BY <2>8 DEF HelpReserve
    <3>2. {"pc", "then"} \subseteq DOMAIN c /\ DOMAIN c \subseteq Fields /\ c.pc = "copy" /\ c.then = "help"
      BY DEF With, CopyEntry, Fields
    <3> HIDE DEF c
    <3> QED
      BY <2>3, <3>1, <3>2 DEF Copying
  <2>9. CASE HelpEnd(t)
    <3>1. PICK fin \in BOOLEAN : Go(t, HelpReturns(t, fin))
      BY <2>9 DEF HelpEnd
    <3> QED
      BY <2>4, <3>1
  <2> QED
    BY <2>5, <2>6, <2>7, <2>8, <2>9
(* ht_iter_next. *)
<1>IterHolds. \A t \in Threads : IInv /\ Refs /\ (IterKey(t) \/ IterVal(t)) => Refs'
  <2> TAKE t \in Threads
  <2> HAVE IInv /\ Refs /\ (IterKey(t) \/ IterVal(t))
  <2>1. UNCHANGED <<ht_hti, ref_count, freed, op>> /\ th[t].pc \in {"iter_key", "iter_val"}
    BY DEF IterKey, IterVal, tables, history, At
  <2>2. DOMAIN th = Threads /\ DOMAIN th[t] = Fields
    BY Known
  <2>3. PICK c : Go(t, c) /\ "pc" \in DOMAIN c /\ DOMAIN c \subseteq Fields \ {"iter"}
                 /\ c.pc \in {"iter_key", "iter_val", "iter_free", "get"}
    BY DEF IterKey, IterVal, Fields
  <2>4. /\ \A u \in Threads : u # t => th'[u] = th[u]
        /\ \A f \in Fields : th'[t][f] = IF f \in DOMAIN c THEN c[f] ELSE th[t][f]
    BY <2>2, <2>3, Goes
  <2>5. th'[t].iter = th[t].iter /\ th'[t].pc \in {"iter_key", "iter_val", "iter_free", "get"}
    BY <2>3, <2>4 DEF Fields
  <2> QED
    BY <2>1, <2>4, <2>5, <1>HoldsOn, RefsStay
(* A call starts without a reference. *)
<1>CallsHold.
      \A t \in Threads : IInv /\ Refs /\ (ht_get(t) \/ ht_cas(t) \/ ht_remove(t) \/ ht_iter_begin(t)) =>
          Refs'
  <2> TAKE t \in Threads
  <2> HAVE IInv /\ Refs /\ (ht_get(t) \/ ht_cas(t) \/ ht_remove(t) \/ ht_iter_begin(t))
  <2>1. ASSUME NEW kind, NEW k, NEW x, NEW v, NEW pc, Call(t, kind, k, x, v, pc),
               kind # "iterate" \/ pc = "begin", pc # "release"
        PROVE  Refs'
    <3>1. /\ th[t].pc = "idle" /\ UNCHANGED <<ht_hti, ref_count, freed>>
          /\ Go(t, [pc |-> pc, key |-> k, h |-> ht_hti])
      BY <2>1 DEF Call, At, tables
    <3>2. DOMAIN th = Threads /\ DOMAIN th[t] = Fields /\ DOMAIN op = Threads
      BY Known
    <3>3. op'[t].kind = kind /\ \A u \in Threads : u # t => op'[u] = op[u]
      BY <2>1, <3>2 DEF Call
    <3>4. th'[t].pc = pc /\ \A u \in Threads : u # t => th'[u] = th[u]
      BY <3>1, <3>2, Goes DEF Fields
    <3> QED
      BY <2>1, <3>1, <3>3, <3>4, HoldsNothing, RefsStay
  <2> QED
    BY <2>1 DEF ht_get, ht_cas, ht_remove, ht_iter_begin
<1> QED
  BY <1>CopyStepsHold, <1>GetHolds, <1>CasHolds, <1>HelpHolds, <1>IterHolds, <1>CallsHold

-----------------------------------------------------------------------------
(* What is dead stays dead *)

(* A step writes to an entry that is not dead, or writes the same. *)
LEMMA DeadKeeps ==
    ASSUME IInv, [Next]_vars
    PROVE  \A h \in Tables : \A e \in Entries(h) : Dead(val[h][e]) => Dead(val'[h][e])
<1>1. CASE UNCHANGED val
  BY <1>1
<1>2. ASSUME NEW g, NEW f, NEW w, val' = [val EXCEPT ![g][f] = w],
             g \in Tables /\ f \in Entries(g) /\ Dead(val[g][f]) => Dead(w)
      PROVE  \A h \in Tables : \A e \in Entries(h) : Dead(val[h][e]) => Dead(val'[h][e])
  <2>1. \A h \in Tables : h \in DOMAIN val /\ DOMAIN val[h] = Entries(h)
    BY DEF IInv, Types
  <2>2. ASSUME NEW h \in Tables, NEW e \in Entries(h)
        PROVE  val'[h][e] = IF h = g /\ e = f THEN w ELSE val[h][e]
    BY <1>2, <2>1
  <2> QED
    BY <1>2, <2>2
<1>3. Dead(COPIED_VALUE) /\ ~Dead(EMPTY) /\ \A v : ~Dead(Plain(v))
  BY WordNames
<1>4. ASSUME NEW t \in Threads, CopyKill(t)
      PROVE  \A h \in Tables : \A e \in Entries(h) : Dead(val[h][e]) => Dead(val'[h][e])
  BY <1>1, <1>2, <1>3, <1>4 DEF CopyKill
<1>5. ASSUME NEW t \in Threads, CopyTag(t)
      PROVE  \A h \in Tables : \A e \in Entries(h) : Dead(val[h][e]) => Dead(val'[h][e])
  <2>1. val' = [val EXCEPT ![th[t].h][th[t].from] = TAG_VALUE(val[th[t].h][th[t].from])]
    BY <1>5 DEF CopyTag
  <2>2. \A w : Dead(w) => Dead(TAG_VALUE(w))
    BY WordNames DEF Tagged
  <2> QED
    BY <1>2, <2>1, <2>2
<1>6. ASSUME NEW t \in Threads, CopyVal(t)
      PROVE  \A h \in Tables : \A e \in Entries(h) : Dead(val[h][e]) => Dead(val'[h][e])
  <2>1. CASE val[th[t].to][th[t].ent] = EMPTY
    <3>1. val' = [val EXCEPT ![th[t].to][th[t].ent] = th[t].ent_val]
      BY <1>6, <2>1, WordNames DEF CopyVal
    <3> QED
      BY <1>2, <1>3, <2>1, <3>1
  <2>2. CASE val[th[t].to][th[t].ent] # EMPTY
    BY <1>1, <1>6, <2>2 DEF CopyVal
  <2> QED
    BY <2>1, <2>2
<1>7. ASSUME NEW t \in Threads, CopyDone(t)
      PROVE  \A h \in Tables : \A e \in Entries(h) : Dead(val[h][e]) => Dead(val'[h][e])
  BY <1>2, <1>3, <1>7 DEF CopyDone
<1>8. ASSUME NEW t \in Threads, CasVal(t)
      PROVE  \A h \in Tables : \A e \in Entries(h) : Dead(val[h][e]) => Dead(val'[h][e])
  <2>1. th[t].ent_val \in {Plain(v) : v \in Values}
    BY <1>8 DEF CasVal, At, IInv, ThreadOK, EntryOK
  <2>2. ~Dead(th[t].ent_val)
    BY <1>3, <2>1
  <2> QED
    BY <1>1, <1>2, <1>8, <2>2 DEF CasVal
<1>9. ASSUME NEW t \in Threads,
             \/ CopyLoad(t) \/ CopyFind(t) \/ CopyGrow(t) \/ CopyKey(t) \/ CopyCredit(t) \/ GetFind(t)
             \/ GetVal(t) \/ CasFind(t) \/ CasGrow(t) \/ CasKey(t) \/ CasLoad(t)
             \/ Begin(t) \/ HelpLoad(t) \/ HelpScan(t) \/ HelpReserve(t) \/ HelpEnd(t)
             \/ Unlink(t) \/ Release(t) \/ IterRef(t) \/ IterKey(t) \/ IterVal(t) \/ IterFree(t)
             \/ ht_get(t) \/ ht_cas(t) \/ ht_remove(t) \/ ht_iter_begin(t)
      PROVE  UNCHANGED val
  <2>1. CASE CopyLoad(t) \/ CopyFind(t) \/ CopyGrow(t) \/ CopyKey(t) \/ CopyCredit(t)
    BY <2>1 DEF CopyLoad, CopyFind, CopyGrow, CopyKey, CopyCredit, tables
  <2>2. CASE GetFind(t) \/ GetVal(t) \/ CasFind(t) \/ CasGrow(t) \/ CasKey(t) \/ CasLoad(t)
    BY <2>2 DEF GetFind, GetVal, CasFind, CasGrow, CasKey, CasLoad, tables
  <2>3. CASE Begin(t) \/ HelpLoad(t) \/ HelpScan(t) \/ HelpReserve(t) \/ HelpEnd(t)
    BY <2>3 DEF Begin, HelpLoad, HelpScan, HelpReserve, HelpEnd, tables
  <2>4. CASE \/ Unlink(t) \/ Release(t) \/ IterRef(t) \/ IterKey(t) \/ IterVal(t) \/ IterFree(t)
             \/ ht_get(t) \/ ht_cas(t) \/ ht_remove(t) \/ ht_iter_begin(t)
    BY <2>4 DEF Unlink, Release, IterRef, IterKey, IterVal, IterFree,
                ht_get, ht_cas, ht_remove, ht_iter_begin, Call, tables
  <2> QED
    BY <1>9, <2>1, <2>2, <2>3, <2>4
<1>10. UNCHANGED vars => UNCHANGED val
  BY DEF vars, tables
<1> QED
  BY <1>1, <1>4, <1>5, <1>6, <1>7, <1>8, <1>9, <1>10 DEF Next, Step

-----------------------------------------------------------------------------
(* The start *)

(* Where the keys are, and that a key is where a search for it ends. *)
LEMMA InitKeys ==
    ASSUME Init
    PROVE  /\ DOMAIN key = Tables
           /\ \A h \in Tables : key[h] \in [Entries(h) -> Keys \cup {DOES_NOT_EXIST}]
           /\ \A h \in Tables : \A e \in Entries(h) : key[h][e] # DOES_NOT_EXIST =>
                /\ Ends(h, key[h][e], e)
                /\ \A g \in 1..(h - 1) : NoRoom(g, key[h][e])
                /\ \A g \in Tables : \A f \in Entries(g) : key[g][f] = key[h][e] => g = h
<1>1. PICK old \in [Keys -> BOOLEAN], home \in [Keys -> UNION {{h} \X Entries(h) : h \in Tables}] :
        /\ \A k \in Keys : old[k] => Home(home, old, k)
        /\ key = [h \in Tables |-> [e \in Entries(h) |->
                    IF {k \in Keys : old[k] /\ home[k] = <<h, e>>} = {} THEN DOES_NOT_EXIST
                    ELSE CHOOSE k \in {k \in Keys : old[k] /\ home[k] = <<h, e>>} : TRUE]]
  BY DEF Init
<1>2. \A h \in Tables : \A e \in Entries(h) :
        key[h][e] = IF {k \in Keys : old[k] /\ home[k] = <<h, e>>} = {} THEN DOES_NOT_EXIST
                    ELSE CHOOSE k \in {k \in Keys : old[k] /\ home[k] = <<h, e>>} : TRUE
  BY <1>1
<1>3. DOES_NOT_EXIST \notin Keys
  BY HashtableAssumption
<1>4. ASSUME NEW h \in Tables, NEW e \in Entries(h)
      PROVE  /\ key[h][e] # DOES_NOT_EXIST =>
                  key[h][e] \in Keys /\ old[key[h][e]] /\ home[key[h][e]] = <<h, e>>
             /\ \A k \in Keys : old[k] /\ home[k] = <<h, e>> => key[h][e] # DOES_NOT_EXIST
  <2> DEFINE S == {k \in Keys : old[k] /\ home[k] = <<h, e>>}
  <2>1. key[h][e] = IF S = {} THEN DOES_NOT_EXIST ELSE CHOOSE k \in S : TRUE
    BY <1>2
  <2>2. S # {} => key[h][e] \in S
    BY <2>1
  <2> QED
    BY <1>3, <2>1, <2>2
<1>5. DOMAIN key = Tables /\ \A h \in Tables : key[h] \in [Entries(h) -> Keys \cup {DOES_NOT_EXIST}]
  <2>1. \A h \in Tables : \A e \in Entries(h) : key[h][e] \in Keys \cup {DOES_NOT_EXIST}
    BY <1>4
  <2>2. DOMAIN key = Tables
    BY <1>1
  <2>3. ASSUME NEW h \in Tables
        PROVE  key[h] = [e \in Entries(h) |-> key[h][e]]
    BY <1>1
  <2> QED
    BY <2>1, <2>2, <2>3
<1>6. ASSUME NEW h \in Tables, NEW e \in Entries(h), NEW k, k = key[h][e], k # DOES_NOT_EXIST
      PROVE  Ends(h, k, e) /\ \A g \in 1..(h - 1) : NoRoom(g, k)
  <2>1. k \in Keys /\ old[k] /\ home[k] = <<h, e>>
    BY <1>4, <1>6
  <2> DEFINE Free(g) == {j \in DOMAIN Probe[g][k] :
                          \A i \in 1..(k - 1) : old[i] => home[i] # <<g, Probe[g][k][j]>>}
  <2>a. PICK g \in Tables : \E j \in Free(g) :
          /\ home[k] = <<g, Probe[g][k][j]>>
          /\ \A i \in 1..(g - 1) : Free(i) = {}
          /\ \A i \in Free(g) : j <= i
    BY <1>1, <2>1 DEF Home
  <2>2. PICK j \in Free(g) :
          /\ home[k] = <<g, Probe[g][k][j]>>
          /\ \A i \in 1..(g - 1) : Free(i) = {}
          /\ \A i \in Free(g) : j <= i
    BY <2>a
  <2>3. g = h /\ Probe[h][k][j] = e
    BY <2>1, <2>2
  <2>4. PICK n \in Nat : DOMAIN Probe[h][k] = 1..n /\ \A i \in 1..n : Probe[h][k][i] \in Entries(h)
    BY <2>1, TableFacts
  <2>5. \A i \in 1..(k - 1) : i \in Keys
    BY <2>1, HashtableAssumption DEF Keys
  <2>6. ASSUME NEW f \in Tables, NEW i \in DOMAIN Probe[f][k], i \notin Free(f), Probe[f][k][i] \in Entries(f)
        PROVE  /\ key[f][Probe[f][k][i]] # DOES_NOT_EXIST
               /\ key[f][Probe[f][k][i]] = k => f = h /\ i \notin Free(f) /\ Probe[f][k][i] = e
    <3>1. PICK l \in 1..(k - 1) : old[l] /\ home[l] = <<f, Probe[f][k][i]>>
      BY <2>6
    <3>2. key[f][Probe[f][k][i]] # DOES_NOT_EXIST
      BY <1>4, <2>5, <2>6, <3>1
    <3>3. key[f][Probe[f][k][i]] = k => home[k] = <<f, Probe[f][k][i]>>
      BY <1>4, <2>6, <3>2
    <3> QED
      BY <2>1, <2>6, <3>2, <3>3
  <2>7. ASSUME NEW i \in 1..(j - 1)
        PROVE  key[h][Probe[h][k][i]] \notin {k, DOES_NOT_EXIST}
    <3>1. i \in DOMAIN Probe[h][k] /\ Probe[h][k][i] \in Entries(h) /\ ~(j <= i)
      BY <2>2, <2>3, <2>4
    <3>2. i \notin Free(h)
      BY <2>2, <2>3, <3>1
    <3>3. Probe[h][k][i] # e
      <4>1. j \in Free(h) /\ Probe[h][k][j] = e
        BY <2>2, <2>3
      <4> QED
        BY <3>1, <3>2, <4>1
    <3> HIDE DEF Free
    <3> QED
      BY <2>6, <3>1, <3>2, <3>3
  <2>8. Ends(h, k, e)
    BY <2>2, <2>3, <2>7 DEF Ends
  <2>9. ASSUME NEW f \in 1..(h - 1)
        PROVE  NoRoom(f, k)
    <3>0. h \in Nat \ {0} /\ 1..h \subseteq Tables /\ f \in 1..(g - 1)
      BY <2>3, TableFacts
    <3>a. Free(f) = {}
      BY <2>2, <3>0
    <3>b. f \in Tables /\ f # h
      BY <3>0
    <3>1. f \in Tables /\ f # h /\ Free(f) = {}
      BY <3>a, <3>b
    <3>2. PICK m \in Nat : DOMAIN Probe[f][k] = 1..m /\ \A i \in 1..m : Probe[f][k][i] \in Entries(f)
      BY <2>1, <3>1, TableFacts
    <3> HIDE DEF Free
    <3>3. \A i \in DOMAIN Probe[f][k] : key[f][Probe[f][k][i]] \notin {k, DOES_NOT_EXIST}
      BY <2>6, <3>1, <3>2
    <3> QED
      BY <3>3 DEF NoRoom
  <2> QED
    BY <2>8, <2>9
<1>7. \A h \in Tables : \A e \in Entries(h) : key[h][e] # DOES_NOT_EXIST =>
        \A g \in Tables : \A f \in Entries(g) : key[g][f] = key[h][e] => g = h
  BY <1>4
<1> QED
  BY <1>5, <1>6, <1>7
=============================================================================
