---------------------------- MODULE HashtableInv ----------------------------
(***************************************************************************)
(* The inductive invariant of the hashtable, for any number of threads,    *)
(* keys, calls and tables, and the steps that keep it without writing a    *)
(* value to a table.  What makes the copy of a table right is that a key's *)
(* value has one place at a time: a table further down the chain gets to   *)
(* know the key only once every table before it is shut for it, so of the  *)
(* threads that copy an entry one finds the empty place, and it alone      *)
(* accounts for the entry.                                                 *)
(***************************************************************************)
EXTENDS Hashtable

Words == Values \X BOOLEAN
Tagged(w) == w = TAG_VALUE(w)
Tombstone == Plain(TOMBSTONE)

Fields == {"pc", "key", "h", "ent", "ent_val", "then", "from", "to", "x", "left",
           "num_copied", "iter", "idx"}

(* Where a thread is: in hti_copy_entry, and past the tag there; in hti_cas  *)
(* and what ht_cas does around it; in hti_help_copy; in the iterator.        *)
Placing == {"copy_find", "copy_grow", "copy_key", "copy_val", "copy_done", "copy_lost"}
Copying == {"copy", "copy_kill", "copy_tag"} \cup Placing
Casing == {"cas", "cas_grow", "cas_key", "cas_load", "cas_val", "unlink", "release"}
Helping == {"help", "help_scan", "help_reserve", "help_end"}
Iterating == {"iter_ref", "iter_key", "iter_val", "iter_free"}

-----------------------------------------------------------------------------
(* Tables and keys *)

(* Table h has no entry for key k, and none it could still get. *)
NoRoom(h, k) ==
    \A j \in DOMAIN Probe[h][k] : key[h][Probe[h][k][j]] \notin {k, DOES_NOT_EXIST}

(* A search for k that finds it in e, or finds e empty, ends there. *)
Ends(h, k, e) ==
    \E j \in DOMAIN Probe[h][k] :
        /\ Probe[h][k][j] = e
        /\ \A i \in 1..(j - 1) : key[h][Probe[h][k][i]] \notin {k, DOES_NOT_EXIST}

AllDead(h) == \A e \in Entries(h) : Dead(val[h][e])

(* No value for k is written to table h any more; nor is one there. *)
Shut(h, k) ==
    \/ AllDead(h)
    \/ NoRoom(h, k)
    \/ \E e \in Entries(h) : key[h][e] = k /\ Tagged(val[h][e])

Over(h, k) ==
    \/ AllDead(h)
    \/ NoRoom(h, k)
    \/ \E e \in Entries(h) : key[h][e] = k /\ Dead(val[h][e])

(* A copy of k's value goes past table h. *)
Passed(h, k) ==
    \/ NoRoom(h, k)
    \/ \E e \in Entries(h) : key[h][e] = k /\ val[h][e] = COPIED_VALUE

(* A table after h has a value for k, or had one that was removed. *)
Landed(h, k) ==
    \E g \in Tables : \E e \in Entries(g) :
        h < g /\ key[g][e] = k /\ val[g][e] \notin {EMPTY, COPIED_VALUE}

Types ==
    /\ last \in Tables /\ ht_hti \in 1..last
    /\ DOMAIN key = Tables /\ DOMAIN val = Tables /\ DOMAIN th = Threads /\ DOMAIN op = Threads
    /\ copy_scan \in [Tables -> Nat] /\ num_entries_copied \in [Tables -> Nat]
    /\ \A h \in Tables :
         /\ key[h] \in [Entries(h) -> Keys \cup {DOES_NOT_EXIST}]
         /\ val[h] \in [Entries(h) -> Words]
         /\ copy_scan[h] < 2 * Sizes[h] + ENTRIES_PER_COPY_CHUNK
         /\ copy_scan[h] % ENTRIES_PER_COPY_CHUNK = 0

(* Where the keys are, and what the tables know of each other. *)
Chain ==
    /\ \A h \in Tables : \A e \in Entries(h) :
         /\ key[h][e] # DOES_NOT_EXIST =>
              Ends(h, key[h][e], e) /\ \A g \in 1..(h - 1) : Shut(g, key[h][e])
         /\ val[h][e] \notin {EMPTY, COPIED_VALUE} => key[h][e] # DOES_NOT_EXIST
         /\ Tagged(val[h][e]) => h < last
    /\ \A h \in 1..(ht_hti - 1) : AllDead(h) /\ num_entries_copied[h] = Sizes[h]

-----------------------------------------------------------------------------
(* What a thread knows *)

LocalOK(t) ==
    /\ DOMAIN th[t] = Fields
    /\ th[t].h \in 1..last /\ th[t].to \in 1..last /\ th[t].iter \in 1..last
    /\ th[t].idx \in Nat /\ th[t].num_copied \in Nat
    /\ th[t].num_copied # 0 => th[t].then = "help" /\ th[t].pc \in Copying \cup {"help_end"}

(* The call it is in; who is to write a key's value has seen that the tables *)
(* before his are done with the key.                                         *)
CallOK(t) ==
    /\ th[t].pc # "idle" => op[t].kind \in {"get", "cas", "remove", "iterate"}
                            /\ op[t].new_val \in Threads \cup {DOES_NOT_EXIST}
    /\ th[t].pc \in Casing => op[t].kind \in {"cas", "remove"}
    /\ th[t].pc \in {"unlink", "release"} => op[t].kind = "cas"
    /\ th[t].pc \in Helping \cup {"begin"} => op[t].kind \in {"cas", "iterate"}
    /\ th[t].pc \in {"get", "get_val"} => op[t].kind \in {"get", "iterate"} /\ th[t].key \in Keys
    /\ th[t].pc \in Iterating => op[t].kind = "iterate"
    /\ op[t].kind \in {"cas", "remove"} =>
         th[t].key \in Keys /\ \A g \in 1..(th[t].h - 1) : Over(g, th[t].key)

(* hti_get, hti_cas and the iterator at an entry. *)
EntryOK(t) ==
    /\ th[t].pc \in {"get_val", "cas_load", "cas_val"} =>
         th[t].ent \in Entries(th[t].h) /\ key[th[t].h][th[t].ent] = th[t].key
    /\ th[t].pc = "cas_key" => Ends(th[t].h, th[t].key, th[t].ent)
    /\ th[t].pc = "cas_grow" => NoRoom(th[t].h, th[t].key)
    /\ th[t].pc = "cas_val" => th[t].ent_val \in {Plain(v) : v \in Values}
    /\ th[t].pc = "iter_val" => /\ th[t].idx \in Entries(th[t].iter)
                                /\ th[t].key \in Keys
                                /\ th[t].key = key[th[t].iter][th[t].idx]

(* hti_help_copy, and ht_cas after it. *)
HelpOK(t) ==
    /\ th[t].pc \in Helping \cup {"unlink"} => th[t].h < last
    /\ th[t].pc = "help_reserve" => /\ th[t].x \in Nat /\ th[t].x < 2 * Sizes[th[t].h]
                                    /\ th[t].x % ENTRIES_PER_COPY_CHUNK = 0
    /\ th[t].pc = "unlink" => num_entries_copied[th[t].h] = Sizes[th[t].h]
    /\ th[t].pc = "release" => th[t].h < ht_hti

(* hti_copy_entry: who asked for it. *)
AskedOK(t) ==
    /\ th[t].pc \in Copying \cup {"credit"} =>
         /\ th[t].from \in Entries(th[t].h)
         /\ \/ th[t].then = "help" /\ op[t].kind \in {"cas", "iterate"}
            \/ /\ \/ th[t].then = "get" /\ op[t].kind \in {"get", "iterate"}
                  \/ th[t].then = "cas" /\ op[t].kind \in {"cas", "remove"}
               /\ th[t].key \in Keys /\ key[th[t].h][th[t].from] = th[t].key
    /\ th[t].pc = "credit" => th[t].then # "help" /\ Dead(val[th[t].h][th[t].from])
    /\ th[t].pc \in Copying /\ th[t].then = "help" =>
         th[t].left \in Nat \ {0} /\ th[t].from + th[t].left <= Sizes[th[t].h] + 1

(* hti_copy_entry: how far it is. *)
CopyOK(t) ==
    LET h == th[t].h
        k == key[h][th[t].from]
        w == val[h][th[t].from]
        to == th[t].to IN
    /\ th[t].pc \in Copying => h < to /\ \A g \in (h + 1)..(to - 1) : Passed(g, k)
    /\ th[t].pc = "copy_tag" => w # EMPTY
    /\ th[t].pc \in Placing \/ (th[t].pc \in Copying /\ to # h + 1) =>
         k \in Keys /\ Tagged(w) /\ w # TAG_VALUE(Tombstone)
    /\ th[t].pc \in Placing =>
         /\ w = COPIED_VALUE => Landed(h, k)
         /\ th[t].ent_val \in {Plain(v) : v \in Values \ {DOES_NOT_EXIST, TOMBSTONE}}
    /\ th[t].pc = "copy_grow" => NoRoom(to, k)
    /\ th[t].pc = "copy_key" => Ends(to, k, th[t].ent)
    /\ th[t].pc = "copy_val" => th[t].ent \in Entries(to) /\ key[to][th[t].ent] = k
    /\ th[t].pc \in {"copy_done", "copy_lost"} => Landed(h, k)

ThreadOK(t) == LocalOK(t) /\ CallOK(t) /\ EntryOK(t) /\ HelpOK(t) /\ AskedOK(t) /\ CopyOK(t)

-----------------------------------------------------------------------------
(* Who accounts for an entry *)

(* The thread that copied entry e of table h has yet to say so. *)
Won(t, h, e) == th[t].pc = "copy_done" /\ th[t].h = h /\ th[t].from = e

(* What t has still to add to num_entries_copied[h]. *)
Pending(t, h) ==
    IF th[t].h # h THEN 0 ELSE th[t].num_copied + (IF th[t].pc = "credit" THEN 1 ELSE 0)

(* The dead entries outside of those already counted that are t's to count. *)
Owed(t, h, counted, owner) ==
    {e \in Entries(h) \ counted : Dead(val[h][e]) /\ owner[e] = t /\ ~Won(t, h, e)}

Accounts(h, counted, owner) ==
    /\ \A e \in counted : Dead(val[h][e])
    /\ Cardinality(counted) = num_entries_copied[h]
    /\ \A t \in Threads : Cardinality(Owed(t, h, counted, owner)) = Pending(t, h)
    /\ \A e \in Entries(h) : Dead(val[h][e]) /\ e \notin counted => owner[e] \in Threads
    /\ \A t \in Threads : \A e \in Entries(h) : Won(t, h, e) => e \notin counted /\ owner[e] = t

Counted(h) ==
    \E counted \in SUBSET Entries(h), owner \in [Entries(h) -> Threads \cup {0}] :
        Accounts(h, counted, owner)

(* A value that has landed is marked as copied by who copied it, or a loser. *)
SomeoneWon(h) ==
    \A e \in Entries(h) :
        key[h][e] # DOES_NOT_EXIST /\ Landed(h, key[h][e]) /\ ~Dead(val[h][e])
            => \E t \in Threads : Won(t, h, e)

IInv ==
    /\ Types /\ Chain
    /\ \A t \in Threads : ThreadOK(t)
    /\ \A h \in Tables : Counted(h) /\ SomeoneWon(h)

-----------------------------------------------------------------------------
(* A chunk that begins in a table ends in it. *)
LEMMA ChunkFits ==
    \A x \in Nat, S \in Nat \ {0}, C \in Nat \ {0} : x % C = 0 /\ S % C = 0 =>
        /\ (x % S) + 1 \in 1..S /\ (x % S) + C <= S
        /\ x + C \in Nat /\ (x + C) % C = 0
<1> TAKE x \in Nat, S \in Nat \ {0}, C \in Nat \ {0}
<1> HAVE x % C = 0 /\ S % C = 0
<1>1. x \div C \in Nat /\ x = C * (x \div C) /\ S \div C \in Nat /\ S = C * (S \div C)
  OBVIOUS
<1>2. PICK a \in Nat, b \in Nat : x = C * a /\ S = C * b
  BY <1>1
<1>3. x \div S \in Nat /\ x % S \in 0..(S - 1) /\ x = S * (x \div S) + (x % S)
  OBVIOUS
<1>4. PICK q \in Nat, r \in 0..(S - 1) : r = x % S /\ x = S * q + r
  BY <1>3
<1>5. r = C * (a - b * q)
  BY <1>2, <1>4
<1>6. a - b * q \in Int /\ a - b * q < b
  BY <1>2, <1>4, <1>5
<1>7. C * (a - b * q) <= C * (b - 1)
  BY <1>2, <1>6
<1>8. r + C <= S
  BY <1>2, <1>5, <1>7
<1>9. (x + C) % C = 0
  BY <1>2
<1> QED
  BY <1>4, <1>8, <1>9

(* A guarded choice takes the guard that holds.  Used by every step below: an  *)
(* obligation with a CASE in it goes to the SMT solver without type inference, *)
(* whose tables grow with every obligation of a module.                        *)
LEMMA Untyped == (CASE TRUE -> 1 [] OTHER -> 0) = 1
  OBVIOUS

USE Untyped

-----------------------------------------------------------------------------
(* Words, the locals of a thread, and the tables *)

(* A word is a value with or without the tag. *)
LEMMA WordShape ==
    \A w \in Words :
        /\ w[1] \in Values
        /\ IS_TAGGED(w) <=> Tagged(w)
        /\ ~IS_TAGGED(w) => w = Plain(w[1])
        /\ TAG_VALUE(w) \in Words /\ STRIP_TAG(w) = Plain(w[1])
<1> TAKE w \in Words
<1>1. PICK v \in Values, b \in BOOLEAN : w = <<v, b>>
  BY DEF Words
<1>2. CASE b = TRUE
  BY <1>1, <1>2 DEF IS_TAGGED, Tagged, TAG_VALUE, Plain, STRIP_TAG, Words
<1>3. CASE b = FALSE
  BY <1>1, <1>3 DEF IS_TAGGED, Tagged, TAG_VALUE, Plain, STRIP_TAG, Words
<1> QED
  BY <1>2, <1>3

(* The words with a name differ, and those that are dead have the tag. *)
LEMMA WordNames ==
    /\ EMPTY \in Words /\ COPIED_VALUE \in Words /\ TAG_VALUE(Tombstone) \in Words
    /\ EMPTY # COPIED_VALUE /\ ~Tagged(EMPTY)
    /\ COPIED_VALUE # TAG_VALUE(Tombstone) /\ Tombstone # EMPTY /\ ~Tagged(Tombstone)
    /\ \A w : Dead(w) => Tagged(w) /\ w # EMPTY
    /\ \A w : Dead(w) <=> w = COPIED_VALUE \/ w = TAG_VALUE(Tombstone)
    /\ \A v : ~Tagged(Plain(v)) /\ Tagged(TAG_VALUE(Plain(v))) /\ Plain(v)[1] = v
    /\ \A v \in Values : Plain(v) \in Words
    /\ \A v, w : Plain(v) = Plain(w) => v = w
    /\ \A v : TAG_VALUE(Plain(v)) = COPIED_VALUE => v = DOES_NOT_EXIST
    /\ \A v : TAG_VALUE(Plain(v)) = TAG_VALUE(Tombstone) => v = TOMBSTONE
<1>1. DOES_NOT_EXIST \in Values /\ TOMBSTONE \in Values /\ DOES_NOT_EXIST # TOMBSTONE
  BY HashtableAssumption DEF Values
<1>2. \A v \in Values : <<v, TRUE>> \in Words /\ <<v, FALSE>> \in Words
  BY DEF Words
<1>3. \A v \in Values : Plain(v) \in Words
  BY <1>2 DEF Plain
<1>4. EMPTY \in Words /\ COPIED_VALUE \in Words /\ TAG_VALUE(Tombstone) \in Words
  BY <1>1, <1>2 DEF EMPTY, COPIED_VALUE, Tombstone, TAG_VALUE, Plain
<1>5. EMPTY # COPIED_VALUE /\ COPIED_VALUE # TAG_VALUE(Tombstone) /\ Tombstone # EMPTY
  BY <1>1 DEF EMPTY, COPIED_VALUE, Tombstone, TAG_VALUE, Plain
<1>6. \A v : ~Tagged(Plain(v)) /\ Tagged(TAG_VALUE(Plain(v))) /\ Plain(v)[1] = v
  BY DEF Tagged, TAG_VALUE, Plain
<1>7. ~Tagged(EMPTY) /\ ~Tagged(Tombstone)
  BY <1>6 DEF EMPTY, Tombstone
<1>8. \A w : Dead(w) <=> w = COPIED_VALUE \/ w = TAG_VALUE(Tombstone)
  BY DEF Dead, Tombstone
<1>9. Tagged(COPIED_VALUE) /\ Tagged(TAG_VALUE(Tombstone))
  BY DEF Tagged, COPIED_VALUE, EMPTY, TAG_VALUE, Tombstone, Plain
<1>10. \A w : Dead(w) => Tagged(w) /\ w # EMPTY
  BY <1>7, <1>8, <1>9
<1>11. \A v, w : Plain(v) = Plain(w) => v = w
  BY DEF Plain
<1>12. \A v : TAG_VALUE(Plain(v)) = COPIED_VALUE => v = DOES_NOT_EXIST
  BY DEF COPIED_VALUE, EMPTY, TAG_VALUE, Plain
<1>13. \A v : TAG_VALUE(Plain(v)) = TAG_VALUE(Tombstone) => v = TOMBSTONE
  BY DEF TAG_VALUE, Tombstone, Plain
<1> QED
  BY <1>3, <1>4, <1>5, <1>6, <1>7, <1>8, <1>10, <1>11, <1>12, <1>13

(* What a thread's locals are after a step that changes some of them. *)
LEMMA Goes ==
    ASSUME NEW t \in Threads, NEW c, Go(t, c), DOMAIN c \subseteq Fields,
           DOMAIN th = Threads, DOMAIN th[t] = Fields
    PROVE  /\ DOMAIN th' = Threads /\ DOMAIN th'[t] = Fields
           /\ \A u \in Threads : u # t => th'[u] = th[u]
           /\ \A f \in Fields : th'[t][f] = IF f \in DOMAIN c THEN c[f] ELSE th[t][f]
<1>1. th' = [th EXCEPT ![t] = With(th[t], c)]
  BY DEF Go
<1>2. th'[t] = With(th[t], c)
  BY <1>1
<1>3. DOMAIN th'[t] = Fields
  BY <1>2 DEF With
<1> QED
  BY <1>1, <1>2, <1>3 DEF With

(* The chain has no gaps, and a search visits entries. *)
LEMMA TableFacts ==
    \A h \in Tables :
        /\ h \in Nat \ {0} /\ 1..h \subseteq Tables
        /\ Sizes[h] \in Nat \ {0} /\ Entries(h) = 1..Sizes[h]
        /\ \A k \in Keys : \E n \in Nat :
             DOMAIN Probe[h][k] = 1..n /\ \A j \in 1..n : Probe[h][k][j] \in Entries(h)
<1> TAKE h \in Tables
<1>1. /\ h \in Nat \ {0} /\ 1..h \subseteq Tables /\ Sizes[h] \in Nat \ {0}
      /\ \A k \in Keys : Probe[h][k] \in Seq(Entries(h))
  BY HashtableAssumption
<1>3. ASSUME NEW k \in Keys
      PROVE  \E n \in Nat : DOMAIN Probe[h][k] = 1..n /\ \A j \in 1..n : Probe[h][k][j] \in Entries(h)
  <2>1. Probe[h][k] \in Seq(Entries(h))
    BY <1>1
  <2>2. Len(Probe[h][k]) \in Nat /\ DOMAIN Probe[h][k] = 1..Len(Probe[h][k])
        /\ \A j \in 1..Len(Probe[h][k]) : Probe[h][k][j] \in Entries(h)
    BY <2>1
  <2> QED
    BY <2>2
<1> QED
  BY <1>1, <1>3 DEF Entries

(* A key has one entry in a table, and while it has none, one it may get. *)
LEMMA OneEntry ==
    ASSUME NEW h \in Tables, NEW k \in Keys, NEW e1, NEW e2, Ends(h, k, e1), Ends(h, k, e2),
           key[h][e1] = k, key[h][e2] \in {k, DOES_NOT_EXIST}
    PROVE  e1 = e2
<1>1. PICK n \in Nat : DOMAIN Probe[h][k] = 1..n
  BY TableFacts
<1>2. PICK i \in 1..n : /\ Probe[h][k][i] = e1
                        /\ \A l \in 1..(i - 1) : key[h][Probe[h][k][l]] \notin {k, DOES_NOT_EXIST}
  BY <1>1 DEF Ends
<1>3. PICK j \in 1..n : /\ Probe[h][k][j] = e2
                        /\ \A l \in 1..(j - 1) : key[h][Probe[h][k][l]] \notin {k, DOES_NOT_EXIST}
  BY <1>1 DEF Ends
<1>4. ~(i < j) /\ ~(j < i)
  BY <1>2, <1>3
<1> QED
  BY <1>2, <1>3, <1>4

(* A key that could go to an entry has room. *)
LEMMA EndsHasRoom ==
    \A h, k, e : Ends(h, k, e) /\ key[h][e] \in {k, DOES_NOT_EXIST} => ~NoRoom(h, k)
  BY DEF Ends, NoRoom

-----------------------------------------------------------------------------
(* What a step leaves alone *)

(* Keys stay where they are; a word does not become empty again, a dead one  *)
(* does not change, and one with the tag only when its value has landed.     *)
Grow ==
    /\ last <= last' /\ ht_hti <= ht_hti'
    /\ \A h \in Tables : \A e \in Entries(h) :
         /\ key[h][e] # DOES_NOT_EXIST => key'[h][e] = key[h][e]
         /\ val[h][e] # EMPTY => val'[h][e] # EMPTY
         /\ Dead(val[h][e]) => val'[h][e] = val[h][e]
         /\ Tagged(val[h][e]) /\ val'[h][e] # val[h][e] =>
              val'[h][e] = COPIED_VALUE /\ Landed(h, key[h][e])'
    /\ \A h \in Tables : num_entries_copied[h] = Sizes[h] => num_entries_copied'[h] = Sizes[h]
    /\ \A h \in Tables, k \in Keys : Landed(h, k) => Landed(h, k)'

(* So what is known of a table and a key stays true. *)
LEMMA GrowKeeps ==
    \A h \in Tables, k \in Keys : Grow =>
        /\ NoRoom(h, k) => NoRoom(h, k)'
        /\ \A e : Ends(h, k, e) => Ends(h, k, e)'
        /\ AllDead(h) => AllDead(h)'
        /\ Shut(h, k) => Shut(h, k)'
        /\ Over(h, k) => Over(h, k)'
        /\ Passed(h, k) => Passed(h, k)'
<1> TAKE h \in Tables, k \in Keys
<1> HAVE Grow
<1>1. PICK n \in Nat : DOMAIN Probe[h][k] = 1..n /\ \A j \in 1..n : Probe[h][k][j] \in Entries(h)
  BY TableFacts
<1>2. \A e \in Entries(h) : /\ key[h][e] # DOES_NOT_EXIST => key'[h][e] = key[h][e]
                            /\ Dead(val[h][e]) => val'[h][e] = val[h][e]
                            /\ Tagged(val[h][e]) => val'[h][e] \in {val[h][e], COPIED_VALUE}
  BY DEF Grow
<1>3. NoRoom(h, k) => NoRoom(h, k)'
  BY <1>1, <1>2 DEF NoRoom
<1>4. ASSUME NEW e, Ends(h, k, e)
      PROVE  Ends(h, k, e)'
  <2>1. PICK j \in 1..n : /\ Probe[h][k][j] = e
                          /\ \A i \in 1..(j - 1) : key[h][Probe[h][k][i]] \notin {k, DOES_NOT_EXIST}
    BY <1>1, <1>4 DEF Ends
  <2>2. \A i \in 1..(j - 1) : i \in 1..n
    OBVIOUS
  <2>3. \A i \in 1..(j - 1) : key'[h][Probe[h][k][i]] \notin {k, DOES_NOT_EXIST}
    BY <1>1, <1>2, <2>1, <2>2
  <2> QED
    BY <1>1, <2>1, <2>3 DEF Ends
<1>5. AllDead(h) => AllDead(h)'
  BY <1>2 DEF AllDead
<1>6. k # DOES_NOT_EXIST
  BY HashtableAssumption
<1>7. Tagged(COPIED_VALUE)
  BY WordNames
<1>8. Shut(h, k) => Shut(h, k)'
  BY <1>2, <1>3, <1>5, <1>6, <1>7 DEF Shut
<1>9. Over(h, k) => Over(h, k)'
  BY <1>2, <1>3, <1>5, <1>6 DEF Over
<1>10. Passed(h, k) => Passed(h, k)'
  BY <1>2, <1>3, <1>6, WordNames DEF Passed
<1> QED
  BY <1>3, <1>4, <1>5, <1>8, <1>9, <1>10

(* A thread in hti_copy_entry that does not move keeps what it knows. *)
LEMMA CopierKeeps ==
    ASSUME NEW u \in Threads, Grow, CopyOK(u), th'[u] = th[u], th[u].pc \in Copying,
           NEW h \in Tables, h = th[u].h, NEW to \in Tables, to = th[u].to,
           NEW from \in Entries(h), from = th[u].from,
           NEW k, k = key[h][from], NEW w, w = val[h][from],
           \A g \in (h + 1)..(to - 1) : g \in Tables
    PROVE  CopyOK(u)'
<1>1. /\ h < to /\ \A g \in (h + 1)..(to - 1) : Passed(g, k)
      /\ th[u].pc = "copy_tag" => w # EMPTY
      /\ th[u].pc \in Placing \/ to # h + 1 => k \in Keys /\ Tagged(w) /\ w # TAG_VALUE(Tombstone)
      /\ th[u].pc \in Placing =>
           /\ w = COPIED_VALUE => Landed(h, k)
           /\ th[u].ent_val \in {Plain(v) : v \in Values \ {DOES_NOT_EXIST, TOMBSTONE}}
      /\ th[u].pc = "copy_grow" => NoRoom(to, k)
      /\ th[u].pc = "copy_key" => Ends(to, k, th[u].ent)
      /\ th[u].pc = "copy_val" => th[u].ent \in Entries(to) /\ key[to][th[u].ent] = k
      /\ th[u].pc \in {"copy_done", "copy_lost"} => Landed(h, k)
  BY DEF CopyOK
<1>2. w # EMPTY => val'[h][from] # EMPTY
  BY DEF Grow
<1>3. CASE k \in Keys
  <2>1. k # DOES_NOT_EXIST
    BY <1>3, HashtableAssumption
  <2>2. key'[h][from] = k
    BY <2>1 DEF Grow
  <2>3. \A g \in (h + 1)..(to - 1) : Passed(g, k)'
    BY <1>1, <1>3, GrowKeeps
  <2>4. /\ Tagged(w) /\ val'[h][from] # w => val'[h][from] = COPIED_VALUE /\ Landed(h, k)'
        /\ Landed(h, k) => Landed(h, k)'
    BY <1>3, <2>2 DEF Grow
  <2>5. Tagged(COPIED_VALUE) /\ COPIED_VALUE # TAG_VALUE(Tombstone)
    BY WordNames
  <2>6. Tagged(w) /\ w # TAG_VALUE(Tombstone) =>
          Tagged(val'[h][from]) /\ val'[h][from] # TAG_VALUE(Tombstone)
    BY <2>4, <2>5
  <2>7. th[u].pc \in Placing => (val'[h][from] = COPIED_VALUE => Landed(h, k)')
    BY <1>1, <2>4
  <2>8. NoRoom(to, k) => NoRoom(to, k)'
    BY <1>3, GrowKeeps
  <2>9. Ends(to, k, th[u].ent) => Ends(to, k, th[u].ent)'
    BY <1>3, GrowKeeps
  <2>10. th[u].pc = "copy_val" => th[u].ent \in Entries(to) /\ key'[to][th[u].ent] = k
    BY <1>1, <2>1 DEF Grow
  <2> QED
    BY <1>1, <1>2, <1>3, <2>2, <2>3, <2>4, <2>6, <2>7, <2>8, <2>9, <2>10 DEF CopyOK
<1>4. CASE k \notin Keys
  <2>1. th[u].pc \notin Placing /\ to = h + 1
    BY <1>1, <1>4
  <2>2. (h + 1)..(to - 1) = {}
    BY <2>1, TableFacts
  <2> QED
    BY <1>1, <1>2, <2>1, <2>2 DEF CopyOK, Placing
<1> QED
  BY <1>3, <1>4

(* A thread that does not move keeps what it knows. *)
LEMMA OthersKeep ==
    ASSUME NEW u \in Threads, Types, Types', Grow, ThreadOK(u),
           th'[u] = th[u], op'[u] = op[u]
    PROVE  ThreadOK(u)'
<1>0. last \in Nat /\ last' \in Nat /\ 1..last \subseteq Tables
  BY TableFacts DEF Types
<1>1. /\ last \in Nat /\ last' \in Nat /\ last <= last' /\ ht_hti <= ht_hti'
      /\ \A i \in 1..last : i \in Tables /\ i \in 1..last'
      /\ ht_hti \in Nat /\ ht_hti' \in Nat
  BY <1>0 DEF Grow, Types
<1>2. /\ th[u].h \in Tables /\ th[u].to \in Tables /\ th[u].iter \in Tables
      /\ th[u].h \in Nat /\ th[u].to \in Nat
      /\ \A g \in 1..(th[u].h - 1) : g \in Tables
      /\ \A g \in (th[u].h + 1)..(th[u].to - 1) : g \in Tables
  <2>1. th[u].h \in 1..last /\ th[u].to \in 1..last /\ th[u].iter \in 1..last
    BY DEF ThreadOK, LocalOK
  <2>2. /\ \A g \in 1..(th[u].h - 1) : g \in 1..last
        /\ \A g \in (th[u].h + 1)..(th[u].to - 1) : g \in 1..last
    BY <1>0, <2>1
  <2> QED
    BY <1>0, <2>1, <2>2
<1>3. LocalOK(u)'
  BY <1>1 DEF ThreadOK, LocalOK
<1>4. CallOK(u)'
  BY <1>2, GrowKeeps DEF ThreadOK, CallOK
<1>5. \A h \in Tables : \A e \in Entries(h) : key[h][e] \in Keys => key'[h][e] = key[h][e]
  BY HashtableAssumption DEF Grow
<1>6. EntryOK(u)'
  <2>1. th[u].pc \in {"get_val", "cas_load", "cas_val", "cas_key", "cas_grow"} => th[u].key \in Keys
    BY DEF ThreadOK, CallOK, Casing
  <2>2. th[u].pc \in {"get_val", "cas_load", "cas_val"} =>
          key'[th[u].h][th[u].ent] = th[u].key
    BY <1>2, <1>5, <2>1 DEF ThreadOK, EntryOK
  <2>3. th[u].pc = "cas_key" => Ends(th[u].h, th[u].key, th[u].ent)'
    BY <1>2, <2>1, GrowKeeps DEF ThreadOK, EntryOK
  <2>4. th[u].pc = "cas_grow" => NoRoom(th[u].h, th[u].key)'
    BY <1>2, <2>1, GrowKeeps DEF ThreadOK, EntryOK
  <2>5. th[u].pc = "iter_val" => th[u].key = key'[th[u].iter][th[u].idx]
    BY <1>2, <1>5 DEF ThreadOK, EntryOK
  <2> QED
    BY <2>2, <2>3, <2>4, <2>5 DEF ThreadOK, EntryOK
<1>7. HelpOK(u)'
  <2>1. num_entries_copied[th[u].h] = Sizes[th[u].h] => num_entries_copied'[th[u].h] = Sizes[th[u].h]
    BY <1>2 DEF Grow
  <2> QED
    BY <1>1, <1>2, <2>1 DEF ThreadOK, HelpOK
<1>8. AskedOK(u)'
  <2>1. th[u].pc = "credit" => Dead(val'[th[u].h][th[u].from])
    BY <1>2 DEF ThreadOK, AskedOK, Grow
  <2>2. th[u].pc \in Copying \cup {"credit"} /\ key[th[u].h][th[u].from] \in Keys =>
          key'[th[u].h][th[u].from] = key[th[u].h][th[u].from]
    BY <1>2, <1>5 DEF ThreadOK, AskedOK
  <2> QED
    BY <2>1, <2>2 DEF ThreadOK, AskedOK
<1>9. CopyOK(u)'
  <2>1. CASE th[u].pc \in Copying
    <3>1. th[u].from \in Entries(th[u].h)
      BY <2>1 DEF ThreadOK, AskedOK
    <3>2. CopyOK(u)
      BY DEF ThreadOK
    <3> QED
      BY <1>2, <2>1, <3>1, <3>2, CopierKeeps
  <2>2. CASE th[u].pc \notin Copying
    BY <2>2 DEF CopyOK, Copying, Placing
  <2> QED
    BY <2>1, <2>2
<1> QED
  BY <1>3, <1>4, <1>6, <1>7, <1>8, <1>9 DEF ThreadOK

(* A step of t that keeps what the tables and t know keeps the rest. *)
LEMMA StepKeeps ==
    ASSUME NEW t \in Threads, IInv, Types', Chain', Grow, ThreadOK(t)',
           \A u \in Threads : u # t => th'[u] = th[u] /\ op'[u] = op[u],
           \A h \in Tables : Counted(h)' /\ SomeoneWon(h)'
    PROVE  IInv'
<1>1. \A u \in Threads : u # t => ThreadOK(u)'
  BY OthersKeep DEF IInv
<1> QED
  BY <1>1 DEF IInv

(* What is known of tables whose entries do not change. *)
LEMMA SameTables ==
    ASSUME UNCHANGED <<key, val>>
    PROVE  /\ \A h, k : /\ NoRoom(h, k)' <=> NoRoom(h, k)
                        /\ Shut(h, k)' <=> Shut(h, k)
                        /\ Over(h, k)' <=> Over(h, k)
                        /\ Passed(h, k)' <=> Passed(h, k)
                        /\ Landed(h, k)' <=> Landed(h, k)
           /\ \A h, k, e : Ends(h, k, e)' <=> Ends(h, k, e)
           /\ \A h : AllDead(h)' <=> AllDead(h)
  BY DEF NoRoom, Shut, Over, Passed, Landed, Ends, AllDead

(* Tables nobody writes keep their chain. *)
LEMMA QuietTables ==
    ASSUME Types, Chain, UNCHANGED <<ht_hti, key, val, num_entries_copied>>,
           last' \in Tables, last <= last'
    PROVE  Grow /\ Chain'
<1>1. last \in Nat /\ last' \in Nat /\ ht_hti \in Nat
  BY TableFacts DEF Types
<1>2. Grow
  BY <1>1, SameTables DEF Grow
<1>3. ASSUME NEW h \in Tables, NEW e \in Entries(h)
      PROVE  /\ key'[h][e] # DOES_NOT_EXIST =>
                  Ends(h, key[h][e], e)' /\ \A g \in 1..(h - 1) : Shut(g, key[h][e])'
             /\ val'[h][e] \notin {EMPTY, COPIED_VALUE} => key'[h][e] # DOES_NOT_EXIST
             /\ Tagged(val'[h][e]) => h < last'
  <2>1. h \in Nat
    BY TableFacts
  <2>2. Tagged(val[h][e]) => h < last
    BY DEF Chain
  <2>3. Tagged(val'[h][e]) => h < last'
    BY <1>1, <2>1, <2>2
  <2>4. key[h][e] # DOES_NOT_EXIST =>
          Ends(h, key[h][e], e) /\ \A g \in 1..(h - 1) : Shut(g, key[h][e])
    BY DEF Chain
  <2> QED
    BY <2>3, <2>4, SameTables DEF Chain
<1>4. \A h \in 1..(ht_hti' - 1) : AllDead(h)' /\ num_entries_copied'[h] = Sizes[h]
  BY SameTables DEF Chain
<1> QED
  BY <1>2, <1>3, <1>4 DEF Chain

(* The accounts of a table none of whose entries is copied or counted. *)
LEMMA SameAccounts ==
    ASSUME NEW t \in Threads, NEW h \in Tables, Counted(h),
           UNCHANGED <<val, num_entries_copied>>,
           \A u \in Threads : u # t => th'[u] = th[u],
           Pending(t, h)' = Pending(t, h),
           \A e \in Entries(h) : Won(t, h, e)' <=> Won(t, h, e)
    PROVE  Counted(h)'
<1>1. PICK counted \in SUBSET Entries(h), owner \in [Entries(h) -> Threads \cup {0}] :
        Accounts(h, counted, owner)
  BY DEF Counted
<1>2. \A u \in Threads : Pending(u, h)' = Pending(u, h)
  BY DEF Pending
<1>3. \A u \in Threads : \A e \in Entries(h) : Won(u, h, e)' <=> Won(u, h, e)
  BY DEF Won
<1>4. \A u \in Threads : Owed(u, h, counted, owner)' = Owed(u, h, counted, owner)
  BY <1>3 DEF Owed
<1>5. Accounts(h, counted, owner)'
  BY <1>1, <1>2, <1>3, <1>4 DEF Accounts
<1> QED
  BY <1>1, <1>5 DEF Counted

(* A step that only moves a thread, not to or from the end of a copy. *)
LEMMA QuietKeeps ==
    ASSUME NEW t \in Threads, IInv, Types', last <= last',
           UNCHANGED <<ht_hti, key, val, num_entries_copied>>,
           \A u \in Threads : u # t => th'[u] = th[u] /\ op'[u] = op[u],
           \A h \in Tables : Pending(t, h)' = Pending(t, h),
           th[t].pc # "copy_done", th'[t].pc # "copy_done", ThreadOK(t)'
    PROVE  IInv'
<1>0. Types /\ Chain /\ last' \in Tables
  BY DEF IInv, Types
<1>1. Grow /\ Chain'
  BY <1>0, QuietTables
<1>2. \A u \in Threads : \A h, e : Won(u, h, e)' <=> Won(u, h, e)
  BY DEF Won
<1>3. \A h \in Tables : Counted(h)'
  BY <1>2, SameAccounts DEF IInv
<1>4. \A h \in Tables : SomeoneWon(h)'
  BY <1>2, SameTables DEF IInv, SomeoneWon
<1> QED
  BY <1>1, <1>3, <1>4, StepKeeps

(* What the invariant says of one thread. *)
LEMMA Known ==
    \A t \in Threads : IInv =>
        /\ Types /\ Chain
        /\ LocalOK(t) /\ CallOK(t) /\ EntryOK(t) /\ HelpOK(t) /\ AskedOK(t) /\ CopyOK(t)
        /\ DOMAIN th = Threads /\ DOMAIN th[t] = Fields /\ DOMAIN op = Threads
        /\ last \in Nat \ {0} /\ ht_hti \in Nat \ {0} /\ 1..last \subseteq Tables
        /\ th[t].h \in Nat \ {0} /\ th[t].h <= last /\ th[t].h \in Tables
        /\ th[t].to \in Nat \ {0} /\ th[t].to <= last /\ th[t].to \in Tables
        /\ th[t].iter \in Nat \ {0} /\ th[t].iter <= last /\ th[t].iter \in Tables
<1> TAKE t \in Threads
<1> HAVE IInv
<1>1. Types /\ Chain /\ ThreadOK(t)
  BY DEF IInv
<1>2. LocalOK(t) /\ CallOK(t) /\ EntryOK(t) /\ HelpOK(t) /\ AskedOK(t) /\ CopyOK(t)
  BY <1>1 DEF ThreadOK
<1>3. /\ DOMAIN th = Threads /\ DOMAIN th[t] = Fields /\ DOMAIN op = Threads
      /\ last \in Tables /\ ht_hti \in 1..last
      /\ th[t].h \in 1..last /\ th[t].to \in 1..last /\ th[t].iter \in 1..last
  BY <1>1, <1>2 DEF Types, LocalOK
<1>4. last \in Nat \ {0} /\ 1..last \subseteq Tables
  BY <1>3, TableFacts
<1> QED
  BY <1>1, <1>2, <1>3, <1>4

(* A step that only moves a thread that is not copying, or starts a copy. *)
LEMMA MovesOn ==
    ASSUME NEW t \in Threads, IInv, Types', last <= last',
           UNCHANGED <<ht_hti, key, val, num_entries_copied>>,
           \A u \in Threads : u # t => th'[u] = th[u] /\ op'[u] = op[u],
           th[t].pc \notin Copying \cup {"credit", "help_end"},
           th'[t].pc \notin {"copy_done", "credit"}, th'[t].num_copied = 0,
           LocalOK(t)', CallOK(t)', EntryOK(t)', HelpOK(t)', AskedOK(t)', CopyOK(t)'
    PROVE  IInv'
<1>1. th[t].num_copied = 0
  BY Known DEF LocalOK
<1>2. \A h \in Tables : Pending(t, h)' = Pending(t, h)
  BY <1>1 DEF Pending
<1>3. th[t].pc # "copy_done"
  BY DEF Copying, Placing
<1>4. ThreadOK(t)'
  BY DEF ThreadOK
<1> QED
  BY <1>2, <1>3, <1>4, QuietKeeps

(* A thread that moves on and changes no table keeps the invariant. *)
LEMMA OnlyMoves ==
    ASSUME NEW t \in Threads, IInv,
           UNCHANGED <<ht_hti, last, key, val, copy_scan, num_entries_copied>>,
           DOMAIN th' = Threads, DOMAIN op' = Threads,
           \A u \in Threads : u # t => th'[u] = th[u] /\ op'[u] = op[u],
           th[t].pc \notin Copying \cup {"credit", "help_end"},
           th'[t].pc \notin {"copy_done", "credit"}, th'[t].num_copied = 0,
           LocalOK(t)', CallOK(t)', EntryOK(t)', HelpOK(t)', AskedOK(t)', CopyOK(t)'
    PROVE  IInv'
<1>1. Types' /\ last <= last'
  BY Known DEF Types
<1> QED
  BY <1>1, MovesOn

(* A thread outside of hti_copy_entry knows nothing of a copy. *)
LEMMA Away ==
    \A t \in Threads : th[t].pc \notin Copying \cup {"credit"} => AskedOK(t) /\ CopyOK(t)
  BY DEF AskedOK, CopyOK, Copying, Placing

(* Away from the copy there is nothing to know of it: after a step. *)
LEMMA AwayAfter ==
    \A t \in Threads : th'[t].pc \notin Copying \cup {"credit"} => AskedOK(t)' /\ CopyOK(t)'
  BY DEF AskedOK, CopyOK, Copying, Placing

-----------------------------------------------------------------------------
(* The calls and the helpers, where they write no word *)

(* hti_get or hti_cas goes on with the next table. *)
LEMMA NextTableGoes ==
    \A t \in Threads : Go(t, NextTable(t)) /\ DOMAIN th = Threads /\ DOMAIN th[t] = Fields =>
        /\ DOMAIN th' = Threads /\ DOMAIN th'[t] = Fields
        /\ \A u \in Threads : u # t => th'[u] = th[u]
        /\ th'[t].pc = IF op[t].kind \in {"get", "iterate"} THEN "get" ELSE "cas"
        /\ th'[t].h = th[t].h + 1 /\ th'[t].to = 1 /\ th'[t].num_copied = 0
        /\ \A f \in {"key", "iter", "idx", "x"} : th'[t][f] = th[t][f]
<1> TAKE t \in Threads
<1> HAVE Go(t, NextTable(t)) /\ DOMAIN th = Threads /\ DOMAIN th[t] = Fields
<1>1. DOMAIN NextTable(t) \subseteq Fields
  BY DEF NextTable, With, Forget, Fields
<1>2. /\ DOMAIN th' = Threads /\ DOMAIN th'[t] = Fields
      /\ \A u \in Threads : u # t => th'[u] = th[u]
      /\ \A f \in Fields : th'[t][f] = IF f \in DOMAIN NextTable(t) THEN NextTable(t)[f] ELSE th[t][f]
  BY <1>1, Goes
<1> QED
  BY <1>2 DEF Fields, NextTable, With, Forget

(* hti_help_copy returns. *)
LEMMA HelpGoes ==
    \A t \in Threads, fin \in BOOLEAN : Go(t, HelpReturns(t, fin)) /\ DOMAIN th = Threads /\ DOMAIN th[t] = Fields =>
        /\ DOMAIN th' = Threads /\ DOMAIN th'[t] = Fields
        /\ \A u \in Threads : u # t => th'[u] = th[u]
        /\ op[t].kind = "cas" => /\ th'[t].pc = IF fin THEN "unlink" ELSE "cas"
                                 /\ th'[t].h = th[t].h
        /\ op[t].kind # "cas" => /\ th'[t].pc = IF fin THEN "begin" ELSE "help"
                                 /\ th'[t].h = IF fin THEN th[t].h + 1 ELSE th[t].h
        /\ th'[t].to = 1 /\ th'[t].num_copied = 0
        /\ \A f \in {"key", "iter", "idx", "x"} : th'[t][f] = th[t][f]
<1> TAKE t \in Threads, fin \in BOOLEAN
<1> HAVE Go(t, HelpReturns(t, fin)) /\ DOMAIN th = Threads /\ DOMAIN th[t] = Fields
<1>1. DOMAIN HelpReturns(t, fin) \subseteq Fields
  BY DEF HelpReturns, With, Forget, Fields
<1>2. /\ DOMAIN th' = Threads /\ DOMAIN th'[t] = Fields
      /\ \A u \in Threads : u # t => th'[u] = th[u]
      /\ \A f \in Fields : th'[t][f] = IF f \in DOMAIN HelpReturns(t, fin) THEN HelpReturns(t, fin)[f]
                                       ELSE th[t][f]
  BY <1>1, Goes
<1>3. CASE op[t].kind = "cas"
  BY <1>2, <1>3 DEF Fields, HelpReturns, With, Forget
<1>4. CASE op[t].kind # "cas" /\ fin
  BY <1>2, <1>4 DEF Fields, HelpReturns, With, Forget
<1>5. CASE op[t].kind # "cas" /\ ~fin
  BY <1>2, <1>5 DEF Fields, HelpReturns, With, Forget
<1> QED
  BY <1>3, <1>4, <1>5

(* A call starts, and helps along a copy that is under way. *)
LEMMA HelpStepsKeep ==
    \A t \in Threads :
      /\ IInv
      /\ \/ Begin(t) \/ HelpLoad(t) \/ HelpScan(t) \/ HelpReserve(t)
      => IInv'
<1>BeginKeeps. \A t \in Threads : IInv /\ Begin(t) => IInv'
  <2> TAKE t \in Threads
  <2> HAVE IInv /\ Begin(t)
  <2> DEFINE c == [pc |-> IF th[t].h < last THEN "help"
                          ELSE IF op[t].kind = "cas" THEN "cas" ELSE "iter_ref"]
  <2>1. Go(t, c) /\ th[t].pc = "begin" /\ UNCHANGED <<tables, history>>
    BY DEF Begin, At
  <2>2. /\ DOMAIN th' = Threads /\ DOMAIN th'[t] = Fields
        /\ \A u \in Threads : u # t => th'[u] = th[u]
        /\ \A f \in Fields : th'[t][f] = IF f = "pc" THEN c.pc ELSE th[t][f]
    BY <2>1, Known, Goes DEF Fields
  <2>3. LocalOK(t) /\ CallOK(t)
    BY Known
  <2>4. LocalOK(t)' /\ th'[t].pc \notin Copying \cup {"credit"} /\ th'[t].num_copied = 0
    BY <2>1, <2>2, <2>3 DEF LocalOK, Fields, tables, Copying, Placing
  <2>5. CallOK(t)'
    BY <2>1, <2>2, <2>3, SameTables DEF CallOK, Fields, tables, history, Casing, Helping, Iterating
  <2>6. EntryOK(t)' /\ HelpOK(t)'
    BY <2>1, <2>2, <2>3 DEF EntryOK, HelpOK, Fields, tables, Helping
  <2> QED
    BY <2>1, <2>2, <2>4, <2>5, <2>6, Known, AwayAfter, OnlyMoves DEF tables, history, Copying,
       Placing
<1>HelpLoadKeeps. \A t \in Threads : IInv /\ HelpLoad(t) => IInv'
  <2> TAKE t \in Threads
  <2> HAVE IInv /\ HelpLoad(t)
  <2>1. th[t].pc = "help" /\ UNCHANGED <<tables, history>>
    BY DEF HelpLoad, At
  <2>2. LocalOK(t) /\ CallOK(t) /\ HelpOK(t)
    BY Known
  <2>3. /\ th[t].h < last /\ op[t].kind \in {"cas", "iterate"}
        /\ last \in Nat /\ th[t].h \in Nat \ {0} /\ th[t].h \in Tables
    BY <2>1, <2>2, Known DEF HelpOK, CallOK, Helping
  <2>4. CASE num_entries_copied[th[t].h] = Sizes[th[t].h]
    <3>1. Go(t, HelpReturns(t, TRUE))
      BY <2>4 DEF HelpLoad
    <3>2. /\ DOMAIN th' = Threads /\ DOMAIN th'[t] = Fields
          /\ \A u \in Threads : u # t => th'[u] = th[u]
          /\ op[t].kind = "cas" => th'[t].pc = "unlink" /\ th'[t].h = th[t].h
          /\ op[t].kind # "cas" => th'[t].pc = "begin" /\ th'[t].h = th[t].h + 1
          /\ th'[t].to = 1 /\ th'[t].num_copied = 0
          /\ th'[t].key = th[t].key /\ th'[t].iter = th[t].iter /\ th'[t].idx = th[t].idx
      BY <3>1, Known, HelpGoes
    <3>3. th'[t].pc \notin Copying \cup {"credit"}
      BY <2>3, <3>2 DEF Copying, Placing
    <3>4. LocalOK(t)'
      BY <2>1, <2>2, <2>3, <3>2 DEF LocalOK, tables
    <3>5. CallOK(t)'
      BY <2>1, <2>2, <2>3, <3>2, SameTables DEF CallOK, tables, history, Casing, Helping, Iterating
    <3>6. EntryOK(t)' /\ HelpOK(t)'
      BY <2>1, <2>3, <2>4, <3>2 DEF EntryOK, HelpOK, tables, Helping
    <3> QED
      BY <2>1, <3>2, <3>3, <3>4, <3>5, <3>6, Known, AwayAfter, OnlyMoves DEF tables, history,
         Copying, Placing
  <2>5. CASE num_entries_copied[th[t].h] # Sizes[th[t].h]
    <3>1. Go(t, [pc |-> "help_scan"])
      BY <2>5 DEF HelpLoad
    <3>2. /\ DOMAIN th' = Threads /\ DOMAIN th'[t] = Fields
          /\ \A u \in Threads : u # t => th'[u] = th[u]
          /\ \A f \in Fields : th'[t][f] = IF f = "pc" THEN "help_scan" ELSE th[t][f]
      BY <3>1, Known, Goes DEF Fields
    <3>3. LocalOK(t)' /\ th'[t].pc \notin Copying \cup {"credit"} /\ th'[t].num_copied = 0
      BY <2>1, <2>2, <3>2 DEF LocalOK, Fields, tables, Copying, Placing
    <3>4. CallOK(t)'
      BY <2>1, <2>2, <2>3, <3>2, SameTables DEF CallOK, Fields, tables, history, Casing, Helping,
         Iterating
    <3>5. EntryOK(t)' /\ HelpOK(t)'
      BY <2>1, <2>3, <3>2 DEF EntryOK, HelpOK, Fields, tables, Helping
    <3> QED
      BY <2>1, <3>2, <3>3, <3>4, <3>5, Known, AwayAfter, OnlyMoves DEF tables, history, Copying,
         Placing
  <2> QED
    BY <2>4, <2>5
<1>HelpScanKeeps. \A t \in Threads : IInv /\ HelpScan(t) => IInv'
  <2> TAKE t \in Threads
  <2> HAVE IInv /\ HelpScan(t)
  <2>1. th[t].pc = "help_scan" /\ UNCHANGED <<tables, history>>
    BY DEF HelpScan, At
  <2>2. LocalOK(t) /\ CallOK(t) /\ HelpOK(t) /\ Types
    BY Known
  <2>3. /\ th[t].h < last /\ op[t].kind \in {"cas", "iterate"}
        /\ last \in Nat /\ th[t].h \in Nat \ {0} /\ th[t].h \in Tables
    BY <2>1, <2>2, Known DEF HelpOK, CallOK, Helping
  <2>4. CASE copy_scan[th[t].h] >= 2 * Sizes[th[t].h]
    <3> DEFINE c == With(CopyEntry(1, th[t].h + 1, "help"), [left |-> Sizes[th[t].h], num_copied |-> 0])
    <3>1. Go(t, c)
      BY <2>4 DEF HelpScan
    <3>2. DOMAIN c = {"pc", "from", "to", "then", "left", "num_copied"}
      BY DEF With, CopyEntry
    <3>3. /\ DOMAIN th' = Threads /\ DOMAIN th'[t] = Fields
          /\ \A u \in Threads : u # t => th'[u] = th[u]
          /\ \A f \in Fields : th'[t][f] = IF f \in DOMAIN c THEN c[f] ELSE th[t][f]
      BY <3>1, <3>2, Known, Goes DEF Fields
    <3>4. /\ th'[t].pc = "copy" /\ th'[t].from = 1 /\ th'[t].to = th[t].h + 1 /\ th'[t].then = "help"
          /\ th'[t].left = Sizes[th[t].h] /\ th'[t].num_copied = 0
          /\ th'[t].h = th[t].h /\ th'[t].key = th[t].key /\ th'[t].iter = th[t].iter
          /\ th'[t].idx = th[t].idx
      BY <3>2, <3>3 DEF Fields, With, CopyEntry
    <3>5. LocalOK(t)'
      BY <2>1, <2>2, <2>3, <3>3, <3>4 DEF LocalOK, tables
    <3>6. CallOK(t)'
      BY <2>1, <2>2, <2>3, <3>4, SameTables DEF CallOK, tables, history, Casing, Helping, Iterating
    <3>7. EntryOK(t)' /\ HelpOK(t)'
      BY <3>4 DEF EntryOK, HelpOK, Helping
    <3>8. Sizes[th[t].h] \in Nat \ {0} /\ 1 \in Entries(th[t].h)
      BY <2>3, TableFacts
    <3>9. AskedOK(t)'
      BY <2>1, <2>3, <3>4, <3>8 DEF AskedOK, history
    <3>10. CopyOK(t)'
      BY <2>3, <3>4 DEF CopyOK, Placing
    <3> QED
      BY <2>1, <3>3, <3>4, <3>5, <3>6, <3>7, <3>9, <3>10, Known, OnlyMoves
         DEF tables, history, Copying, Placing
  <2>5. CASE ~(copy_scan[th[t].h] >= 2 * Sizes[th[t].h])
    <3> DEFINE c == [pc |-> "help_reserve", x |-> copy_scan[th[t].h]]
    <3>1. Go(t, c)
      BY <2>5 DEF HelpScan
    <3>2. /\ DOMAIN th' = Threads /\ DOMAIN th'[t] = Fields
          /\ \A u \in Threads : u # t => th'[u] = th[u]
          /\ \A f \in Fields : th'[t][f] = IF f \in DOMAIN c THEN c[f] ELSE th[t][f]
      BY <3>1, Known, Goes DEF Fields
    <3>3. /\ th'[t].pc = "help_reserve" /\ th'[t].x = copy_scan[th[t].h]
          /\ \A f \in Fields \ {"pc", "x"} : th'[t][f] = th[t][f]
      BY <3>2 DEF Fields
    <3>4. LocalOK(t)' /\ th'[t].pc \notin Copying \cup {"credit"} /\ th'[t].num_copied = 0
      BY <2>1, <2>2, <3>2, <3>3 DEF LocalOK, Fields, tables, Copying, Placing
    <3>5. CallOK(t)'
      BY <2>1, <2>2, <2>3, <3>3, SameTables DEF CallOK, Fields, tables, history, Casing, Helping,
         Iterating
    <3>6. /\ copy_scan[th[t].h] \in Nat /\ copy_scan[th[t].h] < 2 * Sizes[th[t].h]
          /\ copy_scan[th[t].h] % ENTRIES_PER_COPY_CHUNK = 0
      <4>1. copy_scan[th[t].h] \in Nat /\ copy_scan[th[t].h] % ENTRIES_PER_COPY_CHUNK = 0
        BY <2>2, <2>3 DEF Types
      <4>2. Sizes[th[t].h] \in Nat
        BY <2>3, TableFacts
      <4> QED
        BY <2>5, <4>1, <4>2
    <3>7. EntryOK(t)' /\ HelpOK(t)'
      BY <2>1, <2>3, <3>3, <3>6 DEF EntryOK, HelpOK, Fields, tables, Helping
    <3> QED
      BY <2>1, <3>2, <3>4, <3>5, <3>7, Known, AwayAfter, OnlyMoves DEF tables, history, Copying,
         Placing
  <2> QED
    BY <2>4, <2>5
<1>HelpReserveKeeps. \A t \in Threads : IInv /\ HelpReserve(t) => IInv'
  <2> TAKE t \in Threads
  <2> HAVE IInv /\ HelpReserve(t)
  <2> DEFINE C == ENTRIES_PER_COPY_CHUNK
             from == (th[t].x % Sizes[th[t].h]) + 1
             c == With(CopyEntry(from, th[t].h + 1, "help"), [left |-> C, num_copied |-> 0, x |-> 0])
  <2>1. /\ th[t].pc = "help_reserve" /\ Go(t, c)
        /\ copy_scan' = [copy_scan EXCEPT ![th[t].h] = th[t].x + C]
        /\ UNCHANGED <<ht_hti, last, key, val, num_entries_copied, op>>
    BY DEF HelpReserve, At, history
  <2>2. LocalOK(t) /\ CallOK(t) /\ HelpOK(t) /\ Types
    BY Known
  <2>3. /\ th[t].h < last /\ op[t].kind \in {"cas", "iterate"}
        /\ last \in Nat /\ th[t].h \in Nat \ {0} /\ th[t].h \in Tables
        /\ th[t].x \in Nat /\ th[t].x < 2 * Sizes[th[t].h] /\ th[t].x % C = 0
    BY <2>1, <2>2, Known DEF HelpOK, CallOK, Helping
  <2>4. Sizes[th[t].h] \in Nat \ {0} /\ Sizes[th[t].h] % C = 0 /\ C \in Nat \ {0}
    BY <2>3, HashtableAssumption
  <2>5. /\ from \in 1..Sizes[th[t].h] /\ from + C <= Sizes[th[t].h] + 1
        /\ th[t].x + C \in Nat /\ (th[t].x + C) % C = 0
    <3>1. /\ (th[t].x % Sizes[th[t].h]) + 1 \in 1..Sizes[th[t].h]
          /\ (th[t].x % Sizes[th[t].h]) + C <= Sizes[th[t].h]
          /\ th[t].x + C \in Nat /\ (th[t].x + C) % C = 0
      BY <2>3, <2>4, ChunkFits
    <3>2. th[t].x % Sizes[th[t].h] \in Nat
      BY <2>3, <2>4
    <3> QED
      BY <2>4, <3>1, <3>2
  <2> HIDE DEF C, from
  <2>6. DOMAIN c = {"pc", "from", "to", "then", "left", "num_copied", "x"}
    BY DEF With, CopyEntry
  <2>7. /\ DOMAIN th' = Threads /\ DOMAIN th'[t] = Fields
        /\ \A u \in Threads : u # t => th'[u] = th[u]
        /\ \A f \in Fields : th'[t][f] = IF f \in DOMAIN c THEN c[f] ELSE th[t][f]
    BY <2>1, <2>6, Known, Goes DEF Fields
  <2>8. /\ th'[t].pc = "copy" /\ th'[t].from = from /\ th'[t].to = th[t].h + 1 /\ th'[t].then = "help"
        /\ th'[t].left = C /\ th'[t].num_copied = 0
        /\ th'[t].h = th[t].h /\ th'[t].key = th[t].key /\ th'[t].iter = th[t].iter
        /\ th'[t].idx = th[t].idx
    BY <2>6, <2>7 DEF Fields, With, CopyEntry
  <2>9. LocalOK(t)'
    BY <2>1, <2>2, <2>3, <2>7, <2>8 DEF LocalOK
  <2>10. CallOK(t)'
    BY <2>1, <2>2, <2>3, <2>8, SameTables DEF CallOK, Casing, Helping, Iterating
  <2>11. EntryOK(t)' /\ HelpOK(t)'
    BY <2>8 DEF EntryOK, HelpOK, Helping
  <2>12. AskedOK(t)'
    BY <2>1, <2>3, <2>4, <2>5, <2>8 DEF AskedOK, Entries
  <2>13. CopyOK(t)'
    BY <2>3, <2>8 DEF CopyOK, Placing
  <2>14. Types'
    <3>1. th[t].x + C < 2 * Sizes[th[t].h] + C
      BY <2>3, <2>4
    <3>2. copy_scan' \in [Tables -> Nat]
      BY <2>1, <2>5, <2>2 DEF Types
    <3>3. \A h \in Tables : copy_scan'[h] < 2 * Sizes[h] + C /\ copy_scan'[h] % C = 0
      BY <2>1, <2>2, <2>3, <2>5, <3>1 DEF Types, C
    <3> QED
      BY <2>1, <2>2, <2>7, <3>2, <3>3, Known DEF Types, C
  <2>15. last <= last'
    BY <2>1, <2>3
  <2> QED
    BY <2>1, <2>7, <2>8, <2>9, <2>10, <2>11, <2>12, <2>13, <2>14, <2>15, MovesOn
       DEF Copying, Placing
<1> QED
  BY <1>BeginKeeps, <1>HelpLoadKeeps, <1>HelpScanKeeps, <1>HelpReserveKeeps

(* A call returns. *)
LEMMA ReturnKeeps ==
    ASSUME NEW t \in Threads, IInv, th[t].pc \notin Copying \cup {"credit", "help_end"},
           th' = [th EXCEPT ![t] = Idle], op' = [op EXCEPT ![t] = NoOp],
           UNCHANGED <<ht_hti, last, key, val, copy_scan, num_entries_copied>>
    PROVE  IInv'
<1>1. /\ DOMAIN th' = Threads /\ DOMAIN op' = Threads /\ th'[t] = Idle /\ op'[t] = NoOp
      /\ \A u \in Threads : u # t => th'[u] = th[u] /\ op'[u] = op[u]
      /\ last \in Nat \ {0}
  BY Known
<1>2. LocalOK(t)' /\ th'[t].num_copied = 0 /\ th'[t].pc = "idle"
  BY <1>1 DEF LocalOK, Idle, Fields
<1>3. CallOK(t)' /\ EntryOK(t)' /\ HelpOK(t)' /\ th'[t].pc \notin Copying \cup {"credit"}
  BY <1>1, <1>2 DEF CallOK, EntryOK, HelpOK, NoOp, Casing, Helping, Iterating, Copying, Placing
<1> QED
  BY <1>1, <1>2, <1>3, AwayAfter, OnlyMoves DEF Copying, Placing

(* ht_get returns, or hands the value to the iterator. *)
LEMMA GetReturnsKeeps ==
    ASSUME NEW t \in Threads, IInv, th[t].pc \in {"get", "get_val"}, NEW v, GetReturns(t, v),
           UNCHANGED <<ht_hti, last, key, val, copy_scan, num_entries_copied>>
    PROVE  IInv'
<1>1. th[t].pc \notin Copying \cup {"credit", "help_end"}
  BY DEF Copying, Placing
<1>2. CASE op[t].kind = "get"
  BY <1>1, <1>2, ReturnKeeps DEF GetReturns, Return
<1>3. CASE op[t].kind # "get"
  <2> DEFINE c == With(Forget, [pc |-> "iter_key", h |-> th[t].iter])
  <2>1. Go(t, c) /\ UNCHANGED op
    BY <1>3 DEF GetReturns
  <2>2. LocalOK(t) /\ CallOK(t)
    BY Known
  <2>3. op[t].kind = "iterate"
    BY <1>3, <2>2 DEF CallOK
  <2>4. DOMAIN c \subseteq Fields
    BY DEF With, Forget, Fields
  <2>5. /\ DOMAIN th' = Threads /\ DOMAIN th'[t] = Fields
        /\ \A u \in Threads : u # t => th'[u] = th[u]
        /\ \A f \in Fields : th'[t][f] = IF f \in DOMAIN c THEN c[f] ELSE th[t][f]
    BY <2>1, <2>4, Known, Goes
  <2>6. /\ th'[t].pc = "iter_key" /\ th'[t].h = th[t].iter /\ th'[t].to = 1 /\ th'[t].num_copied = 0
        /\ th'[t].iter = th[t].iter /\ th'[t].idx = th[t].idx
    BY <2>5 DEF With, Forget, Fields
  <2>7. LocalOK(t)' /\ th'[t].pc \notin Copying \cup {"credit"}
    BY <2>2, <2>5, <2>6, Known DEF LocalOK, Copying, Placing
  <2>8. CallOK(t)' /\ EntryOK(t)' /\ HelpOK(t)'
    BY <2>1, <2>2, <2>3, <2>6 DEF CallOK, EntryOK, HelpOK, Casing, Helping, Iterating
  <2> QED
    BY <1>1, <2>1, <2>5, <2>6, <2>7, <2>8, Known, AwayAfter, OnlyMoves DEF Copying, Placing
<1> QED
  BY <1>2, <1>3

(* A thread at an entry goes on with the next table. *)
LEMMA NextTableKeeps ==
    ASSUME NEW t \in Threads, IInv, Go(t, NextTable(t)),
           th[t].pc \in {"get", "get_val", "cas", "cas_grow", "cas_load"}, th[t].h < last',
           UNCHANGED <<ht_hti, key, val, copy_scan, num_entries_copied, op>>,
           last' \in Tables, last <= last',
           op[t].kind \in {"cas", "remove"} => Over(th[t].h, th[t].key)
    PROVE  IInv'
<1>1. LocalOK(t) /\ CallOK(t) /\ Types
  BY Known
<1>2. /\ DOMAIN th' = Threads /\ DOMAIN th'[t] = Fields
      /\ \A u \in Threads : u # t => th'[u] = th[u]
      /\ th'[t].pc = IF op[t].kind \in {"get", "iterate"} THEN "get" ELSE "cas"
      /\ th'[t].h = th[t].h + 1 /\ th'[t].to = 1 /\ th'[t].num_copied = 0
      /\ th'[t].key = th[t].key /\ th'[t].iter = th[t].iter /\ th'[t].idx = th[t].idx
  BY Known, NextTableGoes
<1>3. th[t].h \in Nat \ {0} /\ last \in Nat \ {0} /\ last' \in Nat \ {0}
  BY Known, TableFacts
<1>4. LocalOK(t)'
  BY <1>1, <1>2, <1>3 DEF LocalOK
<1>5. CallOK(t)'
  <2>1. /\ op[t].kind \in {"get", "iterate"} => th[t].key \in Keys
        /\ op[t].kind \in {"get", "cas", "remove", "iterate"}
        /\ op[t].new_val \in Threads \cup {DOES_NOT_EXIST}
    BY <1>1 DEF CallOK, Casing
  <2>2. op[t].kind \in {"cas", "remove"} => \A g \in 1..th[t].h : Over(g, th[t].key)
    BY <1>1, <1>3 DEF CallOK
  <2>3. op[t].kind \in {"cas", "remove"} => \A g \in 1..(th'[t].h - 1) : Over(g, th[t].key)'
    BY <1>2, <1>3, <2>2, SameTables
  <2>4. op[t].kind \in {"cas", "remove"} => th[t].key \in Keys
    BY <1>1 DEF CallOK
  <2> QED
    BY <1>2, <2>1, <2>3, <2>4 DEF CallOK, Casing, Helping, Iterating
<1>6. EntryOK(t)' /\ HelpOK(t)' /\ th'[t].pc \notin Copying \cup {"credit"}
  BY <1>2 DEF EntryOK, HelpOK, Helping, Copying, Placing
<1>7. th[t].pc \notin Copying \cup {"credit", "help_end"}
  BY DEF Copying, Placing
<1>8. Types'
  BY <1>1, <1>2, <1>3, Known DEF Types
<1> QED
  BY <1>2, <1>4, <1>5, <1>6, <1>7, <1>8, AwayAfter, MovesOn DEF Copying, Placing

(* A call reads the value of an entry, or starts the table after. *)
LEMMA ValueStepsKeep ==
    \A t \in Threads :
      /\ IInv /\ last' \in Tables
      /\ \/ GetVal(t) \/ CasGrow(t) \/ CasLoad(t)
      => IInv'
(* It finds the value in the middle of a copy, and copies it first. *)
<1>CopyFirstKeeps.
      ASSUME NEW t \in Threads, IInv, NEW then, Go(t, CopyEntry(th[t].ent, th[t].h + 1, then)),
             \/ th[t].pc = "get_val" /\ then = "get"
             \/ th[t].pc = "cas_load" /\ then = "cas",
             th[t].h < last, UNCHANGED <<tables, op>>
      PROVE  IInv'
  <2> USE <1>CopyFirstKeeps
  <2>1. LocalOK(t) /\ CallOK(t) /\ EntryOK(t)
    BY Known
  <2>2. /\ DOMAIN th' = Threads /\ DOMAIN th'[t] = Fields
        /\ \A u \in Threads : u # t => th'[u] = th[u]
        /\ \A f \in Fields : th'[t][f] = IF f \in {"pc", "from", "to", "then"}
                                         THEN CopyEntry(th[t].ent, th[t].h + 1, then)[f] ELSE th[t][f]
    BY Known, Goes DEF CopyEntry, Fields
  <2>3. /\ th'[t].pc = "copy" /\ th'[t].from = th[t].ent /\ th'[t].to = th[t].h + 1 /\ th'[t].then = then
        /\ \A f \in {"h", "key", "iter", "idx", "num_copied"} : th'[t][f] = th[t][f]
    BY <2>2 DEF CopyEntry, Fields
  <2>4. th[t].h \in Nat \ {0} /\ last \in Nat \ {0}
    BY Known
  <2>5. th[t].num_copied = 0 /\ th[t].key \in Keys
    BY <2>1 DEF LocalOK, CallOK, Copying, Placing, Casing
  <2>6. LocalOK(t)'
    BY <2>1, <2>2, <2>3, <2>4, <2>5 DEF LocalOK, tables
  <2>7. CallOK(t)'
    BY <2>1, <2>3, SameTables DEF CallOK, tables, Casing, Helping, Iterating
  <2>8. EntryOK(t)' /\ HelpOK(t)'
    BY <2>3 DEF EntryOK, HelpOK, Helping
  <2>9. AskedOK(t)'
    <3>1. th[t].ent \in Entries(th[t].h) /\ key[th[t].h][th[t].ent] = th[t].key
      BY <2>1 DEF EntryOK
    <3>2. /\ th[t].pc = "get_val" => op[t].kind \in {"get", "iterate"}
          /\ th[t].pc = "cas_load" => op[t].kind \in {"cas", "remove"}
      BY <2>1 DEF CallOK, Casing
    <3> QED
      BY <2>3, <2>5, <3>1, <3>2 DEF AskedOK, tables
  <2>10. CopyOK(t)'
    BY <2>3, <2>4 DEF CopyOK, Placing
  <2>11. th[t].pc \notin Copying \cup {"credit", "help_end"}
    BY DEF Copying, Placing
  <2> QED
    BY <2>2, <2>3, <2>5, <2>6, <2>7, <2>8, <2>9, <2>10, <2>11, Known, OnlyMoves DEF tables
(* An entry with the tag is in a table that has a next one. *)
<1>TaggedHasNext.
      \A t \in Threads : IInv /\ th[t].ent \in Entries(th[t].h) /\ IS_TAGGED(val[th[t].h][th[t].ent]) =>
          th[t].h < last
  <2> TAKE t \in Threads
  <2> HAVE IInv /\ th[t].ent \in Entries(th[t].h) /\ IS_TAGGED(val[th[t].h][th[t].ent])
  <2>1. th[t].h \in Tables /\ Types /\ Chain
    BY Known
  <2>2. val[th[t].h][th[t].ent] \in Words
    BY <2>1 DEF Types
  <2>3. Tagged(val[th[t].h][th[t].ent])
    BY <2>2, WordShape
  <2> QED
    BY <2>1, <2>3 DEF Chain
<1>GetValKeeps. \A t \in Threads : IInv /\ GetVal(t) => IInv'
  <2> TAKE t \in Threads
  <2> HAVE IInv /\ GetVal(t)
  <2> DEFINE w == val[th[t].h][th[t].ent]
  <2>1. th[t].pc = "get_val" /\ UNCHANGED <<tables, calls, initial>>
    BY DEF GetVal, At
  <2>2. /\ op[t].kind \in {"get", "iterate"} /\ th[t].ent \in Entries(th[t].h)
        /\ last \in Tables /\ last \in Nat
    BY <2>1, Known DEF CallOK, EntryOK, Types
  <2>3. CASE IS_TAGGED(w) /\ Dead(w) /\ Go(t, NextTable(t)) /\ UNCHANGED <<op, done>>
    <3>1. last <= last' /\ last' \in Tables /\ th[t].h < last'
      BY <2>1, <2>2, <2>3, <1>TaggedHasNext DEF tables
    <3> QED
      BY <2>1, <2>2, <2>3, <3>1, NextTableKeeps DEF tables
  <2>4. CASE /\ IS_TAGGED(w) /\ Go(t, CopyEntry(th[t].ent, th[t].h + 1, "get"))
             /\ UNCHANGED <<op, done>>
    <3>1. th[t].h < last
      BY <2>2, <2>4, <1>TaggedHasNext
    <3> QED
      BY <2>1, <2>4, <3>1, <1>CopyFirstKeeps
  <2>5. CASE ~IS_TAGGED(w) /\ GetReturns(t, Value(w))
    BY <2>1, <2>5, GetReturnsKeeps DEF tables
  <2> QED
    BY <2>3, <2>4, <2>5 DEF GetVal
(* Of the threads that want to grow the table, one does. *)
<1>CasGrowKeeps. \A t \in Threads : IInv /\ CasGrow(t) /\ last' \in Tables => IInv'
  <2> TAKE t \in Threads
  <2> HAVE IInv /\ CasGrow(t) /\ last' \in Tables
  <2>1. /\ th[t].pc = "cas_grow" /\ last' = IF last = th[t].h THEN th[t].h + 1 ELSE last
        /\ Go(t, NextTable(t))
        /\ UNCHANGED <<ht_hti, key, val, copy_scan, num_entries_copied, op>>
    BY DEF CasGrow, At, StartCopy, history
  <2>2. th[t].h \in Nat /\ last \in Nat /\ th[t].h <= last
    BY Known
  <2>3. last <= last' /\ th[t].h < last'
    BY <2>1, <2>2
  <2>4. NoRoom(th[t].h, th[t].key)
    BY <2>1, Known DEF EntryOK
  <2>5. Over(th[t].h, th[t].key)
    BY <2>4 DEF Over
  <2> QED
    BY <2>1, <2>3, <2>5, NextTableKeeps
<1>CasLoadKeeps. \A t \in Threads : IInv /\ CasLoad(t) => IInv'
  <2> TAKE t \in Threads
  <2> HAVE IInv /\ CasLoad(t)
  <2> DEFINE w == val[th[t].h][th[t].ent]
  <2>1. th[t].pc = "cas_load" /\ UNCHANGED <<tables, calls, initial>>
    BY DEF CasLoad, At
  <2>2. LocalOK(t) /\ CallOK(t) /\ EntryOK(t) /\ Types
    BY Known
  <2>3. /\ th[t].ent \in Entries(th[t].h) /\ key[th[t].h][th[t].ent] = th[t].key
        /\ th[t].h \in Tables /\ last \in Tables /\ last \in Nat
    BY <2>1, <2>2, Known DEF EntryOK, Types
  <2>4. CASE IS_TAGGED(w) /\ Dead(w) /\ Go(t, NextTable(t)) /\ UNCHANGED <<op, done>>
    <3>1. Over(th[t].h, th[t].key)
      BY <2>3, <2>4 DEF Over
    <3>2. last <= last' /\ last' \in Tables /\ th[t].h < last'
      BY <2>1, <2>3, <2>4, <1>TaggedHasNext DEF tables
    <3> QED
      BY <2>1, <2>4, <3>1, <3>2, NextTableKeeps DEF tables
  <2>5. CASE /\ IS_TAGGED(w) /\ Go(t, CopyEntry(th[t].ent, th[t].h + 1, "cas"))
             /\ UNCHANGED <<op, done>>
    <3>1. th[t].h < last
      BY <2>3, <2>5, <1>TaggedHasNext
    <3> QED
      BY <2>1, <2>5, <3>1, <1>CopyFirstKeeps
  <2>6. CASE Return(t, Value(w))
    BY <2>1, <2>6, ReturnKeeps DEF Return, tables, Copying, Placing
  <2>7. CASE ~IS_TAGGED(w) /\ Go(t, [pc |-> "cas_val", ent_val |-> w]) /\ UNCHANGED <<op, done>>
    <3>1. w \in Words
      BY <2>2, <2>3 DEF Types
    <3>2. w \in {Plain(v) : v \in Values}
      BY <2>7, <3>1, WordShape
    <3>3. /\ DOMAIN th' = Threads /\ DOMAIN th'[t] = Fields
          /\ \A u \in Threads : u # t => th'[u] = th[u]
          /\ th'[t].pc = "cas_val" /\ th'[t].ent_val = w
          /\ \A f \in Fields \ {"pc", "ent_val"} : th'[t][f] = th[t][f]
      BY <2>7, Known, Goes DEF Fields
    <3>4. LocalOK(t)' /\ th'[t].pc \notin Copying \cup {"credit"} /\ th'[t].num_copied = 0
      BY <2>1, <2>2, <3>3 DEF LocalOK, Fields, tables, Copying, Placing
    <3>5. CallOK(t)'
      BY <2>1, <2>2, <2>7, <3>3, SameTables DEF CallOK, Fields, tables, Casing, Helping, Iterating
    <3>6. EntryOK(t)' /\ HelpOK(t)'
      BY <2>1, <2>3, <3>2, <3>3 DEF EntryOK, HelpOK, Fields, tables, Helping
    <3> QED
      BY <2>1, <2>7, <3>3, <3>4, <3>5, <3>6, Known, AwayAfter, OnlyMoves DEF tables, Copying,
         Placing
  <2> QED
    BY <2>4, <2>5, <2>6, <2>7 DEF CasLoad
<1> QED
  BY <1>GetValKeeps, <1>CasGrowKeeps, <1>CasLoadKeeps

(* A call begins; an iterator walks its table; a table is given up. *)
LEMMA CallStepsKeep ==
    \A t \in Threads :
      /\ IInv
      /\ \/ ht_get(t) \/ ht_cas(t) \/ ht_remove(t) \/ ht_iter_begin(t) \/ Release(t) \/ IterRef(t)
         \/ IterKey(t) \/ IterVal(t) \/ IterFree(t)
      => IInv'
<1>ReleaseKeeps. \A t \in Threads : IInv /\ Release(t) => IInv'
  <2> TAKE t \in Threads
  <2> HAVE IInv /\ Release(t)
  <2>1. /\ th[t].pc = "release" /\ Go(t, [pc |-> "cas"])
        /\ UNCHANGED <<ht_hti, last, key, val, copy_scan, num_entries_copied, op>>
    BY DEF Release, At, history
  <2>2. LocalOK(t) /\ CallOK(t)
    BY Known
  <2>3. /\ DOMAIN th' = Threads /\ DOMAIN th'[t] = Fields
        /\ \A u \in Threads : u # t => th'[u] = th[u]
        /\ \A f \in Fields : th'[t][f] = IF f = "pc" THEN "cas" ELSE th[t][f]
    BY <2>1, Known, Goes DEF Fields
  <2>4. LocalOK(t)' /\ th'[t].pc \notin Copying \cup {"credit"} /\ th'[t].num_copied = 0
    BY <2>1, <2>2, <2>3 DEF LocalOK, Fields, Copying, Placing
  <2>5. CallOK(t)' /\ EntryOK(t)' /\ HelpOK(t)'
    BY <2>1, <2>2, <2>3, SameTables DEF CallOK, EntryOK, HelpOK, Fields, Casing, Helping, Iterating
  <2> QED
    BY <2>1, <2>3, <2>4, <2>5, Known, AwayAfter, OnlyMoves DEF Copying, Placing
<1>IterRefKeeps. \A t \in Threads : IInv /\ IterRef(t) => IInv'
  <2> TAKE t \in Threads
  <2> HAVE IInv /\ IterRef(t)
  <2>1. /\ th[t].pc = "iter_ref"
        /\ UNCHANGED <<ht_hti, last, key, val, copy_scan, num_entries_copied, op>>
    BY DEF IterRef, At, history
  <2>2. LocalOK(t) /\ CallOK(t) /\ ht_hti \in 1..last
    BY Known DEF Types
  <2>3. op[t].kind = "iterate"
    BY <2>1, <2>2 DEF CallOK, Iterating
  <2>4. th[t].pc \notin Copying \cup {"credit", "help_end"}
    BY <2>1 DEF Copying, Placing
  <2>5. CASE Go(t, [pc |-> "begin", h |-> ht_hti])
    <3>1. /\ DOMAIN th' = Threads /\ DOMAIN th'[t] = Fields
          /\ \A u \in Threads : u # t => th'[u] = th[u]
          /\ th'[t].pc = "begin" /\ th'[t].h = ht_hti
          /\ \A f \in Fields \ {"pc", "h"} : th'[t][f] = th[t][f]
      BY <2>5, Known, Goes DEF Fields
    <3>2. LocalOK(t)' /\ th'[t].pc \notin Copying \cup {"credit"} /\ th'[t].num_copied = 0
      BY <2>1, <2>2, <2>4, <3>1 DEF LocalOK, Fields, Copying, Placing
    <3>3. CallOK(t)' /\ EntryOK(t)' /\ HelpOK(t)'
      BY <2>1, <2>2, <2>3, <3>1 DEF CallOK, EntryOK, HelpOK, Casing, Helping, Iterating
    <3> QED
      BY <2>1, <2>4, <3>1, <3>2, <3>3, Known, AwayAfter, OnlyMoves DEF Copying, Placing
  <2>6. CASE Go(t, [pc |-> "iter_key", iter |-> th[t].h])
    <3>1. /\ DOMAIN th' = Threads /\ DOMAIN th'[t] = Fields
          /\ \A u \in Threads : u # t => th'[u] = th[u]
          /\ th'[t].pc = "iter_key" /\ th'[t].iter = th[t].h
          /\ \A f \in Fields \ {"pc", "iter"} : th'[t][f] = th[t][f]
      BY <2>6, Known, Goes DEF Fields
    <3>2. LocalOK(t)' /\ th'[t].pc \notin Copying \cup {"credit"} /\ th'[t].num_copied = 0
      BY <2>1, <2>2, <2>4, <3>1 DEF LocalOK, Fields, Copying, Placing
    <3>3. CallOK(t)' /\ EntryOK(t)' /\ HelpOK(t)'
      BY <2>1, <2>2, <2>3, <3>1 DEF CallOK, EntryOK, HelpOK, Casing, Helping, Iterating
    <3> QED
      BY <2>1, <2>4, <3>1, <3>2, <3>3, Known, AwayAfter, OnlyMoves DEF Copying, Placing
  <2> QED
    BY <2>5, <2>6 DEF IterRef
<1>IterKeyKeeps. \A t \in Threads : IInv /\ IterKey(t) => IInv'
  <2> TAKE t \in Threads
  <2> HAVE IInv /\ IterKey(t)
  <2> DEFINE i == th[t].idx + 1
             k == key[th[t].iter][i]
  <2>1. th[t].pc = "iter_key" /\ UNCHANGED <<tables, history>>
    BY DEF IterKey, At
  <2>2. LocalOK(t) /\ CallOK(t) /\ Types
    BY Known
  <2>3. op[t].kind = "iterate" /\ th[t].iter \in Tables /\ i \in Nat \ {0}
    BY <2>1, <2>2, Known DEF CallOK, Iterating, LocalOK
  <2>4. th[t].pc \notin Copying \cup {"credit", "help_end"}
    BY <2>1 DEF Copying, Placing
  <2>5. CASE i > Sizes[th[t].iter]
    <3>1. Go(t, [pc |-> "iter_free"])
      BY <2>5 DEF IterKey
    <3>2. /\ DOMAIN th' = Threads /\ DOMAIN th'[t] = Fields
          /\ \A u \in Threads : u # t => th'[u] = th[u]
          /\ th'[t].pc = "iter_free"
          /\ \A f \in Fields \ {"pc"} : th'[t][f] = th[t][f]
      BY <3>1, Known, Goes DEF Fields
    <3>3. LocalOK(t)' /\ th'[t].pc \notin Copying \cup {"credit"} /\ th'[t].num_copied = 0
      BY <2>1, <2>2, <2>4, <3>2 DEF LocalOK, Fields, Copying, Placing, tables
    <3>4. CallOK(t)' /\ EntryOK(t)' /\ HelpOK(t)'
      BY <2>1, <2>2, <2>3, <3>2 DEF CallOK, EntryOK, HelpOK, Casing, Helping, Iterating, history
    <3> QED
      BY <2>1, <2>4, <3>2, <3>3, <3>4, Known, AwayAfter, OnlyMoves DEF Copying, Placing, tables,
         history
  <2>6. CASE ~(i > Sizes[th[t].iter])
    <3> DEFINE pc == IF k = DOES_NOT_EXIST THEN "iter_key" ELSE "iter_val"
    <3>1. Go(t, [pc |-> pc, idx |-> i, key |-> k])
      BY <2>6 DEF IterKey
    <3>2. i \in Entries(th[t].iter)
      BY <2>3, <2>6, TableFacts
    <3>3. k \in Keys \cup {DOES_NOT_EXIST}
      BY <2>2, <2>3, <3>2 DEF Types
    <3>4. /\ DOMAIN th' = Threads /\ DOMAIN th'[t] = Fields
          /\ \A u \in Threads : u # t => th'[u] = th[u]
          /\ th'[t].pc = pc /\ th'[t].idx = i /\ th'[t].key = k
          /\ \A f \in Fields \ {"pc", "idx", "key"} : th'[t][f] = th[t][f]
      BY <3>1, Known, Goes DEF Fields
    <3>5. LocalOK(t)' /\ th'[t].pc \notin Copying \cup {"credit"} /\ th'[t].num_copied = 0
      BY <2>1, <2>2, <2>3, <2>4, <3>4 DEF LocalOK, Fields, Copying, Placing, tables
    <3>6. CallOK(t)' /\ EntryOK(t)' /\ HelpOK(t)'
      BY <2>1, <2>2, <2>3, <3>2, <3>3, <3>4
         DEF CallOK, EntryOK, HelpOK, Casing, Helping, Iterating, history, tables, Fields
    <3> QED
      BY <2>1, <2>4, <3>4, <3>5, <3>6, Known, AwayAfter, OnlyMoves DEF Copying, Placing, tables,
         history
  <2> QED
    BY <2>5, <2>6
<1>IterValKeeps. \A t \in Threads : IInv /\ IterVal(t) => IInv'
  <2> TAKE t \in Threads
  <2> HAVE IInv /\ IterVal(t)
  <2>1. th[t].pc = "iter_val" /\ UNCHANGED <<tables, history>>
    BY DEF IterVal, At
  <2>2. LocalOK(t) /\ CallOK(t) /\ EntryOK(t) /\ Types /\ Chain
    BY Known
  <2>3. /\ op[t].kind = "iterate" /\ th[t].iter \in Tables /\ th[t].iter \in Nat \ {0} /\ last \in Nat
        /\ th[t].idx \in Entries(th[t].iter) /\ th[t].key \in Keys
    BY <2>1, <2>2, Known DEF CallOK, Iterating, EntryOK
  <2>4. th[t].pc \notin Copying \cup {"credit", "help_end"}
    BY <2>1 DEF Copying, Placing
  <2>5. CASE val[th[t].iter][th[t].idx] = COPIED_VALUE
    <3>1. Go(t, [pc |-> "get", h |-> th[t].iter + 1])
      BY <2>5 DEF IterVal
    <3>2. th[t].iter < last
      BY <2>2, <2>3, <2>5, WordNames DEF Chain
    <3>3. /\ DOMAIN th' = Threads /\ DOMAIN th'[t] = Fields
          /\ \A u \in Threads : u # t => th'[u] = th[u]
          /\ th'[t].pc = "get" /\ th'[t].h = th[t].iter + 1
          /\ \A f \in Fields \ {"pc", "h"} : th'[t][f] = th[t][f]
      BY <3>1, Known, Goes DEF Fields
    <3>4. LocalOK(t)' /\ th'[t].pc \notin Copying \cup {"credit"} /\ th'[t].num_copied = 0
      BY <2>1, <2>2, <2>3, <2>4, <3>2, <3>3 DEF LocalOK, Fields, Copying, Placing, tables
    <3>5. CallOK(t)' /\ EntryOK(t)' /\ HelpOK(t)'
      BY <2>1, <2>2, <2>3, <3>3 DEF CallOK, EntryOK, HelpOK, Casing, Helping, Iterating, history,
         Fields
    <3> QED
      BY <2>1, <2>4, <3>3, <3>4, <3>5, Known, AwayAfter, OnlyMoves DEF Copying, Placing, tables,
         history
  <2>6. CASE val[th[t].iter][th[t].idx] # COPIED_VALUE
    <3>1. Go(t, [pc |-> "iter_key"])
      BY <2>6 DEF IterVal
    <3>2. /\ DOMAIN th' = Threads /\ DOMAIN th'[t] = Fields
          /\ \A u \in Threads : u # t => th'[u] = th[u]
          /\ th'[t].pc = "iter_key"
          /\ \A f \in Fields \ {"pc"} : th'[t][f] = th[t][f]
      BY <3>1, Known, Goes DEF Fields
    <3>3. LocalOK(t)' /\ th'[t].pc \notin Copying \cup {"credit"} /\ th'[t].num_copied = 0
      BY <2>1, <2>2, <2>4, <3>2 DEF LocalOK, Fields, Copying, Placing, tables
    <3>4. CallOK(t)' /\ EntryOK(t)' /\ HelpOK(t)'
      BY <2>1, <2>2, <2>3, <3>2 DEF CallOK, EntryOK, HelpOK, Casing, Helping, Iterating, history
    <3> QED
      BY <2>1, <2>4, <3>2, <3>3, <3>4, Known, AwayAfter, OnlyMoves DEF Copying, Placing, tables,
         history
  <2> QED
    BY <2>5, <2>6
<1>IterFreeKeeps. \A t \in Threads : IInv /\ IterFree(t) => IInv'
  <2> TAKE t \in Threads
  <2> HAVE IInv /\ IterFree(t)
  <2>1. th[t].pc \notin Copying \cup {"credit", "help_end"}
    BY DEF IterFree, At, Copying, Placing
  <2> QED
    BY <2>1, ReturnKeeps DEF IterFree
(* A call starts at ht->hti; the tables before it are dead. *)
<1>CallKeeps.
      ASSUME NEW t \in Threads, IInv, NEW kind, NEW k, NEW x, NEW v, NEW pc, Call(t, kind, k, x, v, pc),
             \/ kind = "get" /\ pc = "get" /\ k \in Keys
             \/ kind = "cas" /\ pc = "begin" /\ k \in Keys
             \/ kind = "remove" /\ pc = "cas" /\ k \in Keys
             \/ kind = "iterate" /\ pc = "begin",
             v \in Threads \cup {DOES_NOT_EXIST}
      PROVE  IInv'
  <2> USE <1>CallKeeps
  <2>1. /\ th[t].pc = "idle" /\ Go(t, [pc |-> pc, key |-> k, h |-> ht_hti])
        /\ UNCHANGED <<ht_hti, last, key, val, copy_scan, num_entries_copied>>
    BY DEF Call, At, tables
  <2>2. LocalOK(t) /\ Types /\ Chain /\ ht_hti \in 1..last
    BY Known DEF Types
  <2>3. /\ DOMAIN op' = Threads /\ \A u \in Threads : u # t => op'[u] = op[u]
        /\ op'[t].kind = kind /\ op'[t].new_val = v
    BY Known DEF Call
  <2>4. /\ DOMAIN th' = Threads /\ DOMAIN th'[t] = Fields
        /\ \A u \in Threads : u # t => th'[u] = th[u]
        /\ th'[t].pc = pc /\ th'[t].key = k /\ th'[t].h = ht_hti
        /\ \A f \in Fields \ {"pc", "key", "h"} : th'[t][f] = th[t][f]
    BY <2>1, Known, Goes DEF Fields
  <2>5. th[t].pc \notin Copying \cup {"credit", "help_end"}
    BY <2>1 DEF Copying, Placing
  <2>6. LocalOK(t)' /\ th'[t].pc \notin Copying \cup {"credit"} /\ th'[t].num_copied = 0
    BY <2>1, <2>2, <2>4, <2>5 DEF LocalOK, Fields, Copying, Placing
  <2>7. \A g \in 1..(ht_hti - 1) : Over(g, k)
    BY <2>2 DEF Chain, Over
  <2>8. \A g \in 1..(ht_hti' - 1) : Over(g, k)'
    BY <2>1, <2>7, SameTables
  <2>9. CallOK(t)'
    BY <2>1, <2>3, <2>4, <2>8 DEF CallOK, Casing, Helping, Iterating
  <2>10. EntryOK(t)' /\ HelpOK(t)'
    BY <2>4 DEF EntryOK, HelpOK, Helping
  <2> QED
    BY <2>1, <2>3, <2>4, <2>5, <2>6, <2>9, <2>10, AwayAfter, OnlyMoves DEF Copying, Placing
<1>CallsKeep.
      \A t \in Threads : IInv /\ (ht_get(t) \/ ht_cas(t) \/ ht_remove(t) \/ ht_iter_begin(t)) => IInv'
  <2> TAKE t \in Threads
  <2> HAVE IInv /\ (ht_get(t) \/ ht_cas(t) \/ ht_remove(t) \/ ht_iter_begin(t))
  <2>1. CASE ht_get(t)
    BY <2>1, <1>CallKeeps DEF ht_get
  <2>2. CASE ht_cas(t)
    BY <2>2, <1>CallKeeps DEF ht_cas
  <2>3. CASE ht_remove(t)
    BY <2>3, <1>CallKeeps DEF ht_remove
  <2>4. CASE ht_iter_begin(t)
    BY <2>4, <1>CallKeeps DEF ht_iter_begin
  <2> QED
    BY <2>1, <2>2, <2>3, <2>4
<1> QED
  BY <1>ReleaseKeeps, <1>IterRefKeeps, <1>IterKeyKeeps, <1>IterValKeeps, <1>IterFreeKeeps,
     <1>CallsKeep

-----------------------------------------------------------------------------
(* The copy of an entry, where it writes no word *)

(* The locals after hti_copy_entry returned. *)
LEMMA CopyReturnsGoes ==
    \A t \in Threads, did \in BOOLEAN : Go(t, CopyReturns(t, did)) /\ DOMAIN th = Threads /\ DOMAIN th[t] = Fields =>
        /\ DOMAIN th' = Threads /\ DOMAIN th'[t] = Fields
        /\ \A u \in Threads : u # t => th'[u] = th[u]
        /\ \A f \in {"key", "iter", "idx", "x"} : th'[t][f] = th[t][f]
        /\ th[t].then = "help" =>
             /\ th'[t].num_copied = th[t].num_copied + (IF did THEN 1 ELSE 0)
             /\ th'[t].left = th[t].left - 1 /\ th'[t].h = th[t].h /\ th'[t].then = "help"
             /\ th[t].left = 1 => th'[t].pc = "help_end" /\ th'[t].to = th[t].to
             /\ th[t].left # 1 => /\ th'[t].pc = "copy" /\ th'[t].to = th[t].h + 1
                                  /\ th'[t].from = th[t].from + 1
        /\ th[t].then # "help" /\ did =>
             /\ th'[t].pc = "credit"
             /\ \A f \in Fields \ {"pc"} : th'[t][f] = th[t][f]
        /\ th[t].then # "help" /\ ~did =>
             /\ th'[t].pc = IF op[t].kind \in {"get", "iterate"} THEN "get" ELSE "cas"
             /\ th'[t].h = th[t].h + 1 /\ th'[t].to = 1 /\ th'[t].num_copied = 0
<1> TAKE t \in Threads, did \in BOOLEAN
<1> HAVE Go(t, CopyReturns(t, did)) /\ DOMAIN th = Threads /\ DOMAIN th[t] = Fields
<1>1. CASE th[t].then = "help" /\ th[t].left = 1
  <2> DEFINE c == With([pc |-> "help_end"], [num_copied |-> th[t].num_copied + (IF did THEN 1 ELSE 0),
                                             left |-> th[t].left - 1])
  <2>1. Go(t, c)
    BY <1>1 DEF CopyReturns
  <2>2. DOMAIN c = {"pc", "num_copied", "left"}
    BY DEF With
  <2>3. /\ DOMAIN th' = Threads /\ DOMAIN th'[t] = Fields
        /\ \A u \in Threads : u # t => th'[u] = th[u]
        /\ \A f \in Fields : th'[t][f] = IF f \in DOMAIN c THEN c[f] ELSE th[t][f]
    BY <2>1, <2>2, Goes DEF Fields
  <2> QED
    BY <1>1, <2>2, <2>3 DEF Fields, With
<1>2. CASE th[t].then = "help" /\ th[t].left # 1
  <2> DEFINE c == With(CopyEntry(th[t].from + 1, th[t].h + 1, "help"),
                       [num_copied |-> th[t].num_copied + (IF did THEN 1 ELSE 0),
                        left |-> th[t].left - 1])
  <2>1. Go(t, c)
    BY <1>2 DEF CopyReturns
  <2>2. DOMAIN c = {"pc", "from", "to", "then", "num_copied", "left"}
    BY DEF With, CopyEntry
  <2>3. /\ DOMAIN th' = Threads /\ DOMAIN th'[t] = Fields
        /\ \A u \in Threads : u # t => th'[u] = th[u]
        /\ \A f \in Fields : th'[t][f] = IF f \in DOMAIN c THEN c[f] ELSE th[t][f]
    BY <2>1, <2>2, Goes DEF Fields
  <2> QED
    BY <1>2, <2>2, <2>3 DEF Fields, With, CopyEntry
<1>3. CASE th[t].then # "help" /\ did
  <2>1. Go(t, [pc |-> "credit"])
    BY <1>3 DEF CopyReturns
  <2> QED
    BY <1>3, <2>1, Goes DEF Fields
<1>4. CASE th[t].then # "help" /\ ~did
  <2>1. Go(t, NextTable(t))
    BY <1>4 DEF CopyReturns
  <2> QED
    BY <1>4, <2>1, NextTableGoes
<1> QED
  BY <1>1, <1>2, <1>3, <1>4

(* More of the chunk is left. *)
LEMMA ChunkGoesOn ==
    \A from \in Nat, left \in Nat \ {0}, n \in Nat : from >= 1 /\ left # 1 /\ from + left <= n + 1 =>
        /\ left - 1 \in Nat \ {0} /\ from + 1 \in 1..n
        /\ (from + 1) + (left - 1) <= n + 1
  OBVIOUS

(* It returned from an entry that is dead now. *)
LEMMA CopyReturned ==
    ASSUME NEW t \in Threads, IInv, th[t].pc \in Copying, NEW did \in BOOLEAN,
           Go(t, CopyReturns(t, did)), Types', Chain', Grow, op' = op, last' = last,
           Dead(val'[th[t].h][th[t].from])
    PROVE  /\ ThreadOK(t)'
           /\ DOMAIN th' = Threads /\ \A u \in Threads : u # t => th'[u] = th[u]
           /\ th'[t].pc # "copy_done"
           /\ \A g \in Tables : g # th[t].h => Pending(t, g) = 0 /\ Pending(t, g)' = 0
           /\ \A g \in Tables : g = th[t].h =>
                /\ Pending(t, g) \in Nat
                /\ Pending(t, g)' = Pending(t, g) + (IF did THEN 1 ELSE 0)
<1>1. /\ DOMAIN th' = Threads /\ DOMAIN th'[t] = Fields
      /\ \A u \in Threads : u # t => th'[u] = th[u]
      /\ th'[t].key = th[t].key /\ th'[t].iter = th[t].iter /\ th'[t].idx = th[t].idx
  BY Known, CopyReturnsGoes
<1>2. LocalOK(t) /\ CallOK(t) /\ AskedOK(t) /\ CopyOK(t) /\ Chain
  BY Known
<1>3. /\ th[t].h \in Nat \ {0} /\ th[t].h \in Tables /\ th[t].to <= last /\ th[t].to \in Nat
      /\ last \in Nat \ {0} /\ th[t].h < th[t].to /\ th[t].h < last
      /\ th[t].from \in Entries(th[t].h) /\ th[t].num_copied \in Nat /\ th[t].pc # "credit"
  <2>1. /\ th[t].h \in Nat \ {0} /\ th[t].h \in Tables /\ th[t].to <= last /\ th[t].to \in Nat
        /\ last \in Nat \ {0}
    BY Known
  <2>2. th[t].h < th[t].to
    BY <1>2 DEF CopyOK
  <2>3. th[t].from \in Entries(th[t].h) /\ th[t].num_copied \in Nat /\ th[t].pc # "credit"
    BY <1>2 DEF AskedOK, LocalOK, Copying, Placing
  <2> QED
    BY <2>1, <2>2, <2>3
<1>4. th[t].key \in Keys => \A g \in 1..(th[t].h - 1) : Over(g, th[t].key) => Over(g, th[t].key)'
  <2>1. \A g \in 1..(th[t].h - 1) : g \in Tables
    BY <1>3, TableFacts
  <2> QED
    BY <1>1, <2>1, GrowKeeps
<1>5. CASE th[t].then = "help" /\ th[t].left = 1
  <2>1. /\ th'[t].num_copied = th[t].num_copied + (IF did THEN 1 ELSE 0)
        /\ th'[t].h = th[t].h /\ th'[t].then = "help" /\ th'[t].pc = "help_end"
        /\ th'[t].to = th[t].to /\ op[t].kind \in {"cas", "iterate"}
    BY <1>2, <1>5, Known, CopyReturnsGoes DEF AskedOK, Copying, Placing
  <2>2. LocalOK(t)'
    BY <1>1, <1>2, <1>3, <2>1 DEF LocalOK
  <2>3. CallOK(t)'
    BY <1>1, <1>2, <1>4, <2>1 DEF CallOK, Casing, Helping, Iterating, Copying, Placing
  <2>4. EntryOK(t)' /\ HelpOK(t)' /\ th'[t].pc \notin Copying \cup {"credit"}
    BY <1>3, <2>1 DEF EntryOK, HelpOK, Helping, Copying, Placing
  <2>5. ThreadOK(t)'
    BY <2>2, <2>3, <2>4, AwayAfter DEF ThreadOK
  <2> QED
    BY <1>1, <1>3, <2>1, <2>5 DEF Pending
<1>6. CASE th[t].then = "help" /\ th[t].left # 1
  <2>1. /\ th'[t].num_copied = th[t].num_copied + (IF did THEN 1 ELSE 0)
        /\ th'[t].h = th[t].h /\ th'[t].then = "help" /\ th'[t].pc = "copy"
        /\ th'[t].to = th[t].h + 1 /\ th'[t].from = th[t].from + 1 /\ th'[t].left = th[t].left - 1
    BY <1>6, Known, CopyReturnsGoes
  <2>2. /\ th[t].left \in Nat \ {0} /\ th[t].from + th[t].left <= Sizes[th[t].h] + 1
        /\ op[t].kind \in {"cas", "iterate"}
    BY <1>2, <1>6 DEF AskedOK, Copying, Placing
  <2>3. Entries(th[t].h) = 1..Sizes[th[t].h] /\ Sizes[th[t].h] \in Nat
    BY <1>3, TableFacts
  <2>4. LocalOK(t)'
    BY <1>1, <1>2, <1>3, <2>1 DEF LocalOK, Copying
  <2>5. CallOK(t)'
    BY <1>1, <1>2, <1>4, <2>1, <2>2 DEF CallOK, Casing, Helping, Iterating, Copying, Placing
  <2>6. EntryOK(t)' /\ HelpOK(t)'
    BY <2>1 DEF EntryOK, HelpOK, Helping
  <2>7. /\ th[t].left - 1 \in Nat \ {0} /\ th[t].from + 1 \in Entries(th[t].h)
        /\ (th[t].from + 1) + (th[t].left - 1) <= Sizes[th[t].h] + 1
    <3>1. th[t].from \in Nat /\ th[t].from >= 1 /\ th[t].left # 1
      BY <1>3, <1>6, <2>3
    <3>2. th[t].left \in Nat \ {0} /\ th[t].from + th[t].left <= Sizes[th[t].h] + 1
      BY <2>2
    <3>3. /\ th[t].left - 1 \in Nat \ {0} /\ th[t].from + 1 \in 1..Sizes[th[t].h]
          /\ (th[t].from + 1) + (th[t].left - 1) <= Sizes[th[t].h] + 1
      BY <2>3, <3>1, <3>2, ChunkGoesOn
    <3> QED
      BY <2>3, <3>3
  <2>8. AskedOK(t)'
    BY <2>1, <2>2, <2>7 DEF AskedOK
  <2>9. CopyOK(t)'
    BY <1>3, <2>1 DEF CopyOK, Placing
  <2>10. ThreadOK(t)'
    BY <2>4, <2>5, <2>6, <2>8, <2>9 DEF ThreadOK
  <2> QED
    BY <1>1, <1>3, <2>1, <2>10 DEF Pending
<1>7. ASSUME th[t].then # "help"
      PROVE  /\ th[t].num_copied = 0 /\ th[t].key \in Keys /\ key[th[t].h][th[t].from] = th[t].key
             /\ \/ th[t].then = "get" /\ op[t].kind \in {"get", "iterate"}
                \/ th[t].then = "cas" /\ op[t].kind \in {"cas", "remove"}
             /\ key'[th[t].h][th[t].from] = th[t].key
  <2>1. /\ th[t].num_copied = 0 /\ th[t].key \in Keys /\ key[th[t].h][th[t].from] = th[t].key
        /\ \/ th[t].then = "get" /\ op[t].kind \in {"get", "iterate"}
           \/ th[t].then = "cas" /\ op[t].kind \in {"cas", "remove"}
    BY <1>2, <1>7 DEF LocalOK, AskedOK
  <2>2. key'[th[t].h][th[t].from] = th[t].key
    <3>1. key[th[t].h][th[t].from] # DOES_NOT_EXIST
      BY <2>1, HashtableAssumption
    <3> QED
      BY <1>3, <2>1, <3>1 DEF Grow
  <2> QED
    BY <2>1, <2>2
<1>8. CASE th[t].then # "help" /\ did
  <2>1. /\ th'[t].pc = "credit"
        /\ \A f \in Fields \ {"pc"} : th'[t][f] = th[t][f]
    BY <1>8, Known, CopyReturnsGoes
  <2>2. LocalOK(t)'
    BY <1>1, <1>2, <1>7, <1>8, <2>1 DEF LocalOK, Fields
  <2>3. CallOK(t)'
    BY <1>1, <1>2, <1>4, <1>7, <1>8, <2>1 DEF CallOK, Fields, Casing, Helping, Iterating, Copying,
       Placing
  <2>4. EntryOK(t)' /\ HelpOK(t)'
    BY <2>1 DEF EntryOK, HelpOK, Helping
  <2>5. AskedOK(t)' /\ CopyOK(t)'
    BY <1>1, <1>3, <1>7, <1>8, <2>1 DEF AskedOK, CopyOK, Fields, Copying, Placing
  <2>6. ThreadOK(t)'
    BY <2>2, <2>3, <2>4, <2>5 DEF ThreadOK
  <2> QED
    BY <1>1, <1>3, <1>7, <1>8, <2>1, <2>6 DEF Pending, Fields
<1>9. CASE th[t].then # "help" /\ ~did
  <2>1. /\ th'[t].pc = IF op[t].kind \in {"get", "iterate"} THEN "get" ELSE "cas"
        /\ th'[t].h = th[t].h + 1 /\ th'[t].to = 1 /\ th'[t].num_copied = 0
    BY <1>9, Known, CopyReturnsGoes
  <2>2. LocalOK(t)'
    BY <1>1, <1>2, <1>3, <2>1 DEF LocalOK
  <2>3. CallOK(t)'
    <3> PICK h \in Tables, k \in {th[t].key} : h = th[t].h /\ k = th[t].key
      BY <1>3
    <3>1. Over(h, k)'
      <4>1. key'[h][th[t].from] = k /\ Dead(val'[h][th[t].from]) /\ th[t].from \in Entries(h)
        BY <1>3, <1>7, <1>9
      <4> QED
        BY <4>1 DEF Over
    <3>2. op[t].kind \in {"cas", "remove"} => \A g \in 1..(th'[t].h - 1) : Over(g, k)'
      <4>1. \A g \in 1..(th'[t].h - 1) : g = h \/ g \in 1..(th[t].h - 1)
        BY <1>3, <2>1
      <4>2. op[t].kind \in {"cas", "remove"} =>
              th[t].key \in Keys /\ \A g \in 1..(th[t].h - 1) : Over(g, th[t].key)
        BY <1>2 DEF CallOK
      <4>3. op[t].kind \in {"cas", "remove"} => \A g \in 1..(th[t].h - 1) : Over(g, k)'
        BY <1>1, <1>4, <4>2
      <4> QED
        BY <3>1, <4>1, <4>3
    <3>3. op[t].new_val \in Threads \cup {DOES_NOT_EXIST}
      BY <1>2 DEF CallOK, Copying, Placing
    <3> QED
      BY <1>1, <1>7, <1>9, <2>1, <3>2, <3>3 DEF CallOK, Casing, Helping, Iterating
  <2>4. EntryOK(t)' /\ HelpOK(t)' /\ th'[t].pc \notin Copying \cup {"credit"}
    BY <2>1 DEF EntryOK, HelpOK, Helping, Copying, Placing
  <2>5. ThreadOK(t)'
    BY <2>2, <2>3, <2>4, AwayAfter DEF ThreadOK
  <2> QED
    BY <1>1, <1>3, <1>7, <1>9, <2>1, <2>5 DEF Pending
<1> QED
  BY <1>5, <1>6, <1>8, <1>9

(* What a thread in hti_copy_entry knows, with names for what it works on:   *)
(* entry from of table h, with key k and word w, goes to table to.           *)
Copies(t, h, to, from, k, w) ==
    /\ h \in Tables /\ to \in Tables /\ from \in Entries(h) /\ w \in Words
    /\ h = th[t].h /\ to = th[t].to /\ from = th[t].from
    /\ k = key[h][from] /\ w = val[h][from] /\ k \in Keys \cup {DOES_NOT_EXIST}
    /\ h < to /\ \A g \in (h + 1)..(to - 1) : Passed(g, k)
    /\ th[t].pc = "copy_tag" => w # EMPTY
    /\ th[t].pc \in Placing \/ to # h + 1 =>
         k \in Keys /\ Tagged(w) /\ w # TAG_VALUE(Tombstone)
    /\ th[t].pc \in Placing =>
         /\ w = COPIED_VALUE => Landed(h, k)
         /\ th[t].ent_val \in {Plain(v) : v \in Values \ {DOES_NOT_EXIST, TOMBSTONE}}
    /\ th[t].pc = "copy_grow" => NoRoom(to, k)
    /\ th[t].pc = "copy_key" => Ends(to, k, th[t].ent)
    /\ th[t].pc = "copy_val" => th[t].ent \in Entries(to) /\ key[to][th[t].ent] = k
    /\ th[t].pc \in {"copy_done", "copy_lost"} => Landed(h, k)

(* A step within it. *)
LEMMA CopierStays ==
    ASSUME NEW t \in Threads, IInv, th[t].pc \in Copying, th'[t].pc \in Copying,
           DOMAIN th'[t] = Fields, th'[t].to \in 1..last',
           \A f \in {"key", "h", "then", "from", "left", "num_copied", "iter", "idx"} :
               th'[t][f] = th[t][f],
           Types', Grow, op' = op
    PROVE  /\ LocalOK(t)' /\ CallOK(t)' /\ EntryOK(t)' /\ HelpOK(t)' /\ AskedOK(t)'
           /\ \A g \in Tables : Pending(t, g)' = Pending(t, g)
<1>1. /\ th'[t].key = th[t].key /\ th'[t].h = th[t].h /\ th'[t].then = th[t].then
      /\ th'[t].from = th[t].from /\ th'[t].left = th[t].left
      /\ th'[t].num_copied = th[t].num_copied /\ th'[t].iter = th[t].iter /\ th'[t].idx = th[t].idx
  OBVIOUS
<1>2. LocalOK(t) /\ CallOK(t) /\ AskedOK(t)
  BY Known
<1>3. /\ last \in Nat /\ last' \in Nat /\ last <= last' /\ th[t].h \in Nat \ {0} /\ th[t].h \in Tables
  BY Known, TableFacts DEF Types, Grow
<1>4. LocalOK(t)'
  BY <1>1, <1>2, <1>3 DEF LocalOK
<1>5. th[t].key \in Keys => \A g \in 1..(th[t].h - 1) : Over(g, th[t].key) => Over(g, th[t].key)'
  <2>1. \A g \in 1..(th[t].h - 1) : g \in Tables
    BY <1>3, TableFacts
  <2> QED
    BY <2>1, GrowKeeps
<1>6. CallOK(t)'
  BY <1>1, <1>2, <1>5 DEF CallOK, Copying, Placing, Casing, Helping, Iterating
<1>7. EntryOK(t)' /\ HelpOK(t)'
  BY DEF EntryOK, HelpOK, Helping, Copying, Placing
<1>8. th[t].from \in Entries(th[t].h) /\ th[t].pc # "credit" /\ th'[t].pc # "credit"
  BY <1>2 DEF AskedOK, Copying, Placing
<1>9. key[th[t].h][th[t].from] \in Keys => key'[th[t].h][th[t].from] = key[th[t].h][th[t].from]
  BY <1>3, <1>8, HashtableAssumption DEF Grow
<1>10. AskedOK(t)'
  BY <1>1, <1>2, <1>8, <1>9 DEF AskedOK
<1> QED
  BY <1>1, <1>4, <1>6, <1>7, <1>8, <1>10 DEF Pending

(* Every copier has a table, an entry, a key and a word it copies. *)
LEMMA CopyKnown ==
    \A t \in Threads : IInv /\ th[t].pc \in Copying =>
        \E h, to, from, k, w : Copies(t, h, to, from, k, w)
<1> TAKE t \in Threads
<1> HAVE IInv /\ th[t].pc \in Copying
<1>1. th[t].from \in Entries(th[t].h)
  BY Known DEF AskedOK
<1>2. PICK h \in Tables, to \in Tables : h = th[t].h /\ to = th[t].to
  BY Known
<1>3. PICK from \in Entries(h) : from = th[t].from
  BY <1>1, <1>2
<1>4. key[h] \in [Entries(h) -> Keys \cup {DOES_NOT_EXIST}] /\ val[h] \in [Entries(h) -> Words]
  BY Known DEF Types
<1>5. PICK k \in Keys \cup {DOES_NOT_EXIST}, w \in Words : k = key[h][from] /\ w = val[h][from]
  BY <1>4
<1>6. CopyOK(t)
  BY Known
<1>7. Copies(t, h, to, from, k, w)
  BY <1>2, <1>3, <1>5, <1>6 DEF CopyOK, Copies
<1> QED
  BY <1>7

(* The same after a step. *)
LEMMA CopyKnownAfter ==
    \A t \in Threads : \A h, to, from, k, w : Copies(t, h, to, from, k, w)' /\ th'[t].pc \in Copying =>
        CopyOK(t)'
  BY DEF CopyOK, Copies

(* The tables it works on are in the chain. *)
LEMMA CopyTables ==
    \A h \in Tables, to \in Tables :
        /\ h \in Nat \ {0} /\ to \in Nat \ {0}
        /\ \A g \in 1..to : g \in Tables
        /\ \A g \in (h + 1)..(to - 1) : g \in Tables
  BY TableFacts

(* A step within hti_copy_entry that changes no table. *)
LEMMA CopierMoves ==
    ASSUME NEW t \in Threads, IInv, th[t].pc \in Copying, th[t].pc # "copy_done",
           UNCHANGED <<ht_hti, key, val, copy_scan, num_entries_copied, op>>,
           DOMAIN th' = Threads, DOMAIN th'[t] = Fields,
           \A u \in Threads : u # t => th'[u] = th[u],
           th'[t].pc \in Copying, th'[t].pc # "copy_done",
           \A f \in {"key", "h", "then", "from", "left", "num_copied", "iter", "idx"} :
               th'[t][f] = th[t][f],
           last' \in Tables, last <= last', th'[t].to \in 1..last', CopyOK(t)'
    PROVE  IInv'
<1>1. Types'
  <2>1. last \in Nat /\ last' \in Nat /\ Types
    BY Known, TableFacts
  <2> QED
    BY <2>1 DEF Types
<1>2. Grow
  BY Known, QuietTables
<1>3. ThreadOK(t)' /\ \A g \in Tables : Pending(t, g)' = Pending(t, g)
  BY <1>1, <1>2, CopierStays DEF ThreadOK
<1> QED
  BY <1>1, <1>3, QuietKeeps

(* The copy starts over with the table after one that it goes past. *)
LEMMA CopyOnward ==
    ASSUME NEW t \in Threads, IInv, th[t].pc \in Placing, th[t].pc # "copy_done",
           NEW h, NEW to, NEW from, NEW k, NEW w, Copies(t, h, to, from, k, w), Passed(to, k),
           UNCHANGED <<ht_hti, key, val, copy_scan, num_entries_copied, op>>,
           Go(t, CopyEntry(th[t].from, th[t].to + 1, th[t].then)),
           last' \in Tables, last <= last', to < last'
    PROVE  IInv'
<1>1. /\ DOMAIN th' = Threads /\ DOMAIN th'[t] = Fields
      /\ \A u \in Threads : u # t => th'[u] = th[u]
      /\ th'[t].pc = "copy" /\ th'[t].to = th[t].to + 1
      /\ \A f \in Fields \ {"pc", "to"} : th'[t][f] = th[t][f]
  BY Known, Goes DEF Fields, CopyEntry
<1>2. \A f \in {"key", "h", "then", "from", "left", "num_copied", "iter", "idx"} :
             th'[t][f] = th[t][f]
  BY <1>1 DEF Fields
<1>3. h \in Tables /\ to \in Tables
  BY DEF Copies
<1>4. h \in Nat \ {0} /\ to \in Nat \ {0} /\ last' \in Nat /\ \A g \in 1..last' : g \in Tables
  BY <1>3, TableFacts
<1>5. to + 1 \in 1..last' /\ to + 1 \in Tables
  BY <1>4
<1>6. \A g \in (h + 1)..to : Passed(g, k)'
  <2>1. \A g \in (h + 1)..to : g = to \/ g \in (h + 1)..(to - 1)
    BY <1>4
  <2> QED
    BY <2>1, SameTables DEF Copies
<1>7. /\ h < to /\ k \in Keys /\ Tagged(w) /\ w # TAG_VALUE(Tombstone)
      /\ w \in Words /\ from \in Entries(h) /\ k = key[h][from] /\ w = val[h][from]
      /\ h = th[t].h /\ to = th[t].to /\ from = th[t].from
  BY DEF Copies
<1>8. h < to + 1 /\ (to + 1) - 1 = to
  <2>1. h < to
    BY <1>7
  <2> QED
    BY <1>4, <2>1
<1>9. Copies(t, h, to + 1, from, k, w)'
  BY <1>1, <1>2, <1>3, <1>5, <1>6, <1>7, <1>8 DEF Copies, Placing
<1>10. /\ th'[t].pc \in Copying /\ th'[t].pc # "copy_done" /\ th[t].pc \in Copying
       /\ th'[t].to \in 1..last'
  BY <1>1, <1>5, <1>7 DEF Copying
<1>11. CopyOK(t)'
  BY <1>9, <1>10, CopyKnownAfter
<1> QED
  BY <1>1, <1>2, <1>10, <1>11, CopierMoves

(* A copier reads its entry, or starts the table after. *)
LEMMA CopyReadsKeep ==
    \A t \in Threads : IInv /\ last' \in Tables /\ (CopyLoad(t) \/ CopyGrow(t)) => IInv'
(* One that returns without having copied anything. *)
<1>CopierLeaves.
      ASSUME NEW t \in Threads, IInv, th[t].pc \in Copying, th[t].pc # "copy_done",
             UNCHANGED <<ht_hti, last, key, val, copy_scan, num_entries_copied, op>>,
             Dead(val[th[t].h][th[t].from]), Go(t, CopyReturns(t, FALSE))
      PROVE  IInv'
  <2> USE <1>CopierLeaves
  <2>1. last \in Tables /\ last \in Nat /\ Types /\ Chain /\ DOMAIN th' = Threads
    BY Known, CopyReturnsGoes DEF Types
  <2>2. Types' /\ last <= last' /\ last' \in Tables
    BY <2>1 DEF Types
  <2>3. Grow /\ Chain'
    BY <2>1, <2>2, QuietTables
  <2>4. /\ ThreadOK(t)' /\ DOMAIN th' = Threads /\ \A u \in Threads : u # t => th'[u] = th[u]
        /\ th'[t].pc # "copy_done"
        /\ \A g \in Tables : g # th[t].h => Pending(t, g) = 0 /\ Pending(t, g)' = 0
        /\ \A g \in Tables : g = th[t].h =>
             Pending(t, g) \in Nat /\ Pending(t, g)' = Pending(t, g) + (IF FALSE THEN 1 ELSE 0)
    BY <2>2, <2>3, CopyReturned
  <2>5. \A g \in Tables : Pending(t, g)' = Pending(t, g)
    <3>1. SUFFICES ASSUME NEW g \in Tables
                   PROVE  Pending(t, g)' = Pending(t, g)
      OBVIOUS
    <3>2. CASE g # th[t].h
      BY <2>4, <3>2
    <3>3. CASE g = th[t].h
      BY <2>4, <3>3
    <3> QED
      BY <3>2, <3>3
  <2> QED
    BY <2>2, <2>4, <2>5, QuietKeeps
<1>CopyLoadKeeps. \A t \in Threads : IInv /\ CopyLoad(t) => IInv'
  <2> TAKE t \in Threads
  <2> HAVE IInv /\ CopyLoad(t)
  <2>1. /\ th[t].pc = "copy" /\ th[t].pc \in Copying
        /\ UNCHANGED <<ht_hti, last, key, val, copy_scan, num_entries_copied, op>>
    BY DEF CopyLoad, At, tables, history, Copying
  <2>2. PICK h, to, from, k, w : Copies(t, h, to, from, k, w)
    BY <2>1, CopyKnown
  <2>3. w = val[th[t].h][th[t].from]
    BY <2>2 DEF Copies
  <2>4. CASE Dead(w)
    <3>1. Go(t, CopyReturns(t, FALSE))
      BY <2>3, <2>4 DEF CopyLoad
    <3> QED
      BY <2>1, <2>3, <2>4, <3>1, <1>CopierLeaves
  <2>5. CASE ~Dead(w)
    <3>1. Go(t, [pc |-> IF w = EMPTY THEN "copy_kill" ELSE "copy_tag"])
      BY <2>3, <2>5 DEF CopyLoad
    <3>2. /\ DOMAIN th' = Threads /\ DOMAIN th'[t] = Fields
          /\ \A u \in Threads : u # t => th'[u] = th[u]
          /\ th'[t].pc = IF w = EMPTY THEN "copy_kill" ELSE "copy_tag"
          /\ \A f \in Fields \ {"pc"} : th'[t][f] = th[t][f]
      BY <3>1, Known, Goes DEF Fields
    <3>3. \A f \in {"key", "h", "then", "from", "left", "num_copied", "iter", "idx"} :
                 th'[t][f] = th[t][f]
      BY <3>2 DEF Fields
    <3>4. th'[t].to = th[t].to
      BY <3>2 DEF Fields
    <3>5. Copies(t, h, to, from, k, w)'
      BY <2>1, <2>2, <3>2, <3>3, <3>4, SameTables DEF Copies, Placing
    <3>6. /\ th'[t].pc \in Copying /\ th'[t].pc # "copy_done" /\ th[t].pc # "copy_done"
          /\ last' \in Tables /\ last <= last' /\ th'[t].to \in 1..last'
      BY <2>1, <3>2, <3>4, Known DEF Copying, Types
    <3>7. CopyOK(t)'
      BY <3>5, <3>6, CopyKnownAfter
    <3> QED
      BY <2>1, <3>2, <3>3, <3>6, <3>7, CopierMoves
  <2> QED
    BY <2>4, <2>5
<1>CopyGrowKeeps. \A t \in Threads : IInv /\ CopyGrow(t) /\ last' \in Tables => IInv'
  <2> TAKE t \in Threads
  <2> HAVE IInv /\ CopyGrow(t) /\ last' \in Tables
  <2>1. /\ th[t].pc = "copy_grow" /\ th[t].pc \in Copying /\ th[t].pc \in Placing
        /\ UNCHANGED <<ht_hti, key, val, copy_scan, num_entries_copied, op>>
        /\ last' = IF last = th[t].to THEN th[t].to + 1 ELSE last
        /\ Go(t, CopyEntry(th[t].from, th[t].to + 1, th[t].then))
    BY DEF CopyGrow, At, history, Copying, Placing, StartCopy
  <2>2. PICK h, to, from, k, w : Copies(t, h, to, from, k, w)
    BY <2>1, CopyKnown
  <2>3. to = th[t].to /\ Passed(to, k)
    BY <2>1, <2>2 DEF Copies, Passed
  <2>4. last \in Nat /\ th[t].to \in Nat /\ th[t].to <= last
    BY Known
  <2>5. last <= last' /\ to < last'
    BY <2>1, <2>3, <2>4
  <2> QED
    BY <2>1, <2>2, <2>3, <2>5, CopyOnward
<1> QED
  BY <1>CopyLoadKeeps, <1>CopyGrowKeeps

-----------------------------------------------------------------------------
(* A key gets an entry *)

(* A call or a copier claims an entry for its key. *)
LEMMA KeyStepsKeep ==
    \A t \in Threads : IInv /\ (CopyKey(t) \/ CasKey(t)) => IInv'
(* It may when the tables before are shut for it: then the value is in none  *)
(* of the tables after.                                                      *)
<1>KeyInstalled.
      ASSUME IInv, NEW g \in Tables, NEW k \in Keys, NEW e \in Entries(g),
             key[g][e] = DOES_NOT_EXIST, Ends(g, k, e), \A f \in 1..(g - 1) : Shut(f, k),
             key' = [key EXCEPT ![g][e] = k],
             UNCHANGED <<ht_hti, last, val, copy_scan, num_entries_copied>>,
             DOMAIN th' = Threads, DOMAIN op' = Threads
      PROVE  /\ Types' /\ Grow /\ Chain'
             /\ key'[g][e] = k
             /\ \A h \in Tables : \A e2 \in Entries(h) :
                  key'[h][e2] # DOES_NOT_EXIST /\ Landed(h, key[h][e2])' /\ ~Dead(val[h][e2])
                  => key'[h][e2] = key[h][e2] /\ Landed(h, key[h][e2])
  <2> USE <1>KeyInstalled
  <2>1. Types /\ Chain /\ last \in Nat /\ ht_hti \in Nat
    BY TableFacts DEF IInv, Types
  <2>2. k # DOES_NOT_EXIST
    BY HashtableAssumption
  <2>3. \A h \in Tables : key[h] \in [Entries(h) -> Keys \cup {DOES_NOT_EXIST}]
    BY <2>1 DEF Types
  <2>4. DOMAIN key = Tables
    BY <2>1 DEF Types
  <2>5. /\ \A h \in Tables : \A f \in Entries(h) :
             key'[h][f] = IF h = g /\ f = e THEN k ELSE key[h][f]
        /\ DOMAIN key' = Tables
        /\ \A h \in Tables : key'[h] \in [Entries(h) -> Keys \cup {DOES_NOT_EXIST}]
    BY <2>3, <2>4
  <2>6. Types'
    BY <2>1, <2>5 DEF Types
  <2>7. \A h \in Tables : \A f \in Entries(h) :
          val[h][f] \notin {EMPTY, COPIED_VALUE} => key'[h][f] = key[h][f]
    BY <2>1, <2>5 DEF Chain
  <2>8. \A h, q : Landed(h, q)' <=> Landed(h, q)
    BY <2>7 DEF Landed
  <2>9. Grow
    BY <2>1, <2>5, <2>8 DEF Grow
  <2>10. ASSUME NEW h \in Tables, NEW f \in Entries(h)
         PROVE  /\ key'[h][f] # DOES_NOT_EXIST =>
                     Ends(h, key[h][f], f)' /\ \A i \in 1..(h - 1) : Shut(i, key[h][f])'
                /\ val'[h][f] \notin {EMPTY, COPIED_VALUE} => key'[h][f] # DOES_NOT_EXIST
                /\ Tagged(val'[h][f]) => h < last'
    <3>1. \A i \in 1..(h - 1) : i \in Tables
      BY TableFacts
    <3>2. /\ val'[h][f] \notin {EMPTY, COPIED_VALUE} => key'[h][f] # DOES_NOT_EXIST
          /\ Tagged(val'[h][f]) => h < last'
      BY <2>1, <2>7 DEF Chain
    <3>3. PICK q : q = key'[h][f]
      OBVIOUS
    <3>4. CASE q # DOES_NOT_EXIST
      <4>1. q \in Keys
        BY <2>5, <3>3, <3>4
      <4>2. Ends(h, q, f) /\ \A i \in 1..(h - 1) : Shut(i, q)
        <5>1. CASE h = g /\ f = e
          BY <2>5, <3>3, <5>1
        <5>2. CASE ~(h = g /\ f = e)
          <6>1. q = key[h][f]
            BY <2>5, <3>3, <5>2
          <6> QED
            BY <2>1, <3>4, <6>1 DEF Chain
        <5> QED
          BY <5>1, <5>2
      <4>3. Ends(h, q, f)' /\ \A i \in 1..(h - 1) : Shut(i, q)'
        BY <2>9, <3>1, <4>1, <4>2, GrowKeeps
      <4> QED
        BY <3>2, <3>3, <4>3
    <3>5. CASE q = DOES_NOT_EXIST
      BY <3>2, <3>3, <3>5
    <3> QED
      BY <3>4, <3>5
  <2>11. \A h \in 1..(ht_hti' - 1) : AllDead(h)' /\ num_entries_copied'[h] = Sizes[h]
    BY <2>1 DEF Chain, AllDead
  <2>12. Chain'
    BY <2>10, <2>11 DEF Chain
  <2>13. Landed(g, k) => Dead(val[g][e])
    <3>1. SUFFICES ASSUME Landed(g, k)
                   PROVE  Dead(val[g][e])
      OBVIOUS
    <3>2. PICK g2 \in Tables : \E e2 \in Entries(g2) : g < g2 /\ key[g2][e2] = k
      BY <3>1 DEF Landed
    <3>3. g \in 1..(g2 - 1)
      BY <3>2, TableFacts
    <3>4. Shut(g, k)
      BY <2>1, <2>2, <3>2, <3>3 DEF Chain
    <3>5. ~NoRoom(g, k)
      BY EndsHasRoom
    <3>6. ASSUME NEW f \in Entries(g), key[g][f] = k
          PROVE  FALSE
      <4>1. Ends(g, k, f)
        BY <2>1, <2>2, <3>6 DEF Chain
      <4>2. f = e
        BY <3>6, <4>1, OneEntry
      <4> QED
        BY <2>2, <3>6, <4>2
    <3> QED
      BY <3>4, <3>5, <3>6 DEF Shut, AllDead
  <2>14. ASSUME NEW h \in Tables, NEW e2 \in Entries(h), key'[h][e2] # DOES_NOT_EXIST,
                Landed(h, key[h][e2])', ~Dead(val[h][e2])
         PROVE  key'[h][e2] = key[h][e2] /\ Landed(h, key[h][e2])
    <3>1. PICK q : q = key'[h][e2]
      OBVIOUS
    <3>2. Landed(h, q)
      BY <2>8, <2>14, <3>1
    <3>3. ~(h = g /\ e2 = e)
      BY <2>5, <2>13, <2>14, <3>1, <3>2
    <3> QED
      BY <2>5, <3>1, <3>2, <3>3
  <2>15. key'[g][e] = k
    BY <2>5
  <2> QED
    BY <2>6, <2>9, <2>12, <2>14, <2>15
<1>KeyKeeps.
      ASSUME NEW t \in Threads, IInv, NEW g \in Tables, NEW k \in Keys, NEW e \in Entries(g),
             key[g][e] = DOES_NOT_EXIST, Ends(g, k, e), \A f \in 1..(g - 1) : Shut(f, k),
             key' = [key EXCEPT ![g][e] = k],
             UNCHANGED <<ht_hti, last, val, copy_scan, num_entries_copied, op>>,
             DOMAIN th' = Threads,
             \A u \in Threads : u # t => th'[u] = th[u],
             th[t].pc # "copy_done", th'[t].pc # "copy_done",
             ThreadOK(t)', \A h \in Tables : Pending(t, h)' = Pending(t, h)
      PROVE  IInv'
  <2> USE <1>KeyKeeps
  <2>0. DOMAIN op' = Threads
    BY Known
  <2>1. /\ Types' /\ Grow /\ Chain'
        /\ \A h \in Tables : \A e2 \in Entries(h) :
             key'[h][e2] # DOES_NOT_EXIST /\ Landed(h, key[h][e2])' /\ ~Dead(val[h][e2])
             => key'[h][e2] = key[h][e2] /\ Landed(h, key[h][e2])
    BY <2>0, <1>KeyInstalled
  <2>2. \A u \in Threads : \A h, f : Won(u, h, f)' <=> Won(u, h, f)
    BY DEF Won
  <2>3. \A h \in Tables : Counted(h)'
    BY <2>2, SameAccounts DEF IInv
  <2>4. ASSUME NEW h \in Tables
        PROVE  SomeoneWon(h)'
    <3>1. SomeoneWon(h)
      BY DEF IInv
    <3>2. ASSUME NEW f \in Entries(h), key'[h][f] # DOES_NOT_EXIST,
                 Landed(h, key[h][f])', ~Dead(val[h][f])
          PROVE  \E u \in Threads : Won(u, h, f)'
      <4>1. key[h][f] # DOES_NOT_EXIST /\ Landed(h, key[h][f])
        BY <2>1, <3>2
      <4> QED
        BY <2>2, <3>1, <3>2, <4>1 DEF SomeoneWon
    <3> QED
      BY <3>2 DEF SomeoneWon
  <2> QED
    BY <2>1, <2>3, <2>4, StepKeeps
(* A search ends in an entry of the table. *)
<1>EndsInside. \A h \in Tables, k \in Keys : \A e : Ends(h, k, e) => e \in Entries(h)
  <2> TAKE h \in Tables, k \in Keys
  <2> TAKE e
  <2> HAVE Ends(h, k, e)
  <2>1. PICK n \in Nat : DOMAIN Probe[h][k] = 1..n /\ \A j \in 1..n : Probe[h][k][j] \in Entries(h)
    BY TableFacts
  <2> QED
    BY <2>1 DEF Ends
(* Past the tag, the tables before the one copied to are shut for the key. *)
<1>ShutBefore.
      \A t \in Threads : \A h, to, from, k, w : IInv /\ th[t].pc \in Placing /\ Copies(t, h, to, from, k, w) =>
          \A f \in 1..(to - 1) : Shut(f, k)
  <2> TAKE t \in Threads
  <2> TAKE h, to, from, k, w
  <2> HAVE IInv /\ th[t].pc \in Placing /\ Copies(t, h, to, from, k, w)
  <2>1. /\ h \in Tables /\ to \in Tables /\ from \in Entries(h) /\ k = key[h][from] /\ w = val[h][from]
        /\ k \in Keys /\ Tagged(w) /\ \A g \in (h + 1)..(to - 1) : Passed(g, k)
    BY DEF Copies
  <2>2. k # DOES_NOT_EXIST /\ Tagged(COPIED_VALUE)
    BY <2>1, WordNames, HashtableAssumption
  <2>3. Chain
    BY Known
  <2>4. \A f \in 1..(h - 1) : Shut(f, k)
    BY <2>1, <2>2, <2>3 DEF Chain
  <2>5. Shut(h, k)
    BY <2>1 DEF Shut
  <2>6. \A f \in (h + 1)..(to - 1) : Shut(f, k)
    BY <2>1, <2>2 DEF Passed, Shut
  <2>7. \A f \in 1..(to - 1) : f \in 1..(h - 1) \/ f = h \/ f \in (h + 1)..(to - 1)
    BY <2>1, CopyTables
  <2> QED
    BY <2>4, <2>5, <2>6, <2>7
<1>CopyKeyKeeps. \A t \in Threads : IInv /\ CopyKey(t) => IInv'
  <2> TAKE t \in Threads
  <2> HAVE IInv /\ CopyKey(t)
  <2>1. /\ th[t].pc = "copy_key" /\ th[t].pc \in Copying /\ th[t].pc \in Placing
        /\ UNCHANGED <<ht_hti, last, val, copy_scan, num_entries_copied, op>>
    BY DEF CopyKey, At, history, Copying, Placing
  <2>2. PICK h, to, from, k, w : Copies(t, h, to, from, k, w)
    BY <2>1, CopyKnown
  <2>3. PICK e : e = th[t].ent
    OBVIOUS
  <2>4. /\ h = th[t].h /\ to = th[t].to /\ from = th[t].from /\ k = key[h][from] /\ k \in Keys
        /\ h \in Tables /\ to \in Tables /\ from \in Entries(h) /\ Ends(to, k, e)
        /\ Tagged(w) /\ w # TAG_VALUE(Tombstone) /\ w \in Words /\ w = val[h][from]
        /\ h < to /\ \A g \in (h + 1)..(to - 1) : Passed(g, k)
        /\ w = COPIED_VALUE => Landed(h, k)
        /\ th[t].ent_val \in {Plain(v) : v \in Values \ {DOES_NOT_EXIST, TOMBSTONE}}
    BY <2>1, <2>2, <2>3 DEF Copies
  <2>5. e \in Entries(to) /\ k # DOES_NOT_EXIST
    BY <2>4, <1>EndsInside, HashtableAssumption
  <2>6. /\ last' \in Tables /\ last <= last' /\ th[t].to \in 1..last' /\ DOMAIN op' = Threads
    BY <2>1, Known DEF Types
  <2>7. CASE key[to][e] = DOES_NOT_EXIST
    <3>1. key' = [key EXCEPT ![to][e] = k] /\ Go(t, [pc |-> "copy_val"])
      BY <2>3, <2>4, <2>7 DEF CopyKey
    <3>2. /\ DOMAIN th' = Threads /\ DOMAIN th'[t] = Fields
          /\ \A u \in Threads : u # t => th'[u] = th[u]
          /\ th'[t].pc = "copy_val"
          /\ \A f \in Fields \ {"pc"} : th'[t][f] = th[t][f]
      BY <3>1, Known, Goes DEF Fields
    <3>3. \A f \in {"key", "h", "then", "from", "left", "num_copied", "iter", "idx"} :
                 th'[t][f] = th[t][f]
      BY <3>2 DEF Fields
    <3>4. th'[t].to = th[t].to /\ th'[t].ent_val = th[t].ent_val /\ th'[t].ent = th[t].ent
      BY <3>2 DEF Fields
    <3>5. \A f \in 1..(to - 1) : Shut(f, k)
      BY <2>1, <2>2, <1>ShutBefore
    <3>6. Types' /\ Grow /\ key'[to][e] = k
      <4>1. to \in Tables /\ k \in Keys /\ Ends(to, k, e) /\ DOMAIN th' = Threads
        BY <2>4, <3>2
      <4> QED
        BY <2>1, <2>5, <2>6, <2>7, <3>1, <3>5, <4>1, <1>KeyInstalled
    <3>7. key'[h][from] = k /\ (w = COPIED_VALUE => Landed(h, k)')
      BY <2>4, <2>5, <3>6 DEF Grow
    <3>8. \A g \in (h + 1)..(to - 1) : Passed(g, k)'
      <4>1. \A g \in (h + 1)..(to - 1) : g \in Tables
        BY <2>4, CopyTables
      <4> QED
        BY <2>4, <3>6, <4>1, GrowKeeps
    <3>9. Copies(t, h, to, from, k, w)'
      BY <2>1, <2>3, <2>4, <2>5, <3>2, <3>3, <3>4, <3>6, <3>7, <3>8 DEF Copies, Placing
    <3>10. CopyOK(t)' /\ th'[t].pc \in Copying /\ th'[t].pc # "copy_done"
      BY <3>2, <3>9, CopyKnownAfter DEF Copying, Placing
    <3>11. ThreadOK(t)' /\ \A g \in Tables : Pending(t, g)' = Pending(t, g)
      BY <2>1, <2>6, <3>2, <3>3, <3>4, <3>6, <3>10, CopierStays DEF ThreadOK
    <3> QED
      BY <2>1, <2>4, <2>5, <2>7, <3>1, <3>2, <3>5, <3>11, <1>KeyKeeps
  <2>8. CASE key[to][e] # DOES_NOT_EXIST
    <3>1. key' = key /\ Go(t, [pc |-> "copy"])
      BY <2>3, <2>4, <2>8 DEF CopyKey
    <3>2. /\ DOMAIN th' = Threads /\ DOMAIN th'[t] = Fields
          /\ \A u \in Threads : u # t => th'[u] = th[u]
          /\ th'[t].pc = "copy"
          /\ \A f \in Fields \ {"pc"} : th'[t][f] = th[t][f]
      BY <3>1, Known, Goes DEF Fields
    <3>3. \A f \in {"key", "h", "then", "from", "left", "num_copied", "iter", "idx"} :
                 th'[t][f] = th[t][f]
      BY <3>2 DEF Fields
    <3>4. th'[t].to = th[t].to
      BY <3>2 DEF Fields
    <3>5. Copies(t, h, to, from, k, w)'
      BY <2>1, <2>4, <3>1, <3>2, <3>3, <3>4, SameTables DEF Copies, Placing
    <3>6. CopyOK(t)' /\ th'[t].pc \in Copying /\ th'[t].pc # "copy_done"
      BY <3>2, <3>5, CopyKnownAfter DEF Copying, Placing
    <3> QED
      BY <2>1, <2>6, <3>1, <3>2, <3>3, <3>4, <3>6, CopierMoves
  <2> QED
    BY <2>7, <2>8
<1>CasKeyKeeps. \A t \in Threads : IInv /\ CasKey(t) => IInv'
  <2> TAKE t \in Threads
  <2> HAVE IInv /\ CasKey(t)
  <2>1. /\ th[t].pc = "cas_key"
        /\ UNCHANGED <<ht_hti, last, val, copy_scan, num_entries_copied, op>>
    BY DEF CasKey, At, history
  <2>2. PICK h \in Tables, k \in {th[t].key}, e \in {th[t].ent} : h = th[t].h /\ k = th[t].key /\ e = th[t].ent
    BY Known
  <2>3. /\ k \in Keys /\ Ends(h, k, e) /\ op[t].kind \in {"cas", "remove"}
        /\ op[t].new_val \in Threads \cup {DOES_NOT_EXIST} /\ \A g \in 1..(h - 1) : Over(g, k)
    BY <2>1, <2>2, Known DEF CallOK, EntryOK, Casing
  <2>4. e \in Entries(h) /\ k # DOES_NOT_EXIST
    BY <2>3, <1>EndsInside, HashtableAssumption
  <2>5. th[t].num_copied = 0 /\ DOMAIN op = Threads
    BY <2>1, Known DEF LocalOK, Copying, Placing
  <2>6. CASE key[h][e] = DOES_NOT_EXIST
    <3>1. key' = [key EXCEPT ![h][e] = k] /\ Go(t, [pc |-> "cas_load"])
      BY <2>2, <2>6 DEF CasKey
    <3>2. /\ DOMAIN th' = Threads /\ DOMAIN th'[t] = Fields
          /\ \A u \in Threads : u # t => th'[u] = th[u]
          /\ th'[t].pc = "cas_load"
          /\ \A f \in Fields \ {"pc"} : th'[t][f] = th[t][f]
      BY <3>1, Known, Goes DEF Fields
    <3>3. /\ th'[t].h = h /\ th'[t].key = k /\ th'[t].ent = e /\ th'[t].to = th[t].to
          /\ th'[t].iter = th[t].iter /\ th'[t].idx = th[t].idx /\ th'[t].num_copied = 0
      BY <2>2, <2>5, <3>2 DEF Fields
    <3>4. \A g \in 1..(h - 1) : Shut(g, k)
      BY <2>3, WordNames DEF Over, Shut
    <3>5. Types' /\ Grow /\ key'[h][e] = k
      <4>1. DOMAIN th' = Threads /\ DOMAIN op' = Threads
        BY <2>1, <2>5, <3>2
      <4>2. k \in Keys /\ Ends(h, k, e) /\ key' = [key EXCEPT ![h][e] = k]
        BY <2>3, <3>1
      <4> QED
        BY <2>1, <2>4, <2>6, <3>4, <4>1, <4>2, <1>KeyInstalled
    <3>6. LocalOK(t)'
      BY <2>1, <2>2, <3>2, <3>3, Known DEF LocalOK
    <3>7. CallOK(t)'
      <4>1. \A g \in 1..(h - 1) : g \in Tables
        BY TableFacts
      <4>2. \A g \in 1..(h - 1) : Over(g, k)'
        BY <2>3, <3>5, <4>1, GrowKeeps
      <4> QED
        BY <2>1, <2>3, <3>2, <3>3, <4>2 DEF CallOK, Casing, Helping, Iterating
    <3>8. EntryOK(t)' /\ HelpOK(t)'
      BY <2>4, <3>2, <3>3, <3>5 DEF EntryOK, HelpOK, Helping
    <3>9. AskedOK(t)' /\ CopyOK(t)'
      BY <3>2, AwayAfter DEF Copying, Placing
    <3>10. ThreadOK(t)'
      BY <3>6, <3>7, <3>8, <3>9 DEF ThreadOK
    <3>11. \A g \in Tables : Pending(t, g)' = Pending(t, g)
      BY <2>1, <2>2, <2>5, <3>2, <3>3 DEF Pending
    <3> QED
      BY <2>1, <2>3, <2>4, <2>6, <3>1, <3>2, <3>4, <3>10, <3>11, <1>KeyKeeps
  <2>7. CASE key[h][e] # DOES_NOT_EXIST
    <3>1. key' = key /\ Go(t, [pc |-> "cas"])
      BY <2>2, <2>7 DEF CasKey
    <3>2. /\ DOMAIN th' = Threads /\ DOMAIN th'[t] = Fields
          /\ \A u \in Threads : u # t => th'[u] = th[u]
          /\ th'[t].pc = "cas"
          /\ \A f \in Fields \ {"pc"} : th'[t][f] = th[t][f]
      BY <3>1, Known, Goes DEF Fields
    <3>3. /\ th'[t].h = h /\ th'[t].key = k /\ th'[t].to = th[t].to
          /\ th'[t].iter = th[t].iter /\ th'[t].idx = th[t].idx /\ th'[t].num_copied = 0
      BY <2>2, <2>5, <3>2 DEF Fields
    <3>4. LocalOK(t)'
      BY <2>1, <2>2, <3>2, <3>3, Known DEF LocalOK
    <3>5. CallOK(t)'
      <4>1. \A g \in 1..(h - 1) : Over(g, k)'
        BY <2>1, <2>3, <3>1, SameTables
      <4> QED
        BY <2>1, <2>3, <3>2, <3>3, <4>1 DEF CallOK, Casing, Helping, Iterating
    <3>6. EntryOK(t)' /\ HelpOK(t)'
      BY <3>2 DEF EntryOK, HelpOK, Helping
    <3>7. AskedOK(t)' /\ CopyOK(t)'
      BY <3>2, AwayAfter DEF Copying, Placing
    <3>8. th[t].pc \notin Copying \cup {"credit", "help_end"} /\ th'[t].pc \notin {"copy_done", "credit"}
      BY <2>1, <3>2 DEF Copying, Placing
    <3> QED
      BY <2>1, <2>5, <3>1, <3>2, <3>3, <3>4, <3>5, <3>6, <3>7, <3>8, OnlyMoves
  <2> QED
    BY <2>6, <2>7
<1> QED
  BY <1>CopyKeyKeeps, <1>CasKeyKeeps

-----------------------------------------------------------------------------
(* The last table *)

(* hti_start_copy puts at most one table behind the last. *)
LEMMA LastGrows == [Next]_vars => last' = last \/ last' = last + 1
<1> SUFFICES ASSUME [Next]_vars PROVE last' = last \/ last' = last + 1
  OBVIOUS
<1>1. CASE UNCHANGED vars
  BY <1>1 DEF vars, tables
<1>2. ASSUME NEW h, StartCopy(h)
      PROVE  last' = last \/ last' = last + 1
  BY <1>2 DEF StartCopy
<1>3. ASSUME NEW t \in Threads, Step(t)
      PROVE  last' = last \/ last' = last + 1
  <2>1. CASE CopyLoad(t) \/ CopyGrow(t) \/ CasGrow(t)
    BY <1>2, <2>1 DEF CopyLoad, CopyGrow, CasGrow, tables
  <2>2. CASE \/ CopyKill(t) \/ CopyTag(t) \/ CopyFind(t) \/ CopyKey(t) \/ CopyVal(t)
             \/ CopyDone(t) \/ CopyCredit(t)
    BY <2>2 DEF CopyKill, CopyTag, CopyFind, CopyKey, CopyVal, CopyDone, CopyCredit, tables
  <2>3. CASE GetFind(t) \/ GetVal(t) \/ CasFind(t) \/ CasKey(t)
    BY <1>2, <2>3 DEF GetFind, GetVal, CasFind, CasKey, tables
  <2>4. CASE CasLoad(t) \/ CasVal(t)
    BY <1>2, <2>4 DEF CasLoad, CasVal, tables
  <2>5. CASE \/ Begin(t) \/ HelpLoad(t) \/ HelpScan(t) \/ HelpReserve(t) \/ HelpEnd(t)
             \/ Unlink(t) \/ Release(t)
    BY <2>5 DEF Begin, HelpLoad, HelpScan, HelpReserve, HelpEnd, Unlink, Release, tables
  <2>6. CASE IterRef(t) \/ IterKey(t) \/ IterVal(t) \/ IterFree(t)
    BY <1>2, <2>6 DEF IterRef, IterKey, IterVal, IterFree, tables
  <2> QED
    BY <1>3, <2>1, <2>2, <2>3, <2>4, <2>5, <2>6 DEF Step
<1>4. ASSUME NEW t \in Threads, ht_get(t) \/ ht_cas(t) \/ ht_remove(t) \/ ht_iter_begin(t)
      PROVE  last' = last
  BY <1>4 DEF ht_get, ht_cas, ht_remove, ht_iter_begin, Call, tables
<1> QED
  BY <1>1, <1>3, <1>4 DEF Next

=============================================================================
