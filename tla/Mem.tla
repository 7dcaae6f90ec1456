-------------------------------- MODULE Mem ---------------------------------
(***************************************************************************)
(* The allocator of src/runtime/mem.c (built without RECYCLE_PAGES).  A    *)
(* page belongs to the thread that mapped it and holds blocks of one       *)
(* scale.  A thread keeps its own free blocks in free_list; a block freed  *)
(* by another thread goes back on a single-producer queue to its owner,    *)
(* which empties it, but for the last block, when its free list is empty.  *)
(* Free lists and queues are linked through the blocks themselves.  What a *)
(* thread does to its own data is part of the step before it.              *)
(***************************************************************************)
EXTENDS Naturals, Sequences, FiniteSets, TLC, Functions

CONSTANTS N,          \* threads
          Scales,
          PageBlocks  \* blocks on a page, by scale

Tids == 1..N

ASSUME MemAssumption == N \in Nat /\ \A s \in Scales : PageBlocks[s] \in Nat \ {0}

NULL == <<>>
DATA == <<"data">>      \* the user has written over the link
ANCHOR == <<"anchor">>  \* blocks_to points to the owner's blocks_from

(* A block: the header of its page gives its owner and its scale. *)
Block(t, s, n) == <<t, s, n>>
owner(b) == b[1]
scale(b) == b[2]

VARIABLES next,         \* of each block there is: its link
          free_list, blocks_from, blocks_to,
          live,         \* blocks handed out by nbd_malloc and not passed to nbd_free
          mem           \* of each thread: its call of nbd_malloc or nbd_free

memVars == <<next, free_list, blocks_from, blocks_to, live, mem>>

NoCall == [pc |-> "none", b |-> NULL, scale |-> NULL, p |-> 0]

MemInit ==
    /\ next = <<>>
    /\ free_list = [t \in Tids |-> [s \in Scales |-> NULL]]
    /\ blocks_from = [t \in Tids |-> [p \in Tids |-> NULL]]
    /\ blocks_to = [t \in Tids |-> [o \in Tids |-> ANCHOR]]
    /\ live = {}
    /\ mem = [t \in Tids |-> NoCall]

MemGo(t, changes) == mem' = [mem EXCEPT ![t] = changes @@ @]

-----------------------------------------------------------------------------
(* nbd_malloc *)

Malloc(t, s) ==
    /\ mem[t].pc = "none"
    /\ MemGo(t, [pc |-> "pop", scale |-> s])
    /\ UNCHANGED <<next, free_list, blocks_from, blocks_to, live>>

(* The block is the user's. *)
HandOut(t, b) ==
    /\ live' = live \cup {b}
    /\ MemGo(t, [pc |-> "got", b |-> b])

(* pop_free_list, before and after process_incoming_blocks *)
Pop(t) ==
    LET s == mem[t].scale  b == free_list[t][s] IN
    /\ mem[t].pc \in {"pop", "pop again"}
    /\ IF b # NULL
       THEN /\ free_list' = [free_list EXCEPT ![t][s] = next[b]]
            /\ next' = [next EXCEPT ![b] = DATA]
            /\ HandOut(t, b)
       ELSE /\ MemGo(t, IF mem[t].pc = "pop" THEN [pc |-> "from", p |-> 1] ELSE [pc |-> "region"])
            /\ UNCHANGED <<next, free_list, live>>
    /\ UNCHANGED <<blocks_from, blocks_to>>

(* process_incoming_blocks: the first block of the next queue *)
IncomingFirst(t) ==
    LET p == mem[t].p IN
    /\ mem[t].pc = "from"
    /\ MemGo(t, CASE p > N -> [pc |-> "pop again", p |-> 0]
                  [] p <= N /\ blocks_from[t][p] = NULL -> [p |-> p + 1]
                  [] p <= N /\ blocks_from[t][p] # NULL -> [pc |-> "next", b |-> blocks_from[t][p]])
    /\ UNCHANGED <<next, free_list, blocks_from, blocks_to, live>>

(* A block goes on the free list when another one follows it in the queue. *)
IncomingNext(t) ==
    LET b == mem[t].b  p == mem[t].p  s == scale(b) IN
    /\ mem[t].pc = "next"
    /\ IF next[b] # NULL
       THEN /\ next' = [next EXCEPT ![b] = free_list[t][s]]
            /\ free_list' = [free_list EXCEPT ![t][s] = b]
            /\ MemGo(t, [b |-> next[b]])
            /\ UNCHANGED blocks_from
       ELSE /\ blocks_from' = [blocks_from EXCEPT ![t][p] = b]
            /\ MemGo(t, [pc |-> "from", b |-> NULL, p |-> p + 1])
            /\ UNCHANGED <<next, free_list>>
    /\ UNCHANGED <<blocks_to, live>>

Used(t, s) == Cardinality({b \in DOMAIN next : owner(b) = t /\ scale(b) = s})

(* The blocks of a page that nobody had, under a header of their own. *)
get_new_region(t, s) == {Block(t, s, Used(t, s) + n) : n \in 1..PageBlocks[s]}

(* The user gets the first block of the page. *)
NewRegion(t) ==
    LET s == mem[t].scale
        page == get_new_region(t, s)
        first == Block(t, s, Used(t, s) + 1)
        After(b) == Block(t, s, b[3] + 1)
        Link(b) == IF b = first THEN DATA ELSE IF After(b) \in page THEN After(b) ELSE NULL
    IN
    /\ mem[t].pc = "region"
    /\ next' = [b \in page |-> Link(b)] @@ next
    /\ free_list' = IF page = {first} THEN free_list
                    ELSE [free_list EXCEPT ![t][s] = After(first)]
    /\ HandOut(t, first)
    /\ UNCHANGED <<blocks_from, blocks_to>>

-----------------------------------------------------------------------------
(* nbd_free *)

Free(t, b) ==
    /\ mem[t].pc = "none"
    /\ MemGo(t, [pc |-> "free", b |-> b])
    /\ live' = live \ {b}
    /\ UNCHANGED <<next, free_list, blocks_from, blocks_to>>

MemDone(t) == mem' = [mem EXCEPT ![t] = NoCall]

(* Mutant: the blocks that were free are forgotten. *)
FreeOwnAlone(t) ==
    LET b == mem[t].b  s == scale(b) IN
    /\ mem[t].pc = "free" /\ owner(b) = t
    /\ next' = [next EXCEPT ![b] = NULL]
    /\ free_list' = [free_list EXCEPT ![t][s] = b]
    /\ MemDone(t)
    /\ UNCHANGED <<blocks_from, blocks_to, live>>

FreeOwn(t) ==
    LET b == mem[t].b  s == scale(b) IN
    /\ mem[t].pc = "free" /\ owner(b) = t
    /\ next' = [next EXCEPT ![b] = free_list[t][s]]
    /\ free_list' = [free_list EXCEPT ![t][s] = b]
    /\ MemDone(t)
    /\ UNCHANGED <<blocks_from, blocks_to, live>>

FreeClear(t) ==
    LET b == mem[t].b IN
    /\ mem[t].pc = "free" /\ owner(b) # t
    /\ next' = [next EXCEPT ![b] = NULL]
    /\ MemGo(t, [pc |-> "link"])
    /\ UNCHANGED <<free_list, blocks_from, blocks_to, live>>

(* Mutant: the producer's end of the queue stays behind. *)
FreeLinkStale(t) ==
    LET b == mem[t].b  o == owner(b)  tail == blocks_to[t][o] IN
    /\ mem[t].pc = "link"
    /\ IF tail = ANCHOR
       THEN blocks_from' = [blocks_from EXCEPT ![o][t] = b] /\ next' = next
       ELSE next' = [next EXCEPT ![tail] = b] /\ blocks_from' = blocks_from
    /\ MemDone(t)
    /\ UNCHANGED <<free_list, blocks_to, live>>

FreeLink(t) ==
    LET b == mem[t].b  o == owner(b)  tail == blocks_to[t][o] IN
    /\ mem[t].pc = "link"
    /\ IF tail = ANCHOR
       THEN blocks_from' = [blocks_from EXCEPT ![o][t] = b] /\ next' = next
       ELSE next' = [next EXCEPT ![tail] = b] /\ blocks_from' = blocks_from
    /\ blocks_to' = [blocks_to EXCEPT ![t][o] = b]
    /\ MemDone(t)
    /\ UNCHANGED <<free_list, live>>

MemStep(t) ==
    \/ Pop(t) \/ IncomingFirst(t) \/ IncomingNext(t) \/ NewRegion(t)
    \/ FreeOwn(t) \/ FreeClear(t) \/ FreeLink(t)

-----------------------------------------------------------------------------
(* Where the blocks are *)

(* The blocks of a list that begins at b, at most n of them. *)
RECURSIVE ListFrom(_, _)
ListFrom(b, n) ==
    IF b \notin DOMAIN next \/ n = 0 THEN <<>> ELSE <<b>> \o ListFrom(next[b], n - 1)

ListOf(b) == ListFrom(b, Cardinality(DOMAIN next) + 1)

(* A queue that its owner is emptying begins at the block looked at. *)
Queue(o, p) == ListOf(IF mem[o].pc = "next" /\ mem[o].p = p THEN mem[o].b ELSE blocks_from[o][p])

Lists == {<<"free", t, s, ListOf(free_list[t][s])>> : t \in Tids, s \in Scales}
         \cup {<<"queue", o, p, Queue(o, p)>> : o \in Tids, p \in Tids}
         \cup {<<"user", 0, 0, <<b>>>> : b \in live}
         \cup {<<"call", t, 0, <<mem[t].b>>>> : t \in {u \in Tids : mem[u].pc \in {"free", "link"}}}

(* The fields have their types, and links lead to blocks. *)
MemTypeOK ==
    /\ live \subseteq DOMAIN next
    /\ \A b \in DOMAIN next : next[b] \in {NULL, DATA} \cup DOMAIN next
    /\ \A t, u \in Tids : /\ blocks_from[t][u] \in {NULL} \cup DOMAIN next
                          /\ blocks_to[t][u] \in {ANCHOR} \cup DOMAIN next

(* No block is lost, and none is in two places: each is with the user, on    *)
(* one free list of its owner and its scale, on one queue, or on its way     *)
(* there, and once only, whatever nbd_free of one thread and                 *)
(* process_incoming_blocks of another do at the same time.                   *)
EachBlockOnce ==
    LET lists == Lists IN
    /\ UNION {Range(l[4]) : l \in lists} = DOMAIN next
    /\ \A l \in lists :
         /\ Cardinality(Range(l[4])) = Len(l[4])
         /\ \A m \in lists : l # m => Range(l[4]) \cap Range(m[4]) = {}
         /\ \A b \in Range(l[4]) : /\ l[1] = "free" => l[2] = owner(b) /\ l[3] = scale(b)
                                   /\ l[1] = "queue" => l[2] = owner(b)

(* The producer's end of a queue is the last block of the queue, so a block  *)
(* that the owner took off is not written to any more by nbd_free.           *)
TailIsLast ==
    \A o, p \in Tids :
        LET q == Queue(o, p) IN
        blocks_to[p][o] = IF q = <<>> THEN ANCHOR ELSE q[Len(q)]
=============================================================================
