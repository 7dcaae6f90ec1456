# A TLA+ model of ssr

ssr ("super simple runtime") is a C library of lock-free data structures: a
bounded ring, a bounded stack, three maps behind one interface, transactions over
a map, and the runtime they stand on (thread ids, memory reclamation, an
allocator). This directory models its concurrent core in TLA+, checks small
instances with TLC and proves, with TLAPS and for any number of threads, what
matters most about the reclamation ring, the fifo, the lifo, the ordered list, the
hashtable and the fallback atomics.

Paths below are relative to `src/src/`.

## The system and its parts

| part | source | model | state |
|---|---|---|---|
| bounded ring fifo | `fifo/cfifo.c` | `CFifo`, `BoundedQueue`, `FifoProofs` | modelled, proved |
| bounded array lifo | `lifo/clifo.c` | `CLifo`, `BoundedStack`, `LifoProofs` | modelled (the compiled part), proved |
| rcu token ring | `runtime/rcu.c` | `Rcu`, `RcuProofs` | modelled, proved |
| map interface | `map/map.c`, `map/map.h` | `MapOps`, `Linearizability` | modelled |
| ordered lock-free list | `map/list.c` | `List`, `ListProofs` | modelled, proved |
| skiplist | `map/skiplist.c` | `Skiplist` | modelled |
| hashtable | `map/hashtable.c` | `Hashtable`, `HashtableInv`, `HashtableWords`, `HashtableProofs` | modelled, proved |
| transactions | `txn/txn.c` | `Txn` | modelled |
| size-class allocator | `runtime/mem.c` | `Mem` | modelled, without `RECYCLE_PAGES` |
| hazard pointers | `runtime/hazard.c` | `Hazard` (over `Mem`) | modelled, with arrays that do not grow |
| fallback atomics | `common/catomic_gcc_sync.h`, `common/catomic_msvc.h` | `Atomics`, `AtomicRegister`, `AtomicsProofs` | integers; proved |
| thread registration | `runtime/runtime.c` | in `Rcu` | the id counter is not modelled |
| other atomics, portability | `common/` | - | wrappers of one builtin each |
| block pool | `manager/cmpool.c` | - | does not compile as it stands |
| thread pool | `manager/ctpool.c` | - | empty file |
| sequential skiplist, second allocator | `map/unsafe_skiplist.c`, `runtime/mem2.c` | - | in no build target |
| trace buffer, random numbers | `runtime/lwt.c`, `runtime/random.c` | - | debugging output; a source of levels |
| strings and hashing | `datatype/` | - | pure functions on bytes |
| demo | `lifo/demo/` | - | a sample program and a sequential digest |

How they interact: a caller reaches a map through `map.c`, which turns
`map_get/set/add/cas/replace/remove` into the implementation's `cas`, lookup and
`remove`. The maps never free memory themselves; a node or a table that has left
its structure goes to `rcu_defer_free`, and every thread calls `rcu_update`
between operations. So the maps owe the ring one thing, that a retired node can
no longer be found, and the ring owes the maps one, that nothing is freed while a
thread still has a reference from before. `List` and `Skiplist` state the first
(`RetiredWhenGone`, `RetiredIsGone`), `Rcu` the second (`NoUseAfterFree`). The fifo
and the lifo stand alone; their memory is an array that lives as long as they do.

Transactions stand on a hashtable map, whose words are values or refer to chains of
update records, and on a skiplist that counts the open transactions per version.
`Txn` takes the calls of the hashtable as single steps, which is what `Linearizable`
of `HashtableOps` says they are. Its skiplist calls are single steps too, but with
what `sl_cas` really does: it does not compare with the value it is given. Hazard
pointers hand blocks to the allocator and take the arrays for their scans from it;
`Hazard` extends `Mem`, so one model has both. The fifo and the lifo are written with
the atomics of `common/`; `Atomics` shows what the two headers that have to build them
from weaker means give. The maps, the transactions and the runtime use the compiler's
`__sync` builtins directly (`SYNC_CAS`, `SYNC_ADD` and others of `runtime/common.h`),
which are taken as single steps.

## Conventions

Every load, store and atomic operation on a shared word that another thread can
observe is an action of its own; what a thread does between two of them is folded
into the action. Memory is sequentially consistent: the compare-and-swaps and
additions are full barriers in every build, and the plain loads and stores between
them are taken to be of single words and in program order. Where two consecutive accesses are one step, the header
of the module says why nobody can tell.

A thread's program counter and locals are functions of the thread (`pc`, `lhead`,
... or one record `th[t]`). `Call` actions start an operation with any argument;
`Step(t)` is the next step of a thread that is inside one. History variables
(`claimed`, `delivered`, `given`, `taken`, `done`, `initial`, `missed`) are read by the
properties and by no guard; the one exception is `faults` of `Txn`, see there. Operators beside an
operator `X` that are named `X_Something`, or marked `Mutant`, are faulty variants of it, kept to show that each property notices
such a mistake; no specification uses them.

Words are data, so keys are small naturals and values are model values or the
name of the thread that wrote them. Pointers with a mark in the low bit are
pairs `<<node, marked>>`, tagged values of the hashtable are pairs `<<value,
tagged>>`.

## The modules

**`CFifo`** (`cfifo.c`). `head`, `tail`, `sentinel`, `used` and `buffer` are the
struct's fields, `head` to `sentinel` counting without wrap-around and reduced
modulo the size at the array (`Slot`). A push loads the tail, loads the head to
see whether the ring is full, claims a slot by compare-and-swap, writes it, waits
until the sentinel reaches its slot and moves it on, and counts. A pop loads the
sentinel, loads the head, reads the slot, claims it by compare-and-swap, and
counts. `cast`, chosen at the start, says who takes part: two producers and one
consumer, or one producer and two consumers. `BoundedQueue` is what a ring with one
consumer promises.

**`CLifo`** (`clifo.c`, the part that is compiled). The head is moved by
compare-and-swap; then the slot's own state, EMPTY, FULL or BUSY, makes a push wait
for an empty slot and a pop for a full one. `turns`, chosen at the start, says
whether calls overlap; if they do not, the lifo implements `BoundedStack`.

**`Rcu`** (`rcu.c`, `nbd_thread_init`). `rcu[t][j]` is the head of thread `j`'s
queue as last posted to `t`, `rcu_last_posted[t][j]` what `t` passed on; `pending`
and `tail` are the queues of deferred objects. `UpdateCheck`, `UpdateLoad`,
`UpdateStore` and `UpdateFree` are `rcu_update`'s loop and free loop; `DeferFree` is
`rcu_defer_free` with the post at the threshold, `DeferFreeAborts` its failed
assertion on a full queue. `Acquire` is a caller taking a reference to an object
that is still linked; calling `rcu_update` gives all references up. With `Barrier`
work starts when every thread has joined.

**`MapOps`, `Linearizability`**. `Effect` is the sequential meaning of one map
operation on one key, from `map.h`. `Explains` looks for an order of the finished
operations that respects real time and in which each returned what `Effect` says.

**`List`** (`list.c`). `find_pred` with its helping unlink, `ll_lookup`, `ll_cas`,
`ll_remove` (mark, take the value, unlink, or leave that to a search) and the
iterator, begun at the head or at a key. A walk that begins at a key greater than all
in the list ends in `crashed`, see below.

**`Skiplist`** (`skiplist.c`). `find_preds` with its three ways of unlinking,
`random_levels` with the racy high water mark and the cut at `MAX_LEVELS`, `sl_lookup`, `update_item`,
`sl_cas` with its level-by-level linking and the check at its end, `sl_remove` with
its marking from the top down, and the iterator. `cast` says how many threads call,
on how many keys.

**`Hashtable`** (`hashtable.c`). A chain of tables numbered in order. Entries are
`key` and `val` by table; `copy_scan`, `num_entries_copied` and `ref_count` are as
in `hti_t`. `Copy*` is `hti_copy_entry`, `Help*` is `hti_help_copy`, `Cas*` is
`hti_cas`, `Get*` is `hti_get`, `Iter*` the iterator, `StartCopy` is
`hti_start_copy`, `hti_release` the release of a table. Where a key is looked for
(`Probe`, for the hash) and how large the next table is (`Sizes`) are constants.
In the initial states every key is present, removed or was never there, and where
a key found no room in a table its copy into the next one has begun.

**`Txn`** (`txn.c`). `txn[x]` are the `txn_t`s, `rec` the update records, `map` the
newest update of each key, `active` the counts per version. `Begin*` is `txn_begin`
(read the version, count oneself, look at the version again), `Get*` is
`txn_map_get` with its collection of old records, `Set*` is `txn_map_set`,
`Validate*` is `txn_validate` and `validate_key` with helping, a stack of
activations per thread, `Commit*` and `Abort*` end a transaction. Three things the
code does end what can sensibly be said about an execution: a record that was freed
is read, a count is replaced by one not computed from it, a verdict is overturned.
`Fault` records each of them, and the model stops there; the invariants are claimed
up to the first.

**`Mem`** (`mem.c`). Blocks are linked through themselves (`next`), as free lists and
as the single-producer queues `blocks_from` and `blocks_to` by which a block freed
elsewhere comes home. `Malloc*` is `nbd_malloc` with `process_incoming_blocks` and
`get_new_region`, `Free*` is `nbd_free`. A page holds `PageBlocks` blocks of a scale.

**`Hazard`** (`hazard.c`, `hazard.h`). A writer allocates a block, exchanges it for
the one in a shared pointer and passes that one to `haz_defer_free`; a reader sets a
static or a dynamic hazard, looks again, and uses the block until it clears the hazard,
several at a time and while it makes other calls. Both are the user these functions are
made for, not code of the library. `haz[t]` are the hazards of a thread, `dynamic[t]`
and `dynamic_count[t]` its array of registered ones, by number. `haz_register_dynamic`
stores the entry and then the count, `haz_unregister_dynamic` moves the last entry into
the place that becomes free and then lowers the count, and the scan reads count and
entries one after another in between. `missed` is history: the dynamic hazards that
were moved to a place a scan had passed from one it had not reached. In the other
variant of the initial state the user only allocates and frees, each block from any
thread. The arrays do not grow: `HazardAssumption` keeps the number of hazards below
the first size of both.

**`Atomics`** (`catomic_gcc_sync.h`, `catomic_msvc.h`). One word and what each call
does to it, in four builds: the `__sync` builtins; MSVC with one instruction per
call; MSVC on 32-bit x86, where a 64-bit word is read in two halves and replaced by
compare-and-swap; and the same with an unaligned word. Words are sets of bits;
additions are modulo the width. `AtomicRegister` is what `<stdatomic.h>` promises.
The refinement maps a call to the one it makes (`asked`): itself, but for `fetch_and`
and `fetch_or` of the `__sync` build, which the header defines by each other's builtin.

**`Records`**: `With`, a record with some fields changed or added, for the operations of
`List` and `Hashtable` and the locals of the latter.

`MCFifo`, `MCLifo`, `MCList`, `MCSkiplist`, `MCHashtable`, `MCRcu`, `MCTxn`, `MCHazard`
and `MCAtomics` give TLC its symmetry sets and constant values.

## The runs

| run | instance | expected |
|---|---|---|
| `FifoOps` | 2 producers, 1 consumer, 3 pushes, or 1 producer, 2 consumers, 2 pushes; 2 values, capacity 2 | holds |
| `FifoMpmc` | 1 producer, 2 consumers, capacity 2 | `TakesOnlyPublished` fails |
| `LifoConc` | 3 threads, 3 values, array of 3 | holds |
| `RcuRing` | 3 threads, 2 objects, queue of 2, barrier | holds |
| `ListOps` | 3 threads, 2 keys, one operation each, all expectations, walks from the head or a key | holds |
| `SkiplistOps` | 3 threads, 1 key, or 2 threads, 2 keys; 1 or 2 levels, one operation or walk each | holds |
| `SkiplistRetired` | 2 threads, 1 key | `RetiredIsGone` fails |
| `HashtableOps` | 2 threads, 2 keys, 3 tables, 3 calls | holds |
| `TxnOps` | 2 threads, 1 key, 2 transactions, 3 gets and sets, after 0 or 3 earlier transactions | holds |
| `TxnHelp` | 2 threads, 1 key, 2 transactions | `VerdictIsFinal` fails |
| `RuntimeOps` | 2 threads, 2 scales, 4 or 5 allocations, 2 reads by one of them, 1 static and 2 dynamic hazards | holds |
| `AtomicsOps` | 2 threads, 4 builds, 2-bit word, all operations, 3 calls | holds |

What the passing runs show:

- **FifoOps**: no slot is written by two, or written and read at once
  (`NoSlotRace`); "full" and "empty" answers are right (`RefusesRightly`, for "full"
  up to another push between the two loads); the published part is a bounded queue
  (`RefinesQueue`), all three with one consumer. With any number, the count behind
  `cfifo_size` adds up (`UsedAgrees`) and every call returns.
- **LifoConc**: a slot's state is a lock (`SlotExclusive`); nobody waits at a slot
  for a partner that does not exist (`WaiterHasPartner`); nothing is lost or
  handed out twice (`Conserved`); between calls the full slots are those below
  the head (`QuietShape`); calls in turns implement a stack (`RefinesStack`); every
  call returns. Overlapping calls do not implement a stack step by step (a push that
  has moved the head may be overtaken), so the refinement is stated for turns.
- **RcuRing**: nothing is freed while referenced (`NoUseAfterFree`), or twice, or
  beyond the queue (`FreesOnlyRetired`); a posted head never falls back
  (`PostsGrow`); what was posted is freed (`PostedIsFreed`).
- **ListOps**: operations are linearizable; the reachable list is sorted; a node is
  retired once, after it is gone, and never forgotten (`RetiredWhenGone`); a removed node is not revived (`RemovedStaysRemoved`); each
  key a walk returns is greater than the one before (`WalkAscends`).
- **SkiplistOps**: operations are linearizable; every level is sorted (`Sorted`,
  where a node may stand in front of the marked one it replaces); when the calls
  are over each node is on all its levels, or retired once and on none
  (`QuietClean`); a walk ascends (`WalkAscends`).
- **HashtableOps**: operations are linearizable across copies and copies of copies;
  a key is in a table once (in `TypeOK`); an entry is counted as copied once and only
  when it is dead (`CopiedIsDead`); a dead entry stays dead (`DeadStaysDead`);
  a table is freed once, unlinked and under no iterator (`FreedIsUnused`); the count
  of keys is right once calls are over (`CountAgrees`).
- **TxnOps**: a transaction reads its own last write, or what the key had at the
  version it began with, whatever is committed, collected or aborted meanwhile
  (`SnapshotReads`); of two committed writers of a key one began after the other
  (`NoLostUpdate`); along the updates of a key the committed ones descend, as the
  comment at `txn.c:64` says and both walks rely on, though versions are given long
  after the updates were linked (`CommittedDescend`); helping does not go round in
  circles (`HelpIsBounded`). All four up to the first fault.
- **RuntimeOps**: a block is in one place, a free list, a queue or the user's hands
  (`EachBlockOnce`); the end of a queue that a producer links to is still on the
  queue while the owner empties it (`TailIsLast`); a block in use is not freed, though the scan reads the
  hazards one by one, with one exception that the code has, below (`UsedIsLive`); every
  call returns, `haz_defer_free` with a full list included, even if the readers keep
  their blocks.
- **AtomicsOps**: every build is an atomic register (`RefinesRegister`), torn reads
  included, but for the exchanged `fetch_and` and `fetch_or` of the `__sync` build; and
  every call returns when the others do.

### Where the code and its comments disagree

Three runs end in a counterexample to something the repository says.

- `FifoMpmc`: `cfifo_pop` loads the sentinel before the head and tests the two for
  equality. With a second consumer the head may have passed the loaded sentinel,
  and the pop takes a slot whose writer is not done (`cfifo.c:93`, against
  "update sentinel to tell reader that writer is done").
- `SkiplistRetired`: while a node is still being linked at upper levels, its
  remover may unlink and retire it; the inserter links the retired node once more
  before it notices (`skiplist.c:337`).
- `TxnHelp`: a helper that is late finds in the transaction's own update its final
  version, takes it for a conflict and stores `TXN_ABORTED` over `TXN_VALIDATED`
  (`txn.c:128`, against "ensures a deterministic resolution to every conflict").

Others came up while modelling and have no run of their own:

- A thread that joins the rcu ring while a token travels is left out of that round
  (`rcu.c:46`). With `Barrier = FALSE` in `RcuRing.cfg`, TLC finds `NoUseAfterFree`
  violated; with a barrier before the first operation the protocol is correct,
  which is the theorem below.
- `ll_iter_next` tests the mark of the link it came from, not of the node it arrives
  at; a walk that meets a removed node ends there (`list.c:388`). `sl_iter_next` does
  look, but reads the value later: a node removed in between ends the walk as well
  (`skiplist.c:495`).
- An iterator of the hashtable whose table is being copied returns a word with the
  copy's tag, or a removed key (`hashtable.c:700`).
- `ll_cas` and `update_item` of the skiplist do not test an expectation that is a
  value to compare with (`list.c:257`, `skiplist.c:256`); `hti_cas` does. The list and
  skiplist runs use the three special expectations. Transactions pass such values to
  `sl_cas` (`txn.c:181`, `190`), so two transactions at one version are enough for a
  count to go wrong: one is open with count 1, the other raises it to 2, the version
  moves on, and the other's undo passes 1 and writes 0 over the 2. The open one is no
  longer counted, and what it reads may be collected. `txn_abort` never lowers a count.
  No property says that open transactions are counted.
- Old updates are freed by a test on the next one's version (`txn.c:340`), which can
  free a record that an open transaction still needs.
- `catomic_gcc_sync.h:25-26` defines fetch-and by the builtin for or, and fetch-or by
  the one for and, so a program built with that header gets the wrong one of the two.
  `RefinesRegister` holds with the two calls exchanged and fails without (put `call` for
  `asked` in `Register`).
- `haz_unregister_dynamic` fills the free place with the last entry (`hazard.c:172`). A
  scan that has passed that place and not come to the last entry sees the moved hazard
  at neither, and frees a block in use. TLC finds this with two dynamic hazards in one
  thread; `UsedIsLive` has exactly this case as its exception (`missed`) and is violated
  without it.
- A push whose tail went stale between its two loads may be refused by a ring that has
  room (`cfifo.c:63-67`).
- `ll_iter_begin` passes NULL for `item_ptr` (`list.c:356`), and at the end of the list
  `find_pred` stores through it without a test (`list.c:188`): a walk begun at a key
  greater than every key in the list stores through NULL.
- The high water mark of the skiplist may pass `MAX_LEVELS` when more threads race to
  raise it than there are levels to spare (`skiplist.c:75`): a random number asks for at
  most 21 of the 24. In `SkiplistOps` three threads just fit.
- The scan in `haz_defer_free` covers the entries 0 to `MAX_NUM_THREADS` - 1, thread
  ids begin with 1 (`hazard.c:82`); `HazardAssumption` keeps the last id unused.
- Growing the arrays of `hazard.c` copies as many bytes as there are entries.

### Bounds, and why they are enough to be interesting

- `MaxPush`, `Capacity`: three pushes through two slots wrap the ring, so a slot
  is reused while a slow reader of the lap before is possible.
- `Values` of the lifo: every push brings a new value, so three pushes, any
  number of pops, on two usable heights; three threads are needed for two of a kind
  to meet a third at one slot.
- `Objects`, `Threshold` 1, `QueueSize` 2: each object is retired once; the queue
  can fill up, and three threads are the smallest ring in which a token is passed on
  from one thread to another before it is back at its owner.
- `MaxOps`, `NumKeys`, `Casts`: one operation per thread. Three overlapping operations on
  one key is the smallest history in which a helper, a winner and a loser meet. The
  initial states have every subset of the keys, so an insertion, an update and a
  removal can be the first step.
- `MaxLevels` 2: a node has a bottom level, which decides, and an upper one, which
  follows. `MAX_LEVELS` 4: three threads that find the mark at 1 raise it to 4.
- `Sizes`, `Probe`, `Budget`, `MaxCalls`: two of the three tables run out of room,
  so a copy can start while a copy into the same table is under way. Three calls
  between two threads let one thread finish a call and start another on a table
  the other still works on.

- `Past`, `MaxTxns`, `MaxOps`: three earlier transactions leave a chain of records
  long enough to be collected while the two of the run read and validate it.
- `PageBlocks`, `MaxMallocs`, `MaxReads`: a page of two small blocks lets a free list
  and a queue hold more than one block; `MAX_NUM_THREADS` 3 with one static hazard
  each gives a pending list of three, which five allocations fill. Two reads at once
  are one hazard less than the list has entries, and, both dynamic, the smallest number
  in which an unregistration moves an entry. `Readers`: one of the threads reads, and
  both write and scan.
- `Width` 2: a word of two one-bit halves is the smallest that can be torn.

Larger instances were run once and hold too: the skiplist with 3 threads, 2 keys
and unconditional updates and removals (6.6 million states); the hashtable with a
value to compare with as a second expectation (2.1 million states); the fifo with
two consumers and 3 pushes (1.6 million states); transactions with 2 keys, and
with 3 transactions; and, for liveness of bounded numbers of calls, list and
hashtable with 2 threads and 2 calls.

Threads are interchangeable, so the map and transaction runs use a symmetry set. They
check no liveness property, for which symmetry would not be sound. Those runs, and
the ones of the runtime and the atomics, end when the calls are used up, and in `Rcu`
when all objects are freed or the assertion has fired, so they do not check for
deadlock; the fifo and lifo runs do.

### Fairness

`FairSpec` of `CFifo` and `CLifo`, `Spec` of `Hazard` and `Atomics`: weak fairness of each thread's steps inside a
call, none of calls. That is what a preemptive scheduler gives; the spin loops
have no other way to end. Compare-and-swap loops can in principle lose for
ever, but each loss is another call's success and calls are bounded (`MaxPush`,
fresh values, `MaxCalls`, `MaxMallocs`, `MaxReads`).
`FairSpec` of `Rcu`: threads start, and each one keeps calling `rcu_update`, as the
worker loops in `test/` do. Without that no grace period ends, by design.

## The proofs

Eight modules hold proofs: `RcuProofs`, `FifoProofs`, `LifoProofs`, `ListProofs`,
`AtomicsProofs`, and for the hashtable `HashtableInv`, `HashtableWords` and
`HashtableProofs`, one argument in three parts. None bounds the number of threads, of
calls or the sizes. The bounds of the runs are constants of the models (`MaxPush`,
`MaxOps`, `MaxCalls`), so a proof for every value of them is a proof without them.

Each is laid out alike: an inductive invariant, stronger than the properties; a lemma
that the initial states satisfy it; one lemma for each action or kind of action; and
short theorems that take the properties from it.

### The ring of rcu

`RcuProofs` proves four theorems about `Rcu`, for every number of threads, every set
of objects and every queue size and threshold, under the assumption `Barrier`: work
starts when every thread has joined. The assumption is needed, as said above.

- `TypeCorrect`: `Spec => []TypeOK`.
- `GracePeriod`: `Spec => []NoUseAfterFree`.
- `FreesOnce`: `Spec => []FreesOnlyRetired`.
- `HeadsGrow`: `Spec => PostsGrow`.

`NoUseAfterFree` is not inductive: that an object is not held when it is freed
follows from where its token has been. The invariant `IInv` follows the token of
each owner `j` round the ring:

- `Linked`: what `t` passed on is what its successor has, `rcu[Succ(t)][j] =
  rcu_last_posted[t][j]`.
- `Bounded`, `Locals`: a thread never passes on more than it has, and what it is
  about to store lies between the two.
- `Chain`: along the ring from `j`, a thread further on never has more of `j`'s
  queue than one before it has passed on. It is the transitive closure of the two
  facts above, stated with ranks (`Source`, `Target`) so that each step disturbs
  one link.
- `Grace`: once `t` has passed on the token for an entry of `j`'s queue, `t` does not
  hold the object. It gave up its references by calling `rcu_update`, and can take
  no new one, since the object left the structure before it was deferred.
- `Queued`, `QueuedOnce`: entries below `tail` are freed, the others retired; no
  object is queued twice.
- `Updating`: a thread inside `rcu_update` holds nothing and computed its successor
  when everybody had joined.

When the token is home, `Chain` says every other thread has passed it on, and `Grace`
that none of them holds the object. There is one lemma per action.

The constants' assumption is `RcuAssumption` in `Rcu`, which TLC evaluates in the
`Rcu` runs.

### The fifo

`FifoProofs` is about `CFifo` with any finite sets of threads, any
values, any capacity and any number of pushes; all but the last theorem are for
casts with one consumer.

- `CountersOrdered`: `Spec => []Ordered`, head <= sentinel <= tail <= head + Capacity.
- `SlotsNotRaced`: `Spec => []NoSlotRace`.
- `AnswersRight`: `Spec => RefusesRightly`; of a push that is refused it says that the
  ring was full if its loaded tail was still the tail, and nothing otherwise.
- `ImplementsQueue`: `Spec => RefinesQueue`.
- `SizeAgrees`: `Spec => []UsedAgrees`, with any number of consumers; it is inductive
  by itself.

The code compares slots, that is counters modulo the size, where it means counters.
`SlotsDiffer` makes the two the same: counters less than the size apart name one slot
only if they are equal. The inductive invariant says where a thread's counter lies:
a claimed slot that is not published has one owner and is between sentinel and tail
(`Pushing`, `ClaimedOnce`); the consumer's sentinel is at most the true one and its
head is the true one (`Popping`), which is what a second consumer breaks. A producer
whose tail is still the true one has seen room that nobody else can have used.
The refinement then needs that a write goes to a slot outside the published part,
that moving the sentinel appends the value its owner wrote, and that moving the head
removes the value the consumer read.

### The lifo

`LifoProofs`, for any threads, values and array size:

- `TypeCorrect`: the head stays within the array.
- `SlotsExclusive`: `Spec => []SlotExclusive`.
- `NobodyWaitsAlone`: `Spec => []WaiterHasPartner`.
- `RestsAsStack`: `Spec => []QuietShape`.
- `ValuesConserved`: `Spec => []Conserved`.
- `ImplementsStack`: `Spec => RefinesStack`.

The invariant beside the types is a count per slot (`Balanced`): one if the slot is
full or being emptied, plus the pushes that moved the head over it and have not yet
filled it, minus the pops that have not yet emptied it, is 1 exactly when the slot is
below the head. A pop that waits at an empty slot then has a push that is still to
come, and when nobody is there the slots below the head are full. The set of threads
is assumed finite, for the counts.

`Conserved` speaks of values. `Homes` lists the places a value may be in: with a push
that has not written it, in a slot, with a pop that has read it, or returned. `Kept`
says that a value that was pushed has exactly one of them and any other value has none;
each step moves one value from one place to the next.

`RefinesStack` is about calls in turns. `Turn` says that at most one thread is inside a
call and how far its slot is from the head. The number of full slots is then `Level`:
the head, or what it was when the thread inside loaded it (`Counts`). The refinement
mapping takes the stack to be the full slots from the bottom, so a push appends when it
unlocks its slot and a pop takes the last value away when it unlocks its own.

### The ordered list

`ListProofs`, for any threads, any number of keys, any number of operations, any
expectations and every initial list:

- `Invariance`: `Spec => []IInv`.
- `ListIsSorted`: `Spec => []Sorted`.
- `NodesAreRetiredWhenGone`: `Spec => []RetiredWhenGone`.
- `RemovalIsFinal`: `Spec => RemovedStaysRemoved`.
- `WalksAscend`: `Spec => WalkAscends`.

What a thread knows of the list is old when it uses it. `IInv` keeps to what cannot
become wrong: a node once inserted stays a node with its key, and a link with a mark
never changes (`Grow`). `Shape` says that every link, of nodes that left the list too,
leads to a greater key; `Path` that an unmarked node is reachable, that two reachable
nodes never lead to the same one, and that exactly the inserted nodes that are not
reachable have been retired, once. `AnswerOK` is what remains of `find_pred`'s answer
when its caller acts on it: the predecessor is before the key and the item is after the
predecessor. The compare-and-swap on the predecessor's link then does the rest: if it
succeeds the predecessor is unmarked, so reachable, and still leads to the item.

`Reachable` is the least set that has the head and is closed under links, which needs no
recursion: what is reachable after a step is shown by giving a closed set. That an unlink
takes away exactly one node rests on the second part of `Path`.

### The hashtable

`HashtableInv` has the invariant and most of the steps that write no value,
`HashtableWords` what follows when a value is written and what the initial tables look
like, `HashtableProofs` the searches, the steps that count and the theorems; for any
threads, keys, calls, expectations, tables, searches and every initial table.

- `Invariance`: `Spec /\ [](last \in Tables) => []IInv`.
- `CopiedEntriesAreDead`: the same for `[]CopiedIsDead`.
- `DeadEntriesStayDead`: the same for `DeadStaysDead`.
- `ReferencesAreCounted`: the same for `[]Refs`.
- `FreedTablesAreUnused`: the same for `[]FreedIsUnused`.
- `TypeCorrect`: the same for `[]TypeOK`.
- `ChainHasRoom`: `Spec => [](last \in Tables)` where `Tables` is every number from 1.

The condition `last \in Tables` says that `hti_start_copy` has a next table whose size
and searches the constants describe. The program computes them for as many tables as it
needs; `ChainHasRoom` shows that with a constant for each number the condition always
holds, and with finitely many, as in the run, TLC checks it as part of `TypeOK`.

The invariant is that the value of a key is in one place. A table knows a key only when
every table before it is shut for that key (`Chain`, `Shut`): all its entries are dead,
or a search finds no room, or the key's entry has the copy's tag, after which only a
copier writes to it. A thread that updates a key has gone past tables that are over for
it (`CallOK`, `Over`). `CopyOK` is what a thread in `hti_copy_entry` knows: the tables it
skipped have no room for the key or have copied it on, the entry it copies has the tag,
and if somebody else finished first the value has arrived further on (`Landed`). So of the threads that copy
an entry one puts the value down, and the others find it there.

Who counts the entry is the other half. `Counted` says there is a set of entries already
counted and an owner for each other dead entry, such that what each thread has still to
add to `num_entries_copied` is the number of entries it owns (`Accounts`). A thread gets
to own an entry when its compare-and-swap makes it dead or puts its value down
(`Won`, `SomeoneWon`). From this, `num_entries_copied` reaches the size of the table only
when all entries are dead, and then the table may be unlinked.

`Refs`, proved on top of `IInv`, says that `ref_count` is the number of iterators and
releasing threads at a table, and one more while it is linked.

### The atomics

`AtomicsProofs`: `TypeCorrect` and `Implements` (`Spec => RefinesRegister`), for every
width, any arguments, any threads and calls. A loop replaces the word only
when it is the one it expects, so how it came to expect it, from two halves of
different words perhaps, does not matter. The two exchanged calls of the `__sync` build
are among the calls (`Builtin`); the theorem says of them that each is the other one.

### Assumptions, and a remark on the proofs

The assumptions on the constants are named in the modules that declare them
(`RcuAssumption`, `CFifoAssumption`, `CLifoAssumption`, `ListAssumption`,
`HashtableAssumption`, `AtomicsAssumption`); TLC evaluates them in the runs. Beyond them
the theorems on `Rcu` assume `Barrier`, those on `CFifo` (but `SizeAgrees`) one consumer,
and those on `Hashtable` the supply of tables, each in the statement.

The lemma `Untyped` of the larger modules is a tautology with a `CASE` in it. It is used
throughout because the translation to the SMT solver then leaves its type inference
out, which is slow in a module with many obligations.

### Only model-checked

- Liveness (`EveryCallReturns`, `PostedIsFreed`), which needs fairness.
- Linearizability of the three maps: the search for an order is recursive.
- `CountAgrees` of the hashtable: the sum over the tables is a fold, and what a fold
  computes needs induction over the set. That a count follows each value is in the
  actions.
- The allocator (`EachBlockOnce`, `TailIsLast`): a free list or queue is what a recursive
  operator collects along the links. `UsedIsLive` of the hazard pointers is stated in a
  module that extends the allocator's.
- The skiplist (`Sorted`, `QuietClean`, `WalkAscends`). A node is linked at one level
  after the other and may be linked again after it was retired, so the list's invariant
  does not carry over level by level; no proof has been tried.
- Transactions (`SnapshotReads`, `NoLostUpdate`, `CommittedDescend`, `HelpIsBounded`). They
  hold up to the first fault, and an invariant would have to say what every chain of
  records means at every version while it is collected; no proof has been tried.

## What is not modelled, and why

- Weak memory: see the conventions. The memory orders of the atomics are taken as
  sequential consistency.
- Wrap-around of counters: the fifo's 64-bit counters, and the 32-bit head of an rcu
  queue against 64-bit posts, need more steps than a checker takes.
- Keys that are strings, and hashing; the difference of two keys in an `int`
  (`list.c:156`, `skiplist.c:184`).
- `*_free`, `*_print`, `*_count` of the maps and `cfifo_free`: they run alone or only
  read.
- The counter that hands out thread ids (`runtime.c:27`): it is incremented without
  synchronisation, and two threads with one id would share everything the models
  index by thread.
- `RECYCLE_PAGES` of the allocator, which no build defines; the rounding of sizes.
- The growing of the arrays of hazard pointers, which copies too little: what follows
  depends on what the allocator left in memory.
- The macros of older MSVC versions that narrow the operand, the flag type and the
  fences of the atomics; `catomic_gcc_atomic.h` and `catomic_clang_c11.h`, where a call
  is one builtin.
- The composition of the maps with the rcu ring: an operation of a map and a grace
  period of several threads together are beyond TLC. The two sides of the contract
  are checked apart.
- The part of `clifo.c` that is commented out.
- The files listed as such in the first table: `cmpool.c` would have to be guessed,
  `unsafe_skiplist.c` and `mem2.c` are in no build, and `lwt.c`, the demo and the string
  functions have no shared state a property could be about.
