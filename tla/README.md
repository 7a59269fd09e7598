# A verification project for GECOS

GECOS is a benchmark of memory-reclamation schemes. Threads search, insert and
delete keys in a hash table of sorted singly linked lists; each binary is built
with one scheme that decides when a deleted node may be reused: GECOS and SGECOS
(generation counters), hazard pointers, reference counting, RCU, or plain locks.
The modules here model the table, all of the schemes, the node allocator under them and
the driver around them; TLC checks them on small instances and TLAPS proves the
main results for every instance. `PROJECT.json` lists runs, theorems, hazards,
findings and the source lines of each definition.

## Inventory

| Component | Source | State | Operations | Interacts with |
|---|---|---|---|---|
| hash table, writer side | `test.h`, `mrow.c` (`hash_init`, `get_buckets`), `list_writer.c` | `hash.heads`, `hash.locks`, `node_t.key/next` | `insert`, `delete` | calls `lock_wlock/unlock`, the scheme's `free_node_later`, `new_node`; readers load its fields while it stores |
| GECOS | `list_gecos.c` | `node_t.gc` | `search` (three builds), `free_node_later` | writer side, allocator |
| SGECOS | `list_sgecos.c` | a counter in `hash.locks[i]` | `search`, its own `insert`, `delete` | allocator |
| lock-based list | `list_lock.c`, `lock.h` | the bucket locks | `search`, `free_node_later`, lock operations | writer side, allocator |
| allocator | `allocator_malloc.c` | `freelist`, `node_t.mr_next`; per thread `lfl`, `lfl_tail`, `lcnt` | `init_allocator`, `new_node`/`get_free`, `free_node`/`add_free` | called by every scheme |
| driver | `mrow.c` | `go`, `ready`, `done`, per-thread results | `main`, `setup_test`, `test`, `run` | starts all threads, calls the table |
| hazard pointers | `hp.c`, `hp.h`, `list_hp.c` | `HP[]`, zombie lists (through `mr_next`) | `search`, `free_node_later`, `scan` | allocator, writer side |
| reference counting | `rc.c`, `list_rc.c` | `node_t.rc` | `search`, `safe_read`, `lfrc_refcnt_dec/inc` | allocator (readers free) |
| RCU | `rcu.c`, `list_rcu.c` | liburcu, `qsblockeds` | `search`, `free_node_later`, `free_node_cb` | allocator (callback thread frees) |
| atomics, utilities | `atomic.h`, `util.h` | none | barriers, CAS; clock, affinity, random keys, statistics | everything |

What is hard: readers run without locks on memory that is being recycled, so each
of their loads may belong to a different life of the node; the allocator moves
nodes between threads with two CAS loops and keeps thread-local pointers that
outlive what they point to; the driver's threads meet through three flags that
are reused by every iteration. What makes the parts correct:

- table: sorted, complete, no duplicates at every store; a linearizable set;
- schemes: a node a reader may still use is not freed, or the reader finds out
  before it uses what it read; searches end;
- allocator: a node has one owner at a time; calls return;
- driver: threads start together, updaters outlast readers, nobody outlives an
  iteration, the program ends.

## Modules

| Module | What it is |
|---|---|
| `ConcurrentSet` | abstract specification: a linearizable set of keys |
| `HashList` | table, `insert`/`delete` of `list_writer.c`, calls and returns of `search`; refines `ConcurrentSet` through `SetSpec` |
| `Gecos` (EXTENDS `HashList`) | `list_gecos.c`; `MCGecos` adds symmetry for TLC |
| `SGecos` (EXTENDS `HashList`) | `list_sgecos.c` |
| `ListLock` (EXTENDS `HashList`) | `list_lock.c` with every lock of `lock.h` it can be built with, and `list_rcu.c`, `rcu.c`; `MCListLock` says which threads run in which build |
| `RefCount` (EXTENDS `HashList`) | `list_rc.c`, `rc.c` |
| `HazardPointers` (EXTENDS `HashList`) | `list_hp.c`, `hp.c`, with the store buffers of both sides; `MCHazardPointers` adds symmetry |
| `NodePool` | abstract specification: a pool that hands a node to one caller at a time |
| `Allocator` | `allocator_malloc.c` with the callers of each build; refines `NodePool` through `PoolSpec` |
| `ZombieList` (EXTENDS `Allocator`) | the zombie lists of `hp.c` composed with the allocator, whose `mr_next` they share; `MCAllocator` adds symmetry |
| `Harness` | `mrow.c`: `main`, `setup_test`, `test`, `run` |
| `HashListProofs`, `GecosProofs`, `SGecosProofs`, `ListLockProofs`, `RefCountProofs`, `HazardPointersProofs`, `AllocatorProofs`, `HarnessProofs` | the proofs; the first is used by the five after it |

Operators commented as mutants are plausible bugs; replacing the definition that
follows by one of them makes TLC report the property named in `PROJECT.json`.

### State and actions

`HashList`. `head`, `key`, `next`, `lock` are the fields; `free` is what
`new_node` may return; `wpc, wop, wkey, wprev, wcur, wnew` are the updater's call
and locals (`wprev = NULL` stands for `prev == head`). `live` (linked nodes),
`seen` (answers that were right at some moment of an open search) and `ret` are
history. One action per observable store: `Unlink` is `*prev = cur->next`,
`SetKey`, `SetNext`, `Link` are the three stores of `insert`, `FreeNode` makes the
node reusable, and `Step`, `Miss`, `NewNode`, `LockW`, `UnlockW` are what lies
between. A scheme supplies what happens at program counter `"retire"`, between
unlinking and freeing.

`Gecos`. `Retire` is `n->gc++`. `search` is one action per load of shared memory:
`ReadHead`, `ReadHeadGc`, `CheckHead`, `ReadKey`, `ReadNext`, `ReadNextGc`,
`CheckNext`, `CheckGc`, and for GECOS_B `CheckPrev`. The variable `build` says
which of the three functions it is: GECOS goes back to the head when `next`
changed, the others re-read it; GECOS_B goes back to `prev` when `cur` was
recycled. GECOS_B reads `prev` before it was ever assigned when that happens at
the first node; `WildPrev` then lets the load fault, fail the comparison or
succeed at any node, and `wild` remembers it. Nothing is claimed of such a search
but that it does not disturb the others. `prev_key` is CHECK_CCRT's local.

`SGecos`. `gen` is the counter in `hash.locks[i]`, `Retire` is `(*lock)++`,
`CheckGen` is the comparison after each node.

`ListLock`. One walk, bracketed differently in each build (`crew.build`).
`holders` are the readers between `lock_rlock` and `lock_runlock`. With LSPIN and
RWLOCK a writer waits for them, a reader for a writer and, with LSPIN, for other
readers. With SEQLOCK and GCLOCK `gen` is the counter in the lock word without the
writer's bit (`lock` has that): `LockR` copies it to `rgen`, `Validate` and
`UnlockR` compare, `SearchRetry` is the `goto search_retry` of the macros, and
`CountUnlock` counts each `lock_wunlock`. Delete's GCLOCK path is `Retire`, which
gives up the lock, followed by `FreeLate`, which frees without it (`wpc = "late"`). With RCU
`CallRcu` notes the readers inside at that moment (`waiting`), and `FreeNodeCb`,
in liburcu's thread, frees when they have left. liburcu and the pthread locks are
external: a grace period lasts at least until the readers that were inside have
left, and ends some time after.

`RefCount`. `rc` is the count. `LoadLink`, `IncrementIfNotZero` and `CheckLink` are
the three accesses of `safe_read`; the CAS loop of `increment_if_not_zero` is its
successful round. `lfrc_refcnt_dec` is a recursion of atomic subtractions: `dec[t]`
is the argument of the level thread `t` is at, `dying[t]` the nodes it frees on the
way back, and `RefcntDec` one level. A thread in it does nothing else.
`free_node_later` counts `n->next` and then enters it.

`HazardPointers`. `HP` is the memory the slots are in, `buf` each reader's store
buffer; `Protect` appends to it, `Flush` writes its oldest entry to memory at any
time, and `CheckPrev`, the `*prev != cur` of the code, waits for an empty buffer
only if `barrier` is the full one the comment in `atomic.h` describes. `FreeNodeLater`
puts a node on `zl`; `ScanSlot` is stage 1 of `scan`, one slot at a time and in any
order; `Sweep` is stages 2 and 3. The updater has a store buffer too: the steps of
`HashList` stand where its stores reach memory, and `ScanAhead` is a slot read by a
`scan` whose unlinking store has not got there (`Unstored`). It is disabled if
`fence` is the full barrier that the comment at `hp.c:62` describes; in the code
there is a compiler barrier at `hp.c:74`. Under a lock only the unlinking store of
this call can be waiting, as taking the lock empties the buffer; with ONE_WRITER
stores of earlier calls can, too (bound: the updater is not two scans ahead of
memory). `Missed(w, s)`: updater `w` is ahead, has read slot `s`, and did not find
there what it names now. `firm` and `sound` are history: the slots whose node was
linked at a moment when the slot named it and was not missed, and whether every
check of the walk so far was made through the head or a linked node, with the slot
in memory (the reader's buffer empty) and not missed.

`ZombieList`. `zlist`, `number` and the loop of `scan` over `tmplist`: `KeepZombie`
and `FreeZombie` pop a node, read its `mr_next` and relink or free it, with the
steps of `add_free` in between. The nodes on these lists have `place` "zombie". Which
zombies a slot names is left open here. `scan` can call `free_node` on a node that
was freed before, since a push may hang the old `freelist` behind a zombie;
`FreesOffLists` says what such a call may do.

`Allocator`. One action per access to shared memory: `Load` and `Swap` are the
loop of `get_free`, `Pop` takes the head of `lfl`, `AddFree` is `add_free` up to
the test of `lcnt`, `ReadFreelist`, `LinkTail`, `Expect`, `Push` are the push with
its retry. `place` and `users` are history: `users` is how many callers
have a node, `place` says on which list a node is, and
when a push succeeds with a tail that is elsewhere, it follows the nodes that were on
`freelist` to where the tail is. `freers` is who frees in this build:
the updater (GECOS, SGECOS, locks, hazard pointers), the RCU callback thread, or
updater and readers (reference counting). `InitAllocator` and `NextIteration`
follow `test()`: the table is populated before `init_allocator`, it is not deleted
afterwards, and the threads' local lists die with them.

`Harness`. The arguments are the initial values of `nbthreads` and `nbupdaters`;
`MainStep` and `ThreadStep` follow `main`/`test` and `run`. A call of the table is
one step.

### Abstractions

- *Memory model.* Actions are sequentially consistent. On x86 (the only target
  `atomic.h` accepts) stores of a thread become visible in order. In GECOS and
  SGECOS readers only load, so delaying a writer's stores has the same effect on
  them as scheduling the writer later; the barriers of the code are then compiler
  barriers. The same holds between an updater and another that waits for its
  lock, and for the readers of the counting locks and of RCU. Reference counting
  uses locked instructions, which drain the buffer. With hazard pointers both sides
  store and then load what the other stores: a reader its slot and then the link, an
  updater the link and then the slots. So `HazardPointers` has store buffers for
  both. An updater that runs ahead of its stores matters only where it reads what
  others write without a locked instruction, which is in `scan` alone.
- *`scan`* is taken to find in `plist` what is there. `compare` (`hp.c:43`) truncates
  a pointer difference to `int`, which need not be a total order; see the hazards.
- *Repeated loads of a field.* `cur->key` is read twice in the source of `list_hp.c`
  and `list_rc.c` and once at the `-O2` of the Makefile; the model reads it once.
- *Memory.* `Nodes` bounds what `calloc` can produce. `new_node` waits rather
  than fail when all are taken.
- *Counters.* `gc` and `gen` are naturals; the code's wrap after 2^64. `MaxGc`
  and `MaxGen` bound them by disabling calls of `delete`, never a step in the
  middle of one.
- *Random keys* are a nondeterministic choice, and an updater may call insert and
  delete in any order (`run` alternates them).

## Runs

| Run | Instance | Shows |
|---|---|---|
| `gecos` | 3 nodes, keys 0, 1, 3 in 2 buckets, 1 updater, 1 reader, `MaxGc` 2, builds GECOS and GECOS_R | `ListWellFormed`, `OneRole`, `GenerationProtects`, `CheckCcrt`, refinement of `ConcurrentSet` |
| `gecos_back` | 2 nodes, 2 keys, 1 bucket, 2 locking updaters, 1 reader, `MaxGc` 1, GECOS_B | the inductive invariant, `SearchLinearizable`, `SearchReturns` |
| `sgecos` | 2 nodes, 3 keys, 2 buckets, 1 updater, 1 reader, `MaxGen` 2 | the inductive invariant, `BucketGenerationProtects`, refinement, `SearchReturns` |
| `list_lock` | 2 nodes, 2 keys, 1 bucket; LSPIN and RWLOCK with 1 writer and 2 readers, GCLOCK with 2 writers and 1 reader, SEQLOCK, GCLOCK with ONE_WRITER and RCU with one of each; `MaxGen` 3 | the inductive invariant, `LockProtects`, `CounterProtects`, `GraceProtects`, refinement, `LocksReleased`, `GraceEnds` |
| `rc` | 3 nodes, 2 keys, 1 updater, 1 reader | the inductive invariant, `CountsExact`, `CountedNotFreed`, refinement, `Reclaimed` |
| `hp` | 2 nodes, 2 keys, 1 locking updater, 1 reader, `R` 0, both kinds of the reader's and of the updater's barrier, store buffers of 1 | the inductive invariant, `HazardRespected`, `FencedHeadProtects`, `ZombiesBounded`, `SoundSearches` |
| `hp_prev` | 3 nodes, `R` 0, full barriers | a reader led to a freed node (finding) |
| `hp_tso` | 3 nodes, `R` 0, sfence in `search`, full barrier in `scan` | a hazard pointer too late (finding) |
| `allocator` | 5 nodes, 1 updater; freers are the updater, the RCU thread, or updater and reader; without and with zombie lists (`R` 1); `AmortFree` 2, 2 iterations | the inductive invariant with the zombie lists, `ScanEnds`, `FreesOffLists`, refinement of `NodePool` |
| `allocator_fair` | 4 nodes, 1 updater, RCU thread | `CallsReturn` |
| `allocator_updaters` | 3 nodes, 2 updaters | a node handed out twice (finding) |
| `harness` | all `nbthreads`, `nbupdaters` up to 4, `NB_TEST` 1, 2 iterations | the inductive invariant, `UpdatersOutlastReaders`, `StartTogether`, `NoStragglers`, `Terminates` |

Why the bounds are enough. Readers do not write shared memory, so one reader
meets every schedule of updates; two are used where they exclude each other.
Three keys in two buckets give a node another bucket and a smaller key to be
recycled under, while its old list has a successor; with keys 0, 1, 3 the node of
1 or 3 can come back as 0, which is what makes the order of accepted keys
(`CheckCcrt`) breakable. `MaxGc` 2 lets a node a reader holds go through two more
lives. Four nodes with `AmortFree` 2 are two full batches, so a push can find
`freelist` non-empty and lose it to an allocator before its CAS. Two iterations
cover what survives one. `MaxGen` 3 is an insert, a delete and an insert under
another key: the life and the reuse of a node a reader of a counting lock holds.
In `rc` three nodes make a chain of two unlinked nodes with a third recycled, so
that a reader drops more than one node at once and finds a count that was 0 and is
not any more. With `R` 0 (DIRECT_SCAN) every delete scans, so two nodes
meet every order of unlinking, scanning and protecting; `hp_prev` needs a third for
the chain. A store buffer of one entry is enough to delay the store past the load.
Longer buffers, and an updater with ONE_WRITER that is ahead of more than one store,
are left to the theorems.

`CHECK_DEADLOCK FALSE` is set where the program ends: in `Harness` when `main`
returns (that it gets there is `Terminates`), and in `Allocator` when the last
iteration has run out of memory to allocate. In the other runs deadlock is
checked.

Fairness. `Gecos` and `SGecos`: each reader's next step, weakly; the scheduler
runs every thread, and the property must hold even if the updater is never run
again, so it gets none. `ListLock`: weak fairness of each thread's next step; a
pthread lock promises no order among waiters, so no thread's *acquisition* is
assumed, and none is claimed. The callback of each node given to `call_rcu` gets its
turn, since liburcu runs them in order. `RefCount`: every thread's next step; no
fairness of calls. `Allocator`: a thread inside the allocator takes its
next step. `Harness`: all threads run, and the calls they make return.
`CallsReturn` is restricted to the builds where the allocating and freeing threads
do not mix: with reference counting an updater that keeps pushing can starve a
reader's push.

## Proofs

All eight proof modules are checked by tlapm to the last leaf, without assumptions
other than the named ASSUMEs of the constants: keys are naturals, there is a
bucket, NULL is no node, thread or key, with ONE_WRITER there is one updater
(`HashListAssumption`); GCLOCK with ONE_WRITER is run by one updater
(`ListLockAssumption`); there are finitely many nodes and threads where a count
or the length of a list is compared with them (`RefCountAssumption`,
`HazardAssumption`); bounds are naturals. Nothing bounds how many nodes, keys,
buckets or threads there are. `gc`, `gen`, `rc` are naturals in the proofs too, and
the bounds `MaxGc`, `MaxGen`, `MaxBuffer` are arbitrary.

*The list* (`HashListProofs`). `ListInv` adds to `ListWellFormed` and `OneRole`
that a call in the list owns its bucket, that `prev` is the last linked node before
the key (`AtPosition`), what each program counter has prepared (`WellPlaced`), and
that the answer of the moment is among those an open search may give. It is
needed because sortedness after `Link` depends on what `Step` found out many steps
earlier. `WriterStepInv` shows that every step of `insert` and `delete` keeps it,
`WriterRefines` that each is an abstract insert, delete or nothing. Both are
independent of the scheme and shared by the theorems below.

*GECOS* (`GecosProofs`). `Guarded(r, n, g, low)`: as long as `gc[n] = g`, node `n`
is linked or unlinked-but-not-retired, lies in the reader's bucket, and if it is
the last one looked at, the answer was right at some moment of the call. The
double reads of `head` and `next` establish it, gc only grows, and every store
that could break it happens to a node whose gc has moved. From this
`Invariance`, `TypeCorrect`, `Sorted`, `Roles`, `Protection`, `Ccrt`,
`Linearizable` hold for any number of nodes, keys, buckets, readers and (with
locks) updaters and all three builds; `Refinement` (the table implements
`ConcurrentSet`) for the builds without GECOS_B, whose uninitialised `prev` can
make a search answer anything.

*SGECOS* (`SGecosProofs`). The same argument with one counter per bucket:
`Invariance`, `Protection`, `Refinement`.

*Allocator* (`AllocatorProofs`). A list cannot be described by reachability
without recursion, so the invariant speaks of places: every node is in the heap,
held by a caller, a zombie, on the shared list, on one thread's list, or lost; links
stay inside a place, no two meet, none leads to a head, and every set of nodes has
one that leads out of it (`Acyclic`). The stale `lfl_tail` of an updater is the
crux: it may be anywhere, in use, on a reader's list or in the middle of
`freelist`. Its link does not count (`Loose`) from the moment the thread sets out to
push until the CAS has succeeded, or until another thread has put the node on a list
and given it a proper link. When the CAS succeeds, what was on `freelist` is behind
the tail, wherever that is (`Behind`); nodes are leaked, but none is on two lists.
What would go wrong is a second thread that takes nodes off a list while a loose tail
is on it (`NotLoose`), and that needs a second updater, as the main thread allocates
only while the others do not run (`Phases`). So `Invariance` and `PoolSafe` hold for
every number of nodes, threads and iterations in the builds that are `Tame`: one
updater, or updaters that do not free. This covers every Makefile target with one
updater, and RCU with any number; with two updaters that free it is false (finding 1).
`ZombieInvariance`, `ZombiePoolSafe` and `ScansEnd` say the same with the zombie lists
of `hp.c` on the same `mr_next`: a push in the middle of `scan` may hang the old
`freelist` behind a zombie, and `scan` then frees these nodes a second time.
`FreesAreOffLists` shows that this does no harm: every `free_node` is of a node that
a caller holds or that is on no list any more, so none gets onto two.

*Locks and RCU* (`ListLockProofs`). One invariant for all builds. `Holding`: the
holders of a bucket are the readers between lock and unlock, and a lock that
excludes keeps writers out. `Guarded`: the node was not freed, or waits for this
reader's read-side section to end. While the reader is inside and its counter, if
it has one, is unmoved, its node is `Fit`: guarded, of its bucket, and as the
last node looked at it would give an answer that was right at some moment. With
RCU the node may have been unlinked long ago, and then its `next` leads on to a
node that is fit as well (`PendingLeads`); this is inductive because a node that
the reader could reach and that is deleted later starts waiting for it too.
`Invariance`, `LockProtection`, `CounterProtection`, `GraceProtection`, and
`Refinement`: with every lock, and with RCU, the table is a linearizable set.

*Reference counting* (`RefCountProofs`). `CountInv` says that `rc` is the number of
references, a sum of cardinalities each of which an action changes by one element,
and that a free or dying node has none. It gives `ExactCounts` and
`CountsProtect`, the assertion of `lfrc_refcnt_dec` among them. For `Refinement` a
reader needs more: it may walk on through a chain of zombies. `Walk(r, S)` is about
some set `S` of zombies, those unlinked during the search, each of which leads into
`S` or to a linked node. A node leaves `S` when its last reference is dropped; by
the counts nothing in `S` then leads to it and no reader stands on it
(`LastAlone`), so the rest of `S` still has the property.

*Hazard pointers* (`HazardPointersProofs`). `FirmKept`: the node of a firm slot is
linked or a zombie, and a scan that could free it, or one that is ahead of its
stores, has yet to read the slot or has found the node there. This makes `Sweep`
safe (`HazardsRespected`) whatever the order in which slots are read and stores
become visible; a slot that an updater ahead of its unlinking store has missed is
not firm, and nothing is claimed of it. `ScanCounted` bounds the nodes a scan found
by the slots it has read, and from it `MemoryBounded`, with any barriers. `Stored`
and `Fenced` say where the last store to a slot is, in the buffer or in memory;
behind full barriers on both sides the check at the head makes the slot firm, hence
`HeadProtection`. `SoundWalk` carries a sound reader from one firm slot to the
next, hence `SoundAnswers`. What these theorems leave out is what findings 2 and 3
are about: nodes reached through an unlinked one, and either barrier as it is in
the code.

*Driver* (`HarnessProofs`). What `main` knows in each phase: a reader and an
iteration are left (`Accepted`); the threads created wait at the barrier or come
to it, and `ready` is their number (`Gathering`); those above `mi` have been joined
and `done` is set exactly when all readers were (`Joining`). Hence
`UpdatesThroughout`, `StartsTogether`, `NoneLeft` for every number of threads,
updaters and iterations.

Only model-checked: the liveness properties, which are outside this prover
(`SearchReturns`, `LocksReleased`, `GraceEnds`, `Reclaimed`, `CallsReturn`,
`Terminates`).

## Findings

1. *Two updaters can get the same node* (`allocator_updaters`).
   `get_free` leaves `lfl_tail` at a node it has handed out. If another updater
   deletes and frees that node, the first one later links it to `freelist` although
   it is now in the middle of somebody else's list; the cycle this makes hands out
   a node twice. The code says "only one freer" (`allocator_malloc.c:143`), while
   `setup_test` accepts any `nbupdaters < nbthreads`.
2. *A hazard pointer does not protect behind an unlinked node* (`hp_prev`,
   `list_hp.c:42`). The check that `cur` is still linked reads `prev->next`, and
   `delete` leaves the `next` of the node it unlinks as it was. A reader that stands
   on an unlinked node is led on to a node that was deleted and freed afterwards,
   and its check passes. Searches in which this does not happen are right
   (`SoundSearches`).
3. *The hazard pointer can become visible too late* (`hp_tso`, `list_hp.c:41`).
   `write_read_barrier` is an `sfence`, which does not keep the following load
   behind the store. The updater's side is alike: `write_write_barrier`
   (`hp.c:74`) is a compiler barrier (`atomic.h:157`), so `scan` can read the slots
   before its unlinking store is in "all processors' views" (`hp.c:62`), and a
   reader that protects the node after that and still finds it at the head has it
   freed under it. `HazardTso.cfg` with `Barriers = {"full"}`, `Fences =
   {"compiler"}` shows this schedule. With full barriers on both sides the first
   node of a bucket is protected (`FencedHeadProtects`).

The FIXME at `list_rc.c:52`, whether `n->next` may be counted after `n` was
unlinked, is answered by `CountsExact`: the count of `n` itself, which the updater
still owns at that moment, keeps `n->next` from being dropped. A remark without a
run: both ways out of the loop of `run` come before `++i`, so `thd_ops` is one less
than the calls made, and 0 for an updater that finds `done` set at once (the model
has no `thd_ops`).

## Not modelled, and the plan

Left out: LOCK_CLASSIC, which defines no `lock_runlock` and does not compile with
`list_lock.c`; OSA_BEST, SEQLOCK_VLD, GCLOCK_NONEED, RCU_COUNT_BLC, SIMPLE_ALLOC,
SIMPLE_AMORT_FREE and PREALLOCAT, which nothing defines; functions nobody calls
(`hash_delete`, `delete_allocator`, `allocator_thread_free`, the wrappers of
`rc.c`); statistics, timing, affinity, random numbers and the signal handler of
`util.h`, which are sequential and touch no state another thread reads; a
`pthread_create` that fails; addresses, and with them `compare`.

Order of the work:

1. done: `HashList`, `Gecos`, `SGecos`, `Allocator` with their proofs; `Harness`.
2. done: `ListLock` with all its locks and RCU; `RefCount`; `HazardPointers` with
   store buffers; `ZombieList` on top of `Allocator`.
3. done: the proofs of `ListLock`, `RefCount`, `HazardPointers` and `Harness`.
4. done: `AllocatorProofs` for all builds with one updater, and the zombie lists.
5. Left: every safety property the passing runs check is proved. What could be added
   are action properties of the readers, such as a bound on how often `search` is sent
   back to the head by one `delete`.
