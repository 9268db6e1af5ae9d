# A verification project for the CodeSamples of perfbook

`src/` is the book *Is Parallel Programming Hard, And, If So, What Can You Do
About It?* with the programs it discusses under `src/CodeSamples`. The programs
are small, lock-free or finely locked, and correct or wrong for reasons that
stress tests reach only by luck: the order of two stores, a thread preempted
between two loads, a signal between a check and an update. This directory holds
TLA+ models of the central ones, translated from the C code, with what TLC
checks and TLAPS proves about them. Paths below are relative to
`src/CodeSamples` unless they start with `src/`.

## 1. Inventory

| Part | State | Operations | What is hard | Correct means |
|---|---|---|---|---|
| `defer/rcu*`, `defer/srcu` (17 implementations of RCU) | grace-period counter or index, lock, per-thread announcement or counters, pending signals | `rcu_read_lock`, `rcu_read_unlock`, `synchronize_rcu` | readers write without locks through store buffers; a reader stalls between load and store; counters wrap; signals come late | `synchronize_rcu()` outlasts every critical section under way at its call, and returns |
| `defer/hazptr.[ch]` | array `HP`, per-thread `rlist`, `rcount`, `gplist` | `hp_try_record`, `hp_clear`, `hazptr_free_later`, `hazptr_scan`, `hazptr_thread_exit` | publication against scan; reuse of memory; sort and search by address | what is validated is not freed; what is retired is freed once |
| `defer/route_*` (routing table, seven ways), `defer/seqlock.h` | linked list, lock, sequence number, reference counts | `route_lookup`, `route_add`, `route_del`, `route_clear` | lookups without locks on entries being removed, freed and reused | a lookup uses no freed entry and its answer was right at some time; nothing leaks |
| `datastruct/hash/*` | buckets with locks and lists, for the resizable tables two instances | lookup, add, delete, `hashtab_resize` | lookups during deletions and resizes; two locks per update | present keys are found, absent ones are not, nothing freed is used |
| `datastruct/skiplist/*` | nodes with a pointer and a lock per node or one lock; `sl_seq`, iterator hints | lookup, lookup with lock, iterators, insert, delete, rebalance, `skiplist_fsck` | searches overtaken by updates before the lock is there; hints that grow stale | every level is an ordered part of the level below; iterators pass over nothing |
| `count/*` | per-thread counters, global count and reserve, arrays of counters | `add_count`, `sub_count`, `inc_count`, `read_count`, register, unregister, `eventual` | one thread takes another's count, by signal or by xchg; threads exit under readers | the count is exact, or between bounds, and within its limit |
| `SMPdesign/*deq.c` | lists, one lock per end or bucket, or a read-write lock and reservations | push and pop at both ends | both ends at once, lock order | a linearizable double-ended queue; every operation returns |
| `SMPdesign/smpalloc.c` | global and per-thread pools | allocate, free | blocks migrate between pools in runs | no block lost or handed out twice |
| `SMPdesign/maze/*` | a grid with walls, visited cells, per-thread knowledge | create, four solvers | threads meet in cells and learn of each other; when to stop | a tree; the one way from start to end, whoever found its pieces |
| `datastruct/log/*` | array of records, next index | append, read | the index is visible without the lock | no index before its record |
| test drivers (`*torture.h`) | `goflag`, counts, elements per thread | parent, readers, updaters, callbacks | start-up, stop, clean-up, use of elements after they are given away | a right structure sets off no alarm but those the driver causes; the test ends; of hash and tree tests no callback is left |
| `datastruct/Issaquah` | nodes with children, a lock and `existence` each; existence groups | lookup, map, insert, delete, atomic move | searches without locks; a move is four updates in two trees, and may have to be backed out | a key is in one tree or the other, and every answer was right |
| `datastruct/existence` | groups of any number of elements of several structures | the same, for hash tables, lists and queues | | not modelled |
| `advsync`, `locking`, `toolsoftrade`, `intro`, `cpu`, `future` | small | queues, locks, tutorials, measurements | | not modelled |
| `formal` | litmus tests and Promela models | | other formalisms | |
| `api-pthreads`, `arch-*` | | locks, atomics, per-thread variables, threads | | the modules use their effect |

The parts interact by calls in one address space: the hash tables, routing
tables, skip lists and trees call RCU or hazard pointers; counters use the thread
registry of `api-pthreads`; the `*torture.h` headers call all of them from many
threads. There is no persistent state and no network, so nothing about crashes
or messages arises; signals (`count_lim_sig`, `rcu_sig`) are the one asynchronous
delivery. `PROJECT.json` lists every component, the ones left out with the
reason, and the hazards of the code line by line.

## 2. Conventions

* **One action per access to shared memory**, unless a lock that the module
  keeps makes several accesses indivisible for everybody else.
* **Memory ordering.** Where the code's correctness is about ordering (all RCU
  modules, the hazard pointers), a plain or `WRITE_ONCE` store of a reader goes
  to a FIFO store buffer of its thread, becomes visible at any later step, and
  `smp_mb()` completes only when the buffer is empty: the model of x86, the
  weakest for which the samples' `READ_ONCE`-free loads are meaningful one by
  one. The tables, counters, queues and mazes take stores as visible at once:
  what they rely on there is locks, atomic operations and release stores.
  Reordering of loads is not modelled. Stores made between a lock and the
  `smp_mb()` right behind them are made visible at once.
* **Locks** are a variable with the holder; who asks waits until it is free.
* **Families.** Implementations with one interface are modules, or sections of one,
  over a base (`RcuBase`, `NestBase`, `CounterBase`, `TableBase`, `DequeBase`,
  `TortureBase`). A variable `impl` (`driver`, the mazes' `args`)
  says which of them the program is linked with, is chosen in `Init` and never
  changes; the composing module takes the disjunction of their steps and states
  the properties once for all of them.
* **History variables** (`preexisting`, `steady`, `ever`, `seen`, `incs`) record
  what a property refers to and are in no guard of an action of the code.
* **Integers.** Counters that the code relies on to wrap, or that wrap where it
  does not expect it, are taken modulo a small power of two (`WORD`).
* **Mutants.** A definition whose comment begins with `Mutant` is not part of
  the model: it is a variant of the definition below it with a plausible bug,
  used to show that a property can fail.

## 3. Modules

### Grace periods

`GracePeriod` is what every RCU promises: threads enter and leave critical
sections, `synchronize_rcu()` records who is inside when it is called and
returns only when all of those have left.

| Module | Code | State and actions |
|---|---|---|
| `Rcu` | `defer/rcu.h`, `rcu.c` | `rcu_gp_ctr`, `rcu_gp_lock`, `rcu_reader_gp` keep their names. `ReadLockLoad`, `ReadLockStore`, `ReadLockMb` are `rcu_read_lock()`; `ReadUnlock*` the unlock; `SyncMb` to `SyncReturn` are `synchronize_rcu()`, with the two loads of the wait condition apart (`SyncOdd`, `SyncBehind`). |
| `RcuNest32` | `rcu_nest32.[ch]` | the single grace-period bit as `phase`; nested calls; `Flip` and `Wait` twice. The number of grace periods is unbounded. |
| `RcuNest` | `rcu_nest.[ch]` | words modulo `WORD`, nesting in the low bits, the retry of `rcu_read_lock()` with `ULONG_CMP_GE`. |
| `RcuRcpls` | `rcu_rcpls.[ch]` | paired counters per thread, free-running index; the three outcomes of `ctr - oldctr`. |
| `RcuFamily` | `rcu_lock`, `rcu_lock_percpu`, `rcu_rcl`, `rcu_rcg`, `rcu_rcpg`, `rcu_rcpl`, `rcu64`, `rcu64_atomicgp`, `rcu_ts` | one skeleton (announce, barrier; advance, wait), with per-implementation operators for what is announced and waited for. `ctr` is the clock of `rcu_ts`: it may go on by one at any time, does so by some member of `Ticks` over a barrier, and `Even` and `Odd` are the masks applied to a reading |
| `RcuFamily` | `rcu_qs`, `rcu_nest_qs` | threads are online or offline and report quiescent states |
| `RcuFamily` | `srcu.[ch]` | pairs of counts changed inside sections of liburcu's RCU, which is external |
| `RcuSig` | `rcu_sig.[ch]` | `urcu_qs`, pending signals, the handler at any location of its thread |

`RcuFamily` has a section for each of its three families and composes them with
`RcuSig`; `RcuBase` has what the two share. `NestBase` and `RcuNested` do so for the three nestable ones.

### Counters

`LimitCounter` is what the limit counters of `count/` promise: an addition or
subtraction takes effect as a whole or not at all, the count stays within the
limit and, for exact counters, a call fails only if the limit is in its way.

| Module | Code | State and actions |
|---|---|---|
| `CountLimSig` | `count_lim_sig.c` | `theft`, `counting`, `counter`, `countermax` per thread, pending signals; the handler `flush_local_count_sig` is an action that may interrupt its thread at any location; `flush_local_count()` sends, resends, steals. |
| `CountLimAtomic` | `count_lim_atomic.c` | `counterandmax` as one word of two halves, split and merge by arithmetic; the cmpxchg loop against the xchg of a flush. |
| `CountLim` | `count_lim.c`, `count_lim_app.c`, `count_limd.c` | the fast paths and `globalize_count()`, `balance_count()` |
| `CountStat` | the nine statistical counters | threads register, increment, read, unregister; `eventual()`; the array that `count_end_rcu.c` replaces |

`Counters` composes them over `CounterBase`.

### Hazard pointers and their users

`HazPtr` (`defer/hazptr.[ch]`) is a library of actions: `HP`, `rlist`, `rcount`,
store buffers, the state of memory (`mem`), the scan slot by slot. Objects are
addresses, and `compare()` is the code's: a difference cut off to an `int`. Where it
orders what the scan has collected (`Orders`), `bsearch()` finds what is there; where it
does not, `bsearch()` may miss (`MayMiss`), and a step of the scan frees any set of objects
that it may take for not hazardous. `Near` says that no difference is cut off. `RouteHazptr` (`defer/route_hazptr.c`) and `HashBktHazptr`
(`datastruct/hash/hash_bkt_hazptr.c`) extend it; `HazptrTables` composes them.

### Tables, skip lists and trees

`TableBase` keeps lists of entries whose memory is freed and handed out again;
an unlinked entry keeps its next pointer (`stale`). Over it, `ListTables` has
a section each for `route_seq.c`, `route_refcnt.c`, `route_seqlock.c` (with
`seqlock.h`), `route_rcu.c` (with `route_cacm.c` and `route_cacm_c11.c`) and the
hash tables (`hash_unsync.c`, `hash_global.c`, `hash_bkt.c`, `hash_bkt_rcu.c`);
names that several files define carry a prefix (`seqlock_route_del`).
`Skiplist` has a section for `skiplist.h` and the walks, one for `skiplist.c` with a
lock per node, one step per load of a next pointer and per lock with the tests
under it (`Locks...`), and `skiplist_glock.c`, with its search one step (the lock
keeps others away) and every store apart (`Glock...`).

`Tree` has `Issaquah/tree.c` with `existence.c` and `spinlockmult.c`: two trees of
two keys whose nodes are their addresses, because `spin_lock_mult()` sorts by
address; searches one load at a time; insertion and deletion under both locks,
looking again at what they have found; a deletion unlinks and marks in two steps;
a move is `tree_existence_add`, an insertion, `Switch`, a deletion and
`tree_existence_remove`, or is backed out. `ever` and `steady` say, for each call,
which keys have been in its tree at some time of it and at all times. `Tables`
composes all of these.

`HashResize` models `hash_resize.c` and `hash_resize_s.c`: instances of the
table, for each element the instance that each of its two `hte_next` is linked
into, bucket locks, the resize loop with its two grace periods, and deferred
freeing. Grace periods are taken as RCU promises them.

### Queues, allocator, mazes

`Deque` is the linearizable double-ended queue. `Deques` has `lockhdeq.c`
(and `lockdeq.c`, the same algorithm with other constants), `locktdeq.c` and
`lockrwdeq.c`, which are shown to implement it, the last one under a premise about its
callers (`OneThreadPerEnd`). Its list is `prev` and `next` per node (`ptr`); an operation
loads the nodes it works on into `reg` and stores the pointers in a later step. The
mapping of the hashed ones reads the queue off the buckets, starting right of
where the left-hand index will be once the operation that has been at its bucket
is over. `SmpAlloc` is `smpalloc.c` with its test; `SmpDesign` composes the four.

`Maze` has the maze, its creation or the one read by `--input` (`maze.c`), then a section
each for `maze_seq.c` with `maze_2seq.c`, `maze_fg.c` and `maze_part.c`, and the program
linked with one of them. `args` are the program and its options, chosen in `Init` from
`Commands`; `TortureDrivers` lists them and runs the mazes beside the test drivers.

### Test drivers

`TortureBase` is the parent with its threads, `goflag` and callbacks; the
structure under test is `store`, changed in one step by each of its operations.
`DatastructTorture` has `hashtorture.h`, `treetorture.h`, `skiplisttorture.h`,
`logtorture.h` (with `log_glock.c`), `deqtorture.h` and `queuetorture.h`, `DeferTorture` has `rcutorture.h`,
`routetorture.h`, `seqlocktorture.c` and `hazptrtorture.h`, `CounterTorture` those of
the counters; `TortureDrivers` composes them, and `Maze`: one behaviour is one run of
one program.

## 4. Runs

Each run is a `.cfg`; `PROJECT.json` gives the module and the properties.

| Run | Instance | Shows |
|---|---|---|
| `rcu` | 3 threads, 2 grace periods | `GracePeriodGuarantee`; implements `GracePeriod`; `synchronize_rcu()` returns although readers never stop coming; the inductive invariant `IInv` of the proofs |
| `rcu_nested` | 3 threads, of which 2 read and 2 update; `rcu_nest` with 2 threads and a counter of 16 values | `rcu_nest32` and `rcu_rcpls` implement `GracePeriod`; announcements survive nesting; waits and retries end, across the wrap too |
| `rcu_family` | same threads, 2 grace periods | the twelve other implementations implement `GracePeriod` (`rcu_sig` excepted, `rcu_ts` for a clock that advances by 2 between ordered readings); waits end in spite of new readers and late signals |
| `rcu_nest_wait`, `rcu_sig` | as above | **violations**, see below |
| `counters` | 2 threads, limit 5, deltas 1 and 4, halves of 2 bits, 2 increments a thread | limit counters implement `LimitCounter` in spite of signals at any point and cmpxchg against xchg; room is never given out twice; thefts end; reads are between bounds, exact at the end, and touch nothing freed |
| `hazptr_tables` | one thread that looks up, one that updates, both scan; 2 objects, reuse | no validated entry freed, if all are less than 2^31 `hazptr_head_t` apart; none lost, freed twice or counted wrongly; a key that stays is found in spite of restarts; thread exit ends and has freed all |
| `tables` | 2 threads, 2 objects, 2 keys, 2 buckets, 2 levels; trees of 2 keys, 6 nodes, 2 groups, 2 calls | nothing freed is used, answers were right, nothing leaks, skip lists and trees pass their own checks; a key moves from tree to tree at once (`MoveAtomic`) |
| `hash_resize` | 2 threads and the resizer, 2 resizes between 2 buckets and 1 | lookups right during resizes, no freed instance used, deletions unlink what is linked; a resize ends |
| `smpdesign` | queues: 3 threads and 5 elements, `locktdeq` and `lockrwdeq` 2 and 3; pools of 1, 6 blocks | all four queues implement `Deque`, `lockrwdeq` with one thread at a time at each end; every operation returns; the ends of `lockrwdeq` stay apart; blocks are conserved |
| `torture_drivers` | 2 readers, 2 updaters, 2 elements each; mazes of 2 by 2, every one that is generated, every start and end, up to 3 threads, the end walled in or not; one of 2 by 3 from a file with 4 threads | no false alarms beyond those listed in `KnownAlarms`; `DrainedAtReturn`: hash and tree tests return with no callback due, and with nothing stored but the elements the hash tables are left with; every test ends; creation makes a tree; all solvers agree with the definition; nobody waits for ever in `maze_part.c` |
| `lockrwdeq` | 2 threads, no premise about the ends | **violation**, see below |

### The three violations

* `rcu_nest_wait`: `rcu_gp_ctr` and `rcu_reader_gp` of `defer/rcu_nest.h` are
  `unsigned long`, so the wait of `synchronize_rcu()`, which asks whether their
  difference is `< 0` (`rcu_nest.c:51`), never waits, and the call returns while
  a reader is inside. The comment above the loop says that it waits.
* `rcu_sig`: `rcu_read_unlock()` tests `urcu_qs` and stores `URCU_QS_DONE` later
  (`rcu_sig.h:49-52`). When a whole grace period ends and the next one asks in
  between, the late store answers a question it was not asked, and
  `synchronize_rcu()` returns while the thread is in a later critical section
  that was under way at its call. The comment at `rcu_sig.c:61` says it waits.
* `lockrwdeq`: list operations take the read lock when the counter says that the ends
  are far enough apart (`lockrwdeq.c:99-104`). The read lock does not keep two
  operations at one end apart: two `pdeq_pop_l()` load the same `p->chain.prev`, both
  return its element, and the counter is down by two. The test that the file
  includes does this: `melee()` of `deqtorture.h` starts two threads that pop at the left
  (lines 309-310) and aborts when an element was popped twice (lines 328-329);
  `conc_enq_l()` and its kin push with two threads at one end.

### What the properties leave out, because the code does not keep it

* **Skip list, keys shared by updaters** (`OneOwner`). `skiplist_delete()` of
  `skiplist.c` remembers `update[level] = NULL` (line 181) for a level on which it
  has not seen the key. An insertion of the same key that comes in between links
  it there; if the predecessor on that level is another node than the ones
  locked, the deletion unlinks the element from the lower levels only, and
  `skiplist_fsck()` fails. The updaters of `skiplisttorture.h` do delete each
  other's keys. With `OneOwner = FALSE` in `MCTables.cfg` TLC shows it.
* **Skip list, lookup without lock.** `skiplist_lookup_relaxed()` of `skiplist.c`
  loads `sl_next[0]` once more after the search (line 77): an element with a
  smaller key inserted just then hides one that is present. `AnswerRight` of
  `Skiplist` excepts it; `skiplist_glock.c` walks on and is right.
* **Skip list, lowering** (`Lowering`). The loop of `skiplist_balance_node()` that
  should unlink upper levels, `for (level = newlevel; level > slp->sl_toplevel;
  level++)`, ends before its first pass in both versions, so that the links stay
  while `sl_toplevel` drops, and `skiplist_fsck()` fails.
  `skiplist_balance_node_lock()` of `skiplist.c` locks predecessors without
  looking at them again and outside a critical section; it is not modelled.
* **Trees.** `tree_map_node()` of `Issaquah/tree.c` calls its function on leaves that
  do not exist (`!tree_existence_exists(cur)`, line 740), against the comment at
  line 751; the check of an empty tree in `treetorture.h` (line 1038) therefore
  sees nothing. The model has the loads of a map, not the calls. `tree_lookup()`
  reads `cur->data` after its `rcu_read_unlock()` (line 531), also when it is given
  a function, for which case the comment at line 494 asks no critical section of
  the caller; callers of the model have one.
* **Header keys.** `skiplist_lookup_relaxed()` of `skiplist_glock.c` also compares
  the header's key; the model's keys begin at 1 as the header's is 0.
* **`route_refcnt.c`** reads the next pointer of an entry after it has dropped the
  reference; `LookupAnswers` leaves it out and `UsedNotFreed` is about the entries
  to which a reference is held. The `abort()` in it may come to pass.
* **`route_rcu.c`**, `route_clear()`: moves entries to a list on the stack while
  readers are on them; a reader then never meets the header it waits for.
  **`route_cacm.c`**, `route_clear()`: never releases `routelock`. No driver calls
  `route_clear()`.
* **The clock of `rcu_ts`** (`FineClock`). The grace period is as long as it should be
  only if two readings of `get_timestamp()` that a barrier separates differ by 2 or
  more: a reader's stamp is made odd, the updater's even, and the wait passes a reader
  whose stamp is not below the updater's (`rcu_ts.c:58-59`). `rdtsc` of `arch-x86` counts
  cycles, of which a barrier takes more than two; `mftb` of `arch-ppc64` is to do likewise, and
  both to agree on all CPUs. `arch-arm` reads `gettimeofday()`, in
  microseconds and 0 on error, into a `long` of 32 bits, and `arch-arm64` reads
  `cntvct_el0`; both may return the same value twice, or neighbours. The premise is part of
  `ImplementsGracePeriod` for `rcu_ts` (`Promising`). Without it and with a clock that
  advances by 1 (`Ticks = {1}`), TLC finds in 13 states a reader with stamp 1, taken at
  0, an updater with stamp 0, taken later at 1, and a `synchronize_rcu()` that returns with the
  reader inside. That a clock goes back (the wrap of `arch-arm`) is not modelled either.
* **The order of hazard pointers** (`Near`). `compare()` of `hazptr.c` returns a difference of
  pointers as an `int` (line 78), so that there is no total order when nodes are 2^31
  `hazptr_head_t`, 16 GB, or more apart, against the comment at line 67; `bsearch()` can then
  miss a hazard pointer, and the scan frees what a lookup stands on. `ValidatedNotFreed` and
  `PresentKeyFound` have `Near` as their premise. Without it, and with objects at 1 and 5 and `INT_MAX = 3`, TLC
  finds `ValidatedNotFreed` violated in 21 states: in `hash_bkt_hazptr.c` the hazard pointers of the lookup name
  both objects, the scan misses one and frees it. `AllocatedIsReachable` and `ExitFrees`
  have no such premise and hold there as well.
* **`route_hazptr.c`**: the next pointer is read a second time in an entry that the
  overwritten hazard pointer no longer protects (`hazptr.h:81` on behalf of
  `route_hazptr.c:54`), against `hazptr.h:69`, which wants an immortal structure.
  `ValidatedNotFreed` is about the entries that have been validated, and for the entry
  before only about the first read. `hash_bkt_hazptr.c`
  alternates two and is right, but its loop ends at an equal hash whatever the key
  (line 141); keys of the model have different hashes.
* **`lockrwdeq.c`** (`OneThreadPerEnd`). Two operations at the same end may both hold the
  read lock and are not kept apart; the tests of `deqtorture.h` do that. The run
  `lockrwdeq` shows what comes of it; `smpdesign`, `EndsApart` and the theorem about it
  assume callers that keep each end to one thread at a time. The emptiness test of
  `deq_pop_l()` also reads the head's `next`, which the operation at the other end may
  be storing; only whether it is the head itself matters, and `Pointers` leaves it out.
* **`hash_resize.c`** with `Shared = TRUE` (threads delete each other's elements):
  `ht_cur` is read once for the locks and again for the lookup, and a resize that
  ends in between leaves `hashtab_del()` with the wrong index. `hashtorture.h`
  never does that, and with `Shared = FALSE` the property holds.
* **Drivers.** `KnownAlarms` of `TortureDrivers` lists, with the lines, alarms that
  a driver can set off although the structure is right, among them that of
  `zoo_updater()`; a structure that is wrong in a way that sets off these only is not told
  from a right one.
* **What drivers leave.** `DrainedAtReturn` is about the hash tables' tests and the
  tree's. The skiplist's (`skiplisttorture.h:758`) waits for two grace periods and 100 ms
  instead of calling `rcu_barrier()`, so that a callback may still be due when the
  array it is about is freed (lines 526-528); only that the list is empty is claimed. Nothing is
  claimed of the duplicates that `route_stresstest()` of `routetorture.h` may leave
  (line 267) nor of the elements that stay in a queue after a melee.
* **Log.** The `smp_mb()` at `log_glock.c:77` orders the record before the index. Stores of
  this module are visible at once, so that `NoRecordBeforeItsTime` is about the order of the
  stores and the lock; a missing barrier would not show.
* **Sequence lock.** Its writers in `seqlocktorture.c` are bounded to one pass, so `TestEnds`
  does not say that readers get through against writers that never stop.
* **Mazes.** `maze_solve()` of `maze_part.c` is to "return 0 if no solution exists" (line 741).
  With one or two threads it ends in an `ABORT()`, as `maze_mark_solution()` finds no way;
  three or more never return, each waiting for a meeting that does not come.
  `AnswerRight` and `NobodyWaitsInVain` say so. `maze_fg --generate` numbers the list
  of visited cells in two ways and is left out, as are the antidiagonal start in mazes
  of one row (`ABORT()`) and the statistics of `maze_fg` with one thread (they write a
  second entry). `--threadstart horizontal` selects the diagonal, and is modelled
  so; `diagonal` is refused.

### Bounds and why they are enough

* Two threads give every interleaving of one pair; the third one in the RCU runs
  gives a second updater that contends for the lock, or a thread that the scan
  visits before or after the reader in question. One thread is both a reader and
  an updater.
* `MaxGP = 2`: a reader stalled over a whole grace period and announcing itself in
  the next is the case the algorithms are about, and for `Rcu` the proof removes
  the bound. `RcuNest32` needs none, `RcuNest` wraps. `MaxIdx = 6` in `RcuRcpls`
  reaches `ctr - oldctr` of 0 to 3 and more. `MaxClock = 6` with
  `Ticks = {2}` lets the clock of `rcu_ts` advance by the least that `FineClock` allows in
  both grace periods, and by one twice at other times, so that it is read odd and even.
* `MaxNest = 2` has an outermost, an inner and no other kind of call.
* `WORD = 16`, `RCU_GP_CTR_BOTTOM_BIT = 4` in `RcuNest`: four grace periods
  until the counter wraps, with a reader stalled on either side of the wrap.
* A limit of 5 and deltas of 1 and 4 make the slow path, the flush, the failing
  call and the exhausted reserve all happen; `MAX_COUNTERMAX` is reached, and 4
  does not fit the half of a word.
* Two memory objects and immediate reuse give the ABA cases of tables and hazard
  pointers; `R = 1` makes every retirement scan, and what is hazardous then waits
  for a later one. Two objects at 1 and 2 with `INT_MAX = 3` are `Near`. `MaxSeq = 6` is three updates of a sequence-locked table: an
  insertion, a deletion and the reuse of the memory under one lookup.
* Skip lists have two updaters, or one updater and one reader, two elements and
  two levels: each element has the other or the header as predecessor on either
  level. What memory holds after it is freed is blanked.
* In trees, two calls that overlap, from each shape that updates give a tree of
  two keys: empty, one leaf, an internal node with both leaves, one or none; the
  other tree begins with one leaf. Six nodes make every allocation fail in some
  behaviour. The first call is about the first tree. A third call that reuses
  memory while a search still holds it is not needed to see the use: freed memory
  is known as such.
* Elements of the hashed queues wrap both indices around. A pool of one block
  fills, spills and runs dry within a test of three blocks a thread (`RUNLENGTH`; the
  code's runs up to 100, with 40 blocks in the global pool). A longer run differs in that one
  thread can hold every block there is; two threads holding three each already do.
* Updaters of `rcutorture.h` publish `RCU_STRESS_PIPE_LEN` elements, so that the first
  one is used again while a reader may hold it; readers load the element and test it in
  steps of their own. Other test threads make two passes.
* Mazes of 2 by 2 have all shapes of passage that a thread can be walled off in, but with
  three threads any chain of meetings from start to end is closed by one of those who meet. In
  the maze of 2 by 3 with four it is not: thread 2 starts below the start and
  thread 3 to its right, below the end; when these meet before either meets the thread above
  it, that one later learns only one half, and `maze_solve_child_done_check()` (lines 513-520)
  must pass it on. Without those lines `NobodyWaitsInVain` is violated there.

### Fairness

Threads inside a function of the library are scheduled (weak fairness of their
steps), stores drain and signals are delivered: the operating system and the
hardware guarantee that. Nobody is obliged to call anything. Critical sections
end (`[]<>(t \notin Inside)` where they nest), as RCU requires of its users.
Nothing makes a thread of `rcu_qs` report a quiescent state, so no wait of it is
claimed to end. Where a step waits for a lock that others may take again and
again (`HashResize`, `SmpDesign`, the steal of `CountLimSig`) fairness is strong:
pthread mutexes are not fair by specification, and the properties then say that
the algorithm adds no blocking of its own. In `Rcu` the number of grace periods
is bounded, so nobody is overtaken for ever and weak fairness suffices;
`FlipsEnd` of `RcuNest32` starts when the lock is held. The threads, the parent
and the thread that invokes callbacks of a test driver are scheduled. The run `tables`
and the mazes have safety properties only; a thread that waits for ever
shows there as a deadlock, or in `NobodyWaitsInVain`.

## 5. Proofs

Eight modules hold theorems. Each extends the module it is about, and its
header and the comments on its lemmas say what a proof rests on.

| Module | About | Theorems |
|---|---|---|
| `RcuProofs` | `Rcu` | `TypeCorrect`, `Invariance`, `GracePeriodCorrect`, `Refinement` |
| `RcuNestedProofs` | `RcuNested` | `Invariance`, `Announced` (`AnnouncedWhileInside`), `Refinement` (`ImplementsGracePeriod`) |
| `RcuFamilyProofs` | `RcuFamily` | `Invariance`, `Refinement` (`ImplementsGracePeriod`) |
| `HashResizeProofs` | `HashResize` | `Invariance`, `LookupsCorrect` (`LookupCorrect`), `InstancesIntact` (`InstanceIntact`) |
| `CounterProofs` | `Counters` | `Invariance`, `ReserveCovered` (`ReserveCoversCountermax`), `OwnerOrThief` (`NoTheftDuringUpdate`), `LimitKept` (`ImplementsLimitCounter`), `StatInvariance`, `ReadsBetween` (`ReadBetween`), `FinalExact` (`FinalReadExact`), `NothingFreedRead` (`ReadsNothingFreed`), `SumChange` about sums over finite sets |
| `HazptrProofs` | `HazptrTables` | `Invariance`, `NothingFreedUnderALookup` (`ValidatedNotFreed`), `Reachability` (`AllocatedIsReachable`), `Found` (`PresentKeyFound`) |
| `SmpDesignProofs` | `SmpDesign` | `Invariance`, `PointersApart` (`EndsApart`), `NoBlockLost` (`BlocksConserved`) |
| `TablesProofs` | `Tables` | `Invariance`, `NothingUsedIsFreed` (`UsedNotFreed`), `NothingLeaks` (`NoLeak`) |

Constants are arbitrary but for the named assumptions of the modules that declare
them, which TLC evaluates on every run.

### The free-running counter (`RcuProofs`)

For every `NR_THREADS` and every `MaxGP`. The refinement maps `inside` to the
threads at `"reading"` and `syncing` to those in `synchronize_rcu()`.

The guarantee alone is not inductive: a state in which a reader's announcement
is missing, or the scan has already passed it, satisfies the guarantee until the
next step. `IInv` adds that

* `LockInv`: one thread at a time is between lock and unlock, so the counter
  does not move under a scan;
* `SnapInv`: what a reader loaded is even and not above the counter;
* `ReaderInv`: the store of `rcu_read_lock()` is the last in the buffer, and
  visible during the critical section. This is where `smp_mb()` is needed;
* `WaitInv`: readers to be outlasted are inside; once the counter has advanced
  their announcement is below it and the scan has not passed them. They loaded
  the counter before they were inside, hence before it advanced.

A scan then passes a thread only on an even value or one not behind the counter,
and `PreexistingOdd` with `WaitInv` excludes both for a reader to be outlasted.
The refinement follows action by action: `ReadLockMb`, `ReadUnlockMb`, `SyncMb`
and `SyncReturn` are the abstract steps, all others stutter, and `SyncReturn`
is allowed by the guarantee.

### The nestable ones (`RcuNestedProofs`)

For any number of readers and updaters, any depth of nesting that fits below
`RCU_GP_CTR_BOTTOM_BIT`, any `WORD` that is a multiple of it, and any `MaxIdx`.
All three invariants speak of every value of a reader's variable that others can
still read, the visible one and those in its store buffer.

* `rcu_nest32` (`Inv32`). The one bit `phase` does not order grace periods: a
  reader may load it, stall over several flips and announce a phase that happens
  to be the current one. `Wait32` is what two flips achieve: during the first scan
  the readers already passed do not have the old phase; when the scan is over all
  readers to be outlasted have the current one; the second flip makes that the
  old one, so the second scan passes none of them.
* `rcu_nest` (`NestInv`). The count occupies the low bits of a word that wraps.
  `NestUp` and `NestDown` show that neither entering nor leaving a section carries
  into the number, `Onward` that the next number, wrapped or not, has a zero count;
  these need `RCU_GP_CTR_BOTTOM_BIT` to divide `WORD`. Only `AnnouncedWhileInside`
  is proved: the grace-period guarantee of this file is violated (section 4).
* `rcu_rcpls` (`PairInv`). `Counted` and `Counting` account for the two stores that
  may be on their way, in either order if they are to different counters.
  `PairPassed` is the argument for sharing: from the readers that `u` has to outlast,
  every flip whose wait ends after `u` read `rcu_idx`, whoever waited, removes those
  counted at one index; two consecutive flips remove both (`PairGone`). Two full
  waits take place in each way through the code: in two flips of its own, one of its
  own after one seen to have passed, or none after three.

`Elapses` states a step of `GracePeriod` in terms of the two sets of one
implementation; `InvNext` puts the three together.

### The smaller implementations (`RcuFamilyProofs`)

For any number of threads, any `MaxNest`, `MaxStores`, `MaxGP` and `MaxClock`, and for
twelve of the thirteen implementations that `RcuFamily` runs; `rcu_sig` takes no part in
`ImplementsGracePeriod` (section 4), and `rcu_ts` does under the premise `FineClock`: whatever
the members of `Ticks`, if none is below 2. `impl` never changes, so `IInv` has one part per
family, each stating what its `synchronize_rcu()` relies on:

* `LockInv`: a reader holds the lock, or the one of its thread, from its first
  `rcu_read_lock()` to its last `rcu_read_unlock()`; an updater that has been given a
  lock has outlasted whoever held it.
* `ScanInv`, counts and numbers per thread: the readers to outlast lie ahead of
  the scan, and every store of theirs that may still become visible shows what the
  wait waits for. A number was taken before the counter advanced. A timestamp was taken before
  the clock did, and by `FineClock` is still below the updater's when the one is made odd
  and the other even (`BitIs`).
* `RcgInv`: the common count is the number of levels of nesting that threads have
  entered and not left, so that no one is inside when it is seen at zero.
* `CountInv`, the pairs of counts: a flip with its wait removes those counted at one
  index; after the first one the readers to outlast have the current index, which
  the second flip makes the old one.
* `QsInv`: a thread inside a section shows a number from when it was last online or quiescent;
  one to be outlasted shows a number from before the grace period.
* `SrcuInv`: `OneIndex` while nobody has flipped; `SrcuCall` for the call that returns
  early after the flips of others; `Owed` for counts in a store buffer, which
  the second liburcu grace period makes visible before they are summed.

A step of `t` is proved in two parts: what it does to `t`'s own clauses, and a lemma
(`...Others`) that it leaves those of all other threads true. The lemmas `Gp...` map
each step to one of `GracePeriod` or to a stutter.

### The resizable hash tables (`HashResizeProofs`)

For any number of threads, elements, buckets per instance and resizes, with `Shared =
FALSE`: threads delete only what they added, as the updaters of `hashtorture.h` do;
with `Shared = TRUE` the property does not hold (section 4). `LookupCorrect` is far
from inductive. `IInv` has, in parts, what makes it so:

* `ResizerInv`: what the resizer has done follows from `ht_cur`, `rpc` and `ri`;
* `ThreadInv`: a thread in a call uses the current instance or the one before it,
  which the second grace period then still keeps;
* `LockInv`: an updater holds the bucket of the instance it started from, and that of
  the next one iff the first had been moved when it was locked; the resizer cannot have
  moved it since. This is why one lock or two are enough until the unlock;
* `LinkInv`: through its two `hte_next` an element is linked into instances of either
  parity, into the next one only after its bucket has been moved;
* `MemInv`: an element in the table is linked where lookups will come by; one that is
  not is linked nowhere they will, except where its `call_rcu()` waits for them;
* `UpdaterInv`: how far `hashtab_add()` and `hashtab_del()` have come with their element;
* `LookupInv`: what a lookup ought to find is where it is going to look.

### The counters (`CounterProofs`)

For any number of threads, any limit, any `MAX_COUNTERMAX` and any set of requests.
`Books`: `globalreserve` is the sum of all `countermax`, with `globalcount` it does not
exceed the limit, and no counter exceeds its `countermax`. `BooksSlow` shows that
`globalize_count()` with `balance_count()` keeps the books whatever is handed out,
`BooksFast` that a fast path does. `IInv` adds to the books, for each kind of
counter, where threads are:

* `LimInv` for those with a lock or none;
* `SigInv` for `count_lim_sig.c`: what `theft` and `counting` may be at each location
  of the owner and of the thief, with a signal pending, resent or handled; from it
  follow `NoTheftDuringUpdate`, and that what a flush takes is what the owner has left
  there;
* `AtomicInv` for `count_lim_atomic.c`: `counterandmax` splits into two halves (`HalfAssumption`
  says that the half of a word has room for `2 ^ CM_BITS` values; the provers have no theory of
  powers), the cmpxchg succeeds only on a word nobody has taken, and what the xchg
  of a flush took is out of the books until it is entered again.

Each step of the five counters is then a step of `LimitCounter` (a call, its
success or failure, its return) or a stutter. `LimitKept` includes that no
refusal of the exact counters is without need.

The sums are `MapThenSumSet` of the community modules, a recursive function
under `CHOOSE`. As the library's induction theorems cannot be used, the first part of
`CounterProofs` takes a
minimal counterexample instead: of the subsets of a finite set for which
the recursive function would not exist, or two would differ, one is minimal
(`MinimalSet`, from well-foundedness of strict inclusion on finite sets), and removing an
element from it gives a contradiction. `SumChange` is what every proof about a counter
uses.

What `read_count()` returns is a matter of two sums: over the threads a reader has come
past (`Seen`) and over those still to come (`ToCome`). `StatInv` is the invariant of the nine
statistical counters. A reader that is at thread `n` has added at most `Seen`, and what had
been counted at its call is at most what it has added plus `ToCome`; for the parent, when nobody
counts any more, the first is an equality. Around this it says

* of `count_end.c` and `count_stack.c`, that `finalcount` is what those that have left
  counted, and that a reader holds `final_mutex`;
* of `count_end_rcu.c`, the same of the last array's total; that the arrays a reader may be using are
  not freed, that who is about to free one still waits for each of its readers (the
  grace period), and that a thread in such an array is still there or waits for
  the reader;
* of `count_tstat.c`, that `finalthreadcount` keeps all threads until the parent has read;
* of `count_stat_eventual.c`, that the second look of `eventual()` at `stopflag` comes after a whole
  sum begun when nobody counted.

`ReadBetween`, `FinalReadExact` and `ReadsNothingFreed` follow. For the limit counters `ReadBetween`
promises less, that no reader adds up more than the limit, and rests on the mutex: while a
reader holds it neither `globalcount` nor any `countermax` changes, only counters
below them do (`LimitReads`), so the sum is bounded by `globalcount + globalreserve`.

### The hazard pointers (`HazptrProofs`)

For any number of threads, routes, keys, buckets and objects, any `R` and any `INT_MAX`. That
nothing is freed under a lookup, and that a present key is found, have the premise `Near`: by it `compare()` orders what the scan
has collected, and `bsearch()` finds every hazard pointer. `Reachability` needs no
premise, since a scan that takes a hazardous object for one that is not still frees it once.
So `Invariance` holds for every spacing of the objects; its parts about guards are
conditional on `Near`. The first part
is the protocol by itself, the same for both tables. `HazptrStep` lists what a step
can do to the hazard pointers, the rlists and the memory; `Proto` says that an object is
retired exactly when it is on the rlist of one thread, so that no scan frees what another has
retired. `Guarded(o, i)` is the meaning of a hazard pointer: it holds `o`, and every
scan with `o` on its rlist has collected `o` or has yet to look at `i`. `GuardKept`: only the
thread that owns the hazard pointer can end that. A freshly stored hazard pointer
guards once it is visible and the second read has found the same pointer in a place
that only a live entry has: the entry is then on no rlist, and a scan that comes later begins
with an empty plist.

* The routing table (`RouteInv`). `re_next` of an unlinked route keeps its old value
  until `HAZPTR_POISON` overwrites it, in `route_clear()` for a whole list of routes:
  `Chain`, `DeletingRoute` and `ClearingRoutes` say where those pointers can lead, so
  that a reader which follows one comes to a route that is not retired yet.
* The hash table (`HashInv`). A lookup alternates between two hazard pointers, of
  which `ReaderAt` says what each guards; the entry it goes on from is guarded while
  the next one is validated. For `PresentKeyFound`, `Ahead` compares an entry's
  place in its bucket with the place of the lookup, and `WillFind` says that a key that
  stays (`steady`) remains ahead of a lookup for it through every insertion at the head and
  every removal, until the lookup has it (`AddedAhead`, `RemovedAhead`, `DerefAhead`).

`AllocatedIsReachable` follows from `Proto` with what the tables say of live entries.

### A list under a read lock, and the allocator (`SmpDesignProofs`)

For any number of threads, elements and blocks, any sizes of the pools and any length of
the runs of blocks, longer than the pools or not. The invariant
has a part for each of the two programs; the others leave their variables alone.

`lockrwdeq.c`. That two list operations share no pointer follows from the length
of the list at the time they change it, and what the code tests is the counter. So
the invariant relates the two:

* `RwThread`: one thread at a time works at each end. This is the premise `OneThreadPerEnd`
  of `EndsApart`, `PointersApart` and the part of `Invariance` about this queue. Nothing in the
  code checks it (the hazard at line 104), and the tests of `deqtorture.h` call it
  otherwise: section 4 has what happens then;
* `CounterInv`: the counter is the length of the list less what the operation at
  each end has reserved and not yet put right;
* `SpareInv`: the operations that hold the read lock have one item more in the list than they
  have reserved between them. `ReserveStep` takes it from the test of the counter, and
  it survives the end of the other operation because what that one takes away it had
  reserved (`LengthAfter`);
* `PtrInv`, `RegInv`, `ChainInv`: the pointers thread some sequence of elements, one way and
  back (`Threaded`); what an operation has loaded is what it would find on that sequence as
  it is now (`Found`), also after the other end has changed (`LeftKept`, `RightKept`); and no
  element is in the list twice. `Apart` then compares the pointers at the two ends of a
  list with an item to spare.

`smpalloc.c`. `BlocksInv`: every block is in one of the sequences that are the
pools and the arrays `p`, and there at one index. A step splits a sequence (`SubSeq`, `Tail`,
`Front`) and puts what it has taken behind another, reversed where the code copies from the
end; `SplitParts` to `ConcatParts` say for each of these that the parts have the blocks of the
whole and share none, and `Move` that such a step keeps `BlocksInv`. That the pools stay
inside their arrays needs where a thread is (`PoolThread`: after a spill there is
room), and the final count a bijection between the blocks and the occupied slots.

### The routing and hash tables (`TablesProofs`)

For any number of threads, entries, keys and buckets, and for the eleven programs whose
tables are linked lists; the theorems say so (`impl \in Routes \union Hashes`), because
`Tables` is also the program of the skip lists and trees, whose parts of the two
properties are only model-checked. The invariant (`TablesInv`) has a part that all
programs share and one for each way to keep memory from being freed too early:

* `Base`: no entry is linked twice, each in the bucket of its key, and what a thread at
  each place has in its registers (`StandsAt`).
* `Own`: an entry is linked, or held by the one thread that has unlinked or allocated it, or
  given to RCU, or free. It is what makes `NoLeak` true, and freeing safe from being
  done twice. In `route_refcnt.c` nobody owns an entry alone, and `RefcntInv` takes its place.
* `HashInv`: a thread in a critical section of a hash table has its bucket's lock, so
  that a lookup under the lock stands on linked entries. In `hash_unsync.c` only one thread
  moves.
* `RefcntInv`: `re_refcnt` is the number of lookups that hold the entry, plus one as
  long as it is `Listed`: linked, on the list `route_clear()` has taken and not gone through
  (the sequence whose existence the invariant asserts), or unlinked by a `route_del()` that
  has yet to drop the list's reference. An entry has been freed exactly when
  the count is zero, so that the compare and swap of a lookup that has read a positive
  count before never brings back an entry from zero.
* `RcuInv`: for every reader in its section there is a set of entries `P` that it can
  `Reach`: with an entry, everything the entry's pointer leads to. Every entry in `P` is
  `Guarded`: linked, or in a callback that waits for this reader, or held by a thread that has
  yet to wait for it (`NotYet`). `ReachKept` shows once that a step of another thread leaves `P`
  closed and guarded: an entry that is unlinked keeps a pointer into `P`, and memory is
  handed out again only when it is in no reader's `P`. The readers that
  `route_rcu.c`'s `route_clear()` has led astray, to the header of its other list, stay among
  the entries on it (`Junk`), which are not freed before they have left either.

`route_seqlock.c` frees what readers look at, and says so: `UsedNotFreed` excludes it
and its theorem is `NoLeak`.

### Only model-checked

* All liveness: the provers do not do fairness or `ENABLED`.
* The deque refinement (`ImplementsDeque`): its mapping concatenates buckets
  in an order found by recursion over their number.
* `Maze`, and of `Tables` the skip lists' checks: data computed by recursion over
  paths and lists, which would need an induction the provers cannot instantiate.
* `LookupAnswers` of the tables: it needs, beside `RcuInv`, where in a bucket a walk is and which
  answers have been right since its call.
* `TortureDrivers`: not yet proved. `GracePeriodGuarantee` of `RcuNest` and `SectionsExited` of `RcuSig` are violated.

## 6. Not modelled, and the plan

`PROJECT.json` gives a reason for each component. Left out:

* the existence structures of `datastruct/existence`, the successor of those of
  `Issaquah`; of `tree.c`, `tree_free()`, the memory caches of builds with
  `BAD_MALLOC` and the random failures of builds with `DEBUG`; matrix
  multiplication, a parallel loop without shared writes;
* the samples of `advsync` and `locking`, single short programs;
* `skiplist_balance_node()` of `skiplist.c`; the steps of `qsort()` and `bsearch()` in
  `hazptr_scan()` (what the search may answer is modelled);
* thread creation and joining, registration with liburcu, output, timing and the
  drivers' random choices; load reordering (the `formal` directory of the book
  does that with herd); failing allocations, which return before any state
  changes; the layout of maze files, and the mazes' statistics.

The plan from here is more proofs: `LookupAnswers` of the tables, then the drivers.
