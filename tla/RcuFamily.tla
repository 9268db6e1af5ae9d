----------------------------- MODULE RcuFamily -----------------------------
(***************************************************************************)
(* The smaller RCU implementations of CodeSamples/defer side by side, one  *)
(* section per family; rcu_sig has a module of its own.  Whichever         *)
(* rcutorture.h is compiled with, one specification has to hold, that of   *)
(* GracePeriod.                                                            *)
(***************************************************************************)
EXTENDS RcuBase

CONSTANT
  Ticks                \* rcu_ts: what the clock advances by, at least, over a barrier

ASSUME RcuFamilyAssumption == Ticks \subseteq Nat

Signals == INSTANCE RcuSig

-----------------------------------------------------------------------------
(***************************************************************************)
(* Nine RCU implementations of CodeSamples/defer, named by impl:           *)
(*                                                                         *)
(*   lock      rcu_lock.[ch]         one lock for readers and updaters     *)
(*   percpu    rcu_lock_percpu.[ch]  a lock per thread                     *)
(*   rcl       rcu_rcl.[ch]          a nesting count per thread            *)
(*   rcg       rcu_rcg.[ch]          one atomic count                      *)
(*   rcpg      rcu_rcpg.[ch]         a pair of atomic counts               *)
(*   rcpl      rcu_rcpl.[ch]         a pair of counts per thread           *)
(*   rcu64     rcu64.[ch]            a counter that counts down            *)
(*   atomicgp  rcu64_atomicgp.[ch]   the same, advanced by cmpxchg         *)
(*   ts        rcu_ts.[ch]           timestamps                            *)
(*                                                                         *)
(* They share one skeleton: a reader announces itself and executes a       *)
(* barrier; an updater makes later readers tell themselves from earlier    *)
(* ones, and waits for the earlier ones.                                   *)
(***************************************************************************)

ByLock == {"lock", "percpu"}
Counting == {"rcpg", "rcpl"}                     \* two flips of rcu_idx
Numbered == {"rcu64", "atomicgp", "ts"}          \* a number tells old from new
Nestable == {"rcl", "rcg", "rcpg", "rcpl"}
Unlocked == {"rcg", "atomicgp"}                  \* synchronize_rcu() takes no lock
ToyImpls == ByLock \union {"rcl", "rcg"} \union Counting \union Numbered

LONG_MAX == MaxGP + 1

ToyInit ==
  \/ InitWith({"rcpl"}, 0, [i \in 0 .. 1 |-> 0])
  \/ InitWith({"rcu64", "atomicgp"}, LONG_MAX, 0)
  \/ InitWith(ToyImpls \ {"rcpl", "rcu64", "atomicgp"}, 0, 0)

\* rcu_ts: x & ~0x1 and x | 0x1
Even(x) == x - (x % 2)
Odd(x) == Even(x) + 1

\* The clock gets past the bit that these take away, over a barrier.  get_timestamp() of
\* arch-x86 and arch-ppc64 counts cycles; that of arch-arm and arch-arm64 may stand still.
FineClock == \A d \in Ticks : d >= 2

-----------------------------------------------------------------------------
\* rcu_read_lock() and rcu_read_unlock() by locks

\* rcu_lock: everybody's lock; rcu_lock_percpu: the thread's own
ReaderLock(t) == IF impl = "lock" THEN NoThread ELSE t

LockedRead(t) ==
  /\ impl \in ByLock /\ t \in Readers
  /\ Goto(t, "idle", "reading")
  /\ mutex[ReaderLock(t)] = NoThread
  /\ mutex' = [mutex EXCEPT ![ReaderLock(t)] = t]
  /\ loc' = [loc EXCEPT ![t].nest = 1]
  /\ UNCHANGED <<impl, ctr, shared, reader, buffer, preexisting>>

LockedReadEnd(t) ==
  /\ impl \in ByLock
  /\ Goto(t, "reading", "idle")
  /\ mutex' = [mutex EXCEPT ![ReaderLock(t)] = NoThread]
  /\ loc' = [loc EXCEPT ![t].nest = 0]
  /\ Outlast(t)
  /\ UNCHANGED <<impl, ctr, shared, reader, buffer>>

\* synchronize_rcu(): the one lock, taken and released
LockedSync(u) ==
  /\ impl = "lock"
  /\ Goto(u, "sync_lock", "sync_return")
  /\ mutex[NoThread] = NoThread
  /\ UNCHANGED <<impl, ctr, mutex, shared, reader, buffer, loc, preexisting>>

\* synchronize_rcu(): every running thread's lock in turn
PercpuSync(u) ==
  /\ impl = "percpu" /\ pc[u] = "sync_lock"
  /\ mutex[loc[u].scan] = NoThread
  /\ loc' = [loc EXCEPT ![u].scan = @ + 1]
  /\ pc' = [pc EXCEPT ![u] = IF loc[u].scan = NR_THREADS - 1 THEN "sync_return" ELSE @]
  /\ UNCHANGED <<impl, ctr, mutex, shared, reader, buffer, preexisting>>

-----------------------------------------------------------------------------
\* rcu_read_lock() by announcement: load, announce, smp_mb()

\* Each store of an announcement, in the implementations' order: the thread's
\* count, the common count, the counts of the index loaded, minus the number
\* loaded, the timestamp with its low-order bit set
rcl_count(t, d) == impl = "rcl" /\ Store(t, Own(t) + d) /\ UNCHANGED shared

rcg_count(d) == impl = "rcg" /\ shared' = [shared EXCEPT ![0] = @ + d] /\ UNCHANGED buffer

rcpg_count(t, d) ==
  impl = "rcpg" /\ shared' = [shared EXCEPT ![loc[t].idx] = @ + d] /\ UNCHANGED buffer

rcpl_count(t, d) ==
  impl = "rcpl" /\ Store(t, [Own(t) EXCEPT ![loc[t].idx] = @ + d]) /\ UNCHANGED shared

rcu64_announce(t) == impl \in {"rcu64", "atomicgp"} /\ Store(t, -loc[t].snap) /\ UNCHANGED shared

rcu64_retract(t) == impl \in {"rcu64", "atomicgp"} /\ Store(t, loc[t].snap) /\ UNCHANGED shared

ts_announce(t) == impl = "ts" /\ Store(t, Odd(loc[t].snap)) /\ UNCHANGED shared

ts_retract(t) == impl = "ts" /\ Store(t, Even(loc[t].snap)) /\ UNCHANGED shared

\* rcu_idx or rcu_gp_ctr, or get_timestamp(): no barrier since the last reading, the
\* clock may have stood still
Load(t) ==
  \/ /\ impl \in Counting \union {"rcl", "rcg"}
     /\ loc' = [loc EXCEPT ![t].idx = ctr]
     /\ UNCHANGED ctr
  \/ /\ impl \in {"rcu64", "atomicgp"}
     /\ loc' = [loc EXCEPT ![t].snap = ctr]
     /\ UNCHANGED ctr
  \/ /\ impl = "ts"
     /\ ctr' \in {ctr, ctr + 1} /\ ctr' <= MaxClock
     /\ loc' = [loc EXCEPT ![t].snap = ctr']

ToyReadLockLoad(t) ==
  /\ impl \notin ByLock /\ t \in Readers
  /\ Goto(t, "idle", "lock_store")
  /\ Load(t)
  /\ UNCHANGED <<impl, mutex, shared, reader, buffer, preexisting>>

ToyReadLockStore(t) ==
  /\ Goto(t, "lock_store", "lock_mb")
  /\ rcl_count(t, 1) \/ rcg_count(1) \/ rcpg_count(t, 1) \/ rcpl_count(t, 1)
       \/ rcu64_announce(t) \/ ts_announce(t)
  /\ loc' = [loc EXCEPT ![t].nest = 1, ![t].calls = 1, ![t].snap = 0]
  /\ UNCHANGED <<impl, ctr, mutex, reader, preexisting>>

\* rcl and rcg count every level, rcpg and rcpl only the outermost.
ReadLockNested(t) ==
  /\ impl \in Nestable /\ loc[t].calls < MaxNest
  /\ Goto(t, "reading", "nest_mb")
  /\ rcl_count(t, 1) \/ rcg_count(1) \/ (impl \in Counting /\ UNCHANGED <<shared, buffer>>)
  /\ loc' = [loc EXCEPT ![t].nest = @ + 1, ![t].calls = @ + 1]
  /\ UNCHANGED <<impl, ctr, mutex, reader, preexisting>>

ReadLockMb(t) ==
  /\ Goto(t, "lock_mb", "reading") \/ Goto(t, "nest_mb", "reading")
  /\ Drained(t)
  /\ UNCHANGED <<impl, ctr, mutex, shared, reader, buffer, loc, preexisting>>

\* rcu_read_unlock(): smp_mb(), after which the outermost section is over
ReadUnlockMb(t) ==
  /\ impl \notin ByLock
  /\ Drained(t)
  /\ \/ loc[t].nest = 1 /\ Goto(t, "reading", "unlock_load") /\ Outlast(t)
     \/ loc[t].nest > 1 /\ Goto(t, "reading", "unnest_store") /\ UNCHANGED preexisting
  /\ UNCHANGED <<impl, ctr, mutex, shared, reader, buffer, loc>>

\* The number to announce the end with; the counts need none
ReadUnlockLoad(t) ==
  /\ Goto(t, "unlock_load", "unlock_store")
  /\ \/ impl \in Numbered /\ Load(t)
     \/ impl \notin Numbered /\ UNCHANGED <<loc, ctr>>
  /\ UNCHANGED <<impl, mutex, shared, reader, buffer, preexisting>>

ToyReadUnlockStore(t) ==
  /\ \/ /\ Goto(t, "unlock_store", "idle")
        /\ rcpg_count(t, -1) \/ rcpl_count(t, -1) \/ rcu64_retract(t) \/ ts_retract(t)
             \/ rcl_count(t, -1) \/ rcg_count(-1)
        /\ Forget(t)
     \/ /\ Goto(t, "unnest_store", "reading")
        /\ rcl_count(t, -1) \/ rcg_count(-1) \/ (impl \in Counting /\ UNCHANGED <<shared, buffer>>)
        /\ loc' = [loc EXCEPT ![t].nest = @ - 1]
  /\ UNCHANGED <<impl, ctr, mutex, reader, preexisting>>

-----------------------------------------------------------------------------
\* synchronize_rcu()

\* spin_lock(&rcu_gp_lock), in the implementations that have it
ToySyncLock(u) ==
  /\ impl \notin ByLock
  /\ Goto(u, "sync_lock", CASE impl = "rcg" -> "sync_wait" [] impl = "atomicgp" -> "sync_load"
                            [] OTHER -> "sync_advance")
  /\ \/ impl \in Unlocked /\ UNCHANGED mutex
     \/ /\ impl \notin Unlocked
        /\ mutex[NoThread] = NoThread
        /\ mutex' = [mutex EXCEPT ![NoThread] = u]
  /\ UNCHANGED <<impl, ctr, shared, reader, buffer, loc, preexisting>>

\* oldval = rcu_gp_ctr
atomicgp_load(u) ==
  /\ Goto(u, "sync_load", "sync_advance")
  /\ loc' = [loc EXCEPT ![u].old = ctr]
  /\ UNCHANGED <<impl, ctr, mutex, shared, reader, buffer, preexisting>>

\* (void)cmpxchg(&rcu_gp_ctr, oldval, oldval - 1)
atomicgp_advance(u) ==
  /\ impl = "atomicgp"
  /\ loc[u].old > 1
  /\ ctr' = IF ctr = loc[u].old THEN ctr - 1 ELSE ctr
  /\ UNCHANGED loc

rcl_advance == impl = "rcl" /\ UNCHANGED <<ctr, loc>>

\* flip_counter_and_wait(i): i is the index in use
rcpl_advance(u) ==
  /\ impl \in Counting
  /\ loc' = [loc EXCEPT ![u].old = ctr]
  /\ ctr' = 1 - ctr

rcu64_advance == impl = "rcu64" /\ ctr > 1 /\ ctr' = ctr - 1 /\ UNCHANGED loc

\* get_timestamp() after smp_mb() and spin_lock()
ts_advance(u) ==
  /\ impl = "ts"
  /\ \E d \in Ticks : ctr' = ctr + d /\ ctr' <= MaxClock
  /\ loc' = [loc EXCEPT ![u].old = Even(ctr')]

ToySyncAdvance(u) ==
  /\ Goto(u, "sync_advance", "sync_wait")
  /\ rcl_advance \/ rcpl_advance(u) \/ rcu64_advance \/ atomicgp_advance(u) \/ ts_advance(u)
  /\ UNCHANGED <<impl, mutex, shared, reader, buffer, preexisting>>

\* The while loops let u pass thread t, or all threads where the counts are common.
rcl_passes(t) == impl = "rcl" /\ reader[t] = 0
rcg_passes == impl = "rcg" /\ shared[0] = 0
rcpg_passes(u) == impl = "rcpg" /\ shared[loc[u].old] = 0
rcpl_passes(u, t) == impl = "rcpl" /\ reader[t][loc[u].old] = 0
rcu64_passes(t) == impl = "rcu64" /\ reader[t] >= -ctr
atomicgp_passes(u, t) == impl = "atomicgp" /\ reader[t] > -loc[u].old
ts_passes(u, t) == impl = "ts" /\ (reader[t] % 2 = 0 \/ reader[t] >= loc[u].old)

\* Mutant: flip and wait once only.
AfterWaitOnce(u) == IF impl \in Unlocked THEN "sync_return" ELSE "sync_unlock"

\* Where the wait leads: the second flip of rcpg and rcpl, or the end
AfterWait(u) ==
  CASE impl \in Counting /\ loc[u].flip = 1 -> "sync_advance"
    [] impl \in Unlocked                    -> "sync_return"
    [] OTHER                                -> "sync_unlock"

ToySyncWait(u) ==
  LET t == loc[u].scan
      last == impl \in {"rcg", "rcpg"} \/ t = NR_THREADS - 1
  IN  /\ pc[u] = "sync_wait"
      /\ rcl_passes(t) \/ rcg_passes \/ rcpg_passes(u) \/ rcpl_passes(u, t)
           \/ rcu64_passes(t) \/ atomicgp_passes(u, t) \/ ts_passes(u, t)
      /\ pc' = [pc EXCEPT ![u] = IF last THEN AfterWait(u) ELSE @]
      /\ loc' = [loc EXCEPT ![u].scan = IF last THEN 0 ELSE t + 1,
                            ![u].flip = IF last THEN 2 ELSE @]
      /\ UNCHANGED <<impl, ctr, mutex, shared, reader, buffer, preexisting>>

-----------------------------------------------------------------------------
ToySyncStep(u) ==
  \/ LockedSync(u) \/ PercpuSync(u)
  \/ ToySyncLock(u) \/ atomicgp_load(u) \/ ToySyncAdvance(u) \/ ToySyncWait(u)
  \/ SyncUnlock(u) \/ SyncReturn(u)

ToyReadStep(t) ==
  \/ ToyReadLockStore(t) \/ ReadLockMb(t)
  \/ LockedReadEnd(t) \/ ReadUnlockMb(t) \/ ReadUnlockLoad(t) \/ ToyReadUnlockStore(t)

ToyActive == IF impl \in ToyImpls THEN Threads ELSE {}

ToyNext ==
  \E t \in ToyActive :
    \/ LockedRead(t) \/ ToyReadLockLoad(t) \/ ReadLockNested(t)
    \/ ToyReadStep(t)
    \/ SyncCall(t) \/ ToySyncStep(t)
    \/ DrainStore(t)

ToyStep(t) == t \in ToyActive /\ (ToyReadStep(t) \/ ToySyncStep(t))

ToyStoreDrains(t) == t \in ToyActive /\ DrainStore(t)

\* The implementations whose wait new readers cannot prolong: rcl and rcg wait
\* for a moment without readers, and the stamps of ts run out.
ToyWaiting == {u \in Threads : impl \in Counting \union {"rcu64", "atomicgp"} /\ pc[u] = "sync_wait"}

-----------------------------------------------------------------------------
(***************************************************************************)
(* RCU by quiescent states: CodeSamples/defer/rcu_qs.[ch] (impl "qs") and  *)
(* its nestable form rcu_nest_qs.[ch] ("nest_qs").  rcu_read_lock() and    *)
(* rcu_read_unlock() write nothing another thread reads; a thread that is  *)
(* online says from time to time that it is in no critical section.        *)
(*                                                                         *)
(* reader is rcu_reader_qs_gp.  Location "idle" is offline, where          *)
(* synchronize_rcu() may be called; loc.idx and loc.nest make up the       *)
(* rcu_reader_gp of nest_qs, which only its own thread reads.              *)
(***************************************************************************)

QsImpls == {"qs", "nest_qs"}

\* What a grace period adds to rcu_gp_ctr: the bits below are the nesting count.
QsStep == IF impl = "qs" THEN 2 ELSE MaxNest + 1

QsInit == InitWith(QsImpls, 0, 0)

\* rcu_quiescent_state(), rcu_thread_online(): smp_mb() and the load of rcu_gp_ctr
QsLoad(t) ==
  /\ t \in Readers
  /\ Goto(t, "idle", "qs_store") \/ Goto(t, "online", "qs_store")
  /\ Drained(t)
  /\ loc' = [loc EXCEPT ![t].snap = ctr]
  /\ UNCHANGED <<impl, ctr, mutex, shared, reader, buffer, preexisting>>

QsStore(t) ==
  /\ Goto(t, "qs_store", "qs_mb")
  /\ Store(t, loc[t].snap + 1)
  /\ loc' = [loc EXCEPT ![t].snap = 0]
  /\ UNCHANGED <<impl, ctr, mutex, shared, reader, preexisting>>

\* rcu_quiescent_state() of nest_qs inside a critical section: rcu_reader_gp is stored
QsInner(t) ==
  /\ impl = "nest_qs"
  /\ Goto(t, "reading", "qs_inner")
  /\ Drained(t)
  /\ Store(t, loc[t].idx + loc[t].nest)
  /\ UNCHANGED <<impl, ctr, mutex, shared, reader, loc, preexisting>>

QsMb(t) ==
  /\ Goto(t, "qs_mb", "online") \/ Goto(t, "qs_inner", "reading") \/ Goto(t, "off_mb", "idle")
  /\ Drained(t)
  /\ UNCHANGED <<impl, ctr, mutex, shared, reader, buffer, loc, preexisting>>

\* rcu_thread_offline()
OfflineLoad(t) ==
  /\ Goto(t, "online", "off_store")
  /\ Drained(t)
  /\ loc' = [loc EXCEPT ![t].snap = ctr]
  /\ UNCHANGED <<impl, ctr, mutex, shared, reader, buffer, preexisting>>

OfflineStore(t) ==
  /\ Goto(t, "off_store", "off_mb")
  /\ Store(t, loc[t].snap)
  /\ Forget(t)
  /\ UNCHANGED <<impl, ctr, mutex, shared, reader, preexisting>>

\* rcu_read_lock(): nest_qs copies rcu_gp_ctr when outermost and counts
ReadLock(t) ==
  /\ \/ Goto(t, "online", "reading") /\ loc' = [loc EXCEPT ![t].nest = 1, ![t].calls = 1, ![t].idx = ctr]
     \/ /\ impl = "nest_qs" /\ loc[t].calls < MaxNest
        /\ pc[t] = "reading" /\ UNCHANGED pc
        /\ loc' = [loc EXCEPT ![t].nest = @ + 1, ![t].calls = @ + 1]
  /\ UNCHANGED <<impl, ctr, mutex, shared, reader, buffer, preexisting>>

QsReadUnlock(t) ==
  /\ \/ /\ loc[t].nest = 1
        /\ Goto(t, "reading", "online")
        /\ Outlast(t) /\ Forget(t)
     \/ /\ loc[t].nest > 1
        /\ pc[t] = "reading" /\ UNCHANGED <<pc, preexisting>>
        /\ loc' = [loc EXCEPT ![t].nest = @ - 1]
  /\ UNCHANGED <<impl, ctr, mutex, shared, reader, buffer>>

\* synchronize_rcu(): spin_lock() and rcu_gp_ctr advanced
QsSyncLock(u) ==
  /\ Goto(u, "sync_lock", "sync_advance")
  /\ mutex[NoThread] = NoThread
  /\ mutex' = [mutex EXCEPT ![NoThread] = u]
  /\ UNCHANGED <<impl, ctr, shared, reader, buffer, loc, preexisting>>

QsSyncAdvance(u) ==
  /\ Goto(u, "sync_advance", "sync_wait")
  /\ ctr < MaxGP * QsStep
  /\ ctr' = ctr + QsStep
  /\ UNCHANGED <<impl, mutex, shared, reader, buffer, loc, preexisting>>

\* rcu_gp_ongoing(t) and behind rcu_gp_ctr
Behind(t) == reader[t] % QsStep # 0 /\ reader[t] < ctr

QsSyncWait(u) ==
  /\ pc[u] = "sync_wait"
  /\ ~ Behind(loc[u].scan)
  /\ pc' = [pc EXCEPT ![u] = IF loc[u].scan = NR_THREADS - 1 THEN "sync_unlock" ELSE @]
  /\ loc' = [loc EXCEPT ![u].scan = (@ + 1) % NR_THREADS]
  /\ UNCHANGED <<impl, ctr, mutex, shared, reader, buffer, preexisting>>

QsActive == IF impl \in QsImpls THEN Threads ELSE {}

QsNext ==
  \E t \in QsActive :
    \/ QsLoad(t) \/ QsStore(t) \/ QsInner(t) \/ QsMb(t)
    \/ OfflineLoad(t) \/ OfflineStore(t)
    \/ ReadLock(t) \/ QsReadUnlock(t)
    \/ SyncCall(t) \/ QsSyncLock(t) \/ QsSyncAdvance(t) \/ QsSyncWait(t)
    \/ SyncUnlock(t) \/ SyncReturn(t)
    \/ DrainStore(t)

-----------------------------------------------------------------------------
(***************************************************************************)
(* Sleepable RCU, CodeSamples/defer/srcu.[ch]: a pair of counts per        *)
(* thread, changed inside short sections of another RCU whose grace        *)
(* periods stand in for the memory barriers readers do not have.           *)
(*                                                                         *)
(* ctr is sp->completed, reader is per_thread_count, mutex[NoThread] is    *)
(* sp->mutex.  The other RCU (liburcu) is external: its synchronize_rcu()  *)
(* returns when the sections under way at its call have ended and every    *)
(* store issued until then is visible.  loc.due counts, per thread, the    *)
(* stores that the call under way has to see.                              *)
(***************************************************************************)

SrcuImpls == {"srcu"}

\* init_srcu_struct()
SrcuInit == InitWith(SrcuImpls, 0, [i \in 0 .. 1 |-> 0])

\* The sections of the other RCU: between the load of the index and its store
InSection(t) == pc[t] \in {"lock_store", "unlock_store"}

\* What synchronize_rcu() has to see of t: stores issued, and that of a section
Due == [t \in Threads |-> Len(buffer[t]) + (IF InSection(t) THEN 1 ELSE 0)]

Elapsed(u) == \A t \in Threads : loc[u].due[t] = 0

\* A store becomes visible: every grace period under way takes note.
Drain(t) ==
  /\ ~ Drained(t)
  /\ reader' = [reader EXCEPT ![t] = Head(buffer[t])]
  /\ buffer' = [buffer EXCEPT ![t] = Tail(@)]
  /\ loc' = [u \in Threads |->
               IF loc[u].due # <<>> /\ loc[u].due[t] > 0
                 THEN [loc[u] EXCEPT !.due[t] = @ - 1] ELSE loc[u]]
  /\ UNCHANGED <<impl, ctr, mutex, shared, pc, preexisting>>

\* __srcu_read_lock(): idx = sp->completed & 0x1
SrcuReadLockLoad(t) ==
  /\ t \in Readers
  /\ Goto(t, "idle", "lock_store")
  /\ loc' = [loc EXCEPT ![t].idx = ctr % 2]
  /\ UNCHANGED <<impl, ctr, mutex, shared, reader, buffer, preexisting>>

\* c[idx]++, without a barrier
SrcuReadLockStore(t) ==
  /\ Goto(t, "lock_store", "reading")
  /\ Store(t, [Own(t) EXCEPT ![loc[t].idx] = @ + 1])
  /\ UNCHANGED <<impl, ctr, mutex, shared, reader, loc, preexisting>>

\* __srcu_read_unlock(): rcu_read_lock(), then c[idx]--
SrcuReadUnlock(t) ==
  /\ Goto(t, "reading", "unlock_store")
  /\ Outlast(t)
  /\ UNCHANGED <<impl, ctr, mutex, shared, reader, buffer, loc>>

SrcuReadUnlockStore(t) ==
  /\ Goto(t, "unlock_store", "idle")
  /\ Store(t, [Own(t) EXCEPT ![loc[t].idx] = @ - 1])
  /\ loc' = [loc EXCEPT ![t].idx = 0]
  /\ UNCHANGED <<impl, ctr, mutex, shared, reader, preexisting>>

\* synchronize_srcu(): idx = sp->completed
Synchronize(u) ==
  /\ u \in Updaters /\ Drained(u)
  /\ Goto(u, "idle", "sync_lock")
  /\ preexisting' = [preexisting EXCEPT ![u] = Inside]
  /\ loc' = [loc EXCEPT ![u].old = ctr]
  /\ UNCHANGED <<impl, ctr, mutex, shared, reader, buffer>>

\* spin_lock(&sp->mutex); two advances since then did the work
SrcuSyncLock(u) ==
  /\ Goto(u, "sync_lock", IF ctr - loc[u].old >= 2 THEN "sync_unlock" ELSE "sync_load")
  /\ mutex[NoThread] = NoThread
  /\ mutex' = [mutex EXCEPT ![NoThread] = u]
  /\ UNCHANGED <<impl, ctr, shared, reader, buffer, loc, preexisting>>

\* The first synchronize_rcu() begins.
FirstGp(u) ==
  /\ Goto(u, "sync_load", "sync_advance")
  /\ loc' = [loc EXCEPT ![u].due = Due]
  /\ UNCHANGED <<impl, ctr, mutex, shared, reader, buffer, preexisting>>

\* It returns; idx = sp->completed & 0x1, sp->completed++; the second begins.
FlipIndex(u) ==
  /\ Goto(u, "sync_advance", "sync_again")
  /\ Elapsed(u) /\ ctr < MaxGP
  /\ ctr' = ctr + 1
  /\ loc' = [loc EXCEPT ![u].old = ctr % 2, ![u].due = Due]
  /\ UNCHANGED <<impl, mutex, shared, reader, buffer, preexisting>>

SecondGp(u) ==
  /\ Goto(u, "sync_again", "sync_wait")
  /\ Elapsed(u)
  /\ loc' = [loc EXCEPT ![u].due = <<>>, ![u].snap = 0]
  /\ UNCHANGED <<impl, ctr, mutex, shared, reader, buffer, preexisting>>

\* srcu_readers_active_idx(), thread by thread; on a sum of 0 the third
\* synchronize_rcu() begins, otherwise poll() and sum up again
srcu_readers_active_idx(u) ==
  LET t == loc[u].scan
      sum == loc[u].snap + reader[t][loc[u].old]
      last == t = NR_THREADS - 1
  IN  /\ pc[u] = "sync_wait"
      /\ loc' = [loc EXCEPT ![u].scan = IF last THEN 0 ELSE t + 1,
                            ![u].snap = IF last THEN 0 ELSE sum,
                            ![u].due = IF last /\ sum = 0 THEN Due ELSE @]
      /\ pc' = [pc EXCEPT ![u] = IF last /\ sum = 0 THEN "sync_drop" ELSE @]
      /\ UNCHANGED <<impl, ctr, mutex, shared, reader, buffer, preexisting>>

ThirdGp(u) ==
  /\ Goto(u, "sync_drop", "sync_unlock")
  /\ Elapsed(u)
  /\ loc' = [loc EXCEPT ![u].due = <<>>]
  /\ UNCHANGED <<impl, ctr, mutex, shared, reader, buffer, preexisting>>

SrcuActive == IF impl \in SrcuImpls THEN Threads ELSE {}

SrcuSyncStep(t) ==
  \/ SrcuSyncLock(t) \/ FirstGp(t) \/ FlipIndex(t) \/ SecondGp(t)
  \/ srcu_readers_active_idx(t) \/ ThirdGp(t) \/ SyncUnlock(t) \/ SyncReturn(t)

SrcuReadStep(t) == SrcuReadLockStore(t) \/ SrcuReadUnlock(t) \/ SrcuReadUnlockStore(t)

SrcuNext ==
  \E t \in SrcuActive :
    \/ SrcuReadLockLoad(t) \/ SrcuReadStep(t)
    \/ Synchronize(t) \/ SrcuSyncStep(t)
    \/ Drain(t)

SrcuStep(t) == t \in SrcuActive /\ (SrcuReadStep(t) \/ SrcuSyncStep(t))

SrcuStoreDrains(t) == t \in SrcuActive /\ Drain(t)

SrcuWaiting == {u \in Threads : impl \in SrcuImpls /\ pc[u] = "sync_wait"}
-----------------------------------------------------------------------------
(***************************************************************************)
(* All of them                                                             *)
(***************************************************************************)

\* rcu_sig takes no part, nor does rcu_ts by a clock that may stand still.
Promising == impl # "sig" /\ (impl = "ts" => FineClock)

Promised ==
  INSTANCE GracePeriod WITH
    inside <- {t \in Inside : Promising},
    syncing <- {t \in Syncing : Promising},
    preexisting <- [u \in Threads |-> {t \in preexisting[u] : Promising}]

Init == ToyInit \/ QsInit \/ SrcuInit \/ Signals!Init

Next == ToyNext \/ QsNext \/ SrcuNext \/ Signals!Next

\* Threads inside a function run, critical sections end, stores drain and
\* signals arrive.  The quiescent-state ones have no such assumption: nothing makes a thread report
\* a quiescent state.
Fairness ==
  \A t \in Threads :
    /\ WF_vars(ToyStep(t) \/ SrcuStep(t) \/ Signals!Step(t))
    /\ WF_vars(ToyStoreDrains(t) \/ SrcuStoreDrains(t) \/ Signals!StoreDrains(t))
    /\ WF_vars(Signals!SignalArrives(t))

Spec == Init /\ [][Next]_vars /\ Fairness

\* Every implementation but one is a grace-period mechanism: synchronize_rcu()
\* does not return while a critical section goes on that was under way at its
\* call, whatever the order in which stores become visible.  rcu_sig is left out
\* (see RcuSig).  rcu_ts is one if the clock advances by 2 or more between two
\* readings that a barrier separates (FineClock); by less, it passes over readers.
ImplementsGracePeriod == Promised!Spec

\* The wait loop of synchronize_rcu() ends although new readers keep coming, and
\* although signals answer late: no index, number or signal is waited for that
\* will not come.
WaitEnds ==
  \A u \in Updaters :
    u \in ToyWaiting \union SrcuWaiting \union Signals!Waiting ~> pc[u] = "sync_return"
=============================================================================
