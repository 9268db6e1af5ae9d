------------------------------ MODULE RcuRcpls ------------------------------
(***************************************************************************)
(* The RCU of CodeSamples/defer/rcu_rcpls.h and rcu_rcpls.c: every thread  *)
(* has a pair of reference counters, a free-running index selects the one  *)
(* that new readers use, and a synchronize_rcu() that had to wait for the  *)
(* lock shares the grace periods that went by meanwhile.                   *)
(*                                                                         *)
(* A reader's stores to its own counters go through a store buffer that    *)
(* smp_mb() drains; rcu_nesting and rcu_read_idx are read by their owner   *)
(* only.                                                                   *)
(***************************************************************************)
EXTENDS NestBase

VARIABLES
  rcu_idx,
  rcu_refcnt,          \* per thread: its pair of counters, as others read them
  rcu_nesting, rcu_read_idx,
  ctr, oldctr,         \* per thread: the locals of synchronize_rcu()
  flip                 \* per thread: the argument of flip_counter_and_wait()

vars == <<rcu_idx, rcu_gp_lock, rcu_refcnt, buffer, rcu_nesting, rcu_read_idx,
          ctr, oldctr, flip, scan, pc, preexisting>>

readervars == <<rcu_refcnt, buffer, rcu_nesting, rcu_read_idx>>
locals == <<ctr, oldctr, flip, scan>>

\* What t itself reads in rcu_refcnt[i]: its latest store, or the visible value.
Own(t, i) ==
  LET pending == {n \in DOMAIN buffer[t] : buffer[t][n][1] = i}
  IN  IF pending = {} THEN rcu_refcnt[t][i]
      ELSE buffer[t][CHOOSE n \in pending : \A m \in pending : m <= n][2]

Store(t, i, value) == buffer' = [buffer EXCEPT ![t] = Append(@, <<i, value>>)]

Inside == {t \in Threads : pc[t] = "reading"}

Syncing ==
  {u \in Threads : pc[u] \in {"sync_old", "sync_lock", "sync_ctr", "sync_flip",
                              "sync_wait", "sync_unlock", "sync_return"}}

Init ==
  /\ BaseInit
  /\ rcu_idx = 0
  /\ rcu_refcnt = [t \in Threads |-> [i \in 0 .. 1 |-> 0]]
  /\ rcu_nesting = [t \in Threads |-> 0]
  /\ rcu_read_idx = [t \in Threads |-> 0]
  /\ ctr = [t \in Threads |-> 0]
  /\ oldctr = [t \in Threads |-> 0]
  /\ flip = [t \in Threads |-> 0]

\* Stores to the two counters may become visible in either order.
DrainStore(t) ==
  \E n \in DOMAIN buffer[t] :
    LET i == buffer[t][n][1]
    IN  /\ \A m \in 1 .. n - 1 : buffer[t][m][1] # i
        /\ rcu_refcnt' = [rcu_refcnt EXCEPT ![t][i] = buffer[t][n][2]]
        /\ buffer' = [buffer EXCEPT ![t] = RemoveAt(@, n)]
        /\ UNCHANGED <<rcu_idx, rcu_gp_lock, rcu_nesting, rcu_read_idx, locals, pc,
                       preexisting>>

-----------------------------------------------------------------------------
\* rcu_read_lock()

\* n == 0: i = READ_ONCE(rcu_idx) & 0x1; rcu_read_idx = i
ReadLockLoad(t) ==
  /\ t \in Readers
  /\ Goto(t, "idle", "lock_inc")
  /\ rcu_read_idx' = [rcu_read_idx EXCEPT ![t] = rcu_idx % 2]
  /\ UNCHANGED <<rcu_idx, rcu_gp_lock, rcu_refcnt, buffer, rcu_nesting, locals, preexisting>>

\* rcu_refcnt[i]++; rcu_nesting = n + 1
ReadLockInc(t) ==
  /\ Goto(t, "lock_inc", "lock_mb")
  /\ Store(t, rcu_read_idx[t], Own(t, rcu_read_idx[t]) + 1)
  /\ rcu_nesting' = [rcu_nesting EXCEPT ![t] = 1]
  /\ UNCHANGED <<rcu_idx, rcu_gp_lock, rcu_refcnt, rcu_read_idx, locals, preexisting>>

\* smp_mb()
ReadLockMb(t) ==
  /\ Goto(t, "lock_mb", "reading")
  /\ Drained(t)
  /\ UNCHANGED <<rcu_idx, rcu_gp_lock, readervars, locals, preexisting>>

\* n > 0: rcu_nesting = n + 1; smp_mb()
ReadLockNested(t) ==
  /\ pc[t] = "reading"
  /\ rcu_nesting[t] < MaxNest
  /\ rcu_nesting' = [rcu_nesting EXCEPT ![t] = @ + 1]
  /\ UNCHANGED <<rcu_idx, rcu_gp_lock, rcu_refcnt, buffer, rcu_read_idx, locals, pc,
                 preexisting>>

-----------------------------------------------------------------------------
\* rcu_read_unlock()

\* n > 1: smp_mb(); rcu_nesting = n - 1
ReadUnlockNested(t) ==
  /\ pc[t] = "reading"
  /\ rcu_nesting[t] > 1
  /\ rcu_nesting' = [rcu_nesting EXCEPT ![t] = @ - 1]
  /\ UNCHANGED <<rcu_idx, rcu_gp_lock, rcu_refcnt, buffer, rcu_read_idx, locals, pc,
                 preexisting>>

\* n == 1: smp_mb()
ReadUnlockMb(t) ==
  /\ Goto(t, "reading", "unlock_dec")
  /\ rcu_nesting[t] = 1
  /\ Drained(t)
  /\ preexisting' = [u \in Threads |-> preexisting[u] \ {t}]
  /\ UNCHANGED <<rcu_idx, rcu_gp_lock, readervars, locals>>

\* rcu_refcnt[i]--; rcu_nesting = n - 1
ReadUnlockDec(t) ==
  /\ Goto(t, "unlock_dec", "idle")
  /\ Store(t, rcu_read_idx[t], Own(t, rcu_read_idx[t]) - 1)
  /\ rcu_nesting' = [rcu_nesting EXCEPT ![t] = 0]
  /\ UNCHANGED <<rcu_idx, rcu_gp_lock, rcu_refcnt, rcu_read_idx, locals, preexisting>>

-----------------------------------------------------------------------------
\* synchronize_rcu()

\* The bound: every call under way may still flip twice.
CallsLeft ==
  rcu_idx + 2 * Cardinality({u \in Threads : pc[u] \in {"sync_old", "sync_lock", "sync_ctr",
                                                       "sync_flip", "sync_wait"}})
    + 2 <= MaxIdx

\* smp_mb()
SyncMb(u) ==
  /\ u \in Updaters
  /\ CallsLeft
  /\ Goto(u, "idle", "sync_old")
  /\ Drained(u)
  /\ preexisting' = [preexisting EXCEPT ![u] = Inside]
  /\ UNCHANGED <<rcu_idx, rcu_gp_lock, readervars, locals>>

\* oldctr = READ_ONCE(rcu_idx); smp_mb()
SyncOld(u) ==
  /\ Goto(u, "sync_old", "sync_lock")
  /\ oldctr' = [oldctr EXCEPT ![u] = rcu_idx]
  /\ UNCHANGED <<rcu_idx, rcu_gp_lock, readervars, ctr, flip, scan, preexisting>>

\* spin_lock(&rcu_gp_lock)
SyncLock(u) ==
  /\ Goto(u, "sync_lock", "sync_ctr")
  /\ rcu_gp_lock = NoThread
  /\ rcu_gp_lock' = u
  /\ UNCHANGED <<rcu_idx, readervars, locals, preexisting>>

\* Mutant: one flip is taken for two full cycles.
OneFullCycle(flips) == flips >= 1

\* ctr - oldctr >= 3: enough has gone by while waiting for the lock
TwoFullCycles(flips) == flips >= 3

\* ctr = READ_ONCE(rcu_idx) and the early return
SyncCtr(u) ==
  /\ \/ TwoFullCycles(rcu_idx - oldctr[u]) /\ Goto(u, "sync_ctr", "sync_unlock")
     \/ ~ TwoFullCycles(rcu_idx - oldctr[u]) /\ Goto(u, "sync_ctr", "sync_flip")
  /\ ctr' = [ctr EXCEPT ![u] = rcu_idx]
  /\ flip' = [flip EXCEPT ![u] = rcu_idx]
  /\ UNCHANGED <<rcu_idx, rcu_gp_lock, readervars, oldctr, scan, preexisting>>

\* flip_counter_and_wait(): WRITE_ONCE(rcu_idx, ctr + 1); smp_mb()
Flip(u) ==
  /\ Goto(u, "sync_flip", "sync_wait")
  /\ rcu_idx' = flip[u] + 1
  /\ scan' = [scan EXCEPT ![u] = 0]
  /\ UNCHANGED <<rcu_gp_lock, readervars, ctr, oldctr, flip, preexisting>>

\* The call is the first of two: no pair of flips happened before the lock.
FlipAgain(u) == flip[u] = ctr[u] /\ ctr[u] - oldctr[u] < 2

\* i = ctr & 0x1
OldCounter(u) == flip[u] % 2

\* The loop passes scan[u], whose old counter is zero; smp_mb() after the last.
Wait(u) ==
  /\ pc[u] = "sync_wait"
  /\ rcu_refcnt[scan[u]][OldCounter(u)] = 0
  /\ \/ /\ scan[u] + 1 < NR_THREADS
        /\ scan' = [scan EXCEPT ![u] = @ + 1]
        /\ UNCHANGED <<flip, pc>>
     \/ /\ scan[u] + 1 = NR_THREADS
        /\ FlipAgain(u)
        /\ flip' = [flip EXCEPT ![u] = @ + 1]
        /\ pc' = [pc EXCEPT ![u] = "sync_flip"]
        /\ UNCHANGED scan
     \/ /\ scan[u] + 1 = NR_THREADS
        /\ ~ FlipAgain(u)
        /\ pc' = [pc EXCEPT ![u] = "sync_unlock"]
        /\ UNCHANGED <<flip, scan>>
  /\ UNCHANGED <<rcu_idx, rcu_gp_lock, readervars, ctr, oldctr, preexisting>>

\* spin_unlock(&rcu_gp_lock)
SyncUnlock(u) ==
  /\ Goto(u, "sync_unlock", "sync_return")
  /\ rcu_gp_lock' = NoThread
  /\ UNCHANGED <<rcu_idx, readervars, locals, preexisting>>

\* smp_mb() and return; the locals are gone
SyncReturn(u) ==
  /\ Goto(u, "sync_return", "idle")
  /\ ctr' = [ctr EXCEPT ![u] = 0]
  /\ oldctr' = [oldctr EXCEPT ![u] = 0]
  /\ flip' = [flip EXCEPT ![u] = 0]
  /\ scan' = [scan EXCEPT ![u] = 0]
  /\ UNCHANGED <<rcu_idx, rcu_gp_lock, readervars, preexisting>>

-----------------------------------------------------------------------------
Reader(t) ==
  ReadLockInc(t) \/ ReadLockMb(t) \/ ReadUnlockNested(t) \/ ReadUnlockMb(t) \/ ReadUnlockDec(t)

Sync(u) ==
  \/ SyncOld(u) \/ SyncLock(u) \/ SyncCtr(u) \/ Flip(u) \/ Wait(u)
  \/ SyncUnlock(u) \/ SyncReturn(u)

Next ==
  \E t \in Threads :
    \/ DrainStore(t)
    \/ ReadLockLoad(t) \/ ReadLockNested(t) \/ Reader(t)
    \/ SyncMb(t) \/ Sync(t)
=============================================================================
