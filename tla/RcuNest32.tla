----------------------------- MODULE RcuNest32 -----------------------------
(***************************************************************************)
(* The nestable RCU of CodeSamples/defer/rcu_nest32.h and rcu_nest32.c:    *)
(* the counter has a single grace-period bit, and a grace period flips it  *)
(* and waits twice.                                                        *)
(*                                                                         *)
(* A value of rcu_reader_gp is the record of its phase (bit 31) and of its *)
(* nesting count (the low-order bits).  The low-order bits of rcu_gp_ctr   *)
(* are always 1, so only its phase is kept.  Stores to rcu_reader_gp go    *)
(* through a store buffer that smp_mb() drains.                            *)
(***************************************************************************)
EXTENDS NestBase

VARIABLES
  phase,               \* rcu_gp_ctr & RCU_GP_CTR_BOTTOM_BIT
  rcu_reader_gp,       \* per thread: the value other threads read
  snap,                \* per thread: the phase rcu_read_lock() has loaded
  flip                 \* per thread: the call of flip_counter_and_wait(), 1 or 2

vars == <<phase, rcu_gp_lock, rcu_reader_gp, buffer, snap, scan, flip, pc, preexisting>>

readervars == <<rcu_reader_gp, buffer, snap>>
syncvars == <<phase, rcu_gp_lock, scan, flip>>

\* What t itself reads in its rcu_reader_gp.
Own(t) == IF Drained(t) THEN rcu_reader_gp[t] ELSE Last(buffer[t])

Store(t, value) == buffer' = [buffer EXCEPT ![t] = Append(@, value)]

\* The locations inside the outermost critical section.
Inside == {t \in Threads : pc[t] \in {"reading", "nest_mb", "unnest_store"}}

Syncing ==
  {u \in Threads : pc[u] \in {"sync_lock", "sync_flip", "sync_wait", "sync_unlock",
                              "sync_return"}}

Init ==
  /\ BaseInit
  /\ phase = 0
  /\ rcu_reader_gp = [t \in Threads |-> [phase |-> 0, nest |-> 0]]
  /\ snap = [t \in Threads |-> 0]
  /\ flip = [t \in Threads |-> 1]

DrainStore(t) ==
  /\ ~ Drained(t)
  /\ rcu_reader_gp' = [rcu_reader_gp EXCEPT ![t] = Head(buffer[t])]
  /\ buffer' = [buffer EXCEPT ![t] = Tail(@)]
  /\ UNCHANGED <<snap, syncvars, pc, preexisting>>

-----------------------------------------------------------------------------
\* rcu_read_lock()

\* Outermost: ACCESS_ONCE(rcu_gp_ctr)
ReadLockLoad(t) ==
  /\ t \in Readers
  /\ Goto(t, "idle", "lock_store")
  /\ snap' = [snap EXCEPT ![t] = phase]
  /\ UNCHANGED <<rcu_reader_gp, buffer, syncvars, preexisting>>

\* *rrgp = the value loaded, which nobody needs any longer
ReadLockStore(t) ==
  /\ Goto(t, "lock_store", "lock_mb")
  /\ Store(t, [phase |-> snap[t], nest |-> 1])
  /\ snap' = [snap EXCEPT ![t] = 0]
  /\ UNCHANGED <<rcu_reader_gp, syncvars, preexisting>>

\* Nested: *rrgp = tmp + 1
ReadLockNested(t) ==
  /\ Own(t).nest < MaxNest
  /\ Goto(t, "reading", "nest_mb")
  /\ Store(t, [Own(t) EXCEPT !.nest = @ + 1])
  /\ UNCHANGED <<rcu_reader_gp, snap, syncvars, preexisting>>

\* smp_mb()
ReadLockMb(t) ==
  /\ Goto(t, "lock_mb", "reading") \/ Goto(t, "nest_mb", "reading")
  /\ Drained(t)
  /\ UNCHANGED <<readervars, syncvars, preexisting>>

-----------------------------------------------------------------------------
\* rcu_read_unlock()

\* smp_mb(): after the one of the outermost unlock the critical section is over.
ReadUnlockMb(t) ==
  /\ Drained(t)
  /\ \/ /\ Own(t).nest = 1
        /\ Goto(t, "reading", "unlock_store")
        /\ preexisting' = [u \in Threads |-> preexisting[u] \ {t}]
     \/ /\ Own(t).nest > 1
        /\ Goto(t, "reading", "unnest_store")
        /\ UNCHANGED preexisting
  /\ UNCHANGED <<readervars, syncvars>>

\* Mutant: the nested unlock clears the whole count.
ReadUnlockStoreClears(t) ==
  /\ Goto(t, "unlock_store", "idle") \/ Goto(t, "unnest_store", "reading")
  /\ Store(t, [Own(t) EXCEPT !.nest = 0])
  /\ UNCHANGED <<rcu_reader_gp, snap, syncvars, preexisting>>

\* __get_thread_var(rcu_reader_gp)--
ReadUnlockStore(t) ==
  /\ Goto(t, "unlock_store", "idle") \/ Goto(t, "unnest_store", "reading")
  /\ Store(t, [Own(t) EXCEPT !.nest = @ - 1])
  /\ UNCHANGED <<rcu_reader_gp, snap, syncvars, preexisting>>

-----------------------------------------------------------------------------
\* synchronize_rcu()

\* smp_mb()
SyncMb(u) ==
  /\ u \in Updaters
  /\ Goto(u, "idle", "sync_lock")
  /\ Drained(u)
  /\ preexisting' = [preexisting EXCEPT ![u] = Inside]
  /\ UNCHANGED <<readervars, syncvars>>

\* spin_lock(&rcu_gp_lock)
SyncLock(u) ==
  /\ Goto(u, "sync_lock", "sync_flip")
  /\ rcu_gp_lock = NoThread
  /\ rcu_gp_lock' = u
  /\ flip' = [flip EXCEPT ![u] = 1]
  /\ UNCHANGED <<readervars, phase, scan, preexisting>>

\* flip_counter_and_wait(): rcu_gp_ctr ^= RCU_GP_CTR_BOTTOM_BIT; smp_mb()
Flip(u) ==
  /\ Goto(u, "sync_flip", "sync_wait")
  /\ phase' = 1 - phase
  /\ scan' = [scan EXCEPT ![u] = 0]
  /\ UNCHANGED <<readervars, rcu_gp_lock, flip, preexisting>>

\* Mutant: any reader is waited for, a new one too.
ReaderOngoing(t) == rcu_reader_gp[t].nest # 0

rcu_old_gp_ongoing(t) ==
  /\ rcu_reader_gp[t].nest # 0
  /\ rcu_reader_gp[t].phase # phase

\* The loop of flip_counter_and_wait() is over: the second call, or unlock.
AfterLoop(u) ==
  \/ /\ flip[u] = 1
     /\ flip' = [flip EXCEPT ![u] = 2]
     /\ pc' = [pc EXCEPT ![u] = "sync_flip"]
  \/ /\ flip[u] = 2
     /\ pc' = [pc EXCEPT ![u] = "sync_unlock"]
     /\ UNCHANGED flip

\* The loop passes thread scan[u], which is in no old critical section.
Wait(u) ==
  /\ pc[u] = "sync_wait"
  /\ ~ rcu_old_gp_ongoing(scan[u])
  /\ \/ /\ scan[u] + 1 < NR_THREADS
        /\ scan' = [scan EXCEPT ![u] = @ + 1]
        /\ UNCHANGED <<flip, pc>>
     \/ /\ scan[u] + 1 = NR_THREADS
        /\ AfterLoop(u)
        /\ UNCHANGED scan
  /\ UNCHANGED <<readervars, phase, rcu_gp_lock, preexisting>>

\* spin_unlock(&rcu_gp_lock)
SyncUnlock(u) ==
  /\ Goto(u, "sync_unlock", "sync_return")
  /\ rcu_gp_lock' = NoThread
  /\ UNCHANGED <<readervars, phase, scan, flip, preexisting>>

\* smp_mb() and return; the locals are gone
SyncReturn(u) ==
  /\ Goto(u, "sync_return", "idle")
  /\ scan' = [scan EXCEPT ![u] = 0]
  /\ flip' = [flip EXCEPT ![u] = 1]
  /\ UNCHANGED <<readervars, phase, rcu_gp_lock, preexisting>>

-----------------------------------------------------------------------------
\* What a critical section that has begun does to end.
Reader(t) ==
  ReadLockStore(t) \/ ReadLockMb(t) \/ ReadUnlockMb(t) \/ ReadUnlockStore(t)

SyncStep(u) == SyncLock(u) \/ Flip(u) \/ Wait(u) \/ SyncUnlock(u) \/ SyncReturn(u)

Next ==
  \E t \in Threads :
    \/ DrainStore(t)
    \/ ReadLockLoad(t) \/ ReadLockNested(t) \/ Reader(t)
    \/ SyncMb(t) \/ SyncStep(t)

-----------------------------------------------------------------------------
\* A nested critical section is announced until its outermost unlock: while a
\* thread is inside, every value of its rcu_reader_gp that others can still
\* read has a nonzero count and one and the same phase.
AnnouncedWhileInside ==
  \A t \in Inside :
    /\ rcu_reader_gp[t].nest # 0
    /\ \A i \in DOMAIN buffer[t] :
         buffer[t][i].nest # 0 /\ buffer[t][i].phase = rcu_reader_gp[t].phase
=============================================================================
