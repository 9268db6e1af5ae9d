------------------------------ MODULE RcuNest ------------------------------
(***************************************************************************)
(* The nestable RCU of CodeSamples/defer/rcu_nest.h and rcu_nest.c: the    *)
(* low-order bits of a reader's rcu_reader_gp count its nesting, the rest  *)
(* is the grace-period number it copied, and all of it is an unsigned long *)
(* that wraps around.                                                      *)
(*                                                                         *)
(* Words are the numbers 0 .. WORD - 1 and arithmetic on them is modulo    *)
(* WORD.  Stores to rcu_reader_gp go through a store buffer that smp_mb()  *)
(* drains.                                                                 *)
(***************************************************************************)
EXTENDS NestBase

VARIABLES
  rcu_gp_ctr,
  rcu_reader_gp,       \* per thread: the value other threads read
  tmp                  \* per thread: the local of rcu_read_lock()

vars == <<rcu_gp_ctr, rcu_gp_lock, rcu_reader_gp, buffer, tmp, scan, pc, preexisting>>

syncvars == <<rcu_gp_ctr, rcu_gp_lock, scan>>

Plus(a, b) == (a + b) % WORD
Minus(a, b) == (a - b) % WORD

\* Mutant: a comparison that does not expect the counter to wrap around.
PlainGE(a, b) == a >= b

ULONG_CMP_GE(a, b) == (WORD - 1) \div 2 >= Minus(a, b)

Nest(value) == value % RCU_GP_CTR_BOTTOM_BIT

Own(t) == IF Drained(t) THEN rcu_reader_gp[t] ELSE Last(buffer[t])

Store(t, value) == buffer' = [buffer EXCEPT ![t] = Append(@, value)]

Inside == {t \in Threads : pc[t] \in {"reading", "nest_mb", "unnest_store"}}

Init ==
  /\ BaseInit
  /\ rcu_gp_ctr = 0
  /\ rcu_reader_gp = [t \in Threads |-> 0]
  /\ tmp = [t \in Threads |-> 0]

DrainStore(t) ==
  /\ ~ Drained(t)
  /\ rcu_reader_gp' = [rcu_reader_gp EXCEPT ![t] = Head(buffer[t])]
  /\ buffer' = [buffer EXCEPT ![t] = Tail(@)]
  /\ UNCHANGED <<tmp, syncvars, pc, preexisting>>

-----------------------------------------------------------------------------
\* rcu_read_lock()

\* Outermost, first time or after a goto retry: tmp = READ_ONCE(rcu_gp_ctr); tmp++
ReadLockLoad(t) ==
  /\ t \in Readers
  /\ Goto(t, "idle", "lock_store") \/ Goto(t, "lock_retry", "lock_store")
  /\ tmp' = [tmp EXCEPT ![t] = Plus(rcu_gp_ctr, 1)]
  /\ UNCHANGED <<rcu_reader_gp, buffer, syncvars, preexisting>>

\* WRITE_ONCE(*rrgp, tmp)
ReadLockStore(t) ==
  /\ Goto(t, "lock_store", "lock_mb")
  /\ Store(t, tmp[t])
  /\ UNCHANGED <<rcu_reader_gp, tmp, syncvars, preexisting>>

\* Nested: tmp = *rrgp; tmp++; WRITE_ONCE(*rrgp, tmp)
ReadLockNested(t) ==
  /\ Nest(Own(t)) < MaxNest
  /\ Goto(t, "reading", "nest_mb")
  /\ tmp' = [tmp EXCEPT ![t] = Plus(Own(t), 1)]
  /\ Store(t, Plus(Own(t), 1))
  /\ UNCHANGED <<rcu_reader_gp, syncvars, preexisting>>

\* smp_mb(); a nested lock has nothing more to check
ReadLockMb(t) ==
  /\ Drained(t)
  /\ Goto(t, "lock_mb", "lock_check") \/ Goto(t, "nest_mb", "reading")
  /\ UNCHANGED <<rcu_reader_gp, buffer, tmp, syncvars, preexisting>>

\* The counter has moved too far since it was copied: withdraw and start over.
TooOld(t) == ULONG_CMP_GE(rcu_gp_ctr, Plus(tmp[t], MAX_GP_ADV_DISTANCE))

ReadLockCheck(t) ==
  /\ \/ ~ TooOld(t) /\ Goto(t, "lock_check", "reading") /\ UNCHANGED buffer
     \/ TooOld(t) /\ Goto(t, "lock_check", "lock_retry") /\ Store(t, Minus(Own(t), 1))
  /\ UNCHANGED <<rcu_reader_gp, tmp, syncvars, preexisting>>

-----------------------------------------------------------------------------
\* rcu_read_unlock()

\* smp_mb()
ReadUnlockMb(t) ==
  /\ Drained(t)
  /\ \/ /\ Nest(Own(t)) = 1
        /\ Goto(t, "reading", "unlock_store")
        /\ preexisting' = [u \in Threads |-> preexisting[u] \ {t}]
     \/ /\ Nest(Own(t)) # 1
        /\ Goto(t, "reading", "unnest_store")
        /\ UNCHANGED preexisting
  /\ UNCHANGED <<rcu_reader_gp, buffer, tmp, syncvars>>

\* __get_thread_var(rcu_reader_gp)--
ReadUnlockStore(t) ==
  /\ Goto(t, "unlock_store", "idle") \/ Goto(t, "unnest_store", "reading")
  /\ Store(t, Minus(Own(t), 1))
  /\ UNCHANGED <<rcu_reader_gp, tmp, syncvars, preexisting>>

-----------------------------------------------------------------------------
\* synchronize_rcu()

\* smp_mb()
SyncMb(u) ==
  /\ u \in Updaters
  /\ Goto(u, "idle", "sync_lock")
  /\ Drained(u)
  /\ preexisting' = [preexisting EXCEPT ![u] = Inside]
  /\ UNCHANGED <<rcu_reader_gp, buffer, tmp, syncvars>>

\* spin_lock(&rcu_gp_lock)
SyncLock(u) ==
  /\ Goto(u, "sync_lock", "sync_advance")
  /\ rcu_gp_lock = NoThread
  /\ rcu_gp_lock' = u
  /\ UNCHANGED <<rcu_gp_ctr, rcu_reader_gp, buffer, tmp, scan, preexisting>>

\* WRITE_ONCE(rcu_gp_ctr, rcu_gp_ctr + RCU_GP_CTR_BOTTOM_BIT); smp_mb()
SyncAdvance(u) ==
  /\ Goto(u, "sync_advance", "sync_ongoing")
  /\ rcu_gp_ctr' = Plus(rcu_gp_ctr, RCU_GP_CTR_BOTTOM_BIT)
  /\ scan' = [scan EXCEPT ![u] = 0]
  /\ UNCHANGED <<rcu_gp_lock, rcu_reader_gp, buffer, tmp, preexisting>>

NextThread(u) ==
  \/ /\ scan[u] + 1 < NR_THREADS
     /\ scan' = [scan EXCEPT ![u] = @ + 1]
     /\ pc' = [pc EXCEPT ![u] = "sync_ongoing"]
  \/ /\ scan[u] + 1 = NR_THREADS
     /\ pc' = [pc EXCEPT ![u] = "sync_unlock"]
     /\ UNCHANGED scan

\* rcu_gp_ongoing(t)
SyncOngoing(u) ==
  /\ pc[u] = "sync_ongoing"
  /\ \/ /\ Nest(rcu_reader_gp[scan[u]]) # 0
        /\ pc' = [pc EXCEPT ![u] = "sync_behind"]
        /\ UNCHANGED scan
     \/ /\ Nest(rcu_reader_gp[scan[u]]) = 0
        /\ NextThread(u)
  /\ UNCHANGED <<rcu_gp_ctr, rcu_gp_lock, rcu_reader_gp, buffer, tmp, preexisting>>

\* READ_ONCE(per_thread(rcu_reader_gp, t)) - rcu_gp_ctr < 0, in unsigned arithmetic
Behind(t) == Minus(rcu_reader_gp[t], rcu_gp_ctr) < 0

SyncBehind(u) ==
  /\ pc[u] = "sync_behind"
  /\ ~ Behind(scan[u])
  /\ NextThread(u)
  /\ UNCHANGED <<rcu_gp_ctr, rcu_gp_lock, rcu_reader_gp, buffer, tmp, preexisting>>

\* spin_unlock(&rcu_gp_lock)
SyncUnlock(u) ==
  /\ Goto(u, "sync_unlock", "sync_return")
  /\ rcu_gp_lock' = NoThread
  /\ UNCHANGED <<rcu_gp_ctr, rcu_reader_gp, buffer, tmp, scan, preexisting>>

\* smp_mb() and return
SyncReturn(u) ==
  /\ Goto(u, "sync_return", "idle")
  /\ UNCHANGED <<rcu_reader_gp, buffer, tmp, syncvars, preexisting>>

-----------------------------------------------------------------------------
\* The steps of a thread inside rcu_read_lock() or rcu_read_unlock().
Reader(t) ==
  \/ ReadLockStore(t) \/ ReadLockMb(t) \/ ReadLockCheck(t) \/ ReadUnlockStore(t)
  \/ pc[t] = "lock_retry" /\ ReadLockLoad(t)

Sync(u) ==
  \/ SyncLock(u) \/ SyncAdvance(u) \/ SyncOngoing(u) \/ SyncBehind(u)
  \/ SyncUnlock(u) \/ SyncReturn(u)

Next ==
  \E t \in Threads :
    \/ DrainStore(t)
    \/ ReadLockLoad(t) \/ ReadLockNested(t) \/ ReadUnlockMb(t) \/ Reader(t)
    \/ SyncMb(t) \/ Sync(t)

Spec == Init /\ [][Next]_vars

-----------------------------------------------------------------------------
\* A critical section stays announced, with the grace-period number it was
\* entered with, through every nested lock and unlock and through a retry of
\* rcu_read_lock(): while a thread is inside, no value of its rcu_reader_gp
\* that others can still read has a zero count or another number.
AnnouncedWhileInside ==
  \A t \in Inside :
    \A v \in {rcu_reader_gp[t]} \union {buffer[t][i] : i \in DOMAIN buffer[t]} :
      Nest(v) # 0 /\ v - Nest(v) = Own(t) - Nest(Own(t))

\* "Wait until all threads are either out of their RCU read-side critical
\* sections or are aware of the new grace period" (rcu_nest.c:44-47): when the
\* loop is over no reader that was under way at the call is left.
GracePeriodGuarantee ==
  \A u \in Threads :
    pc[u] \in {"sync_unlock", "sync_return"} => preexisting[u] = {}
=============================================================================
