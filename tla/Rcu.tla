-------------------------------- MODULE Rcu --------------------------------
(***************************************************************************)
(* The RCU of CodeSamples/defer/rcu.h and rcu.c: a free-running global     *)
(* grace-period counter that readers copy, with the bottom bit set while   *)
(* they are inside a critical section.                                     *)
(*                                                                         *)
(* Every thread may read and may call synchronize_rcu().  One action is    *)
(* one access to shared memory.  A thread's plain store to its own         *)
(* rcu_reader_gp goes through a store buffer, is drained at any later      *)
(* time, and has been drained when a later smp_mb() completes; the stores  *)
(* of synchronize_rcu() are each followed by an smp_mb() and need none.    *)
(***************************************************************************)
EXTENDS Integers, Sequences, FiniteSets

CONSTANTS
  NR_THREADS,          \* the threads are 0 .. NR_THREADS - 1
  MaxGP                \* bound: calls of synchronize_rcu() in a behaviour

ASSUME NRThreadsAssumption == NR_THREADS \in Nat \ {0}
ASSUME MaxGPAssumption == MaxGP \in Nat

Threads == 0 .. NR_THREADS - 1

NoThread == -1         \* the holder of a free lock

VARIABLES
  rcu_gp_ctr,          \* always even, += 2 at the start of each grace period
  rcu_gp_lock,         \* the holder of the lock, or NoThread
  rcu_reader_gp,       \* per thread: the value other threads read
  buffer,              \* per thread: its stores to rcu_reader_gp not yet drained
  snap,                \* per thread: the value of rcu_gp_ctr it just loaded
  scan,                \* per thread: t of the for_each_thread() loop
  pc,                  \* per thread: where it is
  preexisting          \* history: the readers a synchronize_rcu() has to outlast

vars == <<rcu_gp_ctr, rcu_gp_lock, rcu_reader_gp, buffer, snap, scan, pc,
          preexisting>>

Locations ==
  {"idle", "lock_store", "lock_mb", "reading", "unlock_load", "unlock_store",
   "sync_lock", "sync_advance", "sync_odd", "sync_behind", "sync_unlock",
   "sync_return"}

Goto(t, from, to) ==
  /\ pc[t] = from
  /\ pc' = [pc EXCEPT ![t] = to]

Store(t, value) == buffer' = [buffer EXCEPT ![t] = Append(@, value)]

\* smp_mb() completes in t only when all earlier stores of t are visible.
Drained(t) == buffer[t] = <<>>

Inside == {t \in Threads : pc[t] = "reading"}

Syncing ==
  {u \in Threads : pc[u] \in {"sync_lock", "sync_advance", "sync_odd",
                              "sync_behind", "sync_unlock", "sync_return"}}

Init ==
  /\ rcu_gp_ctr = 0
  /\ rcu_gp_lock = NoThread
  /\ rcu_reader_gp = [t \in Threads |-> 0]
  /\ buffer = [t \in Threads |-> <<>>]
  /\ snap = [t \in Threads |-> 0]
  /\ scan = [t \in Threads |-> 0]
  /\ pc = [t \in Threads |-> "idle"]
  /\ preexisting = [t \in Threads |-> {}]

\* A store of t to its own rcu_reader_gp becomes visible to the others.
DrainStore(t) ==
  /\ buffer[t] # <<>>
  /\ rcu_reader_gp' = [rcu_reader_gp EXCEPT ![t] = Head(buffer[t])]
  /\ buffer' = [buffer EXCEPT ![t] = Tail(@)]
  /\ UNCHANGED <<rcu_gp_ctr, rcu_gp_lock, snap, scan, pc, preexisting>>

-----------------------------------------------------------------------------
\* rcu_read_lock()

\* READ_ONCE(rcu_gp_ctr)
ReadLockLoad(t) ==
  /\ Goto(t, "idle", "lock_store")
  /\ snap' = [snap EXCEPT ![t] = rcu_gp_ctr]
  /\ UNCHANGED <<rcu_gp_ctr, rcu_gp_lock, rcu_reader_gp, buffer, scan, preexisting>>

\* __get_thread_var(rcu_reader_gp) = ... + 1
ReadLockStore(t) ==
  /\ Goto(t, "lock_store", "lock_mb")
  /\ Store(t, snap[t] + 1)
  /\ UNCHANGED <<rcu_gp_ctr, rcu_gp_lock, rcu_reader_gp, snap, scan, preexisting>>

\* Mutant: rcu_read_lock() without its smp_mb().
ReadLockNoMb(t) ==
  /\ Goto(t, "lock_mb", "reading")
  /\ UNCHANGED <<rcu_gp_ctr, rcu_gp_lock, rcu_reader_gp, buffer, snap, scan,
                 preexisting>>

\* smp_mb(): from here on the critical section reads the protected data.
ReadLockMb(t) ==
  /\ Goto(t, "lock_mb", "reading")
  /\ Drained(t)
  /\ UNCHANGED <<rcu_gp_ctr, rcu_gp_lock, rcu_reader_gp, buffer, snap, scan,
                 preexisting>>

-----------------------------------------------------------------------------
\* rcu_read_unlock()

\* smp_mb(): every access of the critical section is over.
ReadUnlockMb(t) ==
  /\ Goto(t, "reading", "unlock_load")
  /\ Drained(t)
  /\ preexisting' = [u \in Threads |-> preexisting[u] \ {t}]
  /\ UNCHANGED <<rcu_gp_ctr, rcu_gp_lock, rcu_reader_gp, buffer, snap, scan>>

\* READ_ONCE(rcu_gp_ctr)
ReadUnlockLoad(t) ==
  /\ Goto(t, "unlock_load", "unlock_store")
  /\ snap' = [snap EXCEPT ![t] = rcu_gp_ctr]
  /\ UNCHANGED <<rcu_gp_ctr, rcu_gp_lock, rcu_reader_gp, buffer, scan, preexisting>>

\* __get_thread_var(rcu_reader_gp) = ...
ReadUnlockStore(t) ==
  /\ Goto(t, "unlock_store", "idle")
  /\ Store(t, snap[t])
  /\ UNCHANGED <<rcu_gp_ctr, rcu_gp_lock, rcu_reader_gp, snap, scan, preexisting>>

-----------------------------------------------------------------------------
\* synchronize_rcu()

\* The bound: calls that have advanced the counter and calls about to.
CallsLeft ==
  rcu_gp_ctr + 2 * Cardinality({u \in Threads : pc[u] \in {"sync_lock", "sync_advance"}})
    < 2 * MaxGP

\* smp_mb(): the caller's removal is visible; who is reading now may hold it.
SyncMb(u) ==
  /\ CallsLeft
  /\ Goto(u, "idle", "sync_lock")
  /\ Drained(u)
  /\ preexisting' = [preexisting EXCEPT ![u] = Inside]
  /\ UNCHANGED <<rcu_gp_ctr, rcu_gp_lock, rcu_reader_gp, buffer, snap, scan>>

\* Mutant: the lock is taken although another thread holds it.
SyncNoLock(u) ==
  /\ Goto(u, "sync_lock", "sync_advance")
  /\ rcu_gp_lock' = u
  /\ UNCHANGED <<rcu_gp_ctr, rcu_reader_gp, buffer, snap, scan, preexisting>>

\* spin_lock(&rcu_gp_lock)
SyncLock(u) ==
  /\ Goto(u, "sync_lock", "sync_advance")
  /\ rcu_gp_lock = NoThread
  /\ rcu_gp_lock' = u
  /\ UNCHANGED <<rcu_gp_ctr, rcu_reader_gp, buffer, snap, scan, preexisting>>

\* WRITE_ONCE(rcu_gp_ctr, rcu_gp_ctr + 2); smp_mb(); and the loop starts
SyncAdvance(u) ==
  /\ Goto(u, "sync_advance", "sync_odd")
  /\ rcu_gp_ctr' = rcu_gp_ctr + 2
  /\ scan' = [scan EXCEPT ![u] = 0]
  /\ UNCHANGED <<rcu_gp_lock, rcu_reader_gp, buffer, snap, preexisting>>

\* The loop is done with thread scan[u].
NextThread(u) ==
  /\ scan' = [scan EXCEPT ![u] = @ + 1]
  /\ pc' = [pc EXCEPT ![u] =
              IF scan[u] + 1 < NR_THREADS THEN "sync_odd" ELSE "sync_unlock"]

\* per_thread(rcu_reader_gp, t) & 0x1
SyncOdd(u) ==
  /\ pc[u] = "sync_odd"
  /\ \/ /\ rcu_reader_gp[scan[u]] % 2 = 1
        /\ pc' = [pc EXCEPT ![u] = "sync_behind"]
        /\ UNCHANGED scan
     \/ /\ rcu_reader_gp[scan[u]] % 2 = 0
        /\ NextThread(u)
  /\ UNCHANGED <<rcu_gp_ctr, rcu_gp_lock, rcu_reader_gp, buffer, snap, preexisting>>

\* The second condition of the loop, waiting for the values below rcu_gp_ctr + slack.
BehindBy(u, slack) ==
  /\ pc[u] = "sync_behind"
  /\ \/ /\ rcu_reader_gp[scan[u]] - rcu_gp_ctr < slack
        /\ pc' = [pc EXCEPT ![u] = "sync_odd"]
        /\ UNCHANGED scan
     \/ /\ rcu_reader_gp[scan[u]] - rcu_gp_ctr >= slack
        /\ NextThread(u)
  /\ UNCHANGED <<rcu_gp_ctr, rcu_gp_lock, rcu_reader_gp, buffer, snap, preexisting>>

\* Mutants: a reader of the previous grace period is not waited for; a reader
\* of the current one is.
SyncBehindTooEarly(u) == BehindBy(u, -1)
SyncBehindTooLate(u) == BehindBy(u, 2)

\* per_thread(rcu_reader_gp, t) - rcu_gp_ctr < 0, a second load
SyncBehind(u) == BehindBy(u, 0)

\* spin_unlock(&rcu_gp_lock)
SyncUnlock(u) ==
  /\ Goto(u, "sync_unlock", "sync_return")
  /\ rcu_gp_lock' = NoThread
  /\ UNCHANGED <<rcu_gp_ctr, rcu_reader_gp, buffer, snap, scan, preexisting>>

\* smp_mb() and return: the caller may now free what it had removed.
SyncReturn(u) ==
  /\ Goto(u, "sync_return", "idle")
  /\ UNCHANGED <<rcu_gp_ctr, rcu_gp_lock, rcu_reader_gp, buffer, snap, scan,
                 preexisting>>

-----------------------------------------------------------------------------
Reader(t) ==
  \/ ReadLockLoad(t) \/ ReadLockStore(t) \/ ReadLockMb(t)
  \/ ReadUnlockMb(t) \/ ReadUnlockLoad(t) \/ ReadUnlockStore(t)

\* What a call of synchronize_rcu() does once it is made.
SyncStep(u) ==
  \/ SyncLock(u) \/ SyncAdvance(u) \/ SyncOdd(u) \/ SyncBehind(u)
  \/ SyncUnlock(u) \/ SyncReturn(u)

Next ==
  \E t \in Threads : DrainStore(t) \/ Reader(t) \/ SyncMb(t) \/ SyncStep(t)

Spec == Init /\ [][Next]_vars

\* A critical section that has begun ends, a store drains, and a thread inside
\* synchronize_rcu() is scheduled.  Nobody is obliged to begin anything.
Fairness ==
  \A t \in Threads :
    /\ WF_vars(DrainStore(t))
    /\ WF_vars(pc[t] # "idle" /\ Reader(t))
    /\ WF_vars(SyncStep(t))

FairSpec == Spec /\ Fairness

-----------------------------------------------------------------------------
TypeOK ==
  /\ rcu_gp_ctr \in Nat
  /\ rcu_gp_lock \in Threads \union {NoThread}
  /\ rcu_reader_gp \in [Threads -> Nat]
  /\ buffer \in [Threads -> Seq(Nat)]
  /\ snap \in [Threads -> Nat]
  /\ scan \in [Threads -> 0 .. NR_THREADS]
  /\ pc \in [Threads -> Locations]
  /\ \A u \in Threads :
       pc[u] \in {"sync_odd", "sync_behind"} => scan[u] \in Threads
  /\ preexisting \in [Threads -> SUBSET Threads]

\* synchronize_rcu() never returns while a critical section that was under way
\* when it was called is still under way (the point of the scan in rcu.c:48-59).
GracePeriodGuarantee ==
  \A u \in Threads :
    pc[u] \in {"sync_unlock", "sync_return"} => preexisting[u] = {}

GP == INSTANCE GracePeriod WITH inside <- Inside, syncing <- Syncing

\* rcu.c and rcu.h implement the grace-period specification.
ImplementsGracePeriod == GP!Spec

\* Every call of synchronize_rcu() returns, however often other threads enter
\* and leave critical sections: readers that start after the counter advanced
\* are never waited for.
SynchronizeReturns ==
  \A u \in Threads : pc[u] = "sync_lock" ~> pc[u] = "idle"
=============================================================================
