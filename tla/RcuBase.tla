------------------------------ MODULE RcuBase ------------------------------
(***************************************************************************)
(* What the smaller RCU implementations of CodeSamples/defer have in       *)
(* common: threads, the spinlock, per-thread variables written through a   *)
(* store buffer, and what a grace period is.  RcuFamily and RcuSig extend  *)
(* it.                                                                     *)
(***************************************************************************)
EXTENDS Integers, Sequences, FiniteSets, SequencesExt

CONSTANTS
  NR_THREADS,          \* the threads are 0 .. NR_THREADS - 1
  Readers,             \* bound: the threads that read
  Updaters,            \* bound: the threads that call synchronize_rcu()
  MaxNest,             \* bound: calls of rcu_read_lock() in a critical section
  MaxStores,           \* bound: the stores a buffer holds
  MaxGP,               \* bound: grace periods of a counter that does not wrap
  MaxClock             \* bound: the last timestamp

Threads == 0 .. NR_THREADS - 1
NoThread == NR_THREADS

ASSUME RcuBaseAssumption ==
  /\ NR_THREADS \in Nat \ {0} /\ Readers \subseteq Threads /\ Updaters \subseteq Threads
  /\ MaxNest \in Nat \ {0} /\ MaxStores \in Nat \ {0} /\ MaxGP \in Nat /\ MaxClock \in Nat

VARIABLES
  impl,                \* the implementation; never changes
  ctr,                 \* rcu_gp_ctr, rcu_idx, completed, or the clock
  mutex,               \* per lock its holder or NoThread; rcu_gp_lock is mutex[NoThread]
  shared,              \* reference counts common to all threads; the urcu_statep of rcu_sig
  reader,              \* per thread: its own variable, as other threads read it
  buffer,              \* per thread: its stores to that variable, not yet visible
  loc,                 \* per thread: what the function called keeps in registers
  pc,
  preexisting          \* history: the readers a synchronize_rcu() has to outlast

vars == <<impl, ctr, mutex, shared, reader, buffer, loc, pc, preexisting>>

Goto(t, from, to) ==
  /\ pc[t] = from
  /\ pc' = [pc EXCEPT ![t] = to]

Drained(t) == buffer[t] = <<>>

\* What t itself reads in its variable
Own(t) == IF Drained(t) THEN reader[t] ELSE Last(buffer[t])

Store(t, value) ==
  /\ Len(buffer[t]) < MaxStores
  /\ buffer' = [buffer EXCEPT ![t] = Append(@, value)]

DrainStore(t) ==
  /\ ~ Drained(t)
  /\ reader' = [reader EXCEPT ![t] = Head(buffer[t])]
  /\ buffer' = [buffer EXCEPT ![t] = Tail(@)]
  /\ UNCHANGED <<impl, ctr, mutex, shared, loc, pc, preexisting>>

Registers ==
  [nest |-> 0, calls |-> 0, idx |-> 0, snap |-> 0, old |-> 0, flip |-> 1, scan |-> 0, due |-> <<>>, sig |-> FALSE]

\* A function returns; a signal stays pending.
Forget(t) == loc' = [loc EXCEPT ![t] = [Registers EXCEPT !.sig = loc[t].sig]]

\* Nobody reads or updates; counters and per-thread variables as given.
InitWith(impls, ctr0, reader0) ==
  /\ impl \in impls
  /\ ctr = ctr0
  /\ mutex = [l \in 0 .. NR_THREADS |-> NoThread]
  /\ shared = [i \in 0 .. 1 |-> 0]
  /\ reader = [t \in Threads |-> reader0]
  /\ buffer = [t \in Threads |-> <<>>]
  /\ loc = [t \in Threads |-> Registers]
  /\ pc = [t \in Threads |-> "idle"]
  /\ preexisting = [t \in Threads |-> {}]

\* The locations inside the outermost critical section
Inside == {t \in Threads : pc[t] \in {"reading", "nest_mb", "unnest_store", "qs_inner"}}

Syncing ==
  {u \in Threads : pc[u] \in {"sync_lock", "sync_load", "sync_advance", "sync_wait", "sync_again",
                              "sync_drop", "sync_unlock", "sync_return"}}

\* The critical section of t is over.
Outlast(t) == preexisting' = [u \in Threads |-> preexisting[u] \ {t}]

\* synchronize_rcu() is called: its smp_mb() makes the caller's updates visible.
SyncCall(u) ==
  /\ u \in Updaters
  /\ Goto(u, "idle", "sync_lock")
  /\ Drained(u)
  /\ preexisting' = [preexisting EXCEPT ![u] = Inside]
  /\ UNCHANGED <<impl, ctr, mutex, shared, reader, buffer, loc>>

SyncUnlock(u) ==
  /\ Goto(u, "sync_unlock", "sync_return")
  /\ mutex' = [mutex EXCEPT ![NoThread] = NoThread]
  /\ UNCHANGED <<impl, ctr, shared, reader, buffer, loc, preexisting>>

SyncReturn(u) ==
  /\ Goto(u, "sync_return", "idle")
  /\ Forget(u)
  /\ UNCHANGED <<impl, ctr, mutex, shared, reader, buffer, preexisting>>

GP == INSTANCE GracePeriod WITH inside <- Inside, syncing <- Syncing
=============================================================================
