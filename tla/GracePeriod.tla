---------------------------- MODULE GracePeriod ----------------------------
(***************************************************************************)
(* What every RCU implementation under CodeSamples/defer promises.         *)
(*                                                                         *)
(* A thread is either inside a read-side critical section or not.  A call  *)
(* of synchronize_rcu() may return only after every critical section that  *)
(* was under way when it was called has ended.  Critical sections that     *)
(* begin later need not be waited for.                                     *)
(*                                                                         *)
(* The detailed specifications instantiate this module and are shown to    *)
(* implement Spec.                                                         *)
(***************************************************************************)
EXTENDS Naturals

CONSTANT Threads       \* the threads that may read and may update

VARIABLES
  inside,              \* the threads inside a read-side critical section
  syncing,             \* the threads executing synchronize_rcu()
  preexisting          \* for each of them, the readers it still has to wait for

gpvars == <<inside, syncing, preexisting>>

Init ==
  /\ inside = {}
  /\ syncing = {}
  /\ preexisting = [u \in Threads |-> {}]

\* rcu_read_lock() returns in thread t.
ReadLock(t) ==
  /\ t \notin inside \union syncing
  /\ inside' = inside \union {t}
  /\ UNCHANGED <<syncing, preexisting>>

\* rcu_read_unlock() is called by thread t.
ReadUnlock(t) ==
  /\ t \in inside
  /\ inside' = inside \ {t}
  /\ preexisting' = [u \in Threads |-> preexisting[u] \ {t}]
  /\ UNCHANGED syncing

\* Thread u calls synchronize_rcu(): its earlier updates are visible.
SynchronizeCall(u) ==
  /\ u \notin inside \union syncing
  /\ syncing' = syncing \union {u}
  /\ preexisting' = [preexisting EXCEPT ![u] = inside]
  /\ UNCHANGED inside

\* synchronize_rcu() returns in thread u: a grace period has elapsed.
SynchronizeReturn(u) ==
  /\ u \in syncing
  /\ preexisting[u] = {}
  /\ syncing' = syncing \ {u}
  /\ UNCHANGED <<inside, preexisting>>

Next ==
  \E t \in Threads :
    \/ ReadLock(t)
    \/ ReadUnlock(t)
    \/ SynchronizeCall(t)
    \/ SynchronizeReturn(t)

Spec == Init /\ [][Next]_gpvars
=============================================================================
