------------------------------- MODULE RcuSig -------------------------------
(***************************************************************************)
(* CodeSamples/defer/rcu_sig.[ch]: rcu_read_lock() and rcu_read_unlock()   *)
(* have no barriers; synchronize_rcu() makes every thread execute one by a *)
(* signal, and waits for the answer in urcu_qs.                            *)
(*                                                                         *)
(* reader is urcu_qs, loc.nest is urcu_nesting (only its thread and that   *)
(* thread's handler use it), shared is whether urcu_statep is set, loc.sig *)
(* whether SIGUSR1 is pending.                                             *)
(***************************************************************************)
EXTENDS RcuBase

Impls == {"sig"}

URCU_QS_IDLE == -1
URCU_QS_REQ == 0
URCU_QS_ACK == 1
URCU_QS_DONE == 2

\* rcu_init(): no thread is registered
Init ==
  /\ impl \in Impls
  /\ ctr = 0
  /\ mutex = [l \in 0 .. NR_THREADS |-> NoThread]
  /\ shared = [t \in Threads |-> FALSE]
  /\ reader = [t \in Threads |-> URCU_QS_IDLE]
  /\ buffer = [t \in Threads |-> <<>>]
  /\ loc = [t \in Threads |-> Registers]
  /\ pc = [t \in Threads |-> "idle"]
  /\ preexisting = [t \in Threads |-> {}]

\* rcu_register_thread(), rcu_unregister_thread(), under rcu_gp_lock
Register(t) ==
  /\ t \in Readers /\ pc[t] = "idle" /\ mutex[NoThread] = NoThread /\ Drained(t)
  /\ shared' = [shared EXCEPT ![t] = ~ @]
  /\ UNCHANGED <<impl, ctr, mutex, reader, buffer, loc, pc, preexisting>>

ReadLock(t) ==
  /\ t \in Readers
  /\ \/ shared[t] /\ Goto(t, "idle", "reading")
     \/ pc[t] = "reading" /\ loc[t].calls < MaxNest /\ UNCHANGED pc
  /\ loc' = [loc EXCEPT ![t].nest = @ + 1, ![t].calls = @ + 1]
  /\ UNCHANGED <<impl, ctr, mutex, shared, reader, buffer, preexisting>>

\* --urcu_nesting
ReadUnlock(t) ==
  /\ \/ loc[t].nest = 1 /\ Goto(t, "reading", "unlock_load") /\ Outlast(t) /\ Forget(t)
     \/ /\ loc[t].nest > 1 /\ pc[t] = "reading" /\ UNCHANGED <<pc, preexisting>>
        /\ loc' = [loc EXCEPT ![t].nest = @ - 1]
  /\ UNCHANGED <<impl, ctr, mutex, shared, reader, buffer>>

\* urcu_qs >= URCU_QS_ACK
ReadUnlockLoad(t) ==
  /\ Goto(t, "unlock_load", IF Own(t) >= URCU_QS_ACK THEN "unlock_store" ELSE "idle")
  /\ UNCHANGED <<impl, ctr, mutex, shared, reader, buffer, loc, preexisting>>

\* smp_mb(); urcu_qs = URCU_QS_DONE
ReadUnlockStore(t) ==
  /\ Goto(t, "unlock_store", "idle")
  /\ Drained(t)
  /\ Store(t, URCU_QS_DONE)
  /\ UNCHANGED <<impl, ctr, mutex, shared, reader, loc, preexisting>>

\* Mutant: outside critical sections the handler acknowledges only.
HandlerAcksOnly(t) ==
  /\ loc[t].sig /\ Drained(t)
  /\ loc' = [loc EXCEPT ![t].sig = FALSE]
  /\ \/ reader[t] # URCU_QS_REQ /\ UNCHANGED buffer
     \/ reader[t] = URCU_QS_REQ /\ Store(t, URCU_QS_ACK)
  /\ UNCHANGED <<impl, ctr, mutex, shared, reader, pc, preexisting>>

\* The handler, at any location: entering it and its smp_mb() drain the stores.
urcu_sig_handler(t) ==
  /\ loc[t].sig /\ Drained(t)
  /\ loc' = [loc EXCEPT ![t].sig = FALSE]
  /\ \/ reader[t] # URCU_QS_REQ /\ UNCHANGED buffer
     \/ /\ reader[t] = URCU_QS_REQ
        /\ Store(t, IF loc[t].nest # 0 THEN URCU_QS_ACK ELSE URCU_QS_DONE)
  /\ UNCHANGED <<impl, ctr, mutex, shared, reader, pc, preexisting>>

SyncLock(u) ==
  /\ Goto(u, "sync_lock", "sync_advance")
  /\ mutex[NoThread] = NoThread
  /\ mutex' = [mutex EXCEPT ![NoThread] = u]
  /\ UNCHANGED <<impl, ctr, shared, reader, buffer, loc, preexisting>>

\* for_each_tid(): urcu_qs = URCU_QS_REQ, pthread_kill()
Request(u) ==
  LET t == loc[u].scan
      next == [loc EXCEPT ![u].scan = (t + 1) % NR_THREADS]
  IN  /\ pc[u] = "sync_advance"
      /\ pc' = [pc EXCEPT ![u] = IF t = NR_THREADS - 1 THEN "sync_wait" ELSE @]
      /\ \/ ~ shared[t] /\ loc' = next /\ UNCHANGED reader
         \/ /\ shared[t]
            /\ reader' = [reader EXCEPT ![t] = URCU_QS_REQ]
            /\ loc' = [next EXCEPT ![t].sig = TRUE]
      /\ UNCHANGED <<impl, ctr, mutex, shared, buffer, preexisting>>

\* while (urcu_qs != URCU_QS_DONE); urcu_qs = URCU_QS_IDLE
SyncWait(u) ==
  LET t == loc[u].scan
  IN  /\ pc[u] = "sync_wait"
      /\ shared[t] => reader[t] = URCU_QS_DONE
      /\ reader' = [reader EXCEPT ![t] = IF shared[t] THEN URCU_QS_IDLE ELSE @]
      /\ pc' = [pc EXCEPT ![u] = IF t = NR_THREADS - 1 THEN "sync_unlock" ELSE @]
      /\ loc' = [loc EXCEPT ![u].scan = (t + 1) % NR_THREADS]
      /\ UNCHANGED <<impl, ctr, mutex, shared, buffer, preexisting>>

\* In the loop: still URCU_QS_REQ, so the signal is sent again.
Resend(u) ==
  LET t == loc[u].scan
  IN  /\ pc[u] = "sync_wait" /\ shared[t] /\ reader[t] = URCU_QS_REQ
      /\ ~ loc[t].sig
      /\ loc' = [loc EXCEPT ![t].sig = TRUE]
      /\ UNCHANGED <<impl, ctr, mutex, shared, reader, buffer, pc, preexisting>>

Active == IF impl \in Impls THEN Threads ELSE {}

SyncStep(t) ==
  SyncLock(t) \/ Request(t) \/ SyncWait(t) \/ Resend(t) \/ SyncUnlock(t) \/ SyncReturn(t)

ReadStep(t) == ReadUnlock(t) \/ ReadUnlockLoad(t) \/ ReadUnlockStore(t)

Next ==
  \E t \in Active :
    \/ Register(t)
    \/ ReadLock(t) \/ ReadStep(t)
    \/ urcu_sig_handler(t)
    \/ SyncCall(t) \/ SyncStep(t)
    \/ DrainStore(t)

Step(t) == t \in Active /\ (ReadStep(t) \/ SyncStep(t))

StoreDrains(t) == t \in Active /\ DrainStore(t)

SignalArrives(t) == t \in Active /\ urcu_sig_handler(t)

Waiting == {u \in Threads : impl \in Impls /\ pc[u] = "sync_wait"}

Spec == Init /\ [][Next]_vars

\* Checked to fail.  "Wait until all threads have exited any RCU read-side
\* critical sections that they were once in" (synchronize_rcu(), rcu_sig.c):
\* when synchronize_rcu() returns, no critical section goes on that was under way
\* at its call.
SectionsExited == \A u \in Threads : pc[u] = "sync_return" => preexisting[u] = {}
=============================================================================
