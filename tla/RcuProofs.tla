----------------------------- MODULE RcuProofs -----------------------------
(***************************************************************************)
(* Proofs about module Rcu, for any number of threads and of calls of      *)
(* synchronize_rcu(): type correctness, the grace-period guarantee, and    *)
(* that Rcu implements GracePeriod.                                        *)
(***************************************************************************)
EXTENDS Rcu, SequenceTheorems, TLAPS

-----------------------------------------------------------------------------
\* The inductive invariant, in parts.

\* The stretch of synchronize_rcu() between lock and unlock has one thread.
LockInv ==
  \A u \in Threads :
    pc[u] \in {"sync_advance", "sync_odd", "sync_behind", "sync_unlock"}
      => rcu_gp_lock = u

\* What a thread has read of the counter is even and not from the future.
SnapInv ==
  \A t \in Threads : snap[t] <= rcu_gp_ctr /\ snap[t] % 2 = 0

\* The store of rcu_read_lock() is the last one buffered, or is visible, and it
\* is visible for as long as the critical section lasts.
ReaderInv ==
  \A t \in Threads :
    /\ pc[t] = "lock_mb" =>
         IF buffer[t] = <<>>
           THEN rcu_reader_gp[t] = snap[t] + 1
           ELSE buffer[t][Len(buffer[t])] = snap[t] + 1
    /\ pc[t] = "reading" =>
         buffer[t] = <<>> /\ rcu_reader_gp[t] = snap[t] + 1

\* Readers still to be outlasted are inside their critical sections; once the
\* counter has advanced their rcu_reader_gp is behind it, and the loop has not
\* passed them.
WaitInv ==
  \A u \in Threads :
    /\ preexisting[u] \subseteq Inside
    /\ pc[u] \in {"sync_odd", "sync_behind"} =>
         \A t \in preexisting[u] : rcu_reader_gp[t] < rcu_gp_ctr /\ scan[u] <= t

IInv ==
  /\ TypeOK
  /\ rcu_gp_ctr % 2 = 0
  /\ LockInv
  /\ SnapInv
  /\ ReaderInv
  /\ WaitInv
  /\ GracePeriodGuarantee

-----------------------------------------------------------------------------
\* A step of Next, split by action once for all the proofs below.
LEMMA NextCases ==
  ASSUME Next
  PROVE  \E t \in Threads :
           \/ DrainStore(t) \/ ReadLockLoad(t) \/ ReadLockStore(t) \/ ReadLockMb(t)
           \/ ReadUnlockMb(t) \/ ReadUnlockLoad(t) \/ ReadUnlockStore(t)
           \/ SyncMb(t) \/ SyncLock(t) \/ SyncAdvance(t) \/ SyncOdd(t)
           \/ SyncBehind(t) \/ SyncUnlock(t) \/ SyncReturn(t)
  BY DEF Next, Reader, SyncStep

\* A step of for_each_thread() keeps the loop variable in bounds.
LEMMA NextThreadType ==
  ASSUME TypeOK, NEW u \in Threads, NextThread(u), scan[u] \in Threads
  PROVE  /\ scan' \in [Threads -> 0 .. NR_THREADS]
         /\ pc' \in [Threads -> Locations]
         /\ \A v \in Threads :
              pc'[v] \in {"sync_odd", "sync_behind"} => scan'[v] \in Threads
<1>1. scan \in [Threads -> 0 .. NR_THREADS] /\ pc \in [Threads -> Locations]
  BY DEF TypeOK
<1>2. scan[u] \in Nat /\ scan[u] + 1 \in 0 .. NR_THREADS
  BY NRThreadsAssumption DEF Threads
<1>3. scan' \in [Threads -> 0 .. NR_THREADS] /\ pc' \in [Threads -> Locations]
  BY <1>1, <1>2 DEF NextThread, Locations
<1>4. ASSUME NEW v \in Threads, pc'[v] \in {"sync_odd", "sync_behind"}
      PROVE  scan'[v] \in Threads
  <2>1. CASE v = u
    BY <1>1, <1>2, <1>4, <2>1, NRThreadsAssumption DEF NextThread, Threads
  <2>2. CASE v # u
    BY <1>1, <1>4, <2>2 DEF NextThread, TypeOK
  <2> QED BY <2>1, <2>2
<1> QED BY <1>3, <1>4

\* Init makes every variable of the type TypeOK gives it.
LEMMA InitType == Init => TypeOK
  BY NRThreadsAssumption DEF Init, TypeOK, Threads, NoThread, Locations

LEMMA TypeStep == TypeOK /\ [Next]_vars => TypeOK'
<1> SUFFICES ASSUME TypeOK, [Next]_vars PROVE TypeOK'
  OBVIOUS
<1>1. CASE UNCHANGED vars
  BY <1>1 DEF TypeOK, vars
<1>2. CASE Next
  <2> PICK t \in Threads :
           \/ DrainStore(t) \/ ReadLockLoad(t) \/ ReadLockStore(t) \/ ReadLockMb(t)
           \/ ReadUnlockMb(t) \/ ReadUnlockLoad(t) \/ ReadUnlockStore(t)
           \/ SyncMb(t) \/ SyncLock(t) \/ SyncAdvance(t) \/ SyncOdd(t)
           \/ SyncBehind(t) \/ SyncUnlock(t) \/ SyncReturn(t)
    BY <1>2, NextCases
  <2>1. CASE DrainStore(t)
    <3>1. buffer[t] \in Seq(Nat) /\ buffer[t] # <<>>
      BY <2>1 DEF TypeOK, DrainStore
    <3>2. Head(buffer[t]) \in Nat /\ Tail(buffer[t]) \in Seq(Nat)
      BY <3>1, HeadTailProperties
    <3> QED BY <2>1, <3>2 DEF TypeOK, DrainStore
  <2>2. CASE ReadLockLoad(t)
    BY <2>2 DEF TypeOK, ReadLockLoad, Goto, Locations
  <2>3. CASE ReadLockStore(t)
    BY <2>3 DEF TypeOK, ReadLockStore, Goto, Store, Locations
  <2>4. CASE ReadLockMb(t)
    BY <2>4 DEF TypeOK, ReadLockMb, Goto, Locations
  <2>5. CASE ReadUnlockMb(t)
    BY <2>5 DEF TypeOK, ReadUnlockMb, Goto, Locations
  <2>6. CASE ReadUnlockLoad(t)
    BY <2>6 DEF TypeOK, ReadUnlockLoad, Goto, Locations
  <2>7. CASE ReadUnlockStore(t)
    BY <2>7 DEF TypeOK, ReadUnlockStore, Goto, Store, Locations
  <2>8. CASE SyncMb(t)
    BY <2>8 DEF TypeOK, SyncMb, Goto, Inside, Locations
  <2>9. CASE SyncLock(t)
    BY <2>9 DEF TypeOK, SyncLock, Goto, Locations
  <2>10. CASE SyncAdvance(t)
    <3>1. 0 \in Threads /\ 0 \in 0 .. NR_THREADS
      BY NRThreadsAssumption DEF Threads
    <3> QED BY <2>10, <3>1 DEF TypeOK, SyncAdvance, Goto, Locations
  <2>11. CASE SyncOdd(t)
    <3>1. CASE NextThread(t)
      BY <2>11, <3>1, NextThreadType DEF TypeOK, SyncOdd
    <3>2. CASE ~ NextThread(t)
      BY <2>11, <3>2 DEF TypeOK, SyncOdd, Locations
    <3> QED BY <3>1, <3>2
  <2>12. CASE SyncBehind(t)
    <3>1. CASE NextThread(t)
      BY <2>12, <3>1, NextThreadType DEF TypeOK, SyncBehind, BehindBy
    <3>2. CASE ~ NextThread(t)
      BY <2>12, <3>2 DEF TypeOK, SyncBehind, BehindBy, Locations
    <3> QED BY <3>1, <3>2
  <2>13. CASE SyncUnlock(t)
    BY <2>13 DEF TypeOK, SyncUnlock, Goto, Locations
  <2>14. CASE SyncReturn(t)
    BY <2>14 DEF TypeOK, SyncReturn, Goto, Locations
  <2> QED
    BY <2>1, <2>2, <2>3, <2>4, <2>5, <2>6, <2>7, <2>8, <2>9, <2>10, <2>11, <2>12,
       <2>13, <2>14
<1> QED BY <1>1, <1>2

\* Every variable of the model keeps its type; in particular the loop over the
\* threads never reads rcu_reader_gp outside the array.
THEOREM TypeCorrect == Spec => []TypeOK
  BY InitType, TypeStep, PTL DEF Spec

-----------------------------------------------------------------------------
\* The loop passes thread scan[u] only when it is not one of those to outlast.
LEMMA NextThreadWait ==
  ASSUME IInv, NEW u \in Threads, NextThread(u),
         pc[u] \in {"sync_odd", "sync_behind"}, scan[u] \notin preexisting[u],
         UNCHANGED <<rcu_gp_ctr, rcu_gp_lock, rcu_reader_gp, buffer, snap, preexisting>>
  PROVE  LockInv' /\ ReaderInv' /\ WaitInv' /\ GracePeriodGuarantee'
<1> USE DEF NextThread
<1>t. /\ scan[u] \in Threads /\ scan \in [Threads -> 0 .. NR_THREADS]
      /\ pc \in [Threads -> Locations] /\ preexisting \in [Threads -> SUBSET Threads]
  BY DEF IInv, TypeOK
<1>1. LockInv'
  BY <1>t DEF IInv, LockInv
<1>2. ReaderInv'
  BY <1>t DEF IInv, ReaderInv
<1>3. Inside' = Inside
  BY <1>t DEF Inside
<1>4. \A t \in preexisting[u] : t \in Threads /\ scan[u] + 1 <= t /\ rcu_reader_gp[t] < rcu_gp_ctr
  BY <1>t DEF IInv, WaitInv, Threads
<1>5. scan[u] + 1 >= NR_THREADS => preexisting[u] = {}
  BY <1>t, <1>4, NRThreadsAssumption DEF Threads
<1>6. WaitInv'
  BY <1>t, <1>3, <1>4 DEF IInv, WaitInv
<1>7. GracePeriodGuarantee'
  BY <1>t, <1>5, NRThreadsAssumption DEF IInv, GracePeriodGuarantee, Threads
<1> QED BY <1>1, <1>2, <1>6, <1>7

\* A thread to outlast has an odd rcu_reader_gp.
LEMMA PreexistingOdd ==
  ASSUME IInv, NEW u \in Threads, NEW t \in preexisting[u]
  PROVE  t \in Threads /\ pc[t] = "reading" /\ rcu_reader_gp[t] % 2 = 1
<1>1. t \in Threads /\ pc[t] = "reading"
  BY DEF IInv, WaitInv, Inside
<1>2. rcu_reader_gp[t] = snap[t] + 1 /\ snap[t] % 2 = 0 /\ snap[t] \in Nat
  BY <1>1 DEF IInv, ReaderInv, SnapInv, TypeOK
<1> QED BY <1>1, <1>2

LEMMA InitIInv == Init => IInv
<1> SUFFICES ASSUME Init PROVE IInv
  OBVIOUS
<1>1. TypeOK
  BY InitType
<1>2. LockInv /\ SnapInv /\ ReaderInv /\ WaitInv /\ GracePeriodGuarantee
  BY DEF Init, LockInv, SnapInv, ReaderInv, WaitInv, GracePeriodGuarantee
<1> QED BY <1>1, <1>2 DEF IInv, Init

LEMMA IInvStep == IInv /\ [Next]_vars => IInv'
<1> SUFFICES ASSUME IInv, [Next]_vars PROVE IInv'
  OBVIOUS
<1>t. TypeOK /\ TypeOK'
  BY TypeStep DEF IInv
<1>p. pc \in [Threads -> Locations] /\ preexisting \in [Threads -> SUBSET Threads]
  BY DEF IInv, TypeOK
<1>1. CASE UNCHANGED vars
  BY <1>t, <1>1 DEF IInv, LockInv, SnapInv, ReaderInv, WaitInv, GracePeriodGuarantee,
     Inside, vars
<1>2. CASE Next
  <2> PICK t \in Threads :
           \/ DrainStore(t) \/ ReadLockLoad(t) \/ ReadLockStore(t) \/ ReadLockMb(t)
           \/ ReadUnlockMb(t) \/ ReadUnlockLoad(t) \/ ReadUnlockStore(t)
           \/ SyncMb(t) \/ SyncLock(t) \/ SyncAdvance(t) \/ SyncOdd(t)
           \/ SyncBehind(t) \/ SyncUnlock(t) \/ SyncReturn(t)
    BY <1>2, NextCases
  <2> USE DEF Goto
  <2>1. CASE DrainStore(t)
    <3>1. LockInv'
      BY <1>p, <2>1 DEF DrainStore, IInv, LockInv
    <3>2. SnapInv' /\ rcu_gp_ctr' % 2 = 0
      BY <1>t, <2>1 DEF DrainStore, IInv, SnapInv, TypeOK
    <3>3. ReaderInv'
      <4> SUFFICES ASSUME NEW r \in Threads,
                          pc'[r] = "lock_mb" \/ pc'[r] = "reading"
                   PROVE  /\ pc'[r] = "lock_mb" =>
                               IF buffer'[r] = <<>>
                                 THEN rcu_reader_gp'[r] = snap'[r] + 1
                                 ELSE buffer'[r][Len(buffer'[r])] = snap'[r] + 1
                          /\ pc'[r] = "reading" =>
                               buffer'[r] = <<>> /\ rcu_reader_gp'[r] = snap'[r] + 1
        BY DEF ReaderInv
      <4>1. CASE r # t
        BY <1>t, <2>1, <4>1 DEF DrainStore, IInv, TypeOK, ReaderInv
      <4>2. CASE r = t
        <5>1. pc[t] = "lock_mb" /\ pc'[t] = "lock_mb"
          BY <2>1, <4>2 DEF DrainStore, IInv, ReaderInv
        <5>2. buffer[t] \in Seq(Nat) /\ buffer[t] # <<>> /\ buffer'[t] = Tail(buffer[t])
              /\ rcu_reader_gp'[t] = Head(buffer[t]) /\ snap'[t] = snap[t]
          BY <1>t, <2>1 DEF DrainStore, TypeOK
        <5>3. buffer[t][Len(buffer[t])] = snap[t] + 1
          BY <5>1, <5>2 DEF IInv, ReaderInv
        <5>4. CASE Tail(buffer[t]) = <<>>
          <6>1. Len(buffer[t]) = 1
            <7> DEFINE b == buffer[t]
            <7>1. b \in Seq(Nat) /\ b # <<>> /\ Tail(b) = <<>>
              BY <5>2, <5>4
            <7> HIDE DEF b
            <7>2. Len(Tail(b)) = 0
              BY <7>1, HeadTailProperties, EmptySeq
            <7>3. Len(Tail(b)) = Len(b) - 1 /\ Len(b) \in Nat
              BY <7>1, HeadTailProperties
            <7>4. Len(b) = 1
              BY <7>2, <7>3
            <7> QED BY <7>4 DEF b
          <6> QED BY <4>2, <5>1, <5>2, <5>3, <5>4, <6>1
        <5>5. CASE Tail(buffer[t]) # <<>>
          BY <4>2, <5>1, <5>2, <5>3, <5>5
        <5> QED BY <5>4, <5>5
      <4> QED BY <4>1, <4>2
    <3>4. WaitInv'
      <4>1. t \notin Inside
        BY <2>1 DEF DrainStore, IInv, ReaderInv, Inside
      <4>2. \A r \in Inside : rcu_reader_gp'[r] = rcu_reader_gp[r]
        BY <1>t, <2>1, <4>1 DEF DrainStore, TypeOK, Inside
      <4>3. Inside' = Inside
        BY <2>1 DEF DrainStore, Inside
      <4> QED BY <2>1, <4>2, <4>3 DEF DrainStore, IInv, WaitInv
    <3>5. GracePeriodGuarantee'
      BY <1>p, <2>1 DEF DrainStore, IInv, GracePeriodGuarantee
    <3> QED BY <1>t, <3>1, <3>2, <3>3, <3>4, <3>5 DEF IInv
  <2>2. CASE ReadLockLoad(t)
    <3>1. LockInv'
      BY <1>p, <2>2 DEF ReadLockLoad, IInv, LockInv
    <3>2. SnapInv' /\ rcu_gp_ctr' % 2 = 0
      <4>1. rcu_gp_ctr' = rcu_gp_ctr /\ rcu_gp_ctr \in Nat /\ rcu_gp_ctr % 2 = 0
        BY <1>t, <2>2 DEF ReadLockLoad, IInv, TypeOK
      <4>2. \A r \in Threads : snap'[r] = snap[r] \/ snap'[r] = rcu_gp_ctr
        BY <1>t, <2>2 DEF ReadLockLoad, TypeOK
      <4> QED BY <4>1, <4>2 DEF IInv, SnapInv
    <3>3. ReaderInv'
      BY <1>t, <2>2 DEF ReadLockLoad, IInv, TypeOK, ReaderInv
    <3>4. WaitInv'
      BY <1>p, <2>2 DEF ReadLockLoad, IInv, WaitInv, Inside
    <3>5. GracePeriodGuarantee'
      BY <1>p, <2>2 DEF ReadLockLoad, IInv, GracePeriodGuarantee
    <3> QED BY <1>t, <3>1, <3>2, <3>3, <3>4, <3>5 DEF IInv
  <2>3. CASE ReadLockStore(t)
    <3>1. LockInv'
      BY <1>p, <2>3 DEF ReadLockStore, Store, IInv, LockInv
    <3>2. SnapInv' /\ rcu_gp_ctr' % 2 = 0
      BY <1>t, <2>3 DEF ReadLockStore, Store, IInv, SnapInv, TypeOK
    <3>3. ReaderInv'
      BY <1>t, <2>3 DEF ReadLockStore, Store, IInv, TypeOK, ReaderInv
    <3>4. WaitInv'
      BY <1>p, <2>3 DEF ReadLockStore, Store, IInv, WaitInv, Inside
    <3>5. GracePeriodGuarantee'
      BY <1>p, <2>3 DEF ReadLockStore, Store, IInv, GracePeriodGuarantee
    <3> QED BY <1>t, <3>1, <3>2, <3>3, <3>4, <3>5 DEF IInv
  <2>4. CASE ReadLockMb(t)
    <3>1. LockInv'
      BY <1>p, <2>4 DEF ReadLockMb, Drained, IInv, LockInv
    <3>2. SnapInv' /\ rcu_gp_ctr' % 2 = 0
      BY <1>t, <2>4 DEF ReadLockMb, Drained, IInv, SnapInv, TypeOK
    <3>3. ReaderInv'
      BY <1>t, <2>4 DEF ReadLockMb, Drained, IInv, TypeOK, ReaderInv
    <3>4. WaitInv'
      BY <1>p, <2>4 DEF ReadLockMb, Drained, IInv, WaitInv, Inside
    <3>5. GracePeriodGuarantee'
      BY <1>p, <2>4 DEF ReadLockMb, Drained, IInv, GracePeriodGuarantee
    <3> QED BY <1>t, <3>1, <3>2, <3>3, <3>4, <3>5 DEF IInv
  <2>5. CASE ReadUnlockMb(t)
    <3>1. LockInv'
      BY <1>p, <2>5 DEF ReadUnlockMb, IInv, LockInv
    <3>2. SnapInv' /\ rcu_gp_ctr' % 2 = 0
      BY <1>t, <2>5 DEF ReadUnlockMb, IInv, SnapInv, TypeOK
    <3>3. ReaderInv'
      BY <1>t, <2>5 DEF ReadUnlockMb, IInv, TypeOK, ReaderInv
    <3>4. WaitInv'
      BY <1>p, <2>5 DEF ReadUnlockMb, IInv, WaitInv, Inside
    <3>5. GracePeriodGuarantee'
      BY <1>p, <2>5 DEF ReadUnlockMb, IInv, GracePeriodGuarantee
    <3> QED BY <1>t, <3>1, <3>2, <3>3, <3>4, <3>5 DEF IInv
  <2>6. CASE ReadUnlockLoad(t)
    <3>1. LockInv'
      BY <1>p, <2>6 DEF ReadUnlockLoad, IInv, LockInv
    <3>2. SnapInv' /\ rcu_gp_ctr' % 2 = 0
      <4>1. rcu_gp_ctr' = rcu_gp_ctr /\ rcu_gp_ctr \in Nat /\ rcu_gp_ctr % 2 = 0
        BY <1>t, <2>6 DEF ReadUnlockLoad, IInv, TypeOK
      <4>2. \A r \in Threads : snap'[r] = snap[r] \/ snap'[r] = rcu_gp_ctr
        BY <1>t, <2>6 DEF ReadUnlockLoad, TypeOK
      <4> QED BY <4>1, <4>2 DEF IInv, SnapInv
    <3>3. ReaderInv'
      BY <1>t, <2>6 DEF ReadUnlockLoad, IInv, TypeOK, ReaderInv
    <3>4. WaitInv'
      BY <1>p, <2>6 DEF ReadUnlockLoad, IInv, WaitInv, Inside
    <3>5. GracePeriodGuarantee'
      BY <1>p, <2>6 DEF ReadUnlockLoad, IInv, GracePeriodGuarantee
    <3> QED BY <1>t, <3>1, <3>2, <3>3, <3>4, <3>5 DEF IInv
  <2>7. CASE ReadUnlockStore(t)
    <3>1. LockInv'
      BY <1>p, <2>7 DEF ReadUnlockStore, Store, IInv, LockInv
    <3>2. SnapInv' /\ rcu_gp_ctr' % 2 = 0
      BY <1>t, <2>7 DEF ReadUnlockStore, Store, IInv, SnapInv, TypeOK
    <3>3. ReaderInv'
      BY <1>t, <2>7 DEF ReadUnlockStore, Store, IInv, TypeOK, ReaderInv
    <3>4. WaitInv'
      BY <1>p, <2>7 DEF ReadUnlockStore, Store, IInv, WaitInv, Inside
    <3>5. GracePeriodGuarantee'
      BY <1>p, <2>7 DEF ReadUnlockStore, Store, IInv, GracePeriodGuarantee
    <3> QED BY <1>t, <3>1, <3>2, <3>3, <3>4, <3>5 DEF IInv
  <2>8. CASE SyncMb(t)
    <3>1. LockInv'
      BY <1>p, <2>8 DEF SyncMb, IInv, LockInv
    <3>2. SnapInv' /\ rcu_gp_ctr' % 2 = 0
      BY <1>t, <2>8 DEF SyncMb, IInv, SnapInv, TypeOK
    <3>3. ReaderInv'
      BY <1>t, <2>8 DEF SyncMb, IInv, TypeOK, ReaderInv
    <3>4. WaitInv'
      BY <1>p, <2>8 DEF SyncMb, IInv, WaitInv, Inside
    <3>5. GracePeriodGuarantee'
      BY <1>p, <2>8 DEF SyncMb, IInv, GracePeriodGuarantee
    <3> QED BY <1>t, <3>1, <3>2, <3>3, <3>4, <3>5 DEF IInv
  <2>9. CASE SyncLock(t)
    <3>1. LockInv'
      <4>1. NoThread \notin Threads
        BY DEF NoThread, Threads
      <4> QED BY <1>t, <2>9, <4>1 DEF SyncLock, IInv, TypeOK, LockInv
    <3>2. SnapInv' /\ rcu_gp_ctr' % 2 = 0
      BY <1>t, <2>9 DEF SyncLock, IInv, SnapInv, TypeOK
    <3>3. ReaderInv'
      BY <1>t, <2>9 DEF SyncLock, IInv, TypeOK, ReaderInv
    <3>4. WaitInv'
      BY <1>p, <2>9 DEF SyncLock, IInv, WaitInv, Inside
    <3>5. GracePeriodGuarantee'
      BY <1>p, <2>9 DEF SyncLock, IInv, GracePeriodGuarantee
    <3> QED BY <1>t, <3>1, <3>2, <3>3, <3>4, <3>5 DEF IInv
  <2>10. CASE SyncAdvance(t)
    <3>1. LockInv'
      BY <1>p, <2>10 DEF SyncAdvance, IInv, LockInv
    <3>2. SnapInv' /\ rcu_gp_ctr' % 2 = 0
      <4>1. /\ rcu_gp_ctr \in Nat /\ rcu_gp_ctr % 2 = 0 /\ snap \in [Threads -> Nat]
            /\ rcu_gp_ctr' = rcu_gp_ctr + 2 /\ snap' = snap
        BY <2>10 DEF SyncAdvance, IInv, TypeOK
      <4>2. (rcu_gp_ctr + 2) % 2 = 0
        BY <4>1
      <4> QED BY <4>1, <4>2 DEF IInv, SnapInv
    <3>3. ReaderInv'
      BY <1>t, <2>10 DEF SyncAdvance, IInv, TypeOK, ReaderInv
    <3>4. WaitInv'
      <4>1. \A r \in Inside : rcu_reader_gp[r] < rcu_gp_ctr' /\ 0 <= r
        <5>1. rcu_gp_ctr' = rcu_gp_ctr + 2 /\ rcu_gp_ctr \in Nat
          BY <1>t, <2>10 DEF SyncAdvance, TypeOK
        <5>2. ASSUME NEW r \in Inside
              PROVE  rcu_reader_gp[r] = snap[r] + 1 /\ snap[r] <= rcu_gp_ctr /\ snap[r] \in Nat
          BY DEF IInv, ReaderInv, SnapInv, TypeOK, Inside
        <5>3. ASSUME NEW r \in Inside PROVE 0 <= r
          BY DEF Inside, Threads
        <5> QED BY <5>1, <5>2, <5>3
      <4>2. Inside' = Inside
        BY <1>t, <2>10 DEF SyncAdvance, TypeOK, Inside
      <4>3. \A v \in Threads : preexisting'[v] = preexisting[v] /\ preexisting[v] \subseteq Inside
        BY <2>10 DEF SyncAdvance, IInv, WaitInv
      <4>4. \A v \in Threads : v # t => pc'[v] = pc[v] /\ scan'[v] = scan[v]
        BY <1>t, <2>10 DEF SyncAdvance, TypeOK
      <4>5. scan'[t] = 0 /\ rcu_reader_gp' = rcu_reader_gp
        BY <1>t, <2>10 DEF SyncAdvance, TypeOK
      <4> QED BY <4>1, <4>2, <4>3, <4>4, <4>5 DEF IInv, WaitInv
    <3>5. GracePeriodGuarantee'
      BY <1>p, <2>10 DEF SyncAdvance, IInv, GracePeriodGuarantee
    <3> QED BY <1>t, <3>1, <3>2, <3>3, <3>4, <3>5 DEF IInv
  <2>11. CASE SyncOdd(t)
    <3>1. CASE NextThread(t)
      <4>1. scan[t] \notin preexisting[t]
        <5>1. rcu_reader_gp[scan[t]] % 2 = 0
          BY <1>t, <2>11, <3>1 DEF SyncOdd, NextThread, TypeOK
        <5> QED BY <5>1, PreexistingOdd
      <4> QED BY <2>11, <3>1, <4>1, <1>t, NextThreadWait DEF SyncOdd, IInv, SnapInv
    <3>2. CASE ~ NextThread(t)
      <4>1. pc' = [pc EXCEPT ![t] = "sync_behind"] /\ pc[t] = "sync_odd"
            /\ UNCHANGED <<rcu_gp_ctr, rcu_gp_lock, rcu_reader_gp, buffer, snap, scan, preexisting>>
        BY <2>11, <3>2 DEF SyncOdd
      <4>2. LockInv' /\ SnapInv' /\ ReaderInv' /\ GracePeriodGuarantee'
        BY <4>1 DEF IInv, TypeOK, LockInv, SnapInv, ReaderInv, GracePeriodGuarantee
      <4>3. WaitInv'
        BY <4>1 DEF IInv, TypeOK, WaitInv, Inside
      <4> QED BY <1>t, <4>1, <4>2, <4>3 DEF IInv
    <3> QED BY <3>1, <3>2
  <2>12. CASE SyncBehind(t)
    <3>1. CASE NextThread(t)
      <4>1. scan[t] \notin preexisting[t]
        <5>1. rcu_reader_gp[scan[t]] - rcu_gp_ctr >= 0
          BY <1>t, <2>12, <3>1 DEF SyncBehind, BehindBy, NextThread, TypeOK
        <5>2. rcu_reader_gp[scan[t]] \in Nat /\ rcu_gp_ctr \in Nat
          BY <1>t, <2>12 DEF SyncBehind, BehindBy, TypeOK
        <5> QED BY <2>12, <5>1, <5>2 DEF SyncBehind, BehindBy, IInv, WaitInv
      <4> QED BY <2>12, <3>1, <4>1, <1>t, NextThreadWait DEF SyncBehind, BehindBy, IInv, SnapInv
    <3>2. CASE ~ NextThread(t)
      <4>1. pc' = [pc EXCEPT ![t] = "sync_odd"] /\ pc[t] = "sync_behind"
            /\ UNCHANGED <<rcu_gp_ctr, rcu_gp_lock, rcu_reader_gp, buffer, snap, scan, preexisting>>
        BY <2>12, <3>2 DEF SyncBehind, BehindBy
      <4>2. LockInv' /\ SnapInv' /\ ReaderInv' /\ GracePeriodGuarantee'
        BY <1>p, <4>1 DEF IInv, LockInv, SnapInv, ReaderInv, GracePeriodGuarantee
      <4>3. WaitInv'
        BY <1>p, <4>1 DEF IInv, WaitInv, Inside
      <4> QED BY <1>t, <4>1, <4>2, <4>3 DEF IInv
    <3> QED BY <3>1, <3>2
  <2>13. CASE SyncUnlock(t)
    <3>1. LockInv'
      BY <1>p, <2>13 DEF SyncUnlock, IInv, LockInv
    <3>2. SnapInv' /\ rcu_gp_ctr' % 2 = 0
      BY <1>t, <2>13 DEF SyncUnlock, IInv, SnapInv, TypeOK
    <3>3. ReaderInv'
      BY <1>t, <2>13 DEF SyncUnlock, IInv, TypeOK, ReaderInv
    <3>4. WaitInv'
      BY <1>p, <2>13 DEF SyncUnlock, IInv, WaitInv, Inside
    <3>5. GracePeriodGuarantee'
      BY <1>p, <2>13 DEF SyncUnlock, IInv, GracePeriodGuarantee
    <3> QED BY <1>t, <3>1, <3>2, <3>3, <3>4, <3>5 DEF IInv
  <2>14. CASE SyncReturn(t)
    <3>1. LockInv'
      BY <1>p, <2>14 DEF SyncReturn, IInv, LockInv
    <3>2. SnapInv' /\ rcu_gp_ctr' % 2 = 0
      BY <1>t, <2>14 DEF SyncReturn, IInv, SnapInv, TypeOK
    <3>3. ReaderInv'
      BY <1>t, <2>14 DEF SyncReturn, IInv, TypeOK, ReaderInv
    <3>4. WaitInv'
      BY <1>p, <2>14 DEF SyncReturn, IInv, WaitInv, Inside
    <3>5. GracePeriodGuarantee'
      BY <1>p, <2>14 DEF SyncReturn, IInv, GracePeriodGuarantee
    <3> QED BY <1>t, <3>1, <3>2, <3>3, <3>4, <3>5 DEF IInv
  <2> QED
    BY <2>1, <2>2, <2>3, <2>4, <2>5, <2>6, <2>7, <2>8, <2>9, <2>10, <2>11, <2>12,
       <2>13, <2>14
<1> QED BY <1>1, <1>2

\* IInv holds in every reachable state.
THEOREM Invariance == Spec => []IInv
  BY InitIInv, IInvStep, PTL DEF Spec

\* synchronize_rcu() never returns while a critical section that was under way
\* when it was called is still under way, for any number of threads.
THEOREM GracePeriodCorrect == Spec => []GracePeriodGuarantee
<1>1. IInv => GracePeriodGuarantee
  BY DEF IInv
<1> QED BY <1>1, Invariance, PTL

-----------------------------------------------------------------------------
\* Rcu implements GracePeriod: four of its actions are the abstract ones, the
\* others do not change what the abstract specification sees.
LEMMA InitRefines == Init => GP!Init
  BY DEF Init, GP!Init, Inside, Syncing

LEMMA StepRefines ==
  ASSUME IInv, [Next]_vars
  PROVE  [GP!Next]_GP!gpvars
<1>t. pc \in [Threads -> Locations]
  BY DEF IInv, TypeOK
<1>1. CASE UNCHANGED vars
  BY <1>1 DEF vars, GP!gpvars, Inside, Syncing
<1>2. CASE Next
  <2> PICK t \in Threads :
           \/ DrainStore(t) \/ ReadLockLoad(t) \/ ReadLockStore(t) \/ ReadLockMb(t)
           \/ ReadUnlockMb(t) \/ ReadUnlockLoad(t) \/ ReadUnlockStore(t)
           \/ SyncMb(t) \/ SyncLock(t) \/ SyncAdvance(t) \/ SyncOdd(t)
           \/ SyncBehind(t) \/ SyncUnlock(t) \/ SyncReturn(t)
    BY <1>2, NextCases
  <2> USE <1>t DEF Goto
  <2>1. CASE DrainStore(t)
    BY <2>1 DEF DrainStore, GP!gpvars, Inside, Syncing
  <2>2. CASE ReadLockLoad(t)
    BY <2>2 DEF ReadLockLoad, GP!gpvars, Inside, Syncing
  <2>3. CASE ReadLockStore(t)
    BY <2>3 DEF ReadLockStore, GP!gpvars, Inside, Syncing
  <2>4. CASE ReadLockMb(t)
    <3>1. GP!ReadLock(t)
      BY <2>4 DEF ReadLockMb, GP!ReadLock, Inside, Syncing
    <3> QED BY <3>1 DEF GP!Next
  <2>5. CASE ReadUnlockMb(t)
    <3>1. GP!ReadUnlock(t)
      BY <2>5 DEF ReadUnlockMb, GP!ReadUnlock, Inside, Syncing
    <3> QED BY <3>1 DEF GP!Next
  <2>6. CASE ReadUnlockLoad(t)
    BY <2>6 DEF ReadUnlockLoad, GP!gpvars, Inside, Syncing
  <2>7. CASE ReadUnlockStore(t)
    BY <2>7 DEF ReadUnlockStore, GP!gpvars, Inside, Syncing
  <2>8. CASE SyncMb(t)
    <3>1. GP!SynchronizeCall(t)
      BY <2>8 DEF SyncMb, GP!SynchronizeCall, Inside, Syncing
    <3> QED BY <3>1 DEF GP!Next
  <2>9. CASE SyncLock(t)
    BY <2>9 DEF SyncLock, GP!gpvars, Inside, Syncing
  <2>10. CASE SyncAdvance(t)
    BY <2>10 DEF SyncAdvance, GP!gpvars, Inside, Syncing
  <2>11. CASE SyncOdd(t)
    BY <2>11 DEF SyncOdd, NextThread, GP!gpvars, Inside, Syncing
  <2>12. CASE SyncBehind(t)
    BY <2>12 DEF SyncBehind, BehindBy, NextThread, GP!gpvars, Inside, Syncing
  <2>13. CASE SyncUnlock(t)
    BY <2>13 DEF SyncUnlock, GP!gpvars, Inside, Syncing
  <2>14. CASE SyncReturn(t)
    <3>1. GP!SynchronizeReturn(t)
      BY <2>14 DEF SyncReturn, GP!SynchronizeReturn, Inside, Syncing, IInv, GracePeriodGuarantee
    <3> QED BY <3>1 DEF GP!Next
  <2> QED
    BY <2>1, <2>2, <2>3, <2>4, <2>5, <2>6, <2>7, <2>8, <2>9, <2>10, <2>11, <2>12,
       <2>13, <2>14
<1> QED BY <1>1, <1>2

\* The RCU of rcu.h and rcu.c implements the grace-period specification, for any
\* number of threads: the initial states are abstract initial states, and every
\* step is an abstract step or a stutter.
THEOREM Refinement == Spec => ImplementsGracePeriod
<1>1. Init => GP!Init
  BY InitRefines
<1>2. IInv /\ [Next]_vars => [GP!Next]_GP!gpvars
  BY StepRefines
<1> QED BY <1>1, <1>2, Invariance, PTL DEF Spec, GP!Spec, ImplementsGracePeriod
=============================================================================
