----------------------------- MODULE RcuNested -----------------------------
(***************************************************************************)
(* The nestable RCU implementations side by side: rcu_nest32 (one bit for  *)
(* the grace period), rcu_nest (a free-running number that wraps around)   *)
(* and rcu_rcpls (paired counters, shared grace periods).                  *)
(***************************************************************************)
EXTENDS NestBase

CONSTANT FewThreads    \* bound: the threads of rcu_nest that read and call synchronize_rcu()

ASSUME FewAssumption == FewThreads \in 1 .. NR_THREADS

VARIABLES
  impl,                \* the implementation that runs
  phase, snap,                                             \* rcu_nest32
  rcu_gp_ctr, tmp,                                         \* rcu_nest
  rcu_idx, rcu_refcnt, rcu_nesting, rcu_read_idx, ctr, oldctr, \* rcu_rcpls
  rcu_reader_gp, flip                                      \* of two of them

N32 == INSTANCE RcuNest32
N == INSTANCE RcuNest WITH Readers <- 0 .. FewThreads - 1, Updaters <- 0 .. FewThreads - 1
P == INSTANCE RcuRcpls

own32 == <<phase, snap>>
own == <<rcu_gp_ctr, tmp>>
ownp == <<rcu_idx, rcu_refcnt, rcu_nesting, rcu_read_idx, ctr, oldctr>>
vars == <<impl, rcu_gp_lock, buffer, scan, pc, preexisting, own32, own, ownp, rcu_reader_gp, flip>>

\* What the implementation that runs has no use for
No32 == phase = 0 /\ snap = [t \in Threads |-> 0]
NoNest == rcu_gp_ctr = 0 /\ tmp = [t \in Threads |-> 0]
NoPairs ==
  /\ rcu_idx = 0 /\ rcu_refcnt = [t \in Threads |-> [i \in 0 .. 1 |-> 0]]
  /\ rcu_nesting = [t \in Threads |-> 0] /\ rcu_read_idx = [t \in Threads |-> 0]
  /\ ctr = [t \in Threads |-> 0] /\ oldctr = [t \in Threads |-> 0]

Init ==
  \/ impl = "rcu_nest32" /\ N32!Init /\ NoNest /\ NoPairs
  \/ impl = "rcu_nest" /\ N!Init /\ No32 /\ NoPairs /\ flip = [t \in Threads |-> 1]
  \/ impl = "rcu_rcpls" /\ P!Init /\ No32 /\ NoNest /\ rcu_reader_gp = [t \in Threads |-> 0]

Only32 == impl = "rcu_nest32" /\ UNCHANGED <<impl, own, ownp>>
OnlyNest == impl = "rcu_nest" /\ UNCHANGED <<impl, own32, ownp, flip>>
OnlyPairs == impl = "rcu_rcpls" /\ UNCHANGED <<impl, own32, own, rcu_reader_gp>>

Next ==
  \/ Only32 /\ N32!Next
  \/ OnlyNest /\ N!Next
  \/ OnlyPairs /\ P!Next

\* Stores drain, a thread inside rcu_read_lock() or rcu_read_unlock() runs, and
\* with rcu_nest32 so does one inside synchronize_rcu(); there critical sections
\* end, as RCU requires of its users.
Fairness ==
  \A t \in Threads :
    /\ WF_vars((Only32 /\ N32!DrainStore(t)) \/ (OnlyNest /\ N!DrainStore(t)))
    /\ WF_vars((Only32 /\ N32!Reader(t)) \/ (OnlyNest /\ N!Reader(t)))
    /\ WF_vars(Only32 /\ N32!SyncStep(t))
    /\ []<>(impl = "rcu_nest32" => t \notin N32!Inside)

Spec == Init /\ [][Next]_vars /\ Fairness

-----------------------------------------------------------------------------
Promised ==
  INSTANCE GracePeriod WITH
    inside <- CASE impl = "rcu_nest32" -> N32!Inside [] impl = "rcu_rcpls" -> P!Inside [] OTHER -> {},
    syncing <- CASE impl = "rcu_nest32" -> N32!Syncing [] impl = "rcu_rcpls" -> P!Syncing [] OTHER -> {},
    preexisting <- [u \in Threads |-> IF impl = "rcu_nest" THEN {} ELSE preexisting[u]]

\* synchronize_rcu() outlasts every critical section, nested or not, that was
\* under way when it was called.  In rcu_nest32 it does so although one bit
\* tells the grace periods apart and a reader may be preempted between loading
\* the counter and announcing itself while several of them go by; in rcu_rcpls
\* on all of its three ways through: two flips, one because a pair happened
\* before it had the lock, and none because three did.  rcu_nest is left out:
\* see GracePeriodGuarantee of RcuNest.
ImplementsGracePeriod == Promised!Spec

\* A nested critical section is announced, under the grace-period number or
\* phase it was entered with, until its outermost unlock and through a retry of
\* rcu_read_lock(): while a thread is inside, no value of its rcu_reader_gp that
\* others can still read has a zero count or another number.
AnnouncedWhileInside ==
  /\ impl = "rcu_nest32" => N32!AnnouncedWhileInside
  /\ impl = "rcu_nest" => N!AnnouncedWhileInside

\* A thread that has the lock in rcu_nest32 gets through both flips, however
\* often readers come and go: readers that begin after a flip do not delay it.
FlipsEnd ==
  \A u \in Updaters : impl = "rcu_nest32" /\ pc[u] = "sync_flip" ~> pc[u] = "idle"

\* Once grace periods stop beginning, rcu_read_lock() of rcu_nest stops retrying
\* and returns, wherever the counter has wrapped to.
RetryEnds ==
  <>[][rcu_gp_ctr' = rcu_gp_ctr]_vars =>
    \A t \in Readers : impl = "rcu_nest" /\ pc[t] = "lock_store" ~> pc[t] = "reading"
=============================================================================
