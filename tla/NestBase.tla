------------------------------ MODULE NestBase ------------------------------
(***************************************************************************)
(* What the nestable RCU implementations of CodeSamples/defer have in      *)
(* common.  RcuNest32, RcuNest and RcuRcpls extend it; RcuNested checks    *)
(* them.                                                                   *)
(***************************************************************************)
EXTENDS Integers, Sequences, SequencesExt, FiniteSets

CONSTANTS
  NR_THREADS,             \* the threads are 0 .. NR_THREADS - 1
  Readers,                \* bound: the threads that read
  Updaters,               \* bound: the threads that call synchronize_rcu()
  MaxNest,                \* bound: depth of nested critical sections
  MaxIdx,                 \* bound: value of rcu_idx of rcu_rcpls.h
  WORD,                   \* ULONG_MAX + 1
  RCU_GP_CTR_BOTTOM_BIT,  \* of rcu_nest.h
  MAX_GP_ADV_DISTANCE     \* of rcu_nest.h

Threads == 0 .. NR_THREADS - 1
NoThread == -1

ASSUME NestAssumption ==
  /\ NR_THREADS \in Nat \ {0} /\ Readers \subseteq Threads /\ Updaters \subseteq Threads
  /\ MaxNest \in 1 .. RCU_GP_CTR_BOTTOM_BIT - 1 /\ MaxIdx \in Nat
ASSUME WordAssumption ==
  /\ WORD \in Nat /\ RCU_GP_CTR_BOTTOM_BIT \in Nat /\ MAX_GP_ADV_DISTANCE \in Nat
  /\ WORD % RCU_GP_CTR_BOTTOM_BIT = 0
  /\ MAX_GP_ADV_DISTANCE < WORD \div 2

VARIABLES
  rcu_gp_lock,         \* the holder, or NoThread
  buffer,              \* per thread: its stores not yet visible
  scan,                \* per thread: t of the for_each_thread() loop
  pc,
  preexisting          \* history: the readers a synchronize_rcu() has to outlast

Goto(t, from, to) ==
  /\ pc[t] = from
  /\ pc' = [pc EXCEPT ![t] = to]

Drained(t) == buffer[t] = <<>>

\* Nobody reads and nobody updates.
BaseInit ==
  /\ rcu_gp_lock = NoThread
  /\ buffer = [t \in Threads |-> <<>>]
  /\ scan = [t \in Threads |-> 0]
  /\ pc = [t \in Threads |-> "idle"]
  /\ preexisting = [t \in Threads |-> {}]
=============================================================================
