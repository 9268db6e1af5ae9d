------------------------------ MODULE Counters ------------------------------
(***************************************************************************)
(* The counters of CodeSamples/count: impl is the one the program is       *)
(* linked with.  Each has its own module and its own variables; the limit  *)
(* counters share what CounterBase has.                                    *)
(***************************************************************************)
EXTENDS CounterBase, Sequences

CONSTANTS MaxIncs

VARIABLES
  impl,
  counter, countermax, theft, counting, pending,   \* count_lim_sig.c; the first two count_lim.c
  counterandmax, old,                              \* count_lim_atomic.c
  counterp, finalcount, final_mutex, finalthreadcount, global_count, stopflag, eventual, arrays,
  spc, sloc, incs                                  \* the statistical counters

sigVars == <<theft, counting, pending>>
atomicVars == <<counterandmax, old>>
statVars == <<counterp, finalcount, final_mutex, finalthreadcount, global_count, stopflag, eventual, arrays, spc, sloc, incs>>
vars == <<impl, globals, locals, pc, counter, countermax, sigVars, atomicVars, statVars>>

Lim == INSTANCE CountLim
Sig == INSTANCE CountLimSig
Atomic == INSTANCE CountLimAtomic
Stat == INSTANCE CountStat

Approximate == {"count_lim", "count_lim_app", "count_limd"}
Exact == {"count_lim_sig", "count_lim_atomic"}

\* What the implementation does not have is at rest.
Init ==
  /\ impl \in Approximate \union Exact \union Stat!Impls
  /\ Sig!Init /\ Atomic!Init
  /\ IF impl \in Stat!Impls THEN Stat!Init
     ELSE /\ counterp = {} /\ finalcount = 0 /\ final_mutex = NoThread /\ finalthreadcount = 0
          /\ global_count = 0 /\ stopflag = 0 /\ eventual = "none" /\ arrays = <<>>
          /\ spc = <<>> /\ sloc = <<>> /\ incs = <<>>

LimNext == impl \in Approximate /\ Lim!Next /\ UNCHANGED <<sigVars, atomicVars, statVars>>
SigOnly == impl = "count_lim_sig" /\ UNCHANGED <<impl, atomicVars, statVars>>
SigNext == SigOnly /\ Sig!Next
AtomicNext == impl = "count_lim_atomic" /\ Atomic!Next /\ UNCHANGED <<impl, counter, countermax, sigVars, statVars>>
StatNext == impl \in Stat!Impls /\ Stat!Next /\ UNCHANGED <<globals, locals, pc, countermax, sigVars, atomicVars>>

Next == LimNext \/ SigNext \/ AtomicNext \/ StatNext

\* Signals are delivered and threads inside the counter's functions run: the fairness of
\* count_lim_sig.c.  Its SlowPath and FlushSteal are apart because others may disable them again.
Fairness ==
  \A t \in Threads :
    /\ WF_vars(SigOnly /\ Sig!flush_local_count_sig(t))
    /\ WF_vars(SigOnly /\ Sig!FastPath(t))
    /\ WF_vars(SigOnly /\ Sig!FlushRequest(t))
    /\ WF_vars(SigOnly /\ Sig!FlushResend(t))
    /\ SF_vars(SigOnly /\ Sig!FlushSteal(t))
    /\ WF_vars(SigOnly /\ Sig!Recheck(t))
    /\ WF_vars(SigOnly /\ Sig!ReadSteps(t))

Spec == Init /\ [][Next]_vars /\ Fairness

-----------------------------------------------------------------------------
Total ==
  CASE impl \in Approximate -> Lim!Total
    [] impl = "count_lim_sig" -> Sig!Total
    [] impl = "count_lim_atomic" -> Atomic!Total
    [] OTHER -> 0

LC == INSTANCE LimitCounter WITH exact <- impl \in Exact, count <- Total

\* add_count() and sub_count() of every limit counter change the count by delta or not at all,
\* and the limit holds, whatever the thief, the handlers and the fast paths do in whatever
\* order; and with count_lim_sig.c and count_lim_atomic.c a call returns 0 only when the limit
\* really is in the way of it at that moment.
ImplementsLimitCounter == LC!Spec

\* globalreserve is the sum of the countermaxes and fits beside globalcount under the limit, at
\* every moment of a steal too, and no thread's counter exceeds its countermax: together, room
\* that balance_count() has given out is never given out twice.
ReserveCoversCountermax ==
  CASE impl \in Approximate -> Lim!ReserveCoversCountermax
    [] impl = "count_lim_sig" -> Sig!ReserveCoversCountermax
    [] impl = "count_lim_atomic" -> Atomic!ReserveCoversCountermax
    [] OTHER -> TRUE

\* In count_lim_sig.c a thief and the owner are never both at the counter: while a thread is
\* between checking theft and updating its counter, its theft never becomes READY.
NoTheftDuringUpdate == Sig!NoTheftDuringUpdate

\* Every theft of count_lim_sig.c ends: a thread that flushes gets READY from all the others.
FlushEnds == Sig!FlushEnds

\* read_count() of a statistical counter returns a value between what had been counted at its
\* call and what has been at its return, while threads come and go: none is counted twice, nor
\* missed.  count_nonatomic.c and count_stat_eventual.c only promise not to exceed it; that of a
\* limit counter may return a value the counter never had, but none above the limit.
ReadBetween == IF impl \in Stat!Impls THEN Stat!ReadBetween ELSE \A t \in Threads : sum[t] <= globalcountmax

\* What the parent reads after count_cleanup() is exactly what was counted (counttorture.h
\* compares), also with eventual() summing up on its own.
FinalReadExact == impl \in Stat!Impls => Stat!FinalReadExact

\* read_count() looks neither into an array that count_end_rcu.c has freed nor at the counter
\* of a thread that has exited.
ReadsNothingFreed == impl \in Stat!Impls => Stat!ReadsNothingFreed
=============================================================================
