----------------------------- MODULE CountStat -----------------------------
(***************************************************************************)
(* The statistical counters of CodeSamples/count, which only count up:     *)
(* count_nonatomic.c, count_atomic.c, count_stat.c, count_stat_atomic.c,   *)
(* count_stat_eventual.c, count_end.c, count_end_rcu.c, count_stack.c and  *)
(* count_tstat.c; used the way counttorture.h uses them: threads register, *)
(* increment and read, and unregister, and the parent then cleans up and   *)
(* reads once more.                                                        *)
(***************************************************************************)
EXTENDS Integers, FiniteSetsExt, Sequences

CONSTANTS
  NR_THREADS,
  MaxIncs              \* bound: the inc_count() of a thread

Threads == 0 .. NR_THREADS - 1
Parent == NR_THREADS
Readers == Threads \union {Parent}

NoThread == -1

Impls == {"count_nonatomic", "count_atomic", "count_stat", "count_stat_atomic", "count_stat_eventual",
          "count_end", "count_end_rcu", "count_stack", "count_tstat"}

VARIABLES
  impl,
  counter,             \* per thread: its own counter
  counterp,            \* the threads whose counterp[] is not NULL
  finalcount, final_mutex,
  finalthreadcount,    \* of count_tstat.c
  global_count,        \* of count_stat_eventual.c; the one counter of count_atomic.c
  stopflag, eventual,  \* of count_stat_eventual.c, and the thread eventual()
  arrays,              \* of count_end_rcu.c: every struct countarray there has been; the last is countarrayp
  spc, sloc,           \* per reader
  incs                 \* history: the increments made, per thread

svars == <<impl, counter, counterp, finalcount, final_mutex, finalthreadcount, global_count, stopflag,
           eventual, arrays, spc, sloc, incs>>

Registering == {"count_end", "count_end_rcu", "count_stack", "count_tstat"}

SRegisters == [low |-> 0, sum |-> 0, scan |-> 0, cap |-> 0, gp |-> {}]

Incremented == MapThenSumSet(LAMBDA t : incs[t], Threads)

SGoto(r, from, to) ==
  /\ spc[r] = from
  /\ spc' = [spc EXCEPT ![r] = to]

\* count_init(), and the threads that have been created
Init ==
  /\ impl \in Impls
  /\ counter = [t \in Threads |-> 0]
  /\ counterp = {}
  /\ finalcount = 0 /\ final_mutex = NoThread /\ finalthreadcount = 0
  /\ global_count = 0 /\ stopflag = 0
  /\ eventual = [pc |-> IF impl = "count_stat_eventual" THEN "sum" ELSE "none", scan |-> 0, sum |-> 0]
  /\ arrays = <<[total |-> 0, counterp |-> {}, freed |-> FALSE]>>
  /\ spc = [r \in Readers |-> IF r = Parent THEN "waiting" ELSE IF impl \in Registering THEN "off" ELSE "idle"]
  /\ sloc = [r \in Readers |-> SRegisters]
  /\ incs = [t \in Threads |-> 0]

-----------------------------------------------------------------------------
\* inc_count()

atomic_inc(t) ==
  /\ impl = "count_atomic" /\ spc[t] = "idle"
  /\ global_count' = global_count + 1
  /\ incs' = [incs EXCEPT ![t] = @ + 1]
  /\ UNCHANGED <<impl, counter, counterp, finalcount, final_mutex, finalthreadcount, stopflag, eventual, arrays, spc, sloc>>

\* WRITE_ONCE(counter, READ_ONCE(counter) + 1)
NonatomicLoad(t) ==
  /\ impl = "count_nonatomic" /\ SGoto(t, "idle", "store")
  /\ sloc' = [sloc EXCEPT ![t].sum = global_count]
  /\ UNCHANGED <<impl, counter, counterp, finalcount, final_mutex, finalthreadcount, global_count, stopflag, eventual, arrays, incs>>

NonatomicStore(t) ==
  /\ SGoto(t, "store", "idle")
  /\ global_count' = sloc[t].sum + 1
  /\ sloc' = [sloc EXCEPT ![t] = SRegisters]
  /\ incs' = [incs EXCEPT ![t] = @ + 1]
  /\ UNCHANGED <<impl, counter, counterp, finalcount, final_mutex, finalthreadcount, stopflag, eventual, arrays>>

\* The thread's own counter
OwnInc(t) ==
  /\ impl \notin {"count_atomic", "count_nonatomic"} /\ spc[t] = "idle"
  /\ counter' = [counter EXCEPT ![t] = @ + 1]
  /\ incs' = [incs EXCEPT ![t] = @ + 1]
  /\ UNCHANGED <<impl, counterp, finalcount, final_mutex, finalthreadcount, global_count, stopflag, eventual, arrays, spc, sloc>>

inc_count(t) ==
  \/ incs[t] < MaxIncs /\ (atomic_inc(t) \/ NonatomicLoad(t) \/ OwnInc(t))
  \/ NonatomicStore(t)

-----------------------------------------------------------------------------
\* read_count(), of a thread or of the parent at the end

ReadFrom(r) == IF r = Parent THEN "final" ELSE "idle"

\* One variable
ReadOne(r) ==
  /\ impl \in {"count_atomic", "count_nonatomic", "count_stat_eventual"}
  /\ SGoto(r, ReadFrom(r), "got")
  /\ sloc' = [sloc EXCEPT ![r].low = Incremented, ![r].sum = global_count]
  /\ UNCHANGED <<impl, counter, counterp, finalcount, final_mutex, finalthreadcount, global_count, stopflag, eventual, arrays, incs>>

\* sum = 0, = finalcount under final_mutex, or = cap->total in a read-side critical section
ReadBegin(r) ==
  LET start == CASE impl \in {"count_end", "count_stack"} -> finalcount
                 [] impl = "count_end_rcu" -> arrays[Len(arrays)].total
                 [] OTHER -> 0
  IN  /\ impl \notin {"count_atomic", "count_nonatomic", "count_stat_eventual"}
      /\ SGoto(r, ReadFrom(r), "read")
      /\ IF impl \in {"count_end", "count_stack"}
         THEN final_mutex = NoThread /\ final_mutex' = r
         ELSE UNCHANGED final_mutex
      /\ sloc' = [sloc EXCEPT ![r] = [SRegisters EXCEPT !.low = Incremented, !.sum = start, !.cap = Len(arrays)]]
      /\ UNCHANGED <<impl, counter, counterp, finalcount, finalthreadcount, global_count, stopflag, eventual, arrays, incs>>

\* The counters that are looked at
Pointed(r) ==
  CASE impl \in {"count_end", "count_stack", "count_tstat"} -> counterp
    [] impl = "count_end_rcu" -> arrays[sloc[r].cap].counterp
    [] OTHER -> Threads

ReadNext(r) ==
  LET t == sloc[r].scan
  IN  /\ spc[r] = "read" /\ t < NR_THREADS
      /\ sloc' = [sloc EXCEPT ![r].sum = IF t \in Pointed(r) THEN @ + counter[t] ELSE @, ![r].scan = @ + 1]
      /\ UNCHANGED <<impl, counter, counterp, finalcount, final_mutex, finalthreadcount, global_count, stopflag, eventual, arrays, spc, incs>>

\* spin_unlock() or rcu_read_unlock()
ReadEnd(r) ==
  /\ SGoto(r, "read", "got") /\ sloc[r].scan = NR_THREADS
  /\ final_mutex' = IF impl \in {"count_end", "count_stack"} THEN NoThread ELSE final_mutex
  /\ sloc' = [u \in Readers |-> [sloc[u] EXCEPT !.gp = @ \ {r}]]
  /\ UNCHANGED <<impl, counter, counterp, finalcount, finalthreadcount, global_count, stopflag, eventual, arrays, incs>>

ReadReturn(r) ==
  /\ SGoto(r, "got", IF r = Parent THEN "done" ELSE "idle")
  /\ sloc' = [sloc EXCEPT ![r] = SRegisters]
  /\ finalthreadcount' = IF r = Parent THEN finalthreadcount + 1 ELSE finalthreadcount
  /\ UNCHANGED <<impl, counter, counterp, finalcount, final_mutex, global_count, stopflag, eventual, arrays, incs>>

read_count(r) == ReadOne(r) \/ ReadBegin(r) \/ ReadNext(r) \/ ReadEnd(r) \/ ReadReturn(r)

-----------------------------------------------------------------------------
\* count_register_thread() and count_unregister_thread()

count_register_thread(t) ==
  /\ SGoto(t, "off", "idle")
  /\ impl # "count_tstat" => final_mutex = NoThread
  /\ counterp' = IF impl = "count_end_rcu" THEN counterp ELSE counterp \union {t}
  /\ arrays' = IF impl = "count_end_rcu" THEN [arrays EXCEPT ![Len(arrays)].counterp = @ \union {t}] ELSE arrays
  /\ UNCHANGED <<impl, counter, finalcount, final_mutex, finalthreadcount, global_count, stopflag, eventual, sloc, incs>>

\* Mutant: the pointer is cleared, the count is not kept.
EndForgets(t) ==
  /\ impl \in {"count_end", "count_stack"} /\ final_mutex = NoThread
  /\ SGoto(t, "idle", "gone")
  /\ counterp' = counterp \ {t}
  /\ UNCHANGED <<impl, counter, finalcount, final_mutex, finalthreadcount, global_count, stopflag, eventual, arrays, sloc, incs>>

\* count_end.c and count_stack.c; then the thread exits, and its counter is no more
EndUnregister(t) ==
  /\ impl \in {"count_end", "count_stack"} /\ final_mutex = NoThread
  /\ SGoto(t, "idle", "gone")
  /\ finalcount' = finalcount + counter[t]
  /\ counterp' = counterp \ {t}
  /\ UNCHANGED <<impl, counter, final_mutex, finalthreadcount, global_count, stopflag, eventual, arrays, sloc, incs>>

\* count_end_rcu.c: a copy takes the place of the array.
RcuUnregister(t) ==
  LET capold == arrays[Len(arrays)]
      cap == [total |-> capold.total + counter[t], counterp |-> capold.counterp \ {t}, freed |-> FALSE]
  IN  /\ impl = "count_end_rcu" /\ final_mutex = NoThread
      /\ SGoto(t, "idle", "synchronize")
      /\ arrays' = Append(arrays, cap)
      /\ sloc' = [sloc EXCEPT ![t].cap = Len(arrays), ![t].gp = {r \in Readers : spc[r] = "read"}]
      /\ UNCHANGED <<impl, counter, counterp, finalcount, final_mutex, finalthreadcount, global_count, stopflag, eventual, incs>>

\* Mutant: the old array is freed, and the thread gone, without synchronize_rcu().
FreeAtOnce(t) ==
  /\ SGoto(t, "synchronize", "gone")
  /\ arrays' = [arrays EXCEPT ![sloc[t].cap].freed = TRUE]
  /\ sloc' = [sloc EXCEPT ![t] = SRegisters]
  /\ UNCHANGED <<impl, counter, counterp, finalcount, final_mutex, finalthreadcount, global_count, stopflag, eventual, incs>>

\* synchronize_rcu(), then free(capold)
RcuFree(t) ==
  /\ SGoto(t, "synchronize", "gone") /\ sloc[t].gp = {}
  /\ arrays' = [arrays EXCEPT ![sloc[t].cap].freed = TRUE]
  /\ sloc' = [sloc EXCEPT ![t] = SRegisters]
  /\ UNCHANGED <<impl, counter, counterp, finalcount, final_mutex, finalthreadcount, global_count, stopflag, eventual, incs>>

\* count_tstat.c: the counters stay until the parent has read them.
TstatUnregister(t) ==
  /\ impl = "count_tstat"
  /\ SGoto(t, "idle", "linger")
  /\ finalthreadcount' = finalthreadcount + 1
  /\ UNCHANGED <<impl, counter, counterp, finalcount, final_mutex, global_count, stopflag, eventual, arrays, sloc, incs>>

TstatExit(t) ==
  /\ SGoto(t, "linger", "gone") /\ finalthreadcount >= NR_THREADS + 1
  /\ UNCHANGED <<impl, counter, counterp, finalcount, final_mutex, finalthreadcount, global_count, stopflag, eventual, arrays, sloc, incs>>

\* The others have nothing to unregister.
Exit(t) ==
  /\ impl \notin Registering /\ SGoto(t, "idle", "gone")
  /\ UNCHANGED <<impl, counter, counterp, finalcount, final_mutex, finalthreadcount, global_count, stopflag, eventual, arrays, sloc, incs>>

count_unregister_thread(t) ==
  EndUnregister(t) \/ RcuUnregister(t) \/ RcuFree(t) \/ TstatUnregister(t) \/ TstatExit(t) \/ Exit(t)

-----------------------------------------------------------------------------
\* eventual(): sums up, publishes, and notes that it has seen stopflag

EventualSum ==
  /\ eventual.pc = "sum" /\ eventual.scan < NR_THREADS
  /\ eventual' = [eventual EXCEPT !.sum = @ + counter[eventual.scan], !.scan = @ + 1]
  /\ UNCHANGED <<impl, counter, counterp, finalcount, final_mutex, finalthreadcount, global_count, stopflag, arrays, spc, sloc, incs>>

EventualStore ==
  /\ eventual.pc = "sum" /\ eventual.scan = NR_THREADS
  /\ global_count' = eventual.sum
  /\ eventual' = [pc |-> "check", scan |-> 0, sum |-> 0]
  /\ UNCHANGED <<impl, counter, counterp, finalcount, final_mutex, finalthreadcount, stopflag, arrays, spc, sloc, incs>>

\* Mutant: one look at stopflag is enough.
StopAtOnce ==
  /\ eventual.pc = "check"
  /\ stopflag' = IF stopflag # 0 THEN 3 ELSE 0
  /\ eventual' = [eventual EXCEPT !.pc = IF stopflag' < 3 THEN "sum" ELSE "over"]
  /\ UNCHANGED <<impl, counter, counterp, finalcount, final_mutex, finalthreadcount, global_count, arrays, spc, sloc, incs>>

EventualCheck ==
  /\ eventual.pc = "check"
  /\ stopflag' = IF stopflag # 0 THEN stopflag + 1 ELSE 0
  /\ eventual' = [eventual EXCEPT !.pc = IF stopflag' < 3 THEN "sum" ELSE "over"]
  /\ UNCHANGED <<impl, counter, counterp, finalcount, final_mutex, finalthreadcount, global_count, arrays, spc, sloc, incs>>

-----------------------------------------------------------------------------
\* The parent: wait_all_threads(), or with count_tstat.c until all have unregistered
WaitAll ==
  /\ SGoto(Parent, "waiting", "cleanup")
  /\ \A t \in Threads : spc[t] = "gone" \/ (impl = "count_tstat" /\ finalthreadcount = NR_THREADS)
  /\ stopflag' = IF impl = "count_stat_eventual" THEN 1 ELSE stopflag
  /\ UNCHANGED <<impl, counter, counterp, finalcount, final_mutex, finalthreadcount, global_count, eventual, arrays, sloc, incs>>

\* count_cleanup(), whose first half is above
count_cleanup ==
  /\ SGoto(Parent, "cleanup", "final")
  /\ impl = "count_stat_eventual" => stopflag >= 3
  /\ UNCHANGED <<impl, counter, counterp, finalcount, final_mutex, finalthreadcount, global_count, stopflag, eventual, arrays, sloc, incs>>

Done == spc[Parent] = "done" /\ UNCHANGED svars

Next ==
  \/ \E t \in Threads : inc_count(t) \/ count_register_thread(t) \/ count_unregister_thread(t)
  \/ \E r \in Readers : read_count(r)
  \/ EventualSum \/ EventualStore \/ EventualCheck \/ WaitAll \/ count_cleanup \/ Done

-----------------------------------------------------------------------------
ReadBetween ==
  \A r \in Readers : spc[r] = "got" =>
    /\ sloc[r].sum <= Incremented
    /\ impl \notin {"count_nonatomic", "count_stat_eventual"} => sloc[r].low <= sloc[r].sum

FinalReadExact ==
  spc[Parent] = "got" /\ impl # "count_nonatomic" => sloc[Parent].sum = Incremented

ReadsNothingFreed ==
  impl \in Registering => \A r \in Readers : spc[r] = "read" =>
    /\ ~ arrays[sloc[r].cap].freed
    /\ sloc[r].scan \in Pointed(r) => spc[sloc[r].scan] # "gone"
=============================================================================
