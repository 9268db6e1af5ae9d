--------------------------- MODULE CounterTorture ---------------------------
(***************************************************************************)
(* CodeSamples/count/limtorture.h and counttorture.h.  store is the value  *)
(* of an exact counter: add_count() and sub_count() fail at the limits.    *)
(* loc.n of a thread is its n_updates_local, and then its n_updates_pt.    *)
(***************************************************************************)
EXTENDS TortureBase

LimPerf == {"lim_perftest", "lim_rperftest", "lim_uperftest"}
StatPerf == {"count_perftest", "count_rperftest", "count_uperftest"}
Drivers == LimPerf \union StatPerf \union {"hogtest"}

\* Bounds: the limit, and what the hog adds
globalcountmax == 4
HogDelta == 2

Init == InitWith(Drivers, 0, [e \in Elements |-> 0])

CanAdd(delta) == store + delta <= globalcountmax
CanSub(delta) == store >= delta

\* An attempt to change the counter by delta, counted in loc.n where the code counts it
Attempt(t, delta, from, to, count) ==
  /\ Goto(t, from, to)
  /\ store' = store + delta
  /\ loc' = [loc EXCEPT ![t].n = @ + count]
  /\ UNCHANGED <<driver, goflag, nthreads_running, el, cbs, bug>>

n_updates == MapThenSumSet(LAMBDA t : loc[t].n, Threads)

-----------------------------------------------------------------------------
\* hogtest(): the hog keeps what it adds until the end.
count_updown_hog(t) ==
  \/ Announce(t)
  \/ goflag # "init" /\ CanAdd(HogDelta) /\ Attempt(t, HogDelta, "loop", "hogged", HogDelta)
  \/ /\ goflag # "init" /\ ~ CanAdd(HogDelta)
     /\ Goto(t, "loop", "done")
     /\ BUG_ON(TRUE, "count_updown_hog")
     /\ UNCHANGED <<driver, goflag, nthreads_running, loc, store, el, cbs>>
  \/ goflag = "stop" /\ End(t, "hogged")

\* The others count up to the limit together, and then down to nothing.
count_updown_limit(t) ==
  \/ Announce(t)
  \/ goflag = "up" /\ CanAdd(1) /\ Attempt(t, 1, "loop", "loop", 1)
  \/ goflag = "up" /\ ~ CanAdd(1) /\ Jump(t, "loop", "ran_up")
  \/ goflag = "down" /\ CanSub(1) /\ Attempt(t, -1, "ran_up", "ran_up", -1)
  \/ goflag = "down" /\ ~ CanSub(1) /\ Jump(t, "ran_up", "ran_down")
  \/ goflag = "stop" /\ End(t, "ran_down")

Hog == Min(Updaters)

HogPhase(from, to, flag) ==
  /\ Goto(Parent, from, to) /\ goflag' = flag
  /\ UNCHANGED <<driver, nthreads_running, loc, store, el, cbs>>

hogtest ==
  /\ driver = "hogtest"
  /\ \/ /\ nthreads_running = Cardinality(Readers) + 1
        /\ HogPhase("start", "hog", "hog") /\ UNCHANGED bug
     \/ pc[Hog] = "hogged" /\ HogPhase("hog", "up", "up") /\ UNCHANGED bug
     \/ /\ \A t \in Readers : pc[t] = "ran_up"
        /\ HogPhase("up", "down", "down")
        /\ BUG_ON(n_updates # globalcountmax, "hogtest up")
     \/ /\ \A t \in Readers : pc[t] = "ran_down"
        /\ HogPhase("down", "join", "stop")
        /\ BUG_ON(n_updates # 0, "hogtest down")
     \/ ParentJoin(Readers \union {Hog}, "hogtest", FALSE)

-----------------------------------------------------------------------------
\* perftest(): read_count() changes nothing.
count_read_perf_test_lim(t) ==
  Announce(t) \/ AwaitGoflag(t) \/ Jump(t, "pass", "loop") \/ End(t, "over")

count_read_perf_test(t) ==
  Announce(t) \/ AwaitGoflag(t) \/ Jump(t, "pass", "loop") \/ End(t, "over")

\* limtorture.h: add_count(1) and sub_count(1), whether they succeed or not
count_update_perf_test_lim(t) ==
  \/ Announce(t) \/ AwaitGoflag(t)
  \/ Attempt(t, IF CanAdd(1) THEN 1 ELSE 0, "pass", "sub", 0)
  \/ Attempt(t, IF CanSub(1) THEN -1 ELSE 0, "sub", "loop", 1)
  \/ Jump(t, "over", "done")

\* counttorture.h: inc_count()
count_update_perf_test(t) ==
  \/ Announce(t) \/ AwaitGoflag(t)
  \/ Attempt(t, 1, "pass", "loop", 1)
  \/ Jump(t, "over", "done")

PerfReaders == IF driver \in {"lim_uperftest", "count_uperftest"} THEN {} ELSE {LoneReader}

PerfUpdaters ==
  CASE driver \in {"lim_rperftest", "count_rperftest"} -> {}
    [] driver = "lim_perftest" -> {Min(Updaters)}
    [] OTHER -> Updaters

perftestrun_lim == Conduct(PerfReaders \union PerfUpdaters, "perftestrun_lim", store # 0)
perftest_lim == driver = "lim_perftest" /\ perftestrun_lim
rperftest_lim == driver = "lim_rperftest" /\ perftestrun_lim
uperftest_lim == driver = "lim_uperftest" /\ perftestrun_lim

perftestrun == Conduct(PerfReaders \union PerfUpdaters, "perftestrun", store # n_updates)
perftest == driver = "count_perftest" /\ perftestrun
rperftest == driver = "count_rperftest" /\ perftestrun
uperftest == driver = "count_uperftest" /\ perftestrun

-----------------------------------------------------------------------------
ReaderStep(t) ==
  \/ driver = "hogtest" /\ count_updown_limit(t)
  \/ driver \in LimPerf /\ t \in PerfReaders /\ count_read_perf_test_lim(t)
  \/ driver \in StatPerf /\ t \in PerfReaders /\ count_read_perf_test(t)

UpdaterStep(t) ==
  \/ driver = "hogtest" /\ t = Hog /\ count_updown_hog(t)
  \/ driver \in LimPerf /\ t \in PerfUpdaters /\ count_update_perf_test_lim(t)
  \/ driver \in StatPerf /\ t \in PerfUpdaters /\ count_update_perf_test(t)

ParentStep ==
  \/ hogtest \/ perftest_lim \/ rperftest_lim \/ uperftest_lim
  \/ perftest \/ rperftest \/ uperftest
=============================================================================
