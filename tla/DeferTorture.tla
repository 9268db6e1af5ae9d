---------------------------- MODULE DeferTorture ----------------------------
(***************************************************************************)
(* The test drivers of CodeSamples/defer: RCU, routing tables, sequence    *)
(* lock and hazard pointers.                                               *)
(***************************************************************************)
EXTENDS TortureBase

-----------------------------------------------------------------------------
(***************************************************************************)
(* CodeSamples/defer/rcutorture.h over an RCU that keeps its promise: a    *)
(* synchronize_rcu() ends no earlier than the critical sections under way  *)
(* when it began.  store is rcu_stress_array and the pointer into it, and  *)
(* what each synchronize_rcu() under way still waits for.                  *)
(***************************************************************************)

RcuPerf == {"rcu_perftest", "rcu_rperftest", "rcu_uperftest"}
RcuDrivers == RcuPerf \union {"rcu_stresstest"}

\* Bound: elements of rcu_stress_array
RCU_STRESS_PIPE_LEN == 3

NoWait == [t \in Updaters |-> {}]

RcuInitStress ==
  InitWith({"rcu_stresstest"},
           [current |-> 0, idx |-> 0, wait |-> NoWait,
            pipe_count |-> [i \in 0 .. RCU_STRESS_PIPE_LEN - 1 |-> 0],
            mbtest |-> [i \in 0 .. RCU_STRESS_PIPE_LEN - 1 |-> IF i = 0 THEN 1 ELSE 0]],
           [e \in Elements |-> 0])

RcuInit == RcuInitStress \/ InitWith(RcuPerf, [wait |-> NoWait], [e \in Elements |-> 0])

InSection == {t \in Readers : pc[t] \in {"section", "mbtest", "garbage"}}

\* synchronize_rcu(): the readers that store.wait[t] names, until each is seen outside.
SynchronizeBegin(t, from) ==
  /\ Goto(t, from, "wait")
  /\ store' = [store EXCEPT !.wait[t] = InSection]
  /\ UNCHANGED <<driver, goflag, nthreads_running, loc, el, cbs, bug>>

Synchronize(t, to) ==
  \/ store.wait[t] = {} /\ Jump(t, "wait", to)
  \/ /\ pc[t] = "wait" /\ store.wait[t] \ InSection # {}
     /\ store' = [store EXCEPT !.wait[t] = @ \intersect InSection]
     /\ UNCHANGED <<driver, goflag, nthreads_running, pc, loc, el, cbs, bug>>

-----------------------------------------------------------------------------
\* Empty critical sections
rcu_read_perf_test(t) ==
  \/ Announce(t) \/ AwaitGoflag(t)
  \/ Jump(t, "pass", "section") \/ Jump(t, "section", "loop") \/ End(t, "over")

rcu_update_perf_test(t) ==
  Announce(t) \/ AwaitGoflag(t) \/ SynchronizeBegin(t, "pass") \/ Synchronize(t, "loop") \/ End(t, "over")

RcuPerfReaders == IF driver = "rcu_uperftest" THEN {} ELSE Readers
RcuPerfUpdaters ==
  CASE driver = "rcu_perftest" -> {Min(Updaters)}
    [] driver = "rcu_rperftest" -> {}
    [] OTHER -> Updaters

rcu_perftestrun == Conduct(RcuPerfReaders \union RcuPerfUpdaters, "perftestrun", FALSE)
rcu_perftest == driver = "rcu_perftest" /\ rcu_perftestrun
rcu_rperftest == driver = "rcu_rperftest" /\ rcu_perftestrun
rcu_uperftest == driver = "rcu_uperftest" /\ rcu_perftestrun

-----------------------------------------------------------------------------
\* A pass of the reader.  mbtest of the current element is looked at first; the hundred increments of garbage give
\* the updater time, and then pipe_count says how many updates ago the element was replaced.
rcu_read_stress_test(t) ==
  \/ AwaitGoflag(t) \/ End(t, "over")
  \/ Jump(t, "pass", "section")
  \/ /\ Goto(t, "section", "mbtest")
     /\ loc' = [loc EXCEPT ![t].n = store.current]
     /\ UNCHANGED <<driver, goflag, nthreads_running, store, el, cbs, bug>>
  \/ /\ Goto(t, "mbtest", "garbage")
     /\ BUG_ON(store.mbtest[loc[t].n] = 0, "n_mberror")
     /\ UNCHANGED <<driver, goflag, nthreads_running, loc, store, el, cbs>>
  \/ /\ Goto(t, "garbage", "loop")
     /\ BUG_ON(store.pipe_count[loc[t].n] > 1, "rcu_stress_count")
     /\ UNCHANGED <<driver, goflag, nthreads_running, loc, store, el, cbs>>

\* A pass of the updater: the next element is reset and published, the others age.  The passes
\* are enough for the first element to be used again.
rcu_update_stress_test(t) ==
  \/ goflag # "init" /\ ReadGoflagUpTo(t, RCU_STRESS_PIPE_LEN)
  \/ End(t, "over")
  \/ /\ Goto(t, "pass", "fresh")
     /\ LET i == (store.idx + 1) % RCU_STRESS_PIPE_LEN
        IN  /\ store' = [store EXCEPT !.mbtest[i] = 0]
            /\ loc' = [loc EXCEPT ![t].n = i]
     /\ UNCHANGED <<driver, goflag, nthreads_running, el, cbs, bug>>
  \/ /\ Goto(t, "fresh", "publish")
     /\ store' = [store EXCEPT !.pipe_count[loc[t].n] = 0, !.mbtest[loc[t].n] = 1]
     /\ UNCHANGED <<driver, goflag, nthreads_running, loc, el, cbs, bug>>
  \/ /\ Goto(t, "publish", "age")
     /\ store' = [store EXCEPT !.current = loc[t].n, !.idx = loc[t].n]
     /\ UNCHANGED <<driver, goflag, nthreads_running, loc, el, cbs, bug>>
  \/ /\ Goto(t, "age", "synchronize")
     /\ store' = [store EXCEPT !.pipe_count = [i \in DOMAIN @ |-> IF i = store.idx THEN @[i] ELSE @[i] + 1]]
     /\ UNCHANGED <<driver, goflag, nthreads_running, loc, el, cbs, bug>>
  \/ SynchronizeBegin(t, "synchronize") \/ Synchronize(t, "loop")

\* Grace periods that nobody needs, to be in the updater's way
rcu_fake_update_stress_test(t) ==
  AwaitGoflag(t) \/ SynchronizeBegin(t, "pass") \/ Synchronize(t, "loop") \/ End(t, "over")

\* The parent waits for nobody: threads that start late find the test running.
StressThreads == {LoneReader} \union Updaters
rcu_stresstest ==
  /\ driver = "rcu_stresstest"
  /\ ParentGo({}) \/ ParentStop \/ ParentJoin(StressThreads, "stresstest", FALSE)

Created(t) == driver = "rcu_stresstest" /\ t \in StressThreads /\ Jump(t, "start", "loop")

-----------------------------------------------------------------------------
RcuReaderStep(t) ==
  \/ driver \in RcuPerf /\ t \in RcuPerfReaders /\ rcu_read_perf_test(t)
  \/ driver = "rcu_stresstest" /\ t = LoneReader /\ rcu_read_stress_test(t)
  \/ Created(t)

RcuUpdaterStep(t) ==
  \/ driver \in RcuPerf /\ t \in RcuPerfUpdaters /\ rcu_update_perf_test(t)
  \/ driver = "rcu_stresstest" /\ t = Min(Updaters) /\ rcu_update_stress_test(t)
  \/ driver = "rcu_stresstest" /\ t # Min(Updaters) /\ rcu_fake_update_stress_test(t)
  \/ Created(t)

RcuParentStep == rcu_perftest \/ rcu_rperftest \/ rcu_uperftest \/ rcu_stresstest

-----------------------------------------------------------------------------
(***************************************************************************)
(* CodeSamples/defer/routetorture.h.  store counts, for each identifier,   *)
(* its entries in the route table: route_add() does not look for one that  *)
(* is there already, and route_del() removes one.                          *)
(***************************************************************************)

RouteDrivers == {"route_smoketest", "route_perftest", "route_stresstest"}

\* Bound: the identifiers; nelems and nids in the code
Ids == 0 .. 1

InitSmoke == InitWith({"route_smoketest"}, {}, [e \in Elements |-> 0])
InitPerf == InitWith({"route_perftest"}, [id \in Ids |-> 1], [e \in Elements |-> 0])
RouteInitStress == InitWith({"route_stresstest"}, [id \in Ids |-> 0], [e \in Elements |-> 0])

RouteInit == InitSmoke \/ InitPerf \/ RouteInitStress

\* smoketest(): all absent; added one by one; deleted one by one
smoketest ==
  LET script == [n \in 1 .. 24 |-> [key |-> (n - 1) % 8, there |-> n \in 9 .. 16]]
      step == SmokeStep(script)
  IN  /\ driver = "route_smoketest"
      /\ Smoke(script, "smoketest", IF step.there THEN store \union {step.key} ELSE store \ {step.key})

-----------------------------------------------------------------------------
\* perftest(): the parent fills the table before any thread exists; the readers only look,
\* and what they find is counted but not checked.
perftest_reader(t) ==
  \/ Announce(t) \/ ReadGoflag(t)
  \/ /\ Goto(t, "pass", "loop")
     /\ \E i \in Ids : BUG_ON(store[i] = 0, "perftest_reader")
     /\ UNCHANGED <<driver, goflag, nthreads_running, loc, store, el, cbs>>
  \/ End(t, "over")

route_perftest == driver = "route_perftest" /\ Conduct({LoneReader}, "perftest", FALSE)

-----------------------------------------------------------------------------
RouteAdd(t, id, from, to) ==
  /\ Goto(t, from, to)
  /\ store' = [store EXCEPT ![id] = @ + 1]
  /\ UNCHANGED <<driver, goflag, nthreads_running, el, cbs, bug>>

RouteDel(t, id, from, to) ==
  /\ Goto(t, from, to)
  /\ store' = [store EXCEPT ![id] = IF @ = 0 THEN 0 ELSE @ - 1]
  /\ UNCHANGED <<driver, goflag, nthreads_running, el, cbs, bug>>

\* "Start with some random half of the elements in the route table": as many additions and
\* deletions as there are updaters
WarmUp(t) ==
  LET rounds == Cardinality(Updaters)
  IN  \/ /\ loc[t].i < rounds
         /\ \E id \in Ids : RouteAdd(t, id, "start", "warm del") /\ UNCHANGED loc
      \/ \E id \in Ids : RouteDel(t, id, "warm del", "start") /\ Advance(t, loc[t].i + 1)
      \/ loc[t].i = rounds /\ Announce(t)

\* The look and the addition are two calls: another updater may add the same in between.
StressPass(t) ==
  \/ \E id \in Ids :
       /\ Goto(t, "pass", IF store[id] = 0 THEN "add" ELSE "del")
       /\ loc' = [loc EXCEPT ![t].n = id]
       /\ UNCHANGED <<driver, goflag, nthreads_running, store, el, cbs, bug>>
  \/ RouteAdd(t, loc[t].n, "add", "del") /\ UNCHANGED loc
  \/ \E id \in Ids : RouteDel(t, id, "del", "loop") /\ UNCHANGED loc

\* "Test over, so remove all our elements": one entry of each identifier
CleanUp(t) ==
  \/ Goto(t, "over", "clean") /\ Advance(t, 0)
     /\ UNCHANGED <<driver, goflag, nthreads_running, store, el, cbs, bug>>
  \/ /\ loc[t].i \in Ids
     /\ RouteDel(t, loc[t].i, "clean", "clean") /\ Advance(t, loc[t].i + 1)
  \/ loc[t].i \notin Ids /\ End(t, "clean")

stresstest_updater(t) ==
  WarmUp(t) \/ ReadGoflagUpTo(t, 1) \/ StressPass(t) \/ CleanUp(t)

route_stresstest == driver = "route_stresstest" /\ Conduct(Updaters, "stresstest", FALSE)

-----------------------------------------------------------------------------
RouteReaderStep(t) == driver = "route_perftest" /\ t = LoneReader /\ perftest_reader(t)
RouteUpdaterStep(t) == driver = "route_stresstest" /\ stresstest_updater(t)
RouteParentStep == smoketest \/ route_perftest \/ route_stresstest

-----------------------------------------------------------------------------
(***************************************************************************)
(* CodeSamples/defer/seqlock.h and its driver seqlocktorture.c.  store is  *)
(* the sequence lock with the array it guards: each element one more than  *)
(* the element before it, except while a writer increments them in turn.   *)
(* In loc, n is the sequence number a reader began with, ptr what it       *)
(* carries along the array: the element before, and the errors so far.     *)
(***************************************************************************)

SeqlockDrivers == {"seqlock"}

\* Bounds: elements of testarray, passes of a thread
n_elems == 2
Passes == 1

\* perftestinit()
perftestinit ==
  InitWith(SeqlockDrivers, [seq |-> 0, lock |-> Parent, testarray |-> [j \in 0 .. n_elems - 1 |-> j]],
           [e \in Elements |-> 0])

SeqlockInit == perftestinit

-----------------------------------------------------------------------------
\* The sequence number, made even: a reader that starts during a write will retry.
read_seqbegin(t, from, to) ==
  /\ Goto(t, from, to)
  /\ loc' = [loc EXCEPT ![t].n = 2 * (store.seq \div 2), ![t].i = 0]
  /\ UNCHANGED <<driver, goflag, nthreads_running, store, el, cbs, bug>>

\* Mutant: the comparison is the wrong way round.
RetriesUnchanged(t, from, again, accept) ==
  Jump(t, from, IF store.seq = loc[t].n THEN again ELSE accept)

read_seqretry(t, from, again, accept) ==
  Jump(t, from, IF store.seq # loc[t].n THEN again ELSE accept)

write_seqlock(t, from, to) ==
  /\ store.lock = Parent /\ Goto(t, from, to)
  /\ store' = [store EXCEPT !.lock = t, !.seq = @ + 1]
  /\ UNCHANGED <<driver, goflag, nthreads_running, loc, el, cbs, bug>>

write_sequnlock(t, from, to) ==
  /\ Goto(t, from, to)
  /\ store' = [store EXCEPT !.lock = Parent, !.seq = @ + 1]
  /\ loc' = [loc EXCEPT ![t].i = 0]
  /\ UNCHANGED <<driver, goflag, nthreads_running, el, cbs, bug>>

-----------------------------------------------------------------------------
\* A pass: the errors are counted anew in each attempt.
ReadElement(t) ==
  LET j == loc[t].i
      v == store.testarray[j]
      errs == IF j = 0 THEN 0
              ELSE loc[t].ptr.errs + (IF loc[t].ptr.old + 1 # v THEN 1 ELSE 0)
  IN  /\ j < n_elems
      /\ pc[t] = "read"
      /\ loc' = [loc EXCEPT ![t].i = j + 1, ![t].ptr = [old |-> v, errs |-> errs]]
      /\ UNCHANGED <<driver, goflag, nthreads_running, pc, store, el, cbs, bug>>

seqlock_read_test(t) ==
  \/ Announce(t) \/ AwaitGoflag(t)
  \/ read_seqbegin(t, "pass", "read")
  \/ ReadElement(t)
  \/ loc[t].i = n_elems /\ read_seqretry(t, "read", "pass", "loop")
  \/ Jump(t, "over", "done")

seqlock_write_test(t) ==
  \/ Announce(t)
  \/ goflag # "init" /\ ReadGoflagUpTo(t, Passes)
  \/ write_seqlock(t, "pass", "write")
  \/ /\ loc[t].i < n_elems /\ pc[t] = "write"
     /\ store' = [store EXCEPT !.testarray[loc[t].i] = @ + 1]
     /\ Advance(t, loc[t].i + 1)
     /\ UNCHANGED <<driver, goflag, nthreads_running, pc, el, cbs, bug>>
  \/ loc[t].i = n_elems /\ write_sequnlock(t, "write", "loop")
  \/ End(t, "over")

\* The errors of each reader's last pass are added up.
seqlock_perftestrun ==
  /\ driver = "seqlock"
  /\ Conduct({LoneReader} \union Updaters, "seqlock perftestrun",
             loc[LoneReader].ptr # <<>> /\ loc[LoneReader].ptr.errs # 0)

SeqlockReaderStep(t) == driver = "seqlock" /\ t = LoneReader /\ seqlock_read_test(t)
SeqlockUpdaterStep(t) == driver = "seqlock" /\ seqlock_write_test(t)
SeqlockParentStep == seqlock_perftestrun

-----------------------------------------------------------------------------
(***************************************************************************)
(* CodeSamples/defer/hazptrtorture.h.  store is hazptr_stress_array with   *)
(* the pointer into it, the hazard pointer hp of the one reader, and the   *)
(* elements that are retired and not yet freed.                            *)
(***************************************************************************)

HazptrPerf == {"hazptr_perftest", "hazptr_rperftest", "hazptr_uperftest"}
HazptrDrivers == HazptrPerf \union {"hazptr_stresstest"}

\* Bound: the elements, of which as many are retired before a scan, and the updates
HAZPTR_STRESS_PIPE_LEN == 3
Pipe == 0 .. HAZPTR_STRESS_PIPE_LEN - 1
NoHazard == -1

HazptrInitStress ==
  InitWith({"hazptr_stresstest"},
           [current |-> 0, idx |-> 0, inuse |-> {}, retired |-> {}, hp |-> NoHazard,
            pipe_count |-> [i \in Pipe |-> 0], mbtest |-> [i \in Pipe |-> IF i = 0 THEN 1 ELSE 0]],
           [e \in Elements |-> 0])

HazptrInit == HazptrInitStress \/ InitWith(HazptrPerf, <<>>, [e \in Elements |-> 0])

\* hazptr_free() of each retired element that is not protected
Scan(s) == [s EXCEPT !.retired = @ \intersect {s.hp}, !.inuse = @ \ (s.retired \ {s.hp})]

-----------------------------------------------------------------------------
hazptr_read_perf_test(t) ==
  Announce(t) \/ AwaitGoflag(t) \/ Jump(t, "pass", "loop") \/ End(t, "over")

hazptr_update_perf_test(t) ==
  Announce(t) \/ AwaitGoflag(t) \/ Jump(t, "pass", "loop") \/ End(t, "over")

HazptrPerfReaders == IF driver = "hazptr_uperftest" THEN {} ELSE {LoneReader}
HazptrPerfUpdaters ==
  CASE driver = "hazptr_perftest" -> {Min(Updaters)}
    [] driver = "hazptr_rperftest" -> {}
    [] OTHER -> Updaters

hazptr_perftestrun == Conduct(HazptrPerfReaders \union HazptrPerfUpdaters, "perftestrun", FALSE)
hazptr_perftest == driver = "hazptr_perftest" /\ hazptr_perftestrun
hazptr_rperftest == driver = "hazptr_rperftest" /\ hazptr_perftestrun
hazptr_uperftest == driver = "hazptr_uperftest" /\ hazptr_perftestrun

-----------------------------------------------------------------------------
\* hp_record() sets the hazard pointer and looks again; then the element is examined.
hazptr_read_stress_test(t) ==
  \/ Jump(t, "start", "loop") \/ AwaitGoflag(t)
  \/ /\ Goto(t, "pass", "again")
     /\ store' = [store EXCEPT !.hp = store.current]
     /\ UNCHANGED <<driver, goflag, nthreads_running, loc, el, cbs, bug>>
  \/ Jump(t, "again", IF store.current = store.hp THEN "mbtest" ELSE "pass")
  \/ /\ Goto(t, "mbtest", "count")
     /\ BUG_ON(store.mbtest[store.hp] = 0, "hazptr n_mberror")
     /\ UNCHANGED <<driver, goflag, nthreads_running, loc, store, el, cbs>>
  \/ /\ Goto(t, "count", "loop")
     /\ BUG_ON(store.pipe_count[store.hp] > 1, "hazptr_stress_count")
     /\ store' = [store EXCEPT !.hp = NoHazard]
     /\ UNCHANGED <<driver, goflag, nthreads_running, loc, el, cbs>>
  \/ End(t, "over")

\* The element after the last, unless it is still in use, is made new and published; the
\* elements not in use age; and the new one is retired while it is the current one.
hazptr_update_stress_test(t) ==
  LET i == (store.idx + 1) % HAZPTR_STRESS_PIPE_LEN
  IN  \/ Jump(t, "start", "loop")
      \/ goflag # "init" /\ ReadGoflagUpTo(t, HAZPTR_STRESS_PIPE_LEN)
      \/ /\ i \in store.inuse /\ Goto(t, "pass", "loop")
         /\ store' = [store EXCEPT !.idx = i]
         /\ UNCHANGED <<driver, goflag, nthreads_running, loc, el, cbs, bug>>
      \/ /\ i \notin store.inuse /\ Goto(t, "pass", "fresh")
         /\ store' = [store EXCEPT !.pipe_count[i] = 0, !.inuse = @ \union {i}, !.mbtest[i] = 0]
         /\ UNCHANGED <<driver, goflag, nthreads_running, loc, el, cbs, bug>>
      \/ /\ Goto(t, "fresh", "age")
         /\ store' = [store EXCEPT !.mbtest[i] = 1, !.current = i, !.idx = i]
         /\ UNCHANGED <<driver, goflag, nthreads_running, loc, el, cbs, bug>>
      \/ /\ Goto(t, "age", "retire")
         /\ store' = [store EXCEPT !.pipe_count =
                        [e \in Pipe |-> IF e \in store.inuse THEN @[e] ELSE @[e] + 1]]
         /\ UNCHANGED <<driver, goflag, nthreads_running, loc, el, cbs, bug>>
      \/ /\ Goto(t, "retire", "retired")
         /\ LET s == [store EXCEPT !.retired = @ \union {store.idx}]
            IN  store' = IF Cardinality(s.retired) >= HAZPTR_STRESS_PIPE_LEN THEN Scan(s) ELSE s
         /\ UNCHANGED <<driver, goflag, nthreads_running, loc, el, cbs, bug>>
      \/ /\ Goto(t, "retired", "loop")
         /\ store' = [store EXCEPT !.pipe_count[store.idx] = @ + 1]
         /\ UNCHANGED <<driver, goflag, nthreads_running, loc, el, cbs, bug>>
      \/ /\ Goto(t, "over", "done")
         /\ store' = Scan(store)
         /\ UNCHANGED <<driver, goflag, nthreads_running, loc, el, cbs, bug>>

\* The parent waits for nobody before it lets the threads go.
hazptr_stresstest ==
  /\ driver = "hazptr_stresstest"
  /\ \/ ParentGo({}) \/ ParentStop
     \/ ParentJoin({LoneReader, Min(Updaters)}, "stresstest", FALSE)

HazptrReaderStep(t) ==
  /\ t = LoneReader
  /\ \/ driver \in HazptrPerf /\ t \in HazptrPerfReaders /\ hazptr_read_perf_test(t)
     \/ driver = "hazptr_stresstest" /\ hazptr_read_stress_test(t)

HazptrUpdaterStep(t) ==
  \/ driver \in HazptrPerf /\ t \in HazptrPerfUpdaters /\ hazptr_update_perf_test(t)
  \/ driver = "hazptr_stresstest" /\ t = Min(Updaters) /\ hazptr_update_stress_test(t)

HazptrParentStep == hazptr_perftest \/ hazptr_rperftest \/ hazptr_uperftest \/ hazptr_stresstest
=============================================================================
