------------------------- MODULE DatastructTorture --------------------------
(***************************************************************************)
(* The test drivers of CodeSamples/datastruct: hash tables, trees, skip    *)
(* lists and the log; and those of deques and queues.                      *)
(***************************************************************************)
EXTENDS TortureBase

-----------------------------------------------------------------------------
(***************************************************************************)
(* CodeSamples/datastruct/hash/hashtorture.h: --smoketest, --perftest and  *)
(* --schroedinger.  store is the set of keys in perftest_htp.  In the      *)
(* performance test el is in_table: 0 out, 1 in, 2 deleted with its        *)
(* callback outstanding; in the zoo it is whether zheplist[i] is NULL.     *)
(* The drivers end in "_rcu" when defer_del() is call_rcu(), and free or   *)
(* reuse at once otherwise.                                                *)
(***************************************************************************)

Perf == {"perftest", "perftest_rcu"}
Zoo == {"zoo"}
HashDrivers == Perf \union Zoo \union {"hash_smoketest"}

cat == -1

\* Mutant: two updaters' key ranges overlap.
OverlappingKey(e) == e[2] + (e[1] - 1) * (Slots - 1)

\* data = i + mylowkey, mylowkey = myid * elperupdater; the name in the zoo
HashKey(e) == e[2] + (e[1] - 1) * Slots

\* perftest_updater_init(), zoo_updater_init(): the first half of the elements
Preloaded == {e \in Elements : e[2] < Slots \div 2}

InTable == [e \in Elements |-> IF e \in Preloaded THEN 1 ELSE 0]

HashInit ==
  \/ InitWith(Perf, {HashKey(e) : e \in Preloaded}, InTable)
  \/ InitWith(Zoo, {cat} \union {HashKey(e) : e \in Preloaded}, InTable)
  \/ InitWith({"hash_smoketest"}, {}, InTable)

Here(t) == <<t, loc[t].i>>

-----------------------------------------------------------------------------
\* smoketest(): each of four keys is looked up, added and checked under the lock,
\* looked up, deleted and checked, and looked up again.
SmokeScript ==
  LET Each(op, there) == [n \in 1 .. 4 |-> [op |-> op, key |-> n, there |-> there]]
  IN  Each("lookup", FALSE) \o Each("add", TRUE) \o Each("lookup", TRUE)
        \o Each("del", FALSE) \o Each("lookup", FALSE)

smoketest ==
  LET step == SmokeStep(SmokeScript)
  IN  /\ driver = "hash_smoketest"
      /\ Smoke(SmokeScript, "smoketest",
               CASE step.op = "add" -> store \union {step.key}
                 [] step.op = "del" -> store \ {step.key}
                 [] OTHER           -> store)

-----------------------------------------------------------------------------
\* perftest_reader(), zoo_reader()

\* perftest_lookup(i), the next i by a stride of the reader's own: its outcome is only
\* counted, so any i will do.
perftest_reader(t) ==
  /\ driver \in Perf /\ Goto(t, "pass", "loop")
  /\ UNCHANGED <<driver, goflag, nthreads_running, loc, store, el, cbs, bug>>

\* A cat reader looks up "cat", which is always there.
zoo_reader(t) ==
  /\ driver \in Zoo /\ Goto(t, "pass", "loop")
  /\ BUG_ON(cat \notin store, "zoo_reader")
  /\ UNCHANGED <<driver, goflag, nthreads_running, loc, store, el, cbs>>

-----------------------------------------------------------------------------
\* perftest_updater(), zoo_updater()

\* perftest_add(), under the lock of the key's bucket
perftest_add(t) ==
  /\ driver \in Perf /\ el[Here(t)] = 0
  /\ Goto(t, "pass", "added")
  /\ BUG_ON(HashKey(Here(t)) \in store, "perftest_add")
  /\ el' = [el EXCEPT ![Here(t)] = 1]
  /\ store' = store \union {HashKey(Here(t))}
  /\ UNCHANGED <<driver, goflag, nthreads_running, loc, cbs>>

\* perftest_del(), likewise; in the loop and when the test is over
perftest_del(t) ==
  /\ driver \in Perf /\ el[Here(t)] = 1
  /\ Goto(t, "pass", "unlinked") \/ Goto(t, "clean", "clean_unlinked")
  /\ BUG_ON(pc[t] = "clean" /\ HashKey(Here(t)) \notin store, "perftest_updater")
  /\ el' = [el EXCEPT ![Here(t)] = 2]
  /\ store' = store \ {HashKey(Here(t))}
  /\ UNCHANGED <<driver, goflag, nthreads_running, loc, cbs>>

\* defer_del(): the callback, or defer_del_done_perftest() at once
defer_del(t) ==
  /\ driver \in Perf
  /\ Goto(t, "unlinked", "deleted") \/ Goto(t, "clean_unlinked", "clean_next")
  /\ IF driver = "perftest_rcu"
       THEN cbs' = cbs \union {Here(t)} /\ UNCHANGED el
       ELSE el' = [el EXCEPT ![Here(t)] = 0] /\ UNCHANGED cbs
  /\ UNCHANGED <<driver, goflag, nthreads_running, loc, store, bug>>

\* call_rcu() invokes defer_del_done_perftest().
defer_del_done_perftest(e) == driver = "perftest_rcu" /\ Callback(e, 0)

\* The element is between two worlds: leave it alone.
StillDeferred(t) ==
  /\ driver \in Perf /\ el[Here(t)] = 2
  /\ Goto(t, "pass", "loop")
  /\ Advance(t, (loc[t].i + 1) % Slots)
  /\ UNCHANGED <<driver, goflag, nthreads_running, store, el, cbs, bug>>

zoo_add(t) ==
  /\ driver \in Zoo /\ el[Here(t)] = 0
  /\ Goto(t, "pass", "added")
  /\ BUG_ON(HashKey(Here(t)) \in store, "zoo_add")
  /\ el' = [el EXCEPT ![Here(t)] = 1]
  /\ store' = store \union {HashKey(Here(t))}
  /\ UNCHANGED <<driver, goflag, nthreads_running, loc, cbs>>

\* zoo_del(); when the test is over, of every element left
zoo_del(t) ==
  /\ driver \in Zoo /\ el[Here(t)] = 1
  /\ Goto(t, "pass", "deleted") \/ Goto(t, "clean", "clean_next")
  /\ store' = store \ {HashKey(Here(t))}
  /\ UNCHANGED <<driver, goflag, nthreads_running, loc, el, cbs, bug>>

\* BUG_ON(lookup) after a deletion, BUG_ON(!lookup) after an addition, and on to the
\* next element.  defer_del() may have freed the element of the zoo whose name is
\* looked up, and its memory may hold any other element's name.
CheckUpdate(t) ==
  LET found == HashKey(Here(t)) \in store
  IN  /\ driver \in Perf \union Zoo
      /\ \/ /\ Goto(t, "added", "loop")
            /\ BUG_ON(~ found, "perftest_updater")
            /\ UNCHANGED el
         \/ /\ driver \in Perf /\ Goto(t, "deleted", "loop")
            /\ BUG_ON(found, "perftest_updater")
            /\ UNCHANGED el
         \/ /\ driver \in Zoo /\ Goto(t, "deleted", "loop")
            /\ \E k \in {HashKey(e) : e \in Elements} : BUG_ON(k \in store, "zoo_updater")
            /\ el' = [el EXCEPT ![Here(t)] = 0]
      /\ Advance(t, (loc[t].i + 1) % Slots)
      /\ UNCHANGED <<driver, goflag, nthreads_running, store, cbs>>

\* Mutant: the callbacks are not waited for before the last pass.
NoBarrier(t) == TRUE

\* rcu_barrier(): this thread's callbacks have been invoked.
rcu_barrier(t) == cbs \intersect Own(t) = {}

\* "Test over, so remove all our elements from the hash table."
CleanStart(t) ==
  /\ driver \in Perf \union Zoo
  /\ Goto(t, "over", "clean")
  /\ rcu_barrier(t)
  /\ Advance(t, 0)
  /\ UNCHANGED <<driver, goflag, nthreads_running, store, el, cbs, bug>>

CleanNext(t) ==
  /\ driver \in Perf \union Zoo
  /\ pc[t] = "clean_next" \/ (pc[t] = "clean" /\ el[Here(t)] # 1)
  /\ pc' = [pc EXCEPT ![t] = IF loc[t].i = Slots - 1 THEN "clean_end" ELSE "clean"]
  /\ Advance(t, (loc[t].i + 1) % Slots)
  /\ UNCHANGED <<driver, goflag, nthreads_running, store, el, cbs, bug>>

CleanEnd(t) ==
  /\ driver \in Perf \union Zoo
  /\ Goto(t, "clean_end", "done")
  /\ rcu_barrier(t)
  /\ loc' = [loc EXCEPT ![t] = Registers]
  /\ UNCHANGED <<driver, goflag, nthreads_running, store, el, cbs, bug>>

-----------------------------------------------------------------------------
perftest == driver \in Perf /\ Conduct(Updaters \union {LoneReader}, "perftest", FALSE)
zoo_test == driver \in Zoo /\ Conduct(Updaters \union {LoneReader}, "zoo_test", cat \notin store)

HashReaderStep(t) ==
  /\ driver \in Perf \union Zoo /\ t = LoneReader
  /\ Announce(t) \/ ReadGoflag(t) \/ perftest_reader(t) \/ zoo_reader(t) \/ End(t, "over")

HashUpdaterStep(t) ==
  /\ driver \in Perf \union Zoo
  /\ \/ Announce(t) \/ ReadGoflag(t)
     \/ perftest_add(t) \/ perftest_del(t) \/ defer_del(t) \/ StillDeferred(t)
     \/ zoo_add(t) \/ zoo_del(t) \/ CheckUpdate(t)
     \/ CleanStart(t) \/ CleanNext(t) \/ CleanEnd(t)

HashParentStep == smoketest \/ perftest \/ zoo_test
HashCallbackStep == \E e \in Elements : defer_del_done_perftest(e)

\* What the tests leave in the table
Left == IF driver \in Zoo THEN {cat} ELSE {}

-----------------------------------------------------------------------------
(***************************************************************************)
(* CodeSamples/datastruct/Issaquah/treetorture.h: --stresstest, the second *)
(* half of --smoketest and --rcumalloc.  store is the set of <<tree, key,  *)
(* element>> in trp0 and trp1; tree_insert(), tree_delete() and            *)
(* tree_atomic_move() are single steps.  el is ->state, of which only the  *)
(* parity matters: even (out), odd (in).  Elements with equal ->dup keys   *)
(* belong to different children.                                           *)
(***************************************************************************)

TreeDrivers == {"tree_stress_test", "auto_smoke", "tree_rcumalloc"}

TreeKey(e) == e[2]

EL_IN == 1
EL_OUT == 0

\* init_el_array(): the first element with a key goes into trp0, the others stay out.
First(keys, e) ==
  \A f \in Elements : keys[f] = keys[e] => f[1] > e[1] \/ (f[1] = e[1] /\ f[2] >= e[2])

Loaded(keys) == {<<0, keys[e], e>> : e \in {f \in Elements : First(keys, f)}}

init_el_array(keys) == [e \in Elements |-> IF First(keys, e) THEN EL_IN ELSE EL_OUT]

Keys == [e \in Elements |-> TreeKey(e)]

TreeInit ==
  \/ InitWith({"tree_stress_test"}, Loaded(Keys), init_el_array(Keys))
  \/ InitWith({"auto_smoke", "tree_rcumalloc"}, {}, [e \in Elements |-> EL_OUT])

TreeFind(tree, key) == {x \in store : x[1] = tree /\ x[2] = key}

-----------------------------------------------------------------------------
put_el_in(e, f) == el' = [el EXCEPT ![e] = (@ + 1) % 2] /\ BUG_ON((el[e] + 1) % 2 # EL_IN, f)
put_el_out(e, f) == el' = [el EXCEPT ![e] = (@ + 1) % 2] /\ BUG_ON((el[e] + 1) % 2 # EL_OUT, f)

\* do_insert_el(): -EBUSY for an element that is in
InsertBusy(t) ==
  /\ Goto(t, "pass", "loop")
  /\ \E e \in Own(t) : el[e] = EL_IN
  /\ UNCHANGED <<driver, goflag, nthreads_running, loc, store, el, cbs, bug>>

\* put_el_in(), before the insertion makes the element visible
do_insert_el(t) ==
  /\ Goto(t, "pass", "insert")
  /\ \E e \in Own(t) :
       el[e] = EL_OUT /\ put_el_in(e, "put_el_in") /\ loc' = [loc EXCEPT ![t].ptr = e]
  /\ UNCHANGED <<driver, goflag, nthreads_running, store, cbs>>

tree_insert(t) ==
  LET e == loc[t].ptr
  IN  /\ Goto(t, "insert", IF TreeFind(0, TreeKey(e)) = {} THEN "loop" ELSE "backout")
      /\ store' = IF TreeFind(0, TreeKey(e)) = {} THEN store \union {<<0, TreeKey(e), e>>} ELSE store
      /\ UNCHANGED <<driver, goflag, nthreads_running, loc, el, cbs, bug>>

\* "Failure means we need to back out our ->state update."
InsertBackout(t) ==
  /\ Goto(t, "backout", "loop")
  /\ put_el_out(loc[t].ptr, "put_el_out")
  /\ UNCHANGED <<driver, goflag, nthreads_running, loc, store, cbs>>

\* do_delete_el(): the element deleted may be another child's; from the loop and from the
\* move back
do_delete_el(t, from, to, k) ==
  \/ /\ TreeFind(0, k) = {} /\ Goto(t, from, to)
     /\ UNCHANGED <<driver, goflag, nthreads_running, loc, store, el, cbs, bug>>
  \/ /\ TreeFind(0, k) # {} /\ Goto(t, from, to \o "_out")
     /\ store' = store \ TreeFind(0, k)
     /\ loc' = [loc EXCEPT ![t].ptr = (CHOOSE x \in TreeFind(0, k) : TRUE)[3]]
     /\ UNCHANGED <<driver, goflag, nthreads_running, el, cbs, bug>>

DeletedOut(t) ==
  /\ Goto(t, "loop_out", "loop") \/ Goto(t, "moved_out", "moved")
  /\ put_el_out(loc[t].ptr, "put_el_out")
  /\ UNCHANGED <<driver, goflag, nthreads_running, loc, store, cbs>>

DeleteOwn(t) == \E e \in Own(t) : do_delete_el(t, "pass", "loop", TreeKey(e))

\* tree_lookup(), tree_lookup_relaxed(), tree_map_relaxed(): only counted
Look(t) ==
  /\ Goto(t, "pass", "loop")
  /\ UNCHANGED <<driver, goflag, nthreads_running, loc, store, el, cbs, bug>>

Moved(a, b, k) == (store \ TreeFind(a, k)) \union {<<b, k, x[3]>> : x \in TreeFind(a, k)}

\* tree_atomic_move(trp0, trp1): a failure is counted and that is all.
tree_atomic_move(t) ==
  /\ \E e \in Own(t) :
       LET k == TreeKey(e)
       IN  IF TreeFind(0, k) # {} /\ TreeFind(1, k) = {}
             THEN /\ Goto(t, "pass", "moved")
                  /\ store' = Moved(0, 1, k) /\ loc' = [loc EXCEPT ![t].i = k]
             ELSE Goto(t, "pass", "loop") /\ UNCHANGED <<store, loc>>
  /\ UNCHANGED <<driver, goflag, nthreads_running, el, cbs, bug>>

\* "for (;;)" until the element is back: -ENOENT aborts, -EEXIST deletes what is there.
MoveBack(t) ==
  LET k == loc[t].i
  IN  \/ /\ TreeFind(1, k) = {} /\ Goto(t, "moved", "loop")
         /\ BUG_ON(TRUE, "tree_stress_test_child")
         /\ UNCHANGED <<driver, goflag, nthreads_running, loc, store, el, cbs>>
      \/ /\ TreeFind(1, k) # {} /\ TreeFind(0, k) = {} /\ Goto(t, "moved", "loop")
         /\ store' = Moved(1, 0, k)
         /\ UNCHANGED <<driver, goflag, nthreads_running, loc, el, cbs, bug>>
      \/ /\ TreeFind(1, k) # {} /\ TreeFind(0, k) # {}
         /\ do_delete_el(t, "moved", "moved", k)

\* wait_for_my_rcu_cbs() at the end: the driver itself has no callbacks.
tree_stress_test_child(t) ==
  /\ driver = "tree_stress_test"
  /\ \/ Announce(t) \/ AwaitGoflag(t) \/ InsertBusy(t) \/ do_insert_el(t) \/ tree_insert(t)
     \/ InsertBackout(t) \/ DeleteOwn(t) \/ DeletedOut(t) \/ Look(t)
     \/ tree_atomic_move(t) \/ MoveBack(t) \/ End(t, "over")

do_check_el(e) == (el[e] = EL_IN) = (<<0, TreeKey(e), e>> \in store)

do_check_all_el == \A e \in Elements : do_check_el(e)

\* The trees are validated at the end: trp1 is empty.
tree_stress_test ==
  /\ driver = "tree_stress_test"
  /\ Conduct(Updaters, "tree_stress_test", ~ do_check_all_el \/ \E x \in store : x[1] = 1)

-----------------------------------------------------------------------------
\* auto_smoke(): random keys; an element that is not found has a duplicate.
auto_smoke ==
  /\ driver = "auto_smoke"
  /\ Goto(Parent, "start", "done")
  /\ \E keys \in [Elements -> 0 .. Slots] :
       LET found(e) == {x \in Loaded(keys) : x[2] = keys[e]}
       IN  BUG_ON(\E e \in Elements :
                    \/ <<0, keys[e], e>> \in found(e) /\ init_el_array(keys)[e] # EL_IN
                    \/ found(e) = {},
                  "auto_smoke")
  /\ UNCHANGED <<driver, goflag, nthreads_running, loc, store, el, cbs>>

-----------------------------------------------------------------------------
\* tree_rcumalloc_child(): loc.n is n_mallocs, el of the child's first element n_frees.

RcuMalloc(t) ==
  /\ driver = "tree_rcumalloc" /\ Goto(t, "pass", "loop")
  /\ loc' = [loc EXCEPT ![t].n = @ + 1]
  /\ cbs' = cbs \union {<<t, loc[t].n>>}
  /\ UNCHANGED <<driver, goflag, nthreads_running, store, el, bug>>

\* malloc() returned NULL: the attempt is counted all the same.
RcuMallocFails(t) ==
  /\ driver = "tree_rcumalloc" /\ Goto(t, "pass", "loop")
  /\ loc' = [loc EXCEPT ![t].n = @ + 1]
  /\ UNCHANGED <<driver, goflag, nthreads_running, store, el, cbs, bug>>

tree_rcumalloc_rcu(e) ==
  /\ driver = "tree_rcumalloc" /\ e \in cbs
  /\ cbs' = cbs \ {e}
  /\ el' = [el EXCEPT ![<<e[1], 0>>] = @ + 1]
  /\ UNCHANGED <<driver, goflag, nthreads_running, pc, loc, store, bug>>

\* wait_for_my_rcu_cbs(); TREE_BUG_ON(cp->n_mallocs != cp->n_frees)
RcuMallocEnd(t) ==
  /\ driver = "tree_rcumalloc" /\ Goto(t, "over", "done")
  /\ \A e \in cbs : e[1] # t
  /\ BUG_ON(loc[t].n # el[<<t, 0>>], "tree_rcumalloc_child")
  /\ loc' = [loc EXCEPT ![t] = Registers]
  /\ UNCHANGED <<driver, goflag, nthreads_running, store, el, cbs>>

tree_rcumalloc_child(t) ==
  /\ driver = "tree_rcumalloc"
  /\ Announce(t) \/ AwaitGoflag(t) \/ RcuMalloc(t) \/ RcuMallocFails(t) \/ RcuMallocEnd(t)

tree_rcumalloc == driver = "tree_rcumalloc" /\ Conduct(Updaters, "tree_rcumalloc", FALSE)

-----------------------------------------------------------------------------
TreeUpdaterStep(t) == tree_stress_test_child(t) \/ tree_rcumalloc_child(t)
TreeParentStep == auto_smoke \/ tree_stress_test \/ tree_rcumalloc
TreeCallbackStep == \E e \in cbs : tree_rcumalloc_rcu(e)

-----------------------------------------------------------------------------
(***************************************************************************)
(* CodeSamples/datastruct/skiplist/skiplisttorture.h: --stresstest.  store *)
(* is the set of elements in head_sl, el is ->in_table: 0 out, 1 in, 2     *)
(* deleted and waiting for its callback, 3 freed with the updater's array. *)
(* Updaters delete each other's elements, but only those whose keys are    *)
(* below valsperupdater * nupdaters.                                       *)
(***************************************************************************)

SkiplistDrivers == {"skiplist"}

\* Bound: passes through the test loop; each has an addition and a deletion, or a lookup
\* and a scan.
MaxPasses == 1

skiplist_valsperupdater == Slots \div 2
elperupdater == Slots

\* tslp[i].data = i % valsperupdater + mylowkey
SkiplistKey(e) == (e[2] % skiplist_valsperupdater) + (e[1] - 1) * elperupdater

NKeys == skiplist_valsperupdater * Cardinality(Updaters)

\* "Start with some random half of the elements": those with a key already there stay out.
SkiplistInit ==
  \E half \in SUBSET Elements :
    /\ \A t \in Updaters : Cardinality(half \intersect Own(t)) = elperupdater \div 2
    /\ \A e, f \in half : SkiplistKey(e) = SkiplistKey(f) => e = f
    /\ InitWith(SkiplistDrivers, half, [e \in Elements |-> IF e \in half THEN 1 ELSE 0])

SkiplistFind(k) == {e \in store : SkiplistKey(e) = k}

\* The elements the threads inside read-side critical sections hold
Held == {loc[t].ptr : t \in {r \in {LoneReader} : pc[r] = "lookup"}}

-----------------------------------------------------------------------------
\* stresstest_reader()

\* "Warm up cache.": stresstest_lookup() outside of any read-side critical section
Warmup(t) ==
  /\ Goto(t, "start", "warm")
  /\ \E e \in store : loc' = [loc EXCEPT ![t].ptr = e]
  /\ UNCHANGED <<driver, goflag, nthreads_running, store, el, cbs, bug>>

WarmupCheck(t) ==
  /\ Goto(t, "warm", "announce")
  /\ BUG_ON(el[loc[t].ptr] = 0, "stresstest_lookup in warm-up")
  /\ UNCHANGED <<driver, goflag, nthreads_running, loc, store, el, cbs>>

stresstest_lookup(t) ==
  \/ /\ Goto(t, "pass", "lookup")
     /\ \E e \in store : loc' = [loc EXCEPT ![t].ptr = e]
     /\ UNCHANGED <<driver, goflag, nthreads_running, store, el, cbs, bug>>
  \/ /\ Goto(t, "lookup", "scan")
     /\ BUG_ON(el[loc[t].ptr] \notin {1, 2}, "stresstest_lookup")
     /\ UNCHANGED <<driver, goflag, nthreads_running, loc, store, el, cbs>>
  \/ Jump(t, "pass", "scan")

\* stresstest_reader_scan(): the element found is read after rcu_read_unlock().
stresstest_reader_scan(t) ==
  \/ /\ Goto(t, "scan", "scanned")
     /\ \E e \in store : loc' = [loc EXCEPT ![t].ptr = e]
     /\ UNCHANGED <<driver, goflag, nthreads_running, store, el, cbs, bug>>
  \/ /\ Goto(t, "scanned", "loop")
     /\ BUG_ON(el[loc[t].ptr] = 3, "stresstest_reader_scan")
     /\ UNCHANGED <<driver, goflag, nthreads_running, loc, store, el, cbs>>
  \/ Jump(t, "scan", "loop")

skiplist_stresstest_reader(t) ==
  \/ Warmup(t) \/ WarmupCheck(t) \/ Jump(t, "start", "announce")
  \/ AnnounceFrom(t, "announce") \/ ReadGoflagUpTo(t, MaxPasses)
  \/ stresstest_lookup(t) \/ stresstest_reader_scan(t) \/ End(t, "over")

-----------------------------------------------------------------------------
\* stresstest_updater()

\* while (tslp[i].in_table) if (++i >= elperupdater) { i = 0; break; }
FreeIndex(t) ==
  LET free == {i \in loc[t].i .. elperupdater - 1 : el[<<t, i>>] = 0}
  IN  IF free = {} THEN 0 ELSE Min(free)

\* stresstest_add(): in_table first
stresstest_add(t) ==
  LET e == <<t, FreeIndex(t)>>
  IN  /\ el[e] = 0 /\ Goto(t, "pass", "insert")
      /\ el' = [el EXCEPT ![e] = 1]
      /\ loc' = [loc EXCEPT ![t].i = FreeIndex(t)]
      /\ UNCHANGED <<driver, goflag, nthreads_running, store, cbs, bug>>

AllInUse(t) ==
  /\ el[<<t, FreeIndex(t)>>] # 0 /\ Goto(t, "pass", "del")
  /\ loc' = [loc EXCEPT ![t].i = 0]
  /\ UNCHANGED <<driver, goflag, nthreads_running, store, el, cbs, bug>>

skiplist_insert(t) ==
  LET e == <<t, loc[t].i>>
      exists == SkiplistFind(SkiplistKey(e)) # {}
  IN  /\ Goto(t, "insert", "del")
      /\ store' = IF exists THEN store ELSE store \union {e}
      /\ el' = IF exists THEN [el EXCEPT ![e] = 0] ELSE el
      /\ UNCHANGED <<driver, goflag, nthreads_running, loc, cbs, bug>>

\* stresstest_del(key): another updater's element just as well
stresstest_del(t, from, to, k, j) ==
  /\ Goto(t, from, IF SkiplistFind(k) = {} THEN to ELSE to \o "_mark")
  /\ store' = store \ SkiplistFind(k)
  /\ loc' = [loc EXCEPT ![t].n = j, ![t].ptr = IF SkiplistFind(k) = {} THEN @ ELSE CHOOSE e \in SkiplistFind(k) : TRUE]
  /\ UNCHANGED <<driver, goflag, nthreads_running, el, cbs, bug>>

\* tslp->in_table = 2; defer_del(): the updater that owns the element may have freed it.
MarkDeleted(t) ==
  LET e == loc[t].ptr
  IN  /\ Goto(t, "loop_mark", "loop") \/ Goto(t, "clean_mark", "clean")
      /\ BUG_ON(el[e] = 3, "stresstest_del")
      /\ el' = [el EXCEPT ![e] = IF @ = 3 THEN 3 ELSE 2]
      /\ cbs' = cbs \union {e}
      /\ loc' = [loc EXCEPT ![t].ptr = <<>>]
      /\ UNCHANGED <<driver, goflag, nthreads_running, store>>

DelNext(t) == stresstest_del(t, "del", "loop", loc[t].n, (loc[t].n + 1) % NKeys)

\* "Test over, so remove all our elements": whatever is in under their keys
CleanOwn(t) ==
  \/ \E e \in Own(t) : el[e] = 1 /\ SkiplistFind(SkiplistKey(e)) # {} /\ stresstest_del(t, "clean", "clean", SkiplistKey(e), 0)
  \/ /\ \A e \in Own(t) : el[e] = 1 => SkiplistFind(SkiplistKey(e)) = {}
     /\ Jump(t, "clean", "sync")

\* "Really want rcu_barrier()": synchronize_rcu() waits for readers, not for callbacks.
FreeArray(t) ==
  /\ Goto(t, "sync", "done")
  /\ Held \intersect Own(t) = {}
  /\ el' = [e \in Elements |-> IF e \in Own(t) THEN 3 ELSE el[e]]
  /\ loc' = [loc EXCEPT ![t] = Registers]
  /\ UNCHANGED <<driver, goflag, nthreads_running, store, cbs, bug>>

skiplist_stresstest_updater(t) ==
  \/ Announce(t) \/ ReadGoflagUpTo(t, MaxPasses) \/ stresstest_add(t) \/ AllInUse(t) \/ skiplist_insert(t)
  \/ DelNext(t) \/ MarkDeleted(t) \/ Jump(t, "over", "clean") \/ CleanOwn(t) \/ FreeArray(t)

\* The callback: no reader that found the element is still in its critical section.
defer_del_rcu(e) ==
  /\ e \notin Held
  /\ cbs' = cbs \ {e}
  /\ BUG_ON(el[e] = 3, "defer_del_rcu")
  /\ el' = [el EXCEPT ![e] = IF @ = 3 THEN 3 ELSE 0]
  /\ UNCHANGED <<driver, goflag, nthreads_running, pc, loc, store>>

skiplist_stresstest == Conduct(Updaters \union {LoneReader}, "stresstest", FALSE)

SkiplistReaderStep(t) == driver = "skiplist" /\ t = LoneReader /\ skiplist_stresstest_reader(t)
SkiplistUpdaterStep(t) == driver = "skiplist" /\ skiplist_stresstest_updater(t)
SkiplistParentStep == driver = "skiplist" /\ skiplist_stresstest
SkiplistCallbackStep == driver = "skiplist" /\ \E e \in cbs : defer_del_rcu(e)

-----------------------------------------------------------------------------
(***************************************************************************)
(* CodeSamples/datastruct/log: log_glock.c and its driver logtorture.h.    *)
(* store is the log: val the records, next lh_next_idx, lock the holder of *)
(* lh_lock.  el of <<t, i>> is stlp[i].index of updater t, or -1.          *)
(***************************************************************************)

LogDrivers == {"log_stresstest", "log_smoketest"}

log_valsperupdater == Slots
lh_n_entries == log_valsperupdater * Cardinality(Updaters)

None == <<>>

log_init ==
  InitWith(LogDrivers, [val |-> [i \in 0 .. lh_n_entries - 1 |-> None], next |-> 0, lock |-> Parent],
           [e \in Elements |-> -1])

LogInit == log_init

-----------------------------------------------------------------------------
\* Mutant: the index is published before the record.
PublishFirst(t, from, val) ==
  /\ store.lock = Parent /\ Goto(t, from, "publish")
  /\ BUG_ON(store.next >= lh_n_entries, "log_append")
  /\ store' = [store EXCEPT !.lock = t, !.next = @ + 1]
  /\ UNCHANGED <<driver, goflag, nthreads_running, loc, el, cbs>>

\* log_append(): the record under the lock, then the index that makes it visible
LogWrite(t, from, val) ==
  /\ store.lock = Parent /\ Goto(t, from, "publish")
  /\ BUG_ON(store.next >= lh_n_entries, "log_append")
  /\ store' = [store EXCEPT !.lock = t, !.val[store.next] = val]
  /\ UNCHANGED <<driver, goflag, nthreads_running, loc, el, cbs>>

LogPublish(t) ==
  /\ Goto(t, "publish", "record")
  /\ store' = [store EXCEPT !.lock = Parent, !.next = @ + 1]
  /\ loc' = [loc EXCEPT ![t].n = store.next]
  /\ UNCHANGED <<driver, goflag, nthreads_running, el, cbs, bug>>

-----------------------------------------------------------------------------
\* stresstest_updater(): the next value, and the index it was appended at
log_stresstest_updater(t) ==
  \/ Announce(t)
  \/ /\ goflag = "run" /\ loc[t].i < log_valsperupdater
     /\ LogWrite(t, "loop", <<t, loc[t].i>>)
  \/ LogPublish(t)
  \/ /\ Goto(t, "record", "loop")
     /\ el' = [el EXCEPT ![<<t, loc[t].i>>] = loc[t].n]
     /\ Advance(t, loc[t].i + 1)
     /\ UNCHANGED <<driver, goflag, nthreads_running, store, cbs, bug>>
  \/ /\ goflag = "stop" \/ loc[t].i = log_valsperupdater
     /\ End(t, "loop")

\* An index that may be looked at, and later the value at a random index below it
get_log_next_idx(t) ==
  /\ Goto(t, "pass", IF store.next = 0 THEN "loop" ELSE "value")
  /\ loc' = [loc EXCEPT ![t].n = store.next]
  /\ UNCHANGED <<driver, goflag, nthreads_running, store, el, cbs, bug>>

get_log_value(t) ==
  /\ Goto(t, "value", "loop")
  /\ \E i \in 0 .. loc[t].n - 1 :
       BUG_ON(i >= store.next \/ store.val[i] \notin Elements, "get_log_value")
  /\ UNCHANGED <<driver, goflag, nthreads_running, loc, store, el, cbs>>

log_stresstest_reader(t) ==
  Announce(t) \/ ReadGoflag(t) \/ get_log_next_idx(t) \/ get_log_value(t) \/ End(t, "over")

\* "Verify log contents.": each record is where its updater noted it.
log_stresstest ==
  /\ driver = "log_stresstest"
  /\ Conduct(Updaters \union {LoneReader}, "stresstest",
             \E i \in 0 .. store.next - 1 :
               store.val[i] \notin Elements \/ el[store.val[i]] # i)

-----------------------------------------------------------------------------
\* smoketest(): add_one_log_record() three times, the index sampled after each
add_one_log_record ==
  /\ driver = "log_smoketest"
  /\ \/ /\ loc[Parent].i < 3
        /\ Goto(Parent, "start", "start")
        /\ store' = [store EXCEPT !.val[store.next] = <<Min(Updaters), 0>>, !.next = @ + 1]
        /\ BUG_ON(store'.next # loc[Parent].i + 1, "add_one_log_record")
        /\ Advance(Parent, loc[Parent].i + 1)
        /\ UNCHANGED <<driver, goflag, nthreads_running, el, cbs>>
     \/ loc[Parent].i = 3 /\ Jump(Parent, "start", "done")

LogUpdaterStep(t) == driver = "log_stresstest" /\ log_stresstest_updater(t)
LogReaderStep(t) == driver = "log_stresstest" /\ t = LoneReader /\ log_stresstest_reader(t)
LogParentStep == log_stresstest \/ add_one_log_record

\* Every record that a thread may look at was written by an updater.
AllPublished == \A i \in 0 .. store.next - 1 : store.val[i] # None

-----------------------------------------------------------------------------
(***************************************************************************)
(* CodeSamples/SMPdesign/deqtorture.h and CodeSamples/advsync/             *)
(* queuetorture.h.  store is the deque, left end first; a queue is pushed  *)
(* on the right and popped on the left.  One pusher pushes positive data,  *)
(* the other negative data; loc.ptr of a popper is what it popped.         *)
(***************************************************************************)

Pairwise == {"conc_enq_l", "conc_enq_r", "conc_push_l", "conc_push_r", "conc_push"}
Melee == {"deq_melee", "queue_melee"}
DequePerf == {"pdeq_perf", "deq_perf", "queue_perf"}
DequeDrivers == Pairwise \union Melee \union DequePerf

N_TEST_ELEMS == Slots

\* Bound: the messages of the performance tests, and those pushed before the start
N_PERF_MSGS == 3
N_PERF_HEADSTART == 1

\* INIT_DEQUEUE, INIT_QUEUE: as many as the array has room for
nelem == IF driver \in DequePerf THEN N_PERF_MSGS ELSE 2 * N_TEST_ELEMS

DequeInit == InitWith(DequeDrivers, <<>>, [e \in Elements |-> 0])

PushL(x) == store' = <<x>> \o store
PushR(x) == store' = Append(store, x)

\* The side pushed to.  In the melee of deques one thread pushes on each side.
PushesLeft(t) ==
  \/ driver \in {"conc_enq_l", "conc_push_r", "pdeq_perf", "deq_perf"}
  \/ driver = "deq_melee" /\ t = Min(Updaters)

PopsLeft == driver \in {"conc_enq_r", "conc_push_r", "deq_melee", "conc_push",
                        "queue_melee", "queue_perf"}

Push(t, x) == IF PushesLeft(t) THEN PushL(x) ELSE PushR(x)

Popped == IF PopsLeft THEN Head(store) ELSE Last(store)
Pop == store' = IF PopsLeft THEN Tail(store) ELSE Front(store)

\* datastart and datainc: 1, 2, ... or -1, -2, ..., backwards for conc_push_l and _r
Datum(t, i) ==
  LET sign == IF t = Min(Updaters) THEN 1 ELSE -1
  IN  sign * (IF driver \in {"conc_push_l", "conc_push_r"} THEN N_TEST_ELEMS - i ELSE i + 1)

Pushers == IF driver \in DequePerf THEN {} ELSE Updaters
Poppers == CASE driver \in Melee -> Readers [] driver \in DequePerf -> {LoneReader} [] OTHER -> {}

-----------------------------------------------------------------------------
\* concurrent_ppush(), concurrent_push(): nothing stops a pusher before it has pushed all.
concurrent_ppush(t) ==
  \/ /\ goflag # "init" /\ loc[t].i < N_TEST_ELEMS
     /\ Goto(t, "loop", "loop")
     /\ Push(t, Datum(t, loc[t].i))
     /\ Advance(t, loc[t].i + 1)
     /\ UNCHANGED <<driver, goflag, nthreads_running, el, cbs, bug>>
  \/ loc[t].i = N_TEST_ELEMS /\ End(t, "loop")

\* Until nelem elements are popped or the test is stopped
concurrent_ppop(t) ==
  \/ /\ goflag = "run" /\ Len(loc[t].ptr) < nelem /\ store # <<>>
     /\ Goto(t, "loop", "loop")
     /\ loc' = [loc EXCEPT ![t].ptr = Append(@, Popped)]
     /\ Pop
     /\ UNCHANGED <<driver, goflag, nthreads_running, el, cbs, bug>>
  \/ /\ goflag = "stop" \/ (goflag = "run" /\ Len(loc[t].ptr) = nelem)
     /\ Jump(t, "loop", "done")

PusherStep(t) == driver \in DequeDrivers /\ t \in Pushers /\ (Announce(t) \/ concurrent_ppush(t))
PopperStep(t) == driver \in DequeDrivers /\ t \in Poppers /\ (Announce(t) \/ concurrent_ppop(t))

-----------------------------------------------------------------------------
\* CHECK_SEQUENCE_PAIR: the positive numbers in order, and the negative ones
Ordered(s) ==
  \A sign \in {1, -1} :
    LET mine == SelectSeq(s, LAMBDA x : sign * x > 0)
    IN  \A n \in 1 .. Len(mine) : mine[n] = sign * n

InPopOrder == IF PopsLeft THEN store ELSE Reverse(store)

RUN_ENQUEUE_PAIR == ParentGo(Updaters)

\* The pushers have ended: the parent itself pops all and checks.
CHECK_SEQUENCE_PAIR ==
  /\ Goto(Parent, "run", "done")
  /\ \A t \in Updaters : pc[t] = "done"
  /\ BUG_ON(Len(store) # nelem \/ ~ Ordered(InPopOrder), "CHECK_SEQUENCE_PAIR")
  /\ store' = <<>>
  /\ UNCHANGED <<driver, goflag, nthreads_running, loc, el, cbs>>

conc_enq_l == driver = "conc_enq_l" /\ (RUN_ENQUEUE_PAIR \/ CHECK_SEQUENCE_PAIR)
conc_enq_r == driver = "conc_enq_r" /\ (RUN_ENQUEUE_PAIR \/ CHECK_SEQUENCE_PAIR)
conc_push_l == driver = "conc_push_l" /\ (RUN_ENQUEUE_PAIR \/ CHECK_SEQUENCE_PAIR)
conc_push_r == driver = "conc_push_r" /\ (RUN_ENQUEUE_PAIR \/ CHECK_SEQUENCE_PAIR)
conc_push == driver = "conc_push" /\ (RUN_ENQUEUE_PAIR \/ CHECK_SEQUENCE_PAIR)

\* queuetorture.h: the two popped lists are merged, one step ahead in each at a time.
Merge(a, b) ==
  LET Fits(s, i, m) == i < Len(s) /\ s[i + 1] \in {m.pos + 1, m.neg - 1}
      Take(s, i, m) == [pos |-> IF s[i + 1] > 0 THEN m.pos + 1 ELSE m.pos,
                        neg |-> IF s[i + 1] > 0 THEN m.neg ELSE m.neg - 1]
      State[n \in 0 .. Len(a) + Len(b)] ==
        IF n = 0 THEN [i |-> 0, j |-> 0, m |-> [pos |-> 0, neg |-> 0], ok |-> TRUE]
        ELSE LET was == State[n - 1]
             IN  CASE was.i = Len(a) /\ was.j = Len(b) -> was
                   [] Fits(a, was.i, was.m) ->
                        [was EXCEPT !.i = @ + 1, !.m = Take(a, was.i, @)]
                   [] Fits(b, was.j, was.m) ->
                        [was EXCEPT !.j = @ + 1, !.m = Take(b, was.j, @)]
                   [] OTHER -> [was EXCEPT !.ok = FALSE]
  IN  State[Len(a) + Len(b)].ok

PoppedData == UNION {Range(loc[t].ptr) : t \in Readers}

\* Twice the same element, or one missing: the sleep() before the stop was too short.
Alarms(a, b) ==
  (IF Cardinality(PoppedData) < Len(a) + Len(b) THEN {"melee"} ELSE {})
    \union (IF Cardinality(PoppedData) < nelem THEN {"melee missing"} ELSE {})

MeleeEnd(alarms) ==
  /\ Goto(Parent, "join", "done")
  /\ \A t \in Threads : pc[t] = "done"
  /\ bug' = alarms
  /\ UNCHANGED <<driver, goflag, nthreads_running, loc, store, el, cbs>>

PoppedA == loc[Min(Readers)].ptr
PoppedB == loc[Max(Readers)].ptr

melee ==
  /\ driver = "deq_melee"
  /\ ParentGo(Threads) \/ ParentStop \/ MeleeEnd(Alarms(PoppedA, PoppedB))

queue_melee ==
  /\ driver = "queue_melee"
  /\ \/ ParentGo(Threads) \/ ParentStop
     \/ MeleeEnd(Alarms(PoppedA, PoppedB)
                 \union (IF Merge(PoppedA, PoppedB) THEN {} ELSE {"melee order"}))

\* The parent pushes a head start, lets the popper go, and pushes the rest.
PerfPushes ==
  LET i == loc[Parent].i
  IN  /\ nthreads_running = 1
      /\ \/ /\ i < N_PERF_HEADSTART \/ (goflag = "run" /\ i < N_PERF_MSGS)
            /\ Goto(Parent, "start", "start")
            /\ Push(Parent, i + 1)
            /\ Advance(Parent, i + 1)
            /\ UNCHANGED <<driver, goflag, nthreads_running, el, cbs, bug>>
         \/ /\ i = N_PERF_HEADSTART /\ goflag = "init"
            /\ goflag' = "run"
            /\ UNCHANGED <<driver, nthreads_running, pc, loc, store, el, cbs, bug>>
         \/ /\ i = N_PERF_MSGS /\ pc[LoneReader] = "done"
            /\ Jump(Parent, "start", "done")

pdeq_perf == driver = "pdeq_perf" /\ PerfPushes
deq_perf == driver = "deq_perf" /\ PerfPushes
queue_perf == driver = "queue_perf" /\ PerfPushes

DequeParentStep ==
  \/ conc_enq_l \/ conc_enq_r \/ conc_push_l \/ conc_push_r \/ conc_push
  \/ melee \/ queue_melee \/ pdeq_perf \/ deq_perf \/ queue_perf
=============================================================================
