----------------------------- MODULE HashResize -----------------------------
(***************************************************************************)
(* The resizable hash tables of CodeSamples/datastruct/hash: hash_resize.c *)
(* and hash_resize_s.c, in which an element that is added behind a resize  *)
(* goes to the new instance alone, so that a lookup that misses goes on to *)
(* the new instance.                                                       *)
(*                                                                         *)
(* Table instances (struct ht) are numbered in the order of their          *)
(* allocation; instance g links its elements through hte_next[g % 2].  An  *)
(* element is identified with its key, which is also its hash, so that     *)
(* link[e][i] need only say through which instance's bucket list           *)
(* hte_next[i] of e runs.  RCU is the one of liburcu: a grace period waits *)
(* for the read-side critical sections under way when it began.            *)
(***************************************************************************)
EXTENDS Integers, FiniteSets

CONSTANTS
  NR_THREADS,          \* threads that look up, add and delete
  Elems,               \* the elements, naturals
  Nbuckets0,           \* buckets of the even instances
  Nbuckets1,           \* buckets of the odd instances
  MaxResize,           \* bound: resize operations
  Shared               \* TRUE: a thread deletes what another one added

ASSUME HashResizeAssumption ==
  /\ NR_THREADS \in Nat \ {0} /\ Elems \subseteq Nat /\ MaxResize \in Nat
  /\ Nbuckets0 \in Nat \ {0} /\ Nbuckets1 \in Nat \ {0} /\ Shared \in BOOLEAN

Threads == 0 .. NR_THREADS - 1
Resizer == NR_THREADS
None == -1
Insts == 0 .. MaxResize

ht_nbuckets(g) == IF g % 2 = 0 THEN Nbuckets0 ELSE Nbuckets1

ht_get_bucket(g, e) == <<g, e % ht_nbuckets(g)>>

AllBuckets == UNION {{<<g, b>> : b \in 0 .. ht_nbuckets(g) - 1} : g \in Insts}

VARIABLES
  impl,                \* the table that runs: hash_resize.c or hash_resize_s.c
  ht_cur,              \* the current instance
  ht_new,              \* per instance: the instance it is resized to, or None
  ht_resize_cur,       \* per instance: the last bucket that has been moved
  freed,               \* the instances that have been freed
  link,                \* per element: the instances its two hte_next are linked in
  htb_lock,            \* per bucket: the holder, or None
  mem,                 \* per element: "free", "live", "changing" or "deferred"
  defer,               \* per element: whom its call_rcu() still waits for
  pc, op, el, htp, hbp,\* per thread: where it is, and its locals
  rcu,                 \* per thread: in a read-side critical section
  expect,              \* per thread: what its lookup must return: "in", "out", "any"
  rpc, ri, todo, rgp   \* the resizer: where, bucket, elements left, whom it waits for

tabvars == <<impl, ht_cur, ht_new, ht_resize_cur, freed>>
rvars == <<rpc, ri, todo, rgp>>
tvars == <<pc, op, el, htp, hbp, rcu, expect>>
vars == <<tabvars, link, htb_lock, mem, defer, tvars, rvars>>

Init ==
  /\ impl \in {"hash_resize", "hash_resize_s"}
  /\ ht_cur = 0
  /\ ht_new = [g \in Insts |-> None]
  /\ ht_resize_cur = [g \in Insts |-> -1]
  /\ freed = {}
  /\ link = [e \in Elems |-> [i \in {0, 1} |-> None]]
  /\ htb_lock = [b \in AllBuckets |-> None]
  /\ mem = [e \in Elems |-> "free"]
  /\ defer = [e \in Elems |-> {}]
  /\ pc = [t \in Threads |-> "idle"]
  /\ op = [t \in Threads |-> "none"]
  /\ el = [t \in Threads |-> None]
  /\ htp = [t \in Threads |-> None]
  /\ hbp = [t \in Threads |-> <<None, None>>]
  /\ rcu = [t \in Threads |-> FALSE]
  /\ expect = [t \in Threads |-> "any"]
  /\ rpc = "idle" /\ ri = 0 /\ todo = {} /\ rgp = {}

Goto(t, from, to) ==
  /\ pc[t] = from
  /\ pc' = [pc EXCEPT ![t] = to]

\* Mutant: no rcu_read_unlock().
LeaveInside(t) ==
  /\ op' = [op EXCEPT ![t] = "none"]
  /\ el' = [el EXCEPT ![t] = None]
  /\ htp' = [htp EXCEPT ![t] = None]
  /\ hbp' = [hbp EXCEPT ![t] = <<None, None>>]
  /\ expect' = [expect EXCEPT ![t] = "any"]
  /\ UNCHANGED <<rcu, rgp>>

\* rcu_read_unlock(), and what of the thread's call is left behind
Leave(t) ==
  /\ rcu' = [rcu EXCEPT ![t] = FALSE]
  /\ rgp' = rgp \ {t}
  /\ op' = [op EXCEPT ![t] = "none"]
  /\ el' = [el EXCEPT ![t] = None]
  /\ htp' = [htp EXCEPT ![t] = None]
  /\ hbp' = [hbp EXCEPT ![t] = <<None, None>>]
  /\ expect' = [expect EXCEPT ![t] = "any"]

\* ht_search_bucket()
InList(g, e) == link[e][g % 2] = g

\* What hashtab_lookup() of hash_resize_s.c finds behind instance g
InNew(g, e) == ht_new[g] # None /\ InList(ht_new[g], e)

-----------------------------------------------------------------------------
\* hashtab_lock_lookup(), and hashtab_lookup() up to rcu_dereference(ht_cur)
LookupDeref(t, e) ==
  /\ Goto(t, "idle", "search")
  /\ op' = [op EXCEPT ![t] = "lookup"]
  /\ el' = [el EXCEPT ![t] = e]
  /\ rcu' = [rcu EXCEPT ![t] = TRUE]
  /\ htp' = [htp EXCEPT ![t] = ht_cur]
  /\ expect' = [expect EXCEPT ![t] =
       CASE mem[e] = "live"     -> "in"
         [] mem[e] = "changing" -> "any"
         [] OTHER               -> "out"]
  /\ UNCHANGED <<tabvars, link, htb_lock, mem, defer, hbp, rvars>>

\* hashtab_lookup() has its answer: hashtab_unlock_lookup()
LookupReturn(t, from) ==
  /\ Goto(t, from, "idle")
  /\ Leave(t)
  /\ defer' = [e \in Elems |-> defer[e] \ {t}]
  /\ UNCHANGED <<tabvars, link, htb_lock, mem, rpc, ri, todo>>

\* hashtab_lookup() of hash_resize.c
Search(t) == LookupReturn(t, "search")

\* hashtab_lookup() of hash_resize_s.c: the current instance, then ht_new
SearchCur(t) ==
  /\ pc[t] = "search"
  /\ \/ InList(htp[t], el[t]) /\ LookupReturn(t, "search")
     \/ /\ ~ InList(htp[t], el[t])
        /\ Goto(t, "search", "again")
        /\ UNCHANGED <<tabvars, link, htb_lock, mem, defer, op, el, htp, hbp, rcu, expect, rvars>>

SearchNew(t) == LookupReturn(t, "again")

\* hashtab_lock_mod(): rcu_read_lock() and rcu_dereference(ht_cur)
ModCall(t, o, e) ==
  /\ o = "add" => mem[e] = "free"
  /\ Shared \/ e % NR_THREADS = t
  /\ Goto(t, "idle", "lock0")
  /\ op' = [op EXCEPT ![t] = o]
  /\ el' = [el EXCEPT ![t] = e]
  /\ rcu' = [rcu EXCEPT ![t] = TRUE]
  /\ htp' = [htp EXCEPT ![t] = ht_cur]
  /\ UNCHANGED <<tabvars, link, htb_lock, mem, defer, hbp, expect, rvars>>

\* spin_lock() of the current bucket; has it been moved already?
Lock0(t) ==
  LET b == ht_get_bucket(htp[t], el[t])
  IN  /\ pc[t] = "lock0"
      /\ htb_lock[b] = None
      /\ htb_lock' = [htb_lock EXCEPT ![b] = t]
      /\ hbp' = [hbp EXCEPT ![t] = <<htp[t], None>>]
      /\ Goto(t, "lock0", IF b[2] > ht_resize_cur[htp[t]] THEN "mod" ELSE "lock1")
      /\ UNCHANGED <<tabvars, link, mem, defer, op, el, htp, rcu, expect, rvars>>

\* spin_lock() of the bucket of the new instance, which hash_resize_s.c puts first
Lock1(t) ==
  LET g == ht_new[htp[t]]
      b == ht_get_bucket(g, el[t])
  IN  /\ Goto(t, "lock1", "mod")
      /\ htb_lock[b] = None
      /\ htb_lock' = [htb_lock EXCEPT ![b] = t]
      /\ hbp' = [hbp EXCEPT ![t] = IF impl = "hash_resize" THEN <<@[1], g>> ELSE <<g, @[1]>>]
      /\ UNCHANGED <<tabvars, link, mem, defer, op, el, htp, rcu, expect, rvars>>

\* The caller's hashtab_lookup() under the update-side lock, which reads ht_cur
\* again: add what is not there, delete what is; from here on nobody may rely on
\* the element being there or not
ModLookup(t) ==
  LET found  == InList(ht_cur, el[t]) \/ (impl = "hash_resize_s" /\ InNew(ht_cur, el[t]))
      adds   == op[t] = "add" /\ ~ found /\ mem[el[t]] = "free"
      deletes == op[t] = "del" /\ found
  IN  /\ pc[t] = "mod"
      /\ IF adds \/ deletes
           THEN /\ Goto(t, "mod", IF adds THEN "add0" ELSE "del0")
                /\ link' = IF adds THEN [link EXCEPT ![el[t]] = [i \in {0, 1} |-> None]] ELSE link
                /\ mem' = [mem EXCEPT ![el[t]] = "changing"]
                /\ expect' = [u \in Threads |-> IF el[u] = el[t] THEN "any" ELSE expect[u]]
           ELSE /\ Goto(t, "mod", "unlock")
                /\ UNCHANGED <<link, mem, expect>>
      /\ UNCHANGED <<tabvars, htb_lock, defer, op, el, htp, hbp, rcu, rvars>>

\* hashtab_add() and hashtab_del(): first the one bucket, then the other.  In
\* hash_resize_s.c an element is added to one bucket only, and hashtab_del()
\* passes over an hte_next whose prev is NULL.
Update(t, from, to, slot, g) ==
  /\ Goto(t, from, to)
  /\ link' = [link EXCEPT ![el[t]][slot] = g]
  /\ UNCHANGED <<tabvars, htb_lock, mem, defer, op, el, htp, hbp, rcu, expect, rvars>>

idx(t) == hbp[t][1] % 2

\* Mutant: hashtab_add() forgets the new instance.
Add0Only(t) == Update(t, "add0", "unlock", idx(t), hbp[t][1])

Add0(t) ==
  Update(t, "add0", IF hbp[t][2] = None \/ impl = "hash_resize_s" THEN "unlock" ELSE "add1", idx(t), hbp[t][1])
Add1(t) == Update(t, "add1", "unlock", 1 - idx(t), hbp[t][2])

Del0(t) == Update(t, "del0", IF hbp[t][2] = None THEN "unlock" ELSE "del1", idx(t), None)
Del1(t) == Update(t, "del1", "unlock", 1 - idx(t), None)

Held(t) == {b \in AllBuckets : htb_lock[b] = t}

\* hashtab_unlock_mod(), and after a deletion defer_del(), that is call_rcu()
Unlock(t) ==
  LET e == el[t]
      deleted == op[t] = "del" /\ mem[e] = "changing"
  IN  /\ Goto(t, "unlock", "idle")
      /\ htb_lock' = [b \in AllBuckets |-> IF b \in Held(t) THEN None ELSE htb_lock[b]]
      /\ mem' = [mem EXCEPT ![e] =
                   IF deleted THEN "deferred" ELSE IF @ = "changing" THEN "live" ELSE @]
      /\ defer' = [x \in Elems |->
                     IF x = e /\ deleted THEN {u \in Threads : rcu[u]} \ {t} ELSE defer[x] \ {t}]
      /\ Leave(t)
      /\ UNCHANGED <<tabvars, link, rpc, ri, todo>>

\* A call_rcu() callback runs: defer_del_rcu()
DeferDone(e) ==
  /\ mem[e] = "deferred" /\ defer[e] = {}
  /\ mem' = [mem EXCEPT ![e] = "free"]
  /\ UNCHANGED <<tabvars, link, htb_lock, defer, tvars, rvars>>

-----------------------------------------------------------------------------
\* hashtab_resize()

RGoto(from, to) == rpc = from /\ rpc' = to

\* spin_trylock(), ht_alloc(), publish ht_new and begin synchronize_rcu()
ResizeCall ==
  /\ RGoto("idle", "sync1")
  /\ ht_cur < MaxResize
  /\ ht_new' = [ht_new EXCEPT ![ht_cur] = ht_cur + 1]
  /\ rgp' = {t \in Threads : rcu[t]}
  /\ UNCHANGED <<impl, ht_cur, ht_resize_cur, freed, link, htb_lock, mem, defer, tvars, ri, todo>>

Sync1 ==
  /\ RGoto("sync1", "lock")
  /\ rgp = {}
  /\ ri' = 0
  /\ UNCHANGED <<tabvars, link, htb_lock, mem, defer, tvars, todo, rgp>>

\* spin_lock() of the next old bucket
ResizeLock ==
  /\ RGoto("lock", "move")
  /\ htb_lock[<<ht_cur, ri>>] = None
  /\ htb_lock' = [htb_lock EXCEPT ![<<ht_cur, ri>>] = Resizer]
  /\ todo' = {e \in Elems : InList(ht_cur, e) /\ ht_get_bucket(ht_cur, e)[2] = ri}
  /\ UNCHANGED <<tabvars, link, mem, defer, tvars, ri, rgp>>

\* link one of its elements into the new instance, under the new bucket's lock
ResizeMove ==
  LET g == ht_cur + 1
  IN  /\ RGoto("move", "move")
      /\ \E e \in todo :
           /\ htb_lock[ht_get_bucket(g, e)] = None
           /\ link' = [link EXCEPT ![e][g % 2] = g]
           /\ todo' = todo \ {e}
      /\ UNCHANGED <<tabvars, htb_lock, mem, defer, tvars, ri, rgp>>

\* Mutant: the bucket is released before ht_resize_cur is set for it.
ResizeNextLate ==
  /\ rpc = "move" /\ todo = {}
  /\ htb_lock' = [htb_lock EXCEPT ![<<ht_cur, ri>>] = None]
  /\ ht_resize_cur' = [ht_resize_cur EXCEPT ![ht_cur] = ri - 1]
  /\ IF ri + 1 < ht_nbuckets(ht_cur)
       THEN rpc' = "lock" /\ ri' = ri + 1
       ELSE rpc' = "switch" /\ ri' = 0
  /\ UNCHANGED <<impl, ht_cur, ht_new, freed, link, mem, defer, tvars, todo, rgp>>

\* WRITE_ONCE(htp->ht_resize_cur, i), release the bucket, go on to the next
ResizeNext ==
  /\ rpc = "move" /\ todo = {}
  /\ htb_lock' = [htb_lock EXCEPT ![<<ht_cur, ri>>] = None]
  /\ ht_resize_cur' = [ht_resize_cur EXCEPT ![ht_cur] = ri]
  /\ IF ri + 1 < ht_nbuckets(ht_cur)
       THEN rpc' = "lock" /\ ri' = ri + 1
       ELSE rpc' = "switch" /\ ri' = 0
  /\ UNCHANGED <<impl, ht_cur, ht_new, freed, link, mem, defer, tvars, todo, rgp>>

\* rcu_assign_pointer(htp_master->ht_cur, htp_new) and begin synchronize_rcu()
Switch ==
  /\ RGoto("switch", "sync2")
  /\ ht_cur' = ht_cur + 1
  /\ rgp' = {t \in Threads : rcu[t]}
  /\ UNCHANGED <<impl, ht_new, ht_resize_cur, freed, link, htb_lock, mem, defer, tvars, ri, todo>>

\* Mutant: the second grace period is not waited for.
FreeAtOnce ==
  /\ RGoto("sync2", "idle")
  /\ freed' = freed \union {ht_cur - 1}
  /\ UNCHANGED <<impl, ht_cur, ht_new, ht_resize_cur, link, htb_lock, mem, defer, tvars, ri, todo, rgp>>

\* synchronize_rcu() returns: free the old instance
Sync2 ==
  /\ RGoto("sync2", "idle")
  /\ rgp = {}
  /\ freed' = freed \union {ht_cur - 1}
  /\ UNCHANGED <<impl, ht_cur, ht_new, ht_resize_cur, link, htb_lock, mem, defer, tvars, ri, todo, rgp>>

-----------------------------------------------------------------------------
Updates(t) ==
  \/ Lock0(t) \/ Lock1(t) \/ ModLookup(t)
  \/ Add0(t) \/ Add1(t) \/ Del0(t) \/ Del1(t) \/ Unlock(t)

Resizes == ResizeCall \/ Sync1 \/ ResizeLock \/ ResizeMove \/ ResizeNext \/ Switch \/ Sync2

\* The operations of the two programs
hash_resize(t) == impl = "hash_resize" /\ (Search(t) \/ Updates(t))
hash_resize_s(t) == impl = "hash_resize_s" /\ (SearchCur(t) \/ SearchNew(t) \/ Updates(t))

hashtab_resize == impl = "hash_resize" /\ Resizes
hashtab_resize_s == impl = "hash_resize_s" /\ Resizes

ThreadStep(t) == hash_resize(t) \/ hash_resize_s(t)

ResizeStep == rpc # "idle" /\ (hashtab_resize \/ hashtab_resize_s)

Next ==
  \/ \E t \in Threads :
       \/ ThreadStep(t)
       \/ \E e \in Elems : LookupDeref(t, e) \/ ModCall(t, "add", e) \/ ModCall(t, "del", e)
  \/ \E e \in Elems : DeferDone(e)
  \/ hashtab_resize
  \/ hashtab_resize_s

Spec == Init /\ [][Next]_vars

\* Threads finish their calls and a bucket lock is granted to who keeps asking.
FairSpec ==
  /\ Spec
  /\ \A t \in Threads : SF_vars(ThreadStep(t))
  /\ SF_vars(ResizeStep)

-----------------------------------------------------------------------------
\* A lookup of an element that was there from before it began until it ended
\* finds it, and one of an element that was not there does not, whichever
\* instance the thread read from ht_cur and however far a resize has come: in
\* hash_resize.c by that instance alone, in hash_resize_s.c by it or, when it
\* has nothing, by the one it is being resized to.
LookupCorrect ==
  \A t \in Threads :
    /\ pc[t] = "search" =>
         /\ expect[t] = "in" /\ impl = "hash_resize" => InList(htp[t], el[t])
         /\ expect[t] = "out" => ~ InList(htp[t], el[t])
    /\ pc[t] = "again" =>
         /\ expect[t] = "in" => InNew(htp[t], el[t])
         /\ expect[t] = "out" => ~ InNew(htp[t], el[t])

\* A thread never uses an instance that resizing has freed, and the bucket
\* lists of the instance it uses hold no freed element and none that has been
\* linked into a later instance through the same hte_next.  And hashtab_del()
\* unlinks the element from the very bucket lists it holds the locks of:
\* cds_list_del_rcu() of an hte_next that is not on such a list corrupts memory.
\* "Remove the specified element from the hash table.  Caller must have acquired
\* the update-side lock via hashtab_lock_mod()."  In hash_resize_s.c an hte_next
\* may also be on no list, but then its prev is NULL.
InstanceIntact ==
  LET Linked(g, e) == InList(g, e) \/ (impl = "hash_resize_s" /\ link[e][g % 2] = None)
  IN  \A t \in Threads :
        /\ htp[t] # None =>
             /\ htp[t] \notin freed
             /\ \A e \in Elems :
                  /\ InList(htp[t], e) => mem[e] # "free"
                  /\ link[e][htp[t] % 2] <= htp[t]
        /\ pc[t] = "del0" => Linked(hbp[t][1], el[t])
        /\ pc[t] \in {"del0", "del1"} /\ hbp[t][2] # None => Linked(hbp[t][2], el[t])

\* Every hashtab_resize() ends: neither its two grace periods nor the bucket
\* locks, of which it and the updaters hold two at a time, block it for ever.
ResizeEnds == [](rpc # "idle" => <>(rpc = "idle"))
=============================================================================
