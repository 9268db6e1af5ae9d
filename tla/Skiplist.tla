------------------------------ MODULE Skiplist ------------------------------
(***************************************************************************)
(* The skip lists of CodeSamples/datastruct/skiplist: skiplist.h, and what *)
(* skiplist.c and skiplist_glock.c have in common.  Lookups and iterators  *)
(* run in RCU read-side critical sections without locks; the caller hands  *)
(* a deleted element to call_rcu(), as skiplisttorture.h does, and RCU is  *)
(* the one of liburcu.                                                     *)
(*                                                                         *)
(* A step is one access to memory that others may change: a load of a next *)
(* pointer with the comparison after it, a lock with the tests under it, a *)
(* store of a next pointer.                                                *)
(***************************************************************************)
EXTENDS Integers, FiniteSets

CONSTANTS
  Threads,             \* the threads, naturals
  Nodes,               \* the memory the elements live in
  Keys,
  SL_MAX_LEVELS,
  HEAD, NULL,
  OneOwner,            \* TRUE: in skiplist.c, a key is inserted and deleted by one thread only
  Lowering,            \* TRUE: skiplist_balance_node() is asked for lower levels, too
  MaxSeq               \* bound: sl_seq of skiplist_glock.c

VARIABLES
  impl,                \* "skiplist" or "skiplist_glock"
  Readers,             \* the threads that look up and iterate; the others insert and delete
  sl_next,             \* per node and level
  sl_toplevel, sl_deleted, sl_lock,
  sl_seq,              \* of the header
  skey,                \* per node: its key; the header's compares below all
  mem,                 \* per node: "free", "live", or "waiting" for a grace period
  waits,               \* per node that waits: the sections it waits for
  iter,                \* per thread: struct skiplist_iter, [hintp, iter_seq]
  pc, reg,             \* per thread
  ever, steady         \* per thread: the keys present at some time, and at all times, of its call

Updaters == Threads \ Readers
Levels == 0 .. SL_MAX_LEVELS - 1
AllNodes == Nodes \union {HEAD}

listvars == <<sl_next, sl_toplevel, sl_deleted, sl_lock, sl_seq, skey, mem>>
vars == <<impl, Readers, listvars, waits, iter, pc, reg, ever, steady>>

NoHint == [hintp |-> NULL, iter_seq |-> 0]
NoUpdate == [l \in Levels |-> NULL]

Registers ==
  [op |-> "none", key |-> 0, slp |-> HEAD, lvl |-> SL_MAX_LEVELS - 1, cur |-> NULL, last |-> NULL,
   ret |-> NULL, update |-> NoUpdate, top |-> 0, new |-> NULL, hint |-> FALSE]

skiplist_init ==
  /\ sl_next = [n \in AllNodes |-> NoUpdate]
  /\ sl_toplevel = [n \in AllNodes |-> SL_MAX_LEVELS - 1]
  /\ sl_deleted = [n \in AllNodes |-> FALSE]
  /\ sl_lock = [n \in AllNodes |-> NULL]
  /\ sl_seq = 0
  /\ skey = [n \in AllNodes |-> 0]
  /\ mem = [n \in Nodes |-> "free"]
  /\ waits = [n \in Nodes |-> {}]
  /\ iter = [t \in Threads |-> NoHint]
  /\ pc = [t \in Threads |-> "idle"]
  /\ reg = [t \in Threads |-> Registers]
  /\ ever = [t \in Threads |-> {}]
  /\ steady = [t \in Threads |-> {}]

Goto(t, from, to) ==
  /\ pc[t] = from
  /\ pc' = [pc EXCEPT ![t] = to]

Set(t, r) == reg' = [reg EXCEPT ![t] = r]

sl_cmp(n, k) == skey[n] - k

Release(S) == sl_lock' = [n \in AllNodes |-> IF n \in S THEN NULL ELSE sl_lock[n]]

\* update[i] = NULL below a level
Cleared(update, l) == [i \in Levels |-> IF i < l THEN NULL ELSE update[i]]

\* The elements in order, along a level, from a node on
ChainFrom(n, l) ==
  LET c[i \in 0 .. Cardinality(Nodes) + 1] ==
        IF i = 0 THEN n ELSE IF c[i - 1] = NULL THEN NULL ELSE sl_next[c[i - 1]][l]
  IN  c

Linked == LET c == ChainFrom(HEAD, 0) IN {c[i] : i \in DOMAIN c} \ {HEAD, NULL}

Present == {skey[n] : n \in {m \in Linked : ~ sl_deleted[m]}}

-----------------------------------------------------------------------------
\* RCU

Inside(t) == pc[t] # "idle" /\ (t \in Readers \/ impl = "skiplist")

\* rcu_read_unlock()
LeaveSection(t) == waits' = [n \in Nodes |-> waits[n] \ {t}]

\* defer_del(): call_rcu()
defer_del(t, n) ==
  /\ mem' = [mem EXCEPT ![n] = "waiting"]
  /\ waits' = [m \in Nodes |-> IF m = n THEN {u \in Threads \ {t} : Inside(u)} ELSE waits[m] \ {t}]

\* What freed memory holds is not modelled.
Blank(n) ==
  /\ sl_next' = [sl_next EXCEPT ![n] = NoUpdate]
  /\ sl_toplevel' = [sl_toplevel EXCEPT ![n] = SL_MAX_LEVELS - 1]
  /\ sl_deleted' = [sl_deleted EXCEPT ![n] = FALSE]
  /\ skey' = [skey EXCEPT ![n] = 0]
  /\ mem' = [mem EXCEPT ![n] = "free"]

GracePeriodEnds(n) ==
  /\ mem[n] = "waiting" /\ waits[n] = {}
  /\ Blank(n)
  /\ UNCHANGED <<impl, Readers, sl_lock, sl_seq, waits, iter, pc, reg>>

-----------------------------------------------------------------------------
\* The walks of lookups and iterators, from the top level down

\* How far a walk goes along a level: skiplist_valiter_last(), skiplist_valiter_next(), and
\* skiplist_lookup_help()
Further(r, n) ==
  n # NULL /\ CASE r.op = "last" -> TRUE
                [] r.op = "next" -> sl_cmp(n, r.key) <= 0
                [] OTHER         -> sl_cmp(n, r.key) < 0

\* Reading changes nothing but what the thread knows.
Reads == UNCHANGED <<impl, Readers, listvars, waits>>

\* rcu_read_lock() and the call; the list is entered at the header's sl_toplevel
ReadCall(t, o, k) ==
  /\ Goto(t, "idle", "walk")
  /\ Set(t, [Registers EXCEPT !.op = o, !.key = k])
  /\ Reads /\ UNCHANGED iter

\* rcu_dereference(slp->sl_next[level])
skiplist_lookup_help(t) ==
  LET r == reg[t]
      n == sl_next[r.slp][r.lvl]
  IN  /\ pc[t] = "walk"
      /\ \/ /\ Further(r, n)
            /\ Set(t, [r EXCEPT !.slp = n])
            /\ UNCHANGED pc
         \/ /\ ~ Further(r, n)
            /\ Set(t, [r EXCEPT !.lvl = IF @ = 0 THEN 0 ELSE @ - 1])
            /\ pc' = [pc EXCEPT ![t] = IF r.lvl > 0 THEN "walk" ELSE r.op]
      /\ Reads /\ UNCHANGED iter

\* The answer, and the hint of a ptriter
Answer(t, n) ==
  /\ pc' = [pc EXCEPT ![t] = "return"]
  /\ Set(t, [reg[t] EXCEPT !.ret = n])
  /\ iter' = IF reg[t].hint THEN [iter EXCEPT ![t].hintp = n] ELSE iter

\* skiplist_valiter_first()
skiplist_valiter_first(t) ==
  /\ pc[t] = "idle"
  /\ pc' = [pc EXCEPT ![t] = "return"]
  /\ Set(t, [Registers EXCEPT !.op = "next", !.ret = sl_next[HEAD][0]])
  /\ Reads /\ UNCHANGED iter

skiplist_valiter_last(t) ==
  /\ pc[t] = "last"
  /\ Answer(t, IF reg[t].slp = HEAD THEN NULL ELSE reg[t].slp)
  /\ Reads

\* "Find the desired next element.  Insertions can happen!"
skiplist_valiter_next(t) ==
  LET r == reg[t]
      n == sl_next[r.slp][0]
  IN  /\ pc[t] = "next"
      /\ \/ Further(r, n) /\ Set(t, [r EXCEPT !.slp = n]) /\ UNCHANGED <<pc, iter>>
         \/ ~ Further(r, n) /\ Answer(t, n)
      /\ Reads

skiplist_valiter_prev(t) ==
  /\ pc[t] = "prev"
  /\ Answer(t, IF reg[t].slp = HEAD THEN NULL ELSE reg[t].slp)
  /\ Reads

\* skiplist_lookup_relaxed(): the element is there, is not deleted and has the key
LookupCheck(t) ==
  LET n == reg[t].cur
  IN  /\ pc[t] = "check"
      /\ Answer(t, IF n # HEAD /\ n # NULL /\ ~ sl_deleted[n] /\ sl_cmp(n, reg[t].key) = 0 THEN n ELSE NULL)
      /\ Reads

\* The caller is done with the answer: rcu_read_unlock()
ReadReturn(t) ==
  /\ Goto(t, "return", "idle")
  /\ Set(t, Registers)
  /\ iter' = [iter EXCEPT ![t] = NoHint]
  /\ LeaveSection(t)
  /\ UNCHANGED <<impl, Readers, listvars>>

\* What the callers of skiplist_lookup_lock() do with the element before they unlock it
LockedReturn(t, n) ==
  /\ Goto(t, "held", "return")
  /\ Release({n})
  /\ UNCHANGED <<impl, Readers, sl_next, sl_toplevel, sl_deleted, sl_seq, skey, mem, waits, iter, reg>>

Read(t) ==
  \/ skiplist_valiter_first(t)
  \/ \E o \in {"lookup", "lookup_lock", "next", "prev"} : \E k \in Keys : ReadCall(t, o, k)
  \/ ReadCall(t, "last", 0)
  \/ skiplist_lookup_help(t) \/ skiplist_valiter_last(t) \/ skiplist_valiter_next(t)
  \/ skiplist_valiter_prev(t) \/ LookupCheck(t) \/ ReadReturn(t)

-----------------------------------------------------------------------------
\* The new element, or one that is raised, is linked on a level behind update[level].
LinkLevel(t, last, done) ==
  LET r == reg[t]
      prev == r.update[r.lvl]
  IN  /\ sl_next' = [sl_next EXCEPT ![r.new][r.lvl] = sl_next[prev][r.lvl], ![prev][r.lvl] = r.new]
      /\ Set(t, [r EXCEPT !.lvl = @ + 1])
      /\ pc' = [pc EXCEPT ![t] = IF r.lvl = last THEN done ELSE @]
      /\ UNCHANGED <<impl, Readers, sl_toplevel, sl_deleted, sl_lock, sl_seq, skey, mem, waits, iter>>

\* A node is unlinked from a level that it has been found on.
UnlinkLevel(t, done) ==
  LET r == reg[t]
      prev == r.update[r.lvl]
  IN  /\ IF prev = NULL THEN UNCHANGED sl_next
         ELSE sl_next' = [sl_next EXCEPT ![prev][r.lvl] = sl_next[r.cur][r.lvl]]
      /\ Set(t, [r EXCEPT !.lvl = IF @ = 0 THEN 0 ELSE @ - 1])
      /\ pc' = [pc EXCEPT ![t] = IF r.lvl = 0 THEN done ELSE @]
      /\ UNCHANGED <<impl, Readers, sl_toplevel, sl_deleted, sl_lock, sl_seq, skey, mem, waits, iter>>

-----------------------------------------------------------------------------
\* skiplist_fsck_one(): every level leads to an element further down the lowest one, in order,
\* that is tall enough; above its top level an element has no links.
skiplist_fsck_one(n) ==
  LET c == ChainFrom(n, 0)
      Position(x) == {i \in DOMAIN c \ {0} : c[i] = x}
  IN  \A l \in Levels \ {0} :
        LET x == sl_next[n][l]
        IN  /\ l <= sl_toplevel[n] => /\ \E i \in Position(x), j \in Position(sl_next[n][l - 1]) : j <= i
                                      /\ x # NULL => sl_toplevel[x] >= l
            /\ l > sl_toplevel[n] => x = NULL

skiplist_fsck == \A n \in Linked \union {HEAD} : skiplist_fsck_one(n)

-----------------------------------------------------------------------------
(***************************************************************************)
(* CodeSamples/datastruct/skiplist/skiplist.c: updates lock the elements   *)
(* in front of the place of the change, from the top level down, that is   *)
(* in the order of their keys, and start over when a test under a lock     *)
(* shows that the search has been overtaken.                               *)
(***************************************************************************)

LocksMine == impl = "skiplist"

locks_skiplist_lock(t, n) == sl_lock[n] = NULL /\ sl_lock' = [sl_lock EXCEPT ![n] = t]

\* skiplist_unlock_update()
UpdateLocks(update, top) == {update[l] : l \in 0 .. top} \ {NULL}

May(t, k) == OneOwner => t = CHOOSE u \in Updaters : Cardinality({v \in Updaters : v < u}) = k % Cardinality(Updaters)

LocksKeepsList == UNCHANGED <<impl, Readers, sl_next, sl_toplevel, sl_deleted, sl_seq, skey, mem, iter>>

-----------------------------------------------------------------------------
\* skiplist_lookup_relaxed(): the pointer to the element is loaded once more.
LocksLookupFinal(t) ==
  /\ LocksMine /\ Goto(t, "lookup", "check")
  /\ Set(t, [reg[t] EXCEPT !.cur = sl_next[reg[t].slp][0]])
  /\ Reads /\ UNCHANGED iter

\* Mutant: the predecessor is unlocked before the element is locked.
UnlocksPredecessor(t) ==
  LET r == reg[t]
      cur == sl_next[r.slp][0]
      gone == cur = NULL \/ (cur # NULL /\ sl_deleted[cur])
      retry == sl_deleted[r.slp] \/ (~ gone /\ sl_cmp(cur, r.key) < 0)
      miss == ~ retry /\ (gone \/ sl_cmp(cur, r.key) # 0)
  IN  /\ LocksMine /\ pc[t] = "lookup_lock" /\ sl_lock[r.slp] = NULL
      /\ pc' = [pc EXCEPT ![t] = IF retry THEN "walk" ELSE IF miss THEN "return" ELSE "lock_cur"]
      /\ Set(t, IF retry THEN [Registers EXCEPT !.op = r.op, !.key = r.key] ELSE [r EXCEPT !.cur = IF miss THEN NULL ELSE cur])
      /\ LocksKeepsList /\ UNCHANGED <<sl_lock, waits>>

\* skiplist_lookup_lock_prev(): lock the predecessor; start over when it has been deleted or is
\* not the predecessor any more, give up when the key is not there.
skiplist_lookup_lock_prev(t) ==
  LET r == reg[t]
      cur == sl_next[r.slp][0]
      gone == cur = NULL \/ (cur # NULL /\ sl_deleted[cur])
      retry == sl_deleted[r.slp] \/ (~ gone /\ sl_cmp(cur, r.key) < 0)
      miss == ~ retry /\ (gone \/ sl_cmp(cur, r.key) # 0)
  IN  /\ LocksMine /\ pc[t] = "lookup_lock" /\ sl_lock[r.slp] = NULL
      /\ pc' = [pc EXCEPT ![t] = IF retry THEN "walk" ELSE IF miss THEN "return" ELSE "lock_cur"]
      /\ Set(t, IF retry THEN [Registers EXCEPT !.op = r.op, !.key = r.key] ELSE [r EXCEPT !.cur = IF miss THEN NULL ELSE cur])
      /\ sl_lock' = IF retry \/ miss THEN sl_lock ELSE [sl_lock EXCEPT ![r.slp] = t]
      /\ LocksKeepsList /\ UNCHANGED waits

\* skiplist_lookup_lock(): lock the element, unlock the predecessor.
locks_skiplist_lookup_lock(t) ==
  LET r == reg[t]
  IN  /\ LocksMine /\ Goto(t, "lock_cur", "held")
      /\ sl_lock[r.cur] = NULL
      /\ sl_lock' = [sl_lock EXCEPT ![r.cur] = t, ![r.slp] = NULL]
      /\ Set(t, [r EXCEPT !.ret = r.cur])
      /\ LocksKeepsList /\ UNCHANGED waits

LocksUnlock(t) == LocksMine /\ pc[t] = "held" /\ LockedReturn(t, reg[t].cur)

-----------------------------------------------------------------------------
\* skiplist_delete()

\* retry:
Again(r) == [Registers EXCEPT !.op = r.op, !.key = r.key, !.top = r.top, !.new = r.new]

DeleteCall(t, k) ==
  /\ LocksMine /\ May(t, k) /\ Goto(t, "idle", "d_walk")
  /\ Set(t, [Registers EXCEPT !.op = "delete", !.key = k])
  /\ Reads /\ UNCHANGED iter

\* On to the next level down, or to what follows the loop
Down(t, r, loop, after) ==
  /\ Set(t, [r EXCEPT !.lvl = IF @ = 0 THEN 0 ELSE @ - 1])
  /\ pc' = [pc EXCEPT ![t] = IF r.lvl > 0 THEN loop ELSE after]

DeleteWalk(t) ==
  LET r == reg[t]
      cur == sl_next[r.slp][r.lvl]
      hit == cur # NULL /\ (cur # NULL => sl_cmp(cur, r.key) = 0)
      s == [r EXCEPT !.cur = cur]
  IN  /\ pc[t] = "d_walk"
      /\ \/ Further(r, cur) /\ Set(t, [r EXCEPT !.slp = cur]) /\ UNCHANGED pc
         \/ ~ Further(r, cur) /\ ~ hit /\ Down(t, [s EXCEPT !.update[r.lvl] = NULL], "d_walk", "d_check")
         \/ hit /\ r.slp = r.last /\ Down(t, [s EXCEPT !.update[r.lvl] = r.slp], "d_walk", "d_check")
         \/ hit /\ r.slp # r.last /\ Set(t, s) /\ Goto(t, "d_walk", "d_lock")
      /\ Reads /\ UNCHANGED iter

\* Back to the beginning without the locks, in a new read-side critical section
DeleteRetry(t, r, held) ==
  /\ pc' = [pc EXCEPT ![t] = "d_walk"]
  /\ Set(t, Again(r))
  /\ Release(held)
  /\ LeaveSection(t)

\* The predecessor has changed, or the element has been linked a level higher since.
Overtaken(n, l, cur) ==
  \/ cur # sl_next[n][l]
  \/ l < sl_toplevel[n] /\ sl_next[n][l] = sl_next[n][l + 1]

DeleteLock(t) ==
  LET r == reg[t]
      update == Cleared([r.update EXCEPT ![r.lvl] = r.slp], r.lvl)
  IN  /\ pc[t] = "d_lock" /\ sl_lock[r.slp] = NULL
      /\ \/ /\ Overtaken(r.slp, r.lvl, r.cur)
            /\ DeleteRetry(t, r, UpdateLocks(update, sl_toplevel[r.cur]))
         \/ /\ ~ Overtaken(r.slp, r.lvl, r.cur)
            /\ locks_skiplist_lock(t, r.slp)
            /\ Down(t, [r EXCEPT !.update[r.lvl] = r.slp, !.last = r.slp], "d_walk", "d_check")
            /\ UNCHANGED waits
      /\ LocksKeepsList

\* No such key; or one of the predecessors is not one any more; or go ahead
DeleteCheck(t) ==
  LET r == reg[t]
      miss == r.cur = NULL \/ (r.cur # NULL /\ sl_cmp(r.cur, r.key) # 0)
      stale == \E l \in 0 .. sl_toplevel[r.cur] :
                 r.update[l] # NULL /\ (sl_deleted[r.update[l]] \/ sl_next[r.update[l]][l] # r.cur)
  IN  /\ pc[t] = "d_check"
      /\ \/ /\ miss
            /\ Goto(t, "d_check", "idle")
            /\ Set(t, Registers)
            /\ Release(UpdateLocks(r.update, SL_MAX_LEVELS - 1))
            /\ LeaveSection(t)
         \/ ~ miss /\ stale /\ DeleteRetry(t, r, UpdateLocks(r.update, sl_toplevel[r.cur]))
         \/ /\ ~ miss /\ ~ stale
            /\ Goto(t, "d_check", "d_lock_cur")
            /\ UNCHANGED <<sl_lock, reg, waits>>
      /\ LocksKeepsList

DeleteLockCur(t) ==
  LET cur == reg[t].cur
  IN  /\ Goto(t, "d_lock_cur", "d_unlink")
      /\ locks_skiplist_lock(t, cur)
      /\ Set(t, [reg[t] EXCEPT !.lvl = sl_toplevel[cur]])
      /\ LocksKeepsList /\ UNCHANGED waits

\* Unlink, level by level
LocksDeleteUnlink(t) == LocksMine /\ pc[t] = "d_unlink" /\ UnlinkLevel(t, "d_mark")

\* Mark as deleted, unlock, return; the caller defers the freeing.
LocksDeleteMark(t) ==
  LET r == reg[t]
  IN  /\ LocksMine /\ Goto(t, "d_mark", "idle")
      /\ sl_deleted' = [sl_deleted EXCEPT ![r.cur] = TRUE]
      /\ Release(UpdateLocks(r.update, sl_toplevel[r.cur]) \union {r.cur})
      /\ defer_del(t, r.cur)
      /\ Set(t, Registers)
      /\ UNCHANGED <<impl, Readers, sl_next, sl_toplevel, sl_seq, skey, iter>>

-----------------------------------------------------------------------------
\* skiplist_insert()

\* random_level(), into memory from malloc()
InsertCall(t, n, k) ==
  /\ LocksMine /\ May(t, k) /\ Goto(t, "idle", "i_walk")
  /\ mem[n] = "free"
  /\ mem' = [mem EXCEPT ![n] = "live"]
  /\ skey' = [skey EXCEPT ![n] = k]
  /\ \E top \in Levels : Set(t, [Registers EXCEPT !.op = "insert", !.key = k, !.top = top, !.new = n])
  /\ UNCHANGED <<impl, Readers, sl_next, sl_toplevel, sl_deleted, sl_lock, sl_seq, waits, iter>>

\* skiplist_insert_lock()
InsertWalk(t) ==
  LET r == reg[t]
      n == sl_next[r.slp][r.lvl]
      s == [r EXCEPT !.cur = n]
      held == r.lvl < r.top /\ r.slp = r.update[r.lvl + 1]
  IN  /\ pc[t] = "i_walk"
      /\ \/ Further(r, n) /\ Set(t, [r EXCEPT !.slp = n]) /\ UNCHANGED pc
         \/ /\ ~ Further(r, n) /\ r.lvl > r.top
            /\ Down(t, [s EXCEPT !.update[r.lvl] = NULL], "i_walk", "i_check")
         \/ /\ ~ Further(r, n) /\ r.lvl <= r.top /\ held
            /\ Down(t, [s EXCEPT !.update[r.lvl] = r.slp], "i_walk", "i_check")
         \/ /\ ~ Further(r, n) /\ r.lvl <= r.top /\ ~ held
            /\ Set(t, s) /\ Goto(t, "i_walk", "i_lock")
      /\ Reads /\ UNCHANGED iter

InsertRetry(t, r, held) ==
  /\ pc' = [pc EXCEPT ![t] = "i_walk"]
  /\ Set(t, Again(r))
  /\ Release(held)

InsertLock(t) ==
  LET r == reg[t]
      update == Cleared([r.update EXCEPT ![r.lvl] = r.slp], r.lvl)
      overtaken == \/ r.cur # sl_next[r.slp][r.lvl]
                   \/ r.lvl < r.top /\ Overtaken(r.slp, r.lvl, r.cur)
  IN  /\ pc[t] = "i_lock" /\ sl_lock[r.slp] = NULL
      /\ \/ overtaken /\ InsertRetry(t, r, UpdateLocks(update, r.top))
         \/ /\ ~ overtaken
            /\ locks_skiplist_lock(t, r.slp)
            /\ Down(t, [r EXCEPT !.update[r.lvl] = r.slp], "i_walk", "i_check")
      /\ LocksKeepsList /\ UNCHANGED waits

\* A predecessor that has been deleted or is none any more; -EEXIST; or the new element is
\* initialized, and locked before anybody can see it.
InsertCheck(t) ==
  LET r == reg[t]
      held == UpdateLocks(r.update, r.top)
      Before(n) == n # NULL /\ (n # NULL => sl_cmp(n, r.key) < 0)
      stale == \E l \in 0 .. r.top : sl_deleted[r.update[l]] \/ Before(sl_next[r.update[l]][l])
      n == sl_next[r.update[0]][0]
      free == n = NULL \/ (n # NULL /\ sl_cmp(n, r.key) > 0)
  IN  /\ pc[t] = "i_check"
      /\ \/ /\ stale
            /\ InsertRetry(t, r, held)
            /\ LocksKeepsList /\ UNCHANGED waits
         \/ /\ ~ stale /\ ~ free
            /\ Goto(t, "i_check", "idle")
            /\ Blank(r.new)
            /\ Release(held)
            /\ LeaveSection(t)
            /\ Set(t, Registers)
            /\ UNCHANGED <<impl, Readers, sl_seq, iter>>
         \/ /\ ~ stale /\ free
            /\ Goto(t, "i_check", "i_link")
            /\ sl_toplevel' = [sl_toplevel EXCEPT ![r.new] = r.top]
            /\ sl_deleted' = [sl_deleted EXCEPT ![r.new] = FALSE]
            /\ sl_lock' = [sl_lock EXCEPT ![r.new] = t]
            /\ sl_next' = [sl_next EXCEPT ![r.new] = [l \in Levels |-> IF l > r.top THEN NULL ELSE @[l]]]
            /\ Set(t, [r EXCEPT !.lvl = 0])
            /\ UNCHANGED <<impl, Readers, sl_seq, skey, mem, waits, iter>>

\* Link, from the lowest level up
LocksInsertLink(t) == LocksMine /\ pc[t] = "i_link" /\ LinkLevel(t, reg[t].top, "i_unlock")

LocksInsertUnlock(t) ==
  LET r == reg[t]
  IN  /\ LocksMine /\ Goto(t, "i_unlock", "idle")
      /\ Release(UpdateLocks(r.update, r.top) \union {r.new})
      /\ LeaveSection(t)
      /\ Set(t, Registers)
      /\ LocksKeepsList

LocksStep(t) ==
  \/ t \in Readers /\ (LocksLookupFinal(t) \/ skiplist_lookup_lock_prev(t) \/ locks_skiplist_lookup_lock(t) \/ LocksUnlock(t))
  \/ /\ t \in Updaters
     /\ \/ \E k \in Keys : DeleteCall(t, k) \/ \E n \in Nodes : InsertCall(t, n, k)
        \/ DeleteWalk(t) \/ DeleteLock(t) \/ DeleteCheck(t) \/ DeleteLockCur(t) \/ LocksDeleteUnlink(t) \/ LocksDeleteMark(t)
        \/ InsertWalk(t) \/ InsertLock(t) \/ InsertCheck(t) \/ LocksInsertLink(t) \/ LocksInsertUnlock(t)

-----------------------------------------------------------------------------
(***************************************************************************)
(* CodeSamples/datastruct/skiplist/skiplist_glock.c: updates hold the lock *)
(* of the header, so that their search is one step, while readers watch    *)
(* every store.  Deletions, and only they, make sl_seq odd for a while;    *)
(* the pointer iterators trust their hint while it has not changed.        *)
(***************************************************************************)

GlockMine == impl = "skiplist_glock"

glock_skiplist_lock(t) == sl_lock[HEAD] = NULL /\ sl_lock' = [sl_lock EXCEPT ![HEAD] = t]

Locked(t) == GlockMine /\ sl_lock[HEAD] = t

\* The predecessors on all levels
Search(k) ==
  LET pred[l \in Levels] ==
        LET c == ChainFrom(IF l = SL_MAX_LEVELS - 1 THEN HEAD ELSE pred[l + 1], l)
        IN  c[Cardinality({i \in DOMAIN c \ {0} : c[i] # NULL /\ (c[i] # NULL => sl_cmp(c[i], k) < 0)})]
  IN  pred

\* The element with the key, if there is one
Found(k) == {n \in {sl_next[Search(k)[0]][0]} \ {NULL} : sl_cmp(n, k) = 0}

GlockKeepsList == UNCHANGED <<impl, Readers, sl_next, sl_toplevel, sl_deleted, skey, mem, waits, iter>>

-----------------------------------------------------------------------------
\* skiplist_lookup_relaxed() goes on along the lowest level from where the search has ended.
GlockLookupFinal(t) ==
  LET r == reg[t]
      n == sl_next[r.slp][0]
  IN  /\ GlockMine /\ pc[t] = "lookup"
      /\ \/ Further(r, n) /\ Set(t, [r EXCEPT !.slp = n]) /\ UNCHANGED pc
         \/ ~ Further(r, n) /\ Set(t, [r EXCEPT !.cur = n]) /\ Goto(t, "lookup", "check")
      /\ Reads /\ UNCHANGED iter

\* skiplist_lookup_lock_prev(), skiplist_lookup_lock(): with the header's lock if it is there
glock_skiplist_lookup_lock(t) ==
  LET hit == {n \in Found(reg[t].key) : ~ sl_deleted[n]}
  IN  /\ GlockMine /\ pc[t] = "lookup_lock" /\ sl_lock[HEAD] = NULL
      /\ \/ hit = {} /\ Goto(t, "lookup_lock", "return") /\ UNCHANGED <<sl_lock, reg>>
         \/ /\ hit # {} /\ Goto(t, "lookup_lock", "held")
            /\ glock_skiplist_lock(t)
            /\ \E n \in hit : Set(t, [reg[t] EXCEPT !.ret = n])
      /\ GlockKeepsList /\ UNCHANGED sl_seq

GlockUnlock(t) == Locked(t) /\ LockedReturn(t, HEAD)

-----------------------------------------------------------------------------
\* The pointer iterators, all calls of one iteration in the same critical section

skiplist_start_reader == sl_seq - (sl_seq % 2)

skiplist_retry_reader(t) == sl_seq # iter[t].iter_seq

skiplist_ptriter_first(t) ==
  /\ GlockMine /\ Goto(t, "idle", "return")
  /\ iter' = [iter EXCEPT ![t] = [hintp |-> sl_next[HEAD][0], iter_seq |-> skiplist_start_reader]]
  /\ Set(t, [Registers EXCEPT !.op = "next", !.ret = sl_next[HEAD][0], !.hint = TRUE])
  /\ Reads

\* skiplist_ptriter_last(), skiplist_ptriter_prev(): a new hint
Regenerate(t, o, k) ==
  /\ pc' = [pc EXCEPT ![t] = "walk"]
  /\ iter' = [iter EXCEPT ![t].iter_seq = skiplist_start_reader]
  /\ Set(t, [Registers EXCEPT !.op = o, !.key = k, !.hint = TRUE])
  /\ Reads

skiplist_ptriter_last(t) == GlockMine /\ pc[t] = "idle" /\ Regenerate(t, "last", 0)

\* On from the element returned
Continues(t) == GlockMine /\ pc[t] = "return" /\ reg[t].hint /\ reg[t].ret # NULL

skiplist_ptriter_prev(t) == Continues(t) /\ Regenerate(t, "prev", skey[reg[t].ret])

PtriterCall(t) ==
  /\ Continues(t)
  /\ Goto(t, "return", "hint")
  /\ Set(t, [Registers EXCEPT !.op = "next", !.key = skey[reg[t].ret], !.hint = TRUE])
  /\ Reads /\ UNCHANGED iter

\* skiplist_ptriter_next(): the element behind the hint
skiplist_ptriter_next(t) ==
  LET hintp == iter[t].hintp
      n == sl_next[hintp][0]
  IN  /\ GlockMine /\ pc[t] = "hint"
      /\ \/ (skiplist_retry_reader(t) \/ (hintp # NULL /\ sl_deleted[hintp])) /\ Regenerate(t, "next", reg[t].key)
         \/ /\ ~ skiplist_retry_reader(t) /\ (hintp = NULL \/ (hintp # NULL /\ ~ sl_deleted[hintp]))
            /\ \/ hintp = NULL /\ Answer(t, NULL) /\ Reads
               \/ /\ hintp # NULL
                  /\ Goto(t, "hint", "behind")
                  /\ Set(t, [reg[t] EXCEPT !.cur = n])
                  /\ Reads /\ UNCHANGED iter

\* Not when it has been deleted, or anything has.
PtriterBehind(t) ==
  LET n == reg[t].cur
  IN  /\ GlockMine /\ pc[t] = "behind"
      /\ \/ n = NULL /\ Answer(t, NULL) /\ Reads
         \/ n # NULL /\ (sl_deleted[n] \/ skiplist_retry_reader(t)) /\ Regenerate(t, "next", reg[t].key)
         \/ n # NULL /\ ~ sl_deleted[n] /\ ~ skiplist_retry_reader(t) /\ Answer(t, n) /\ Reads

-----------------------------------------------------------------------------
\* skiplist_delete(): find the predecessors with the lock held and sl_seq odd
DeleteSearch(t, k) ==
  LET update == Search(k)
      n == sl_next[update[0]][0]
  IN  /\ GlockMine /\ sl_seq < MaxSeq
      /\ Goto(t, "idle", IF Found(k) = {} THEN "g_end" ELSE "g_unlink")
      /\ glock_skiplist_lock(t)
      /\ sl_seq' = sl_seq + 1
      /\ Set(t, [Registers EXCEPT !.op = "delete", !.key = k, !.cur = n,
                                  !.lvl = IF Found(k) = {} THEN 0 ELSE sl_toplevel[n],
                                  !.update = [l \in Levels |-> IF sl_next[update[l]][l] = n THEN update[l] ELSE NULL]])
      /\ GlockKeepsList

GlockDeleteUnlink(t) == GlockMine /\ pc[t] = "g_unlink" /\ UnlinkLevel(t, "g_mark")

GlockDeleteMark(t) ==
  /\ Goto(t, "g_mark", "g_end")
  /\ sl_deleted' = [sl_deleted EXCEPT ![reg[t].cur] = TRUE]
  /\ UNCHANGED <<impl, Readers, sl_next, sl_toplevel, sl_lock, sl_seq, skey, mem, waits, iter, reg>>

\* skiplist_end_writer(), unlock; the caller defers the freeing.
DeleteEnd(t) ==
  LET n == reg[t].cur
  IN  /\ Goto(t, "g_end", "idle")
      /\ sl_seq' = sl_seq + 1
      /\ Release({HEAD})
      /\ IF n # NULL /\ (n # NULL => sl_deleted[n]) THEN defer_del(t, n) ELSE UNCHANGED <<mem, waits>>
      /\ Set(t, Registers)
      /\ UNCHANGED <<impl, Readers, sl_next, sl_toplevel, sl_deleted, skey, iter>>

-----------------------------------------------------------------------------
\* skiplist_insert(): -EEXIST, or initialize the element
InsertSearch(t, n, k) ==
  /\ GlockMine /\ pc[t] = "idle" /\ mem[n] = "free" /\ Found(k) = {}
  /\ glock_skiplist_lock(t)
  /\ pc' = [pc EXCEPT ![t] = "g_link"]
  /\ \E top \in Levels :
       /\ Set(t, [Registers EXCEPT !.op = "insert", !.key = k, !.top = top, !.new = n, !.lvl = 0, !.update = Search(k)])
       /\ sl_toplevel' = [sl_toplevel EXCEPT ![n] = top]
       /\ sl_next' = [sl_next EXCEPT ![n] = [l \in Levels |-> IF l > top THEN NULL ELSE @[l]]]
  /\ mem' = [mem EXCEPT ![n] = "live"]
  /\ skey' = [skey EXCEPT ![n] = k]
  /\ sl_deleted' = [sl_deleted EXCEPT ![n] = FALSE]
  /\ UNCHANGED <<impl, Readers, sl_seq, waits, iter>>

GlockInsertLink(t) == GlockMine /\ pc[t] = "g_link" /\ LinkLevel(t, reg[t].top, "g_unlock")

GlockInsertUnlock(t) ==
  /\ Goto(t, "g_unlock", "idle")
  /\ Release({HEAD})
  /\ Set(t, Registers)
  /\ GlockKeepsList /\ UNCHANGED sl_seq

-----------------------------------------------------------------------------
\* skiplist_balance_node_lock() and the tests after it; an element at its level stays as it is
BalanceSearch(t, k, newlevel) ==
  /\ GlockMine /\ pc[t] = "idle"
  /\ \E n \in Found(k) :
       /\ sl_toplevel[n] # newlevel /\ (sl_toplevel[n] > newlevel => Lowering)
       /\ pc' = [pc EXCEPT ![t] = IF sl_toplevel[n] < newlevel THEN "g_raise" ELSE "g_level"]
       /\ Set(t, [Registers EXCEPT !.op = "balance", !.key = k, !.top = newlevel, !.new = n,
                                   !.lvl = sl_toplevel[n] + 1, !.update = Search(k)])
  /\ glock_skiplist_lock(t)
  /\ GlockKeepsList /\ UNCHANGED sl_seq

\* "Balance up."  The loop that balances down ends before its first pass.
BalanceRaise(t) == GlockMine /\ pc[t] = "g_raise" /\ LinkLevel(t, reg[t].top, "g_level")

BalanceEnd(t) ==
  /\ Goto(t, "g_level", "idle")
  /\ sl_toplevel' = [sl_toplevel EXCEPT ![reg[t].new] = reg[t].top]
  /\ Release({HEAD})
  /\ Set(t, Registers)
  /\ UNCHANGED <<impl, Readers, sl_next, sl_deleted, sl_seq, skey, mem, waits, iter>>

GlockStep(t) ==
  \/ /\ t \in Readers
     /\ \/ GlockLookupFinal(t) \/ glock_skiplist_lookup_lock(t) \/ GlockUnlock(t)
        \/ skiplist_ptriter_first(t) \/ skiplist_ptriter_last(t) \/ skiplist_ptriter_prev(t)
        \/ PtriterCall(t) \/ skiplist_ptriter_next(t) \/ PtriterBehind(t)
  \/ /\ t \in Updaters
     /\ \/ \E k \in Keys : DeleteSearch(t, k) \/ \E n \in Nodes : InsertSearch(t, n, k)
        \/ \E k \in Keys : \E l \in Levels : BalanceSearch(t, k, l)
        \/ GlockDeleteUnlink(t) \/ GlockDeleteMark(t) \/ DeleteEnd(t)
        \/ GlockInsertLink(t) \/ GlockInsertUnlock(t)
        \/ BalanceRaise(t) \/ BalanceEnd(t)

-----------------------------------------------------------------------------
\* History: the keys that have been there at some time, and at all times, of the call
Remember ==
  LET present == IF Readers = {} THEN {} ELSE Present'
      Begins(t) == pc[t] = "idle" \/ (pc[t] = "return" /\ pc'[t] # "return")
      Since(t, old) == IF t \notin Readers \/ pc'[t] = "idle" THEN {} ELSE IF Begins(t) THEN present ELSE old
  IN  /\ ever' = [t \in Threads |-> Since(t, ever[t] \union present)]
      /\ steady' = [t \in Threads |-> Since(t, steady[t] \intersect present)]

\* Two threads that update, or one that updates and one that reads
Roles == {{}, {CHOOSE t \in Threads : \A u \in Threads : u <= t}}

Next ==
  /\ \/ \E t \in Readers : Read(t)
     \/ \E t \in Threads : LocksStep(t) \/ GlockStep(t)
     \/ \E n \in Nodes : GracePeriodEnds(n)
  /\ Remember

-----------------------------------------------------------------------------
\* The elements a thread holds pointers to
Uses(t) == ({reg[t].slp, reg[t].cur, reg[t].ret} \union {reg[t].update[l] : l \in Levels}) \intersect Nodes

NothingFreedUsed == \A t \in Threads : Inside(t) => \A n \in Uses(t) : mem[n] # "free"

\* A lookup or an iterator has returned what it may.  skiplist_lookup_relaxed() of skiplist.c
\* may miss an element when one with a smaller key is inserted before it loads sl_next[0] again.
AnswerRight(t) ==
  LET r == reg[t]
      k == IF r.ret = NULL THEN 0 ELSE skey[r.ret]
      always == steady[t]
  IN  /\ r.ret # NULL => k \in ever[t]
      /\ CASE r.op = "next" -> /\ r.ret # NULL => k > r.key
                               /\ \A s \in always : s > r.key => r.ret # NULL /\ k <= s
           [] r.op = "prev" -> /\ r.ret # NULL => k < r.key
                               /\ \A s \in always : s < r.key => r.ret # NULL /\ s <= k
           [] r.op = "last" -> \A s \in always : r.ret # NULL /\ s <= k
           [] OTHER         -> /\ r.ret # NULL => k = r.key
                               /\ r.ret = NULL => r.key \notin always \/ (r.op = "lookup" /\ impl = "skiplist")

\* Nobody is inserting or deleting.
NoUpdates == \A t \in Updaters : pc[t] = "idle"

\* What skiplist_lookup_lock() has locked stays in the list.
LockedIsThere == \A t \in Readers : pc[t] = "held" => reg[t].ret \in Linked /\ ~ sl_deleted[reg[t].ret]
=============================================================================
