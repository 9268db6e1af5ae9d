----------------------------- MODULE ListTables -----------------------------
(***************************************************************************)
(* The tables that are singly linked lists, or buckets of them: one section *)
(* per way to keep readers and updaters apart.                             *)
(***************************************************************************)
EXTENDS TableBase

-----------------------------------------------------------------------------
(***************************************************************************)
(* CodeSamples/defer/route_seq.c: the sequential routing table, for one    *)
(* thread, and every call of it a step of its own.                         *)
(***************************************************************************)

Idle == UNCHANGED <<impl, lock, seq, refcnt, nesting, waits>>

seq_route_lookup(t, k) ==
  /\ Goto(t, "idle", "return")
  /\ loc' = [loc EXCEPT ![t] = [Registers EXCEPT !.key = k, !.ret = First(0, k)]]
  /\ UNCHANGED <<tableVars, mem>> /\ Idle

seq_route_add(k) ==
  /\ \E o \in Objects :
       /\ mem[o] = "free"
       /\ mem' = [mem EXCEPT ![o] = "live"]
       /\ Link(0, o, k)
  /\ UNCHANGED <<pc, loc>> /\ Idle

seq_route_del(k) ==
  /\ First(0, k) # NULL
  /\ Unlink(0, First(0, k))
  /\ Free({First(0, k)})
  /\ UNCHANGED <<pc, loc>> /\ Idle

seq_route_clear ==
  /\ Free(Linked)
  /\ list' = [list EXCEPT ![0] = <<>>]
  /\ UNCHANGED <<akey, stale, pc, loc>> /\ Idle

SeqStep(t) ==
  /\ impl = "route_seq" /\ t = 0
  /\ \/ \E k \in Keys : seq_route_lookup(t, k) \/ (pc[t] = "idle" /\ (seq_route_add(k) \/ seq_route_del(k)))
     \/ pc[t] = "idle" /\ seq_route_clear
     \/ Return(t)

-----------------------------------------------------------------------------
(***************************************************************************)
(* CodeSamples/defer/route_refcnt.c: a lookup holds a reference to the     *)
(* entry it is at; whoever drops the last reference frees the entry.  The  *)
(* pointer to the next entry is read after the reference has been dropped. *)
(***************************************************************************)

RefcntMine == impl = "route_refcnt"

\* route_add()
refcnt_route_add(t, k) ==
  /\ pc[t] = "idle" /\ lock[0] = -1
  /\ \E o \in Objects :
       /\ mem[o] = "free"
       /\ mem' = [mem EXCEPT ![o] = "live"]
       /\ refcnt' = [refcnt EXCEPT ![o] = 1]
       /\ Link(0, o, k)
  /\ UNCHANGED <<impl, lock, seq, nesting, waits, pc, loc>>

\* atomic_dec_and_test() and re_free()
Put(o) ==
  /\ refcnt' = [refcnt EXCEPT ![o] = @ - 1]
  /\ IF refcnt[o] = 1 THEN Free({o}) ELSE UNCHANGED mem

Retry(t) ==
  /\ Goto(t, "begin", "load")
  /\ loc' = [loc EXCEPT ![t].from = NULL, ![t].cur = NULL]
  /\ UNCHANGED <<impl, tableVars, mem, lock, seq, refcnt, nesting, waits>>

\* "if (READ_ONCE(rep->re_freed)) abort();", which freed memory may or may not say, then
\* the count; an entry on its way out sends the lookup back to the start.
ReadCount(t) ==
  /\ pc[t] = "got"
  /\ \/ mem[loc[t].cur] = "free" /\ pc' = [pc EXCEPT ![t] = "aborted"]
     \/ pc' = [pc EXCEPT ![t] = IF refcnt[loc[t].cur] <= 0 THEN "begin" ELSE "acquire"]
  /\ loc' = [loc EXCEPT ![t].snap = IF refcnt[loc[t].cur] <= 0 THEN 0 ELSE refcnt[loc[t].cur]]
  /\ UNCHANGED <<impl, tableVars, mem, lock, seq, refcnt, nesting, waits>>

\* atomic_cmpxchg()
AcquireReference(t) ==
  LET same == refcnt[loc[t].cur] = loc[t].snap
  IN  /\ Goto(t, "acquire", IF same THEN "compare" ELSE "got")
      /\ refcnt' = IF same THEN [refcnt EXCEPT ![loc[t].cur] = @ + 1] ELSE refcnt
      /\ loc' = [loc EXCEPT ![t].snap = 0]
      /\ UNCHANGED <<impl, tableVars, mem, lock, seq, nesting, waits>>

\* Mutant: the reader that drops the last reference does not free.
DropDoesNotFree(t) ==
  /\ pc[t] \in {"next", "found"}
  /\ pc' = [pc EXCEPT ![t] = IF pc[t] = "next" THEN "load" ELSE "return"]
  /\ refcnt' = [refcnt EXCEPT ![loc[t].cur] = @ - 1]
  /\ UNCHANGED <<impl, tableVars, mem, lock, seq, nesting, waits, loc>>

\* On the way to the next entry, or to the caller
DropReference(t) ==
  /\ pc[t] \in {"next", "found"}
  /\ pc' = [pc EXCEPT ![t] = IF pc[t] = "next" THEN "load" ELSE "return"]
  /\ Put(loc[t].cur)
  /\ UNCHANGED <<impl, tableVars, lock, seq, nesting, waits, loc>>

refcnt_route_lookup(t) ==
  \/ Retry(t) \/ Load(t, "got", "return") \/ ReadCount(t) \/ AcquireReference(t)
  \/ Compare(t, "found", "next") \/ DropReference(t) \/ Return(t)

\* route_del(): unlinked under the lock, dropped after it
refcnt_route_del(t, k) ==
  /\ lock[0] = -1 /\ First(0, k) # NULL
  /\ Goto(t, "idle", "drop")
  /\ Unlink(0, First(0, k))
  /\ loc' = [loc EXCEPT ![t].cur = First(0, k)]
  /\ UNCHANGED <<impl, mem, lock, seq, refcnt, nesting, waits>>

DropDeleted(t) ==
  /\ Goto(t, "drop", "idle")
  /\ Put(loc[t].cur)
  /\ loc' = [loc EXCEPT ![t] = Registers]
  /\ UNCHANGED <<impl, tableVars, lock, seq, nesting, waits>>

\* route_clear(): all at once, then each dropped, the lock still held
refcnt_route_clear(t) ==
  /\ Acquire(t, 0) /\ list[0] # <<>>
  /\ Goto(t, "idle", "clear")
  /\ loc' = [loc EXCEPT ![t].cur = Head(list[0])]
  /\ stale' = [o \in Objects |-> IF o \in Linked THEN Successor(0, o) ELSE stale[o]]
  /\ list' = [list EXCEPT ![0] = <<>>]
  /\ UNCHANGED <<impl, akey, mem, seq, refcnt, nesting, waits>>

ClearNext(t) ==
  /\ pc[t] = "clear"
  /\ Put(loc[t].cur)
  /\ IF stale[loc[t].cur] # NULL
     THEN loc' = [loc EXCEPT ![t].cur = stale[loc[t].cur]] /\ UNCHANGED <<pc, lock>>
     ELSE loc' = [loc EXCEPT ![t] = Registers] /\ pc' = [pc EXCEPT ![t] = "idle"] /\ Release(t, 0)
  /\ UNCHANGED <<impl, tableVars, seq, nesting, waits>>

RefcntStep(t) ==
  /\ RefcntMine
  /\ \/ \E k \in Keys : LookupCall(t, k) \/ refcnt_route_add(t, k) \/ refcnt_route_del(t, k)
     \/ refcnt_route_lookup(t) \/ DropDeleted(t) \/ refcnt_route_clear(t) \/ ClearNext(t)

-----------------------------------------------------------------------------
(***************************************************************************)
(* CodeSamples/defer/route_seqlock.c and seqlock.h: a lookup that an       *)
(* update may have disturbed is made again.  route_seq.c, for one thread,  *)
(* is the same without the sequence lock.                                  *)
(***************************************************************************)

SeqlockMine == impl = "route_seqlock"

read_seqbegin == seq - (seq % 2)

\* Mutant: only an update that is under way counts, not one that has come and gone.
UnderWayOnly(s) == seq % 2 = 1

read_seqretry(s) == seq # s

write_seqlock(t) == Acquire(t, 0) /\ seq < MaxSeq /\ seq' = seq + 1
write_sequnlock(t) == Release(t, 0) /\ seq' = seq + 1

\* The entry is made before the lock is taken; what is linked is linked within.
seqlock_route_add(t, k) ==
  /\ Goto(t, "idle", "added")
  /\ write_seqlock(t)
  /\ \E o \in Objects :
       /\ mem[o] = "free"
       /\ mem' = [mem EXCEPT ![o] = "live"]
       /\ Link(0, o, k)
  /\ UNCHANGED <<impl, refcnt, nesting, waits, loc>>

seqlock_route_del(t, k) ==
  /\ First(0, k) # NULL
  /\ Goto(t, "idle", "deleted")
  /\ write_seqlock(t)
  /\ Unlink(0, First(0, k))
  /\ loc' = [loc EXCEPT ![t].cur = First(0, k)]
  /\ UNCHANGED <<impl, mem, refcnt, nesting, waits>>

Unlock(t) ==
  /\ pc[t] \in {"added", "deleted"}
  /\ pc' = [pc EXCEPT ![t] = IF pc[t] = "added" THEN "idle" ELSE "free"]
  /\ write_sequnlock(t)
  /\ UNCHANGED <<impl, tableVars, mem, refcnt, nesting, waits, loc>>

\* After the lock has been released
FreeDeleted(t) ==
  /\ Goto(t, "free", "idle")
  /\ Free({loc[t].cur})
  /\ loc' = [loc EXCEPT ![t] = Registers]
  /\ UNCHANGED <<impl, tableVars, lock, seq, refcnt, nesting, waits>>

\* Unlinked and freed within the lock
seqlock_route_clear(t) ==
  /\ Goto(t, "idle", "added")
  /\ write_seqlock(t)
  /\ stale' = [o \in Objects |-> IF o \in Linked THEN Successor(0, o) ELSE stale[o]]
  /\ list' = [list EXCEPT ![0] = <<>>]
  /\ Free(Linked)
  /\ UNCHANGED <<impl, akey, refcnt, nesting, waits, loc>>

Begin(t) ==
  /\ Goto(t, "begin", "load")
  /\ loc' = [loc EXCEPT ![t].snap = read_seqbegin, ![t].from = NULL, ![t].cur = NULL, ![t].tainted = FALSE]
  /\ UNCHANGED <<impl, tableVars, mem, lock, seq, refcnt, nesting, waits>>

\* "if (READ_ONCE(rep->re_freed)) abort();": freed memory may or may not say so.
SeqlockCheckFreed(t) ==
  /\ \/ Goto(t, "found", "aborted") /\ mem[loc[t].cur] = "free"
     \/ Goto(t, "found", "retry")
  /\ loc' = [loc EXCEPT ![t].tainted = @ \/ mem[loc[t].cur] = "free"]
  /\ UNCHANGED <<impl, tableVars, mem, lock, seq, refcnt, nesting, waits>>

\* At the end of the list too
CheckRetry(t) ==
  /\ Goto(t, "retry", IF read_seqretry(loc[t].snap) THEN "begin" ELSE "return")
  /\ UNCHANGED <<impl, tableVars, mem, lock, seq, refcnt, nesting, waits, loc>>

seqlock_route_lookup(t) ==
  Begin(t) \/ Load(t, "compare", "retry") \/ Compare(t, "found", "load") \/ SeqlockCheckFreed(t) \/ CheckRetry(t) \/ Return(t)

SeqlockStep(t) ==
  /\ SeqlockMine
  /\ \/ \E k \in Keys : LookupCall(t, k) \/ seqlock_route_add(t, k) \/ seqlock_route_del(t, k)
     \/ seqlock_route_lookup(t) \/ Unlock(t) \/ FreeDeleted(t) \/ seqlock_route_clear(t)

-----------------------------------------------------------------------------
(***************************************************************************)
(* CodeSamples/defer/route_rcu.c, over the user-space RCU library, and     *)
(* route_cacm.c, which brings an RCU of its own, as does its C11 version   *)
(* route_cacm_c11.c.  A build with FRESH marks an entry as removed before  *)
(* it unlinks it, and a lookup looks at the mark.                          *)
(***************************************************************************)

Fresh == impl \in {"route_cacm_fresh", "route_cacm_fresh_c11"}
Cacm == impl = "route_cacm" \/ Fresh

Inside == {t \in Threads : nesting[t] > 0}

rcu_read_lock(t) ==
  /\ Goto(t, "begin", "load")
  /\ nesting' = [nesting EXCEPT ![t] = @ + 1]
  /\ UNCHANGED <<impl, tableVars, mem, lock, seq, refcnt, waits, loc>>

\* With the library, it is also out of the way of the grace periods that were waiting for it.
rcu_read_unlock(t) ==
  /\ pc[t] \in {"unlock", "end"}
  /\ pc' = [pc EXCEPT ![t] = "return"]
  /\ nesting' = [nesting EXCEPT ![t] = @ - 1]
  /\ waits' = [o \in Objects |-> waits[o] \ {t}]
  /\ loc' = [u \in Threads |-> [loc[u] EXCEPT !.gp = @ \ {t}]]
  /\ UNCHANGED <<impl, tableVars, mem, lock, seq, refcnt>>

\* "if (READ_ONCE(rep->re_freed)) abort();"
RcuCheckFreed(t) ==
  /\ Goto(t, "found", IF mem[loc[t].cur] = "free" THEN "aborted" ELSE "check")
  /\ UNCHANGED <<impl, tableVars, mem, lock, seq, refcnt, nesting, waits, loc>>

\* With FRESH, under the entry's lock
route_lookup_check(t) ==
  LET removed == Fresh /\ mem[loc[t].cur] # "live"
  IN  /\ Goto(t, "check", "unlock")
      /\ loc' = [loc EXCEPT ![t].ret = IF removed THEN NULL ELSE @]
      /\ UNCHANGED <<impl, tableVars, mem, lock, seq, refcnt, nesting, waits>>

\* A reader that has followed an entry to the other list misses the header it waits for.
Lost(t) == pc[t] = "lost" /\ UNCHANGED <<impl, tableVars, mem, lock, seq, refcnt, nesting, waits, pc, loc>>

rcu_route_lookup(t) ==
  \/ rcu_read_lock(t) \/ Load(t, "compare", "end") \/ Compare(t, "found", "load")
  \/ RcuCheckFreed(t) \/ route_lookup_check(t) \/ rcu_read_unlock(t) \/ Return(t) \/ Lost(t)

rcu_route_add(t, k) ==
  /\ pc[t] = "idle" /\ lock[0] = -1
  /\ \E o \in Objects :
       /\ mem[o] = "free"
       /\ mem' = [mem EXCEPT ![o] = "live"]
       /\ Link(0, o, k)
  /\ UNCHANGED <<impl, lock, seq, refcnt, nesting, waits, pc, loc>>

-----------------------------------------------------------------------------
\* route_del()

\* Found, and with FRESH marked
DelMark(t, k) ==
  /\ Goto(t, "idle", "unlink")
  /\ Acquire(t, 0)
  /\ First(0, k) # NULL
  /\ loc' = [loc EXCEPT ![t].cur = First(0, k)]
  /\ mem' = IF Fresh THEN [mem EXCEPT ![First(0, k)] = "removed"] ELSE mem
  /\ UNCHANGED <<impl, tableVars, seq, refcnt, nesting, waits>>

DelUnlink(t) ==
  /\ Goto(t, "unlink", "deleted")
  /\ Unlink(0, loc[t].cur)
  /\ mem' = [mem EXCEPT ![loc[t].cur] = "waiting"]
  /\ Release(t, 0)
  /\ UNCHANGED <<impl, seq, refcnt, nesting, waits, loc>>

\* The entry is the library's until its callback has run.
call_rcu(t) ==
  /\ impl = "route_rcu"
  /\ Goto(t, "deleted", "idle")
  /\ mem' = [mem EXCEPT ![loc[t].cur] = "callback"]
  /\ waits' = [waits EXCEPT ![loc[t].cur] = Inside]
  /\ loc' = [loc EXCEPT ![t] = Registers]
  /\ UNCHANGED <<impl, tableVars, lock, seq, refcnt, nesting>>

route_cb(o) ==
  /\ mem[o] = "callback" /\ waits[o] = {}
  /\ Free({o})
  /\ UNCHANGED <<impl, tableVars, lock, seq, refcnt, nesting, waits, pc, loc>>

\* route_cacm.c's synchronize_rcu(): one thread after the other, under rcu_gp_lock
SynchronizeBegin(t) ==
  /\ Cacm
  /\ Goto(t, "deleted", "synchronize")
  /\ Acquire(t, rcu_gp_lock)
  /\ loc' = [loc EXCEPT ![t].snap = 0]
  /\ UNCHANGED <<impl, tableVars, mem, seq, refcnt, nesting, waits>>

\* Mutant: the last thread is not waited for.
SynchronizeAllButLast(t) ==
  /\ Cacm /\ pc[t] = "synchronize"
  /\ IF loc[t].snap < NR_THREADS - 1
     THEN /\ nesting[loc[t].snap] = 0
          /\ loc' = [loc EXCEPT ![t].snap = @ + 1]
          /\ UNCHANGED <<pc, lock>>
     ELSE /\ pc' = [pc EXCEPT ![t] = "free"]
          /\ Release(t, rcu_gp_lock)
          /\ UNCHANGED loc
  /\ UNCHANGED <<impl, tableVars, mem, seq, refcnt, nesting, waits>>

synchronize_rcu(t) ==
  /\ Cacm /\ pc[t] = "synchronize"
  /\ IF loc[t].snap < NR_THREADS
     THEN /\ nesting[loc[t].snap] = 0
          /\ loc' = [loc EXCEPT ![t].snap = @ + 1]
          /\ UNCHANGED <<pc, lock>>
     ELSE /\ pc' = [pc EXCEPT ![t] = "free"]
          /\ Release(t, rcu_gp_lock)
          /\ UNCHANGED loc
  /\ UNCHANGED <<impl, tableVars, mem, seq, refcnt, nesting, waits>>

\* re_free(), of one entry or of the list that route_clear() has taken
re_free(t) ==
  /\ Goto(t, "free", "idle")
  /\ Free(loc[t].own \union ({loc[t].cur} \ {NULL}))
  /\ loc' = [loc EXCEPT ![t] = Registers]
  /\ UNCHANGED <<impl, tableVars, lock, seq, refcnt, nesting, waits>>

-----------------------------------------------------------------------------
\* route_clear()

\* route_rcu.c: entry by entry, to the front of the junk list, where the readers find them
MoveToJunk(t) ==
  /\ impl = "route_rcu" /\ pc[t] \in {"idle", "clear"}
  /\ lock[0] \in IF pc[t] = "idle" THEN {-1} ELSE {t}
  /\ IF list[0] # <<>>
     THEN LET rep == Head(list[0])
          IN  /\ list' = [list EXCEPT ![0] = Tail(@)]
              /\ stale' = [stale EXCEPT ![rep] = IF pc[t] = "idle" THEN JUNK ELSE loc[t].from]
              /\ mem' = [mem EXCEPT ![rep] = "waiting"]
              /\ loc' = [loc EXCEPT ![t].from = rep, ![t].own = @ \union {rep}]
              /\ pc' = [pc EXCEPT ![t] = "clear"]
              /\ lock' = [lock EXCEPT ![0] = t]
     ELSE /\ pc' = [pc EXCEPT ![t] = "synchronize"]
          /\ loc' = [loc EXCEPT ![t] = [Registers EXCEPT !.gp = Inside, !.own = loc[t].own]]
          /\ Release(t, 0)
          /\ UNCHANGED <<list, stale, mem>>
  /\ UNCHANGED <<impl, akey, seq, refcnt, nesting, waits>>

\* The library's synchronize_rcu()
GracePeriodEnd(t) ==
  /\ impl = "route_rcu" /\ Goto(t, "synchronize", "free")
  /\ loc[t].gp = {}
  /\ UNCHANGED <<impl, tableVars, mem, lock, seq, refcnt, nesting, waits, loc>>

\* route_cacm.c: the whole list, and routelock is never released
TakeList(t) ==
  /\ Cacm
  /\ Goto(t, "idle", "deleted")
  /\ Acquire(t, 0)
  /\ stale' = [o \in Objects |-> IF o \in Linked THEN Successor(0, o) ELSE stale[o]]
  /\ mem' = [o \in Objects |-> IF o \in Linked THEN "waiting" ELSE mem[o]]
  /\ list' = [list EXCEPT ![0] = <<>>]
  /\ loc' = [loc EXCEPT ![t].own = Linked]
  /\ UNCHANGED <<impl, akey, seq, refcnt, nesting, waits>>

rcu_route_clear(t) == MoveToJunk(t) \/ GracePeriodEnd(t) \/ TakeList(t)

RcuOperations(t) ==
  \/ \E k \in Keys : LookupCall(t, k) \/ rcu_route_add(t, k) \/ DelMark(t, k)
  \/ rcu_route_lookup(t) \/ DelUnlink(t) \/ SynchronizeBegin(t) \/ synchronize_rcu(t)
  \/ re_free(t) \/ rcu_route_clear(t)

route_rcu(t) == impl = "route_rcu" /\ (RcuOperations(t) \/ call_rcu(t) \/ \E o \in Objects : route_cb(o))
route_cacm(t) == impl \in {"route_cacm", "route_cacm_fresh"} /\ RcuOperations(t)
route_cacm_c11(t) == impl = "route_cacm_fresh_c11" /\ RcuOperations(t)

RcuStep(t) == route_rcu(t) \/ route_cacm(t) \/ route_cacm_c11(t)

-----------------------------------------------------------------------------
(***************************************************************************)
(* CodeSamples/datastruct/hash: hash_bkt.c with a lock per bucket,         *)
(* hash_global.c with one for the table, hash_unsync.c with none, for one  *)
(* thread, and hash_bkt_rcu.c, whose lookups are RCU read-side critical    *)
(* sections.  What is deleted is given to defer_del(): as hashtorture.h    *)
(* uses the tables, free() where nothing else is said.  The caller may use *)
(* the element it has found until it leaves the section or drops the lock. *)
(***************************************************************************)

Rcu == impl = "hash_bkt_rcu"

\* hashtab_lock(): the index of the lock
LockOf(k) == IF impl = "hash_global" THEN 0 ELSE HASH2BKT(k)

hashtab_lock(t, k) == IF impl = "hash_unsync" THEN UNCHANGED lock ELSE Acquire(t, LockOf(k))
hashtab_unlock(t, k) == IF impl = "hash_unsync" THEN UNCHANGED lock ELSE Release(t, LockOf(k))

hashtab_lock_lookup(t) ==
  /\ Goto(t, "begin", "load")
  /\ IF Rcu THEN nesting' = [nesting EXCEPT ![t] = 1] /\ UNCHANGED lock
            ELSE hashtab_lock(t, loc[t].key) /\ UNCHANGED nesting
  /\ UNCHANGED <<impl, tableVars, mem, seq, refcnt, waits, loc>>

hashtab_unlock_lookup(t) ==
  /\ Goto(t, "found", "return")
  /\ IF Rcu THEN /\ nesting' = [nesting EXCEPT ![t] = 0]
                 /\ waits' = [o \in Objects |-> waits[o] \ {t}]
                 /\ UNCHANGED lock
            ELSE hashtab_unlock(t, loc[t].key) /\ UNCHANGED <<nesting, waits>>
  /\ UNCHANGED <<impl, tableVars, mem, seq, refcnt, loc>>

hashtab_lookup(t) == Load(t, "compare", "found") \/ Compare(t, "found", "load")

LookupStep(t) == hashtab_lock_lookup(t) \/ hashtab_lookup(t) \/ hashtab_unlock_lookup(t) \/ Return(t)

\* The caller has the element it will add, or is about to look for one to delete.
hashtab_lock_mod(t, k) ==
  /\ hashtab_lock(t, k)
  /\ \/ \E o \in Objects :
          /\ mem[o] = "free"
          /\ Goto(t, "idle", "add")
          /\ mem' = [mem EXCEPT ![o] = "live"]
          /\ loc' = [loc EXCEPT ![t].key = k, ![t].cur = o]
     \/ Goto(t, "idle", "del") /\ loc' = [loc EXCEPT ![t].key = k] /\ UNCHANGED mem
  /\ UNCHANGED <<impl, tableVars, seq, refcnt, nesting, waits>>

hashtab_add(t) ==
  /\ Goto(t, "add", "unlock")
  /\ Link(HASH2BKT(loc[t].key), loc[t].cur, loc[t].key)
  /\ loc' = [loc EXCEPT ![t].cur = NULL]
  /\ UNCHANGED <<impl, mem, lock, seq, refcnt, nesting, waits>>

\* The caller looks the element up first; cds_list_del_init() makes it point at itself,
\* cds_list_del_rcu() leaves its pointer alone.
hashtab_del(t) ==
  LET b == HASH2BKT(loc[t].key)
      o == First(b, loc[t].key)
  IN  /\ Goto(t, "del", "unlock")
      /\ IF o = NULL THEN UNCHANGED <<tableVars, mem>>
         ELSE /\ list' = [list EXCEPT ![b] = RemoveFirst(@, o)]
              /\ stale' = [stale EXCEPT ![o] = IF Rcu THEN Successor(b, o) ELSE o]
              /\ mem' = [mem EXCEPT ![o] = "waiting"]
              /\ UNCHANGED akey
      /\ loc' = [loc EXCEPT ![t].cur = o]
      /\ UNCHANGED <<impl, lock, seq, refcnt, nesting, waits>>

hashtab_unlock_mod(t) ==
  /\ Goto(t, "unlock", IF loc[t].cur = NULL THEN "idle" ELSE "defer")
  /\ hashtab_unlock(t, loc[t].key)
  /\ loc' = [loc EXCEPT ![t] = [Registers EXCEPT !.cur = loc[t].cur]]
  /\ UNCHANGED <<impl, tableVars, mem, seq, refcnt, nesting, waits>>

defer_del(t) ==
  /\ Goto(t, "defer", "idle")
  /\ mem' = [mem EXCEPT ![loc[t].cur] = IF Rcu THEN "callback" ELSE "free"]
  /\ waits' = [waits EXCEPT ![loc[t].cur] = IF Rcu THEN {u \in Threads : nesting[u] > 0} ELSE {}]
  /\ loc' = [loc EXCEPT ![t] = Registers]
  /\ UNCHANGED <<impl, tableVars, lock, seq, refcnt, nesting>>

defer_del_rcu(o) ==
  /\ mem[o] = "callback" /\ waits[o] = {}
  /\ Free({o})
  /\ UNCHANGED <<impl, tableVars, lock, seq, refcnt, nesting, waits, pc, loc>>

HashOperations(t) ==
  \/ \E k \in Keys : LookupCall(t, k) \/ hashtab_lock_mod(t, k)
  \/ LookupStep(t) \/ hashtab_add(t) \/ hashtab_del(t) \/ hashtab_unlock_mod(t) \/ defer_del(t)

hash_bkt(t) == impl = "hash_bkt" /\ HashOperations(t)
hash_global(t) == impl = "hash_global" /\ HashOperations(t)
hash_unsync(t) == impl = "hash_unsync" /\ t = 0 /\ HashOperations(t)
hash_bkt_rcu(t) == impl = "hash_bkt_rcu" /\ (HashOperations(t) \/ \E o \in Objects : defer_del_rcu(o))

HashStep(t) == hash_bkt(t) \/ hash_global(t) \/ hash_unsync(t) \/ hash_bkt_rcu(t)
=============================================================================
