----------------------------- MODULE TableBase -----------------------------
(***************************************************************************)
(* What the routing tables of CodeSamples/defer (route_seq, route_refcnt,  *)
(* route_seqlock, route_rcu, route_cacm) and the hash tables of            *)
(* CodeSamples/datastruct/hash (hash_unsync, hash_global, hash_bkt,        *)
(* hash_bkt_rcu) have in common: singly traversed lists of entries, whose  *)
(* memory is given back and handed out again.  impl is the implementation  *)
(* the program is linked with.                                             *)
(*                                                                         *)
(* list is what is linked; an entry that has been unlinked keeps its next  *)
(* pointer in stale, and one that has been freed keeps its contents until  *)
(* the memory is handed out again.                                         *)
(***************************************************************************)
EXTENDS Integers, Sequences, FiniteSets, SequencesExt

CONSTANTS
  NR_THREADS,
  Objects,             \* the memory the entries live in
  Keys,                \* addresses of routes, or hashes of elements
  NBUCKETS,
  NULL,
  JUNK,                \* the header of the list route_rcu.c's route_clear() moves entries to
  MaxSeq               \* bound: the sequence lock's counter

ASSUME TableAssumption ==
  /\ NR_THREADS \in Nat \ {0} /\ NBUCKETS \in Nat \ {0} /\ Keys \subseteq Nat /\ Keys # {}
  /\ MaxSeq \in Nat /\ NULL # JUNK /\ {NULL, JUNK} \intersect Objects = {}

Threads == 0 .. NR_THREADS - 1
Buckets == 0 .. NBUCKETS - 1

\* route_cacm.c's rcu_gp_lock, beside the locks of the buckets
rcu_gp_lock == NBUCKETS
Locks == Buckets \union {rcu_gp_lock}

VARIABLES
  impl,
  list,                \* per bucket: the linked entries, from the head
  stale,               \* per unlinked entry: its next pointer
  mem,                 \* per entry: "free", "live", "removed" but linked, "waiting" for a
                       \* grace period, "callback" queued
  akey,                \* per entry: its address or hash
  lock,                \* per bucket: the holder, or -1; a table with one lock uses 0
  seq,                 \* of the sequence lock
  refcnt,              \* per entry: re_refcnt
  nesting,             \* per thread: inside an RCU read-side critical section
  waits,               \* per entry whose callback is queued: the readers that must leave first
  pc, loc,             \* per thread
  seen                 \* per lookup under way: the answers that have been right since its call

tableVars == <<list, stale, akey>>
vars == <<impl, tableVars, mem, lock, seq, refcnt, nesting, waits, pc, loc, seen>>

Registers == [key |-> 0, from |-> NULL, cur |-> NULL, snap |-> 0, tainted |-> FALSE, ret |-> NULL, gp |-> {}, own |-> {}]

Linked == UNION {ToSet(list[b]) : b \in Buckets}

Routes == {"route_seq", "route_refcnt", "route_seqlock", "route_rcu", "route_cacm", "route_cacm_fresh",
           "route_cacm_fresh_c11"}
Hashes == {"hash_unsync", "hash_global", "hash_bkt", "hash_bkt_rcu"}

HASH2BKT(k) == k % NBUCKETS

\* A routing table is one list.
Bucket(k) == IF impl \in Hashes THEN HASH2BKT(k) ELSE 0

Successor(b, o) ==
  LET i == SelectInSeq(list[b], LAMBDA x : x = o)
  IN  IF i < Len(list[b]) THEN list[b][i + 1] ELSE NULL

\* The pointer in the head of bucket b, or in entry o
Deref(b, o) ==
  CASE o = NULL -> IF list[b] = <<>> THEN NULL ELSE Head(list[b])
    [] o \in ToSet(list[b]) -> Successor(b, o)
    [] OTHER -> stale[o]

EmptyTables ==
  /\ list = [b \in Buckets |-> <<>>]
  /\ stale = [o \in Objects |-> NULL]
  /\ mem = [o \in Objects |-> "free"]
  /\ akey = [o \in Objects |-> CHOOSE k \in Keys : TRUE]
  /\ lock = [b \in Locks |-> -1]
  /\ seq = 0
  /\ refcnt = [o \in Objects |-> 0]
  /\ nesting = [t \in Threads |-> 0]
  /\ waits = [o \in Objects |-> {}]
  /\ pc = [t \in Threads |-> "idle"]
  /\ loc = [t \in Threads |-> Registers]
  /\ seen = [t \in Threads |-> {}]

Goto(t, from, to) ==
  /\ pc[t] = from
  /\ pc' = [pc EXCEPT ![t] = to]

Acquire(t, b) == lock[b] = -1 /\ lock' = [lock EXCEPT ![b] = t]
Release(t, b) == lock' = [lock EXCEPT ![b] = -1]

-----------------------------------------------------------------------------
\* The list operations

\* cds_list_add(), cds_list_add_rcu(), or by hand: at the head
Link(b, o, k) ==
  /\ list' = [list EXCEPT ![b] = <<o>> \o @]
  /\ akey' = [akey EXCEPT ![o] = k]
  /\ stale' = [stale EXCEPT ![o] = NULL]

\* The first entry for the key, or NULL
First(b, k) ==
  LET i == SelectInSeq(list[b], LAMBDA o : akey[o] = k) IN IF i = 0 THEN NULL ELSE list[b][i]

\* cds_list_del(), cds_list_del_rcu(), or by hand: the entry's own pointer stays
Unlink(b, o) ==
  /\ stale' = [stale EXCEPT ![o] = Successor(b, o)]
  /\ list' = [list EXCEPT ![b] = RemoveFirst(@, o)]
  /\ UNCHANGED akey

Free(S) == mem' = [o \in Objects |-> IF o \in S THEN "free" ELSE mem[o]]

-----------------------------------------------------------------------------
\* A lookup loads a pointer, compares, and goes on.

\* What a lookup may answer now: an entry that is linked for the key, or NULL when there is
\* none; with FRESH, NULL too while one is marked as removed.
Answers(k) ==
  LET there == {o \in Linked : akey[o] = k}
      valid == {o \in there : mem[o] # "removed"}
  IN  valid \union (IF valid = there /\ there # {} THEN {} ELSE {NULL})

LookupCall(t, k) ==
  /\ Goto(t, "idle", "begin")
  /\ loc' = [loc EXCEPT ![t] = [Registers EXCEPT !.key = k]]
  /\ UNCHANGED <<impl, tableVars, mem, lock, seq, refcnt, nesting, waits>>

\* A pointer in memory that has been freed is still read, and so is one in an entry that
\* route_rcu.c's route_clear() has moved to its other list.
Load(t, got, end) ==
  LET b == Bucket(loc[t].key)
      tmp == Deref(b, loc[t].from)
      moved == impl = "route_rcu" /\ \E u \in Threads : loc[t].from \in loc[u].own
      freed == loc[t].from # NULL /\ mem[loc[t].from] = "free"
  IN  /\ pc[t] = "load"
      /\ pc' = [pc EXCEPT ![t] = CASE tmp = NULL -> end [] tmp = JUNK -> "lost" [] OTHER -> got]
      /\ loc' = [loc EXCEPT ![t].cur = tmp, ![t].ret = NULL, ![t].tainted = @ \/ freed \/ moved]
      /\ UNCHANGED <<impl, tableVars, mem, lock, seq, refcnt, nesting, waits>>

Compare(t, found, next) ==
  LET hit == akey[loc[t].cur] = loc[t].key
  IN  /\ Goto(t, "compare", IF hit THEN found ELSE next)
      /\ loc' = [loc EXCEPT ![t].from = IF hit THEN @ ELSE loc[t].cur, ![t].ret = IF hit THEN loc[t].cur ELSE NULL,
                            ![t].tainted = @ \/ mem[loc[t].cur] = "free"]
      /\ UNCHANGED <<impl, tableVars, mem, lock, seq, refcnt, nesting, waits>>

\* The answer is the caller's.
Return(t) ==
  /\ Goto(t, "return", "idle")
  /\ loc' = [loc EXCEPT ![t] = Registers]
  /\ UNCHANGED <<impl, tableVars, mem, lock, seq, refcnt, nesting, waits>>
=============================================================================
