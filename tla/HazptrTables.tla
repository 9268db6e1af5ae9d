---------------------------- MODULE HazptrTables ----------------------------
(***************************************************************************)
(* The two tables under hazard pointers side by side: the routing table of *)
(* route_hazptr.c and the hash table of hash_bkt_hazptr.c.                 *)
(***************************************************************************)
EXTENDS HazPtr, Sequences, SequencesExt

CONSTANTS
  Addrs,               \* the addresses of the routes
  Keys, HashMod, NBUCKETS

ASSUME HashAssumption ==
  /\ Keys \subseteq Nat /\ HashMod \in Nat \ {0} /\ NBUCKETS \in Nat \ {0} /\ K = 2

VARIABLES
  impl,                \* the table that runs
  stale, key, from,    \* of both
  list, addr, routelock, rep,
  bkt, ekey, htb_lock, htep, offset, steady

\* A route lookup uses one of the thread's hazard pointers.
Route == INSTANCE RouteHazptr WITH K <- 1
Hash == INSTANCE HashBktHazptr

routevars == <<list, addr, routelock, rep>>
hashvars == <<bkt, ekey, htb_lock, htep, offset, steady>>
vars == <<impl, HP, hpstore, rlist, rcount, plist, scan, after, mem, pc, stale, key, from, routevars, hashvars>>

NoRoute ==
  /\ list = <<>> /\ routelock = -1
  /\ addr = [o \in Objects |-> NULL] /\ rep = [t \in Threads |-> NULL]

NoHash ==
  /\ bkt = [b \in Hash!Buckets |-> <<>>] /\ htb_lock = [b \in Hash!Buckets |-> -1]
  /\ ekey = [o \in Objects |-> NULL] /\ htep = [t \in Threads |-> NULL]
  /\ offset = [t \in Threads |-> 0] /\ steady = [t \in Threads |-> FALSE]

Init ==
  \/ impl = "route_hazptr" /\ Route!Init /\ NoHash
  \/ impl = "hash_bkt_hazptr" /\ Hash!Init /\ NoRoute

OnlyRoute == impl = "route_hazptr" /\ UNCHANGED <<impl, hashvars>>
OnlyHash == impl = "hash_bkt_hazptr" /\ UNCHANGED <<impl, routevars>>

AllExited == \A t \in Threads : pc[t] = "exited"

Next ==
  \/ OnlyRoute /\ Route!Next
  \/ OnlyHash /\ Hash!Next
  \/ AllExited /\ UNCHANGED vars

\* Stores become visible, and a thread inside a function runs.
Fairness ==
  \A t \in Threads :
    /\ WF_vars((OnlyRoute /\ Route!Drain(t)) \/ (OnlyHash /\ Hash!Drain(t)))
    /\ WF_vars((OnlyRoute /\ Route!Step(t)) \/ (OnlyHash /\ Hash!Step(t)))

Spec == Init /\ [][Next]_vars /\ Fairness

-----------------------------------------------------------------------------
\* "if (READ_ONCE(rep->re_freed)) abort()" of route_lookup() never fires, and
\* hashtab_lookup() touches nothing freed: neither the entry a lookup stands on
\* or has returned, whose hazard pointer it has validated, nor the one it goes
\* on from is freed or handed out again, however deletions, clears, scans of
\* both threads and reuse of the memory fall in between.  The hash table keeps
\* the entry it reads again too, by two hazard pointers that take turns.  This
\* holds if no two objects are 2^31 hazptr_head_t (16 GB) or more apart: compare()
\* of hazptr.c is an order only then.
ValidatedNotFreed ==
  Near =>
    /\ impl = "route_hazptr" => Route!ValidatedNotFreed
    /\ impl = "hash_bkt_hazptr" => Hash!LookupTouchesNothingFreed

Linked == IF impl = "route_hazptr" THEN Route!Linked ELSE Hash!Linked

Unlocked == routelock = -1 /\ \A b \in Hash!Buckets : htb_lock[b] = -1

\* No entry is lost and none is freed twice: while nobody holds a lock an entry
\* that is allocated is linked or on the rlist of one thread, never both,
\* whichever threads deleted, cleared and scanned; and rcount, which makes a
\* thread scan and hazptr_thread_exit() end, says how many it has there.
AllocatedIsReachable ==
  /\ \A t \in Threads : rcount[t] = Cardinality(rlist[t])
  /\ \A t, u \in Threads : t # u => rlist[t] \intersect rlist[u] = {}
  /\ \A t \in Threads : rlist[t] \intersect Linked = {}
  /\ Unlocked =>
       \A o \in Objects :
         mem[o] # "free" <=> o \in Linked \union UNION {rlist[t] : t \in Threads}

\* A hash-table lookup of a key that has been in the table since the call never
\* reports that it is not there, however often deletions of other elements make
\* it start over; if the objects are as near to each other as compare() needs it.
PresentKeyFound ==
  [][Near => \A t \in Threads : pc[t] = "load" /\ pc'[t] = "idle" => ~ steady[t]]_vars

\* Every hazptr_thread_exit() ends once the other threads have stopped using
\* the table, and then all that was retired has been freed.
ExitFrees ==
  (<>[](\A t \in Threads : pc[t] \in {"exit", "scan_mb", "scan", "scan_free", "exited"}))
    => <>(AllExited /\ \A o \in Objects : mem[o] # "retired")
=============================================================================
