------------------------------- MODULE HazPtr -------------------------------
(***************************************************************************)
(* The hazard pointers of CodeSamples/defer/hazptr.h and hazptr.c: storing *)
(* and clearing them, retiring an object with hazptr_free_later(), and     *)
(* hazptr_scan(), which frees the retired objects no hazard pointer names. *)
(*                                                                         *)
(* The data structures that use them (RouteHazptr, HashBktHazptr) extend   *)
(* this module.  A store to a hazard pointer becomes visible at any later  *)
(* time, and no later than the next smp_mb() of the thread.                *)
(***************************************************************************)
EXTENDS Integers, FiniteSets

CONSTANTS
  NR_THREADS,          \* the threads are 0 .. NR_THREADS - 1
  K,                   \* hazard pointers per thread
  Readers,             \* bound: the threads that look up
  R,                   \* retired objects that make a thread scan
  Objects,             \* the memory the objects live in: addresses, in units of a hazptr_head_t
  INT_MAX,
  NULL,
  POISON               \* HAZPTR_POISON

Threads == 0 .. NR_THREADS - 1

ASSUME HazPtrAssumption ==
  /\ NR_THREADS \in Nat \ {0} /\ Readers \subseteq Threads /\ K \in Nat \ {0} /\ R \in Nat \ {0}
  /\ Objects \subseteq Nat /\ INT_MAX \in Nat
  /\ NULL \notin Objects /\ POISON \notin Objects /\ NULL # POISON

\* The number of hazard pointers, for k of each thread
H(k) == k * NR_THREADS

VARIABLES
  HP,                  \* the H(K) hazard pointers; t's are K*t .. K*t + K-1
  hpstore,             \* per thread: its stores <<index, value>> not yet visible
  rlist,               \* per thread: the retired objects
  rcount,              \* per thread: how many they are said to be
  plist,               \* per thread: what the scan under way has collected
  scan,                \* per thread: i of the loop over HP
  after,               \* per thread: where hazptr_scan() returns to
  mem,                 \* per object: "free", "live" or "retired"
  pc

hpvars == <<HP, hpstore, rlist, rcount, plist, scan, after, mem>>
scanvars == <<rlist, rcount, plist, scan, after>>

Goto(t, from, to) ==
  /\ pc[t] = from
  /\ pc' = [pc EXCEPT ![t] = to]

Mine(t) == K * t .. K * t + K - 1

Drained(t) == hpstore[t] = {}

\* hazptr_init()
HazPtrInit ==
  /\ HP = [i \in 0 .. H(K) - 1 |-> NULL]
  /\ hpstore = [t \in Threads |-> {}]
  /\ rlist = [t \in Threads |-> {}]
  /\ rcount = [t \in Threads |-> 0]
  /\ plist = [t \in Threads |-> {}]
  /\ scan = [t \in Threads |-> 0]
  /\ after = [t \in Threads |-> "idle"]
  /\ mem = [o \in Objects |-> "free"]

\* A store of t to a hazard pointer becomes visible.
DrainStore(t) ==
  \E s \in hpstore[t] :
    /\ HP' = [HP EXCEPT ![s[1]] = s[2]]
    /\ hpstore' = [hpstore EXCEPT ![t] = @ \ {s}]
    /\ UNCHANGED <<scanvars, mem, pc>>

\* WRITE_ONCE(hp->p, o)
StoreHP(t, k, o) ==
  hpstore' = [hpstore EXCEPT ![t] = {s \in @ : s[1] # K * t + k} \union {<<K * t + k, o>>}]

\* hazptr_free_later(): enqueue, and scan when R objects are queued
free_later(t, o, next) ==
  /\ mem' = [mem EXCEPT ![o] = "retired"]
  /\ rlist' = [rlist EXCEPT ![t] = @ \union {o}]
  /\ rcount' = [rcount EXCEPT ![t] = @ + 1]
  /\ IF rcount'[t] >= R
       THEN /\ pc' = [pc EXCEPT ![t] = "scan_mb"]
            /\ after' = [after EXCEPT ![t] = next]
       ELSE /\ pc' = [pc EXCEPT ![t] = next]
            /\ UNCHANGED after

\* hazptr_scan(): smp_mb()
ScanMb(t) ==
  /\ Goto(t, "scan_mb", "scan")
  /\ Drained(t)
  /\ plist' = [plist EXCEPT ![t] = {}]
  /\ scan' = [scan EXCEPT ![t] = 0]
  /\ UNCHANGED <<HP, hpstore, rlist, rcount, after, mem>>

\* Stage 1: one hazard pointer at a time
ScanHP(t) ==
  /\ pc[t] = "scan"
  /\ plist' = [plist EXCEPT ![t] = @ \union ({HP[scan[t]]} \ {NULL})]
  /\ IF scan[t] + 1 < H(K)
       THEN scan' = [scan EXCEPT ![t] = @ + 1] /\ UNCHANGED pc
       ELSE pc' = [pc EXCEPT ![t] = "scan_free"] /\ UNCHANGED scan
  /\ UNCHANGED <<HP, hpstore, rlist, rcount, after, mem>>

\* A difference of pointers, returned as int
compare(a, b) == ((a - b + INT_MAX + 1) % (2 * (INT_MAX + 1))) - (INT_MAX + 1)

\* compare() is an order on S: only then do qsort() and bsearch() do what they are for.
Orders(S) ==
  \A a, b, c \in S :
    /\ compare(a, b) < 0 <=> compare(b, a) > 0
    /\ compare(a, b) <= 0 /\ compare(b, c) <= 0 => compare(a, c) <= 0

\* All objects are less than 2^31 hazptr_head_t apart: no difference is cut off.
Near == \A a, b \in Objects : a - b <= INT_MAX

\* bsearch() returns an element equal to o, and does not miss it in what has an order.
MayFind(t, o) == \E h \in plist[t] : compare(o, h) = 0
MayMiss(t, o) == MayFind(t, o) => ~ Orders(plist[t] \union {o})

\* The sets of objects that may be taken for not hazardous
NotHazardous(t) ==
  {F \in SUBSET rlist[t] : \A o \in rlist[t] : IF o \in F THEN MayMiss(t, o) ELSE MayFind(t, o)}

\* Mutant: rcount is not reset before the hazardous objects go back to rlist.
FreeCountsOn(t) ==
  \E F \in NotHazardous(t) :
    /\ Goto(t, "scan_free", after[t])
    /\ mem' = [o \in Objects |-> IF o \in F THEN "free" ELSE mem[o]]
    /\ rlist' = [rlist EXCEPT ![t] = @ \ F]
    /\ rcount' = [rcount EXCEPT ![t] = @ + Cardinality(rlist'[t])]
    /\ plist' = [plist EXCEPT ![t] = {}]
    /\ scan' = [scan EXCEPT ![t] = 0]
    /\ UNCHANGED <<HP, hpstore, after>>

\* Stages 2 and 3: free what is not hazardous, put the rest back and count it
ScanFree(t) ==
  \E F \in NotHazardous(t) :
    /\ Goto(t, "scan_free", after[t])
    /\ mem' = [o \in Objects |-> IF o \in F THEN "free" ELSE mem[o]]
    /\ rlist' = [rlist EXCEPT ![t] = @ \ F]
    /\ rcount' = [rcount EXCEPT ![t] = Cardinality(rlist'[t])]
    /\ plist' = [plist EXCEPT ![t] = {}]
    /\ scan' = [scan EXCEPT ![t] = 0]
    /\ UNCHANGED <<HP, hpstore, after>>

Scan(t) == ScanMb(t) \/ ScanHP(t) \/ ScanFree(t)

\* hazptr_thread_exit(): clear the hazard pointers
Exit(t) ==
  /\ Goto(t, "idle", "exit")
  /\ hpstore' = [hpstore EXCEPT ![t] = {<<i, NULL>> : i \in Mine(t)}]
  /\ UNCHANGED <<HP, scanvars, mem>>

\* and scan until nothing is left
ExitLoop(t) ==
  /\ \/ /\ rcount[t] > 0
        /\ Goto(t, "exit", "scan_mb")
        /\ after' = [after EXCEPT ![t] = "exit"]
     \/ /\ rcount[t] = 0
        /\ Goto(t, "exit", "exited")
        /\ UNCHANGED after
  /\ UNCHANGED <<HP, hpstore, rlist, rcount, plist, scan, mem>>
=============================================================================
