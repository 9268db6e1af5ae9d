----------------------------- MODULE SmpDesign -----------------------------
(***************************************************************************)
(* The partitioned data structures of CodeSamples/SMPdesign, one program   *)
(* per behaviour: four double-ended queues and the memory allocator.       *)
(***************************************************************************)
EXTENDS DequeBase

CONSTANTS
  FewThreads, FewElems, \* the users and the elements of a queue with smaller instances
  DEQ_N_BKTS,           \* the buckets of lockdeq.c
  OneThreadPerEnd,      \* whether the callers of lockrwdeq.c keep each end to one thread at a time
  HEAD, MAIN, TARGET_POOL_SIZE, GLOBAL_POOL_SIZE, RUNLENGTH

ASSUME SmpDesignAssumption ==
  /\ FewThreads \subseteq Threads /\ FewElems \subseteq Elems
  /\ DEQ_N_BKTS \in {2 ^ n : n \in 0 .. 8}
  /\ HEAD \notin Elems /\ MAIN \notin Threads
  /\ NULL \notin 1 .. GLOBAL_POOL_SIZE
  /\ {TARGET_POOL_SIZE, GLOBAL_POOL_SIZE, RUNLENGTH} \subseteq Nat \ {0}
  /\ OneThreadPerEnd \in BOOLEAN

VARIABLES
  impl,                 \* the program that runs
  lidx, ridx, llock, rlock, bkt, idx,
  ldeq, rdeq,
  counter, readers, writer, ptr, reg,
  globalmem, perthreadmem, goflag, at, p

H == INSTANCE Deques WITH Elems <- FewElems
H4 == INSTANCE Deques WITH Elems <- FewElems, Threads <- FewThreads, PDEQ_N_BKTS <- DEQ_N_BKTS
T == INSTANCE Deques WITH Elems <- FewElems, Threads <- FewThreads
R == INSTANCE Deques WITH Threads <- FewThreads
A == INSTANCE SmpAlloc WITH Threads <- FewThreads

hashed == <<lidx, ridx, bkt, idx>>
locks == <<llock, rlock>>
tandem == <<ldeq, rdeq>>
rw == <<counter, readers, writer, ptr, reg>>
mem == <<globalmem, perthreadmem, goflag, at, p>>
vars == <<impl, dvars, hashed, locks, tandem, rw, mem>>

Init ==
  /\ impl \in {"lockhdeq", "lockdeq", "locktdeq", "lockrwdeq", "smpalloc"}
  /\ IF impl = "lockdeq" THEN H4!HashInit ELSE H!HashInit
  /\ T!TandemInit
  /\ R!RwInit
  /\ A!Init
  /\ Idle

Operations == Pushes \union Pops

\* Only what belongs to the program that runs changes.
Hashed == UNCHANGED <<impl, tandem, rw, mem>>
Tandem == UNCHANGED <<impl, hashed, rw, mem>>
ReadWrite == UNCHANGED <<impl, hashed, locks, tandem, mem>>
Allocator == UNCHANGED <<impl, dvars, hashed, locks, tandem, rw>>

lockhdeq(t) == impl = "lockhdeq" /\ H!HashStep(t) /\ Hashed
lockdeq(t) == impl = "lockdeq" /\ t \in FewThreads /\ H4!HashStep(t) /\ Hashed
locktdeq(t) == impl = "locktdeq" /\ t \in FewThreads /\ T!TandemStep(t) /\ Tandem
lockrwdeq(t) == impl = "lockrwdeq" /\ t \in FewThreads /\ R!RwStep(t) /\ ReadWrite

Step(t) == lockhdeq(t) \/ lockdeq(t) \/ locktdeq(t) \/ lockrwdeq(t)

Call(t, o) ==
  \/ impl = "lockhdeq" /\ H!HashCall(t, o) /\ Hashed
  \/ impl = "lockdeq" /\ t \in FewThreads /\ H4!HashCall(t, o) /\ Hashed
  \/ impl = "locktdeq" /\ t \in FewThreads /\ T!TandemCall(t, o) /\ Tandem
  \/ impl = "lockrwdeq" /\ t \in FewThreads /\ R!RwCall(t, o) /\ ReadWrite

smpalloc == impl = "smpalloc" /\ A!Next /\ Allocator

\* The allocator's test is over.
Over == impl = "smpalloc" /\ at[MAIN] = "check" /\ UNCHANGED vars

Next ==
  \/ \E t \in Threads : Step(t) \/ \E o \in Operations : Call(t, o)
  \/ smpalloc
  \/ Over

\* Threads inside an operation run, and a lock is granted to who keeps asking.
Fairness == \A t \in Threads : SF_vars(Step(t))

Spec == Init /\ [][Next]_vars /\ Fairness

-----------------------------------------------------------------------------
Contents ==
  CASE impl = "lockhdeq"  -> H!Contents
    [] impl = "lockdeq"   -> H4!Contents
    [] impl = "locktdeq"  -> ldeq \o rdeq
    [] impl = "lockrwdeq" -> R!Chain
    [] OTHER              -> <<>>

D == INSTANCE Deque WITH deq <- Contents

\* Each of the queues is one double-ended queue at every moment: whatever the
\* threads at its two ends do at once under different locks, or side by side
\* under a read lock, nothing is lost, doubled or out of order, and a pop
\* returns NULL only when the whole queue is empty, also where pdeq_pop_r()
\* of locktdeq.c lets go of rlock in between.
ImplementsDeque == D!Spec

\* Every push and pop returns: locktdeq.c never waits for its two locks in a
\* circle, and an operation of lockrwdeq.c that gives up its read lock for the
\* write lock gets it.
OperationsReturn == \A t \in Threads : pc[t] # "idle" ~> pc[t] = "idle"

\* Two list operations of lockrwdeq.c that are under way at the same time,
\* under the read lock, neither read nor store to the same pointer, provided
\* that the callers keep each end to one thread at a time: the reservation of
\* two items by a pop and of one by a push keeps the ends of the list apart.
\* (The test for an empty list is not among the pointers.)
EndsApart ==
  OneThreadPerEnd => \A t, u \in FewThreads : t # u => R!Pointers(t) \intersect R!Pointers(u) = {}

\* What melee() of deqtorture.h aborts over: two threads that pop at the same
\* end of lockrwdeq.c do not get the same element.  It does not hold where
\* OneThreadPerEnd is FALSE.
PoppedOnce ==
  \A t, u \in FewThreads :
    t # u /\ {req[t].op, req[u].op} \subseteq Pops /\ req[t].e # NULL => req[t].e # req[u].e

\* A block of smpalloc.c is in one pool or in one thread's hands, never in two
\* and never in none, whatever moves between the pools are under way; the
\* pools stay inside their arrays; and what main() counts in the pools
\* once the test is over is what it started with.
BlocksConserved ==
  impl = "smpalloc" =>
    /\ \A b \in 1 .. GLOBAL_POOL_SIZE : A!Copies(b) = 1
    /\ \A t \in A!Pools : Len(perthreadmem[t]) <= 2 * TARGET_POOL_SIZE
    /\ Len(globalmem) <= GLOBAL_POOL_SIZE
    /\ at[MAIN] = "check" => A!memblocks_available = GLOBAL_POOL_SIZE
=============================================================================
