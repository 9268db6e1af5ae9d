-------------------------- MODULE SmpDesignProofs --------------------------
(***************************************************************************)
(* Two proofs about CodeSamples/SMPdesign, for any number of threads,      *)
(* elements and blocks: the list operations that lockrwdeq.c lets run side *)
(* by side under the read lock share no pointer, and smpalloc.c neither    *)
(* loses nor doubles a block.                                              *)
(*                                                                         *)
(* lockrwdeq.c: the counter falls short of the length of the list by what  *)
(* the operations under way have reserved, so that those that passed the   *)
(* test of the counter have enough items between them.                     *)
(*                                                                         *)
(* smpalloc.c: every block is in one sequence and there in one place; each *)
(* move between the pools takes a sequence apart and puts the parts        *)
(* together again.                                                         *)
(***************************************************************************)
EXTENDS SmpDesign, FiniteSetTheorems, SequenceTheorems, TLAPS

-----------------------------------------------------------------------------
(***************************************************************************)
(* lockrwdeq.c                                                             *)
(***************************************************************************)

\* Between the reservation and the return
Reserving == {"upgrade", "list", "store", "settle"}
Locked == {"list", "store", "settle"}

Nodes == Elems \union {HEAD}

RwTypes ==
  /\ pc \in [Threads -> {"idle"} \union Operations \union Reserving]
  /\ req \in [Threads -> [op : {"none"} \union Operations, e : Elems \union {NULL}]]
  /\ counter \in Int
  /\ readers \subseteq FewThreads
  /\ writer \in FewThreads \union {NULL}
  /\ ptr \in [Nodes -> [prev : Nodes, next : Nodes]]
  /\ DOMAIN reg = FewThreads

\* Where t is in its call, and that one thread at a time works at each end
RwThread(t) ==
  /\ pc[t] \in Operations => req[t].op = pc[t]
  /\ pc[t] \in Reserving => req[t].op \in Operations
  /\ pc[t] # "settle" /\ req[t].op \in Pops => req[t].e = NULL
  /\ req[t].op \in Pushes => req[t].e \in Elems
  /\ t \in readers \/ t = writer <=> pc[t] \in Locked
  /\ \A u \in FewThreads : t # u /\ pc[t] # "idle" /\ pc[u] # "idle" => ~ (Left(t) <=> Left(u))

\* A writer is alone.
WriterAlone == writer # NULL => readers = {}

\* The node at place i of the list c, which is read from the left to the right; the head at either end
Node(c, i) == IF i \in DOMAIN c THEN c[i] ELSE HEAD

\* The pointers q link c into a list, one way and back; an element that is not in it is linked to itself.
Threaded(q, c, to, fro) ==
  \A i \in 0 .. Len(c) : q[Node(c, i)][to] = Node(c, i + 1) /\ q[Node(c, i + 1)][fro] = Node(c, i)

OutOf(q, c) == \A e \in Elems : (\A i \in DOMAIN c : c[i] # e) => q[e] = R!Single(e)

PtrInv(c) == Threaded(ptr, c, "prev", "next") /\ OutOf(ptr, c)

\* What a list operation finds on c
Found(c, r) ==
  CASE r.op = "push_l"              -> [e |-> r.e, in |-> Node(c, 1), out |-> HEAD]
    [] r.op = "push_r"              -> [e |-> r.e, in |-> Node(c, Len(c)), out |-> HEAD]
    [] r.op = "pop_l" /\ c # <<>>  -> [e |-> Node(c, 1), in |-> Node(c, 2), out |-> HEAD]
    [] r.op = "pop_r" /\ c # <<>>  -> [e |-> Node(c, Len(c)), in |-> Node(c, Len(c) - 1), out |-> HEAD]
    [] OTHER                        -> R!NoReg

\* What a list operation has read is still so.
RegInv(c) ==
  \A t \in FewThreads : reg[t] = IF pc[t] = "store" THEN Found(c, req[t]) ELSE R!NoReg

\* An element that is about to be pushed is neither in the list nor pushed by another thread.
Pushing(t) == pc[t] \in Operations \union {"upgrade", "list", "store"} /\ req[t].op \in Pushes

ChainInv(c) ==
  /\ \A i, j \in DOMAIN c : c[i] = c[j] => i = j
  /\ \A t \in FewThreads : Pushing(t) =>
       /\ \A i \in DOMAIN c : c[i] # req[t].e
       /\ \A u \in FewThreads : Pushing(u) /\ req[u].e = req[t].e => u = t

\* What t has reserved and has not put right
Reservation(t) ==
  CASE pc[t] \notin Reserving -> 0
    [] pc[t] = "settle"       -> IF req[t].op \in Pops /\ req[t].e # NULL THEN 1 ELSE 2
    [] OTHER                  -> IF req[t].op \in Pops THEN 2 ELSE 1

\* n is what the thread at that end, if any, has reserved.
ReservedAt(left, n) ==
  \/ n = 0 /\ \A t \in FewThreads : pc[t] # "idle" => ~ (Left(t) <=> left)
  \/ \E t \in FewThreads : pc[t] # "idle" /\ (Left(t) <=> left) /\ n = Reservation(t)

CounterInv(c) ==
  \E m, n \in 0 .. 2 : ReservedAt(TRUE, m) /\ ReservedAt(FALSE, n) /\ counter = Len(c) - m - n

\* The operations under the read lock have an item to spare between them.
SpareInv(c) ==
  \A t \in readers :
    /\ Len(c) > Reservation(t)
    /\ \A u \in readers : t # u => Len(c) > Reservation(t) + Reservation(u)

ListInv(c) ==
  /\ RwTypes
  /\ \A t \in FewThreads : RwThread(t)
  /\ WriterAlone /\ PtrInv(c) /\ RegInv(c) /\ ChainInv(c) /\ CounterInv(c) /\ SpareInv(c)

RwInv == \E c \in Seq(Elems) : ListInv(c)

-----------------------------------------------------------------------------
(***************************************************************************)
(* smpalloc.c                                                              *)
(***************************************************************************)

Blocks == 1 .. GLOBAL_POOL_SIZE

Has(s, b) == \E i \in DOMAIN s : s[i] = b

\* No block is in s twice.
Once(s) == \A i, j \in DOMAIN s : s[i] = s[j] /\ s[i] \in Blocks => i = j

MemTypes ==
  /\ globalmem \in Seq(Blocks)
  /\ perthreadmem \in [A!Pools -> Seq(Blocks)]
  /\ p \in [A!Pools -> Seq(Blocks \union {NULL})]
  /\ at \in [A!Pools -> {"unborn", "free", "put", "alloc", "take", "gone", "sleep", "wait", "check"}]

\* The places where a block may be: the global pool, a thread's pool, a thread's array p
Places == {<<"globalmem", MAIN>>} \union ({"perthreadmem", "p"} \X A!Pools)

Held(k) ==
  CASE k[1] = "globalmem"    -> globalmem
    [] k[1] = "perthreadmem" -> perthreadmem[k[2]]
    [] k[1] = "p"            -> p[k[2]]

\* Each block is in exactly one of them, once.
BlocksInv ==
  /\ \A k \in Places : Once(Held(k))
  /\ \A b \in Blocks : \E k \in Places : Has(Held(k), b)
  /\ \A b \in Blocks : \A k, l \in Places : Has(Held(k), b) /\ Has(Held(l), b) => k = l

\* The pools stay inside their arrays, and a thread that is through has no block in hand.
PoolThread(t) ==
  /\ Len(perthreadmem[t]) <= 2 * TARGET_POOL_SIZE
  /\ at[t] = "put" => Len(perthreadmem[t]) <= TARGET_POOL_SIZE
  /\ at[t] \in {"unborn", "gone", "sleep", "wait", "check"} => p[t] = <<>>
  /\ at[t] \in {"alloc", "take", "gone"} => t # MAIN

PoolInv ==
  /\ \A t \in A!Pools : PoolThread(t)
  /\ at[MAIN] = "check" => \A t \in FewThreads : at[t] = "gone"

MemInv == MemTypes /\ BlocksInv /\ PoolInv

-----------------------------------------------------------------------------
\* The inductive invariant: the other programs leave the list and the pools alone.
IInv ==
  /\ impl # "lockrwdeq" => reg = [t \in FewThreads |-> R!NoReg]
  /\ impl = "lockrwdeq" /\ OneThreadPerEnd => RwInv
  /\ impl = "smpalloc" => MemInv

-----------------------------------------------------------------------------
\* What the assumptions say
LEMMA Setting ==
  /\ FewThreads \subseteq Threads /\ NULL \notin Elems /\ NULL \notin FewThreads /\ HEAD \notin Elems
  /\ MAIN \notin FewThreads /\ NULL \notin Blocks
  /\ TARGET_POOL_SIZE \in Nat \ {0} /\ GLOBAL_POOL_SIZE \in Nat \ {0}
  BY SmpDesignAssumption, DequeAssumption DEF Blocks

-----------------------------------------------------------------------------
(***************************************************************************)
(* lockrwdeq.c, step by step                                               *)
(***************************************************************************)

\* A step of t leaves the locals of the other threads alone.
Others(t) == \A u \in FewThreads : u # t => pc'[u] = pc[u] /\ req'[u] = req[u]

\* The counter follows what t has reserved and what happens to the list.
LEMMA CounterChange ==
  ASSUME NEW c \in Seq(Elems), NEW d \in Seq(Elems), CounterInv(c), NEW t \in FewThreads, NEW left \in BOOLEAN, Others(t),
         pc[t] # "idle" => (Left(t) <=> left),
         pc'[t] # "idle" => (Left(t)' <=> left),
         pc[t] = "idle" => Reservation(t) = 0,
         pc'[t] = "idle" => Reservation(t)' = 0,
         Reservation(t)' \in 0 .. 2,
         \A u \in FewThreads : u # t /\ pc[u] # "idle" => ~ (Left(u) <=> left),
         counter \in Int,
         counter' = counter + (Len(d) - Len(c)) + (Reservation(t) - Reservation(t)')
  PROVE  CounterInv(d)'
<1>1. PICK m, n \in 0 .. 2 : ReservedAt(TRUE, m) /\ ReservedAt(FALSE, n) /\ counter = Len(c) - m - n
  BY DEF CounterInv
<1>2. ASSUME NEW x \in 0 .. 2, ReservedAt(left, x)
      PROVE  x = Reservation(t)
  BY <1>2 DEF ReservedAt
<1>0. PICK r \in 0 .. 2 : r = Reservation(t)'
  OBVIOUS
<1>3. ReservedAt(left, r)'
  <2>1. CASE pc'[t] = "idle"
    <3>1. \A u \in FewThreads : pc'[u] # "idle" => ~ (Left(u)' <=> left)
      BY <2>1 DEF Others, Left
    <3> QED BY <1>0, <2>1, <3>1 DEF ReservedAt
  <2>2. CASE pc'[t] # "idle"
    BY <1>0, <2>2 DEF ReservedAt
  <2> QED BY <2>1, <2>2
<1>4. ASSUME NEW other \in BOOLEAN, ~ (other <=> left), NEW x \in 0 .. 2, ReservedAt(other, x)
      PROVE  ReservedAt(other, x)'
  <2>1. ASSUME NEW u \in FewThreads, u # t
        PROVE  pc'[u] = pc[u] /\ (Left(u)' <=> Left(u)) /\ Reservation(u)' = Reservation(u)
    BY <2>1 DEF Others, Left, Reservation
  <2>2. CASE x = 0 /\ \A u \in FewThreads : pc[u] # "idle" => ~ (Left(u) <=> other)
    <3>1. \A u \in FewThreads : pc'[u] # "idle" => ~ (Left(u)' <=> other)
      BY <1>4, <2>1, <2>2
    <3> QED BY <2>2, <3>1 DEF ReservedAt
  <2>3. ASSUME NEW u \in FewThreads, pc[u] # "idle", Left(u) <=> other, x = Reservation(u)
        PROVE  ReservedAt(other, x)'
    <3>1. u # t
      BY <1>4, <2>3
    <3> QED BY <2>1, <2>3, <3>1 DEF ReservedAt
  <2> QED BY <1>4, <2>2, <2>3 DEF ReservedAt
<1>5. CASE left
  <2>1. m = Reservation(t) /\ ReservedAt(FALSE, n)' /\ ReservedAt(TRUE, r)'
    BY <1>1, <1>2, <1>3, <1>4, <1>5
  <2>2. counter' = Len(d) - r - n
    <3>1. counter' = counter + (Len(d) - Len(c)) + (m - r)
      BY <1>0, <2>1
    <3>2. counter = Len(c) - m - n
      BY <1>1
    <3> QED BY <3>1, <3>2
  <2> QED BY <2>1, <2>2 DEF CounterInv
<1>6. CASE ~ left
  <2>1. n = Reservation(t) /\ ReservedAt(TRUE, m)' /\ ReservedAt(FALSE, r)'
    BY <1>1, <1>2, <1>3, <1>4, <1>6
  <2>2. counter' = Len(d) - m - r
    <3>1. counter' = counter + (Len(d) - Len(c)) + (n - r)
      BY <1>0, <2>1
    <3>2. counter = Len(c) - m - n
      BY <1>1
    <3> QED BY <3>1, <3>2
  <2> QED BY <2>1, <2>2 DEF CounterInv
<1> QED BY <1>5, <1>6

\* What is known about a thread of lockrwdeq.c
LEMMA RwFacts ==
  ASSUME NEW c \in Seq(Elems), ListInv(c), NEW t \in FewThreads
  PROVE  /\ t \in Threads /\ pc[t] \in {"idle"} \union Operations \union Reserving
         /\ req[t].op \in {"none"} \union Operations /\ req[t].e \in Elems \union {NULL}
         /\ DOMAIN req[t] = {"op", "e"} /\ DOMAIN pc = Threads /\ DOMAIN req = Threads /\ DOMAIN reg = FewThreads
         /\ Reservation(t) \in 0 .. 2 /\ Len(c) \in Nat /\ counter \in Int
         /\ pc[t] = "idle" => Reservation(t) = 0
         /\ RwThread(t)
  BY Setting DEF ListInv, RwTypes, Reservation, Operations, Pushes, Pops, Reserving

\* Nobody else works at the end where t is.
LEMMA OtherEnd ==
  ASSUME NEW c \in Seq(Elems), ListInv(c), NEW t \in FewThreads, pc[t] # "idle"
  PROVE  \A u \in FewThreads : u # t /\ pc[u] # "idle" => ~ (Left(u) <=> Left(t))
  BY RwFacts DEF RwThread

\* A step of t that leaves the list alone, and the element it is to push
LEMMA ChainSame ==
  ASSUME NEW c \in Seq(Elems), ChainInv(c), NEW t \in FewThreads, Others(t),
         Pushing(t)' => Pushing(t) /\ req'[t].e = req[t].e
  PROVE  ChainInv(c)'
<1>1. ASSUME NEW u \in FewThreads, Pushing(u)'
      PROVE  Pushing(u) /\ req'[u].e = req[u].e
  BY <1>1 DEF Others, Pushing
<1> QED BY <1>1 DEF ChainInv

\* A step of t that leaves the list alone, and the pointers of the others
LEMMA RegSame ==
  ASSUME NEW c \in Seq(Elems), RegInv(c), NEW t \in FewThreads, Others(t),
         \A u \in FewThreads : u # t => reg'[u] = reg[u],
         reg'[t] = IF pc'[t] = "store" THEN Found(c, req'[t]) ELSE R!NoReg
  PROVE  RegInv(c)'
  BY DEF RegInv, Others

\* A step that leaves the pointers alone
LEMMA PtrSame ==
  ASSUME NEW c \in Seq(Elems), PtrInv(c), ptr' = ptr
  PROVE  PtrInv(c)'
  BY DEF PtrInv, Threaded, OutOf

\* A step of t that leaves the list alone and gives t no part in the read lock
LEMMA SpareSame ==
  ASSUME NEW c \in Seq(Elems), ListInv(c), NEW t \in FewThreads, Others(t),
         readers' = readers \/ readers' = readers \ {t},
         t \in readers' => Reservation(t)' = Reservation(t)
  PROVE  SpareInv(c)'
<1>1. \A u \in readers' : u \in readers /\ Reservation(u)' = Reservation(u)
  <2>1. readers \subseteq FewThreads
    BY DEF ListInv, RwTypes
  <2> QED BY <2>1 DEF Others, Reservation
<1> QED BY <1>1 DEF ListInv, SpareInv

\* The threads that a step of t leaves alone keep their place.
LEMMA RwThreadOthers ==
  ASSUME NEW c \in Seq(Elems), ListInv(c), NEW t \in FewThreads, Others(t), NEW u \in FewThreads, u # t,
         pc[t] = "idle" => \A v \in FewThreads : v # t /\ pc[v] # "idle" => ~ (Left(v) <=> Left(t)'),
         pc[t] # "idle" => (Left(t)' <=> Left(t)) \/ pc'[t] = "idle",
         u \in readers' <=> u \in readers,
         u = writer' <=> u = writer
  PROVE  RwThread(u)'
<1>1. RwThread(u) /\ pc'[u] = pc[u] /\ req'[u] = req[u] /\ (Left(u)' <=> Left(u))
  BY RwFacts DEF Others, Left
<1>2. ASSUME NEW v \in FewThreads, u # v, pc'[u] # "idle", pc'[v] # "idle"
      PROVE  ~ (Left(u)' <=> Left(v)')
  <2>1. CASE v # t
    BY <1>1, <1>2, <2>1 DEF Others, RwThread, Left
  <2>2. CASE v = t
    <3>1. CASE pc[t] = "idle"
      BY <1>1, <1>2, <2>2, <3>1
    <3>2. CASE pc[t] # "idle"
      BY <1>1, <1>2, <2>2, <3>2 DEF RwThread
    <3> QED BY <3>1, <3>2
  <2> QED BY <2>1, <2>2
<1> QED BY <1>1, <1>2 DEF RwThread

\* An element that nobody has: it is linked to itself, which no element of the list is.
LEMMA UnusedIs ==
  ASSUME NEW c \in Seq(Elems), ListInv(c), NEW e \in Elems, ptr[e] = R!Single(e)
  PROVE  \A i \in DOMAIN c : c[i] # e
<1>1. ASSUME NEW i \in DOMAIN c, c[i] = e
      PROVE  FALSE
  <2>1. i \in 0 .. Len(c) /\ Node(c, i) = e
    BY <1>1 DEF Node
  <2>2. ptr[e].prev = Node(c, i + 1) /\ ptr[e].prev = e
    BY <2>1 DEF ListInv, PtrInv, Threaded, OutOf, R!Single
  <2>3. i + 1 \in DOMAIN c /\ c[i + 1] = e
    BY <2>2, Setting DEF Node
  <2> QED BY <1>1, <2>3 DEF ListInv, ChainInv
<1> QED BY <1>1

\* A call
LEMMA RwCallStep ==
  ASSUME OneThreadPerEnd, NEW c \in Seq(Elems), ListInv(c), NEW t \in FewThreads, NEW o \in Operations, R!RwCall(t, o)
  PROVE  ListInv(c)'
<1>1. /\ pc[t] = "idle" /\ pc' = [pc EXCEPT ![t] = o]
      /\ UNCHANGED <<counter, readers, writer, ptr, reg>>
      /\ \E e \in Elems \union {NULL} :
           /\ req' = [req EXCEPT ![t] = [op |-> o, e |-> e]]
           /\ o \in Pops => e = NULL
           /\ o \in Pushes => e \in Elems /\ ptr[e] = R!Single(e) /\ \A u \in FewThreads : req[u].e # e
  <2>1. R!Calls(t, o, {e \in Elems : ptr[e] = R!Single(e) /\ \A u \in FewThreads : req[u].e # e})
    BY DEF R!RwCall
  <2>2. CASE o \in Pops
    BY <2>1, <2>2 DEF R!Calls, R!Goto, R!RwCall, R!rwvars, R!Pops, R!Pushes, Pops, Pushes
  <2>3. CASE o \in Pushes
    BY <2>1, <2>3 DEF R!Calls, R!Goto, R!RwCall, R!rwvars, R!Pops, R!Pushes, Pops, Pushes
  <2> QED BY <2>2, <2>3 DEF Operations
<1>2. PICK e \in Elems \union {NULL} :
        /\ req' = [req EXCEPT ![t] = [op |-> o, e |-> e]]
        /\ o \in Pops => e = NULL
        /\ o \in Pushes => e \in Elems /\ ptr[e] = R!Single(e) /\ \A u \in FewThreads : req[u].e # e
  BY <1>1
<1>3. /\ Others(t) /\ pc'[t] = o /\ req'[t].op = o /\ req'[t].e = e
      /\ Left(t)' <=> o \in {"push_l", "pop_l"}
      /\ Reservation(t) = 0 /\ Reservation(t)' = 0 /\ o # "idle" /\ o \notin Reserving
  BY <1>1, <1>2, RwFacts DEF Others, Left, Reservation, Operations, Pushes, Pops, Reserving
<1>4. \A v \in FewThreads : v # t /\ pc[v] # "idle" => ~ (Left(v) <=> Left(t)')
  BY <1>3 DEF R!RwCall, R!EndFree, R!Left, Left
<1>5. RwTypes'
  BY <1>1, <1>2 DEF ListInv, RwTypes
<1>6. \A u \in FewThreads : RwThread(u)'
  <2>1. RwThread(t)'
    <3>1. t \notin readers /\ t # writer
      BY <1>1, RwFacts DEF RwThread, Locked
    <3>2. \A v \in FewThreads : v # t /\ pc'[v] # "idle" => ~ (Left(t)' <=> Left(v)')
      BY <1>3, <1>4 DEF Others, Left
    <3> QED BY <1>1, <1>2, <1>3, <3>1, <3>2 DEF RwThread, Operations, Locked, Reserving, Pops, Pushes
  <2> QED BY <1>1, <1>3, <1>4, <2>1, RwThreadOthers
<1>7. ChainInv(c)'
  <2>1. ChainInv(c)
    BY DEF ListInv
  <2>2. ASSUME NEW u \in FewThreads, u # t, Pushing(u)'
        PROVE  Pushing(u) /\ req'[u].e = req[u].e
    BY <1>3, <2>2 DEF Others, Pushing
  <2>3. Pushing(t)' => /\ \A i \in DOMAIN c : c[i] # e
                       /\ \A u \in FewThreads : u # t => req'[u].e # e
    BY <1>2, <1>3, UnusedIs DEF Pushing, Others
  <2> QED BY <1>3, <2>1, <2>2, <2>3 DEF ChainInv
<1>8. PtrInv(c)' /\ RegInv(c)' /\ SpareInv(c)' /\ WriterAlone'
  <2>1. reg'[t] = R!NoReg /\ pc'[t] # "store"
    BY <1>1, <1>3, RwFacts DEF ListInv, RegInv, Reserving
  <2>2. t \notin readers
    BY <1>1, RwFacts DEF RwThread, Locked
  <2> QED BY <1>1, <1>3, <2>1, <2>2, PtrSame, RegSame, SpareSame DEF ListInv, WriterAlone
<1>9. CounterInv(c)'
  <2>1. PICK left \in BOOLEAN : Left(t)' <=> left
    OBVIOUS
  <2>2. counter' = counter + (Len(c) - Len(c)) + (Reservation(t) - Reservation(t)')
    BY <1>1, <1>3, RwFacts
  <2>3. \A u \in FewThreads : u # t /\ pc[u] # "idle" => ~ (Left(u) <=> left)
    BY <1>4, <2>1
  <2> QED BY <1>1, <1>3, <2>1, <2>2, <2>3, RwFacts, CounterChange DEF ListInv
<1> QED BY <1>5, <1>6, <1>7, <1>8, <1>9 DEF ListInv

\* rdlock and the reservation: who passes the test has an item to spare.
LEMMA ReserveStep ==
  ASSUME NEW c \in Seq(Elems), ListInv(c), NEW t \in FewThreads, R!Reserve(t)
  PROVE  ListInv(c)'
<1> DEFINE res == IF req[t].op \in Pops THEN 2 ELSE 1
<1>1. /\ pc[t] \in Operations /\ pc[t] = req[t].op /\ pc[t] # "idle" /\ pc[t] \notin Reserving
      /\ Reservation(t) = 0 /\ t \notin readers /\ t # writer /\ RwThread(t)
  BY RwFacts DEF R!Reserve, R!Pops, R!Pushes, Operations, Pops, Pushes, Reserving, Locked, RwThread, Reservation
<1>2. /\ writer = NULL /\ counter' = counter - res
      /\ UNCHANGED <<writer, ptr, reg, req>>
      /\ \/ counter' >= 1 /\ pc' = [pc EXCEPT ![t] = "list"] /\ readers' = readers \union {t}
         \/ ~ (counter' >= 1) /\ pc' = [pc EXCEPT ![t] = "upgrade"] /\ UNCHANGED readers
  BY RwFacts DEF R!Reserve, R!Reserved, R!Pops, Pops, R!Goto
<1>3. /\ Others(t) /\ pc'[t] \in {"list", "upgrade"} /\ Reservation(t)' = res /\ res \in 0 .. 2
      /\ Left(t)' <=> Left(t)
      /\ pc'[t] = "list" <=> t \in readers'
      /\ \A u \in FewThreads : u # t => (u \in readers' <=> u \in readers)
  BY <1>1, <1>2, RwFacts DEF Others, Left, Reservation, Reserving
<1>4. RwTypes'
  BY <1>2, RwFacts DEF ListInv, RwTypes, Reserving
<1>5. \A u \in FewThreads : RwThread(u)'
  <2>1. RwThread(t)'
    <3>1. \A v \in FewThreads : v # t /\ pc'[v] # "idle" => ~ (Left(t)' <=> Left(v)')
      BY <1>1, <1>3 DEF Others, Left, RwThread
    <3>2. t # writer'
      BY <1>1, <1>2
    <3> QED BY <1>1, <1>2, <1>3, <3>1, <3>2 DEF RwThread, Locked, Reserving, Operations, Pushes, Pops
  <2> QED BY <1>1, <1>2, <1>3, <2>1, RwThreadOthers
<1>6. ChainInv(c)'
  <2>1. Pushing(t)' => Pushing(t) /\ req'[t].e = req[t].e
    BY <1>1, <1>2, <1>3 DEF Pushing
  <2> QED BY <1>2, <1>3, <2>1, ChainSame DEF ListInv
<1>7. WriterAlone' /\ PtrInv(c)' /\ RegInv(c)'
  <2>1. reg[t] = R!NoReg /\ pc'[t] # "store"
    BY <1>1, <1>3 DEF ListInv, RegInv, Reserving
  <2> QED BY <1>2, <1>3, <2>1, PtrSame, RegSame DEF ListInv, WriterAlone
<1>8. CounterInv(c)'
  <2>1. PICK left \in BOOLEAN : Left(t) <=> left
    OBVIOUS
  <2>2. counter' = counter + (Len(c) - Len(c)) + (Reservation(t) - Reservation(t)')
    BY <1>1, <1>2, <1>3, RwFacts
  <2>3. \A u \in FewThreads : u # t /\ pc[u] # "idle" => ~ (Left(u) <=> left)
    BY <1>1, <2>1, OtherEnd
  <2> QED BY <1>1, <1>2, <1>3, <2>1, <2>2, <2>3, RwFacts, CounterChange DEF ListInv
<1>9. SpareInv(c)'
  <2>1. CASE pc'[t] # "list"
    BY <1>1, <1>2, <1>3, <2>1, SpareSame
  <2>2. CASE pc'[t] = "list"
    <3>1. PICK m, n \in 0 .. 2 : ReservedAt(TRUE, m)' /\ ReservedAt(FALSE, n)' /\ counter' = Len(c) - m - n
      BY <1>8 DEF CounterInv
    <3>2. ASSUME NEW v \in FewThreads, pc'[v] # "idle"
          PROVE  Reservation(v)' = m \/ Reservation(v)' = n
      <4>1. ASSUME NEW w \in FewThreads, pc'[w] # "idle", Left(w)' <=> Left(v)'
            PROVE  w = v
        BY <1>5, <3>2, <4>1 DEF RwThread
      <4>2. CASE Left(v)'
        BY <3>1, <3>2, <4>1, <4>2 DEF ReservedAt
      <4>3. CASE ~ Left(v)'
        BY <3>1, <3>2, <4>1, <4>3 DEF ReservedAt
      <4> QED BY <4>2, <4>3
    <3>3. counter' >= 1 /\ Len(c) \in Nat /\ counter' \in Int
      BY <1>2, <1>3, <2>2, RwFacts
    <3>4. ASSUME NEW v \in readers'
          PROVE  v \in FewThreads /\ pc'[v] # "idle" /\ Reservation(v)' \in 0 .. 2
      <4>1. v \in FewThreads /\ RwThread(v)'
        BY <1>4, <1>5, <3>4 DEF RwTypes
      <4> QED BY <3>4, <4>1 DEF RwThread, Locked, Reservation
    <3>5. ASSUME NEW v \in readers', NEW w \in readers', v # w
          PROVE  Len(c) > Reservation(v)' + Reservation(w)'
      <4>1. ~ (Left(v)' <=> Left(w)')
        BY <1>5, <3>4, <3>5 DEF RwThread
      <4>2. \A x \in FewThreads : pc'[x] # "idle" =>
              (Left(x)' => Reservation(x)' = m) /\ (~ Left(x)' => Reservation(x)' = n)
        <5>1. ASSUME NEW x \in FewThreads, pc'[x] # "idle"
              PROVE  \A y \in FewThreads : pc'[y] # "idle" /\ (Left(y)' <=> Left(x)') => y = x
          BY <1>5, <5>1 DEF RwThread
        <5> QED BY <3>1, <5>1 DEF ReservedAt
      <4>3. Reservation(v)' + Reservation(w)' = m + n
        BY <3>4, <3>5, <4>1, <4>2
      <4> QED BY <3>1, <3>3, <4>3
    <3>6. ASSUME NEW v \in readers'
          PROVE  Len(c) > Reservation(v)'
      BY <3>1, <3>2, <3>3, <3>4, <3>6
    <3> QED BY <3>5, <3>6 DEF SpareInv
  <2> QED BY <2>1, <2>2
<1> QED BY <1>4, <1>5, <1>6, <1>7, <1>8, <1>9 DEF ListInv

\* wrlock: nobody else holds the lock.
LEMMA WrlockStep ==
  ASSUME NEW c \in Seq(Elems), ListInv(c), NEW t \in FewThreads, R!Wrlock(t)
  PROVE  ListInv(c)'
<1>1. /\ pc[t] = "upgrade" /\ pc' = [pc EXCEPT ![t] = "list"] /\ readers = {} /\ writer = NULL /\ writer' = t
      /\ UNCHANGED <<counter, readers, ptr, reg, req>>
  BY DEF R!Wrlock, R!Goto
<1>2. /\ Others(t) /\ pc'[t] = "list" /\ Reservation(t)' = Reservation(t) /\ (Left(t)' <=> Left(t))
      /\ RwThread(t)
  BY <1>1, RwFacts DEF Others, Left, Reservation, Reserving
<1>3. RwTypes'
  BY <1>1, RwFacts DEF ListInv, RwTypes, Reserving
<1>4. \A u \in FewThreads : RwThread(u)'
  <2>1. RwThread(t)'
    BY <1>1, <1>2 DEF RwThread, Locked, Reserving, Operations, Pushes, Pops, Others, Left
  <2>2. \A u \in FewThreads : u # t => (u = writer' <=> u = writer)
    BY <1>1, Setting
  <2> QED BY <1>1, <1>2, <2>1, <2>2, RwThreadOthers
<1>5. ChainInv(c)' /\ WriterAlone' /\ PtrInv(c)' /\ RegInv(c)' /\ SpareInv(c)'
  <2>1. Pushing(t)' => Pushing(t) /\ req'[t].e = req[t].e
    BY <1>1 DEF Pushing
  <2>2. reg[t] = R!NoReg /\ pc'[t] # "store"
    BY <1>1, <1>2 DEF ListInv, RegInv
  <2>3. WriterAlone' /\ SpareInv(c)'
    BY <1>1 DEF WriterAlone, SpareInv
  <2> QED BY <1>1, <1>2, <2>1, <2>2, <2>3, ChainSame, PtrSame, RegSame DEF ListInv
<1>6. CounterInv(c)'
  <2>1. PICK left \in BOOLEAN : Left(t) <=> left
    OBVIOUS
  <2>2. counter' = counter + (Len(c) - Len(c)) + (Reservation(t) - Reservation(t)')
    BY <1>1, <1>2, RwFacts
  <2>3. \A u \in FewThreads : u # t /\ pc[u] # "idle" => ~ (Left(u) <=> left)
    BY <1>1, <2>1, OtherEnd
  <2>4. pc[t] # "idle" /\ pc'[t] # "idle"
    BY <1>1, <1>2
  <2> QED BY <1>1, <1>2, <2>1, <2>2, <2>3, <2>4, RwFacts, CounterChange DEF ListInv
<1> QED BY <1>3, <1>4, <1>5, <1>6 DEF ListInv

\* A list that is not empty has two ends.
LEMMA EndsAre ==
  ASSUME NEW c \in Seq(Elems), c # <<>>
  PROVE  Len(c) >= 1 /\ Head(c) = c[1] /\ Last(c) = c[Len(c)] /\ Head(c) \in Elems /\ Last(c) \in Elems
<1>1. Len(c) >= 1 /\ \A i \in 1 .. Len(c) : c[i] \in Elems
  BY EmptySeq
<1> QED BY <1>1 DEF Last

\* What the head and the nodes at the ends of the list point to
LEMMA EndsLinked ==
  ASSUME NEW c \in Seq(Elems), PtrInv(c)
  PROVE  /\ ptr[HEAD].prev = Node(c, 1) /\ ptr[HEAD].next = Node(c, Len(c))
         /\ c = <<>> => Node(c, 1) = HEAD /\ Node(c, Len(c)) = HEAD
         /\ c # <<>> => /\ Node(c, 1) = c[1] /\ Node(c, Len(c)) = c[Len(c)]
                        /\ ptr[c[1]].prev = Node(c, 2) /\ ptr[c[1]].next = HEAD
                        /\ ptr[c[Len(c)]].prev = HEAD /\ ptr[c[Len(c)]].next = Node(c, Len(c) - 1)
<1>1. Len(c) \in Nat /\ DOMAIN c = 1 .. Len(c)
  OBVIOUS
<1>2. Node(c, 0) = HEAD /\ Node(c, Len(c) + 1) = HEAD
  BY <1>1 DEF Node
<1>3. ptr[HEAD].prev = Node(c, 1) /\ ptr[HEAD].next = Node(c, Len(c))
  <2>1. 0 \in 0 .. Len(c) /\ Len(c) \in 0 .. Len(c) /\ 0 + 1 = 1
    BY <1>1
  <2> QED BY <1>2, <2>1 DEF PtrInv, Threaded, OutOf
<1>4. CASE c = <<>>
  BY <1>3, <1>4 DEF Node
<1>5. CASE c # <<>>
  <2>1. Len(c) >= 1 /\ 1 \in 0 .. Len(c) /\ Len(c) - 1 \in 0 .. Len(c) /\ 1 + 1 = 2 /\ (Len(c) - 1) + 1 = Len(c)
    BY <1>1, <1>5, EndsAre
  <2>2. Node(c, 1) = c[1] /\ Node(c, Len(c)) = c[Len(c)]
    BY <1>1, <2>1 DEF Node
  <2>3. ptr[Node(c, 1)].prev = Node(c, 2) /\ ptr[Node(c, Len(c))].next = Node(c, Len(c) - 1)
    BY <2>1 DEF PtrInv, Threaded, OutOf
  <2>4. ptr[Node(c, 1)].next = Node(c, 0) /\ ptr[Node(c, Len(c))].prev = Node(c, Len(c) + 1)
    <3>1. 0 \in 0 .. Len(c) /\ Len(c) \in 0 .. Len(c) /\ 0 + 1 = 1
      BY <1>1
    <3> QED BY <3>1 DEF PtrInv, Threaded, OutOf
  <2> QED BY <1>2, <1>3, <1>5, <2>2, <2>3, <2>4
<1> QED BY <1>4, <1>5

\* What a list operation reads
LEMMA LoadsAre ==
  ASSUME NEW c \in Seq(Elems), ListInv(c), NEW t \in FewThreads, req[t].op \in Operations
  PROVE  R!Loads(t) = Found(c, req[t])
<1>1. PtrInv(c)
  BY DEF ListInv
<1>2. /\ ptr[HEAD].prev = Node(c, 1) /\ ptr[HEAD].next = Node(c, Len(c))
      /\ c = <<>> => Node(c, Len(c)) = HEAD
      /\ c # <<>> => /\ Node(c, 1) = c[1] /\ Node(c, Len(c)) = c[Len(c)] /\ c[Len(c)] # HEAD
                     /\ ptr[c[1]].prev = Node(c, 2) /\ ptr[c[1]].next = HEAD
                     /\ ptr[c[Len(c)]].prev = HEAD /\ ptr[c[Len(c)]].next = Node(c, Len(c) - 1)
  BY <1>1, EndsLinked, EndsAre, Setting
<1> QED BY <1>2 DEF R!Loads, R!Inwards, R!Outwards, R!Left, R!Pushes, R!Pops, Found, Operations, Pushes, Pops

\* A list operation begins.
LEMMA ListBeginStep ==
  ASSUME NEW c \in Seq(Elems), ListInv(c), NEW t \in FewThreads, R!ListBegin(t)
  PROVE  ListInv(c)'
<1>1. /\ pc[t] = "list" /\ pc' = [pc EXCEPT ![t] = "store"]
      /\ reg' = [reg EXCEPT ![t] = Found(c, req[t])]
      /\ UNCHANGED <<counter, readers, writer, ptr, req>>
  BY LoadsAre, RwFacts DEF R!ListBegin, R!Goto, RwThread, Reserving
<1>2. /\ Others(t) /\ pc'[t] = "store" /\ Reservation(t)' = Reservation(t) /\ (Left(t)' <=> Left(t))
      /\ RwThread(t) /\ req[t].op \in Operations
  BY <1>1, RwFacts DEF Others, Left, Reservation, Reserving, RwThread
<1>3. RwTypes'
  BY <1>1 DEF ListInv, RwTypes, Reserving
<1>4. \A u \in FewThreads : RwThread(u)'
  <2>1. RwThread(t)'
    BY <1>1, <1>2 DEF RwThread, Locked, Reserving, Operations, Pushes, Pops, Others, Left
  <2> QED BY <1>1, <1>2, <2>1, RwThreadOthers
<1>5. ChainInv(c)' /\ WriterAlone' /\ PtrInv(c)' /\ RegInv(c)' /\ SpareInv(c)'
  <2>1. Pushing(t)' => Pushing(t) /\ req'[t].e = req[t].e
    BY <1>1 DEF Pushing
  <2>2. reg'[t] = Found(c, req'[t]) /\ pc'[t] = "store" /\ \A u \in FewThreads : u # t => reg'[u] = reg[u]
    BY <1>1, <1>2, RwFacts
  <2> QED BY <1>1, <1>2, <2>1, <2>2, ChainSame, PtrSame, RegSame, SpareSame DEF ListInv, WriterAlone
<1>6. CounterInv(c)'
  <2>1. PICK left \in BOOLEAN : Left(t) <=> left
    OBVIOUS
  <2>2. counter' = counter + (Len(c) - Len(c)) + (Reservation(t) - Reservation(t)')
    BY <1>1, <1>2, RwFacts
  <2>3. \A u \in FewThreads : u # t /\ pc[u] # "idle" => ~ (Left(u) <=> left)
    BY <1>1, <2>1, OtherEnd
  <2>4. pc[t] # "idle" /\ pc'[t] # "idle"
    BY <1>1, <1>2
  <2> QED BY <1>1, <1>2, <2>1, <2>2, <2>3, <2>4, RwFacts, CounterChange DEF ListInv
<1> QED BY <1>3, <1>4, <1>5, <1>6 DEF ListInv

\* d is c with e at its left end, or at its right end; d is c without what it has at one of its ends.
PushedLeft(c, d, e) ==
  /\ d \in Seq(Elems) /\ Len(d) = Len(c) + 1 /\ d[1] = e
  /\ \A i \in DOMAIN c : i + 1 \in DOMAIN d /\ d[i + 1] = c[i]
  /\ \A i \in DOMAIN d : i = 1 \/ (i - 1 \in DOMAIN c /\ d[i] = c[i - 1])

PushedRight(c, d, e) ==
  /\ d \in Seq(Elems) /\ Len(d) = Len(c) + 1 /\ d[Len(c) + 1] = e
  /\ \A i \in DOMAIN c : i \in DOMAIN d /\ d[i] = c[i]
  /\ \A i \in DOMAIN d : i = Len(c) + 1 \/ i \in DOMAIN c

PoppedLeft(c, d) ==
  /\ d \in Seq(Elems) /\ Len(d) = Len(c) - 1
  /\ \A i \in DOMAIN d : i + 1 \in DOMAIN c /\ d[i] = c[i + 1]

PoppedRight(c, d) ==
  /\ d \in Seq(Elems) /\ Len(d) = Len(c) - 1
  /\ \A i \in DOMAIN d : i \in DOMAIN c /\ d[i] = c[i]

\* deq_push_l() on the list
LEMMA PushedLeftIs ==
  ASSUME NEW c \in Seq(Elems), NEW e \in Elems
  PROVE  PushedLeft(c, <<e>> \o c, e)
  BY DEF PushedLeft

\* deq_push_r() on the list
LEMMA PushedRightIs ==
  ASSUME NEW c \in Seq(Elems), NEW e \in Elems
  PROVE  PushedRight(c, c \o <<e>>, e)
  BY DEF PushedRight

\* deq_pop_l() on the list
LEMMA PoppedLeftIs ==
  ASSUME NEW c \in Seq(Elems), c # <<>>
  PROVE  PoppedLeft(c, Tail(c))
  BY EndsAre DEF PoppedLeft

\* deq_pop_r() on the list
LEMMA PoppedRightIs ==
  ASSUME NEW c \in Seq(Elems), c # <<>>
  PROVE  PoppedRight(c, Front(c))
<1> DEFINE d == SubSeq(c, 1, Len(c) - 1)
<1>1. Len(c) \in Nat /\ Len(c) >= 1 /\ DOMAIN c = 1 .. Len(c) /\ \A i \in 1 .. Len(c) : c[i] \in Elems
  BY EndsAre
<1>2. d \in Seq(Elems) /\ Len(d) = Len(c) - 1 /\ \A i \in 1 .. Len(c) - 1 : d[i] = c[i]
  BY <1>1
<1> HIDE DEF d
<1>3. DOMAIN d = 1 .. Len(c) - 1
  BY <1>2
<1> QED BY <1>1, <1>2, <1>3 DEF PoppedRight, Front, d

\* What happens at the left end leaves what is found at the right end as it is.
LEMMA RightKept ==
  ASSUME NEW c \in Seq(Elems), NEW d \in Seq(Elems), Len(c) >= 3, NEW k \in {-1, 1},
         Len(d) = Len(c) + k,
         \A i \in {Len(c) - 1, Len(c)} : d[i + k] = c[i],
         NEW r, r.op \in {"push_r", "pop_r"}
  PROVE  Found(d, r) = Found(c, r)
<1> DEFINE n == Len(c)
<1>1. n \in Nat /\ Len(d) \in Nat /\ DOMAIN c = 1 .. n /\ DOMAIN d = 1 .. Len(d) /\ c # <<>> /\ d # <<>>
  OBVIOUS
<1>2. Node(c, n) = c[n] /\ Node(c, n - 1) = c[n - 1]
  BY <1>1 DEF Node
<1>3. Node(d, Len(d)) = c[n] /\ Node(d, Len(d) - 1) = c[n - 1]
  <2>1. Len(d) = n + k /\ Len(d) - 1 = (n - 1) + k
    BY <1>1
  <2>2. n + k \in 1 .. Len(d) /\ (n - 1) + k \in 1 .. Len(d)
    BY <1>1, <2>1
  <2>3. d[n + k] = c[n] /\ d[(n - 1) + k] = c[n - 1]
    OBVIOUS
  <2>4. Len(d) \in DOMAIN d /\ Len(d) - 1 \in DOMAIN d
    BY <1>1, <2>1, <2>2
  <2> QED BY <2>1, <2>3, <2>4 DEF Node
<1> QED BY <1>1, <1>2, <1>3 DEF Found

\* What happens at the right end leaves what is found at the left end as it is.
LEMMA LeftKept ==
  ASSUME NEW c \in Seq(Elems), NEW d \in Seq(Elems), Len(c) >= 2, Len(d) >= 2,
         d[1] = c[1], d[2] = c[2],
         NEW r, r.op \in {"push_l", "pop_l"}
  PROVE  Found(d, r) = Found(c, r)
<1>1. 1 \in DOMAIN c /\ 2 \in DOMAIN c /\ 1 \in DOMAIN d /\ 2 \in DOMAIN d /\ c # <<>> /\ d # <<>>
  OBVIOUS
<1>2. Node(d, 1) = Node(c, 1) /\ Node(d, 2) = Node(c, 2)
  BY <1>1 DEF Node
<1> QED BY <1>1, <1>2 DEF Found

Pointing == [Nodes -> [prev : Nodes, next : Nodes]]

\* The list c the other way round
Mirror(c) == [i \in 1 .. Len(c) |-> c[Len(c) + 1 - i]]

LEMMA MirrorIs ==
  ASSUME NEW c \in Seq(Elems)
  PROVE  /\ Mirror(c) \in Seq(Elems) /\ Len(Mirror(c)) = Len(c) /\ Mirror(Mirror(c)) = c
         /\ \A i \in 0 .. Len(c) + 1 : Node(Mirror(c), i) = Node(c, Len(c) + 1 - i)
<1>1. Len(c) \in Nat /\ DOMAIN c = 1 .. Len(c) /\ \A i \in 1 .. Len(c) : c[i] \in Elems
  OBVIOUS
<1>2. Mirror(c) \in [1 .. Len(c) -> Elems]
  BY <1>1 DEF Mirror
<1>3. Mirror(c) \in Seq(Elems) /\ Len(Mirror(c)) = Len(c)
  BY <1>1, <1>2, SeqDef, LenProperties
<1>4. Mirror(Mirror(c)) = c
  <2>1. Mirror(Mirror(c)) = [i \in 1 .. Len(c) |-> Mirror(c)[Len(c) + 1 - i]]
    BY <1>3 DEF Mirror
  <2>2. \A i \in 1 .. Len(c) : Mirror(c)[Len(c) + 1 - i] = c[i]
    BY <1>1 DEF Mirror
  <2> QED BY <1>1, <2>1, <2>2
<1>5. ASSUME NEW i \in 0 .. Len(c) + 1
      PROVE  Node(Mirror(c), i) = Node(c, Len(c) + 1 - i)
  <2>1. DOMAIN Mirror(c) = 1 .. Len(c)
    BY <1>2
  <2> QED BY <1>1, <2>1 DEF Node, Mirror
<1> QED BY <1>3, <1>4, <1>5

\* A list read the other way round is threaded the other way round.
LEMMA MirrorThreaded ==
  ASSUME NEW q, NEW c \in Seq(Elems), NEW to, NEW fro, Threaded(q, c, to, fro)
  PROVE  Threaded(q, Mirror(c), fro, to)
<1>1. ASSUME NEW i \in 0 .. Len(c)
      PROVE  /\ q[Node(Mirror(c), i)][fro] = Node(Mirror(c), i + 1)
             /\ q[Node(Mirror(c), i + 1)][to] = Node(Mirror(c), i)
  <2>1. Len(c) \in Nat /\ Len(c) - i \in 0 .. Len(c) /\ (Len(c) - i) + 1 = Len(c) + 1 - i /\ Len(c) + 1 - (i + 1) = Len(c) - i /\ i + 1 \in 0 .. Len(c) + 1 /\ i \in 0 .. Len(c) + 1
    OBVIOUS
  <2>2. Node(Mirror(c), i) = Node(c, Len(c) + 1 - i) /\ Node(Mirror(c), i + 1) = Node(c, Len(c) - i)
    BY <2>1, MirrorIs
  <2> QED BY <2>1, <2>2 DEF Threaded
<1> QED BY <1>1, MirrorIs DEF Threaded

\* The elements of a list are those of its mirror image.
LEMMA MirrorElements ==
  ASSUME NEW c \in Seq(Elems)
  PROVE  /\ \A e : (\A i \in DOMAIN c : c[i] # e) <=> (\A i \in DOMAIN Mirror(c) : Mirror(c)[i] # e)
         /\ (\A i, j \in DOMAIN c : c[i] = c[j] => i = j) =>
              \A i, j \in DOMAIN Mirror(c) : Mirror(c)[i] = Mirror(c)[j] => i = j
<1>1. Len(c) \in Nat /\ DOMAIN c = 1 .. Len(c) /\ DOMAIN Mirror(c) = 1 .. Len(c)
  BY DEF Mirror
<1>2. \A i \in 1 .. Len(c) : Len(c) + 1 - i \in 1 .. Len(c) /\ Mirror(c)[i] = c[Len(c) + 1 - i]
                              /\ Mirror(c)[Len(c) + 1 - i] = c[i]
  BY <1>1 DEF Mirror
<1>3. \A i, j \in 1 .. Len(c) : Len(c) + 1 - i = Len(c) + 1 - j => i = j
  BY <1>1
<1> QED BY <1>1, <1>2, <1>3

\* Pointer f of node n is stored; both pointers of node n are.
Stored(q, n, f, x) == [q EXCEPT ![n][f] = x]
Placed(q, n, x) == [q EXCEPT ![n] = x]

\* w differs from q in one pointer.
OnePointer(w, q, n, f, x) ==
  /\ w \in Pointing
  /\ \A m \in Nodes : \A g \in {"prev", "next"} : w[m][g] = IF m = n /\ g = f THEN x ELSE q[m][g]
  /\ \A m \in Nodes : m # n => w[m] = q[m]

LEMMA PointerStored ==
  ASSUME NEW q \in Pointing, NEW n \in Nodes, NEW x \in Nodes, NEW f \in {"prev", "next"}
  PROVE  OnePointer(Stored(q, n, f, x), q, n, f, x)
<1>1. CASE f = "prev"
  BY <1>1 DEF Pointing, Stored, OnePointer
<1>2. CASE f = "next"
  BY <1>2 DEF Pointing, Stored, OnePointer
<1> QED BY <1>1, <1>2

\* w differs from q in one node.
OneNode(w, q, n, x) ==
  w \in Pointing /\ \A m \in Nodes : w[m] = IF m = n THEN x ELSE q[m]

LEMMA NodePlaced ==
  ASSUME NEW q \in Pointing, NEW n \in Nodes, NEW x \in [prev : Nodes, next : Nodes]
  PROVE  OneNode(Placed(q, n, x), q, n, x)
BY DEF Pointing, Placed, OneNode

\* The stores of an insertion, of a removal, and what they leave behind
Link(q, e, in, to, fro) ==
  [q EXCEPT ![in][fro] = e, ![e] = [@ EXCEPT ![to] = in, ![fro] = HEAD], ![HEAD][to] = e]

Unlink(q, e, in, to, fro) ==
  [q EXCEPT ![HEAD][to] = in, ![in][fro] = HEAD, ![e] = R!Single(e)]

IsLinked(w, q, e, in, to, fro) ==
  /\ w \in Pointing
  /\ \A n \in Nodes :
       /\ w[n][to] = IF n = HEAD THEN e ELSE IF n = e THEN in ELSE q[n][to]
       /\ w[n][fro] = IF n = e THEN HEAD ELSE IF n = in THEN e ELSE q[n][fro]
       /\ n \notin {HEAD, e, in} => w[n] = q[n]

IsUnlinked(w, q, e, in, to, fro) ==
  /\ w \in Pointing
  /\ \A n \in Nodes : n # e =>
       /\ w[n][to] = IF n = HEAD THEN in ELSE q[n][to]
       /\ w[n][fro] = IF n = in THEN HEAD ELSE q[n][fro]
       /\ n \notin {HEAD, in} => w[n] = q[n]
  /\ w[e] = R!Single(e)

LEMMA LinkStored ==
  ASSUME NEW q \in Pointing, NEW e \in Nodes, NEW in \in Nodes, NEW to, NEW fro,
         <<to, fro>> \in {<<"prev", "next">>, <<"next", "prev">>}, e # HEAD, e # in, HEAD \in Nodes,
         NEW w, w = Link(q, e, in, to, fro)
  PROVE  IsLinked(w, q, e, in, to, fro)
<1>1. to \in {"prev", "next"} /\ fro \in {"prev", "next"} /\ to # fro
  OBVIOUS
<1>2. PICK q1 : q1 = Stored(q, in, fro, e)
  OBVIOUS
<1>3. PICK x : x = [q1[e] EXCEPT ![to] = in, ![fro] = HEAD]
  OBVIOUS
<1>4. PICK q2 : q2 = Placed(q1, e, x)
  OBVIOUS
<1>5. w = Stored(q2, HEAD, to, e)
  BY <1>2, <1>3, <1>4 DEF Stored, Placed, Link
<1>6. OnePointer(q1, q, in, fro, e)
  BY ONLY <1>1, <1>2, q \in Pointing, in \in Nodes, e \in Nodes, PointerStored
<1>7. x \in [prev : Nodes, next : Nodes] /\ x[to] = in /\ x[fro] = HEAD
  <2>1. q1[e] \in [prev : Nodes, next : Nodes]
    BY <1>6 DEF Pointing, OnePointer
  <2>2. CASE to = "prev" /\ fro = "next"
    BY ONLY <1>3, <2>1, <2>2, in \in Nodes, HEAD \in Nodes
  <2>3. CASE to = "next" /\ fro = "prev"
    BY ONLY <1>3, <2>1, <2>3, in \in Nodes, HEAD \in Nodes
  <2> QED BY <2>2, <2>3
<1>8. OneNode(q2, q1, e, x)
  <2>1. q1 \in Pointing
    BY <1>6 DEF OnePointer
  <2> QED BY ONLY <1>4, <1>7, <2>1, e \in Nodes, NodePlaced
<1>9. OnePointer(w, q2, HEAD, to, e)
  <2>1. q2 \in Pointing
    BY <1>8 DEF OneNode
  <2> QED BY ONLY <1>1, <1>5, <2>1, HEAD \in Nodes, e \in Nodes, PointerStored
<1> QED BY ONLY <1>1, <1>6, <1>7, <1>8, <1>9, e # HEAD, e # in, e \in Nodes, in \in Nodes, HEAD \in Nodes DEF OnePointer, OneNode, IsLinked

LEMMA UnlinkStored ==
  ASSUME NEW q \in Pointing, NEW e \in Nodes, NEW in \in Nodes, NEW to, NEW fro,
         <<to, fro>> \in {<<"prev", "next">>, <<"next", "prev">>}, e # HEAD, e # in, HEAD \in Nodes,
         NEW w, w = Unlink(q, e, in, to, fro)
  PROVE  IsUnlinked(w, q, e, in, to, fro)
<1>1. to \in {"prev", "next"} /\ fro \in {"prev", "next"} /\ to # fro
  OBVIOUS
<1>2. PICK q1 : q1 = Stored(q, HEAD, to, in)
  OBVIOUS
<1>3. PICK q2 : q2 = Stored(q1, in, fro, HEAD)
  OBVIOUS
<1>4. w = Placed(q2, e, R!Single(e))
  BY <1>2, <1>3 DEF Stored, Placed, Unlink
<1>5. OnePointer(q1, q, HEAD, to, in)
  BY ONLY <1>1, <1>2, q \in Pointing, in \in Nodes, HEAD \in Nodes, PointerStored
<1>6. OnePointer(q2, q1, in, fro, HEAD)
  <2>1. q1 \in Pointing
    BY <1>5 DEF OnePointer
  <2> QED BY ONLY <1>1, <1>3, <2>1, in \in Nodes, HEAD \in Nodes, PointerStored
<1>7. R!Single(e) \in [prev : Nodes, next : Nodes]
  BY DEF R!Single
<1>8. OneNode(w, q2, e, R!Single(e))
  <2>1. q2 \in Pointing
    BY <1>6 DEF OnePointer
  <2> QED BY ONLY <1>4, <1>7, <2>1, e \in Nodes, NodePlaced
<1> QED BY ONLY <1>1, <1>5, <1>6, <1>8, e # HEAD, e # in, e \in Nodes, in \in Nodes, HEAD \in Nodes DEF OnePointer, OneNode, IsUnlinked

\* cds_list_add_tail(), and by way of the mirror image cds_list_add()
LEMMA LinkedIs ==
  ASSUME NEW c \in Seq(Elems), NEW d \in Seq(Elems), NEW e \in Elems, NEW to, NEW fro,
         <<to, fro>> \in {<<"prev", "next">>, <<"next", "prev">>},
         NEW q \in Pointing, Threaded(q, c, to, fro), OutOf(q, c), NEW w,
         \A i, j \in DOMAIN c : c[i] = c[j] => i = j, \A i \in DOMAIN c : c[i] # e,
         PushedLeft(c, d, e), NEW in, in = Node(c, 1),
         w = Link(q, e, in, to, fro)
  PROVE  w \in Pointing /\ Threaded(w, d, to, fro) /\ OutOf(w, d)
<1>1. /\ Len(c) \in Nat /\ DOMAIN c = 1 .. Len(c) /\ DOMAIN d = 1 .. Len(d) /\ Len(d) = Len(c) + 1
      /\ \A i \in 1 .. Len(c) : c[i] \in Elems /\ c[i] # HEAD
      /\ e # HEAD /\ in \in Nodes /\ in # e /\ to # fro
  BY Setting DEF PushedLeft, Node, Nodes
<1>2. \A n \in Nodes : DOMAIN q[n] = {"prev", "next"} /\ q[n].prev \in Nodes /\ q[n].next \in Nodes
  BY DEF Pointing
<1>3. /\ w \in Pointing
      /\ \A n \in Nodes :
           /\ w[n][to] = IF n = HEAD THEN e ELSE IF n = e THEN in ELSE q[n][to]
           /\ w[n][fro] = IF n = e THEN HEAD ELSE IF n = in THEN e ELSE q[n][fro]
           /\ n \notin {HEAD, e, in} => w[n] = q[n]
  <2>1. HEAD \in Nodes /\ e \in Nodes
    BY <1>1 DEF Nodes
  <2>2. IsLinked(w, q, e, in, to, fro)
    BY <1>1, <2>1, LinkStored
  <2> QED BY <2>2 DEF IsLinked
<1>4. Node(d, 0) = HEAD /\ Node(d, 1) = e /\ \A i \in 1 .. Len(c) + 1 : Node(d, i + 1) = Node(c, i)
  <2>1. 0 \notin DOMAIN d /\ 1 \in DOMAIN d /\ d[1] = e
    BY <1>1 DEF PushedLeft
  <2>2. ASSUME NEW i \in 1 .. Len(c) + 1
        PROVE  Node(d, i + 1) = Node(c, i)
    <3>1. CASE i \in 1 .. Len(c)
      <4>1. i \in DOMAIN c /\ i + 1 \in DOMAIN d /\ d[i + 1] = c[i]
        BY <1>1, <3>1 DEF PushedLeft
      <4> QED BY <4>1 DEF Node
    <3>2. CASE i = Len(c) + 1
      <4>1. i \notin DOMAIN c /\ i + 1 \notin DOMAIN d
        BY <1>1, <3>2
      <4> QED BY <4>1 DEF Node
    <3> QED BY <1>1, <2>2, <3>1, <3>2
  <2> QED BY <2>1, <2>2 DEF Node
<1>5. \A i \in 0 .. Len(c) + 1 : Node(c, i) \in Nodes /\ Node(c, i) # e
  BY <1>1 DEF Node, Nodes
<1>6. ASSUME NEW i \in 0 .. Len(d)
      PROVE  w[Node(d, i)][to] = Node(d, i + 1) /\ w[Node(d, i + 1)][fro] = Node(d, i)
  <2>1. CASE i = 0
    <3>1. Node(d, i) = HEAD /\ Node(d, i + 1) = e /\ HEAD \in Nodes /\ e \in Nodes
      BY <1>4, <2>1 DEF Nodes
    <3> QED BY <1>1, <1>3, <3>1
  <2>2. CASE i = 1
    <3>1. Node(d, i) = e /\ Node(d, i + 1) = in
      BY <1>1, <1>4, <2>2
    <3> QED BY <1>1, <1>3, <3>1 DEF Nodes
  <2>3. CASE i \in 2 .. Len(d)
    <3>1. i - 1 \in 1 .. Len(c) /\ i \in 1 .. Len(c) + 1 /\ (i - 1) + 1 = i
      BY <1>1, <2>3
    <3>2. Node(d, i) = Node(c, i - 1) /\ Node(d, i + 1) = Node(c, i)
      BY <1>4, <3>1
    <3>3. q[Node(c, i - 1)][to] = Node(c, i) /\ q[Node(c, i)][fro] = Node(c, i - 1)
      BY <1>1, <3>1 DEF Threaded
    <3>4. Node(c, i - 1) \in Nodes \ {HEAD, e}
      BY <1>1, <1>5, <3>1 DEF Node
    <3>5. Node(c, i) \in Nodes \ {e, in}
      BY <1>1, <1>5, <2>3, <3>1 DEF Node
    <3> QED BY <1>3, <3>2, <3>3, <3>4, <3>5
  <2> QED BY <1>1, <2>1, <2>2, <2>3
<1>7. ASSUME NEW x \in Elems, \A i \in DOMAIN d : d[i] # x
      PROVE  w[x] = R!Single(x)
  <2>1. x # e /\ \A i \in DOMAIN c : c[i] # x
    BY <1>1, <1>7 DEF PushedLeft
  <2>2. x \in Nodes \ {HEAD, e, in}
    BY <1>1, <2>1, Setting DEF Nodes, Node
  <2> QED BY <1>3, <2>1, <2>2 DEF OutOf
<1> QED BY <1>3, <1>6, <1>7 DEF Threaded, OutOf

\* cds_list_del() and CDS_INIT_LIST_HEAD() of the element at one end
LEMMA UnlinkedIs ==
  ASSUME NEW c \in Seq(Elems), NEW d \in Seq(Elems), NEW to, NEW fro,
         <<to, fro>> \in {<<"prev", "next">>, <<"next", "prev">>},
         NEW q \in Pointing, Threaded(q, c, to, fro), OutOf(q, c), NEW w,
         \A i, j \in DOMAIN c : c[i] = c[j] => i = j, c # <<>>,
         PoppedLeft(c, d), NEW e, e = Node(c, 1), NEW in, in = Node(c, 2),
         w = Unlink(q, e, in, to, fro)
  PROVE  w \in Pointing /\ Threaded(w, d, to, fro) /\ OutOf(w, d)
<1>1. /\ Len(c) \in Nat /\ Len(c) >= 1 /\ DOMAIN c = 1 .. Len(c) /\ DOMAIN d = 1 .. Len(d) /\ Len(d) = Len(c) - 1
      /\ \A i \in 1 .. Len(c) : c[i] \in Elems /\ c[i] # HEAD
      /\ e = c[1] /\ e \in Elems /\ e # HEAD /\ in \in Nodes /\ in # e /\ to # fro
  <2>1. Len(c) \in Nat /\ Len(c) >= 1 /\ DOMAIN c = 1 .. Len(c) /\ DOMAIN d = 1 .. Len(d) /\ Len(d) = Len(c) - 1
    BY EndsAre DEF PoppedLeft
  <2>2. \A i \in 1 .. Len(c) : c[i] \in Elems /\ c[i] # HEAD
    BY Setting
  <2> QED BY <2>1, <2>2 DEF Node, Nodes
<1>2. \A n \in Nodes : DOMAIN q[n] = {"prev", "next"} /\ q[n].prev \in Nodes /\ q[n].next \in Nodes
  BY DEF Pointing
<1>3. /\ w \in Pointing
      /\ \A n \in Nodes : n # e =>
           /\ w[n][to] = IF n = HEAD THEN in ELSE q[n][to]
           /\ w[n][fro] = IF n = in THEN HEAD ELSE q[n][fro]
           /\ n \notin {HEAD, in} => w[n] = q[n]
      /\ w[e] = R!Single(e)
  <2>1. HEAD \in Nodes /\ e \in Nodes
    BY <1>1 DEF Nodes
  <2>2. IsUnlinked(w, q, e, in, to, fro)
    BY <1>1, <2>1, UnlinkStored
  <2> QED BY <2>2 DEF IsUnlinked
<1>4. Node(d, 0) = HEAD /\ \A i \in 1 .. Len(c) : Node(d, i) = Node(c, i + 1)
  BY <1>1 DEF PoppedLeft, Node
<1>5. \A i \in 2 .. Len(c) + 1 : Node(c, i) \in Nodes /\ Node(c, i) # e
  BY <1>1 DEF Node, Nodes
<1>6. ASSUME NEW i \in 0 .. Len(d)
      PROVE  w[Node(d, i)][to] = Node(d, i + 1) /\ w[Node(d, i + 1)][fro] = Node(d, i)
  <2>1. CASE i = 0
    <3>1. Node(d, i) = HEAD /\ Node(d, i + 1) = in
      BY <1>1, <1>4, <2>1
    <3> QED BY <1>1, <1>3, <3>1 DEF Nodes
  <2>2. CASE i \in 1 .. Len(d)
    <3>1. i + 1 \in 2 .. Len(c) /\ i \in 1 .. Len(c) /\ (i + 1) + 1 = i + 2
      BY <1>1, <2>2
    <3>2. Node(d, i) = Node(c, i + 1) /\ Node(d, i + 1) = Node(c, i + 2)
      BY <1>1, <1>4, <3>1
    <3>3. q[Node(c, i + 1)][to] = Node(c, i + 2) /\ q[Node(c, i + 2)][fro] = Node(c, i + 1)
      BY <1>1, <3>1 DEF Threaded
    <3>4. Node(c, i + 1) \in Nodes \ {HEAD, e}
      BY <1>1, <1>5, <3>1 DEF Node
    <3>5. Node(c, i + 2) \in Nodes \ {e, in}
      BY <1>1, <1>5, <2>2, <3>1 DEF Node
    <3> QED BY <1>3, <3>2, <3>3, <3>4, <3>5
  <2> QED BY <1>1, <2>1, <2>2
<1>7. ASSUME NEW x \in Elems, \A i \in DOMAIN d : d[i] # x
      PROVE  w[x] = R!Single(x)
  <2>1. CASE x = e
    BY <1>3, <2>1
  <2>2. CASE x # e
    <3>1. \A i \in DOMAIN c : c[i] # x
      <4>1. \A i \in 2 .. Len(c) : i - 1 \in DOMAIN d /\ d[i - 1] = c[i]
        BY <1>1 DEF PoppedLeft
      <4> QED BY <1>1, <1>7, <2>2, <4>1
    <3>2. x \in Nodes \ {HEAD, in}
      BY <1>1, <3>1, Setting DEF Nodes, Node
    <3> QED BY <1>3, <2>2, <3>1, <3>2 DEF OutOf
  <2> QED BY <2>1, <2>2
<1> QED BY <1>3, <1>6, <1>7 DEF Threaded, OutOf

\* What happens at the right end of a list happens at the left end of its mirror image.
LEMMA MirrorPushed ==
  ASSUME NEW c \in Seq(Elems), NEW d \in Seq(Elems), NEW e, PushedRight(c, d, e)
  PROVE  PushedLeft(Mirror(c), Mirror(d), e)
<1>1. /\ Len(c) \in Nat /\ Len(d) = Len(c) + 1 /\ Len(Mirror(c)) = Len(c) /\ Len(Mirror(d)) = Len(c) + 1
      /\ Mirror(d) \in Seq(Elems) /\ DOMAIN Mirror(c) = 1 .. Len(c) /\ DOMAIN Mirror(d) = 1 .. Len(c) + 1
      /\ DOMAIN c = 1 .. Len(c)
  BY MirrorIs DEF PushedRight
<1>2. \A i \in 1 .. Len(c) + 1 : Mirror(d)[i] = d[Len(c) + 2 - i]
  BY <1>1 DEF Mirror
<1>3. \A i \in 1 .. Len(c) : Mirror(c)[i] = c[Len(c) + 1 - i]
  BY DEF Mirror
<1>4. Mirror(d)[1] = e
  BY <1>1, <1>2 DEF PushedRight
<1>5. ASSUME NEW i \in 1 .. Len(c)
      PROVE  Mirror(d)[i + 1] = Mirror(c)[i]
  <2>1. Len(c) + 1 - i \in 1 .. Len(c) /\ Len(c) + 2 - (i + 1) = Len(c) + 1 - i /\ i + 1 \in 1 .. Len(c) + 1
    BY <1>1
  <2> QED BY <1>1, <1>2, <1>3, <2>1 DEF PushedRight
<1>6. \A i \in 1 .. Len(c) + 1 : i = 1 \/ (i - 1 \in 1 .. Len(c) /\ Mirror(d)[i] = Mirror(c)[i - 1])
  <2>1. \A i \in 1 .. Len(c) + 1 : i = 1 \/ (i - 1 \in 1 .. Len(c) /\ (i - 1) + 1 = i)
    BY <1>1
  <2> QED BY <1>5, <2>1
<1> QED BY <1>1, <1>4, <1>5, <1>6 DEF PushedLeft

LEMMA MirrorPopped ==
  ASSUME NEW c \in Seq(Elems), NEW d \in Seq(Elems), PoppedRight(c, d)
  PROVE  PoppedLeft(Mirror(c), Mirror(d))
<1>1. /\ Len(c) \in Nat /\ Len(d) = Len(c) - 1 /\ Len(Mirror(c)) = Len(c) /\ Len(Mirror(d)) = Len(d)
      /\ Mirror(d) \in Seq(Elems) /\ DOMAIN Mirror(c) = 1 .. Len(c) /\ DOMAIN Mirror(d) = 1 .. Len(d)
      /\ DOMAIN d = 1 .. Len(d)
  BY MirrorIs DEF PoppedRight
<1>2. ASSUME NEW i \in 1 .. Len(d)
      PROVE  i + 1 \in 1 .. Len(c) /\ Mirror(d)[i] = Mirror(c)[i + 1]
  <2>1. /\ i + 1 \in 1 .. Len(c) /\ Len(d) + 1 - i \in 1 .. Len(d) /\ Len(c) + 1 - (i + 1) = Len(d) + 1 - i
    BY <1>1
  <2>2. Mirror(d)[i] = d[Len(d) + 1 - i] /\ Mirror(c)[i + 1] = c[Len(c) + 1 - (i + 1)]
    BY <2>1 DEF Mirror
  <2> QED BY <1>1, <2>1, <2>2 DEF PoppedRight
<1> QED BY <1>1, <1>2 DEF PoppedLeft

\* How the list looks after a list operation of t
Added(t, c, d) ==
  \/ /\ req[t].op = "push_l" /\ d = <<req[t].e>> \o c /\ req' = req
  \/ /\ req[t].op = "push_r" /\ d = c \o <<req[t].e>> /\ req' = req

Removed(t, c, d) ==
  /\ c # <<>>
  /\ \/ req[t].op = "pop_l" /\ d = Tail(c) /\ req' = [req EXCEPT ![t].e = Head(c)]
     \/ req[t].op = "pop_r" /\ d = Front(c) /\ req' = [req EXCEPT ![t].e = Last(c)]

\* What a list operation of t does to the list and to its call
LEMMA OperationIs ==
  ASSUME NEW c \in Seq(Elems), NEW d \in Seq(Elems), ListInv(c), NEW t \in FewThreads, pc[t] = "store", Added(t, c, d) \/ Removed(t, c, d)
  PROVE  \/ /\ req[t].op \in Pushes /\ req[t].e \in Elems /\ req' = req /\ Pushing(t)
            /\ \/ req[t].op = "push_l" /\ PushedLeft(c, d, req[t].e)
               \/ req[t].op = "push_r" /\ PushedRight(c, d, req[t].e)
         \/ /\ req[t].op \in Pops /\ req'[t].op = req[t].op /\ req'[t].e \in Elems
            /\ \/ req[t].op = "pop_l" /\ PoppedLeft(c, d)
               \/ req[t].op = "pop_r" /\ PoppedRight(c, d)
<1>1. /\ c \in Seq(Elems) /\ RwThread(t) /\ t \in Threads
      /\ DOMAIN req = Threads /\ DOMAIN req[t] = {"op", "e"}
  BY RwFacts DEF ListInv, RwTypes
<1>2. CASE req[t].op = "push_l" /\ d = <<req[t].e>> \o c /\ req' = req
  <2>1. req[t].e \in Elems
    BY <1>1, <1>2 DEF RwThread, Pushes
  <2> QED BY <1>1, <1>2, <2>1, PushedLeftIs DEF Pushes, Pushing
<1>3. CASE req[t].op = "push_r" /\ d = c \o <<req[t].e>> /\ req' = req
  <2>1. req[t].e \in Elems
    BY <1>1, <1>3 DEF RwThread, Pushes
  <2> QED BY <1>1, <1>3, <2>1, PushedRightIs DEF Pushes, Pushing
<1>4. CASE /\ c # <<>>
           /\ req[t].op = "pop_l" /\ d = Tail(c) /\ req' = [req EXCEPT ![t].e = Head(c)]
  <2>1. PoppedLeft(c, d) /\ Head(c) \in Elems
    BY <1>1, <1>4, PoppedLeftIs, EndsAre
  <2> QED BY <1>1, <1>4, <2>1 DEF Pops
<1>5. CASE /\ c # <<>>
           /\ req[t].op = "pop_r" /\ d = Front(c) /\ req' = [req EXCEPT ![t].e = Last(c)]
  <2>1. PoppedRight(c, d) /\ Last(c) \in Elems
    BY <1>1, <1>5, PoppedRightIs, EndsAre
  <2> QED BY <1>1, <1>5, <2>1 DEF Pops
<1> QED BY <1>2, <1>3, <1>4, <1>5 DEF Added, Removed

\* The list remains one of different elements, and what others are to push stays out of it.
LEMMA ChainAfter ==
  ASSUME NEW c \in Seq(Elems), NEW d \in Seq(Elems), ListInv(c), NEW t \in FewThreads, Others(t), pc[t] = "store", pc'[t] = "settle", Added(t, c, d) \/ Removed(t, c, d)
  PROVE  ChainInv(d)'
<1>1. /\ c \in Seq(Elems) /\ ChainInv(c) /\ ~ Pushing(t)'
      /\ \A u \in FewThreads : u # t => (Pushing(u)' <=> Pushing(u)) /\ req'[u].e = req[u].e
  BY DEF ListInv, RwTypes, Pushing, Others, Operations, Pushes, Pops
<1>2. ASSUME NEW e \in Elems, e = req[t].e, Pushing(t),
             PushedLeft(c, d, e) \/ PushedRight(c, d, e)
      PROVE  ChainInv(d)'
  <2>1. \A i \in DOMAIN c : c[i] # e
    BY <1>1, <1>2 DEF ChainInv
  <2>2. \A u \in FewThreads : Pushing(u)' => req'[u].e # e
    BY <1>1, <1>2 DEF ChainInv
  <2>3. \A i \in DOMAIN d : d[i] = e \/ \E k \in DOMAIN c : d[i] = c[k]
    <3>1. CASE PushedLeft(c, d, e)
      BY <3>1 DEF PushedLeft
    <3>2. CASE PushedRight(c, d, e)
      BY <3>2 DEF PushedRight
    <3> QED BY <1>2, <3>1, <3>2
  <2>4. ASSUME NEW i \in DOMAIN d, NEW j \in DOMAIN d, d[i] = d[j]
        PROVE  i = j
    <3>1. CASE PushedLeft(c, d, e)
      <4>1. i \in Int /\ j \in Int /\ (i = 1 <=> d[i] = e) /\ (j = 1 <=> d[j] = e)
        BY <1>1, <2>1, <3>1 DEF PushedLeft
      <4>2. CASE i # 1 /\ j # 1
        <5>1. i - 1 = j - 1
          BY <1>1, <2>4, <3>1, <4>2 DEF PushedLeft, ChainInv
        <5> QED BY <4>1, <5>1
      <4> QED BY <2>4, <4>1, <4>2
    <3>2. CASE PushedRight(c, d, e)
      <4>1. \A k \in DOMAIN d : k = Len(c) + 1 <=> d[k] = e
        BY <1>1, <2>1, <3>2 DEF PushedRight
      <4>2. CASE i # Len(c) + 1 /\ j # Len(c) + 1
        BY <1>1, <2>4, <3>2, <4>2 DEF PushedRight, ChainInv
      <4> QED BY <2>4, <4>1, <4>2
    <3> QED BY <1>2, <3>1, <3>2
  <2>5. \A u \in FewThreads : Pushing(u)' => \A i \in DOMAIN d : d[i] # req'[u].e
    <3>1. ASSUME NEW u \in FewThreads, Pushing(u)', NEW i \in DOMAIN d, d[i] = req'[u].e
          PROVE  FALSE
      <4>1. u # t /\ Pushing(u) /\ req'[u].e = req[u].e
        BY <1>1, <3>1
      <4>2. d[i] # e
        BY <2>2, <3>1
      <4>3. PICK k \in DOMAIN c : d[i] = c[k]
        BY <2>3, <4>2
      <4> QED BY <1>1, <3>1, <4>1, <4>3 DEF ChainInv
    <3> QED BY <3>1
  <2>6. \A u, v \in FewThreads : Pushing(u)' /\ Pushing(v)' /\ req'[v].e = req'[u].e => v = u
    BY <1>1 DEF ChainInv
  <2> QED BY <2>4, <2>5, <2>6 DEF ChainInv
<1>3. ASSUME PoppedLeft(c, d) \/ PoppedRight(c, d)
      PROVE  ChainInv(d)'
  <2>1. \A i \in DOMAIN d : \E k \in DOMAIN c : d[i] = c[k]
    <3>1. CASE PoppedLeft(c, d)
      BY <3>1 DEF PoppedLeft
    <3>2. CASE PoppedRight(c, d)
      BY <3>2 DEF PoppedRight
    <3> QED BY <1>3, <3>1, <3>2
  <2>2. ASSUME NEW i \in DOMAIN d, NEW j \in DOMAIN d, d[i] = d[j]
        PROVE  i = j
    <3>1. CASE PoppedLeft(c, d)
      <4>1. i \in Int /\ j \in Int
        BY <3>1 DEF PoppedLeft
      <4>2. i + 1 = j + 1
        BY <1>1, <2>2, <3>1 DEF PoppedLeft, ChainInv
      <4> QED BY <4>1, <4>2
    <3>2. CASE PoppedRight(c, d)
      BY <1>1, <2>2, <3>2 DEF PoppedRight, ChainInv
    <3> QED BY <1>3, <3>1, <3>2
  <2>3. \A u \in FewThreads : Pushing(u)' =>
          /\ \A i \in DOMAIN d : d[i] # req'[u].e
          /\ \A v \in FewThreads : Pushing(v)' /\ req'[v].e = req'[u].e => v = u
    BY <1>1, <2>1 DEF ChainInv
  <2> QED BY <2>2, <2>3 DEF ChainInv
<1> QED BY <1>2, <1>3, OperationIs

\* The list keeps its distance from the reservation of t.
LEMMA LengthAfter ==
  ASSUME NEW c \in Seq(Elems), NEW d \in Seq(Elems), ListInv(c), NEW t \in FewThreads, pc[t] = "store", pc'[t] = "settle", Added(t, c, d) \/ Removed(t, c, d)
  PROVE  /\ d \in Seq(Elems) /\ Len(d) \in Nat
         /\ Len(d) - Reservation(t)' = Len(c) - Reservation(t)
         /\ Reservation(t)' \in 0 .. 2
<1>1. Len(c) \in Nat
  BY RwFacts
<1>2. CASE /\ req[t].op \in Pushes /\ req' = req
           /\ d \in Seq(Elems) /\ Len(d) = Len(c) + 1
  <2>1. Reservation(t) = 1 /\ Reservation(t)' = 2
    BY <1>2 DEF Reservation, Reserving, Pushes, Pops
  <2> QED BY <1>1, <1>2, <2>1
<1>3. CASE /\ req[t].op \in Pops /\ req'[t].op = req[t].op /\ req'[t].e \in Elems
           /\ d \in Seq(Elems) /\ Len(d) = Len(c) - 1
  <2>1. Reservation(t) = 2 /\ Reservation(t)' = 1
    BY <1>3, Setting DEF Reservation, Reserving
  <2>2. Len(d) \in Nat
    BY <1>3
  <2> QED BY <1>1, <1>3, <2>1, <2>2
<1> QED BY <1>2, <1>3, OperationIs DEF PushedLeft, PushedRight, PoppedLeft, PoppedRight

\* Two list operations at a time: what the one has found stays as it is.
LEMMA PointersAfter ==
  ASSUME NEW c \in Seq(Elems), NEW d \in Seq(Elems), ListInv(c), NEW t \in FewThreads, pc[t] = "store", pc'[t] = "settle", Added(t, c, d) \/ Removed(t, c, d),
         NEW u \in FewThreads, u # t, pc[u] = "store"
  PROVE  Found(d, req[u]) = Found(c, req[u])
<1>1. /\ c \in Seq(Elems) /\ RwThread(t) /\ RwThread(u) /\ Len(c) \in Nat
      /\ req[u].op \in Operations /\ req[t].op \in Operations /\ ~ (Left(t) <=> Left(u))
  BY RwFacts DEF ListInv, RwTypes, RwThread, Reserving
<1>2. t \in readers /\ u \in readers
  BY <1>1, Setting DEF ListInv, RwThread, Locked, WriterAlone
<1>3. Len(c) >= 3 /\ (Removed(t, c, d) => Len(c) >= 4)
  <2>1. Len(c) > Reservation(t) + Reservation(u)
    BY <1>2 DEF ListInv, SpareInv
  <2>2. Reservation(t) \in {1, 2} /\ Reservation(u) \in {1, 2} /\ (req[t].op \in Pops => Reservation(t) = 2)
    BY DEF Reservation, Reserving
  <2>3. Removed(t, c, d) => req[t].op \in Pops
    BY DEF Removed, Pops
  <2> QED BY <1>1, <2>1, <2>2, <2>3
<1>4. d \in Seq(Elems)
  BY LengthAfter
<1>5. CASE Left(t)
  <2>1. req[u].op \in {"push_r", "pop_r"} /\ req[t].op \in {"push_l", "pop_l"}
    BY <1>1, <1>5 DEF Left, Operations, Pushes, Pops
  <2>2. PICK k \in {-1, 1} :
          Len(d) = Len(c) + k /\ \A i \in {Len(c) - 1, Len(c)} : d[i + k] = c[i]
    <3>1. CASE PushedLeft(c, d, req[t].e)
      <4>1. \A i \in {Len(c) - 1, Len(c)} : i \in DOMAIN c
        BY <1>1, <1>3
      <4>2. Len(d) = Len(c) + 1 /\ \A i \in {Len(c) - 1, Len(c)} : d[i + 1] = c[i]
        BY <3>1, <4>1 DEF PushedLeft
      <4> QED BY <4>2
    <3>2. CASE PoppedLeft(c, d)
      <4>1. Len(c) >= 4
        BY <1>1, <1>3, <1>4, <3>2, OperationIs DEF PoppedLeft, PushedLeft, PushedRight, Removed, Added
      <4>2. ASSUME NEW i \in {Len(c) - 1, Len(c)}
            PROVE  d[i + (-1)] = c[i]
        <5>1. i + (-1) \in DOMAIN d /\ (i + (-1)) + 1 = i
          BY <1>1, <1>4, <3>2, <4>1 DEF PoppedLeft
        <5> QED BY <3>2, <5>1 DEF PoppedLeft
      <4>3. Len(d) = Len(c) + (-1)
        BY <1>1, <3>2 DEF PoppedLeft
      <4> QED BY <4>2, <4>3
    <3> QED BY <2>1, <3>1, <3>2, OperationIs
  <2> QED BY <1>1, <1>3, <1>4, <2>1, <2>2, RightKept
<1>6. CASE ~ Left(t)
  <2>1. req[u].op \in {"push_l", "pop_l"} /\ req[t].op \in {"push_r", "pop_r"}
    BY <1>1, <1>6 DEF Left, Operations, Pushes, Pops
  <2>2. Len(c) >= 2 /\ Len(d) >= 2 /\ d[1] = c[1] /\ d[2] = c[2]
    <3>1. CASE PushedRight(c, d, req[t].e)
      <4>1. 1 \in DOMAIN c /\ 2 \in DOMAIN c
        BY <1>1, <1>3
      <4> QED BY <1>1, <1>3, <3>1, <4>1 DEF PushedRight
    <3>2. CASE PoppedRight(c, d)
      <4>1. 1 \in DOMAIN d /\ 2 \in DOMAIN d
        BY <1>1, <1>3, <1>4, <3>2 DEF PoppedRight
      <4> QED BY <1>1, <1>3, <3>2, <4>1 DEF PoppedRight
    <3> QED BY <2>1, <3>1, <3>2, OperationIs
  <2> QED BY <1>1, <1>4, <2>1, <2>2, LeftKept
<1> QED BY <1>5, <1>6

Nothing(t, c, d) == req[t].op \in Pops /\ c = <<>> /\ d = c /\ req' = req

\* What a list operation stores makes the list that it should, for a push and a pop at either end.
LEMMA ListEndIs ==
  ASSUME NEW c \in Seq(Elems), ListInv(c), NEW t \in FewThreads, R!ListEnd(t)
  PROVE  \E d \in Seq(Elems) :
           /\ Added(t, c, d) \/ Removed(t, c, d) \/ Nothing(t, c, d)
           /\ ptr' \in Pointing /\ Threaded(ptr', d, "prev", "next") /\ OutOf(ptr', d)
<1>1. /\ ptr \in Pointing /\ Threaded(ptr, c, "prev", "next") /\ OutOf(ptr, c)
      /\ \A i, j \in DOMAIN c : c[i] = c[j] => i = j
      /\ reg[t] = Found(c, req[t]) /\ RwThread(t) /\ req[t].op \in Operations
      /\ pc[t] = "store"
  BY RwFacts DEF ListInv, RwTypes, PtrInv, ChainInv, RegInv, R!ListEnd, R!Goto, Pointing, RwThread, Reserving
<1>2. /\ Mirror(c) \in Seq(Elems) /\ Threaded(ptr, Mirror(c), "next", "prev") /\ OutOf(ptr, Mirror(c))
      /\ \A i, j \in DOMAIN Mirror(c) : Mirror(c)[i] = Mirror(c)[j] => i = j
  BY <1>1, MirrorIs, MirrorThreaded, MirrorElements DEF OutOf
<1>3. Node(Mirror(c), 1) = Node(c, Len(c)) /\ Node(Mirror(c), 2) = Node(c, Len(c) - 1)
  <2>1. Len(c) \in Nat
    OBVIOUS
  <2>2. CASE Len(c) >= 1
    <3>1. 1 \in 0 .. Len(c) + 1 /\ 2 \in 0 .. Len(c) + 1 /\ Len(c) + 1 - 1 = Len(c) /\ Len(c) + 1 - 2 = Len(c) - 1
      BY <2>1, <2>2
    <3> QED BY <3>1, MirrorIs
  <2>3. CASE Len(c) = 0
    BY <2>3 DEF Node, Mirror
  <2> QED BY <2>1, <2>2, <2>3
<1>4. ASSUME NEW w, NEW d \in Seq(Elems), Threaded(w, Mirror(d), "next", "prev"), OutOf(w, Mirror(d))
      PROVE  Threaded(w, d, "prev", "next") /\ OutOf(w, d)
  <2>1. Mirror(d) \in Seq(Elems) /\ Mirror(Mirror(d)) = d
    BY MirrorIs
  <2>2. Threaded(w, Mirror(Mirror(d)), "prev", "next")
    BY <1>4, <2>1, MirrorThreaded
  <2>3. OutOf(w, d)
    BY <1>4, MirrorElements DEF OutOf
  <2> QED BY <2>1, <2>2, <2>3
<1>5. CASE req[t].op \in Pushes
  <2>1. /\ reg[t].e = req[t].e /\ req[t].e \in Elems /\ reg[t].out = HEAD /\ ptr' = R!Linked(t) /\ req' = req
        /\ \A i \in DOMAIN c : c[i] # req[t].e
    BY <1>1, <1>5 DEF R!ListEnd, R!Pushes, R!Pops, Pushes, Found, RwThread, ListInv, ChainInv, Pushing
  <2>2. CASE req[t].op = "push_l"
    <3> DEFINE d == <<req[t].e>> \o c
    <3>1. d \in Seq(Elems) /\ PushedLeft(c, d, req[t].e) /\ Added(t, c, d)
      BY <2>1, <2>2, PushedLeftIs DEF Added
    <3>2. reg[t].in = Node(c, 1) /\ ptr' = Link(ptr, req[t].e, reg[t].in, "prev", "next")
      <4>1. R!Inwards(t) = "prev" /\ R!Outwards(t) = "next"
        BY <2>2 DEF R!Inwards, R!Outwards, R!Left
      <4>2. R!Linked(t) = Link(ptr, reg[t].e, reg[t].in, R!Inwards(t), R!Outwards(t))
        BY DEF R!Linked, Link
      <4> QED BY <1>1, <2>1, <2>2, <4>1, <4>2 DEF Found
    <3> HIDE DEF d
    <3>3. ptr' \in Pointing /\ Threaded(ptr', d, "prev", "next") /\ OutOf(ptr', d)
      BY ONLY c \in Seq(Elems), <1>1, <2>1, <3>1, <3>2, LinkedIs
    <3> QED BY <3>1, <3>3
  <2>3. CASE req[t].op = "push_r"
    <3> DEFINE d == c \o <<req[t].e>>
    <3>1. d \in Seq(Elems) /\ PushedRight(c, d, req[t].e) /\ Added(t, c, d)
      BY <2>1, <2>3, PushedRightIs DEF Added
    <3>2. reg[t].in = Node(c, Len(c)) /\ ptr' = Link(ptr, req[t].e, reg[t].in, "next", "prev")
      <4>1. R!Inwards(t) = "next" /\ R!Outwards(t) = "prev"
        BY <2>3 DEF R!Inwards, R!Outwards, R!Left
      <4>2. R!Linked(t) = Link(ptr, reg[t].e, reg[t].in, R!Inwards(t), R!Outwards(t))
        BY DEF R!Linked, Link
      <4> QED BY <1>1, <2>1, <2>3, <4>1, <4>2 DEF Found
    <3> HIDE DEF d
    <3>3. PushedLeft(Mirror(c), Mirror(d), req[t].e) /\ Mirror(d) \in Seq(Elems)
      BY <3>1, MirrorPushed, MirrorIs
    <3>4. \A i \in DOMAIN Mirror(c) : Mirror(c)[i] # req[t].e
      BY <2>1, MirrorElements
    <3>5. ptr' \in Pointing /\ Threaded(ptr', Mirror(d), "next", "prev") /\ OutOf(ptr', Mirror(d))
      <4>1. reg[t].in = Node(Mirror(c), 1)
        BY <1>3, <3>2
      <4> QED BY ONLY <1>1, <1>2, <2>1, <3>2, <3>3, <3>4, <4>1, LinkedIs
    <3> QED BY <1>4, <3>1, <3>5
  <2> QED BY <1>5, <2>2, <2>3 DEF Pushes
<1>6. CASE req[t].op \in Pops /\ c # <<>>
  <2>1. /\ reg[t] # R!NoReg /\ reg[t].out = HEAD /\ Len(c) >= 1 /\ c[1] \in Elems /\ c[Len(c)] \in Elems
        /\ Head(c) = c[1] /\ Last(c) = c[Len(c)] /\ Node(c, 1) = c[1] /\ Node(c, Len(c)) = c[Len(c)]
    <3>1. /\ Len(c) >= 1 /\ c[1] \in Elems /\ c[Len(c)] \in Elems /\ Head(c) = c[1] /\ Last(c) = c[Len(c)]
          /\ Node(c, 1) = c[1] /\ Node(c, Len(c)) = c[Len(c)]
      BY <1>6, EndsAre DEF Node
    <3> QED BY <1>1, <1>6, <3>1, Setting DEF Found, Pops, R!NoReg
  <2>2. ptr' = R!Unlinked(t) /\ req' = [req EXCEPT ![t].e = reg[t].e]
    BY <1>6, <2>1 DEF R!ListEnd, R!Pushes, R!Pops, Pops, R!Took
  <2>3. CASE req[t].op = "pop_l"
    <3>1. Tail(c) \in Seq(Elems) /\ PoppedLeft(c, Tail(c))
      BY <1>6, PoppedLeftIs DEF PoppedLeft
    <3>2. /\ reg[t].in = Node(c, 2) /\ reg[t].e = Node(c, 1)
          /\ ptr' = Unlink(ptr, reg[t].e, reg[t].in, "prev", "next")
      <4>1. R!Inwards(t) = "prev" /\ R!Outwards(t) = "next"
        BY <2>3 DEF R!Inwards, R!Outwards, R!Left
      <4>2. R!Unlinked(t) = Unlink(ptr, reg[t].e, reg[t].in, R!Inwards(t), R!Outwards(t))
        BY <2>1 DEF R!Unlinked, Unlink
      <4> QED BY <1>1, <1>6, <2>2, <2>3, <4>1, <4>2 DEF Found
    <3>3. ptr' \in Pointing /\ Threaded(ptr', Tail(c), "prev", "next") /\ OutOf(ptr', Tail(c))
      <4>1. PICK d : d = Tail(c)
        OBVIOUS
      <4>2. d \in Seq(Elems) /\ PoppedLeft(c, d)
        BY <3>1, <4>1
      <4>3. ptr' \in Pointing /\ Threaded(ptr', d, "prev", "next") /\ OutOf(ptr', d)
        BY ONLY c \in Seq(Elems), <1>1, <1>6, <3>2, <4>2, UnlinkedIs
      <4> QED BY <4>1, <4>3
    <3>4. Removed(t, c, Tail(c))
      BY <1>6, <2>1, <2>2, <2>3, <3>2 DEF Removed
    <3> QED BY <3>1, <3>3, <3>4
  <2>4. CASE req[t].op = "pop_r"
    <3>1. Front(c) \in Seq(Elems) /\ PoppedRight(c, Front(c))
      BY <1>6, PoppedRightIs DEF PoppedRight
    <3>2. /\ reg[t].in = Node(c, Len(c) - 1) /\ reg[t].e = Node(c, Len(c))
          /\ ptr' = Unlink(ptr, reg[t].e, reg[t].in, "next", "prev")
      <4>1. R!Inwards(t) = "next" /\ R!Outwards(t) = "prev"
        BY <2>4 DEF R!Inwards, R!Outwards, R!Left
      <4>2. R!Unlinked(t) = Unlink(ptr, reg[t].e, reg[t].in, R!Inwards(t), R!Outwards(t))
        BY <2>1 DEF R!Unlinked, Unlink
      <4> QED BY <1>1, <1>6, <2>2, <2>4, <4>1, <4>2 DEF Found
    <3>3. PoppedLeft(Mirror(c), Mirror(Front(c))) /\ Mirror(Front(c)) \in Seq(Elems) /\ Mirror(c) # <<>>
      BY <2>1, <3>1, MirrorPopped, MirrorIs
    <3>4. ptr' \in Pointing /\ Threaded(ptr', Mirror(Front(c)), "next", "prev") /\ OutOf(ptr', Mirror(Front(c)))
      <4>1. reg[t].in = Node(Mirror(c), 2) /\ reg[t].e = Node(Mirror(c), 1)
        BY <1>3, <3>2
      <4> QED BY ONLY <1>1, <1>2, <3>2, <3>3, <4>1, UnlinkedIs
    <3>5. Removed(t, c, Front(c))
      BY <1>6, <2>1, <2>2, <2>4, <3>2 DEF Removed
    <3> QED BY <1>4, <3>1, <3>4, <3>5
  <2> QED BY <1>6, <2>3, <2>4 DEF Pops
<1>7. CASE req[t].op \in Pops /\ c = <<>>
  <2>1. reg[t] = R!NoReg
    BY <1>1, <1>7 DEF Found, Pops
  <2>2. ptr' = ptr /\ req' = req
    BY <1>7, <2>1 DEF R!ListEnd, R!Pushes, R!Pops, Pops
  <2> QED BY <1>1, <1>7, <2>2 DEF Nothing
<1> QED BY <1>1, <1>5, <1>6, <1>7 DEF Operations

\* A list operation ends.
LEMMA ListEndStep ==
  ASSUME NEW c \in Seq(Elems), NEW d \in Seq(Elems), ListInv(c), NEW t \in FewThreads, R!ListEnd(t),
         Added(t, c, d) \/ Removed(t, c, d) \/ Nothing(t, c, d),
         ptr' \in Pointing, Threaded(ptr', d, "prev", "next"), OutOf(ptr', d)
  PROVE  ListInv(d)'
<1>1. /\ pc[t] = "store" /\ pc' = [pc EXCEPT ![t] = "settle"]
      /\ reg' = [reg EXCEPT ![t] = R!NoReg]
      /\ UNCHANGED <<counter, readers, writer>>
  BY DEF R!ListEnd, R!Goto
<1>2. RwThread(t) /\ t \in Threads /\ req[t].op \in Operations
  BY <1>1, RwFacts DEF RwThread, Reserving
<1>3. /\ req' \in [Threads -> [op : {"none"} \union Operations, e : Elems \union {NULL}]]
      /\ req'[t].op = req[t].op /\ (req[t].op \in Pushes => req'[t].e = req[t].e)
      /\ \A u \in Threads : u # t => req'[u] = req[u]
  <2>1. CASE Removed(t, c, d)
    <3>1. Head(c) \in Elems /\ Last(c) \in Elems
      BY <2>1, EndsAre DEF Removed, ListInv, RwTypes
    <3>2. PICK x \in Elems : req' = [req EXCEPT ![t].e = x]
      BY <2>1, <3>1 DEF Removed
    <3>3. req[t].op \notin Pushes
      BY <2>1 DEF Removed, Pushes
    <3> QED BY <1>2, <3>2, <3>3 DEF ListInv, RwTypes
  <2>2. CASE ~ Removed(t, c, d)
    <3>1. req' = req
      BY <2>2 DEF Added, Nothing
    <3> QED BY <3>1 DEF ListInv, RwTypes
  <2> QED BY <2>1, <2>2
<1>4. Others(t) /\ pc'[t] = "settle" /\ (Left(t)' <=> Left(t))
  BY <1>1, <1>2, <1>3, RwFacts, Setting DEF Others, Left
<1>5. /\ d \in Seq(Elems) /\ Len(d) \in Nat
      /\ Len(d) - Reservation(t)' = Len(c) - Reservation(t)
      /\ Reservation(t)' \in 0 .. 2
  <2>1. CASE Added(t, c, d) \/ Removed(t, c, d)
    BY <1>1, <1>4, <2>1, LengthAfter
  <2>2. CASE Nothing(t, c, d)
    <3>1. req[t].e = NULL
      BY <1>1, <1>2, <2>2 DEF RwThread, Nothing
    <3>2. Reservation(t) = 2 /\ Reservation(t)' = 2
      BY <1>1, <1>4, <2>2, <3>1 DEF Reservation, Reserving, Nothing
    <3> QED BY <2>2, <3>2, RwFacts DEF Nothing
  <2> QED BY <2>1, <2>2
<1>6. RwTypes'
  BY <1>1, <1>3, <1>5 DEF ListInv, RwTypes, Reserving, Pointing
<1>7. \A u \in FewThreads : RwThread(u)'
  <2>1. RwThread(t)'
    <3>1. \A v \in FewThreads : v # t /\ pc'[v] # "idle" => ~ (Left(t)' <=> Left(v)')
      BY <1>1, <1>2, <1>4 DEF Others, Left, RwThread
    <3>2. t \in readers' \/ t = writer'
      BY <1>1, <1>2 DEF RwThread, Locked
    <3> QED BY <1>2, <1>3, <1>4, <3>1, <3>2 DEF RwThread, Locked, Reserving, Operations, Pushes, Pops
  <2> QED BY <1>1, <1>4, <2>1, RwThreadOthers
<1>8. ChainInv(d)'
  <2>1. CASE Added(t, c, d) \/ Removed(t, c, d)
    BY <1>1, <1>4, <2>1, ChainAfter
  <2>2. CASE Nothing(t, c, d)
    <3>1. ~ Pushing(t)'
      BY <1>4 DEF Pushing, Operations, Pushes, Pops
    <3> QED BY <1>4, <2>2, <3>1, ChainSame DEF ListInv, Nothing
  <2> QED BY <2>1, <2>2
<1>9. PtrInv(d)' /\ RegInv(d)'
  <2>1. reg'[t] = R!NoReg /\ \A u \in FewThreads : u # t => reg'[u] = reg[u]
    BY <1>1, RwFacts
  <2>2. ASSUME NEW u \in FewThreads, u # t, pc[u] = "store"
        PROVE  Found(d, req[u]) = Found(c, req[u])
    BY <1>1, <1>4, <2>2, PointersAfter DEF Nothing
  <2>3. ASSUME NEW u \in FewThreads, u # t
        PROVE  reg'[u] = IF pc'[u] = "store" THEN Found(d, req'[u]) ELSE R!NoReg
    BY <1>4, <2>1, <2>2, <2>3 DEF ListInv, RegInv, Others
  <2> QED BY <1>4, <2>1, <2>3 DEF PtrInv, RegInv
<1>10. SpareInv(d)'
  <2>1. \A u \in FewThreads : Reservation(u)' \in Int /\ Reservation(u) \in Int /\ Len(c) \in Int
    BY <1>4, <1>5, RwFacts DEF Others, Reservation
  <2>2. \A u \in FewThreads : u # t => Reservation(u)' = Reservation(u)
    BY <1>4 DEF Others, Reservation
  <2>3. readers' = readers /\ readers \subseteq FewThreads
    BY <1>1 DEF ListInv, RwTypes
  <2>4. CASE t \notin readers
    <3>1. readers = {}
      BY <1>1, <1>2, <2>4, Setting DEF RwThread, Locked, ListInv, WriterAlone
    <3> QED BY <2>3, <3>1 DEF SpareInv
  <2>5. CASE t \in readers
    <3>1. Len(d) - Len(c) \in {-1, 0, 1} /\ Len(d) > Reservation(t)'
      <4>1. Reservation(t) \in 1 .. 2 /\ Reservation(t)' \in 1 .. 2
        BY <1>1, <1>4 DEF Reservation, Reserving
      <4>2. Len(c) > Reservation(t)
        BY <2>5 DEF ListInv, SpareInv
      <4> QED BY <1>5, <2>1, <4>1, <4>2
    <3>2. ASSUME NEW u \in readers, u # t
          PROVE  Len(d) > Reservation(u)' /\ Len(d) > Reservation(t)' + Reservation(u)'
      <4>1. Len(c) > Reservation(t) + Reservation(u)
        BY <2>5, <3>2 DEF ListInv, SpareInv
      <4>2. Reservation(u)' = Reservation(u) /\ Reservation(u) \in Int /\ Reservation(t)' >= 0
        BY <1>5, <2>1, <2>2, <2>3, <3>2
      <4> QED BY <1>5, <2>1, <4>1, <4>2
    <3>3. ASSUME NEW u \in readers, NEW v \in readers, u # v, u # t, v # t
          PROVE  FALSE
      <4>1. RwThread(u) /\ RwThread(v) /\ pc[u] # "idle" /\ pc[v] # "idle" /\ u \in FewThreads /\ v \in FewThreads
        BY <2>3, <3>3, RwFacts DEF RwThread, Locked
      <4> QED BY <1>1, <1>2, <3>3, <4>1 DEF RwThread
    <3>4. ASSUME NEW u \in readers, NEW v \in readers, u # v
          PROVE  Len(d) > Reservation(u)' + Reservation(v)'
      <4>1. CASE u = t
        BY <3>2, <3>4, <4>1
      <4>2. CASE v = t
        <5>1. Len(d) > Reservation(t)' + Reservation(u)' /\ u \in FewThreads
          BY <2>3, <3>2, <3>4, <4>2
        <5> QED BY <2>1, <4>2, <5>1
      <4> QED BY <3>3, <3>4, <4>1, <4>2
    <3> QED BY <2>3, <3>1, <3>2, <3>4 DEF SpareInv
  <2> QED BY <2>4, <2>5
<1>11. CounterInv(d)'
  <2>1. PICK left \in BOOLEAN : Left(t) <=> left
    OBVIOUS
  <2>2. counter' = counter + (Len(d) - Len(c)) + (Reservation(t) - Reservation(t)')
    <3>1. counter' = counter /\ counter \in Int /\ Len(c) \in Int /\ Reservation(t) \in Int
      BY <1>1, RwFacts
    <3>2. Reservation(t)' \in Int /\ Len(d) \in Int /\ Len(d) - Reservation(t)' = Len(c) - Reservation(t)
      BY <1>5
    <3> QED BY <3>1, <3>2
  <2>3. \A u \in FewThreads : u # t /\ pc[u] # "idle" => ~ (Left(u) <=> left)
    BY <1>1, <2>1, OtherEnd
  <2>4. pc[t] # "idle" /\ pc'[t] # "idle"
    BY <1>1, <1>4
  <2> QED BY <1>4, <1>5, <2>1, <2>2, <2>3, <2>4, RwFacts, CounterChange DEF ListInv
<1>12. WriterAlone'
  BY <1>1 DEF ListInv, WriterAlone
<1> QED BY <1>6, <1>7, <1>8, <1>9, <1>10, <1>11, <1>12 DEF ListInv

\* The counter is put right, and the lock released.
LEMMA SettleStep ==
  ASSUME NEW c \in Seq(Elems), ListInv(c), NEW t \in FewThreads, R!Settle(t)
  PROVE  ListInv(c)'
<1>1. /\ pc[t] = "settle" /\ pc' = [pc EXCEPT ![t] = "idle"]
      /\ req' = [req EXCEPT ![t] = NoReq]
      /\ counter' = counter + Reservation(t)
      /\ readers' = readers \ {t}
      /\ writer' = IF writer = t THEN NULL ELSE writer
      /\ UNCHANGED <<ptr, reg>>
  BY DEF R!Settle, R!Returns, R!Goto, R!Pops, Pops, Reservation, Reserving, NoReq, R!NoReq
<1>2. /\ Others(t) /\ pc'[t] = "idle" /\ req'[t] = NoReq /\ Reservation(t)' = 0
      /\ t \notin readers' /\ t # writer' /\ RwThread(t)
  BY <1>1, RwFacts, Setting DEF Others, Reservation, Reserving
<1>3. RwTypes'
  BY <1>1, RwFacts DEF ListInv, RwTypes, NoReq
<1>4. \A u \in FewThreads : RwThread(u)'
  <2>1. RwThread(t)'
    BY <1>2 DEF RwThread, Locked, Reserving, Operations, Pushes, Pops, NoReq
  <2>2. \A u \in FewThreads : u # t => (u \in readers' <=> u \in readers) /\ (u = writer' <=> u = writer)
    BY <1>1, Setting
  <2> QED BY <1>1, <1>2, <2>1, <2>2, RwThreadOthers
<1>5. ChainInv(c)' /\ WriterAlone' /\ PtrInv(c)' /\ RegInv(c)' /\ SpareInv(c)'
  <2>1. ~ Pushing(t)'
    BY <1>2 DEF Pushing, Operations, Pushes, Pops
  <2>2. reg[t] = R!NoReg /\ pc'[t] # "store"
    BY <1>1, <1>2 DEF ListInv, RegInv
  <2>3. WriterAlone'
    BY <1>1 DEF ListInv, WriterAlone
  <2> QED BY <1>1, <1>2, <2>1, <2>2, <2>3, ChainSame, PtrSame, RegSame, SpareSame DEF ListInv
<1>6. CounterInv(c)'
  <2>1. PICK left \in BOOLEAN : Left(t) <=> left
    OBVIOUS
  <2>2. counter' = counter + (Len(c) - Len(c)) + (Reservation(t) - Reservation(t)')
    BY <1>1, <1>2, RwFacts
  <2>3. \A u \in FewThreads : u # t /\ pc[u] # "idle" => ~ (Left(u) <=> left)
    BY <1>1, <2>1, OtherEnd
  <2> QED BY <1>1, <1>2, <2>1, <2>2, <2>3, RwFacts, CounterChange DEF ListInv
<1> QED BY <1>3, <1>4, <1>5, <1>6 DEF ListInv

\* What the reservations are for: the list operations under way share no pointer.
LEMMA Apart ==
  ASSUME NEW c \in Seq(Elems), ListInv(c)
  PROVE  EndsApart
<1>1. ASSUME NEW t \in FewThreads, NEW u \in FewThreads, t # u, Left(t), ~ Left(u), pc[t] = "store", pc[u] = "store"
      PROVE  R!Pointers(t) \intersect R!Pointers(u) = {}
  <2>1. /\ RwThread(t) /\ RwThread(u) /\ Len(c) \in Nat
        /\ req[t].op \in {"push_l", "pop_l"} /\ req[u].op \in {"push_r", "pop_r"}
    BY <1>1, RwFacts DEF ListInv, RwTypes, RwThread, Left, Reserving, Operations, Pushes, Pops
  <2>2. t \in readers /\ u \in readers
    BY <1>1, <2>1, Setting DEF ListInv, RwThread, Locked, WriterAlone
  <2>3. Len(c) > Reservation(t) + Reservation(u)
    BY <1>1, <2>2 DEF ListInv, SpareInv
  <2>4. /\ Reservation(t) = IF req[t].op = "pop_l" THEN 2 ELSE 1
        /\ Reservation(u) = IF req[u].op = "pop_r" THEN 2 ELSE 1
    BY <1>1, <2>1 DEF Reservation, Reserving, Pops
  <2> DEFINE n == Len(c)
  <2>5. n >= 3 /\ (req[t].op = "pop_l" /\ req[u].op = "pop_r" => n >= 5) /\ c # <<>>
    BY <2>1, <2>3, <2>4
  <2>6. \A i \in 1 .. n : Node(c, i) = c[i] /\ c[i] # HEAD
    BY <2>1, Setting DEF Node
  <2>7. 1 \in 1 .. n /\ 2 \in 1 .. n /\ n \in 1 .. n /\ n - 1 \in 1 .. n
    BY <2>1, <2>5
  <2>8. \A i, j \in 1 .. n : c[i] = c[j] => i = j
    BY <2>1 DEF ListInv, ChainInv
  <2>9. c[1] # c[n] /\ c[1] # c[n - 1] /\ c[2] # c[n]
    BY <2>1, <2>5, <2>7, <2>8
  <2>10. reg[t] = Found(c, req[t]) /\ reg[u] = Found(c, req[u])
    BY <1>1 DEF ListInv, RegInv
  <2>11. /\ reg[t] # R!NoReg => /\ reg[t].out = HEAD
                                /\ \/ reg[t].e = c[1] /\ reg[t].in = c[2] /\ req[t].op = "pop_l"
                                   \/ reg[t].e = req[t].e /\ reg[t].in = c[1] /\ req[t].op = "push_l"
         /\ reg[u] # R!NoReg => /\ reg[u].out = HEAD
                                /\ \/ reg[u].e = c[n] /\ reg[u].in = c[n - 1] /\ req[u].op = "pop_r"
                                   \/ reg[u].e = req[u].e /\ reg[u].in = c[n] /\ req[u].op = "push_r"
    <3> HIDE DEF n
    <3>1. Node(c, 1) = c[1] /\ Node(c, 2) = c[2]
      BY <2>6, <2>7
    <3>2. Node(c, Len(c)) = c[n] /\ Node(c, Len(c) - 1) = c[n - 1]
      BY <2>6, <2>7 DEF n
    <3>3. /\ reg[u].out = HEAD
          /\ \/ reg[u].e = c[n] /\ reg[u].in = c[n - 1] /\ req[u].op = "pop_r"
             \/ reg[u].e = req[u].e /\ reg[u].in = c[n] /\ req[u].op = "push_r"
      <4>1. CASE req[u].op = "push_r"
        <5>1. reg[u] = [e |-> req[u].e, in |-> c[n], out |-> HEAD]
          BY <2>10, <3>2, <4>1 DEF Found
        <5> QED BY <4>1, <5>1
      <4>2. CASE req[u].op = "pop_r"
        <5>1. reg[u] = [e |-> c[n], in |-> c[n - 1], out |-> HEAD]
          BY <2>5, <2>10, <3>2, <4>2 DEF Found
        <5> QED BY <4>2, <5>1
      <4> QED BY <2>1, <4>1, <4>2
    <3>4. CASE req[t].op = "push_l"
      <4>1. reg[t] = [e |-> req[t].e, in |-> c[1], out |-> HEAD]
        BY <2>10, <3>1, <3>4 DEF Found
      <4> QED BY <3>4, <3>3, <4>1
    <3>5. CASE req[t].op = "pop_l"
      <4>1. reg[t] = [e |-> c[1], in |-> c[2], out |-> HEAD]
        BY <2>5, <2>10, <3>1, <3>5 DEF Found
      <4> QED BY <3>5, <3>3, <4>1
    <3> QED BY <2>1, <3>4, <3>5
  <2>12. /\ req[t].op = "push_l" => req[t].e # HEAD /\ \A i \in 1 .. n : c[i] # req[t].e
         /\ req[u].op = "push_r" => req[u].e # HEAD /\ \A i \in 1 .. n : c[i] # req[u].e
         /\ req[t].op = "push_l" /\ req[u].op = "push_r" => req[t].e # req[u].e
    <3>1. /\ req[t].op = "push_l" => Pushing(t) /\ req[t].e \in Elems
          /\ req[u].op = "push_r" => Pushing(u) /\ req[u].e \in Elems
      BY <1>1, <2>1 DEF Pushing, Pushes, RwThread
    <3> QED BY <1>1, <2>1, <3>1, Setting DEF ListInv, ChainInv
  <2>13. /\ R!Inwards(t) = "prev" /\ R!Outwards(t) = "next" /\ R!Inwards(u) = "next" /\ R!Outwards(u) = "prev"
    BY <1>1 DEF R!Inwards, R!Outwards, R!Left, Left
  <2>14. CASE reg[t] = R!NoReg \/ reg[u] = R!NoReg
    BY <2>14 DEF R!Pointers
  <2>15. CASE reg[t] # R!NoReg /\ reg[u] # R!NoReg
    <3>1. /\ reg[t].e # reg[u].e /\ reg[t].in # reg[u].e /\ reg[u].in # reg[t].e
          /\ HEAD \notin {reg[t].e, reg[u].e, reg[t].in, reg[u].in}
          /\ reg[t].out = HEAD /\ reg[u].out = HEAD
      BY <2>6, <2>7, <2>9, <2>11, <2>12, <2>15
    <3>2. /\ R!Pointers(t) = {HEAD, reg[t].e, HEAD} \X {"prev"} \union {reg[t].e, reg[t].in} \X {"next"}
          /\ R!Pointers(u) = {HEAD, reg[u].e, HEAD} \X {"next"} \union {reg[u].e, reg[u].in} \X {"prev"}
      BY <2>13, <2>15, <3>1 DEF R!Pointers
    <3> QED BY <3>1, <3>2
  <2> QED BY <2>14, <2>15
<1>2. ASSUME NEW t \in FewThreads, NEW u \in FewThreads, t # u
      PROVE  R!Pointers(t) \intersect R!Pointers(u) = {}
  <2>1. CASE pc[t] # "store" \/ pc[u] # "store"
    BY <2>1 DEF ListInv, RegInv, R!Pointers
  <2>2. CASE pc[t] = "store" /\ pc[u] = "store"
    <3>1. ~ (Left(t) <=> Left(u))
      BY <1>2, <2>2, RwFacts DEF RwThread
    <3>2. CASE Left(t)
      BY <1>1, <1>2, <2>2, <3>1, <3>2
    <3>3. CASE ~ Left(t)
      <4>1. R!Pointers(u) \intersect R!Pointers(t) = {}
        BY <1>1, <1>2, <2>2, <3>1, <3>3
      <4> QED BY <4>1
    <3> QED BY <3>2, <3>3
  <2> QED BY <2>1, <2>2
<1> QED BY <1>2 DEF EndsApart

-----------------------------------------------------------------------------
(***************************************************************************)
(* smpalloc.c, step by step                                                *)
(***************************************************************************)

\* s consists of a and m.
Parts(s, a, m) ==
  /\ \A b \in Blocks : Has(s, b) <=> Has(a, b) \/ Has(m, b)
  /\ Once(s) <=> Once(a) /\ Once(m) /\ \A b \in Blocks : ~ (Has(a, b) /\ Has(m, b))

\* One element more at the end
LEMMA AppendParts ==
  ASSUME NEW S, NEW s \in Seq(S), NEW x \in S
  PROVE  Append(s, x) \in Seq(S) /\ Len(Append(s, x)) = Len(s) + 1 /\ Parts(Append(s, x), s, <<x>>)
<1> DEFINE d == Append(s, x)
<1>1. /\ Len(s) \in Nat /\ DOMAIN s = 1 .. Len(s) /\ d \in Seq(S) /\ Len(d) = Len(s) + 1 /\ DOMAIN d = 1 .. Len(s) + 1
      /\ d[Len(s) + 1] = x /\ \A i \in 1 .. Len(s) : d[i] = s[i]
  OBVIOUS
<1>2. DOMAIN <<x>> = {1} /\ <<x>>[1] = x
  OBVIOUS
<1> HIDE DEF d
<1>3. \A b : Has(<<x>>, b) <=> b = x
  BY <1>2 DEF Has
<1>4. \A b : Has(d, b) <=> Has(s, b) \/ b = x
  BY <1>1 DEF Has
<1>5. Once(<<x>>)
  BY <1>2 DEF Once
<1>6. ASSUME Once(d)
      PROVE  Once(s) /\ (x \in Blocks => ~ Has(s, x))
  <2>1. Once(s)
    BY <1>1, <1>6 DEF Once
  <2>2. ASSUME x \in Blocks, NEW i \in DOMAIN s, s[i] = x
        PROVE  FALSE
    <3>1. i \in DOMAIN d /\ Len(s) + 1 \in DOMAIN d /\ d[i] = d[Len(s) + 1] /\ d[i] \in Blocks
      BY <1>1, <2>2
    <3>2. i = Len(s) + 1
      BY <1>6, <3>1 DEF Once
    <3> QED BY <1>1, <3>2
  <2> QED BY <2>1, <2>2 DEF Has
<1>7. ASSUME Once(s), x \in Blocks => ~ Has(s, x)
      PROVE  Once(d)
  BY <1>1, <1>7 DEF Once, Has
<1> QED BY <1>1, <1>3, <1>4, <1>5, <1>6, <1>7 DEF Parts, d

\* The last element, and the others
LEMMA LastParts ==
  ASSUME NEW S, NEW s \in Seq(S), s # <<>>
  PROVE  /\ Front(s) \in Seq(S) /\ Last(s) \in S /\ Len(Front(s)) = Len(s) - 1
         /\ Parts(s, Front(s), <<Last(s)>>)
<1>1. Len(s) \in Nat /\ Len(s) >= 1 /\ DOMAIN s = 1 .. Len(s) /\ \A i \in 1 .. Len(s) : s[i] \in S
  BY EmptySeq
<1>2. Front(s) \in Seq(S) /\ Len(Front(s)) = Len(s) - 1 /\ \A i \in 1 .. Len(s) - 1 : Front(s)[i] = s[i]
  BY <1>1 DEF Front
<1>3. Last(s) = s[Len(s)] /\ Last(s) \in S
  BY <1>1 DEF Last
<1>4. s = Append(Front(s), Last(s))
  <2>1. PICK a \in Seq(S), x \in S : a = Front(s) /\ x = Last(s)
    BY <1>2, <1>3
  <2>2. Append(a, x) \in Seq(S)
    OBVIOUS
  <2>3. PICK d \in Seq(S) : d = Append(a, x)
    BY <2>2
  <2>4. Len(d) = Len(a) + 1 /\ d[Len(a) + 1] = x /\ \A i \in 1 .. Len(a) : d[i] = a[i]
    BY <2>3
  <2>5. Len(d) = Len(s) /\ \A i \in 1 .. Len(s) : d[i] = s[i]
    BY <1>1, <1>2, <1>3, <2>1, <2>4
  <2>6. d = s
    BY <2>5, SeqEqual
  <2> QED BY <2>1, <2>3, <2>6
<1> QED BY <1>2, <1>3, <1>4, AppendParts

\* The first element, and the others
LEMMA HeadParts ==
  ASSUME NEW S, NEW s \in Seq(S), s # <<>>
  PROVE  Tail(s) \in Seq(S) /\ Head(s) \in S /\ Parts(s, Tail(s), <<Head(s)>>)
<1> DEFINE d == Tail(s)
           x == Head(s)
<1>1. Len(s) \in Nat /\ Len(s) >= 1 /\ DOMAIN s = 1 .. Len(s) /\ x = s[1] /\ x \in S
  BY EmptySeq
<1>2. d \in Seq(S) /\ DOMAIN d = 1 .. Len(s) - 1 /\ \A i \in 1 .. Len(s) - 1 : d[i] = s[i + 1]
  BY <1>1
<1>3. DOMAIN <<x>> = {1} /\ <<x>>[1] = x
  OBVIOUS
<1> HIDE DEF d, x
<1>4. \A b : Has(<<x>>, b) <=> b = x
  BY <1>3 DEF Has
<1>5. \A b : Has(s, b) <=> Has(d, b) \/ b = x
  <2>1. ASSUME NEW i \in DOMAIN s, i # 1
        PROVE  i - 1 \in DOMAIN d /\ d[i - 1] = s[i]
    <3>1. i - 1 \in 1 .. Len(s) - 1 /\ (i - 1) + 1 = i
      BY <1>1, <2>1
    <3> QED BY <1>2, <3>1
  <2>2. \A i \in DOMAIN d : i + 1 \in DOMAIN s /\ d[i] = s[i + 1]
    BY <1>1, <1>2
  <2>3. 1 \in DOMAIN s
    BY <1>1
  <2> QED BY <1>1, <2>1, <2>2, <2>3 DEF Has
<1>6. Once(<<x>>)
  BY <1>3 DEF Once
<1>7. ASSUME Once(s)
      PROVE  Once(d) /\ (x \in Blocks => ~ Has(d, x))
  <2>1. ASSUME NEW i \in DOMAIN d, NEW j \in DOMAIN d, d[i] = d[j], d[i] \in Blocks
        PROVE  i = j
    <3>1. i + 1 \in DOMAIN s /\ j + 1 \in DOMAIN s /\ s[i + 1] = s[j + 1] /\ s[i + 1] \in Blocks
      BY <1>1, <1>2, <2>1
    <3>2. i + 1 = j + 1
      BY <1>7, <3>1 DEF Once
    <3> QED BY <1>2, <3>2
  <2>2. ASSUME x \in Blocks, NEW i \in DOMAIN d, d[i] = x
        PROVE  FALSE
    <3>1. i + 1 \in DOMAIN s /\ 1 \in DOMAIN s /\ s[i + 1] = s[1] /\ s[1] \in Blocks
      BY <1>1, <1>2, <2>2
    <3>2. i + 1 = 1
      BY <1>7, <3>1 DEF Once
    <3> QED BY <1>2, <3>2
  <2> QED BY <2>1, <2>2 DEF Once, Has
<1>8. ASSUME Once(d), x \in Blocks => ~ Has(d, x)
      PROVE  Once(s)
  <2>1. ASSUME NEW i \in DOMAIN s, NEW j \in DOMAIN s, s[i] = s[j], s[i] \in Blocks
        PROVE  i = j
    <3>1. CASE i = 1 /\ j # 1
      <4>1. j - 1 \in DOMAIN d /\ (j - 1) + 1 = j
        BY <1>1, <1>2, <3>1
      <4> QED BY <1>1, <1>2, <1>8, <2>1, <3>1, <4>1 DEF Has
    <3>2. CASE i # 1 /\ j = 1
      <4>1. i - 1 \in DOMAIN d /\ (i - 1) + 1 = i
        BY <1>1, <1>2, <3>2
      <4> QED BY <1>1, <1>2, <1>8, <2>1, <3>2, <4>1 DEF Has
    <3>3. CASE i # 1 /\ j # 1
      <4>1. i - 1 \in DOMAIN d /\ (i - 1) + 1 = i /\ j - 1 \in DOMAIN d /\ (j - 1) + 1 = j
        BY <1>1, <1>2, <3>3
      <4>2. d[i - 1] = d[j - 1] /\ d[i - 1] \in Blocks
        BY <1>2, <2>1, <4>1
      <4>3. i - 1 = j - 1
        BY <1>8, <4>1, <4>2 DEF Once
      <4> QED BY <4>1, <4>3
    <3> QED BY <3>1, <3>2, <3>3
  <2> QED BY <2>1 DEF Once
<1> QED BY <1>1, <1>2, <1>4, <1>5, <1>6, <1>7, <1>8 DEF Parts, d, x

\* The first k elements, and the others from the last to the first
LEMMA SplitParts ==
  ASSUME NEW S, NEW s \in Seq(S), NEW k \in 0 .. Len(s)
  PROVE  LET a == SubSeq(s, 1, k)
             m == Reverse(SubSeq(s, k + 1, Len(s)))
         IN  /\ a \in Seq(S) /\ Len(a) = k
             /\ m \in Seq(S) /\ Len(m) = Len(s) - k
             /\ Parts(s, a, m)
<1> DEFINE a == SubSeq(s, 1, k)
           r == SubSeq(s, k + 1, Len(s))
           m == Reverse(r)
           n == Len(s) - k
<1>1. Len(s) \in Nat /\ DOMAIN s = 1 .. Len(s) /\ k \in Nat /\ k <= Len(s) /\ n \in Nat /\ \A i \in 1 .. Len(s) : s[i] \in S
  OBVIOUS
<1>2. a \in Seq(S) /\ Len(a) = k /\ DOMAIN a = 1 .. k /\ \A i \in 1 .. k : a[i] = s[i]
  BY <1>1
<1>3. r \in Seq(S) /\ Len(r) = n /\ \A i \in 1 .. n : r[i] = s[k + i]
  BY <1>1
<1>4. m \in Seq(S) /\ Len(m) = n /\ DOMAIN m = 1 .. n /\ \A i \in 1 .. n : m[i] = s[Len(s) + 1 - i]
  <2> HIDE DEF r
  <2>1. m = [i \in 1 .. n |-> r[n - i + 1]]
    BY <1>3 DEF Reverse
  <2>2. \A i \in 1 .. n : n - i + 1 \in 1 .. n /\ k + (n - i + 1) = Len(s) + 1 - i
    BY <1>1
  <2>3. \A i \in 1 .. n : m[i] = s[Len(s) + 1 - i] /\ m[i] \in S
    BY <1>3, <2>1, <2>2
  <2>4. m \in Seq(S)
    BY <1>1, <2>1, <2>3
  <2> QED BY <1>1, <2>1, <2>3, <2>4
<1> HIDE DEF a, m
<1>5. ASSUME NEW i \in DOMAIN s
      PROVE  IF i <= k THEN i \in DOMAIN a /\ a[i] = s[i]
                       ELSE Len(s) + 1 - i \in DOMAIN m /\ m[Len(s) + 1 - i] = s[i]
  <2>1. CASE i <= k
    BY <1>1, <1>2, <2>1
  <2>2. CASE ~ (i <= k)
    <3>1. Len(s) + 1 - i \in 1 .. n /\ Len(s) + 1 - (Len(s) + 1 - i) = i
      BY <1>1, <2>2
    <3> QED BY <1>4, <2>2, <3>1
  <2> QED BY <2>1, <2>2
<1>6. \A i \in DOMAIN a : i \in DOMAIN s /\ a[i] = s[i] /\ i <= k /\ i \in Int
  BY <1>1, <1>2
<1>7. \A i \in DOMAIN m : /\ Len(s) + 1 - i \in DOMAIN s /\ m[i] = s[Len(s) + 1 - i]
                          /\ Len(s) + 1 - i > k /\ i \in Int
  BY <1>1, <1>4
<1>8. \A b : Has(s, b) <=> Has(a, b) \/ Has(m, b)
  BY <1>5, <1>6, <1>7 DEF Has
<1>9. ASSUME Once(s)
      PROVE  Once(a) /\ Once(m) /\ \A b \in Blocks : ~ (Has(a, b) /\ Has(m, b))
  <2>1. Once(a)
    BY <1>6, <1>9 DEF Once
  <2>2. ASSUME NEW i \in DOMAIN m, NEW j \in DOMAIN m, m[i] = m[j], m[i] \in Blocks
        PROVE  i = j
    <3>1. Len(s) + 1 - i = Len(s) + 1 - j
      BY <1>7, <1>9, <2>2 DEF Once
    <3> QED BY <1>1, <1>7, <3>1
  <2>3. ASSUME NEW b \in Blocks, NEW i \in DOMAIN a, NEW j \in DOMAIN m, a[i] = b, m[j] = b
        PROVE  FALSE
    <3>1. i = Len(s) + 1 - j
      BY <1>6, <1>7, <1>9, <2>3 DEF Once
    <3> QED BY <1>1, <1>6, <1>7, <3>1
  <2>4. Once(m)
    BY <2>2 DEF Once
  <2> QED BY <2>1, <2>3, <2>4 DEF Has
<1>10. ASSUME Once(a), Once(m), \A b \in Blocks : ~ (Has(a, b) /\ Has(m, b))
       PROVE  Once(s)
  <2>1. ASSUME NEW i \in DOMAIN s, NEW j \in DOMAIN s, s[i] = s[j], s[i] \in Blocks
        PROVE  i = j
    <3>1. CASE i <= k /\ j <= k
      BY <1>5, <1>10, <2>1, <3>1 DEF Once
    <3>2. CASE ~ (i <= k) /\ ~ (j <= k)
      <4>1. Len(s) + 1 - i = Len(s) + 1 - j
        BY <1>5, <1>10, <2>1, <3>2 DEF Once
      <4> QED BY <1>1, <4>1
    <3>3. CASE ~ ((i <= k) <=> (j <= k))
      <4>1. Has(a, s[i]) /\ Has(m, s[i])
        BY <1>5, <2>1, <3>3 DEF Has
      <4> QED BY <1>10, <2>1, <4>1
    <3> QED BY <3>1, <3>2, <3>3
  <2> QED BY <2>1 DEF Once
<1>11. Parts(s, a, m)
  BY <1>8, <1>9, <1>10 DEF Parts
<1> QED BY <1>2, <1>4, <1>11 DEF a, m

\* One sequence behind the other
LEMMA ConcatParts ==
  ASSUME NEW S, NEW a \in Seq(S), NEW m \in Seq(S)
  PROVE  a \o m \in Seq(S) /\ Parts(a \o m, a, m)
<1> DEFINE d == a \o m
           k == Len(a)
<1>1. /\ k \in Nat /\ Len(m) \in Nat /\ DOMAIN a = 1 .. k /\ DOMAIN m = 1 .. Len(m)
      /\ d \in Seq(S) /\ DOMAIN d = 1 .. k + Len(m)
      /\ \A i \in 1 .. k : d[i] = a[i]
      /\ \A i \in 1 .. Len(m) : d[k + i] = m[i]
  BY ConcatProperties
<1> HIDE DEF d, k
<1>2. ASSUME NEW i \in DOMAIN d
      PROVE  IF i <= k THEN i \in DOMAIN a /\ a[i] = d[i] ELSE i - k \in DOMAIN m /\ m[i - k] = d[i]
  <2>1. CASE i <= k
    BY <1>1, <2>1
  <2>2. CASE ~ (i <= k)
    <3>1. i - k \in 1 .. Len(m) /\ k + (i - k) = i
      BY <1>1, <2>2
    <3> QED BY <1>1, <2>2, <3>1
  <2> QED BY <2>1, <2>2
<1>3. \A i \in DOMAIN a : i \in DOMAIN d /\ a[i] = d[i] /\ i <= k /\ i \in Int
  BY <1>1
<1>4. \A i \in DOMAIN m : k + i \in DOMAIN d /\ m[i] = d[k + i] /\ k + i > k /\ i \in Int
  BY <1>1
<1>5. \A b : Has(d, b) <=> Has(a, b) \/ Has(m, b)
  BY <1>2, <1>3, <1>4 DEF Has
<1>6. ASSUME Once(d)
      PROVE  Once(a) /\ Once(m) /\ \A b \in Blocks : ~ (Has(a, b) /\ Has(m, b))
  <2>1. Once(a)
    BY <1>3, <1>6 DEF Once
  <2>2. ASSUME NEW i \in DOMAIN m, NEW j \in DOMAIN m, m[i] = m[j], m[i] \in Blocks
        PROVE  i = j
    <3>1. k + i = k + j
      BY <1>4, <1>6, <2>2 DEF Once
    <3> QED BY <1>1, <1>4, <3>1
  <2>3. ASSUME NEW b \in Blocks, NEW i \in DOMAIN a, NEW j \in DOMAIN m, a[i] = b, m[j] = b
        PROVE  FALSE
    <3>1. i = k + j
      BY <1>3, <1>4, <1>6, <2>3 DEF Once
    <3> QED BY <1>1, <1>3, <1>4, <3>1
  <2>4. Once(m)
    BY <2>2 DEF Once
  <2> QED BY <2>1, <2>3, <2>4 DEF Has
<1>7. ASSUME Once(a), Once(m), \A b \in Blocks : ~ (Has(a, b) /\ Has(m, b))
      PROVE  Once(d)
  <2>1. ASSUME NEW i \in DOMAIN d, NEW j \in DOMAIN d, d[i] = d[j], d[i] \in Blocks
        PROVE  i = j
    <3>1. CASE i <= k /\ j <= k
      BY <1>2, <1>7, <2>1, <3>1 DEF Once
    <3>2. CASE ~ (i <= k) /\ ~ (j <= k)
      <4>1. i - k = j - k
        BY <1>2, <1>7, <2>1, <3>2 DEF Once
      <4> QED BY <1>1, <4>1
    <3>3. CASE ~ ((i <= k) <=> (j <= k))
      <4>1. Has(a, d[i]) /\ Has(m, d[i])
        BY <1>2, <2>1, <3>3 DEF Has
      <4> QED BY <1>7, <2>1, <4>1
    <3> QED BY <3>1, <3>2, <3>3
  <2> QED BY <2>1 DEF Once
<1> QED BY <1>1, <1>5, <1>6, <1>7 DEF Parts, d

\* A move: m is taken away from one place and put in another.
LEMMA Move ==
  ASSUME BlocksInv, NEW x \in Places, NEW y \in Places, x # y, NEW m,
         Parts(Held(x), Held(x)', m), Parts(Held(y)', Held(y), m),
         \A k \in Places : k # x /\ k # y => Held(k)' = Held(k)
  PROVE  BlocksInv'
<1>1. \A k \in Places : Once(Held(k))'
  <2>1. Once(Held(x)) /\ Once(Held(y)) /\ Once(m)
    BY DEF BlocksInv, Parts
  <2>2. \A b \in Blocks : ~ (Has(Held(y), b) /\ Has(m, b))
    BY DEF BlocksInv, Parts
  <2>3. Once(Held(x)') /\ Once(Held(y)')
    BY <2>1, <2>2 DEF Parts
  <2>4. \A k \in Places : Once(Held(k)')
    BY <2>3 DEF BlocksInv
  <2> QED BY <2>4 DEF Once
<1>2. ASSUME NEW b \in Blocks, NEW k \in Places
      PROVE  Has(Held(k), b)' <=> \/ k # x /\ k # y /\ Has(Held(k), b)
                                  \/ k = x /\ Has(Held(x), b) /\ ~ Has(m, b)
                                  \/ k = y /\ (Has(Held(y), b) \/ Has(m, b))
  <2>1. Has(Held(k), b)' <=> Has(Held(k)', b)
    BY DEF Has
  <2>2. Once(Held(x))
    BY DEF BlocksInv
  <2> QED BY <2>1, <2>2 DEF Parts
<1>3. \A b \in Blocks : Has(m, b) => Has(Held(x), b)
  BY DEF Parts
<1>4. \A b \in Blocks : \E k \in Places : Has(Held(k), b)'
  <2>1. ASSUME NEW b \in Blocks
        PROVE  \E k \in Places : Has(Held(k), b)'
    <3>1. PICK k \in Places : Has(Held(k), b)
      BY DEF BlocksInv
    <3>2. CASE Has(m, b)
      BY <1>2, <3>2
    <3>3. CASE ~ Has(m, b)
      BY <1>2, <3>1, <3>3
    <3> QED BY <3>2, <3>3
  <2> QED BY <2>1
<1>5. \A b \in Blocks : \A k, l \in Places : Has(Held(k), b)' /\ Has(Held(l), b)' => k = l
  <2>1. ASSUME NEW b \in Blocks, NEW k \in Places, NEW l \in Places, Has(Held(k), b)', Has(Held(l), b)'
        PROVE  k = l
    <3>1. \A i, j \in Places : Has(Held(i), b) /\ Has(Held(j), b) => i = j
      BY DEF BlocksInv
    <3>2. CASE Has(m, b)
      <4>1. Has(Held(x), b)
        BY <1>3, <3>2
      <4>2. k = y
        BY <1>2, <2>1, <3>1, <3>2, <4>1
      <4>3. l = y
        BY <1>2, <2>1, <3>1, <3>2, <4>1
      <4> QED BY <4>2, <4>3
    <3>3. CASE ~ Has(m, b)
      <4>1. Has(Held(k), b) /\ Has(Held(l), b)
        BY <1>2, <2>1, <3>3
      <4> QED BY <3>1, <4>1
    <3> QED BY <3>2, <3>3
  <2> QED BY <2>1
<1>6. UNCHANGED Places /\ UNCHANGED Blocks
  BY DEF Places, Blocks
<1> QED BY <1>1, <1>4, <1>5, <1>6 DEF BlocksInv

\* A change of one place that no block notices
LEMMA MoveNothing ==
  ASSUME BlocksInv, NEW x \in Places, NEW e, e \notin Blocks,
         Parts(Held(x), Held(x)', <<e>>) \/ Parts(Held(x)', Held(x), <<e>>),
         \A k \in Places : k # x => Held(k)' = Held(k)
  PROVE  BlocksInv'
<1>1. \A b \in Blocks : ~ Has(<<e>>, b)
  BY DEF Has
<1>2. Once(<<e>>)
  BY DEF Once
<1>3. \A k \in Places : \A b \in Blocks : Has(Held(k)', b) <=> Has(Held(k), b)
  BY <1>1 DEF Parts
<1>4. \A k \in Places : Once(Held(k)')
  BY <1>1, <1>2 DEF BlocksInv, Parts
<1>5. UNCHANGED Places /\ UNCHANGED Blocks
  BY DEF Places, Blocks
<1>6. /\ \A b \in Blocks : \E k \in Places : Has(Held(k)', b)
      /\ \A b \in Blocks : \A k, l \in Places : Has(Held(k)', b) /\ Has(Held(l)', b) => k = l
  BY <1>3 DEF BlocksInv
<1> QED BY <1>4, <1>5, <1>6 DEF BlocksInv, Has, Once

\* What is held in the places
LEMMA PlacesAre ==
  ASSUME NEW t \in A!Pools
  PROVE  /\ <<"globalmem", MAIN>> \in Places /\ <<"perthreadmem", t>> \in Places /\ <<"p", t>> \in Places
         /\ <<"globalmem", MAIN>> # <<"perthreadmem", t>> /\ <<"globalmem", MAIN>> # <<"p", t>>
         /\ <<"perthreadmem", t>> # <<"p", t>>
         /\ Held(<<"globalmem", MAIN>>) = globalmem
         /\ Held(<<"perthreadmem", t>>) = perthreadmem[t]
         /\ Held(<<"p", t>>) = p[t]
  BY DEF Places, Held

\* A step that touches the global pool, the pool of t and the array of t only
LEMMA OtherPlaces ==
  ASSUME NEW t \in A!Pools, NEW k \in Places,
         UNCHANGED globalmem \/ k # <<"globalmem", MAIN>>,
         \A u \in A!Pools : u # t => perthreadmem'[u] = perthreadmem[u] /\ p'[u] = p[u],
         perthreadmem'[t] = perthreadmem[t] \/ k # <<"perthreadmem", t>>,
         p'[t] = p[t] \/ k # <<"p", t>>
  PROVE  Held(k)' = Held(k)
<1>1. CASE k = <<"globalmem", MAIN>>
  BY <1>1 DEF Held
<1>2. ASSUME NEW u \in A!Pools, k = <<"perthreadmem", u>>
      PROVE  Held(k)' = Held(k)
  BY <1>2 DEF Held
<1>3. ASSUME NEW u \in A!Pools, k = <<"p", u>>
      PROVE  Held(k)' = Held(k)
  BY <1>3 DEF Held
<1> QED BY <1>1, <1>2, <1>3 DEF Places

\* The pool invariant when only t moves
LEMMA PoolStep ==
  ASSUME PoolInv, MemTypes, NEW t \in A!Pools,
         at[t] \notin {"gone", "sleep", "wait", "check"},
         \A u \in A!Pools : u # t => perthreadmem'[u] = perthreadmem[u] /\ p'[u] = p[u] /\ at'[u] = at[u],
         at'[t] # "check", PoolThread(t)'
  PROVE  PoolInv'
<1>1. \A u \in A!Pools : u # t => PoolThread(u)'
  BY DEF PoolInv, PoolThread
<1>2. \A u \in FewThreads : u \in A!Pools
  BY DEF A!Pools
<1>3. MAIN \in A!Pools
  BY DEF A!Pools
<1>4. ASSUME at'[MAIN] = "check", NEW u \in FewThreads
      PROVE  at'[u] = "gone"
  <2>1. MAIN # t /\ at[MAIN] = "check"
    BY <1>3, <1>4
  <2>2. at[u] = "gone" /\ u # t
    BY <1>4, <2>1 DEF PoolInv
  <2> QED BY <1>2, <2>2
<1>5. UNCHANGED A!Pools
  BY DEF A!Pools
<1> QED BY <1>1, <1>4, <1>5 DEF PoolInv

\* memblock_alloc(): an empty pool is filled from the global one.
LEMMA RefillStep ==
  ASSUME MemInv, NEW t \in A!Pools, A!Refill(t)
  PROVE  MemInv'
<1> DEFINE n == IF Len(globalmem) < TARGET_POOL_SIZE THEN Len(globalmem) ELSE TARGET_POOL_SIZE
           rest == Len(globalmem) - n
           m == Reverse(SubSeq(globalmem, rest + 1, Len(globalmem)))
<1>1. /\ perthreadmem[t] = <<>> /\ at[t] = "alloc" /\ at' = [at EXCEPT ![t] = "take"]
      /\ perthreadmem' = [perthreadmem EXCEPT ![t] = m]
      /\ globalmem' = SubSeq(globalmem, 1, rest)
      /\ p' = p
  BY DEF A!Refill, A!Goes, A!Reverse, Reverse
<1>2. MemTypes /\ BlocksInv /\ PoolInv /\ globalmem \in Seq(Blocks) /\ Len(globalmem) \in Nat
  BY DEF MemInv, MemTypes
<1>3. n \in Nat /\ n <= TARGET_POOL_SIZE /\ rest \in 0 .. Len(globalmem) /\ Len(globalmem) - rest = n
  BY <1>2, Setting
<1>4. /\ globalmem' \in Seq(Blocks) /\ m \in Seq(Blocks) /\ Len(m) = n
      /\ Parts(globalmem, globalmem', m)
  BY <1>1, <1>2, <1>3, SplitParts
<1> HIDE DEF n, rest, m
<1>5. perthreadmem'[t] = m /\ at'[t] = "take"
      /\ \A u \in A!Pools : u # t => perthreadmem'[u] = perthreadmem[u] /\ p'[u] = p[u] /\ at'[u] = at[u]
  BY <1>1, <1>2 DEF MemTypes
<1>6. MemTypes'
  BY <1>1, <1>2, <1>4 DEF MemTypes, A!Pools
<1>7. BlocksInv'
  <2>1. Parts(m, <<>>, m)
    <3>1. \A b : ~ Has(<<>>, b)
      BY DEF Has
    <3>2. Once(<<>>)
      BY DEF Once
    <3> QED BY <3>1, <3>2 DEF Parts
  <2>2. \A k \in Places : k # <<"globalmem", MAIN>> /\ k # <<"perthreadmem", t>> => Held(k)' = Held(k)
    BY <1>1, <1>5, OtherPlaces
  <2>3. /\ Held(<<"globalmem", MAIN>>)' = globalmem' /\ Held(<<"perthreadmem", t>>)' = m
        /\ Held(<<"globalmem", MAIN>>) = globalmem /\ Held(<<"perthreadmem", t>>) = <<>>
    BY <1>1, <1>5, PlacesAre DEF Held
  <2> QED BY <1>2, <1>4, <2>1, <2>2, <2>3, PlacesAre, Move
<1>8. PoolInv'
  <2>1. PoolThread(t)'
    <3>1. PoolThread(t)
      BY <1>2 DEF PoolInv
    <3> QED BY <1>1, <1>3, <1>4, <1>5, <3>1, Setting DEF PoolThread
  <2> QED BY <1>1, <1>2, <1>5, <2>1, PoolStep
<1> QED BY <1>6, <1>7, <1>8 DEF MemInv

\* memblock_alloc(): a block goes from the pool to the array, or NULL does.
LEMMA TakeStep ==
  ASSUME MemInv, NEW t \in A!Pools, A!Take(t)
  PROVE  MemInv'
<1>1. MemTypes /\ BlocksInv /\ PoolInv /\ perthreadmem[t] \in Seq(Blocks) /\ p[t] \in Seq(Blocks \union {NULL})
  BY DEF MemInv, MemTypes
<1>2. PICK x \in {"free", "alloc"} :
        /\ at[t] \in {"alloc", "take"} /\ at' = [at EXCEPT ![t] = x] /\ globalmem' = globalmem
        /\ \/ /\ perthreadmem[t] # <<>>
              /\ p' = [p EXCEPT ![t] = Append(p[t], Last(perthreadmem[t]))]
              /\ perthreadmem' = [perthreadmem EXCEPT ![t] = Front(perthreadmem[t])]
           \/ /\ perthreadmem[t] = <<>>
              /\ p' = [p EXCEPT ![t] = Append(p[t], NULL)]
              /\ perthreadmem' = perthreadmem
  <2>1. \E x \in {"free", "alloc"} : A!Goes(t, at[t], x)
    BY DEF A!Take
  <2> QED BY <2>1 DEF A!Take, A!Goes, A!Last, A!Front, Last, Front
<1>3. /\ at'[t] = x /\ t # MAIN
      /\ \A u \in A!Pools : u # t => perthreadmem'[u] = perthreadmem[u] /\ p'[u] = p[u] /\ at'[u] = at[u]
  BY <1>1, <1>2 DEF MemTypes, PoolInv, PoolThread
<1>4. UNCHANGED A!Pools /\ DOMAIN p = A!Pools /\ DOMAIN perthreadmem = A!Pools
  BY <1>1 DEF A!Pools, MemTypes
<1>5. CASE perthreadmem[t] # <<>> /\ p' = [p EXCEPT ![t] = Append(p[t], Last(perthreadmem[t]))]
             /\ perthreadmem' = [perthreadmem EXCEPT ![t] = Front(perthreadmem[t])]
  <2> DEFINE m == <<Last(perthreadmem[t])>>
  <2>1. /\ perthreadmem'[t] \in Seq(Blocks) /\ Len(perthreadmem'[t]) = Len(perthreadmem[t]) - 1
        /\ Last(perthreadmem[t]) \in Blocks
        /\ Parts(perthreadmem[t], perthreadmem'[t], m)
    BY <1>1, <1>4, <1>5, LastParts
  <2>2. p'[t] \in Seq(Blocks \union {NULL}) /\ Parts(p'[t], p[t], m)
    BY <1>1, <1>4, <1>5, <2>1, AppendParts
  <2> HIDE DEF m
  <2>3. MemTypes'
    <3>1. \A u \in A!Pools : perthreadmem'[u] \in Seq(Blocks) /\ p'[u] \in Seq(Blocks \union {NULL})
      BY <1>1, <1>3, <2>1, <2>2 DEF MemTypes
    <3>2. perthreadmem' = [u \in A!Pools |-> perthreadmem'[u]] /\ p' = [u \in A!Pools |-> p'[u]]
      BY <1>4, <1>5
    <3>3. perthreadmem' \in [A!Pools -> Seq(Blocks)] /\ p' \in [A!Pools -> Seq(Blocks \union {NULL})]
      BY <3>1, <3>2
    <3> QED BY <1>1, <1>2, <1>4, <3>3 DEF MemTypes
  <2>4. BlocksInv'
    <3>1. \A k \in Places : k # <<"perthreadmem", t>> /\ k # <<"p", t>> => Held(k)' = Held(k)
      BY <1>2, <1>3, OtherPlaces
    <3>2. /\ Held(<<"perthreadmem", t>>)' = perthreadmem'[t] /\ Held(<<"p", t>>)' = p'[t]
          /\ Held(<<"perthreadmem", t>>) = perthreadmem[t] /\ Held(<<"p", t>>) = p[t]
      BY DEF Held
    <3>3. /\ <<"perthreadmem", t>> \in Places /\ <<"p", t>> \in Places
          /\ <<"perthreadmem", t>> # <<"p", t>>
      BY PlacesAre
    <3>4. /\ Parts(Held(<<"perthreadmem", t>>), Held(<<"perthreadmem", t>>)', m)
          /\ Parts(Held(<<"p", t>>)', Held(<<"p", t>>), m)
      BY <2>1, <2>2, <3>2
    <3> QED BY <1>1, <3>1, <3>3, <3>4, Move
  <2>5. PoolInv'
    <3>1. PoolThread(t)'
      <4>1. Len(perthreadmem[t]) \in Nat /\ PoolThread(t)
        BY <1>1 DEF PoolInv
      <4> QED BY <1>3, <2>1, <4>1, Setting DEF PoolThread
    <3> QED BY <1>1, <1>2, <1>3, <3>1, PoolStep
  <2> QED BY <2>3, <2>4, <2>5 DEF MemInv
<1>6. CASE perthreadmem[t] = <<>> /\ p' = [p EXCEPT ![t] = Append(p[t], NULL)] /\ perthreadmem' = perthreadmem
  <2>1. p'[t] \in Seq(Blocks \union {NULL}) /\ Parts(p'[t], p[t], <<NULL>>)
    BY <1>1, <1>4, <1>6, AppendParts
  <2>2. MemTypes'
    <3>1. \A u \in A!Pools : p'[u] \in Seq(Blocks \union {NULL})
      BY <1>1, <1>3, <2>1 DEF MemTypes
    <3>2. p' = [u \in A!Pools |-> p'[u]]
      BY <1>4, <1>6
    <3>3. p' \in [A!Pools -> Seq(Blocks \union {NULL})]
      BY <3>1, <3>2
    <3> QED BY <1>1, <1>2, <1>4, <1>6, <3>3 DEF MemTypes
  <2>3. BlocksInv'
    <3>1. \A k \in Places : k # <<"p", t>> => Held(k)' = Held(k)
      BY <1>2, <1>3, <1>6, OtherPlaces
    <3>2. Held(<<"p", t>>)' = p'[t] /\ Held(<<"p", t>>) = p[t]
      BY DEF Held
    <3> QED BY <1>1, <2>1, <3>1, <3>2, PlacesAre, MoveNothing, Setting
  <2>4. PoolInv'
    <3>1. PoolThread(t)'
      BY <1>1, <1>3, <1>6 DEF PoolThread, PoolInv
    <3> QED BY <1>1, <1>2, <1>3, <3>1, PoolStep
  <2> QED BY <2>2, <2>3, <2>4 DEF MemInv
<1> QED BY <1>2, <1>5, <1>6

\* memblock_free(): a full pool is half emptied into the global one.
LEMMA SpillStep ==
  ASSUME MemInv, NEW t \in A!Pools, A!Spill(t)
  PROVE  MemInv'
<1> DEFINE m == Reverse(SubSeq(perthreadmem[t], TARGET_POOL_SIZE + 1, Len(perthreadmem[t])))
<1>1. /\ Len(perthreadmem[t]) >= 2 * TARGET_POOL_SIZE /\ at[t] = "free" /\ at' = [at EXCEPT ![t] = "put"]
      /\ globalmem' = globalmem \o m
      /\ perthreadmem' = [perthreadmem EXCEPT ![t] = SubSeq(perthreadmem[t], 1, TARGET_POOL_SIZE)]
      /\ p' = p
  BY DEF A!Spill, A!Full, A!Goes, A!Reverse, Reverse
<1>2. /\ MemTypes /\ BlocksInv /\ PoolInv /\ perthreadmem[t] \in Seq(Blocks) /\ globalmem \in Seq(Blocks)
      /\ Len(perthreadmem[t]) \in Nat /\ DOMAIN perthreadmem = A!Pools /\ UNCHANGED A!Pools
  BY DEF MemInv, MemTypes, A!Pools
<1>3. TARGET_POOL_SIZE \in 0 .. Len(perthreadmem[t])
  BY <1>1, <1>2, Setting
<1>4. /\ perthreadmem'[t] \in Seq(Blocks) /\ Len(perthreadmem'[t]) = TARGET_POOL_SIZE
      /\ m \in Seq(Blocks) /\ Parts(perthreadmem[t], perthreadmem'[t], m)
  BY <1>1, <1>2, <1>3, SplitParts
<1> HIDE DEF m
<1>5. globalmem' \in Seq(Blocks) /\ Parts(globalmem', globalmem, m)
  BY <1>1, <1>2, <1>4, ConcatParts
<1>6. /\ at'[t] = "put"
      /\ \A u \in A!Pools : u # t => perthreadmem'[u] = perthreadmem[u] /\ p'[u] = p[u] /\ at'[u] = at[u]
  BY <1>1, <1>2 DEF MemTypes
<1>7. MemTypes'
  BY <1>1, <1>2, <1>4, <1>5 DEF MemTypes
<1>8. BlocksInv'
  <2>1. \A k \in Places : k # <<"perthreadmem", t>> /\ k # <<"globalmem", MAIN>> => Held(k)' = Held(k)
    BY <1>1, <1>6, OtherPlaces
  <2>2. /\ Held(<<"globalmem", MAIN>>)' = globalmem' /\ Held(<<"perthreadmem", t>>)' = perthreadmem'[t]
        /\ Held(<<"globalmem", MAIN>>) = globalmem /\ Held(<<"perthreadmem", t>>) = perthreadmem[t]
    BY DEF Held
  <2>3. /\ <<"perthreadmem", t>> \in Places /\ <<"globalmem", MAIN>> \in Places
        /\ <<"perthreadmem", t>> # <<"globalmem", MAIN>>
    BY PlacesAre
  <2>4. /\ Parts(Held(<<"perthreadmem", t>>), Held(<<"perthreadmem", t>>)', m)
        /\ Parts(Held(<<"globalmem", MAIN>>)', Held(<<"globalmem", MAIN>>), m)
    BY <1>4, <1>5, <2>2
  <2> QED BY <1>2, <2>1, <2>3, <2>4, Move
<1>9. PoolInv'
  <2>1. PoolThread(t)'
    BY <1>4, <1>6, Setting DEF PoolThread
  <2> QED BY <1>1, <1>2, <1>6, <2>1, PoolStep
<1> QED BY <1>7, <1>8, <1>9 DEF MemInv

\* memblock_free(): the block goes to the thread's own pool.
LEMMA PutStep ==
  ASSUME MemInv, NEW t \in A!Pools, A!Put(t)
  PROVE  MemInv'
<1> DEFINE m == <<Head(p[t])>>
<1>1. /\ p[t] # <<>> /\ Head(p[t]) # NULL
      /\ \/ at[t] = "free" /\ ~ (Len(perthreadmem[t]) >= 2 * TARGET_POOL_SIZE)
         \/ at[t] = "put"
      /\ at' = [at EXCEPT ![t] = "free"]
      /\ perthreadmem' = [perthreadmem EXCEPT ![t] = Append(perthreadmem[t], Head(p[t]))]
      /\ p' = [p EXCEPT ![t] = Tail(p[t])]
      /\ globalmem' = globalmem
  BY DEF A!Put, A!Full, A!Goes
<1>2. /\ MemTypes /\ BlocksInv /\ PoolInv /\ perthreadmem[t] \in Seq(Blocks) /\ p[t] \in Seq(Blocks \union {NULL})
      /\ Len(perthreadmem[t]) \in Nat /\ DOMAIN perthreadmem = A!Pools /\ DOMAIN p = A!Pools /\ UNCHANGED A!Pools
      /\ PoolThread(t)
  BY DEF MemInv, MemTypes, A!Pools, PoolInv
<1>3. p'[t] \in Seq(Blocks \union {NULL}) /\ Parts(p[t], p'[t], m) /\ Head(p[t]) \in Blocks
  BY <1>1, <1>2, HeadParts
<1>4. /\ perthreadmem'[t] \in Seq(Blocks) /\ Len(perthreadmem'[t]) = Len(perthreadmem[t]) + 1
      /\ Parts(perthreadmem'[t], perthreadmem[t], m)
  BY <1>1, <1>2, <1>3, AppendParts
<1> HIDE DEF m
<1>5. /\ at'[t] = "free" /\ at[t] \notin {"gone", "sleep", "wait", "check"}
      /\ \A u \in A!Pools : u # t => perthreadmem'[u] = perthreadmem[u] /\ p'[u] = p[u] /\ at'[u] = at[u]
  BY <1>1, <1>2 DEF MemTypes
<1>6. MemTypes'
  <2>1. \A u \in A!Pools : perthreadmem'[u] \in Seq(Blocks) /\ p'[u] \in Seq(Blocks \union {NULL})
    BY <1>2, <1>3, <1>4, <1>5 DEF MemTypes
  <2>2. perthreadmem' = [u \in A!Pools |-> perthreadmem'[u]] /\ p' = [u \in A!Pools |-> p'[u]]
    BY <1>1, <1>2
  <2>3. perthreadmem' \in [A!Pools -> Seq(Blocks)] /\ p' \in [A!Pools -> Seq(Blocks \union {NULL})]
    BY <2>1, <2>2
  <2> QED BY <1>1, <1>2, <2>3 DEF MemTypes
<1>7. BlocksInv'
  <2>1. \A k \in Places : k # <<"p", t>> /\ k # <<"perthreadmem", t>> => Held(k)' = Held(k)
    BY <1>1, <1>5, OtherPlaces
  <2>2. /\ Held(<<"perthreadmem", t>>)' = perthreadmem'[t] /\ Held(<<"p", t>>)' = p'[t]
        /\ Held(<<"perthreadmem", t>>) = perthreadmem[t] /\ Held(<<"p", t>>) = p[t]
    BY DEF Held
  <2>3. /\ <<"p", t>> \in Places /\ <<"perthreadmem", t>> \in Places
        /\ <<"p", t>> # <<"perthreadmem", t>>
    BY PlacesAre
  <2>4. /\ Parts(Held(<<"p", t>>), Held(<<"p", t>>)', m)
        /\ Parts(Held(<<"perthreadmem", t>>)', Held(<<"perthreadmem", t>>), m)
    BY <1>3, <1>4, <2>2
  <2> QED BY <1>2, <2>1, <2>3, <2>4, Move
<1>8. PoolInv'
  <2>1. PoolThread(t)'
    <3>1. Len(perthreadmem'[t]) <= 2 * TARGET_POOL_SIZE
      BY <1>1, <1>2, <1>4, Setting DEF PoolThread
    <3> QED BY <1>5, <3>1 DEF PoolThread
  <2> QED BY <1>2, <1>5, <2>1, PoolStep
<1> QED BY <1>6, <1>7, <1>8 DEF MemInv

\* memblock_test(): a NULL is passed over; the next round, or the end
LEMMA TestStep ==
  ASSUME MemInv, NEW t \in A!Pools, A!Test(t)
  PROVE  MemInv'
<1>1. /\ MemTypes /\ BlocksInv /\ PoolInv /\ p[t] \in Seq(Blocks \union {NULL})
      /\ DOMAIN p = A!Pools /\ UNCHANGED A!Pools /\ PoolThread(t)
  BY DEF MemInv, MemTypes, A!Pools, PoolInv
<1>2. t # MAIN /\ at[t] = "free" /\ globalmem' = globalmem /\ perthreadmem' = perthreadmem
  BY DEF A!Test, A!Goes
<1>3. CASE p[t] # <<>> /\ Head(p[t]) = NULL /\ at' = [at EXCEPT ![t] = "free"] /\ p' = [p EXCEPT ![t] = Tail(p[t])]
  <2>1. p'[t] \in Seq(Blocks \union {NULL}) /\ Parts(p[t], p'[t], <<NULL>>)
    BY <1>1, <1>3, HeadParts
  <2>2. at'[t] = "free" /\ \A u \in A!Pools : u # t => p'[u] = p[u] /\ at'[u] = at[u]
    BY <1>1, <1>3 DEF MemTypes
  <2>3. MemTypes'
    <3>1. \A u \in A!Pools : p'[u] \in Seq(Blocks \union {NULL})
      BY <1>1, <2>1, <2>2 DEF MemTypes
    <3>2. p' = [u \in A!Pools |-> p'[u]]
      BY <1>1, <1>3
    <3>3. p' \in [A!Pools -> Seq(Blocks \union {NULL})]
      BY <3>1, <3>2
    <3> QED BY <1>1, <1>2, <1>3, <3>3 DEF MemTypes
  <2>4. BlocksInv'
    <3>1. \A k \in Places : k # <<"p", t>> => Held(k)' = Held(k)
      BY <1>2, <2>2, OtherPlaces
    <3>2. Held(<<"p", t>>)' = p'[t] /\ Held(<<"p", t>>) = p[t]
      BY DEF Held
    <3> QED BY <1>1, <2>1, <3>1, <3>2, PlacesAre, MoveNothing, Setting
  <2>5. PoolInv'
    <3>1. PoolThread(t)'
      BY <1>1, <1>2, <2>2 DEF PoolThread
    <3> QED BY <1>1, <1>2, <2>2, <3>1, PoolStep
  <2> QED BY <2>3, <2>4, <2>5 DEF MemInv
<1>4. ASSUME NEW x \in {"alloc", "gone"}, p[t] = <<>>, at' = [at EXCEPT ![t] = x], p' = p
      PROVE  MemInv'
  <2>1. at'[t] = x /\ \A u \in A!Pools : u # t => at'[u] = at[u]
    BY <1>1, <1>4 DEF MemTypes
  <2>2. MemTypes'
    BY <1>1, <1>2, <1>4 DEF MemTypes
  <2>3. BlocksInv'
    <3>1. \A k \in Places : Held(k)' = Held(k)
      BY <1>2, <1>4 DEF Held
    <3>2. UNCHANGED Places /\ UNCHANGED Blocks
      BY DEF Places, Blocks
    <3> QED BY <1>1, <3>1, <3>2 DEF BlocksInv, Has, Once
  <2>4. PoolInv'
    <3>1. PoolThread(t)'
      BY <1>1, <1>2, <1>4, <2>1 DEF PoolThread
    <3> QED BY <1>1, <1>2, <1>4, <2>1, <3>1, PoolStep
  <2> QED BY <2>2, <2>3, <2>4 DEF MemInv
<1>5. \/ p[t] # <<>> /\ Head(p[t]) = NULL /\ at' = [at EXCEPT ![t] = "free"] /\ p' = [p EXCEPT ![t] = Tail(p[t])]
      \/ \E x \in {"alloc", "gone"} : p[t] = <<>> /\ at' = [at EXCEPT ![t] = x] /\ p' = p
  BY DEF A!Test, A!Goes
<1> QED BY <1>3, <1>4, <1>5

\* main() moves no block: it creates the threads, stops them and counts.
LEMMA MainStep ==
  ASSUME MemInv, A!Create \/ A!Stop \/ A!Check
  PROVE  MemInv'
<1>1. MemTypes /\ BlocksInv /\ PoolInv /\ MAIN \in A!Pools /\ UNCHANGED A!Pools
  BY DEF MemInv, A!Pools
<1>2. globalmem' = globalmem /\ perthreadmem' = perthreadmem /\ p' = p
  BY DEF A!Create, A!Stop, A!Check
<1>3. BlocksInv'
  <2>1. \A k \in Places : Held(k)' = Held(k)
    BY <1>2 DEF Held
  <2>2. UNCHANGED Places /\ UNCHANGED Blocks
    BY DEF Places, Blocks
  <2> QED BY <1>1, <2>1, <2>2 DEF BlocksInv, Has, Once
<1>4. CASE A!Create
  <2>1. p[MAIN] = <<>> /\ at' = [t \in A!Pools |-> IF t = MAIN THEN "sleep" ELSE "free"]
    BY <1>4 DEF A!Create
  <2>2. MemTypes'
    BY <1>1, <1>2, <2>1 DEF MemTypes
  <2>3. PoolInv'
    <3>1. ASSUME NEW t \in A!Pools
          PROVE  PoolThread(t)'
      <4>1. PoolThread(t) /\ at'[t] = IF t = MAIN THEN "sleep" ELSE "free"
        BY <1>1, <2>1 DEF PoolInv
      <4> QED BY <1>2, <2>1, <4>1 DEF PoolThread
    <3>2. at'[MAIN] = "sleep"
      BY <1>1, <2>1
    <3> QED BY <1>1, <3>1, <3>2 DEF PoolInv
  <2> QED BY <1>3, <2>2, <2>3 DEF MemInv
<1>5. CASE A!Stop \/ A!Check
  <2>1. PICK x \in {"wait", "check"} :
          /\ at[MAIN] \in {"sleep", "wait"} /\ at' = [at EXCEPT ![MAIN] = x]
          /\ x = "check" => \A t \in FewThreads : at[t] = "gone"
    BY <1>5 DEF A!Stop, A!Check, A!Goes
  <2>2. at'[MAIN] = x /\ \A t \in A!Pools : t # MAIN => at'[t] = at[t]
    BY <1>1, <2>1 DEF MemTypes
  <2>3. MemTypes'
    BY <1>1, <1>2, <2>1 DEF MemTypes
  <2>4. PoolInv'
    <3>1. ASSUME NEW t \in A!Pools
          PROVE  PoolThread(t)'
      <4>1. PoolThread(t)
        BY <1>1 DEF PoolInv
      <4> QED BY <1>2, <2>1, <2>2, <4>1 DEF PoolThread
    <3>2. \A t \in FewThreads : t \in A!Pools /\ t # MAIN
      BY Setting DEF A!Pools
    <3> QED BY <1>1, <2>1, <2>2, <3>1, <3>2 DEF PoolInv
  <2> QED BY <1>3, <2>3, <2>4 DEF MemInv
<1> QED BY <1>4, <1>5

\* Every step of smpalloc.c
LEMMA MemNext ==
  ASSUME MemInv, A!Next
  PROVE  MemInv'
<1>1. ASSUME NEW t \in A!Pools, A!Step(t)
      PROVE  MemInv'
  BY <1>1, RefillStep, TakeStep, SpillStep, PutStep, TestStep
     DEF A!Step, A!memblock_alloc, A!memblock_free
<1> QED BY <1>1, MainStep DEF A!Next

\* The steps of the other programs
LEMMA MemSame ==
  ASSUME MemInv, UNCHANGED mem
  PROVE  MemInv'
<1>1. UNCHANGED A!Pools /\ UNCHANGED Places /\ UNCHANGED Blocks
  BY DEF A!Pools, Places, Blocks
<1>2. \A k \in Places : Held(k)' = Held(k)
  BY DEF mem, Held
<1> QED BY <1>1, <1>2 DEF mem, MemInv, MemTypes, BlocksInv, Has, Once, PoolInv, PoolThread

-----------------------------------------------------------------------------
(***************************************************************************)
(* The theorems                                                            *)
(***************************************************************************)

\* An empty list and nobody in a call
LEMMA RwInit ==
  ASSUME R!RwInit, Idle
  PROVE  RwInv
<1>1. /\ \A t \in Threads : pc[t] = "idle" /\ req[t] = NoReq
      /\ pc = [t \in Threads |-> "idle"] /\ req = [t \in Threads |-> NoReq]
  BY DEF Idle
<1>2. /\ counter = 0 /\ readers = {} /\ writer = NULL /\ reg = [t \in FewThreads |-> R!NoReg]
      /\ ptr = [n \in Nodes |-> R!Single(n)]
  BY DEF R!RwInit, Nodes
<1>3. RwTypes
  <2>1. NoReq \in [op : {"none"} \union Operations, e : Elems \union {NULL}]
    BY DEF NoReq
  <2>2. ptr \in [Nodes -> [prev : Nodes, next : Nodes]]
    BY <1>2 DEF R!Single
  <2> QED BY <1>1, <1>2, <2>1, <2>2 DEF RwTypes
<1>4. \A t \in FewThreads : pc[t] = "idle" /\ req[t] = NoReq
  BY <1>1, Setting
<1>5. \A t \in FewThreads : RwThread(t)
  BY <1>2, <1>4, Setting DEF RwThread, NoReq, Operations, Pushes, Pops, Reserving, Locked
<1>6. WriterAlone /\ RegInv(<<>>) /\ ChainInv(<<>>) /\ SpareInv(<<>>)
  BY <1>2, <1>4 DEF WriterAlone, RegInv, ChainInv, SpareInv, Pushing, Operations, Pushes, Pops
<1>7. CounterInv(<<>>)
  <2>1. ReservedAt(TRUE, 0) /\ ReservedAt(FALSE, 0)
    BY <1>4 DEF ReservedAt
  <2>2. 0 \in 0 .. 2 /\ counter = Len(<<>>) - 0 - 0
    BY <1>2
  <2> QED BY <2>1, <2>2 DEF CounterInv
<1>8. PtrInv(<<>>)
  <2>1. \A i : Node(<<>>, i) = HEAD
    BY DEF Node
  <2>2. ptr[HEAD] = R!Single(HEAD) /\ \A e \in Elems : ptr[e] = R!Single(e)
    BY <1>2 DEF Nodes
  <2> QED BY <2>1, <2>2 DEF PtrInv, Threaded, OutOf, R!Single
<1>9. <<>> \in Seq(Elems)
  OBVIOUS
<1> QED BY <1>3, <1>5, <1>6, <1>7, <1>8, <1>9 DEF RwInv, ListInv

\* Every block is still to be freed by the initial thread.
LEMMA MemInit ==
  ASSUME A!Init
  PROVE  MemInv
<1>1. /\ globalmem = <<>> /\ MAIN \in A!Pools
      /\ \A t \in A!Pools : perthreadmem[t] = <<>>
      /\ \A t \in A!Pools : at[t] = IF t = MAIN THEN "free" ELSE "unborn"
      /\ \A t \in A!Pools : t # MAIN => p[t] = <<>>
      /\ p[MAIN] = [i \in Blocks |-> i]
  BY DEF A!Init, A!Pools, Blocks
<1>2. p[MAIN] \in Seq(Blocks) /\ DOMAIN p[MAIN] = Blocks
  BY <1>1, Setting DEF Blocks
<1>3. MemTypes
  <2>1. \A t \in A!Pools : p[t] \in Seq(Blocks \union {NULL})
    <3>1. p[MAIN] \in Seq(Blocks \union {NULL})
      BY <1>2
    <3>2. <<>> \in Seq(Blocks \union {NULL})
      OBVIOUS
    <3> QED BY <1>1, <3>1, <3>2
  <2>2. p = [t \in A!Pools |-> p[t]]
    BY DEF A!Init
  <2>3. p \in [A!Pools -> Seq(Blocks \union {NULL})]
    BY <2>1, <2>2
  <2>4. at \in [A!Pools -> {"unborn", "free", "put", "alloc", "take", "gone", "sleep", "wait", "check"}]
    BY DEF A!Init
  <2>5. globalmem \in Seq(Blocks) /\ perthreadmem \in [A!Pools -> Seq(Blocks)]
    BY DEF A!Init
  <2> QED BY <2>3, <2>4, <2>5 DEF MemTypes
<1>4. BlocksInv
  <2>1. <<"p", MAIN>> \in Places /\ Held(<<"p", MAIN>>) = p[MAIN]
    BY <1>1, PlacesAre
  <2>2. \A b \in Blocks : Has(p[MAIN], b)
    BY <1>1, <1>2 DEF Has
  <2>3. Once(p[MAIN])
    BY <1>1, <1>2 DEF Once
  <2>4. \A k \in Places : k # <<"p", MAIN>> => Held(k) = <<>>
    BY <1>1 DEF Places, Held
  <2>5. Once(<<>>) /\ \A b \in Blocks : ~ Has(<<>>, b)
    BY DEF Once, Has
  <2> QED BY <2>1, <2>2, <2>3, <2>4, <2>5 DEF BlocksInv
<1>5. PoolInv
  BY <1>1, Setting DEF PoolInv, PoolThread
<1> QED BY <1>3, <1>4, <1>5 DEF MemInv

\* Nothing happens to the list.
LEMMA RwSame ==
  ASSUME RwInv, UNCHANGED <<pc, req, rw>>
  PROVE  RwInv'
<1>1. UNCHANGED <<pc, req, counter, readers, writer, ptr, reg>>
  BY DEF rw
<1>2. PICK c \in Seq(Elems) : ListInv(c)
  BY DEF RwInv
<1>3. RwTypes' /\ WriterAlone' /\ ChainInv(c)' /\ PtrInv(c)' /\ RegInv(c)'
  BY <1>1, <1>2 DEF ListInv, RwTypes, WriterAlone, ChainInv, Pushing, PtrInv, RegInv
<1>4. \A t \in FewThreads : RwThread(t)'
  BY <1>1, <1>2 DEF ListInv, RwThread, Left
<1>5. CounterInv(c)'
  BY <1>1, <1>2 DEF ListInv, CounterInv, ReservedAt, Reservation, Left
<1>6. SpareInv(c)'
  BY <1>1, <1>2 DEF ListInv, SpareInv, Reservation
<1> QED BY <1>3, <1>4, <1>5, <1>6 DEF RwInv, ListInv

\* Every step of lockrwdeq.c
LEMMA RwNext ==
  ASSUME OneThreadPerEnd, RwInv, NEW t \in FewThreads,
         R!RwStep(t) \/ \E o \in Operations : R!RwCall(t, o)
  PROVE  RwInv'
<1>1. PICK c \in Seq(Elems) : ListInv(c)
  BY DEF RwInv
<1>2. CASE R!ListEnd(t)
  <2>1. PICK d \in Seq(Elems) :
          /\ Added(t, c, d) \/ Removed(t, c, d) \/ Nothing(t, c, d)
          /\ ptr' \in Pointing /\ Threaded(ptr', d, "prev", "next") /\ OutOf(ptr', d)
    BY <1>1, <1>2, ListEndIs
  <2>2. ListInv(d)'
    BY <1>1, <1>2, <2>1, ListEndStep
  <2> QED BY <2>2 DEF RwInv
<1>3. CASE R!Reserve(t) \/ R!Wrlock(t) \/ R!ListBegin(t) \/ R!Settle(t) \/ \E o \in Operations : R!RwCall(t, o)
  <2>1. ListInv(c)'
    BY <1>1, <1>3, RwCallStep, ReserveStep, WrlockStep, ListBeginStep, SettleStep
  <2> QED BY <2>1 DEF RwInv
<1> QED BY <1>2, <1>3 DEF R!RwStep

\* The initial states satisfy the invariant.
LEMMA Initially ==
  Init => IInv
BY RwInit, MemInit DEF Init, IInv, R!RwInit

\* Every step keeps it.
LEMMA Inductive ==
  IInv /\ [Next]_vars => IInv'
<1> SUFFICES ASSUME IInv, [Next]_vars
             PROVE  IInv'
  OBVIOUS
<1>1. CASE UNCHANGED vars
  <2>1. UNCHANGED <<impl, pc, req, done, rw, mem>>
    BY <1>1 DEF vars, dvars
  <2>2. impl = "lockrwdeq" /\ OneThreadPerEnd => RwInv'
    BY <2>1, RwSame DEF IInv, rw
  <2> QED BY <2>1, <2>2, MemSame DEF IInv, rw
<1>2. ASSUME NEW t \in Threads, lockrwdeq(t) \/ \E o \in Operations : Call(t, o) /\ impl = "lockrwdeq"
      PROVE  IInv'
  <2>1. /\ impl = "lockrwdeq" /\ impl' = impl /\ t \in FewThreads
        /\ R!RwStep(t) \/ \E o \in Operations : R!RwCall(t, o)
    BY <1>2 DEF lockrwdeq, Call, ReadWrite
  <2>2. OneThreadPerEnd => RwInv'
    BY <2>1, RwNext DEF IInv
  <2> QED BY <2>1, <2>2 DEF IInv
<1>3. ASSUME NEW t \in Threads,
             lockhdeq(t) \/ lockdeq(t) \/ locktdeq(t) \/ \E o \in Operations : Call(t, o) /\ impl # "lockrwdeq"
      PROVE  IInv'
  <2>1. UNCHANGED <<impl, rw, mem>> /\ impl \notin {"lockrwdeq", "smpalloc"}
    BY <1>3 DEF lockhdeq, lockdeq, locktdeq, Call, Hashed, Tandem
  <2> QED BY <2>1 DEF IInv, rw
<1>4. CASE smpalloc
  <2>1. impl = "smpalloc" /\ impl' = impl /\ reg' = reg /\ A!Next
    BY <1>4 DEF smpalloc, Allocator, rw
  <2> QED BY <2>1, MemNext DEF IInv
<1>5. CASE Over
  BY <1>1, <1>5 DEF Over
<1> QED BY <1>1, <1>2, <1>3, <1>4, <1>5 DEF Next, Step

\* The slots of the pools and of the arrays p are those of the places.
LEMMA SlotIs ==
  ASSUME NEW s
  PROVE  s \in A!Slots \union A!Hands <=>
           \E k \in Places : \E i \in DOMAIN Held(k) : s = <<k[1], k[2], i>>
<1>1. ASSUME s \in A!Slots \union A!Hands
      PROVE  \E k \in Places : \E i \in DOMAIN Held(k) : s = <<k[1], k[2], i>>
  <2>1. ASSUME NEW i \in DOMAIN globalmem, s = <<"globalmem", MAIN, i>>
        PROVE  \E k \in Places : \E j \in DOMAIN Held(k) : s = <<k[1], k[2], j>>
    <3>1. <<"globalmem", MAIN>> \in Places /\ i \in DOMAIN Held(<<"globalmem", MAIN>>)
      BY <2>1 DEF Places, Held
    <3> QED BY <2>1, <3>1
  <2>2. ASSUME NEW t \in A!Pools, NEW i \in DOMAIN perthreadmem[t], s = <<"perthreadmem", t, i>>
        PROVE  \E k \in Places : \E j \in DOMAIN Held(k) : s = <<k[1], k[2], j>>
    <3>1. <<"perthreadmem", t>> \in Places /\ i \in DOMAIN Held(<<"perthreadmem", t>>)
      BY <2>2, PlacesAre
    <3> QED BY <2>2, <3>1
  <2>3. ASSUME NEW t \in A!Pools, NEW i \in DOMAIN p[t], s = <<"p", t, i>>
        PROVE  \E k \in Places : \E j \in DOMAIN Held(k) : s = <<k[1], k[2], j>>
    <3>1. <<"p", t>> \in Places /\ i \in DOMAIN Held(<<"p", t>>)
      BY <2>3, PlacesAre
    <3> QED BY <2>3, <3>1
  <2> QED BY <1>1, <2>1, <2>2, <2>3 DEF A!Slots, A!Hands
<1>2. ASSUME NEW k \in Places, NEW i \in DOMAIN Held(k), s = <<k[1], k[2], i>>
      PROVE  s \in A!Slots \union A!Hands
  <2>1. CASE k = <<"globalmem", MAIN>>
    BY <1>2, <2>1 DEF Held, A!Slots
  <2>2. ASSUME NEW t \in A!Pools, k = <<"perthreadmem", t>>
        PROVE  s \in A!Slots
    BY <1>2, <2>2 DEF Held, A!Slots
  <2>3. ASSUME NEW t \in A!Pools, k = <<"p", t>>
        PROVE  s \in A!Hands
    BY <1>2, <2>3 DEF Held, A!Hands
  <2> QED BY <2>1, <2>2, <2>3 DEF Places
<1> QED BY <1>1, <1>2

\* Each block is in one slot.
LEMMA OneSlot ==
  ASSUME MemInv, NEW b \in Blocks
  PROVE  \E s \in A!Slots \union A!Hands :
           \A r \in A!Slots \union A!Hands : A!BlockIn(r) = b <=> r = s
<1>1. ASSUME NEW k \in Places, NEW i \in DOMAIN Held(k)
      PROVE  A!BlockIn(<<k[1], k[2], i>>) = Held(k)[i]
  BY DEF A!BlockIn, Held, Places
<1>2. PICK k \in Places : Has(Held(k), b)
  BY DEF MemInv, BlocksInv
<1>3. PICK i \in DOMAIN Held(k) : Held(k)[i] = b
  BY <1>2 DEF Has
<1>4. ASSUME NEW r \in A!Slots \union A!Hands
      PROVE  A!BlockIn(r) = b <=> r = <<k[1], k[2], i>>
  <2>1. PICK l \in Places : \E j \in DOMAIN Held(l) : r = <<l[1], l[2], j>>
    BY SlotIs
  <2>2. PICK j \in DOMAIN Held(l) : r = <<l[1], l[2], j>>
    BY <2>1
  <2>3. A!BlockIn(r) = Held(l)[j]
    BY <1>1, <2>2
  <2>4. CASE A!BlockIn(r) = b
    <3>1. Has(Held(l), b)
      BY <2>3, <2>4 DEF Has
    <3>2. l = k
      BY <1>2, <3>1 DEF MemInv, BlocksInv
    <3>3. j = i
      <4>1. Once(Held(k))
        BY DEF MemInv, BlocksInv
      <4> QED BY <1>3, <2>3, <2>4, <3>2, <4>1 DEF Once
    <3> QED BY <2>2, <2>4, <3>2, <3>3
  <2>5. CASE r = <<k[1], k[2], i>>
    BY <1>1, <1>3, <2>5
  <2> QED BY <2>4, <2>5
<1>5. <<k[1], k[2], i>> \in A!Slots \union A!Hands
  BY SlotIs
<1> QED BY <1>4, <1>5

\* Each block is there once.
LEMMA OneCopy ==
  ASSUME MemInv, NEW b \in Blocks
  PROVE  A!Copies(b) = 1
<1>1. PICK s \in A!Slots \union A!Hands :
        \A r \in A!Slots \union A!Hands : A!BlockIn(r) = b <=> r = s
  BY OneSlot
<1>2. {r \in A!Slots \union A!Hands : A!BlockIn(r) = b} = {s}
  BY <1>1
<1>3. A!Copies(b) = Cardinality({r \in A!Slots \union A!Hands : A!BlockIn(r) = b})
  BY DEF A!Copies, A!Cardinality, Cardinality
<1>4. Cardinality({s}) = 1
  BY FS_Singleton
<1> QED BY <1>2, <1>3, <1>4

\* The global pool has room for every block.
LEMMA GlobalPoolHolds ==
  ASSUME MemInv
  PROVE  Len(globalmem) <= GLOBAL_POOL_SIZE
<1>1. globalmem \in Seq(Blocks) /\ Len(globalmem) \in Nat /\ DOMAIN globalmem = 1 .. Len(globalmem)
  BY DEF MemInv, MemTypes
<1>2. Once(globalmem)
  <2>1. <<"globalmem", MAIN>> \in Places /\ Held(<<"globalmem", MAIN>>) = globalmem
    BY DEF Places, Held
  <2> QED BY <2>1 DEF MemInv, BlocksInv
<1>3. globalmem \in Injection(1 .. Len(globalmem), Blocks)
  BY <1>1, <1>2 DEF Once, Injection, IsInjective
<1>4. IsFiniteSet(Blocks) /\ Cardinality(Blocks) = GLOBAL_POOL_SIZE
  BY FS_Interval, Setting DEF Blocks
<1>5. Cardinality(1 .. Len(globalmem)) <= GLOBAL_POOL_SIZE
  BY <1>3, <1>4, FS_Injection
<1>6. Cardinality(1 .. Len(globalmem)) = Len(globalmem)
  BY <1>1, FS_Interval
<1> QED BY <1>5, <1>6

\* What main() counts once every thread is through
LEMMA CountAtEnd ==
  ASSUME MemInv, at[MAIN] = "check"
  PROVE  A!memblocks_available = GLOBAL_POOL_SIZE
<1>1. ASSUME NEW t \in A!Pools
      PROVE  p[t] = <<>>
  <2>1. t = MAIN \/ t \in FewThreads
    BY DEF A!Pools
  <2>2. at[t] \in {"gone", "check"}
    BY <2>1 DEF MemInv, PoolInv
  <2> QED BY <2>2 DEF MemInv, PoolInv, PoolThread
<1>2. A!Hands = {}
  BY <1>1 DEF A!Hands
<1>3. \A s \in A!Slots : A!BlockIn(s) \in Blocks
  <2>1. ASSUME NEW i \in DOMAIN globalmem
        PROVE  globalmem[i] \in Blocks
    BY DEF MemInv, MemTypes
  <2>2. ASSUME NEW t \in A!Pools, NEW i \in DOMAIN perthreadmem[t]
        PROVE  perthreadmem[t][i] \in Blocks
    <3>1. perthreadmem[t] \in Seq(Blocks)
      BY DEF MemInv, MemTypes
    <3> QED BY <3>1
  <2> QED BY <2>1, <2>2 DEF A!Slots, A!BlockIn
<1> DEFINE g == [b \in Blocks |-> CHOOSE s \in A!Slots : A!BlockIn(s) = b]
<1>4. \A b \in Blocks : \E s \in A!Slots : \A r \in A!Slots : A!BlockIn(r) = b <=> r = s
  BY <1>2, OneSlot
<1>5. \A b \in Blocks : g[b] \in A!Slots /\ \A r \in A!Slots : A!BlockIn(r) = b <=> r = g[b]
  BY <1>4
<1>6. g \in [Blocks -> A!Slots]
  BY <1>5
<1> HIDE DEF g
<1>7. g \in Injection(Blocks, A!Slots)
  <2>1. \A b, c \in Blocks : g[b] = g[c] => b = c
    BY <1>5
  <2> QED BY <1>6, <2>1 DEF Injection, IsInjective
<1>8. g \in Surjection(Blocks, A!Slots)
  BY <1>3, <1>5, <1>6 DEF Surjection
<1>9. ExistsBijection(Blocks, A!Slots)
  BY <1>7, <1>8 DEF Bijection, ExistsBijection
<1>10. IsFiniteSet(Blocks) /\ Cardinality(Blocks) = GLOBAL_POOL_SIZE
  BY FS_Interval, Setting DEF Blocks
<1> QED BY <1>9, <1>10, FS_Bijection DEF A!memblocks_available, A!Cardinality, Cardinality

\* In every state of every program: a step keeps the invariant, which says for
\* lockrwdeq.c how far the counter falls short of the list and for smpalloc.c
\* where each block is.
THEOREM Invariance == Spec => []IInv
<1>1. Init => IInv
  BY Initially
<1>2. IInv /\ [Next]_vars => IInv'
  BY Inductive
<1> QED BY <1>1, <1>2, PTL DEF Spec

\* The list operations that lockrwdeq.c lets run at the same time, under the
\* read lock, share no pointer, for any number of threads and elements.
THEOREM PointersApart == Spec => []EndsApart
<1>1. IInv => EndsApart
  <2>1. CASE impl = "lockrwdeq" /\ OneThreadPerEnd
    BY <2>1, Apart DEF IInv, RwInv
  <2>2. CASE impl # "lockrwdeq"
    BY <2>2 DEF IInv, EndsApart, R!Pointers
  <2>3. CASE ~ OneThreadPerEnd
    BY <2>3 DEF EndsApart
  <2> QED BY <2>1, <2>2, <2>3
<1> QED BY <1>1, Invariance, PTL

\* memblock_alloc() and memblock_free() neither lose nor double a block nor
\* overrun a pool, for any number of threads and blocks and any pool size.
THEOREM NoBlockLost == Spec => []BlocksConserved
<1>1. IInv => BlocksConserved
  <2>1. SUFFICES ASSUME MemInv
                 PROVE  /\ \A b \in Blocks : A!Copies(b) = 1
                        /\ \A t \in A!Pools : Len(perthreadmem[t]) <= 2 * TARGET_POOL_SIZE
                        /\ Len(globalmem) <= GLOBAL_POOL_SIZE
                        /\ at[MAIN] = "check" => A!memblocks_available = GLOBAL_POOL_SIZE
    BY DEF IInv, BlocksConserved, Blocks
  <2>2. \A t \in A!Pools : Len(perthreadmem[t]) <= 2 * TARGET_POOL_SIZE
    BY <2>1 DEF MemInv, PoolInv, PoolThread
  <2> QED BY <2>1, <2>2, OneCopy, GlobalPoolHolds, CountAtEnd
<1> QED BY <1>1, Invariance, PTL
=============================================================================
