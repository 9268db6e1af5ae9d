------------------------------- MODULE Deques -------------------------------
(***************************************************************************)
(* The double-ended queues of CodeSamples/SMPdesign.                       *)
(***************************************************************************)
EXTENDS DequeBase

CONSTANTS
  HEAD,                \* the list head of lockrwdeq.c, p->chain
  OneThreadPerEnd      \* whether the callers of lockrwdeq.c keep each end to one thread at a time

VARIABLES
  llock, rlock,        \* lockhdeq.c, locktdeq.c: the holder, or NULL
  lidx, ridx,          \* lockhdeq.c
  bkt,                 \* per bucket: its chain, from the left (tail) to the right (head)
  idx,                 \* per thread: the local i
  ldeq, rdeq,          \* locktdeq.c: the chains, from the left to the right
  counter,             \* lockrwdeq.c
  readers, writer,     \* who holds the lock, and how
  ptr,                 \* the list: each node's prev and next; HEAD.prev is the left end, HEAD.next the right
  reg                  \* per thread: the nodes its list operation has read

-----------------------------------------------------------------------------
(***************************************************************************)
(* The hashed double-ended queue of CodeSamples/SMPdesign/lockhdeq.c (and  *)
(* of lockdeq.c, the same algorithm in one piece): PDEQ_N_BKTS locked      *)
(* deques; the left-hand lock and index choose the bucket of a left-hand   *)
(* operation, the right-hand ones that of a right-hand operation.          *)
(***************************************************************************)

hvars == <<lidx, ridx, llock, rlock, bkt, idx>>

Buckets == 0 .. PDEQ_N_BKTS - 1

moveleft(i) == (i - 1) % PDEQ_N_BKTS
moveright(i) == (i + 1) % PDEQ_N_BKTS

\* init_pdeq()
HashInit ==
  /\ lidx = 0 /\ ridx = 1 % PDEQ_N_BKTS
  /\ llock = NULL /\ rlock = NULL
  /\ bkt = [i \in Buckets |-> <<>>]
  /\ idx = [t \in Threads |-> 0]

HashCall(t, o) ==
  /\ Calls(t, o, Unused({bkt[i] : i \in Buckets}))
  /\ UNCHANGED hvars

\* The bucket an operation works on
Index(t) ==
  CASE req[t].op = "push_l" -> lidx
    [] req[t].op = "push_r" -> ridx
    [] req[t].op = "pop_l"  -> moveright(lidx)
    [] req[t].op = "pop_r"  -> moveleft(ridx)

\* spin_lock(&d->llock) or rlock, and i
Lock(t) ==
  /\ Goto(t, req[t].op, "bucket")
  /\ \/ Left(t) /\ llock = NULL /\ llock' = t /\ UNCHANGED rlock
     \/ ~ Left(t) /\ rlock = NULL /\ rlock' = t /\ UNCHANGED llock
  /\ idx' = [idx EXCEPT ![t] = Index(t)]
  /\ UNCHANGED <<lidx, ridx, bkt, req, done>>

\* deq_push_l(), deq_push_r()
PushEnd(t, items) == IF Left(t) THEN <<req[t].e>> \o items ELSE items \o <<req[t].e>>

\* deq_pop_l(), deq_pop_r(), deq_push_l() or deq_push_r(), under the bucket's lock
BucketOp(t) ==
  LET items == bkt[idx[t]]
      popped == IF Left(t) THEN Head(items) ELSE Last(items)
  IN  /\ Goto(t, "bucket", "unlock")
      /\ Done(t)
      /\ \/ /\ req[t].op \in Pushes
            /\ bkt' = [bkt EXCEPT ![idx[t]] = PushEnd(t, items)]
            /\ UNCHANGED req
         \/ /\ req[t].op \in Pops /\ items # <<>>
            /\ bkt' = [bkt EXCEPT ![idx[t]] = IF Left(t) THEN Tail(items) ELSE Front(items)]
            /\ Took(t, popped)
         \/ /\ req[t].op \in Pops /\ items = <<>>
            /\ UNCHANGED <<bkt, req>>
      /\ UNCHANGED <<lidx, ridx, llock, rlock, idx>>

\* The index that a thread which has been at its bucket leaves behind
NewIndex(t) ==
  CASE req[t].op = "push_l" -> moveleft(lidx)
    [] req[t].op = "push_r" -> moveright(ridx)
    [] req[t].e = NULL      -> IF Left(t) THEN lidx ELSE ridx
    [] OTHER                -> idx[t]

\* update the index, spin_unlock(), return
Unlock(t) ==
  /\ Returns(t, "unlock")
  /\ \/ Left(t) /\ lidx' = NewIndex(t) /\ llock' = NULL /\ UNCHANGED <<ridx, rlock>>
     \/ ~ Left(t) /\ ridx' = NewIndex(t) /\ rlock' = NULL /\ UNCHANGED <<lidx, llock>>
  /\ idx' = [idx EXCEPT ![t] = 0]
  /\ UNCHANGED bkt

HashStep(t) == Lock(t) \/ BucketOp(t) \/ Unlock(t)

-----------------------------------------------------------------------------
\* lidx once the left-hand operation that has been at its bucket is over
LeftIndex ==
  IF llock # NULL /\ pc[llock] = "unlock" THEN NewIndex(llock) ELSE lidx

Count == Len(FlattenSeq([i \in 1 .. PDEQ_N_BKTS |-> bkt[i - 1]]))

\* The queue read off the buckets: from the one right of lidx around and around.
Contents ==
  [k \in 1 .. Count |->
     LET b == (LeftIndex + k) % PDEQ_N_BKTS
         j == (k - 1) \div PDEQ_N_BKTS + 1
     IN  IF j \in DOMAIN bkt[b] THEN bkt[b][j] ELSE NULL]

-----------------------------------------------------------------------------
(***************************************************************************)
(* The tandem double-ended queue of CodeSamples/SMPdesign/locktdeq.c: a    *)
(* left and a right deque, each with its lock; a pop that finds its own    *)
(* empty takes the other's elements over.  pdeq_pop_r() drops rlock to     *)
(* take both locks in the order left, right, and must look again.          *)
(***************************************************************************)

tvars == <<ldeq, rdeq, llock, rlock>>

\* init_pdeq()
TandemInit ==
  /\ ldeq = <<>> /\ rdeq = <<>>
  /\ llock = NULL /\ rlock = NULL

TandemCall(t, o) ==
  /\ Calls(t, o, Unused({ldeq, rdeq}))
  /\ UNCHANGED tvars

\* pdeq_push_l(), pdeq_push_r()
PushL(t) ==
  /\ llock = NULL
  /\ Goto(t, "push_l", "return")
  /\ ldeq' = <<req[t].e>> \o ldeq
  /\ Done(t)
  /\ UNCHANGED <<rdeq, llock, rlock, req>>

PushR(t) ==
  /\ rlock = NULL
  /\ Goto(t, "push_r", "return")
  /\ rdeq' = rdeq \o <<req[t].e>>
  /\ Done(t)
  /\ UNCHANGED <<ldeq, llock, rlock, req>>

\* pdeq_pop_l(): spin_lock(&d->llock), deq_pop_l(&d->ldeq)
PopL(t) ==
  /\ llock = NULL
  /\ \/ /\ ldeq # <<>>
        /\ Goto(t, "pop_l", "return")
        /\ Took(t, Head(ldeq)) /\ ldeq' = Tail(ldeq) /\ Done(t)
        /\ UNCHANGED llock
     \/ /\ ldeq = <<>>
        /\ Goto(t, "pop_l", "pop_l2")
        /\ llock' = t
        /\ UNCHANGED <<ldeq, req, done>>
  /\ UNCHANGED <<rdeq, rlock>>

\* spin_lock(&d->rlock), deq_pop_l(&d->rdeq), move the rest over, release both
PopL2(t) ==
  /\ rlock = NULL
  /\ Goto(t, "pop_l2", "return")
  /\ \/ /\ rdeq # <<>>
        /\ Took(t, Head(rdeq))
        /\ ldeq' = Tail(rdeq) /\ rdeq' = <<>>
     \/ /\ rdeq = <<>>
        /\ UNCHANGED <<req, ldeq, rdeq>>
  /\ llock' = NULL
  /\ Done(t)
  /\ UNCHANGED rlock

\* pdeq_pop_r(): spin_lock(&d->rlock), deq_pop_r(&d->rdeq); if it is empty, release
PopR(t) ==
  /\ rlock = NULL
  /\ \/ /\ rdeq # <<>>
        /\ Goto(t, "pop_r", "return")
        /\ Took(t, Last(rdeq)) /\ rdeq' = Front(rdeq) /\ Done(t)
     \/ /\ rdeq = <<>>
        /\ Goto(t, "pop_r", "pop_r_l")
        /\ UNCHANGED <<rdeq, req, done>>
  /\ UNCHANGED <<ldeq, llock, rlock>>

\* Mutant: the pop starts over instead of turning to the left deque.
PopRRetry(t) ==
  /\ Goto(t, "pop_r_l", "pop_r")
  /\ UNCHANGED <<ldeq, rdeq, llock, rlock, req, done>>

\* spin_lock(&d->llock)
PopRLock(t) ==
  /\ llock = NULL
  /\ Goto(t, "pop_r_l", "pop_r2")
  /\ llock' = t
  /\ UNCHANGED <<ldeq, rdeq, rlock, req, done>>

\* Mutant: the right deque is not looked at again.
PopRNoRecheck(t) ==
  /\ rlock = NULL
  /\ Goto(t, "pop_r2", "return")
  /\ \/ /\ ldeq # <<>>
        /\ Took(t, Last(ldeq)) /\ rdeq' = Front(ldeq) \o rdeq /\ ldeq' = <<>>
     \/ /\ ldeq = <<>>
        /\ UNCHANGED <<req, ldeq, rdeq>>
  /\ llock' = NULL
  /\ Done(t)
  /\ UNCHANGED rlock

\* spin_lock(&d->rlock), deq_pop_r(&d->rdeq) again, then the left deque and
\* move its rest over, release both
PopR2(t) ==
  /\ rlock = NULL
  /\ Goto(t, "pop_r2", "return")
  /\ \/ /\ rdeq # <<>>
        /\ Took(t, Last(rdeq)) /\ rdeq' = Front(rdeq)
        /\ UNCHANGED ldeq
     \/ /\ rdeq = <<>> /\ ldeq # <<>>
        /\ Took(t, Last(ldeq)) /\ rdeq' = Front(ldeq) /\ ldeq' = <<>>
     \/ /\ rdeq = <<>> /\ ldeq = <<>>
        /\ UNCHANGED <<req, ldeq, rdeq>>
  /\ llock' = NULL
  /\ Done(t)
  /\ UNCHANGED rlock

Return(t) ==
  /\ Returns(t, "return")
  /\ UNCHANGED tvars

TandemStep(t) ==
  PushL(t) \/ PushR(t) \/ PopL(t) \/ PopL2(t) \/ PopR(t) \/ PopRLock(t) \/ PopR2(t) \/ Return(t)

-----------------------------------------------------------------------------
(***************************************************************************)
(* The double-ended queue of CodeSamples/SMPdesign/lockrwdeq.c: one list,  *)
(* a reader-writer lock and a counter of the items that may be touched.    *)
(* An operation works under the read lock, next to others, while its       *)
(* reservation leaves an item over, and takes the write lock otherwise.    *)
(*                                                                         *)
(* The reservation keeps the two ends of the list apart.  Nothing in the   *)
(* code keeps two operations at the same end apart: OneThreadPerEnd says   *)
(* whether the callers do.                                                 *)
(***************************************************************************)

rwvars == <<counter, readers, writer, ptr, reg>>

\* CDS_INIT_LIST_HEAD()
Single(n) == [prev |-> n, next |-> n]

NoReg == [e |-> NULL, in |-> NULL, out |-> NULL]

\* init_pdeq()
RwInit ==
  /\ counter = 0
  /\ readers = {} /\ writer = NULL
  /\ ptr = [n \in Elems \union {HEAD} |-> Single(n)]
  /\ reg = [t \in Threads |-> NoReg]

\* Nobody works at the end that o is for.
EndFree(t, o) ==
  \A u \in Threads \ {t} : pc[u] # "idle" => Left(u) # (o \in {"push_l", "pop_l"})

\* A thread calls operation o; it pushes an element that is in no list.
RwCall(t, o) ==
  /\ OneThreadPerEnd => EndFree(t, o)
  /\ Calls(t, o, {e \in Elems : ptr[e] = Single(e) /\ \A u \in Threads : req[u].e # e})
  /\ UNCHANGED rwvars

\* Mutant: a pop reserves its own item and not its neighbour.
ReserveOne(op) == 1

\* What an operation takes off the counter before it starts
Reserved(op) == IF op \in Pops THEN 2 ELSE 1

\* pthread_rwlock_rdlock(), atomic_sub_return(); too few: pthread_rwlock_unlock()
Reserve(t) ==
  /\ pc[t] \in Pushes \union Pops
  /\ writer = NULL
  /\ counter' = counter - Reserved(req[t].op)
  /\ \/ counter' >= 1 /\ Goto(t, req[t].op, "list") /\ readers' = readers \union {t}
     \/ counter' < 1 /\ Goto(t, req[t].op, "upgrade") /\ UNCHANGED readers
  /\ UNCHANGED <<writer, ptr, reg, req, done>>

\* pthread_rwlock_wrlock()
Wrlock(t) ==
  /\ readers = {} /\ writer = NULL
  /\ Goto(t, "upgrade", "list")
  /\ writer' = t
  /\ UNCHANGED <<counter, readers, ptr, reg, req, done>>

\* The pointer at t's end of the head, which leads inwards, and the other one
Inwards(t) == IF Left(t) THEN "prev" ELSE "next"
Outwards(t) == IF Left(t) THEN "next" ELSE "prev"

\* What a push or a pop reads: the element, its neighbours inwards and outwards
Loads(t) ==
  LET e == ptr[HEAD][Inwards(t)]
  IN  IF req[t].op \in Pushes
      THEN [e |-> req[t].e, in |-> e, out |-> HEAD]
      ELSE IF ptr[HEAD].next = HEAD
           THEN NoReg
           ELSE [e |-> e, in |-> ptr[e][Inwards(t)], out |-> ptr[e][Outwards(t)]]

\* deq_push_l() .. deq_pop_r() begin: cds_list_empty(), the nodes to work on
ListBegin(t) ==
  /\ Goto(t, "list", "store")
  /\ reg' = [reg EXCEPT ![t] = Loads(t)]
  /\ UNCHANGED <<counter, readers, writer, ptr, req, done>>

\* cds_list_add_tail(), cds_list_add()
Linked(t) ==
  LET r == reg[t]
  IN  [ptr EXCEPT ![r.in][Outwards(t)] = r.e,
                  ![r.e] = [@ EXCEPT ![Inwards(t)] = r.in, ![Outwards(t)] = HEAD],
                  ![HEAD][Inwards(t)] = r.e]

\* cds_list_del(), CDS_INIT_LIST_HEAD()
Unlinked(t) ==
  LET r == reg[t]
  IN  [ptr EXCEPT ![r.out][Inwards(t)] = r.in,
                  ![r.in][Outwards(t)] = r.out,
                  ![r.e] = Single(r.e)]

\* ... and end: the pointers are stored
ListEnd(t) ==
  /\ Goto(t, "store", "settle")
  /\ reg' = [reg EXCEPT ![t] = NoReg]
  /\ Done(t)
  /\ \/ req[t].op \in Pushes /\ ptr' = Linked(t) /\ UNCHANGED req
     \/ req[t].op \in Pops /\ reg[t] = NoReg /\ UNCHANGED <<ptr, req>>
     \/ req[t].op \in Pops /\ reg[t] # NoReg /\ ptr' = Unlinked(t) /\ Took(t, reg[t].e)
  /\ UNCHANGED <<counter, readers, writer>>

\* The counter is put right, pthread_rwlock_unlock(), return
Settle(t) ==
  /\ Returns(t, "settle")
  /\ counter' = counter + (IF req[t].op \in Pops /\ req[t].e # NULL THEN 1 ELSE 2)
  /\ readers' = readers \ {t}
  /\ writer' = IF writer = t THEN NULL ELSE writer
  /\ UNCHANGED <<ptr, reg>>

RwStep(t) == Reserve(t) \/ Wrlock(t) \/ ListBegin(t) \/ ListEnd(t) \/ Settle(t)

-----------------------------------------------------------------------------
\* The nodes met on the way from the left end back to the head
Walk ==
  LET node[i \in 1 .. Cardinality(Elems) + 1] ==
        LET before == IF i = 1 THEN HEAD ELSE node[i - 1]
        IN  IF i > 1 /\ before = HEAD THEN HEAD ELSE ptr[before].prev
  IN  node

\* The list read off its pointers, from the left to the right
Chain == SelectSeq(Walk, LAMBDA n : n # HEAD)

\* The pointers that the list operation of t has read, and those it is to store
Pointers(t) ==
  LET r == reg[t]
  IN  IF r = NoReg THEN {}
      ELSE {HEAD, r.e, r.out} \X {Inwards(t)} \union {r.e, r.in} \X {Outwards(t)}

=============================================================================
