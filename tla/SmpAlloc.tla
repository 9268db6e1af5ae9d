------------------------------ MODULE SmpAlloc ------------------------------
(***************************************************************************)
(* The memory allocator of CodeSamples/SMPdesign/smpalloc.c and its test:  *)
(* each thread has a pool of at most 2 * TARGET_POOL_SIZE blocks that only *)
(* it touches; an empty pool is filled from the global one and a full one  *)
(* is half emptied into it, under globalmem.mutex.  The initial thread     *)
(* frees every block once and never allocates one.                         *)
(***************************************************************************)
EXTENDS Integers, Sequences, SequencesExt, FiniteSets

CONSTANTS Threads, NULL,
  MAIN,                \* the initial thread
  TARGET_POOL_SIZE, GLOBAL_POOL_SIZE,
  RUNLENGTH            \* blocks a test thread allocates before it frees them

VARIABLES
  globalmem,           \* globalmem.pool[0 .. cur]
  perthreadmem,        \* per thread: pool[0 .. cur]
  goflag,
  at,                  \* per thread: where it is
  p                    \* per thread: the array p, or what initpools() has yet to free

avars == <<globalmem, perthreadmem, goflag, at, p>>

Pools == Threads \union {MAIN}

\* initpools(), before the loop that frees memblocks[]
Init ==
  /\ globalmem = <<>>
  /\ perthreadmem = [t \in Pools |-> <<>>]
  /\ goflag = FALSE
  /\ at = [t \in Pools |-> IF t = MAIN THEN "free" ELSE "unborn"]
  /\ p = [t \in Pools |-> IF t = MAIN THEN [i \in 1 .. GLOBAL_POOL_SIZE |-> i] ELSE <<>>]

Goes(t, from, to) ==
  /\ at[t] = from
  /\ at' = [at EXCEPT ![t] = to]

\* memblock_alloc(): the pool is empty, so up to TARGET_POOL_SIZE blocks are moved over
Refill(t) ==
  LET n == IF Len(globalmem) < TARGET_POOL_SIZE THEN Len(globalmem) ELSE TARGET_POOL_SIZE
      rest == Len(globalmem) - n
  IN  /\ perthreadmem[t] = <<>>
      /\ Goes(t, "alloc", "take")
      /\ perthreadmem' = [perthreadmem EXCEPT ![t] = Reverse(SubSeq(globalmem, rest + 1, Len(globalmem)))]
      /\ globalmem' = SubSeq(globalmem, 1, rest)
      /\ UNCHANGED <<goflag, p>>

\* memblock_alloc(): a block off the thread's own pool, NULL if there is none
Take(t) ==
  /\ \/ at[t] = "alloc" /\ perthreadmem[t] # <<>>
     \/ at[t] = "take"
  /\ \/ /\ perthreadmem[t] # <<>>
        /\ p' = [p EXCEPT ![t] = Append(@, Last(perthreadmem[t]))]
        /\ perthreadmem' = [perthreadmem EXCEPT ![t] = Front(@)]
     \/ /\ perthreadmem[t] = <<>>
        /\ p' = [p EXCEPT ![t] = Append(@, NULL)]
        /\ UNCHANGED perthreadmem
  /\ Goes(t, at[t], IF Len(p'[t]) = RUNLENGTH THEN "free" ELSE "alloc")
  /\ UNCHANGED <<globalmem, goflag>>

Full(t) == Len(perthreadmem[t]) >= 2 * TARGET_POOL_SIZE

\* Mutant: pcpp->cur is left one too high.
SpillOneTooFew(t) ==
  /\ p[t] # <<>> /\ Head(p[t]) # NULL /\ Full(t)
  /\ Goes(t, "free", "put")
  /\ globalmem' = globalmem \o Reverse(SubSeq(perthreadmem[t], TARGET_POOL_SIZE + 1, Len(perthreadmem[t])))
  /\ perthreadmem' = [perthreadmem EXCEPT ![t] = SubSeq(@, 1, TARGET_POOL_SIZE + 1)]
  /\ UNCHANGED <<goflag, p>>

\* memblock_free(): the pool is full, so all but TARGET_POOL_SIZE blocks are moved over
Spill(t) ==
  /\ p[t] # <<>> /\ Head(p[t]) # NULL /\ Full(t)
  /\ Goes(t, "free", "put")
  /\ globalmem' = globalmem \o Reverse(SubSeq(perthreadmem[t], TARGET_POOL_SIZE + 1, Len(perthreadmem[t])))
  /\ perthreadmem' = [perthreadmem EXCEPT ![t] = SubSeq(@, 1, TARGET_POOL_SIZE)]
  /\ UNCHANGED <<goflag, p>>

\* memblock_free(): the block goes to the thread's own pool
Put(t) ==
  /\ p[t] # <<>> /\ Head(p[t]) # NULL
  /\ \/ at[t] = "free" /\ ~ Full(t)
     \/ at[t] = "put"
  /\ Goes(t, at[t], "free")
  /\ perthreadmem' = [perthreadmem EXCEPT ![t] = Append(@, Head(p[t]))]
  /\ p' = [p EXCEPT ![t] = Tail(@)]
  /\ UNCHANGED <<globalmem, goflag>>

\* memblock_test(): an allocation that failed is only counted; the next round
Test(t) ==
  /\ t # MAIN
  /\ \/ /\ p[t] # <<>> /\ Head(p[t]) = NULL
        /\ Goes(t, "free", "free")
        /\ p' = [p EXCEPT ![t] = Tail(@)]
     \/ /\ p[t] = <<>>
        /\ Goes(t, "free", IF goflag THEN "alloc" ELSE "gone")
        /\ UNCHANGED p
  /\ UNCHANGED <<globalmem, perthreadmem, goflag>>

\* main(): the pools are set up, goflag = 1, create_thread()
Create ==
  /\ p[MAIN] = <<>>
  /\ at[MAIN] = "free"
  /\ at' = [t \in Pools |-> IF t = MAIN THEN "sleep" ELSE "free"]
  /\ goflag' = TRUE
  /\ UNCHANGED <<globalmem, perthreadmem, p>>

\* main(): the time is up, wait_all_threads()
Stop ==
  /\ Goes(MAIN, "sleep", "wait")
  /\ goflag' = FALSE
  /\ UNCHANGED <<globalmem, perthreadmem, p>>

Check ==
  /\ \A t \in Threads : at[t] = "gone"
  /\ Goes(MAIN, "wait", "check")
  /\ UNCHANGED <<globalmem, perthreadmem, goflag, p>>

memblock_alloc(t) == Refill(t) \/ Take(t)
memblock_free(t) == Spill(t) \/ Put(t)

Step(t) == memblock_alloc(t) \/ memblock_free(t) \/ Test(t)

Next == (\E t \in Pools : Step(t)) \/ Create \/ Stop \/ Check

-----------------------------------------------------------------------------
\* The occupied slots of the pools, and those of the arrays p
Slots ==
  {<<"globalmem", MAIN, i>> : i \in DOMAIN globalmem}
    \union UNION {{<<"perthreadmem", t, i>> : i \in DOMAIN perthreadmem[t]} : t \in Pools}

Hands == UNION {{<<"p", t, i>> : i \in DOMAIN p[t]} : t \in Pools}

BlockIn(s) ==
  CASE s[1] = "globalmem"    -> globalmem[s[3]]
    [] s[1] = "perthreadmem" -> perthreadmem[s[2]][s[3]]
    [] s[1] = "p"            -> p[s[2]][s[3]]

\* memblocks_available(): the blocks in the pools
memblocks_available == Cardinality(Slots)

\* How often block b is in a pool or in a thread's hands
Copies(b) == Cardinality({s \in Slots \union Hands : BlockIn(s) = b})
=============================================================================
