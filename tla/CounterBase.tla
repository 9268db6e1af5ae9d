---------------------------- MODULE CounterBase ----------------------------
(***************************************************************************)
(* What the limit counters of CodeSamples/count (count_lim.c,              *)
(* count_lim_app.c, count_limd.c, count_lim_atomic.c, count_lim_sig.c)     *)
(* have in common: the globals under gblcnt_mutex, and the call a thread   *)
(* is in.  The globals are unsigned longs: differences are modulo WORD.    *)
(***************************************************************************)
EXTENDS Integers, FiniteSetsExt

CONSTANTS
  NR_THREADS,
  WORD,                \* ULONG_MAX + 1
  globalcountmax,
  MAX_COUNTERMAX,      \* of count_lim_app.c and count_lim_sig.c
  CM_BITS,             \* half the bits of an atomic_t, of count_lim_atomic.c
  num_online_threads,
  Deltas               \* the arguments of add_count() and sub_count()

ASSUME NRThreadsAssumption == NR_THREADS \in Nat \ {0}
ASSUME CounterAssumption ==
  /\ {WORD, globalcountmax, MAX_COUNTERMAX} \subseteq Nat
  /\ {num_online_threads, CM_BITS} \subseteq Nat \ {0}
  /\ Deltas \subseteq Nat \ {0}
  /\ WORD > 2 * globalcountmax

\* The word of count_lim_atomic.c has two halves of CM_BITS bits.
ASSUME HalfAssumption == 2 ^ CM_BITS \in Nat \ {0}

Threads == 0 .. NR_THREADS - 1

NoThread == -1

VARIABLES
  globalcount, globalreserve, gblcnt_mutex,
  request,             \* per thread: the call under way
  ret,                 \* per thread: fastpath, and the value returned
  scan, sum,           \* per thread: locals of the loops over the threads
  pc

globals == <<globalcount, globalreserve, gblcnt_mutex>>
locals == <<request, ret, scan, sum>>

NoRequest == [op |-> "none", delta |-> 0]

Requests == [op : {"add", "sub"}, delta : Deltas]

Minus(a, b) == (a - b) % WORD

\* What is neither counted nor reserved.
Available(count, reserve) == Minus(Minus(globalcountmax, count), reserve)

\* Mutant: the last unit below the limit is never handed out.
FitsOffByOne(t, count, reserve) ==
  LET d == request[t].delta
  IN  IF request[t].op = "add" THEN Available(count, reserve) > d ELSE count >= d

\* globalcount can take the request, given the count and the reserve
Fits(t, count, reserve) ==
  LET d == request[t].delta
  IN  IF request[t].op = "add" THEN Available(count, reserve) >= d ELSE count >= d

\* globalcount += or -= delta
Moved(t, count) ==
  IF request[t].op = "add" THEN count + request[t].delta ELSE Minus(count, request[t].delta)

Goto(t, from, to) ==
  /\ pc[t] = from
  /\ pc' = [pc EXCEPT ![t] = to]

Registered(t) == pc[t] # "off"

InitBase ==
  /\ globalcount = 0 /\ globalreserve = 0 /\ gblcnt_mutex = NoThread
  /\ request = [t \in Threads |-> NoRequest]
  /\ ret = [t \in Threads |-> "none"]
  /\ scan = [t \in Threads |-> 0]
  /\ sum = [t \in Threads |-> 0]
  /\ pc = [t \in Threads |-> "off"]

\* The loop of u at location at is done with thread scan[u]: the next one, or next.
Advance(u, at, next) ==
  IF scan[u] + 1 < NR_THREADS
    THEN /\ scan' = [scan EXCEPT ![u] = @ + 1]
         /\ pc' = [pc EXCEPT ![u] = at]
    ELSE /\ scan' = [scan EXCEPT ![u] = 0]
         /\ pc' = [pc EXCEPT ![u] = next]
=============================================================================
