--------------------------- MODULE CountLimAtomic ---------------------------
(***************************************************************************)
(* The exact limit counter of CodeSamples/count/count_lim_atomic.c: a      *)
(* thread's counter and countermax share one atomic word, which the thread *)
(* changes with cmpxchg and a thread that runs into the limit takes with   *)
(* xchg.                                                                   *)
(*                                                                         *)
(* What happens under gblcnt_mutex is one step, except for the loops over  *)
(* the threads' words, which the other threads' fast paths may change in   *)
(* between.                                                                *)
(***************************************************************************)
EXTENDS CounterBase

HALF == 2 ^ CM_BITS

\* MAX_COUNTERMAX of count_lim_atomic.c
MaxHalf == HALF - 1

VARIABLES
  counterandmax,       \* per thread: the word
  old                  \* per thread: the local old of the fast path

vars == <<globalcount, globalreserve, gblcnt_mutex, counterandmax, old, request, ret, scan, sum, pc>>

\* split_counterandmax_int(): <<c, cm>>
split_counterandmax_int(cami) == <<(cami \div HALF) % HALF, cami % HALF>>

\* (c << CM_BITS) | cm, of 2 * CM_BITS bits
merge_counterandmax(c, cm) == ((c % HALF) * HALF + cm) % (HALF * HALF)

C(t) == split_counterandmax_int(counterandmax[t])[1]
CM(t) == split_counterandmax_int(counterandmax[t])[2]

Init ==
  /\ InitBase
  /\ counterandmax = [t \in Threads |-> 0]
  /\ old = [t \in Threads |-> 0]

\* count_register_thread()
Register(t) ==
  /\ gblcnt_mutex = NoThread
  /\ Goto(t, "off", "idle")
  /\ UNCHANGED <<globalcount, globalreserve, gblcnt_mutex, counterandmax, old, locals>>

\* count_unregister_thread(), with its globalize_count()
Unregister(t) ==
  /\ gblcnt_mutex = NoThread
  /\ Goto(t, "idle", "off")
  /\ globalcount' = globalcount + C(t)
  /\ globalreserve' = Minus(globalreserve, CM(t))
  /\ counterandmax' = [counterandmax EXCEPT ![t] = merge_counterandmax(0, 0)]
  /\ UNCHANGED <<gblcnt_mutex, old, locals>>

-----------------------------------------------------------------------------
Call(t, r) ==
  /\ Goto(t, "idle", "load")
  /\ request' = [request EXCEPT ![t] = r]
  /\ UNCHANGED <<globalcount, globalreserve, gblcnt_mutex, counterandmax, old, ret, scan, sum>>

HasRoom(t, c, cm) ==
  LET d == request[t].delta
  IN  IF request[t].op = "add" THEN d <= MaxHalf /\ c + d <= cm ELSE d <= c

\* The head of the loop: read the word, and leave for the slow path or not
FastLoad(t) ==
  /\ old' = [old EXCEPT ![t] = counterandmax[t]]
  /\ Goto(t, "load", IF HasRoom(t, C(t), CM(t)) THEN "cas" ELSE "slow")
  /\ UNCHANGED <<globalcount, globalreserve, gblcnt_mutex, counterandmax, request, ret, scan, sum>>

New(t) ==
  LET ccm == split_counterandmax_int(old[t])
  IN  merge_counterandmax(Moved(t, ccm[1]), ccm[2])

\* atomic_cmpxchg(&counterandmax, old, new)
FastCas(t) ==
  /\ IF counterandmax[t] = old[t]
       THEN /\ Goto(t, "cas", "return")
            /\ counterandmax' = [counterandmax EXCEPT ![t] = New(t)]
            /\ ret' = [ret EXCEPT ![t] = "ok"]
       ELSE /\ Goto(t, "cas", "load")
            /\ UNCHANGED <<counterandmax, ret>>
  /\ old' = [old EXCEPT ![t] = 0]
  /\ UNCHANGED <<globalcount, globalreserve, gblcnt_mutex, request, scan, sum>>

-----------------------------------------------------------------------------
\* The slow path, under gblcnt_mutex

Share(count, reserve) == Min({Available(count, reserve) \div num_online_threads, MaxHalf})

\* globalcount += or -= delta, then balance_count(); return 1
Commit(t, count, reserve) ==
  LET new == Moved(t, count)
      cm == Share(new, reserve)
      c == Min({cm \div 2, new})
  IN  /\ globalcount' = new - c
      /\ globalreserve' = reserve + cm
      /\ counterandmax' = [counterandmax EXCEPT ![t] = merge_counterandmax(c, cm)]
      /\ ret' = [ret EXCEPT ![t] = "ok"]

\* spin_lock(), globalize_count(); if the request fits, all the rest; if not,
\* flush_local_count(), which returns at once when nothing is reserved
SlowPath(t) ==
  LET count == globalcount + C(t)
      reserve == Minus(globalreserve, CM(t))
  IN  /\ pc[t] = "slow"
      /\ gblcnt_mutex = NoThread
      /\ \/ /\ Fits(t, count, reserve)
            /\ Goto(t, "slow", "return")
            /\ Commit(t, count, reserve)
            /\ UNCHANGED gblcnt_mutex
         \/ /\ ~ Fits(t, count, reserve)
            /\ Goto(t, "slow", IF reserve = 0 THEN "recheck" ELSE "flush")
            /\ gblcnt_mutex' = t
            /\ globalcount' = count
            /\ globalreserve' = reserve
            /\ counterandmax' = [counterandmax EXCEPT ![t] = merge_counterandmax(0, 0)]
            /\ UNCHANGED ret
      /\ old' = [old EXCEPT ![t] = 0]
      /\ UNCHANGED <<request, scan, sum>>

\* flush_local_count(): atomic_xchg(counterp[t], zero)
FlushXchg(u) ==
  LET t == scan[u]
  IN  /\ pc[u] = "flush"
      /\ IF Registered(t)
           THEN /\ globalcount' = globalcount + C(t)
                /\ globalreserve' = Minus(globalreserve, CM(t))
                /\ counterandmax' = [counterandmax EXCEPT ![t] = merge_counterandmax(0, 0)]
           ELSE UNCHANGED <<globalcount, globalreserve, counterandmax>>
      /\ Advance(u, "flush", "recheck")
      /\ UNCHANGED <<gblcnt_mutex, old, request, ret, sum>>

\* The second test after flush_local_count(), and spin_unlock()
Recheck(u) ==
  /\ Goto(u, "recheck", "return")
  /\ \/ /\ Fits(u, globalcount, globalreserve)
        /\ Commit(u, globalcount, globalreserve)
     \/ /\ ~ Fits(u, globalcount, globalreserve)
        /\ ret' = [ret EXCEPT ![u] = "fail"]
        /\ UNCHANGED <<globalcount, globalreserve, counterandmax>>
  /\ gblcnt_mutex' = NoThread
  /\ UNCHANGED <<old, request, scan, sum>>

Return(t) ==
  /\ Goto(t, "return", "idle")
  /\ request' = [request EXCEPT ![t] = NoRequest]
  /\ ret' = [ret EXCEPT ![t] = "none"]
  /\ UNCHANGED <<globalcount, globalreserve, gblcnt_mutex, counterandmax, old, scan, sum>>

-----------------------------------------------------------------------------
\* read_count(): spin_lock() and sum = globalcount; then one word at a time
ReadBegin(t) ==
  /\ gblcnt_mutex = NoThread
  /\ Goto(t, "idle", "read")
  /\ gblcnt_mutex' = t
  /\ sum' = [sum EXCEPT ![t] = globalcount]
  /\ UNCHANGED <<globalcount, globalreserve, counterandmax, old, request, ret, scan>>

ReadNext(t) ==
  /\ pc[t] = "read"
  /\ sum' = [sum EXCEPT ![t] = IF Registered(scan[t]) THEN @ + C(scan[t]) ELSE @]
  /\ Advance(t, "read", "read_done")
  /\ UNCHANGED <<globalcount, globalreserve, gblcnt_mutex, counterandmax, old, request, ret>>

ReadEnd(t) ==
  /\ Goto(t, "read_done", "idle")
  /\ gblcnt_mutex' = NoThread
  /\ sum' = [sum EXCEPT ![t] = 0]
  /\ UNCHANGED <<globalcount, globalreserve, counterandmax, old, request, ret, scan>>

-----------------------------------------------------------------------------
Next ==
  \E t \in Threads :
    \/ Register(t) \/ Unregister(t)
    \/ \E r \in Requests : Call(t, r)
    \/ FastLoad(t) \/ FastCas(t) \/ SlowPath(t) \/ FlushXchg(t) \/ Recheck(t) \/ Return(t)
    \/ ReadBegin(t) \/ ReadNext(t) \/ ReadEnd(t)

Spec == Init /\ [][Next]_vars

-----------------------------------------------------------------------------
Total == globalcount + MapThenSumSet(LAMBDA t : C(t), Threads)

\* globalreserve is the sum of the countermaxes in the words and fits beside
\* globalcount under the limit at every step of flush_local_count(), and no
\* counter exceeds the countermax beside it.
ReserveCoversCountermax ==
  /\ globalreserve = MapThenSumSet(LAMBDA t : CM(t), Threads)
  /\ globalcount + globalreserve <= globalcountmax
  /\ \A t \in Threads : C(t) <= CM(t)
=============================================================================
