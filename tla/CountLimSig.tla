---------------------------- MODULE CountLimSig ----------------------------
(***************************************************************************)
(* The exact limit counter of CodeSamples/count/count_lim_sig.c.  A thread *)
(* adds to its own counter without atomic instructions; a thread that runs *)
(* into the limit steals the counters of all others after a handshake by   *)
(* signal: theft goes IDLE, REQ (thief), ACK (handler, owner in its fast   *)
(* path), READY (owner or handler), IDLE (thief).                          *)
(*                                                                         *)
(* What happens under gblcnt_mutex is one step, except for the handshake   *)
(* and for read_count(), during which the other threads' fast paths run.   *)
(***************************************************************************)
EXTENDS CounterBase

VARIABLES
  counter, countermax, \* per thread
  theft, counting,     \* per thread: the handshake
  pending              \* per thread: SIGUSR1 has been sent and not delivered

vars == <<globalcount, globalreserve, gblcnt_mutex, counter, countermax, theft,
          counting, pending, request, ret, scan, sum, pc>>

Init ==
  /\ InitBase
  /\ counter = [t \in Threads |-> 0]
  /\ countermax = [t \in Threads |-> 0]
  /\ theft = [t \in Threads |-> "IDLE"]
  /\ counting = [t \in Threads |-> FALSE]
  /\ pending = [t \in Threads |-> FALSE]

-----------------------------------------------------------------------------
\* count_register_thread()
Register(t) ==
  /\ gblcnt_mutex = NoThread
  /\ Goto(t, "off", "idle")
  /\ UNCHANGED <<globals, counter, countermax, theft, counting, pending, locals>>

\* count_unregister_thread(), with its globalize_count()
Unregister(t) ==
  /\ gblcnt_mutex = NoThread
  /\ Goto(t, "idle", "off")
  /\ globalcount' = globalcount + counter[t]
  /\ globalreserve' = Minus(globalreserve, countermax[t])
  /\ counter' = [counter EXCEPT ![t] = 0]
  /\ countermax' = [countermax EXCEPT ![t] = 0]
  /\ UNCHANGED <<gblcnt_mutex, theft, counting, pending, locals>>

-----------------------------------------------------------------------------
\* The signal handler

\* Mutant: the handler does not look at counting.
HandlerIgnoresCounting(t) ==
  /\ pending[t]
  /\ pending' = [pending EXCEPT ![t] = FALSE]
  /\ theft' = [theft EXCEPT ![t] = IF @ = "REQ" THEN "READY" ELSE @]
  /\ UNCHANGED <<globals, counter, countermax, counting, locals, pc>>

\* Mutant: the early return of the handler is for REQ, not for all but REQ.
HandlerInverted(t) ==
  /\ pending[t]
  /\ pending' = [pending EXCEPT ![t] = FALSE]
  /\ theft' = [theft EXCEPT ![t] =
                 IF @ = "REQ" THEN @ ELSE IF counting[t] THEN "ACK" ELSE "READY"]
  /\ UNCHANGED <<globals, counter, countermax, counting, locals, pc>>

\* It interrupts its thread anywhere; theft need not be REQ any more.
flush_local_count_sig(t) ==
  /\ pending[t]
  /\ pending' = [pending EXCEPT ![t] = FALSE]
  /\ theft' = [theft EXCEPT ![t] =
                 IF @ # "REQ" THEN @ ELSE IF counting[t] THEN "ACK" ELSE "READY"]
  /\ UNCHANGED <<globals, counter, countermax, counting, locals, pc>>

-----------------------------------------------------------------------------
\* The fast path of add_count() and sub_count()

\* WRITE_ONCE(counting, 1)
Call(t, r) ==
  /\ Goto(t, "idle", "check")
  /\ request' = [request EXCEPT ![t] = r]
  /\ counting' = [counting EXCEPT ![t] = TRUE]
  /\ UNCHANGED <<globals, counter, countermax, theft, pending, ret, scan, sum>>

HasRoom(t) ==
  LET d == request[t].delta
  IN  IF request[t].op = "add" THEN Minus(countermax[t], counter[t]) >= d ELSE counter[t] >= d

\* smp_load_acquire(&theft) <= THEFT_REQ && there is room
FastCheck(t) ==
  /\ IF theft[t] \in {"IDLE", "REQ"} /\ HasRoom(t)
       THEN Goto(t, "check", "update") ELSE Goto(t, "check", "uncount")
  /\ UNCHANGED <<globals, counter, countermax, theft, counting, pending, locals>>

\* WRITE_ONCE(counter, counter +- delta); fastpath = 1
FastUpdate(t) ==
  /\ Goto(t, "update", "uncount")
  /\ counter' = [counter EXCEPT ![t] =
                   IF request[t].op = "add" THEN @ + request[t].delta
                                            ELSE Minus(@, request[t].delta)]
  /\ ret' = [ret EXCEPT ![t] = "ok"]
  /\ UNCHANGED <<globals, countermax, theft, counting, pending, request, scan, sum>>

\* WRITE_ONCE(counting, 0)
FastUncount(t) ==
  /\ Goto(t, "uncount", "ack")
  /\ counting' = [counting EXCEPT ![t] = FALSE]
  /\ UNCHANGED <<globals, counter, countermax, theft, pending, locals>>

\* READ_ONCE(theft) == THEFT_ACK, and return if the fast path was taken
FastAck(t) ==
  /\ theft' = [theft EXCEPT ![t] = IF @ = "ACK" THEN "READY" ELSE @]
  /\ IF ret[t] = "ok" THEN Goto(t, "ack", "return") ELSE Goto(t, "ack", "slow")
  /\ UNCHANGED <<globals, counter, countermax, counting, pending, locals>>

-----------------------------------------------------------------------------
\* The slow path, under gblcnt_mutex

\* The thread's share of what is available
Share(count, reserve) == Min({Available(count, reserve) \div num_online_threads, MAX_COUNTERMAX})

\* globalcount += or -= delta, then balance_count(), for a thread that has
\* given its counter up; return 1
Commit(t, count, reserve) ==
  LET new == Moved(t, count)
      cm == Share(new, reserve)
      c == Min({cm \div 2, new})
  IN  /\ globalcount' = new - c
      /\ globalreserve' = reserve + cm
      /\ counter' = [counter EXCEPT ![t] = c]
      /\ countermax' = [countermax EXCEPT ![t] = cm]
      /\ ret' = [ret EXCEPT ![t] = "ok"]

\* spin_lock(), globalize_count() and, if the request fits, all the rest
SlowPath(t) ==
  LET count == globalcount + counter[t]
      reserve == Minus(globalreserve, countermax[t])
  IN  /\ gblcnt_mutex = NoThread
      /\ \/ /\ Fits(t, count, reserve)
            /\ Goto(t, "slow", "return")
            /\ Commit(t, count, reserve)
            /\ UNCHANGED <<gblcnt_mutex, scan>>
         \/ /\ ~ Fits(t, count, reserve)
            /\ Goto(t, "slow", "flush_req")
            /\ gblcnt_mutex' = t
            /\ globalcount' = count
            /\ globalreserve' = reserve
            /\ counter' = [counter EXCEPT ![t] = 0]
            /\ countermax' = [countermax EXCEPT ![t] = 0]
            /\ scan' = [scan EXCEPT ![t] = 0]
            /\ UNCHANGED ret
      /\ UNCHANGED <<theft, counting, pending, request, sum>>

\* flush_local_count(), first loop: ask every thread that has a countermax
FlushRequest(u) ==
  /\ pc[u] = "flush_req"
  /\ \/ ~ Registered(scan[u]) /\ UNCHANGED <<theft, pending>>
     \/ /\ Registered(scan[u]) /\ countermax[scan[u]] = 0
        /\ theft' = [theft EXCEPT ![scan[u]] = "READY"]
        /\ UNCHANGED pending
     \/ /\ Registered(scan[u]) /\ countermax[scan[u]] # 0
        /\ theft' = [theft EXCEPT ![scan[u]] = "REQ"]
        /\ pending' = [pending EXCEPT ![scan[u]] = TRUE]
  /\ Advance(u, "flush_req", "flush_wait")
  /\ UNCHANGED <<globals, counter, countermax, counting, request, ret, sum>>

\* Second loop, not READY yet: poll(); READ_ONCE(*theftp[t]) == THEFT_REQ
FlushPoll(u) ==
  /\ Registered(scan[u]) /\ theft[scan[u]] = "REQ"
  /\ Goto(u, "flush_wait", "flush_resend")
  /\ UNCHANGED <<globals, counter, countermax, theft, counting, pending, locals>>

\* pthread_kill(tid, SIGUSR1), once more; theft may have changed since
FlushResend(u) ==
  /\ Goto(u, "flush_resend", "flush_wait")
  /\ pending' = [pending EXCEPT ![scan[u]] = TRUE]
  /\ UNCHANGED <<globals, counter, countermax, theft, counting, locals>>

\* Mutant: the thief forgets to take the reserve along.
FlushStealCountOnly(u) ==
  LET t == scan[u]
  IN  /\ pc[u] = "flush_wait"
      /\ \/ ~ Registered(t) /\ UNCHANGED <<globalcount, counter, countermax, theft>>
         \/ /\ Registered(t) /\ theft[t] = "READY"
            /\ globalcount' = globalcount + counter[t]
            /\ counter' = [counter EXCEPT ![t] = 0]
            /\ countermax' = [countermax EXCEPT ![t] = 0]
            /\ theft' = [theft EXCEPT ![t] = "IDLE"]
      /\ Advance(u, "flush_wait", "recheck")
      /\ UNCHANGED <<globalreserve, gblcnt_mutex, counting, pending, request, ret, sum>>

\* READY: take the thread's count and reserve, and let it go
FlushSteal(u) ==
  LET t == scan[u]
  IN  /\ pc[u] = "flush_wait"
      /\ \/ ~ Registered(t) /\ UNCHANGED <<globalcount, globalreserve, counter, countermax, theft>>
         \/ /\ Registered(t) /\ theft[t] = "READY"
            /\ globalcount' = globalcount + counter[t]
            /\ globalreserve' = Minus(globalreserve, countermax[t])
            /\ counter' = [counter EXCEPT ![t] = 0]
            /\ countermax' = [countermax EXCEPT ![t] = 0]
            /\ theft' = [theft EXCEPT ![t] = "IDLE"]
      /\ Advance(u, "flush_wait", "recheck")
      /\ UNCHANGED <<gblcnt_mutex, counting, pending, request, ret, sum>>

\* The second test after flush_local_count(), and spin_unlock()
Recheck(u) ==
  /\ Goto(u, "recheck", "return")
  /\ \/ /\ Fits(u, globalcount, globalreserve)
        /\ Commit(u, globalcount, globalreserve)
     \/ /\ ~ Fits(u, globalcount, globalreserve)
        /\ ret' = [ret EXCEPT ![u] = "fail"]
        /\ UNCHANGED <<globalcount, globalreserve, counter, countermax>>
  /\ gblcnt_mutex' = NoThread
  /\ UNCHANGED <<theft, counting, pending, request, scan, sum>>

Return(t) ==
  /\ Goto(t, "return", "idle")
  /\ request' = [request EXCEPT ![t] = NoRequest]
  /\ ret' = [ret EXCEPT ![t] = "none"]
  /\ UNCHANGED <<globals, counter, countermax, theft, counting, pending, scan, sum>>

-----------------------------------------------------------------------------
\* read_count(): spin_lock() and sum = globalcount; then one counter at a time
ReadBegin(t) ==
  /\ gblcnt_mutex = NoThread
  /\ Goto(t, "idle", "read")
  /\ gblcnt_mutex' = t
  /\ sum' = [sum EXCEPT ![t] = globalcount]
  /\ UNCHANGED <<globalcount, globalreserve, counter, countermax, theft, counting, pending,
                 request, ret, scan>>

ReadNext(t) ==
  /\ pc[t] = "read"
  /\ sum' = [sum EXCEPT ![t] = IF Registered(scan[t]) THEN @ + counter[scan[t]] ELSE @]
  /\ Advance(t, "read", "read_done")
  /\ UNCHANGED <<globals, counter, countermax, theft, counting, pending, request, ret>>

ReadEnd(t) ==
  /\ Goto(t, "read_done", "idle")
  /\ gblcnt_mutex' = NoThread
  /\ sum' = [sum EXCEPT ![t] = 0]
  /\ UNCHANGED <<globalcount, globalreserve, counter, countermax, theft, counting, pending,
                 request, ret, scan>>

-----------------------------------------------------------------------------
FastPath(t) == FastCheck(t) \/ FastUpdate(t) \/ FastUncount(t) \/ FastAck(t)

Flush(u) == FlushRequest(u) \/ FlushPoll(u) \/ FlushResend(u) \/ FlushSteal(u)

ReadSteps(t) == ReadNext(t) \/ ReadEnd(t)

Next ==
  \E t \in Threads :
    \/ Register(t) \/ Unregister(t)
    \/ flush_local_count_sig(t)
    \/ \E r \in Requests : Call(t, r)
    \/ FastPath(t) \/ SlowPath(t) \/ Flush(t) \/ Recheck(t) \/ Return(t)
    \/ ReadBegin(t) \/ ReadSteps(t)

Spec == Init /\ [][Next]_vars

-----------------------------------------------------------------------------
Total == globalcount + MapThenSumSet(LAMBDA t : counter[t], Threads)

\* globalreserve is the sum of the countermaxes and fits beside globalcount
\* under the limit, at every moment of a steal too, and no thread's counter
\* exceeds its countermax: together, room given out is never given out twice.
ReserveCoversCountermax ==
  /\ globalreserve = MapThenSumSet(LAMBDA t : countermax[t], Threads)
  /\ globalcount + globalreserve <= globalcountmax
  /\ \A t \in Threads : counter[t] <= countermax[t]

\* A thief and the owner are never both at the counter: while a thread is
\* between checking theft and updating its counter, its theft never becomes
\* READY, neither through the handler nor through the thief's shortcut for
\* threads without a countermax.
NoTheftDuringUpdate ==
  \A t \in Threads : pc[t] = "update" => theft[t] # "READY"

\* Every theft ends: a thread that flushes gets READY from all the others.
FlushEnds == \A u \in Threads : pc[u] = "flush_req" ~> pc[u] = "return"
=============================================================================
