------------------------------ MODULE CountLim ------------------------------
(***************************************************************************)
(* The approximate limit counters of CodeSamples/count: count_lim.c,       *)
(* count_lim_app.c, which bounds what a thread may reserve, and            *)
(* count_limd.c, which reserves no more than is counted.  A thread that    *)
(* runs into the limit does not ask the others for what they reserve.      *)
(*                                                                         *)
(* A thread's counter is read by others and written by it alone; what      *)
(* happens under gblcnt_mutex is one step, except for read_count().        *)
(***************************************************************************)
EXTENDS CounterBase

VARIABLES
  impl,
  counter, countermax  \* per thread

vars == <<impl, globalcount, globalreserve, gblcnt_mutex, counter, countermax, request, ret, scan, sum, pc>>

Init ==
  /\ impl \in {"count_lim", "count_lim_app", "count_limd"}
  /\ InitBase
  /\ counter = [t \in Threads |-> 0]
  /\ countermax = [t \in Threads |-> 0]

count_register_thread(t) ==
  /\ gblcnt_mutex = NoThread
  /\ Goto(t, "off", "idle")
  /\ UNCHANGED <<impl, globals, counter, countermax, locals>>

\* globalize_count(): what the globals and the thread's counters become
globalize_count(t, count, reserve) ==
  /\ globalcount' = count /\ globalreserve' = reserve
  /\ counter' = [counter EXCEPT ![t] = 0]
  /\ countermax' = [countermax EXCEPT ![t] = 0]

GlobalCount(t) == globalcount + counter[t]
GlobalReserve(t) == Minus(globalreserve, countermax[t])

count_unregister_thread(t) ==
  /\ gblcnt_mutex = NoThread
  /\ Goto(t, "idle", "off")
  /\ globalize_count(t, GlobalCount(t), GlobalReserve(t))
  /\ UNCHANGED <<impl, gblcnt_mutex, locals>>

Call(t, r) ==
  /\ Goto(t, "idle", "call")
  /\ request' = [request EXCEPT ![t] = r]
  /\ UNCHANGED <<impl, globals, counter, countermax, ret, scan, sum>>

HasRoom(t) ==
  LET d == request[t].delta
  IN  IF request[t].op = "add" THEN Minus(countermax[t], counter[t]) >= d ELSE counter[t] >= d

FastPath(t) ==
  /\ HasRoom(t)
  /\ Goto(t, "call", "return")
  /\ counter' = [counter EXCEPT ![t] = Moved(t, @)]
  /\ ret' = [ret EXCEPT ![t] = "ok"]
  /\ UNCHANGED <<impl, globals, countermax, request, scan, sum>>

-----------------------------------------------------------------------------
\* balance_count() of count_lim.c: the thread's countermax
ShareLim(count, reserve) == Available(count, reserve) \div num_online_threads

ShareApp(count, reserve) == Min({ShareLim(count, reserve), MAX_COUNTERMAX})

\* No more than is counted, so that half of it can be taken from there
ShareLimd(count, reserve) == Min({count, Available(count, reserve)}) \div num_online_threads

balance_count(t, count, reserve) ==
  LET cm == CASE impl = "count_lim" -> ShareLim(count, reserve)
              [] impl = "count_lim_app" -> ShareApp(count, reserve)
              [] impl = "count_limd" -> ShareLimd(count, reserve)
      c == IF impl = "count_limd" THEN cm \div 2 ELSE Min({cm \div 2, count})
  IN  /\ globalcount' = Minus(count, c)
      /\ globalreserve' = reserve + cm
      /\ counter' = [counter EXCEPT ![t] = c]
      /\ countermax' = [countermax EXCEPT ![t] = cm]

\* The slow path of add_count() and sub_count()
SlowPath(t) ==
  LET count == GlobalCount(t)
      reserve == GlobalReserve(t)
  IN  /\ gblcnt_mutex = NoThread
      /\ Goto(t, "call", "return")
      /\ ~ HasRoom(t)
      /\ IF Fits(t, count, reserve)
         THEN /\ balance_count(t, Moved(t, count), reserve)
              /\ ret' = [ret EXCEPT ![t] = "ok"]
         ELSE /\ globalize_count(t, count, reserve)
              /\ ret' = [ret EXCEPT ![t] = "fail"]
      /\ UNCHANGED <<impl, gblcnt_mutex, request, scan, sum>>

Return(t) ==
  /\ Goto(t, "return", "idle")
  /\ request' = [request EXCEPT ![t] = NoRequest]
  /\ ret' = [ret EXCEPT ![t] = "none"]
  /\ UNCHANGED <<impl, globals, counter, countermax, scan, sum>>

-----------------------------------------------------------------------------
\* read_count(): spin_lock() and sum = globalcount; then one counter at a time
ReadBegin(t) ==
  /\ gblcnt_mutex = NoThread
  /\ Goto(t, "idle", "read")
  /\ gblcnt_mutex' = t
  /\ sum' = [sum EXCEPT ![t] = globalcount]
  /\ UNCHANGED <<impl, globalcount, globalreserve, counter, countermax, request, ret, scan>>

ReadNext(t) ==
  /\ pc[t] = "read"
  /\ sum' = [sum EXCEPT ![t] = IF Registered(scan[t]) THEN @ + counter[scan[t]] ELSE @]
  /\ Advance(t, "read", "read_done")
  /\ UNCHANGED <<impl, globals, counter, countermax, request, ret>>

ReadEnd(t) ==
  /\ Goto(t, "read_done", "idle")
  /\ gblcnt_mutex' = NoThread
  /\ sum' = [sum EXCEPT ![t] = 0]
  /\ UNCHANGED <<impl, globalcount, globalreserve, counter, countermax, request, ret, scan>>

read_count(t) == ReadBegin(t) \/ ReadNext(t) \/ ReadEnd(t)

Step(t) ==
  \/ count_register_thread(t) \/ count_unregister_thread(t)
  \/ \E r \in Requests : Call(t, r)
  \/ FastPath(t) \/ SlowPath(t) \/ Return(t) \/ read_count(t)

\* The files one by one
count_lim(t) == impl = "count_lim" /\ Step(t)
count_lim_app(t) == impl = "count_lim_app" /\ Step(t)
count_limd(t) == impl = "count_limd" /\ Step(t)

Next == \E t \in Threads : count_lim(t) \/ count_lim_app(t) \/ count_limd(t)

Total == globalcount + MapThenSumSet(LAMBDA t : counter[t], Threads)

ReserveCoversCountermax ==
  /\ globalreserve = MapThenSumSet(LAMBDA t : countermax[t], Threads)
  /\ globalcount + globalreserve <= globalcountmax
  /\ \A t \in Threads : counter[t] <= countermax[t]
=============================================================================
