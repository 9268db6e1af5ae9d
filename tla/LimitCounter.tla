---------------------------- MODULE LimitCounter ----------------------------
(***************************************************************************)
(* What the limit counters of CodeSamples/count promise: add_count() and   *)
(* sub_count() change the count by exactly delta and return 1, or leave it *)
(* alone and return 0, and the count stays between 0 and globalcountmax.   *)
(*                                                                         *)
(* An exact counter (count_lim_atomic.c, count_lim_sig.c) returns 0 only   *)
(* when the limit is really in the way at that moment; the approximate     *)
(* ones (count_lim.c, count_lim_app.c) may return 0 early.                 *)
(***************************************************************************)
EXTENDS Integers

CONSTANTS
  Threads,
  Deltas,              \* the arguments of add_count() and sub_count()
  globalcountmax

VARIABLES
  exact,               \* of the implementation: a call fails only at the limit
  count,               \* the value of the counter
  request,             \* per thread: the call under way, or NoRequest
  ret                  \* per thread: "none" until the call has taken effect

lcvars == <<exact, count, request, ret>>

NoRequest == [op |-> "none", delta |-> 0]

Requests == [op : {"add", "sub"}, delta : Deltas]

Init ==
  /\ exact \in BOOLEAN
  /\ count = 0
  /\ request = [t \in Threads |-> NoRequest]
  /\ ret = [t \in Threads |-> "none"]

Call(t, r) ==
  /\ request[t] = NoRequest
  /\ request' = [request EXCEPT ![t] = r]
  /\ UNCHANGED <<exact, count, ret>>

\* What the count would be after t's call.
Target(t) ==
  IF request[t].op = "add" THEN count + request[t].delta ELSE count - request[t].delta

InRange(n) == n \in 0 .. globalcountmax

Succeed(t) ==
  /\ request[t] # NoRequest
  /\ ret[t] = "none"
  /\ InRange(Target(t))
  /\ count' = Target(t)
  /\ ret' = [ret EXCEPT ![t] = "ok"]
  /\ UNCHANGED <<exact, request>>

Fail(t) ==
  /\ request[t] # NoRequest
  /\ ret[t] = "none"
  /\ exact => ~ InRange(Target(t))
  /\ ret' = [ret EXCEPT ![t] = "fail"]
  /\ UNCHANGED <<exact, count, request>>

Return(t) ==
  /\ ret[t] # "none"
  /\ request' = [request EXCEPT ![t] = NoRequest]
  /\ ret' = [ret EXCEPT ![t] = "none"]
  /\ UNCHANGED <<exact, count>>

Next ==
  \E t \in Threads :
    \/ \E r \in Requests : Call(t, r)
    \/ Succeed(t)
    \/ Fail(t)
    \/ Return(t)

Spec == Init /\ [][Next]_lcvars
=============================================================================
