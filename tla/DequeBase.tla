----------------------------- MODULE DequeBase -----------------------------
(***************************************************************************)
(* What the double-ended queues of CodeSamples/SMPdesign have in common:   *)
(* the four operations, the threads that call them and the answers.        *)
(***************************************************************************)
EXTENDS Integers, Sequences, SequencesExt, FiniteSets

CONSTANTS
  Threads, Elems, NULL,
  PDEQ_N_BKTS          \* the buckets of a hashed queue, a power of two

ASSUME DequeAssumption ==
  /\ PDEQ_N_BKTS \in {2 ^ n : n \in 0 .. 8}
  /\ NULL \notin Elems \union Threads

VARIABLES
  pc,                  \* per thread: where in the operation it is
  req,                 \* per thread: the call under way; e is what it pushes or has popped
  done                 \* per thread: the call has taken effect

dvars == <<pc, req, done>>

Pushes == {"push_l", "push_r"}
Pops == {"pop_l", "pop_r"}
NoReq == [op |-> "none", e |-> NULL]

Left(t) == req[t].op \in {"push_l", "pop_l"}

Idle ==
  /\ pc = [t \in Threads |-> "idle"]
  /\ req = [t \in Threads |-> NoReq]
  /\ done = [t \in Threads |-> FALSE]

Goto(t, from, to) ==
  /\ pc[t] = from
  /\ pc' = [pc EXCEPT ![t] = to]

Done(t) == done' = [done EXCEPT ![t] = TRUE]

Took(t, e) == req' = [req EXCEPT ![t].e = e]

\* A thread calls operation o; it pushes an element that nobody has.
Calls(t, o, unused) ==
  /\ Goto(t, "idle", o)
  /\ \/ o \in Pops /\ req' = [req EXCEPT ![t] = [op |-> o, e |-> NULL]]
     \/ o \in Pushes /\ \E e \in unused : req' = [req EXCEPT ![t] = [op |-> o, e |-> e]]
  /\ UNCHANGED done

\* The call is over.
Returns(t, from) ==
  /\ Goto(t, from, "idle")
  /\ req' = [req EXCEPT ![t] = NoReq]
  /\ done' = [done EXCEPT ![t] = FALSE]

\* The elements that are in no chain of S and that no thread holds
Unused(S) == Elems \ ((UNION {ToSet(s) : s \in S}) \union {req[t].e : t \in Threads})
=============================================================================
