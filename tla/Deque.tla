------------------------------- MODULE Deque -------------------------------
(***************************************************************************)
(* What the double-ended queues of CodeSamples/SMPdesign promise: each     *)
(* push and pop takes effect at one moment between its call and its return *)
(* on one sequence of elements, and a pop returns NULL only at a moment    *)
(* when the sequence is empty.                                             *)
(***************************************************************************)
EXTENDS Naturals, Sequences

CONSTANTS Threads, Elems, NULL

VARIABLES
  deq,                 \* the elements, from the left
  req,                 \* per thread: the call under way
  done                 \* per thread: the call has taken effect

dqvars == <<deq, req, done>>

Pushes == {"push_l", "push_r"}
Pops == {"pop_l", "pop_r"}

NoReq == [op |-> "none", e |-> NULL]

Requests == [op : Pushes, e : Elems] \union [op : Pops, e : {NULL}]

Init ==
  /\ deq = <<>>
  /\ req = [t \in Threads |-> NoReq]
  /\ done = [t \in Threads |-> FALSE]

Call(t, r) ==
  /\ req[t] = NoReq
  /\ req' = [req EXCEPT ![t] = r]
  /\ UNCHANGED <<deq, done>>

Push(t) ==
  /\ req[t].op \in Pushes /\ ~ done[t]
  /\ deq' = IF req[t].op = "push_l" THEN <<req[t].e>> \o deq ELSE deq \o <<req[t].e>>
  /\ done' = [done EXCEPT ![t] = TRUE]
  /\ UNCHANGED req

Pop(t) ==
  /\ req[t].op \in Pops /\ ~ done[t]
  /\ deq # <<>>
  /\ LET left == req[t].op = "pop_l"
     IN  /\ req' = [req EXCEPT ![t].e = IF left THEN Head(deq) ELSE deq[Len(deq)]]
         /\ deq' = IF left THEN Tail(deq) ELSE SubSeq(deq, 1, Len(deq) - 1)
  /\ done' = [done EXCEPT ![t] = TRUE]

PopEmpty(t) ==
  /\ req[t].op \in Pops /\ ~ done[t]
  /\ deq = <<>>
  /\ done' = [done EXCEPT ![t] = TRUE]
  /\ UNCHANGED <<deq, req>>

Return(t) ==
  /\ done[t]
  /\ req' = [req EXCEPT ![t] = NoReq]
  /\ done' = [done EXCEPT ![t] = FALSE]
  /\ UNCHANGED deq

Next ==
  \E t \in Threads :
    \/ \E r \in Requests : Call(t, r)
    \/ Push(t) \/ Pop(t) \/ PopEmpty(t) \/ Return(t)

Spec == Init /\ [][Next]_dqvars
=============================================================================
