---------------------------- MODULE TortureBase ----------------------------
(***************************************************************************)
(* What the test drivers of CodeSamples have in common: the parent starts  *)
(* its threads, waits until all have announced themselves, sets goflag to  *)
(* RUN and later to STOP, waits for all threads, and adds up what they     *)
(* counted.  The structure under test is store, changed in one step by     *)
(* each of its operations: what it is made of is the matter of the other   *)
(* modules.  A driver that is right passes every structure that is right.  *)
(***************************************************************************)
EXTENDS Integers, Sequences, FiniteSets, SequencesExt, FiniteSetsExt

CONSTANTS
  Readers, Updaters,   \* the threads a driver creates
  Slots,               \* per updater, the elements it adds and deletes
  MaxOps               \* bound: passes through a test loop

Threads == Readers \union Updaters
Parent == 0

\* The number of readers is an option: the drivers that gain nothing from more have one.
LoneReader == Min(Readers)

ASSUME TortureAssumption ==
  /\ Readers \subseteq Nat \ {Parent} /\ Updaters \subseteq Nat \ {Parent}
  /\ Readers \intersect Updaters = {} /\ IsFiniteSet(Threads) /\ Readers # {}
  /\ Slots \in Nat \ {0} /\ MaxOps \in Nat

VARIABLES
  driver,              \* the test under way; never changes
  goflag,              \* "init", "run", "stop"
  nthreads_running,
  pc,
  loc,                 \* per thread: its local variables
  store,               \* the structure under test
  el,                  \* per element: what the driver notes in it
  cbs,                 \* call_rcu(): the elements whose callbacks are due
  bug                  \* the functions in which a BUG_ON() or abort() was reached

vars == <<driver, goflag, nthreads_running, pc, loc, store, el, cbs, bug>>

Elements == Updaters \X (0 .. Slots - 1)
Own(t) == {t} \X (0 .. Slots - 1)

\* i: the loop's index; ops: passes through the loop; n: what the driver counts, where
\* its checks depend on it; ptr: an element or a value in hand
Registers == [i |-> 0, ops |-> 0, n |-> 0, ptr |-> <<>>]

InitWith(drivers, store0, el0) ==
  /\ driver \in drivers
  /\ goflag = "init"
  /\ nthreads_running = 0
  /\ pc = [t \in Threads \union {Parent} |-> "start"]
  /\ loc = [t \in Threads \union {Parent} |-> Registers]
  /\ store = store0
  /\ el = el0
  /\ cbs = {}
  /\ bug = {}

Goto(t, from, to) ==
  /\ pc[t] = from
  /\ pc' = [pc EXCEPT ![t] = to]

\* BUG_ON() and abort(): cond holds in function f.
BUG_ON(cond, f) == bug' = IF cond THEN bug \union {f} ELSE bug

\* On to index i of the loop
Advance(t, i) == loc' = [loc EXCEPT ![t].i = i]

-----------------------------------------------------------------------------
\* The parent: wait for all threads, run, stop, join.

ParentGo(members) ==
  /\ Goto(Parent, "start", "run")
  /\ nthreads_running >= Cardinality(members)
  /\ goflag' = "run"
  /\ UNCHANGED <<driver, nthreads_running, loc, store, el, cbs, bug>>

ParentStop ==
  /\ Goto(Parent, "run", "join")
  /\ goflag' = "stop"
  /\ UNCHANGED <<driver, nthreads_running, loc, store, el, cbs, bug>>

\* wait_all_threads(); then the checks at the end
ParentJoin(members, f, wrong) ==
  /\ Goto(Parent, "join", "done")
  /\ \A t \in members : pc[t] = "done"
  /\ BUG_ON(wrong, f)
  /\ UNCHANGED <<driver, goflag, nthreads_running, loc, store, el, cbs>>

\* members are the threads created, f is the parent's function, wrong what its checks
\* at the end abort on.
Conduct(members, f, wrong) == ParentGo(members) \/ ParentStop \/ ParentJoin(members, f, wrong)

\* A smoke test has no threads: the parent performs a script of operations on store, each
\* followed by a look whether its key is there.  after is store after the step that is next.
SmokeStep(script) == script[loc[Parent].i + 1]

Smoke(script, f, after) ==
  LET step == SmokeStep(script)
      last == loc[Parent].i + 1 = Len(script)
  IN  /\ Goto(Parent, "start", IF last THEN "done" ELSE "start")
      /\ store' = after
      /\ BUG_ON((step.key \in store') # step.there, f)
      /\ loc' = [loc EXCEPT ![Parent].i = IF last THEN 0 ELSE @ + 1]
      /\ UNCHANGED <<driver, goflag, nthreads_running, el, cbs>>

-----------------------------------------------------------------------------
\* A thread announces itself, and reads goflag at the top of its loop.

AnnounceFrom(t, from) ==
  /\ Goto(t, from, "loop")
  /\ nthreads_running' = nthreads_running + 1
  /\ UNCHANGED <<driver, goflag, loc, store, el, cbs, bug>>

Announce(t) == AnnounceFrom(t, "start")

\* A step to another place in the code that changes nothing else
Jump(t, from, to) ==
  /\ Goto(t, from, to)
  /\ UNCHANGED <<driver, goflag, nthreads_running, loc, store, el, cbs, bug>>

\* The thread returns.
End(t, from) ==
  /\ Goto(t, from, "done")
  /\ loc' = [loc EXCEPT ![t] = Registers]
  /\ UNCHANGED <<driver, goflag, nthreads_running, store, el, cbs, bug>>

\* for (;;) { gf = goflag; if (gf == GOFLAG_STOP) break; ... }
ReadGoflagUpTo(t, bound) ==
  /\ \/ goflag = "stop" /\ Goto(t, "loop", "over") /\ UNCHANGED loc
     \/ /\ goflag # "stop" /\ loc[t].ops < bound
        /\ Goto(t, "loop", "pass")
        /\ loc' = [loc EXCEPT ![t].ops = @ + 1]
  /\ UNCHANGED <<driver, goflag, nthreads_running, store, el, cbs, bug>>

ReadGoflag(t) == ReadGoflagUpTo(t, MaxOps)

\* while (goflag == INIT) poll(); while (goflag == RUN) ...
AwaitGoflag(t) ==
  /\ goflag # "init"
  /\ ReadGoflag(t)

\* A callback of call_rcu() is invoked: done is what it writes.
Callback(e, done) ==
  /\ e \in cbs
  /\ cbs' = cbs \ {e}
  /\ el' = [el EXCEPT ![e] = done]
  /\ UNCHANGED <<driver, goflag, nthreads_running, pc, loc, store, bug>>
=============================================================================
