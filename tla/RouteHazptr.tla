----------------------------- MODULE RouteHazptr -----------------------------
(***************************************************************************)
(* The routing table of CodeSamples/defer/route_hazptr.c: a singly linked  *)
(* list updated under routelock and searched under hazard pointers.        *)
(*                                                                         *)
(* list is what is linked from route_list; the re_next of an entry that    *)
(* has been unlinked is in stale.  Freeing an entry leaves POISON there:    *)
(* what the allocator puts in its place is no entry of the table either.   *)
(***************************************************************************)
EXTENDS HazPtr, Sequences, SequencesExt

CONSTANT Addrs         \* the addresses routes are for

VARIABLES
  list,                \* the linked entries, from the head
  stale,               \* per unlinked entry: its re_next
  addr,                \* per entry: its address
  routelock,           \* the holder, or -1
  key,                 \* per thread: the argument of the call under way
  from,                \* per thread: the entry repp points into, NULL for the head
  rep                  \* per thread: the local rep, or tmp of hp_try_record()

vars == <<hpvars, pc, list, stale, addr, routelock, key, from, rep>>

listvars == <<list, stale, addr, routelock>>

Linked == ToSet(list)

\* The entry after o in the list.
Successor(o) ==
  LET i == SelectInSeq(list, LAMBDA x : x = o)
  IN  IF i < Len(list) THEN list[i + 1] ELSE NULL

\* *repp, for repp the head or the re_next of o
Deref(o) ==
  CASE o = NULL     -> IF list = <<>> THEN NULL ELSE Head(list)
    [] o \in Linked -> Successor(o)
    [] OTHER        -> stale[o]

Init ==
  /\ HazPtrInit
  /\ pc = [t \in Threads |-> "idle"]
  /\ list = <<>>
  /\ stale = [o \in Objects |-> POISON]
  /\ addr = [o \in Objects |-> CHOOSE a \in Addrs : TRUE]
  /\ routelock = -1
  /\ key = [t \in Threads |-> NULL]
  /\ from = [t \in Threads |-> NULL]
  /\ rep = [t \in Threads |-> NULL]

-----------------------------------------------------------------------------
\* route_lookup()

LookupCall(t, a) ==
  /\ t \in Readers
  /\ Goto(t, "idle", "load")
  /\ key' = [key EXCEPT ![t] = a]
  /\ from' = [from EXCEPT ![t] = NULL]
  /\ UNCHANGED <<hpvars, listvars, rep>>

\* hp_try_record(): tmp = READ_ONCE(*p); the end of the list, or a deleted entry
LookupLoad(t) ==
  LET tmp == Deref(from[t])
  IN  /\ \/ /\ tmp = NULL
            /\ Goto(t, "load", "idle")
            /\ key' = [key EXCEPT ![t] = NULL]
            /\ from' = [from EXCEPT ![t] = NULL]
            /\ rep' = [rep EXCEPT ![t] = NULL]
         \/ /\ tmp = POISON
            /\ Goto(t, "load", "load")
            /\ from' = [from EXCEPT ![t] = NULL]
            /\ UNCHANGED <<key, rep>>
         \/ /\ tmp \in Objects
            /\ Goto(t, "load", "store")
            /\ rep' = [rep EXCEPT ![t] = tmp]
            /\ UNCHANGED <<key, from>>
      /\ UNCHANGED <<hpvars, listvars>>

\* WRITE_ONCE(hp->p, tmp), always the same hazard pointer of the thread
LookupStore(t) ==
  /\ Goto(t, "store", "mb")
  /\ StoreHP(t, 0, rep[t])
  /\ UNCHANGED <<HP, scanvars, mem, listvars, key, from, rep>>

\* Mutant: no smp_mb() between the store and the second load.
LookupNoMb(t) ==
  /\ Goto(t, "mb", "reload")
  /\ UNCHANGED <<hpvars, listvars, key, from, rep>>

\* smp_mb()
LookupMb(t) ==
  /\ Drained(t)
  /\ Goto(t, "mb", "reload")
  /\ UNCHANGED <<hpvars, listvars, key, from, rep>>

\* tmp == READ_ONCE(*p), or start over
LookupReload(t) ==
  /\ \/ /\ Deref(from[t]) = rep[t]
        /\ Goto(t, "reload", "compare")
        /\ UNCHANGED from
     \/ /\ Deref(from[t]) # rep[t]
        /\ Goto(t, "reload", "load")
        /\ from' = [from EXCEPT ![t] = NULL]
  /\ UNCHANGED <<hpvars, listvars, key, rep>>

\* rep->addr != addr
LookupCompare(t) ==
  /\ pc[t] = "compare"
  /\ \/ /\ addr[rep[t]] # key[t]
        /\ Goto(t, "compare", "load")
        /\ from' = [from EXCEPT ![t] = rep[t]]
     \/ /\ addr[rep[t]] = key[t]
        /\ Goto(t, "compare", "found")
        /\ UNCHANGED from
  /\ UNCHANGED <<hpvars, listvars, key, rep>>

\* The test of re_freed and the return; the hazard pointer stays as it is
LookupReturn(t) ==
  /\ Goto(t, "found", "idle")
  /\ key' = [key EXCEPT ![t] = NULL]
  /\ from' = [from EXCEPT ![t] = NULL]
  /\ rep' = [rep EXCEPT ![t] = NULL]
  /\ UNCHANGED <<hpvars, listvars>>

Lookup(t) ==
  \/ LookupLoad(t) \/ LookupStore(t) \/ LookupMb(t) \/ LookupReload(t)
  \/ LookupCompare(t) \/ LookupReturn(t)

-----------------------------------------------------------------------------
\* route_add(), into memory that malloc() may have handed out before
RouteAdd(t, a) ==
  /\ pc[t] = "idle" /\ routelock = -1
  /\ \E o \in Objects :
       /\ mem[o] = "free"
       /\ mem' = [mem EXCEPT ![o] = "live"]
       /\ addr' = [addr EXCEPT ![o] = a]
       /\ list' = <<o>> \o list
       /\ stale' = [stale EXCEPT ![o] = POISON]
  /\ UNCHANGED <<HP, hpstore, scanvars, pc, routelock, key, from, rep>>

\* route_del(): unlink the first entry for the address
RouteDel(t, a) ==
  LET i == SelectInSeq(list, LAMBDA o : addr[o] = a)
  IN  /\ routelock = -1
      /\ i # 0
      /\ Goto(t, "idle", "del_poison")
      /\ routelock' = t
      /\ rep' = [rep EXCEPT ![t] = list[i]]
      /\ stale' = [stale EXCEPT ![list[i]] = Successor(list[i])]
      /\ list' = RemoveAt(list, i)
      /\ UNCHANGED <<hpvars, addr, key, from>>

\* Mutant: the deleted entry is not retired.
DelLeaks(t) ==
  /\ Goto(t, "del_poison", "idle")
  /\ stale' = [stale EXCEPT ![rep[t]] = POISON]
  /\ routelock' = -1
  /\ rep' = [rep EXCEPT ![t] = NULL]
  /\ UNCHANGED <<hpvars, list, addr, key, from>>

\* poison its re_next, unlock, and hazptr_free_later()
DelPoison(t) ==
  /\ pc[t] = "del_poison"
  /\ stale' = [stale EXCEPT ![rep[t]] = POISON]
  /\ routelock' = -1
  /\ rep' = [rep EXCEPT ![t] = NULL]
  /\ free_later(t, rep[t], "idle")
  /\ UNCHANGED <<HP, hpstore, plist, scan, list, addr, key, from>>

\* route_clear(): unlink all, then poison and retire one after the other
RouteClear(t) ==
  /\ routelock = -1
  /\ Goto(t, "idle", "clear")
  /\ routelock' = t
  /\ rep' = [rep EXCEPT ![t] = Deref(NULL)]
  /\ stale' = [o \in Objects |-> IF o \in Linked THEN Successor(o) ELSE stale[o]]
  /\ list' = <<>>
  /\ UNCHANGED <<hpvars, addr, key, from>>

ClearNext(t) ==
  /\ pc[t] = "clear" /\ rep[t] # NULL
  /\ stale' = [stale EXCEPT ![rep[t]] = POISON]
  /\ rep' = [rep EXCEPT ![t] = stale[rep[t]]]
  /\ free_later(t, rep[t], "clear")
  /\ UNCHANGED <<HP, hpstore, plist, scan, list, addr, routelock, key, from>>

ClearEnd(t) ==
  /\ rep[t] = NULL
  /\ Goto(t, "clear", "idle")
  /\ routelock' = -1
  /\ UNCHANGED <<hpvars, list, stale, addr, key, from, rep>>

\* What a call that has begun does to end.
Step(t) ==
  \/ Lookup(t) \/ DelPoison(t) \/ ClearNext(t) \/ ClearEnd(t)
  \/ (Scan(t) \/ ExitLoop(t)) /\ UNCHANGED <<listvars, key, from, rep>>

Drain(t) == DrainStore(t) /\ UNCHANGED <<listvars, key, from, rep>>

Leave(t) == Exit(t) /\ UNCHANGED <<listvars, key, from, rep>>

Next ==
  \E t \in Threads :
    \/ Drain(t) \/ Step(t) \/ Leave(t) \/ RouteClear(t)
    \/ \E a \in Addrs : LookupCall(t, a) \/ RouteAdd(t, a) \/ RouteDel(t, a)

-----------------------------------------------------------------------------
\* The entry a lookup looks at or returns, and the one it reads re_next of for the first time;
\* when it reads that again ("reload") its only hazard pointer is for the next entry already.
ValidatedNotFreed ==
  \A t \in Threads :
    /\ pc[t] \in {"compare", "found"} => mem[rep[t]] # "free"
    /\ pc[t] = "load" /\ from[t] # NULL => mem[from[t]] # "free"
=============================================================================
