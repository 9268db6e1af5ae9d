---------------------------- MODULE HashBktHazptr ----------------------------
(***************************************************************************)
(* The hash table of CodeSamples/datastruct/hash/hash_bkt_hazptr.c: one    *)
(* lock per bucket for updates, lookups under two hazard pointers that     *)
(* take turns.                                                             *)
(*                                                                         *)
(* bkt[b] is what is linked from the head of bucket b; the hte_next of an  *)
(* element that has been unlinked is in stale.  The caller is the one of   *)
(* hashtorture.h: it adds a key that is not there, and hands a deleted     *)
(* element to defer_del() after it has released the lock.                  *)
(***************************************************************************)
EXTENDS HazPtr, Sequences, SequencesExt

CONSTANTS
  Keys,                \* the keys, naturals
  HashMod,             \* hash of key k: k % HashMod; below Max(Keys) it collides
  NBUCKETS             \* ht_nbuckets

VARIABLES
  bkt,                 \* per bucket: the linked elements, from the head
  stale,               \* per unlinked element: its hte_next
  ekey,                \* per element: its key
  htb_lock,            \* per bucket: the holder, or -1
  key,                 \* per thread: the key looked up, or NULL
  from,                \* per thread: the element htepp points into, NULL for the head
  htep,                \* per thread: the local htep
  offset,              \* per thread: the hazard pointer to use next
  steady               \* per thread: the key has been in the table since the call

vars == <<hpvars, pc, bkt, stale, ekey, htb_lock, key, from, htep, offset, steady>>

tabvars == <<bkt, stale, ekey, htb_lock>>

hash(k) == k % HashMod

HASH2BKT(k) == hash(k) % NBUCKETS

Buckets == 0 .. NBUCKETS - 1

Linked == UNION {ToSet(bkt[b]) : b \in Buckets}

Successor(b, o) ==
  LET i == SelectInSeq(bkt[b], LAMBDA x : x = o)
  IN  IF i < Len(bkt[b]) THEN bkt[b][i + 1] ELSE NULL

\* *htepp, for htepp the head of bucket b or the hte_next of o; NULL is the head
Deref(b, o) ==
  CASE o = NULL           -> IF bkt[b] = <<>> THEN NULL ELSE Head(bkt[b])
    [] o \in ToSet(bkt[b]) -> Successor(b, o)
    [] OTHER              -> stale[o]

Has(k) == \E o \in Linked : ekey[o] = k

Init ==
  /\ HazPtrInit
  /\ pc = [t \in Threads |-> "idle"]
  /\ bkt = [b \in Buckets |-> <<>>]
  /\ stale = [o \in Objects |-> POISON]
  /\ ekey = [o \in Objects |-> NULL]
  /\ htb_lock = [b \in Buckets |-> -1]
  /\ key = [t \in Threads |-> NULL]
  /\ from = [t \in Threads |-> NULL]
  /\ htep = [t \in Threads |-> NULL]
  /\ offset = [t \in Threads |-> 0]
  /\ steady = [t \in Threads |-> FALSE]

-----------------------------------------------------------------------------
\* hashtab_lookup()

LookupCall(t, k) ==
  /\ t \in Readers
  /\ Goto(t, "idle", "load")
  /\ key' = [key EXCEPT ![t] = k]
  /\ from' = [from EXCEPT ![t] = NULL]
  /\ offset' = [offset EXCEPT ![t] = 0]
  /\ steady' = [steady EXCEPT ![t] = Has(k)]
  /\ UNCHANGED <<hpvars, tabvars, htep>>

Return(t) ==
  /\ pc' = [pc EXCEPT ![t] = "idle"]
  /\ key' = [key EXCEPT ![t] = NULL]
  /\ from' = [from EXCEPT ![t] = NULL]
  /\ htep' = [htep EXCEPT ![t] = NULL]
  /\ offset' = [offset EXCEPT ![t] = 0]
  /\ steady' = [steady EXCEPT ![t] = FALSE]

\* Mutant: a poisoned hte_next ends the search.
LoadPoisonEnds(t) ==
  LET tmp == Deref(HASH2BKT(key[t]), from[t])
  IN  /\ pc[t] = "load"
      /\ \/ tmp \in {NULL, POISON} /\ Return(t)
         \/ /\ tmp \in Objects
            /\ Goto(t, "load", "store")
            /\ htep' = [htep EXCEPT ![t] = tmp]
            /\ UNCHANGED <<key, from, offset, steady>>
      /\ UNCHANGED <<hpvars, tabvars>>

\* htep = ACCESS_ONCE(*htepp): the end of the list, a deleted element, or go on
LookupLoad(t) ==
  LET tmp == Deref(HASH2BKT(key[t]), from[t])
  IN  /\ pc[t] = "load"
      /\ \/ tmp = NULL /\ Return(t)
         \/ /\ tmp = POISON
            /\ from' = [from EXCEPT ![t] = NULL]
            /\ UNCHANGED <<pc, key, htep, offset, steady>>
         \/ /\ tmp \in Objects
            /\ Goto(t, "load", "store")
            /\ htep' = [htep EXCEPT ![t] = tmp]
            /\ UNCHANGED <<key, from, offset, steady>>
      /\ UNCHANGED <<hpvars, tabvars>>

\* my_hazptr[offset].p = &htep->hh; offset = !offset
LookupStore(t) ==
  /\ Goto(t, "store", "mb")
  /\ StoreHP(t, offset[t], htep[t])
  /\ offset' = [offset EXCEPT ![t] = 1 - @]
  /\ UNCHANGED <<HP, scanvars, mem, tabvars, key, from, htep, steady>>

\* smp_mb()
LookupMb(t) ==
  /\ Goto(t, "mb", "reload")
  /\ Drained(t)
  /\ UNCHANGED <<hpvars, tabvars, key, from, htep, offset, steady>>

\* ACCESS_ONCE(*htepp) != htep: start over
LookupReload(t) ==
  /\ pc[t] = "reload"
  /\ IF Deref(HASH2BKT(key[t]), from[t]) = htep[t]
       THEN Goto(t, "reload", "compare") /\ UNCHANGED from
       ELSE Goto(t, "reload", "load") /\ from' = [from EXCEPT ![t] = NULL]
  /\ UNCHANGED <<hpvars, tabvars, key, htep, offset, steady>>

\* while (htep->hte_hash != hash && !htp->ht_cmp(htep, key))
LookupCompare(t) ==
  /\ pc[t] = "compare"
  /\ IF hash(ekey[htep[t]]) # hash(key[t]) /\ ekey[htep[t]] # key[t]
       THEN Goto(t, "compare", "load") /\ from' = [from EXCEPT ![t] = htep[t]]
       ELSE Goto(t, "compare", "found") /\ from' = [from EXCEPT ![t] = NULL]
  /\ UNCHANGED <<hpvars, tabvars, key, htep, offset, steady>>

\* The caller has looked at the element; hashtab_lookup_done() does nothing
LookupDone(t) ==
  /\ pc[t] = "found"
  /\ Return(t)
  /\ UNCHANGED <<hpvars, tabvars>>

Lookup(t) ==
  \/ LookupLoad(t) \/ LookupStore(t) \/ LookupMb(t) \/ LookupReload(t)
  \/ LookupCompare(t) \/ LookupDone(t)

-----------------------------------------------------------------------------
\* hashtab_lock_mod(), hashtab_add(), hashtab_unlock_mod()
Add(t, k) ==
  LET b == HASH2BKT(k)
  IN  /\ pc[t] = "idle" /\ htb_lock[b] = -1 /\ ~ Has(k)
      /\ \E o \in Objects :
           /\ mem[o] = "free"
           /\ mem' = [mem EXCEPT ![o] = "live"]
           /\ ekey' = [ekey EXCEPT ![o] = k]
           /\ bkt' = [bkt EXCEPT ![b] = <<o>> \o @]
           /\ stale' = [stale EXCEPT ![o] = POISON]
      /\ UNCHANGED <<HP, hpstore, scanvars, pc, htb_lock, key, from, htep, offset, steady>>

\* hashtab_lock_mod() and hashtab_del(): unlink the element
Del(t, o) ==
  LET b == HASH2BKT(ekey[o])
  IN  /\ o \in Linked
      /\ htb_lock[b] = -1
      /\ Goto(t, "idle", "del_poison")
      /\ htb_lock' = [htb_lock EXCEPT ![b] = t]
      /\ htep' = [htep EXCEPT ![t] = o]
      /\ stale' = [stale EXCEPT ![o] = Successor(b, o)]
      /\ bkt' = [bkt EXCEPT ![b] = RemoveFirst(@, o)]
      /\ steady' = [u \in Threads |-> steady[u] /\ key[u] # ekey[o]]
      /\ UNCHANGED <<hpvars, ekey, key, from, offset>>

\* poison its pointers, hashtab_unlock_mod(), defer_del()
DelPoison(t) ==
  /\ pc[t] = "del_poison"
  /\ stale' = [stale EXCEPT ![htep[t]] = POISON]
  /\ htb_lock' = [htb_lock EXCEPT ![HASH2BKT(ekey[htep[t]])] = -1]
  /\ htep' = [htep EXCEPT ![t] = NULL]
  /\ free_later(t, htep[t], "idle")
  /\ UNCHANGED <<HP, hpstore, plist, scan, bkt, ekey, key, from, offset, steady>>

Rest == UNCHANGED <<tabvars, key, from, htep, offset, steady>>

Step(t) == Lookup(t) \/ DelPoison(t) \/ ((Scan(t) \/ ExitLoop(t)) /\ Rest)

Drain(t) == DrainStore(t) /\ Rest

\* hash_unregister_thread()
Leave(t) == Exit(t) /\ Rest

Next ==
  \E t \in Threads :
    \/ Drain(t) \/ Step(t) \/ Leave(t)
    \/ \E k \in Keys : LookupCall(t, k) \/ Add(t, k)
    \/ \E o \in Objects : Del(t, o)

-----------------------------------------------------------------------------
\* The element a lookup stands on or returns, and the one whose hte_next it reads
LookupTouchesNothingFreed ==
  \A t \in Threads :
    /\ pc[t] \in {"load", "store", "mb", "reload"} /\ from[t] # NULL => mem[from[t]] # "free"
    /\ pc[t] \in {"compare", "found"} => mem[htep[t]] # "free"
=============================================================================
