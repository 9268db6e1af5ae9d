-------------------------- MODULE HashResizeProofs --------------------------
(***************************************************************************)
(* Proofs about module HashResize, for any number of threads, elements,    *)
(* buckets and resizes: lookups are answered correctly and no instance in  *)
(* use is freed or corrupted, provided that threads delete only elements   *)
(* they have added themselves (~ Shared), as the programs' drivers do.     *)
(***************************************************************************)
EXTENDS HashResize, TLAPS

\* The bucket number of an element in instance g
Bkt(g, e) == ht_get_bucket(g, e)[2]

\* Between lock and unlock of the first bucket, and once all locks are held
Locking == {"lock1", "mod", "add0", "add1", "del0", "del1", "unlock"}
Updating == {"mod", "add0", "add1", "del0", "del1", "unlock"}
Changing == {"add0", "add1", "del0", "del1", "unlock"}

Busy == {"sync1", "lock", "move", "switch"}

Dead == {"free", "deferred"}

TypeOK ==
  /\ impl \in {"hash_resize", "hash_resize_s"}
  /\ ht_cur \in Insts
  /\ ht_new \in [Insts -> Insts \union {None}]
  /\ ht_resize_cur \in [Insts -> Int]
  /\ freed \subseteq Insts
  /\ link \in [Elems -> [{0, 1} -> Insts \union {None}]]
  /\ htb_lock \in [AllBuckets -> Threads \union {Resizer, None}]
  /\ mem \in [Elems -> {"free", "live", "changing", "deferred"}]
  /\ defer \in [Elems -> SUBSET Threads]
  /\ pc \in [Threads -> {"idle", "search", "again", "lock0"} \union Locking]
  /\ op \in [Threads -> {"none", "lookup", "add", "del"}]
  /\ el \in [Threads -> Elems \union {None}]
  /\ htp \in [Threads -> Insts \union {None}]
  /\ hbp \in [Threads -> (Insts \union {None}) \X (Insts \union {None})]
  /\ rcu \in [Threads -> BOOLEAN]
  /\ expect \in [Threads -> {"in", "out", "any"}]
  /\ rpc \in {"idle", "sync2"} \union Busy
  /\ ri \in Int
  /\ todo \subseteq Elems
  /\ rgp \subseteq Threads

-----------------------------------------------------------------------------
\* The inductive invariant, in parts.

\* What the resizer has done is told by ht_cur, rpc and ri.
ResizerInv ==
  /\ rpc \in Busy => ht_cur < MaxResize
  /\ rpc = "sync2" => ht_cur >= 1
  /\ rpc \in {"lock", "move"} => ri \in 0 .. ht_nbuckets(ht_cur) - 1
  /\ rpc = "move" => htb_lock[<<ht_cur, ri>>] = Resizer
  /\ \A g \in Insts :
       /\ ht_new[g] = IF g < ht_cur \/ (g = ht_cur /\ rpc \in Busy) THEN g + 1 ELSE None
       /\ ht_resize_cur[g] =
            CASE g < ht_cur \/ (g = ht_cur /\ rpc = "switch") -> ht_nbuckets(g) - 1
              [] g = ht_cur /\ rpc \in {"lock", "move"}       -> ri - 1
              [] OTHER                                        -> -1
       /\ g \in freed => g < ht_cur /\ ~ (rpc = "sync2" /\ g = ht_cur - 1)

\* The bucket of e in the current instance has been moved, or e itself has.
Moved(e) ==
  \/ Bkt(ht_cur, e) <= ht_resize_cur[ht_cur]
  \/ rpc = "move" /\ Bkt(ht_cur, e) = ri /\ e \notin todo

\* InstanceIntact's condition for a deletion
Linked(g, e) == InList(g, e) \/ (impl = "hash_resize_s" /\ link[e][g % 2] = None)

\* A thread in a call uses the current instance, or the one before, which the
\* second grace period then still keeps.  An updater works on its own elements.
ThreadInv ==
  \A t \in Threads :
    /\ pc[t] = "idle" => htp[t] = None /\ el[t] = None
    /\ pc[t] # "idle" =>
         /\ rcu[t] /\ el[t] \in Elems /\ htp[t] \in Insts
         /\ htp[t] = ht_cur \/ (rpc = "sync2" /\ htp[t] = ht_cur - 1 /\ t \in rgp)
    /\ pc[t] \in {"lock0"} \union Locking => op[t] \in {"add", "del"} /\ el[t] % NR_THREADS = t
    /\ pc[t] = "again" => impl = "hash_resize_s"

\* An updater holds the bucket of the instance it started from; it holds the
\* one of the next instance too iff the first had been moved when it was locked,
\* and the resizer cannot have moved it since.
LockInv ==
  \A t \in Threads :
    /\ pc[t] \in Locking => htb_lock[ht_get_bucket(htp[t], el[t])] = t
    /\ pc[t] = "lock1" =>
         /\ hbp[t][1] = htp[t] /\ hbp[t][2] = None
         /\ Bkt(htp[t], el[t]) <= ht_resize_cur[htp[t]]
    /\ pc[t] \in Updating =>
         IF hbp[t][2] = None
           THEN hbp[t][1] = htp[t] /\ Bkt(htp[t], el[t]) > ht_resize_cur[htp[t]]
           ELSE /\ Bkt(htp[t], el[t]) <= ht_resize_cur[htp[t]]
                /\ IF impl = "hash_resize"
                     THEN hbp[t][1] = htp[t] /\ hbp[t][2] = htp[t] + 1
                     ELSE hbp[t][1] = htp[t] + 1 /\ hbp[t][2] = htp[t]

\* An element's two hte_next link it into instances of their own parity, the
\* next instance only after it has been moved.
LinkInv ==
  \A e \in Elems :
    /\ \A i \in {0, 1} : link[e][i] # None => link[e][i] % 2 = i /\ link[e][i] <= ht_cur + 1
    /\ InList(ht_cur + 1, e) => Moved(e)

\* An element in the table is linked where lookups will come by, one that is
\* not in the table is linked in no list they will come by, except for those
\* its call_rcu() waits for; and the resizer moves elements in the table only.
MemInv ==
  \A e \in Elems :
    /\ mem[e] = "live" =>
         Linked(ht_cur, e) /\ InList(IF Moved(e) THEN ht_cur + 1 ELSE ht_cur, e)
    /\ mem[e] \in Dead =>
         /\ ~ InList(ht_cur, e) /\ ~ InList(ht_cur + 1, e)
         /\ \A u \in Threads :
              htp[u] # None /\ InList(htp[u], e) => mem[e] = "deferred" /\ u \in defer[e]
    /\ mem[e] = "changing" =>
         LET t == e % NR_THREADS IN el[t] = e /\ pc[t] \in Changing
    /\ rpc = "move" /\ e \in todo => mem[e] = "live" /\ Bkt(ht_cur, e) = ri

\* How far an updater has come with its element
AddInv(t) ==
  LET e == el[t]
      g == hbp[t][1]
      h == hbp[t][2]
  IN  /\ pc[t] \in {"lock0", "lock1", "mod"} => mem[e] = "free"
      /\ pc[t] \in Changing => mem[e] = "changing"
      /\ pc[t] = "add0" => \A i \in {0, 1} : link[e][i] = None
      /\ pc[t] \in {"add1", "unlock"} => InList(g, e)
      /\ pc[t] = "add1" => h # None /\ impl = "hash_resize" /\ link[e][1 - (g % 2)] = None
      /\ pc[t] = "unlock" =>
           IF h # None /\ impl = "hash_resize" THEN InList(h, e) ELSE link[e][1 - (g % 2)] = None
      /\ pc[t] \notin {"del0", "del1"}

DelInv(t) ==
  LET e == el[t]
      g == hbp[t][1]
      h == hbp[t][2]
  IN  /\ pc[t] \in {"lock0", "lock1", "mod"} =>
           mem[e] # "changing" /\ (mem[e] = "live" => Linked(htp[t], e))
      /\ pc[t] \in {"del0", "del1"} =>
           mem[e] = "changing" /\ (h # None => Linked(h, e))
      /\ pc[t] = "del0" => Linked(g, e)
      /\ pc[t] = "del1" => h # None /\ link[e][g % 2] = None
      /\ pc[t] = "unlock" =>
           \/ mem[e] \in Dead
           \/ mem[e] = "changing" /\ link[e][g % 2] = None /\ (h # None => link[e][h % 2] = None)
      /\ pc[t] \notin {"add0", "add1"}

UpdaterInv ==
  \A t \in Threads :
    pc[t] \in {"lock0"} \union Locking =>
      (op[t] = "add" => AddInv(t)) /\ (op[t] = "del" => DelInv(t))

\* What a lookup expects is what is there, and it is where it looks.
LookupInv ==
  \A t \in Threads :
    pc[t] \in {"search", "again"} =>
      /\ expect[t] = "in" =>
           /\ mem[el[t]] = "live"
           /\ \/ pc[t] = "search" /\ InList(htp[t], el[t])
              \/ impl = "hash_resize_s" /\ InNew(htp[t], el[t])
      /\ expect[t] = "out" => mem[el[t]] \in Dead /\ ~ InList(htp[t], el[t])

IInv ==
  /\ TypeOK
  /\ ResizerInv
  /\ ThreadInv
  /\ LockInv
  /\ LinkInv
  /\ MemInv
  /\ UpdaterInv
  /\ LookupInv

-----------------------------------------------------------------------------
\* The numbers the model counts with

LEMMA Numbers ==
  /\ NR_THREADS \in Nat /\ NR_THREADS > 0 /\ MaxResize \in Nat /\ Elems \subseteq Nat
  /\ Insts \subseteq Nat /\ 0 \in Insts
  /\ Threads \subseteq Nat /\ None \notin Threads /\ Resizer \notin Threads /\ Resizer # None
  /\ None \notin Insts /\ None \notin Elems
  BY HashResizeAssumption DEF Insts, Threads, None, Resizer

\* An element has one bucket in every instance.
LEMMA Buckets ==
  ASSUME NEW g \in Nat, NEW e \in Elems
  PROVE  /\ ht_nbuckets(g) \in Nat \ {0}
         /\ Bkt(g, e) \in 0 .. ht_nbuckets(g) - 1
         /\ ht_get_bucket(g, e) = <<g, Bkt(g, e)>>
         /\ g \in Insts => ht_get_bucket(g, e) \in AllBuckets
<1>1. ht_nbuckets(g) \in Nat /\ ht_nbuckets(g) > 0
  BY HashResizeAssumption DEF ht_nbuckets
<1>2. e \in Nat
  BY HashResizeAssumption
<1>3. e % ht_nbuckets(g) \in 0 .. ht_nbuckets(g) - 1
  BY <1>1, <1>2
<1>4. ht_get_bucket(g, e) = <<g, e % ht_nbuckets(g)>> /\ Bkt(g, e) = e % ht_nbuckets(g)
  BY DEF ht_get_bucket, Bkt
<1>5. ASSUME g \in Insts PROVE ht_get_bucket(g, e) \in AllBuckets
  BY <1>3, <1>4, <1>5 DEF AllBuckets
<1> QED BY <1>1, <1>3, <1>4, <1>5

\* A step of Next, split by action.
LEMMA NextCases ==
  ASSUME Next
  PROVE  \/ \E t \in Threads :
              \/ \E e \in Elems : LookupDeref(t, e) \/ ModCall(t, "add", e) \/ ModCall(t, "del", e)
              \/ impl = "hash_resize" /\ Search(t)
              \/ impl = "hash_resize_s" /\ SearchCur(t)
              \/ impl = "hash_resize_s" /\ SearchNew(t)
              \/ Lock0(t) \/ Lock1(t) \/ ModLookup(t)
              \/ Add0(t) \/ Add1(t) \/ Del0(t) \/ Del1(t) \/ Unlock(t)
         \/ \E e \in Elems : DeferDone(e)
         \/ ResizeCall \/ Sync1 \/ ResizeLock \/ ResizeMove \/ ResizeNext \/ Switch \/ Sync2
  BY DEF Next, ThreadStep, hash_resize, hash_resize_s, Updates, hashtab_resize,
         hashtab_resize_s, Resizes

\* A thread that is about to lock a second bucket finds the next instance in ht_new.
LEMMA NewInstance ==
  ASSUME IInv, NEW t \in Threads, pc[t] \in {"lock1"} \/ (pc[t] \in Updating /\ hbp[t][2] # None)
  PROVE  /\ el[t] \in Elems /\ htp[t] \in Insts /\ ht_new[htp[t]] \in Insts
         /\ ht_new[htp[t]] = htp[t] + 1
<1>1. TypeOK /\ ResizerInv /\ ThreadInv /\ LockInv
  BY DEF IInv
<1>2. el[t] \in Elems /\ htp[t] \in Insts /\ Bkt(htp[t], el[t]) <= ht_resize_cur[htp[t]]
  BY <1>1 DEF ThreadInv, LockInv, Updating
<1>3. Bkt(htp[t], el[t]) \in Nat
  <2>1. htp[t] \in Nat
    BY <1>2, Numbers
  <2> QED BY <1>2, <2>1, Buckets
<1>4. ht_resize_cur[htp[t]] # -1
  BY <1>1, <1>2, <1>3 DEF TypeOK
<1>5. htp[t] < ht_cur \/ (htp[t] = ht_cur /\ rpc \in Busy)
  BY <1>1, <1>2, <1>4, Numbers DEF ResizerInv, ThreadInv, Busy
<1>6. ht_new[htp[t]] = htp[t] + 1
  BY <1>1, <1>2, <1>5 DEF ResizerInv
<1>7. htp[t] + 1 \in Insts
  BY <1>1, <1>2, <1>5, Numbers DEF TypeOK, ResizerInv, Insts
<1> QED BY <1>2, <1>6, <1>7

LEMMA InitType == Init => TypeOK
  BY Numbers, HashResizeAssumption DEF Init, TypeOK, Busy, Locking

\* Every variable keeps its type; that the instances read from ht_new and the
\* slots written exist needs the rest of the invariant.
LEMMA TypeStep == IInv /\ [Next]_vars => TypeOK'
<1> SUFFICES ASSUME IInv, [Next]_vars PROVE TypeOK'
  OBVIOUS
<1> TypeOK /\ ResizerInv /\ ThreadInv /\ LockInv
  BY DEF IInv
<1>p. ASSUME NEW h \in Nat PROVE h % 2 \in {0, 1} /\ 1 - (h % 2) \in {0, 1}
  OBVIOUS
<1> USE Numbers DEF TypeOK, Locking, Busy, tabvars, rvars, tvars, Goto
<1>1. ASSUME NEW t \in Threads, NEW e \in Elems, LookupDeref(t, e) PROVE TypeOK'
  BY <1>1 DEF LookupDeref
<1>2. ASSUME NEW t \in Threads, NEW e \in Elems, NEW o \in {"add", "del"}, ModCall(t, o, e)
      PROVE  TypeOK'
  BY <1>2 DEF ModCall
<1>3. ASSUME NEW t \in Threads, NEW from, LookupReturn(t, from) PROVE TypeOK'
  BY <1>3 DEF LookupReturn, Leave
<1>4. ASSUME NEW t \in Threads, SearchCur(t) PROVE TypeOK'
  <2>1. CASE LookupReturn(t, "search")
    BY <1>3, <2>1
  <2>2. CASE /\ Goto(t, "search", "again")
             /\ UNCHANGED <<tabvars, link, htb_lock, mem, defer, op, el, htp, hbp, rcu, expect, rvars>>
    BY <2>2
  <2> QED BY <1>4, <2>1, <2>2 DEF SearchCur
<1>5. ASSUME NEW t \in Threads, Lock0(t) PROVE TypeOK'
  BY <1>5 DEF Lock0
<1>6. ASSUME NEW t \in Threads, Lock1(t) PROVE TypeOK'
  <2>1. htp[t] \in Insts /\ ht_new[htp[t]] \in Insts \union {None}
    BY <1>6 DEF Lock1, ThreadInv
  <2> QED BY <1>6, <2>1 DEF Lock1
<1>7. ASSUME NEW t \in Threads, ModLookup(t) PROVE TypeOK'
  BY <1>7 DEF ModLookup
<1>8. ASSUME NEW t \in Threads, Add0(t) \/ Add1(t) \/ Del0(t) \/ Del1(t) PROVE TypeOK'
  <2>1. el[t] \in Elems /\ htp[t] \in Insts /\ idx(t) \in {0, 1} /\ 1 - idx(t) \in {0, 1}
    <3>1. hbp[t][1] = htp[t] \/ hbp[t][1] = htp[t] + 1
      BY <1>8 DEF Add0, Add1, Del0, Del1, Update, LockInv, Updating
    <3>2. el[t] \in Elems /\ htp[t] \in Insts
      BY <1>8 DEF Add0, Add1, Del0, Del1, Update, ThreadInv
    <3>3. htp[t] \in Nat
      BY <3>2
    <3> QED BY <3>1, <3>2, <3>3, <1>p DEF idx
  <2>2. hbp[t][1] \in Insts \union {None} /\ hbp[t][2] \in Insts \union {None}
    OBVIOUS
  <2>3. CASE Add0(t)
    BY <2>1, <2>2, <2>3 DEF Add0, Update
  <2>4. CASE Add1(t)
    BY <2>1, <2>2, <2>4 DEF Add1, Update
  <2>5. CASE Del0(t)
    BY <2>1, <2>2, <2>5 DEF Del0, Update
  <2>6. CASE Del1(t)
    BY <2>1, <2>2, <2>6 DEF Del1, Update
  <2> QED BY <1>8, <2>3, <2>4, <2>5, <2>6
<1>9. ASSUME NEW t \in Threads, Unlock(t) PROVE TypeOK'
  BY <1>9 DEF Unlock, Leave
<1>10. ASSUME NEW e \in Elems, DeferDone(e) PROVE TypeOK'
  BY <1>10 DEF DeferDone
<1>c. rpc \in Busy => ht_cur + 1 \in Insts
  BY DEF ResizerInv, Insts
<1>11. CASE ResizeCall
  <2>1. ht_cur + 1 \in Insts
    BY <1>11 DEF ResizeCall, Insts
  <2> QED BY <1>11, <2>1 DEF ResizeCall, RGoto
<1>12. CASE Sync1
  BY <1>12 DEF Sync1, RGoto
<1>13. CASE ResizeLock
  BY <1>13 DEF ResizeLock, RGoto
<1>14. CASE ResizeMove
  <2>1. ht_cur + 1 \in Insts /\ (ht_cur + 1) % 2 \in {0, 1}
    BY <1>14, <1>c, <1>p DEF ResizeMove, RGoto
  <2> QED BY <1>14, <2>1 DEF ResizeMove, RGoto
<1>15. CASE ResizeNext
  <2>1. ri \in Int /\ ht_cur \in Insts
    OBVIOUS
  <2>2. /\ ht_resize_cur' \in [Insts -> Int]
        /\ htb_lock' \in [AllBuckets -> Threads \union {Resizer, None}]
    BY <1>15, <2>1 DEF ResizeNext
  <2>3. rpc' \in {"lock", "switch"} /\ ri' \in Int
    BY <1>15, <2>1 DEF ResizeNext
  <2> QED BY <1>15, <2>2, <2>3 DEF ResizeNext
<1>16. CASE Switch
  BY <1>16, <1>c DEF Switch, RGoto
<1>17. CASE Sync2
  <2>1. ht_cur - 1 \in Insts
    BY <1>17 DEF Sync2, RGoto, ResizerInv, Insts
  <2> QED BY <1>17, <2>1 DEF Sync2, RGoto
<1>18. CASE UNCHANGED vars
  BY <1>18 DEF vars
<1> QED
  BY <1>1, <1>2, <1>3, <1>4, <1>5, <1>6, <1>7, <1>8, <1>9, <1>10, <1>11, <1>12, <1>13,
     <1>14, <1>15, <1>16, <1>17, <1>18, NextCases DEF Search, SearchNew

-----------------------------------------------------------------------------
\* A thread changes nothing of what the resizer has done, and takes no lock
\* that is held.
LEMMA ResizerStep == IInv /\ [Next]_vars => ResizerInv'
<1> SUFFICES ASSUME IInv, [Next]_vars PROVE ResizerInv'
  OBVIOUS
<1>i. TypeOK /\ ResizerInv /\ ThreadInv /\ LockInv
  BY DEF IInv
<1> USE Numbers DEF ResizerInv, Busy, tabvars, rvars, tvars, Goto
<1>b. rpc \in {"lock", "move"} => <<ht_cur, ri>> \in AllBuckets
  BY <1>i DEF TypeOK, AllBuckets
<1>f. ASSUME UNCHANGED <<tabvars, rpc, ri>>,
             rpc = "move" => htb_lock'[<<ht_cur, ri>>] = htb_lock[<<ht_cur, ri>>]
      PROVE  ResizerInv'
  BY <1>i, <1>f
<1>1. ASSUME NEW t \in Threads, NEW e \in Elems, LookupDeref(t, e) PROVE ResizerInv'
  BY <1>1, <1>f DEF LookupDeref
<1>2. ASSUME NEW t \in Threads, NEW e \in Elems, NEW o \in {"add", "del"}, ModCall(t, o, e)
      PROVE  ResizerInv'
  BY <1>2, <1>f DEF ModCall
<1>3. ASSUME NEW t \in Threads, NEW from, LookupReturn(t, from) PROVE ResizerInv'
  BY <1>3, <1>f DEF LookupReturn, Leave
<1>4. ASSUME NEW t \in Threads, SearchCur(t) PROVE ResizerInv'
  BY <1>4, <1>3, <1>f DEF SearchCur
<1>l. ASSUME NEW b \in AllBuckets, NEW t \in Threads, htb_lock[b] = None,
             htb_lock' = [htb_lock EXCEPT ![b] = t], UNCHANGED <<tabvars, rpc, ri>>
      PROVE  ResizerInv'
  <2>1. rpc = "move" => htb_lock'[<<ht_cur, ri>>] = htb_lock[<<ht_cur, ri>>]
    BY <1>i, <1>b, <1>l DEF TypeOK
  <2> QED BY <2>1, <1>l, <1>f
<1>5. ASSUME NEW t \in Threads, Lock0(t) PROVE ResizerInv'
  <2>1. ht_get_bucket(htp[t], el[t]) \in AllBuckets
    BY <1>5, <1>i, Buckets DEF Lock0, ThreadInv
  <2> QED BY <2>1, <1>5, <1>l DEF Lock0
<1>6. ASSUME NEW t \in Threads, Lock1(t) PROVE ResizerInv'
  <2>1. ht_new[htp[t]] \in Insts /\ el[t] \in Elems
    BY <1>6, NewInstance DEF Lock1
  <2>2. ht_get_bucket(ht_new[htp[t]], el[t]) \in AllBuckets
    BY <2>1, Buckets
  <2> QED BY <2>2, <1>6, <1>l DEF Lock1
<1>7. ASSUME NEW t \in Threads, ModLookup(t) PROVE ResizerInv'
  BY <1>7, <1>f DEF ModLookup
<1>8. ASSUME NEW t \in Threads, Add0(t) \/ Add1(t) \/ Del0(t) \/ Del1(t) PROVE ResizerInv'
  <2>1. UNCHANGED <<tabvars, htb_lock, rpc, ri>>
    BY <1>8 DEF Add0, Add1, Del0, Del1, Update
  <2> QED BY <2>1, <1>f
<1>9. ASSUME NEW t \in Threads, Unlock(t) PROVE ResizerInv'
  <2>1. ASSUME rpc = "move" PROVE htb_lock'[<<ht_cur, ri>>] = htb_lock[<<ht_cur, ri>>]
    <3>1. <<ht_cur, ri>> \in AllBuckets /\ htb_lock[<<ht_cur, ri>>] # t
      BY <1>i, <1>b, <2>1
    <3> QED BY <1>9, <3>1 DEF Unlock, Held
  <2> QED BY <2>1, <1>9, <1>f DEF Unlock
<1>10. ASSUME NEW e \in Elems, DeferDone(e) PROVE ResizerInv'
  BY <1>10, <1>f DEF DeferDone
<1>11. CASE ResizeCall
  BY <1>i, <1>11 DEF ResizeCall, RGoto, Insts, TypeOK
<1>12. CASE Sync1
  <2>1. ht_nbuckets(ht_cur) \in Nat \ {0}
    BY <1>i, HashResizeAssumption DEF TypeOK, ht_nbuckets
  <2> QED BY <1>i, <1>12, <2>1 DEF Sync1, RGoto, TypeOK
<1>13. CASE ResizeLock
  BY <1>i, <1>b, <1>13 DEF ResizeLock, RGoto, TypeOK
<1>14. CASE ResizeMove
  BY <1>i, <1>14, <1>f DEF ResizeMove, RGoto
<1>15. CASE ResizeNext
  <2>1. ht_nbuckets(ht_cur) \in Nat \ {0}
    BY <1>i, HashResizeAssumption DEF TypeOK, ht_nbuckets
  <2>2. CASE ri + 1 < ht_nbuckets(ht_cur)
    BY <1>i, <1>15, <2>1, <2>2 DEF ResizeNext, TypeOK
  <2>3. CASE ~ (ri + 1 < ht_nbuckets(ht_cur))
    BY <1>i, <1>15, <2>1, <2>3 DEF ResizeNext, TypeOK
  <2> QED BY <2>2, <2>3
<1>16. CASE Switch
  <2>1. /\ rpc = "switch" /\ rpc' = "sync2" /\ ht_cur \in Nat /\ ht_cur' = ht_cur + 1
        /\ UNCHANGED <<ht_new, ht_resize_cur, freed>>
    BY <1>i, <1>16 DEF Switch, RGoto, TypeOK
  <2>2. \A g \in Insts : g \in Nat /\ (g < ht_cur' <=> g < ht_cur \/ g = ht_cur)
    BY <2>1
  <2> QED BY <1>i, <2>1, <2>2
<1>17. CASE Sync2
  BY <1>i, <1>17 DEF Sync2, RGoto, TypeOK
<1>18. CASE UNCHANGED vars
  BY <1>18, <1>f DEF vars
<1> QED
  BY <1>1, <1>2, <1>3, <1>4, <1>5, <1>6, <1>7, <1>8, <1>9, <1>10, <1>11, <1>12, <1>13,
     <1>14, <1>15, <1>16, <1>17, <1>18, NextCases DEF Search, SearchNew

\* A thread enters with the current instance; only Switch makes it the one
\* before, and Sync2 waits until no thread is left that uses that one.
LEMMA ThreadStepInv ==
  ASSUME ~ Shared, IInv, [Next]_vars
  PROVE  ThreadInv'
<1>i. TypeOK /\ TypeOK' /\ ResizerInv /\ ThreadInv
  BY TypeStep DEF IInv
<1> USE Numbers DEF ThreadInv, tabvars, rvars, tvars, Goto, Locking
<1>f. ASSUME UNCHANGED <<impl, ht_cur, rpc, rgp, pc, op, el, htp, rcu>> PROVE ThreadInv'
  BY <1>i, <1>f
\* A step of thread t from one location of a call to another
<1>m. ASSUME NEW t \in Threads, NEW from, NEW to, Goto(t, from, to), from # "idle", to # "idle",
             UNCHANGED <<impl, ht_cur, rpc, rgp, op, el, htp, rcu>>,
             to \in {"lock0", "lock1", "mod", "add0", "add1", "del0", "del1", "unlock"} =>
               from \in {"lock0", "lock1", "mod", "add0", "add1", "del0", "del1", "unlock"},
             to = "again" => impl = "hash_resize_s"
      PROVE  ThreadInv'
  BY <1>i, <1>m DEF TypeOK
<1>1. ASSUME NEW t \in Threads, NEW e \in Elems, LookupDeref(t, e) PROVE ThreadInv'
  BY <1>i, <1>1 DEF LookupDeref, TypeOK
<1>2. ASSUME NEW t \in Threads, NEW e \in Elems, NEW o \in {"add", "del"}, ModCall(t, o, e)
      PROVE  ThreadInv'
  BY <1>i, <1>2 DEF ModCall, TypeOK
<1>3. ASSUME NEW t \in Threads, NEW from, LookupReturn(t, from) PROVE ThreadInv'
  BY <1>i, <1>3 DEF LookupReturn, Leave, TypeOK
<1>4. ASSUME NEW t \in Threads, impl = "hash_resize_s", SearchCur(t) PROVE ThreadInv'
  <2>1. CASE Goto(t, "search", "again") /\ UNCHANGED <<tabvars, rvars, op, el, htp, rcu>>
    BY <1>4, <2>1, <1>m
  <2> QED BY <1>3, <1>4, <2>1 DEF SearchCur
<1>5. ASSUME NEW t \in Threads, Lock0(t) PROVE ThreadInv'
  BY <1>5, <1>m DEF Lock0
<1>6. ASSUME NEW t \in Threads, Lock1(t) PROVE ThreadInv'
  BY <1>6, <1>m DEF Lock1
<1>7. ASSUME NEW t \in Threads, ModLookup(t) PROVE ThreadInv'
  <2>1. \E to \in {"add0", "del0", "unlock"} : Goto(t, "mod", to)
    BY <1>7 DEF ModLookup
  <2> QED BY <1>7, <2>1, <1>m DEF ModLookup
<1>8. ASSUME NEW t \in Threads, Add0(t) \/ Add1(t) \/ Del0(t) \/ Del1(t) PROVE ThreadInv'
  <2>1. \E from \in {"add0", "add1", "del0", "del1"}, to \in {"add1", "del1", "unlock"} :
          Goto(t, from, to)
    BY <1>8 DEF Add0, Add1, Del0, Del1, Update
  <2>2. UNCHANGED <<impl, ht_cur, rpc, rgp, op, el, htp, rcu>>
    BY <1>8 DEF Add0, Add1, Del0, Del1, Update
  <2> QED BY <2>1, <2>2, <1>m
<1>9. ASSUME NEW t \in Threads, Unlock(t) PROVE ThreadInv'
  BY <1>i, <1>9 DEF Unlock, Leave, TypeOK
<1>10. ASSUME NEW e \in Elems, DeferDone(e) PROVE ThreadInv'
  BY <1>10, <1>f DEF DeferDone
<1>r. ASSUME UNCHANGED <<impl, ht_cur, pc, op, el, htp, rcu>>, rpc # "sync2"
      PROVE  ThreadInv'
  BY <1>i, <1>r
<1>11. CASE ResizeCall \/ Sync1 \/ ResizeLock \/ ResizeMove \/ ResizeNext
  BY <1>11, <1>r DEF ResizeCall, Sync1, ResizeLock, ResizeMove, ResizeNext, RGoto
<1>12. CASE Switch
  BY <1>i, <1>12 DEF Switch, RGoto, TypeOK
<1>13. CASE Sync2
  BY <1>i, <1>13 DEF Sync2, RGoto
<1>14. CASE UNCHANGED vars
  BY <1>14, <1>f DEF vars
<1> QED
  BY <1>1, <1>2, <1>3, <1>4, <1>5, <1>6, <1>7, <1>8, <1>9, <1>10, <1>11, <1>12, <1>13,
     <1>14, NextCases DEF Search, SearchNew

\* A held bucket is not locked again, and the resizer passes no bucket an
\* updater holds.
LEMMA LockStep ==
  ASSUME IInv, [Next]_vars
  PROVE  LockInv'
<1>i. TypeOK /\ TypeOK' /\ ResizerInv /\ ThreadInv /\ LockInv
  BY TypeStep DEF IInv
<1>b. ASSUME NEW t \in Threads, pc[t] # "idle"
      PROVE  /\ htp[t] \in Insts /\ el[t] \in Elems
             /\ ht_get_bucket(htp[t], el[t]) = <<htp[t], Bkt(htp[t], el[t])>>
             /\ ht_get_bucket(htp[t], el[t]) \in AllBuckets
             /\ Bkt(htp[t], el[t]) \in Nat /\ ht_resize_cur[htp[t]] \in Int
  <2>1. htp[t] \in Insts /\ el[t] \in Elems /\ htp[t] \in Nat
    BY <1>i, <1>b, Numbers DEF ThreadInv
  <2>2. ht_resize_cur[htp[t]] \in Int
    BY <1>i, <2>1 DEF TypeOK
  <2> QED BY <2>1, <2>2, Buckets
<1> USE Numbers DEF LockInv, tabvars, rvars, tvars, Goto, Locking, Updating
\* A step that leaves the locks of the threads in their calls alone
<1>f. ASSUME UNCHANGED <<impl, ht_resize_cur>>,
             \A t \in Threads : pc'[t] \in Locking =>
               /\ pc[t] \in Locking /\ (pc'[t] = "lock1" <=> pc[t] = "lock1")
               /\ htb_lock'[ht_get_bucket(htp[t], el[t])] = t
               /\ htp'[t] = htp[t] /\ el'[t] = el[t] /\ hbp'[t] = hbp[t]
      PROVE  LockInv'
  BY <1>i, <1>f
<1>1. ASSUME NEW t \in Threads, NEW e \in Elems, LookupDeref(t, e) PROVE LockInv'
  BY <1>i, <1>1, <1>f DEF LookupDeref, TypeOK
<1>2. ASSUME NEW t \in Threads, NEW e \in Elems, NEW o \in {"add", "del"}, ModCall(t, o, e)
      PROVE  LockInv'
  BY <1>i, <1>2, <1>f DEF ModCall, TypeOK
<1>3. ASSUME NEW t \in Threads, NEW from, LookupReturn(t, from) PROVE LockInv'
  BY <1>i, <1>3, <1>f DEF LookupReturn, Leave, TypeOK
<1>4. ASSUME NEW t \in Threads, SearchCur(t) PROVE LockInv'
  <2>1. CASE Goto(t, "search", "again") /\ UNCHANGED <<tabvars, htb_lock, op, el, htp, hbp>>
    BY <1>i, <2>1, <1>f DEF TypeOK
  <2> QED BY <1>3, <1>4, <2>1 DEF SearchCur
<1>5. ASSUME NEW t \in Threads, Lock0(t) PROVE LockInv'
  <2> DEFINE b == ht_get_bucket(htp[t], el[t])
  <2>1. b \in AllBuckets /\ b[2] = Bkt(htp[t], el[t])
    BY <1>5, <1>b DEF Lock0, Bkt
  <2>2. /\ pc[t] = "lock0" /\ htb_lock[b] = None /\ htb_lock' = [htb_lock EXCEPT ![b] = t]
        /\ hbp' = [hbp EXCEPT ![t] = <<htp[t], None>>]
        /\ pc' = [pc EXCEPT ![t] = IF b[2] > ht_resize_cur[htp[t]] THEN "mod" ELSE "lock1"]
        /\ UNCHANGED <<impl, ht_resize_cur, htp, el>>
    BY <1>5 DEF Lock0
  <2>3. ASSUME NEW u \in Threads, u # t, pc[u] \in Locking
        PROVE  htb_lock'[ht_get_bucket(htp[u], el[u])] = u
    BY <1>i, <1>b, <2>2, <2>3 DEF TypeOK
  <2>4. htb_lock'[b] = t
    BY <1>i, <2>1, <2>2 DEF TypeOK
  <2>5. Bkt(htp[t], el[t]) \in Nat /\ ht_resize_cur[htp[t]] \in Int
    BY <1>b, <2>2
  <2> HIDE DEF b
  <2>6. /\ pc' \in [Threads -> {"idle", "search", "again", "lock0"} \union Locking]
        /\ hbp'[t][1] = htp[t] /\ hbp'[t][2] = None
        /\ pc'[t] = IF b[2] > ht_resize_cur[htp[t]] THEN "mod" ELSE "lock1"
        /\ \A u \in Threads : u # t => pc'[u] = pc[u] /\ hbp'[u] = hbp[u]
    BY <1>i, <2>2 DEF TypeOK
  <2> QED BY <1>i, <2>1, <2>2, <2>3, <2>4, <2>5, <2>6 DEF b
<1>6. ASSUME NEW t \in Threads, Lock1(t) PROVE LockInv'
  <2> DEFINE b == ht_get_bucket(ht_new[htp[t]], el[t])
  <2>1. /\ pc[t] = "lock1" /\ htb_lock[b] = None /\ htb_lock' = [htb_lock EXCEPT ![b] = t]
        /\ hbp' = [hbp EXCEPT ![t] = IF impl = "hash_resize" THEN <<@[1], ht_new[htp[t]]>>
                                                             ELSE <<ht_new[htp[t]], @[1]>>]
        /\ pc' = [pc EXCEPT ![t] = "mod"]
        /\ UNCHANGED <<impl, ht_resize_cur, htp, el>>
    BY <1>6 DEF Lock1
  <2>2. ht_new[htp[t]] = htp[t] + 1 /\ htp[t] \in Nat /\ htp[t] # None /\ htp[t] + 1 # None
    BY <2>1, NewInstance
  <2> HIDE DEF b
  <2>3. ASSUME NEW u \in Threads, pc[u] \in Locking
        PROVE  htb_lock'[ht_get_bucket(htp[u], el[u])] = u
    BY <1>i, <1>b, <2>1, <2>3 DEF TypeOK
  <2>4. /\ pc'[t] = "mod"
        /\ hbp'[t][1] = IF impl = "hash_resize" THEN htp[t] ELSE htp[t] + 1
        /\ hbp'[t][2] = IF impl = "hash_resize" THEN htp[t] + 1 ELSE htp[t]
        /\ \A u \in Threads : u # t => pc'[u] = pc[u] /\ hbp'[u] = hbp[u]
    BY <1>i, <2>1, <2>2 DEF TypeOK
  <2>5. ASSUME NEW u \in Threads, u # t, pc'[u] \in Locking
        PROVE  LockInv!(u)'
    BY <1>i, <2>1, <2>3, <2>4, <2>5
  <2>6. LockInv!(t)'
    BY <1>i, <2>1, <2>2, <2>3, <2>4
  <2> QED BY <2>5, <2>6
<1>7. ASSUME NEW t \in Threads, ModLookup(t) PROVE LockInv'
  <2>1. \E to \in {"add0", "del0", "unlock"} : Goto(t, "mod", to)
    BY <1>7 DEF ModLookup
  <2> QED BY <1>i, <1>7, <2>1, <1>f DEF ModLookup, TypeOK
<1>8. ASSUME NEW t \in Threads, Add0(t) \/ Add1(t) \/ Del0(t) \/ Del1(t) PROVE LockInv'
  <2>1. \E from \in {"add0", "add1", "del0", "del1"}, to \in {"add1", "del1", "unlock"} :
          Goto(t, from, to)
    BY <1>8 DEF Add0, Add1, Del0, Del1, Update
  <2>2. UNCHANGED <<impl, ht_resize_cur, htb_lock, el, htp, hbp>>
    BY <1>8 DEF Add0, Add1, Del0, Del1, Update
  <2> QED BY <1>i, <2>1, <2>2, <1>f DEF TypeOK
<1>9. ASSUME NEW t \in Threads, Unlock(t) PROVE LockInv'
  <2>1. /\ pc' = [pc EXCEPT ![t] = "idle"] /\ htp' = [htp EXCEPT ![t] = None]
        /\ el' = [el EXCEPT ![t] = None] /\ hbp' = [hbp EXCEPT ![t] = <<None, None>>]
        /\ htb_lock' = [b \in AllBuckets |-> IF b \in Held(t) THEN None ELSE htb_lock[b]]
        /\ UNCHANGED <<impl, ht_resize_cur>>
    BY <1>9 DEF Unlock, Leave
  <2>2. ASSUME NEW u \in Threads, u # t, pc[u] \in Locking
        PROVE  htb_lock'[ht_get_bucket(htp[u], el[u])] = u
    BY <1>i, <1>b, <2>1, <2>2 DEF Held
  <2> QED BY <1>i, <2>1, <2>2, <1>f DEF TypeOK
<1>10. ASSUME NEW e \in Elems, DeferDone(e) PROVE LockInv'
  BY <1>i, <1>10, <1>f DEF DeferDone
<1>11. CASE ResizeCall \/ Sync1 \/ ResizeMove \/ Switch \/ Sync2
  <2>1. UNCHANGED <<impl, ht_resize_cur, htb_lock, pc, el, htp, hbp>>
    BY <1>11 DEF ResizeCall, Sync1, ResizeMove, Switch, Sync2
  <2> QED BY <1>i, <2>1, <1>f
<1>12. CASE ResizeLock
  <2>1. \A u \in Threads : pc[u] \in Locking => htb_lock'[ht_get_bucket(htp[u], el[u])] = u
    BY <1>i, <1>b, <1>12 DEF ResizeLock, TypeOK
  <2> QED BY <1>i, <1>12, <2>1, <1>f DEF ResizeLock
<1>13. CASE ResizeNext
  <2>1. /\ rpc = "move" /\ htb_lock[<<ht_cur, ri>>] = Resizer
        /\ ht_cur \in Insts /\ ri \in Nat /\ ht_resize_cur[ht_cur] = ri - 1
    BY <1>i, <1>13 DEF ResizeNext, ResizerInv, TypeOK
  <2>2. ASSUME NEW u \in Threads, pc[u] \in Locking
        PROVE  /\ ht_get_bucket(htp[u], el[u]) # <<ht_cur, ri>>
               /\ htb_lock'[ht_get_bucket(htp[u], el[u])] = u
    BY <1>i, <1>b, <1>13, <2>1, <2>2 DEF ResizeNext, TypeOK
  <2>3. ASSUME NEW u \in Threads, pc[u] \in Locking
        PROVE  /\ Bkt(htp[u], el[u]) <= ht_resize_cur[htp[u]] <=> Bkt(htp[u], el[u]) <= ht_resize_cur'[htp[u]]
               /\ Bkt(htp[u], el[u]) > ht_resize_cur[htp[u]] <=> Bkt(htp[u], el[u]) > ht_resize_cur'[htp[u]]
    <3>1. htp[u] = ht_cur => Bkt(htp[u], el[u]) # ri
      BY <1>b, <2>2, <2>3
    <3>2. ht_resize_cur'[htp[u]] = IF htp[u] = ht_cur THEN ri ELSE ht_resize_cur[htp[u]]
      BY <1>i, <1>b, <1>13, <2>1, <2>3 DEF ResizeNext, TypeOK
    <3>3. Bkt(htp[u], el[u]) \in Nat /\ ht_resize_cur[htp[u]] \in Int
      BY <1>b, <2>3
    <3> QED BY <2>1, <3>1, <3>2, <3>3
  <2> QED BY <1>i, <1>13, <2>2, <2>3 DEF ResizeNext
<1>14. CASE UNCHANGED vars
  BY <1>i, <1>14, <1>f DEF vars
<1> QED
  BY <1>1, <1>2, <1>3, <1>4, <1>5, <1>6, <1>7, <1>8, <1>9, <1>10, <1>11, <1>12, <1>13,
     <1>14, NextCases DEF Search, SearchNew

-----------------------------------------------------------------------------
\* What the parts of the invariant say together

\* Two successive instances use the two hte_next of an element.
LEMMA Slots ==
  ASSUME NEW g \in Nat
  PROVE  /\ g % 2 \in {0, 1} /\ (g + 1) % 2 \in {0, 1}
         /\ (g + 1) % 2 = 1 - (g % 2) /\ 1 - ((g + 1) % 2) = g % 2
         /\ (g + 1) % 2 # g % 2
  OBVIOUS

\* Elements are moved only while a resize is on its way to the next instance.
LEMMA MovedBusy ==
  ASSUME IInv, NEW e \in Elems, Moved(e)
  PROVE  rpc \in Busy /\ ht_new[ht_cur] = ht_cur + 1 /\ ht_cur + 1 \in Insts
<1>1. TypeOK /\ ResizerInv
  BY DEF IInv
<1>2. ht_cur \in Insts /\ ht_cur \in Nat /\ Bkt(ht_cur, e) \in Nat
  <2>1. ht_cur \in Insts /\ ht_cur \in Nat
    BY <1>1, Numbers DEF TypeOK
  <2> QED BY <2>1, Buckets
<1>3. rpc \in Busy
  BY <1>1, <1>2 DEF Moved, ResizerInv, Busy
<1> QED BY <1>1, <1>2, <1>3, Numbers DEF ResizerInv, Insts

\* The bucket an updater holds alone has not been moved.
LEMMA HeldUnmoved ==
  ASSUME IInv, NEW t \in Threads, pc[t] \in Updating, hbp[t][2] = None
  PROVE  /\ htp[t] = ht_cur /\ hbp[t][1] = ht_cur
         /\ el[t] \in Elems /\ ~ Moved(el[t])
<1>1. TypeOK /\ ResizerInv /\ ThreadInv /\ LockInv
  BY DEF IInv
<1>2. /\ el[t] \in Elems /\ htp[t] \in Insts /\ hbp[t][1] = htp[t]
      /\ Bkt(htp[t], el[t]) > ht_resize_cur[htp[t]]
      /\ htb_lock[ht_get_bucket(htp[t], el[t])] = t
      /\ htp[t] = ht_cur \/ (rpc = "sync2" /\ htp[t] = ht_cur - 1)
  BY <1>1 DEF ThreadInv, LockInv, Updating, Locking
<1>3. htp[t] \in Nat /\ ht_cur \in Nat
  BY <1>1, <1>2, Numbers DEF TypeOK
<1>4. /\ Bkt(htp[t], el[t]) \in 0 .. ht_nbuckets(htp[t]) - 1 /\ ht_nbuckets(htp[t]) \in Nat
      /\ ht_get_bucket(htp[t], el[t]) = <<htp[t], Bkt(htp[t], el[t])>>
  BY <1>2, <1>3, Buckets
<1>5. htp[t] = ht_cur
  <2>1. htp[t] < ht_cur => ht_resize_cur[htp[t]] = ht_nbuckets(htp[t]) - 1
    <3>1. ht_resize_cur[htp[t]] =
            CASE htp[t] < ht_cur \/ (htp[t] = ht_cur /\ rpc = "switch") -> ht_nbuckets(htp[t]) - 1
              [] htp[t] = ht_cur /\ rpc \in {"lock", "move"}             -> ri - 1
              [] OTHER                                                   -> -1
      BY <1>1, <1>2 DEF ResizerInv
    <3> QED BY <1>3, <3>1
  <2> QED BY <1>2, <1>3, <1>4, <2>1
<1>6. ~ (rpc = "move" /\ Bkt(ht_cur, el[t]) = ri)
  BY <1>1, <1>2, <1>4, <1>5, Numbers DEF ResizerInv
<1>7. ht_resize_cur[ht_cur] \in Int
  BY <1>1 DEF TypeOK
<1> QED BY <1>2, <1>4, <1>5, <1>6, <1>7 DEF Moved

\* One that holds two buckets has its element moved, or the resize has ended.
LEMMA HeldMoved ==
  ASSUME IInv, NEW t \in Threads, pc[t] \in Updating, hbp[t][2] # None
  PROVE  /\ el[t] \in Elems /\ htp[t] \in Insts /\ htp[t] \in Nat
         /\ \/ htp[t] = ht_cur /\ Moved(el[t])
            \/ ht_cur = htp[t] + 1 /\ rpc = "sync2"
         /\ IF impl = "hash_resize" THEN hbp[t][1] = htp[t] /\ hbp[t][2] = htp[t] + 1
                                    ELSE hbp[t][1] = htp[t] + 1 /\ hbp[t][2] = htp[t]
<1>1. TypeOK /\ ThreadInv /\ LockInv
  BY DEF IInv
<1>2. /\ el[t] \in Elems /\ htp[t] \in Insts
      /\ Bkt(htp[t], el[t]) <= ht_resize_cur[htp[t]]
      /\ htp[t] = ht_cur \/ (rpc = "sync2" /\ htp[t] = ht_cur - 1)
      /\ IF impl = "hash_resize" THEN hbp[t][1] = htp[t] /\ hbp[t][2] = htp[t] + 1
                                 ELSE hbp[t][1] = htp[t] + 1 /\ hbp[t][2] = htp[t]
  BY <1>1 DEF ThreadInv, LockInv, Updating, Locking
<1>3. htp[t] \in Nat /\ ht_cur \in Nat
  BY <1>1, <1>2, Numbers DEF TypeOK
<1> QED BY <1>2, <1>3 DEF Moved

\* A lookup through ht_cur finds what is in the table and nothing else.
LEMMA FoundWhenLive ==
  ASSUME IInv, NEW e \in Elems
  PROVE  /\ mem[e] = "live" =>
              InList(ht_cur, e) \/ (impl = "hash_resize_s" /\ InNew(ht_cur, e))
         /\ mem[e] \in Dead => ~ InList(ht_cur, e) /\ ~ InNew(ht_cur, e)
<1>1. TypeOK /\ ResizerInv /\ MemInv
  BY DEF IInv
<1>2. ht_cur \in Insts /\ ht_cur \in Nat
  BY <1>1, Numbers DEF TypeOK
<1>3. ht_new[ht_cur] \in {None, ht_cur + 1}
  BY <1>1, <1>2 DEF ResizerInv
<1>4. ASSUME mem[e] = "live"
      PROVE  InList(ht_cur, e) \/ (impl = "hash_resize_s" /\ InNew(ht_cur, e))
  <2>1. CASE Moved(e)
    <3>1. ht_new[ht_cur] = ht_cur + 1 /\ ht_cur + 1 # None
      BY <1>2, <2>1, MovedBusy DEF None
    <3> QED BY <1>1, <1>4, <2>1, <3>1 DEF MemInv, Linked, InNew
  <2>2. CASE ~ Moved(e)
    BY <1>1, <1>4, <2>2 DEF MemInv
  <2> QED BY <2>1, <2>2
<1>5. ASSUME mem[e] \in Dead PROVE ~ InList(ht_cur, e) /\ ~ InNew(ht_cur, e)
  BY <1>1, <1>3, <1>5 DEF MemInv, InNew
<1> QED BY <1>4, <1>5

-----------------------------------------------------------------------------
\* What one step changes of a thread and of an element

Same(t) ==
  /\ pc'[t] = pc[t] /\ op'[t] = op[t] /\ el'[t] = el[t] /\ htp'[t] = htp[t]
  /\ hbp'[t] = hbp[t] /\ rcu'[t] = rcu[t]

\* The steps of an updater that change its element or its place in a list
Changes(t) == ModLookup(t) \/ Add0(t) \/ Add1(t) \/ Del0(t) \/ Del1(t) \/ Unlock(t)

SearchOn(t) ==
  /\ impl = "hash_resize_s" /\ ~ InList(htp[t], el[t])
  /\ Goto(t, "search", "again")
  /\ UNCHANGED <<tabvars, link, htb_lock, mem, defer, op, el, htp, hbp, rcu, expect, rvars>>

Acts(t) ==
  \/ \E e \in Elems : LookupDeref(t, e) \/ ModCall(t, "add", e) \/ ModCall(t, "del", e)
  \/ LookupReturn(t, "search") \/ LookupReturn(t, "again") \/ SearchOn(t)
  \/ Lock0(t) \/ Lock1(t) \/ Changes(t)

\* The steps that are no thread's own
Others ==
  \/ \E e \in Elems : DeferDone(e)
  \/ ResizeCall \/ Sync1 \/ ResizeLock \/ ResizeMove \/ ResizeNext \/ Switch \/ Sync2
  \/ UNCHANGED vars

LEMMA Steps ==
  ASSUME [Next]_vars
  PROVE  (\E t \in Threads : Acts(t)) \/ Others
  BY NextCases DEF Acts, Changes, Others, Search, SearchCur, SearchNew, SearchOn

\* A thread's locals are changed by its own steps only, and its own steps leave
\* the resizer, the other threads and the other elements alone.
LEMMA ThreadFrame ==
  ASSUME TypeOK, NEW t \in Threads, Acts(t)
  PROVE  /\ UNCHANGED <<tabvars, rpc, ri, todo>>
         /\ \A u \in Threads \ {t} : Same(u)
         /\ UNCHANGED <<link, mem>> \/ Changes(t)
<1> USE DEF Same, tabvars, rvars, Goto, TypeOK
<1> DEFINE Goal == /\ UNCHANGED <<tabvars, rpc, ri, todo>>
                   /\ \A u \in Threads \ {t} : Same(u)
                   /\ UNCHANGED <<link, mem>> \/ Changes(t)
<1>1. ASSUME NEW e \in Elems, LookupDeref(t, e) PROVE Goal
  BY <1>1 DEF LookupDeref
<1>2. ASSUME NEW e \in Elems, NEW o, ModCall(t, o, e) PROVE Goal
  BY <1>2 DEF ModCall
<1>3. ASSUME NEW from, LookupReturn(t, from) PROVE Goal
  BY <1>3 DEF LookupReturn, Leave
<1>4. CASE SearchOn(t)
  BY <1>4 DEF SearchOn
<1>5. CASE Lock0(t)
  BY <1>5 DEF Lock0
<1>6. CASE Lock1(t)
  BY <1>6 DEF Lock1
<1>7. CASE ModLookup(t)
  <2>1. \E to \in {"add0", "del0", "unlock"} : Goto(t, "mod", to)
    BY <1>7 DEF ModLookup
  <2> QED BY <1>7, <2>1 DEF ModLookup, Changes
<1>8. CASE Add0(t) \/ Add1(t) \/ Del0(t) \/ Del1(t)
  <2>1. \E from, to \in {"add0", "add1", "del0", "del1", "unlock"} : Goto(t, from, to)
    BY <1>8 DEF Add0, Add1, Del0, Del1, Update
  <2>2. UNCHANGED <<tabvars, op, el, htp, hbp, rcu, rvars>>
    BY <1>8 DEF Add0, Add1, Del0, Del1, Update
  <2> QED BY <1>8, <2>1, <2>2 DEF Changes
<1>9. CASE Unlock(t)
  BY <1>9 DEF Unlock, Leave, Changes
<1> QED BY <1>1, <1>2, <1>3, <1>4, <1>5, <1>6, <1>7, <1>8, <1>9 DEF Acts, Changes

LEMMA OthersFrame ==
  ASSUME Others, NEW u \in Threads
  PROVE  Same(u)
  BY DEF Others, DeferDone, ResizeCall, Sync1, ResizeLock, ResizeMove, ResizeNext, Switch,
         Sync2, vars, tvars, Same

\* Only its updater changes an element, but for the callback of call_rcu() and
\* the resizer's move.
LEMMA ChangesFrame ==
  ASSUME TypeOK, NEW t \in Threads, Changes(t)
  PROVE  /\ pc[t] \in Updating
         /\ \A e \in Elems \ {el[t]} : link'[e] = link[e] /\ mem'[e] = mem[e]
<1> USE DEF Goto, TypeOK, Updating
<1>1. CASE ModLookup(t)
  BY <1>1 DEF ModLookup
<1>2. CASE Add0(t) \/ Add1(t) \/ Del0(t) \/ Del1(t)
  BY <1>2 DEF Add0, Add1, Del0, Del1, Update
<1>3. CASE Unlock(t)
  BY <1>3 DEF Unlock
<1> QED BY <1>1, <1>2, <1>3 DEF Changes

\* While the resizer holds a bucket, no updater is at work on its elements.
LEMMA ResizerAlone ==
  ASSUME IInv, NEW t \in Threads, pc[t] \in Locking,
         \/ rpc = "move" /\ Bkt(ht_cur, el[t]) = ri
         \/ rpc = "lock" /\ Bkt(ht_cur, el[t]) = ri /\ htb_lock[<<ht_cur, ri>>] = None
  PROVE  FALSE
<1>1. TypeOK /\ ResizerInv /\ ThreadInv /\ LockInv
  BY DEF IInv
<1>2. el[t] \in Elems /\ htp[t] = ht_cur /\ htb_lock[ht_get_bucket(htp[t], el[t])] = t
  BY <1>1 DEF ThreadInv, LockInv, Locking
<1>3. ht_cur \in Nat
  BY <1>1, Numbers DEF TypeOK
<1>4. ht_get_bucket(htp[t], el[t]) = <<ht_cur, ri>>
  BY <1>2, <1>3, Buckets
<1> QED BY <1>1, <1>2, <1>4, Numbers DEF ResizerInv

\* A moved element stays moved until the resizer switches to the next instance;
\* an element becomes moved with its move, or with its bucket's being locked
\* while it is not in it.
LEMMA MovedKept ==
  ASSUME IInv, [Next]_vars, NEW e \in Elems, ht_cur' = ht_cur
  PROVE  /\ Moved(e) => Moved(e)'
         /\ Moved(e)' => \/ Moved(e)
                         \/ ResizeLock /\ rpc = "lock" /\ Bkt(ht_cur, e) = ri /\ ~ InList(ht_cur, e)
                         \/ ResizeMove /\ InList(ht_cur + 1, e)'
<1> DEFINE Goal ==
      /\ Moved(e) => Moved(e)'
      /\ Moved(e)' => \/ Moved(e)
                      \/ ResizeLock /\ rpc = "lock" /\ Bkt(ht_cur, e) = ri /\ ~ InList(ht_cur, e)
                      \/ ResizeMove /\ InList(ht_cur + 1, e)'
<1>1. TypeOK /\ TypeOK' /\ ResizerInv
  BY TypeStep DEF IInv
<1>2. ht_cur \in Insts /\ ht_cur \in Nat /\ ht_resize_cur[ht_cur] \in Int
  BY <1>1, Numbers DEF TypeOK
<1>3. Bkt(ht_cur, e) \in Nat /\ Bkt(ht_cur, e)' = Bkt(ht_cur, e)
  <2>1. Bkt(ht_cur, e)' = Bkt(ht_cur, e)
    BY DEF Bkt, ht_get_bucket, ht_nbuckets
  <2> QED BY <1>2, <2>1, Buckets
<1>4. ASSUME UNCHANGED <<ht_resize_cur, rpc, ri, todo>> PROVE Goal
  BY <1>3, <1>4 DEF Moved
<1>5. CASE \E t \in Threads : Acts(t)
  BY <1>1, <1>4, <1>5, ThreadFrame DEF tabvars
<1>6. CASE (\E x \in Elems : DeferDone(x)) \/ UNCHANGED vars
  BY <1>4, <1>6 DEF DeferDone, tabvars, rvars, vars
<1>7. CASE ResizeCall \/ Sync1 \/ Sync2
  BY <1>3, <1>7 DEF ResizeCall, Sync1, Sync2, RGoto, Moved, tabvars
<1>8. CASE ResizeLock
  BY <1>3, <1>8 DEF ResizeLock, RGoto, Moved, tabvars, Bkt
<1>9. CASE ResizeMove
  <2>1. PICK x \in todo : /\ link' = [link EXCEPT ![x][(ht_cur + 1) % 2] = ht_cur + 1]
                          /\ todo' = todo \ {x}
    BY <1>9 DEF ResizeMove
  <2>2. link'[x][(ht_cur + 1) % 2] = ht_cur + 1
    BY <1>1, <1>2, <2>1, Slots DEF TypeOK
  <2>3. rpc = "move" /\ rpc' = "move" /\ UNCHANGED <<ht_resize_cur, ri>>
    BY <1>9 DEF ResizeMove, RGoto, tabvars
  <2>4. InList(ht_cur + 1, x)'
    BY <2>2 DEF InList
  <2> QED BY <1>3, <1>9, <2>1, <2>3, <2>4 DEF Moved
<1>10. CASE ResizeNext
  <2>1. /\ rpc = "move" /\ rpc' # "move" /\ todo = {} /\ ri \in Nat /\ ht_resize_cur[ht_cur] = ri - 1
        /\ ht_resize_cur'[ht_cur] = ri
    BY <1>1, <1>2, <1>10 DEF ResizeNext, ResizerInv, TypeOK
  <2> QED BY <1>2, <1>3, <2>1 DEF Moved
<1>11. CASE Switch
  BY <1>2, <1>11 DEF Switch
<1> QED BY <1>5, <1>6, <1>7, <1>8, <1>9, <1>10, <1>11, Steps DEF Others

\* At the switch every element has been moved, and none has after it.
LEMMA SwitchMoves ==
  ASSUME IInv, [Next]_vars, ht_cur' # ht_cur
  PROVE  /\ Switch /\ ht_cur' = ht_cur + 1 /\ ht_cur \in Nat
         /\ UNCHANGED <<impl, link, mem, defer, htb_lock, pc, op, el, htp, hbp, rcu, expect>>
         /\ rpc = "switch" /\ rpc' = "sync2"
         /\ \A e \in Elems : Moved(e) /\ ~ Moved(e)'
<1>1. TypeOK /\ TypeOK' /\ ResizerInv /\ ResizerInv'
  BY TypeStep, ResizerStep DEF IInv
<1>2. ht_cur \in Insts /\ ht_cur \in Nat /\ ht_cur' \in Insts /\ ht_cur' \in Nat
  BY <1>1, Numbers DEF TypeOK
<1>3. CASE \E t \in Threads : Acts(t)
  BY <1>1, <1>3, ThreadFrame DEF tabvars
<1>4. Switch
  BY <1>3, Steps DEF Others, DeferDone, ResizeCall, Sync1, ResizeLock, ResizeMove,
     ResizeNext, Sync2, vars, tabvars
<1>5. /\ ht_cur' = ht_cur + 1 /\ rpc = "switch" /\ rpc' = "sync2"
      /\ UNCHANGED <<impl, link, mem, defer, htb_lock, pc, op, el, htp, hbp, rcu, expect>>
  BY <1>4 DEF Switch, RGoto, tvars
<1>6. ASSUME NEW e \in Elems PROVE Moved(e) /\ ~ Moved(e)'
  <2>1. /\ Bkt(ht_cur, e) \in 0 .. ht_nbuckets(ht_cur) - 1 /\ ht_nbuckets(ht_cur) \in Nat
        /\ Bkt(ht_cur', e) \in Nat
    BY <1>2, Buckets
  <2>2. ht_resize_cur[ht_cur] = ht_nbuckets(ht_cur) - 1 /\ ht_resize_cur'[ht_cur'] = -1
    BY <1>1, <1>2, <1>5 DEF ResizerInv
  <2>3. Bkt(ht_cur, e)' = Bkt(ht_cur', e)
    BY DEF Bkt, ht_get_bucket, ht_nbuckets
  <2> QED BY <1>5, <2>1, <2>2, <2>3 DEF Moved
<1> QED BY <1>2, <1>4, <1>5, <1>6

\* What a step does to an element that its updater does not work on
Untouched(e) ==
  /\ link'[e] = link[e]
  /\ mem'[e] = mem[e] \/ (mem[e] = "deferred" /\ defer[e] = {} /\ mem'[e] = "free")

MovedNow(e) ==
  /\ ResizeMove
  /\ rpc = "move" /\ e \in todo /\ todo' = todo \ {e} /\ ht_cur' = ht_cur /\ ri' = ri
  /\ link'[e] = [link[e] EXCEPT ![(ht_cur + 1) % 2] = ht_cur + 1]
  /\ mem'[e] = mem[e]

LEMMA ElemFrame ==
  ASSUME IInv, [Next]_vars, NEW e \in Elems
  PROVE  \/ Untouched(e)
         \/ MovedNow(e)
         \/ \E t \in Threads : t = e % NR_THREADS /\ el[t] = e /\ Acts(t) /\ Changes(t)
<1>1. TypeOK /\ ThreadInv
  BY DEF IInv
<1>2. ASSUME NEW t \in Threads, Acts(t)
      PROVE  Untouched(e) \/ (t = e % NR_THREADS /\ el[t] = e /\ Changes(t))
  <2>1. CASE Changes(t) /\ el[t] = e
    BY <1>1, <2>1, ChangesFrame DEF ThreadInv, Updating, Locking
  <2>2. CASE ~ (Changes(t) /\ el[t] = e)
    BY <1>1, <1>2, <2>2, ThreadFrame, ChangesFrame DEF Untouched
  <2> QED BY <2>1, <2>2
<1>3. ASSUME NEW x \in Elems, DeferDone(x) PROVE Untouched(e)
  BY <1>1, <1>3 DEF DeferDone, TypeOK, Untouched
<1>4. CASE ResizeMove
  <2>1. PICK x \in todo : /\ link' = [link EXCEPT ![x][(ht_cur + 1) % 2] = ht_cur + 1]
                          /\ todo' = todo \ {x}
    BY <1>4 DEF ResizeMove
  <2>2. /\ UNCHANGED <<ht_cur, mem, ri>> /\ rpc = "move"
        /\ x \in Elems
    BY <1>1, <1>4 DEF ResizeMove, tabvars, RGoto, TypeOK
  <2>3. CASE x = e
    BY <1>1, <1>4, <2>1, <2>2, <2>3 DEF MovedNow, TypeOK
  <2>4. CASE x # e
    BY <1>1, <2>1, <2>2, <2>4 DEF Untouched, TypeOK
  <2> QED BY <2>3, <2>4
<1>5. CASE ResizeCall \/ Sync1 \/ ResizeLock \/ ResizeNext \/ Switch \/ Sync2 \/ UNCHANGED vars
  BY <1>5 DEF ResizeCall, Sync1, ResizeLock, ResizeNext, Switch, Sync2, vars, Untouched
<1> QED BY <1>2, <1>3, <1>4, <1>5, Steps DEF Others

\* An updater's writes to an hte_next, one at a time
LEMMA Writes ==
  ASSUME IInv, NEW t \in Threads, Changes(t)
  PROVE  LET e == el[t]
             i == hbp[t][1] % 2
         IN  /\ e \in Elems
             /\ Add0(t) => link'[e] = [link[e] EXCEPT ![i] = hbp[t][1]]
             /\ Add1(t) => link'[e] = [link[e] EXCEPT ![1 - i] = hbp[t][2]]
             /\ Del0(t) => link'[e] = [link[e] EXCEPT ![i] = None]
             /\ Del1(t) => link'[e] = [link[e] EXCEPT ![1 - i] = None]
             /\ Unlock(t) => link' = link
             /\ ModLookup(t) => link'[e] \in {link[e], [j \in {0, 1} |-> None]}
<1>1. TypeOK /\ ThreadInv
  BY DEF IInv
<1>2. pc[t] \in Updating /\ el[t] \in Elems
  BY <1>1, ChangesFrame DEF ThreadInv, Updating
<1> QED
  BY <1>1, <1>2 DEF Add0, Add1, Del0, Del1, Update, idx, Unlock, ModLookup, TypeOK

\* The instances an updater writes to are current ones, of different parity.
LEMMA HeldInstances ==
  ASSUME IInv, NEW t \in Threads, pc[t] \in Updating
  PROVE  /\ ht_cur \in Nat /\ el[t] \in Elems
         /\ hbp[t][1] \in Nat /\ hbp[t][1] <= ht_cur + 1
         /\ hbp[t][1] = ht_cur + 1 => Moved(el[t])
         /\ hbp[t][2] # None =>
              /\ hbp[t][2] \in Nat /\ hbp[t][2] <= ht_cur + 1
              /\ hbp[t][2] = ht_cur + 1 => Moved(el[t])
              /\ hbp[t][2] % 2 = 1 - (hbp[t][1] % 2)
<1>1. TypeOK
  BY DEF IInv
<1>2. ht_cur \in Nat
  BY <1>1, Numbers DEF TypeOK
<1>3. CASE hbp[t][2] = None
  BY <1>2, <1>3, HeldUnmoved
<1>4. CASE hbp[t][2] # None
  BY <1>2, <1>4, HeldMoved, Slots
<1> QED BY <1>3, <1>4

LEMMA LinkStep ==
  ASSUME IInv, [Next]_vars
  PROVE  LinkInv'
<1>1. TypeOK /\ TypeOK' /\ ResizerInv /\ ThreadInv /\ LinkInv
  BY TypeStep DEF IInv
<1>2. ht_cur \in Nat /\ ht_cur' \in Nat /\ ht_cur \in Insts /\ ht_cur + 1 # None
  BY <1>1, Numbers DEF TypeOK, None
<1> SUFFICES ASSUME NEW e \in Elems PROVE LinkInv!(e)'
  BY DEF LinkInv
<1>3. \A i \in {0, 1} : link[e][i] \in Insts \union {None} /\ link'[e][i] \in Insts \union {None}
  BY <1>1 DEF TypeOK
<1>4. CASE ht_cur' # ht_cur
  <2>1. link' = link /\ ht_cur' = ht_cur + 1
    BY <1>4, SwitchMoves
  <2>3. \A i \in {0, 1} : link[e][i] # None => link[e][i] % 2 = i /\ link[e][i] <= ht_cur + 1
    BY <1>1 DEF LinkInv
  <2>4. ASSUME NEW i \in {0, 1}, link'[e][i] # None
        PROVE  link'[e][i] % 2 = i /\ link'[e][i] <= ht_cur' + 1
    <3>1. link[e][i] \in Nat
      BY <1>3, <2>1, <2>4, Numbers
    <3> QED BY <1>2, <2>1, <2>3, <2>4, <3>1
  <2>2. ~ InList(ht_cur + 1, e)'
    <3>1. (ht_cur' + 1) % 2 \in {0, 1} /\ ht_cur' + 1 # None
      <4>1. \A g \in Nat : (g + 1) % 2 \in {0, 1} /\ g + 1 # None
        BY Slots DEF None
      <4> QED BY <1>2, <4>1
    <3>2. link[e][(ht_cur' + 1) % 2] # ht_cur' + 1
      BY <1>2, <2>1, <2>3, <3>1
    <3> QED BY <2>1, <3>2 DEF InList
  <2> QED BY <2>2, <2>4
\* It is enough that what is written is right.
<1>5. ASSUME ht_cur' = ht_cur,
             \A i \in {0, 1} :
               \/ link'[e][i] = link[e][i] \/ link'[e][i] = None
               \/ /\ link'[e][i] % 2 = i /\ link'[e][i] <= ht_cur + 1
                  /\ link'[e][i] = ht_cur + 1 => Moved(e)'
      PROVE  LinkInv!(e)'
  <2>1. Moved(e) => Moved(e)'
    BY <1>5, MovedKept
  <2>2. ASSUME NEW i \in {0, 1}, link'[e][i] # None
        PROVE  link'[e][i] % 2 = i /\ link'[e][i] <= ht_cur' + 1
    BY <1>1, <1>5, <2>2 DEF LinkInv
  <2>3. (ht_cur + 1) % 2 \in {0, 1}
    BY <1>2, Slots
  <2>4. ASSUME InList(ht_cur + 1, e)' PROVE Moved(e)'
    <3>1. link'[e][(ht_cur + 1) % 2] = ht_cur + 1
      BY <1>5, <2>4 DEF InList
    <3>2. link[e][(ht_cur + 1) % 2] = ht_cur + 1 => Moved(e)
      BY <1>1 DEF LinkInv, InList
    <3> QED BY <1>2, <1>5, <2>1, <2>3, <3>1, <3>2
  <2> QED BY <2>2, <2>4
<1>6. CASE ht_cur' = ht_cur /\ Untouched(e)
  BY <1>5, <1>6 DEF Untouched
<1>7. CASE MovedNow(e)
  <2>1. Moved(e)'
    <3>1. Bkt(ht_cur, e) = ri
      BY <1>7 DEF IInv, MemInv, MovedNow
    <3>2. Bkt(ht_cur, e)' = Bkt(ht_cur, e) /\ rpc' = "move"
      BY <1>7 DEF MovedNow, Bkt, ht_get_bucket, ht_nbuckets, ResizeMove, RGoto
    <3> QED BY <1>7, <3>1, <3>2 DEF MovedNow, Moved
  <2>2. \A i \in {0, 1} : link'[e][i] = link[e][i] \/ (i = (ht_cur + 1) % 2 /\ link'[e][i] = ht_cur + 1)
    BY <1>1, <1>2, <1>7, Slots DEF MovedNow, TypeOK
  <2> QED BY <1>2, <1>5, <1>7, <2>1, <2>2 DEF MovedNow
<1>8. ASSUME NEW t \in Threads, el[t] = e, Acts(t), Changes(t) PROVE LinkInv!(e)'
  <2>1. ht_cur' = ht_cur
    BY <1>1, <1>8, ThreadFrame DEF tabvars
  <2>2. pc[t] \in Updating
    BY <1>1, <1>8, ChangesFrame
  <2>3. Moved(e) => Moved(e)'
    BY <2>1, MovedKept
  <2>4. hbp[t][1] % 2 \in {0, 1} /\ 1 - (hbp[t][1] % 2) \in {0, 1}
    BY <2>2, HeldInstances, Slots
  <2>5. Add1(t) => hbp[t][2] # None
    BY <1>1, <1>8 DEF IInv, UpdaterInv, ThreadInv, AddInv, DelInv, Add1, Update, Goto, Locking
  <2>6. link[e] \in [{0, 1} -> Insts \union {None}]
    BY <1>1 DEF TypeOK
  <2>7. CASE Add0(t)
    <3>1. \A i \in {0, 1} : link'[e][i] = link[e][i] \/ (i = hbp[t][1] % 2 /\ link'[e][i] = hbp[t][1])
      BY <1>8, <2>4, <2>6, <2>7, Writes
    <3> QED BY <1>2, <1>5, <1>8, <2>1, <2>2, <2>3, <3>1, HeldInstances
  <2>8. CASE Add1(t)
    <3>1. \A i \in {0, 1} : link'[e][i] = link[e][i] \/ (i = 1 - (hbp[t][1] % 2) /\ link'[e][i] = hbp[t][2])
      BY <1>8, <2>4, <2>6, <2>8, Writes
    <3> QED BY <1>2, <1>5, <1>8, <2>1, <2>2, <2>3, <2>5, <2>8, <3>1, HeldInstances
  <2>9. CASE Del0(t) \/ Del1(t) \/ Unlock(t) \/ ModLookup(t)
    <3>0. \/ link'[e] \in {link[e], [j \in {0, 1} |-> None]}
          \/ link'[e] = [link[e] EXCEPT ![hbp[t][1] % 2] = None]
          \/ link'[e] = [link[e] EXCEPT ![1 - (hbp[t][1] % 2)] = None]
      BY <1>8, <2>9, Writes
    <3>1. \A i \in {0, 1} : link'[e][i] = link[e][i] \/ link'[e][i] = None
      BY <2>4, <2>6, <3>0
    <3> QED BY <1>5, <2>1, <3>1
  <2> QED BY <1>8, <2>7, <2>8, <2>9 DEF Changes
<1> QED BY <1>4, <1>6, <1>7, <1>8, ElemFrame DEF MovedNow

-----------------------------------------------------------------------------
\* What MemInv says of an element is kept by every step.

\* A thread that is in a call after a step was in it before, and is still
\* waited for, or has just begun it with the current instance.
LEMMA ReaderFrame ==
  ASSUME IInv, [Next]_vars, NEW u \in Threads, htp'[u] # None, NEW e \in Elems
  PROVE  \/ htp'[u] = ht_cur /\ ht_cur' = ht_cur /\ link' = link
         \/ /\ htp'[u] = htp[u] /\ htp[u] # None
            /\ u \in defer[e] => \/ u \in defer'[e]
                                 \/ \E t \in Threads : Unlock(t) /\ el[t] = e /\ mem[e] = "changing"
<1>1. TypeOK /\ ThreadInv
  BY DEF IInv
<1> USE DEF TypeOK, Goto
<1>2. ASSUME NEW t \in Threads, NEW x \in Elems, LookupDeref(t, x) \/ (\E o : ModCall(t, o, x))
      PROVE  /\ UNCHANGED <<ht_cur, link, defer>> /\ htp' = [htp EXCEPT ![t] = ht_cur]
  BY <1>2 DEF LookupDeref, ModCall, tabvars
<1>3. ASSUME NEW t \in Threads, LookupReturn(t, "search") \/ LookupReturn(t, "again")
      PROVE  /\ htp' = [htp EXCEPT ![t] = None] /\ defer'[e] = defer[e] \ {t}
  BY <1>3 DEF LookupReturn, Leave
<1>4. ASSUME NEW t \in Threads,
             SearchOn(t) \/ Lock0(t) \/ Lock1(t) \/ ModLookup(t) \/ Add0(t) \/ Add1(t) \/ Del0(t) \/ Del1(t)
      PROVE  UNCHANGED <<htp, defer>>
  BY <1>4 DEF SearchOn, Lock0, Lock1, ModLookup, Add0, Add1, Del0, Del1, Update
<1>5. ASSUME NEW t \in Threads, Unlock(t)
      PROVE  /\ htp' = [htp EXCEPT ![t] = None]
             /\ defer'[e] = defer[e] \ {t} \/ (el[t] = e /\ mem[e] = "changing")
  BY <1>5 DEF Unlock, Leave
<1>6. CASE Others
  BY <1>6 DEF Others, DeferDone, ResizeCall, Sync1, ResizeLock, ResizeMove, ResizeNext, Switch,
     Sync2, vars, tvars
<1>7. CASE \E t \in Threads : Acts(t)
  <2>1. PICK t \in Threads : Acts(t)
    BY <1>7
  <2>2. CASE \E x \in Elems : LookupDeref(t, x) \/ ModCall(t, "add", x) \/ ModCall(t, "del", x)
    BY <1>1, <1>2, <2>2
  <2>3. CASE LookupReturn(t, "search") \/ LookupReturn(t, "again")
    BY <1>1, <1>3, <2>3
  <2>4. CASE SearchOn(t) \/ Lock0(t) \/ Lock1(t) \/ ModLookup(t) \/ Add0(t) \/ Add1(t) \/ Del0(t) \/ Del1(t)
    BY <1>1, <1>4, <2>4
  <2>5. CASE Unlock(t)
    BY <1>1, <1>5, <2>5
  <2> QED BY <2>1, <2>2, <2>3, <2>4, <2>5 DEF Acts, Changes
<1> QED BY <1>6, <1>7, Steps

\* What the resizer has still to move was so before, or has just been found in
\* the bucket it locks.
LEMMA TodoFrame ==
  ASSUME IInv, [Next]_vars, NEW e \in Elems, rpc' = "move", e \in todo'
  PROVE  /\ UNCHANGED <<ht_cur, ri>> /\ Bkt(ht_cur, e)' = Bkt(ht_cur, e)
         /\ \/ rpc = "move" /\ e \in todo
            \/ /\ rpc = "lock" /\ htb_lock[<<ht_cur, ri>>] = None
               /\ InList(ht_cur, e) /\ Bkt(ht_cur, e) = ri
<1>1. TypeOK
  BY DEF IInv
<1>2. CASE \E t \in Threads : Acts(t)
  BY <1>1, <1>2, ThreadFrame DEF tabvars, Bkt, ht_get_bucket, ht_nbuckets
<1>3. CASE \E x \in Elems : DeferDone(x)
  BY <1>3 DEF DeferDone, tabvars, rvars, Bkt, ht_get_bucket, ht_nbuckets
<1>4. CASE ResizeCall \/ Sync1 \/ ResizeNext \/ Switch \/ Sync2
  BY <1>4 DEF ResizeCall, Sync1, ResizeNext, Switch, Sync2, RGoto
<1>5. CASE ResizeLock
  <2>1. UNCHANGED <<ht_cur, ri>>
    BY <1>5 DEF ResizeLock, tabvars
  <2> QED BY <1>5, <2>1 DEF ResizeLock, RGoto, Bkt, ht_get_bucket, ht_nbuckets
<1>6. CASE ResizeMove
  <2>1. UNCHANGED <<ht_cur, ri>> /\ rpc = "move" /\ todo' \subseteq todo
    BY <1>6 DEF ResizeMove, tabvars, RGoto
  <2> QED BY <2>1 DEF Bkt, ht_get_bucket, ht_nbuckets
<1>7. CASE UNCHANGED vars
  BY <1>7 DEF vars, tabvars, rvars, Bkt, ht_get_bucket, ht_nbuckets
<1> QED BY <1>2, <1>3, <1>4, <1>5, <1>6, <1>7, Steps DEF Others

\* An updater's element is not one the resizer moves.
LEMMA UpdatedNotMoved ==
  ASSUME IInv, [Next]_vars, NEW t \in Threads, pc[t] \in Locking, Acts(t)
  PROVE  ~ (rpc' = "move" /\ el[t] \in todo')
<1>1. TypeOK /\ ThreadInv /\ MemInv
  BY DEF IInv
<1>2. el[t] \in Elems /\ UNCHANGED <<rpc, todo>>
  BY <1>1, ThreadFrame DEF ThreadInv, Locking
<1> SUFFICES ASSUME rpc = "move", el[t] \in todo PROVE FALSE
  BY <1>2
<1>3. Bkt(ht_cur, el[t]) = ri
  BY <1>1, <1>2 DEF MemInv
<1> QED BY <1>3, ResizerAlone

LEMMA MemUntouched ==
  ASSUME IInv, [Next]_vars, NEW e \in Elems, Untouched(e)
  PROVE  MemInv!(e)'
<1>1. TypeOK /\ TypeOK' /\ ResizerInv /\ ThreadInv /\ LockInv /\ LinkInv /\ LinkInv' /\ MemInv
  BY TypeStep, LinkStep DEF IInv
<1>2. ht_cur \in Nat /\ ht_cur \in Insts
  BY <1>1, Numbers DEF TypeOK
<1>3. link'[e] = link[e] /\ (mem'[e] = mem[e] \/ (mem[e] = "deferred" /\ mem'[e] = "free" /\ defer[e] = {}))
  BY DEF Untouched
<1>4. ASSUME mem'[e] = "live"
      PROVE  Linked(ht_cur, e)' /\ InList(IF Moved(e) THEN ht_cur + 1 ELSE ht_cur, e)'
  <2>1. mem[e] = "live" /\ Linked(ht_cur, e) /\ InList(IF Moved(e) THEN ht_cur + 1 ELSE ht_cur, e)
    BY <1>1, <1>3, <1>4 DEF MemInv
  <2>2. CASE ht_cur' # ht_cur
    BY <1>3, <2>1, <2>2, SwitchMoves DEF Linked, InList
  <2>3. CASE ht_cur' = ht_cur
    <3>1. impl' = impl
      BY Steps, <1>1, ThreadFrame DEF Others, DeferDone, ResizeCall, Sync1, ResizeLock, ResizeMove,
         ResizeNext, Switch, Sync2, vars, tabvars
    <3>2. Linked(ht_cur, e)'
      BY <1>3, <2>1, <2>3, <3>1 DEF Linked, InList
    <3>3. CASE Moved(e) <=> Moved(e)'
      BY <1>3, <2>1, <2>3, <3>2, <3>3 DEF InList
    <3>4. CASE ~ Moved(e) /\ Moved(e)'
      <4>1. InList(ht_cur + 1, e)'
        BY <2>1, <2>3, <3>4, MovedKept
      <4> QED BY <3>2, <3>4, <4>1
    <3> QED BY <2>3, <3>3, <3>4, MovedKept
  <2> QED BY <2>2, <2>3
<1>5. ASSUME mem'[e] \in Dead
      PROVE  /\ ~ InList(ht_cur, e)' /\ ~ InList(ht_cur + 1, e)'
             /\ \A u \in Threads : (htp[u] # None /\ InList(htp[u], e))'
                                     => (mem[e] = "deferred" /\ u \in defer[e])'
  <2>1. /\ mem[e] \in Dead /\ ~ InList(ht_cur, e) /\ ~ InList(ht_cur + 1, e)
        /\ \A u \in Threads : htp[u] # None /\ InList(htp[u], e) => mem[e] = "deferred" /\ u \in defer[e]
    BY <1>1, <1>3, <1>5 DEF MemInv, Dead
  <2>2. ~ InList(ht_cur, e)' /\ ~ InList(ht_cur + 1, e)'
    <3>1. CASE ht_cur' = ht_cur
      BY <1>3, <2>1, <3>1 DEF InList
    <3>2. CASE ht_cur' # ht_cur
      <4>1. ht_cur' = ht_cur + 1 /\ ~ Moved(e)'
        BY <3>2, SwitchMoves
      <4>2. ~ InList(ht_cur + 1, e)'
        BY <1>1, <4>1 DEF LinkInv
      <4> QED BY <1>3, <2>1, <4>1, <4>2 DEF InList
    <3> QED BY <3>1, <3>2
  <2>3. ASSUME NEW u \in Threads, htp'[u] # None, InList(htp[u], e)'
        PROVE  (mem[e] = "deferred" /\ u \in defer[e])'
    <3>1. htp'[u] # ht_cur \/ ht_cur' # ht_cur
      BY <1>3, <2>1, <2>3 DEF InList
    <3>2. /\ htp'[u] = htp[u] /\ htp[u] # None
          /\ u \in defer[e] => \/ u \in defer'[e]
                               \/ \E t \in Threads : Unlock(t) /\ el[t] = e /\ mem[e] = "changing"
      BY <2>3, <3>1, ReaderFrame
    <3>3. mem[e] = "deferred" /\ u \in defer[e]
      BY <1>3, <2>1, <2>3, <3>2 DEF InList
    <3> QED BY <1>3, <3>2, <3>3
  <2> QED BY <2>2, <2>3
<1>6. ASSUME mem'[e] = "changing"
      PROVE  LET t == e % NR_THREADS IN (el[t] = e /\ pc[t] \in Changing)'
  <2> DEFINE t == e % NR_THREADS
  <2>1. mem[e] = "changing" /\ el[t] = e /\ pc[t] \in Changing
    BY <1>1, <1>3, <1>6 DEF MemInv
  <2>2. t \in Threads
    <3>1. e \in Nat
      BY Numbers
    <3> QED BY <3>1, Numbers DEF Threads
  <2> HIDE DEF t
  <2>3. CASE Same(t)
    BY <2>1, <2>3 DEF Same, t
  <2>4. CASE Acts(t)
    <3>1. Add0(t) \/ Add1(t) \/ Del0(t) \/ Del1(t) \/ Unlock(t)
      BY <2>1, <2>4 DEF Acts, Changes, LookupDeref, ModCall, LookupReturn, SearchOn, Lock0, Lock1,
         ModLookup, Goto, Changing
    <3>2. ~ Unlock(t)
      BY <1>1, <1>6, <2>1 DEF Unlock, TypeOK
    <3>3. \E from, to \in {"add0", "add1", "del0", "del1", "unlock"} : Goto(t, from, to)
      BY <3>1, <3>2 DEF Add0, Add1, Del0, Del1, Update
    <3>4. el' = el
      BY <3>1, <3>2 DEF Add0, Add1, Del0, Del1, Update
    <3> QED BY <1>1, <2>1, <2>2, <3>3, <3>4 DEF Goto, Changing, TypeOK, t
  <2> QED BY <1>1, <2>2, <2>3, <2>4, Steps, ThreadFrame, OthersFrame
<1>7. ASSUME (rpc = "move" /\ e \in todo)'
      PROVE  (mem[e] = "live" /\ Bkt(ht_cur, e) = ri)'
  <2>1. /\ UNCHANGED <<ht_cur, ri>> /\ Bkt(ht_cur, e)' = Bkt(ht_cur, e)
        /\ \/ rpc = "move" /\ e \in todo
           \/ /\ rpc = "lock" /\ htb_lock[<<ht_cur, ri>>] = None
              /\ InList(ht_cur, e) /\ Bkt(ht_cur, e) = ri
    BY <1>7, TodoFrame
  <2>2. Bkt(ht_cur, e) = ri
    BY <1>1, <2>1 DEF MemInv
  <2>3. mem[e] = "live"
    <3>1. CASE rpc = "move" /\ e \in todo
      BY <1>1, <3>1 DEF MemInv
    <3>2. CASE rpc = "lock" /\ htb_lock[<<ht_cur, ri>>] = None /\ InList(ht_cur, e)
      <4>1. mem[e] \notin Dead
        BY <1>1, <3>2 DEF MemInv
      <4>2. mem[e] # "changing"
        <5>1. e % NR_THREADS \in Threads
          <6>1. e \in Nat
            BY Numbers
          <6> QED BY <6>1, Numbers DEF Threads
        <5> QED BY <1>1, <2>2, <3>2, <5>1, ResizerAlone DEF MemInv, Changing, Locking
      <4> QED BY <1>1, <4>1, <4>2 DEF TypeOK, Dead
    <3> QED BY <2>1, <3>1, <3>2
  <2> QED BY <1>3, <2>1, <2>2, <2>3
<1> QED BY <1>4, <1>5, <1>6, <1>7

\* The resizer links an element that is in the table, and in the old bucket,
\* into the other instance.
LEMMA MoveKeeps ==
  ASSUME IInv, [Next]_vars, NEW e \in Elems, MovedNow(e)
  PROVE  /\ mem[e] = "live" /\ mem'[e] = "live" /\ impl' = impl /\ ht_new' = ht_new
         /\ InList(ht_cur, e) /\ InList(ht_cur, e)' /\ InList(ht_cur + 1, e)'
         /\ Moved(e)' /\ ~ Moved(e) /\ UNCHANGED <<pc, op, el, htp, hbp, rcu, expect>>
         /\ link'[e][ht_cur % 2] = link[e][ht_cur % 2]
<1>1. TypeOK /\ ResizerInv /\ MemInv
  BY DEF IInv
<1>2. ht_cur \in Nat /\ ht_cur \in Insts /\ ri \in Nat /\ ht_resize_cur[ht_cur] = ri - 1
  BY <1>1, Numbers DEF TypeOK, ResizerInv, MovedNow
<1>3. mem[e] = "live" /\ Bkt(ht_cur, e) = ri
  BY <1>1 DEF MemInv, MovedNow
<1>4. ~ Moved(e)
  BY <1>2, <1>3 DEF Moved, MovedNow
<1>5. InList(ht_cur, e)
  BY <1>1, <1>3, <1>4 DEF MemInv
<1>6. /\ link'[e][ht_cur % 2] = link[e][ht_cur % 2]
      /\ link'[e][(ht_cur + 1) % 2] = ht_cur + 1
  BY <1>1, <1>2, Slots DEF MovedNow, TypeOK
<1>7. /\ UNCHANGED <<impl, ht_new, ht_resize_cur, pc, op, el, htp, hbp, rcu, expect>>
      /\ rpc' = "move"
  BY DEF MovedNow, ResizeMove, tabvars, tvars, RGoto
<1>8. Moved(e)'
  <2>1. Bkt(ht_cur, e)' = ri'
    BY <1>3 DEF MovedNow, Bkt, ht_get_bucket, ht_nbuckets
  <2> QED BY <1>7, <2>1 DEF MovedNow, Moved
<1>9. InList(ht_cur, e)' /\ InList(ht_cur + 1, e)'
  BY <1>5, <1>6 DEF InList, MovedNow
<1> QED BY <1>3, <1>4, <1>5, <1>6, <1>7, <1>8, <1>9 DEF MovedNow

LEMMA MemMoved ==
  ASSUME IInv, [Next]_vars, NEW e \in Elems, MovedNow(e)
  PROVE  MemInv!(e)'
<1>1. mem'[e] = "live" /\ InList(ht_cur, e)' /\ InList(ht_cur + 1, e)' /\ Moved(e)'
  BY MoveKeeps
<1>2. ~ (e \in todo')
  BY DEF MovedNow
<1> QED BY <1>1, <1>2 DEF Linked, Dead

\* hashtab_add() or hashtab_del() takes the element in hand, or finds nothing
\* to do.
LEMMA Claim ==
  ASSUME IInv, NEW t \in Threads, ModLookup(t)
  PROVE  /\ pc[t] = "mod" /\ el[t] \in Elems
         /\ \/ /\ Untouched(el[t]) /\ pc'[t] = "unlock" /\ expect' = expect
               /\ ~ (op[t] = "del" /\ mem[el[t]] = "live")
               /\ ~ (op[t] = "add" /\ mem[el[t]] = "free")
            \/ /\ mem'[el[t]] = "changing" /\ op[t] = "add" /\ pc'[t] = "add0"
               /\ link'[el[t]] = [i \in {0, 1} |-> None]
               /\ \A u \in Threads : el[u] = el[t] => expect'[u] = "any"
            \/ /\ mem'[el[t]] = "changing" /\ op[t] = "del" /\ pc'[t] = "del0"
               /\ mem[el[t]] \notin Dead /\ link' = link
               /\ \A u \in Threads : el[u] = el[t] => expect'[u] = "any"
<1>1. TypeOK /\ ThreadInv
  BY DEF IInv
<1>2. pc[t] = "mod" /\ el[t] \in Elems
  BY <1>1 DEF ModLookup, ThreadInv
<1>3. /\ mem[el[t]] = "live" =>
            InList(ht_cur, el[t]) \/ (impl = "hash_resize_s" /\ InNew(ht_cur, el[t]))
      /\ mem[el[t]] \in Dead => ~ InList(ht_cur, el[t]) /\ ~ InNew(ht_cur, el[t])
  BY <1>2, FoundWhenLive
<1> DEFINE found == InList(ht_cur, el[t]) \/ (impl = "hash_resize_s" /\ InNew(ht_cur, el[t]))
           adds == op[t] = "add" /\ ~ found /\ mem[el[t]] = "free"
           deletes == op[t] = "del" /\ found
<1>4. IF adds \/ deletes
        THEN /\ Goto(t, "mod", IF adds THEN "add0" ELSE "del0")
             /\ link' = IF adds THEN [link EXCEPT ![el[t]] = [i \in {0, 1} |-> None]] ELSE link
             /\ mem' = [mem EXCEPT ![el[t]] = "changing"]
             /\ expect' = [u \in Threads |-> IF el[u] = el[t] THEN "any" ELSE expect[u]]
        ELSE /\ Goto(t, "mod", "unlock")
             /\ UNCHANGED <<link, mem, expect>>
  BY DEF ModLookup
<1>5. /\ mem[el[t]] = "live" => found
      /\ mem[el[t]] \in Dead => ~ found
  BY <1>3
<1> HIDE DEF found
<1>6. CASE adds
  <2>1. /\ op[t] = "add" /\ pc' = [pc EXCEPT ![t] = "add0"]
        /\ link' = [link EXCEPT ![el[t]] = [i \in {0, 1} |-> None]]
        /\ mem' = [mem EXCEPT ![el[t]] = "changing"]
        /\ expect' = [u \in Threads |-> IF el[u] = el[t] THEN "any" ELSE expect[u]]
    BY <1>4, <1>6 DEF Goto
  <2>2. link'[el[t]] = [i \in {0, 1} |-> None]
    BY <1>1, <1>2, <2>1 DEF TypeOK
  <2>3. pc'[t] = "add0" /\ mem'[el[t]] = "changing"
    BY <1>1, <1>2, <2>1 DEF TypeOK
  <2> QED BY <1>2, <2>1, <2>2, <2>3
<1>7. CASE ~ adds /\ deletes
  BY <1>1, <1>2, <1>4, <1>5, <1>7 DEF Goto, TypeOK
<1>8. CASE ~ adds /\ ~ deletes
  BY <1>1, <1>2, <1>4, <1>5, <1>8 DEF Goto, TypeOK, Untouched, Dead
<1> QED BY <1>6, <1>7, <1>8

LEMMA MemWritten ==
  ASSUME IInv, [Next]_vars, NEW t \in Threads, NEW e \in Elems, el[t] = e, Acts(t),
         \/ Add0(t) \/ Add1(t) \/ Del0(t) \/ Del1(t)
         \/ ModLookup(t) /\ mem'[e] = "changing" /\ pc'[t] \in {"add0", "del0"}
  PROVE  MemInv!(e)'
<1>1. TypeOK /\ ThreadInv /\ UpdaterInv
  BY DEF IInv
<1>2. pc[t] \in Updating
  BY <1>1, ChangesFrame DEF Changes
<1>3. el[t] \in Elems /\ el[t] % NR_THREADS = t /\ op[t] \in {"add", "del"}
  BY <1>1, <1>2 DEF ThreadInv, Updating, Locking
<1>4. el' = el /\ htp' = htp
  BY DEF Add0, Add1, Del0, Del1, Update, ModLookup
<1>5. mem'[e] = "changing"
  BY <1>1, <1>3 DEF Add0, Add1, Del0, Del1, Update, Goto, UpdaterInv, AddInv, DelInv, Changing, Locking
<1>6. pc'[t] \in Changing
  <2>1. CASE Add0(t) \/ Add1(t) \/ Del0(t) \/ Del1(t)
    <3>1. \E from, to \in {"add0", "add1", "del0", "del1", "unlock"} : Goto(t, from, to)
      BY <2>1 DEF Add0, Add1, Del0, Del1, Update
    <3> QED BY <1>1, <3>1 DEF Goto, TypeOK, Changing
  <2> QED BY <2>1 DEF Changing
<1>7. ~ (rpc' = "move" /\ e \in todo')
  BY <1>2, UpdatedNotMoved DEF Updating, Locking
<1> QED BY <1>3, <1>4, <1>5, <1>6, <1>7 DEF Dead

\* An update that has been completed leaves the element where lookups find it,
\* or out of their way.
LEMMA UnlockedAdd ==
  ASSUME IInv, NEW t \in Threads, pc[t] = "unlock", op[t] = "add"
  PROVE  /\ Linked(ht_cur, el[t])
         /\ InList(IF Moved(el[t]) THEN ht_cur + 1 ELSE ht_cur, el[t])
<1>1. TypeOK /\ ThreadInv /\ UpdaterInv /\ ResizerInv
  BY DEF IInv
<1>2. pc[t] \in Updating /\ el[t] \in Elems
  BY <1>1 DEF Updating, ThreadInv
<1>3. /\ InList(hbp[t][1], el[t])
      /\ IF hbp[t][2] # None /\ impl = "hash_resize" THEN InList(hbp[t][2], el[t])
                                                     ELSE link[el[t]][1 - (hbp[t][1] % 2)] = None
  BY <1>1 DEF UpdaterInv, AddInv, Locking
<1>4. impl \in {"hash_resize", "hash_resize_s"} /\ ht_cur \in Nat
  BY <1>1, Numbers DEF TypeOK
<1>5. CASE hbp[t][2] = None
  BY <1>2, <1>3, <1>5, HeldUnmoved DEF Linked
<1>6. CASE hbp[t][2] # None
  <2>1. /\ htp[t] \in Nat
        /\ \/ htp[t] = ht_cur /\ Moved(el[t])
           \/ ht_cur = htp[t] + 1 /\ rpc = "sync2"
        /\ IF impl = "hash_resize" THEN hbp[t][1] = htp[t] /\ hbp[t][2] = htp[t] + 1
                                   ELSE hbp[t][1] = htp[t] + 1 /\ hbp[t][2] = htp[t]
    BY <1>2, <1>6, HeldMoved
  <2>2. rpc = "sync2" => ~ Moved(el[t])
    BY <1>2, MovedBusy DEF Busy
  <2>3. CASE impl = "hash_resize"
    BY <1>3, <1>6, <2>1, <2>2, <2>3 DEF Linked
  <2>4. CASE impl = "hash_resize_s"
    <3>1. InList(htp[t] + 1, el[t]) /\ link[el[t]][htp[t] % 2] = None
      BY <1>3, <2>1, <2>4, Slots
    <3> QED BY <2>1, <2>2, <2>4, <3>1 DEF Linked
  <2> QED BY <1>4, <2>3, <2>4
<1> QED BY <1>5, <1>6

LEMMA UnlockedDel ==
  ASSUME IInv, NEW t \in Threads, pc[t] = "unlock", op[t] = "del", mem[el[t]] = "changing"
  PROVE  ~ InList(ht_cur, el[t]) /\ ~ InList(ht_cur + 1, el[t])
<1>1. TypeOK /\ ThreadInv /\ UpdaterInv /\ LinkInv
  BY DEF IInv
<1>2. pc[t] \in Updating /\ el[t] \in Elems
  BY <1>1 DEF Updating, ThreadInv
<1>3. /\ link[el[t]][hbp[t][1] % 2] = None
      /\ hbp[t][2] # None => link[el[t]][hbp[t][2] % 2] = None
  BY <1>1 DEF UpdaterInv, DelInv, Locking, Dead
<1>4. ht_cur \in Nat /\ ht_cur # None /\ ht_cur + 1 # None
  BY <1>1, Numbers DEF TypeOK, None
<1>5. CASE hbp[t][2] = None
  <2>1. ~ InList(ht_cur, el[t])
    BY <1>2, <1>3, <1>4, <1>5, HeldUnmoved DEF InList
  <2>2. ~ InList(ht_cur + 1, el[t])
    BY <1>1, <1>2, <1>5, HeldUnmoved DEF LinkInv
  <2> QED BY <2>1, <2>2
<1>6. CASE hbp[t][2] # None
  <2>1. /\ hbp[t][1] \in Nat /\ hbp[t][2] % 2 = 1 - (hbp[t][1] % 2)
    BY <1>2, <1>6, HeldInstances
  <2>2. \A i \in {0, 1} : link[el[t]][i] = None
    BY <1>3, <1>6, <2>1, Slots
  <2>3. ht_cur % 2 \in {0, 1} /\ (ht_cur + 1) % 2 \in {0, 1}
    BY <1>4, Slots
  <2> QED BY <1>4, <2>2, <2>3 DEF InList
<1> QED BY <1>5, <1>6

LEMMA MemUnlock ==
  ASSUME IInv, [Next]_vars, NEW t \in Threads, NEW e \in Elems, el[t] = e, Acts(t), Unlock(t)
  PROVE  MemInv!(e)'
<1>1. TypeOK /\ ThreadInv /\ MemInv /\ UpdaterInv
  BY DEF IInv
<1>2. pc[t] = "unlock" /\ op[t] \in {"add", "del"} /\ e % NR_THREADS = t
  BY <1>1 DEF Unlock, Goto, ThreadInv, Locking
<1>3. /\ UNCHANGED <<impl, ht_cur, ht_new, ht_resize_cur, link, rpc, ri, todo>>
      /\ Moved(e)' <=> Moved(e)
  BY DEF Unlock, tabvars, Moved, Bkt, ht_get_bucket, ht_nbuckets
<1>4. ~ (rpc' = "move" /\ e \in todo')
  BY <1>2, UpdatedNotMoved DEF Locking
<1>5. CASE op[t] = "add"
  <2>1. mem'[e] = "live"
    BY <1>1, <1>2, <1>5 DEF UpdaterInv, AddInv, Unlock, Changing, Locking, TypeOK
  <2>2. /\ Linked(ht_cur, e)'
        /\ InList(IF Moved(e) THEN ht_cur + 1 ELSE ht_cur, e)'
    BY <1>2, <1>3, <1>5, UnlockedAdd DEF Linked, InList
  <2> QED BY <1>4, <2>1, <2>2 DEF Dead
<1>6. CASE op[t] = "del" /\ mem[e] # "changing"
  <2>1. mem'[e] = mem[e] /\ link' = link
    BY <1>1, <1>2, <1>6 DEF Unlock, TypeOK
  <2> QED BY <1>2, <2>1, MemUntouched DEF Untouched
<1>7. CASE op[t] = "del" /\ mem[e] = "changing"
  <2>1. /\ mem'[e] = "deferred" /\ defer'[e] = {u \in Threads : rcu[u]} \ {t}
        /\ htp' = [htp EXCEPT ![t] = None]
    BY <1>1, <1>2, <1>7 DEF Unlock, Leave, TypeOK
  <2>2. ~ InList(ht_cur, e)' /\ ~ InList(ht_cur + 1, e)'
    BY <1>2, <1>3, <1>7, UnlockedDel DEF InList
  <2>3. ASSUME NEW u \in Threads, htp'[u] # None PROVE u \in defer'[e]
    BY <1>1, <2>1, <2>3 DEF ThreadInv, TypeOK
  <2> QED BY <1>4, <2>1, <2>2, <2>3
<1> QED BY <1>2, <1>5, <1>6, <1>7

LEMMA MemStep ==
  ASSUME IInv, [Next]_vars
  PROVE  MemInv'
<1> SUFFICES ASSUME NEW e \in Elems PROVE MemInv!(e)'
  BY DEF MemInv
<1>1. ASSUME NEW t \in Threads, el[t] = e, Acts(t), Changes(t) PROVE MemInv!(e)'
  <2>1. CASE ModLookup(t)
    BY <1>1, <2>1, Claim, MemUntouched, MemWritten
  <2>2. CASE Add0(t) \/ Add1(t) \/ Del0(t) \/ Del1(t)
    BY <1>1, <2>2, MemWritten
  <2>3. CASE Unlock(t)
    BY <1>1, <2>3, MemUnlock
  <2> QED BY <1>1, <2>1, <2>2, <2>3 DEF Changes
<1> QED BY <1>1, ElemFrame, MemUntouched, MemMoved

-----------------------------------------------------------------------------
\* What UpdaterInv says of a thread is kept by every step.

LEMMA ImplKept ==
  ASSUME TypeOK, [Next]_vars
  PROVE  impl' = impl
  BY Steps, ThreadFrame DEF Others, DeferDone, ResizeCall, Sync1, ResizeLock, ResizeMove,
     ResizeNext, Switch, Sync2, vars, tabvars

LEMMA UpdaterSame ==
  ASSUME IInv, [Next]_vars, NEW t \in Threads, pc[t] \in {"lock0"} \union Locking, Same(t),
         Untouched(el[t]) \/ MovedNow(el[t])
  PROVE  UpdaterInv!(t)'
<1>1. TypeOK /\ ThreadInv /\ UpdaterInv
  BY DEF IInv
<1>2. el[t] \in Elems /\ ht_cur \in Nat /\ impl' = impl
  BY <1>1, Numbers, ImplKept DEF ThreadInv, TypeOK, Locking
<1>3. (op[t] = "add" => AddInv(t)) /\ (op[t] = "del" => DelInv(t))
  BY <1>1 DEF UpdaterInv
<1>4. CASE Untouched(el[t])
  <2>1. op[t] = "add" => AddInv(t)'
    BY <1>2, <1>3, <1>4 DEF Same, Untouched, AddInv, InList, Changing
  <2>2. op[t] = "del" => DelInv(t)'
    BY <1>2, <1>3, <1>4 DEF Same, Untouched, DelInv, Linked, InList, Dead
  <2> QED BY <2>1, <2>2 DEF Same
<1>5. CASE MovedNow(el[t])
  <2>1. /\ mem[el[t]] = "live" /\ mem'[el[t]] = "live"
        /\ link'[el[t]][ht_cur % 2] = link[el[t]][ht_cur % 2]
    BY <1>2, <1>5, MoveKeeps
  <2>2. htp[t] = ht_cur
    BY <1>1, <1>5 DEF ThreadInv, MovedNow, Locking
  <2>3. op[t] # "add"
    BY <1>3, <2>1 DEF AddInv, Changing, Locking
  <2>4. op[t] = "del" => pc[t] \in {"lock0", "lock1", "mod"} /\ Linked(htp[t], el[t])
    BY <1>3, <2>1 DEF DelInv, Locking, Dead
  <2>5. op[t] = "del" => DelInv(t)'
    BY <1>2, <2>1, <2>2, <2>4 DEF DelInv, Same, Linked, InList, Dead
  <2> QED BY <2>3, <2>5 DEF Same
<1> QED BY <1>4, <1>5

LEMMA UpdaterBegins ==
  ASSUME ~ Shared, IInv, NEW t \in Threads, NEW e \in Elems, NEW o \in {"add", "del"},
         ModCall(t, o, e)
  PROVE  UpdaterInv!(t)'
<1>1. TypeOK /\ MemInv
  BY DEF IInv
<1>2. /\ o = "add" => mem[e] = "free"
      /\ e % NR_THREADS = t /\ pc[t] = "idle" /\ pc'[t] = "lock0" /\ op'[t] = o /\ el'[t] = e
      /\ htp'[t] = ht_cur /\ UNCHANGED <<impl, ht_cur, link, mem>>
  BY <1>1 DEF ModCall, Goto, TypeOK, tabvars
<1>3. mem[e] # "changing" /\ (mem[e] = "live" => Linked(ht_cur, e))
  BY <1>1, <1>2 DEF MemInv, Changing
<1>4. op'[t] = "add" => AddInv(t)'
  BY <1>2 DEF AddInv, Changing
<1>5. op'[t] = "del" => DelInv(t)'
  BY <1>2, <1>3 DEF DelInv, Linked, InList
<1> QED BY <1>4, <1>5

LEMMA UpdaterLocks ==
  ASSUME IInv, NEW t \in Threads, Lock0(t) \/ Lock1(t)
  PROVE  UpdaterInv!(t)'
<1>1. TypeOK /\ UpdaterInv
  BY DEF IInv
<1>2. /\ pc[t] \in {"lock0", "lock1"} /\ pc'[t] \in {"lock1", "mod"}
      /\ UNCHANGED <<impl, op, el, htp, link, mem>>
  BY <1>1 DEF Lock0, Lock1, Goto, TypeOK, tabvars
<1>3. (op[t] = "add" => AddInv(t)) /\ (op[t] = "del" => DelInv(t))
  BY <1>1, <1>2 DEF UpdaterInv, Locking
<1>4. op[t] = "add" => AddInv(t)'
  BY <1>2, <1>3 DEF AddInv, Changing
<1>5. op[t] = "del" => DelInv(t)'
  BY <1>2, <1>3 DEF DelInv, Linked, InList
<1> QED BY <1>2, <1>4, <1>5

\* hashtab_add() finds the element's hte_next unused, hashtab_del() finds the
\* element in the lists it is about to unlink it from.
LEMMA UpdaterLooks ==
  ASSUME IInv, NEW t \in Threads, ModLookup(t)
  PROVE  UpdaterInv!(t)'
<1>1. TypeOK /\ ThreadInv /\ UpdaterInv /\ MemInv
  BY DEF IInv
<1> DEFINE e == el[t]
           g == hbp[t][1]
           h == hbp[t][2]
<1>2. /\ UNCHANGED <<impl, op, el, htp, hbp>> /\ pc[t] = "mod" /\ e \in Elems
      /\ op[t] \in {"add", "del"}
  BY <1>1 DEF ModLookup, tabvars, ThreadInv, Locking
<1>3. (op[t] = "add" => AddInv(t)) /\ (op[t] = "del" => DelInv(t))
  BY <1>1, <1>2 DEF UpdaterInv, Locking
<1>4. CASE op[t] = "add"
  <2>1. mem[e] = "free"
    BY <1>2, <1>3, <1>4 DEF AddInv
  <2>2. mem'[e] = "changing" /\ pc'[t] = "add0" /\ link'[e] = [i \in {0, 1} |-> None]
    BY <1>2, <1>4, <2>1, Claim
  <2>3. AddInv(t)'
    BY <1>2, <2>2 DEF AddInv, Changing
  <2> QED BY <1>2, <1>4, <2>3
<1>5. CASE op[t] = "del"
  <2>1. mem[e] # "changing" /\ (mem[e] = "live" => Linked(htp[t], e))
    BY <1>2, <1>3, <1>5 DEF DelInv
  <2>2. CASE mem[e] \in Dead
    <3>1. Untouched(e) /\ pc'[t] = "unlock"
      BY <1>2, <1>5, <2>2, Claim
    <3>2. mem'[e] \in Dead
      BY <2>2, <3>1 DEF Untouched, Dead
    <3>3. DelInv(t)'
      BY <1>2, <3>1, <3>2 DEF DelInv, Dead
    <3> QED BY <1>2, <1>5, <3>3
  <2>3. CASE mem[e] = "live"
    <3>1. mem'[e] = "changing" /\ pc'[t] = "del0" /\ link' = link
      BY <1>2, <1>5, <2>3, Claim
    <3>2. Linked(ht_cur, e) /\ InList(IF Moved(e) THEN ht_cur + 1 ELSE ht_cur, e)
      BY <1>1, <1>2, <2>3 DEF MemInv
    <3>3. Linked(g, e) /\ (h # None => Linked(h, e))
      <4>1. CASE h = None
        BY <1>2, <3>2, <4>1, HeldUnmoved DEF Updating
      <4>2. CASE h # None
        <5>1. /\ htp[t] \in Nat
              /\ \/ htp[t] = ht_cur /\ Moved(e)
                 \/ ht_cur = htp[t] + 1 /\ rpc = "sync2"
              /\ IF impl = "hash_resize" THEN g = htp[t] /\ h = htp[t] + 1
                                         ELSE g = htp[t] + 1 /\ h = htp[t]
          BY <1>2, <4>2, HeldMoved DEF Updating
        <5>2. Linked(htp[t], e)
          BY <2>1, <2>3
        <5>3. Linked(htp[t] + 1, e)
          BY <3>2, <5>1 DEF Linked
        <5> QED BY <5>1, <5>2, <5>3
      <4> QED BY <4>1, <4>2
    <3>4. DelInv(t)'
      BY <1>2, <3>1, <3>3 DEF DelInv, Linked, InList
    <3> QED BY <1>2, <1>5, <3>4
  <2> QED BY <1>1, <1>2, <2>1, <2>2, <2>3 DEF TypeOK, Dead
<1> QED BY <1>2, <1>4, <1>5

LEMMA UpdaterWrites ==
  ASSUME IInv, NEW t \in Threads, Add0(t) \/ Add1(t) \/ Del0(t) \/ Del1(t)
  PROVE  UpdaterInv!(t)'
<1>1. TypeOK /\ ThreadInv /\ UpdaterInv
  BY DEF IInv
<1> DEFINE e == el[t]
           g == hbp[t][1]
           h == hbp[t][2]
<1>2. /\ UNCHANGED <<impl, op, el, htp, hbp, mem>> /\ pc[t] \in Updating
      /\ pc[t] \in {"add0", "add1", "del0", "del1"}
  BY DEF Add0, Add1, Del0, Del1, Update, tabvars, Goto, Updating
<1>3. e \in Elems /\ op[t] \in {"add", "del"}
  BY <1>1, <1>2 DEF ThreadInv, Locking, Updating
<1>4. (op[t] = "add" => AddInv(t)) /\ (op[t] = "del" => DelInv(t))
  BY <1>1, <1>2 DEF UpdaterInv, Locking, Updating
<1>5. /\ g \in Nat /\ g # None
      /\ h # None => h % 2 = 1 - (g % 2)
  BY <1>2, HeldInstances DEF None
<1>6. /\ g % 2 \in {0, 1} /\ 1 - (g % 2) \in {0, 1} /\ g % 2 # 1 - (g % 2)
  BY <1>5, Slots
<1>7. link[e] \in [{0, 1} -> Insts \union {None}]
  BY <1>1, <1>3 DEF TypeOK
<1>8. CASE Add0(t)
  <2>1. /\ pc[t] = "add0" /\ pc'[t] = IF h = None \/ impl = "hash_resize_s" THEN "unlock" ELSE "add1"
        /\ link'[e] = [link[e] EXCEPT ![g % 2] = g]
    BY <1>1, <1>8, Writes DEF Add0, Update, Goto, TypeOK, Changes
  <2>2. op[t] = "add" /\ mem[e] = "changing" /\ \A i \in {0, 1} : link[e][i] = None
    BY <1>3, <1>4, <2>1 DEF AddInv, DelInv, Changing
  <2>3. link'[e][g % 2] = g /\ link'[e][1 - (g % 2)] = None
    BY <1>6, <1>7, <2>1, <2>2
  <2>4. impl \in {"hash_resize", "hash_resize_s"}
    BY <1>1 DEF TypeOK
  <2>5. AddInv(t)'
    BY <1>2, <2>1, <2>2, <2>3, <2>4 DEF AddInv, Changing, InList
  <2> QED BY <1>2, <2>2, <2>5
<1>9. CASE Add1(t)
  <2>1. pc[t] = "add1" /\ pc'[t] = "unlock" /\ link'[e] = [link[e] EXCEPT ![1 - (g % 2)] = h]
    BY <1>1, <1>9, Writes DEF Add1, Update, Goto, TypeOK, Changes
  <2>2. /\ op[t] = "add" /\ mem[e] = "changing" /\ InList(g, e) /\ h # None
        /\ impl = "hash_resize"
    BY <1>3, <1>4, <2>1 DEF AddInv, DelInv, Changing
  <2>3. link'[e][g % 2] = g /\ link'[e][h % 2] = h
    BY <1>5, <1>6, <1>7, <2>1, <2>2 DEF InList
  <2>4. AddInv(t)'
    BY <1>2, <2>1, <2>2, <2>3 DEF AddInv, Changing, InList
  <2> QED BY <1>2, <2>2, <2>4
<1>10. CASE Del0(t)
  <2>1. /\ pc[t] = "del0" /\ pc'[t] = IF h = None THEN "unlock" ELSE "del1"
        /\ link'[e] = [link[e] EXCEPT ![g % 2] = None]
    BY <1>1, <1>10, Writes DEF Del0, Update, Goto, TypeOK, Changes
  <2>2. op[t] = "del" /\ mem[e] = "changing" /\ (h # None => Linked(h, e))
    BY <1>3, <1>4, <2>1 DEF AddInv, DelInv
  <2>3. link'[e][g % 2] = None /\ (h # None => link'[e][h % 2] = link[e][h % 2])
    BY <1>5, <1>6, <1>7, <2>1
  <2>4. DelInv(t)'
    BY <1>2, <2>1, <2>2, <2>3 DEF DelInv, Linked, InList
  <2> QED BY <1>2, <2>2, <2>4
<1>11. CASE Del1(t)
  <2>1. pc[t] = "del1" /\ pc'[t] = "unlock" /\ link'[e] = [link[e] EXCEPT ![1 - (g % 2)] = None]
    BY <1>1, <1>11, Writes DEF Del1, Update, Goto, TypeOK, Changes
  <2>2. op[t] = "del" /\ mem[e] = "changing" /\ h # None /\ link[e][g % 2] = None
    BY <1>3, <1>4, <2>1 DEF AddInv, DelInv
  <2>3. link'[e][g % 2] = None /\ link'[e][h % 2] = None
    BY <1>5, <1>6, <1>7, <2>1, <2>2
  <2>4. DelInv(t)'
    BY <1>2, <2>1, <2>2, <2>3 DEF DelInv
  <2> QED BY <1>2, <2>2, <2>4
<1> QED BY <1>8, <1>9, <1>10, <1>11

LEMMA UpdaterStep ==
  ASSUME ~ Shared, IInv, [Next]_vars
  PROVE  UpdaterInv'
<1>1. TypeOK /\ ThreadInv
  BY DEF IInv
<1> SUFFICES ASSUME NEW t \in Threads, pc'[t] \in {"lock0"} \union Locking
             PROVE  UpdaterInv!(t)'
  BY DEF UpdaterInv
<1>2. CASE Acts(t)
  <2>1. ~ (\E e \in Elems : LookupDeref(t, e)) /\ ~ LookupReturn(t, "search") /\ ~ LookupReturn(t, "again")
        /\ ~ SearchOn(t) /\ ~ Unlock(t)
    BY <1>1 DEF LookupDeref, LookupReturn, SearchOn, Unlock, Goto, TypeOK, Locking
  <2> QED
    BY <1>2, <2>1, UpdaterBegins, UpdaterLocks, UpdaterLooks, UpdaterWrites DEF Acts, Changes
<1>3. CASE ~ Acts(t)
  <2>1. Same(t)
    BY <1>1, <1>3, Steps, ThreadFrame, OthersFrame
  <2>2. pc[t] \in {"lock0"} \union Locking /\ el[t] \in Elems /\ el[t] % NR_THREADS = t
    BY <1>1, <2>1 DEF Same, ThreadInv, Locking
  <2>3. Untouched(el[t]) \/ MovedNow(el[t])
    BY <1>3, <2>2, ElemFrame
  <2> QED BY <2>1, <2>2, <2>3, UpdaterSame
<1> QED BY <1>2, <1>3

-----------------------------------------------------------------------------
\* What LookupInv says of a thread is kept by every step.

\* Nobody but the thread itself, and the updater that takes its element,
\* changes what a lookup expects.
LEMMA ExpectFrame ==
  ASSUME TypeOK, [Next]_vars, NEW t \in Threads, ~ Acts(t), expect'[t] # "any"
  PROVE  /\ expect'[t] = expect[t]
         /\ \A u \in Threads : ModLookup(u) /\ el[u] = el[t] => Untouched(el[t])
<1>1. ASSUME NEW u \in Threads, u # t, Acts(u) PROVE expect'[t] = expect[t]
  <2>1. CASE ModLookup(u)
    BY <2>1 DEF ModLookup
  <2>2. CASE Unlock(u) \/ LookupReturn(u, "search") \/ LookupReturn(u, "again")
    BY <1>1, <2>2 DEF Unlock, LookupReturn, Leave, TypeOK
  <2>3. CASE \E e \in Elems : LookupDeref(u, e)
    BY <1>1, <2>3 DEF LookupDeref, TypeOK
  <2>4. CASE \E e \in Elems : ModCall(u, "add", e) \/ ModCall(u, "del", e)
    BY <2>4 DEF ModCall
  <2>5. CASE SearchOn(u) \/ Lock0(u) \/ Lock1(u) \/ Add0(u) \/ Add1(u) \/ Del0(u) \/ Del1(u)
    BY <2>5 DEF SearchOn, Lock0, Lock1, Add0, Add1, Del0, Del1, Update
  <2> QED BY <1>1, <2>1, <2>2, <2>3, <2>4, <2>5 DEF Acts, Changes
<1>2. ASSUME Others PROVE expect'[t] = expect[t]
  BY <1>2 DEF Others, DeferDone, ResizeCall, Sync1, ResizeLock, ResizeMove, ResizeNext, Switch,
     Sync2, vars, tvars
<1>3. ASSUME NEW u \in Threads, ModLookup(u), el[u] = el[t] PROVE Untouched(el[t])
  BY <1>3 DEF ModLookup, Untouched
<1> QED BY <1>1, <1>2, <1>3, Steps

LEMMA NewKept ==
  ASSUME IInv, [Next]_vars, NEW g \in Insts, ht_new[g] # None
  PROVE  ht_new'[g] = ht_new[g]
<1>1. TypeOK /\ ResizerInv
  BY DEF IInv
<1>2. ASSUME ResizeCall PROVE ht_new[ht_cur] = None
  BY <1>1, <1>2, Numbers DEF ResizeCall, RGoto, ResizerInv, TypeOK, Busy
<1>3. CASE ResizeCall
  BY <1>1, <1>2, <1>3 DEF ResizeCall, TypeOK
<1>4. CASE Others /\ ~ ResizeCall
  BY <1>4 DEF Others, DeferDone, Sync1, ResizeLock, ResizeMove, ResizeNext, Switch,
     Sync2, vars, tabvars
<1> QED BY <1>1, <1>3, <1>4, Steps, ThreadFrame DEF tabvars

LEMMA LookupStep ==
  ASSUME IInv, [Next]_vars
  PROVE  LookupInv'
<1>1. TypeOK /\ ResizerInv /\ ThreadInv /\ MemInv /\ UpdaterInv /\ LookupInv
  BY DEF IInv
<1>2. impl' = impl /\ ht_cur \in Nat /\ ht_cur \in Insts
  BY <1>1, ImplKept, Numbers DEF TypeOK
<1> SUFFICES ASSUME NEW t \in Threads, pc'[t] \in {"search", "again"} PROVE LookupInv!(t)'
  BY DEF LookupInv
<1>3. ASSUME NEW e \in Elems, LookupDeref(t, e) PROVE LookupInv!(t)'
  <2>1. /\ pc'[t] = "search" /\ el'[t] = e /\ htp'[t] = ht_cur
        /\ expect'[t] = CASE mem[e] = "live"     -> "in"
                          [] mem[e] = "changing" -> "any"
                          [] OTHER               -> "out"
        /\ UNCHANGED <<ht_cur, ht_new, link, mem>>
    BY <1>1, <1>3 DEF LookupDeref, Goto, TypeOK, tabvars
  <2>2. /\ mem[e] = "live" =>
             InList(ht_cur, e) \/ (impl = "hash_resize_s" /\ InNew(ht_cur, e))
        /\ mem[e] \in Dead => ~ InList(ht_cur, e)
    BY FoundWhenLive
  <2>3. mem[e] \in {"free", "live", "changing", "deferred"}
    BY <1>1 DEF TypeOK
  <2>4. CASE expect'[t] = "in"
    <3>1. mem[e] = "live"
      BY <2>1, <2>3, <2>4
    <3> QED BY <1>2, <2>1, <2>2, <2>4, <3>1 DEF InList, InNew
  <2>5. CASE expect'[t] # "in"
    BY <1>2, <2>1, <2>2, <2>3, <2>5 DEF InList, InNew, Dead
  <2> QED BY <2>4, <2>5
<1>4. CASE SearchOn(t)
  <2>1. /\ pc[t] = "search" /\ pc'[t] = "again" /\ ~ InList(htp[t], el[t])
        /\ UNCHANGED <<ht_new, link, mem, el, htp, expect>>
    BY <1>1, <1>4 DEF SearchOn, Goto, TypeOK, tabvars
  <2> QED BY <1>1, <1>2, <2>1 DEF LookupInv, InList, InNew
<1>5. CASE ~ Acts(t)
  <2>1. Same(t)
    BY <1>1, <1>5, Steps, ThreadFrame, OthersFrame
  <2>2. /\ pc[t] \in {"search", "again"} /\ el[t] \in Elems /\ htp[t] \in Insts /\ htp[t] \in Nat
        /\ htp[t] = ht_cur \/ rpc = "sync2"
    BY <1>1, <2>1, Numbers DEF Same, ThreadInv
  <2>3. CASE expect'[t] = "any"
    BY <2>3
  <2>4. CASE expect'[t] # "any"
    <3>1. /\ expect'[t] = expect[t]
          /\ \A u \in Threads : ModLookup(u) /\ el[u] = el[t] => Untouched(el[t])
      BY <1>1, <1>5, <2>4, ExpectFrame
    <3>2. /\ expect[t] = "in" =>
               /\ mem[el[t]] = "live"
               /\ \/ pc[t] = "search" /\ InList(htp[t], el[t])
                  \/ impl = "hash_resize_s" /\ InNew(htp[t], el[t])
          /\ expect[t] = "out" => mem[el[t]] \in Dead /\ ~ InList(htp[t], el[t])
          /\ expect[t] \in {"in", "out"}
      BY <1>1, <2>2, <2>4, <3>1 DEF LookupInv, TypeOK
    <3>3. ASSUME Untouched(el[t]) PROVE LookupInv!(t)'
      <4>1. link'[el[t]] = link[el[t]] /\ (mem[el[t]] = "live" => mem'[el[t]] = "live")
            /\ (mem[el[t]] \in Dead => mem'[el[t]] \in Dead)
        BY <3>3 DEF Untouched, Dead
      <4>2. InNew(htp[t], el[t]) => InList(ht_new[htp[t]], el[t]) /\ ht_new'[htp[t]] = ht_new[htp[t]]
        BY <2>2, NewKept DEF InNew
      <4> QED BY <1>2, <2>1, <3>1, <3>2, <4>1, <4>2 DEF Same, InList, InNew
    <3>4. ASSUME MovedNow(el[t]) PROVE LookupInv!(t)'
      <4>1. /\ mem[el[t]] = "live" /\ mem'[el[t]] = "live" /\ ht_new' = ht_new
            /\ link'[el[t]][ht_cur % 2] = link[el[t]][ht_cur % 2]
            /\ InList(ht_cur + 1, el[t])'
        BY <2>2, <3>4, MoveKeeps
      <4>2. htp[t] = ht_cur /\ ht_new[ht_cur] = ht_cur + 1 /\ ht_cur' = ht_cur
        BY <1>1, <1>2, <2>2, <3>4 DEF MovedNow, ResizerInv, Busy
      <4>3. expect[t] = "in"
        BY <3>2, <4>1 DEF Dead
      <4>4. htp'[t] = ht_cur /\ el'[t] = el[t] /\ pc'[t] = pc[t]
        BY <2>1, <4>2 DEF Same
      <4>5. InList(htp[t], el[t]) => InList(htp[t], el[t])'
        BY <4>1, <4>2, <4>4 DEF InList
      <4>6. InNew(htp[t], el[t]) => InNew(htp[t], el[t])'
        BY <4>1, <4>2, <4>4 DEF InList, InNew
      <4> QED BY <1>2, <2>1, <3>1, <3>2, <4>1, <4>3, <4>4, <4>5, <4>6 DEF Same
    <3>5. ASSUME NEW u \in Threads, u = el[t] % NR_THREADS, el[u] = el[t], Acts(u), Changes(u)
          PROVE  Untouched(el[t])
      <4>1. CASE ModLookup(u)
        BY <3>1, <3>5, <4>1
      <4>2. CASE Add0(u) \/ Add1(u) \/ Del0(u) \/ Del1(u)
        <5>1. /\ pc[u] \in {"add0", "add1", "del0", "del1"}
              /\ op[u] \in {"add", "del"}
          BY <1>1, <4>2 DEF Add0, Add1, Del0, Del1, Update, Goto, ThreadInv, Locking
        <5>2. mem[el[t]] = "changing"
          BY <1>1, <3>5, <5>1 DEF UpdaterInv, AddInv, DelInv, Locking, Changing
        <5> QED BY <3>2, <5>2 DEF Dead
      <4>3. CASE Unlock(u)
        <5>1. mem[el[t]] # "changing" /\ UNCHANGED link
          BY <3>2, <4>3 DEF Unlock, Dead
        <5> QED BY <1>1, <2>2, <3>5, <4>3, <5>1 DEF Unlock, Untouched, TypeOK
      <4> QED BY <3>5, <4>1, <4>2, <4>3 DEF Changes
    <3> QED BY <2>2, <3>3, <3>4, <3>5, ElemFrame
  <2> QED BY <2>3, <2>4
<1>6. CASE Acts(t)
  <2>1. ~ (\E e \in Elems : ModCall(t, "add", e) \/ ModCall(t, "del", e))
        /\ ~ LookupReturn(t, "search") /\ ~ LookupReturn(t, "again") /\ ~ Lock0(t) /\ ~ Lock1(t)
    BY <1>1 DEF ModCall, LookupReturn, Lock0, Lock1, Goto, TypeOK
  <2>2. ~ Changes(t)
    BY <1>1 DEF Changes, ModLookup, Add0, Add1, Del0, Del1, Update, Unlock, Goto, TypeOK
  <2> QED BY <1>3, <1>4, <1>6, <2>1, <2>2 DEF Acts
<1> QED BY <1>5, <1>6

-----------------------------------------------------------------------------
LEMMA InitIInv == Init => IInv
<1> SUFFICES ASSUME Init PROVE IInv
  OBVIOUS
<1>1. TypeOK
  BY InitType
<1> USE Numbers DEF Init
<1>2. ResizerInv
  BY DEF ResizerInv, Busy, Insts
<1>3. ThreadInv /\ LockInv /\ UpdaterInv /\ LookupInv
  BY DEF ThreadInv, LockInv, UpdaterInv, LookupInv, Locking, Updating
<1>4. \A e \in Elems : /\ link[e] = [i \in {0, 1} |-> None] /\ mem[e] = "free"
                       /\ ~ InList(ht_cur, e) /\ ~ InList(ht_cur + 1, e)
  BY DEF InList, None
<1>5. LinkInv
  BY <1>4 DEF LinkInv
<1>6. MemInv
  BY <1>4 DEF MemInv
<1> QED BY <1>1, <1>2, <1>3, <1>5, <1>6 DEF IInv

LEMMA NextIInv ==
  ASSUME ~ Shared, IInv, [Next]_vars
  PROVE  IInv'
  BY TypeStep, ResizerStep, ThreadStepInv, LockStep, LinkStep, MemStep, UpdaterStep, LookupStep
  DEF IInv

\* The two properties of module HashResize follow from the invariant.
LEMMA InvLookup == IInv => LookupCorrect
<1> SUFFICES ASSUME IInv, NEW t \in Threads, pc[t] \in {"search", "again"}
             PROVE  LookupCorrect!(t)
  BY DEF LookupCorrect
<1>1. TypeOK /\ ResizerInv /\ ThreadInv /\ MemInv /\ LookupInv
  BY DEF IInv
<1>2. /\ expect[t] = "in" =>
           \/ pc[t] = "search" /\ InList(htp[t], el[t])
           \/ impl = "hash_resize_s" /\ InNew(htp[t], el[t])
      /\ expect[t] = "out" => mem[el[t]] \in Dead /\ ~ InList(htp[t], el[t])
  BY <1>1 DEF LookupInv
<1>3. ASSUME mem[el[t]] \in Dead PROVE ~ InNew(htp[t], el[t])
  <2>1. /\ el[t] \in Elems /\ htp[t] \in Insts
        /\ htp[t] = ht_cur \/ htp[t] = ht_cur - 1
    BY <1>1 DEF ThreadInv
  <2>2. ht_new[htp[t]] \in {None, htp[t] + 1} /\ htp[t] \in Nat /\ ht_cur \in Nat
    BY <1>1, <2>1, Numbers DEF ResizerInv, TypeOK
  <2>3. ~ InList(ht_cur, el[t]) /\ ~ InList(ht_cur + 1, el[t])
    BY <1>1, <1>3, <2>1 DEF MemInv
  <2>4. htp[t] + 1 = ht_cur \/ htp[t] + 1 = ht_cur + 1
    BY <2>1, <2>2
  <2> QED BY <2>2, <2>3, <2>4 DEF InNew
<1> QED BY <1>2, <1>3

LEMMA InvIntact == IInv => InstanceIntact
<1> SUFFICES ASSUME IInv, NEW t \in Threads
             PROVE  /\ htp[t] # None =>
                         /\ htp[t] \notin freed
                         /\ \A e \in Elems :
                              /\ InList(htp[t], e) => mem[e] # "free"
                              /\ link[e][htp[t] % 2] <= htp[t]
                    /\ pc[t] = "del0" => Linked(hbp[t][1], el[t])
                    /\ pc[t] \in {"del0", "del1"} /\ hbp[t][2] # None => Linked(hbp[t][2], el[t])
  BY DEF InstanceIntact, Linked
<1>1. TypeOK /\ ResizerInv /\ ThreadInv /\ LinkInv /\ MemInv /\ UpdaterInv
  BY DEF IInv
<1>2. ASSUME htp[t] # None
      PROVE  /\ htp[t] \in Insts /\ htp[t] \in Nat /\ ht_cur \in Nat
             /\ htp[t] = ht_cur \/ (rpc = "sync2" /\ htp[t] = ht_cur - 1)
  BY <1>1, <1>2, Numbers DEF ThreadInv, TypeOK
<1>3. ASSUME htp[t] # None PROVE htp[t] \notin freed
  BY <1>1, <1>2, <1>3 DEF ResizerInv
<1>4. ASSUME htp[t] # None, NEW e \in Elems, InList(htp[t], e) PROVE mem[e] # "free"
  BY <1>1, <1>4 DEF MemInv, Dead
<1>5. ASSUME htp[t] # None, NEW e \in Elems PROVE link[e][htp[t] % 2] <= htp[t]
  <2> DEFINE i == htp[t] % 2
             l == link[e][i]
  <2>1. i \in {0, 1} /\ (ht_cur + 1) % 2 \in {0, 1}
    BY <1>2, <1>5, Slots
  <2>2. l \in Nat \/ l = None
    <3>1. l \in Insts \union {None}
      BY <1>1, <2>1 DEF TypeOK
    <3> QED BY <3>1, Numbers
  <2>3. l # None => l % 2 = i /\ l <= ht_cur + 1
    BY <1>1, <2>1 DEF LinkInv
  <2>4. CASE l = None
    BY <1>2, <1>5, <2>4 DEF None
  <2>5. CASE l # None /\ htp[t] = ht_cur
    BY <1>2, <1>5, <2>2, <2>3, <2>5, Slots
  <2>6. CASE l # None /\ rpc = "sync2" /\ htp[t] = ht_cur - 1
    <3>1. ~ InList(ht_cur + 1, e)
      BY <1>1, <2>6, MovedBusy DEF LinkInv, Busy
    <3>2. (ht_cur + 1) % 2 = i
      BY <1>2, <1>5, <2>6
    <3>3. l # ht_cur + 1
      BY <3>1, <3>2 DEF InList
    <3>4. l # ht_cur
      BY <1>2, <1>5, <2>3, <2>6, <3>2, Slots
    <3> QED BY <1>2, <1>5, <2>2, <2>3, <2>6, <3>3, <3>4
  <2> QED BY <1>2, <1>5, <2>4, <2>5, <2>6
<1>6. ASSUME pc[t] \in {"del0", "del1"} PROVE DelInv(t)
  BY <1>1, <1>6 DEF UpdaterInv, ThreadInv, AddInv, Locking
<1> QED BY <1>3, <1>4, <1>5, <1>6 DEF DelInv

-----------------------------------------------------------------------------
\* Every state of the resizable hash tables satisfies the invariant, when
\* threads delete only elements they have added themselves.
THEOREM Invariance == ~ Shared => (Spec => []IInv)
<1> SUFFICES ASSUME ~ Shared PROVE Spec => []IInv
  OBVIOUS
<1>1. Init => IInv
  BY InitIInv
<1>2. IInv /\ [Next]_vars => IInv'
  BY NextIInv
<1> QED BY <1>1, <1>2, PTL DEF Spec

\* hashtab_lookup() answers correctly at every stage of a hashtab_resize(): what
\* was in the table all along is found and what was not is not, through either
\* instance and in both programs.
THEOREM LookupsCorrect == ~ Shared => (Spec => []LookupCorrect)
<1> SUFFICES ASSUME ~ Shared PROVE Spec => []LookupCorrect
  OBVIOUS
<1>1. Spec => []IInv
  BY Invariance
<1>2. IInv => LookupCorrect
  BY InvLookup
<1> QED BY <1>1, <1>2, PTL

\* No thread uses an instance that hashtab_resize() has freed, a list of the
\* instance in use holds no freed and no foreign element, and hashtab_del()
\* unlinks an element from the very lists whose buckets it has locked.
THEOREM InstancesIntact == ~ Shared => (Spec => []InstanceIntact)
<1> SUFFICES ASSUME ~ Shared PROVE Spec => []InstanceIntact
  OBVIOUS
<1>1. Spec => []IInv
  BY Invariance
<1>2. IInv => InstanceIntact
  BY InvIntact
<1> QED BY <1>1, <1>2, PTL
=============================================================================
