---------------------------- MODULE HazptrProofs ----------------------------
(*****************************************************************************)
(* Proofs about module HazptrTables: for any number of threads, routes,      *)
(* keys, buckets and objects, nothing a lookup stands on is freed, every     *)
(* allocated entry is reachable, and a key that stays in the hash table is   *)
(* found. The first part is the hazard-pointer protocol by itself: what      *)
(* every step of either table does to the hazard pointers, the retired       *)
(* lists and the memory, and that an object once guarded stays guarded. The  *)
(* second and the third are the two tables, each with its invariant.         *)
(*****************************************************************************)
EXTENDS HazptrTables, FiniteSetTheorems, SequenceTheorems, NaturalsInduction, WellFoundedInduction, TLAPS

\* Min() of a set of naturals is its smallest element.
LEMMA Smallest ==
  ASSUME NEW I \in SUBSET Nat, I # {}
  PROVE  Min(I) \in I /\ \A j \in I : Min(I) <= j
<1>1. IsWellFoundedOn(OpToRel(<, Nat), Nat)
  BY NatLessThanWellFounded
<1>2. \E i \in I : \A j \in I : ~ (<<j, i>> \in OpToRel(<, Nat))
  BY <1>1, WFMin, Zenon
<1>3. PICK i \in I : \A j \in I : ~ (<<j, i>> \in OpToRel(<, Nat))
  BY <1>2
<1>4. ASSUME NEW j \in I PROVE i <= j
  <2>1. i \in Nat /\ j \in Nat
    OBVIOUS
  <2>2. <<j, i>> \in Nat \X Nat /\ ~ (<<j, i>> \in OpToRel(<, Nat))
    BY <1>3, <2>1
  <2>3. ~ (j < i)
    BY <2>1, <2>2 DEF OpToRel
  <2> QED BY <2>1, <2>3
<1> QED BY <1>4 DEF Min

\* No object is linked twice.
OneToOne(s) == \A i, j \in DOMAIN s : s[i] = s[j] => i = j

\* SelectInSeq() finds an object that is in the sequence.
LEMMA Selected ==
  ASSUME NEW S, NEW s \in Seq(S), NEW o \in ToSet(s)
  PROVE  LET i == SelectInSeq(s, LAMBDA x : x = o) IN i \in 1 .. Len(s) /\ s[i] = o
<1> DEFINE I == {i \in 1 .. Len(s) : s[i] = o}
<1>1. I # {} /\ I \in SUBSET Nat
  BY DEF ToSet
<1>2. Min(I) \in I
  BY <1>1, Smallest
<1>3. SelectInSeq(s, LAMBDA x : x = o) = Min(I)
  BY <1>1 DEF SelectInSeq
<1> QED BY <1>2, <1>3

\* RemoveAt() closes the gap.
LEMMA RemovedAt ==
  ASSUME NEW S, NEW s \in Seq(S), NEW n \in 1 .. Len(s)
  PROVE  /\ RemoveAt(s, n) \in Seq(S) /\ Len(RemoveAt(s, n)) = Len(s) - 1
         /\ \A j \in 1 .. Len(s) - 1 : RemoveAt(s, n)[j] = IF j < n THEN s[j] ELSE s[j + 1]
<1> DEFINE a == SubSeq(s, 1, n - 1)
           b == SubSeq(s, n + 1, Len(s))
<1>1. Len(s) \in Nat /\ n \in Nat /\ n >= 1 /\ n <= Len(s)
  OBVIOUS
<1>2. /\ a \in Seq(S) /\ Len(a) = n - 1
      /\ \A j \in 1 .. n - 1 : a[j] = s[j]
  BY <1>1
<1>3. /\ b \in Seq(S) /\ Len(b) = Len(s) - n
      /\ \A j \in 1 .. Len(s) - n : b[j] = s[n + j]
  <2>1. b \in Seq(S) /\ Len(b) = Len(s) - n
    BY <1>1
  <2>2. \A j \in 1 .. Len(s) - n : b[j] = s[(n + 1) + j - 1]
    BY <1>1
  <2>3. \A j \in 1 .. Len(s) - n : (n + 1) + j - 1 = n + j
    BY <1>1
  <2> QED BY <2>1, <2>2, <2>3
<1>4. RemoveAt(s, n) = a \o b
  BY DEF RemoveAt
<1> HIDE DEF a, b
<1>5. a \o b \in Seq(S) /\ Len(a \o b) = Len(s) - 1
  <2>1. a \o b \in Seq(S) /\ Len(a \o b) = Len(a) + Len(b)
    BY <1>2, <1>3, ConcatProperties
  <2> QED BY <1>1, <1>2, <1>3, <2>1
<1>6. ASSUME NEW j \in 1 .. Len(s) - 1 PROVE (a \o b)[j] = IF j < n THEN s[j] ELSE s[j + 1]
  <2>3. j \in Nat /\ j >= 1 /\ j <= Len(s) - 1
    BY <1>1
  <2>4. (a \o b)[j] = IF j <= Len(a) THEN a[j] ELSE b[j - Len(a)]
    BY <1>1, <1>2, <1>3, <2>3, ConcatProperties
  <2>1. CASE j < n
    <3>1. j <= Len(a) /\ j \in 1 .. n - 1
      BY <1>1, <1>2, <2>1, <2>3
    <3> QED BY <1>2, <2>1, <2>4, <3>1
  <2>2. CASE j >= n
    <3>1. (a \o b)[j] = b[j - (n - 1)] /\ j - (n - 1) \in 1 .. Len(s) - n
      BY <1>1, <1>2, <2>2, <2>3, <2>4
    <3>2. b[j - (n - 1)] = s[n + (j - (n - 1))] /\ n + (j - (n - 1)) = j + 1
      BY <1>1, <1>3, <3>1
    <3> QED BY <1>1, <2>2, <3>1, <3>2
  <2>5. j < n \/ j >= n
    BY <1>1, <2>3
  <2> QED BY <2>1, <2>2, <2>5, Zenon
<1> QED BY <1>4, <1>5, <1>6

\* Linking at the head
LEMMA Consed ==
  ASSUME NEW S, NEW s \in Seq(S), NEW o \in S
  PROVE  /\ <<o>> \o s \in Seq(S) /\ Len(<<o>> \o s) = Len(s) + 1
         /\ (<<o>> \o s)[1] = o
         /\ \A j \in 1 .. Len(s) : (<<o>> \o s)[j + 1] = s[j]
         /\ \A j \in 1 .. Len(s) + 1 : (<<o>> \o s)[j] = IF j = 1 THEN o ELSE s[j - 1]
<1>1. <<o>> \in Seq(S) /\ Len(<<o>>) = 1 /\ <<o>>[1] = o /\ Len(s) \in Nat
  OBVIOUS
<1>2. <<o>> \o s \in Seq(S) /\ Len(<<o>> \o s) = Len(s) + 1
  BY <1>1
<1>3. \A j \in 1 .. Len(s) + 1 : (<<o>> \o s)[j] = IF j = 1 THEN o ELSE s[j - 1]
  BY <1>1
<1> QED BY <1>1, <1>2, <1>3

\* Unlinking takes one object out of a list.
LEMMA Removed ==
  ASSUME NEW S, NEW s \in Seq(S), OneToOne(s), NEW n \in 1 .. Len(s)
  PROVE  /\ RemoveAt(s, n) \in Seq(S) /\ OneToOne(RemoveAt(s, n))
         /\ ToSet(RemoveAt(s, n)) = ToSet(s) \ {s[n]}
<1> DEFINE r == RemoveAt(s, n)
           at(j) == IF j < n THEN j ELSE j + 1
<1>1. /\ r \in Seq(S) /\ Len(r) = Len(s) - 1
      /\ \A j \in 1 .. Len(r) : r[j] = IF j < n THEN s[j] ELSE s[j + 1]
  BY RemovedAt
<1>2. Len(s) \in Nat /\ Len(r) \in Nat /\ DOMAIN s = 1 .. Len(s) /\ DOMAIN r = 1 .. Len(r)
  BY <1>1
<1> HIDE DEF r
<1>3. \A j \in 1 .. Len(r) : at(j) \in 1 .. Len(s) /\ at(j) # n /\ r[j] = s[at(j)]
  BY <1>1, <1>2
<1>4. \A j, k \in 1 .. Len(r) : at(j) = at(k) => j = k
  BY <1>2
<1>5. \A k \in 1 .. Len(s) : k # n => \E j \in 1 .. Len(r) : at(j) = k
  <2> SUFFICES ASSUME NEW k \in 1 .. Len(s), k # n PROVE \E j \in 1 .. Len(r) : at(j) = k
    OBVIOUS
  <2>1. CASE k < n
    <3>1. k \in 1 .. Len(r) /\ at(k) = k
      BY <1>1, <1>2, <2>1
    <3> QED BY <3>1
  <2>2. CASE k > n
    <3>1. k - 1 \in 1 .. Len(r) /\ at(k - 1) = k
      BY <1>1, <1>2, <2>2
    <3> QED BY <3>1
  <2> QED BY <1>2, <2>1, <2>2
<1> HIDE DEF at
<1>6. OneToOne(r)
  BY <1>2, <1>3, <1>4 DEF OneToOne
<1>7. ToSet(r) = ToSet(s) \ {s[n]}
  <2>1. \A j \in 1 .. Len(r) : r[j] \in ToSet(s) \ {s[n]}
    BY <1>2, <1>3 DEF ToSet, OneToOne
  <2>2. \A k \in 1 .. Len(s) : s[k] # s[n] => s[k] \in ToSet(r)
    BY <1>2, <1>3, <1>5 DEF ToSet
  <2> QED BY <1>2, <2>1, <2>2 DEF ToSet
<1> QED BY <1>1, <1>6, <1>7 DEF r

\* Linking puts one object into a list.
LEMMA Added ==
  ASSUME NEW S, NEW s \in Seq(S), OneToOne(s), NEW o \in S, o \notin ToSet(s)
  PROVE  /\ <<o>> \o s \in Seq(S) /\ OneToOne(<<o>> \o s)
         /\ ToSet(<<o>> \o s) = ToSet(s) \union {o}
<1> DEFINE r == <<o>> \o s
<1>1. /\ r \in Seq(S) /\ Len(r) = Len(s) + 1 /\ r[1] = o
      /\ \A j \in 1 .. Len(s) : r[j + 1] = s[j]
      /\ \A j \in 1 .. Len(r) : r[j] = IF j = 1 THEN o ELSE s[j - 1]
  BY Consed
<1>2. Len(s) \in Nat /\ DOMAIN s = 1 .. Len(s) /\ DOMAIN r = 1 .. Len(r)
  BY <1>1
<1> HIDE DEF r
<1>3. \A j \in 1 .. Len(r) : j # 1 => j - 1 \in 1 .. Len(s) /\ r[j] = s[j - 1]
  BY <1>1, <1>2
<1>4. \A j \in 1 .. Len(s) : s[j] \in ToSet(s) /\ s[j] # o
  BY <1>2 DEF ToSet
<1>5. OneToOne(r)
  <2> SUFFICES ASSUME NEW i \in 1 .. Len(r), NEW j \in 1 .. Len(r), r[i] = r[j] PROVE i = j
    BY <1>2 DEF OneToOne
  <2>1. CASE i = 1 \/ j = 1
    BY <1>1, <1>3, <1>4, <2>1
  <2>2. CASE i # 1 /\ j # 1
    <3>1. i - 1 = j - 1
      BY <1>2, <1>3, <2>2 DEF OneToOne
    <3> QED BY <3>1, <1>1, <1>2
  <2> QED BY <2>1, <2>2
<1>6. ToSet(r) = ToSet(s) \union {o}
  <2>1. \A j \in 1 .. Len(r) : r[j] \in ToSet(s) \union {o}
    BY <1>1, <1>3, <1>4
  <2>2. 1 \in 1 .. Len(r) /\ \A j \in 1 .. Len(s) : j + 1 \in 1 .. Len(r)
    BY <1>1, <1>2
  <2>3. o \in ToSet(r) /\ \A j \in 1 .. Len(s) : s[j] \in ToSet(r)
    BY <1>1, <1>2, <2>2 DEF ToSet
  <2> QED BY <1>2, <2>1, <2>3 DEF ToSet
<1> QED BY <1>1, <1>5, <1>6 DEF r

-----------------------------------------------------------------------------
\* Where a thread can be, in either table
PCs == {"idle", "load", "store", "mb", "reload", "compare", "found", "del_poison", "clear",
        "scan_mb", "scan", "scan_free", "exit", "exited"}

\* Inside hazptr_scan() after its smp_mb()
Scanning == {"scan", "scan_free"}

\* Where hazptr_scan() can return to
Returns == {"idle", "clear", "exit"}

\* The state of the protocol for h hazard pointers: an object is retired exactly when it is on the
\* rlist of one thread.
Proto(h) ==
  /\ HP \in [0 .. h - 1 -> Objects \union {NULL}]
  /\ rlist \in [Threads -> SUBSET Objects]
  /\ plist \in [Threads -> SUBSET Objects]
  /\ scan \in [Threads -> 0 .. h - 1]
  /\ mem \in [Objects -> {"free", "live", "retired"}]
  /\ after \in [Threads -> Returns]
  /\ pc \in [Threads -> PCs]
  /\ \A t, u \in Threads : t # u => rlist[t] \intersect rlist[u] = {}
  /\ \A o \in Objects : mem[o] = "retired" <=> \E t \in Threads : o \in rlist[t]
  /\ rcount \in [Threads -> Nat]
  /\ \A t \in Threads : IsFiniteSet(rlist[t]) /\ rcount[t] = Cardinality(rlist[t])

\* Hazard pointer i keeps o from being freed: it holds o, and no scan that would free o has gone
\* past i without collecting it. A scan that has begun with o on its rlist still has to come to i,
\* or has o in its plist.
Guarded(o, i) ==
  Near =>
    /\ mem[o] # "free"
    /\ HP[i] = o
    /\ \A u \in Threads :
         o \in rlist[u] /\ pc[u] \in Scanning =>
           \/ o \in plist[u]
           \/ pc[u] = "scan" /\ scan[u] <= i

\* A step of t outside a scan that changes neither the hazard pointers nor the memory
Moves(t) ==
  /\ \E x \in PCs \ Scanning : pc' = [pc EXCEPT ![t] = x]
  /\ after' \in [Threads -> Returns]
  /\ UNCHANGED <<HP, rlist, rcount, plist, scan, mem>>

\* An add takes o from the free memory.
Allocates(o) ==
  /\ mem[o] = "free"
  /\ mem' = [mem EXCEPT ![o] = "live"]
  /\ UNCHANGED <<HP, rlist, rcount, plist, scan, after, pc>>

\* hazptr_free_later() for an object of the table
Retires(t, o) ==
  /\ mem[o] = "live"
  /\ mem' = [mem EXCEPT ![o] = "retired"]
  /\ rlist' = [rlist EXCEPT ![t] = @ \union {o}]
  /\ rcount' = [rcount EXCEPT ![t] = @ + 1]
  /\ \E x \in PCs \ Scanning : pc' = [pc EXCEPT ![t] = x]
  /\ after' \in [Threads -> Returns]
  /\ UNCHANGED <<HP, plist, scan>>

\* hazptr_scan() passes its smp_mb().
Begins(t) ==
  /\ pc[t] = "scan_mb"
  /\ pc' = [pc EXCEPT ![t] = "scan"]
  /\ plist' = [plist EXCEPT ![t] = {}]
  /\ scan' = [scan EXCEPT ![t] = 0]
  /\ UNCHANGED <<HP, rlist, rcount, after, mem>>

\* hazptr_scan() looks at one of the h hazard pointers.
Collects(t, h) ==
  /\ pc[t] = "scan"
  /\ plist' = [plist EXCEPT ![t] = @ \union ({HP[scan[t]]} \ {NULL})]
  /\ \/ scan[t] + 1 < h /\ scan' = [scan EXCEPT ![t] = @ + 1] /\ UNCHANGED pc
     \/ ~ (scan[t] + 1 < h) /\ pc' = [pc EXCEPT ![t] = "scan_free"] /\ UNCHANGED scan
  /\ UNCHANGED <<HP, rlist, rcount, after, mem>>

\* hazptr_scan() frees what it has not collected, some F, and counts the rest.
Frees(t, F) ==
  /\ F \in SUBSET rlist[t] /\ (Near => F = rlist[t] \ plist[t])
  /\ pc[t] = "scan_free"
  /\ pc' = [pc EXCEPT ![t] = after[t]]
  /\ mem' = [o \in Objects |-> IF o \in F THEN "free" ELSE mem[o]]
  /\ rlist' = [rlist EXCEPT ![t] = @ \ F]
  /\ rcount' = [rcount EXCEPT ![t] = Cardinality(rlist'[t])]
  /\ plist' = [plist EXCEPT ![t] = {}]
  /\ scan' = [scan EXCEPT ![t] = 0]
  /\ UNCHANGED <<HP, after>>

\* A store to a hazard pointer becomes visible.
Drains(h) ==
  /\ \E i \in 0 .. h - 1 : \E o \in Objects \union {NULL} : HP' = [HP EXCEPT ![i] = o]
  /\ UNCHANGED <<rlist, rcount, plist, scan, after, mem, pc>>

\* What a step of t does to the protocol
HazptrStep(t, h) ==
  \/ Moves(t) \/ Begins(t) \/ Collects(t, h) \/ (\E F \in SUBSET rlist[t] : Frees(t, F)) \/ Drains(h)
  \/ \E o \in Objects : Allocates(o) \/ Retires(t, o)

\* Every step keeps the state of the protocol: in particular what a scan frees is on no other rlist.
LEMMA ProtoKept ==
  ASSUME NEW h \in Nat \ {0}, Proto(h), NEW t \in Threads, HazptrStep(t, h)
  PROVE  Proto(h)'
<1>1. CASE Moves(t)
  <2>1. pc' \in [Threads -> PCs]
    BY <1>1 DEF Proto, Moves
  <2> QED BY <1>1, <2>1 DEF Proto, Moves
<1>2. CASE Begins(t)
  BY <1>2 DEF Proto, Begins, PCs
<1>3. CASE Collects(t, h)
  <2>1. HP[scan[t]] \in Objects \union {NULL}
    BY DEF Proto
  <2>2. plist' \in [Threads -> SUBSET Objects]
    BY <1>3, <2>1 DEF Proto, Collects
  <2>4. scan' \in [Threads -> 0 .. h - 1]
    <3>1. scan[t] \in 0 .. h - 1 /\ scan \in [Threads -> 0 .. h - 1]
      BY DEF Proto
    <3>2. scan[t] + 1 < h => scan[t] + 1 \in 0 .. h - 1
      BY <3>1
    <3> QED BY <1>3, <3>1, <3>2 DEF Collects
  <2>5. pc' \in [Threads -> PCs]
    BY <1>3 DEF Proto, Collects, PCs
  <2>3. scan' \in [Threads -> 0 .. h - 1] /\ pc' \in [Threads -> PCs]
    BY <2>4, <2>5
  <2> QED BY <1>3, <2>2, <2>3 DEF Proto, Collects
<1>4. ASSUME NEW F \in SUBSET rlist[t], Frees(t, F) PROVE Proto(h)'
  <2>1. rlist' \in [Threads -> SUBSET Objects] /\ plist' \in [Threads -> SUBSET Objects]
    BY <1>4 DEF Proto, Frees
  <2>2. mem' \in [Objects -> {"free", "live", "retired"}] /\ scan' \in [Threads -> 0 .. h - 1]
    BY <1>4 DEF Proto, Frees
  <2>3. pc' \in [Threads -> PCs]
    BY <1>4 DEF Proto, Frees, PCs, Returns
  <2>4. \A u \in Threads : rlist'[u] = IF u = t THEN rlist[t] \ F ELSE rlist[u]
    BY <1>4 DEF Proto, Frees
  <2>5. \A u, v \in Threads : u # v => rlist'[u] \intersect rlist'[v] = {}
    BY <2>4 DEF Proto
  <2>6. ASSUME NEW o \in Objects
        PROVE  mem'[o] = "retired" <=> \E u \in Threads : o \in rlist'[u]
    <3>1. mem'[o] = IF o \in F THEN "free" ELSE mem[o]
      BY <1>4 DEF Frees
    <3>2. mem[o] = "retired" <=> \E u \in Threads : o \in rlist[u]
      BY DEF Proto
    <3>3. \A u, v \in Threads : o \in rlist[u] /\ o \in rlist[v] => u = v
      BY DEF Proto
    <3> QED BY <1>4, <2>4, <3>1, <3>2, <3>3
  <2>7. /\ rcount' \in [Threads -> Nat]
        /\ \A u \in Threads : IsFiniteSet(rlist'[u]) /\ rcount'[u] = Cardinality(rlist'[u])
    <3>1. IsFiniteSet(rlist[t] \ F)
      BY FS_Subset DEF Proto
    <3>2. Cardinality(rlist'[t]) \in Nat
      BY <2>4, <3>1, FS_CardinalityType
    <3>3. rcount' = [rcount EXCEPT ![t] = Cardinality(rlist'[t])]
      BY <1>4 DEF Frees
    <3> QED BY <2>4, <3>1, <3>2, <3>3 DEF Proto
  <2>8. after' = after /\ HP' = HP
    BY <1>4 DEF Frees
  <2> QED BY <2>1, <2>2, <2>3, <2>5, <2>6, <2>7, <2>8 DEF Proto
<1>5. CASE Drains(h)
  BY <1>5 DEF Proto, Drains
<1>6. ASSUME NEW o \in Objects, Allocates(o) PROVE Proto(h)'
  <2>1. mem' \in [Objects -> {"free", "live", "retired"}]
    BY <1>6 DEF Proto, Allocates
  <2>2. \A x \in Objects : mem'[x] = "retired" <=> mem[x] = "retired"
    BY <1>6 DEF Proto, Allocates
  <2> QED BY <1>6, <2>1, <2>2 DEF Proto, Allocates
<1>7. ASSUME NEW o \in Objects, Retires(t, o) PROVE Proto(h)'
  <2>1. mem' \in [Objects -> {"free", "live", "retired"}] /\ pc' \in [Threads -> PCs]
    BY <1>7 DEF Proto, Retires
  <2>2. rlist' \in [Threads -> SUBSET Objects]
    BY <1>7 DEF Proto, Retires
  <2>3. \A u \in Threads : rlist'[u] = IF u = t THEN rlist[t] \union {o} ELSE rlist[u]
    BY <1>7 DEF Proto, Retires
  <2>4. \A u \in Threads : o \notin rlist[u]
    BY <1>7 DEF Proto, Retires
  <2>5. \A u, v \in Threads : u # v => rlist'[u] \intersect rlist'[v] = {}
    <3>1. \A u, v \in Threads : u # v => rlist[u] \intersect rlist[v] = {}
      BY DEF Proto
    <3> QED BY <2>3, <2>4, <3>1
  <2>6. \A x \in Objects : mem'[x] = IF x = o THEN "retired" ELSE mem[x]
    BY <1>7 DEF Proto, Retires
  <2>7. ASSUME NEW x \in Objects
        PROVE  mem'[x] = "retired" <=> \E u \in Threads : x \in rlist'[u]
    <3>1. mem[x] = "retired" <=> \E u \in Threads : x \in rlist[u]
      BY DEF Proto
    <3>2. CASE x = o
      BY <2>3, <2>6, <3>2
    <3>3. CASE x # o
      <4>1. \A u \in Threads : x \in rlist'[u] <=> x \in rlist[u]
        BY <2>3, <3>3
      <4> QED BY <2>6, <3>1, <3>3, <4>1
    <3> QED BY <3>2, <3>3
  <2>8. /\ rcount' \in [Threads -> Nat]
        /\ \A u \in Threads : IsFiniteSet(rlist'[u]) /\ rcount'[u] = Cardinality(rlist'[u])
    <3>1. /\ IsFiniteSet(rlist[t] \union {o})
          /\ Cardinality(rlist[t] \union {o}) = Cardinality(rlist[t]) + 1
      BY <2>4, FS_AddElement DEF Proto
    <3>2. rcount' = [rcount EXCEPT ![t] = @ + 1]
      BY <1>7 DEF Retires
    <3> QED BY <2>3, <3>1, <3>2 DEF Proto
  <2>9. after' \in [Threads -> Returns] /\ UNCHANGED <<HP, plist, scan>>
    BY <1>7 DEF Retires
  <2> QED BY <2>1, <2>2, <2>5, <2>7, <2>8, <2>9 DEF Proto
<1> QED BY <1>1, <1>2, <1>3, <1>4, <1>5, <1>6, <1>7 DEF HazptrStep

\* An object that is guarded stays guarded, whatever any thread does, until its hazard pointer is
\* overwritten. The scan cases are the point: a thread that retires o later begins its scan later,
\* so that it comes to i after o was stored there.
LEMMA GuardKept ==
  ASSUME NEW h \in Nat \ {0}, Proto(h), NEW t \in Threads, HazptrStep(t, h),
         NEW o \in Objects, NEW i \in 0 .. h - 1, Guarded(o, i), HP'[i] = HP[i], NULL \notin Objects
  PROVE  Guarded(o, i)'
<1> SUFFICES ASSUME Near PROVE Guarded(o, i)'
  BY DEF Guarded
<1>1. CASE Moves(t)
  BY <1>1 DEF Proto, Moves, Guarded, Scanning
<1>2. CASE Begins(t)
  <2>1. \A u \in Threads : u # t => plist'[u] = plist[u] /\ scan'[u] = scan[u] /\ pc'[u] = pc[u]
    BY <1>2 DEF Proto, Begins
  <2>2. pc'[t] = "scan" /\ scan'[t] = 0 /\ 0 <= i
    BY <1>2 DEF Proto, Begins
  <2> QED BY <1>2, <2>1, <2>2 DEF Guarded, Begins
<1>3. CASE Collects(t, h)
  <2>1. \A u \in Threads : u # t => plist'[u] = plist[u] /\ scan'[u] = scan[u] /\ pc'[u] = pc[u]
    BY <1>3 DEF Proto, Collects
  <2>2. plist'[t] = plist[t] \union ({HP[scan[t]]} \ {NULL})
    BY <1>3 DEF Proto, Collects
  <2>3. scan[t] \in 0 .. h - 1 /\ i \in 0 .. h - 1 /\ HP[i] = o
    BY DEF Proto, Guarded
  <2>4. o \in rlist[t] => o \in plist[t] \/ scan[t] <= i
    BY <1>3 DEF Guarded, Collects, Scanning
  <2>5. o \in rlist[t] => o \in plist'[t] \/ scan[t] + 1 <= i
    <3>1. scan[t] = i \/ scan[t] > i \/ scan[t] + 1 <= i
      BY <2>3
    <3>2. scan[t] = i => o \in plist'[t]
      BY <2>2, <2>3
    <3>3. scan[t] > i => ~ (scan[t] <= i)
      BY <2>3
    <3>4. o \in plist[t] => o \in plist'[t]
      BY <2>2
    <3> QED BY <2>4, <3>1, <3>2, <3>3, <3>4, Zenon
  <2>6. \/ pc'[t] = "scan" /\ scan'[t] = scan[t] + 1
        \/ ~ (scan[t] + 1 < h)
    BY <1>3 DEF Proto, Collects
  <2>7. o \in rlist[t] => o \in plist'[t] \/ (pc'[t] = "scan" /\ scan'[t] <= i)
    BY <2>3, <2>5, <2>6
  <2> QED BY <1>3, <2>1, <2>7 DEF Guarded, Collects
<1>4. ASSUME NEW F \in SUBSET rlist[t], Frees(t, F) PROVE Guarded(o, i)'
  <2>1. \A u \in Threads : u # t => plist'[u] = plist[u] /\ scan'[u] = scan[u] /\ pc'[u] = pc[u]
    BY <1>4 DEF Proto, Frees
  <2>2. o \in rlist[t] => o \in plist[t]
    BY <1>4 DEF Guarded, Frees, Scanning
  <2>3. mem'[o] = mem[o]
    BY <1>4, <2>2 DEF Frees
  <2>4. \A u \in Threads : o \in rlist'[u] => o \in rlist[u]
    BY <1>4 DEF Proto, Frees
  <2>5. pc'[t] \notin Scanning
    BY <1>4 DEF Proto, Frees, Scanning, Returns
  <2> QED BY <1>4, <2>1, <2>3, <2>4, <2>5 DEF Guarded, Frees
<1>5. CASE Drains(h)
  BY <1>5 DEF Drains, Guarded
<1>6. ASSUME NEW x \in Objects, Allocates(x) PROVE Guarded(o, i)'
  <2>1. mem'[o] # "free"
    BY <1>6 DEF Proto, Guarded, Allocates
  <2> QED BY <1>6, <2>1 DEF Guarded, Allocates
<1>7. ASSUME NEW x \in Objects, Retires(t, x) PROVE Guarded(o, i)'
  <2>1. mem'[o] # "free"
    BY <1>7 DEF Proto, Guarded, Retires
  <2>2. \A u \in Threads : u # t => rlist'[u] = rlist[u] /\ pc'[u] = pc[u]
    BY <1>7 DEF Proto, Retires
  <2>3. pc'[t] \notin Scanning
    BY <1>7 DEF Proto, Retires
  <2> QED BY <1>7, <2>1, <2>2, <2>3 DEF Guarded, Retires
<1> QED BY <1>1, <1>2, <1>3, <1>4, <1>5, <1>6, <1>7 DEF HazptrStep

-----------------------------------------------------------------------------
\* What a hazard pointer, a list pointer or a local variable holds
Entries == Objects \union {NULL}

\* t holds routelock.
Updating(t) ==
  \/ pc[t] \in {"del_poison", "clear"}
  \/ pc[t] \in {"scan_mb", "scan", "scan_free"} /\ after[t] = "clear"

\* s is what can be reached by re_next from o among the entries that route_clear() has unlinked.
Chain(s, o) ==
  /\ s \in Seq(Objects) /\ OneToOne(s)
  /\ o = IF s = <<>> THEN NULL ELSE s[1]
  /\ \A i \in 1 .. Len(s) : stale[s[i]] = IF i < Len(s) THEN s[i + 1] ELSE NULL

\* route_del() between the unlinking and the poisoning: its entry still points into the list.
DeletingRoute(t) ==
  /\ rep[t] \in Objects /\ mem[rep[t]] = "live" /\ rep[t] \notin ToSet(list)
  /\ stale[rep[t]] \in ToSet(list) \union {NULL}
  /\ \A o \in Objects : mem[o] = "live" => o \in ToSet(list) \union {rep[t]}

\* route_clear() has emptied the list; what is still live is the rest of the chain it walks.
ClearingRoutes(t) ==
  /\ list = <<>>
  /\ \E s \in Seq(Objects) :
       /\ Chain(s, rep[t])
       /\ \A o \in Objects : mem[o] = "live" <=> o \in ToSet(s)

\* The list: its entries are live, what is not live is poisoned, and outside of an update all that
\* is live is linked. The re_next of an unlinked entry that is not poisoned yet leads to a live
\* entry, so that a lookup that follows one never comes to a retired entry.
RouteTable ==
  /\ list \in Seq(Objects) /\ OneToOne(list)
  /\ \A o \in ToSet(list) : mem[o] = "live"
  /\ stale \in [Objects -> Objects \union {NULL, POISON}]
  /\ routelock \in Threads \union {-1}
  /\ \A t \in Threads : Updating(t) <=> routelock = t
  /\ \A o \in Objects : mem[o] # "live" => stale[o] = POISON
  /\ routelock = -1 => \A o \in Objects : mem[o] = "live" => o \in ToSet(list)
  /\ \A t \in Threads :
       /\ pc[t] = "del_poison" => DeletingRoute(t)
       /\ Updating(t) /\ pc[t] # "del_poison" => ClearingRoutes(t)

\* A lookup: its store to the hazard pointer is visible after the barrier, and from the second read
\* of *repp on the entry is guarded.
RouteReader(t) ==
  /\ from[t] \in Entries /\ rep[t] \in Entries
  /\ hpstore[t] \subseteq {t} \X Entries
  /\ hpstore[t] # {} => pc[t] \in {"mb", "exit", "scan_mb", "exited"}
  /\ pc[t] \in {"store", "mb", "reload", "compare", "found"} => rep[t] # NULL
  /\ pc[t] = "load" /\ from[t] # NULL => Guarded(from[t], t)
  /\ pc[t] = "mb" => \/ hpstore[t] = {<<t, rep[t]>>}
                     \/ hpstore[t] = {} /\ HP[t] = rep[t]
  /\ pc[t] = "reload" => HP[t] = rep[t]
  /\ pc[t] \in {"compare", "found"} => Guarded(rep[t], t)

\* The inductive invariant of the routing table
RouteInv ==
  /\ Proto(NR_THREADS)
  /\ RouteTable
  /\ from \in [Threads -> Entries] /\ rep \in [Threads -> Entries]
  /\ hpstore \in [Threads -> SUBSET (Threads \X Entries)]
  /\ \A t \in Threads : RouteReader(t)

\* What the assumptions say about the constants of the two instances
LEMMA Setting ==
  /\ NR_THREADS \in Nat \ {0} /\ 2 * NR_THREADS \in Nat \ {0} /\ K = 2
  /\ Readers \subseteq Threads
  /\ NULL \notin Objects /\ POISON \notin Objects /\ NULL # POISON
  /\ Threads = 0 .. NR_THREADS - 1 /\ -1 \notin Threads
  /\ Route!Threads = Threads /\ Hash!Threads = Threads
  /\ Route!H(1) = NR_THREADS /\ Hash!H(K) = 2 * NR_THREADS
  /\ \A t \in Threads : Route!Mine(t) = {t}
  BY HazPtrAssumption, HashAssumption DEF Threads, Route!Threads, Hash!Threads, Route!H, Hash!H, Route!Mine

\* The entry after the i-th
LEMMA RouteSuccessor ==
  ASSUME list \in Seq(Objects), OneToOne(list), NEW i \in 1 .. Len(list)
  PROVE  Route!Successor(list[i]) = IF i < Len(list) THEN list[i + 1] ELSE NULL
<1> DEFINE o == list[i]
           j == SelectInSeq(list, LAMBDA x : x = o)
<1>1. o \in ToSet(list)
  BY DEF ToSet
<1>2. j \in 1 .. Len(list) /\ list[j] = o
  BY <1>1, Selected
<1>3. j = i
  BY <1>2 DEF OneToOne
<1>4. Route!SelectInSeq(list, LAMBDA x : x = o) = j
  BY DEF Route!SelectInSeq, SelectInSeq, Route!Min, Min
<1>5. Route!Successor(o) = IF j < Len(list) THEN list[j + 1] ELSE NULL
  BY <1>4 DEF Route!Successor
<1> QED BY <1>3, <1>5

\* *repp is NULL, HAZPTR_POISON or a live entry.
LEMMA RouteDeref ==
  ASSUME RouteTable, NEW o \in Entries
  PROVE  /\ Route!Deref(o) \in Objects \union {NULL, POISON}
         /\ Route!Deref(o) \in Objects => mem[Route!Deref(o)] = "live"
<1> USE Setting DEF RouteTable
<1>1. CASE o = NULL
  <2>1. Route!Deref(o) = IF list = <<>> THEN NULL ELSE list[1]
    <3>1. Route!Linked = ToSet(list) /\ NULL \notin ToSet(list)
      BY DEF Route!Linked, Route!ToSet, ToSet
    <3> QED BY <1>1, <3>1 DEF Route!Deref
  <2>2. list # <<>> => list[1] \in ToSet(list) /\ list[1] \in Objects
    BY EmptySeq DEF ToSet
  <2> QED BY <2>1, <2>2
<1>2. CASE o \in ToSet(list)
  <2>1. PICK i \in 1 .. Len(list) : list[i] = o
    BY <1>2 DEF ToSet
  <2>2. Route!Deref(o) = Route!Successor(o)
    BY <1>1, <1>2 DEF Route!Deref, Route!Linked, Route!ToSet, ToSet
  <2>3. Route!Successor(o) = IF i < Len(list) THEN list[i + 1] ELSE NULL
    BY <2>1, RouteSuccessor
  <2>4. i < Len(list) => list[i + 1] \in ToSet(list) /\ list[i + 1] \in Objects
    BY <2>1 DEF ToSet
  <2> QED BY <2>2, <2>3, <2>4
<1>3. CASE o # NULL /\ o \notin ToSet(list)
  <2>1. Route!Deref(o) = stale[o] /\ o \in Objects
    BY <1>3 DEF Route!Deref, Route!Linked, Route!ToSet, ToSet, Entries
  <2>2. CASE mem[o] # "live"
    BY <2>1, <2>2
  <2>3. CASE mem[o] = "live"
    <3>1. PICK t \in Threads : routelock = t
      BY <1>3, <2>1, <2>3
    <3>2. CASE pc[t] = "del_poison"
      BY <1>3, <2>1, <2>3, <3>2 DEF DeletingRoute
    <3>3. CASE pc[t] # "del_poison"
      <4>1. ClearingRoutes(t)
        BY <3>1, <3>3
      <4>2. PICK s \in Seq(Objects) :
              /\ Chain(s, rep[t])
              /\ \A x \in Objects : mem[x] = "live" <=> x \in ToSet(s)
        BY <4>1 DEF ClearingRoutes
      <4>3. PICK i \in 1 .. Len(s) : s[i] = o
        BY <2>1, <2>3, <4>2 DEF ToSet
      <4>4. stale[o] = IF i < Len(s) THEN s[i + 1] ELSE NULL
        BY <4>2, <4>3 DEF Chain
      <4>5. i < Len(s) => s[i + 1] \in ToSet(s) /\ s[i + 1] \in Objects
        BY <4>3 DEF ToSet
      <4> QED BY <2>1, <4>2, <4>4, <4>5
    <3> QED BY <3>2, <3>3
  <2> QED BY <2>2, <2>3
<1> QED BY <1>1, <1>2, <1>3 DEF Entries

\* A step that touches neither the list nor the lock nor which entries are live keeps RouteTable.
LEMMA RouteTableKept ==
  ASSUME RouteTable, UNCHANGED <<list, stale, routelock>>,
         \A o \in Objects : mem'[o] = "live" <=> mem[o] = "live",
         \A u \in Threads : /\ Updating(u)' <=> Updating(u)
                            /\ pc'[u] = "del_poison" <=> pc[u] = "del_poison"
                            /\ Updating(u) => rep'[u] = rep[u]
  PROVE  RouteTable'
<1>1. ASSUME NEW u \in Threads, pc'[u] = "del_poison" PROVE DeletingRoute(u)'
  <2>1. DeletingRoute(u) /\ rep'[u] = rep[u]
    BY <1>1 DEF RouteTable, Updating
  <2> QED BY <2>1 DEF DeletingRoute
<1>2. ASSUME NEW u \in Threads, Updating(u)', pc'[u] # "del_poison" PROVE ClearingRoutes(u)'
  <2>1. ClearingRoutes(u) /\ rep'[u] = rep[u]
    BY <1>2 DEF RouteTable
  <2> QED BY <2>1 DEF ClearingRoutes, Chain
<1>3. \A o \in ToSet(list) : mem'[o] = "live"
  BY DEF RouteTable, ToSet
<1> QED BY <1>1, <1>2, <1>3 DEF RouteTable

\* A step of t keeps what holds of a lookup of another thread.
LEMMA RouteReaderKept ==
  ASSUME Proto(NR_THREADS), NEW t \in Threads, HazptrStep(t, NR_THREADS),
         NEW u \in Threads, RouteReader(u),
         pc'[u] = pc[u], from'[u] = from[u], rep'[u] = rep[u], hpstore'[u] = hpstore[u], HP'[u] = HP[u]
  PROVE  RouteReader(u)'
<1>1. \A o \in Objects : Guarded(o, u) => Guarded(o, u)'
  BY GuardKept, Setting
<1>2. pc[u] = "load" /\ from[u] # NULL => Guarded(from[u], u)'
  BY <1>1 DEF RouteReader, Entries
<1>3. pc[u] \in {"compare", "found"} => Guarded(rep[u], u)'
  BY <1>1 DEF RouteReader, Entries
<1> QED BY <1>2, <1>3 DEF RouteReader

\* A step of t outside of updates and scans keeps the invariant if it keeps RouteReader(t).
LEMMA RouteMoves ==
  ASSUME RouteInv, NEW t \in Threads, Moves(t), ~ Updating(t), ~ Updating(t)',
         UNCHANGED <<list, stale, routelock>>,
         from' \in [Threads -> Entries], rep' \in [Threads -> Entries],
         hpstore' \in [Threads -> SUBSET (Threads \X Entries)],
         \A u \in Threads \ {t} : /\ after'[u] = after[u] /\ from'[u] = from[u]
                                  /\ rep'[u] = rep[u] /\ hpstore'[u] = hpstore[u],
         RouteReader(t)'
  PROVE  RouteInv'
<1>1. Proto(NR_THREADS)'
  BY ProtoKept, Setting DEF RouteInv, HazptrStep
<1>2. \A u \in Threads \ {t} : pc'[u] = pc[u]
  BY DEF RouteInv, Proto, Moves
<1>3. RouteTable'
  <2>1. \A u \in Threads \ {t} : (Updating(u)' <=> Updating(u)) /\ rep'[u] = rep[u]
    BY <1>2 DEF Updating
  <2>2. pc[t] # "del_poison" /\ pc'[t] # "del_poison"
    BY DEF Updating
  <2>3. \A u \in Threads : /\ Updating(u)' <=> Updating(u)
                           /\ pc'[u] = "del_poison" <=> pc[u] = "del_poison"
                           /\ Updating(u) => rep'[u] = rep[u]
    BY <1>2, <2>1, <2>2
  <2>4. \A o \in Objects : mem'[o] = "live" <=> mem[o] = "live"
    BY DEF Moves
  <2> QED BY <2>3, <2>4, RouteTableKept DEF RouteInv
<1>4. \A u \in Threads \ {t} : RouteReader(u)'
  <2>1. \A u \in Threads \ {t} : HP'[u] = HP[u]
    BY DEF Moves
  <2> QED BY <1>2, <2>1, RouteReaderKept DEF RouteInv, HazptrStep
<1> QED BY <1>1, <1>3, <1>4 DEF RouteInv

\* The steps of hazptr_scan() keep the invariant.
LEMMA RouteScans ==
  ASSUME RouteInv, NEW t \in Threads, NEW F \in SUBSET rlist[t],
         (Begins(t) /\ hpstore[t] = {}) \/ Collects(t, NR_THREADS) \/ Frees(t, F),
         UNCHANGED <<list, stale, routelock, from, rep, hpstore>>
  PROVE  RouteInv'
<1>1. Proto(NR_THREADS)'
  BY ProtoKept, Setting DEF RouteInv, HazptrStep
<1>2. \A u \in Threads \ {t} : pc'[u] = pc[u] /\ after'[u] = after[u]
  BY DEF RouteInv, Proto, Begins, Collects, Frees
<1>3. /\ pc[t] \in {"scan_mb", "scan", "scan_free"}
      /\ \/ pc'[t] \in {"scan", "scan_free"}
         \/ pc'[t] = after[t]
      /\ after'[t] = after[t] /\ after[t] \in Returns
  BY DEF RouteInv, Proto, Begins, Collects, Frees
<1>4. RouteTable'
  <2>1. \A u \in Threads : Updating(u)' <=> Updating(u)
    BY <1>2, <1>3 DEF Updating, Returns
  <2>2. \A u \in Threads : pc'[u] = "del_poison" <=> pc[u] = "del_poison"
    BY <1>2, <1>3 DEF Returns
  <2>3. ASSUME NEW o \in Objects PROVE mem'[o] = "live" <=> mem[o] = "live"
    <3>1. o \in rlist[t] => mem[o] = "retired"
      BY DEF RouteInv, Proto
    <3> QED BY <3>1 DEF Begins, Collects, Frees
  <2> QED BY <2>1, <2>2, <2>3, RouteTableKept DEF RouteInv
<1>5. \A u \in Threads \ {t} : RouteReader(u)'
  <2>1. HP' = HP
    BY DEF Begins, Collects, Frees
  <2> QED BY <1>2, <2>1, RouteReaderKept DEF RouteInv, HazptrStep
<1>6. RouteReader(t)'
  <2>1. hpstore[t] = {}
    BY DEF RouteInv, RouteReader, Collects, Frees
  <2>2. RouteReader(t)
    BY DEF RouteInv
  <2> QED BY <1>3, <2>1, <2>2 DEF RouteReader, Returns
<1> QED BY <1>1, <1>4, <1>5, <1>6 DEF RouteInv

\* Inside a lookup, or outside of everything
Looking == {"idle", "load", "store", "mb", "reload", "compare", "found"}

\* A step of route_lookup() to x, after which repp is the re_next of f, and rep is r
RouteLooks(t, x, f, r) ==
  /\ pc[t] \in Looking /\ x \in Looking /\ pc' = [pc EXCEPT ![t] = x]
  /\ f \in Entries /\ from' = [from EXCEPT ![t] = f]
  /\ r \in Entries /\ rep' = [rep EXCEPT ![t] = r]
  /\ hpstore' = [hpstore EXCEPT ![t] = IF x = "mb" THEN {<<t, r>>} ELSE {}]
  /\ UNCHANGED <<HP, rlist, rcount, plist, scan, after, mem, list, stale, routelock>>
  /\ x \in Looking \ {"idle", "load"} => r # NULL
  /\ x = "load" /\ f # NULL => Guarded(f, t)
  /\ x = "reload" => HP[t] = r
  /\ x \in {"compare", "found"} => Guarded(r, t)

\* Such a step keeps the invariant.
LEMMA RouteLooksOn ==
  ASSUME RouteInv, NEW t \in Threads, NEW x, NEW f, NEW r, RouteLooks(t, x, f, r)
  PROVE  RouteInv'
<1> USE DEF RouteLooks
<1>1. Moves(t)
  BY DEF Moves, RouteInv, Proto, Looking, PCs, Scanning
<1>2. ~ Updating(t) /\ ~ Updating(t)'
  BY DEF Updating, Looking, RouteInv, Proto
<1>3. /\ from' \in [Threads -> Entries] /\ from'[t] = f /\ \A u \in Threads \ {t} : from'[u] = from[u]
      /\ rep' \in [Threads -> Entries] /\ rep'[t] = r /\ \A u \in Threads \ {t} : rep'[u] = rep[u]
  BY DEF RouteInv
<1>4. pc'[t] = x
  BY DEF RouteInv, Proto
<1>5. \A o \in Objects : Guarded(o, t) => Guarded(o, t)'
  BY <1>1, GuardKept, Setting DEF RouteInv, HazptrStep
<1>6. x = "load" /\ f # NULL => Guarded(from[t], t)'
  BY <1>3, <1>5 DEF Entries
<1>7. x \in {"compare", "found"} => Guarded(rep[t], t)'
  BY <1>3, <1>5 DEF Entries, Looking
<1>9. /\ hpstore' \in [Threads -> SUBSET (Threads \X Entries)]
      /\ hpstore'[t] = IF x = "mb" THEN {<<t, r>>} ELSE {}
      /\ \A u \in Threads \ {t} : hpstore'[u] = hpstore[u]
  BY DEF RouteInv
<1>8. RouteReader(t)'
  <2>1. hpstore'[t] \subseteq {t} \X Entries
    BY <1>9
  <2>2. HP' = HP
    OBVIOUS
  <2> QED BY <1>3, <1>4, <1>6, <1>7, <1>9, <2>1, <2>2 DEF RouteReader, Looking
<1>10. UNCHANGED <<after, list, stale, routelock>>
  OBVIOUS
<1> HIDE DEF RouteLooks
<1> QED BY <1>1, <1>2, <1>3, <1>8, <1>9, <1>10, RouteMoves

\* Every step of route_lookup() keeps the invariant. The one that matters is the second read of
\* *repp: it finds the same entry, so that the entry is live and no scan has it on its rlist; the
\* hazard pointer has become visible before.
LEMMA RouteLookup ==
  ASSUME RouteInv, NEW t \in Threads, \/ \E a \in Addrs : Route!LookupCall(t, a)
                                      \/ Route!Lookup(t)
  PROVE  RouteInv'
<1> USE DEF Route!Goto, Route!hpvars, Route!scanvars, Route!listvars
<1>1. /\ from \in [Threads -> Entries] /\ rep \in [Threads -> Entries]
      /\ hpstore \in [Threads -> SUBSET (Threads \X Entries)]
      /\ RouteReader(t) /\ RouteTable
      /\ NULL \in Entries /\ Objects \subseteq Entries
  BY DEF RouteInv, Entries
<1>2. /\ [from EXCEPT ![t] = from[t]] = from /\ [rep EXCEPT ![t] = rep[t]] = rep
      /\ from[t] \in Entries /\ rep[t] \in Entries
  BY <1>1
<1>3. hpstore[t] = {} => hpstore = [hpstore EXCEPT ![t] = {}]
  BY <1>1
<1>4. pc[t] \in Looking \ {"mb"} => hpstore[t] = {}
  BY <1>1 DEF RouteReader, Looking
<1>5. ASSUME NEW a \in Addrs, Route!LookupCall(t, a) PROVE RouteInv'
  <2>1. RouteLooks(t, "load", NULL, rep[t])
    BY <1>1, <1>2, <1>3, <1>4, <1>5 DEF RouteLooks, Looking, Route!LookupCall
  <2> QED BY <2>1, RouteLooksOn
<1>6. CASE Route!LookupLoad(t)
  <2>1. CASE Route!Deref(from[t]) = NULL
    <3>1. RouteLooks(t, "idle", NULL, NULL)
      BY <1>1, <1>3, <1>4, <1>6, <2>1, Setting DEF RouteLooks, Looking, Route!LookupLoad
    <3> QED BY <3>1, RouteLooksOn
  <2>2. CASE Route!Deref(from[t]) = POISON
    <3>1. RouteLooks(t, "load", NULL, rep[t])
      BY <1>1, <1>2, <1>3, <1>4, <1>6, <2>2, Setting DEF RouteLooks, Looking, Route!LookupLoad
    <3> QED BY <3>1, RouteLooksOn
  <2>3. CASE Route!Deref(from[t]) \in Objects
    <3>1. RouteLooks(t, "store", from[t], Route!Deref(from[t]))
      BY <1>1, <1>2, <1>3, <1>4, <1>6, <2>3, Setting DEF RouteLooks, Looking, Route!LookupLoad
    <3> QED BY <3>1, RouteLooksOn
  <2> QED BY <1>6, <2>1, <2>2, <2>3 DEF Route!LookupLoad
<1>7. CASE Route!LookupStore(t)
  <2>1. hpstore[t] = {} /\ rep[t] # NULL
    BY <1>1, <1>4, <1>7 DEF RouteReader, Looking, Route!LookupStore
  <2>2. 1 * t + 0 = t
    BY Setting
  <2>3. hpstore' = [hpstore EXCEPT ![t] = {<<t, rep[t]>>}]
    BY <1>7, <2>1, <2>2 DEF Route!LookupStore, Route!StoreHP
  <2>4. RouteLooks(t, "mb", from[t], rep[t])
    BY <1>1, <1>2, <1>7, <2>1, <2>3 DEF RouteLooks, Looking, Route!LookupStore
  <2> QED BY <2>4, RouteLooksOn
<1>8. CASE Route!LookupMb(t)
  <2>1. RouteLooks(t, "reload", from[t], rep[t])
    BY <1>1, <1>2, <1>3, <1>8 DEF RouteLooks, Looking, Route!LookupMb, Route!Drained, RouteReader
  <2> QED BY <2>1, RouteLooksOn
<1>9. CASE Route!LookupReload(t)
  <2>1. rep[t] \in Objects /\ HP[t] = rep[t]
    BY <1>1, <1>9 DEF RouteReader, Entries, Route!LookupReload
  <2>2. CASE Route!Deref(from[t]) = rep[t]
    <3>1. mem[rep[t]] = "live"
      BY <1>2, <2>1, <2>2, RouteDeref DEF RouteInv
    <3>2. Guarded(rep[t], t)
      BY <2>1, <3>1 DEF RouteInv, Proto, Guarded
    <3>3. RouteLooks(t, "compare", from[t], rep[t])
      BY <1>1, <1>2, <1>3, <1>4, <1>9, <2>1, <2>2, <3>2, Setting DEF RouteLooks, Looking, Route!LookupReload
    <3> QED BY <3>3, RouteLooksOn
  <2>3. CASE Route!Deref(from[t]) # rep[t]
    <3>1. RouteLooks(t, "load", NULL, rep[t])
      BY <1>1, <1>2, <1>3, <1>4, <1>9, <2>3 DEF RouteLooks, Looking, Route!LookupReload
    <3> QED BY <3>1, RouteLooksOn
  <2> QED BY <2>2, <2>3
<1>10. CASE Route!LookupCompare(t)
  <2>1. Guarded(rep[t], t) /\ rep[t] # NULL
    BY <1>1, <1>10 DEF RouteReader, Route!LookupCompare
  <2>2. CASE addr[rep[t]] # key[t]
    <3>1. RouteLooks(t, "load", rep[t], rep[t])
      BY <1>1, <1>2, <1>3, <1>4, <1>10, <2>1, <2>2 DEF RouteLooks, Looking, Route!LookupCompare
    <3> QED BY <3>1, RouteLooksOn
  <2>3. CASE addr[rep[t]] = key[t]
    <3>1. RouteLooks(t, "found", from[t], rep[t])
      BY <1>1, <1>2, <1>3, <1>4, <1>10, <2>1, <2>3 DEF RouteLooks, Looking, Route!LookupCompare
    <3> QED BY <3>1, RouteLooksOn
  <2> QED BY <2>2, <2>3
<1>11. CASE Route!LookupReturn(t)
  <2>1. RouteLooks(t, "idle", NULL, NULL)
    BY <1>1, <1>3, <1>4, <1>11 DEF RouteLooks, Looking, Route!LookupReturn
  <2> QED BY <2>1, RouteLooksOn
<1> QED BY <1>5, <1>6, <1>7, <1>8, <1>9, <1>10, <1>11 DEF Route!Lookup

\* A step of t keeps what holds of the other lookups.
LEMMA RouteOthers ==
  ASSUME RouteInv, NEW t \in Threads, HazptrStep(t, NR_THREADS),
         \A u \in Threads \ {t} : /\ pc'[u] = pc[u] /\ from'[u] = from[u] /\ rep'[u] = rep[u]
                                  /\ hpstore'[u] = hpstore[u] /\ HP'[u] = HP[u]
  PROVE  \A u \in Threads \ {t} : RouteReader(u)'
  BY RouteReaderKept DEF RouteInv

\* route_add() keeps the invariant.
LEMMA RouteAddKeeps ==
  ASSUME RouteInv, NEW t \in Threads, NEW a \in Addrs, Route!RouteAdd(t, a)
  PROVE  RouteInv'
<1> USE DEF Route!Goto, Route!hpvars, Route!scanvars, Route!listvars
<1>1. PICK o \in Objects :
        /\ mem[o] = "free" /\ mem' = [mem EXCEPT ![o] = "live"]
        /\ list' = <<o>> \o list /\ stale' = [stale EXCEPT ![o] = POISON]
  BY DEF Route!RouteAdd
<1>2. UNCHANGED <<HP, hpstore, rlist, rcount, plist, scan, after, pc, routelock, key, from, rep>> /\ routelock = -1
  BY DEF Route!RouteAdd
<1>3. HazptrStep(t, NR_THREADS)
  BY <1>1, <1>2 DEF HazptrStep, Allocates
<1>4. Proto(NR_THREADS)'
  BY <1>3, ProtoKept, Setting DEF RouteInv
<1>5. \A u \in Threads : RouteReader(u)'
  BY <1>2, <1>3, RouteReaderKept DEF RouteInv
<1>6. \A x \in Objects : mem'[x] = IF x = o THEN "live" ELSE mem[x]
  BY <1>1 DEF RouteInv, Proto
<1>7. /\ list \in Seq(Objects) /\ OneToOne(list) /\ o \notin ToSet(list)
      /\ stale \in [Objects -> Objects \union {NULL, POISON}]
  BY <1>1 DEF RouteInv, RouteTable
<1>8. list' \in Seq(Objects) /\ OneToOne(list') /\ ToSet(list') = ToSet(list) \union {o}
  BY <1>1, <1>7, Added
<1>9. \A u \in Threads : ~ Updating(u) /\ ~ Updating(u)' /\ pc'[u] # "del_poison"
  BY <1>2, Setting DEF RouteInv, RouteTable, Updating
<1>10. RouteTable'
  <2>1. \A x \in ToSet(list') : mem'[x] = "live"
    <3>1. ToSet(list) \subseteq Objects
      BY <1>7 DEF ToSet
    <3> QED BY <1>6, <1>8, <3>1 DEF RouteInv, RouteTable
  <2>2. stale' \in [Objects -> Objects \union {NULL, POISON}]
    BY <1>1, <1>7
  <2>3. \A x \in Objects : mem'[x] # "live" => stale'[x] = POISON
    BY <1>1, <1>6, <1>7 DEF RouteInv, RouteTable
  <2>4. \A x \in Objects : mem'[x] = "live" => x \in ToSet(list')
    BY <1>2, <1>6, <1>8 DEF RouteInv, RouteTable
  <2>5. \A u \in Threads : routelock' # u
    BY <1>2, Setting
  <2> QED BY <1>2, <1>8, <1>9, <2>1, <2>2, <2>3, <2>4, <2>5 DEF RouteTable
<1> QED BY <1>2, <1>4, <1>5, <1>10 DEF RouteInv

\* route_del() up to the unlinking keeps the invariant.
LEMMA RouteDelKeeps ==
  ASSUME RouteInv, NEW t \in Threads, NEW a \in Addrs, Route!RouteDel(t, a)
  PROVE  RouteInv'
<1> USE DEF Route!Goto, Route!hpvars, Route!scanvars, Route!listvars
<1> DEFINE i == Route!SelectInSeq(list, LAMBDA o : addr[o] = a)
<1>1. /\ list \in Seq(Objects) /\ OneToOne(list) /\ Len(list) \in Nat /\ DOMAIN list = 1 .. Len(list)
      /\ stale \in [Objects -> Objects \union {NULL, POISON}]
      /\ \A o \in ToSet(list) : o \in Objects /\ mem[o] = "live"
      /\ rep \in [Threads -> Entries]
  BY DEF RouteInv, RouteTable, ToSet
<1>2. i \in 1 .. Len(list)
  <2> DEFINE I == {j \in 1 .. Len(list) : addr[list[j]] = a}
  <2>1. i = IF I # {} THEN Min(I) ELSE 0
    BY DEF Route!SelectInSeq, Route!Min, Min
  <2>2. i # 0
    BY DEF Route!RouteDel
  <2>3. I \in SUBSET Nat
    BY <1>1
  <2> HIDE DEF I, i
  <2>4. i \in I
    BY <2>1, <2>2, <2>3, Smallest
  <2> QED BY <2>4 DEF I
<1>3. /\ routelock = -1 /\ pc[t] = "idle" /\ pc' = [pc EXCEPT ![t] = "del_poison"]
      /\ routelock' = t
      /\ rep' = [rep EXCEPT ![t] = list[i]]
      /\ stale' = [stale EXCEPT ![list[i]] = Route!Successor(list[i])]
      /\ list' = Route!RemoveAt(list, i)
      /\ UNCHANGED <<HP, hpstore, rlist, rcount, plist, scan, after, mem, key, from>>
  BY DEF Route!RouteDel
<1> HIDE DEF i
<1>4. Route!RemoveAt(list, i) = RemoveAt(list, i)
  BY DEF Route!RemoveAt, RemoveAt
<1>5. list' \in Seq(Objects) /\ OneToOne(list') /\ ToSet(list') = ToSet(list) \ {list[i]}
  BY <1>1, <1>2, <1>3, <1>4, Removed
<1>6. list[i] \in ToSet(list)
  BY <1>1, <1>2 DEF ToSet
<1>7. Route!Successor(list[i]) \in ToSet(list') \union {NULL}
  <2>1. Route!Successor(list[i]) = IF i < Len(list) THEN list[i + 1] ELSE NULL
    BY <1>1, <1>2, RouteSuccessor
  <2>2. i < Len(list) => i + 1 \in 1 .. Len(list) /\ i + 1 # i
    BY <1>1, <1>2
  <2>3. i < Len(list) => list[i + 1] \in ToSet(list) /\ list[i + 1] # list[i]
    BY <1>1, <1>2, <2>2 DEF ToSet, OneToOne
  <2> QED BY <1>5, <2>1, <2>3
<1>8. Moves(t)
  BY <1>3 DEF Moves, PCs, Scanning, RouteInv, Proto
<1>9. /\ \A u \in Threads \ {t} : pc'[u] = pc[u] /\ rep'[u] = rep[u]
      /\ pc'[t] = "del_poison" /\ rep'[t] = list[i] /\ rep' \in [Threads -> Entries]
  BY <1>1, <1>3, <1>6 DEF RouteInv, Proto, Entries
<1>10. Proto(NR_THREADS)'
  BY <1>8, ProtoKept, Setting DEF RouteInv, HazptrStep
<1>11. \A u \in Threads \ {t} : RouteReader(u)'
  BY <1>3, <1>8, <1>9, RouteOthers DEF HazptrStep
<1>12. RouteReader(t)'
  <2>1. RouteReader(t)
    BY DEF RouteInv
  <2> QED BY <1>3, <1>9, <2>1 DEF RouteReader
<1>13. \A u \in Threads : Updating(u)' <=> u = t
  <2>1. \A u \in Threads : ~ Updating(u)
    BY <1>3, Setting DEF RouteInv, RouteTable
  <2> QED BY <1>3, <1>9, <2>1 DEF Updating
<1>14. RouteTable'
  <2>1. stale' \in [Objects -> Objects \union {NULL, POISON}]
    BY <1>1, <1>3, <1>5, <1>6, <1>7
  <2>2. \A o \in Objects : mem'[o] # "live" => stale'[o] = POISON
    BY <1>1, <1>3, <1>6 DEF RouteInv, RouteTable
  <2>3. DeletingRoute(t)'
    <3>1. stale'[list[i]] = Route!Successor(list[i])
      BY <1>1, <1>3, <1>6
    <3>2. \A o \in Objects : mem[o] = "live" => o \in ToSet(list)
      BY <1>3 DEF RouteInv, RouteTable
    <3> QED BY <1>1, <1>3, <1>5, <1>6, <1>7, <1>9, <3>1, <3>2 DEF DeletingRoute
  <2>4. \A o \in ToSet(list') : mem'[o] = "live"
    BY <1>1, <1>3, <1>5
  <2>5. ASSUME NEW u \in Threads
        PROVE  /\ pc'[u] = "del_poison" => DeletingRoute(u)'
               /\ Updating(u)' /\ pc'[u] # "del_poison" => ClearingRoutes(u)'
    <3>1. pc'[u] = "del_poison" => Updating(u)'
      BY DEF Updating
    <3>2. CASE u = t
      BY <1>9, <2>3, <3>2
    <3>3. CASE u # t
      BY <1>13, <3>1, <3>3
    <3> QED BY <3>2, <3>3
  <2>6. routelock' \in Threads \union {-1} /\ routelock' # -1 /\ \A u \in Threads : Updating(u)' <=> routelock' = u
    BY <1>3, <1>13, Setting
  <2> QED BY <1>5, <2>1, <2>2, <2>4, <2>5, <2>6 DEF RouteTable
<1> QED BY <1>3, <1>9, <1>10, <1>11, <1>12, <1>14 DEF RouteInv

\* route_clear() up to the unlinking keeps the invariant: the list becomes the chain.
LEMMA RouteClearKeeps ==
  ASSUME RouteInv, NEW t \in Threads, Route!RouteClear(t)
  PROVE  RouteInv'
<1> USE DEF Route!Goto, Route!hpvars, Route!scanvars, Route!listvars
<1>1. /\ list \in Seq(Objects) /\ OneToOne(list) /\ Len(list) \in Nat /\ DOMAIN list = 1 .. Len(list)
      /\ stale \in [Objects -> Objects \union {NULL, POISON}]
      /\ \A o \in ToSet(list) : o \in Objects /\ mem[o] = "live"
      /\ rep \in [Threads -> Entries]
  BY DEF RouteInv, RouteTable, ToSet
<1>2. /\ routelock = -1 /\ pc[t] = "idle" /\ pc' = [pc EXCEPT ![t] = "clear"]
      /\ routelock' = t
      /\ rep' = [rep EXCEPT ![t] = Route!Deref(NULL)]
      /\ stale' = [o \in Objects |-> IF o \in ToSet(list) THEN Route!Successor(o) ELSE stale[o]]
      /\ list' = <<>>
      /\ UNCHANGED <<HP, hpstore, rlist, rcount, plist, scan, after, mem, key, from>>
  BY DEF Route!RouteClear, Route!Linked, Route!ToSet, ToSet
<1>3. Route!Deref(NULL) = IF list = <<>> THEN NULL ELSE list[1]
  <2>1. Route!Linked = ToSet(list) /\ NULL \notin ToSet(list)
    BY <1>1, Setting DEF Route!Linked, Route!ToSet, ToSet
  <2> QED BY <1>1, <2>1 DEF Route!Deref
<1>4. Route!Deref(NULL) \in Entries
  <2>1. list # <<>> => list[1] \in ToSet(list)
    BY <1>1, EmptySeq DEF ToSet
  <2> QED BY <1>1, <1>3, <2>1 DEF Entries
<1>5. ASSUME NEW k \in 1 .. Len(list) PROVE stale'[list[k]] = IF k < Len(list) THEN list[k + 1] ELSE NULL
  <2>1. list[k] \in ToSet(list)
    BY <1>1 DEF ToSet
  <2> QED BY <1>1, <1>2, <2>1, RouteSuccessor
<1>6. Moves(t)
  BY <1>2 DEF Moves, PCs, Scanning, RouteInv, Proto
<1>7. /\ \A u \in Threads \ {t} : pc'[u] = pc[u] /\ rep'[u] = rep[u]
      /\ pc'[t] = "clear" /\ rep'[t] = Route!Deref(NULL) /\ rep' \in [Threads -> Entries]
  BY <1>1, <1>2, <1>4 DEF RouteInv, Proto
<1>8. Proto(NR_THREADS)'
  BY <1>6, ProtoKept, Setting DEF RouteInv, HazptrStep
<1>9. \A u \in Threads \ {t} : RouteReader(u)'
  BY <1>2, <1>6, <1>7, RouteOthers DEF HazptrStep
<1>10. RouteReader(t)'
  <2>1. RouteReader(t)
    BY DEF RouteInv
  <2> QED BY <1>2, <1>7, <2>1 DEF RouteReader
<1>11. \A u \in Threads : Updating(u)' <=> u = t
  <2>1. \A u \in Threads : ~ Updating(u)
    BY <1>2, Setting DEF RouteInv, RouteTable
  <2> QED BY <1>2, <1>7, <2>1 DEF Updating
<1>12. RouteTable'
  <2>1. stale' \in [Objects -> Objects \union {NULL, POISON}]
    <3>1. ASSUME NEW o \in ToSet(list) PROVE Route!Successor(o) \in Objects \union {NULL, POISON}
      <4>1. PICK k \in 1 .. Len(list) : list[k] = o
        BY <1>1 DEF ToSet
      <4>2. Route!Successor(o) = IF k < Len(list) THEN list[k + 1] ELSE NULL
        BY <1>1, <4>1, RouteSuccessor
      <4>3. k < Len(list) => list[k + 1] \in Objects
        BY <1>1, <4>1
      <4> QED BY <4>2, <4>3
    <3> QED BY <1>1, <1>2, <3>1
  <2>2. \A o \in Objects : mem'[o] # "live" => stale'[o] = POISON
    BY <1>1, <1>2 DEF RouteInv, RouteTable
  <2>3. ClearingRoutes(t)'
    <3> PICK s \in Seq(Objects) : s = list
      BY <1>1
    <3>1. OneToOne(s) /\ rep'[t] = IF s = <<>> THEN NULL ELSE s[1]
      BY <1>1, <1>3, <1>7
    <3>2. \A k \in 1 .. Len(s) : stale'[s[k]] = IF k < Len(s) THEN s[k + 1] ELSE NULL
      BY <1>5
    <3>3. Chain(s, rep[t])'
      BY <3>1, <3>2 DEF Chain
    <3>4. \A o \in Objects : mem'[o] = "live" <=> o \in ToSet(s)
      BY <1>1, <1>2 DEF RouteInv, RouteTable
    <3> QED BY <1>2, <3>3, <3>4 DEF ClearingRoutes
  <2>4. list' \in Seq(Objects) /\ OneToOne(list') /\ ToSet(list') = {}
    BY <1>2 DEF OneToOne, ToSet
  <2>5. ASSUME NEW u \in Threads
        PROVE  /\ pc'[u] = "del_poison" => DeletingRoute(u)'
               /\ Updating(u)' /\ pc'[u] # "del_poison" => ClearingRoutes(u)'
    <3>1. pc'[u] = "del_poison" => Updating(u)'
      BY DEF Updating
    <3>2. CASE u = t
      BY <1>7, <2>3, <3>2
    <3>3. CASE u # t
      BY <1>11, <3>1, <3>3
    <3> QED BY <3>2, <3>3
  <2>6. routelock' \in Threads \union {-1} /\ routelock' # -1 /\ \A u \in Threads : Updating(u)' <=> routelock' = u
    BY <1>2, <1>11, Setting
  <2>7. \A o \in ToSet(list') : mem'[o] = "live"
    BY <2>4
  <2> QED BY <2>1, <2>2, <2>4, <2>5, <2>6, <2>7 DEF RouteTable
<1> QED BY <1>2, <1>7, <1>8, <1>9, <1>10, <1>12 DEF RouteInv

\* hazptr_free_later(o), which scans first or goes on at next
FreesLater(t, o, next) ==
  /\ mem' = [mem EXCEPT ![o] = "retired"]
  /\ rlist' = [rlist EXCEPT ![t] = @ \union {o}]
  /\ rcount' = [rcount EXCEPT ![t] = @ + 1]
  /\ \/ pc' = [pc EXCEPT ![t] = "scan_mb"] /\ after' = [after EXCEPT ![t] = next]
     \/ pc' = [pc EXCEPT ![t] = next] /\ UNCHANGED after

\* hazptr_free_later() of a live object is the step Retires.
LEMMA Retiring ==
  ASSUME NEW h \in Nat \ {0}, Proto(h), NEW t \in Threads, NEW o \in Objects, mem[o] = "live",
         NEW next \in {"idle", "clear"}, FreesLater(t, o, next), UNCHANGED <<HP, hpstore, plist, scan>>
  PROVE  /\ Retires(t, o)
         /\ \/ pc'[t] = next
            \/ pc'[t] = "scan_mb" /\ after'[t] = next
         /\ \A u \in Threads \ {t} : pc'[u] = pc[u] /\ after'[u] = after[u]
         /\ \A x \in Objects : mem'[x] = IF x = o THEN "retired" ELSE mem[x]
<1>1. after' \in [Threads -> Returns]
  BY DEF Proto, FreesLater, Returns
<1>2. \E x \in PCs \ Scanning : pc' = [pc EXCEPT ![t] = x]
  BY DEF FreesLater, PCs, Scanning
<1>3. Retires(t, o)
  BY <1>1, <1>2 DEF Retires, FreesLater
<1>4. /\ \/ pc'[t] = next
         \/ pc'[t] = "scan_mb" /\ after'[t] = next
      /\ \A u \in Threads \ {t} : pc'[u] = pc[u] /\ after'[u] = after[u]
  BY DEF Proto, FreesLater
<1>5. \A x \in Objects : mem'[x] = IF x = o THEN "retired" ELSE mem[x]
  BY DEF Proto, FreesLater
<1> QED BY <1>3, <1>4, <1>5

\* A step of an update that retires its entry keeps the invariant if it keeps RouteTable.
LEMMA RouteRetires ==
  ASSUME RouteInv, NEW t \in Threads, NEW r \in Entries, Retires(t, rep[t]), rep[t] \in Objects,
         UNCHANGED <<from, hpstore>>, rep' = [rep EXCEPT ![t] = r],
         pc[t] \in {"del_poison", "clear"}, pc'[t] \in {"idle", "clear", "scan_mb"},
         RouteTable'
  PROVE  RouteInv'
<1>1. HazptrStep(t, NR_THREADS)
  BY DEF HazptrStep
<1>2. Proto(NR_THREADS)'
  BY <1>1, ProtoKept, Setting DEF RouteInv
<1>3. /\ rep' \in [Threads -> Entries] /\ rep'[t] = r
      /\ \A u \in Threads \ {t} : pc'[u] = pc[u] /\ rep'[u] = rep[u] /\ HP'[u] = HP[u]
  BY DEF RouteInv, Proto, Retires
<1>4. \A u \in Threads \ {t} : RouteReader(u)'
  BY <1>1, <1>3, RouteOthers
<1>5. RouteReader(t)'
  <2>1. RouteReader(t)
    BY DEF RouteInv
  <2>2. HP' = HP
    BY DEF Retires
  <2> QED BY <1>3, <2>1, <2>2 DEF RouteReader
<1> QED BY <1>2, <1>3, <1>4, <1>5 DEF RouteInv

\* The rest of route_del() keeps the invariant.
LEMMA RouteDelPoisonKeeps ==
  ASSUME RouteInv, NEW t \in Threads, Route!DelPoison(t)
  PROVE  RouteInv'
<1> USE DEF Route!Goto, Route!hpvars, Route!scanvars, Route!listvars
<1> DEFINE o == rep[t]
<1>1. /\ pc[t] = "del_poison"
      /\ stale' = [stale EXCEPT ![o] = POISON]
      /\ routelock' = -1
      /\ rep' = [rep EXCEPT ![t] = NULL]
      /\ FreesLater(t, o, "idle")
      /\ UNCHANGED <<HP, hpstore, plist, scan, list, addr, key, from>>
  BY DEF Route!DelPoison, Route!free_later, FreesLater
<1>2. /\ DeletingRoute(t) /\ Proto(NR_THREADS) /\ routelock = t /\ RouteTable
      /\ stale \in [Objects -> Objects \union {NULL, POISON}]
  BY <1>1 DEF RouteInv, RouteTable, Updating
<1>3. o \in Objects /\ mem[o] = "live" /\ NULL \in Entries
  BY <1>2 DEF DeletingRoute, Entries
<1> HIDE DEF o
<1>4. /\ Retires(t, o)
      /\ pc'[t] = "idle" \/ (pc'[t] = "scan_mb" /\ after'[t] = "idle")
      /\ \A u \in Threads \ {t} : pc'[u] = pc[u] /\ after'[u] = after[u]
      /\ \A x \in Objects : mem'[x] = IF x = o THEN "retired" ELSE mem[x]
  BY <1>1, <1>2, <1>3, Retiring, Setting
<1>5. \A u \in Threads : ~ Updating(u)' /\ pc'[u] # "del_poison"
  <2>1. \A u \in Threads \ {t} : ~ Updating(u)
    BY <1>2 DEF RouteTable
  <2> QED BY <1>4, <2>1 DEF Updating
<1>6. RouteTable'
  <2>1. \A x \in Objects : mem[x] = "live" => x \in ToSet(list) \union {o}
    BY <1>2 DEF DeletingRoute, o
  <2>2. o \notin ToSet(list) /\ ToSet(list) \subseteq Objects
    BY <1>2 DEF DeletingRoute, o, RouteTable, ToSet
  <2>3. \A x \in ToSet(list') : mem'[x] = "live"
    BY <1>1, <1>2, <1>4, <2>2 DEF RouteTable
  <2>4. \A x \in Objects : mem'[x] # "live" => stale'[x] = POISON
    BY <1>1, <1>2, <1>3, <1>4 DEF RouteTable
  <2>5. stale' \in [Objects -> Objects \union {NULL, POISON}]
    BY <1>1, <1>2
  <2>6. \A x \in Objects : mem'[x] = "live" => x \in ToSet(list')
    BY <1>1, <1>4, <2>1
  <2>7. \A u \in Threads : Updating(u)' <=> routelock' = u
    BY <1>1, <1>5, Setting
  <2>8. list' \in Seq(Objects) /\ OneToOne(list') /\ routelock' \in Threads \union {-1}
    BY <1>1, <1>2 DEF RouteTable
  <2> QED BY <1>5, <2>3, <2>4, <2>5, <2>6, <2>7, <2>8 DEF RouteTable
<1> QED BY <1>1, <1>3, <1>4, <1>6, RouteRetires DEF o

\* One turn of route_clear() keeps the invariant: the chain loses its first entry.
LEMMA RouteClearNextKeeps ==
  ASSUME RouteInv, NEW t \in Threads, Route!ClearNext(t)
  PROVE  RouteInv'
<1> USE DEF Route!Goto, Route!hpvars, Route!scanvars, Route!listvars
<1> DEFINE o == rep[t]
<1>1. /\ pc[t] = "clear" /\ o # NULL
      /\ stale' = [stale EXCEPT ![o] = POISON]
      /\ rep' = [rep EXCEPT ![t] = stale[o]]
      /\ FreesLater(t, o, "clear")
      /\ UNCHANGED <<HP, hpstore, plist, scan, list, addr, routelock, key, from>>
  BY DEF Route!ClearNext, Route!free_later, FreesLater
<1>2. /\ ClearingRoutes(t) /\ Proto(NR_THREADS) /\ routelock = t /\ RouteTable
      /\ stale \in [Objects -> Objects \union {NULL, POISON}] /\ rep \in [Threads -> Entries]
  BY <1>1 DEF RouteInv, RouteTable, Updating
<1>3. PICK s \in Seq(Objects) : /\ Chain(s, o)
                                /\ \A x \in Objects : mem[x] = "live" <=> x \in ToSet(s)
  BY <1>2 DEF ClearingRoutes
<1> HIDE DEF o
<1>4. s # <<>> /\ s[1] = o /\ 1 \in 1 .. Len(s) /\ Len(s) \in Nat /\ OneToOne(s) /\ DOMAIN s = 1 .. Len(s)
  BY <1>1, <1>3, EmptySeq DEF Chain
<1>5. o \in Objects /\ o \in ToSet(s) /\ mem[o] = "live" /\ stale[o] = IF 1 < Len(s) THEN s[2] ELSE NULL
  <2>1. o \in Objects /\ o \in ToSet(s)
    BY <1>4 DEF ToSet
  <2>2. stale[s[1]] = IF 1 < Len(s) THEN s[1 + 1] ELSE NULL
    BY <1>3, <1>4 DEF Chain
  <2> QED BY <1>3, <1>4, <2>1, <2>2
<1>6. /\ Retires(t, o)
      /\ pc'[t] = "clear" \/ (pc'[t] = "scan_mb" /\ after'[t] = "clear")
      /\ \A u \in Threads \ {t} : pc'[u] = pc[u] /\ after'[u] = after[u]
      /\ \A x \in Objects : mem'[x] = IF x = o THEN "retired" ELSE mem[x]
  BY <1>1, <1>2, <1>5, Retiring, Setting
<1>7. \A u \in Threads : (Updating(u)' <=> u = t) /\ pc'[u] # "del_poison"
  <2>1. \A u \in Threads \ {t} : ~ Updating(u)
    BY <1>2 DEF RouteTable
  <2> QED BY <1>6, <2>1 DEF Updating
<1> DEFINE r == Tail(s)
<1>8. /\ r \in Seq(Objects) /\ Len(r) = Len(s) - 1 /\ \A i \in 1 .. Len(r) : r[i] = s[i + 1]
      /\ DOMAIN r = 1 .. Len(r)
  BY <1>4
<1> HIDE DEF r
<1>9. \A i \in 1 .. Len(r) : i + 1 \in 1 .. Len(s) /\ i + 1 # 1
  BY <1>4, <1>8
<1>10. OneToOne(r)
  <2> SUFFICES ASSUME NEW i \in 1 .. Len(r), NEW j \in 1 .. Len(r), r[i] = r[j] PROVE i = j
    BY <1>8 DEF OneToOne
  <2>1. i + 1 = j + 1
    BY <1>4, <1>8, <1>9 DEF OneToOne
  <2> QED BY <2>1, <1>4, <1>8
<1>11. ToSet(r) = ToSet(s) \ {o}
  <2>1. \A i \in 1 .. Len(r) : r[i] \in ToSet(s) \ {o}
    BY <1>4, <1>8, <1>9 DEF ToSet, OneToOne
  <2>2. ASSUME NEW k \in 1 .. Len(s), s[k] # o PROVE s[k] \in ToSet(r)
    <3>1. k # 1
      BY <1>4, <2>2
    <3>2. k - 1 \in 1 .. Len(r) /\ (k - 1) + 1 = k
      BY <1>4, <1>8, <3>1
    <3>3. r[k - 1] = s[k]
      BY <1>8, <3>2
    <3> QED BY <1>8, <3>2, <3>3 DEF ToSet
  <2> QED BY <1>4, <1>8, <2>1, <2>2 DEF ToSet
<1>12. stale[o] = IF r = <<>> THEN NULL ELSE r[1]
  <2>1. CASE 1 < Len(s)
    <3>1. 1 \in 1 .. Len(r) /\ r[1] = s[1 + 1] /\ r # <<>>
      BY <1>4, <1>8, <2>1, EmptySeq
    <3> QED BY <1>5, <2>1, <3>1
  <2>2. CASE ~ (1 < Len(s))
    <3>1. r = <<>>
      BY <1>4, <1>8, <2>2, EmptySeq
    <3> QED BY <1>5, <2>2, <3>1
  <2> QED BY <2>1, <2>2
<1>13. stale[o] \in Entries /\ rep'[t] = stale[o]
  <2>1. r # <<>> => r[1] \in Objects
    BY <1>8, EmptySeq
  <2> QED BY <1>1, <1>2, <1>12, <2>1 DEF Entries
<1>14. \A i \in 1 .. Len(r) : stale'[r[i]] = IF i < Len(r) THEN r[i + 1] ELSE NULL
  <2> SUFFICES ASSUME NEW i \in 1 .. Len(r) PROVE stale'[r[i]] = IF i < Len(r) THEN r[i + 1] ELSE NULL
    OBVIOUS
  <2>1. r[i] = s[i + 1] /\ r[i] # o /\ r[i] \in Objects
    BY <1>4, <1>8, <1>9 DEF OneToOne
  <2>2. stale'[r[i]] = stale[s[i + 1]]
    BY <1>1, <1>2, <2>1
  <2>3. stale[s[i + 1]] = IF i + 1 < Len(s) THEN s[(i + 1) + 1] ELSE NULL
    BY <1>3, <1>9 DEF Chain
  <2>4. i + 1 < Len(s) <=> i < Len(r)
    BY <1>4, <1>8
  <2>5. i < Len(r) => r[i + 1] = s[(i + 1) + 1]
    BY <1>4, <1>8
  <2> QED BY <2>2, <2>3, <2>4, <2>5
<1>15. RouteTable'
  <2>1. ClearingRoutes(t)'
    <3>1. Chain(r, rep[t])'
      BY <1>8, <1>10, <1>12, <1>13, <1>14 DEF Chain
    <3>2. \A x \in Objects : mem'[x] = "live" <=> x \in ToSet(r)
      BY <1>3, <1>6, <1>11
    <3>3. list' = <<>>
      BY <1>1, <1>2 DEF ClearingRoutes
    <3> QED BY <1>8, <3>1, <3>2, <3>3 DEF ClearingRoutes
  <2>2. list' \in Seq(Objects) /\ OneToOne(list') /\ ToSet(list') = {}
    BY <1>1, <1>2 DEF ClearingRoutes, OneToOne, ToSet
  <2>3. \A x \in Objects : mem'[x] # "live" => stale'[x] = POISON
    BY <1>1, <1>2, <1>5, <1>6 DEF RouteTable
  <2>4. stale' \in [Objects -> Objects \union {NULL, POISON}]
    BY <1>1, <1>2
  <2>5. \A u \in Threads : Updating(u)' <=> routelock' = u
    BY <1>1, <1>2, <1>7
  <2>6. routelock' # -1 /\ routelock' \in Threads
    BY <1>1, <1>2, Setting
  <2>7. \A u \in Threads : Updating(u)' => ClearingRoutes(u)'
    BY <1>7, <2>1
  <2> QED BY <1>7, <2>2, <2>3, <2>4, <2>5, <2>6, <2>7 DEF RouteTable
<1> QED BY <1>1, <1>5, <1>6, <1>13, <1>15, RouteRetires DEF o

\* The end of route_clear() keeps the invariant: nothing is live.
LEMMA RouteClearEndKeeps ==
  ASSUME RouteInv, NEW t \in Threads, Route!ClearEnd(t)
  PROVE  RouteInv'
<1> USE DEF Route!Goto, Route!hpvars, Route!scanvars, Route!listvars
<1>1. /\ pc[t] = "clear" /\ rep[t] = NULL /\ pc' = [pc EXCEPT ![t] = "idle"]
      /\ routelock' = -1
      /\ UNCHANGED <<HP, hpstore, rlist, rcount, plist, scan, after, mem, list, stale, addr, key, from, rep>>
  BY DEF Route!ClearEnd
<1>2. /\ ClearingRoutes(t) /\ routelock = t /\ RouteTable
  BY <1>1 DEF RouteInv, RouteTable, Updating
<1>3. Moves(t)
  BY <1>1 DEF Moves, PCs, Scanning, RouteInv, Proto
<1>4. pc'[t] = "idle" /\ \A u \in Threads \ {t} : pc'[u] = pc[u]
  BY <1>1 DEF RouteInv, Proto
<1>5. \A u \in Threads : ~ Updating(u)' /\ pc'[u] # "del_poison"
  <2>1. \A u \in Threads \ {t} : ~ Updating(u)
    BY <1>2 DEF RouteTable
  <2> QED BY <1>1, <1>4, <2>1 DEF Updating
<1>6. \A o \in Objects : mem[o] # "live"
  <2>1. PICK s \in Seq(Objects) : /\ Chain(s, rep[t])
                                  /\ \A x \in Objects : mem[x] = "live" <=> x \in ToSet(s)
    BY <1>2 DEF ClearingRoutes
  <2>2. s = <<>>
    <3>1. s # <<>> => s[1] \in Objects
      BY EmptySeq
    <3> QED BY <1>1, <2>1, <3>1, Setting DEF Chain
  <2> QED BY <2>1, <2>2 DEF ToSet
<1>7. RouteTable'
  <2>1. \A u \in Threads : Updating(u)' <=> routelock' = u
    BY <1>1, <1>5, Setting
  <2> QED BY <1>1, <1>2, <1>5, <1>6, <2>1 DEF RouteTable
<1>8. Proto(NR_THREADS)'
  BY <1>3, ProtoKept, Setting DEF RouteInv, HazptrStep
<1>9. \A u \in Threads \ {t} : RouteReader(u)'
  BY <1>1, <1>3, <1>4, RouteOthers DEF HazptrStep
<1>10. RouteReader(t)'
  <2>1. RouteReader(t)
    BY DEF RouteInv
  <2> QED BY <1>1, <1>4, <2>1 DEF RouteReader
<1> QED BY <1>1, <1>7, <1>8, <1>9, <1>10 DEF RouteInv

\* hazptr_thread_exit() keeps the invariant.
LEMMA RouteExitKeeps ==
  ASSUME RouteInv, NEW t \in Threads,
         \/ Route!Exit(t) /\ UNCHANGED <<Route!listvars, key, from, rep>>
         \/ Route!ExitLoop(t) /\ UNCHANGED <<Route!listvars, key, from, rep>>
  PROVE  RouteInv'
<1> USE DEF Route!Goto, Route!hpvars, Route!scanvars, Route!listvars
<1>1. /\ RouteReader(t) /\ Proto(NR_THREADS)
      /\ from \in [Threads -> Entries] /\ rep \in [Threads -> Entries]
      /\ hpstore \in [Threads -> SUBSET (Threads \X Entries)] /\ NULL \in Entries
  BY DEF RouteInv, Entries
<1>2. CASE Route!Exit(t) /\ UNCHANGED <<Route!listvars, key, from, rep>>
  <2>1. /\ pc[t] = "idle" /\ pc' = [pc EXCEPT ![t] = "exit"]
        /\ hpstore' = [hpstore EXCEPT ![t] = {<<i, NULL>> : i \in {t}}]
        /\ UNCHANGED <<HP, rlist, rcount, plist, scan, after, mem, list, stale, routelock, from, rep>>
    BY <1>2, Setting DEF Route!Exit
  <2>2. Moves(t)
    BY <1>1, <2>1 DEF Moves, PCs, Scanning, Proto
  <2>3. pc'[t] = "exit"
    BY <1>1, <2>1 DEF Proto
  <2>4. ~ Updating(t) /\ ~ Updating(t)'
    BY <2>1, <2>3 DEF Updating
  <2>5. hpstore'[t] = {<<t, NULL>>} /\ \A u \in Threads \ {t} : hpstore'[u] = hpstore[u]
    BY <1>1, <2>1
  <2>6. hpstore' \in [Threads -> SUBSET (Threads \X Entries)]
    BY <1>1, <2>1
  <2>7. RouteReader(t)'
    BY <1>1, <2>1, <2>3, <2>5 DEF RouteReader
  <2>8. \A u \in Threads \ {t} : /\ after'[u] = after[u] /\ from'[u] = from[u]
                                 /\ rep'[u] = rep[u] /\ hpstore'[u] = hpstore[u]
    BY <2>1, <2>5
  <2>9. from' \in [Threads -> Entries] /\ rep' \in [Threads -> Entries]
    BY <1>1, <2>1
  <2> QED BY <2>1, <2>2, <2>4, <2>6, <2>7, <2>8, <2>9, RouteMoves
<1>3. CASE Route!ExitLoop(t) /\ UNCHANGED <<Route!listvars, key, from, rep>>
  <2>1. /\ pc[t] = "exit"
        /\ UNCHANGED <<HP, hpstore, rlist, rcount, plist, scan, mem, list, stale, routelock, from, rep>>
        /\ \/ pc' = [pc EXCEPT ![t] = "scan_mb"] /\ after' = [after EXCEPT ![t] = "exit"]
           \/ pc' = [pc EXCEPT ![t] = "exited"] /\ UNCHANGED after
    BY <1>3 DEF Route!ExitLoop
  <2>2. Moves(t)
    <3>1. after' \in [Threads -> Returns]
      BY <1>1, <2>1 DEF Proto, Returns
    <3> QED BY <2>1, <3>1 DEF Moves, PCs, Scanning
  <2>3. /\ pc'[t] = "exited" \/ (pc'[t] = "scan_mb" /\ after'[t] = "exit")
        /\ \A u \in Threads \ {t} : after'[u] = after[u]
    BY <1>1, <2>1 DEF Proto
  <2>4. ~ Updating(t) /\ ~ Updating(t)'
    BY <2>1, <2>3 DEF Updating
  <2>5. RouteReader(t)'
    BY <1>1, <2>1, <2>3 DEF RouteReader
  <2> QED BY <1>1, <2>1, <2>2, <2>3, <2>4, <2>5, RouteMoves
<1> QED BY <1>2, <1>3

\* What is left of a number smaller than the divisor is the number.
LEMMA RestIs ==
  ASSUME NEW b \in Nat \ {0}, NEW r \in 0 .. b - 1
  PROVE  r % b = r
<1> DEFINE d == r \div b
           m == r % b
<1>1. d \in Int /\ m \in 0 .. b - 1 /\ r = b * d + m
  OBVIOUS
<1> HIDE DEF d, m
<1>2. ~ (d >= 1)
  <2> SUFFICES ASSUME d >= 1 PROVE FALSE
    OBVIOUS
  <2>1. b * d >= b
    BY <1>1
  <2> QED BY <1>1, <2>1
<1>3. ~ (d <= -1)
  <2> SUFFICES ASSUME d <= -1 PROVE FALSE
    OBVIOUS
  <2>1. b * d <= -b
    BY <1>1
  <2> QED BY <1>1, <2>1
<1>4. d = 0
  BY <1>1, <1>2, <1>3
<1>5. b * d = 0
  BY <1>4
<1>6. m = r
  BY <1>1, <1>5
<1> QED BY <1>6 DEF m

\* compare() cuts nothing off the difference of two objects that are near.
LEMMA CompareIs ==
  ASSUME Near, NEW a \in Objects, NEW b \in Objects
  PROVE  compare(a, b) = a - b
<1> DEFINE n == INT_MAX + 1
           x == a - b + INT_MAX + 1
<1>1. a \in Nat /\ b \in Nat /\ INT_MAX \in Nat
  BY HazPtrAssumption
<1>2. a - b <= INT_MAX /\ b - a <= INT_MAX
  BY DEF Near
<1>3. 2 * n \in Nat \ {0} /\ x \in 0 .. 2 * n - 1
  BY <1>1, <1>2
<1>4. x % (2 * n) = x
  BY <1>3, RestIs
<1>5. x - n = a - b
  BY <1>1
<1> QED BY <1>4, <1>5 DEF compare

\* Then the search of the scan finds exactly what it collected.
LEMMA SearchIs ==
  ASSUME Near, NEW t \in Threads, plist[t] \subseteq Objects, rlist[t] \subseteq Objects,
         NEW F \in NotHazardous(t)
  PROVE  F = rlist[t] \ plist[t]
<1>1. \A a, b \in Objects : compare(a, b) = a - b /\ a \in Int /\ b \in Int
  BY CompareIs, HazPtrAssumption
<1>2. ASSUME NEW o \in Objects PROVE MayFind(t, o) <=> o \in plist[t]
  BY <1>1 DEF MayFind
<1>3. ASSUME NEW o \in Objects PROVE Orders(plist[t] \union {o})
  <2> SUFFICES ASSUME NEW a \in Objects, NEW b \in Objects, NEW c \in Objects
               PROVE  /\ compare(a, b) < 0 <=> compare(b, a) > 0
                      /\ compare(a, b) <= 0 /\ compare(b, c) <= 0 => compare(a, c) <= 0
    BY DEF Orders
  <2> QED BY <1>1
<1>4. ASSUME NEW o \in rlist[t] PROVE o \in F <=> o \notin plist[t]
  <2>1. o \in Objects /\ (IF o \in F THEN MayMiss(t, o) ELSE MayFind(t, o))
    BY DEF NotHazardous
  <2> QED BY <1>2, <1>3, <2>1 DEF MayMiss
<1>5. F \subseteq rlist[t]
  BY DEF NotHazardous
<1> QED BY <1>4, <1>5

\* The two instances count as this module does.
LEMMA CountsAlike == \A S : Route!Cardinality(S) = Cardinality(S) /\ Hash!Cardinality(S) = Cardinality(S)
  BY Zenon DEF Route!Cardinality, Hash!Cardinality, Cardinality, Route!IsFiniteSet, Hash!IsFiniteSet, IsFiniteSet

\* hazptr_scan() keeps the invariant of the routing table.
LEMMA RouteScanKeeps ==
  ASSUME RouteInv, NEW t \in Threads, Route!Scan(t), UNCHANGED <<Route!listvars, key, from, rep>>
  PROVE  RouteInv'
<1> USE DEF Route!Goto, Route!hpvars, Route!scanvars, Route!listvars
<1>1. CASE Route!ScanMb(t)
  <2>1. Begins(t) /\ hpstore[t] = {} /\ UNCHANGED hpstore
    BY <1>1 DEF Route!ScanMb, Route!Drained, Begins
  <2> QED BY <2>1, RouteScans
<1>2. CASE Route!ScanHP(t)
  <2>1. Collects(t, NR_THREADS) /\ UNCHANGED hpstore
    BY <1>2, Setting DEF Route!ScanHP, Collects
  <2> QED BY <2>1, RouteScans
<1>3. CASE Route!ScanFree(t)
  <2>1. PICK F \in Route!NotHazardous(t) :
          /\ pc[t] = "scan_free" /\ pc' = [pc EXCEPT ![t] = after[t]]
          /\ mem' = [o \in Objects |-> IF o \in F THEN "free" ELSE mem[o]]
          /\ rlist' = [rlist EXCEPT ![t] = @ \ F]
          /\ rcount' = [rcount EXCEPT ![t] = Cardinality(rlist'[t])]
          /\ plist' = [plist EXCEPT ![t] = {}] /\ scan' = [scan EXCEPT ![t] = 0]
          /\ UNCHANGED <<HP, hpstore, after>>
    BY <1>3, CountsAlike DEF Route!ScanFree
  <2>2. F \in NotHazardous(t)
    BY <2>1 DEF Route!NotHazardous, NotHazardous, Route!MayMiss, MayMiss, Route!MayFind, MayFind,
                Route!Orders, Orders, Route!compare, compare
  <2>3. plist[t] \subseteq Objects /\ rlist[t] \subseteq Objects
    BY DEF RouteInv, Proto
  <2>4. F \in SUBSET rlist[t] /\ (Near => F = rlist[t] \ plist[t])
    BY <2>2, <2>3, SearchIs DEF NotHazardous
  <2>5. Frees(t, F) /\ UNCHANGED hpstore
    BY <2>1, <2>4 DEF Frees
  <2> QED BY <2>4, <2>5, RouteScans
<1> QED BY <1>1, <1>2, <1>3 DEF Route!Scan

\* A store that becomes visible keeps the invariant.
LEMMA RouteDrainKeeps ==
  ASSUME RouteInv, NEW t \in Threads, Route!Drain(t)
  PROVE  RouteInv'
<1> USE DEF Route!Goto, Route!hpvars, Route!scanvars, Route!listvars
<1>1. /\ RouteReader(t) /\ Proto(NR_THREADS)
      /\ hpstore \in [Threads -> SUBSET (Threads \X Entries)]
  BY DEF RouteInv
<1>2. PICK s \in hpstore[t] : /\ HP' = [HP EXCEPT ![s[1]] = s[2]]
                              /\ hpstore' = [hpstore EXCEPT ![t] = @ \ {s}]
  BY DEF Route!Drain, Route!DrainStore
<1>3. UNCHANGED <<rlist, rcount, plist, scan, after, mem, pc, list, stale, routelock, from, rep>>
  BY DEF Route!Drain, Route!DrainStore
<1>4. s[1] = t /\ s[2] \in Entries /\ s = <<s[1], s[2]>> /\ s \in {t} \X Entries
  BY <1>1, <1>2 DEF RouteReader
<1>5. HP' = [HP EXCEPT ![t] = s[2]] /\ t \in 0 .. NR_THREADS - 1
  BY <1>2, <1>4, Setting
<1>6. HazptrStep(t, NR_THREADS)
  BY <1>3, <1>4, <1>5 DEF HazptrStep, Drains, Entries
<1>7. Proto(NR_THREADS)'
  BY <1>1, <1>6, ProtoKept, Setting
<1>8. RouteTable'
  BY <1>3, RouteTableKept DEF RouteInv, Updating
<1>9. /\ hpstore' \in [Threads -> SUBSET (Threads \X Entries)]
      /\ hpstore'[t] = hpstore[t] \ {s} /\ \A u \in Threads \ {t} : hpstore'[u] = hpstore[u]
  BY <1>1, <1>2
<1>10. HP'[t] = s[2] /\ \A u \in Threads \ {t} : HP'[u] = HP[u]
  BY <1>1, <1>5, Setting DEF Proto
<1>11. \A u \in Threads \ {t} : RouteReader(u)'
  BY <1>3, <1>6, <1>9, <1>10, RouteOthers
<1>12. RouteReader(t)'
  <2>1. pc[t] \in {"mb", "exit", "scan_mb", "exited"}
    BY <1>1, <1>2 DEF RouteReader
  <2>2. pc[t] = "mb" => hpstore'[t] = {} /\ HP'[t] = rep[t]
    <3>1. pc[t] = "mb" => hpstore[t] = {<<t, rep[t]>>}
      BY <1>1, <1>2 DEF RouteReader
    <3>2. hpstore[t] = {<<t, rep[t]>>} => s = <<t, rep[t]>>
      BY <1>2
    <3> QED BY <1>4, <1>9, <1>10, <3>1, <3>2
  <2>3. hpstore'[t] \subseteq {t} \X Entries
    BY <1>1, <1>9 DEF RouteReader
  <2> QED BY <1>1, <1>3, <2>1, <2>2, <2>3 DEF RouteReader
<1> QED BY <1>3, <1>7, <1>8, <1>9, <1>11, <1>12 DEF RouteInv

\* Every step of the routing table keeps its invariant.
LEMMA RouteStep ==
  ASSUME RouteInv, Route!Next
  PROVE  RouteInv'
<1>1. PICK t \in Threads :
        \/ Route!Drain(t) \/ Route!Step(t) \/ Route!Leave(t) \/ Route!RouteClear(t)
        \/ \E a \in Addrs : Route!LookupCall(t, a) \/ Route!RouteAdd(t, a) \/ Route!RouteDel(t, a)
  BY Setting DEF Route!Next
<1>2. CASE Route!Step(t)
  BY <1>2, RouteLookup, RouteDelPoisonKeeps, RouteClearNextKeeps, RouteClearEndKeeps, RouteScanKeeps, RouteExitKeeps
     DEF Route!Step
<1>3. CASE Route!Leave(t)
  BY <1>3, RouteExitKeeps DEF Route!Leave
<1>4. ASSUME NEW a \in Addrs, Route!LookupCall(t, a) \/ Route!RouteAdd(t, a) \/ Route!RouteDel(t, a)
      PROVE  RouteInv'
  BY <1>4, RouteLookup, RouteAddKeeps, RouteDelKeeps
<1> QED BY <1>1, <1>2, <1>3, <1>4, RouteDrainKeeps, RouteClearKeeps

-----------------------------------------------------------------------------
\* The index of hazard pointer k of t
Slot(t, k) == 2 * t + k

\* The bucket of element o
Bucket(o) == Hash!HASH2BKT(ekey[o])

\* x is linked before y.
Before(s, x, y) == \E i, j \in 1 .. Len(s) : i < j /\ s[i] = x /\ s[j] = y

\* x is linked before y, or is y.
NotAfter(s, x, y) == \E i, j \in 1 .. Len(s) : i <= j /\ s[i] = x /\ s[j] = y

\* A lookup that goes on from f in bucket b comes to element e or starts over: f is before e, or f
\* is unlinked and either poisoned or still points at or before e.
Ahead(b, f, e) ==
  \/ f = NULL
  \/ Before(bkt[b], f, e)
  \/ /\ f \notin ToSet(bkt[b])
     /\ stale[f] = POISON \/ NotAfter(bkt[b], stale[f], e)

\* t is in hashtab_del() between the unlinking and the poisoning of o.
Deleting(t, o) == pc[t] = "del_poison" /\ htep[t] = o

\* The buckets: each holds live elements of its own, its lock is held by who deletes in it, and only
\* an element that is being deleted is unlinked and not poisoned; its hte_next is in the bucket.
HashTable ==
  /\ bkt \in [Hash!Buckets -> Seq(Objects)]
  /\ stale \in [Objects -> Objects \union {NULL, POISON}]
  /\ ekey \in [Objects -> Keys \union {NULL}]
  /\ htb_lock \in [Hash!Buckets -> Threads \union {-1}]
  /\ \A b \in Hash!Buckets :
       /\ OneToOne(bkt[b])
       /\ \A o \in ToSet(bkt[b]) : mem[o] = "live" /\ ekey[o] \in Keys /\ Bucket(o) = b
       /\ \A t \in Threads : htb_lock[b] = t <=> pc[t] = "del_poison" /\ Bucket(htep[t]) = b
  /\ \A t \in Threads : \A o \in Objects : Deleting(t, o) =>
       /\ mem[o] = "live" /\ ekey[o] \in Keys
       /\ o \notin ToSet(bkt[Bucket(o)])
       /\ stale[o] \in ToSet(bkt[Bucket(o)]) \union {NULL}
  /\ \A t \in Threads : pc[t] = "del_poison" => htep[t] \in Objects
  /\ \A o \in Objects :
       /\ stale[o] # POISON => \E t \in Threads : Deleting(t, o)
       /\ mem[o] = "live" =>
            /\ ekey[o] \in Keys
            /\ o \in ToSet(bkt[Bucket(o)]) \/ \E t \in Threads : Deleting(t, o)

\* Where a lookup still uses htepp
Approaching == {"load", "store", "mb", "reload"}

\* What holds of a lookup of t that is at x, looks for k, reads the hte_next of f and has the local
\* htep r and offset i: the two hazard pointers take turns, so that the one that guards f is never
\* the one being stored to.
ReaderAt(t, x, k, f, r, i, stores) ==
  /\ stores \subseteq {Slot(t, 0), Slot(t, 1)} \X Entries
  /\ stores # {} => x \in {"mb", "exit", "scan_mb", "exited"}
  /\ x \in Looking \ {"idle"} => k \in Keys
  /\ x \in Looking \ {"idle", "load"} => r # NULL
  /\ Near /\ x \in Approaching /\ f # NULL => Bucket(f) = Hash!HASH2BKT(k)
  /\ x \in {"load", "store"} /\ f # NULL => Guarded(f, Slot(t, 1 - i))
  /\ x \in {"mb", "reload"} /\ f # NULL => Guarded(f, Slot(t, i))
  /\ x = "mb" => \/ stores = {<<Slot(t, 1 - i), r>>}
                 \/ stores = {} /\ HP[Slot(t, 1 - i)] = r
  /\ x = "reload" => HP[Slot(t, 1 - i)] = r
  /\ x \in {"compare", "found"} => Guarded(r, Slot(t, 1 - i))
  /\ Near /\ x = "compare" => Bucket(r) = Hash!HASH2BKT(k)

\* The lookup of t
HashReader(t) == ReaderAt(t, pc[t], key[t], from[t], htep[t], offset[t], hpstore[t])

\* An element e with the key is in the bucket and the lookup has not passed it.
WillFind(x, b, k, f, r) ==
  /\ x \in Looking \ {"idle"}
  /\ \E e \in ToSet(bkt[b]) :
       /\ ekey[e] = k
       /\ x \in Approaching => Ahead(b, f, e)
       /\ x = "compare" => r = e \/ Ahead(b, r, e)

\* A key that has been in the table since the call is still to be found.
HashSteady(t) ==
  Near /\ steady[t] => WillFind(pc[t], Hash!HASH2BKT(key[t]), key[t], from[t], htep[t])

\* The inductive invariant of the hash table
HashInv ==
  /\ Proto(2 * NR_THREADS)
  /\ HashTable
  /\ from \in [Threads -> Entries] /\ htep \in [Threads -> Entries]
  /\ key \in [Threads -> Keys \union {NULL}]
  /\ offset \in [Threads -> {0, 1}] /\ steady \in [Threads -> BOOLEAN]
  /\ hpstore \in [Threads -> SUBSET ((0 .. 2 * NR_THREADS - 1) \X Entries)]
  /\ \A t \in Threads : HashReader(t) /\ HashSteady(t)

-----------------------------------------------------------------------------
\* Every thread has two hazard pointers of its own.
LEMMA Slots ==
  ASSUME NEW t \in Threads
  PROVE  /\ \A k \in {0, 1} : Slot(t, k) \in 0 .. 2 * NR_THREADS - 1
         /\ \A u \in Threads : \A j, k \in {0, 1} : Slot(u, j) = Slot(t, k) => u = t /\ j = k
         /\ Hash!Mine(t) = {Slot(t, 0), Slot(t, 1)}
<1>1. t \in Nat /\ t <= NR_THREADS - 1 /\ NR_THREADS \in Nat
  BY Setting
<1>2. \A k \in {0, 1} : Slot(t, k) \in 0 .. 2 * NR_THREADS - 1
  BY <1>1 DEF Slot
<1>3. ASSUME NEW u \in Threads, NEW j \in {0, 1}, NEW k \in {0, 1}, Slot(u, j) = Slot(t, k) PROVE u = t /\ j = k
  <2>1. u \in Nat
    BY Setting
  <2> QED BY <1>1, <1>3, <2>1 DEF Slot
<1>4. Hash!Mine(t) = {Slot(t, 0), Slot(t, 1)}
  BY <1>1, Setting DEF Hash!Mine, Slot
<1> QED BY <1>2, <1>3, <1>4

\* A key is in one of the buckets.
LEMMA HashBucket ==
  ASSUME NEW k \in Keys
  PROVE  Hash!HASH2BKT(k) \in Hash!Buckets
<1>1. k \in Nat /\ HashMod \in Nat \ {0} /\ NBUCKETS \in Nat \ {0}
  BY HashAssumption
<1>2. k % HashMod \in Nat
  BY <1>1
<1>3. \A x \in Nat : x % NBUCKETS \in 0 .. NBUCKETS - 1
  BY <1>1
<1> QED BY <1>2, <1>3 DEF Hash!HASH2BKT, Hash!hash, Hash!Buckets

\* The element after the i-th
LEMMA HashSuccessor ==
  ASSUME NEW b, bkt[b] \in Seq(Objects), OneToOne(bkt[b]), NEW i \in 1 .. Len(bkt[b])
  PROVE  Hash!Successor(b, bkt[b][i]) = IF i < Len(bkt[b]) THEN bkt[b][i + 1] ELSE NULL
<1> DEFINE s == bkt[b]
           o == s[i]
           j == SelectInSeq(s, LAMBDA x : x = o)
<1>1. o \in ToSet(s)
  BY DEF ToSet
<1>2. j \in 1 .. Len(s) /\ s[j] = o
  BY <1>1, Selected
<1> HIDE DEF j
<1>3. j = i
  <2>1. DOMAIN s = 1 .. Len(s)
    OBVIOUS
  <2> QED BY <1>2, <2>1 DEF OneToOne
<1>4. Hash!SelectInSeq(s, LAMBDA x : x = o) = j
  BY DEF Hash!SelectInSeq, SelectInSeq, Hash!Min, Min, j
<1>5. Hash!Successor(b, o) = IF j < Len(s) THEN s[j + 1] ELSE NULL
  BY <1>4 DEF Hash!Successor
<1> QED BY <1>3, <1>5

\* *htepp is NULL, poison or an element of the bucket: not only live but linked.
LEMMA HashDeref ==
  ASSUME HashTable, NEW b \in Hash!Buckets, NEW o \in Entries, o = NULL \/ Bucket(o) = b
  PROVE  /\ Hash!Deref(b, o) \in Objects \union {NULL, POISON}
         /\ Hash!Deref(b, o) \in Objects => Hash!Deref(b, o) \in ToSet(bkt[b])
<1> DEFINE s == bkt[b]
<1>1. /\ s \in Seq(Objects) /\ OneToOne(s) /\ Len(s) \in Nat /\ DOMAIN s = 1 .. Len(s)
      /\ NULL \notin ToSet(s) /\ Hash!ToSet(s) = ToSet(s) /\ ToSet(s) \subseteq Objects
  <2>1. s \in Seq(Objects) /\ OneToOne(s)
    BY DEF HashTable
  <2>2. ToSet(s) \subseteq Objects /\ Hash!ToSet(s) = ToSet(s)
    BY <2>1 DEF ToSet, Hash!ToSet
  <2> QED BY <2>1, <2>2, Setting
<1> HIDE DEF s
<1>2. CASE o = NULL
  <2>1. Hash!Deref(b, o) = IF s = <<>> THEN NULL ELSE s[1]
    BY <1>1, <1>2 DEF Hash!Deref, s
  <2>2. s # <<>> => s[1] \in ToSet(s)
    BY <1>1, EmptySeq DEF ToSet
  <2> QED BY <1>1, <2>1, <2>2, Setting DEF s
<1>3. CASE o \in ToSet(s)
  <2>1. PICK i \in 1 .. Len(s) : s[i] = o
    BY <1>1, <1>3 DEF ToSet
  <2>2. Hash!Deref(b, o) = Hash!Successor(b, o)
    BY <1>1, <1>3 DEF Hash!Deref, s
  <2>3. Hash!Successor(b, o) = IF i < Len(s) THEN s[i + 1] ELSE NULL
    BY <1>1, <2>1, HashSuccessor DEF s
  <2>4. i < Len(s) => s[i + 1] \in ToSet(s)
    BY <1>1, <2>1 DEF ToSet
  <2> QED BY <1>1, <2>2, <2>3, <2>4, Setting DEF s
<1>4. CASE o # NULL /\ o \notin ToSet(s)
  <2>1. Hash!Deref(b, o) = stale[o] /\ o \in Objects
    BY <1>1, <1>4 DEF Hash!Deref, Entries, s
  <2>2. CASE stale[o] = POISON
    BY <2>1, <2>2, Setting
  <2>3. CASE stale[o] # POISON
    <3>1. PICK t \in Threads : Deleting(t, o)
      BY <2>1, <2>3 DEF HashTable
    <3>2. stale[o] \in ToSet(bkt[Bucket(o)]) \union {NULL}
      BY <2>1, <3>1 DEF HashTable
    <3>3. Bucket(o) = b
      BY <1>4
    <3> QED BY <1>1, <2>1, <3>2, <3>3, Setting DEF s
  <2> QED BY <2>2, <2>3
<1> QED BY <1>2, <1>3, <1>4 DEF Entries

\* Linking at the head changes no order.
LEMMA AddedAhead ==
  ASSUME NEW S, NEW s \in Seq(S), NEW o \in S, NEW x, NEW y
  PROVE  /\ Before(s, x, y) => Before(<<o>> \o s, x, y)
         /\ NotAfter(s, x, y) => NotAfter(<<o>> \o s, x, y)
<1> DEFINE r == <<o>> \o s
<1>1. Len(s) \in Nat /\ Len(r) = Len(s) + 1 /\ \A j \in 1 .. Len(s) : r[j + 1] = s[j]
  BY Consed
<1> HIDE DEF r
<1>2. \A j \in 1 .. Len(s) : j + 1 \in 1 .. Len(r)
  BY <1>1
<1>3. ASSUME NEW i \in 1 .. Len(s), NEW j \in 1 .. Len(s), i < j, s[i] = x, s[j] = y PROVE Before(r, x, y)
  <2>1. i + 1 < j + 1 /\ r[i + 1] = x /\ r[j + 1] = y
    BY <1>1, <1>3
  <2> QED BY <1>2, <2>1 DEF Before
<1>4. ASSUME NEW i \in 1 .. Len(s), NEW j \in 1 .. Len(s), i <= j, s[i] = x, s[j] = y PROVE NotAfter(r, x, y)
  <2>1. i + 1 <= j + 1 /\ r[i + 1] = x /\ r[j + 1] = y
    BY <1>1, <1>4
  <2> QED BY <1>2, <2>1 DEF NotAfter
<1> QED BY <1>3, <1>4 DEF Before, NotAfter, r

\* Unlinking changes no order among the others, and what came after the unlinked element comes after
\* its successor or is that.
LEMMA RemovedAhead ==
  ASSUME NEW S, NEW s \in Seq(S), OneToOne(s), NEW n \in 1 .. Len(s), NEW x, NEW y, y # s[n]
  PROVE  /\ x # s[n] /\ Before(s, x, y) => Before(RemoveAt(s, n), x, y)
         /\ x # s[n] /\ NotAfter(s, x, y) => NotAfter(RemoveAt(s, n), x, y)
         /\ Before(s, s[n], y) => n < Len(s) /\ NotAfter(RemoveAt(s, n), s[n + 1], y)
<1> DEFINE r == RemoveAt(s, n)
           to(j) == IF j < n THEN j ELSE j - 1
<1>1. /\ r \in Seq(S) /\ Len(r) = Len(s) - 1
      /\ \A j \in 1 .. Len(r) : r[j] = IF j < n THEN s[j] ELSE s[j + 1]
  BY RemovedAt
<1>2. Len(s) \in Nat /\ Len(r) \in Nat /\ DOMAIN s = 1 .. Len(s)
  BY <1>1
<1> HIDE DEF r
<1>3. ASSUME NEW j \in 1 .. Len(s), j # n PROVE to(j) \in 1 .. Len(r) /\ r[to(j)] = s[j]
  <2>1. CASE j < n
    <3>1. j \in 1 .. Len(r)
      BY <1>1, <1>2, <2>1
    <3> QED BY <1>1, <2>1, <3>1
  <2>2. CASE j > n
    <3>1. j - 1 \in 1 .. Len(r) /\ ~ (j - 1 < n) /\ (j - 1) + 1 = j
      BY <1>1, <1>2, <2>2
    <3>2. r[j - 1] = s[j]
      BY <1>1, <3>1
    <3> QED BY <1>2, <2>2, <3>1, <3>2
  <2> QED BY <1>2, <1>3, <2>1, <2>2
<1>4. \A i, j \in 1 .. Len(s) : /\ i < j /\ i # n /\ j # n => to(i) < to(j)
                                /\ i <= j /\ i # n /\ j # n => to(i) <= to(j)
  BY <1>2
<1>5. n < Len(s) => n + 1 \in 1 .. Len(s) /\ n + 1 # n
  BY <1>2
<1>6. \A j \in 1 .. Len(s) : n < j => n < Len(s) /\ n + 1 <= j
  BY <1>2
<1> HIDE DEF to
<1>7. \A i, j \in 1 .. Len(s) : i < j /\ s[i] = x /\ s[j] = y /\ x # s[n] => Before(r, x, y)
  BY <1>3, <1>4 DEF Before
<1>8. ASSUME NEW i \in 1 .. Len(s), NEW j \in 1 .. Len(s), i <= j, i # n, j # n PROVE NotAfter(r, s[i], s[j])
  BY <1>3, <1>4, <1>8 DEF NotAfter
<1>9. ASSUME Before(s, s[n], y) PROVE n < Len(s) /\ NotAfter(r, s[n + 1], y)
  <2>1. PICK i, j \in 1 .. Len(s) : i < j /\ s[i] = s[n] /\ s[j] = y
    BY <1>9 DEF Before
  <2>2. i = n /\ j # n
    BY <1>2, <2>1 DEF OneToOne
  <2> QED BY <1>5, <1>6, <1>8, <2>1, <2>2
<1>10. x # s[n] /\ Before(s, x, y) => Before(r, x, y)
  BY <1>7 DEF Before
<1>11. x # s[n] /\ NotAfter(s, x, y) => NotAfter(r, x, y)
  <2> SUFFICES ASSUME x # s[n], NotAfter(s, x, y) PROVE NotAfter(r, x, y)
    OBVIOUS
  <2>1. PICK i, j \in 1 .. Len(s) : i <= j /\ s[i] = x /\ s[j] = y
    BY DEF NotAfter
  <2>2. i # n /\ j # n
    BY <2>1
  <2> QED BY <1>8, <2>1, <2>2
<1> QED BY <1>9, <1>10, <1>11 DEF r

\* *htepp does not skip e.
LEMMA DerefAhead ==
  ASSUME HashTable, NEW b \in Hash!Buckets, NEW f \in Entries, NEW e \in ToSet(bkt[b]), Ahead(b, f, e)
  PROVE  /\ Hash!Deref(b, f) # NULL
         /\ Hash!Deref(b, f) \in Objects => Hash!Deref(b, f) = e \/ Before(bkt[b], Hash!Deref(b, f), e)
<1> DEFINE s == bkt[b]
           d == Hash!Deref(b, f)
<1>1. /\ s \in Seq(Objects) /\ OneToOne(s) /\ Len(s) \in Nat /\ DOMAIN s = 1 .. Len(s)
      /\ NULL \notin ToSet(s) /\ Hash!ToSet(s) = ToSet(s) /\ ToSet(s) \subseteq Objects
  <2>1. s \in Seq(Objects) /\ OneToOne(s)
    BY DEF HashTable
  <2>2. ToSet(s) \subseteq Objects /\ Hash!ToSet(s) = ToSet(s)
    BY <2>1 DEF ToSet, Hash!ToSet
  <2> QED BY <2>1, <2>2, Setting
<1> HIDE DEF s
<1>2. PICK j \in 1 .. Len(s) : s[j] = e
  BY <1>1 DEF ToSet, s
<1>3. \A i \in 1 .. Len(s) : s[i] # NULL
  BY <1>1 DEF ToSet
<1>4. CASE f = NULL
  <2>1. d = IF s = <<>> THEN NULL ELSE s[1]
    BY <1>1, <1>4 DEF Hash!Deref, s
  <2>2. s # <<>> /\ 1 \in 1 .. Len(s) /\ (1 = j \/ 1 < j)
    BY <1>1, <1>2, EmptySeq
  <2> QED BY <1>2, <1>3, <2>1, <2>2 DEF Before, s
<1>5. CASE Before(s, f, e)
  <2>1. PICK i, k \in 1 .. Len(s) : i < k /\ s[i] = f /\ s[k] = e
    BY <1>5 DEF Before
  <2>2. f \in ToSet(s) /\ f # NULL
    BY <1>1, <2>1 DEF ToSet
  <2>3. d = Hash!Successor(b, f)
    BY <1>1, <2>2 DEF Hash!Deref, s
  <2>4. Hash!Successor(b, f) = IF i < Len(s) THEN s[i + 1] ELSE NULL
    BY <1>1, <2>1, HashSuccessor DEF s
  <2>5. i + 1 \in 1 .. Len(s) /\ (i + 1 = k \/ i + 1 < k) /\ i < Len(s)
    BY <1>1, <2>1
  <2> QED BY <1>3, <2>1, <2>3, <2>4, <2>5 DEF Before, s
<1>6. CASE /\ f # NULL /\ f \notin ToSet(s)
           /\ stale[f] = POISON \/ NotAfter(s, stale[f], e)
  <2>1. d = stale[f]
    BY <1>1, <1>6 DEF Hash!Deref, s
  <2>2. CASE stale[f] = POISON
    BY <2>1, <2>2, Setting
  <2>3. CASE NotAfter(s, stale[f], e)
    <3>1. PICK i, k \in 1 .. Len(s) : i <= k /\ s[i] = stale[f] /\ s[k] = e
      BY <2>3 DEF NotAfter
    <3>2. i = k \/ i < k
      BY <1>1, <3>1
    <3> QED BY <1>3, <2>1, <3>1, <3>2 DEF Before, s
  <2> QED BY <1>6, <2>2, <2>3
<1> QED BY <1>4, <1>5, <1>6 DEF Ahead, s

\* A step that touches neither the buckets nor the locks nor which elements are live keeps
\* HashTable.
LEMMA HashTableKept ==
  ASSUME HashTable, UNCHANGED <<bkt, stale, ekey, htb_lock>>,
         \A o \in Objects : mem'[o] = "live" <=> mem[o] = "live",
         \A u \in Threads : /\ pc'[u] = "del_poison" <=> pc[u] = "del_poison"
                            /\ pc[u] = "del_poison" => htep'[u] = htep[u]
  PROVE  HashTable'
<1>1. \A o \in Objects : Bucket(o)' = Bucket(o)
  BY DEF Bucket
<1>2. \A u \in Threads : pc[u] = "del_poison" => Bucket(htep[u])' = Bucket(htep[u])
  BY DEF Bucket
<1>3. \A u \in Threads : \A o \in Objects : Deleting(u, o)' <=> Deleting(u, o)
  BY DEF Deleting
<1>4. ASSUME NEW b \in Hash!Buckets
      PROVE  /\ OneToOne(bkt[b])'
             /\ \A o \in ToSet(bkt[b]) : mem'[o] = "live" /\ ekey'[o] \in Keys /\ Bucket(o)' = b
             /\ \A t \in Threads : htb_lock'[b] = t <=> pc'[t] = "del_poison" /\ Bucket(htep[t])' = b
  <2>1. ToSet(bkt[b]) \subseteq Objects
    BY DEF HashTable, ToSet
  <2> QED BY <1>1, <1>2, <2>1 DEF HashTable, OneToOne
<1>5. \A t \in Threads : \A o \in Objects : Deleting(t, o)' =>
        /\ mem'[o] = "live" /\ ekey'[o] \in Keys
        /\ o \notin ToSet(bkt'[Bucket(o)'])
        /\ stale'[o] \in ToSet(bkt'[Bucket(o)']) \union {NULL}
  BY <1>1, <1>3 DEF HashTable
<1>6. \A o \in Objects :
        /\ stale'[o] # POISON => \E t \in Threads : Deleting(t, o)'
        /\ mem'[o] = "live" =>
             /\ ekey'[o] \in Keys
             /\ o \in ToSet(bkt'[Bucket(o)']) \/ \E t \in Threads : Deleting(t, o)'
  BY <1>1, <1>3 DEF HashTable
<1>7. \A t \in Threads : pc'[t] = "del_poison" => htep'[t] \in Objects
  BY DEF HashTable
<1>8. \A b \in Hash!Buckets : \A o \in ToSet(bkt'[b]) : mem'[o] = "live" /\ ekey'[o] \in Keys /\ Bucket(o)' = b
  BY <1>4
<1> QED BY <1>4, <1>5, <1>6, <1>7, <1>8 DEF HashTable

\* A step of t keeps what holds of the lookup of u while u's hazard pointers stay: GuardKept for
\* both of them.
LEMMA ReaderAtKept ==
  ASSUME Proto(2 * NR_THREADS), NEW t \in Threads, HazptrStep(t, 2 * NR_THREADS),
         NEW u \in Threads, NEW x, NEW k, NEW f \in Entries, NEW r \in Entries, NEW i \in {0, 1}, NEW q,
         ReaderAt(u, x, k, f, r, i, q),
         HP'[Slot(u, 0)] = HP[Slot(u, 0)], HP'[Slot(u, 1)] = HP[Slot(u, 1)],
         \A o \in Objects : mem[o] # "free" => ekey'[o] = ekey[o]
  PROVE  ReaderAt(u, x, k, f, r, i, q)'
<1>1. i \in {0, 1} /\ 1 - i \in {0, 1}
  OBVIOUS
<1>2. \A j \in {0, 1} : HP'[Slot(u, j)] = HP[Slot(u, j)]
  OBVIOUS
<1>3. \A j \in {0, 1} : \A o \in Objects : Guarded(o, Slot(u, j)) => Guarded(o, Slot(u, j))'
  BY <1>2, GuardKept, Setting, Slots
<1>4. Near => \A j \in {0, 1} : \A o \in Objects : Guarded(o, Slot(u, j)) => Bucket(o)' = Bucket(o)
  BY DEF Guarded, Bucket
<1>5. HP'[Slot(u, 1 - i)] = HP[Slot(u, 1 - i)]
  BY <1>1, <1>2
<1>6. f # NULL =>
        /\ Guarded(f, Slot(u, 1 - i)) => Guarded(f, Slot(u, 1 - i))' /\ (Near => Bucket(f)' = Bucket(f))
        /\ Guarded(f, Slot(u, i)) => Guarded(f, Slot(u, i))' /\ (Near => Bucket(f)' = Bucket(f))
  BY <1>1, <1>3, <1>4 DEF Entries
<1>7. r # NULL /\ Guarded(r, Slot(u, 1 - i)) =>
        Guarded(r, Slot(u, 1 - i))' /\ (Near => Bucket(r)' = Bucket(r))
  BY <1>1, <1>3, <1>4 DEF Entries
<1> QED BY <1>5, <1>6, <1>7 DEF ReaderAt, Looking, Approaching

\* What only t's own steps change
Private(u) == <<pc[u], key[u], from[u], htep[u], offset[u], hpstore[u]>>

\* A step of t keeps what holds of a lookup of another thread.
LEMMA HashReaderKept ==
  ASSUME HashInv, NEW t \in Threads, HazptrStep(t, 2 * NR_THREADS),
         NEW u \in Threads, Private(u)' = Private(u),
         HP'[Slot(u, 0)] = HP[Slot(u, 0)], HP'[Slot(u, 1)] = HP[Slot(u, 1)],
         \A o \in Objects : mem[o] # "free" => ekey'[o] = ekey[o]
  PROVE  HashReader(u)'
<1>1. /\ from[u] \in Entries /\ htep[u] \in Entries /\ offset[u] \in {0, 1}
      /\ Proto(2 * NR_THREADS) /\ HashReader(u)
  BY DEF HashInv
<1>2. ReaderAt(u, pc[u], key[u], from[u], htep[u], offset[u], hpstore[u])'
  BY <1>1, ReaderAtKept DEF Private, HashReader
<1> QED BY <1>2 DEF HashReader

\* So does it keep what the lookup will find, if the table stays.
LEMMA HashSteadyKept ==
  ASSUME HashInv, NEW u \in Threads, Private(u)' = Private(u), steady'[u] = steady[u],
         UNCHANGED <<bkt, stale, ekey>>
  PROVE  HashSteady(u)'
<1>1. HashSteady(u)
  BY DEF HashInv
<1> QED BY <1>1 DEF HashSteady, WillFind, Ahead, Private

\* A step of t outside of updates and scans keeps the invariant if it keeps what holds of t.
LEMMA HashMoves ==
  ASSUME HashInv, NEW t \in Threads, Moves(t), pc[t] # "del_poison", pc'[t] # "del_poison",
         UNCHANGED <<bkt, stale, ekey, htb_lock>>,
         from' \in [Threads -> Entries], htep' \in [Threads -> Entries], key' \in [Threads -> Keys \union {NULL}],
         offset' \in [Threads -> {0, 1}], steady' \in [Threads -> BOOLEAN],
         hpstore' \in [Threads -> SUBSET ((0 .. 2 * NR_THREADS - 1) \X Entries)],
         \A u \in Threads \ {t} : Private(u)' = Private(u) /\ steady'[u] = steady[u],
         HashReader(t)', HashSteady(t)'
  PROVE  HashInv'
<1>1. HazptrStep(t, 2 * NR_THREADS)
  BY DEF HazptrStep
<1>2. Proto(2 * NR_THREADS)'
  BY <1>1, ProtoKept, Setting DEF HashInv
<1>3. \A u \in Threads \ {t} : pc'[u] = pc[u] /\ htep'[u] = htep[u]
  BY DEF Private
<1>4. HashTable'
  <2>1. \A o \in Objects : mem'[o] = "live" <=> mem[o] = "live"
    BY DEF Moves
  <2> QED BY <1>3, <2>1, HashTableKept DEF HashInv
<1>5. ASSUME NEW u \in Threads \ {t} PROVE HashReader(u)' /\ HashSteady(u)'
  <2>1. HP' = HP
    BY DEF Moves
  <2> QED BY <1>1, <2>1, HashReaderKept, HashSteadyKept
<1> QED BY <1>2, <1>4, <1>5 DEF HashInv

\* The steps of hazptr_scan() keep the invariant.
LEMMA HashScans ==
  ASSUME HashInv, NEW t \in Threads, NEW F \in SUBSET rlist[t],
         (Begins(t) /\ hpstore[t] = {}) \/ Collects(t, 2 * NR_THREADS) \/ Frees(t, F),
         UNCHANGED <<bkt, stale, ekey, htb_lock, key, from, htep, offset, steady, hpstore>>
  PROVE  HashInv'
<1>1. HazptrStep(t, 2 * NR_THREADS)
  BY DEF HazptrStep
<1>2. Proto(2 * NR_THREADS)'
  BY <1>1, ProtoKept, Setting DEF HashInv
<1>3. \A u \in Threads \ {t} : pc'[u] = pc[u]
  BY DEF HashInv, Proto, Begins, Collects, Frees
<1>4. /\ pc[t] \in {"scan_mb", "scan", "scan_free"}
      /\ pc'[t] \in {"scan", "scan_free", "idle", "clear", "exit"}
  BY DEF HashInv, Proto, Begins, Collects, Frees, Returns
<1>5. HashTable'
  <2>1. ASSUME NEW o \in Objects PROVE mem'[o] = "live" <=> mem[o] = "live"
    <3>1. o \in rlist[t] => mem[o] = "retired"
      BY DEF HashInv, Proto
    <3> QED BY <3>1 DEF Begins, Collects, Frees
  <2> QED BY <1>3, <1>4, <2>1, HashTableKept DEF HashInv
<1>6. HP' = HP
  BY DEF Begins, Collects, Frees
<1>7. ASSUME NEW u \in Threads \ {t} PROVE HashReader(u)' /\ HashSteady(u)'
  BY <1>1, <1>3, <1>6, HashReaderKept, HashSteadyKept DEF Private
<1>8. HashReader(t)' /\ HashSteady(t)'
  <2>1. HashReader(t) /\ HashSteady(t)
    BY DEF HashInv
  <2>2. hpstore'[t] = {} /\ (Near => ~ steady'[t])
    BY <1>4, <2>1 DEF HashReader, ReaderAt, HashSteady, WillFind, Looking, Collects, Frees
  <2> QED BY <1>4, <2>2 DEF HashReader, ReaderAt, HashSteady, Looking, Approaching
<1> QED BY <1>2, <1>5, <1>7, <1>8 DEF HashInv

\* A step of hashtab_lookup() to x, with the locals that it leaves
HashLooks(t, x, k, f, r, i, s) ==
  /\ pc[t] \in Looking /\ x \in Looking /\ pc' = [pc EXCEPT ![t] = x]
  /\ k \in Keys \union {NULL} /\ key' = [key EXCEPT ![t] = k]
  /\ f \in Entries /\ from' = [from EXCEPT ![t] = f]
  /\ r \in Entries /\ htep' = [htep EXCEPT ![t] = r]
  /\ i \in {0, 1} /\ offset' = [offset EXCEPT ![t] = i]
  /\ s \in BOOLEAN /\ steady' = [steady EXCEPT ![t] = s]
  /\ hpstore' = [hpstore EXCEPT ![t] = IF x = "mb" THEN {<<Slot(t, 1 - i), r>>} ELSE {}]
  /\ UNCHANGED <<HP, rlist, rcount, plist, scan, after, mem, bkt, stale, ekey, htb_lock>>
  /\ ReaderAt(t, x, k, f, r, i, IF x = "mb" THEN {<<Slot(t, 1 - i), r>>} ELSE {})
  /\ Near /\ s => WillFind(x, Hash!HASH2BKT(k), k, f, r)

\* Such a step keeps the invariant.
LEMMA HashLooksOn ==
  ASSUME HashInv, NEW t \in Threads, NEW x, NEW k, NEW f, NEW r, NEW i, NEW s, HashLooks(t, x, k, f, r, i, s)
  PROVE  HashInv'
<1> DEFINE q == IF x = "mb" THEN {<<Slot(t, 1 - i), r>>} ELSE {}
<1>1. Moves(t)
  BY DEF HashLooks, Moves, HashInv, Proto, Looking, PCs, Scanning
<1>2. f \in Entries /\ r \in Entries /\ k \in Keys \union {NULL} /\ i \in {0, 1} /\ s \in BOOLEAN /\ x \in Looking
  BY DEF HashLooks
<1>3. q \subseteq (0 .. 2 * NR_THREADS - 1) \X Entries
  <2>1. Slot(t, 1 - i) \in 0 .. 2 * NR_THREADS - 1
    BY <1>2, Slots
  <2> QED BY <1>2, <2>1
<1> HIDE DEF q
<1>4. /\ hpstore' = [hpstore EXCEPT ![t] = q] /\ ReaderAt(t, x, k, f, r, i, q)
      /\ UNCHANGED <<HP, rlist, rcount, plist, scan, after, mem, bkt, stale, ekey, htb_lock>>
  BY DEF HashLooks, q
<1>5. /\ from' \in [Threads -> Entries] /\ htep' \in [Threads -> Entries] /\ key' \in [Threads -> Keys \union {NULL}]
      /\ offset' \in [Threads -> {0, 1}] /\ steady' \in [Threads -> BOOLEAN]
  BY <1>2 DEF HashLooks, HashInv
<1>6. hpstore' \in [Threads -> SUBSET ((0 .. 2 * NR_THREADS - 1) \X Entries)]
  BY <1>3, <1>4 DEF HashInv
<1>7. pc[t] # "del_poison" /\ pc'[t] # "del_poison"
  BY DEF HashLooks, Looking, HashInv, Proto
<1>8. pc'[t] = x /\ from'[t] = f /\ htep'[t] = r /\ key'[t] = k /\ offset'[t] = i /\ steady'[t] = s /\ hpstore'[t] = q
  BY <1>4 DEF HashLooks, HashInv, Proto
<1>9. \A u \in Threads \ {t} : Private(u)' = Private(u) /\ steady'[u] = steady[u]
  BY <1>4 DEF HashLooks, HashInv, Proto, Private
<1>10. ReaderAt(t, x, k, f, r, i, q)'
  BY <1>1, <1>2, <1>4, ReaderAtKept DEF HazptrStep, HashInv
<1>11. HashReader(t)'
  BY <1>8, <1>10 DEF HashReader
<1>12. Near /\ s => WillFind(x, Hash!HASH2BKT(k), k, f, r)'
  BY <1>4 DEF HashLooks, WillFind, Ahead
<1>13. HashSteady(t)'
  BY <1>8, <1>12 DEF HashSteady
<1> QED BY <1>1, <1>4, <1>5, <1>6, <1>7, <1>9, <1>11, <1>13, HashMoves

\* Every step of hashtab_lookup() keeps the invariant. The second read of *htepp finds the element
\* in the bucket, so it is live and guarded; the comparison makes it the element to go on from,
\* guarded by the hazard pointer that is not used next.
LEMMA HashLookup ==
  ASSUME HashInv, NEW t \in Threads, \/ \E k \in Keys : Hash!LookupCall(t, k)
                                     \/ Hash!Lookup(t)
  PROVE  HashInv'
<1> USE DEF Hash!Goto, Hash!hpvars, Hash!scanvars, Hash!tabvars
<1> DEFINE k0 == key[t]
           b == Hash!HASH2BKT(key[t])
           f0 == from[t]
           r0 == htep[t]
           i0 == offset[t]
           s0 == steady[t]
<1>1. /\ from \in [Threads -> Entries] /\ htep \in [Threads -> Entries]
      /\ key \in [Threads -> Keys \union {NULL}]
      /\ offset \in [Threads -> {0, 1}] /\ steady \in [Threads -> BOOLEAN]
      /\ hpstore \in [Threads -> SUBSET ((0 .. 2 * NR_THREADS - 1) \X Entries)]
      /\ HashTable /\ Proto(2 * NR_THREADS) /\ HashSteady(t)
      /\ ReaderAt(t, pc[t], k0, f0, r0, i0, hpstore[t])
      /\ NULL \in Entries /\ Objects \subseteq Entries
  BY DEF HashInv, HashReader, Entries
<1>2. /\ [from EXCEPT ![t] = f0] = from /\ [htep EXCEPT ![t] = r0] = htep
      /\ [key EXCEPT ![t] = k0] = key /\ [offset EXCEPT ![t] = i0] = offset
      /\ [steady EXCEPT ![t] = s0] = steady
      /\ f0 \in Entries /\ r0 \in Entries /\ k0 \in Keys \union {NULL} /\ i0 \in {0, 1} /\ s0 \in BOOLEAN
  BY <1>1
<1>3. hpstore[t] = {} => hpstore = [hpstore EXCEPT ![t] = {}]
  BY <1>1
<1>4. pc[t] \in Looking \ {"mb"} => hpstore[t] = {}
  BY <1>1 DEF ReaderAt, Looking
<1>5. Near /\ s0 => WillFind(pc[t], b, k0, f0, r0)
  BY <1>1 DEF HashSteady
<1> HIDE DEF k0, f0, r0, i0, s0, b
<1>6. ASSUME NEW k \in Keys, Hash!LookupCall(t, k) PROVE HashInv'
  <2> DEFINE s == Hash!Has(k)
  <2>1. ReaderAt(t, "load", k, NULL, r0, 0, {})
    BY DEF ReaderAt, Looking, Approaching
  <2>2. s => WillFind("load", Hash!HASH2BKT(k), k, NULL, r0)
    <3> SUFFICES ASSUME s PROVE \E e \in ToSet(bkt[Hash!HASH2BKT(k)]) : ekey[e] = k
      BY DEF WillFind, Looking, Ahead
    <3>1. PICK c \in Hash!Buckets : \E e \in ToSet(bkt[c]) : ekey[e] = k
      BY DEF Hash!Has, Hash!Linked, Hash!ToSet, ToSet
    <3>2. PICK e \in ToSet(bkt[c]) : ekey[e] = k
      BY <3>1
    <3>3. Bucket(e) = c
      BY <1>1, <3>2 DEF HashTable
    <3> QED BY <3>2, <3>3 DEF Bucket
  <2>3. s \in BOOLEAN
    BY DEF Hash!Has
  <2>4. /\ pc[t] = "idle" /\ pc' = [pc EXCEPT ![t] = "load"] /\ key' = [key EXCEPT ![t] = k]
        /\ from' = [from EXCEPT ![t] = NULL] /\ offset' = [offset EXCEPT ![t] = 0]
        /\ steady' = [steady EXCEPT ![t] = s]
        /\ UNCHANGED <<HP, hpstore, rlist, rcount, plist, scan, after, mem, bkt, stale, ekey, htb_lock, htep>>
    BY <1>6 DEF Hash!LookupCall
  <2> HIDE DEF s
  <2>5. HashLooks(t, "load", k, NULL, r0, 0, s)
    BY <1>1, <1>2, <1>3, <1>4, <2>1, <2>2, <2>3, <2>4 DEF HashLooks, Looking
  <2> QED BY <2>5, HashLooksOn
<1>7. CASE Hash!LookupLoad(t)
  <2> DEFINE d == Hash!Deref(b, f0)
  <2>1. pc[t] = "load" /\ UNCHANGED <<HP, hpstore, rlist, rcount, plist, scan, after, mem, bkt, stale, ekey, htb_lock>>
    BY <1>7 DEF Hash!LookupLoad
  <2>2. \/ d = NULL /\ Hash!Return(t)
        \/ /\ d = POISON /\ from' = [from EXCEPT ![t] = NULL]
           /\ UNCHANGED <<pc, key, htep, offset, steady>>
        \/ /\ d \in Objects
           /\ pc' = [pc EXCEPT ![t] = "store"]
           /\ htep' = [htep EXCEPT ![t] = d]
           /\ UNCHANGED <<key, from, offset, steady>>
    BY <1>7 DEF Hash!LookupLoad, b, f0
  <2> HIDE DEF d
  <2>3. hpstore[t] = {} /\ k0 \in Keys
    BY <1>1, <1>4, <2>1 DEF ReaderAt, Looking
  <2>4. CASE Hash!Return(t)
    <3>1. ReaderAt(t, "idle", NULL, NULL, NULL, 0, {})
      BY DEF ReaderAt, Looking, Approaching
    <3>2. HashLooks(t, "idle", NULL, NULL, NULL, 0, FALSE)
      BY <1>1, <1>3, <2>1, <2>3, <2>4, <3>1 DEF HashLooks, Hash!Return, Looking
    <3> QED BY <3>2, HashLooksOn
  <2>5. CASE /\ d = POISON /\ from' = [from EXCEPT ![t] = NULL]
             /\ UNCHANGED <<pc, key, htep, offset, steady>>
    <3>1. ReaderAt(t, "load", k0, NULL, r0, i0, {})
      BY <2>3 DEF ReaderAt, Looking, Approaching
    <3>2. Near /\ s0 => WillFind("load", b, k0, NULL, r0)
      BY <1>5, <2>1 DEF WillFind, Ahead
    <3>3. pc' = [pc EXCEPT ![t] = "load"]
      BY <1>1, <2>1, <2>5 DEF Proto
    <3>4. HashLooks(t, "load", k0, NULL, r0, i0, s0)
      BY <1>1, <1>2, <1>3, <2>1, <2>3, <2>5, <3>1, <3>2, <3>3 DEF HashLooks, Looking, k0, b
    <3> QED BY <3>4, HashLooksOn
  <2>6. CASE /\ d \in Objects
             /\ pc' = [pc EXCEPT ![t] = "store"]
             /\ htep' = [htep EXCEPT ![t] = d]
             /\ UNCHANGED <<key, from, offset, steady>>
    <3>1. ReaderAt(t, "store", k0, f0, d, i0, {})
      BY <1>1, <2>1, <2>3, <2>6, Setting DEF ReaderAt, Looking, Approaching
    <3>2. Near /\ s0 => WillFind("store", b, k0, f0, d)
      BY <1>5, <2>1 DEF WillFind, Looking, Approaching
    <3>3. HashLooks(t, "store", k0, f0, d, i0, s0)
      BY <1>1, <1>2, <1>3, <2>1, <2>3, <2>6, <3>1, <3>2 DEF HashLooks, Looking, k0, b
    <3> QED BY <3>3, HashLooksOn
  <2> QED BY <2>2, <2>4, <2>5, <2>6
<1>8. CASE Hash!LookupStore(t)
  <2>1. /\ pc[t] = "store" /\ pc' = [pc EXCEPT ![t] = "mb"]
        /\ hpstore' = [hpstore EXCEPT ![t] = {s \in @ : s[1] # K * t + i0} \union {<<K * t + i0, r0>>}]
        /\ offset' = [offset EXCEPT ![t] = 1 - i0]
        /\ UNCHANGED <<HP, rlist, rcount, plist, scan, after, mem, bkt, stale, ekey, htb_lock, key, from, htep, steady>>
    BY <1>1, <1>8 DEF Hash!LookupStore, Hash!StoreHP, i0, r0
  <2>2. hpstore[t] = {} /\ r0 # NULL /\ k0 \in Keys
    BY <1>1, <1>4, <2>1 DEF ReaderAt, Looking
  <2>3. K * t + i0 = Slot(t, i0) /\ 1 - (1 - i0) = i0 /\ 1 - i0 \in {0, 1}
    BY <1>2, Setting DEF Slot
  <2>4. hpstore' = [hpstore EXCEPT ![t] = {<<Slot(t, 1 - (1 - i0)), r0>>}]
    BY <1>1, <2>1, <2>2, <2>3
  <2>5. ReaderAt(t, "mb", k0, f0, r0, 1 - i0, {<<Slot(t, i0), r0>>})
    <3>1. Slot(t, i0) \in {Slot(t, 0), Slot(t, 1)}
      BY <1>2
    <3> QED BY <1>1, <1>2, <2>1, <2>2, <2>3, <3>1 DEF ReaderAt, Looking, Approaching
  <2>6. Near /\ s0 => WillFind("mb", b, k0, f0, r0)
    BY <1>5, <2>1 DEF WillFind, Looking, Approaching
  <2>7. HashLooks(t, "mb", k0, f0, r0, 1 - i0, s0)
    BY <1>1, <1>2, <2>1, <2>3, <2>4, <2>5, <2>6 DEF HashLooks, Looking, k0, b
  <2> QED BY <2>7, HashLooksOn
<1>9. CASE Hash!LookupMb(t)
  <2>1. /\ pc[t] = "mb" /\ pc' = [pc EXCEPT ![t] = "reload"] /\ hpstore[t] = {}
        /\ UNCHANGED <<HP, hpstore, rlist, rcount, plist, scan, after, mem, bkt, stale, ekey, htb_lock>>
        /\ UNCHANGED <<key, from, htep, offset, steady>>
    BY <1>9 DEF Hash!LookupMb, Hash!Drained
  <2>2. ReaderAt(t, "reload", k0, f0, r0, i0, {})
    BY <1>1, <2>1 DEF ReaderAt, Looking, Approaching
  <2>3. Near /\ s0 => WillFind("reload", b, k0, f0, r0)
    BY <1>5, <2>1 DEF WillFind, Looking, Approaching
  <2>4. HashLooks(t, "reload", k0, f0, r0, i0, s0)
    BY <1>1, <1>2, <1>3, <2>1, <2>2, <2>3 DEF HashLooks, Looking, k0, b
  <2> QED BY <2>4, HashLooksOn
<1>10. CASE Hash!LookupReload(t)
  <2> DEFINE d == Hash!Deref(b, f0)
  <2>1. /\ pc[t] = "reload"
        /\ \/ d = r0 /\ pc' = [pc EXCEPT ![t] = "compare"] /\ UNCHANGED from
           \/ d # r0 /\ pc' = [pc EXCEPT ![t] = "load"] /\ from' = [from EXCEPT ![t] = NULL]
        /\ UNCHANGED <<HP, hpstore, rlist, rcount, plist, scan, after, mem, bkt, stale, ekey, htb_lock>>
        /\ UNCHANGED <<key, htep, offset, steady>>
    BY <1>10 DEF Hash!LookupReload, b, f0, r0
  <2>2. /\ hpstore[t] = {} /\ r0 \in Objects /\ k0 \in Keys /\ HP[Slot(t, 1 - i0)] = r0
        /\ Near => f0 = NULL \/ Bucket(f0) = b
    BY <1>1, <1>2, <1>4, <2>1 DEF ReaderAt, Looking, Approaching, Entries, k0, b
  <2>3. b \in Hash!Buckets
    BY <2>2, HashBucket DEF b, k0
  <2>4. CASE d = r0 /\ pc' = [pc EXCEPT ![t] = "compare"] /\ UNCHANGED from
    <3>1. Near => r0 \in ToSet(bkt[b])
      BY <1>1, <1>2, <2>2, <2>3, <2>4, HashDeref
    <3>2. Near => mem[r0] = "live" /\ Bucket(r0) = b
      BY <1>1, <2>3, <3>1 DEF HashTable
    <3>3. Guarded(r0, Slot(t, 1 - i0))
      BY <1>1, <2>2, <3>2 DEF Proto, Guarded
    <3>4. ReaderAt(t, "compare", k0, f0, r0, i0, {})
      BY <2>2, <3>2, <3>3, Setting DEF ReaderAt, Looking, Approaching, b, k0
    <3>5. Near /\ s0 => WillFind("compare", b, k0, f0, r0)
      <4> SUFFICES ASSUME Near, s0 PROVE \E e \in ToSet(bkt[b]) : ekey[e] = k0 /\ (r0 = e \/ Ahead(b, r0, e))
        BY DEF WillFind, Looking, Approaching
      <4>1. PICK e \in ToSet(bkt[b]) : ekey[e] = k0 /\ Ahead(b, f0, e)
        BY <1>5, <2>1 DEF WillFind, Approaching
      <4>2. r0 = e \/ Before(bkt[b], r0, e)
        BY <1>1, <1>2, <2>2, <2>3, <2>4, <4>1, DerefAhead
      <4> QED BY <4>1, <4>2 DEF Ahead
    <3>6. HashLooks(t, "compare", k0, f0, r0, i0, s0)
      BY <1>1, <1>2, <1>3, <2>1, <2>2, <2>4, <3>4, <3>5 DEF HashLooks, Looking, k0, b
    <3> QED BY <3>6, HashLooksOn
  <2>5. CASE d # r0 /\ pc' = [pc EXCEPT ![t] = "load"] /\ from' = [from EXCEPT ![t] = NULL]
    <3>1. ReaderAt(t, "load", k0, NULL, r0, i0, {})
      BY <2>2 DEF ReaderAt, Looking, Approaching
    <3>2. Near /\ s0 => WillFind("load", b, k0, NULL, r0)
      BY <1>5, <2>1 DEF WillFind, Ahead, Looking, Approaching
    <3>3. HashLooks(t, "load", k0, NULL, r0, i0, s0)
      BY <1>1, <1>2, <1>3, <2>1, <2>2, <2>5, <3>1, <3>2 DEF HashLooks, Looking, k0, b
    <3> QED BY <3>3, HashLooksOn
  <2> QED BY <2>1, <2>4, <2>5
<1>11. CASE Hash!LookupCompare(t)
  <2>1. /\ pc[t] = "compare"
        /\ \/ /\ ekey[r0] # k0 /\ pc' = [pc EXCEPT ![t] = "load"] /\ from' = [from EXCEPT ![t] = r0]
           \/ /\ pc' = [pc EXCEPT ![t] = "found"] /\ from' = [from EXCEPT ![t] = NULL]
        /\ UNCHANGED <<HP, hpstore, rlist, rcount, plist, scan, after, mem, bkt, stale, ekey, htb_lock>>
        /\ UNCHANGED <<key, htep, offset, steady>>
    BY <1>11 DEF Hash!LookupCompare, k0, r0
  <2>2. /\ hpstore[t] = {} /\ r0 # NULL /\ k0 \in Keys /\ Guarded(r0, Slot(t, 1 - i0)) /\ (Near => Bucket(r0) = b)
    BY <1>1, <1>4, <2>1 DEF ReaderAt, Looking, k0, b
  <2>3. CASE ekey[r0] # k0 /\ pc' = [pc EXCEPT ![t] = "load"] /\ from' = [from EXCEPT ![t] = r0]
    <3>1. ReaderAt(t, "load", k0, r0, r0, i0, {})
      BY <2>2 DEF ReaderAt, Looking, Approaching, k0, b
    <3>2. Near /\ s0 => WillFind("load", b, k0, r0, r0)
      BY <1>5, <2>1, <2>3 DEF WillFind, Looking, Approaching
    <3>3. HashLooks(t, "load", k0, r0, r0, i0, s0)
      BY <1>1, <1>2, <1>3, <2>1, <2>2, <2>3, <3>1, <3>2 DEF HashLooks, Looking, k0, b
    <3> QED BY <3>3, HashLooksOn
  <2>4. CASE pc' = [pc EXCEPT ![t] = "found"] /\ from' = [from EXCEPT ![t] = NULL]
    <3>1. ReaderAt(t, "found", k0, NULL, r0, i0, {})
      BY <2>2 DEF ReaderAt, Looking, Approaching
    <3>2. Near /\ s0 => WillFind("found", b, k0, NULL, r0)
      BY <1>5, <2>1 DEF WillFind, Looking, Approaching
    <3>3. HashLooks(t, "found", k0, NULL, r0, i0, s0)
      BY <1>1, <1>2, <1>3, <2>1, <2>2, <2>4, <3>1, <3>2 DEF HashLooks, Looking, k0, b
    <3> QED BY <3>3, HashLooksOn
  <2> QED BY <2>1, <2>3, <2>4
<1>12. CASE Hash!LookupDone(t)
  <2>1. pc[t] = "found" /\ Hash!Return(t) /\ UNCHANGED <<HP, hpstore, rlist, rcount, plist, scan, after, mem, bkt, stale, ekey, htb_lock>>
    BY <1>12 DEF Hash!LookupDone
  <2>2. hpstore[t] = {}
    BY <1>4, <2>1 DEF Looking
  <2>3. ReaderAt(t, "idle", NULL, NULL, NULL, 0, {})
    BY DEF ReaderAt, Looking, Approaching
  <2>4. HashLooks(t, "idle", NULL, NULL, NULL, 0, FALSE)
    BY <1>1, <1>3, <2>1, <2>2, <2>3 DEF HashLooks, Hash!Return, Looking
  <2> QED BY <2>4, HashLooksOn
<1> QED BY <1>6, <1>7, <1>8, <1>9, <1>10, <1>11, <1>12 DEF Hash!Lookup

\* An update keeps what a lookup will find if it keeps the element and does not move it out of
\* reach.
LEMMA StaysAhead ==
  ASSUME HashInv, NEW u \in Threads, Private(u)' = Private(u), steady'[u] => steady[u],
         \A b \in Hash!Buckets : \A e \in ToSet(bkt[b]) :
           steady'[u] /\ b = Hash!HASH2BKT(key[u]) /\ ekey[e] = key[u] =>
             /\ e \in ToSet(bkt'[b]) /\ ekey'[e] = ekey[e]
             /\ \A f \in Entries : f = NULL \/ (mem[f] # "free" /\ Bucket(f) = b) =>
                  (Ahead(b, f, e) => Ahead(b, f, e)')
  PROVE  HashSteady(u)'
<1> SUFFICES ASSUME Near, steady'[u] PROVE HashSteady(u)'
  BY DEF HashSteady, Near
<1>1. /\ WillFind(pc[u], Hash!HASH2BKT(key[u]), key[u], from[u], htep[u])
      /\ ReaderAt(u, pc[u], key[u], from[u], htep[u], offset[u], hpstore[u])
      /\ from[u] \in Entries /\ htep[u] \in Entries
  BY DEF HashInv, HashSteady, HashReader
<1> PICK b, x, k, f, r : /\ b = Hash!HASH2BKT(key[u]) /\ x = pc[u] /\ k = key[u]
                         /\ f = from[u] /\ r = htep[u]
  OBVIOUS
<1>2. WillFind(x, b, k, f, r) /\ f \in Entries /\ r \in Entries /\ b = Hash!HASH2BKT(k) /\ k \in Keys
  BY <1>1 DEF WillFind, ReaderAt, Looking
<1>3. b \in Hash!Buckets
  BY <1>2, HashBucket
<1>4. x \in Approaching => f = NULL \/ (mem[f] # "free" /\ Bucket(f) = b)
  BY <1>1 DEF ReaderAt, Guarded, Approaching
<1>5. x = "compare" => mem[r] # "free" /\ Bucket(r) = b
  BY <1>1 DEF ReaderAt, Guarded
<1>6. PICK e \in ToSet(bkt[b]) :
        /\ ekey[e] = k
        /\ x \in Approaching => Ahead(b, f, e)
        /\ x = "compare" => r = e \/ Ahead(b, r, e)
  BY <1>2 DEF WillFind
<1>7. e \in ToSet(bkt'[b]) /\ ekey'[e] = ekey[e]
  BY <1>2, <1>3, <1>6
<1>8. x \in Approaching => Ahead(b, f, e)'
  BY <1>2, <1>3, <1>4, <1>6
<1>9. x = "compare" => r = e \/ Ahead(b, r, e)'
  BY <1>2, <1>3, <1>5, <1>6
<1>10. WillFind(x, b, k, f, r)'
  BY <1>2, <1>6, <1>7, <1>8, <1>9 DEF WillFind
<1>11. x = pc'[u] /\ b = Hash!HASH2BKT(key'[u]) /\ k = key'[u] /\ f = from'[u] /\ r = htep'[u]
  BY <1>2 DEF Private
<1> QED BY <1>10, <1>11 DEF HashSteady

\* A step of an update keeps the invariant if it keeps HashTable and what the lookups will find.
LEMMA HashUpdates ==
  ASSUME HashInv, NEW t \in Threads, HazptrStep(t, 2 * NR_THREADS),
         UNCHANGED <<HP, hpstore, key, from, offset>>,
         htep' \in [Threads -> Entries], steady' \in [Threads -> BOOLEAN],
         \A u \in Threads \ {t} : pc'[u] = pc[u] /\ htep'[u] = htep[u] /\ HashSteady(u)',
         pc[t] \in {"idle", "del_poison"}, pc'[t] \in {"idle", "del_poison", "scan_mb"},
         steady'[t] => steady[t],
         \A o \in Objects : mem[o] # "free" => ekey'[o] = ekey[o],
         HashTable'
  PROVE  HashInv'
<1>1. Proto(2 * NR_THREADS)'
  BY ProtoKept, Setting DEF HashInv
<1>2. \A u \in Threads \ {t} : HashReader(u)'
  BY HashReaderKept DEF Private
<1>3. HashReader(t)' /\ HashSteady(t)'
  <2>1. HashReader(t) /\ HashSteady(t)
    BY DEF HashInv
  <2>2. hpstore'[t] = {} /\ (Near => ~ steady'[t])
    BY <2>1 DEF HashReader, ReaderAt, HashSteady, WillFind, Looking
  <2> QED BY <2>2 DEF HashReader, ReaderAt, HashSteady, Looking, Approaching
<1> QED BY <1>1, <1>2, <1>3 DEF HashInv

\* hashtab_add() keeps the invariant: at the head, it is ahead of nobody who has started.
LEMMA HashAddKeeps ==
  ASSUME HashInv, NEW t \in Threads, NEW k \in Keys, Hash!Add(t, k)
  PROVE  HashInv'
<1> USE DEF Hash!Goto, Hash!hpvars, Hash!scanvars, Hash!tabvars
<1> DEFINE b == Hash!HASH2BKT(k)
<1>1. PICK o \in Objects :
        /\ mem[o] = "free" /\ mem' = [mem EXCEPT ![o] = "live"]
        /\ ekey' = [ekey EXCEPT ![o] = k]
        /\ bkt' = [bkt EXCEPT ![b] = <<o>> \o @]
        /\ stale' = [stale EXCEPT ![o] = POISON]
  BY DEF Hash!Add
<1>2. UNCHANGED <<HP, hpstore, rlist, rcount, plist, scan, after, pc, htb_lock, key, from, htep, offset, steady>> /\ pc[t] = "idle"
  BY DEF Hash!Add
<1>3. b \in Hash!Buckets
  BY HashBucket
<1> HIDE DEF b
<1>4. HazptrStep(t, 2 * NR_THREADS)
  BY <1>1, <1>2 DEF HazptrStep, Allocates
<1>5. /\ HashTable /\ bkt \in [Hash!Buckets -> Seq(Objects)]
      /\ stale \in [Objects -> Objects \union {NULL, POISON}]
      /\ ekey \in [Objects -> Keys \union {NULL}]
      /\ mem \in [Objects -> {"free", "live", "retired"}]
      /\ htep \in [Threads -> Entries] /\ steady \in [Threads -> BOOLEAN]
  BY DEF HashInv, HashTable, Proto
<1>6. \A c \in Hash!Buckets : /\ bkt[c] \in Seq(Objects) /\ OneToOne(bkt[c])
                              /\ o \notin ToSet(bkt[c]) /\ ToSet(bkt[c]) \subseteq Objects
  <2>1. \A c \in Hash!Buckets : bkt[c] \in Seq(Objects)
    BY <1>5
  <2>2. \A c \in Hash!Buckets : ToSet(bkt[c]) \subseteq Objects
    BY <2>1 DEF ToSet
  <2> QED BY <1>1, <1>5, <2>1, <2>2 DEF HashTable
<1>7. \A x \in Objects : /\ mem'[x] = IF x = o THEN "live" ELSE mem[x]
                         /\ stale'[x] = IF x = o THEN POISON ELSE stale[x]
                         /\ ekey'[x] = IF x = o THEN k ELSE ekey[x]
  BY <1>1, <1>5
<1>8. \A c \in Hash!Buckets : bkt'[c] = IF c = b THEN <<o>> \o bkt[b] ELSE bkt[c]
  BY <1>1, <1>5
<1>9. <<o>> \o bkt[b] \in Seq(Objects) /\ OneToOne(<<o>> \o bkt[b]) /\ ToSet(<<o>> \o bkt[b]) = ToSet(bkt[b]) \union {o}
  BY <1>3, <1>6, Added
<1>10. \A x \in Objects : Bucket(x)' = IF x = o THEN b ELSE Bucket(x)
  BY <1>7 DEF Bucket, b
<1>11. \A c \in Hash!Buckets : ToSet(bkt'[c]) = IF c = b THEN ToSet(bkt[b]) \union {o} ELSE ToSet(bkt[c])
  BY <1>8, <1>9
<1>12. \A u \in Threads : \A x \in Objects : /\ Deleting(u, x)' <=> Deleting(u, x)
                                             /\ Deleting(u, x) => x # o
  BY <1>1, <1>2, <1>5 DEF Deleting, HashTable
<1>13. HashTable'
  <2>1. /\ bkt' \in [Hash!Buckets -> Seq(Objects)]
        /\ stale' \in [Objects -> Objects \union {NULL, POISON}]
        /\ ekey' \in [Objects -> Keys \union {NULL}]
        /\ htb_lock' \in [Hash!Buckets -> Threads \union {-1}]
    <3>1. bkt' \in [Hash!Buckets -> Seq(Objects)]
      BY <1>1, <1>5, <1>9
    <3> QED BY <1>1, <1>2, <1>5, <3>1 DEF HashTable
  <2>2. ASSUME NEW c \in Hash!Buckets
        PROVE  /\ OneToOne(bkt'[c])
               /\ \A x \in ToSet(bkt'[c]) : mem'[x] = "live" /\ ekey'[x] \in Keys /\ Bucket(x)' = c
    <3>1. OneToOne(bkt'[c])
      BY <1>6, <1>8, <1>9
    <3>2. \A x \in ToSet(bkt[c]) : x \in Objects /\ x # o /\ mem[x] = "live" /\ ekey[x] \in Keys /\ Bucket(x) = c
      BY <1>5, <1>6 DEF HashTable
    <3> QED BY <1>7, <1>10, <1>11, <3>1, <3>2
  <2>3. ASSUME NEW c \in Hash!Buckets, NEW u \in Threads
        PROVE  htb_lock'[c] = u <=> pc'[u] = "del_poison" /\ Bucket(htep[u])' = c
    <3>1. pc[u] = "del_poison" => htep[u] \in Objects /\ htep[u] # o
      BY <1>5, <1>12 DEF HashTable, Deleting
    <3>2. pc[u] = "del_poison" => Bucket(htep[u])' = Bucket(htep[u])
      BY <1>2, <1>7, <3>1 DEF Bucket
    <3> QED BY <1>2, <1>5, <3>2 DEF HashTable
  <2>4. ASSUME NEW u \in Threads, NEW x \in Objects, Deleting(u, x)'
        PROVE  /\ mem'[x] = "live" /\ ekey'[x] \in Keys
               /\ x \notin ToSet(bkt'[Bucket(x)'])
               /\ stale'[x] \in ToSet(bkt'[Bucket(x)']) \union {NULL}
    <3>1. /\ x # o /\ mem[x] = "live" /\ ekey[x] \in Keys /\ x \notin ToSet(bkt[Bucket(x)])
          /\ stale[x] \in ToSet(bkt[Bucket(x)]) \union {NULL}
      BY <1>5, <1>12, <2>4 DEF HashTable
    <3>2. Bucket(x) \in Hash!Buckets
      BY <3>1, HashBucket DEF Bucket
    <3> QED BY <1>7, <1>10, <1>11, <3>1, <3>2
  <2>5. ASSUME NEW x \in Objects
        PROVE  /\ stale'[x] # POISON => \E u \in Threads : Deleting(u, x)'
               /\ mem'[x] = "live" =>
                    /\ ekey'[x] \in Keys
                    /\ x \in ToSet(bkt'[Bucket(x)']) \/ \E u \in Threads : Deleting(u, x)'
    <3>1. CASE x = o
      BY <1>3, <1>7, <1>10, <1>11, <3>1
    <3>2. CASE x # o
      <4>1. /\ stale[x] # POISON => \E u \in Threads : Deleting(u, x)'
            /\ mem[x] = "live" =>
                 /\ ekey[x] \in Keys
                 /\ x \in ToSet(bkt[Bucket(x)]) \/ \E u \in Threads : Deleting(u, x)'
        BY <1>5, <1>12 DEF HashTable
      <4>2. ekey[x] \in Keys => Bucket(x) \in Hash!Buckets
        BY HashBucket DEF Bucket
      <4> QED BY <1>7, <1>10, <1>11, <3>2, <4>1, <4>2
    <3> QED BY <3>1, <3>2
  <2>6. \A u \in Threads : pc'[u] = "del_poison" => htep'[u] \in Objects
    BY <1>2, <1>5 DEF HashTable
  <2> QED BY <2>1, <2>2, <2>3, <2>4, <2>5, <2>6 DEF HashTable
<1>14. ASSUME NEW u \in Threads PROVE HashSteady(u)'
  <2>1. ASSUME NEW c \in Hash!Buckets, NEW e \in ToSet(bkt[c]), NEW f \in Entries,
               f = NULL \/ (mem[f] # "free" /\ Bucket(f) = c), Ahead(c, f, e)
        PROVE  Ahead(c, f, e)'
    <3>1. \A x, y : /\ Before(bkt[c], x, y) => Before(bkt'[c], x, y)
                    /\ NotAfter(bkt[c], x, y) => NotAfter(bkt'[c], x, y)
      BY <1>6, <1>8, AddedAhead
    <3>2. f # NULL => f # o /\ f \in Objects
      BY <1>1, <2>1 DEF Entries
    <3>3. f # NULL => stale'[f] = stale[f] /\ (f \in ToSet(bkt'[c]) <=> f \in ToSet(bkt[c]))
      BY <1>7, <1>11, <3>2
    <3> QED BY <2>1, <3>1, <3>3 DEF Ahead
  <2>2. \A c \in Hash!Buckets : \A e \in ToSet(bkt[c]) : e \in ToSet(bkt'[c]) /\ ekey'[e] = ekey[e]
    BY <1>6, <1>7, <1>11
  <2>3. Private(u)' = Private(u) /\ steady'[u] = steady[u]
    BY <1>2 DEF Private
  <2> QED BY <2>1, <2>2, <2>3, StaysAhead
<1>15. \A x \in Objects : mem[x] # "free" => ekey'[x] = ekey[x]
  BY <1>1, <1>7
<1> QED BY <1>2, <1>4, <1>5, <1>13, <1>14, <1>15, HashUpdates

\* hashtab_del() up to the unlinking keeps the invariant. A lookup that stands on the element goes
\* on from its old hte_next; one that stands on an element unlinked before starts over, as the lock
\* says that that element is poisoned by now.
LEMMA HashDelKeeps ==
  ASSUME HashInv, NEW t \in Threads, NEW o \in Objects, Hash!Del(t, o)
  PROVE  HashInv'
<1> USE DEF Hash!Goto, Hash!hpvars, Hash!scanvars, Hash!tabvars
<1> DEFINE b == Hash!HASH2BKT(ekey[o])
           s == bkt[b]
           n == SelectInSeq(s, LAMBDA x : x = o)
<1>1. /\ HashTable /\ bkt \in [Hash!Buckets -> Seq(Objects)]
      /\ stale \in [Objects -> Objects \union {NULL, POISON}]
      /\ ekey \in [Objects -> Keys \union {NULL}]
      /\ htb_lock \in [Hash!Buckets -> Threads \union {-1}]
      /\ htep \in [Threads -> Entries] /\ steady \in [Threads -> BOOLEAN] /\ pc \in [Threads -> PCs]
  BY DEF HashInv, HashTable, Proto
<1>2. b \in Hash!Buckets /\ o \in ToSet(s) /\ Bucket(o) = b /\ mem[o] = "live" /\ ekey[o] \in Keys
  <2>1. PICK c \in Hash!Buckets : o \in ToSet(bkt[c])
    BY DEF Hash!Del, Hash!Linked, Hash!ToSet, ToSet
  <2>2. Bucket(o) = c /\ mem[o] = "live" /\ ekey[o] \in Keys
    BY <1>1, <2>1 DEF HashTable
  <2> QED BY <2>1, <2>2 DEF Bucket
<1>3. s \in Seq(Objects) /\ OneToOne(s) /\ n \in 1 .. Len(s) /\ s[n] = o /\ Len(s) \in Nat /\ DOMAIN s = 1 .. Len(s)
  <2>1. s \in Seq(Objects) /\ OneToOne(s)
    BY <1>1, <1>2 DEF HashTable
  <2>2. n \in 1 .. Len(s) /\ s[n] = o
    BY <1>2, <2>1, Selected
  <2> QED BY <2>1, <2>2
<1>4. Hash!RemoveFirst(s, o) = RemoveAt(s, n)
  <2>1. \E i \in 1 .. Len(s) : s[i] = o
    BY <1>3
  <2>2. Hash!RemoveFirst(s, o) = Hash!RemoveAt(s, Hash!SelectInSeq(s, LAMBDA x : x = o))
    BY <2>1 DEF Hash!RemoveFirst
  <2>3. Hash!SelectInSeq(s, LAMBDA x : x = o) = n
    BY DEF Hash!SelectInSeq, SelectInSeq, Hash!Min, Min
  <2> QED BY <2>2, <2>3 DEF Hash!RemoveAt, RemoveAt
<1>5. /\ htb_lock[b] = -1 /\ pc[t] = "idle" /\ pc' = [pc EXCEPT ![t] = "del_poison"]
      /\ htb_lock' = [htb_lock EXCEPT ![b] = t]
      /\ htep' = [htep EXCEPT ![t] = o]
      /\ stale' = [stale EXCEPT ![o] = Hash!Successor(b, o)]
      /\ bkt' = [bkt EXCEPT ![b] = RemoveAt(s, n)]
      /\ steady' = [u \in Threads |-> steady[u] /\ key[u] # ekey[o]]
      /\ UNCHANGED <<HP, hpstore, rlist, rcount, plist, scan, after, mem, ekey, key, from, offset>>
  BY <1>1, <1>2, <1>4, Setting DEF Hash!Del
<1> HIDE DEF n
<1>6. Hash!Successor(b, o) = IF n < Len(s) THEN s[n + 1] ELSE NULL
  BY <1>3, HashSuccessor
<1> HIDE DEF s
<1> DEFINE r == RemoveAt(s, n)
<1>7. r \in Seq(Objects) /\ OneToOne(r) /\ ToSet(r) = ToSet(s) \ {o}
  BY <1>3, Removed
<1> HIDE DEF r
<1>8. Hash!Successor(b, o) \in ToSet(r) \union {NULL} /\ ToSet(r) \subseteq Objects
  <2>1. n < Len(s) => n + 1 \in 1 .. Len(s) /\ n + 1 # n
    BY <1>3
  <2>2. n < Len(s) => s[n + 1] \in ToSet(s) /\ s[n + 1] # o
    BY <1>3, <2>1 DEF ToSet, OneToOne
  <2>3. ToSet(r) \subseteq Objects
    BY <1>7 DEF ToSet
  <2> QED BY <1>6, <1>7, <2>2, <2>3
<1>9. /\ \A c \in Hash!Buckets : bkt'[c] = IF c = b THEN r ELSE bkt[c]
      /\ \A c \in Hash!Buckets : htb_lock'[c] = IF c = b THEN t ELSE htb_lock[c]
      /\ \A x \in Objects : stale'[x] = IF x = o THEN Hash!Successor(b, o) ELSE stale[x]
      /\ \A u \in Threads : htep'[u] = IF u = t THEN o ELSE htep[u]
      /\ \A u \in Threads : pc'[u] = IF u = t THEN "del_poison" ELSE pc[u]
      /\ \A x : Bucket(x)' = Bucket(x)
  <2>1. \A c \in Hash!Buckets : bkt'[c] = IF c = b THEN r ELSE bkt[c]
    BY <1>1, <1>5 DEF r
  <2>2. \A x : Bucket(x)' = Bucket(x)
    BY <1>5 DEF Bucket
  <2> QED BY <1>1, <1>5, <2>1, <2>2
<1> HIDE DEF b
<1>10. Moves(t)
  BY <1>1, <1>5 DEF HashInv, Proto, Moves, PCs, Scanning
<1>11. \A u \in Threads : \A x \in Objects : Deleting(u, x)' <=> IF u = t THEN x = o ELSE Deleting(u, x)
  BY <1>9 DEF Deleting
<1>12. ASSUME NEW u \in Threads, NEW x \in Objects, Deleting(u, x)
       PROVE  u # t /\ x # o /\ Bucket(x) # b /\ Bucket(x) \in Hash!Buckets
  <2>1. pc[u] = "del_poison" /\ htep[u] = x
    BY <1>12 DEF Deleting
  <2>2. ekey[x] \in Keys /\ Bucket(x) \in Hash!Buckets
    BY <1>1, <1>12, HashBucket DEF HashTable, Bucket
  <2>3. htb_lock[Bucket(x)] = u
    BY <1>1, <2>1, <2>2 DEF HashTable
  <2> QED BY <1>2, <1>5, <2>1, <2>2, <2>3, Setting
<1>13. HashTable'
  <2>1. /\ bkt' \in [Hash!Buckets -> Seq(Objects)]
        /\ stale' \in [Objects -> Objects \union {NULL, POISON}]
        /\ ekey' \in [Objects -> Keys \union {NULL}]
        /\ htb_lock' \in [Hash!Buckets -> Threads \union {-1}]
    <3>1. bkt' \in [Hash!Buckets -> Seq(Objects)]
      BY <1>1, <1>5, <1>7 DEF r
    <3>2. stale' \in [Objects -> Objects \union {NULL, POISON}]
      BY <1>1, <1>5, <1>8
    <3> QED BY <1>1, <1>5, <3>1, <3>2
  <2>2. ASSUME NEW c \in Hash!Buckets
        PROVE  /\ OneToOne(bkt'[c])
               /\ \A x \in ToSet(bkt'[c]) : mem'[x] = "live" /\ ekey'[x] \in Keys /\ Bucket(x)' = c
    <3>1. OneToOne(bkt'[c])
      BY <1>1, <1>7, <1>9 DEF HashTable
    <3>2. \A x \in ToSet(bkt'[c]) : x \in ToSet(bkt[c])
      BY <1>7, <1>9 DEF s
    <3> QED BY <1>1, <1>5, <1>9, <3>1, <3>2 DEF HashTable
  <2>3. ASSUME NEW c \in Hash!Buckets, NEW u \in Threads
        PROVE  htb_lock'[c] = u <=> pc'[u] = "del_poison" /\ Bucket(htep[u])' = c
    <3>1. CASE u = t
      <4>1. Bucket(htep[u])' = b
        BY <1>2, <1>5, <1>9, <3>1 DEF Bucket
      <4>2. htb_lock[c] # t
        BY <1>1, <1>5 DEF HashTable
      <4> QED BY <1>9, <3>1, <4>1, <4>2
    <3>2. CASE u # t
      <4>1. Bucket(htep[u])' = Bucket(htep[u])
        BY <1>5, <1>9, <3>2 DEF Bucket
      <4>2. htb_lock[c] = u <=> pc[u] = "del_poison" /\ Bucket(htep[u]) = c
        BY <1>1 DEF HashTable
      <4>3. htb_lock[b] # u
        BY <1>5, Setting
      <4> QED BY <1>9, <3>2, <4>1, <4>2, <4>3
    <3> QED BY <3>1, <3>2
  <2>4. ASSUME NEW u \in Threads, NEW x \in Objects, Deleting(u, x)'
        PROVE  /\ mem'[x] = "live" /\ ekey'[x] \in Keys
               /\ x \notin ToSet(bkt'[Bucket(x)'])
               /\ stale'[x] \in ToSet(bkt'[Bucket(x)']) \union {NULL}
    <3>1. CASE u = t
      BY <1>2, <1>5, <1>7, <1>8, <1>9, <1>11, <2>4, <3>1
    <3>2. CASE u # t
      <4>1. Deleting(u, x)
        BY <1>11, <2>4, <3>2
      <4>2. /\ mem[x] = "live" /\ ekey[x] \in Keys /\ x \notin ToSet(bkt[Bucket(x)])
            /\ stale[x] \in ToSet(bkt[Bucket(x)]) \union {NULL}
        BY <1>1, <4>1 DEF HashTable
      <4> QED BY <1>5, <1>9, <1>12, <4>1, <4>2
    <3> QED BY <3>1, <3>2
  <2>5. ASSUME NEW x \in Objects
        PROVE  /\ stale'[x] # POISON => \E u \in Threads : Deleting(u, x)'
               /\ mem'[x] = "live" =>
                    /\ ekey'[x] \in Keys
                    /\ x \in ToSet(bkt'[Bucket(x)']) \/ \E u \in Threads : Deleting(u, x)'
    <3>1. CASE x = o
      BY <1>2, <1>5, <1>11, <3>1
    <3>2. CASE x # o
      <4>1. (\E u \in Threads : Deleting(u, x)) => \E u \in Threads : Deleting(u, x)'
        BY <1>11, <1>12
      <4>2. /\ stale[x] # POISON => \E u \in Threads : Deleting(u, x)
            /\ mem[x] = "live" =>
                 /\ ekey[x] \in Keys
                 /\ x \in ToSet(bkt[Bucket(x)]) \/ \E u \in Threads : Deleting(u, x)
        BY <1>1 DEF HashTable
      <4>3. ekey[x] \in Keys => Bucket(x) \in Hash!Buckets
        BY HashBucket DEF Bucket
      <4>4. ekey[x] \in Keys /\ x \in ToSet(bkt[Bucket(x)]) => x \in ToSet(bkt'[Bucket(x)])
        BY <1>7, <1>9, <3>2, <4>3 DEF s
      <4> QED BY <1>5, <1>9, <3>2, <4>1, <4>2, <4>4
    <3> QED BY <3>1, <3>2
  <2>6. \A u \in Threads : pc'[u] = "del_poison" => htep'[u] \in Objects
    BY <1>1, <1>9 DEF HashTable
  <2> QED BY <2>1, <2>2, <2>3, <2>4, <2>5, <2>6 DEF HashTable
<1>14. ASSUME NEW u \in Threads \ {t} PROVE HashSteady(u)'
  <2>1. ASSUME NEW c \in Hash!Buckets, NEW e \in ToSet(bkt[c]), e # o, NEW f \in Entries,
               f = NULL \/ (mem[f] # "free" /\ Bucket(f) = c), Ahead(c, f, e)
        PROVE  Ahead(c, f, e)'
    <3>1. CASE f = NULL
      BY <3>1 DEF Ahead
    <3>2. CASE f # NULL /\ c # b
      <4>1. f # o
        BY <1>2, <2>1, <3>2
      <4> QED BY <1>9, <2>1, <3>2, <4>1 DEF Ahead, Entries
    <3>3. CASE f # NULL /\ c = b /\ f = o
      <4>1. f \notin ToSet(bkt'[c]) /\ stale'[f] = Hash!Successor(b, o) /\ bkt'[c] = RemoveAt(s, n) /\ bkt[c] = s
        BY <1>7, <1>9, <3>3 DEF r, s
      <4>2. Before(s, o, e)
        BY <1>2, <2>1, <3>3, <4>1 DEF Ahead
      <4>3. n < Len(s) /\ NotAfter(RemoveAt(s, n), s[n + 1], e)
        BY <1>3, <2>1, <4>2, RemovedAhead
      <4> QED BY <1>6, <4>1, <4>3 DEF Ahead
    <3>4. CASE f # NULL /\ c = b /\ f # o
      <4>1. stale'[f] = stale[f] /\ bkt'[c] = RemoveAt(s, n) /\ bkt[c] = s /\ f \in Objects
            /\ (f \in ToSet(bkt'[c]) <=> f \in ToSet(bkt[c]))
        BY <1>7, <1>9, <3>4 DEF r, s, Entries
      <4>2. /\ Before(s, f, e) => Before(RemoveAt(s, n), f, e)
            /\ stale[f] # o /\ NotAfter(s, stale[f], e) => NotAfter(RemoveAt(s, n), stale[f], e)
        BY <1>3, <2>1, <3>4, RemovedAhead
      <4>3. f \notin ToSet(s) => stale[f] = POISON
        BY <1>1, <1>12, <2>1, <3>4, <4>1 DEF HashTable
      <4> QED BY <2>1, <3>4, <4>1, <4>2, <4>3 DEF Ahead
    <3> QED BY <3>1, <3>2, <3>3, <3>4
  <2>2. steady'[u] => steady[u] /\ key[u] # ekey[o]
    BY <1>5
  <2>3. \A c \in Hash!Buckets : \A e \in ToSet(bkt[c]) : e # o => e \in ToSet(bkt'[c]) /\ ekey'[e] = ekey[e]
    BY <1>5, <1>7, <1>9 DEF s
  <2>4. Private(u)' = Private(u)
    BY <1>5, <1>9 DEF Private
  <2> QED BY <2>1, <2>2, <2>3, <2>4, StaysAhead
<1>15. steady' \in [Threads -> BOOLEAN] /\ htep' \in [Threads -> Entries] /\ (steady'[t] => steady[t])
  BY <1>1, <1>5 DEF Entries
<1> QED BY <1>5, <1>9, <1>10, <1>13, <1>14, <1>15, HashUpdates DEF HazptrStep

\* The rest of hashtab_del() and defer_del() keep the invariant.
LEMMA HashDelPoisonKeeps ==
  ASSUME HashInv, NEW t \in Threads, Hash!DelPoison(t)
  PROVE  HashInv'
<1> USE DEF Hash!Goto, Hash!hpvars, Hash!scanvars, Hash!tabvars
<1> DEFINE o == htep[t]
           b == Hash!HASH2BKT(ekey[o])
<1>1. /\ pc[t] = "del_poison"
      /\ stale' = [stale EXCEPT ![o] = POISON]
      /\ htb_lock' = [htb_lock EXCEPT ![b] = -1]
      /\ htep' = [htep EXCEPT ![t] = NULL]
      /\ FreesLater(t, o, "idle")
      /\ UNCHANGED <<HP, hpstore, plist, scan, bkt, ekey, key, from, offset, steady>>
  BY DEF Hash!DelPoison, Hash!free_later, FreesLater
<1>2. /\ HashTable /\ Proto(2 * NR_THREADS) /\ bkt \in [Hash!Buckets -> Seq(Objects)]
      /\ stale \in [Objects -> Objects \union {NULL, POISON}]
      /\ htb_lock \in [Hash!Buckets -> Threads \union {-1}]
      /\ htep \in [Threads -> Entries] /\ steady \in [Threads -> BOOLEAN]
  BY DEF HashInv, HashTable
<1>3. /\ o \in Objects /\ Deleting(t, o) /\ mem[o] = "live" /\ ekey[o] \in Keys
      /\ o \notin ToSet(bkt[Bucket(o)]) /\ Bucket(o) = b /\ b \in Hash!Buckets
  <2>1. o \in Objects /\ Deleting(t, o)
    BY <1>1, <1>2 DEF HashTable, Deleting
  <2>2. mem[o] = "live" /\ ekey[o] \in Keys /\ o \notin ToSet(bkt[Bucket(o)])
    BY <1>2, <2>1 DEF HashTable
  <2> QED BY <2>1, <2>2, HashBucket DEF Bucket
<1> HIDE DEF o
<1>4. /\ Retires(t, o)
      /\ pc'[t] = "idle" \/ (pc'[t] = "scan_mb" /\ after'[t] = "idle")
      /\ \A u \in Threads \ {t} : pc'[u] = pc[u] /\ after'[u] = after[u]
      /\ \A x \in Objects : mem'[x] = IF x = o THEN "retired" ELSE mem[x]
  BY <1>1, <1>2, <1>3, Retiring, Setting
<1>5. /\ \A x : Bucket(x)' = Bucket(x)
      /\ \A c \in Hash!Buckets : htb_lock'[c] = IF c = b THEN -1 ELSE htb_lock[c]
      /\ \A x \in Objects : stale'[x] = IF x = o THEN POISON ELSE stale[x]
      /\ \A u \in Threads : htep'[u] = IF u = t THEN NULL ELSE htep[u]
  <2>1. \A x : Bucket(x)' = Bucket(x)
    BY <1>1 DEF Bucket
  <2> QED BY <1>1, <1>2, <2>1
<1> HIDE DEF b
<1>6. \A u \in Threads : pc[u] = "del_poison" /\ Bucket(htep[u]) = b => u = t
  BY <1>1, <1>2, <1>3 DEF HashTable, o
<1>7. \A u \in Threads : \A x \in Objects : /\ Deleting(u, x)' <=> u # t /\ Deleting(u, x)
                                            /\ Deleting(u, x) /\ u # t => x # o
                                            /\ Deleting(u, x) /\ x # o => u # t
  <2>1. \A u \in Threads : \A x \in Objects : Deleting(u, x)' <=> u # t /\ Deleting(u, x)
    BY <1>4, <1>5 DEF Deleting
  <2>2. \A u \in Threads : Deleting(u, o) => u = t
    BY <1>3, <1>6 DEF Deleting
  <2> QED BY <1>3, <2>1, <2>2 DEF Deleting
<1>8. \A c \in Hash!Buckets : ToSet(bkt[c]) \subseteq Objects /\ o \notin ToSet(bkt[c])
  <2>1. \A c \in Hash!Buckets : ToSet(bkt[c]) \subseteq Objects
    BY <1>2 DEF ToSet
  <2> QED BY <1>2, <1>3, <2>1 DEF HashTable
<1>9. HashTable'
  <2>1. /\ bkt' \in [Hash!Buckets -> Seq(Objects)]
        /\ stale' \in [Objects -> Objects \union {NULL, POISON}]
        /\ ekey' \in [Objects -> Keys \union {NULL}]
        /\ htb_lock' \in [Hash!Buckets -> Threads \union {-1}]
    BY <1>1, <1>2 DEF HashTable
  <2>2. ASSUME NEW c \in Hash!Buckets
        PROVE  /\ OneToOne(bkt'[c])
               /\ \A x \in ToSet(bkt'[c]) : mem'[x] = "live" /\ ekey'[x] \in Keys /\ Bucket(x)' = c
    BY <1>1, <1>2, <1>4, <1>5, <1>8 DEF HashTable
  <2>3. ASSUME NEW c \in Hash!Buckets, NEW u \in Threads
        PROVE  htb_lock'[c] = u <=> pc'[u] = "del_poison" /\ Bucket(htep[u])' = c
    <3>1. htb_lock[c] = u <=> pc[u] = "del_poison" /\ Bucket(htep[u]) = c
      BY <1>2 DEF HashTable
    <3>2. CASE u = t
      <4>1. htb_lock[c] = u => c = b
        BY <1>3, <3>1, <3>2 DEF o
      <4> QED BY <1>4, <1>5, <3>2, <4>1, Setting
    <3>3. CASE u # t
      <4>1. Bucket(htep[u])' = Bucket(htep[u])
        BY <1>1, <1>5, <3>3 DEF Bucket
      <4> QED BY <1>4, <1>5, <1>6, <3>1, <3>3, <4>1, Setting
    <3> QED BY <3>2, <3>3
  <2>4. ASSUME NEW u \in Threads, NEW x \in Objects, Deleting(u, x)'
        PROVE  /\ mem'[x] = "live" /\ ekey'[x] \in Keys
               /\ x \notin ToSet(bkt'[Bucket(x)'])
               /\ stale'[x] \in ToSet(bkt'[Bucket(x)']) \union {NULL}
    BY <1>1, <1>2, <1>4, <1>5, <1>7, <2>4 DEF HashTable
  <2>5. ASSUME NEW x \in Objects
        PROVE  /\ stale'[x] # POISON => \E u \in Threads : Deleting(u, x)'
               /\ mem'[x] = "live" =>
                    /\ ekey'[x] \in Keys
                    /\ x \in ToSet(bkt'[Bucket(x)']) \/ \E u \in Threads : Deleting(u, x)'
    <3>1. CASE x = o
      BY <1>4, <1>5, <3>1
    <3>2. CASE x # o
      BY <1>1, <1>2, <1>4, <1>5, <1>7, <3>2 DEF HashTable
    <3> QED BY <3>1, <3>2
  <2>6. \A u \in Threads : pc'[u] = "del_poison" => htep'[u] \in Objects
    BY <1>2, <1>4, <1>5 DEF HashTable
  <2> QED BY <2>1, <2>2, <2>3, <2>4, <2>5, <2>6 DEF HashTable
<1>10. ASSUME NEW u \in Threads \ {t} PROVE HashSteady(u)'
  <2>1. ASSUME NEW c \in Hash!Buckets, NEW e \in ToSet(bkt[c]), NEW f \in Entries, Ahead(c, f, e)
        PROVE  Ahead(c, f, e)'
    <3>1. CASE f = NULL
      BY <3>1 DEF Ahead
    <3>2. CASE f # NULL
      <4>1. stale'[f] = stale[f] \/ stale'[f] = POISON
        BY <1>5, <3>2 DEF Entries
      <4> QED BY <1>1, <2>1, <3>2, <4>1 DEF Ahead
    <3> QED BY <3>1, <3>2
  <2>2. Private(u)' = Private(u) /\ steady'[u] = steady[u]
    BY <1>1, <1>4, <1>5 DEF Private
  <2> QED BY <1>1, <2>1, <2>2, StaysAhead
<1>11. htep' \in [Threads -> Entries] /\ steady' \in [Threads -> BOOLEAN]
  BY <1>1, <1>2 DEF Entries
<1> QED BY <1>1, <1>3, <1>4, <1>5, <1>9, <1>10, <1>11, HashUpdates DEF HazptrStep

\* hazptr_thread_exit() keeps the invariant.
LEMMA HashExitKeeps ==
  ASSUME HashInv, NEW t \in Threads, Hash!Exit(t) \/ Hash!ExitLoop(t), Hash!Rest
  PROVE  HashInv'
<1> USE DEF Hash!Goto, Hash!hpvars, Hash!scanvars, Hash!tabvars
<1>1. /\ HashReader(t) /\ HashSteady(t) /\ Proto(2 * NR_THREADS)
      /\ from \in [Threads -> Entries] /\ htep \in [Threads -> Entries]
      /\ key \in [Threads -> Keys \union {NULL}]
      /\ offset \in [Threads -> {0, 1}] /\ steady \in [Threads -> BOOLEAN]
      /\ hpstore \in [Threads -> SUBSET ((0 .. 2 * NR_THREADS - 1) \X Entries)] /\ NULL \in Entries
  BY DEF HashInv, Entries
<1>2. UNCHANGED <<bkt, stale, ekey, htb_lock, key, from, htep, offset, steady>>
  BY DEF Hash!Rest
<1>3. CASE Hash!Exit(t)
  <2>1. /\ pc[t] = "idle" /\ pc' = [pc EXCEPT ![t] = "exit"]
        /\ hpstore' = [hpstore EXCEPT ![t] = {<<i, NULL>> : i \in {Slot(t, 0), Slot(t, 1)}}]
        /\ UNCHANGED <<HP, rlist, rcount, plist, scan, after, mem>>
    BY <1>3, Slots DEF Hash!Exit
  <2>2. Moves(t)
    BY <1>1, <2>1 DEF Moves, PCs, Scanning, Proto
  <2>3. pc'[t] = "exit" /\ (Near => ~ steady[t])
    BY <1>1, <2>1 DEF Proto, HashSteady, WillFind
  <2>4. /\ hpstore'[t] = {<<i, NULL>> : i \in {Slot(t, 0), Slot(t, 1)}}
        /\ \A u \in Threads \ {t} : hpstore'[u] = hpstore[u] /\ pc'[u] = pc[u]
    BY <1>1, <2>1 DEF Proto
  <2>5. hpstore' \in [Threads -> SUBSET ((0 .. 2 * NR_THREADS - 1) \X Entries)]
    <3>1. Slot(t, 0) \in 0 .. 2 * NR_THREADS - 1 /\ Slot(t, 1) \in 0 .. 2 * NR_THREADS - 1
      BY Slots
    <3> QED BY <1>1, <2>1, <3>1
  <2>6. HashReader(t)' /\ HashSteady(t)'
    <3>1. hpstore'[t] \subseteq {Slot(t, 0), Slot(t, 1)} \X Entries
      BY <1>1, <2>4
    <3> QED BY <1>2, <2>3, <3>1 DEF HashReader, ReaderAt, HashSteady, Looking, Approaching
  <2>7. \A u \in Threads \ {t} : Private(u)' = Private(u) /\ steady'[u] = steady[u]
    BY <1>2, <2>4 DEF Private
  <2> QED BY <1>1, <1>2, <2>1, <2>2, <2>3, <2>5, <2>6, <2>7, HashMoves
<1>4. CASE Hash!ExitLoop(t)
  <2>1. /\ pc[t] = "exit"
        /\ UNCHANGED <<HP, hpstore, rlist, rcount, plist, scan, mem>>
        /\ \/ pc' = [pc EXCEPT ![t] = "scan_mb"] /\ after' = [after EXCEPT ![t] = "exit"]
           \/ pc' = [pc EXCEPT ![t] = "exited"] /\ UNCHANGED after
    BY <1>4 DEF Hash!ExitLoop
  <2>2. Moves(t)
    <3>1. after' \in [Threads -> Returns]
      BY <1>1, <2>1 DEF Proto, Returns
    <3> QED BY <2>1, <3>1 DEF Moves, PCs, Scanning
  <2>3. pc'[t] \in {"exited", "scan_mb"} /\ (Near => ~ steady[t]) /\ \A u \in Threads \ {t} : pc'[u] = pc[u]
    BY <1>1, <2>1 DEF Proto, HashSteady, WillFind, Looking
  <2>4. HashReader(t)' /\ HashSteady(t)'
    BY <1>1, <1>2, <2>1, <2>3 DEF HashReader, ReaderAt, HashSteady, Looking, Approaching
  <2>5. \A u \in Threads \ {t} : Private(u)' = Private(u) /\ steady'[u] = steady[u]
    BY <1>2, <2>1, <2>3 DEF Private
  <2> QED BY <1>1, <1>2, <2>1, <2>2, <2>3, <2>4, <2>5, HashMoves
<1> QED BY <1>3, <1>4

\* hazptr_scan() keeps the invariant of the hash table.
LEMMA HashScanKeeps ==
  ASSUME HashInv, NEW t \in Threads, Hash!Scan(t), Hash!Rest
  PROVE  HashInv'
<1> USE DEF Hash!Goto, Hash!hpvars, Hash!scanvars, Hash!tabvars
<1>1. UNCHANGED <<bkt, stale, ekey, htb_lock, key, from, htep, offset, steady>>
  BY DEF Hash!Rest
<1>2. CASE Hash!ScanMb(t)
  <2>1. Begins(t) /\ hpstore[t] = {} /\ UNCHANGED hpstore
    BY <1>2 DEF Hash!ScanMb, Hash!Drained, Begins
  <2> QED BY <1>1, <2>1, HashScans
<1>3. CASE Hash!ScanHP(t)
  <2>1. Collects(t, 2 * NR_THREADS) /\ UNCHANGED hpstore
    BY <1>3, Setting DEF Hash!ScanHP, Collects
  <2> QED BY <1>1, <2>1, HashScans
<1>4. CASE Hash!ScanFree(t)
  <2>1. PICK F \in Hash!NotHazardous(t) :
          /\ pc[t] = "scan_free" /\ pc' = [pc EXCEPT ![t] = after[t]]
          /\ mem' = [o \in Objects |-> IF o \in F THEN "free" ELSE mem[o]]
          /\ rlist' = [rlist EXCEPT ![t] = @ \ F]
          /\ rcount' = [rcount EXCEPT ![t] = Cardinality(rlist'[t])]
          /\ plist' = [plist EXCEPT ![t] = {}] /\ scan' = [scan EXCEPT ![t] = 0]
          /\ UNCHANGED <<HP, hpstore, after>>
    BY <1>4, CountsAlike DEF Hash!ScanFree
  <2>2. F \in NotHazardous(t)
    BY <2>1 DEF Hash!NotHazardous, NotHazardous, Hash!MayMiss, MayMiss, Hash!MayFind, MayFind,
                Hash!Orders, Orders, Hash!compare, compare
  <2>3. plist[t] \subseteq Objects /\ rlist[t] \subseteq Objects
    BY DEF HashInv, Proto
  <2>4. F \in SUBSET rlist[t] /\ (Near => F = rlist[t] \ plist[t])
    BY <2>2, <2>3, SearchIs DEF NotHazardous
  <2>5. Frees(t, F) /\ UNCHANGED hpstore
    BY <2>1, <2>4 DEF Frees
  <2> QED BY <1>1, <2>4, <2>5, HashScans
<1> QED BY <1>2, <1>3, <1>4 DEF Hash!Scan

\* A store that becomes visible keeps the invariant: it is not to the hazard pointer that guards the
\* element the lookup goes on from.
LEMMA HashDrainKeeps ==
  ASSUME HashInv, NEW t \in Threads, Hash!Drain(t)
  PROVE  HashInv'
<1> USE DEF Hash!Goto, Hash!hpvars, Hash!scanvars, Hash!tabvars
<1>1. /\ HashReader(t) /\ HashSteady(t) /\ Proto(2 * NR_THREADS)
      /\ hpstore \in [Threads -> SUBSET ((0 .. 2 * NR_THREADS - 1) \X Entries)]
      /\ offset[t] \in {0, 1} /\ hpstore[t] \subseteq {Slot(t, 0), Slot(t, 1)} \X Entries
  BY DEF HashInv, HashReader, ReaderAt
<1>2. PICK s \in hpstore[t] : /\ HP' = [HP EXCEPT ![s[1]] = s[2]]
                              /\ hpstore' = [hpstore EXCEPT ![t] = @ \ {s}]
  BY DEF Hash!Drain, Hash!DrainStore
<1>3. UNCHANGED <<rlist, rcount, plist, scan, after, mem, pc, bkt, stale, ekey, htb_lock, key, from, htep, offset, steady>>
  BY DEF Hash!Drain, Hash!DrainStore, Hash!Rest
<1>4. s[1] \in {Slot(t, 0), Slot(t, 1)} /\ s[2] \in Entries /\ s = <<s[1], s[2]>>
  BY <1>1, <1>2
<1>5. s[1] \in 0 .. 2 * NR_THREADS - 1
  BY <1>4, Slots
<1>6. HazptrStep(t, 2 * NR_THREADS)
  BY <1>2, <1>3, <1>4, <1>5 DEF HazptrStep, Drains, Entries
<1>7. Proto(2 * NR_THREADS)'
  BY <1>1, <1>6, ProtoKept, Setting
<1>8. HashTable'
  BY <1>3, HashTableKept DEF HashInv
<1>9. /\ hpstore' \in [Threads -> SUBSET ((0 .. 2 * NR_THREADS - 1) \X Entries)]
      /\ hpstore'[t] = hpstore[t] \ {s} /\ \A u \in Threads \ {t} : hpstore'[u] = hpstore[u]
  BY <1>1, <1>2
<1>10. /\ HP'[s[1]] = s[2]
       /\ \A u \in Threads \ {t} : HP'[Slot(u, 0)] = HP[Slot(u, 0)] /\ HP'[Slot(u, 1)] = HP[Slot(u, 1)]
  <2>1. \A u \in Threads \ {t} : \A k \in {0, 1} : Slot(u, k) # s[1] /\ Slot(u, k) \in 0 .. 2 * NR_THREADS - 1
    BY <1>4, Slots
  <2>2. HP \in [0 .. 2 * NR_THREADS - 1 -> Objects \union {NULL}]
    BY <1>1 DEF Proto
  <2> QED BY <1>2, <1>5, <2>1, <2>2
<1>11. ASSUME NEW u \in Threads \ {t} PROVE HashReader(u)' /\ HashSteady(u)'
  BY <1>3, <1>6, <1>9, <1>10, HashReaderKept, HashSteadyKept DEF Private
<1>12. HashReader(t)' /\ HashSteady(t)'
  <2>1. pc[t] \in {"mb", "exit", "scan_mb", "exited"}
    BY <1>1, <1>2 DEF HashReader, ReaderAt
  <2>2. hpstore'[t] \subseteq {Slot(t, 0), Slot(t, 1)} \X Entries
    BY <1>1, <1>9
  <2>3. HashSteady(t)'
    BY <1>1, <1>3 DEF HashSteady, WillFind, Ahead
  <2>4. CASE pc[t] # "mb"
    BY <1>1, <1>3, <2>1, <2>2, <2>3, <2>4 DEF HashReader, ReaderAt, Looking, Approaching
  <2>5. CASE pc[t] = "mb"
    <3>1. hpstore[t] = {<<Slot(t, 1 - offset[t]), htep[t]>>}
      BY <1>1, <1>2, <2>5 DEF HashReader, ReaderAt
    <3>2. s = <<Slot(t, 1 - offset[t]), htep[t]>>
      BY <1>2, <3>1
    <3>3. hpstore'[t] = {} /\ HP'[Slot(t, 1 - offset[t])] = htep[t]
      BY <1>9, <1>10, <3>1, <3>2
    <3> PICK f, i : f = from[t] /\ i = offset[t]
      OBVIOUS
    <3>4. i \in {0, 1} /\ f \in Entries /\ f = from'[t] /\ i = offset'[t]
      BY <1>1, <1>3 DEF HashInv
    <3>5. Slot(t, i) # Slot(t, 1 - i) /\ Slot(t, i) \in 0 .. 2 * NR_THREADS - 1
      <4>1. 1 - i \in {0, 1} /\ 1 - i # i
        BY <3>4
      <4> QED BY <3>4, <4>1, Slots
    <3>6. HP'[Slot(t, i)] = HP[Slot(t, i)]
      BY <1>1, <1>2, <3>2, <3>5 DEF Proto
    <3>7. f # NULL => Guarded(f, Slot(t, i))
      BY <1>1, <2>5 DEF HashReader, ReaderAt
    <3>8. f # NULL => Guarded(f, Slot(t, i))'
      BY <1>1, <1>6, <3>4, <3>5, <3>6, <3>7, GuardKept, Setting DEF Entries
    <3>9. Bucket(f)' = Bucket(f)
      BY <1>3 DEF Bucket
    <3> DEFINE r == htep[t]
               k == key[t]
    <3>10. ReaderAt(t, "mb", k, f, r, i, {})'
      <4>1. /\ k \in Keys /\ r # NULL /\ (Near /\ f # NULL => Bucket(f) = Hash!HASH2BKT(k))
        BY <1>1, <2>5 DEF HashReader, ReaderAt, Looking, Approaching
      <4> QED BY <1>3, <3>3, <3>8, <3>9, <4>1 DEF ReaderAt, Looking, Approaching
    <3> QED BY <1>3, <2>3, <2>5, <3>3, <3>4, <3>10 DEF HashReader
  <2> QED BY <2>4, <2>5
<1> QED BY <1>3, <1>7, <1>8, <1>9, <1>11, <1>12 DEF HashInv

\* Every step of the hash table keeps its invariant.
LEMMA HashStep ==
  ASSUME HashInv, Hash!Next
  PROVE  HashInv'
<1>1. PICK t \in Threads :
        \/ Hash!Drain(t) \/ Hash!Step(t) \/ Hash!Leave(t)
        \/ \E k \in Keys : Hash!LookupCall(t, k) \/ Hash!Add(t, k)
        \/ \E o \in Objects : Hash!Del(t, o)
  BY Setting DEF Hash!Next
<1>2. CASE Hash!Step(t)
  BY <1>2, HashLookup, HashDelPoisonKeeps, HashScanKeeps, HashExitKeeps DEF Hash!Step
<1>3. CASE Hash!Leave(t)
  BY <1>3, HashExitKeeps DEF Hash!Leave
<1>4. ASSUME NEW k \in Keys, Hash!LookupCall(t, k) \/ Hash!Add(t, k) PROVE HashInv'
  BY <1>4, HashLookup, HashAddKeeps
<1> QED BY <1>1, <1>2, <1>3, <1>4, HashDelKeeps, HashDrainKeeps

-----------------------------------------------------------------------------
\* The inductive invariant: that of the table that runs, while the variables of the other stay as
\* they were
IInv ==
  \/ impl = "route_hazptr" /\ RouteInv /\ NoHash
  \/ impl = "hash_bkt_hazptr" /\ HashInv /\ NoRoute

\* It holds initially.
LEMMA InitHolds ==
  ASSUME Init
  PROVE  IInv
<1>1. \A S : <<>> \in Seq(S) /\ OneToOne(<<>>) /\ ToSet(<<>>) = {}
  BY DEF OneToOne, ToSet
<1>2. CASE impl = "route_hazptr" /\ Route!Init /\ NoHash
  <2>1. /\ HP = [i \in 0 .. NR_THREADS - 1 |-> NULL]
        /\ hpstore = [t \in Threads |-> {}]
        /\ rlist = [t \in Threads |-> {}] /\ rcount = [t \in Threads |-> 0]
        /\ plist = [t \in Threads |-> {}]
        /\ scan = [t \in Threads |-> 0]
        /\ after = [t \in Threads |-> "idle"]
        /\ mem = [o \in Objects |-> "free"]
        /\ pc = [t \in Threads |-> "idle"]
        /\ list = <<>> /\ stale = [o \in Objects |-> POISON] /\ routelock = -1
        /\ from = [t \in Threads |-> NULL] /\ rep = [t \in Threads |-> NULL]
    BY <1>2, Setting DEF Route!Init, Route!HazPtrInit
  <2>2. Proto(NR_THREADS)
    <3>1. 0 \in 0 .. NR_THREADS - 1
      BY Setting
    <3>2. IsFiniteSet({}) /\ Cardinality({}) = 0
      BY FS_EmptySet
    <3> QED BY <2>1, <3>1, <3>2 DEF Proto, Returns, PCs
  <2>3. RouteTable
    BY <1>1, <2>1, Setting DEF RouteTable, Updating
  <2>4. \A t \in Threads : RouteReader(t)
    BY <2>1 DEF RouteReader, Entries
  <2>5. /\ from \in [Threads -> Entries] /\ rep \in [Threads -> Entries]
        /\ hpstore \in [Threads -> SUBSET (Threads \X Entries)]
    BY <2>1 DEF Entries
  <2> QED BY <1>2, <2>2, <2>3, <2>4, <2>5 DEF RouteInv, IInv
<1>3. CASE impl = "hash_bkt_hazptr" /\ Hash!Init /\ NoRoute
  <2>1. /\ HP = [i \in 0 .. 2 * NR_THREADS - 1 |-> NULL]
        /\ hpstore = [t \in Threads |-> {}]
        /\ rlist = [t \in Threads |-> {}] /\ rcount = [t \in Threads |-> 0]
        /\ plist = [t \in Threads |-> {}]
        /\ scan = [t \in Threads |-> 0]
        /\ after = [t \in Threads |-> "idle"]
        /\ mem = [o \in Objects |-> "free"]
        /\ pc = [t \in Threads |-> "idle"]
        /\ bkt = [b \in Hash!Buckets |-> <<>>]
        /\ stale = [o \in Objects |-> POISON]
        /\ ekey = [o \in Objects |-> NULL]
        /\ htb_lock = [b \in Hash!Buckets |-> -1]
        /\ key = [t \in Threads |-> NULL]
        /\ from = [t \in Threads |-> NULL]
        /\ htep = [t \in Threads |-> NULL]
        /\ offset = [t \in Threads |-> 0]
        /\ steady = [t \in Threads |-> FALSE]
    BY <1>3, Setting DEF Hash!Init, Hash!HazPtrInit
  <2>2. Proto(2 * NR_THREADS)
    <3>1. 0 \in 0 .. 2 * NR_THREADS - 1
      BY Setting
    <3>2. IsFiniteSet({}) /\ Cardinality({}) = 0
      BY FS_EmptySet
    <3> QED BY <2>1, <3>1, <3>2 DEF Proto, Returns, PCs
  <2>3. HashTable
    <3>1. /\ bkt \in [Hash!Buckets -> Seq(Objects)]
          /\ stale \in [Objects -> Objects \union {NULL, POISON}]
          /\ ekey \in [Objects -> Keys \union {NULL}]
          /\ htb_lock \in [Hash!Buckets -> Threads \union {-1}]
      BY <1>1, <2>1
    <3>2. \A b \in Hash!Buckets : OneToOne(bkt[b]) /\ ToSet(bkt[b]) = {} /\ \A t \in Threads : htb_lock[b] # t
      BY <1>1, <2>1, Setting
    <3> QED BY <2>1, <3>1, <3>2 DEF HashTable, Deleting
  <2>4. \A t \in Threads : HashReader(t) /\ HashSteady(t)
    BY <2>1 DEF HashReader, ReaderAt, HashSteady, Looking, Approaching
  <2>5. /\ from \in [Threads -> Entries] /\ htep \in [Threads -> Entries]
        /\ key \in [Threads -> Keys \union {NULL}]
        /\ offset \in [Threads -> {0, 1}] /\ steady \in [Threads -> BOOLEAN]
        /\ hpstore \in [Threads -> SUBSET ((0 .. 2 * NR_THREADS - 1) \X Entries)]
    BY <2>1 DEF Entries
  <2> QED BY <1>3, <2>2, <2>3, <2>4, <2>5 DEF HashInv, IInv
<1> QED BY <1>2, <1>3 DEF Init

\* Every step keeps it.
LEMMA NextHolds ==
  ASSUME IInv, [Next]_vars
  PROVE  IInv'
<1>1. CASE OnlyRoute /\ Route!Next
  <2>1. impl = "route_hazptr" /\ impl' = impl /\ UNCHANGED <<bkt, ekey, htb_lock, htep, offset, steady>>
    BY <1>1 DEF OnlyRoute, hashvars
  <2>2. RouteInv /\ NoHash
    BY <2>1 DEF IInv
  <2>3. RouteInv'
    BY <1>1, <2>2, RouteStep
  <2>4. NoHash'
    BY <2>1, <2>2 DEF NoHash
  <2> QED BY <2>1, <2>3, <2>4 DEF IInv
<1>2. CASE OnlyHash /\ Hash!Next
  <2>1. impl = "hash_bkt_hazptr" /\ impl' = impl /\ UNCHANGED <<list, addr, routelock, rep>>
    BY <1>2 DEF OnlyHash, routevars
  <2>2. HashInv /\ NoRoute
    BY <2>1 DEF IInv
  <2>3. HashInv'
    BY <1>2, <2>2, HashStep
  <2>4. NoRoute'
    BY <2>1, <2>2 DEF NoRoute
  <2> QED BY <2>1, <2>3, <2>4 DEF IInv
<1>3. CASE UNCHANGED vars
  <2>1. UNCHANGED <<impl, HP, hpstore, rlist, rcount, plist, scan, after, mem, pc, stale, key, from>>
    BY <1>3 DEF vars
  <2>2. UNCHANGED <<list, addr, routelock, rep, bkt, ekey, htb_lock, htep, offset, steady>>
    BY <1>3 DEF vars, routevars, hashvars
  <2>3. RouteInv => RouteInv'
    BY <2>1, <2>2 DEF RouteInv, Proto, RouteTable, RouteReader, Guarded, Near, Updating, DeletingRoute, ClearingRoutes, Chain
  <2>4. HashInv => HashInv'
    BY <2>1, <2>2 DEF HashInv, Proto, HashTable, HashReader, ReaderAt, HashSteady, WillFind, Ahead, Guarded, Near,
                      Bucket, Deleting
  <2>5. (NoRoute => NoRoute') /\ (NoHash => NoHash')
    BY <2>1, <2>2 DEF NoRoute, NoHash
  <2> QED BY <2>1, <2>3, <2>4, <2>5 DEF IInv
<1> QED BY <1>1, <1>2, <1>3 DEF Next

\* The inductive invariant holds in every reachable state of both tables.
THEOREM Invariance == Spec => []IInv
<1>1. Init => IInv
  BY InitHolds
<1>2. IInv /\ [Next]_vars => IInv'
  BY NextHolds
<1> QED BY <1>1, <1>2, PTL DEF Spec

\* "if (READ_ONCE(rep->re_freed)) abort()" of route_lookup() never fires and hashtab_lookup()
\* touches nothing freed, for any number of threads and objects and whatever R is, provided that no
\* two objects are 2^31 hazptr_head_t or more apart, where compare() of hazptr.c is not an order:
\* Guarded of what the lookup has validated and of what it goes on from.
THEOREM NothingFreedUnderALookup == Spec => []ValidatedNotFreed
<1>1. IInv => ValidatedNotFreed
  <2> SUFFICES ASSUME IInv PROVE ValidatedNotFreed
    OBVIOUS
  <2>1. RouteInv /\ Near => Route!ValidatedNotFreed
    BY Setting DEF RouteInv, RouteReader, Guarded, Route!ValidatedNotFreed
  <2>2. HashInv /\ Near => Hash!LookupTouchesNothingFreed
    BY Setting DEF HashInv, HashReader, ReaderAt, Guarded, Hash!LookupTouchesNothingFreed
  <2> QED BY <2>1, <2>2 DEF IInv, ValidatedNotFreed
<1> QED BY <1>1, Invariance, PTL

\* No entry is lost and none is freed twice: outside of the locks what is allocated is linked or on
\* exactly one rlist, and rcount counts it there, for all constants, even where compare() is not an
\* order.
THEOREM Reachability == Spec => []AllocatedIsReachable
<1>1. IInv => AllocatedIsReachable
  <2> SUFFICES ASSUME IInv PROVE AllocatedIsReachable
    OBVIOUS
  <2>1. CASE impl = "route_hazptr" /\ RouteInv /\ NoHash
    <3>1. Linked = ToSet(list) /\ ToSet(list) \subseteq Objects
      BY <2>1 DEF Linked, Route!Linked, Route!ToSet, ToSet, RouteInv, RouteTable
    <3>2. \A o \in ToSet(list) : mem[o] = "live"
      BY <2>1 DEF RouteInv, RouteTable
    <3>3. Proto(NR_THREADS)
      BY <2>1 DEF RouteInv
    <3>4. \A t \in Threads : rlist[t] \intersect Linked = {}
      BY <3>1, <3>2, <3>3 DEF Proto
    <3>5. routelock = -1 => \A o \in Objects : mem[o] = "live" => o \in Linked
      BY <2>1, <3>1 DEF RouteInv, RouteTable
    <3>6. \A o \in Objects : mem[o] = "retired" <=> o \in UNION {rlist[t] : t \in Threads}
      BY <3>3 DEF Proto
    <3>7. \A o \in Objects : mem[o] \in {"free", "live", "retired"}
      BY <3>3 DEF Proto
    <3>8. routelock = -1 => \A o \in Objects : mem[o] # "free" <=> o \in Linked \union UNION {rlist[t] : t \in Threads}
      BY <3>1, <3>2, <3>5, <3>6, <3>7
    <3> QED BY <3>3, <3>4, <3>8 DEF AllocatedIsReachable, Unlocked, Proto
  <2>2. CASE impl = "hash_bkt_hazptr" /\ HashInv /\ NoRoute
    <3>1. Linked = UNION {ToSet(bkt[b]) : b \in Hash!Buckets}
      BY <2>2 DEF Linked, Hash!Linked, Hash!ToSet, ToSet
    <3>2. \A b \in Hash!Buckets : \A o \in ToSet(bkt[b]) : mem[o] = "live"
      BY <2>2 DEF HashInv, HashTable
    <3>3. Proto(2 * NR_THREADS)
      BY <2>2 DEF HashInv
    <3>4. ASSUME NEW t \in Threads PROVE rlist[t] \intersect Linked = {}
      <4>1. \A o \in rlist[t] : o \in Objects /\ mem[o] = "retired"
        BY <3>3 DEF Proto
      <4> QED BY <3>1, <3>2, <4>1
    <3>5. Unlocked => \A o \in Objects : mem[o] = "live" => o \in Linked
      <4> SUFFICES ASSUME Unlocked, NEW o \in Objects, mem[o] = "live" PROVE o \in Linked
        OBVIOUS
      <4>1. ekey[o] \in Keys /\ (o \in ToSet(bkt[Bucket(o)]) \/ \E t \in Threads : Deleting(t, o))
        BY <2>2 DEF HashInv, HashTable
      <4>2. Bucket(o) \in Hash!Buckets
        BY <4>1, HashBucket DEF Bucket
      <4>3. \A t \in Threads : ~ Deleting(t, o)
        BY <2>2, <4>2, Setting DEF Unlocked, Deleting, HashInv, HashTable
      <4> QED BY <3>1, <4>1, <4>2, <4>3
    <3>6. \A o \in Objects : mem[o] = "retired" <=> o \in UNION {rlist[t] : t \in Threads}
      BY <3>3 DEF Proto
    <3>7. \A o \in Objects : mem[o] \in {"free", "live", "retired"}
      BY <3>3 DEF Proto
    <3>8. Unlocked => \A o \in Objects : mem[o] # "free" <=> o \in Linked \union UNION {rlist[t] : t \in Threads}
      BY <3>1, <3>2, <3>5, <3>6, <3>7
    <3> QED BY <3>3, <3>4, <3>8 DEF AllocatedIsReachable, Proto
  <2> QED BY <2>1, <2>2 DEF IInv
<1> QED BY <1>1, Invariance, PTL

\* Where hashtab_lookup() comes to the end of a bucket, there is no element ahead.
LEMMA NotFoundMeansAbsent ==
  ASSUME HashInv, NEW t \in Threads, Hash!Next, pc[t] = "load", pc'[t] = "idle"
  PROVE  Near => ~ steady[t]
<1> USE DEF Hash!Goto, Hash!hpvars, Hash!scanvars, Hash!tabvars
<1>1. PICK u \in Threads :
        \/ Hash!Drain(u) \/ Hash!Step(u) \/ Hash!Leave(u)
        \/ \E k \in Keys : Hash!LookupCall(u, k) \/ Hash!Add(u, k)
        \/ \E o \in Objects : Hash!Del(u, o)
  BY Setting DEF Hash!Next
<1>2. pc \in [Threads -> PCs] /\ HashTable /\ HashReader(t) /\ HashSteady(t) /\ from[t] \in Entries
  BY DEF HashInv, Proto
<1>3. \/ pc' = pc
      \/ \E x : pc' = [pc EXCEPT ![u] = x]
  BY <1>1 DEF Hash!Drain, Hash!DrainStore, Hash!Step, Hash!Leave, Hash!LookupCall, Hash!Add, Hash!Del, Hash!Lookup,
       Hash!LookupLoad, Hash!LookupStore, Hash!LookupMb, Hash!LookupReload, Hash!LookupCompare, Hash!LookupDone,
       Hash!Return, Hash!DelPoison, Hash!free_later, Hash!Scan, Hash!ScanMb, Hash!ScanHP, Hash!ScanFree,
       Hash!Exit, Hash!ExitLoop
<1>4. u = t
  BY <1>2, <1>3
<1>5. Hash!LookupLoad(t)
  BY <1>1, <1>2, <1>4 DEF Hash!Drain, Hash!DrainStore, Hash!Step, Hash!Leave, Hash!LookupCall, Hash!Add, Hash!Del,
       Hash!Lookup, Hash!LookupStore, Hash!LookupMb, Hash!LookupReload, Hash!LookupCompare, Hash!LookupDone,
       Hash!DelPoison, Hash!Scan, Hash!ScanMb, Hash!ScanHP, Hash!ScanFree, Hash!Exit, Hash!ExitLoop
<1> DEFINE b == Hash!HASH2BKT(key[t])
<1>6. Hash!Deref(b, from[t]) = NULL
  BY <1>2, <1>5 DEF Hash!LookupLoad
<1>7. key[t] \in Keys
  BY <1>2 DEF HashReader, ReaderAt, Looking
<1>8. b \in Hash!Buckets
  BY <1>7, HashBucket
<1> HIDE DEF b
<1>9. Near /\ steady[t] => \E e \in ToSet(bkt[b]) : Ahead(b, from[t], e)
  BY <1>2 DEF HashSteady, WillFind, Approaching, b
<1>10. Near /\ from[t] # NULL => Bucket(from[t]) = b
  BY <1>2 DEF HashReader, ReaderAt, Approaching, b
<1> QED BY <1>2, <1>6, <1>8, <1>9, <1>10, DerefAhead

\* A lookup never reports that a key which has been in the hash table since the call is not there,
\* for any number of threads, keys, buckets and hash values, if no two objects are 2^31
\* hazptr_head_t or more apart.
THEOREM Found == Spec => PresentKeyFound
<1>1. IInv /\ [Next]_vars =>
        [Near => \A t \in Threads : pc[t] = "load" /\ pc'[t] = "idle" => ~ steady[t]]_vars
  <2> SUFFICES ASSUME IInv, Next, Near, NEW t \in Threads, pc[t] = "load", pc'[t] = "idle" PROVE ~ steady[t]
    OBVIOUS
  <2>1. CASE OnlyRoute /\ Route!Next
    BY <2>1 DEF IInv, OnlyRoute, NoHash
  <2>2. CASE OnlyHash /\ Hash!Next
    BY <2>2, NotFoundMeansAbsent DEF IInv, OnlyHash
  <2>3. CASE AllExited /\ UNCHANGED vars
    BY <2>3 DEF vars
  <2> QED BY <2>1, <2>2, <2>3 DEF Next
<1> QED BY <1>1, Invariance, PTL DEF Spec, PresentKeyFound
=============================================================================
