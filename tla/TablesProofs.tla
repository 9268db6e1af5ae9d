---------------------------- MODULE TablesProofs ----------------------------
(*****************************************************************************)
(* Proofs about module Tables, for the programs whose tables are linked      *)
(* lists: the routing tables of CodeSamples/defer and the hash tables of     *)
(* CodeSamples/datastruct/hash.                                              *)
(*****************************************************************************)
EXTENDS Tables, SequenceTheorems, NaturalsInduction, WellFoundedInduction, FiniteSetTheorems, TLAPS

\* Min() of a set of naturals is its smallest element.
LEMMA Smallest ==
  ASSUME NEW I \in SUBSET Nat, I # {}
  PROVE  Min(I) \in I /\ \A j \in I : Min(I) <= j
<1>1. IsWellFoundedOn(OpToRel(<, Nat), Nat)
  BY NatLessThanWellFounded
<1>2. \E i \in I : \A j \in I : ~ (<<j, i>> \in OpToRel(<, Nat))
  BY <1>1, WFMin, Zenon
<1>3. PICK i \in I : \A j \in I : ~ (<<j, i>> \in OpToRel(<, Nat))
  BY <1>2
<1>4. ASSUME NEW j \in I PROVE i <= j
  <2>1. i \in Nat /\ j \in Nat
    OBVIOUS
  <2>2. <<j, i>> \in Nat \X Nat /\ ~ (<<j, i>> \in OpToRel(<, Nat))
    BY <1>3, <2>1
  <2>3. ~ (j < i)
    BY <2>1, <2>2 DEF OpToRel
  <2> QED BY <2>1, <2>3
<1> QED BY <1>4 DEF Min

\* No object is linked twice.
OneToOne(s) == \A i, j \in DOMAIN s : s[i] = s[j] => i = j

\* SelectInSeq() finds an object that is in the sequence.
LEMMA Selected ==
  ASSUME NEW S, NEW s \in Seq(S), NEW o \in ToSet(s)
  PROVE  LET i == SelectInSeq(s, LAMBDA x : x = o) IN i \in 1 .. Len(s) /\ s[i] = o
<1> DEFINE I == {i \in 1 .. Len(s) : s[i] = o}
<1>1. I # {} /\ I \in SUBSET Nat
  BY DEF ToSet
<1>2. Min(I) \in I
  BY <1>1, Smallest
<1>3. SelectInSeq(s, LAMBDA x : x = o) = Min(I)
  BY <1>1 DEF SelectInSeq
<1> QED BY <1>2, <1>3

\* RemoveAt() closes the gap.
LEMMA RemovedAt ==
  ASSUME NEW S, NEW s \in Seq(S), NEW n \in 1 .. Len(s)
  PROVE  /\ RemoveAt(s, n) \in Seq(S) /\ Len(RemoveAt(s, n)) = Len(s) - 1
         /\ \A j \in 1 .. Len(s) - 1 : RemoveAt(s, n)[j] = IF j < n THEN s[j] ELSE s[j + 1]
<1> DEFINE a == SubSeq(s, 1, n - 1)
           b == SubSeq(s, n + 1, Len(s))
<1>1. Len(s) \in Nat /\ n \in Nat /\ n >= 1 /\ n <= Len(s)
  OBVIOUS
<1>2. /\ a \in Seq(S) /\ Len(a) = n - 1
      /\ \A j \in 1 .. n - 1 : a[j] = s[j]
  BY <1>1
<1>3. /\ b \in Seq(S) /\ Len(b) = Len(s) - n
      /\ \A j \in 1 .. Len(s) - n : b[j] = s[n + j]
  <2>1. b \in Seq(S) /\ Len(b) = Len(s) - n
    BY <1>1
  <2>2. \A j \in 1 .. Len(s) - n : b[j] = s[(n + 1) + j - 1]
    BY <1>1
  <2>3. \A j \in 1 .. Len(s) - n : (n + 1) + j - 1 = n + j
    BY <1>1
  <2> QED BY <2>1, <2>2, <2>3
<1>4. RemoveAt(s, n) = a \o b
  BY DEF RemoveAt
<1> HIDE DEF a, b
<1>5. a \o b \in Seq(S) /\ Len(a \o b) = Len(s) - 1
  <2>1. a \o b \in Seq(S) /\ Len(a \o b) = Len(a) + Len(b)
    BY <1>2, <1>3, ConcatProperties
  <2> QED BY <1>1, <1>2, <1>3, <2>1
<1>6. ASSUME NEW j \in 1 .. Len(s) - 1 PROVE (a \o b)[j] = IF j < n THEN s[j] ELSE s[j + 1]
  <2>3. j \in Nat /\ j >= 1 /\ j <= Len(s) - 1
    BY <1>1
  <2>4. (a \o b)[j] = IF j <= Len(a) THEN a[j] ELSE b[j - Len(a)]
    BY <1>1, <1>2, <1>3, <2>3, ConcatProperties
  <2>1. CASE j < n
    <3>1. j <= Len(a) /\ j \in 1 .. n - 1
      BY <1>1, <1>2, <2>1, <2>3
    <3> QED BY <1>2, <2>1, <2>4, <3>1
  <2>2. CASE j >= n
    <3>1. (a \o b)[j] = b[j - (n - 1)] /\ j - (n - 1) \in 1 .. Len(s) - n
      BY <1>1, <1>2, <2>2, <2>3, <2>4
    <3>2. b[j - (n - 1)] = s[n + (j - (n - 1))] /\ n + (j - (n - 1)) = j + 1
      BY <1>1, <1>3, <3>1
    <3> QED BY <1>1, <2>2, <3>1, <3>2
  <2>5. j < n \/ j >= n
    BY <1>1, <2>3
  <2> QED BY <2>1, <2>2, <2>5, Zenon
<1> QED BY <1>4, <1>5, <1>6

\* Linking at the head
LEMMA Consed ==
  ASSUME NEW S, NEW s \in Seq(S), NEW o \in S
  PROVE  /\ <<o>> \o s \in Seq(S) /\ Len(<<o>> \o s) = Len(s) + 1
         /\ (<<o>> \o s)[1] = o
         /\ \A j \in 1 .. Len(s) : (<<o>> \o s)[j + 1] = s[j]
         /\ \A j \in 1 .. Len(s) + 1 : (<<o>> \o s)[j] = IF j = 1 THEN o ELSE s[j - 1]
<1>1. <<o>> \in Seq(S) /\ Len(<<o>>) = 1 /\ <<o>>[1] = o /\ Len(s) \in Nat
  OBVIOUS
<1>2. <<o>> \o s \in Seq(S) /\ Len(<<o>> \o s) = Len(s) + 1
  BY <1>1
<1>3. \A j \in 1 .. Len(s) + 1 : (<<o>> \o s)[j] = IF j = 1 THEN o ELSE s[j - 1]
  BY <1>1
<1> QED BY <1>1, <1>2, <1>3

\* Unlinking takes one object out of a list.
LEMMA Removed ==
  ASSUME NEW S, NEW s \in Seq(S), OneToOne(s), NEW n \in 1 .. Len(s)
  PROVE  /\ RemoveAt(s, n) \in Seq(S) /\ OneToOne(RemoveAt(s, n))
         /\ ToSet(RemoveAt(s, n)) = ToSet(s) \ {s[n]}
<1> DEFINE r == RemoveAt(s, n)
           at(j) == IF j < n THEN j ELSE j + 1
<1>1. /\ r \in Seq(S) /\ Len(r) = Len(s) - 1
      /\ \A j \in 1 .. Len(r) : r[j] = IF j < n THEN s[j] ELSE s[j + 1]
  BY RemovedAt
<1>2. Len(s) \in Nat /\ Len(r) \in Nat /\ DOMAIN s = 1 .. Len(s) /\ DOMAIN r = 1 .. Len(r)
  BY <1>1
<1> HIDE DEF r
<1>3. \A j \in 1 .. Len(r) : at(j) \in 1 .. Len(s) /\ at(j) # n /\ r[j] = s[at(j)]
  BY <1>1, <1>2
<1>4. \A j, k \in 1 .. Len(r) : at(j) = at(k) => j = k
  BY <1>2
<1>5. \A k \in 1 .. Len(s) : k # n => \E j \in 1 .. Len(r) : at(j) = k
  <2> SUFFICES ASSUME NEW k \in 1 .. Len(s), k # n PROVE \E j \in 1 .. Len(r) : at(j) = k
    OBVIOUS
  <2>1. CASE k < n
    <3>1. k \in 1 .. Len(r) /\ at(k) = k
      BY <1>1, <1>2, <2>1
    <3> QED BY <3>1
  <2>2. CASE k > n
    <3>1. k - 1 \in 1 .. Len(r) /\ at(k - 1) = k
      BY <1>1, <1>2, <2>2
    <3> QED BY <3>1
  <2> QED BY <1>2, <2>1, <2>2
<1> HIDE DEF at
<1>6. OneToOne(r)
  BY <1>2, <1>3, <1>4 DEF OneToOne
<1>7. ToSet(r) = ToSet(s) \ {s[n]}
  <2>1. \A j \in 1 .. Len(r) : r[j] \in ToSet(s) \ {s[n]}
    BY <1>2, <1>3 DEF ToSet, OneToOne
  <2>2. \A k \in 1 .. Len(s) : s[k] # s[n] => s[k] \in ToSet(r)
    BY <1>2, <1>3, <1>5 DEF ToSet
  <2> QED BY <1>2, <2>1, <2>2 DEF ToSet
<1> QED BY <1>1, <1>6, <1>7 DEF r

\* Linking puts one object into a list.
LEMMA Added ==
  ASSUME NEW S, NEW s \in Seq(S), OneToOne(s), NEW o \in S, o \notin ToSet(s)
  PROVE  /\ <<o>> \o s \in Seq(S) /\ OneToOne(<<o>> \o s)
         /\ ToSet(<<o>> \o s) = ToSet(s) \union {o}
<1> DEFINE r == <<o>> \o s
<1>1. /\ r \in Seq(S) /\ Len(r) = Len(s) + 1 /\ r[1] = o
      /\ \A j \in 1 .. Len(s) : r[j + 1] = s[j]
      /\ \A j \in 1 .. Len(r) : r[j] = IF j = 1 THEN o ELSE s[j - 1]
  BY Consed
<1>2. Len(s) \in Nat /\ DOMAIN s = 1 .. Len(s) /\ DOMAIN r = 1 .. Len(r)
  BY <1>1
<1> HIDE DEF r
<1>3. \A j \in 1 .. Len(r) : j # 1 => j - 1 \in 1 .. Len(s) /\ r[j] = s[j - 1]
  BY <1>1, <1>2
<1>4. \A j \in 1 .. Len(s) : s[j] \in ToSet(s) /\ s[j] # o
  BY <1>2 DEF ToSet
<1>5. OneToOne(r)
  <2> SUFFICES ASSUME NEW i \in 1 .. Len(r), NEW j \in 1 .. Len(r), r[i] = r[j] PROVE i = j
    BY <1>2 DEF OneToOne
  <2>1. CASE i = 1 \/ j = 1
    <3>1. ASSUME NEW n \in 1 .. Len(r), n # 1 PROVE r[n] # o
      BY <1>3, <1>4, <3>1
    <3> QED BY <1>1, <2>1, <3>1
  <2>2. CASE i # 1 /\ j # 1
    <3>1. i - 1 = j - 1
      BY <1>2, <1>3, <2>2 DEF OneToOne
    <3> QED BY <3>1, <1>1, <1>2
  <2> QED BY <2>1, <2>2
<1>6. ToSet(r) = ToSet(s) \union {o}
  <2>1. \A j \in 1 .. Len(r) : r[j] \in ToSet(s) \union {o}
    BY <1>1, <1>3, <1>4
  <2>2. 1 \in 1 .. Len(r) /\ \A j \in 1 .. Len(s) : j + 1 \in 1 .. Len(r)
    BY <1>1, <1>2
  <2>3. o \in ToSet(r) /\ \A j \in 1 .. Len(s) : s[j] \in ToSet(r)
    BY <1>1, <1>2, <2>2 DEF ToSet
  <2> QED BY <1>2, <2>1, <2>3 DEF ToSet
<1> QED BY <1>1, <1>5, <1>6 DEF r

-----------------------------------------------------------------------------
\* The programs whose tables are linked lists
RcuRoutes == {"route_rcu", "route_cacm", "route_cacm_fresh", "route_cacm_fresh_c11"}
UsesRcu == impl \in RcuRoutes \union {"hash_bkt_rcu"}

\* The entries that are linked in bucket b
In(b) == ToSet(list[b])

\* No entry is linked twice, and each is linked in the bucket of its key.
Lists ==
  /\ list \in [Buckets -> Seq(Objects)]
  /\ akey \in [Objects -> Keys]
  /\ \A b \in Buckets : OneToOne(list[b])
  /\ \A b \in Buckets : \A o \in In(b) : Bucket(akey[o]) = b

\* What the assumptions say about the constants
LEMMA Setting ==
  /\ NR_THREADS \in Nat \ {0} /\ Threads = 0 .. NR_THREADS - 1 /\ Threads \subseteq Nat
  /\ 0 \in Threads /\ -1 \notin Threads
  /\ NBUCKETS \in Nat \ {0} /\ Buckets = 0 .. NBUCKETS - 1 /\ 0 \in Buckets
  /\ Buckets \subseteq Locks /\ rcu_gp_lock \in Locks /\ rcu_gp_lock \notin Buckets
  /\ Keys \subseteq Nat /\ Keys # {}
  /\ MaxSeq \in Nat /\ NULL # JUNK /\ NULL \notin Objects /\ JUNK \notin Objects
  BY TableAssumption DEF Threads, Buckets, Locks, rcu_gp_lock

\* Every key has a bucket.
LEMMA KeyBucket ==
  ASSUME NEW k \in Nat
  PROVE  Bucket(k) \in Buckets /\ HASH2BKT(k) \in Buckets
<1>1. k % NBUCKETS \in 0 .. NBUCKETS - 1
  BY Setting
<1> QED BY <1>1, Setting DEF Bucket, HASH2BKT

\* What is linked is linked in one bucket.
LEMMA OneBucket ==
  ASSUME Lists
  PROVE  /\ Linked \subseteq Objects
         /\ \A b \in Buckets : In(b) \subseteq Linked
         /\ \A o \in Linked : Bucket(akey[o]) \in Buckets /\ o \in In(Bucket(akey[o]))
         /\ \A b, c \in Buckets : \A o \in In(b) : o \in In(c) => b = c
<1>1. \A b \in Buckets : list[b] \in Seq(Objects) /\ In(b) \subseteq Objects
  BY DEF Lists, In, ToSet
<1>2. Linked = UNION {In(b) : b \in Buckets}
  BY DEF Linked, In
<1> QED BY <1>1, <1>2 DEF Lists

\* A routing table is one list.
LEMMA OneList ==
  ASSUME Lists, impl \notin Hashes
  PROVE  Linked = In(0) /\ \A k : Bucket(k) = 0
<1>1. \A k : Bucket(k) = 0
  BY DEF Bucket
<1> QED BY <1>1, OneBucket, Setting

\* The facts about the list of one bucket
LEMMA ListOf ==
  ASSUME Lists, NEW b \in Buckets
  PROVE  /\ list[b] \in Seq(Objects) /\ OneToOne(list[b]) /\ DOMAIN list[b] = 1 .. Len(list[b])
         /\ Len(list[b]) \in Nat /\ In(b) \subseteq Objects /\ NULL \notin In(b)
         /\ \A i \in 1 .. Len(list[b]) : list[b][i] \in In(b)
         /\ \A o \in In(b) : \E i \in 1 .. Len(list[b]) : list[b][i] = o
<1>1. list[b] \in Seq(Objects) /\ OneToOne(list[b])
  BY DEF Lists
<1> QED BY <1>1, Setting DEF In, ToSet

\* The entry after the i-th
LEMMA SuccessorAt ==
  ASSUME Lists, NEW b \in Buckets, NEW i \in 1 .. Len(list[b])
  PROVE  Successor(b, list[b][i]) = IF i < Len(list[b]) THEN list[b][i + 1] ELSE NULL
<1> DEFINE s == list[b]
           o == s[i]
           j == SelectInSeq(s, LAMBDA x : x = o)
<1>1. s \in Seq(Objects) /\ OneToOne(s) /\ DOMAIN s = 1 .. Len(s) /\ o \in ToSet(s)
  BY ListOf DEF In
<1>2. j \in 1 .. Len(s) /\ s[j] = o
  BY <1>1, Selected
<1>4. Successor(b, o) = IF j < Len(s) THEN s[j + 1] ELSE NULL
  BY DEF Successor
<1> HIDE DEF j
<1>3. j = i
  BY <1>1, <1>2 DEF OneToOne
<1> QED BY <1>3, <1>4

\* The entry after one that is linked is linked in the same bucket.
LEMMA SuccessorIn ==
  ASSUME Lists, NEW b \in Buckets, NEW o \in In(b)
  PROVE  Successor(b, o) \in In(b) \union {NULL} /\ Successor(b, o) # o
<1>1. PICK i \in 1 .. Len(list[b]) : list[b][i] = o
  BY ListOf
<1>2. Successor(b, o) = IF i < Len(list[b]) THEN list[b][i + 1] ELSE NULL
  BY <1>1, SuccessorAt
<1>3. i < Len(list[b]) => i + 1 \in 1 .. Len(list[b]) /\ i + 1 # i
  BY ListOf
<1>4. o # NULL
  BY ListOf
<1> QED BY <1>1, <1>2, <1>3, <1>4, ListOf DEF OneToOne

\* The pointer in the head or in an entry that is linked leads to an entry of the bucket, or to its end.
LEMMA DerefIn ==
  ASSUME Lists, NEW b \in Buckets, NEW o \in Objects \union {NULL}
  PROVE  /\ o \in In(b) \union {NULL} => Deref(b, o) \in In(b) \union {NULL}
         /\ o \in In(b) => Deref(b, o) = Successor(b, o)
         /\ o \notin In(b) \union {NULL} => Deref(b, o) = stale[o]
<1>1. CASE o = NULL
  <2>1. Deref(b, o) = IF list[b] = <<>> THEN NULL ELSE Head(list[b])
    BY <1>1, ListOf DEF Deref, In
  <2>2. list[b] # <<>> => 1 \in 1 .. Len(list[b]) /\ Head(list[b]) = list[b][1]
    BY ListOf, EmptySeq
  <2> QED BY <1>1, <2>1, <2>2, ListOf
<1>2. CASE o \in In(b)
  <2>1. o # NULL /\ Deref(b, o) = Successor(b, o)
    BY <1>2, ListOf DEF Deref, In
  <2> QED BY <1>2, <2>1, SuccessorIn
<1>3. CASE o \notin In(b) \union {NULL}
  BY <1>3 DEF Deref, In
<1> QED BY <1>1, <1>2, <1>3

\* An entry is linked at the head of the bucket of its key.
LEMMA LinkKeeps ==
  ASSUME Lists, NEW b \in Buckets, NEW o \in Objects, o \notin Linked, NEW k \in Keys, Bucket(k) = b,
         Link(b, o, k), UNCHANGED impl
  PROVE  /\ Lists' /\ In(b)' = In(b) \union {o} /\ Linked' = Linked \union {o}
         /\ \A c \in Buckets \ {b} : In(c)' = In(c)
         /\ akey'[o] = k /\ \A x \in Objects \ {o} : akey'[x] = akey[x] /\ stale'[x] = stale[x]
<1> DEFINE r == <<o>> \o list[b]
<1>1. list[b] \in Seq(Objects) /\ OneToOne(list[b]) /\ o \notin ToSet(list[b])
  BY ListOf, OneBucket DEF In
<1>2. r \in Seq(Objects) /\ OneToOne(r) /\ ToSet(r) = ToSet(list[b]) \union {o}
  BY <1>1, Added
<1>3. list' = [list EXCEPT ![b] = r] /\ list \in [Buckets -> Seq(Objects)]
  BY DEF Link, Lists
<1> HIDE DEF r
<1>4. list' \in [Buckets -> Seq(Objects)] /\ list'[b] = r /\ \A c \in Buckets \ {b} : list'[c] = list[c]
  BY <1>2, <1>3
<1>5. \A c \in Buckets : In(c)' = IF c = b THEN In(b) \union {o} ELSE In(c)
  BY <1>2, <1>4 DEF In
<1>6. /\ akey' \in [Objects -> Keys] /\ akey'[o] = k
      /\ \A x \in Objects \ {o} : akey'[x] = akey[x] /\ stale'[x] = stale[x]
  BY DEF Link, Lists
<1>8. \A c \in Buckets : \A x \in In(c)' : Bucket(akey'[x]) = c
  <2> SUFFICES ASSUME NEW c \in Buckets, NEW x \in In(c)' PROVE Bucket(akey'[x]) = c
    OBVIOUS
  <2>1. CASE x = o
    <3>1. c = b
      BY <1>5, <2>1, OneBucket
    <3> QED BY <1>6, <2>1, <3>1
  <2>2. CASE x # o
    <3>1. x \in In(c) /\ x \in Objects
      BY <1>5, <2>2, ListOf
    <3>2. akey'[x] = akey[x]
      BY <1>6, <2>2, <3>1
    <3> QED BY <3>1, <3>2 DEF Lists
  <2> QED BY <2>1, <2>2
<1>9. \A c \in Buckets : OneToOne(list'[c])
  BY <1>2, <1>4 DEF Lists
<1>7. \A c \in Buckets : \A x \in In(c)' : Bucket(akey[x])' = c
  BY <1>8 DEF Bucket
<1>10. Lists'
  BY <1>4, <1>6, <1>7, <1>9 DEF Lists
<1>11. Linked' = UNION {In(c)' : c \in Buckets} /\ Linked = UNION {In(c) : c \in Buckets}
  BY DEF Linked, In
<1> QED BY <1>5, <1>6, <1>10, <1>11

\* A bucket that shrinks
LEMMA LessKeeps ==
  ASSUME Lists, NEW b \in Buckets, NEW r \in Seq(Objects), OneToOne(r), ToSet(r) \subseteq In(b),
         list' = [list EXCEPT ![b] = r], UNCHANGED <<akey, impl>>
  PROVE  /\ Lists' /\ In(b)' = ToSet(r) /\ Linked' = Linked \ (In(b) \ ToSet(r))
         /\ \A c \in Buckets \ {b} : In(c)' = In(c)
<1>1. list' \in [Buckets -> Seq(Objects)] /\ list'[b] = r /\ \A c \in Buckets \ {b} : list'[c] = list[c]
  BY DEF Lists
<1>2. \A c \in Buckets : In(c)' = IF c = b THEN ToSet(r) ELSE In(c)
  BY <1>1 DEF In
<1>3. \A c \in Buckets : \A x \in In(c)' : Bucket(akey[x]) = c
  BY <1>2 DEF Lists
<1>4. \A c \in Buckets : \A x \in In(c)' : Bucket(akey[x])' = c
  BY <1>3 DEF Bucket
<1>5. \A c \in Buckets : OneToOne(list'[c])
  BY <1>1 DEF Lists
<1>6. Lists'
  BY <1>1, <1>4, <1>5 DEF Lists
<1>7. Linked' = UNION {In(c)' : c \in Buckets} /\ Linked = UNION {In(c) : c \in Buckets}
  BY DEF Linked, In
<1>8. \A c \in Buckets : c # b => In(c) \intersect In(b) = {}
  BY OneBucket
<1> QED BY <1>2, <1>6, <1>7, <1>8

\* RemoveFirst() takes one entry out.
LEMMA RemoveFirstOf ==
  ASSUME NEW S, NEW s \in Seq(S), OneToOne(s), NEW o \in ToSet(s)
  PROVE  /\ RemoveFirst(s, o) \in Seq(S) /\ OneToOne(RemoveFirst(s, o))
         /\ ToSet(RemoveFirst(s, o)) = ToSet(s) \ {o}
         /\ \E n \in 1 .. Len(s) : s[n] = o /\ RemoveFirst(s, o) = RemoveAt(s, n)
<1> DEFINE n == SelectInSeq(s, LAMBDA v : v = o)
<1>1. n \in 1 .. Len(s) /\ s[n] = o
  BY Selected
<1>2. RemoveFirst(s, o) = RemoveAt(s, n)
  BY <1>1 DEF RemoveFirst
<1> HIDE DEF n
<1> QED BY <1>1, <1>2, Removed

\* An entry is unlinked, and something is made of its own pointer.
LEMMA RemoveKeeps ==
  ASSUME Lists, NEW b \in Buckets, NEW o \in In(b), list' = [list EXCEPT ![b] = RemoveFirst(@, o)], UNCHANGED <<akey, impl>>
  PROVE  /\ Lists' /\ In(b)' = In(b) \ {o} /\ Linked' = Linked \ {o}
         /\ \A c \in Buckets \ {b} : In(c)' = In(c)
<1> DEFINE r == RemoveFirst(list[b], o)
<1>1. list[b] \in Seq(Objects) /\ OneToOne(list[b]) /\ o \in ToSet(list[b])
  BY ListOf DEF In
<1>2. r \in Seq(Objects) /\ OneToOne(r) /\ ToSet(r) = In(b) \ {o}
  BY <1>1, RemoveFirstOf DEF In
<1>3. list' = [list EXCEPT ![b] = r]
  OBVIOUS
<1> HIDE DEF r
<1> QED BY <1>2, <1>3, LessKeeps

\* Unlink() leaves the entry's own pointer.
LEMMA UnlinkKeeps ==
  ASSUME Lists, NEW b \in Buckets, NEW o \in In(b), Unlink(b, o), UNCHANGED impl,
         stale \in [Objects -> Objects \union {NULL, JUNK}]
  PROVE  /\ Lists' /\ In(b)' = In(b) \ {o} /\ Linked' = Linked \ {o}
         /\ \A c \in Buckets \ {b} : In(c)' = In(c)
         /\ akey' = akey /\ stale'[o] \in (In(b) \ {o}) \union {NULL} /\ \A x \in Objects \ {o} : stale'[x] = stale[x]
         /\ stale' \in [Objects -> Objects \union {NULL, JUNK}]
<1>1. o \in Objects /\ Successor(b, o) \in (In(b) \ {o}) \union {NULL} /\ In(b) \subseteq Objects
  BY ListOf, SuccessorIn
<1>2. list' = [list EXCEPT ![b] = RemoveFirst(@, o)] /\ akey' = akey
  BY DEF Unlink
<1>3. stale' = [stale EXCEPT ![o] = Successor(b, o)]
  BY DEF Unlink
<1>4. /\ Lists' /\ In(b)' = In(b) \ {o} /\ Linked' = Linked \ {o}
      /\ \A c \in Buckets \ {b} : In(c)' = In(c)
  BY <1>2, RemoveKeeps
<1>5. /\ stale'[o] \in (In(b) \ {o}) \union {NULL} /\ \A x \in Objects \ {o} : stale'[x] = stale[x]
      /\ stale' \in [Objects -> Objects \union {NULL, JUNK}]
  BY <1>1, <1>3
<1> QED BY <1>2, <1>4, <1>5

\* The whole list is taken.
LEMMA ClearKeeps ==
  ASSUME Lists, impl \notin Hashes, list' = [list EXCEPT ![0] = <<>>], UNCHANGED <<akey, impl>>
  PROVE  Lists' /\ In(0)' = {} /\ Linked' = {}
<1>1. <<>> \in Seq(Objects) /\ OneToOne(<<>>) /\ ToSet(<<>>) = {}
  BY DEF OneToOne, ToSet
<1>2. 0 \in Buckets /\ Linked = In(0)
  BY Setting, OneList
<1> QED BY <1>1, <1>2, LessKeeps

\* The head of a list is taken.
LEMMA TailOf ==
  ASSUME NEW S, NEW s \in Seq(S), OneToOne(s), s # <<>>
  PROVE  /\ Head(s) = s[1] /\ 1 \in 1 .. Len(s) /\ Tail(s) \in Seq(S) /\ OneToOne(Tail(s))
         /\ Len(Tail(s)) = Len(s) - 1 /\ \A i \in 1 .. Len(Tail(s)) : Tail(s)[i] = s[i + 1]
         /\ ToSet(Tail(s)) = ToSet(s) \ {s[1]} /\ s[1] \in ToSet(s)
<1> DEFINE r == Tail(s)
<1>1. DOMAIN s = 1 .. Len(s) /\ Len(s) \in Nat
  OBVIOUS
<1>4. Len(s) >= 1 /\ Head(s) = s[1] /\ 1 \in 1 .. Len(s) /\ r \in Seq(S) /\ Len(r) = Len(s) - 1
      /\ \A i \in 1 .. Len(r) : r[i] = s[i + 1]
  BY <1>1, EmptySeq
<1> HIDE DEF r
<1>5. DOMAIN r = 1 .. Len(r) /\ Len(r) \in Nat
  BY <1>4
<1>6. \A i \in 1 .. Len(r) : i + 1 \in 1 .. Len(s) /\ i + 1 # 1
  BY <1>1, <1>4
<1>7. \A i \in 1 .. Len(s) : i # 1 => i - 1 \in 1 .. Len(r) /\ (i - 1) + 1 = i
  BY <1>1, <1>4
<1>8. OneToOne(r)
  <2>1. ASSUME NEW i \in 1 .. Len(r), NEW j \in 1 .. Len(r), r[i] = r[j] PROVE i = j
    <3>1. s[i + 1] = s[j + 1] /\ i + 1 \in 1 .. Len(s) /\ j + 1 \in 1 .. Len(s)
      BY <1>4, <1>6, <2>1
    <3>2. i + 1 = j + 1
      BY <1>1, <3>1 DEF OneToOne
    <3> QED BY <1>5, <3>2
  <2> QED BY <1>5, <2>1 DEF OneToOne
<1>9. ToSet(r) = ToSet(s) \ {s[1]}
  <2>1. \A i \in 1 .. Len(r) : r[i] \in ToSet(s) \ {s[1]}
    BY <1>1, <1>4, <1>6 DEF OneToOne, ToSet
  <2>2. ASSUME NEW o \in ToSet(s) \ {s[1]} PROVE \E i \in 1 .. Len(r) : r[i] = o
    <3>1. PICK i \in 1 .. Len(s) : s[i] = o
      BY <1>1 DEF ToSet
    <3>2. i - 1 \in 1 .. Len(r) /\ r[i - 1] = s[i]
      BY <1>4, <1>7, <2>2, <3>1
    <3> QED BY <3>1, <3>2
  <2>3. PICK Q : Q = ToSet(s) \ {s[1]}
    OBVIOUS
  <2>4. (\A i \in 1 .. Len(r) : r[i] \in Q) /\ \A o \in Q : \E i \in 1 .. Len(r) : r[i] = o
    BY <2>1, <2>2, <2>3
  <2>5. ToSet(r) = Q
    BY <1>5, <2>4 DEF ToSet
  <2> QED BY <2>3, <2>5
<1>10. s[1] \in ToSet(s)
  BY <1>1, <1>4 DEF ToSet
<1> QED BY <1>4, <1>8, <1>9, <1>10 DEF r

\* The head of a routing table is unlinked.
LEMMA TailKeeps ==
  ASSUME Lists, impl \notin Hashes, list[0] # <<>>, list' = [list EXCEPT ![0] = Tail(@)], UNCHANGED <<akey, impl>>
  PROVE  /\ Lists' /\ Head(list[0]) = list[0][1] /\ 1 \in 1 .. Len(list[0]) /\ list[0][1] \in In(0)
         /\ In(0)' = In(0) \ {list[0][1]} /\ Linked' = Linked \ {list[0][1]}
<1>1. PICK s, r : s = list[0] /\ r = Tail(s)
  OBVIOUS
<1>2. s \in Seq(Objects) /\ OneToOne(s) /\ s # <<>> /\ In(0) = ToSet(s)
  BY <1>1, Setting, ListOf DEF In
<1>3. /\ Head(s) = s[1] /\ 1 \in 1 .. Len(s) /\ r \in Seq(Objects) /\ OneToOne(r)
      /\ ToSet(r) = ToSet(s) \ {s[1]} /\ s[1] \in ToSet(s)
  BY <1>1, <1>2, TailOf
<1>4. list' = [list EXCEPT ![0] = r]
  BY <1>1
<1>5. 0 \in Buckets /\ Linked = In(0) /\ ToSet(r) \subseteq In(0) /\ r \in Seq(Objects) /\ OneToOne(r)
  BY <1>2, <1>3, Setting, OneList
<1>6. Lists' /\ In(0)' = ToSet(r) /\ Linked' = Linked \ (In(0) \ ToSet(r))
  BY <1>4, <1>5, LessKeeps
<1> QED BY <1>1, <1>2, <1>3, <1>5, <1>6

\* A step that leaves the lists alone
LEMMA ListsKept ==
  ASSUME UNCHANGED <<list, akey, impl>>
  PROVE  /\ Lists => Lists'
         /\ \A b : In(b)' = In(b)
         /\ Linked' = Linked /\ \A k : Bucket(k)' = Bucket(k)
<1>1. /\ \A b : In(b)' = In(b)
      /\ \A k : Bucket(k)' = Bucket(k)
  BY DEF In, Bucket
<1> QED BY <1>1 DEF Lists, Linked

\* The first entry for a key
LEMMA FirstIn ==
  ASSUME Lists, NEW b \in Buckets, NEW k
  PROVE  \/ First(b, k) = NULL /\ \A o \in In(b) : akey[o] # k
         \/ \E i \in 1 .. Len(list[b]) :
              /\ First(b, k) = list[b][i] /\ First(b, k) \in In(b) /\ First(b, k) # NULL /\ akey[First(b, k)] = k
              /\ \A j \in 1 .. i - 1 : akey[list[b][j]] # k
<1> DEFINE s == list[b]
           I == {i \in 1 .. Len(s) : akey[s[i]] = k}
           f == First(b, k)
<1>1. /\ Len(s) \in Nat /\ \A i \in 1 .. Len(s) : s[i] \in In(b)
      /\ \A o \in In(b) : \E i \in 1 .. Len(s) : s[i] = o
      /\ NULL \notin In(b)
  BY ListOf
<1>2. CASE I = {}
  <2>1. f = NULL
    BY <1>2 DEF First, SelectInSeq
  <2> QED BY <1>1, <1>2, <2>1
<1>3. CASE I # {}
  <2>1. I \in SUBSET Nat
    OBVIOUS
  <2>2. Min(I) \in I /\ \A j \in I : Min(I) <= j
    BY <1>3, <2>1, Smallest
  <2>3. f = IF Min(I) = 0 THEN NULL ELSE s[Min(I)]
    BY <1>3 DEF First, SelectInSeq
  <2> DEFINE m == Min(I)
  <2>4. m \in I /\ (\A j \in I : m <= j) /\ f = IF m = 0 THEN NULL ELSE s[m]
    BY <2>2, <2>3
  <2> HIDE DEF m
  <2>5. m \in 1 .. Len(s) /\ m # 0 /\ f = s[m] /\ akey[f] = k
    BY <1>1, <2>4
  <2>6. ASSUME NEW j \in 1 .. m - 1 PROVE akey[s[j]] # k
    <3>1. j \in 1 .. Len(s) /\ ~ (m <= j)
      BY <1>1, <2>5
    <3> QED BY <2>4, <3>1
  <2> QED BY <1>1, <2>5, <2>6
<1> QED BY <1>2, <1>3

-----------------------------------------------------------------------------
\* Where a thread can be
Places ==
  CASE impl = "route_seq" -> {"idle", "return"}
    [] impl = "route_refcnt" -> {"idle", "begin", "load", "got", "aborted", "acquire", "compare", "next", "found", "return",
                                 "drop", "clear"}
    [] impl = "route_seqlock" -> {"idle", "begin", "load", "compare", "found", "retry", "return", "aborted", "added", "deleted",
                                  "free"}
    [] impl \in RcuRoutes -> {"idle", "begin", "load", "compare", "found", "check", "unlock", "end", "lost", "return", "unlink",
                              "deleted", "synchronize", "free", "clear"}
    [] OTHER -> {"idle", "begin", "load", "compare", "found", "return", "add", "del", "unlock", "defer"}

\* The registers of a thread
Locs ==
  [key : Nat, from : Objects \union {NULL}, cur : Objects \union {NULL, JUNK}, snap : Int, tainted : BOOLEAN,
   ret : Objects \union {NULL, JUNK}, gp : SUBSET Threads, own : SUBSET Objects]

\* What an entry's own pointer can be after it has been unlinked
Pointers == Objects \union {NULL} \union (IF impl = "route_rcu" THEN {JUNK} ELSE {})

\* What a thread at place p has in its registers l: nothing when it is idle, and an entry wherever it
\* is about to look into one.
StandsAt(p, l) ==
  /\ p \in {"idle", "added"} => l = Registers
  /\ p \in {"got", "acquire", "compare", "next", "check", "unlink", "drop", "add", "defer"} => l.cur \in Objects
  /\ p = "found" => l.cur \in Objects \/ (impl \in Hashes /\ l.cur = NULL)
  /\ p = "clear" /\ impl = "route_refcnt" => l.cur \in Objects
  /\ p \in {"deleted", "free"} /\ impl = "route_seqlock" => l.cur \in Objects
  /\ p \in {"deleted", "synchronize", "free", "unlock"} => l.cur \in Objects \union {NULL}
  /\ p \in {"add", "del"} => l.key \in Keys
  /\ p = "begin" /\ impl \in RcuRoutes \union Hashes => l.from = NULL /\ l.cur = NULL /\ l.tainted = FALSE
  /\ p \notin {"clear", "deleted", "synchronize", "free"} \/ impl \notin RcuRoutes => l.own = {}

\* The state of the memory and the locks
Typed ==
  /\ stale \in [Objects -> Pointers]
  /\ mem \in [Objects -> {"free", "live", "removed", "waiting", "callback"}]
  /\ lock \in [Locks -> Threads \union {-1}]
  /\ seq \in Nat
  /\ refcnt \in [Objects -> Int]
  /\ waits \in [Objects -> SUBSET Threads]

\* The state of the threads
Standing ==
  /\ pc \in [Threads -> Places]
  /\ loc \in [Threads -> Locs]
  /\ \A t \in Threads : StandsAt(pc[t], loc[t])

\* What all the programs have in common
Base == Typed /\ Lists /\ Standing

\* The entries that a thread at place p with registers l will give back: those it has unlinked and
\* those it has allocated but not linked yet
Keeps(p, l) ==
  IF \/ p \in {"drop", "clear", "deleted", "synchronize", "free", "add", "defer"}
     \/ p = "unlock" /\ impl \in Hashes
  THEN l.own \union ({l.cur} \ {NULL}) ELSE {}
Held(t) == Keeps(pc[t], loc[t])

\* Every entry is linked, or held by one thread, or given to RCU, or free.
OwnAt(o) ==
  /\ o \in Linked => (mem[o] = "live" \/ (mem[o] = "removed" /\ Fresh)) /\ \A t \in Threads : o \notin Held(t)
  /\ \A t \in Threads : o \in Held(t) => mem[o] \in {"live", "waiting"} /\ \A u \in Threads : o \in Held(u) => u = t
  /\ o \notin Linked /\ (\A t \in Threads : o \notin Held(t)) => mem[o] \in {"free", "callback"}
Own == \A o \in Objects : OwnAt(o)

\* The fields of registers
LEMMA Fields ==
  ASSUME NEW l \in Locs
  PROVE  /\ l.key \in Nat /\ l.from \in Objects \union {NULL} /\ l.cur \in Objects \union {NULL, JUNK} /\ l.snap \in Int
         /\ l.tainted \in BOOLEAN /\ l.ret \in Objects \union {NULL, JUNK} /\ l.gp \in SUBSET Threads /\ l.own \in SUBSET Objects
  BY DEF Locs

\* The registers of an idle thread
LEMMA RegistersIn ==
  /\ Registers \in Locs /\ Registers.key = 0 /\ Registers.from = NULL /\ Registers.cur = NULL /\ Registers.snap = 0
  /\ Registers.tainted = FALSE /\ Registers.ret = NULL /\ Registers.gp = {} /\ Registers.own = {}
  BY DEF Registers, Locs

\* A thread moves, and the others stay where they are.
Moves(t, p, l) ==
  /\ p \in Places /\ l \in Locs /\ StandsAt(p, l)
  /\ pc' = [pc EXCEPT ![t] = p] /\ loc' = [loc EXCEPT ![t] = l]
  /\ UNCHANGED impl

\* What follows from that
LEMMA Moved ==
  ASSUME Standing, NEW t \in Threads, NEW p, NEW l, Moves(t, p, l)
  PROVE  /\ pc'[t] = p /\ loc'[t] = l /\ \A u \in Threads \ {t} : pc'[u] = pc[u] /\ loc'[u] = loc[u]
         /\ Standing'
         /\ \A u \in Threads : Held(u)' = IF u = t THEN Keeps(p, l) ELSE Held(u)
         /\ Places' = Places /\ \A q, m : StandsAt(q, m)' = StandsAt(q, m) /\ Keeps(q, m)' = Keeps(q, m)
<1>1. Places' = Places /\ \A q, m : StandsAt(q, m)' = StandsAt(q, m) /\ Keeps(q, m)' = Keeps(q, m)
  BY DEF Moves, Places, StandsAt, Keeps
<1>2. /\ pc'[t] = p /\ loc'[t] = l /\ \A u \in Threads \ {t} : pc'[u] = pc[u] /\ loc'[u] = loc[u]
      /\ pc' \in [Threads -> Places] /\ loc' \in [Threads -> Locs]
  BY DEF Moves, Standing
<1>3. \A u \in Threads : StandsAt(pc'[u], loc'[u])
  BY <1>2 DEF Moves, Standing
<1>4. \A u \in Threads : StandsAt(pc[u], loc[u])'
  BY <1>3 DEF Moves, StandsAt
<1>5. \A u \in Threads : Held(u)' = Keeps(pc'[u], loc'[u])
  BY DEF Held, Keeps, Moves
<1>6. \A u \in Threads : Held(u)' = IF u = t THEN Keeps(p, l) ELSE Held(u)
  BY <1>2, <1>5 DEF Held
<1> QED BY <1>1, <1>2, <1>4, <1>6 DEF Standing, Locs

\* The memory of the entries outside S is left alone.
LEMMA OwnKept ==
  ASSUME Own, NEW S,
         \A o \in Objects : o \notin S => mem'[o] = mem[o] /\ (o \in Linked' <=> o \in Linked),
         \A o \in Objects : \A u \in Threads : o \notin S => (o \in Held(u)' <=> o \in Held(u)),
         \A o \in Objects : o \in S => OwnAt(o)',
         UNCHANGED impl
  PROVE  Own'
<1>1. Fresh' = Fresh
  BY DEF Fresh
<1>2. ASSUME NEW o \in Objects, o \notin S PROVE OwnAt(o)'
  BY <1>1, <1>2 DEF Own, OwnAt
<1> QED BY <1>2 DEF Own

-----------------------------------------------------------------------------
\* The steps that the lookups of all the programs have in common

\* A step that leaves the tables and the memory alone
Quiet == UNCHANGED <<list, stale, akey, mem, impl>>

\* Such a step keeps what the programs have in common, and every entry where it is if the thread does
\* not come to hold or to drop one.
LEMMA QuietKeeps ==
  ASSUME Base, NEW t \in Threads, NEW p, NEW l, Moves(t, p, l), Quiet,
         lock' \in [Locks -> Threads \union {-1}], seq' \in Nat, refcnt' \in [Objects -> Int], waits' \in [Objects -> SUBSET Threads]
  PROVE  /\ Base' /\ Linked' = Linked /\ \A b : In(b)' = In(b) /\ \A k : Bucket(k)' = Bucket(k)
         /\ Own /\ Keeps(p, l) = Held(t) => Own'
<1>1. Lists' /\ Linked' = Linked /\ (\A b : In(b)' = In(b)) /\ \A k : Bucket(k)' = Bucket(k)
  BY ListsKept DEF Quiet, Base
<1>2. Pointers' = Pointers
  BY DEF Pointers, Quiet
<1>3. Typed'
  BY <1>2 DEF Quiet, Base, Typed
<1>4. Base'
  BY <1>1, <1>3, Moved DEF Base
<1>5. ASSUME Own, Keeps(p, l) = Held(t) PROVE Own'
  <2>1. \A u \in Threads : Held(u)' = Held(u)
    BY <1>5, Moved DEF Base
  <2> DEFINE S == {}
  <2>2. /\ \A o \in Objects : o \notin S => mem'[o] = mem[o] /\ (o \in Linked' <=> o \in Linked)
        /\ \A o \in Objects : \A u \in Threads : o \notin S => (o \in Held(u)' <=> o \in Held(u))
        /\ \A o \in Objects : o \in S => OwnAt(o)'
        /\ UNCHANGED impl
    BY <1>1, <2>1 DEF Quiet
  <2> HIDE DEF S
  <2> QED BY <1>5, <2>2, OwnKept
<1> QED BY <1>1, <1>4, <1>5

\* A lookup is called.
LEMMA LookupCalls ==
  ASSUME Base, NEW t \in Threads, NEW k \in Keys, LookupCall(t, k), "begin" \in Places
  PROVE  \E l : /\ Moves(t, "begin", l) /\ l.key = k /\ l.own = {} /\ l.gp = {}  /\ l.tainted = FALSE /\ l.from = NULL /\ l.cur = NULL
                /\ pc[t] = "idle" /\ loc[t] = Registers /\ Held(t) = {}
<1> DEFINE l == [Registers EXCEPT !.key = k]
<1>1. l \in Locs /\ l.key = k /\ l.own = {} /\ l.gp = {} /\ l.tainted = FALSE /\ l.from = NULL /\ l.cur = NULL
  BY RegistersIn, Setting DEF Registers, Locs
<1>2. loc' = [loc EXCEPT ![t] = l] /\ pc' = [pc EXCEPT ![t] = "begin"] /\ UNCHANGED impl /\ pc[t] = "idle"
  BY DEF LookupCall, Goto
<1> HIDE DEF l
<1>3. StandsAt("begin", l)
  BY <1>1 DEF StandsAt
<1>4. loc[t] = Registers /\ Held(t) = {}
  BY <1>2 DEF Base, Standing, StandsAt, Held, Keeps
<1> QED BY <1>1, <1>2, <1>3, <1>4 DEF Moves

\* A lookup loads a pointer.
LEMMA Loads ==
  ASSUME Base, NEW t \in Threads, NEW got \in {"got", "compare"}, NEW end \in {"return", "retry", "end", "found"},
         got \in Places, end \in Places, end = "found" => impl \in Hashes, impl # "route_rcu" \/ "lost" \in Places,
         Load(t, got, end)
  PROVE  LET tmp == Deref(Bucket(loc[t].key), loc[t].from)
             p == IF tmp = NULL THEN end ELSE IF tmp = JUNK THEN "lost" ELSE got
         IN  /\ pc[t] = "load" /\ tmp \in Objects \union {NULL, JUNK} /\ (tmp = JUNK => impl = "route_rcu")
             /\ Bucket(loc[t].key) \in Buckets
             /\ loc[t].from \in Objects \union {NULL} /\ loc[t].own = {}
             /\ \E l : /\ Moves(t, p, l)
                       /\ l.key = loc[t].key /\ l.from = loc[t].from /\ l.cur = tmp /\ l.ret = NULL /\ l.snap = loc[t].snap
                       /\ l.gp = loc[t].gp /\ l.own = {}
                       /\ l.tainted <=> \/ loc[t].tainted
                                        \/ loc[t].from # NULL /\ mem[loc[t].from] = "free"
                                        \/ impl = "route_rcu" /\ \E u \in Threads : loc[t].from \in loc[u].own
<1> DEFINE b == Bucket(loc[t].key)
           tmp == Deref(b, loc[t].from)
           p == IF tmp = NULL THEN end ELSE IF tmp = JUNK THEN "lost" ELSE got
           taint == \/ loc[t].tainted
                    \/ loc[t].from # NULL /\ mem[loc[t].from] = "free"
                    \/ impl = "route_rcu" /\ \E u \in Threads : loc[t].from \in loc[u].own
           l == [loc[t] EXCEPT !.cur = tmp, !.ret = NULL, !.tainted = taint]
<1>1. loc[t] \in Locs /\ StandsAt(pc[t], loc[t]) /\ pc[t] = "load"
  BY DEF Base, Standing, Load
<1>2. loc[t].key \in Nat /\ loc[t].from \in Objects \union {NULL} /\ loc[t].own = {}
  BY <1>1, Fields DEF StandsAt
<1>3. b \in Buckets
  BY <1>2, KeyBucket
<1>4. tmp \in Objects \union {NULL, JUNK} /\ (tmp = JUNK => impl = "route_rcu")
  <2>1. tmp \in In(b) \union {NULL} \/ (loc[t].from \in Objects /\ tmp = stale[loc[t].from])
    BY <1>2, <1>3, DerefIn DEF Base
  <2>2. In(b) \subseteq Objects
    BY <1>3, ListOf DEF Base
  <2> QED BY <2>1, <2>2, Setting DEF Base, Typed, Pointers
<1>5. loc' = [loc EXCEPT ![t] = l] /\ pc' = [pc EXCEPT ![t] = p] /\ UNCHANGED impl
  <2>1. pc' = [pc EXCEPT ![t] = p] /\ UNCHANGED impl
    BY Setting DEF Load
  <2>2. taint = (loc[t].tainted \/ (loc[t].from # NULL /\ mem[loc[t].from] = "free")
                   \/ (impl = "route_rcu" /\ \E u \in Threads : loc[t].from \in loc[u].own))
    OBVIOUS
  <2>3. loc' = [loc EXCEPT ![t] = l]
    BY <1>1 DEF Load
  <2> QED BY <2>1, <2>3
<1> HIDE DEF tmp, taint
<1>6. /\ l \in Locs
      /\ l.key = loc[t].key /\ l.from = loc[t].from /\ l.cur = tmp /\ l.ret = NULL /\ l.snap = loc[t].snap
      /\ l.gp = loc[t].gp /\ l.own = {} /\ l.tainted = taint
  <2>1. taint \in BOOLEAN
    BY <1>1, Fields DEF taint
  <2> QED BY <1>1, <1>2, <1>4, <2>1 DEF Locs
<1> HIDE DEF l
<1>7. p \in Places
  BY <1>4
<1>8. StandsAt(p, l)
  BY <1>4, <1>6 DEF StandsAt
<1>9. Moves(t, p, l)
  BY <1>5, <1>6, <1>7, <1>8 DEF Moves
<1> QED BY <1>1, <1>2, <1>3, <1>4, <1>6, <1>9 DEF tmp, taint, p, b

\* A lookup compares the key of the entry it is at.
LEMMA Compares ==
  ASSUME Base, NEW t \in Threads, NEW found \in {"found"}, NEW next \in {"next", "load"}, found \in Places, next \in Places,
         Compare(t, found, next)
  PROVE  LET hit == akey[loc[t].cur] = loc[t].key
             p == IF hit THEN found ELSE next
         IN  /\ pc[t] = "compare" /\ loc[t].cur \in Objects /\ loc[t].own = {}
             /\ \E l : /\ Moves(t, p, l)
                       /\ l.key = loc[t].key /\ l.from = (IF hit THEN loc[t].from ELSE loc[t].cur) /\ l.cur = loc[t].cur
                       /\ l.ret = (IF hit THEN loc[t].cur ELSE NULL) /\ l.snap = loc[t].snap /\ l.gp = loc[t].gp /\ l.own = {}
                       /\ l.tainted <=> loc[t].tainted \/ mem[loc[t].cur] = "free"
<1> DEFINE hit == akey[loc[t].cur] = loc[t].key
           p == IF hit THEN found ELSE next
           from == IF hit THEN loc[t].from ELSE loc[t].cur
           ret == IF hit THEN loc[t].cur ELSE NULL
           taint == loc[t].tainted \/ mem[loc[t].cur] = "free"
           l == [loc[t] EXCEPT !.from = from, !.ret = ret, !.tainted = taint]
<1>1. loc[t] \in Locs /\ StandsAt(pc[t], loc[t]) /\ pc[t] = "compare"
  BY DEF Base, Standing, Compare, Goto
<1>2. loc[t].cur \in Objects /\ loc[t].own = {} /\ loc[t].from \in Objects \union {NULL}
  BY <1>1, Fields DEF StandsAt
<1>5. loc' = [loc EXCEPT ![t] = l] /\ pc' = [pc EXCEPT ![t] = p] /\ UNCHANGED impl
  <2>1. pc' = [pc EXCEPT ![t] = p] /\ UNCHANGED impl
    BY DEF Compare, Goto
  <2>2. loc' = [loc EXCEPT ![t].from = IF hit THEN @ ELSE loc[t].cur, ![t].ret = ret, ![t].tainted = @ \/ mem[loc[t].cur] = "free"]
    BY DEF Compare
  <2>3. loc' = [loc EXCEPT ![t] = l]
    BY <1>1, <2>2
  <2> QED BY <2>1, <2>3
<1>6. from \in Objects \union {NULL} /\ ret \in Objects \union {NULL} /\ taint \in BOOLEAN /\ p \in {found, next}
  BY <1>1, <1>2, Fields
<1> HIDE DEF from, ret, taint, p
<1>7. /\ l \in Locs
      /\ l.key = loc[t].key /\ l.from = from /\ l.cur = loc[t].cur /\ l.ret = ret /\ l.snap = loc[t].snap
      /\ l.gp = loc[t].gp /\ l.own = {} /\ l.tainted = taint
  BY <1>1, <1>2, <1>6 DEF Locs
<1> HIDE DEF l
<1>8. p \in Places /\ StandsAt(p, l)
  BY <1>2, <1>6, <1>7 DEF StandsAt
<1>9. Moves(t, p, l)
  BY <1>5, <1>7, <1>8 DEF Moves
<1> QED BY <1>1, <1>2, <1>7, <1>9 DEF from, ret, taint, p

\* A lookup has returned, or anything else is over.
LEMMA Rests ==
  ASSUME Base, NEW t \in Threads, "idle" \in Places, loc' = [loc EXCEPT ![t] = Registers], pc' = [pc EXCEPT ![t] = "idle"], UNCHANGED impl
  PROVE  Moves(t, "idle", Registers) /\ Keeps("idle", Registers) = {}
<1>1. StandsAt("idle", Registers) /\ Keeps("idle", Registers) = {}
  BY RegistersIn DEF StandsAt, Keeps
<1> QED BY <1>1, RegistersIn DEF Moves

\* A step that moves t but leaves its registers alone
LEMMA Steps ==
  ASSUME Base, NEW t \in Threads, NEW p \in Places, pc' = [pc EXCEPT ![t] = p], UNCHANGED <<loc, impl>>,
         StandsAt(p, loc[t])
  PROVE  Moves(t, p, loc[t])
  BY DEF Moves, Base, Standing

\* A step that moves no thread
LEMMA Stays ==
  ASSUME Base, NEW t \in Threads, UNCHANGED <<pc, loc, impl>>
  PROVE  Moves(t, pc[t], loc[t]) /\ Keeps(pc[t], loc[t]) = Held(t)
  BY DEF Moves, Base, Standing, Held

-----------------------------------------------------------------------------
\* Who has an entry, read off its state
LEMMA Owner ==
  ASSUME Base, Own, NEW o \in Objects
  PROVE  /\ mem[o] \in {"free", "callback"} => o \notin Linked /\ \A u \in Threads : o \notin Held(u)
         /\ o \in Linked => mem[o] \in {"live", "removed"} /\ \A u \in Threads : o \notin Held(u)
         /\ \A t \in Threads : o \in Held(t) => /\ o \notin Linked /\ mem[o] \in {"live", "waiting"}
                                               /\ \A u \in Threads \ {t} : o \notin Held(u)
<1>1. OwnAt(o)
  BY DEF Own
<1>2. o \in Linked => mem[o] \in {"live", "removed"} /\ \A u \in Threads : o \notin Held(u)
  BY <1>1 DEF OwnAt
<1>3. ASSUME NEW t \in Threads, o \in Held(t) PROVE mem[o] \in {"live", "waiting"} /\ \A u \in Threads \ {t} : o \notin Held(u)
  BY <1>1, <1>3 DEF OwnAt
<1>4. ASSUME NEW t \in Threads, o \in Held(t) PROVE o \notin Linked
  BY <1>2, <1>4
<1> QED BY <1>2, <1>3, <1>4

\* The entries of a set S change hands in a step of t; what becomes of them is the same for all.
LEMMA OwnMoves ==
  ASSUME Base, Own, NEW t \in Threads, NEW p, NEW l, Moves(t, p, l), NEW S \in SUBSET Objects,
         \A x \in Objects \ S : mem'[x] = mem[x] /\ (x \in Linked' <=> x \in Linked) /\ (x \in Keeps(p, l) <=> x \in Held(t)),
         \A x \in S : \A u \in Threads \ {t} : x \notin Held(u),
         \/ \A x \in S : x \in Linked' /\ x \notin Keeps(p, l) /\ (mem'[x] = "live" \/ (mem'[x] = "removed" /\ Fresh))
         \/ \A x \in S : x \notin Linked' /\ x \in Keeps(p, l) /\ mem'[x] \in {"live", "waiting"}
         \/ \A x \in S : x \notin Linked' /\ x \notin Keeps(p, l) /\ mem'[x] \in {"free", "callback"}
  PROVE  Own'
<1>1. \A u \in Threads : Held(u)' = IF u = t THEN Keeps(p, l) ELSE Held(u)
  BY Moved DEF Base
<1>2. \A o \in Objects : \A u \in Threads : o \notin S => (o \in Held(u)' <=> o \in Held(u))
  BY <1>1
<1>3. UNCHANGED impl /\ Fresh' = Fresh
  BY DEF Moves, Fresh
<1>4. ASSUME NEW x \in S PROVE OwnAt(x)'
  <2>1. \A u \in Threads : x \in Held(u)' <=> (u = t /\ x \in Keeps(p, l))
    BY <1>1
  <2>2. CASE x \in Linked' /\ x \notin Keeps(p, l) /\ (mem'[x] = "live" \/ (mem'[x] = "removed" /\ Fresh))
    BY <1>3, <2>1, <2>2 DEF OwnAt
  <2>3. CASE x \notin Linked' /\ x \in Keeps(p, l) /\ mem'[x] \in {"live", "waiting"}
    BY <1>3, <2>1, <2>3 DEF OwnAt
  <2>4. CASE x \notin Linked' /\ x \notin Keeps(p, l) /\ mem'[x] \in {"free", "callback"}
    BY <1>3, <2>1, <2>4 DEF OwnAt
  <2> QED BY <2>2, <2>3, <2>4
<1> QED BY <1>2, <1>3, <1>4, OwnKept

\* An entry is allocated and linked.
LEMMA AddKeeps ==
  ASSUME Base, Own, impl \notin Hashes, NEW t \in Threads, NEW p, NEW l, Moves(t, p, l), Keeps(p, l) = Held(t),
         NEW o \in Objects, mem[o] = "free", mem' = [mem EXCEPT ![o] = "live"], NEW k \in Keys, Link(0, o, k),
         lock' \in [Locks -> Threads \union {-1}], seq' \in Nat, UNCHANGED <<refcnt, waits>>
  PROVE  /\ Base' /\ Own' /\ In(0)' = In(0) \union {o} /\ o \notin Linked /\ \A u \in Threads : o \notin Held(u)
         /\ akey'[o] = k /\ \A x \in Objects \ {o} : akey'[x] = akey[x] /\ stale'[x] = stale[x] /\ mem'[x] = mem[x]
<1>1. o \notin Linked /\ \A u \in Threads : o \notin Held(u)
  BY Owner
<1>2. 0 \in Buckets /\ Bucket(k) = 0 /\ UNCHANGED impl
  BY Setting, OneList DEF Base, Moves
<1>3. /\ Lists' /\ In(0)' = In(0) \union {o} /\ Linked' = Linked \union {o}
      /\ akey'[o] = k /\ \A x \in Objects \ {o} : akey'[x] = akey[x] /\ stale'[x] = stale[x]
  BY <1>1, <1>2, LinkKeeps DEF Base
<1>4. Typed'
  <2>1. stale' \in [Objects -> Pointers] /\ Pointers' = Pointers
    BY <1>2 DEF Base, Typed, Link, Pointers
  <2>2. mem' \in [Objects -> {"free", "live", "removed", "waiting", "callback"}]
    BY DEF Base, Typed
  <2> QED BY <2>1, <2>2 DEF Base, Typed
<1>5. Base'
  BY <1>3, <1>4, Moved DEF Base
<1>6. Own'
  <2> DEFINE S == {o}
  <2>1. /\ S \in SUBSET Objects
        /\ \A x \in Objects \ S : mem'[x] = mem[x] /\ (x \in Linked' <=> x \in Linked) /\ (x \in Keeps(p, l) <=> x \in Held(t))
        /\ \A x \in S : \A u \in Threads \ {t} : x \notin Held(u)
        /\ \A x \in S : x \in Linked' /\ x \notin Keeps(p, l) /\ mem'[x] = "live"
    BY <1>1, <1>3 DEF Base, Typed
  <2> HIDE DEF S
  <2> QED BY <2>1, OwnMoves
<1> QED BY <1>1, <1>3, <1>5, <1>6 DEF Base, Typed

\* The entries of a set are unlinked, or what has been unlinked is given back: the rest is as before.
LEMMA ShrinkKeeps ==
  ASSUME Base, Own, NEW t \in Threads, NEW p, NEW l, Moves(t, p, l), Lists', NEW S \in SUBSET Objects,
         stale' \in [Objects -> Pointers], mem' \in [Objects -> {"free", "live", "removed", "waiting", "callback"}],
         lock' \in [Locks -> Threads \union {-1}], seq' \in Nat, refcnt' \in [Objects -> Int], waits' \in [Objects -> SUBSET Threads],
         Linked' = Linked \ S, \A x \in Objects \ S : mem'[x] = mem[x],
         S \subseteq Linked \/ S \subseteq Held(t) \/ \A x \in S : mem[x] \in {"free", "callback"},
         \/ Keeps(p, l) \ S = Held(t) \ S /\ S \subseteq Keeps(p, l) /\ \A x \in S : mem'[x] \in {"live", "waiting"}
         \/ Keeps(p, l) = Held(t) \ S /\ \A x \in S : mem'[x] \in {"free", "callback"}
  PROVE  Base' /\ Own'
<1>1. \A x \in S : \A u \in Threads \ {t} : x \notin Held(u)
  <2>1. ASSUME NEW x \in S, NEW u \in Threads \ {t} PROVE x \notin Held(u)
    <3>1. x \in Linked \/ x \in Held(t) \/ mem[x] \in {"free", "callback"}
      OBVIOUS
    <3> QED BY <3>1, Owner
  <2> QED BY <2>1
<1>2. Own'
  BY <1>1, OwnMoves
<1>3. Pointers' = Pointers
  BY DEF Pointers, Moves
<1>4. Base'
  BY <1>3, Moved DEF Base, Typed
<1> QED BY <1>2, <1>4

\* What clearing a table at once makes of the pointers
LEMMA CutPointers ==
  ASSUME Base, impl \notin Hashes, stale' = [o \in Objects |-> IF o \in Linked THEN Successor(0, o) ELSE stale[o]]
  PROVE  /\ stale' \in [Objects -> Pointers]
         /\ \A o \in In(0) : stale'[o] = Successor(0, o) /\ stale'[o] \in In(0) \union {NULL}
         /\ \A o \in Objects \ In(0) : stale'[o] = stale[o]
<1>1. Linked = In(0) /\ In(0) \subseteq Objects /\ \A o \in In(0) : Successor(0, o) \in In(0) \union {NULL}
  BY OneList, OneBucket, SuccessorIn, Setting DEF Base
<1>2. \A o \in Objects : stale[o] \in Pointers
  BY DEF Base, Typed
<1>3. In(0) \union {NULL} \subseteq Pointers
  BY <1>1 DEF Pointers
<1> QED BY <1>1, <1>2, <1>3

\* The first entry for a key of a routing table is unlinked.
LEMMA UnlinkFirst ==
  ASSUME Base, impl \notin Hashes, NEW k, First(0, k) # NULL, Unlink(0, First(0, k)), UNCHANGED impl
  PROVE  LET o == First(0, k)
         IN  /\ o \in Objects /\ o \in In(0) /\ o \in Linked /\ Lists' /\ In(0)' = In(0) \ {o} /\ Linked' = Linked \ {o}
             /\ akey' = akey /\ akey[o] = k /\ stale'[o] \in (In(0) \ {o}) \union {NULL} /\ \A x \in Objects \ {o} : stale'[x] = stale[x]
             /\ stale' \in [Objects -> Pointers]
<1> DEFINE o == First(0, k)
<1>1. 0 \in Buckets /\ Linked = In(0) /\ Linked \subseteq Objects
  BY Setting, OneList, OneBucket DEF Base
<1>2. o \in In(0) /\ akey[o] = k
  BY <1>1, FirstIn DEF Base
<1>3. stale \in [Objects -> Objects \union {NULL, JUNK}]
  BY DEF Base, Typed, Pointers
<1> HIDE DEF o
<1>4. Unlink(0, o)
  BY DEF o
<1>5. /\ Lists' /\ In(0)' = In(0) \ {o} /\ Linked' = Linked \ {o}
      /\ akey' = akey /\ stale'[o] \in (In(0) \ {o}) \union {NULL} /\ \A x \in Objects \ {o} : stale'[x] = stale[x]
      /\ stale' \in [Objects -> Objects \union {NULL, JUNK}]
  BY <1>1, <1>2, <1>3, <1>4, UnlinkKeeps DEF Base
<1>6. stale' \in [Objects -> Pointers]
  <2>1. \A x \in Objects : stale'[x] \in Pointers
    BY <1>1, <1>5 DEF Base, Typed, Pointers
  <2>2. stale' = [x \in Objects |-> stale'[x]]
    BY <1>5
  <2> QED BY <2>1, <2>2
<1> QED BY <1>1, <1>2, <1>5, <1>6 DEF o

\* free() of a set of entries
LEMMA FreeTyped ==
  ASSUME Base, NEW S, Free(S)
  PROVE  /\ mem' \in [Objects -> {"free", "live", "removed", "waiting", "callback"}]
         /\ \A x \in Objects : mem'[x] = IF x \in S THEN "free" ELSE mem[x]
  BY DEF Base, Typed, Free

\* route_seq.c keeps what the programs have in common, and every entry somewhere.
LEMMA SeqKeeps ==
  ASSUME Base, Own, NEW t \in Threads, SeqStep(t)
  PROVE  Base' /\ Own'
<1>1. /\ impl = "route_seq" /\ impl \notin Hashes /\ Places = {"idle", "return"}
      /\ lock \in [Locks -> Threads \union {-1}] /\ seq \in Nat /\ refcnt \in [Objects -> Int] /\ waits \in [Objects -> SUBSET Threads]
  <2>1. impl = "route_seq"
    BY DEF SeqStep
  <2>2. Places = {"idle", "return"} /\ impl \notin Hashes
    BY <2>1 DEF Places, RcuRoutes, Hashes
  <2> QED BY <2>1, <2>2 DEF Base, Typed
<1>2. \A u \in Threads : Held(u) = {}
  BY <1>1 DEF Base, Standing, Held, Keeps
<1>3. 0 \in Buckets /\ Linked = In(0) /\ Linked \subseteq Objects
  BY <1>1, Setting, OneList, OneBucket DEF Base
<1>4. CASE \E k \in Keys : seq_route_lookup(t, k)
  <2>1. PICK k \in Keys : seq_route_lookup(t, k)
    BY <1>4
  <2> DEFINE l == [Registers EXCEPT !.key = k, !.ret = First(0, k)]
  <2>2. First(0, k) \in Objects \union {NULL}
    BY <1>3, FirstIn DEF Base
  <2>3. l \in Locs /\ l.own = {}
    BY <2>2, RegistersIn, Setting DEF Registers, Locs
  <2>4. loc' = [loc EXCEPT ![t] = l] /\ pc' = [pc EXCEPT ![t] = "return"] /\ Quiet /\ UNCHANGED <<lock, seq, refcnt, waits>>
    BY <2>1 DEF seq_route_lookup, Goto, Idle, tableVars, Quiet
  <2> HIDE DEF l
  <2>5. StandsAt("return", l) /\ Keeps("return", l) = {}
    BY <2>3 DEF StandsAt, Keeps
  <2>6. Moves(t, "return", l)
    BY <1>1, <2>3, <2>4, <2>5 DEF Moves, Quiet
  <2> QED BY <1>1, <1>2, <2>4, <2>5, <2>6, QuietKeeps
<1>5. ASSUME NEW k \in Keys, seq_route_add(k) PROVE Base' /\ Own'
  <2>1. PICK o \in Objects : mem[o] = "free" /\ mem' = [mem EXCEPT ![o] = "live"] /\ Link(0, o, k)
    BY <1>5 DEF seq_route_add
  <2>2. UNCHANGED <<pc, loc, impl, lock, seq, refcnt, waits>>
    BY <1>5 DEF seq_route_add, Idle
  <2> QED BY <1>1, <2>1, <2>2, Stays, AddKeeps
<1>6. ASSUME NEW k \in Keys, seq_route_del(k) PROVE Base' /\ Own'
  <2> DEFINE o == First(0, k)
  <2>1. UNCHANGED <<pc, loc, impl, lock, seq, refcnt, waits>>
    BY <1>6 DEF seq_route_del, Idle
  <2>2. First(0, k) # NULL /\ Unlink(0, First(0, k)) /\ Free({First(0, k)})
    BY <1>6 DEF seq_route_del
  <2>3. o \in Objects /\ o \in Linked /\ Lists' /\ Linked' = Linked \ {o} /\ stale' \in [Objects -> Pointers]
    BY <1>1, <2>1, <2>2, UnlinkFirst
  <2>4. Free({o})
    BY <2>2
  <2> HIDE DEF o
  <2>5. /\ mem' \in [Objects -> {"free", "live", "removed", "waiting", "callback"}]
        /\ \A x \in Objects : mem'[x] = IF x \in {o} THEN "free" ELSE mem[x]
    BY <2>4, FreeTyped
  <2>6. Moves(t, pc[t], loc[t]) /\ Keeps(pc[t], loc[t]) = Held(t)
    BY <2>1, Stays
  <2> DEFINE S == {o}
  <2>7. /\ S \in SUBSET Objects /\ S \subseteq Linked /\ Keeps(pc[t], loc[t]) = Held(t) \ S /\ Linked' = Linked \ S
        /\ \A x \in Objects : mem'[x] = IF x \in S THEN "free" ELSE mem[x]
    BY <1>2, <2>3, <2>5, <2>6
  <2> HIDE DEF S
  <2> QED BY <1>1, <2>1, <2>3, <2>5, <2>6, <2>7, ShrinkKeeps
<1>7. CASE seq_route_clear
  <2>1. UNCHANGED <<pc, loc, impl, lock, seq, refcnt, waits, akey, stale>> /\ Free(Linked) /\ list' = [list EXCEPT ![0] = <<>>]
    BY <1>7 DEF seq_route_clear, Idle
  <2>2. Lists' /\ Linked' = {}
    BY <1>1, <2>1, ClearKeeps DEF Base
  <2>5. /\ mem' \in [Objects -> {"free", "live", "removed", "waiting", "callback"}]
        /\ \A x \in Objects : mem'[x] = IF x \in Linked THEN "free" ELSE mem[x]
    BY <2>1, FreeTyped
  <2>6. Moves(t, pc[t], loc[t]) /\ Keeps(pc[t], loc[t]) = Held(t)
    BY <2>1, Stays
  <2>7. Linked \in SUBSET Objects /\ Keeps(pc[t], loc[t]) = Held(t) \ Linked /\ Linked' = Linked \ Linked
    BY <1>2, <1>3, <2>2, <2>6
  <2>8. stale' \in [Objects -> Pointers]
    BY <2>1 DEF Base, Typed
  <2> QED BY <1>1, <2>1, <2>2, <2>5, <2>6, <2>7, <2>8, ShrinkKeeps
<1>8. CASE Return(t)
  <2>1. loc' = [loc EXCEPT ![t] = Registers] /\ pc' = [pc EXCEPT ![t] = "idle"] /\ Quiet /\ UNCHANGED <<lock, seq, refcnt, waits>>
    BY <1>8 DEF Return, Goto, tableVars, Quiet
  <2>2. Moves(t, "idle", Registers) /\ Keeps("idle", Registers) = {}
    BY <1>1, <2>1, Rests DEF Quiet
  <2> QED BY <1>1, <1>2, <2>1, <2>2, QuietKeeps
<1> QED BY <1>4, <1>5, <1>6, <1>7, <1>8 DEF SeqStep

\* A lookup returns.
LEMMA Returns ==
  ASSUME Base, Own, NEW t \in Threads, "idle" \in Places, Return(t)
  PROVE  Base' /\ Own' /\ Quiet /\ Moves(t, "idle", Registers) /\ pc[t] = "return" /\ UNCHANGED <<lock, seq, refcnt, nesting, waits>>
<1>1. /\ loc' = [loc EXCEPT ![t] = Registers] /\ pc' = [pc EXCEPT ![t] = "idle"] /\ Quiet /\ pc[t] = "return"
      /\ UNCHANGED <<lock, seq, refcnt, nesting, waits>>
  BY DEF Return, Goto, tableVars, Quiet
<1>2. Moves(t, "idle", Registers) /\ Keeps("idle", Registers) = {}
  BY <1>1, Rests DEF Quiet
<1>3. Held(t) = {}
  BY <1>1 DEF Held, Keeps
<1> QED BY <1>1, <1>2, <1>3, QuietKeeps DEF Base, Typed

\* A lock is taken and released.
LEMMA LockTyped ==
  ASSUME Base, NEW t \in Threads, NEW b \in Locks
  PROVE  /\ Acquire(t, b) => lock[b] = -1 /\ lock' = [lock EXCEPT ![b] = t] /\ lock' \in [Locks -> Threads \union {-1}]
         /\ Release(t, b) => lock' = [lock EXCEPT ![b] = -1] /\ lock' \in [Locks -> Threads \union {-1}]
  BY DEF Base, Typed, Acquire, Release

\* A lookup of route_seqlock.c
LEMMA SeqlockLookupKeeps ==
  ASSUME Base, Own, NEW t \in Threads, impl = "route_seqlock", seqlock_route_lookup(t)
  PROVE  Base' /\ Own'
<1>1. /\ Places = {"idle", "begin", "load", "compare", "found", "retry", "return", "aborted", "added", "deleted", "free"}
      /\ impl \notin Hashes
  BY DEF Places, RcuRoutes, Hashes
<1>2. lock \in [Locks -> Threads \union {-1}] /\ seq \in Nat /\ refcnt \in [Objects -> Int] /\ waits \in [Objects -> SUBSET Threads]
  BY DEF Base, Typed
<1>3. CASE Begin(t)
  <2> DEFINE l == [loc[t] EXCEPT !.snap = read_seqbegin, !.from = NULL, !.cur = NULL, !.tainted = FALSE]
  <2>1. loc[t] \in Locs /\ pc[t] = "begin" /\ StandsAt("begin", loc[t])
    BY <1>3 DEF Begin, Goto, Base, Standing
  <2>2. read_seqbegin \in Int
    BY <1>2 DEF read_seqbegin
  <2>3. l \in Locs /\ l.own = {}
    BY <2>1, <2>2 DEF Locs, StandsAt
  <2>4. loc' = [loc EXCEPT ![t] = l] /\ pc' = [pc EXCEPT ![t] = "load"] /\ Quiet /\ UNCHANGED <<lock, seq, refcnt, waits>>
    <3>1. loc' = [loc EXCEPT ![t].snap = read_seqbegin, ![t].from = NULL, ![t].cur = NULL, ![t].tainted = FALSE]
      BY <1>3 DEF Begin
    <3>2. loc' = [loc EXCEPT ![t] = l]
      BY <3>1
    <3> QED BY <1>3, <3>2 DEF Begin, Goto, tableVars, Quiet
  <2> HIDE DEF l
  <2>5. StandsAt("load", l) /\ Keeps("load", l) = {} /\ Held(t) = {}
    BY <2>1, <2>3 DEF StandsAt, Keeps, Held
  <2>6. Moves(t, "load", l)
    BY <1>1, <2>3, <2>4, <2>5 DEF Moves, Quiet
  <2> QED BY <1>2, <2>4, <2>5, <2>6, QuietKeeps
<1>4. CASE Load(t, "compare", "retry")
  <2> DEFINE tmp == Deref(Bucket(loc[t].key), loc[t].from)
             p == IF tmp = NULL THEN "retry" ELSE IF tmp = JUNK THEN "lost" ELSE "compare"
  <2>1. /\ pc[t] = "load" /\ (tmp = JUNK => impl = "route_rcu")
        /\ \E l : Moves(t, p, l) /\ l.own = {}
    BY <1>1, <1>4, Loads
  <2> HIDE DEF tmp
  <2>2. PICK l : Moves(t, p, l) /\ l.own = {}
    BY <2>1
  <2>3. p \in {"retry", "compare"}
    BY <2>1
  <2> HIDE DEF p
  <2>4. Keeps(p, l) = {} /\ Held(t) = {}
    BY <2>1, <2>3 DEF Keeps, Held
  <2>5. Quiet /\ UNCHANGED <<lock, seq, refcnt, waits>>
    BY <1>4 DEF Load, tableVars, Quiet
  <2> QED BY <1>2, <2>2, <2>4, <2>5, QuietKeeps
<1>5. CASE Compare(t, "found", "load")
  <2> DEFINE hit == akey[loc[t].cur] = loc[t].key
             p == IF hit THEN "found" ELSE "load"
  <2>1. /\ pc[t] = "compare"
        /\ \E l : Moves(t, p, l) /\ l.own = {}
    BY <1>1, <1>5, Compares
  <2>2. PICK l : Moves(t, p, l) /\ l.own = {}
    BY <2>1
  <2>3. p \in {"found", "load"}
    OBVIOUS
  <2> HIDE DEF p
  <2>4. Keeps(p, l) = {} /\ Held(t) = {}
    BY <2>1, <2>3 DEF Keeps, Held
  <2>5. Quiet /\ UNCHANGED <<lock, seq, refcnt, waits>>
    BY <1>5 DEF Compare, tableVars, Quiet
  <2> QED BY <1>2, <2>2, <2>4, <2>5, QuietKeeps
<1>6. CASE SeqlockCheckFreed(t)
  <2>0. PICK p \in {"aborted", "retry"} : Goto(t, "found", p)
    BY <1>6 DEF SeqlockCheckFreed
  <2> DEFINE taint == loc[t].tainted \/ mem[loc[t].cur] = "free"
             l == [loc[t] EXCEPT !.tainted = taint]
  <2>1. loc[t] \in Locs /\ pc[t] = "found" /\ StandsAt("found", loc[t])
    BY <2>0 DEF Goto, Base, Standing
  <2>2. taint \in BOOLEAN
    BY <2>1, Fields
  <2>4. loc' = [loc EXCEPT ![t] = l] /\ pc' = [pc EXCEPT ![t] = p] /\ Quiet /\ UNCHANGED <<lock, seq, refcnt, waits>>
    <3>1. loc' = [loc EXCEPT ![t].tainted = @ \/ mem[loc[t].cur] = "free"]
      BY <1>6 DEF SeqlockCheckFreed
    <3>2. loc' = [loc EXCEPT ![t] = l]
      BY <2>1, <3>1
    <3> QED BY <1>6, <2>0, <3>2 DEF SeqlockCheckFreed, Goto, tableVars, Quiet
  <2> HIDE DEF taint
  <2>3. l \in Locs /\ l.own = {}
    BY <2>1, <2>2 DEF Locs, StandsAt
  <2> HIDE DEF l
  <2>5. StandsAt(p, l) /\ Keeps(p, l) = {} /\ Held(t) = {}
    BY <2>1, <2>3 DEF StandsAt, Keeps, Held
  <2>6. Moves(t, p, l)
    BY <1>1, <2>3, <2>4, <2>5 DEF Moves, Quiet
  <2> QED BY <1>2, <2>4, <2>5, <2>6, QuietKeeps
<1>7. CASE CheckRetry(t)
  <2>1. PICK p \in {"begin", "return"} : pc[t] = "retry" /\ pc' = [pc EXCEPT ![t] = p]
    BY <1>7 DEF CheckRetry, Goto
  <2>2. Quiet /\ UNCHANGED <<loc, lock, seq, refcnt, waits>>
    BY <1>7 DEF CheckRetry, tableVars, Quiet
  <2>3. StandsAt(p, loc[t]) /\ Keeps(p, loc[t]) = {} /\ Held(t) = {}
    BY <2>1 DEF StandsAt, Keeps, Held, Base, Standing, RcuRoutes, Hashes
  <2>4. Moves(t, p, loc[t])
    BY <1>1, <2>1, <2>2, <2>3, Steps DEF Quiet
  <2> QED BY <1>2, <2>2, <2>3, <2>4, QuietKeeps
<1>8. CASE Return(t)
  BY <1>1, <1>8, Returns
<1> QED BY <1>3, <1>4, <1>5, <1>6, <1>7, <1>8 DEF seqlock_route_lookup

\* route_seqlock.c keeps what the programs have in common, and every entry somewhere.
LEMMA SeqlockKeeps ==
  ASSUME Base, Own, NEW t \in Threads, SeqlockStep(t)
  PROVE  Base' /\ Own'
<1>0. impl = "route_seqlock"
  BY DEF SeqlockStep, SeqlockMine
<1>1. /\ Places = {"idle", "begin", "load", "compare", "found", "retry", "return", "aborted", "added", "deleted", "free"}
      /\ impl \notin Hashes
  BY <1>0 DEF Places, RcuRoutes, Hashes
<1>2. lock \in [Locks -> Threads \union {-1}] /\ seq \in Nat /\ refcnt \in [Objects -> Int] /\ waits \in [Objects -> SUBSET Threads]
  BY DEF Base, Typed
<1>3. 0 \in Buckets /\ 0 \in Locks /\ Linked = In(0) /\ Linked \subseteq Objects
  BY <1>1, Setting, OneList, OneBucket DEF Base
<1>4. ASSUME NEW k \in Keys, LookupCall(t, k) PROVE Base' /\ Own'
  <2>1. PICK l : Moves(t, "begin", l) /\ l.own = {} /\ Held(t) = {}
    BY <1>1, <1>4, LookupCalls
  <2>2. Keeps("begin", l) = Held(t)
    BY <2>1 DEF Keeps
  <2>3. Quiet /\ UNCHANGED <<lock, seq, refcnt, waits>>
    BY <1>4 DEF LookupCall, tableVars, Quiet
  <2> QED BY <1>2, <2>1, <2>2, <2>3, QuietKeeps
<1>5. ASSUME NEW k \in Keys, seqlock_route_add(t, k) PROVE Base' /\ Own'
  <2>1. PICK o \in Objects : mem[o] = "free" /\ mem' = [mem EXCEPT ![o] = "live"] /\ Link(0, o, k)
    BY <1>5 DEF seqlock_route_add
  <2>2. /\ pc[t] = "idle" /\ pc' = [pc EXCEPT ![t] = "added"] /\ UNCHANGED <<loc, impl, refcnt, waits>>
        /\ Acquire(t, 0) /\ seq' = seq + 1
    BY <1>5 DEF seqlock_route_add, Goto, write_seqlock
  <2>3. StandsAt("added", loc[t]) /\ Keeps("added", loc[t]) = {} /\ Held(t) = {}
    BY <2>2, RegistersIn DEF StandsAt, Keeps, Held, Base, Standing
  <2>4. Moves(t, "added", loc[t])
    BY <1>1, <2>2, <2>3, Steps
  <2>5. lock' \in [Locks -> Threads \union {-1}] /\ seq' \in Nat
    BY <1>2, <1>3, <2>2, LockTyped
  <2> QED BY <1>1, <2>1, <2>2, <2>3, <2>4, <2>5, AddKeeps
<1>6. ASSUME NEW k \in Keys, seqlock_route_del(t, k) PROVE Base' /\ Own'
  <2> DEFINE o == First(0, k)
             l == [loc[t] EXCEPT !.cur = o]
  <2>1. /\ pc[t] = "idle" /\ pc' = [pc EXCEPT ![t] = "deleted"] /\ UNCHANGED <<impl, mem, refcnt, waits>>
        /\ Acquire(t, 0) /\ seq' = seq + 1
    BY <1>6 DEF seqlock_route_del, Goto, write_seqlock
  <2>2. First(0, k) # NULL /\ Unlink(0, First(0, k))
    BY <1>6 DEF seqlock_route_del
  <2>3. o \in Objects /\ o \in Linked /\ Lists' /\ Linked' = Linked \ {o} /\ stale' \in [Objects -> Pointers]
    BY <1>1, <2>1, <2>2, UnlinkFirst
  <2>4. loc' = [loc EXCEPT ![t] = l]
    BY <1>6 DEF seqlock_route_del, Base, Standing
  <2>5. lock' \in [Locks -> Threads \union {-1}] /\ seq' \in Nat
    BY <1>2, <1>3, <2>1, LockTyped
  <2> HIDE DEF o
  <2>6. loc[t] = Registers /\ Held(t) = {}
    BY <2>1 DEF Held, Keeps, Base, Standing, StandsAt
  <2>7. l \in Locs /\ l.own = {} /\ l.cur = o
    BY <2>3, <2>6, RegistersIn DEF Locs, Registers
  <2> HIDE DEF l
  <2>8. StandsAt("deleted", l) /\ Keeps("deleted", l) = {o}
    BY <1>0, <2>3, <2>7, Setting DEF StandsAt, Keeps
  <2>9. Moves(t, "deleted", l)
    BY <1>1, <2>1, <2>4, <2>7, <2>8 DEF Moves
  <2> DEFINE S == {o}
  <2>10. /\ S \in SUBSET Objects /\ S \subseteq Linked /\ Linked' = Linked \ S /\ S \subseteq Keeps("deleted", l)
         /\ Keeps("deleted", l) \ S = Held(t) \ S /\ \A x \in S : mem'[x] \in {"live", "waiting"}
    <3>1. mem[o] \in {"live", "removed"} /\ (mem[o] = "removed" => Fresh)
      BY <2>3 DEF Own, OwnAt
    <3>2. ~ Fresh /\ mem' = mem
      BY <1>0, <2>1 DEF Fresh
    <3> QED BY <2>3, <2>6, <2>8, <3>1, <3>2
  <2> HIDE DEF S
  <2>11. mem' \in [Objects -> {"free", "live", "removed", "waiting", "callback"}] /\ \A x \in Objects : mem'[x] = mem[x]
    BY <2>1 DEF Base, Typed
  <2> QED BY <1>2, <2>1, <2>3, <2>5, <2>9, <2>10, <2>11, ShrinkKeeps
<1>7. CASE seqlock_route_lookup(t)
  BY <1>0, <1>7, SeqlockLookupKeeps
<1>8. CASE Unlock(t)
  <2>1. /\ pc[t] \in {"added", "deleted"} /\ pc' = [pc EXCEPT ![t] = IF pc[t] = "added" THEN "idle" ELSE "free"]
        /\ Quiet /\ UNCHANGED <<loc, refcnt, waits>> /\ Release(t, 0) /\ seq' = seq + 1
    BY <1>8 DEF Unlock, write_sequnlock, tableVars, Quiet
  <2>2. PICK p \in {"idle", "free"} : p = IF pc[t] = "added" THEN "idle" ELSE "free"
    OBVIOUS
  <2>3. StandsAt(pc[t], loc[t])
    BY DEF Base, Standing
  <2>4. StandsAt(p, loc[t]) /\ Keeps(p, loc[t]) = Held(t)
    BY <1>0, <2>1, <2>2, <2>3, RegistersIn DEF StandsAt, Keeps, Held
  <2>5. Moves(t, p, loc[t])
    BY <1>1, <2>1, <2>2, <2>4, Steps DEF Quiet
  <2>6. lock' \in [Locks -> Threads \union {-1}] /\ seq' \in Nat
    BY <1>2, <1>3, <2>1, LockTyped
  <2> QED BY <1>2, <2>1, <2>4, <2>5, <2>6, QuietKeeps
<1>9. CASE FreeDeleted(t)
  <2>1. /\ pc[t] = "free" /\ pc' = [pc EXCEPT ![t] = "idle"] /\ loc' = [loc EXCEPT ![t] = Registers] /\ Free({loc[t].cur})
        /\ UNCHANGED <<list, stale, akey, impl, lock, seq, refcnt, waits>>
    BY <1>9 DEF FreeDeleted, Goto, tableVars
  <2> DEFINE S == {loc[t].cur}
  <2>2. Moves(t, "idle", Registers) /\ Keeps("idle", Registers) = {}
    BY <1>1, <2>1, Rests
  <2>3. StandsAt(pc[t], loc[t])
    BY DEF Base, Standing
  <2>4. S \in SUBSET Objects /\ S \subseteq Held(t) /\ Keeps("idle", Registers) = Held(t) \ S
    <3>1. loc[t].cur \in Objects /\ loc[t].cur # NULL
      BY <1>0, <2>1, <2>3, Setting DEF StandsAt
    <3>2. Held(t) \subseteq loc[t].own \union S /\ loc[t].cur \in Held(t)
      BY <2>1, <3>1 DEF Held, Keeps
    <3>3. loc[t].own = {}
      BY <1>0, <2>3 DEF StandsAt, RcuRoutes
    <3> QED BY <2>2, <3>1, <3>2, <3>3
  <2>5. /\ mem' \in [Objects -> {"free", "live", "removed", "waiting", "callback"}]
        /\ \A x \in Objects : mem'[x] = IF x \in S THEN "free" ELSE mem[x]
    BY <2>1, FreeTyped
  <2>6. Lists' /\ Linked' = Linked /\ stale' \in [Objects -> Pointers]
    BY <2>1, ListsKept DEF Base, Typed
  <2>7. Linked' = Linked \ S
    <3>1. \A x \in S : x \notin Linked
      BY <2>4, Owner
    <3> QED BY <2>6, <3>1
  <2> HIDE DEF S
  <2> QED BY <1>2, <2>1, <2>2, <2>4, <2>5, <2>6, <2>7, ShrinkKeeps
<1>10. CASE seqlock_route_clear(t)
  <2>1. /\ pc[t] = "idle" /\ pc' = [pc EXCEPT ![t] = "added"] /\ UNCHANGED <<loc, impl, akey, refcnt, waits>>
        /\ Acquire(t, 0) /\ seq' = seq + 1 /\ Free(Linked) /\ list' = [list EXCEPT ![0] = <<>>]
        /\ stale' = [o \in Objects |-> IF o \in Linked THEN Successor(0, o) ELSE stale[o]]
    BY <1>10 DEF seqlock_route_clear, Goto, write_seqlock
  <2>2. Lists' /\ Linked' = {}
    BY <1>1, <2>1, ClearKeeps DEF Base
  <2>3. StandsAt("added", loc[t]) /\ Keeps("added", loc[t]) = {} /\ Held(t) = {}
    BY <2>1, RegistersIn DEF StandsAt, Keeps, Held, Base, Standing
  <2>4. Moves(t, "added", loc[t])
    BY <1>1, <2>1, <2>3, Steps
  <2>5. /\ mem' \in [Objects -> {"free", "live", "removed", "waiting", "callback"}]
        /\ \A x \in Objects : mem'[x] = IF x \in Linked THEN "free" ELSE mem[x]
    BY <2>1, FreeTyped
  <2>6. stale' \in [Objects -> Pointers]
    BY <1>1, <2>1, CutPointers
  <2>7. lock' \in [Locks -> Threads \union {-1}] /\ seq' \in Nat
    BY <1>2, <1>3, <2>1, LockTyped
  <2>8. Linked \in SUBSET Objects /\ Keeps("added", loc[t]) = Held(t) \ Linked /\ Linked' = Linked \ Linked
    BY <1>3, <2>2, <2>3
  <2>9. UNCHANGED <<refcnt, waits>>
    BY <2>1
  <2> QED BY <1>2, <2>2, <2>4, <2>5, <2>6, <2>7, <2>8, <2>9, ShrinkKeeps
<1> QED BY <1>4, <1>5, <1>6, <1>7, <1>8, <1>9, <1>10 DEF SeqlockStep

-----------------------------------------------------------------------------
\* What the hash tables have in common
HashSetting == impl \in Hashes /\ Base /\ Own

\* Their places, and what the state of their memory is
LEMMA HashPlaces ==
  ASSUME HashSetting
  PROVE  /\ Places = {"idle", "begin", "load", "compare", "found", "return", "add", "del", "unlock", "defer"}
         /\ impl \notin RcuRoutes /\ impl # "route_rcu" /\ ~ Fresh
         /\ lock \in [Locks -> Threads \union {-1}] /\ seq \in Nat /\ refcnt \in [Objects -> Int] /\ waits \in [Objects -> SUBSET Threads]
         /\ \A k : Bucket(k) = HASH2BKT(k)
<1>1. impl \in Hashes
  BY DEF HashSetting
<1>2. impl \notin RcuRoutes /\ impl # "route_rcu" /\ ~ Fresh
  BY <1>1 DEF Hashes, RcuRoutes, Fresh
<1>3. Places = {"idle", "begin", "load", "compare", "found", "return", "add", "del", "unlock", "defer"}
  BY <1>1, <1>2 DEF Hashes, Places
<1> QED BY <1>1, <1>2, <1>3 DEF HashSetting, Base, Typed, Bucket

\* A hash table's lock
LEMMA HashLockTyped ==
  ASSUME HashSetting, NEW t \in Threads, NEW k \in Nat
  PROVE  /\ LockOf(k) \in Locks
         /\ hashtab_lock(t, k) => lock' \in [Locks -> Threads \union {-1}]
         /\ hashtab_unlock(t, k) => lock' \in [Locks -> Threads \union {-1}]
<1>1. LockOf(k) \in Locks
  BY Setting, KeyBucket DEF LockOf
<1> QED BY <1>1, HashPlaces, LockTyped DEF hashtab_lock, hashtab_unlock, HashSetting

\* hashtab_lock_lookup()
LEMMA HashBegins ==
  ASSUME HashSetting, NEW t \in Threads, hashtab_lock_lookup(t)
  PROVE  /\ Base' /\ Own' /\ Quiet /\ Moves(t, "load", loc[t]) /\ pc[t] = "begin" /\ waits' = waits
         /\ loc[t].from = NULL /\ loc[t].cur = NULL /\ loc[t].tainted = FALSE /\ loc[t].key \in Nat
<1>1. /\ pc[t] = "begin" /\ pc' = [pc EXCEPT ![t] = "load"] /\ Quiet /\ UNCHANGED <<loc, seq, refcnt, waits>>
      /\ UNCHANGED lock \/ hashtab_lock(t, loc[t].key)
  BY DEF hashtab_lock_lookup, Goto, tableVars, Quiet
<1>2. loc[t] \in Locs /\ StandsAt("begin", loc[t]) /\ loc[t].key \in Nat
  BY <1>1, Fields DEF HashSetting, Base, Standing
<1>3. lock' \in [Locks -> Threads \union {-1}]
  BY <1>1, <1>2, HashLockTyped, HashPlaces
<1>4. /\ StandsAt("load", loc[t]) /\ Keeps("load", loc[t]) = {} /\ Held(t) = {}
      /\ loc[t].from = NULL /\ loc[t].cur = NULL /\ loc[t].tainted = FALSE
  BY <1>1, <1>2 DEF StandsAt, Keeps, Held, HashSetting
<1>5. Moves(t, "load", loc[t])
  BY <1>1, <1>4, HashPlaces, Steps DEF Quiet, HashSetting
<1> QED BY <1>1, <1>2, <1>3, <1>4, <1>5, HashPlaces, QuietKeeps DEF HashSetting

\* hashtab_unlock_lookup()
LEMMA HashEnds ==
  ASSUME HashSetting, NEW t \in Threads, hashtab_unlock_lookup(t)
  PROVE  /\ Base' /\ Own' /\ Quiet /\ Moves(t, "return", loc[t]) /\ pc[t] = "found"
         /\ waits' = IF Rcu THEN [o \in Objects |-> waits[o] \ {t}] ELSE waits
<1>1. /\ pc[t] = "found" /\ pc' = [pc EXCEPT ![t] = "return"] /\ Quiet /\ UNCHANGED <<loc, seq, refcnt>>
      /\ UNCHANGED lock \/ hashtab_unlock(t, loc[t].key)
      /\ waits' = IF Rcu THEN [o \in Objects |-> waits[o] \ {t}] ELSE waits
  BY DEF hashtab_unlock_lookup, Goto, tableVars, Quiet
<1>2. loc[t] \in Locs /\ StandsAt("found", loc[t]) /\ loc[t].key \in Nat
  BY <1>1, Fields DEF HashSetting, Base, Standing
<1>3. lock' \in [Locks -> Threads \union {-1}]
  BY <1>1, <1>2, HashLockTyped, HashPlaces
<1>4. StandsAt("return", loc[t]) /\ Keeps("return", loc[t]) = {} /\ Held(t) = {}
  BY <1>1, <1>2, HashPlaces DEF StandsAt, Keeps, Held
<1>5. Moves(t, "return", loc[t])
  BY <1>1, <1>4, HashPlaces, Steps DEF Quiet, HashSetting
<1>6. waits' \in [Objects -> SUBSET Threads]
  BY <1>1, HashPlaces
<1> QED BY <1>1, <1>3, <1>4, <1>5, <1>6, HashPlaces, QuietKeeps DEF HashSetting

\* hashtab_lock_mod(), with the element that will be added
LEMMA HashAllocates ==
  ASSUME HashSetting, NEW t \in Threads, NEW k \in Keys, hashtab_lock_mod(t, k)
  PROVE  /\ Base' /\ Own' /\ UNCHANGED <<list, stale, akey, impl, waits, nesting>> /\ pc[t] = "idle" /\ hashtab_lock(t, k)
         /\ Linked' = Linked /\ \A b : In(b)' = In(b)
         /\ \E l : /\ l.key = k /\ l.own = {} /\ l.gp = {}
                   /\ \/ \E o \in Objects : /\ Moves(t, "add", l) /\ l.cur = o /\ mem[o] = "free"
                                            /\ mem' = [mem EXCEPT ![o] = "live"]
                      \/ Moves(t, "del", l) /\ l.cur = NULL /\ mem' = mem
<1>1. UNCHANGED <<list, stale, akey, impl, seq, refcnt, waits, nesting>> /\ hashtab_lock(t, k)
  BY DEF hashtab_lock_mod, tableVars
<1>2. lock' \in [Locks -> Threads \union {-1}]
  BY <1>1, HashLockTyped, Setting
<1>3. Lists' /\ Linked' = Linked /\ \A b : In(b)' = In(b)
  BY <1>1, ListsKept DEF HashSetting, Base
<1>4. pc[t] = "idle"
  BY DEF hashtab_lock_mod, Goto
<1>5. loc[t] = Registers /\ Held(t) = {}
  BY <1>4 DEF HashSetting, Base, Standing, StandsAt, Held, Keeps
<1>6. CASE Goto(t, "idle", "del") /\ loc' = [loc EXCEPT ![t].key = k] /\ UNCHANGED mem
  <2> DEFINE l == [loc[t] EXCEPT !.key = k]
  <2>1. l \in Locs /\ l.key = k /\ l.own = {} /\ l.gp = {} /\ l.cur = NULL
    BY <1>5, RegistersIn, Setting DEF Locs, Registers
  <2>2. loc' = [loc EXCEPT ![t] = l] /\ pc' = [pc EXCEPT ![t] = "del"] /\ mem' = mem
    BY <1>6 DEF Goto
  <2> HIDE DEF l
  <2>3. StandsAt("del", l) /\ Keeps("del", l) = {}
    BY <2>1 DEF StandsAt, Keeps
  <2>4. Moves(t, "del", l)
    BY <1>1, <2>1, <2>2, <2>3, HashPlaces DEF Moves
  <2>5. Base' /\ Own'
    BY <1>1, <1>2, <1>5, <2>2, <2>3, <2>4, HashPlaces, QuietKeeps DEF HashSetting, Quiet
  <2> QED BY <1>1, <1>3, <1>4, <2>1, <2>2, <2>4, <2>5
<1>7. ASSUME NEW o \in Objects, mem[o] = "free", Goto(t, "idle", "add"), mem' = [mem EXCEPT ![o] = "live"],
             loc' = [loc EXCEPT ![t].key = k, ![t].cur = o]
      PROVE  /\ Base' /\ Own'
             /\ \E l : /\ l.key = k /\ l.own = {} /\ l.gp = {}
                       /\ Moves(t, "add", l) /\ l.cur = o
  <2> DEFINE l == [loc[t] EXCEPT !.key = k, !.cur = o]
  <2>1. l \in Locs /\ l.key = k /\ l.own = {} /\ l.gp = {} /\ l.cur = o
    BY <1>5, RegistersIn, Setting DEF Locs, Registers
  <2>2. loc' = [loc EXCEPT ![t] = l] /\ pc' = [pc EXCEPT ![t] = "add"]
    BY <1>7 DEF Goto, HashSetting, Base, Standing
  <2> HIDE DEF l
  <2>3. StandsAt("add", l) /\ Keeps("add", l) = {o}
    BY <2>1, Setting DEF StandsAt, Keeps
  <2>4. Moves(t, "add", l)
    BY <1>1, <2>1, <2>2, <2>3, HashPlaces DEF Moves
  <2>5. o \notin Linked /\ \A u \in Threads : o \notin Held(u)
    BY <1>7, Owner DEF HashSetting
  <2>6. mem' \in [Objects -> {"free", "live", "removed", "waiting", "callback"}] /\ mem'[o] = "live"
        /\ \A x \in Objects \ {o} : mem'[x] = mem[x]
    BY <1>7 DEF HashSetting, Base, Typed
  <2>7. Own'
    <3> DEFINE S == {o}
    <3>1. /\ S \in SUBSET Objects
          /\ \A x \in Objects \ S : mem'[x] = mem[x] /\ (x \in Linked' <=> x \in Linked) /\ (x \in Keeps("add", l) <=> x \in Held(t))
          /\ \A x \in S : \A u \in Threads \ {t} : x \notin Held(u)
          /\ \A x \in S : x \notin Linked' /\ x \in Keeps("add", l) /\ mem'[x] \in {"live", "waiting"}
      BY <1>3, <1>5, <2>3, <2>5, <2>6
    <3> HIDE DEF S
    <3> QED BY <2>4, <3>1, OwnMoves DEF HashSetting
  <2>8. Base'
    <3>1. Pointers' = Pointers
      BY <1>1 DEF Pointers
    <3> QED BY <1>1, <1>2, <1>3, <2>4, <2>6, <3>1, Moved DEF HashSetting, Base, Typed
  <2> QED BY <2>1, <2>4, <2>7, <2>8
<1> QED BY <1>1, <1>3, <1>4, <1>6, <1>7 DEF hashtab_lock_mod

\* hashtab_add()
LEMMA HashAdds ==
  ASSUME HashSetting, NEW t \in Threads, hashtab_add(t), mem[loc[t].cur] = "live"
  PROVE  \E o \in Objects, b \in Buckets :
             /\ o = loc[t].cur /\ b = HASH2BKT(loc[t].key)
             /\ Base' /\ Own' /\ UNCHANGED <<mem, lock, impl, waits, nesting>> /\ pc[t] = "add" /\ Held(t) = {o}
             /\ o \in Objects /\ loc[t].key \in Keys /\ b \in Buckets /\ o \notin Linked
             /\ Link(b, o, loc[t].key)
             /\ In(b)' = In(b) \union {o} /\ \A c \in Buckets \ {b} : In(c)' = In(c)
             /\ akey'[o] = loc[t].key /\ \A x \in Objects \ {o} : akey'[x] = akey[x] /\ stale'[x] = stale[x]
             /\ \E l : Moves(t, "unlock", l) /\ l.key = loc[t].key /\ l.cur = NULL /\ l.own = {} /\ l.gp = loc[t].gp
<1>0. PICK o, k, b : o = loc[t].cur /\ k = loc[t].key /\ b = HASH2BKT(k)
  OBVIOUS
<1> DEFINE l == [loc[t] EXCEPT !.cur = NULL]
<1>1. pc[t] = "add" /\ UNCHANGED <<mem, lock, seq, refcnt, waits, impl, nesting>> /\ Link(b, o, k)
  BY <1>0 DEF hashtab_add, Goto
<1>2. loc[t] \in Locs /\ StandsAt("add", loc[t])
  BY <1>1 DEF HashSetting, Base, Standing
<1>3. o \in Objects /\ k \in Keys /\ loc[t].own = {} /\ k \in Nat
  BY <1>0, <1>2, Setting, HashPlaces DEF StandsAt
<1>4. b \in Buckets /\ Bucket(k) = b
  BY <1>0, <1>3, KeyBucket, HashPlaces
<1>5. Held(t) = {o}
  BY <1>0, <1>1, <1>3, Setting DEF Held, Keeps
<1>6. o \notin Linked /\ \A u \in Threads \ {t} : o \notin Held(u)
  BY <1>3, <1>5, Owner DEF HashSetting
<1>7. loc' = [loc EXCEPT ![t] = l] /\ pc' = [pc EXCEPT ![t] = "unlock"]
  BY <1>0 DEF hashtab_add, Goto, HashSetting, Base, Standing
<1>8. l \in Locs /\ l.own = {} /\ l.cur = NULL /\ l.key = k /\ l.gp = loc[t].gp
  BY <1>0, <1>2, <1>3 DEF Locs
<1> HIDE DEF l
<1>9. StandsAt("unlock", l) /\ Keeps("unlock", l) = {}
  BY <1>8 DEF StandsAt, Keeps
<1>10. Moves(t, "unlock", l)
  BY <1>1, <1>7, <1>8, <1>9, HashPlaces DEF Moves
<1>11. /\ Lists' /\ In(b)' = In(b) \union {o} /\ Linked' = Linked \union {o}
       /\ \A c \in Buckets \ {b} : In(c)' = In(c)
       /\ akey'[o] = k /\ \A x \in Objects \ {o} : akey'[x] = akey[x] /\ stale'[x] = stale[x]
  <2>1. Lists /\ UNCHANGED impl
    BY <1>1 DEF HashSetting, Base
  <2>2. Link(b, o, k) /\ o \notin Linked /\ o \in Objects /\ k \in Keys /\ b \in Buckets /\ Bucket(k) = b
    BY <1>1, <1>3, <1>4, <1>6
  <2> QED BY <2>1, <2>2, LinkKeeps
<1>12. Own'
  <2> DEFINE S == {o}
  <2>0. mem[o] = "live"
    BY <1>0
  <2>1. /\ S \in SUBSET Objects
        /\ \A x \in Objects \ S : mem'[x] = mem[x] /\ (x \in Linked' <=> x \in Linked) /\ (x \in Keeps("unlock", l) <=> x \in Held(t))
        /\ \A x \in S : \A u \in Threads \ {t} : x \notin Held(u)
        /\ \A x \in S : x \in Linked' /\ x \notin Keeps("unlock", l) /\ mem'[x] = "live"
    BY <1>1, <1>3, <1>5, <1>6, <1>9, <1>11, <2>0
  <2> HIDE DEF S
  <2> QED BY <1>10, <2>1, OwnMoves DEF HashSetting
<1>13. Base'
  <2>1. Pointers' = Pointers /\ NULL \in Pointers
    BY <1>1 DEF Pointers
  <2>2. stale' \in [Objects -> Pointers]
    BY <1>1, <1>3, <2>1 DEF HashSetting, Base, Typed, Link
  <2> QED BY <1>1, <1>10, <1>11, <2>1, <2>2, Moved DEF HashSetting, Base, Typed
<1> QED BY <1>0, <1>1, <1>3, <1>4, <1>5, <1>6, <1>8, <1>10, <1>11, <1>12, <1>13

\* What hashtab_del() does: the first entry for the key is unlinked, if there is one.
Deletion(t, b, o) ==
  /\ b = HASH2BKT(loc[t].key) /\ o = First(b, loc[t].key)
  /\ UNCHANGED <<lock, impl, waits, nesting, akey>> /\ pc[t] = "del" /\ Held(t) = {}
  /\ loc[t].key \in Keys
  /\ \A c \in Buckets \ {b} : In(c)' = In(c)
  /\ \/ o = NULL /\ Quiet /\ In(b)' = In(b) /\ Linked' = Linked
     \/ /\ o \in In(b) /\ o \in Objects /\ o \in Linked /\ akey[o] = loc[t].key /\ In(b)' = In(b) \ {o} /\ Linked' = Linked \ {o}
        /\ list' = [list EXCEPT ![b] = RemoveFirst(@, o)]
        /\ stale'[o] = (IF Rcu THEN Successor(b, o) ELSE o) /\ mem'[o] = "waiting"
        /\ \A x \in Objects \ {o} : stale'[x] = stale[x] /\ mem'[x] = mem[x]
  /\ \E l : Moves(t, "unlock", l) /\ l.key = loc[t].key /\ l.cur = o /\ l.own = {} /\ l.gp = loc[t].gp

\* hashtab_del()
LEMMA HashDeletes ==
  ASSUME HashSetting, NEW t \in Threads, hashtab_del(t)
  PROVE  Base' /\ Own' /\ \E b \in Buckets, o \in Objects \union {NULL} : Deletion(t, b, o)
<1>0. PICK k, b, o : k = loc[t].key /\ b = HASH2BKT(k) /\ o = First(b, k)
  OBVIOUS
<1> DEFINE l == [loc[t] EXCEPT !.cur = o]
<1>1. /\ pc[t] = "del" /\ UNCHANGED <<lock, seq, refcnt, waits, impl, nesting, akey>>
      /\ IF o = NULL THEN UNCHANGED <<list, stale, mem>>
         ELSE /\ list' = [list EXCEPT ![b] = RemoveFirst(@, o)]
              /\ stale' = [stale EXCEPT ![o] = IF Rcu THEN Successor(b, o) ELSE o]
              /\ mem' = [mem EXCEPT ![o] = "waiting"]
  BY <1>0 DEF hashtab_del, Goto, tableVars
<1>2. loc[t] \in Locs /\ StandsAt("del", loc[t])
  BY <1>1 DEF HashSetting, Base, Standing
<1>3. k \in Keys /\ loc[t].own = {} /\ k \in Nat
  BY <1>0, <1>2, Setting, HashPlaces DEF StandsAt
<1>4. b \in Buckets /\ Bucket(k) = b
  BY <1>0, <1>3, KeyBucket, HashPlaces
<1>5. Held(t) = {}
  BY <1>1 DEF Held, Keeps
<1>6. /\ o = NULL \/ (o \in In(b) /\ o \in Objects /\ o \in Linked /\ o # NULL /\ akey[o] = k)
      /\ o \in Objects \union {NULL}
  BY <1>0, <1>4, FirstIn, OneBucket DEF HashSetting, Base
<1>7. loc' = [loc EXCEPT ![t] = l] /\ pc' = [pc EXCEPT ![t] = "unlock"]
  BY <1>0 DEF hashtab_del, Goto, HashSetting, Base, Standing
<1>8. l \in Locs /\ l.own = {} /\ l.cur = o /\ l.key = k /\ l.gp = loc[t].gp
  BY <1>0, <1>2, <1>3, <1>6 DEF Locs
<1> HIDE DEF l
<1>9. StandsAt("unlock", l) /\ Keeps("unlock", l) = {o} \ {NULL}
  BY <1>6, <1>8 DEF StandsAt, Keeps, HashSetting
<1>10. Moves(t, "unlock", l)
  BY <1>1, <1>7, <1>8, <1>9, HashPlaces DEF Moves
<1>11. CASE o = NULL
  <2>1. Quiet /\ UNCHANGED <<lock, seq, refcnt, waits>>
    BY <1>1, <1>11 DEF Quiet
  <2>2. Keeps("unlock", l) = Held(t)
    BY <1>5, <1>9, <1>11
  <2>3. /\ Base' /\ Own' /\ Linked' = Linked /\ \A c : In(c)' = In(c)
    BY <1>10, <2>1, <2>2, HashPlaces, QuietKeeps DEF HashSetting
  <2>4. UNCHANGED <<lock, impl, waits, nesting, akey>> /\ pc[t] = "del"
    BY <1>1
  <2>5. k = loc[t].key /\ b = HASH2BKT(k) /\ o = First(b, k) /\ b \in Buckets /\ o \in Objects \union {NULL}
    BY <1>0, <1>4, <1>6
  <2>6. Deletion(t, b, o)
    BY <1>3, <1>5, <1>8, <1>10, <1>11, <2>1, <2>3, <2>4, <2>5 DEF Deletion
  <2> QED BY <2>3, <2>5, <2>6
<1>12. CASE o # NULL
  <2>1. list' = [list EXCEPT ![b] = RemoveFirst(@, o)] /\ o \in In(b) /\ o \in Objects /\ o \in Linked
    BY <1>1, <1>6, <1>12
  <2>2. /\ Lists' /\ In(b)' = In(b) \ {o} /\ Linked' = Linked \ {o}
        /\ \A c \in Buckets \ {b} : In(c)' = In(c)
    <3>1. Lists /\ UNCHANGED <<akey, impl>>
      BY <1>1 DEF HashSetting, Base
    <3>2. list' = [list EXCEPT ![b] = RemoveFirst(@, o)] /\ o \in In(b) /\ b \in Buckets
      BY <1>4, <2>1
    <3> QED BY <3>1, <3>2, RemoveKeeps
  <2>3. Successor(b, o) \in Objects \union {NULL}
    BY <1>4, <2>1, SuccessorIn, ListOf DEF HashSetting, Base
  <2>4. /\ stale'[o] = (IF Rcu THEN Successor(b, o) ELSE o) /\ mem'[o] = "waiting"
        /\ \A x \in Objects \ {o} : stale'[x] = stale[x] /\ mem'[x] = mem[x]
        /\ stale' \in [Objects -> Pointers] /\ mem' \in [Objects -> {"free", "live", "removed", "waiting", "callback"}]
    <3>1. stale \in [Objects -> Pointers] /\ mem \in [Objects -> {"free", "live", "removed", "waiting", "callback"}]
      BY DEF HashSetting, Base, Typed
    <3>2. o \in Pointers /\ Successor(b, o) \in Pointers
      BY <2>1, <2>3 DEF Pointers
    <3> QED BY <1>1, <1>12, <2>1, <3>1, <3>2
  <2>5. Base' /\ Own'
    <3> DEFINE S == {o}
    <3>1. /\ S \in SUBSET Objects /\ S \subseteq Linked /\ Linked' = Linked \ S /\ S \subseteq Keeps("unlock", l)
          /\ Keeps("unlock", l) \ S = Held(t) \ S /\ \A x \in S : mem'[x] \in {"live", "waiting"}
          /\ \A x \in Objects \ S : mem'[x] = mem[x]
      BY <1>5, <1>9, <1>12, <2>1, <2>2, <2>4
    <3>2. UNCHANGED <<lock, seq, refcnt, waits>>
      BY <1>1
    <3> HIDE DEF S
    <3> QED BY <1>10, <2>2, <2>4, <3>1, <3>2, HashPlaces, ShrinkKeeps DEF HashSetting
  <2>6. /\ o \in In(b) /\ o \in Objects /\ o \in Linked /\ akey[o] = k /\ In(b)' = In(b) \ {o} /\ Linked' = Linked \ {o}
        /\ list' = [list EXCEPT ![b] = RemoveFirst(@, o)]
        /\ stale'[o] = (IF Rcu THEN Successor(b, o) ELSE o) /\ mem'[o] = "waiting"
        /\ \A x \in Objects \ {o} : stale'[x] = stale[x] /\ mem'[x] = mem[x]
    BY <1>6, <1>12, <2>1, <2>2, <2>4
  <2>7. UNCHANGED <<lock, impl, waits, nesting, akey>> /\ pc[t] = "del"
    BY <1>1
  <2>8. \E m : Moves(t, "unlock", m) /\ m.key = k /\ m.cur = o /\ m.own = {} /\ m.gp = loc[t].gp
    BY <1>8, <1>10
  <2>9. k = loc[t].key /\ b = HASH2BKT(k) /\ o = First(b, k) /\ b \in Buckets /\ o \in Objects \union {NULL}
    BY <1>0, <1>4, <1>6
  <2>10. Deletion(t, b, o)
    BY <1>3, <1>5, <2>2, <2>6, <2>7, <2>8, <2>9 DEF Deletion
  <2> QED BY <2>5, <2>9, <2>10
<1> QED BY <1>11, <1>12

\* hashtab_unlock_mod()
LEMMA HashUnlocks ==
  ASSUME HashSetting, NEW t \in Threads, hashtab_unlock_mod(t)
  PROVE  /\ Base' /\ Own' /\ Quiet /\ UNCHANGED <<waits, nesting>> /\ pc[t] = "unlock" /\ hashtab_unlock(t, loc[t].key)
         /\ \E l : /\ Moves(t, IF loc[t].cur = NULL THEN "idle" ELSE "defer", l) /\ l.cur = loc[t].cur /\ l.own = {}
                   /\ Keeps(IF loc[t].cur = NULL THEN "idle" ELSE "defer", l) = Held(t)
<1> DEFINE p == IF loc[t].cur = NULL THEN "idle" ELSE "defer"
           l == [Registers EXCEPT !.cur = loc[t].cur]
<1>1. /\ pc[t] = "unlock" /\ Quiet /\ UNCHANGED <<seq, refcnt, waits, nesting>> /\ hashtab_unlock(t, loc[t].key)
      /\ loc' = [loc EXCEPT ![t] = l] /\ pc' = [pc EXCEPT ![t] = p]
  BY DEF hashtab_unlock_mod, Goto, tableVars, Quiet
<1>2. loc[t] \in Locs /\ StandsAt("unlock", loc[t]) /\ loc[t].key \in Nat
  BY <1>1, Fields DEF HashSetting, Base, Standing
<1>3. loc[t].cur \in Objects \union {NULL} /\ loc[t].own = {}
  BY <1>2, HashPlaces DEF StandsAt
<1>4. l \in Locs /\ l.cur = loc[t].cur /\ l.own = {} /\ (loc[t].cur = NULL => l = Registers)
  BY <1>3, RegistersIn DEF Locs, Registers
<1>5. lock' \in [Locks -> Threads \union {-1}]
  BY <1>1, <1>2, HashLockTyped
<1> HIDE DEF l
<1>6. StandsAt(p, l) /\ Keeps(p, l) = Held(t) /\ p \in Places
  BY <1>1, <1>3, <1>4, HashPlaces, RegistersIn DEF StandsAt, Keeps, Held, HashSetting
<1> HIDE DEF p
<1>7. Moves(t, p, l)
  BY <1>1, <1>4, <1>6 DEF Moves, Quiet
<1>8. Base' /\ Own'
  BY <1>1, <1>5, <1>6, <1>7, HashPlaces, QuietKeeps DEF HashSetting
<1> QED BY <1>1, <1>4, <1>6, <1>7, <1>8 DEF p

\* defer_del()
LEMMA HashDefers ==
  ASSUME HashSetting, NEW t \in Threads, defer_del(t)
  PROVE  LET o == loc[t].cur
         IN  /\ Base' /\ Own' /\ UNCHANGED <<list, stale, akey, impl, lock, nesting>> /\ pc[t] = "defer" /\ Held(t) = {o} /\ o \in Objects
             /\ Moves(t, "idle", Registers) /\ Linked' = Linked /\ \A c : In(c)' = In(c)
             /\ mem' = [mem EXCEPT ![o] = IF Rcu THEN "callback" ELSE "free"]
             /\ waits' = [waits EXCEPT ![o] = IF Rcu THEN {u \in Threads : nesting[u] > 0} ELSE {}]
<1> DEFINE o == loc[t].cur
<1>1. /\ pc[t] = "defer" /\ UNCHANGED <<list, stale, akey, impl, lock, seq, refcnt, nesting>>
      /\ mem' = [mem EXCEPT ![o] = IF Rcu THEN "callback" ELSE "free"]
      /\ waits' = [waits EXCEPT ![o] = IF Rcu THEN {u \in Threads : nesting[u] > 0} ELSE {}]
      /\ loc' = [loc EXCEPT ![t] = Registers] /\ pc' = [pc EXCEPT ![t] = "idle"]
  BY DEF defer_del, Goto, tableVars
<1>2. loc[t] \in Locs /\ StandsAt("defer", loc[t])
  BY <1>1 DEF HashSetting, Base, Standing
<1>3. o \in Objects /\ Held(t) = {o}
  BY <1>1, <1>2, HashPlaces, Setting DEF StandsAt, Held, Keeps
<1>4. Moves(t, "idle", Registers) /\ Keeps("idle", Registers) = {}
  BY <1>1, HashPlaces, Rests DEF HashSetting
<1>5. Lists' /\ Linked' = Linked /\ \A c : In(c)' = In(c)
  BY <1>1, ListsKept DEF HashSetting, Base
<1> HIDE DEF o
<1>6. /\ mem' \in [Objects -> {"free", "live", "removed", "waiting", "callback"}] /\ waits' \in [Objects -> SUBSET Threads]
      /\ stale' \in [Objects -> Pointers] /\ mem'[o] \in {"free", "callback"} /\ \A x \in Objects \ {o} : mem'[x] = mem[x]
  BY <1>1, <1>3 DEF HashSetting, Base, Typed
<1>7. Base' /\ Own'
  <2> DEFINE S == {o}
  <2>1. /\ S \in SUBSET Objects /\ S \subseteq Held(t) /\ Linked' = Linked \ S
        /\ Keeps("idle", Registers) = Held(t) \ S /\ \A x \in S : mem'[x] \in {"free", "callback"}
        /\ \A x \in Objects \ S : mem'[x] = mem[x]
    <3>1. o \notin Linked
      BY <1>3, Owner DEF HashSetting
    <3> QED BY <1>3, <1>4, <1>5, <1>6, <3>1
  <2>2. UNCHANGED <<lock, seq, refcnt>>
    BY <1>1
  <2> HIDE DEF S
  <2> QED BY <1>4, <1>5, <1>6, <2>1, <2>2, HashPlaces, ShrinkKeeps DEF HashSetting
<1> QED BY <1>1, <1>3, <1>4, <1>5, <1>7 DEF o

\* An RCU callback is run, which frees its entry.
LEMMA CallbackFrees ==
  ASSUME Base, Own, NEW t \in Threads, NEW o \in Objects, mem[o] = "callback", Free({o}),
         UNCHANGED <<list, stale, akey, impl, lock, seq, refcnt, waits, pc, loc>>
  PROVE  /\ Base' /\ Own' /\ Linked' = Linked /\ \A c : In(c)' = In(c)
         /\ \A x \in Objects : mem'[x] = IF x = o THEN "free" ELSE mem[x]
<1>1. Moves(t, pc[t], loc[t]) /\ Keeps(pc[t], loc[t]) = Held(t)
  BY Stays
<1>2. Lists' /\ Linked' = Linked /\ \A c : In(c)' = In(c)
  BY ListsKept DEF Base
<1>3. /\ mem' \in [Objects -> {"free", "live", "removed", "waiting", "callback"}]
      /\ \A x \in Objects : mem'[x] = IF x = o THEN "free" ELSE mem[x]
  BY FreeTyped
<1>4. Base' /\ Own'
  <2> DEFINE S == {o}
  <2>1. /\ S \in SUBSET Objects /\ Linked' = Linked \ S
        /\ Keeps(pc[t], loc[t]) = Held(t) \ S /\ (\A x \in S : mem'[x] \in {"free", "callback"})
        /\ (\A x \in Objects \ S : mem'[x] = mem[x]) /\ (\A x \in S : mem[x] \in {"free", "callback"})
    <3>1. o \notin Linked /\ \A u \in Threads : o \notin Held(u)
      BY Owner
    <3> QED BY <1>1, <1>2, <1>3, <3>1
  <2>2. /\ stale' \in [Objects -> Pointers] /\ lock' \in [Locks -> Threads \union {-1}] /\ seq' \in Nat
        /\ refcnt' \in [Objects -> Int] /\ waits' \in [Objects -> SUBSET Threads]
    BY DEF Base, Typed
  <2> HIDE DEF S
  <2> QED BY <1>1, <1>2, <1>3, <2>1, <2>2, ShrinkKeeps
<1> QED BY <1>2, <1>3, <1>4

-----------------------------------------------------------------------------
\* At place p, a thread is in a hash table's critical section: that of an update, or of a lookup
\* that does not rely on RCU.
LockedAt(p) == p \in {"add", "del", "unlock"} \/ (~ Rcu /\ p \in {"load", "compare", "found"})

\* A thread t at place p with registers l has the lock it needs; what it has allocated is not linked
\* yet; and a lookup under a lock stands on entries of its bucket.
HashStands(t, p, l) ==
  /\ LockedAt(p) => IF impl = "hash_unsync" THEN t = 0 ELSE lock[LockOf(l.key)] = t
  /\ impl = "hash_unsync" => t = 0 \/ p = "idle"
  /\ p = "add" => mem[l.cur] = "live"
  /\ ~ Rcu => /\ p \in {"load", "compare"} => l.from \in In(HASH2BKT(l.key)) \union {NULL}
              /\ p = "compare" => l.cur \in In(HASH2BKT(l.key))
              /\ p = "found" => l.cur \in In(HASH2BKT(l.key)) \union {NULL}

HashInv == \A t \in Threads : HashStands(t, pc[t], loc[t])

\* Two threads that are locked are in different buckets.
LEMMA HashApart ==
  ASSUME HashSetting, HashInv, NEW t \in Threads, NEW u \in Threads, t # u, LockedAt(pc[t]), LockedAt(pc[u])
  PROVE  /\ HASH2BKT(loc[t].key) # HASH2BKT(loc[u].key) /\ LockOf(loc[t].key) # LockOf(loc[u].key)
         /\ impl # "hash_unsync"
<1>1. HashStands(t, pc[t], loc[t]) /\ HashStands(u, pc[u], loc[u])
  BY DEF HashInv
<1>2. impl # "hash_unsync" /\ lock[LockOf(loc[t].key)] = t /\ lock[LockOf(loc[u].key)] = u
  BY <1>1 DEF HashStands
<1>3. LockOf(loc[t].key) # LockOf(loc[u].key)
  BY <1>2
<1> QED BY <1>2, <1>3 DEF LockOf

\* The other threads keep what they have, if t leaves their locks, the buckets they look through and
\* what they have allocated alone.
LEMMA HashOthers ==
  ASSUME HashSetting, HashInv, NEW t \in Threads, NEW p, NEW l, Moves(t, p, l),
         \A u \in Threads \ {t} : LockedAt(pc[u]) =>
            /\ impl # "hash_unsync" => lock'[LockOf(loc[u].key)] = lock[LockOf(loc[u].key)]
            /\ \A b \in Buckets : b = HASH2BKT(loc[u].key) => In(b)' = In(b),
         \A u \in Threads \ {t} : pc[u] = "add" => mem'[loc[u].cur] = mem[loc[u].cur],
         HashStands(t, p, l)'
  PROVE  HashInv'
<1>1. /\ pc'[t] = p /\ loc'[t] = l /\ \A u \in Threads \ {t} : pc'[u] = pc[u] /\ loc'[u] = loc[u]
  BY Moved DEF HashSetting, Base
<1>2. UNCHANGED impl /\ Rcu' = Rcu /\ (\A q : LockedAt(q)' = LockedAt(q)) /\ (\A k : LockOf(k)' = LockOf(k))
  BY DEF Moves, Rcu, LockedAt, LockOf
<1>3. HashStands(t, pc[t], loc[t])'
  BY <1>1 DEF HashStands, LockedAt, LockOf, Rcu, In
<1>4. ASSUME NEW u \in Threads \ {t} PROVE HashStands(u, pc[u], loc[u])'
  <2>1. HashStands(u, pc[u], loc[u]) /\ pc'[u] = pc[u] /\ loc'[u] = loc[u]
    BY <1>1 DEF HashInv
  <2>2. loc[u].key \in Nat
    BY Fields DEF HashSetting, Base, Standing
  <2>3. PICK b \in Buckets : b = HASH2BKT(loc[u].key)
    BY <2>2, KeyBucket
  <2>4. LockedAt(pc[u]) => In(b)' = In(b)
    BY <2>3
  <2>5. ~ Rcu /\ pc[u] \in {"load", "compare", "found"} => LockedAt(pc[u])
    BY DEF LockedAt
  <2>6. LockedAt(pc[u])' => IF impl' = "hash_unsync" THEN u = 0 ELSE lock'[LockOf(loc'[u].key)] = u
    BY <1>2, <2>1 DEF HashStands, LockedAt, Rcu
  <2>7. impl' = "hash_unsync" => u = 0 \/ pc'[u] = "idle"
    BY <1>2, <2>1 DEF HashStands
  <2>8. pc'[u] = "add" => mem'[loc'[u].cur] = "live"
    BY <2>1 DEF HashStands
  <2>9. ~ Rcu' => /\ pc'[u] \in {"load", "compare"} => loc'[u].from \in In(b)' \union {NULL}
                  /\ pc'[u] = "compare" => loc'[u].cur \in In(b)'
                  /\ pc'[u] = "found" => loc'[u].cur \in In(b)' \union {NULL}
    BY <1>2, <2>1, <2>3, <2>4, <2>5 DEF HashStands
  <2>10. b = HASH2BKT(loc'[u].key)
    BY <2>1, <2>3
  <2>11. LockOf(loc[u].key)' = LockOf(loc'[u].key) /\ HASH2BKT(loc[u].key)' = b /\ In(HASH2BKT(loc[u].key))' = In(b)'
    BY <1>2, <2>10 DEF LockOf, HASH2BKT, In
  <2> QED BY <2>6, <2>7, <2>8, <2>9, <2>11 DEF HashStands
<1> QED BY <1>3, <1>4 DEF HashInv

\* Taking a lock leaves the locks of the others alone, and so does releasing one's own.
LEMMA HashLocks ==
  ASSUME HashSetting, HashInv, NEW t \in Threads, NEW k \in Nat
  PROVE  /\ hashtab_lock(t, k) =>
              /\ impl # "hash_unsync" => lock'[LockOf(k)] = t
              /\ \A u \in Threads \ {t} : LockedAt(pc[u]) /\ impl # "hash_unsync" => lock'[LockOf(loc[u].key)] = lock[LockOf(loc[u].key)]
         /\ LockedAt(pc[t]) /\ hashtab_unlock(t, loc[t].key) =>
              \A u \in Threads \ {t} : LockedAt(pc[u]) /\ impl # "hash_unsync" => lock'[LockOf(loc[u].key)] = lock[LockOf(loc[u].key)]
<1>1. \A u \in Threads : loc[u].key \in Nat
  BY Fields DEF HashSetting, Base, Standing
<1>2. LockOf(k) \in Locks /\ \A u \in Threads : LockOf(loc[u].key) \in Locks
  BY <1>1, HashLockTyped
<1>3. ASSUME hashtab_lock(t, k)
      PROVE  /\ impl # "hash_unsync" => lock'[LockOf(k)] = t
             /\ \A u \in Threads \ {t} : LockedAt(pc[u]) /\ impl # "hash_unsync" => lock'[LockOf(loc[u].key)] = lock[LockOf(loc[u].key)]
  <2>1. CASE impl = "hash_unsync"
    BY <2>1
  <2>2. CASE impl # "hash_unsync"
    <3>1. lock[LockOf(k)] = -1 /\ lock' = [lock EXCEPT ![LockOf(k)] = t]
      BY <1>3, <2>2 DEF hashtab_lock, Acquire
    <3>2. ASSUME NEW u \in Threads \ {t}, LockedAt(pc[u]) PROVE lock'[LockOf(loc[u].key)] = lock[LockOf(loc[u].key)]
      <4>1. lock[LockOf(loc[u].key)] = u
        BY <2>2, <3>2 DEF HashInv, HashStands
      <4>2. LockOf(loc[u].key) # LockOf(k)
        BY <3>1, <4>1, Setting
      <4> QED BY <1>2, <3>1, <4>2, HashPlaces
    <3> QED BY <1>2, <3>1, <3>2, HashPlaces
  <2> QED BY <2>1, <2>2
<1>4. ASSUME LockedAt(pc[t]), hashtab_unlock(t, loc[t].key), NEW u \in Threads \ {t}, LockedAt(pc[u]), impl # "hash_unsync"
      PROVE  lock'[LockOf(loc[u].key)] = lock[LockOf(loc[u].key)]
  <2>1. lock' = [lock EXCEPT ![LockOf(loc[t].key)] = -1]
    BY <1>4 DEF hashtab_unlock, Release
  <2>2. LockOf(loc[u].key) # LockOf(loc[t].key)
    BY <1>4, HashApart
  <2> QED BY <1>2, <2>1, <2>2, HashPlaces
<1> QED BY <1>3, <1>4

\* Where a thread stands does not change by itself.
LEMMA HashStandsSame ==
  ASSUME UNCHANGED <<list, lock, mem, impl>>, NEW t, NEW p, NEW l, HashStands(t, p, l)
  PROVE  HashStands(t, p, l)'
<1>1. HASH2BKT(l.key)' = HASH2BKT(l.key) /\ LockOf(l.key)' = LockOf(l.key) /\ Rcu' = Rcu /\ LockedAt(p)' = LockedAt(p)
      /\ In(HASH2BKT(l.key))' = In(HASH2BKT(l.key))
  BY DEF LockOf, Rcu, LockedAt, HASH2BKT, In
<1> QED BY <1>1 DEF HashStands

\* A lookup of a hash table keeps the locks and where the lookups are.
LEMMA HashLookupKeeps ==
  ASSUME HashSetting, HashInv, NEW t \in Threads, LookupStep(t), impl = "hash_unsync" => t = 0
  PROVE  Base' /\ Own' /\ HashInv'
<1>0. HashStands(t, pc[t], loc[t]) /\ loc[t].key \in Nat /\ HASH2BKT(loc[t].key) \in Buckets
  <2>1. loc[t].key \in Nat
    BY Fields DEF HashSetting, Base, Standing
  <2> QED BY <2>1, KeyBucket DEF HashInv
<1>1. CASE hashtab_lock_lookup(t)
  <2>1. /\ Base' /\ Own' /\ Quiet /\ Moves(t, "load", loc[t]) /\ pc[t] = "begin" /\ loc[t].from = NULL
    BY <1>1, HashBegins
  <2>2. UNCHANGED lock \/ hashtab_lock(t, loc[t].key)
    BY <1>1 DEF hashtab_lock_lookup
  <2>3. \A b : In(b)' = In(b)
    BY <2>1, ListsKept DEF Quiet
  <2>4. \A u \in Threads \ {t} : LockedAt(pc[u]) /\ impl # "hash_unsync" => lock'[LockOf(loc[u].key)] = lock[LockOf(loc[u].key)]
    BY <1>0, <2>2, HashLocks
  <2>5. ~ Rcu => hashtab_lock(t, loc[t].key)
    BY <1>1 DEF hashtab_lock_lookup
  <2>6. ~ Rcu /\ impl # "hash_unsync" => lock'[LockOf(loc[t].key)] = t
    BY <1>0, <2>5, HashLocks
  <2> DEFINE l == loc[t]
  <2>7. PICK m : m = l
    OBVIOUS
  <2>8. HashStands(t, "load", m)'
    BY <2>1, <2>6, <2>7 DEF HashStands, LockedAt, Rcu, Quiet, LockOf
  <2> QED BY <2>1, <2>3, <2>4, <2>7, <2>8, HashOthers DEF Quiet
<1>2. CASE Load(t, "compare", "found")
  <2> DEFINE tm == Deref(Bucket(loc[t].key), loc[t].from)
             pp == IF tm = NULL THEN "found" ELSE IF tm = JUNK THEN "lost" ELSE "compare"
  <2>1. /\ pc[t] = "load" /\ tm \in Objects \union {NULL, JUNK} /\ tm # JUNK /\ loc[t].from \in Objects \union {NULL}
        /\ \E l : Moves(t, pp, l) /\ l.own = {} /\ l.key = loc[t].key /\ l.from = loc[t].from /\ l.cur = tm
    BY <1>2, HashPlaces, Loads DEF HashSetting
  <2>2. ~ Rcu => tm \in In(HASH2BKT(loc[t].key)) \union {NULL}
    BY <1>0, <2>1, HashPlaces, DerefIn DEF HashSetting, Base, HashStands
  <2>9. \E tmp : tmp = tm
    OBVIOUS
  <2> HIDE DEF tm
  <2>3. PICK l, tmp, p : Moves(t, p, l) /\ l.own = {} /\ l.key = loc[t].key /\ l.from = loc[t].from /\ l.cur = tmp
                      /\ tmp = tm /\ p = (IF tmp = NULL THEN "found" ELSE "compare")
    BY <2>1, <2>9
  <2>4. Quiet /\ UNCHANGED <<lock, seq, refcnt, waits, nesting>>
    BY <1>2 DEF Load, tableVars, Quiet
  <2>5. Keeps(p, l) = {} /\ Held(t) = {} /\ p \in {"found", "compare"}
    BY <2>1, <2>3 DEF Keeps, Held
  <2>6. /\ Base' /\ Own' /\ \A b : In(b)' = In(b)
    BY <2>3, <2>4, <2>5, QuietKeeps, HashPlaces DEF HashSetting
  <2>7. LockedAt(p) => LockedAt("load")
    BY <2>5 DEF LockedAt
  <2>8. HashStands(t, p, l)'
    <3>1. HashStands(t, "load", loc[t]) /\ UNCHANGED <<list, lock, mem, impl>>
      BY <1>0, <2>1, <2>4 DEF Quiet
    <3>2. HashStands(t, p, l)
      BY <2>1, <2>2, <2>3, <2>5, <2>7, <3>1 DEF HashStands
    <3> QED BY <3>1, <3>2, HashStandsSame
  <2> QED BY <2>3, <2>4, <2>6, <2>8, HashOthers DEF Quiet
<1>3. CASE Compare(t, "found", "load")
  <2>1. /\ pc[t] = "compare" /\ loc[t].cur \in Objects
        /\ \E l : \E p \in {"found", "load"} :
             /\ Moves(t, p, l) /\ l.own = {} /\ l.key = loc[t].key
             /\ p = "found" => l.cur = loc[t].cur
             /\ p = "load" => l.from = loc[t].cur
    <3>1. /\ pc[t] = "compare" /\ loc[t].cur \in Objects
          /\ \E l : /\ Moves(t, IF akey[loc[t].cur] = loc[t].key THEN "found" ELSE "load", l) /\ l.own = {} /\ l.key = loc[t].key
                    /\ l.from = (IF akey[loc[t].cur] = loc[t].key THEN loc[t].from ELSE loc[t].cur) /\ l.cur = loc[t].cur
      BY <1>3, HashPlaces, Compares DEF HashSetting
    <3> QED BY <3>1
  <2>3. PICK l, p : Moves(t, p, l) /\ l.own = {} /\ l.key = loc[t].key /\ p \in {"found", "load"}
                    /\ (p = "found" => l.cur = loc[t].cur) /\ (p = "load" => l.from = loc[t].cur)
    BY <2>1
  <2>4. Quiet /\ UNCHANGED <<lock, seq, refcnt, waits, nesting>>
    BY <1>3 DEF Compare, tableVars, Quiet
  <2>5. Keeps(p, l) = {} /\ Held(t) = {}
    BY <2>1, <2>3 DEF Keeps, Held
  <2>6. /\ Base' /\ Own' /\ \A b : In(b)' = In(b)
    BY <2>3, <2>4, <2>5, QuietKeeps, HashPlaces DEF HashSetting
  <2>7. LockedAt(p) => LockedAt("compare")
    BY <2>3 DEF LockedAt
  <2>8. HashStands(t, p, l)'
    <3>1. HashStands(t, "compare", loc[t]) /\ UNCHANGED <<list, lock, mem, impl>>
      BY <1>0, <2>1, <2>4 DEF Quiet
    <3>2. HashStands(t, p, l)
      BY <2>3, <2>7, <3>1 DEF HashStands
    <3> QED BY <3>1, <3>2, HashStandsSame
  <2> QED BY <2>3, <2>4, <2>6, <2>8, HashOthers DEF Quiet
<1>4. CASE hashtab_unlock_lookup(t)
  <2>1. /\ Base' /\ Own' /\ Quiet /\ Moves(t, "return", loc[t]) /\ pc[t] = "found"
    BY <1>4, HashEnds
  <2>2. (Rcu /\ UNCHANGED lock) \/ (~ Rcu /\ hashtab_unlock(t, loc[t].key))
    BY <1>4 DEF hashtab_unlock_lookup
  <2>3. \A b : In(b)' = In(b)
    BY <2>1, ListsKept DEF Quiet
  <2>4. \A u \in Threads \ {t} : LockedAt(pc[u]) /\ impl # "hash_unsync" => lock'[LockOf(loc[u].key)] = lock[LockOf(loc[u].key)]
    <3>1. ~ Rcu => LockedAt(pc[t])
      BY <2>1 DEF LockedAt
    <3> QED BY <1>0, <2>2, <3>1, HashLocks
  <2>5. PICK m : m = loc[t]
    OBVIOUS
  <2>6. HashStands(t, "return", m)'
    BY <1>0, <2>1, <2>5 DEF HashStands, LockedAt, Quiet
  <2> QED BY <2>1, <2>3, <2>4, <2>5, <2>6, HashOthers DEF Quiet
<1>5. CASE Return(t)
  <2>1. Base' /\ Own' /\ Quiet /\ Moves(t, "idle", Registers) /\ UNCHANGED lock
    BY <1>5, HashPlaces, Returns DEF HashSetting
  <2>2. \A b : In(b)' = In(b)
    BY <2>1, ListsKept DEF Quiet
  <2>3. HashStands(t, "idle", Registers)'
    BY DEF HashStands, LockedAt
  <2> QED BY <2>1, <2>2, <2>3, HashOthers DEF Quiet
<1> QED BY <1>1, <1>2, <1>3, <1>4, <1>5 DEF LookupStep, hashtab_lookup

\* An update of a hash table keeps them, too.
LEMMA HashUpdateKeeps ==
  ASSUME HashSetting, HashInv, NEW t \in Threads, impl = "hash_unsync" => t = 0,
         \/ \E k \in Keys : LookupCall(t, k) \/ hashtab_lock_mod(t, k)
         \/ hashtab_add(t) \/ hashtab_del(t) \/ hashtab_unlock_mod(t) \/ defer_del(t)
  PROVE  Base' /\ Own' /\ HashInv'
<1>0. HashStands(t, pc[t], loc[t]) /\ loc[t].key \in Nat /\ HASH2BKT(loc[t].key) \in Buckets
  <2>1. loc[t].key \in Nat
    BY Fields DEF HashSetting, Base, Standing
  <2> QED BY <2>1, KeyBucket DEF HashInv
<1>1. ASSUME NEW k \in Keys, LookupCall(t, k) PROVE Base' /\ Own' /\ HashInv'
  <2>1. PICK l : Moves(t, "begin", l) /\ Held(t) = {}
    BY <1>1, HashPlaces, LookupCalls DEF HashSetting
  <2>2. Quiet /\ UNCHANGED <<lock, seq, refcnt, waits>> /\ Keeps("begin", l) = {}
    BY <1>1 DEF LookupCall, tableVars, Quiet, Keeps
  <2>3. /\ Base' /\ Own' /\ \A b : In(b)' = In(b)
    BY <2>1, <2>2, QuietKeeps, HashPlaces DEF HashSetting
  <2>4. HashStands(t, "begin", l)
    BY <1>0 DEF HashStands, LockedAt
  <2>5. HashStands(t, "begin", l)'
    BY <2>2, <2>4, HashStandsSame DEF Quiet
  <2> QED BY <2>1, <2>2, <2>3, <2>5, HashOthers DEF Quiet
<1>2. ASSUME NEW k \in Keys, hashtab_lock_mod(t, k) PROVE Base' /\ Own' /\ HashInv'
  <2>1. Base' /\ Own' /\ UNCHANGED impl /\ hashtab_lock(t, k) /\ (\A b : In(b)' = In(b)) /\ k \in Nat
    BY <1>2, HashAllocates, Setting
  <2>2. PICK l, p : /\ Moves(t, p, l) /\ l.key = k /\ p \in {"add", "del"}
                    /\ \A x \in Objects : mem[x] # "free" => mem'[x] = mem[x]
                    /\ p = "add" => mem'[l.cur] = "live"
    <3>1. PICK l : /\ l.key = k /\ l.own = {} /\ l.gp = {}
                   /\ \/ \E o \in Objects : /\ Moves(t, "add", l) /\ l.cur = o /\ mem[o] = "free"
                                            /\ mem' = [mem EXCEPT ![o] = "live"]
                      \/ Moves(t, "del", l) /\ l.cur = NULL /\ mem' = mem
      BY <1>2, HashAllocates
    <3>2. CASE \E o \in Objects : Moves(t, "add", l) /\ l.cur = o /\ mem[o] = "free" /\ mem' = [mem EXCEPT ![o] = "live"]
      BY <3>1, <3>2 DEF HashSetting, Base, Typed
    <3>3. CASE Moves(t, "del", l) /\ l.cur = NULL /\ mem' = mem
      BY <3>1, <3>3
    <3> QED BY <3>1, <3>2, <3>3
  <2>3. /\ impl # "hash_unsync" => lock'[LockOf(k)] = t
        /\ \A u \in Threads \ {t} : LockedAt(pc[u]) /\ impl # "hash_unsync" => lock'[LockOf(loc[u].key)] = lock[LockOf(loc[u].key)]
    BY <2>1, HashLocks
  <2>4. HashStands(t, p, l)'
    <3>1. LockOf(l.key)' = LockOf(k)
      BY <2>1, <2>2 DEF LockOf
    <3> QED BY <2>1, <2>2, <2>3, <3>1 DEF HashStands, LockedAt
  <2>5. \A u \in Threads \ {t} : pc[u] = "add" => mem'[loc[u].cur] = mem[loc[u].cur]
    <3>1. \A u \in Threads : pc[u] = "add" => mem[loc[u].cur] = "live" /\ loc[u].cur \in Objects
      BY DEF HashInv, HashStands, HashSetting, Base, Standing, StandsAt
    <3> QED BY <2>2, <3>1
  <2> QED BY <2>1, <2>2, <2>3, <2>4, <2>5, HashOthers
<1>3. CASE hashtab_add(t)
  <2>1. mem[loc[t].cur] = "live"
    BY <1>0, <1>3 DEF HashStands, hashtab_add, Goto
  <2>2. PICK o \in Objects, b \in Buckets :
             /\ b = HASH2BKT(loc[t].key)
             /\ Base' /\ Own' /\ UNCHANGED <<mem, lock, impl>> /\ pc[t] = "add"
             /\ \A c \in Buckets \ {b} : In(c)' = In(c)
             /\ \E l : Moves(t, "unlock", l) /\ l.key = loc[t].key
    BY <1>3, <2>1, HashAdds
  <2>3. PICK l : Moves(t, "unlock", l) /\ l.key = loc[t].key
    BY <2>2
  <2>4. HashStands(t, "unlock", l)'
    <3>1. LockOf(l.key)' = LockOf(loc[t].key)
      BY <2>2, <2>3 DEF LockOf
    <3>2. IF impl = "hash_unsync" THEN t = 0 ELSE lock[LockOf(loc[t].key)] = t
      BY <1>0, <2>2 DEF HashStands, LockedAt
    <3> QED BY <2>2, <3>1, <3>2 DEF HashStands
  <2>5. \A u \in Threads \ {t} : LockedAt(pc[u]) => HASH2BKT(loc[u].key) # b
    BY <2>2, HashApart DEF LockedAt
  <2> QED BY <2>2, <2>3, <2>4, <2>5, HashOthers
<1>4. CASE hashtab_del(t)
  <2>1. PICK b \in Buckets, o \in Objects \union {NULL} : Base' /\ Own' /\ Deletion(t, b, o)
    BY <1>4, HashDeletes
  <2>2. b = HASH2BKT(loc[t].key) /\ UNCHANGED <<lock, impl>> /\ pc[t] = "del" /\ \A c \in Buckets \ {b} : In(c)' = In(c)
    BY <2>1 DEF Deletion
  <2>3. PICK l : Moves(t, "unlock", l) /\ l.key = loc[t].key
    BY <2>1 DEF Deletion
  <2>4. HashStands(t, "unlock", l)'
    <3>1. LockOf(l.key)' = LockOf(loc[t].key)
      BY <2>2, <2>3 DEF LockOf
    <3>2. IF impl = "hash_unsync" THEN t = 0 ELSE lock[LockOf(loc[t].key)] = t
      BY <1>0, <2>2 DEF HashStands, LockedAt
    <3> QED BY <2>2, <3>1, <3>2 DEF HashStands
  <2>5. \A u \in Threads \ {t} : LockedAt(pc[u]) => HASH2BKT(loc[u].key) # b
    BY <2>2, HashApart DEF LockedAt
  <2>6. \A u \in Threads \ {t} : pc[u] = "add" => mem'[loc[u].cur] = mem[loc[u].cur]
    <3> SUFFICES ASSUME NEW u \in Threads \ {t}, pc[u] = "add" PROVE mem'[loc[u].cur] = mem[loc[u].cur]
      OBVIOUS
    <3>1. loc[u].cur \in Objects /\ loc[u].cur \in Held(u)
      BY Setting DEF HashSetting, Base, Standing, StandsAt, Held, Keeps
    <3>2. loc[u].cur \notin Linked
      BY <3>1, Owner DEF HashSetting
    <3> QED BY <2>1, <3>1, <3>2 DEF Deletion, Quiet
  <2> QED BY <2>1, <2>2, <2>3, <2>4, <2>5, <2>6, HashOthers
<1>5. CASE hashtab_unlock_mod(t)
  <2>1. /\ Base' /\ Own' /\ Quiet /\ pc[t] = "unlock" /\ hashtab_unlock(t, loc[t].key)
        /\ \E l : \E p \in {"idle", "defer"} : Moves(t, p, l)
    BY <1>5, HashUnlocks
  <2>2. PICK l, p : Moves(t, p, l) /\ p \in {"idle", "defer"}
    BY <2>1
  <2>3. \A b : In(b)' = In(b)
    BY <2>1, ListsKept DEF Quiet
  <2>4. \A u \in Threads \ {t} : LockedAt(pc[u]) /\ impl # "hash_unsync" => lock'[LockOf(loc[u].key)] = lock[LockOf(loc[u].key)]
    BY <1>0, <2>1, HashLocks DEF LockedAt
  <2>5. HashStands(t, p, l)'
    BY <1>0, <2>1, <2>2 DEF HashStands, LockedAt, Quiet
  <2> QED BY <2>1, <2>2, <2>3, <2>4, <2>5, HashOthers DEF Quiet
<1>6. CASE defer_del(t)
  <2>1. PICK o \in Objects : /\ Base' /\ Own' /\ UNCHANGED <<list, akey, impl, lock>> /\ pc[t] = "defer" /\ Held(t) = {o}
                             /\ Moves(t, "idle", Registers) /\ (\A c : In(c)' = In(c))
                             /\ mem' = [mem EXCEPT ![o] = IF Rcu THEN "callback" ELSE "free"]
    BY <1>6, HashDefers
  <2>2. HashStands(t, "idle", Registers)'
    BY DEF HashStands, LockedAt
  <2>3. \A u \in Threads \ {t} : pc[u] = "add" => mem'[loc[u].cur] = mem[loc[u].cur]
    <3> SUFFICES ASSUME NEW u \in Threads \ {t}, pc[u] = "add" PROVE mem'[loc[u].cur] = mem[loc[u].cur]
      OBVIOUS
    <3>1. loc[u].cur \in Objects /\ loc[u].cur \in Held(u)
      BY Setting DEF HashSetting, Base, Standing, StandsAt, Held, Keeps
    <3>2. loc[u].cur # o
      BY <2>1, <3>1, Owner DEF HashSetting
    <3> QED BY <2>1, <3>1, <3>2 DEF HashSetting, Base, Typed
  <2> QED BY <2>1, <2>2, <2>3, HashOthers
<1> QED BY <1>1, <1>2, <1>3, <1>4, <1>5, <1>6

\* The hash tables keep what they have in common, every entry somewhere, and their locks.
LEMMA HashKeeps ==
  ASSUME HashSetting, HashInv, NEW t \in Threads, HashStep(t)
  PROVE  HashSetting' /\ HashInv'
<1>1. CASE HashOperations(t) /\ (impl = "hash_unsync" => t = 0)
  <2>1. Base' /\ Own' /\ HashInv'
    BY <1>1, HashLookupKeeps, HashUpdateKeeps DEF HashOperations
  <2>2. UNCHANGED impl
    BY <1>1 DEF HashOperations, LookupStep, hashtab_lookup, LookupCall, hashtab_lock_mod, hashtab_lock_lookup, Load, Compare,
                hashtab_unlock_lookup, Return, hashtab_add, hashtab_del, hashtab_unlock_mod, defer_del
  <2> QED BY <2>1, <2>2 DEF HashSetting
<1>2. ASSUME NEW o \in Objects, defer_del_rcu(o) PROVE HashSetting' /\ HashInv'
  <2>1. mem[o] = "callback" /\ Free({o}) /\ UNCHANGED <<list, stale, akey, impl, lock, seq, refcnt, waits, pc, loc>>
    BY <1>2 DEF defer_del_rcu, tableVars
  <2>2. /\ Base' /\ Own' /\ (\A c : In(c)' = In(c)) /\ \A x \in Objects : mem'[x] = IF x = o THEN "free" ELSE mem[x]
    BY <2>1, CallbackFrees DEF HashSetting
  <2>3. Moves(t, pc[t], loc[t])
    BY <2>1, Stays DEF HashSetting
  <2>4. \A u \in Threads : pc[u] = "add" => mem'[loc[u].cur] = mem[loc[u].cur]
    <3> SUFFICES ASSUME NEW u \in Threads, pc[u] = "add" PROVE mem'[loc[u].cur] = mem[loc[u].cur]
      OBVIOUS
    <3>1. loc[u].cur \in Objects /\ mem[loc[u].cur] = "live"
      BY DEF HashSetting, Base, Standing, StandsAt, HashInv, HashStands
    <3> QED BY <2>1, <2>2, <3>1
  <2>5. HashStands(t, pc[t], loc[t])'
    <3>1. HashStands(t, pc[t], loc[t]) /\ HASH2BKT(loc[t].key) \in Buckets
      BY Fields, KeyBucket DEF HashInv, HashSetting, Base, Standing
    <3> QED BY <2>1, <2>4, <3>1 DEF HashStands, LockedAt, Rcu, LockOf, HASH2BKT, In
  <2>6. PICK p, l : p = pc[t] /\ l = loc[t]
    OBVIOUS
  <2>7. HashStands(t, p, l)'
    BY <2>1, <2>5, <2>6
  <2>8. HashInv'
    BY <2>1, <2>2, <2>3, <2>4, <2>6, <2>7, HashOthers
  <2> QED BY <2>1, <2>2, <2>8 DEF HashSetting
<1> QED BY <1>1, <1>2 DEF HashStep, hash_bkt, hash_global, hash_unsync, hash_bkt_rcu

-----------------------------------------------------------------------------
\* Where a reader is inside a read-side critical section
Section ==
  IF impl \in RcuRoutes THEN {"load", "compare", "found", "check", "unlock", "end", "lost"} ELSE {"load", "compare", "found"}

\* A thread at place p with registers l, which holds what it has unlinked, has not waited for reader r yet.
NotYet(p, l, r) ==
  \/ p \in {"clear", "deleted", "unlock", "defer"}
  \/ p = "synchronize" /\ impl = "route_rcu" /\ r \in l.gp
  \/ p = "synchronize" /\ Cacm /\ l.snap <= r

\* Entry o will not be freed before r, which looks through bucket b, has left its section: it is
\* linked, its callback waits for r, or its holder has not waited for r yet.
Guarded(r, b, o) ==
  \/ o \in In(b)
  \/ mem[o] = "callback" /\ r \in waits[o]
  \/ \E t \in Threads : o \in Held(t) /\ NotYet(pc[t], loc[t], r)

\* The entries of the other lists of route_rcu.c's route_clear() that will not be freed before r has left
Junk(r) == {o \in Objects : impl = "route_rcu" /\ \E t \in Threads : o \in loc[t].own /\ NotYet(pc[t], loc[t], r)}

\* The entries P that r can come to from bucket b: they are guarded, and their pointers lead to one
\* another, or to the other list.
Reach(r, b, P) ==
  /\ In(b) \subseteq P
  /\ \A o \in P : Guarded(r, b, o)
  /\ \A o \in P : o \notin In(b) => stale[o] \in P \union {NULL} \/ (impl = "route_rcu" /\ \E t \in Threads : o \in loc[t].own)

\* A reader at place p with registers l is at one of the entries P, or, if it is tainted, of J.
Among(p, l, P, J) ==
  /\ p \in {"load", "compare"} => l.from \in P \union J \union {NULL}
  /\ p \in {"compare", "check"} => l.cur \in P \union J
  /\ p = "found" => l.cur \in P \union J \/ (impl \in Hashes /\ l.cur = NULL)
  /\ ~ l.tainted => /\ p \in {"load", "compare"} => l.from \in P \union {NULL}
                    /\ p \in {"compare", "check"} => l.cur \in P
                    /\ p = "found" => l.cur \in P \union {NULL}

\* What keeps a reader safe
ReaderSafe(r, p, l) == p \in Section => \E P \in SUBSET Objects : Reach(r, Bucket(l.key), P) /\ Among(p, l, P, Junk(r))

\* What a thread that updates knows: the entry it will unlink is linked, and the entries that
\* route_rcu.c's route_clear() has moved lead to one another and to the header of the other list.
Updates(t, p, l) ==
  /\ impl \in RcuRoutes /\ p \in {"unlink", "clear"} => lock[0] = t
  /\ p = "unlink" => l.cur \in In(0)
  /\ impl = "route_rcu" => /\ \A o \in l.own : stale[o] \in l.own \union {JUNK}
                           /\ p = "clear" => l.from \in l.own /\ l.cur = NULL
                           /\ p = "deleted" => l.cur \in Objects /\ l.own = {}

\* The invariant of the programs that use RCU
RcuInv ==
  /\ nesting = [t \in Threads |-> IF pc[t] \in Section THEN 1 ELSE 0]
  /\ \A t \in Threads : Updates(t, pc[t], loc[t])
  /\ \A t \in Threads : ReaderSafe(t, pc[t], loc[t])

RcuSetting == UsesRcu /\ Base /\ Own

\* What is guarded has not been freed.
LEMMA GuardedNotFree ==
  ASSUME RcuSetting, NEW r \in Threads, NEW b \in Buckets, NEW o \in Objects
  PROVE  /\ Guarded(r, b, o) => mem[o] # "free"
         /\ o \in Junk(r) => mem[o] # "free" /\ \E t \in Threads : o \in Held(t)
<1>1. o \in In(b) => o \in Linked
  BY OneBucket DEF RcuSetting, Base
<1>2. Guarded(r, b, o) => mem[o] # "free"
  BY <1>1, Owner DEF RcuSetting, Guarded
<1>3. o \in Junk(r) => \E t \in Threads : o \in Held(t)
  <2> SUFFICES ASSUME o \in Junk(r) PROVE \E t \in Threads : o \in Held(t)
    OBVIOUS
  <2>1. PICK t \in Threads : o \in loc[t].own /\ impl = "route_rcu"
    BY DEF Junk
  <2>2. pc[t] \in {"clear", "deleted", "synchronize", "free"}
    BY <2>1 DEF RcuSetting, Base, Standing, StandsAt, RcuRoutes
  <2> QED BY <2>1, <2>2 DEF Held, Keeps
<1> QED BY <1>2, <1>3, Owner DEF RcuSetting

\* A thread at place p with registers l is safe after a step that leaves it there.
LEMMA SafeThen ==
  ASSUME NEW r \in Threads, NEW p, NEW l, pc'[r] = p, loc'[r] = l, UNCHANGED impl, NEW b, b = Bucket(l.key),
         p \in Section => \E P \in SUBSET Objects : Reach(r, b, P)' /\ Among(p, l, P, Junk(r)')
  PROVE  ReaderSafe(r, pc[r], loc[r])'
<1>1. Section' = Section /\ Bucket(loc[r].key)' = b
  BY DEF Section, Bucket
<1>2. \A P \in SUBSET Objects : Reach(r, Bucket(loc[r].key), P)' <=> Reach(r, b, P)'
  BY <1>1 DEF Reach, Guarded, In
<1>3. \A P \in SUBSET Objects : Among(pc[r], loc[r], P, Junk(r))' <=> Among(p, l, P, Junk(r)')
  BY DEF Among
<1> QED BY <1>1, <1>2, <1>3 DEF ReaderSafe

\* What another reader r can come to stays what it is, but for what t links, in a step of t that takes
\* from its bucket only what t then holds and has not waited for r with, that changes no pointer r
\* could follow, and that gives back nothing that has not waited for r.
LEMMA ReachKept ==
  ASSUME RcuSetting, NEW t \in Threads, NEW p, NEW l, Moves(t, p, l), Base', NEW r \in Threads \ {t}, NEW b \in Buckets,
         NEW P \in SUBSET Objects, Reach(r, b, P), Among(pc[r], loc[r], P, Junk(r)),
         \A o \in In(b) :
            \/ o \in In(b)'
            \/ /\ o \in Keeps(p, l) /\ NotYet(p, l, r)
               /\ stale'[o] \in In(b) \union {NULL} \/ (impl = "route_rcu" /\ o \in l.own),
         \A o \in Objects : mem[o] = "callback" /\ r \in waits[o] => mem'[o] = "callback" /\ r \in waits'[o],
         NotYet(pc[t], loc[t], r) =>
            /\ \A o \in Held(t) : (o \in Keeps(p, l) /\ NotYet(p, l, r)) \/ (mem'[o] = "callback" /\ r \in waits'[o])
            /\ impl = "route_rcu" => \A o \in loc[t].own : o \in l.own /\ NotYet(p, l, r),
         \A o \in Objects : Guarded(r, b, o) /\ o \notin In(b) => stale'[o] = stale[o]
  PROVE  \E Q \in SUBSET Objects : Q = P \union In(b)' /\ Reach(r, b, Q)' /\ Among(pc[r], loc[r], Q, Junk(r)')
<1>1. /\ pc'[t] = p /\ loc'[t] = l /\ \A u \in Threads \ {t} : pc'[u] = pc[u] /\ loc'[u] = loc[u]
      /\ \A u \in Threads : Held(u)' = IF u = t THEN Keeps(p, l) ELSE Held(u)
  BY Moved DEF RcuSetting, Base
<1>2. UNCHANGED impl /\ Section' = Section /\ \A q, m, x : NotYet(q, m, x)' = NotYet(q, m, x)
  BY DEF Moves, Section, NotYet, Cacm, Fresh
<1>5. ASSUME NEW o \in Objects, Guarded(r, b, o) PROVE Guarded(r, b, o)'
  <2>1. CASE o \in In(b)
    <3>1. CASE o \in In(b)'
      BY <3>1 DEF Guarded
    <3>2. CASE o \in Keeps(p, l) /\ NotYet(p, l, r)
      BY <1>1, <1>2, <3>2 DEF Guarded
    <3> QED BY <2>1, <3>1, <3>2
  <2>2. CASE mem[o] = "callback" /\ r \in waits[o]
    BY <2>2 DEF Guarded
  <2>3. ASSUME NEW u \in Threads, o \in Held(u), NotYet(pc[u], loc[u], r) PROVE Guarded(r, b, o)'
    <3>1. CASE u = t
      <4>1. (o \in Keeps(p, l) /\ NotYet(p, l, r)) \/ (mem'[o] = "callback" /\ r \in waits'[o])
        BY <2>3, <3>1
      <4> QED BY <1>1, <1>2, <4>1 DEF Guarded
    <3>2. CASE u # t
      BY <1>1, <1>2, <2>3, <3>2 DEF Guarded
    <3> QED BY <3>1, <3>2
  <2> QED BY <1>5, <2>1, <2>2, <2>3 DEF Guarded
<1>6. Junk(r) \subseteq Junk(r)'
  <2> SUFFICES ASSUME NEW o \in Objects, impl = "route_rcu", NEW u \in Threads, o \in loc[u].own, NotYet(pc[u], loc[u], r)
               PROVE  o \in Junk(r)'
    BY DEF Junk
  <2>1. CASE u = t
    <3>1. o \in l.own /\ NotYet(p, l, r)
      BY <2>1
    <3> QED BY <1>1, <1>2, <3>1 DEF Junk
  <2>2. CASE u # t
    BY <1>1, <1>2, <2>2 DEF Junk
  <2> QED BY <2>1, <2>2
<1> DEFINE P1 == P \union In(b)'
<1>7. PICK Q : Q = P1
  OBVIOUS
<1>8. In(b)' \subseteq Objects /\ In(b) \subseteq P /\ Q \in SUBSET Objects
  <2>1. In(b)' \subseteq Objects
    BY DEF Base, Lists, In, ToSet
  <2> QED BY <1>7, <2>1 DEF Reach
<1>9. Reach(r, b, Q)'
  <2>1. \A o \in Q : Guarded(r, b, o)'
    <3>1. \A o \in P : Guarded(r, b, o)
      BY DEF Reach
    <3>2. \A o \in In(b)' : Guarded(r, b, o)'
      BY DEF Guarded
    <3> QED BY <1>5, <1>7, <3>1, <3>2
  <2>2. ASSUME NEW o \in Q, o \notin In(b)'
        PROVE  stale'[o] \in Q \union {NULL} \/ (impl' = "route_rcu" /\ \E u \in Threads : o \in loc'[u].own)
    <3>1. o \in P /\ o \in Objects /\ Guarded(r, b, o)
      BY <1>7, <2>2 DEF Reach
    <3>2. CASE o \in In(b)
      <4>1. stale'[o] \in In(b) \union {NULL} \/ (impl = "route_rcu" /\ o \in l.own)
        BY <2>2, <3>2
      <4> QED BY <1>1, <1>2, <1>7, <1>8, <4>1
    <3>3. CASE o \notin In(b)
      <4>1. stale'[o] = stale[o]
        BY <3>1, <3>3
      <4>2. CASE stale[o] \in P \union {NULL}
        BY <1>7, <4>1, <4>2
      <4>3. ASSUME impl = "route_rcu", NEW u \in Threads, o \in loc[u].own PROVE \E v \in Threads : o \in loc'[v].own
        <5>1. CASE u # t
          BY <1>1, <4>3, <5>1
        <5>2. CASE u = t
          <6>1. pc[t] \in {"clear", "deleted", "synchronize", "free"}
            BY <4>3, <5>2 DEF RcuSetting, Base, Standing, StandsAt, RcuRoutes
          <6>2. o \in Held(t)
            BY <4>3, <5>2, <6>1 DEF Held, Keeps
          <6>3. o \notin Linked /\ mem[o] # "callback" /\ \A v \in Threads \ {t} : o \notin Held(v)
            BY <3>1, <6>2, Owner DEF RcuSetting
          <6>4. NotYet(pc[t], loc[t], r)
            BY <3>1, <3>3, <6>3 DEF Guarded
          <6> QED BY <1>1, <4>3, <5>2, <6>4
        <5> QED BY <5>1, <5>2
      <4>4. stale[o] \in P \union {NULL} \/ (impl = "route_rcu" /\ \E u \in Threads : o \in loc[u].own)
        BY <3>1, <3>3 DEF Reach
      <4> QED BY <1>2, <4>2, <4>3, <4>4
    <3> QED BY <3>2, <3>3
  <2>3. In(b)' \subseteq Q
    BY <1>7
  <2> QED BY <2>1, <2>2, <2>3 DEF Reach
<1>10. Among(pc[r], loc[r], Q, Junk(r)')
  <2>1. P \subseteq Q
    BY <1>7
  <2> QED BY <1>6, <2>1 DEF Among
<1> QED BY <1>7, <1>8, <1>9, <1>10

\* So another reader stays safe.
LEMMA ReaderKept ==
  ASSUME RcuSetting, NEW t \in Threads, NEW p, NEW l, Moves(t, p, l), Base', NEW r \in Threads \ {t},
         ReaderSafe(r, pc[r], loc[r]), NEW b \in Buckets, b = Bucket(loc[r].key),
         pc[r] \in Section => \A o \in In(b) :
            \/ o \in In(b)'
            \/ /\ o \in Keeps(p, l) /\ NotYet(p, l, r)
               /\ stale'[o] \in In(b) \union {NULL} \/ (impl = "route_rcu" /\ o \in l.own),
         pc[r] \in Section => \A o \in Objects : mem[o] = "callback" /\ r \in waits[o] => mem'[o] = "callback" /\ r \in waits'[o],
         pc[r] \in Section /\ NotYet(pc[t], loc[t], r) =>
            /\ \A o \in Held(t) : (o \in Keeps(p, l) /\ NotYet(p, l, r)) \/ (mem'[o] = "callback" /\ r \in waits'[o])
            /\ impl = "route_rcu" => \A o \in loc[t].own : o \in l.own /\ NotYet(p, l, r),
         pc[r] \in Section => \A o \in Objects : Guarded(r, b, o) /\ o \notin In(b) => stale'[o] = stale[o]
  PROVE  ReaderSafe(r, pc[r], loc[r])'
<1>1. pc'[r] = pc[r] /\ loc'[r] = loc[r] /\ UNCHANGED impl
  BY Moved DEF RcuSetting, Base, Moves
<1>2. ASSUME pc[r] \in Section PROVE \E Q \in SUBSET Objects : Reach(r, b, Q)' /\ Among(pc[r], loc[r], Q, Junk(r)')
  <2>1. PICK P \in SUBSET Objects : Reach(r, b, P) /\ Among(pc[r], loc[r], P, Junk(r))
    BY <1>2 DEF ReaderSafe
  <2>2. \E Q \in SUBSET Objects : Q = P \union In(b)' /\ Reach(r, b, Q)' /\ Among(pc[r], loc[r], Q, Junk(r)')
    BY <1>2, <2>1, ReachKept
  <2> QED BY <2>2
<1>3. PICK q, m : q = pc[r] /\ m = loc[r]
  OBVIOUS
<1>4. q \in Section => \E Q \in SUBSET Objects : Reach(r, b, Q)' /\ Among(q, m, Q, Junk(r)')
  BY <1>2, <1>3
<1>5. pc'[r] = q /\ loc'[r] = m /\ b = Bucket(m.key)
  BY <1>1, <1>3
<1> QED BY <1>1, <1>4, <1>5, SafeThen

\* The other threads that update know what they knew, if t does not unlink under a lock that it does not have.
LEMMA UpdatesKept ==
  ASSUME RcuSetting, NEW t \in Threads, NEW p, NEW l, Moves(t, p, l), NEW u \in Threads \ {t}, Updates(u, pc[u], loc[u]),
         impl \in RcuRoutes /\ lock[0] = u => lock'[0] = u /\ In(0) \subseteq In(0)',
         impl = "route_rcu" => \A o \in loc[u].own : stale'[o] = stale[o]
  PROVE  Updates(u, pc[u], loc[u])'
<1>1. pc'[u] = pc[u] /\ loc'[u] = loc[u] /\ UNCHANGED impl
  BY Moved DEF RcuSetting, Base, Moves
<1>2. impl' \in RcuRoutes /\ pc'[u] \in {"unlink", "clear"} => lock'[0] = u
  BY <1>1 DEF Updates
<1>3. impl' \in RcuRoutes /\ pc'[u] = "unlink" => loc'[u].cur \in In(0)'
  BY <1>1 DEF Updates
<1>4. impl' = "route_rcu" => /\ \A o \in loc'[u].own : stale'[o] \in loc'[u].own \union {JUNK}
                             /\ pc'[u] = "clear" => loc'[u].from \in loc'[u].own /\ loc'[u].cur = NULL
                             /\ pc'[u] = "deleted" => loc'[u].cur \in Objects /\ loc'[u].own = {}
  BY <1>1 DEF Updates
<1>5. impl \notin RcuRoutes => ~ (impl = "route_rcu")
  BY DEF RcuRoutes
<1>6. impl \notin RcuRoutes => Updates(u, pc[u], loc[u])'
  <2>1. impl \notin RcuRoutes => impl = "hash_bkt_rcu"
    BY DEF RcuSetting, UsesRcu
  <2>2. impl \notin RcuRoutes => pc[u] # "unlink"
    BY <2>1 DEF RcuSetting, Base, Standing, Places, RcuRoutes
  <2> QED BY <1>1, <1>2, <1>3, <1>4, <2>1, <2>2 DEF Updates
<1> QED BY <1>1, <1>2, <1>3, <1>4, <1>6 DEF Updates

\* The parts of the invariant
LEMMA RcuThen ==
  ASSUME RcuSetting, RcuInv, NEW t \in Threads, NEW p, NEW l, Moves(t, p, l),
         nesting' = [nesting EXCEPT ![t] = IF p \in Section THEN 1 ELSE 0],
         Updates(t, p, l)', \A u \in Threads \ {t} : Updates(u, pc[u], loc[u])',
         \A r \in Threads \ {t} : ReaderSafe(r, pc[r], loc[r])',
         NEW b, b = Bucket(l.key),
         p \in Section => \E P \in SUBSET Objects : Reach(t, b, P)' /\ Among(p, l, P, Junk(t)')
  PROVE  RcuInv'
<1>1. pc'[t] = p /\ loc'[t] = l /\ (\A u \in Threads \ {t} : pc'[u] = pc[u] /\ loc'[u] = loc[u]) /\ UNCHANGED impl
  BY Moved DEF RcuSetting, Base, Moves
<1>2. ReaderSafe(t, pc[t], loc[t])'
  BY <1>1, SafeThen
<1>3. Updates(t, pc[t], loc[t])'
  BY <1>1 DEF Updates
<1>4. nesting' = [u \in Threads |-> IF pc'[u] \in Section' THEN 1 ELSE 0]
  <2>1. Section' = Section
    BY <1>1 DEF Section
  <2> QED BY <1>1, <2>1 DEF RcuInv
<1> QED BY <1>2, <1>3, <1>4 DEF RcuInv

\* A step of a thread that holds nothing and leaves the memory alone
LEMMA ReachSame ==
  ASSUME RcuSetting, NEW t \in Threads, NEW p, NEW l, Moves(t, p, l), Quiet, Held(t) = {}, Keeps(p, l) = {},
         loc[t].own = {}, l.own = {}, NEW r \in Threads, \A o \in Objects : r \in waits[o] => r \in waits'[o]
  PROVE  /\ \A b, P : P \in SUBSET Objects /\ Reach(r, b, P) => Reach(r, b, P)'
         /\ Junk(r)' = Junk(r)
<1>1. /\ pc'[t] = p /\ loc'[t] = l /\ \A u \in Threads \ {t} : pc'[u] = pc[u] /\ loc'[u] = loc[u]
      /\ \A u \in Threads : Held(u)' = Held(u)
  BY Moved DEF RcuSetting, Base
<1>2. UNCHANGED <<list, stale, mem, impl>> /\ \A q, m, x : NotYet(q, m, x)' = NotYet(q, m, x)
  BY DEF Quiet, NotYet, Cacm, Fresh
<1>3. \A u \in Threads : loc'[u].own = loc[u].own /\ \A o \in loc[u].own : NotYet(pc'[u], loc'[u], r) <=> NotYet(pc[u], loc[u], r)
  BY <1>1
<1>4. Junk(r)' = Junk(r)
  <2>1. Junk(r)' = {o \in Objects : impl = "route_rcu" /\ \E u \in Threads : o \in loc'[u].own /\ NotYet(pc'[u], loc'[u], r)}
    BY <1>2 DEF Junk
  <2> QED BY <1>3, <2>1 DEF Junk
<1>5. \A b : \A o \in Objects : Guarded(r, b, o) => Guarded(r, b, o)'
  <2> SUFFICES ASSUME NEW b, NEW o \in Objects, Guarded(r, b, o) PROVE Guarded(r, b, o)'
    OBVIOUS
  <2>1. CASE o \in In(b)
    BY <1>2, <2>1 DEF Guarded, In
  <2>2. CASE mem[o] = "callback" /\ r \in waits[o]
    BY <1>2, <2>2 DEF Guarded
  <2>3. CASE \E u \in Threads : o \in Held(u) /\ NotYet(pc[u], loc[u], r)
    BY <1>1, <1>2, <2>3 DEF Guarded
  <2> QED BY <2>1, <2>2, <2>3 DEF Guarded
<1>6. ASSUME NEW b, NEW P \in SUBSET Objects, Reach(r, b, P) PROVE Reach(r, b, P)'
  <2>1. In(b)' = In(b)
    BY <1>2 DEF In
  <2>2. \A o \in P : Guarded(r, b, o)'
    BY <1>5, <1>6 DEF Reach
  <2>3. \A o \in P : o \notin In(b) => stale'[o] \in P \union {NULL} \/ (impl' = "route_rcu" /\ \E u \in Threads : o \in loc'[u].own)
    BY <1>2, <1>3, <1>6 DEF Reach
  <2> QED BY <1>6, <2>1, <2>2, <2>3 DEF Reach
<1> QED BY <1>4, <1>6

\* A step of a reader, or of any thread that holds nothing and leaves the memory alone
LEMMA RcuReads ==
  ASSUME RcuSetting, RcuInv, NEW t \in Threads, NEW p, NEW l, Moves(t, p, l), Quiet, Held(t) = {}, Keeps(p, l) = {},
         loc[t].own = {}, l.own = {}, p \notin {"unlink", "clear", "deleted"},
         impl \in RcuRoutes => lock' = lock,
         \A r \in Threads : r # t \/ p \in Section => \A o \in Objects : r \in waits[o] => r \in waits'[o],
         nesting' = [nesting EXCEPT ![t] = IF p \in Section THEN 1 ELSE 0],
         p \in Section => \E P \in SUBSET Objects : Reach(t, Bucket(l.key), P) /\ Among(p, l, P, Junk(t))
  PROVE  RcuInv'
<1>1. /\ pc'[t] = p /\ loc'[t] = l /\ \A u \in Threads \ {t} : pc'[u] = pc[u] /\ loc'[u] = loc[u]
      /\ UNCHANGED impl
  <2>1. pc'[t] = p /\ loc'[t] = l /\ \A u \in Threads \ {t} : pc'[u] = pc[u] /\ loc'[u] = loc[u]
    BY Moved DEF RcuSetting, Base
  <2> QED BY <2>1 DEF Moves
<1>2. PICK b : b = Bucket(l.key)
  OBVIOUS
<1>3. p \in Section => \E P \in SUBSET Objects : Reach(t, b, P)' /\ Among(p, l, P, Junk(t)')
  BY <1>2, ReachSame
<1>4. ASSUME NEW r \in Threads \ {t} PROVE ReaderSafe(r, pc[r], loc[r])'
  <2>1. PICK q, m, c : q = pc[r] /\ m = loc[r] /\ c = Bucket(m.key)
    OBVIOUS
  <2>2. ReaderSafe(r, q, m)
    BY <2>1 DEF RcuInv
  <2>3. q \in Section => \E P \in SUBSET Objects : Reach(r, c, P)' /\ Among(q, m, P, Junk(r)')
    BY <2>1, <2>2, ReachSame DEF ReaderSafe
  <2> QED BY <1>1, <2>1, <2>3, SafeThen
<1>5. ASSUME NEW u \in Threads \ {t} PROVE Updates(u, pc[u], loc[u])'
  <2>1. Updates(u, pc[u], loc[u]) /\ In(0)' = In(0) /\ stale' = stale
    BY DEF RcuInv, Quiet, In
  <2> QED BY <2>1, UpdatesKept
<1>6. Updates(t, p, l)'
  BY DEF Updates
<1> QED BY <1>2, <1>3, <1>4, <1>5, <1>6, RcuThen

\* The pointer that a reader loads leads to what it can come to, or to the other list.
LEMMA LoadReach ==
  ASSUME RcuSetting, RcuInv, NEW t \in Threads, NEW from \in Objects \union {NULL}, NEW b \in Buckets, NEW P \in SUBSET Objects,
         Reach(t, b, P), from \in P \union Junk(t) \union {NULL}
  PROVE  LET tmp == Deref(b, from)
         IN  /\ tmp \in P \union Junk(t) \union {NULL, JUNK}
             /\ ~ (impl = "route_rcu" /\ \E u \in Threads : from \in loc[u].own) => from \in P \union {NULL} /\ tmp \in P \union {NULL}
<1> DEFINE tmp == Deref(b, from)
<1>1. In(b) \subseteq P /\ Lists
  BY DEF Reach, RcuSetting, Base
<1>2. /\ from \in In(b) \union {NULL} => tmp \in In(b) \union {NULL}
      /\ from \notin In(b) \union {NULL} => tmp = stale[from]
  BY <1>1, DerefIn
<1> HIDE DEF tmp
<1>3. CASE from \in In(b) \union {NULL}
  BY <1>1, <1>2, <1>3 DEF tmp
<1>4. CASE from \notin In(b) \union {NULL}
  <2>1. from \in Objects /\ tmp = stale[from]
    BY <1>2, <1>4
  <2>2. ASSUME impl = "route_rcu", NEW u \in Threads, from \in loc[u].own, NotYet(pc[u], loc[u], t) PROVE tmp \in Junk(t) \union {JUNK}
    <3>1. stale[from] \in loc[u].own \union {JUNK} /\ loc[u].own \subseteq Objects
      BY <2>2, Fields DEF RcuInv, Updates, RcuSetting, Base, Standing
    <3> QED BY <2>1, <2>2, <3>1 DEF Junk
  <2>3. CASE from \in Junk(t)
    BY <2>2, <2>3 DEF Junk, tmp
  <2>4. CASE from \in P
    <3>1. stale[from] \in P \union {NULL} \/ (impl = "route_rcu" /\ \E u \in Threads : from \in loc[u].own)
      BY <1>4, <2>4 DEF Reach
    <3>2. ASSUME impl = "route_rcu", NEW u \in Threads, from \in loc[u].own PROVE NotYet(pc[u], loc[u], t)
      <4>1. pc[u] \in {"clear", "deleted", "synchronize", "free"}
        BY <3>2 DEF RcuSetting, Base, Standing, StandsAt, RcuRoutes
      <4>2. from \in Held(u)
        BY <3>2, <4>1 DEF Held, Keeps
      <4>3. mem[from] # "callback" /\ \A v \in Threads \ {u} : from \notin Held(v)
        BY <2>1, <4>2, Owner DEF RcuSetting
      <4>4. Guarded(t, b, from)
        BY <2>4 DEF Reach
      <4> QED BY <1>4, <4>3, <4>4 DEF Guarded
    <3> QED BY <2>1, <2>2, <2>4, <3>1, <3>2 DEF tmp
  <2> QED BY <1>4, <2>3, <2>4
<1> QED BY <1>3, <1>4

\* The settings of the programs that use RCU
LEMMA RcuPlaces ==
  ASSUME RcuSetting
  PROVE  /\ impl \in RcuRoutes \union {"hash_bkt_rcu"} /\ impl # "route_refcnt" /\ impl # "route_seqlock"
         /\ Base /\ Own
         /\ lock \in [Locks -> Threads \union {-1}] /\ seq \in Nat /\ refcnt \in [Objects -> Int] /\ waits \in [Objects -> SUBSET Threads]
         /\ {"idle", "begin", "load", "compare", "found", "return"} \subseteq Places
         /\ {"load", "compare", "found"} \subseteq Section /\ {"idle", "begin", "return"} \intersect Section = {}
         /\ impl \in RcuRoutes =>
              /\ impl \notin Hashes /\ (impl = "route_rcu" \/ Cacm)
              /\ Places = {"idle", "begin", "load", "compare", "found", "check", "unlock", "end", "lost", "return", "unlink",
                           "deleted", "synchronize", "free", "clear"}
              /\ Section = {"load", "compare", "found", "check", "unlock", "end", "lost"}
         /\ impl \notin RcuRoutes =>
              /\ impl = "hash_bkt_rcu" /\ impl \in Hashes /\ Rcu /\ impl # "route_rcu" /\ ~ Cacm /\ HashSetting
              /\ Section = {"load", "compare", "found"}
<1>1. impl \in RcuRoutes \union {"hash_bkt_rcu"} /\ Base /\ Own
  BY DEF RcuSetting, UsesRcu
<1>2. lock \in [Locks -> Threads \union {-1}] /\ seq \in Nat /\ refcnt \in [Objects -> Int] /\ waits \in [Objects -> SUBSET Threads]
  BY <1>1 DEF Base, Typed
<1>3. CASE impl \in RcuRoutes
  <2>1. impl \in {"route_rcu", "route_cacm", "route_cacm_fresh", "route_cacm_fresh_c11"}
    BY <1>3 DEF RcuRoutes
  <2>2. impl \notin Hashes /\ (impl = "route_rcu" \/ Cacm) /\ impl # "route_refcnt" /\ impl # "route_seqlock"
    BY <2>1 DEF Hashes, Cacm, Fresh
  <2>3. Places = {"idle", "begin", "load", "compare", "found", "check", "unlock", "end", "lost", "return", "unlink",
                  "deleted", "synchronize", "free", "clear"}
    BY <1>3, <2>1 DEF Places
  <2>4. Section = {"load", "compare", "found", "check", "unlock", "end", "lost"}
    BY <1>3 DEF Section
  <2> QED BY <1>1, <1>2, <1>3, <2>2, <2>3, <2>4
<1>4. CASE impl \notin RcuRoutes
  <2>1. impl = "hash_bkt_rcu" /\ impl \in Hashes /\ HashSetting
    BY <1>1, <1>4 DEF Hashes, HashSetting
  <2>2. Rcu /\ ~ Cacm /\ Section = {"load", "compare", "found"}
    BY <1>4, <2>1 DEF Rcu, Cacm, Fresh, Section
  <2> QED BY <1>1, <1>2, <1>4, <2>1, <2>2, HashPlaces
<1> QED BY <1>3, <1>4

\* A reader loads a pointer.
LEMMA RcuLoad ==
  ASSUME RcuSetting, RcuInv, NEW t \in Threads, NEW end \in {"end", "found"}, Load(t, "compare", end),
         end = IF impl \in RcuRoutes THEN "end" ELSE "found"
  PROVE  Base' /\ Own' /\ RcuInv'
<1>1. /\ impl \in RcuRoutes \union {"hash_bkt_rcu"} /\ "compare" \in Places /\ end \in Places
      /\ end = "found" => impl \in Hashes
      /\ impl # "route_rcu" \/ "lost" \in Places
      /\ "compare" \in Section /\ end \in Section /\ "load" \in Section
      /\ lock \in [Locks -> Threads \union {-1}] /\ seq \in Nat /\ refcnt \in [Objects -> Int] /\ waits \in [Objects -> SUBSET Threads]
  BY RcuPlaces
<1> DEFINE tm == Deref(Bucket(loc[t].key), loc[t].from)
           moved == impl = "route_rcu" /\ \E u \in Threads : loc[t].from \in loc[u].own
<1>2. /\ pc[t] = "load" /\ tm \in Objects \union {NULL, JUNK} /\ (tm = JUNK => impl = "route_rcu")
      /\ Bucket(loc[t].key) \in Buckets
      /\ loc[t].from \in Objects \union {NULL} /\ loc[t].own = {}
      /\ \E l : /\ Moves(t, IF tm = NULL THEN end ELSE IF tm = JUNK THEN "lost" ELSE "compare", l)
                /\ l.key = loc[t].key /\ l.from = loc[t].from /\ l.cur = tm /\ l.own = {}
                /\ l.tainted <=> \/ loc[t].tainted
                                 \/ loc[t].from # NULL /\ mem[loc[t].from] = "free"
                                 \/ moved
  BY <1>1, Loads DEF RcuSetting
<1>3. PICK b \in Buckets, P \in SUBSET Objects : b = Bucket(loc[t].key) /\ Reach(t, b, P) /\ Among("load", loc[t], P, Junk(t))
  BY <1>1, <1>2 DEF RcuInv, ReaderSafe
<1>4. loc[t].from \in P \union Junk(t) \union {NULL} /\ (~ loc[t].tainted => loc[t].from \in P \union {NULL})
  BY <1>3 DEF Among
<1>5. /\ tm \in P \union Junk(t) \union {NULL, JUNK}
      /\ ~ moved => loc[t].from \in P \union {NULL} /\ tm \in P \union {NULL}
  BY <1>2, <1>3, <1>4, LoadReach
<1>6. \E tmp : tmp = tm
  OBVIOUS
<1> HIDE DEF tm, moved
<1>7. PICK p, l, tmp : /\ tmp = tm /\ p = (IF tmp = NULL THEN end ELSE IF tmp = JUNK THEN "lost" ELSE "compare") /\ Moves(t, p, l)
                       /\ l.key = loc[t].key /\ l.from = loc[t].from /\ l.cur = tmp /\ l.own = {}
                       /\ l.tainted <=> \/ loc[t].tainted
                                        \/ loc[t].from # NULL /\ mem[loc[t].from] = "free"
                                        \/ moved
  BY <1>2, <1>6
<1>8. p \in Section /\ p \in {"end", "found", "lost", "compare"}
  BY <1>1, <1>2, <1>7, RcuPlaces
<1>9. Keeps(p, l) = {} /\ Held(t) = {}
  BY <1>2, <1>8 DEF Keeps, Held
<1>10. Quiet /\ UNCHANGED <<lock, seq, refcnt, waits, nesting>>
  BY DEF Load, tableVars, Quiet
<1>11. Among(p, l, P, Junk(t))
  <2>1. p = "found" => tmp = NULL /\ impl \in Hashes
    BY <1>1, <1>7, <1>8
  <2>2. p = "compare" => tmp # NULL /\ tmp # JUNK
    BY <1>1, <1>7, <1>8
  <2>3. ~ l.tainted => ~ moved
    BY <1>7
  <2> QED BY <1>4, <1>5, <1>7, <1>8, <2>1, <2>2, <2>3 DEF Among
<1>12. nesting' = [nesting EXCEPT ![t] = IF p \in Section THEN 1 ELSE 0]
  <2>1. nesting = [u \in Threads |-> IF pc[u] \in Section THEN 1 ELSE 0]
    BY DEF RcuInv
  <2> QED BY <1>1, <1>2, <1>8, <1>10, <2>1
<1>13. Base' /\ Own'
  BY <1>1, <1>7, <1>9, <1>10, QuietKeeps DEF RcuSetting
<1>14. RcuInv'
  <2>1. Reach(t, Bucket(l.key), P)
    BY <1>3, <1>7
  <2> QED BY <1>2, <1>7, <1>8, <1>9, <1>10, <1>11, <1>12, <2>1, RcuReads
<1> QED BY <1>13, <1>14

\* A reader compares the key of the entry it is at.
LEMMA RcuCompare ==
  ASSUME RcuSetting, RcuInv, NEW t \in Threads, Compare(t, "found", "load")
  PROVE  Base' /\ Own' /\ RcuInv'
<1>1. /\ {"load", "compare", "found"} \subseteq Section /\ {"found", "load"} \subseteq Places
      /\ lock \in [Locks -> Threads \union {-1}] /\ seq \in Nat /\ refcnt \in [Objects -> Int] /\ waits \in [Objects -> SUBSET Threads]
  BY RcuPlaces
<1>2. /\ pc[t] = "compare" /\ loc[t].cur \in Objects /\ loc[t].own = {}
      /\ \E l : \E p \in {"found", "load"} :
             /\ Moves(t, p, l) /\ l.own = {} /\ l.key = loc[t].key
             /\ p = "found" => l.cur = loc[t].cur
             /\ p = "load" => l.from = loc[t].cur
             /\ loc[t].tainted => l.tainted
  <2>1. /\ pc[t] = "compare" /\ loc[t].cur \in Objects /\ loc[t].own = {}
        /\ \E l : /\ Moves(t, IF akey[loc[t].cur] = loc[t].key THEN "found" ELSE "load", l) /\ l.own = {} /\ l.key = loc[t].key
                  /\ l.from = (IF akey[loc[t].cur] = loc[t].key THEN loc[t].from ELSE loc[t].cur) /\ l.cur = loc[t].cur
                  /\ l.tainted <=> loc[t].tainted \/ mem[loc[t].cur] = "free"
    BY <1>1, Compares DEF RcuSetting
  <2> QED BY <2>1
<1>3. PICK l, p : /\ Moves(t, p, l) /\ l.own = {} /\ l.key = loc[t].key /\ p \in {"found", "load"}
                  /\ (p = "found" => l.cur = loc[t].cur) /\ (p = "load" => l.from = loc[t].cur)
                  /\ (loc[t].tainted => l.tainted)
  BY <1>2
<1>4. Quiet /\ UNCHANGED <<lock, seq, refcnt, waits, nesting>>
  BY DEF Compare, tableVars, Quiet
<1>5. Keeps(p, l) = {} /\ Held(t) = {}
  BY <1>2, <1>3 DEF Keeps, Held
<1>6. Base' /\ Own'
  BY <1>1, <1>3, <1>4, <1>5, QuietKeeps DEF RcuSetting
<1>7. PICK P \in SUBSET Objects : Reach(t, Bucket(loc[t].key), P) /\ Among("compare", loc[t], P, Junk(t))
  BY <1>1, <1>2 DEF RcuInv, ReaderSafe
<1>8. Reach(t, Bucket(l.key), P) /\ Among(p, l, P, Junk(t))
  BY <1>3, <1>7 DEF Among
<1>9. nesting' = [nesting EXCEPT ![t] = IF p \in Section THEN 1 ELSE 0]
  <2>1. nesting = [u \in Threads |-> IF pc[u] \in Section THEN 1 ELSE 0]
    BY DEF RcuInv
  <2> QED BY <1>1, <1>2, <1>3, <1>4, <2>1
<1>10. RcuInv'
  BY <1>2, <1>3, <1>4, <1>5, <1>8, <1>9, RcuReads
<1> QED BY <1>6, <1>10

\* The nesting of a thread that does not enter or leave a section
LEMMA SameNesting ==
  ASSUME RcuInv, NEW t \in Threads, NEW p, (pc[t] \in Section <=> p \in Section)
  PROVE  nesting = [nesting EXCEPT ![t] = IF p \in Section THEN 1 ELSE 0]
<1>1. nesting = [u \in Threads |-> IF pc[u] \in Section THEN 1 ELSE 0]
  BY DEF RcuInv
<1> QED BY <1>1

\* A reader that has just entered can come to what is linked.
LEMMA EnterReach ==
  ASSUME RcuSetting, NEW t \in Threads, NEW b \in Buckets, NEW l \in Locs, l.from = NULL, l.tainted = FALSE
  PROVE  \E P \in SUBSET Objects : Reach(t, b, P) /\ Among("load", l, P, Junk(t))
<1>1. In(b) \in SUBSET Objects
  BY ListOf DEF RcuSetting, Base
<1>2. Reach(t, b, In(b))
  BY DEF Reach, Guarded
<1>3. Among("load", l, In(b), Junk(t))
  BY DEF Among
<1> QED BY <1>1, <1>2, <1>3

\* A lookup is called, and returns.
LEMMA RcuCalls ==
  ASSUME RcuSetting, RcuInv, NEW t \in Threads, (\E k \in Keys : LookupCall(t, k)) \/ Return(t)
  PROVE  Base' /\ Own' /\ RcuInv'
<1>1. /\ {"idle", "begin"} \subseteq Places /\ {"idle", "begin", "return"} \intersect Section = {}
      /\ lock \in [Locks -> Threads \union {-1}] /\ seq \in Nat /\ refcnt \in [Objects -> Int] /\ waits \in [Objects -> SUBSET Threads]
  BY RcuPlaces
<1>2. ASSUME NEW k \in Keys, LookupCall(t, k) PROVE Base' /\ Own' /\ RcuInv'
  <2>1. PICK l : Moves(t, "begin", l) /\ l.own = {} /\ Held(t) = {} /\ loc[t] = Registers /\ pc[t] = "idle"
    BY <1>1, <1>2, LookupCalls DEF RcuSetting
  <2>2. Keeps("begin", l) = {} /\ loc[t].own = {}
    BY <2>1, RegistersIn DEF Keeps
  <2>3. Quiet /\ UNCHANGED <<lock, seq, refcnt, nesting, waits>>
    BY <1>2 DEF LookupCall, tableVars, Quiet
  <2>4. Base' /\ Own'
    BY <1>1, <2>1, <2>2, <2>3, QuietKeeps DEF RcuSetting
  <2>5. nesting' = [nesting EXCEPT ![t] = IF "begin" \in Section THEN 1 ELSE 0]
    <3>1. pc[t] \in Section <=> "begin" \in Section
      BY <1>1, <2>1
    <3> QED BY <2>3, <3>1, SameNesting
  <2>6. "begin" \notin Section
    BY <1>1
  <2>7. RcuInv'
    BY <2>1, <2>2, <2>3, <2>5, <2>6, RcuReads
  <2> QED BY <2>4, <2>7
<1>3. CASE Return(t)
  <2>1. Base' /\ Own' /\ Quiet /\ Moves(t, "idle", Registers) /\ pc[t] = "return" /\ UNCHANGED <<lock, seq, refcnt, nesting, waits>>
    BY <1>1, <1>3, Returns DEF RcuSetting
  <2>2. Held(t) = {} /\ Keeps("idle", Registers) = {} /\ loc[t].own = {} /\ Registers.own = {}
    BY <2>1, RegistersIn DEF Held, Keeps, StandsAt, RcuSetting, Base, Standing
  <2>3. nesting' = [nesting EXCEPT ![t] = IF "idle" \in Section THEN 1 ELSE 0]
    <3>1. pc[t] \in Section <=> "idle" \in Section
      BY <1>1, <2>1
    <3> QED BY <2>1, <3>1, SameNesting
  <2>4. "idle" \notin Section
    BY <1>1
  <2>5. RcuInv'
    BY <2>1, <2>2, <2>3, <2>4, RcuReads
  <2> QED BY <2>1, <2>5
<1> QED BY <1>2, <1>3

\* rcu_read_lock(), and the beginning of a lookup of hash_bkt_rcu.c
LEMMA RcuEnters ==
  ASSUME RcuSetting, RcuInv, NEW t \in Threads,
         (impl \in RcuRoutes /\ rcu_read_lock(t)) \/ (impl \notin RcuRoutes /\ hashtab_lock_lookup(t))
  PROVE  Base' /\ Own' /\ RcuInv'
<1>1. /\ "load" \in Places /\ "load" \in Section /\ "begin" \notin Section /\ impl \in RcuRoutes \union {"hash_bkt_rcu"}
      /\ impl \notin RcuRoutes => Rcu /\ impl \in Hashes
      /\ lock \in [Locks -> Threads \union {-1}] /\ seq \in Nat /\ refcnt \in [Objects -> Int] /\ waits \in [Objects -> SUBSET Threads]
  BY RcuPlaces
<1>2. /\ pc[t] = "begin" /\ pc' = [pc EXCEPT ![t] = "load"] /\ Quiet /\ UNCHANGED <<lock, seq, refcnt, waits, loc>>
      /\ nesting' = [nesting EXCEPT ![t] = @ + 1] \/ nesting' = [nesting EXCEPT ![t] = 1]
  BY <1>1 DEF rcu_read_lock, hashtab_lock_lookup, Goto, tableVars, Quiet
<1>3. loc[t] \in Locs /\ StandsAt("begin", loc[t]) /\ loc[t].key \in Nat
  BY <1>2, Fields DEF RcuSetting, Base, Standing
<1>4. loc[t].from = NULL /\ loc[t].cur = NULL /\ loc[t].tainted = FALSE /\ loc[t].own = {}
  BY <1>1, <1>3 DEF StandsAt
<1>5. StandsAt("load", loc[t]) /\ Keeps("load", loc[t]) = {} /\ Held(t) = {}
  BY <1>2, <1>4 DEF StandsAt, Keeps, Held
<1>6. Moves(t, "load", loc[t])
  BY <1>1, <1>2, <1>5, Steps DEF Quiet, RcuSetting
<1>7. Base' /\ Own'
  BY <1>1, <1>2, <1>5, <1>6, QuietKeeps DEF RcuSetting
<1>8. nesting' = [nesting EXCEPT ![t] = IF "load" \in Section THEN 1 ELSE 0]
  <2>1. nesting = [u \in Threads |-> IF pc[u] \in Section THEN 1 ELSE 0]
    BY DEF RcuInv
  <2> QED BY <1>1, <1>2, <2>1
<1>9. Bucket(loc[t].key) \in Buckets
  BY <1>3, KeyBucket
<1>10. \E P \in SUBSET Objects : Reach(t, Bucket(loc[t].key), P) /\ Among("load", loc[t], P, Junk(t))
  BY <1>3, <1>4, <1>9, EnterReach
<1>11. RcuInv'
  BY <1>2, <1>4, <1>5, <1>6, <1>8, <1>10, RcuReads
<1> QED BY <1>7, <1>11

\* The end of a lookup of hash_bkt_rcu.c
LEMMA RcuLeaves ==
  ASSUME RcuSetting, RcuInv, NEW t \in Threads, impl \notin RcuRoutes, hashtab_unlock_lookup(t)
  PROVE  Base' /\ Own' /\ RcuInv'
<1>1. HashSetting /\ Rcu /\ "found" \in Section /\ "return" \notin Section
      /\ lock \in [Locks -> Threads \union {-1}] /\ seq \in Nat /\ refcnt \in [Objects -> Int] /\ waits \in [Objects -> SUBSET Threads]
  BY RcuPlaces
<1>2. /\ Base' /\ Own' /\ Quiet /\ Moves(t, "return", loc[t]) /\ pc[t] = "found"
      /\ waits' = [o \in Objects |-> waits[o] \ {t}]
  BY <1>1, HashEnds
<1>3. lock' = lock /\ nesting' = [nesting EXCEPT ![t] = 0]
  BY <1>1 DEF hashtab_unlock_lookup
<1>4. loc[t].own = {} /\ Keeps("return", loc[t]) = {} /\ Held(t) = {}
  BY <1>2 DEF StandsAt, Keeps, Held, RcuSetting, Base, Standing
<1>5. \A r \in Threads : r # t \/ "return" \in Section => \A o \in Objects : r \in waits[o] => r \in waits'[o]
  BY <1>1, <1>2
<1>6. nesting' = [nesting EXCEPT ![t] = IF "return" \in Section THEN 1 ELSE 0]
  BY <1>1, <1>3
<1>7. RcuInv'
  BY <1>1, <1>2, <1>3, <1>4, <1>5, <1>6, RcuReads
<1> QED BY <1>2, <1>7

\* RcuCheckFreed() and route_lookup_check()
LEMMA RcuChecks ==
  ASSUME RcuSetting, RcuInv, NEW t \in Threads, impl \in RcuRoutes, RcuCheckFreed(t) \/ route_lookup_check(t)
  PROVE  /\ Base' /\ Own' /\ RcuInv'
         /\ pc[t] = "found" => pc' = [pc EXCEPT ![t] = "check"]
<1>1. /\ {"check", "unlock"} \subseteq Places /\ {"found", "check", "unlock"} \subseteq Section /\ impl \notin Hashes
      /\ lock \in [Locks -> Threads \union {-1}] /\ seq \in Nat /\ refcnt \in [Objects -> Int] /\ waits \in [Objects -> SUBSET Threads]
  BY RcuPlaces
<1>2. Quiet /\ UNCHANGED <<lock, seq, refcnt, waits, nesting>> /\ pc[t] \in {"found", "check"} /\ (pc[t] = "found" => RcuCheckFreed(t))
      /\ (pc[t] = "check" => route_lookup_check(t))
  BY DEF RcuCheckFreed, route_lookup_check, Goto, tableVars, Quiet
<1>3. loc[t] \in Locs /\ StandsAt(pc[t], loc[t]) /\ loc[t].key \in Nat
  BY Fields DEF RcuSetting, Base, Standing
<1>4. loc[t].own = {} /\ loc[t].cur \in Objects /\ Held(t) = {}
  BY <1>1, <1>2, <1>3 DEF StandsAt, Held, Keeps
<1>5. PICK P \in SUBSET Objects : Reach(t, Bucket(loc[t].key), P) /\ Among(pc[t], loc[t], P, Junk(t))
  BY <1>1, <1>2 DEF RcuInv, ReaderSafe
<1>6. loc[t].cur \in P \union Junk(t) /\ (~ loc[t].tainted => loc[t].cur \in P)
  BY <1>1, <1>2, <1>4, <1>5, Setting DEF Among
<1>7. mem[loc[t].cur] # "free"
  <2>1. Bucket(loc[t].key) \in Buckets
    BY <1>3, KeyBucket
  <2> QED BY <1>4, <1>5, <1>6, <2>1, GuardedNotFree DEF Reach
<1>8. \E p, l : /\ pc' = [pc EXCEPT ![t] = p] /\ loc' = [loc EXCEPT ![t] = l] /\ l \in Locs /\ l.own = {} /\ l.cur = loc[t].cur
                /\ l.key = loc[t].key /\ l.from = loc[t].from /\ l.tainted = loc[t].tainted
                /\ p = IF pc[t] = "found" THEN "check" ELSE "unlock"
  <2>1. CASE pc[t] = "found"
    <3>1. pc' = [pc EXCEPT ![t] = "check"] /\ loc' = [loc EXCEPT ![t] = loc[t]]
      BY <1>2, <1>7, <2>1 DEF RcuCheckFreed, Goto, RcuSetting, Base, Standing
    <3> QED BY <1>3, <1>4, <2>1, <3>1
  <2>2. CASE pc[t] = "check"
    <3> DEFINE ret == IF Fresh /\ mem[loc[t].cur] # "live" THEN NULL ELSE loc[t].ret
               l == [loc[t] EXCEPT !.ret = ret]
    <3>1. pc' = [pc EXCEPT ![t] = "unlock"] /\ loc' = [loc EXCEPT ![t] = l]
      BY <1>2, <2>2 DEF route_lookup_check, Goto, RcuSetting, Base, Standing
    <3>2. ret \in Objects \union {NULL, JUNK}
      BY <1>3, Fields
    <3> HIDE DEF ret
    <3>3. l \in Locs /\ l.own = {} /\ l.cur = loc[t].cur /\ l.key = loc[t].key /\ l.from = loc[t].from /\ l.tainted = loc[t].tainted
      BY <1>3, <1>4, <3>2 DEF Locs
    <3> HIDE DEF l
    <3> QED BY <2>2, <3>1, <3>3
  <2> QED BY <1>2, <2>1, <2>2
<1>9. PICK p, l : /\ pc' = [pc EXCEPT ![t] = p] /\ loc' = [loc EXCEPT ![t] = l] /\ l \in Locs /\ l.own = {} /\ l.cur = loc[t].cur
                  /\ l.key = loc[t].key /\ l.from = loc[t].from /\ l.tainted = loc[t].tainted
                  /\ p = IF pc[t] = "found" THEN "check" ELSE "unlock"
  BY <1>8
<1>10. p \in {"check", "unlock"} /\ StandsAt(p, l) /\ Keeps(p, l) = {}
  BY <1>1, <1>4, <1>9 DEF StandsAt, Keeps
<1>11. Moves(t, p, l)
  BY <1>1, <1>2, <1>9, <1>10 DEF Moves, Quiet
<1>12. Base' /\ Own'
  BY <1>1, <1>2, <1>4, <1>10, <1>11, QuietKeeps DEF RcuSetting
<1>13. nesting' = [nesting EXCEPT ![t] = IF p \in Section THEN 1 ELSE 0]
  BY <1>1, <1>2, <1>10, SameNesting
<1>14. Reach(t, Bucket(l.key), P) /\ Among(p, l, P, Junk(t))
  BY <1>5, <1>6, <1>9, <1>10 DEF Among
<1>15. RcuInv'
  BY <1>2, <1>4, <1>9, <1>10, <1>11, <1>13, <1>14, RcuReads
<1> QED BY <1>9, <1>12, <1>15

\* A reader that is lost stays where it is.
LEMMA RcuLost ==
  ASSUME RcuSetting, RcuInv, NEW t \in Threads, Lost(t)
  PROVE  Base' /\ Own' /\ RcuInv'
<1>1. UNCHANGED <<impl, list, stale, akey, mem, lock, seq, refcnt, nesting, waits, pc, loc>>
  BY DEF Lost, tableVars
<1>2. Base' /\ Own'
  <2>1. /\ lock' \in [Locks -> Threads \union {-1}] /\ seq' \in Nat /\ refcnt' \in [Objects -> Int] /\ waits' \in [Objects -> SUBSET Threads]
        /\ Base /\ Own
    BY <1>1, RcuPlaces
  <2>2. Moves(t, pc[t], loc[t]) /\ Keeps(pc[t], loc[t]) = Held(t) /\ Quiet
    BY <1>1, <2>1, Stays DEF Quiet
  <2> QED BY <2>1, <2>2, QuietKeeps
<1>3. RcuInv'
  BY <1>1 DEF RcuInv, Section, Updates, ReaderSafe, Reach, Among, Guarded, Junk, In, Held, Keeps, NotYet, Cacm, Fresh, Bucket, HASH2BKT
<1> QED BY <1>2, <1>3

\* Assigning a field what it already has
LEMMA SameGp ==
  ASSUME NEW l \in Locs
  PROVE  [l EXCEPT !.gp = l.gp] = l
  BY DEF Locs

\* rcu_read_unlock() also takes the reader off what every grace period waits for.
LEMMA RcuUnlocks ==
  ASSUME RcuSetting, RcuInv, NEW t \in Threads, impl \in RcuRoutes, rcu_read_unlock(t)
  PROVE  Base' /\ Own' /\ RcuInv'
<1>1. /\ "return" \in Places /\ {"unlock", "end"} \subseteq Section /\ "return" \notin Section /\ impl \notin Hashes
      /\ lock \in [Locks -> Threads \union {-1}] /\ seq \in Nat /\ refcnt \in [Objects -> Int] /\ waits \in [Objects -> SUBSET Threads]
      /\ impl # "route_seqlock" /\ impl # "route_refcnt" /\ Base /\ Own
  BY RcuPlaces
<1>2. /\ pc[t] \in {"unlock", "end"} /\ pc' = [pc EXCEPT ![t] = "return"] /\ nesting' = [nesting EXCEPT ![t] = @ - 1]
      /\ waits' = [o \in Objects |-> waits[o] \ {t}] /\ loc' = [u \in Threads |-> [loc[u] EXCEPT !.gp = @ \ {t}]]
      /\ UNCHANGED <<impl, list, stale, akey, mem, lock, seq, refcnt>>
  BY DEF rcu_read_unlock, tableVars
<1>3. \A u \in Threads : /\ loc'[u] \in Locs /\ loc'[u].key = loc[u].key /\ loc'[u].from = loc[u].from /\ loc'[u].cur = loc[u].cur
                         /\ loc'[u].tainted = loc[u].tainted /\ loc'[u].own = loc[u].own /\ loc'[u].snap = loc[u].snap
                         /\ loc'[u].gp = loc[u].gp \ {t} /\ (loc[u] = Registers => loc'[u] = Registers)
  <2> SUFFICES ASSUME NEW u \in Threads
               PROVE  /\ loc'[u] \in Locs /\ loc'[u].key = loc[u].key /\ loc'[u].from = loc[u].from /\ loc'[u].cur = loc[u].cur
                      /\ loc'[u].tainted = loc[u].tainted /\ loc'[u].own = loc[u].own /\ loc'[u].snap = loc[u].snap
                      /\ loc'[u].gp = loc[u].gp \ {t} /\ (loc[u] = Registers => loc'[u] = Registers)
    OBVIOUS
  <2>1. loc[u] \in Locs /\ loc'[u] = [loc[u] EXCEPT !.gp = loc[u].gp \ {t}]
    BY <1>2 DEF RcuSetting, Base, Standing
  <2>2. loc[u].gp \ {t} \in SUBSET Threads
    BY <2>1, Fields
  <2>3. loc[u] = Registers => loc'[u] = Registers
    <3>1. [Registers EXCEPT !.gp = Registers.gp] = Registers /\ Registers.gp = {}
      BY SameGp, RegistersIn
    <3>2. {} \ {t} = {}
      OBVIOUS
    <3> QED BY <2>1, <3>1, <3>2
  <2> QED BY <2>1, <2>2, <2>3 DEF Locs
<1>4. pc'[t] = "return" /\ \A u \in Threads \ {t} : pc'[u] = pc[u]
  BY <1>2 DEF RcuSetting, Base, Standing
<1>5. Standing'
  <2>1. Places' = Places /\ Locs' = Locs
    BY <1>2 DEF Places, Locs
  <2>2. pc' \in [Threads -> Places] /\ loc' \in [Threads -> Locs]
    BY <1>1, <1>2, <1>3 DEF RcuSetting, Base, Standing
  <2>3. ASSUME NEW u \in Threads PROVE StandsAt(pc[u], loc[u])'
    <3>1. StandsAt(pc[u], loc[u]) /\ loc'[u].cur = loc[u].cur /\ loc'[u].own = loc[u].own /\ loc'[u].key = loc[u].key
          /\ loc'[u].from = loc[u].from /\ loc'[u].tainted = loc[u].tainted /\ (loc[u] = Registers => loc'[u] = Registers)
      BY <1>3 DEF RcuSetting, Base, Standing
    <3>2. CASE u = t
      BY <1>1, <1>2, <1>4, <3>1, <3>2 DEF StandsAt
    <3>3. CASE u # t
      <4>1. pc'[u] = pc[u]
        BY <1>4, <3>3
      <4> QED BY <1>2, <3>1, <4>1 DEF StandsAt
    <3> QED BY <3>2, <3>3
  <2> QED BY <2>1, <2>2, <2>3 DEF Standing
<1>6. Lists' /\ Linked' = Linked /\ (\A b : In(b)' = In(b)) /\ \A k : Bucket(k)' = Bucket(k)
  BY <1>2, ListsKept DEF RcuSetting, Base
<1>7. Base'
  <2>1. Typed'
    BY <1>1, <1>2 DEF RcuSetting, Base, Typed, Pointers
  <2> QED BY <1>5, <1>6, <2>1 DEF Base
<1>8. \A u \in Threads : Held(u)' = Held(u)
  <2> SUFFICES ASSUME NEW u \in Threads PROVE Held(u)' = Held(u)
    OBVIOUS
  <2>1. loc'[u].own = loc[u].own /\ loc'[u].cur = loc[u].cur /\ impl' = impl
    BY <1>2, <1>3
  <2>2. CASE u = t
    BY <1>1, <1>2, <1>4, <2>1, <2>2 DEF Held, Keeps
  <2>3. CASE u # t
    BY <1>4, <2>1, <2>3 DEF Held, Keeps
  <2> QED BY <2>2, <2>3
<1>9. Own'
  <2> DEFINE S == {}
  <2>1. /\ \A o \in Objects : o \notin S => mem'[o] = mem[o] /\ (o \in Linked' <=> o \in Linked)
        /\ \A o \in Objects : \A u \in Threads : o \notin S => (o \in Held(u)' <=> o \in Held(u))
        /\ \A o \in Objects : o \in S => OwnAt(o)'
        /\ UNCHANGED impl
    BY <1>2, <1>6, <1>8
  <2> HIDE DEF S
  <2> QED BY <2>1, OwnKept DEF RcuSetting
<1>10. nesting' = [u \in Threads |-> IF pc'[u] \in Section' THEN 1 ELSE 0]
  <2>1. Section' = Section
    BY <1>2 DEF Section
  <2>2. nesting = [u \in Threads |-> IF pc[u] \in Section THEN 1 ELSE 0] /\ nesting[t] = 1
    BY <1>1, <1>2 DEF RcuInv
  <2>3. nesting' = [nesting EXCEPT ![t] = 0]
    <3>1. nesting' = [nesting EXCEPT ![t] = nesting[t] - 1]
      BY <1>2
    <3>2. nesting[t] - 1 = 0
      BY <2>2
    <3> QED BY <3>1, <3>2
  <2> QED BY <1>1, <1>4, <2>1, <2>2, <2>3
<1>11. ASSUME NEW u \in Threads PROVE Updates(u, pc[u], loc[u])'
  <2>1. Updates(u, pc[u], loc[u]) /\ loc'[u].own = loc[u].own /\ loc'[u].cur = loc[u].cur /\ loc'[u].from = loc[u].from
        /\ UNCHANGED <<impl, lock, stale>> /\ In(0)' = In(0)
    BY <1>2, <1>3, <1>6 DEF RcuInv
  <2>2. pc'[u] = pc[u] \/ pc'[u] = "return"
    BY <1>4
  <2> QED BY <2>1, <2>2 DEF Updates
<1>12. ASSUME NEW r \in Threads PROVE ReaderSafe(r, pc[r], loc[r])'
  <2>1. CASE r = t
    <3>1. Section' = Section
      BY <1>2 DEF Section
    <3> QED BY <1>1, <1>4, <2>1, <3>1 DEF ReaderSafe
  <2>2. CASE r # t
    <3>1. PICK q, m, n, b : q = pc[r] /\ m = loc[r] /\ n = loc'[r] /\ b = Bucket(m.key)
      OBVIOUS
    <3>2. pc'[r] = q /\ n.key = m.key /\ n.from = m.from /\ n.cur = m.cur /\ n.tainted = m.tainted
      BY <1>3, <1>4, <2>2, <3>1
    <3>3. Held(t) = {} /\ loc[t].own = {}
      BY <1>1, <1>2 DEF Held, Keeps, RcuSetting, Base, Standing, StandsAt
    <3>4. ASSUME NEW u \in Threads \ {t} PROVE NotYet(pc[u], loc[u], r)' <=> NotYet(pc[u], loc[u], r)
      <4>1. pc'[u] = pc[u] /\ loc'[u].snap = loc[u].snap /\ (r \in loc'[u].gp <=> r \in loc[u].gp) /\ impl' = impl
        BY <1>2, <1>3, <1>4, <2>2
      <4> QED BY <4>1 DEF NotYet, Cacm, Fresh
    <3>5. ASSUME NEW o \in Objects, Guarded(r, b, o) PROVE Guarded(r, b, o)'
      <4>1. CASE o \in In(b)
        BY <1>6, <4>1 DEF Guarded
      <4>2. CASE mem[o] = "callback" /\ r \in waits[o]
        BY <1>2, <2>2, <4>2 DEF Guarded
      <4>3. ASSUME NEW u \in Threads, o \in Held(u), NotYet(pc[u], loc[u], r) PROVE Guarded(r, b, o)'
        <5>1. u # t /\ o \in Held(u)'
          BY <1>8, <3>3, <4>3
        <5>2. NotYet(pc[u], loc[u], r)'
          BY <3>4, <4>3, <5>1 DEF NotYet
        <5> QED BY <5>1, <5>2 DEF Guarded
      <4> QED BY <3>5, <4>1, <4>2, <4>3 DEF Guarded
    <3>6. Junk(r) \subseteq Junk(r)'
      <4> SUFFICES ASSUME NEW o \in Objects, impl = "route_rcu", NEW u \in Threads, o \in loc[u].own, NotYet(pc[u], loc[u], r)
                   PROVE  o \in Junk(r)'
        BY DEF Junk
      <4>1. u # t /\ o \in loc'[u].own /\ impl' = "route_rcu"
        BY <1>2, <1>3, <3>3
      <4>2. NotYet(pc[u], loc[u], r)'
        BY <3>4, <4>1 DEF NotYet
      <4> QED BY <4>1, <4>2 DEF Junk
    <3>7. ASSUME q \in Section PROVE \E P \in SUBSET Objects : Reach(r, b, P)' /\ Among(q, n, P, Junk(r)')
      <4>1. PICK P \in SUBSET Objects : Reach(r, b, P) /\ Among(q, m, P, Junk(r))
        BY <3>1, <3>7 DEF RcuInv, ReaderSafe
      <4>2. Reach(r, b, P)'
        <5>1. In(b)' \subseteq P /\ \A o \in P : Guarded(r, b, o)'
          BY <1>6, <3>5, <4>1 DEF Reach
        <5>2. \A o \in P : o \notin In(b)' => stale'[o] \in P \union {NULL} \/ (impl' = "route_rcu" /\ \E u \in Threads : o \in loc'[u].own)
          BY <1>2, <1>3, <1>6, <4>1 DEF Reach
        <5> QED BY <5>1, <5>2 DEF Reach
      <4>3. Among(q, n, P, Junk(r)')
        BY <3>2, <3>6, <4>1 DEF Among
      <4> QED BY <4>2, <4>3
    <3>8. loc'[r] = n /\ b = Bucket(n.key) /\ UNCHANGED impl
      BY <1>2, <3>1, <3>2
    <3> QED BY <3>2, <3>7, <3>8, SafeThen
  <2> QED BY <2>1, <2>2
<1> QED BY <1>7, <1>9, <1>10, <1>11, <1>12 DEF RcuInv

\* What a step of t, which takes it to place p with registers l, must not do to a reader r of bucket b
Spares(t, p, l, r, b) ==
  /\ \A o \in In(b) :
       \/ o \in In(b)'
       \/ /\ o \in Keeps(p, l) /\ NotYet(p, l, r)
          /\ stale'[o] \in In(b) \union {NULL} \/ (impl = "route_rcu" /\ o \in l.own)
  /\ \A o \in Objects : mem[o] = "callback" /\ r \in waits[o] => mem'[o] = "callback" /\ r \in waits'[o]
  /\ NotYet(pc[t], loc[t], r) =>
       /\ \A o \in Held(t) : (o \in Keeps(p, l) /\ NotYet(p, l, r)) \/ (mem'[o] = "callback" /\ r \in waits'[o])
       /\ impl = "route_rcu" => \A o \in loc[t].own : o \in l.own /\ NotYet(p, l, r)
  /\ \A o \in Objects : Guarded(r, b, o) /\ o \notin In(b) => stale'[o] = stale[o]

\* A step of an update
LEMMA RcuUpdates ==
  ASSUME RcuSetting, RcuInv, NEW t \in Threads, NEW p, NEW l, Moves(t, p, l), Base', nesting' = nesting,
         pc[t] \notin Section, p \notin Section, Updates(t, p, l)',
         \A u \in Threads \ {t} : impl \in RcuRoutes /\ lock[0] = u => lock'[0] = u /\ In(0) \subseteq In(0)',
         \A u \in Threads \ {t} : impl = "route_rcu" => \A o \in loc[u].own : stale'[o] = stale[o],
         \A r \in Threads \ {t} : \A b \in Buckets : pc[r] \in Section /\ b = Bucket(loc[r].key) => Spares(t, p, l, r, b)
  PROVE  RcuInv'
<1>1. ASSUME NEW u \in Threads \ {t} PROVE Updates(u, pc[u], loc[u])'
  <2>1. Updates(u, pc[u], loc[u])
    BY DEF RcuInv
  <2> QED BY <2>1, UpdatesKept
<1>2. ASSUME NEW r \in Threads \ {t} PROVE ReaderSafe(r, pc[r], loc[r])'
  <2>1. ReaderSafe(r, pc[r], loc[r]) /\ loc[r].key \in Nat
    BY Fields DEF RcuInv, RcuSetting, Base, Standing
  <2>2. PICK b \in Buckets : b = Bucket(loc[r].key)
    BY <2>1, KeyBucket
  <2>3. pc[r] \in Section => Spares(t, p, l, r, b)
    BY <2>2
  <2> QED BY <2>1, <2>2, <2>3, ReaderKept DEF Spares
<1>3. nesting' = [nesting EXCEPT ![t] = IF p \in Section THEN 1 ELSE 0]
  BY SameNesting
<1>4. PICK b : b = Bucket(l.key)
  OBVIOUS
<1> QED BY <1>1, <1>2, <1>3, <1>4, RcuThen

\* A step of an update of a routing table, which is one list
LEMMA RouteUpdates ==
  ASSUME RcuSetting, RcuInv, impl \in RcuRoutes, NEW t \in Threads, NEW p, NEW l, Moves(t, p, l), Base', nesting' = nesting,
         pc[t] \notin Section, p \notin Section, Updates(t, p, l)',
         lock[0] = t \/ lock[0] = -1 \/ (lock'[0] = lock[0] /\ In(0) \subseteq In(0)'),
         \A u \in Threads \ {t} : impl = "route_rcu" => \A o \in loc[u].own : stale'[o] = stale[o],
         \A r \in Threads \ {t} : pc[r] \in Section => Spares(t, p, l, r, 0)
  PROVE  RcuInv'
<1>1. \A k : Bucket(k) = 0
  BY RcuPlaces, OneList DEF Base
<1>2. \A u \in Threads \ {t} : impl \in RcuRoutes /\ lock[0] = u => lock'[0] = u /\ In(0) \subseteq In(0)'
  BY Setting
<1>3. \A r \in Threads \ {t} : \A b \in Buckets : pc[r] \in Section /\ b = Bucket(loc[r].key) => Spares(t, p, l, r, b)
  BY <1>1
<1> QED BY <1>2, <1>3, RcuUpdates

\* What nobody holds or links is nobody's.
LEMMA OwnedHeld ==
  ASSUME RcuSetting, NEW u \in Threads
  PROVE  loc[u].own \subseteq Held(u) /\ loc[u].own \in SUBSET Objects /\ (loc[u].own # {} => impl \in RcuRoutes)
<1>1. StandsAt(pc[u], loc[u]) /\ loc[u].own \in SUBSET Objects
  BY Fields DEF RcuSetting, Base, Standing
<1>2. loc[u].own # {} => pc[u] \in {"clear", "deleted", "synchronize", "free"} /\ impl \in RcuRoutes
  BY <1>1 DEF StandsAt
<1> QED BY <1>1, <1>2 DEF Held, Keeps

\* A callback that no reader is waited for is run.
LEMMA CallbackSafe ==
  ASSUME RcuSetting, RcuInv, NEW t \in Threads, NEW o \in Objects, mem[o] = "callback", waits[o] = {}, Free({o}),
         UNCHANGED <<list, stale, akey, impl, lock, seq, refcnt, waits, pc, loc, nesting>>
  PROVE  Base' /\ Own' /\ RcuInv'
<1>1. /\ Base' /\ Own' /\ (\A c : In(c)' = In(c)) /\ \A x \in Objects : mem'[x] = IF x = o THEN "free" ELSE mem[x]
  BY CallbackFrees DEF RcuSetting
<1>2. Section' = Section /\ (\A q, m, x : NotYet(q, m, x)' = NotYet(q, m, x)) /\ \A u : Held(u)' = Held(u)
  BY DEF Section, NotYet, Cacm, Fresh, Held, Keeps
<1>3. \A r \in Threads : Junk(r)' = Junk(r)
  BY DEF Junk, NotYet, Cacm, Fresh
<1>4. ASSUME NEW r \in Threads, NEW b, NEW x \in Objects, Guarded(r, b, x) PROVE Guarded(r, b, x)'
  <2>1. CASE x \in In(b)
    BY <1>1, <2>1 DEF Guarded
  <2>2. CASE mem[x] = "callback" /\ r \in waits[x]
    BY <1>1, <2>2 DEF Guarded
  <2>3. ASSUME NEW u \in Threads, x \in Held(u), NotYet(pc[u], loc[u], r) PROVE Guarded(r, b, x)'
    BY <1>2, <2>3 DEF Guarded, NotYet, Cacm, Fresh
  <2> QED BY <1>4, <2>1, <2>2, <2>3 DEF Guarded
<1>5. ASSUME NEW r \in Threads PROVE ReaderSafe(r, pc[r], loc[r])'
  <2>1. PICK q, m, b : q = pc[r] /\ m = loc[r] /\ b = Bucket(m.key)
    OBVIOUS
  <2>2. ASSUME q \in Section PROVE \E P \in SUBSET Objects : Reach(r, b, P)' /\ Among(q, m, P, Junk(r)')
    <3>1. PICK P \in SUBSET Objects : Reach(r, b, P) /\ Among(q, m, P, Junk(r))
      BY <2>1, <2>2 DEF RcuInv, ReaderSafe
    <3>2. Reach(r, b, P)'
      BY <1>1, <1>4, <3>1 DEF Reach
    <3> QED BY <1>3, <3>1, <3>2
  <2> QED BY <2>1, <2>2, SafeThen
<1>6. \A u \in Threads : Updates(u, pc[u], loc[u])'
  BY <1>1 DEF RcuInv, Updates
<1>7. nesting' = [u \in Threads |-> IF pc'[u] \in Section' THEN 1 ELSE 0]
  BY <1>2 DEF RcuInv
<1> QED BY <1>1, <1>5, <1>6, <1>7 DEF RcuInv

\* What the RCU routing tables have in common
LEMMA RouteSetting ==
  ASSUME RcuSetting, impl \in RcuRoutes
  PROVE  /\ Base /\ Own /\ impl \notin Hashes /\ impl # "route_seqlock" /\ impl # "route_refcnt" /\ (impl = "route_rcu" \/ Cacm)
         /\ ~ (impl = "route_rcu" /\ Cacm)
         /\ 0 \in Buckets /\ 0 \in Locks /\ Linked = In(0) /\ Linked \subseteq Objects
         /\ lock \in [Locks -> Threads \union {-1}] /\ seq \in Nat /\ refcnt \in [Objects -> Int] /\ waits \in [Objects -> SUBSET Threads]
         /\ {"idle", "unlink", "deleted", "synchronize", "free", "clear"} \subseteq Places
         /\ {"idle", "unlink", "deleted", "synchronize", "free", "clear"} \intersect Section = {}
         /\ \A t \in Threads : loc[t] \in Locs /\ StandsAt(pc[t], loc[t])
<1>1. Base /\ Own /\ impl \notin Hashes /\ impl # "route_seqlock" /\ impl # "route_refcnt" /\ (impl = "route_rcu" \/ Cacm)
  BY RcuPlaces
<1>2. ~ (impl = "route_rcu" /\ Cacm)
  BY DEF Cacm, Fresh
<1>3. 0 \in Buckets /\ 0 \in Locks /\ Linked = In(0) /\ Linked \subseteq Objects
  BY <1>1, Setting, OneList, OneBucket DEF Base
<1>4. \A t \in Threads : loc[t] \in Locs /\ StandsAt(pc[t], loc[t])
  BY <1>1 DEF Base, Standing
<1> QED BY <1>1, <1>2, <1>3, <1>4, RcuPlaces

\* route_add()
LEMMA RcuAdds ==
  ASSUME RcuSetting, RcuInv, impl \in RcuRoutes, NEW t \in Threads, NEW k \in Keys, rcu_route_add(t, k)
  PROVE  Base' /\ Own' /\ RcuInv'
<1>1. PICK o \in Objects : mem[o] = "free" /\ mem' = [mem EXCEPT ![o] = "live"] /\ Link(0, o, k)
  BY DEF rcu_route_add
<1>2. pc[t] = "idle" /\ lock[0] = -1 /\ UNCHANGED <<impl, lock, seq, refcnt, nesting, waits, pc, loc>>
  BY DEF rcu_route_add
<1>3. Moves(t, pc[t], loc[t]) /\ Keeps(pc[t], loc[t]) = Held(t)
  BY <1>2, RouteSetting, Stays
<1>4. /\ Base' /\ Own' /\ In(0)' = In(0) \union {o} /\ o \notin Linked /\ \A u \in Threads : o \notin Held(u)
      /\ \A x \in Objects \ {o} : stale'[x] = stale[x] /\ mem'[x] = mem[x]
  BY <1>1, <1>2, <1>3, RouteSetting, AddKeeps
<1>5. Updates(t, pc[t], loc[t])'
  BY <1>2, RegistersIn, RouteSetting DEF Updates, StandsAt
<1>6. \A u \in Threads \ {t} : \A x \in loc[u].own : stale'[x] = stale[x]
  BY <1>4, OwnedHeld
<1>7. PICK p, l : p = pc[t] /\ l = loc[t]
  OBVIOUS
<1>8. ASSUME NEW r \in Threads \ {t} PROVE Spares(t, p, l, r, 0)
  <2>1. \A x \in Objects : Guarded(r, 0, x) => stale'[x] = stale[x]
    BY <1>1, <1>4, RouteSetting, GuardedNotFree
  <2>2. Held(t) = {} /\ loc[t].own = {}
    BY <1>2, OwnedHeld DEF Held, Keeps
  <2>3. \A x \in Objects : mem[x] = "callback" => mem'[x] = "callback"
    BY <1>1, <1>4
  <2> QED BY <1>2, <1>4, <2>1, <2>2, <2>3 DEF Spares
<1>9. Updates(t, p, l)'
  BY <1>2, <1>5, <1>7 DEF Updates
<1>10. Moves(t, p, l) /\ pc[t] \notin Section /\ p \notin Section
  BY <1>2, <1>3, <1>7, RouteSetting
<1> QED BY <1>2, <1>4, <1>6, <1>8, <1>9, <1>10, RouteUpdates

\* route_del() finds the entry, and marks it if FRESH.
LEMMA RcuMarks ==
  ASSUME RcuSetting, RcuInv, impl \in RcuRoutes, NEW t \in Threads, NEW k \in Keys, DelMark(t, k)
  PROVE  Base' /\ Own' /\ RcuInv'
<1>1. PICK o : o = First(0, k)
  OBVIOUS
<1> DEFINE l == [loc[t] EXCEPT !.cur = o]
<1>2. /\ pc[t] = "idle" /\ pc' = [pc EXCEPT ![t] = "unlink"] /\ Acquire(t, 0) /\ o # NULL
      /\ loc' = [loc EXCEPT ![t] = l] /\ mem' = (IF Fresh THEN [mem EXCEPT ![o] = "removed"] ELSE mem)
      /\ UNCHANGED <<impl, list, stale, akey, seq, refcnt, nesting, waits>>
  BY <1>1, RouteSetting DEF DelMark, Goto, tableVars, Base, Standing
<1>3. o \in In(0) /\ o \in Objects /\ o \in Linked
  BY <1>1, <1>2, FirstIn, RouteSetting DEF Base
<1>4. loc[t] = Registers /\ loc[t].own = {} /\ Held(t) = {}
  BY <1>2, RouteSetting, RegistersIn DEF StandsAt, Held, Keeps
<1>5. l \in Locs /\ l.own = {} /\ l.cur = o
  BY <1>3, <1>4, RegistersIn DEF Locs, Registers
<1> HIDE DEF l
<1>6. StandsAt("unlink", l) /\ Keeps("unlink", l) = {}
  BY <1>3, <1>5, RouteSetting DEF StandsAt, Keeps
<1>7. Moves(t, "unlink", l)
  BY <1>2, <1>5, <1>6, RouteSetting DEF Moves
<1>8. lock[0] = -1 /\ lock' = [lock EXCEPT ![0] = t] /\ lock' \in [Locks -> Threads \union {-1}] /\ lock'[0] = t
  BY <1>2, LockTyped, RouteSetting
<1>9. Lists' /\ Linked' = Linked /\ \A b : In(b)' = In(b)
  BY <1>2, RouteSetting, ListsKept DEF Base
<1>10. mem' \in [Objects -> {"free", "live", "removed", "waiting", "callback"}] /\ (\A x \in Objects \ {o} : mem'[x] = mem[x])
       /\ (mem'[o] = "live" \/ (mem'[o] = "removed" /\ Fresh))
  <2>1. mem \in [Objects -> {"free", "live", "removed", "waiting", "callback"}]
    BY RouteSetting DEF Base, Typed
  <2>2. mem[o] = "live" \/ (mem[o] = "removed" /\ Fresh)
    BY <1>3, RouteSetting DEF Own, OwnAt
  <2> QED BY <1>2, <1>3, <2>1, <2>2
<1>11. Base'
  <2>1. Pointers' = Pointers
    BY <1>2 DEF Pointers
  <2> QED BY <1>2, <1>7, <1>8, <1>9, <1>10, <2>1, Moved, RouteSetting DEF Base, Typed
<1>12. Own'
  <2> DEFINE S == {o}
  <2>1. /\ S \in SUBSET Objects
        /\ \A x \in Objects \ S : mem'[x] = mem[x] /\ (x \in Linked' <=> x \in Linked) /\ (x \in Keeps("unlink", l) <=> x \in Held(t))
        /\ \A x \in S : \A u \in Threads \ {t} : x \notin Held(u)
        /\ \A x \in S : x \in Linked' /\ x \notin Keeps("unlink", l) /\ (mem'[x] = "live" \/ (mem'[x] = "removed" /\ Fresh))
    BY <1>3, <1>4, <1>6, <1>9, <1>10, Owner, RouteSetting
  <2> HIDE DEF S
  <2> QED BY <1>7, <2>1, OwnMoves, RouteSetting
<1>17. PICK m : m = l
  OBVIOUS
<1>13. Updates(t, "unlink", m)'
  <2>1. In(0)' = In(0)
    BY <1>2 DEF In
  <2> QED BY <1>3, <1>5, <1>8, <1>17, <2>1 DEF Updates
<1>14. ASSUME NEW r \in Threads \ {t} PROVE Spares(t, "unlink", m, r, 0)
  <2>1. \A x \in Objects : mem[x] = "callback" => mem'[x] = "callback"
    BY <1>3, <1>10, Owner, RouteSetting
  <2> QED BY <1>2, <1>4, <1>9, <1>17, <2>1 DEF Spares
<1>15. "unlink" \notin Section /\ pc[t] \notin Section
  BY <1>2, RouteSetting
<1>16. RcuInv'
  <2>1. nesting' = nesting /\ \A x : stale'[x] = stale[x]
    BY <1>2
  <2> QED BY <1>7, <1>8, <1>11, <1>13, <1>14, <1>15, <1>17, <2>1, RouteUpdates
<1> QED BY <1>11, <1>12, <1>16

\* route_del() unlinks it.
LEMMA RcuUnlinks ==
  ASSUME RcuSetting, RcuInv, impl \in RcuRoutes, NEW t \in Threads, DelUnlink(t)
  PROVE  Base' /\ Own' /\ RcuInv'
<1>1. PICK o : o = loc[t].cur
  OBVIOUS
<1>2. /\ pc[t] = "unlink" /\ pc' = [pc EXCEPT ![t] = "deleted"] /\ Unlink(0, o) /\ mem' = [mem EXCEPT ![o] = "waiting"]
      /\ lock' = [lock EXCEPT ![0] = -1] /\ UNCHANGED <<impl, akey, seq, refcnt, nesting, waits, loc>>
  BY <1>1 DEF DelUnlink, Goto, Release, Unlink
<1>3. lock[0] = t /\ o \in In(0) /\ o \in Objects /\ o \in Linked /\ loc[t].own = {} /\ o # NULL
  <2>1. Updates(t, "unlink", loc[t]) /\ StandsAt("unlink", loc[t])
    BY <1>2, RouteSetting DEF RcuInv
  <2>2. o \in Objects /\ loc[t].own = {} /\ lock[0] = t /\ o \in In(0)
    BY <1>1, <2>1 DEF Updates, StandsAt
  <2> QED BY <2>2, RouteSetting, Setting
<1>4. Held(t) = {} /\ Keeps("deleted", loc[t]) = {o} /\ StandsAt("deleted", loc[t])
  BY <1>1, <1>2, <1>3, RouteSetting DEF Held, Keeps, StandsAt
<1>5. Moves(t, "deleted", loc[t])
  BY <1>2, <1>4, RouteSetting, Steps
<1>6. stale \in [Objects -> Objects \union {NULL, JUNK}] /\ Lists
  BY RouteSetting DEF Base, Typed, Pointers
<1>7. /\ Lists' /\ In(0)' = In(0) \ {o} /\ Linked' = Linked \ {o}
      /\ stale'[o] \in (In(0) \ {o}) \union {NULL} /\ \A x \in Objects \ {o} : stale'[x] = stale[x]
      /\ stale' \in [Objects -> Objects \union {NULL, JUNK}]
  BY <1>2, <1>3, <1>6, RouteSetting, UnlinkKeeps
<1>8. stale' \in [Objects -> Pointers]
  <2>1. \A x \in Objects : stale'[x] \in Pointers
    BY <1>3, <1>7, RouteSetting DEF Base, Typed, Pointers
  <2>2. stale' = [x \in Objects |-> stale'[x]]
    BY <1>7
  <2> QED BY <2>1, <2>2
<1>9. mem' \in [Objects -> {"free", "live", "removed", "waiting", "callback"}] /\ mem'[o] = "waiting" /\ \A x \in Objects \ {o} : mem'[x] = mem[x]
  BY <1>2, <1>3, RouteSetting DEF Base, Typed
<1>10. lock' \in [Locks -> Threads \union {-1}]
  BY <1>2, RouteSetting
<1>11. Base' /\ Own'
  <2> DEFINE S == {o}
  <2>1. /\ S \in SUBSET Objects /\ S \subseteq Linked /\ Linked' = Linked \ S /\ S \subseteq Keeps("deleted", loc[t])
        /\ Keeps("deleted", loc[t]) \ S = Held(t) \ S /\ (\A x \in S : mem'[x] \in {"live", "waiting"})
        /\ \A x \in Objects \ S : mem'[x] = mem[x]
    BY <1>3, <1>4, <1>7, <1>9
  <2>2. seq' \in Nat /\ refcnt' \in [Objects -> Int] /\ waits' \in [Objects -> SUBSET Threads]
    BY <1>2, RouteSetting
  <2> HIDE DEF S
  <2> QED BY <1>5, <1>7, <1>8, <1>9, <1>10, <2>1, <2>2, RouteSetting, ShrinkKeeps
<1>12. PICK l : l = loc[t]
  OBVIOUS
<1>13. Updates(t, "deleted", l)'
  BY <1>1, <1>2, <1>3, <1>12 DEF Updates
<1>14. ASSUME NEW r \in Threads \ {t} PROVE Spares(t, "deleted", l, r, 0)
  <2>1. NotYet("deleted", l, r) /\ o \in Keeps("deleted", l)
    BY <1>4, <1>12 DEF NotYet
  <2>2. \A x \in Objects : mem[x] = "callback" => mem'[x] = "callback"
    BY <1>3, <1>9, Owner, RouteSetting
  <2>3. \A x \in In(0) : x \in In(0)' \/ (x = o /\ stale'[o] \in In(0) \union {NULL})
    BY <1>7
  <2>4. \A x \in Objects : x \notin In(0) => stale'[x] = stale[x]
    BY <1>3, <1>7
  <2> QED BY <1>2, <1>3, <1>4, <2>1, <2>2, <2>3, <2>4 DEF Spares
<1>15. \A u \in Threads \ {t} : \A x \in loc[u].own : stale'[x] = stale[x]
  <2>1. \A u \in Threads \ {t} : o \notin loc[u].own
    BY <1>3, Owner, OwnedHeld, RouteSetting
  <2> QED BY <1>7, <2>1, OwnedHeld
<1>16. RcuInv'
  <2>1. Moves(t, "deleted", l) /\ pc[t] \notin Section /\ "deleted" \notin Section
    BY <1>2, <1>5, <1>12, RouteSetting
  <2> QED BY <1>2, <1>3, <1>11, <1>13, <1>14, <1>15, <2>1, RouteUpdates
<1> QED BY <1>11, <1>16

\* A step on the way to the end of a grace period
LEMMA RcuWaits ==
  ASSUME RcuSetting, RcuInv, impl \in RcuRoutes, NEW t \in Threads, NEW p, NEW l, Moves(t, p, l), Quiet, Keeps(p, l) = Held(t),
         l.own = loc[t].own, p \notin {"unlink", "clear", "deleted"}, pc[t] \notin Section, p \notin Section,
         lock' \in [Locks -> Threads \union {-1}], lock'[0] = lock[0], UNCHANGED <<seq, refcnt, nesting, waits>>,
         \A r \in Threads \ {t} : pc[r] \in Section /\ NotYet(pc[t], loc[t], r) => NotYet(p, l, r)
  PROVE  Base' /\ Own' /\ RcuInv'
<1>1. Base' /\ Own' /\ \A b : In(b)' = In(b)
  BY RouteSetting, QuietKeeps
<1>2. UNCHANGED <<list, stale, mem, impl>> /\ In(0)' = In(0)
  BY DEF Quiet, In
<1>3. Updates(t, p, l)'
  <2>1. Updates(t, pc[t], loc[t])
    BY DEF RcuInv
  <2> QED BY <1>2, <2>1 DEF Updates
<1>4. ASSUME NEW r \in Threads \ {t}, pc[r] \in Section PROVE Spares(t, p, l, r, 0)
  BY <1>2, <1>4 DEF Spares
<1> QED BY <1>1, <1>2, <1>3, <1>4, RouteUpdates

\* call_rcu() waits for every reader that is inside.
LEMMA RcuCallback ==
  ASSUME RcuSetting, RcuInv, impl \in RcuRoutes, NEW t \in Threads, call_rcu(t)
  PROVE  Base' /\ Own' /\ RcuInv'
<1>1. PICK o : o = loc[t].cur
  OBVIOUS
<1>2. /\ impl = "route_rcu" /\ pc[t] = "deleted" /\ pc' = [pc EXCEPT ![t] = "idle"] /\ loc' = [loc EXCEPT ![t] = Registers]
      /\ mem' = [mem EXCEPT ![o] = "callback"] /\ waits' = [waits EXCEPT ![o] = Inside]
      /\ UNCHANGED <<impl, list, stale, akey, lock, seq, refcnt, nesting>>
  BY <1>1 DEF call_rcu, Goto, tableVars
<1>3. o \in Objects /\ loc[t].own = {} /\ o # NULL
  <2>1. Updates(t, "deleted", loc[t])
    BY <1>2 DEF RcuInv
  <2> QED BY <1>1, <1>2, <2>1, Setting DEF Updates
<1>4. Held(t) = {o} /\ Moves(t, "idle", Registers) /\ Keeps("idle", Registers) = {}
  BY <1>1, <1>2, <1>3, RouteSetting, Rests DEF Held, Keeps
<1>5. o \notin Linked /\ mem[o] # "callback"
  BY <1>3, <1>4, Owner, RouteSetting
<1>6. mem' \in [Objects -> {"free", "live", "removed", "waiting", "callback"}] /\ mem'[o] = "callback" /\ \A x \in Objects \ {o} : mem'[x] = mem[x]
  BY <1>2, <1>3, RouteSetting DEF Base, Typed
<1>7. waits' \in [Objects -> SUBSET Threads] /\ waits'[o] = Inside /\ \A x \in Objects \ {o} : waits'[x] = waits[x]
  BY <1>2, <1>3, RouteSetting DEF Inside
<1>8. Lists' /\ Linked' = Linked /\ In(0)' = In(0) /\ stale' \in [Objects -> Pointers]
  BY <1>2, ListsKept, RouteSetting DEF Base, Typed
<1>9. Base' /\ Own'
  <2> DEFINE S == {o}
  <2>1. /\ S \in SUBSET Objects /\ S \subseteq Held(t) /\ Linked' = Linked \ S
        /\ Keeps("idle", Registers) = Held(t) \ S /\ (\A x \in S : mem'[x] \in {"free", "callback"})
        /\ \A x \in Objects \ S : mem'[x] = mem[x]
    BY <1>3, <1>4, <1>5, <1>6, <1>8
  <2>2. lock' \in [Locks -> Threads \union {-1}] /\ seq' \in Nat /\ refcnt' \in [Objects -> Int]
    BY <1>2, RouteSetting
  <2>3. Base /\ Own
    BY RouteSetting
  <2> HIDE DEF S
  <2> QED BY <1>2, <1>4, <1>6, <1>7, <1>8, <2>1, <2>2, <2>3, ShrinkKeeps
<1>10. PICK l : l = Registers
  OBVIOUS
<1>11. Updates(t, "idle", l)'
  BY <1>10, RegistersIn DEF Updates
<1>12. ASSUME NEW r \in Threads \ {t}, pc[r] \in Section PROVE Spares(t, "idle", l, r, 0)
  <2>1. r \in Inside
    BY <1>12 DEF RcuInv, Inside
  <2> QED BY <1>2, <1>3, <1>4, <1>5, <1>6, <1>7, <1>8, <2>1 DEF Spares
<1>13. RcuInv'
  <2>1. /\ Moves(t, "idle", l) /\ pc[t] \notin Section /\ "idle" \notin Section /\ nesting' = nesting /\ lock'[0] = lock[0]
        /\ \A x : stale'[x] = stale[x]
    BY <1>2, <1>4, <1>10, RouteSetting
  <2> QED BY <1>8, <1>9, <1>11, <1>12, <2>1, RouteUpdates
<1> QED BY <1>9, <1>13

\* The grace periods of route_cacm.c and of the library
LEMMA RcuGrace ==
  ASSUME RcuSetting, RcuInv, impl \in RcuRoutes, NEW t \in Threads, SynchronizeBegin(t) \/ synchronize_rcu(t) \/ GracePeriodEnd(t)
  PROVE  Base' /\ Own' /\ RcuInv'
<1>1. rcu_gp_lock # 0 /\ rcu_gp_lock \in Locks
  BY Setting
<1>2. \A r \in Threads : pc[r] \in Section => nesting[r] = 1
  BY DEF RcuInv
<1>3. CASE SynchronizeBegin(t)
  <2> DEFINE l == [loc[t] EXCEPT !.snap = 0]
  <2>1. /\ Cacm /\ pc[t] = "deleted" /\ pc' = [pc EXCEPT ![t] = "synchronize"] /\ Acquire(t, rcu_gp_lock)
        /\ loc' = [loc EXCEPT ![t] = l] /\ Quiet /\ UNCHANGED <<seq, refcnt, nesting, waits>>
    BY <1>3, RouteSetting DEF SynchronizeBegin, Goto, tableVars, Quiet, Base, Standing
  <2>2. loc[t] \in Locs /\ StandsAt("deleted", loc[t])
    BY <2>1, RouteSetting
  <2>3. l \in Locs /\ l.cur = loc[t].cur /\ l.own = loc[t].own /\ l.snap = 0
    BY <2>2 DEF Locs
  <2> HIDE DEF l
  <2>4. StandsAt("synchronize", l) /\ Keeps("synchronize", l) = Held(t)
    BY <2>1, <2>2, <2>3, RouteSetting DEF StandsAt, Keeps, Held
  <2>5. Moves(t, "synchronize", l)
    BY <2>1, <2>3, <2>4, RouteSetting DEF Moves, Quiet
  <2>6. lock' \in [Locks -> Threads \union {-1}] /\ lock'[0] = lock[0]
    BY <1>1, <2>1, LockTyped, RouteSetting
  <2>7. \A r \in Threads \ {t} : NotYet("synchronize", l, r)
    BY <2>1, <2>3, Setting DEF NotYet
  <2> QED BY <2>1, <2>3, <2>4, <2>5, <2>6, <2>7, RouteSetting, RcuWaits
<1>4. CASE synchronize_rcu(t)
  <2>1. Cacm /\ pc[t] = "synchronize" /\ impl # "route_rcu" /\ Quiet /\ UNCHANGED <<seq, refcnt, nesting, waits>>
    BY <1>4, RouteSetting DEF synchronize_rcu, tableVars, Quiet
  <2>2. loc[t] \in Locs /\ StandsAt("synchronize", loc[t]) /\ loc[t].snap \in Int
    BY <2>1, RouteSetting, Fields
  <2>3. CASE loc[t].snap < NR_THREADS
    <3> DEFINE l == [loc[t] EXCEPT !.snap = loc[t].snap + 1]
    <3>1. nesting[loc[t].snap] = 0 /\ loc' = [loc EXCEPT ![t] = l] /\ UNCHANGED <<pc, lock>>
      BY <1>4, <2>2, <2>3, RouteSetting DEF synchronize_rcu, Base, Standing
    <3>2. l \in Locs /\ l.cur = loc[t].cur /\ l.own = loc[t].own /\ l.snap = loc[t].snap + 1
      BY <2>2 DEF Locs
    <3> HIDE DEF l
    <3>3. StandsAt("synchronize", l) /\ Keeps("synchronize", l) = Held(t)
      BY <2>1, <2>2, <3>2, RouteSetting DEF StandsAt, Keeps, Held
    <3>4. pc' = [pc EXCEPT ![t] = "synchronize"]
      BY <2>1, <3>1, RouteSetting DEF Base, Standing
    <3>5. Moves(t, "synchronize", l)
      BY <2>1, <3>1, <3>2, <3>3, <3>4, RouteSetting DEF Moves, Quiet
    <3>6. lock' \in [Locks -> Threads \union {-1}] /\ lock'[0] = lock[0]
      BY <3>1, RouteSetting
    <3>7. ASSUME NEW r \in Threads \ {t}, pc[r] \in Section, NotYet(pc[t], loc[t], r) PROVE NotYet("synchronize", l, r)
      <4>1. loc[t].snap <= r /\ r \in Int /\ r # loc[t].snap
        BY <1>2, <2>1, <3>1, <3>7, Setting DEF NotYet
      <4>2. l.snap <= r
        BY <2>2, <3>2, <4>1
      <4> QED BY <2>1, <4>2 DEF NotYet
    <3> QED BY <2>1, <3>2, <3>3, <3>5, <3>6, <3>7, RouteSetting, RcuWaits
  <2>4. CASE ~ (loc[t].snap < NR_THREADS)
    <3>1. pc' = [pc EXCEPT ![t] = "free"] /\ Release(t, rcu_gp_lock) /\ UNCHANGED loc
      BY <1>4, <2>4 DEF synchronize_rcu
    <3>2. StandsAt("free", loc[t]) /\ Keeps("free", loc[t]) = Held(t)
      BY <2>1, <2>2, RouteSetting DEF StandsAt, Keeps, Held
    <3>3. Moves(t, "free", loc[t])
      BY <2>1, <3>1, <3>2, RouteSetting, Steps DEF Quiet
    <3>4. lock' \in [Locks -> Threads \union {-1}] /\ lock'[0] = lock[0]
      BY <1>1, <3>1, LockTyped, RouteSetting
    <3>5. \A r \in Threads \ {t} : ~ NotYet(pc[t], loc[t], r)
      <4> SUFFICES ASSUME NEW r \in Threads \ {t} PROVE ~ NotYet(pc[t], loc[t], r)
        OBVIOUS
      <4>1. ~ (loc[t].snap <= r)
        BY <2>2, <2>4, Setting
      <4> QED BY <2>1, <4>1 DEF NotYet
    <3> QED BY <2>1, <3>2, <3>3, <3>4, <3>5, RouteSetting, RcuWaits
  <2> QED BY <2>3, <2>4
<1>5. CASE GracePeriodEnd(t)
  <2>1. /\ impl = "route_rcu" /\ pc[t] = "synchronize" /\ pc' = [pc EXCEPT ![t] = "free"] /\ loc[t].gp = {} /\ Quiet
        /\ UNCHANGED <<lock, seq, refcnt, nesting, waits, loc>>
    BY <1>5 DEF GracePeriodEnd, Goto, tableVars, Quiet
  <2>2. loc[t] \in Locs /\ StandsAt("synchronize", loc[t])
    BY <2>1, RouteSetting
  <2>3. StandsAt("free", loc[t]) /\ Keeps("free", loc[t]) = Held(t)
    BY <2>1, <2>2, RouteSetting DEF StandsAt, Keeps, Held
  <2>4. Moves(t, "free", loc[t])
    BY <2>1, <2>3, RouteSetting, Steps DEF Quiet
  <2>5. \A r \in Threads \ {t} : ~ NotYet(pc[t], loc[t], r)
    BY <2>1, RouteSetting DEF NotYet
  <2>6. lock' \in [Locks -> Threads \union {-1}] /\ lock'[0] = lock[0]
    BY <2>1, RouteSetting
  <2> QED BY <2>1, <2>3, <2>4, <2>5, <2>6, RouteSetting, RcuWaits
<1> QED BY <1>3, <1>4, <1>5

\* re_free(), after the grace period
LEMMA RcuFrees ==
  ASSUME RcuSetting, RcuInv, impl \in RcuRoutes, NEW t \in Threads, re_free(t)
  PROVE  Base' /\ Own' /\ RcuInv'
<1>1. PICK S : S = loc[t].own \union ({loc[t].cur} \ {NULL})
  OBVIOUS
<1>2. /\ pc[t] = "free" /\ pc' = [pc EXCEPT ![t] = "idle"] /\ loc' = [loc EXCEPT ![t] = Registers] /\ Free(S)
      /\ UNCHANGED <<impl, list, stale, akey, lock, seq, refcnt, nesting, waits>>
  BY <1>1 DEF re_free, Goto, tableVars
<1>3. S = Held(t) /\ S \in SUBSET Objects
  <2>1. loc[t] \in Locs /\ StandsAt("free", loc[t])
    BY <1>2, RouteSetting
  <2>2. loc[t].cur \in Objects \union {NULL} /\ loc[t].own \in SUBSET Objects
    BY <2>1, Fields DEF StandsAt
  <2> QED BY <1>1, <1>2, <2>2 DEF Held, Keeps
<1>4. Moves(t, "idle", Registers) /\ Keeps("idle", Registers) = {}
  BY <1>2, RouteSetting, Rests
<1>5. /\ mem' \in [Objects -> {"free", "live", "removed", "waiting", "callback"}]
      /\ \A x \in Objects : mem'[x] = IF x \in S THEN "free" ELSE mem[x]
  BY <1>2, FreeTyped, RouteSetting
<1>6. Lists' /\ Linked' = Linked /\ In(0)' = In(0) /\ stale' \in [Objects -> Pointers]
  BY <1>2, ListsKept, RouteSetting DEF Base, Typed
<1>7. \A x \in S : x \notin Linked /\ mem[x] # "callback"
  BY <1>3, Owner, RouteSetting
<1>8. Base' /\ Own'
  <2>1. Linked' = Linked \ S /\ Keeps("idle", Registers) = Held(t) \ S
    BY <1>3, <1>4, <1>6, <1>7
  <2>2. /\ lock' \in [Locks -> Threads \union {-1}] /\ seq' \in Nat /\ refcnt' \in [Objects -> Int]
        /\ waits' \in [Objects -> SUBSET Threads]
    BY <1>2, RouteSetting
  <2>3. Base /\ Own
    BY RouteSetting
  <2>4. (\A x \in S : mem'[x] \in {"free", "callback"}) /\ \A x \in Objects \ S : mem'[x] = mem[x]
    BY <1>3, <1>5
  <2> QED BY <1>2, <1>3, <1>4, <1>5, <1>6, <2>1, <2>2, <2>3, <2>4, ShrinkKeeps
<1>9. PICK l : l = Registers
  OBVIOUS
<1>10. Updates(t, "idle", l)'
  BY <1>9, RegistersIn DEF Updates
<1>11. ASSUME NEW r \in Threads \ {t} PROVE Spares(t, "idle", l, r, 0)
  <2>1. ~ NotYet(pc[t], loc[t], r)
    BY <1>2 DEF NotYet
  <2> QED BY <1>2, <1>5, <1>6, <1>7, <2>1 DEF Spares
<1>12. RcuInv'
  <2>1. /\ Moves(t, "idle", l) /\ pc[t] \notin Section /\ "idle" \notin Section /\ nesting' = nesting /\ lock'[0] = lock[0]
        /\ \A x : stale'[x] = stale[x]
    BY <1>2, <1>4, <1>9, RouteSetting
  <2> QED BY <1>6, <1>8, <1>10, <1>11, <2>1, RouteUpdates
<1> QED BY <1>8, <1>12


\* What a thread about to move the next entry to the other list has
LEMMA Junked ==
  ASSUME RcuSetting, RcuInv, impl = "route_rcu", NEW t \in Threads, pc[t] \in {"idle", "clear"}
  PROVE  /\ loc[t] \in Locs /\ loc[t].cur = NULL /\ loc[t].own \in SUBSET Objects /\ Held(t) = loc[t].own
         /\ pc[t] = "idle" => loc[t] = Registers /\ loc[t].own = {}
         /\ pc[t] = "clear" => loc[t].from \in loc[t].own
         /\ \A o \in loc[t].own : stale[o] \in loc[t].own \union {JUNK}
<1>1. impl \in RcuRoutes
  BY DEF RcuRoutes
<1>2. loc[t] \in Locs /\ StandsAt(pc[t], loc[t]) /\ loc[t].own \in SUBSET Objects
  BY <1>1, RouteSetting, OwnedHeld
<1>3. Updates(t, pc[t], loc[t])
  BY DEF RcuInv
<1>4. pc[t] = "idle" => loc[t] = Registers /\ loc[t].own = {} /\ loc[t].cur = NULL
  BY <1>2, RegistersIn DEF StandsAt
<1>5. pc[t] = "clear" => loc[t].from \in loc[t].own /\ loc[t].cur = NULL
  BY <1>3 DEF Updates
<1>6. \A o \in loc[t].own : stale[o] \in loc[t].own \union {JUNK}
  BY <1>3 DEF Updates
<1>7. Held(t) = loc[t].own
  BY <1>4, <1>5, RouteSetting, <1>1 DEF Held, Keeps
<1> QED BY <1>2, <1>4, <1>5, <1>6, <1>7

\* route_clear() of route_rcu.c moves an entry to the other list.
LEMMA RcuMovesOne ==
  ASSUME RcuSetting, RcuInv, impl = "route_rcu", NEW t \in Threads, MoveToJunk(t), list[0] # <<>>
  PROVE  Base' /\ Own' /\ RcuInv'
<1>1. PICK o : o = Head(list[0])
  OBVIOUS
<1> DEFINE l == [loc[t] EXCEPT !.from = o, !.own = loc[t].own \union {o}]
<1>2. /\ pc[t] \in {"idle", "clear"} /\ (lock[0] = -1 \/ lock[0] = t) /\ pc' = [pc EXCEPT ![t] = "clear"]
      /\ list' = [list EXCEPT ![0] = Tail(@)] /\ stale' = [stale EXCEPT ![o] = IF pc[t] = "idle" THEN JUNK ELSE loc[t].from]
      /\ mem' = [mem EXCEPT ![o] = "waiting"] /\ lock' = [lock EXCEPT ![0] = t]
      /\ UNCHANGED <<impl, akey, seq, refcnt, nesting, waits>>
  BY <1>1 DEF MoveToJunk
<1>3. loc' = [loc EXCEPT ![t] = l]
  BY <1>1, RcuPlaces DEF MoveToJunk, Base, Standing
<1>4. impl \in RcuRoutes
  BY DEF RcuRoutes
<1>5. Base /\ Own /\ 0 \in Buckets /\ 0 \in Locks /\ Linked = In(0) /\ Linked \subseteq Objects /\ lock \in [Locks -> Threads \union {-1}]
  BY <1>4, RouteSetting
<1>6. Lists' /\ o \in In(0) /\ In(0)' = In(0) \ {o} /\ Linked' = Linked \ {o}
  BY <1>1, <1>2, <1>4, <1>5, RouteSetting, TailKeeps DEF Base
<1>7. /\ loc[t] \in Locs /\ loc[t].cur = NULL /\ loc[t].own \in SUBSET Objects /\ Held(t) = loc[t].own
      /\ pc[t] = "idle" => loc[t] = Registers /\ loc[t].own = {}
      /\ pc[t] = "clear" => loc[t].from \in loc[t].own
      /\ \A x \in loc[t].own : stale[x] \in loc[t].own \union {JUNK}
  BY <1>2, Junked
<1>8. o \in Objects /\ o \in Linked /\ o \notin loc[t].own /\ mem[o] # "callback" /\ \A u \in Threads : o \notin Held(u)
  BY <1>5, <1>6, <1>7, Owner
<1>9. l \in Locs /\ l.cur = NULL /\ l.from = o /\ l.own = loc[t].own \union {o}
  BY <1>7, <1>8 DEF Locs
<1> HIDE DEF l
<1>10. StandsAt("clear", l) /\ Keeps("clear", l) = loc[t].own \union {o}
  BY <1>4, <1>9, RouteSetting DEF StandsAt, Keeps
<1>11. Moves(t, "clear", l)
  BY <1>2, <1>3, <1>4, <1>9, <1>10, RouteSetting DEF Moves
<1>12. stale' \in [Objects -> Pointers] /\ stale'[o] \in loc[t].own \union {JUNK} /\ \A x \in Objects \ {o} : stale'[x] = stale[x]
  <2>1. stale \in [Objects -> Pointers]
    BY <1>5 DEF Base, Typed
  <2>2. loc[t].own \union {JUNK} \subseteq Pointers
    BY <1>7 DEF Pointers
  <2>3. (IF pc[t] = "idle" THEN JUNK ELSE loc[t].from) \in loc[t].own \union {JUNK}
    BY <1>2, <1>7
  <2> QED BY <1>2, <1>8, <2>1, <2>2, <2>3
<1>13. mem' \in [Objects -> {"free", "live", "removed", "waiting", "callback"}] /\ mem'[o] = "waiting" /\ \A x \in Objects \ {o} : mem'[x] = mem[x]
  BY <1>2, <1>5, <1>8 DEF Base, Typed
<1>14. lock' \in [Locks -> Threads \union {-1}] /\ lock'[0] = t
  BY <1>2, <1>5
<1>15. Base' /\ Own'
  <2> DEFINE S == {o}
  <2>1. /\ S \in SUBSET Objects /\ S \subseteq Linked /\ Linked' = Linked \ S /\ S \subseteq Keeps("clear", l)
        /\ Keeps("clear", l) \ S = Held(t) \ S /\ (\A x \in S : mem'[x] \in {"live", "waiting"})
        /\ \A x \in Objects \ S : mem'[x] = mem[x]
    BY <1>6, <1>7, <1>8, <1>10, <1>13
  <2>2. seq' \in Nat /\ refcnt' \in [Objects -> Int] /\ waits' \in [Objects -> SUBSET Threads]
    BY <1>2, <1>4, RouteSetting
  <2> HIDE DEF S
  <2> QED BY <1>5, <1>6, <1>11, <1>12, <1>13, <1>14, <2>1, <2>2, ShrinkKeeps
<1>16. PICK m : m = l
  OBVIOUS
<1>17. Updates(t, "clear", m)'
  <2>1. \A x \in l.own : stale'[x] \in l.own \union {JUNK}
    BY <1>7, <1>9, <1>12
  <2> QED BY <1>9, <1>14, <1>16, <2>1 DEF Updates
<1>18. ASSUME NEW r \in Threads \ {t} PROVE Spares(t, "clear", m, r, 0)
  <2>1. NotYet("clear", m, r)
    BY DEF NotYet
  <2>2. \A x \in Objects : mem[x] = "callback" => mem'[x] = "callback"
    BY <1>8, <1>13
  <2>3. \A x \in In(0) : x \in In(0)' \/ (x = o /\ x \in m.own /\ x \in Keeps("clear", m))
    BY <1>6, <1>9, <1>10, <1>16
  <2>4. \A x \in Objects : x \notin In(0) => stale'[x] = stale[x]
    BY <1>6, <1>12
  <2>5. \A x \in Held(t) : x \in m.own /\ x \in Keeps("clear", m)
    BY <1>7, <1>9, <1>10, <1>16
  <2> QED BY <1>2, <1>7, <2>1, <2>2, <2>3, <2>4, <2>5 DEF Spares
<1>19. \A u \in Threads \ {t} : \A x \in loc[u].own : stale'[x] = stale[x]
  BY <1>8, <1>12, OwnedHeld
<1>20. RcuInv'
  <2>1. Moves(t, "clear", m) /\ pc[t] \notin Section /\ "clear" \notin Section /\ nesting' = nesting
    BY <1>2, <1>4, <1>11, <1>16, RouteSetting
  <2> QED BY <1>2, <1>4, <1>15, <1>17, <1>18, <1>19, <2>1, RouteUpdates
<1> QED BY <1>15, <1>20

\* There is no entry left: it waits for a grace period.
LEMMA RcuMovesLast ==
  ASSUME RcuSetting, RcuInv, impl = "route_rcu", NEW t \in Threads, MoveToJunk(t), list[0] = <<>>
  PROVE  Base' /\ Own' /\ RcuInv'
<1> DEFINE l == [Registers EXCEPT !.gp = Inside, !.own = loc[t].own]
<1>1. /\ pc[t] \in {"idle", "clear"} /\ (lock[0] = -1 \/ lock[0] = t) /\ pc' = [pc EXCEPT ![t] = "synchronize"]
      /\ loc' = [loc EXCEPT ![t] = l] /\ lock' = [lock EXCEPT ![0] = -1] /\ Quiet
      /\ UNCHANGED <<seq, refcnt, nesting, waits>>
  BY DEF MoveToJunk, Release, Quiet
<1>2. impl \in RcuRoutes
  BY DEF RcuRoutes
<1>3. /\ loc[t] \in Locs /\ loc[t].own \in SUBSET Objects /\ Held(t) = loc[t].own
      /\ \A x \in loc[t].own : stale[x] \in loc[t].own \union {JUNK}
  BY <1>1, Junked
<1>4. l \in Locs /\ l.cur = NULL /\ l.own = loc[t].own /\ l.gp = Inside
  BY <1>3, RegistersIn DEF Locs, Registers, Inside
<1> HIDE DEF l
<1>5. StandsAt("synchronize", l) /\ Keeps("synchronize", l) = Held(t)
  BY <1>2, <1>3, <1>4, RouteSetting DEF StandsAt, Keeps
<1>6. Moves(t, "synchronize", l)
  BY <1>1, <1>2, <1>4, <1>5, RouteSetting DEF Moves, Quiet
<1>7. lock' \in [Locks -> Threads \union {-1}]
  BY <1>1, <1>2, RouteSetting
<1>8. Base' /\ Own' /\ \A b : In(b)' = In(b)
  BY <1>1, <1>2, <1>5, <1>6, <1>7, RouteSetting, QuietKeeps
<1>9. PICK m : m = l
  OBVIOUS
<1>10. Updates(t, "synchronize", m)'
  BY <1>1, <1>3, <1>4, <1>9 DEF Updates, Quiet
<1>11. ASSUME NEW r \in Threads \ {t}, pc[r] \in Section PROVE Spares(t, "synchronize", m, r, 0)
  <2>1. r \in Inside
    BY <1>11 DEF RcuInv, Inside
  <2>2. NotYet("synchronize", m, r)
    BY <1>4, <1>9, <2>1 DEF NotYet
  <2> QED BY <1>1, <1>3, <1>4, <1>5, <1>8, <1>9, <2>2 DEF Spares, Quiet
<1>12. RcuInv'
  <2>1. /\ Moves(t, "synchronize", m) /\ pc[t] \notin Section /\ "synchronize" \notin Section /\ nesting' = nesting
        /\ \A x : stale'[x] = stale[x]
    BY <1>1, <1>2, <1>6, <1>9, RouteSetting DEF Quiet
  <2> QED BY <1>1, <1>2, <1>8, <1>10, <1>11, <2>1, RouteUpdates
<1> QED BY <1>8, <1>12

\* route_clear() of route_cacm.c takes the list.
LEMMA RcuTakes ==
  ASSUME RcuSetting, RcuInv, impl \in RcuRoutes, NEW t \in Threads, TakeList(t)
  PROVE  Base' /\ Own' /\ RcuInv'
<1>1. PICK S : S = Linked
  OBVIOUS
<1> DEFINE l == [loc[t] EXCEPT !.own = S]
<1>2. /\ Cacm /\ pc[t] = "idle" /\ pc' = [pc EXCEPT ![t] = "deleted"] /\ Acquire(t, 0)
      /\ stale' = [o \in Objects |-> IF o \in Linked THEN Successor(0, o) ELSE stale[o]]
      /\ mem' = [o \in Objects |-> IF o \in S THEN "waiting" ELSE mem[o]]
      /\ list' = [list EXCEPT ![0] = <<>>] /\ loc' = [loc EXCEPT ![t] = l]
      /\ UNCHANGED <<impl, akey, seq, refcnt, nesting, waits>>
  BY <1>1, RcuPlaces DEF TakeList, Goto, Base, Standing
<1>3. /\ Base /\ Own /\ impl # "route_rcu" /\ 0 \in Locks /\ Linked = In(0) /\ Linked \subseteq Objects /\ impl \notin Hashes
      /\ lock \in [Locks -> Threads \union {-1}] /\ StandsAt("idle", loc[t])
  BY <1>2, RouteSetting
<1>4. loc[t] = Registers /\ Held(t) = {} /\ loc[t].own = {}
  BY <1>2, <1>3, RegistersIn DEF StandsAt, Held, Keeps
<1>5. l \in Locs /\ l.cur = NULL /\ l.own = S
  BY <1>1, <1>3, <1>4, RegistersIn DEF Locs, Registers
<1> HIDE DEF l
<1>6. StandsAt("deleted", l) /\ Keeps("deleted", l) = S
  BY <1>3, <1>5, RouteSetting DEF StandsAt, Keeps
<1>7. Moves(t, "deleted", l)
  BY <1>2, <1>5, <1>6, RouteSetting DEF Moves
<1>8. Lists' /\ In(0)' = {} /\ Linked' = {}
  BY <1>2, <1>3, ClearKeeps DEF Base
<1>9. /\ stale' \in [Objects -> Pointers]
      /\ \A o \in In(0) : stale'[o] \in In(0) \union {NULL}
      /\ \A o \in Objects \ In(0) : stale'[o] = stale[o]
  BY <1>2, <1>3, CutPointers
<1>10. /\ mem' \in [Objects -> {"free", "live", "removed", "waiting", "callback"}]
       /\ \A x \in Objects : mem'[x] = IF x \in S THEN "waiting" ELSE mem[x]
  BY <1>2, <1>3 DEF Base, Typed
<1>11. lock[0] = -1 /\ lock' \in [Locks -> Threads \union {-1}] /\ lock'[0] = t
  BY <1>2, <1>3, LockTyped
<1>12. Base' /\ Own'
  <2>1. /\ S \in SUBSET Objects /\ S \subseteq Linked /\ Linked' = Linked \ S /\ S \subseteq Keeps("deleted", l)
        /\ Keeps("deleted", l) \ S = Held(t) \ S /\ (\A x \in S : mem'[x] \in {"live", "waiting"})
        /\ \A x \in Objects \ S : mem'[x] = mem[x]
    BY <1>1, <1>3, <1>4, <1>6, <1>8, <1>10
  <2>2. seq' \in Nat /\ refcnt' \in [Objects -> Int] /\ waits' \in [Objects -> SUBSET Threads]
    BY <1>2, RouteSetting
  <2> QED BY <1>3, <1>7, <1>8, <1>9, <1>10, <1>11, <2>1, <2>2, ShrinkKeeps
<1>13. PICK m : m = l
  OBVIOUS
<1>14. Updates(t, "deleted", m)'
  BY <1>2, <1>3 DEF Updates
<1>15. ASSUME NEW r \in Threads \ {t} PROVE Spares(t, "deleted", m, r, 0)
  <2>1. NotYet("deleted", m, r)
    BY DEF NotYet
  <2>2. \A x \in Objects : mem[x] = "callback" => mem'[x] = "callback"
    BY <1>1, <1>3, <1>10, Owner
  <2>3. \A x \in In(0) : x \in Keeps("deleted", m)
    BY <1>1, <1>3, <1>6, <1>13
  <2> QED BY <1>2, <1>3, <1>4, <1>9, <2>1, <2>2, <2>3 DEF Spares
<1>16. RcuInv'
  <2>1. Moves(t, "deleted", m) /\ pc[t] \notin Section /\ "deleted" \notin Section /\ nesting' = nesting
    BY <1>2, <1>7, <1>13, RouteSetting
  <2> QED BY <1>3, <1>11, <1>12, <1>14, <1>15, <2>1, RouteUpdates
<1> QED BY <1>12, <1>16


\* Every step of the RCU routing tables keeps what makes them safe.
LEMMA RcuKeeps ==
  ASSUME RcuSetting, RcuInv, impl \in RcuRoutes, NEW t \in Threads, RcuStep(t)
  PROVE  UNCHANGED impl /\ Base' /\ Own' /\ RcuInv'
<1>1. CASE RcuOperations(t)
  <2>1. Base' /\ Own' /\ RcuInv'
    <3>1. CASE \E k \in Keys : LookupCall(t, k) \/ rcu_route_add(t, k) \/ DelMark(t, k)
      BY <3>1, RcuCalls, RcuAdds, RcuMarks
    <3>2. CASE rcu_route_lookup(t)
      BY <3>2, RcuEnters, RcuLoad, RcuCompare, RcuChecks, RcuUnlocks, RcuCalls, RcuLost DEF rcu_route_lookup
    <3>3. CASE DelUnlink(t) \/ re_free(t)
      BY <3>3, RcuUnlinks, RcuFrees
    <3>4. CASE SynchronizeBegin(t) \/ synchronize_rcu(t) \/ GracePeriodEnd(t)
      BY <3>4, RcuGrace
    <3>5. CASE MoveToJunk(t)
      <4>1. impl = "route_rcu"
        BY <3>5 DEF MoveToJunk
      <4> QED BY <3>5, <4>1, RcuMovesOne, RcuMovesLast
    <3>6. CASE TakeList(t)
      BY <3>6, RcuTakes
    <3> QED BY <1>1, <3>1, <3>2, <3>3, <3>4, <3>5, <3>6 DEF RcuOperations, rcu_route_clear
  <2>2. UNCHANGED impl
    <3>1. CASE \E k \in Keys : LookupCall(t, k) \/ rcu_route_add(t, k) \/ DelMark(t, k)
      BY <3>1 DEF LookupCall, rcu_route_add, DelMark
    <3>2. CASE rcu_route_lookup(t)
      BY <3>2 DEF rcu_route_lookup, rcu_read_lock, Load, Compare, RcuCheckFreed, route_lookup_check, rcu_read_unlock, Return, Lost
    <3>3. CASE DelUnlink(t) \/ re_free(t) \/ SynchronizeBegin(t) \/ synchronize_rcu(t)
      BY <3>3 DEF DelUnlink, re_free, SynchronizeBegin, synchronize_rcu
    <3>4. CASE GracePeriodEnd(t) \/ MoveToJunk(t) \/ TakeList(t)
      BY <3>4 DEF GracePeriodEnd, MoveToJunk, TakeList
    <3> QED BY <1>1, <3>1, <3>2, <3>3, <3>4 DEF RcuOperations, rcu_route_clear
  <2> QED BY <2>1, <2>2
<1>2. CASE call_rcu(t)
  BY <1>2, RcuCallback DEF call_rcu
<1>3. ASSUME NEW o \in Objects, route_cb(o) PROVE UNCHANGED impl /\ Base' /\ Own' /\ RcuInv'
  <2>1. mem[o] = "callback" /\ waits[o] = {} /\ Free({o}) /\ UNCHANGED <<list, stale, akey, impl, lock, seq, refcnt, waits, pc, loc, nesting>>
    BY <1>3 DEF route_cb, tableVars
  <2> QED BY <2>1, CallbackSafe
<1> QED BY <1>1, <1>2, <1>3 DEF RcuStep, route_rcu, route_cacm, route_cacm_c11

\* A step of an update of hash_bkt_rcu.c
LEMMA HashRcuUpdates ==
  ASSUME RcuSetting, RcuInv, impl = "hash_bkt_rcu", NEW t \in Threads, NEW p, NEW l, Moves(t, p, l), Base', nesting' = nesting,
         pc[t] \notin Section, p \notin Section,
         \A r \in Threads \ {t} : \A b \in Buckets : pc[r] \in Section => Spares(t, p, l, r, b)
  PROVE  RcuInv'
<1>1. impl \notin RcuRoutes /\ impl # "route_rcu" /\ UNCHANGED impl
  BY DEF RcuRoutes, Moves
<1>3. p # "unlink"
  <2>1. HashSetting
    BY DEF HashSetting, RcuSetting, Hashes
  <2> QED BY <2>1, HashPlaces DEF Moves
<1>2. Updates(t, p, l)'
  BY <1>1, <1>3 DEF Updates
<1> QED BY <1>1, <1>2, RcuUpdates

\* Every step of hash_bkt_rcu.c keeps what makes it safe.
LEMMA HashRcuKeeps ==
  ASSUME RcuSetting, RcuInv, HashInv, impl = "hash_bkt_rcu", NEW t \in Threads, HashStep(t)
  PROVE  RcuInv'
<1>0. /\ HashSetting /\ Rcu /\ impl \notin RcuRoutes /\ impl # "route_rcu" /\ ~ Cacm /\ Lists
      /\ Section = {"load", "compare", "found"} /\ impl \in Hashes
  BY DEF HashSetting, Hashes, Rcu, RcuRoutes, RcuSetting, Base, Section, Cacm, Fresh
<1>1. CASE (\E k \in Keys : LookupCall(t, k)) \/ Return(t)
  BY <1>1, RcuCalls
<1>2. CASE hashtab_lock_lookup(t) \/ hashtab_unlock_lookup(t) \/ hashtab_lookup(t)
  BY <1>0, <1>2, RcuEnters, RcuLeaves, RcuLoad, RcuCompare DEF hashtab_lookup
<1>3. ASSUME NEW k \in Keys, hashtab_lock_mod(t, k) PROVE RcuInv'
  <2>1. /\ Base' /\ UNCHANGED <<stale, waits, nesting>> /\ pc[t] = "idle" /\ \A b : In(b)' = In(b)
    BY <1>0, <1>3, HashAllocates
  <2>2. PICK p, l : /\ p \notin Section /\ Moves(t, p, l)
                    /\ mem' = mem \/ \E o \in Objects : mem[o] = "free" /\ mem' = [mem EXCEPT ![o] = "live"]
    BY <1>0, <1>3, HashAllocates
  <2>3. \A x \in Objects : mem[x] = "callback" => mem'[x] = "callback"
    <3>1. mem \in [Objects -> {"free", "live", "removed", "waiting", "callback"}]
      BY DEF RcuSetting, Base, Typed
    <3> QED BY <2>2, <3>1
  <2>4. ASSUME NEW r, NEW b PROVE Spares(t, p, l, r, b)
    BY <1>0, <2>1, <2>3 DEF Spares, NotYet
  <2> QED BY <1>0, <2>1, <2>2, <2>4, HashRcuUpdates
<1>4. CASE hashtab_add(t)
  <2>1. mem[loc[t].cur] = "live"
    BY <1>4 DEF HashInv, HashStands, hashtab_add, Goto
  <2>2. PICK o \in Objects, c \in Buckets :
             /\ Base' /\ UNCHANGED <<mem, waits, nesting>> /\ pc[t] = "add" /\ Held(t) = {o} /\ o \notin Linked
             /\ In(c)' = In(c) \union {o} /\ (\A d \in Buckets \ {c} : In(d)' = In(d))
             /\ (\A x \in Objects \ {o} : stale'[x] = stale[x])
             /\ \E l : Moves(t, "unlock", l)
    BY <1>0, <1>4, <2>1, HashAdds
  <2>3. PICK l : Moves(t, "unlock", l)
    BY <2>2
  <2>4. /\ mem[o] # "callback" /\ \A u \in Threads \ {t} : o \notin Held(u)
    BY <1>0, <2>2, Owner DEF HashSetting
  <2>5. ASSUME NEW r \in Threads \ {t}, NEW b \in Buckets PROVE Spares(t, "unlock", l, r, b)
    <3>1. ~ NotYet("add", loc[t], r)
      BY <1>0 DEF NotYet
    <3>2. \A x \in Objects : Guarded(r, b, x) /\ x \notin In(b) => x # o
      <4>1. \A u \in Threads : ~ (o \in Held(u) /\ NotYet(pc[u], loc[u], r))
        BY <2>2, <2>4, <3>1
      <4> QED BY <2>4, <4>1 DEF Guarded
    <3>3. In(b) \subseteq In(b)'
      BY <2>2
    <3> QED BY <2>2, <3>1, <3>2, <3>3 DEF Spares
  <2> QED BY <1>0, <2>2, <2>3, <2>5, HashRcuUpdates
<1>5. CASE hashtab_del(t)
  <2>1. PICK c \in Buckets, o \in Objects \union {NULL} : Base' /\ Deletion(t, c, o)
    BY <1>0, <1>5, HashDeletes
  <2>2. PICK l : Moves(t, "unlock", l) /\ l.cur = o /\ l.own = {}
    BY <2>1 DEF Deletion
  <2>3. UNCHANGED <<waits, nesting>> /\ pc[t] = "del" /\ \A d \in Buckets \ {c} : In(d)' = In(d)
    BY <2>1 DEF Deletion
  <2>4. \/ Quiet /\ In(c)' = In(c)
        \/ /\ o \in In(c) /\ o \in Objects /\ o \in Linked /\ o # NULL /\ In(c)' = In(c) \ {o} /\ stale'[o] = Successor(c, o)
           /\ \A x \in Objects \ {o} : stale'[x] = stale[x] /\ mem'[x] = mem[x]
    BY <1>0, <2>1, Setting DEF Deletion
  <2>5. ASSUME NEW r \in Threads \ {t}, NEW b \in Buckets PROVE Spares(t, "unlock", l, r, b)
    <3>1. ~ NotYet("del", loc[t], r) /\ NotYet("unlock", l, r)
      BY <1>0 DEF NotYet
    <3>2. CASE Quiet /\ In(c)' = In(c)
      BY <2>3, <3>1, <3>2 DEF Spares, Quiet
    <3>3. CASE /\ o \in In(c) /\ o \in Objects /\ o \in Linked /\ o # NULL /\ In(c)' = In(c) \ {o} /\ stale'[o] = Successor(c, o)
               /\ \A x \in Objects \ {o} : stale'[x] = stale[x] /\ mem'[x] = mem[x]
      <4>1. stale'[o] \in In(c) \union {NULL} /\ o \in Keeps("unlock", l)
        BY <1>0, <2>2, <3>3, SuccessorIn DEF Keeps
      <4>2. mem[o] # "callback"
        BY <1>0, <3>3, Owner DEF HashSetting
      <4>3. \A x \in In(b) : x \in In(b)' \/ (x = o /\ b = c)
        BY <2>3, <3>3
      <4>4. \A x \in Objects : Guarded(r, b, x) /\ x \notin In(b) => x # o
        <5>1. SUFFICES ASSUME o \notin In(b) PROVE ~ Guarded(r, b, o)
          OBVIOUS
        <5>2. \A u \in Threads : o \notin Held(u)
          BY <1>0, <3>3, Owner DEF HashSetting
        <5> QED BY <4>2, <5>1, <5>2 DEF Guarded
      <4> QED BY <2>3, <3>1, <3>3, <4>1, <4>2, <4>3, <4>4 DEF Spares
    <3> QED BY <2>4, <3>2, <3>3
  <2> QED BY <1>0, <2>1, <2>2, <2>3, <2>5, HashRcuUpdates
<1>6. CASE hashtab_unlock_mod(t)
  <2>1. Base' /\ Quiet /\ UNCHANGED <<waits, nesting>> /\ pc[t] = "unlock"
    BY <1>0, <1>6, HashUnlocks
  <2>2. PICK p, l : p = (IF loc[t].cur = NULL THEN "idle" ELSE "defer") /\ Moves(t, p, l) /\ Keeps(p, l) = Held(t)
    BY <1>0, <1>6, HashUnlocks
  <2>3. p \notin Section
    BY <1>0, <2>2
  <2>4. ASSUME NEW r \in Threads \ {t}, NEW b \in Buckets PROVE Spares(t, p, l, r, b)
    <3>1. \A x \in Held(t) : x \in Keeps(p, l) /\ NotYet(p, l, r)
      <4>1. CASE p = "idle"
        BY <2>2, <4>1 DEF Keeps
      <4>2. CASE p = "defer"
        BY <2>2, <4>2 DEF NotYet
      <4> QED BY <2>2, <4>1, <4>2
    <3>2. In(b)' = In(b)
      BY <2>1 DEF Quiet, In
    <3> QED BY <1>0, <2>1, <3>1, <3>2 DEF Spares, Quiet
  <2> QED BY <1>0, <2>1, <2>2, <2>3, <2>4, HashRcuUpdates
<1>7. CASE defer_del(t)
  <2>1. PICK o : o = loc[t].cur
    OBVIOUS
  <2>2. /\ Base' /\ UNCHANGED <<stale, nesting>> /\ pc[t] = "defer" /\ Held(t) = {o} /\ o \in Objects
        /\ Moves(t, "idle", Registers) /\ \A c : In(c)' = In(c)
        /\ mem' = [mem EXCEPT ![o] = "callback"] /\ waits' = [waits EXCEPT ![o] = {u \in Threads : nesting[u] > 0}]
    BY <1>0, <1>7, <2>1, HashDefers
  <2>3. mem[o] # "callback" /\ mem'[o] = "callback" /\ waits'[o] = {u \in Threads : nesting[u] > 0}
        /\ \A x \in Objects \ {o} : mem'[x] = mem[x] /\ waits'[x] = waits[x]
    <3>1. mem[o] # "callback"
      BY <1>0, <2>2, Owner DEF HashSetting
    <3>2. waits \in [Objects -> SUBSET Threads] /\ mem \in [Objects -> {"free", "live", "removed", "waiting", "callback"}]
      BY DEF RcuSetting, Base, Typed
    <3> QED BY <2>2, <3>1, <3>2
  <2>4. PICK l : l = Registers
    OBVIOUS
  <2>5. ASSUME NEW r \in Threads \ {t}, NEW b \in Buckets, pc[r] \in Section PROVE Spares(t, "idle", l, r, b)
    <3>1. r \in waits'[o]
      BY <2>3, <2>5 DEF RcuInv
    <3> QED BY <1>0, <2>2, <2>3, <3>1 DEF Spares
  <2> QED BY <1>0, <2>2, <2>4, <2>5, HashRcuUpdates
<1>8. ASSUME NEW o \in Objects, defer_del_rcu(o) PROVE RcuInv'
  <2>1. mem[o] = "callback" /\ waits[o] = {} /\ Free({o}) /\ UNCHANGED <<list, stale, akey, impl, lock, seq, refcnt, waits, pc, loc, nesting>>
    BY <1>8 DEF defer_del_rcu, tableVars
  <2> QED BY <2>1, CallbackSafe
<1> QED BY <1>1, <1>2, <1>3, <1>4, <1>5, <1>6, <1>7, <1>8 DEF HashStep, hash_bkt, hash_global, hash_unsync, hash_bkt_rcu, HashOperations, LookupStep


-----------------------------------------------------------------------------
\* route_refcnt.c: a thread at place p with registers l holds a reference to entry o.
Uses(p, l, o) == p \in {"compare", "next", "found"} /\ l.cur = o
Holders(o) == {u \in Threads : Uses(pc[u], loc[u], o)}

\* It has unlinked entry o, and will drop the reference of the list.
Drops(p, l, o) == p = "drop" /\ l.cur = o

\* The reference of the list, or what has become of it, while route_clear() goes through the chain ch
Listed(ch, o) == o \in Linked \/ o \in ToSet(ch) \/ \E u \in Threads : Drops(pc[u], loc[u], o)

One(b) == IF b THEN 1 ELSE 0

\* The chain that route_clear() has taken and not gone through yet; it holds the lock as long as there is one.
Chained(ch) ==
  /\ OneToOne(ch) /\ \A o \in ToSet(ch) : o \notin Linked
  /\ \A i \in 1 .. Len(ch) : stale[ch[i]] = IF i < Len(ch) THEN ch[i + 1] ELSE NULL
  /\ IF lock[0] = -1 THEN ch = <<>> ELSE pc[lock[0]] = "clear" /\ ch # <<>> /\ ch[1] = loc[lock[0]].cur

\* What a thread at place p with registers l knows
RefcntStands(t, p, l, ch) ==
  /\ p = "clear" => lock[0] = t
  /\ p = "drop" => l.cur \notin Linked /\ l.cur \notin ToSet(ch)
  /\ p = "acquire" => l.snap > 0

\* re_refcnt counts the references, and an entry without references has been freed.
Counted(ch, o) ==
  /\ refcnt[o] = Cardinality(Holders(o)) + One(Listed(ch, o))
  /\ mem[o] = IF refcnt[o] = 0 THEN "free" ELSE "live"

Refcounted(ch) ==
  /\ Chained(ch)
  /\ \A t \in Threads : RefcntStands(t, pc[t], loc[t], ch)
  /\ \A t, u \in Threads : \A o \in Objects : Drops(pc[t], loc[t], o) /\ Drops(pc[u], loc[u], o) => t = u
  /\ \A o \in Objects : Counted(ch, o)

RefcntInv == \E ch \in Seq(Objects) : Refcounted(ch)

RefcntSetting == impl = "route_refcnt" /\ Base

\* Their places, and what the state of the memory is
LEMMA RefcntPlaces ==
  ASSUME RefcntSetting
  PROVE  /\ Base /\ impl = "route_refcnt" /\ impl \notin Hashes /\ impl # "route_rcu" /\ impl \notin RcuRoutes /\ impl # "route_seqlock"
         /\ Places = {"idle", "begin", "load", "got", "aborted", "acquire", "compare", "next", "found", "return", "drop", "clear"}
         /\ 0 \in Buckets /\ 0 \in Locks /\ Linked = In(0) /\ Linked \subseteq Objects
         /\ lock \in [Locks -> Threads \union {-1}] /\ seq \in Nat /\ refcnt \in [Objects -> Int] /\ waits \in [Objects -> SUBSET Threads]
         /\ mem \in [Objects -> {"free", "live", "removed", "waiting", "callback"}]
         /\ \A t \in Threads : loc[t] \in Locs /\ StandsAt(pc[t], loc[t]) /\ pc[t] \in Places
<1>1. impl = "route_refcnt" /\ impl \notin Hashes /\ impl # "route_rcu" /\ impl \notin RcuRoutes /\ impl # "route_seqlock"
  BY DEF RefcntSetting, Hashes, RcuRoutes
<1>2. Places = {"idle", "begin", "load", "got", "aborted", "acquire", "compare", "next", "found", "return", "drop", "clear"}
  BY <1>1 DEF Places
<1>3. 0 \in Buckets /\ 0 \in Locks /\ Linked = In(0) /\ Linked \subseteq Objects
  BY <1>1, Setting, OneList, OneBucket DEF RefcntSetting, Base
<1>4. \A t \in Threads : loc[t] \in Locs /\ StandsAt(pc[t], loc[t]) /\ pc[t] \in Places
  BY DEF RefcntSetting, Base, Standing
<1> QED BY <1>1, <1>2, <1>3, <1>4 DEF RefcntSetting, Base, Typed

\* The holders of an entry are finitely many.
LEMMA HoldersFinite ==
  ASSUME NEW o
  PROVE  /\ IsFiniteSet(Holders(o)) /\ Cardinality(Holders(o)) \in Nat
         /\ Cardinality(Holders(o)) = 0 <=> Holders(o) = {}
<1>1. IsFiniteSet(Threads)
  BY Setting, FS_Interval
<1>2. IsFiniteSet(Holders(o))
  <2>1. Holders(o) \in SUBSET Threads
    BY DEF Holders
  <2> QED BY <1>1, <2>1, FS_Subset
<1> QED BY <1>2, FS_CardinalityType, FS_EmptySet

\* A step of t changes who holds an entry only for t.
LEMMA HoldersMoved ==
  ASSUME Standing, NEW t \in Threads, NEW p, NEW l, Moves(t, p, l), NEW o
  PROVE  Cardinality(Holders(o))' = Cardinality(Holders(o)) + One(Uses(p, l, o)) - One(Uses(pc[t], loc[t], o))
<1>1. Holders(o)' = {u \in Threads : Uses(pc'[u], loc'[u], o)}
  BY DEF Holders, Uses
<1>2. pc'[t] = p /\ loc'[t] = l /\ \A u \in Threads \ {t} : pc'[u] = pc[u] /\ loc'[u] = loc[u]
  BY Moved
<1>3. t \in Holders(o)' <=> Uses(p, l, o)
  BY <1>1, <1>2
<1>4. t \in Holders(o) <=> Uses(pc[t], loc[t], o)
  BY DEF Holders
<1>5. \A u \in Threads \ {t} : u \in Holders(o)' <=> u \in Holders(o)
  BY <1>1, <1>2 DEF Holders
<1>6. Holders(o) \subseteq Threads /\ Holders(o)' \subseteq Threads
  BY <1>1 DEF Holders
<1>7. Cardinality(Holders(o))' = Cardinality(Holders(o)')
  OBVIOUS
<1>8. PICK S, T : S = Holders(o) /\ T = Holders(o)'
  OBVIOUS
<1>9. IsFiniteSet(S) /\ Cardinality(S) \in Nat
  BY <1>8, HoldersFinite
<1>10. CASE Uses(p, l, o) <=> Uses(pc[t], loc[t], o)
  <2>1. T = S
    BY <1>3, <1>4, <1>5, <1>6, <1>8, <1>10
  <2> QED BY <1>7, <1>8, <1>9, <1>10, <2>1 DEF One
<1>11. CASE Uses(p, l, o) /\ ~ Uses(pc[t], loc[t], o)
  <2>1. T = S \union {t} /\ t \notin S
    BY <1>3, <1>4, <1>5, <1>6, <1>8, <1>11
  <2>2. Cardinality(T) = Cardinality(S) + 1
    BY <1>9, <2>1, FS_AddElement
  <2> QED BY <1>7, <1>8, <1>9, <1>11, <2>2 DEF One
<1>12. CASE ~ Uses(p, l, o) /\ Uses(pc[t], loc[t], o)
  <2>1. T = S \ {t} /\ t \in S
    BY <1>3, <1>4, <1>5, <1>6, <1>8, <1>12
  <2>2. Cardinality(T) = Cardinality(S) - 1
    BY <1>9, <2>1, FS_RemoveElement
  <2> QED BY <1>7, <1>8, <1>9, <1>12, <2>2 DEF One
<1> QED BY <1>10, <1>11, <1>12

\* After a step of t with new chain c, if the count of every entry follows what t and the table do with it
LEMMA RefcntThen ==
  ASSUME RefcntSetting, Base', NEW t \in Threads, NEW p, NEW l, Moves(t, p, l), NEW ch, Refcounted(ch), NEW c \in Seq(Objects),
         Chained(c)', RefcntStands(t, p, l, c)',
         \A u \in Threads \ {t} : pc[u] = "clear" => lock'[0] = lock[0],
         \A u \in Threads \ {t} : \A o \in Objects :
            Drops(pc[u], loc[u], o) => o \notin Linked' /\ o \notin ToSet(c) /\ ~ Drops(p, l, o),
         \A o \in Objects :
           /\ refcnt'[o] = refcnt[o] + One(Uses(p, l, o)) - One(Uses(pc[t], loc[t], o))
                             + One(o \in Linked' \/ o \in ToSet(c) \/ Drops(p, l, o))
                             - One(o \in Linked \/ o \in ToSet(ch) \/ Drops(pc[t], loc[t], o))
           /\ mem'[o] = IF refcnt'[o] = 0 THEN "free" ELSE "live"
  PROVE  RefcntInv'
<1>1. pc'[t] = p /\ loc'[t] = l /\ \A u \in Threads \ {t} : pc'[u] = pc[u] /\ loc'[u] = loc[u]
  BY Moved DEF RefcntSetting, Base
<1>2. ASSUME NEW u \in Threads PROVE RefcntStands(u, pc[u], loc[u], c)'
  <2>1. CASE u = t
    BY <1>1, <2>1 DEF RefcntStands
  <2>2. CASE u # t
    <3>1. RefcntStands(u, pc[u], loc[u], ch) /\ StandsAt(pc[u], loc[u])
      BY RefcntPlaces DEF Refcounted
    <3>2. pc[u] = "drop" => loc[u].cur \in Objects /\ Drops(pc[u], loc[u], loc[u].cur)
      BY <3>1 DEF StandsAt, Drops
    <3> QED BY <1>1, <2>2, <3>1, <3>2 DEF RefcntStands
  <2> QED BY <2>1, <2>2
<1>3. \A u \in Threads : \A o : Drops(pc[u], loc[u], o)' <=> IF u = t THEN Drops(p, l, o) ELSE Drops(pc[u], loc[u], o)
  BY <1>1 DEF Drops
<1>4. \A v, u \in Threads : \A o \in Objects : (Drops(pc[v], loc[v], o) /\ Drops(pc[u], loc[u], o) => v = u)'
  BY <1>3 DEF Refcounted
<1>5. ASSUME NEW o \in Objects PROVE Counted(c, o)'
  <2>1. Counted(ch, o)
    BY DEF Refcounted
  <2>2. Cardinality(Holders(o))' = Cardinality(Holders(o)) + One(Uses(p, l, o)) - One(Uses(pc[t], loc[t], o))
        /\ Cardinality(Holders(o)) \in Nat
    BY HoldersMoved, HoldersFinite DEF RefcntSetting, Base
  <2>3. Listed(c, o)' <=> o \in Linked' \/ o \in ToSet(c) \/ Drops(p, l, o) \/ \E u \in Threads \ {t} : Drops(pc[u], loc[u], o)
    BY <1>3 DEF Listed
  <2>4. Listed(ch, o) <=> o \in Linked \/ o \in ToSet(ch) \/ Drops(pc[t], loc[t], o) \/ \E u \in Threads \ {t} : Drops(pc[u], loc[u], o)
    BY DEF Listed
  <2>5. ASSUME NEW u \in Threads \ {t}, Drops(pc[u], loc[u], o)
        PROVE  ~ (o \in Linked \/ o \in ToSet(ch) \/ Drops(pc[t], loc[t], o))
    BY <2>5 DEF Refcounted, RefcntStands, Drops
  <2>6. One(Listed(c, o)') - One(Listed(ch, o)) = One(o \in Linked' \/ o \in ToSet(c) \/ Drops(p, l, o))
                                                    - One(o \in Linked \/ o \in ToSet(ch) \/ Drops(pc[t], loc[t], o))
    BY <2>3, <2>4, <2>5 DEF One
  <2>7. \A x : One(x) \in Nat
    BY DEF One
  <2>8. refcnt'[o] = Cardinality(Holders(o))' + One(Listed(c, o)')
    BY <2>1, <2>2, <2>6, <2>7 DEF Counted
  <2> QED BY <2>8 DEF Counted, One
<1> QED BY <1>2, <1>4, <1>5 DEF Refcounted, RefcntInv


\* What a thread has of the entries it neither uses nor drops
LEMMA RefcntApart ==
  ASSUME RefcntSetting, NEW ch \in Seq(Objects), Refcounted(ch), NEW t \in Threads
  PROVE  /\ Chained(ch) /\ (lock[0] = -1 => ch = <<>> /\ ToSet(ch) = {}) /\ ToSet(ch) \subseteq Objects
         /\ RefcntStands(t, pc[t], loc[t], ch)
         /\ \A o \in Objects : /\ refcnt[o] \in Nat /\ mem[o] = IF refcnt[o] = 0 THEN "free" ELSE "live"
                               /\ Uses(pc[t], loc[t], o) \/ Listed(ch, o) => refcnt[o] > 0
         /\ \A u \in Threads \ {t} : pc[u] = "clear" => lock[0] = u
         /\ \A u \in Threads \ {t} : \A o \in Objects :
              Drops(pc[u], loc[u], o) => o \notin Linked /\ o \notin ToSet(ch) /\ ~ Drops(pc[t], loc[t], o)
<1>1. Chained(ch) /\ RefcntStands(t, pc[t], loc[t], ch)
  BY DEF Refcounted
<1>2. (lock[0] = -1 => ch = <<>> /\ ToSet(ch) = {}) /\ ToSet(ch) \subseteq Objects
  BY <1>1 DEF Chained, ToSet
<1>3. ASSUME NEW o \in Objects
      PROVE  /\ refcnt[o] \in Nat /\ mem[o] = IF refcnt[o] = 0 THEN "free" ELSE "live"
             /\ Uses(pc[t], loc[t], o) \/ Listed(ch, o) => refcnt[o] > 0
  <2>1. Counted(ch, o)
    BY DEF Refcounted
  <2>2. Cardinality(Holders(o)) \in Nat /\ (Uses(pc[t], loc[t], o) => Cardinality(Holders(o)) # 0)
    BY HoldersFinite DEF Holders
  <2> QED BY <2>1, <2>2 DEF Counted, One
<1>4. \A u \in Threads \ {t} : pc[u] = "clear" => lock[0] = u
  BY DEF Refcounted, RefcntStands
<1>5. ASSUME NEW u \in Threads \ {t}, NEW o \in Objects, Drops(pc[u], loc[u], o)
      PROVE  o \notin Linked /\ o \notin ToSet(ch) /\ ~ Drops(pc[t], loc[t], o)
  <2>1. RefcntStands(u, pc[u], loc[u], ch)
    BY DEF Refcounted
  <2> QED BY <1>5, <2>1 DEF RefcntStands, Drops, Refcounted
<1> QED BY <1>1, <1>2, <1>3, <1>4, <1>5

\* A step that changes no count
LEMMA RefcntQuiet ==
  ASSUME RefcntSetting, RefcntInv, NEW t \in Threads, NEW p, NEW l, Moves(t, p, l), Quiet, UNCHANGED <<lock, seq, refcnt, waits>>,
         pc[t] \notin {"clear", "drop"}, p \notin {"clear", "drop"}, p = "acquire" => l.snap > 0,
         \A o \in Objects : Uses(p, l, o) <=> Uses(pc[t], loc[t], o)
  PROVE  Base' /\ RefcntInv'
<1>1. Base' /\ Linked' = Linked
  BY RefcntPlaces, QuietKeeps
<1>2. PICK ch \in Seq(Objects) : Refcounted(ch)
  BY DEF RefcntInv
<1>3. pc'[t] = p /\ loc'[t] = l /\ \A u \in Threads \ {t} : pc'[u] = pc[u] /\ loc'[u] = loc[u]
  BY Moved DEF RefcntSetting, Base
<1>4. Chained(ch)'
  <2>1. Chained(ch) /\ lock[0] \in Threads \union {-1}
    BY <1>2, RefcntApart, RefcntPlaces
  <2>2. lock[0] # -1 => lock[0] \in Threads \ {t}
    BY <2>1 DEF Chained
  <2> QED BY <1>1, <1>3, <2>1, <2>2 DEF Chained, Quiet
<1>5. RefcntStands(t, p, l, ch)'
  BY DEF RefcntStands
<1>6. \A o \in Objects : refcnt[o] \in Nat /\ mem[o] = IF refcnt[o] = 0 THEN "free" ELSE "live"
  BY <1>2, RefcntApart
<1>7. \A u \in Threads \ {t} : \A o \in Objects :
         Drops(pc[u], loc[u], o) => o \notin Linked' /\ o \notin ToSet(ch) /\ ~ Drops(p, l, o)
  <2>1. \A o : ~ Drops(p, l, o)
    BY DEF Drops
  <2> QED BY <1>1, <1>2, <2>1, RefcntApart
<1>8. \A o \in Objects :
           /\ refcnt'[o] = refcnt[o] + One(Uses(p, l, o)) - One(Uses(pc[t], loc[t], o))
                             + One(o \in Linked' \/ o \in ToSet(ch) \/ Drops(p, l, o))
                             - One(o \in Linked \/ o \in ToSet(ch) \/ Drops(pc[t], loc[t], o))
           /\ mem'[o] = IF refcnt'[o] = 0 THEN "free" ELSE "live"
  BY <1>1, <1>6 DEF One, Drops, Quiet
<1> QED BY <1>1, <1>2, <1>4, <1>5, <1>7, <1>8, RefcntThen

\* The lookups of route_refcnt.c that take and drop no reference
LEMMA RefcntLooks ==
  ASSUME RefcntSetting, RefcntInv, NEW t \in Threads,
         \/ (\E k \in Keys : LookupCall(t, k)) \/ Retry(t) \/ Load(t, "got", "return") \/ ReadCount(t)
         \/ Compare(t, "found", "next") \/ Return(t)
  PROVE  Base' /\ RefcntInv'
<1>1. CASE \E k \in Keys : LookupCall(t, k)
  <2>1. PICK l : Moves(t, "begin", l) /\ pc[t] = "idle"
    BY <1>1, RefcntPlaces, LookupCalls
  <2>2. Quiet /\ UNCHANGED <<lock, seq, refcnt, waits>>
    BY <1>1 DEF LookupCall, tableVars, Quiet
  <2> QED BY <2>1, <2>2, RefcntQuiet DEF Uses
<1>2. CASE Retry(t)
  <2> DEFINE l == [loc[t] EXCEPT !.from = NULL, !.cur = NULL]
  <2>1. /\ pc[t] = "begin" /\ pc' = [pc EXCEPT ![t] = "load"] /\ loc' = [loc EXCEPT ![t] = l] /\ Quiet /\ UNCHANGED <<lock, seq, refcnt, waits>>
    BY <1>2, RefcntPlaces DEF Retry, Goto, tableVars, Quiet, Base, Standing
  <2>2. l \in Locs /\ l.own = loc[t].own
    <3>1. loc[t] \in Locs
      BY RefcntPlaces
    <3> QED BY <3>1 DEF Locs
  <2> HIDE DEF l
  <2>3. StandsAt("load", l)
    BY <2>1, <2>2, RefcntPlaces DEF StandsAt
  <2>4. Moves(t, "load", l)
    BY <2>1, <2>2, <2>3, RefcntPlaces DEF Moves, Quiet
  <2> QED BY <2>1, <2>4, RefcntQuiet DEF Uses
<1>3. CASE Load(t, "got", "return")
  <2>1. PICK p, l : Moves(t, p, l) /\ p \in {"got", "return"} /\ pc[t] = "load"
    BY <1>3, RefcntPlaces, Loads
  <2>2. Quiet /\ UNCHANGED <<lock, seq, refcnt, waits>>
    BY <1>3 DEF Load, tableVars, Quiet
  <2> QED BY <2>1, <2>2, RefcntQuiet DEF Uses
<1>4. CASE ReadCount(t)
  <2> DEFINE l == [loc[t] EXCEPT !.snap = IF refcnt[loc[t].cur] <= 0 THEN 0 ELSE refcnt[loc[t].cur]]
  <2>0. pc[t] = "got" /\ loc[t] \in Locs /\ StandsAt("got", loc[t]) /\ loc[t].cur \in Objects
    BY <1>4, RefcntPlaces DEF ReadCount, StandsAt
  <2>1. refcnt[loc[t].cur] \in Int
    BY <2>0, RefcntPlaces
  <2>2. /\ loc' = [loc EXCEPT ![t] = l] /\ Quiet /\ UNCHANGED <<lock, seq, refcnt, waits>>
    BY <1>4 DEF ReadCount, tableVars, Quiet
  <2>3. PICK p : /\ pc' = [pc EXCEPT ![t] = p] /\ p \in {"aborted", "begin", "acquire"}
                 /\ p = "acquire" => ~ (refcnt[loc[t].cur] <= 0)
    BY <1>4 DEF ReadCount
  <2>4. l \in Locs /\ l.own = loc[t].own /\ l.cur = loc[t].cur /\ (p = "acquire" => l.snap > 0)
    BY <2>0, <2>1, <2>3 DEF Locs
  <2> HIDE DEF l
  <2>5. StandsAt(p, l) /\ p \in Places
    BY <2>0, <2>3, <2>4, RefcntPlaces DEF StandsAt
  <2>6. Moves(t, p, l)
    BY <2>2, <2>3, <2>4, <2>5 DEF Moves, Quiet
  <2> QED BY <2>0, <2>2, <2>3, <2>4, <2>6, RefcntQuiet DEF Uses
<1>5. CASE Compare(t, "found", "next")
  <2>1. PICK p, l : Moves(t, p, l) /\ p \in {"found", "next"} /\ pc[t] = "compare" /\ l.cur = loc[t].cur
    BY <1>5, RefcntPlaces, Compares
  <2>2. Quiet /\ UNCHANGED <<lock, seq, refcnt, waits>>
    BY <1>5 DEF Compare, tableVars, Quiet
  <2> QED BY <2>1, <2>2, RefcntQuiet DEF Uses
<1>6. CASE Return(t)
  <2>1. /\ loc' = [loc EXCEPT ![t] = Registers] /\ pc' = [pc EXCEPT ![t] = "idle"] /\ Quiet /\ pc[t] = "return"
        /\ UNCHANGED <<lock, seq, refcnt, waits>>
    BY <1>6 DEF Return, Goto, tableVars, Quiet
  <2>2. Moves(t, "idle", Registers)
    BY <2>1, RefcntPlaces, Rests DEF Quiet
  <2>3. PICK l : l = Registers
    OBVIOUS
  <2> QED BY <2>1, <2>2, <2>3, RefcntQuiet DEF Uses
<1> QED BY <1>1, <1>2, <1>3, <1>4, <1>5, <1>6


\* The chain stays what it is in a step of a thread that does not go through it.
LEMMA ChainedSame ==
  ASSUME RefcntSetting, NEW ch \in Seq(Objects), Chained(ch), NEW t \in Threads, NEW p, NEW l, Moves(t, p, l), pc[t] # "clear",
         lock'[0] = lock[0], \A o \in ToSet(ch) : o \notin Linked' /\ stale'[o] = stale[o]
  PROVE  Chained(ch)'
<1>1. \A u \in Threads \ {t} : pc'[u] = pc[u] /\ loc'[u] = loc[u]
  BY Moved DEF RefcntSetting, Base
<1>2. lock[0] # -1 => lock[0] \in Threads \ {t}
  BY RefcntPlaces DEF Chained
<1>3. \A i \in 1 .. Len(ch) : ch[i] \in ToSet(ch)
  BY DEF ToSet
<1> QED BY <1>1, <1>2, <1>3 DEF Chained

\* What route_refcnt.c has in common after a step
LEMMA RefcntBase ==
  ASSUME RefcntSetting, NEW t \in Threads, NEW p, NEW l, Moves(t, p, l), Lists', stale' \in [Objects -> Pointers],
         mem' \in [Objects -> {"free", "live", "removed", "waiting", "callback"}],
         lock' \in [Locks -> Threads \union {-1}], refcnt' \in [Objects -> Int], UNCHANGED <<seq, waits>>
  PROVE  Base'
<1>1. Pointers' = Pointers
  BY DEF Pointers, Moves
<1> QED BY <1>1, Moved DEF RefcntSetting, Base, Typed

\* A reference is dropped.
LEMMA PutCounts ==
  ASSUME RefcntSetting, NEW o \in Objects, Put(o), refcnt[o] > 0,
         \A x \in Objects : refcnt[x] \in Nat /\ mem[x] = IF refcnt[x] = 0 THEN "free" ELSE "live"
  PROVE  /\ refcnt' \in [Objects -> Int] /\ mem' \in [Objects -> {"free", "live", "removed", "waiting", "callback"}]
         /\ \A x \in Objects : /\ refcnt'[x] = refcnt[x] - One(x = o)
                               /\ mem'[x] = IF refcnt'[x] = 0 THEN "free" ELSE "live"
<1>1. refcnt \in [Objects -> Int] /\ mem \in [Objects -> {"free", "live", "removed", "waiting", "callback"}]
  BY RefcntPlaces
<1>2. refcnt' = [refcnt EXCEPT ![o] = @ - 1]
  BY DEF Put
<1>3. refcnt' \in [Objects -> Int] /\ \A x \in Objects : refcnt'[x] = refcnt[x] - One(x = o)
  BY <1>1, <1>2 DEF One
<1>4. CASE refcnt[o] = 1
  <2>1. mem' = [x \in Objects |-> IF x \in {o} THEN "free" ELSE mem[x]]
    BY <1>4 DEF Put, Free
  <2> QED BY <1>1, <1>3, <1>4, <2>1 DEF One
<1>5. CASE refcnt[o] # 1
  <2>1. mem' = mem
    BY <1>5 DEF Put
  <2> QED BY <1>1, <1>3, <1>5, <2>1 DEF One
<1> QED BY <1>4, <1>5

\* atomic_cmpxchg()
LEMMA RefcntAcquires ==
  ASSUME RefcntSetting, RefcntInv, NEW t \in Threads, AcquireReference(t)
  PROVE  Base' /\ RefcntInv'
<1>1. PICK o : o = loc[t].cur
  OBVIOUS
<1> DEFINE l == [loc[t] EXCEPT !.snap = 0]
<1>2. /\ pc[t] = "acquire" /\ loc' = [loc EXCEPT ![t] = l] /\ Quiet /\ UNCHANGED <<lock, seq, waits>>
      /\ pc' = [pc EXCEPT ![t] = IF refcnt[o] = loc[t].snap THEN "compare" ELSE "got"]
      /\ refcnt' = IF refcnt[o] = loc[t].snap THEN [refcnt EXCEPT ![o] = @ + 1] ELSE refcnt
  BY <1>1 DEF AcquireReference, Goto, tableVars, Quiet
<1>3. loc[t] \in Locs /\ StandsAt("acquire", loc[t]) /\ o \in Objects
  BY <1>1, <1>2, RefcntPlaces DEF StandsAt
<1>4. l \in Locs /\ l.own = loc[t].own /\ l.cur = o
  BY <1>1, <1>3 DEF Locs
<1> HIDE DEF l
<1>8. PICK m : m = l
  OBVIOUS
<1>5. PICK ch \in Seq(Objects) : Refcounted(ch)
  BY DEF RefcntInv
<1>6. CASE refcnt[o] # loc[t].snap
  <2>1. Moves(t, "got", l)
    BY <1>2, <1>3, <1>4, <1>6, RefcntPlaces DEF Moves, Quiet, StandsAt
  <2>2. UNCHANGED refcnt
    BY <1>2, <1>6
  <2> QED BY <1>2, <2>1, <2>2, RefcntQuiet DEF Uses
<1>7. CASE refcnt[o] = loc[t].snap
  <2>1. Moves(t, "compare", m)
    BY <1>2, <1>8, <1>3, <1>4, <1>7, RefcntPlaces DEF Moves, Quiet, StandsAt
  <2>2. refcnt[o] > 0 /\ \A x \in Objects : refcnt[x] \in Nat /\ mem[x] = IF refcnt[x] = 0 THEN "free" ELSE "live"
    BY <1>2, <1>5, <1>7, RefcntApart DEF RefcntStands
  <2>3. refcnt' \in [Objects -> Int] /\ \A x \in Objects : refcnt'[x] = refcnt[x] + One(x = o)
    BY <1>2, <1>3, <1>7, RefcntPlaces DEF One
  <2>4. Base' /\ Linked' = Linked
    BY <1>2, <2>1, <2>3, RefcntPlaces, QuietKeeps
  <2>5. Chained(ch)'
    <3>1. Chained(ch) /\ lock'[0] = lock[0] /\ \A x \in ToSet(ch) : x \notin Linked' /\ stale'[x] = stale[x]
      BY <1>2, <1>5, <2>4, RefcntApart DEF Chained, Quiet
    <3> QED BY <1>2, <2>1, <3>1, ChainedSame
  <2>6. RefcntStands(t, "compare", m, ch)'
    BY DEF RefcntStands
  <2>7. \A u \in Threads \ {t} : pc[u] = "clear" => lock'[0] = lock[0]
    BY <1>2
  <2>8. \A u \in Threads \ {t} : \A x \in Objects :
           Drops(pc[u], loc[u], x) => x \notin Linked' /\ x \notin ToSet(ch) /\ ~ Drops("compare", m, x)
    <3>1. \A x : ~ Drops("compare", m, x)
      BY DEF Drops
    <3> QED BY <1>5, <2>4, <3>1, RefcntApart
  <2>9. \A x \in Objects :
           /\ refcnt'[x] = refcnt[x] + One(Uses("compare", m, x)) - One(Uses(pc[t], loc[t], x))
                             + One(x \in Linked' \/ x \in ToSet(ch) \/ Drops("compare", m, x))
                             - One(x \in Linked \/ x \in ToSet(ch) \/ Drops(pc[t], loc[t], x))
           /\ mem'[x] = IF refcnt'[x] = 0 THEN "free" ELSE "live"
    <3>1. \A x : ~ Drops("compare", m, x) /\ ~ Drops(pc[t], loc[t], x) /\ ~ Uses(pc[t], loc[t], x) /\ (Uses("compare", m, x) <=> x = o)
      BY <1>2, <1>4, <1>8 DEF Drops, Uses
    <3> QED BY <1>2, <2>2, <2>3, <2>4, <3>1 DEF One, Quiet
  <2> QED BY <1>5, <2>1, <2>4, <2>5, <2>6, <2>7, <2>8, <2>9, RefcntThen
<1> QED BY <1>6, <1>7

\* A reference is dropped, by a lookup on its way to the next entry or to the caller, or by route_del().
LEMMA RefcntDrops ==
  ASSUME RefcntSetting, RefcntInv, NEW t \in Threads, DropReference(t) \/ DropDeleted(t)
  PROVE  Base' /\ RefcntInv'
<1>1. PICK o : o = loc[t].cur
  OBVIOUS
<1>2. PICK ch \in Seq(Objects) : Refcounted(ch)
  BY DEF RefcntInv
<1>3. /\ pc[t] \in {"next", "found", "drop"} /\ Put(o) /\ UNCHANGED <<list, stale, akey, impl, lock, seq, waits>>
      /\ pc' = [pc EXCEPT ![t] = IF pc[t] = "next" THEN "load" ELSE IF pc[t] = "found" THEN "return" ELSE "idle"]
      /\ loc' = IF pc[t] = "drop" THEN [loc EXCEPT ![t] = Registers] ELSE loc
  BY <1>1 DEF DropReference, DropDeleted, Goto, tableVars
<1>4. loc[t] \in Locs /\ StandsAt(pc[t], loc[t]) /\ o \in Objects
  BY <1>1, <1>3, RefcntPlaces DEF StandsAt
<1>5. PICK p : p = IF pc[t] = "next" THEN "load" ELSE IF pc[t] = "found" THEN "return" ELSE "idle"
  OBVIOUS
<1>6. PICK l : l = IF pc[t] = "drop" THEN Registers ELSE loc[t]
  OBVIOUS
<1>7. Moves(t, p, l)
  <2>1. pc' = [pc EXCEPT ![t] = p] /\ loc' = [loc EXCEPT ![t] = l] /\ UNCHANGED impl
    BY <1>3, <1>5, <1>6, RefcntPlaces DEF Base, Standing
  <2>2. p \in Places /\ l \in Locs
    BY <1>3, <1>4, <1>5, <1>6, RefcntPlaces, RegistersIn
  <2>3. StandsAt(p, l)
    BY <1>3, <1>4, <1>5, <1>6, RefcntPlaces, RegistersIn DEF StandsAt
  <2> QED BY <2>1, <2>2, <2>3 DEF Moves
<1>8. \A x \in Objects : refcnt[x] \in Nat /\ (mem[x] = IF refcnt[x] = 0 THEN "free" ELSE "live")
                         /\ (Uses(pc[t], loc[t], x) \/ Listed(ch, x) => refcnt[x] > 0)
  BY <1>2, RefcntApart
<1>9. refcnt[o] > 0
  <2>1. pc[t] # "drop" => Uses(pc[t], loc[t], o)
    BY <1>1, <1>3 DEF Uses
  <2>2. pc[t] = "drop" => Listed(ch, o)
    BY <1>1 DEF Listed, Drops
  <2> QED BY <1>4, <1>8, <2>1, <2>2
<1>10. /\ refcnt' \in [Objects -> Int] /\ mem' \in [Objects -> {"free", "live", "removed", "waiting", "callback"}]
       /\ \A x \in Objects : /\ refcnt'[x] = refcnt[x] - One(x = o)
                             /\ mem'[x] = IF refcnt'[x] = 0 THEN "free" ELSE "live"
  BY <1>3, <1>4, <1>8, <1>9, PutCounts
<1>11. Lists' /\ Linked' = Linked
  BY <1>3, RefcntPlaces, ListsKept DEF Base
<1>12. Base'
  <2>1. stale' \in [Objects -> Pointers] /\ lock' \in [Locks -> Threads \union {-1}]
    BY <1>3, RefcntPlaces DEF Base, Typed
  <2> QED BY <1>3, <1>7, <1>10, <1>11, <2>1, RefcntBase
<1>13. Chained(ch)'
  <2>1. Chained(ch) /\ lock'[0] = lock[0] /\ pc[t] # "clear" /\ \A x \in ToSet(ch) : x \notin Linked' /\ stale'[x] = stale[x]
    BY <1>2, <1>3, <1>11, RefcntApart DEF Chained
  <2> QED BY <1>7, <2>1, ChainedSame
<1>14. RefcntStands(t, p, l, ch)'
  BY <1>5 DEF RefcntStands
<1>15. \A x : ~ Drops(p, l, x) /\ ~ Uses(p, l, x)
  BY <1>5 DEF Drops, Uses
<1>16. \A u \in Threads \ {t} : \A x \in Objects :
         Drops(pc[u], loc[u], x) => x \notin Linked' /\ x \notin ToSet(ch) /\ ~ Drops(p, l, x)
  BY <1>2, <1>11, <1>15, RefcntApart
<1>17. pc[t] = "drop" => o \notin Linked /\ o \notin ToSet(ch)
  BY <1>1, <1>2, RefcntApart DEF RefcntStands
<1>18. ASSUME NEW x \in Objects
       PROVE  /\ refcnt'[x] = refcnt[x] + One(Uses(p, l, x)) - One(Uses(pc[t], loc[t], x))
                             + One(x \in Linked' \/ x \in ToSet(ch) \/ Drops(p, l, x))
                             - One(x \in Linked \/ x \in ToSet(ch) \/ Drops(pc[t], loc[t], x))
              /\ mem'[x] = IF refcnt'[x] = 0 THEN "free" ELSE "live"
  <2>1. Uses(pc[t], loc[t], x) <=> pc[t] # "drop" /\ x = o
    BY <1>1, <1>3 DEF Uses
  <2>2. Drops(pc[t], loc[t], x) <=> pc[t] = "drop" /\ x = o
    BY <1>1 DEF Drops
  <2> QED BY <1>8, <1>10, <1>11, <1>15, <1>17, <2>1, <2>2 DEF One
<1>19. \A u \in Threads \ {t} : pc[u] = "clear" => lock'[0] = lock[0]
  BY <1>3
<1> QED BY <1>2, <1>7, <1>12, <1>13, <1>14, <1>16, <1>18, <1>19, RefcntThen


\* route_add()
LEMMA RefcntAdds ==
  ASSUME RefcntSetting, RefcntInv, NEW t \in Threads, NEW k \in Keys, refcnt_route_add(t, k)
  PROVE  Base' /\ RefcntInv'
<1>1. PICK o \in Objects : /\ mem[o] = "free" /\ mem' = [mem EXCEPT ![o] = "live"] /\ Link(0, o, k)
                           /\ refcnt' = [refcnt EXCEPT ![o] = 1]
  BY DEF refcnt_route_add
<1>2. pc[t] = "idle" /\ lock[0] = -1 /\ UNCHANGED <<impl, lock, seq, waits, pc, loc>>
  BY DEF refcnt_route_add
<1>3. PICK ch \in Seq(Objects) : Refcounted(ch)
  BY DEF RefcntInv
<1>4. PICK p, l : p = pc[t] /\ l = loc[t]
  OBVIOUS
<1>5. Moves(t, p, l)
  BY <1>2, <1>4, RefcntPlaces, Stays
<1>6. /\ Chained(ch) /\ ToSet(ch) = {}
      /\ \A x \in Objects : refcnt[x] \in Nat /\ (mem[x] = IF refcnt[x] = 0 THEN "free" ELSE "live")
                            /\ (Listed(ch, x) => refcnt[x] > 0)
  BY <1>2, <1>3, RefcntApart
<1>7. refcnt[o] = 0 /\ ~ Listed(ch, o) /\ o \notin Linked
  <2>1. refcnt[o] = 0
    BY <1>1, <1>6
  <2> QED BY <1>6, <2>1 DEF Listed
<1>8. Lists' /\ Linked' = Linked \union {o} /\ \A x \in Objects \ {o} : stale'[x] = stale[x]
  <2>1. Bucket(k) = 0 /\ Lists
    BY RefcntPlaces, OneList DEF Base
  <2> QED BY <1>1, <1>2, <1>7, <2>1, RefcntPlaces, LinkKeeps
<1>9. /\ refcnt' \in [Objects -> Int] /\ mem' \in [Objects -> {"free", "live", "removed", "waiting", "callback"}]
      /\ refcnt'[o] = 1 /\ mem'[o] = "live" /\ \A x \in Objects \ {o} : refcnt'[x] = refcnt[x] /\ mem'[x] = mem[x]
  BY <1>1, RefcntPlaces
<1>10. Base'
  <2>1. stale' \in [Objects -> Pointers]
    <3>1. NULL \in Pointers /\ stale \in [Objects -> Pointers]
      BY RefcntPlaces DEF Base, Typed, Pointers
    <3> QED BY <1>1, <3>1 DEF Link
  <2>2. lock' \in [Locks -> Threads \union {-1}]
    BY <1>2, RefcntPlaces
  <2> QED BY <1>2, <1>5, <1>8, <1>9, <2>1, <2>2, RefcntBase
<1>11. Chained(ch)'
  <2>1. lock'[0] = lock[0] /\ pc[t] # "clear" /\ \A x \in ToSet(ch) : x \notin Linked' /\ stale'[x] = stale[x]
    BY <1>2, <1>6
  <2> QED BY <1>5, <1>6, <2>1, ChainedSame
<1>12. RefcntStands(t, p, l, ch)'
  BY <1>2, <1>4 DEF RefcntStands
<1>13. ASSUME NEW u \in Threads \ {t}, NEW x \in Objects, Drops(pc[u], loc[u], x)
       PROVE  x \notin Linked' /\ x \notin ToSet(ch) /\ ~ Drops(p, l, x)
  <2>1. x \notin Linked /\ Listed(ch, x)
    BY <1>3, <1>13, RefcntApart DEF Listed
  <2>2. x # o
    BY <1>7, <2>1
  <2> QED BY <1>2, <1>4, <1>6, <1>8, <2>1, <2>2 DEF Drops
<1>14. ASSUME NEW x \in Objects
       PROVE  /\ refcnt'[x] = refcnt[x] + One(Uses(p, l, x)) - One(Uses(pc[t], loc[t], x))
                             + One(x \in Linked' \/ x \in ToSet(ch) \/ Drops(p, l, x))
                             - One(x \in Linked \/ x \in ToSet(ch) \/ Drops(pc[t], loc[t], x))
              /\ mem'[x] = IF refcnt'[x] = 0 THEN "free" ELSE "live"
  <2>1. ~ Uses(p, l, x) /\ ~ Uses(pc[t], loc[t], x) /\ ~ Drops(p, l, x) /\ ~ Drops(pc[t], loc[t], x)
    BY <1>2, <1>4 DEF Uses, Drops
  <2>2. One(Uses(p, l, x)) = 0 /\ One(Uses(pc[t], loc[t], x)) = 0
    BY <2>1 DEF One
  <2>3. CASE x = o
    <3>1. One(x \in Linked' \/ x \in ToSet(ch) \/ Drops(p, l, x)) = 1
      BY <1>8, <2>3 DEF One
    <3>2. One(x \in Linked \/ x \in ToSet(ch) \/ Drops(pc[t], loc[t], x)) = 0
      BY <1>6, <1>7, <2>1, <2>3 DEF One
    <3> QED BY <1>7, <1>9, <2>2, <2>3, <3>1, <3>2
  <2>4. CASE x # o
    <3>1. One(x \in Linked' \/ x \in ToSet(ch) \/ Drops(p, l, x)) = One(x \in Linked)
      BY <1>6, <1>8, <2>1, <2>4 DEF One
    <3>2. One(x \in Linked \/ x \in ToSet(ch) \/ Drops(pc[t], loc[t], x)) = One(x \in Linked)
      BY <1>6, <2>1 DEF One
    <3>3. One(x \in Linked) \in Int
      BY DEF One
    <3>4. refcnt'[x] = refcnt[x] /\ mem'[x] = mem[x] /\ refcnt[x] \in Nat /\ (mem[x] = IF refcnt[x] = 0 THEN "free" ELSE "live")
      BY <1>6, <1>9, <2>4
    <3> QED BY <2>2, <3>1, <3>2, <3>3, <3>4
  <2> QED BY <2>3, <2>4
<1>15. \A u \in Threads \ {t} : pc[u] = "clear" => lock'[0] = lock[0]
  BY <1>2
<1> QED BY <1>3, <1>5, <1>10, <1>11, <1>12, <1>13, <1>14, <1>15, RefcntThen

\* route_del() unlinks an entry.
LEMMA RefcntUnlinks ==
  ASSUME RefcntSetting, RefcntInv, NEW t \in Threads, NEW k \in Keys, refcnt_route_del(t, k)
  PROVE  Base' /\ RefcntInv'
<1>1. PICK o : o = First(0, k)
  OBVIOUS
<1> DEFINE l == [loc[t] EXCEPT !.cur = o]
<1>2. /\ pc[t] = "idle" /\ lock[0] = -1 /\ pc' = [pc EXCEPT ![t] = "drop"] /\ o # NULL /\ Unlink(0, o)
      /\ loc' = [loc EXCEPT ![t] = l] /\ UNCHANGED <<impl, mem, lock, seq, refcnt, waits>>
  BY <1>1, RefcntPlaces DEF refcnt_route_del, Goto, Base, Standing
<1>3. PICK ch \in Seq(Objects) : Refcounted(ch)
  BY DEF RefcntInv
<1>4. /\ o \in Objects /\ o \in Linked /\ Lists' /\ Linked' = Linked \ {o}
      /\ stale' \in [Objects -> Pointers] /\ \A x \in Objects \ {o} : stale'[x] = stale[x]
  BY <1>1, <1>2, RefcntPlaces, UnlinkFirst
<1>5. l \in Locs /\ l.cur = o /\ l.own = {}
  <2>1. loc[t] \in Locs /\ loc[t] = Registers
    BY <1>2, RefcntPlaces DEF StandsAt
  <2> QED BY <1>4, <2>1, RegistersIn DEF Locs
<1> HIDE DEF l
<1>6. PICK m : m = l
  OBVIOUS
<1>7. Moves(t, "drop", m)
  <2>1. StandsAt("drop", m)
    BY <1>4, <1>5, <1>6, RefcntPlaces DEF StandsAt
  <2> QED BY <1>2, <1>5, <1>6, <2>1, RefcntPlaces DEF Moves
<1>8. /\ Chained(ch) /\ ToSet(ch) = {}
      /\ \A x \in Objects : refcnt[x] \in Nat /\ mem[x] = IF refcnt[x] = 0 THEN "free" ELSE "live"
  BY <1>2, <1>3, RefcntApart
<1>9. Base'
  BY <1>2, <1>4, <1>7, RefcntPlaces, RefcntBase
<1>10. Chained(ch)'
  <2>1. lock'[0] = lock[0] /\ pc[t] # "clear" /\ \A x \in ToSet(ch) : x \notin Linked' /\ stale'[x] = stale[x]
    BY <1>2, <1>8
  <2> QED BY <1>7, <1>8, <2>1, ChainedSame
<1>11. RefcntStands(t, "drop", m, ch)'
  BY <1>4, <1>5, <1>6, <1>8 DEF RefcntStands
<1>12. ASSUME NEW u \in Threads \ {t}, NEW x \in Objects, Drops(pc[u], loc[u], x)
       PROVE  x \notin Linked' /\ x \notin ToSet(ch) /\ ~ Drops("drop", m, x)
  <2>1. x \notin Linked
    BY <1>3, <1>12, RefcntApart
  <2> QED BY <1>4, <1>5, <1>6, <1>8, <2>1 DEF Drops
<1>13. ASSUME NEW x \in Objects
       PROVE  /\ refcnt'[x] = refcnt[x] + One(Uses("drop", m, x)) - One(Uses(pc[t], loc[t], x))
                             + One(x \in Linked' \/ x \in ToSet(ch) \/ Drops("drop", m, x))
                             - One(x \in Linked \/ x \in ToSet(ch) \/ Drops(pc[t], loc[t], x))
              /\ mem'[x] = IF refcnt'[x] = 0 THEN "free" ELSE "live"
  <2>1. ~ Uses("drop", m, x) /\ ~ Uses(pc[t], loc[t], x) /\ ~ Drops(pc[t], loc[t], x) /\ (Drops("drop", m, x) <=> x = o)
    BY <1>2, <1>5, <1>6 DEF Uses, Drops
  <2>2. One(Uses("drop", m, x)) = 0 /\ One(Uses(pc[t], loc[t], x)) = 0
    BY <2>1 DEF One
  <2>3. One(x \in Linked' \/ x \in ToSet(ch) \/ Drops("drop", m, x)) = One(x \in Linked)
    BY <1>4, <1>8, <2>1 DEF One
  <2>4. One(x \in Linked \/ x \in ToSet(ch) \/ Drops(pc[t], loc[t], x)) = One(x \in Linked)
    BY <1>8, <2>1 DEF One
  <2>5. One(x \in Linked) \in Int
    BY DEF One
  <2> QED BY <1>2, <1>8, <2>2, <2>3, <2>4, <2>5
<1>14. \A u \in Threads \ {t} : pc[u] = "clear" => lock'[0] = lock[0]
  BY <1>2
<1> QED BY <1>3, <1>7, <1>9, <1>10, <1>11, <1>12, <1>13, <1>14, RefcntThen

\* route_clear() takes the list.
LEMMA RefcntTakes ==
  ASSUME RefcntSetting, RefcntInv, NEW t \in Threads, refcnt_route_clear(t)
  PROVE  Base' /\ RefcntInv'
<1>1. PICK c, o : c = list[0] /\ o = Head(list[0])
  OBVIOUS
<1> DEFINE l == [loc[t] EXCEPT !.cur = o]
<1>2. /\ pc[t] = "idle" /\ Acquire(t, 0) /\ c # <<>> /\ pc' = [pc EXCEPT ![t] = "clear"] /\ loc' = [loc EXCEPT ![t] = l]
      /\ stale' = [x \in Objects |-> IF x \in Linked THEN Successor(0, x) ELSE stale[x]]
      /\ list' = [list EXCEPT ![0] = <<>>] /\ UNCHANGED <<impl, akey, mem, seq, refcnt, waits>>
  BY <1>1, RefcntPlaces DEF refcnt_route_clear, Goto, Base, Standing
<1>3. PICK ch \in Seq(Objects) : Refcounted(ch)
  BY DEF RefcntInv
<1>4. lock[0] = -1 /\ lock' \in [Locks -> Threads \union {-1}] /\ lock'[0] = t /\ t # -1
  BY <1>2, RefcntPlaces, LockTyped, Setting
<1>5. /\ ToSet(ch) = {}
      /\ \A x \in Objects : refcnt[x] \in Nat /\ mem[x] = IF refcnt[x] = 0 THEN "free" ELSE "live"
  BY <1>3, <1>4, RefcntApart
<1>6. /\ c \in Seq(Objects) /\ OneToOne(c) /\ ToSet(c) = Linked /\ Len(c) \in Nat /\ (\A i \in 1 .. Len(c) : c[i] \in In(0))
      /\ \A i \in 1 .. Len(c) : Successor(0, c[i]) = IF i < Len(c) THEN c[i + 1] ELSE NULL
  BY <1>1, RefcntPlaces, ListOf, SuccessorAt DEF Base, In
<1>7. o = c[1] /\ o \in Linked /\ o \in Objects
  BY <1>1, <1>2, <1>6, TailOf, RefcntPlaces
<1>8. l \in Locs /\ l.cur = o /\ l.own = {}
  <2>1. loc[t] \in Locs /\ loc[t] = Registers
    BY <1>2, RefcntPlaces DEF StandsAt
  <2> QED BY <1>7, <2>1, RegistersIn DEF Locs
<1> HIDE DEF l
<1>9. PICK m : m = l
  OBVIOUS
<1>10. Moves(t, "clear", m)
  <2>1. StandsAt("clear", m)
    BY <1>7, <1>8, <1>9, RefcntPlaces DEF StandsAt
  <2> QED BY <1>2, <1>8, <1>9, <2>1, RefcntPlaces DEF Moves
<1>11. Lists' /\ Linked' = {}
  BY <1>2, RefcntPlaces, ClearKeeps DEF Base
<1>12. stale' \in [Objects -> Pointers] /\ \A x \in In(0) : stale'[x] = Successor(0, x)
  BY <1>2, RefcntPlaces, CutPointers
<1>13. Base'
  BY <1>2, <1>4, <1>10, <1>11, <1>12, RefcntPlaces, RefcntBase
<1>14. Chained(c)'
  <2>1. \A i \in 1 .. Len(c) : stale'[c[i]] = IF i < Len(c) THEN c[i + 1] ELSE NULL
    BY <1>6, <1>12
  <2>2. pc'[t] = "clear" /\ loc'[t] = m
    BY <1>10, RefcntPlaces, Moved DEF Base
  <2> QED BY <1>2, <1>4, <1>6, <1>7, <1>8, <1>9, <1>11, <2>1, <2>2 DEF Chained
<1>15. RefcntStands(t, "clear", m, c)'
  BY <1>4 DEF RefcntStands
<1>16. ASSUME NEW u \in Threads \ {t}, NEW x \in Objects, Drops(pc[u], loc[u], x)
       PROVE  x \notin Linked' /\ x \notin ToSet(c) /\ ~ Drops("clear", m, x)
  <2>1. x \notin Linked
    BY <1>3, <1>16, RefcntApart
  <2> QED BY <1>6, <1>11, <2>1 DEF Drops
<1>17. ASSUME NEW x \in Objects
       PROVE  /\ refcnt'[x] = refcnt[x] + One(Uses("clear", m, x)) - One(Uses(pc[t], loc[t], x))
                             + One(x \in Linked' \/ x \in ToSet(c) \/ Drops("clear", m, x))
                             - One(x \in Linked \/ x \in ToSet(ch) \/ Drops(pc[t], loc[t], x))
              /\ mem'[x] = IF refcnt'[x] = 0 THEN "free" ELSE "live"
  <2>1. ~ Uses("clear", m, x) /\ ~ Uses(pc[t], loc[t], x) /\ ~ Drops(pc[t], loc[t], x) /\ ~ Drops("clear", m, x)
    BY <1>2 DEF Uses, Drops
  <2> QED BY <1>2, <1>5, <1>6, <1>11, <2>1 DEF One
<1>18. \A u \in Threads \ {t} : ~ (pc[u] = "clear")
  <2>1. \A u \in Threads : u # -1
    BY Setting
  <2> QED BY <1>3, <1>4, <2>1, RefcntApart
<1> QED BY <1>3, <1>6, <1>10, <1>13, <1>14, <1>15, <1>16, <1>17, <1>18, RefcntThen

\* and goes through it.
LEMMA RefcntGoesOn ==
  ASSUME RefcntSetting, RefcntInv, NEW t \in Threads, ClearNext(t)
  PROVE  Base' /\ RefcntInv'
<1>1. PICK o, n : o = loc[t].cur /\ n = stale[o]
  OBVIOUS
<1>2. PICK ch \in Seq(Objects) : Refcounted(ch)
  BY DEF RefcntInv
<1>3. PICK c : c = Tail(ch)
  OBVIOUS
<1>4. pc[t] = "clear" /\ Put(o) /\ UNCHANGED <<list, stale, akey, impl, seq, waits>>
  BY <1>1 DEF ClearNext, tableVars
<1>5. /\ Chained(ch) /\ lock[0] = t /\ t # -1
      /\ \A x \in Objects : refcnt[x] \in Nat /\ (mem[x] = IF refcnt[x] = 0 THEN "free" ELSE "live")
                            /\ (Listed(ch, x) => refcnt[x] > 0)
  BY <1>2, <1>4, RefcntApart, Setting DEF RefcntStands
<1>6. ch # <<>> /\ ch[1] = o /\ OneToOne(ch) /\ (\A x \in ToSet(ch) : x \notin Linked)
      /\ \A i \in 1 .. Len(ch) : stale[ch[i]] = IF i < Len(ch) THEN ch[i + 1] ELSE NULL
  BY <1>1, <1>5 DEF Chained
<1>7. /\ c \in Seq(Objects) /\ OneToOne(c) /\ Len(c) = Len(ch) - 1 /\ (\A i \in 1 .. Len(c) : c[i] = ch[i + 1])
      /\ ToSet(c) = ToSet(ch) \ {o} /\ o \in ToSet(ch) /\ 1 \in 1 .. Len(ch) /\ Len(ch) \in Nat
  BY <1>3, <1>6, TailOf
<1>8. o \in Objects /\ o \notin Linked /\ Listed(ch, o) /\ refcnt[o] > 0
  <2>1. o \in Objects
    BY <1>7 DEF ToSet
  <2>2. Listed(ch, o)
    BY <1>7 DEF Listed
  <2> QED BY <1>5, <1>6, <1>7, <2>1, <2>2
<1>9. n = IF c = <<>> THEN NULL ELSE c[1]
  <2>1. n = IF 1 < Len(ch) THEN ch[2] ELSE NULL
    BY <1>1, <1>6, <1>7
  <2>2. c = <<>> <=> ~ (1 < Len(ch))
    BY <1>7, EmptySeq
  <2>3. c # <<>> => 1 \in 1 .. Len(c) /\ c[1] = ch[2]
    BY <1>7, <2>2
  <2> QED BY <2>1, <2>2, <2>3
<1>10. c # <<>> => n \in Objects /\ n # NULL
  <2>1. c # <<>> => c[1] \in Objects
    BY <1>7, TailOf DEF ToSet
  <2> QED BY <1>9, <2>1, Setting
<1>11. /\ refcnt' \in [Objects -> Int] /\ mem' \in [Objects -> {"free", "live", "removed", "waiting", "callback"}]
       /\ \A x \in Objects : /\ refcnt'[x] = refcnt[x] - One(x = o)
                             /\ mem'[x] = IF refcnt'[x] = 0 THEN "free" ELSE "live"
  BY <1>4, <1>5, <1>8, PutCounts
<1>12. Lists' /\ Linked' = Linked
  BY <1>4, RefcntPlaces, ListsKept DEF Base
<1>13. loc[t] \in Locs /\ loc[t].own = {}
  BY <1>4, RefcntPlaces DEF StandsAt
<1>14. PICK p, m : p = (IF c = <<>> THEN "idle" ELSE "clear") /\ m = IF c = <<>> THEN Registers ELSE [loc[t] EXCEPT !.cur = n]
  OBVIOUS
<1>15. Moves(t, p, m)
  <2>1. CASE c = <<>>
    <3>1. pc' = [pc EXCEPT ![t] = "idle"] /\ loc' = [loc EXCEPT ![t] = Registers]
      BY <1>1, <1>9, <2>1 DEF ClearNext
    <3> QED BY <1>4, <1>14, <2>1, <3>1, RefcntPlaces, Rests
  <2>2. CASE c # <<>>
    <3>1. pc' = pc /\ loc' = [loc EXCEPT ![t] = m]
      BY <1>1, <1>9, <1>10, <1>14, <2>2 DEF ClearNext
    <3>2. pc' = [pc EXCEPT ![t] = "clear"]
      BY <1>4, <3>1, RefcntPlaces DEF Base, Standing
    <3>3. m \in Locs /\ m.own = {} /\ m.cur = n
      BY <1>10, <1>13, <1>14, <2>2 DEF Locs
    <3>4. StandsAt("clear", m)
      BY <1>10, <2>2, <3>3, RefcntPlaces DEF StandsAt
    <3> QED BY <1>4, <1>14, <2>2, <3>1, <3>2, <3>3, <3>4, RefcntPlaces DEF Moves
  <2> QED BY <2>1, <2>2
<1>16. lock' = IF c = <<>> THEN [lock EXCEPT ![0] = -1] ELSE lock
  BY <1>1, <1>9, <1>10 DEF ClearNext, Release
<1>17. lock' \in [Locks -> Threads \union {-1}] /\ lock'[0] = IF c = <<>> THEN -1 ELSE t
  BY <1>5, <1>16, RefcntPlaces
<1>18. Base'
  <2>1. stale' \in [Objects -> Pointers]
    BY <1>4, RefcntPlaces DEF Base, Typed
  <2> QED BY <1>4, <1>11, <1>12, <1>15, <1>17, <2>1, RefcntBase
<1>19. Chained(c)'
  <2>1. ASSUME NEW i \in 1 .. Len(c) PROVE stale'[c[i]] = IF i < Len(c) THEN c[i + 1] ELSE NULL
    <3>1. i + 1 \in 1 .. Len(ch) /\ c[i] = ch[i + 1] /\ (i + 1 < Len(ch) <=> i < Len(c)) /\ (i < Len(c) => i + 1 \in 1 .. Len(c))
      BY <1>7
    <3>2. stale[ch[i + 1]] = IF i + 1 < Len(ch) THEN ch[(i + 1) + 1] ELSE NULL
      BY <1>6, <3>1
    <3>3. i < Len(c) => c[i + 1] = ch[(i + 1) + 1]
      BY <1>7, <3>1
    <3> QED BY <1>4, <3>1, <3>2, <3>3
  <2>2. pc'[t] = p /\ loc'[t] = m
    BY <1>15, RefcntPlaces, Moved DEF Base
  <2>3. c # <<>> => p = "clear" /\ m.cur = c[1]
    BY <1>9, <1>13, <1>14 DEF Locs
  <2> QED BY <1>5, <1>6, <1>7, <1>12, <1>17, <2>1, <2>2, <2>3 DEF Chained
<1>20. RefcntStands(t, p, m, c)'
  BY <1>14, <1>17 DEF RefcntStands
<1>21. \A x : ~ Drops(p, m, x) /\ ~ Drops(pc[t], loc[t], x) /\ ~ Uses(p, m, x) /\ ~ Uses(pc[t], loc[t], x)
  BY <1>4, <1>14 DEF Drops, Uses
<1>22. \A u \in Threads \ {t} : \A x \in Objects :
         Drops(pc[u], loc[u], x) => x \notin Linked' /\ x \notin ToSet(c) /\ ~ Drops(p, m, x)
  BY <1>2, <1>7, <1>12, <1>21, RefcntApart
<1>23. ASSUME NEW x \in Objects
       PROVE  /\ refcnt'[x] = refcnt[x] + One(Uses(p, m, x)) - One(Uses(pc[t], loc[t], x))
                             + One(x \in Linked' \/ x \in ToSet(c) \/ Drops(p, m, x))
                             - One(x \in Linked \/ x \in ToSet(ch) \/ Drops(pc[t], loc[t], x))
              /\ mem'[x] = IF refcnt'[x] = 0 THEN "free" ELSE "live"
  <2>1. One(Uses(p, m, x)) = 0 /\ One(Uses(pc[t], loc[t], x)) = 0
    BY <1>21 DEF One
  <2>2. /\ refcnt'[x] = refcnt[x] - One(x = o) /\ (mem'[x] = IF refcnt'[x] = 0 THEN "free" ELSE "live")
        /\ refcnt[x] \in Nat
    BY <1>5, <1>11
  <2>3. CASE x = o
    <3>1. One(x \in Linked' \/ x \in ToSet(c) \/ Drops(p, m, x)) = 0
      BY <1>7, <1>8, <1>12, <1>21, <2>3 DEF One
    <3>2. One(x \in Linked \/ x \in ToSet(ch) \/ Drops(pc[t], loc[t], x)) = 1
      BY <1>7, <2>3 DEF One
    <3>3. One(x = o) = 1
      BY <2>3 DEF One
    <3> QED BY <2>1, <2>2, <3>1, <3>2, <3>3
  <2>4. CASE x # o
    <3>1. One(x \in Linked' \/ x \in ToSet(c) \/ Drops(p, m, x)) = One(x \in Linked \/ x \in ToSet(ch))
      BY <1>7, <1>12, <1>21, <2>4 DEF One
    <3>2. One(x \in Linked \/ x \in ToSet(ch) \/ Drops(pc[t], loc[t], x)) = One(x \in Linked \/ x \in ToSet(ch))
      BY <1>21 DEF One
    <3>3. One(x \in Linked \/ x \in ToSet(ch)) \in Int /\ One(x = o) = 0
      BY <2>4 DEF One
    <3> QED BY <2>1, <2>2, <3>1, <3>2, <3>3
  <2> QED BY <2>3, <2>4
<1>24. \A u \in Threads \ {t} : ~ (pc[u] = "clear")
  BY <1>2, <1>5, RefcntApart
<1> QED BY <1>2, <1>7, <1>15, <1>18, <1>19, <1>20, <1>22, <1>23, <1>24, RefcntThen

\* Every step of route_refcnt.c keeps the counts right.
LEMMA RefcntKeeps ==
  ASSUME RefcntSetting, RefcntInv, NEW t \in Threads, RefcntStep(t)
  PROVE  UNCHANGED impl /\ Base' /\ RefcntInv'
<1>1. Base' /\ RefcntInv'
  BY RefcntLooks, RefcntAcquires, RefcntDrops, RefcntAdds, RefcntUnlinks, RefcntTakes, RefcntGoesOn DEF RefcntStep, refcnt_route_lookup
<1>2. UNCHANGED impl
  BY DEF RefcntStep, refcnt_route_lookup, LookupCall, refcnt_route_add, refcnt_route_del, DropDeleted, refcnt_route_clear, ClearNext,
         Retry, Load, ReadCount, AcquireReference, Compare, DropReference, Return
<1> QED BY <1>1, <1>2


-----------------------------------------------------------------------------
\* The inductive invariant of the programs whose tables are linked lists
TablesInv ==
  impl \in Routes \union Hashes =>
    /\ Base
    /\ impl = "route_refcnt" => RefcntInv
    /\ impl # "route_refcnt" => Own
    /\ UsesRcu => RcuInv
    /\ impl \in Hashes => HashInv

\* No program has two names.
LEMMA Apart ==
  /\ impl = "route_seq" => ~ UsesRcu /\ impl \notin Hashes /\ impl # "route_refcnt"
  /\ impl = "route_seqlock" => ~ UsesRcu /\ impl \notin Hashes /\ impl # "route_refcnt"
  /\ impl = "route_refcnt" => ~ UsesRcu /\ impl \notin Hashes
  /\ impl \in RcuRoutes => UsesRcu /\ impl \notin Hashes /\ impl # "route_refcnt"
  /\ impl \in Hashes => impl \notin RcuRoutes /\ impl # "route_refcnt" /\ (UsesRcu <=> impl = "hash_bkt_rcu")
  /\ impl \in Routes => impl \in {"route_seq", "route_seqlock", "route_refcnt"} \union RcuRoutes
  /\ impl \in Routes \union Hashes => impl \notin Skiplists /\ impl # "tree"
  BY DEF UsesRcu, RcuRoutes, Hashes, Routes, Skiplists

\* In the first state nothing is linked and every thread is idle.
LEMMA TablesBegin == Init => TablesInv
<1> SUFFICES ASSUME Init, impl \in Routes \union Hashes PROVE TablesInv
  BY DEF TablesInv
<1>1. EmptyTables
  BY DEF Init
<1>2. /\ \A b \in Buckets : list[b] = <<>> /\ In(b) = {}
      /\ \A t \in Threads : pc[t] = "idle" /\ loc[t] = Registers
  BY <1>1 DEF EmptyTables, In, ToSet
<1>3. Linked = {} /\ \A t \in Threads : Held(t) = {}
  BY <1>2 DEF Linked, In, Held, Keeps
<1>4. Typed
  <2>1. \A t \in Threads : -1 # t
    BY Setting
  <2> QED BY <1>1 DEF EmptyTables, Typed, Pointers
<1>5. Lists
  <2>1. (CHOOSE k \in Keys : TRUE) \in Keys
    BY Setting
  <2> QED BY <1>1, <1>2, <2>1 DEF EmptyTables, Lists, OneToOne
<1>6. Standing
  <2>1. "idle" \in Places
    BY DEF Places
  <2>2. StandsAt("idle", Registers)
    BY RegistersIn DEF StandsAt
  <2> QED BY <1>1, <1>2, <2>1, <2>2, RegistersIn DEF EmptyTables, Standing
<1>7. Own
  BY <1>1, <1>3 DEF EmptyTables, Own, OwnAt
<1>8. ASSUME impl = "route_refcnt" PROVE RefcntInv
  <2>1. PICK ch : ch = <<>>
    OBVIOUS
  <2>2. ch \in Seq(Objects) /\ ToSet(ch) = {} /\ Len(ch) = 0
    BY <2>1 DEF ToSet
  <2>3. Chained(ch)
    <3>1. lock[0] = -1
      BY <1>1, Setting DEF EmptyTables
    <3> QED BY <2>1, <2>2, <3>1 DEF Chained, OneToOne
  <2>4. ASSUME NEW o \in Objects PROVE Counted(ch, o)
    <3>1. Holders(o) = {}
      BY <1>2 DEF Holders, Uses
    <3>2. ~ Listed(ch, o)
      BY <1>2, <1>3, <2>2 DEF Listed, Drops
    <3>3. Cardinality(Holders(o)) = 0
      BY <3>1, FS_EmptySet
    <3> QED BY <1>1, <3>2, <3>3 DEF Counted, One, EmptyTables
  <2>5. \A t \in Threads : RefcntStands(t, pc[t], loc[t], ch)
    BY <1>2 DEF RefcntStands
  <2>6. \A t \in Threads : \A o \in Objects : ~ Drops(pc[t], loc[t], o)
    BY <1>2 DEF Drops
  <2> QED BY <2>2, <2>3, <2>4, <2>5, <2>6 DEF RefcntInv, Refcounted
<1>9. RcuInv
  <2>1. "idle" \notin Section
    BY DEF Section
  <2>2. \A t \in Threads : Updates(t, pc[t], loc[t]) /\ ReaderSafe(t, pc[t], loc[t])
    BY <1>2, <2>1, RegistersIn DEF Updates, ReaderSafe
  <2> QED BY <1>1, <1>2, <2>1, <2>2 DEF RcuInv, EmptyTables
<1>10. HashInv
  BY <1>2 DEF HashInv, HashStands, LockedAt
<1> QED BY <1>4, <1>5, <1>6, <1>7, <1>8, <1>9, <1>10 DEF TablesInv, Base

\* A program stays the one it is.
LEMMA SameProgram ==
  ASSUME NEW t, RefcntStep(t) \/ SeqStep(t) \/ SeqlockStep(t) \/ HashStep(t)
  PROVE  UNCHANGED impl
<1>1. CASE RefcntStep(t)
  BY <1>1 DEF RefcntStep, refcnt_route_lookup, LookupCall, refcnt_route_add, refcnt_route_del, DropDeleted, refcnt_route_clear,
              ClearNext, Retry, Load, ReadCount, AcquireReference, Compare, DropReference, Return
<1>2. CASE SeqStep(t)
  BY <1>2 DEF SeqStep, seq_route_lookup, seq_route_add, seq_route_del, seq_route_clear, Return, Idle
<1>3. CASE SeqlockStep(t)
  BY <1>3 DEF SeqlockStep, seqlock_route_lookup, seqlock_route_add, seqlock_route_del, seqlock_route_clear, Unlock, FreeDeleted,
              LookupCall, Load, Compare, Return, Begin, SeqlockCheckFreed, CheckRetry
<1>4. CASE HashStep(t)
  BY <1>4 DEF HashStep, hash_bkt, hash_global, hash_unsync, hash_bkt_rcu, HashOperations, LookupStep, hashtab_add, hashtab_del,
              hashtab_unlock_mod, hashtab_lock_mod, defer_del, defer_del_rcu, LookupCall, Load, Compare, Return,
              hashtab_lock_lookup, hashtab_lookup, hashtab_unlock_lookup
<1> QED BY <1>1, <1>2, <1>3, <1>4

\* Every step keeps the invariant.
LEMMA TablesStep ==
  ASSUME TablesInv, Table
  PROVE  TablesInv'
<1>1. PICK t \in Threads : SeqStep(t) \/ RefcntStep(t) \/ SeqlockStep(t) \/ RcuStep(t) \/ HashStep(t)
  BY DEF Table
<1>2. impl \in Routes \union Hashes /\ Base
  BY DEF Table, TablesInv
<1>3. CASE SeqStep(t)
  <2>1. impl = "route_seq" /\ UNCHANGED impl /\ Own
    BY <1>2, <1>3, SameProgram, Apart DEF SeqStep, TablesInv
  <2>2. Base' /\ Own'
    BY <1>2, <1>3, <2>1, SeqKeeps
  <2> QED BY <2>1, <2>2 DEF TablesInv, UsesRcu, RcuRoutes, Hashes
<1>4. CASE SeqlockStep(t)
  <2>1. impl = "route_seqlock" /\ UNCHANGED impl /\ Own
    BY <1>2, <1>4, SameProgram, Apart DEF SeqlockStep, SeqlockMine, TablesInv
  <2>2. Base' /\ Own'
    BY <1>2, <1>4, <2>1, SeqlockKeeps
  <2> QED BY <2>1, <2>2 DEF TablesInv, UsesRcu, RcuRoutes, Hashes
<1>5. CASE RefcntStep(t)
  <2>1. RefcntSetting /\ RefcntInv
    BY <1>2, <1>5 DEF RefcntStep, RefcntMine, TablesInv, RefcntSetting
  <2>2. UNCHANGED impl /\ Base' /\ RefcntInv'
    BY <1>5, <2>1, RefcntKeeps
  <2> QED BY <2>1, <2>2 DEF TablesInv, UsesRcu, RcuRoutes, Hashes, RefcntSetting
<1>6. CASE RcuStep(t)
  <2>1. impl \in RcuRoutes
    BY <1>6 DEF RcuStep, route_rcu, route_cacm, route_cacm_c11, RcuRoutes
  <2>2. RcuSetting /\ RcuInv
    BY <1>2, <2>1, Apart DEF TablesInv, RcuSetting
  <2>3. UNCHANGED impl /\ Base' /\ Own' /\ RcuInv'
    BY <1>6, <2>1, <2>2, RcuKeeps
  <2> QED BY <2>1, <2>3 DEF TablesInv, RcuRoutes, Hashes
<1>7. CASE HashStep(t)
  <2>1. impl \in Hashes /\ UNCHANGED impl
    BY <1>7, SameProgram DEF HashStep, hash_bkt, hash_global, hash_unsync, hash_bkt_rcu, Hashes
  <2>2. HashSetting /\ HashInv
    BY <1>2, <2>1, Apart DEF TablesInv, HashSetting
  <2>3. Base' /\ Own' /\ HashInv'
    BY <1>7, <2>2, HashKeeps DEF HashSetting
  <2>4. ASSUME impl = "hash_bkt_rcu" PROVE RcuInv'
    <3>1. RcuSetting /\ RcuInv
      BY <1>2, <2>1, <2>2, <2>4, Apart DEF TablesInv, RcuSetting, HashSetting
    <3> QED BY <1>7, <2>2, <2>4, <3>1, HashRcuKeeps
  <2> QED BY <2>1, <2>3, <2>4 DEF TablesInv, UsesRcu, RcuRoutes, Hashes
<1> QED BY <1>1, <1>3, <1>4, <1>5, <1>6, <1>7


\* A step that changes nothing keeps it, too.
LEMMA TablesStutter ==
  ASSUME TablesInv, UNCHANGED vars
  PROVE  TablesInv'
<1> USE DEF vars, tableVars
<1>1. Typed' <=> Typed
  BY DEF Typed, Pointers
<1>2. Lists' <=> Lists
  BY DEF Lists, OneToOne, In, Bucket, HASH2BKT
<1>3. Standing' <=> Standing
  BY DEF Standing, StandsAt, Places
<1>4. Own' <=> Own
  BY DEF Own, OwnAt, Linked, Held, Keeps, Fresh
<1>5. RefcntInv' <=> RefcntInv
  <2>1. ASSUME NEW ch \in Seq(Objects) PROVE Refcounted(ch)' <=> Refcounted(ch)
    <3>1. Chained(ch)' <=> Chained(ch)
      BY DEF Chained, Linked
    <3>2. \A t \in Threads : RefcntStands(t, pc[t], loc[t], ch)' <=> RefcntStands(t, pc[t], loc[t], ch)
      BY DEF RefcntStands, Linked
    <3>3. \A o \in Objects : Counted(ch, o)' <=> Counted(ch, o)
      BY DEF Counted, Holders, Uses, Listed, Drops, Linked
    <3> QED BY <3>1, <3>2, <3>3 DEF Refcounted, Drops
  <2> QED BY <2>1 DEF RefcntInv
<1>6. RcuInv' <=> RcuInv
  <2>1. \A t \in Threads : Updates(t, pc[t], loc[t])' <=> Updates(t, pc[t], loc[t])
    BY DEF Updates, In
  <2>2. \A t \in Threads : ReaderSafe(t, pc[t], loc[t])' <=> ReaderSafe(t, pc[t], loc[t])
    <3>1. /\ Section' = Section /\ (Cacm' <=> Cacm)
          /\ \A k : (Bucket(k)' = Bucket(k))
          /\ \A c : In(c)' = In(c)
          /\ \A u \in Threads : Held(u)' = Held(u)
      BY DEF Section, Cacm, Fresh, Bucket, HASH2BKT, In, Held, Keeps
    <3>2. \A r, u \in Threads : NotYet(pc[u], loc[u], r)' <=> NotYet(pc[u], loc[u], r)
      BY <3>1 DEF NotYet
    <3>3. \A r \in Threads : Junk(r)' = Junk(r)
      BY <3>2 DEF Junk
    <3>4. ASSUME NEW r \in Threads, NEW c, NEW o PROVE Guarded(r, c, o)' <=> Guarded(r, c, o)
      BY <3>1, <3>2 DEF Guarded
    <3>5. ASSUME NEW r \in Threads, NEW c, NEW P \in SUBSET Objects PROVE Reach(r, c, P)' <=> Reach(r, c, P)
      BY <3>1, <3>4 DEF Reach
    <3>6. ASSUME NEW r \in Threads PROVE ReaderSafe(r, pc[r], loc[r])' <=> ReaderSafe(r, pc[r], loc[r])
      <4>1. PICK c : c = Bucket(loc[r].key)
        OBVIOUS
      <4>2. c = Bucket(loc[r].key)'
        BY <3>1, <4>1
      <4>3. ASSUME NEW P \in SUBSET Objects
            PROVE  /\ Reach(r, Bucket(loc[r].key), P)' <=> Reach(r, c, P)
                   /\ Reach(r, Bucket(loc[r].key), P) <=> Reach(r, c, P)
        BY <3>5, <4>1, <4>2
      <4>4. ASSUME NEW P \in SUBSET Objects
            PROVE  Among(pc[r], loc[r], P, Junk(r))' <=> Among(pc[r], loc[r], P, Junk(r))
        BY <3>3 DEF Among
      <4> QED BY <3>1, <4>3, <4>4 DEF ReaderSafe
    <3> QED BY <3>6
  <2> QED BY <2>1, <2>2 DEF RcuInv, Section
<1>7. HashInv' <=> HashInv
  BY DEF HashInv, HashStands, LockedAt, LockOf, Rcu, In
<1> QED BY <1>1, <1>2, <1>3, <1>4, <1>5, <1>6, <1>7 DEF TablesInv, Base, UsesRcu

\* Every step of a program keeps the invariant: the skip lists and the trees are other programs.
LEMMA TablesKeeps ==
  ASSUME TablesInv, [Next]_allvars
  PROVE  TablesInv'
<1>1. CASE Table
  BY <1>1, TablesStep
<1>2. CASE List \/ Trees
  BY <1>2 DEF List, Trees, TablesInv, Skiplists, Routes, Hashes
<1>3. CASE Over \/ UNCHANGED allvars
  <2>1. UNCHANGED vars
    BY <1>3 DEF Over, allvars
  <2> QED BY <2>1, TablesStutter
<1> QED BY <1>1, <1>2, <1>3 DEF Next

\* The inductive invariant holds in every execution of route_seq.c, route_refcnt.c, route_seqlock.c,
\* route_rcu.c, route_cacm.c and of the hash tables: who owns every entry, what each thread at each
\* place knows, and for RCU the entries every reader can still come to.
THEOREM Invariance == Spec => []TablesInv
<1>1. Init => TablesInv
  BY TablesBegin
<1>2. TablesInv /\ [Next]_allvars => TablesInv'
  BY TablesKeeps
<1> QED BY <1>1, <1>2, PTL DEF Spec

\* A reader in a section is at an entry that has not been freed.
LEMMA ReadersHaveIt ==
  ASSUME RcuSetting, RcuInv, NEW t \in Threads
  PROVE  /\ pc[t] \in {"compare", "found", "check"} /\ loc[t].cur # NULL => mem[loc[t].cur] # "free"
         /\ pc[t] = "load" /\ loc[t].from # NULL => mem[loc[t].from] # "free"
<1>1. CASE pc[t] \in Section
  <2>1. PICK P \in SUBSET Objects : Reach(t, Bucket(loc[t].key), P) /\ Among(pc[t], loc[t], P, Junk(t))
    BY <1>1 DEF RcuInv, ReaderSafe
  <2>2. Bucket(loc[t].key) \in Buckets
    BY Fields, KeyBucket DEF RcuSetting, Base, Standing
  <2>3. \A o \in P \union Junk(t) : mem[o] # "free"
    BY <2>1, <2>2, GuardedNotFree DEF Reach, Junk
  <2> QED BY <2>1, <2>3 DEF Among
<1>2. CASE pc[t] \notin Section
  <2>1. pc[t] # "check"
    BY <1>2 DEF Section, RcuSetting, UsesRcu, Base, Standing, Places, RcuRoutes
  <2> QED BY <1>2, <2>1 DEF Section
<1> QED BY <1>1, <1>2

\* A lookup in a hash table under its lock is at an entry that is linked.
LEMMA LockedHaveIt ==
  ASSUME HashSetting, HashInv, ~ Rcu, NEW t \in Threads
  PROVE  /\ pc[t] \in {"compare", "found", "check"} /\ loc[t].cur # NULL => mem[loc[t].cur] # "free"
         /\ pc[t] = "load" /\ loc[t].from # NULL => mem[loc[t].from] # "free"
<1>1. HashStands(t, pc[t], loc[t]) /\ HASH2BKT(loc[t].key) \in Buckets /\ pc[t] # "check"
  BY Fields, KeyBucket, HashPlaces DEF HashInv, HashSetting, Base, Standing
<1>2. \A o \in In(HASH2BKT(loc[t].key)) : o \in Objects /\ mem[o] # "free"
  BY <1>1, OneBucket, Owner DEF HashSetting, Base
<1> QED BY <1>1, <1>2 DEF HashStands

\* The invariant says that nothing used has been freed.
LEMMA TablesSafe == TablesInv /\ impl \in Routes \union Hashes => UsedNotFreed
<1> SUFFICES ASSUME TablesInv, impl \in Routes \union Hashes, NEW t \in Threads
             PROVE  /\ impl \notin {"route_refcnt", "route_seqlock"} =>
                         /\ pc[t] \in {"compare", "found", "check"} /\ loc[t].cur # NULL => mem[loc[t].cur] # "free"
                         /\ pc[t] = "load" /\ loc[t].from # NULL => mem[loc[t].from] # "free"
                    /\ impl = "route_refcnt" /\ pc[t] \in {"compare", "next", "found"} => mem[loc[t].cur] # "free"
  BY Apart DEF UsedNotFreed
<1>1. Base /\ (impl # "route_refcnt" => Own)
  BY DEF TablesInv
<1>2. CASE impl = "route_refcnt"
  <2>1. RefcntSetting /\ RefcntInv
    BY <1>1, <1>2 DEF TablesInv, RefcntSetting
  <2>2. PICK ch \in Seq(Objects) : Refcounted(ch)
    BY <2>1 DEF RefcntInv
  <2>3. ASSUME pc[t] \in {"compare", "next", "found"} PROVE mem[loc[t].cur] # "free"
    <3>1. loc[t].cur \in Objects /\ Uses(pc[t], loc[t], loc[t].cur)
      BY <1>1, <1>2, <2>3 DEF Base, Standing, StandsAt, Uses, Hashes
    <3>2. refcnt[loc[t].cur] > 0 /\ mem[loc[t].cur] = IF refcnt[loc[t].cur] = 0 THEN "free" ELSE "live"
      BY <2>1, <2>2, <3>1, RefcntApart
    <3> QED BY <3>2
  <2> QED BY <1>2, <2>3
<1>3. CASE UsesRcu
  <2>1. RcuSetting /\ RcuInv
    BY <1>1, <1>3, Apart DEF TablesInv, RcuSetting
  <2> QED BY <1>3, <2>1, Apart, ReadersHaveIt
<1>4. CASE impl \in Hashes /\ ~ UsesRcu
  <2>1. HashSetting /\ HashInv /\ ~ Rcu
    BY <1>1, <1>4, Apart DEF TablesInv, HashSetting, Rcu
  <2> QED BY <1>4, <2>1, Apart, LockedHaveIt
<1>5. CASE impl = "route_seq"
  <2>1. pc[t] \in {"idle", "return"}
    <3>1. Places = {"idle", "return"}
      BY <1>5 DEF Places, RcuRoutes
    <3> QED BY <1>1, <3>1 DEF Base, Standing
  <2> QED BY <1>5, <2>1
<1>6. CASE impl = "route_seqlock"
  BY <1>6
<1> QED BY <1>2, <1>3, <1>4, <1>5, <1>6, Apart

\* An entry that a lookup of a routing table or a hash table is about to look into has not been given
\* back: whatever adds, deletes, clears and other lookups do, not under a lock, within a read-side
\* critical section, nor between taking and dropping a reference.
THEOREM NothingUsedIsFreed == Spec => [](impl \in Routes \union Hashes => UsedNotFreed)
<1>1. TablesInv => (impl \in Routes \union Hashes => UsedNotFreed)
  BY TablesSafe
<1> QED BY <1>1, Invariance, PTL

\* The invariant says that nothing is left over.
LEMMA TablesTidy == TablesInv /\ impl \in Routes \union Hashes => NoLeak
<1> SUFFICES ASSUME TablesInv, impl \in Routes \union Hashes, \A t \in Threads : pc[t] = "idle",
                    \A o \in Objects : mem[o] \notin {"callback", "waiting"}, NEW o \in Objects
             PROVE  mem[o] = "free" <=> o \notin Linked
  BY Apart DEF NoLeak
<1>1. Base /\ (impl # "route_refcnt" => Own)
  BY DEF TablesInv
<1>2. CASE impl # "route_refcnt"
  <2>1. \A t \in Threads : Held(t) = {}
    BY DEF Held, Keeps
  <2> QED BY <1>1, <1>2, <2>1 DEF Own, OwnAt
<1>3. CASE impl = "route_refcnt"
  <2>1. RefcntSetting /\ RefcntInv
    BY <1>1, <1>3 DEF TablesInv, RefcntSetting
  <2>2. PICK ch \in Seq(Objects) : Refcounted(ch)
    BY <2>1 DEF RefcntInv
  <2>3. lock[0] = -1
    <3>1. lock[0] \in Threads \union {-1}
      BY <2>1, RefcntPlaces
    <3> QED BY <2>2, <3>1 DEF Refcounted, Chained
  <2>4. ToSet(ch) = {} /\ mem[o] = (IF refcnt[o] = 0 THEN "free" ELSE "live")
    <3>1. 0 \in Threads
      BY Setting
    <3> QED BY <2>1, <2>2, <2>3, <3>1, RefcntApart
  <2>5. Cardinality(Holders(o)) = 0
    <3>1. Holders(o) = {}
      BY DEF Holders, Uses
    <3> QED BY <3>1, FS_EmptySet
  <2>6. Listed(ch, o) <=> o \in Linked
    BY <2>4 DEF Listed, Drops
  <2>7. refcnt[o] = One(o \in Linked)
    BY <2>2, <2>5, <2>6 DEF Refcounted, Counted, One
  <2> QED BY <2>4, <2>7 DEF One
<1> QED BY <1>2, <1>3

\* When every thread is idle and no callback waits, exactly the linked entries of a routing table or
\* a hash table are allocated: neither is one lost between being unlinked and being freed, nor is
\* one freed that is linked.
THEOREM NothingLeaks == Spec => [](impl \in Routes \union Hashes => NoLeak)
<1>1. TablesInv => (impl \in Routes \union Hashes => NoLeak)
  BY TablesTidy
<1> QED BY <1>1, Invariance, PTL
=============================================================================
