-------------------------- MODULE RcuNestedProofs --------------------------
(*****************************************************************************)
(* Proofs about module RcuNested: for any number of threads, any depth of    *)
(* nesting up to the width of the count, any word size and any number of     *)
(* grace periods, AnnouncedWhileInside holds in rcu_nest32 and rcu_nest,     *)
(* and rcu_nest32 and rcu_rcpls implement GracePeriod. Each implementation   *)
(* has its inductive invariant, in the three parts of this module; the last  *)
(* part puts them together. Stores still in the buffer of a reader are part  *)
(* of each invariant: a number, a phase or a counter counts as announced     *)
(* only when no value that others can still read says otherwise.             *)
(*****************************************************************************)
EXTENDS RcuNested, SequenceTheorems, TLAPS

\* rcu_nest32.h and rcu_nest32.c

\* Where rcu_gp_lock is held
Locked32 == {"sync_flip", "sync_wait", "sync_unlock"}

\* Inside synchronize_rcu()
Sync32 == {"sync_lock", "sync_flip", "sync_wait", "sync_unlock", "sync_return"}

\* A value of rcu_reader_gp: the phase bit and the nesting count
Value32 == [phase : {0, 1}, nest : Nat]

\* Type correctness
Type32 ==
  /\ phase \in {0, 1}
  /\ rcu_reader_gp \in [Threads -> Value32]
  /\ buffer \in [Threads -> Seq(Value32)]
  /\ snap \in [Threads -> {0, 1}]
  /\ scan \in [Threads -> Threads]
  /\ flip \in [Threads -> {1, 2}]
  /\ pc \in [Threads -> {"idle", "lock_store", "lock_mb", "reading", "nest_mb", "unlock_store", "unnest_store"}
                        \union Sync32]
  /\ preexisting \in [Threads -> SUBSET Threads]

\* What t has announced: nothing outside, one level while it enters or leaves, and inside a positive
\* count in every value others can still read, all with the same phase.
Announced32(t) ==
  /\ pc[t] \in {"idle", "lock_store"} \union Sync32 => N32!Own(t).nest = 0
  /\ pc[t] \in {"lock_mb", "unlock_store"} => N32!Own(t).nest = 1
  /\ pc[t] \in {"unlock_store", "unnest_store"} => N32!Drained(t)
  /\ pc[t] = "unnest_store" => N32!Own(t).nest > 1
  /\ pc[t] \in {"reading", "nest_mb", "unnest_store"} =>
       /\ rcu_reader_gp[t].nest # 0
       /\ \A i \in DOMAIN buffer[t] : buffer[t][i].nest # 0 /\ buffer[t][i].phase = rcu_reader_gp[t].phase

\* Mutual exclusion of the grace periods
Lock32(u) == pc[u] \in Locked32 <=> rcu_gp_lock = u

\* Whom u still has to outlast: readers that are inside. After the first flip, of those already
\* passed by the scan none has the old phase; when it is over, all have the phase that the second
\* flip makes the old one, so that the second scan passes none of them. A reader that loaded the
\* phase long ago may have the new one, and a single scan would pass it, which is why there are two.
Wait32(u) ==
  /\ pc[u] \notin Sync32 => preexisting[u] = {}
  /\ preexisting[u] \subseteq N32!Inside
  /\ pc[u] \in {"sync_unlock", "sync_return"} => preexisting[u] = {}
  /\ pc[u] = "sync_wait" => \A r \in preexisting[u] : rcu_reader_gp[r].phase # phase => r >= scan[u]
  /\ pc[u] = "sync_flip" /\ flip[u] = 2 => \A r \in preexisting[u] : rcu_reader_gp[r].phase = phase
  /\ pc[u] = "sync_wait" /\ flip[u] = 2 => \A r \in preexisting[u] : rcu_reader_gp[r].phase # phase

\* The inductive invariant of rcu_nest32
Inv32 ==
  /\ Type32
  /\ \A t \in Threads : Announced32(t) /\ Lock32(t) /\ Wait32(t)

\* What is left of a store buffer when its first store drains
LEMMA TailIs ==
  ASSUME NEW S, NEW s \in Seq(S), s # <<>>
  PROVE  /\ Len(s) \in Nat \ {0} /\ 1 \in DOMAIN s /\ Len(s) \in DOMAIN s
         /\ Head(s) = s[1] /\ Head(s) \in S /\ s[Len(s)] \in S
         /\ Tail(s) \in Seq(S) /\ Len(Tail(s)) = Len(s) - 1
         /\ \A i \in DOMAIN Tail(s) : i + 1 \in DOMAIN s /\ Tail(s)[i] = s[i + 1]
         /\ IF Tail(s) = <<>> THEN Len(s) = 1 ELSE Tail(s)[Len(s) - 1] = s[Len(s)]
<1>1. /\ Len(s) \in Nat \ {0} /\ 1 \in DOMAIN s /\ Len(s) \in DOMAIN s
      /\ Head(s) = s[1] /\ Head(s) \in S /\ s[Len(s)] \in S
      /\ Tail(s) \in Seq(S) /\ Len(Tail(s)) = Len(s) - 1
  OBVIOUS
<1>2. \A i \in DOMAIN Tail(s) : i + 1 \in DOMAIN s /\ Tail(s)[i] = s[i + 1]
  OBVIOUS
<1>3. CASE Tail(s) = <<>>
  <2>1. Len(<<>>) = 0
    BY EmptySeq
  <2> QED BY <1>1, <1>2, <1>3, <2>1
<1>4. CASE Tail(s) # <<>>
  <2>1. Len(Tail(s)) \in Nat \ {0}
    BY <1>1, <1>4, EmptySeq
  <2>2. Len(s) - 1 \in DOMAIN Tail(s)
    BY <1>1, <2>1
  <2>3. Tail(s)[Len(s) - 1] = s[(Len(s) - 1) + 1]
    BY <1>2, <2>2
  <2>4. (Len(s) - 1) + 1 = Len(s)
    BY <1>1
  <2> QED BY <1>1, <1>2, <1>4, <2>3, <2>4
<1> QED BY <1>3, <1>4

\* The instance has the threads of RcuNested.
LEMMA Base32 ==
  /\ N32!Threads = Threads /\ N32!NoThread = NoThread /\ NoThread \notin Threads
  /\ \A t : N32!Drained(t) <=> buffer[t] = <<>>
  /\ NR_THREADS \in Nat \ {0} /\ \A t \in Threads : t \in Nat /\ t < NR_THREADS
  BY NestAssumption DEF Threads, NoThread, N32!Threads, N32!NoThread, N32!Drained

\* A thread reads its latest store.
LEMMA Own32 ==
  ASSUME Type32, NEW t \in Threads
  PROVE  /\ N32!Own(t) \in Value32
         /\ buffer[t] = <<>> => N32!Own(t) = rcu_reader_gp[t]
         /\ buffer[t] # <<>> => Len(buffer[t]) \in DOMAIN buffer[t] /\ N32!Own(t) = buffer[t][Len(buffer[t])]
<1>1. buffer[t] \in Seq(Value32) /\ rcu_reader_gp[t] \in Value32
  BY DEF Type32
<1>2. buffer[t] # <<>> => Len(buffer[t]) \in DOMAIN buffer[t] /\ buffer[t][Len(buffer[t])] \in Value32
  BY <1>1
<1> QED BY <1>1, <1>2 DEF N32!Own, N32!Drained, N32!Last

\* A store goes to the end of the thread's own buffer.
LEMMA Store32 ==
  ASSUME Type32, NEW t \in Threads, NEW v \in Value32, N32!Store(t, v), UNCHANGED rcu_reader_gp
  PROVE  /\ buffer' \in [Threads -> Seq(Value32)]
         /\ N32!Own(t)' = v
         /\ \A e \in Threads \ {t} : buffer'[e] = buffer[e] /\ N32!Own(e)' = N32!Own(e)
         /\ \A i \in DOMAIN buffer'[t] : buffer'[t][i] = v \/ (i \in DOMAIN buffer[t] /\ buffer'[t][i] = buffer[t][i])
<1>1. buffer[t] \in Seq(Value32) /\ buffer' = [buffer EXCEPT ![t] = Append(buffer[t], v)]
  BY DEF Type32, N32!Store
<1>2. buffer'[t] = Append(buffer[t], v) /\ \A e \in Threads \ {t} : buffer'[e] = buffer[e]
  BY <1>1 DEF Type32
<1>3. Append(buffer[t], v) \in Seq(Value32) /\ Append(buffer[t], v) # <<>>
      /\ Len(Append(buffer[t], v)) = Len(buffer[t]) + 1 /\ Append(buffer[t], v)[Len(buffer[t]) + 1] = v
  BY <1>1
<1>4. \A i \in DOMAIN Append(buffer[t], v) :
        Append(buffer[t], v)[i] = v \/ (i \in DOMAIN buffer[t] /\ Append(buffer[t], v)[i] = buffer[t][i])
  BY <1>1
<1>5. buffer' \in [Threads -> Seq(Value32)]
  BY <1>1, <1>3 DEF Type32
<1>6. N32!Own(t)' = v
  BY <1>2, <1>3 DEF N32!Own, N32!Drained, N32!Last
<1>7. \A e \in Threads \ {t} : N32!Own(e)' = N32!Own(e)
  BY <1>2 DEF N32!Own, N32!Drained, N32!Last
<1> QED BY <1>2, <1>4, <1>5, <1>6, <1>7

\* A store that drains changes what others read, not what its thread reads.
LEMMA Drain32 ==
  ASSUME Type32, NEW t \in Threads, N32!DrainStore(t)
  PROVE  /\ buffer[t] # <<>>
         /\ buffer' \in [Threads -> Seq(Value32)] /\ rcu_reader_gp' \in [Threads -> Value32]
         /\ \A e \in Threads : N32!Own(e)' = N32!Own(e)
         /\ \A e \in Threads \ {t} : buffer'[e] = buffer[e] /\ rcu_reader_gp'[e] = rcu_reader_gp[e]
         /\ 1 \in DOMAIN buffer[t] /\ rcu_reader_gp'[t] = buffer[t][1]
         /\ \A i \in DOMAIN buffer'[t] : i + 1 \in DOMAIN buffer[t] /\ buffer'[t][i] = buffer[t][i + 1]
<1>1. /\ buffer[t] # <<>> /\ buffer[t] \in Seq(Value32)
      /\ rcu_reader_gp' = [rcu_reader_gp EXCEPT ![t] = Head(buffer[t])]
      /\ buffer' = [buffer EXCEPT ![t] = Tail(buffer[t])]
  BY DEF Type32, N32!DrainStore, N32!Drained
<1>2. /\ Len(buffer[t]) \in Nat \ {0} /\ 1 \in DOMAIN buffer[t] /\ Len(buffer[t]) \in DOMAIN buffer[t]
      /\ Head(buffer[t]) = buffer[t][1] /\ Head(buffer[t]) \in Value32
      /\ Tail(buffer[t]) \in Seq(Value32) /\ Len(Tail(buffer[t])) = Len(buffer[t]) - 1
      /\ IF Tail(buffer[t]) = <<>> THEN Len(buffer[t]) = 1
         ELSE Tail(buffer[t])[Len(buffer[t]) - 1] = buffer[t][Len(buffer[t])]
  BY <1>1, TailIs
<1>3. \A i \in DOMAIN Tail(buffer[t]) : i + 1 \in DOMAIN buffer[t] /\ Tail(buffer[t])[i] = buffer[t][i + 1]
  BY <1>1, TailIs
<1>4. buffer'[t] = Tail(buffer[t]) /\ \A e \in Threads \ {t} : buffer'[e] = buffer[e] /\ rcu_reader_gp'[e] = rcu_reader_gp[e]
  BY <1>1 DEF Type32
<1>5. buffer' \in [Threads -> Seq(Value32)] /\ rcu_reader_gp' \in [Threads -> Value32] /\ rcu_reader_gp'[t] = buffer[t][1]
  BY <1>1, <1>2 DEF Type32
<1>6. N32!Own(t)' = N32!Own(t)
  BY <1>1, <1>2, <1>4, <1>5 DEF N32!Own, N32!Drained, N32!Last
<1>7. \A e \in Threads \ {t} : N32!Own(e)' = N32!Own(e)
  BY <1>4 DEF N32!Own, N32!Drained, N32!Last
<1> QED BY <1>1, <1>2, <1>3, <1>4, <1>5, <1>6, <1>7

\* Without a store, every thread reads what it read.
LEMMA Unread32 ==
  ASSUME Inv32, UNCHANGED <<rcu_reader_gp, buffer>>
  PROVE  \A t \in Threads : N32!Own(t)' = N32!Own(t)
  BY DEF N32!Own, N32!Drained, N32!Last

\* The steps of a reader other than leaving keep the invariant: it enters with the phase it loaded,
\* however many grace periods ago.
LEMMA Reader32 ==
  ASSUME Inv32, NEW t \in Threads,
         N32!ReadLockLoad(t) \/ N32!ReadLockStore(t) \/ N32!ReadLockNested(t) \/ N32!ReadLockMb(t) \/ N32!ReadUnlockStore(t)
  PROVE  Inv32' /\ UNCHANGED preexisting
<1> DEFINE Readings == {"idle", "lock_store", "lock_mb", "reading", "nest_mb", "unlock_store", "unnest_store"}
<1> USE Base32 DEF N32!Goto, N32!syncvars, N32!readervars
<1>1. Type32 /\ \A e \in Threads : Announced32(e) /\ Lock32(e) /\ Wait32(e)
  BY DEF Inv32
<1>2. /\ pc[t] \in Readings /\ pc' = [pc EXCEPT ![t] = pc'[t]] /\ pc'[t] \in Readings
      /\ UNCHANGED <<rcu_reader_gp, phase, rcu_gp_lock, scan, flip, preexisting>>
      /\ (t \in N32!Inside => t \in N32!Inside')
  BY <1>1 DEF Type32, N32!ReadLockLoad, N32!ReadLockStore, N32!ReadLockNested, N32!ReadLockMb, N32!ReadUnlockStore, N32!Inside
<1>3. /\ snap' \in [Threads -> {0, 1}] /\ buffer' \in [Threads -> Seq(Value32)]
      /\ Announced32(t)'
      /\ \A e \in Threads \ {t} : buffer'[e] = buffer[e] /\ N32!Own(e)' = N32!Own(e)
  <2>1. CASE N32!ReadLockLoad(t)
    BY <1>1, <2>1, Unread32 DEF N32!ReadLockLoad, Type32, Announced32
  <2>2. CASE N32!ReadLockStore(t)
    <3>1. [phase |-> snap[t], nest |-> 1] \in Value32
      BY <1>1 DEF Type32, Value32
    <3>2. N32!Store(t, [phase |-> snap[t], nest |-> 1])
      BY <2>2 DEF N32!ReadLockStore
    <3> QED BY <1>1, <1>2, <2>2, <3>1, <3>2, Store32 DEF N32!ReadLockStore, Type32, Announced32, Sync32
  <2>3. CASE N32!ReadLockNested(t)
    <3> DEFINE v == [N32!Own(t) EXCEPT !.nest = N32!Own(t).nest + 1]
    <3>1. N32!Own(t) \in Value32 /\ N32!Own(t).phase = rcu_reader_gp[t].phase
      BY <1>1, <2>3, Own32 DEF N32!ReadLockNested, Announced32
    <3>2. v \in Value32 /\ v.nest # 0 /\ v.phase = rcu_reader_gp[t].phase
      BY <3>1 DEF Value32
    <3>3. N32!Store(t, v)
      BY <2>3 DEF N32!ReadLockNested
    <3> HIDE DEF v
    <3>4. /\ buffer' \in [Threads -> Seq(Value32)] /\ N32!Own(t)' = v
          /\ \A e \in Threads \ {t} : buffer'[e] = buffer[e] /\ N32!Own(e)' = N32!Own(e)
          /\ \A i \in DOMAIN buffer'[t] : buffer'[t][i] = v \/ (i \in DOMAIN buffer[t] /\ buffer'[t][i] = buffer[t][i])
      BY <1>1, <1>2, <3>2, <3>3, Store32
    <3>5. snap' = snap /\ pc[t] = "reading" /\ pc'[t] = "nest_mb"
      BY <1>1, <2>3 DEF N32!ReadLockNested, Type32
    <3>6. rcu_reader_gp[t].nest # 0 /\ \A i \in DOMAIN buffer[t] : buffer[t][i].nest # 0 /\ buffer[t][i].phase = rcu_reader_gp[t].phase
      BY <1>1, <3>5 DEF Announced32
    <3>7. Announced32(t)'
      BY <1>2, <3>2, <3>4, <3>5, <3>6 DEF Announced32, Sync32
    <3> QED BY <1>1, <3>4, <3>5, <3>7 DEF Type32
  <2>4. CASE N32!ReadLockMb(t)
    <3>1. buffer[t] = <<>> /\ N32!Own(t) = rcu_reader_gp[t] /\ UNCHANGED <<buffer, snap>>
      BY <1>1, <2>4, Own32 DEF N32!ReadLockMb
    <3>2. DOMAIN buffer[t] = {}
      BY <3>1
    <3> QED BY <1>1, <2>4, <3>1, <3>2, Unread32 DEF N32!ReadLockMb, Type32, Announced32, Sync32
  <2>5. CASE N32!ReadUnlockStore(t)
    <3> DEFINE v == [N32!Own(t) EXCEPT !.nest = N32!Own(t).nest - 1]
    <3>1. N32!Own(t) \in Value32 /\ N32!Own(t) = rcu_reader_gp[t] /\ buffer[t] = <<>> /\ DOMAIN buffer[t] = {}
      BY <1>1, <2>5, Own32 DEF N32!ReadUnlockStore, Announced32
    <3>2. v \in Value32 /\ v.phase = rcu_reader_gp[t].phase
          /\ (pc[t] = "unlock_store" => v.nest = 0) /\ (pc[t] = "unnest_store" => v.nest # 0 /\ rcu_reader_gp[t].nest # 0)
      BY <1>1, <2>5, <3>1 DEF Value32, Announced32, N32!ReadUnlockStore
    <3>3. N32!Store(t, v) /\ UNCHANGED snap
      BY <2>5 DEF N32!ReadUnlockStore
    <3> HIDE DEF v
    <3>4. /\ buffer' \in [Threads -> Seq(Value32)] /\ N32!Own(t)' = v
          /\ \A e \in Threads \ {t} : buffer'[e] = buffer[e] /\ N32!Own(e)' = N32!Own(e)
          /\ \A i \in DOMAIN buffer'[t] : buffer'[t][i] = v \/ (i \in DOMAIN buffer[t] /\ buffer'[t][i] = buffer[t][i])
      BY <1>1, <1>2, <3>2, <3>3, Store32
    <3>5. \/ pc[t] = "unlock_store" /\ pc'[t] = "idle"
          \/ pc[t] = "unnest_store" /\ pc'[t] = "reading"
      BY <1>1, <2>5 DEF N32!ReadUnlockStore, Type32
    <3>6. Announced32(t)'
      BY <1>2, <3>1, <3>2, <3>4, <3>5 DEF Announced32, Sync32
    <3> QED BY <1>1, <3>3, <3>4, <3>6 DEF Type32
  <2> QED BY <2>1, <2>2, <2>3, <2>4, <2>5
<1>4. Type32'
  BY <1>1, <1>2, <1>3 DEF Type32
<1>5. ASSUME NEW e \in Threads PROVE Announced32(e)'
  <2>1. CASE e = t
    BY <1>3, <2>1
  <2>2. CASE e # t
    <3>1. /\ buffer'[e] = buffer[e] /\ N32!Own(e)' = N32!Own(e) /\ pc'[e] = pc[e] /\ rcu_reader_gp' = rcu_reader_gp
          /\ N32!Drained(e)' = N32!Drained(e)
      BY <1>1, <1>2, <1>3, <2>2 DEF Type32, N32!Drained
    <3>2. Announced32(e)
      BY <1>1
    <3> QED BY <3>1, <3>2 DEF Announced32
  <2> QED BY <2>1, <2>2
<1>6. ASSUME NEW e \in Threads PROVE Lock32(e)' /\ Wait32(e)'
  <2>1. N32!Inside \subseteq N32!Inside'
    BY <1>1, <1>2 DEF N32!Inside, Type32
  <2> QED BY <1>1, <1>2, <2>1 DEF Lock32, Wait32, Type32, Locked32, Sync32
<1> QED BY <1>2, <1>4, <1>5, <1>6 DEF Inv32

\* A store that becomes visible keeps the invariant: inside, the phases of all values agree.
LEMMA DrainStep32 ==
  ASSUME Inv32, NEW t \in Threads, N32!DrainStore(t)
  PROVE  Inv32' /\ UNCHANGED <<pc, preexisting>>
<1> USE Base32 DEF N32!syncvars
<1>1. Type32 /\ \A e \in Threads : Announced32(e) /\ Lock32(e) /\ Wait32(e)
  BY DEF Inv32
<1>2. /\ buffer[t] # <<>>
      /\ buffer' \in [Threads -> Seq(Value32)] /\ rcu_reader_gp' \in [Threads -> Value32]
      /\ \A e \in Threads : N32!Own(e)' = N32!Own(e)
      /\ \A e \in Threads \ {t} : buffer'[e] = buffer[e] /\ rcu_reader_gp'[e] = rcu_reader_gp[e]
      /\ 1 \in DOMAIN buffer[t] /\ rcu_reader_gp'[t] = buffer[t][1]
      /\ \A i \in DOMAIN buffer'[t] : i + 1 \in DOMAIN buffer[t] /\ buffer'[t][i] = buffer[t][i + 1]
  BY <1>1, Drain32
<1>3. UNCHANGED <<snap, phase, rcu_gp_lock, scan, flip, pc, preexisting>>
  BY DEF N32!DrainStore
<1>4. \A e \in N32!Inside : rcu_reader_gp'[e].phase = rcu_reader_gp[e].phase
  BY <1>1, <1>2 DEF Announced32, N32!Inside
<1>5. ASSUME NEW e \in Threads PROVE Announced32(e)'
  <2>1. CASE e = t
    BY <1>1, <1>2, <1>3, <2>1 DEF Announced32
  <2>2. CASE e # t
    <3>1. N32!Drained(e)' <=> N32!Drained(e)
      BY <1>2, <2>2 DEF N32!Drained
    <3>2. Announced32(e) /\ N32!Own(e)' = N32!Own(e) /\ rcu_reader_gp'[e] = rcu_reader_gp[e] /\ buffer'[e] = buffer[e] /\ pc' = pc
      BY <1>1, <1>2, <1>3, <2>2
    <3> QED BY <3>1, <3>2 DEF Announced32
  <2> QED BY <2>1, <2>2
<1>6. ASSUME NEW e \in Threads PROVE Lock32(e)' /\ Wait32(e)'
  <2>1. N32!Inside' = N32!Inside
    BY <1>3 DEF N32!Inside
  <2> QED BY <1>1, <1>3, <1>4, <2>1 DEF Lock32, Wait32
<1>7. Type32'
  BY <1>1, <1>2, <1>3 DEF Type32
<1> QED BY <1>3, <1>5, <1>6, <1>7 DEF Inv32

\* rcu_read_unlock() takes the reader off the list of those to outlast, at the outermost level only.
LEMMA UnlockMb32 ==
  ASSUME Inv32, NEW t \in Threads, N32!ReadUnlockMb(t)
  PROVE  /\ Inv32' /\ pc[t] = "reading"
         /\ \/ /\ pc' = [pc EXCEPT ![t] = "unlock_store"]
               /\ preexisting' = [u \in Threads |-> preexisting[u] \ {t}]
            \/ /\ pc' = [pc EXCEPT ![t] = "unnest_store"]
               /\ UNCHANGED preexisting
<1> USE Base32 DEF N32!Goto, N32!syncvars, N32!readervars
<1>1. Type32 /\ \A e \in Threads : Announced32(e) /\ Lock32(e) /\ Wait32(e)
  BY DEF Inv32
<1>2. /\ pc[t] = "reading" /\ buffer[t] = <<>>
      /\ UNCHANGED <<rcu_reader_gp, buffer, snap, phase, rcu_gp_lock, scan, flip>>
      /\ \/ /\ N32!Own(t).nest = 1
            /\ pc' = [pc EXCEPT ![t] = "unlock_store"]
            /\ preexisting' = [u \in Threads |-> preexisting[u] \ {t}]
         \/ /\ N32!Own(t).nest > 1
            /\ pc' = [pc EXCEPT ![t] = "unnest_store"]
            /\ UNCHANGED preexisting
  BY DEF N32!ReadUnlockMb
<1>3. Type32'
  <2>1. preexisting' \in [Threads -> SUBSET Threads]
    BY <1>1, <1>2 DEF Type32
  <2>2. pc' \in [Threads -> {"idle", "lock_store", "lock_mb", "reading", "nest_mb", "unlock_store", "unnest_store"} \union Sync32]
    BY <1>1, <1>2 DEF Type32
  <2> QED BY <1>1, <1>2, <2>1, <2>2 DEF Type32
<1>4. \A e \in Threads : N32!Own(e)' = N32!Own(e) /\ (N32!Drained(e)' <=> N32!Drained(e))
  BY <1>2, Unread32 DEF N32!Drained
<1>5. ASSUME NEW e \in Threads PROVE Announced32(e)'
  <2>1. CASE e = t
    <3>1. /\ Announced32(t) /\ N32!Own(t)' = N32!Own(t) /\ buffer' = buffer /\ rcu_reader_gp' = rcu_reader_gp
          /\ N32!Drained(t) /\ N32!Drained(t)' /\ pc[t] = "reading"
      BY <1>1, <1>2, <1>4
    <3>2. \/ pc'[t] = "unlock_store" /\ N32!Own(t).nest = 1
          \/ pc'[t] = "unnest_store" /\ N32!Own(t).nest > 1
      BY <1>1, <1>2 DEF Type32
    <3> QED BY <2>1, <3>1, <3>2 DEF Announced32, Sync32
  <2>2. CASE e # t
    <3>1. pc'[e] = pc[e]
      BY <1>1, <1>2, <2>2 DEF Type32
    <3> QED BY <1>1, <1>2, <1>4, <3>1 DEF Announced32
  <2> QED BY <2>1, <2>2
<1>6. ASSUME NEW e \in Threads PROVE Lock32(e)' /\ Wait32(e)'
  <2>1. /\ preexisting'[e] \subseteq preexisting[e]
        /\ pc[e] \in Sync32 \/ pc'[e] \in Sync32 => pc'[e] = pc[e]
    BY <1>1, <1>2 DEF Type32, Sync32
  <2>2. preexisting'[e] \subseteq N32!Inside'
    <3>1. preexisting[e] \subseteq N32!Inside
      BY <1>1 DEF Wait32
    <3>2. CASE pc' = [pc EXCEPT ![t] = "unlock_store"] /\ preexisting' = [v \in Threads |-> preexisting[v] \ {t}]
      <4>1. N32!Inside \ {t} \subseteq N32!Inside'
        BY <1>1, <3>2 DEF N32!Inside, Type32
      <4> QED BY <3>1, <3>2, <4>1
    <3>3. CASE pc' = [pc EXCEPT ![t] = "unnest_store"] /\ UNCHANGED preexisting
      <4>1. N32!Inside \subseteq N32!Inside'
        BY <1>1, <3>3 DEF N32!Inside, Type32
      <4> QED BY <3>1, <3>3, <4>1
    <3> QED BY <1>2, <3>2, <3>3
  <2>3. Lock32(e)'
    BY <1>1, <1>2, <2>1 DEF Lock32, Locked32, Sync32
  <2>4. Wait32(e)'
    BY <1>1, <1>2, <2>1, <2>2 DEF Wait32, Sync32
  <2> QED BY <2>3, <2>4
<1> QED BY <1>2, <1>3, <1>5, <1>6 DEF Inv32

\* What the steps of synchronize_rcu() leave alone
LEMMA Sync32Step ==
  ASSUME Inv32, NEW u \in Threads,
         N32!SyncMb(u) \/ N32!SyncLock(u) \/ N32!Flip(u) \/ N32!Wait(u) \/ N32!SyncUnlock(u) \/ N32!SyncReturn(u)
  PROVE  /\ Type32'
         /\ UNCHANGED <<rcu_reader_gp, buffer, snap>>
         /\ pc' = [pc EXCEPT ![u] = pc'[u]] /\ pc[u] \in Sync32 \union {"idle"} /\ pc'[u] \in Sync32 \union {"idle"}
         /\ N32!Inside' = N32!Inside
         /\ \A e \in Threads : Announced32(e)'
<1> USE Base32 DEF N32!Goto, N32!syncvars, N32!readervars
<1>1. Type32 /\ \A e \in Threads : Announced32(e) /\ Lock32(e) /\ Wait32(e)
  BY DEF Inv32
<1>2. /\ UNCHANGED <<rcu_reader_gp, buffer, snap>>
      /\ pc' = [pc EXCEPT ![u] = pc'[u]] /\ pc[u] \in Sync32 \union {"idle"} /\ pc'[u] \in Sync32 \union {"idle"}
  BY <1>1 DEF Type32, Sync32, N32!SyncMb, N32!SyncLock, N32!Flip, N32!Wait, N32!AfterLoop, N32!SyncUnlock, N32!SyncReturn
<1>3. Type32'
  <2>1. pc' \in [Threads -> {"idle", "lock_store", "lock_mb", "reading", "nest_mb", "unlock_store", "unnest_store"} \union Sync32]
    BY <1>1, <1>2 DEF Type32
  <2>2. preexisting' \in [Threads -> SUBSET Threads]
    <3>1. CASE N32!SyncMb(u)
      BY <1>1, <3>1 DEF Type32, N32!SyncMb, N32!Inside
    <3>2. CASE UNCHANGED preexisting
      BY <1>1, <3>2 DEF Type32
    <3> QED BY <3>1, <3>2 DEF N32!SyncLock, N32!Flip, N32!Wait, N32!SyncUnlock, N32!SyncReturn
  <2>3. scan' \in [Threads -> Threads]
    <3>1. CASE scan' = [scan EXCEPT ![u] = scan[u] + 1] /\ scan[u] + 1 < NR_THREADS
      <4>1. scan[u] + 1 \in Threads
        <5>1. scan[u] \in Threads
          BY <1>1 DEF Type32
        <5> QED BY <3>1, <5>1, NestAssumption DEF Threads
      <4> QED BY <1>1, <3>1, <4>1 DEF Type32
    <3>2. CASE scan' = scan \/ scan' = [scan EXCEPT ![u] = 0]
      <4>1. 0 \in Threads
        BY DEF Threads
      <4> QED BY <1>1, <3>2, <4>1 DEF Type32
    <3> QED BY <3>1, <3>2 DEF N32!SyncMb, N32!SyncLock, N32!Flip, N32!Wait, N32!SyncUnlock, N32!SyncReturn
  <2>4. flip' \in [Threads -> {1, 2}]
    BY <1>1 DEF Type32, N32!SyncMb, N32!SyncLock, N32!Flip, N32!Wait, N32!AfterLoop, N32!SyncUnlock, N32!SyncReturn
  <2>5. phase' \in {0, 1}
    BY <1>1 DEF Type32, N32!SyncMb, N32!SyncLock, N32!Flip, N32!Wait, N32!SyncUnlock, N32!SyncReturn
  <2> QED BY <1>1, <1>2, <2>1, <2>2, <2>3, <2>4, <2>5 DEF Type32
<1>4. N32!Inside' = N32!Inside
  BY <1>1, <1>2 DEF N32!Inside, Type32, Sync32
<1>5. ASSUME NEW e \in Threads PROVE Announced32(e)'
  <2>1. N32!Own(e)' = N32!Own(e) /\ (N32!Drained(e)' <=> N32!Drained(e))
    BY <1>2, Unread32 DEF N32!Drained
  <2>2. CASE e = u
    <3>1. N32!Own(e).nest = 0
      BY <1>1, <1>2, <2>2 DEF Announced32
    <3>2. pc'[e] \in Sync32 \union {"idle"}
      BY <1>2, <2>2
    <3> QED BY <2>1, <3>1, <3>2 DEF Announced32, Sync32
  <2>3. CASE e # u
    <3>1. pc'[e] = pc[e]
      BY <1>1, <1>2, <2>3 DEF Type32
    <3> QED BY <1>1, <1>2, <2>1, <3>1 DEF Announced32
  <2> QED BY <2>2, <2>3
<1> QED BY <1>2, <1>3, <1>4, <1>5

\* The call: the readers inside are to be outlasted.
LEMMA SyncMb32 ==
  ASSUME Inv32, NEW u \in Threads, N32!SyncMb(u)
  PROVE  Inv32'
<1> USE Base32 DEF N32!Goto, N32!syncvars, N32!readervars
<1>1. Type32 /\ \A e \in Threads : Announced32(e) /\ Lock32(e) /\ Wait32(e)
  BY DEF Inv32
<1>2. Type32' /\ N32!Inside' = N32!Inside /\ \A e \in Threads : Announced32(e)'
  BY Sync32Step
<1>3. ASSUME NEW e \in Threads PROVE Lock32(e)' /\ Wait32(e)'
  BY <1>1, <1>2 DEF N32!SyncMb, Lock32, Wait32, Type32, Locked32, Sync32
<1> QED BY <1>2, <1>3 DEF Inv32

\* The steps at either end of synchronize_rcu()
LEMMA SyncLock32 ==
  ASSUME Inv32, NEW u \in Threads, N32!SyncLock(u) \/ N32!SyncUnlock(u) \/ N32!SyncReturn(u)
  PROVE  Inv32'
<1> USE Base32 DEF N32!Goto, N32!syncvars, N32!readervars
<1>1. Type32 /\ \A e \in Threads : Announced32(e) /\ Lock32(e) /\ Wait32(e)
  BY DEF Inv32
<1>2. Type32' /\ N32!Inside' = N32!Inside /\ \A e \in Threads : Announced32(e)'
  BY Sync32Step
<1>3. ASSUME NEW e \in Threads PROVE Lock32(e)' /\ Wait32(e)'
  <2>1. CASE N32!SyncLock(u)
    BY <1>1, <1>2, <2>1 DEF N32!SyncLock, Lock32, Wait32, Type32, Locked32, Sync32
  <2>2. CASE N32!SyncUnlock(u)
    BY <1>1, <1>2, <2>2 DEF N32!SyncUnlock, Lock32, Wait32, Type32, Locked32, Sync32
  <2>3. CASE N32!SyncReturn(u)
    BY <1>1, <1>2, <2>3 DEF N32!SyncReturn, Lock32, Wait32, Type32, Locked32, Sync32
  <2> QED BY <2>1, <2>2, <2>3
<1> QED BY <1>2, <1>3 DEF Inv32

\* The flip: the scan starts over with another old phase.
LEMMA Flip32 ==
  ASSUME Inv32, NEW u \in Threads, N32!Flip(u)
  PROVE  Inv32'
<1> USE Base32 DEF N32!Goto, N32!syncvars, N32!readervars
<1>1. Type32 /\ \A e \in Threads : Announced32(e) /\ Lock32(e) /\ Wait32(e)
  BY DEF Inv32
<1>2. Type32' /\ N32!Inside' = N32!Inside /\ \A e \in Threads : Announced32(e)'
  BY Sync32Step
<1>3. /\ pc[u] = "sync_flip" /\ pc' = [pc EXCEPT ![u] = "sync_wait"]
      /\ phase' = 1 - phase /\ phase \in {0, 1} /\ scan' = [scan EXCEPT ![u] = 0]
      /\ UNCHANGED <<rcu_reader_gp, rcu_gp_lock, flip, preexisting>>
      /\ rcu_gp_lock = u
  BY <1>1 DEF N32!Flip, Type32, Lock32, Locked32
<1>4. ASSUME NEW e \in Threads PROVE Lock32(e)'
  BY <1>1, <1>3 DEF Lock32, Type32, Locked32
<1>5. ASSUME NEW e \in Threads PROVE Wait32(e)'
  <2>1. CASE e = u
    <3>1. \A r \in preexisting[u] : r >= 0 /\ rcu_reader_gp[r].phase \in {0, 1}
      BY <1>1 DEF Type32, Value32
    <3> QED BY <1>1, <1>2, <1>3, <2>1, <3>1 DEF Wait32, Type32, Sync32
  <2>2. CASE e # u
    <3>1. pc'[e] = pc[e] /\ pc[e] \notin Locked32
      BY <1>1, <1>3, <2>2 DEF Type32, Lock32
    <3> QED BY <1>1, <1>2, <1>3, <3>1 DEF Wait32, Locked32
  <2> QED BY <2>1, <2>2
<1> QED BY <1>2, <1>4, <1>5 DEF Inv32

\* The scan: a reader of the old phase holds it up, so that whoever it has passed has the new one.
LEMMA WaitStep32 ==
  ASSUME Inv32, NEW u \in Threads, N32!Wait(u)
  PROVE  Inv32'
<1> USE Base32 DEF N32!Goto, N32!syncvars, N32!readervars
<1>1. Type32 /\ \A e \in Threads : Announced32(e) /\ Lock32(e) /\ Wait32(e)
  BY DEF Inv32
<1>2. Type32' /\ N32!Inside' = N32!Inside /\ \A e \in Threads : Announced32(e)'
  BY Sync32Step
<1>3. /\ pc[u] = "sync_wait" /\ rcu_gp_lock = u /\ scan[u] \in Threads /\ flip[u] \in {1, 2}
      /\ UNCHANGED <<rcu_reader_gp, phase, rcu_gp_lock, preexisting>>
      /\ \/ /\ scan' = [scan EXCEPT ![u] = scan[u] + 1] /\ UNCHANGED <<flip, pc>>
         \/ /\ scan[u] + 1 = NR_THREADS /\ flip[u] = 1
            /\ flip' = [flip EXCEPT ![u] = 2] /\ pc' = [pc EXCEPT ![u] = "sync_flip"] /\ UNCHANGED scan
         \/ /\ scan[u] + 1 = NR_THREADS /\ flip[u] = 2
            /\ pc' = [pc EXCEPT ![u] = "sync_unlock"] /\ UNCHANGED <<scan, flip>>
  BY <1>1 DEF N32!Wait, N32!AfterLoop, Type32, Lock32, Locked32
<1>4. \A r \in preexisting[u] : rcu_reader_gp[r].phase # phase => r >= scan[u] + 1
  <2> SUFFICES ASSUME NEW r \in preexisting[u], rcu_reader_gp[r].phase # phase PROVE r >= scan[u] + 1
    OBVIOUS
  <2>1. r \in N32!Inside /\ r \in Threads /\ r >= scan[u]
    BY <1>1, <1>3 DEF Wait32, Type32
  <2>2. rcu_reader_gp[r].nest # 0
    BY <1>1, <2>1 DEF Announced32, N32!Inside
  <2>3. r # scan[u]
    BY <2>2 DEF N32!Wait, N32!rcu_old_gp_ongoing
  <2> QED BY <1>3, <2>1, <2>3
<1>5. scan[u] + 1 = NR_THREADS => \A r \in preexisting[u] : rcu_reader_gp[r].phase = phase
  BY <1>1, <1>4 DEF Type32
<1>6. ASSUME NEW e \in Threads PROVE Lock32(e)'
  BY <1>1, <1>3 DEF Lock32, Type32, Locked32
<1>7. ASSUME NEW e \in Threads PROVE Wait32(e)'
  <2>1. CASE e = u
    <3>1. CASE scan' = [scan EXCEPT ![u] = scan[u] + 1] /\ UNCHANGED <<flip, pc>>
      BY <1>1, <1>2, <1>3, <1>4, <2>1, <3>1 DEF Wait32, Type32, Sync32
    <3>2. CASE /\ scan[u] + 1 = NR_THREADS /\ flip[u] = 1
               /\ flip' = [flip EXCEPT ![u] = 2] /\ pc' = [pc EXCEPT ![u] = "sync_flip"] /\ UNCHANGED scan
      BY <1>1, <1>2, <1>3, <1>5, <2>1, <3>2 DEF Wait32, Type32, Sync32
    <3>3. CASE /\ scan[u] + 1 = NR_THREADS /\ flip[u] = 2
               /\ pc' = [pc EXCEPT ![u] = "sync_unlock"] /\ UNCHANGED <<scan, flip>>
      <4>1. preexisting[u] = {}
        BY <1>1, <1>3, <1>5, <3>3 DEF Wait32
      <4> QED BY <1>1, <1>2, <1>3, <2>1, <3>3, <4>1 DEF Wait32, Type32, Sync32
    <3> QED BY <1>3, <3>1, <3>2, <3>3
  <2>2. CASE e # u
    <3>1. pc'[e] = pc[e] /\ pc[e] \notin Locked32
      BY <1>1, <1>3, <2>2 DEF Type32, Lock32
    <3> QED BY <1>1, <1>2, <1>3, <3>1 DEF Wait32, Locked32
  <2> QED BY <2>1, <2>2
<1> QED BY <1>2, <1>6, <1>7 DEF Inv32

\* One step of GracePeriod, or none, in terms of the two sets of an implementation
Elapses(inside, inside2, syncing, syncing2) ==
  \/ inside2 = inside /\ syncing2 = syncing /\ preexisting' = preexisting
  \/ \E t \in Threads :
       /\ t \notin inside \union syncing /\ inside2 = inside \union {t}
       /\ syncing2 = syncing /\ preexisting' = preexisting
  \/ \E t \in Threads :
       /\ t \in inside /\ inside2 = inside \ {t}
       /\ syncing2 = syncing /\ preexisting' = [u \in Threads |-> preexisting[u] \ {t}]
  \/ \E u \in Threads :
       /\ u \notin inside \union syncing /\ syncing2 = syncing \union {u}
       /\ inside2 = inside /\ preexisting' = [preexisting EXCEPT ![u] = inside]
  \/ \E u \in Threads :
       /\ u \in syncing /\ preexisting[u] = {} /\ syncing2 = syncing \ {u}
       /\ inside2 = inside /\ preexisting' = preexisting

\* Every step of rcu_nest32 keeps the invariant, and is a step of GracePeriod or a stutter.
LEMMA Step32 ==
  ASSUME Inv32, N32!Next
  PROVE  Inv32' /\ Elapses(N32!Inside, N32!Inside', N32!Syncing, N32!Syncing')
<1> USE Base32 DEF N32!Goto
<1>1. Type32 /\ \A e \in Threads : Announced32(e) /\ Lock32(e) /\ Wait32(e)
  BY DEF Inv32
<1>2. PICK t \in Threads :
        \/ N32!DrainStore(t)
        \/ N32!ReadLockLoad(t) \/ N32!ReadLockNested(t) \/ N32!Reader(t)
        \/ N32!SyncMb(t) \/ N32!SyncStep(t)
  BY DEF N32!Next
<1>3. CASE N32!DrainStore(t)
  BY <1>3, DrainStep32 DEF Elapses, N32!Inside, N32!Syncing
<1>4. CASE N32!ReadLockLoad(t) \/ N32!ReadLockStore(t) \/ N32!ReadLockNested(t) \/ N32!ReadUnlockStore(t)
  <2>1. Inv32' /\ UNCHANGED preexisting
    BY <1>4, Reader32
  <2>2. N32!Inside' = N32!Inside /\ N32!Syncing' = N32!Syncing
    BY <1>1, <1>4 DEF Type32, N32!Inside, N32!Syncing, N32!ReadLockLoad, N32!ReadLockStore, N32!ReadLockNested, N32!ReadUnlockStore
  <2> QED BY <2>1, <2>2 DEF Elapses
<1>5. CASE N32!ReadLockMb(t)
  <2>1. Inv32' /\ UNCHANGED preexisting
    BY <1>5, Reader32
  <2>2. N32!Syncing' = N32!Syncing
    BY <1>1, <1>5 DEF Type32, N32!Syncing, N32!ReadLockMb
  <2>3. CASE pc[t] = "lock_mb"
    <3>1. t \notin N32!Inside \union N32!Syncing /\ N32!Inside' = N32!Inside \union {t}
      BY <1>1, <1>5, <2>3 DEF Type32, N32!Inside, N32!Syncing, N32!ReadLockMb
    <3> QED BY <2>1, <2>2, <3>1 DEF Elapses
  <2>4. CASE pc[t] = "nest_mb"
    <3>1. N32!Inside' = N32!Inside
      BY <1>1, <1>5, <2>4 DEF Type32, N32!Inside, N32!ReadLockMb
    <3> QED BY <2>1, <2>2, <3>1 DEF Elapses
  <2> QED BY <1>5, <2>3, <2>4 DEF N32!ReadLockMb
<1>6. CASE N32!ReadUnlockMb(t)
  <2>1. Inv32' /\ pc[t] = "reading"
    BY <1>6, UnlockMb32
  <2>2. CASE pc' = [pc EXCEPT ![t] = "unlock_store"] /\ preexisting' = [u \in Threads |-> preexisting[u] \ {t}]
    <3>1. t \in N32!Inside /\ N32!Inside' = N32!Inside \ {t} /\ N32!Syncing' = N32!Syncing
      BY <1>1, <2>1, <2>2 DEF Type32, N32!Inside, N32!Syncing
    <3> QED BY <2>1, <2>2, <3>1 DEF Elapses
  <2>3. CASE pc' = [pc EXCEPT ![t] = "unnest_store"] /\ UNCHANGED preexisting
    <3>1. N32!Inside' = N32!Inside /\ N32!Syncing' = N32!Syncing
      BY <1>1, <2>1, <2>3 DEF Type32, N32!Inside, N32!Syncing
    <3> QED BY <2>1, <2>3, <3>1 DEF Elapses
  <2> QED BY <1>6, <2>2, <2>3, UnlockMb32
<1>7. CASE N32!SyncMb(t)
  <2>1. Inv32'
    BY <1>7, SyncMb32
  <2>2. /\ t \notin N32!Inside \union N32!Syncing /\ N32!Syncing' = N32!Syncing \union {t} /\ N32!Inside' = N32!Inside
        /\ preexisting' = [preexisting EXCEPT ![t] = N32!Inside]
    BY <1>1, <1>7 DEF Type32, N32!SyncMb, N32!Inside, N32!Syncing
  <2> QED BY <2>1, <2>2 DEF Elapses
<1>8. CASE N32!SyncLock(t) \/ N32!SyncUnlock(t) \/ N32!Flip(t) \/ N32!Wait(t)
  <2>1. Inv32'
    BY <1>8, SyncLock32, Flip32, WaitStep32
  <2>2. N32!Inside' = N32!Inside
    BY <1>8, Sync32Step
  <2>3. N32!Syncing' = N32!Syncing /\ preexisting' = preexisting
    BY <1>1, <1>8 DEF Type32, N32!Syncing, N32!SyncLock, N32!SyncUnlock, N32!Flip, N32!Wait, N32!AfterLoop
  <2> QED BY <2>1, <2>2, <2>3 DEF Elapses
<1>9. CASE N32!SyncReturn(t)
  <2>1. Inv32'
    BY <1>9, SyncLock32
  <2>2. preexisting[t] = {}
    BY <1>1, <1>9 DEF Wait32, N32!SyncReturn
  <2>3. N32!Inside' = N32!Inside
    BY <1>9, Sync32Step
  <2>4. t \in N32!Syncing /\ N32!Syncing' = N32!Syncing \ {t} /\ preexisting' = preexisting
    BY <1>1, <1>9 DEF Type32, N32!Syncing, N32!SyncReturn
  <2> QED BY <2>1, <2>2, <2>3, <2>4 DEF Elapses
<1> QED BY <1>2, <1>3, <1>4, <1>5, <1>6, <1>7, <1>8, <1>9 DEF N32!Reader, N32!SyncStep

\* The invariant of rcu_nest32 holds initially.
LEMMA Init32 == N32!Init => Inv32
<1> SUFFICES ASSUME N32!Init PROVE Inv32
  OBVIOUS
<1> USE Base32
<1>1. /\ phase = 0 /\ rcu_gp_lock = NoThread
      /\ buffer = [t \in Threads |-> <<>>] /\ scan = [t \in Threads |-> 0] /\ pc = [t \in Threads |-> "idle"]
      /\ preexisting = [t \in Threads |-> {}] /\ snap = [t \in Threads |-> 0] /\ flip = [t \in Threads |-> 1]
      /\ rcu_reader_gp = [t \in Threads |-> [phase |-> 0, nest |-> 0]]
  BY DEF N32!Init, N32!BaseInit
<1>2. [phase |-> 0, nest |-> 0] \in Value32 /\ 0 \in Threads
  BY DEF Value32, Threads
<1>3. Type32
  <2>1. buffer \in [Threads -> Seq(Value32)]
    BY <1>1
  <2> QED BY <1>1, <1>2, <2>1 DEF Type32
<1>4. ASSUME NEW t \in Threads PROVE Announced32(t)
  <2>1. N32!Own(t).nest = 0
    BY <1>1 DEF N32!Own
  <2> QED BY <1>1, <2>1 DEF Announced32, Sync32
<1>5. ASSUME NEW t \in Threads PROVE Lock32(t) /\ Wait32(t)
  BY <1>1 DEF Lock32, Wait32, Locked32, Sync32, N32!Inside
<1> QED BY <1>3, <1>4, <1>5 DEF Inv32

-----------------------------------------------------------------------------
\* rcu_nest.h and rcu_nest.c

\* An unsigned long
Word == 0 .. WORD - 1
\* The lowest bit of the grace-period number; the bits below count the nesting.
Bottom == RCU_GP_CTR_BOTTOM_BIT

\* Quotient and rest are unique.
LEMMA RestIs ==
  ASSUME NEW b \in Nat \ {0}, NEW q \in Int, NEW r \in 0 .. b - 1
  PROVE  (b * q + r) % b = r
<1> DEFINE x == b * q + r
           d == x \div b
           m == x % b
<1>1. x \in Int /\ b * q \in Int
  OBVIOUS
<1>2. d \in Int /\ m \in 0 .. b - 1 /\ x = b * d + m
  BY <1>1
<1>3. x = b * q + r
  OBVIOUS
<1> HIDE DEF x, d, m
<1>4. ~ (q < d)
  <2> SUFFICES ASSUME q < d PROVE FALSE
    OBVIOUS
  <2>1. b * (q + 1) <= b * d
    BY <1>2
  <2>2. b * (q + 1) = b * q + b
    OBVIOUS
  <2> QED BY <1>1, <1>2, <1>3, <2>1, <2>2
<1>5. ~ (d < q)
  <2> SUFFICES ASSUME d < q PROVE FALSE
    OBVIOUS
  <2>1. b * (d + 1) <= b * q
    BY <1>2
  <2>2. b * (d + 1) = b * d + b /\ b * d \in Int
    BY <1>2
  <2> QED BY <1>1, <1>2, <1>3, <2>1, <2>2
<1>6. d = q
  BY <1>2, <1>4, <1>5
<1> QED BY <1>1, <1>2, <1>3, <1>6 DEF m, x

\* A number is its quotient and rest.
LEMMA Parts ==
  ASSUME NEW b \in Nat \ {0}, NEW v \in Nat
  PROVE  /\ v \div b \in Nat /\ v % b \in 0 .. b - 1
         /\ v = b * (v \div b) + (v % b)
<1>1. v % b \in 0 .. b - 1 /\ v = b * (v \div b) + (v % b) /\ v \div b \in Int
  OBVIOUS
<1> DEFINE q == v \div b
           r == v % b
<1>2. v = b * q + r /\ q \in Int /\ r \in 0 .. b - 1
  BY <1>1
<1> HIDE DEF q, r
<1>3. q >= 0
  <2> SUFFICES ASSUME q < 0 PROVE FALSE
    BY <1>2
  <2>2. q <= 0 - 1
    BY <1>2
  <2>1. b * q <= b * (0 - 1) /\ b * (0 - 1) = 0 - b /\ b * q \in Int
    BY <1>2, <2>2
  <2> QED BY <1>2, <2>1
<1> QED BY <1>1, <1>3 DEF q

\* A word is made of whole numbers: WORD is a multiple of the bottom bit.
LEMMA Sizes ==
  /\ Bottom \in Nat \ {0} /\ Bottom >= 2 /\ WORD \in Nat \ {0}
  /\ \E k \in Nat : WORD = Bottom * k
<1>1. Bottom \in Nat /\ Bottom >= 2
  BY NestAssumption, WordAssumption DEF Bottom
<1>2. WORD \in Nat \ {0}
  BY WordAssumption
<1>3. WORD % Bottom = 0
  BY WordAssumption DEF Bottom
<1>4. WORD \div Bottom \in Nat /\ WORD = Bottom * (WORD \div Bottom) + (WORD % Bottom)
  BY <1>1, <1>2, Parts
<1>5. WORD = Bottom * (WORD \div Bottom)
  <2>1. Bottom * (WORD \div Bottom) \in Nat
    BY <1>1, <1>4
  <2> QED BY <1>3, <1>4, <2>1
<1> QED BY <1>1, <1>2, <1>4, <1>5

\* Between two multiples lies a whole unit.
LEMMA Multiples ==
  ASSUME NEW b \in Nat \ {0}, NEW q \in Nat, NEW k \in Nat, b * q < b * k
  PROVE  b * q + b <= b * k
<1>1. q < k
  <2> SUFFICES ASSUME k <= q PROVE FALSE
    OBVIOUS
  <2>1. b * k <= b * q
    OBVIOUS
  <2> QED BY <2>1
<1>2. b * (q + 1) <= b * k
  BY <1>1
<1> QED BY <1>2

\* Entering a nested section does not carry into the grace-period number, which holds because the
\* depth is below the bottom bit.
LEMMA NestUp ==
  ASSUME NEW v \in Word, v % Bottom < Bottom - 1
  PROVE  /\ (v + 1) % WORD = v + 1 /\ v + 1 \in Word
         /\ (v + 1) % Bottom = (v % Bottom) + 1
<1>1. PICK k \in Nat : WORD = Bottom * k
  BY Sizes
<1>2. v \in Nat /\ v < WORD /\ Bottom \in Nat \ {0} /\ WORD \in Nat \ {0}
  BY Sizes DEF Word
<1> DEFINE q == v \div Bottom
           r == v % Bottom
<1>3. q \in Nat /\ r \in 0 .. Bottom - 1 /\ v = Bottom * q + r
  BY <1>2, Parts
<1>4. r < Bottom - 1
  OBVIOUS
<1> HIDE DEF q, r, Bottom
<1>5. Bottom * q + Bottom <= WORD
  <2>1. Bottom * q \in Nat /\ Bottom * q < Bottom * k
    BY <1>1, <1>2, <1>3
  <2> QED BY <1>1, <1>2, <1>3, <2>1, Multiples
<1>6. v + 1 < WORD
  BY <1>2, <1>3, <1>4, <1>5
<1>7. (Bottom * q + (r + 1)) % Bottom = r + 1
  BY <1>2, <1>3, <1>4, RestIs
<1>8. v + 1 = Bottom * q + (r + 1)
  BY <1>2, <1>3
<1> QED BY <1>2, <1>6, <1>7, <1>8 DEF Word, r

\* Leaving one does not borrow from it.
LEMMA NestDown ==
  ASSUME NEW v \in Word, v % Bottom # 0
  PROVE  /\ (v - 1) % WORD = v - 1 /\ v - 1 \in Word
         /\ (v - 1) % Bottom = (v % Bottom) - 1
<1>2. v \in Nat /\ v < WORD /\ Bottom \in Nat \ {0} /\ WORD \in Nat \ {0}
  BY Sizes DEF Word
<1> DEFINE q == v \div Bottom
           r == v % Bottom
<1>3. q \in Nat /\ r \in 0 .. Bottom - 1 /\ v = Bottom * q + r
  BY <1>2, Parts
<1>4. r # 0
  OBVIOUS
<1> HIDE DEF q, r, Bottom
<1>5. Bottom * q \in Nat
  BY <1>2, <1>3
<1>6. v - 1 \in Word
  BY <1>2, <1>3, <1>4, <1>5 DEF Word
<1>7. (Bottom * q + (r - 1)) % Bottom = r - 1
  BY <1>2, <1>3, <1>4, RestIs
<1>8. v - 1 = Bottom * q + (r - 1)
  BY <1>2, <1>3, <1>5
<1> QED BY <1>2, <1>6, <1>7, <1>8 DEF Word, r

\* The next grace-period number, wrapped around, has a zero count.
LEMMA Onward ==
  ASSUME NEW v \in Word, v % Bottom = 0
  PROVE  /\ (v + Bottom) % WORD \in Word
         /\ ((v + Bottom) % WORD) % Bottom = 0
<1>1. PICK k \in Nat : WORD = Bottom * k
  BY Sizes
<1>2. v \in Nat /\ v < WORD /\ Bottom \in Nat \ {0} /\ WORD \in Nat \ {0}
  BY Sizes DEF Word
<1> DEFINE q == v \div Bottom
<1>3. q \in Nat /\ v = Bottom * q
  <2>1. q \in Nat /\ v = Bottom * q + (v % Bottom)
    BY <1>2, Parts
  <2> HIDE DEF q, Bottom
  <2>2. Bottom * q \in Nat
    BY <1>2, <2>1
  <2> QED BY <2>1, <2>2
<1> HIDE DEF q, Bottom
<1>4. v + Bottom <= WORD
  BY <1>1, <1>2, <1>3, Multiples
<1>5. CASE v + Bottom = WORD
  <2>1. (v + Bottom) % WORD = 0 /\ 0 % Bottom = 0
    BY <1>2, <1>5
  <2> QED BY <1>2, <2>1 DEF Word
<1>6. CASE v + Bottom < WORD
  <2>1. (v + Bottom) % WORD = v + Bottom
    BY <1>2, <1>6
  <2>2. v + Bottom = Bottom * (q + 1) + 0
    BY <1>2, <1>3
  <2>3. (Bottom * (q + 1) + 0) % Bottom = 0
    BY <1>2, <1>3, RestIs
  <2> QED BY <1>2, <1>6, <2>1, <2>2, <2>3 DEF Word
<1> QED BY <1>2, <1>4, <1>5, <1>6

\* The threads of rcu_nest
Few == N!Threads

\* Type correctness
NestType ==
  /\ rcu_gp_ctr \in Word /\ rcu_gp_ctr % Bottom = 0
  /\ rcu_reader_gp \in [Few -> Word]
  /\ buffer \in [Few -> Seq(Word)]
  /\ tmp \in [Few -> Word]
  /\ pc \in [Few -> {"idle", "lock_store", "lock_mb", "lock_check", "lock_retry", "reading", "nest_mb", "unlock_store",
                     "unnest_store", "sync_lock", "sync_advance", "sync_ongoing", "sync_behind", "sync_unlock", "sync_return"}]

\* The words of t that others can still read, or will
Visible(t) == {rcu_reader_gp[t]} \union {buffer[t][i] : i \in DOMAIN buffer[t]}

\* The grace-period number of a word
Number(w) == w - (w % Bottom)

\* What t has announced. Unlike in rcu_nest32, a retry of rcu_read_lock() stores another number
\* before the thread is inside.
NestAnnounced(t) ==
  /\ pc[t] = "lock_store" => tmp[t] % Bottom = 1
  /\ pc[t] \in {"lock_mb", "lock_check", "unlock_store"} => N!Own(t) % Bottom = 1
  /\ pc[t] \in {"lock_check", "unlock_store", "unnest_store"} => buffer[t] = <<>>
  /\ pc[t] = "unnest_store" => N!Own(t) % Bottom > 1
  /\ pc[t] \in {"reading", "nest_mb", "unnest_store"} =>
       \A v \in Visible(t) : v % Bottom # 0 /\ Number(v) = Number(N!Own(t))

\* The inductive invariant of rcu_nest
NestInv == NestType /\ \A t \in Few : NestAnnounced(t)

\* The operators of the instance
LEMMA NestBaseIs ==
  /\ \A t : N!Drained(t) <=> buffer[t] = <<>>
  /\ \A a, b : N!Plus(a, b) = (a + b) % WORD /\ N!Minus(a, b) = (a - b) % WORD
  /\ \A v : N!Nest(v) = v % Bottom
  BY DEF N!Drained, N!Plus, N!Minus, N!Nest, Bottom

\* A thread reads one of its visible words, and the only one once it has drained.
LEMMA NestOwn ==
  ASSUME NestType, NEW t \in Few
  PROVE  /\ N!Own(t) \in Word /\ N!Own(t) \in Visible(t)
         /\ buffer[t] = <<>> => Visible(t) = {N!Own(t)}
<1>1. buffer[t] \in Seq(Word) /\ rcu_reader_gp[t] \in Word
  BY DEF NestType
<1>2. buffer[t] # <<>> => Len(buffer[t]) \in DOMAIN buffer[t] /\ buffer[t][Len(buffer[t])] \in Word
  BY <1>1
<1>3. buffer[t] = <<>> => DOMAIN buffer[t] = {}
  OBVIOUS
<1> QED BY <1>1, <1>2, <1>3 DEF N!Own, N!Drained, N!Last, Visible

\* A store adds one visible word.
LEMMA NestStore ==
  ASSUME NestType, NEW t \in Few, NEW v \in Word, N!Store(t, v), UNCHANGED rcu_reader_gp
  PROVE  /\ buffer' \in [Few -> Seq(Word)]
         /\ N!Own(t)' = v
         /\ \A e \in Few \ {t} : buffer'[e] = buffer[e]
         /\ Visible(t)' \subseteq Visible(t) \union {v}
<1>1. buffer[t] \in Seq(Word) /\ buffer' = [buffer EXCEPT ![t] = Append(buffer[t], v)]
  BY DEF NestType, N!Store
<1>2. buffer'[t] = Append(buffer[t], v) /\ \A e \in Few \ {t} : buffer'[e] = buffer[e]
  BY <1>1 DEF NestType
<1>3. Append(buffer[t], v) \in Seq(Word) /\ Append(buffer[t], v) # <<>>
      /\ Len(Append(buffer[t], v)) = Len(buffer[t]) + 1 /\ Append(buffer[t], v)[Len(buffer[t]) + 1] = v
  BY <1>1
<1>4. \A i \in DOMAIN Append(buffer[t], v) :
        Append(buffer[t], v)[i] = v \/ (i \in DOMAIN buffer[t] /\ Append(buffer[t], v)[i] = buffer[t][i])
  BY <1>1
<1>5. buffer' \in [Few -> Seq(Word)]
  BY <1>1, <1>3 DEF NestType
<1>6. N!Own(t)' = v
  BY <1>2, <1>3 DEF N!Own, N!Drained, N!Last
<1>7. Visible(t)' \subseteq Visible(t) \union {v}
  BY <1>2, <1>4 DEF Visible
<1> QED BY <1>2, <1>5, <1>6, <1>7

\* A store that drains leaves only words that were visible.
LEMMA NestDrain ==
  ASSUME NestType, NEW t \in Few, N!DrainStore(t)
  PROVE  /\ buffer[t] # <<>>
         /\ buffer' \in [Few -> Seq(Word)] /\ rcu_reader_gp' \in [Few -> Word]
         /\ N!Own(t)' = N!Own(t)
         /\ \A e \in Few \ {t} : buffer'[e] = buffer[e] /\ rcu_reader_gp'[e] = rcu_reader_gp[e]
         /\ Visible(t)' \subseteq Visible(t)
<1>1. /\ buffer[t] # <<>> /\ buffer[t] \in Seq(Word)
      /\ rcu_reader_gp' = [rcu_reader_gp EXCEPT ![t] = Head(buffer[t])]
      /\ buffer' = [buffer EXCEPT ![t] = Tail(buffer[t])]
  BY DEF NestType, N!DrainStore, N!Drained
<1>2. /\ Len(buffer[t]) \in Nat \ {0} /\ 1 \in DOMAIN buffer[t] /\ Len(buffer[t]) \in DOMAIN buffer[t]
      /\ Head(buffer[t]) = buffer[t][1] /\ Head(buffer[t]) \in Word
      /\ Tail(buffer[t]) \in Seq(Word) /\ Len(Tail(buffer[t])) = Len(buffer[t]) - 1
      /\ IF Tail(buffer[t]) = <<>> THEN Len(buffer[t]) = 1
         ELSE Tail(buffer[t])[Len(buffer[t]) - 1] = buffer[t][Len(buffer[t])]
  BY <1>1, TailIs
<1>3. \A i \in DOMAIN Tail(buffer[t]) : i + 1 \in DOMAIN buffer[t] /\ Tail(buffer[t])[i] = buffer[t][i + 1]
  BY <1>1, TailIs
<1>4. buffer'[t] = Tail(buffer[t]) /\ \A e \in Few \ {t} : buffer'[e] = buffer[e] /\ rcu_reader_gp'[e] = rcu_reader_gp[e]
  BY <1>1 DEF NestType
<1>5. buffer' \in [Few -> Seq(Word)] /\ rcu_reader_gp' \in [Few -> Word] /\ rcu_reader_gp'[t] = buffer[t][1]
  BY <1>1, <1>2 DEF NestType
<1>6. N!Own(t)' = N!Own(t)
  BY <1>1, <1>2, <1>4, <1>5 DEF N!Own, N!Drained, N!Last
<1>7. Visible(t)' \subseteq Visible(t)
  BY <1>2, <1>3, <1>4, <1>5 DEF Visible
<1> QED BY <1>1, <1>4, <1>5, <1>6, <1>7

\* A step of t leaves the words of the others alone.
LEMMA NestOthers ==
  ASSUME NestInv, NEW t \in Few, NEW e \in Few \ {t},
         buffer'[e] = buffer[e], rcu_reader_gp'[e] = rcu_reader_gp[e], pc'[e] = pc[e], tmp'[e] = tmp[e]
  PROVE  NestAnnounced(e)'
<1>1. N!Own(e)' = N!Own(e) /\ Visible(e)' = Visible(e)
  BY DEF N!Own, N!Drained, N!Last, Visible
<1>2. NestAnnounced(e)
  BY DEF NestInv
<1> QED BY <1>1, <1>2 DEF NestAnnounced

\* A step without a store leaves t's words alone.
LEMMA NestKept ==
  ASSUME NEW t, buffer'[t] = buffer[t], rcu_reader_gp'[t] = rcu_reader_gp[t]
  PROVE  N!Own(t)' = N!Own(t) /\ Visible(t)' = Visible(t)
  BY DEF N!Own, N!Drained, N!Last, Visible

\* The steps of a reader keep the invariant.
LEMMA NestRead ==
  ASSUME NestInv, NEW t \in Few,
         \/ N!DrainStore(t)
         \/ N!ReadLockLoad(t) \/ N!ReadLockStore(t) \/ N!ReadLockNested(t) \/ N!ReadLockMb(t) \/ N!ReadLockCheck(t)
         \/ N!ReadUnlockMb(t) \/ N!ReadUnlockStore(t)
  PROVE  NestInv'
<1> USE NestBaseIs DEF N!Goto, N!syncvars
<1>1. NestType /\ NestAnnounced(t)
  BY DEF NestInv
<1>2. rcu_gp_ctr' = rcu_gp_ctr
  BY DEF N!DrainStore, N!ReadLockLoad, N!ReadLockStore, N!ReadLockNested, N!ReadLockMb, N!ReadLockCheck, N!ReadUnlockMb, N!ReadUnlockStore
<1> DEFINE Kept == \A e \in Few \ {t} : buffer'[e] = buffer[e] /\ rcu_reader_gp'[e] = rcu_reader_gp[e] /\ pc'[e] = pc[e] /\ tmp'[e] = tmp[e]
<1> SUFFICES NestType' /\ NestAnnounced(t)' /\ Kept
  <2> HIDE DEF Kept
  <2>1. ASSUME Kept, NEW e \in Few \ {t} PROVE NestAnnounced(e)'
    BY <2>1, NestOthers DEF Kept
  <2> QED BY <2>1 DEF NestInv
<1>3. CASE N!DrainStore(t)
  <2>1. /\ buffer[t] # <<>>
        /\ buffer' \in [Few -> Seq(Word)] /\ rcu_reader_gp' \in [Few -> Word]
        /\ N!Own(t)' = N!Own(t)
        /\ \A e \in Few \ {t} : buffer'[e] = buffer[e] /\ rcu_reader_gp'[e] = rcu_reader_gp[e]
        /\ Visible(t)' \subseteq Visible(t)
    BY <1>1, <1>3, NestDrain
  <2>2. UNCHANGED <<tmp, pc>>
    BY <1>3 DEF N!DrainStore
  <2>3. NestAnnounced(t)'
    BY <1>1, <2>1, <2>2 DEF NestAnnounced
  <2> QED BY <1>1, <1>2, <2>1, <2>2, <2>3 DEF NestType
<1>4. CASE N!ReadLockLoad(t)
  <2>1. tmp' = [tmp EXCEPT ![t] = (rcu_gp_ctr + 1) % WORD] /\ UNCHANGED <<rcu_reader_gp, buffer>> /\ pc' = [pc EXCEPT ![t] = "lock_store"]
    BY <1>4 DEF N!ReadLockLoad
  <2>2. (rcu_gp_ctr + 1) % WORD \in Word /\ ((rcu_gp_ctr + 1) % WORD) % Bottom = 1
    <3>1. rcu_gp_ctr \in Word /\ rcu_gp_ctr % Bottom = 0 /\ 0 < Bottom - 1
      BY <1>1, Sizes DEF NestType
    <3>2. (rcu_gp_ctr + 1) % WORD = rcu_gp_ctr + 1 /\ rcu_gp_ctr + 1 \in Word /\ (rcu_gp_ctr + 1) % Bottom = 0 + 1
      BY <3>1, NestUp
    <3> QED BY <3>2
  <2>3. NestAnnounced(t)'
    BY <1>1, <2>1, <2>2 DEF NestAnnounced, NestType
  <2> QED BY <1>1, <1>2, <2>1, <2>2, <2>3 DEF NestType
<1>5. CASE N!ReadLockStore(t)
  <2>1. tmp[t] \in Word /\ N!Store(t, tmp[t]) /\ UNCHANGED <<rcu_reader_gp, tmp>> /\ tmp[t] % Bottom = 1 /\ pc' = [pc EXCEPT ![t] = "lock_mb"]
    BY <1>1, <1>5 DEF N!ReadLockStore, NestType, NestAnnounced
  <2>2. /\ buffer' \in [Few -> Seq(Word)] /\ N!Own(t)' = tmp[t]
        /\ \A e \in Few \ {t} : buffer'[e] = buffer[e]
    BY <1>1, <2>1, NestStore
  <2>3. NestAnnounced(t)'
    BY <1>1, <2>1, <2>2 DEF NestAnnounced, NestType
  <2> QED BY <1>1, <1>2, <2>1, <2>2, <2>3 DEF NestType
<1>6. CASE N!ReadLockNested(t)
  <2> DEFINE o == N!Own(t)
             v == (o + 1) % WORD
  <2>1. /\ o \in Word /\ o % Bottom # 0 /\ o % Bottom < Bottom - 1 /\ pc[t] = "reading"
        /\ \A w \in Visible(t) : w % Bottom # 0 /\ Number(w) = Number(o)
    <3>1. pc[t] = "reading" /\ o % Bottom < MaxNest
      BY <1>6 DEF N!ReadLockNested
    <3>2. o \in Word /\ o \in Visible(t)
      BY <1>1, NestOwn
    <3>3. MaxNest \in Nat /\ Bottom \in Nat /\ MaxNest <= Bottom - 1
      BY NestAssumption, Sizes DEF Bottom
    <3>4. o % Bottom \in Nat
      BY <3>2, Sizes DEF Word
    <3> HIDE DEF o, Bottom
    <3>5. o % Bottom < Bottom - 1
      BY <3>1, <3>3, <3>4
    <3> QED BY <1>1, <3>1, <3>2, <3>5 DEF NestAnnounced, o
  <2>2. tmp' = [tmp EXCEPT ![t] = v] /\ N!Store(t, v) /\ UNCHANGED rcu_reader_gp /\ pc' = [pc EXCEPT ![t] = "nest_mb"]
    BY <1>6 DEF N!ReadLockNested
  <2> HIDE DEF o
  <2>3. v = o + 1 /\ v \in Word /\ (o + 1) % Bottom = (o % Bottom) + 1
    BY <2>1, NestUp
  <2>4. v % Bottom # 0 /\ Number(v) = Number(o)
    <3>1. o \in Nat /\ o % Bottom \in Nat
      BY <2>1, Sizes DEF Word
    <3> QED BY <2>3, <3>1 DEF Number
  <2> HIDE DEF v
  <2>5. /\ buffer' \in [Few -> Seq(Word)] /\ N!Own(t)' = v
        /\ \A e \in Few \ {t} : buffer'[e] = buffer[e]
        /\ Visible(t)' \subseteq Visible(t) \union {v}
    BY <1>1, <2>2, <2>3, NestStore
  <2>6. \A w \in Visible(t)' : w % Bottom # 0 /\ Number(w) = Number(v)
    BY <2>1, <2>4, <2>5
  <2>7. NestAnnounced(t)'
    <3>1. pc'[t] = "nest_mb"
      BY <1>1, <2>2 DEF NestType
    <3> QED BY <2>5, <2>6, <3>1 DEF NestAnnounced
  <2> QED BY <1>1, <1>2, <2>2, <2>3, <2>5, <2>7 DEF NestType
<1>7. CASE N!ReadLockMb(t)
  <2>1. buffer[t] = <<>> /\ UNCHANGED <<rcu_reader_gp, buffer, tmp>>
    BY <1>7 DEF N!ReadLockMb
  <2>2. N!Own(t)' = N!Own(t) /\ Visible(t)' = Visible(t)
    BY <2>1, NestKept
  <2>3. CASE pc[t] = "lock_mb" /\ pc' = [pc EXCEPT ![t] = "lock_check"]
    <3>1. NestAnnounced(t)'
      BY <1>1, <2>1, <2>2, <2>3 DEF NestAnnounced, NestType
    <3> QED BY <1>1, <1>2, <2>1, <2>3, <3>1 DEF NestType
  <2>4. CASE pc[t] = "nest_mb" /\ pc' = [pc EXCEPT ![t] = "reading"]
    <3>1. NestAnnounced(t)'
      BY <1>1, <2>1, <2>2, <2>4 DEF NestAnnounced, NestType
    <3> QED BY <1>1, <1>2, <2>1, <2>4, <3>1 DEF NestType
  <2> QED BY <1>7, <2>3, <2>4 DEF N!ReadLockMb
<1>8. CASE N!ReadLockCheck(t)
  <2>1. pc[t] = "lock_check" /\ N!Own(t) % Bottom = 1 /\ buffer[t] = <<>> /\ UNCHANGED <<rcu_reader_gp, tmp>>
    BY <1>1, <1>8 DEF N!ReadLockCheck, NestAnnounced
  <2>2. CASE UNCHANGED buffer /\ pc' = [pc EXCEPT ![t] = "reading"]
    <3>1. N!Own(t)' = N!Own(t) /\ Visible(t)' = Visible(t) /\ Visible(t) = {N!Own(t)}
      BY <1>1, <2>1, <2>2, NestKept, NestOwn
    <3>2. NestAnnounced(t)'
      BY <1>1, <2>1, <2>2, <3>1 DEF NestAnnounced, NestType
    <3> QED BY <1>1, <1>2, <2>1, <2>2, <3>2 DEF NestType
  <2>3. CASE pc' = [pc EXCEPT ![t] = "lock_retry"] /\ N!Store(t, N!Minus(N!Own(t), 1))
    <3>1. N!Minus(N!Own(t), 1) \in Word
      BY <1>1, NestOwn, Sizes DEF Word, N!Minus
    <3>2. buffer' \in [Few -> Seq(Word)] /\ \A e \in Few \ {t} : buffer'[e] = buffer[e]
      BY <1>1, <2>1, <2>3, <3>1, NestStore
    <3>3. NestAnnounced(t)'
      BY <1>1, <2>3 DEF NestAnnounced, NestType
    <3> QED BY <1>1, <1>2, <2>1, <2>3, <3>2, <3>3 DEF NestType
  <2> QED BY <1>8, <2>2, <2>3 DEF N!ReadLockCheck
<1>9. CASE N!ReadUnlockMb(t)
  <2>1. buffer[t] = <<>> /\ pc[t] = "reading" /\ UNCHANGED <<rcu_reader_gp, buffer, tmp>>
    BY <1>9 DEF N!ReadUnlockMb
  <2>2. N!Own(t)' = N!Own(t) /\ Visible(t)' = Visible(t) /\ N!Own(t) \in Visible(t) /\ N!Own(t) \in Word
    BY <1>1, <2>1, NestKept, NestOwn
  <2>3. N!Own(t) % Bottom \in Nat /\ N!Own(t) % Bottom # 0
    BY <1>1, <2>1, <2>2, Sizes DEF Word, NestAnnounced
  <2>4. CASE N!Own(t) % Bottom = 1 /\ pc' = [pc EXCEPT ![t] = "unlock_store"]
    <3>1. NestAnnounced(t)'
      BY <1>1, <2>1, <2>2, <2>4 DEF NestAnnounced, NestType
    <3> QED BY <1>1, <1>2, <2>1, <2>4, <3>1 DEF NestType
  <2>5. CASE N!Own(t) % Bottom # 1 /\ pc' = [pc EXCEPT ![t] = "unnest_store"]
    <3>1. pc'[t] = "unnest_store" /\ N!Own(t) % Bottom > 1
      BY <1>1, <2>3, <2>5 DEF NestType
    <3>2. NestAnnounced(t)'
      BY <1>1, <2>1, <2>2, <3>1 DEF NestAnnounced
    <3> QED BY <1>1, <1>2, <2>1, <2>5, <3>2 DEF NestType
  <2> QED BY <1>9, <2>4, <2>5 DEF N!ReadUnlockMb
<1>10. CASE N!ReadUnlockStore(t)
  <2> DEFINE o == N!Own(t)
             v == (o - 1) % WORD
  <2>1. o \in Word /\ buffer[t] = <<>> /\ Visible(t) = {o} /\ N!Store(t, v) /\ UNCHANGED <<rcu_reader_gp, tmp>>
    BY <1>1, <1>10, NestOwn DEF N!ReadUnlockStore, NestAnnounced
  <2> HIDE DEF o
  <2>2. v \in Word
    BY <2>1, Sizes DEF Word
  <2> HIDE DEF v
  <2>3. /\ buffer' \in [Few -> Seq(Word)] /\ N!Own(t)' = v
        /\ \A e \in Few \ {t} : buffer'[e] = buffer[e]
        /\ Visible(t)' \subseteq {o, v}
    BY <1>1, <2>1, <2>2, NestStore
  <2>4. CASE pc[t] = "unlock_store" /\ pc' = [pc EXCEPT ![t] = "idle"]
    <3>1. NestAnnounced(t)'
      BY <1>1, <2>4 DEF NestAnnounced, NestType
    <3> QED BY <1>1, <1>2, <2>1, <2>3, <2>4, <3>1 DEF NestType
  <2>5. CASE pc[t] = "unnest_store" /\ pc' = [pc EXCEPT ![t] = "reading"]
    <3>1. o % Bottom > 1 /\ o % Bottom \in Nat /\ o \in Nat
      BY <1>1, <2>1, <2>5, Sizes DEF NestAnnounced, o, Word
    <3>2. v = o - 1 /\ (o - 1) % Bottom = (o % Bottom) - 1
      <4>1. o % Bottom # 0
        BY <3>1
      <4> QED BY <2>1, <4>1, NestDown DEF v
    <3>3. v % Bottom # 0 /\ o % Bottom # 0 /\ Number(v) = Number(o)
      BY <3>1, <3>2 DEF Number
    <3>4. \A w \in Visible(t)' : w % Bottom # 0 /\ Number(w) = Number(v)
      BY <2>3, <3>3
    <3>5. pc'[t] = "reading"
      BY <1>1, <2>5 DEF NestType
    <3>6. NestAnnounced(t)'
      BY <2>3, <3>4, <3>5 DEF NestAnnounced
    <3> QED BY <1>1, <1>2, <2>1, <2>3, <2>5, <3>6 DEF NestType
  <2> QED BY <1>10, <2>4, <2>5 DEF N!ReadUnlockStore
<1> QED BY <1>3, <1>4, <1>5, <1>6, <1>7, <1>8, <1>9, <1>10

\* So do those of synchronize_rcu(), which write no reader's word.
LEMMA NestSync ==
  ASSUME NestInv, NEW u \in Few, N!SyncMb(u) \/ N!Sync(u)
  PROVE  NestInv'
<1> DEFINE Pcs == {"idle", "sync_lock", "sync_advance", "sync_ongoing", "sync_behind", "sync_unlock", "sync_return"}
<1>1. NestType /\ \A e \in Few : NestAnnounced(e)
  BY DEF NestInv
<1>2. /\ UNCHANGED <<rcu_reader_gp, buffer, tmp>>
      /\ pc' = [pc EXCEPT ![u] = pc'[u]] /\ pc[u] \in Pcs /\ pc'[u] \in Pcs
      /\ rcu_gp_ctr' = rcu_gp_ctr \/ rcu_gp_ctr' = (rcu_gp_ctr + Bottom) % WORD
  BY <1>1 DEF NestType, N!Goto, N!Sync, N!SyncMb, N!SyncLock, N!SyncAdvance, N!SyncOngoing, N!SyncBehind, N!NextThread, N!SyncUnlock,
              N!SyncReturn, N!Plus, N!syncvars, Bottom
<1>3. rcu_gp_ctr' \in Word /\ rcu_gp_ctr' % Bottom = 0
  BY <1>1, <1>2, Onward DEF NestType
<1>4. NestType'
  BY <1>1, <1>2, <1>3 DEF NestType
<1>5. NestAnnounced(u)'
  BY <1>1, <1>2 DEF NestAnnounced, NestType
<1>6. ASSUME NEW e \in Few \ {u} PROVE NestAnnounced(e)'
  <2>1. pc'[e] = pc[e] /\ buffer'[e] = buffer[e] /\ rcu_reader_gp'[e] = rcu_reader_gp[e] /\ tmp'[e] = tmp[e]
    BY <1>1, <1>2 DEF NestType
  <2> QED BY <2>1, NestOthers
<1> QED BY <1>4, <1>5, <1>6 DEF NestInv

\* Every step of rcu_nest keeps the invariant.
LEMMA NestStep ==
  ASSUME NestInv, N!Next
  PROVE  NestInv'
<1>1. PICK t \in Few :
        \/ N!DrainStore(t)
        \/ N!ReadLockLoad(t) \/ N!ReadLockNested(t) \/ N!ReadUnlockMb(t) \/ N!Reader(t)
        \/ N!SyncMb(t) \/ N!Sync(t)
  BY DEF N!Next, Few
<1>2. CASE N!SyncMb(t) \/ N!Sync(t)
  BY <1>2, NestSync
<1>3. CASE N!DrainStore(t) \/ N!ReadLockLoad(t) \/ N!ReadLockNested(t) \/ N!ReadUnlockMb(t) \/ N!Reader(t)
  BY <1>3, NestRead DEF N!Reader
<1> QED BY <1>1, <1>2, <1>3

\* The invariant of rcu_nest holds initially.
LEMMA NestStart == N!Init => NestInv
<1> SUFFICES ASSUME N!Init PROVE NestInv
  OBVIOUS
<1>1. /\ buffer = [t \in Few |-> <<>>] /\ pc = [t \in Few |-> "idle"] /\ rcu_gp_ctr = 0
      /\ rcu_reader_gp = [t \in Few |-> 0] /\ tmp = [t \in Few |-> 0]
  BY DEF N!Init, N!BaseInit, Few
<1>2. 0 \in Word /\ 0 % Bottom = 0
  BY Sizes DEF Word
<1>3. buffer \in [Few -> Seq(Word)]
  BY <1>1
<1>4. NestType
  BY <1>1, <1>2, <1>3 DEF NestType
<1>5. ASSUME NEW t \in Few PROVE NestAnnounced(t)
  BY <1>1 DEF NestAnnounced
<1> QED BY <1>4, <1>5 DEF NestInv

\* AnnouncedWhileInside of rcu_nest
LEMMA NestShown == NestInv => N!AnnouncedWhileInside
<1> SUFFICES ASSUME NestInv, NEW t \in N!Inside, NEW v \in Visible(t)
             PROVE  N!Nest(v) # 0 /\ v - N!Nest(v) = N!Own(t) - N!Nest(N!Own(t))
  BY DEF N!AnnouncedWhileInside, Visible
<1>1. t \in Few /\ pc[t] \in {"reading", "nest_mb", "unnest_store"}
  BY DEF N!Inside, Few
<1>2. v % Bottom # 0 /\ Number(v) = Number(N!Own(t))
  BY <1>1 DEF NestInv, NestAnnounced
<1> QED BY <1>2, NestBaseIs DEF Number

\* AnnouncedWhileInside of rcu_nest32
LEMMA Shown32 == Inv32 => N32!AnnouncedWhileInside
<1> SUFFICES ASSUME Inv32, NEW t \in N32!Inside
             PROVE  /\ rcu_reader_gp[t].nest # 0
                    /\ \A i \in DOMAIN buffer[t] : buffer[t][i].nest # 0 /\ buffer[t][i].phase = rcu_reader_gp[t].phase
  BY DEF N32!AnnouncedWhileInside
<1>1. t \in Threads /\ pc[t] \in {"reading", "nest_mb", "unnest_store"}
  BY Base32 DEF N32!Inside
<1> QED BY <1>1 DEF Inv32, Announced32

-----------------------------------------------------------------------------
\* rcu_rcpls.h and rcu_rcpls.c

\* Where rcu_gp_lock is held
PairLocked == {"sync_ctr", "sync_flip", "sync_wait", "sync_unlock"}

\* Between the first reading of rcu_idx and the end of the last wait
PairAware == {"sync_lock", "sync_ctr", "sync_flip", "sync_wait"}

\* Inside synchronize_rcu()
PairSync == {"sync_old", "sync_return"} \union PairAware \union PairLocked

\* The indexes of a pair
Counter == {0, 1}

\* Type correctness: a counter is never above one, as nested sections do not count.
PairType ==
  /\ rcu_idx \in Nat
  /\ rcu_refcnt \in [Threads -> [Counter -> {0, 1}]]
  /\ buffer \in [Threads -> Seq(Counter \X {0, 1})]
  /\ rcu_read_idx \in [Threads -> Counter]
  /\ ctr \in [Threads -> Nat] /\ oldctr \in [Threads -> Nat] /\ flip \in [Threads -> Nat]
  /\ scan \in [Threads -> Threads]
  /\ pc \in [Threads -> {"idle", "lock_inc", "lock_mb", "reading", "unlock_dec"} \union PairSync]
  /\ preexisting \in [Threads -> SUBSET Threads]

\* t is counted at i and nowhere else, for all to read.
Counted(t, i) == buffer[t] = <<>> /\ rcu_refcnt[t][i] = 1 /\ rcu_refcnt[t][1 - i] = 0

\* t is not counted, or the store that says so is on its way.
NotCounted(t) ==
  \/ buffer[t] = <<>> /\ rcu_refcnt[t][0] = 0 /\ rcu_refcnt[t][1] = 0
  \/ \E k \in Counter :
       Len(buffer[t]) = 1 /\ buffer[t][1] = <<k, 0>> /\ rcu_refcnt[t][k] = 1 /\ rcu_refcnt[t][1 - k] = 0

\* t is to be counted at i, after the decrement of its last section. The increment may overtake the
\* decrement if they are of different counters.
Counting(t, i) ==
  \/ Counted(t, i)
  \/ Len(buffer[t]) = 1 /\ buffer[t][1] = <<i, 1>> /\ rcu_refcnt[t][0] = 0 /\ rcu_refcnt[t][1] = 0
  \/ \E k \in Counter :
       /\ Len(buffer[t]) = 2 /\ buffer[t][1] = <<k, 0>> /\ buffer[t][2] = <<i, 1>>
       /\ rcu_refcnt[t][k] = 1 /\ rcu_refcnt[t][1 - k] = 0
  \/ /\ Len(buffer[t]) = 1 /\ buffer[t][1] = <<1 - i, 0>>
     /\ rcu_refcnt[t][0] = 1 /\ rcu_refcnt[t][1] = 1

\* A reader is counted at the index it read from its first rcu_read_lock() to its last
\* rcu_read_unlock().
PairReader(t) ==
  /\ pc[t] \in {"idle", "lock_inc"} \union PairSync => NotCounted(t)
  /\ pc[t] = "lock_mb" => Counting(t, rcu_read_idx[t])
  /\ pc[t] \in {"reading", "unlock_dec"} => Counted(t, rcu_read_idx[t])

\* The holder of the lock flips twice at most, and the index is where it left it.
PairFlips(u) ==
  /\ pc[u] \in PairLocked <=> rcu_gp_lock = u
  /\ pc[u] \in PairAware => oldctr[u] <= rcu_idx
  /\ pc[u] \in {"sync_flip", "sync_wait"} => oldctr[u] <= ctr[u] /\ flip[u] \in {ctr[u], ctr[u] + 1}
  /\ pc[u] = "sync_flip" => rcu_idx = flip[u]
  /\ pc[u] = "sync_wait" => rcu_idx = flip[u] + 1

\* Whom u still has to outlast is inside, and nobody once u has nothing left to wait for.
PairWait(u) ==
  /\ preexisting[u] \subseteq P!Inside
  /\ pc[u] \notin PairSync \ {"sync_unlock", "sync_return"} => preexisting[u] = {}

\* The wait of the flip from f to f + 1 is over, whoever flipped.
Waited(f) == f < rcu_idx /\ \A h \in Threads : pc[h] = "sync_wait" => flip[h] # f

\* A wait that ends after u read the index takes one index from u's readers; one under way has taken
\* it from those already scanned. Two consecutive flips take both, whoever waited for them. That the
\* readers may have read the index long ago does not matter, as an index of theirs is one of only
\* two.
PairPassed(u) ==
  pc[u] \in PairAware =>
    \A r \in preexisting[u] :
      /\ \A f \in Nat : oldctr[u] <= f /\ Waited(f) => rcu_read_idx[r] # f % 2
      /\ \A h \in Threads : pc[h] = "sync_wait" /\ oldctr[u] <= flip[h] /\ rcu_read_idx[r] = flip[h] % 2 => r >= scan[h]

\* The inductive invariant of rcu_rcpls
PairInv ==
  /\ PairType
  /\ \A t \in Threads : PairReader(t) /\ PairFlips(t) /\ PairWait(t) /\ PairPassed(t)

\* The instance has the threads of RcuNested.
LEMMA PairBase ==
  /\ P!Threads = Threads /\ P!NoThread = NoThread /\ NoThread \notin Threads
  /\ \A t : P!Drained(t) <=> buffer[t] = <<>>
  /\ NR_THREADS \in Nat \ {0} /\ \A t \in Threads : t \in Nat /\ t < NR_THREADS
  /\ Counter = 0 .. 1
  BY NestAssumption DEF Threads, NoThread, P!Threads, P!NoThread, P!Drained, Counter

\* What is left of one or two stores when one of them drains
LEMMA RemoveIs ==
  ASSUME NEW S, NEW s \in Seq(S), NEW n \in DOMAIN s
  PROVE  /\ Len(s) = 1 => P!RemoveAt(s, n) = <<>>
         /\ Len(s) = 2 => /\ P!RemoveAt(s, n) \in Seq(S) /\ Len(P!RemoveAt(s, n)) = 1
                          /\ P!RemoveAt(s, n)[1] = s[3 - n]
<1>1. n \in 1 .. Len(s) /\ Len(s) \in Nat
  OBVIOUS
<1>2. CASE Len(s) = 1
  <2>1. n = 1
    BY <1>1, <1>2
  <2>2. P!RemoveAt(s, n) = SubSeq(s, 1, 0) \o SubSeq(s, 2, 1)
    BY <1>2, <2>1 DEF P!RemoveAt
  <2>3. SubSeq(s, 1, 0) = <<>> /\ SubSeq(s, 2, 1) = <<>>
    OBVIOUS
  <2> QED BY <1>2, <2>2, <2>3
<1>3. CASE Len(s) = 2 /\ n = 1
  <2>1. P!RemoveAt(s, n) = SubSeq(s, 1, 0) \o SubSeq(s, 2, 2)
    BY <1>3 DEF P!RemoveAt
  <2>2. SubSeq(s, 1, 0) = <<>> /\ SubSeq(s, 2, 2) \in Seq(S) /\ Len(SubSeq(s, 2, 2)) = 1 /\ SubSeq(s, 2, 2)[1] = s[2]
    BY <1>3
  <2>3. SubSeq(s, 1, 0) \o SubSeq(s, 2, 2) = SubSeq(s, 2, 2)
    BY <2>2
  <2> QED BY <1>3, <2>1, <2>2, <2>3
<1>4. CASE Len(s) = 2 /\ n = 2
  <2>1. P!RemoveAt(s, n) = SubSeq(s, 1, 1) \o SubSeq(s, 3, 2)
    BY <1>4 DEF P!RemoveAt
  <2>2. SubSeq(s, 3, 2) = <<>> /\ SubSeq(s, 1, 1) \in Seq(S) /\ Len(SubSeq(s, 1, 1)) = 1 /\ SubSeq(s, 1, 1)[1] = s[1]
    BY <1>4
  <2>3. SubSeq(s, 1, 1) \o SubSeq(s, 3, 2) = SubSeq(s, 1, 1)
    BY <2>2
  <2> QED BY <1>4, <2>1, <2>2, <2>3
<1> QED BY <1>1, <1>2, <1>3, <1>4

\* A store goes to the end of the thread's own buffer.
LEMMA PairStored ==
  ASSUME PairType, NEW t \in Threads, NEW i \in Counter, NEW v \in {0, 1}, P!Store(t, i, v)
  PROVE  /\ buffer' \in [Threads -> Seq(Counter \X {0, 1})]
         /\ \A e \in Threads \ {t} : buffer'[e] = buffer[e]
         /\ Len(buffer'[t]) = Len(buffer[t]) + 1 /\ buffer'[t][Len(buffer[t]) + 1] = <<i, v>>
         /\ \A n \in DOMAIN buffer[t] : buffer'[t][n] = buffer[t][n]
<1>1. buffer[t] \in Seq(Counter \X {0, 1}) /\ buffer' = [buffer EXCEPT ![t] = Append(buffer[t], <<i, v>>)] /\ <<i, v>> \in Counter \X {0, 1}
  BY DEF PairType, P!Store
<1> DEFINE S == Counter \X {0, 1}
           x == <<i, v>>
<1> HIDE DEF S, x
<1>2. buffer[t] \in Seq(S) /\ buffer' = [buffer EXCEPT ![t] = Append(buffer[t], x)] /\ x \in S /\ buffer \in [Threads -> Seq(S)]
  BY <1>1 DEF S, x, PairType
<1>3. /\ Append(buffer[t], x) \in Seq(S)
      /\ Len(Append(buffer[t], x)) = Len(buffer[t]) + 1 /\ Append(buffer[t], x)[Len(buffer[t]) + 1] = x
      /\ \A n \in DOMAIN buffer[t] : Append(buffer[t], x)[n] = buffer[t][n]
  BY <1>2
<1>4. buffer'[t] = Append(buffer[t], x) /\ \A e \in Threads \ {t} : buffer'[e] = buffer[e]
  BY <1>2
<1>5. buffer' \in [Threads -> Seq(S)]
  BY <1>2, <1>3
<1> QED BY <1>3, <1>4, <1>5 DEF S, x

\* An empty buffer has length zero.
LEMMA PairDrained ==
  ASSUME PairType, NEW t \in Threads
  PROVE  /\ buffer[t] \in Seq(Counter \X {0, 1}) /\ Len(buffer[t]) \in Nat /\ DOMAIN buffer[t] = 1 .. Len(buffer[t])
         /\ buffer[t] = <<>> <=> Len(buffer[t]) = 0
<1>1. buffer[t] \in Seq(Counter \X {0, 1})
  BY DEF PairType
<1> DEFINE S == Counter \X {0, 1}
<1> HIDE DEF S
<1>2. buffer[t] \in Seq(S)
  BY <1>1 DEF S
<1>3. buffer[t] # <<>> => Len(buffer[t]) \in Nat \ {0}
  BY <1>2, EmptySeq
<1>4. Len(<<>>) = 0
  BY EmptySeq
<1> QED BY <1>1, <1>2, <1>3, <1>4

\* rcu_refcnt[i]++ of a thread that is not counted: it reads zero, even if its decrement is still in
\* the buffer.
LEMMA PairIncrement ==
  ASSUME PairType, NEW t \in Threads, NEW i \in Counter, NotCounted(t), P!Store(t, i, P!Own(t, i) + 1), UNCHANGED rcu_refcnt
  PROVE  /\ buffer' \in [Threads -> Seq(Counter \X {0, 1})]
         /\ \A e \in Threads \ {t} : buffer'[e] = buffer[e]
         /\ Counting(t, i)'
<1>1. P!Own(t, i) = 0
  <2>1. CASE buffer[t] = <<>> /\ rcu_refcnt[t][0] = 0 /\ rcu_refcnt[t][1] = 0
    <3>1. {n \in DOMAIN buffer[t] : buffer[t][n][1] = i} = {}
      BY <2>1
    <3> QED BY <2>1, <3>1 DEF P!Own, Counter
  <2>2. CASE \E k \in Counter :
               Len(buffer[t]) = 1 /\ buffer[t][1] = <<k, 0>> /\ rcu_refcnt[t][k] = 1 /\ rcu_refcnt[t][1 - k] = 0
    <3>1. PICK k \in Counter :
               Len(buffer[t]) = 1 /\ buffer[t][1] = <<k, 0>> /\ rcu_refcnt[t][k] = 1 /\ rcu_refcnt[t][1 - k] = 0
      BY <2>2
    <3>2. DOMAIN buffer[t] = {1}
      BY <3>1, PairDrained
    <3>3. CASE k = i
      <4>1. {n \in DOMAIN buffer[t] : buffer[t][n][1] = i} = {1}
        BY <3>1, <3>2, <3>3
      <4>2. (CHOOSE n \in {1} : \A m \in {1} : m <= n) = 1
        OBVIOUS
      <4> QED BY <3>1, <4>1, <4>2 DEF P!Own
    <3>4. CASE k # i
      <4>1. {n \in DOMAIN buffer[t] : buffer[t][n][1] = i} = {}
        BY <3>1, <3>2, <3>4
      <4>2. i = 1 - k
        BY <3>4 DEF Counter
      <4> QED BY <3>1, <4>1, <4>2 DEF P!Own
    <3> QED BY <3>3, <3>4
  <2> QED BY <2>1, <2>2 DEF NotCounted
<1>2. P!Store(t, i, 1)
  BY <1>1
<1>3. /\ buffer' \in [Threads -> Seq(Counter \X {0, 1})]
      /\ \A e \in Threads \ {t} : buffer'[e] = buffer[e]
      /\ Len(buffer'[t]) = Len(buffer[t]) + 1 /\ buffer'[t][Len(buffer[t]) + 1] = <<i, 1>>
      /\ \A n \in DOMAIN buffer[t] : buffer'[t][n] = buffer[t][n]
  BY <1>2, PairStored
<1>4. Counting(t, i)'
  <2>1. CASE buffer[t] = <<>> /\ rcu_refcnt[t][0] = 0 /\ rcu_refcnt[t][1] = 0
    BY <1>3, <2>1, PairDrained DEF Counting
  <2>2. CASE \E k \in Counter :
               Len(buffer[t]) = 1 /\ buffer[t][1] = <<k, 0>> /\ rcu_refcnt[t][k] = 1 /\ rcu_refcnt[t][1 - k] = 0
    BY <1>3, <2>2, PairDrained DEF Counting
  <2> QED BY <2>1, <2>2 DEF NotCounted
<1> QED BY <1>3, <1>4

\* rcu_refcnt[i]-- of a thread that is counted
LEMMA PairDecrement ==
  ASSUME PairType, NEW t \in Threads, NEW i \in Counter, Counted(t, i), P!Store(t, i, P!Own(t, i) - 1), UNCHANGED rcu_refcnt
  PROVE  /\ buffer' \in [Threads -> Seq(Counter \X {0, 1})]
         /\ \A e \in Threads \ {t} : buffer'[e] = buffer[e]
         /\ NotCounted(t)'
<1>1. P!Own(t, i) = 1
  <2>1. {n \in DOMAIN buffer[t] : buffer[t][n][1] = i} = {}
    BY DEF Counted
  <2> QED BY <2>1 DEF P!Own, Counted
<1>2. P!Store(t, i, 0)
  BY <1>1
<1>3. /\ buffer' \in [Threads -> Seq(Counter \X {0, 1})]
      /\ \A e \in Threads \ {t} : buffer'[e] = buffer[e]
      /\ Len(buffer'[t]) = Len(buffer[t]) + 1 /\ buffer'[t][Len(buffer[t]) + 1] = <<i, 0>>
  BY <1>2, PairStored
<1> QED BY <1>3, PairDrained DEF Counted, NotCounted

\* The invariant, for one thread
LEMMA PairParts ==
  ASSUME PairInv, NEW t \in Threads
  PROVE  PairType /\ PairReader(t) /\ PairFlips(t) /\ PairWait(t) /\ PairPassed(t)
  BY DEF PairInv

\* Stores that drain, in either order, do not change whether a thread is, or is going to be,
\* counted.
LEMMA PairDrainStep ==
  ASSUME PairType, NEW t \in Threads, P!DrainStore(t), NotCounted(t) \/ \E i \in Counter : Counting(t, i)
  PROVE  /\ rcu_refcnt' \in [Threads -> [Counter -> {0, 1}]]
         /\ buffer' \in [Threads -> Seq(Counter \X {0, 1})]
         /\ \A e \in Threads \ {t} : buffer'[e] = buffer[e] /\ rcu_refcnt'[e] = rcu_refcnt[e]
         /\ NotCounted(t) => NotCounted(t)'
         /\ \A i \in Counter : Counting(t, i) => Counting(t, i)'
         /\ buffer[t] # <<>>
<1>1. PICK n \in DOMAIN buffer[t] :
        /\ \A m \in 1 .. n - 1 : buffer[t][m][1] # buffer[t][n][1]
        /\ rcu_refcnt' = [rcu_refcnt EXCEPT ![t][buffer[t][n][1]] = buffer[t][n][2]]
        /\ buffer' = [buffer EXCEPT ![t] = P!RemoveAt(buffer[t], n)]
  BY DEF P!DrainStore
<1>2. buffer[t] \in Seq(Counter \X {0, 1}) /\ Len(buffer[t]) \in Nat /\ n \in 1 .. Len(buffer[t]) /\ buffer[t] # <<>>
  BY <1>1, PairDrained
<1>3. buffer[t][n] \in Counter \X {0, 1} /\ buffer[t][n][1] \in Counter /\ buffer[t][n][2] \in {0, 1}
  <2> DEFINE S == Counter \X {0, 1}
  <2> HIDE DEF S
  <2>1. buffer[t][n] \in S
    BY <1>2 DEF S
  <2> QED BY <2>1 DEF S
<1> DEFINE i == buffer[t][n][1]
           v == buffer[t][n][2]
<1>4. /\ rcu_refcnt' \in [Threads -> [Counter -> {0, 1}]]
      /\ rcu_refcnt'[t][i] = v /\ \A j \in Counter \ {i} : rcu_refcnt'[t][j] = rcu_refcnt[t][j]
      /\ \A e \in Threads \ {t} : buffer'[e] = buffer[e] /\ rcu_refcnt'[e] = rcu_refcnt[e]
      /\ buffer'[t] = P!RemoveAt(buffer[t], n)
  BY <1>1, <1>3 DEF PairType
<1>5. buffer[t][n] = <<i, v>>
  BY <1>3
<1> HIDE DEF i, v
<1> USE PairBase
<1>6. CASE Len(buffer[t]) = 1
  <2>1. n = 1 /\ buffer'[t] = <<>>
    BY <1>2, <1>4, <1>6, RemoveIs
  <2>2. NotCounted(t) => NotCounted(t)'
    <3>1. NotCounted(t) => v = 0 /\ rcu_refcnt[t][1 - i] = 0
      BY <1>2, <1>5, <1>6, <2>1 DEF NotCounted
    <3> QED BY <1>3, <1>4, <2>1, <3>1 DEF NotCounted, Counter, i
  <2>3. ASSUME NEW j \in Counter, Counting(t, j) PROVE Counted(t, j)'
    <3>1. \/ v = 1 /\ i = j /\ rcu_refcnt[t][0] = 0 /\ rcu_refcnt[t][1] = 0
          \/ v = 0 /\ i = 1 - j /\ rcu_refcnt[t][0] = 1 /\ rcu_refcnt[t][1] = 1
      BY <1>2, <1>5, <1>6, <2>1, <2>3 DEF Counting, Counted
    <3> QED BY <1>4, <2>1, <3>1, <2>3 DEF Counted, Counter
  <2>4. buffer' \in [Threads -> Seq(Counter \X {0, 1})]
    <3> DEFINE S == Seq(Counter \X {0, 1})
    <3>1. <<>> \in S
      OBVIOUS
    <3>2. buffer \in [Threads -> S]
      BY DEF PairType
    <3> HIDE DEF S
    <3>3. buffer' = [buffer EXCEPT ![t] = <<>>]
      BY <1>1, <1>4, <2>1, <3>2
    <3>4. buffer' \in [Threads -> S]
      BY <3>1, <3>2, <3>3
    <3> QED BY <3>4 DEF S
  <2> QED BY <1>2, <1>4, <2>2, <2>3, <2>4 DEF Counting
<1>7. CASE Len(buffer[t]) = 2
  <2>1. /\ P!RemoveAt(buffer[t], n) \in Seq(Counter \X {0, 1}) /\ Len(buffer'[t]) = 1
        /\ buffer'[t][1] = buffer[t][3 - n]
    BY <1>2, <1>4, <1>7, RemoveIs
  <2>2. ~ NotCounted(t)
    BY <1>2, <1>7 DEF NotCounted
  <2>3. ASSUME NEW j \in Counter, Counting(t, j) PROVE Counting(t, j)'
    <3>1. PICK k \in Counter :
            /\ buffer[t][1] = <<k, 0>> /\ buffer[t][2] = <<j, 1>>
            /\ rcu_refcnt[t][k] = 1 /\ rcu_refcnt[t][1 - k] = 0
      BY <1>2, <1>7, <2>3 DEF Counting, Counted
    <3>2. CASE n = 1
      <4>1. i = k /\ v = 0 /\ buffer'[t][1] = <<j, 1>>
        BY <2>1, <3>1, <3>2 DEF i, v
      <4>2. rcu_refcnt'[t][0] = 0 /\ rcu_refcnt'[t][1] = 0
        BY <1>3, <1>4, <3>1, <4>1 DEF Counter
      <4> QED BY <2>1, <4>1, <4>2 DEF Counting
    <3>3. CASE n = 2
      <4>1. i = j /\ v = 1 /\ buffer'[t][1] = <<k, 0>>
        BY <2>1, <3>1, <3>3 DEF i, v
      <4>2. k # j
        BY <1>1, <3>1, <3>3
      <4>3. k = 1 - j
        BY <4>2 DEF Counter
      <4>4. rcu_refcnt'[t][0] = 1 /\ rcu_refcnt'[t][1] = 1
        BY <1>3, <1>4, <3>1, <4>1, <4>2 DEF Counter
      <4> QED BY <2>1, <4>1, <4>3, <4>4 DEF Counting
    <3> QED BY <1>2, <1>7, <3>2, <3>3
  <2>4. buffer' \in [Threads -> Seq(Counter \X {0, 1})]
    BY <1>1, <2>1 DEF PairType
  <2> QED BY <1>2, <1>4, <2>2, <2>3, <2>4
<1>8. Len(buffer[t]) \in {1, 2}
  BY <1>2, PairDrained DEF NotCounted, Counting, Counted
<1> QED BY <1>6, <1>7, <1>8

\* A reader's step keeps what is known of the flips.
LEMMA PairKept ==
  ASSUME PairInv, NEW t \in Threads, pc[t] \notin PairSync, NEW to, to \notin PairSync, pc' = [pc EXCEPT ![t] = to],
         UNCHANGED <<rcu_idx, rcu_gp_lock, ctr, oldctr, flip, scan>>,
         \A u \in Threads : preexisting'[u] \subseteq preexisting[u],
         \A r \in P!Inside : rcu_read_idx'[r] = rcu_read_idx[r]
  PROVE  \A u \in Threads : PairFlips(u)' /\ PairPassed(u)'
<1> SUFFICES ASSUME NEW u \in Threads PROVE PairFlips(u)' /\ PairPassed(u)'
  OBVIOUS
<1>1. PairType /\ PairFlips(u) /\ PairPassed(u) /\ PairWait(u)
  BY PairParts
<1>2. \A e \in Threads : pc'[e] = pc[e] \/ (e = t /\ pc[e] \notin PairSync /\ pc'[e] \notin PairSync)
  BY <1>1 DEF PairType
<1>3. PairFlips(u)'
  BY <1>1, <1>2 DEF PairFlips, PairSync, PairLocked, PairAware
<1>4. \A h \in Threads : pc'[h] = "sync_wait" <=> pc[h] = "sync_wait"
  BY <1>2 DEF PairSync, PairAware
<1>5. \A f : Waited(f)' <=> Waited(f)
  BY <1>4 DEF Waited
<1>6. pc'[u] \in PairAware => pc[u] \in PairAware
  BY <1>2 DEF PairSync
<1>7. \A r \in preexisting'[u] : r \in preexisting[u] /\ rcu_read_idx'[r] = rcu_read_idx[r]
  BY <1>1 DEF PairWait
<1>8. PairPassed(u)'
  BY <1>1, <1>4, <1>5, <1>6, <1>7 DEF PairPassed
<1> QED BY <1>3, <1>8

\* A store that becomes visible keeps the invariant.
LEMMA PairDrainKept ==
  ASSUME PairInv, NEW t \in Threads, P!DrainStore(t)
  PROVE  PairInv' /\ UNCHANGED <<pc, preexisting>>
<1> USE PairBase
<1>1. /\ PairType /\ \A e \in Threads : PairReader(e) /\ PairFlips(e) /\ PairWait(e) /\ PairPassed(e)
  BY DEF PairInv
<1>2. UNCHANGED <<rcu_idx, rcu_gp_lock, rcu_nesting, rcu_read_idx, ctr, oldctr, flip, scan, pc, preexisting>>
  BY DEF P!DrainStore, P!locals
<1>3. NotCounted(t) \/ \E i \in Counter : Counting(t, i)
  BY <1>1 DEF PairType, PairReader, Counting
<1>4. /\ rcu_refcnt' \in [Threads -> [Counter -> {0, 1}]]
      /\ buffer' \in [Threads -> Seq(Counter \X {0, 1})]
      /\ \A e \in Threads \ {t} : buffer'[e] = buffer[e] /\ rcu_refcnt'[e] = rcu_refcnt[e]
      /\ NotCounted(t) => NotCounted(t)'
      /\ \A i \in Counter : Counting(t, i) => Counting(t, i)'
      /\ buffer[t] # <<>>
  BY <1>1, <1>3, PairDrainStep
<1>5. PairType'
  BY <1>1, <1>2, <1>4 DEF PairType
<1>6. ASSUME NEW e \in Threads PROVE PairReader(e)'
  <2>1. CASE e = t
    <3>1. rcu_read_idx[t] \in Counter
      BY <1>1 DEF PairType
    <3> QED BY <1>1, <1>2, <1>4, <2>1, <3>1 DEF PairReader, Counted
  <2>2. CASE e # t
    <3>1. buffer'[e] = buffer[e] /\ rcu_refcnt'[e] = rcu_refcnt[e]
      BY <1>4, <2>2
    <3> QED BY <1>1, <1>2, <3>1 DEF PairReader, Counted, NotCounted, Counting
  <2> QED BY <2>1, <2>2
<1>7. ASSUME NEW e \in Threads PROVE PairFlips(e)' /\ PairWait(e)' /\ PairPassed(e)'
  BY <1>1, <1>2 DEF PairFlips, PairWait, PairPassed, Waited, P!Inside
<1> QED BY <1>2, <1>5, <1>6, <1>7 DEF PairInv

\* The steps of a reader keep the invariant and are ReadLock, ReadUnlock or stutters.
LEMMA PairRead ==
  ASSUME PairInv, NEW t \in Threads, P!ReadLockLoad(t) \/ P!ReadLockNested(t) \/ P!Reader(t)
  PROVE  /\ PairInv' /\ P!Syncing' = P!Syncing
         /\ \/ P!Inside' = P!Inside /\ preexisting' = preexisting
            \/ t \notin P!Inside \union P!Syncing /\ P!Inside' = P!Inside \union {t} /\ preexisting' = preexisting
            \/ t \in P!Inside /\ P!Inside' = P!Inside \ {t} /\ preexisting' = [u \in Threads |-> preexisting[u] \ {t}]
<1> USE PairBase DEF P!Goto
<1>1. /\ PairType /\ \A e \in Threads : PairReader(e) /\ PairFlips(e) /\ PairWait(e) /\ PairPassed(e)
  BY DEF PairInv
<1>2. pc \in [Threads -> {"idle", "lock_inc", "lock_mb", "reading", "unlock_dec"} \union PairSync]
      /\ rcu_read_idx \in [Threads -> Counter] /\ rcu_idx \in Nat /\ preexisting \in [Threads -> SUBSET Threads]
  BY <1>1 DEF PairType
<1>3. UNCHANGED <<rcu_idx, rcu_gp_lock, ctr, oldctr, flip, scan, rcu_refcnt>>
  BY DEF P!ReadLockLoad, P!ReadLockNested, P!Reader, P!ReadLockInc, P!ReadLockMb, P!ReadUnlockNested, P!ReadUnlockMb,
         P!ReadUnlockDec, P!locals, P!readervars
\* The step, as far as the flips see it
<1> DEFINE Step(to) ==
      /\ pc[t] \notin PairSync /\ to \notin PairSync /\ pc' = [pc EXCEPT ![t] = to]
      /\ to \in {"idle", "lock_inc", "lock_mb", "reading", "unlock_dec"}
      /\ rcu_read_idx' \in [Threads -> Counter] /\ preexisting' \in [Threads -> SUBSET Threads]
      /\ \A u \in Threads : preexisting'[u] \subseteq preexisting[u]
      /\ \A r \in Threads : (r # t \/ r \in P!Inside) => rcu_read_idx'[r] = rcu_read_idx[r]
      /\ buffer' \in [Threads -> Seq(Counter \X {0, 1})]
      /\ \A e \in Threads \ {t} : buffer'[e] = buffer[e]
      /\ PairReader(t)'
      /\ \A u \in Threads : preexisting'[u] \subseteq P!Inside'
<1>4. ASSUME NEW to, Step(to) PROVE PairInv' /\ P!Syncing' = P!Syncing
  <2>1. \A u \in Threads : PairFlips(u)' /\ PairPassed(u)'
    <3>1. \A r \in P!Inside : r \in Threads
      BY DEF P!Inside
    <3> QED BY <1>3, <1>4, <3>1, PairKept
  <2>2. PairType'
    BY <1>1, <1>3, <1>4 DEF PairType
  <2>3. ASSUME NEW e \in Threads PROVE PairReader(e)'
    <3>1. CASE e # t
      <4>1. buffer'[e] = buffer[e] /\ rcu_read_idx'[e] = rcu_read_idx[e] /\ pc'[e] = pc[e]
        BY <1>2, <1>4, <3>1
      <4> QED BY <1>1, <1>3, <4>1 DEF PairReader, Counted, NotCounted, Counting
    <3> QED BY <1>4, <3>1
  <2>4. ASSUME NEW u \in Threads PROVE PairWait(u)'
    <3>1. pc'[u] \notin PairSync \ {"sync_unlock", "sync_return"} => pc[u] \notin PairSync \ {"sync_unlock", "sync_return"}
      BY <1>2, <1>4
    <3> QED BY <1>1, <1>4, <3>1 DEF PairWait
  <2>5. P!Syncing' = P!Syncing
    <3>1. pc[t] \notin {"sync_old", "sync_lock", "sync_ctr", "sync_flip", "sync_wait", "sync_unlock", "sync_return"}
          /\ to \notin {"sync_old", "sync_lock", "sync_ctr", "sync_flip", "sync_wait", "sync_unlock", "sync_return"}
      BY <1>4 DEF PairSync, PairAware, PairLocked
    <3> QED BY <1>2, <1>4, <3>1 DEF P!Syncing
  <2> QED BY <2>1, <2>2, <2>3, <2>4, <2>5 DEF PairInv
<1>5. \A u \in Threads : preexisting[u] \subseteq P!Inside
  BY <1>1 DEF PairWait
<1>6. pc[t] \in PairSync <=> pc[t] \in {"sync_old", "sync_lock", "sync_ctr", "sync_flip", "sync_wait", "sync_unlock", "sync_return"}
  BY DEF PairSync, PairAware, PairLocked
<1>7. {"idle", "lock_inc", "lock_mb", "reading", "unlock_dec"} \intersect PairSync = {}
  BY DEF PairSync, PairAware, PairLocked
<1>8. CASE P!ReadLockLoad(t)
  <2>1. pc[t] = "idle" /\ pc' = [pc EXCEPT ![t] = "lock_inc"] /\ UNCHANGED <<buffer, preexisting>>
        /\ rcu_read_idx' = [rcu_read_idx EXCEPT ![t] = rcu_idx % 2]
    BY <1>8 DEF P!ReadLockLoad
  <2>2. P!Inside' = P!Inside /\ t \notin P!Inside
    BY <1>2, <2>1 DEF P!Inside
  <2>3. PairReader(t)'
    <3>1. NotCounted(t)'
      BY <1>1, <1>3, <2>1 DEF PairReader, NotCounted
    <3> QED BY <1>2, <2>1, <3>1 DEF PairReader, PairSync, PairAware, PairLocked
  <2>4. rcu_idx % 2 \in Counter
    BY <1>2
  <2>5. Step("lock_inc")
    BY <1>1, <1>2, <1>5, <1>7, <2>1, <2>2, <2>3, <2>4 DEF PairType
  <2> QED BY <1>4, <2>1, <2>2, <2>5
<1>9. CASE P!ReadLockInc(t)
  <2>1. pc[t] = "lock_inc" /\ pc' = [pc EXCEPT ![t] = "lock_mb"] /\ UNCHANGED <<rcu_read_idx, preexisting>>
        /\ P!Store(t, rcu_read_idx[t], P!Own(t, rcu_read_idx[t]) + 1)
    BY <1>9 DEF P!ReadLockInc
  <2>2. P!Inside' = P!Inside /\ t \notin P!Inside
    BY <1>2, <2>1 DEF P!Inside
  <2>3. /\ buffer' \in [Threads -> Seq(Counter \X {0, 1})]
        /\ \A e \in Threads \ {t} : buffer'[e] = buffer[e]
        /\ Counting(t, rcu_read_idx[t])'
    <3>1. NotCounted(t) /\ rcu_read_idx[t] \in Counter
      BY <1>1, <1>2, <2>1 DEF PairReader
    <3> QED BY <1>1, <1>3, <2>1, <3>1, PairIncrement
  <2>4. PairReader(t)'
    BY <1>2, <2>1, <2>3 DEF PairReader, PairSync, PairAware, PairLocked
  <2>5. Step("lock_mb")
    BY <1>1, <1>2, <1>5, <1>7, <2>1, <2>2, <2>3, <2>4 DEF PairType
  <2> QED BY <1>4, <2>1, <2>2, <2>5
<1>10. CASE P!ReadLockMb(t)
  <2>1. pc[t] = "lock_mb" /\ pc' = [pc EXCEPT ![t] = "reading"] /\ UNCHANGED <<rcu_read_idx, preexisting, buffer>>
        /\ buffer[t] = <<>>
    BY <1>10 DEF P!ReadLockMb, P!readervars
  <2>2. P!Inside' = P!Inside \union {t} /\ t \notin P!Inside \union P!Syncing
    BY <1>2, <2>1 DEF P!Inside, P!Syncing
  <2>3. PairReader(t)'
    <3>1. Counting(t, rcu_read_idx[t])
      BY <1>1, <2>1 DEF PairReader
    <3>2. Len(buffer[t]) = 0
      BY <1>1, <2>1, PairDrained
    <3>3. Counted(t, rcu_read_idx[t])
      BY <3>1, <3>2 DEF Counting
    <3>4. Counted(t, rcu_read_idx[t])'
      BY <1>3, <2>1, <3>3 DEF Counted
    <3> QED BY <1>2, <2>1, <3>4 DEF PairReader, PairSync, PairAware, PairLocked
  <2>4. Step("reading")
    BY <1>1, <1>2, <1>5, <1>7, <2>1, <2>2, <2>3 DEF PairType
  <2> QED BY <1>4, <2>1, <2>2, <2>4
<1>11. CASE P!ReadLockNested(t) \/ P!ReadUnlockNested(t)
  <2>1. pc[t] = "reading" /\ UNCHANGED <<rcu_read_idx, preexisting, buffer, pc>>
    BY <1>11 DEF P!ReadLockNested, P!ReadUnlockNested
  <2>2. P!Inside' = P!Inside
    BY <2>1 DEF P!Inside
  <2>3. PairReader(t)'
    BY <1>1, <1>3, <2>1 DEF PairReader, Counted, Counting, NotCounted
  <2>4. Step("reading")
    BY <1>1, <1>2, <1>5, <1>7, <2>1, <2>2, <2>3 DEF PairType
  <2> QED BY <1>4, <2>1, <2>2, <2>4
<1>12. CASE P!ReadUnlockMb(t)
  <2>1. pc[t] = "reading" /\ pc' = [pc EXCEPT ![t] = "unlock_dec"] /\ UNCHANGED <<rcu_read_idx, buffer>>
        /\ preexisting' = [u \in Threads |-> preexisting[u] \ {t}]
    BY <1>12 DEF P!ReadUnlockMb, P!readervars
  <2>2. P!Inside' = P!Inside \ {t} /\ t \in P!Inside
    BY <1>2, <2>1 DEF P!Inside
  <2>3. PairReader(t)'
    <3>1. Counted(t, rcu_read_idx[t])'
      BY <1>1, <1>3, <2>1 DEF PairReader, Counted
    <3> QED BY <1>2, <2>1, <3>1 DEF PairReader, PairSync, PairAware, PairLocked
  <2>4. preexisting' \in [Threads -> SUBSET Threads] /\ \A u \in Threads : preexisting'[u] = preexisting[u] \ {t}
    BY <1>2, <2>1
  <2>5. Step("unlock_dec")
    BY <1>1, <1>2, <1>5, <1>7, <2>1, <2>2, <2>3, <2>4 DEF PairType
  <2> QED BY <1>4, <2>1, <2>2, <2>5
<1>13. CASE P!ReadUnlockDec(t)
  <2>1. pc[t] = "unlock_dec" /\ pc' = [pc EXCEPT ![t] = "idle"] /\ UNCHANGED <<rcu_read_idx, preexisting>>
        /\ P!Store(t, rcu_read_idx[t], P!Own(t, rcu_read_idx[t]) - 1)
    BY <1>13 DEF P!ReadUnlockDec
  <2>2. P!Inside' = P!Inside /\ t \notin P!Inside
    BY <1>2, <2>1 DEF P!Inside
  <2>3. /\ buffer' \in [Threads -> Seq(Counter \X {0, 1})]
        /\ \A e \in Threads \ {t} : buffer'[e] = buffer[e]
        /\ NotCounted(t)'
    <3>1. Counted(t, rcu_read_idx[t]) /\ rcu_read_idx[t] \in Counter
      BY <1>1, <1>2, <2>1 DEF PairReader
    <3> QED BY <1>1, <1>3, <2>1, <3>1, PairDecrement
  <2>4. PairReader(t)'
    BY <1>2, <2>1, <2>3 DEF PairReader, PairSync, PairAware, PairLocked
  <2>5. Step("idle")
    BY <1>1, <1>2, <1>5, <1>7, <2>1, <2>2, <2>3, <2>4 DEF PairType
  <2> QED BY <1>4, <2>1, <2>2, <2>5
<1> QED BY <1>8, <1>9, <1>10, <1>11, <1>12, <1>13 DEF P!Reader

\* What every step of synchronize_rcu() leaves alone
LEMMA PairSyncing ==
  ASSUME PairInv, NEW t \in Threads, NEW from \in PairSync \union {"idle"}, NEW to \in PairSync \union {"idle"},
         pc[t] = from, pc' = [pc EXCEPT ![t] = to],
         UNCHANGED <<rcu_refcnt, buffer, rcu_read_idx>>
  PROVE  /\ P!Inside' = P!Inside /\ t \notin P!Inside
         /\ pc' \in [Threads -> {"idle", "lock_inc", "lock_mb", "reading", "unlock_dec"} \union PairSync]
         /\ \A e \in Threads : PairReader(e)'
         /\ pc'[t] = to /\ \A e \in Threads \ {t} : pc'[e] = pc[e]
         /\ P!Syncing' = IF to = "idle" THEN P!Syncing \ {t} ELSE P!Syncing \union {t}
<1>1. PairType /\ \A e \in Threads : PairReader(e)
  BY DEF PairInv
<1>2. pc \in [Threads -> {"idle", "lock_inc", "lock_mb", "reading", "unlock_dec"} \union PairSync]
  BY <1>1 DEF PairType
<1>3. pc'[t] = to /\ \A e \in Threads \ {t} : pc'[e] = pc[e]
  BY <1>2
<1>4. pc' \in [Threads -> {"idle", "lock_inc", "lock_mb", "reading", "unlock_dec"} \union PairSync]
  BY <1>2
<1>5. P!Inside' = P!Inside /\ t \notin P!Inside
  BY <1>2, <1>3, PairBase DEF P!Inside, PairSync, PairAware, PairLocked
<1>6. ASSUME NEW e \in Threads PROVE PairReader(e)'
  <2>1. CASE e = t
    <3>1. NotCounted(t)
      BY <1>1 DEF PairReader
    <3>2. NotCounted(t)'
      BY <3>1 DEF NotCounted
    <3> QED BY <1>3, <2>1, <3>2 DEF PairReader, PairSync, PairAware, PairLocked
  <2>2. CASE e # t
    BY <1>1, <1>3, <2>2 DEF PairReader, Counted, NotCounted, Counting
  <2> QED BY <2>1, <2>2
<1>7. P!Syncing' = IF to = "idle" THEN P!Syncing \ {t} ELSE P!Syncing \union {t}
  BY <1>2, <1>3, PairBase DEF P!Syncing, PairSync, PairAware, PairLocked
<1> QED BY <1>3, <1>4, <1>5, <1>6, <1>7

\* Only the holder of the lock flips and waits.
LEMMA PairHolder ==
  ASSUME PairInv, NEW t \in Threads, pc[t] \in PairLocked
  PROVE  \A h \in Threads \ {t} : pc[h] \notin PairLocked
<1>1. \A h \in Threads : PairFlips(h)
  BY DEF PairInv
<1> QED BY <1>1 DEF PairFlips

\* A step that waits for no counter keeps what has been waited for.
LEMMA PairFrame ==
  ASSUME PairInv, NEW u \in Threads, UNCHANGED <<rcu_idx, rcu_read_idx>>,
         pc[u] \in PairAware, preexisting'[u] = preexisting[u], oldctr'[u] = oldctr[u],
         \A h \in Threads : pc'[h] = "sync_wait" <=> pc[h] = "sync_wait",
         \A h \in Threads : pc'[h] = "sync_wait" => flip'[h] = flip[h] /\ scan'[h] = scan[h]
  PROVE  PairPassed(u)'
<1>1. PairPassed(u)
  BY PairParts
<1>2. \A f : Waited(f)' => Waited(f)
  BY DEF Waited
<1> QED BY <1>1, <1>2 DEF PairPassed

\* synchronize_rcu() up to the lock: nothing has been waited for when the index is read.
LEMMA PairCall ==
  ASSUME PairInv, NEW t \in Threads, P!SyncMb(t) \/ P!SyncOld(t) \/ P!SyncLock(t)
  PROVE  /\ PairInv' /\ P!Inside' = P!Inside
         /\ \/ P!Syncing' = P!Syncing /\ preexisting' = preexisting
            \/ /\ t \notin P!Inside \union P!Syncing /\ P!Syncing' = P!Syncing \union {t}
               /\ preexisting' = [preexisting EXCEPT ![t] = P!Inside]
<1> USE PairBase DEF P!Goto
<1>1. /\ PairType /\ \A e \in Threads : PairReader(e) /\ PairFlips(e) /\ PairWait(e) /\ PairPassed(e)
  BY DEF PairInv
<1>2. pc \in [Threads -> {"idle", "lock_inc", "lock_mb", "reading", "unlock_dec"} \union PairSync]
      /\ oldctr \in [Threads -> Nat] /\ rcu_idx \in Nat /\ preexisting \in [Threads -> SUBSET Threads]
      /\ flip \in [Threads -> Nat]
  BY <1>1 DEF PairType
<1>3. UNCHANGED <<rcu_idx, rcu_refcnt, buffer, rcu_read_idx, ctr, flip, scan>>
  BY DEF P!SyncMb, P!SyncOld, P!SyncLock, P!readervars, P!locals
<1>4. P!Inside \subseteq Threads
  BY DEF P!Inside
<1>5. CASE P!SyncMb(t)
  <2>1. pc[t] = "idle" /\ pc' = [pc EXCEPT ![t] = "sync_old"] /\ UNCHANGED <<rcu_gp_lock, oldctr>>
        /\ preexisting' = [preexisting EXCEPT ![t] = P!Inside]
    BY <1>5 DEF P!SyncMb, P!locals
  <2>2. "sync_old" \in PairSync
    BY DEF PairSync
  <2>3. /\ P!Inside' = P!Inside
        /\ pc' \in [Threads -> {"idle", "lock_inc", "lock_mb", "reading", "unlock_dec"} \union PairSync]
        /\ \A e \in Threads : PairReader(e)'
        /\ pc'[t] = "sync_old" /\ \A e \in Threads \ {t} : pc'[e] = pc[e]
        /\ P!Syncing' = P!Syncing \union {t}
    BY <1>3, <2>1, <2>2, PairSyncing
  <2>4. t \notin P!Inside \union P!Syncing
    BY <2>1 DEF P!Inside, P!Syncing
  <2>5. preexisting' \in [Threads -> SUBSET Threads] /\ preexisting'[t] = P!Inside
        /\ \A e \in Threads \ {t} : preexisting'[e] = preexisting[e]
    BY <1>2, <1>4, <2>1
  <2>6. PairType'
    BY <1>1, <1>3, <2>1, <2>3, <2>5 DEF PairType
  <2>7. ASSUME NEW e \in Threads PROVE PairFlips(e)' /\ PairWait(e)' /\ PairPassed(e)'
    <3>1. CASE e = t
      BY <1>1, <1>3, <2>1, <2>3, <2>5, <3>1 DEF PairFlips, PairWait, PairPassed, PairSync, PairLocked, PairAware
    <3>2. CASE e # t
      <4>1. pc'[e] = pc[e] /\ preexisting'[e] = preexisting[e]
        BY <2>3, <2>5, <3>2
      <4>2. PairFlips(e)' /\ PairWait(e)'
        BY <1>1, <1>3, <2>1, <2>3, <4>1 DEF PairFlips, PairWait
      <4>3. \A h \in Threads : pc'[h] = "sync_wait" <=> pc[h] = "sync_wait"
        BY <2>1, <2>3
      <4>4. ASSUME pc[e] \in PairAware PROVE PairPassed(e)'
        BY <1>3, <2>1, <4>1, <4>3, <4>4, PairFrame
      <4>5. ASSUME pc[e] \notin PairAware PROVE PairPassed(e)'
        BY <4>1, <4>5 DEF PairPassed
      <4> QED BY <4>2, <4>4, <4>5
    <3> QED BY <3>1, <3>2
  <2> QED BY <2>1, <2>3, <2>4, <2>6, <2>7 DEF PairInv
<1>6. CASE P!SyncOld(t)
  <2>1. pc[t] = "sync_old" /\ pc' = [pc EXCEPT ![t] = "sync_lock"] /\ UNCHANGED <<rcu_gp_lock, preexisting>>
        /\ oldctr' = [oldctr EXCEPT ![t] = rcu_idx]
    BY <1>6 DEF P!SyncOld
  <2>2. "sync_old" \in PairSync /\ "sync_lock" \in PairSync
    BY DEF PairSync, PairAware
  <2>3. /\ P!Inside' = P!Inside
        /\ pc' \in [Threads -> {"idle", "lock_inc", "lock_mb", "reading", "unlock_dec"} \union PairSync]
        /\ \A e \in Threads : PairReader(e)'
        /\ pc'[t] = "sync_lock" /\ \A e \in Threads \ {t} : pc'[e] = pc[e]
        /\ P!Syncing' = P!Syncing \union {t}
    BY <1>3, <2>1, <2>2, PairSyncing
  <2>4. t \in P!Syncing
    BY <2>1 DEF P!Syncing
  <2>5. oldctr' \in [Threads -> Nat] /\ oldctr'[t] = rcu_idx
        /\ \A e \in Threads \ {t} : oldctr'[e] = oldctr[e]
    BY <1>2, <2>1
  <2>6. PairType'
    BY <1>1, <1>3, <2>1, <2>3, <2>5 DEF PairType
  <2>7. \A h \in Threads : pc'[h] = "sync_wait" <=> pc[h] = "sync_wait"
    BY <2>1, <2>3
  <2>8. ASSUME NEW e \in Threads PROVE PairFlips(e)' /\ PairWait(e)' /\ PairPassed(e)'
    <3>1. CASE e = t
      <4>1. PairFlips(t)' /\ PairWait(t)'
        <5>1. PairFlips(t)'
          <6>1. rcu_gp_lock' # t /\ pc'[t] \notin PairLocked
            BY <1>1, <2>1, <2>3 DEF PairFlips, PairLocked
          <6>2. oldctr'[t] <= rcu_idx'
            BY <1>2, <1>3, <2>5
          <6> QED BY <2>3, <6>1, <6>2 DEF PairFlips
        <5>2. PairWait(t)'
          BY <1>1, <2>1, <2>3 DEF PairWait, PairSync, PairAware
        <5> QED BY <5>1, <5>2
      <4>2. \A f \in Nat : oldctr'[t] <= f => ~ Waited(f)'
        BY <1>2, <1>3, <2>5 DEF Waited
      <4>3. \A h \in Threads : pc'[h] = "sync_wait" => ~ oldctr'[t] <= flip'[h]
        <5>1. \A h \in Threads : pc'[h] = "sync_wait" => rcu_idx = flip[h] + 1
          BY <1>1, <2>7 DEF PairFlips
        <5> QED BY <1>2, <1>3, <2>5, <5>1
      <4> QED BY <3>1, <4>1, <4>2, <4>3 DEF PairPassed
    <3>2. CASE e # t
      <4>1. pc'[e] = pc[e] /\ preexisting'[e] = preexisting[e] /\ oldctr'[e] = oldctr[e]
        BY <2>1, <2>3, <2>5, <3>2
      <4>2. PairFlips(e)' /\ PairWait(e)'
        BY <1>1, <1>3, <2>1, <2>3, <4>1 DEF PairFlips, PairWait
      <4>4. ASSUME pc[e] \in PairAware PROVE PairPassed(e)'
        BY <1>3, <2>7, <4>1, <4>4, PairFrame
      <4>5. ASSUME pc[e] \notin PairAware PROVE PairPassed(e)'
        BY <4>1, <4>5 DEF PairPassed
      <4> QED BY <4>2, <4>4, <4>5
    <3> QED BY <3>1, <3>2
  <2> QED BY <2>1, <2>3, <2>4, <2>6, <2>8 DEF PairInv
<1>7. CASE P!SyncLock(t)
  <2>1. pc[t] = "sync_lock" /\ pc' = [pc EXCEPT ![t] = "sync_ctr"] /\ UNCHANGED <<oldctr, preexisting>>
        /\ rcu_gp_lock = NoThread /\ rcu_gp_lock' = t
    BY <1>7 DEF P!SyncLock, P!locals
  <2>2. "sync_lock" \in PairSync /\ "sync_ctr" \in PairSync
    BY DEF PairSync, PairAware
  <2>3. /\ P!Inside' = P!Inside
        /\ pc' \in [Threads -> {"idle", "lock_inc", "lock_mb", "reading", "unlock_dec"} \union PairSync]
        /\ \A e \in Threads : PairReader(e)'
        /\ pc'[t] = "sync_ctr" /\ \A e \in Threads \ {t} : pc'[e] = pc[e]
        /\ P!Syncing' = P!Syncing \union {t}
    BY <1>3, <2>1, <2>2, PairSyncing
  <2>4. t \in P!Syncing
    BY <2>1 DEF P!Syncing
  <2>5. PairType'
    BY <1>1, <1>3, <2>1, <2>3 DEF PairType
  <2>6. \A h \in Threads : pc'[h] = "sync_wait" <=> pc[h] = "sync_wait"
    BY <2>1, <2>3
  <2>7. ASSUME NEW e \in Threads PROVE PairFlips(e)' /\ PairWait(e)' /\ PairPassed(e)'
    <3>1. CASE e = t
      <4>1. PairFlips(t)' /\ PairWait(t)'
        BY <1>1, <1>2, <1>3, <2>1, <2>3 DEF PairFlips, PairWait, PairSync, PairLocked, PairAware
      <4>2. pc[t] \in PairAware
        BY <2>1 DEF PairAware
      <4> QED BY <1>3, <2>1, <2>6, <3>1, <4>1, <4>2, PairFrame
    <3>2. CASE e # t
      <4>1. pc'[e] = pc[e]
        BY <2>1, <2>3, <3>2
      <4>2. PairWait(e)'
        BY <1>1, <1>3, <2>1, <2>3, <4>1 DEF PairWait
      <4>3. PairFlips(e)'
        <5>1. pc[e] \notin PairLocked
          BY <1>1, <2>1 DEF PairFlips
        <5> QED BY <1>1, <1>3, <2>1, <3>2, <4>1, <5>1 DEF PairFlips, PairLocked
      <4>4. ASSUME pc[e] \in PairAware PROVE PairPassed(e)'
        BY <1>3, <2>1, <2>6, <4>4, PairFrame
      <4>5. ASSUME pc[e] \notin PairAware PROVE PairPassed(e)'
        BY <4>1, <4>5 DEF PairPassed
      <4> QED BY <4>2, <4>3, <4>4, <4>5
    <3> QED BY <3>1, <3>2
  <2> QED BY <2>1, <2>3, <2>4, <2>5, <2>7 DEF PairInv
<1> QED BY <1>5, <1>6, <1>7

\* Readers from which two consecutive flips took their index are gone.
LEMMA PairGone ==
  ASSUME PairInv, NEW u \in Threads, NEW f \in Nat,
         \A r \in preexisting[u] : rcu_read_idx[r] # f % 2 /\ rcu_read_idx[r] # (f + 1) % 2
  PROVE  preexisting[u] = {}
<1>1. PairType
  BY DEF PairInv
<1>2. \A r \in preexisting[u] : rcu_read_idx[r] \in {0, 1}
  BY <1>1 DEF PairType, Counter
<1>3. {f % 2, (f + 1) % 2} = {0, 1}
  OBVIOUS
<1> QED BY <1>2, <1>3

\* The scan does not pass a reader that is counted where it waits.
LEMMA PairGuard ==
  ASSUME PairInv, NEW t \in Threads, pc[t] = "sync_wait", rcu_refcnt[scan[t]][flip[t] % 2] = 0,
         NEW u \in Threads, pc[u] \in PairAware, oldctr[u] <= flip[t],
         NEW r \in preexisting[u], rcu_read_idx[r] = flip[t] % 2
  PROVE  r > scan[t]
<1>1. PairType /\ PairPassed(u) /\ PairWait(u)
  BY DEF PairInv
<1>2. r >= scan[t]
  BY <1>1 DEF PairPassed
<1>3. r \in Threads /\ pc[r] = "reading"
  BY <1>1, PairBase DEF PairWait, P!Inside
<1>4. rcu_refcnt[r][rcu_read_idx[r]] = 1
  BY <1>3, PairParts DEF PairReader, Counted
<1>5. scan[t] # r /\ scan[t] \in Threads
  BY <1>1, <1>4 DEF PairType
<1> QED BY <1>2, <1>3, <1>5, PairBase

\* The reading of the index under the lock, where three flips are enough to return early, and the
\* flip
LEMMA PairHeld ==
  ASSUME PairInv, NEW t \in Threads, P!SyncCtr(t) \/ P!Flip(t)
  PROVE  PairInv' /\ P!Inside' = P!Inside /\ P!Syncing' = P!Syncing /\ preexisting' = preexisting
<1> USE PairBase DEF P!Goto
<1>1. /\ PairType /\ \A e \in Threads : PairReader(e) /\ PairFlips(e) /\ PairWait(e) /\ PairPassed(e)
  BY DEF PairInv
<1>2. pc \in [Threads -> {"idle", "lock_inc", "lock_mb", "reading", "unlock_dec"} \union PairSync]
      /\ rcu_idx \in Nat /\ oldctr \in [Threads -> Nat] /\ ctr \in [Threads -> Nat] /\ flip \in [Threads -> Nat]
      /\ scan \in [Threads -> Threads]
  BY <1>1 DEF PairType
<1>3. UNCHANGED <<rcu_gp_lock, rcu_refcnt, buffer, rcu_read_idx, oldctr, preexisting>>
  BY DEF P!SyncCtr, P!Flip, P!readervars
<1>4. {"sync_ctr", "sync_flip", "sync_wait", "sync_unlock"} \subseteq PairSync
  BY DEF PairSync, PairLocked
<1>5. CASE P!SyncCtr(t)
  <2>1. /\ pc[t] = "sync_ctr" /\ UNCHANGED <<rcu_idx, scan>>
        /\ ctr' = [ctr EXCEPT ![t] = rcu_idx] /\ flip' = [flip EXCEPT ![t] = rcu_idx]
    BY <1>5 DEF P!SyncCtr
  <2>2. PICK to \in {"sync_unlock", "sync_flip"} :
          /\ pc' = [pc EXCEPT ![t] = to]
          /\ to = "sync_unlock" => rcu_idx - oldctr[t] >= 3
    BY <1>5 DEF P!SyncCtr, P!TwoFullCycles
  <2>3. /\ P!Inside' = P!Inside
        /\ pc' \in [Threads -> {"idle", "lock_inc", "lock_mb", "reading", "unlock_dec"} \union PairSync]
        /\ \A e \in Threads : PairReader(e)'
        /\ pc'[t] = to /\ \A e \in Threads \ {t} : pc'[e] = pc[e]
        /\ P!Syncing' = P!Syncing \union {t}
    BY <1>3, <1>4, <2>1, <2>2, PairSyncing
  <2>4. t \in P!Syncing
    BY <2>1 DEF P!Syncing
  <2>5. /\ ctr' \in [Threads -> Nat] /\ flip' \in [Threads -> Nat] /\ ctr'[t] = rcu_idx /\ flip'[t] = rcu_idx
        /\ \A e \in Threads \ {t} : ctr'[e] = ctr[e] /\ flip'[e] = flip[e]
    BY <1>2, <2>1
  <2>6. PairType'
    BY <1>1, <1>3, <2>1, <2>3, <2>5 DEF PairType
  <2>7. \A h \in Threads : pc[h] # "sync_wait" /\ pc'[h] # "sync_wait"
    <3>1. pc[t] \in PairLocked
      BY <2>1 DEF PairLocked
    <3> QED BY <2>1, <2>2, <2>3, <3>1, PairHolder DEF PairLocked
  <2>8. oldctr[t] <= rcu_idx
    BY <1>1, <2>1 DEF PairFlips, PairAware
  <2>9. to = "sync_unlock" => preexisting[t] = {}
    <3> SUFFICES ASSUME to = "sync_unlock" PROVE preexisting[t] = {}
      OBVIOUS
    <3>1. Waited(oldctr[t]) /\ Waited(oldctr[t] + 1)
      BY <1>2, <2>2, <2>7 DEF Waited
    <3>2. pc[t] \in PairAware /\ oldctr[t] \in Nat /\ oldctr[t] + 1 \in Nat /\ oldctr[t] <= oldctr[t] /\ oldctr[t] <= oldctr[t] + 1
      BY <1>2, <2>1 DEF PairAware
    <3>3. \A r \in preexisting[t] : rcu_read_idx[r] # oldctr[t] % 2 /\ rcu_read_idx[r] # (oldctr[t] + 1) % 2
      BY <1>1, <3>1, <3>2 DEF PairPassed
    <3> QED BY <3>2, <3>3, PairGone
  <2>10. PairFlips(t)' /\ PairWait(t)'
    <3>1. pc'[t] \in PairLocked /\ rcu_gp_lock' = t
      BY <1>1, <1>3, <2>1, <2>2, <2>3 DEF PairFlips, PairLocked
    <3>2. PairFlips(t)'
      BY <1>2, <1>3, <2>1, <2>2, <2>3, <2>5, <2>8, <3>1 DEF PairFlips
    <3>3. PairWait(t)'
      BY <1>1, <1>3, <1>4, <2>2, <2>3, <2>9 DEF PairWait
    <3> QED BY <3>2, <3>3
  <2>11. ASSUME NEW e \in Threads \ {t} PROVE PairFlips(e)' /\ PairWait(e)'
    BY <1>1, <1>3, <2>1, <2>3, <2>5 DEF PairFlips, PairWait
  <2>12. ASSUME NEW e \in Threads PROVE PairPassed(e)'
    <3>1. pc'[e] \in PairAware => pc[e] \in PairAware
      BY <2>1, <2>2, <2>3 DEF PairAware
    <3>2. ASSUME pc[e] \in PairAware PROVE PairPassed(e)'
      BY <1>3, <2>1, <2>7, <3>2, PairFrame
    <3> QED BY <3>1, <3>2 DEF PairPassed
  <2> QED BY <1>3, <2>3, <2>4, <2>6, <2>10, <2>11, <2>12 DEF PairInv
<1>6. CASE P!Flip(t)
  <2>1. /\ pc[t] = "sync_flip" /\ pc' = [pc EXCEPT ![t] = "sync_wait"] /\ UNCHANGED <<ctr, flip>>
        /\ rcu_idx' = flip[t] + 1 /\ scan' = [scan EXCEPT ![t] = 0]
    BY <1>6 DEF P!Flip
  <2>2. /\ P!Inside' = P!Inside
        /\ pc' \in [Threads -> {"idle", "lock_inc", "lock_mb", "reading", "unlock_dec"} \union PairSync]
        /\ \A e \in Threads : PairReader(e)'
        /\ pc'[t] = "sync_wait" /\ \A e \in Threads \ {t} : pc'[e] = pc[e]
        /\ P!Syncing' = P!Syncing \union {t}
    BY <1>3, <1>4, <2>1, PairSyncing
  <2>3. t \in P!Syncing
    BY <2>1 DEF P!Syncing
  <2>4. rcu_idx = flip[t] /\ rcu_idx' = rcu_idx + 1
    BY <1>1, <2>1 DEF PairFlips
  <2>5. 0 \in Threads
    BY DEF Threads
  <2>6. scan' \in [Threads -> Threads] /\ scan'[t] = 0 /\ \A e \in Threads \ {t} : scan'[e] = scan[e]
    BY <1>2, <2>1, <2>5
  <2>7. PairType'
    BY <1>1, <1>2, <1>3, <2>1, <2>2, <2>4, <2>6 DEF PairType
  <2>8. pc[t] \in PairLocked
    BY <2>1 DEF PairLocked
  <2>9. \A h \in Threads : pc[h] # "sync_wait" /\ (pc'[h] = "sync_wait" => h = t)
    BY <2>1, <2>2, <2>8, PairHolder DEF PairLocked
  <2>10. PairFlips(t)' /\ PairWait(t)'
    <3>1. pc'[t] \in PairLocked /\ rcu_gp_lock' = t
      BY <1>1, <1>3, <2>1, <2>2, <2>8 DEF PairFlips, PairLocked
    <3>2. oldctr[t] <= rcu_idx /\ oldctr[t] <= ctr[t] /\ flip[t] \in {ctr[t], ctr[t] + 1}
      BY <1>1, <2>1 DEF PairFlips, PairAware
    <3>3. PairFlips(t)'
      BY <1>2, <1>3, <2>1, <2>2, <2>4, <3>1, <3>2 DEF PairFlips
    <3>4. PairWait(t)'
      BY <1>1, <1>3, <1>4, <2>2 DEF PairWait
    <3> QED BY <3>3, <3>4
  <2>11. ASSUME NEW e \in Threads \ {t} PROVE PairFlips(e)' /\ PairWait(e)'
    <3>1. pc[e] \notin PairLocked /\ pc'[e] = pc[e]
      BY <2>2, <2>8, PairHolder
    <3>2. PairFlips(e)'
      <4>1. rcu_gp_lock' # e
        BY <1>1, <1>3, <3>1 DEF PairFlips
      <4>2. pc[e] \in PairAware => oldctr'[e] <= rcu_idx'
        BY <1>1, <1>2, <1>3, <2>4 DEF PairFlips
      <4> QED BY <3>1, <4>1, <4>2 DEF PairFlips, PairLocked
    <3>3. PairWait(e)'
      BY <1>1, <1>3, <2>2, <3>1 DEF PairWait
    <3> QED BY <3>2, <3>3
  <2>12. ASSUME NEW f \in Nat, Waited(f)' PROVE Waited(f)
    <3>1. f < rcu_idx + 1 /\ flip[t] # f
      BY <1>3, <2>1, <2>2, <2>4, <2>12 DEF Waited
    <3> QED BY <1>2, <2>4, <2>9, <3>1 DEF Waited
  <2>13. ASSUME NEW e \in Threads PROVE PairPassed(e)'
    <3>1. pc'[e] \in PairAware => pc[e] \in PairAware
      BY <2>1, <2>2 DEF PairAware
    <3>2. \A r \in preexisting[e] : r \in Nat
      BY <1>1 DEF PairType
    <3>3. \A h \in Threads : pc'[h] = "sync_wait" => scan'[h] = 0
      BY <2>6, <2>9
    <3>4. \A r \in preexisting[e] : \A h \in Threads : pc'[h] = "sync_wait" => r >= scan'[h]
      BY <3>2, <3>3
    <3> QED BY <1>1, <1>3, <2>12, <3>1, <3>4 DEF PairPassed
  <2> QED BY <1>3, <2>2, <2>3, <2>7, <2>10, <2>11, <2>13 DEF PairInv
<1> QED BY <1>5, <1>6

\* The loop: when its last thread has been passed, the flip has been waited for, by this caller and
\* on behalf of all that share it.
LEMMA PairWaitStep ==
  ASSUME PairInv, NEW t \in Threads, P!Wait(t)
  PROVE  PairInv' /\ P!Inside' = P!Inside /\ P!Syncing' = P!Syncing /\ preexisting' = preexisting
<1> USE PairBase
<1>1. /\ PairType /\ \A e \in Threads : PairReader(e) /\ PairFlips(e) /\ PairWait(e) /\ PairPassed(e)
  BY DEF PairInv
<1>2. pc \in [Threads -> {"idle", "lock_inc", "lock_mb", "reading", "unlock_dec"} \union PairSync]
      /\ rcu_idx \in Nat /\ oldctr \in [Threads -> Nat] /\ ctr \in [Threads -> Nat] /\ flip \in [Threads -> Nat]
      /\ scan \in [Threads -> Threads]
  BY <1>1 DEF PairType
<1>3. /\ pc[t] = "sync_wait" /\ rcu_refcnt[scan[t]][flip[t] % 2] = 0
      /\ UNCHANGED <<rcu_idx, rcu_gp_lock, rcu_refcnt, buffer, rcu_read_idx, ctr, oldctr, preexisting>>
  BY DEF P!Wait, P!OldCounter, P!readervars
<1>4. {"sync_ctr", "sync_flip", "sync_wait", "sync_unlock"} \subseteq PairSync
  BY DEF PairSync, PairLocked
<1>5. /\ rcu_idx = flip[t] + 1 /\ oldctr[t] <= ctr[t] /\ flip[t] \in {ctr[t], ctr[t] + 1} /\ oldctr[t] <= rcu_idx
      /\ pc[t] \in PairAware /\ pc[t] \in PairLocked /\ rcu_gp_lock = t /\ t \in P!Syncing
  BY <1>1, <1>3 DEF PairFlips, PairAware, PairLocked, P!Syncing
<1>6. ASSUME NEW e \in Threads, pc[e] \in PairAware, oldctr[e] <= flip[t],
             NEW r \in preexisting[e], rcu_read_idx[r] = flip[t] % 2
      PROVE  r > scan[t] /\ r \in Nat /\ r < NR_THREADS
  <2>1. r \in Threads
    BY <1>1 DEF PairType
  <2> QED BY <1>3, <1>6, <2>1, PairGuard
<1>7. scan[t] \in Nat /\ scan[t] < NR_THREADS
  BY <1>2
<1>8. \A h \in Threads \ {t} : pc[h] \notin PairLocked
  BY <1>5, PairHolder
<1>9. CASE scan[t] + 1 < NR_THREADS /\ scan' = [scan EXCEPT ![t] = scan[t] + 1] /\ UNCHANGED <<flip, pc>>
  <2>1. scan[t] + 1 \in Threads
    BY <1>7, <1>9 DEF Threads
  <2>2. scan' \in [Threads -> Threads] /\ scan'[t] = scan[t] + 1 /\ \A e \in Threads \ {t} : scan'[e] = scan[e]
    BY <1>2, <1>9, <2>1
  <2>3. PairType'
    BY <1>1, <1>3, <1>9, <2>2 DEF PairType
  <2>4. P!Inside' = P!Inside /\ P!Syncing' = P!Syncing
    BY <1>9 DEF P!Inside, P!Syncing
  <2>5. ASSUME NEW e \in Threads PROVE PairReader(e)' /\ PairFlips(e)' /\ PairWait(e)'
    BY <1>1, <1>3, <1>9, <2>4 DEF PairReader, Counted, NotCounted, Counting, PairFlips, PairWait
  <2>6. ASSUME NEW e \in Threads PROVE PairPassed(e)'
    <3> SUFFICES ASSUME pc[e] \in PairAware, NEW r \in preexisting[e]
                 PROVE  /\ \A f \in Nat : oldctr[e] <= f /\ Waited(f)' => rcu_read_idx[r] # f % 2
                        /\ \A h \in Threads : pc[h] = "sync_wait" /\ oldctr[e] <= flip[h] /\ rcu_read_idx[r] = flip[h] % 2
                                                => r >= scan'[h]
      BY <1>3, <1>9 DEF PairPassed
    <3>1. \A f : Waited(f)' => Waited(f)
      BY <1>3, <1>9 DEF Waited
    <3>2. \A f \in Nat : oldctr[e] <= f /\ Waited(f)' => rcu_read_idx[r] # f % 2
      BY <1>1, <3>1 DEF PairPassed
    <3>3. oldctr[e] <= flip[t] /\ rcu_read_idx[r] = flip[t] % 2 => r >= scan'[t]
      BY <1>6, <1>7, <2>2
    <3>4. \A h \in Threads : pc[h] = "sync_wait" => h = t
      BY <1>8 DEF PairLocked
    <3> QED BY <3>2, <3>3, <3>4
  <2> QED BY <1>3, <2>3, <2>4, <2>5, <2>6 DEF PairInv
\* The last thread has been passed: the flip has been waited for.
<1>10. CASE /\ scan[t] + 1 = NR_THREADS /\ UNCHANGED scan
            /\ \/ P!FlipAgain(t) /\ flip' = [flip EXCEPT ![t] = flip[t] + 1] /\ pc' = [pc EXCEPT ![t] = "sync_flip"]
               \/ ~ P!FlipAgain(t) /\ UNCHANGED flip /\ pc' = [pc EXCEPT ![t] = "sync_unlock"]
  <2>1. PICK to \in {"sync_flip", "sync_unlock"} :
          /\ pc' = [pc EXCEPT ![t] = to]
          /\ to = "sync_flip" => flip[t] = ctr[t] /\ flip' = [flip EXCEPT ![t] = flip[t] + 1]
          /\ to = "sync_unlock" => UNCHANGED flip /\ (flip[t] = ctr[t] => ~ (ctr[t] - oldctr[t] < 2))
    BY <1>10 DEF P!FlipAgain
  <2>2. /\ P!Inside' = P!Inside
        /\ pc' \in [Threads -> {"idle", "lock_inc", "lock_mb", "reading", "unlock_dec"} \union PairSync]
        /\ \A e \in Threads : PairReader(e)'
        /\ pc'[t] = to /\ \A e \in Threads \ {t} : pc'[e] = pc[e]
        /\ P!Syncing' = P!Syncing \union {t}
    BY <1>3, <1>4, <2>1, PairSyncing
  <2>3. /\ flip' \in [Threads -> Nat] /\ \A e \in Threads \ {t} : flip'[e] = flip[e]
        /\ to = "sync_flip" => flip'[t] = flip[t] + 1
    <3>1. flip[t] + 1 \in Nat
      BY <1>2
    <3>2. CASE to = "sync_flip"
      <4>1. flip' = [flip EXCEPT ![t] = flip[t] + 1] /\ flip \in [Threads -> Nat] /\ flip[t] + 1 \in Nat
        BY <1>2, <2>1, <3>1, <3>2
      <4> QED BY <3>2, <4>1
    <3>3. CASE to = "sync_unlock"
      BY <1>2, <2>1, <3>3
    <3> QED BY <3>2, <3>3
  <2>4. PairType'
    BY <1>1, <1>3, <1>10, <2>2, <2>3 DEF PairType
  <2>5. ASSUME NEW e \in Threads, pc[e] \in PairAware, NEW r \in preexisting[e], oldctr[e] <= flip[t]
        PROVE  rcu_read_idx[r] # flip[t] % 2
    BY <1>6, <1>7, <1>10, <2>5
  <2>6. \A h \in Threads : pc'[h] # "sync_wait" /\ (pc[h] = "sync_wait" => h = t)
    BY <1>8, <2>1, <2>2 DEF PairLocked
  <2>7. \A f \in Nat : f < rcu_idx => f = flip[t] \/ Waited(f)
    BY <2>6 DEF Waited
  <2>8. ASSUME NEW e \in Threads, pc[e] \in PairAware, NEW r \in preexisting[e],
               NEW f \in Nat, oldctr[e] <= f, f < rcu_idx
        PROVE  rcu_read_idx[r] # f % 2
    BY <1>1, <2>5, <2>7, <2>8 DEF PairPassed
  <2>9. to = "sync_unlock" => preexisting[t] = {}
    <3> SUFFICES ASSUME to = "sync_unlock" PROVE preexisting[t] = {}
      OBVIOUS
    <3>1. PICK f \in Nat : oldctr[t] <= f /\ f + 1 < rcu_idx
      <4>1. CASE flip[t] = ctr[t] + 1
        <5>1. ctr[t] \in Nat /\ oldctr[t] <= ctr[t] /\ ctr[t] + 1 < rcu_idx
          BY <1>2, <1>5, <4>1
        <5> QED BY <5>1
      <4>2. CASE flip[t] = ctr[t]
        <5>1. ctr[t] - 1 \in Nat /\ oldctr[t] <= ctr[t] - 1 /\ (ctr[t] - 1) + 1 < rcu_idx
          BY <1>2, <1>5, <2>1, <4>2
        <5> QED BY <5>1
      <4> QED BY <1>5, <4>1, <4>2
    <3>2. f + 1 \in Nat /\ oldctr[t] <= f + 1 /\ f < rcu_idx
      BY <1>2, <3>1
    <3>3. \A r \in preexisting[t] : rcu_read_idx[r] # f % 2 /\ rcu_read_idx[r] # (f + 1) % 2
      BY <1>5, <2>8, <3>1, <3>2
    <3> QED BY <3>3, PairGone
  <2>10. PairFlips(t)' /\ PairWait(t)'
    <3>1. pc'[t] \in PairLocked /\ rcu_gp_lock' = t
      BY <1>3, <1>5, <2>1, <2>2 DEF PairLocked
    <3>2. PairFlips(t)'
      <4>1. to = "sync_flip" => flip'[t] = ctr[t] + 1 /\ rcu_idx = flip'[t]
        BY <1>2, <1>5, <2>1, <2>3
      <4>2. CASE to = "sync_flip"
        BY <1>3, <1>5, <2>2, <3>1, <4>1, <4>2 DEF PairFlips
      <4>3. CASE to = "sync_unlock"
        BY <1>3, <1>5, <2>2, <3>1, <4>3 DEF PairFlips
      <4> QED BY <4>2, <4>3
    <3>3. PairWait(t)'
      BY <1>1, <1>3, <1>4, <2>2, <2>9 DEF PairWait
    <3> QED BY <3>2, <3>3
  <2>11. ASSUME NEW e \in Threads \ {t} PROVE PairFlips(e)' /\ PairWait(e)'
    BY <1>1, <1>3, <2>2, <2>3 DEF PairFlips, PairWait
  <2>12. ASSUME NEW e \in Threads PROVE PairPassed(e)'
    <3>1. pc'[e] \in PairAware => pc[e] \in PairAware
      BY <1>5, <2>2
    <3>2. \A f : Waited(f)' => f < rcu_idx
      BY <1>3 DEF Waited
    <3> QED BY <1>3, <2>6, <2>8, <3>1, <3>2 DEF PairPassed
  <2>13. P!Syncing' = P!Syncing
    BY <1>5, <2>2
  <2> QED BY <1>3, <2>2, <2>4, <2>10, <2>11, <2>12, <2>13 DEF PairInv
<1> QED BY <1>9, <1>10 DEF P!Wait

\* The way out of synchronize_rcu()
LEMMA PairBack ==
  ASSUME PairInv, NEW t \in Threads, P!SyncUnlock(t) \/ P!SyncReturn(t)
  PROVE  /\ PairInv' /\ P!Inside' = P!Inside /\ preexisting' = preexisting
         /\ \/ P!Syncing' = P!Syncing
            \/ t \in P!Syncing /\ preexisting[t] = {} /\ P!Syncing' = P!Syncing \ {t}
<1> USE PairBase DEF P!Goto
<1>1. /\ PairType /\ \A e \in Threads : PairReader(e) /\ PairFlips(e) /\ PairWait(e) /\ PairPassed(e)
  BY DEF PairInv
<1>2. pc \in [Threads -> {"idle", "lock_inc", "lock_mb", "reading", "unlock_dec"} \union PairSync]
      /\ oldctr \in [Threads -> Nat] /\ ctr \in [Threads -> Nat] /\ flip \in [Threads -> Nat]
      /\ scan \in [Threads -> Threads]
  BY <1>1 DEF PairType
<1>3. UNCHANGED <<rcu_idx, rcu_refcnt, buffer, rcu_read_idx, preexisting>>
  BY DEF P!SyncUnlock, P!SyncReturn, P!readervars
<1>4. {"sync_unlock", "sync_return"} \subseteq PairSync
  BY DEF PairSync, PairLocked
<1>5. CASE P!SyncUnlock(t)
  <2>1. /\ pc[t] = "sync_unlock" /\ pc' = [pc EXCEPT ![t] = "sync_return"]
        /\ rcu_gp_lock' = NoThread /\ UNCHANGED <<ctr, oldctr, flip, scan>>
    BY <1>5 DEF P!SyncUnlock, P!locals
  <2>2. /\ P!Inside' = P!Inside
        /\ pc' \in [Threads -> {"idle", "lock_inc", "lock_mb", "reading", "unlock_dec"} \union PairSync]
        /\ \A e \in Threads : PairReader(e)'
        /\ pc'[t] = "sync_return" /\ \A e \in Threads \ {t} : pc'[e] = pc[e]
        /\ P!Syncing' = P!Syncing \union {t}
    BY <1>3, <1>4, <2>1, PairSyncing
  <2>3. t \in P!Syncing /\ pc[t] \in PairLocked
    BY <2>1 DEF P!Syncing, PairLocked
  <2>4. PairType'
    BY <1>1, <1>3, <2>1, <2>2 DEF PairType
  <2>5. \A h \in Threads \ {t} : pc[h] \notin PairLocked
    BY <2>3, PairHolder
  <2>6. ASSUME NEW e \in Threads PROVE PairFlips(e)' /\ PairWait(e)'
    <3>1. pc'[e] \notin PairLocked /\ rcu_gp_lock' # e
      BY <2>1, <2>2, <2>5 DEF PairLocked
    <3>2. pc'[e] \in PairAware => pc[e] = pc'[e]
      BY <2>2 DEF PairAware
    <3>3. PairFlips(e)'
      BY <1>1, <1>3, <2>1, <3>1, <3>2 DEF PairFlips, PairLocked
    <3>4. PairWait(e)'
      BY <1>1, <1>3, <2>1, <2>2 DEF PairWait
    <3> QED BY <3>3, <3>4
  <2>7. ASSUME NEW e \in Threads PROVE PairPassed(e)'
    <3>1. pc'[e] \in PairAware => pc[e] \in PairAware
      BY <2>2 DEF PairAware
    <3>2. \A h \in Threads : pc'[h] = "sync_wait" <=> pc[h] = "sync_wait"
      BY <2>1, <2>2
    <3>3. ASSUME pc[e] \in PairAware PROVE PairPassed(e)'
      BY <1>3, <2>1, <3>2, <3>3, PairFrame
    <3> QED BY <3>1, <3>3 DEF PairPassed
  <2> QED BY <1>3, <2>2, <2>3, <2>4, <2>6, <2>7 DEF PairInv
<1>6. CASE P!SyncReturn(t)
  <2>1. /\ pc[t] = "sync_return" /\ pc' = [pc EXCEPT ![t] = "idle"] /\ UNCHANGED rcu_gp_lock
        /\ ctr' = [ctr EXCEPT ![t] = 0] /\ oldctr' = [oldctr EXCEPT ![t] = 0]
        /\ flip' = [flip EXCEPT ![t] = 0] /\ scan' = [scan EXCEPT ![t] = 0]
    BY <1>6 DEF P!SyncReturn
  <2>2. /\ P!Inside' = P!Inside
        /\ pc' \in [Threads -> {"idle", "lock_inc", "lock_mb", "reading", "unlock_dec"} \union PairSync]
        /\ \A e \in Threads : PairReader(e)'
        /\ pc'[t] = "idle" /\ \A e \in Threads \ {t} : pc'[e] = pc[e]
        /\ P!Syncing' = P!Syncing \ {t}
    BY <1>3, <1>4, <2>1, PairSyncing
  <2>3. t \in P!Syncing /\ preexisting[t] = {}
    BY <1>1, <2>1 DEF P!Syncing, PairWait
  <2>4. 0 \in Threads
    BY DEF Threads
  <2>5. /\ ctr' \in [Threads -> Nat] /\ oldctr' \in [Threads -> Nat] /\ flip' \in [Threads -> Nat]
        /\ scan' \in [Threads -> Threads]
        /\ \A e \in Threads \ {t} : ctr'[e] = ctr[e] /\ oldctr'[e] = oldctr[e] /\ flip'[e] = flip[e] /\ scan'[e] = scan[e]
    BY <1>2, <2>1, <2>4
  <2>6. PairType'
    BY <1>1, <1>3, <2>2, <2>5 DEF PairType
  <2>7. pc[t] \notin PairLocked
    BY <2>1 DEF PairLocked
  <2>8. ASSUME NEW e \in Threads PROVE PairFlips(e)' /\ PairWait(e)'
    <3>1. CASE e = t
      <4>1. PairFlips(t)'
        BY <1>1, <2>1, <2>2, <2>7 DEF PairFlips, PairLocked, PairAware
      <4>2. PairWait(t)'
        BY <1>1, <1>3, <2>2, <2>3 DEF PairWait
      <4> QED BY <3>1, <4>1, <4>2
    <3>2. CASE e # t
      BY <1>1, <1>3, <2>1, <2>2, <2>5, <3>2 DEF PairFlips, PairWait
    <3> QED BY <3>1, <3>2
  <2>9. ASSUME NEW e \in Threads PROVE PairPassed(e)'
    <3>1. pc'[e] \in PairAware => pc[e] \in PairAware /\ e # t
      BY <2>2 DEF PairAware
    <3>2. \A h \in Threads : pc'[h] = "sync_wait" <=> pc[h] = "sync_wait"
      BY <2>1, <2>2
    <3>3. \A h \in Threads : pc'[h] = "sync_wait" => flip'[h] = flip[h] /\ scan'[h] = scan[h]
      BY <2>2, <2>5
    <3>4. ASSUME pc[e] \in PairAware, e # t PROVE PairPassed(e)'
      BY <1>3, <2>5, <3>2, <3>3, <3>4, PairFrame
    <3> QED BY <3>1, <3>4 DEF PairPassed
  <2> QED BY <1>3, <2>2, <2>3, <2>6, <2>8, <2>9 DEF PairInv
<1> QED BY <1>5, <1>6

\* The invariant of rcu_rcpls holds initially.
LEMMA PairStart == P!Init => PairInv
<1> SUFFICES ASSUME P!Init PROVE PairInv
  OBVIOUS
<1> USE PairBase
<1>1. /\ rcu_gp_lock = NoThread
      /\ buffer = [t \in Threads |-> <<>>] /\ scan = [t \in Threads |-> 0] /\ pc = [t \in Threads |-> "idle"]
      /\ preexisting = [t \in Threads |-> {}]
      /\ rcu_idx = 0 /\ rcu_refcnt = [t \in Threads |-> [i \in Counter |-> 0]] /\ rcu_read_idx = [t \in Threads |-> 0]
      /\ ctr = [t \in Threads |-> 0] /\ oldctr = [t \in Threads |-> 0] /\ flip = [t \in Threads |-> 0]
  BY DEF P!Init, P!BaseInit
<1>2. 0 \in Threads /\ 0 \in Counter /\ <<>> \in Seq(Counter \X {0, 1})
  BY DEF Threads, Counter
<1>3. PairType
  <2>1. [i \in Counter |-> 0] \in [Counter -> {0, 1}]
    OBVIOUS
  <2> HIDE DEF PairSync
  <2>2. buffer \in [Threads -> Seq(Counter \X {0, 1})]
    BY <1>1, <1>2
  <2> QED BY <1>1, <1>2, <2>1, <2>2 DEF PairType
<1>4. ASSUME NEW t \in Threads PROVE PairReader(t) /\ PairFlips(t) /\ PairWait(t) /\ PairPassed(t)
  <2>1. pc[t] = "idle" /\ rcu_gp_lock # t /\ preexisting[t] = {} /\ NotCounted(t)
    BY <1>1 DEF NotCounted, Counter
  <2> QED BY <2>1 DEF PairReader, PairFlips, PairWait, PairPassed, PairLocked, PairAware, PairSync
<1> QED BY <1>3, <1>4 DEF PairInv

\* Every step of rcu_rcpls keeps the invariant, and is a step of GracePeriod or a stutter.
LEMMA PairStep ==
  ASSUME PairInv, P!Next
  PROVE  PairInv' /\ Elapses(P!Inside, P!Inside', P!Syncing, P!Syncing')
<1>1. PICK t \in Threads :
        \/ P!DrainStore(t)
        \/ P!ReadLockLoad(t) \/ P!ReadLockNested(t) \/ P!Reader(t)
        \/ P!SyncMb(t) \/ P!Sync(t)
  BY PairBase DEF P!Next
<1>2. CASE P!DrainStore(t)
  BY <1>2, PairDrainKept DEF Elapses, P!Inside, P!Syncing
<1>3. CASE P!ReadLockLoad(t) \/ P!ReadLockNested(t) \/ P!Reader(t)
  BY <1>3, PairRead DEF Elapses
<1>4. CASE P!SyncMb(t) \/ P!SyncOld(t) \/ P!SyncLock(t)
  BY <1>4, PairCall DEF Elapses
<1>5. CASE P!SyncCtr(t) \/ P!Flip(t) \/ P!Wait(t)
  BY <1>5, PairHeld, PairWaitStep DEF Elapses
<1>6. CASE P!SyncUnlock(t) \/ P!SyncReturn(t)
  BY <1>6, PairBack DEF Elapses
<1> QED BY <1>1, <1>2, <1>3, <1>4, <1>5, <1>6 DEF P!Sync

-----------------------------------------------------------------------------
\* The three of them

\* The implementations
Impls == {"rcu_nest32", "rcu_nest", "rcu_rcpls"}

\* The inductive invariant: that of the implementation that runs
IInv ==
  /\ impl \in Impls
  /\ impl = "rcu_nest32" => Inv32
  /\ impl = "rcu_nest" => NestInv
  /\ impl = "rcu_rcpls" => PairInv

\* The abstract variables, as the refinement mapping of Promised has them
InsideOf ==
  CASE impl = "rcu_nest32" -> N32!Inside [] impl = "rcu_rcpls" -> P!Inside [] OTHER -> {}

SyncingOf ==
  CASE impl = "rcu_nest32" -> N32!Syncing [] impl = "rcu_rcpls" -> P!Syncing [] OTHER -> {}

StillTo == [u \in Threads |-> IF impl = "rcu_nest" THEN {} ELSE preexisting[u]]

\* Elapses is a step of the abstract specification under the refinement mapping.
LEMMA ElapsesStep ==
  ASSUME impl \in {"rcu_nest32", "rcu_rcpls"}, impl' = impl, preexisting \in [Threads -> SUBSET Threads],
         preexisting' \in [Threads -> SUBSET Threads],
         Elapses(InsideOf, InsideOf', SyncingOf, SyncingOf')
  PROVE  [Promised!Next]_(Promised!gpvars)
<1>1. StillTo = preexisting /\ StillTo' = preexisting'
  BY DEF StillTo
<1> QED BY <1>1 DEF Elapses, Promised!Next, Promised!gpvars, Promised!ReadLock, Promised!ReadUnlock,
                    Promised!SynchronizeCall, Promised!SynchronizeReturn, InsideOf, SyncingOf, StillTo

\* The invariant holds initially, and initial states map to initial states.
LEMMA InvInit == Init => IInv /\ Promised!Init
<1> SUFFICES ASSUME Init PROVE IInv /\ Promised!Init
  OBVIOUS
<1>1. CASE impl = "rcu_nest32" /\ N32!Init
  <2>1. Inv32
    BY <1>1, Init32
  <2>2. N32!Inside = {} /\ N32!Syncing = {} /\ preexisting = [u \in Threads |-> {}]
    BY <1>1, Base32 DEF N32!Init, N32!BaseInit, N32!Inside, N32!Syncing
  <2> QED BY <1>1, <2>1, <2>2 DEF IInv, Impls, Promised!Init
<1>2. CASE impl = "rcu_nest" /\ N!Init
  <2>1. NestInv
    BY <1>2, NestStart
  <2> QED BY <1>2, <2>1 DEF IInv, Impls, Promised!Init
<1>3. CASE impl = "rcu_rcpls" /\ P!Init
  <2>1. PairInv
    BY <1>3, PairStart
  <2>2. P!Inside = {} /\ P!Syncing = {} /\ preexisting = [u \in Threads |-> {}]
    BY <1>3, PairBase DEF P!Init, P!BaseInit, P!Inside, P!Syncing
  <2> QED BY <1>3, <2>1, <2>2 DEF IInv, Impls, Promised!Init
<1> QED BY <1>1, <1>2, <1>3 DEF Init

\* A step that changes nothing
LEMMA StutterStep ==
  ASSUME IInv, UNCHANGED vars
  PROVE  IInv' /\ UNCHANGED Promised!gpvars
<1>1. UNCHANGED <<impl, rcu_gp_lock, buffer, scan, pc, preexisting, phase, snap, rcu_gp_ctr, tmp, rcu_idx, rcu_refcnt,
                  rcu_nesting, rcu_read_idx, ctr, oldctr, rcu_reader_gp, flip>>
  BY DEF vars, own32, own, ownp
<1>2. Inv32 => Inv32'
  BY <1>1 DEF Inv32, Type32, Announced32, Lock32, Wait32, N32!Own, N32!Drained, N32!Last, N32!Inside
<1>3. NestInv => NestInv'
  BY <1>1 DEF NestInv, NestType, NestAnnounced, Visible, N!Own, N!Drained, N!Last
<1>4. PairInv => PairInv'
  BY <1>1 DEF PairInv, PairType, PairReader, PairFlips, PairWait, PairPassed, Waited, Counted, NotCounted, Counting, P!Inside
<1>5. UNCHANGED Promised!gpvars
  BY <1>1 DEF Promised!gpvars, N32!Inside, P!Inside, N32!Syncing, P!Syncing
<1> QED BY <1>1, <1>2, <1>3, <1>4, <1>5 DEF IInv

\* Every step keeps the invariant, and maps to a step or a stutter.
LEMMA InvNext == IInv /\ [Next]_vars => IInv' /\ [Promised!Next]_(Promised!gpvars)
<1> SUFFICES ASSUME IInv, [Next]_vars PROVE IInv' /\ [Promised!Next]_(Promised!gpvars)
  OBVIOUS
<1>1. CASE Only32 /\ N32!Next
  <2>1. impl = "rcu_nest32" /\ impl' = impl
    BY <1>1 DEF Only32
  <2>2. Inv32 /\ Inv32' /\ Elapses(N32!Inside, N32!Inside', N32!Syncing, N32!Syncing')
    BY <1>1, <2>1, Step32 DEF IInv
  <2>3. preexisting \in [Threads -> SUBSET Threads] /\ preexisting' \in [Threads -> SUBSET Threads]
    BY <2>2 DEF Inv32, Type32
  <2>4. InsideOf = N32!Inside /\ InsideOf' = N32!Inside' /\ SyncingOf = N32!Syncing /\ SyncingOf' = N32!Syncing'
    BY <2>1 DEF InsideOf, SyncingOf
  <2>5. [Promised!Next]_(Promised!gpvars)
    BY <2>1, <2>2, <2>3, <2>4, ElapsesStep
  <2> QED BY <2>1, <2>2, <2>5 DEF IInv, Impls
<1>2. CASE OnlyNest /\ N!Next
  <2>1. impl = "rcu_nest" /\ impl' = impl
    BY <1>2 DEF OnlyNest
  <2>2. NestInv'
    BY <1>2, <2>1, NestStep DEF IInv
  <2>3. UNCHANGED Promised!gpvars
    BY <2>1 DEF Promised!gpvars
  <2> QED BY <2>1, <2>2, <2>3 DEF IInv, Impls
<1>3. CASE OnlyPairs /\ P!Next
  <2>1. impl = "rcu_rcpls" /\ impl' = impl
    BY <1>3 DEF OnlyPairs
  <2>2. PairInv /\ PairInv' /\ Elapses(P!Inside, P!Inside', P!Syncing, P!Syncing')
    BY <1>3, <2>1, PairStep DEF IInv
  <2>3. preexisting \in [Threads -> SUBSET Threads] /\ preexisting' \in [Threads -> SUBSET Threads]
    BY <2>2 DEF PairInv, PairType
  <2>4. InsideOf = P!Inside /\ InsideOf' = P!Inside' /\ SyncingOf = P!Syncing /\ SyncingOf' = P!Syncing'
    BY <2>1 DEF InsideOf, SyncingOf
  <2>5. [Promised!Next]_(Promised!gpvars)
    BY <2>1, <2>2, <2>3, <2>4, ElapsesStep
  <2> QED BY <2>1, <2>2, <2>5 DEF IInv, Impls
<1>4. CASE UNCHANGED vars
  BY <1>4, StutterStep
<1> QED BY <1>1, <1>2, <1>3, <1>4 DEF Next

\* The invariant holds at all times, in each of the three implementations.
THEOREM Invariance == Spec => []IInv
<1>1. Init => IInv
  BY InvInit
<1>2. IInv /\ [Next]_vars => IInv'
  BY InvNext
<1> QED BY <1>1, <1>2, PTL DEF Spec

\* AnnouncedWhileInside, for any number of threads, depth of nesting and word size: a nested section
\* of rcu_nest32.h and rcu_nest.h stays announced, under the phase or number it was entered with,
\* until its outermost rcu_read_unlock().
THEOREM Announced == Spec => []AnnouncedWhileInside
<1>1. IInv => AnnouncedWhileInside
  BY Shown32, NestShown DEF IInv, AnnouncedWhileInside
<1> QED BY <1>1, Invariance, PTL

\* synchronize_rcu() of rcu_nest32.c and of rcu_rcpls.c outlasts every critical section that was
\* under way when it was called, for any number of readers and updaters and on every way through
\* rcu_rcpls.c: two flips, one, or none.
THEOREM Refinement == Spec => ImplementsGracePeriod
<1>1. Init => Promised!Init
  BY InvInit
<1>2. IInv /\ [Next]_vars => [Promised!Next]_(Promised!gpvars)
  BY InvNext
<1> QED BY <1>1, <1>2, Invariance, PTL DEF Spec, ImplementsGracePeriod, Promised!Spec
=============================================================================
