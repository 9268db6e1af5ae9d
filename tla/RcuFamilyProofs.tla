-------------------------- MODULE RcuFamilyProofs --------------------------
(***************************************************************************)
(* synchronize_rcu() of every implementation in RcuFamily outlasts the     *)
(* critical sections under way at its call.                                *)
(*                                                                         *)
(* The implementations differ in what a reader announces and in what an    *)
(* updater waits for, and agree in the rest.  One invariant per family     *)
(* says what the updater can conclude from what it has looked at: all      *)
(* readers it has still to outlast lie ahead of its scan and show what it  *)
(* waits for, in every store that may still become visible.  A step of t   *)
(* is taken in two parts: what t does, and the ...Others lemma for what    *)
(* the other threads could rely on before and can rely on after.  What     *)
(* GracePeriod makes of the step follows from where t goes (Gp... below).  *)
(***************************************************************************)
EXTENDS RcuFamily, FiniteSetTheorems, SequenceTheorems, TLAPS

-----------------------------------------------------------------------------
\* What others may still read in the variable of t: what is visible now and what t has stored
Visible(t) == {reader[t]} \union {buffer[t][i] : i \in 1 .. Len(buffer[t])}

\* t has stored its announcement and not taken it back.
Announced == {"lock_mb", "reading", "nest_mb", "unnest_store", "unlock_load", "unlock_store"}

\* u is between the lock and the unlock of rcu_gp_lock.
Holding == {"sync_load", "sync_advance", "sync_wait", "sync_again", "sync_drop", "sync_unlock"}

Reading == {"reading", "nest_mb", "unnest_store", "qs_inner"}
Synchronizing == {"sync_lock", "sync_return"} \union Holding

Pairs == [0 .. 1 -> Int]
Values == IF impl \in {"rcpl", "srcu"} THEN Pairs ELSE Int
Dues == {<<>>} \union [Threads -> Int]
Locals == [nest : Nat, calls : Nat, idx : Int, snap : Int, old : Int, flip : {1, 2}, scan : 0 .. NR_THREADS,
           due : Dues, sig : {FALSE}]

\* Types
Types ==
  /\ ctr \in Int
  /\ mutex \in [0 .. NR_THREADS -> 0 .. NR_THREADS]
  /\ shared \in Pairs
  /\ reader \in [Threads -> Values]
  /\ buffer \in [Threads -> Seq(Values)]
  /\ loc \in [Threads -> Locals]

\* Only a thread in synchronize_rcu() has readers to outlast, and these are inside.
GpInv ==
  /\ preexisting \in [Threads -> SUBSET Threads]
  /\ \A u \in Threads : preexisting[u] \subseteq Inside /\ (u \notin Syncing => preexisting[u] = {})

\* None are left when synchronize_rcu() is about to return.
Outlasted == \A u \in Threads : pc[u] \in {"sync_unlock", "sync_return"} => preexisting[u] = {}

-----------------------------------------------------------------------------
ToyLocs == {"idle", "lock_store", "sync_lock", "sync_load", "sync_advance", "sync_wait", "sync_unlock", "sync_return"}
             \union Announced

\* A reader holds its lock; an updater has no reader to outlast whose lock it has had.
LockThread(t) ==
  /\ pc[t] = "reading" => mutex[ReaderLock(t)] = t
  /\ pc[t] \in {"idle", "reading"} => loc[t].scan = 0
  /\ pc[t] = "sync_lock" => loc[t].scan \in Threads /\ \A v \in preexisting[t] : v >= loc[t].scan

LockInv ==
  /\ pc \in [Threads -> {"idle", "reading", "sync_lock", "sync_return"}]
  /\ \A t \in Threads : LockThread(t)

\* The lock, the levels of nesting and the scan of the other implementations
ToyThread(t) ==
  /\ impl \notin Unlocked /\ pc[t] \in Holding => mutex[NoThread] = t
  /\ IF pc[t] \in Announced THEN loc[t].nest >= 1 /\ loc[t].nest <= loc[t].calls /\ loc[t].calls <= MaxNest
                            ELSE loc[t].nest = 0
  /\ pc[t] \in {"unlock_load", "unlock_store"} \/ (impl \notin Nestable /\ pc[t] \in Announced) => loc[t].nest = 1
  /\ pc[t] \in {"nest_mb", "unnest_store"} => impl \in Nestable
  /\ pc[t] = "unnest_store" => loc[t].nest >= 2
  /\ loc[t].scan \in Threads
  /\ pc[t] # "sync_wait" => loc[t].scan = 0
  /\ pc[t] = "sync_load" => impl = "atomicgp"
  /\ pc[t] = "sync_unlock" => impl \notin Unlocked

ToyCore ==
  /\ pc \in [Threads -> ToyLocs]
  /\ \A t \in Threads : ToyThread(t)

\* One number or one count per thread: what a thread inside shows, and what one to be outlasted shows
Scanned == {"rcl"} \union Numbered

Announces(x) ==
  CASE impl = "rcl"                    -> x >= 1
    [] impl \in {"rcu64", "atomicgp"}  -> x <= -ctr
    [] impl = "ts"                     -> x % 2 = 1 /\ x <= Odd(ctr)

Early(u, x) ==
  CASE impl = "rcl"      -> x >= 1
    [] impl = "rcu64"    -> x < -ctr
    [] impl = "atomicgp" -> x <= -loc[u].old
    [] impl = "ts"       -> x % 2 = 1 /\ x < loc[u].old

\* What t shows as a reader
ScanReader(t) ==
  /\ impl = "rcl" => Own(t) = loc[t].nest
  /\ pc[t] = "lock_store" =>
       /\ impl \in {"rcu64", "atomicgp"} => loc[t].snap >= ctr
       /\ impl = "ts" => loc[t].snap <= ctr
  /\ pc[t] = "lock_mb" => Announces(Own(t))
  /\ pc[t] \in Reading => \A x \in Visible(t) : Announces(x)

\* What t can rely on when it looks for readers
ScanWait(t) ==
  pc[t] = "sync_wait" \/ (impl = "atomicgp" /\ pc[t] = "sync_advance") =>
    \A v \in preexisting[t] : v >= loc[t].scan /\ \A x \in Visible(v) : Early(t, x)

ScanInv == \A t \in Threads : ScanReader(t) /\ ScanWait(t)

\* rcg: the levels of nesting that the common count stands for
Levels == {l \in Threads \X (1 .. MaxNest) : l[2] <= loc[l[1]].nest}
RcgInv == shared[0] = Cardinality(Levels)

\* rcpg and rcpl: who counts for index i
Counted(i) == {t \in Threads : pc[t] \in Announced /\ loc[t].idx = i}

\* The pair of t
Shown(t) == [i \in 0 .. 1 |-> IF pc[t] \in Announced /\ loc[t].idx = i THEN 1 ELSE 0]

CountThread(t) ==
  /\ loc[t].idx \in 0 .. 1
  /\ impl = "rcpl" => Own(t) = Shown(t)
  /\ pc[t] \in Reading => Drained(t)
  /\ pc[t] \notin {"sync_advance", "sync_wait", "sync_unlock", "sync_return"} => loc[t].flip = 1

\* After the first flip no reader to outlast has the index that was in use; after the second, none is left.
CountWait(t) ==
  /\ pc[t] = "sync_advance" /\ loc[t].flip = 2 => \A v \in preexisting[t] : loc[v].idx = ctr
  /\ pc[t] = "sync_wait" =>
       /\ loc[t].old = 1 - ctr
       /\ \A v \in preexisting[t] :
            IF loc[t].flip = 1 THEN v < loc[t].scan => loc[v].idx = ctr
                               ELSE v >= loc[t].scan /\ loc[v].idx = loc[t].old

CountInv ==
  /\ ctr \in 0 .. 1
  /\ impl = "rcpg" => \A i \in 0 .. 1 : shared[i] = Cardinality(Counted(i))
  /\ \A t \in Threads : CountThread(t) /\ CountWait(t)

ToyInv ==
  /\ ToyCore
  /\ impl \in Scanned => ScanInv
  /\ impl = "rcg" => RcgInv
  /\ impl \in Counting => CountInv

-----------------------------------------------------------------------------
QsLocs == {"idle", "qs_store", "qs_mb", "online", "reading", "qs_inner", "off_store", "off_mb",
           "sync_lock", "sync_advance", "sync_wait", "sync_unlock", "sync_return"}

\* The values of rcu_gp_ctr
Numbers == {QsStep * k : k \in Nat}

\* What a thread says that is online since some number
Online == {x \in Nat : \E m \in Numbers : \E r \in 1 .. QsStep - 1 : x = m + r /\ m <= ctr}

\* The same, for a number from before the last grace period
OnlineBefore == {x \in Nat : \E m \in Numbers : \E r \in 1 .. QsStep - 1 : x = m + r /\ m + QsStep <= ctr}

\* What t shows, and the copy that nest_qs keeps for itself
QsThread(t) ==
  /\ pc[t] \in Holding => mutex[NoThread] = t
  /\ loc[t].scan \in Threads
  /\ pc[t] # "sync_wait" => loc[t].scan = 0
  /\ pc[t] \in {"qs_store", "off_store"} => loc[t].snap \in Numbers /\ loc[t].snap <= ctr
  /\ pc[t] = "qs_mb" => Own(t) \in Online
  /\ pc[t] \in {"online", "reading", "qs_inner"} => Visible(t) \subseteq Online
  /\ pc[t] \in {"reading", "qs_inner"} =>
       /\ loc[t].idx \in Numbers /\ loc[t].idx <= ctr
       /\ loc[t].nest \in 1 .. QsStep - 1 /\ loc[t].nest <= loc[t].calls /\ loc[t].calls <= MaxNest

\* A reader to be outlasted shows a number from before the grace period.
QsWait(t) ==
  pc[t] = "sync_wait" =>
    \A v \in preexisting[t] :
      v >= loc[t].scan /\ loc[v].idx + QsStep <= ctr /\ Visible(v) \subseteq OnlineBefore

QsInv ==
  /\ pc \in [Threads -> QsLocs]
  /\ ctr \in Numbers
  /\ \A t \in Threads : QsThread(t) /\ QsWait(t)

-----------------------------------------------------------------------------
SrcuLocs == {"idle", "lock_store", "reading", "unlock_store"} \union Synchronizing

\* t has loaded the index.
Indexed == {t \in Threads : pc[t] \in {"lock_store", "reading", "unlock_store"}}

\* u has flipped the index and waits for those that have loaded it before.
Flipped == {"sync_again", "sync_wait"}

\* While nobody waits, all that have loaded the index have loaded the one in use.
OneIndex == (\A u \in Threads : pc[u] \notin Flipped) => \A t \in Indexed : loc[t].idx = ctr % 2

\* The pair of t: it counts for the index it has loaded.
SrcuShown(t) == [i \in 0 .. 1 |-> IF pc[t] \in {"reading", "unlock_store"} /\ loc[t].idx = i THEN 1 ELSE 0]

SrcuThread(t) ==
  /\ pc[t] \in Holding => mutex[NoThread] = t
  /\ loc[t].scan \in Threads
  /\ pc[t] # "sync_wait" => loc[t].scan = 0
  /\ loc[t].idx \in 0 .. 1
  /\ \A x \in Visible(t) : x[0] >= 0 /\ x[1] >= 0
  /\ Own(t) = SrcuShown(t)
  /\ pc[t] = "sync_drop" => preexisting[t] = {}

\* What the flips of others do for a caller that waits for the mutex
SrcuCall(t) ==
  pc[t] = "sync_lock" =>
    /\ loc[t].old <= ctr
    /\ loc[t].old + 1 <= ctr => \A v \in preexisting[t] : loc[v].idx = loc[t].old % 2
    /\ loc[t].old + 2 <= ctr => preexisting[t] = {}

\* The stores of v that the second grace period still has to see: those of its buffer and that of a section
Owed(v) == Len(buffer[v]) + (IF pc[v] = "lock_store" THEN 1 ELSE 0)

\* After the flip, those to outlast have the index from before; after a grace period their counts are visible,
\* and the sum has those that it has passed.
SrcuWait(t) ==
  /\ pc[t] \in Flipped =>
       /\ loc[t].old = 1 - (ctr % 2)
       /\ \A v \in preexisting[t] : loc[v].idx = loc[t].old
  /\ pc[t] = "sync_again" =>
       /\ loc[t].due \in [Threads -> Int]
       /\ \A v \in Indexed : loc[v].idx = loc[t].old => loc[t].due[v] >= Owed(v)
  /\ pc[t] = "sync_wait" =>
       /\ loc[t].snap >= 0
       /\ \A v \in Indexed : loc[v].idx = loc[t].old => Owed(v) = 0 /\ (v < loc[t].scan => loc[t].snap >= 1)

SrcuInv ==
  /\ pc \in [Threads -> SrcuLocs]
  /\ OneIndex
  /\ \A t \in Threads : SrcuThread(t) /\ SrcuCall(t) /\ SrcuWait(t)

-----------------------------------------------------------------------------
\* The inductive invariant of those that promise a grace period.
IInv ==
  ~ Promising \/
  (/\ Types /\ GpInv /\ Outlasted
   /\ impl \in ToyImpls \union QsImpls \union SrcuImpls
   /\ impl \in ByLock => LockInv
   /\ impl \in ToyImpls \ ByLock => ToyInv
   /\ impl \in QsImpls => QsInv
   /\ impl \in SrcuImpls => SrcuInv)

-----------------------------------------------------------------------------
\* rcu_ts: what | 0x1 and & ~0x1 make of a reading, and of two that are 2 or more apart
LEMMA BitIs ==
  ASSUME NEW x \in Int, NEW y \in Int
  PROVE  /\ Even(x) \in Int /\ Odd(x) \in Int /\ Odd(x) % 2 = 1
         /\ x <= y => Odd(x) <= Odd(y)
         /\ x + 2 <= y => Odd(x) < Even(y)
<1> DEFINE p == x \div 2
           q == y \div 2
<1>1. p \in Int /\ q \in Int /\ x % 2 \in 0 .. 1 /\ y % 2 \in 0 .. 1 /\ x = 2 * p + (x % 2) /\ y = 2 * q + (y % 2)
  OBVIOUS
<1> HIDE DEF p, q
<1>2. Even(x) = 2 * p /\ Even(y) = 2 * q /\ Odd(x) = 2 * p + 1 /\ Odd(y) = 2 * q + 1
  BY <1>1 DEF Even, Odd
<1>3. (2 * p + 1) % 2 = 1
  BY <1>1
<1> QED BY <1>1, <1>2, <1>3

\* What the assumption says about the threads
LEMMA Setting ==
  /\ NR_THREADS \in Nat \ {0} /\ MaxNest \in Nat \ {0} /\ MaxGP \in Nat
  /\ Threads = 0 .. NR_THREADS - 1 /\ 0 \in Threads /\ NoThread = NR_THREADS /\ NoThread \notin Threads
  /\ \A t \in Threads : t \in Nat /\ t < NR_THREADS /\ t \in 0 .. NR_THREADS
  /\ \A t \in Threads : t # NR_THREADS - 1 => t + 1 \in Threads
  BY RcuBaseAssumption DEF Threads, NoThread

\* What is left of a store buffer when its first store drains
LEMMA TailIs ==
  ASSUME NEW S, NEW s \in Seq(S), s # <<>>
  PROVE  /\ Len(s) \in Nat \ {0} /\ 1 \in DOMAIN s /\ Len(s) \in DOMAIN s
         /\ Head(s) = s[1] /\ Head(s) \in S /\ s[Len(s)] \in S
         /\ Tail(s) \in Seq(S) /\ Len(Tail(s)) = Len(s) - 1
         /\ \A i \in DOMAIN Tail(s) : i + 1 \in DOMAIN s /\ Tail(s)[i] = s[i + 1]
         /\ IF Tail(s) = <<>> THEN Len(s) = 1 ELSE Tail(s)[Len(s) - 1] = s[Len(s)]
<1>1. /\ Len(s) \in Nat \ {0} /\ 1 \in DOMAIN s /\ Len(s) \in DOMAIN s
      /\ Head(s) = s[1] /\ Head(s) \in S /\ s[Len(s)] \in S
      /\ Tail(s) \in Seq(S) /\ Len(Tail(s)) = Len(s) - 1
  OBVIOUS
<1>2. \A i \in DOMAIN Tail(s) : i + 1 \in DOMAIN s /\ Tail(s)[i] = s[i + 1]
  OBVIOUS
<1>3. CASE Tail(s) = <<>>
  <2>1. Len(<<>>) = 0
    BY EmptySeq
  <2> QED BY <1>1, <1>2, <1>3, <2>1
<1>4. CASE Tail(s) # <<>>
  <2>1. Len(Tail(s)) \in Nat \ {0}
    BY <1>1, <1>4, EmptySeq
  <2>2. Len(s) - 1 \in DOMAIN Tail(s)
    BY <1>1, <2>1
  <2>3. Tail(s)[Len(s) - 1] = s[(Len(s) - 1) + 1] /\ (Len(s) - 1) + 1 = Len(s)
    BY <1>1, <1>2, <2>2
  <2> QED BY <1>1, <1>2, <1>4, <2>3
<1> QED BY <1>3, <1>4

\* A thread reads what it has stored last; once its buffer is empty, so do the others.
LEMMA OwnIs ==
  ASSUME Types, NEW t \in Threads
  PROVE  /\ Own(t) \in Values /\ Own(t) \in Visible(t) /\ reader[t] \in Visible(t)
         /\ Drained(t) => Own(t) = reader[t] /\ Visible(t) = {reader[t]} /\ Len(buffer[t]) = 0
         /\ Visible(t) \subseteq Values
<1>1. buffer[t] \in Seq(Values) /\ reader[t] \in Values
  BY DEF Types
<1>2. /\ buffer[t] # <<>> => Len(buffer[t]) \in 1 .. Len(buffer[t])
      /\ \A i \in 1 .. Len(buffer[t]) : buffer[t][i] \in Values
      /\ Len(<<>>) = 0
  BY <1>1, EmptySeq
<1>3. Drained(t) => Visible(t) = {reader[t]} /\ Len(buffer[t]) = 0
  <2> SUFFICES ASSUME buffer[t] = <<>> PROVE Visible(t) = {reader[t]} /\ Len(buffer[t]) = 0
    BY DEF Drained
  <2>1. 1 .. 0 = {}
    OBVIOUS
  <2> QED BY <1>2, <2>1 DEF Visible
<1>4. Visible(t) \subseteq Values
  BY <1>1, <1>2 DEF Visible
<1>5. Own(t) \in Visible(t) /\ reader[t] \in Visible(t) /\ (Drained(t) => Own(t) = reader[t])
  BY <1>2 DEF Own, Drained, Last, Visible
<1> QED BY <1>3, <1>4, <1>5

\* A step leaves the stores of e alone.
Unread(e) == reader'[e] = reader[e] /\ buffer'[e] = buffer[e]

\* What t shows depends on its own stores only.
LEMMA UnreadIs ==
  ASSUME NEW e, Unread(e)
  PROVE  Own(e)' = Own(e) /\ Visible(e)' = Visible(e) /\ Drained(e)' = Drained(e)
  BY DEF Own, Drained, Last, Visible, Unread

\* A store is what its thread reads from then on, and others in a while.
LEMMA StoreIs ==
  ASSUME Types, NEW t \in Threads, NEW x \in Values, Store(t, x), UNCHANGED reader
  PROVE  /\ buffer' \in [Threads -> Seq(Values)]
         /\ Own(t)' = x /\ Visible(t)' = Visible(t) \union {x}
         /\ Len(buffer'[t]) = Len(buffer[t]) + 1
         /\ \A e \in Threads \ {t} : Unread(e)
<1>1. buffer[t] \in Seq(Values) /\ buffer' = [buffer EXCEPT ![t] = Append(buffer[t], x)]
  BY DEF Types, Store
<1>2. buffer'[t] = Append(buffer[t], x) /\ \A e \in Threads \ {t} : buffer'[e] = buffer[e]
  BY <1>1 DEF Types
<1>3. Append(buffer[t], x) \in Seq(Values) /\ Append(buffer[t], x) # <<>>
      /\ Len(Append(buffer[t], x)) = Len(buffer[t]) + 1 /\ Append(buffer[t], x)[Len(buffer[t]) + 1] = x
      /\ Len(buffer[t]) \in Nat
  BY <1>1
<1>4. \A i \in 1 .. Len(buffer[t]) : Append(buffer[t], x)[i] = buffer[t][i]
  BY <1>1
<1>5. buffer' \in [Threads -> Seq(Values)]
  BY <1>1, <1>3 DEF Types
<1>6. Own(t)' = x
  BY <1>2, <1>3 DEF Own, Drained, Last
<1>7. Visible(t)' = Visible(t) \union {x}
  <2>1. \A i : i \in 1 .. Len(buffer'[t]) <=> i \in 1 .. Len(buffer[t]) \/ i = Len(buffer[t]) + 1
    BY <1>2, <1>3
  <2> QED BY <1>2, <1>3, <1>4, <2>1 DEF Visible
<1> QED BY <1>2, <1>3, <1>5, <1>6, <1>7 DEF Unread

\* The oldest store becomes visible.
Drains(t) ==
  /\ ~ Drained(t)
  /\ reader' = [reader EXCEPT ![t] = Head(buffer[t])]
  /\ buffer' = [buffer EXCEPT ![t] = Tail(@)]

\* Draining the oldest store shows nothing that was not visible, and leaves what t itself reads.
LEMMA DrainIs ==
  ASSUME Types, NEW t \in Threads, Drains(t)
  PROVE  /\ buffer' \in [Threads -> Seq(Values)] /\ reader' \in [Threads -> Values]
         /\ Own(t)' = Own(t) /\ Visible(t)' \subseteq Visible(t)
         /\ Len(buffer[t]) \in Nat \ {0} /\ Len(buffer'[t]) = Len(buffer[t]) - 1
         /\ \A e \in Threads \ {t} : Unread(e)
<1>1. /\ buffer[t] # <<>> /\ buffer[t] \in Seq(Values)
      /\ reader' = [reader EXCEPT ![t] = Head(buffer[t])]
      /\ buffer' = [buffer EXCEPT ![t] = Tail(buffer[t])]
  BY DEF Types, Drains, Drained
<1>2. /\ Len(buffer[t]) \in Nat \ {0} /\ 1 \in DOMAIN buffer[t] /\ Len(buffer[t]) \in DOMAIN buffer[t]
      /\ Head(buffer[t]) = buffer[t][1] /\ Head(buffer[t]) \in Values
      /\ Tail(buffer[t]) \in Seq(Values) /\ Len(Tail(buffer[t])) = Len(buffer[t]) - 1
      /\ IF Tail(buffer[t]) = <<>> THEN Len(buffer[t]) = 1
         ELSE Tail(buffer[t])[Len(buffer[t]) - 1] = buffer[t][Len(buffer[t])]
  BY <1>1, TailIs
<1>3. \A i \in DOMAIN Tail(buffer[t]) : i + 1 \in DOMAIN buffer[t] /\ Tail(buffer[t])[i] = buffer[t][i + 1]
  BY <1>1, TailIs
<1>4. buffer'[t] = Tail(buffer[t]) /\ \A e \in Threads \ {t} : Unread(e)
  BY <1>1 DEF Types, Unread
<1>5. buffer' \in [Threads -> Seq(Values)] /\ reader' \in [Threads -> Values] /\ reader'[t] = buffer[t][1]
  BY <1>1, <1>2 DEF Types
<1>6. Own(t)' = Own(t)
  BY <1>1, <1>2, <1>4, <1>5 DEF Own, Drained, Last
<1>7. Visible(t)' \subseteq Visible(t)
  <2>1. DOMAIN Tail(buffer[t]) = 1 .. Len(Tail(buffer[t])) /\ DOMAIN buffer[t] = 1 .. Len(buffer[t])
    BY <1>1, <1>2
  <2> QED BY <1>2, <1>3, <1>4, <1>5, <2>1 DEF Visible
<1> QED BY <1>2, <1>4, <1>5, <1>6, <1>7

-----------------------------------------------------------------------------
\* t goes to x.
Moves(t, x) == pc' = [pc EXCEPT ![t] = x]

\* Who is inside and who synchronizes after t has gone to x
LEMMA MovesIs ==
  ASSUME DOMAIN pc = Threads, NEW t \in Threads, NEW x, Moves(t, x)
  PROVE  /\ Inside' = IF x \in Reading THEN Inside \union {t} ELSE Inside \ {t}
         /\ Syncing' = IF x \in Synchronizing THEN Syncing \union {t} ELSE Syncing \ {t}
         /\ DOMAIN pc' = Threads /\ pc'[t] = x /\ \A e \in Threads \ {t} : pc'[e] = pc[e]
<1>1. pc'[t] = x /\ \A e \in Threads \ {t} : pc'[e] = pc[e]
  BY DEF Moves
<1>2. Inside' = IF x \in Reading THEN Inside \union {t} ELSE Inside \ {t}
  BY <1>1 DEF Inside, Reading
<1>3. Syncing' = IF x \in Synchronizing THEN Syncing \union {t} ELSE Syncing \ {t}
  BY <1>1 DEF Syncing, Synchronizing, Holding
<1> QED BY <1>1, <1>2, <1>3 DEF Moves

\* What the abstract specification allows, with GpInv
GpStep == GpInv' /\ [GP!Next]_(GP!gpvars)

\* Nobody enters or leaves anything.
LEMMA GpQuiet ==
  ASSUME GpInv, DOMAIN pc = Threads, NEW t \in Threads, NEW x, Moves(t, x), UNCHANGED preexisting,
         x \in Reading <=> pc[t] \in Reading, x \in Synchronizing <=> pc[t] \in Synchronizing
  PROVE  GpStep
<1>1. Inside' = Inside /\ Syncing' = Syncing
  BY MovesIs DEF Inside, Syncing, Reading, Synchronizing, Holding
<1> QED BY <1>1 DEF GpStep, GpInv, GP!gpvars

\* The outermost rcu_read_lock() returns.
LEMMA GpEnter ==
  ASSUME GpInv, DOMAIN pc = Threads, NEW t \in Threads, NEW x, Moves(t, x), UNCHANGED preexisting,
         x \in Reading, x \notin Synchronizing, pc[t] \notin Reading \union Synchronizing
  PROVE  GpStep
<1>1. Inside' = Inside \union {t} /\ Syncing' = Syncing /\ t \notin Inside /\ t \notin Syncing
  BY MovesIs DEF Inside, Syncing, Reading, Synchronizing, Holding
<1>2. GP!ReadLock(t)
  BY <1>1 DEF GP!ReadLock
<1> QED BY <1>1, <1>2 DEF GpStep, GpInv, GP!gpvars, GP!Next

\* The outermost rcu_read_unlock() is called.
LEMMA GpLeave ==
  ASSUME GpInv, DOMAIN pc = Threads, NEW t \in Threads, NEW x, Moves(t, x), Outlast(t),
         x \notin Reading \union Synchronizing, pc[t] \in Reading
  PROVE  GpStep
<1>1. Inside' = Inside \ {t} /\ Syncing' = Syncing /\ t \in Inside
  BY MovesIs DEF Inside, Syncing, Reading, Synchronizing, Holding
<1>2. GP!ReadUnlock(t)
  BY <1>1 DEF GP!ReadUnlock, Outlast
<1>3. GpInv'
  BY <1>1 DEF GpInv, Outlast
<1> QED BY <1>2, <1>3 DEF GpStep, GP!Next

\* synchronize_rcu() is called.
LEMMA GpCall ==
  ASSUME GpInv, DOMAIN pc = Threads, NEW u \in Threads, NEW x, Moves(u, x),
         preexisting' = [preexisting EXCEPT ![u] = Inside],
         x \in Synchronizing \ Reading, pc[u] \notin Reading \union Synchronizing
  PROVE  GpStep
<1>1. Inside' = Inside /\ Syncing' = Syncing \union {u} /\ u \notin Inside /\ u \notin Syncing /\ Inside \subseteq Threads
  BY MovesIs DEF Inside, Syncing, Reading, Synchronizing, Holding
<1>2. GP!SynchronizeCall(u)
  BY <1>1 DEF GP!SynchronizeCall
<1>3. GpInv'
  BY <1>1 DEF GpInv
<1> QED BY <1>2, <1>3 DEF GpStep, GP!Next

\* synchronize_rcu() returns.
LEMMA GpReturn ==
  ASSUME GpInv, DOMAIN pc = Threads, NEW u \in Threads, NEW x, Moves(u, x), UNCHANGED preexisting,
         x \notin Reading \union Synchronizing, pc[u] \in Synchronizing, preexisting[u] = {}
  PROVE  GpStep
<1>1. Inside' = Inside /\ Syncing' = Syncing \ {u} /\ u \in Syncing
  BY MovesIs DEF Inside, Syncing, Reading, Synchronizing, Holding
<1>2. GP!SynchronizeReturn(u)
  BY <1>1 DEF GP!SynchronizeReturn
<1>3. GpInv'
  BY <1>1 DEF GpInv
<1> QED BY <1>2, <1>3 DEF GpStep, GP!Next

\* pc does not change.
LEMMA GpStays ==
  ASSUME GpInv, UNCHANGED <<pc, preexisting>>
  PROVE  GpStep
  BY DEF GpStep, GpInv, GP!gpvars, Inside, Syncing

-----------------------------------------------------------------------------
\* A step of t changes nothing that belongs to another thread.
Frame(t) ==
  \A e \in Threads \ {t} : pc'[e] = pc[e] /\ loc'[e] = loc[e] /\ Unread(e)

\* A function that returns leaves the registers as they were at first.
LEMMA ForgetIs ==
  ASSUME Types, NEW t \in Threads, Forget(t)
  PROVE  loc' \in [Threads -> Locals] /\ loc'[t] = Registers /\ \A e \in Threads \ {t} : loc'[e] = loc[e]
<1>1. Registers \in Locals
  BY Setting DEF Registers, Locals, Dues
<1>2. loc'[t] = Registers /\ \A e \in Threads \ {t} : loc'[e] = loc[e]
  BY DEF Registers, Locals, Forget, Types
<1>3. loc' = [loc EXCEPT ![t] = loc'[t]]
  BY DEF Forget, Types
<1> QED BY <1>1, <1>2, <1>3 DEF Types

\* What Load() does to the registers of t
LEMMA ToyLoad ==
  ASSUME Types, impl \in ToyImpls, NEW t \in Threads, Load(t)
  PROVE  /\ ctr' \in Int /\ loc' \in [Threads -> Locals]
         /\ \A e \in Threads \ {t} : loc'[e] = loc[e]
         /\ loc'[t].nest = loc[t].nest /\ loc'[t].calls = loc[t].calls /\ loc'[t].scan = loc[t].scan
         /\ loc'[t].old = loc[t].old /\ loc'[t].flip = loc[t].flip
         /\ impl \in Counting \union {"rcl", "rcg"} => ctr' = ctr /\ loc'[t].idx = ctr
         /\ impl \in {"rcu64", "atomicgp"} => ctr' = ctr /\ loc'[t].snap = ctr
         /\ impl = "ts" => ctr' >= ctr /\ loc'[t].snap = ctr'
<1>1. CASE impl \in Counting \union {"rcl", "rcg"}
  <2>1. loc' = [loc EXCEPT ![t].idx = ctr] /\ ctr' = ctr
    BY <1>1 DEF Load, Counting
  <2> QED BY <1>1, <2>1 DEF Types, Locals, Counting
<1>2. CASE impl \in {"rcu64", "atomicgp"}
  <2>1. loc' = [loc EXCEPT ![t].snap = ctr] /\ ctr' = ctr
    BY <1>2 DEF Load, Counting
  <2> QED BY <1>2, <2>1 DEF Types, Locals, Counting
<1>3. CASE impl = "ts"
  <2> DEFINE c == ctr'
  <2>1. loc' = [loc EXCEPT ![t].snap = c] /\ ctr' = c
    BY <1>3 DEF Load, Counting
  <2>2. c \in Int /\ c >= ctr
    BY <1>3 DEF Types, Load, Counting
  <2> HIDE DEF c
  <2>3. loc' \in [Threads -> Locals]
    BY <2>1, <2>2 DEF Types, Locals
  <2>4. /\ \A e \in Threads \ {t} : loc'[e] = loc[e]
        /\ loc'[t].nest = loc[t].nest /\ loc'[t].calls = loc[t].calls /\ loc'[t].scan = loc[t].scan
        /\ loc'[t].old = loc[t].old /\ loc'[t].flip = loc[t].flip /\ loc'[t].snap = c
    BY <2>1 DEF Types, Locals
  <2> QED BY <1>3, <2>1, <2>2, <2>3, <2>4 DEF Counting
<1>4. impl \in Counting \union {"rcl", "rcg"} \union {"rcu64", "atomicgp", "ts"}
  BY DEF Load, Counting
<1> QED BY <1>1, <1>2, <1>3, <1>4

\* An announcement: a store of t, or a change of the common counts
Writes(t) == UNCHANGED buffer \/ \E x \in Values : Store(t, x)

\* An announcement leaves the buffers of the others alone.
LEMMA WritesIs ==
  ASSUME Types, NEW t \in Threads, Writes(t), UNCHANGED reader
  PROVE  buffer' \in [Threads -> Seq(Values)] /\ \A e \in Threads \ {t} : Unread(e)
<1>1. CASE UNCHANGED buffer
  BY <1>1 DEF Types, Unread
<1>2. ASSUME NEW x \in Values, Store(t, x) PROVE buffer' \in [Threads -> Seq(Values)] /\ \A e \in Threads \ {t} : Unread(e)
  BY <1>2, StoreIs
<1> QED BY <1>1, <1>2 DEF Writes

\* A count of a pair changes.
LEMMA PairPlus ==
  ASSUME NEW p \in Pairs, NEW i \in 0 .. 1, NEW d \in Int
  PROVE  LET q == [p EXCEPT ![i] = @ + d]
         IN  q \in Pairs /\ q[i] = p[i] + d /\ \A j \in 0 .. 1 : j # i => q[j] = p[j]
<1> DEFINE x == p[i] + d
           q == [p EXCEPT ![i] = x]
<1>1. x \in Int
  BY DEF Pairs
<1> HIDE DEF x
<1>2. q \in Pairs /\ q[i] = x /\ \A j \in 0 .. 1 : j # i => q[j] = p[j]
  BY <1>1 DEF Pairs
<1> QED BY <1>2 DEF x

\* The announcements keep the types.
LEMMA Announcing ==
  ASSUME Types, impl \in ToyImpls, NEW t \in Threads, NEW d \in Int, UNCHANGED reader,
         impl \in Counting => loc[t].idx \in 0 .. 1,
         \/ rcl_count(t, d) \/ rcg_count(d) \/ rcpg_count(t, d) \/ rcpl_count(t, d)
         \/ rcu64_announce(t) \/ ts_announce(t) \/ rcu64_retract(t) \/ ts_retract(t)
         \/ (impl \in Counting /\ UNCHANGED <<shared, buffer>>)
  PROVE  shared' \in Pairs /\ Writes(t)
<1>1. Own(t) \in Values
  BY OwnIs
<1>2. loc[t] \in Locals
  BY DEF Types
<1>3. CASE impl = "rcl"
  <2>1. Values = Int
    BY <1>3 DEF Values
  <2>2. Store(t, Own(t) + d) /\ Own(t) + d \in Int /\ UNCHANGED shared
    BY <1>1, <1>3, <2>1 DEF rcl_count, rcg_count, rcpg_count, rcpl_count, rcu64_announce, ts_announce, rcu64_retract,
                       ts_retract, Counting
  <2> QED BY <2>1, <2>2 DEF Writes, Types
<1>4. CASE impl = "rcg"
  <2>1. shared' = [shared EXCEPT ![0] = @ + d] /\ UNCHANGED buffer
    BY <1>4 DEF rcl_count, rcg_count, rcpg_count, rcpl_count, rcu64_announce, ts_announce, rcu64_retract,
                       ts_retract, Counting
  <2> QED BY <2>1 DEF Writes, Types, Pairs
<1>5. CASE impl = "rcpg"
  <2>1. shared' = [shared EXCEPT ![loc[t].idx] = @ + d] \/ UNCHANGED shared
    BY <1>5 DEF rcl_count, rcg_count, rcpg_count, rcpl_count, rcu64_announce, ts_announce, rcu64_retract,
                       ts_retract, Counting
  <2>2. UNCHANGED buffer
    BY <1>5 DEF rcl_count, rcg_count, rcpg_count, rcpl_count, rcu64_announce, ts_announce, rcu64_retract,
                       ts_retract, Counting
  <2> QED BY <2>1, <2>2 DEF Writes, Types, Pairs
<1>6. CASE impl = "rcpl"
  <2>1. Values = Pairs
    BY <1>6 DEF Values
  <2>2. UNCHANGED shared /\ (UNCHANGED buffer \/ Store(t, [Own(t) EXCEPT ![loc[t].idx] = @ + d]))
    BY <1>6 DEF rcl_count, rcg_count, rcpg_count, rcpl_count, rcu64_announce, ts_announce, rcu64_retract,
                       ts_retract, Counting
  <2>3. [Own(t) EXCEPT ![loc[t].idx] = @ + d] \in Pairs
    BY <1>1, <1>6, <2>1, PairPlus DEF Counting
  <2> QED BY <2>1, <2>2, <2>3 DEF Writes, Types
<1>7. CASE impl \in {"rcu64", "atomicgp", "ts"}
  <2>1. Values = Int
    BY <1>7 DEF Values
  <2>2. UNCHANGED shared /\ \E x \in {loc[t].snap, Odd(loc[t].snap), Even(loc[t].snap), -loc[t].snap} : Store(t, x)
    BY <1>7 DEF rcl_count, rcg_count, rcpg_count, rcpl_count, rcu64_announce, ts_announce, rcu64_retract,
                       ts_retract, Counting
  <2>3. {loc[t].snap, Odd(loc[t].snap), Even(loc[t].snap), -loc[t].snap} \subseteq Int
    <3>1. loc[t].snap \in Int
      BY <1>2 DEF Locals
    <3> QED BY <3>1, BitIs
  <2> QED BY <2>1, <2>2, <2>3 DEF Writes, Types
<1>8. impl \in {"rcl", "rcg", "rcpg", "rcpl", "rcu64", "atomicgp", "ts"}
  BY DEF rcl_count, rcg_count, rcpg_count, rcpl_count, rcu64_announce, ts_announce, rcu64_retract,
                       ts_retract, Counting
<1> QED BY <1>3, <1>4, <1>5, <1>6, <1>7, <1>8

\* The steps of the implementations that announce readers, without those by locks
ToySteps(t) ==
  \/ ToyReadLockLoad(t) \/ ReadLockNested(t) \/ ToyReadLockStore(t) \/ ReadLockMb(t)
  \/ ReadUnlockMb(t) \/ ReadUnlockLoad(t) \/ ToyReadUnlockStore(t)
  \/ SyncCall(t) \/ ToySyncLock(t) \/ atomicgp_load(t) \/ ToySyncAdvance(t) \/ ToySyncWait(t)
  \/ SyncUnlock(t) \/ SyncReturn(t) \/ DrainStore(t)

\* Where a thread is in these implementations
Toys == impl \in ToyImpls \ ByLock

ToyAssumed == Toys /\ Types /\ GpInv /\ Outlasted /\ ToyCore /\ (impl \in Counting => \A t \in Threads : loc[t].idx \in 0 .. 1)

\* What every step does besides its announcement
ToyKept(t) == Types' /\ Frame(t) /\ ToyCore' /\ GpStep

\* What a step of t leaves of the others: locks, nesting and scans
LEMMA ToyOthers ==
  ASSUME ToyAssumed, NEW t \in Threads, Frame(t), UNCHANGED impl, NEW x \in ToyLocs, Moves(t, x),
         mutex'[NoThread] = mutex[NoThread] \/ mutex[NoThread] \in {t, NoThread}, ToyThread(t)'
  PROVE  ToyCore'
<1>1. pc' \in [Threads -> ToyLocs]
  BY DEF ToyAssumed, ToyCore, Moves
<1>2. ASSUME NEW e \in Threads \ {t} PROVE ToyThread(e)'
  <2>1. ToyThread(e) /\ pc'[e] = pc[e] /\ loc'[e] = loc[e] /\ e # NoThread
    BY Setting DEF ToyAssumed, ToyCore, Frame
  <2>2. impl \notin Unlocked /\ pc[e] \in Holding => mutex'[NoThread] = e
    BY <2>1 DEF ToyThread
  <2> QED BY <2>1, <2>2 DEF ToyThread
<1> QED BY <1>1, <1>2 DEF ToyCore

\* rcu_read_lock() loads the index or the number.
LEMMA ToyReadLockLoadKeeps ==
  ASSUME ToyAssumed, NEW t \in Threads, ToyReadLockLoad(t)
  PROVE  ToyKept(t)
<1>1. /\ Load(t) /\ pc[t] = "idle" /\ Moves(t, "lock_store") /\ UNCHANGED <<impl, mutex, shared, reader, buffer, preexisting>>
      /\ ToyThread(t) /\ impl \in ToyImpls
  BY DEF ToyReadLockLoad, Goto, Moves, ToyAssumed, Toys, ToyCore
<1>2. /\ ctr' \in Int /\ loc' \in [Threads -> Locals]
      /\ \A e \in Threads \ {t} : loc'[e] = loc[e]
      /\ loc'[t].nest = loc[t].nest /\ loc'[t].calls = loc[t].calls /\ loc'[t].scan = loc[t].scan
  BY <1>1, ToyLoad DEF ToyAssumed
<1>3. Types' /\ Frame(t)
  BY <1>1, <1>2 DEF Types, ToyAssumed, Frame, Unread, Moves, ToyCore, Values
<1>4. pc'[t] = "lock_store" /\ DOMAIN pc = Threads
  BY <1>1 DEF Moves, ToyAssumed, ToyCore
<1>5. ToyThread(t)'
  BY <1>1, <1>2, <1>4 DEF ToyThread, Announced, Holding
<1>6. ToyCore'
  BY <1>1, <1>3, <1>5, ToyOthers DEF ToyLocs
<1>7. GpStep
  BY <1>1, <1>4, GpQuiet DEF ToyAssumed, Reading, Synchronizing, Holding
<1> QED BY <1>3, <1>6, <1>7 DEF ToyKept

\* It announces the reader.
LEMMA ToyReadLockStoreKeeps ==
  ASSUME ToyAssumed, NEW t \in Threads, ToyReadLockStore(t)
  PROVE  ToyKept(t)
<1>1. /\ pc[t] = "lock_store" /\ Moves(t, "lock_mb") /\ UNCHANGED <<impl, ctr, mutex, reader, preexisting>>
      /\ loc' = [loc EXCEPT ![t].nest = 1, ![t].calls = 1, ![t].snap = 0]
      /\ ToyThread(t) /\ impl \in ToyImpls /\ loc[t].scan = 0
  BY DEF ToyReadLockStore, Goto, Moves, ToyAssumed, Toys, ToyCore, ToyThread
<1>2. shared' \in Pairs /\ Writes(t)
  <2>1. 1 \in Int
    OBVIOUS
  <2> QED BY <1>1, <2>1, Announcing DEF ToyReadLockStore, ToyAssumed
<1>3. /\ loc' \in [Threads -> Locals] /\ \A e \in Threads \ {t} : loc'[e] = loc[e]
      /\ loc'[t].nest = 1 /\ loc'[t].calls = 1 /\ loc'[t].scan = loc[t].scan
  <2>1. loc' \in [Threads -> Locals]
    <3>1. ASSUME NEW r \in Locals, NEW a \in Nat, NEW b \in Nat, NEW c \in Int
          PROVE  [r EXCEPT !.nest = a, !.calls = b, !.snap = c] \in Locals
      BY DEF Locals
    <3>2. 1 \in Nat /\ 0 \in Int /\ loc[t] \in Locals
      BY DEF ToyAssumed, Types
    <3>3. [loc[t] EXCEPT !.nest = 1, !.calls = 1, !.snap = 0] \in Locals
      BY <3>1, <3>2
    <3>4. loc' = [loc EXCEPT ![t] = [loc[t] EXCEPT !.nest = 1, !.calls = 1, !.snap = 0]]
      BY <1>1
    <3> QED BY <3>3, <3>4 DEF ToyAssumed, Types
  <2>2. \A e \in Threads \ {t} : loc'[e] = loc[e]
    BY <1>1 DEF ToyAssumed, Types
  <2>3. loc'[t].nest = 1 /\ loc'[t].calls = 1 /\ loc'[t].scan = loc[t].scan
    BY <1>1 DEF ToyAssumed, Types, Locals
  <2> QED BY <2>1, <2>2, <2>3
<1>4. Types' /\ Frame(t)
  BY <1>1, <1>2, <1>3, WritesIs DEF Types, ToyAssumed, Frame, Unread, Moves, ToyCore, Values
<1>5. pc'[t] = "lock_mb" /\ DOMAIN pc = Threads
  BY <1>1 DEF Moves, ToyAssumed, ToyCore
<1>6. ToyThread(t)'
  BY <1>1, <1>3, <1>5, Setting DEF ToyThread, Announced, Holding
<1>7. ToyCore'
  BY <1>1, <1>4, <1>6, ToyOthers DEF ToyLocs, Announced
<1>8. GpStep
  BY <1>1, <1>5, GpQuiet DEF ToyAssumed, Reading, Synchronizing, Holding
<1> QED BY <1>4, <1>7, <1>8 DEF ToyKept

\* A nested rcu_read_lock() counts its level.
LEMMA ReadLockNestedKeeps ==
  ASSUME ToyAssumed, NEW t \in Threads, ReadLockNested(t)
  PROVE  ToyKept(t)
<1>1. /\ pc[t] = "reading" /\ Moves(t, "nest_mb") /\ UNCHANGED <<impl, ctr, mutex, reader, preexisting>>
      /\ loc' = [loc EXCEPT ![t].nest = @ + 1, ![t].calls = @ + 1] /\ loc[t].calls < MaxNest
      /\ ToyThread(t) /\ impl \in ToyImpls /\ impl \in Nestable
  BY DEF ReadLockNested, Goto, Moves, ToyAssumed, Toys, ToyCore
<1>2. shared' \in Pairs /\ Writes(t)
  <2>1. 1 \in Int
    OBVIOUS
  <2> QED BY <1>1, <2>1, Announcing DEF ReadLockNested, ToyAssumed
<1>3. /\ loc' \in [Threads -> Locals] /\ \A e \in Threads \ {t} : loc'[e] = loc[e]
      /\ loc'[t].nest = loc[t].nest + 1 /\ loc'[t].calls = loc[t].calls + 1 /\ loc'[t].scan = loc[t].scan
      /\ loc[t].nest \in Nat /\ loc[t].calls \in Nat
  <2>1. loc[t].nest \in Nat /\ loc[t].calls \in Nat
    BY DEF ToyAssumed, Types, Locals
  <2>2. loc[t].nest + 1 \in Nat /\ loc[t].calls + 1 \in Nat
    BY <2>1
  <2>3. loc' \in [Threads -> Locals]
    BY <1>1, <2>2 DEF ToyAssumed, Types, Locals
  <2>4. \A e \in Threads \ {t} : loc'[e] = loc[e]
    BY <1>1 DEF ToyAssumed, Types
  <2>5. loc'[t].nest = loc[t].nest + 1 /\ loc'[t].calls = loc[t].calls + 1 /\ loc'[t].scan = loc[t].scan
    BY <1>1 DEF ToyAssumed, Types, Locals
  <2> QED BY <2>1, <2>3, <2>4, <2>5
<1>4. Types' /\ Frame(t)
  BY <1>1, <1>2, <1>3, WritesIs DEF Types, ToyAssumed, Frame, Unread, Moves, ToyCore, Values
<1>5. pc'[t] = "nest_mb" /\ DOMAIN pc = Threads
  BY <1>1 DEF Moves, ToyAssumed, ToyCore
<1>6. ToyThread(t)'
  BY <1>1, <1>3, <1>5, Setting DEF ToyThread, Announced, Holding
<1>7. ToyCore'
  BY <1>1, <1>4, <1>6, ToyOthers DEF ToyLocs, Announced
<1>8. GpStep
  BY <1>1, <1>5, GpQuiet DEF ToyAssumed, Reading, Synchronizing, Holding
<1> QED BY <1>4, <1>7, <1>8 DEF ToyKept

\* The smp_mb() of rcu_read_lock(): after the outermost one the reader is inside.
LEMMA ReadLockMbKeeps ==
  ASSUME ToyAssumed, NEW t \in Threads, ReadLockMb(t)
  PROVE  ToyKept(t)
<1>1. /\ pc[t] \in {"lock_mb", "nest_mb"} /\ Moves(t, "reading")
      /\ UNCHANGED <<impl, ctr, mutex, shared, reader, buffer, loc, preexisting>>
      /\ ToyThread(t)
  BY DEF ReadLockMb, Goto, Moves, ToyAssumed, Toys, ToyCore
<1>2. Types' /\ Frame(t)
  BY <1>1 DEF Types, ToyAssumed, Frame, Unread, Moves, ToyCore, Values
<1>3. pc'[t] = "reading" /\ DOMAIN pc = Threads
  BY <1>1 DEF Moves, ToyAssumed, ToyCore
<1>4. ToyThread(t)'
  BY <1>1, <1>3 DEF ToyThread, Announced, Holding
<1>5. ToyCore'
  BY <1>1, <1>2, <1>4, ToyOthers DEF ToyLocs, Announced
<1>6. GpStep
  <2>1. CASE pc[t] = "lock_mb"
    BY <1>1, <1>3, <2>1, GpEnter DEF ToyAssumed, Reading, Synchronizing, Holding
  <2>2. CASE pc[t] = "nest_mb"
    BY <1>1, <1>3, <2>2, GpQuiet DEF ToyAssumed, Reading, Synchronizing, Holding
  <2> QED BY <1>1, <2>1, <2>2
<1> QED BY <1>2, <1>5, <1>6 DEF ToyKept

\* The smp_mb() of rcu_read_unlock(): before the outermost one the reader is inside.
LEMMA ReadUnlockMbKeeps ==
  ASSUME ToyAssumed, NEW t \in Threads, ReadUnlockMb(t)
  PROVE  ToyKept(t)
<1>1. /\ pc[t] = "reading" /\ UNCHANGED <<impl, ctr, mutex, shared, reader, buffer, loc>> /\ ToyThread(t)
      /\ \/ loc[t].nest = 1 /\ Moves(t, "unlock_load") /\ Outlast(t)
         \/ loc[t].nest > 1 /\ Moves(t, "unnest_store") /\ UNCHANGED preexisting
  BY DEF ReadUnlockMb, Goto, Moves, ToyAssumed, Toys, ToyCore
<1>2. DOMAIN pc = Threads
  BY DEF ToyAssumed, ToyCore
<1>3. CASE loc[t].nest = 1 /\ Moves(t, "unlock_load") /\ Outlast(t)
  <2>1. Types' /\ Frame(t)
    BY <1>1, <1>3 DEF Types, ToyAssumed, Frame, Unread, Moves, ToyCore, Values
  <2>2. pc'[t] = "unlock_load"
    BY <1>2, <1>3 DEF Moves
  <2>3. ToyThread(t)'
    BY <1>1, <1>3, <2>2 DEF ToyThread, Announced, Holding
  <2>4. ToyCore'
    BY <1>1, <1>3, <2>1, <2>3, ToyOthers DEF ToyLocs, Announced
  <2>5. GpStep
    BY <1>1, <1>2, <1>3, GpLeave DEF ToyAssumed, Reading, Synchronizing, Holding
  <2> QED BY <2>1, <2>4, <2>5 DEF ToyKept
<1>4. CASE loc[t].nest > 1 /\ Moves(t, "unnest_store") /\ UNCHANGED preexisting
  <2>1. Types' /\ Frame(t)
    BY <1>1, <1>4 DEF Types, ToyAssumed, Frame, Unread, Moves, ToyCore, Values
  <2>2. pc'[t] = "unnest_store" /\ loc[t].nest \in Nat
    BY <1>2, <1>4 DEF Moves, ToyAssumed, Types, Locals
  <2>3. ToyThread(t)'
    BY <1>1, <1>4, <2>2 DEF ToyThread, Announced, Holding
  <2>4. ToyCore'
    BY <1>1, <1>4, <2>1, <2>3, ToyOthers DEF ToyLocs, Announced
  <2>5. GpStep
    BY <1>1, <1>2, <1>4, GpQuiet DEF ToyAssumed, Reading, Synchronizing, Holding
  <2> QED BY <2>1, <2>4, <2>5 DEF ToyKept
<1> QED BY <1>1, <1>3, <1>4

\* rcu_read_unlock() loads the number.
LEMMA ReadUnlockLoadKeeps ==
  ASSUME ToyAssumed, NEW t \in Threads, ReadUnlockLoad(t)
  PROVE  ToyKept(t)
<1>1. /\ pc[t] = "unlock_load" /\ Moves(t, "unlock_store")
      /\ UNCHANGED <<impl, mutex, shared, reader, buffer, preexisting>>
      /\ Load(t) \/ UNCHANGED <<loc, ctr>>
      /\ ToyThread(t) /\ impl \in ToyImpls
  BY DEF ReadUnlockLoad, Goto, Moves, ToyAssumed, Toys, ToyCore
<1>2. /\ ctr' \in Int /\ loc' \in [Threads -> Locals]
      /\ \A e \in Threads \ {t} : loc'[e] = loc[e]
      /\ loc'[t].nest = loc[t].nest /\ loc'[t].calls = loc[t].calls /\ loc'[t].scan = loc[t].scan
  BY <1>1, ToyLoad DEF ToyAssumed, Types
<1>3. Types' /\ Frame(t)
  BY <1>1, <1>2 DEF Types, ToyAssumed, Frame, Unread, Moves, ToyCore, Values
<1>4. pc'[t] = "unlock_store" /\ DOMAIN pc = Threads
  BY <1>1 DEF Moves, ToyAssumed, ToyCore
<1>5. ToyThread(t)'
  BY <1>1, <1>2, <1>4 DEF ToyThread, Announced, Holding
<1>6. ToyCore'
  BY <1>1, <1>3, <1>5, ToyOthers DEF ToyLocs, Announced
<1>7. GpStep
  BY <1>1, <1>4, GpQuiet DEF ToyAssumed, Reading, Synchronizing, Holding
<1> QED BY <1>3, <1>6, <1>7 DEF ToyKept

\* It takes the announcement of its level back.
LEMMA ToyReadUnlockStoreKeeps ==
  ASSUME ToyAssumed, NEW t \in Threads, ToyReadUnlockStore(t)
  PROVE  ToyKept(t)
<1>1. /\ UNCHANGED <<impl, ctr, mutex, reader, preexisting>> /\ ToyThread(t) /\ impl \in ToyImpls /\ DOMAIN pc = Threads
      /\ \/ pc[t] = "unlock_store" /\ Moves(t, "idle") /\ Forget(t)
         \/ pc[t] = "unnest_store" /\ Moves(t, "reading") /\ loc' = [loc EXCEPT ![t].nest = @ - 1]
  BY DEF ToyReadUnlockStore, Goto, Moves, ToyAssumed, Toys, ToyCore
<1>2. shared' \in Pairs /\ Writes(t)
  <2>1. -1 \in Int
    OBVIOUS
  <2> QED BY <1>1, <2>1, Announcing DEF ToyReadUnlockStore, ToyAssumed
<1>3. CASE pc[t] = "unlock_store" /\ Moves(t, "idle") /\ Forget(t)
  <2>1. loc' \in [Threads -> Locals] /\ loc'[t] = Registers /\ \A e \in Threads \ {t} : loc'[e] = loc[e]
    BY <1>3, ForgetIs DEF ToyAssumed
  <2>2. Types' /\ Frame(t)
    BY <1>1, <1>2, <1>3, <2>1, WritesIs DEF Types, ToyAssumed, Frame, Unread, Moves, ToyCore, Values
  <2>3. pc'[t] = "idle"
    BY <1>1, <1>3 DEF Moves
  <2>4. ToyThread(t)'
    BY <2>1, <2>3, Setting DEF ToyThread, Announced, Holding, Registers
  <2>5. ToyCore'
    BY <1>1, <1>3, <2>2, <2>4, ToyOthers DEF ToyLocs, Announced
  <2>6. GpStep
    BY <1>1, <1>3, GpQuiet DEF ToyAssumed, Reading, Synchronizing, Holding
  <2> QED BY <2>2, <2>5, <2>6 DEF ToyKept
<1>4. CASE pc[t] = "unnest_store" /\ Moves(t, "reading") /\ loc' = [loc EXCEPT ![t].nest = @ - 1]
  <2>1. /\ loc' \in [Threads -> Locals] /\ \A e \in Threads \ {t} : loc'[e] = loc[e]
        /\ loc'[t].nest = loc[t].nest - 1 /\ loc'[t].calls = loc[t].calls /\ loc'[t].scan = loc[t].scan
        /\ loc[t].nest \in Nat /\ loc[t].calls \in Nat
    <3>1. loc[t].nest \in Nat /\ loc[t].nest >= 2
      BY <1>1, <1>4 DEF ToyThread, ToyAssumed, Types, Locals
    <3>2. loc[t].nest - 1 \in Nat
      BY <3>1
    <3> QED BY <1>4, <3>1, <3>2 DEF ToyAssumed, Types, Locals
  <2>2. Types' /\ Frame(t)
    BY <1>1, <1>2, <1>4, <2>1, WritesIs DEF Types, ToyAssumed, Frame, Unread, Moves, ToyCore, Values
  <2>3. pc'[t] = "reading"
    BY <1>1, <1>4 DEF Moves
  <2>4. ToyThread(t)'
    BY <1>1, <1>4, <2>1, <2>3, Setting DEF ToyThread, Announced, Holding
  <2>5. ToyCore'
    BY <1>1, <1>4, <2>2, <2>4, ToyOthers DEF ToyLocs, Announced
  <2>6. GpStep
    BY <1>1, <1>4, GpQuiet DEF ToyAssumed, Reading, Synchronizing, Holding
  <2> QED BY <2>2, <2>5, <2>6 DEF ToyKept
<1> QED BY <1>1, <1>3, <1>4

\* synchronize_rcu() is called.
LEMMA ToySyncCallKeeps ==
  ASSUME ToyAssumed, NEW t \in Threads, SyncCall(t)
  PROVE  ToyKept(t)
<1>1. /\ pc[t] = "idle" /\ Moves(t, "sync_lock") /\ preexisting' = [preexisting EXCEPT ![t] = Inside]
      /\ UNCHANGED <<impl, ctr, mutex, shared, reader, buffer, loc>> /\ ToyThread(t)
  BY DEF SyncCall, Goto, Moves, ToyAssumed, Toys, ToyCore
<1>2. Types' /\ Frame(t)
  BY <1>1 DEF Types, ToyAssumed, Frame, Unread, Moves, ToyCore, Values
<1>3. pc'[t] = "sync_lock" /\ DOMAIN pc = Threads
  BY <1>1 DEF Moves, ToyAssumed, ToyCore
<1>4. ToyThread(t)'
  BY <1>1, <1>3 DEF ToyThread, Announced, Holding
<1>5. ToyCore'
  BY <1>1, <1>2, <1>4, ToyOthers DEF ToyLocs
<1>6. GpStep
  BY <1>1, <1>3, GpCall DEF ToyAssumed, Reading, Synchronizing, Holding
<1> QED BY <1>2, <1>5, <1>6 DEF ToyKept

\* It takes rcu_gp_lock, in the implementations that have it.
LEMMA ToySyncLockKeeps ==
  ASSUME ToyAssumed, NEW t \in Threads, ToySyncLock(t)
  PROVE  ToyKept(t)
<1> DEFINE x == CASE impl = "rcg" -> "sync_wait" [] impl = "atomicgp" -> "sync_load" [] OTHER -> "sync_advance"
<1>1. /\ pc[t] = "sync_lock" /\ Moves(t, x) /\ UNCHANGED <<impl, ctr, shared, reader, buffer, loc, preexisting>>
      /\ ToyThread(t)
      /\ \/ impl \in Unlocked /\ UNCHANGED mutex
         \/ impl \notin Unlocked /\ mutex[NoThread] = NoThread /\ mutex' = [mutex EXCEPT ![NoThread] = t]
  BY DEF ToySyncLock, Goto, Moves, ToyAssumed, Toys, ToyCore
<1>2. x \in {"sync_wait", "sync_load", "sync_advance"} /\ (x = "sync_load" => impl = "atomicgp")
  OBVIOUS
<1> HIDE DEF x
<1>3. mutex' \in [0 .. NR_THREADS -> 0 .. NR_THREADS] /\ (impl \notin Unlocked => mutex'[NoThread] = t)
  <2>1. mutex \in [0 .. NR_THREADS -> 0 .. NR_THREADS] /\ t \in 0 .. NR_THREADS /\ NoThread \in 0 .. NR_THREADS
    <3>1. NoThread \in 0 .. NR_THREADS /\ t \in 0 .. NR_THREADS
      BY Setting
    <3> QED BY <3>1 DEF ToyAssumed, Types
  <2>2. CASE impl \in Unlocked
    BY <1>1, <2>1, <2>2
  <2>3. CASE mutex' = [mutex EXCEPT ![NoThread] = t]
    BY <2>1, <2>3
  <2> QED BY <1>1, <2>2, <2>3
<1>4. Types' /\ Frame(t)
  BY <1>1, <1>3 DEF Types, ToyAssumed, Frame, Unread, Moves, ToyCore, Values
<1>5. pc'[t] = x /\ DOMAIN pc = Threads
  BY <1>1 DEF Moves, ToyAssumed, ToyCore
<1>6. ToyThread(t)'
  BY <1>1, <1>2, <1>3, <1>5 DEF ToyThread, Announced, Holding
<1>7. ToyCore'
  <2>1. x \in ToyLocs
    BY <1>2 DEF ToyLocs
  <2>2. mutex'[NoThread] = mutex[NoThread] \/ mutex[NoThread] \in {t, NoThread}
    BY <1>1
  <2> QED BY <1>1, <1>4, <1>6, <2>1, <2>2, ToyOthers
<1>8. GpStep
  BY <1>1, <1>2, <1>5, GpQuiet DEF ToyAssumed, Reading, Synchronizing, Holding
<1> QED BY <1>4, <1>7, <1>8 DEF ToyKept

\* rcu64_atomicgp loads the number that it is going to replace.
LEMMA atomicgp_loadKeeps ==
  ASSUME ToyAssumed, NEW t \in Threads, atomicgp_load(t)
  PROVE  ToyKept(t)
<1>1. /\ pc[t] = "sync_load" /\ Moves(t, "sync_advance") /\ loc' = [loc EXCEPT ![t].old = ctr]
      /\ UNCHANGED <<impl, ctr, mutex, shared, reader, buffer, preexisting>> /\ ToyThread(t)
  BY DEF atomicgp_load, Goto, Moves, ToyAssumed, Toys, ToyCore
<1>2. /\ loc' \in [Threads -> Locals] /\ \A e \in Threads \ {t} : loc'[e] = loc[e]
      /\ loc'[t].nest = loc[t].nest /\ loc'[t].calls = loc[t].calls /\ loc'[t].scan = loc[t].scan
  BY <1>1 DEF ToyAssumed, Types, Locals
<1>3. Types' /\ Frame(t)
  BY <1>1, <1>2 DEF Types, ToyAssumed, Frame, Unread, Moves, ToyCore, Values
<1>4. pc'[t] = "sync_advance" /\ DOMAIN pc = Threads
  BY <1>1 DEF Moves, ToyAssumed, ToyCore
<1>5. ToyThread(t)'
  BY <1>1, <1>2, <1>4 DEF ToyThread, Announced, Holding
<1>6. ToyCore'
  BY <1>1, <1>3, <1>5, ToyOthers DEF ToyLocs
<1>7. GpStep
  BY <1>1, <1>4, GpQuiet DEF ToyAssumed, Reading, Synchronizing, Holding
<1> QED BY <1>3, <1>6, <1>7 DEF ToyKept

\* What an advance does to the number, the index or the clock, and to the registers
LEMMA ToyAdvance ==
  ASSUME ToyAssumed, NEW t \in Threads,
         rcl_advance \/ rcpl_advance(t) \/ rcu64_advance \/ atomicgp_advance(t) \/ ts_advance(t)
  PROVE  /\ ctr' \in Int /\ loc' \in [Threads -> Locals] /\ \A e \in Threads \ {t} : loc'[e] = loc[e]
         /\ loc'[t].nest = loc[t].nest /\ loc'[t].calls = loc[t].calls /\ loc'[t].scan = loc[t].scan
         /\ loc'[t].flip = loc[t].flip /\ loc'[t].idx = loc[t].idx
         /\ impl \notin Unlocked \union {"rcl"} =>
              \/ impl \in Counting /\ ctr' = 1 - ctr /\ loc'[t].old = ctr
              \/ impl = "rcu64" /\ ctr' = ctr - 1 /\ UNCHANGED loc
              \/ impl = "ts" /\ (\E d \in Ticks : ctr' = ctr + d) /\ loc'[t].old = Even(ctr')
         /\ impl = "rcl" => UNCHANGED <<ctr, loc>>
         /\ impl \in Unlocked => impl = "atomicgp" /\ ctr' <= ctr /\ UNCHANGED loc
<1>1. ctr \in Int /\ loc \in [Threads -> Locals]
  BY DEF ToyAssumed, Types
<1>2. CASE rcpl_advance(t)
  <2>1. impl \in Counting /\ loc' = [loc EXCEPT ![t].old = ctr] /\ ctr' = 1 - ctr
    BY <1>2 DEF rcpl_advance
  <2>2. /\ loc' \in [Threads -> Locals] /\ \A e \in Threads \ {t} : loc'[e] = loc[e]
        /\ loc'[t].nest = loc[t].nest /\ loc'[t].calls = loc[t].calls /\ loc'[t].scan = loc[t].scan
        /\ loc'[t].flip = loc[t].flip /\ loc'[t].idx = loc[t].idx /\ loc'[t].old = ctr
    BY <1>1, <2>1 DEF Locals
  <2> QED BY <1>1, <2>1, <2>2 DEF Unlocked, Counting
<1>3. CASE ts_advance(t)
  <2> DEFINE c == Even(ctr')
  <2>1. impl = "ts" /\ loc' = [loc EXCEPT ![t].old = c] /\ \E d \in Ticks : ctr' = ctr + d
    BY <1>3 DEF ts_advance
  <2>2. c \in Int /\ ctr' \in Int
    <3>1. ctr' \in Int
      BY <1>1, <2>1, RcuFamilyAssumption
    <3> QED BY <3>1, BitIs
  <2>4. c = Even(ctr')
    OBVIOUS
  <2> HIDE DEF c
  <2>3. /\ loc' \in [Threads -> Locals] /\ \A e \in Threads \ {t} : loc'[e] = loc[e]
        /\ loc'[t].nest = loc[t].nest /\ loc'[t].calls = loc[t].calls /\ loc'[t].scan = loc[t].scan
        /\ loc'[t].flip = loc[t].flip /\ loc'[t].idx = loc[t].idx /\ loc'[t].old = c
    BY <1>1, <2>1, <2>2 DEF Locals
  <2> QED BY <1>1, <2>1, <2>2, <2>3, <2>4 DEF Unlocked, Counting
<1>4. CASE rcl_advance \/ rcu64_advance \/ atomicgp_advance(t)
  BY <1>1, <1>4 DEF rcl_advance, rcu64_advance, atomicgp_advance, Unlocked, Counting
<1> QED BY <1>2, <1>3, <1>4

\* synchronize_rcu() flips the index or advances the number.
LEMMA ToySyncAdvanceKeeps ==
  ASSUME ToyAssumed, NEW t \in Threads, ToySyncAdvance(t)
  PROVE  ToyKept(t)
<1>1. /\ pc[t] = "sync_advance" /\ Moves(t, "sync_wait") /\ UNCHANGED <<impl, mutex, shared, reader, buffer, preexisting>>
      /\ rcl_advance \/ rcpl_advance(t) \/ rcu64_advance \/ atomicgp_advance(t) \/ ts_advance(t)
      /\ ToyThread(t)
  BY DEF ToySyncAdvance, Goto, Moves, ToyAssumed, Toys, ToyCore
<1>2. /\ ctr' \in Int /\ loc' \in [Threads -> Locals] /\ \A e \in Threads \ {t} : loc'[e] = loc[e]
      /\ loc'[t].nest = loc[t].nest /\ loc'[t].calls = loc[t].calls /\ loc'[t].scan = loc[t].scan
  BY <1>1, ToyAdvance
<1>3. Types' /\ Frame(t)
  BY <1>1, <1>2 DEF Types, ToyAssumed, Frame, Unread, Moves, ToyCore, Values
<1>4. pc'[t] = "sync_wait" /\ DOMAIN pc = Threads
  BY <1>1 DEF Moves, ToyAssumed, ToyCore
<1>5. ToyThread(t)'
  BY <1>1, <1>2, <1>4 DEF ToyThread, Announced, Holding
<1>6. ToyCore'
  BY <1>1, <1>3, <1>5, ToyOthers DEF ToyLocs
<1>7. GpStep
  BY <1>1, <1>4, GpQuiet DEF ToyAssumed, Reading, Synchronizing, Holding
<1> QED BY <1>3, <1>6, <1>7 DEF ToyKept

\* What a test that lets t pass does
Passes(t) ==
  LET e == loc[t].scan
  IN  rcl_passes(e) \/ rcg_passes \/ rcpg_passes(t) \/ rcpl_passes(t, e)
        \/ rcu64_passes(e) \/ atomicgp_passes(t, e) \/ ts_passes(t, e)

LastScanned(t) == impl \in {"rcg", "rcpg"} \/ loc[t].scan = NR_THREADS - 1

\* Where the wait loop goes from thread to thread
LEMMA ToyWait ==
  ASSUME ToyAssumed, NEW t \in Threads, ToySyncWait(t)
  PROVE  /\ pc[t] = "sync_wait" /\ Passes(t) /\ UNCHANGED <<impl, ctr, mutex, shared, reader, buffer, preexisting>>
         /\ loc' \in [Threads -> Locals] /\ \A e \in Threads \ {t} : loc'[e] = loc[e]
         /\ loc'[t].nest = loc[t].nest /\ loc'[t].calls = loc[t].calls
         /\ loc'[t].idx = loc[t].idx /\ loc'[t].old = loc[t].old
         /\ LastScanned(t) => loc'[t].scan = 0 /\ loc'[t].flip = 2 /\ Moves(t, AfterWait(t))
         /\ ~ LastScanned(t) => /\ loc'[t].scan = loc[t].scan + 1 /\ loc'[t].scan \in Threads
                                /\ loc'[t].flip = loc[t].flip /\ Moves(t, "sync_wait")
<1> DEFINE a == IF LastScanned(t) THEN 0 ELSE loc[t].scan + 1
           b == IF LastScanned(t) THEN 2 ELSE loc[t].flip
<1>1. /\ pc[t] = "sync_wait" /\ Passes(t) /\ UNCHANGED <<impl, ctr, mutex, shared, reader, buffer, preexisting>>
      /\ pc' = [pc EXCEPT ![t] = IF LastScanned(t) THEN AfterWait(t) ELSE @]
      /\ loc' = [loc EXCEPT ![t].scan = a, ![t].flip = b]
  BY DEF ToySyncWait, Passes, LastScanned
<1>2. loc \in [Threads -> Locals] /\ loc[t].scan \in Threads /\ loc[t].flip \in {1, 2} /\ pc \in [Threads -> ToyLocs]
  BY DEF ToyAssumed, Types, ToyCore, ToyThread, Locals
<1>3. a \in Threads /\ a \in 0 .. NR_THREADS /\ b \in {1, 2}
  BY <1>2, Setting DEF LastScanned
<1> HIDE DEF a, b
<1>4. loc' \in [Threads -> Locals]
  <2>1. ASSUME NEW r \in Locals PROVE [r EXCEPT !.scan = a, !.flip = b] \in Locals
    BY <1>3 DEF Locals
  <2>2. [loc[t] EXCEPT !.scan = a, !.flip = b] \in Locals
    BY <1>2, <2>1
  <2>3. loc' = [loc EXCEPT ![t] = [loc[t] EXCEPT !.scan = a, !.flip = b]]
    BY <1>1
  <2> QED BY <1>2, <2>2, <2>3
<1>5. \A e \in Threads \ {t} : loc'[e] = loc[e]
  BY <1>1, <1>2
<1>6. /\ loc'[t].nest = loc[t].nest /\ loc'[t].calls = loc[t].calls /\ loc'[t].scan = a /\ loc'[t].flip = b
      /\ loc'[t].idx = loc[t].idx /\ loc'[t].old = loc[t].old
  BY <1>1, <1>2 DEF Locals
<1>7. /\ LastScanned(t) => Moves(t, AfterWait(t))
      /\ ~ LastScanned(t) => Moves(t, "sync_wait")
  BY <1>1, <1>2 DEF Moves
<1> QED BY <1>1, <1>3, <1>4, <1>5, <1>6, <1>7 DEF a, b

\* The wait loop passes a thread.
LEMMA ToySyncWaitKeeps ==
  ASSUME ToyAssumed, NEW t \in Threads, ToySyncWait(t)
  PROVE  ToyKept(t)
<1> DEFINE x == IF LastScanned(t) THEN AfterWait(t) ELSE "sync_wait"
<1>1. /\ pc[t] = "sync_wait" /\ UNCHANGED <<impl, ctr, mutex, shared, reader, buffer, preexisting>>
      /\ loc' \in [Threads -> Locals] /\ \A e \in Threads \ {t} : loc'[e] = loc[e]
      /\ loc'[t].nest = loc[t].nest /\ loc'[t].calls = loc[t].calls /\ loc'[t].scan \in Threads
      /\ x # "sync_wait" => loc'[t].scan = 0
      /\ Moves(t, x) /\ ToyThread(t)
  <2>1. AfterWait(t) # "sync_wait"
    BY DEF AfterWait
  <2> QED BY <2>1, ToyWait, Setting DEF ToyAssumed, ToyCore
<1>2. x \in {"sync_wait", "sync_advance", "sync_return", "sync_unlock"} /\ (x = "sync_unlock" => impl \notin Unlocked)
  BY DEF AfterWait
<1> HIDE DEF x
<1>3. Types' /\ Frame(t)
  BY <1>1 DEF Types, ToyAssumed, Frame, Unread, Moves, ToyCore, Values
<1>4. pc'[t] = x /\ DOMAIN pc = Threads
  BY <1>1 DEF Moves, ToyAssumed, ToyCore
<1>5. ToyThread(t)'
  BY <1>1, <1>2, <1>4 DEF ToyThread, Announced, Holding
<1>6. ToyCore'
  <2>1. x \in ToyLocs
    BY <1>2 DEF ToyLocs
  <2> QED BY <1>1, <1>3, <1>5, <2>1, ToyOthers
<1>7. GpStep
  BY <1>1, <1>2, <1>4, GpQuiet DEF ToyAssumed, Reading, Synchronizing, Holding
<1> QED BY <1>3, <1>6, <1>7 DEF ToyKept

\* synchronize_rcu() releases rcu_gp_lock.
LEMMA ToySyncUnlockKeeps ==
  ASSUME ToyAssumed, NEW t \in Threads, SyncUnlock(t)
  PROVE  ToyKept(t)
<1>1. /\ pc[t] = "sync_unlock" /\ Moves(t, "sync_return") /\ mutex' = [mutex EXCEPT ![NoThread] = NoThread]
      /\ UNCHANGED <<impl, ctr, shared, reader, buffer, loc, preexisting>> /\ ToyThread(t)
  BY DEF SyncUnlock, Goto, Moves, ToyAssumed, Toys, ToyCore
<1>2. mutex' \in [0 .. NR_THREADS -> 0 .. NR_THREADS] /\ mutex[NoThread] = t
  BY <1>1, Setting DEF ToyAssumed, Types, ToyThread, Holding
<1>3. Types' /\ Frame(t)
  BY <1>1, <1>2 DEF Types, ToyAssumed, Frame, Unread, Moves, ToyCore, Values
<1>4. pc'[t] = "sync_return" /\ DOMAIN pc = Threads
  BY <1>1 DEF Moves, ToyAssumed, ToyCore
<1>5. ToyThread(t)'
  BY <1>1, <1>2, <1>4 DEF ToyThread, Announced, Holding
<1>6. ToyCore'
  BY <1>1, <1>2, <1>3, <1>5, ToyOthers DEF ToyLocs
<1>7. GpStep
  BY <1>1, <1>4, GpQuiet DEF ToyAssumed, Reading, Synchronizing, Holding
<1> QED BY <1>3, <1>6, <1>7 DEF ToyKept

\* It returns, with no reader left to outlast.
LEMMA ToySyncReturnKeeps ==
  ASSUME ToyAssumed, NEW t \in Threads, SyncReturn(t)
  PROVE  ToyKept(t)
<1>1. /\ pc[t] = "sync_return" /\ Moves(t, "idle") /\ Forget(t)
      /\ UNCHANGED <<impl, ctr, mutex, shared, reader, buffer, preexisting>> /\ ToyThread(t)
  BY DEF SyncReturn, Goto, Moves, ToyAssumed, Toys, ToyCore
<1>2. loc' \in [Threads -> Locals] /\ loc'[t] = Registers /\ \A e \in Threads \ {t} : loc'[e] = loc[e]
  BY <1>1, ForgetIs DEF ToyAssumed
<1>3. Types' /\ Frame(t)
  BY <1>1, <1>2 DEF Types, ToyAssumed, Frame, Unread, Moves, ToyCore, Values
<1>4. pc'[t] = "idle" /\ DOMAIN pc = Threads
  BY <1>1 DEF Moves, ToyAssumed, ToyCore
<1>5. ToyThread(t)'
  BY <1>2, <1>4, Setting DEF ToyThread, Announced, Holding, Registers
<1>6. ToyCore'
  BY <1>1, <1>3, <1>5, ToyOthers DEF ToyLocs
<1>7. GpStep
  <2>1. preexisting[t] = {}
    BY <1>1 DEF ToyAssumed, Outlasted
  <2> QED BY <1>1, <1>4, <2>1, GpReturn DEF ToyAssumed, Reading, Synchronizing, Holding
<1> QED BY <1>3, <1>6, <1>7 DEF ToyKept

\* A store becomes visible.
LEMMA ToyDrainKeeps ==
  ASSUME ToyAssumed, NEW t \in Threads, DrainStore(t)
  PROVE  ToyKept(t)
<1>1. /\ Drains(t) /\ UNCHANGED <<impl, ctr, mutex, shared, loc, pc, preexisting>> /\ ToyThread(t)
  BY DEF DrainStore, Drains, ToyAssumed, Toys, ToyCore
<1>2. buffer' \in [Threads -> Seq(Values)] /\ reader' \in [Threads -> Values] /\ \A e \in Threads \ {t} : Unread(e)
  BY <1>1, DrainIs DEF ToyAssumed
<1>3. Types' /\ Frame(t)
  BY <1>1, <1>2 DEF Types, ToyAssumed, Frame, Values
<1>4. ToyCore'
  BY <1>1 DEF ToyAssumed, ToyCore, ToyThread
<1>5. GpStep
  BY <1>1, GpStays DEF ToyAssumed
<1> QED BY <1>3, <1>4, <1>5 DEF ToyKept

\* Every step keeps types, locks and nesting, and is one of the abstract specification or none.
LEMMA ToyStepKeeps ==
  ASSUME ToyAssumed, NEW t \in Threads, ToySteps(t)
  PROVE  ToyKept(t)
  BY ToyReadLockLoadKeeps, ReadLockNestedKeeps, ToyReadLockStoreKeeps, ReadLockMbKeeps, ReadUnlockMbKeeps,
     ReadUnlockLoadKeeps, ToyReadUnlockStoreKeeps, ToySyncCallKeeps, ToySyncLockKeeps, atomicgp_loadKeeps,
     ToySyncAdvanceKeeps, ToySyncWaitKeeps, ToySyncUnlockKeeps, ToySyncReturnKeeps, ToyDrainKeeps DEF ToySteps

-----------------------------------------------------------------------------
\* No step but the last one of a wait makes an updater ready to return.
LEMMA OutlastedStays ==
  ASSUME Outlasted, DOMAIN pc = Threads, NEW t \in Threads, NEW x, Moves(t, x),
         \A e \in Threads \ {t} : preexisting'[e] \subseteq preexisting[e],
         x \in {"sync_unlock", "sync_return"} => preexisting'[t] = {}
  PROVE  Outlasted'
<1>1. DOMAIN pc' = Threads /\ pc'[t] = x /\ \A e \in Threads \ {t} : pc'[e] = pc[e]
  BY DEF Moves
<1> QED BY <1>1 DEF Outlasted

-----------------------------------------------------------------------------
\* One number or one count per thread: rcl, rcu64, rcu64_atomicgp, rcu_ts
ScanAssumed == ToyAssumed /\ impl \in Scanned /\ ScanInv /\ Promising
ScanKept == ScanInv' /\ Outlasted'

\* rcu_gp_ctr counts down and the clock up.
Advances ==
  /\ impl \in {"rcu64", "atomicgp"} => ctr' <= ctr
  /\ impl = "ts" => ctr' >= ctr

\* While t is inside, its stores are counts.
Counts(t) == \A x \in Visible(t)' : x \in Visible(t) \/ (impl = "rcl" /\ x >= 1)

\* What a step of t leaves of the others: numbers announced, and numbers that a wait can rely on
LEMMA ScanOthers ==
  ASSUME ScanAssumed, NEW t \in Threads, ToyKept(t), UNCHANGED impl, Advances,
         \A e \in Threads \ {t} : preexisting'[e] \subseteq preexisting[e],
         \A e \in Threads \ {t} : t \in preexisting'[e] => Counts(t),
         ScanReader(t)', ScanWait(t)'
  PROVE  ScanInv'
<1>1. ctr \in Int /\ ctr' \in Int /\ Values = Int /\ impl \in Scanned
  <2>1. impl \in Scanned /\ ctr \in Int /\ ctr' \in Int
    BY DEF ScanAssumed, ToyAssumed, ToyKept, Types
  <2> QED BY <2>1 DEF Values, Scanned, Numbered
<1>2. ASSUME NEW e \in Threads \ {t} PROVE ScanReader(e)'
  <2>1. ScanReader(e) /\ Own(e)' = Own(e) /\ Visible(e)' = Visible(e) /\ pc'[e] = pc[e] /\ loc'[e] = loc[e]
    BY UnreadIs DEF ScanAssumed, ScanInv, ToyKept, Frame
  <2>2. Own(e) \in Int /\ Visible(e) \subseteq Int /\ loc[e].snap \in Int
    BY <1>1, OwnIs DEF ScanAssumed, ToyAssumed, Types, Locals
  <2>3. ASSUME NEW x \in Int, Announces(x) PROVE Announces(x)'
    <3>1. CASE impl = "rcl"
      BY <2>3, <3>1 DEF Announces
    <3>2. CASE impl \in {"rcu64", "atomicgp"}
      <4>1. x <= -ctr /\ ctr' <= ctr
        BY <2>3, <3>2 DEF Announces, Advances
      <4>2. x <= -ctr'
        BY <1>1, <4>1
      <4> QED BY <3>2, <4>2 DEF Announces
    <3>3. CASE impl = "ts"
      <4>1. x % 2 = 1
        BY <2>3, <3>3 DEF Announces
      <4>2. x <= Odd(ctr) /\ ctr' >= ctr
        BY <2>3, <3>3 DEF Announces, Advances
      <4>3. Odd(ctr) \in Int /\ Odd(ctr') \in Int /\ Odd(ctr) <= Odd(ctr')
        BY <1>1, <4>2, BitIs
      <4>4. x <= Odd(ctr')
        BY <4>2, <4>3
      <4>5. Odd(ctr)' = Odd(ctr')
        BY DEF Odd, Even
      <4> QED BY <3>3, <4>1, <4>4, <4>5 DEF Announces
    <3> QED BY <1>1, <3>1, <3>2, <3>3 DEF Scanned, Numbered
  <2>4. ASSUME pc[e] = "lock_store"
        PROVE  /\ impl' \in {"rcu64", "atomicgp"} => loc'[e].snap >= ctr'
               /\ impl' = "ts" => loc'[e].snap <= ctr'
    <3>1. CASE impl \in {"rcu64", "atomicgp"}
      <4>1. loc[e].snap >= ctr /\ ctr' <= ctr
        BY <2>1, <2>4, <3>1 DEF ScanReader, Advances
      <4>2. loc[e].snap >= ctr'
        BY <1>1, <2>2, <4>1
      <4> QED BY <2>1, <3>1, <4>2
    <3>2. CASE impl = "ts"
      <4>2. loc[e].snap <= ctr /\ ctr' >= ctr
        BY <2>1, <2>4, <3>2 DEF ScanReader, Advances
      <4>3. loc[e].snap <= ctr'
        BY <1>1, <2>2, <4>2
      <4> QED BY <2>1, <3>2, <4>3
    <3> QED BY <3>1, <3>2
  <2> QED BY <2>1, <2>2, <2>3, <2>4 DEF ScanReader
<1>3. ASSUME NEW e \in Threads \ {t} PROVE ScanWait(e)'
  <2>1. ScanWait(e) /\ pc'[e] = pc[e] /\ loc'[e] = loc[e] /\ preexisting'[e] \subseteq preexisting[e]
    BY DEF ScanAssumed, ScanInv, ToyKept, Frame
  <2>2. SUFFICES ASSUME pc[e] = "sync_wait" \/ (impl = "atomicgp" /\ pc[e] = "sync_advance"),
                        NEW v \in preexisting'[e], NEW x \in Visible(v)'
                 PROVE  v >= loc[e].scan /\ Early(e, x)'
    <3>1. ASSUME pc[e] = "sync_wait" \/ (impl = "atomicgp" /\ pc[e] = "sync_advance"), NEW v \in preexisting'[e]
          PROVE  v >= loc[e].scan
      BY <2>1, <3>1 DEF ScanWait
    <3> QED BY <2>1, <3>1 DEF ScanWait
  <2>3. v >= loc[e].scan /\ \A y \in Visible(v) : Early(e, y)
    BY <2>1, <2>2 DEF ScanWait
  <2>4. v \in Threads
    BY <2>1 DEF ScanAssumed, ToyAssumed, GpInv
  <2>6. x \in Visible(v) \/ (impl = "rcl" /\ x >= 1)
    <3>1. CASE v = t
      BY <2>2, <3>1 DEF Counts
    <3>2. CASE v # t
      BY <2>4, <3>2, UnreadIs DEF ToyKept, Frame
    <3> QED BY <3>1, <3>2
  <2>7. CASE impl = "rcl"
    <3>1. x >= 1
      BY <2>3, <2>6, <2>7 DEF Early
    <3> QED BY <2>3, <2>7, <3>1 DEF Early
  <2>8. CASE impl \in Numbered
    <3>1. x \in Visible(v) /\ x \in Int /\ Early(e, x)
      BY <1>1, <2>3, <2>4, <2>6, <2>8, OwnIs DEF Numbered, ScanAssumed, ToyAssumed
    <3>2. CASE impl = "rcu64"
      <4>1. x < -ctr'
        BY <1>1, <3>1, <3>2 DEF Early, Advances
      <4> QED BY <2>3, <3>2, <4>1 DEF Early
    <3>3. CASE impl \in {"atomicgp", "ts"}
      BY <2>1, <2>3, <3>1, <3>3 DEF Early
    <3> QED BY <2>8, <3>2, <3>3 DEF Numbered
  <2> QED BY <1>1, <2>7, <2>8 DEF Scanned
<1> QED BY <1>2, <1>3 DEF ScanInv, ToyKept, Threads

\* What the invariant says about t
LEMMA ScanFacts ==
  ASSUME ScanAssumed, NEW t \in Threads
  PROVE  /\ impl \in {"rcl", "rcu64", "atomicgp", "ts"} /\ ctr \in Int /\ loc[t] \in Locals /\ DOMAIN pc = Threads
         /\ Own(t) \in Int /\ Visible(t) \subseteq Int /\ Own(t) \in Visible(t)
         /\ ScanReader(t) /\ ScanWait(t) /\ ToyThread(t)
         /\ \A e \in Threads : t \in preexisting[e] => pc[t] \in Reading
<1>1. impl \in {"rcl", "rcu64", "atomicgp", "ts"} /\ ctr \in Int /\ loc[t] \in Locals
  BY DEF ScanAssumed, ToyAssumed, Types, Scanned, Numbered
<1>2. Values = Int
  BY <1>1 DEF Values
<1>3. Own(t) \in Int /\ Visible(t) \subseteq Int /\ Own(t) \in Visible(t)
  BY <1>2, OwnIs DEF ScanAssumed, ToyAssumed
<1>4. ScanReader(t) /\ ScanWait(t) /\ ToyThread(t) /\ DOMAIN pc = Threads
  BY DEF ScanAssumed, ScanInv, ToyAssumed, ToyCore
<1>5. \A e \in Threads : t \in preexisting[e] => pc[t] \in Reading
  BY DEF ScanAssumed, ToyAssumed, GpInv, Inside, Reading
<1> QED BY <1>1, <1>3, <1>4, <1>5

\* Steps that store nothing and leave the number and the clock alone
LEMMA ScanQuiet ==
  ASSUME ScanAssumed, NEW t \in Threads, ToyKept(t), UNCHANGED <<impl, ctr, reader, buffer>>, NEW x, Moves(t, x),
         \A e \in Threads \ {t} : preexisting'[e] \subseteq preexisting[e],
         x \notin {"lock_store", "lock_mb"},
         impl = "rcl" => loc'[t].nest = loc[t].nest,
         x \in Reading => pc[t] \in Reading \/ (pc[t] = "lock_mb" /\ Drained(t)),
         ScanWait(t)'
  PROVE  ScanInv'
<1>1. ScanReader(t) /\ DOMAIN pc = Threads /\ ctr \in Int
  BY ScanFacts
<1>2. Own(t)' = Own(t) /\ Visible(t)' = Visible(t) /\ pc'[t] = x
  BY <1>1, UnreadIs DEF Unread, Moves
<1>3. Advances
  BY <1>1 DEF Advances
<1>4. \A y : Announces(y)' = Announces(y)
  BY DEF Announces, Odd, Even
<1>5. x \in Reading => \A y \in Visible(t) : Announces(y)
  <2>1. CASE pc[t] \in Reading
    BY <1>1, <2>1 DEF ScanReader
  <2>2. CASE pc[t] = "lock_mb" /\ Drained(t)
    <3>1. Visible(t) = {Own(t)}
      BY <2>2, OwnIs DEF ScanAssumed, ToyAssumed
    <3> QED BY <1>1, <2>2, <3>1 DEF ScanReader
  <2> QED BY <2>1, <2>2
<1>6. ScanReader(t)'
  BY <1>1, <1>2, <1>4, <1>5 DEF ScanReader
<1>7. Counts(t)
  BY <1>2 DEF Counts
<1> QED BY <1>3, <1>6, <1>7, ScanOthers

\* The barriers of readers
LEMMA ScanMbKeeps ==
  ASSUME ScanAssumed, NEW t \in Threads, ReadLockMb(t) \/ ReadUnlockMb(t), ToyKept(t)
  PROVE  ScanKept
<1>1. /\ UNCHANGED <<impl, ctr, reader, buffer, loc>> /\ Drained(t)
      /\ \/ pc[t] \in {"lock_mb", "nest_mb"} /\ Moves(t, "reading") /\ UNCHANGED preexisting
         \/ pc[t] = "reading" /\ Moves(t, "unlock_load") /\ Outlast(t)
         \/ pc[t] = "reading" /\ Moves(t, "unnest_store") /\ UNCHANGED preexisting
  BY DEF ReadLockMb, ReadUnlockMb, Goto, Moves
<1>2. \A e \in Threads : preexisting'[e] \subseteq preexisting[e]
  BY <1>1 DEF Outlast
<1>3. DOMAIN pc = Threads /\ Outlasted
  BY ScanFacts DEF ScanAssumed, ToyAssumed
<1>4. PICK x \in {"reading", "unlock_load", "unnest_store"} :
        Moves(t, x) /\ (x \in Reading => pc[t] \in Reading \/ pc[t] = "lock_mb")
  BY <1>1 DEF Reading
<1>5. ScanWait(t)'
  BY <1>3, <1>4 DEF ScanWait, Moves
<1>6. ScanInv'
  BY <1>1, <1>2, <1>4, <1>5, ScanQuiet
<1>7. Outlasted'
  BY <1>2, <1>3, <1>4, OutlastedStays
<1> QED BY <1>6, <1>7 DEF ScanKept

\* synchronize_rcu() called, its lock taken, released, and its return
LEMMA ScanSyncKeeps ==
  ASSUME ScanAssumed, NEW t \in Threads, SyncCall(t) \/ ToySyncLock(t) \/ SyncUnlock(t) \/ SyncReturn(t), ToyKept(t)
  PROVE  ScanKept
<1>1. /\ UNCHANGED <<impl, ctr, reader, buffer>>
      /\ \/ pc[t] = "idle" /\ Moves(t, "sync_lock") /\ preexisting' = [preexisting EXCEPT ![t] = Inside] /\ UNCHANGED loc
         \/ pc[t] = "sync_lock" /\ impl = "atomicgp" /\ Moves(t, "sync_load") /\ UNCHANGED <<preexisting, loc>>
         \/ pc[t] = "sync_lock" /\ impl # "atomicgp" /\ Moves(t, "sync_advance") /\ UNCHANGED <<preexisting, loc>>
         \/ pc[t] = "sync_unlock" /\ Moves(t, "sync_return") /\ UNCHANGED <<preexisting, loc>>
         \/ pc[t] = "sync_return" /\ Moves(t, "idle") /\ UNCHANGED preexisting /\ Forget(t)
  BY ScanFacts DEF SyncCall, ToySyncLock, SyncUnlock, SyncReturn, Goto, Moves
<1>2. \A e \in Threads \ {t} : preexisting'[e] \subseteq preexisting[e]
  BY <1>1 DEF ScanAssumed, ToyAssumed, GpInv
<1>3. DOMAIN pc = Threads /\ Outlasted /\ ToyThread(t)
  BY ScanFacts DEF ScanAssumed, ToyAssumed
<1>4. loc'[t].nest = loc[t].nest
  <2>1. CASE UNCHANGED loc
    BY <2>1
  <2>2. CASE pc[t] = "sync_return" /\ Forget(t)
    <3>1. loc'[t].nest = 0
      BY <2>2, ForgetIs DEF ScanAssumed, ToyAssumed, Registers
    <3>2. loc[t].nest = 0
      BY <1>3, <2>2 DEF ToyThread, Announced
    <3> QED BY <3>1, <3>2
  <2> QED BY <1>1, <2>1, <2>2
<1>5. PICK x \in {"sync_lock", "sync_load", "sync_advance", "sync_return", "idle"} :
        /\ Moves(t, x) /\ (x = "sync_advance" => impl # "atomicgp")
        /\ x = "sync_return" => pc[t] = "sync_unlock" /\ UNCHANGED preexisting
  BY <1>1
<1>6. ScanWait(t)'
  BY <1>1, <1>3, <1>5 DEF ScanWait, Moves
<1>7. ScanInv'
  BY <1>1, <1>2, <1>4, <1>5, <1>6, ScanQuiet DEF Reading
<1>8. Outlasted'
  BY <1>2, <1>3, <1>5, OutlastedStays DEF Outlasted
<1> QED BY <1>7, <1>8 DEF ScanKept

\* oldval = rcu_gp_ctr: whoever is inside shows no higher number.
LEMMA ScanLoadKeeps ==
  ASSUME ScanAssumed, NEW t \in Threads, atomicgp_load(t), ToyKept(t)
  PROVE  ScanKept
<1>1. /\ UNCHANGED <<impl, ctr, reader, buffer, preexisting>> /\ impl = "atomicgp"
      /\ pc[t] = "sync_load" /\ Moves(t, "sync_advance") /\ loc' = [loc EXCEPT ![t].old = ctr]
  BY ScanFacts DEF atomicgp_load, Goto, Moves, ToyThread
<1>2. DOMAIN pc = Threads /\ Outlasted /\ ToyThread(t) /\ loc \in [Threads -> Locals] /\ GpInv
  BY ScanFacts DEF ScanAssumed, ToyAssumed, Types
<1>3. loc'[t].old = ctr /\ loc'[t].scan = loc[t].scan /\ loc'[t].nest = loc[t].nest
  BY <1>1, <1>2 DEF Locals
<1>4. loc[t].scan = 0
  BY <1>1, <1>2 DEF ToyThread
<1>5. ASSUME NEW v \in preexisting[t] PROVE v >= 0 /\ \A x \in Visible(v)' : x <= -ctr
  <2>1. v \in Threads /\ pc[v] \in Reading
    BY <1>2 DEF GpInv, Inside, Reading
  <2>2. Visible(v)' = Visible(v)
    BY <1>1, UnreadIs DEF Unread
  <2> QED BY <1>1, <2>1, <2>2, ScanFacts, Setting DEF ScanReader, Announces
<1>6. ScanWait(t)'
  <2>1. \A v \in preexisting'[t] : v >= loc'[t].scan /\ \A x \in Visible(v)' : Early(t, x)'
    BY <1>1, <1>3, <1>4, <1>5 DEF Early
  <2> QED BY <2>1 DEF ScanWait
<1>7. ScanInv'
  BY <1>1, <1>3, <1>6, ScanQuiet DEF Reading
<1>8. Outlasted'
  BY <1>1, <1>2, OutlastedStays
<1> QED BY <1>7, <1>8 DEF ScanKept

\* An updater that passes a thread has no reader to outlast there.
LEMMA PassedIs ==
  ASSUME ScanAssumed, NEW t \in Threads, Passes(t), pc[t] = "sync_wait"
  PROVE  loc[t].scan \notin preexisting[t]
<1> SUFFICES ASSUME loc[t].scan \in preexisting[t] PROVE FALSE
  OBVIOUS
<1> DEFINE e == loc[t].scan
           x == reader[e]
<1>1. e \in Threads /\ GpInv /\ loc[t] \in Locals
  BY ScanFacts DEF ScanAssumed, ToyAssumed, ToyThread
<1>2. x \in Visible(e) /\ x \in Int
  BY <1>1, ScanFacts, OwnIs DEF ScanAssumed, ToyAssumed
<1>3. Early(t, x)
  BY <1>2, ScanFacts DEF ScanWait
<1>4. impl \in {"rcl", "rcu64", "atomicgp", "ts"} /\ ctr \in Int /\ loc[t].old \in Int
  BY <1>1, ScanFacts DEF Locals
<1>5. \/ impl = "rcl" /\ x = 0
      \/ impl = "rcu64" /\ x >= -ctr
      \/ impl = "atomicgp" /\ x > -loc[t].old
      \/ impl = "ts" /\ (x % 2 = 0 \/ x >= loc[t].old)
  BY <1>4 DEF Passes, rcl_passes, rcg_passes, rcpg_passes, rcpl_passes, rcu64_passes, atomicgp_passes, ts_passes
<1> HIDE DEF x, e
<1>6. CASE impl = "rcl"
  <2>1. x >= 1 /\ x = 0
    BY <1>3, <1>5, <1>6 DEF Early
  <2> QED BY <2>1
<1>7. CASE impl = "rcu64"
  <2>1. x < -ctr /\ x >= -ctr
    BY <1>3, <1>5, <1>7 DEF Early
  <2> QED BY <1>2, <1>4, <2>1
<1>8. CASE impl = "atomicgp"
  <2>1. x <= -loc[t].old /\ x > -loc[t].old
    BY <1>3, <1>5, <1>8 DEF Early
  <2> QED BY <1>2, <1>4, <2>1
<1>9. CASE impl = "ts"
  <2>1. x % 2 = 1 /\ x < loc[t].old /\ (x % 2 = 0 \/ x >= loc[t].old)
    BY <1>3, <1>5, <1>9 DEF Early
  <2>2. ~ (1 = 0)
    OBVIOUS
  <2> QED BY <1>2, <1>4, <2>1, <2>2
<1> QED BY <1>4, <1>6, <1>7, <1>8, <1>9

\* The wait of an updater: once it has passed the last thread, nobody is left to outlast.
LEMMA ScanWaitKeeps ==
  ASSUME ScanAssumed, NEW t \in Threads, ToySyncWait(t), ToyKept(t)
  PROVE  ScanKept
<1>1. /\ pc[t] = "sync_wait" /\ Passes(t) /\ UNCHANGED <<impl, ctr, reader, buffer, preexisting>>
      /\ loc'[t].nest = loc[t].nest /\ loc'[t].old = loc[t].old
      /\ LastScanned(t) => Moves(t, AfterWait(t))
      /\ ~ LastScanned(t) => /\ loc'[t].scan = loc[t].scan + 1 /\ Moves(t, "sync_wait")
  BY ToyWait DEF ScanAssumed
<1>2. DOMAIN pc = Threads /\ Outlasted /\ ToyThread(t) /\ GpInv /\ impl \notin Counting /\ impl # "rcg" /\ impl # "rcpg"
      /\ loc[t].scan \in Threads
  BY ScanFacts DEF ScanAssumed, ToyAssumed, Counting, ToyThread
<1>3. \A v \in preexisting[t] : v \in Threads /\ v >= loc[t].scan /\ v # loc[t].scan /\ \A x \in Visible(v) : Early(t, x)
  BY <1>1, <1>2, PassedIs, ScanFacts DEF ScanWait, GpInv
<1>4. CASE LastScanned(t)
  <2>1. PICK x \in {"sync_return", "sync_unlock"} : Moves(t, x)
    BY <1>1, <1>2, <1>4 DEF AfterWait
  <2>2. ScanWait(t)'
    BY <1>2, <2>1 DEF ScanWait, Moves
  <2>3. loc[t].scan = NR_THREADS - 1
    BY <1>2, <1>4 DEF LastScanned
  <2>4. preexisting[t] = {}
    <3>1. ASSUME NEW v \in preexisting[t] PROVE FALSE
      <4>1. v \in Nat /\ v < NR_THREADS /\ v >= NR_THREADS - 1 /\ v # NR_THREADS - 1 /\ NR_THREADS \in Nat
        BY <1>3, <2>3, Setting
      <4> QED BY <4>1
    <3> QED BY <3>1
  <2>5. ScanInv'
    BY <1>1, <2>1, <2>2, ScanQuiet DEF Reading
  <2>6. Outlasted'
    BY <1>1, <1>2, <2>1, <2>4, OutlastedStays
  <2> QED BY <2>5, <2>6 DEF ScanKept
<1>5. CASE ~ LastScanned(t)
  <2>1. loc'[t].scan = loc[t].scan + 1 /\ Moves(t, "sync_wait")
    BY <1>1, <1>5
  <2>2. ASSUME NEW v \in preexisting[t] PROVE v >= loc'[t].scan /\ \A x \in Visible(v)' : Early(t, x)'
    <3>1. v >= loc[t].scan + 1
      BY <1>2, <1>3, Setting
    <3>2. Visible(v)' = Visible(v)
      BY <1>1, UnreadIs DEF Unread
    <3>3. ASSUME NEW x \in Visible(v) PROVE Early(t, x)'
      <4>1. Early(t, x)
        BY <1>3
      <4> QED BY <1>1, <4>1 DEF Early
    <3> QED BY <2>1, <3>1, <3>2, <3>3
  <2>3. ScanWait(t)'
    BY <1>1, <2>2 DEF ScanWait
  <2>4. ScanInv'
    BY <1>1, <2>1, <2>3, ScanQuiet DEF Reading
  <2>5. Outlasted'
    BY <1>1, <1>2, <2>1, OutlastedStays
  <2> QED BY <2>4, <2>5 DEF ScanKept
<1> QED BY <1>4, <1>5

\* A new number or timestamp: what a thread inside shows is an earlier one.
LEMMA ScanAdvanceKeeps ==
  ASSUME ScanAssumed, NEW t \in Threads, ToySyncAdvance(t), ToyKept(t)
  PROVE  ScanKept
<1>1. /\ UNCHANGED <<impl, reader, buffer, preexisting>> /\ pc[t] = "sync_advance" /\ Moves(t, "sync_wait")
      /\ loc'[t].nest = loc[t].nest /\ loc'[t].scan = loc[t].scan /\ ctr' \in Int
  BY ToyAdvance DEF ToySyncAdvance, Goto, Moves, ScanAssumed
<1>2. DOMAIN pc = Threads /\ Outlasted /\ ToyThread(t) /\ GpInv /\ ScanReader(t) /\ ScanWait(t) /\ ctr \in Int
      /\ impl \in {"rcl", "rcu64", "atomicgp", "ts"} /\ loc[t] \in Locals
  BY ScanFacts DEF ScanAssumed, ToyAssumed
<1>3. /\ impl = "rcl" => UNCHANGED <<ctr, loc>>
      /\ impl = "rcu64" => ctr' = ctr - 1
      /\ impl = "atomicgp" => ctr' <= ctr /\ UNCHANGED loc
      /\ impl = "ts" => (\E d \in Ticks : ctr' = ctr + d) /\ loc'[t].old = Even(ctr')
  BY ToyAdvance DEF ToySyncAdvance, ScanAssumed, Unlocked, Counting
<1>4. Advances
  <2>1. CASE impl = "ts"
    <3>1. ctr' >= ctr
      BY <1>2, <1>3, <2>1, RcuFamilyAssumption
    <3> QED BY <2>1, <3>1 DEF Advances
  <2>2. CASE impl = "rcu64"
    BY <1>2, <1>3, <2>2 DEF Advances
  <2>3. CASE impl \in {"atomicgp", "rcl"}
    BY <1>3, <2>3 DEF Advances
  <2> QED BY <1>2, <2>1, <2>2, <2>3
<1>5. ScanReader(t)'
  <2>1. Own(t)' = Own(t) /\ pc'[t] = "sync_wait"
    BY <1>1, <1>2, UnreadIs DEF Unread, Moves
  <2> QED BY <1>1, <1>2, <2>1 DEF ScanReader, Reading
<1>6. ASSUME NEW v \in preexisting[t], NEW x \in Visible(v)
      PROVE  v >= 0 /\ Early(t, x)'
  <2>1. v \in Threads /\ pc[v] \in Reading
    BY <1>2 DEF GpInv, Inside, Reading
  <2>2. x \in Int /\ Announces(x)
    BY <2>1, ScanFacts DEF ScanReader
  <2>3. v >= 0
    BY <2>1, Setting
  <2>4. CASE impl = "rcl"
    BY <1>1, <2>2, <2>3, <2>4 DEF Announces, Early
  <2>5. CASE impl = "rcu64"
    <3>1. x <= -ctr /\ ctr' = ctr - 1
      BY <1>3, <2>2, <2>5 DEF Announces
    <3>2. x < -ctr'
      BY <1>2, <2>2, <3>1
    <3> QED BY <1>1, <2>3, <2>5, <3>2 DEF Early
  <2>6. CASE impl = "atomicgp"
    <3>1. Early(t, x) /\ UNCHANGED loc
      BY <1>1, <1>2, <1>3, <2>6 DEF ScanWait
    <3> QED BY <1>1, <2>3, <2>6, <3>1 DEF Early
  <2>7. CASE impl = "ts"
    <3>1. x % 2 = 1
      BY <2>2, <2>7 DEF Announces
    <3>2. x <= Odd(ctr) /\ loc'[t].old = Even(ctr')
      BY <1>3, <2>2, <2>7 DEF Announces
    <3>4. ctr + 2 <= ctr'
      BY <1>2, <1>3, <2>7, RcuFamilyAssumption DEF ScanAssumed, Promising, FineClock
    <3>5. Odd(ctr) \in Int /\ Even(ctr') \in Int /\ Odd(ctr) < Even(ctr')
      BY <1>1, <1>2, <3>4, BitIs
    <3>3. x < loc'[t].old
      BY <2>2, <3>2, <3>5
    <3> QED BY <1>1, <2>3, <2>7, <3>1, <3>3 DEF Early
  <2> QED BY <1>2, <2>4, <2>5, <2>6, <2>7
<1>7. ScanWait(t)'
  <2>1. loc'[t].scan = 0
    BY <1>1, <1>2 DEF ToyThread
  <2>2. \A v \in preexisting[t] : Visible(v)' = Visible(v)
    BY <1>1, UnreadIs DEF Unread
  <2>3. \A v \in preexisting[t] : v >= 0
    BY <1>2, Setting DEF GpInv
  <2> QED BY <1>1, <1>6, <2>1, <2>2, <2>3 DEF ScanWait
<1>8. ScanInv'
  <2>1. Counts(t)
    BY <1>1, UnreadIs DEF Counts, Unread
  <2> QED BY <1>1, <1>4, <1>5, <1>7, <2>1, ScanOthers
<1>9. Outlasted'
  BY <1>1, <1>2, OutlastedStays
<1> QED BY <1>8, <1>9 DEF ScanKept

\* rcu_read_lock() and rcu_read_unlock() load rcu_gp_ctr or the clock.
LEMMA ScanReadLoadKeeps ==
  ASSUME ScanAssumed, NEW t \in Threads, ToyReadLockLoad(t) \/ ReadUnlockLoad(t), ToyKept(t)
  PROVE  ScanKept
<1>1. DOMAIN pc = Threads /\ Outlasted /\ ToyThread(t) /\ GpInv /\ ScanReader(t) /\ ctr \in Int
      /\ impl \in {"rcl", "rcu64", "atomicgp", "ts"} /\ loc[t] \in Locals
  BY ScanFacts DEF ScanAssumed, ToyAssumed
<1>2. /\ UNCHANGED <<impl, reader, buffer, preexisting>>
      /\ Load(t) \/ UNCHANGED <<loc, ctr>>
      /\ (Moves(t, "lock_store") /\ Load(t)) \/ Moves(t, "unlock_store")
  BY DEF ToyReadLockLoad, ReadUnlockLoad, Goto, Moves
<1>3. ctr' \in Int /\ loc'[t].nest = loc[t].nest
  BY <1>1, <1>2, ToyLoad DEF ScanAssumed, ToyAssumed, Toys
<1>4. Load(t) => /\ impl \in {"rcu64", "atomicgp"} => ctr' = ctr /\ loc'[t].snap = ctr
                 /\ impl = "ts" => ctr' >= ctr /\ loc'[t].snap = ctr'
  BY ToyLoad DEF ScanAssumed, ToyAssumed, Toys
<1>5. impl = "ts" => ctr' >= ctr
  BY <1>1, <1>2, <1>4
<1>6. Advances
  <2>1. impl \in {"rcu64", "atomicgp"} => ctr' <= ctr
    BY <1>1, <1>2, <1>4
  <2> QED BY <1>5, <2>1 DEF Advances
<1>7. Own(t)' = Own(t) /\ Visible(t)' = Visible(t)
  BY <1>2, UnreadIs DEF Unread
<1>8. ScanReader(t)'
  <2>1. CASE Moves(t, "lock_store") /\ Load(t)
    <3>1. pc'[t] = "lock_store"
      BY <1>1, <2>1 DEF Moves
    <3>2. impl \in {"rcu64", "atomicgp"} => loc'[t].snap >= ctr'
      BY <1>1, <1>4, <2>1
    <3>3. impl = "ts" => loc'[t].snap <= ctr'
      <4>1. impl = "ts" => loc'[t].snap = ctr'
        BY <1>4, <2>1
      <4>2. ctr' <= ctr'
        BY <1>3
      <4> QED BY <4>1, <4>2
    <3> QED BY <1>1, <1>2, <1>3, <1>7, <3>1, <3>2, <3>3 DEF ScanReader, Reading
  <2>2. CASE Moves(t, "unlock_store")
    <3>1. pc'[t] = "unlock_store"
      BY <1>1, <2>2 DEF Moves
    <3> QED BY <1>1, <1>2, <1>3, <1>7, <3>1 DEF ScanReader, Reading
  <2> QED BY <1>2, <2>1, <2>2
<1>9. PICK x \in {"lock_store", "unlock_store"} : Moves(t, x)
  BY <1>2
<1>10. ScanWait(t)'
  BY <1>1, <1>9 DEF ScanWait, Moves
<1>11. ScanInv'
  <2>1. Counts(t)
    BY <1>7 DEF Counts
  <2> QED BY <1>2, <1>6, <1>8, <1>10, <2>1, ScanOthers
<1>12. Outlasted'
  BY <1>1, <1>2, <1>9, OutlastedStays
<1> QED BY <1>11, <1>12 DEF ScanKept

\* rcu_read_lock() announces the reader.
LEMMA ScanLockStoreKeeps ==
  ASSUME ScanAssumed, NEW t \in Threads, ToyReadLockStore(t), ToyKept(t)
  PROVE  ScanKept
<1>1. DOMAIN pc = Threads /\ Outlasted /\ ToyThread(t) /\ GpInv /\ Types /\ ScanReader(t) /\ ctr \in Int
      /\ impl \in {"rcl", "rcu64", "atomicgp", "ts"} /\ loc[t] \in Locals
      /\ Own(t) \in Int /\ Values = Int
  BY ScanFacts DEF ScanAssumed, ToyAssumed, Values
<1>2. /\ UNCHANGED <<impl, ctr, reader, preexisting>> /\ pc[t] = "lock_store" /\ Moves(t, "lock_mb")
      /\ loc' = [loc EXCEPT ![t].nest = 1, ![t].calls = 1, ![t].snap = 0]
      /\ \/ impl = "rcl" /\ Store(t, Own(t) + 1)
         \/ impl \in {"rcu64", "atomicgp"} /\ Store(t, -loc[t].snap)
         \/ impl = "ts" /\ Store(t, Odd(loc[t].snap))
  BY <1>1 DEF ToyReadLockStore, Goto, Moves, rcl_count, rcg_count, rcpg_count, rcpl_count, rcu64_announce, ts_announce
<1>3. loc'[t].nest = 1 /\ pc'[t] = "lock_mb" /\ loc[t].snap \in Int
  BY <1>1, <1>2 DEF Types, Locals, Moves
<1>4. PICK x \in Int : Store(t, x) /\ Announces(x) /\ (impl = "rcl" => x = 1)
  <2>1. CASE impl = "rcl"
    <3>1. Own(t) = 0
      BY <1>1, <1>2, <2>1 DEF ScanReader, ToyThread, Announced
    <3>2. Store(t, 0 + 1)
      BY <1>2, <2>1, <3>1
    <3>3. Announces(1)
      BY <2>1 DEF Announces
    <3> QED BY <3>2, <3>3
  <2>2. CASE impl \in {"rcu64", "atomicgp"}
    <3>1. loc[t].snap >= ctr
      BY <1>1, <1>2, <2>2 DEF ScanReader
    <3>2. -loc[t].snap \in Int /\ -loc[t].snap <= -ctr
      BY <1>1, <1>3, <3>1
    <3>3. Announces(-loc[t].snap)
      BY <2>2, <3>2 DEF Announces
    <3> QED BY <1>2, <2>2, <3>2, <3>3
  <2>3. CASE impl = "ts"
    <3>1. loc[t].snap <= ctr
      BY <1>1, <1>2, <2>3 DEF ScanReader
    <3>2. Odd(loc[t].snap) \in Int /\ Odd(loc[t].snap) % 2 = 1 /\ Odd(loc[t].snap) <= Odd(ctr)
      BY <1>1, <1>3, <3>1, BitIs
    <3>3. Announces(Odd(loc[t].snap))
      BY <2>3, <3>2 DEF Announces
    <3> QED BY <1>2, <2>3, <3>2, <3>3
  <2> QED BY <1>1, <2>1, <2>2, <2>3
<1>5. Own(t)' = x
  BY <1>1, <1>2, <1>4, StoreIs
<1>6. Announces(x)'
  BY <1>2, <1>4 DEF Announces, Odd, Even
<1>7. ScanReader(t)' /\ ScanWait(t)'
  BY <1>2, <1>3, <1>4, <1>5, <1>6 DEF ScanReader, ScanWait, Reading
<1>8. Advances
  BY <1>1, <1>2 DEF Advances
<1>9. \A e \in Threads : t \notin preexisting'[e]
  <2>1. pc[t] \notin Reading
    BY <1>2 DEF Reading
  <2> QED BY <1>2, <2>1, ScanFacts
<1>10. ScanInv'
  BY <1>2, <1>7, <1>8, <1>9, ScanOthers
<1>11. Outlasted'
  BY <1>1, <1>2, OutlastedStays
<1> QED BY <1>10, <1>11 DEF ScanKept

\* rcl counts the inner levels, too.
LEMMA ScanNestedKeeps ==
  ASSUME ScanAssumed, NEW t \in Threads, ReadLockNested(t), ToyKept(t)
  PROVE  ScanKept
<1>1. DOMAIN pc = Threads /\ Outlasted /\ ToyThread(t) /\ GpInv /\ Types /\ ScanReader(t) /\ ctr \in Int
      /\ impl \in {"rcl", "rcu64", "atomicgp", "ts"} /\ loc[t] \in Locals /\ Own(t) \in Int /\ Values = Int
      /\ Visible(t) \subseteq Int
  BY ScanFacts DEF ScanAssumed, ToyAssumed, Values
<1>2. /\ UNCHANGED <<impl, ctr, reader, preexisting>> /\ pc[t] = "reading" /\ Moves(t, "nest_mb")
      /\ loc' = [loc EXCEPT ![t].nest = @ + 1, ![t].calls = @ + 1]
      /\ impl = "rcl" /\ Store(t, Own(t) + 1)
  BY <1>1 DEF ReadLockNested, Goto, Moves, rcl_count, rcg_count, Nestable, Counting
<1>3. loc'[t].nest = loc[t].nest + 1 /\ pc'[t] = "nest_mb" /\ loc[t].nest \in Nat /\ loc[t].nest >= 1
  BY <1>1, <1>2 DEF Types, Locals, Moves, ToyThread, Announced
<1>4. Own(t) = loc[t].nest /\ \A x \in Visible(t) : x >= 1
  BY <1>1, <1>2 DEF ScanReader, Announces, Reading
<1> DEFINE y == Own(t) + 1
<1>5. y \in Int /\ y >= 1 /\ y = loc'[t].nest
  BY <1>1, <1>3, <1>4
<1>6. Store(t, y)
  BY <1>2
<1> HIDE DEF y
<1>7. Own(t)' = y /\ Visible(t)' = Visible(t) \union {y}
  BY <1>1, <1>2, <1>5, <1>6, StoreIs
<1>8. ScanReader(t)' /\ ScanWait(t)'
  BY <1>2, <1>3, <1>4, <1>5, <1>7 DEF ScanReader, ScanWait, Announces
<1>9. Advances
  BY <1>2 DEF Advances
<1>10. Counts(t)
  BY <1>2, <1>5, <1>7 DEF Counts
<1>11. ScanInv'
  BY <1>2, <1>8, <1>9, <1>10, ScanOthers
<1>12. Outlasted'
  BY <1>1, <1>2, OutlastedStays
<1> QED BY <1>11, <1>12 DEF ScanKept

\* rcu_read_unlock() takes the announcement, or a level of it, back.
LEMMA ScanUnlockStoreKeeps ==
  ASSUME ScanAssumed, NEW t \in Threads, ToyReadUnlockStore(t), ToyKept(t)
  PROVE  ScanKept
<1>1. DOMAIN pc = Threads /\ Outlasted /\ ToyThread(t) /\ GpInv /\ Types /\ ScanReader(t) /\ ctr \in Int
      /\ impl \in {"rcl", "rcu64", "atomicgp", "ts"} /\ loc[t] \in Locals
      /\ Own(t) \in Int /\ Values = Int /\ Visible(t) \subseteq Int
  BY ScanFacts DEF ScanAssumed, ToyAssumed, Values
<1>2. /\ UNCHANGED <<impl, ctr, reader, preexisting>>
      /\ \/ pc[t] = "unlock_store" /\ Moves(t, "idle") /\ Forget(t)
         \/ /\ pc[t] = "unnest_store" /\ Moves(t, "reading") /\ loc' = [loc EXCEPT ![t].nest = @ - 1]
            /\ impl = "rcl"
      /\ impl = "rcl" => Store(t, Own(t) + -1)
  BY <1>1 DEF ToyReadUnlockStore, Goto, Moves, rcl_count, rcg_count, rcpg_count, rcpl_count, rcu64_retract, ts_retract,
              Counting
<1>3. Advances
  BY <1>1, <1>2 DEF Advances
<1> DEFINE y == Own(t) + -1
<1>4. y \in Int /\ (impl = "rcl" => Store(t, y))
  BY <1>1, <1>2
<1> HIDE DEF y
<1>5. impl = "rcl" => Own(t)' = y /\ Visible(t)' = Visible(t) \union {y}
  BY <1>1, <1>2, <1>4, StoreIs
<1>6. CASE pc[t] = "unlock_store" /\ Moves(t, "idle") /\ Forget(t)
  <2>1. loc'[t].nest = 0 /\ pc'[t] = "idle"
    BY <1>1, <1>6, ForgetIs DEF Moves, Registers
  <2>2. impl = "rcl" => y = 0
    <3>1. impl = "rcl" => Own(t) = 1
      BY <1>1, <1>6 DEF ScanReader, ToyThread
    <3> QED BY <3>1 DEF y
  <2>3. ScanReader(t)' /\ ScanWait(t)'
    BY <1>2, <1>5, <2>1, <2>2 DEF ScanReader, ScanWait, Reading
  <2>4. \A e \in Threads : t \notin preexisting'[e]
    <3>1. pc[t] \notin Reading
      BY <1>6 DEF Reading
    <3> QED BY <1>2, <3>1, ScanFacts
  <2>5. ScanInv'
    BY <1>2, <1>3, <2>3, <2>4, ScanOthers
  <2>6. Outlasted'
    BY <1>1, <1>2, <1>6, OutlastedStays
  <2> QED BY <2>5, <2>6 DEF ScanKept
<1>7. CASE pc[t] = "unnest_store" /\ Moves(t, "reading") /\ loc' = [loc EXCEPT ![t].nest = @ - 1] /\ impl = "rcl"
  <2>1. loc'[t].nest = loc[t].nest - 1 /\ pc'[t] = "reading" /\ loc[t].nest \in Nat /\ loc[t].nest >= 2
    BY <1>1, <1>7 DEF Types, Locals, Moves, ToyThread
  <2>2. Own(t) = loc[t].nest /\ \A x \in Visible(t) : x >= 1
    BY <1>1, <1>7 DEF ScanReader, Announces, Reading
  <2>3. y >= 1 /\ y = loc'[t].nest
    BY <2>1, <2>2 DEF y
  <2>4. ScanReader(t)' /\ ScanWait(t)'
    BY <1>2, <1>5, <1>7, <2>1, <2>2, <2>3 DEF ScanReader, ScanWait, Announces
  <2>5. Counts(t)
    BY <1>5, <1>7, <2>3 DEF Counts
  <2>6. ScanInv'
    BY <1>2, <1>3, <2>4, <2>5, ScanOthers
  <2>7. Outlasted'
    BY <1>1, <1>2, <1>7, OutlastedStays
  <2> QED BY <2>6, <2>7 DEF ScanKept
<1> QED BY <1>2, <1>6, <1>7

\* A store that becomes visible has been counted with before.
LEMMA ScanDrainKeeps ==
  ASSUME ScanAssumed, NEW t \in Threads, DrainStore(t), ToyKept(t)
  PROVE  ScanKept
<1>1. Drains(t) /\ UNCHANGED <<impl, ctr, loc, pc, preexisting>>
  BY DEF DrainStore, Drains
<1>2. Outlasted /\ Types /\ ctr \in Int /\ ScanReader(t) /\ ScanWait(t)
      /\ GpInv
  BY ScanFacts DEF ScanAssumed, ToyAssumed
<1>3. Own(t)' = Own(t) /\ Visible(t)' \subseteq Visible(t) /\ \A e \in Threads \ {t} : Unread(e)
  BY <1>1, <1>2, DrainIs
<1>4. \A y : Announces(y)' = Announces(y)
  BY <1>1 DEF Announces, Odd, Even
<1>5. ScanReader(t)'
  BY <1>1, <1>2, <1>3, <1>4 DEF ScanReader
<1>6. ScanWait(t)'
  <2>1. \A v \in preexisting[t] : Visible(v)' \subseteq Visible(v)
    <3>1. \A v \in Threads : v = t \/ v \in Threads \ {t}
      OBVIOUS
    <3>2. \A v \in Threads \ {t} : Visible(v)' = Visible(v)
      BY <1>3, UnreadIs
    <3> QED BY <1>2, <1>3, <3>1, <3>2 DEF GpInv
  <2>2. \A y : Early(t, y)' = Early(t, y)
    BY <1>1 DEF Early
  <2> QED BY <1>1, <1>2, <2>1, <2>2 DEF ScanWait
<1>7. Advances
  BY <1>1, <1>2 DEF Advances
<1>8. Counts(t)
  BY <1>3 DEF Counts
<1>9. ScanInv'
  BY <1>1, <1>5, <1>6, <1>7, <1>8, ScanOthers
<1>10. Outlasted'
  BY <1>1, <1>2 DEF Outlasted
<1> QED BY <1>9, <1>10 DEF ScanKept

\* Every step of these implementations
LEMMA ScanKeeps ==
  ASSUME ScanAssumed, NEW t \in Threads, ToySteps(t)
  PROVE  ScanKept
<1>1. ToyKept(t)
  BY ToyStepKeeps DEF ScanAssumed
<1> QED BY <1>1, ScanMbKeeps, ScanSyncKeeps, ScanLoadKeeps, ScanWaitKeeps, ScanAdvanceKeeps, ScanReadLoadKeeps,
           ScanLockStoreKeeps, ScanNestedKeeps, ScanUnlockStoreKeeps, ScanDrainKeeps DEF ToySteps

-----------------------------------------------------------------------------
\* The common count: rcg
RcgAssumed == ToyAssumed /\ impl = "rcg" /\ RcgInv
RcgKept == RcgInv' /\ Outlasted'

\* There are finitely many threads.
LEMMA ThreadsFinite == IsFiniteSet(Threads)
  BY Setting, FS_Interval

\* There are finitely many levels of nesting.
LEMMA LevelsFinite == IsFiniteSet(Levels)
<1>1. IsFiniteSet(1 .. MaxNest)
  BY Setting, FS_Interval
<1>2. IsFiniteSet(Threads \X (1 .. MaxNest))
  BY <1>1, ThreadsFinite, FS_Product
<1> QED BY <1>2, FS_Subset DEF Levels

\* One level more
LEMMA LevelEntered ==
  ASSUME NEW t \in Threads, NEW n \in Nat, n < MaxNest, loc[t].nest = n, loc'[t].nest = n + 1,
         \A e \in Threads \ {t} : loc'[e] = loc[e]
  PROVE  Cardinality(Levels') = Cardinality(Levels) + 1
<1> DEFINE l == <<t, n + 1>>
<1>1. MaxNest \in Nat
  BY Setting
<1>2. \A k \in 1 .. MaxNest : k <= n + 1 <=> k <= n \/ k = n + 1
  BY <1>1
<1>3. n + 1 \in 1 .. MaxNest /\ ~ (n + 1 <= n)
  BY <1>1
<1>4. l \notin Levels
  BY <1>3 DEF Levels
<1>5. ASSUME NEW p \in Threads \X (1 .. MaxNest)
      PROVE  p[2] <= loc'[p[1]].nest <=> p[2] <= loc[p[1]].nest \/ p = l
  <2>1. PICK e \in Threads, k \in 1 .. MaxNest : p = <<e, k>>
    OBVIOUS
  <2>2. CASE e = t
    BY <1>2, <2>1, <2>2
  <2>3. CASE e # t
    BY <2>1, <2>3
  <2> QED BY <2>2, <2>3
<1>6. Levels' = Levels \union {l}
  <2>1. l \in Threads \X (1 .. MaxNest)
    BY <1>3
  <2> HIDE DEF l
  <2> QED BY <1>5, <2>1 DEF Levels, Threads
<1> QED BY <1>4, <1>6, LevelsFinite, FS_AddElement

\* One level less
LEMMA LevelLeft ==
  ASSUME NEW t \in Threads, NEW n \in Nat, n >= 1, n <= MaxNest, loc[t].nest = n, loc'[t].nest = n - 1,
         \A e \in Threads \ {t} : loc'[e] = loc[e]
  PROVE  Cardinality(Levels') = Cardinality(Levels) - 1
<1> DEFINE l == <<t, n>>
<1>1. MaxNest \in Nat
  BY Setting
<1>2. \A k \in 1 .. MaxNest : k <= n - 1 <=> k <= n /\ k # n
  BY <1>1
<1>3. n \in 1 .. MaxNest /\ n <= n
  BY <1>1
<1>4. l \in Levels
  BY <1>3 DEF Levels
<1>5. ASSUME NEW p \in Threads \X (1 .. MaxNest)
      PROVE  p[2] <= loc'[p[1]].nest <=> p[2] <= loc[p[1]].nest /\ p # l
  <2>1. PICK e \in Threads, k \in 1 .. MaxNest : p = <<e, k>>
    OBVIOUS
  <2>2. CASE e = t
    BY <1>2, <2>1, <2>2
  <2>3. CASE e # t
    BY <2>1, <2>3
  <2> QED BY <2>2, <2>3
<1>6. Levels' = Levels \ {l}
  <2> HIDE DEF l
  <2> QED BY <1>5 DEF Levels, Threads
<1> QED BY <1>4, <1>6, LevelsFinite, FS_RemoveElement

\* The levels change with nest alone.
LEMMA LevelsStay ==
  ASSUME \A e \in Threads : loc'[e].nest = loc[e].nest
  PROVE  Levels' = Levels
<1>1. \A p \in Threads \X (1 .. MaxNest) : p[2] <= loc'[p[1]].nest <=> p[2] <= loc[p[1]].nest
  OBVIOUS
<1> QED BY <1>1 DEF Levels, Threads

\* What the invariant says about t
LEMMA RcgFacts ==
  ASSUME RcgAssumed, NEW t \in Threads
  PROVE  /\ impl = "rcg" /\ Types /\ GpInv /\ Outlasted /\ DOMAIN pc = Threads /\ ToyThread(t)
         /\ loc[t] \in Locals /\ loc[t].nest \in Nat /\ loc[t].calls \in Nat /\ shared[0] \in Int
         /\ shared \in Pairs /\ shared[0] = Cardinality(Levels) /\ Cardinality(Levels) \in Nat
<1>1. Cardinality(Levels) \in Nat
  BY LevelsFinite, FS_CardinalityType
<1>2. loc[t] \in Locals /\ shared \in Pairs
  BY DEF RcgAssumed, ToyAssumed, Types
<1>3. loc[t].nest \in Nat /\ loc[t].calls \in Nat
  BY <1>2 DEF Locals
<1>4. shared[0] \in Int
  BY <1>2 DEF Pairs
<1> QED BY <1>1, <1>2, <1>3, <1>4 DEF RcgAssumed, ToyAssumed, ToyCore, RcgInv

\* rcu_read_lock(), also a nested one
LEMMA RcgEnterKeeps ==
  ASSUME RcgAssumed, NEW t \in Threads, ToyReadLockStore(t) \/ ReadLockNested(t), ToyKept(t)
  PROVE  RcgKept
<1>1. /\ UNCHANGED <<impl, preexisting>>
      /\ Moves(t, "lock_mb") \/ Moves(t, "nest_mb")
      /\ shared' = [shared EXCEPT ![0] = @ + 1]
      /\ \/ pc[t] = "lock_store" /\ loc' = [loc EXCEPT ![t].nest = 1, ![t].calls = 1, ![t].snap = 0]
         \/ pc[t] = "reading" /\ loc' = [loc EXCEPT ![t].nest = @ + 1, ![t].calls = @ + 1] /\ loc[t].calls < MaxNest
  BY RcgFacts DEF ToyReadLockStore, ReadLockNested, Goto, Moves, rcl_count, rcg_count, rcpg_count, rcpl_count,
                  rcu64_announce, ts_announce, Counting
<1>2. loc[t].nest \in Nat /\ loc[t].nest < MaxNest /\ MaxNest \in Nat \ {0}
  <2>1. CASE pc[t] = "lock_store"
    <3>1. loc[t].nest = 0
      BY <2>1, RcgFacts DEF ToyThread, Announced
    <3> QED BY <3>1, Setting
  <2>2. CASE pc[t] = "reading" /\ loc[t].calls < MaxNest
    <3>1. loc[t].nest <= loc[t].calls
      BY <2>2, RcgFacts DEF ToyThread, Announced
    <3> QED BY <2>2, <3>1, RcgFacts, Setting
  <2> QED BY <1>1, <2>1, <2>2
<1>3. loc'[t].nest = loc[t].nest + 1 /\ \A e \in Threads \ {t} : loc'[e] = loc[e]
  <2>1. CASE pc[t] = "lock_store" /\ loc' = [loc EXCEPT ![t].nest = 1, ![t].calls = 1, ![t].snap = 0]
    <3>1. loc[t].nest = 0
      BY <2>1, RcgFacts DEF ToyThread, Announced
    <3>2. loc'[t].nest = 1 /\ \A e \in Threads \ {t} : loc'[e] = loc[e]
      BY <2>1, RcgFacts DEF Types, Locals
    <3> QED BY <3>1, <3>2
  <2>2. CASE loc' = [loc EXCEPT ![t].nest = @ + 1, ![t].calls = @ + 1]
    BY <2>2, RcgFacts DEF Types, Locals
  <2> QED BY <1>1, <2>1, <2>2
<1>4. Cardinality(Levels') = Cardinality(Levels) + 1
  BY <1>2, <1>3, LevelEntered
<1>5. shared'[0] = shared[0] + 1
  BY <1>1, RcgFacts DEF Pairs
<1>6. RcgInv'
  BY <1>4, <1>5, RcgFacts DEF RcgInv
<1>7. Outlasted'
  BY <1>1, RcgFacts, OutlastedStays
<1> QED BY <1>6, <1>7 DEF RcgKept

\* rcu_read_unlock(), of any level
LEMMA RcgLeaveKeeps ==
  ASSUME RcgAssumed, NEW t \in Threads, ToyReadUnlockStore(t), ToyKept(t)
  PROVE  RcgKept
<1>1. /\ UNCHANGED <<impl, preexisting>>
      /\ Moves(t, "idle") \/ Moves(t, "reading")
      /\ shared' = [shared EXCEPT ![0] = @ + -1]
      /\ \/ pc[t] = "unlock_store" /\ Forget(t)
         \/ pc[t] = "unnest_store" /\ loc' = [loc EXCEPT ![t].nest = @ - 1]
  BY RcgFacts DEF ToyReadUnlockStore, Goto, Moves, rcl_count, rcg_count, rcpg_count, rcpl_count,
                  rcu64_retract, ts_retract, Counting
<1>2. loc[t].nest \in Nat /\ loc[t].nest >= 1 /\ loc[t].nest <= MaxNest
  <2>1. loc[t].nest >= 1 /\ loc[t].nest <= loc[t].calls /\ loc[t].calls <= MaxNest
    BY <1>1, RcgFacts DEF ToyThread, Announced
  <2> QED BY <2>1, RcgFacts, Setting
<1>3. loc'[t].nest = loc[t].nest - 1 /\ \A e \in Threads \ {t} : loc'[e] = loc[e]
  <2>1. CASE pc[t] = "unlock_store" /\ Forget(t)
    <3>1. loc[t].nest = 1
      BY <2>1, RcgFacts DEF ToyThread
    <3>2. loc'[t].nest = 0 /\ \A e \in Threads \ {t} : loc'[e] = loc[e]
      BY <2>1, RcgFacts, ForgetIs DEF Registers
    <3> QED BY <3>1, <3>2
  <2>2. CASE loc' = [loc EXCEPT ![t].nest = @ - 1]
    BY <2>2, RcgFacts DEF Types, Locals
  <2> QED BY <1>1, <2>1, <2>2
<1>4. Cardinality(Levels') = Cardinality(Levels) - 1
  BY <1>2, <1>3, LevelLeft
<1>5. shared'[0] = shared[0] + -1
  BY <1>1, RcgFacts DEF Pairs
<1>6. RcgInv'
  BY <1>4, <1>5, RcgFacts DEF RcgInv
<1>7. Outlasted'
  BY <1>1, RcgFacts, OutlastedStays
<1> QED BY <1>6, <1>7 DEF RcgKept

\* The count at 0: nobody is inside.
LEMMA RcgWaitKeeps ==
  ASSUME RcgAssumed, NEW t \in Threads, ToySyncWait(t), ToyKept(t)
  PROVE  RcgKept
<1>1. /\ UNCHANGED <<shared, preexisting>> /\ Moves(t, "sync_return") /\ shared[0] = 0
      /\ loc'[t].nest = loc[t].nest /\ \A e \in Threads \ {t} : loc'[e] = loc[e]
  <2>1. LastScanned(t) /\ AfterWait(t) = "sync_return"
    BY RcgFacts DEF LastScanned, AfterWait, Counting, Unlocked
  <2>2. Passes(t) => shared[0] = 0
    BY RcgFacts DEF Passes, rcl_passes, rcg_passes, rcpg_passes, rcpl_passes, rcu64_passes, atomicgp_passes, ts_passes
  <2> QED BY <2>1, <2>2, ToyWait DEF RcgAssumed
<1>2. Levels = {}
  BY <1>1, RcgFacts, LevelsFinite, FS_EmptySet
<1>3. Inside = {}
  <2>1. ASSUME NEW e \in Inside PROVE FALSE
    <3>1. e \in Threads /\ pc[e] \in Announced
      BY RcgFacts DEF Inside, Announced, RcgAssumed, ToyAssumed, ToyCore, ToyLocs
    <3>2. loc[e].nest >= 1
      BY <3>1, RcgFacts DEF ToyThread
    <3>3. 1 \in 1 .. MaxNest
      BY Setting
    <3>4. <<e, 1>> \in Levels
      BY <3>1, <3>2, <3>3 DEF Levels
    <3> QED BY <1>2, <3>4
  <2> QED BY <2>1
<1>4. preexisting[t] = {}
  BY <1>3, RcgFacts DEF GpInv
<1>5. Levels' = Levels
  BY <1>1, LevelsStay
<1>6. RcgInv'
  BY <1>1, <1>5, RcgFacts DEF RcgInv
<1>7. Outlasted'
  BY <1>1, <1>4, RcgFacts, OutlastedStays
<1> QED BY <1>6, <1>7 DEF RcgKept

\* The other steps leave the count and the levels alone.
LEMMA RcgQuietKeeps ==
  ASSUME RcgAssumed, NEW t \in Threads, ToyKept(t),
         \/ ToyReadLockLoad(t) \/ ReadLockMb(t) \/ ReadUnlockMb(t) \/ ReadUnlockLoad(t) \/ SyncCall(t)
         \/ ToySyncLock(t) \/ atomicgp_load(t) \/ ToySyncAdvance(t) \/ SyncUnlock(t) \/ SyncReturn(t) \/ DrainStore(t)
  PROVE  RcgKept
<1>1. impl = "rcg" /\ Types /\ DOMAIN pc = Threads /\ ToyThread(t) /\ Outlasted /\ GpInv
  BY RcgFacts
<1>2. ~ atomicgp_load(t) /\ ~ ToySyncAdvance(t) /\ ~ SyncUnlock(t)
  <2>1. ~ atomicgp_load(t) /\ ~ SyncUnlock(t)
    BY <1>1 DEF atomicgp_load, SyncUnlock, Goto, ToyThread, Unlocked
  <2>2. ~ ToySyncAdvance(t)
    BY <1>1 DEF ToySyncAdvance, rcl_advance, rcpl_advance, rcu64_advance, atomicgp_advance, ts_advance, Counting
  <2> QED BY <2>1, <2>2
<1>3. shared' = shared
  BY <1>2 DEF ToyReadLockLoad, ReadLockMb, ReadUnlockMb, ReadUnlockLoad, SyncCall, ToySyncLock, SyncReturn, DrainStore
<1>4. loc'[t].nest = loc[t].nest
  <2>1. CASE Load(t)
    BY <1>1, <2>1, ToyLoad DEF RcgAssumed, ToyAssumed, Toys
  <2>2. CASE UNCHANGED loc
    BY <2>2
  <2>3. CASE SyncReturn(t)
    <3>1. loc[t].nest = 0
      BY <1>1, <2>3 DEF SyncReturn, Goto, ToyThread, Announced
    <3>2. loc'[t].nest = 0
      BY <1>1, <2>3, ForgetIs DEF SyncReturn, Registers
    <3> QED BY <3>1, <3>2
  <2> QED BY <1>2, <2>1, <2>2, <2>3 DEF ToyReadLockLoad, ReadLockMb, ReadUnlockMb, ReadUnlockLoad, SyncCall, ToySyncLock,
                                        DrainStore
<1>5. Levels' = Levels
  BY <1>4, LevelsStay DEF ToyKept, Frame
<1>6. RcgInv'
  BY <1>3, <1>5, RcgFacts DEF RcgInv
<1>7. CASE DrainStore(t)
  <2>1. Outlasted'
    BY <1>1, <1>7 DEF DrainStore, Outlasted
  <2> QED BY <1>6, <2>1 DEF RcgKept
<1>8. CASE ~ DrainStore(t)
  <2>1. /\ \A e \in Threads \ {t} : preexisting'[e] \subseteq preexisting[e]
        /\ \E x \in {"lock_store", "reading", "unlock_load", "unnest_store", "unlock_store", "sync_lock", "sync_wait",
                     "sync_load", "sync_advance", "idle"} : Moves(t, x)
    <3>1. CASE ReadUnlockMb(t)
      BY <3>1 DEF ReadUnlockMb, Goto, Moves, Outlast
    <3>2. CASE SyncCall(t)
      BY <1>1, <3>2 DEF SyncCall, Goto, Moves, GpInv
    <3>3. CASE ToySyncLock(t)
      BY <1>1, <3>3 DEF ToySyncLock, Goto, Moves
    <3> QED BY <1>2, <1>8, <3>1, <3>2, <3>3 DEF ToyReadLockLoad, ReadLockMb, ReadUnlockLoad, SyncReturn, Goto, Moves
  <2>2. Outlasted'
    BY <1>1, <2>1, OutlastedStays
  <2> QED BY <1>6, <2>2 DEF RcgKept
<1> QED BY <1>7, <1>8

\* rcu_rcg: the common count is the number of levels entered, after every step.
LEMMA RcgKeeps ==
  ASSUME RcgAssumed, NEW t \in Threads, ToySteps(t)
  PROVE  RcgKept
<1>1. ToyKept(t)
  BY ToyStepKeeps DEF RcgAssumed
<1> QED BY <1>1, RcgEnterKeeps, RcgLeaveKeeps, RcgWaitKeeps, RcgQuietKeeps DEF ToySteps

-----------------------------------------------------------------------------
\* Counts for two indices: rcpg and rcpl
CountAssumed == ToyAssumed /\ impl \in Counting /\ CountInv
CountKept == CountInv' /\ Outlasted'

\* What the invariant says about t
LEMMA CountFacts ==
  ASSUME CountAssumed, NEW t \in Threads
  PROVE  /\ impl \in {"rcpg", "rcpl"} /\ Types /\ GpInv /\ Outlasted /\ DOMAIN pc = Threads /\ ToyThread(t)
         /\ ctr \in 0 .. 1 /\ loc[t] \in Locals /\ loc[t].idx \in 0 .. 1 /\ CountThread(t) /\ CountWait(t)
         /\ \A e \in Threads : t \in preexisting[e] => pc[t] \in Reading
         /\ impl = "rcpl" => Values = Pairs
         /\ loc[t].flip \in {1, 2}
<1>1. /\ impl \in {"rcpg", "rcpl"} /\ Types /\ GpInv /\ Outlasted /\ DOMAIN pc = Threads /\ ToyThread(t)
      /\ ctr \in 0 .. 1 /\ loc[t] \in Locals /\ CountThread(t) /\ CountWait(t)
  BY DEF CountAssumed, CountInv, ToyAssumed, ToyCore, Types, Counting
<1>2. \A e \in Threads : t \in preexisting[e] => pc[t] \in Reading
  BY <1>1 DEF GpInv, Inside, Reading
<1>3. loc[t].flip \in {1, 2}
  BY <1>1 DEF Locals
<1> QED BY <1>1, <1>2, <1>3 DEF CountThread, Values

\* What a step of t leaves of the others: indexes, and the counts for each
LEMMA CountOthers ==
  ASSUME CountAssumed, NEW t \in Threads, ToyKept(t), UNCHANGED impl, ctr' \in 0 .. 1,
         ctr' = ctr \/ pc[t] \in Holding,
         pc[t] \in Reading => loc'[t].idx = loc[t].idx,
         \A e \in Threads \ {t} : preexisting'[e] \subseteq preexisting[e],
         impl = "rcpg" => \A i \in 0 .. 1 : shared'[i] = Cardinality(Counted(i)'),
         CountThread(t)', CountWait(t)'
  PROVE  CountInv'
<1>1. ASSUME NEW e \in Threads \ {t} PROVE CountThread(e)'
  <2>1. CountThread(e) /\ Own(e)' = Own(e) /\ Drained(e)' = Drained(e) /\ pc'[e] = pc[e] /\ loc'[e] = loc[e]
    BY CountFacts, UnreadIs DEF ToyKept, Frame
  <2>2. Shown(e)' = Shown(e)
    BY <2>1 DEF Shown
  <2> QED BY <2>1, <2>2 DEF CountThread
<1>2. ASSUME NEW e \in Threads \ {t} PROVE CountWait(e)'
  <2>1. CountWait(e) /\ pc'[e] = pc[e] /\ loc'[e] = loc[e] /\ preexisting'[e] \subseteq preexisting[e]
    BY CountFacts DEF ToyKept, Frame
  <2>2. CASE pc[e] \in Holding
    <3>1. mutex[NoThread] = e /\ (pc[t] \in Holding => mutex[NoThread] = t)
      BY <2>2, CountFacts DEF ToyThread, Unlocked
    <3>2. ctr' = ctr
      BY <3>1
    <3>3. \A v \in preexisting'[e] : loc'[v].idx = loc[v].idx
      <4>1. ASSUME NEW v \in preexisting'[e] PROVE loc'[v].idx = loc[v].idx
        <5>1. v \in Threads /\ pc[v] \in Reading
          BY <2>1, CountFacts DEF GpInv
        <5> QED BY <5>1 DEF ToyKept, Frame
      <4> QED BY <4>1
    <3> QED BY <2>1, <3>2, <3>3 DEF CountWait
  <2>3. CASE pc[e] \notin Holding
    BY <2>1, <2>3 DEF CountWait, Holding
  <2> QED BY <2>2, <2>3
<1> QED BY <1>1, <1>2 DEF CountInv, Threads

\* Steps that leave the counts alone
LEMMA CountQuiet ==
  ASSUME CountAssumed, NEW t \in Threads, ToyKept(t), UNCHANGED <<impl, shared, reader, buffer>>, NEW x, Moves(t, x),
         ctr' \in 0 .. 1, ctr' = ctr \/ pc[t] \in Holding,
         \A e \in Threads \ {t} : preexisting'[e] \subseteq preexisting[e],
         pc[t] \in Announced <=> x \in Announced,
         pc[t] \in Announced => loc'[t].idx = loc[t].idx,
         loc'[t].idx \in 0 .. 1,
         x \in Reading => Drained(t),
         x \notin {"sync_advance", "sync_wait", "sync_unlock", "sync_return"} => loc'[t].flip = 1,
         CountWait(t)'
  PROVE  CountInv'
<1>1. CountThread(t) /\ DOMAIN pc = Threads /\ (pc[t] \in Reading => pc[t] \in Announced)
  BY CountFacts DEF Reading, Announced, CountAssumed, ToyAssumed, ToyCore, ToyLocs
<1>2. Own(t)' = Own(t) /\ Drained(t)' = Drained(t) /\ pc'[t] = x
  BY <1>1, UnreadIs DEF Unread, Moves
<1>3. Shown(t)' = Shown(t)
  BY <1>1, <1>2 DEF Shown
<1>4. CountThread(t)'
  BY <1>1, <1>2, <1>3 DEF CountThread
<1>5. \A i \in 0 .. 1 : Counted(i)' = Counted(i)
  BY <1>2 DEF Counted, ToyKept, Frame, Threads
<1>6. impl = "rcpg" => \A i \in 0 .. 1 : shared'[i] = Cardinality(Counted(i)')
  BY <1>5 DEF CountAssumed, CountInv
<1> QED BY <1>1, <1>4, <1>6, CountOthers

\* Readers load the index, nest, and execute barriers.
LEMMA CountReadKeeps ==
  ASSUME CountAssumed, NEW t \in Threads, ToyKept(t),
         \/ ToyReadLockLoad(t) \/ ReadLockNested(t) \/ ReadLockMb(t) \/ ReadUnlockMb(t) \/ ReadUnlockLoad(t)
         \/ (ToyReadUnlockStore(t) /\ pc[t] = "unnest_store")
  PROVE  CountKept
<1>1. impl \in {"rcpg", "rcpl"} /\ Types /\ GpInv /\ Outlasted /\ DOMAIN pc = Threads /\ ToyThread(t) /\ ctr \in 0 .. 1
      /\ CountThread(t) /\ loc[t] \in Locals
  BY CountFacts
<1>2. UNCHANGED <<impl, shared, reader, buffer>>
  BY <1>1 DEF ToyReadLockLoad, ReadLockNested, ReadLockMb, ReadUnlockMb, ReadUnlockLoad, ToyReadUnlockStore, Goto,
              rcl_count, rcg_count, Counting
<1>3. PICK x :
        /\ Moves(t, x)
        /\ \/ pc[t] = "idle" /\ x = "lock_store" /\ ToyReadLockLoad(t)
           \/ pc[t] = "reading" /\ x = "nest_mb" /\ ReadLockNested(t)
           \/ pc[t] \in {"lock_mb", "nest_mb"} /\ x = "reading" /\ ReadLockMb(t)
           \/ pc[t] = "reading" /\ x \in {"unlock_load", "unnest_store"} /\ ReadUnlockMb(t)
           \/ pc[t] = "unlock_load" /\ x = "unlock_store" /\ ReadUnlockLoad(t)
           \/ pc[t] = "unnest_store" /\ x = "reading" /\ ToyReadUnlockStore(t)
  BY DEF ToyReadLockLoad, ReadLockNested, ReadLockMb, ReadUnlockMb, ReadUnlockLoad, ToyReadUnlockStore, Goto, Moves
<1>4. ctr' = ctr /\ loc'[t].flip = loc[t].flip /\ loc'[t].idx = IF pc[t] = "idle" THEN ctr ELSE loc[t].idx
  <2>1. CASE ToyReadLockLoad(t)
    BY <1>1, <2>1, ToyLoad DEF ToyReadLockLoad, Goto, CountAssumed, ToyAssumed, Toys, Counting
  <2>2. CASE ReadLockMb(t) \/ ReadUnlockMb(t) \/ ReadUnlockLoad(t)
    BY <1>1, <2>2 DEF ReadLockMb, ReadUnlockMb, ReadUnlockLoad, Goto, Numbered
  <2>3. CASE ReadLockNested(t)
    <3>1. loc' = [loc EXCEPT ![t].nest = @ + 1, ![t].calls = @ + 1] /\ ctr' = ctr /\ pc[t] = "reading"
      BY <2>3 DEF ReadLockNested, Goto
    <3> QED BY <1>1, <3>1 DEF Types, Locals
  <2>4. CASE ToyReadUnlockStore(t) /\ pc[t] = "unnest_store"
    <3>1. loc' = [loc EXCEPT ![t].nest = @ - 1] /\ ctr' = ctr
      BY <2>4 DEF ToyReadUnlockStore, Goto
    <3> QED BY <1>1, <2>4, <3>1 DEF Types, Locals
  <2> QED BY <1>3, <2>1, <2>2, <2>3, <2>4
<1>5. \A e \in Threads : preexisting'[e] \subseteq preexisting[e]
  <2>1. CASE ReadUnlockMb(t)
    BY <2>1 DEF ReadUnlockMb, Outlast
  <2> QED BY <1>3, <2>1 DEF ToyReadLockLoad, ReadLockNested, ReadLockMb, ReadUnlockLoad, ToyReadUnlockStore
<1>6. x \in Reading => Drained(t)
  <2>1. CASE ReadLockMb(t)
    BY <2>1 DEF ReadLockMb
  <2>2. CASE pc[t] \in Reading
    BY <1>1, <2>2 DEF CountThread
  <2> QED BY <1>3, <2>1, <2>2 DEF Reading
<1>7. CountWait(t)'
  BY <1>1, <1>3 DEF CountWait, Moves
<1>8. CountInv'
  BY <1>1, <1>2, <1>3, <1>4, <1>5, <1>6, <1>7, CountQuiet DEF Announced, CountThread
<1>9. Outlasted'
  BY <1>1, <1>3, <1>5, OutlastedStays
<1> QED BY <1>8, <1>9 DEF CountKept

\* synchronize_rcu() called, its lock taken, the index flipped, the lock released, and the return
LEMMA CountSyncKeeps ==
  ASSUME CountAssumed, NEW t \in Threads, ToyKept(t),
         SyncCall(t) \/ ToySyncLock(t) \/ atomicgp_load(t) \/ ToySyncAdvance(t) \/ SyncUnlock(t) \/ SyncReturn(t)
  PROVE  CountKept
<1>1. impl \in {"rcpg", "rcpl"} /\ Types /\ GpInv /\ Outlasted /\ DOMAIN pc = Threads /\ ToyThread(t) /\ ctr \in 0 .. 1
      /\ CountThread(t) /\ CountWait(t) /\ loc[t] \in Locals
  BY CountFacts
<1>2. UNCHANGED <<impl, shared, reader, buffer>> /\ ~ atomicgp_load(t)
  BY <1>1 DEF SyncCall, ToySyncLock, atomicgp_load, ToySyncAdvance, SyncUnlock, SyncReturn, Goto, ToyThread
<1>3. PICK x :
        /\ Moves(t, x)
        /\ \/ pc[t] = "idle" /\ x = "sync_lock" /\ SyncCall(t)
           \/ pc[t] = "sync_lock" /\ x = "sync_advance" /\ ToySyncLock(t)
           \/ pc[t] = "sync_advance" /\ x = "sync_wait" /\ ToySyncAdvance(t)
           \/ pc[t] = "sync_unlock" /\ x = "sync_return" /\ SyncUnlock(t)
           \/ pc[t] = "sync_return" /\ x = "idle" /\ SyncReturn(t)
  BY <1>1, <1>2 DEF SyncCall, ToySyncLock, ToySyncAdvance, SyncUnlock, SyncReturn, Goto, Moves
<1>4. /\ loc'[t].flip = IF pc[t] = "sync_return" THEN 1 ELSE loc[t].flip
      /\ loc'[t].idx \in 0 .. 1
      /\ IF pc[t] = "sync_advance" THEN ctr' = 1 - ctr /\ loc'[t].old = ctr /\ loc'[t].scan = loc[t].scan ELSE ctr' = ctr
  <2>1. CASE SyncCall(t) \/ ToySyncLock(t) \/ SyncUnlock(t)
    BY <1>1, <2>1 DEF SyncCall, ToySyncLock, SyncUnlock, Goto, CountThread
  <2>2. CASE SyncReturn(t)
    BY <1>1, <2>2, ForgetIs DEF SyncReturn, Goto, Registers
  <2>3. CASE ToySyncAdvance(t)
    <3>1. /\ loc'[t].flip = loc[t].flip /\ loc'[t].idx = loc[t].idx /\ loc'[t].scan = loc[t].scan
          /\ ctr' = 1 - ctr /\ loc'[t].old = ctr
      BY <1>1, <2>3, ToyAdvance DEF ToySyncAdvance, CountAssumed, Unlocked
    <3>2. pc[t] = "sync_advance"
      BY <2>3 DEF ToySyncAdvance, Goto
    <3> QED BY <1>1, <3>1, <3>2 DEF CountThread
  <2> QED BY <1>3, <2>1, <2>2, <2>3
<1>5. ctr' \in 0 .. 1
  BY <1>1, <1>4
<1>6. \A e \in Threads \ {t} : preexisting'[e] \subseteq preexisting[e]
  BY <1>1, <1>3 DEF SyncCall, ToySyncLock, ToySyncAdvance, SyncUnlock, SyncReturn, GpInv
<1>7. CountWait(t)'
  <2>1. pc'[t] = x
    BY <1>1, <1>3 DEF Moves
  <2>2. CASE x = "sync_wait"
    <3>1. pc[t] = "sync_advance" /\ ToySyncAdvance(t) /\ UNCHANGED preexisting /\ loc[t].scan = 0
      BY <1>1, <1>3, <2>2 DEF ToySyncAdvance, ToyThread
    <3>2. loc'[t].old = 1 - ctr' /\ loc'[t].scan = 0 /\ loc'[t].flip = loc[t].flip
      BY <1>1, <1>4, <3>1
    <3>3. ASSUME NEW v \in preexisting[t]
          PROVE  IF loc'[t].flip = 1 THEN v < loc'[t].scan => loc'[v].idx = ctr'
                                    ELSE v >= loc'[t].scan /\ loc'[v].idx = loc'[t].old
      <4>1. v \in Threads /\ v \in Nat /\ ~ (v < 0) /\ v >= 0 /\ pc[v] \in Reading
        BY <1>1, Setting DEF GpInv, Inside, Reading
      <4>2. v # t
        BY <3>1, <4>1 DEF Reading
      <4>3. loc'[v] = loc[v]
        BY <4>1, <4>2 DEF ToyKept, Frame
      <4>4. loc[t].flip \in {1, 2}
        BY CountFacts
      <4>5. loc[t].flip = 2 => loc[v].idx = ctr
        BY <1>1, <3>1 DEF CountWait
      <4> QED BY <1>4, <3>1, <3>2, <4>1, <4>3, <4>4, <4>5
    <3> QED BY <2>1, <2>2, <3>1, <3>2, <3>3 DEF CountWait
  <2>3. CASE x = "sync_advance"
    BY <1>1, <1>3, <1>4, <2>1, <2>3 DEF CountWait, CountThread
  <2> QED BY <1>3, <2>1, <2>2, <2>3 DEF CountWait
<1>8. CountInv'
  <2>1. pc[t] \notin Announced /\ x \notin Announced /\ x \notin Reading
    BY <1>3 DEF Announced, Reading
  <2>2. ctr' = ctr \/ pc[t] \in Holding
    BY <1>4 DEF Holding
  <2>3. x \notin {"sync_advance", "sync_wait", "sync_unlock", "sync_return"} => loc'[t].flip = 1
    BY <1>1, <1>3, <1>4 DEF CountThread
  <2> QED BY <1>2, <1>3, <1>4, <1>5, <1>6, <1>7, <2>1, <2>2, <2>3, CountQuiet
<1>9. Outlasted'
  <2>1. x \in {"sync_unlock", "sync_return"} => preexisting'[t] = {}
    BY <1>1, <1>3 DEF SyncUnlock, Outlasted
  <2> QED BY <1>1, <1>3, <1>6, <2>1, OutlastedStays
<1> QED BY <1>8, <1>9 DEF CountKept

\* Readers that the wait passes count for the other index.
LEMMA CountPassed ==
  ASSUME CountAssumed, NEW t \in Threads, pc[t] = "sync_wait", Passes(t), NEW v \in preexisting[t],
         impl = "rcpg" \/ v = loc[t].scan
  PROVE  loc[v].idx = ctr
<1>1. v \in Threads /\ pc[v] \in Reading /\ pc[v] \in Announced
  BY CountFacts DEF GpInv, Inside, Reading, Announced, CountAssumed, ToyAssumed, ToyCore, ToyLocs
<1>2. loc[t].old = 1 - ctr /\ ctr \in 0 .. 1 /\ loc[v].idx \in 0 .. 1 /\ 1 - ctr \in 0 .. 1 /\ CountThread(v)
  BY <1>1, CountFacts DEF CountWait
<1>3. CASE impl = "rcpg"
  <2>1. shared[1 - ctr] = 0
    BY <1>2, <1>3 DEF Passes, rcl_passes, rcg_passes, rcpg_passes, rcpl_passes, rcu64_passes, atomicgp_passes, ts_passes
  <2>2. Cardinality(Counted(1 - ctr)) = 0
    BY <1>2, <1>3, <2>1 DEF CountAssumed, CountInv
  <2>3. IsFiniteSet(Counted(1 - ctr))
    BY ThreadsFinite, FS_Subset DEF Counted
  <2>4. v \notin Counted(1 - ctr)
    BY <2>2, <2>3, FS_EmptySet
  <2>5. loc[v].idx # 1 - ctr
    BY <1>1, <2>4 DEF Counted
  <2> QED BY <1>2, <2>5
<1>4. CASE impl = "rcpl"
  <2>1. v = loc[t].scan /\ reader[v][1 - ctr] = 0
    BY <1>2, <1>4 DEF Passes, rcl_passes, rcg_passes, rcpg_passes, rcpl_passes, rcu64_passes, atomicgp_passes, ts_passes
  <2>2. reader[v] = Shown(v)
    BY <1>1, <1>2, <1>4, CountFacts, OwnIs DEF CountThread
  <2>3. Shown(v)[1 - ctr] = IF loc[v].idx = 1 - ctr THEN 1 ELSE 0
    BY <1>1, <1>2 DEF Shown
  <2> QED BY <1>2, <2>1, <2>2, <2>3
<1> QED BY <1>3, <1>4, CountFacts

\* The wait for an index: after the second one, nobody is left to outlast.
LEMMA CountWaitKeeps ==
  ASSUME CountAssumed, NEW t \in Threads, ToyKept(t), ToySyncWait(t)
  PROVE  CountKept
<1>1. impl \in {"rcpg", "rcpl"} /\ Types /\ GpInv /\ Outlasted /\ DOMAIN pc = Threads /\ ToyThread(t) /\ ctr \in 0 .. 1
      /\ CountThread(t) /\ CountWait(t) /\ loc[t] \in Locals /\ loc[t].flip \in {1, 2}
  BY CountFacts
<1>2. /\ pc[t] = "sync_wait" /\ Passes(t) /\ UNCHANGED <<impl, ctr, mutex, shared, reader, buffer, preexisting>>
      /\ \A e \in Threads \ {t} : loc'[e] = loc[e]
      /\ loc'[t].idx = loc[t].idx /\ loc'[t].old = loc[t].old
      /\ LastScanned(t) => loc'[t].scan = 0 /\ loc'[t].flip = 2 /\ Moves(t, AfterWait(t))
      /\ ~ LastScanned(t) => /\ loc'[t].scan = loc[t].scan + 1 /\ loc'[t].flip = loc[t].flip /\ Moves(t, "sync_wait")
  BY ToyWait DEF CountAssumed
<1> DEFINE x == IF LastScanned(t) THEN AfterWait(t) ELSE "sync_wait"
<1>3. Moves(t, x)
  BY <1>2
<1>4. x = IF ~ LastScanned(t) THEN "sync_wait" ELSE IF loc[t].flip = 1 THEN "sync_advance" ELSE "sync_unlock"
  BY <1>1 DEF AfterWait, Counting, Unlocked
<1> HIDE DEF x
<1>5. pc'[t] = x
  BY <1>1, <1>3 DEF Moves
<1>6. ASSUME NEW v \in preexisting[t]
      PROVE  /\ v \in Threads /\ v \in Nat /\ v < NR_THREADS /\ loc'[v].idx = loc[v].idx /\ loc[v].idx \in 0 .. 1
             /\ impl = "rcpg" \/ v = loc[t].scan => loc[v].idx = ctr
             /\ IF loc[t].flip = 1 THEN v < loc[t].scan => loc[v].idx = ctr
                                   ELSE v >= loc[t].scan /\ loc[v].idx = 1 - ctr
  <2>1. v \in Threads /\ pc[v] \in Reading
    BY <1>1 DEF GpInv, Inside, Reading
  <2>2. v \in Nat /\ v < NR_THREADS /\ loc[v].idx \in 0 .. 1
    BY <2>1, Setting, CountFacts
  <2>3. loc'[v].idx = loc[v].idx
    BY <1>2, <2>1
  <2>4. impl = "rcpg" \/ v = loc[t].scan => loc[v].idx = ctr
    BY <1>2, CountPassed
  <2>5. /\ loc[t].old = 1 - ctr
        /\ IF loc[t].flip = 1 THEN v < loc[t].scan => loc[v].idx = ctr
                              ELSE v >= loc[t].scan /\ loc[v].idx = loc[t].old
    BY <1>1, <1>2 DEF CountWait
  <2> QED BY <2>1, <2>2, <2>3, <2>4, <2>5
<1>7. loc[t].scan \in Nat /\ NR_THREADS \in Nat
  BY <1>1, Setting DEF ToyThread
<1>8. LastScanned(t) /\ loc[t].flip = 1 => \A v \in preexisting[t] : loc[v].idx = ctr
  <2>1. ASSUME LastScanned(t), loc[t].flip = 1, NEW v \in preexisting[t] PROVE loc[v].idx = ctr
    <3>1. impl = "rcpg" \/ loc[t].scan = NR_THREADS - 1
      BY <1>1, <2>1 DEF LastScanned
    <3>2. v < loc[t].scan \/ v = loc[t].scan \/ impl = "rcpg"
      BY <1>6, <1>7, <3>1
    <3> QED BY <1>6, <2>1, <3>2
  <2> QED BY <2>1
<1>9. LastScanned(t) /\ loc[t].flip = 2 => preexisting[t] = {}
  <2>1. ASSUME LastScanned(t), loc[t].flip = 2, NEW v \in preexisting[t] PROVE FALSE
    <3>1. impl = "rcpg" \/ loc[t].scan = NR_THREADS - 1
      BY <1>1, <2>1 DEF LastScanned
    <3>2. v >= loc[t].scan /\ loc[v].idx = 1 - ctr
      BY <1>6, <2>1
    <3>3. v = loc[t].scan \/ impl = "rcpg"
      BY <1>6, <1>7, <3>1, <3>2
    <3> QED BY <1>1, <1>6, <3>2, <3>3
  <2> QED BY <2>1
<1>10. CountWait(t)'
  <2>1. CASE LastScanned(t)
    BY <1>1, <1>2, <1>4, <1>5, <1>6, <1>8, <2>1 DEF CountWait
  <2>2. CASE ~ LastScanned(t)
    <3>1. x = "sync_wait" /\ loc'[t].scan = loc[t].scan + 1 /\ loc'[t].flip = loc[t].flip
      BY <1>2, <1>4, <2>2
    <3>2. loc'[t].old = 1 - ctr'
      BY <1>1, <1>2 DEF CountWait
    <3>3. ASSUME NEW v \in preexisting[t]
          PROVE  IF loc'[t].flip = 1 THEN v < loc'[t].scan => loc'[v].idx = ctr'
                                    ELSE v >= loc'[t].scan /\ loc'[v].idx = loc'[t].old
      <4>1. CASE loc[t].flip = 1
        <5>1. v < loc[t].scan + 1 => v < loc[t].scan \/ v = loc[t].scan
          BY <1>6, <1>7
        <5> QED BY <1>2, <1>6, <3>1, <4>1, <5>1
      <4>2. CASE loc[t].flip = 2
        <5>1. v >= loc[t].scan /\ loc[v].idx = 1 - ctr /\ v # loc[t].scan
          BY <1>1, <1>6, <4>2
        <5>2. v >= loc[t].scan + 1
          BY <1>6, <1>7, <5>1
        <5> QED BY <1>2, <1>6, <3>1, <3>2, <4>2, <5>1, <5>2
      <4> QED BY <1>1, <4>1, <4>2
    <3> QED BY <1>2, <1>5, <3>1, <3>2, <3>3 DEF CountWait
  <2> QED BY <2>1, <2>2
<1>11. CountInv'
  <2>1. pc[t] \notin Announced /\ x \notin Announced /\ x \notin Reading
    BY <1>2, <1>4 DEF Announced, Reading
  <2>2. loc'[t].idx \in 0 .. 1
    BY <1>1, <1>2 DEF CountThread
  <2>3. x \in {"sync_advance", "sync_wait", "sync_unlock", "sync_return"}
    BY <1>4
  <2> QED BY <1>1, <1>2, <1>3, <1>10, <2>1, <2>2, <2>3, CountQuiet
<1>12. Outlasted'
  <2>1. x \in {"sync_unlock", "sync_return"} => preexisting'[t] = {}
    BY <1>1, <1>2, <1>4, <1>9
  <2> QED BY <1>1, <1>2, <1>3, <2>1, OutlastedStays
<1> QED BY <1>11, <1>12 DEF CountKept

\* rcu_read_lock() and rcu_read_unlock() change the count of the reader's index.
LEMMA CountStoreKeeps ==
  ASSUME CountAssumed, NEW t \in Threads, ToyKept(t),
         ToyReadLockStore(t) \/ (ToyReadUnlockStore(t) /\ pc[t] = "unlock_store")
  PROVE  CountKept
<1>1. impl \in {"rcpg", "rcpl"} /\ Types /\ GpInv /\ Outlasted /\ DOMAIN pc = Threads /\ ToyThread(t) /\ ctr \in 0 .. 1
      /\ CountThread(t) /\ loc[t] \in Locals /\ loc[t].idx \in 0 .. 1 /\ (impl = "rcpl" => Values = Pairs)
  BY CountFacts
<1> DEFINE k == loc[t].idx
           d == IF pc[t] = "lock_store" THEN 1 ELSE -1
<1>2. /\ UNCHANGED <<impl, ctr, reader, preexisting>>
      /\ \/ /\ pc[t] = "lock_store" /\ Moves(t, "lock_mb")
            /\ loc' = [loc EXCEPT ![t].nest = 1, ![t].calls = 1, ![t].snap = 0]
         \/ pc[t] = "unlock_store" /\ Moves(t, "idle") /\ Forget(t)
      /\ impl = "rcpg" => shared' = [shared EXCEPT ![k] = @ + d] /\ UNCHANGED buffer
      /\ impl = "rcpl" => Store(t, [Own(t) EXCEPT ![k] = @ + d]) /\ UNCHANGED shared
  BY <1>1 DEF ToyReadLockStore, ToyReadUnlockStore, Goto, Moves, rcl_count, rcg_count, rcpg_count, rcpl_count,
              rcu64_announce, rcu64_retract, ts_announce, ts_retract
<1>3. k \in 0 .. 1 /\ d \in {1, -1} /\ d \in Int /\ (d = 1 <=> pc[t] = "lock_store") /\ k = loc[t].idx
  BY <1>1
<1> HIDE DEF k, d
<1>4. /\ loc'[t].idx = IF d = 1 THEN k ELSE 0
      /\ loc'[t].flip = 1
      /\ pc'[t] = IF d = 1 THEN "lock_mb" ELSE "idle"
  <2>1. CASE pc[t] = "lock_store"
    <3>1. loc'[t].idx = loc[t].idx /\ loc'[t].flip = loc[t].flip /\ pc'[t] = "lock_mb"
      BY <1>1, <1>2, <2>1 DEF Types, Locals, Moves
    <3> QED BY <1>1, <1>3, <2>1, <3>1 DEF CountThread
  <2>2. CASE pc[t] = "unlock_store" /\ Moves(t, "idle") /\ Forget(t)
    BY <1>1, <1>3, <2>2, ForgetIs DEF Registers, Moves
  <2> QED BY <1>2, <2>1, <2>2
<1>5. \A i \in 0 .. 1 : t \in Counted(i) <=> d = -1 /\ i = k
  BY <1>2, <1>3 DEF Counted, Announced
<1>6. \A i \in 0 .. 1 : Counted(i)' = IF d = 1 /\ i = k THEN Counted(i) \union {t} ELSE Counted(i) \ {t}
  <2>1. ASSUME NEW i \in 0 .. 1 PROVE t \in Counted(i)' <=> d = 1 /\ i = k
    BY <1>3, <1>4 DEF Counted, Announced, Threads
  <2>2. ASSUME NEW i \in 0 .. 1, NEW e \in Threads \ {t} PROVE e \in Counted(i)' <=> e \in Counted(i)
    BY DEF Counted, ToyKept, Frame, Threads
  <2>3. \A i \in 0 .. 1 : Counted(i) \subseteq Threads /\ Counted(i)' \subseteq Threads
    BY DEF Counted, Threads
  <2> QED BY <2>1, <2>2, <2>3
<1>7. impl = "rcpg" => \A i \in 0 .. 1 : shared'[i] = Cardinality(Counted(i)')
  <2>1. ASSUME impl = "rcpg", NEW i \in 0 .. 1 PROVE shared'[i] = Cardinality(Counted(i)')
    <3>1. IsFiniteSet(Counted(i)) /\ Cardinality(Counted(i)) \in Nat /\ shared[i] = Cardinality(Counted(i))
      <4>1. IsFiniteSet(Counted(i))
        BY ThreadsFinite, FS_Subset DEF Counted
      <4> QED BY <2>1, <4>1, FS_CardinalityType DEF CountAssumed, CountInv
    <3>2. shared'[i] = IF i = k THEN shared[i] + d ELSE shared[i]
      BY <1>1, <1>2, <1>3, <2>1 DEF Types, Pairs
    <3>3. CASE d = 1 /\ i = k
      BY <1>3, <1>5, <1>6, <3>1, <3>2, <3>3, FS_AddElement
    <3>4. CASE d = -1 /\ i = k
      <4>1. Counted(i)' = Counted(i) \ {t} /\ t \in Counted(i)
        BY <1>5, <1>6, <3>4
      <4>2. Cardinality(Counted(i)') = Cardinality(Counted(i)) - 1
        BY <3>1, <4>1, FS_RemoveElement
      <4> QED BY <3>1, <3>2, <3>4, <4>2
    <3>5. CASE i # k
      <4>1. Counted(i)' = Counted(i)
        BY <1>5, <1>6, <3>5
      <4> QED BY <3>1, <3>2, <3>5, <4>1
    <3> QED BY <1>3, <3>3, <3>4, <3>5
  <2> QED BY <2>1
<1>8. impl = "rcpl" => Own(t)' = Shown(t)'
  <2>1. SUFFICES ASSUME impl = "rcpl" PROVE Own(t)' = Shown(t)'
    OBVIOUS
  <2>2. Own(t) \in Pairs /\ Own(t) = Shown(t)
    BY <1>1, <2>1, OwnIs DEF CountThread
  <2> DEFINE q == [Own(t) EXCEPT ![k] = @ + d]
  <2>3. q \in Pairs /\ q[k] = Own(t)[k] + d /\ \A j \in 0 .. 1 : j # k => q[j] = Own(t)[j]
    <3>1. k \in 0 .. 1 /\ d \in Int /\ Own(t) \in Pairs
      BY <1>3, <2>2
    <3> QED BY <3>1, PairPlus
  <2>4. Store(t, q)
    BY <1>2, <2>1
  <2> HIDE DEF q
  <2>5. Own(t)' = q
    BY <1>1, <1>2, <2>1, <2>3, <2>4, StoreIs
  <2>6. \A j \in 0 .. 1 : Own(t)[j] = IF d = -1 /\ j = k THEN 1 ELSE 0
    BY <1>5, <2>2 DEF Shown, Counted
  <2>7. \A j \in 0 .. 1 : q[j] = IF d = 1 /\ j = k THEN 1 ELSE 0
    BY <1>3, <2>3, <2>6
  <2>8. Shown(t)' = [j \in 0 .. 1 |-> IF d = 1 /\ j = k THEN 1 ELSE 0]
    BY <1>3, <1>4 DEF Shown, Announced
  <2>9. q = [j \in 0 .. 1 |-> q[j]]
    BY <2>3 DEF Pairs
  <2>10. q = [j \in 0 .. 1 |-> IF d = 1 /\ j = k THEN 1 ELSE 0]
    BY <2>7, <2>9
  <2> QED BY <2>5, <2>8, <2>10
<1>9. CountThread(t)'
  BY <1>1, <1>2, <1>3, <1>4, <1>8 DEF CountThread, Reading
<1>10. CountWait(t)'
  BY <1>3, <1>4 DEF CountWait
<1>11. CountInv'
  <2>1. pc[t] \notin Reading
    BY <1>2 DEF Reading
  <2> QED BY <1>1, <1>2, <1>7, <1>9, <1>10, <2>1, CountOthers
<1>12. Outlasted'
  BY <1>1, <1>2, OutlastedStays
<1> QED BY <1>11, <1>12 DEF CountKept

\* A store that becomes visible changes no count.
LEMMA CountDrainKeeps ==
  ASSUME CountAssumed, NEW t \in Threads, ToyKept(t), DrainStore(t)
  PROVE  CountKept
<1>1. Drains(t) /\ UNCHANGED <<impl, ctr, shared, loc, pc, preexisting>>
  BY DEF DrainStore, Drains
<1>2. Types /\ Outlasted /\ CountThread(t) /\ CountWait(t) /\ ctr \in 0 .. 1
  BY CountFacts
<1>3. Own(t)' = Own(t) /\ ~ Drained(t)
  BY <1>1, <1>2, DrainIs DEF Drains
<1>4. Shown(t)' = Shown(t) /\ \A i \in 0 .. 1 : Counted(i)' = Counted(i)
  BY <1>1 DEF Shown, Counted
<1>5. CountThread(t)' /\ CountWait(t)'
  BY <1>1, <1>2, <1>3, <1>4 DEF CountThread, CountWait
<1>6. CountInv'
  <2>1. impl = "rcpg" => \A i \in 0 .. 1 : shared'[i] = Cardinality(Counted(i)')
    BY <1>1, <1>4 DEF CountAssumed, CountInv
  <2> QED BY <1>1, <1>2, <1>5, <2>1, CountOthers
<1>7. Outlasted'
  BY <1>1, <1>2 DEF Outlasted
<1> QED BY <1>6, <1>7 DEF CountKept

\* rcu_rcpg and rcu_rcpl: the counts are right, and so is what two flips outlast, after every step.
LEMMA CountKeeps ==
  ASSUME CountAssumed, NEW t \in Threads, ToySteps(t)
  PROVE  CountKept
<1>1. ToyKept(t)
  BY ToyStepKeeps DEF CountAssumed
<1>2. ToyReadUnlockStore(t) => pc[t] \in {"unlock_store", "unnest_store"}
  BY DEF ToyReadUnlockStore, Goto
<1> QED BY <1>1, <1>2, CountReadKeeps, CountSyncKeeps, CountWaitKeeps, CountStoreKeeps, CountDrainKeeps DEF ToySteps

-----------------------------------------------------------------------------
\* Every step of an implementation that announces readers
LEMMA ToyKeeps ==
  ASSUME Toys, Promising, Types, GpInv, Outlasted, ToyInv, NEW t \in Threads, ToySteps(t)
  PROVE  Types' /\ GpStep /\ Outlasted' /\ ToyInv' /\ UNCHANGED impl
<1>1. ToyAssumed
  BY DEF ToyAssumed, ToyInv, CountInv, CountThread
<1>2. Types' /\ GpStep /\ ToyCore'
  BY <1>1, ToyStepKeeps DEF ToyKept
<1>3. UNCHANGED impl
  BY DEF ToySteps, ToyReadLockLoad, ReadLockNested, ToyReadLockStore, ReadLockMb, ReadUnlockMb, ReadUnlockLoad,
         ToyReadUnlockStore, SyncCall, ToySyncLock, atomicgp_load, ToySyncAdvance, ToySyncWait, SyncUnlock, SyncReturn,
         DrainStore
<1>4. impl \in Scanned => ScanInv' /\ Outlasted'
  BY <1>1, ScanKeeps DEF ScanAssumed, ScanKept, ToyInv
<1>5. impl = "rcg" => RcgInv' /\ Outlasted'
  BY <1>1, RcgKeeps DEF RcgAssumed, RcgKept, ToyInv
<1>6. impl \in Counting => CountInv' /\ Outlasted'
  BY <1>1, CountKeeps DEF CountAssumed, CountKept, ToyInv
<1>7. impl \in Scanned \/ impl = "rcg" \/ impl \in Counting
  BY DEF Toys, ToyImpls, Scanned
<1>8. impl' \in Scanned <=> impl \in Scanned
  BY <1>3 DEF Scanned, Numbered
<1>9. impl' \in Counting <=> impl \in Counting
  BY <1>3 DEF Counting
<1> QED BY <1>2, <1>3, <1>4, <1>5, <1>6, <1>7, <1>8, <1>9 DEF ToyInv

-----------------------------------------------------------------------------
\* RCU by locks: rcu_lock, rcu_lock_percpu
LockAssumed == impl \in ByLock /\ Types /\ GpInv /\ Outlasted /\ LockInv
LockKept == Types' /\ GpStep /\ Outlasted' /\ LockInv'

LockSteps(t) ==
  LockedRead(t) \/ LockedReadEnd(t) \/ SyncCall(t) \/ LockedSync(t) \/ PercpuSync(t) \/ SyncReturn(t) \/ DrainStore(t)

\* What the invariant says about t
LEMMA LockFacts ==
  ASSUME LockAssumed, NEW t \in Threads
  PROVE  /\ impl \in {"lock", "percpu"} /\ Types /\ GpInv /\ Outlasted /\ DOMAIN pc = Threads /\ LockThread(t)
         /\ pc[t] \in {"idle", "reading", "sync_lock", "sync_return"} /\ loc[t] \in Locals
         /\ ReaderLock(t) \in 0 .. NR_THREADS /\ t # NoThread
         /\ \A e \in Threads : t \in preexisting[e] => pc[t] = "reading"
<1>1. /\ impl \in {"lock", "percpu"} /\ Types /\ GpInv /\ Outlasted /\ DOMAIN pc = Threads /\ LockThread(t)
      /\ pc[t] \in {"idle", "reading", "sync_lock", "sync_return"} /\ loc[t] \in Locals
  BY DEF LockAssumed, LockInv, Types, ByLock
<1>2. ReaderLock(t) \in 0 .. NR_THREADS /\ t # NoThread
  BY Setting DEF ReaderLock
<1>3. \A e \in Threads : t \in preexisting[e] => pc[t] = "reading"
  BY <1>1 DEF GpInv, Inside
<1> QED BY <1>1, <1>2, <1>3

\* What a step of t leaves of the others
LEMMA LockOthers ==
  ASSUME LockAssumed, NEW t \in Threads, UNCHANGED impl, NEW x \in {"idle", "reading", "sync_lock", "sync_return"}, Moves(t, x),
         \A e \in Threads \ {t} : loc'[e] = loc[e] /\ preexisting'[e] \subseteq preexisting[e],
         \A e \in Threads \ {t} : pc[e] = "reading" => mutex'[ReaderLock(e)] = mutex[ReaderLock(e)],
         LockThread(t)'
  PROVE  LockInv'
<1>1. pc' \in [Threads -> {"idle", "reading", "sync_lock", "sync_return"}]
  BY DEF LockAssumed, LockInv, Moves
<1>2. ASSUME NEW e \in Threads \ {t} PROVE LockThread(e)'
  <2>1. LockThread(e) /\ pc'[e] = pc[e] /\ loc'[e] = loc[e] /\ preexisting'[e] \subseteq preexisting[e]
        /\ ReaderLock(e)' = ReaderLock(e)
    BY DEF LockAssumed, LockInv, Moves, ReaderLock, NoThread
  <2> QED BY <2>1 DEF LockThread, Threads
<1> QED BY <1>1, <1>2 DEF LockInv, Threads

\* The reader's lock is free, so nobody with the same lock reads; t takes it.
LEMMA LockedReadKeeps ==
  ASSUME LockAssumed, NEW t \in Threads, LockedRead(t)
  PROVE  LockKept
<1> DEFINE l == ReaderLock(t)
<1>1. /\ UNCHANGED <<impl, ctr, shared, reader, buffer, preexisting>> /\ pc[t] = "idle" /\ Moves(t, "reading")
      /\ mutex[l] = NoThread /\ mutex' = [mutex EXCEPT ![l] = t] /\ loc' = [loc EXCEPT ![t].nest = 1]
  BY DEF LockedRead, Goto, Moves
<1>2. Types /\ GpInv /\ Outlasted /\ DOMAIN pc = Threads /\ LockThread(t) /\ l \in 0 .. NR_THREADS /\ t \in 0 .. NR_THREADS
      /\ mutex \in [0 .. NR_THREADS -> 0 .. NR_THREADS]
  BY LockFacts, Setting DEF Types
<1>3. loc' \in [Threads -> Locals] /\ \A e \in Threads \ {t} : loc'[e] = loc[e]
  <2>1. ASSUME NEW r \in Locals, NEW n \in Nat PROVE [r EXCEPT !.nest = n] \in Locals
    BY DEF Locals
  <2>2. [loc[t] EXCEPT !.nest = 1] \in Locals
    BY <1>2, <2>1 DEF Types
  <2> QED BY <1>1, <1>2, <2>2 DEF Types
<1>4. loc'[t].scan = loc[t].scan
  BY <1>1, <1>2 DEF Types, Locals
<1>5. mutex'[l] = t /\ mutex' \in [0 .. NR_THREADS -> 0 .. NR_THREADS] /\ ReaderLock(t)' = l
  BY <1>1, <1>2 DEF ReaderLock, NoThread
<1> HIDE DEF l
<1>6. Types'
  BY <1>1, <1>2, <1>3, <1>5 DEF Types, Values
<1>7. LockThread(t)'
  <2>1. pc'[t] = "reading"
    BY <1>1, <1>2 DEF Moves
  <2> QED BY <1>1, <1>2, <1>4, <1>5, <2>1 DEF LockThread
<1>8. \A e \in Threads \ {t} : pc[e] = "reading" => mutex'[ReaderLock(e)] = mutex[ReaderLock(e)]
  <2>1. ASSUME NEW e \in Threads \ {t}, pc[e] = "reading" PROVE mutex'[ReaderLock(e)] = mutex[ReaderLock(e)]
    <3>1. mutex[ReaderLock(e)] = e /\ e # NoThread
      BY <2>1, LockFacts DEF LockThread
    <3> QED BY <1>1, <1>2, <3>1
  <2> QED BY <2>1
<1>9. LockInv'
  BY <1>1, <1>3, <1>7, <1>8, LockOthers
<1>10. GpStep
  BY <1>1, <1>2, GpEnter DEF Reading, Synchronizing, Holding
<1>11. Outlasted'
  BY <1>1, <1>2, OutlastedStays
<1> QED BY <1>6, <1>9, <1>10, <1>11 DEF LockKept

\* The reader releases its lock.
LEMMA LockedReadEndKeeps ==
  ASSUME LockAssumed, NEW t \in Threads, LockedReadEnd(t)
  PROVE  LockKept
<1> DEFINE l == ReaderLock(t)
<1>1. /\ UNCHANGED <<impl, ctr, shared, reader, buffer>> /\ pc[t] = "reading" /\ Moves(t, "idle") /\ Outlast(t)
      /\ mutex' = [mutex EXCEPT ![l] = NoThread] /\ loc' = [loc EXCEPT ![t].nest = 0]
  BY DEF LockedReadEnd, Goto, Moves
<1>2. Types /\ GpInv /\ Outlasted /\ DOMAIN pc = Threads /\ LockThread(t) /\ l \in 0 .. NR_THREADS
      /\ NoThread \in 0 .. NR_THREADS /\ mutex \in [0 .. NR_THREADS -> 0 .. NR_THREADS]
  <2>1. NoThread \in 0 .. NR_THREADS
    BY Setting
  <2>2. Types /\ GpInv /\ Outlasted /\ DOMAIN pc = Threads /\ LockThread(t) /\ l \in 0 .. NR_THREADS
    BY LockFacts
  <2> QED BY <2>1, <2>2 DEF Types
<1>3. loc' \in [Threads -> Locals] /\ \A e \in Threads \ {t} : loc'[e] = loc[e]
  <2>1. ASSUME NEW r \in Locals, NEW n \in Nat PROVE [r EXCEPT !.nest = n] \in Locals
    BY DEF Locals
  <2>2. [loc[t] EXCEPT !.nest = 0] \in Locals
    BY <1>2, <2>1 DEF Types
  <2> QED BY <1>1, <1>2, <2>2 DEF Types
<1>4. loc'[t].scan = loc[t].scan
  BY <1>1, <1>2 DEF Types, Locals
<1>5. mutex' \in [0 .. NR_THREADS -> 0 .. NR_THREADS] /\ mutex[l] = t
  BY <1>1, <1>2 DEF LockThread
<1> HIDE DEF l
<1>6. Types'
  BY <1>1, <1>2, <1>3, <1>5 DEF Types, Values
<1>7. LockThread(t)'
  <2>1. pc'[t] = "idle"
    BY <1>1, <1>2 DEF Moves
  <2> QED BY <1>1, <1>2, <1>4, <2>1 DEF LockThread
<1>8. \A e \in Threads \ {t} : pc[e] = "reading" => mutex'[ReaderLock(e)] = mutex[ReaderLock(e)]
  <2>1. ASSUME NEW e \in Threads \ {t}, pc[e] = "reading" PROVE mutex'[ReaderLock(e)] = mutex[ReaderLock(e)]
    <3>1. mutex[ReaderLock(e)] = e
      BY <2>1, LockFacts DEF LockThread
    <3> QED BY <1>1, <1>2, <1>5, <3>1
  <2> QED BY <2>1
<1>9. \A e \in Threads : preexisting'[e] \subseteq preexisting[e]
  BY <1>1 DEF Outlast
<1>10. LockInv'
  BY <1>1, <1>3, <1>7, <1>8, <1>9, LockOthers
<1>11. GpStep
  BY <1>1, <1>2, GpLeave DEF Reading, Synchronizing, Holding
<1>12. Outlasted'
  BY <1>1, <1>2, <1>9, OutlastedStays
<1> QED BY <1>6, <1>10, <1>11, <1>12 DEF LockKept

\* synchronize_rcu() called; its return; a store that drains
LEMMA LockQuietKeeps ==
  ASSUME LockAssumed, NEW t \in Threads, SyncCall(t) \/ SyncReturn(t) \/ DrainStore(t)
  PROVE  LockKept
<1>1. Types /\ GpInv /\ Outlasted /\ DOMAIN pc = Threads /\ LockThread(t)
  BY LockFacts
<1>2. CASE SyncCall(t)
  <2>1. /\ UNCHANGED <<impl, ctr, mutex, shared, reader, buffer, loc>> /\ pc[t] = "idle" /\ Moves(t, "sync_lock")
        /\ preexisting' = [preexisting EXCEPT ![t] = Inside]
    BY <1>2 DEF SyncCall, Goto, Moves
  <2>2. Types'
    BY <1>1, <2>1 DEF Types, Values
  <2>3. preexisting'[t] = Inside /\ Inside \subseteq Threads /\ \A e \in Threads \ {t} : preexisting'[e] \subseteq preexisting[e]
    BY <1>1, <2>1 DEF GpInv, Inside
  <2>4. LockThread(t)'
    <3>1. pc'[t] = "sync_lock" /\ loc'[t].scan = 0
      BY <1>1, <2>1 DEF Moves, LockThread
    <3>2. 0 \in Threads /\ \A v \in Threads : v >= 0
      BY Setting
    <3> QED BY <2>3, <3>1, <3>2 DEF LockThread, Threads
  <2>5. LockInv'
    BY <2>1, <2>3, <2>4, LockOthers
  <2>6. GpStep
    BY <1>1, <2>1, GpCall DEF Reading, Synchronizing, Holding
  <2>7. Outlasted'
    BY <1>1, <2>1, <2>3, OutlastedStays
  <2> QED BY <2>2, <2>5, <2>6, <2>7 DEF LockKept
<1>3. CASE SyncReturn(t)
  <2>1. /\ UNCHANGED <<impl, ctr, mutex, shared, reader, buffer, preexisting>> /\ pc[t] = "sync_return" /\ Moves(t, "idle")
        /\ Forget(t)
    BY <1>3 DEF SyncReturn, Goto, Moves
  <2>2. loc' \in [Threads -> Locals] /\ loc'[t] = Registers /\ \A e \in Threads \ {t} : loc'[e] = loc[e]
    BY <1>1, <2>1, ForgetIs
  <2>3. Types'
    BY <1>1, <2>1, <2>2 DEF Types, Values
  <2>4. LockThread(t)'
    BY <1>1, <2>1, <2>2 DEF Moves, LockThread, Registers
  <2>5. LockInv'
    BY <2>1, <2>2, <2>4, LockOthers
  <2>6. preexisting[t] = {}
    BY <1>1, <2>1 DEF Outlasted
  <2>7. GpStep
    BY <1>1, <2>1, <2>6, GpReturn DEF Reading, Synchronizing, Holding
  <2>8. Outlasted'
    BY <1>1, <2>1, OutlastedStays
  <2> QED BY <2>3, <2>5, <2>7, <2>8 DEF LockKept
<1>4. CASE DrainStore(t)
  <2>1. Drains(t) /\ UNCHANGED <<impl, ctr, mutex, shared, loc, pc, preexisting>>
    BY <1>4 DEF DrainStore, Drains
  <2>2. Types'
    BY <1>1, <2>1, DrainIs DEF Types, Values
  <2>3. LockInv'
    BY <2>1 DEF LockAssumed, LockInv, LockThread, ReaderLock
  <2>4. GpStep /\ Outlasted'
    BY <1>1, <2>1, GpStays DEF Outlasted
  <2> QED BY <2>2, <2>3, <2>4 DEF LockKept
<1> QED BY <1>2, <1>3, <1>4

\* rcu_lock: with the lock free, nobody reads.
LEMMA LockedSyncKeeps ==
  ASSUME LockAssumed, NEW t \in Threads, LockedSync(t)
  PROVE  LockKept
<1>1. /\ UNCHANGED <<impl, ctr, mutex, shared, reader, buffer, loc, preexisting>>
      /\ pc[t] = "sync_lock" /\ Moves(t, "sync_return") /\ mutex[NoThread] = NoThread /\ impl = "lock"
  BY DEF LockedSync, Goto, Moves
<1>2. Types /\ GpInv /\ Outlasted /\ DOMAIN pc = Threads /\ LockThread(t)
  BY LockFacts
<1>3. preexisting[t] = {}
  <2>1. ASSUME NEW v \in preexisting[t] PROVE FALSE
    <3>1. v \in Threads /\ v # NoThread /\ LockThread(v) /\ pc[v] = "reading"
      BY <1>2, LockFacts DEF GpInv
    <3>2. mutex[NoThread] = v
      BY <1>1, <3>1 DEF LockThread, ReaderLock
    <3> QED BY <1>1, <3>1, <3>2
  <2> QED BY <2>1
<1>4. Types'
  BY <1>1, <1>2 DEF Types, Values
<1>5. LockThread(t)'
  BY <1>1, <1>2 DEF LockThread, Moves
<1>6. LockInv'
  BY <1>1, <1>5, LockOthers
<1>7. GpStep
  BY <1>1, <1>2, GpQuiet DEF Reading, Synchronizing, Holding
<1>8. Outlasted'
  BY <1>1, <1>2, <1>3, OutlastedStays
<1> QED BY <1>4, <1>6, <1>7, <1>8 DEF LockKept

\* rcu_lock_percpu: a thread whose lock is free does not read.
LEMMA PercpuSyncKeeps ==
  ASSUME LockAssumed, NEW t \in Threads, PercpuSync(t)
  PROVE  LockKept
<1> DEFINE e == loc[t].scan
           n == e + 1
           x == IF e = NR_THREADS - 1 THEN "sync_return" ELSE "sync_lock"
<1>1. Types /\ GpInv /\ Outlasted /\ DOMAIN pc = Threads /\ LockThread(t) /\ loc \in [Threads -> Locals]
  BY LockFacts DEF Types
<1>2. /\ UNCHANGED <<impl, ctr, mutex, shared, reader, buffer, preexisting>> /\ impl = "percpu" /\ pc[t] = "sync_lock"
      /\ mutex[e] = NoThread /\ loc' = [loc EXCEPT ![t].scan = n] /\ Moves(t, x)
  BY <1>1 DEF PercpuSync, Moves
<1>3. e \in Threads /\ e \in Nat /\ n \in 0 .. NR_THREADS /\ (e # NR_THREADS - 1 => n \in Threads) /\ NR_THREADS \in Nat
  BY <1>1, <1>2, Setting DEF LockThread
<1>4. \A v \in preexisting[t] : v \in Threads /\ v \in Nat /\ v < NR_THREADS /\ v >= n
  <2>1. ASSUME NEW v \in preexisting[t] PROVE v \in Threads /\ v \in Nat /\ v < NR_THREADS /\ v >= n
    <3>1. v \in Threads /\ v # NoThread /\ LockThread(v) /\ pc[v] = "reading"
      BY <1>1, LockFacts DEF GpInv
    <3>2. mutex[v] = v
      BY <1>2, <3>1 DEF LockThread, ReaderLock
    <3>3. v # e /\ v >= e
      BY <1>1, <1>2, <3>1, <3>2 DEF LockThread
    <3>4. v \in Nat /\ v < NR_THREADS
      BY <3>1, Setting
    <3> QED BY <1>3, <3>1, <3>3, <3>4
  <2> QED BY <2>1
<1>5. loc' \in [Threads -> Locals] /\ loc'[t].scan = n /\ \A u \in Threads \ {t} : loc'[u] = loc[u]
  <2> HIDE DEF n
  <2>1. ASSUME NEW r \in Locals PROVE [r EXCEPT !.scan = n] \in Locals
    BY <1>3 DEF Locals
  <2>2. [loc[t] EXCEPT !.scan = n] \in Locals /\ loc' = [loc EXCEPT ![t] = [loc[t] EXCEPT !.scan = n]]
    BY <1>1, <1>2, <2>1
  <2>3. loc' \in [Threads -> Locals] /\ \A u \in Threads \ {t} : loc'[u] = loc[u]
    BY <1>1, <2>2
  <2>4. loc'[t].scan = n
    BY <1>1, <1>2 DEF Locals
  <2> QED BY <2>3, <2>4
<1>6. Types'
  BY <1>1, <1>2, <1>5 DEF Types, Values
<1>7. pc'[t] = x /\ x \in {"sync_lock", "sync_return"}
  BY <1>1, <1>2 DEF Moves
<1>8. LockThread(t)'
  BY <1>2, <1>3, <1>4, <1>5, <1>7 DEF LockThread, Threads
<1>9. LockInv'
  <2> HIDE DEF x
  <2> QED BY <1>2, <1>5, <1>7, <1>8, LockOthers
<1>10. GpStep
  BY <1>1, <1>2, GpQuiet DEF Reading, Synchronizing, Holding
<1>11. x = "sync_return" => preexisting[t] = {}
  <2>1. ASSUME x = "sync_return", NEW v \in preexisting[t] PROVE FALSE
    <3>1. e = NR_THREADS - 1
      BY <2>1
    <3> QED BY <1>3, <1>4, <3>1
  <2> QED BY <2>1
<1>12. Outlasted'
  <2> HIDE DEF x
  <2> QED BY <1>1, <1>2, <1>7, <1>11, OutlastedStays
<1> QED BY <1>6, <1>9, <1>10, <1>12 DEF LockKept

\* rcu_lock and rcu_lock_percpu: readers hold their locks after every step.
LEMMA LockKeeps ==
  ASSUME LockAssumed, NEW t \in Threads, LockSteps(t)
  PROVE  LockKept /\ UNCHANGED impl
<1>1. UNCHANGED impl
  BY DEF LockSteps, LockedRead, LockedReadEnd, SyncCall, LockedSync, PercpuSync, SyncReturn, DrainStore
<1> QED BY <1>1, LockedReadKeeps, LockedReadEndKeeps, LockQuietKeeps, LockedSyncKeeps, PercpuSyncKeeps DEF LockSteps

-----------------------------------------------------------------------------
\* Quotient and rest are unique.
LEMMA RestIs ==
  ASSUME NEW b \in Nat \ {0}, NEW q \in Int, NEW r \in 0 .. b - 1
  PROVE  (b * q + r) % b = r
<1> DEFINE x == b * q + r
           d == x \div b
           m == x % b
<1>1. x \in Int /\ b * q \in Int
  OBVIOUS
<1>2. d \in Int /\ m \in 0 .. b - 1 /\ x = b * d + m
  BY <1>1
<1>3. x = b * q + r
  OBVIOUS
<1> HIDE DEF x, d, m
<1>4. ~ (q < d)
  <2> SUFFICES ASSUME q < d PROVE FALSE
    OBVIOUS
  <2>1. b * (q + 1) <= b * d /\ b * (q + 1) = b * q + b
    BY <1>2
  <2> QED BY <1>1, <1>2, <1>3, <2>1
<1>5. ~ (d < q)
  <2> SUFFICES ASSUME d < q PROVE FALSE
    OBVIOUS
  <2>1. b * (d + 1) <= b * q
    BY <1>2
  <2>2. b * (d + 1) = b * d + b /\ b * d \in Int
    BY <1>2
  <2> QED BY <1>1, <1>2, <1>3, <2>1, <2>2
<1> QED BY <1>1, <1>2, <1>3, <1>4, <1>5 DEF m, x

\* rcu_gp_ctr counts in steps; what a thread that is online shows is between two steps.
LEMMA NumbersAre ==
  /\ QsStep \in Nat /\ QsStep >= 2 /\ 0 \in Numbers /\ Numbers \subseteq Nat
  /\ \A m \in Numbers : m + QsStep \in Numbers
  /\ \A m \in Numbers : \A r \in 1 .. QsStep - 1 : (m + r) % QsStep # 0
<1>1. QsStep \in Nat /\ QsStep >= 2
  BY Setting DEF QsStep
<1> DEFINE q == QsStep
<1>2. q \in Nat \ {0} /\ Numbers = {q * k : k \in Nat}
  BY <1>1 DEF Numbers
<1> HIDE DEF q
<1>3. 0 \in Numbers
  <2>1. q * 0 = 0
    BY <1>2
  <2> QED BY <1>2, <2>1
<1>4. \A k \in Nat : q * k \in Nat /\ q * k + q = q * (k + 1)
  BY <1>2
<1>5. Numbers \subseteq Nat /\ \A m \in Numbers : m + q \in Numbers
  <2>1. ASSUME NEW m \in Numbers PROVE m \in Nat /\ m + q \in Numbers
    <3>1. PICK k \in Nat : m = q * k
      BY <1>2
    <3>2. k + 1 \in Nat /\ q * (k + 1) \in Numbers
      BY <1>2
    <3> QED BY <1>4, <3>1, <3>2
  <2> QED BY <2>1
<1>6. \A m \in Numbers : \A r \in 1 .. q - 1 : (m + r) % q # 0
  <2>1. ASSUME NEW k \in Nat, NEW r \in 1 .. q - 1 PROVE (q * k + r) % q # 0
    <3>1. r \in 0 .. q - 1 /\ r # 0
      BY <1>2
    <3>2. (q * k + r) % q = r
      BY <1>2, <3>1, RestIs
    <3> QED BY <3>1, <3>2
  <2> QED BY <1>2, <2>1
<1> QED BY <1>1, <1>3, <1>5, <1>6 DEF q

\* What a thread shows that is online
LEMMA OnlineIs ==
  ASSUME ctr \in Nat
  PROVE  /\ Online \subseteq Nat /\ OnlineBefore \subseteq Nat
         /\ \A m \in Numbers : \A r \in 1 .. QsStep - 1 :
              /\ m <= ctr => m + r \in Online
              /\ m + QsStep <= ctr => m + r \in OnlineBefore
         /\ \A x \in OnlineBefore : x < ctr /\ x % QsStep # 0
<1>1. \A m \in Numbers : m \in Nat
  BY NumbersAre
<1>2. QsStep \in Nat /\ QsStep >= 2
  BY NumbersAre
<1>3. ASSUME NEW m \in Numbers, NEW r \in 1 .. QsStep - 1
      PROVE  /\ m <= ctr => m + r \in Online
             /\ m + QsStep <= ctr => m + r \in OnlineBefore
  <2>1. m + r \in Nat
    BY <1>1, <1>2
  <2> QED BY <2>1 DEF Online, OnlineBefore
<1>4. ASSUME NEW x \in OnlineBefore PROVE x < ctr /\ x % QsStep # 0
  <2>1. PICK m \in Numbers, r \in 1 .. QsStep - 1 : x = m + r /\ m + QsStep <= ctr
    BY DEF OnlineBefore
  <2>2. m \in Nat /\ r \in Nat /\ r < QsStep
    BY <1>1, <1>2
  <2>3. x < ctr
    BY <1>2, <2>1, <2>2
  <2> QED BY <2>1, <2>3, NumbersAre
<1> QED BY <1>3, <1>4 DEF Online, OnlineBefore

\* It does not get newer; a new grace period makes all of it old.
LEMMA OnlineStep ==
  ASSUME UNCHANGED impl, ctr \in Nat, ctr' \in Nat, ctr' >= ctr
  PROVE  /\ QsStep' = QsStep /\ Numbers' = Numbers
         /\ Online \subseteq Online'
         /\ ctr' = ctr => OnlineBefore' = OnlineBefore
         /\ ctr' = ctr + QsStep => Online \subseteq OnlineBefore'
<1>1. QsStep' = QsStep
  BY DEF QsStep
<1>2. Numbers' = Numbers
  BY <1>1 DEF Numbers
<1>3. QsStep \in Nat /\ Numbers \subseteq Nat
  BY NumbersAre
<1>4. \A m \in Nat : m <= ctr => m <= ctr' /\ (ctr' = ctr + QsStep => m + QsStep <= ctr')
  BY <1>3
<1>5. ASSUME NEW x \in Online PROVE x \in Online' /\ (ctr' = ctr + QsStep => x \in OnlineBefore')
  <2>1. PICK m \in Numbers, r \in 1 .. QsStep - 1 : x = m + r /\ m <= ctr
    BY DEF Online
  <2>2. m <= ctr' /\ (ctr' = ctr + QsStep => m + QsStep <= ctr') /\ x \in Nat
    BY <1>3, <1>4, <2>1 DEF Online
  <2>3. r \in 1 .. QsStep' - 1 /\ m \in Numbers'
    BY <1>1, <1>2
  <2>4. x \in Online'
    BY <2>1, <2>2, <2>3 DEF Online
  <2>5. ctr' = ctr + QsStep => x \in OnlineBefore'
    BY <1>1, <2>1, <2>2, <2>3 DEF OnlineBefore
  <2> QED BY <2>4, <2>5
<1>6. ctr' = ctr => OnlineBefore' = OnlineBefore
  BY <1>1, <1>2 DEF OnlineBefore
<1> QED BY <1>1, <1>2, <1>5, <1>6

-----------------------------------------------------------------------------
\* RCU by quiescent states: rcu_qs, rcu_nest_qs
QsAssumed == impl \in QsImpls /\ Types /\ GpInv /\ Outlasted /\ QsInv
QsKept == Types' /\ GpStep /\ Outlasted' /\ QsInv'

\* What the invariant says about t
LEMMA QsFacts ==
  ASSUME QsAssumed, NEW t \in Threads
  PROVE  /\ impl \in {"qs", "nest_qs"} /\ Types /\ GpInv /\ Outlasted /\ DOMAIN pc = Threads /\ Values = Int
         /\ pc \in [Threads -> QsLocs] /\ QsThread(t) /\ QsWait(t) /\ ctr \in Numbers /\ ctr \in Nat /\ loc[t] \in Locals
         /\ Own(t) \in Int /\ Own(t) \in Visible(t) /\ Visible(t) \subseteq Int
         /\ \A e \in Threads : t \in preexisting[e] => pc[t] \in {"reading", "qs_inner"}
<1>1. /\ impl \in {"qs", "nest_qs"} /\ Types /\ GpInv /\ Outlasted /\ DOMAIN pc = Threads
      /\ pc \in [Threads -> QsLocs] /\ QsThread(t) /\ QsWait(t) /\ ctr \in Numbers /\ loc[t] \in Locals
  BY DEF QsAssumed, QsInv, Types, QsImpls
<1>2. Values = Int
  BY <1>1 DEF Values
<1>3. Own(t) \in Int /\ Own(t) \in Visible(t) /\ Visible(t) \subseteq Int
  BY <1>1, <1>2, OwnIs
<1>4. \A e \in Threads : t \in preexisting[e] => pc[t] \in {"reading", "qs_inner"}
  BY <1>1 DEF GpInv, Inside, QsLocs
<1> QED BY <1>1, <1>2, <1>3, <1>4, NumbersAre

\* Inside a critical section, t can only store the copy it keeps.
QsStores(t) ==
  loc'[t].idx = loc[t].idx /\ Visible(t)' \subseteq Visible(t) \union {loc[t].idx + loc[t].nest}

\* What a step of t leaves of the others: numbers shown, and numbers that a wait can rely on
LEMMA QsOthers ==
  ASSUME QsAssumed, NEW t \in Threads, Types', Frame(t), UNCHANGED impl, NEW x \in QsLocs, Moves(t, x),
         ctr' \in Numbers, ctr' >= ctr, ctr' = ctr \/ pc[t] \in Holding,
         mutex'[NoThread] = mutex[NoThread] \/ mutex[NoThread] \in {t, NoThread},
         \A e \in Threads \ {t} : preexisting'[e] \subseteq preexisting[e],
         \A e \in Threads \ {t} : t \in preexisting'[e] => QsStores(t),
         QsThread(t)', QsWait(t)'
  PROVE  QsInv'
<1>1. ctr \in Nat /\ ctr' \in Nat /\ QsStep \in Nat
  BY NumbersAre DEF QsAssumed, QsInv
<1>2. /\ pc' \in [Threads -> QsLocs] /\ QsStep' = QsStep /\ Numbers' = Numbers /\ Online \subseteq Online'
      /\ ctr' = ctr => OnlineBefore' = OnlineBefore
  BY <1>1, OnlineStep DEF QsAssumed, QsInv, Moves
<1>3. ASSUME NEW e \in Threads \ {t} PROVE QsThread(e)'
  <2>1. QsThread(e) /\ pc'[e] = pc[e] /\ loc'[e] = loc[e] /\ Own(e)' = Own(e) /\ Visible(e)' = Visible(e)
    BY QsFacts, UnreadIs DEF Frame
  <2>2. pc[e] \in Holding => mutex'[NoThread] = e
    <3>1. e # NoThread
      BY Setting
    <3> QED BY <2>1, <3>1 DEF QsThread
  <2>3. \A n \in Numbers : n <= ctr => n <= ctr'
    BY <1>1, NumbersAre
  <2> QED BY <1>2, <2>1, <2>2, <2>3 DEF QsThread, Threads
<1>4. ASSUME NEW e \in Threads \ {t} PROVE QsWait(e)'
  <2>1. QsWait(e) /\ QsThread(e) /\ QsThread(t) /\ pc'[e] = pc[e] /\ loc'[e] = loc[e] /\ preexisting'[e] \subseteq preexisting[e]
    BY QsFacts DEF Frame
  <2>2. ASSUME pc[e] = "sync_wait", NEW v \in preexisting'[e]
        PROVE  v >= loc[e].scan /\ loc'[v].idx + QsStep <= ctr' /\ Visible(v)' \subseteq OnlineBefore'
    <3>1. ctr' = ctr /\ OnlineBefore' = OnlineBefore
      BY <1>2, <2>1, <2>2 DEF QsThread, Holding
    <3>2. v \in Threads /\ v >= loc[e].scan /\ loc[v].idx + QsStep <= ctr /\ Visible(v) \subseteq OnlineBefore
      BY <2>1, <2>2, QsFacts DEF QsWait, GpInv
    <3>3. CASE v # t
      BY <3>1, <3>2, <3>3, UnreadIs DEF Frame
    <3>4. CASE v = t
      <4>1. pc[t] \in {"reading", "qs_inner"}
        BY <2>1, <2>2, <3>4, QsFacts
      <4>2. /\ QsStores(t) /\ loc[t].idx \in Numbers /\ loc[t].nest \in 1 .. QsStep - 1
            /\ loc[t].idx + QsStep <= ctr
        BY <2>1, <2>2, <3>2, <3>4, <4>1 DEF QsThread
      <4>3. loc[t].idx + loc[t].nest \in OnlineBefore
        BY <1>1, <4>2, OnlineIs
      <4> QED BY <3>1, <3>2, <3>4, <4>2, <4>3 DEF QsStores
    <3> QED BY <3>3, <3>4
  <2> QED BY <1>2, <2>1, <2>2 DEF QsWait
<1> QED BY <1>2, <1>3, <1>4 DEF QsInv, Threads

\* What does not change with the number
LEMMA QsStays ==
  ASSUME UNCHANGED <<impl, ctr>>
  PROVE  QsStep' = QsStep /\ Numbers' = Numbers /\ Online' = Online /\ OnlineBefore' = OnlineBefore
<1>1. QsStep' = QsStep
  BY DEF QsStep
<1>2. Numbers' = Numbers
  BY <1>1 DEF Numbers
<1> QED BY <1>1, <1>2 DEF Online, OnlineBefore

\* A step of t that stores nothing
LEMMA QsQuiet ==
  ASSUME QsAssumed, NEW t \in Threads, NEW x \in QsLocs, Moves(t, x), UNCHANGED <<impl, ctr, shared, reader, buffer>>,
         mutex' \in [0 .. NR_THREADS -> 0 .. NR_THREADS],
         mutex'[NoThread] = mutex[NoThread] \/ mutex[NoThread] \in {t, NoThread},
         loc' \in [Threads -> Locals], \A e \in Threads \ {t} : loc'[e] = loc[e],
         \A e \in Threads \ {t} : preexisting'[e] \subseteq preexisting[e],
         \A e \in Threads \ {t} : t \in preexisting'[e] => loc'[t].idx = loc[t].idx,
         QsThread(t)', QsWait(t)'
  PROVE  Types' /\ QsInv'
<1>1. Types /\ ctr \in Numbers /\ ctr \in Nat /\ DOMAIN pc = Threads
  BY QsFacts
<1>2. Types'
  BY <1>1 DEF Types, Values
<1>3. Frame(t)
  BY <1>1 DEF Frame, Unread, Moves
<1>4. ctr' \in Numbers /\ ctr' >= ctr
  BY <1>1
<1>5. Visible(t)' = Visible(t)
  BY DEF Visible
<1>6. \A e \in Threads \ {t} : t \in preexisting'[e] => QsStores(t)
  BY <1>5 DEF QsStores
<1>7. QsInv'
  BY <1>2, <1>3, <1>4, <1>6, QsOthers
<1> QED BY <1>2, <1>7

\* rcu_gp_ctr is loaded.
LEMMA QsLoadKeeps ==
  ASSUME QsAssumed, NEW t \in Threads, QsLoad(t) \/ OfflineLoad(t)
  PROVE  QsKept
<1>1. PICK x \in {"qs_store", "off_store"} : Moves(t, x)
  BY DEF QsLoad, OfflineLoad, Goto, Moves
<1>2. /\ UNCHANGED <<impl, ctr, mutex, shared, reader, buffer, preexisting>> /\ pc[t] \in {"idle", "online"}
      /\ loc' = [loc EXCEPT ![t].snap = ctr]
  BY DEF QsLoad, OfflineLoad, Goto, Moves
<1>3. /\ Types /\ GpInv /\ Outlasted /\ DOMAIN pc = Threads /\ QsThread(t) /\ ctr \in Numbers /\ ctr \in Nat /\ loc[t] \in Locals
      /\ \A e \in Threads : t \notin preexisting[e]
  BY <1>2, QsFacts
<1>4. loc' \in [Threads -> Locals] /\ (\A e \in Threads \ {t} : loc'[e] = loc[e]) /\ loc'[t].snap = ctr /\ loc'[t].scan = loc[t].scan
  <2>1. loc' \in [Threads -> Locals] /\ \A e \in Threads \ {t} : loc'[e] = loc[e]
    <3>1. ASSUME NEW r \in Locals, NEW s \in Int PROVE [r EXCEPT !.snap = s] \in Locals
      BY DEF Locals
    <3>2. [loc[t] EXCEPT !.snap = ctr] \in Locals
      BY <1>3, <3>1
    <3>3. loc' = [loc EXCEPT ![t] = [loc[t] EXCEPT !.snap = ctr]]
      BY <1>2
    <3> QED BY <1>3, <3>2, <3>3 DEF Types
  <2>2. loc'[t].snap = ctr /\ loc'[t].scan = loc[t].scan
    BY <1>2, <1>3 DEF Types, Locals
  <2> QED BY <2>1, <2>2
<1>5. pc'[t] = x
  BY <1>1, <1>3 DEF Moves
<1>6. QsThread(t)'
  BY <1>1, <1>2, <1>3, <1>4, <1>5, QsStays DEF QsThread, Holding, Threads
<1>7. QsWait(t)'
  BY <1>1, <1>5 DEF QsWait
<1>8. Types' /\ QsInv'
  BY <1>1, <1>2, <1>3, <1>4, <1>6, <1>7, QsQuiet DEF QsLocs, Types
<1>9. GpStep
  BY <1>1, <1>2, <1>3, GpQuiet DEF Reading, Synchronizing, Holding
<1>10. Outlasted'
  BY <1>1, <1>2, <1>3, OutlastedStays
<1> QED BY <1>8, <1>9, <1>10 DEF QsKept

\* A step of t that stores y
LEMMA QsStoring ==
  ASSUME QsAssumed, NEW t \in Threads, NEW x \in QsLocs, NEW y \in Int, Moves(t, x), Store(t, y),
         UNCHANGED <<impl, ctr, mutex, shared, reader, preexisting>>, x \notin Holding,
         loc' \in [Threads -> Locals], \A e \in Threads \ {t} : loc'[e] = loc[e],
         \A e \in Threads \ {t} : t \in preexisting[e] => loc'[t].idx = loc[t].idx /\ y = loc[t].idx + loc[t].nest,
         QsThread(t)'
  PROVE  Types' /\ QsInv' /\ Own(t)' = y /\ Visible(t)' = Visible(t) \union {y}
<1>1. Types /\ ctr \in Numbers /\ ctr \in Nat /\ DOMAIN pc = Threads /\ Values = Int
  BY QsFacts
<1>2. /\ buffer' \in [Threads -> Seq(Values)] /\ \A e \in Threads \ {t} : Unread(e)
      /\ Own(t)' = y /\ Visible(t)' = Visible(t) \union {y}
  BY <1>1, StoreIs
<1>3. Types'
  BY <1>1, <1>2 DEF Types, Values
<1>4. Frame(t)
  BY <1>1, <1>2 DEF Frame, Moves
<1>5. ctr' \in Numbers /\ ctr' >= ctr
  BY <1>1
<1>6. \A e \in Threads \ {t} : t \in preexisting'[e] => QsStores(t)
  BY <1>2 DEF QsStores
<1>7. QsWait(t)'
  BY <1>1 DEF QsWait, Moves, Holding
<1>8. QsInv'
  BY <1>3, <1>4, <1>5, <1>6, <1>7, QsOthers
<1> QED BY <1>2, <1>3, <1>8

\* rcu_quiescent_state(): the thread says that it has seen rcu_gp_ctr.
LEMMA QsStoreKeeps ==
  ASSUME QsAssumed, NEW t \in Threads, QsStore(t)
  PROVE  QsKept
<1> DEFINE y == loc[t].snap + 1
<1>1. /\ UNCHANGED <<impl, ctr, mutex, shared, reader, preexisting>> /\ pc[t] = "qs_store" /\ Moves(t, "qs_mb")
      /\ Store(t, y) /\ loc' = [loc EXCEPT ![t].snap = 0]
  BY DEF QsStore, Goto, Moves
<1>2. /\ Types /\ GpInv /\ Outlasted /\ DOMAIN pc = Threads /\ QsThread(t) /\ ctr \in Nat /\ loc[t] \in Locals
      /\ \A e \in Threads : t \notin preexisting[e]
  BY <1>1, QsFacts
<1>3. loc' \in [Threads -> Locals] /\ (\A e \in Threads \ {t} : loc'[e] = loc[e]) /\ loc'[t].scan = loc[t].scan
  <2>1. loc' \in [Threads -> Locals] /\ \A e \in Threads \ {t} : loc'[e] = loc[e]
    <3>1. ASSUME NEW r \in Locals, NEW s \in Int PROVE [r EXCEPT !.snap = s] \in Locals
      BY DEF Locals
    <3>2. [loc[t] EXCEPT !.snap = 0] \in Locals
      BY <1>2, <3>1
    <3>3. loc' = [loc EXCEPT ![t] = [loc[t] EXCEPT !.snap = 0]]
      BY <1>1
    <3> QED BY <1>2, <3>2, <3>3 DEF Types
  <2>2. loc'[t].scan = loc[t].scan
    BY <1>1, <1>2 DEF Types, Locals
  <2> QED BY <2>1, <2>2
<1>4. y \in Int /\ y \in Online
  <2>1. loc[t].snap \in Numbers /\ loc[t].snap <= ctr /\ 1 \in 1 .. QsStep - 1 /\ loc[t].snap \in Nat
    BY <1>1, <1>2, NumbersAre DEF QsThread
  <2>2. y \in Online
    BY <1>2, <2>1, OnlineIs
  <2> QED BY <2>1, <2>2
<1> HIDE DEF y
<1>5. pc'[t] = "qs_mb" /\ Own(t)' = y
  <2>1. Values = Int
    BY QsFacts
  <2> QED BY <1>1, <1>2, <1>4, <2>1, StoreIs DEF Moves
<1>6. QsThread(t)'
  BY <1>1, <1>2, <1>3, <1>4, <1>5, QsStays DEF QsThread, Holding, Threads
<1>7. Types' /\ QsInv'
  BY <1>1, <1>2, <1>3, <1>4, <1>6, QsStoring DEF QsLocs, Holding
<1>8. GpStep
  BY <1>1, <1>2, GpQuiet DEF Reading, Synchronizing, Holding
<1>9. Outlasted'
  BY <1>1, <1>2, OutlastedStays
<1> QED BY <1>7, <1>8, <1>9 DEF QsKept

\* rcu_thread_offline(): what it says is not taken for online.
LEMMA OfflineStoreKeeps ==
  ASSUME QsAssumed, NEW t \in Threads, OfflineStore(t)
  PROVE  QsKept
<1> DEFINE y == loc[t].snap
<1>1. /\ UNCHANGED <<impl, ctr, mutex, shared, reader, preexisting>> /\ pc[t] = "off_store" /\ Moves(t, "off_mb")
      /\ Store(t, y) /\ Forget(t)
  BY DEF OfflineStore, Goto, Moves
<1>2. /\ Types /\ GpInv /\ Outlasted /\ DOMAIN pc = Threads /\ loc[t] \in Locals
      /\ \A e \in Threads : t \notin preexisting[e]
  BY <1>1, QsFacts
<1>3. loc' \in [Threads -> Locals] /\ (\A e \in Threads \ {t} : loc'[e] = loc[e]) /\ loc'[t] = Registers
  BY <1>1, <1>2, ForgetIs
<1>4. y \in Int
  BY <1>2 DEF Locals
<1> HIDE DEF y
<1>5. pc'[t] = "off_mb" /\ 0 \in Threads
  BY <1>1, <1>2, Setting DEF Moves
<1>6. QsThread(t)'
  BY <1>3, <1>5 DEF QsThread, Holding, Threads, Registers
<1>7. Types' /\ QsInv'
  BY <1>1, <1>2, <1>3, <1>4, <1>6, QsStoring DEF QsLocs, Holding
<1>8. GpStep
  BY <1>1, <1>2, GpQuiet DEF Reading, Synchronizing, Holding
<1>9. Outlasted'
  BY <1>1, <1>2, OutlastedStays
<1> QED BY <1>7, <1>8, <1>9 DEF QsKept

\* rcu_quiescent_state() inside a critical section of rcu_nest_qs stores the number the section began with.
LEMMA QsInnerKeeps ==
  ASSUME QsAssumed, NEW t \in Threads, QsInner(t)
  PROVE  QsKept
<1> DEFINE y == loc[t].idx + loc[t].nest
<1>1. /\ UNCHANGED <<impl, ctr, mutex, shared, reader, loc, preexisting>> /\ pc[t] = "reading" /\ Moves(t, "qs_inner")
      /\ Store(t, y)
  BY DEF QsInner, Goto, Moves
<1>2. /\ Types /\ GpInv /\ Outlasted /\ DOMAIN pc = Threads /\ QsThread(t) /\ ctr \in Nat /\ loc[t] \in Locals
  BY QsFacts
<1>3. loc' \in [Threads -> Locals] /\ \A e \in Threads \ {t} : loc'[e] = loc[e]
  BY <1>1, <1>2 DEF Types
<1>4. y \in Int /\ y \in Online
  <2>1. loc[t].idx \in Numbers /\ loc[t].idx <= ctr /\ loc[t].nest \in 1 .. QsStep - 1
    BY <1>1, <1>2 DEF QsThread
  <2>2. y \in Online
    BY <1>2, <2>1, OnlineIs
  <2> QED BY <1>2, <2>2, OnlineIs
<1>5. \A e \in Threads \ {t} : t \in preexisting[e] => loc'[t].idx = loc[t].idx /\ y = loc[t].idx + loc[t].nest
  BY <1>1
<1> HIDE DEF y
<1>6. pc'[t] = "qs_inner" /\ Visible(t)' = Visible(t) \union {y}
  <2>1. Values = Int
    BY QsFacts
  <2> QED BY <1>1, <1>2, <1>4, <2>1, StoreIs DEF Moves
<1>7. QsThread(t)'
  BY <1>1, <1>2, <1>4, <1>6, QsStays DEF QsThread, Holding, Threads
<1>8. Types' /\ QsInv'
  BY <1>1, <1>2, <1>3, <1>4, <1>5, <1>7, QsStoring DEF QsLocs, Holding
<1>9. GpStep
  BY <1>1, <1>2, GpQuiet DEF Reading, Synchronizing, Holding
<1>10. Outlasted'
  BY <1>1, <1>2, OutlastedStays
<1> QED BY <1>8, <1>9, <1>10 DEF QsKept

\* The barrier after a store: from then on, what the thread has stored last is all that is visible.
LEMMA QsMbKeeps ==
  ASSUME QsAssumed, NEW t \in Threads, QsMb(t)
  PROVE  QsKept
<1>1. /\ UNCHANGED <<impl, ctr, mutex, shared, reader, buffer, loc, preexisting>> /\ Drained(t)
      /\ \/ pc[t] = "qs_mb" /\ Moves(t, "online")
         \/ pc[t] = "qs_inner" /\ Moves(t, "reading")
         \/ pc[t] = "off_mb" /\ Moves(t, "idle")
  BY DEF QsMb, Goto, Moves
<1>2. /\ Types /\ GpInv /\ Outlasted /\ DOMAIN pc = Threads /\ QsThread(t) /\ ctr \in Nat /\ loc \in [Threads -> Locals]
      /\ mutex \in [0 .. NR_THREADS -> 0 .. NR_THREADS]
  BY QsFacts DEF Types
<1>3. Visible(t) = {Own(t)} /\ Visible(t)' = Visible(t)
  BY <1>1, <1>2, OwnIs DEF Visible
<1>4. /\ QsStep' = QsStep /\ Numbers' = Numbers /\ Online' = Online
  BY <1>1, QsStays
<1>5. ASSUME NEW x \in {"online", "reading", "idle"}, Moves(t, x),
             \/ pc[t] = "qs_mb" /\ x = "online"
             \/ pc[t] = "qs_inner" /\ x = "reading"
             \/ pc[t] = "off_mb" /\ x = "idle"
      PROVE  QsKept
  <2>1. pc'[t] = x
    BY <1>2, <1>5 DEF Moves
  <2>2. QsThread(t)'
    BY <1>1, <1>2, <1>3, <1>4, <1>5, <2>1 DEF QsThread, Holding
  <2>3. QsWait(t)'
    BY <1>5, <2>1 DEF QsWait
  <2>4. Types' /\ QsInv'
    BY <1>1, <1>2, <1>5, <2>2, <2>3, QsQuiet DEF QsLocs
  <2>5. GpStep
    BY <1>1, <1>2, <1>5, GpQuiet DEF Reading, Synchronizing, Holding
  <2>6. Outlasted'
    BY <1>1, <1>2, <1>5, OutlastedStays
  <2> QED BY <2>4, <2>5, <2>6 DEF QsKept
<1> QED BY <1>1, <1>5

\* The outermost rcu_read_lock(), which rcu_nest_qs notes the number of
LEMMA QsEnterKeeps ==
  ASSUME QsAssumed, NEW t \in Threads, ReadLock(t), pc[t] = "online"
  PROVE  QsKept
<1>1. /\ UNCHANGED <<impl, ctr, mutex, shared, reader, buffer, preexisting>> /\ Moves(t, "reading")
      /\ loc' = [loc EXCEPT ![t].nest = 1, ![t].calls = 1, ![t].idx = ctr]
  BY DEF ReadLock, Goto, Moves
<1>2. /\ Types /\ GpInv /\ Outlasted /\ DOMAIN pc = Threads /\ QsThread(t) /\ ctr \in Numbers /\ ctr \in Nat /\ loc[t] \in Locals
      /\ mutex \in [0 .. NR_THREADS -> 0 .. NR_THREADS] /\ \A e \in Threads : t \notin preexisting[e]
  BY QsFacts DEF Types
<1>3. /\ loc' \in [Threads -> Locals] /\ \A e \in Threads \ {t} : loc'[e] = loc[e]
      /\ loc'[t].nest = 1 /\ loc'[t].calls = 1 /\ loc'[t].idx = ctr /\ loc'[t].scan = loc[t].scan
  <2>1. loc' \in [Threads -> Locals] /\ \A e \in Threads \ {t} : loc'[e] = loc[e]
    <3>1. ASSUME NEW r \in Locals, NEW a \in Nat, NEW b \in Nat, NEW c \in Int
          PROVE  [r EXCEPT !.nest = a, !.calls = b, !.idx = c] \in Locals
      BY DEF Locals
    <3>2. 1 \in Nat /\ ctr \in Int
      BY <1>2
    <3>3. [loc[t] EXCEPT !.nest = 1, !.calls = 1, !.idx = ctr] \in Locals
      BY <1>2, <3>1, <3>2
    <3>4. loc' = [loc EXCEPT ![t] = [loc[t] EXCEPT !.nest = 1, !.calls = 1, !.idx = ctr]]
      BY <1>1
    <3> QED BY <1>2, <3>3, <3>4 DEF Types
  <2>2. loc'[t].nest = 1 /\ loc'[t].calls = 1 /\ loc'[t].idx = ctr /\ loc'[t].scan = loc[t].scan
    BY <1>1, <1>2 DEF Types, Locals
  <2> QED BY <2>1, <2>2
<1>4. pc'[t] = "reading" /\ Visible(t)' = Visible(t)
  BY <1>1, <1>2 DEF Moves, Visible
<1>5. QsThread(t)'
  <2>1. QsStep' = QsStep /\ Numbers' = Numbers /\ Online' = Online
    BY <1>1, QsStays
  <2>2. 1 \in 1 .. QsStep - 1 /\ 1 <= MaxNest /\ ctr <= ctr
    BY <1>2, Setting, NumbersAre
  <2> QED BY <1>1, <1>2, <1>3, <1>4, <2>1, <2>2 DEF QsThread, Holding
<1>6. QsWait(t)'
  BY <1>4 DEF QsWait
<1>7. Types' /\ QsInv'
  BY <1>1, <1>2, <1>3, <1>5, <1>6, QsQuiet DEF QsLocs
<1>8. GpStep
  BY <1>1, <1>2, GpEnter DEF Reading, Synchronizing, Holding
<1>9. Outlasted'
  BY <1>1, <1>2, OutlastedStays
<1> QED BY <1>7, <1>8, <1>9 DEF QsKept

\* The nested ones, and the rcu_read_unlock() of a nested one: the count stays below the number's bits.
LEMMA QsNestedKeeps ==
  ASSUME QsAssumed, NEW t \in Threads, pc[t] = "reading",
         ReadLock(t) \/ (loc[t].nest > 1 /\ QsReadUnlock(t))
  PROVE  QsKept
<1>1. /\ Types /\ GpInv /\ Outlasted /\ DOMAIN pc = Threads /\ QsThread(t) /\ ctr \in Nat /\ loc[t] \in Locals
      /\ mutex \in [0 .. NR_THREADS -> 0 .. NR_THREADS]
      /\ pc \in [Threads -> QsLocs] /\ loc \in [Threads -> Locals]
  BY QsFacts DEF Types
<1>2. /\ loc[t].nest \in Nat /\ loc[t].calls \in Nat
      /\ loc[t].nest \in 1 .. QsStep - 1 /\ loc[t].nest <= loc[t].calls /\ loc[t].calls <= MaxNest
  BY <1>1 DEF QsThread, Locals
<1>3. QsStep \in Nat /\ MaxNest \in Nat /\ (impl = "nest_qs" => QsStep = MaxNest + 1)
  BY Setting, NumbersAre DEF QsStep
<1>4. /\ UNCHANGED <<impl, ctr, mutex, shared, reader, buffer, preexisting, pc>>
      /\ \/ loc' = [loc EXCEPT ![t].nest = @ + 1, ![t].calls = @ + 1] /\ loc[t].calls < MaxNest /\ impl = "nest_qs"
         \/ loc' = [loc EXCEPT ![t].nest = @ - 1] /\ loc[t].nest > 1
  <2>1. CASE ReadLock(t)
    BY <2>1 DEF ReadLock, Goto
  <2>2. CASE loc[t].nest > 1 /\ QsReadUnlock(t)
    BY <1>2, <2>2 DEF QsReadUnlock
  <2> QED BY <2>1, <2>2
<1>5. /\ loc' \in [Threads -> Locals] /\ \A e \in Threads \ {t} : loc'[e] = loc[e]
      /\ loc'[t].idx = loc[t].idx /\ loc'[t].scan = loc[t].scan
      /\ loc'[t].nest \in 1 .. QsStep - 1 /\ loc'[t].nest <= loc'[t].calls /\ loc'[t].calls <= MaxNest
  <2>1. CASE loc' = [loc EXCEPT ![t].nest = @ + 1, ![t].calls = @ + 1] /\ loc[t].calls < MaxNest /\ impl = "nest_qs"
    <3>1. loc[t].nest + 1 \in Nat /\ loc[t].calls + 1 \in Nat
      BY <1>2
    <3>2. loc' \in [Threads -> Locals]
      BY <1>1, <2>1, <3>1 DEF Locals
    <3>3. loc'[t].nest = loc[t].nest + 1 /\ loc'[t].calls = loc[t].calls + 1 /\ loc'[t].idx = loc[t].idx
          /\ loc'[t].scan = loc[t].scan
      BY <1>1, <2>1 DEF Locals
    <3>4. \A e \in Threads \ {t} : loc'[e] = loc[e]
      BY <1>1, <2>1
    <3>5. QsStep = MaxNest + 1
      BY <1>3, <2>1
    <3> QED BY <1>2, <1>3, <2>1, <3>2, <3>3, <3>4, <3>5
  <2>2. CASE loc' = [loc EXCEPT ![t].nest = @ - 1] /\ loc[t].nest > 1
    <3>1. loc[t].nest - 1 \in Nat
      BY <1>2
    <3>2. loc' \in [Threads -> Locals]
      BY <1>1, <2>2, <3>1 DEF Locals
    <3>3. loc'[t].nest = loc[t].nest - 1 /\ loc'[t].calls = loc[t].calls /\ loc'[t].idx = loc[t].idx
          /\ loc'[t].scan = loc[t].scan
      BY <1>1, <2>2 DEF Locals
    <3>4. \A e \in Threads \ {t} : loc'[e] = loc[e]
      BY <1>1, <2>2
    <3> QED BY <1>2, <1>3, <2>2, <3>2, <3>3, <3>4
  <2> QED BY <1>4, <2>1, <2>2
<1>6. Moves(t, "reading") /\ pc'[t] = "reading" /\ Visible(t)' = Visible(t)
  BY <1>1, <1>4 DEF Moves, Visible
<1>7. QsThread(t)'
  <2>1. QsStep' = QsStep /\ Numbers' = Numbers /\ Online' = Online
    BY <1>4, QsStays
  <2> QED BY <1>1, <1>4, <1>5, <1>6, <2>1 DEF QsThread, Holding
<1>8. QsWait(t)'
  BY <1>6 DEF QsWait
<1>9. Types' /\ QsInv'
  BY <1>1, <1>4, <1>5, <1>6, <1>7, <1>8, QsQuiet DEF QsLocs
<1>10. GpStep /\ Outlasted'
  BY <1>1, <1>4, GpStays DEF Outlasted
<1> QED BY <1>9, <1>10 DEF QsKept

\* The outermost rcu_read_unlock()
LEMMA QsLeaveKeeps ==
  ASSUME QsAssumed, NEW t \in Threads, QsReadUnlock(t), ~ (loc[t].nest > 1)
  PROVE  QsKept
<1>1. /\ UNCHANGED <<impl, ctr, mutex, shared, reader, buffer>> /\ pc[t] = "reading" /\ Moves(t, "online") /\ Outlast(t)
      /\ Forget(t)
  BY DEF QsReadUnlock, Goto, Moves
<1>2. /\ Types /\ GpInv /\ Outlasted /\ DOMAIN pc = Threads /\ QsThread(t) /\ ctr \in Nat
      /\ mutex \in [0 .. NR_THREADS -> 0 .. NR_THREADS]
  BY QsFacts DEF Types
<1>3. loc' \in [Threads -> Locals] /\ (\A e \in Threads \ {t} : loc'[e] = loc[e]) /\ loc'[t] = Registers
  BY <1>1, <1>2, ForgetIs
<1>4. \A e \in Threads : preexisting'[e] \subseteq preexisting[e] /\ t \notin preexisting'[e]
  BY <1>1 DEF Outlast
<1>5. pc'[t] = "online" /\ Visible(t)' = Visible(t) /\ 0 \in Threads /\ Online' = Online
  BY <1>1, <1>2, Setting, QsStays DEF Moves, Visible
<1>6. QsThread(t)'
  BY <1>1, <1>2, <1>3, <1>5 DEF QsThread, Holding, Registers, Threads
<1>7. QsWait(t)'
  BY <1>5 DEF QsWait
<1>8. Types' /\ QsInv'
  BY <1>1, <1>2, <1>3, <1>4, <1>6, <1>7, QsQuiet DEF QsLocs
<1>9. GpStep
  BY <1>1, <1>2, GpLeave DEF Reading, Synchronizing, Holding
<1>10. Outlasted'
  BY <1>1, <1>2, <1>4, OutlastedStays
<1> QED BY <1>8, <1>9, <1>10 DEF QsKept

\* synchronize_rcu() called, its lock taken and released, its return
LEMMA QsSyncKeeps ==
  ASSUME QsAssumed, NEW t \in Threads, SyncCall(t) \/ QsSyncLock(t) \/ SyncUnlock(t) \/ SyncReturn(t)
  PROVE  QsKept
<1>1. /\ Types /\ GpInv /\ Outlasted /\ DOMAIN pc = Threads /\ QsThread(t) /\ ctr \in Nat
      /\ mutex \in [0 .. NR_THREADS -> 0 .. NR_THREADS] /\ loc \in [Threads -> Locals]
  BY QsFacts DEF Types
<1>2. t \in 0 .. NR_THREADS /\ NoThread \in 0 .. NR_THREADS
  BY Setting
<1>3. CASE SyncCall(t)
  <2>1. /\ UNCHANGED <<impl, ctr, mutex, shared, reader, buffer, loc>> /\ pc[t] = "idle" /\ Moves(t, "sync_lock")
        /\ preexisting' = [preexisting EXCEPT ![t] = Inside]
    BY <1>3 DEF SyncCall, Goto, Moves
  <2>2. pc'[t] = "sync_lock" /\ \A e \in Threads \ {t} : preexisting'[e] = preexisting[e]
    BY <1>1, <2>1 DEF Moves, GpInv
  <2>3. QsThread(t)'
    BY <1>1, <2>1, <2>2 DEF QsThread, Holding
  <2>4. QsWait(t)'
    BY <2>2 DEF QsWait
  <2>5. Types' /\ QsInv'
    BY <1>1, <2>1, <2>2, <2>3, <2>4, QsQuiet DEF QsLocs
  <2>6. GpStep
    BY <1>1, <2>1, GpCall DEF Reading, Synchronizing, Holding
  <2>7. Outlasted'
    BY <1>1, <2>1, <2>2, OutlastedStays
  <2> QED BY <2>5, <2>6, <2>7 DEF QsKept
<1>4. CASE QsSyncLock(t)
  <2>1. /\ UNCHANGED <<impl, ctr, shared, reader, buffer, loc, preexisting>> /\ pc[t] = "sync_lock" /\ Moves(t, "sync_advance")
        /\ mutex[NoThread] = NoThread /\ mutex' = [mutex EXCEPT ![NoThread] = t]
    BY <1>4 DEF QsSyncLock, Goto, Moves
  <2>2. pc'[t] = "sync_advance" /\ mutex'[NoThread] = t /\ mutex' \in [0 .. NR_THREADS -> 0 .. NR_THREADS]
    BY <1>1, <1>2, <2>1 DEF Moves
  <2>3. QsThread(t)'
    <3>1. loc'[t].scan = 0 /\ loc'[t].scan \in Threads
      BY <1>1, <2>1 DEF QsThread
    <3>2. mutex'[NoThread'] = t
      BY <2>2 DEF NoThread
    <3> QED BY <2>2, <3>1, <3>2 DEF QsThread, Holding, Threads
  <2>4. QsWait(t)'
    BY <2>2 DEF QsWait
  <2>5. Types' /\ QsInv'
    BY <1>1, <2>1, <2>2, <2>3, <2>4, QsQuiet DEF QsLocs
  <2>6. GpStep
    BY <1>1, <2>1, GpQuiet DEF Reading, Synchronizing, Holding
  <2>7. Outlasted'
    BY <1>1, <2>1, OutlastedStays
  <2> QED BY <2>5, <2>6, <2>7 DEF QsKept
<1>5. CASE SyncUnlock(t)
  <2>1. /\ UNCHANGED <<impl, ctr, shared, reader, buffer, loc, preexisting>> /\ pc[t] = "sync_unlock" /\ Moves(t, "sync_return")
        /\ mutex' = [mutex EXCEPT ![NoThread] = NoThread]
    BY <1>5 DEF SyncUnlock, Goto, Moves
  <2>2. pc'[t] = "sync_return" /\ mutex' \in [0 .. NR_THREADS -> 0 .. NR_THREADS] /\ mutex[NoThread] = t
    BY <1>1, <1>2, <2>1 DEF Moves, QsThread, Holding
  <2>3. QsThread(t)'
    BY <1>1, <2>1, <2>2 DEF QsThread, Holding, Threads
  <2>4. QsWait(t)'
    BY <2>2 DEF QsWait
  <2>5. Types' /\ QsInv'
    BY <1>1, <2>1, <2>2, <2>3, <2>4, QsQuiet DEF QsLocs
  <2>6. GpStep
    BY <1>1, <2>1, GpQuiet DEF Reading, Synchronizing, Holding
  <2>7. Outlasted'
    <3>1. preexisting'[t] = {}
      BY <1>1, <2>1 DEF Outlasted
    <3> QED BY <1>1, <2>1, <3>1, OutlastedStays
  <2> QED BY <2>5, <2>6, <2>7 DEF QsKept
<1>6. CASE SyncReturn(t)
  <2>1. /\ UNCHANGED <<impl, ctr, mutex, shared, reader, buffer, preexisting>> /\ pc[t] = "sync_return" /\ Moves(t, "idle")
        /\ Forget(t)
    BY <1>6 DEF SyncReturn, Goto, Moves
  <2>2. loc' \in [Threads -> Locals] /\ loc'[t] = Registers /\ \A e \in Threads \ {t} : loc'[e] = loc[e]
    BY <1>1, <2>1, ForgetIs
  <2>3. pc'[t] = "idle" /\ 0 \in Threads /\ \A e \in Threads : t \notin preexisting[e]
    BY <1>1, <2>1, Setting, QsFacts DEF Moves
  <2>4. QsThread(t)'
    BY <2>2, <2>3 DEF QsThread, Holding, Registers, Threads
  <2>5. QsWait(t)'
    BY <2>3 DEF QsWait
  <2>6. Types' /\ QsInv'
    BY <1>1, <2>1, <2>2, <2>3, <2>4, <2>5, QsQuiet DEF QsLocs
  <2>7. GpStep
    <3>1. preexisting[t] = {}
      BY <1>1, <2>1 DEF Outlasted
    <3> QED BY <1>1, <2>1, <3>1, GpReturn DEF Reading, Synchronizing, Holding
  <2>8. Outlasted'
    BY <1>1, <2>1, OutlastedStays
  <2> QED BY <2>6, <2>7, <2>8 DEF QsKept
<1> QED BY <1>3, <1>4, <1>5, <1>6

\* rcu_gp_ctr advances: whoever is online shows a number from before, and so does every copy in a section.
LEMMA QsSyncAdvanceKeeps ==
  ASSUME QsAssumed, NEW t \in Threads, QsSyncAdvance(t)
  PROVE  QsKept
<1>1. /\ UNCHANGED <<impl, mutex, shared, reader, buffer, loc, preexisting>> /\ pc[t] = "sync_advance" /\ Moves(t, "sync_wait")
      /\ ctr' = ctr + QsStep
  BY DEF QsSyncAdvance, Goto, Moves
<1>2. /\ Types /\ GpInv /\ Outlasted /\ DOMAIN pc = Threads /\ QsThread(t) /\ ctr \in Nat /\ ctr \in Numbers
  BY QsFacts
<1>3. ctr' \in Numbers /\ ctr' \in Nat /\ ctr' >= ctr /\ QsStep \in Nat
  BY <1>1, <1>2, NumbersAre
<1>4. QsStep' = QsStep /\ Numbers' = Numbers /\ Online \subseteq OnlineBefore'
  BY <1>1, <1>2, <1>3, OnlineStep
<1>5. pc'[t] = "sync_wait"
  BY <1>1, <1>2 DEF Moves
<1>6. Types'
  BY <1>1, <1>2, <1>3 DEF Types, Values
<1>7. Frame(t)
  BY <1>1, <1>2 DEF Frame, Unread, Moves
<1>8. QsThread(t)'
  BY <1>1, <1>2, <1>5 DEF QsThread, Holding, Threads, NoThread
<1>9. QsWait(t)'
  <2>1. ASSUME NEW v \in preexisting[t]
        PROVE  v >= loc[t].scan /\ loc[v].idx + QsStep <= ctr' /\ Visible(v) \subseteq OnlineBefore'
    <3>1. v \in Threads /\ v >= 0 /\ loc[t].scan = 0
      BY <1>1, <1>2, Setting DEF GpInv, QsThread
    <3>2. QsThread(v) /\ pc[v] \in {"reading", "qs_inner"}
      BY <3>1, QsFacts
    <3>3. loc[v].idx \in Nat /\ loc[v].idx <= ctr /\ Visible(v) \subseteq Online
      BY <3>2, NumbersAre DEF QsThread
    <3> QED BY <1>1, <1>2, <1>3, <1>4, <3>1, <3>3
  <2>2. \A v \in Threads : Visible(v)' = Visible(v)
    BY <1>1 DEF Visible
  <2> QED BY <1>1, <1>2, <1>4, <2>1, <2>2 DEF QsWait, GpInv
<1>10. QsInv'
  <2>1. \A e \in Threads \ {t} : t \notin preexisting[e]
    BY <1>1, QsFacts
  <2> QED BY <1>1, <1>3, <1>6, <1>7, <1>8, <1>9, <2>1, QsOthers DEF QsLocs, Holding
<1>11. GpStep
  BY <1>1, <1>2, GpQuiet DEF Reading, Synchronizing, Holding
<1>12. Outlasted'
  BY <1>1, <1>2, OutlastedStays
<1> QED BY <1>6, <1>10, <1>11, <1>12 DEF QsKept

\* The next thread, for the loop that ends at the last one
LEMMA NextThread ==
  ASSUME NEW t \in Threads
  PROVE  /\ (t + 1) % NR_THREADS \in Threads
         /\ t = NR_THREADS - 1 => (t + 1) % NR_THREADS = 0
         /\ t # NR_THREADS - 1 => (t + 1) % NR_THREADS = t + 1
<1>1. NR_THREADS \in Nat \ {0} /\ t \in Nat /\ t < NR_THREADS /\ 0 \in Threads /\ (t # NR_THREADS - 1 => t + 1 \in Threads)
  BY Setting
<1>2. ASSUME NEW n \in Nat \ {0} PROVE n % n = 0 /\ \A k \in 0 .. n - 1 : k % n = k
  <2>1. n * 1 + 0 = n /\ (n * 1 + 0) % n = 0
    BY RestIs
  <2>2. ASSUME NEW k \in 0 .. n - 1 PROVE k % n = k
    <3>1. (n * 0 + k) % n = k
      BY RestIs
    <3>2. n * 0 + k = k
      OBVIOUS
    <3> QED BY <3>1, <3>2
  <2> QED BY <2>1, <2>2
<1>3. CASE t = NR_THREADS - 1
  BY <1>1, <1>2, <1>3
<1>4. CASE t # NR_THREADS - 1
  <2>1. t + 1 \in 0 .. NR_THREADS - 1
    BY <1>1, <1>4
  <2>2. (t + 1) % NR_THREADS = t + 1
    BY <1>1, <1>2, <2>1
  <2> QED BY <1>1, <1>4, <2>2
<1> QED BY <1>3, <1>4

\* A thread that the wait passes shows an even number or a new one: it is no reader to outlast.
LEMMA QsSyncWaitKeeps ==
  ASSUME QsAssumed, NEW t \in Threads, QsSyncWait(t)
  PROVE  QsKept
<1> DEFINE e == loc[t].scan
           n == (e + 1) % NR_THREADS
           x == IF e = NR_THREADS - 1 THEN "sync_unlock" ELSE "sync_wait"
<1>1. /\ Types /\ GpInv /\ Outlasted /\ DOMAIN pc = Threads /\ QsThread(t) /\ QsWait(t) /\ ctr \in Nat /\ loc \in [Threads -> Locals]
      /\ mutex \in [0 .. NR_THREADS -> 0 .. NR_THREADS]
  BY QsFacts DEF Types
<1>2. /\ UNCHANGED <<impl, ctr, mutex, shared, reader, buffer, preexisting>> /\ pc[t] = "sync_wait" /\ ~ Behind(e)
      /\ loc' = [loc EXCEPT ![t].scan = n] /\ Moves(t, x)
  BY <1>1 DEF QsSyncWait, Moves
<1>3. /\ e \in Threads /\ e \in Nat /\ n \in Threads /\ NR_THREADS \in Nat \ {0}
      /\ IF e = NR_THREADS - 1 THEN n = 0 ELSE n = e + 1
  BY <1>1, NextThread, Setting DEF QsThread
<1>4. \A v \in preexisting[t] : v \in Threads /\ v \in Nat /\ v < NR_THREADS /\ v > e
  <2>1. ASSUME NEW v \in preexisting[t] PROVE v \in Threads /\ v \in Nat /\ v < NR_THREADS /\ v > e
    <3>1. v \in Threads /\ v \in Nat /\ v < NR_THREADS /\ v >= e /\ Visible(v) \subseteq OnlineBefore /\ reader[v] \in Visible(v)
      BY <1>1, <1>2, Setting, OwnIs DEF GpInv, QsWait
    <3>2. Behind(v)
      BY <1>1, <3>1, OnlineIs DEF Behind
    <3>3. v # e
      BY <1>2, <3>2
    <3> QED BY <1>3, <3>1, <3>3
  <2> QED BY <2>1
<1>5. loc' \in [Threads -> Locals] /\ loc'[t].scan = n /\ loc'[t].idx = loc[t].idx /\ \A u \in Threads \ {t} : loc'[u] = loc[u]
  <2> HIDE DEF n
  <2>1. n \in 0 .. NR_THREADS
    BY <1>3, Setting
  <2>2. ASSUME NEW r \in Locals PROVE [r EXCEPT !.scan = n] \in Locals
    BY <2>1 DEF Locals
  <2>3. [loc[t] EXCEPT !.scan = n] \in Locals /\ loc' = [loc EXCEPT ![t] = [loc[t] EXCEPT !.scan = n]]
    BY <1>1, <1>2, <2>2
  <2>4. loc' \in [Threads -> Locals] /\ \A u \in Threads \ {t} : loc'[u] = loc[u]
    BY <1>1, <2>3
  <2>5. loc'[t].scan = n /\ loc'[t].idx = loc[t].idx
    BY <1>1, <1>2 DEF Locals
  <2> QED BY <2>4, <2>5
<1>6. pc'[t] = x /\ x \in {"sync_wait", "sync_unlock"} /\ (x = "sync_unlock" <=> e = NR_THREADS - 1)
  BY <1>1, <1>2 DEF Moves
<1>7. x = "sync_unlock" => preexisting[t] = {} /\ n = 0
  <2>1. ASSUME e = NR_THREADS - 1, NEW v \in preexisting[t] PROVE FALSE
    BY <1>3, <1>4, <2>1
  <2> QED BY <1>3, <1>6, <2>1
<1>8. \A v \in preexisting[t] : v >= n
  BY <1>3, <1>4
<1> HIDE DEF n, x
<1>9. QsThread(t)'
  BY <1>1, <1>2, <1>3, <1>5, <1>6, <1>7 DEF QsThread, Holding, Threads, NoThread
<1>10. QsWait(t)'
  <2>1. QsStep' = QsStep /\ OnlineBefore' = OnlineBefore /\ \A v \in Threads : Visible(v)' = Visible(v)
    BY <1>2, QsStays DEF Visible
  <2>2. \A v \in preexisting[t] : v \in Threads /\ loc'[v].idx = loc[v].idx
    BY <1>1, <1>5 DEF GpInv
  <2> QED BY <1>1, <1>2, <1>5, <1>8, <2>1, <2>2 DEF QsWait
<1>11. Types' /\ QsInv'
  <2>1. x \in QsLocs
    BY <1>6 DEF QsLocs
  <2> QED BY <1>1, <1>2, <1>5, <1>9, <1>10, <2>1, QsQuiet
<1>12. GpStep
  BY <1>1, <1>2, <1>6, GpQuiet DEF Reading, Synchronizing, Holding
<1>13. Outlasted'
  BY <1>1, <1>2, <1>6, <1>7, OutlastedStays
<1> QED BY <1>11, <1>12, <1>13 DEF QsKept

\* A store that becomes visible shows nothing new.
LEMMA QsDrainKeeps ==
  ASSUME QsAssumed, NEW t \in Threads, DrainStore(t)
  PROVE  QsKept
<1>1. Drains(t) /\ UNCHANGED <<impl, ctr, mutex, shared, loc, pc, preexisting>>
  BY DEF DrainStore, Drains
<1>2. /\ Types /\ GpInv /\ Outlasted /\ DOMAIN pc = Threads /\ QsThread(t) /\ QsWait(t) /\ ctr \in Nat /\ ctr \in Numbers
      /\ pc \in [Threads -> QsLocs]
  BY QsFacts
<1>3. Own(t)' = Own(t) /\ Visible(t)' \subseteq Visible(t) /\ \A e \in Threads \ {t} : Unread(e)
  BY <1>1, <1>2, DrainIs
<1>4. Types'
  BY <1>1, <1>2, DrainIs DEF Types, Values
<1>5. QsStep' = QsStep /\ Numbers' = Numbers /\ Online' = Online /\ OnlineBefore' = OnlineBefore
  BY <1>1, QsStays
<1>6. \A v \in Threads : Own(v)' = Own(v) /\ Visible(v)' \subseteq Visible(v)
  BY <1>3, UnreadIs
<1>7. ASSUME NEW e \in Threads PROVE QsThread(e)' /\ QsWait(e)'
  <2>1. QsThread(e) /\ QsWait(e) /\ preexisting[e] \subseteq Threads
    BY <1>2, QsFacts DEF GpInv
  <2>2. QsThread(e)'
    BY <1>1, <1>5, <1>6, <2>1 DEF QsThread, Threads, NoThread
  <2>3. QsWait(e)'
    BY <1>1, <1>5, <1>6, <2>1 DEF QsWait
  <2> QED BY <2>2, <2>3
<1>8. QsInv'
  BY <1>1, <1>2, <1>5, <1>7 DEF QsInv, Threads
<1>9. GpStep /\ Outlasted'
  BY <1>1, <1>2, GpStays DEF Outlasted
<1> QED BY <1>4, <1>8, <1>9 DEF QsKept

\* The steps of rcu_qs and rcu_nest_qs
QsSteps(t) ==
  \/ QsLoad(t) \/ QsStore(t) \/ QsInner(t) \/ QsMb(t)
  \/ OfflineLoad(t) \/ OfflineStore(t)
  \/ ReadLock(t) \/ QsReadUnlock(t)
  \/ SyncCall(t) \/ QsSyncLock(t) \/ QsSyncAdvance(t) \/ QsSyncWait(t)
  \/ SyncUnlock(t) \/ SyncReturn(t)
  \/ DrainStore(t)

\* Each of them keeps the invariant and is one of the abstract specification, or none.
LEMMA QsKeeps ==
  ASSUME QsAssumed, NEW t \in Threads, QsSteps(t)
  PROVE  QsKept /\ UNCHANGED impl
<1>1. UNCHANGED impl
  BY DEF QsSteps, QsLoad, QsStore, QsInner, QsMb, OfflineLoad, OfflineStore, ReadLock, QsReadUnlock, SyncCall, QsSyncLock,
         QsSyncAdvance, QsSyncWait, SyncUnlock, SyncReturn, DrainStore
<1>2. CASE ReadLock(t) \/ QsReadUnlock(t)
  <2>1. pc[t] = "online" \/ pc[t] = "reading"
    BY <1>2 DEF ReadLock, QsReadUnlock, Goto
  <2>2. ReadLock(t) => QsKept
    BY <2>1, QsEnterKeeps, QsNestedKeeps
  <2>3. QsReadUnlock(t) => QsKept
    <3>1. QsReadUnlock(t) => pc[t] = "reading"
      BY DEF QsReadUnlock, Goto
    <3> QED BY <3>1, QsNestedKeeps, QsLeaveKeeps
  <2> QED BY <1>1, <1>2, <2>2, <2>3
<1> QED BY <1>1, <1>2, QsLoadKeeps, QsStoreKeeps, QsInnerKeeps, QsMbKeeps, OfflineStoreKeeps, QsSyncKeeps, QsSyncAdvanceKeeps,
           QsSyncWaitKeeps, QsDrainKeeps DEF QsSteps

-----------------------------------------------------------------------------
\* Sleepable RCU
SrcuAssumed == impl \in SrcuImpls /\ Types /\ GpInv /\ Outlasted /\ SrcuInv
SrcuKept == Types' /\ GpStep /\ Outlasted' /\ SrcuInv'

\* The two indexes take turns.
LEMMA Parity ==
  ASSUME NEW c \in Int
  PROVE  c % 2 \in 0 .. 1 /\ (c + 1) % 2 = 1 - (c % 2)
  OBVIOUS

\* What the invariant says about t
LEMMA SrcuFacts ==
  ASSUME SrcuAssumed, NEW t \in Threads
  PROVE  /\ impl = "srcu" /\ Types /\ GpInv /\ Outlasted /\ DOMAIN pc = Threads /\ Values = Pairs /\ ctr \in Int
         /\ pc \in [Threads -> SrcuLocs] /\ OneIndex /\ SrcuThread(t) /\ SrcuCall(t) /\ SrcuWait(t)
         /\ loc[t] \in Locals /\ loc \in [Threads -> Locals] /\ mutex \in [0 .. NR_THREADS -> 0 .. NR_THREADS]
         /\ Own(t) \in Pairs /\ Own(t) \in Visible(t) /\ reader[t] \in Visible(t) /\ Visible(t) \subseteq Pairs
         /\ Len(buffer[t]) \in Nat /\ Owed(t) \in Nat /\ (Owed(t) = 0 => Drained(t) /\ pc[t] # "lock_store")
         /\ \A e \in Threads : t \in preexisting[e] => pc[t] = "reading" /\ t \in Indexed
<1>1. /\ impl = "srcu" /\ Types /\ GpInv /\ Outlasted /\ DOMAIN pc = Threads /\ ctr \in Int
      /\ pc \in [Threads -> SrcuLocs] /\ OneIndex /\ SrcuThread(t) /\ SrcuCall(t) /\ SrcuWait(t)
      /\ loc[t] \in Locals /\ loc \in [Threads -> Locals] /\ mutex \in [0 .. NR_THREADS -> 0 .. NR_THREADS]
      /\ buffer[t] \in Seq(Values)
  BY DEF SrcuAssumed, SrcuInv, Types, SrcuImpls
<1>2. Values = Pairs
  BY <1>1 DEF Values
<1>3. Own(t) \in Pairs /\ Own(t) \in Visible(t) /\ reader[t] \in Visible(t) /\ Visible(t) \subseteq Pairs
  BY <1>1, <1>2, OwnIs
<1>4. Len(buffer[t]) \in Nat /\ (Len(buffer[t]) = 0 => Drained(t))
  BY <1>1, EmptySeq DEF Drained
<1>5. Owed(t) \in Nat /\ (Owed(t) = 0 => Drained(t) /\ pc[t] # "lock_store")
  <2>1. CASE pc[t] = "lock_store"
    BY <1>4, <2>1 DEF Owed
  <2>2. CASE pc[t] # "lock_store"
    BY <1>4, <2>2 DEF Owed
  <2> QED BY <2>1, <2>2
<1>6. \A e \in Threads : t \in preexisting[e] => pc[t] = "reading" /\ t \in Indexed
  BY <1>1 DEF GpInv, Inside, SrcuLocs, Synchronizing, Holding, Indexed
<1> QED BY <1>1, <1>2, <1>3, <1>4, <1>5, <1>6

\* A reader loads the index in use, or goes on with the one it has and owes no more than before.
SrcuTurn(t) ==
  t \in Indexed' =>
    \/ t \notin Indexed /\ loc'[t].idx = ctr % 2
    \/ t \in Indexed /\ loc'[t].idx = loc[t].idx /\ Owed(t)' <= Owed(t)

\* What a step of t leaves of the others, if it is no flip
LEMMA SrcuOthers ==
  ASSUME SrcuAssumed, NEW t \in Threads, Types', Frame(t), UNCHANGED <<impl, ctr>>, NEW x \in SrcuLocs, Moves(t, x),
         mutex'[NoThread] = mutex[NoThread] \/ mutex[NoThread] \in {t, NoThread},
         \A e \in Threads \ {t} : preexisting'[e] \subseteq preexisting[e],
         \A e \in Threads \ {t} : t \in preexisting'[e] => loc'[t].idx = loc[t].idx,
         SrcuTurn(t), Owed(t)' \in Nat,
         x \in Flipped \/ pc[t] \notin Flipped \/ \A v \in Indexed : loc[v].idx = ctr % 2,
         SrcuThread(t)', SrcuCall(t)', SrcuWait(t)'
  PROVE  SrcuInv'
<1>1. /\ pc' \in [Threads -> SrcuLocs] /\ pc'[t] = x /\ DOMAIN pc = Threads /\ OneIndex /\ ctr \in Int
      /\ \A e \in Threads \ {t} : pc'[e] = pc[e] /\ loc'[e] = loc[e] /\ buffer'[e] = buffer[e] /\ Unread(e)
  BY SrcuFacts DEF Moves, Frame, Unread
<1>2. \A e \in Threads \ {t} : Owed(e)' = Owed(e) /\ (e \in Indexed' <=> e \in Indexed)
  BY <1>1 DEF Owed, Indexed
<1>3. OneIndex'
  <2> SUFFICES ASSUME \A u \in Threads : pc'[u] \notin Flipped PROVE \A v \in Indexed' : loc'[v].idx = ctr' % 2
    BY DEF OneIndex, Threads, Flipped
  <2>1. \A v \in Indexed : loc[v].idx = ctr % 2
    <3>1. CASE pc[t] \notin Flipped
      <4>1. \A u \in Threads : pc[u] \notin Flipped
        BY <1>1, <3>1
      <4> QED BY <1>1, <4>1 DEF OneIndex
    <3>2. CASE pc[t] \in Flipped
      BY <1>1, <3>2
    <3> QED BY <3>1, <3>2
  <2>2. \A v \in Indexed' : v \in Threads
    BY DEF Indexed, Threads
  <2> QED BY <1>1, <1>2, <2>1, <2>2 DEF SrcuTurn
<1>4. ASSUME NEW e \in Threads \ {t} PROVE SrcuThread(e)' /\ SrcuCall(e)' /\ SrcuWait(e)'
  <2>1. /\ SrcuThread(e) /\ SrcuCall(e) /\ SrcuWait(e) /\ pc'[e] = pc[e] /\ loc'[e] = loc[e] /\ Own(e)' = Own(e)
        /\ Visible(e)' = Visible(e) /\ preexisting'[e] \subseteq preexisting[e] /\ preexisting[e] \subseteq Threads
    BY <1>1, SrcuFacts, UnreadIs DEF GpInv
  <2>2. pc[e] \in Holding => mutex'[NoThread] = e
    <3>1. e # NoThread
      BY Setting
    <3> QED BY <2>1, <3>1 DEF SrcuThread
  <2>3. SrcuThread(e)'
    BY <2>1, <2>2 DEF SrcuThread, Threads, NoThread, SrcuShown
  <2>4. \A v \in preexisting'[e] : v \in preexisting[e] /\ loc'[v].idx = loc[v].idx
    BY <1>1, <2>1
  <2>5. SrcuCall(e)'
    BY <2>1, <2>4 DEF SrcuCall
  <2>6. ASSUME pc[e] \in Flipped, NEW v \in Indexed', loc'[v].idx = loc[e].old
        PROVE  v \in Indexed /\ loc[v].idx = loc[e].old /\ Owed(v)' <= Owed(v) /\ Owed(v)' \in Nat /\ Owed(v) \in Nat
    <3>1. v \in Threads
      BY DEF Indexed, Threads
    <3>2. CASE v # t
      BY <1>1, <1>2, <2>6, <3>1, <3>2, SrcuFacts
    <3>3. CASE v = t
      <4>1. loc[e].old # ctr % 2
        BY <1>1, <2>1, <2>6, Parity DEF SrcuWait
      <4> QED BY <2>6, <3>3, <4>1, SrcuFacts DEF SrcuTurn
    <3> QED BY <3>2, <3>3
  <2>7. SrcuWait(e)'
    <3>1. pc'[e] \in Flipped => loc'[e].old = 1 - (ctr' % 2) /\ \A v \in preexisting'[e] : loc'[v].idx = loc'[e].old
      BY <2>1, <2>4 DEF SrcuWait
    <3>2. ASSUME pc'[e] = "sync_again"
          PROVE  /\ loc'[e].due \in [Threads -> Int]
                 /\ \A v \in Indexed' : loc'[v].idx = loc'[e].old => loc'[e].due[v] >= Owed(v)'
      <4>1. loc[e].due \in [Threads -> Int] /\ \A v \in Indexed : loc[v].idx = loc[e].old => loc[e].due[v] >= Owed(v)
        BY <2>1, <3>2 DEF SrcuWait
      <4>2. ASSUME NEW v \in Indexed', loc'[v].idx = loc'[e].old PROVE loc'[e].due[v] >= Owed(v)'
        <5>1. v \in Indexed /\ loc[v].idx = loc[e].old /\ Owed(v)' <= Owed(v) /\ Owed(v)' \in Nat /\ Owed(v) \in Nat
          BY <2>1, <2>6, <3>2, <4>2 DEF Flipped
        <5>2. loc[e].due[v] \in Int /\ loc[e].due[v] >= Owed(v)
          BY <4>1, <5>1 DEF Indexed
        <5> QED BY <2>1, <5>1, <5>2
      <4> QED BY <2>1, <4>1, <4>2
    <3>3. ASSUME pc'[e] = "sync_wait"
          PROVE  /\ loc'[e].snap >= 0
                 /\ \A v \in Indexed' : loc'[v].idx = loc'[e].old =>
                      Owed(v)' = 0 /\ (v < loc'[e].scan => loc'[e].snap >= 1)
      <4>1. /\ loc[e].snap >= 0
            /\ \A v \in Indexed : loc[v].idx = loc[e].old => Owed(v) = 0 /\ (v < loc[e].scan => loc[e].snap >= 1)
        BY <2>1, <3>3 DEF SrcuWait
      <4>2. ASSUME NEW v \in Indexed', loc'[v].idx = loc'[e].old
            PROVE  Owed(v)' = 0 /\ (v < loc'[e].scan => loc'[e].snap >= 1)
        <5>1. v \in Indexed /\ loc[v].idx = loc[e].old /\ Owed(v)' <= Owed(v) /\ Owed(v)' \in Nat /\ Owed(v) \in Nat
          BY <2>1, <2>6, <3>3, <4>2 DEF Flipped
        <5> QED BY <2>1, <4>1, <5>1
      <4> QED BY <2>1, <4>1, <4>2
    <3> QED BY <3>1, <3>2, <3>3 DEF SrcuWait, Threads, Flipped
  <2> QED BY <2>3, <2>5, <2>7
<1> QED BY <1>1, <1>3, <1>4 DEF SrcuInv, Threads

\* A step of t with the locations and registers of a thread that has loaded no index
LEMMA SrcuStays ==
  ASSUME DOMAIN pc = Threads, NEW t \in Threads, NEW x, Moves(t, x), UNCHANGED buffer,
         pc[t] \notin {"lock_store", "reading", "unlock_store"}, x \notin {"lock_store", "reading", "unlock_store"}
  PROVE  Indexed' = Indexed /\ t \notin Indexed /\ \A v \in Threads : Owed(v)' = Owed(v)
<1>1. pc'[t] = x /\ \A e \in Threads \ {t} : pc'[e] = pc[e]
  BY DEF Moves
<1>2. Indexed' = Indexed /\ t \notin Indexed
  BY <1>1 DEF Indexed, Threads
<1>3. ASSUME NEW v \in Threads PROVE Owed(v)' = Owed(v)
  BY <1>1 DEF Owed
<1> QED BY <1>2, <1>3

\* The steps of synchronize_srcu() but the flip
LEMMA SrcuSyncing ==
  ASSUME SrcuAssumed, NEW t \in Threads, NEW x \in {"idle"} \union Synchronizing, Moves(t, x),
         pc[t] \in {"idle"} \union Synchronizing,
         UNCHANGED <<impl, ctr, shared, reader, buffer>>,
         mutex' \in [0 .. NR_THREADS -> 0 .. NR_THREADS],
         mutex'[NoThread] = mutex[NoThread] \/ mutex[NoThread] \in {t, NoThread},
         x \in Holding => mutex'[NoThread] = t,
         loc' \in [Threads -> Locals], \A e \in Threads \ {t} : loc'[e] = loc[e],
         loc'[t].idx \in 0 .. 1, loc'[t].scan \in Threads, x = "sync_wait" \/ loc'[t].scan = 0,
         \A e \in Threads \ {t} : preexisting'[e] \subseteq preexisting[e],
         x = "sync_drop" => preexisting'[t] = {},
         x \in Flipped \/ pc[t] \notin Flipped \/ \A v \in Indexed : loc[v].idx = ctr % 2,
         SrcuCall(t)', SrcuWait(t)'
  PROVE  Types' /\ SrcuInv'
<1>1. Types /\ DOMAIN pc = Threads /\ SrcuThread(t) /\ Owed(t) \in Nat /\ \A e \in Threads : t \notin preexisting[e]
  BY SrcuFacts DEF Synchronizing, Holding
<1>2. Types'
  BY <1>1 DEF Types, Values
<1>3. Frame(t)
  BY <1>1 DEF Frame, Unread, Moves
<1>4. Indexed' = Indexed /\ t \notin Indexed /\ Owed(t)' = Owed(t)
  BY <1>1, SrcuStays DEF Synchronizing, Holding
<1>5. SrcuTurn(t)
  BY <1>4 DEF SrcuTurn
<1>6. SrcuThread(t)'
  <2>1. pc'[t] = x /\ Visible(t)' = Visible(t) /\ Own(t)' = Own(t)
    BY <1>1 DEF Moves, Visible, Own, Drained, Last
  <2>2. SrcuShown(t)' = SrcuShown(t)
    BY <2>1 DEF SrcuShown, Synchronizing, Holding
  <2> QED BY <1>1, <2>1, <2>2 DEF SrcuThread, Threads, NoThread
<1>7. x \in SrcuLocs
  BY DEF SrcuLocs
<1>8. SrcuInv'
  BY <1>1, <1>2, <1>3, <1>4, <1>5, <1>6, <1>7, SrcuOthers
<1> QED BY <1>2, <1>8

\* synchronize_srcu() called; its mutex taken, or nothing left to do after two flips of others
LEMMA SrcuCallKeeps ==
  ASSUME SrcuAssumed, NEW t \in Threads, Synchronize(t) \/ SrcuSyncLock(t)
  PROVE  SrcuKept
<1>1. /\ Types /\ GpInv /\ Outlasted /\ DOMAIN pc = Threads /\ SrcuThread(t) /\ SrcuCall(t) /\ ctr \in Int
      /\ loc[t] \in Locals /\ loc \in [Threads -> Locals] /\ mutex \in [0 .. NR_THREADS -> 0 .. NR_THREADS]
  BY SrcuFacts
<1>2. CASE Synchronize(t)
  <2>1. /\ UNCHANGED <<impl, ctr, mutex, shared, reader, buffer>> /\ pc[t] = "idle" /\ Moves(t, "sync_lock")
        /\ preexisting' = [preexisting EXCEPT ![t] = Inside] /\ loc' = [loc EXCEPT ![t].old = ctr]
    BY <1>2 DEF Synchronize, Goto, Moves
  <2>2. pc'[t] = "sync_lock" /\ \A e \in Threads \ {t} : preexisting'[e] = preexisting[e]
    BY <1>1, <2>1 DEF Moves, GpInv
  <2>3. /\ loc' \in [Threads -> Locals] /\ (\A e \in Threads \ {t} : loc'[e] = loc[e])
        /\ loc'[t].old = ctr /\ loc'[t].idx = loc[t].idx /\ loc'[t].scan = loc[t].scan
    <3>1. ASSUME NEW r \in Locals, NEW s \in Int PROVE [r EXCEPT !.old = s] \in Locals
      BY DEF Locals
    <3>2. [loc[t] EXCEPT !.old = ctr] \in Locals /\ loc' = [loc EXCEPT ![t] = [loc[t] EXCEPT !.old = ctr]]
      BY <1>1, <2>1, <3>1
    <3>3. loc' \in [Threads -> Locals] /\ \A e \in Threads \ {t} : loc'[e] = loc[e]
      BY <1>1, <3>2
    <3>4. loc'[t].old = ctr /\ loc'[t].idx = loc[t].idx /\ loc'[t].scan = loc[t].scan
      BY <1>1, <2>1 DEF Locals
    <3> QED BY <3>3, <3>4
  <2>4. SrcuCall(t)'
    <3>1. loc'[t].old <= ctr' /\ ~ (loc'[t].old + 1 <= ctr') /\ ~ (loc'[t].old + 2 <= ctr')
      BY <1>1, <2>1, <2>3
    <3> QED BY <3>1 DEF SrcuCall
  <2>5. SrcuWait(t)'
    BY <2>2 DEF SrcuWait, Flipped
  <2>6. loc'[t].idx \in 0 .. 1 /\ loc'[t].scan \in Threads /\ loc'[t].scan = 0
    BY <1>1, <2>1, <2>3 DEF SrcuThread
  <2>7. Types' /\ SrcuInv'
    BY <1>1, <2>1, <2>2, <2>3, <2>4, <2>5, <2>6, SrcuSyncing DEF Synchronizing, Holding, Flipped
  <2>8. GpStep
    BY <1>1, <2>1, GpCall DEF Reading, Synchronizing, Holding
  <2>9. Outlasted'
    BY <1>1, <2>1, <2>2, OutlastedStays
  <2> QED BY <2>7, <2>8, <2>9 DEF SrcuKept
<1>3. CASE SrcuSyncLock(t)
  <2> DEFINE x == IF ctr - loc[t].old >= 2 THEN "sync_unlock" ELSE "sync_load"
  <2>1. /\ UNCHANGED <<impl, ctr, shared, reader, buffer, loc, preexisting>> /\ pc[t] = "sync_lock" /\ Moves(t, x)
        /\ mutex[NoThread] = NoThread /\ mutex' = [mutex EXCEPT ![NoThread] = t]
    BY <1>3 DEF SrcuSyncLock, Goto, Moves
  <2>2. x = "sync_unlock" => preexisting[t] = {}
    <3>1. loc[t].old \in Int
      BY <1>1 DEF Locals
    <3>2. ctr - loc[t].old >= 2 => loc[t].old + 2 <= ctr
      BY <1>1, <3>1
    <3> QED BY <1>1, <2>1, <3>2 DEF SrcuCall
  <2>3. x \in {"sync_unlock", "sync_load"}
    OBVIOUS
  <2> HIDE DEF x
  <2>4. pc'[t] = x
    BY <1>1, <2>1 DEF Moves
  <2>5. mutex'[NoThread] = t /\ mutex' \in [0 .. NR_THREADS -> 0 .. NR_THREADS]
    <3>1. t \in 0 .. NR_THREADS /\ NoThread \in 0 .. NR_THREADS
      BY Setting
    <3> QED BY <1>1, <2>1, <3>1
  <2>6. SrcuCall(t)' /\ SrcuWait(t)'
    BY <2>3, <2>4 DEF SrcuCall, SrcuWait, Flipped
  <2>7. loc'[t].idx \in 0 .. 1 /\ loc'[t].scan \in Threads /\ loc'[t].scan = 0
    BY <1>1, <2>1 DEF SrcuThread
  <2>8. x \in Synchronizing /\ x # "sync_drop"
    BY <2>3 DEF Synchronizing, Holding
  <2>9. Types' /\ SrcuInv'
    BY <1>1, <2>1, <2>5, <2>6, <2>7, <2>8, SrcuSyncing DEF Synchronizing, Flipped
  <2>10. GpStep
    BY <1>1, <2>1, <2>3, GpQuiet DEF Reading, Synchronizing, Holding
  <2>11. Outlasted'
    BY <1>1, <2>1, <2>2, <2>3, OutlastedStays
  <2> QED BY <2>9, <2>10, <2>11 DEF SrcuKept
<1> QED BY <1>2, <1>3

\* Its unlock and its return
LEMMA SrcuReturnKeeps ==
  ASSUME SrcuAssumed, NEW t \in Threads, SyncUnlock(t) \/ SyncReturn(t)
  PROVE  SrcuKept
<1>1. /\ Types /\ GpInv /\ Outlasted /\ DOMAIN pc = Threads /\ SrcuThread(t) /\ ctr \in Int
      /\ loc[t] \in Locals /\ loc \in [Threads -> Locals] /\ mutex \in [0 .. NR_THREADS -> 0 .. NR_THREADS]
  BY SrcuFacts
<1>2. CASE SyncUnlock(t)
  <2>1. /\ UNCHANGED <<impl, ctr, shared, reader, buffer, loc, preexisting>> /\ pc[t] = "sync_unlock" /\ Moves(t, "sync_return")
        /\ mutex' = [mutex EXCEPT ![NoThread] = NoThread]
    BY <1>2 DEF SyncUnlock, Goto, Moves
  <2>2. pc'[t] = "sync_return" /\ mutex[NoThread] = t
    BY <1>1, <2>1 DEF Moves, SrcuThread, Holding
  <2>3. mutex' \in [0 .. NR_THREADS -> 0 .. NR_THREADS]
    <3>1. NoThread \in 0 .. NR_THREADS
      BY Setting
    <3> QED BY <1>1, <2>1, <3>1
  <2>4. SrcuCall(t)' /\ SrcuWait(t)'
    BY <2>2 DEF SrcuCall, SrcuWait, Flipped
  <2>5. loc'[t].idx \in 0 .. 1 /\ loc'[t].scan \in Threads /\ loc'[t].scan = 0
    BY <1>1, <2>1 DEF SrcuThread
  <2>6. Types' /\ SrcuInv'
    BY <1>1, <2>1, <2>2, <2>3, <2>4, <2>5, SrcuSyncing DEF Synchronizing, Holding, Flipped
  <2>7. GpStep
    BY <1>1, <2>1, GpQuiet DEF Reading, Synchronizing, Holding
  <2>8. Outlasted'
    <3>1. preexisting'[t] = {}
      BY <1>1, <2>1 DEF Outlasted
    <3> QED BY <1>1, <2>1, <3>1, OutlastedStays
  <2> QED BY <2>6, <2>7, <2>8 DEF SrcuKept
<1>3. CASE SyncReturn(t)
  <2>1. /\ UNCHANGED <<impl, ctr, mutex, shared, reader, buffer, preexisting>> /\ pc[t] = "sync_return" /\ Moves(t, "idle")
        /\ Forget(t)
    BY <1>3 DEF SyncReturn, Goto, Moves
  <2>2. loc' \in [Threads -> Locals] /\ loc'[t] = Registers /\ \A e \in Threads \ {t} : loc'[e] = loc[e]
    BY <1>1, <2>1, ForgetIs
  <2>3. pc'[t] = "idle"
    BY <1>1, <2>1 DEF Moves
  <2>4. SrcuCall(t)' /\ SrcuWait(t)'
    BY <2>3 DEF SrcuCall, SrcuWait, Flipped
  <2>5. loc'[t].idx \in 0 .. 1 /\ loc'[t].scan \in Threads /\ loc'[t].scan = 0
    BY <2>2, Setting DEF Registers
  <2>6. Types' /\ SrcuInv'
    BY <1>1, <2>1, <2>2, <2>4, <2>5, SrcuSyncing DEF Synchronizing, Holding, Flipped
  <2>7. GpStep
    <3>1. preexisting[t] = {}
      BY <1>1, <2>1 DEF Outlasted
    <3> QED BY <1>1, <2>1, <3>1, GpReturn DEF Reading, Synchronizing, Holding
  <2>8. Outlasted'
    BY <1>1, <2>1, OutlastedStays
  <2> QED BY <2>6, <2>7, <2>8 DEF SrcuKept
<1> QED BY <1>2, <1>3

\* What a grace period that begins has to see
LEMMA DueIs ==
  ASSUME SrcuAssumed
  PROVE  Due \in [Threads -> Int] /\ Due \in Dues /\ \A v \in Threads : Due[v] >= Owed(v)
<1>1. ASSUME NEW v \in Threads PROVE Due[v] \in Int /\ Due[v] >= Owed(v)
  <2>1. Len(buffer[v]) \in Nat
    BY SrcuFacts
  <2>2. Due[v] = Len(buffer[v]) + (IF InSection(v) THEN 1 ELSE 0)
    BY DEF Due
  <2>3. (IF InSection(v) THEN 1 ELSE 0) \in {0, 1} /\ (pc[v] = "lock_store" => (IF InSection(v) THEN 1 ELSE 0) = 1)
    BY DEF InSection
  <2>4. CASE pc[v] = "lock_store"
    BY <2>1, <2>2, <2>3, <2>4 DEF Owed
  <2>5. CASE pc[v] # "lock_store"
    BY <2>1, <2>2, <2>3, <2>5 DEF Owed
  <2> QED BY <2>4, <2>5
<1>2. Due \in [Threads -> Int]
  <2>1. Due = [v \in Threads |-> Due[v]]
    BY DEF Due
  <2> QED BY <1>1, <2>1
<1> QED BY <1>1, <1>2 DEF Dues

\* The first grace period begins; the second and the third end.
LEMMA SrcuGpKeeps ==
  ASSUME SrcuAssumed, NEW t \in Threads, FirstGp(t) \/ SecondGp(t) \/ ThirdGp(t)
  PROVE  SrcuKept
<1>1. /\ Types /\ GpInv /\ Outlasted /\ DOMAIN pc = Threads /\ SrcuThread(t) /\ SrcuWait(t) /\ ctr \in Int
      /\ loc[t] \in Locals /\ loc \in [Threads -> Locals] /\ mutex \in [0 .. NR_THREADS -> 0 .. NR_THREADS]
  BY SrcuFacts
<1>2. ASSUME NEW r \in Locals, NEW d \in Dues, NEW s \in Int
      PROVE  [r EXCEPT !.due = d] \in Locals /\ [r EXCEPT !.due = d, !.snap = s] \in Locals
  BY DEF Locals
<1>3. <<>> \in Dues
  BY DEF Dues
<1>4. CASE FirstGp(t)
  <2>1. /\ UNCHANGED <<impl, ctr, mutex, shared, reader, buffer, preexisting>> /\ pc[t] = "sync_load" /\ Moves(t, "sync_advance")
        /\ loc' = [loc EXCEPT ![t].due = Due]
    BY <1>4 DEF FirstGp, Goto, Moves
  <2>2. loc' \in [Threads -> Locals] /\ \A e \in Threads \ {t} : loc'[e] = loc[e]
    <3>1. [loc[t] EXCEPT !.due = Due] \in Locals /\ loc' = [loc EXCEPT ![t] = [loc[t] EXCEPT !.due = Due]]
      BY <1>1, <1>2, <2>1, DueIs
    <3> QED BY <1>1, <3>1
  <2>3. loc'[t].idx = loc[t].idx /\ loc'[t].scan = loc[t].scan /\ pc'[t] = "sync_advance"
    BY <1>1, <2>1 DEF Locals, Moves
  <2>4. SrcuCall(t)' /\ SrcuWait(t)'
    BY <2>3 DEF SrcuCall, SrcuWait, Flipped
  <2>5. loc'[t].idx \in 0 .. 1 /\ loc'[t].scan \in Threads /\ loc'[t].scan = 0 /\ mutex[NoThread] = t
    BY <1>1, <2>1, <2>3 DEF SrcuThread, Holding
  <2>6. Types' /\ SrcuInv'
    BY <1>1, <2>1, <2>2, <2>4, <2>5, SrcuSyncing DEF Synchronizing, Holding, Flipped
  <2>7. GpStep
    BY <1>1, <2>1, GpQuiet DEF Reading, Synchronizing, Holding
  <2>8. Outlasted'
    BY <1>1, <2>1, OutlastedStays
  <2> QED BY <2>6, <2>7, <2>8 DEF SrcuKept
<1>5. CASE SecondGp(t)
  <2>1. /\ UNCHANGED <<impl, ctr, mutex, shared, reader, buffer, preexisting>> /\ pc[t] = "sync_again" /\ Moves(t, "sync_wait")
        /\ loc' = [loc EXCEPT ![t].due = <<>>, ![t].snap = 0] /\ Elapsed(t)
    BY <1>5 DEF SecondGp, Goto, Moves
  <2>2. loc' \in [Threads -> Locals] /\ \A e \in Threads \ {t} : loc'[e] = loc[e]
    <3>1. [loc[t] EXCEPT !.due = <<>>, !.snap = 0] \in Locals
      <4>1. 0 \in Int
        OBVIOUS
      <4> QED BY <1>1, <1>2, <1>3, <4>1
    <3>2. loc' = [loc EXCEPT ![t] = [loc[t] EXCEPT !.due = <<>>, !.snap = 0]]
      BY <2>1
    <3> QED BY <1>1, <3>1, <3>2
  <2>3. loc'[t].idx = loc[t].idx /\ loc'[t].scan = loc[t].scan /\ loc'[t].old = loc[t].old /\ loc'[t].snap = 0 /\ pc'[t] = "sync_wait"
    BY <1>1, <2>1 DEF Locals, Moves
  <2>4. loc'[t].idx \in 0 .. 1 /\ loc'[t].scan \in Threads /\ loc'[t].scan = 0 /\ mutex[NoThread] = t
    BY <1>1, <2>1, <2>3 DEF SrcuThread, Holding
  <2>5. SrcuWait(t)'
    <3>1. Indexed' = Indexed /\ t \notin Indexed /\ \A v \in Threads : Owed(v)' = Owed(v)
      BY <1>1, <2>1, SrcuStays
    <3>2. \A v \in Indexed : v \in Threads /\ v >= 0 /\ ~ (v < 0)
      BY Setting DEF Indexed
    <3>3. \A v \in Indexed : loc'[v].idx = loc[v].idx
      BY <2>2, <3>1, <3>2
    <3>4. \A v \in preexisting[t] : loc'[v].idx = loc[v].idx
      BY <1>1, <2>2, <3>1, SrcuFacts DEF GpInv
    <3>5. ASSUME NEW v \in Indexed, loc[v].idx = loc[t].old PROVE Owed(v) = 0
      <4>1. Owed(v) \in Nat /\ loc[t].due[v] = 0 /\ loc[t].due[v] >= Owed(v)
        BY <1>1, <2>1, <3>2, <3>5, SrcuFacts DEF SrcuWait, Elapsed
      <4> QED BY <4>1
    <3>6. loc'[t].old = 1 - (ctr' % 2) /\ \A v \in preexisting'[t] : loc'[v].idx = loc'[t].old
      BY <1>1, <2>1, <2>3, <3>4 DEF SrcuWait, Flipped
    <3>7. \A v \in Indexed' : loc'[v].idx = loc'[t].old => Owed(v)' = 0 /\ (v < loc'[t].scan => loc'[t].snap >= 1)
      BY <2>3, <2>4, <3>1, <3>2, <3>3, <3>5
    <3>8. loc'[t].snap >= 0 /\ pc'[t] # "sync_again"
      BY <2>3
    <3> QED BY <3>6, <3>7, <3>8 DEF SrcuWait, Flipped
  <2>6. SrcuCall(t)'
    BY <2>3 DEF SrcuCall
  <2>7. Types' /\ SrcuInv'
    BY <1>1, <2>1, <2>2, <2>4, <2>5, <2>6, SrcuSyncing DEF Synchronizing, Holding, Flipped
  <2>8. GpStep
    BY <1>1, <2>1, GpQuiet DEF Reading, Synchronizing, Holding
  <2>9. Outlasted'
    BY <1>1, <2>1, OutlastedStays
  <2> QED BY <2>7, <2>8, <2>9 DEF SrcuKept
<1>6. CASE ThirdGp(t)
  <2>1. /\ UNCHANGED <<impl, ctr, mutex, shared, reader, buffer, preexisting>> /\ pc[t] = "sync_drop" /\ Moves(t, "sync_unlock")
        /\ loc' = [loc EXCEPT ![t].due = <<>>]
    BY <1>6 DEF ThirdGp, Goto, Moves
  <2>2. loc' \in [Threads -> Locals] /\ \A e \in Threads \ {t} : loc'[e] = loc[e]
    <3>1. [loc[t] EXCEPT !.due = <<>>] \in Locals /\ loc' = [loc EXCEPT ![t] = [loc[t] EXCEPT !.due = <<>>]]
      BY <1>1, <1>2, <1>3, <2>1
    <3> QED BY <1>1, <3>1
  <2>3. loc'[t].idx = loc[t].idx /\ loc'[t].scan = loc[t].scan /\ pc'[t] = "sync_unlock"
    BY <1>1, <2>1 DEF Locals, Moves
  <2>4. SrcuCall(t)' /\ SrcuWait(t)'
    BY <2>3 DEF SrcuCall, SrcuWait, Flipped
  <2>5. loc'[t].idx \in 0 .. 1 /\ loc'[t].scan \in Threads /\ loc'[t].scan = 0 /\ mutex[NoThread] = t /\ preexisting[t] = {}
    BY <1>1, <2>1, <2>3 DEF SrcuThread, Holding
  <2>6. Types' /\ SrcuInv'
    BY <1>1, <2>1, <2>2, <2>4, <2>5, SrcuSyncing DEF Synchronizing, Holding, Flipped
  <2>7. GpStep
    BY <1>1, <2>1, GpQuiet DEF Reading, Synchronizing, Holding
  <2>8. Outlasted'
    BY <1>1, <2>1, <2>5, OutlastedStays
  <2> QED BY <2>6, <2>7, <2>8 DEF SrcuKept
<1> QED BY <1>4, <1>5, <1>6

\* The sum goes past thread e; a sum of 0 shows that nobody is left with the index from before.
LEMMA srcu_readers_active_idxKeeps ==
  ASSUME SrcuAssumed, NEW t \in Threads, srcu_readers_active_idx(t)
  PROVE  SrcuKept
<1> DEFINE e == loc[t].scan
           sum == loc[t].snap + reader[e][loc[t].old]
           last == e = NR_THREADS - 1
           n == IF last THEN 0 ELSE e + 1
           s == IF last THEN 0 ELSE sum
           d == IF last /\ sum = 0 THEN Due ELSE loc[t].due
           x == IF last /\ sum = 0 THEN "sync_drop" ELSE "sync_wait"
<1>1. /\ Types /\ GpInv /\ Outlasted /\ DOMAIN pc = Threads /\ SrcuThread(t) /\ SrcuWait(t) /\ ctr \in Int
      /\ loc[t] \in Locals /\ loc \in [Threads -> Locals] /\ mutex \in [0 .. NR_THREADS -> 0 .. NR_THREADS]
  BY SrcuFacts
<1>2. /\ UNCHANGED <<impl, ctr, mutex, shared, reader, buffer, preexisting>> /\ pc[t] = "sync_wait" /\ Moves(t, x)
      /\ loc' = [loc EXCEPT ![t].scan = n, ![t].snap = s, ![t].due = d]
  BY <1>1 DEF srcu_readers_active_idx, Moves
<1>3. e \in Threads /\ e \in Nat /\ e < NR_THREADS /\ n \in Threads /\ NR_THREADS \in Nat /\ loc[t].snap \in Int /\ loc[t].snap >= 0
  <2>1. e \in Threads
    BY <1>1 DEF SrcuThread
  <2>2. n \in Threads
    BY <2>1, Setting
  <2> QED BY <1>1, <1>2, <2>1, <2>2, Setting DEF SrcuWait, Locals
<1>4. loc[t].old \in 0 .. 1 /\ loc[t].old = 1 - (ctr % 2)
  BY <1>1, <1>2, Parity DEF SrcuWait, Flipped
<1>5. reader[e][loc[t].old] \in Int /\ reader[e][loc[t].old] >= 0
  <2>1. reader[e] \in Pairs /\ reader[e][0] >= 0 /\ reader[e][1] >= 0
    BY <1>3, SrcuFacts DEF SrcuThread
  <2> QED BY <1>4, <2>1 DEF Pairs
<1>6. sum \in Int /\ sum >= loc[t].snap /\ sum >= reader[e][loc[t].old] /\ s \in Int
  BY <1>3, <1>5
<1>7. ASSUME NEW v \in Indexed, loc[v].idx = loc[t].old PROVE Owed(v) = 0 /\ v \in Nat /\ v < NR_THREADS /\ (v <= e => sum >= 1)
  <2>1. v \in Threads /\ v \in Nat /\ v < NR_THREADS /\ Owed(v) = 0 /\ (v < e => loc[t].snap >= 1)
    BY <1>1, <1>2, <1>7, Setting DEF SrcuWait, Indexed
  <2>2. v = e => reader[e][loc[t].old] = 1
    <3>1. Own(v) = reader[v] /\ Own(v) = SrcuShown(v) /\ pc[v] \in {"reading", "unlock_store"}
      BY <1>7, <2>1, SrcuFacts, OwnIs DEF SrcuThread, Indexed
    <3> QED BY <1>4, <1>7, <3>1 DEF SrcuShown
  <2> QED BY <1>3, <1>6, <2>1, <2>2
<1>8. d \in Dues
  BY <1>1, DueIs DEF Locals
<1>9. loc' \in [Threads -> Locals] /\ \A u \in Threads \ {t} : loc'[u] = loc[u]
  <2> HIDE DEF n, s, d
  <2>1. n \in 0 .. NR_THREADS
    BY <1>3, Setting
  <2>2. ASSUME NEW r \in Locals PROVE [r EXCEPT !.scan = n, !.snap = s, !.due = d] \in Locals
    BY <1>6, <1>8, <2>1 DEF Locals
  <2>3. /\ [loc[t] EXCEPT !.scan = n, !.snap = s, !.due = d] \in Locals
        /\ loc' = [loc EXCEPT ![t] = [loc[t] EXCEPT !.scan = n, !.snap = s, !.due = d]]
    BY <1>1, <1>2, <2>2
  <2> QED BY <1>1, <2>3
<1>10. loc'[t].scan = n /\ loc'[t].snap = s /\ loc'[t].old = loc[t].old /\ loc'[t].idx = loc[t].idx
  <2> HIDE DEF n, s, d
  <2> QED BY <1>1, <1>2 DEF Locals
<1>11. x \in {"sync_wait", "sync_drop"} /\ pc'[t] = x
  BY <1>1, <1>2 DEF Moves
<1>12. x = "sync_drop" => last /\ sum = 0
  OBVIOUS
<1>13. x = "sync_drop" => n = 0 /\ (\A v \in Indexed : loc[v].idx = ctr % 2) /\ preexisting[t] = {}
  <2> SUFFICES ASSUME last, sum = 0 PROVE n = 0 /\ (\A v \in Indexed : loc[v].idx = ctr % 2) /\ preexisting[t] = {}
    BY <1>12
  <2>1. ASSUME NEW v \in Indexed PROVE loc[v].idx # loc[t].old
    BY <1>3, <1>6, <1>7, <2>1
  <2>2. ASSUME NEW v \in Indexed PROVE loc[v].idx = ctr % 2
    <3>1. loc[v].idx \in 0 .. 1 /\ loc[v].idx # 1 - (ctr % 2)
      BY <1>4, <2>1, SrcuFacts DEF SrcuThread, Indexed
    <3>2. ctr % 2 \in 0 .. 1
      BY <1>1, Parity
    <3> QED BY <3>1, <3>2
  <2>3. ASSUME NEW v \in preexisting[t] PROVE FALSE
    <3>1. v \in Indexed
      BY <1>1, SrcuFacts DEF GpInv
    <3> QED BY <1>1, <1>2, <2>1, <3>1 DEF SrcuWait, Flipped
  <2> QED BY <2>2, <2>3
<1>14. ASSUME x = "sync_wait", NEW v \in Indexed, loc[v].idx = loc[t].old
       PROVE  Owed(v) = 0 /\ (v < n => s >= 1)
  <2>1. CASE last
    BY <1>7, <1>14, <2>1
  <2>2. CASE ~ last
    BY <1>3, <1>7, <1>14, <2>2
  <2> QED BY <2>1, <2>2
<1>15. s >= 0
  BY <1>3, <1>6
<1> HIDE DEF n, s, d, x, sum, last
<1>16. SrcuWait(t)'
  <2>1. Indexed' = Indexed /\ t \notin Indexed /\ \A v \in Threads : Owed(v)' = Owed(v)
    BY <1>1, <1>2, <1>11, SrcuStays
  <2>2. \A v \in Indexed : v \in Threads /\ loc'[v].idx = loc[v].idx
    BY <1>9, <2>1 DEF Indexed
  <2>3. \A v \in preexisting[t] : loc'[v].idx = loc[v].idx
    BY <1>1, <1>9, <2>1, SrcuFacts DEF GpInv
  <2>4. loc'[t].old = 1 - (ctr' % 2) /\ \A v \in preexisting'[t] : loc'[v].idx = loc'[t].old
    BY <1>1, <1>2, <1>4, <1>10, <2>3 DEF SrcuWait, Flipped
  <2> QED BY <1>10, <1>11, <1>14, <1>15, <2>1, <2>2, <2>4 DEF SrcuWait, Flipped
<1>17. SrcuCall(t)'
  BY <1>11 DEF SrcuCall
<1>18. loc'[t].idx \in 0 .. 1 /\ loc'[t].scan \in Threads /\ mutex[NoThread] = t /\ (x = "sync_wait" \/ loc'[t].scan = 0)
  BY <1>1, <1>2, <1>3, <1>10, <1>11, <1>13 DEF SrcuThread, Holding
<1>19. Types' /\ SrcuInv'
  <2>1. x \in Flipped \/ \A v \in Indexed : loc[v].idx = ctr % 2
    BY <1>11, <1>13 DEF Flipped
  <2>2. x \in Synchronizing /\ pc[t] \in Synchronizing
    BY <1>2, <1>11 DEF Synchronizing, Holding
  <2>3. x = "sync_drop" => preexisting'[t] = {}
    BY <1>2, <1>13
  <2> QED BY <1>1, <1>2, <1>9, <1>16, <1>17, <1>18, <2>1, <2>2, <2>3, SrcuSyncing
<1>20. GpStep
  BY <1>1, <1>2, <1>11, GpQuiet DEF Reading, Synchronizing, Holding
<1>21. Outlasted'
  BY <1>1, <1>2, <1>11, OutlastedStays
<1> QED BY <1>19, <1>20, <1>21 DEF SrcuKept

\* A step of a reader
LEMMA SrcuReading ==
  ASSUME SrcuAssumed, NEW t \in Threads, NEW x \in SrcuLocs, Moves(t, x), Types', Frame(t),
         x \notin Synchronizing, pc[t] \notin Synchronizing,
         UNCHANGED <<impl, ctr, mutex>>,
         \A e \in Threads : preexisting'[e] \subseteq preexisting[e],
         \A e \in Threads : t \in preexisting'[e] => loc'[t].idx = loc[t].idx,
         SrcuTurn(t), Owed(t)' \in Nat,
         loc'[t].idx \in 0 .. 1, loc'[t].scan = loc[t].scan,
         \A y \in Visible(t)' : y[0] >= 0 /\ y[1] >= 0, Own(t)' = SrcuShown(t)'
  PROVE  SrcuInv' /\ Outlasted'
<1>1. Outlasted /\ DOMAIN pc = Threads /\ SrcuThread(t)
  BY SrcuFacts
<1>2. pc'[t] = x
  BY <1>1 DEF Moves
<1>3. SrcuThread(t)' /\ SrcuCall(t)' /\ SrcuWait(t)'
  <2>1. SrcuThread(t)'
    BY <1>1, <1>2 DEF SrcuThread, Synchronizing, Holding, Threads
  <2>2. SrcuCall(t)' /\ SrcuWait(t)'
    BY <1>2 DEF SrcuCall, SrcuWait, Synchronizing, Holding, Flipped
  <2> QED BY <2>1, <2>2
<1>4. pc[t] \notin Flipped
  BY DEF Synchronizing, Holding, Flipped
<1>5. SrcuInv'
  BY <1>3, <1>4, SrcuOthers
<1>6. Outlasted'
  BY <1>1, OutlastedStays DEF Synchronizing, Holding
<1> QED BY <1>5, <1>6

\* The index is loaded.
LEMMA SrcuReadLockLoadKeeps ==
  ASSUME SrcuAssumed, NEW t \in Threads, SrcuReadLockLoad(t)
  PROVE  SrcuKept
<1> DEFINE i == ctr % 2
<1>1. /\ UNCHANGED <<impl, ctr, mutex, shared, reader, buffer, preexisting>> /\ pc[t] = "idle" /\ Moves(t, "lock_store")
      /\ loc' = [loc EXCEPT ![t].idx = i]
  BY DEF SrcuReadLockLoad, Goto, Moves
<1>2. /\ Types /\ GpInv /\ Outlasted /\ DOMAIN pc = Threads /\ SrcuThread(t) /\ ctr \in Int
      /\ loc[t] \in Locals /\ loc \in [Threads -> Locals] /\ Len(buffer[t]) \in Nat /\ \A e \in Threads : t \notin preexisting[e]
  BY <1>1, SrcuFacts
<1>3. i \in 0 .. 1 /\ i = ctr % 2
  BY <1>2, Parity
<1> HIDE DEF i
<1>4. /\ loc' \in [Threads -> Locals] /\ (\A e \in Threads \ {t} : loc'[e] = loc[e])
      /\ loc'[t].idx = i /\ loc'[t].scan = loc[t].scan
  <2>1. ASSUME NEW r \in Locals, NEW j \in Int PROVE [r EXCEPT !.idx = j] \in Locals
    BY DEF Locals
  <2>2. [loc[t] EXCEPT !.idx = i] \in Locals /\ loc' = [loc EXCEPT ![t] = [loc[t] EXCEPT !.idx = i]]
    <3>1. i \in Int
      BY <1>3
    <3> QED BY <1>1, <1>2, <2>1, <3>1
  <2>3. loc' \in [Threads -> Locals] /\ \A e \in Threads \ {t} : loc'[e] = loc[e]
    BY <1>2, <2>2
  <2>4. loc'[t].idx = i /\ loc'[t].scan = loc[t].scan
    BY <1>1, <1>2 DEF Locals
  <2> QED BY <2>3, <2>4
<1>5. Types' /\ Frame(t)
  BY <1>1, <1>2, <1>4 DEF Types, Values, Frame, Unread, Moves
<1>6. pc'[t] = "lock_store" /\ Visible(t)' = Visible(t) /\ Own(t)' = Own(t)
  BY <1>1, <1>2 DEF Moves, Visible, Own, Drained, Last
<1>7. SrcuShown(t)' = SrcuShown(t)
  BY <1>1, <1>6 DEF SrcuShown
<1>8. SrcuTurn(t) /\ Owed(t)' \in Nat
  <2>1. t \notin Indexed
    BY <1>1 DEF Indexed
  <2>2. Owed(t)' = Len(buffer[t]) + 1
    BY <1>1, <1>6 DEF Owed
  <2> QED BY <1>2, <1>3, <1>4, <2>1, <2>2 DEF SrcuTurn
<1>9. SrcuInv' /\ Outlasted'
  BY <1>1, <1>2, <1>3, <1>4, <1>5, <1>6, <1>7, <1>8, SrcuReading DEF SrcuThread, SrcuLocs, Synchronizing, Holding
<1>10. GpStep
  BY <1>1, <1>2, GpQuiet DEF Reading, Synchronizing, Holding
<1> QED BY <1>5, <1>9, <1>10 DEF SrcuKept

\* The reader counts for its index; from then on it is inside.
LEMMA SrcuReadLockStoreKeeps ==
  ASSUME SrcuAssumed, NEW t \in Threads, SrcuReadLockStore(t)
  PROVE  SrcuKept
<1> DEFINE y == [Own(t) EXCEPT ![loc[t].idx] = @ + 1]
<1>1. /\ UNCHANGED <<impl, ctr, mutex, shared, reader, loc, preexisting>> /\ pc[t] = "lock_store" /\ Moves(t, "reading")
      /\ Store(t, y)
  BY DEF SrcuReadLockStore, Goto, Moves
<1>2. /\ Types /\ GpInv /\ Outlasted /\ DOMAIN pc = Threads /\ SrcuThread(t) /\ Values = Pairs /\ Own(t) \in Pairs
      /\ Len(buffer[t]) \in Nat /\ \A e \in Threads : t \notin preexisting[e]
  BY <1>1, SrcuFacts
<1>3. loc[t].idx \in 0 .. 1 /\ Own(t) = SrcuShown(t) /\ \A i \in 0 .. 1 : SrcuShown(t)[i] = 0
  BY <1>1, <1>2 DEF SrcuThread, SrcuShown
<1>4. y \in Pairs /\ \A i \in 0 .. 1 : y[i] = IF loc[t].idx = i THEN 1 ELSE 0
  <2>1. 1 \in Int
    OBVIOUS
  <2>2. y \in Pairs /\ y[loc[t].idx] = Own(t)[loc[t].idx] + 1 /\ \A j \in 0 .. 1 : j # loc[t].idx => y[j] = Own(t)[j]
    BY <1>2, <1>3, <2>1, PairPlus
  <2> QED BY <1>3, <2>2
<1> HIDE DEF y
<1>5. /\ buffer' \in [Threads -> Seq(Values)] /\ Own(t)' = y /\ Visible(t)' = Visible(t) \union {y}
      /\ Len(buffer'[t]) = Len(buffer[t]) + 1 /\ \A e \in Threads \ {t} : Unread(e)
  BY <1>1, <1>2, <1>4, StoreIs
<1>6. Types' /\ Frame(t)
  BY <1>1, <1>2, <1>5 DEF Types, Values, Frame, Moves
<1>7. pc'[t] = "reading"
  BY <1>1, <1>2 DEF Moves
<1>8. y = SrcuShown(t)'
  <2>1. SrcuShown(t)' = [i \in 0 .. 1 |-> IF loc[t].idx = i THEN 1 ELSE 0]
    BY <1>1, <1>7 DEF SrcuShown
  <2>2. y = [i \in 0 .. 1 |-> y[i]]
    BY <1>4 DEF Pairs
  <2> QED BY <1>4, <2>1, <2>2
<1>9. SrcuTurn(t) /\ Owed(t)' \in Nat
  <2>1. t \in Indexed
    BY <1>1 DEF Indexed
  <2>2. Owed(t)' = (Len(buffer[t]) + 1) + 0 /\ Owed(t) = Len(buffer[t]) + 1
    BY <1>1, <1>5, <1>7 DEF Owed
  <2> QED BY <1>1, <1>2, <2>1, <2>2 DEF SrcuTurn
<1>10. \A z \in Visible(t)' : z[0] >= 0 /\ z[1] >= 0
  <2>1. y[0] >= 0 /\ y[1] >= 0
    BY <1>4
  <2> QED BY <1>2, <1>5, <2>1 DEF SrcuThread
<1>11. SrcuInv' /\ Outlasted'
  BY <1>1, <1>2, <1>3, <1>5, <1>6, <1>8, <1>9, <1>10, SrcuReading DEF SrcuLocs, Synchronizing, Holding
<1>12. GpStep
  BY <1>1, <1>2, GpEnter DEF Reading, Synchronizing, Holding
<1> QED BY <1>6, <1>11, <1>12 DEF SrcuKept

\* __srcu_read_unlock() is called.
LEMMA SrcuReadUnlockKeeps ==
  ASSUME SrcuAssumed, NEW t \in Threads, SrcuReadUnlock(t)
  PROVE  SrcuKept
<1>1. /\ UNCHANGED <<impl, ctr, mutex, shared, reader, buffer, loc>> /\ pc[t] = "reading" /\ Moves(t, "unlock_store") /\ Outlast(t)
  BY DEF SrcuReadUnlock, Goto, Moves
<1>2. Types /\ GpInv /\ Outlasted /\ DOMAIN pc = Threads /\ SrcuThread(t) /\ Owed(t) \in Nat
  BY SrcuFacts
<1>3. Types' /\ Frame(t)
  BY <1>1, <1>2 DEF Types, Values, Frame, Unread, Moves
<1>4. pc'[t] = "unlock_store" /\ Visible(t)' = Visible(t) /\ Own(t)' = Own(t)
  BY <1>1, <1>2 DEF Moves, Visible, Own, Drained, Last
<1>5. SrcuShown(t)' = SrcuShown(t) /\ Owed(t)' = Owed(t) /\ t \in Indexed
  BY <1>1, <1>4 DEF SrcuShown, Owed, Indexed
<1>6. SrcuTurn(t) /\ Owed(t)' \in Nat
  BY <1>1, <1>2, <1>5 DEF SrcuTurn
<1>7. \A e \in Threads : preexisting'[e] \subseteq preexisting[e]
  BY <1>1 DEF Outlast
<1>8. SrcuInv' /\ Outlasted'
  BY <1>1, <1>2, <1>3, <1>4, <1>5, <1>6, <1>7, SrcuReading DEF SrcuThread, SrcuLocs, Synchronizing, Holding
<1>9. GpStep
  BY <1>1, <1>2, GpLeave DEF Reading, Synchronizing, Holding
<1> QED BY <1>3, <1>8, <1>9 DEF SrcuKept

\* The reader takes its count back.
LEMMA SrcuReadUnlockStoreKeeps ==
  ASSUME SrcuAssumed, NEW t \in Threads, SrcuReadUnlockStore(t)
  PROVE  SrcuKept
<1> DEFINE y == [Own(t) EXCEPT ![loc[t].idx] = @ - 1]
<1>1. /\ UNCHANGED <<impl, ctr, mutex, shared, reader, preexisting>> /\ pc[t] = "unlock_store" /\ Moves(t, "idle")
      /\ Store(t, y) /\ loc' = [loc EXCEPT ![t].idx = 0]
  BY DEF SrcuReadUnlockStore, Goto, Moves
<1>2. /\ Types /\ GpInv /\ Outlasted /\ DOMAIN pc = Threads /\ SrcuThread(t) /\ Values = Pairs /\ Own(t) \in Pairs
      /\ loc[t] \in Locals /\ loc \in [Threads -> Locals] /\ Len(buffer[t]) \in Nat /\ \A e \in Threads : t \notin preexisting[e]
  BY <1>1, SrcuFacts
<1>3. /\ loc[t].idx \in 0 .. 1 /\ Own(t) = SrcuShown(t)
      /\ \A i \in 0 .. 1 : SrcuShown(t)[i] = IF loc[t].idx = i THEN 1 ELSE 0
  BY <1>1, <1>2 DEF SrcuThread, SrcuShown
<1>4. y \in Pairs /\ \A i \in 0 .. 1 : y[i] = 0
  <2>1. -1 \in Int
    OBVIOUS
  <2>2. LET q == [Own(t) EXCEPT ![loc[t].idx] = @ + (-1)]
        IN  q \in Pairs /\ q[loc[t].idx] = Own(t)[loc[t].idx] + (-1) /\ \A j \in 0 .. 1 : j # loc[t].idx => q[j] = Own(t)[j]
    BY <1>2, <1>3, <2>1, PairPlus
  <2>3. Own(t)[loc[t].idx] \in Int
    BY <1>2, <1>3 DEF Pairs
  <2>4. Own(t)[loc[t].idx] + (-1) = Own(t)[loc[t].idx] - 1
    BY <2>3
  <2>5. y = [Own(t) EXCEPT ![loc[t].idx] = @ + (-1)]
    BY <2>4
  <2> QED BY <1>3, <2>2, <2>5
<1> HIDE DEF y
<1>5. /\ buffer' \in [Threads -> Seq(Values)] /\ Own(t)' = y /\ Visible(t)' = Visible(t) \union {y}
      /\ Len(buffer'[t]) = Len(buffer[t]) + 1 /\ \A e \in Threads \ {t} : Unread(e)
  BY <1>1, <1>2, <1>4, StoreIs
<1>6. /\ loc' \in [Threads -> Locals] /\ (\A e \in Threads \ {t} : loc'[e] = loc[e])
      /\ loc'[t].idx = 0 /\ loc'[t].scan = loc[t].scan
  <2>1. ASSUME NEW r \in Locals, NEW i \in Int PROVE [r EXCEPT !.idx = i] \in Locals
    BY DEF Locals
  <2>2. [loc[t] EXCEPT !.idx = 0] \in Locals
    <3>1. 0 \in Int
      OBVIOUS
    <3> QED BY <1>2, <2>1, <3>1
  <2>3. loc' \in [Threads -> Locals] /\ \A e \in Threads \ {t} : loc'[e] = loc[e]
    BY <1>1, <1>2, <2>2
  <2>4. loc'[t].idx = 0 /\ loc'[t].scan = loc[t].scan
    BY <1>1, <1>2 DEF Locals
  <2> QED BY <2>3, <2>4
<1>7. Types' /\ Frame(t)
  BY <1>1, <1>2, <1>5, <1>6 DEF Types, Values, Frame, Moves
<1>8. pc'[t] = "idle"
  BY <1>1, <1>2 DEF Moves
<1>9. y = SrcuShown(t)'
  <2>1. SrcuShown(t)' = [i \in 0 .. 1 |-> 0]
    BY <1>8 DEF SrcuShown
  <2>2. y = [i \in 0 .. 1 |-> y[i]]
    BY <1>4 DEF Pairs
  <2> QED BY <1>4, <2>1, <2>2
<1>10. SrcuTurn(t) /\ Owed(t)' \in Nat
  <2>1. t \notin Indexed'
    BY <1>8 DEF Indexed
  <2>2. Owed(t)' = (Len(buffer[t]) + 1) + 0
    BY <1>5, <1>8 DEF Owed
  <2> QED BY <1>2, <2>1, <2>2 DEF SrcuTurn
<1>11. \A z \in Visible(t)' : z[0] >= 0 /\ z[1] >= 0
  <2>1. y[0] >= 0 /\ y[1] >= 0
    BY <1>4
  <2> QED BY <1>2, <1>5, <2>1 DEF SrcuThread
<1>12. SrcuInv' /\ Outlasted'
  BY <1>1, <1>2, <1>5, <1>6, <1>7, <1>9, <1>10, <1>11, SrcuReading DEF SrcuLocs, Synchronizing, Holding
<1>13. GpStep
  BY <1>1, <1>2, GpQuiet DEF Reading, Synchronizing, Holding
<1> QED BY <1>7, <1>12, <1>13 DEF SrcuKept

\* The flip: until now all that have loaded the index have loaded the one in use, which is the old one from now on.
LEMMA FlipIndexKeeps ==
  ASSUME SrcuAssumed, NEW t \in Threads, FlipIndex(t)
  PROVE  SrcuKept
<1> DEFINE i == ctr % 2
<1>1. /\ UNCHANGED <<impl, mutex, shared, reader, buffer, preexisting>> /\ pc[t] = "sync_advance" /\ Moves(t, "sync_again")
      /\ ctr' = ctr + 1 /\ loc' = [loc EXCEPT ![t].old = i, ![t].due = Due]
  BY DEF FlipIndex, Goto, Moves
<1>2. /\ Types /\ GpInv /\ Outlasted /\ DOMAIN pc = Threads /\ SrcuThread(t) /\ OneIndex /\ ctr \in Int
      /\ loc[t] \in Locals /\ loc \in [Threads -> Locals] /\ pc \in [Threads -> SrcuLocs]
  BY SrcuFacts
<1>3. i \in 0 .. 1 /\ i = ctr % 2 /\ i \in Int /\ ctr' % 2 = 1 - i /\ ctr' \in Int
  BY <1>1, <1>2, Parity
<1> HIDE DEF i
<1>4. /\ loc' \in [Threads -> Locals] /\ (\A e \in Threads \ {t} : loc'[e] = loc[e])
      /\ loc'[t].old = i /\ loc'[t].due = Due /\ loc'[t].idx = loc[t].idx /\ loc'[t].scan = loc[t].scan
  <2> DEFINE d == Due
  <2>1. d \in Dues
    BY DueIs
  <2> HIDE DEF d
  <2>2. loc' = [loc EXCEPT ![t].old = i, ![t].due = d]
    BY <1>1 DEF d
  <2>3. ASSUME NEW r \in Locals PROVE [r EXCEPT !.old = i, !.due = d] \in Locals
    BY <1>3, <2>1 DEF Locals
  <2>4. [loc[t] EXCEPT !.old = i, !.due = d] \in Locals /\ loc' = [loc EXCEPT ![t] = [loc[t] EXCEPT !.old = i, !.due = d]]
    BY <1>2, <2>2, <2>3
  <2>5. loc' \in [Threads -> Locals] /\ \A e \in Threads \ {t} : loc'[e] = loc[e]
    BY <1>2, <2>4
  <2>6. loc'[t].old = i /\ loc'[t].due = d /\ loc'[t].idx = loc[t].idx /\ loc'[t].scan = loc[t].scan
    BY <1>2, <2>2 DEF Locals
  <2> QED BY <2>5, <2>6 DEF d
<1>5. Types'
  BY <1>1, <1>2, <1>3, <1>4 DEF Types, Values
<1>6. /\ pc'[t] = "sync_again" /\ pc' \in [Threads -> SrcuLocs] /\ mutex[NoThread] = t
      /\ \A e \in Threads \ {t} : pc'[e] = pc[e] /\ pc[e] \notin Holding
  <2>1. pc'[t] = "sync_again" /\ pc' \in [Threads -> SrcuLocs] /\ \A e \in Threads \ {t} : pc'[e] = pc[e]
    BY <1>1, <1>2 DEF Moves, SrcuLocs, Synchronizing, Holding
  <2>2. mutex[NoThread] = t
    BY <1>1, <1>2 DEF SrcuThread, Holding
  <2>3. \A e \in Threads \ {t} : pc[e] \notin Holding
    BY <2>2, SrcuFacts DEF SrcuThread
  <2> QED BY <2>1, <2>2, <2>3
<1>7. \A v \in Indexed : loc[v].idx = i
  <2>1. \A u \in Threads : pc[u] \notin Flipped
    BY <1>1, <1>6 DEF Flipped, Holding
  <2> QED BY <1>2, <1>3, <2>1 DEF OneIndex
<1>8. Indexed' = Indexed /\ t \notin Indexed /\ (\A v \in Threads : Owed(v)' = Owed(v)) /\ \A v \in Indexed : loc'[v].idx = i
  <2>1. Indexed' = Indexed /\ t \notin Indexed /\ \A v \in Threads : Owed(v)' = Owed(v)
    BY <1>1, <1>2, SrcuStays
  <2>2. \A v \in Indexed : v \in Threads
    BY DEF Indexed
  <2> QED BY <1>4, <1>7, <2>1, <2>2
<1>9. \A u \in Threads : \A v \in preexisting[u] : v \in Indexed
  BY <1>2, SrcuFacts DEF GpInv
<1>10. ASSUME NEW e \in Threads PROVE SrcuThread(e)'
  <2>1. /\ SrcuThread(e) /\ Visible(e)' = Visible(e) /\ Own(e)' = Own(e)
        /\ loc'[e].idx = loc[e].idx /\ loc'[e].scan = loc[e].scan
        /\ pc'[e] = pc[e] \/ (e = t /\ pc'[e] = "sync_again" /\ pc[e] = "sync_advance")
    BY <1>1, <1>4, <1>6, SrcuFacts DEF Visible, Own, Drained, Last
  <2>2. SrcuShown(e)' = SrcuShown(e)
    BY <2>1 DEF SrcuShown
  <2> QED BY <1>1, <1>6, <2>1, <2>2 DEF SrcuThread, Holding, Threads, NoThread
<1>11. ASSUME NEW e \in Threads PROVE SrcuCall(e)'
  <2> SUFFICES ASSUME pc'[e] = "sync_lock" PROVE SrcuCall(e)'
    BY DEF SrcuCall
  <2>1. e # t /\ pc[e] = "sync_lock" /\ loc'[e] = loc[e] /\ SrcuCall(e) /\ loc[e].old \in Int
    BY <1>4, <1>6, SrcuFacts DEF Locals
  <2> DEFINE o == loc[e].old
  <2>2. /\ o <= ctr
        /\ o + 1 <= ctr => \A v \in preexisting[e] : loc[v].idx = o % 2
        /\ o + 2 <= ctr => preexisting[e] = {}
    BY <2>1 DEF SrcuCall
  <2>3. \A v \in preexisting[e] : loc[v].idx = i /\ loc'[v].idx = i
    BY <1>7, <1>8, <1>9
  <2>4. o \in Int /\ loc'[e].old = o
    BY <2>1
  <2> HIDE DEF o
  <2>5. o <= ctr'
    BY <1>1, <1>2, <2>2, <2>4
  <2>6. ASSUME o + 1 <= ctr', NEW v \in preexisting[e] PROVE loc'[v].idx = o % 2
    <3>1. CASE o = ctr
      BY <1>3, <2>3, <3>1
    <3>2. CASE o + 1 <= ctr
      BY <2>2, <2>3, <3>2
    <3> QED BY <1>1, <1>2, <2>4, <2>6, <3>1, <3>2
  <2>7. ASSUME o + 2 <= ctr' PROVE preexisting[e] = {}
    <3>1. o + 1 <= ctr
      BY <1>1, <1>2, <2>4, <2>7
    <3>2. CASE o + 2 <= ctr
      BY <2>2, <3>2
    <3>3. CASE ctr = o + 1
      <4>1. i = 1 - (o % 2) /\ o % 2 \in 0 .. 1
        BY <1>3, <2>4, <3>3, Parity
      <4>2. ASSUME NEW v \in preexisting[e] PROVE FALSE
        BY <2>2, <2>3, <3>1, <4>1
      <4> QED BY <4>2
    <3> QED BY <1>2, <2>4, <3>1, <3>2, <3>3
  <2> QED BY <1>1, <2>4, <2>5, <2>6, <2>7 DEF SrcuCall
<1>12. ASSUME NEW e \in Threads PROVE SrcuWait(e)'
  <2>1. CASE e # t
    BY <1>6, <2>1 DEF SrcuWait, Flipped, Holding
  <2>2. CASE e = t
    <3>1. loc'[t].old = 1 - (ctr' % 2)
      BY <1>3, <1>4
    <3>2. \A v \in preexisting'[t] : loc'[v].idx = loc'[t].old
      BY <1>1, <1>4, <1>8, <1>9
    <3>3. loc'[t].due \in [Threads -> Int] /\ \A v \in Indexed' : loc'[t].due[v] >= Owed(v)'
      <4>1. \A v \in Indexed : v \in Threads
        BY DEF Indexed
      <4> QED BY <1>4, <1>8, <4>1, DueIs
    <3>4. pc'[t] # "sync_wait"
      BY <1>6
    <3> QED BY <2>2, <3>1, <3>2, <3>3, <3>4 DEF SrcuWait, Threads
  <2> QED BY <2>1, <2>2
<1>13. OneIndex'
  BY <1>6 DEF OneIndex, Flipped, Threads
<1>14. SrcuInv'
  BY <1>6, <1>10, <1>11, <1>12, <1>13 DEF SrcuInv, Threads
<1>15. GpStep
  BY <1>1, <1>2, GpQuiet DEF Reading, Synchronizing, Holding
<1>16. Outlasted'
  BY <1>1, <1>2, OutlastedStays
<1> QED BY <1>5, <1>14, <1>15, <1>16 DEF SrcuKept

\* A store becomes visible: what is owed goes down, and so does what each grace period has to see.
LEMMA SrcuDrainKeeps ==
  ASSUME SrcuAssumed, NEW t \in Threads, Drain(t)
  PROVE  SrcuKept
<1>1. /\ Drains(t) /\ UNCHANGED <<impl, ctr, mutex, shared, pc, preexisting>>
      /\ loc' = [u \in Threads |->
                   IF loc[u].due # <<>> /\ loc[u].due[t] > 0
                     THEN [loc[u] EXCEPT !.due[t] = @ - 1] ELSE loc[u]]
  BY DEF Drain, Drains
<1>2. /\ Types /\ GpInv /\ Outlasted /\ DOMAIN pc = Threads /\ OneIndex /\ ctr \in Int
      /\ loc \in [Threads -> Locals] /\ pc \in [Threads -> SrcuLocs] /\ Values = Pairs
  BY SrcuFacts
<1>3. /\ buffer' \in [Threads -> Seq(Values)] /\ reader' \in [Threads -> Values]
      /\ Own(t)' = Own(t) /\ Visible(t)' \subseteq Visible(t)
      /\ Len(buffer[t]) \in Nat \ {0} /\ Len(buffer'[t]) = Len(buffer[t]) - 1
      /\ \A e \in Threads \ {t} : Unread(e)
  BY <1>1, <1>2, DrainIs
<1>4. <<>> \notin [Threads -> Int]
  <2>1. DOMAIN <<>> = {} /\ 0 \in Threads
    BY Setting
  <2>2. \A f \in [Threads -> Int] : DOMAIN f = Threads
    OBVIOUS
  <2> QED BY <2>1, <2>2
<1>5. ASSUME NEW u \in Threads
      PROVE  /\ loc'[u] \in Locals /\ loc'[u].idx = loc[u].idx /\ loc'[u].old = loc[u].old /\ loc'[u].scan = loc[u].scan
             /\ loc'[u].snap = loc[u].snap
             /\ loc[u].due \in [Threads -> Int] =>
                  /\ loc'[u].due \in [Threads -> Int]
                  /\ \A v \in Threads \ {t} : loc'[u].due[v] = loc[u].due[v]
                  /\ loc[u].due[t] > 0 => loc'[u].due[t] = loc[u].due[t] - 1
  <2>1. loc[u] \in Locals
    BY <1>2
  <2>2. CASE loc[u].due # <<>> /\ loc[u].due[t] > 0
    <3> DEFINE d == loc[u].due
               a == d[t] - 1
    <3>1. d \in [Threads -> Int]
      BY <2>1, <2>2 DEF Locals, Dues
    <3>2. a \in Int
      BY <3>1
    <3>3. loc'[u] = [loc[u] EXCEPT !.due[t] = a]
      BY <1>1, <2>2
    <3> HIDE DEF a
    <3>4. [d EXCEPT ![t] = a] \in [Threads -> Int]
      BY <3>1, <3>2
    <3>5. loc'[u] = [loc[u] EXCEPT !.due = [d EXCEPT ![t] = a]]
      BY <3>3
    <3>6. loc'[u] \in Locals
      BY <2>1, <3>4, <3>5 DEF Locals, Dues
    <3>7. /\ loc'[u].idx = loc[u].idx /\ loc'[u].old = loc[u].old /\ loc'[u].scan = loc[u].scan /\ loc'[u].snap = loc[u].snap
          /\ loc'[u].due = [d EXCEPT ![t] = a]
      BY <2>1, <3>5 DEF Locals
    <3> QED BY <3>1, <3>4, <3>6, <3>7 DEF a
  <2>3. CASE ~ (loc[u].due # <<>> /\ loc[u].due[t] > 0)
    <3>1. loc'[u] = loc[u]
      BY <1>1, <2>3
    <3> QED BY <1>4, <2>1, <2>3, <3>1
  <2> QED BY <2>2, <2>3
<1>6. loc' \in [Threads -> Locals]
  <2>1. loc' = [u \in Threads |-> loc'[u]]
    BY <1>1
  <2> QED BY <1>5, <2>1
<1>7. Types'
  BY <1>1, <1>2, <1>3, <1>6 DEF Types, Values
<1>8. Indexed' = Indexed /\ \A v \in Indexed : v \in Threads
  BY <1>1 DEF Indexed
<1>9. ASSUME NEW v \in Threads
      PROVE  Owed(v) \in Nat /\ Owed(v)' = (IF v = t THEN Owed(v) - 1 ELSE Owed(v)) /\ (v = t => Owed(v) >= 1)
  <2>1. Owed(v) \in Nat
    BY SrcuFacts
  <2>2. CASE v # t
    BY <1>1, <1>3, <2>1, <2>2 DEF Owed, Unread
  <2>3. CASE v = t
    <3> DEFINE s == IF pc[t] = "lock_store" THEN 1 ELSE 0
    <3>1. Owed(t) = Len(buffer[t]) + s /\ Owed(t)' = Len(buffer'[t]) + s /\ s \in {0, 1}
      BY <1>1 DEF Owed
    <3> HIDE DEF s
    <3> QED BY <1>3, <2>1, <2>3, <3>1
  <2> QED BY <2>2, <2>3
<1>10. OneIndex'
  BY <1>1, <1>2, <1>5, <1>8 DEF OneIndex, Threads, Flipped
<1>11. ASSUME NEW e \in Threads PROVE SrcuThread(e)' /\ SrcuCall(e)' /\ SrcuWait(e)'
  <2>1. SrcuThread(e) /\ SrcuCall(e) /\ SrcuWait(e) /\ \A v \in preexisting[e] : v \in Threads
    BY <1>2, SrcuFacts DEF GpInv
  <2>2. Own(e)' = Own(e) /\ Visible(e)' \subseteq Visible(e)
    BY <1>3, UnreadIs
  <2>3. SrcuShown(e)' = SrcuShown(e)
    BY <1>1, <1>5 DEF SrcuShown
  <2>4. SrcuThread(e)'
    BY <1>1, <1>5, <2>1, <2>2, <2>3 DEF SrcuThread, Threads, NoThread
  <2>5. SrcuCall(e)'
    BY <1>1, <1>5, <2>1 DEF SrcuCall
  <2>6. ASSUME pc[e] = "sync_again"
        PROVE  /\ loc'[e].due \in [Threads -> Int]
               /\ \A v \in Indexed : loc'[v].idx = loc'[e].old => loc'[e].due[v] >= Owed(v)'
    <3>1. loc[e].due \in [Threads -> Int] /\ \A v \in Indexed : loc[v].idx = loc[e].old => loc[e].due[v] >= Owed(v)
      BY <2>1, <2>6 DEF SrcuWait
    <3>2. /\ loc'[e].due \in [Threads -> Int]
          /\ \A v \in Threads \ {t} : loc'[e].due[v] = loc[e].due[v]
          /\ loc[e].due[t] > 0 => loc'[e].due[t] = loc[e].due[t] - 1
      BY <1>5, <3>1
    <3>3. ASSUME NEW v \in Indexed, loc'[v].idx = loc'[e].old PROVE loc'[e].due[v] >= Owed(v)'
      <4>1. v \in Threads /\ loc[v].idx = loc[e].old /\ loc[e].due[v] >= Owed(v) /\ loc[e].due[v] \in Int
        BY <1>5, <1>8, <3>1, <3>3
      <4>2. CASE v = t
        <5>1. loc[e].due[t] > 0
          BY <1>9, <4>1, <4>2
        <5> QED BY <1>9, <3>2, <4>1, <4>2, <5>1
      <4>3. CASE v # t
        BY <1>9, <3>2, <4>1, <4>3
      <4> QED BY <4>2, <4>3
    <3> QED BY <3>2, <3>3
  <2>7. ASSUME pc[e] = "sync_wait"
        PROVE  /\ loc'[e].snap >= 0
               /\ \A v \in Indexed : loc'[v].idx = loc'[e].old => Owed(v)' = 0 /\ (v < loc'[e].scan => loc'[e].snap >= 1)
    <3>1. /\ loc[e].snap >= 0
          /\ \A v \in Indexed : loc[v].idx = loc[e].old => Owed(v) = 0 /\ (v < loc[e].scan => loc[e].snap >= 1)
      BY <2>1, <2>7 DEF SrcuWait
    <3>2. ASSUME NEW v \in Indexed, loc'[v].idx = loc'[e].old
          PROVE  Owed(v)' = 0 /\ (v < loc'[e].scan => loc'[e].snap >= 1)
      <4>1. v \in Threads /\ loc[v].idx = loc[e].old /\ Owed(v) = 0 /\ (v < loc[e].scan => loc[e].snap >= 1)
        BY <1>5, <1>8, <3>1, <3>2
      <4>2. v # t
        BY <1>9, <4>1
      <4> QED BY <1>5, <1>9, <4>1, <4>2
    <3> QED BY <1>5, <3>1, <3>2
  <2>8. pc[e] \in Flipped => loc'[e].old = 1 - (ctr' % 2) /\ \A v \in preexisting[e] : loc'[v].idx = loc'[e].old
    BY <1>1, <1>5, <2>1 DEF SrcuWait
  <2>9. SrcuWait(e)'
    BY <1>1, <1>8, <2>6, <2>7, <2>8 DEF SrcuWait, Flipped, Threads
  <2> QED BY <2>4, <2>5, <2>9
<1>12. SrcuInv'
  BY <1>1, <1>2, <1>10, <1>11 DEF SrcuInv, Threads
<1>13. GpStep /\ Outlasted'
  BY <1>1, <1>2, GpStays DEF Outlasted
<1> QED BY <1>7, <1>12, <1>13 DEF SrcuKept

\* The steps of srcu
SrcuSteps(t) == SrcuReadLockLoad(t) \/ SrcuReadStep(t) \/ Synchronize(t) \/ SrcuSyncStep(t) \/ Drain(t)

\* Each of them keeps the invariant and is one of the abstract specification, or none.
LEMMA SrcuKeeps ==
  ASSUME SrcuAssumed, NEW t \in Threads, SrcuSteps(t)
  PROVE  SrcuKept /\ UNCHANGED impl
<1>1. UNCHANGED impl
  BY DEF SrcuSteps, SrcuReadStep, SrcuSyncStep, SrcuReadLockLoad, SrcuReadLockStore, SrcuReadUnlock, SrcuReadUnlockStore,
         Synchronize, SrcuSyncLock, FirstGp, FlipIndex, SecondGp, srcu_readers_active_idx, ThirdGp, SyncUnlock, SyncReturn, Drain
<1> QED BY <1>1, SrcuReadLockLoadKeeps, SrcuReadLockStoreKeeps, SrcuReadUnlockKeeps, SrcuReadUnlockStoreKeeps, SrcuCallKeeps,
           SrcuGpKeeps, FlipIndexKeeps, srcu_readers_active_idxKeeps, SrcuReturnKeeps, SrcuDrainKeeps
        DEF SrcuSteps, SrcuReadStep, SrcuSyncStep

-----------------------------------------------------------------------------
\* All implementations but rcu_sig
Kept == GpStep /\ IInv' /\ UNCHANGED impl

\* A step of one that announces readers, or of one by locks
LEMMA ToyNextKeeps ==
  ASSUME IInv, Promising, ToyNext
  PROVE  Kept
<1>1. PICK t \in ToyActive :
        \/ LockedRead(t) \/ ToyReadLockLoad(t) \/ ReadLockNested(t)
        \/ ToyReadStep(t)
        \/ SyncCall(t) \/ ToySyncStep(t)
        \/ DrainStore(t)
  BY DEF ToyNext
<1>2. impl \in ToyImpls /\ t \in Threads
  BY <1>1 DEF ToyActive
<1>3. Types /\ GpInv /\ Outlasted /\ (impl \in ByLock => LockInv) /\ (impl \in ToyImpls \ ByLock => ToyInv)
      /\ impl \notin QsImpls \union SrcuImpls
  BY <1>2 DEF IInv, ToyImpls, ByLock, Counting, Numbered, QsImpls, SrcuImpls
<1>4. CASE impl \in ByLock
  <2>1. pc[t] \in {"idle", "reading", "sync_lock", "sync_return"}
    BY <1>2, <1>3, <1>4 DEF LockInv
  <2>2. impl \notin Nestable
    BY <1>4 DEF ByLock, Nestable
  <2>3. ~ ToyReadLockLoad(t) /\ ~ ReadLockNested(t) /\ ~ ToyReadLockStore(t) /\ ~ ReadLockMb(t) /\ ~ ReadUnlockMb(t)
    BY <1>4, <2>1, <2>2 DEF ToyReadLockLoad, ReadLockNested, ToyReadLockStore, ReadLockMb, ReadUnlockMb, Goto
  <2>4. ~ ReadUnlockLoad(t) /\ ~ ToyReadUnlockStore(t) /\ ~ ToySyncLock(t) /\ ~ atomicgp_load(t) /\ ~ ToySyncAdvance(t)
        /\ ~ ToySyncWait(t) /\ ~ SyncUnlock(t)
    BY <1>4, <2>1 DEF ReadUnlockLoad, ToyReadUnlockStore, ToySyncLock, atomicgp_load, ToySyncAdvance, ToySyncWait, SyncUnlock,
                      Goto
  <2>5. LockSteps(t)
    BY <1>1, <2>3, <2>4 DEF LockSteps, ToyReadStep, ToySyncStep
  <2>6. LockAssumed
    BY <1>3, <1>4 DEF LockAssumed
  <2>7. LockKept /\ UNCHANGED impl
    BY <1>2, <2>5, <2>6, LockKeeps
  <2> QED BY <1>2, <1>3, <1>4, <2>7 DEF LockKept, GpStep, Kept, IInv
<1>5. CASE impl \notin ByLock
  <2>1. ~ LockedRead(t) /\ ~ LockedReadEnd(t) /\ ~ LockedSync(t) /\ ~ PercpuSync(t)
    BY <1>5 DEF LockedRead, LockedReadEnd, LockedSync, PercpuSync, ByLock
  <2>2. ToySteps(t)
    BY <1>1, <2>1 DEF ToySteps, ToyReadStep, ToySyncStep
  <2>3. Toys
    BY <1>2, <1>5 DEF Toys
  <2>4. Types' /\ GpStep /\ Outlasted' /\ ToyInv' /\ UNCHANGED impl
    BY <1>2, <1>3, <1>5, <2>2, <2>3, ToyKeeps
  <2> QED BY <1>2, <1>3, <1>5, <2>4 DEF GpStep, Kept, IInv
<1> QED BY <1>4, <1>5

\* A step by quiescent states
LEMMA QsNextKeeps ==
  ASSUME IInv, Promising, QsNext
  PROVE  Kept
<1>1. PICK t \in QsActive : QsSteps(t)
  BY DEF QsNext, QsSteps
<1>2. impl \in QsImpls /\ t \in Threads
  BY <1>1 DEF QsActive
<1>3. QsAssumed /\ impl \notin ToyImpls \union ByLock \union SrcuImpls
  BY <1>2 DEF IInv, QsAssumed, ToyImpls, ByLock, Counting, Numbered, QsImpls, SrcuImpls
<1>4. QsKept /\ UNCHANGED impl
  BY <1>1, <1>2, <1>3, QsKeeps
<1> QED BY <1>2, <1>3, <1>4 DEF QsKept, GpStep, Kept, IInv

\* A step of sleepable RCU
LEMMA SrcuNextKeeps ==
  ASSUME IInv, Promising, SrcuNext
  PROVE  Kept
<1>1. PICK t \in SrcuActive : SrcuSteps(t)
  BY DEF SrcuNext, SrcuSteps
<1>2. impl \in SrcuImpls /\ t \in Threads
  BY <1>1 DEF SrcuActive
<1>3. SrcuAssumed /\ impl \notin ToyImpls \union ByLock \union QsImpls
  BY <1>2 DEF IInv, SrcuAssumed, ToyImpls, ByLock, Counting, Numbered, QsImpls, SrcuImpls
<1>4. SrcuKept /\ UNCHANGED impl
  BY <1>1, <1>2, <1>3, SrcuKeeps
<1> QED BY <1>2, <1>3, <1>4 DEF SrcuKept, GpStep, Kept, IInv

\* Where nothing changes
LEMMA StutterKeeps ==
  ASSUME IInv, Promising, UNCHANGED vars
  PROVE  Kept
<1>1. UNCHANGED <<impl, ctr, mutex, shared, reader, buffer, loc, pc, preexisting>>
  BY DEF vars
<1>2. (Types' <=> Types) /\ (GpInv' <=> GpInv) /\ (Outlasted' <=> Outlasted)
  BY <1>1 DEF Types, Values, GpInv, Inside, Syncing, Outlasted
<1>3. LockInv' <=> LockInv
  BY <1>1 DEF LockInv, LockThread, ReaderLock
<1>4. (ToyCore' <=> ToyCore) /\ (RcgInv' <=> RcgInv)
  BY <1>1 DEF ToyCore, ToyThread, RcgInv, Levels
<1>5. \A t : Own(t)' = Own(t) /\ Visible(t)' = Visible(t) /\ (Drained(t)' <=> Drained(t))
  BY <1>1 DEF Own, Visible, Drained, Last
<1>6. ScanInv' <=> ScanInv
  BY <1>1, <1>5 DEF ScanInv, ScanReader, ScanWait, Announces, Odd, Even, Early, Threads
<1>7. CountInv' <=> CountInv
  <2>1. \A i : Counted(i)' = Counted(i)
    BY <1>1 DEF Counted
  <2>2. \A t : Shown(t)' = Shown(t)
    BY <1>1 DEF Shown
  <2> QED BY <1>1, <1>5, <2>1, <2>2 DEF CountInv, CountThread, CountWait, Threads
<1>8. QsInv' <=> QsInv
  <2>1. QsStep' = QsStep /\ Numbers' = Numbers /\ Online' = Online /\ OnlineBefore' = OnlineBefore
    BY <1>1, QsStays
  <2> QED BY <1>1, <1>5, <2>1 DEF QsInv, QsThread, QsWait, Threads, NoThread
<1>9. SrcuInv' <=> SrcuInv
  <2>1. \A t : Owed(t)' = Owed(t) /\ SrcuShown(t)' = SrcuShown(t)
    BY <1>1 DEF Owed, SrcuShown
  <2>2. Indexed' = Indexed /\ (OneIndex' <=> OneIndex)
    BY <1>1 DEF Indexed, OneIndex
  <2> QED BY <1>1, <1>5, <2>1, <2>2 DEF SrcuInv, SrcuThread, SrcuCall, SrcuWait, Threads, NoThread
<1>10. IInv'
  BY <1>1, <1>2, <1>3, <1>4, <1>6, <1>7, <1>8, <1>9 DEF IInv, ToyInv
<1>11. GpInv
  BY DEF IInv
<1>12. GpStep
  BY <1>1, <1>11, GpStays
<1> QED BY <1>1, <1>10, <1>12 DEF Kept

\* No step turns one implementation into another.
LEMMA ImplStays ==
  ASSUME [Next]_vars
  PROVE  UNCHANGED impl
<1>1. CASE ToyNext
  BY <1>1 DEF ToyNext, ToyReadStep, ToySyncStep, LockedRead, LockedReadEnd, LockedSync, PercpuSync, ToyReadLockLoad,
              ReadLockNested, ToyReadLockStore, ReadLockMb, ReadUnlockMb, ReadUnlockLoad, ToyReadUnlockStore, SyncCall,
              ToySyncLock, atomicgp_load, ToySyncAdvance, ToySyncWait, SyncUnlock, SyncReturn, DrainStore
<1>2. CASE QsNext
  BY <1>2 DEF QsNext, QsLoad, QsStore, QsInner, QsMb, OfflineLoad, OfflineStore, ReadLock, QsReadUnlock, SyncCall,
              QsSyncLock, QsSyncAdvance, QsSyncWait, SyncUnlock, SyncReturn, DrainStore
<1>3. CASE SrcuNext
  BY <1>3 DEF SrcuNext, SrcuReadStep, SrcuSyncStep, SrcuReadLockLoad, SrcuReadLockStore, SrcuReadUnlock,
              SrcuReadUnlockStore, Synchronize, SrcuSyncLock, FirstGp, FlipIndex, SecondGp, srcu_readers_active_idx,
              ThirdGp, SyncUnlock, SyncReturn, Drain
<1>4. CASE Signals!Next
  BY <1>4 DEF Signals!Next, Signals!Active, Signals!Impls, Signals!Register, Signals!ReadLock, Signals!ReadStep,
              Signals!ReadUnlock, Signals!ReadUnlockLoad, Signals!ReadUnlockStore, Signals!urcu_sig_handler, Signals!SyncCall,
              Signals!SyncStep, Signals!SyncLock, Signals!Request, Signals!SyncWait, Signals!Resend, Signals!SyncUnlock,
              Signals!SyncReturn, Signals!DrainStore
<1>5. CASE UNCHANGED vars
  BY <1>5 DEF vars
<1> QED BY <1>1, <1>2, <1>3, <1>4, <1>5 DEF Next

\* The steps of those that promise a grace period keep the invariant.
LEMMA StepKeeps ==
  ASSUME [Next]_vars, IInv, Promising
  PROVE  Kept
<1>1. ~ Signals!Next
  BY DEF Promising, Signals!Next, Signals!Active, Signals!Impls
<1> QED BY <1>1, ToyNextKeeps, QsNextKeeps, SrcuNextKeeps, StutterKeeps DEF Next

-----------------------------------------------------------------------------
\* Where an implementation starts
LEMMA InitIs ==
  ASSUME NEW impls, NEW c \in Int, NEW r, InitWith(impls, c, r), r \in Values
  PROVE  /\ impl \in impls /\ ctr = c /\ Types /\ GpInv /\ Outlasted
         /\ pc \in [Threads -> {"idle"}] /\ shared[0] = 0 /\ shared[1] = 0
         /\ Inside = {} /\ Syncing = {}
         /\ \A t \in Threads :
              loc[t] = Registers /\ Own(t) = r /\ Visible(t) = {r} /\ Drained(t) /\ preexisting[t] = {}
<1>1. /\ impl \in impls /\ ctr = c /\ mutex = [l \in 0 .. NR_THREADS |-> NoThread] /\ shared = [i \in 0 .. 1 |-> 0]
      /\ reader = [t \in Threads |-> r] /\ buffer = [t \in Threads |-> <<>>] /\ loc = [t \in Threads |-> Registers]
      /\ pc = [t \in Threads |-> "idle"] /\ preexisting = [t \in Threads |-> {}]
  BY DEF InitWith
<1>2. Registers \in Locals /\ NoThread \in 0 .. NR_THREADS
  <2>1. NoThread \in 0 .. NR_THREADS /\ 0 \in 0 .. NR_THREADS
    BY Setting
  <2> QED BY <2>1 DEF Registers, Locals, Dues
<1>3. Types
  <2>1. <<>> \in Seq(Values)
    OBVIOUS
  <2> QED BY <1>1, <1>2, <2>1 DEF Types, Pairs
<1>4. Inside = {} /\ Syncing = {} /\ GpInv /\ Outlasted
  BY <1>1 DEF Inside, Syncing, GpInv, Outlasted
<1>5. \A t \in Threads : Own(t) = r /\ Visible(t) = {r} /\ Drained(t)
  <2>1. ASSUME NEW t \in Threads PROVE Own(t) = r /\ Visible(t) = {r} /\ Drained(t)
    <3>1. buffer[t] = <<>> /\ reader[t] = r
      BY <1>1
    <3>2. Drained(t)
      BY <3>1 DEF Drained
    <3> QED BY <1>3, <3>1, <3>2, OwnIs
  <2> QED BY <2>1
<1> QED BY <1>1, <1>3, <1>4, <1>5

\* The invariant holds when nothing has happened yet, and so do the abstract initial conditions.
LEMMA InvInit ==
  ASSUME Init
  PROVE  IInv /\ Promised!Init
<1> DEFINE Zeros == [i \in 0 .. 1 |-> 0]
<1>1. Zeros \in Pairs /\ Zeros[0] = 0 /\ Zeros[1] = 0
  BY DEF Pairs
<1>2. 0 \in Threads /\ LONG_MAX \in Int /\ 0 \in Int
  BY Setting DEF LONG_MAX
<1>3. CASE Signals!Init
  <2>1. impl = "sig" /\ Inside = {} /\ Syncing = {} /\ preexisting = [t \in Threads |-> {}]
    BY <1>3 DEF Signals!Init, Signals!Impls, Inside, Syncing, Signals!Threads, Threads
  <2> QED BY <2>1 DEF IInv, Promising, Promised!Init
<1>4. ASSUME NEW r \in Values, NEW c \in Int, InitWith({impl}, c, r) PROVE Promised!Init
  <2>1. Inside = {} /\ Syncing = {} /\ preexisting = [t \in Threads |-> {}]
    BY <1>4, InitIs DEF InitWith
  <2> QED BY <2>1 DEF Promised!Init
<1>5. CASE SrcuInit
  <2>1. InitWith(SrcuImpls, 0, Zeros) /\ impl = "srcu" /\ Values = Pairs /\ InitWith({impl}, 0, Zeros)
    BY <1>5 DEF SrcuInit, InitWith, SrcuImpls, Values
  <2>2. /\ ctr = 0 /\ Types /\ GpInv /\ Outlasted /\ pc \in [Threads -> {"idle"}]
        /\ \A t \in Threads : loc[t] = Registers /\ Own(t) = Zeros /\ Visible(t) = {Zeros}
    BY <1>1, <1>2, <2>1, InitIs
  <2>3. pc \in [Threads -> SrcuLocs] /\ OneIndex
    BY <2>2 DEF SrcuLocs, OneIndex, Indexed
  <2>4. ASSUME NEW t \in Threads PROVE SrcuThread(t) /\ SrcuCall(t) /\ SrcuWait(t)
    <3>1. pc[t] = "idle" /\ loc[t].idx = 0 /\ loc[t].scan = 0
      BY <2>2 DEF Registers
    <3>2. SrcuShown(t) = Zeros
      BY <3>1 DEF SrcuShown
    <3> QED BY <1>1, <1>2, <2>2, <3>1, <3>2 DEF SrcuThread, SrcuCall, SrcuWait, Holding, Flipped
  <2>5. SrcuInv
    BY <2>3, <2>4 DEF SrcuInv
  <2>6. IInv
    BY <2>1, <2>2, <2>5 DEF IInv, SrcuImpls, ToyImpls, QsImpls, ByLock, Counting, Numbered
  <2> QED BY <1>1, <1>2, <1>4, <2>1, <2>6
<1>6. CASE QsInit
  <2>1. InitWith(QsImpls, 0, 0) /\ impl \in {"qs", "nest_qs"} /\ Values = Int /\ InitWith({impl}, 0, 0)
    BY <1>6 DEF QsInit, InitWith, QsImpls, Values
  <2>2. /\ ctr = 0 /\ Types /\ GpInv /\ Outlasted /\ pc \in [Threads -> {"idle"}]
        /\ \A t \in Threads : loc[t] = Registers
    BY <1>2, <2>1, InitIs
  <2>3. pc \in [Threads -> QsLocs] /\ ctr \in Numbers
    BY <2>2, NumbersAre DEF QsLocs
  <2>4. ASSUME NEW t \in Threads PROVE QsThread(t) /\ QsWait(t)
    <3>1. pc[t] = "idle" /\ loc[t].scan = 0
      BY <2>2 DEF Registers
    <3> QED BY <1>2, <3>1 DEF QsThread, QsWait, Holding
  <2>5. QsInv
    BY <2>3, <2>4 DEF QsInv
  <2>6. IInv
    BY <2>1, <2>2, <2>5 DEF IInv, SrcuImpls, ToyImpls, QsImpls, ByLock, Counting, Numbered
  <2> QED BY <1>2, <1>4, <2>1, <2>6
<1>7. ASSUME NEW c \in Int, NEW r \in Values, InitWith(ToyImpls, c, r),
             impl = "rcpl" => r = Zeros, impl \notin {"rcpl", "rcu64", "atomicgp"} => r = 0,
             impl \notin {"rcu64", "atomicgp"} => c = 0
      PROVE  IInv
  <2>1. /\ impl \in ToyImpls /\ ctr = c /\ Types /\ GpInv /\ Outlasted /\ pc \in [Threads -> {"idle"}]
        /\ shared[0] = 0 /\ shared[1] = 0
        /\ \A t \in Threads : loc[t] = Registers /\ Own(t) = r /\ Visible(t) = {r} /\ Drained(t) /\ preexisting[t] = {}
    BY <1>7, InitIs
  <2>2. \A t \in Threads :
          pc[t] = "idle" /\ loc[t].nest = 0 /\ loc[t].scan = 0 /\ loc[t].idx = 0 /\ loc[t].flip = 1
    BY <2>1 DEF Registers
  <2>3. LockInv
    BY <2>1, <2>2 DEF LockInv, LockThread
  <2>4. ToyCore
    BY <1>2, <2>1, <2>2 DEF ToyCore, ToyThread, ToyLocs, Holding, Announced
  <2>5. impl \in Scanned => ScanInv
    <3>1. impl = "ts" => ctr % 2 = 0
      BY <1>7, <2>1
    <3>2. ASSUME NEW t \in Threads PROVE ScanReader(t) /\ ScanWait(t)
      BY <1>7, <2>1, <2>2, <3>2 DEF ScanReader, ScanWait, Reading
    <3> QED BY <3>1, <3>2 DEF ScanInv
  <2>6. RcgInv
    <3>1. Levels = {}
      <4>1. ASSUME NEW l \in Levels PROVE FALSE
        <5>1. l[1] \in Threads /\ l[2] \in 1 .. MaxNest /\ l[2] <= loc[l[1]].nest
          BY <4>1 DEF Levels
        <5>2. l[2] <= 0 /\ MaxNest \in Nat
          BY <2>2, <5>1, Setting
        <5> QED BY <5>1, <5>2
      <4> QED BY <4>1
    <3> QED BY <2>1, <3>1, FS_EmptySet DEF RcgInv
  <2>7. impl \in Counting => CountInv
    <3> SUFFICES ASSUME impl \in Counting PROVE CountInv
      OBVIOUS
    <3>1. ctr = 0
      BY <1>7, <2>1 DEF Counting
    <3>2. \A i \in 0 .. 1 : shared[i] = Cardinality(Counted(i))
      <4>1. \A i \in 0 .. 1 : Counted(i) = {}
        BY <2>2 DEF Counted, Announced
      <4> QED BY <2>1, <4>1, FS_EmptySet
    <3>3. ASSUME NEW t \in Threads PROVE CountThread(t) /\ CountWait(t)
      <4>1. Shown(t) = Zeros
        BY <2>2 DEF Shown, Announced
      <4> QED BY <1>7, <2>1, <2>2, <4>1 DEF CountThread, CountWait, Reading
    <3> QED BY <3>1, <3>2, <3>3 DEF CountInv
  <2> QED BY <2>1, <2>3, <2>4, <2>5, <2>6, <2>7 DEF IInv, ToyInv, SrcuImpls, QsImpls, ToyImpls, ByLock, Counting, Numbered
<1>8. CASE ToyInit
  <2>1. PICK c \in {0, LONG_MAX}, r \in {0, Zeros} :
          /\ InitWith(ToyImpls, c, r) /\ InitWith({impl}, c, r)
          /\ IF impl = "rcpl" THEN r = Zeros ELSE r = 0
          /\ impl \notin {"rcu64", "atomicgp"} => c = 0
    BY <1>8 DEF ToyInit, InitWith, ToyImpls, ByLock, Counting, Numbered
  <2>2. c \in Int
    BY <1>2, <2>1
  <2>3. r \in Values
    <3>1. impl # "srcu"
      BY <2>1 DEF InitWith, ToyImpls, ByLock, Counting, Numbered
    <3> QED BY <1>1, <2>1, <3>1 DEF Values
  <2> QED BY <1>4, <1>7, <2>1, <2>2, <2>3
<1> QED BY <1>3, <1>5, <1>6, <1>8 DEF Init

\* A step of the program, seen through the mapping
LEMMA InvNext ==
  ASSUME IInv, [Next]_vars
  PROVE  IInv' /\ [Promised!Next]_(Promised!gpvars)
<1>1. (Promising' <=> Promising) /\ (Promising => Kept)
  BY StepKeeps, ImplStays DEF Promising
<1> DEFINE I == {t \in Inside : Promising}
           S == {t \in Syncing : Promising}
           P == [u \in Threads |-> {t \in preexisting[u] : Promising}]
<1>2. CASE ~ Promising
  <2>1. ~ Promising'
    BY <1>1, <1>2
  <2>2. IInv'
    BY <2>1 DEF IInv
  <2>3. I' = I /\ S' = S /\ P' = P
    BY <1>2, <2>1 DEF Threads
  <2> QED BY <2>2, <2>3 DEF Promised!gpvars
<1>3. CASE Promising
  <2>1. GpStep /\ IInv' /\ UNCHANGED impl
    BY <1>1, <1>3 DEF Kept
  <2>0. Promising /\ Promising'
    BY <1>1, <1>3
  <2>2. I = Inside /\ S = Syncing /\ I' = Inside' /\ S' = Syncing'
    BY <2>0
  <2>3. P = preexisting /\ P' = preexisting'
    <3>1. preexisting \in [Threads -> SUBSET Threads] /\ preexisting' \in [Threads -> SUBSET Threads]
      BY <1>3, <2>1 DEF IInv, GpInv, GpStep, Threads
    <3> QED BY <2>0, <3>1 DEF Threads
  <2>4. CASE UNCHANGED GP!gpvars
    BY <2>1, <2>2, <2>3, <2>4 DEF GP!gpvars, Promised!gpvars
  <2>5. ASSUME NEW t \in Threads, GP!ReadLock(t) \/ GP!ReadUnlock(t) \/ GP!SynchronizeCall(t) \/ GP!SynchronizeReturn(t)
        PROVE  Promised!Next
    <3>1. GP!ReadLock(t) => Promised!ReadLock(t)
      BY <2>2, <2>3 DEF GP!ReadLock, Promised!ReadLock
    <3>2. GP!ReadUnlock(t) => Promised!ReadUnlock(t)
      BY <2>2, <2>3 DEF GP!ReadUnlock, Promised!ReadUnlock
    <3>3. GP!SynchronizeCall(t) => Promised!SynchronizeCall(t)
      BY <2>2, <2>3 DEF GP!SynchronizeCall, Promised!SynchronizeCall
    <3>4. GP!SynchronizeReturn(t) => Promised!SynchronizeReturn(t)
      BY <2>2, <2>3 DEF GP!SynchronizeReturn, Promised!SynchronizeReturn
    <3> QED BY <2>5, <3>1, <3>2, <3>3, <3>4 DEF Promised!Next
  <2> QED BY <2>1, <2>4, <2>5 DEF GpStep, GP!Next
<1> QED BY <1>2, <1>3

-----------------------------------------------------------------------------
\* The invariant holds in every implementation that promises a grace period (rcu_ts by a clock that advances by 2 or
\* more over a barrier included), for any number of threads, depth of nesting and length of a buffer.
THEOREM Invariance == Spec => []IInv
<1>1. Init => IInv
  BY InvInit
<1>2. IInv /\ [Next]_vars => IInv'
  BY InvNext
<1> QED BY <1>1, <1>2, PTL DEF Spec

\* synchronize_rcu() of every implementation but rcu_sig (rcu_lock, rcu_lock_percpu, rcu_rcl, rcu_rcg, rcu_rcpg,
\* rcu_rcpl, rcu64, rcu64_atomicgp, rcu_ts, rcu_qs, rcu_nest_qs, srcu) outlasts the critical sections that were under
\* way when it was called, in whatever order the stores of the threads become visible; that of rcu_ts, if the clock
\* advances by 2 or more between two readings that a barrier separates (FineClock in Promising).
THEOREM Refinement == Spec => ImplementsGracePeriod
<1>1. Init => Promised!Init
  BY InvInit
<1>2. IInv /\ [Next]_vars => [Promised!Next]_(Promised!gpvars)
  BY InvNext
<1> QED BY <1>1, <1>2, Invariance, PTL DEF Spec, ImplementsGracePeriod, Promised!Spec
=============================================================================
