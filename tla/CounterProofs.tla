--------------------------- MODULE CounterProofs ---------------------------
(*****************************************************************************)
(* Proofs about module Counters, for any number of threads, any limit, any   *)
(* MAX_COUNTERMAX and any set of requests: the reserve covers what the       *)
(* threads may add (ReserveCovered), a thread and a thief do not touch a     *)
(* counter together (OwnerOrThief), and the five limit counters of count/    *)
(* implement LimitCounter: the count stays in 0 .. globalcountmax, a call    *)
(* takes effect as a whole or not at all, and an exact counter refuses a     *)
(* call only if the limit is in its way (LimitKept). All of it rests on the  *)
(* books: globalreserve is the sum of the threads' countermax, which with    *)
(* globalcount does not exceed the limit, and no counter exceeds its         *)
(* countermax.                                                               *)
(*                                                                           *)
(* The first part is about the sum of a function over a finite set, as       *)
(* read_count() and globalreserve are sums over the threads. MapThenSumSet   *)
(* is a recursive function chosen by CHOOSE; what it computes is proved by   *)
(* looking at a minimal set, among the subsets of S, for which it would not  *)
(* hold.                                                                     *)
(*                                                                           *)
(* The last two parts are about what read_count() returns: of a              *)
(* statistical counter, what has been counted at some time between its call  *)
(* and its return, while threads come and go, and at the end of the test     *)
(* exactly what has been counted (FinalExact), out of no array and no        *)
(* thread's counter that is gone (NothingFreedRead); of a limit counter,     *)
(* never more than the limit, though the fast paths move on while the reader *)
(* adds up (ReadsBetween). A reader that has come to thread n relies on two  *)
(* bounds: what it has added is at most what the threads before n now hold,  *)
(* and with what the threads from n on hold it is at least what there was at *)
(* the call.                                                                 *)
(*****************************************************************************)
EXTENDS Counters, FiniteSetTheorems, SequenceTheorems, TLAPS

\* The sum of f[x] over the x of S
Sum(f, S) == MapThenSumSet(LAMBDA x : f[x], S)

\* The element that MapThenFoldSet takes out of s first
pick(s) == CHOOSE x \in s : TRUE

\* g is the recursive function of MapThenFoldSet over the subsets of S
IsSum(g, f, S) == g = [s \in SUBSET S |-> IF s = {} THEN 0 ELSE f[pick(s)] + g[s \ {pick(s)}]]

\* Sum is the function that MapThenFoldSet chooses, applied to S.
LEMMA SumDefinition ==
  ASSUME NEW f, NEW S
  PROVE  Sum(f, S) = (CHOOSE g : IsSum(g, f, S))[S]
  BY DEF Sum, MapThenSumSet, MapThenFoldSet, IsSum, pick

\* Among the subsets of a finite set that have some property, if there are any, one is minimal. This
\* is what replaces an induction over finite sets.
LEMMA MinimalSet ==
  ASSUME NEW S, IsFiniteSet(S), NEW T \in SUBSET SUBSET S, T # {}
  PROVE  \E U \in T : \A V \in SUBSET U : V \in T => V = U
<1>1. IsWellFoundedOn(StrictSubsetOrdering(S), FiniteSubsetsOf(S))
  BY FS_StrictSubsetOrderingWellFounded
<1>2. T \subseteq FiniteSubsetsOf(S)
  BY FS_Subset DEF FiniteSubsetsOf
<1> HIDE DEF StrictSubsetOrdering, FiniteSubsetsOf
<1>3. \E U \in T : \A V \in T : ~ (<<V, U>> \in StrictSubsetOrdering(S))
  BY <1>1, <1>2, WFMin, Zenon
<1>4. PICK U \in T : \A V \in T : ~ (<<V, U>> \in StrictSubsetOrdering(S))
  BY <1>3
<1>5. ASSUME NEW V \in SUBSET U, V \in T, V # U PROVE <<V, U>> \in StrictSubsetOrdering(S)
  BY <1>5 DEF StrictSubsetOrdering
<1>6. \A V \in SUBSET U : V \in T => V = U
  BY <1>4, <1>5
<1> QED BY <1>6

\* The element taken first belongs to the set.
LEMMA PickIn ==
  ASSUME NEW s, s # {}
  PROVE  pick(s) \in s
  BY DEF pick

\* The recursive functions over S and over a subset R of it agree on R.
LEMMA SumUnique ==
  ASSUME NEW f, NEW S, IsFiniteSet(S), NEW R \in SUBSET S, NEW g, NEW h, IsSum(g, f, S), IsSum(h, f, R)
  PROVE  g[R] = h[R]
<1> DEFINE T == {s \in SUBSET R : g[s] # h[s]}
<1> SUFFICES ASSUME T # {} PROVE FALSE
  OBVIOUS
<1>1. IsFiniteSet(R)
  BY FS_Subset
<1>2. PICK U \in T : \A V \in SUBSET U : V \in T => V = U
  <2>1. T \in SUBSET SUBSET R
    OBVIOUS
  <2> HIDE DEF T
  <2> QED BY <1>1, <2>1, MinimalSet
<1>3. U # {}
  BY DEF IsSum
<1>4. pick(U) \in U /\ U \ {pick(U)} \in SUBSET R /\ U \ {pick(U)} \in SUBSET S
  BY <1>3, PickIn
<1>5. g[U \ {pick(U)}] = h[U \ {pick(U)}]
  BY <1>2, <1>4
<1>6. g[U] = f[pick(U)] + g[U \ {pick(U)}] /\ h[U] = f[pick(U)] + h[U \ {pick(U)}]
  BY <1>3, <1>4 DEF IsSum
<1> QED BY <1>2, <1>5, <1>6

\* There is such a recursive function over every finite set.
LEMMA SumExists ==
  ASSUME NEW f, NEW S, IsFiniteSet(S)
  PROVE  \E g : IsSum(g, f, S)
<1> DEFINE T == {U \in SUBSET S : ~ \E g : IsSum(g, f, U)}
<1>1. CASE T = {}
  BY <1>1
<1>2. ASSUME T # {} PROVE FALSE
  <2>1. PICK U \in T : \A V \in SUBSET U : V \in T => V = U
    <3>1. T \in SUBSET SUBSET S
      OBVIOUS
    <3> HIDE DEF T
    <3> QED BY <1>2, <3>1, MinimalSet
  <2> DEFINE sol(s) == CHOOSE g : IsSum(g, f, s)
             g == [s \in SUBSET U |-> IF s = {} THEN 0 ELSE f[pick(s)] + sol(s \ {pick(s)})[s \ {pick(s)}]]
  <2>2. IsFiniteSet(U)
    BY FS_Subset
  <2>3. ASSUME NEW s \in SUBSET U, s # U PROVE IsSum(sol(s), f, s)
    <3>1. \E h : IsSum(h, f, s)
      BY <2>1, <2>3
    <3> QED BY <3>1
  <2> HIDE DEF sol
  <2>4. ASSUME NEW s \in SUBSET U, s # {} PROVE g[s \ {pick(s)}] = sol(s \ {pick(s)})[s \ {pick(s)}]
    <3> DEFINE r == s \ {pick(s)}
    <3>1. r \in SUBSET U /\ r # U
      BY <2>4, PickIn
    <3>2. IsSum(sol(r), f, r) /\ IsFiniteSet(r)
      BY <2>2, <2>3, <3>1, FS_Subset
    <3>3. CASE r = {}
      BY <3>1, <3>2, <3>3 DEF IsSum
    <3>4. CASE r # {}
      <4>1. r \ {pick(r)} \in SUBSET r /\ r \ {pick(r)} # U /\ r \ {pick(r)} \in SUBSET U
        BY <3>1, <3>4, PickIn
      <4>2. IsSum(sol(r \ {pick(r)}), f, r \ {pick(r)})
        BY <2>3, <4>1
      <4>3. sol(r)[r \ {pick(r)}] = sol(r \ {pick(r)})[r \ {pick(r)}]
        BY <3>2, <4>1, <4>2, SumUnique
      <4>4. sol(r)[r] = f[pick(r)] + sol(r)[r \ {pick(r)}]
        BY <3>2, <3>4 DEF IsSum
      <4> QED BY <3>1, <3>4, <4>3, <4>4
    <3> QED BY <3>3, <3>4
  <2>5. g = [s \in SUBSET U |-> IF s = {} THEN 0 ELSE f[pick(s)] + g[s \ {pick(s)}]]
    BY <2>4
  <2> QED BY <2>5 DEF IsSum
<1> QED BY <1>1, <1>2

\* The recursive equation of Sum.
LEMMA SumStep ==
  ASSUME NEW f, NEW S, IsFiniteSet(S)
  PROVE  Sum(f, S) = IF S = {} THEN 0 ELSE f[pick(S)] + Sum(f, S \ {pick(S)})
<1> DEFINE sol(s) == CHOOSE g : IsSum(g, f, s)
<1>1. IsSum(sol(S), f, S)
  BY SumExists
<1>2. Sum(f, S) = sol(S)[S]
  BY SumDefinition
<1> DEFINE r == S \ {pick(S)}
<1>3. IsFiniteSet(r)
  BY FS_Subset
<1>4. IsSum(sol(r), f, r)
  BY <1>3, SumExists
<1>5. Sum(f, r) = sol(r)[r]
  BY SumDefinition
<1> HIDE DEF sol
<1>6. sol(S)[r] = sol(r)[r]
  BY <1>1, <1>4, SumUnique
<1> QED BY <1>1, <1>2, <1>5, <1>6 DEF IsSum

\* A sum of naturals is a natural, a sum of integers an integer.
LEMMA SumType ==
  ASSUME NEW f, NEW S, IsFiniteSet(S), NEW N \in {Nat, Int}, \A x \in S : f[x] \in N
  PROVE  Sum(f, S) \in N
<1> DEFINE T == {U \in SUBSET S : Sum(f, U) \notin N}
<1> SUFFICES ASSUME T # {} PROVE FALSE
  OBVIOUS
<1>1. PICK U \in T : \A V \in SUBSET U : V \in T => V = U
  <2>1. T \in SUBSET SUBSET S
    OBVIOUS
  <2> HIDE DEF T
  <2> QED BY <2>1, MinimalSet
<1>2. IsFiniteSet(U)
  BY FS_Subset
<1>3. U # {} /\ Sum(f, U) = f[pick(U)] + Sum(f, U \ {pick(U)})
  BY <1>2, SumStep
<1>4. pick(U) \in U /\ pick(U) \in S
  BY <1>3, PickIn
<1>5. Sum(f, U \ {pick(U)}) \in N
  BY <1>1, <1>4
<1> QED BY <1>3, <1>4, <1>5

\* Any element may be taken out first: the sum does not depend on the order.
LEMMA SumElem ==
  ASSUME NEW f, NEW S, IsFiniteSet(S), \A x \in S : f[x] \in Int, NEW x \in S
  PROVE  Sum(f, S) = f[x] + Sum(f, S \ {x})
<1> DEFINE Bad(U, y) == Sum(f, U) # f[y] + Sum(f, U \ {y})
           T == {U \in SUBSET S : \E y \in U : Bad(U, y)}
<1> SUFFICES ASSUME T # {} PROVE FALSE
  BY DEF Bad
<1>1. PICK U \in T : \A V \in SUBSET U : V \in T => V = U
  <2>1. T \in SUBSET SUBSET S
    OBVIOUS
  <2> HIDE DEF T
  <2> QED BY <2>1, MinimalSet
<1>2. PICK y \in U : Bad(U, y)
  OBVIOUS
<1> DEFINE c == pick(U)
<1>3. IsFiniteSet(U)
  BY FS_Subset
<1>4. Sum(f, U) = f[c] + Sum(f, U \ {c}) /\ c \in U /\ y \in S /\ c \in S
  BY <1>2, <1>3, SumStep, PickIn
<1>5. c # y
  BY <1>2, <1>4
<1> HIDE DEF c
<1>6. \A V \in SUBSET U : V # U => \A z \in V : ~ Bad(V, z)
  BY <1>1
<1>7. ~ Bad(U \ {c}, y) /\ ~ Bad(U \ {y}, c)
  BY <1>4, <1>5, <1>6
<1>8. /\ Sum(f, U \ {c}) = f[y] + Sum(f, (U \ {c}) \ {y})
      /\ Sum(f, U \ {y}) = f[c] + Sum(f, (U \ {y}) \ {c})
  BY <1>7
<1>9. (U \ {c}) \ {y} = (U \ {y}) \ {c}
  OBVIOUS
<1>10. Sum(f, (U \ {y}) \ {c}) \in Int
  <2>1. IsFiniteSet((U \ {y}) \ {c})
    BY <1>3, FS_Subset
  <2> QED BY <2>1, SumType
<1>11. Sum(f, U) = f[y] + Sum(f, U \ {y})
  <2>1. f[c] \in Int /\ f[y] \in Int
    BY <1>4
  <2>2. Sum(f, (U \ {c}) \ {y}) = Sum(f, (U \ {y}) \ {c})
    BY <1>9
  <2> HIDE DEF T, Bad
  <2>3. f[c] + (f[y] + Sum(f, (U \ {y}) \ {c})) = f[y] + (f[c] + Sum(f, (U \ {y}) \ {c}))
    BY <2>1, <1>10
  <2>4. f[c] + Sum(f, U \ {c}) = f[y] + Sum(f, U \ {y})
    BY <1>8, <2>2, <2>3
  <2> QED BY <1>4, <2>4
<1> QED BY <1>2, <1>11 DEF Bad

\* The sum depends only on the values on S.
LEMMA SumAgree ==
  ASSUME NEW f, NEW g, NEW S, IsFiniteSet(S), \A x \in S : f[x] = g[x]
  PROVE  Sum(f, S) = Sum(g, S)
<1> DEFINE T == {U \in SUBSET S : Sum(f, U) # Sum(g, U)}
<1> SUFFICES ASSUME T # {} PROVE FALSE
  OBVIOUS
<1>1. PICK U \in T : \A V \in SUBSET U : V \in T => V = U
  <2>1. T \in SUBSET SUBSET S
    OBVIOUS
  <2> HIDE DEF T
  <2> QED BY <2>1, MinimalSet
<1>2. IsFiniteSet(U)
  BY FS_Subset
<1>3. /\ Sum(f, U) = IF U = {} THEN 0 ELSE f[pick(U)] + Sum(f, U \ {pick(U)})
      /\ Sum(g, U) = IF U = {} THEN 0 ELSE g[pick(U)] + Sum(g, U \ {pick(U)})
  BY <1>2, SumStep
<1>4. U # {} /\ pick(U) \in U /\ pick(U) \in S
  BY <1>3, PickIn
<1>5. Sum(f, U \ {pick(U)}) = Sum(g, U \ {pick(U)})
  BY <1>1, <1>4
<1> QED BY <1>3, <1>4, <1>5

\* A step that changes one thread's value changes the sum by the difference: what every update of a
\* counter does to the sum over all threads.
LEMMA SumChange ==
  ASSUME NEW S, IsFiniteSet(S), NEW x \in S,
         NEW f, NEW g, \A y \in S : f[y] \in Int /\ g[y] \in Int, \A y \in S \ {x} : f[y] = g[y]
  PROVE  Sum(g, S) = Sum(f, S) - f[x] + g[x]
<1>1. IsFiniteSet(S \ {x})
  BY FS_Subset
<1>2. Sum(g, S \ {x}) = Sum(f, S \ {x})
  BY <1>1, SumAgree
<1>3. Sum(f, S) = f[x] + Sum(f, S \ {x}) /\ Sum(g, S) = g[x] + Sum(g, S \ {x})
  BY SumElem
<1>4. Sum(f, S \ {x}) \in Int
  BY <1>1, SumType
<1> QED BY <1>2, <1>3, <1>4

\* No thread's value exceeds the sum of all.
LEMMA SumBound ==
  ASSUME NEW S, IsFiniteSet(S), NEW f \in [S -> Nat], NEW x \in S
  PROVE  f[x] <= Sum(f, S) /\ Sum(f, S) \in Nat
<1>1. IsFiniteSet(S \ {x})
  BY FS_Subset
<1>2. Sum(f, S) = f[x] + Sum(f, S \ {x})
  BY SumElem
<1>3. Sum(f, S \ {x}) \in Nat
  BY <1>1, SumType
<1> QED BY <1>2, <1>3

\* Counters that are each at most their countermax sum to at most the reserve.
LEMMA SumMonotone ==
  ASSUME NEW S, IsFiniteSet(S), NEW f \in [S -> Nat], NEW g \in [S -> Nat], \A x \in S : f[x] <= g[x]
  PROVE  Sum(f, S) <= Sum(g, S)
<1> DEFINE T == {U \in SUBSET S : ~ (Sum(f, U) <= Sum(g, U))}
<1> SUFFICES ASSUME T # {} PROVE FALSE
  OBVIOUS
<1>1. PICK U \in T : \A V \in SUBSET U : V \in T => V = U
  <2>1. T \in SUBSET SUBSET S
    OBVIOUS
  <2> HIDE DEF T
  <2> QED BY <2>1, MinimalSet
<1>2. IsFiniteSet(U) /\ IsFiniteSet(U \ {pick(U)})
  BY FS_Subset
<1>3. /\ Sum(f, U) = IF U = {} THEN 0 ELSE f[pick(U)] + Sum(f, U \ {pick(U)})
      /\ Sum(g, U) = IF U = {} THEN 0 ELSE g[pick(U)] + Sum(g, U \ {pick(U)})
  BY <1>2, SumStep
<1>4. U # {} /\ pick(U) \in U /\ pick(U) \in S
  BY <1>3, PickIn
<1>5. Sum(f, U \ {pick(U)}) <= Sum(g, U \ {pick(U)})
  BY <1>1, <1>4
<1>6. Sum(f, U \ {pick(U)}) \in Nat /\ Sum(g, U \ {pick(U)}) \in Nat
  BY <1>2, SumType
<1> QED BY <1>3, <1>4, <1>5, <1>6

\* The sum of zeros is zero: the state all counters start in.
LEMMA SumZero ==
  ASSUME NEW S, IsFiniteSet(S), NEW f, \A x \in S : f[x] = 0
  PROVE  Sum(f, S) = 0
<1> DEFINE T == {U \in SUBSET S : Sum(f, U) # 0}
<1> SUFFICES ASSUME T # {} PROVE FALSE
  OBVIOUS
<1>1. PICK U \in T : \A V \in SUBSET U : V \in T => V = U
  <2>1. T \in SUBSET SUBSET S
    OBVIOUS
  <2> HIDE DEF T
  <2> QED BY <2>1, MinimalSet
<1>2. IsFiniteSet(U)
  BY FS_Subset
<1>3. Sum(f, U) = IF U = {} THEN 0 ELSE f[pick(U)] + Sum(f, U \ {pick(U)})
  BY <1>2, SumStep
<1>4. U # {} /\ pick(U) \in U /\ pick(U) \in S
  BY <1>3, PickIn
<1>5. Sum(f, U \ {pick(U)}) = 0
  BY <1>1, <1>4
<1> QED BY <1>3, <1>4, <1>5

-----------------------------------------------------------------------------
\* The books are balanced, for a globalcount gc, a globalreserve gr, counters c and their maxima m
Books(gc, gr, c, m) ==
  /\ gc \in Nat /\ c \in [Threads -> Nat] /\ m \in [Threads -> Nat]
  /\ gr = Sum(m, Threads)
  /\ gc + gr <= globalcountmax
  /\ \A t \in Threads : c[t] <= m[t]

\* The value of the counter: what read_count() sums up
Value(gc, c) == gc + Sum(c, Threads)

\* There are finitely many threads.
LEMMA ThreadsFinite == IsFiniteSet(Threads)
  BY NRThreadsAssumption, FS_Interval DEF Threads

\* When the books are balanced, the value is within the limit, and no countermax exceeds the
\* reserve.
LEMMA BooksBound ==
  ASSUME NEW gc, NEW gr, NEW c, NEW m, Books(gc, gr, c, m)
  PROVE  /\ gr \in Nat /\ Sum(c, Threads) \in Nat
         /\ \A t \in Threads : m[t] <= gr
         /\ Value(gc, c) \in 0 .. globalcountmax
<1>1. \A t \in Threads : m[t] <= gr /\ gr \in Nat
  BY ThreadsFinite, SumBound DEF Books
<1>2. Sum(c, Threads) \in Nat /\ Sum(m, Threads) \in Nat
  BY ThreadsFinite, SumType DEF Books
<1>3. Sum(c, Threads) <= Sum(m, Threads)
  BY ThreadsFinite, SumMonotone DEF Books
<1> QED BY <1>1, <1>2, <1>3, CounterAssumption DEF Books, Value

\* A slow path balances the books again: thread t's count and countermax are taken back
\* (globalize_count()), new takes the place of the global count, and n and cm of it are handed out
\* (balance_count()).
LEMMA BooksSlow ==
  ASSUME NEW gc, NEW gr, NEW c, NEW m, Books(gc, gr, c, m),
         NEW t \in Threads, NEW new \in Nat, NEW cm \in Nat, NEW n \in Nat,
         new + (gr - m[t]) + cm <= globalcountmax, n <= cm, n <= new
  PROVE  LET c2 == [c EXCEPT ![t] = n]
             m2 == [m EXCEPT ![t] = cm]
         IN  /\ Books(new - n, (gr - m[t]) + cm, c2, m2)
             /\ Value(new - n, c2) = Value(gc, c) + new - (gc + c[t])
<1> DEFINE c2 == [c EXCEPT ![t] = n]
           m2 == [m EXCEPT ![t] = cm]
<1>1. Sum(c2, Threads) = Sum(c, Threads) - c[t] + n
  <2>1. c2[t] = n /\ \A s \in Threads : c[s] \in Int /\ c2[s] \in Int /\ (s # t => c[s] = c2[s])
    BY DEF Books
  <2> HIDE DEF c2
  <2> QED BY <2>1, ThreadsFinite, SumChange
<1>2. Sum(m2, Threads) = Sum(m, Threads) - m[t] + cm
  <2>1. m2[t] = cm /\ \A s \in Threads : m[s] \in Int /\ m2[s] \in Int /\ (s # t => m[s] = m2[s])
    BY DEF Books
  <2> HIDE DEF m2
  <2> QED BY <2>1, ThreadsFinite, SumChange
<1>3. gr \in Nat /\ Sum(c, Threads) \in Nat /\ c[t] \in Nat /\ m[t] \in Nat /\ m[t] <= gr
  BY BooksBound DEF Books
<1>4. c2 \in [Threads -> Nat] /\ m2 \in [Threads -> Nat] /\ \A s \in Threads : c2[s] <= m2[s]
  BY DEF Books
<1>5. Books(new - n, (gr - m[t]) + cm, c2, m2)
  <2> HIDE DEF c2, m2
  <2> QED BY <1>2, <1>3, <1>4, CounterAssumption DEF Books
<1>6. Value(new - n, c2) = Value(gc, c) + new - (gc + c[t])
  <2> HIDE DEF c2
  <2> QED BY <1>1, <1>3 DEF Books, Value
<1> QED BY <1>5, <1>6

\* A fast path keeps the books balanced as long as the counter stays within its countermax.
LEMMA BooksFast ==
  ASSUME NEW gc, NEW gr, NEW c, NEW m, Books(gc, gr, c, m),
         NEW t \in Threads, NEW n \in Nat, n <= m[t]
  PROVE  /\ Books(gc, gr, [c EXCEPT ![t] = n], m)
         /\ Value(gc, [c EXCEPT ![t] = n]) = Value(gc, c) + n - c[t]
<1> DEFINE c2 == [c EXCEPT ![t] = n]
<1>1. Sum(c2, Threads) = Sum(c, Threads) - c[t] + n
  <2>1. c2[t] = n /\ \A s \in Threads : c[s] \in Int /\ c2[s] \in Int /\ (s # t => c[s] = c2[s])
    BY DEF Books
  <2> HIDE DEF c2
  <2> QED BY <2>1, ThreadsFinite, SumChange
<1>2. Sum(c, Threads) \in Nat /\ c[t] \in Nat
  BY BooksBound DEF Books
<1>3. Books(gc, gr, c2, m)
  BY DEF Books
<1>4. Value(gc, c2) = Value(gc, c) + n - c[t]
  <2> HIDE DEF c2
  <2> QED BY <1>1, <1>2 DEF Books, Value
<1> QED BY <1>3, <1>4

\* The books are balanced when everything is zero.
LEMMA BooksStart ==
  /\ Books(0, 0, [t \in Threads |-> 0], [t \in Threads |-> 0])
  /\ Value(0, [t \in Threads |-> 0]) = 0
  BY ThreadsFinite, SumZero, CounterAssumption DEF Books, Value

-----------------------------------------------------------------------------
\* An unsigned subtraction does not wrap when the smaller number is taken from the larger one.
LEMMA MinusSmaller ==
  ASSUME NEW a \in Nat, NEW b \in Nat, b <= a, a < WORD
  PROVE  (a - b) % WORD = a - b
  BY CounterAssumption

\* A natural divided by a positive natural is a natural that is not larger.
LEMMA DivSmaller ==
  ASSUME NEW a \in Nat, NEW n \in Nat \ {0}
  PROVE  a \div n \in Nat /\ a \div n <= a
<1>1. a \div n \in Int /\ n * (a \div n) <= a /\ a < n * ((a \div n) + 1)
  OBVIOUS
<1> DEFINE q == a \div n
<1> HIDE DEF q
<1>2. q >= 0
  BY <1>1 DEF q
<1>3. q <= n * q
  BY <1>1, <1>2 DEF q
<1> QED BY <1>1, <1>2, <1>3 DEF q

\* Min of two naturals is one of them and at most either.
LEMMA MinOfTwo ==
  ASSUME NEW a \in Nat, NEW b \in Nat
  PROVE  /\ Min({a, b}) \in {a, b}
         /\ Min({a, b}) <= a /\ Min({a, b}) <= b
<1>1. \E x \in {a, b} : \A y \in {a, b} : x <= y
  OBVIOUS
<1> QED BY <1>1 DEF Min

\* globalcountmax - count - reserve does not wrap while count and reserve are within the limit.
LEMMA AvailableIs ==
  ASSUME NEW count \in Nat, NEW reserve \in Nat, count + reserve <= globalcountmax
  PROVE  Available(count, reserve) = (globalcountmax - count) - reserve
  BY MinusSmaller, CounterAssumption DEF Available, Minus

\* The value n after t's request, as integers: nothing wraps
After(t, n) == IF request[t].op = "add" THEN n + request[t].delta ELSE n - request[t].delta

\* A request adds or subtracts a positive amount.
LEMMA RequestIs ==
  \A r \in Requests : r.op \in {"add", "sub"} /\ r.delta \in Nat /\ r.delta > 0
<1> SUFFICES ASSUME NEW r \in Requests PROVE r.op \in {"add", "sub"} /\ r.delta \in Nat /\ r.delta > 0
  OBVIOUS
<1>1. r.op \in {"add", "sub"} /\ r.delta \in Deltas
  BY DEF Requests
<1>2. Deltas \subseteq Nat \ {0}
  BY CounterAssumption
<1>3. \A d \in Nat \ {0} : d \in Nat /\ d > 0
  OBVIOUS
<1> QED BY <1>1, <1>2, <1>3

\* There is a thread 0, where every scan begins.
LEMMA ZeroIn == 0 \in Threads
  BY NRThreadsAssumption DEF Threads

\* The test of the slow paths, on unsigned numbers: if it succeeds, the new count is within the
\* limit and has not wrapped; if it fails although nothing is reserved, the request would leave the
\* limits.
LEMMA FitsMeansRoom ==
  ASSUME NEW t, request[t] \in Requests,
         NEW count \in Nat, NEW reserve \in Nat, count + reserve <= globalcountmax
  PROVE  /\ Fits(t, count, reserve) =>
              /\ Moved(t, count) \in Nat
              /\ Moved(t, count) + reserve <= globalcountmax
              /\ Moved(t, count) = After(t, count)
         /\ ~ Fits(t, count, reserve) /\ reserve = 0 => After(t, count) \notin 0 .. globalcountmax
<1>1. request[t].op \in {"add", "sub"} /\ request[t].delta \in Nat
  BY CounterAssumption DEF Requests
<1>2. count >= request[t].delta => Minus(count, request[t].delta) = count - request[t].delta
  <2>1. count < WORD
    BY CounterAssumption
  <2> QED BY <1>1, <2>1, MinusSmaller DEF Minus
<1>3. globalcountmax \in Nat
  BY CounterAssumption
<1> QED BY <1>1, <1>2, <1>3, AvailableIs DEF Fits, Moved, After

\* An equal share of what is available may be reserved.
LEMMA SmallShare ==
  ASSUME NEW count \in Nat, NEW reserve \in Nat, count + reserve <= globalcountmax
  PROVE  LET a == Available(count, reserve) \div num_online_threads
         IN  a \in Nat /\ count + reserve + a <= globalcountmax
<1>1. globalcountmax \in Nat /\ num_online_threads \in Nat \ {0}
  BY CounterAssumption
<1>2. Available(count, reserve) \in Nat /\ Available(count, reserve) = (globalcountmax - count) - reserve
  BY <1>1, AvailableIs
<1> QED BY <1>1, <1>2, DivSmaller

-----------------------------------------------------------------------------
\* count_lim_sig.c

\* The locations of count_lim_sig.c at which gblcnt_mutex is held
SigHolds == {"flush_req", "flush_wait", "flush_resend", "recheck", "read", "read_done"}

\* Types of count_lim_sig.c's state
SigType ==
  /\ pc \in [Threads -> {"off", "idle", "check", "update", "uncount", "ack", "slow", "return"} \union SigHolds]
  /\ request \in [Threads -> Requests \union {NoRequest}]
  /\ ret \in [Threads -> {"none", "ok", "fail"}]
  /\ scan \in [Threads -> Threads]
  /\ theft \in [Threads -> {"IDLE", "REQ", "ACK", "READY"}]
  /\ counting \in [Threads -> BOOLEAN]
  /\ pending \in [Threads -> BOOLEAN]

\* The books of the counters that keep counter and countermax apart
Balanced == Books(globalcount, globalreserve, counter, countermax)

\* What t was asked, and whether it has answered, go with its location
SigCall(t) ==
  /\ IF pc[t] \in {"off", "idle", "read", "read_done"} THEN request[t] = NoRequest ELSE request[t] \in Requests
  /\ IF pc[t] = "return" THEN ret[t] # "none"
     ELSE IF pc[t] \in {"uncount", "ack"} THEN ret[t] # "fail"
     ELSE ret[t] = "none"

\* A thread between its test and its store has set counting, is not READY to be stolen from, and the
\* store will stay within countermax: this is what theft by signal has to preserve
SigOwner(t) ==
  /\ pc[t] = "off" => countermax[t] = 0
  /\ pc[t] \in {"check", "update", "uncount"} => counting[t]
  /\ pc[t] = "update" =>
       /\ theft[t] # "READY"
       /\ After(t, counter[t]) \in 0 .. countermax[t]

\* Who flushes holds the mutex; what its scan has passed has been stolen, and stays so because only
\* the holder hands out countermax
SigThief(t) ==
  /\ pc[t] \in SigHolds <=> gblcnt_mutex = t
  /\ pc[t] \in {"flush_wait", "flush_resend"} => \A s \in 0 .. scan[t] - 1 : countermax[s] = 0
  /\ pc[t] = "recheck" => \A s \in Threads : countermax[s] = 0

\* The inductive invariant of count_lim_sig.c
SigInv ==
  /\ SigType
  /\ Balanced
  /\ \A t \in Threads : SigCall(t) /\ SigOwner(t) /\ SigThief(t)

\* CountLimSig's copies of CounterBase's operators are those of Counters.
LEMMA SigBase ==
  /\ Sig!Threads = Threads /\ Sig!NoThread = NoThread /\ Sig!NoRequest = NoRequest /\ Sig!Requests = Requests
  /\ \A a, b : Sig!Minus(a, b) = Minus(a, b) /\ Sig!Available(a, b) = Available(a, b)
  /\ \A t, a, b : (Sig!Fits(t, a, b) <=> Fits(t, a, b)) /\ Sig!Moved(t, a) = Moved(t, a)
  BY DEF Threads, NoThread, NoRequest, Requests, Minus, Available, Fits, Moved, Sig!Threads, Sig!NoThread,
         Sig!NoRequest, Sig!Requests, Sig!Minus, Sig!Available, Sig!Fits, Sig!Moved

\* The fast path's test of a counter against its countermax, on unsigned numbers, means that there
\* is room.
LEMMA SigRoom ==
  ASSUME NEW t \in Threads, Balanced, request[t] \in Requests, Sig!HasRoom(t)
  PROVE  After(t, counter[t]) \in 0 .. countermax[t]
<1>1. request[t].op \in {"add", "sub"} /\ request[t].delta \in Nat
  BY CounterAssumption DEF Requests
<1>2. counter[t] \in Nat /\ countermax[t] \in Nat /\ counter[t] <= countermax[t] /\ countermax[t] < WORD
  <2>1. globalreserve \in Nat /\ countermax[t] <= globalreserve
    BY BooksBound DEF Balanced
  <2> QED BY <2>1, CounterAssumption DEF Balanced, Books
<1>3. Sig!Minus(countermax[t], counter[t]) = countermax[t] - counter[t]
  BY <1>2, MinusSmaller DEF Sig!Minus
<1> QED BY <1>1, <1>2, <1>3 DEF Sig!HasRoom, After

\* The steps of count_lim_sig.c that touch no counter keep the invariant.
LEMMA SigSimple ==
  ASSUME SigInv, NEW t \in Threads,
         \/ Sig!Register(t) \/ Sig!flush_local_count_sig(t) \/ Sig!FastCheck(t) \/ Sig!FastUncount(t)
         \/ Sig!FastAck(t) \/ Sig!FlushPoll(t) \/ Sig!FlushResend(t)
         \/ \E r \in Requests : Sig!Call(t, r)
         \/ Sig!Return(t)
         \/ Sig!ReadBegin(t) \/ Sig!ReadEnd(t)
  PROVE  SigInv'
<1> USE DEF SigInv, SigType, SigHolds, Sig!Goto, Sig!globals, Sig!locals
<1>1. CASE Sig!Register(t)
  <2>1. SigType' /\ Balanced'
    BY <1>1, SigBase DEF Sig!Register, Balanced
  <2>2. ASSUME NEW e \in Threads PROVE SigCall(e)' /\ SigOwner(e)' /\ SigThief(e)'
    BY <1>1, <2>2, SigBase DEF Sig!Register, SigCall, SigOwner, SigThief, After, NoThread, Threads
  <2> QED BY <2>1, <2>2
<1>2. CASE Sig!flush_local_count_sig(t)
  <2>1. SigType' /\ Balanced'
    BY <1>2, SigBase DEF Sig!flush_local_count_sig, Balanced
  <2>2. ASSUME NEW e \in Threads PROVE SigCall(e)' /\ SigOwner(e)' /\ SigThief(e)'
    BY <1>2, <2>2, SigBase DEF Sig!flush_local_count_sig, SigCall, SigOwner, SigThief, After
  <2> QED BY <2>1, <2>2
<1>3. CASE Sig!FastCheck(t)
  <2>1. SigType' /\ Balanced'
    BY <1>3, SigBase DEF Sig!FastCheck, Balanced
  <2>2. ASSUME NEW e \in Threads PROVE SigCall(e)' /\ SigThief(e)'
    BY <1>3, <2>2, SigBase DEF Sig!FastCheck, SigCall, SigThief
  <2>3. ASSUME NEW e \in Threads PROVE SigOwner(e)'
    BY <1>3, <2>3, SigBase, SigRoom DEF Sig!FastCheck, SigCall, SigOwner, Balanced, After
  <2> QED BY <2>1, <2>2, <2>3
<1>4. CASE Sig!FastUncount(t)
  <2>1. SigType' /\ Balanced'
    BY <1>4, SigBase DEF Sig!FastUncount, Balanced
  <2>2. ASSUME NEW e \in Threads PROVE SigCall(e)' /\ SigOwner(e)' /\ SigThief(e)'
    BY <1>4, <2>2, SigBase DEF Sig!FastUncount, SigCall, SigOwner, SigThief, After, Requests, NoRequest, NoThread, Threads
  <2> QED BY <2>1, <2>2
<1>5. CASE Sig!FastAck(t)
  <2>1. SigType' /\ Balanced'
    BY <1>5, SigBase DEF Sig!FastAck, Balanced
  <2>2. ASSUME NEW e \in Threads PROVE SigThief(e)'
    BY <1>5, <2>2, SigBase DEF Sig!FastAck, SigThief
  <2>3. ASSUME NEW e \in Threads PROVE SigCall(e)'
    <3>1. SigCall(e) /\ ret[e] \in {"none", "ok", "fail"}
      BY <2>3
    <3> QED BY <1>5, <3>1 DEF Sig!FastAck, SigCall
  <2>4. ASSUME NEW e \in Threads PROVE SigOwner(e)'
    BY <1>5, <2>4, SigBase DEF Sig!FastAck, SigOwner, After
  <2> QED BY <2>1, <2>2, <2>3, <2>4
<1>6. CASE Sig!FlushPoll(t)
  <2>1. SigType' /\ Balanced'
    BY <1>6, SigBase DEF Sig!FlushPoll, Balanced
  <2>2. ASSUME NEW e \in Threads PROVE SigCall(e)' /\ SigOwner(e)' /\ SigThief(e)'
    BY <1>6, <2>2, SigBase DEF Sig!FlushPoll, SigCall, SigOwner, SigThief, After, Requests, NoRequest, NoThread, Threads
  <2> QED BY <2>1, <2>2
<1>7. CASE Sig!FlushResend(t)
  <2>1. SigType' /\ Balanced'
    BY <1>7, SigBase DEF Sig!FlushResend, Balanced
  <2>2. ASSUME NEW e \in Threads PROVE SigCall(e)' /\ SigOwner(e)' /\ SigThief(e)'
    BY <1>7, <2>2, SigBase DEF Sig!FlushResend, SigCall, SigOwner, SigThief, After, Requests, NoRequest, NoThread, Threads
  <2> QED BY <2>1, <2>2
<1>8. CASE \E r \in Requests : Sig!Call(t, r)
  <2>1. SigType' /\ Balanced'
    BY <1>8, SigBase DEF Sig!Call, Balanced
  <2>2. ASSUME NEW e \in Threads PROVE SigCall(e)' /\ SigOwner(e)' /\ SigThief(e)'
    BY <1>8, <2>2, SigBase DEF Sig!Call, SigCall, SigOwner, SigThief, After, Requests, NoRequest, NoThread, Threads
  <2> QED BY <2>1, <2>2
<1>9. CASE Sig!Return(t)
  <2>1. SigType' /\ Balanced'
    BY <1>9, SigBase DEF Sig!Return, Balanced
  <2>2. ASSUME NEW e \in Threads PROVE SigCall(e)' /\ SigOwner(e)' /\ SigThief(e)'
    BY <1>9, <2>2, SigBase DEF Sig!Return, SigCall, SigOwner, SigThief, After, Requests, NoRequest, NoThread, Threads
  <2> QED BY <2>1, <2>2
<1>10. CASE Sig!ReadBegin(t)
  <2>1. SigType' /\ Balanced'
    BY <1>10, SigBase DEF Sig!ReadBegin, Balanced
  <2>2. ASSUME NEW e \in Threads PROVE SigCall(e)' /\ SigOwner(e)' /\ SigThief(e)'
    BY <1>10, <2>2, SigBase DEF Sig!ReadBegin, SigCall, SigOwner, SigThief, After, Requests, NoRequest, NoThread, Threads
  <2> QED BY <2>1, <2>2
<1>11. CASE Sig!ReadEnd(t)
  <2>1. SigType' /\ Balanced'
    BY <1>11, SigBase DEF Sig!ReadEnd, Balanced
  <2>2. ASSUME NEW e \in Threads PROVE SigCall(e)' /\ SigOwner(e)' /\ SigThief(e)'
    BY <1>11, <2>2, SigBase DEF Sig!ReadEnd, SigCall, SigOwner, SigThief, After, Requests, NoRequest, NoThread, Threads
  <2> QED BY <2>1, <2>2
<1> QED BY <1>1, <1>2, <1>3, <1>4, <1>5, <1>6, <1>7, <1>8, <1>9, <1>10, <1>11

\* What a step under gblcnt_mutex does to the books: t's count goes to the globals as new, which
\* takes the reserve along, and t gets n and cm of it back.
Settle(t, new, cm, n) ==
  /\ new \in Nat /\ cm \in Nat /\ n \in Nat /\ n <= cm /\ n <= new
  /\ new + (globalreserve - countermax[t]) + cm <= globalcountmax
  /\ globalcount' = new - n
  /\ globalreserve' = (globalreserve - countermax[t]) + cm
  /\ counter' = [counter EXCEPT ![t] = n]
  /\ countermax' = [countermax EXCEPT ![t] = cm]

\* Such a step keeps the books balanced and changes the value by what new differs from the count
\* taken back.
LEMMA SettleBooks ==
  ASSUME Balanced, NEW t \in Threads, NEW new, NEW cm, NEW n, Settle(t, new, cm, n)
  PROVE  /\ Balanced'
         /\ Value(globalcount, counter)' = Value(globalcount, counter) + new - (globalcount + counter[t])
<1> DEFINE c2 == [counter EXCEPT ![t] = n]
           m2 == [countermax EXCEPT ![t] = cm]
<1>1. /\ Books(new - n, (globalreserve - countermax[t]) + cm, c2, m2)
      /\ Value(new - n, c2) = Value(globalcount, counter) + new - (globalcount + counter[t])
  <2>1. Books(globalcount, globalreserve, counter, countermax)
    BY DEF Balanced
  <2>2. /\ new \in Nat /\ cm \in Nat /\ n \in Nat /\ n <= cm /\ n <= new
        /\ new + (globalreserve - countermax[t]) + cm <= globalcountmax
    BY DEF Settle
  <2> QED BY <2>1, <2>2, BooksSlow
<1>2. globalcount' = new - n /\ globalreserve' = (globalreserve - countermax[t]) + cm /\ counter' = c2 /\ countermax' = m2
  BY DEF Settle
<1> HIDE DEF c2, m2
<1> QED BY <1>1, <1>2 DEF Balanced, Books, Value

\* What taking t's count and reserve back gives: nothing wraps, and both are within the limit.
LEMMA TakenBack ==
  ASSUME Balanced, NEW t \in Threads
  PROVE  /\ globalcount \in Nat /\ counter[t] \in Nat /\ countermax[t] \in Nat /\ globalreserve \in Nat
         /\ counter[t] <= countermax[t] /\ countermax[t] <= globalreserve
         /\ globalreserve < WORD
         /\ globalcount + counter[t] \in Nat
         /\ globalreserve - countermax[t] \in Nat
         /\ Minus(globalreserve, countermax[t]) = globalreserve - countermax[t]
         /\ (globalcount + counter[t]) + (globalreserve - countermax[t]) <= globalcountmax
<1>1. globalreserve \in Nat /\ countermax[t] <= globalreserve
  BY BooksBound DEF Balanced
<1>2. /\ globalcount \in Nat /\ counter[t] \in Nat /\ countermax[t] \in Nat
      /\ counter[t] <= countermax[t] /\ globalcount + globalreserve <= globalcountmax
  BY DEF Balanced, Books
<1>3. globalreserve < WORD
  BY <1>1, <1>2, CounterAssumption
<1>4. Minus(globalreserve, countermax[t]) = globalreserve - countermax[t]
  BY <1>1, <1>2, <1>3, MinusSmaller DEF Minus
<1> QED BY <1>1, <1>2, <1>3, <1>4, CounterAssumption

\* The share that count_lim_sig.c hands out after a slow path is within what is available.
LEMMA SigShare ==
  ASSUME NEW count \in Nat, NEW reserve \in Nat, count + reserve <= globalcountmax
  PROVE  LET cm == Sig!Share(count, reserve)
             n == Sig!Min({cm \div 2, count})
         IN  /\ cm \in Nat /\ n \in Nat /\ n <= cm /\ n <= count
             /\ count + reserve + cm <= globalcountmax
<1> DEFINE a == Available(count, reserve) \div num_online_threads
           cm == Sig!Share(count, reserve)
           n == Sig!Min({cm \div 2, count})
<1>1. a \in Nat /\ count + reserve + a <= globalcountmax
  BY SmallShare
<1>2. cm = Min({a, MAX_COUNTERMAX})
  BY SigBase DEF Sig!Share, Min, Sig!Min
<1>3. cm \in Nat /\ cm <= a
  <2> HIDE DEF a
  <2> QED BY <1>1, <1>2, MinOfTwo, CounterAssumption
<1>4. n = Min({cm \div 2, count})
  BY DEF Min, Sig!Min
<1> HIDE DEF a, cm
<1>5. cm \div 2 \in Nat /\ cm \div 2 <= cm
  BY <1>3
<1>6. n \in Nat /\ n <= cm /\ n <= count
  BY <1>3, <1>4, <1>5, MinOfTwo
<1> QED BY <1>1, <1>3, <1>6, CounterAssumption DEF cm

\* Fits, then the update of the globals and the new share, is one settlement of the books.
LEMMA SigCommit ==
  ASSUME Balanced, NEW t \in Threads, request[t] \in Requests, NEW count, NEW reserve,
         count = globalcount + counter[t], reserve = globalreserve - countermax[t],
         Fits(t, count, reserve), Sig!Commit(t, count, reserve)
  PROVE  /\ \E cm, n : Settle(t, After(t, count), cm, n)
         /\ ret' = [ret EXCEPT ![t] = "ok"]
<1>1. count \in Nat /\ reserve \in Nat /\ count + reserve <= globalcountmax
  BY TakenBack
<1> DEFINE new == Moved(t, count)
           cm == Sig!Share(new, reserve)
           n == Sig!Min({cm \div 2, new})
<1>2. new \in Nat /\ new + reserve <= globalcountmax /\ new = After(t, count)
  BY <1>1, FitsMeansRoom
<1>3. cm \in Nat /\ n \in Nat /\ n <= cm /\ n <= new /\ new + reserve + cm <= globalcountmax
  <2> HIDE DEF new
  <2> QED BY <1>1, <1>2, SigShare
<1>4. /\ globalcount' = new - n /\ globalreserve' = reserve + cm
      /\ counter' = [counter EXCEPT ![t] = n] /\ countermax' = [countermax EXCEPT ![t] = cm]
      /\ ret' = [ret EXCEPT ![t] = "ok"]
  BY SigBase DEF Sig!Commit
<1> HIDE DEF new, cm, n
<1>5. Settle(t, new, cm, n)
  BY <1>2, <1>3, <1>4 DEF Settle
<1> QED BY <1>2, <1>4, <1>5

\* The fast path's store, which a thief must not interrupt: the value changes by delta, within the
\* limit.
LEMMA SigFastUpdate ==
  ASSUME SigInv, NEW t \in Threads, Sig!FastUpdate(t)
  PROVE  /\ SigInv'
         /\ request[t] \in Requests /\ ret[t] = "none"
         /\ UNCHANGED request /\ ret' = [ret EXCEPT ![t] = "ok"]
         /\ Value(globalcount, counter)' = After(t, Value(globalcount, counter))
<1> DEFINE n == After(t, counter[t])
<1>1. pc[t] = "update" /\ request[t] \in Requests /\ ret[t] = "none" /\ n \in 0 .. countermax[t]
  BY DEF Sig!FastUpdate, Sig!Goto, SigInv, SigCall, SigOwner
<1>2. request[t].op \in {"add", "sub"} /\ request[t].delta \in Nat
  BY <1>1, CounterAssumption DEF Requests
<1>3. counter[t] \in Nat /\ countermax[t] \in Nat /\ counter[t] < WORD
  <2>1. Balanced
    BY DEF SigInv
  <2>2. /\ counter[t] \in Nat /\ countermax[t] \in Nat /\ globalreserve \in Nat
        /\ counter[t] <= countermax[t] /\ countermax[t] <= globalreserve /\ globalreserve < WORD
    BY <2>1, TakenBack
  <2> QED BY <2>2, CounterAssumption
<1>4. n \in Nat /\ n <= countermax[t]
  BY <1>1, <1>3
<1>5. counter' = [counter EXCEPT ![t] = n]
  <2>1. request[t].op = "sub" => Sig!Minus(counter[t], request[t].delta) = counter[t] - request[t].delta
    <3>1. ASSUME request[t].op = "sub" PROVE request[t].delta <= counter[t]
      BY <1>2, <1>3, <1>4, <3>1 DEF After
    <3> QED BY <1>2, <1>3, <3>1, MinusSmaller DEF Sig!Minus
  <2> QED BY <1>2, <2>1 DEF Sig!FastUpdate, After
<1>6. /\ Books(globalcount, globalreserve, [counter EXCEPT ![t] = n], countermax)
      /\ Value(globalcount, [counter EXCEPT ![t] = n]) = Value(globalcount, counter) + n - counter[t]
  <2>1. Books(globalcount, globalreserve, counter, countermax)
    BY DEF SigInv, Balanced
  <2> HIDE DEF n
  <2> QED BY <1>4, <2>1, BooksFast
<1>7. UNCHANGED <<globalcount, globalreserve, gblcnt_mutex, countermax, theft, counting, pending, request, scan, sum>>
  BY DEF Sig!FastUpdate, Sig!globals
<1>8. Balanced'
  <2> HIDE DEF n
  <2> QED BY <1>5, <1>6, <1>7 DEF Balanced
<1>9. Value(globalcount, counter)' = After(t, Value(globalcount, counter))
  <2>1. Value(globalcount, counter)' = Value(globalcount, counter) + n - counter[t]
    <3> HIDE DEF n
    <3> QED BY <1>5, <1>6, <1>7 DEF Value
  <2>2. Value(globalcount, counter) \in Int
    BY BooksBound DEF SigInv, Balanced
  <2> QED BY <1>2, <1>3, <2>1, <2>2 DEF After
<1>10. ret' = [ret EXCEPT ![t] = "ok"] /\ pc' = [pc EXCEPT ![t] = "uncount"]
  BY DEF Sig!FastUpdate, Sig!Goto
<1>11. SigType'
  BY <1>7, <1>10 DEF SigInv, SigType
<1>12. ASSUME NEW e \in Threads PROVE SigCall(e)' /\ SigOwner(e)' /\ SigThief(e)'
  <2>1. SigCall(e) /\ SigOwner(e) /\ SigThief(e) /\ counter \in [Threads -> Nat]
    BY <1>12 DEF SigInv, Balanced, Books
  <2>2. SigCall(e)' /\ SigThief(e)'
    BY <1>1, <1>7, <1>10, <2>1 DEF SigInv, SigType, SigCall, SigThief, SigHolds
  <2>3. SigOwner(e)'
    <3> HIDE DEF n
    <3> QED BY <1>1, <1>5, <1>7, <1>10, <2>1 DEF SigInv, SigType, SigOwner, After
  <2> QED BY <2>2, <2>3
<1> QED BY <1>1, <1>7, <1>8, <1>9, <1>10, <1>11, <1>12 DEF SigInv

\* count_unregister_thread() gives count and reserve back; the value stays.
LEMMA SigUnregister ==
  ASSUME SigInv, NEW t \in Threads, Sig!Unregister(t)
  PROVE  SigInv' /\ UNCHANGED <<request, ret>> /\ Value(globalcount, counter)' = Value(globalcount, counter)
<1>1. /\ pc[t] = "idle" /\ pc' = [pc EXCEPT ![t] = "off"]
      /\ gblcnt_mutex = NoThread
      /\ UNCHANGED <<gblcnt_mutex, theft, counting, pending, request, ret, scan>>
  BY SigBase DEF Sig!Unregister, Sig!Goto, Sig!locals
<1>2. Settle(t, globalcount + counter[t], 0, 0)
  <2>1. Sig!Minus(globalreserve, countermax[t]) = globalreserve - countermax[t]
    BY TakenBack, SigBase DEF SigInv
  <2> QED BY <2>1, TakenBack DEF Sig!Unregister, Settle, SigInv
<1>3. Balanced' /\ Value(globalcount, counter)' = Value(globalcount, counter)
  <2>1. Value(globalcount, counter) \in Int /\ globalcount + counter[t] \in Int
    BY TakenBack, BooksBound DEF SigInv, Balanced
  <2> QED BY <1>2, <2>1, SettleBooks DEF SigInv
<1>4. SigType'
  BY <1>1 DEF SigInv, SigType
<1>5. ASSUME NEW e \in Threads PROVE SigCall(e)' /\ SigOwner(e)' /\ SigThief(e)'
  <2>1. SigCall(e) /\ SigOwner(e) /\ SigThief(e)
    BY <1>5 DEF SigInv
  <2>2. counter' = [counter EXCEPT ![t] = 0] /\ countermax' = [countermax EXCEPT ![t] = 0] /\ countermax \in [Threads -> Nat] /\ counter \in [Threads -> Nat]
    BY <1>2 DEF Settle, SigInv, Balanced, Books
  <2>3. SigCall(e)' /\ SigOwner(e)'
    BY <1>1, <2>1, <2>2 DEF SigCall, SigOwner, After, SigInv, SigType
  <2>4. SigThief(e)'
    BY <1>1, <2>1, <2>2 DEF SigThief, SigHolds, NoThread, Threads, SigInv, SigType
  <2> QED BY <2>3, <2>4
<1> QED BY <1>1, <1>3, <1>4, <1>5 DEF SigInv

\* The slow path up to flush_local_count(): either it commits, or it begins to flush, having given
\* its own share back.
LEMMA SigSlowPath ==
  ASSUME SigInv, NEW t \in Threads, Sig!SlowPath(t)
  PROVE  /\ SigInv'
         /\ request[t] \in Requests /\ ret[t] = "none" /\ UNCHANGED request
         /\ \/ /\ ret' = [ret EXCEPT ![t] = "ok"]
               /\ Value(globalcount, counter)' = After(t, Value(globalcount, counter))
            \/ ret' = ret /\ Value(globalcount, counter)' = Value(globalcount, counter)
<1> DEFINE count == globalcount + counter[t]
           reserve == globalreserve - countermax[t]
           v == Value(globalcount, counter)
<1>1. /\ pc[t] = "slow" /\ gblcnt_mutex = NoThread
      /\ UNCHANGED <<theft, counting, pending, request>>
  BY SigBase DEF Sig!SlowPath, Sig!Goto
<1>2. Balanced /\ SigType /\ v \in Int /\ count \in Int /\ reserve \in Int /\ request[t] \in Requests /\ ret[t] = "none"
  BY <1>1, TakenBack, BooksBound DEF SigInv, Balanced, SigCall
<1>3. Sig!Minus(globalreserve, countermax[t]) = reserve
  BY <1>2, TakenBack, SigBase
<1>4. request[t].delta \in Int
  BY <1>2, RequestIs
<1>5. CASE Fits(t, count, reserve)
  <2>1. pc' = [pc EXCEPT ![t] = "return"] /\ UNCHANGED <<gblcnt_mutex, scan>> /\ Sig!Commit(t, count, reserve)
    BY <1>3, <1>5, SigBase DEF Sig!SlowPath, Sig!Goto
  <2>2. (\E cm, n : Settle(t, After(t, count), cm, n)) /\ ret' = [ret EXCEPT ![t] = "ok"]
    BY <1>2, <1>5, <2>1, SigCommit
  <2>3. PICK cm, n : Settle(t, After(t, count), cm, n)
    BY <2>2
  <2>4. Balanced' /\ v' = v + After(t, count) - count
    BY <1>2, <2>3, SettleBooks
  <2>5. v' = After(t, v)
    BY <1>2, <1>4, <2>4 DEF After
  <2>6. SigType'
    BY <1>1, <1>2, <2>1, <2>2 DEF SigType
  <2>7. counter' = [counter EXCEPT ![t] = n] /\ countermax' = [countermax EXCEPT ![t] = cm]
    BY <2>3 DEF Settle
  <2>8. ASSUME NEW e \in Threads PROVE SigCall(e)' /\ SigOwner(e)' /\ SigThief(e)'
    <3>1. SigCall(e) /\ SigOwner(e) /\ SigThief(e)
      BY <2>8 DEF SigInv
    <3>2. SigCall(e)'
      BY <1>1, <1>2, <2>1, <2>2, <3>1 DEF SigType, SigCall
    <3>3. SigOwner(e)'
      BY <1>1, <1>2, <2>1, <2>7, <3>1 DEF SigType, SigOwner, After, Balanced, Books
    <3>4. SigThief(e)'
      BY <1>1, <1>2, <2>1, <3>1 DEF SigType, SigThief, SigHolds, NoThread, Threads
    <3> QED BY <3>2, <3>3, <3>4
  <2> QED BY <1>1, <1>2, <2>2, <2>4, <2>5, <2>6, <2>8 DEF SigInv
<1>6. CASE ~ Fits(t, count, reserve)
  <2>1. /\ pc' = [pc EXCEPT ![t] = "flush_req"] /\ gblcnt_mutex' = t /\ ret' = ret
        /\ scan' = [scan EXCEPT ![t] = 0]
        /\ globalcount' = count /\ globalreserve' = reserve
        /\ counter' = [counter EXCEPT ![t] = 0] /\ countermax' = [countermax EXCEPT ![t] = 0]
    BY <1>3, <1>6, SigBase DEF Sig!SlowPath, Sig!Goto
  <2>2. Settle(t, count, 0, 0)
    BY <1>2, <2>1, TakenBack DEF Settle
  <2>3. Balanced' /\ v' = v
    BY <1>2, <2>2, SettleBooks
  <2>4. SigType'
    BY <1>1, <1>2, <2>1, ZeroIn DEF SigType, SigHolds
  <2>5. ASSUME NEW e \in Threads PROVE SigCall(e)' /\ SigOwner(e)' /\ SigThief(e)'
    <3>1. SigCall(e) /\ SigOwner(e) /\ SigThief(e)
      BY <2>5 DEF SigInv
    <3>2. SigCall(e)'
      BY <1>1, <1>2, <2>1, <3>1 DEF SigType, SigCall
    <3>3. SigOwner(e)'
      BY <1>1, <1>2, <2>1, <3>1 DEF SigType, SigOwner, After, Balanced, Books
    <3>4. SigThief(e)'
      BY <1>1, <1>2, <2>1, <3>1 DEF SigType, SigThief, SigHolds, NoThread, Threads
    <3> QED BY <3>2, <3>3, <3>4
  <2> QED BY <1>1, <1>2, <2>1, <2>3, <2>4, <2>5 DEF SigInv
<1> QED BY <1>5, <1>6

\* A scan of the threads goes to the next one, or is at its end after the last one.
LEMMA SigAdvance ==
  ASSUME SigType, NEW u \in Threads, NEW at, NEW next, Sig!Advance(u, at, next)
  PROVE  /\ scan' \in [Threads -> Threads]
         /\ \/ pc' = [pc EXCEPT ![u] = at] /\ scan' = [scan EXCEPT ![u] = scan[u] + 1]
            \/ pc' = [pc EXCEPT ![u] = next] /\ scan' = [scan EXCEPT ![u] = 0] /\ scan[u] = NR_THREADS - 1
<1>1. CASE scan[u] + 1 < NR_THREADS
  <2>1. scan[u] + 1 \in Threads
    <3>1. scan[u] \in 0 .. NR_THREADS - 1 /\ NR_THREADS \in Nat
      BY NRThreadsAssumption DEF SigType, Threads
    <3> QED BY <1>1, <3>1 DEF Threads
  <2> QED BY <1>1, <2>1 DEF SigType, Sig!Advance
<1>2. CASE ~ (scan[u] + 1 < NR_THREADS)
  <2>1. scan[u] = NR_THREADS - 1
    <3>1. scan[u] \in 0 .. NR_THREADS - 1 /\ NR_THREADS \in Nat
      BY NRThreadsAssumption DEF SigType, Threads
    <3> QED BY <1>2, <3>1
  <2> QED BY <1>2, <2>1, ZeroIn DEF SigType, Sig!Advance
<1> QED BY <1>1, <1>2

\* flush_local_count() asks a thread for its count by a signal, or finds nothing to steal from it.
LEMMA SigFlushRequest ==
  ASSUME SigInv, NEW u \in Threads, Sig!FlushRequest(u)
  PROVE  SigInv' /\ UNCHANGED <<request, ret, globalcount, counter>>
<1> DEFINE t == scan[u]
<1>1. SigType /\ t \in Threads
  BY DEF SigInv, SigType
<1>2. /\ pc[u] = "flush_req" /\ Sig!Advance(u, "flush_req", "flush_wait")
      /\ UNCHANGED <<globalcount, globalreserve, gblcnt_mutex, counter, countermax, counting, request, ret>>
  BY DEF Sig!FlushRequest, Sig!globals
<1>3. \/ UNCHANGED <<theft, pending>>
      \/ /\ countermax[t] = 0 /\ theft' = [theft EXCEPT ![t] = "READY"] /\ UNCHANGED pending
      \/ /\ theft' = [theft EXCEPT ![t] = "REQ"] /\ pending' = [pending EXCEPT ![t] = TRUE]
  BY DEF Sig!FlushRequest
<1>4. /\ scan' \in [Threads -> Threads]
      /\ \/ pc' = [pc EXCEPT ![u] = "flush_req"]
         \/ pc' = [pc EXCEPT ![u] = "flush_wait"] /\ scan' = [scan EXCEPT ![u] = 0]
      /\ \A e \in Threads : e # u => scan'[e] = scan[e]
  BY <1>1, <1>2, SigAdvance DEF SigType
<1> HIDE DEF t
<1>5. SigType' /\ Balanced'
  <2>1. Balanced'
    BY <1>2 DEF SigInv, Balanced
  <2>2. pc' \in [Threads -> {"off", "idle", "check", "update", "uncount", "ack", "slow", "return"} \union SigHolds]
    BY <1>1, <1>4 DEF SigType, SigHolds
  <2> QED BY <1>1, <1>2, <1>3, <1>4, <2>1, <2>2 DEF SigType
<1>6. ASSUME NEW e \in Threads PROVE SigCall(e)' /\ SigOwner(e)' /\ SigThief(e)'
  <2>1. SigCall(e) /\ SigOwner(e) /\ SigThief(e)
    BY <1>6 DEF SigInv
  <2>2. SigCall(e)'
    BY <1>1, <1>2, <1>4, <2>1 DEF SigType, SigCall
  <2>3. pc[e] = "update" => countermax[e] # 0
    <3> SUFFICES ASSUME pc[e] = "update" PROVE countermax[e] # 0
      OBVIOUS
    <3>1. request[e].op \in {"add", "sub"} /\ request[e].delta \in Nat /\ request[e].delta > 0
      BY <2>1, RequestIs DEF SigCall
    <3>2. counter[e] \in Nat /\ counter[e] <= countermax[e] /\ After(e, counter[e]) \in 0 .. countermax[e]
      BY <2>1 DEF SigOwner, SigInv, Balanced, Books
    <3> QED BY <3>1, <3>2 DEF After
  <2>4. SigOwner(e)'
    BY <1>1, <1>2, <1>3, <1>4, <2>1, <2>3 DEF SigType, SigOwner, After
  <2>5. SigThief(e)'
    BY <1>1, <1>2, <1>4, <2>1 DEF SigType, SigThief, SigHolds
  <2> QED BY <2>2, <2>4, <2>5
<1> QED BY <1>2, <1>5, <1>6 DEF SigInv

\* Threads are numbered without gaps.
LEMMA Below == \A n \in Threads : \A s \in 0 .. n - 1 : s \in Threads
  BY NRThreadsAssumption DEF Threads

\* The theft: a thread that is READY is not between its test and its store, so that taking its count
\* and its reserve keeps the books balanced and the value the same.
LEMMA SigFlushSteal ==
  ASSUME SigInv, NEW u \in Threads, Sig!FlushSteal(u)
  PROVE  /\ SigInv' /\ UNCHANGED <<request, ret>>
         /\ Value(globalcount, counter)' = Value(globalcount, counter)
<1> DEFINE t == scan[u]
           v == Value(globalcount, counter)
<1>1. SigType /\ Balanced /\ t \in Threads
  BY DEF SigInv, SigType
<1>2. /\ pc[u] = "flush_wait" /\ Sig!Advance(u, "flush_wait", "recheck")
      /\ UNCHANGED <<gblcnt_mutex, counting, pending, request, ret>>
  BY DEF Sig!FlushSteal
<1>3. /\ Balanced' /\ v' = v
      /\ theft' \in [Threads -> {"IDLE", "REQ", "ACK", "READY"}]
      /\ countermax'[t] = 0
      /\ \A e \in Threads : pc[e] = "update" => theft'[e] = theft[e] /\ counter'[e] = counter[e] /\ countermax'[e] = countermax[e]
      /\ \A e \in Threads : countermax[e] = 0 => countermax'[e] = 0
  <2>1. CASE pc[t] = "off"
    <3>1. UNCHANGED <<globalcount, globalreserve, counter, countermax, theft>>
      BY <2>1 DEF Sig!FlushSteal, Sig!Registered
    <3>2. countermax[t] = 0
      BY <1>1, <2>1 DEF SigInv, SigOwner
    <3> QED BY <1>1, <3>1, <3>2 DEF Balanced, Value, SigType
  <2>2. CASE pc[t] # "off"
    <3>1. /\ theft[t] = "READY"
          /\ theft' = [theft EXCEPT ![t] = "IDLE"]
          /\ globalcount' = globalcount + counter[t]
          /\ globalreserve' = Sig!Minus(globalreserve, countermax[t])
          /\ counter' = [counter EXCEPT ![t] = 0] /\ countermax' = [countermax EXCEPT ![t] = 0]
      BY <2>2 DEF Sig!FlushSteal, Sig!Registered
    <3>2. Settle(t, globalcount + counter[t], 0, 0)
      <4>1. Sig!Minus(globalreserve, countermax[t]) = globalreserve - countermax[t]
        BY <1>1, TakenBack, SigBase
      <4> HIDE DEF t
      <4> QED BY <1>1, <3>1, <4>1, TakenBack DEF Settle
    <3>3. v \in Int /\ globalcount + counter[t] \in Int
      BY <1>1, TakenBack, BooksBound DEF Balanced
    <3>4. Balanced' /\ v' = v
      <4> HIDE DEF t
      <4> QED BY <1>1, <3>2, <3>3, SettleBooks
    <3>5. \A e \in Threads : pc[e] = "update" => e # t
      BY <3>1 DEF SigInv, SigOwner
    <3> HIDE DEF t, v
    <3>6. countermax \in [Threads -> Nat] /\ counter \in [Threads -> Nat]
      BY <1>1 DEF Balanced, Books
    <3> QED BY <1>1, <3>1, <3>4, <3>5, <3>6 DEF SigType
  <2> QED BY <2>1, <2>2
<1>4. /\ scan' \in [Threads -> Threads]
      /\ \/ pc' = [pc EXCEPT ![u] = "flush_wait"] /\ scan' = [scan EXCEPT ![u] = t + 1]
         \/ pc' = [pc EXCEPT ![u] = "recheck"] /\ t = NR_THREADS - 1
      /\ \A e \in Threads : e # u => scan'[e] = scan[e]
  BY <1>1, <1>2, SigAdvance DEF SigType
<1>5. pc' \in [Threads -> {"off", "idle", "check", "update", "uncount", "ack", "slow", "return"} \union SigHolds]
  BY <1>1, <1>4 DEF SigType, SigHolds
<1>6. SigType'
  BY <1>1, <1>2, <1>3, <1>4, <1>5 DEF SigType
<1>7. ASSUME NEW e \in Threads PROVE SigCall(e)' /\ SigOwner(e)' /\ SigThief(e)'
  <2>1. SigCall(e) /\ SigOwner(e) /\ SigThief(e) /\ SigThief(u)
    BY <1>7 DEF SigInv
  <2>2. SigCall(e)'
    BY <1>1, <1>2, <1>4, <2>1 DEF SigType, SigCall
  <2>3. SigOwner(e)'
    BY <1>1, <1>2, <1>3, <1>4, <2>1 DEF SigType, SigOwner, After
  <2>4. \A s \in 0 .. t - 1 : s \in Threads /\ countermax[s] = 0
    <3>1. \A s \in 0 .. t - 1 : countermax[s] = 0
      BY <1>2, <2>1 DEF SigThief
    <3> HIDE DEF t
    <3>2. \A s \in 0 .. t - 1 : s \in Threads
      BY <1>1, Below
    <3> QED BY <3>1, <3>2
  <2>5. \A s \in 0 .. t : s \in Threads /\ countermax'[s] = 0
    <3> HIDE DEF t
    <3>1. ASSUME NEW s \in 0 .. t PROVE s \in 0 .. t - 1 \/ s = t
      BY <1>1, <3>1 DEF Threads
    <3> QED BY <1>1, <1>3, <2>4, <3>1
  <2>6. ASSUME e = u PROVE SigThief(e)'
    <3>1. (pc[u] \in SigHolds <=> gblcnt_mutex = u)' 
      BY <1>1, <1>2, <1>4, <2>1, <2>6 DEF SigType, SigThief, SigHolds
    <3>2. CASE pc' = [pc EXCEPT ![u] = "flush_wait"] /\ scan' = [scan EXCEPT ![u] = t + 1]
      <4>1. scan'[u] = t + 1 /\ pc'[u] = "flush_wait" /\ (t + 1) - 1 = t
        BY <1>1, <3>2 DEF SigType, Threads
      <4> QED BY <2>5, <2>6, <3>1, <4>1 DEF SigThief
    <3>3. CASE pc' = [pc EXCEPT ![u] = "recheck"] /\ t = NR_THREADS - 1
      <4>1. pc'[u] = "recheck"
        BY <1>1, <3>3 DEF SigType
      <4>2. \A s \in Threads : countermax'[s] = 0
        BY <2>5, <3>3 DEF Threads
      <4> QED BY <2>6, <3>1, <4>1, <4>2 DEF SigThief
    <3> QED BY <1>4, <3>2, <3>3
  <2>7. ASSUME e # u PROVE SigThief(e)'
    <3>1. pc'[e] = pc[e] /\ scan'[e] = scan[e] /\ scan[e] \in Threads
      BY <1>1, <1>4, <2>7 DEF SigType
    <3> HIDE DEF t
    <3>2. \A s \in 0 .. scan[e] - 1 : s \in Threads
      BY <3>1, Below
    <3> QED BY <1>2, <1>3, <2>1, <3>1, <3>2 DEF SigThief
  <2> QED BY <2>2, <2>3, <2>6, <2>7
<1> QED BY <1>2, <1>3, <1>6, <1>7 DEF SigInv

\* When nobody has a countermax, the reserve is zero and globalcount is the value.
LEMMA EmptyBooks ==
  ASSUME Balanced, \A s \in Threads : countermax[s] = 0
  PROVE  globalreserve = 0 /\ Value(globalcount, counter) = globalcount /\ \A s \in Threads : counter[s] = 0
<1>1. \A s \in Threads : counter[s] = 0
  BY DEF Balanced, Books
<1>2. Sum(counter, Threads) = 0 /\ Sum(countermax, Threads) = 0
  BY <1>1, ThreadsFinite, SumZero
<1> QED BY <1>1, <1>2 DEF Balanced, Books, Value

\* After the flush the slow path tests again, now against the whole value: it fails only when the
\* limit is in the way.
LEMMA SigRecheck ==
  ASSUME SigInv, NEW t \in Threads, Sig!Recheck(t)
  PROVE  /\ SigInv'
         /\ request[t] \in Requests /\ ret[t] = "none" /\ UNCHANGED request
         /\ \/ /\ ret' = [ret EXCEPT ![t] = "ok"]
               /\ Value(globalcount, counter)' = After(t, Value(globalcount, counter))
            \/ /\ ret' = [ret EXCEPT ![t] = "fail"]
               /\ Value(globalcount, counter)' = Value(globalcount, counter)
               /\ After(t, Value(globalcount, counter)) \notin 0 .. globalcountmax
<1> DEFINE v == Value(globalcount, counter)
<1>1. /\ pc[t] = "recheck" /\ pc' = [pc EXCEPT ![t] = "return"]
      /\ gblcnt_mutex' = NoThread /\ UNCHANGED <<theft, counting, pending, request, scan>>
  BY SigBase DEF Sig!Recheck, Sig!Goto
<1>2. Balanced /\ SigType /\ request[t] \in Requests /\ ret[t] = "none" /\ \A s \in Threads : countermax[s] = 0
  BY <1>1 DEF SigInv, SigCall, SigThief
<1>3. globalreserve = 0 /\ v = globalcount /\ counter[t] = 0 /\ countermax[t] = 0
  BY <1>2, EmptyBooks
<1>4. globalcount \in Nat /\ globalcount + globalreserve <= globalcountmax
  BY <1>2 DEF Balanced, Books
<1>5. request[t].delta \in Int
  BY <1>2, RequestIs
<1>6. gblcnt_mutex = t
  BY <1>1 DEF SigInv, SigThief, SigHolds
<1> HIDE DEF v
<1>7. CASE Fits(t, globalcount, globalreserve)
  <2>1. Sig!Commit(t, globalcount, globalreserve)
    BY <1>7, SigBase DEF Sig!Recheck
  <2>2. globalcount = globalcount + counter[t] /\ globalreserve = globalreserve - countermax[t]
    BY <1>3, <1>4
  <2>3. (\E cm, n : Settle(t, After(t, globalcount), cm, n)) /\ ret' = [ret EXCEPT ![t] = "ok"]
    BY <1>2, <1>7, <2>1, <2>2, SigCommit
  <2>4. PICK cm, n : Settle(t, After(t, globalcount), cm, n)
    BY <2>3
  <2>5. Balanced' /\ v' = v + After(t, globalcount) - (globalcount + counter[t])
    BY <1>2, <2>4, SettleBooks DEF v
  <2>6. v' = After(t, v)
    BY <1>3, <1>4, <1>5, <2>5 DEF After
  <2>7. SigType'
    BY <1>1, <1>2, <2>3 DEF SigType
  <2>8. counter' = [counter EXCEPT ![t] = n] /\ countermax' = [countermax EXCEPT ![t] = cm]
    BY <2>4 DEF Settle
  <2>9. ASSUME NEW e \in Threads PROVE SigCall(e)' /\ SigOwner(e)' /\ SigThief(e)'
    <3>1. SigCall(e) /\ SigOwner(e) /\ SigThief(e)
      BY <2>9 DEF SigInv
    <3>2. SigCall(e)'
      BY <1>1, <1>2, <2>3, <3>1 DEF SigType, SigCall
    <3>3. SigOwner(e)'
      BY <1>1, <1>2, <2>8, <3>1 DEF SigType, SigOwner, After, Balanced, Books
    <3>4. SigThief(e)'
      BY <1>1, <1>2, <1>6, <3>1 DEF SigType, SigThief, SigHolds, NoThread, Threads
    <3> QED BY <3>2, <3>3, <3>4
  <2> QED BY <1>1, <1>2, <2>3, <2>5, <2>6, <2>7, <2>9 DEF SigInv, v
<1>8. CASE ~ Fits(t, globalcount, globalreserve)
  <2>1. ret' = [ret EXCEPT ![t] = "fail"] /\ UNCHANGED <<globalcount, globalreserve, counter, countermax>>
    BY <1>8, SigBase DEF Sig!Recheck
  <2>2. After(t, v) \notin 0 .. globalcountmax
    BY <1>2, <1>3, <1>4, <1>8, FitsMeansRoom
  <2>3. SigType' /\ Balanced' /\ v' = v
    BY <1>1, <1>2, <2>1 DEF SigType, Balanced, v, Value
  <2>4. ASSUME NEW e \in Threads PROVE SigCall(e)' /\ SigOwner(e)' /\ SigThief(e)'
    <3>1. SigCall(e) /\ SigOwner(e) /\ SigThief(e)
      BY <2>4 DEF SigInv
    <3>2. SigCall(e)'
      BY <1>1, <1>2, <2>1, <3>1 DEF SigType, SigCall
    <3>3. SigOwner(e)'
      BY <1>1, <1>2, <2>1, <3>1 DEF SigType, SigOwner, After
    <3>4. SigThief(e)'
      BY <1>1, <1>2, <1>6, <3>1 DEF SigType, SigThief, SigHolds, NoThread, Threads
    <3> QED BY <3>2, <3>3, <3>4
  <2> QED BY <1>1, <1>2, <2>1, <2>2, <2>3, <2>4 DEF SigInv, v
<1> QED BY <1>7, <1>8

\* read_count() goes on to the next thread.
LEMMA SigReadNext ==
  ASSUME SigInv, NEW t \in Threads, Sig!ReadNext(t)
  PROVE  SigInv'
<1>1. /\ pc[t] = "read" /\ Sig!Advance(t, "read", "read_done")
      /\ UNCHANGED <<globalcount, globalreserve, gblcnt_mutex, counter, countermax, theft, counting, pending, request, ret>>
  BY DEF Sig!ReadNext, Sig!globals
<1>2. SigType /\ Balanced
  BY DEF SigInv
<1>3. /\ scan' \in [Threads -> Threads]
      /\ \/ pc' = [pc EXCEPT ![t] = "read"]
         \/ pc' = [pc EXCEPT ![t] = "read_done"]
      /\ \A e \in Threads : e # t => scan'[e] = scan[e]
  BY <1>1, <1>2, SigAdvance DEF SigType
<1>4. SigType' /\ Balanced'
  BY <1>1, <1>2, <1>3 DEF SigType, Balanced, SigHolds
<1>5. ASSUME NEW e \in Threads PROVE SigCall(e)' /\ SigOwner(e)' /\ SigThief(e)'
  BY <1>1, <1>2, <1>3, <1>5 DEF SigInv, SigType, SigCall, SigOwner, SigThief, SigHolds, After
<1> QED BY <1>4, <1>5 DEF SigInv

-----------------------------------------------------------------------------
\* The total that LimitCounter is about is the value of the books.
LEMMA SigTotal == impl = "count_lim_sig" => Total = Value(globalcount, counter)
<1>1. Sig!MapThenSumSet(LAMBDA t : counter[t], Threads) = Sum(counter, Threads)
  BY DEF Sum, MapThenSumSet, MapThenFoldSet, Sig!MapThenSumSet, Sig!MapThenFoldSet
<1>2. Sig!Total = globalcount + Sig!MapThenSumSet(LAMBDA t : counter[t], Threads)
  BY SigBase DEF Sig!Total
<1> HIDE DEF Sum
<1>3. Sig!Total = Value(globalcount, counter)
  BY <1>1, <1>2 DEF Value
<1> QED BY <1>3 DEF Total, Approximate

\* The property of CountLimSig is about the same sums.
LEMMA SigReserve == Sig!ReserveCoversCountermax <=>
  /\ globalreserve = Sum(countermax, Threads)
  /\ globalcount + globalreserve <= globalcountmax
  /\ \A t \in Threads : counter[t] <= countermax[t]
<1>1. Sig!MapThenSumSet(LAMBDA t : countermax[t], Threads) = Sum(countermax, Threads)
  BY DEF Sum, MapThenSumSet, MapThenFoldSet, Sig!MapThenSumSet, Sig!MapThenFoldSet
<1> QED BY <1>1, SigBase DEF Sig!ReserveCoversCountermax

\* What one step of a limit counter does to the count and to t's call.
Promised(t) ==
  \/ Total' = Total /\ UNCHANGED <<request, ret>>
  \/ \E r \in Requests :
       /\ request[t] = NoRequest
       /\ request' = [request EXCEPT ![t] = r] /\ ret' = ret
       /\ Total' = Total
  \/ /\ request[t] \in Requests /\ ret[t] = "none"
     /\ request' = request /\ ret' = [ret EXCEPT ![t] = "ok"]
     /\ Total' = After(t, Total)
  \/ /\ request[t] \in Requests /\ ret[t] = "none"
     /\ request' = request /\ ret' = [ret EXCEPT ![t] = "fail"]
     /\ Total' = Total
     /\ impl \in Exact => After(t, Total) \notin 0 .. globalcountmax
  \/ /\ ret[t] # "none"
     /\ request' = [request EXCEPT ![t] = NoRequest] /\ ret' = [ret EXCEPT ![t] = "none"]
     /\ Total' = Total

\* Each of these is a step of LimitCounter, or a stutter.
LEMMA PromisedIsStep ==
  ASSUME NEW t \in Threads, impl' = impl, Total' \in 0 .. globalcountmax, Promised(t)
  PROVE  [LC!Next]_(LC!lcvars)
<1>1. NoRequest \notin Requests /\ LC!NoRequest = NoRequest /\ LC!Requests = Requests
  BY DEF NoRequest, Requests, LC!NoRequest, LC!Requests
<1>2. LC!Target(t) = After(t, Total)
  BY DEF LC!Target, After
<1>3. (impl \in Exact)' = (impl \in Exact)
  OBVIOUS
<1>4. CASE Total' = Total /\ UNCHANGED <<request, ret>>
  BY <1>3, <1>4 DEF LC!lcvars
<1>5. ASSUME NEW r \in Requests, request[t] = NoRequest, request' = [request EXCEPT ![t] = r], ret' = ret, Total' = Total
      PROVE  LC!Call(t, r)
  BY <1>1, <1>3, <1>5 DEF LC!Call
<1>6. CASE /\ request[t] \in Requests /\ ret[t] = "none"
           /\ request' = request /\ ret' = [ret EXCEPT ![t] = "ok"]
           /\ Total' = After(t, Total)
  <2>1. LC!Succeed(t)
    BY <1>1, <1>2, <1>3, <1>6 DEF LC!Succeed, LC!InRange
  <2> QED BY <2>1 DEF LC!Next
<1>7. CASE /\ request[t] \in Requests /\ ret[t] = "none"
           /\ request' = request /\ ret' = [ret EXCEPT ![t] = "fail"]
           /\ Total' = Total
           /\ impl \in Exact => After(t, Total) \notin 0 .. globalcountmax
  <2>1. LC!Fail(t)
    BY <1>1, <1>2, <1>3, <1>7 DEF LC!Fail, LC!InRange
  <2> QED BY <2>1 DEF LC!Next
<1>8. CASE /\ ret[t] # "none"
           /\ request' = [request EXCEPT ![t] = NoRequest] /\ ret' = [ret EXCEPT ![t] = "none"]
           /\ Total' = Total
  <2>1. LC!Return(t)
    BY <1>1, <1>3, <1>8 DEF LC!Return
  <2> QED BY <2>1 DEF LC!Next
<1> QED BY <1>1, <1>4, <1>5, <1>6, <1>7, <1>8 DEF Promised, LC!Next

\* Every step of count_lim_sig.c keeps its invariant and is a step of LimitCounter.
LEMMA SigStep ==
  ASSUME SigInv, SigNext
  PROVE  /\ SigInv' /\ impl' = impl
         /\ [LC!Next]_(LC!lcvars)
<1>1. impl = "count_lim_sig" /\ impl' = impl
  BY DEF SigNext, SigOnly
<1>2. Total = Value(globalcount, counter)
  BY <1>1, SigTotal
<1>3. Total' = Value(globalcount, counter)'
  <2>1. (impl = "count_lim_sig" => Total = Value(globalcount, counter))'
    BY SigTotal, PTL
  <2> QED BY <1>1, <2>1
<1>4. SigInv' => Total' \in 0 .. globalcountmax
  <2>1. Balanced => Value(globalcount, counter) \in 0 .. globalcountmax
    BY BooksBound DEF Balanced
  <2>2. (Balanced => Value(globalcount, counter) \in 0 .. globalcountmax)'
    BY BooksBound DEF Balanced
  <2> QED BY <1>3, <2>2 DEF SigInv
<1>5. PICK t \in Threads :
        \/ Sig!Register(t) \/ Sig!Unregister(t)
        \/ Sig!flush_local_count_sig(t)
        \/ \E r \in Requests : Sig!Call(t, r)
        \/ Sig!FastPath(t) \/ Sig!SlowPath(t) \/ Sig!Flush(t) \/ Sig!Recheck(t) \/ Sig!Return(t)
        \/ Sig!ReadBegin(t) \/ Sig!ReadSteps(t)
  BY SigBase DEF SigNext, Sig!Next
<1> SUFFICES SigInv' /\ Promised(t)
  BY <1>1, <1>4, PromisedIsStep
<1>6. UNCHANGED <<globalcount, counter>> => Total' = Total
  BY <1>2, <1>3 DEF Value
<1> HIDE DEF Total
<1>7. CASE \/ Sig!Register(t) \/ Sig!flush_local_count_sig(t) \/ Sig!FastCheck(t) \/ Sig!FastUncount(t)
           \/ Sig!FastAck(t) \/ Sig!FlushPoll(t) \/ Sig!FlushResend(t) \/ Sig!ReadBegin(t) \/ Sig!ReadEnd(t)
  <2>1. UNCHANGED <<globalcount, counter, request, ret>>
    BY <1>7 DEF Sig!Register, Sig!flush_local_count_sig, Sig!FastCheck, Sig!FastUncount, Sig!FastAck,
                Sig!FlushPoll, Sig!FlushResend, Sig!ReadBegin, Sig!ReadEnd, Sig!globals, Sig!locals
  <2> QED BY <1>6, <1>7, <2>1, SigSimple DEF Promised
<1>8. CASE Sig!Unregister(t)
  BY <1>2, <1>3, <1>8, SigUnregister DEF Promised
<1>9. CASE \E r \in Requests : Sig!Call(t, r)
  <2>1. SigInv'
    BY <1>9, SigSimple
  <2>2. PICK r \in Requests : Sig!Call(t, r)
    BY <1>9
  <2>3. request[t] = NoRequest
    BY <2>2 DEF SigInv, SigCall, Sig!Call, Sig!Goto
  <2>4. request' = [request EXCEPT ![t] = r] /\ ret' = ret /\ UNCHANGED <<globalcount, counter>>
    BY <2>2 DEF Sig!Call, Sig!globals
  <2> QED BY <1>6, <2>1, <2>3, <2>4 DEF Promised
<1>10. CASE Sig!FastUpdate(t)
  BY <1>2, <1>3, <1>10, SigFastUpdate DEF Promised
<1>11. CASE Sig!SlowPath(t)
  BY <1>2, <1>3, <1>11, SigSlowPath DEF Promised
<1>12. CASE Sig!FlushRequest(t)
  BY <1>6, <1>12, SigFlushRequest DEF Promised
<1>13. CASE Sig!FlushSteal(t)
  BY <1>2, <1>3, <1>13, SigFlushSteal DEF Promised
<1>14. CASE Sig!Recheck(t)
  BY <1>2, <1>3, <1>14, SigRecheck DEF Promised
<1>15. CASE Sig!Return(t)
  <2>1. SigInv'
    BY <1>15, SigSimple
  <2>2. ret[t] # "none"
    BY <1>15 DEF SigInv, SigCall, Sig!Return, Sig!Goto
  <2>3. /\ request' = [request EXCEPT ![t] = NoRequest] /\ ret' = [ret EXCEPT ![t] = "none"]
        /\ UNCHANGED <<globalcount, counter>>
    BY <1>15, SigBase DEF Sig!Return, Sig!globals
  <2> QED BY <1>6, <2>1, <2>2, <2>3 DEF Promised
<1>16. CASE Sig!ReadNext(t)
  <2>1. UNCHANGED <<globalcount, counter, request, ret>>
    BY <1>16 DEF Sig!ReadNext, Sig!globals
  <2> QED BY <1>6, <1>16, <2>1, SigReadNext DEF Promised
<1> QED BY <1>5, <1>7, <1>8, <1>9, <1>10, <1>11, <1>12, <1>13, <1>14, <1>15, <1>16
        DEF Sig!FastPath, Sig!Flush, Sig!ReadSteps

-----------------------------------------------------------------------------
\* count_lim.c, count_lim_app.c and count_limd.c

\* What t was asked, and whether it has answered, go with its location
LimCall(t) ==
  /\ IF pc[t] \in {"call", "return"} THEN request[t] \in Requests ELSE request[t] = NoRequest
  /\ IF pc[t] = "return" THEN ret[t] # "none" ELSE ret[t] = "none"

\* The inductive invariant of the counters of count_lim.c, count_lim_app.c and count_limd.c
LimInv ==
  /\ pc \in [Threads -> {"off", "idle", "call", "return", "read", "read_done"}]
  /\ request \in [Threads -> Requests \union {NoRequest}]
  /\ ret \in [Threads -> {"none", "ok", "fail"}]
  /\ Balanced
  /\ \A t \in Threads : LimCall(t)

\* CountLim's copies of CounterBase's operators are those of Counters.
LEMMA LimBase ==
  /\ Lim!Threads = Threads /\ Lim!NoThread = NoThread /\ Lim!NoRequest = NoRequest /\ Lim!Requests = Requests
  /\ \A a, b : Lim!Minus(a, b) = Minus(a, b) /\ Lim!Available(a, b) = Available(a, b)
  /\ \A t, a, b : (Lim!Fits(t, a, b) <=> Fits(t, a, b)) /\ Lim!Moved(t, a) = Moved(t, a)
  /\ \A S : Lim!Min(S) = Min(S)
  BY DEF Threads, NoThread, NoRequest, Requests, Minus, Available, Fits, Moved, Min, Lim!Threads, Lim!NoThread,
         Lim!NoRequest, Lim!Requests, Lim!Minus, Lim!Available, Lim!Fits, Lim!Moved, Lim!Min

\* The total that LimitCounter is about is the value of the books.
LEMMA LimTotal == impl \in Approximate => Total = Value(globalcount, counter)
<1>1. Lim!MapThenSumSet(LAMBDA t : counter[t], Threads) = Sum(counter, Threads)
  BY DEF Sum, MapThenSumSet, MapThenFoldSet, Lim!MapThenSumSet, Lim!MapThenFoldSet
<1>2. Lim!Total = globalcount + Lim!MapThenSumSet(LAMBDA t : counter[t], Threads)
  BY LimBase DEF Lim!Total
<1> HIDE DEF Sum
<1>3. Lim!Total = Value(globalcount, counter)
  BY <1>1, <1>2 DEF Value
<1>4. impl \in Approximate => ~ (impl = "count_lim_sig") /\ ~ (impl = "count_lim_atomic")
  BY DEF Approximate
<1> QED BY <1>3, <1>4 DEF Total

\* The property of CountLim is about the same sums.
LEMMA LimReserve == Lim!ReserveCoversCountermax <=>
  /\ globalreserve = Sum(countermax, Threads)
  /\ globalcount + globalreserve <= globalcountmax
  /\ \A t \in Threads : counter[t] <= countermax[t]
<1>1. Lim!MapThenSumSet(LAMBDA t : countermax[t], Threads) = Sum(countermax, Threads)
  BY DEF Sum, MapThenSumSet, MapThenFoldSet, Lim!MapThenSumSet, Lim!MapThenFoldSet
<1> QED BY <1>1, LimBase DEF Lim!ReserveCoversCountermax

\* balance_count() is a settlement of the books, for each way of computing the share.
LEMMA LimBalance ==
  ASSUME Balanced, NEW t \in Threads, NEW new \in Nat, impl \in Approximate,
         new + (globalreserve - countermax[t]) <= globalcountmax,
         Lim!balance_count(t, new, globalreserve - countermax[t])
  PROVE  \E cm, n : Settle(t, new, cm, n)
<1> DEFINE reserve == globalreserve - countermax[t]
           a == Available(new, reserve) \div num_online_threads
           b == Min({new, Available(new, reserve)}) \div num_online_threads
           cm == CASE impl = "count_lim" -> a
                   [] impl = "count_lim_app" -> Min({a, MAX_COUNTERMAX})
                   [] impl = "count_limd" -> b
           n == IF impl = "count_limd" THEN cm \div 2 ELSE Min({cm \div 2, new})
<1>1. reserve \in Nat /\ new + reserve <= globalcountmax
  BY TakenBack
<1>2. /\ a \in Nat /\ new + reserve + a <= globalcountmax
      /\ Available(new, reserve) \in Nat /\ new + reserve + Available(new, reserve) <= globalcountmax
      /\ num_online_threads \in Nat \ {0} /\ MAX_COUNTERMAX \in Nat /\ globalcountmax \in Nat
  <2> HIDE DEF reserve
  <2>1. Available(new, reserve) = (globalcountmax - new) - reserve /\ globalcountmax \in Nat
    BY <1>1, AvailableIs, CounterAssumption
  <2> QED BY <1>1, <2>1, SmallShare, CounterAssumption
<1>3. b \in Nat /\ b <= new /\ b <= Available(new, reserve)
  <2> DEFINE x == Min({new, Available(new, reserve)})
  <2>1. x \in Nat /\ x <= new /\ x <= Available(new, reserve)
    <3> HIDE DEF reserve
    <3> QED BY <1>2, MinOfTwo
  <2> HIDE DEF x, reserve
  <2>2. x \div num_online_threads \in Nat /\ x \div num_online_threads <= x
    BY <1>2, <2>1, DivSmaller
  <2> QED BY <1>2, <2>1, <2>2 DEF x
<1>4. /\ globalcount' = Minus(new, n) /\ globalreserve' = reserve + cm
      /\ counter' = [counter EXCEPT ![t] = n] /\ countermax' = [countermax EXCEPT ![t] = cm]
  <2>1. Lim!ShareLim(new, reserve) = a
    BY LimBase DEF Lim!ShareLim
  <2>2. Lim!ShareApp(new, reserve) = Min({a, MAX_COUNTERMAX})
    BY LimBase DEF Lim!ShareApp, Lim!ShareLim
  <2>3. Lim!ShareLimd(new, reserve) = b
    BY LimBase DEF Lim!ShareLimd
  <2> HIDE DEF a, b
  <2>4. CASE impl = "count_lim"
    BY <2>1, <2>4, LimBase DEF Lim!balance_count
  <2>5. CASE impl = "count_lim_app"
    BY <2>2, <2>5, LimBase DEF Lim!balance_count
  <2>6. CASE impl = "count_limd"
    BY <2>3, <2>6, LimBase DEF Lim!balance_count
  <2> QED BY <2>4, <2>5, <2>6 DEF Approximate
<1> HIDE DEF reserve, a, b
<1>5. cm \in Nat /\ new + reserve + cm <= globalcountmax /\ (impl = "count_limd" => cm <= new)
  <2>1. CASE impl = "count_lim"
    BY <1>2, <2>1
  <2>2. CASE impl = "count_lim_app"
    <3>1. Min({a, MAX_COUNTERMAX}) \in Nat /\ Min({a, MAX_COUNTERMAX}) <= a
      BY <1>2, MinOfTwo
    <3>2. cm = Min({a, MAX_COUNTERMAX})
      BY <2>2
    <3> HIDE DEF cm
    <3> QED BY <1>1, <1>2, <2>2, <3>1, <3>2
  <2>3. CASE impl = "count_limd"
    BY <1>1, <1>2, <1>3, <2>3
  <2> QED BY <2>1, <2>2, <2>3 DEF Approximate
<1>6. n \in Nat /\ n <= cm /\ n <= new
  <2> HIDE DEF cm
  <2>1. cm \div 2 \in Nat /\ cm \div 2 <= cm
    BY <1>5
  <2>2. Min({cm \div 2, new}) \in Nat /\ Min({cm \div 2, new}) <= cm \div 2 /\ Min({cm \div 2, new}) <= new
    BY <2>1, MinOfTwo
  <2> QED BY <1>5, <2>1, <2>2
<1> HIDE DEF cm, n
<1>7. Minus(new, n) = new - n
  <2>1. new < WORD
    BY <1>1, CounterAssumption
  <2> QED BY <1>6, <2>1, MinusSmaller DEF Minus
<1>8. Settle(t, new, cm, n)
  BY <1>4, <1>5, <1>6, <1>7 DEF Settle, reserve
<1> QED BY <1>8

\* The steps that touch no counter keep the invariant.
LEMMA LimStill ==
  ASSUME LimInv, NEW t \in Threads,
         \/ Lim!count_register_thread(t) \/ Lim!read_count(t)
         \/ \E r \in Requests : Lim!Call(t, r)
         \/ Lim!Return(t)
  PROVE  LimInv' /\ UNCHANGED <<globalcount, counter>>
<1> USE DEF LimInv, Balanced, LimCall, Lim!Goto, Lim!globals, Lim!locals
<1>1. CASE Lim!count_register_thread(t)
  BY <1>1 DEF Lim!count_register_thread
<1>2. CASE Lim!ReadBegin(t)
  BY <1>2 DEF Lim!ReadBegin
<1>3. CASE Lim!ReadNext(t)
  <2>1. pc' = [pc EXCEPT ![t] = "read"] \/ pc' = [pc EXCEPT ![t] = "read_done"]
    BY <1>3 DEF Lim!ReadNext, Lim!Advance
  <2> QED BY <1>3, <2>1 DEF Lim!ReadNext
<1>4. CASE Lim!ReadEnd(t)
  BY <1>4 DEF Lim!ReadEnd
<1>5. CASE \E r \in Requests : Lim!Call(t, r)
  BY <1>5 DEF Lim!Call
<1>6. CASE Lim!Return(t)
  BY <1>6, LimBase DEF Lim!Return
<1> QED BY <1>1, <1>2, <1>3, <1>4, <1>5, <1>6 DEF Lim!read_count

\* count_unregister_thread() gives count and reserve back; the value stays.
LEMMA LimUnregister ==
  ASSUME LimInv, NEW t \in Threads, Lim!count_unregister_thread(t)
  PROVE  LimInv' /\ UNCHANGED <<request, ret>> /\ Value(globalcount, counter)' = Value(globalcount, counter)
<1>1. Balanced /\ pc[t] = "idle" /\ pc' = [pc EXCEPT ![t] = "off"] /\ UNCHANGED <<request, ret>>
  BY DEF LimInv, Lim!count_unregister_thread, Lim!Goto, Lim!locals
<1>2. Settle(t, globalcount + counter[t], 0, 0)
  <2>1. Lim!Minus(globalreserve, countermax[t]) = globalreserve - countermax[t]
    BY <1>1, TakenBack, LimBase
  <2> QED BY <1>1, <2>1, TakenBack DEF Lim!count_unregister_thread, Lim!globalize_count, Lim!GlobalCount, Lim!GlobalReserve, Settle
<1>3. Balanced' /\ Value(globalcount, counter)' = Value(globalcount, counter)
  <2>1. Value(globalcount, counter) \in Int /\ globalcount + counter[t] \in Int
    BY <1>1, TakenBack, BooksBound DEF Balanced
  <2> QED BY <1>1, <1>2, <2>1, SettleBooks
<1> QED BY <1>1, <1>3 DEF LimInv, LimCall

\* A fast path that finds room adds delta to the value, or takes it off.
LEMMA LimFastPath ==
  ASSUME LimInv, NEW t \in Threads, Lim!FastPath(t)
  PROVE  /\ LimInv'
         /\ request[t] \in Requests /\ ret[t] = "none"
         /\ UNCHANGED request /\ ret' = [ret EXCEPT ![t] = "ok"]
         /\ Value(globalcount, counter)' = After(t, Value(globalcount, counter))
<1> DEFINE n == After(t, counter[t])
<1>1. /\ Balanced /\ pc[t] = "call" /\ request[t] \in Requests /\ ret[t] = "none"
      /\ pc' = [pc EXCEPT ![t] = "return"] /\ ret' = [ret EXCEPT ![t] = "ok"]
      /\ UNCHANGED <<globalcount, globalreserve, countermax, request>>
  BY DEF LimInv, LimCall, Lim!FastPath, Lim!Goto, Lim!globals
<1>2. request[t].op \in {"add", "sub"} /\ request[t].delta \in Nat
  BY <1>1, RequestIs
<1>3. counter[t] \in Nat /\ countermax[t] \in Nat /\ counter[t] <= countermax[t] /\ countermax[t] < WORD /\ counter[t] < WORD
  <2>1. /\ counter[t] \in Nat /\ countermax[t] \in Nat /\ globalreserve \in Nat
        /\ counter[t] <= countermax[t] /\ countermax[t] <= globalreserve /\ globalreserve < WORD
    BY <1>1, TakenBack
  <2> QED BY <2>1, CounterAssumption
<1>4. n \in Nat /\ n <= countermax[t] /\ (request[t].op = "sub" => request[t].delta <= counter[t])
  <2>1. Minus(countermax[t], counter[t]) = countermax[t] - counter[t]
    BY <1>3, MinusSmaller DEF Minus
  <2>2. IF request[t].op = "add" THEN countermax[t] - counter[t] >= request[t].delta ELSE counter[t] >= request[t].delta
    BY <2>1, LimBase DEF Lim!FastPath, Lim!HasRoom
  <2> QED BY <1>2, <1>3, <2>2 DEF After
<1>5. counter' = [counter EXCEPT ![t] = n]
  <2>1. Moved(t, counter[t]) = n
    BY <1>2, <1>3, <1>4, MinusSmaller DEF Moved, Minus, After
  <2> HIDE DEF n
  <2>2. counter' = [counter EXCEPT ![t] = Moved(t, counter[t])]
    BY LimBase DEF Lim!FastPath
  <2> QED BY <2>1, <2>2
<1> HIDE DEF n
<1>6. /\ Books(globalcount, globalreserve, [counter EXCEPT ![t] = n], countermax)
      /\ Value(globalcount, [counter EXCEPT ![t] = n]) = Value(globalcount, counter) + n - counter[t]
  <2>1. Books(globalcount, globalreserve, counter, countermax)
    BY <1>1 DEF Balanced
  <2> QED BY <1>4, <2>1, BooksFast
<1>7. Balanced' /\ Value(globalcount, counter)' = Value(globalcount, counter) + n - counter[t]
  BY <1>1, <1>5, <1>6 DEF Balanced, Value
<1>8. Value(globalcount, counter)' = After(t, Value(globalcount, counter))
  <2>1. Value(globalcount, counter) \in Int
    BY <1>1, BooksBound DEF Balanced
  <2> QED BY <1>2, <1>3, <1>7, <2>1 DEF After, n
<1>9. LimInv'
  BY <1>1, <1>7 DEF LimInv, LimCall
<1> QED BY <1>1, <1>8, <1>9

\* A slow path succeeds with the value changed by delta, or fails with the value as it was.
LEMMA LimSlowPath ==
  ASSUME LimInv, impl \in Approximate, NEW t \in Threads, Lim!SlowPath(t)
  PROVE  /\ LimInv'
         /\ request[t] \in Requests /\ ret[t] = "none" /\ UNCHANGED request
         /\ \/ /\ ret' = [ret EXCEPT ![t] = "ok"]
               /\ Value(globalcount, counter)' = After(t, Value(globalcount, counter))
            \/ ret' = [ret EXCEPT ![t] = "fail"] /\ Value(globalcount, counter)' = Value(globalcount, counter)
<1> DEFINE count == globalcount + counter[t]
           reserve == globalreserve - countermax[t]
           v == Value(globalcount, counter)
<1>1. /\ Balanced /\ pc[t] = "call" /\ request[t] \in Requests /\ ret[t] = "none"
      /\ pc' = [pc EXCEPT ![t] = "return"] /\ UNCHANGED request
  BY DEF LimInv, LimCall, Lim!SlowPath, Lim!Goto
<1>2. count \in Nat /\ reserve \in Nat /\ count + reserve <= globalcountmax /\ v \in Int
  BY <1>1, TakenBack, BooksBound DEF Balanced
<1>3. Lim!GlobalCount(t) = count /\ Lim!GlobalReserve(t) = reserve
  BY <1>1, TakenBack, LimBase DEF Lim!GlobalCount, Lim!GlobalReserve
<1>4. request[t].delta \in Int
  BY <1>1, RequestIs
<1>5. CASE Fits(t, count, reserve)
  <2>1. Lim!balance_count(t, Moved(t, count), reserve) /\ ret' = [ret EXCEPT ![t] = "ok"]
    BY <1>3, <1>5, LimBase DEF Lim!SlowPath
  <2>2. Moved(t, count) \in Nat /\ Moved(t, count) + reserve <= globalcountmax /\ Moved(t, count) = After(t, count)
    BY <1>1, <1>2, <1>5, FitsMeansRoom
  <2>3. PICK cm, n : Settle(t, Moved(t, count), cm, n)
    BY <1>1, <2>1, <2>2, LimBalance
  <2>4. Balanced' /\ v' = v + After(t, count) - count
    BY <1>1, <2>2, <2>3, SettleBooks
  <2>5. v' = After(t, v)
    BY <1>2, <1>4, <2>4 DEF After
  <2>6. LimInv'
    BY <1>1, <2>1, <2>4 DEF LimInv, LimCall
  <2> QED BY <1>1, <2>1, <2>5, <2>6
<1>6. CASE ~ Fits(t, count, reserve)
  <2>1. /\ ret' = [ret EXCEPT ![t] = "fail"]
        /\ globalcount' = count /\ globalreserve' = reserve
        /\ counter' = [counter EXCEPT ![t] = 0] /\ countermax' = [countermax EXCEPT ![t] = 0]
    BY <1>3, <1>6, LimBase DEF Lim!SlowPath, Lim!globalize_count
  <2>2. Settle(t, count, 0, 0)
    BY <1>2, <2>1 DEF Settle
  <2>3. Balanced' /\ v' = v
    BY <1>1, <1>2, <2>2, SettleBooks
  <2>4. LimInv'
    BY <1>1, <2>1, <2>3 DEF LimInv, LimCall
  <2> QED BY <1>1, <2>1, <2>3, <2>4
<1> QED BY <1>5, <1>6

\* Every step of these counters keeps their invariant and is a step of LimitCounter.
LEMMA LimStep ==
  ASSUME LimInv, LimNext
  PROVE  LimInv' /\ impl' = impl /\ [LC!Next]_(LC!lcvars)
<1>1. PICK t \in Threads : Lim!Step(t)
  BY LimBase DEF LimNext, Lim!Next, Lim!count_lim, Lim!count_lim_app, Lim!count_limd
<1>2. impl' = impl /\ impl \in Approximate
  BY <1>1 DEF LimNext, Lim!Step, Lim!count_register_thread, Lim!count_unregister_thread, Lim!Call, Lim!FastPath,
              Lim!SlowPath, Lim!Return, Lim!read_count, Lim!ReadBegin, Lim!ReadNext, Lim!ReadEnd
<1>3. Total = Value(globalcount, counter)
  BY <1>2, LimTotal
<1>4. Total' = Value(globalcount, counter)'
  <2>1. (impl \in Approximate => Total = Value(globalcount, counter))'
    BY LimTotal, PTL
  <2> QED BY <1>2, <2>1
<1>5. LimInv' => Total' \in 0 .. globalcountmax
  <2>1. (Balanced => Value(globalcount, counter) \in 0 .. globalcountmax)'
    BY BooksBound DEF Balanced
  <2> QED BY <1>4, <2>1 DEF LimInv
<1>6. impl \notin Exact
  BY <1>2 DEF Approximate, Exact
<1> SUFFICES LimInv' /\ Promised(t)
  BY <1>2, <1>5, PromisedIsStep
<1>7. UNCHANGED <<globalcount, counter>> => Total' = Total
  BY <1>3, <1>4 DEF Value
<1> HIDE DEF Total
<1>8. CASE Lim!count_register_thread(t) \/ Lim!read_count(t)
  <2>1. UNCHANGED <<request, ret>>
    BY <1>8 DEF Lim!count_register_thread, Lim!read_count, Lim!ReadBegin, Lim!ReadNext, Lim!ReadEnd, Lim!locals
  <2> QED BY <1>7, <1>8, <2>1, LimStill DEF Promised
<1>9. CASE Lim!count_unregister_thread(t)
  BY <1>3, <1>4, <1>9, LimUnregister DEF Promised
<1>10. CASE \E r \in Requests : Lim!Call(t, r)
  <2>1. LimInv' /\ UNCHANGED <<globalcount, counter>>
    BY <1>10, LimStill
  <2>2. PICK r \in Requests : Lim!Call(t, r)
    BY <1>10
  <2>3. request[t] = NoRequest
    BY <2>2 DEF LimInv, LimCall, Lim!Call, Lim!Goto
  <2>4. request' = [request EXCEPT ![t] = r] /\ ret' = ret
    BY <2>2 DEF Lim!Call
  <2> QED BY <1>7, <2>1, <2>3, <2>4 DEF Promised
<1>11. CASE Lim!FastPath(t)
  BY <1>3, <1>4, <1>11, LimFastPath DEF Promised
<1>12. CASE Lim!SlowPath(t)
  BY <1>2, <1>3, <1>4, <1>6, <1>12, LimSlowPath DEF Promised
<1>13. CASE Lim!Return(t)
  <2>1. LimInv' /\ UNCHANGED <<globalcount, counter>>
    BY <1>13, LimStill
  <2>2. ret[t] # "none"
    BY <1>13 DEF LimInv, LimCall, Lim!Return, Lim!Goto
  <2>3. request' = [request EXCEPT ![t] = NoRequest] /\ ret' = [ret EXCEPT ![t] = "none"]
    BY <1>13, LimBase DEF Lim!Return
  <2> QED BY <1>7, <2>1, <2>2, <2>3 DEF Promised
<1> QED BY <1>1, <1>8, <1>9, <1>10, <1>11, <1>12, <1>13, LimBase DEF Lim!Step

-----------------------------------------------------------------------------
\* count_lim_atomic.c

\* A half of counterandmax holds at least the value zero.
LEMMA HalfIs == Atomic!HALF \in Nat \ {0}
  BY HalfAssumption DEF Atomic!HALF

\* Two numbers below h, put together as c * h + m, come apart again.
LEMMA HalfProduct ==
  ASSUME NEW h \in Nat \ {0}, NEW c \in 0 .. h - 1, NEW m \in 0 .. h - 1
  PROVE  /\ (c * h + m) \in Nat /\ c * h + m < h * h
         /\ (c * h + m) % (h * h) = c * h + m
         /\ ((c * h + m) \div h) = c /\ (c * h + m) % h = m
<1>1. c * h \in Nat /\ h * h \in Nat /\ c * h <= (h - 1) * h
  OBVIOUS
<1>2. (h - 1) * h = h * h - h
  OBVIOUS
<1>3. c * h + m \in Nat /\ c * h + m < h * h
  BY <1>1, <1>2
<1>4. (c * h + m) % (h * h) = c * h + m
  BY <1>1, <1>3
<1>5. (c * h + m) \div h = c /\ (c * h + m) % h = m
  OBVIOUS
<1> QED BY <1>3, <1>4, <1>5

\* split_counterandmax_int() undoes merge_counterandmax().
LEMMA WordIs ==
  ASSUME NEW c \in 0 .. Atomic!HALF - 1, NEW m \in 0 .. Atomic!HALF - 1
  PROVE  /\ Atomic!merge_counterandmax(c, m) \in Nat
         /\ Atomic!split_counterandmax_int(Atomic!merge_counterandmax(c, m)) = <<c, m>>
<1> DEFINE h == Atomic!HALF
<1>1. h \in Nat \ {0}
  BY HalfIs
<1>2. c % h = c /\ c \in 0 .. h - 1 /\ m \in 0 .. h - 1
  BY <1>1
<1> HIDE DEF h
<1>3. Atomic!merge_counterandmax(c, m) = ((c % h) * h + m) % (h * h)
  BY DEF Atomic!merge_counterandmax, h
<1>4. Atomic!merge_counterandmax(c, m) = c * h + m
  <2>1. (c * h + m) % (h * h) = c * h + m
    BY <1>1, <1>2, HalfProduct
  <2> QED BY <1>2, <1>3, <2>1
<1>5. Atomic!split_counterandmax_int(c * h + m) = <<((c * h + m) \div h) % h, (c * h + m) % h>>
  BY DEF Atomic!split_counterandmax_int, h
<1> QED BY <1>1, <1>2, <1>4, <1>5, HalfProduct DEF h

\* Every word splits into two halves that fit.
LEMMA HalvesOfWord ==
  ASSUME NEW w \in Nat
  PROVE  /\ Atomic!split_counterandmax_int(w)[1] \in 0 .. Atomic!HALF - 1
         /\ Atomic!split_counterandmax_int(w)[2] \in 0 .. Atomic!HALF - 1
<1> DEFINE h == Atomic!HALF
<1>1. h \in Nat \ {0}
  BY HalfIs
<1> HIDE DEF h
<1>2. w \div h \in Nat
  BY <1>1, DivSmaller
<1>3. (w \div h) % h \in 0 .. h - 1 /\ w % h \in 0 .. h - 1
  BY <1>1, <1>2
<1> QED BY <1>3 DEF Atomic!split_counterandmax_int, h

\* The counters and the maxima that count_lim_atomic.c keeps in one word per thread
Counts == [t \in Threads |-> Atomic!C(t)]
Maxes == [t \in Threads |-> Atomic!CM(t)]

\* The recursive functions behind the sums over the halves
IsCountSum(g, S) == g = [s \in SUBSET S |-> IF s = {} THEN 0 ELSE Atomic!C(pick(s)) + g[s \ {pick(s)}]]
IsMaxSum(g, S) == g = [s \in SUBSET S |-> IF s = {} THEN 0 ELSE Atomic!CM(pick(s)) + g[s \ {pick(s)}]]

\* The sums over the halves of the words are Sum of Counts and of Maxes.
LEMMA AtomicSums ==
  /\ Atomic!MapThenSumSet(LAMBDA t : Atomic!C(t), Threads) = Sum(Counts, Threads)
  /\ Atomic!MapThenSumSet(LAMBDA t : Atomic!CM(t), Threads) = Sum(Maxes, Threads)
<1>1. Atomic!MapThenSumSet(LAMBDA t : Atomic!C(t), Threads) = (CHOOSE g : IsCountSum(g, Threads))[Threads]
  BY DEF Atomic!MapThenSumSet, Atomic!MapThenFoldSet, IsCountSum, pick
<1>2. Atomic!MapThenSumSet(LAMBDA t : Atomic!CM(t), Threads) = (CHOOSE g : IsMaxSum(g, Threads))[Threads]
  BY DEF Atomic!MapThenSumSet, Atomic!MapThenFoldSet, IsMaxSum, pick
<1>3. \A s \in SUBSET Threads : s # {} => pick(s) \in Threads
  BY PickIn
<1>4. \A g : IsSum(g, Counts, Threads) <=> IsCountSum(g, Threads)
  BY <1>3 DEF IsSum, IsCountSum, Counts
<1>5. \A g : IsSum(g, Maxes, Threads) <=> IsMaxSum(g, Threads)
  BY <1>3 DEF IsSum, IsMaxSum, Maxes

<1>6. IsSum(CHOOSE g : IsCountSum(g, Threads), Counts, Threads)
  BY <1>4, ThreadsFinite, SumExists
<1>7. IsSum(CHOOSE g : IsMaxSum(g, Threads), Maxes, Threads)
  BY <1>5, ThreadsFinite, SumExists
<1>8. /\ IsSum(CHOOSE g : IsSum(g, Counts, Threads), Counts, Threads)
      /\ IsSum(CHOOSE g : IsSum(g, Maxes, Threads), Maxes, Threads)
  BY ThreadsFinite, SumExists
<1>9. (CHOOSE g : IsCountSum(g, Threads))[Threads] = (CHOOSE g : IsSum(g, Counts, Threads))[Threads]
  BY <1>6, <1>8, ThreadsFinite, SumUnique
<1>10. (CHOOSE g : IsMaxSum(g, Threads))[Threads] = (CHOOSE g : IsSum(g, Maxes, Threads))[Threads]
  BY <1>7, <1>8, ThreadsFinite, SumUnique
<1> QED BY <1>1, <1>2, <1>9, <1>10, SumDefinition

\* The locations of count_lim_atomic.c at which gblcnt_mutex is held
AtomicHolds == {"flush", "recheck", "read", "read_done"}

\* Types of count_lim_atomic.c's state
AtomicType ==
  /\ pc \in [Threads -> {"off", "idle", "load", "cas", "slow", "return"} \union AtomicHolds]
  /\ request \in [Threads -> Requests \union {NoRequest}]
  /\ ret \in [Threads -> {"none", "ok", "fail"}]
  /\ scan \in [Threads -> Threads]
  /\ counterandmax \in [Threads -> Nat]
  /\ old \in [Threads -> Nat]

\* The books of count_lim_atomic.c
AtomicBalanced == Books(globalcount, globalreserve, Counts, Maxes)

\* What t was asked, and whether it has answered, go with its location
AtomicCall(t) ==
  /\ IF pc[t] \in {"off", "idle", "read", "read_done"} THEN request[t] = NoRequest ELSE request[t] \in Requests
  /\ IF pc[t] = "return" THEN ret[t] # "none" ELSE ret[t] = "none"

\* The word that a fast path has loaded has room for its request: whatever happens to the thread's
\* word meanwhile, the cmpxchg succeeds only if it is this word again
AtomicOwner(t) ==
  /\ pc[t] = "off" => Maxes[t] = 0
  /\ pc[t] = "cas" => LET ccm == Atomic!split_counterandmax_int(old[t])
                      IN  After(t, ccm[1]) \in 0 .. ccm[2]

\* Who flushes holds the mutex, and what its scan has passed is empty
AtomicThief(t) ==
  /\ pc[t] \in AtomicHolds <=> gblcnt_mutex = t
  /\ pc[t] \notin {"flush", "read"} => scan[t] = 0
  /\ pc[t] = "flush" => \A s \in 0 .. scan[t] - 1 : Maxes[s] = 0
  /\ pc[t] = "recheck" => \A s \in Threads : Maxes[s] = 0

\* The inductive invariant of count_lim_atomic.c
AtomicInv ==
  /\ AtomicType
  /\ AtomicBalanced
  /\ \A t \in Threads : AtomicCall(t) /\ AtomicOwner(t) /\ AtomicThief(t)

\* CountLimAtomic's copies of CounterBase's operators are those of Counters.
LEMMA AtomicBase ==
  /\ Atomic!Threads = Threads /\ Atomic!NoThread = NoThread /\ Atomic!NoRequest = NoRequest /\ Atomic!Requests = Requests
  /\ \A a, b : Atomic!Minus(a, b) = Minus(a, b) /\ Atomic!Available(a, b) = Available(a, b)
  /\ \A t, a, b : (Atomic!Fits(t, a, b) <=> Fits(t, a, b)) /\ Atomic!Moved(t, a) = Moved(t, a)
  /\ \A S : Atomic!Min(S) = Min(S)
  BY DEF Threads, NoThread, NoRequest, Requests, Minus, Available, Fits, Moved, Min, Atomic!Threads,
         Atomic!NoThread, Atomic!NoRequest, Atomic!Requests, Atomic!Minus, Atomic!Available, Atomic!Fits,
         Atomic!Moved, Atomic!Min

\* The halves of a thread's word are its count and its countermax, and fit.
LEMMA AtomicHalves ==
  ASSUME AtomicType
  PROVE  \A t \in Threads : /\ Counts[t] = Atomic!C(t) /\ Maxes[t] = Atomic!CM(t)
                            /\ Counts[t] \in 0 .. Atomic!HALF - 1 /\ Maxes[t] \in 0 .. Atomic!HALF - 1
<1> SUFFICES ASSUME NEW t \in Threads
             PROVE  /\ Counts[t] = Atomic!C(t) /\ Maxes[t] = Atomic!CM(t)
                    /\ Counts[t] \in 0 .. Atomic!HALF - 1 /\ Maxes[t] \in 0 .. Atomic!HALF - 1
  OBVIOUS
<1>1. counterandmax[t] \in Nat
  BY DEF AtomicType
<1>2. Atomic!C(t) \in 0 .. Atomic!HALF - 1 /\ Atomic!CM(t) \in 0 .. Atomic!HALF - 1
  BY <1>1, HalvesOfWord DEF Atomic!C, Atomic!CM
<1> QED BY <1>2 DEF Counts, Maxes

\* Storing a merged word changes the writer's count and countermax and nothing else.
LEMMA AtomicWrite ==
  ASSUME AtomicType, NEW t \in Threads, NEW n \in 0 .. Atomic!HALF - 1, NEW cm \in 0 .. Atomic!HALF - 1,
         counterandmax' = [counterandmax EXCEPT ![t] = Atomic!merge_counterandmax(n, cm)]
  PROVE  /\ Counts' = [Counts EXCEPT ![t] = n] /\ Maxes' = [Maxes EXCEPT ![t] = cm]
         /\ counterandmax' \in [Threads -> Nat]
<1> DEFINE w == Atomic!merge_counterandmax(n, cm)
<1>1. w \in Nat /\ Atomic!split_counterandmax_int(w) = <<n, cm>>
  BY WordIs
<1> HIDE DEF w
<1>2. counterandmax' = [counterandmax EXCEPT ![t] = w] /\ counterandmax \in [Threads -> Nat]
  BY DEF w, AtomicType
<1>3. \A s \in Threads : counterandmax'[s] = IF s = t THEN w ELSE counterandmax[s]
  BY <1>2
<1>4. \A s \in Threads : /\ Atomic!C(s)' = IF s = t THEN n ELSE Atomic!C(s)
                         /\ Atomic!CM(s)' = IF s = t THEN cm ELSE Atomic!CM(s)
  BY <1>1, <1>3 DEF Atomic!C, Atomic!CM
<1>5. Counts' = [s \in Threads |-> Atomic!C(s)'] /\ Maxes' = [s \in Threads |-> Atomic!CM(s)']
  BY DEF Counts, Maxes
<1>6. Counts' = [Counts EXCEPT ![t] = n] /\ Maxes' = [Maxes EXCEPT ![t] = cm]
  BY <1>4, <1>5 DEF Counts, Maxes
<1> QED BY <1>1, <1>2, <1>6

\* While no word changes the books stay as they are.
LEMMA AtomicKept ==
  ASSUME UNCHANGED <<globalcount, globalreserve, counterandmax>>
  PROVE  /\ Counts' = Counts /\ Maxes' = Maxes
         /\ Value(globalcount, Counts)' = Value(globalcount, Counts)
         /\ AtomicBalanced => AtomicBalanced'
<1>1. Counts' = Counts /\ Maxes' = Maxes
  BY DEF Counts, Maxes, Atomic!C, Atomic!CM
<1> QED BY <1>1 DEF AtomicBalanced, Value

\* The same as Settle, to a thread's word.
AtomicSettle(t, new, cm, n) ==
  /\ new \in Nat /\ cm \in 0 .. Atomic!HALF - 1 /\ n \in 0 .. Atomic!HALF - 1 /\ n <= cm /\ n <= new
  /\ new + (globalreserve - Maxes[t]) + cm <= globalcountmax
  /\ globalcount' = new - n
  /\ globalreserve' = (globalreserve - Maxes[t]) + cm
  /\ counterandmax' = [counterandmax EXCEPT ![t] = Atomic!merge_counterandmax(n, cm)]

\* Such a step keeps the books balanced and changes the value by what new differs from the count
\* taken back.
LEMMA AtomicSettleBooks ==
  ASSUME AtomicType, AtomicBalanced, NEW t \in Threads, NEW new, NEW cm, NEW n, AtomicSettle(t, new, cm, n)
  PROVE  /\ AtomicBalanced' /\ counterandmax' \in [Threads -> Nat]
         /\ Maxes' = [Maxes EXCEPT ![t] = cm]
         /\ Value(globalcount, Counts)' = Value(globalcount, Counts) + new - (globalcount + Counts[t])
<1> DEFINE c2 == [Counts EXCEPT ![t] = n]
           m2 == [Maxes EXCEPT ![t] = cm]
<1>1. Counts' = c2 /\ Maxes' = m2 /\ counterandmax' \in [Threads -> Nat]
  BY AtomicWrite DEF AtomicSettle
<1>2. /\ new \in Nat /\ cm \in Nat /\ n \in Nat /\ n <= cm /\ n <= new
      /\ new + (globalreserve - Maxes[t]) + cm <= globalcountmax
  BY HalfIs DEF AtomicSettle
<1>3. /\ Books(new - n, (globalreserve - Maxes[t]) + cm, c2, m2)
      /\ Value(new - n, c2) = Value(globalcount, Counts) + new - (globalcount + Counts[t])
  <2>1. Books(globalcount, globalreserve, Counts, Maxes)
    BY DEF AtomicBalanced
  <2> QED BY <1>2, <2>1, BooksSlow
<1>4. globalcount' = new - n /\ globalreserve' = (globalreserve - Maxes[t]) + cm
  BY DEF AtomicSettle
<1> HIDE DEF c2, m2
<1>5. AtomicBalanced' /\ Value(globalcount, Counts)' = Value(globalcount, Counts) + new - (globalcount + Counts[t])
  BY <1>1, <1>3, <1>4 DEF AtomicBalanced, Value
<1> QED BY <1>1, <1>5 DEF m2

\* What taking t's count and reserve back gives: nothing wraps, and both are within the limit.
LEMMA AtomicTakenBack ==
  ASSUME AtomicBalanced, NEW t \in Threads
  PROVE  /\ globalcount \in Nat /\ Counts[t] \in Nat /\ Maxes[t] \in Nat /\ globalreserve \in Nat
         /\ Counts[t] <= Maxes[t] /\ Maxes[t] <= globalreserve
         /\ globalreserve < WORD
         /\ globalcount + Counts[t] \in Nat
         /\ globalreserve - Maxes[t] \in Nat
         /\ Minus(globalreserve, Maxes[t]) = globalreserve - Maxes[t]
         /\ (globalcount + Counts[t]) + (globalreserve - Maxes[t]) <= globalcountmax
<1>1. globalreserve \in Nat /\ Maxes[t] <= globalreserve
  BY BooksBound DEF AtomicBalanced
<1>2. /\ globalcount \in Nat /\ Counts[t] \in Nat /\ Maxes[t] \in Nat
      /\ Counts[t] <= Maxes[t] /\ globalcount + globalreserve <= globalcountmax
  BY DEF AtomicBalanced, Books
<1>3. globalreserve < WORD
  BY <1>1, <1>2, CounterAssumption
<1>4. Minus(globalreserve, Maxes[t]) = globalreserve - Maxes[t]
  BY <1>1, <1>2, <1>3, MinusSmaller DEF Minus
<1> QED BY <1>1, <1>2, <1>3, <1>4, CounterAssumption

\* The share that count_lim_atomic.c hands out is within what is available and fits in a half.
LEMMA AtomicShare ==
  ASSUME NEW count \in Nat, NEW reserve \in Nat, count + reserve <= globalcountmax
  PROVE  LET cm == Atomic!Share(count, reserve)
             n == Atomic!Min({cm \div 2, count})
         IN  /\ cm \in 0 .. Atomic!HALF - 1 /\ n \in 0 .. Atomic!HALF - 1 /\ n <= cm /\ n <= count
             /\ count + reserve + cm <= globalcountmax
<1> DEFINE a == Available(count, reserve) \div num_online_threads
           cm == Atomic!Share(count, reserve)
           n == Atomic!Min({cm \div 2, count})
           half == Atomic!HALF
<1>1. a \in Nat /\ count + reserve + a <= globalcountmax
  BY SmallShare
<1>2. half \in Nat \ {0}
  BY HalfIs
<1>3. cm = Min({a, half - 1})
  BY AtomicBase DEF Atomic!Share, Atomic!MaxHalf
<1>4. cm \in Nat /\ cm <= a /\ cm <= half - 1
  <2> HIDE DEF a, half
  <2> QED BY <1>1, <1>2, <1>3, MinOfTwo
<1>5. n = Min({cm \div 2, count})
  BY AtomicBase
<1> HIDE DEF a, cm
<1>6. cm \div 2 \in Nat /\ cm \div 2 <= cm
  BY <1>4
<1>7. n \in Nat /\ n <= cm /\ n <= count
  BY <1>4, <1>5, <1>6, MinOfTwo
<1>8. cm \in 0 .. half - 1 /\ n \in 0 .. half - 1 /\ count + reserve + cm <= globalcountmax
  <2> HIDE DEF half, n
  <2> QED BY <1>1, <1>2, <1>4, <1>7, CounterAssumption
<1> QED BY <1>7, <1>8 DEF cm

\* Fits, then the update of the globals and the new share, is one settlement of the books.
LEMMA AtomicCommit ==
  ASSUME AtomicBalanced, NEW t \in Threads, request[t] \in Requests, NEW count, NEW reserve,
         count = globalcount + Counts[t], reserve = globalreserve - Maxes[t],
         Fits(t, count, reserve), Atomic!Commit(t, count, reserve)
  PROVE  /\ \E cm, n : AtomicSettle(t, After(t, count), cm, n)
         /\ ret' = [ret EXCEPT ![t] = "ok"]
<1>1. count \in Nat /\ reserve \in Nat /\ count + reserve <= globalcountmax
  BY AtomicTakenBack
<1> DEFINE new == Moved(t, count)
           cm == Atomic!Share(new, reserve)
           n == Atomic!Min({cm \div 2, new})
<1>2. new \in Nat /\ new + reserve <= globalcountmax /\ new = After(t, count)
  BY <1>1, FitsMeansRoom
<1>3. /\ cm \in 0 .. Atomic!HALF - 1 /\ n \in 0 .. Atomic!HALF - 1 /\ n <= cm /\ n <= new
      /\ new + reserve + cm <= globalcountmax
  <2> HIDE DEF new
  <2> QED BY <1>1, <1>2, AtomicShare
<1>4. /\ globalcount' = new - n /\ globalreserve' = reserve + cm
      /\ counterandmax' = [counterandmax EXCEPT ![t] = Atomic!merge_counterandmax(n, cm)]
      /\ ret' = [ret EXCEPT ![t] = "ok"]
  BY AtomicBase DEF Atomic!Commit
<1> HIDE DEF new, cm, n
<1>5. AtomicSettle(t, new, cm, n)
  BY <1>2, <1>3, <1>4 DEF AtomicSettle
<1> QED BY <1>2, <1>4, <1>5

\* A scan of the threads goes to the next one, or is at its end after the last one.
LEMMA AtomicAdvance ==
  ASSUME AtomicType, NEW u \in Threads, NEW at, NEW next, Atomic!Advance(u, at, next)
  PROVE  /\ scan' \in [Threads -> Threads]
         /\ \/ pc' = [pc EXCEPT ![u] = at] /\ scan' = [scan EXCEPT ![u] = scan[u] + 1]
            \/ pc' = [pc EXCEPT ![u] = next] /\ scan' = [scan EXCEPT ![u] = 0] /\ scan[u] = NR_THREADS - 1
<1>1. CASE scan[u] + 1 < NR_THREADS
  <2>1. scan[u] + 1 \in Threads
    <3>1. scan[u] \in 0 .. NR_THREADS - 1 /\ NR_THREADS \in Nat
      BY NRThreadsAssumption DEF AtomicType, Threads
    <3> QED BY <1>1, <3>1 DEF Threads
  <2> QED BY <1>1, <2>1 DEF AtomicType, Atomic!Advance
<1>2. CASE ~ (scan[u] + 1 < NR_THREADS)
  <2>1. scan[u] = NR_THREADS - 1
    <3>1. scan[u] \in 0 .. NR_THREADS - 1 /\ NR_THREADS \in Nat
      BY NRThreadsAssumption DEF AtomicType, Threads
    <3> QED BY <1>2, <3>1
  <2> QED BY <1>2, <2>1, ZeroIn DEF AtomicType, Atomic!Advance
<1> QED BY <1>1, <1>2

\* The steps of count_lim_atomic.c that touch no counter keep the invariant.
LEMMA AtomicSimple ==
  ASSUME AtomicInv, NEW t \in Threads,
         \/ Atomic!Register(t) \/ Atomic!FastLoad(t)
         \/ \E r \in Requests : Atomic!Call(t, r)
         \/ Atomic!Return(t)
         \/ Atomic!ReadBegin(t) \/ Atomic!ReadNext(t) \/ Atomic!ReadEnd(t)
  PROVE  AtomicInv' /\ UNCHANGED <<globalcount, counterandmax>>
<1> USE DEF Atomic!Goto, Atomic!locals
<1>1. UNCHANGED <<globalcount, globalreserve, counterandmax>>
  BY DEF Atomic!Register, Atomic!FastLoad, Atomic!Call, Atomic!Return, Atomic!ReadBegin, Atomic!ReadNext, Atomic!ReadEnd
<1>2. Maxes' = Maxes /\ AtomicBalanced' /\ AtomicType /\ AtomicBalanced
  BY <1>1, AtomicKept DEF AtomicInv
<1>3. CASE Atomic!Register(t)
  <2>1. AtomicType'
    BY <1>2, <1>3 DEF AtomicType, AtomicHolds, Atomic!Register
  <2>2. ASSUME NEW e \in Threads PROVE AtomicCall(e)' /\ AtomicOwner(e)' /\ AtomicThief(e)'
    BY <1>2, <1>3, <2>2 DEF AtomicInv, AtomicType, AtomicHolds, AtomicCall, AtomicOwner, AtomicThief, After,
         Atomic!Register, Atomic!split_counterandmax_int
  <2> QED BY <1>1, <1>2, <2>1, <2>2 DEF AtomicInv
<1>4. CASE Atomic!FastLoad(t)
  <2>1. /\ old' = [old EXCEPT ![t] = counterandmax[t]]
        /\ pc[t] = "load" /\ UNCHANGED <<request, ret, scan, gblcnt_mutex>>
        /\ \/ pc' = [pc EXCEPT ![t] = "slow"]
           \/ pc' = [pc EXCEPT ![t] = "cas"] /\ Atomic!HasRoom(t, Atomic!C(t), Atomic!CM(t))
    BY <1>4 DEF Atomic!FastLoad
  <2>2. AtomicType'
    BY <1>1, <1>2, <2>1 DEF AtomicType, AtomicHolds
  <2>3. ASSUME Atomic!HasRoom(t, Atomic!C(t), Atomic!CM(t))
        PROVE  After(t, Atomic!C(t)) \in 0 .. Atomic!CM(t)
    <3>1. Counts[t] = Atomic!C(t) /\ Maxes[t] = Atomic!CM(t) /\ Counts[t] \in Nat /\ Maxes[t] \in Nat /\ Counts[t] <= Maxes[t]
      BY <1>2, AtomicHalves, AtomicTakenBack
    <3>2. request[t].op \in {"add", "sub"} /\ request[t].delta \in Nat
      BY <2>1, RequestIs DEF AtomicInv, AtomicCall
    <3> QED BY <2>3, <3>1, <3>2 DEF Atomic!HasRoom, After
  <2>4. ASSUME NEW e \in Threads PROVE AtomicCall(e)' /\ AtomicThief(e)'
    BY <1>2, <2>1, <2>4 DEF AtomicInv, AtomicType, AtomicHolds, AtomicCall, AtomicThief
  <2>5. ASSUME NEW e \in Threads PROVE AtomicOwner(e)'
    <3>1. CASE e = t
      <4>1. old'[t] = counterandmax[t] /\ pc'[t] # "off" /\ (pc'[t] = "cas" => Atomic!HasRoom(t, Atomic!C(t), Atomic!CM(t)))
        BY <1>2, <2>1 DEF AtomicType
      <4> QED BY <2>1, <2>3, <3>1, <4>1 DEF AtomicOwner, After, Atomic!C, Atomic!CM
    <3>2. CASE e # t
      <4>1. old'[e] = old[e] /\ pc'[e] = pc[e] /\ AtomicOwner(e)
        BY <1>2, <2>1, <2>5, <3>2 DEF AtomicInv, AtomicType
      <4> QED BY <1>2, <2>1, <4>1 DEF AtomicOwner, After, Atomic!split_counterandmax_int
    <3> QED BY <3>1, <3>2
  <2> QED BY <1>1, <1>2, <2>2, <2>4, <2>5 DEF AtomicInv
<1>5. CASE \E r \in Requests : Atomic!Call(t, r)
  <2>1. AtomicType'
    BY <1>2, <1>5 DEF AtomicType, AtomicHolds, Atomic!Call
  <2>2. ASSUME NEW e \in Threads PROVE AtomicCall(e)' /\ AtomicOwner(e)' /\ AtomicThief(e)'
    BY <1>2, <1>5, <2>2 DEF AtomicInv, AtomicType, AtomicHolds, AtomicCall, AtomicOwner, AtomicThief, After,
         Atomic!Call, Atomic!split_counterandmax_int
  <2> QED BY <1>1, <1>2, <2>1, <2>2 DEF AtomicInv
<1>6. CASE Atomic!Return(t)
  <2>1. AtomicType'
    BY <1>2, <1>6, AtomicBase DEF AtomicType, AtomicHolds, Atomic!Return
  <2>2. ASSUME NEW e \in Threads PROVE AtomicCall(e)' /\ AtomicOwner(e)' /\ AtomicThief(e)'
    BY <1>2, <1>6, <2>2, AtomicBase DEF AtomicInv, AtomicType, AtomicHolds, AtomicCall, AtomicOwner, AtomicThief, After,
         Atomic!Return, Atomic!split_counterandmax_int
  <2> QED BY <1>1, <1>2, <2>1, <2>2 DEF AtomicInv
<1>7. CASE Atomic!ReadBegin(t)
  <2>1. AtomicType'
    BY <1>2, <1>7 DEF AtomicType, AtomicHolds, Atomic!ReadBegin
  <2>2. ASSUME NEW e \in Threads PROVE AtomicCall(e)' /\ AtomicOwner(e)' /\ AtomicThief(e)'
    BY <1>2, <1>7, <2>2, AtomicBase DEF AtomicInv, AtomicType, AtomicHolds, AtomicCall, AtomicOwner, AtomicThief, After,
         Atomic!ReadBegin, Atomic!split_counterandmax_int, NoThread, Threads
  <2> QED BY <1>1, <1>2, <2>1, <2>2 DEF AtomicInv
<1>8. CASE Atomic!ReadNext(t)
  <2>1. /\ pc[t] = "read" /\ Atomic!Advance(t, "read", "read_done") /\ UNCHANGED <<gblcnt_mutex, old, request, ret>>
    BY <1>8 DEF Atomic!ReadNext
  <2>2. /\ scan' \in [Threads -> Threads]
        /\ \/ pc' = [pc EXCEPT ![t] = "read"] /\ \A e \in Threads : e # t => scan'[e] = scan[e]
           \/ pc' = [pc EXCEPT ![t] = "read_done"] /\ scan' = [scan EXCEPT ![t] = 0]
    BY <1>2, <2>1, AtomicAdvance DEF AtomicType
  <2>3. AtomicType'
    BY <1>1, <1>2, <2>1, <2>2 DEF AtomicType, AtomicHolds
  <2>4. ASSUME NEW e \in Threads PROVE AtomicCall(e)' /\ AtomicOwner(e)' /\ AtomicThief(e)'
    BY <1>2, <2>1, <2>2, <2>4 DEF AtomicInv, AtomicType, AtomicHolds, AtomicCall, AtomicOwner, AtomicThief, After,
         Atomic!split_counterandmax_int
  <2> QED BY <1>1, <1>2, <2>3, <2>4 DEF AtomicInv
<1>9. CASE Atomic!ReadEnd(t)
  <2>1. AtomicType'
    BY <1>2, <1>9 DEF AtomicType, AtomicHolds, Atomic!ReadEnd
  <2>2. ASSUME NEW e \in Threads PROVE AtomicCall(e)' /\ AtomicOwner(e)' /\ AtomicThief(e)'
    BY <1>2, <1>9, <2>2, AtomicBase DEF AtomicInv, AtomicType, AtomicHolds, AtomicCall, AtomicOwner, AtomicThief, After,
         Atomic!ReadEnd, Atomic!split_counterandmax_int, NoThread, Threads
  <2> QED BY <1>1, <1>2, <2>1, <2>2 DEF AtomicInv
<1> QED BY <1>3, <1>4, <1>5, <1>6, <1>7, <1>8, <1>9

\* count_unregister_thread() gives count and reserve back; the value stays.
LEMMA AtomicUnregister ==
  ASSUME AtomicInv, NEW t \in Threads, Atomic!Unregister(t)
  PROVE  AtomicInv' /\ UNCHANGED <<request, ret>> /\ Value(globalcount, Counts)' = Value(globalcount, Counts)
<1>1. /\ AtomicType /\ AtomicBalanced
      /\ pc[t] = "idle" /\ pc' = [pc EXCEPT ![t] = "off"] /\ gblcnt_mutex = NoThread
      /\ UNCHANGED <<gblcnt_mutex, old, request, ret, scan>>
  BY AtomicBase DEF AtomicInv, Atomic!Unregister, Atomic!Goto, Atomic!locals
<1>2. AtomicSettle(t, globalcount + Counts[t], 0, 0)
  <2>1. Atomic!Minus(globalreserve, Maxes[t]) = globalreserve - Maxes[t]
    BY <1>1, AtomicTakenBack, AtomicBase
  <2>2. Counts[t] = Atomic!C(t) /\ Maxes[t] = Atomic!CM(t)
    BY <1>1, AtomicHalves
  <2>3. 0 \in 0 .. Atomic!HALF - 1
    BY HalfIs
  <2> QED BY <1>1, <2>1, <2>2, <2>3, AtomicTakenBack DEF Atomic!Unregister, AtomicSettle
<1>3. globalcount + Counts[t] \in Int /\ Value(globalcount, Counts) \in Int
  BY <1>1, AtomicTakenBack, BooksBound DEF AtomicBalanced
<1>4. /\ AtomicBalanced' /\ Value(globalcount, Counts)' = Value(globalcount, Counts)
      /\ Maxes' = [Maxes EXCEPT ![t] = 0] /\ counterandmax' \in [Threads -> Nat]
  BY <1>1, <1>2, <1>3, AtomicSettleBooks
<1>5. AtomicType'
  BY <1>1, <1>4 DEF AtomicType
<1>6. Maxes \in [Threads -> Nat]
  BY <1>1 DEF AtomicBalanced, Books
<1>7. ASSUME NEW e \in Threads PROVE AtomicCall(e)' /\ AtomicOwner(e)' /\ AtomicThief(e)'
  <2>1. AtomicCall(e) /\ AtomicOwner(e) /\ AtomicThief(e)
    BY <1>7 DEF AtomicInv
  <2>2. AtomicCall(e)' /\ AtomicOwner(e)'
    BY <1>1, <1>4, <1>6, <2>1 DEF AtomicType, AtomicCall, AtomicOwner, After, Atomic!split_counterandmax_int
  <2>3. AtomicThief(e)'
    BY <1>1, <1>4, <1>6, <2>1 DEF AtomicType, AtomicThief, AtomicHolds, NoThread, Threads
  <2> QED BY <2>2, <2>3
<1> QED BY <1>1, <1>4, <1>5, <1>7 DEF AtomicInv

\* The cmpxchg of the fast path: it changes the value by delta if the word is still the one loaded,
\* and nothing if a flush has emptied it.
LEMMA AtomicFastCas ==
  ASSUME AtomicInv, NEW t \in Threads, Atomic!FastCas(t)
  PROVE  /\ AtomicInv'
         /\ request[t] \in Requests /\ ret[t] = "none" /\ UNCHANGED request
         /\ \/ /\ ret' = [ret EXCEPT ![t] = "ok"]
               /\ Value(globalcount, Counts)' = After(t, Value(globalcount, Counts))
            \/ ret' = ret /\ Value(globalcount, Counts)' = Value(globalcount, Counts)
         /\ Maxes' = Maxes
<1> DEFINE v == Value(globalcount, Counts)
           n == After(t, Counts[t])
<1>1. /\ AtomicType /\ AtomicBalanced
      /\ pc[t] = "cas" /\ request[t] \in Requests /\ ret[t] = "none"
      /\ old' = [old EXCEPT ![t] = 0]
      /\ UNCHANGED <<globalcount, globalreserve, gblcnt_mutex, request, scan>>
  BY DEF AtomicInv, AtomicCall, Atomic!FastCas, Atomic!Goto
<1>2. v \in Int
  BY <1>1, BooksBound DEF AtomicBalanced
<1>3. Maxes \in [Threads -> Nat]
  BY <1>1 DEF AtomicBalanced, Books
<1>4. CASE counterandmax[t] = old[t]
  <2>1. /\ pc' = [pc EXCEPT ![t] = "return"] /\ ret' = [ret EXCEPT ![t] = "ok"]
        /\ counterandmax' = [counterandmax EXCEPT ![t] = Atomic!New(t)]
    BY <1>1, <1>4 DEF Atomic!FastCas, Atomic!Goto
  <2>2. Counts[t] = Atomic!split_counterandmax_int(old[t])[1] /\ Maxes[t] = Atomic!split_counterandmax_int(old[t])[2]
    BY <1>1, <1>4, AtomicHalves DEF Atomic!C, Atomic!CM
  <2>3. n \in 0 .. Maxes[t]
    BY <1>1, <2>2 DEF AtomicInv, AtomicOwner
  <2>4. request[t].op \in {"add", "sub"} /\ request[t].delta \in Nat
    BY <1>1, RequestIs
  <2>5. Counts[t] \in Nat /\ Maxes[t] \in Nat /\ Counts[t] < WORD
    <3>1. /\ Counts[t] \in Nat /\ Maxes[t] \in Nat /\ globalreserve \in Nat
          /\ Counts[t] <= Maxes[t] /\ Maxes[t] <= globalreserve /\ globalreserve < WORD
      BY <1>1, AtomicTakenBack
    <3> QED BY <3>1, CounterAssumption
  <2>6. Atomic!Moved(t, Counts[t]) = n
    <3>1. ASSUME request[t].op = "sub" PROVE request[t].delta <= Counts[t]
      BY <2>3, <2>4, <2>5, <3>1 DEF After
    <3> QED BY <2>4, <2>5, <3>1, MinusSmaller, AtomicBase DEF Moved, Minus, After
  <2>7. n \in 0 .. Atomic!HALF - 1 /\ Maxes[t] \in 0 .. Atomic!HALF - 1 /\ n \in Nat /\ n <= Maxes[t]
    <3>1. Maxes[t] \in 0 .. Atomic!HALF - 1
      BY <1>1, AtomicHalves
    <3> HIDE DEF n
    <3> QED BY <2>3, <3>1, HalfIs
  <2>8. counterandmax' = [counterandmax EXCEPT ![t] = Atomic!merge_counterandmax(n, Maxes[t])]
    BY <2>1, <2>2, <2>6 DEF Atomic!New
  <2> HIDE DEF n
  <2>9. Counts' = [Counts EXCEPT ![t] = n] /\ Maxes' = [Maxes EXCEPT ![t] = Maxes[t]] /\ counterandmax' \in [Threads -> Nat]
    BY <1>1, <2>7, <2>8, AtomicWrite
  <2>10. Maxes' = Maxes
    BY <1>3, <2>9
  <2>11. /\ Books(globalcount, globalreserve, [Counts EXCEPT ![t] = n], Maxes)
         /\ Value(globalcount, [Counts EXCEPT ![t] = n]) = v + n - Counts[t]
    <3>1. Books(globalcount, globalreserve, Counts, Maxes)
      BY <1>1 DEF AtomicBalanced
    <3> QED BY <2>7, <3>1, BooksFast
  <2>12. AtomicBalanced' /\ v' = v + n - Counts[t]
    BY <1>1, <2>9, <2>10, <2>11 DEF AtomicBalanced, Value
  <2>13. v' = After(t, v)
    <3> HIDE DEF v
    <3> QED BY <1>2, <2>4, <2>5, <2>12 DEF After, n
  <2>14. AtomicType'
    BY <1>1, <2>1, <2>9 DEF AtomicType
  <2>15. ASSUME NEW e \in Threads PROVE AtomicCall(e)' /\ AtomicOwner(e)' /\ AtomicThief(e)'
    <3>1. AtomicCall(e) /\ AtomicOwner(e) /\ AtomicThief(e)
      BY <2>15 DEF AtomicInv
    <3> QED BY <1>1, <2>1, <2>10, <3>1 DEF AtomicType, AtomicCall, AtomicOwner, AtomicThief, AtomicHolds, After, Atomic!split_counterandmax_int
  <2> QED BY <1>1, <2>1, <2>10, <2>12, <2>13, <2>14, <2>15 DEF AtomicInv
<1>5. CASE counterandmax[t] # old[t]
  <2>1. pc' = [pc EXCEPT ![t] = "load"] /\ UNCHANGED <<counterandmax, ret>>
    BY <1>1, <1>5 DEF Atomic!FastCas, Atomic!Goto
  <2>2. Maxes' = Maxes /\ AtomicBalanced' /\ v' = v
    BY <1>1, <2>1, AtomicKept
  <2>3. AtomicType'
    BY <1>1, <2>1 DEF AtomicType
  <2>4. ASSUME NEW e \in Threads PROVE AtomicCall(e)' /\ AtomicOwner(e)' /\ AtomicThief(e)'
    <3>1. AtomicCall(e) /\ AtomicOwner(e) /\ AtomicThief(e)
      BY <2>4 DEF AtomicInv
    <3> QED BY <1>1, <2>1, <2>2, <3>1 DEF AtomicType, AtomicCall, AtomicOwner, AtomicThief, AtomicHolds, After, Atomic!split_counterandmax_int
  <2> QED BY <1>1, <2>1, <2>2, <2>3, <2>4 DEF AtomicInv
<1> QED BY <1>4, <1>5

\* The slow path up to flush_local_count(): either it commits, or it begins to flush, having given
\* its own share back.
LEMMA AtomicSlowPath ==
  ASSUME AtomicInv, NEW t \in Threads, Atomic!SlowPath(t)
  PROVE  /\ AtomicInv'
         /\ request[t] \in Requests /\ ret[t] = "none" /\ UNCHANGED request
         /\ \/ /\ ret' = [ret EXCEPT ![t] = "ok"]
               /\ Value(globalcount, Counts)' = After(t, Value(globalcount, Counts))
            \/ ret' = ret /\ Value(globalcount, Counts)' = Value(globalcount, Counts)
<1> DEFINE count == globalcount + Counts[t]
           reserve == globalreserve - Maxes[t]
           v == Value(globalcount, Counts)
<1>1. /\ AtomicType /\ AtomicBalanced
      /\ pc[t] = "slow" /\ gblcnt_mutex = NoThread
      /\ request[t] \in Requests /\ ret[t] = "none"
      /\ old' = [old EXCEPT ![t] = 0]
      /\ UNCHANGED <<request, scan>>
  BY AtomicBase DEF AtomicInv, AtomicCall, Atomic!SlowPath
<1>2. v \in Int /\ count \in Nat /\ reserve \in Nat /\ request[t].delta \in Int
  BY <1>1, AtomicTakenBack, BooksBound, RequestIs DEF AtomicBalanced
<1>3. /\ Atomic!Minus(globalreserve, Atomic!CM(t)) = reserve
      /\ globalcount + Atomic!C(t) = count
  <2>1. Counts[t] = Atomic!C(t) /\ Maxes[t] = Atomic!CM(t)
    BY <1>1, AtomicHalves
  <2> QED BY <1>1, <2>1, AtomicTakenBack, AtomicBase
<1>4. Maxes \in [Threads -> Nat]
  BY <1>1 DEF AtomicBalanced, Books
<1>5. CASE Fits(t, count, reserve)
  <2>1. pc' = [pc EXCEPT ![t] = "return"] /\ UNCHANGED gblcnt_mutex /\ Atomic!Commit(t, count, reserve)
    BY <1>3, <1>5, AtomicBase DEF Atomic!SlowPath, Atomic!Goto
  <2>2. (\E cm, n : AtomicSettle(t, After(t, count), cm, n)) /\ ret' = [ret EXCEPT ![t] = "ok"]
    BY <1>1, <1>5, <2>1, AtomicCommit
  <2>3. PICK cm, n : AtomicSettle(t, After(t, count), cm, n)
    BY <2>2
  <2>4. /\ AtomicBalanced' /\ v' = v + After(t, count) - count
        /\ Maxes' = [Maxes EXCEPT ![t] = cm] /\ counterandmax' \in [Threads -> Nat]
    BY <1>1, <2>3, AtomicSettleBooks
  <2>5. v' = After(t, v)
    BY <1>2, <2>4 DEF After
  <2>6. AtomicType'
    BY <1>1, <2>1, <2>2, <2>4 DEF AtomicType
  <2>7. ASSUME NEW e \in Threads PROVE AtomicCall(e)' /\ AtomicOwner(e)' /\ AtomicThief(e)'
    <3>1. AtomicCall(e) /\ AtomicOwner(e) /\ AtomicThief(e)
      BY <2>7 DEF AtomicInv
    <3>2. AtomicCall(e)' /\ AtomicOwner(e)'
      BY <1>1, <1>4, <2>1, <2>2, <2>4, <3>1 DEF AtomicType, AtomicCall, AtomicOwner, After, Atomic!split_counterandmax_int
    <3>3. AtomicThief(e)'
      BY <1>1, <2>1, <3>1 DEF AtomicType, AtomicThief, AtomicHolds, NoThread, Threads
    <3> QED BY <3>2, <3>3
  <2> QED BY <1>1, <2>2, <2>4, <2>5, <2>6, <2>7 DEF AtomicInv
<1>6. CASE ~ Fits(t, count, reserve)
  <2>1. /\ pc' = [pc EXCEPT ![t] = IF reserve = 0 THEN "recheck" ELSE "flush"] /\ gblcnt_mutex' = t /\ ret' = ret
        /\ globalcount' = count /\ globalreserve' = reserve
        /\ counterandmax' = [counterandmax EXCEPT ![t] = Atomic!merge_counterandmax(0, 0)]
    BY <1>3, <1>6, AtomicBase DEF Atomic!SlowPath, Atomic!Goto
  <2>2. AtomicSettle(t, count, 0, 0)
    <3>1. 0 \in 0 .. Atomic!HALF - 1
      BY HalfIs
    <3>2. count + reserve <= globalcountmax
      BY <1>1, AtomicTakenBack
    <3> QED BY <1>2, <2>1, <3>1, <3>2 DEF AtomicSettle
  <2>3. /\ AtomicBalanced' /\ v' = v
        /\ Maxes' = [Maxes EXCEPT ![t] = 0] /\ counterandmax' \in [Threads -> Nat]
    BY <1>1, <1>2, <2>2, AtomicSettleBooks
  <2>4. reserve = 0 => \A s \in Threads : Maxes'[s] = 0
    <3>1. \A s \in Threads : Maxes'[s] <= globalreserve' /\ Maxes'[s] \in Nat
      <4>1. (AtomicBalanced => \A s \in Threads : Maxes[s] <= globalreserve /\ Maxes[s] \in Nat)'
        <5>1. AtomicBalanced => \A s \in Threads : Maxes[s] <= globalreserve /\ Maxes[s] \in Nat
          BY AtomicTakenBack
        <5> QED BY BooksBound DEF AtomicBalanced, Books
      <4> QED BY <2>3, <4>1
    <3> QED BY <2>1, <3>1
  <2>5. AtomicType'
    BY <1>1, <2>1, <2>3 DEF AtomicType, AtomicHolds
  <2>6. ASSUME NEW e \in Threads PROVE AtomicCall(e)' /\ AtomicOwner(e)' /\ AtomicThief(e)'
    <3>1. AtomicCall(e) /\ AtomicOwner(e) /\ AtomicThief(e) /\ AtomicThief(t)
      BY <2>6 DEF AtomicInv
    <3> HIDE DEF count, reserve
    <3>2. AtomicCall(e)' /\ AtomicOwner(e)'
      BY <1>1, <1>4, <2>1, <2>3, <3>1 DEF AtomicType, AtomicCall, AtomicOwner, After, Atomic!split_counterandmax_int
    <3>3. CASE e = t
      <4>1. scan'[t] = 0 /\ pc'[t] \in {"recheck", "flush"} /\ (pc'[t] = "recheck" => reserve = 0)
        BY <1>1, <2>1, <3>1 DEF AtomicType, AtomicThief
      <4>2. AtomicThief(t)'
        BY <2>1, <2>4, <4>1 DEF AtomicThief, AtomicHolds
      <4> QED BY <3>2, <3>3, <4>2
    <3>4. CASE e # t
      <4>1. pc'[e] = pc[e] /\ scan'[e] = scan[e] /\ pc[e] \notin AtomicHolds
        BY <1>1, <2>1, <3>1, <3>4 DEF AtomicType, AtomicThief, NoThread, Threads
      <4>2. AtomicThief(e)'
        BY <2>1, <3>1, <3>4, <4>1 DEF AtomicThief, AtomicHolds
      <4> QED BY <3>2, <4>2
    <3> QED BY <3>3, <3>4
  <2> QED BY <1>1, <2>1, <2>3, <2>5, <2>6 DEF AtomicInv
<1> QED BY <1>5, <1>6

\* flush_local_count() takes a thread's word away in one exchange: the value stays.
LEMMA AtomicFlushXchg ==
  ASSUME AtomicInv, NEW u \in Threads, Atomic!FlushXchg(u)
  PROVE  /\ AtomicInv' /\ UNCHANGED <<request, ret>>
         /\ Value(globalcount, Counts)' = Value(globalcount, Counts)
<1> DEFINE t == scan[u]
           v == Value(globalcount, Counts)
<1>1. AtomicType /\ AtomicBalanced /\ t \in Threads /\ Maxes \in [Threads -> Nat]
  BY DEF AtomicInv, AtomicType, AtomicBalanced, Books
<1>2. /\ pc[u] = "flush" /\ Atomic!Advance(u, "flush", "recheck")
      /\ UNCHANGED <<gblcnt_mutex, old, request, ret>>
  BY DEF Atomic!FlushXchg
<1>3. /\ AtomicBalanced' /\ v' = v
      /\ counterandmax' \in [Threads -> Nat]
      /\ Maxes'[t] = 0
      /\ \A e \in Threads : Maxes[e] = 0 => Maxes'[e] = 0
  <2>1. CASE pc[t] = "off"
    <3>1. UNCHANGED <<globalcount, globalreserve, counterandmax>>
      BY <2>1 DEF Atomic!FlushXchg, Atomic!Registered
    <3>2. Maxes[t] = 0
      BY <1>1, <2>1 DEF AtomicInv, AtomicOwner
    <3> QED BY <1>1, <3>1, <3>2, AtomicKept DEF AtomicType
  <2>2. CASE pc[t] # "off"
    <3>1. /\ globalcount' = globalcount + Atomic!C(t)
          /\ globalreserve' = Atomic!Minus(globalreserve, Atomic!CM(t))
          /\ counterandmax' = [counterandmax EXCEPT ![t] = Atomic!merge_counterandmax(0, 0)]
      BY <2>2 DEF Atomic!FlushXchg, Atomic!Registered
    <3> HIDE DEF t
    <3>2. AtomicSettle(t, globalcount + Counts[t], 0, 0)
      <4>1. Atomic!Minus(globalreserve, Maxes[t]) = globalreserve - Maxes[t]
        BY <1>1, AtomicTakenBack, AtomicBase
      <4>2. Counts[t] = Atomic!C(t) /\ Maxes[t] = Atomic!CM(t)
        BY <1>1, AtomicHalves
      <4>3. 0 \in 0 .. Atomic!HALF - 1
        BY HalfIs
      <4> QED BY <1>1, <3>1, <4>1, <4>2, <4>3, AtomicTakenBack DEF AtomicSettle
    <3>3. v \in Int /\ globalcount + Counts[t] \in Int
      BY <1>1, AtomicTakenBack, BooksBound DEF AtomicBalanced
    <3>4. /\ AtomicBalanced' /\ v' = v
          /\ Maxes' = [Maxes EXCEPT ![t] = 0] /\ counterandmax' \in [Threads -> Nat]
      BY <1>1, <3>2, <3>3, AtomicSettleBooks
    <3> HIDE DEF v
    <3> QED BY <1>1, <3>4
  <2> QED BY <2>1, <2>2
<1>4. /\ scan' \in [Threads -> Threads]
      /\ \/ pc' = [pc EXCEPT ![u] = "flush"] /\ scan' = [scan EXCEPT ![u] = t + 1]
         \/ pc' = [pc EXCEPT ![u] = "recheck"] /\ scan' = [scan EXCEPT ![u] = 0] /\ t = NR_THREADS - 1
  BY <1>1, <1>2, AtomicAdvance DEF AtomicType
<1>5. AtomicType'
  BY <1>1, <1>2, <1>3, <1>4 DEF AtomicType, AtomicHolds
<1>6. ASSUME NEW e \in Threads PROVE AtomicCall(e)' /\ AtomicOwner(e)' /\ AtomicThief(e)'
  <2>1. AtomicCall(e) /\ AtomicOwner(e) /\ AtomicThief(e) /\ AtomicThief(u)
    BY <1>6 DEF AtomicInv
  <2>2. AtomicCall(e)' /\ AtomicOwner(e)'
    BY <1>1, <1>2, <1>3, <1>4, <2>1 DEF AtomicType, AtomicCall, AtomicOwner, After, Atomic!split_counterandmax_int
  <2>3. \A s \in 0 .. t - 1 : Maxes[s] = 0
    BY <1>2, <2>1 DEF AtomicThief
  <2>4. \A s \in 0 .. t : s \in Threads /\ Maxes'[s] = 0
    <3> HIDE DEF t
    <3>1. ASSUME NEW s \in 0 .. t PROVE s \in 0 .. t - 1 \/ s = t
      BY <1>1, <3>1 DEF Threads
    <3>2. \A s \in 0 .. t - 1 : s \in Threads
      BY <1>1, Below
    <3> QED BY <1>1, <1>3, <2>3, <3>1, <3>2
  <2>5. ASSUME e = u PROVE AtomicThief(e)'
    <3>1. (pc[u] \in AtomicHolds <=> gblcnt_mutex = u)'
      BY <1>1, <1>2, <1>4, <2>1, <2>5 DEF AtomicType, AtomicThief, AtomicHolds
    <3>2. CASE pc' = [pc EXCEPT ![u] = "flush"] /\ scan' = [scan EXCEPT ![u] = t + 1]
      <4>1. scan'[u] = t + 1 /\ pc'[u] = "flush" /\ (t + 1) - 1 = t
        BY <1>1, <3>2 DEF AtomicType, Threads
      <4> QED BY <2>4, <2>5, <3>1, <4>1 DEF AtomicThief
    <3>3. CASE pc' = [pc EXCEPT ![u] = "recheck"] /\ scan' = [scan EXCEPT ![u] = 0] /\ t = NR_THREADS - 1
      <4>1. pc'[u] = "recheck" /\ scan'[u] = 0
        BY <1>1, <3>3 DEF AtomicType
      <4>2. \A s \in Threads : Maxes'[s] = 0
        BY <2>4, <3>3 DEF Threads
      <4> QED BY <2>5, <3>1, <4>1, <4>2 DEF AtomicThief
    <3> QED BY <1>4, <3>2, <3>3
  <2>6. ASSUME e # u PROVE AtomicThief(e)'
    <3>1. pc'[e] = pc[e] /\ scan'[e] = scan[e] /\ scan[e] \in Threads
      BY <1>1, <1>4, <2>6 DEF AtomicType
    <3> HIDE DEF t
    <3>2. \A s \in 0 .. scan[e] - 1 : s \in Threads
      BY <3>1, Below
    <3> QED BY <1>2, <1>3, <2>1, <3>1, <3>2 DEF AtomicThief
  <2> QED BY <2>2, <2>5, <2>6
<1> QED BY <1>2, <1>3, <1>5, <1>6 DEF AtomicInv

\* After the flush the slow path tests again; countermax of every thread is still zero because only
\* the holder of the mutex hands it out, so that a failure means that the limit is in the way.
LEMMA AtomicRecheck ==
  ASSUME AtomicInv, NEW t \in Threads, Atomic!Recheck(t)
  PROVE  /\ AtomicInv'
         /\ request[t] \in Requests /\ ret[t] = "none" /\ UNCHANGED request
         /\ \/ /\ ret' = [ret EXCEPT ![t] = "ok"]
               /\ Value(globalcount, Counts)' = After(t, Value(globalcount, Counts))
            \/ /\ ret' = [ret EXCEPT ![t] = "fail"]
               /\ Value(globalcount, Counts)' = Value(globalcount, Counts)
               /\ After(t, Value(globalcount, Counts)) \notin 0 .. globalcountmax
<1> DEFINE v == Value(globalcount, Counts)
<1>1. /\ AtomicType /\ AtomicBalanced
      /\ pc[t] = "recheck" /\ pc' = [pc EXCEPT ![t] = "return"]
      /\ gblcnt_mutex' = NoThread /\ UNCHANGED <<old, request, scan>>
  BY AtomicBase DEF AtomicInv, Atomic!Recheck, Atomic!Goto
<1>2. request[t] \in Requests /\ ret[t] = "none" /\ gblcnt_mutex = t /\ \A s \in Threads : Maxes[s] = 0
  BY <1>1 DEF AtomicInv, AtomicCall, AtomicThief, AtomicHolds
<1>3. globalreserve = 0 /\ v = globalcount /\ Counts[t] = 0 /\ Maxes[t] = 0
  <2>1. \A s \in Threads : Counts[s] = 0
    BY <1>1, <1>2 DEF AtomicBalanced, Books
  <2>2. Sum(Counts, Threads) = 0 /\ Sum(Maxes, Threads) = 0
    BY <1>2, <2>1, ThreadsFinite, SumZero
  <2> QED BY <1>1, <1>2, <2>1, <2>2 DEF AtomicBalanced, Books, Value
<1>4. globalcount \in Nat /\ globalcount + globalreserve <= globalcountmax /\ Maxes \in [Threads -> Nat]
  BY <1>1 DEF AtomicBalanced, Books
<1>5. request[t].delta \in Int
  BY <1>2, RequestIs
<1> HIDE DEF v
<1>6. CASE Fits(t, globalcount, globalreserve)
  <2>1. Atomic!Commit(t, globalcount, globalreserve)
    BY <1>6, AtomicBase DEF Atomic!Recheck
  <2>2. globalcount = globalcount + Counts[t] /\ globalreserve = globalreserve - Maxes[t]
    BY <1>3, <1>4
  <2>3. (\E cm, n : AtomicSettle(t, After(t, globalcount), cm, n)) /\ ret' = [ret EXCEPT ![t] = "ok"]
    BY <1>1, <1>2, <1>6, <2>1, <2>2, AtomicCommit
  <2>4. PICK cm, n : AtomicSettle(t, After(t, globalcount), cm, n)
    BY <2>3
  <2>5. /\ AtomicBalanced' /\ v' = v + After(t, globalcount) - (globalcount + Counts[t])
        /\ Maxes' = [Maxes EXCEPT ![t] = cm] /\ counterandmax' \in [Threads -> Nat]
    BY <1>1, <2>4, AtomicSettleBooks DEF v
  <2>6. v' = After(t, v)
    BY <1>3, <1>4, <1>5, <2>5 DEF After
  <2>7. AtomicType'
    BY <1>1, <2>3, <2>5 DEF AtomicType
  <2>8. ASSUME NEW e \in Threads PROVE AtomicCall(e)' /\ AtomicOwner(e)' /\ AtomicThief(e)'
    <3>1. AtomicCall(e) /\ AtomicOwner(e) /\ AtomicThief(e) /\ AtomicThief(t)
      BY <2>8 DEF AtomicInv
    <3>2. AtomicCall(e)' /\ AtomicOwner(e)'
      BY <1>1, <1>2, <1>4, <2>3, <2>5, <3>1 DEF AtomicType, AtomicCall, AtomicOwner, After, Atomic!split_counterandmax_int
    <3>3. AtomicThief(e)'
      BY <1>1, <1>2, <3>1 DEF AtomicType, AtomicThief, AtomicHolds, NoThread, Threads
    <3> QED BY <3>2, <3>3
  <2> QED BY <1>1, <1>2, <2>3, <2>5, <2>6, <2>7, <2>8 DEF AtomicInv, v
<1>7. CASE ~ Fits(t, globalcount, globalreserve)
  <2>1. ret' = [ret EXCEPT ![t] = "fail"] /\ UNCHANGED <<globalcount, globalreserve, counterandmax>>
    BY <1>7, AtomicBase DEF Atomic!Recheck
  <2>2. After(t, v) \notin 0 .. globalcountmax
    BY <1>2, <1>3, <1>4, <1>7, FitsMeansRoom
  <2>3. AtomicBalanced' /\ v' = v /\ Maxes' = Maxes
    BY <1>1, <2>1, AtomicKept DEF v
  <2>4. AtomicType'
    BY <1>1, <2>1 DEF AtomicType
  <2>5. ASSUME NEW e \in Threads PROVE AtomicCall(e)' /\ AtomicOwner(e)' /\ AtomicThief(e)'
    <3>1. AtomicCall(e) /\ AtomicOwner(e) /\ AtomicThief(e) /\ AtomicThief(t)
      BY <2>5 DEF AtomicInv
    <3>2. AtomicCall(e)' /\ AtomicOwner(e)'
      BY <1>1, <1>2, <2>1, <2>3, <3>1 DEF AtomicType, AtomicCall, AtomicOwner, After, Atomic!split_counterandmax_int
    <3>3. AtomicThief(e)'
      BY <1>1, <1>2, <3>1 DEF AtomicType, AtomicThief, AtomicHolds, NoThread, Threads
    <3> QED BY <3>2, <3>3
  <2> QED BY <1>1, <1>2, <2>1, <2>2, <2>3, <2>4, <2>5 DEF AtomicInv, v
<1> QED BY <1>6, <1>7

\* The total that LimitCounter is about is the value of the books.
LEMMA AtomicTotal == impl = "count_lim_atomic" => Total = Value(globalcount, Counts)
<1>1. Atomic!Total = globalcount + Atomic!MapThenSumSet(LAMBDA t : Atomic!C(t), Threads)
  BY AtomicBase DEF Atomic!Total
<1>2. Atomic!Total = Value(globalcount, Counts)
  BY <1>1, AtomicSums DEF Value
<1> QED BY <1>2 DEF Total, Approximate

\* The property of CountLimAtomic is about the same sums.
LEMMA AtomicReserve ==
  ASSUME AtomicType
  PROVE  Atomic!ReserveCoversCountermax <=>
           /\ globalreserve = Sum(Maxes, Threads)
           /\ globalcount + globalreserve <= globalcountmax
           /\ \A t \in Threads : Counts[t] <= Maxes[t]
<1>1. Atomic!ReserveCoversCountermax <=>
        /\ globalreserve = Atomic!MapThenSumSet(LAMBDA t : Atomic!CM(t), Threads)
        /\ globalcount + globalreserve <= globalcountmax
        /\ \A t \in Threads : Atomic!C(t) <= Atomic!CM(t)
  BY AtomicBase DEF Atomic!ReserveCoversCountermax
<1>2. \A t \in Threads : Counts[t] = Atomic!C(t) /\ Maxes[t] = Atomic!CM(t)
  BY AtomicHalves
<1> QED BY <1>1, <1>2, AtomicSums

\* Every step of count_lim_atomic.c keeps its invariant and is a step of LimitCounter.
LEMMA AtomicStep ==
  ASSUME AtomicInv, AtomicNext
  PROVE  AtomicInv' /\ impl' = impl /\ [LC!Next]_(LC!lcvars)
<1>1. impl = "count_lim_atomic" /\ impl' = impl
  BY DEF AtomicNext
<1>2. Total = Value(globalcount, Counts)
  BY <1>1, AtomicTotal
<1>3. Total' = Value(globalcount, Counts)'
  <2>1. (impl = "count_lim_atomic" => Total = Value(globalcount, Counts))'
    BY AtomicTotal, PTL
  <2> QED BY <1>1, <2>1
<1>4. AtomicInv' => Total' \in 0 .. globalcountmax
  <2>1. (AtomicBalanced => Value(globalcount, Counts) \in 0 .. globalcountmax)'
    BY BooksBound DEF AtomicBalanced
  <2> QED BY <1>3, <2>1 DEF AtomicInv
<1>5. PICK t \in Threads :
        \/ Atomic!Register(t) \/ Atomic!Unregister(t)
        \/ \E r \in Requests : Atomic!Call(t, r)
        \/ Atomic!FastLoad(t) \/ Atomic!FastCas(t) \/ Atomic!SlowPath(t) \/ Atomic!FlushXchg(t)
        \/ Atomic!Recheck(t) \/ Atomic!Return(t)
        \/ Atomic!ReadBegin(t) \/ Atomic!ReadNext(t) \/ Atomic!ReadEnd(t)
  BY AtomicBase DEF AtomicNext, Atomic!Next
<1> SUFFICES AtomicInv' /\ Promised(t)
  BY <1>1, <1>4, PromisedIsStep
<1>6. UNCHANGED <<globalcount, counterandmax>> => Total' = Total
  BY <1>2, <1>3 DEF Value, Counts, Atomic!C
<1>7. CASE Atomic!Register(t) \/ Atomic!FastLoad(t) \/ Atomic!ReadBegin(t) \/ Atomic!ReadNext(t) \/ Atomic!ReadEnd(t)
  <2>1. UNCHANGED <<request, ret>>
    BY <1>7 DEF Atomic!Register, Atomic!FastLoad, Atomic!ReadBegin, Atomic!ReadNext, Atomic!ReadEnd, Atomic!locals
  <2> QED BY <1>6, <1>7, <2>1, AtomicSimple DEF Promised
<1>8. CASE Atomic!Unregister(t)
  BY <1>2, <1>3, <1>8, AtomicUnregister DEF Promised
<1>9. CASE \E r \in Requests : Atomic!Call(t, r)
  <2>1. AtomicInv' /\ UNCHANGED <<globalcount, counterandmax>>
    BY <1>9, AtomicSimple
  <2>2. PICK r \in Requests : Atomic!Call(t, r)
    BY <1>9
  <2>3. request[t] = NoRequest
    BY <2>2 DEF AtomicInv, AtomicCall, Atomic!Call, Atomic!Goto
  <2>4. request' = [request EXCEPT ![t] = r] /\ ret' = ret
    BY <2>2 DEF Atomic!Call
  <2> QED BY <1>6, <2>1, <2>3, <2>4 DEF Promised
<1>10. CASE Atomic!FastCas(t)
  BY <1>2, <1>3, <1>10, AtomicFastCas DEF Promised
<1>11. CASE Atomic!SlowPath(t)
  BY <1>2, <1>3, <1>11, AtomicSlowPath DEF Promised
<1>12. CASE Atomic!FlushXchg(t)
  BY <1>2, <1>3, <1>12, AtomicFlushXchg DEF Promised
<1>13. CASE Atomic!Recheck(t)
  BY <1>2, <1>3, <1>13, AtomicRecheck DEF Promised
<1>14. CASE Atomic!Return(t)
  <2>1. AtomicInv' /\ UNCHANGED <<globalcount, counterandmax>>
    BY <1>14, AtomicSimple
  <2>2. ret[t] # "none"
    BY <1>14 DEF AtomicInv, AtomicCall, Atomic!Return, Atomic!Goto
  <2>3. request' = [request EXCEPT ![t] = NoRequest] /\ ret' = [ret EXCEPT ![t] = "none"]
    BY <1>14, AtomicBase DEF Atomic!Return
  <2> QED BY <1>6, <2>1, <2>2, <2>3 DEF Promised
<1> QED BY <1>5, <1>7, <1>8, <1>9, <1>10, <1>11, <1>12, <1>13, <1>14

-----------------------------------------------------------------------------
\* The inductive invariant of all counters: each limit counter's own; the statistical ones have no
\* limit and no books
IInv ==
  /\ impl \in Approximate \union Exact \union Stat!Impls
  /\ impl \in Approximate => LimInv
  /\ impl = "count_lim_sig" => SigInv
  /\ impl = "count_lim_atomic" => AtomicInv
  /\ impl # "count_lim_sig" => \A t \in Threads : theft[t] = "IDLE"

\* A step of a statistical counter is none of a limit counter.
LEMMA StatStep ==
  ASSUME StatNext
  PROVE  impl' = impl /\ [LC!Next]_(LC!lcvars)
<1>1. impl \in Stat!Impls /\ UNCHANGED <<request, ret>>
  BY DEF StatNext, locals
<1>2. impl' = impl
  BY DEF StatNext, Stat!Next, Stat!inc_count, Stat!atomic_inc, Stat!NonatomicLoad, Stat!NonatomicStore, Stat!OwnInc,
         Stat!count_register_thread, Stat!count_unregister_thread, Stat!EndForgets, Stat!EndUnregister,
         Stat!RcuUnregister, Stat!FreeAtOnce, Stat!RcuFree, Stat!TstatUnregister, Stat!TstatExit, Stat!Exit,
         Stat!read_count, Stat!ReadOne, Stat!ReadBegin, Stat!ReadNext, Stat!ReadEnd, Stat!ReadReturn,
         Stat!EventualSum, Stat!EventualStore, Stat!StopAtOnce, Stat!EventualCheck, Stat!WaitAll,
         Stat!count_cleanup, Stat!Done, Stat!svars
<1>3. ~ (impl \in Approximate) /\ ~ (impl = "count_lim_sig") /\ ~ (impl = "count_lim_atomic")
  BY <1>1 DEF Approximate, Stat!Impls
<1>4. Total = 0
  BY <1>3 DEF Total
<1>5. Total' = 0
  BY <1>2, <1>3 DEF Total
<1> QED BY <1>1, <1>2, <1>4, <1>5 DEF LC!lcvars

\* All counters start with balanced books, and with nothing counted.
LEMMA InvInit == Init => IInv /\ LC!Init
<1> SUFFICES ASSUME Init PROVE IInv /\ LC!Init
  OBVIOUS
<1>1. /\ globalcount = 0 /\ globalreserve = 0 /\ gblcnt_mutex = NoThread
      /\ request = [t \in Threads |-> NoRequest] /\ ret = [t \in Threads |-> "none"]
      /\ scan = [t \in Threads |-> 0] /\ pc = [t \in Threads |-> "off"]
      /\ counter = [t \in Threads |-> 0] /\ countermax = [t \in Threads |-> 0]
      /\ theft = [t \in Threads |-> "IDLE"] /\ counting = [t \in Threads |-> FALSE] /\ pending = [t \in Threads |-> FALSE]
  BY SigBase DEF Init, Sig!Init, Sig!InitBase
<1>2. counterandmax = [t \in Threads |-> 0] /\ old = [t \in Threads |-> 0]
  BY AtomicBase DEF Init, Atomic!Init
<1>3. Balanced /\ Value(globalcount, counter) = 0
  BY <1>1, BooksStart DEF Balanced
<1>4. Counts = [t \in Threads |-> 0] /\ Maxes = [t \in Threads |-> 0]
  <2>1. Atomic!split_counterandmax_int(0) = <<0, 0>>
    <3>1. (0 \div Atomic!HALF) % Atomic!HALF = 0 /\ 0 % Atomic!HALF = 0
      BY HalfIs
    <3> QED BY <3>1 DEF Atomic!split_counterandmax_int
  <2> QED BY <1>2, <2>1 DEF Counts, Maxes, Atomic!C, Atomic!CM
<1>5. AtomicBalanced /\ Value(globalcount, Counts) = 0
  BY <1>1, <1>4, BooksStart DEF AtomicBalanced
<1>6. LimInv
  BY <1>1, <1>3 DEF LimInv, LimCall
<1>7. SigInv
  <2>1. SigType
    BY <1>1, ZeroIn DEF SigType
  <2>2. \A t \in Threads : SigCall(t) /\ SigOwner(t) /\ SigThief(t)
    BY <1>1 DEF SigCall, SigOwner, SigThief, SigHolds, NoThread, Threads
  <2> QED BY <1>3, <2>1, <2>2 DEF SigInv
<1>8. AtomicInv
  <2>1. AtomicType
    BY <1>1, <1>2, ZeroIn DEF AtomicType
  <2>2. \A t \in Threads : AtomicCall(t) /\ AtomicOwner(t) /\ AtomicThief(t)
    BY <1>1, <1>4 DEF AtomicCall, AtomicOwner, AtomicThief, AtomicHolds, NoThread, Threads
  <2> QED BY <1>5, <2>1, <2>2 DEF AtomicInv
<1>9. impl \in Approximate \union Exact \union Stat!Impls
  BY DEF Init
<1>10. IInv
  BY <1>1, <1>6, <1>7, <1>8, <1>9 DEF IInv
<1>11. Total = 0
  <2>1. CASE impl \in Approximate
    BY <1>3, <2>1, LimTotal
  <2>2. CASE impl = "count_lim_sig"
    BY <1>3, <2>2, SigTotal
  <2>3. CASE impl = "count_lim_atomic"
    BY <1>5, <2>3, AtomicTotal
  <2>4. CASE ~ (impl \in Approximate) /\ ~ (impl = "count_lim_sig") /\ ~ (impl = "count_lim_atomic")
    BY <2>4 DEF Total
  <2> QED BY <2>1, <2>2, <2>3, <2>4
<1>12. LC!Init
  BY <1>1, <1>11 DEF LC!Init, LC!NoRequest, NoRequest
<1> QED BY <1>10, <1>12

\* A stuttering step keeps the invariant.
LEMMA StutterStep ==
  ASSUME IInv, UNCHANGED vars
  PROVE  IInv' /\ UNCHANGED LC!lcvars
<1>1. /\ impl' = impl
      /\ UNCHANGED <<globalcount, globalreserve, gblcnt_mutex, request, ret, scan, pc, counter, countermax>>
      /\ UNCHANGED <<theft, counting, pending, counterandmax, old>>
  BY DEF vars, globals, locals, sigVars, atomicVars
<1>2. Counts' = Counts /\ Maxes' = Maxes
  BY <1>1, AtomicKept
<1>3. (LimInv => LimInv') /\ (SigInv => SigInv')
  BY <1>1 DEF LimInv, LimCall, Balanced, SigInv, SigType, SigCall, SigOwner, SigThief, After
<1>4. AtomicInv => AtomicInv'
  BY <1>1, <1>2 DEF AtomicInv, AtomicType, AtomicBalanced, AtomicCall, AtomicOwner, AtomicThief, After, Atomic!split_counterandmax_int
<1>5. IInv'
  BY <1>1, <1>3, <1>4 DEF IInv
<1>6. Total' = Total
  <2>1. CASE impl \in Approximate
    <3>1. (impl \in Approximate => Total = Value(globalcount, counter))'
      BY LimTotal, PTL
    <3> QED BY <1>1, <2>1, <3>1, LimTotal DEF Value
  <2>2. CASE impl = "count_lim_sig"
    <3>1. (impl = "count_lim_sig" => Total = Value(globalcount, counter))'
      BY SigTotal, PTL
    <3> QED BY <1>1, <2>2, <3>1, SigTotal DEF Value
  <2>3. CASE impl = "count_lim_atomic"
    <3>1. (impl = "count_lim_atomic" => Total = Value(globalcount, Counts))'
      BY AtomicTotal, PTL
    <3> QED BY <1>1, <1>2, <2>3, <3>1, AtomicTotal DEF Value
  <2>4. CASE ~ (impl \in Approximate) /\ ~ (impl = "count_lim_sig") /\ ~ (impl = "count_lim_atomic")
    BY <1>1, <2>4 DEF Total
  <2> QED BY <2>1, <2>2, <2>3, <2>4
<1> QED BY <1>1, <1>5, <1>6 DEF LC!lcvars

\* Every step of every counter keeps the invariant and is a step of LimitCounter or a stutter.
LEMMA InvNext ==
  ASSUME IInv, [Next]_vars
  PROVE  IInv' /\ [LC!Next]_(LC!lcvars)
<1>1. CASE LimNext
  <2>1. LimInv /\ impl \in Approximate /\ theft' = theft
    BY <1>1 DEF IInv, LimNext, sigVars
  <2>2. LimInv' /\ impl' = impl /\ [LC!Next]_(LC!lcvars)
    BY <1>1, <2>1, LimStep
  <2>3. impl # "count_lim_sig" /\ impl # "count_lim_atomic"
    BY <2>1 DEF Approximate
  <2> QED BY <2>1, <2>2, <2>3 DEF IInv
<1>2. CASE SigNext
  <2>1. SigInv /\ impl = "count_lim_sig"
    BY <1>2 DEF IInv, SigNext, SigOnly
  <2>2. SigInv' /\ impl' = impl /\ [LC!Next]_(LC!lcvars)
    BY <1>2, <2>1, SigStep
  <2>3. impl \notin Approximate
    BY <2>1 DEF Approximate
  <2> QED BY <2>1, <2>2, <2>3 DEF IInv
<1>3. CASE AtomicNext
  <2>1. AtomicInv /\ impl = "count_lim_atomic" /\ theft' = theft
    BY <1>3 DEF IInv, AtomicNext, sigVars
  <2>2. AtomicInv' /\ impl' = impl /\ [LC!Next]_(LC!lcvars)
    BY <1>3, <2>1, AtomicStep
  <2>3. impl \notin Approximate
    BY <2>1 DEF Approximate
  <2> QED BY <2>1, <2>2, <2>3 DEF IInv
<1>4. CASE StatNext
  <2>1. impl \in Stat!Impls /\ theft' = theft
    BY <1>4 DEF StatNext, sigVars
  <2>2. impl' = impl /\ [LC!Next]_(LC!lcvars)
    BY <1>4, StatStep
  <2>3. impl \notin Approximate /\ impl # "count_lim_sig" /\ impl # "count_lim_atomic"
    BY <2>1 DEF Approximate, Stat!Impls
  <2> QED BY <2>1, <2>2, <2>3 DEF IInv
<1>5. CASE UNCHANGED vars
  BY <1>5, StutterStep
<1> QED BY <1>1, <1>2, <1>3, <1>4, <1>5 DEF Next

\* The books are balanced and the threads' locations, the theft protocol and the mutex agree, at all
\* times, for every counter of count/ with a limit.
THEOREM Invariance == Spec => []IInv
<1>1. Init => IInv
  BY InvInit
<1>2. IInv /\ [Next]_vars => IInv'
  BY InvNext
<1> QED BY <1>1, <1>2, PTL DEF Spec

\* ReserveCoversCountermax for every number of threads and every limit: globalreserve is what all
\* threads may still hold, it never exceeds what the limit leaves, and no thread's counter exceeds
\* its countermax. add_count() of every limit counter relies on it to add without looking at the
\* other threads.
THEOREM ReserveCovered == Spec => []ReserveCoversCountermax
<1>1. IInv => ReserveCoversCountermax
  <2> SUFFICES ASSUME IInv PROVE ReserveCoversCountermax
    OBVIOUS
  <2>1. CASE impl \in Approximate
    <3>1. Lim!ReserveCoversCountermax
      BY <2>1, LimReserve DEF IInv, LimInv, Balanced, Books
    <3> QED BY <2>1, <3>1 DEF ReserveCoversCountermax, Approximate
  <2>2. CASE impl = "count_lim_sig"
    <3>1. Sig!ReserveCoversCountermax
      BY <2>2, SigReserve DEF IInv, SigInv, Balanced, Books
    <3> QED BY <2>2, <3>1 DEF ReserveCoversCountermax, Approximate
  <2>3. CASE impl = "count_lim_atomic"
    <3>1. Atomic!ReserveCoversCountermax
      BY <2>3, AtomicReserve DEF IInv, AtomicInv, AtomicBalanced, Books
    <3> QED BY <2>3, <3>1 DEF ReserveCoversCountermax, Approximate
  <2>4. CASE ~ (impl \in Approximate) /\ ~ (impl = "count_lim_sig") /\ ~ (impl = "count_lim_atomic")
    BY <2>4 DEF ReserveCoversCountermax
  <2> QED BY <2>1, <2>2, <2>3, <2>4
<1> QED BY <1>1, Invariance, PTL

\* NoTheftDuringUpdate: in count_lim_sig.c a thread that is about to store its counter is not READY,
\* whatever the order of its own handler, of the thief's requests and of resent signals.
THEOREM OwnerOrThief == Spec => []NoTheftDuringUpdate
<1>1. IInv => NoTheftDuringUpdate
  BY SigBase DEF IInv, SigInv, SigOwner, NoTheftDuringUpdate, Sig!NoTheftDuringUpdate
<1> QED BY <1>1, Invariance, PTL

\* The five limit counters implement LimitCounter (without its fairness): count within 0 ..
\* globalcountmax, calls all or nothing, and from count_lim_sig.c and count_lim_atomic.c no refusal
\* without need.
THEOREM LimitKept == Spec => ImplementsLimitCounter
<1>1. Init => LC!Init
  BY InvInit
<1>2. IInv /\ [Next]_vars => [LC!Next]_(LC!lcvars)
  BY InvNext
<1> QED BY <1>1, <1>2, Invariance, PTL DEF Spec, ImplementsLimitCounter, LC!Spec

-----------------------------------------------------------------------------
(***************************************************************************)
(* The statistical counters                                                *)
(***************************************************************************)

Parent == NR_THREADS
Readers == Threads \union {Parent}

\* Registered, and with the counter in the arrays of count_end_rcu.c
Running == {"idle", "read", "got"}

\* What a reader that has come to thread n, of those in P, has seen of the counters c, and what
\* is to come
Seen(n, P, c) == [t \in Threads |-> IF t \in P /\ t >= n THEN 0 ELSE c[t]]
ToCome(n, P, c) == [t \in Threads |-> IF t \in P /\ t >= n THEN c[t] ELSE 0]

\* The counters of the threads outside of P
Outside(P) == Sum(Seen(0, P, incs), Threads)

Incs == Sum(incs, Threads)

Places == {"off", "idle", "store", "read", "got", "synchronize", "linger", "gone", "waiting", "cleanup", "final", "done"}

Arrays == [total : Nat, counterp : SUBSET Threads, freed : BOOLEAN]

\* What a reader keeps, and the thread eventual()
Locals == [low : Nat, sum : Nat, scan : 0 .. NR_THREADS, cap : Nat, gp : SUBSET Readers]
Eventuals == [pc : {"none", "sum", "check", "over"}, scan : 0 .. NR_THREADS, sum : Nat]

StatType ==
  /\ impl \in Stat!Impls
  /\ counter \in [Threads -> Nat] /\ incs \in [Threads -> Nat]
  /\ counterp \in SUBSET Threads /\ finalcount \in Nat /\ final_mutex \in Readers \union {NoThread}
  /\ global_count \in Nat /\ stopflag \in Nat /\ finalthreadcount \in Nat
  /\ eventual \in Eventuals
  /\ arrays \in Seq(Arrays) /\ Len(arrays) >= 1
  /\ spc \in [Readers -> Places]
  /\ sloc \in [Readers -> Locals]

\* Where a thread can be
StatThread(t) ==
  /\ spc[t] \in {"off", "idle", "store", "read", "got", "synchronize", "linger", "gone"}
  /\ spc[t] = "off" => incs[t] = 0 /\ impl \in Stat!Registering
  /\ spc[t] = "store" => impl = "count_nonatomic" /\ sloc[t].sum <= Incs
  /\ spc[t] = "synchronize" => impl = "count_end_rcu"
  /\ spc[t] = "linger" => impl = "count_tstat"

\* The parent reads when nobody counts any more.
StatParent ==
  /\ spc[Parent] \in {"waiting", "cleanup", "final", "read", "got", "done"}
  /\ spc[Parent] # "waiting" => \A t \in Threads : spc[t] \in {"linger", "gone"}

\* The counters with one variable, or one per thread
OneInv ==
  /\ impl = "count_atomic" => global_count = Incs
  /\ impl = "count_nonatomic" => global_count <= Incs
  /\ impl \notin {"count_atomic", "count_nonatomic"} => counter = incs

\* count_end.c, count_stack.c: finalcount is what the threads that are gone have counted.
EndInv ==
  impl \in {"count_end", "count_stack"} =>
    /\ counterp = {t \in Threads : spc[t] \in Running}
    /\ finalcount = Outside(counterp)

\* count_end_rcu.c: the same for the total of the last array; who frees an array has waited for
\* the readers that may be using it, or waits for them.
RcuInv ==
  impl = "count_end_rcu" =>
    /\ arrays[Len(arrays)].counterp = {t \in Threads : spc[t] \in Running}
    /\ arrays[Len(arrays)].total = Outside(arrays[Len(arrays)].counterp)
    /\ ~ arrays[Len(arrays)].freed
    /\ \A t \in Threads : spc[t] = "synchronize" => sloc[t].cap \in 1 .. Len(arrays) - 1
    /\ \A r \in Readers : spc[r] = "read" =>
         /\ sloc[r].cap \in 1 .. Len(arrays)
         /\ ~ arrays[sloc[r].cap].freed
         /\ \A t \in Threads : spc[t] = "synchronize" /\ sloc[r].cap <= sloc[t].cap => r \in sloc[t].gp
         /\ \A t \in arrays[sloc[r].cap].counterp :
              spc[t] \in Running \/ (spc[t] = "synchronize" /\ sloc[r].cap <= sloc[t].cap)

\* The threads of count_tstat.c that have unregistered
Left == {t \in Threads : spc[t] \in {"linger", "gone"}}

\* count_tstat.c: no thread exits before all have unregistered and the parent has read.
TstatInv ==
  impl = "count_tstat" =>
    /\ counterp = {t \in Threads : spc[t] # "off"}
    /\ finalthreadcount = Cardinality(Left) + (IF spc[Parent] = "done" THEN 1 ELSE 0)
    /\ (\E t \in Threads : spc[t] = "gone") =>
         spc[Parent] = "done" /\ \A t \in Threads : spc[t] \in {"linger", "gone"}

\* count_stat_eventual.c: the second look at stopflag comes after a whole sum that was begun
\* when nobody counted any more.
EventualInv ==
  IF impl = "count_stat_eventual"
  THEN /\ global_count <= Incs
       /\ eventual.pc # "none"
       /\ eventual.pc \in {"check", "over"} => eventual.scan = 0 /\ eventual.sum = 0
       /\ eventual.sum <= Sum(Seen(eventual.scan, Threads, incs), Threads)
       /\ stopflag <= 3
       /\ stopflag >= 1 => spc[Parent] # "waiting"
       /\ spc[Parent] \notin {"waiting", "cleanup"} => stopflag = 3
       /\ stopflag = 2 => /\ eventual.sum = Sum(Seen(eventual.scan, Threads, incs), Threads) \/ eventual.pc = "check"
                          /\ eventual.pc = "check" => global_count = Incs
       /\ stopflag = 3 => eventual.pc = "over" /\ global_count = Incs
       /\ eventual.pc = "over" => stopflag = 3
  ELSE eventual.pc = "none"

\* A reader has seen no more than what has been counted, and what was counted at its call is either
\* seen or to come; the parent has seen all of it.
StatRead(r) ==
  spc[r] = "read" =>
    /\ impl \notin {"count_atomic", "count_nonatomic", "count_stat_eventual"}
    /\ impl \in {"count_end", "count_stack"} => final_mutex = r
    /\ sloc[r].sum <= Sum(Seen(sloc[r].scan, Stat!Pointed(r), incs), Threads)
    /\ sloc[r].low <= sloc[r].sum + Sum(ToCome(sloc[r].scan, Stat!Pointed(r), incs), Threads)
    /\ r = Parent => sloc[r].sum = Sum(Seen(sloc[r].scan, Stat!Pointed(r), incs), Threads)

StatGot(r) ==
  spc[r] = "got" =>
    /\ sloc[r].sum <= Incs
    /\ impl \notin {"count_nonatomic", "count_stat_eventual"} => sloc[r].low <= sloc[r].sum
    /\ r = Parent /\ impl # "count_nonatomic" => sloc[r].sum = Incs

StatInv ==
  /\ StatType /\ StatParent /\ \A t \in Threads : StatThread(t)
  /\ OneInv /\ EndInv /\ RcuInv /\ TstatInv /\ EventualInv
  /\ \A r \in Readers : StatRead(r) /\ StatGot(r)

-----------------------------------------------------------------------------
\* A sum of two functions is the two sums.
LEMMA SumPlus ==
  ASSUME NEW S, IsFiniteSet(S), NEW f \in [S -> Nat], NEW g \in [S -> Nat], NEW h \in [S -> Nat],
         \A x \in S : h[x] = f[x] + g[x]
  PROVE  Sum(h, S) = Sum(f, S) + Sum(g, S)
<1> DEFINE T == {U \in SUBSET S : Sum(h, U) # Sum(f, U) + Sum(g, U)}
<1> SUFFICES ASSUME T # {} PROVE FALSE
  OBVIOUS
<1>1. PICK U \in T : \A V \in SUBSET U : V \in T => V = U
  <2>1. T \in SUBSET SUBSET S
    OBVIOUS
  <2> HIDE DEF T
  <2> QED BY <2>1, MinimalSet
<1>2. IsFiniteSet(U) /\ IsFiniteSet(U \ {pick(U)})
  BY FS_Subset
<1>3. /\ Sum(f, U) = IF U = {} THEN 0 ELSE f[pick(U)] + Sum(f, U \ {pick(U)})
      /\ Sum(g, U) = IF U = {} THEN 0 ELSE g[pick(U)] + Sum(g, U \ {pick(U)})
      /\ Sum(h, U) = IF U = {} THEN 0 ELSE h[pick(U)] + Sum(h, U \ {pick(U)})
  BY <1>2, SumStep
<1>4. U # {} /\ pick(U) \in U /\ pick(U) \in S
  BY <1>3, PickIn
<1>5. Sum(h, U \ {pick(U)}) = Sum(f, U \ {pick(U)}) + Sum(g, U \ {pick(U)})
  BY <1>1, <1>4
<1>6. Sum(f, U \ {pick(U)}) \in Nat /\ Sum(g, U \ {pick(U)}) \in Nat
  BY <1>2, SumType
<1> QED BY <1>3, <1>4, <1>5, <1>6

\* A sum of counters is a number.
LEMMA SumNat ==
  ASSUME NEW f \in [Threads -> Nat]
  PROVE  Sum(f, Threads) \in Nat
  BY ThreadsFinite, SumType

\* What has been seen and what is to come are counters.
LEMMA SeenType ==
  ASSUME NEW c \in [Threads -> Nat], NEW n, NEW P
  PROVE  /\ Seen(n, P, c) \in [Threads -> Nat] /\ ToCome(n, P, c) \in [Threads -> Nat]
         /\ Sum(Seen(n, P, c), Threads) \in Nat /\ Sum(ToCome(n, P, c), Threads) \in Nat
<1>1. Seen(n, P, c) \in [Threads -> Nat] /\ ToCome(n, P, c) \in [Threads -> Nat]
  BY DEF Seen, ToCome
<1> QED BY <1>1, SumNat

\* Together they are all that has been counted.
LEMMA SeenAndToCome ==
  ASSUME NEW c \in [Threads -> Nat], NEW n, NEW P
  PROVE  Sum(c, Threads) = Sum(Seen(n, P, c), Threads) + Sum(ToCome(n, P, c), Threads)
<1> DEFINE f == Seen(n, P, c)
           g == ToCome(n, P, c)
<1>1. \A t \in Threads : c[t] = f[t] + g[t]
  BY DEF Seen, ToCome
<1>2. f \in [Threads -> Nat] /\ g \in [Threads -> Nat]
  BY SeenType
<1> HIDE DEF f, g
<1>3. Sum(c, Threads) = Sum(f, Threads) + Sum(g, Threads)
  BY <1>1, <1>2, ThreadsFinite, SumPlus
<1> QED BY <1>3 DEF f, g

\* The reader goes on by one thread.
LEMMA SeenNext ==
  ASSUME NEW c \in [Threads -> Nat], NEW n \in Threads, NEW P
  PROVE  LET d == IF n \in P THEN c[n] ELSE 0
         IN  /\ Sum(Seen(n + 1, P, c), Threads) = Sum(Seen(n, P, c), Threads) + d
             /\ Sum(ToCome(n + 1, P, c), Threads) = Sum(ToCome(n, P, c), Threads) - d
<1> DEFINE d == IF n \in P THEN c[n] ELSE 0
<1>1. \A t \in Threads \ {n} : t >= n + 1 <=> t >= n
  BY DEF Threads
<1>2. \A t \in Threads \ {n} : Seen(n + 1, P, c)[t] = Seen(n, P, c)[t] /\ ToCome(n + 1, P, c)[t] = ToCome(n, P, c)[t]
  BY <1>1 DEF Seen, ToCome
<1>3. n \in Int /\ ~ (n >= n + 1) /\ n >= n
  BY DEF Threads
<1>4. Seen(n + 1, P, c)[n] - Seen(n, P, c)[n] = d /\ ToCome(n + 1, P, c)[n] - ToCome(n, P, c)[n] = - d
  BY <1>3 DEF Seen, ToCome
<1>5. /\ Sum(Seen(n + 1, P, c), Threads) = Sum(Seen(n, P, c), Threads) - Seen(n, P, c)[n] + Seen(n + 1, P, c)[n]
      /\ Sum(ToCome(n + 1, P, c), Threads) = Sum(ToCome(n, P, c), Threads) - ToCome(n, P, c)[n] + ToCome(n + 1, P, c)[n]
  <2>1. /\ \A t \in Threads : Seen(n, P, c)[t] \in Int /\ Seen(n + 1, P, c)[t] \in Int
        /\ \A t \in Threads : ToCome(n, P, c)[t] \in Int /\ ToCome(n + 1, P, c)[t] \in Int
    BY SeenType
  <2> QED BY <1>2, <2>1, ThreadsFinite, SumChange
<1>6. /\ Seen(n + 1, P, c)[n] \in Nat /\ Seen(n, P, c)[n] \in Nat /\ Sum(Seen(n, P, c), Threads) \in Nat
      /\ ToCome(n + 1, P, c)[n] \in Nat /\ ToCome(n, P, c)[n] \in Nat /\ Sum(ToCome(n, P, c), Threads) \in Nat
      /\ d \in Nat
  BY SeenType
<1> HIDE DEF d
<1>7. /\ Sum(Seen(n + 1, P, c), Threads) = Sum(Seen(n, P, c), Threads) + d
      /\ Sum(ToCome(n + 1, P, c), Threads) = Sum(ToCome(n, P, c), Threads) - d
  BY <1>4, <1>5, <1>6
<1> QED BY <1>7 DEF d

\* At the end everything has been seen.
LEMMA SeenAll ==
  ASSUME NEW c \in [Threads -> Nat], NEW P
  PROVE  /\ Sum(Seen(NR_THREADS, P, c), Threads) = Sum(c, Threads)
         /\ Sum(ToCome(NR_THREADS, P, c), Threads) = 0
<1>1. \A t \in Threads : ~ (t >= NR_THREADS)
  BY NRThreadsAssumption DEF Threads
<1>2. /\ \A t \in Threads : Seen(NR_THREADS, P, c)[t] = c[t]
      /\ \A t \in Threads : ToCome(NR_THREADS, P, c)[t] = 0
  BY <1>1 DEF Seen, ToCome
<1> QED BY <1>2, ThreadsFinite, SumAgree, SumZero

\* What has been seen, and what is to come, does not shrink.
LEMMA SeenGrows ==
  ASSUME NEW c \in [Threads -> Nat], NEW d \in [Threads -> Nat], \A t \in Threads : c[t] <= d[t], NEW n, NEW P
  PROVE  /\ Sum(Seen(n, P, c), Threads) <= Sum(Seen(n, P, d), Threads)
         /\ Sum(ToCome(n, P, c), Threads) <= Sum(ToCome(n, P, d), Threads)
<1>1. \A t \in Threads : Seen(n, P, c)[t] <= Seen(n, P, d)[t] /\ ToCome(n, P, c)[t] <= ToCome(n, P, d)[t]
  BY DEF Seen, ToCome
<1> QED BY <1>1, SeenType, ThreadsFinite, SumMonotone

\* A thread that has counted nothing makes no difference.
LEMMA SeenJoin ==
  ASSUME NEW c \in [Threads -> Nat], NEW t \in Threads, c[t] = 0, NEW n, NEW P
  PROVE  /\ Sum(Seen(n, P \union {t}, c), Threads) = Sum(Seen(n, P, c), Threads)
         /\ Sum(ToCome(n, P \union {t}, c), Threads) = Sum(ToCome(n, P, c), Threads)
<1>1. Seen(n, P \union {t}, c) = Seen(n, P, c) /\ ToCome(n, P \union {t}, c) = ToCome(n, P, c)
  BY DEF Seen, ToCome
<1> QED BY <1>1

\* A thread that leaves takes its counter to the outside.
LEMMA SeenLeave ==
  ASSUME NEW c \in [Threads -> Nat], NEW P, NEW t \in P, t \in Threads
  PROVE  Sum(Seen(0, P \ {t}, c), Threads) = Sum(Seen(0, P, c), Threads) + c[t]
<1>1. \A u \in Threads : u >= 0
  BY DEF Threads
<1>2. \A u \in Threads \ {t} : Seen(0, P \ {t}, c)[u] = Seen(0, P, c)[u]
  BY DEF Seen
<1>3. Seen(0, P \ {t}, c)[t] = c[t] /\ Seen(0, P, c)[t] = 0
  BY <1>1 DEF Seen
<1>4. Sum(Seen(0, P \ {t}, c), Threads) = Sum(Seen(0, P, c), Threads) - Seen(0, P, c)[t] + Seen(0, P \ {t}, c)[t]
  <2> DEFINE f == Seen(0, P, c)
             g == Seen(0, P \ {t}, c)
  <2>1. \A u \in Threads : f[u] \in Int /\ g[u] \in Int
    BY SeenType
  <2>2. \A u \in Threads \ {t} : f[u] = g[u]
    BY <1>2
  <2> HIDE DEF f, g
  <2>3. Sum(g, Threads) = Sum(f, Threads) - f[t] + g[t]
    BY <2>1, <2>2, ThreadsFinite, SumChange
  <2> QED BY <2>3 DEF f, g
<1>5. Sum(Seen(0, P, c), Threads) \in Nat /\ c[t] \in Nat
  BY SeenType
<1> QED BY <1>3, <1>4, <1>5

-----------------------------------------------------------------------------
\* CountStat's copies of the names
LEMMA StatBase ==
  /\ Stat!Threads = Threads /\ Stat!Parent = Parent /\ Stat!Readers = Readers /\ Stat!NoThread = NoThread
  /\ Stat!Incremented = Incs
  /\ Parent \notin Threads /\ NoThread \notin Readers /\ Threads \subseteq Readers
  BY NRThreadsAssumption
     DEF Stat!Threads, Stat!Parent, Stat!Readers, Stat!NoThread, Stat!Incremented, Threads, Parent, Readers, NoThread, Incs, Sum,
         Stat!MapThenSumSet, MapThenSumSet, Stat!MapThenFoldSet, MapThenFoldSet

\* What every step knows to begin with
LEMMA StatFacts ==
  ASSUME StatInv
  PROVE  /\ StatType /\ spc \in [Readers -> Places] /\ incs \in [Threads -> Nat] /\ Incs \in Nat
         /\ \A t \in Threads : t \in Readers /\ t # Parent /\ StatThread(t)
         /\ Parent \in Readers
         /\ \A r \in Readers : sloc[r].low \in Nat /\ sloc[r].sum \in Nat /\ sloc[r].scan \in 0 .. NR_THREADS
         /\ eventual.sum \in Nat /\ eventual.scan \in 0 .. NR_THREADS /\ global_count \in Nat /\ stopflag \in Nat
<1>1. StatType /\ spc \in [Readers -> Places] /\ incs \in [Threads -> Nat]
  BY DEF StatInv, StatType
<1>2. Incs \in Nat
  BY <1>1, SumNat DEF Incs
<1>3. \A r \in Readers : sloc[r].low \in Nat /\ sloc[r].sum \in Nat /\ sloc[r].scan \in 0 .. NR_THREADS
  BY <1>1 DEF StatType, Locals
<1>4. eventual.sum \in Nat /\ eventual.scan \in 0 .. NR_THREADS /\ global_count \in Nat /\ stopflag \in Nat
  BY <1>1 DEF StatType, Eventuals
<1> QED BY <1>1, <1>2, <1>3, <1>4, StatBase DEF StatInv, Readers

\* The registers are a reader's.
LEMMA RegistersIn == Stat!SRegisters \in Locals
<1>1. 0 \in 0 .. NR_THREADS
  BY NRThreadsAssumption
<1> QED BY <1>1 DEF Stat!SRegisters, Locals

\* What a reader has found stays right while it does not move, whatever others count and whoever registers.
LEMMA ReaderKept ==
  ASSUME StatInv, NEW r \in Readers, impl' = impl, spc'[r] = spc[r],
         sloc'[r].sum = sloc[r].sum, sloc'[r].low = sloc[r].low, sloc'[r].scan = sloc[r].scan,
         impl \in {"count_end", "count_stack"} /\ spc[r] = "read" => final_mutex' = final_mutex,
         incs' \in [Threads -> Nat], \A t \in Threads : incs[t] <= incs'[t],
         r = Parent /\ spc[r] \in {"read", "got"} => incs' = incs,
         spc[r] = "read" =>
           \/ Stat!Pointed(r)' = Stat!Pointed(r)
           \/ \E t \in Threads : incs[t] = 0 /\ Stat!Pointed(r)' = Stat!Pointed(r) \union {t}
  PROVE  StatRead(r)' /\ StatGot(r)'
<1> DEFINE n == sloc[r].scan
           P == Stat!Pointed(r)
           Q == Stat!Pointed(r)'
<1>1. /\ incs \in [Threads -> Nat] /\ StatRead(r) /\ StatGot(r)
      /\ sloc[r].sum \in Nat /\ sloc[r].low \in Nat
  BY StatFacts DEF StatInv
<1>2. Incs \in Nat /\ Incs' \in Nat /\ Incs <= Incs'
  BY <1>1, ThreadsFinite, SumNat, SumMonotone DEF Incs
<1>3. StatGot(r)'
  BY <1>1, <1>2 DEF StatGot, Incs
<1>4. CASE spc[r] = "read"
  <2>1. /\ Sum(Seen(n, Q, incs), Threads) = Sum(Seen(n, P, incs), Threads)
        /\ Sum(ToCome(n, Q, incs), Threads) = Sum(ToCome(n, P, incs), Threads)
    BY <1>1, <1>4, SeenJoin
  <2>2. /\ Sum(Seen(n, Q, incs), Threads) <= Sum(Seen(n, Q, incs'), Threads)
        /\ Sum(ToCome(n, Q, incs), Threads) <= Sum(ToCome(n, Q, incs'), Threads)
    BY <1>1, SeenGrows
  <2>3. /\ Sum(Seen(n, Q, incs), Threads) \in Nat /\ Sum(Seen(n, Q, incs'), Threads) \in Nat
        /\ Sum(ToCome(n, Q, incs), Threads) \in Nat /\ Sum(ToCome(n, Q, incs'), Threads) \in Nat
    BY <1>1, SeenType
  <2>4. /\ sloc[r].sum <= Sum(Seen(n, P, incs), Threads)
        /\ sloc[r].low <= sloc[r].sum + Sum(ToCome(n, P, incs), Threads)
        /\ r = Parent => sloc[r].sum = Sum(Seen(n, P, incs), Threads)
    BY <1>1, <1>4 DEF StatRead
  <2> HIDE DEF n, P, Q
  <2>5. /\ sloc[r].sum <= Sum(Seen(n, Q, incs'), Threads)
        /\ sloc[r].low <= sloc[r].sum + Sum(ToCome(n, Q, incs'), Threads)
        /\ r = Parent => sloc[r].sum = Sum(Seen(n, Q, incs'), Threads)
    BY <1>1, <1>4, <2>1, <2>2, <2>3, <2>4
  <2> QED BY <1>1, <1>3, <1>4, <2>5 DEF StatRead, n, Q
<1>5. CASE spc[r] # "read"
  BY <1>3, <1>5 DEF StatRead
<1> QED BY <1>4, <1>5

\* One thread counts one.
LEMMA IncsPlus ==
  ASSUME StatType, NEW t \in Threads, incs' = [incs EXCEPT ![t] = @ + 1]
  PROVE  /\ incs' \in [Threads -> Nat] /\ \A u \in Threads : incs[u] <= incs'[u]
         /\ Incs \in Nat /\ Incs' = Incs + 1
         /\ \A P : t \in P => Outside(P)' = Outside(P)
<1>1. incs \in [Threads -> Nat]
  BY DEF StatType
<1>2. /\ incs' \in [Threads -> Nat] /\ \A u \in Threads : incs[u] <= incs'[u]
      /\ incs'[t] = incs[t] + 1 /\ \A u \in Threads \ {t} : incs[u] = incs'[u]
  BY <1>1
<1>3. Sum(incs', Threads) = Sum(incs, Threads) - incs[t] + incs'[t]
  <2> DEFINE g == incs'
  <2>1. \A u \in Threads : incs[u] \in Int /\ g[u] \in Int
    BY <1>1, <1>2
  <2>2. \A u \in Threads \ {t} : incs[u] = g[u]
    BY <1>2
  <2> HIDE DEF g
  <2>3. Sum(g, Threads) = Sum(incs, Threads) - incs[t] + g[t]
    BY <2>1, <2>2, ThreadsFinite, SumChange
  <2> QED BY <2>3 DEF g
<1>4. Sum(incs, Threads) \in Nat /\ incs[t] \in Nat
  BY <1>1, SumNat
<1>5. Incs \in Nat /\ Incs' = Incs + 1
  BY <1>2, <1>3, <1>4 DEF Incs
<1>6. ASSUME NEW P, t \in P
      PROVE  Outside(P)' = Outside(P)
  <2>1. \A u \in Threads : u >= 0
    BY DEF Threads
  <2>2. Seen(0, P, incs') = Seen(0, P, incs)
    BY <1>2, <1>6, <2>1 DEF Seen
  <2> QED BY <2>2 DEF Outside
<1> QED BY <1>2, <1>5, <1>6

\* Every array is one.
LEMMA ArrayIs ==
  ASSUME StatType, NEW i \in 1 .. Len(arrays)
  PROVE  arrays[i] \in Arrays /\ arrays[i].total \in Nat /\ arrays[i].counterp \subseteq Threads
<1>1. arrays \in Seq(Arrays)
  BY DEF StatType
<1>2. arrays[i] \in Arrays
  <2> HIDE DEF Arrays
  <2> QED BY <1>1, ElementOfSeq
<1> QED BY <1>2 DEF Arrays

\* The arrays, and who may be using them, stay when nobody joins, leaves, or begins to read.
LEMMA RcuKept ==
  ASSUME StatType, RcuInv, UNCHANGED <<impl, arrays>>, NEW Q, Q = {t \in Threads : spc[t] \in Running},
         Q = {t \in Threads : spc'[t] \in Running}, Sum(Seen(0, Q, incs'), Threads) = Sum(Seen(0, Q, incs), Threads),
         \A t \in Threads : spc'[t] = "synchronize" => spc[t] = "synchronize" /\ sloc'[t].cap = sloc[t].cap,
         \A t \in Threads : spc[t] = "synchronize" => spc'[t] = "synchronize",
         \A r \in Readers : spc'[r] = "read" =>
           /\ spc[r] = "read" /\ sloc'[r].cap = sloc[r].cap
           /\ \A t \in Threads : spc[t] = "synchronize" /\ r \in sloc[t].gp => r \in sloc'[t].gp
  PROVE  RcuInv'
<1>1. CASE impl = "count_end_rcu"
  <2> DEFINE cap == arrays[Len(arrays)]
  <2>1. /\ cap.counterp = Q /\ cap.total = Sum(Seen(0, Q, incs'), Threads) /\ ~ cap.freed /\ cap' = cap
    BY <1>1 DEF RcuInv, Outside
  <2>2. \A t \in Threads : spc'[t] = "synchronize" => sloc'[t].cap \in 1 .. Len(arrays) - 1
    BY <1>1 DEF RcuInv
  <2>3. ASSUME NEW r \in Readers, spc'[r] = "read"
        PROVE  /\ sloc'[r].cap \in 1 .. Len(arrays)
               /\ ~ arrays[sloc'[r].cap].freed
               /\ \A t \in Threads : spc'[t] = "synchronize" /\ sloc'[r].cap <= sloc'[t].cap => r \in sloc'[t].gp
               /\ \A t \in arrays[sloc'[r].cap].counterp :
                    spc'[t] \in Running \/ (spc'[t] = "synchronize" /\ sloc'[r].cap <= sloc'[t].cap)
    <3>1. /\ sloc[r].cap \in 1 .. Len(arrays) /\ sloc'[r].cap = sloc[r].cap
          /\ ~ arrays[sloc[r].cap].freed
          /\ \A t \in Threads : spc[t] = "synchronize" /\ sloc[r].cap <= sloc[t].cap => r \in sloc[t].gp
      BY <1>1, <2>3 DEF RcuInv
    <3>2. ASSUME NEW t \in arrays[sloc[r].cap].counterp
          PROVE  spc'[t] \in Running \/ (spc'[t] = "synchronize" /\ sloc'[r].cap <= sloc'[t].cap)
      <4>1. t \in Threads
        BY <3>1, ArrayIs
      <4>2. spc[t] \in Running \/ (spc[t] = "synchronize" /\ sloc[r].cap <= sloc[t].cap)
        BY <1>1, <2>3 DEF RcuInv
      <4>3. spc[t] \in Running <=> spc'[t] \in Running
        BY <4>1
      <4> QED BY <3>1, <4>1, <4>2, <4>3
    <3>3. \A t \in Threads : spc'[t] = "synchronize" /\ sloc'[r].cap <= sloc'[t].cap => r \in sloc'[t].gp
      BY <2>3, <3>1
    <3> QED BY <3>1, <3>2, <3>3
  <2> HIDE DEF cap
  <2> QED BY <1>1, <2>1, <2>2, <2>3 DEF RcuInv, Outside, cap
<1> QED BY <1>1 DEF RcuInv
\* inc_count(): whatever the one or the own counter is now, the other sums only grow.
LEMMA IncStep ==
  ASSUME StatInv, NEW t \in Threads, spc[t] \in {"idle", "store"},
         incs' = [incs EXCEPT ![t] = @ + 1], spc' = [spc EXCEPT ![t] = "idle"],
         UNCHANGED <<impl, counterp, finalcount, final_mutex, finalthreadcount, stopflag, eventual, arrays>>,
         \A r \in Readers : r # t => sloc'[r] = sloc[r], impl # "count_nonatomic" => sloc' = sloc,
         global_count' = global_count \/ impl # "count_stat_eventual",
         StatType', OneInv'
  PROVE  StatInv'
<1>1. /\ StatType /\ StatParent /\ StatThread(t) /\ t \in Readers /\ Parent \in Readers /\ t # Parent
      /\ \A u \in Threads : u \in Readers
  BY StatBase DEF StatInv, Readers
<1>2. /\ incs' \in [Threads -> Nat] /\ \A u \in Threads : incs[u] <= incs'[u]
      /\ Incs \in Nat /\ Incs' = Incs + 1
      /\ \A P : t \in P => Outside(P)' = Outside(P)
  BY <1>1, IncsPlus
<1>3. spc[Parent] = "waiting"
  BY <1>1 DEF StatParent
<1>4. /\ spc \in [Readers -> Places]
      /\ spc'[t] = "idle" /\ \A r \in Readers : r # t => spc'[r] = spc[r]
      /\ impl # "count_nonatomic" => spc' = spc /\ spc[t] = "idle"
  BY <1>1 DEF StatType, StatThread
<1>5. StatParent'
  BY <1>1, <1>3, <1>4 DEF StatParent
<1>6. ASSUME NEW u \in Threads
      PROVE  StatThread(u)'
  <2>1. StatThread(u)
    BY DEF StatInv
  <2>2. CASE u = t
    BY <1>4, <2>2 DEF StatThread
  <2>3. CASE u # t
    <3>1. spc'[u] = spc[u] /\ sloc'[u] = sloc[u] /\ incs'[u] = incs[u] /\ sloc[u].sum \in Nat
      BY <1>1, <1>4, <2>3, StatFacts
    <3> QED BY <1>2, <2>1, <3>1 DEF StatThread
  <2> QED BY <2>2, <2>3
<1>7. EndInv'
  <2>1. CASE impl \in {"count_end", "count_stack"}
    <3>1. counterp = {u \in Threads : spc[u] \in Running} /\ finalcount = Outside(counterp)
      BY <2>1 DEF StatInv, EndInv
    <3>2. t \in counterp
      BY <1>4, <2>1, <3>1 DEF Running
    <3> QED BY <1>2, <1>4, <2>1, <3>1, <3>2 DEF EndInv, Outside
  <2> QED BY <2>1 DEF EndInv
<1>8. RcuInv'
  <2>1. CASE impl = "count_end_rcu"
    <3> DEFINE Q == {u \in Threads : spc[u] \in Running}
    <3>1. StatType /\ RcuInv /\ spc' = spc /\ spc[t] = "idle" /\ sloc' = sloc
      BY <1>4, <2>1 DEF StatInv
    <3>2. Sum(Seen(0, Q, incs'), Threads) = Sum(Seen(0, Q, incs), Threads)
      <4>1. \A P : t \in P => Sum(Seen(0, P, incs'), Threads) = Sum(Seen(0, P, incs), Threads)
        BY <1>2 DEF Outside
      <4> QED BY <3>1, <4>1 DEF Running
    <3>3. \A u \in Threads : spc'[u] = "synchronize" => spc[u] = "synchronize" /\ sloc'[u].cap = sloc[u].cap
      BY <1>1, <3>1
    <3>4. \A r \in Readers : spc'[r] = "read" =>
            spc[r] = "read" /\ sloc'[r].cap = sloc[r].cap /\ \A u \in Threads : r \in sloc[u].gp => r \in sloc'[u].gp
      BY <1>1, <3>1
    <3> QED BY <3>1, <3>2, <3>3, <3>4, RcuKept
  <2> QED BY <2>1 DEF RcuInv
<1>9. TstatInv'
  BY <1>4 DEF StatInv, TstatInv, Left
<1>10. EventualInv'
  <2>1. CASE impl = "count_stat_eventual"
    <3>1. EventualInv /\ eventual.sum \in Nat /\ global_count \in Nat /\ stopflag \in Nat
      BY StatFacts DEF StatInv
    <3>2. stopflag = 0
      BY <1>3, <2>1, <3>1 DEF EventualInv
    <3>3. Sum(Seen(eventual.scan, Threads, incs), Threads) <= Sum(Seen(eventual.scan, Threads, incs'), Threads)
      BY <1>1, <1>2, SeenGrows DEF StatType
    <3>4. /\ Sum(Seen(eventual.scan, Threads, incs), Threads) \in Nat
          /\ Sum(Seen(eventual.scan, Threads, incs'), Threads) \in Nat
      BY <1>1, <1>2, SeenType DEF StatType
    <3>5. spc'[Parent] = "waiting"
      BY <1>1, <1>3, <1>4
    <3> QED BY <1>2, <2>1, <3>1, <3>2, <3>3, <3>4, <3>5 DEF EventualInv
  <2>2. CASE impl # "count_stat_eventual"
    BY <2>2 DEF StatInv, EventualInv
  <2> QED BY <2>1, <2>2
<1>11. ASSUME NEW r \in Readers
       PROVE  StatRead(r)' /\ StatGot(r)'
  <2>1. CASE r = t
    BY <1>4, <2>1 DEF StatRead, StatGot
  <2>2. CASE r # t
    <3>1. spc'[r] = spc[r] /\ sloc'[r] = sloc[r]
      BY <1>4, <2>2
    <3>2. Stat!Pointed(r)' = Stat!Pointed(r)
      BY <3>1 DEF Stat!Pointed, Stat!Threads
    <3>3. ~ (r = Parent /\ spc[r] \in {"read", "got"})
      BY <1>3
    <3> QED BY <1>2, <3>1, <3>2, <3>3, ReaderKept
  <2> QED BY <2>1, <2>2
<1> QED BY <1>5, <1>6, <1>7, <1>8, <1>9, <1>10, <1>11 DEF StatInv

\* A step of one reader that counts nothing: the others find what they found.
LEMMA OneMoves ==
  ASSUME StatInv, NEW r \in Readers, UNCHANGED <<impl, counter, global_count, incs>>,
         \A u \in Readers \ {r} : /\ spc'[u] = spc[u]
                                  /\ sloc'[u].sum = sloc[u].sum /\ sloc'[u].low = sloc[u].low /\ sloc'[u].scan = sloc[u].scan,
         \A u \in Readers \ {r} : impl \in {"count_end", "count_stack"} /\ spc[u] = "read" => final_mutex' = final_mutex,
         \A u \in Readers \ {r} : spc[u] = "read" =>
           \/ Stat!Pointed(u)' = Stat!Pointed(u)
           \/ \E t \in Threads : incs[t] = 0 /\ Stat!Pointed(u)' = Stat!Pointed(u) \union {t},
         StatType', StatParent', r \in Threads => StatThread(r)', EndInv', RcuInv', TstatInv', EventualInv',
         StatRead(r)', StatGot(r)'
  PROVE  StatInv'
<1>1. OneInv'
  BY DEF StatInv, OneInv, Incs
<1>2. ASSUME NEW t \in Threads
      PROVE  StatThread(t)'
  <2>1. CASE t # r
    <3>1. t \in Readers \ {r} /\ StatThread(t)
      BY <2>1 DEF StatInv, Readers
    <3> QED BY <3>1 DEF StatThread, Incs
  <2> QED BY <2>1
<1>3. ASSUME NEW u \in Readers
      PROVE  StatRead(u)' /\ StatGot(u)'
  <2>1. CASE u # r
    <3>1. incs \in [Threads -> Nat] /\ incs' = incs
      BY DEF StatInv, StatType
    <3>2. incs' \in [Threads -> Nat] /\ \A t \in Threads : incs[t] <= incs'[t]
      BY <3>1
    <3> QED BY <2>1, <3>1, <3>2, ReaderKept
  <2> QED BY <2>1
<1> QED BY <1>1, <1>2, <1>3 DEF StatInv

\* A step of count_stat_eventual.c's own thread, or of another that no reader sees
LEMMA NobodyMoves ==
  ASSUME StatInv, impl = "count_stat_eventual", UNCHANGED <<impl, counter, counterp, finalcount, final_mutex, finalthreadcount, arrays, spc, sloc, incs>>,
         StatType', EventualInv'
  PROVE  StatInv'
<1>1. StatParent' /\ \A t \in Threads : StatThread(t)'
  BY DEF StatInv, StatParent, StatThread, Incs
<1>2. OneInv' /\ EndInv' /\ RcuInv' /\ TstatInv'
  BY DEF StatInv, OneInv, EndInv, RcuInv, TstatInv
<1>3. ASSUME NEW r \in Readers
      PROVE  StatRead(r)' /\ StatGot(r)'
  BY DEF StatInv, StatRead, StatGot, Incs
<1> QED BY <1>1, <1>2, <1>3 DEF StatInv

\* The invariant of eventual() depends on the parent's place only as far as that it waits.
LEMMA EventualKept ==
  ASSUME EventualInv, UNCHANGED <<impl, global_count, stopflag, eventual, incs>>,
         spc'[Parent] = "waiting" <=> spc[Parent] = "waiting",
         spc'[Parent] = "cleanup" <=> spc[Parent] = "cleanup"
  PROVE  EventualInv'
  BY DEF EventualInv, Incs

\* The threads that count_end.c and count_stack.c look at stay when nobody joins or leaves.
LEMMA EndKept ==
  ASSUME EndInv, UNCHANGED <<impl, counterp, finalcount, incs>>,
         \A t \in Threads : spc[t] \in Running <=> spc'[t] \in Running
  PROVE  EndInv'
  BY DEF EndInv, Outside

\* The threads of count_tstat.c, likewise.
LEMMA TstatKept ==
  ASSUME TstatInv, UNCHANGED <<impl, counterp, finalthreadcount>>,
         \A t \in Threads : /\ spc[t] = "off" <=> spc'[t] = "off"
                            /\ spc[t] = "linger" <=> spc'[t] = "linger"
                            /\ spc[t] = "gone" <=> spc'[t] = "gone",
         spc[Parent] = "done" <=> spc'[Parent] = "done"
  PROVE  TstatInv'
<1>1. /\ {t \in Threads : spc[t] # "off"} = {t \in Threads : spc'[t] # "off"}
      /\ Left' = Left
  BY DEF Left
<1> QED BY <1>1 DEF TstatInv

\* inc_count() in one step
LEMMA IncAtOnce ==
  ASSUME StatInv, NEW t \in Threads, Stat!atomic_inc(t) \/ Stat!OwnInc(t)
  PROVE  StatInv'
<1>1. StatType /\ spc \in [Readers -> Places] /\ t \in Readers
  BY StatFacts
<1>2. /\ spc[t] = "idle" /\ incs' = [incs EXCEPT ![t] = @ + 1]
      /\ UNCHANGED <<impl, counterp, finalcount, final_mutex, finalthreadcount, stopflag, eventual, arrays, spc, sloc>>
      /\ IF impl = "count_atomic" THEN counter' = counter /\ global_count' = global_count + 1
         ELSE global_count' = global_count /\ counter' = [counter EXCEPT ![t] = @ + 1] /\ impl # "count_nonatomic"
  BY DEF Stat!atomic_inc, Stat!OwnInc
<1>3. spc' = [spc EXCEPT ![t] = "idle"]
  BY <1>1, <1>2
<1>4. incs' \in [Threads -> Nat] /\ Incs' = Incs + 1
  BY <1>1, <1>2, IncsPlus
<1>5. StatType'
  <2>1. counter' \in [Threads -> Nat] /\ global_count' \in Nat
    <3>1. counter \in [Threads -> Nat] /\ global_count \in Nat
      BY <1>1 DEF StatType
    <3> QED BY <1>2, <3>1
  <2>2. arrays' \in Seq(Arrays) /\ Len(arrays') >= 1
    BY <1>1, <1>2 DEF StatType
  <2>3. spc' \in [Readers -> Places] /\ sloc' \in [Readers -> Locals]
    BY <1>1, <1>2 DEF StatType
  <2> QED BY <1>1, <1>2, <1>4, <2>1, <2>2, <2>3 DEF StatType
<1>6. OneInv'
  BY <1>2, <1>4 DEF StatInv, OneInv
<1> QED BY <1>2, <1>3, <1>5, <1>6, IncStep

\* count_nonatomic.c's inc_count(): the value that was read, and is to be stored, is not above what
\* has been counted.
LEMMA IncNonatomic ==
  ASSUME StatInv, NEW t \in Threads, Stat!NonatomicLoad(t) \/ Stat!NonatomicStore(t)
  PROVE  StatInv'
<1>1. StatType /\ spc \in [Readers -> Places] /\ t \in Readers /\ t # Parent /\ StatThread(t) /\ Incs \in Nat
  BY StatFacts
<1>2. sloc \in [Readers -> Locals] /\ arrays \in Seq(Arrays) /\ Len(arrays) >= 1 /\ global_count \in Nat
  BY <1>1 DEF StatType
<1>3. CASE Stat!NonatomicLoad(t)
  <2>1. /\ impl = "count_nonatomic" /\ spc[t] = "idle" /\ spc' = [spc EXCEPT ![t] = "store"]
        /\ sloc' = [sloc EXCEPT ![t].sum = global_count]
        /\ UNCHANGED <<impl, counter, counterp, finalcount, final_mutex, finalthreadcount, global_count, stopflag, eventual, arrays, incs>>
    BY <1>3 DEF Stat!NonatomicLoad, Stat!SGoto
  <2>2. /\ spc' \in [Readers -> Places] /\ spc'[t] = "store" /\ \A u \in Readers \ {t} : spc'[u] = spc[u]
    BY <1>1, <2>1 DEF Places
  <2>3. /\ sloc' \in [Readers -> Locals] /\ sloc'[t].sum = global_count
        /\ \A u \in Readers \ {t} : sloc'[u] = sloc[u]
    <3>1. sloc[t] \in Locals
      BY <1>1, <1>2
    <3>2. [sloc[t] EXCEPT !.sum = global_count] \in Locals /\ [sloc[t] EXCEPT !.sum = global_count].sum = global_count
      BY <1>2, <3>1 DEF Locals
    <3> QED BY <1>1, <1>2, <2>1, <3>2
  <2>4. StatType'
    BY <1>1, <2>1, <2>2, <2>3 DEF StatType
  <2>5. StatParent'
    <3>1. StatParent /\ spc'[Parent] = spc[Parent]
      BY <1>1, <2>2, StatFacts DEF StatInv
    <3>2. spc[Parent] = "waiting"
      BY <2>1, <3>1 DEF StatParent
    <3> QED BY <3>1, <3>2 DEF StatParent
  <2>6. StatThread(t)'
    BY <1>1, <2>1, <2>2, <2>3 DEF StatInv, StatThread, OneInv, Incs
  <2>7. EndInv' /\ RcuInv' /\ TstatInv' /\ EventualInv'
    BY <2>1 DEF StatInv, EndInv, RcuInv, TstatInv, EventualInv
  <2>8. StatRead(t)' /\ StatGot(t)'
    BY <2>2 DEF StatRead, StatGot
  <2>9. \A u \in Readers : Stat!Pointed(u)' = Stat!Pointed(u)
    BY <2>1 DEF Stat!Pointed, Stat!Threads
  <2> QED BY <1>1, <2>1, <2>2, <2>3, <2>4, <2>5, <2>6, <2>7, <2>8, <2>9, OneMoves
<1>4. CASE Stat!NonatomicStore(t)
  <2>1. /\ spc[t] = "store" /\ spc' = [spc EXCEPT ![t] = "idle"] /\ global_count' = sloc[t].sum + 1
        /\ sloc' = [sloc EXCEPT ![t] = Stat!SRegisters]
        /\ incs' = [incs EXCEPT ![t] = @ + 1]
        /\ UNCHANGED <<impl, counter, counterp, finalcount, final_mutex, finalthreadcount, stopflag, eventual, arrays>>
    BY <1>4 DEF Stat!NonatomicStore, Stat!SGoto
  <2>2. impl = "count_nonatomic" /\ sloc[t].sum <= Incs
    BY <1>1, <2>1 DEF StatThread
  <2>3. incs' \in [Threads -> Nat] /\ Incs' = Incs + 1
    BY <1>1, <2>1, IncsPlus
  <2>4. Stat!SRegisters \in Locals
    BY RegistersIn
  <2>5. /\ sloc' \in [Readers -> Locals] /\ \A u \in Readers \ {t} : sloc'[u] = sloc[u]
        /\ sloc[t].sum \in Nat
    BY <1>1, <1>2, <2>1, <2>4, StatFacts
  <2>6. spc' \in [Readers -> Places]
    BY <1>1, <2>1 DEF Places
  <2>7. StatType'
    BY <1>1, <2>1, <2>3, <2>5, <2>6 DEF StatType
  <2>8. OneInv'
    BY <1>1, <2>1, <2>2, <2>3, <2>5 DEF StatInv, OneInv
  <2> QED BY <1>1, <2>1, <2>2, <2>5, <2>7, <2>8, IncStep
<1> QED BY <1>3, <1>4

\* They are finitely many, and only if they are as many as there are threads all have left.
LEMMA LeftCount ==
  /\ Cardinality(Left) \in Nat /\ Cardinality(Left) <= NR_THREADS
  /\ Cardinality(Left) = NR_THREADS => Left = Threads
<1>1. IsFiniteSet(Threads) /\ Cardinality(Threads) = NR_THREADS
  <2>1. Cardinality(0 .. NR_THREADS - 1) = (IF 0 > NR_THREADS - 1 THEN 0 ELSE NR_THREADS - 1 - 0 + 1)
    BY NRThreadsAssumption, FS_Interval
  <2> QED BY <2>1, ThreadsFinite, NRThreadsAssumption DEF Threads
<1>2. Left \subseteq Threads
  BY DEF Left
<1> QED BY <1>1, <1>2, FS_Subset, FS_CardinalityType

\* One reader writes its registers, or goes on.
LEMMA ReaderWrites ==
  ASSUME StatType, NEW r \in Readers
  PROVE  /\ \A rec \in Locals : sloc' = [sloc EXCEPT ![r] = rec] =>
              sloc' \in [Readers -> Locals] /\ sloc'[r] = rec /\ \A u \in Readers \ {r} : sloc'[u] = sloc[u]
         /\ \A to \in Places : spc' = [spc EXCEPT ![r] = to] =>
              spc' \in [Readers -> Places] /\ spc'[r] = to /\ \A u \in Readers \ {r} : spc'[u] = spc[u]
<1>1. spc \in [Readers -> Places] /\ sloc \in [Readers -> Locals]
  BY DEF StatType
<1> QED BY <1>1

\* A step of read_count(), but for what it does to the arrays' readers and to its own sum
LEMMA ReadMoves ==
  ASSUME StatInv, NEW r \in Readers, NEW to \in {"read", "got", IF r = Parent THEN "done" ELSE "idle"},
         UNCHANGED <<impl, counter, counterp, finalcount, global_count, stopflag, eventual, arrays, incs>>,
         spc[r] \in {Stat!ReadFrom(r), "read", "got"}, spc' = [spc EXCEPT ![r] = to],
         finalthreadcount' = IF to = "done" THEN finalthreadcount + 1 ELSE finalthreadcount,
         \A u \in Readers \ {r} : sloc'[u].sum = sloc[u].sum /\ sloc'[u].low = sloc[u].low
                                  /\ sloc'[u].scan = sloc[u].scan /\ sloc'[u].cap = sloc[u].cap,
         \A u \in Readers \ {r} : impl \in {"count_end", "count_stack"} /\ spc[u] = "read" => final_mutex' = final_mutex,
         StatType', RcuInv', StatRead(r)', StatGot(r)'
  PROVE  StatInv'
<1>1. /\ StatType /\ StatParent /\ Parent \in Readers /\ \A t \in Threads : t \in Readers /\ t # Parent
  BY StatFacts DEF StatInv
<1>2. spc[r] \in {IF r = Parent THEN "final" ELSE "idle", "read", "got"}
  BY StatBase DEF Stat!ReadFrom
<1>3. to \in Places
  BY DEF Places
<1>4. spc'[r] = to /\ \A u \in Readers \ {r} : spc'[u] = spc[u]
  BY <1>1, <1>3, ReaderWrites
<1>5. CASE r = Parent
  <2>1. to \in {"read", "got", "done"} /\ spc[Parent] \in {"final", "read", "got"} /\ \A t \in Threads : spc'[t] = spc[t]
    BY <1>1, <1>2, <1>4, <1>5
  <2>2. StatParent'
    BY <1>1, <1>4, <1>5, <2>1 DEF StatParent
  <2>3. EndInv'
    BY <2>1, EndKept DEF StatInv
  <2>4. EventualInv'
    BY <1>4, <1>5, <2>1, EventualKept DEF StatInv
  <2>5. TstatInv'
    <3>1. CASE impl = "count_tstat"
      <4>1. /\ counterp = {t \in Threads : spc[t] # "off"}
            /\ finalthreadcount = Cardinality(Left)
            /\ \A t \in Threads : spc[t] # "gone"
        BY <2>1, <3>1, LeftCount DEF StatInv, TstatInv
      <4>2. Left' = Left
        BY <2>1 DEF Left
      <4>3. spc'[Parent] = to /\ counterp' = {t \in Threads : spc'[t] # "off"} /\ \A t \in Threads : spc'[t] # "gone"
        BY <1>4, <1>5, <2>1, <4>1
      <4>4. finalthreadcount' = Cardinality(Left') + (IF spc'[Parent] = "done" THEN 1 ELSE 0)
        BY <4>1, <4>2, <4>3, LeftCount
      <4> QED BY <3>1, <4>3, <4>4 DEF TstatInv
    <3> QED BY <3>1 DEF TstatInv
  <2>6. r \notin Threads
    BY <1>1, <1>5
  <2>7. \A u \in Readers \ {r} : Stat!Pointed(u)' = Stat!Pointed(u)
    BY <1>1 DEF Stat!Pointed, Stat!Threads
  <2> QED BY <1>4, <2>2, <2>3, <2>4, <2>5, <2>6, <2>7, OneMoves
<1>6. CASE r # Parent
  <2>1. /\ r \in Threads /\ to \in Running /\ spc[r] \in Running /\ to # "done"
        /\ spc'[Parent] = spc[Parent]
    BY <1>1, <1>2, <1>4, <1>6 DEF Readers, Running
  <2>2. StatParent'
    BY <1>1, <1>4, <2>1 DEF StatParent, Running
  <2>3. \A t \in Threads : /\ spc[t] \in Running <=> spc'[t] \in Running
                           /\ spc[t] = "off" <=> spc'[t] = "off"
                           /\ spc[t] = "linger" <=> spc'[t] = "linger"
                           /\ spc[t] = "gone" <=> spc'[t] = "gone"
    <3> SUFFICES ASSUME NEW t \in Threads
                 PROVE  /\ spc[t] \in Running <=> spc'[t] \in Running
                        /\ spc[t] = "off" <=> spc'[t] = "off"
                        /\ spc[t] = "linger" <=> spc'[t] = "linger"
                        /\ spc[t] = "gone" <=> spc'[t] = "gone"
      OBVIOUS
    <3>1. CASE t = r
      BY <1>4, <2>1, <3>1 DEF Running
    <3>2. CASE t # r
      BY <1>1, <1>4, <3>2
    <3> QED BY <3>1, <3>2
  <2>4. EndInv'
    BY <2>3, EndKept DEF StatInv
  <2>5. EventualInv'
    BY <2>1, EventualKept DEF StatInv
  <2>6. TstatInv'
    BY <2>1, <2>3, TstatKept DEF StatInv
  <2>7. StatThread(r)'
    BY <1>4, <2>1 DEF StatThread, Running
  <2>8. \A u \in Readers \ {r} : Stat!Pointed(u)' = Stat!Pointed(u)
    BY <1>1 DEF Stat!Pointed, Stat!Threads
  <2> QED BY <1>4, <2>2, <2>4, <2>5, <2>6, <2>7, <2>8, OneMoves
<1> QED BY <1>5, <1>6

\* A step of a reader that leaves everything else of the program alone keeps the types.
LEMMA ReadTypes ==
  ASSUME StatType, NEW r \in Readers, NEW to \in Places, spc' = [spc EXCEPT ![r] = to], sloc' \in [Readers -> Locals],
         UNCHANGED <<impl, counter, counterp, finalcount, global_count, stopflag, eventual, arrays, incs>>,
         final_mutex' \in Readers \union {NoThread}, finalthreadcount' \in Nat
  PROVE  StatType'
<1>1. spc' \in [Readers -> Places]
  BY ReaderWrites
<1> QED BY <1>1 DEF StatType

\* read_count() of one variable: at most, and with an atomic counter exactly, what has been counted
LEMMA ReadOneStep ==
  ASSUME StatInv, NEW r \in Readers, Stat!ReadOne(r)
  PROVE  StatInv'
<1> DEFINE rec == [sloc[r] EXCEPT !.low = Incs, !.sum = global_count]
<1>1. /\ StatType /\ sloc \in [Readers -> Locals] /\ sloc[r] \in Locals /\ Incs \in Nat /\ global_count \in Nat
      /\ final_mutex \in Readers \union {NoThread} /\ finalthreadcount \in Nat /\ StatParent /\ OneInv /\ EventualInv
  BY StatFacts DEF StatInv, StatType
<1>2. /\ impl \in {"count_atomic", "count_nonatomic", "count_stat_eventual"}
      /\ spc[r] = Stat!ReadFrom(r) /\ spc' = [spc EXCEPT ![r] = "got"]
      /\ sloc' = [sloc EXCEPT ![r].low = Incs, ![r].sum = global_count]
      /\ UNCHANGED <<impl, counter, counterp, finalcount, final_mutex, finalthreadcount, global_count, stopflag, eventual, arrays, incs>>
  BY StatBase DEF Stat!ReadOne, Stat!SGoto
<1>3. rec \in Locals /\ rec.low = Incs /\ rec.sum = global_count
  BY <1>1 DEF Locals
<1>4. sloc' = [sloc EXCEPT ![r] = rec]
  BY <1>1, <1>2 DEF Locals
<1> HIDE DEF rec
<1>5. sloc' \in [Readers -> Locals] /\ sloc'[r] = rec /\ \A u \in Readers \ {r} : sloc'[u] = sloc[u]
  BY <1>1, <1>3, <1>4
<1>6. "got" \in Places
  BY DEF Places
<1>7. StatType'
  BY <1>1, <1>2, <1>5, <1>6, ReadTypes
<1>8. spc'[r] = "got"
  BY <1>1, <1>2, <1>6, ReaderWrites
<1>9. RcuInv' /\ StatRead(r)'
  BY <1>2, <1>8 DEF RcuInv, StatRead
<1>10. StatGot(r)'
  <2>1. Incs' = Incs /\ sloc'[r].sum = global_count /\ sloc'[r].low = Incs
    BY <1>2, <1>3, <1>5 DEF Incs
  <2>2. global_count <= Incs /\ (impl = "count_atomic" => global_count = Incs)
    BY <1>1, <1>2 DEF OneInv, EventualInv
  <2>3. ASSUME r = Parent, impl # "count_nonatomic" PROVE global_count = Incs
    <3>1. spc[Parent] = "final"
      BY <1>2, <2>3, StatBase DEF Stat!ReadFrom
    <3>2. CASE impl = "count_stat_eventual"
      BY <1>1, <3>1, <3>2 DEF EventualInv
    <3> QED BY <1>2, <2>2, <2>3, <3>2
  <2> QED BY <1>1, <1>2, <2>1, <2>2, <2>3 DEF StatGot
<1> QED BY <1>1, <1>2, <1>5, <1>7, <1>9, <1>10, ReadMoves

\* A reader that has not looked at any thread has what those that are gone have counted.
LEMMA NothingSeen ==
  ASSUME NEW c \in [Threads -> Nat], NEW P, \A t \in Threads : t \in P \/ c[t] = 0
  PROVE  Sum(Seen(0, P, c), Threads) = 0
<1>1. \A t \in Threads : t >= 0
  BY DEF Threads
<1>2. \A t \in Threads : Seen(0, P, c)[t] = 0
  BY <1>1 DEF Seen
<1> QED BY <1>2, ThreadsFinite, SumZero

\* A reader that begins uses the last array, which nobody is going to free before it has read.
LEMMA RcuBegin ==
  ASSUME StatType, RcuInv, NEW r \in Readers, UNCHANGED <<impl, arrays, incs>>,
         spc[r] # "synchronize", r \in Threads => spc[r] \in Running,
         spc'[r] = "read", sloc'[r].cap = Len(arrays),
         \A u \in Readers \ {r} : spc'[u] = spc[u] /\ sloc'[u] = sloc[u]
  PROVE  RcuInv'
<1>1. CASE impl = "count_end_rcu"
  <2> DEFINE cap == arrays[Len(arrays)]
  <2>1. /\ {t \in Threads : spc'[t] \in Running} = {t \in Threads : spc[t] \in Running}
        /\ \A t \in Threads : spc'[t] = "synchronize" => spc[t] = "synchronize" /\ sloc'[t] = sloc[t]
    BY StatBase DEF Running
  <2>2. /\ cap.counterp = {t \in Threads : spc[t] \in Running} /\ cap.total = Outside(cap.counterp) /\ ~ cap.freed
        /\ \A t \in Threads : spc[t] = "synchronize" => sloc[t].cap \in 1 .. Len(arrays) - 1
    BY <1>1 DEF RcuInv
  <2>3. Len(arrays) \in Nat /\ Len(arrays) >= 1
    BY DEF StatType
  <2>4. ASSUME NEW u \in Readers, spc'[u] = "read"
        PROVE  /\ sloc'[u].cap \in 1 .. Len(arrays)
               /\ ~ arrays[sloc'[u].cap].freed
               /\ \A t \in Threads : spc'[t] = "synchronize" /\ sloc'[u].cap <= sloc'[t].cap => u \in sloc'[t].gp
               /\ \A t \in arrays[sloc'[u].cap].counterp :
                    spc'[t] \in Running \/ (spc'[t] = "synchronize" /\ sloc'[u].cap <= sloc'[t].cap)
    <3>1. CASE u = r
      <4>1. \A t \in Threads : spc'[t] = "synchronize" => ~ (sloc'[u].cap <= sloc'[t].cap)
        <5> SUFFICES ASSUME NEW t \in Threads, spc'[t] = "synchronize" PROVE ~ (sloc'[u].cap <= sloc'[t].cap)
          OBVIOUS
        <5>1. sloc'[t].cap \in 1 .. Len(arrays) - 1
          BY <2>1, <2>2
        <5> HIDE <2>2, <2>1
        <5> QED BY <2>3, <3>1, <5>1
      <4>2. sloc'[u].cap = Len(arrays) /\ ~ arrays[Len(arrays)].freed
        BY <2>2, <3>1
      <4>3. \A t \in arrays[Len(arrays)].counterp : spc'[t] \in Running
        BY <2>1, <2>2
      <4> QED BY <2>3, <4>1, <4>2, <4>3
    <3>2. CASE u # r
      <4>1. /\ spc[u] = "read" /\ sloc'[u] = sloc[u] /\ sloc[u].cap \in 1 .. Len(arrays)
            /\ ~ arrays[sloc[u].cap].freed
            /\ \A t \in Threads : spc[t] = "synchronize" /\ sloc[u].cap <= sloc[t].cap => u \in sloc[t].gp
        BY <1>1, <2>4, <3>2 DEF RcuInv
      <4>2. \A t \in Threads : spc'[t] = "synchronize" /\ sloc'[u].cap <= sloc'[t].cap => u \in sloc'[t].gp
        BY <2>1, <4>1
      <4>3. ASSUME NEW t \in arrays[sloc[u].cap].counterp
            PROVE  spc'[t] \in Running \/ (spc'[t] = "synchronize" /\ sloc'[u].cap <= sloc'[t].cap)
        <5>1. t \in Threads
          BY <4>1, ArrayIs
        <5>2. spc[t] \in Running \/ (spc[t] = "synchronize" /\ sloc[u].cap <= sloc[t].cap)
          BY <1>1, <4>1 DEF RcuInv
        <5>3. CASE spc[t] \in Running
          BY <2>1, <5>1, <5>3
        <5>4. CASE spc[t] = "synchronize" /\ sloc[u].cap <= sloc[t].cap
          <6>1. t # r /\ t \in Readers
            BY <5>1, <5>4 DEF Readers
          <6> QED BY <4>1, <5>4, <6>1
        <5> QED BY <5>2, <5>3, <5>4
      <4> QED BY <4>1, <4>2, <4>3
    <3> QED BY <3>1, <3>2
  <2>5. cap' = cap /\ Outside(cap.counterp)' = Outside(cap.counterp)
    BY DEF Outside
  <2>6. \A t \in Threads : spc'[t] = "synchronize" => sloc'[t].cap \in 1 .. Len(arrays) - 1
    BY <2>1, <2>2
  <2> HIDE DEF cap
  <2> QED BY <1>1, <2>1, <2>2, <2>4, <2>5, <2>6 DEF RcuInv, Outside, cap
<1> QED BY <1>1 DEF RcuInv

\* read_count() begins: what was counted is seen, or to come.
LEMMA ReadBeginStep ==
  ASSUME StatInv, NEW r \in Readers, Stat!ReadBegin(r)
  PROVE  StatInv'
<1> DEFINE start == CASE impl \in {"count_end", "count_stack"} -> finalcount
                      [] impl = "count_end_rcu" -> arrays[Len(arrays)].total
                      [] OTHER -> 0
           P == Stat!Pointed(r)'
<1>1. /\ StatType /\ sloc \in [Readers -> Locals] /\ incs \in [Threads -> Nat] /\ Incs \in Nat
      /\ final_mutex \in Readers \union {NoThread} /\ finalthreadcount \in Nat /\ finalcount \in Nat
      /\ Len(arrays) \in Nat /\ Len(arrays) >= 1 /\ impl \in Stat!Impls
      /\ StatParent /\ \A t \in Threads : StatThread(t)
  BY StatFacts DEF StatInv, StatType
<1>2. /\ impl \notin {"count_atomic", "count_nonatomic", "count_stat_eventual"}
      /\ spc[r] = Stat!ReadFrom(r) /\ spc' = [spc EXCEPT ![r] = "read"]
      /\ IF impl \in {"count_end", "count_stack"} THEN final_mutex = NoThread /\ final_mutex' = r ELSE final_mutex' = final_mutex
      /\ sloc' = [sloc EXCEPT ![r] = [Stat!SRegisters EXCEPT !.low = Incs, !.sum = start, !.cap = Len(arrays)]]
      /\ UNCHANGED <<impl, counter, counterp, finalcount, finalthreadcount, global_count, stopflag, eventual, arrays, incs>>
  BY StatBase DEF Stat!ReadBegin, Stat!SGoto
<1>3. start \in Nat
  <2>1. arrays[Len(arrays)].total \in Nat
    BY <1>1, ArrayIs
  <2> QED BY <1>1, <2>1
<1> HIDE DEF start
<1> DEFINE rec == [Stat!SRegisters EXCEPT !.low = Incs, !.sum = start, !.cap = Len(arrays)]
<1>4. rec \in Locals /\ rec.low = Incs /\ rec.sum = start /\ rec.cap = Len(arrays) /\ rec.scan = 0
  BY <1>1, <1>3, RegistersIn DEF Locals, Stat!SRegisters
<1>5. sloc' = [sloc EXCEPT ![r] = rec]
  BY <1>2
<1> HIDE DEF rec
<1>6. sloc' \in [Readers -> Locals] /\ sloc'[r] = rec /\ \A u \in Readers \ {r} : sloc'[u] = sloc[u]
  BY <1>1, <1>4, <1>5
<1>7. "read" \in Places /\ NoThread \notin Readers
  BY StatBase DEF Places
<1>8. final_mutex' \in Readers \union {NoThread}
  BY <1>1, <1>2
<1>9. StatType'
  BY <1>1, <1>2, <1>6, <1>7, <1>8, ReadTypes
<1>10. spc'[r] = "read" /\ \A u \in Readers \ {r} : spc'[u] = spc[u]
  BY <1>1, <1>2, <1>7, ReaderWrites
<1>11. spc[r] # "synchronize" /\ (r \in Threads => spc[r] \in Running)
  BY <1>2, StatBase DEF Stat!ReadFrom, Running
<1>12. RcuInv'
  BY <1>1, <1>2, <1>4, <1>6, <1>10, <1>11, RcuBegin DEF StatInv
<1>13. Sum(Seen(0, P, incs), Threads) = start
  <2>1. CASE impl \in {"count_end", "count_stack"}
    <3>1. P = counterp /\ start = finalcount
      BY <1>2, <2>1 DEF Stat!Pointed, start
    <3> QED BY <2>1, <3>1 DEF StatInv, EndInv, Outside
  <2>2. CASE impl = "count_end_rcu"
    <3>1. P = arrays[Len(arrays)].counterp /\ start = arrays[Len(arrays)].total
      BY <1>2, <1>4, <1>6, <2>2 DEF Stat!Pointed, start
    <3> QED BY <2>2, <3>1 DEF StatInv, RcuInv, Outside
  <2>3. CASE impl \notin {"count_end", "count_stack", "count_end_rcu"}
    <3>1. start = 0
      BY <2>3 DEF start
    <3>2. \A t \in Threads : t \in P \/ incs[t] = 0
      <4>1. CASE impl = "count_tstat"
        <5>1. P = counterp
          BY <1>2, <4>1 DEF Stat!Pointed
        <5>2. counterp = {t \in Threads : spc[t] # "off"}
          BY <4>1 DEF StatInv, TstatInv
        <5> QED BY <1>1, <5>1, <5>2 DEF StatThread
      <4>2. CASE impl # "count_tstat"
        <5>1. P = Threads
          BY <1>2, <2>3, <4>2, StatBase DEF Stat!Pointed
        <5> QED BY <5>1
      <4> QED BY <4>1, <4>2
    <3> HIDE DEF P
    <3> QED BY <1>1, <3>1, <3>2, NothingSeen
  <2> QED BY <2>1, <2>2, <2>3
<1>14. StatRead(r)'
  <2> HIDE DEF P
  <2>1. Incs = Sum(Seen(0, P, incs), Threads) + Sum(ToCome(0, P, incs), Threads)
    BY <1>1, SeenAndToCome DEF Incs
  <2>2. sloc'[r].sum = start /\ sloc'[r].low = Incs /\ sloc'[r].scan = 0
    BY <1>4, <1>6
  <2>3. /\ sloc'[r].sum <= Sum(Seen(0, P, incs), Threads)
        /\ sloc'[r].low <= sloc'[r].sum + Sum(ToCome(0, P, incs), Threads)
        /\ sloc'[r].sum = Sum(Seen(0, P, incs), Threads)
    BY <1>1, <1>3, <1>13, <2>1, <2>2
  <2>4. impl' \in {"count_end", "count_stack"} => final_mutex' = r
    BY <1>2
  <2> QED BY <1>2, <2>2, <2>3, <2>4 DEF StatRead, P
<1>15. StatGot(r)'
  BY <1>10 DEF StatGot
<1>16. \A u \in Readers \ {r} : impl \in {"count_end", "count_stack"} /\ spc[u] = "read" => final_mutex' = final_mutex
  BY <1>2, <1>7 DEF StatInv, StatRead
<1> QED BY <1>2, <1>6, <1>9, <1>12, <1>14, <1>15, <1>16, ReadMoves

\* read_count() looks at the next thread.
LEMMA ReadNextStep ==
  ASSUME StatInv, NEW r \in Readers, Stat!ReadNext(r)
  PROVE  StatInv'
<1> DEFINE n == sloc[r].scan
           P == Stat!Pointed(r)
           d == IF n \in P THEN incs[n] ELSE 0
           rec == [sloc[r] EXCEPT !.sum = @ + d, !.scan = @ + 1]
<1>1. /\ StatType /\ sloc \in [Readers -> Locals] /\ sloc[r] \in Locals /\ incs \in [Threads -> Nat]
      /\ spc \in [Readers -> Places]
      /\ final_mutex \in Readers \union {NoThread} /\ finalthreadcount \in Nat
      /\ sloc[r].low \in Nat /\ sloc[r].sum \in Nat /\ sloc[r].scan \in 0 .. NR_THREADS
      /\ StatRead(r) /\ RcuInv
  BY StatFacts DEF StatInv, StatType
<1>2. /\ spc[r] = "read" /\ n < NR_THREADS
      /\ sloc' = [sloc EXCEPT ![r].sum = IF n \in P THEN @ + counter[n] ELSE @, ![r].scan = @ + 1]
      /\ UNCHANGED <<impl, counter, counterp, finalcount, final_mutex, finalthreadcount, global_count, stopflag, eventual, arrays, spc, incs>>
  BY DEF Stat!ReadNext
<1>3. n \in Threads
  <2>1. n \in 0 .. NR_THREADS /\ n < NR_THREADS
    BY <1>1, <1>2
  <2> HIDE DEF n
  <2> QED BY <2>1, NRThreadsAssumption DEF Threads
<1>4. counter = incs
  BY <1>1, <1>2 DEF StatInv, OneInv, StatRead
<1>5. d \in Nat
  BY <1>1, <1>3
<1>6. rec \in Locals /\ rec.sum = sloc[r].sum + d /\ rec.scan = n + 1 /\ rec.low = sloc[r].low /\ rec.cap = sloc[r].cap /\ rec.gp = sloc[r].gp
  <2>1. n + 1 \in 0 .. NR_THREADS /\ sloc[r].sum + d \in Nat
    BY <1>1, <1>2, <1>5, NRThreadsAssumption
  <2> HIDE DEF d
  <2> QED BY <1>1, <2>1 DEF Locals
<1>7. sloc' = [sloc EXCEPT ![r] = rec]
  <2>1. (IF n \in P THEN sloc[r].sum + counter[n] ELSE sloc[r].sum) = sloc[r].sum + d
    BY <1>1, <1>4
  <2> HIDE DEF d, P
  <2> QED BY <1>1, <1>2, <2>1 DEF Locals
<1> HIDE DEF rec
<1>8. sloc' \in [Readers -> Locals] /\ sloc'[r] = rec /\ \A u \in Readers \ {r} : sloc'[u] = sloc[u]
  BY <1>1, <1>6, <1>7
<1>9. "read" \in Places /\ spc' = [spc EXCEPT ![r] = "read"]
  BY <1>1, <1>2 DEF Places
<1>10. StatType'
  BY <1>1, <1>2, <1>8, <1>9, ReadTypes
<1>11. RcuInv'
  <2> DEFINE Q == {t \in Threads : spc[t] \in Running}
  <2>1. Sum(Seen(0, Q, incs'), Threads) = Sum(Seen(0, Q, incs), Threads)
    BY <1>2
  <2>2. \A u \in Readers : sloc'[u].cap = sloc[u].cap /\ sloc'[u].gp = sloc[u].gp
    BY <1>6, <1>8
  <2>3. \A t \in Threads : t \in Readers
    BY StatFacts
  <2> QED BY <1>1, <1>2, <2>1, <2>2, <2>3, RcuKept
<1>12. Stat!Pointed(r)' = P
  BY <1>2, <1>6, <1>8 DEF Stat!Pointed, Stat!Threads
<1>13. StatRead(r)'
  <2> HIDE DEF P
  <2>1. /\ Sum(Seen(n + 1, P, incs), Threads) = Sum(Seen(n, P, incs), Threads) + d
        /\ Sum(ToCome(n + 1, P, incs), Threads) = Sum(ToCome(n, P, incs), Threads) - d
    <3> DEFINE m == n
    <3>1. m \in Threads
      BY <1>3
    <3> HIDE DEF m
    <3>2. /\ Sum(Seen(m + 1, P, incs), Threads) = Sum(Seen(m, P, incs), Threads) + (IF m \in P THEN incs[m] ELSE 0)
          /\ Sum(ToCome(m + 1, P, incs), Threads) = Sum(ToCome(m, P, incs), Threads) - (IF m \in P THEN incs[m] ELSE 0)
      BY <1>1, <3>1, SeenNext
    <3> QED BY <3>2 DEF m
  <2>2. Sum(Seen(n, P, incs), Threads) \in Nat /\ Sum(ToCome(n, P, incs), Threads) \in Nat
    BY <1>1, SeenType
  <2>3. /\ sloc[r].sum <= Sum(Seen(n, P, incs), Threads)
        /\ sloc[r].low <= sloc[r].sum + Sum(ToCome(n, P, incs), Threads)
        /\ r = Parent => sloc[r].sum = Sum(Seen(n, P, incs), Threads)
    BY <1>1, <1>2 DEF StatRead, P
  <2> HIDE DEF d
  <2>4. sloc'[r].sum = sloc[r].sum + d /\ sloc'[r].low = sloc[r].low /\ sloc'[r].scan = n + 1
    BY <1>6, <1>8
  <2> HIDE DEF n
  <2>5. /\ sloc'[r].sum <= Sum(Seen(sloc'[r].scan, P, incs), Threads)
        /\ sloc'[r].low <= sloc'[r].sum + Sum(ToCome(sloc'[r].scan, P, incs), Threads)
        /\ r = Parent => sloc'[r].sum = Sum(Seen(sloc'[r].scan, P, incs), Threads)
    BY <1>1, <1>5, <2>1, <2>2, <2>3, <2>4
  <2> QED BY <1>1, <1>2, <1>12, <2>5 DEF StatRead
<1>14. StatGot(r)'
  BY <1>2 DEF StatGot
<1>15. /\ \A u \in Readers \ {r} : sloc'[u].sum = sloc[u].sum /\ sloc'[u].low = sloc[u].low
                                   /\ sloc'[u].scan = sloc[u].scan /\ sloc'[u].cap = sloc[u].cap
       /\ finalthreadcount' = finalthreadcount /\ final_mutex' = final_mutex
  BY <1>2, <1>8
<1> HIDE DEF n, P, d
<1> QED BY <1>2, <1>9, <1>10, <1>11, <1>13, <1>14, <1>15, ReadMoves

\* read_count() has looked at all: it has seen everything, and lets go of the lock or of the array.
LEMMA ReadEndStep ==
  ASSUME StatInv, NEW r \in Readers, Stat!ReadEnd(r)
  PROVE  StatInv'
<1> DEFINE n == sloc[r].scan
           P == Stat!Pointed(r)
<1>1. /\ StatType /\ sloc \in [Readers -> Locals] /\ incs \in [Threads -> Nat] /\ Incs \in Nat
      /\ spc \in [Readers -> Places]
      /\ final_mutex \in Readers \union {NoThread} /\ finalthreadcount \in Nat
      /\ sloc[r].low \in Nat /\ sloc[r].sum \in Nat /\ n \in 0 .. NR_THREADS
      /\ StatRead(r) /\ RcuInv
  BY StatFacts DEF StatInv, StatType
<1>2. /\ spc[r] = "read" /\ spc' = [spc EXCEPT ![r] = "got"] /\ n = NR_THREADS
      /\ final_mutex' = IF impl \in {"count_end", "count_stack"} THEN NoThread ELSE final_mutex
      /\ sloc' = [u \in Readers |-> [sloc[u] EXCEPT !.gp = @ \ {r}]]
      /\ UNCHANGED <<impl, counter, counterp, finalcount, finalthreadcount, global_count, stopflag, eventual, arrays, incs>>
  BY StatBase DEF Stat!ReadEnd, Stat!SGoto
<1>3. ASSUME NEW u \in Readers
      PROVE  /\ sloc'[u] \in Locals /\ sloc'[u].low = sloc[u].low /\ sloc'[u].sum = sloc[u].sum
             /\ sloc'[u].scan = sloc[u].scan /\ sloc'[u].cap = sloc[u].cap /\ sloc'[u].gp = sloc[u].gp \ {r}
  <2>1. sloc[u] \in Locals /\ sloc'[u] = [sloc[u] EXCEPT !.gp = @ \ {r}]
    BY <1>1, <1>2
  <2> QED BY <2>1 DEF Locals
<1>4. sloc' \in [Readers -> Locals]
  BY <1>2, <1>3
<1>5. "got" \in Places /\ final_mutex' \in Readers \union {NoThread}
  BY <1>1, <1>2 DEF Places
<1>6. StatType'
  BY <1>1, <1>2, <1>4, <1>5, ReadTypes
<1>7. spc'[r] = "got" /\ \A u \in Readers \ {r} : spc'[u] = spc[u]
  BY <1>1, <1>2, <1>5, ReaderWrites
<1>8. RcuInv'
  <2> DEFINE Q == {t \in Threads : spc[t] \in Running}
  <2>1. Sum(Seen(0, Q, incs'), Threads) = Sum(Seen(0, Q, incs), Threads)
    BY <1>2
  <2>2. \A t \in Threads : t \in Readers
    BY StatFacts
  <2>3. Q = {t \in Threads : spc'[t] \in Running}
    BY <1>2, <1>7, <2>2 DEF Running
  <2>4. /\ \A t \in Threads : spc'[t] = "synchronize" => spc[t] = "synchronize" /\ sloc'[t].cap = sloc[t].cap
        /\ \A t \in Threads : spc[t] = "synchronize" => spc'[t] = "synchronize"
    BY <1>2, <1>3, <1>7, <2>2
  <2>5. \A u \in Readers : spc'[u] = "read" =>
           spc[u] = "read" /\ sloc'[u].cap = sloc[u].cap /\ \A t \in Threads : u \in sloc[t].gp => u \in sloc'[t].gp
    BY <1>2, <1>3, <1>7, <2>2
  <2> HIDE DEF Q
  <2> QED BY <1>1, <1>2, <2>1, <2>3, <2>4, <2>5, RcuKept DEF Q
<1>9. StatRead(r)'
  BY <1>7 DEF StatRead
<1>10. StatGot(r)'
  <2>1. Sum(Seen(NR_THREADS, P, incs), Threads) = Incs /\ Sum(ToCome(NR_THREADS, P, incs), Threads) = 0
    BY <1>1, SeenAll DEF Incs
  <2>2. /\ sloc[r].sum <= Sum(Seen(NR_THREADS, P, incs), Threads)
        /\ sloc[r].low <= sloc[r].sum + Sum(ToCome(NR_THREADS, P, incs), Threads)
        /\ r = Parent => sloc[r].sum = Sum(Seen(NR_THREADS, P, incs), Threads)
    BY <1>1, <1>2 DEF StatRead
  <2> HIDE DEF n, P
  <2>3. sloc'[r].sum = sloc[r].sum /\ sloc'[r].low = sloc[r].low /\ Incs' = Incs
    BY <1>2, <1>3 DEF Incs
  <2>4. sloc[r].sum <= Incs /\ sloc[r].low <= sloc[r].sum /\ (r = Parent => sloc[r].sum = Incs)
    BY <1>1, <2>1, <2>2
  <2> QED BY <1>1, <2>3, <2>4 DEF StatGot
<1>11. \A u \in Readers \ {r} : impl \in {"count_end", "count_stack"} /\ spc[u] = "read" => final_mutex' = final_mutex
  <2>1. \A u \in Readers : impl \in {"count_end", "count_stack"} /\ spc[u] = "read" => final_mutex = u
    BY DEF StatInv, StatRead
  <2> QED BY <1>2, <2>1
<1> QED BY <1>2, <1>3, <1>6, <1>8, <1>9, <1>10, <1>11, ReadMoves

\* read_count() returns.
LEMMA ReadReturnStep ==
  ASSUME StatInv, NEW r \in Readers, Stat!ReadReturn(r)
  PROVE  StatInv'
<1> DEFINE to == IF r = Parent THEN "done" ELSE "idle"
<1>1. /\ StatType /\ sloc \in [Readers -> Locals] /\ spc \in [Readers -> Places]
      /\ final_mutex \in Readers \union {NoThread} /\ finalthreadcount \in Nat /\ RcuInv
  BY StatFacts DEF StatInv, StatType
<1>2. /\ spc[r] = "got" /\ spc' = [spc EXCEPT ![r] = to]
      /\ sloc' = [sloc EXCEPT ![r] = Stat!SRegisters]
      /\ finalthreadcount' = IF to = "done" THEN finalthreadcount + 1 ELSE finalthreadcount
      /\ UNCHANGED <<impl, counter, counterp, finalcount, final_mutex, global_count, stopflag, eventual, arrays, incs>>
  BY StatBase DEF Stat!ReadReturn, Stat!SGoto
<1>3. sloc' \in [Readers -> Locals] /\ \A u \in Readers \ {r} : sloc'[u] = sloc[u]
  BY <1>1, <1>2, RegistersIn
<1>4. to \in Places /\ final_mutex' \in Readers \union {NoThread} /\ finalthreadcount' \in Nat
  BY <1>1, <1>2 DEF Places
<1>5. to \in {"done", "idle"}
  OBVIOUS
<1> HIDE DEF to
<1>6. StatType'
  BY <1>1, <1>2, <1>3, <1>4, ReadTypes
<1>7. spc'[r] = to /\ \A u \in Readers \ {r} : spc'[u] = spc[u]
  BY <1>1, <1>2, <1>4, ReaderWrites
<1>8. StatRead(r)' /\ StatGot(r)'
  BY <1>5, <1>7 DEF StatRead, StatGot
<1>9. RcuInv'
  <2> DEFINE Q == {t \in Threads : spc[t] \in Running}
  <2>1. Sum(Seen(0, Q, incs'), Threads) = Sum(Seen(0, Q, incs), Threads)
    BY <1>2
  <2>2. \A t \in Threads : t \in Readers /\ t # Parent
    BY StatFacts
  <2>3. Q = {t \in Threads : spc'[t] \in Running}
    BY <1>2, <1>7, <2>2 DEF Running, to
  <2>4. /\ \A t \in Threads : spc'[t] = "synchronize" => spc[t] = "synchronize" /\ sloc'[t].cap = sloc[t].cap
        /\ \A t \in Threads : spc[t] = "synchronize" => spc'[t] = "synchronize"
    BY <1>2, <1>3, <1>5, <1>7, <2>2
  <2>5. \A u \in Readers : spc'[u] = "read" =>
           /\ spc[u] = "read" /\ sloc'[u].cap = sloc[u].cap
           /\ \A t \in Threads : spc[t] = "synchronize" /\ u \in sloc[t].gp => u \in sloc'[t].gp
    <3> SUFFICES ASSUME NEW u \in Readers, spc'[u] = "read"
                 PROVE  /\ spc[u] = "read" /\ sloc'[u].cap = sloc[u].cap
                        /\ \A t \in Threads : spc[t] = "synchronize" /\ u \in sloc[t].gp => u \in sloc'[t].gp
      OBVIOUS
    <3>1. u # r
      BY <1>5, <1>7
    <3>2. \A t \in Threads : spc[t] = "synchronize" => sloc'[t] = sloc[t]
      BY <1>2, <1>3, <2>2
    <3> QED BY <1>3, <1>7, <3>1, <3>2
  <2> HIDE DEF Q
  <2> QED BY <1>1, <1>2, <2>1, <2>3, <2>4, <2>5, RcuKept DEF Q
<1> QED BY <1>2, <1>3, <1>6, <1>8, <1>9, ReadMoves DEF to

\* A registered array is not NULL: its counterp gets the thread that registers.
LEMMA RegisterStep ==
  ASSUME StatInv, NEW t \in Threads, Stat!count_register_thread(t)
  PROVE  StatInv'
<1> DEFINE last == Len(arrays)
           cap == [arrays[last] EXCEPT !.counterp = @ \union {t}]
<1>1. /\ StatType /\ spc \in [Readers -> Places] /\ incs \in [Threads -> Nat] /\ arrays \in Seq(Arrays) /\ last \in Nat /\ last >= 1
      /\ counterp \in SUBSET Threads /\ t \in Readers /\ t # Parent /\ \A u \in Threads : u \in Readers /\ u # Parent
      /\ StatThread(t) /\ StatParent /\ RcuInv /\ EndInv /\ TstatInv
  BY StatFacts DEF StatInv, StatType
<1>2. /\ spc[t] = "off" /\ spc' = [spc EXCEPT ![t] = "idle"]
      /\ impl # "count_tstat" => final_mutex = NoThread
      /\ counterp' = IF impl = "count_end_rcu" THEN counterp ELSE counterp \union {t}
      /\ arrays' = IF impl = "count_end_rcu" THEN [arrays EXCEPT ![last] = cap] ELSE arrays
      /\ UNCHANGED <<impl, counter, finalcount, final_mutex, finalthreadcount, global_count, stopflag, eventual, sloc, incs>>
  BY StatBase DEF Stat!count_register_thread, Stat!SGoto
<1>3. incs[t] = 0 /\ impl \in Stat!Registering
  BY <1>1, <1>2 DEF StatThread
<1>4. /\ spc' \in [Readers -> Places] /\ spc'[t] = "idle" /\ \A u \in Readers \ {t} : spc'[u] = spc[u]
      /\ spc'[Parent] = spc[Parent] /\ spc[Parent] = "waiting"
  BY <1>1, <1>2 DEF Places, StatParent
<1>5. cap \in Arrays /\ cap.counterp = arrays[last].counterp \union {t} /\ cap.total = arrays[last].total /\ cap.freed = arrays[last].freed
  <2>1. arrays[last] \in Arrays
    BY <1>1, ArrayIs
  <2> HIDE DEF last
  <2> QED BY <2>1 DEF Arrays
<1> HIDE DEF cap
<1>6. /\ arrays' \in Seq(Arrays) /\ Len(arrays') = last
      /\ impl = "count_end_rcu" =>
           arrays'[last] = cap /\ \A i \in 1 .. last : i # last => arrays'[i] = arrays[i]
      /\ impl # "count_end_rcu" => arrays' = arrays
  <2> HIDE DEF Arrays
  <2> QED BY <1>1, <1>2, <1>5
<1>7. counterp' \in SUBSET Threads
  BY <1>1, <1>2
<1>8. StatType'
  BY <1>1, <1>2, <1>4, <1>6, <1>7 DEF StatType
<1>9. StatParent' /\ StatThread(t)'
  BY <1>3, <1>4 DEF StatParent, StatThread
<1>10. EndInv'
  <2>1. CASE impl \in {"count_end", "count_stack"}
    <3>1. counterp = {u \in Threads : spc[u] \in Running} /\ finalcount = Sum(Seen(0, counterp, incs), Threads)
      BY <1>1, <2>1 DEF EndInv, Outside
    <3>2. counterp' = counterp \union {t}
      BY <1>2, <2>1
    <3>3. counterp' = {u \in Threads : spc'[u] \in Running}
      BY <1>1, <1>4, <3>1, <3>2 DEF Running
    <3>4. finalcount = Sum(Seen(0, counterp \union {t}, incs), Threads)
      BY <1>1, <1>3, <3>1, SeenJoin
    <3> QED BY <1>2, <3>2, <3>3, <3>4 DEF EndInv, Outside
  <2> QED BY <1>2, <2>1 DEF EndInv
<1>11. TstatInv'
  <2>1. CASE impl = "count_tstat"
    <3>1. counterp' = {u \in Threads : spc'[u] # "off"}
      BY <1>1, <1>2, <1>4, <2>1 DEF TstatInv
    <3>2. Left' = Left
      BY <1>1, <1>2, <1>4 DEF Left
    <3>3. \A u \in Threads : spc'[u] = "gone" => spc[u] = "gone"
      BY <1>1, <1>4
    <3>4. \A u \in Threads : spc[u] # "gone"
      BY <1>1, <1>4, <2>1 DEF TstatInv
    <3> QED BY <1>1, <1>2, <1>4, <2>1, <3>1, <3>2, <3>3, <3>4 DEF TstatInv
  <2> QED BY <1>2, <2>1 DEF TstatInv
<1>12. EventualInv'
  BY <1>2, <1>4, EventualKept DEF StatInv
<1>13. \A u \in Readers \ {t} : spc[u] = "read" =>
         \/ Stat!Pointed(u)' = Stat!Pointed(u)
         \/ Stat!Pointed(u)' = Stat!Pointed(u) \union {t}
  <2> SUFFICES ASSUME NEW u \in Readers \ {t}, spc[u] = "read"
               PROVE  Stat!Pointed(u)' = Stat!Pointed(u) \/ Stat!Pointed(u)' = Stat!Pointed(u) \union {t}
    OBVIOUS
  <2>1. CASE impl = "count_end_rcu"
    <3>1. sloc[u].cap \in 1 .. last
      BY <1>1, <2>1 DEF RcuInv
    <3>2. Stat!Pointed(u) = arrays[sloc[u].cap].counterp /\ Stat!Pointed(u)' = arrays'[sloc[u].cap].counterp
      BY <1>2, <2>1 DEF Stat!Pointed
    <3>3. arrays'[sloc[u].cap].counterp \in {arrays[sloc[u].cap].counterp, arrays[sloc[u].cap].counterp \union {t}}
      BY <1>5, <1>6, <2>1, <3>1
    <3> QED BY <3>2, <3>3
  <2>2. CASE impl # "count_end_rcu"
    BY <1>2, <2>2 DEF Stat!Pointed, Stat!Threads
  <2> QED BY <2>1, <2>2
<1>14. StatRead(t)' /\ StatGot(t)'
  BY <1>4 DEF StatRead, StatGot
<1>15. RcuInv'
  <2>1. CASE impl = "count_end_rcu"
    <3>1. /\ arrays[last].counterp = {u \in Threads : spc[u] \in Running} /\ ~ arrays[last].freed
          /\ arrays[last].total = Sum(Seen(0, arrays[last].counterp, incs), Threads)
          /\ \A u \in Threads : spc[u] = "synchronize" => sloc[u].cap \in 1 .. last - 1
      BY <1>1, <2>1 DEF RcuInv, Outside
    <3>2. /\ cap.counterp = {u \in Threads : spc'[u] \in Running} /\ ~ cap.freed
          /\ cap.total = Sum(Seen(0, cap.counterp, incs), Threads)
      <4>1. cap.counterp = {u \in Threads : spc'[u] \in Running}
        BY <1>1, <1>4, <1>5, <3>1 DEF Running
      <4>2. Sum(Seen(0, arrays[last].counterp \union {t}, incs), Threads) = Sum(Seen(0, arrays[last].counterp, incs), Threads)
        BY <1>1, <1>3, SeenJoin
      <4> QED BY <1>5, <3>1, <4>1, <4>2
    <3>3. \A u \in Threads : spc'[u] = "synchronize" <=> spc[u] = "synchronize"
      BY <1>1, <1>2, <1>4
    <3>4. ASSUME NEW u \in Readers, spc'[u] = "read"
          PROVE  /\ sloc[u].cap \in 1 .. last
                 /\ ~ arrays'[sloc[u].cap].freed
                 /\ \A v \in Threads : spc'[v] = "synchronize" /\ sloc[u].cap <= sloc[v].cap => u \in sloc[v].gp
                 /\ \A v \in arrays'[sloc[u].cap].counterp :
                      spc'[v] \in Running \/ (spc'[v] = "synchronize" /\ sloc[u].cap <= sloc[v].cap)
      <4>1. /\ sloc[u].cap \in 1 .. last /\ ~ arrays[sloc[u].cap].freed
            /\ \A v \in Threads : spc[v] = "synchronize" /\ sloc[u].cap <= sloc[v].cap => u \in sloc[v].gp
            /\ \A v \in arrays[sloc[u].cap].counterp :
                      spc[v] \in Running \/ (spc[v] = "synchronize" /\ sloc[u].cap <= sloc[v].cap)
        BY <1>1, <1>4, <2>1, <3>4 DEF RcuInv
      <4>2. ~ arrays'[sloc[u].cap].freed /\ arrays'[sloc[u].cap].counterp \subseteq arrays[sloc[u].cap].counterp \union {t}
        BY <1>5, <1>6, <2>1, <4>1
      <4>3. arrays[sloc[u].cap].counterp \subseteq Threads
        BY <1>1, <4>1, ArrayIs
      <4>4. ASSUME NEW v \in arrays'[sloc[u].cap].counterp
            PROVE  spc'[v] \in Running \/ (spc'[v] = "synchronize" /\ sloc[u].cap <= sloc[v].cap)
        <5>1. CASE v = t
          BY <1>4, <5>1 DEF Running
        <5>2. CASE v # t
          <6>1. v \in arrays[sloc[u].cap].counterp /\ v \in Threads
            BY <4>2, <4>3, <4>4, <5>2
          <6>2. spc'[v] = spc[v]
            BY <1>1, <1>4, <5>2, <6>1
          <6> QED BY <4>1, <6>1, <6>2
        <5> QED BY <5>1, <5>2
      <4> QED BY <3>3, <4>1, <4>2, <4>4
    <3>5. arrays'[Len(arrays')] = cap /\ Len(arrays') = last
      BY <1>6, <2>1
    <3>6. \A u \in Threads : spc'[u] = "synchronize" => sloc[u].cap \in 1 .. last - 1
      BY <3>1, <3>3
    <3> HIDE DEF last
    <3> QED BY <1>2, <2>1, <3>2, <3>4, <3>5, <3>6 DEF RcuInv, Outside
  <2> QED BY <1>2, <2>1 DEF RcuInv
<1> QED BY <1>1, <1>2, <1>3, <1>4, <1>8, <1>9, <1>10, <1>11, <1>12, <1>13, <1>14, <1>15, OneMoves

\* count_end.c and count_stack.c: a thread that leaves adds its counter to finalcount while nobody reads.
LEMMA EndUnregisterStep ==
  ASSUME StatInv, NEW t \in Threads, Stat!EndUnregister(t)
  PROVE  StatInv'
<1>1. /\ StatType /\ spc \in [Readers -> Places] /\ incs \in [Threads -> Nat] /\ finalcount \in Nat
      /\ counterp \in SUBSET Threads /\ t \in Readers /\ t # Parent /\ \A u \in Threads : u \in Readers /\ u # Parent
      /\ StatParent /\ EndInv /\ OneInv
  BY StatFacts DEF StatInv, StatType
<1>2. /\ impl \in {"count_end", "count_stack"} /\ final_mutex = NoThread
      /\ spc[t] = "idle" /\ spc' = [spc EXCEPT ![t] = "gone"]
      /\ finalcount' = finalcount + counter[t] /\ counterp' = counterp \ {t}
      /\ UNCHANGED <<impl, counter, final_mutex, finalthreadcount, global_count, stopflag, eventual, arrays, sloc, incs>>
  BY StatBase DEF Stat!EndUnregister, Stat!SGoto
<1>3. /\ spc' \in [Readers -> Places] /\ spc'[t] = "gone" /\ \A u \in Readers \ {t} : spc'[u] = spc[u]
      /\ spc'[Parent] = spc[Parent] /\ spc[Parent] = "waiting"
  BY <1>1, <1>2 DEF Places, StatParent
<1>4. counter[t] = incs[t] /\ incs[t] \in Nat
  BY <1>1, <1>2 DEF OneInv
<1>5. StatType'
  BY <1>1, <1>2, <1>3, <1>4 DEF StatType
<1>6. StatParent' /\ StatThread(t)'
  BY <1>3 DEF StatParent, StatThread
<1>7. EndInv'
  <2>1. counterp = {u \in Threads : spc[u] \in Running} /\ finalcount = Sum(Seen(0, counterp, incs), Threads)
    BY <1>1, <1>2 DEF EndInv, Outside
  <2>2. t \in counterp
    BY <1>2, <2>1 DEF Running
  <2>3. Sum(Seen(0, counterp \ {t}, incs), Threads) = Sum(Seen(0, counterp, incs), Threads) + incs[t]
    BY <1>1, <2>2, SeenLeave
  <2>4. counterp' = {u \in Threads : spc'[u] \in Running}
    BY <1>1, <1>2, <1>3, <2>1 DEF Running
  <2>5. finalcount' = Sum(Seen(0, counterp', incs), Threads)
    BY <1>2, <1>4, <2>1, <2>3
  <2> QED BY <1>2, <2>4, <2>5 DEF EndInv, Outside
<1>8. RcuInv' /\ TstatInv'
  BY <1>2 DEF RcuInv, TstatInv
<1>9. EventualInv'
  BY <1>2, <1>3, EventualKept DEF StatInv
<1>10. \A u \in Readers : spc[u] # "read"
  BY <1>2, StatBase DEF StatInv, StatRead
<1>11. StatRead(t)' /\ StatGot(t)'
  BY <1>3 DEF StatRead, StatGot
<1> QED BY <1>1, <1>2, <1>3, <1>5, <1>6, <1>7, <1>8, <1>9, <1>10, <1>11, OneMoves

\* A thread leaves that has nothing to unregister, or nothing more.
LEMMA ExitStep ==
  ASSUME StatInv, NEW t \in Threads, Stat!Exit(t) \/ Stat!TstatUnregister(t) \/ Stat!TstatExit(t)
  PROVE  StatInv'
<1>1. /\ StatType /\ spc \in [Readers -> Places] /\ finalthreadcount \in Nat
      /\ t \in Readers /\ t # Parent /\ \A u \in Threads : u \in Readers /\ u # Parent
      /\ StatParent /\ TstatInv /\ StatThread(t)
  BY StatFacts DEF StatInv, StatType
<1>2. /\ UNCHANGED <<impl, counter, counterp, finalcount, final_mutex, global_count, stopflag, eventual, arrays, sloc, incs>>
      /\ \/ impl \notin Stat!Registering /\ spc[t] = "idle" /\ spc' = [spc EXCEPT ![t] = "gone"] /\ finalthreadcount' = finalthreadcount
         \/ impl = "count_tstat" /\ spc[t] = "idle" /\ spc' = [spc EXCEPT ![t] = "linger"] /\ finalthreadcount' = finalthreadcount + 1
         \/ spc[t] = "linger" /\ spc' = [spc EXCEPT ![t] = "gone"] /\ finalthreadcount' = finalthreadcount
            /\ finalthreadcount >= NR_THREADS + 1
  BY StatBase DEF Stat!Exit, Stat!TstatUnregister, Stat!TstatExit, Stat!SGoto
<1>3. /\ spc' \in [Readers -> Places] /\ spc'[t] \in {"linger", "gone"} /\ \A u \in Readers \ {t} : spc'[u] = spc[u]
      /\ spc'[Parent] = spc[Parent] /\ spc[t] \in {"idle", "linger"}
  <2>1. PICK to \in {"linger", "gone"} : spc' = [spc EXCEPT ![t] = to]
    BY <1>2
  <2>2. to \in Places
    BY DEF Places
  <2>3. spc' \in [Readers -> Places] /\ spc'[t] = to /\ \A u \in Readers \ {t} : spc'[u] = spc[u]
    BY <1>1, <2>1, <2>2
  <2> QED BY <1>1, <1>2, <2>3, StatFacts
<1>4. StatType'
  BY <1>1, <1>2, <1>3 DEF StatType
<1>5. impl \notin {"count_end", "count_stack", "count_end_rcu"}
  BY <1>1, <1>2 DEF StatThread, Stat!Registering
<1>6. StatParent'
  <2>1. \A u \in Threads : spc[u] \in {"linger", "gone"} => spc'[u] \in {"linger", "gone"}
    BY <1>1, <1>3
  <2> QED BY <1>1, <1>3, <2>1 DEF StatParent
<1>7. StatThread(t)'
  <2>1. spc'[t] = "linger" => impl = "count_tstat"
    BY <1>1, <1>2
  <2> QED BY <1>2, <1>3, <2>1 DEF StatThread
<1>8. EndInv' /\ RcuInv'
  BY <1>2, <1>5 DEF EndInv, RcuInv
<1>9. EventualInv'
  BY <1>2, <1>3, EventualKept DEF StatInv
<1>10. TstatInv'
  <2>1. CASE impl = "count_tstat"
    <3>1. counterp' = {u \in Threads : spc'[u] # "off"}
      <4>1. counterp = {u \in Threads : spc[u] # "off"}
        BY <1>1, <2>1 DEF TstatInv
      <4> QED BY <1>1, <1>2, <1>3, <4>1
    <3>2. /\ finalthreadcount = Cardinality(Left) + (IF spc[Parent] = "done" THEN 1 ELSE 0)
          /\ (\E u \in Threads : spc[u] = "gone") => spc[Parent] = "done" /\ \A u \in Threads : spc[u] \in {"linger", "gone"}
      BY <1>1, <2>1 DEF TstatInv
    <3>3. CASE spc[t] = "idle"
      <4>1. /\ spc'[t] = "linger" /\ finalthreadcount' = finalthreadcount + 1 /\ spc[Parent] = "waiting"
            /\ \A u \in Threads : spc[u] # "gone"
        BY <1>1, <1>2, <2>1, <3>2, <3>3 DEF StatParent, Stat!Registering
      <4>2. Left' = Left \union {t} /\ t \notin Left
        BY <1>1, <1>3, <3>3 DEF Left
      <4>3. Cardinality(Left') = Cardinality(Left) + 1
        BY <4>2, ThreadsFinite, FS_Subset, FS_AddElement DEF Left
      <4>4. \A u \in Threads : spc'[u] # "gone"
        BY <1>1, <1>3, <4>1
      <4>5. finalthreadcount' = Cardinality(Left') + (IF spc'[Parent] = "done" THEN 1 ELSE 0)
        BY <1>3, <3>2, <4>1, <4>3, LeftCount
      <4> QED BY <2>1, <3>1, <4>4, <4>5 DEF TstatInv
    <3>4. CASE spc[t] = "linger"
      <4>1. finalthreadcount' = finalthreadcount /\ finalthreadcount >= NR_THREADS + 1
        BY <1>2, <3>4
      <4>2. spc[Parent] = "done" /\ Cardinality(Left) = NR_THREADS
        BY <3>2, <4>1, LeftCount, NRThreadsAssumption
      <4>3. Left = Threads
        BY <4>2, LeftCount
      <4>4. \A u \in Threads : spc'[u] \in {"linger", "gone"}
        BY <1>1, <1>3, <4>3 DEF Left
      <4>5. Left' = Left
        BY <4>3, <4>4 DEF Left
      <4> QED BY <1>3, <2>1, <3>1, <3>2, <4>1, <4>2, <4>4, <4>5 DEF TstatInv
    <3> QED BY <1>3, <3>3, <3>4
  <2> QED BY <1>2, <2>1 DEF TstatInv
<1>11. \A u \in Readers : Stat!Pointed(u)' = Stat!Pointed(u)
  BY <1>2 DEF Stat!Pointed, Stat!Threads
<1>12. StatRead(t)' /\ StatGot(t)'
  BY <1>3 DEF StatRead, StatGot
<1> QED BY <1>1, <1>2, <1>3, <1>4, <1>6, <1>7, <1>8, <1>9, <1>10, <1>11, <1>12, OneMoves

\* count_end_rcu.c: a thread that leaves puts a copy of the array, with its own counter in the total, in
\* the place of the array; those that read the old one are those it is going to wait for.
LEMMA RcuUnregisterStep ==
  ASSUME StatInv, NEW t \in Threads, Stat!RcuUnregister(t)
  PROVE  StatInv'
<1> DEFINE last == Len(arrays)
           capold == arrays[last]
           cap == [total |-> capold.total + incs[t], counterp |-> capold.counterp \ {t}, freed |-> FALSE]
           gp == {r \in Readers : spc[r] = "read"}
           rec == [sloc[t] EXCEPT !.cap = last, !.gp = gp]
<1>1. /\ StatType /\ spc \in [Readers -> Places] /\ sloc \in [Readers -> Locals] /\ sloc[t] \in Locals
      /\ incs \in [Threads -> Nat] /\ incs[t] \in Nat /\ arrays \in Seq(Arrays) /\ last \in Nat /\ last >= 1
      /\ t \in Readers /\ t # Parent /\ \A u \in Threads : u \in Readers /\ u # Parent
      /\ StatParent /\ RcuInv /\ OneInv
  BY StatFacts DEF StatInv, StatType
<1>2. counter = incs
  BY <1>1 DEF OneInv, Stat!RcuUnregister
<1>3. /\ impl = "count_end_rcu" /\ spc[t] = "idle" /\ spc' = [spc EXCEPT ![t] = "synchronize"]
      /\ arrays' = Append(arrays, cap)
      /\ sloc' = [sloc EXCEPT ![t].cap = last, ![t].gp = gp]
      /\ UNCHANGED <<impl, counter, counterp, finalcount, final_mutex, finalthreadcount, global_count, stopflag, eventual, incs>>
  BY <1>2, StatBase DEF Stat!RcuUnregister, Stat!SGoto
<1>4. capold.counterp \subseteq Threads /\ capold.total \in Nat /\ capold = arrays[last]
  <2>1. last \in 1 .. last
    BY <1>1
  <2> QED BY <1>1, <2>1, ArrayIs
<1> HIDE DEF capold, last
<1>5. cap \in Arrays /\ cap.counterp = capold.counterp \ {t} /\ cap.total = capold.total + incs[t] /\ ~ cap.freed
  BY <1>1, <1>4 DEF Arrays
<1> HIDE DEF cap
<1>6. /\ arrays' \in Seq(Arrays) /\ Len(arrays') = last + 1 /\ arrays'[last + 1] = cap
      /\ \A i \in 1 .. last : arrays'[i] = arrays[i]
  <2> HIDE DEF Arrays
  <2> QED BY <1>1, <1>3, <1>5 DEF last
<1>7. gp \subseteq Readers
  OBVIOUS
<1>8. rec \in Locals /\ rec.cap = last /\ rec.gp = gp /\ rec.low = sloc[t].low /\ rec.sum = sloc[t].sum /\ rec.scan = sloc[t].scan
  <2> HIDE DEF gp
  <2> QED BY <1>1, <1>7 DEF Locals
<1>9. sloc' = [sloc EXCEPT ![t] = rec]
  <2> HIDE DEF gp
  <2> QED BY <1>1, <1>3 DEF Locals
<1> HIDE DEF rec
<1>10. /\ sloc' \in [Readers -> Locals] /\ sloc'[t] = rec /\ \A u \in Readers \ {t} : sloc'[u] = sloc[u]
  BY <1>1, <1>8, <1>9
<1>11. /\ spc' \in [Readers -> Places] /\ spc'[t] = "synchronize" /\ \A u \in Readers \ {t} : spc'[u] = spc[u]
       /\ spc'[Parent] = spc[Parent] /\ spc[Parent] = "waiting"
  <2>1. spc[Parent] = "waiting"
    BY <1>1, <1>3 DEF StatParent
  <2>2. "synchronize" \in Places /\ spc' = [spc EXCEPT ![t] = "synchronize"] /\ Parent \in Readers
    BY <1>3 DEF Places, Readers
  <2>3. spc' \in [Readers -> Places] /\ spc'[t] = "synchronize" /\ \A u \in Readers \ {t} : spc'[u] = spc[u]
    BY <1>1, <2>2
  <2> QED BY <1>1, <2>1, <2>2, <2>3
<1>12. StatType'
  BY <1>1, <1>3, <1>6, <1>10, <1>11 DEF StatType
<1>13. StatParent' /\ StatThread(t)'
  BY <1>3, <1>11 DEF StatParent, StatThread
<1>14. EndInv' /\ TstatInv'
  BY <1>3 DEF EndInv, TstatInv
<1>15. EventualInv'
  BY <1>3, <1>11, EventualKept DEF StatInv
<1>16. StatRead(t)' /\ StatGot(t)'
  BY <1>11 DEF StatRead, StatGot
<1>17. /\ capold.counterp = {u \in Threads : spc[u] \in Running} /\ ~ capold.freed
       /\ capold.total = Sum(Seen(0, capold.counterp, incs), Threads)
       /\ \A u \in Threads : spc[u] = "synchronize" => sloc[u].cap \in 1 .. last - 1
  BY <1>1, <1>3 DEF RcuInv, Outside, capold, last
<1>18. ASSUME NEW u \in Readers, spc[u] = "read"
       PROVE  /\ sloc[u].cap \in 1 .. last /\ ~ arrays[sloc[u].cap].freed /\ u # t /\ u \in gp
              /\ \A v \in Threads : spc[v] = "synchronize" /\ sloc[u].cap <= sloc[v].cap => u \in sloc[v].gp
              /\ \A v \in arrays[sloc[u].cap].counterp :
                   spc[v] \in Running \/ (spc[v] = "synchronize" /\ sloc[u].cap <= sloc[v].cap)
  BY <1>1, <1>3, <1>18 DEF RcuInv, last
<1>19. \A u \in Readers \ {t} : spc[u] = "read" => Stat!Pointed(u)' = Stat!Pointed(u)
  <2> SUFFICES ASSUME NEW u \in Readers \ {t}, spc[u] = "read"
               PROVE  Stat!Pointed(u)' = Stat!Pointed(u)
    OBVIOUS
  <2>1. arrays'[sloc[u].cap] = arrays[sloc[u].cap]
    BY <1>6, <1>18
  <2> QED BY <1>3, <1>10, <2>1 DEF Stat!Pointed
<1>20. RcuInv'
  <2>1. cap.counterp = {u \in Threads : spc'[u] \in Running}
    BY <1>1, <1>5, <1>11, <1>17 DEF Running
  <2>2. cap.total = Sum(Seen(0, cap.counterp, incs), Threads)
    <3>1. t \in capold.counterp
      BY <1>3, <1>17 DEF Running
    <3>2. Sum(Seen(0, capold.counterp \ {t}, incs), Threads) = Sum(Seen(0, capold.counterp, incs), Threads) + incs[t]
      BY <1>1, <3>1, SeenLeave
    <3> QED BY <1>5, <1>17, <3>2
  <2>3. \A u \in Threads : spc'[u] = "synchronize" => sloc'[u].cap \in 1 .. last
    <3> SUFFICES ASSUME NEW u \in Threads, spc'[u] = "synchronize" PROVE sloc'[u].cap \in 1 .. last
      OBVIOUS
    <3>1. CASE u = t
      BY <1>1, <1>8, <1>10, <3>1
    <3>2. CASE u # t
      <4>1. sloc'[u].cap = sloc[u].cap /\ sloc[u].cap \in 1 .. last - 1
        BY <1>1, <1>10, <1>11, <1>17, <3>2
      <4> QED BY <1>1, <4>1
    <3> QED BY <3>1, <3>2
  <2>4. ASSUME NEW u \in Readers, spc'[u] = "read"
        PROVE  /\ sloc'[u].cap \in 1 .. last + 1
               /\ ~ arrays'[sloc'[u].cap].freed
               /\ \A v \in Threads : spc'[v] = "synchronize" /\ sloc'[u].cap <= sloc'[v].cap => u \in sloc'[v].gp
               /\ \A v \in arrays'[sloc'[u].cap].counterp :
                    spc'[v] \in Running \/ (spc'[v] = "synchronize" /\ sloc'[u].cap <= sloc'[v].cap)
    <3>1. u # t /\ spc[u] = "read" /\ sloc'[u] = sloc[u]
      BY <1>10, <1>11, <2>4
    <3>2. sloc[u].cap \in 1 .. last /\ arrays'[sloc[u].cap] = arrays[sloc[u].cap]
      BY <1>6, <1>18, <3>1
    <3>3. sloc[u].cap \in 1 .. last + 1 /\ sloc[u].cap <= last
      BY <1>1, <3>2
    <3>4. ASSUME NEW v \in Threads, spc'[v] = "synchronize", sloc'[u].cap <= sloc'[v].cap
          PROVE  u \in sloc'[v].gp
      <4>1. CASE v = t
        BY <1>8, <1>10, <1>18, <3>1, <4>1
      <4>2. CASE v # t
        <5>1. spc[v] = "synchronize" /\ sloc'[v] = sloc[v]
          BY <1>1, <1>10, <1>11, <3>4, <4>2
        <5> QED BY <1>18, <3>1, <3>4, <5>1
      <4> QED BY <4>1, <4>2
    <3>5. ASSUME NEW v \in arrays[sloc[u].cap].counterp
          PROVE  spc'[v] \in Running \/ (spc'[v] = "synchronize" /\ sloc[u].cap <= sloc'[v].cap)
      <4>1. v \in Threads
        BY <1>1, <3>2, ArrayIs DEF last
      <4>2. CASE v = t
        BY <1>8, <1>10, <1>11, <3>3, <4>2
      <4>3. CASE v # t
        <5>1. spc'[v] = spc[v] /\ sloc'[v] = sloc[v]
          BY <1>1, <1>10, <1>11, <4>1, <4>3
        <5> QED BY <1>18, <3>1, <5>1
      <4> QED BY <4>2, <4>3
    <3>6. ~ arrays[sloc[u].cap].freed
      BY <1>18, <3>1
    <3> QED BY <3>1, <3>2, <3>3, <3>4, <3>5, <3>6
  <2>5. arrays'[Len(arrays')] = cap /\ Len(arrays') = last + 1 /\ Len(arrays') - 1 = last
    BY <1>1, <1>6
  <2>6. \A u \in Threads : spc'[u] = "synchronize" => sloc'[u].cap \in 1 .. Len(arrays') - 1
    BY <2>3, <2>5
  <2>7. impl' = "count_end_rcu" /\ incs' = incs /\ ~ cap.freed
    BY <1>3, <1>5
  <2>8. \A u \in Readers : spc'[u] = "read" =>
           /\ sloc'[u].cap \in 1 .. Len(arrays')
           /\ ~ arrays'[sloc'[u].cap].freed
           /\ \A v \in Threads : spc'[v] = "synchronize" /\ sloc'[u].cap <= sloc'[v].cap => u \in sloc'[v].gp
           /\ \A v \in arrays'[sloc'[u].cap].counterp :
                spc'[v] \in Running \/ (spc'[v] = "synchronize" /\ sloc'[u].cap <= sloc'[v].cap)
    BY <2>4, <2>5
  <2>9. /\ arrays'[Len(arrays')].counterp = {u \in Threads : spc'[u] \in Running}
        /\ arrays'[Len(arrays')].total = Sum(Seen(0, arrays'[Len(arrays')].counterp, incs'), Threads)
        /\ ~ arrays'[Len(arrays')].freed
    BY <2>1, <2>2, <2>5, <2>7
  <2> QED BY <2>6, <2>7, <2>8, <2>9 DEF RcuInv, Outside
<1>21. \A u \in Readers \ {t} : sloc'[u].sum = sloc[u].sum /\ sloc'[u].low = sloc[u].low /\ sloc'[u].scan = sloc[u].scan
  BY <1>10
<1> QED BY <1>1, <1>3, <1>11, <1>12, <1>13, <1>14, <1>15, <1>16, <1>19, <1>20, <1>21, OneMoves

\* count_end_rcu.c: when the grace period is over, no reader has the old array, nor a later one in which
\* the thread that leaves still is.
LEMMA RcuFreeStep ==
  ASSUME StatInv, NEW t \in Threads, Stat!RcuFree(t)
  PROVE  StatInv'
<1> DEFINE last == Len(arrays)
           c == sloc[t].cap
           old_ == [arrays[c] EXCEPT !.freed = TRUE]
<1>1. /\ StatType /\ spc \in [Readers -> Places] /\ sloc \in [Readers -> Locals]
      /\ incs \in [Threads -> Nat] /\ arrays \in Seq(Arrays) /\ last \in Nat /\ last >= 1
      /\ t \in Readers /\ t # Parent /\ \A u \in Threads : u \in Readers /\ u # Parent
      /\ StatParent /\ RcuInv /\ StatThread(t)
  BY StatFacts DEF StatInv, StatType
<1>2. /\ spc[t] = "synchronize" /\ spc' = [spc EXCEPT ![t] = "gone"] /\ sloc[t].gp = {}
      /\ arrays' = [arrays EXCEPT ![c] = old_]
      /\ sloc' = [sloc EXCEPT ![t] = Stat!SRegisters]
      /\ UNCHANGED <<impl, counter, counterp, finalcount, final_mutex, finalthreadcount, global_count, stopflag, eventual, incs>>
  BY StatBase DEF Stat!RcuFree, Stat!SGoto
<1>3. impl = "count_end_rcu"
  BY <1>1, <1>2 DEF StatThread
<1>4. c \in 1 .. last - 1
  BY <1>1, <1>2, <1>3 DEF RcuInv
<1>5. c \in 1 .. last /\ c # last /\ last \in 1 .. last
  BY <1>1, <1>4
<1>6. old_ \in Arrays /\ old_.counterp = arrays[c].counterp
  <2>1. arrays[c] \in Arrays
    BY <1>1, <1>5, ArrayIs
  <2> HIDE DEF c
  <2> QED BY <2>1 DEF Arrays
<1> HIDE DEF old_, c, last
<1>7. /\ arrays' \in Seq(Arrays) /\ Len(arrays') = last /\ arrays'[c] = old_
      /\ \A i \in 1 .. last : i # c => arrays'[i] = arrays[i]
      /\ \A i \in 1 .. last : arrays'[i].counterp = arrays[i].counterp
  <2> HIDE DEF Arrays
  <2> QED BY <1>1, <1>2, <1>5, <1>6 DEF last
<1>8. /\ sloc' \in [Readers -> Locals] /\ \A u \in Readers \ {t} : sloc'[u] = sloc[u]
  BY <1>1, <1>2, RegistersIn
<1>9. /\ spc' \in [Readers -> Places] /\ spc'[t] = "gone" /\ \A u \in Readers \ {t} : spc'[u] = spc[u]
      /\ spc'[Parent] = spc[Parent] /\ spc[Parent] = "waiting"
  BY <1>1, <1>2 DEF Places, StatParent
<1>10. StatType'
  BY <1>1, <1>2, <1>7, <1>8, <1>9 DEF StatType
<1>11. StatParent' /\ StatThread(t)'
  BY <1>9 DEF StatParent, StatThread
<1>12. EndInv' /\ TstatInv'
  BY <1>2, <1>3 DEF EndInv, TstatInv
<1>13. EventualInv'
  BY <1>2, <1>9, EventualKept DEF StatInv
<1>14. StatRead(t)' /\ StatGot(t)'
  BY <1>9 DEF StatRead, StatGot
<1>15. ASSUME NEW u \in Readers, spc[u] = "read"
       PROVE  /\ sloc[u].cap \in 1 .. last /\ ~ arrays[sloc[u].cap].freed /\ u # t /\ sloc[u].cap # c
              /\ \A v \in Threads : spc[v] = "synchronize" /\ sloc[u].cap <= sloc[v].cap => u \in sloc[v].gp
              /\ \A v \in arrays[sloc[u].cap].counterp :
                   spc[v] \in Running \/ (spc[v] = "synchronize" /\ sloc[u].cap <= sloc[v].cap)
              /\ t \notin arrays[sloc[u].cap].counterp
  <2>1. /\ sloc[u].cap \in 1 .. last /\ ~ arrays[sloc[u].cap].freed /\ u # t
        /\ \A v \in Threads : spc[v] = "synchronize" /\ sloc[u].cap <= sloc[v].cap => u \in sloc[v].gp
        /\ \A v \in arrays[sloc[u].cap].counterp :
             spc[v] \in Running \/ (spc[v] = "synchronize" /\ sloc[u].cap <= sloc[v].cap)
    BY <1>1, <1>2, <1>3, <1>15 DEF RcuInv, last
  <2>2. ~ (sloc[u].cap <= c)
    BY <1>2, <2>1 DEF c
  <2>3. sloc[u].cap # c
    BY <1>5, <2>2
  <2>4. t \notin arrays[sloc[u].cap].counterp
    BY <1>2, <2>1, <2>2 DEF Running, c
  <2> QED BY <2>1, <2>3, <2>4
<1>16. \A u \in Readers \ {t} : spc[u] = "read" => Stat!Pointed(u)' = Stat!Pointed(u)
  <2> SUFFICES ASSUME NEW u \in Readers \ {t}, spc[u] = "read"
               PROVE  Stat!Pointed(u)' = Stat!Pointed(u)
    OBVIOUS
  <2>1. arrays'[sloc[u].cap] = arrays[sloc[u].cap]
    BY <1>7, <1>15
  <2> QED BY <1>2, <1>3, <1>8, <2>1 DEF Stat!Pointed
<1>17. RcuInv'
  <2>1. /\ arrays[last].counterp = {u \in Threads : spc[u] \in Running} /\ ~ arrays[last].freed
        /\ arrays[last].total = Sum(Seen(0, arrays[last].counterp, incs), Threads)
        /\ \A u \in Threads : spc[u] = "synchronize" => sloc[u].cap \in 1 .. last - 1
    BY <1>1, <1>3 DEF RcuInv, Outside, last
  <2>2. {u \in Threads : spc[u] \in Running} = {u \in Threads : spc'[u] \in Running}
    BY <1>1, <1>2, <1>9 DEF Running
  <2>3. arrays'[Len(arrays')] = arrays[last]
    BY <1>5, <1>7
  <2>4. \A u \in Threads : spc'[u] = "synchronize" => spc[u] = "synchronize" /\ sloc'[u] = sloc[u]
    BY <1>1, <1>8, <1>9
  <2>5. ASSUME NEW u \in Readers, spc'[u] = "read"
        PROVE  /\ sloc'[u].cap \in 1 .. Len(arrays')
               /\ ~ arrays'[sloc'[u].cap].freed
               /\ \A v \in Threads : spc'[v] = "synchronize" /\ sloc'[u].cap <= sloc'[v].cap => u \in sloc'[v].gp
               /\ \A v \in arrays'[sloc'[u].cap].counterp :
                    spc'[v] \in Running \/ (spc'[v] = "synchronize" /\ sloc'[u].cap <= sloc'[v].cap)
    <3>1. spc[u] = "read" /\ sloc'[u] = sloc[u]
      BY <1>8, <1>9, <2>5
    <3>2. sloc[u].cap \in 1 .. last /\ arrays'[sloc[u].cap] = arrays[sloc[u].cap] /\ ~ arrays[sloc[u].cap].freed
      BY <1>7, <1>15, <3>1
    <3>3. \A v \in Threads : spc'[v] = "synchronize" /\ sloc[u].cap <= sloc'[v].cap => u \in sloc'[v].gp
      BY <1>15, <2>4, <3>1
    <3>4. ASSUME NEW v \in arrays[sloc[u].cap].counterp
          PROVE  spc'[v] \in Running \/ (spc'[v] = "synchronize" /\ sloc[u].cap <= sloc'[v].cap)
      <4>1. v \in Threads /\ v # t
        <5>1. arrays[sloc[u].cap].counterp \subseteq Threads
          BY <1>1, <3>2, ArrayIs DEF last
        <5> QED BY <1>15, <3>1, <3>4, <5>1
      <4>2. spc'[v] = spc[v] /\ sloc'[v] = sloc[v]
        BY <1>1, <1>8, <1>9, <4>1
      <4> QED BY <1>15, <3>1, <4>2
    <3> QED BY <1>7, <3>1, <3>2, <3>3, <3>4
  <2>6. \A u \in Threads : spc'[u] = "synchronize" => sloc'[u].cap \in 1 .. Len(arrays') - 1
    BY <1>7, <2>1, <2>4
  <2>7. impl' = "count_end_rcu" /\ incs' = incs
    BY <1>2, <1>3
  <2>8. /\ arrays'[Len(arrays')].counterp = {u \in Threads : spc'[u] \in Running}
        /\ arrays'[Len(arrays')].total = Sum(Seen(0, arrays'[Len(arrays')].counterp, incs'), Threads)
        /\ ~ arrays'[Len(arrays')].freed
    BY <2>1, <2>2, <2>3, <2>7
  <2> QED BY <2>5, <2>6, <2>7, <2>8 DEF RcuInv, Outside
<1>18. \A u \in Readers \ {t} : sloc'[u].sum = sloc[u].sum /\ sloc'[u].low = sloc[u].low /\ sloc'[u].scan = sloc[u].scan
  BY <1>8
<1> QED BY <1>1, <1>2, <1>3, <1>9, <1>10, <1>11, <1>12, <1>13, <1>14, <1>16, <1>17, <1>18, OneMoves

\* eventual() sums up, and publishes.
LEMMA EventualSumStep ==
  ASSUME StatInv, Stat!EventualSum \/ Stat!EventualStore
  PROVE  StatInv'
<1> DEFINE n == eventual.scan
<1>1. /\ StatType /\ incs \in [Threads -> Nat] /\ Incs \in Nat /\ eventual \in Eventuals /\ OneInv /\ EventualInv
      /\ eventual.sum \in Nat /\ n \in 0 .. NR_THREADS /\ global_count \in Nat /\ stopflag \in Nat
  BY StatFacts DEF StatInv, StatType
<1>2. /\ eventual.pc = "sum"
      /\ UNCHANGED <<impl, counter, counterp, finalcount, final_mutex, finalthreadcount, stopflag, arrays, spc, sloc, incs>>
  BY DEF Stat!EventualSum, Stat!EventualStore
<1>3. impl = "count_stat_eventual" /\ counter = incs
  BY <1>1, <1>2 DEF EventualInv, OneInv
<1>4. /\ global_count <= Incs /\ eventual.sum <= Sum(Seen(n, Threads, incs), Threads) /\ stopflag <= 3
      /\ stopflag >= 1 => spc[Parent] # "waiting"
      /\ spc[Parent] \notin {"waiting", "cleanup"} => stopflag = 3
      /\ stopflag = 2 => eventual.sum = Sum(Seen(n, Threads, incs), Threads)
      /\ stopflag # 3
  BY <1>1, <1>2, <1>3 DEF EventualInv
<1>5. CASE Stat!EventualSum
  <2>1. /\ n < NR_THREADS /\ global_count' = global_count
        /\ eventual' = [eventual EXCEPT !.sum = @ + incs[n], !.scan = @ + 1]
    BY <1>3, <1>5 DEF Stat!EventualSum
  <2>2. n \in Threads
    <3>1. n \in 0 .. NR_THREADS /\ n < NR_THREADS
      BY <1>1, <2>1
    <3> HIDE DEF n
    <3> QED BY <3>1, NRThreadsAssumption DEF Threads
  <2>3. /\ incs[n] \in Nat /\ n + 1 \in 0 .. NR_THREADS
    BY <1>1, <2>1, <2>2, NRThreadsAssumption
  <2>4. /\ eventual' \in Eventuals /\ eventual'.sum = eventual.sum + incs[n] /\ eventual'.scan = n + 1 /\ eventual'.pc = "sum"
    <3> DEFINE s == eventual.sum + incs[n]
               m == n + 1
    <3>1. s \in Nat /\ m \in 0 .. NR_THREADS
      BY <1>1, <2>3
    <3>2. eventual' = [eventual EXCEPT !.sum = s, !.scan = m]
      BY <2>1
    <3> HIDE DEF s, m
    <3>3. eventual' \in Eventuals /\ eventual'.sum = s /\ eventual'.scan = m /\ eventual'.pc = "sum"
      BY <1>1, <1>2, <3>1, <3>2 DEF Eventuals
    <3> QED BY <3>3 DEF s, m
  <2>5. StatType'
    BY <1>1, <1>2, <2>1, <2>4 DEF StatType
  <2>6. Sum(Seen(n + 1, Threads, incs), Threads) = Sum(Seen(n, Threads, incs), Threads) + incs[n]
    <3> HIDE DEF n
    <3>1. Sum(Seen(n + 1, Threads, incs), Threads) = Sum(Seen(n, Threads, incs), Threads) + (IF n \in Threads THEN incs[n] ELSE 0)
      BY <1>1, <2>2, SeenNext
    <3> QED BY <2>2, <3>1
  <2>7. Sum(Seen(n, Threads, incs), Threads) \in Nat
    BY <1>1, SeenType
  <2>8. /\ eventual'.sum <= Sum(Seen(n + 1, Threads, incs), Threads)
        /\ stopflag = 2 => eventual'.sum = Sum(Seen(n + 1, Threads, incs), Threads)
    <3> HIDE DEF n
    <3> QED BY <1>1, <1>4, <2>3, <2>4, <2>6, <2>7
  <2>9. EventualInv'
    BY <1>2, <1>3, <1>4, <2>1, <2>4, <2>8 DEF EventualInv, Incs
  <2> QED BY <1>2, <1>3, <2>5, <2>9, NobodyMoves
<1>6. CASE Stat!EventualStore
  <2>1. /\ n = NR_THREADS /\ global_count' = eventual.sum
        /\ eventual' = [pc |-> "check", scan |-> 0, sum |-> 0]
    BY <1>6 DEF Stat!EventualStore
  <2>2. eventual' \in Eventuals /\ eventual'.pc = "check" /\ eventual'.scan = 0 /\ eventual'.sum = 0
    <3>1. 0 \in 0 .. NR_THREADS
      BY NRThreadsAssumption
    <3> QED BY <2>1, <3>1 DEF Eventuals
  <2>3. StatType'
    BY <1>1, <1>2, <2>1, <2>2 DEF StatType
  <2>4. Sum(Seen(NR_THREADS, Threads, incs), Threads) = Incs
    BY <1>1, SeenAll DEF Incs
  <2>5. global_count' <= Incs /\ (stopflag = 2 => global_count' = Incs)
    BY <1>4, <2>1, <2>4
  <2>6. Sum(Seen(0, Threads, incs), Threads) \in Nat
    BY <1>1, SeenType
  <2>7. EventualInv'
    BY <1>1, <1>2, <1>3, <1>4, <2>2, <2>5, <2>6 DEF EventualInv, Incs
  <2> QED BY <1>2, <1>3, <2>3, <2>7, NobodyMoves
<1> QED BY <1>5, <1>6

\* eventual() looks at stopflag, which only it moves on from 1: the sum it then begins is the last.
LEMMA EventualCheckStep ==
  ASSUME StatInv, Stat!EventualCheck
  PROVE  StatInv'
<1>1. /\ StatType /\ incs \in [Threads -> Nat] /\ Incs \in Nat /\ eventual \in Eventuals /\ EventualInv
      /\ global_count \in Nat /\ stopflag \in Nat
  BY StatFacts DEF StatInv, StatType
<1>2. /\ eventual.pc = "check"
      /\ stopflag' = IF stopflag # 0 THEN stopflag + 1 ELSE 0
      /\ eventual' = [eventual EXCEPT !.pc = IF stopflag' < 3 THEN "sum" ELSE "over"]
      /\ UNCHANGED <<impl, counter, counterp, finalcount, final_mutex, finalthreadcount, global_count, arrays, spc, sloc, incs>>
  BY DEF Stat!EventualCheck
<1>3. impl = "count_stat_eventual"
  BY <1>1, <1>2 DEF EventualInv
<1>4. /\ global_count <= Incs /\ eventual.scan = 0 /\ eventual.sum = 0 /\ stopflag <= 3
      /\ stopflag >= 1 => spc[Parent] # "waiting"
      /\ spc[Parent] \notin {"waiting", "cleanup"} => stopflag = 3
      /\ stopflag = 2 => global_count = Incs
      /\ stopflag # 3
  BY <1>1, <1>2, <1>3 DEF EventualInv
<1>5. stopflag' \in 0 .. 3 /\ (stopflag' >= 1 => stopflag >= 1) /\ (stopflag' = 3 => stopflag = 2) /\ (stopflag = 2 => stopflag' = 3)
  BY <1>1, <1>2, <1>4
<1>6. /\ eventual' \in Eventuals /\ eventual'.pc = (IF stopflag' < 3 THEN "sum" ELSE "over")
      /\ eventual'.scan = 0 /\ eventual'.sum = 0
  <2>1. (IF stopflag' < 3 THEN "sum" ELSE "over") \in {"none", "sum", "check", "over"}
    OBVIOUS
  <2> QED BY <1>1, <1>2, <1>4, <2>1 DEF Eventuals
<1>7. StatType'
  BY <1>1, <1>2, <1>5, <1>6 DEF StatType
<1>8. Sum(Seen(0, Threads, incs), Threads) = 0
  BY <1>1, NothingSeen
<1>9. EventualInv'
  <2>1. spc'[Parent] = spc[Parent] /\ Incs' = Incs /\ global_count' = global_count /\ impl' = impl /\ incs' = incs
    BY <1>2 DEF Incs
  <2>2. spc[Parent] \in {"waiting", "cleanup"}
    BY <1>4
  <2>3. eventual'.pc = "over" <=> stopflag' = 3
    BY <1>5, <1>6
  <2>4. eventual'.pc \notin {"none", "check"} /\ (stopflag' = 3 => global_count = Incs) /\ (stopflag' >= 1 => spc[Parent] # "waiting")
    BY <1>4, <1>5, <1>6
  <2> QED BY <1>3, <1>4, <1>5, <1>6, <1>8, <2>1, <2>2, <2>3, <2>4 DEF EventualInv
<1> QED BY <1>2, <1>3, <1>7, <1>9, NobodyMoves

\* The parent has waited for the threads, and asks eventual() to stop.
LEMMA WaitAllStep ==
  ASSUME StatInv, Stat!WaitAll \/ Stat!count_cleanup
  PROVE  StatInv'
<1>1. /\ StatType /\ spc \in [Readers -> Places] /\ Parent \in Readers /\ stopflag \in Nat
      /\ \A u \in Threads : u \in Readers /\ u # Parent
      /\ StatParent /\ RcuInv /\ EventualInv /\ TstatInv /\ finalthreadcount \in Nat
  BY StatFacts DEF StatInv, StatType
<1>2. /\ UNCHANGED <<impl, counter, counterp, finalcount, final_mutex, finalthreadcount, global_count, eventual, arrays, sloc, incs>>
      /\ \/ /\ spc[Parent] = "waiting" /\ spc' = [spc EXCEPT ![Parent] = "cleanup"]
            /\ \A t \in Threads : spc[t] = "gone" \/ (impl = "count_tstat" /\ finalthreadcount = NR_THREADS)
            /\ stopflag' = IF impl = "count_stat_eventual" THEN 1 ELSE stopflag
         \/ /\ spc[Parent] = "cleanup" /\ spc' = [spc EXCEPT ![Parent] = "final"]
            /\ impl = "count_stat_eventual" => stopflag >= 3
            /\ stopflag' = stopflag
  BY StatBase DEF Stat!WaitAll, Stat!count_cleanup, Stat!SGoto
<1>3. /\ spc' \in [Readers -> Places] /\ spc'[Parent] \in {"cleanup", "final"} /\ \A u \in Threads : spc'[u] = spc[u]
      /\ \A u \in Readers \ {Parent} : spc'[u] = spc[u]
      /\ spc'[Parent] = "cleanup" => spc[Parent] = "waiting"
  <2>1. PICK to \in {"cleanup", "final"} : spc' = [spc EXCEPT ![Parent] = to]
    BY <1>2
  <2>2. to \in Places
    BY DEF Places
  <2>3. spc' \in [Readers -> Places] /\ spc'[Parent] = to /\ \A u \in Readers \ {Parent} : spc'[u] = spc[u]
    BY <1>1, <2>1, <2>2
  <2>4. to = "cleanup" => spc[Parent] = "waiting"
    BY <1>1, <1>2, <2>3
  <2> QED BY <1>1, <2>3, <2>4
<1>4. stopflag' \in Nat
  BY <1>1, <1>2
<1>5. StatType'
  BY <1>1, <1>2, <1>3, <1>4 DEF StatType
<1>6. \A t \in Threads : spc[t] \in {"linger", "gone"}
  <2>1. CASE spc[Parent] = "waiting"
    <3> SUFFICES ASSUME NEW t \in Threads, spc[t] # "gone" PROVE spc[t] \in {"linger", "gone"}
      OBVIOUS
    <3>1. impl = "count_tstat" /\ finalthreadcount = NR_THREADS
      BY <1>2, <2>1
    <3>2. finalthreadcount = Cardinality(Left)
      BY <1>1, <2>1, <3>1, LeftCount DEF TstatInv
    <3>3. Left = Threads
      BY <3>1, <3>2, LeftCount
    <3> QED BY <3>3 DEF Left
  <2>2. CASE spc[Parent] # "waiting"
    BY <1>1, <2>2 DEF StatParent
  <2> QED BY <2>1, <2>2
<1>7. StatParent'
  BY <1>3, <1>6 DEF StatParent
<1>8. EndInv'
  BY <1>2, <1>3, EndKept DEF StatInv
<1>9. TstatInv'
  BY <1>1, <1>2, <1>3, TstatKept
<1>10. RcuInv'
  <2> DEFINE Q == {t \in Threads : spc[t] \in Running}
  <2>1. Sum(Seen(0, Q, incs'), Threads) = Sum(Seen(0, Q, incs), Threads)
    BY <1>2
  <2>2. Q = {t \in Threads : spc'[t] \in Running}
    BY <1>3
  <2>3. \A u \in Readers : spc'[u] = "read" => spc[u] = "read"
    BY <1>3
  <2>4. arrays' = arrays /\ impl' = impl /\ sloc' = sloc
    BY <1>2
  <2> HIDE DEF Q
  <2> QED BY <1>1, <1>3, <2>1, <2>2, <2>3, <2>4, RcuKept DEF Q
<1>11. EventualInv'
  <2>1. CASE impl = "count_stat_eventual"
    <3>1. /\ global_count <= Incs /\ eventual.pc # "none" /\ stopflag <= 3
          /\ eventual.pc \in {"check", "over"} => eventual.scan = 0 /\ eventual.sum = 0
          /\ eventual.sum <= Sum(Seen(eventual.scan, Threads, incs), Threads)
          /\ stopflag >= 1 => spc[Parent] # "waiting"
          /\ stopflag = 3 => eventual.pc = "over" /\ global_count = Incs
          /\ eventual.pc = "over" => stopflag = 3
          /\ stopflag = 2 => /\ eventual.sum = Sum(Seen(eventual.scan, Threads, incs), Threads) \/ eventual.pc = "check"
                             /\ eventual.pc = "check" => global_count = Incs
      BY <1>1, <2>1 DEF EventualInv
    <3>2. UNCHANGED <<impl, global_count, eventual, incs>> /\ Incs' = Incs
      BY <1>2 DEF Incs
    <3>3. CASE spc[Parent] = "waiting"
      <4>1. stopflag' = 1 /\ spc'[Parent] = "cleanup" /\ stopflag = 0
        BY <1>1, <1>2, <2>1, <3>1, <3>3
      <4>2. eventual.pc # "over"
        BY <3>1, <4>1
      <4> QED BY <2>1, <3>1, <3>2, <4>1, <4>2 DEF EventualInv
    <3>4. CASE spc[Parent] # "waiting"
      <4>1. stopflag' = stopflag /\ stopflag = 3 /\ spc'[Parent] = "final"
        BY <1>1, <1>2, <2>1, <3>1, <3>4
      <4> QED BY <2>1, <3>1, <3>2, <4>1 DEF EventualInv
    <3> QED BY <3>3, <3>4
  <2>2. CASE impl # "count_stat_eventual"
    BY <1>1, <1>2, <2>2 DEF EventualInv
  <2> QED BY <2>1, <2>2
<1>12. StatRead(Parent)' /\ StatGot(Parent)'
  BY <1>3 DEF StatRead, StatGot
<1>13. \A u \in Readers : Stat!Pointed(u)' = Stat!Pointed(u)
  BY <1>2 DEF Stat!Pointed, Stat!Threads
<1> QED BY <1>1, <1>2, <1>3, <1>5, <1>7, <1>8, <1>9, <1>10, <1>11, <1>12, <1>13, OneMoves

\* The statistical counters start with nothing counted.
LEMMA StatInit ==
  ASSUME Init, impl \in Stat!Impls
  PROVE  StatInv
<1>1. /\ counter = [t \in Threads |-> 0] /\ counterp = {}
      /\ finalcount = 0 /\ final_mutex = NoThread /\ finalthreadcount = 0 /\ global_count = 0 /\ stopflag = 0
      /\ eventual = [pc |-> IF impl = "count_stat_eventual" THEN "sum" ELSE "none", scan |-> 0, sum |-> 0]
      /\ arrays = <<[total |-> 0, counterp |-> {}, freed |-> FALSE]>>
      /\ spc = [r \in Readers |-> IF r = Parent THEN "waiting" ELSE IF impl \in Stat!Registering THEN "off" ELSE "idle"]
      /\ sloc = [r \in Readers |-> Stat!SRegisters]
      /\ incs = [t \in Threads |-> 0]
  BY StatBase DEF Init, Stat!Init
<1>2. /\ incs \in [Threads -> Nat] /\ \A n, P : Sum(Seen(n, P, incs), Threads) = 0
      /\ Incs = 0
  <2>1. incs \in [Threads -> Nat] /\ \A t \in Threads : incs[t] = 0
    BY <1>1
  <2>2. ASSUME NEW n, NEW P PROVE Sum(Seen(n, P, incs), Threads) = 0
    <3>1. \A t \in Threads : Seen(n, P, incs)[t] = 0
      BY <2>1 DEF Seen
    <3> QED BY <3>1, ThreadsFinite, SumZero
  <2>3. Incs = 0
    BY <2>1, ThreadsFinite, SumZero DEF Incs
  <2> QED BY <2>1, <2>2, <2>3
<1>3. /\ Parent \in Readers /\ \A t \in Threads : t \in Readers /\ t # Parent
      /\ NoThread \notin Readers
  BY StatBase DEF Readers
<1>4. /\ spc[Parent] = "waiting" /\ \A t \in Threads : spc[t] = IF impl \in Stat!Registering THEN "off" ELSE "idle"
      /\ \A r \in Readers : spc[r] \in {"waiting", "off", "idle"}
      /\ spc \in [Readers -> Places]
  BY <1>1, <1>3 DEF Places
<1>5. /\ arrays \in Seq(Arrays) /\ Len(arrays) = 1 /\ arrays[1].counterp = {} /\ arrays[1].total = 0 /\ ~ arrays[1].freed
  <2>1. [total |-> 0, counterp |-> {}, freed |-> FALSE] \in Arrays
    BY DEF Arrays
  <2>2. arrays \in Seq(Arrays)
    <3> HIDE DEF Arrays
    <3> QED BY <1>1, <2>1
  <2> QED BY <1>1, <2>2
<1>6. /\ eventual \in Eventuals /\ eventual.scan = 0 /\ eventual.sum = 0
      /\ eventual.pc = IF impl = "count_stat_eventual" THEN "sum" ELSE "none"
  <2>1. 0 \in 0 .. NR_THREADS
    BY NRThreadsAssumption
  <2> QED BY <1>1, <2>1 DEF Eventuals
<1>7. sloc \in [Readers -> Locals]
  BY <1>1, RegistersIn
<1>8. StatType
  <2>1. counter \in [Threads -> Nat] /\ counterp \in SUBSET Threads
    BY <1>1
  <2> QED BY <1>1, <1>2, <1>4, <1>5, <1>6, <1>7, <2>1 DEF StatType
<1>9. StatParent
  BY <1>4 DEF StatParent
<1>10. ASSUME NEW t \in Threads PROVE StatThread(t)
  BY <1>1, <1>4 DEF StatThread
<1>11. OneInv
  BY <1>1, <1>2 DEF OneInv
<1>12. EndInv
  <2>1. impl \in {"count_end", "count_stack"} => {t \in Threads : spc[t] \in Running} = {}
    BY <1>4 DEF Running, Stat!Registering
  <2> QED BY <1>1, <1>2, <2>1 DEF EndInv, Outside
<1>13. RcuInv
  <2>1. impl = "count_end_rcu" => {t \in Threads : spc[t] \in Running} = {}
    BY <1>4 DEF Running, Stat!Registering
  <2> QED BY <1>2, <1>3, <1>4, <1>5, <2>1 DEF RcuInv, Outside
<1>14. TstatInv
  <2>1. CASE impl = "count_tstat"
    <3>1. \A t \in Threads : spc[t] = "off"
      BY <1>4, <2>1 DEF Stat!Registering
    <3>2. Left = {}
      BY <3>1 DEF Left
    <3>3. Cardinality(Left) = 0
      BY <3>2, FS_EmptySet
    <3> QED BY <1>1, <1>4, <3>1, <3>3 DEF TstatInv
  <2> QED BY <2>1 DEF TstatInv
<1>15. EventualInv
  BY <1>1, <1>2, <1>4, <1>6 DEF EventualInv
<1>16. ASSUME NEW r \in Readers PROVE StatRead(r) /\ StatGot(r)
  BY <1>4 DEF StatRead, StatGot
<1> QED BY <1>8, <1>9, <1>10, <1>11, <1>12, <1>13, <1>14, <1>15, <1>16 DEF StatInv

\* A step that changes nothing changes nothing.
LEMMA StatStutter ==
  ASSUME StatInv, UNCHANGED <<impl, counter, counterp, finalcount, final_mutex, finalthreadcount, global_count, stopflag,
                              eventual, arrays, spc, sloc, incs>>
  PROVE  StatInv'
<1>1. StatType' /\ StatParent' /\ \A t \in Threads : StatThread(t)'
  BY DEF StatInv, StatType, StatParent, StatThread, Incs
<1>2. OneInv' /\ EndInv' /\ TstatInv' /\ EventualInv'
  BY DEF StatInv, OneInv, EndInv, TstatInv, EventualInv, Incs, Outside, Left
<1>3. RcuInv'
  BY DEF StatInv, RcuInv, Outside
<1>4. ASSUME NEW r \in Readers
      PROVE  StatRead(r)' /\ StatGot(r)'
  <2>1. Stat!Pointed(r)' = Stat!Pointed(r)
    BY DEF Stat!Pointed, Stat!Threads
  <2> QED BY <2>1 DEF StatInv, StatRead, StatGot, Incs
<1> QED BY <1>1, <1>2, <1>3, <1>4 DEF StatInv

\* Every step of a statistical counter keeps the invariant.
LEMMA StatNextStep ==
  ASSUME StatInv, StatNext
  PROVE  StatInv'
<1>1. Stat!Next
  BY DEF StatNext
<1>2. ASSUME NEW t \in Threads, Stat!inc_count(t) PROVE StatInv'
  BY <1>2, IncAtOnce, IncNonatomic DEF Stat!inc_count
<1>3. ASSUME NEW t \in Threads, Stat!count_register_thread(t) PROVE StatInv'
  BY <1>3, RegisterStep
<1>4. ASSUME NEW t \in Threads, Stat!count_unregister_thread(t) PROVE StatInv'
  BY <1>4, EndUnregisterStep, RcuUnregisterStep, RcuFreeStep, ExitStep DEF Stat!count_unregister_thread
<1>5. ASSUME NEW r \in Readers, Stat!read_count(r) PROVE StatInv'
  BY <1>5, ReadOneStep, ReadBeginStep, ReadNextStep, ReadEndStep, ReadReturnStep DEF Stat!read_count
<1>6. CASE Stat!EventualSum \/ Stat!EventualStore
  BY <1>6, EventualSumStep
<1>7. CASE Stat!EventualCheck
  BY <1>7, EventualCheckStep
<1>8. CASE Stat!WaitAll \/ Stat!count_cleanup
  BY <1>8, WaitAllStep
<1>9. CASE Stat!Done
  BY <1>9, StatStutter DEF Stat!Done, Stat!svars
<1> QED BY <1>1, <1>2, <1>3, <1>4, <1>5, <1>6, <1>7, <1>8, <1>9, StatBase DEF Stat!Next

\* Only count_end_rcu.c has more than one array, and frees any.
ArrayInv ==
  impl # "count_end_rcu" =>
    /\ Len(arrays) = 1 /\ ~ arrays[1].freed
    /\ \A r \in Readers : spc[r] = "read" => sloc[r].cap = 1

\* The others' one array stays: who looks at it finds it.
LEMMA ArrayStep ==
  ASSUME StatInv, ArrayInv, StatNext
  PROVE  ArrayInv'
<1>1. /\ StatType /\ spc \in [Readers -> Places] /\ sloc \in [Readers -> Locals] /\ Parent \in Readers
      /\ \A t \in Threads : t \in Readers /\ t # Parent /\ StatThread(t)
  BY StatFacts DEF StatInv, StatType
<1>2. impl' = impl
  BY StatStep
<1> SUFFICES ASSUME impl # "count_end_rcu"
             PROVE  /\ Len(arrays') = 1 /\ ~ arrays'[1].freed
                    /\ \A r \in Readers : spc'[r] = "read" => sloc'[r].cap = 1
  BY <1>2 DEF ArrayInv
<1>3. /\ Len(arrays) = 1 /\ ~ arrays[1].freed
      /\ \A r \in Readers : spc[r] = "read" => sloc[r].cap = 1
  BY DEF ArrayInv
<1> DEFINE Kept == /\ arrays' = arrays
                   /\ \A r \in Readers : spc'[r] = "read" => \/ spc[r] = "read" /\ sloc'[r].cap = sloc[r].cap
                                                             \/ sloc'[r].cap = Len(arrays)
<1> SUFFICES Kept
  BY <1>3
<1>4. ASSUME NEW t \in Threads, Stat!inc_count(t) PROVE Kept
  BY <1>1, <1>4 DEF Stat!inc_count, Stat!atomic_inc, Stat!NonatomicLoad, Stat!NonatomicStore, Stat!OwnInc, Stat!SGoto, Locals
<1>5. ASSUME NEW t \in Threads, Stat!count_register_thread(t) PROVE Kept
  BY <1>1, <1>5 DEF Stat!count_register_thread, Stat!SGoto
<1>6. ASSUME NEW t \in Threads, Stat!count_unregister_thread(t) PROVE Kept
  BY <1>1, <1>6 DEF Stat!count_unregister_thread, Stat!EndUnregister, Stat!RcuUnregister, Stat!RcuFree,
                    Stat!TstatUnregister, Stat!TstatExit, Stat!Exit, Stat!SGoto, StatThread
<1>7. ASSUME NEW r \in Readers, Stat!read_count(r) PROVE Kept
  <2>1. CASE Stat!ReadOne(r)
    BY <1>1, <2>1 DEF Stat!ReadOne, Stat!SGoto
  <2>2. CASE Stat!ReadBegin(r)
    <3> DEFINE rec == [Stat!SRegisters EXCEPT !.low = Stat!Incremented,
                                              !.sum = CASE impl \in {"count_end", "count_stack"} -> finalcount
                                                        [] impl = "count_end_rcu" -> arrays[Len(arrays)].total
                                                        [] OTHER -> 0,
                                              !.cap = Len(arrays)]
    <3>1. /\ sloc' = [sloc EXCEPT ![r] = rec] /\ arrays' = arrays
          /\ spc' = [spc EXCEPT ![r] = "read"]
      BY <2>2 DEF Stat!ReadBegin, Stat!SGoto
    <3>2. rec.cap = Len(arrays)
      BY DEF Stat!SRegisters
    <3> HIDE DEF rec
    <3> QED BY <1>1, <3>1, <3>2
  <2>3. CASE Stat!ReadNext(r)
    <3>1. /\ arrays' = arrays /\ spc' = spc
          /\ \E s, n : sloc' = [sloc EXCEPT ![r].sum = s, ![r].scan = n]
      BY <2>3 DEF Stat!ReadNext
    <3> QED BY <1>1, <3>1 DEF Locals
  <2>4. CASE Stat!ReadEnd(r)
    <3>1. /\ arrays' = arrays /\ spc' = [spc EXCEPT ![r] = "got"]
          /\ sloc' = [u \in Readers |-> [sloc[u] EXCEPT !.gp = @ \ {r}]]
      BY <2>4, StatBase DEF Stat!ReadEnd, Stat!SGoto
    <3>2. \A u \in Readers : sloc'[u].cap = sloc[u].cap
      BY <1>1, <3>1 DEF Locals
    <3> QED BY <1>1, <3>1, <3>2
  <2>5. CASE Stat!ReadReturn(r)
    BY <1>1, <2>5 DEF Stat!ReadReturn, Stat!SGoto
  <2> QED BY <1>7, <2>1, <2>2, <2>3, <2>4, <2>5 DEF Stat!read_count
<1>8. CASE Stat!EventualSum \/ Stat!EventualStore \/ Stat!EventualCheck \/ Stat!Done
  BY <1>8 DEF Stat!EventualSum, Stat!EventualStore, Stat!EventualCheck, Stat!Done, Stat!svars
<1>9. CASE Stat!WaitAll \/ Stat!count_cleanup
  BY <1>1, <1>9, StatBase DEF Stat!WaitAll, Stat!count_cleanup, Stat!SGoto
<1> QED BY <1>4, <1>5, <1>6, <1>7, <1>8, <1>9, StatBase DEF StatNext, Stat!Next

\* No limit counter becomes a statistical one.
LEMMA OthersStep ==
  ASSUME IInv, LimNext \/ SigNext \/ AtomicNext
  PROVE  impl' = impl /\ impl \notin Stat!Impls
<1>1. CASE LimNext
  <2>1. LimInv /\ impl \in Approximate
    BY <1>1 DEF IInv, LimNext
  <2> QED BY <1>1, <2>1, LimStep DEF Approximate, Stat!Impls
<1>2. CASE SigNext
  BY <1>2 DEF SigNext, SigOnly, Stat!Impls
<1>3. CASE AtomicNext
  BY <1>3 DEF AtomicNext, Stat!Impls
<1> QED BY <1>1, <1>2, <1>3

\* What the statistical counters keep to: the invariant of each, at all times.
THEOREM StatInvariance == Spec => [](impl \in Stat!Impls => StatInv /\ ArrayInv)
<1> DEFINE J == impl \in Stat!Impls => StatInv /\ ArrayInv
<1>1. Init => J
  <2>1. ASSUME Init, impl \in Stat!Impls PROVE ArrayInv
    <3>1. /\ arrays = <<[total |-> 0, counterp |-> {}, freed |-> FALSE]>>
          /\ spc = [r \in Readers |-> IF r = Parent THEN "waiting" ELSE IF impl \in Stat!Registering THEN "off" ELSE "idle"]
      BY <2>1, StatBase DEF Init, Stat!Init
    <3> QED BY <3>1 DEF ArrayInv
  <2> QED BY <2>1, StatInit
<1>2. IInv /\ J /\ [Next]_vars => J'
  <2> SUFFICES ASSUME IInv, J, [Next]_vars, impl' \in Stat!Impls PROVE StatInv' /\ ArrayInv'
    OBVIOUS
  <2>1. CASE LimNext \/ SigNext \/ AtomicNext
    BY <2>1, OthersStep
  <2>2. CASE StatNext
    <3>1. StatInv /\ ArrayInv
      BY <2>2 DEF StatNext
    <3> QED BY <2>2, <3>1, StatNextStep, ArrayStep
  <2>3. CASE UNCHANGED vars
    <3>1. UNCHANGED <<impl, counter, counterp, finalcount, final_mutex, finalthreadcount, global_count, stopflag,
                      eventual, arrays, spc, sloc, incs>>
      BY <2>3 DEF vars, statVars
    <3>2. StatInv /\ ArrayInv
      BY <3>1
    <3>3. StatInv'
      BY <3>1, <3>2, StatStutter
    <3> QED BY <3>1, <3>2, <3>3 DEF ArrayInv
  <2> QED BY <2>1, <2>2, <2>3 DEF Next
<1> HIDE DEF J
<1>3. Spec => []J
  BY <1>1, <1>2, Invariance, PTL DEF Spec
<1> QED BY <1>3 DEF J

\* FinalReadExact: what the parent of counttorture.h reads last is what has been counted, however the
\* threads' increments, their coming and going and eventual() have been interleaved.
THEOREM FinalExact == Spec => []FinalReadExact
<1>1. (impl \in Stat!Impls => StatInv /\ ArrayInv) => FinalReadExact
  BY StatBase DEF StatInv, StatGot, Readers, FinalReadExact, Stat!FinalReadExact
<1> QED BY <1>1, StatInvariance, PTL

\* ReadsNothingFreed: no read_count() looks into an array that count_end_rcu.c has freed, nor at the
\* counter of a thread that has exited.
THEOREM NothingFreedRead == Spec => []ReadsNothingFreed
<1>1. ASSUME impl \in Stat!Impls, StatInv, ArrayInv, impl \in Stat!Registering, NEW r \in Readers, spc[r] = "read"
      PROVE  /\ ~ arrays[sloc[r].cap].freed
             /\ sloc[r].scan \in Stat!Pointed(r) => spc[sloc[r].scan] # "gone"
  <2>1. CASE impl = "count_end_rcu"
    <3>1. /\ ~ arrays[sloc[r].cap].freed
          /\ \A t \in arrays[sloc[r].cap].counterp :
               spc[t] \in Running \/ (spc[t] = "synchronize" /\ sloc[r].cap <= sloc[t].cap)
      BY <1>1, <2>1 DEF StatInv, RcuInv
    <3>2. Stat!Pointed(r) = arrays[sloc[r].cap].counterp
      BY <2>1 DEF Stat!Pointed
    <3> QED BY <3>1, <3>2 DEF Running
  <2>2. CASE impl # "count_end_rcu"
    <3>1. ~ arrays[sloc[r].cap].freed
      BY <1>1, <2>2 DEF ArrayInv
    <3>2. Stat!Pointed(r) = counterp
      BY <1>1, <2>2 DEF Stat!Pointed, Stat!Registering
    <3>3. CASE impl = "count_tstat"
      <4>1. counterp \subseteq Threads
        BY <1>1 DEF StatInv, StatType
      <4>2. \A t \in Threads : spc[t] # "gone"
        <5>1. (\E t \in Threads : spc[t] = "gone") =>
                spc[Parent] = "done" /\ \A t \in Threads : spc[t] \in {"linger", "gone"}
          BY <1>1, <3>3 DEF StatInv, TstatInv
        <5>2. r \in Threads \/ r = Parent
          BY DEF Readers
        <5> QED BY <1>1, <5>1, <5>2
      <4> QED BY <3>1, <3>2, <4>1, <4>2
    <3>4. CASE impl # "count_tstat"
      <4>1. counterp = {t \in Threads : spc[t] \in Running}
        BY <1>1, <2>2, <3>4 DEF StatInv, EndInv, Stat!Registering
      <4> QED BY <3>1, <3>2, <4>1 DEF Running
    <3> QED BY <3>3, <3>4
  <2> QED BY <2>1, <2>2
<1>2. (impl \in Stat!Impls => StatInv /\ ArrayInv) => ReadsNothingFreed
  BY <1>1, StatBase DEF ReadsNothingFreed, Stat!ReadsNothingFreed
<1> QED BY <1>2, StatInvariance, PTL

-----------------------------------------------------------------------------
\* read_count() of the limit counters: what the threads may still hold while a reader adds up
Caps == IF impl = "count_lim_atomic" THEN Maxes ELSE countermax

Reading == {"read", "read_done"}

\* The locations of the loops over the threads
Loops == {"flush_req", "flush_wait", "flush_resend", "flush", "read"}

\* How far the reader t has come
Reached(t) == IF pc[t] = "read" THEN scan[t] ELSE NR_THREADS

\* Who reads holds gblcnt_mutex, and has found at most globalcount and what the threads it has looked
\* at may hold, however their fast paths move their counters: neither changes without the mutex.
LimitRead(t) ==
  /\ pc[t] \notin Loops => scan[t] = 0
  /\ pc[t] \in Reading => gblcnt_mutex = t
  /\ IF pc[t] \in Reading THEN sum[t] <= globalcount + Sum(Seen(Reached(t), Threads, Caps), Threads) ELSE sum[t] = 0

LimitReads ==
  /\ sum \in [Threads -> Nat] /\ scan \in [Threads -> Threads]
  /\ \A t \in Threads : LimitRead(t)

\* The books of whichever limit counter it is
LEMMA LimitBooks ==
  ASSUME IInv, impl \in Approximate \union Exact
  PROVE  /\ Books(globalcount, globalreserve, IF impl = "count_lim_atomic" THEN Counts ELSE counter, Caps)
         /\ globalcount \in Nat /\ Caps \in [Threads -> Nat]
<1>1. Books(globalcount, globalreserve, IF impl = "count_lim_atomic" THEN Counts ELSE counter, Caps)
  <2>1. CASE impl \in Approximate
    BY <2>1 DEF IInv, LimInv, Balanced, Caps, Approximate
  <2>2. CASE impl = "count_lim_sig"
    BY <2>2 DEF IInv, SigInv, Balanced, Caps
  <2>3. CASE impl = "count_lim_atomic"
    BY <2>3 DEF IInv, AtomicInv, AtomicBalanced, Caps
  <2> QED BY <2>1, <2>2, <2>3 DEF Exact
<1> QED BY <1>1 DEF Books

\* Who does not read disturbs no reader, for it changes what the reader relies on only with the mutex.
LEMMA LimitQuiet ==
  ASSUME LimitReads, NEW t \in Threads, sum' = sum, pc[t] \notin Reading, pc'[t] \notin Reading,
         \A u \in Threads \ {t} : pc'[u] = pc[u] /\ scan'[u] = scan[u],
         scan' \in [Threads -> Threads], pc'[t] \notin Loops => scan'[t] = 0,
         gblcnt_mutex \in Threads \ {t} => UNCHANGED <<globalcount, gblcnt_mutex, Caps>>
  PROVE  LimitReads'
<1>1. ASSUME NEW u \in Threads PROVE LimitRead(u)'
  <2>1. LimitRead(u)
    BY DEF LimitReads
  <2>2. CASE u = t
    BY <2>1, <2>2 DEF LimitRead
  <2>3. CASE u # t
    <3>1. pc'[u] = pc[u] /\ scan'[u] = scan[u] /\ sum'[u] = sum[u]
      BY <2>3
    <3>2. CASE pc[u] \in Reading
      <4>1. gblcnt_mutex = u
        BY <2>1, <3>2 DEF LimitRead
      <4>2. UNCHANGED <<globalcount, gblcnt_mutex, Caps>>
        BY <2>3, <4>1
      <4> QED BY <2>1, <3>1, <4>2 DEF LimitRead, Reached
    <3>3. CASE pc[u] \notin Reading
      BY <2>1, <3>1, <3>3 DEF LimitRead
    <3> QED BY <3>2, <3>3
  <2> QED BY <2>2, <2>3
<1> QED BY <1>1 DEF LimitReads

\* The reader takes the mutex and globalcount.
LEMMA LimitBegin ==
  ASSUME LimitReads, NEW t \in Threads, globalcount \in Nat, Caps \in [Threads -> Nat],
         gblcnt_mutex = NoThread, pc[t] = "idle", pc'[t] = "read", gblcnt_mutex' = t,
         sum' = [sum EXCEPT ![t] = globalcount], UNCHANGED <<globalcount, scan, Caps>>,
         \A u \in Threads \ {t} : pc'[u] = pc[u]
  PROVE  LimitReads'
<1>1. sum' \in [Threads -> Nat] /\ sum'[t] = globalcount /\ \A u \in Threads \ {t} : sum'[u] = sum[u]
  BY DEF LimitReads
<1>2. Sum(Seen(scan[t], Threads, Caps), Threads) \in Nat
  BY SeenType
<1>3. LimitRead(t)'
  <2> DEFINE s == Sum(Seen(scan[t], Threads, Caps), Threads)
  <2>1. Sum(Seen(Reached(t)', Threads, Caps'), Threads) = s
    BY DEF Reached
  <2>2. globalcount <= globalcount + s
    BY <1>2
  <2> HIDE DEF s
  <2> QED BY <1>1, <2>1, <2>2 DEF LimitRead, Loops, Reading
<1>4. ASSUME NEW u \in Threads \ {t} PROVE LimitRead(u)'
  <2>1. LimitRead(u) /\ gblcnt_mutex # u
    BY DEF LimitReads, NoThread, Threads
  <2> QED BY <1>1, <2>1 DEF LimitRead
<1> QED BY <1>1, <1>3, <1>4 DEF LimitReads

\* The reader adds the counter of the thread it has come to, or nothing, and goes on.
LEMMA LimitNext ==
  ASSUME LimitReads, NEW t \in Threads, globalcount \in Nat, Caps \in [Threads -> Nat],
         pc[t] = "read", NEW n \in Nat, n <= Caps[scan[t]],
         sum' = [sum EXCEPT ![t] = @ + n], UNCHANGED <<globalcount, gblcnt_mutex, Caps>>,
         \A u \in Threads \ {t} : pc'[u] = pc[u] /\ scan'[u] = scan[u], scan' \in [Threads -> Threads],
         \/ pc'[t] = "read" /\ scan'[t] = scan[t] + 1
         \/ pc'[t] = "read_done" /\ scan'[t] = 0 /\ scan[t] = NR_THREADS - 1
  PROVE  LimitReads'
<1> DEFINE k == scan[t]
<1>1. k \in Threads /\ sum[t] \in Nat /\ LimitRead(t) /\ NR_THREADS \in Nat
  BY NRThreadsAssumption DEF LimitReads
<1>2. /\ sum' \in [Threads -> Nat] /\ sum'[t] = sum[t] + n /\ \A u \in Threads \ {t} : sum'[u] = sum[u]
  BY DEF LimitReads
<1>3. sum[t] <= globalcount + Sum(Seen(k, Threads, Caps), Threads) /\ gblcnt_mutex = t
  BY <1>1 DEF LimitRead, Reading, Reached
<1>4. Reached(t)' = k + 1
  BY <1>1 DEF Reached
<1> HIDE DEF k
<1>5. Sum(Seen(k + 1, Threads, Caps), Threads) = Sum(Seen(k, Threads, Caps), Threads) + Caps[k]
  <2>1. Sum(Seen(k + 1, Threads, Caps), Threads) = Sum(Seen(k, Threads, Caps), Threads) + (IF k \in Threads THEN Caps[k] ELSE 0)
    BY <1>1, SeenNext
  <2> QED BY <1>1, <2>1
<1>6. Sum(Seen(k, Threads, Caps), Threads) \in Nat /\ Caps[k] \in Nat /\ n <= Caps[k]
  BY <1>1, SeenType DEF k
<1>7. sum'[t] <= globalcount + Sum(Seen(k + 1, Threads, Caps), Threads)
  BY <1>1, <1>2, <1>3, <1>5, <1>6
<1>8. LimitRead(t)'
  <2>1. sum'[t] <= globalcount' + Sum(Seen(Reached(t)', Threads, Caps'), Threads)
    BY <1>4, <1>7
  <2>2. pc'[t] \in Reading /\ gblcnt_mutex' = t /\ (pc'[t] \notin Loops => scan'[t] = 0)
    BY <1>3 DEF Reading, Loops
  <2> QED BY <2>1, <2>2 DEF LimitRead
<1>9. ASSUME NEW u \in Threads \ {t} PROVE LimitRead(u)'
  <2>1. LimitRead(u)
    BY DEF LimitReads
  <2> QED BY <1>2, <2>1 DEF LimitRead, Reached
<1> QED BY <1>2, <1>8, <1>9 DEF LimitReads

\* The reader gives the mutex back.
LEMMA LimitEnd ==
  ASSUME LimitReads, NEW t \in Threads, pc[t] = "read_done", pc'[t] = "idle", sum' = [sum EXCEPT ![t] = 0],
         UNCHANGED scan, \A u \in Threads \ {t} : pc'[u] = pc[u]
  PROVE  LimitReads'
<1>1. sum' \in [Threads -> Nat] /\ sum'[t] = 0 /\ \A u \in Threads \ {t} : sum'[u] = sum[u]
  BY DEF LimitReads
<1>2. LimitRead(t)'
  BY <1>1 DEF LimitReads, LimitRead, Loops, Reading
<1>3. ASSUME NEW u \in Threads \ {t} PROVE LimitRead(u)'
  <2>1. LimitRead(u) /\ pc[u] \notin Reading
    BY DEF LimitReads, LimitRead, Reading
  <2> QED BY <1>1, <2>1 DEF LimitRead
<1> QED BY <1>1, <1>2, <1>3 DEF LimitReads

\* Every step of count_lim.c, count_lim_app.c and count_limd.c
LEMMA LimReads ==
  ASSUME IInv, LimNext, LimitReads
  PROVE  LimitReads'
<1>1. /\ impl \in Approximate /\ impl \in Approximate \union Exact /\ LimInv /\ impl' = impl
      /\ pc \in [Threads -> {"off", "idle", "call", "return", "read", "read_done"}]
  BY LimStep DEF IInv, LimNext, LimInv
<1>2. /\ globalcount \in Nat /\ Caps \in [Threads -> Nat] /\ Books(globalcount, globalreserve, counter, Caps)
      /\ Caps = countermax /\ Caps' = countermax'
  BY <1>1, LimitBooks DEF Caps, Approximate
<1>3. PICK t \in Threads : Lim!Step(t)
  BY LimBase DEF LimNext, Lim!Next, Lim!count_lim, Lim!count_lim_app, Lim!count_limd
<1>4. /\ scan \in [Threads -> Threads] /\ sum \in [Threads -> Nat] /\ LimitRead(t)
  BY DEF LimitReads
<1>5. CASE \/ Lim!count_register_thread(t) \/ Lim!count_unregister_thread(t) \/ Lim!SlowPath(t)
           \/ \E r \in Requests : Lim!Call(t, r)
           \/ Lim!FastPath(t) \/ Lim!Return(t)
  <2>1. /\ sum' = sum /\ scan' = scan /\ pc[t] \notin Loops \union Reading /\ pc'[t] \notin Loops \union Reading
        /\ \A u \in Threads \ {t} : pc'[u] = pc[u]
        /\ gblcnt_mutex = NoThread \/ UNCHANGED <<globalcount, gblcnt_mutex, countermax>>
    BY <1>1, <1>5, LimBase
       DEF Lim!count_register_thread, Lim!count_unregister_thread, Lim!SlowPath, Lim!Call, Lim!FastPath, Lim!Return,
           Lim!Goto, Lim!globals, Lim!locals, Loops, Reading
  <2>2. scan[t] = 0
    BY <1>4, <2>1 DEF LimitRead
  <2>3. gblcnt_mutex \in Threads \ {t} => UNCHANGED <<globalcount, gblcnt_mutex, Caps>>
    BY <1>2, <2>1 DEF NoThread, Threads
  <2> QED BY <1>4, <2>1, <2>2, <2>3, LimitQuiet
<1>6. CASE Lim!ReadBegin(t)
  <2>1. /\ gblcnt_mutex = NoThread /\ pc[t] = "idle" /\ pc' = [pc EXCEPT ![t] = "read"] /\ gblcnt_mutex' = t
        /\ sum' = [sum EXCEPT ![t] = globalcount] /\ UNCHANGED <<globalcount, countermax, scan>>
    BY <1>6, LimBase DEF Lim!ReadBegin, Lim!Goto
  <2>2. pc'[t] = "read" /\ \A u \in Threads \ {t} : pc'[u] = pc[u]
    BY <1>1, <2>1
  <2> QED BY <1>2, <2>1, <2>2, LimitBegin
<1>7. CASE Lim!ReadNext(t)
  <2> DEFINE n == IF Lim!Registered(scan[t]) THEN counter[scan[t]] ELSE 0
  <2>1. /\ pc[t] = "read" /\ Lim!Advance(t, "read", "read_done") /\ UNCHANGED <<globalcount, gblcnt_mutex, countermax>>
        /\ sum' = [sum EXCEPT ![t] = IF Lim!Registered(scan[t]) THEN @ + counter[scan[t]] ELSE @]
    BY <1>7 DEF Lim!ReadNext, Lim!globals
  <2>2. n \in Nat /\ n <= Caps[scan[t]] /\ sum[t] \in Nat
    BY <1>2, <1>4 DEF Books
  <2>3. sum' = [sum EXCEPT ![t] = @ + n]
    <3>1. CASE Lim!Registered(scan[t])
      BY <2>1, <3>1
    <3>2. CASE ~Lim!Registered(scan[t])
      <4>1. sum' = sum /\ n = 0
        BY <1>4, <2>1, <3>2
      <4>2. sum[t] + 0 = sum[t]
        BY <2>2
      <4> QED BY <1>4, <4>1, <4>2
    <3> QED BY <3>1, <3>2
  <2>4. /\ \A u \in Threads \ {t} : pc'[u] = pc[u] /\ scan'[u] = scan[u]
        /\ scan' \in [Threads -> Threads]
        /\ \/ pc'[t] = "read" /\ scan'[t] = scan[t] + 1
           \/ pc'[t] = "read_done" /\ scan'[t] = 0 /\ scan[t] = NR_THREADS - 1
    <3>1. scan[t] \in 0 .. NR_THREADS - 1 /\ NR_THREADS \in Nat
      BY <1>4, NRThreadsAssumption DEF Threads
    <3>2. CASE scan[t] + 1 < NR_THREADS
      <4>1. scan[t] + 1 \in Threads
        BY <3>1, <3>2 DEF Threads
      <4> QED BY <1>1, <1>4, <2>1, <3>2, <4>1 DEF Lim!Advance
    <3>3. CASE ~ (scan[t] + 1 < NR_THREADS)
      <4>1. scan[t] = NR_THREADS - 1
        BY <3>1, <3>3
      <4> QED BY <1>1, <1>4, <2>1, <3>3, <4>1, ZeroIn DEF Lim!Advance
    <3> QED BY <3>2, <3>3
  <2> HIDE DEF n
  <2> QED BY <1>2, <2>1, <2>2, <2>3, <2>4, LimitNext
<1>8. CASE Lim!ReadEnd(t)
  <2>1. /\ pc[t] = "read_done" /\ pc' = [pc EXCEPT ![t] = "idle"]
        /\ sum' = [sum EXCEPT ![t] = 0] /\ UNCHANGED scan
    BY <1>8 DEF Lim!ReadEnd, Lim!Goto
  <2>2. pc'[t] = "idle" /\ \A u \in Threads \ {t} : pc'[u] = pc[u]
    BY <1>1, <2>1
  <2> QED BY <2>1, <2>2, LimitEnd
<1> QED BY <1>3, <1>5, <1>6, <1>7, <1>8, LimBase DEF Lim!Step, Lim!read_count

\* Every step of count_lim_sig.c: the thief has the mutex, and a handler touches no counter.
LEMMA SigReads ==
  ASSUME IInv, SigNext, LimitReads
  PROVE  LimitReads'
<1>1. /\ impl = "count_lim_sig" /\ impl' = impl /\ SigInv /\ SigType /\ SigInv'
      /\ impl \in Approximate \union Exact
  <2>1. impl = "count_lim_sig" /\ impl' = impl /\ SigInv
    BY DEF IInv, SigNext, SigOnly
  <2> QED BY <2>1, SigStep DEF SigInv, Exact
<1>2. /\ globalcount \in Nat /\ Caps \in [Threads -> Nat] /\ Books(globalcount, globalreserve, counter, Caps)
      /\ Caps = countermax /\ Caps' = countermax'
  BY <1>1, LimitBooks DEF Caps
<1>3. PICK t \in Threads :
        \/ Sig!Register(t) \/ Sig!Unregister(t)
        \/ Sig!flush_local_count_sig(t)
        \/ \E r \in Requests : Sig!Call(t, r)
        \/ Sig!FastPath(t) \/ Sig!SlowPath(t) \/ Sig!Flush(t) \/ Sig!Recheck(t) \/ Sig!Return(t)
        \/ Sig!ReadBegin(t) \/ Sig!ReadSteps(t)
  BY SigBase DEF SigNext, Sig!Next
<1>4. /\ scan \in [Threads -> Threads] /\ sum \in [Threads -> Nat] /\ LimitRead(t)
      /\ pc \in [Threads -> {"off", "idle", "check", "update", "uncount", "ack", "slow", "return"} \union SigHolds]
  BY <1>1 DEF LimitReads, SigType
<1>5. CASE \/ Sig!Register(t) \/ Sig!Unregister(t)
           \/ \E r \in Requests : Sig!Call(t, r)
           \/ Sig!FastPath(t) \/ Sig!Return(t)
  <2>1. /\ sum' = sum /\ scan' = scan /\ pc[t] \notin Loops \union Reading /\ pc'[t] \notin Loops \union Reading
        /\ \A u \in Threads \ {t} : pc'[u] = pc[u]
        /\ gblcnt_mutex = NoThread \/ UNCHANGED <<globalcount, gblcnt_mutex, countermax>>
    BY <1>4, <1>5, SigBase
       DEF Sig!Register, Sig!Unregister, Sig!Call, Sig!FastPath, Sig!FastCheck, Sig!FastUpdate, Sig!FastUncount, Sig!FastAck,
           Sig!Return, Sig!Goto, Sig!globals, Sig!locals, Loops, Reading
  <2>2. scan[t] = 0
    BY <1>4, <2>1 DEF LimitRead
  <2>3. gblcnt_mutex \in Threads \ {t} => UNCHANGED <<globalcount, gblcnt_mutex, Caps>>
    BY <1>2, <2>1 DEF NoThread, Threads
  <2> QED BY <1>4, <2>1, <2>2, <2>3, LimitQuiet
<1>6. CASE Sig!flush_local_count_sig(t)
  <2>1. UNCHANGED <<sum, scan, pc, globalcount, gblcnt_mutex, countermax>>
    BY <1>6 DEF Sig!flush_local_count_sig, Sig!globals, Sig!locals
  <2> QED BY <1>2, <2>1 DEF LimitReads, LimitRead, Reached
<1>7. CASE Sig!SlowPath(t)
  <2>1. /\ sum' = sum /\ gblcnt_mutex = NoThread /\ pc[t] = "slow"
        /\ \/ pc' = [pc EXCEPT ![t] = "return"] /\ scan' = scan
           \/ pc' = [pc EXCEPT ![t] = "flush_req"] /\ scan' = [scan EXCEPT ![t] = 0]
    BY <1>7, SigBase DEF Sig!SlowPath, Sig!Goto
  <2>2. /\ \A u \in Threads \ {t} : pc'[u] = pc[u] /\ scan'[u] = scan[u]
        /\ pc[t] \notin Reading /\ pc'[t] \notin Reading
    BY <1>4, <2>1 DEF Reading
  <2>3. scan' \in [Threads -> Threads]
    BY <1>1 DEF SigInv, SigType
  <2>4. scan[t] = 0
    BY <1>4, <2>1 DEF LimitRead, Loops
  <2>5. scan'[t] = 0
    BY <1>4, <2>1, <2>4
  <2>6. gblcnt_mutex \notin Threads \ {t}
    BY <2>1 DEF NoThread, Threads
  <2> QED BY <2>1, <2>2, <2>3, <2>5, <2>6, LimitQuiet
<1>8. CASE Sig!FlushPoll(t) \/ Sig!FlushResend(t)
  <2>1. /\ UNCHANGED <<sum, scan, globalcount, gblcnt_mutex, countermax>>
        /\ pc[t] \in Loops \ Reading /\ pc'[t] \in Loops \ Reading /\ \A u \in Threads \ {t} : pc'[u] = pc[u]
    BY <1>4, <1>8 DEF Sig!FlushPoll, Sig!FlushResend, Sig!Goto, Sig!globals, Sig!locals, Loops, Reading
  <2> QED BY <1>2, <1>4, <2>1, LimitQuiet
<1>9. CASE Sig!FlushRequest(t) \/ Sig!FlushSteal(t) \/ Sig!Recheck(t)
  <2>1. sum' = sum /\ pc[t] \in {"flush_req", "flush_wait", "recheck"}
    BY <1>9 DEF Sig!FlushRequest, Sig!FlushSteal, Sig!Recheck, Sig!Goto
  <2>2. gblcnt_mutex = t
    BY <1>1, <2>1 DEF SigInv, SigThief, SigHolds
  <2>3. \/ Sig!Advance(t, "flush_req", "flush_wait")
        \/ Sig!Advance(t, "flush_wait", "recheck")
        \/ pc[t] = "recheck" /\ pc' = [pc EXCEPT ![t] = "return"] /\ scan' = scan
    BY <1>9 DEF Sig!FlushRequest, Sig!FlushSteal, Sig!Recheck, Sig!Goto
  <2>4. \/ pc' = [pc EXCEPT ![t] = "flush_req"] /\ scan' = [scan EXCEPT ![t] = scan[t] + 1]
        \/ pc' = [pc EXCEPT ![t] = "flush_wait"] /\ scan' = [scan EXCEPT ![t] = scan[t] + 1]
        \/ pc' = [pc EXCEPT ![t] = "flush_wait"] /\ scan' = [scan EXCEPT ![t] = 0]
        \/ pc' = [pc EXCEPT ![t] = "recheck"] /\ scan' = [scan EXCEPT ![t] = 0]
        \/ pc[t] = "recheck" /\ pc' = [pc EXCEPT ![t] = "return"] /\ scan' = scan
    BY <1>1, <2>3, SigAdvance
  <2>5. pc[t] = "recheck" => scan[t] = 0
    BY <1>4 DEF LimitRead, Loops
  <2>6. /\ \A u \in Threads \ {t} : pc'[u] = pc[u] /\ scan'[u] = scan[u]
        /\ pc'[t] \notin Reading /\ (pc'[t] \notin Loops => scan'[t] = 0)
    BY <1>4, <2>4, <2>5 DEF Reading, Loops
  <2>7. scan' \in [Threads -> Threads]
    BY <1>1 DEF SigInv, SigType
  <2>8. pc[t] \notin Reading /\ gblcnt_mutex \notin Threads \ {t}
    BY <2>1, <2>2 DEF Reading
  <2> QED BY <2>1, <2>6, <2>7, <2>8, LimitQuiet
<1>10. CASE Sig!ReadBegin(t)
  <2>1. /\ gblcnt_mutex = NoThread /\ pc[t] = "idle" /\ pc' = [pc EXCEPT ![t] = "read"] /\ gblcnt_mutex' = t
        /\ sum' = [sum EXCEPT ![t] = globalcount] /\ UNCHANGED <<globalcount, countermax, scan>>
    BY <1>10, SigBase DEF Sig!ReadBegin, Sig!Goto
  <2>2. pc'[t] = "read" /\ \A u \in Threads \ {t} : pc'[u] = pc[u]
    BY <1>4, <2>1
  <2> QED BY <1>2, <2>1, <2>2, LimitBegin
<1>11. CASE Sig!ReadNext(t)
  <2> DEFINE n == IF Sig!Registered(scan[t]) THEN counter[scan[t]] ELSE 0
  <2>1. /\ pc[t] = "read" /\ Sig!Advance(t, "read", "read_done") /\ UNCHANGED <<globalcount, gblcnt_mutex, countermax>>
        /\ sum' = [sum EXCEPT ![t] = IF Sig!Registered(scan[t]) THEN @ + counter[scan[t]] ELSE @]
    BY <1>11 DEF Sig!ReadNext, Sig!globals
  <2>2. n \in Nat /\ n <= Caps[scan[t]] /\ sum[t] \in Nat
    BY <1>2, <1>4 DEF Books
  <2>3. sum' = [sum EXCEPT ![t] = @ + n]
    <3>1. CASE Sig!Registered(scan[t])
      BY <2>1, <3>1
    <3>2. CASE ~Sig!Registered(scan[t])
      <4>1. sum' = sum /\ n = 0
        BY <1>4, <2>1, <3>2
      <4>2. sum[t] + 0 = sum[t]
        BY <2>2
      <4> QED BY <1>4, <4>1, <4>2
    <3> QED BY <3>1, <3>2
  <2>4. /\ scan' \in [Threads -> Threads]
        /\ \/ pc' = [pc EXCEPT ![t] = "read"] /\ scan' = [scan EXCEPT ![t] = scan[t] + 1]
           \/ pc' = [pc EXCEPT ![t] = "read_done"] /\ scan' = [scan EXCEPT ![t] = 0] /\ scan[t] = NR_THREADS - 1
    BY <1>1, <2>1, SigAdvance
  <2>5. /\ \A u \in Threads \ {t} : pc'[u] = pc[u] /\ scan'[u] = scan[u]
        /\ \/ pc'[t] = "read" /\ scan'[t] = scan[t] + 1
           \/ pc'[t] = "read_done" /\ scan'[t] = 0 /\ scan[t] = NR_THREADS - 1
    BY <1>4, <2>4
  <2> HIDE DEF n
  <2> QED BY <1>2, <2>1, <2>2, <2>3, <2>4, <2>5, LimitNext
<1>12. CASE Sig!ReadEnd(t)
  <2>1. /\ pc[t] = "read_done" /\ pc' = [pc EXCEPT ![t] = "idle"]
        /\ sum' = [sum EXCEPT ![t] = 0] /\ UNCHANGED scan
    BY <1>12 DEF Sig!ReadEnd, Sig!Goto
  <2>2. pc'[t] = "idle" /\ \A u \in Threads \ {t} : pc'[u] = pc[u]
    BY <1>4, <2>1
  <2> QED BY <2>1, <2>2, LimitEnd
<1> QED BY <1>3, <1>5, <1>6, <1>7, <1>8, <1>9, <1>10, <1>11, <1>12 DEF Sig!Flush, Sig!ReadSteps

\* Every step of count_lim_atomic.c: a fast path leaves its countermax alone, whatever else it swaps in.
LEMMA AtomicReads ==
  ASSUME IInv, AtomicNext, LimitReads
  PROVE  LimitReads'
<1>1. /\ impl = "count_lim_atomic" /\ impl' = impl /\ AtomicInv /\ AtomicType /\ AtomicInv'
      /\ impl \in Approximate \union Exact
  <2>1. impl = "count_lim_atomic" /\ AtomicInv
    BY DEF IInv, AtomicNext
  <2> QED BY <2>1, AtomicStep DEF AtomicInv, Exact
<1>2. /\ globalcount \in Nat /\ Caps \in [Threads -> Nat] /\ Books(globalcount, globalreserve, Counts, Caps)
      /\ Caps = Maxes /\ Caps' = Maxes'
  BY <1>1, LimitBooks DEF Caps
<1>3. PICK t \in Threads :
        \/ Atomic!Register(t) \/ Atomic!Unregister(t)
        \/ \E r \in Requests : Atomic!Call(t, r)
        \/ Atomic!FastLoad(t) \/ Atomic!FastCas(t) \/ Atomic!SlowPath(t) \/ Atomic!FlushXchg(t)
        \/ Atomic!Recheck(t) \/ Atomic!Return(t)
        \/ Atomic!ReadBegin(t) \/ Atomic!ReadNext(t) \/ Atomic!ReadEnd(t)
  BY AtomicBase DEF AtomicNext, Atomic!Next
<1>4. /\ scan \in [Threads -> Threads] /\ sum \in [Threads -> Nat] /\ LimitRead(t)
      /\ pc \in [Threads -> {"off", "idle", "load", "cas", "slow", "return"} \union AtomicHolds]
  BY <1>1 DEF LimitReads, AtomicType
<1>5. UNCHANGED counterandmax => Caps' = Caps
  BY <1>2 DEF Maxes, Atomic!CM
<1>6. CASE \/ Atomic!Register(t) \/ Atomic!Unregister(t) \/ Atomic!SlowPath(t)
           \/ \E r \in Requests : Atomic!Call(t, r)
           \/ Atomic!FastLoad(t) \/ Atomic!Return(t)
  <2>1. /\ sum' = sum /\ scan' = scan /\ pc[t] \notin Loops \union Reading /\ pc'[t] \notin Reading
        /\ \A u \in Threads \ {t} : pc'[u] = pc[u]
        /\ gblcnt_mutex = NoThread \/ UNCHANGED <<globalcount, gblcnt_mutex, counterandmax>>
    BY <1>4, <1>6, AtomicBase
       DEF Atomic!Register, Atomic!Unregister, Atomic!SlowPath, Atomic!Call, Atomic!FastLoad, Atomic!Return,
           Atomic!Goto, Atomic!locals, Loops, Reading
  <2>2. scan[t] = 0
    BY <1>4, <2>1 DEF LimitRead
  <2>3. gblcnt_mutex \in Threads \ {t} => UNCHANGED <<globalcount, gblcnt_mutex, Caps>>
    BY <1>5, <2>1 DEF NoThread, Threads
  <2> QED BY <1>4, <2>1, <2>2, <2>3, LimitQuiet
<1>7. CASE Atomic!FastCas(t)
  <2>1. /\ sum' = sum /\ scan' = scan /\ pc[t] = "cas"
        /\ pc' = [pc EXCEPT ![t] = "return"] \/ pc' = [pc EXCEPT ![t] = "load"]
        /\ UNCHANGED <<globalcount, gblcnt_mutex>>
    BY <1>7 DEF Atomic!FastCas, Atomic!Goto
  <2>2. /\ pc[t] \notin Loops \union Reading /\ pc'[t] \notin Loops \union Reading
        /\ \A u \in Threads \ {t} : pc'[u] = pc[u]
    BY <1>4, <2>1 DEF Loops, Reading
  <2>3. Caps' = Caps
    BY <1>1, <1>2, <1>7, AtomicFastCas
  <2>4. scan[t] = 0
    BY <1>4, <2>2 DEF LimitRead
  <2> QED BY <1>4, <2>1, <2>2, <2>3, <2>4, LimitQuiet
<1>8. CASE Atomic!FlushXchg(t) \/ Atomic!Recheck(t)
  <2>1. sum' = sum /\ pc[t] \in {"flush", "recheck"}
    BY <1>8 DEF Atomic!FlushXchg, Atomic!Recheck, Atomic!Goto
  <2>2. gblcnt_mutex = t
    BY <1>1, <2>1 DEF AtomicInv, AtomicThief, AtomicHolds
  <2>3. \/ Atomic!Advance(t, "flush", "recheck")
        \/ pc[t] = "recheck" /\ pc' = [pc EXCEPT ![t] = "return"] /\ scan' = scan
    BY <1>8 DEF Atomic!FlushXchg, Atomic!Recheck, Atomic!Goto
  <2>4. \/ pc' = [pc EXCEPT ![t] = "flush"] /\ scan' = [scan EXCEPT ![t] = scan[t] + 1]
        \/ pc' = [pc EXCEPT ![t] = "recheck"] /\ scan' = [scan EXCEPT ![t] = 0]
        \/ pc[t] = "recheck" /\ pc' = [pc EXCEPT ![t] = "return"] /\ scan' = scan
    BY <1>1, <2>3, AtomicAdvance
  <2>5. pc[t] = "recheck" => scan[t] = 0
    BY <1>4 DEF LimitRead, Loops
  <2>6. /\ \A u \in Threads \ {t} : pc'[u] = pc[u] /\ scan'[u] = scan[u]
        /\ pc'[t] \notin Reading /\ (pc'[t] \notin Loops => scan'[t] = 0)
    BY <1>4, <2>4, <2>5 DEF Reading, Loops
  <2>7. scan' \in [Threads -> Threads]
    BY <1>1 DEF AtomicInv, AtomicType
  <2>8. pc[t] \notin Reading /\ gblcnt_mutex \notin Threads \ {t}
    BY <2>1, <2>2 DEF Reading
  <2> QED BY <2>1, <2>6, <2>7, <2>8, LimitQuiet
<1>9. CASE Atomic!ReadBegin(t)
  <2>1. /\ gblcnt_mutex = NoThread /\ pc[t] = "idle" /\ pc' = [pc EXCEPT ![t] = "read"] /\ gblcnt_mutex' = t
        /\ sum' = [sum EXCEPT ![t] = globalcount] /\ UNCHANGED <<globalcount, counterandmax, scan>>
    BY <1>9, AtomicBase DEF Atomic!ReadBegin, Atomic!Goto
  <2>2. pc'[t] = "read" /\ \A u \in Threads \ {t} : pc'[u] = pc[u]
    BY <1>4, <2>1
  <2> QED BY <1>2, <1>5, <2>1, <2>2, LimitBegin
<1>10. CASE Atomic!ReadNext(t)
  <2> DEFINE n == IF Atomic!Registered(scan[t]) THEN Counts[scan[t]] ELSE 0
  <2>1. /\ pc[t] = "read" /\ Atomic!Advance(t, "read", "read_done") /\ UNCHANGED <<globalcount, gblcnt_mutex, Caps>>
        /\ sum' = [sum EXCEPT ![t] = IF Atomic!Registered(scan[t]) THEN @ + Atomic!C(scan[t]) ELSE @]
    BY <1>5, <1>10 DEF Atomic!ReadNext
  <2>2. n \in Nat /\ n <= Caps[scan[t]] /\ sum[t] \in Nat /\ Counts[scan[t]] = Atomic!C(scan[t])
    BY <1>1, <1>2, <1>4, AtomicHalves DEF Books
  <2>3. sum' = [sum EXCEPT ![t] = @ + n]
    <3>1. CASE Atomic!Registered(scan[t])
      BY <2>1, <2>2, <3>1
    <3>2. CASE ~Atomic!Registered(scan[t])
      <4>1. sum' = sum /\ n = 0
        BY <1>4, <2>1, <3>2
      <4>2. sum[t] + 0 = sum[t]
        BY <2>2
      <4> QED BY <1>4, <4>1, <4>2
    <3> QED BY <3>1, <3>2
  <2>4. /\ scan' \in [Threads -> Threads]
        /\ \/ pc' = [pc EXCEPT ![t] = "read"] /\ scan' = [scan EXCEPT ![t] = scan[t] + 1]
           \/ pc' = [pc EXCEPT ![t] = "read_done"] /\ scan' = [scan EXCEPT ![t] = 0] /\ scan[t] = NR_THREADS - 1
    BY <1>1, <2>1, AtomicAdvance
  <2>5. /\ \A u \in Threads \ {t} : pc'[u] = pc[u] /\ scan'[u] = scan[u]
        /\ \/ pc'[t] = "read" /\ scan'[t] = scan[t] + 1
           \/ pc'[t] = "read_done" /\ scan'[t] = 0 /\ scan[t] = NR_THREADS - 1
    BY <1>4, <2>4
  <2> HIDE DEF n
  <2> QED BY <1>2, <2>1, <2>2, <2>3, <2>4, <2>5, LimitNext
<1>11. CASE Atomic!ReadEnd(t)
  <2>1. /\ pc[t] = "read_done" /\ pc' = [pc EXCEPT ![t] = "idle"]
        /\ sum' = [sum EXCEPT ![t] = 0] /\ UNCHANGED scan
    BY <1>11 DEF Atomic!ReadEnd, Atomic!Goto
  <2>2. pc'[t] = "idle" /\ \A u \in Threads \ {t} : pc'[u] = pc[u]
    BY <1>4, <2>1
  <2> QED BY <2>1, <2>2, LimitEnd
<1> QED BY <1>3, <1>6, <1>7, <1>8, <1>9, <1>10, <1>11

\* What readers of the limit counters have found keeps to globalcount and the countermaxes it has come past.
THEOREM LimitReadsInvariance == Spec => [](impl \in Approximate \union Exact => LimitReads)
<1> DEFINE K == impl \in Approximate \union Exact => LimitReads
<1>1. Init => K
  <2> SUFFICES ASSUME Init PROVE LimitReads
    OBVIOUS
  <2>1. /\ scan = [t \in Threads |-> 0] /\ sum = [t \in Threads |-> 0] /\ pc = [t \in Threads |-> "off"]
    BY SigBase DEF Init, Sig!Init, Sig!InitBase
  <2> QED BY <2>1, ZeroIn DEF LimitReads, LimitRead, Reading, Loops
<1>2. IInv /\ K /\ [Next]_vars => K'
  <2> SUFFICES ASSUME IInv, K, [Next]_vars, impl' \in Approximate \union Exact PROVE LimitReads'
    OBVIOUS
  <2>1. CASE LimNext
    BY <2>1, LimReads DEF IInv, LimNext
  <2>2. CASE SigNext
    <3>1. impl \in Exact
      BY <2>2 DEF SigNext, SigOnly, Exact
    <3> QED BY <2>2, <3>1, SigReads
  <2>3. CASE AtomicNext
    <3>1. impl \in Exact
      BY <2>3 DEF AtomicNext, Exact
    <3> QED BY <2>3, <3>1, AtomicReads
  <2>4. CASE StatNext
    <3>1. impl' \in Stat!Impls
      BY <2>4, StatStep DEF StatNext
    <3> QED BY <3>1 DEF Approximate, Exact, Stat!Impls
  <2>5. CASE UNCHANGED vars
    <3>1. /\ impl' = impl
          /\ UNCHANGED <<globalcount, gblcnt_mutex, sum, scan, pc, countermax, counterandmax>>
      BY <2>5 DEF vars, globals, locals, sigVars, atomicVars
    <3>2. Maxes' = Maxes
      BY <3>1 DEF Maxes, Atomic!CM
    <3>3. Caps' = Caps
      BY <3>1, <3>2 DEF Caps
    <3> QED BY <3>1, <3>3 DEF LimitReads, LimitRead, Reached
  <2> QED BY <2>1, <2>2, <2>3, <2>4, <2>5 DEF Next
<1> HIDE DEF K
<1>3. Spec => []K
  BY <1>1, <1>2, Invariance, PTL DEF Spec
<1> QED BY <1>3 DEF K

\* ReadBetween: what read_count() of a statistical counter returns lies between what had been counted
\* at its call and what has been at its return (and never exceeds the latter where the code promises no
\* more); what read_count() of a limit counter adds up never exceeds the limit, however the fast paths
\* move their counters meanwhile.
THEOREM ReadsBetween == Spec => []ReadBetween
<1>1. (impl \in Stat!Impls => StatInv /\ ArrayInv) => (impl \in Stat!Impls => Stat!ReadBetween)
  BY StatBase DEF StatInv, StatGot, Readers, Stat!ReadBetween
<1>2. ASSUME IInv, impl \in Approximate \union Exact, LimitReads, NEW t \in Threads
      PROVE  sum[t] <= globalcountmax
  <2>1. /\ Books(globalcount, globalreserve, IF impl = "count_lim_atomic" THEN Counts ELSE counter, Caps)
        /\ globalcount \in Nat /\ Caps \in [Threads -> Nat]
    BY <1>2, LimitBooks
  <2>2. globalreserve = Sum(Caps, Threads) /\ globalcount + globalreserve <= globalcountmax
    BY <2>1 DEF Books
  <2>3. sum[t] \in Nat /\ LimitRead(t) /\ globalcountmax \in Nat
    BY <1>2, CounterAssumption DEF LimitReads
  <2>4. CASE pc[t] \in Reading
    <3> DEFINE s == Sum(Seen(Reached(t), Threads, Caps), Threads)
               r == Sum(ToCome(Reached(t), Threads, Caps), Threads)
               c == Sum(Caps, Threads)
    <3>1. Reached(t) \in Nat
      BY <1>2, NRThreadsAssumption DEF Reached, LimitReads, Threads
    <3>2. s \in Nat /\ r \in Nat /\ s + r = c
      BY <2>1, <3>1, SeenType, SeenAndToCome
    <3>3. sum[t] <= globalcount + s /\ globalreserve = c
      BY <2>2, <2>3, <2>4 DEF LimitRead
    <3> HIDE DEF s, r, c
    <3> QED BY <2>1, <2>2, <2>3, <3>2, <3>3
  <2>5. CASE pc[t] \notin Reading
    BY <2>3, <2>5 DEF LimitRead
  <2> QED BY <2>4, <2>5
<1>3. IInv /\ (impl \in Approximate \union Exact => LimitReads) =>
        (impl \notin Stat!Impls => \A t \in Threads : sum[t] <= globalcountmax)
  BY <1>2 DEF IInv
<1>4. /\ IInv /\ (impl \in Approximate \union Exact => LimitReads) /\ (impl \in Stat!Impls => StatInv /\ ArrayInv)
      => ReadBetween
  BY <1>1, <1>3 DEF ReadBetween
<1> QED BY <1>4, Invariance, LimitReadsInvariance, StatInvariance, PTL
=============================================================================
