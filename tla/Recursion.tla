------------------------------- MODULE Recursion -------------------------------
(***************************************************************************)
(* Induction and recursion over the natural numbers and over ranks, stated *)
(* of sets and of functions: the induction theorems of the library take an *)
(* operator, and these do not.  Least and greatest elements, the order of  *)
(* a finite set by rank, and what the joining of sequences is.             *)
(***************************************************************************)
EXTENDS Integers, Sequences, FiniteSets, SequencesExt, FiniteSetTheorems, TLAPS, WellFoundedInduction

(* A set of natural numbers has a least element. *)
LEMMA LeastExists ==
    ASSUME NEW S \in SUBSET Nat, S # {}
    PROVE  \E x \in S : \A y \in S : x <= y
<1>1. PICK x \in S : \A y \in S : ~ (<<y, x>> \in OpToRel(<, Nat))
  BY NatLessThanWellFounded, WFMin
<1>2. ASSUME NEW y \in S
      PROVE  x <= y
  <2>1. <<y, x>> \in Nat \X Nat
    OBVIOUS
  <2>2. ~ (y < x)
    BY <1>1, <2>1 DEF OpToRel
  <2> QED
    BY <2>2
<1> QED
  BY <1>2

(* A set of numbers from 1 to n has a greatest element. *)
LEMMA GreatestExists ==
    ASSUME NEW n \in Nat, NEW S \in SUBSET (1 .. n), S # {}
    PROVE  \E x \in S : \A y \in S : y <= x
<1> DEFINE T == {n - x : x \in S}
<1>1. T \in SUBSET Nat /\ T # {}
  <2>1. \A x \in S : n - x \in Nat
    OBVIOUS
  <2>2. PICK x : x \in S
    OBVIOUS
  <2>3. n - x \in T
    BY <2>2
  <2> QED
    BY <2>1, <2>3
<1>2. PICK t \in T : \A y \in T : t <= y
  <2> HIDE DEF T
  <2> QED
    BY <1>1, LeastExists
<1>3. PICK x \in S : t = n - x
  BY <1>2
<1>4. \A y \in S : n - x <= n - y
  BY <1>2, <1>3
<1> QED
  BY <1>4

(* What holds of 0, and of n + 1 if of n, holds of every number. *)
LEMMA SetInduction ==
    ASSUME NEW S, 0 \in S, \A n \in Nat : n \in S => n + 1 \in S
    PROVE  Nat \subseteq S
<1> SUFFICES ASSUME Nat \ S # {} PROVE FALSE
  OBVIOUS
<1>1. PICK x \in Nat \ S : \A y \in Nat \ S : x <= y
  BY LeastExists
<1>2. x # 0 /\ x - 1 \in Nat
  BY <1>1
<1>3. x - 1 \in S
  BY <1>1, <1>2
<1> QED
  BY <1>1, <1>2, <1>3

(* The same of the numbers up to n. *)
LEMMA IntervalInduction ==
    ASSUME NEW n \in Nat, NEW S, 0 \in S, \A k \in 1 .. n : k - 1 \in S => k \in S
    PROVE  0 .. n \subseteq S
<1> DEFINE T == {k \in Nat : k <= n => k \in S}
<1>1. 0 \in T
  OBVIOUS
<1>2. ASSUME NEW k \in Nat, k \in T
      PROVE  k + 1 \in T
  <2> SUFFICES ASSUME k + 1 <= n PROVE k + 1 \in S
    OBVIOUS
  <2>1. k + 1 \in 1 .. n /\ (k + 1) - 1 = k
    OBVIOUS
  <2> QED
    BY <1>2, <2>1
<1>3. Nat \subseteq T
  <2> HIDE DEF T
  <2> QED
    BY <1>1, <1>2, SetInduction
<1> QED
  BY <1>3

(* f is what c becomes when the n functions of step are applied in turn. *)
IsIteration(f, c, n, step) == f[0] = c /\ \A k \in 1 .. n : f[k] = step[k][f[k - 1]]

(* There is such a function: a definition by recursion over an interval is  *)
(* what its equation says.                                                  *)
LEMMA IterationExists ==
    ASSUME NEW A, NEW c \in A, NEW n \in Nat, NEW step \in [1 .. n -> [A -> A]]
    PROVE  \E f \in [0 .. n -> A] : IsIteration(f, c, n, step)
<1> DEFINE Upto(m, f) == f[0] = c /\ \A k \in 1 .. m : f[k] = step[k][f[k - 1]]
           S == {m \in 0 .. n : \E f \in [0 .. m -> A] : Upto(m, f)}
<1>1. 0 \in S
  <2>1. [k \in 0 .. 0 |-> c] \in [0 .. 0 -> A] /\ Upto(0, [k \in 0 .. 0 |-> c])
    OBVIOUS
  <2> HIDE DEF Upto
  <2> QED
    BY <2>1
<1>2. ASSUME NEW m \in 1 .. n, m - 1 \in S
      PROVE  m \in S
  <2>1. PICK f \in [0 .. m - 1 -> A] : Upto(m - 1, f)
    BY <1>2
  <2> DEFINE g == [k \in 0 .. m |-> IF k = m THEN step[m][f[m - 1]] ELSE f[k]]
  <2>2. step[m][f[m - 1]] \in A
    OBVIOUS
  <2>3. g \in [0 .. m -> A]
    BY <2>2
  <2>4. g[0] = c
    BY <2>1
  <2>5. ASSUME NEW k \in 1 .. m
        PROVE  g[k] = step[k][g[k - 1]]
    <3>1. g[k - 1] = f[k - 1]
      OBVIOUS
    <3>2. CASE k = m
      BY <3>1, <3>2
    <3>3. CASE k # m
      <4>1. k \in 1 .. m - 1
        BY <3>3
      <4>2. f[k] = step[k][f[k - 1]]
        BY <2>1, <4>1
      <4>3. g[k] = f[k]
        BY <4>1
      <4> QED
        BY <3>1, <4>2, <4>3
    <3> QED
      BY <3>2, <3>3
  <2>6. Upto(m, g)
    BY <2>4, <2>5
  <2> HIDE DEF Upto, g
  <2> QED
    BY <2>3, <2>6
<1>3. 0 .. n \subseteq S
  <2> HIDE DEF S
  <2> QED
    BY <1>1, <1>2, IntervalInduction
<1> QED
  BY <1>3 DEF IsIteration

(* The values of a recursive function have the type that every step keeps. *)
LEMMA IterationType ==
    ASSUME NEW A, NEW n \in Nat, NEW f, f = [k \in 0 .. n |-> f[k]],
           f[0] \in A, \A k \in 1 .. n : f[k - 1] \in A => f[k] \in A
    PROVE  f \in [0 .. n -> A]
<1> DEFINE S == {k \in 0 .. n : f[k] \in A}
<1>1. 0 \in S /\ \A k \in 1 .. n : k - 1 \in S => k \in S
  OBVIOUS
<1>2. 0 .. n \subseteq S
  <2> HIDE DEF S
  <2> QED
    BY <1>1, IntervalInduction
<1> QED
  BY <1>2

-----------------------------------------------------------------------------
(* Recursion by rank *)

(* What holds of each d, if of all that rank lower, holds of every d. *)
LEMMA RankInduction ==
    ASSUME NEW D, NEW N \in Nat, NEW rank \in [D -> 0 .. N], NEW S,
           \A d \in D : (\A e \in D : rank[e] < rank[d] => e \in S) => d \in S
    PROVE  D \subseteq S
<1> SUFFICES ASSUME D \ S # {} PROVE FALSE
  OBVIOUS
<1> DEFINE W == {rank[d] : d \in D \ S}
<1>1. W \in SUBSET Nat /\ W # {}
  OBVIOUS
<1>2. PICK w \in W : \A y \in W : w <= y
  <2> HIDE DEF W
  <2> QED
    BY <1>1, LeastExists
<1>3. PICK d \in D \ S : w = rank[d]
  BY <1>2
<1>4. ASSUME NEW e \in D, rank[e] < rank[d]
      PROVE  e \in S
  <2> SUFFICES ASSUME e \notin S PROVE FALSE
    OBVIOUS
  <2>1. rank[e] \in W
    OBVIOUS
  <2>2. rank[d] <= rank[e]
    BY <1>2, <1>3, <2>1
  <2>3. rank[e] \in 0 .. N /\ rank[d] \in 0 .. N
    OBVIOUS
  <2> QED
    BY <1>4, <2>2, <2>3
<1> QED
  BY <1>3, <1>4

(* What step makes of d depends on what ranks lower. *)
IsLocal(step, G, D, rank) ==
    \A f, g \in G : \A d \in D :
        (\A e \in D : rank[e] < rank[d] => f[e] = g[e]) => step[f][d] = step[g][d]

(* f[d] is defined by what f is where it ranks lower. *)
IsRecursion(D, N, rank, A, G, g0, step) ==
    /\ N \in Nat /\ rank \in [D -> 0 .. N]
    /\ G \in SUBSET [D -> A] /\ g0 \in G
    /\ step \in [G -> G] /\ IsLocal(step, G, D, rank)

(* A definition by recursion on what ranks lower is what its equation says. *)
LEMMA RankRecursion ==
    ASSUME NEW D, NEW N, NEW rank, NEW A, NEW G, NEW g0, NEW step,
           IsRecursion(D, N, rank, A, G, g0, step)
    PROVE  \E f \in G : step[f] = f
<1>0. /\ N \in Nat /\ rank \in [D -> 0 .. N]
      /\ G \in SUBSET [D -> A] /\ g0 \in G
      /\ step \in [G -> G] /\ IsLocal(step, G, D, rank)
  BY DEF IsRecursion
<1> DEFINE M == N + 2
           steps == [k \in 1 .. M |-> step]
<1>1. M \in Nat /\ g0 \in G /\ steps \in [1 .. M -> [G -> G]]
  BY <1>0
<1>2. PICK f \in [0 .. M -> G] : IsIteration(f, g0, M, steps)
  <2> HIDE DEF M, steps
  <2> QED
    BY <1>1, IterationExists, Zenon
<1>3. \A k \in 1 .. M : f[k] = step[f[k - 1]] /\ k - 1 \in 0 .. M /\ k \in 0 .. M
  <2>1. \A k \in 1 .. M : steps[k] = step /\ k - 1 \in 0 .. M /\ k \in 0 .. M
    BY <1>1
  <2> HIDE DEF steps, M
  <2> QED
    BY <1>2, <2>1 DEF IsIteration
<1>4. M - 1 \in Nat /\ M - 1 = N + 1
  BY <1>0
<1> HIDE DEF M
<1>5. \A k \in 0 .. M : f[k] \in G
  BY <1>2
<1> DEFINE S == {h \in 0 .. M - 1 : \A d \in D : rank[d] < h => f[h + 1][d] = f[h][d]}
<1>6. 0 \in S
  <2>1. \A d \in D : ~ (rank[d] < 0)
    BY <1>0
  <2> QED
    BY <1>4, <2>1
<1>7. ASSUME NEW h \in 1 .. M - 1, h - 1 \in S
      PROVE  h \in S
  <2>1. h \in 0 .. M - 1 /\ h \in 1 .. M /\ h + 1 \in 1 .. M /\ (h + 1) - 1 = h /\ (h - 1) + 1 = h
        /\ h - 1 \in 0 .. M /\ h \in 0 .. M
    BY <1>1, <1>4
  <2> SUFFICES ASSUME NEW d \in D, rank[d] < h
               PROVE  f[h + 1][d] = f[h][d]
    BY <2>1
  <2>2. ASSUME NEW e \in D, rank[e] < rank[d]
        PROVE  f[h][e] = f[h - 1][e]
    <3>1. rank[e] \in 0 .. N /\ rank[d] \in 0 .. N
      BY <1>0
    <3> DEFINE x == rank[e]
               y == rank[d]
    <3>2. x \in 0 .. N /\ y \in 0 .. N /\ x < y /\ y < h
      BY <2>2, <3>1
    <3> HIDE DEF x, y
    <3>3. x < h - 1
      BY <2>1, <3>2
    <3>4. rank[e] < h - 1
      BY <3>3 DEF x
    <3>5. \A c \in D : rank[c] < h - 1 => f[(h - 1) + 1][c] = f[h - 1][c]
      BY <1>7
    <3> QED
      BY <2>1, <3>4, <3>5
  <2>3. f[h + 1] = step[f[h]] /\ f[h] = step[f[h - 1]]
    BY <1>3, <2>1
  <2>4. f[h] \in G /\ f[h - 1] \in G
    BY <1>5, <2>1
  <2>5. step[f[h]][d] = step[f[h - 1]][d]
    BY <1>0, <2>2, <2>4 DEF IsLocal
  <2> QED
    BY <2>3, <2>5
<1>8. 0 .. M - 1 \subseteq S
  <2> HIDE DEF S
  <2> QED
    BY <1>4, <1>6, <1>7, IntervalInduction
<1> DEFINE g == f[M - 1]
<1>9. g \in G /\ f[M] \in G /\ f[M] = step[g]
  <2>1. M - 1 \in 0 .. M /\ M \in 0 .. M /\ M \in 1 .. M
    BY <1>1, <1>4
  <2> QED
    BY <1>3, <1>5, <2>1
<1>10. \A d \in D : f[M][d] = g[d]
  <2>1. M - 1 \in 0 .. M - 1 /\ (M - 1) + 1 = M
    BY <1>1, <1>4
  <2>2. \A d \in D : rank[d] < M - 1
    BY <1>0, <1>1, <1>4
  <2> HIDE DEF g
  <2> QED
    BY <1>8, <2>1, <2>2 DEF g
<1> HIDE DEF g
<1>11. step[g] = g
  <2>1. g \in [D -> A] /\ f[M] \in [D -> A]
    BY <1>0, <1>9
  <2>2. f[M] = g
    BY <1>10, <2>1
  <2> QED
    BY <1>9, <2>2
<1> QED
  BY <1>9, <1>11

-----------------------------------------------------------------------------
(* The least and the greatest *)

(* What Min chooses *)
LEMMA LeastIsMin ==
    ASSUME NEW S \in SUBSET Nat, S # {}
    PROVE  Min(S) \in S /\ \A y \in S : Min(S) <= y
<1>1. \E x \in S : \A y \in S : x <= y
  BY LeastExists
<1> QED
  BY <1>1 DEF Min

(* What Max chooses *)
LEMMA GreatestIsMax ==
    ASSUME NEW n \in Nat, NEW S \in SUBSET (1 .. n), S # {}
    PROVE  Max(S) \in S /\ \A y \in S : y <= Max(S)
<1>1. \E x \in S : \A y \in S : x >= y
  <2>1. PICK x \in S : \A y \in S : y <= x
    BY GreatestExists
  <2> QED
    BY <2>1
<1>2. Max(S) \in S /\ \A y \in S : Max(S) >= y
  BY <1>1 DEF Max
<1> QED
  BY <1>2

-----------------------------------------------------------------------------
(* What a strict order makes of a finite set *)

(* R puts the finite set K in a strict order. *)
Orders(R, K) ==
    /\ IsFiniteSet(K)
    /\ \A j, k \in K : <<j, k>> \in R => <<k, j>> \notin R
    /\ \A i, j, k \in K : <<i, j>> \in R /\ <<j, k>> \in R => <<i, k>> \in R
    /\ \A j, k \in K : j # k => <<j, k>> \in R \/ <<k, j>> \in R

(* The position of an element: how many come before it *)
RankIn(R, K, k) == Cardinality({j \in K : <<j, k>> \in R})

(* Whoever comes later has more before it. *)
LEMMA RankInRises ==
    ASSUME NEW R, NEW K, Orders(R, K), NEW j \in K, NEW k \in K, <<j, k>> \in R
    PROVE  RankIn(R, K, j) < RankIn(R, K, k)
<1> DEFINE J == {x \in K : <<x, j>> \in R}
           H == {x \in K : <<x, k>> \in R}
<1>1. J \subseteq H
  BY DEF Orders
<1>2. j \in H /\ j \notin J
  BY DEF Orders
<1>3. IsFiniteSet(H) /\ IsFiniteSet(J)
  BY FS_Subset DEF Orders
<1>4. Cardinality(J) <= Cardinality(H) /\ Cardinality(J) # Cardinality(H)
  <2> HIDE DEF J, H
  <2> QED
    BY <1>1, <1>2, <1>3, FS_Subset
<1>5. Cardinality(J) \in Nat /\ Cardinality(H) \in Nat
  BY <1>3, FS_CardinalityType
<1> QED
  BY <1>4, <1>5 DEF RankIn

(* There are as many ranks as there are members. *)
LEMMA RankInBounds ==
    ASSUME NEW R, NEW K, Orders(R, K), NEW k \in K
    PROVE  RankIn(R, K, k) \in 0 .. Cardinality(K) - 1
<1> DEFINE H == {x \in K : <<x, k>> \in R}
<1>1. H \subseteq K /\ k \notin H
  BY DEF Orders
<1>2. IsFiniteSet(H) /\ Cardinality(H) <= Cardinality(K) /\ Cardinality(H) # Cardinality(K)
  <2> HIDE DEF H
  <2> QED
    BY <1>1, FS_Subset DEF Orders
<1>3. Cardinality(H) \in Nat /\ Cardinality(K) \in Nat
  BY <1>2, FS_CardinalityType DEF Orders
<1> QED
  BY <1>2, <1>3 DEF RankIn

(* Every position is taken: ranking is an injection between sets of the same *)
(* size.                                                                     *)
LEMMA RankInIsOnto ==
    ASSUME NEW R, NEW K, Orders(R, K), NEW i \in 1 .. Cardinality(K)
    PROVE  \E k \in K : RankIn(R, K, k) = i - 1
<1> DEFINE n == Cardinality(K)
           T == 0 .. n - 1
           f == [k \in K |-> RankIn(R, K, k)]
<1>1. n \in Nat
  BY FS_CardinalityType DEF Orders
<1>2. IsFiniteSet(T) /\ Cardinality(T) = n
  <2>1. n - 1 \in Int /\ 0 \in Int
    BY <1>1
  <2>2. /\ IsFiniteSet(0 .. n - 1)
        /\ Cardinality(0 .. n - 1) = IF 0 > n - 1 THEN 0 ELSE n - 1 - 0 + 1
    BY ONLY <2>1, FS_Interval
  <2> QED
    BY <1>1, <2>2
<1>3. f \in [K -> T]
  BY RankInBounds
<1>4. ASSUME NEW j \in K, NEW k \in K, j # k
      PROVE  f[j] # f[k]
  <2>1. <<j, k>> \in R \/ <<k, j>> \in R
    BY <1>4 DEF Orders
  <2>2. RankIn(R, K, j) \in Int /\ RankIn(R, K, k) \in Int
    BY RankInBounds
  <2> QED
    BY <2>1, <2>2, RankInRises
<1>5. f \in Injection(K, T)
  <2> HIDE DEF f, T
  <2> QED
    BY <1>3, <1>4 DEF Injection, IsInjective
<1>6. f \in Surjection(K, T)
  <2>1. IsFiniteSet(K)
    BY DEF Orders
  <2> HIDE DEF f, T
  <2> QED
    BY <1>2, <1>5, <2>1, FS_Injection
<1>7. i - 1 \in T
  BY <1>1
<1>8. PICK k \in K : f[k] = i - 1
  <2> HIDE DEF f, T
  <2> QED
    BY <1>6, <1>7 DEF Surjection
<1> QED
  BY <1>8

(* Every element once, in ascending order *)
Ascends(order, R, K) ==
    /\ DOMAIN order = 1 .. Cardinality(K)
    /\ \A i \in DOMAIN order : order[i] \in K
    /\ \A k \in K : \E i \in DOMAIN order : order[i] = k
    /\ \A i, j \in DOMAIN order : i < j => <<order[i], order[j]>> \in R

(* The members by rank are the members in order. *)
LEMMA RankedAscends ==
    ASSUME NEW R, NEW K, Orders(R, K), NEW order,
           order = [i \in 1 .. Cardinality(K) |-> CHOOSE k \in K : RankIn(R, K, k) = i - 1]
    PROVE  Ascends(order, R, K) /\ Cardinality(K) \in Nat
<1>1. Cardinality(K) \in Nat
  BY FS_CardinalityType DEF Orders
<1>3. DOMAIN order = 1 .. Cardinality(K)
  OBVIOUS
<1>4. ASSUME NEW i \in DOMAIN order
      PROVE  order[i] \in K /\ RankIn(R, K, order[i]) = i - 1
  <2>1. \E k \in K : RankIn(R, K, k) = i - 1
    BY <1>1, <1>3, RankInIsOnto
  <2> QED
    BY <1>3, <2>1
<1>5. ASSUME NEW j \in K, NEW k \in K, RankIn(R, K, j) <= RankIn(R, K, k), j # k
      PROVE  <<j, k>> \in R
  <2>1. <<j, k>> \in R \/ <<k, j>> \in R
    BY <1>5 DEF Orders
  <2>2. RankIn(R, K, j) \in Int /\ RankIn(R, K, k) \in Int
    BY RankInBounds
  <2> QED
    BY <1>5, <2>1, <2>2, RankInRises
<1>6. ASSUME NEW k \in K
      PROVE  \E i \in DOMAIN order : order[i] = k
  <2>1. RankIn(R, K, k) \in 0 .. Cardinality(K) - 1
    BY RankInBounds
  <2>2. RankIn(R, K, k) + 1 \in DOMAIN order
    BY <1>1, <1>3, <2>1
  <2>3. /\ order[RankIn(R, K, k) + 1] \in K
        /\ RankIn(R, K, order[RankIn(R, K, k) + 1]) = RankIn(R, K, k)
    BY <1>4, <2>1, <2>2
  <2>4. order[RankIn(R, K, k) + 1] = k
    <3> SUFFICES ASSUME order[RankIn(R, K, k) + 1] # k PROVE FALSE
      OBVIOUS
    <3>1. <<order[RankIn(R, K, k) + 1], k>> \in R /\ <<k, order[RankIn(R, K, k) + 1]>> \in R
      BY <1>5, <2>1, <2>3
    <3> QED
      BY <2>3, <3>1 DEF Orders
  <2> QED
    BY <2>2, <2>4
<1>7. ASSUME NEW i \in DOMAIN order, NEW j \in DOMAIN order, i < j
      PROVE  <<order[i], order[j]>> \in R
  <2>1. RankIn(R, K, order[i]) = i - 1 /\ RankIn(R, K, order[j]) = j - 1
    BY <1>4
  <2>2. i - 1 <= j - 1 /\ i - 1 # j - 1
    BY <1>1, <1>3, <1>7
  <2> QED
    BY <1>4, <1>5, <2>1, <2>2
<1> QED
  BY <1>1, <1>3, <1>4, <1>6, <1>7 DEF Ascends

(* There is one way to put a set in ascending order. *)
LEMMA AscendsOneWay ==
    ASSUME NEW R, NEW K, Orders(R, K), NEW a, NEW b, Ascends(a, R, K), Ascends(b, R, K),
           a = [i \in DOMAIN a |-> a[i]], b = [i \in DOMAIN b |-> b[i]]
    PROVE  a = b
<1>1. Cardinality(K) \in Nat
  BY FS_CardinalityType DEF Orders
<1> DEFINE n == Cardinality(K)
<1>2. ASSUME NEW s, Ascends(s, R, K), NEW i \in 1 .. n
      PROVE  s[i] \in K /\ RankIn(R, K, s[i]) = i - 1
  <2> DEFINE before == {j \in K : <<j, s[i]>> \in R}
             f == [j \in 1 .. i - 1 |-> s[j]]
  <2>1. DOMAIN s = 1 .. n
    BY <1>2 DEF Ascends
  <2>2. \A j \in DOMAIN s : s[j] \in K
    BY <1>2 DEF Ascends
  <2>3. \A j, k \in DOMAIN s : j < k => <<s[j], s[k]>> \in R
    BY <1>2 DEF Ascends
  <2>4. ASSUME NEW j \in DOMAIN s, NEW k \in DOMAIN s, j # k
        PROVE  s[j] # s[k]
    <3>1. <<s[j], s[k]>> \in R \/ <<s[k], s[j]>> \in R
      BY <1>1, <2>1, <2>3, <2>4
    <3> QED
      BY <2>2, <3>1 DEF Orders
  <2>5. f \in [1 .. i - 1 -> before]
    <3> SUFFICES ASSUME NEW j \in 1 .. i - 1 PROVE s[j] \in before
      OBVIOUS
    <3>1. j \in DOMAIN s /\ i \in DOMAIN s /\ j < i
      BY <1>1, <2>1
    <3> QED
      BY <2>2, <2>3, <3>1
  <2>6. \A j, k \in 1 .. i - 1 : j # k => f[j] # f[k]
    BY <1>1, <2>1, <2>4
  <2>7. \A x \in before : \E j \in 1 .. i - 1 : f[j] = x
    <3> SUFFICES ASSUME NEW x \in before PROVE \E j \in 1 .. i - 1 : f[j] = x
      OBVIOUS
    <3>1. PICK j \in DOMAIN s : s[j] = x
      BY <1>2 DEF Ascends
    <3>2. ~ (i <= j)
      <4> SUFFICES ASSUME i <= j PROVE FALSE
        OBVIOUS
      <4>1. i = j \/ <<s[i], s[j]>> \in R
        BY <1>1, <2>1, <2>3
      <4> QED
        BY <2>1, <2>2, <3>1, <4>1 DEF Orders
    <3>3. j \in 1 .. i - 1
      BY <1>1, <2>1, <3>2
    <3> QED
      BY <3>1, <3>3
  <2>8. f \in Bijection(1 .. i - 1, before)
    <3> HIDE DEF f, before
    <3> QED
      BY <2>5, <2>6, <2>7 DEF Bijection, Injection, Surjection, IsInjective
  <2>9. IsFiniteSet(1 .. i - 1) /\ Cardinality(1 .. i - 1) = i - 1
    <3>1. 1 \in Int /\ i - 1 \in Int
      BY <1>1
    <3>2. /\ IsFiniteSet(1 .. i - 1)
          /\ Cardinality(1 .. i - 1) = IF 1 > i - 1 THEN 0 ELSE i - 1 - 1 + 1
      BY ONLY <3>1, FS_Interval
    <3> QED
      BY <1>1, <3>2
  <2>10. Cardinality(before) = i - 1
    <3> HIDE DEF f, before
    <3>1. ExistsBijection(1 .. i - 1, before)
      BY <2>8 DEF ExistsBijection
    <3> QED
      BY <2>9, <3>1, FS_Bijection
  <2> QED
    BY <2>1, <2>2, <2>10 DEF RankIn
<1>3. ASSUME NEW i \in 1 .. n
      PROVE  a[i] = b[i]
  <2>1. a[i] \in K /\ b[i] \in K /\ RankIn(R, K, a[i]) = i - 1 /\ RankIn(R, K, b[i]) = i - 1
    BY <1>2
  <2> SUFFICES ASSUME a[i] # b[i] PROVE FALSE
    OBVIOUS
  <2>2. <<a[i], b[i]>> \in R \/ <<b[i], a[i]>> \in R
    BY <2>1 DEF Orders
  <2>3. i - 1 < i - 1
    BY <2>1, <2>2, RankInRises
  <2> QED
    BY <1>1, <2>3
<1>4. DOMAIN a = 1 .. n /\ DOMAIN b = 1 .. n
  BY DEF Ascends
<1> QED
  BY <1>3, <1>4

-----------------------------------------------------------------------------
(* What is joined of sequences *)

(* What two sequences are one after the other, position by position *)
LEMMA JoinIs ==
    ASSUME NEW B, NEW v \in Seq(B), NEW w \in Seq(B)
    PROVE  /\ v \o w \in Seq(B) /\ <<>> \o w = w /\ Len(v \o w) = Len(v) + Len(w)
           /\ \A x \in 1 .. Len(v) : (v \o w)[x] = v[x]
           /\ \A x \in 1 .. Len(w) : (v \o w)[Len(v) + x] = w[x]
OBVIOUS

(* The texts that sequences over B make one after the other *)
Joining(B, text, words, n) ==
    /\ text \in [0 .. n -> Seq(B)] /\ text[0] = <<>>
    /\ \A k \in 1 .. n : text[k] = text[k - 1] \o words[k]

(* The words are n sequences over B. *)
AreWords(B, words, n) ==
    /\ n \in Nat /\ Len(words) = n /\ (n = 0 => words = <<>>)
    /\ \A k \in 1 .. n : words[k] \in Seq(B)

(* The joining of a sequence of words, which the community modules fold,    *)
(* word by word                                                             *)
LEMMA FlattenSeqIs ==
    ASSUME NEW B, NEW n, NEW words, AreWords(B, words, n)
    PROVE  \E text : Joining(B, text, words, n) /\ FlattenSeq(words) = text[n]
<1> SUFFICES ASSUME n \in Nat, Len(words) = n, n = 0 => words = <<>>, \A k \in 1 .. n : words[k] \in Seq(B)
             PROVE  \E text : Joining(B, text, words, n) /\ FlattenSeq(words) = text[n]
  BY DEF AreWords
<1> DEFINE step == [k \in 1 .. n |-> [t \in Seq(B) |-> t \o words[k]]]
<1>1. n \in Nat /\ \A k \in 1 .. n : words[k] \in Seq(B)
  OBVIOUS
<1>2. <<>> \in Seq(B) /\ \A v, w \in Seq(B) : v \o w \in Seq(B) /\ <<>> \o w = w
  BY JoinIs
<1>3. step \in [1 .. n -> [Seq(B) -> Seq(B)]]
  BY <1>1, <1>2
<1>4. PICK f \in [0 .. n -> Seq(B)] : IsIteration(f, <<>>, n, step)
  <2> HIDE DEF step
  <2> QED
    BY <1>1, <1>2, <1>3, IterationExists, Zenon
<1>5. f[0] = <<>>
  BY <1>4 DEF IsIteration
<1>6. \A k \in 1 .. n : f[k - 1] \in Seq(B) /\ f[k] = f[k - 1] \o words[k]
  <2> SUFFICES ASSUME NEW k \in 1 .. n PROVE f[k - 1] \in Seq(B) /\ f[k] = f[k - 1] \o words[k]
    OBVIOUS
  <2>1. k - 1 \in 0 .. n
    BY <1>1
  <2>2. f[k - 1] \in Seq(B)
    BY <1>4, <2>1
  <2> QED
    BY <1>4, <2>2 DEF IsIteration
<1>7. Joining(B, f, words, n)
  BY <1>4, <1>5, <1>6 DEF Joining
<1>8. CASE n = 0
  <2>1. words = <<>>
    BY <1>8
  <2>2. FlattenSeq(words) = <<>>
    BY <1>8, <2>1 DEF FlattenSeq
  <2> QED
    BY <1>5, <1>7, <1>8, <2>2
<1>9. CASE n # 0
  <2> DEFINE flatten == CHOOSE g : g = [i \in 1 .. n |->
                            IF i = 1 THEN words[i] ELSE g[i - 1] \o words[i]]
             g0 == [i \in 1 .. n |-> f[i]]
  <2>1. FlattenSeq(words) = flatten[n]
    BY <1>9 DEF FlattenSeq
  <2>2. g0 = [i \in 1 .. n |-> IF i = 1 THEN words[i] ELSE g0[i - 1] \o words[i]]
    <3> SUFFICES ASSUME NEW i \in 1 .. n
                 PROVE  f[i] = IF i = 1 THEN words[i] ELSE g0[i - 1] \o words[i]
      OBVIOUS
    <3>1. CASE i = 1
      <4>1. f[i] = f[i - 1] \o words[i] /\ i - 1 = 0 /\ words[i] \in Seq(B)
        BY <1>1, <1>6, <3>1
      <4> QED
        BY <1>2, <1>5, <3>1, <4>1
    <3>2. CASE i # 1
      <4>1. i - 1 \in 1 .. n
        BY <1>1, <3>2
      <4> QED
        BY <1>6, <3>2, <4>1
    <3> QED
      BY <3>1, <3>2
  <2>3. flatten = [i \in 1 .. n |-> IF i = 1 THEN words[i] ELSE flatten[i - 1] \o words[i]]
    <3> HIDE DEF g0
    <3> QED
      BY <2>2
  <2> HIDE DEF flatten
  <2> DEFINE S == {k \in 0 .. n : k # 0 => flatten[k] = f[k]}
  <2>4. 0 \in S
    BY <1>1
  <2>5. ASSUME NEW k \in 1 .. n, k - 1 \in S
        PROVE  k \in S
    <3>0. k \in 0 .. n
      OBVIOUS
    <3> SUFFICES flatten[k] = f[k]
      BY <3>0
    <3>1. CASE k = 1
      <4>1. f[k] = f[k - 1] \o words[k] /\ k - 1 = 0 /\ words[k] \in Seq(B)
        BY <1>1, <1>6, <3>1
      <4>2. flatten[k] = words[k]
        BY <2>3, <3>1
      <4> QED
        BY <1>1, <1>2, <1>5, <4>1, <4>2
    <3>2. CASE k # 1
      <4>1. k - 1 \in 1 .. n
        BY <1>1, <3>2
      <4>2. flatten[k - 1] = f[k - 1]
        BY <2>5, <4>1
      <4>3. f[k] = f[k - 1] \o words[k]
        BY <1>6
      <4>4. flatten[k] = flatten[k - 1] \o words[k]
        BY <2>3, <3>2
      <4> QED
        BY <4>2, <4>3, <4>4
    <3> QED
      BY <3>1, <3>2
  <2>6. 0 .. n \subseteq S
    <3> HIDE DEF S
    <3> QED
      BY <1>1, <2>4, <2>5, IntervalInduction
  <2>7. flatten[n] = f[n]
    BY <1>1, <1>9, <2>6
  <2> QED
    BY <1>7, <2>1, <2>7
<1> QED
  BY <1>8, <1>9

(* Where each of the joined words lies *)
Joined(text, words, n) ==
    /\ \A k \in 1 .. n : Len(text[k]) = Len(text[k - 1]) + Len(words[k])
    /\ \A m \in 0 .. n : \A k \in 0 .. m :
          /\ Len(text[k]) <= Len(text[m])
          /\ \A x \in 1 .. Len(text[k]) : text[m][x] = text[k][x]
    /\ \A k \in 1 .. n : \A x \in 1 .. Len(words[k]) :
          text[k][Len(text[k - 1]) + x] = words[k][x]

(* Each word has its place in the joining, which begins where the sum of    *)
(* the lengths before it ends.                                              *)
LEMMA JoiningPlaces ==
    ASSUME NEW B, NEW n \in Nat, NEW words, \A k \in 1 .. n : words[k] \in Seq(B),
           NEW text, Joining(B, text, words, n)
    PROVE  Joined(text, words, n)
<1>1. n \in Nat /\ \A k \in 1 .. n : words[k] \in Seq(B)
  OBVIOUS
<1>2. \A k \in 0 .. n : text[k] \in Seq(B) /\ Len(text[k]) \in Nat
  <2>1. text \in [0 .. n -> Seq(B)]
    BY DEF Joining
  <2> QED
    BY <2>1
<1>3. ASSUME NEW k \in 1 .. n
      PROVE  /\ Len(text[k]) = Len(text[k - 1]) + Len(words[k])
             /\ \A x \in 1 .. Len(text[k - 1]) : text[k][x] = text[k - 1][x]
             /\ \A x \in 1 .. Len(words[k]) : text[k][Len(text[k - 1]) + x] = words[k][x]
             /\ Len(words[k]) \in Nat /\ k - 1 \in 0 .. n
  <2>1. k - 1 \in 0 .. n
    BY <1>1
  <2>2. text[k] = text[k - 1] \o words[k]
    BY DEF Joining
  <2>4. /\ Len(text[k - 1] \o words[k]) = Len(text[k - 1]) + Len(words[k])
        /\ \A x \in 1 .. Len(text[k - 1]) : (text[k - 1] \o words[k])[x] = text[k - 1][x]
        /\ \A x \in 1 .. Len(words[k]) :
              (text[k - 1] \o words[k])[Len(text[k - 1]) + x] = words[k][x]
        /\ Len(words[k]) \in Nat
    <3> DEFINE v == text[k - 1]
               w == words[k]
    <3>1. v \in Seq(B) /\ w \in Seq(B) /\ Len(w) \in Nat
      BY <1>1, <1>2, <2>1
    <3> HIDE DEF v, w
    <3>2. /\ Len(v \o w) = Len(v) + Len(w)
          /\ \A x \in 1 .. Len(v) : (v \o w)[x] = v[x]
          /\ \A x \in 1 .. Len(w) : (v \o w)[Len(v) + x] = w[x]
      BY <3>1, JoinIs
    <3> QED
      BY <3>1, <3>2 DEF v, w
  <2> QED
    BY <2>1, <2>2, <2>4
<1>4. ASSUME NEW m \in 0 .. n
      PROVE  \A k \in 0 .. m : /\ Len(text[k]) <= Len(text[m])
                               /\ \A x \in 1 .. Len(text[k]) : text[m][x] = text[k][x]
  <2> DEFINE S == {j \in 0 .. n : \A k \in 0 .. j :
                       /\ Len(text[k]) <= Len(text[j])
                       /\ \A x \in 1 .. Len(text[k]) : text[j][x] = text[k][x]}
  <2>1. 0 \in S
    BY <1>1, <1>2
  <2>2. ASSUME NEW j \in 1 .. n, j - 1 \in S
        PROVE  j \in S
    <3> SUFFICES ASSUME NEW k \in 0 .. j
                 PROVE  /\ Len(text[k]) <= Len(text[j])
                        /\ \A x \in 1 .. Len(text[k]) : text[j][x] = text[k][x]
      BY <1>1
    <3>1. CASE k = j
      BY <1>2, <3>1
    <3>2. CASE k # j
      <4>1. k \in 0 .. j - 1 /\ j - 1 \in 0 .. n /\ k \in 0 .. n
        BY <1>1, <3>2
      <4>2. /\ Len(text[k]) <= Len(text[j - 1])
            /\ \A x \in 1 .. Len(text[k]) : text[j - 1][x] = text[k][x]
        BY <2>2, <4>1
      <4>3. /\ Len(text[k]) \in Nat /\ Len(text[j - 1]) \in Nat /\ Len(text[j]) \in Nat
            /\ Len(text[j - 1]) <= Len(text[j])
            /\ \A x \in 1 .. Len(text[j - 1]) : text[j][x] = text[j - 1][x]
        <5>1. Len(text[k]) \in Nat /\ Len(text[j - 1]) \in Nat /\ Len(text[j]) \in Nat
          BY <1>1, <1>2, <4>1
        <5>2. Len(words[j]) \in Nat /\ Len(text[j]) = Len(text[j - 1]) + Len(words[j])
          BY <1>3
        <5>3. \A x \in 1 .. Len(text[j - 1]) : text[j][x] = text[j - 1][x]
          BY <1>3
        <5>4. Len(text[j - 1]) <= Len(text[j])
          <6> DEFINE a == Len(text[j - 1])
                     b == Len(text[j])
                     c == Len(words[j])
          <6>1. a \in Nat /\ b \in Nat /\ c \in Nat /\ b = a + c
            BY <5>1, <5>2
          <6> HIDE DEF a, b, c
          <6>2. a <= b
            BY <6>1
          <6> QED
            BY <6>2 DEF a, b
        <5> QED
          BY <5>1, <5>3, <5>4
      <4> QED
        BY <4>2, <4>3
    <3> QED
      BY <3>1, <3>2
  <2>3. 0 .. n \subseteq S
    <3> HIDE DEF S
    <3> QED
      BY <1>1, <2>1, <2>2, IntervalInduction
  <2> QED
    BY <2>3
<1> QED
  BY <1>3, <1>4 DEF Joined

(* Joined words have the bytes that the words have. *)
LEMMA JoiningOver ==
    ASSUME NEW A, NEW B, NEW n \in Nat, NEW words, NEW text, Joining(A, text, words, n),
           \A k \in 1 .. n : words[k] \in Seq(B)
    PROVE  text[n] \in Seq(B)
<1> DEFINE S == {k \in 0 .. n : text[k] \in Seq(B)}
<1>1. 0 \in S
  BY DEF Joining
<1>2. ASSUME NEW k \in 1 .. n, k - 1 \in S
      PROVE  k \in S
  <2>1. text[k] = text[k - 1] \o words[k]
    BY DEF Joining
  <2>2. text[k - 1] \in Seq(B) /\ words[k] \in Seq(B)
    BY <1>2
  <2>3. text[k - 1] \o words[k] \in Seq(B)
    BY <2>2
  <2>4. text[k] \in Seq(B)
    BY <2>1, <2>3
  <2> QED
    BY <2>4
<1>3. 0 .. n \subseteq S
  <2> HIDE DEF S
  <2> QED
    BY <1>1, <1>2, IntervalInduction
<1> QED
  BY <1>3

================================================================================
