---------------------------- MODULE ClosuresProofs ----------------------------
(***************************************************************************)
(* Lemmas about folds, sums, closures, chains, sorted listings and         *)
(* traversals, for catalogues of any size.                                 *)
(***************************************************************************)
EXTENDS Closures, Integers, FiniteSetTheorems, SequenceTheorems, WellFoundedInduction, TLAPS

-----------------------------------------------------------------------------
(* Induction over data: numbers are well-founded, and a fold is the run of its *)
(* steps, each a function on the set of the values it may have.                *)

\* A set of numbers has a least element.
LEMMA LeastNumber ==
    ASSUME NEW T, T \subseteq Nat, T # {}
    PROVE  \E n \in T : \A m \in T : n <= m
<1> DEFINE R == OpToRel(<, Nat)
<1>1. IsWellFoundedOn(R, Nat)
  BY NatLessThanWellFounded
<1>2. \A x, y \in Nat : x < y => <<x, y>> \in R
  BY DEF OpToRel
<1> HIDE DEF R
<1>3. PICK n \in T : \A m \in T : ~(<<m, n>> \in R)
  BY <1>1, WFMin
<1>4. n \in Nat /\ \A m \in T : m \in Nat /\ ~(m < n)
  BY <1>2, <1>3
<1>5. \A m \in T : n <= m
  BY <1>4
<1> QED
  BY <1>5

\* Induction up to n, for a set of numbers in the place of a predicate.
LEMMA InductionUpTo ==
    ASSUME NEW n \in Nat, NEW T, 0 \in T, \A k \in 0 .. n - 1 : k \in T => k + 1 \in T
    PROVE  0 .. n \subseteq T
<1> SUFFICES ASSUME (0 .. n) \ T # {} PROVE FALSE
  OBVIOUS
<1> DEFINE U == (0 .. n) \ T
<1>0. U \subseteq Nat /\ U # {}
  OBVIOUS
<1>1. PICK m \in U : \A k \in U : m <= k
  <2> HIDE DEF U
  <2> QED
    BY <1>0, LeastNumber
<1>2. m # 0 /\ m - 1 \in 0 .. n - 1
  BY <1>1
<1>3. m - 1 \in T
  BY <1>1, <1>2
<1>4. (m - 1) + 1 \in T
  BY <1>2, <1>3
<1> QED
  BY <1>1, <1>4

\* Induction over all numbers.
LEMMA InductionAll ==
    ASSUME NEW T, 0 \in T, \A k \in Nat : k \in T => k + 1 \in T
    PROVE  Nat \subseteq T
<1> SUFFICES ASSUME NEW n \in Nat PROVE n \in T
  OBVIOUS
<1> QED
  BY InductionUpTo


\* f is the run of h from s0: h[k] is the k-th step.
IsRun(f, s0, n, h) == f[0] = s0 /\ \A k \in 1 .. n : f[k] = h[k][f[k - 1]]

\* From every state, the steps have a run.
LEMMA RunExists ==
    ASSUME NEW S, NEW s0 \in S, NEW n \in Nat, NEW h \in [1 .. n -> [S -> S]]
    PROVE  \E f \in [0 .. n -> S] : IsRun(f, s0, n, h)
<1> DEFINE P(m, f) == f[0] = s0 /\ \A k \in 1 .. m : f[k] = h[k][f[k - 1]]
           T == {m \in 0 .. n : \E f \in [0 .. m -> S] : P(m, f)}
<1>1. 0 \in T
  <2>1. [k \in 0 .. 0 |-> s0] \in [0 .. 0 -> S] /\ P(0, [k \in 0 .. 0 |-> s0])
    OBVIOUS
  <2>2. 0 \in 0 .. n
    OBVIOUS
  <2> HIDE DEF P
  <2> QED
    BY <2>1, <2>2
<1>2. ASSUME NEW m \in 0 .. n - 1, m \in T
      PROVE  m + 1 \in T
  <2>1. PICK f \in [0 .. m -> S] : P(m, f)
    BY <1>2
  <2> DEFINE g == [k \in 0 .. m + 1 |-> IF k = m + 1 THEN h[m + 1][f[m]] ELSE f[k]]
  <2>2. f[m] \in S /\ h[m + 1][f[m]] \in S
    OBVIOUS
  <2>3. g \in [0 .. m + 1 -> S]
    BY <2>2
  <2>4. g[0] = s0
    BY <2>1
  <2>5. ASSUME NEW k \in 1 .. m + 1
        PROVE  g[k] = h[k][g[k - 1]]
    BY <2>1
  <2>6. m + 1 \in 0 .. n
    OBVIOUS
  <2> QED
    BY <2>3, <2>4, <2>5, <2>6
<1>3. n \in T
  <2> HIDE DEF T
  <2>1. 0 .. n \subseteq T
    BY <1>1, <1>2, InductionUpTo
  <2> QED
    BY <2>1
<1> QED
  BY <1>3 DEF IsRun

\* The largest of some of the numbers up to n.
LEMMA LargestOf ==
    ASSUME NEW n \in Nat, NEW s \in SUBSET (1 .. n), s # {}
    PROVE  /\ Max(s) \in s /\ \A k \in s : k <= Max(s)
           /\ \A m \in s : (\A k \in s : k <= m) => Max(s) = m
<1> DEFINE T == {n - k : k \in s}
<1>1. T \subseteq Nat /\ T # {}
  <2>1. \A k \in s : k \in 1 .. n /\ n - k \in Nat
    OBVIOUS
  <2>2. PICK k \in s : TRUE
    OBVIOUS
  <2>3. n - k \in T
    OBVIOUS
  <2> QED
    BY <2>1, <2>3
<1>2. PICK d \in T : \A m \in T : d <= m
  <2> HIDE DEF T
  <2> QED
    BY <1>1, LeastNumber
<1>3. \E m \in s : \A k \in s : k <= m
  <2>1. PICK m \in s : d = n - m
    BY <1>2
  <2>2. ASSUME NEW k \in s PROVE k <= m
    <3>1. n - k \in T
      OBVIOUS
    <3>2. d <= n - k
      BY <1>2, <3>1
    <3> QED
      BY <2>1, <3>2
  <2> QED
    BY <2>2
<1>4. Max(s) \in s /\ \A k \in s : k <= Max(s)
  BY <1>3 DEF Max
<1>5. ASSUME NEW m \in s, \A k \in s : k <= m
      PROVE  Max(s) = m
  <2>0. \A k \in s : k \in Nat
    OBVIOUS
  <2>1. Max(s) <= m /\ m <= Max(s) /\ m \in Nat /\ Max(s) \in Nat
    BY <1>4, <1>5, <2>0
  <2> QED
    BY <2>1
<1> QED
  BY <1>4, <1>5

\* it is a function by which MapThenFoldSet may recurse.
IsFold(it, b, n, h) ==
    it = [s \in SUBSET (1 .. n) |-> IF s = {} THEN b ELSE h[Max(s)][it[s \ {Max(s)}]]]

\* The function by which MapThenFoldSet recurses exists.
LEMMA FoldExists ==
    ASSUME NEW S, NEW b \in S, NEW n \in Nat, NEW h \in [1 .. n -> [S -> S]]
    PROVE  \E it \in [SUBSET (1 .. n) -> S] : IsFold(it, b, n, h)
<1> DEFINE D == SUBSET (1 .. n)
           X == [D -> S]
           w0 == [s \in D |-> b]
           g == [k \in 1 .. n |-> [w \in X |-> [s \in D |-> IF k \in s THEN h[k][w[s]] ELSE w[s]]]]
<1>1. w0 \in X
  OBVIOUS
<1>2. g \in [1 .. n -> [X -> X]]
  <2>1. ASSUME NEW k \in 1 .. n, NEW w \in X
        PROVE  [s \in D |-> IF k \in s THEN h[k][w[s]] ELSE w[s]] \in X
    <3>1. h[k] \in [S -> S] /\ \A s \in D : w[s] \in S
      OBVIOUS
    <3>2. \A s \in D : h[k][w[s]] \in S
      BY <3>1
    <3> HIDE DEF D
    <3> QED
      BY <3>1, <3>2
  <2> HIDE DEF X, D
  <2> QED
    BY <2>1
<1>3a. PICK f \in [0 .. n -> X] : IsRun(f, w0, n, g)
  <2> HIDE DEF X, w0, g, D
  <2> QED
    BY <1>1, <1>2, RunExists
<1>3. f[0] = w0 /\ \A k \in 1 .. n : f[k] = g[k][f[k - 1]]
  BY <1>3a DEF IsRun
<1>4. ASSUME NEW k \in 1 .. n, NEW s \in D
      PROVE  /\ f[k] \in X /\ f[k - 1] \in X
             /\ f[k][s] = IF k \in s THEN h[k][f[k - 1][s]] ELSE f[k - 1][s]
  <2>1. f[k] \in X /\ f[k - 1] \in X
    <3>1. k \in 0 .. n /\ k - 1 \in 0 .. n
      OBVIOUS
    <3> HIDE DEF X
    <3> QED
      BY <3>1
  <2>2. f[k] = [r \in D |-> IF k \in r THEN h[k][f[k - 1][r]] ELSE f[k - 1][r]]
    BY <1>3, <2>1
  <2> QED
    BY <2>1, <2>2
<1>5. \A s \in D : f[0][s] = b
  BY <1>3
<1> HIDE DEF g, w0
\* Nothing changes after the largest element.
<1>6. ASSUME NEW s \in D, NEW m \in 0 .. n, \A k \in s : k <= m
      PROVE  f[n][s] = f[m][s]
  <2> DEFINE T == {i \in 0 .. n - m : f[m + i][s] = f[m][s]}
  <2>1. 0 \in T
    OBVIOUS
  <2>2. ASSUME NEW i \in 0 .. (n - m) - 1, i \in T
        PROVE  i + 1 \in T
    <3>1. m + i + 1 \in 1 .. n /\ m + i + 1 \notin s
      BY <1>6
    <3>2. f[m + i + 1][s] = f[(m + i + 1) - 1][s]
      BY <1>4, <3>1
    <3> QED
      BY <2>2, <3>2
  <2>3. 0 .. n - m \subseteq T
    <3>1. n - m \in Nat
      OBVIOUS
    <3> HIDE DEF T
    <3> QED
      BY <2>1, <2>2, <3>1, InductionUpTo
  <2>4. n - m \in T
    BY <2>3
  <2> QED
    BY <2>4
\* What is left out above decides nothing below.
<1>7. ASSUME NEW s \in D, NEW r \in D, NEW m \in 0 .. n,
             \A k \in 1 .. m : k \in s <=> k \in r
      PROVE  f[m][s] = f[m][r]
  <2> DEFINE T == {i \in 0 .. m : f[i][s] = f[i][r]}
  <2>1. 0 \in T
    BY <1>5
  <2>2. ASSUME NEW i \in 0 .. m - 1, i \in T
        PROVE  i + 1 \in T
    <3>1. i + 1 \in 1 .. n /\ (i + 1 \in s <=> i + 1 \in r) /\ (i + 1) - 1 = i
      BY <1>7
    <3> DEFINE j == i + 1
    <3>2. /\ f[j][s] = IF j \in s THEN h[j][f[j - 1][s]] ELSE f[j - 1][s]
          /\ f[j][r] = IF j \in r THEN h[j][f[j - 1][r]] ELSE f[j - 1][r]
      <4> HIDE DEF D, X
      <4> QED
        BY <1>4, <3>1
    <3> QED
      BY <2>2, <3>1, <3>2
  <2>3. 0 .. m \subseteq T
    <3>1. m \in Nat
      OBVIOUS
    <3> HIDE DEF T
    <3> QED
      BY <2>1, <2>2, <3>1, InductionUpTo
  <2> QED
    BY <2>3
<1>8. f[n] \in [D -> S]
  <2>1. n \in 0 .. n
    OBVIOUS
  <2>2. f[n] \in X
    <3> HIDE DEF X
    <3> QED
      BY <2>1
  <2> QED
    BY <2>2
<1>9. ASSUME NEW s \in D, s # {}
      PROVE  f[n][s] = h[Max(s)][f[n][s \ {Max(s)}]]
  <2>1. Max(s) \in s /\ Max(s) \in 1 .. n /\ \A k \in s : k <= Max(s)
    BY <1>9, LargestOf
  <2>2. PICK m \in 1 .. n : m = Max(s)
    BY <2>1
  <2> DEFINE r == s \ {m}
  <2>3. f[n][s] = f[m][s]
    <3>1. m \in 0 .. n /\ \A k \in s : k <= m
      BY <2>1, <2>2
    <3> HIDE DEF D, X
    <3> QED
      BY <1>6, <3>1
  <2>4. f[m][s] = h[m][f[m - 1][s]]
    BY <1>4, <2>1, <2>2
  <2>5. r \in D /\ m - 1 \in 0 .. n /\ \A k \in 1 .. m - 1 : k \in s <=> k \in r
    OBVIOUS
  <2>6. \A k \in r : k <= m - 1
    BY <2>1, <2>2
  <2> HIDE DEF r
  <2>7. f[m - 1][s] = f[m - 1][r]
    BY <1>7, <2>5
  <2>8. f[n][r] = f[m - 1][r]
    BY <1>6, <2>5, <2>6
  <2> QED
    BY <2>2, <2>3, <2>4, <2>7, <2>8 DEF r
<1>10. f[n][{}] = b
  <2>1. {} \in D /\ 0 \in 0 .. n
    OBVIOUS
  <2> QED
    BY <1>5, <1>6, <2>1
<1>11. \A s \in D : f[n][s] = IF s = {} THEN b ELSE h[Max(s)][f[n][s \ {Max(s)}]]
  BY <1>9, <1>10
<1>12. f[n] = [s \in D |-> IF s = {} THEN b ELSE h[Max(s)][f[n][s \ {Max(s)}]]]
  <2>1. PICK e : e = f[n]
    OBVIOUS
  <2>2. e \in [D -> S] /\ \A s \in D : e[s] = IF s = {} THEN b ELSE h[Max(s)][e[s \ {Max(s)}]]
    BY <1>8, <1>11, <2>1
  <2>3. e = [s \in D |-> e[s]]
    BY <2>2
  <2> QED
    BY <2>1, <2>2, <2>3
<1> QED
  BY <1>8, <1>12 DEF IsFold

\* A prefix of the numbers up to n, its largest, and the prefix before it.
LEMMA PrefixOf ==
    ASSUME NEW n \in Nat, NEW k \in 1 .. n
    PROVE  /\ 1 .. k \in SUBSET (1 .. n) /\ 1 .. k # {} /\ Max(1 .. k) = k
           /\ (1 .. k) \ {k} = 1 .. (k - 1)
<1>1. 1 .. k \in SUBSET (1 .. n) /\ k \in 1 .. k /\ \A i \in 1 .. k : i <= k
  OBVIOUS
<1>2. Max(1 .. k) = k
  BY <1>1, LargestOf
<1>3. (1 .. k) \ {k} = 1 .. (k - 1)
  OBVIOUS
<1> QED
  BY <1>1, <1>2, <1>3

\* it gives prefixes what the steps give, as far as they stay in S.
Follows(it, S, b, n, h) ==
    /\ it[{}] = b
    /\ \A k \in 1 .. n : it[1 .. (k - 1)] \in S => it[1 .. k] = h[k][it[1 .. (k - 1)]]

\* A fold is a run of its steps.
LEMMA FoldIsRun ==
    ASSUME NEW S, NEW b \in S, NEW n \in Nat, NEW h \in [1 .. n -> [S -> S]], NEW it,
           Follows(it, S, b, n, h)
    PROVE  \E f \in [0 .. n -> S] : IsRun(f, b, n, h) /\ it[1 .. n] = f[n]
<1>1. PICK f \in [0 .. n -> S] : IsRun(f, b, n, h)
  BY RunExists
<1> DEFINE T == {k \in 0 .. n : it[1 .. k] = f[k]}
<1>2. 0 \in T
  <2>1. 1 .. 0 = {} /\ 0 \in 0 .. n
    OBVIOUS
  <2> QED
    BY <1>1, <2>1 DEF IsRun, Follows
<1>3. ASSUME NEW k \in 0 .. n - 1, k \in T
      PROVE  k + 1 \in T
  <2>1. PICK j \in 1 .. n : j = k + 1
    OBVIOUS
  <2>2. j - 1 = k /\ j \in 0 .. n /\ k \in 0 .. n /\ it[1 .. k] = f[k] /\ f[k] \in S
    BY <1>3, <2>1
  <2>3. it[1 .. j] = h[j][f[j - 1]]
    <3>1. it[1 .. (j - 1)] = f[j - 1] /\ f[j - 1] \in S
      BY <2>2
    <3> QED
      BY <3>1 DEF Follows
  <2>4. f[j] = h[j][f[j - 1]]
    BY <1>1 DEF IsRun
  <2> QED
    BY <2>1, <2>2, <2>3, <2>4
<1>4. n \in T
  <2> HIDE DEF T
  <2>1. 0 .. n \subseteq T
    BY <1>2, <1>3, InductionUpTo
  <2> QED
    BY <2>1
<1> QED
  BY <1>1, <1>4

-----------------------------------------------------------------------------
(* Sums over finite sets, as MapThenSumSet takes them: some element first.   *)

\* Induction over the subsets of a finite set, for a set P of them in the place
\* of a predicate.
LEMMA SetInduction ==
    ASSUME NEW S, IsFiniteSet(S), NEW P, {} \in P,
           \A s \in SUBSET S : \A x \in S \ s : s \in P => s \union {x} \in P
    PROVE  S \in P
<1> SUFFICES ASSUME S \notin P PROVE FALSE
  OBVIOUS
<1> DEFINE U == {n \in 0 .. Cardinality(S) : \E s \in SUBSET S : s \notin P /\ Cardinality(s) = n}
<1>1. Cardinality(S) \in Nat
  BY FS_CardinalityType
<1>2. U \subseteq Nat /\ Cardinality(S) \in U
  BY <1>1
<1>3. PICK n \in U : \A m \in U : n <= m
  <2> HIDE DEF U
  <2> QED
    BY <1>2, LeastNumber
<1>4. PICK s \in SUBSET S : s \notin P /\ Cardinality(s) = n
  BY <1>3
<1>5. PICK x \in s : TRUE
  BY <1>4
<1>6. IsFiniteSet(s) /\ IsFiniteSet(s \ {x}) /\ Cardinality(s \ {x}) = n - 1
  BY <1>4, <1>5, FS_Subset, FS_RemoveElement
<1>7. Cardinality(s \ {x}) \in Nat
  BY <1>6, FS_CardinalityType
<1>8. s \ {x} \notin P
  <2>1. x \in S \ (s \ {x}) /\ s \ {x} \in SUBSET S /\ (s \ {x}) \union {x} = s
    BY <1>5
  <2> QED
    BY <1>4, <2>1
<1>9. n - 1 \in U
  <2>1. n - 1 \in 0 .. Cardinality(S)
    BY <1>1, <1>3, <1>6, <1>7
  <2>2. s \ {x} \in SUBSET S
    OBVIOUS
  <2> QED
    BY <1>6, <1>8, <2>1, <2>2
<1>10. n <= n - 1 /\ n \in Nat
  <2> HIDE DEF U
  <2> QED
    BY <1>2, <1>3, <1>9
<1> QED
  BY <1>10

\* An element of s.
AnyOf(s) == CHOOSE x \in s : TRUE

\* f gives numbers on S.
Numbers(f, S) == \A x \in S : f[x] \in Int

\* f and g agree on S.
Agree(f, g, S) == \A x \in S : f[x] = g[x]

\* it gives each subset of S the sum of f over it.
IsSum(it, S, f) ==
    it = [s \in SUBSET S |-> IF s = {} THEN 0 ELSE f[AnyOf(s)] + it[s \ {AnyOf(s)}]]

\* Some element of a set that has one.
LEMMA AnyIsIn ==
    ASSUME NEW s, s # {}
    PROVE  AnyOf(s) \in s
BY DEF AnyOf

\* The function by which MapThenSumSet recurses exists.
LEMMA SumExists ==
    ASSUME NEW S, IsFiniteSet(S), NEW f, Numbers(f, S)
    PROVE  \E it \in [SUBSET S -> Int] : IsSum(it, S, f)
<1> DEFINE D == SUBSET S
           X == [D -> Int]
           Next1(w) == [s \in D |-> IF s = {} THEN 0 ELSE f[AnyOf(s)] + w[s \ {AnyOf(s)}]]
           n == Cardinality(S) + 1
           h == [k \in 1 .. n |-> [w \in X |-> Next1(w)]]
           w0 == [s \in D |-> 0]
<1>0. Cardinality(S) \in Nat /\ n \in Nat /\ w0 \in X
  BY FS_CardinalityType
<1>1. \A w \in X : Next1(w) \in X
  <2>1. ASSUME NEW w \in X, NEW s \in D, s # {}
        PROVE  f[AnyOf(s)] + w[s \ {AnyOf(s)}] \in Int
    <3>1. AnyOf(s) \in S /\ s \ {AnyOf(s)} \in D
      BY <2>1, AnyIsIn
    <3>2. w[s \ {AnyOf(s)}] \in Int /\ f[AnyOf(s)] \in Int
      BY <3>1 DEF Numbers
    <3> QED
      BY <3>2
  <2> HIDE DEF D
  <2> QED
    BY <2>1
<1>2. PICK g \in [0 .. n -> X] : IsRun(g, w0, n, h)
  <2>1. h \in [1 .. n -> [X -> X]]
    <3> HIDE DEF X, n, Next1
    <3> QED
      BY <1>1
  <2> HIDE DEF h, n, w0, X
  <2> QED
    BY <1>0, <2>1, RunExists
<1>3. g[0] = w0 /\ \A k \in 1 .. n : g[k] = Next1(g[k - 1]) /\ g[k] \in X /\ g[k - 1] \in X
  <2>1. ASSUME NEW k \in 1 .. n PROVE g[k] = Next1(g[k - 1]) /\ g[k] \in X /\ g[k - 1] \in X
    <3>1. k \in 0 .. n /\ k - 1 \in 0 .. n
      BY <1>0
    <3>2. g[k] = h[k][g[k - 1]] /\ g[k] \in X /\ g[k - 1] \in X
      <4> HIDE DEF h, X, n
      <4> QED
        BY <1>2, <2>1, <3>1 DEF IsRun
    <3> HIDE DEF X, n, Next1
    <3> QED
      BY <3>2
  <2> HIDE DEF h, X, n, Next1, w0
  <2> QED
    BY <1>2, <2>1 DEF IsRun
<1> HIDE DEF h
\* A step changes nothing for the smaller sets.
<1> DEFINE T == {k \in 0 .. Cardinality(S) :
                   \A s \in D : Cardinality(s) <= k => g[k + 1][s] = g[k][s]}
<1>4. 0 \in T
  <2>1. ASSUME NEW s \in D, Cardinality(s) <= 0 PROVE g[1][s] = g[0][s]
    <3>1. IsFiniteSet(s) /\ Cardinality(s) \in Nat
      BY FS_Subset, FS_CardinalityType
    <3>2. s = {}
      BY <2>1, <3>1, FS_EmptySet
    <3>3. g[1] = Next1(g[0])
      <4>1. 1 \in 1 .. n /\ 1 - 1 = 0
        BY <1>0
      <4> HIDE DEF Next1, n
      <4> QED
        BY <1>3, <4>1
    <3>4. g[1][s] = 0
      BY <3>2, <3>3
    <3> QED
      BY <1>3, <3>4
  <2> QED
    BY <1>0, <2>1
<1>5. ASSUME NEW k \in 0 .. Cardinality(S) - 1, k \in T PROVE k + 1 \in T
  <2>1. PICK j \in 1 .. Cardinality(S) : j = k + 1
    BY <1>0
  <2>2. j + 1 \in 1 .. n /\ j \in 1 .. n /\ j - 1 = k /\ (j + 1) - 1 = j
    BY <1>0, <2>1
  <2>3. g[j + 1] = Next1(g[j]) /\ g[j] = Next1(g[k])
    <3> HIDE DEF Next1, n
    <3>1. g[j + 1] = Next1(g[(j + 1) - 1]) /\ g[j] = Next1(g[j - 1])
      BY <1>3, <2>2
    <3> QED
      BY <2>2, <3>1
  <2>4. ASSUME NEW s \in D, Cardinality(s) <= j PROVE g[j + 1][s] = g[j][s]
    <3>1. CASE s = {}
      <4>1. g[j + 1][s] = 0 /\ g[j][s] = 0
        BY <2>3, <3>1
      <4> QED
        BY <4>1
    <3>2. CASE s # {}
      <4>1. AnyOf(s) \in s
        BY <3>2, AnyIsIn
      <4>2. PICK x \in s : x = AnyOf(s)
        BY <4>1
      <4>3. IsFiniteSet(s) /\ Cardinality(s \ {x}) = Cardinality(s) - 1 /\ Cardinality(s) \in Nat
        BY FS_Subset, FS_RemoveElement, FS_CardinalityType
      <4>4. Cardinality(s \ {x}) <= k /\ s \ {x} \in D
        BY <2>1, <2>4, <4>3
      <4>5. g[j][s \ {x}] = g[k][s \ {x}]
        BY <1>5, <2>1, <4>4
      <4>6. /\ g[j + 1][s] = f[x] + g[j][s \ {x}]
            /\ g[j][s] = f[x] + g[k][s \ {x}]
        BY <2>3, <3>2, <4>2
      <4> QED
        BY <4>5, <4>6
    <3> QED
      BY <3>1, <3>2
  <2> QED
    BY <1>0, <2>1, <2>4
<1>6. Cardinality(S) \in T
  <2> HIDE DEF T
  <2>1. 0 .. Cardinality(S) \subseteq T
    BY <1>0, <1>4, <1>5, InductionUpTo
  <2> QED
    BY <1>0, <2>1
<1>7. PICK it \in X : it = g[Cardinality(S)]
  <2>1. Cardinality(S) \in 0 .. n
    BY <1>0
  <2> HIDE DEF X, n
  <2> QED
    BY <2>1
<1>8. IsSum(it, S, f)
  <2>1. n \in 1 .. n /\ n - 1 = Cardinality(S) /\ Cardinality(S) + 1 = n
    BY <1>0
  <2>2. g[n] = Next1(it) /\ g[n] \in X
    BY <1>3, <1>7, <2>1
  <2>3. \A s \in D : g[n][s] = it[s]
    <3>1. ASSUME NEW s \in D PROVE Cardinality(s) <= Cardinality(S)
      BY FS_Subset
    <3> QED
      BY <1>6, <1>7, <3>1
  <2>4. g[n] = it
    <3> HIDE DEF n
    <3> QED
      BY <2>2, <2>3
  <2> QED
    BY <2>2, <2>4 DEF IsSum
<1> QED
  BY <1>7, <1>8

\* it grows by f[x] with each x.
Adds(it, S, f) ==
    /\ it[{}] = 0
    /\ \A s \in SUBSET S : \A x \in S \ s : it[s \union {x}] = it[s] + f[x]

\* The order in which the elements are taken does not matter.
LEMMA SumTakesAny ==
    ASSUME NEW S, IsFiniteSet(S), NEW f, Numbers(f, S),
           NEW it \in [SUBSET S -> Int], IsSum(it, S, f)
    PROVE  Adds(it, S, f)
<1> DEFINE T == {k \in 0 .. Cardinality(S) :
                   \A s \in SUBSET S : \A x \in S \ s :
                      Cardinality(s) = k => it[s \union {x}] = it[s] + f[x]}
<1>0. Cardinality(S) \in Nat
  BY FS_CardinalityType
<1>1. /\ it[{}] = 0
      /\ \A s \in SUBSET S : s # {} => it[s] = f[AnyOf(s)] + it[s \ {AnyOf(s)}]
  BY DEF IsSum
<1>2. ASSUME NEW s \in SUBSET S PROVE it[s] \in Int
  OBVIOUS
<1>3. 0 \in T
  <2>1. ASSUME NEW s \in SUBSET S, NEW x \in S \ s, Cardinality(s) = 0
        PROVE  it[s \union {x}] = it[s] + f[x]
    <3>1. s = {}
      BY <2>1, FS_Subset, FS_EmptySet
    <3>2. AnyOf({x}) = x /\ {x} \ {x} = {} /\ {x} \in SUBSET S
      BY AnyIsIn
    <3>3. it[{x}] = f[x] + 0 /\ f[x] \in Int
      BY <1>1, <3>2 DEF Numbers
    <3> QED
      BY <1>1, <3>1, <3>3
  <2> QED
    BY <1>0, <2>1
<1>4. ASSUME NEW k \in 0 .. Cardinality(S) - 1, k \in T PROVE k + 1 \in T
  <2>1. ASSUME NEW s \in SUBSET S, NEW x \in S \ s, Cardinality(s) = k + 1
        PROVE  it[s \union {x}] = it[s] + f[x]
    <3>1. PICK u \in SUBSET S : u = s \union {x}
      OBVIOUS
    <3>2. PICK y \in u : y = AnyOf(u)
      BY <3>1, AnyIsIn
    <3>3. it[u] = f[y] + it[u \ {y}]
      BY <1>1, <3>1, <3>2
    <3>4. CASE y = x
      <4>1. u \ {y} = s
        BY <3>1, <3>4
      <4>2. it[u] = f[x] + it[s] /\ it[s] \in Int /\ f[x] \in Int
        BY <1>2, <3>3, <3>4, <4>1 DEF Numbers
      <4> QED
        BY <3>1, <4>2
    <3>5. CASE y # x
      <4>1. y \in s /\ u \ {y} = (s \ {y}) \union {x} /\ (s \ {y}) \union {y} = s
        BY <3>1, <3>2, <3>5
      <4>2. IsFiniteSet(s) /\ Cardinality(s \ {y}) = Cardinality(s) - 1
        BY <4>1, FS_Subset, FS_RemoveElement
      <4>3. PICK r \in SUBSET S : r = s \ {y}
        OBVIOUS
      <4>4. Cardinality(r) = k /\ x \in S \ r /\ y \in S \ r
        BY <1>0, <2>1, <4>1, <4>2, <4>3
      <4>5. it[r \union {x}] = it[r] + f[x] /\ it[r \union {y}] = it[r] + f[y]
        BY <1>4, <4>4
      <4>6. it[u] = f[y] + (it[r] + f[x]) /\ it[s] = it[r] + f[y]
        BY <3>3, <4>1, <4>3, <4>5
      <4>7. it[r] \in Int /\ f[x] \in Int /\ f[y] \in Int
        BY <1>2, <4>4 DEF Numbers
      <4> QED
        BY <3>1, <4>6, <4>7
    <3> QED
      BY <3>4, <3>5
  <2> QED
    BY <1>0, <2>1
<1>5. 0 .. Cardinality(S) \subseteq T
  <2> HIDE DEF T
  <2> QED
    BY <1>0, <1>3, <1>4, InductionUpTo
<1>6. ASSUME NEW s \in SUBSET S, NEW x \in S \ s PROVE it[s \union {x}] = it[s] + f[x]
  <2>1. Cardinality(s) \in 0 .. Cardinality(S)
    BY <1>0, FS_Subset, FS_CardinalityType
  <2>2. Cardinality(s) \in T
    BY <1>5, <2>1
  <2> QED
    BY <2>2
<1> QED
  BY <1>1, <1>6 DEF Adds

\* The sum of f over a set.
SumOf(f, S) == (CHOOSE it \in [SUBSET S -> Int] : IsSum(it, S, f))[S]

\* it sums f up, over the subsets of a finite set.
Sums(it, S, f) == IsFiniteSet(S) /\ Numbers(f, S) /\ it \in [SUBSET S -> Int] /\ IsSum(it, S, f)

\* Two functions that agree on a set have the same sums over it.
LEMMA SumsAgree ==
    ASSUME NEW S, NEW f, NEW it, Sums(it, S, f), NEW R, NEW g, NEW jt, Sums(jt, R, g),
           R \subseteq S, Agree(f, g, R)
    PROVE  it[R] = jt[R]
<1> DEFINE P == {u \in SUBSET R : it[u] = jt[u]}
<1>1. Adds(it, S, f)
  BY SumTakesAny DEF Sums
<1>2. Adds(jt, R, g)
  BY SumTakesAny DEF Sums
<1>3. {} \in P
  BY <1>1, <1>2 DEF Adds
<1>4. ASSUME NEW u \in SUBSET R, NEW x \in R \ u, u \in P PROVE u \union {x} \in P
  <2>1. it[u \union {x}] = it[u] + f[x] /\ jt[u \union {x}] = jt[u] + g[x]
    BY <1>1, <1>2 DEF Adds
  <2> QED
    BY <1>4, <2>1 DEF Agree
<1>5. IsFiniteSet(R)
  BY DEF Sums
<1>6. R \in P
  <2> HIDE DEF P
  <2> QED
    BY <1>3, <1>4, <1>5, SetInduction
<1> QED
  BY <1>6

\* What SumOf is.
LEMMA SumOfIs ==
    ASSUME NEW S, IsFiniteSet(S), NEW f, Numbers(f, S)
    PROVE  \E it : Sums(it, S, f) /\ SumOf(f, S) = it[S]
<1> DEFINE it == CHOOSE it \in [SUBSET S -> Int] : IsSum(it, S, f)
<1>1. it \in [SUBSET S -> Int] /\ IsSum(it, S, f)
  BY SumExists
<1>2. SumOf(f, S) = it[S]
  BY DEF SumOf
<1> HIDE DEF it
<1> QED
  BY <1>1, <1>2 DEF Sums

\* The sum over nothing, over one element more, and over what f and g agree on.
LEMMA SumFacts ==
    ASSUME NEW S, IsFiniteSet(S), NEW f, Numbers(f, S)
    PROVE  /\ SumOf(f, S) \in Int
           /\ S = {} => SumOf(f, S) = 0
           /\ \A x \in S : SumOf(f, S) = SumOf(f, S \ {x}) + f[x]
           /\ \A g : Agree(f, g, S) => SumOf(f, S) = SumOf(g, S)
<1>1. PICK it : Sums(it, S, f) /\ SumOf(f, S) = it[S]
  BY SumOfIs
<1>2. Adds(it, S, f)
  BY <1>1, SumTakesAny DEF Sums
<1>3. SumOf(f, S) \in Int /\ (S = {} => SumOf(f, S) = 0)
  <2>1. S \in SUBSET S
    OBVIOUS
  <2> QED
    BY <1>1, <1>2, <2>1 DEF Adds, Sums
<1>4. ASSUME NEW x \in S PROVE SumOf(f, S) = SumOf(f, S \ {x}) + f[x]
  <2>1. PICK R \in SUBSET S : R = S \ {x}
    OBVIOUS
  <2>2. IsFiniteSet(R) /\ Numbers(f, R)
    BY FS_Subset DEF Numbers
  <2>3. PICK jt : Sums(jt, R, f) /\ SumOf(f, R) = jt[R]
    BY <2>2, SumOfIs
  <2>4. it[R] = jt[R]
    <3>1. Agree(f, f, R)
      BY DEF Agree
    <3> QED
      BY <1>1, <2>3, <3>1, SumsAgree
  <2>5. x \in S \ R /\ R \union {x} = S
    BY <2>1
  <2>6. it[S] = it[R] + f[x]
    BY <1>2, <2>5 DEF Adds
  <2> QED
    BY <1>1, <2>1, <2>3, <2>4, <2>6
<1>5. ASSUME NEW g, Agree(f, g, S) PROVE SumOf(f, S) = SumOf(g, S)
  <2>1. Numbers(g, S)
    BY <1>5 DEF Numbers, Agree
  <2>2. PICK jt : Sums(jt, S, g) /\ SumOf(g, S) = jt[S]
    BY <2>1, SumOfIs
  <2>3. it[S] = jt[S]
    BY <1>1, <1>5, <2>2, SumsAgree
  <2> QED
    BY <1>1, <2>2, <2>3
<1> QED
  BY <1>3, <1>4, <1>5

\* One element more.
LEMMA SumGrows ==
    ASSUME NEW S, IsFiniteSet(S), NEW x, x \notin S, NEW f, Numbers(f, S \union {x})
    PROVE  SumOf(f, S \union {x}) = SumOf(f, S) + f[x]
<1>1. IsFiniteSet(S \union {x}) /\ (S \union {x}) \ {x} = S /\ x \in S \union {x}
  BY FS_AddElement
<1> QED
  BY <1>1, SumFacts

\* There is only one.
LEMMA SumUnique ==
    ASSUME NEW S, IsFiniteSet(S), NEW f, NEW it, IsSum(it, S, f), NEW jt, IsSum(jt, S, f)
    PROVE  it[S] = jt[S]
<1> DEFINE T == {k \in 0 .. Cardinality(S) : \A s \in SUBSET S : Cardinality(s) = k => it[s] = jt[s]}
<1>0. Cardinality(S) \in Nat
  BY FS_CardinalityType
<1>1. \A s \in SUBSET S :
         /\ s = {} => it[s] = 0 /\ jt[s] = 0
         /\ s # {} => /\ it[s] = f[AnyOf(s)] + it[s \ {AnyOf(s)}]
                      /\ jt[s] = f[AnyOf(s)] + jt[s \ {AnyOf(s)}]
  BY DEF IsSum
<1>2. 0 \in T
  <2>1. ASSUME NEW s \in SUBSET S, Cardinality(s) = 0 PROVE it[s] = jt[s]
    BY <1>1, <2>1, FS_Subset, FS_EmptySet
  <2> QED
    BY <1>0, <2>1
<1>3. ASSUME NEW k \in 0 .. Cardinality(S) - 1, k \in T PROVE k + 1 \in T
  <2>1. ASSUME NEW s \in SUBSET S, Cardinality(s) = k + 1 PROVE it[s] = jt[s]
    <3>1. s # {}
      BY <1>0, <2>1, FS_EmptySet
    <3>2. PICK x \in s : x = AnyOf(s)
      BY <3>1, AnyIsIn
    <3>3. IsFiniteSet(s) /\ Cardinality(s \ {x}) = Cardinality(s) - 1
      BY FS_Subset, FS_RemoveElement
    <3>4. Cardinality(s \ {x}) = k
      BY <1>0, <2>1, <3>3
    <3>5. PICK r \in SUBSET S : r = s \ {x}
      OBVIOUS
    <3>6. it[r] = jt[r]
      BY <1>3, <3>4, <3>5
    <3>7. it[s] = f[x] + it[r] /\ jt[s] = f[x] + jt[r]
      BY <1>1, <3>1, <3>2, <3>5
    <3> QED
      BY <3>6, <3>7
  <2> QED
    BY <1>0, <2>1
<1>4. Cardinality(S) \in T
  <2> HIDE DEF T
  <2>1. 0 .. Cardinality(S) \subseteq T
    BY <1>0, <1>2, <1>3, InductionUpTo
  <2> QED
    BY <1>0, <2>1
<1> QED
  BY <1>4

\* MapThenSumSet takes the sum.
LEMMA TotalOf ==
    ASSUME NEW S, IsFiniteSet(S), NEW f, Numbers(f, S)
    PROVE  MapThenSumSet(LAMBDA i : f[i], S) = SumOf(f, S)
<1> DEFINE iter == CHOOSE it : IsSum(it, S, f)
<1>1. PICK jt \in [SUBSET S -> Int] : IsSum(jt, S, f)
  BY SumExists
<1>2. IsSum(iter, S, f)
  BY <1>1
<1>3. MapThenSumSet(LAMBDA i : f[i], S) = iter[S]
  BY DEF MapThenSumSet, MapThenFoldSet, IsSum, AnyOf
<1> HIDE DEF iter
<1>4. PICK kt : Sums(kt, S, f) /\ SumOf(f, S) = kt[S]
  BY SumOfIs
<1>5. iter[S] = kt[S]
  BY <1>2, <1>4, SumUnique DEF Sums
<1> QED
  BY <1>3, <1>4, <1>5

\* The sums of the smaller numbers are the smaller, and the sum of a sum is
\* the sum of the sums.
LEMMA SumsCompare ==
    ASSUME NEW S, IsFiniteSet(S), NEW f, Numbers(f, S), NEW g, Numbers(g, S)
    PROVE  /\ (\A x \in S : f[x] <= g[x]) => SumOf(f, S) <= SumOf(g, S)
           /\ \A h : (\A x \in S : h[x] = f[x] + g[x]) => SumOf(h, S) = SumOf(f, S) + SumOf(g, S)
<1>1. ASSUME \A x \in S : f[x] <= g[x]
      PROVE  SumOf(f, S) <= SumOf(g, S)
  <2> DEFINE P == {u \in SUBSET S : SumOf(f, u) <= SumOf(g, u)}
  <2>1. {} \in P
    <3>1. IsFiniteSet({}) /\ Numbers(f, {}) /\ Numbers(g, {})
      BY FS_EmptySet DEF Numbers
    <3>2. SumOf(f, {}) = 0 /\ SumOf(g, {}) = 0
      BY <3>1, SumFacts
    <3> QED
      BY <3>2
  <2>2. ASSUME NEW u \in SUBSET S, NEW x \in S \ u, u \in P PROVE u \union {x} \in P
    <3>1. /\ IsFiniteSet(u) /\ Numbers(f, u \union {x}) /\ Numbers(g, u \union {x})
          /\ Numbers(f, u) /\ Numbers(g, u)
      BY FS_Subset DEF Numbers
    <3>2. /\ SumOf(f, u \union {x}) = SumOf(f, u) + f[x]
          /\ SumOf(g, u \union {x}) = SumOf(g, u) + g[x]
      BY <3>1, SumGrows
    <3>3. SumOf(f, u) \in Int /\ SumOf(g, u) \in Int
      BY <3>1, SumFacts
    <3>4. f[x] \in Int /\ g[x] \in Int /\ f[x] <= g[x]
      BY <1>1 DEF Numbers
    <3> QED
      BY <2>2, <3>2, <3>3, <3>4
  <2>3. S \in P
    <3> HIDE DEF P
    <3> QED
      BY <2>1, <2>2, SetInduction
  <2> QED
    BY <2>3
<1>2. ASSUME NEW h, \A x \in S : h[x] = f[x] + g[x]
      PROVE  SumOf(h, S) = SumOf(f, S) + SumOf(g, S)
  <2> DEFINE P == {u \in SUBSET S : SumOf(h, u) = SumOf(f, u) + SumOf(g, u)}
  <2>0. Numbers(h, S)
    BY <1>2 DEF Numbers
  <2>1. {} \in P
    <3>1. IsFiniteSet({}) /\ Numbers(f, {}) /\ Numbers(g, {}) /\ Numbers(h, {})
      BY FS_EmptySet DEF Numbers
    <3>2. SumOf(f, {}) = 0 /\ SumOf(g, {}) = 0 /\ SumOf(h, {}) = 0
      BY <3>1, SumFacts
    <3> QED
      BY <3>2
  <2>2. ASSUME NEW u \in SUBSET S, NEW x \in S \ u, u \in P PROVE u \union {x} \in P
    <3>1. /\ IsFiniteSet(u) /\ Numbers(f, u \union {x}) /\ Numbers(g, u \union {x})
          /\ Numbers(f, u) /\ Numbers(g, u) /\ Numbers(h, u \union {x})
      BY <2>0, FS_Subset DEF Numbers
    <3>2. /\ SumOf(f, u \union {x}) = SumOf(f, u) + f[x]
          /\ SumOf(g, u \union {x}) = SumOf(g, u) + g[x]
          /\ SumOf(h, u \union {x}) = SumOf(h, u) + h[x]
      BY <3>1, SumGrows
    <3>3. SumOf(f, u) \in Int /\ SumOf(g, u) \in Int
      BY <3>1, SumFacts
    <3>4. f[x] \in Int /\ g[x] \in Int /\ h[x] = f[x] + g[x]
      BY <1>2 DEF Numbers
    <3> QED
      BY <2>2, <3>2, <3>3, <3>4
  <2>3. S \in P
    <3> HIDE DEF P
    <3> QED
      BY <2>1, <2>2, SetInduction
  <2> QED
    BY <2>3
<1> QED
  BY <1>1, <1>2

\* The sum over two parts of a set.
LEMMA SumSplits ==
    ASSUME NEW R, IsFiniteSet(R), NEW S, IsFiniteSet(S), R \cap S = {},
           NEW f, Numbers(f, R \union S)
    PROVE  SumOf(f, R \union S) = SumOf(f, R) + SumOf(f, S)
<1> DEFINE P == {u \in SUBSET S : SumOf(f, R \union u) = SumOf(f, R) + SumOf(f, u)}
<1>0. IsFiniteSet({}) /\ Numbers(f, {}) /\ Numbers(f, R) /\ SumOf(f, R) \in Int
  <2>1. IsFiniteSet({}) /\ Numbers(f, {}) /\ Numbers(f, R)
    BY FS_EmptySet DEF Numbers
  <2> QED
    BY <2>1, SumFacts
<1>1. {} \in P
  <2>1. SumOf(f, {}) = 0 /\ R \union {} = R
    BY <1>0, SumFacts
  <2> QED
    BY <1>0, <2>1
<1>2. ASSUME NEW u \in SUBSET S, NEW x \in S \ u, u \in P PROVE u \union {x} \in P
  <2>1. /\ IsFiniteSet(u) /\ Numbers(f, u \union {x}) /\ Numbers(f, u)
    BY FS_Subset DEF Numbers
  <2>2. PICK v : v = R \union u
    OBVIOUS
  <2>3. /\ IsFiniteSet(v) /\ x \notin v /\ Numbers(f, v \union {x})
        /\ R \union (u \union {x}) = v \union {x}
    BY <2>1, <2>2, FS_Union DEF Numbers
  <2>4. /\ SumOf(f, u \union {x}) = SumOf(f, u) + f[x]
        /\ SumOf(f, v \union {x}) = SumOf(f, v) + f[x]
    BY <2>1, <2>3, SumGrows
  <2>5. SumOf(f, u) \in Int /\ f[x] \in Int
    BY <2>1, SumFacts DEF Numbers
  <2>6. SumOf(f, R \union u) = SumOf(f, R) + SumOf(f, u)
    BY <1>2
  <2>7. SumOf(f, v \union {x}) = SumOf(f, R) + SumOf(f, u \union {x})
    BY <1>0, <2>2, <2>4, <2>5, <2>6
  <2> QED
    BY <2>3, <2>7
<1>3. S \in P
  <2> HIDE DEF P
  <2> QED
    BY <1>1, <1>2, SetInduction
<1> QED
  BY <1>3

-----------------------------------------------------------------------------
(* What is needed is the least set that is closed. *)

LEMMA NeededIsClosed ==
    ASSUME NEW base \in Bases, NEW params \in SUBSET Tids, NEW have \in SUBSET Tids
    PROVE  /\ NeededFor(base, params, have) \in SUBSET Tids
           /\ params \ have \subseteq NeededFor(base, params, have)
           /\ ClosedUnder(base, have, NeededFor(base, params, have))
<1> DEFINE W == NeededFor(base, params, have)
<1>1. W \in SUBSET Tids /\ params \ have \subseteq W
  BY DEF NeededFor
<1>2. ASSUME NEW t \in W, base[t] \notin have \union {0}
      PROVE  base[t] \in W
  <2>1. t \in Tids /\ base[t] \in Tids
    BY <1>1, <1>2, MaxTidAssumption DEF Bases, Tids
  <2>2. ASSUME NEW S \in SUBSET Tids, params \ have \subseteq S,
               ClosedUnder(base, have, S)
        PROVE  base[t] \in S
    BY <1>2, <2>2 DEF NeededFor, ClosedUnder
  <2> QED BY <2>1, <2>2 DEF NeededFor
<1> QED BY <1>1, <1>2 DEF ClosedUnder

\* Whatever holds the parameters and is closed holds what is needed.
LEMMA NeededIsLeast ==
    ASSUME NEW base, NEW params, NEW have, NEW S \in SUBSET Tids,
           params \ have \subseteq S, ClosedUnder(base, have, S)
    PROVE  NeededFor(base, params, have) \subseteq S
BY DEF NeededFor

\* What the client has is not needed.
LEMMA NeededIsMissing ==
    ASSUME NEW base \in Bases, NEW params \in SUBSET Tids, NEW have \in SUBSET Tids
    PROVE  NeededFor(base, params, have) \cap have = {}
<1> DEFINE S == NeededFor(base, params, have) \ have
<1>1. S \in SUBSET Tids /\ params \ have \subseteq S /\ ClosedUnder(base, have, S)
  BY NeededIsClosed DEF ClosedUnder
<1> QED BY <1>1, NeededIsLeast

\* A chain holds its tensor, and the chain of the tensor's base.
LEMMA ChainOfBase ==
    ASSUME NEW base \in Bases, NEW t \in Tids
    PROVE  /\ ChainOf(base, t) \in SUBSET Tids
           /\ t \in ChainOf(base, t)
           /\ base[t] # 0 => /\ base[t] \in Tids
                             /\ ChainOf(base, base[t]) \subseteq ChainOf(base, t)
<1>1. /\ ChainOf(base, t) \in SUBSET Tids
      /\ t \in ChainOf(base, t)
      /\ ClosedUnder(base, {}, ChainOf(base, t))
  <2>1. {t} \in SUBSET Tids /\ {} \in SUBSET Tids
    OBVIOUS
  <2> QED BY <2>1, NeededIsClosed DEF ChainOf
<1>2. ASSUME base[t] # 0
      PROVE  base[t] \in Tids /\ ChainOf(base, base[t]) \subseteq ChainOf(base, t)
  <2>1. base[t] \in Tids /\ base[t] \in ChainOf(base, t)
    BY <1>1, <1>2, MaxTidAssumption DEF Bases, Tids, ClosedUnder
  <2> QED BY <1>1, <2>1, NeededIsLeast DEF ChainOf
<1> QED BY <1>1, <1>2

\* Without a cycle, no set of tensors has all its bases in itself.
LEMMA NoCycle ==
    ASSUME NEW base, NEW tids, ~HasCycle(base, tids),
           NEW S \in SUBSET tids, \A t \in S : base[t] \in S
    PROVE  S = {}
BY DEF HasCycle

-----------------------------------------------------------------------------
(* Sorted listings *)

LEMMA TidsFinite ==
    ASSUME NEW S \in SUBSET Tids
    PROVE  IsFiniteSet(S) /\ Cardinality(S) \in Nat
<1>1. IsFiniteSet(Tids)
  <2>1. 1 \in Int /\ MaxTid \in Int
    BY MaxTidAssumption
  <2> QED BY <2>1, FS_Interval DEF Tids
<1>2. IsFiniteSet(S)
  BY <1>1, FS_Subset
<1> QED BY <1>2, FS_CardinalityType

\* A set of tensor ids has a largest element.
LEMMA LargestTid ==
    ASSUME NEW S \in SUBSET Tids, S # {}
    PROVE  \E m \in S : \A t \in S : t <= m
<1> DEFINE Above(t) == {u \in S : t < u}
           R == StrictSubsetOrdering(S)
<1>1. IsFiniteSet(S) /\ S \subseteq Nat
  BY TidsFinite, MaxTidAssumption DEF Tids
<1>2. IsWellFoundedOn(R, SUBSET S)
  BY <1>1, FS_FiniteSubsetsOfFinite, FS_StrictSubsetOrderingWellFounded
<1>3. {Above(t) : t \in S} \subseteq SUBSET S /\ {Above(t) : t \in S} # {}
  OBVIOUS
<1> HIDE DEF R
<1>4. PICK A \in {Above(t) : t \in S} : \A B \in {Above(t) : t \in S} : <<B, A>> \notin R
  BY <1>2, <1>3, WFMin
<1>5. PICK m \in S : A = Above(m)
  OBVIOUS
<1>6. ASSUME NEW t \in S, m < t
      PROVE  FALSE
  <2>1. Above(t) \subseteq Above(m) /\ t \in Above(m) /\ t \notin Above(t)
    <3>1. t \in Nat /\ m \in Nat
      BY <1>1
    <3>2. ASSUME NEW u \in S, t < u PROVE m < u
      <4>1. u \in Nat
        BY <1>1
      <4> QED BY <1>6, <3>1, <3>2, <4>1
    <3>3. ~(t < t)
      BY <3>1
    <3> QED BY <1>6, <3>2, <3>3 DEF Above
  <2>2. <<Above(t), A>> \in R
    BY <1>5, <2>1 DEF R, StrictSubsetOrdering
  <2> QED BY <1>4, <2>2
<1> QED BY <1>1, <1>6

\* Every set of tensors can be listed in ascending order.
LEMMA AscendingExists ==
    ASSUME NEW S \in SUBSET Tids
    PROVE  Ascending(S) # {}
<1> DEFINE Bad == {T \in SUBSET Tids : Ascending(T) = {}}
           R == StrictSubsetOrdering(Tids)
<1> SUFFICES ASSUME Bad # {} PROVE FALSE
  OBVIOUS
<1>1. IsWellFoundedOn(R, SUBSET Tids)
  <2>1. IsFiniteSet(Tids)
    BY TidsFinite
  <2> QED BY <2>1, FS_FiniteSubsetsOfFinite, FS_StrictSubsetOrderingWellFounded
<1> HIDE DEF R
<1>2. PICK T \in Bad : \A U \in Bad : <<U, T>> \notin R
  BY <1>1, WFMin
<1> DEFINE n == Cardinality(T)
<1>3. T \in SUBSET Tids /\ IsFiniteSet(T) /\ n \in Nat /\ Ascending(T) = {} /\ T \subseteq Nat
  BY TidsFinite, MaxTidAssumption DEF Tids
<1>4. T # {}
  <2> SUFFICES ASSUME T = {} PROVE FALSE
    OBVIOUS
  <2>1. n = 0
    BY FS_EmptySet
  <2> HIDE DEF n
  <2>2. [i \in 1..n |-> i] \in Ascending(T)
    BY <2>1 DEF Ascending, n
  <2> QED BY <1>3, <2>2
<1>5. PICK m \in T : \A t \in T : t <= m
  BY <1>3, <1>4, LargestTid
<1> DEFINE U == T \ {m}
<1>6. Ascending(U) # {}
  <2>1. <<U, T>> \in R
    BY <1>3 DEF R, StrictSubsetOrdering
  <2>2. U \notin Bad
    BY <1>2, <2>1
  <2> QED BY <1>3, <2>2
<1>7. PICK s : s \in Ascending(U)
  BY <1>6
<1>8. Cardinality(U) = n - 1 /\ n \in Nat /\ n > 0
  BY <1>3, <1>4, FS_RemoveElement, FS_EmptySet
<1> DEFINE f == [i \in 1..n |-> IF i = n THEN m ELSE s[i]]
<1> HIDE DEF n
<1>9. /\ s \in [1..(n - 1) -> U]
      /\ U \subseteq {s[i] : i \in 1..(n - 1)}
      /\ \A i, j \in 1..(n - 1) : i < j => s[i] < s[j]
  BY <1>7, <1>8 DEF Ascending
<1>10. /\ f \in [1..n -> T] /\ f[n] = m
       /\ \A i \in 1..(n - 1) : i \in 1..n /\ f[i] = s[i] /\ s[i] \in U
  BY <1>8, <1>9
<1> HIDE DEF f
<1>11. T \subseteq {f[i] : i \in 1..n}
  <2>1. ASSUME NEW t \in T PROVE \E i \in 1..n : f[i] = t
    <3>1. CASE t = m
      BY <1>8, <1>10, <3>1
    <3>2. CASE t # m
      <4>1. PICK i \in 1..(n - 1) : s[i] = t
        BY <1>9, <3>2
      <4> QED BY <1>10, <4>1
    <3> QED BY <3>1, <3>2
  <2> QED BY <2>1
<1>12. ASSUME NEW i \in 1..n, NEW j \in 1..n, i < j
       PROVE  f[i] < f[j]
  <2>1. i \in 1..(n - 1)
    BY <1>8, <1>12
  <2>2. CASE j = n
    <3>1. f[i] \in U /\ f[j] = m
      BY <1>10, <2>1, <2>2
    <3>2. f[i] \in Nat /\ m \in Nat /\ f[i] # m /\ f[i] <= m
      BY <1>3, <1>5, <3>1
    <3> QED BY <3>1, <3>2
  <2>3. CASE j # n
    <3>1. j \in 1..(n - 1)
      BY <1>8, <2>3
    <3> QED BY <1>9, <1>10, <1>12, <2>1, <3>1
  <2> QED BY <2>2, <2>3
<1>13. f \in Ascending(T)
  BY <1>10, <1>11, <1>12 DEF Ascending, n
<1> QED BY <1>3, <1>13

\* No element of the sequence comes twice.
Distinct(s) == \A i, j \in 1..Len(s) : s[i] = s[j] => i = j

\* Sorted lists each element of a set of tensor ids once.
LEMMA SortedLists ==
    ASSUME NEW S \in SUBSET Tids
    PROVE  Sorted(S) \in Seq(S) /\ ToSet(Sorted(S)) = S /\ Distinct(Sorted(S))
<1> DEFINE s == Sorted(S)
           n == Cardinality(S)
<1>1. s \in Ascending(S)
  BY AscendingExists DEF Sorted
<1>2. n \in Nat /\ S \subseteq Nat
  BY TidsFinite, MaxTidAssumption DEF Tids
<1> HIDE DEF s, n
<1>3. /\ s \in [1..n -> S] /\ S \subseteq {s[i] : i \in 1..n}
      /\ \A i, j \in 1..n : i < j => s[i] < s[j]
  BY <1>1 DEF Ascending, n
<1>4. s \in Seq(S) /\ Len(s) = n
  BY <1>2, <1>3
<1>5. ToSet(s) = S
  BY <1>3, <1>4 DEF ToSet
<1>6. ASSUME NEW i \in 1..n, NEW j \in 1..n, s[i] = s[j]
      PROVE  i = j
  <2>1. ~(i < j) /\ ~(j < i)
    <3>1. s[i] \in Nat /\ s[j] \in Nat
      BY <1>2, <1>3
    <3> QED BY <1>3, <1>6, <3>1
  <2> QED BY <1>2, <2>1
<1> QED BY <1>4, <1>5, <1>6 DEF Distinct, s

\* A sequence without repetitions is as long as the set of its elements.
LEMMA DistinctLength ==
    ASSUME NEW T, NEW s \in Seq(T), Distinct(s)
    PROVE  IsFiniteSet(ToSet(s)) /\ Cardinality(ToSet(s)) = Len(s)
<1> DEFINE I == 1..Len(s)
<1>1. Len(s) \in Nat /\ DOMAIN s = I
  OBVIOUS
<1>2. IsFiniteSet(I) /\ Cardinality(I) = Len(s)
  <2>1. 1 \in Int /\ Len(s) \in Int
    BY <1>1
  <2>2. IsFiniteSet(I) /\ Cardinality(I) = IF 1 > Len(s) THEN 0 ELSE Len(s) - 1 + 1
    BY <2>1, FS_Interval
  <2> QED BY <1>1, <2>2
<1>3. s \in Bijection(I, ToSet(s))
  BY <1>1 DEF Bijection, Injection, Surjection, IsInjective, ToSet, Distinct
<1>4. ExistsBijection(I, ToSet(s))
  BY <1>3 DEF ExistsBijection
<1> QED BY <1>2, <1>4, FS_Bijection

-----------------------------------------------------------------------------
(* The lists and the stack of a traversal *)

LEMMA AppendOne ==
    ASSUME NEW T, NEW s \in Seq(T), NEW t \in T
    PROVE  /\ Append(s, t) \in Seq(T) /\ Len(Append(s, t)) = Len(s) + 1
           /\ \A i \in 1..Len(s) : Append(s, t)[i] = s[i]
           /\ Append(s, t)[Len(s) + 1] = t
           /\ ToSet(Append(s, t)) = ToSet(s) \union {t}
           /\ Distinct(s) /\ t \notin ToSet(s) => Distinct(Append(s, t))
<1> DEFINE a == Append(s, t)
<1>1. /\ a \in Seq(T) /\ Len(a) = Len(s) + 1 /\ Len(s) \in Nat
      /\ \A i \in 1..Len(s) : a[i] = s[i]
      /\ a[Len(s) + 1] = t
      /\ DOMAIN a = 1..(Len(s) + 1) /\ DOMAIN s = 1..Len(s)
  OBVIOUS
<1> HIDE DEF a
<1>2. ToSet(a) = ToSet(s) \union {t}
  <2>1. ASSUME NEW i \in 1..(Len(s) + 1) PROVE i \in 1..Len(s) \/ i = Len(s) + 1
    BY <1>1
  <2>2. Len(s) + 1 \in 1..(Len(s) + 1) /\ \A i \in 1..Len(s) : i \in 1..(Len(s) + 1)
    BY <1>1
  <2>3. ToSet(a) \subseteq ToSet(s) \union {t}
    BY <1>1, <2>1 DEF ToSet
  <2>4. ToSet(s) \union {t} \subseteq ToSet(a)
    BY <1>1, <2>2 DEF ToSet
  <2> QED BY <2>3, <2>4
<1>3. ASSUME Distinct(s), t \notin ToSet(s) PROVE Distinct(a)
  <2>1. ASSUME NEW i \in 1..(Len(s) + 1), NEW j \in 1..(Len(s) + 1), a[i] = a[j]
        PROVE  i = j
    <3>1. \A k \in 1..Len(s) : s[k] # t
      BY <1>1, <1>3 DEF ToSet
    <3>2. CASE i \in 1..Len(s) /\ j \in 1..Len(s)
      BY <1>1, <1>3, <2>1, <3>2 DEF Distinct
    <3>3. CASE i = Len(s) + 1 \/ j = Len(s) + 1
      BY <1>1, <2>1, <3>1, <3>3
    <3> QED BY <1>1, <3>2, <3>3
  <2> QED BY <1>1, <2>1 DEF Distinct
<1> QED BY <1>1, <1>2, <1>3 DEF a

\* What is left of a list behind its head.
LEMMA TailOf ==
    ASSUME NEW T, NEW s \in Seq(T), s # <<>>
    PROVE  /\ Head(s) \in T /\ Head(s) \in ToSet(s) /\ Head(s) = s[1]
           /\ Tail(s) \in Seq(T) /\ Len(Tail(s)) = Len(s) - 1 /\ Len(s) \in Nat \ {0}
           /\ \A i \in 1..Len(Tail(s)) : Tail(s)[i] = s[i + 1]
           /\ ToSet(s) = ToSet(Tail(s)) \union {Head(s)}
           /\ Distinct(s) => Distinct(Tail(s)) /\ Head(s) \notin ToSet(Tail(s))
<1> DEFINE r == Tail(s)
           n == Len(s)
<1>1. /\ Head(s) \in T /\ Head(s) = s[1] /\ r \in Seq(T) /\ Len(r) = n - 1
      /\ n \in Nat \ {0} /\ \A i \in 1..(n - 1) : r[i] = s[i + 1]
      /\ DOMAIN r = 1..(n - 1) /\ DOMAIN s = 1..n
  OBVIOUS
<1> HIDE DEF r, n
<1>2. \A i \in 1..n : i = 1 \/ (i - 1 \in 1..(n - 1) /\ (i - 1) + 1 = i)
  BY <1>1
<1>3. 1 \in 1..n /\ \A i \in 1..(n - 1) : i + 1 \in 1..n /\ i + 1 # 1
  BY <1>1
<1>4. ToSet(s) = ToSet(r) \union {Head(s)} /\ Head(s) \in ToSet(s)
  <2>1. ToSet(s) \subseteq ToSet(r) \union {Head(s)}
    <3>1. ASSUME NEW i \in 1..n PROVE s[i] \in ToSet(r) \union {Head(s)}
      <4>1. CASE i = 1
        BY <1>1, <4>1
      <4>2. CASE i # 1
        <5>1. i - 1 \in 1..(n - 1) /\ r[i - 1] = s[i]
          BY <1>1, <1>2, <4>2
        <5> QED BY <1>1, <5>1 DEF ToSet
      <4> QED BY <4>1, <4>2
    <3> QED BY <1>1, <3>1 DEF ToSet
  <2>2. ToSet(r) \union {Head(s)} \subseteq ToSet(s)
    BY <1>1, <1>3 DEF ToSet
  <2> QED BY <2>1, <2>2
<1>5. ASSUME Distinct(s) PROVE Distinct(r) /\ Head(s) \notin ToSet(r)
  <2>1. \A i, j \in 1..n : s[i] = s[j] => i = j
    BY <1>5 DEF Distinct, n
  <2>2. ASSUME NEW i \in 1..(n - 1), NEW j \in 1..(n - 1), r[i] = r[j] PROVE i = j
    <3>1. i + 1 = j + 1
      BY <1>1, <1>3, <2>1, <2>2
    <3> QED BY <3>1
  <2>3. Distinct(r)
    BY <1>1, <2>2 DEF Distinct
  <2>4. ASSUME NEW i \in 1..(n - 1) PROVE r[i] # Head(s)
    BY <1>1, <1>3, <2>1
  <2> QED BY <1>1, <2>3, <2>4 DEF ToSet
<1> QED BY <1>1, <1>4, <1>5 DEF r, n

\* What two lists make, one behind the other.
LEMMA ConcatOf ==
    ASSUME NEW T, NEW r \in Seq(T), NEW s \in Seq(T)
    PROVE  /\ r \o s \in Seq(T) /\ Len(r \o s) = Len(r) + Len(s)
           /\ Len(r) \in Nat /\ Len(s) \in Nat
           /\ \A i \in 1..Len(r) : (r \o s)[i] = r[i]
           /\ \A i \in 1..Len(s) : (r \o s)[Len(r) + i] = s[i]
           /\ ToSet(r \o s) = ToSet(r) \union ToSet(s)
           /\ Distinct(r) /\ Distinct(s) /\ ToSet(r) \cap ToSet(s) = {} => Distinct(r \o s)
<1> DEFINE c == r \o s
           m == Len(r)
           n == Len(s)
<1>1. /\ c \in Seq(T) /\ Len(c) = m + n /\ m \in Nat /\ n \in Nat
      /\ \A i \in 1..(m + n) : c[i] = IF i <= m THEN r[i] ELSE s[i - m]
      /\ DOMAIN r = 1..m /\ DOMAIN s = 1..n /\ DOMAIN c = 1..(m + n)
  OBVIOUS
<1> HIDE DEF c, m, n
<1>2. \A i \in 1..m : i \in 1..(m + n) /\ c[i] = r[i]
  <2>1. ASSUME NEW i \in 1..m PROVE i \in 1..(m + n) /\ c[i] = r[i]
    <3>1. i \in 1..(m + n) /\ i <= m
      BY <1>1
    <3> QED BY <1>1, <3>1
  <2> QED BY <2>1
<1>3. \A i \in 1..n : m + i \in 1..(m + n) /\ c[m + i] = s[i]
  <2>1. ASSUME NEW i \in 1..n PROVE m + i \in 1..(m + n) /\ c[m + i] = s[i]
    <3>1. m + i \in 1..(m + n) /\ ~(m + i <= m) /\ (m + i) - m = i
      BY <1>1
    <3> QED BY <1>1, <3>1
  <2> QED BY <2>1
<1>4. \A i \in 1..(m + n) : i \in 1..m \/ (i - m \in 1..n /\ m + (i - m) = i)
  BY <1>1
<1>5. ToSet(c) = ToSet(r) \union ToSet(s)
  <2>1. ASSUME NEW i \in 1..(m + n) PROVE c[i] \in ToSet(r) \union ToSet(s)
    <3>1. CASE i \in 1..m
      BY <1>1, <1>2, <3>1 DEF ToSet
    <3>2. CASE i - m \in 1..n /\ m + (i - m) = i
      <4>1. c[i] = s[i - m]
        BY <1>3, <3>2
      <4> QED BY <1>1, <3>2, <4>1 DEF ToSet
    <3> QED BY <1>4, <3>1, <3>2
  <2>2. ToSet(r) \subseteq ToSet(c)
    BY <1>1, <1>2 DEF ToSet
  <2>3. ToSet(s) \subseteq ToSet(c)
    <3>1. ASSUME NEW i \in 1..n PROVE s[i] \in ToSet(c)
      <4>1. m + i \in DOMAIN c /\ c[m + i] = s[i]
        BY <1>1, <1>3
      <4> QED BY <4>1 DEF ToSet
    <3> QED BY <1>1, <3>1 DEF ToSet
  <2>4. ToSet(c) \subseteq ToSet(r) \union ToSet(s)
    BY <1>1, <2>1 DEF ToSet
  <2> QED BY <2>2, <2>3, <2>4
<1>6. ASSUME Distinct(r), Distinct(s), ToSet(r) \cap ToSet(s) = {} PROVE Distinct(c)
  <2>1. /\ \A i, j \in 1..m : r[i] = r[j] => i = j
        /\ \A i, j \in 1..n : s[i] = s[j] => i = j
        /\ \A i \in 1..m, j \in 1..n : r[i] # s[j]
    <3>1. \A i \in 1..m, j \in 1..n : r[i] \in ToSet(r) /\ s[j] \in ToSet(s)
      BY <1>1 DEF ToSet
    <3> QED BY <1>6, <3>1 DEF Distinct, m, n
  <2>2. ASSUME NEW i \in 1..(m + n), NEW j \in 1..(m + n), c[i] = c[j] PROVE i = j
    <3>1. CASE i \in 1..m /\ j \in 1..m
      BY <1>2, <2>1, <2>2, <3>1
    <3>2. CASE i \in 1..m /\ j - m \in 1..n /\ m + (j - m) = j
      <4>1. c[i] = r[i] /\ c[j] = s[j - m]
        BY <1>2, <1>3, <3>2
      <4> QED BY <2>1, <2>2, <3>2, <4>1
    <3>3. CASE j \in 1..m /\ i - m \in 1..n /\ m + (i - m) = i
      <4>1. c[j] = r[j] /\ c[i] = s[i - m]
        BY <1>2, <1>3, <3>3
      <4> QED BY <2>1, <2>2, <3>3, <4>1
    <3>4. CASE /\ i - m \in 1..n /\ m + (i - m) = i
               /\ j - m \in 1..n /\ m + (j - m) = j
      <4>1. c[i] = s[i - m] /\ c[j] = s[j - m]
        BY <1>3, <3>4
      <4>2. i - m = j - m
        BY <2>1, <2>2, <3>4, <4>1
      <4> QED BY <3>4, <4>2
    <3> QED BY <1>4, <3>1, <3>2, <3>3, <3>4
  <2> QED BY <1>1, <2>2 DEF Distinct
<1> QED BY <1>1, <1>2, <1>3, <1>5, <1>6 DEF c, m, n

-----------------------------------------------------------------------------
(* build_manifest *)

Rounds == [blobs : SUBSET Tids, frontier : SUBSET Tids]

\* The rounds of the frontier loop of build_manifest are a run.
LEMMA RoundsRun ==
    ASSUME NEW base \in Bases, NEW r0 \in Rounds
    PROVE  \E f \in [0 .. MaxTid -> Rounds] :
              /\ f[0] = r0
              /\ \A k \in 1 .. MaxTid : f[k] = NextRound(base, f[k - 1])
              /\ Times(LAMBDA w : NextRound(base, w), r0) = f[MaxTid]
<1>0. MaxTid \in Nat
  BY MaxTidAssumption
<1> DEFINE h == [k \in 1 .. MaxTid |-> [r \in Rounds |-> NextRound(base, r)]]
           Fold(it) == it = [s \in SUBSET (1 .. MaxTid) |->
                               IF s = {} THEN r0 ELSE NextRound(base, it[s \ {Max(s)}])]
           iter == CHOOSE it : Fold(it)
<1>1. h \in [1 .. MaxTid -> [Rounds -> Rounds]]
  <2>1. \A r \in Rounds : NextRound(base, r) \in Rounds
    BY MaxTidAssumption DEF Rounds, NextRound, Bases, Tids
  <2> QED
    BY <2>1
<1>2. \E it : Fold(it)
  <2>1. PICK it \in [SUBSET (1 .. MaxTid) -> Rounds] : IsFold(it, r0, MaxTid, h)
    <3> HIDE DEF h
    <3> QED
      BY <1>0, <1>1, FoldExists
  <2>2. ASSUME NEW s \in SUBSET (1 .. MaxTid), s # {}
        PROVE  h[Max(s)][it[s \ {Max(s)}]] = NextRound(base, it[s \ {Max(s)}])
    <3>1. Max(s) \in 1 .. MaxTid /\ it[s \ {Max(s)}] \in Rounds
      BY <1>0, <2>2, LargestOf
    <3> QED
      BY <3>1
  <2> HIDE DEF h
  <2>3. Fold(it)
    BY <2>1, <2>2 DEF IsFold
  <2> HIDE DEF Fold
  <2> QED
    BY <2>3
<1>3. Fold(iter)
  <2> HIDE DEF Fold
  <2> QED
    BY <1>2
<1>4. Times(LAMBDA w : NextRound(base, w), r0) = iter[1 .. MaxTid]
  BY DEF Times, FoldLeft, MapThenFoldSet, Tids
<1>5. iter[{}] = r0
  BY <1>3
<1>6. ASSUME NEW k \in 1 .. MaxTid, iter[1 .. (k - 1)] \in Rounds
      PROVE  iter[1 .. k] = h[k][iter[1 .. (k - 1)]]
  <2>1. 1 .. k \in SUBSET (1 .. MaxTid) /\ 1 .. k # {} /\ Max(1 .. k) = k /\ (1 .. k) \ {k} = 1 .. (k - 1)
    BY <1>0, PrefixOf
  <2>2. iter[1 .. k] = NextRound(base, iter[1 .. (k - 1)])
    <3> HIDE DEF iter
    <3> QED
      BY <1>3, <2>1
  <2> HIDE DEF iter
  <2> QED
    BY <1>6, <2>2
<1>7a. Follows(iter, Rounds, r0, MaxTid, h)
  BY <1>5, <1>6 DEF Follows
<1>7. PICK f \in [0 .. MaxTid -> Rounds] : IsRun(f, r0, MaxTid, h) /\ iter[1 .. MaxTid] = f[MaxTid]
  <2> HIDE DEF iter, h
  <2> QED
    BY <1>0, <1>1, <1>7a, FoldIsRun
<1>8. ASSUME NEW k \in 1 .. MaxTid
      PROVE  f[k] = NextRound(base, f[k - 1])
  <2>1. f[k] = h[k][f[k - 1]] /\ f[k - 1] \in Rounds
    BY <1>0, <1>7 DEF IsRun
  <2> QED
    BY <2>1
<1>9. f[0] = r0
  BY <1>7 DEF IsRun
<1> QED
  BY <1>4, <1>7, <1>8, <1>9

\* What a round has found: all bases but those of the frontier.
Found(base, r) ==
    /\ r.blobs \cap r.frontier = {}
    /\ \A t \in r.blobs : base[t] \in {0} \union r.blobs \union r.frontier

\* A round that has a frontier finds something new.
LEMMA RoundFinds ==
    ASSUME NEW base \in Bases, NEW r \in Rounds, Found(base, r)
    PROVE  LET q == NextRound(base, r)
           IN  /\ q \in Rounds /\ Found(base, q)
               /\ q.blobs = r.blobs \union r.frontier
               /\ r.frontier = {} => q = r
               /\ \A S \in SUBSET Tids :
                     /\ r.blobs \union r.frontier \subseteq S /\ ClosedUnder(base, {}, S)
                     => q.blobs \union q.frontier \subseteq S
<1> DEFINE q == NextRound(base, r)
<1>1. /\ q.blobs = r.blobs \union r.frontier
      /\ q.frontier = {base[t] : t \in r.frontier} \ ({0} \union r.blobs \union r.frontier)
  BY DEF NextRound
<1>2. q \in Rounds
  BY MaxTidAssumption DEF Rounds, NextRound, Bases, Tids
<1>3. Found(base, q)
  BY <1>1 DEF Found
<1>4. ASSUME r.frontier = {} PROVE q = r
  <2>1. r = [blobs |-> r.blobs, frontier |-> {}]
    BY <1>4 DEF Rounds
  <2> QED
    BY <1>4, <2>1 DEF NextRound
<1>5. ASSUME NEW S \in SUBSET Tids, r.blobs \union r.frontier \subseteq S, ClosedUnder(base, {}, S)
      PROVE  q.blobs \union q.frontier \subseteq S
  BY <1>1, <1>5 DEF ClosedUnder
<1> QED
  BY <1>1, <1>2, <1>3, <1>4, <1>5

\* The manifest is what the reference definition says: the chains of the
\* parameters, complete and without a cycle.
LEMMA ManifestIsExact ==
    ASSUME NEW base \in Bases, NEW params \in SUBSET Tids,
           BuildManifest(Tids, base, params).error = "none"
    PROVE  LET S == BuildManifest(Tids, base, params).closure
           IN  /\ S \in SUBSET Tids /\ params \subseteq S
               /\ \A t \in S : base[t] \in S \union {0}
               /\ ~HasCycle(base, S)
               /\ S = NeededFor(base, params, {})
<1> DEFINE r0 == [blobs |-> {}, frontier |-> params]
           last == Times(LAMBDA w : NextRound(base, w), r0)
<1>0. MaxTid \in Nat \ {0} /\ r0 \in Rounds
  BY MaxTidAssumption DEF Rounds
<1>1. PICK f \in [0 .. MaxTid -> Rounds] :
              /\ f[0] = r0
              /\ \A k \in 1 .. MaxTid : f[k] = NextRound(base, f[k - 1])
              /\ last = f[MaxTid]
  <2>1. PICK r \in Rounds : r = r0
    BY <1>0
  <2> QED
    BY <2>1, RoundsRun
<1> HIDE DEF last
<1> DEFINE Good(k) ==
              /\ Found(base, f[k]) /\ params \subseteq f[k].blobs \union f[k].frontier
              /\ f[k].frontier = {} \/ Cardinality(f[k].blobs) >= k
              /\ \A S \in SUBSET Tids : params \subseteq S /\ ClosedUnder(base, {}, S)
                     => f[k].blobs \union f[k].frontier \subseteq S
           T == {k \in 0 .. MaxTid : Good(k)}
<1>2. 0 \in T
  <2>1. Cardinality({}) = 0 /\ 0 >= 0 /\ 0 \in 0 .. MaxTid
    BY <1>0, FS_EmptySet
  <2>2. f[0].blobs = {} /\ f[0].frontier = params
    BY <1>1
  <2>3. Good(0)
    BY <2>1, <2>2 DEF Found
  <2> HIDE DEF Good
  <2> QED
    BY <2>1, <2>3
<1>3. ASSUME NEW k \in 0 .. MaxTid - 1, k \in T
      PROVE  k + 1 \in T
  <2>1. PICK j \in 1 .. MaxTid : j = k + 1
    BY <1>0
  <2>2. j - 1 = k /\ j \in 0 .. MaxTid /\ k \in 0 .. MaxTid /\ Good(k)
    BY <1>0, <1>3, <2>1
  <2>3. PICK r \in Rounds : r = f[k]
    BY <2>2
  <2>4. PICK q : q = NextRound(base, r)
    OBVIOUS
  <2>5. f[j] = q
    BY <1>1, <2>2, <2>3, <2>4
  <2>6. Found(base, r) /\ params \subseteq r.blobs \union r.frontier
    BY <2>2, <2>3
  <2>7. /\ q \in Rounds /\ Found(base, q)
        /\ q.blobs = r.blobs \union r.frontier
        /\ r.frontier = {} => q = r
        /\ \A S \in SUBSET Tids :
              /\ r.blobs \union r.frontier \subseteq S /\ ClosedUnder(base, {}, S)
              => q.blobs \union q.frontier \subseteq S
    BY <2>4, <2>6, RoundFinds
  <2>8. q.frontier = {} \/ Cardinality(q.blobs) >= j
    <3>1. CASE r.frontier = {}
      BY <2>7, <3>1
    <3>2. CASE r.frontier # {}
      <4>1. PICK t \in r.frontier : t \notin r.blobs
        BY <2>6, <3>2 DEF Found
      <4>2. /\ q.blobs \in SUBSET Tids /\ r.blobs \union {t} \subseteq q.blobs
            /\ r.blobs \in SUBSET Tids
        BY <2>7, <4>1 DEF Rounds
      <4>3. IsFiniteSet(r.blobs) /\ IsFiniteSet(q.blobs) /\ Cardinality(r.blobs) \in Nat
        BY <4>2, TidsFinite
      <4>4. Cardinality(r.blobs \union {t}) = Cardinality(r.blobs) + 1
        BY <4>1, <4>3, FS_AddElement
      <4>5. Cardinality(r.blobs \union {t}) <= Cardinality(q.blobs)
        BY <4>2, <4>3, FS_Subset
      <4>6. Cardinality(q.blobs) \in Nat /\ Cardinality(r.blobs) >= k
        BY <2>2, <2>3, <3>2, <4>2, TidsFinite
      <4> QED
        BY <2>1, <4>3, <4>4, <4>5, <4>6
    <3> QED
      BY <3>1, <3>2
  <2>9. \A S \in SUBSET Tids : params \subseteq S /\ ClosedUnder(base, {}, S)
            => q.blobs \union q.frontier \subseteq S
    BY <2>2, <2>3, <2>7
  <2>10. Good(j)
    BY <2>5, <2>6, <2>7, <2>8, <2>9
  <2> QED
    BY <2>1, <2>2, <2>10
<1>4. Good(MaxTid)
  <2> HIDE DEF Good
  <2>1. 0 .. MaxTid \subseteq T
    <3> HIDE DEF T
    <3> QED
      BY <1>0, <1>2, <1>3, InductionUpTo
  <2> QED
    BY <1>0, <2>1
<1>5. last.frontier = {}
  <2>1. last \in Rounds
    BY <1>0, <1>1
  <2>2. ASSUME NEW t \in last.frontier PROVE FALSE
    <3>1. t \notin last.blobs /\ Cardinality(last.blobs) >= MaxTid
      BY <1>1, <1>4, <2>2 DEF Found
    <3>2. last.blobs \in SUBSET Tids /\ t \in Tids
      BY <2>1, <2>2 DEF Rounds
    <3>3. IsFiniteSet(Tids) /\ Cardinality(Tids) = MaxTid
      <4>1. 1 \in Int /\ MaxTid \in Int
        BY <1>0
      <4>2. IsFiniteSet(1 .. MaxTid)
            /\ Cardinality(1 .. MaxTid) = IF 1 > MaxTid THEN 0 ELSE MaxTid - 1 + 1
        BY <4>1, FS_Interval
      <4> QED
        BY <1>0, <4>2 DEF Tids
    <3>4. IsFiniteSet(last.blobs) /\ Cardinality(last.blobs) \in Nat
      BY <3>2, TidsFinite
    <3>5. last.blobs \union {t} \subseteq Tids /\ Cardinality(last.blobs \union {t}) = Cardinality(last.blobs) + 1
      BY <3>1, <3>2, <3>4, FS_AddElement
    <3>6. Cardinality(last.blobs \union {t}) <= Cardinality(Tids)
      BY <3>3, <3>5, FS_Subset
    <3> QED
      BY <1>0, <3>1, <3>3, <3>4, <3>5, <3>6
  <2> QED
    BY <2>2
<1>6. last.blobs \in SUBSET Tids
  BY <1>0, <1>1 DEF Rounds
<1>7. /\ BuildManifest(Tids, base, params).closure = last.blobs
      /\ ~HasCycle(base, last.blobs)
  BY <1>6 DEF BuildManifest, last
<1>8. params \subseteq last.blobs /\ \A t \in last.blobs : base[t] \in last.blobs \union {0}
  BY <1>1, <1>4, <1>5 DEF Found
<1>9. last.blobs = NeededFor(base, params, {})
  <2>1. ClosedUnder(base, {}, last.blobs)
    BY <1>8 DEF ClosedUnder
  <2>2. NeededFor(base, params, {}) \subseteq last.blobs
    BY <1>6, <1>8, <2>1, NeededIsLeast
  <2> DEFINE N == NeededFor(base, params, {})
  <2>3. N \in SUBSET Tids /\ params \subseteq N /\ ClosedUnder(base, {}, N)
    <3>1. {} \in SUBSET Tids
      OBVIOUS
    <3>2. params \ {} = params
      OBVIOUS
    <3> QED
      BY <3>1, <3>2, NeededIsClosed
  <2> HIDE DEF N
  <2>4. last.blobs \subseteq N
    BY <1>1, <1>4, <2>3
  <2> QED
    BY <2>2, <2>4 DEF N
<1> QED
  BY <1>6, <1>7, <1>8, <1>9

-----------------------------------------------------------------------------
(* dfs_order *)

Visits == [order : Seq(Tids), stack : Seq(Tids)]

\* One iteration of the loop: a visit, while tensors wait.
VisitNext(base, S, w) == IF w.stack = <<>> THEN w ELSE Visit(base, S, w)

\* Each tensor of S is listed, waits, or is below one that is neither; what is
\* listed comes after its base.
Traversed(base, S, w) ==
    /\ w \in Visits
    /\ Distinct(w.order) /\ Distinct(w.stack) /\ ToSet(w.order) \cap ToSet(w.stack) = {}
    /\ ToSet(w.order) \union ToSet(w.stack) \subseteq S
    /\ \A t \in S \ (ToSet(w.order) \union ToSet(w.stack)) : base[t] \in S \ ToSet(w.order)
    /\ \A t \in ToSet(w.stack) : base[t] \in S => base[t] \in ToSet(w.order)
    /\ \A i \in 1 .. Len(w.order) : base[w.order[i]] \in S =>
          \E j \in 1 .. (i - 1) : w.order[j] = base[w.order[i]]

\* The traversal begins with the roots.
LEMMA TraversalStarts ==
    ASSUME NEW base \in Bases, NEW S \in SUBSET Tids
    PROVE  Traversed(base, S, [order |-> <<>>, stack |-> Sorted(Roots(base, S))])
<1> DEFINE s == Sorted(Roots(base, S))
           e == <<>>
<1>1. s \in Seq(Tids) /\ ToSet(s) = Roots(base, S) /\ Distinct(s)
  <2>1. Roots(base, S) \in SUBSET Tids
    BY DEF Roots
  <2> QED
    BY <2>1, SortedLists
<1>2. e \in Seq(Tids) /\ Len(e) = 0 /\ ToSet(e) = {} /\ Distinct(e)
  BY DEF ToSet, Distinct
<1> HIDE DEF s, e
<1> QED
  BY <1>1, <1>2 DEF Traversed, Visits, Roots, e, s

\* A visit keeps the traversal sound, and lists one tensor more.
LEMMA TraversalGoesOn ==
    ASSUME NEW base \in Bases, NEW S \in SUBSET Tids, NEW w, Traversed(base, S, w),
           w.stack # <<>>
    PROVE  /\ Traversed(base, S, Visit(base, S, w))
           /\ Len(Visit(base, S, w).order) = Len(w.order) + 1
<1> DEFINE t == Head(w.stack)
           C == Children(base, S, t)
           kids == Sorted(C)
           rest == Tail(w.stack)
           v == Visit(base, S, w)
           n == Len(w.order)
<1>1. w \in Visits /\ w.order \in Seq(Tids) /\ w.stack \in Seq(Tids) /\ n \in Nat
      /\ DOMAIN w.order = 1 .. n
  BY DEF Traversed, Visits
<1>2. v.order = Append(w.order, t) /\ v.stack = kids \o rest
      /\ v = [order |-> v.order, stack |-> v.stack]
  BY DEF Visit
<1>3. /\ t \in Tids /\ t \in ToSet(w.stack) /\ rest \in Seq(Tids)
      /\ ToSet(w.stack) = ToSet(rest) \union {t} /\ Distinct(rest) /\ t \notin ToSet(rest)
  BY <1>1, TailOf DEF Traversed
<1>4. t \in S /\ t \notin ToSet(w.order)
  BY <1>3 DEF Traversed
<1>5. C \in SUBSET Tids /\ \A c \in S : c \in C <=> base[c] = t
  BY DEF Children
<1>6. kids \in Seq(Tids) /\ ToSet(kids) = C /\ Distinct(kids)
  BY <1>5, SortedLists
<1>7. C \subseteq S
  BY DEF Children
<1>8. C \cap (ToSet(w.order) \union ToSet(w.stack)) = {}
  <2>1. ASSUME NEW c \in C, c \in ToSet(w.stack) PROVE FALSE
    BY <1>4, <1>5, <1>7, <2>1 DEF Traversed
  <2>2. ASSUME NEW c \in C, c \in ToSet(w.order) PROVE FALSE
    <3>1. PICK i \in 1 .. n : w.order[i] = c
      BY <1>1, <2>2 DEF ToSet
    <3>2. base[w.order[i]] = t
      BY <1>5, <1>7, <3>1
    <3>3. PICK j \in 1 .. (i - 1) : w.order[j] = t
      BY <1>4, <3>2 DEF Traversed
    <3>4. j \in 1 .. n
      BY <1>1, <3>1, <3>3
    <3> QED
      BY <1>1, <1>4, <3>3, <3>4 DEF ToSet
  <2> QED
    BY <2>1, <2>2
<1> HIDE DEF t, C, kids, rest, v
<1>9. /\ v.order \in Seq(Tids) /\ Len(v.order) = n + 1
      /\ \A i \in 1 .. n : v.order[i] = w.order[i]
      /\ v.order[n + 1] = t
      /\ ToSet(v.order) = ToSet(w.order) \union {t}
      /\ Distinct(v.order)
  <2>1. Distinct(w.order)
    BY DEF Traversed
  <2> QED
    BY <1>1, <1>2, <1>3, <1>4, <2>1, AppendOne
<1>10. /\ v.stack \in Seq(Tids) /\ ToSet(v.stack) = C \union ToSet(rest)
       /\ Distinct(v.stack)
  <2>1. ToSet(kids) \cap ToSet(rest) = {}
    BY <1>3, <1>6, <1>8
  <2> QED
    BY <1>2, <1>3, <1>6, <2>1, ConcatOf
<1>11. v \in Visits
  BY <1>2, <1>9, <1>10 DEF Visits
<1>12. ToSet(v.order) \cap ToSet(v.stack) = {} /\ ToSet(v.order) \union ToSet(v.stack) \subseteq S
  BY <1>3, <1>4, <1>7, <1>8, <1>9, <1>10 DEF Traversed
<1>13. \A u \in S \ (ToSet(v.order) \union ToSet(v.stack)) : base[u] \in S \ ToSet(v.order)
  BY <1>3, <1>5, <1>9, <1>10 DEF Traversed
<1>14. \A u \in ToSet(v.stack) : base[u] \in S => base[u] \in ToSet(v.order)
  BY <1>3, <1>5, <1>7, <1>9, <1>10 DEF Traversed
<1>15. ASSUME NEW i \in 1 .. (n + 1), base[v.order[i]] \in S
       PROVE  \E j \in 1 .. (i - 1) : v.order[j] = base[v.order[i]]
  <2>1. CASE i \in 1 .. n
    <3>1. PICK j \in 1 .. (i - 1) : w.order[j] = base[w.order[i]]
      BY <1>9, <1>15, <2>1 DEF Traversed
    <3>2. j \in 1 .. n
      BY <1>1, <2>1, <3>1
    <3> QED
      BY <1>9, <2>1, <3>1, <3>2
  <2>2. CASE i = n + 1
    <3>1. v.order[i] = t /\ base[t] \in ToSet(w.order)
      BY <1>3, <1>9, <1>15, <2>2 DEF Traversed
    <3>2. PICK j \in 1 .. n : w.order[j] = base[t]
      BY <1>1, <3>1 DEF ToSet
    <3>3. j \in 1 .. (i - 1) /\ v.order[j] = base[t]
      BY <1>1, <1>9, <2>2, <3>2
    <3> QED
      BY <3>1, <3>3
  <2> QED
    BY <1>1, <2>1, <2>2
<1>16. Traversed(base, S, v)
  BY <1>9, <1>10, <1>11, <1>12, <1>13, <1>14, <1>15 DEF Traversed
<1> QED
  BY <1>9, <1>16 DEF v

\* The iterations of dfs_order are a run through sound traversals.
LEMMA VisitsRun ==
    ASSUME NEW base \in Bases, NEW S \in SUBSET Tids
    PROVE  \E f \in [0 .. MaxTid -> {w \in Visits : Traversed(base, S, w)}] :
              /\ f[0] = [order |-> <<>>, stack |-> Sorted(Roots(base, S))]
              /\ \A k \in 1 .. MaxTid : f[k] = VisitNext(base, S, f[k - 1])
              /\ DfsOrder(base, S) = f[MaxTid].order
<1>0. MaxTid \in Nat
  BY MaxTidAssumption
<1> DEFINE W == {w \in Visits : Traversed(base, S, w)}
           w0 == [order |-> <<>>, stack |-> Sorted(Roots(base, S))]
           h == [k \in 1 .. MaxTid |-> [w \in W |-> VisitNext(base, S, w)]]
           Fold(it) == it = [s \in SUBSET (1 .. MaxTid) |->
                               IF s = {} THEN w0 ELSE VisitNext(base, S, it[s \ {Max(s)}])]
           iter == CHOOSE it : Fold(it)
<1>1. h \in [1 .. MaxTid -> [W -> W]]
  <2>1. ASSUME NEW w \in W PROVE VisitNext(base, S, w) \in W
    <3>1. CASE w.stack = <<>>
      BY <3>1 DEF VisitNext
    <3>2. CASE w.stack # <<>>
      <4>1. Traversed(base, S, Visit(base, S, w))
        BY <3>2, TraversalGoesOn
      <4>2. Visit(base, S, w) \in Visits
        BY <4>1 DEF Traversed
      <4> QED
        BY <3>2, <4>1, <4>2 DEF VisitNext
    <3> QED
      BY <3>1, <3>2
  <2> HIDE DEF W
  <2> QED
    BY <2>1
<1>2. w0 \in W
  BY TraversalStarts DEF Traversed
<1>3. \E it : Fold(it)
  <2> HIDE DEF W, w0
  <2>1. PICK it \in [SUBSET (1 .. MaxTid) -> W] : IsFold(it, w0, MaxTid, h)
    <3> HIDE DEF h
    <3> QED
      BY <1>0, <1>1, <1>2, FoldExists
  <2>2. ASSUME NEW s \in SUBSET (1 .. MaxTid), s # {}
        PROVE  h[Max(s)][it[s \ {Max(s)}]] = VisitNext(base, S, it[s \ {Max(s)}])
    <3>1. Max(s) \in 1 .. MaxTid /\ it[s \ {Max(s)}] \in W
      BY <1>0, <2>2, LargestOf
    <3> QED
      BY <3>1
  <2> HIDE DEF h
  <2>3. Fold(it)
    BY <2>1, <2>2 DEF IsFold
  <2> HIDE DEF Fold
  <2> QED
    BY <2>3
<1>4. Fold(iter)
  <2> HIDE DEF Fold
  <2> QED
    BY <1>3
<1>5. DfsOrder(base, S) = iter[1 .. MaxTid].order
  BY DEF DfsOrder, VisitNext, Times, FoldLeft, MapThenFoldSet, Tids
<1> HIDE DEF W, w0
<1>6. iter[{}] = w0
  BY <1>4
<1>7. ASSUME NEW k \in 1 .. MaxTid, iter[1 .. (k - 1)] \in W
      PROVE  iter[1 .. k] = h[k][iter[1 .. (k - 1)]]
  <2>1. 1 .. k \in SUBSET (1 .. MaxTid) /\ 1 .. k # {} /\ Max(1 .. k) = k /\ (1 .. k) \ {k} = 1 .. (k - 1)
    BY <1>0, PrefixOf
  <2>2. iter[1 .. k] = VisitNext(base, S, iter[1 .. (k - 1)])
    <3> HIDE DEF iter
    <3> QED
      BY <1>4, <2>1
  <2> HIDE DEF iter
  <2> QED
    BY <1>7, <2>2
<1>8. PICK f \in [0 .. MaxTid -> W] : IsRun(f, w0, MaxTid, h) /\ iter[1 .. MaxTid] = f[MaxTid]
  <2>1. Follows(iter, W, w0, MaxTid, h)
    BY <1>6, <1>7 DEF Follows
  <2> HIDE DEF iter, h
  <2> QED
    BY <1>0, <1>1, <1>2, <2>1, FoldIsRun
<1>9. ASSUME NEW k \in 1 .. MaxTid
      PROVE  f[k] = VisitNext(base, S, f[k - 1])
  <2>1. f[k] = h[k][f[k - 1]] /\ f[k - 1] \in W
    BY <1>0, <1>8 DEF IsRun
  <2> QED
    BY <2>1
<1>10. f[0] = w0
  BY <1>8 DEF IsRun
<1> HIDE DEF iter
<1> QED
  BY <1>5, <1>8, <1>9, <1>10 DEF W, w0

\* dfs_order lists a closure without a cycle: each tensor once, after its base.
LEMMA DfsLists ==
    ASSUME NEW base \in Bases, NEW S \in SUBSET Tids, ~HasCycle(base, S)
    PROVE  LET o == DfsOrder(base, S)
           IN  /\ o \in Seq(Tids) /\ Distinct(o) /\ ToSet(o) = S
               /\ \A i \in 1 .. Len(o) : base[o[i]] \in S =>
                     \E j \in 1 .. (i - 1) : o[j] = base[o[i]]
<1>0. MaxTid \in Nat \ {0}
  BY MaxTidAssumption
<1> DEFINE W == {w \in Visits : Traversed(base, S, w)}
<1>1. PICK f \in [0 .. MaxTid -> W] :
              /\ f[0] = [order |-> <<>>, stack |-> Sorted(Roots(base, S))]
              /\ \A k \in 1 .. MaxTid : f[k] = VisitNext(base, S, f[k - 1])
              /\ DfsOrder(base, S) = f[MaxTid].order
  BY VisitsRun
<1> DEFINE T == {k \in 0 .. MaxTid : f[k].stack = <<>> \/ Len(f[k].order) = k}
<1>2. 0 \in T
  <2>1. f[0].order = <<>> /\ Len(<<>>) = 0 /\ 0 \in 0 .. MaxTid
    BY <1>0, <1>1
  <2> QED
    BY <2>1
<1>3. ASSUME NEW k \in 0 .. MaxTid - 1, k \in T
      PROVE  k + 1 \in T
  <2>1. PICK j \in 1 .. MaxTid : j = k + 1
    BY <1>0
  <2>2. j - 1 = k /\ j \in 0 .. MaxTid /\ k \in 0 .. MaxTid
    BY <1>0, <2>1
  <2>3. PICK w \in W : w = f[k]
    BY <2>2
  <2>4. f[j] = VisitNext(base, S, w)
    BY <1>1, <2>2, <2>3
  <2>5. Traversed(base, S, w)
    OBVIOUS
  <2> HIDE DEF W
  <2>6. CASE w.stack = <<>>
    BY <2>1, <2>2, <2>4, <2>6 DEF VisitNext
  <2>7. CASE w.stack # <<>>
    <3>1. Len(w.order) = k
      BY <1>3, <2>3, <2>7
    <3>2. Len(Visit(base, S, w).order) = Len(w.order) + 1
      BY <2>5, <2>7, TraversalGoesOn
    <3> QED
      BY <2>1, <2>2, <2>4, <2>7, <3>1, <3>2 DEF VisitNext
  <2> QED
    BY <2>6, <2>7
<1>4. MaxTid \in T
  <2>1. 0 .. MaxTid \subseteq T
    <3> HIDE DEF T
    <3> QED
      BY <1>0, <1>2, <1>3, InductionUpTo
  <2> QED
    BY <1>0, <2>1
<1>5. PICK w \in W : w = f[MaxTid]
  BY <1>0
<1>6. /\ Traversed(base, S, w) /\ DfsOrder(base, S) = w.order
      /\ w.order \in Seq(Tids) /\ w.stack \in Seq(Tids)
      /\ w.stack = <<>> \/ Len(w.order) = MaxTid
  BY <1>1, <1>4, <1>5 DEF Visits
<1> HIDE DEF W, T
<1>7. w.stack = <<>>
  <2>1. ASSUME w.stack # <<>> PROVE FALSE
    <3>1. Len(w.order) = MaxTid /\ Head(w.stack) \in Tids /\ Head(w.stack) \notin ToSet(w.order)
      BY <1>6, <2>1, TailOf DEF Traversed
    <3>2. IsFiniteSet(ToSet(w.order)) /\ Cardinality(ToSet(w.order)) = MaxTid
      BY <1>6, <3>1, DistinctLength DEF Traversed
    <3>3. ToSet(w.order) \in SUBSET Tids
      BY <1>6 DEF Traversed
    <3> DEFINE Q == ToSet(w.order) \union {Head(w.stack)}
    <3>4. Q \subseteq Tids /\ Cardinality(Q) = MaxTid + 1
      BY <1>0, <3>1, <3>2, <3>3, FS_AddElement
    <3>5. IsFiniteSet(Tids) /\ Cardinality(Tids) = MaxTid
      <4>1. 1 \in Int /\ MaxTid \in Int
        BY <1>0
      <4>2. IsFiniteSet(1 .. MaxTid)
            /\ Cardinality(1 .. MaxTid) = IF 1 > MaxTid THEN 0 ELSE MaxTid - 1 + 1
        BY <4>1, FS_Interval
      <4> QED
        BY <1>0, <4>2 DEF Tids
    <3>6. Cardinality(Q) <= Cardinality(Tids)
      <4> HIDE DEF Q
      <4> QED
        BY <3>4, <3>5, FS_Subset
    <3> QED
      BY <1>0, <3>4, <3>5, <3>6
  <2> QED
    BY <2>1
<1>8. ToSet(w.stack) = {}
  BY <1>7 DEF ToSet
<1>9. ToSet(w.order) = S
  <2> DEFINE rest == S \ ToSet(w.order)
  <2>1. rest \in SUBSET S /\ \A t \in rest : base[t] \in rest
    BY <1>6, <1>8 DEF Traversed
  <2>2. rest = {}
    <3> HIDE DEF rest
    <3> QED
      BY <2>1, NoCycle
  <2> QED
    BY <1>6, <2>2 DEF Traversed
<1> QED
  BY <1>6, <1>9 DEF Traversed

=============================================================================
