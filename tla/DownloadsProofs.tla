--------------------------- MODULE DownloadsProofs ---------------------------
(***************************************************************************)
(* Proofs about Downloads, for any catalogue, any jobs, sizes, budget and  *)
(* shard limit, and any faults of the transfers.                           *)
(***************************************************************************)
EXTENDS Downloads, ClosuresProofs

-----------------------------------------------------------------------------
(* The shards: where the parameters lie *)

Slots == [tid : 0 .. MaxTid, shard : Nat, at : Nat, len : Nat]
FirstSlot == [tid |-> 0, shard |-> 1, at |-> 0, len |-> 0]

\* One slot lies before another: in an earlier shard, or below it.
Before(r, s) == r.shard < s.shard \/ (r.shard = s.shard /\ r.at + r.len <= s.at)

\* The slots that have been placed, each behind those before it.
Laid == {w \in Seq(Slots) : w # <<>> /\ \A i, j \in 1 .. Len(w) : i < j => Before(w[i], w[j])}

\* Lying before is transitive.
LEMMA BeforeTransitive ==
    ASSUME NEW r \in Slots, NEW s \in Slots, NEW u \in Slots, Before(r, s), Before(s, u)
    PROVE  Before(r, u)
<1>1. \A x \in {r, s, u} : x.shard \in Nat /\ x.at \in Nat /\ x.len \in Nat
  BY DEF Slots
<1>2. PICK a, b, c, d, e, g, h, i \in Nat :
         /\ a = r.shard /\ b = r.at /\ c = r.len /\ d = s.shard /\ e = s.at /\ g = s.len
         /\ h = u.shard /\ i = u.at
  BY <1>1
<1>3. (a < d \/ (a = d /\ b + c <= e)) /\ (d < h \/ (d = h /\ e + g <= i))
  BY <1>2 DEF Before
<1>4. a < h \/ (a = h /\ b + c <= i)
  BY <1>3
<1> QED
  BY <1>2, <1>4 DEF Before

\* Slots of which one lies before the other share no byte.
LEMMA BeforeApart ==
    ASSUME NEW r \in Slots, NEW s \in Slots, Before(r, s), NEW b, b \in Span(r), b \in Span(s)
    PROVE  FALSE
<1>1. \A x \in {r, s} : x.shard \in Nat /\ x.at \in Nat /\ x.len \in Nat
  BY DEF Slots
<1>2. PICK p, q, m, n \in Nat : p = r.at /\ q = s.at /\ m = r.len /\ n = s.len
  BY <1>1
<1>3. PICK x \in p .. p + m - 1 : b = <<r.shard, x>>
  BY <1>2 DEF Span
<1>4. PICK y \in q .. q + n - 1 : b = <<s.shard, y>>
  BY <1>2 DEF Span
<1>5. x = y /\ r.shard = s.shard
  BY <1>3, <1>4
<1>6. p + m <= q
  <2>1. ~(r.shard < s.shard)
    BY <1>1, <1>5
  <2> QED
    BY <1>2, <2>1 DEF Before
<1> QED
  BY <1>5, <1>6

\* A placed parameter is the last slot, and lies behind all others.
LEMMA PlacedBehind ==
    ASSUME NEW w \in Laid, NEW t \in Tids
    PROVE  /\ Placed(w, t) \in Laid /\ Len(Placed(w, t)) = Len(w) + 1
           /\ Len(w) \in Nat \ {0}
           /\ \A i \in 1 .. Len(w) : Placed(w, t)[i] = w[i]
           /\ Placed(w, t)[Len(w) + 1].tid = t
           /\ Placed(w, t)[Len(w) + 1].len = Logical[t]
<1> DEFINE last == Last(w)
           next == last.at + last.len
           fits == last.tid = 0 \/ next + Logical[t] <= MaxShardBytes
           slot == [tid |-> t, shard |-> IF fits THEN last.shard ELSE last.shard + 1,
                    at |-> IF fits THEN next ELSE 0, len |-> Logical[t]]
           v == Append(w, slot)
<1>1. Placed(w, t) = v
  BY DEF Placed
<1>2. Len(w) \in Nat \ {0} /\ w \in Seq(Slots) /\ last = w[Len(w)] /\ last \in Slots
  BY DEF Laid, Last
<1>3. slot \in Slots /\ slot.tid = t /\ slot.len = Logical[t]
  <2>1. Logical[t] \in Nat /\ t \in 0 .. MaxTid
    BY DownloadsAssumption, MaxTidAssumption DEF Tids
  <2>2. last.shard \in Nat /\ last.shard + 1 \in Nat /\ next \in Nat
    BY <1>2 DEF Slots
  <2> QED
    BY <2>1, <2>2 DEF Slots
<1>4. Before(last, slot)
  BY <1>2, <1>3 DEF Before, Slots
<1>5. /\ v \in Seq(Slots) /\ Len(v) = Len(w) + 1 /\ v[Len(w) + 1] = slot
      /\ \A i \in 1 .. Len(w) : v[i] = w[i]
  <2> HIDE DEF slot
  <2> QED
    BY <1>2, <1>3, AppendOne
<1> HIDE DEF v, slot, last
<1>6. ASSUME NEW i \in 1 .. Len(w) PROVE Before(w[i], slot)
  <2>1. i = Len(w) \/ Before(w[i], last)
    BY <1>2 DEF Laid
  <2>2. w[i] \in Slots
    BY <1>2
  <2>3. CASE Before(w[i], last)
    BY <1>2, <1>3, <1>4, <2>2, <2>3, BeforeTransitive
  <2> QED
    BY <1>2, <1>4, <2>1, <2>3 DEF Last
<1>7. ASSUME NEW i \in 1 .. Len(v), NEW j \in 1 .. Len(v), i < j
      PROVE  Before(v[i], v[j])
  <2>1. i \in 1 .. Len(w)
    BY <1>2, <1>5, <1>7
  <2>2. CASE j = Len(w) + 1
    BY <1>5, <1>6, <2>1, <2>2
  <2>3. CASE j # Len(w) + 1
    <3>1. j \in 1 .. Len(w)
      BY <1>2, <1>5, <2>3
    <3> QED
      BY <1>5, <1>7, <2>1, <3>1 DEF Laid
  <2> QED
    BY <2>2, <2>3
<1>8. v # <<>>
  BY <1>2, <1>5
<1> QED
  BY <1>1, <1>2, <1>3, <1>5, <1>7, <1>8 DEF Laid

\* The fold that lays out the shards is a run.
LEMMA LayoutRun ==
    ASSUME NEW params \in Seq(Tids)
    PROVE  \E f \in [0 .. Len(params) -> Laid] :
              /\ f[0] = <<FirstSlot>>
              /\ \A k \in 1 .. Len(params) : f[k] = Placed(f[k - 1], params[k])
              /\ Layout(params) = Tail(f[Len(params)])
<1> DEFINE n == Len(params)
           w0 == <<FirstSlot>>
           h == [k \in 1 .. n |-> [w \in Laid |-> Placed(w, params[k])]]
           Fold(it) == it = [s \in SUBSET (1 .. n) |->
                               IF s = {} THEN w0 ELSE Placed(it[s \ {Max(s)}], params[Max(s)])]
           iter == CHOOSE it : Fold(it)
<1>n. n \in Nat
  OBVIOUS
<1>0. n \in Nat /\ DOMAIN params = 1 .. n /\ \A k \in 1 .. n : params[k] \in Tids
  OBVIOUS
<1>1. w0 \in Laid
  BY MaxTidAssumption DEF Laid, Slots, FirstSlot
<1>2. Layout(params) = Tail(iter[1 .. n])
  BY <1>0 DEF Layout, FirstSlot, FoldLeft, MapThenFoldSet
<1> HIDE DEF n, w0
<1>3. h \in [1 .. n -> [Laid -> Laid]]
  BY <1>0, PlacedBehind
<1>4. \E it : Fold(it)
  <2>1. PICK it \in [SUBSET (1 .. n) -> Laid] : IsFold(it, w0, n, h)
    <3> HIDE DEF h
    <3> QED
      BY <1>0, <1>1, <1>3, FoldExists
  <2>2. ASSUME NEW s \in SUBSET (1 .. n), s # {}
        PROVE  h[Max(s)][it[s \ {Max(s)}]] = Placed(it[s \ {Max(s)}], params[Max(s)])
    <3>1. Max(s) \in 1 .. n /\ it[s \ {Max(s)}] \in Laid
      BY <1>0, <2>2, LargestOf
    <3> QED
      BY <3>1
  <2> HIDE DEF h
  <2>3. Fold(it)
    BY <2>1, <2>2 DEF IsFold
  <2> HIDE DEF Fold
  <2> QED
    BY <2>3
<1>5. Fold(iter)
  <2> HIDE DEF Fold
  <2> QED
    BY <1>4
<1>6. iter[{}] = w0
  BY <1>5
<1>7. ASSUME NEW k \in 1 .. n, iter[1 .. (k - 1)] \in Laid
      PROVE  iter[1 .. k] = h[k][iter[1 .. (k - 1)]]
  <2>1. 1 .. k \in SUBSET (1 .. n) /\ 1 .. k # {} /\ Max(1 .. k) = k /\ (1 .. k) \ {k} = 1 .. (k - 1)
    BY <1>0, PrefixOf
  <2>2. iter[1 .. k] = Placed(iter[1 .. (k - 1)], params[k])
    <3> HIDE DEF iter
    <3> QED
      BY <1>5, <2>1
  <2> HIDE DEF iter
  <2> QED
    BY <1>7, <2>2
<1>8. PICK f \in [0 .. n -> Laid] : IsRun(f, w0, n, h) /\ iter[1 .. n] = f[n]
  <2>1. Follows(iter, Laid, w0, n, h)
    BY <1>6, <1>7 DEF Follows
  <2> HIDE DEF iter, h
  <2> QED
    BY <1>n, <1>1, <1>3, <2>1, FoldIsRun
<1>9. ASSUME NEW k \in 1 .. n
      PROVE  f[k] = Placed(f[k - 1], params[k])
  <2>1. f[k] = h[k][f[k - 1]] /\ f[k - 1] \in Laid
    BY <1>0, <1>8 DEF IsRun
  <2> QED
    BY <2>1
<1> QED
  BY <1>2, <1>8, <1>9 DEF w0, n, IsRun

\* Every parameter has a slot of its own, as long as its tensor, and no byte
\* is in two.
LEMMA LayoutFacts ==
    ASSUME NEW params \in Seq(Tids)
    PROVE  LET slots == Layout(params)
           IN  /\ slots \in Seq(Slots) /\ Len(slots) = Len(params)
               /\ \A i \in DOMAIN params : slots[i].tid = params[i] /\ slots[i].len = Logical[params[i]]
               /\ \A i, j \in DOMAIN params : \A b :
                     b \in Span(slots[i]) /\ b \in Span(slots[j]) => i = j
<1> DEFINE n == Len(params)
           slots == Layout(params)
<1>0. n \in Nat /\ DOMAIN params = 1 .. n /\ \A k \in 1 .. n : params[k] \in Tids
  OBVIOUS
<1>1. PICK f \in [0 .. n -> Laid] :
              /\ f[0] = <<FirstSlot>>
              /\ \A k \in 1 .. n : f[k] = Placed(f[k - 1], params[k])
              /\ slots = Tail(f[n])
  BY LayoutRun
<1> DEFINE Is(k) ==
             /\ Len(f[k]) = k + 1
             /\ \A i \in 1 .. k : f[k][i + 1].tid = params[i] /\ f[k][i + 1].len = Logical[params[i]]
           T == {k \in 0 .. n : Is(k)}
<1> HIDE DEF slots, n
<1>2. 0 \in T
  <2>1. Is(0)
    BY <1>1
  <2> QED
    BY <1>0, <2>1
<1>3. ASSUME NEW k \in 0 .. n - 1, k \in T PROVE k + 1 \in T
  <2>1. PICK j \in 1 .. n : j = k + 1
    BY <1>0
  <2>2. f[k] \in Laid /\ f[j] = Placed(f[k], params[j]) /\ params[j] \in Tids
    <3>1. k \in 0 .. n /\ j - 1 = k
      BY <1>0, <2>1
    <3> QED
      BY <1>0, <1>1, <3>1
  <2>3. Len(f[k]) = j /\ Is(k)
    BY <1>3, <2>1
  <2>4. /\ Len(f[j]) = j + 1 /\ f[j][j + 1].tid = params[j] /\ f[j][j + 1].len = Logical[params[j]]
        /\ \A i \in 1 .. j : f[j][i] = f[k][i]
    <3>1. PICK w \in Laid : w = f[k]
      BY <2>2
    <3>2. /\ Len(f[j]) = Len(w) + 1 /\ f[j][Len(w) + 1].tid = params[j]
          /\ f[j][Len(w) + 1].len = Logical[params[j]]
          /\ \A i \in 1 .. Len(w) : f[j][i] = w[i]
      <4>1. PICK t \in Tids : t = params[j]
        BY <2>2
      <4>2. /\ Len(Placed(w, t)) = Len(w) + 1 /\ Placed(w, t)[Len(w) + 1].tid = t
            /\ Placed(w, t)[Len(w) + 1].len = Logical[t]
            /\ \A i \in 1 .. Len(w) : Placed(w, t)[i] = w[i]
        BY PlacedBehind
      <4>3. f[j] = Placed(w, t)
        BY <2>2, <3>1, <4>1
      <4> QED
        BY <4>1, <4>2, <4>3
    <3> QED
      BY <2>3, <3>1, <3>2
  <2>5. ASSUME NEW i \in 1 .. j
        PROVE  f[j][i + 1].tid = params[i] /\ f[j][i + 1].len = Logical[params[i]]
    <3>1. CASE i = j
      BY <2>4, <3>1
    <3>2. CASE i # j
      <4>1. i \in 1 .. k /\ i + 1 \in 1 .. j
        BY <2>1, <3>2
      <4> QED
        BY <2>3, <2>4, <4>1
    <3> QED
      BY <3>1, <3>2
  <2>6. Is(j)
    BY <2>4, <2>5
  <2> HIDE DEF Is
  <2> QED
    BY <1>0, <2>1, <2>6
<1>4. Is(n) /\ f[n] \in Laid
  <2> HIDE DEF T
  <2>1. 0 .. n \subseteq T
    BY <1>0, <1>2, <1>3, InductionUpTo
  <2> QED
    BY <1>0, <1>1, <2>1 DEF T
<1>5. /\ slots \in Seq(Slots) /\ Len(slots) = n
      /\ \A i \in 1 .. n : slots[i] = f[n][i + 1]
  <2>1. f[n] \in Seq(Slots) /\ f[n] # <<>> /\ Len(f[n]) = n + 1
    BY <1>4 DEF Laid
  <2> QED
    BY <1>0, <1>1, <2>1, TailOf
<1>6. ASSUME NEW i \in 1 .. n, NEW j \in 1 .. n, i < j,
             NEW b, b \in Span(slots[i]), b \in Span(slots[j])
      PROVE  FALSE
  <2>1. Before(slots[i], slots[j])
    <3>1. i + 1 \in 1 .. n + 1 /\ j + 1 \in 1 .. n + 1 /\ i + 1 < j + 1
      BY <1>0, <1>6
    <3>2. Before(f[n][i + 1], f[n][j + 1])
      BY <1>4, <3>1 DEF Laid
    <3> QED
      BY <1>5, <3>2
  <2>2. slots[i] \in Slots /\ slots[j] \in Slots
    BY <1>0, <1>5
  <2> QED
    BY <1>6, <2>1, <2>2, BeforeApart
<1>7. \A i, j \in 1 .. n : \A b : b \in Span(slots[i]) /\ b \in Span(slots[j]) => i = j
  <2>1. ASSUME NEW i \in 1 .. n, NEW j \in 1 .. n, i # j,
               NEW b, b \in Span(slots[i]), b \in Span(slots[j])
        PROVE  FALSE
    <3>1. i < j \/ j < i
      BY <1>0, <2>1
    <3> QED
      BY <1>6, <2>1, <3>1
  <2> QED
    BY <2>1
<1>8. \A i \in 1 .. n : slots[i].tid = params[i] /\ slots[i].len = Logical[params[i]]
  BY <1>4, <1>5
<1> QED
  BY <1>0, <1>5, <1>7, <1>8 DEF slots, n

-----------------------------------------------------------------------------
(* The bytes that have been written *)

\* f[k] is the size of those of the first k parameters that are in D.
IsSize(f, params, D) ==
    /\ f[0] = 0
    /\ \A k \in 1 .. Len(params) :
          f[k] = f[k - 1] + (IF params[k] \in D THEN Logical[params[k]] ELSE 0)

Sizes(params, D) == CHOOSE f \in [0 .. Len(params) -> Nat] : IsSize(f, params, D)

\* The size of the parameters whose tensors are in D.
SizeOf(params, D) == Sizes(params, D)[Len(params)]

\* The sizes exist.
LEMMA SizesExist ==
    ASSUME NEW params \in Seq(Tids), NEW D
    PROVE  Sizes(params, D) \in [0 .. Len(params) -> Nat] /\ IsSize(Sizes(params, D), params, D)
<1> DEFINE n == Len(params)
           w(k) == IF params[k] \in D THEN Logical[params[k]] ELSE 0
           h == [k \in 1 .. n |-> [m \in Nat |-> m + w(k)]]
<1>0. n \in Nat /\ \A k \in 1 .. n : params[k] \in Tids
  OBVIOUS
<1>1. h \in [1 .. n -> [Nat -> Nat]]
  <2>1. ASSUME NEW k \in 1 .. n, NEW m \in Nat PROVE m + w(k) \in Nat
    BY <1>0, DownloadsAssumption
  <2> HIDE DEF w
  <2> QED
    BY <2>1
<1>2. PICK f \in [0 .. n -> Nat] : IsRun(f, 0, n, h)
  <2>1. n \in Nat
    BY <1>0
  <2> HIDE DEF h, n
  <2> QED
    BY <1>1, <2>1, RunExists
<1>3. IsSize(f, params, D)
  <2>1. ASSUME NEW k \in 1 .. n PROVE f[k] = f[k - 1] + w(k)
    <3>1. f[k] = h[k][f[k - 1]] /\ f[k - 1] \in Nat
      <4>1. k - 1 \in 0 .. n
        BY <1>0
      <4> HIDE DEF h, n
      <4> QED
        BY <1>2, <2>1, <4>1 DEF IsRun
    <3> HIDE DEF w
    <3> QED
      BY <3>1
  <2> QED
    BY <1>2, <2>1 DEF IsSize, IsRun
<1> QED
  BY <1>3 DEF Sizes

\* Nothing written is no bytes.
LEMMA SizeOfNone ==
    ASSUME NEW params \in Seq(Tids)
    PROVE  SizeOf(params, {}) = 0
<1> DEFINE n == Len(params)
           f == Sizes(params, {})
           T == {k \in 0 .. n : f[k] = 0}
<1>0. n \in Nat
  OBVIOUS
<1>1. IsSize(f, params, {})
  BY SizesExist
<1> HIDE DEF f
<1>2. 0 \in T
  BY <1>0, <1>1 DEF IsSize
<1>3. ASSUME NEW k \in 0 .. n - 1, k \in T PROVE k + 1 \in T
  <2>1. k + 1 \in 1 .. n /\ (k + 1) - 1 = k /\ k + 1 \in 0 .. n
    BY <1>0
  <2>2. f[k + 1] = f[(k + 1) - 1] + 0
    BY <2>1, <1>1 DEF IsSize
  <2> QED
    BY <1>3, <2>1, <2>2
<1>4. n \in T
  <2> HIDE DEF T
  <2>1. 0 .. n \subseteq T
    BY <1>0, <1>2, <1>3, InductionUpTo
  <2> QED
    BY <1>0, <2>1
<1> QED
  BY <1>4 DEF f, SizeOf

\* A tensor that is written adds its size once for each of its parameters.
LEMMA SizeGrows ==
    ASSUME NEW params \in Seq(Tids), NEW D, NEW t \in Tids, t \notin D
    PROVE  SizeOf(params, D \union {t}) = SizeOf(params, D) + Copies(params, t) * Logical[t]
<1> DEFINE n == Len(params)
           f == Sizes(params, D)
           g == Sizes(params, D \union {t})
           L == Logical[t]
           C(k) == {i \in 1 .. k : params[i] = t}
           Is(k) == IsFiniteSet(C(k)) /\ g[k] = f[k] + Cardinality(C(k)) * L
           T == {k \in 0 .. n : Is(k)}
<1>0. n \in Nat /\ L \in Nat /\ DOMAIN params = 1 .. n
  BY DownloadsAssumption
<1>1. f \in [0 .. n -> Nat] /\ IsSize(f, params, D) /\ g \in [0 .. n -> Nat] /\ IsSize(g, params, D \union {t})
  BY SizesExist
<1> HIDE DEF f, g, L
<1>2. 0 \in T
  <2>1. C(0) = {}
    OBVIOUS
  <2>2. IsFiniteSet(C(0)) /\ Cardinality(C(0)) = 0
    BY <2>1, FS_EmptySet
  <2>3. f[0] = 0 /\ g[0] = 0 /\ 0 * L = 0
    BY <1>0, <1>1 DEF IsSize
  <2>4. Is(0)
    <3> HIDE DEF C
    <3> QED
      BY <2>2, <2>3
  <2> HIDE DEF Is
  <2> QED
    BY <1>0, <2>4
<1>3. ASSUME NEW k \in 0 .. n - 1, k \in T PROVE k + 1 \in T
  <2>1. PICK j \in 1 .. n : j = k + 1
    BY <1>0
  <2>2. j - 1 = k /\ j \in 0 .. n /\ k \in 0 .. n
    BY <1>0, <2>1
  <2>3. /\ f[j] = f[k] + (IF params[j] \in D THEN Logical[params[j]] ELSE 0)
        /\ g[j] = g[k] + (IF params[j] \in D \union {t} THEN Logical[params[j]] ELSE 0)
    <3>1. /\ f[j] = f[j - 1] + (IF params[j] \in D THEN Logical[params[j]] ELSE 0)
          /\ g[j] = g[j - 1] + (IF params[j] \in D \union {t} THEN Logical[params[j]] ELSE 0)
      BY <1>1 DEF IsSize
    <3> QED
      BY <2>2, <3>1
  <2>4. /\ IsFiniteSet(C(k)) /\ g[k] = f[k] + Cardinality(C(k)) * L
        /\ f[k] \in Nat /\ g[k] \in Nat
    BY <1>1, <1>3, <2>2
  <2>5. Cardinality(C(k)) \in Nat
    <3> HIDE DEF C
    <3> QED
      BY <2>4, FS_CardinalityType
  <2>6. Is(j)
    <3>1. CASE params[j] = t
      <4>1. C(j) = C(k) \union {j} /\ j \notin C(k)
        BY <2>1, <2>2, <3>1
      <4>2. IsFiniteSet(C(j)) /\ Cardinality(C(j)) = Cardinality(C(k)) + 1
        <5> HIDE DEF C
        <5> QED
          BY <2>4, <4>1, FS_AddElement
      <4>3. f[j] = f[k] /\ g[j] = g[k] + L
        <5>1. f[j] = f[k] + 0 /\ g[j] = g[k] + L
          BY <2>3, <3>1 DEF L
        <5> QED
          BY <2>4, <5>1
      <4>4. ASSUME NEW c \in Nat PROVE (c + 1) * L = c * L + L /\ c * L \in Nat
        BY <1>0
      <4>5. g[j] = f[j] + Cardinality(C(j)) * L
        <5> HIDE DEF C
        <5> QED
          BY <1>0, <2>4, <2>5, <4>2, <4>3, <4>4
      <4> QED
        BY <4>2, <4>5
    <3>2. CASE params[j] # t
      <4>1. C(j) = C(k)
        BY <2>1, <2>2, <3>2
      <4>2. PICK d \in Nat : f[j] = f[k] + d /\ g[j] = g[k] + d
        <5>1. (IF params[j] \in D THEN Logical[params[j]] ELSE 0) \in Nat
          BY DownloadsAssumption
        <5>2. params[j] \in D \union {t} <=> params[j] \in D
          BY <3>2
        <5> QED
          BY <2>3, <5>1, <5>2
      <4>3. ASSUME NEW c \in Nat PROVE c * L \in Nat
        BY <1>0
      <4>4. g[j] = f[j] + Cardinality(C(j)) * L
        <5> HIDE DEF C
        <5> QED
          BY <1>0, <2>4, <2>5, <4>1, <4>2, <4>3
      <4> QED
        BY <2>4, <4>1, <4>4
    <3> QED
      BY <3>1, <3>2
  <2> HIDE DEF Is
  <2> QED
    BY <2>1, <2>2, <2>6
<1>4. Is(n)
  <2> HIDE DEF T
  <2>1. 0 .. n \subseteq T
    BY <1>0, <1>2, <1>3, InductionUpTo
  <2>2. n \in T
    BY <1>0, <2>1
  <2> HIDE DEF Is
  <2> QED
    BY <2>2 DEF T
<1>5. C(n) = {i \in DOMAIN params : params[i] = t}
  BY <1>0
<1> QED
  BY <1>4, <1>5 DEF f, g, L, SizeOf, Copies

\* When every tensor is written, all bytes are.
LEMMA TotalIsSize ==
    ASSUME NEW params \in Seq(Tids), NEW D, \A i \in DOMAIN params : params[i] \in D
    PROVE  TotalBytes(params) = SizeOf(params, D)
<1> DEFINE n == Len(params)
           h == [k \in 1 .. n |-> [m \in Nat |-> m + Logical[params[k]]]]
           Fold(it) == it = [s \in SUBSET (1 .. n) |->
                               IF s = {} THEN 0 ELSE it[s \ {Max(s)}] + Logical[params[Max(s)]]]
           iter == CHOOSE it : Fold(it)
<1>n. n \in Nat
  OBVIOUS
<1>0. DOMAIN params = 1 .. n /\ \A k \in 1 .. n : params[k] \in Tids /\ params[k] \in D
  OBVIOUS
<1>1. TotalBytes(params) = iter[1 .. n]
  BY <1>0 DEF TotalBytes, FoldLeft, MapThenFoldSet
<1>2. h \in [1 .. n -> [Nat -> Nat]]
  <2>1. ASSUME NEW k \in 1 .. n, NEW m \in Nat PROVE m + Logical[params[k]] \in Nat
    BY <1>0, DownloadsAssumption
  <2> QED
    BY <2>1
<1>3. \E it : Fold(it)
  <2>1. PICK it \in [SUBSET (1 .. n) -> Nat] : IsFold(it, 0, n, h)
    <3> HIDE DEF h, n
    <3>1. 0 \in Nat
      OBVIOUS
    <3> QED
      BY <1>n, <1>2, <3>1, FoldExists
  <2>2. ASSUME NEW s \in SUBSET (1 .. n), s # {}
        PROVE  h[Max(s)][it[s \ {Max(s)}]] = it[s \ {Max(s)}] + Logical[params[Max(s)]]
    <3>1. Max(s) \in 1 .. n /\ it[s \ {Max(s)}] \in Nat
      BY <1>n, <2>2, LargestOf
    <3> QED
      BY <3>1
  <2> HIDE DEF h
  <2>3. Fold(it)
    BY <2>1, <2>2 DEF IsFold
  <2> HIDE DEF Fold
  <2> QED
    BY <2>3
<1>4. Fold(iter)
  <2> HIDE DEF Fold
  <2> QED
    BY <1>3
<1>5. iter[{}] = 0
  BY <1>4
<1>6. ASSUME NEW k \in 1 .. n
      PROVE  iter[1 .. k] = iter[1 .. (k - 1)] + Logical[params[k]]
  <2>1. 1 .. k \in SUBSET (1 .. n) /\ 1 .. k # {} /\ Max(1 .. k) = k /\ (1 .. k) \ {k} = 1 .. (k - 1)
    BY <1>n, PrefixOf
  <2> HIDE DEF iter
  <2> QED
    BY <1>4, <2>1
<1> DEFINE f == Sizes(params, D)
           T == {k \in 0 .. n : iter[1 .. k] = f[k]}
<1>7. IsSize(f, params, D)
  BY SizesExist
<1> HIDE DEF f, iter, h
<1>8. 0 \in T
  <2>1. 1 .. 0 = {} /\ f[0] = 0 /\ 0 \in 0 .. n
    BY <1>n, <1>7 DEF IsSize
  <2> QED
    BY <1>5, <2>1
<1>9. ASSUME NEW k \in 0 .. n - 1, k \in T PROVE k + 1 \in T
  <2>1. PICK j \in 1 .. n : j = k + 1
    BY <1>n
  <2>2. j - 1 = k /\ j \in 0 .. n
    BY <1>n, <2>1
  <2>3. f[j] = f[j - 1] + Logical[params[j]]
    BY <1>0, <1>7 DEF IsSize
  <2>4. iter[1 .. j] = iter[1 .. (j - 1)] + Logical[params[j]]
    BY <1>6
  <2>5. iter[1 .. j] = f[j]
    BY <1>9, <2>2, <2>3, <2>4
  <2> QED
    BY <2>1, <2>2, <2>5
<1>10. n \in T
  <2> HIDE DEF T
  <2>1. 0 .. n \subseteq T
    BY <1>n, <1>8, <1>9, InductionUpTo
  <2> QED
    BY <1>n, <2>1
<1> QED
  BY <1>1, <1>10 DEF f, SizeOf

-----------------------------------------------------------------------------
(* The order of the fetches *)

Resolves(j) == FromHub(j) => Resolved(j).error = "none"

\* The order has every tensor that a parameter needs, once; the order of a
\* resolved manifest has its closure, each tensor behind its base.
LEMMA OrderFacts ==
    ASSUME NEW j \in Jobs, Resolves(j)
    PROVE  LET o == FetchOrder(j)
           IN  /\ o \in Seq(Tids) /\ Distinct(o)
               /\ \A i \in DOMAIN j.params : j.params[i] \in Range(o)
               /\ FromHub(j) =>
                     /\ Range(o) = Resolved(j).closure
                     /\ \A i \in 1 .. Len(o) :
                           j.base[o[i]] = 0 \/ \E k \in 1 .. (i - 1) : o[k] = j.base[o[i]]
<1> DEFINE o == FetchOrder(j)
           P == Range(j.params)
<1>1. /\ j.base \in Bases /\ j.params \in Seq(Tids)
      /\ P \in SUBSET Tids /\ \A i \in DOMAIN j.params : j.params[i] \in P
  BY DownloadsAssumption DEF Range
<1>2. \A s \in Seq(Tids) : Range(s) = ToSet(s)
  BY DEF Range, ToSet
<1> HIDE DEF P
<1>3. CASE FromHub(j)
  <2>1. BuildManifest(Tids, j.base, P).error = "none"
    BY <1>3 DEF Resolves, Resolved, P
  <2>2. PICK S \in SUBSET Tids :
           /\ S = BuildManifest(Tids, j.base, P).closure
           /\ P \subseteq S /\ \A t \in S : j.base[t] \in S \union {0} /\ ~HasCycle(j.base, S)
    <3>1. PICK b \in Bases : b = j.base
      BY <1>1
    <3> QED
      BY <1>1, <2>1, <3>1, ManifestIsExact
  <2>3. o = DfsOrder(j.base, S) /\ S = Resolved(j).closure
    BY <1>3, <2>2 DEF FetchOrder, Resolved, P
  <2>4. /\ o \in Seq(Tids) /\ Distinct(o) /\ ToSet(o) = S
        /\ \A i \in 1 .. Len(o) : j.base[o[i]] \in S =>
              \E k \in 1 .. (i - 1) : o[k] = j.base[o[i]]
    <3>1. PICK b \in Bases : b = j.base
      BY <1>1
    <3>2. ~HasCycle(b, S)
      BY <2>2, <3>1 DEF HasCycle
    <3> QED
      BY <2>3, <3>1, <3>2, DfsLists
  <2>5. ASSUME NEW i \in 1 .. Len(o)
        PROVE  j.base[o[i]] = 0 \/ \E k \in 1 .. (i - 1) : o[k] = j.base[o[i]]
    <3>1. o[i] \in S
      BY <2>4 DEF ToSet
    <3> QED
      BY <2>2, <2>4, <3>1
  <2> HIDE DEF o
  <2> QED
    BY <1>1, <1>2, <2>2, <2>3, <2>4, <2>5 DEF o
<1>4. CASE ~FromHub(j)
  <2>1. o = Sorted(P)
    BY <1>4 DEF FetchOrder, P
  <2>2. o \in Seq(P) /\ Distinct(o) /\ ToSet(o) = P
    BY <1>1, <2>1, SortedLists
  <2>3. o \in Seq(Tids)
    BY <1>1, <2>2
  <2> HIDE DEF o
  <2> QED
    BY <1>1, <1>2, <1>4, <2>2, <2>3 DEF o
<1> QED
  BY <1>3, <1>4

-----------------------------------------------------------------------------
(* The inductive invariant *)

Statuses == {"queued", "getting", "got", "damaged", "failed", "cached"}
Counts == UNION {[D -> Nat] : D \in SUBSET Tids}

Clients ==
    [pc : {"resting", "next", "await", "check", "closing", "ok", "failed"},
     order : Seq(Tids), fetch : Seq(Statuses), tries : Seq(Nat), spent : Int, head : Nat,
     done : Nat, out : 0 .. MaxTid, refs : Counts, held : SUBSET Tids, bytes : Nat,
     faulty : BOOLEAN, runs : Nat]

Delivered == {client.order[k] : k \in 1 .. client.done}

\* The deltas of x that are still to be delivered.
Waiting(x) == {c \in Range(client.order) \ Delivered : job.base[c] = x}

\* The head of the line has reserved its bytes and not released them.
Overdraws ==
    /\ client.head \in Places /\ client.head = client.done + 1
    /\ client.fetch[client.head] \notin {"queued", "cached"}
    /\ ~(FromHub(job) /\ client.pc = "check")

ClientTyped == client \in Clients

CacheSound == DOMAIN baseCache \subseteq Tids /\ \A t \in DOMAIN baseCache : baseCache[t] = t

OrderRight ==
    /\ Resolves(job) /\ client.order = FetchOrder(job)
    /\ client.done \in 0 .. Len(client.order)
    /\ Len(client.fetch) = Len(client.order) /\ Len(client.tries) = Len(client.order)

Blamed == client.faulty \/ ~Matches(job)

HeadRight ==
    /\ client.pc = "next" => client.head = client.done \/ (client.head = 1 /\ client.done = 0)
    /\ client.pc \in {"await", "check"} =>
          client.head = client.done + 1 /\ client.done < Len(client.order)
    /\ client.pc = "closing" =>
          client.done = Len(client.order) \/ (client.head = client.done + 1 /\ Blamed)
    /\ client.pc = "ok" => client.done = Len(client.order)

FetchesRight ==
    /\ \A i \in 1 .. client.done : client.fetch[i] \in {"got", "damaged", "cached"}
    /\ client.head = client.done + 1 /\ client.pc \in {"check", "closing"} /\ client.done < Len(client.order)
          => client.fetch[client.head] \notin {"queued", "getting"}
    /\ \A i \in Places : /\ client.fetch[i] = "cached" => InBaseCache(job, client.order[i])
                         /\ client.fetch[i] \in {"damaged", "failed"} => client.faulty
    /\ client.pc = "check" => /\ client.out = Current \/ Blamed
                              /\ client.fetch[client.head] \in {"got", "damaged", "cached"}

RefsRight ==
    /\ client.refs \in [Range(client.order) -> Nat]
    /\ \A x \in Range(client.order) :
          client.refs[x] = IF FromHub(job) THEN Cardinality(Waiting(x)) ELSE 0
    /\ client.held = {x \in Delivered : client.refs[x] > 0}

BudgetKept ==
    client.spent <= InflightBudget + (IF Overdraws THEN Bytes(client.head) ELSE 0)

Filled(i) ==
    LET slot == Layout(job.params)[i]
    IN \A k \in 0 .. slot.len - 1 :
          shardFiles[<<slot.shard, slot.at + k>>] = Content(job.params[i], k)

Allocated(files, params) == DOMAIN files = UNION {Span(s) : s \in Range(Layout(params))}

FilesRight ==
    /\ Allocated(shardFiles, job.params)
    /\ \A i \in DOMAIN job.params : job.params[i] \in Delivered => Filled(i)
    /\ client.bytes = SizeOf(job.params, Delivered)

Underway == OrderRight /\ HeadRight /\ FetchesRight /\ RefsRight /\ BudgetKept /\ FilesRight

\* The pool has nothing left to do.
Settled == \A i \in Places : client.fetch[i] \notin {"queued", "getting"}

DownloadInv ==
    /\ ClientTyped /\ CacheSound
    /\ AtRest => Settled
    /\ client.pc # "resting" => job \in Jobs
    /\ client.pc \in {"next", "await", "check", "closing", "ok"} => Underway
    /\ client.pc = "failed" => Blamed

\* What is sought follows from the inductive invariant.
LEMMA InvDelivers == DownloadInv => DownloadsDeliver
<1> SUFFICES ASSUME DownloadInv PROVE DownloadsDeliver
  OBVIOUS
<1>1. ASSUME client.pc = "ok"
      PROVE  /\ \A i \in DOMAIN job.params : Filled(i)
             /\ client.bytes = TotalBytes(job.params)
  <2>1. Underway /\ job \in Jobs
    BY <1>1 DEF DownloadInv
  <2>2. /\ Resolves(job) /\ client.order = FetchOrder(job) /\ client.done = Len(client.order)
    BY <1>1, <2>1 DEF Underway, OrderRight, HeadRight
  <2>3. client.order \in Seq(Tids) /\ \A i \in DOMAIN job.params : job.params[i] \in Range(client.order)
    BY <2>1, <2>2, OrderFacts
  <2>4. Delivered = Range(client.order)
    BY <2>2, <2>3 DEF Delivered, Range
  <2>5. job.params \in Seq(Tids)
    BY <2>1, DownloadsAssumption
  <2>6. TotalBytes(job.params) = SizeOf(job.params, Delivered)
    <3> HIDE DEF Delivered
    <3> QED
      BY <2>3, <2>4, <2>5, TotalIsSize
  <2> QED
    BY <2>1, <2>3, <2>4, <2>6 DEF Underway, FilesRight
<1>2. ASSUME client.pc \notin {"resting", "ok", "failed"}
      PROVE  client.spent <= InflightBudget
                               + (IF client.head \in Places THEN Bytes(client.head) ELSE 0)
  <2>1. client \in Clients /\ Underway /\ job \in Jobs
    BY <1>2 DEF DownloadInv, ClientTyped, Clients
  <2>2. client.spent \in Int /\ InflightBudget \in Int
    BY <2>1, DownloadsAssumption DEF Clients
  <2>3. ASSUME client.head \in Places PROVE Bytes(client.head) \in Nat
    <3>1. client.order[client.head] \in Tids
      BY <2>1, <2>3 DEF Clients, Places
    <3> QED
      BY <3>1, DownloadsAssumption DEF Bytes, Reserved
  <2>4. Overdraws => client.head \in Places
    BY DEF Overdraws
  <2> QED
    BY <2>1, <2>2, <2>3, <2>4 DEF Underway, BudgetKept
<1>3. client.pc = "failed" => Blamed
  BY DEF DownloadInv
<1> QED
  BY <1>1, <1>2, <1>3 DEF DownloadsDeliver, Filled, Blamed

\* The numbers and sequences of a pull that is under way.
LEMMA Basics ==
    ASSUME client \in Clients, job \in Jobs, OrderRight
    PROVE  /\ Len(client.order) \in Nat /\ Places = 1 .. Len(client.order)
           /\ client.done \in 0 .. Len(client.order)
           /\ DOMAIN client.fetch = Places /\ DOMAIN client.tries = Places
           /\ \A i \in Places : /\ client.order[i] \in Tids /\ client.order[i] \in Range(client.order)
                                /\ client.fetch[i] \in Statuses /\ client.tries[i] \in Nat
                                /\ Bytes(i) \in Nat
           /\ Distinct(client.order) /\ Range(client.order) \subseteq Tids
<1>1. /\ client.order \in Seq(Tids) /\ client.fetch \in Seq(Statuses) /\ client.tries \in Seq(Nat)
  BY DEF Clients
<1>2. /\ Len(client.order) \in Nat /\ Places = 1 .. Len(client.order)
      /\ client.done \in 0 .. Len(client.order)
      /\ DOMAIN client.fetch = Places /\ DOMAIN client.tries = Places
  BY <1>1 DEF OrderRight, Places
<1>3. \A i \in Places : /\ client.order[i] \in Tids /\ client.order[i] \in Range(client.order)
                        /\ client.fetch[i] \in Statuses /\ client.tries[i] \in Nat
  BY <1>1, <1>2 DEF Range, Places
<1>4. \A i \in Places : Bytes(i) \in Nat
  BY <1>3, DownloadsAssumption DEF Bytes, Reserved
<1>5. Distinct(client.order)
  BY OrderFacts DEF OrderRight
<1>6. Range(client.order) \subseteq Tids
  BY <1>1 DEF Range
<1> QED
  BY <1>2, <1>3, <1>4, <1>5, <1>6

\* What a step leaves that only moves the head or fetches.
Frame ==
    /\ job' = job /\ shardFiles' = shardFiles /\ baseCache' = baseCache
    /\ client' \in Clients
    /\ client'.order = client.order /\ client'.done = client.done /\ client'.refs = client.refs
    /\ client'.held = client.held /\ client'.bytes = client.bytes
    /\ Len(client'.fetch) = Len(client.fetch) /\ Len(client'.tries) = Len(client.tries)

\* Such a step keeps the order, the counts and the files.
LEMMA FrameKeeps ==
    ASSUME Frame, CacheSound, OrderRight, RefsRight, FilesRight
    PROVE  ClientTyped' /\ CacheSound' /\ OrderRight' /\ RefsRight' /\ FilesRight'
<1>1. ClientTyped' /\ CacheSound' /\ OrderRight'
  BY DEF Frame, ClientTyped, CacheSound, OrderRight
<1>2. Delivered' = Delivered
  BY DEF Frame, Delivered
<1>3. \A x : Waiting(x)' = Waiting(x)
  BY <1>2 DEF Frame, Waiting
<1>4. RefsRight'
  BY <1>2, <1>3 DEF Frame, RefsRight
<1>5. \A i : Filled(i)' = Filled(i)
  BY DEF Frame, Filled
<1>6. FilesRight'
  BY <1>2, <1>5 DEF Frame, FilesRight
<1> QED
  BY <1>1, <1>4, <1>6

\* The pool may work while a pull is under way.
Busy == client.pc \in {"next", "await", "check", "closing"}

\* A task takes its object from the queue: the budget is kept.
LEMMA ReserveKeeps ==
    ASSUME client \in Clients, job \in Jobs, CacheSound, Underway, Busy,
           NEW i \in Places, Reserve(i)
    PROVE  ClientTyped' /\ CacheSound' /\ Underway' /\ client'.pc = client.pc /\ job' = job
           /\ client'.faulty = client.faulty
<1> USE DEF Underway
<1>1. /\ Len(client.order) \in Nat /\ Places = 1 .. Len(client.order)
      /\ client.done \in 0 .. Len(client.order)
      /\ DOMAIN client.fetch = Places
      /\ \A k \in Places : client.fetch[k] \in Statuses /\ Bytes(k) \in Nat
  BY Basics
<1>2. /\ client.fetch[i] = "queued"
      /\ client.spent + Bytes(i) <= InflightBudget \/ i <= client.head
      /\ job' = job /\ shardFiles' = shardFiles /\ baseCache' = baseCache
      /\ client' = [client EXCEPT !.fetch[i] = "getting", !.spent = @ + Bytes(i)]
  BY DEF Reserve, Taken
<1>3. client.fetch \in Seq(Statuses) /\ client.spent \in Int /\ client.head \in Nat /\ InflightBudget \in Nat
  BY DownloadsAssumption DEF Clients
<1>4. /\ client'.fetch = [client.fetch EXCEPT ![i] = "getting"]
      /\ client'.spent = client.spent + Bytes(i)
      /\ client'.pc = client.pc /\ client'.order = client.order /\ client'.tries = client.tries
      /\ client'.head = client.head /\ client'.done = client.done /\ client'.out = client.out
      /\ client'.refs = client.refs /\ client'.held = client.held /\ client'.bytes = client.bytes
      /\ client'.faulty = client.faulty
  BY <1>2 DEF Clients
<1>5. client'.fetch \in Seq(Statuses) /\ Len(client'.fetch) = Len(client.fetch)
  BY <1>1, <1>3, <1>4 DEF Statuses
<1>6. client' \in Clients
  <2>1. client.spent + Bytes(i) \in Int
    BY <1>1, <1>3
  <2> QED
    BY <1>2, <1>4, <1>5, <2>1 DEF Clients
<1>7. Frame
  BY <1>2, <1>4, <1>5, <1>6 DEF Frame
<1>8. i > client.done
  BY <1>1, <1>2 DEF FetchesRight
<1>9. HeadRight'
  BY <1>2, <1>4 DEF HeadRight, Blamed, Matches
<1>10. /\ client'.fetch[i] = "getting"
       /\ \A k \in Places : k # i => client'.fetch[k] = client.fetch[k]
  BY <1>1, <1>4
<1>11. FetchesRight'
  <2>1. ASSUME NEW k \in 1 .. client.done PROVE client'.fetch[k] \in {"got", "damaged", "cached"}
    <3>1. k \in Places /\ k # i
      BY <1>1, <1>8
    <3> QED
      BY <1>10, <3>1 DEF FetchesRight
  <2>2. client.head = i => ~(client.pc \in {"check", "closing"} /\ client.head = client.done + 1
                                 /\ client.done < Len(client.order))
    BY <1>2 DEF FetchesRight
  <2>3. client.pc = "check" => client.head # i /\ client.head \in Places
    BY <1>1, <1>2, <2>2 DEF HeadRight
  <2>4. client.head = client.done + 1 /\ client.pc \in {"check", "closing"} /\ client.done < Len(client.order)
          => client'.fetch[client.head] \notin {"queued", "getting"}
    <3>1. client.head = client.done + 1 /\ client.done < Len(client.order) => client.head \in Places
      BY <1>1
    <3> QED
      BY <1>10, <2>2, <3>1 DEF FetchesRight
  <2>5. \A k \in Places : /\ client'.fetch[k] = "cached" => InBaseCache(job, client.order[k])
                          /\ client'.fetch[k] \in {"damaged", "failed"} => client.faulty
    BY <1>10 DEF FetchesRight
  <2>6. client.pc = "check" => /\ client.out = Current \/ Blamed
                               /\ client'.fetch[client.head] \in {"got", "damaged", "cached"}
    BY <1>10, <2>3 DEF FetchesRight
  <2> QED
    BY <1>2, <1>4, <2>1, <2>4, <2>5, <2>6 DEF FetchesRight, Places, InBaseCache, Blamed, Matches, Current
<1>12. BudgetKept'
  <2>1. /\ Places' = Places
        /\ BudgetKept' <=> client'.spent <= InflightBudget
                                              + (IF Overdraws' THEN Bytes(client.head) ELSE 0)
    BY <1>2, <1>4 DEF Places, Bytes, BudgetKept
  <2>2. CASE client.spent + Bytes(i) <= InflightBudget
    <3>1. client.head \in Places => Bytes(client.head) \in Nat
      BY <1>1
    <3>2. Overdraws' => client.head \in Places
      BY <1>4, <2>1 DEF Overdraws
    <3>3. PICK b \in Nat : b = IF Overdraws' THEN Bytes(client.head) ELSE 0
      BY <3>1, <3>2
    <3>4. client'.spent <= InflightBudget + b
      BY <1>1, <1>3, <1>4, <2>2, <3>3
    <3> QED
      BY <2>1, <3>3, <3>4
  <2>3. CASE i <= client.head
    <3>1. client.head = i /\ i = client.done + 1 /\ client.pc # "check"
      <4>1. client.done < client.head /\ client.done < Len(client.order) /\ client.done \in Nat
        BY <1>1, <1>3, <1>8, <2>3
      <4>2. client.head = client.done + 1
        <5>1. CASE client.pc = "next"
          <6>1. client.head = client.done \/ (client.head = 1 /\ client.done = 0)
            BY <5>1 DEF HeadRight
          <6> QED
            BY <4>1, <6>1
        <5>2. CASE client.pc \in {"await", "check"}
          BY <5>2 DEF HeadRight
        <5>3. CASE client.pc = "closing"
          <6>1. client.done = Len(client.order) \/ client.head = client.done + 1
            BY <5>3 DEF HeadRight
          <6> QED
            BY <1>1, <4>1, <6>1
        <5> QED
          BY <5>1, <5>2, <5>3 DEF Busy
      <4>3. client.head = i
        BY <1>1, <1>3, <1>8, <2>3, <4>2
      <4>4. client.pc # "check"
        BY <1>2, <4>1, <4>2, <4>3 DEF FetchesRight
      <4> QED
        BY <4>2, <4>3, <4>4
    <3>2. ~Overdraws
      BY <1>2, <3>1 DEF Overdraws
    <3>3. client.spent <= InflightBudget
      BY <1>3, <3>2 DEF BudgetKept
    <3>4. Overdraws'
      BY <1>4, <1>10, <2>1, <3>1 DEF Overdraws
    <3> QED
      BY <1>1, <1>3, <1>4, <2>1, <3>1, <3>3, <3>4
  <2> QED
    BY <1>2, <2>2, <2>3
<1> QED
  BY <1>2, <1>4, <1>7, <1>9, <1>11, <1>12, FrameKeeps

\* A transfer ends or is tried again.
PoolMoves ==
    /\ Frame
    /\ client'.pc = client.pc /\ client'.head = client.head /\ client'.out = client.out
    /\ client'.spent = client.spent
    /\ client.faulty => client'.faulty
    /\ \A k \in Places :
          \/ client'.fetch[k] = client.fetch[k]
          \/ /\ client.fetch[k] = "getting" /\ client'.fetch[k] \in {"got", "damaged", "failed"}
             /\ client'.fetch[k] # "got" => client'.faulty

\* The end of a transfer leaves a pull right: a fault is noted.
LEMMA PoolKeeps ==
    ASSUME client \in Clients, job \in Jobs, CacheSound, Underway, Busy, PoolMoves
    PROVE  ClientTyped' /\ CacheSound' /\ Underway' /\ client'.pc = client.pc /\ job' = job
<1> USE DEF Underway
<1>1. /\ Len(client.order) \in Nat /\ Places = 1 .. Len(client.order)
      /\ client.done \in 0 .. Len(client.order)
  BY Basics
<1>2. /\ job' = job /\ baseCache' = baseCache /\ client'.pc = client.pc /\ client'.head = client.head
      /\ client'.out = client.out /\ client'.spent = client.spent /\ client'.order = client.order
      /\ client'.done = client.done /\ (client.faulty => client'.faulty)
      /\ \A k \in Places :
            \/ client'.fetch[k] = client.fetch[k]
            \/ /\ client.fetch[k] = "getting" /\ client'.fetch[k] \in {"got", "damaged", "failed"}
               /\ client'.fetch[k] # "got" => client'.faulty
  BY DEF PoolMoves, Frame
<1>3. Blamed => Blamed'
  BY <1>2 DEF Blamed, Matches
<1>4. HeadRight'
  BY <1>2, <1>3 DEF HeadRight
<1>5. FetchesRight'
  <2>1. ASSUME NEW k \in 1 .. client.done PROVE client'.fetch[k] \in {"got", "damaged", "cached"}
    <3>1. k \in Places /\ client.fetch[k] \in {"got", "damaged", "cached"}
      BY <1>1 DEF FetchesRight
    <3> QED
      BY <1>2, <3>1
  <2>2. client.head = client.done + 1 /\ client.pc \in {"check", "closing"} /\ client.done < Len(client.order)
          => client'.fetch[client.head] \notin {"queued", "getting"}
    <3>1. client.head = client.done + 1 /\ client.done < Len(client.order) => client.head \in Places
      BY <1>1
    <3> QED
      BY <1>2, <3>1 DEF FetchesRight
  <2>3. \A k \in Places : /\ client'.fetch[k] = "cached" => InBaseCache(job, client.order[k])
                          /\ client'.fetch[k] \in {"damaged", "failed"} => client'.faulty
    BY <1>2 DEF FetchesRight
  <2>4. client.pc = "check" => /\ client.out = Current \/ Blamed'
                               /\ client'.fetch[client.head] \in {"got", "damaged", "cached"}
    <3>1. client.pc = "check" => client.head \in Places
      BY <1>1 DEF HeadRight
    <3> QED
      BY <1>2, <1>3, <3>1 DEF FetchesRight
  <2> QED
    BY <1>2, <2>1, <2>2, <2>3, <2>4 DEF FetchesRight, Places, InBaseCache, Current
<1>6. BudgetKept'
  <2>1. Overdraws' <=> Overdraws
    BY <1>2 DEF Overdraws, Places
  <2> QED
    BY <1>2, <2>1 DEF BudgetKept, Bytes
<1> QED
  BY <1>2, <1>4, <1>5, <1>6, FrameKeeps DEF PoolMoves

\* An object arrives, or fails: both are ends of a transfer.
LEMMA ReceiveMoves ==
    ASSUME client \in Clients, job \in Jobs, OrderRight,
           NEW i \in Places, NEW r \in {"got", "damaged"}, Receive(i, r) \/ Attempt(i)
    PROVE  PoolMoves
<1>1. /\ DOMAIN client.fetch = Places /\ DOMAIN client.tries = Places
      /\ \A k \in Places : client.tries[k] \in Nat
  BY Basics
<1>2. client.fetch[i] = "getting" /\ job' = job /\ shardFiles' = shardFiles /\ baseCache' = baseCache
  BY DEF Receive, Attempt
<1>3. client.fetch \in Seq(Statuses) /\ client.tries \in Seq(Nat) /\ client.faulty \in BOOLEAN
  BY DEF Clients
<1>4. ASSUME NEW s \in {"got", "damaged", "failed"}, NEW b \in BOOLEAN, s # "got" => b, client.faulty => b,
             client' = [client EXCEPT !.fetch[i] = s, !.faulty = b]
      PROVE  PoolMoves
  <2>1. client'.fetch = [client.fetch EXCEPT ![i] = s] /\ client'.faulty = b
    BY <1>4 DEF Clients
  <2>2. client'.fetch \in Seq(Statuses) /\ Len(client'.fetch) = Len(client.fetch)
    BY <1>1, <1>3, <2>1 DEF Statuses
  <2>3. client' \in Clients
    BY <1>4, <2>1, <2>2 DEF Clients
  <2>4. Frame
    BY <1>2, <1>4, <2>2, <2>3 DEF Frame, Clients
  <2>5. \A k \in Places : client'.fetch[k] = IF k = i THEN s ELSE client.fetch[k]
    BY <1>1, <2>1
  <2>6. /\ client'.pc = client.pc /\ client'.head = client.head /\ client'.out = client.out
        /\ client'.spent = client.spent
    BY <1>4 DEF Clients
  <2> QED
    BY <1>2, <1>4, <2>1, <2>4, <2>5, <2>6 DEF PoolMoves
<1>5. CASE Receive(i, r)
  <2>1. PICK b \in BOOLEAN : b = (client.faulty \/ r # "got")
    OBVIOUS
  <2>2. client' = [client EXCEPT !.fetch[i] = r, !.faulty = b]
    BY <1>3, <1>5, <2>1 DEF Receive
  <2> QED
    BY <1>4, <2>1, <2>2
<1>6. CASE Attempt(i)
  <2>1. CASE client' = [client EXCEPT !.fetch[i] = "failed", !.faulty = TRUE]
    BY <1>4, <2>1
  <2>2. CASE client' = [client EXCEPT !.tries[i] = @ + 1]
    <3>1. client'.tries = [client.tries EXCEPT ![i] = client.tries[i] + 1]
      BY <2>2 DEF Clients
    <3>2. client'.tries \in Seq(Nat) /\ Len(client'.tries) = Len(client.tries)
      <4>1. client.tries[i] + 1 \in Nat
        BY <1>1
      <4> QED
        BY <1>1, <1>3, <3>1, <4>1
    <3>3. client' \in Clients
      BY <2>2, <3>1, <3>2 DEF Clients
    <3>4. Frame
      BY <1>2, <2>2, <3>2, <3>3 DEF Frame, Clients
    <3> QED
      BY <1>2, <2>2, <3>4 DEF PoolMoves, Clients
  <2> QED
    BY <1>6, <2>1, <2>2 DEF Attempt
<1> QED
  BY <1>5, <1>6

\* A step of the main thread that delivers nothing.
MainMoves ==
    /\ Frame
    /\ client'.fetch = client.fetch /\ client'.faulty = client.faulty

\* What a step of the main thread has to show is about the head of the line.
LEMMA MainKeeps ==
    ASSUME client \in Clients, job \in Jobs, CacheSound, Underway, MainMoves,
           HeadRight', BudgetKept',
           client'.head = client.done + 1 /\ client'.pc \in {"check", "closing"}
             /\ client.done < Len(client.order) =>
                client.fetch[client'.head] \notin {"queued", "getting"},
           client'.pc = "check" => /\ client'.out = client.order[client'.head] \/ Blamed
                                   /\ client.fetch[client'.head] \in {"got", "damaged", "cached"}
    PROVE  ClientTyped' /\ CacheSound' /\ Underway' /\ job' = job
<1> USE DEF Underway
<1>1. /\ job' = job /\ baseCache' = baseCache /\ client'.order = client.order
      /\ client'.fetch = client.fetch /\ client'.faulty = client.faulty /\ client'.done = client.done
  BY DEF MainMoves, Frame
<1>2. FetchesRight'
  <2>1. /\ \A i \in 1 .. client.done : client.fetch[i] \in {"got", "damaged", "cached"}
        /\ \A i \in Places : /\ client.fetch[i] = "cached" => InBaseCache(job, client.order[i])
                             /\ client.fetch[i] \in {"damaged", "failed"} => client.faulty
    BY DEF FetchesRight
  <2> QED
    BY <1>1, <2>1 DEF FetchesRight, Places, InBaseCache, Blamed, Matches, Current
<1> QED
  BY <1>1, <1>2, FrameKeeps DEF MainMoves

\* The main thread goes to p, with its head at h, the value o and s reserved.
Moved(p, h, o, s) ==
    /\ client' = [client EXCEPT !.pc = p, !.head = h, !.out = o, !.spent = s]
    /\ job' = job /\ shardFiles' = shardFiles /\ baseCache' = baseCache

\* The fields of a step of the main thread.
LEMMA MainFields ==
    ASSUME client \in Clients,
           NEW p \in {"await", "check", "closing", "ok", "failed"}, NEW h \in Nat,
           NEW o \in 0 .. MaxTid, NEW s \in Int, Moved(p, h, o, s)
    PROVE  /\ MainMoves
           /\ client'.pc = p /\ client'.head = h /\ client'.out = o /\ client'.spent = s
           /\ client'.order = client.order /\ client'.done = client.done
           /\ client'.fetch = client.fetch /\ client'.faulty = client.faulty
<1>1. /\ client' \in Clients
      /\ client'.pc = p /\ client'.head = h /\ client'.out = o /\ client'.spent = s
  BY DEF Clients, Moved
<1>2. /\ client'.order = client.order /\ client'.done = client.done
      /\ client'.fetch = client.fetch /\ client'.faulty = client.faulty /\ client'.tries = client.tries
      /\ client'.refs = client.refs /\ client'.held = client.held /\ client'.bytes = client.bytes
  BY DEF Clients, Moved
<1> QED
  BY <1>1, <1>2 DEF MainMoves, Frame, Moved

\* The main thread turns to the next tensor, or to the end.
LEMMA TakeNextKeeps ==
    ASSUME client \in Clients, job \in Jobs, CacheSound, Underway, TakeNext
    PROVE  ClientTyped' /\ CacheSound' /\ Underway' /\ job' = job /\ client'.pc \in {"await", "closing"}
<1> USE DEF Underway
<1>1. /\ Len(client.order) \in Nat /\ Places = 1 .. Len(client.order)
      /\ client.done \in 0 .. Len(client.order)
      /\ \A k \in Places : Bytes(k) \in Nat
  BY Basics
<1>2. /\ client.pc = "next" /\ job' = job /\ shardFiles' = shardFiles /\ baseCache' = baseCache
      /\ client.head = client.done \/ (client.head = 1 /\ client.done = 0)
      /\ client.spent \in Int /\ client.head \in Nat /\ client.out \in 0 .. MaxTid
  BY DEF TakeNext, HeadRight, Clients
<1>3. CASE client.done = Len(client.order)
  <2>1. Moved("closing", client.head, client.out, client.spent)
    BY <1>3 DEF TakeNext, Clients, Moved
  <2>2. /\ MainMoves
        /\ client'.pc = "closing" /\ client'.head = client.head /\ client'.spent = client.spent
        /\ client'.order = client.order /\ client'.done = client.done /\ client'.fetch = client.fetch
    BY <1>2, <2>1, MainFields
  <2>3. HeadRight'
    BY <1>3, <2>2 DEF HeadRight
  <2>4. BudgetKept'
    <3>1. Overdraws' <=> Overdraws
      BY <1>2, <2>2 DEF Overdraws, Places
    <3> QED
      BY <1>2, <2>2, <3>1 DEF BudgetKept, Bytes
  <2> QED
    BY <1>1, <1>2, <1>3, <2>2, <2>3, <2>4, MainKeeps
<1>4. CASE client.done # Len(client.order)
  <2>1. Moved("await", client.done + 1, client.out, client.spent)
    BY <1>4 DEF TakeNext, Clients, Moved
  <2>2. client.done + 1 \in Nat
    BY <1>1
  <2>3. /\ MainMoves
        /\ client'.pc = "await" /\ client'.head = client.done + 1 /\ client'.spent = client.spent
        /\ client'.order = client.order /\ client'.done = client.done /\ client'.fetch = client.fetch
    BY <1>2, <2>1, <2>2, MainFields
  <2>4. HeadRight'
    BY <1>1, <1>4, <2>3 DEF HeadRight
  <2>5. BudgetKept'
    <3>1. CASE client.head = client.done + 1
      <4>1. Overdraws' <=> Overdraws
        BY <1>2, <2>3, <3>1 DEF Overdraws, Places
      <4> QED
        BY <1>2, <2>3, <3>1, <4>1 DEF BudgetKept, Bytes
    <3>2. CASE client.head # client.done + 1
      <4>1. client.spent <= InflightBudget
        BY <3>2, DownloadsAssumption DEF Overdraws, BudgetKept
      <4>2. client.done + 1 \in Places /\ Bytes(client.done + 1) \in Nat
        BY <1>1, <1>4
      <4>3. BudgetKept' <=> client.spent <= InflightBudget
                                             + (IF Overdraws' THEN Bytes(client.done + 1) ELSE 0)
        BY <1>2, <2>3 DEF BudgetKept, Bytes
      <4> QED
        BY <1>2, <4>1, <4>2, <4>3, DownloadsAssumption
    <3> QED
      BY <3>1, <3>2
  <2> QED
    BY <1>2, <2>3, <2>4, <2>5, MainKeeps
<1> QED
  BY <1>3, <1>4

\* A cached tensor is what the cache was given.
LEMMA TakeCachedKeeps ==
    ASSUME client \in Clients, job \in Jobs, CacheSound, Underway, TakeCached
    PROVE  ClientTyped' /\ CacheSound' /\ Underway' /\ job' = job /\ client'.pc = "check"
<1> USE DEF Underway
<1>1. /\ Len(client.order) \in Nat /\ Places = 1 .. Len(client.order)
      /\ client.done \in 0 .. Len(client.order)
      /\ \A k \in Places : client.order[k] \in Tids
  BY Basics
<1>2. /\ client.pc = "await" /\ client.fetch[client.head] = "cached"
      /\ job' = job /\ shardFiles' = shardFiles /\ baseCache' = baseCache
      /\ client.head = client.done + 1 /\ client.done < Len(client.order)
      /\ client.spent \in Int /\ client.head \in Nat
  BY DEF TakeCached, HeadRight, Clients
<1>3. client.head \in Places
  BY <1>1, <1>2
<1>4. baseCache[Current] = Current /\ Current \in 0 .. MaxTid
  BY <1>1, <1>2, <1>3 DEF FetchesRight, InBaseCache, CacheSound, Current, Tids
<1>5. Moved("check", client.head, Current, client.spent)
  BY <1>4 DEF TakeCached, Clients, Moved
<1>6. /\ MainMoves
      /\ client'.pc = "check" /\ client'.head = client.head /\ client'.spent = client.spent
      /\ client'.out = Current
      /\ client'.order = client.order /\ client'.done = client.done /\ client'.fetch = client.fetch
  BY <1>2, <1>4, <1>5, MainFields
<1>7. HeadRight'
  BY <1>2, <1>6 DEF HeadRight
<1>8. BudgetKept'
  <2>1. ~Overdraws' /\ ~Overdraws
    BY <1>2, <1>6 DEF Overdraws
  <2> QED
    BY <1>6, <2>1 DEF BudgetKept
<1> QED
  BY <1>2, <1>6, <1>7, <1>8, MainKeeps DEF Current

\* An error at the head of the line, if something is to blame for it.
LEMMA RaiseKeeps ==
    ASSUME client \in Clients, job \in Jobs, CacheSound, Underway, Raise, Blamed,
           job' = job, shardFiles' = shardFiles, baseCache' = baseCache,
           client.pc \in {"await", "check"}, client.fetch[client.head] \notin {"queued", "getting"}
    PROVE  ClientTyped' /\ CacheSound' /\ Underway' /\ job' = job /\ client'.pc = "closing"
<1> USE DEF Underway
<1>1. /\ Len(client.order) \in Nat /\ Places = 1 .. Len(client.order)
      /\ client.done \in 0 .. Len(client.order)
      /\ \A k \in Places : Bytes(k) \in Nat
  BY Basics
<1>2. /\ client.head = client.done + 1 /\ client.done < Len(client.order)
      /\ client.spent \in Int /\ client.head \in Nat /\ client.out \in 0 .. MaxTid
  BY DEF HeadRight, Clients
<1>3. client.head \in Places
  BY <1>1, <1>2
<1>4. Moved("closing", client.head, client.out, client.spent)
  BY DEF Raise, Clients, Moved
<1>5. /\ MainMoves
      /\ client'.pc = "closing" /\ client'.head = client.head /\ client'.spent = client.spent
      /\ client'.order = client.order /\ client'.done = client.done /\ client'.fetch = client.fetch
      /\ client'.faulty = client.faulty
  BY <1>2, <1>4, MainFields
<1>6. Blamed'
  BY <1>5 DEF Blamed, Matches
<1>7. HeadRight'
  BY <1>2, <1>5, <1>6 DEF HeadRight
<1>8. BudgetKept'
  <2>1. Overdraws => Overdraws'
    BY <1>5 DEF Overdraws, Places
  <2>2. BudgetKept' <=> client.spent <= InflightBudget
                                         + (IF Overdraws' THEN Bytes(client.head) ELSE 0)
    BY <1>5 DEF BudgetKept, Bytes
  <2> QED
    BY <1>1, <1>2, <1>3, <2>1, <2>2, DownloadsAssumption DEF BudgetKept
<1> QED
  BY <1>2, <1>5, <1>7, <1>8, MainKeeps

\* The tensor at the head of the line is still to be delivered.
LEMMA HeadWaits ==
    ASSUME client \in Clients, job \in Jobs, OrderRight,
           client.head = client.done + 1, client.done < Len(client.order)
    PROVE  /\ client.head \in Places /\ client.head \in Nat
           /\ Current \in Tids /\ Current \in Range(client.order) \ Delivered
           /\ Delivered \subseteq Range(client.order)
           /\ FromHub(job) /\ job.base[Current] # 0 => job.base[Current] \in Delivered
<1>1. /\ Len(client.order) \in Nat /\ Places = 1 .. Len(client.order)
      /\ client.done \in 0 .. Len(client.order) /\ Distinct(client.order)
      /\ \A k \in Places : client.order[k] \in Tids /\ client.order[k] \in Range(client.order)
  BY Basics
<1>2. client.head \in Places /\ client.head \in Nat /\ 1 .. client.done \subseteq Places
  BY <1>1
<1>3. Current \in Tids /\ Current \in Range(client.order) /\ Delivered \subseteq Range(client.order)
  BY <1>1, <1>2 DEF Current, Delivered
<1>4. ASSUME NEW k \in 1 .. client.done PROVE client.order[k] # Current
  BY <1>1, <1>2 DEF Current, Distinct
<1>5. ASSUME FromHub(job), job.base[Current] # 0 PROVE job.base[Current] \in Delivered
  <2>1. client.order = FetchOrder(job) /\ Resolves(job)
    BY DEF OrderRight
  <2>2. PICK i \in 1 .. Len(client.order) : i = client.head
    BY <1>1, <1>2
  <2>3. \/ job.base[client.order[i]] = 0
        \/ \E k \in 1 .. (i - 1) : client.order[k] = job.base[client.order[i]]
    BY <1>5, <2>1, OrderFacts
  <2>4. PICK k \in 1 .. (client.head - 1) : client.order[k] = job.base[client.order[client.head]]
    BY <1>5, <2>2, <2>3 DEF Current
  <2>5. k \in 1 .. client.done
    BY <1>1, <2>2
  <2> QED
    BY <2>4, <2>5 DEF Delivered, Current
<1> QED
  BY <1>2, <1>3, <1>4, <1>5 DEF Delivered

\* How many deltas of a tensor wait is a number, and none only if none waits.
LEMMA WaitingCount ==
    ASSUME NEW x, Range(client.order) \subseteq Tids
    PROVE  /\ IsFiniteSet(Waiting(x)) /\ Cardinality(Waiting(x)) \in Nat
           /\ Cardinality(Waiting(x)) = 0 <=> Waiting(x) = {}
<1>1. IsFiniteSet(Waiting(x))
  <2>1. Waiting(x) \in SUBSET Tids
    BY DEF Waiting
  <2> QED
    BY <2>1, TidsFinite
<1> HIDE DEF Waiting
<1> QED
  BY <1>1, FS_CardinalityType, FS_EmptySet

\* A base is at hand unless the catalogue and the objects disagree.
LEMMA BaseAtHand ==
    ASSUME client \in Clients, job \in Jobs, OrderRight, RefsRight, FromHub(job), Matches(job),
           client.head = client.done + 1, client.done < Len(client.order)
    PROVE  HasBase(Current) /\ BaseFor(Current) = job.header[Current]
<1> DEFINE t == Current
           b == job.base[t]
<1>1. /\ t \in Range(client.order) \ Delivered /\ Delivered \subseteq Range(client.order)
      /\ b # 0 => b \in Delivered
  BY HeadWaits
<1>2. job.header[t] = b
  <2>1. Range(client.order) = Resolved(job).closure
    BY OrderFacts DEF OrderRight
  <2> QED
    BY <1>1, <2>1 DEF Matches
<1>3. BaseFor(t) = b /\ BaseFor(t) = job.header[t]
  BY <1>2 DEF BaseFor
<1>4. ASSUME b # 0 PROVE b \in client.held
  <2>1. b \in Delivered /\ b \in Range(client.order) /\ t \in Waiting(b)
    BY <1>1, <1>4 DEF Waiting
  <2>2. client.refs[b] = Cardinality(Waiting(b))
    BY <2>1 DEF RefsRight
  <2>3. Range(client.order) \subseteq Tids
    BY Basics
  <2>4. client.refs[b] > 0
    BY <2>1, <2>2, <2>3, WaitingCount
  <2> QED
    BY <2>1, <2>4 DEF RefsRight
<1> QED
  BY <1>3, <1>4 DEF HasBase

\* The errors of the main thread have something to blame.
LEMMA ErrorsKeep ==
    ASSUME client \in Clients, job \in Jobs, CacheSound, Underway,
           FetchRaised \/ BaseMissing \/ HashMismatch
    PROVE  ClientTyped' /\ CacheSound' /\ Underway' /\ job' = job /\ client'.pc = "closing"
<1>1. /\ client.pc \in {"await", "check"} /\ Raise
      /\ job' = job /\ shardFiles' = shardFiles /\ baseCache' = baseCache
  BY DEF FetchRaised, BaseMissing, HashMismatch, Arrived
<1>2. client.head = client.done + 1 /\ client.done < Len(client.order)
  BY <1>1 DEF Underway, HeadRight
<1>3. client.head \in Places
  BY <1>2, HeadWaits DEF Underway
<1>4. CASE FetchRaised
  <2>1. client.fetch[client.head] = "failed"
    BY <1>4 DEF FetchRaised
  <2>2. Blamed
    BY <1>3, <2>1 DEF Underway, FetchesRight, Blamed
  <2> QED
    BY <1>1, <2>1, <2>2, RaiseKeeps
<1>5. CASE BaseMissing
  <2>1. client.fetch[client.head] \in {"got", "damaged"} /\ FromHub(job) /\ ~HasBase(Current)
    BY <1>5 DEF BaseMissing, Arrived
  <2>2. Blamed
    BY <1>2, <2>1, BaseAtHand DEF Underway, Blamed
  <2> QED
    BY <1>1, <2>1, <2>2, RaiseKeeps
<1>6. CASE HashMismatch
  <2>1. client.pc = "check" /\ client.out # Current
    BY <1>6 DEF HashMismatch
  <2>2. Blamed /\ client.fetch[client.head] \in {"got", "damaged", "cached"}
    BY <2>1 DEF Underway, FetchesRight
  <2> QED
    BY <1>1, <2>2, RaiseKeeps
<1> QED
  BY <1>4, <1>5, <1>6

\* A decoded blob is its tensor, unless something is to blame; what it had
\* reserved is released.
LEMMA DecodeKeeps ==
    ASSUME client \in Clients, job \in Jobs, CacheSound, Underway, DecodeBlob
    PROVE  ClientTyped' /\ CacheSound' /\ Underway' /\ job' = job /\ client'.pc = "check"
<1> USE DEF Underway
<1>1. /\ client.pc = "await" /\ client.fetch[client.head] \in {"got", "damaged"}
      /\ FromHub(job)
      /\ job' = job /\ shardFiles' = shardFiles /\ baseCache' = baseCache
      /\ client.spent \in Int /\ client.out \in 0 .. MaxTid
  BY DEF DecodeBlob, Arrived, Clients
<1>2. client.head = client.done + 1 /\ client.done < Len(client.order)
  BY <1>1 DEF HeadRight
<1>3. client.head \in Places /\ client.head \in Nat /\ Current \in Tids
  BY <1>2, HeadWaits
<1>4. Bytes(client.head) \in Nat
  BY <1>3, Basics
<1>5. PICK o \in 0 .. MaxTid : o = DecodedValue(Current)
  BY <1>3, MaxTidAssumption DEF DecodedValue, Garbled, Tids
<1>6. PICK s \in Int : s = client.spent - Bytes(client.head)
  BY <1>1, <1>4
<1>7. Moved("check", client.head, o, s)
  BY <1>5, <1>6 DEF DecodeBlob, Clients, Moved
<1>8. /\ MainMoves
      /\ client'.pc = "check" /\ client'.head = client.head /\ client'.spent = s
      /\ client'.out = o
      /\ client'.order = client.order /\ client'.done = client.done /\ client'.fetch = client.fetch
  BY <1>3, <1>7, MainFields
<1>9. HeadRight'
  BY <1>2, <1>8 DEF HeadRight
<1>10. BudgetKept'
  <2>1. ~Overdraws'
    BY <1>1, <1>8 DEF Overdraws, FromHub
  <2>2. client.spent <= InflightBudget + Bytes(client.head)
    BY <1>1, <1>4, DownloadsAssumption DEF BudgetKept
  <2>3. s <= InflightBudget
    BY <1>1, <1>4, <1>6, <2>2, DownloadsAssumption
  <2> QED
    BY <1>8, <2>1, <2>3, DownloadsAssumption DEF BudgetKept
<1>11. o = Current \/ Blamed
  <2>1. ASSUME client.fetch[client.head] = "damaged" PROVE Blamed
    BY <1>3, <2>1 DEF FetchesRight, Blamed
  <2>2. ASSUME BaseFor(Current) # job.header[Current] PROVE Blamed
    BY <1>1, <1>2, <2>2, BaseAtHand DEF Blamed
  <2> QED
    BY <1>5, <2>1, <2>2 DEF DecodedValue
<1> QED
  BY <1>1, <1>2, <1>8, <1>9, <1>10, <1>11, MainKeeps DEF Current

\* The body that the server sent is the tensor, unless it came damaged.
LEMMA TakeBodyKeeps ==
    ASSUME client \in Clients, job \in Jobs, CacheSound, Underway, TakeBody
    PROVE  ClientTyped' /\ CacheSound' /\ Underway' /\ job' = job /\ client'.pc = "check"
<1> USE DEF Underway
<1>1. /\ client.pc = "await" /\ client.fetch[client.head] \in {"got", "damaged"}
      /\ ~FromHub(job)
      /\ job' = job /\ shardFiles' = shardFiles /\ baseCache' = baseCache
      /\ client.spent \in Int /\ client.out \in 0 .. MaxTid
  BY DEF TakeBody, Arrived, Clients
<1>2. client.head = client.done + 1 /\ client.done < Len(client.order)
  BY <1>1 DEF HeadRight
<1>3. client.head \in Places /\ client.head \in Nat /\ Current \in Tids
  BY <1>2, HeadWaits
<1>5. PICK o \in 0 .. MaxTid :
         o = IF client.fetch[client.head] = "damaged" THEN Garbled ELSE Current
  BY <1>3, MaxTidAssumption DEF Garbled, Tids
<1>7. Moved("check", client.head, o, client.spent)
  BY <1>5 DEF TakeBody, Clients, Moved
<1>8. /\ MainMoves
      /\ client'.pc = "check" /\ client'.head = client.head /\ client'.spent = client.spent
      /\ client'.out = o
      /\ client'.order = client.order /\ client'.done = client.done /\ client'.fetch = client.fetch
  BY <1>1, <1>3, <1>7, MainFields
<1>9. HeadRight'
  BY <1>2, <1>8 DEF HeadRight
<1>10. BudgetKept'
  <2>1. Overdraws' <=> Overdraws
    BY <1>1, <1>8 DEF Overdraws, Places, FromHub
  <2> QED
    BY <1>1, <1>8, <2>1 DEF BudgetKept, Bytes
<1>11. o = Current \/ Blamed
  <2>1. ASSUME client.fetch[client.head] = "damaged" PROVE Blamed
    BY <1>3, <2>1 DEF FetchesRight, Blamed
  <2> QED
    BY <1>5, <2>1
<1> QED
  BY <1>1, <1>2, <1>8, <1>9, <1>10, <1>11, MainKeeps DEF Current

\* A pull is ok when everything is delivered, and otherwise fails.
LEMMA CloseKeeps ==
    ASSUME client \in Clients, job \in Jobs, CacheSound, Underway, Close
    PROVE  /\ ClientTyped' /\ CacheSound' /\ job' = job /\ Settled'
           /\ (client'.pc = "ok" /\ Underway') \/ (client'.pc = "failed" /\ Blamed')
<1> USE DEF Underway
<1>1. /\ client.pc = "closing" /\ job' = job /\ shardFiles' = shardFiles /\ baseCache' = baseCache
      /\ client.spent \in Int /\ client.out \in 0 .. MaxTid /\ client.head \in Nat
      /\ Settled
  BY DEF Close, Clients, Settled
<1>2. CASE client.done = Len(client.order)
  <2>1. Moved("ok", client.head, client.out, client.spent)
    BY <1>2 DEF Close, Clients, Moved
  <2>2. /\ MainMoves
        /\ client'.pc = "ok" /\ client'.head = client.head /\ client'.spent = client.spent
        /\ client'.order = client.order /\ client'.done = client.done /\ client'.fetch = client.fetch
    BY <1>1, <2>1, MainFields
  <2>3. HeadRight'
    BY <1>2, <2>2 DEF HeadRight
  <2>4. BudgetKept'
    <3>1. Overdraws' <=> Overdraws
      BY <1>1, <2>2 DEF Overdraws, Places
    <3> QED
      BY <1>1, <2>2, <3>1 DEF BudgetKept, Bytes
  <2>5. Settled'
    BY <1>1, <2>2 DEF Settled, Places
  <2> QED
    BY <2>2, <2>3, <2>4, <2>5, MainKeeps
<1>3. CASE client.done # Len(client.order)
  <2>1. Moved("failed", client.head, client.out, client.spent)
    BY <1>3 DEF Close, Clients, Moved
  <2>2. /\ MainMoves /\ client'.pc = "failed" /\ client'.faulty = client.faulty
        /\ client'.order = client.order /\ client'.fetch = client.fetch
    BY <1>1, <2>1, MainFields
  <2>3. Blamed
    BY <1>1, <1>3 DEF HeadRight
  <2>4. Blamed'
    BY <1>1, <2>2, <2>3 DEF Blamed, Matches
  <2>5. Settled'
    BY <1>1, <2>2 DEF Settled, Places
  <2> QED
    BY <1>1, <2>2, <2>4, <2>5, FrameKeeps DEF MainMoves
<1> QED
  BY <1>2, <1>3

\* A write fills the slots of its tensor and no byte of another.
LEMMA WriteFills ==
    ASSUME NEW params \in Seq(Tids), NEW files, Allocated(files, params),
           NEW t \in Tids, NEW i \in DOMAIN params, NEW k \in 0 .. Layout(params)[i].len - 1
    PROVE  LET slot == Layout(params)[i]
               b == <<slot.shard, slot.at + k>>
           IN  Written(files, params, t)[b] = IF params[i] = t THEN Content(t, k) ELSE files[b]
<1> DEFINE slots == Layout(params)
           slot == slots[i]
           b == <<slot.shard, slot.at + k>>
           at == {s \in Range(slots) : s.tid = t /\ b \in Span(s)}
<1>1. /\ slots \in Seq(Slots) /\ DOMAIN slots = DOMAIN params
      /\ \A j \in DOMAIN params : slots[j].tid = params[j]
      /\ \A j, l \in DOMAIN params : \A c : c \in Span(slots[j]) /\ c \in Span(slots[l]) => j = l
  <2>1. slots \in Seq(Slots) /\ Len(slots) = Len(params)
    BY LayoutFacts
  <2> HIDE DEF slots
  <2>2. DOMAIN slots = DOMAIN params
    BY <2>1
  <2> QED
    BY <2>1, <2>2, LayoutFacts DEF slots
<1> HIDE DEF slots
<1>2. slot.at \in Nat /\ slot.len \in Nat /\ slot \in Range(slots)
  <2>1. slot \in Slots /\ slot \in Range(slots)
    BY <1>1 DEF Range
  <2> QED
    BY <2>1 DEF Slots
<1>3. k \in Nat /\ k <= slot.len - 1
  BY <1>2 DEF slots
<1>4. b \in Span(slot)
  <2>1. PICK p, m \in Nat : p = slot.at /\ m = slot.len
    BY <1>2
  <2> HIDE DEF slot
  <2>2. k \in Nat /\ k <= m - 1
    BY <1>3, <2>1
  <2>3. p + k \in p .. p + m - 1
    BY <2>2
  <2> QED
    BY <2>1, <2>3 DEF Span
<1>5. b \in DOMAIN files
  BY <1>2, <1>4 DEF slots, Allocated
<1>6. Written(files, params, t)[b] =
         IF at = {} THEN files[b] ELSE Content(t, b[2] - (CHOOSE s \in at : TRUE).at)
  BY <1>5 DEF Written, slots
<1>7. \A s \in Range(slots) : b \in Span(s) => s = slot
  <2>1. ASSUME NEW s \in Range(slots), b \in Span(s) PROVE s = slot
    <3>1. PICK j \in DOMAIN params : s = slots[j]
      BY <1>1 DEF Range
    <3> QED
      BY <1>1, <1>4, <2>1, <3>1
  <2> QED
    BY <2>1
<1>8. slot.tid = params[i]
  BY <1>1
<1>9. CASE params[i] = t
  <2>1. at = {slot}
    <3> HIDE DEF b, slot
    <3>1. slot \in at /\ \A s \in at : s = slot
      BY <1>2, <1>4, <1>7, <1>8, <1>9
    <3> HIDE DEF at
    <3> QED
      BY <3>1
  <2>2. (CHOOSE s \in at : TRUE) = slot
    BY <2>1
  <2>3. b[2] - slot.at = k
    BY <1>2, <1>3
  <2> HIDE DEF at, b
  <2>4. Written(files, params, t)[b] = Content(t, k)
    BY <1>6, <2>1, <2>2, <2>3
  <2> QED
    BY <1>9, <2>4 DEF b, slots
<1>10. CASE params[i] # t
  <2>1. at = {}
    BY <1>7, <1>8, <1>10
  <2> HIDE DEF at, b
  <2>2. Written(files, params, t)[b] = files[b]
    BY <1>6, <2>1
  <2> QED
    BY <1>10, <2>2 DEF b, slots
<1> QED
  BY <1>9, <1>10

\* Delivering a tensor fills its parameters and leaves the filled ones.
LEMMA DeliverFiles ==
    ASSUME NEW t \in Tids, t \notin Delivered, job \in Jobs, job' = job, FilesRight,
           shardFiles' = Written(shardFiles, job.params, t), Delivered' = Delivered \union {t},
           client'.bytes = client.bytes + Copies(job.params, t) * Logical[t]
    PROVE  FilesRight' /\ client'.bytes \in Nat
<1>1. job.params \in Seq(Tids)
  BY DownloadsAssumption
<1>2. DOMAIN shardFiles' = DOMAIN shardFiles
  BY DEF Written
<1>3. client'.bytes = SizeOf(job.params, Delivered \union {t})
  <2> HIDE DEF Delivered
  <2> QED
    BY <1>1, SizeGrows DEF FilesRight
<1>4. client'.bytes \in Nat
  <2>1. Sizes(job.params, Delivered \union {t})[Len(job.params)] \in Nat
    <3>1. Len(job.params) \in 0 .. Len(job.params)
      BY <1>1
    <3> HIDE DEF Delivered
    <3> QED
      BY <1>1, <3>1, SizesExist
  <2> QED
    BY <1>3, <2>1 DEF SizeOf
<1>5. ASSUME NEW i \in DOMAIN job.params, job.params[i] \in Delivered \union {t}
      PROVE  Filled(i)'
  <2> DEFINE slot == Layout(job.params)[i]
  <2>1. ASSUME NEW k \in 0 .. slot.len - 1
        PROVE  shardFiles'[<<slot.shard, slot.at + k>>] = Content(job.params[i], k)
    <3>1. shardFiles'[<<slot.shard, slot.at + k>>] =
             IF job.params[i] = t THEN Content(t, k) ELSE shardFiles[<<slot.shard, slot.at + k>>]
      <4>1. PICK q \in Seq(Tids) : q = job.params
        BY <1>1
      <4>2. Allocated(shardFiles, q)
        BY <4>1 DEF FilesRight
      <4>3. i \in DOMAIN q /\ k \in 0 .. Layout(q)[i].len - 1
        BY <4>1
      <4>4. LET r == Layout(q)[i]
                b == <<r.shard, r.at + k>>
            IN  Written(shardFiles, q, t)[b] = IF q[i] = t THEN Content(t, k) ELSE shardFiles[b]
        BY <4>2, <4>3, WriteFills
      <4> QED
        BY <4>1, <4>4
    <3>2. job.params[i] # t => shardFiles[<<slot.shard, slot.at + k>>] = Content(job.params[i], k)
      BY <1>5 DEF FilesRight, Filled
    <3> QED
      BY <3>1, <3>2
  <2> QED
    BY <2>1 DEF Filled
<1>6. Allocated(shardFiles, job.params)'
  BY <1>2 DEF FilesRight, Allocated
<1> QED
  BY <1>3, <1>4, <1>5, <1>6 DEF FilesRight

\* A delivered tensor waits no longer: the count of its base is one less.
LEMMA CountsGoOn ==
    ASSUME NEW t \in Range(client.order) \ Delivered, job' = job, client'.order = client.order,
           Delivered' = Delivered \union {t}, Range(client.order) \subseteq Tids
    PROVE  \A x : /\ Waiting(x)' = Waiting(x) \ {t}
                  /\ job.base[t] = x => /\ Cardinality(Waiting(x)) \in Nat \ {0}
                                        /\ Cardinality(Waiting(x) \ {t}) = Cardinality(Waiting(x)) - 1
                  /\ job.base[t] # x => Waiting(x) \ {t} = Waiting(x)
<1> TAKE x
<1>1. Waiting(x)' = Waiting(x) \ {t}
  BY DEF Waiting
<1>2. ASSUME job.base[t] = x
      PROVE  /\ Cardinality(Waiting(x)) \in Nat \ {0}
             /\ Cardinality(Waiting(x) \ {t}) = Cardinality(Waiting(x)) - 1
  <2>1. t \in Waiting(x)
    BY <1>2 DEF Waiting
  <2>2. IsFiniteSet(Waiting(x)) /\ Cardinality(Waiting(x)) \in Nat /\ Cardinality(Waiting(x)) # 0
    BY <2>1, WaitingCount
  <2> HIDE DEF Waiting
  <2> QED
    BY <2>1, <2>2, FS_RemoveElement
<1>3. ASSUME job.base[t] # x PROVE Waiting(x) \ {t} = Waiting(x)
  <2>1. t \notin Waiting(x)
    BY <1>3, Zenon DEF Waiting
  <2> HIDE DEF Waiting
  <2> QED
    BY <2>1
<1> QED
  BY <1>1, <1>2, <1>3

\* What DeliverTensor assigns.
LEMMA DeliverFields ==
    ASSUME client \in Clients, DeliverTensor
    PROVE  LET t == Current
               b == job.base[t]
               counted == FromHub(job) /\ b \in Range(client.order)
               kept == client.held \union (IF client.refs[t] > 0 THEN {t} ELSE {})
               left == IF counted THEN [client.refs EXCEPT ![b] = @ - 1] ELSE client.refs
           IN  /\ client.pc = "check" /\ client.out = t /\ job' = job
               /\ shardFiles' = Written(shardFiles, job.params, t)
               /\ baseCache' = IF job.shared /\ client.refs[t] > 0
                               THEN [x \in DOMAIN baseCache \union {t} |->
                                       IF x = t THEN client.out ELSE baseCache[x]]
                               ELSE baseCache
               /\ client'.pc = "next" /\ client'.done = client.done + 1
               /\ client'.bytes = client.bytes + Copies(job.params, t) * Logical[t]
               /\ client'.refs = left
               /\ client'.held = IF counted /\ left[b] = 0 THEN kept \ {b} ELSE kept
               /\ client'.spent = IF FromHub(job) THEN client.spent
                                  ELSE client.spent - Bytes(client.head)
               /\ client'.order = client.order /\ client'.fetch = client.fetch
               /\ client'.tries = client.tries /\ client'.head = client.head
               /\ client'.out = client.out /\ client'.faulty = client.faulty
               /\ client'.runs = client.runs
               /\ client' = [client EXCEPT
                               !.pc = "next", !.done = client'.done, !.bytes = client'.bytes,
                               !.refs = client'.refs, !.held = client'.held, !.spent = client'.spent]
<1> DEFINE t == Current
           b == job.base[t]
           counted == FromHub(job) /\ b \in Range(client.order)
           kept == client.held \union (IF client.refs[t] > 0 THEN {t} ELSE {})
           left == IF counted THEN [client.refs EXCEPT ![b] = @ - 1] ELSE client.refs
           d == client.done + 1
           n == client.bytes + Copies(job.params, t) * Logical[t]
           h == IF counted /\ Drops(left[b]) THEN kept \ {b} ELSE kept
           s == IF FromHub(job) THEN client.spent ELSE client.spent - Bytes(client.head)
<1>1. client' = [client EXCEPT !.pc = "next", !.done = d, !.bytes = n, !.refs = left, !.held = h,
                               !.spent = s]
  BY DEF DeliverTensor
<1>2. /\ client.pc = "check" /\ client.out = t /\ job' = job
      /\ shardFiles' = Written(shardFiles, job.params, t)
      /\ baseCache' = IF job.shared /\ client.refs[t] > 0
                      THEN [x \in DOMAIN baseCache \union {t} |->
                              IF x = t THEN client.out ELSE baseCache[x]]
                      ELSE baseCache
  BY DEF DeliverTensor
<1> HIDE DEF d, n, left, h, s
<1>3. /\ client'.pc = "next" /\ client'.done = d /\ client'.bytes = n /\ client'.refs = left
      /\ client'.held = h /\ client'.spent = s
      /\ client'.order = client.order /\ client'.fetch = client.fetch
      /\ client'.tries = client.tries /\ client'.head = client.head
      /\ client'.out = client.out /\ client'.faulty = client.faulty
      /\ client'.runs = client.runs
  BY <1>1 DEF Clients
<1>4. client' = [client EXCEPT !.pc = "next", !.done = client'.done, !.bytes = client'.bytes,
                               !.refs = client'.refs, !.held = client'.held, !.spent = client'.spent]
  BY <1>1, <1>3
<1>5. h = IF counted /\ left[b] = 0 THEN kept \ {b} ELSE kept
  BY DEF h, Drops
<1> QED
  BY <1>2, <1>3, <1>4, <1>5, Zenon DEF d, n, left, s

\* What a delivery leaves behind it is right.
LEMMA DeliverKeeps ==
    ASSUME client \in Clients, job \in Jobs, CacheSound, Underway, DeliverTensor
    PROVE  ClientTyped' /\ CacheSound' /\ Underway' /\ job' = job /\ client'.pc = "next"
<1> DEFINE t == Current
           b == job.base[t]
           counted == FromHub(job) /\ b \in Range(client.order)
           kept == client.held \union (IF client.refs[t] > 0 THEN {t} ELSE {})
           left == IF counted THEN [client.refs EXCEPT ![b] = @ - 1] ELSE client.refs
<1>1. /\ client.pc = "check" /\ client.out = t /\ job' = job
      /\ shardFiles' = Written(shardFiles, job.params, t)
      /\ baseCache' = IF job.shared /\ client.refs[t] > 0
                      THEN [x \in DOMAIN baseCache \union {t} |->
                              IF x = t THEN client.out ELSE baseCache[x]]
                      ELSE baseCache
  BY DeliverFields
<1>2. /\ client'.pc = "next" /\ client'.done = client.done + 1
      /\ client'.order = client.order /\ client'.fetch = client.fetch
      /\ client'.tries = client.tries /\ client'.head = client.head
      /\ client'.out = client.out /\ client'.faulty = client.faulty
      /\ client'.spent = IF FromHub(job) THEN client.spent ELSE client.spent - Bytes(client.head)
  BY DeliverFields
<1>3. /\ client'.refs = left
      /\ client'.held = IF counted /\ left[b] = 0 THEN kept \ {b} ELSE kept
      /\ client'.bytes = client.bytes + Copies(job.params, t) * Logical[t]
  BY DeliverFields
<1>4. /\ client.head = client.done + 1 /\ client.done < Len(client.order)
      /\ client.fetch[client.head] \in {"got", "damaged", "cached"}
      /\ OrderRight /\ FetchesRight /\ RefsRight /\ BudgetKept /\ FilesRight
  BY <1>1 DEF Underway, HeadRight, FetchesRight
<1>5. /\ Len(client.order) \in Nat /\ Places = 1 .. Len(client.order)
      /\ client.done \in 0 .. Len(client.order)
      /\ \A i \in Places : Bytes(i) \in Nat
      /\ Range(client.order) \subseteq Tids
  BY <1>4, Basics
<1>6. /\ client.head \in Places /\ t \in Tids /\ t \in Range(client.order) \ Delivered
      /\ Delivered \subseteq Range(client.order)
      /\ FromHub(job) /\ b # 0 => b \in Delivered
  BY <1>4, HeadWaits
<1>7. Delivered' = Delivered \union {t}
  <2>1. 1 .. client.done + 1 = (1 .. client.done) \union {client.head}
    BY <1>4, <1>5
  <2> QED
    BY <1>2, <2>1 DEF Delivered, Current
<1>8. counted => b \in Delivered /\ b # t
  <2>1. 0 \notin Tids
    BY DEF Tids
  <2> QED
    BY <1>5, <1>6, <2>1
<1> HIDE DEF t, b
<1>9. FilesRight' /\ client'.bytes \in Nat
  BY <1>1, <1>3, <1>4, <1>6, <1>7, DeliverFiles
<1>10. CacheSound'
  BY <1>1, <1>6 DEF CacheSound
<1>11. /\ client'.refs \in [Range(client.order) -> Nat]
       /\ \A x \in Range(client.order) :
             client'.refs[x] = IF FromHub(job) THEN Cardinality(Waiting(x) \ {t}) ELSE 0
       /\ counted => client.refs[b] \in Nat \ {0}
  <2>1. \A x : /\ job.base[t] = x => /\ Cardinality(Waiting(x)) \in Nat \ {0}
                                     /\ Cardinality(Waiting(x) \ {t}) = Cardinality(Waiting(x)) - 1
               /\ job.base[t] # x => Waiting(x) \ {t} = Waiting(x)
    BY <1>1, <1>2, <1>5, <1>6, <1>7, CountsGoOn
  <2>2. /\ client.refs \in [Range(client.order) -> Nat]
        /\ \A x \in Range(client.order) :
              client.refs[x] = IF FromHub(job) THEN Cardinality(Waiting(x)) ELSE 0
    BY <1>4 DEF RefsRight
  <2> HIDE DEF Waiting
  <2>3. CASE counted
    <3>1. client.refs[b] = Cardinality(Waiting(b)) /\ client.refs[b] \in Nat \ {0}
      BY <2>1, <2>2, <2>3 DEF b
    <3>2. client'.refs = [client.refs EXCEPT ![b] = client.refs[b] - 1]
      BY <1>3, <2>3
    <3>3. client'.refs \in [Range(client.order) -> Nat]
      <4>1. PICK c \in Nat : c = client.refs[b] - 1
        BY <3>1
      <4> QED
        BY <2>2, <3>2, <4>1
    <3>4. ASSUME NEW x \in Range(client.order)
          PROVE  client'.refs[x] = Cardinality(Waiting(x) \ {t})
      <4>1. CASE x = b
        BY <2>1, <2>2, <2>3, <3>1, <3>2, <4>1 DEF b
      <4>2. CASE x # b
        BY <2>1, <2>2, <2>3, <3>2, <4>2 DEF b
      <4> QED
        BY <4>1, <4>2
    <3> QED
      BY <2>3, <3>1, <3>3, <3>4
  <2>4. CASE ~counted
    <3>1. client'.refs = client.refs
      BY <1>3, <2>4
    <3>2. ASSUME NEW x \in Range(client.order), FromHub(job)
          PROVE  Waiting(x) \ {t} = Waiting(x)
      BY <2>1, <2>4, <3>2 DEF b
    <3> QED
      BY <2>2, <2>4, <3>1, <3>2
  <2> QED
    BY <2>3, <2>4
<1>12. client'.held = {x \in Delivered' : client'.refs[x] > 0}
  <2>1. /\ client.held = {x \in Delivered : client.refs[x] > 0}
        /\ client.refs \in [Range(client.order) -> Nat]
    BY <1>4 DEF RefsRight
  <2> HIDE DEF Delivered
  <2>2. CASE counted
    <3>1. client'.refs = [client.refs EXCEPT ![b] = client.refs[b] - 1]
      BY <1>3, <2>2
    <3>2. /\ client'.refs[b] = client.refs[b] - 1
          /\ \A x \in Range(client.order) : x # b => client'.refs[x] = client.refs[x]
      BY <2>1, <2>2, <3>1
    <3>3. client.refs[b] \in Nat \ {0} /\ client.refs[t] \in Nat
      BY <1>6, <1>11, <2>1, <2>2
    <3>4. client'.held = IF client'.refs[b] = 0 THEN kept \ {b} ELSE kept
      BY <1>3, <2>2
    <3>5. client'.refs[b] > 0 <=> client'.refs[b] # 0
      BY <3>2, <3>3
    <3>6. client'.refs[t] = client.refs[t]
      BY <1>6, <1>8, <2>2, <3>2
    <3>7. \A x \in Delivered : x # b => client'.refs[x] = client.refs[x]
      BY <1>6, <3>2
    <3>8. b \in client.held
      BY <1>8, <2>1, <2>2, <3>3
    <3> QED
      BY <1>6, <1>7, <1>8, <2>1, <2>2, <3>4, <3>5, <3>6, <3>7, <3>8
  <2>3. CASE ~counted
    <3>1. client'.refs = client.refs /\ client'.held = kept
      BY <1>3, <2>3
    <3> QED
      BY <1>6, <1>7, <2>1, <3>1
  <2> QED
    BY <2>2, <2>3
<1>13. RefsRight'
  <2>1. \A x : Waiting(x)' = Waiting(x) \ {t}
    BY <1>1, <1>2, <1>5, <1>6, <1>7, CountsGoOn
  <2> QED
    BY <1>1, <1>2, <1>11, <1>12, <2>1 DEF RefsRight
<1>14. ClientTyped'
  <2>1. client'.refs \in Counts
    BY <1>5, <1>11 DEF Counts
  <2>2. client'.held \in SUBSET Tids
    BY <1>5, <1>6, <1>7, <1>12
  <2>3. client'.spent \in Int /\ client'.done \in Nat
    BY <1>2, <1>5, <1>6 DEF Clients
  <2>4. client' = [client EXCEPT !.pc = "next", !.done = client'.done, !.bytes = client'.bytes,
                      !.refs = client'.refs, !.held = client'.held, !.spent = client'.spent]
    BY DeliverFields
  <2> QED
    BY <1>2, <1>9, <2>1, <2>2, <2>3, <2>4 DEF Clients, ClientTyped
<1>15. OrderRight'
  BY <1>1, <1>2, <1>4, <1>5 DEF OrderRight
<1>16. HeadRight'
  BY <1>2, <1>4 DEF HeadRight
<1>17. FetchesRight'
  <2>1. ASSUME NEW i \in 1 .. client.done + 1 PROVE client.fetch[i] \in {"got", "damaged", "cached"}
    <3>1. i \in 1 .. client.done \/ i = client.head
      BY <1>4, <1>5
    <3> QED
      BY <1>4, <3>1 DEF FetchesRight
  <2>2. DOMAIN baseCache \subseteq DOMAIN baseCache'
    BY <1>1
  <2>3. \A i \in Places : /\ client.fetch[i] = "cached" => InBaseCache(job, client.order[i])
                          /\ client.fetch[i] \in {"damaged", "failed"} => client.faulty
    BY <1>4 DEF FetchesRight
  <2> QED
    BY <1>1, <1>2, <2>1, <2>2, <2>3 DEF FetchesRight, Places, InBaseCache
<1>18. BudgetKept'
  <2>1. ~Overdraws'
    BY <1>2, <1>4, <1>5 DEF Overdraws
  <2>2. client.spent \in Int /\ Bytes(client.head) \in Nat
    BY <1>5, <1>6 DEF Clients
  <2>3. client'.spent <= InflightBudget
    <3>1. CASE FromHub(job)
      <4>1. ~Overdraws
        BY <1>1, <3>1 DEF Overdraws
      <4> QED
        BY <1>2, <1>4, <2>2, <3>1, <4>1, DownloadsAssumption DEF BudgetKept
    <3>2. CASE ~FromHub(job)
      <4>1. client.spent <= InflightBudget + Bytes(client.head)
        BY <1>4, <2>2, DownloadsAssumption DEF BudgetKept
      <4> QED
        BY <1>2, <2>2, <3>2, <4>1, DownloadsAssumption
    <3> QED
      BY <3>1, <3>2
  <2> QED
    BY <2>1, <2>3, DownloadsAssumption DEF BudgetKept
<1> QED
  BY <1>1, <1>2, <1>9, <1>10, <1>13, <1>14, <1>15, <1>16, <1>17, <1>18 DEF Underway

\* A client at rest is one.
LEMMA RestingTyped == Resting \in Clients
<1>1. <<>> \in Counts
  BY DEF Counts
<1> QED
  BY <1>1, MaxTidAssumption DEF Resting, Clients, Garbled

\* A pull starts right, or fails at once on a manifest that does not resolve.
LEMMA StartKeeps ==
    ASSUME client \in Clients, CacheSound, NEW j \in Jobs, StartDownload(j)
    PROVE  /\ ClientTyped' /\ CacheSound' /\ job' \in Jobs
           /\ \/ client'.pc = "next" /\ Underway'
              \/ client'.pc = "failed" /\ Blamed' /\ Settled'
<1>1. job' = j /\ baseCache' = baseCache /\ client.runs + 1 \in Nat
  BY DEF StartDownload, Clients
<1>2. CacheSound'
  BY <1>1 DEF CacheSound
<1>3. CASE FromHub(j) /\ Resolved(j).error # "none"
  <2>1. client' = [Resting EXCEPT !.pc = "failed", !.runs = client.runs + 1]
    BY <1>3 DEF StartDownload
  <2>2. client' \in Clients /\ client'.pc = "failed"
    BY <1>1, <2>1, RestingTyped DEF Clients
  <2>3. Blamed'
    BY <1>1, <1>3 DEF Blamed, Matches
  <2>4. Settled'
    BY <2>1 DEF Settled, Places, Resting
  <2> QED
    BY <1>1, <1>2, <2>2, <2>3, <2>4 DEF ClientTyped
<1>4. CASE ~(FromHub(j) /\ Resolved(j).error # "none")
  <2> DEFINE order == FetchOrder(j)
             children(t) == Cardinality(Children(j.base, Range(order), t))
             fetch == [i \in DOMAIN order |-> IF InBaseCache(j, order[i]) THEN "cached" ELSE "queued"]
             tries == [i \in DOMAIN order |-> 0]
             refs == [t \in Range(order) |-> IF FromHub(j) THEN children(t) ELSE 0]
  <2>1. /\ client' = [Resting EXCEPT
                         !.pc = "next", !.order = order, !.head = 1, !.runs = client.runs + 1,
                         !.fetch = fetch, !.tries = tries, !.refs = refs]
        /\ shardFiles' = Preallocated(j.params)
    BY <1>4 DEF StartDownload
  <2>2. Resolves(j)
    BY <1>4 DEF Resolves
  <2>3. order \in Seq(Tids)
    BY <2>2, OrderFacts
  <2>4. Range(order) \subseteq Tids
    BY <2>3 DEF Range
  <2>5. /\ fetch \in Seq(Statuses) /\ Len(fetch) = Len(order)
        /\ tries \in Seq(Nat) /\ Len(tries) = Len(order)
        /\ Len(order) \in Nat /\ DOMAIN order = 1 .. Len(order)
    <3>1. DOMAIN order = 1 .. Len(order) /\ Len(order) \in Nat
      BY <2>3
    <3>2. fetch \in [1 .. Len(order) -> Statuses] /\ tries \in [1 .. Len(order) -> Nat]
      BY <3>1 DEF Statuses
    <3> HIDE DEF fetch, tries, order
    <3> QED
      BY <3>1, <3>2
  <2>6. refs \in [Range(order) -> Nat]
    <3>1. ASSUME NEW t \in Range(order) PROVE children(t) \in Nat
      <4>1. Children(j.base, Range(order), t) \in SUBSET Tids
        BY <2>4 DEF Children
      <4> QED
        BY <4>1, TidsFinite
    <3> HIDE DEF children, order
    <3> QED
      BY <3>1
  <2>7. refs \in Counts
    BY <2>4, <2>6 DEF Counts
  <2> HIDE DEF fetch, tries, refs, order
  <2>8. /\ client'.pc = "next" /\ client'.order = order /\ client'.head = 1 /\ client'.done = 0
        /\ client'.fetch = fetch /\ client'.tries = tries /\ client'.refs = refs
        /\ client'.spent = 0 /\ client'.held = {} /\ client'.bytes = 0 /\ client'.faulty = FALSE
    BY <2>1 DEF Resting
  <2>9. ClientTyped'
    BY <1>1, <2>1, <2>3, <2>5, <2>7, RestingTyped DEF ClientTyped, Clients
  <2>10. OrderRight'
    BY <1>1, <2>2, <2>5, <2>8 DEF OrderRight, order
  <2>11. HeadRight'
    BY <2>8 DEF HeadRight
  <2>12. FetchesRight'
    <3>1. /\ \A i \in DOMAIN order : fetch[i] \in {"queued", "cached"}
          /\ \A i \in DOMAIN order : fetch[i] = "cached" => InBaseCache(j, order[i])
      BY DEF fetch
    <3> QED
      BY <1>1, <2>8, <3>1 DEF FetchesRight, Places, InBaseCache
  <2>13. Delivered' = {}
    BY <2>8 DEF Delivered
  <2>14. RefsRight'
    <3>1. \A x : Waiting(x)' = Children(j.base, Range(order), x)
      BY <1>1, <2>8, <2>13 DEF Waiting, Children
    <3>2. \A x \in Range(order) : refs[x] = IF FromHub(j) THEN Cardinality(Children(j.base, Range(order), x))
                                            ELSE 0
      BY DEF refs
    <3> QED
      BY <1>1, <2>6, <2>8, <2>13, <3>1, <3>2 DEF RefsRight
  <2>15. BudgetKept'
    <3>1. fetch[1] \in {"queued", "cached"} \/ 1 \notin DOMAIN order
      BY DEF fetch
    <3>2. ~Overdraws'
      BY <2>8, <3>1 DEF Overdraws, Places
    <3> QED
      BY <2>8, <3>2, DownloadsAssumption DEF BudgetKept
  <2>16. FilesRight'
    <3>1. j.params \in Seq(Tids)
      BY DownloadsAssumption
    <3>2. SizeOf(j.params, {}) = 0
      BY <3>1, SizeOfNone
    <3>3. Allocated(shardFiles, job.params)'
      BY <1>1, <2>1 DEF Allocated, Preallocated
    <3> HIDE DEF Delivered
    <3>4. client'.bytes = SizeOf(job.params, Delivered)'
      BY <1>1, <2>8, <2>13, <3>2
    <3> QED
      BY <2>13, <3>3, <3>4 DEF FilesRight
  <2> QED
    BY <1>1, <1>2, <2>8, <2>9, <2>10, <2>11, <2>12, <2>14, <2>15, <2>16 DEF Underway
<1> QED
  BY <1>3, <1>4

-----------------------------------------------------------------------------
(* The theorems *)

\* A client begins right.
LEMMA DownloadStart == DownloadInit => DownloadInv
<1> SUFFICES ASSUME DownloadInit PROVE DownloadInv
  OBVIOUS
<1>1. ClientTyped /\ client.pc = "resting"
  BY RestingTyped DEF DownloadInit, ClientTyped, Resting
<1>2. Settled
  BY DEF DownloadInit, Settled, Places, Resting
<1>3. CacheSound
  BY DEF DownloadInit, CacheSound
<1> QED
  BY <1>1, <1>2, <1>3 DEF DownloadInv

\* Every step of the clients keeps the inductive invariant.
LEMMA DownloadStep ==
    ASSUME DownloadInv, [DownloadNext]_download
    PROVE  DownloadInv'
<1>0. client \in Clients /\ CacheSound
  BY DEF DownloadInv, ClientTyped
<1>1. ASSUME NEW j \in Jobs, StartDownload(j) PROVE DownloadInv'
  <2>1. /\ ClientTyped' /\ CacheSound' /\ job' \in Jobs
        /\ \/ client'.pc = "next" /\ Underway'
           \/ client'.pc = "failed" /\ Blamed' /\ Settled'
    BY <1>0, <1>1, StartKeeps
  <2> QED
    BY <2>1 DEF DownloadInv, AtRest
<1>2. ASSUME Busy PROVE job \in Jobs /\ Underway
  BY <1>2 DEF DownloadInv, Busy
<1>3. ASSUME job' \in Jobs, ClientTyped', CacheSound', Underway',
             client'.pc \in {"next", "await", "check", "closing"}
      PROVE  DownloadInv'
  BY <1>3 DEF DownloadInv, AtRest
<1>4. ASSUME NEW i \in Places, Reserve(i) \/ Attempt(i) \/ Receive(i, "got") \/ Receive(i, "damaged")
      PROVE  DownloadInv'
  <2>1. Busy
    <3>1. client.fetch[i] \in {"queued", "getting"}
      BY <1>4 DEF Reserve, Taken, Attempt, Receive
    <3>2. ~AtRest
      BY <3>1 DEF DownloadInv, Settled
    <3> QED
      BY <1>0, <3>2 DEF AtRest, Busy, Clients
  <2>2. client \in Clients /\ job \in Jobs /\ CacheSound /\ Underway /\ OrderRight
    BY <1>0, <1>2, <2>1 DEF Underway
  <2>3. ClientTyped' /\ CacheSound' /\ Underway' /\ client'.pc = client.pc /\ job' = job
    <3>1. CASE Reserve(i)
      BY <2>1, <2>2, <3>1, ReserveKeeps
    <3>2. CASE Attempt(i) \/ Receive(i, "got") \/ Receive(i, "damaged")
      <4>1. PoolMoves
        <5>1. \A r \in {"got", "damaged"} : Receive(i, r) \/ Attempt(i) => PoolMoves
          BY <2>2, ReceiveMoves
        <5> QED
          BY <3>2, <5>1
      <4> QED
        BY <2>1, <2>2, <4>1, PoolKeeps
    <3> QED
      BY <1>4, <3>1, <3>2
  <2> QED
    BY <1>3, <2>1, <2>2, <2>3 DEF Busy
<1>5. ASSUME TakeNext PROVE DownloadInv'
  <2>1. client \in Clients /\ job \in Jobs /\ CacheSound /\ Underway
    BY <1>0, <1>2, <1>5 DEF TakeNext, Busy
  <2> QED
    BY <1>3, <1>5, <2>1, TakeNextKeeps
<1>6. ASSUME TakeCached PROVE DownloadInv'
  <2>1. client \in Clients /\ job \in Jobs /\ CacheSound /\ Underway
    BY <1>0, <1>2, <1>6 DEF TakeCached, Busy
  <2> QED
    BY <1>3, <1>6, <2>1, TakeCachedKeeps
<1>7. ASSUME FetchRaised \/ BaseMissing \/ HashMismatch PROVE DownloadInv'
  <2>1. client \in Clients /\ job \in Jobs /\ CacheSound /\ Underway
    BY <1>0, <1>2, <1>7 DEF FetchRaised, BaseMissing, HashMismatch, Arrived, Busy
  <2> QED
    BY <1>3, <1>7, <2>1, ErrorsKeep
<1>8. ASSUME DecodeBlob PROVE DownloadInv'
  <2>1. client \in Clients /\ job \in Jobs /\ CacheSound /\ Underway
    BY <1>0, <1>2, <1>8 DEF DecodeBlob, Arrived, Busy
  <2> QED
    BY <1>3, <1>8, <2>1, DecodeKeeps
<1>9. ASSUME TakeBody PROVE DownloadInv'
  <2>1. client \in Clients /\ job \in Jobs /\ CacheSound /\ Underway
    BY <1>0, <1>2, <1>9 DEF TakeBody, Arrived, Busy
  <2> QED
    BY <1>3, <1>9, <2>1, TakeBodyKeeps
<1>10. ASSUME DeliverTensor PROVE DownloadInv'
  <2>1. client \in Clients /\ job \in Jobs /\ CacheSound /\ Underway
    BY <1>0, <1>2, <1>10 DEF DeliverTensor, Busy
  <2> QED
    BY <1>3, <1>10, <2>1, DeliverKeeps
<1>11. ASSUME Close PROVE DownloadInv'
  <2>1. client \in Clients /\ job \in Jobs /\ CacheSound /\ Underway
    BY <1>0, <1>2, <1>11 DEF Close, Busy
  <2>2. /\ ClientTyped' /\ CacheSound' /\ job' = job /\ Settled'
        /\ (client'.pc = "ok" /\ Underway') \/ (client'.pc = "failed" /\ Blamed')
    BY <1>11, <2>1, CloseKeeps
  <2> QED
    BY <2>1, <2>2 DEF DownloadInv
<1>12. ASSUME UNCHANGED download PROVE DownloadInv'
  <2>1. client' = client /\ job' = job /\ shardFiles' = shardFiles /\ baseCache' = baseCache
    BY <1>12 DEF download
  <2>2. /\ ClientTyped' = ClientTyped /\ CacheSound' = CacheSound /\ Settled' = Settled
        /\ AtRest' = AtRest /\ Blamed' = Blamed
    BY <2>1 DEF ClientTyped, CacheSound, Settled, AtRest, Blamed, Matches, Places
  <2>3. Underway' = Underway
    BY <2>1 DEF Underway, OrderRight, HeadRight, FetchesRight, RefsRight, BudgetKept, FilesRight,
                Filled, Delivered, Waiting, Overdraws, Bytes, Places, Blamed, Matches, InBaseCache,
                Current
  <2> QED
    BY <2>1, <2>2, <2>3 DEF DownloadInv
<1> QED
  BY <1>1, <1>4, <1>5, <1>6, <1>7, <1>8, <1>9, <1>10, <1>11, <1>12 DEF DownloadNext

\* Whatever the pulls, their faults and the cache they share, a pull that says
\* it is ok has delivered every parameter, one that fails has something to
\* blame, and the budget is exceeded by the head of the line at most.
THEOREM PullsDeliver == DownloadSpec => []DownloadsDeliver
<1>1. DownloadInit => DownloadInv
  BY DownloadStart
<1>2. DownloadInv /\ [DownloadNext]_download => DownloadInv'
  BY DownloadStep
<1>3. DownloadInv => DownloadsDeliver
  BY InvDelivers
<1> QED
  BY <1>1, <1>2, <1>3, PTL DEF DownloadSpec

=============================================================================
