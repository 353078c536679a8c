---------------------------- MODULE OperatorProofs ----------------------------
(***************************************************************************)
(* Proofs about the operators of the work beside the hub: the arena of     *)
(* fingerprints (Sketches), byte ranges and batches (Transfers), the       *)
(* adoption of a plan (Adoption), the kernels (Codecs), which decode what  *)
(* they encode for buffers of any length, any number of threads on either  *)
(* side, any width of the byte, whatever the fresh buffers held, and the   *)
(* planners with the batches that carry their plans out (Planners), which  *)
(* leave a forest of deltas and split a series only where it pays.  Where  *)
(* a task of Offline drives them, what is proved of the operators is       *)
(* proved of the task's answer.                                            *)
(***************************************************************************)
EXTENDS Offline, ClosuresProofs

-----------------------------------------------------------------------------
(* The arena: rows of k numbers, one after another. *)

\* A place of the arena is in one row, at one place of it.
LEMMA RowPlaces ==
    ASSUME NEW k \in Nat, NEW a \in Nat, NEW b \in Nat
    PROVE  /\ a * k \in Nat /\ (a + 1) * k = a * k + k
           /\ a < b => (a + 1) * k <= b * k
OBVIOUS

\* A row of an arena that has it.
LEMMA RowIs ==
    ASSUME NEW T, NEW arena \in Seq(T), NEW k \in Nat, NEW m \in Nat, m + k <= Len(arena)
    PROVE  LET row == SubSeq(arena, m + 1, m + k)
           IN /\ row \in Seq(T) /\ Len(row) = k
              /\ \A j \in 1..k : row[j] = arena[m + j]
<1> DEFINE row == SubSeq(arena, m + 1, m + k)
<1>1. Len(arena) \in Nat /\ \A i \in 1..Len(arena) : arena[i] \in T
  OBVIOUS
<1>2. PICK p, q : p = m + 1 /\ q = m + k
  OBVIOUS
<1>3. p \in Int /\ q \in Int /\ \A i \in p .. q : arena[i] \in T
  BY <1>1, <1>2
<1>4. /\ SubSeq(arena, p, q) \in Seq(T)
      /\ Len(SubSeq(arena, p, q)) = IF p <= q THEN q - p + 1 ELSE 0
      /\ \A i \in 1 .. q - p + 1 : SubSeq(arena, p, q)[i] = arena[p + i - 1]
  BY <1>3, SubSeqProperties
<1>5. row = SubSeq(arena, p, q)
  BY <1>2
<1> HIDE DEF row
<1>6. Len(row) = k
  BY <1>2, <1>4, <1>5
<1>7. ASSUME NEW j \in 1..k PROVE row[j] = arena[m + j]
  <2>1. j \in 1 .. q - p + 1 /\ p + j - 1 = m + j
    BY <1>2
  <2> QED BY <1>4, <1>5, <2>1
<1> QED BY <1>4, <1>5, <1>6, <1>7 DEF row

\* The ids are those of the index, each with the row the index gives it.
StoreSound(store, k, T) ==
    /\ store = [ids |-> store.ids, index |-> store.index, arena |-> store.arena]
    /\ store.arena \in Seq(T)
    /\ store.ids \in Seq(DOMAIN store.index)
    /\ Len(store.arena) = Len(store.ids) * k
    /\ store.index \in [DOMAIN store.index -> 0 .. Len(store.ids) - 1]
    /\ \A id \in DOMAIN store.index : store.ids[store.index[id] + 1] = id
    /\ \A i \in 1..Len(store.ids) : store.index[store.ids[i]] = i - 1

\* A row behind the arena leaves it as it was.
LEMMA RowAppended ==
    ASSUME NEW T, NEW arena \in Seq(T), NEW vec \in Seq(T)
    PROVE  /\ arena \o vec \in Seq(T) /\ Len(arena \o vec) = Len(arena) + Len(vec)
           /\ \A i \in 1..Len(arena) : (arena \o vec)[i] = arena[i]
           /\ \A i \in 1..Len(vec) : (arena \o vec)[Len(arena) + i] = vec[i]
<1>1. Len(arena) \in Nat /\ Len(vec) \in Nat
  OBVIOUS
<1>2. /\ arena \o vec \in Seq(T) /\ Len(arena \o vec) = Len(arena) + Len(vec)
      /\ \A i \in 1 .. Len(arena) + Len(vec) :
            (arena \o vec)[i] = IF i <= Len(arena) THEN arena[i] ELSE vec[i - Len(arena)]
  BY ConcatProperties
<1> DEFINE both == arena \o vec
           m == Len(arena)
           n == Len(vec)
<1> HIDE DEF both, m, n
<1>3. /\ m \in Nat /\ n \in Nat
      /\ \A i \in 1 .. m + n : both[i] = IF i <= m THEN arena[i] ELSE vec[i - m]
  BY <1>1, <1>2 DEF both, m, n
<1>4. ASSUME NEW i \in 1..m PROVE both[i] = arena[i]
  <2>1. i \in 1 .. m + n /\ i <= m
    BY <1>3
  <2> QED BY <1>3, <2>1
<1>5. ASSUME NEW i \in 1..n PROVE both[m + i] = vec[i]
  <2>1. m + i \in 1 .. m + n /\ ~(m + i <= m) /\ (m + i) - m = i
    BY <1>3
  <2> QED BY <1>3, <2>1
<1> QED BY <1>2, <1>4, <1>5 DEF both, m, n

\* Putting a row over another changes that row alone.
Overwritten(arena, vec, r, k) ==
    SubSeq(arena, 1, r * k) \o vec \o SubSeq(arena, r * k + k + 1, Len(arena))

\* The arena with one row put over another.
LEMMA RowReplaced ==
    ASSUME NEW T, NEW arena \in Seq(T), NEW k \in Nat, NEW vec \in Seq(T), Len(vec) = k,
           NEW r \in Nat, (r + 1) * k <= Len(arena)
    PROVE  /\ Overwritten(arena, vec, r, k) \in Seq(T)
           /\ Len(Overwritten(arena, vec, r, k)) = Len(arena)
           /\ \A i \in 1..Len(arena) :
                 Overwritten(arena, vec, r, k)[i]
                   = IF r * k < i /\ i <= r * k + k THEN vec[i - r * k] ELSE arena[i]
<1> DEFINE m == r * k
           n == Len(arena)
           a == SubSeq(arena, 1, m)
           c == SubSeq(arena, m + k + 1, n)
           ab == a \o vec
           after == ab \o c
<1>1. m \in Nat /\ n \in Nat /\ m + k <= n /\ \A i \in 1..n : arena[i] \in T
  BY RowPlaces
<1> HIDE DEF m, n
<1>2. a \in Seq(T) /\ Len(a) = m /\ \A i \in 1..m : a[i] = arena[i]
  <2>1. 1 \in Int /\ m \in Int /\ \A i \in 1..m : arena[i] \in T
    BY <1>1
  <2>2. /\ a \in Seq(T) /\ Len(a) = IF 1 <= m THEN m - 1 + 1 ELSE 0
        /\ \A i \in 1 .. m - 1 + 1 : a[i] = arena[1 + i - 1]
    BY <2>1, SubSeqProperties
  <2> HIDE DEF a
  <2>3. \A i \in 1..m : i \in 1 .. m - 1 + 1 /\ 1 + i - 1 = i
    BY <1>1
  <2> QED BY <1>1, <2>2, <2>3
<1>3. c \in Seq(T) /\ Len(c) = n - (m + k) /\ \A i \in 1 .. n - (m + k) : c[i] = arena[m + k + i]
  <2>1. PICK p : p = m + k + 1
    OBVIOUS
  <2>2. p \in Int /\ n \in Int /\ \A i \in p..n : arena[i] \in T
    BY <1>1, <2>1
  <2>3. /\ c \in Seq(T) /\ Len(c) = IF p <= n THEN n - p + 1 ELSE 0
        /\ \A i \in 1 .. n - p + 1 : c[i] = arena[p + i - 1]
    <3>1. /\ SubSeq(arena, p, n) \in Seq(T)
          /\ Len(SubSeq(arena, p, n)) = IF p <= n THEN n - p + 1 ELSE 0
          /\ \A i \in 1 .. n - p + 1 : SubSeq(arena, p, n)[i] = arena[p + i - 1]
      BY <2>2, SubSeqProperties
    <3>2. c = SubSeq(arena, p, n)
      BY <2>1
    <3> QED BY <3>1, <3>2, Zenon
  <2> HIDE DEF c
  <2>4. \A i \in 1 .. n - (m + k) : i \in 1 .. n - p + 1 /\ p + i - 1 = m + k + i
    BY <1>1, <2>1
  <2> QED BY <1>1, <2>1, <2>3, <2>4
<1> HIDE DEF a, c
<1>4. /\ ab \in Seq(T) /\ Len(ab) = m + k
      /\ \A i \in 1 .. m + k : ab[i] = IF i <= m THEN arena[i] ELSE vec[i - m]
  <2>1. /\ ab \in Seq(T) /\ Len(ab) = Len(a) + Len(vec)
        /\ \A i \in 1 .. Len(a) + Len(vec) : ab[i] = IF i <= Len(a) THEN a[i] ELSE vec[i - Len(a)]
    BY <1>2, ConcatProperties
  <2> HIDE DEF ab
  <2>2. \A i \in 1 .. m + k : i <= m => i \in 1..m
    BY <1>1
  <2> QED BY <1>2, <2>1, <2>2
<1> HIDE DEF ab
<1>5. /\ after \in Seq(T) /\ Len(after) = m + k + Len(c)
      /\ \A i \in 1 .. m + k : after[i] = ab[i]
      /\ \A i \in 1 .. Len(c) : after[m + k + i] = c[i]
  <2>1. ab \in Seq(T) /\ c \in Seq(T)
    BY <1>3, <1>4
  <2>2. /\ after \in Seq(T) /\ Len(after) = Len(ab) + Len(c)
        /\ \A i \in 1 .. Len(ab) : after[i] = ab[i]
        /\ \A i \in 1 .. Len(c) : after[Len(ab) + i] = c[i]
    BY <2>1, RowAppended
  <2> HIDE DEF after
  <2> QED BY <1>4, <2>2
<1> HIDE DEF after
<1>6. Len(after) = n
  BY <1>1, <1>3, <1>5
<1>7. ASSUME NEW i \in 1..n
      PROVE  after[i] = IF m < i /\ i <= m + k THEN vec[i - m] ELSE arena[i]
  <2>1. i \in 1 .. m + k + Len(c)
    BY <1>1, <1>3
  <2>2. CASE i <= m + k
    <3>1. i \in 1 .. m + k /\ (m < i \/ i <= m) /\ ~(m < i /\ i <= m)
      BY <1>1, <2>2
    <3> QED BY <1>4, <1>5, <2>1, <2>2, <3>1
  <2>3. CASE ~(i <= m + k)
    <3>1. i - (m + k) \in 1 .. n - (m + k) /\ m + k + (i - (m + k)) = i
      BY <1>1, <2>3
    <3>2. PICK d \in 1 .. n - (m + k) : m + k + d = i
      BY <3>1
    <3>3. d \in 1 .. Len(c) /\ c[d] = arena[i]
      BY <1>1, <1>3, <3>2
    <3> QED BY <1>5, <2>3, <3>2, <3>3
  <2> QED BY <2>2, <2>3
<1>8. after = Overwritten(arena, vec, r, k)
  BY DEF Overwritten, after, ab, a, c, m, n
<1> QED BY <1>5, <1>6, <1>7, <1>8 DEF m, n

\* The row of an id is the part of the arena behind one place.
RowAt(store, id, k, T, place) ==
    /\ place \in Nat /\ place + k <= Len(store.arena)
    /\ RowById(store, id, k) \in Seq(T) /\ Len(RowById(store, id, k)) = k
    /\ \A j \in 1..k : RowById(store, id, k)[j] = store.arena[place + j]

\* The row of an id that the store has.
LEMMA RowOfId ==
    ASSUME NEW T, NEW k \in Nat, NEW store, StoreSound(store, k, T), NEW id \in DOMAIN store.index,
           NEW place, place = store.index[id] * k
    PROVE  RowAt(store, id, k, T, place)
<1>1. PICK r, n, arena : r = store.index[id] /\ n = Len(store.ids) /\ arena = store.arena
  OBVIOUS
<1>2. r \in 0 .. n - 1 /\ n \in Nat /\ Len(arena) = n * k /\ arena \in Seq(T)
  BY <1>1 DEF StoreSound
<1>3. r \in Nat /\ r < n
  BY <1>2
<1>4. r * k \in Nat /\ (r + 1) * k = r * k + k /\ (r + 1) * k <= n * k
  BY <1>2, <1>3, RowPlaces
<1>5. /\ place \in Nat /\ place + k <= Len(arena) /\ (r + 1) * k = place + k /\ r * k = place
  BY <1>1, <1>2, <1>4
<1>6. RowById(store, id, k) = SubSeq(arena, place + 1, place + k)
  BY <1>1, <1>5 DEF RowById, RowSlice
<1> DEFINE row == SubSeq(arena, place + 1, place + k)
<1>7. row \in Seq(T) /\ Len(row) = k /\ \A j \in 1..k : row[j] = arena[place + j]
  BY <1>2, <1>5, RowIs
<1> HIDE DEF row
<1>8. RowById(store, id, k) = row
  BY <1>6 DEF row
<1> QED BY <1>1, <1>5, <1>7, <1>8 DEF RowAt

\* The store that an open creates is sound.
LEMMA EmptyStoreSound == ASSUME NEW k \in Nat, NEW T PROVE StoreSound(EmptyStore, k, T)
<1>1. 0 * k = 0
  OBVIOUS
<1> QED BY <1>1 DEF StoreSound, EmptyStore

\* What a new vector for an id of the store leaves.
LEMMA RowRewritten ==
    ASSUME NEW T, NEW k \in Nat, NEW store, StoreSound(store, k, T),
           NEW id \in DOMAIN store.index, NEW vec \in Seq(T), Len(vec) = k
    PROVE  LET after == Absorb(store, id, vec, k)
           IN /\ StoreSound(after, k, T) /\ DOMAIN after.index = DOMAIN store.index
              /\ RowById(after, id, k) = vec
              /\ \A x \in DOMAIN store.index \ {id} :
                    RowById(after, x, k) = RowById(store, x, k)
<1>0. PICK ids, index, arena : store = [ids |-> ids, index |-> index, arena |-> arena]
  BY DEF StoreSound
<1>a. PICK after : after = Absorb(store, id, vec, k)
  OBVIOUS
<1>1. /\ arena \in Seq(T) /\ ids \in Seq(DOMAIN index) /\ Len(arena) = Len(ids) * k
      /\ index \in [DOMAIN index -> 0 .. Len(ids) - 1]
      /\ \A x \in DOMAIN index : ids[index[x] + 1] = x
      /\ \A i \in 1..Len(ids) : index[ids[i]] = i - 1
      /\ store.index = index /\ store.arena = arena
  <2>1. store.ids = ids /\ store.index = index /\ store.arena = arena
    BY <1>0
  <2> QED BY <2>1 DEF StoreSound
<1>2. Len(ids) \in Nat
  BY <1>1
<1>3. PICK r : r = index[id] /\ id \in DOMAIN index
  BY <1>1
<1>4. r \in Nat /\ r < Len(ids)
  BY <1>1, <1>2, <1>3
<1>5. (r + 1) * k <= Len(arena) /\ (r + 1) * k = r * k + k /\ r * k \in Nat
  <2>1. PICK n \in Nat : n = Len(ids) /\ Len(arena) = n * k /\ r < n
    BY <1>1, <1>2, <1>4
  <2> QED BY <1>4, <2>1, RowPlaces
<1>6. PICK arena2 : arena2 = Overwritten(arena, vec, r, k)
  OBVIOUS
<1>7. /\ arena2 \in Seq(T) /\ Len(arena2) = Len(arena)
      /\ \A i \in 1..Len(arena) :
            arena2[i] = IF r * k < i /\ i <= r * k + k THEN vec[i - r * k] ELSE arena[i]
  <2>1. arena \in Seq(T) /\ r \in Nat /\ (r + 1) * k <= Len(arena)
    BY <1>1, <1>4, <1>5
  <2>2. /\ Overwritten(arena, vec, r, k) \in Seq(T)
        /\ Len(Overwritten(arena, vec, r, k)) = Len(arena)
        /\ \A i \in 1..Len(arena) :
              Overwritten(arena, vec, r, k)[i]
                = IF r * k < i /\ i <= r * k + k THEN vec[i - r * k] ELSE arena[i]
    BY <2>1, RowReplaced
  <2> QED BY <1>6, <2>2
<1>8. after = [ids |-> ids, index |-> index, arena |-> arena2]
  <2>1. after = [store EXCEPT !.arena = SubSeq(@, 1, index[id] * k) \o vec
                                          \o SubSeq(@, index[id] * k + k + 1, Len(@))]
    BY <1>0, <1>1, <1>a DEF Absorb, Upsert
  <2>2. after = [store EXCEPT !.arena = arena2]
    BY <1>0, <1>3, <1>6, <2>1 DEF Overwritten
  <2> QED BY <1>0, <2>2
<1>9. after.index = index /\ after.arena = arena2
  BY <1>8
<1>s. StoreSound(after, k, T)
  <2>1. after.ids = ids /\ after.index = index /\ after.arena = arena2
    BY <1>8
  <2>2. after = [ids |-> after.ids, index |-> after.index, arena |-> after.arena]
    BY <1>8, <2>1
  <2>3. Len(arena2) = Len(ids) * k
    BY <1>1, <1>7
  <2> HIDE <1>8
  <2> QED BY <1>1, <1>7, <2>1, <2>2, <2>3 DEF StoreSound
<1>10. ASSUME NEW x \in DOMAIN index, NEW place, place = index[x] * k
       PROVE  RowAt(store, x, k, T, place) /\ RowAt(after, x, k, T, place)
  <2>1. x \in DOMAIN store.index /\ place = store.index[x] * k
    BY <1>1, <1>10
  <2>2. x \in DOMAIN after.index /\ place = after.index[x] * k
    BY <1>9, <1>10
  <2>3. RowAt(store, x, k, T, place)
    BY <2>1, RowOfId
  <2>4. RowAt(after, x, k, T, place)
    BY <1>s, <2>2, RowOfId
  <2> QED BY <2>3, <2>4
<1>11. RowById(after, id, k) = vec
  <2>1. PICK place : place = r * k
    OBVIOUS
  <2>2. RowAt(after, id, k, T, place)
    BY <1>3, <1>10, <2>1
  <2>3. place \in Nat /\ place + k <= Len(arena) /\ Len(arena) \in Nat
        /\ \A i \in 1..Len(arena) :
              arena2[i] = IF place < i /\ i <= place + k THEN vec[i - place] ELSE arena[i]
    BY <1>1, <1>5, <1>7, <2>1
  <2>4. ASSUME NEW j \in 1..k PROVE RowById(after, id, k)[j] = vec[j]
    <3>1. RowById(after, id, k)[j] = arena2[place + j]
      BY <1>9, <2>2 DEF RowAt
    <3>2. place + j \in 1..Len(arena) /\ place < place + j /\ place + j <= place + k
          /\ (place + j) - place = j
      BY <2>3
    <3> QED BY <2>3, <3>1, <3>2
  <2>5. RowById(after, id, k) \in Seq(T) /\ Len(RowById(after, id, k)) = k
    BY <2>2 DEF RowAt
  <2> QED BY <2>4, <2>5, SeqEqual
<1>12. ASSUME NEW x \in DOMAIN index \ {id}
       PROVE  RowById(after, x, k) = RowById(store, x, k)
  <2>1. PICK p, place, place2 : p = index[x] /\ place = p * k /\ place2 = r * k
    OBVIOUS
  <2>2. RowAt(store, x, k, T, place) /\ RowAt(after, x, k, T, place)
    BY <1>10, <2>1
  <2>3. p # r /\ p \in Nat
    <3>1. p \in Nat
      BY <1>1, <1>2, <2>1
    <3>2. index[x] # index[id]
      <4>1. ids[index[x] + 1] = x /\ ids[index[id] + 1] = id
        BY <1>1, <1>3, Zenon
      <4> QED BY <4>1
    <3> QED BY <1>3, <2>1, <3>1, <3>2
  <2>4. (p + 1) * k <= r * k \/ (r + 1) * k <= p * k
    <3>1. p < r \/ r < p
      BY <1>4, <2>3
    <3> QED BY <1>4, <2>3, <3>1, RowPlaces
  <2>5. place \in Nat /\ (p + 1) * k = place + k
    BY <2>1, <2>3, RowPlaces
  <2>6. place2 \in Nat /\ (r + 1) * k = place2 + k /\ Len(arena) \in Nat
    BY <1>1, <1>5, <2>1
  <2>7. place + k <= place2 \/ place2 + k <= place
    BY <2>1, <2>4, <2>5, <2>6
  <2>8. \A i \in 1..Len(arena) :
           arena2[i] = IF place2 < i /\ i <= place2 + k THEN vec[i - place2] ELSE arena[i]
    BY <1>7, <2>1
  <2>9. /\ RowById(after, x, k) \in Seq(T) /\ Len(RowById(after, x, k)) = k
        /\ RowById(store, x, k) \in Seq(T) /\ Len(RowById(store, x, k)) = k
        /\ place + k <= Len(arena)
        /\ \A j \in 1..k : /\ RowById(after, x, k)[j] = arena2[place + j]
                           /\ RowById(store, x, k)[j] = arena[place + j]
    BY <1>1, <1>9, <2>2 DEF RowAt
  <2>10. ASSUME NEW j \in 1..k PROVE RowById(after, x, k)[j] = RowById(store, x, k)[j]
    <3>1. /\ place + j \in 1..Len(arena)
          /\ ~(place2 < place + j /\ place + j <= place2 + k)
      BY <2>5, <2>6, <2>7, <2>9
    <3> QED BY <2>8, <2>9, <3>1
  <2> QED BY <2>9, <2>10, SeqEqual
<1>13. id \in DOMAIN index /\ DOMAIN index = DOMAIN store.index
  BY <1>1
<1> QED BY <1>a, <1>s, <1>9, <1>11, <1>12, <1>13

\* What a vector for a new id leaves.
LEMMA RowAdded ==
    ASSUME NEW T, NEW k \in Nat, NEW store, StoreSound(store, k, T),
           NEW id, id \notin DOMAIN store.index, NEW vec \in Seq(T), Len(vec) = k
    PROVE  LET after == Absorb(store, id, vec, k)
           IN /\ StoreSound(after, k, T) /\ DOMAIN after.index = DOMAIN store.index \union {id}
              /\ RowById(after, id, k) = vec
              /\ \A x \in DOMAIN store.index : RowById(after, x, k) = RowById(store, x, k)
<1>0. PICK ids, index, arena : store = [ids |-> ids, index |-> index, arena |-> arena]
  BY DEF StoreSound
<1>a. PICK after : after = Absorb(store, id, vec, k)
  OBVIOUS
<1>e. store.ids = ids /\ store.index = index /\ store.arena = arena
  BY <1>0
<1>1. /\ arena \in Seq(T) /\ ids \in Seq(DOMAIN index) /\ Len(arena) = Len(ids) * k
      /\ index \in [DOMAIN index -> 0 .. Len(ids) - 1]
      /\ \A x \in DOMAIN index : ids[index[x] + 1] = x
      /\ \A i \in 1..Len(ids) : index[ids[i]] = i - 1
      /\ id \notin DOMAIN index
  BY <1>e DEF StoreSound
<1>2. PICK n \in Nat : n = Len(ids)
  <2>1. Len(ids) \in Nat
    BY <1>1
  <2> QED BY <2>1
<1>3. PICK ids2 : ids2 = Append(ids, id)
  OBVIOUS
<1>4. PICK index2 : index2 = [i \in DOMAIN index \union {id} |-> IF i = id THEN n ELSE index[i]]
  OBVIOUS
<1>5. PICK arena2 : arena2 = arena \o vec
  OBVIOUS
<1>6. after = [ids |-> ids2, index |-> index2, arena |-> arena2]
  BY <1>a, <1>e, <1>1, <1>2, <1>3, <1>4, <1>5 DEF Absorb, Upsert
<1>9. after.ids = ids2 /\ after.index = index2 /\ after.arena = arena2
  BY <1>6
<1>10. /\ arena2 \in Seq(T) /\ Len(arena2) = (n + 1) * k /\ Len(arena) = n * k /\ n * k \in Nat
       /\ \A i \in 1 .. n * k : arena2[i] = arena[i]
       /\ \A i \in 1..k : arena2[n * k + i] = vec[i]
  <2>1. /\ arena2 \in Seq(T) /\ Len(arena2) = Len(arena) + Len(vec)
        /\ \A i \in 1..Len(arena) : arena2[i] = arena[i]
        /\ \A i \in 1..Len(vec) : arena2[Len(arena) + i] = vec[i]
    <3>1. arena \in Seq(T)
      BY <1>1
    <3>2. /\ arena \o vec \in Seq(T) /\ Len(arena \o vec) = Len(arena) + Len(vec)
          /\ \A i \in 1..Len(arena) : (arena \o vec)[i] = arena[i]
          /\ \A i \in 1..Len(vec) : (arena \o vec)[Len(arena) + i] = vec[i]
      BY <3>1, RowAppended
    <3> QED BY <1>5, <3>2
  <2>2. Len(arena) = n * k
    BY <1>1, <1>2
  <2> QED BY <2>1, <2>2, RowPlaces
<1>11. DOMAIN index2 = DOMAIN index \union {id} /\ index2[id] = n
       /\ \A x \in DOMAIN index : index2[x] = index[x] /\ index[x] \in 0 .. n - 1
  BY <1>1, <1>2, <1>4
<1>12. /\ ids2 \in Seq(DOMAIN index2) /\ Len(ids2) = n + 1 /\ ids2[n + 1] = id
       /\ \A i \in 1..n : ids2[i] = ids[i] /\ ids[i] \in DOMAIN index
  <2>1. /\ \A i \in 1..n : ids[i] \in DOMAIN index
        /\ ids \in Seq(DOMAIN index2) /\ id \in DOMAIN index2
    BY <1>1, <1>2, <1>11
  <2> QED BY <1>2, <1>3, <2>1
<1>s. StoreSound(after, k, T)
  <2>1. after = [ids |-> after.ids, index |-> after.index, arena |-> after.arena]
    BY <1>6, <1>9
  <2>2. index2 \in [DOMAIN index2 -> 0 .. (n + 1) - 1]
    BY <1>4, <1>11
  <2>3. ASSUME NEW x \in DOMAIN index2 PROVE ids2[index2[x] + 1] = x
    <3>1. CASE x = id
      BY <1>11, <1>12, <3>1
    <3>2. CASE x # id
      <4>1. x \in DOMAIN index /\ index2[x] = index[x] /\ index[x] + 1 \in 1..n
        BY <1>11, <3>2
      <4> QED BY <1>1, <1>12, <4>1
    <3> QED BY <3>1, <3>2
  <2>4. ASSUME NEW i \in 1 .. n + 1 PROVE index2[ids2[i]] = i - 1
    <3>1. CASE i = n + 1
      BY <1>11, <1>12, <3>1
    <3>2. CASE i # n + 1
      <4>1. i \in 1..n
        BY <3>2
      <4> QED BY <1>1, <1>2, <1>11, <1>12, <4>1
    <3> QED BY <3>1, <3>2
  <2> QED BY <1>9, <1>10, <1>12, <2>1, <2>2, <2>3, <2>4 DEF StoreSound
<1>13. RowById(after, id, k) = vec
  <2>1. PICK place : place = n * k
    OBVIOUS
  <2>2. /\ id \in DOMAIN after.index /\ place = after.index[id] * k /\ after.arena = arena2
    BY <1>9, <1>11, <2>1
  <2>3. RowAt(after, id, k, T, place)
    BY <1>s, <2>2, RowOfId
  <2>4. /\ RowById(after, id, k) \in Seq(T) /\ Len(RowById(after, id, k)) = k
        /\ \A j \in 1..k : RowById(after, id, k)[j] = arena2[place + j]
    BY <2>2, <2>3 DEF RowAt
  <2>5. \A j \in 1..k : arena2[place + j] = vec[j]
    BY <1>10, <2>1
  <2> QED BY <2>4, <2>5, SeqEqual
<1>14. ASSUME NEW x \in DOMAIN index
       PROVE  RowById(after, x, k) = RowById(store, x, k)
  <2>1. PICK place : place = index[x] * k
    OBVIOUS
  <2>2. /\ x \in DOMAIN after.index /\ place = after.index[x] * k /\ after.arena = arena2
        /\ x \in DOMAIN store.index /\ place = store.index[x] * k /\ store.arena = arena
    BY <1>e, <1>9, <1>11, <2>1
  <2>3. RowAt(after, x, k, T, place)
    BY <1>s, <2>2, RowOfId
  <2>4. RowAt(store, x, k, T, place)
    BY <2>2, RowOfId
  <2>5. /\ RowById(after, x, k) \in Seq(T) /\ Len(RowById(after, x, k)) = k
        /\ RowById(store, x, k) \in Seq(T) /\ Len(RowById(store, x, k)) = k
        /\ place \in Nat /\ place + k <= Len(arena)
        /\ \A j \in 1..k : /\ RowById(after, x, k)[j] = arena2[place + j]
                           /\ RowById(store, x, k)[j] = arena[place + j]
    BY <2>2, <2>3, <2>4 DEF RowAt
  <2>6. PICK len \in Nat : len = Len(arena) /\ \A i \in 1..len : arena2[i] = arena[i]
    BY <1>10
  <2>7. ASSUME NEW j \in 1..k PROVE RowById(after, x, k)[j] = RowById(store, x, k)[j]
    <3>1. place + j \in 1..len
      BY <2>5, <2>6
    <3> QED BY <2>5, <2>6, <3>1
  <2> QED BY <2>5, <2>7, SeqEqual
<1> QED BY <1>a, <1>e, <1>s, <1>9, <1>11, <1>13, <1>14

\* The arena gives each id the last vector that it was given, and none other's,
\* whatever ids are written in whatever order; a vector of another length
\* changes nothing (fingerprint.rs 36-103).
THEOREM StoreKeepsTheLast ==
    ASSUME NEW T, NEW k \in Nat, NEW store, StoreSound(store, k, T), NEW id, NEW vec \in Seq(T)
    PROVE  LET after == Absorb(store, id, vec, k)
           IN /\ StoreSound(after, k, T)
              /\ DOMAIN after.index
                   = DOMAIN store.index \union (IF Len(vec) = k THEN {id} ELSE {})
              /\ Len(vec) = k => RowById(after, id, k) = vec
              /\ \A other \in DOMAIN store.index \ {id} :
                    RowById(after, other, k) = RowById(store, other, k)
<1>1. CASE Len(vec) # k
  BY <1>1 DEF Absorb
<1>2. CASE Len(vec) = k /\ id \in DOMAIN store.index
  BY <1>2, RowRewritten
<1>3. CASE Len(vec) = k /\ id \notin DOMAIN store.index
  BY <1>3, RowAdded
<1> QED BY <1>1, <1>2, <1>3

-----------------------------------------------------------------------------
(* Walks: a fact that each step keeps holds all along. *)

\* A set of numbers that is not empty has a least one.
LEMMA FirstIn ==
    ASSUME NEW S \in SUBSET Nat, S # {}
    PROVE  \E n \in S : \A k \in S : n <= k
<1> DEFINE R == OpToRel(<, Nat)
<1>1. PICK n \in S : \A k \in S : ~(<<k, n>> \in R)
  <2>1. IsWellFoundedOn(R, Nat)
    BY NatLessThanWellFounded
  <2> HIDE DEF R
  <2> QED BY <2>1, WFMin
<1>2. R = {ss \in Nat \X Nat : ss[1] < ss[2]}
  BY DEF OpToRel
<1>3. ASSUME NEW k \in S PROVE n <= k
  <2>1. k \in Nat /\ n \in Nat /\ <<k, n>> \in Nat \X Nat /\ <<k, n>> \notin R
    BY <1>1
  <2> HIDE DEF R
  <2>2. ~(k < n)
    BY <1>2, <2>1
  <2> QED BY <2>1, <2>2
<1> QED BY <1>3

\* Induction up to a bound.
LEMMA AllAlong ==
    ASSUME NEW n \in Nat, NEW holds, holds[0],
           \A i \in 0 .. n - 1 : holds[i] => holds[i + 1]
    PROVE  \A i \in 0 .. n : holds[i]
<1> SUFFICES ASSUME NEW bad \in 0 .. n, ~holds[bad] PROVE FALSE
  OBVIOUS
<1> DEFINE Bad == {i \in 0 .. n : ~holds[i]}
<1>1. Bad \in SUBSET Nat /\ Bad # {}
  OBVIOUS
<1> HIDE DEF Bad
<1>2. PICK i \in Bad : \A j \in Bad : i <= j
  BY <1>1, FirstIn
<1>3. i \in 0 .. n /\ ~holds[i] /\ i # 0
  BY <1>2 DEF Bad
<1>4. i - 1 \in 0 .. n - 1 /\ ~(i <= i - 1) /\ (i - 1) + 1 = i /\ i - 1 \in 0 .. n
  BY <1>3
<1>5. holds[i - 1]
  BY <1>2, <1>4 DEF Bad
<1> QED BY <1>3, <1>4, <1>5

-----------------------------------------------------------------------------
(* Adoption *)

\* No base of a kept pair is the target of one, whatever the plan and the sizes
\* are (model_level_reduction.py, the conflicts of the selection).
THEOREM KeptPairsDoNotChain ==
    ASSUME NEW plan, NEW size
    PROVE  DepthOne([t \in DOMAIN Resolve1(plan, size) |-> Resolve1(plan, size)[t].base])
<1> DEFINE kept == Kept(plan, size)
<1>1. DOMAIN Resolve1(plan, size) = kept /\ \A t \in kept : Resolve1(plan, size)[t] = plan[t]
  BY DEF Resolve1
<1>2. ASSUME NEW t \in kept PROVE plan[t].base \notin kept
  BY DEF Kept, Conflicts, BasesOf
<1> HIDE DEF kept
<1> QED BY <1>1, <1>2 DEF DepthOne

\* The two maps of a replan: who is a target, and that a base stays one.
ReplanSound(s) ==
    /\ s = [final |-> s.final, roles |-> s.roles]
    /\ \A t \in DOMAIN s.final : /\ t \in DOMAIN s.roles /\ s.roles[t] = "target"
                                 /\ s.final[t] \in DOMAIN s.roles
                                 /\ s.roles[s.final[t]] = "base"

\* What the first pass of the replan has resolved is sound.
LEMMA ReplanStartsSound ==
    ASSUME NEW cand, NEW size
    PROVE  LET kept == Resolve1(cand, size)
           IN ReplanSound([final |-> [t \in DOMAIN kept |-> kept[t].base],
                           roles |-> RolesOf(cand, kept)])
<1> DEFINE kept == Resolve1(cand, size)
           final == [t \in DOMAIN kept |-> kept[t].base]
           roles == RolesOf(cand, kept)
<1>1. DepthOne(final) /\ DOMAIN kept \subseteq DOMAIN cand
  BY KeptPairsDoNotChain DEF Resolve1, Kept
<1> HIDE DEF kept
<1>2. \A t \in DOMAIN kept : /\ final[t] = kept[t].base /\ final[t] \notin DOMAIN kept
                             /\ t \in DOMAIN cand
  BY <1>1 DEF DepthOne
<1>3. /\ DOMAIN roles = DOMAIN cand \union {kept[t].base : t \in DOMAIN kept}
      /\ \A t \in DOMAIN roles : roles[t] = IF t \in DOMAIN kept THEN "target" ELSE "base"
  BY DEF RolesOf
<1> HIDE DEF roles
<1>4. PICK s : s = [final |-> final, roles |-> roles]
  OBVIOUS
<1>5. s.final = final /\ s.roles = roles /\ DOMAIN final = DOMAIN kept
  BY <1>4
<1> HIDE DEF final
<1>6. ReplanSound(s)
  BY <1>2, <1>3, <1>4, <1>5 DEF ReplanSound
<1> QED BY <1>4, <1>6 DEF final, roles, kept

\* A fallback to the first plan keeps it so; v1 pairs no tensor with itself.
LEMMA FallbackKeeps ==
    ASSUME NEW s, ReplanSound(s), NEW t, NEW v1, \A x \in DOMAIN v1 : v1[x] # x, NEW phys
    PROVE  ReplanSound(Fallback(s, t, v1, phys))
<1>a. PICK final, roles : s = [final |-> final, roles |-> roles]
  BY DEF ReplanSound
<1>1. /\ s.final = final /\ s.roles = roles
      /\ \A x \in DOMAIN final : /\ x \in DOMAIN roles /\ roles[x] = "target"
                                 /\ final[x] \in DOMAIN roles /\ roles[final[x]] = "base"
  <2>1. s.final = final /\ s.roles = roles
    BY <1>a
  <2> QED BY <2>1 DEF ReplanSound
<1>2. CASE t \in DOMAIN roles
  BY <1>1, <1>2 DEF Fallback
<1>3. CASE /\ t \notin DOMAIN roles /\ t \in DOMAIN v1 /\ v1[t] \in phys
           /\ RoleIn(roles, v1[t]) = "base" /\ v1[t] \notin DOMAIN final
  <2>1. PICK b : b = v1[t]
    OBVIOUS
  <2>2. PICK final2 : final2 = [x \in DOMAIN final \union {t} |-> IF x = t THEN b ELSE final[x]]
    OBVIOUS
  <2>3. PICK roles2 : roles2 = [x \in DOMAIN roles \union {t, b} |->
            IF x = t THEN "target" ELSE IF x \in DOMAIN roles THEN roles[x] ELSE "base"]
    OBVIOUS
  <2>4. PICK s2 : s2 = [final |-> final2, roles |-> roles2]
    OBVIOUS
  <2>5. Fallback(s, t, v1, phys) = s2
    BY <1>1, <1>3, <2>1, <2>2, <2>3, <2>4 DEF Fallback, Claim
  <2>6. s2.final = final2 /\ s2.roles = roles2
    BY <2>4
  <2>7. b # t /\ (b \in DOMAIN roles => roles[b] = "base")
    BY <1>3, <2>1 DEF RoleIn
  <2>8. ASSUME NEW x \in DOMAIN final2
        PROVE  /\ x \in DOMAIN roles2 /\ roles2[x] = "target"
               /\ final2[x] \in DOMAIN roles2 /\ roles2[final2[x]] = "base"
    <3>1. CASE x = t
      BY <2>2, <2>3, <2>7, <3>1
    <3>2. CASE x # t
      <4>1. x \in DOMAIN final /\ final2[x] = final[x]
        BY <2>2, <3>2
      <4>2. final[x] # t
        BY <1>1, <1>3, <4>1
      <4> QED BY <1>1, <2>3, <3>2, <4>1, <4>2
    <3> QED BY <3>1, <3>2
  <2> QED BY <2>4, <2>5, <2>6, <2>8 DEF ReplanSound
<1>4. CASE /\ t \notin DOMAIN roles
           /\ ~(/\ t \in DOMAIN v1 /\ v1[t] \in phys
                /\ RoleIn(roles, v1[t]) = "base" /\ v1[t] \notin DOMAIN final)
  <2>1. PICK roles2 : roles2 = [x \in DOMAIN roles \union {t} |-> IF x = t THEN "base" ELSE roles[x]]
    OBVIOUS
  <2>2. PICK s2 : s2 = [final |-> final, roles |-> roles2]
    OBVIOUS
  <2>3. Fallback(s, t, v1, phys) = [s EXCEPT !.roles = roles2]
    BY <1>1, <1>4, <2>1 DEF Fallback
  <2>4. Fallback(s, t, v1, phys) = s2
    BY <1>a, <2>2, <2>3
  <2>5. s2.final = final /\ s2.roles = roles2
    BY <2>2
  <2>6. ASSUME NEW x \in DOMAIN final
        PROVE  /\ x \in DOMAIN roles2 /\ roles2[x] = "target"
               /\ final[x] \in DOMAIN roles2 /\ roles2[final[x]] = "base"
    <3>1. x # t /\ final[x] # t
      BY <1>1, <1>4
    <3> QED BY <1>1, <2>1, <3>1
  <2> QED BY <2>2, <2>4, <2>5, <2>6 DEF ReplanSound
<1> QED BY <1>2, <1>3, <1>4

\* Wherever the walk over the tensors has come, and in whatever order it goes,
\* the completed plan has depth one: no base is a target of it
\* (replan_adopt.py 61-120).
THEOREM ReplanStaysDepthOne ==
    ASSUME NEW theirs, NEW v1, \A t \in DOMAIN v1 : v1[t] # t, NEW phys, NEW size,
           NEW n \in Nat, NEW walk, NEW s,
           LET cand == Physical(theirs, phys)
               kept == Resolve1(cand, size)
           IN s[0] = [final |-> [t \in DOMAIN kept |-> kept[t].base], roles |-> RolesOf(cand, kept)],
           \A i \in 0 .. n - 1 : s[i + 1] = Fallback(s[i], walk[i + 1], v1, phys)
    PROVE  \A i \in 0 .. n : DepthOne(s[i].final)
<1> DEFINE holds == [i \in 0 .. n |-> ReplanSound(s[i])]
<1>1. ReplanSound(s[0])
  BY ReplanStartsSound
<1>2. ASSUME NEW i \in 0 .. n - 1, ReplanSound(s[i]) PROVE ReplanSound(s[i + 1])
  BY <1>2, FallbackKeeps
<1>3. 0 \in 0 .. n /\ \A i \in 0 .. n - 1 : i \in 0 .. n /\ i + 1 \in 0 .. n
  OBVIOUS
<1>4. holds[0] /\ \A i \in 0 .. n - 1 : holds[i] => holds[i + 1]
  BY <1>1, <1>2, <1>3
<1>5. \A i \in 0 .. n : holds[i] <=> ReplanSound(s[i])
  OBVIOUS
<1> HIDE DEF holds
<1>6. \A i \in 0 .. n : holds[i]
  BY <1>4, AllAlong
<1>7. ASSUME NEW i \in 0 .. n PROVE DepthOne(s[i].final)
  <2>1. ReplanSound(s[i])
    BY <1>5, <1>6
  <2>2. PICK final, roles : s[i].final = final /\ s[i].roles = roles
    OBVIOUS
  <2>3. \A t \in DOMAIN final : roles[t] = "target" /\ roles[final[t]] = "base"
    BY <2>1, <2>2 DEF ReplanSound
  <2> QED BY <2>2, <2>3 DEF DepthOne
<1> QED BY <1>7

-----------------------------------------------------------------------------
(* Transfers: the batches of compress_batch, and a part of a blob. *)

\* What a batch that is being filled keeps to: its number of plans; its bytes,
\* but for a plan that exceeds them by itself; and it is closed at the limit.
BatchSound(b, batchSize, max) ==
    /\ b = [plans |-> b.plans, bytes |-> b.bytes, closed |-> b.closed]
    /\ b.plans \in Seq(Nat) /\ b.bytes \in Nat /\ b.closed \in BOOLEAN
    /\ Len(b.plans) <= batchSize
    /\ max # NoLimit => b.bytes <= max \/ (Len(b.plans) = 1 /\ b.closed)
    /\ b.plans = <<>> => b.bytes = 0

\* A plan is taken into a batch only where the limits allow it.
LEMMA TakePlanKeeps ==
    ASSUME NEW batchSize \in Nat \ {0}, NEW max \in Nat \union {NoLimit},
           NEW b, BatchSound(b, batchSize, max), NEW i \in Nat, NEW estimate \in Nat
    PROVE  BatchSound(TakePlan(b, i, estimate, batchSize, max), batchSize, max)
<1>a. PICK plans, bytes, closed : b = [plans |-> plans, bytes |-> bytes, closed |-> closed]
  BY DEF BatchSound
<1>1. /\ b.plans = plans /\ b.bytes = bytes /\ b.closed = closed
      /\ plans \in Seq(Nat) /\ bytes \in Nat /\ closed \in BOOLEAN
      /\ Len(plans) <= batchSize
      /\ max # NoLimit => bytes <= max \/ (Len(plans) = 1 /\ closed)
      /\ plans = <<>> => bytes = 0
  <2>1. b.plans = plans /\ b.bytes = bytes /\ b.closed = closed
    BY <1>a
  <2> QED BY <2>1 DEF BatchSound
<1> DEFINE Left == \/ closed \/ Len(plans) >= batchSize
                   \/ plans # <<>> /\ (Exceeds(estimate, max) \/ Overflows(bytes, estimate, max))
<1>2. CASE Left
  <2>1. PICK b2 : b2 = [plans |-> plans, bytes |-> bytes, closed |-> TRUE]
    OBVIOUS
  <2>2. TakePlan(b, i, estimate, batchSize, max) = [b EXCEPT !.closed = TRUE]
    BY <1>1, <1>2 DEF TakePlan
  <2>3. TakePlan(b, i, estimate, batchSize, max) = b2
    BY <1>a, <2>1, <2>2
  <2>4. b2.plans = plans /\ b2.bytes = bytes /\ b2.closed = TRUE
    BY <2>1
  <2> QED BY <1>1, <2>1, <2>3, <2>4 DEF BatchSound
<1>3. CASE ~Left
  <2>1. PICK plans2, bytes2 : plans2 = Append(plans, i) /\ bytes2 = bytes + estimate
    OBVIOUS
  <2>2. PICK closed2 : closed2 = \/ Exceeds(estimate, max)
                                 \/ max # NoLimit /\ bytes + estimate >= max
    OBVIOUS
  <2>a. closed2 \in BOOLEAN
    BY <2>2, Zenon
  <2>b. ~closed /\ ~(Len(plans) >= batchSize)
        /\ (plans = <<>> \/ (~Exceeds(estimate, max) /\ ~Overflows(bytes, estimate, max)))
    BY <1>3, Zenon
  <2> HIDE DEF Left
  <2>3. PICK b2 : b2 = [plans |-> plans2, bytes |-> bytes2, closed |-> closed2]
    OBVIOUS
  <2>4. TakePlan(b, i, estimate, batchSize, max) = b2
    BY <1>1, <2>b, <2>1, <2>2, <2>3 DEF TakePlan
  <2>5. b2.plans = plans2 /\ b2.bytes = bytes2 /\ b2.closed = closed2
    BY <2>3
  <2>6. /\ plans2 \in Seq(Nat) /\ bytes2 \in Nat /\ Len(plans2) = Len(plans) + 1
        /\ plans2 # <<>> /\ Len(plans) \in Nat /\ (plans = <<>> => Len(plans) = 0)
    BY <1>1, <2>1
  <2>7. Len(plans2) <= batchSize
    BY <1>1, <2>b, <2>6
  <2>8. ASSUME max # NoLimit PROVE bytes2 <= max \/ (Len(plans2) = 1 /\ closed2)
    <3>1. CASE plans = <<>>
      <4>1. bytes2 = estimate /\ Len(plans2) = 1
        BY <1>1, <2>1, <2>6, <3>1
      <4>2. bytes2 <= max \/ estimate > max
        BY <2>8, <4>1 DEF NoLimit
      <4> QED BY <2>2, <2>8, <4>1, <4>2 DEF Exceeds
    <3>2. CASE plans # <<>>
      <4>1. bytes + estimate <= max
        BY <1>1, <2>b, <2>8, <3>2 DEF Exceeds, Overflows, NoLimit
      <4> QED BY <2>1, <4>1
    <3> QED BY <3>1, <3>2
  <2> QED BY <2>3, <2>a, <2>4, <2>5, <2>6, <2>7, <2>8 DEF BatchSound
<1> QED BY <1>2, <1>3

\* However many plans are offered, and whatever they need, a batch holds at most
\* batchSize of them, and their bytes stay within the limit unless one plan
\* exceeds it by itself, which is then alone (execute.rs, the inner loop).
THEOREM BatchKeepsItsLimits ==
    ASSUME NEW batchSize \in Nat \ {0}, NEW max \in Nat \union {NoLimit},
           NEW n \in Nat, NEW estimates \in [1..n -> Nat], NEW number \in [1..n -> Nat], NEW b,
           b[0] = [plans |-> <<>>, bytes |-> 0, closed |-> FALSE],
           \A i \in 0 .. n - 1 :
              b[i + 1] = TakePlan(b[i], number[i + 1], estimates[i + 1], batchSize, max)
    PROVE  \A i \in 0 .. n : /\ Len(b[i].plans) <= batchSize
                             /\ max # NoLimit => b[i].bytes <= max \/ Len(b[i].plans) = 1
<1> DEFINE holds == [i \in 0 .. n |-> BatchSound(b[i], batchSize, max)]
<1>1. BatchSound(b[0], batchSize, max)
  <2>1. PICK c : c = [plans |-> <<>>, bytes |-> 0, closed |-> FALSE]
    OBVIOUS
  <2>2. c.plans = <<>> /\ c.bytes = 0 /\ c.closed = FALSE /\ <<>> \in Seq(Nat) /\ Len(<<>>) = 0
    BY <2>1
  <2>3. max # NoLimit => 0 <= max
    BY DEF NoLimit
  <2> QED BY <2>1, <2>2, <2>3 DEF BatchSound
<1>2. ASSUME NEW i \in 0 .. n - 1, BatchSound(b[i], batchSize, max)
      PROVE  BatchSound(b[i + 1], batchSize, max)
  <2>1. number[i + 1] \in Nat /\ estimates[i + 1] \in Nat
    OBVIOUS
  <2>2. BatchSound(TakePlan(b[i], number[i + 1], estimates[i + 1], batchSize, max), batchSize, max)
    BY <1>2, <2>1, TakePlanKeeps
  <2> QED BY <2>2
<1>3. 0 \in 0 .. n /\ \A i \in 0 .. n - 1 : i \in 0 .. n /\ i + 1 \in 0 .. n
  OBVIOUS
<1>4. holds[0] /\ \A i \in 0 .. n - 1 : holds[i] => holds[i + 1]
  BY <1>1, <1>2, <1>3
<1>5. \A i \in 0 .. n : holds[i] <=> BatchSound(b[i], batchSize, max)
  OBVIOUS
<1> HIDE DEF holds
<1>6. \A i \in 0 .. n : holds[i]
  BY <1>4, AllAlong
<1> QED BY <1>5, <1>6 DEF BatchSound

\* The bytes of a blob that a Range header names, counted from 0.
Asked(range, len) ==
    {i \in 0 .. len - 1 : \/ range.kind = "suffix" /\ i >= len - range.to
                          \/ range.kind = "from" /\ i >= range.from
                          \/ range.kind = "span" /\ range.from <= i /\ i <= range.to}

\* A range is unsatisfiable exactly when it names no byte of the blob; otherwise
\* what is parsed is what it names, clipped to the blob.
RangeSound(r, range, len) ==
    /\ r.satisfiable <=> (Asked(range, len) # {})
    /\ r.satisfiable => /\ Asked(range, len) = r.from .. r.to
                        /\ r.from \in Nat /\ r.to \in Nat
                        /\ r.from <= r.to /\ r.to < len

\* The answer to a range that asks for no byte.
LEMMA NoRangeSound ==
    ASSUME NEW len, NEW range, NEW r, Asked(range, len) = {},
           r = [satisfiable |-> FALSE, from |-> 0, to |-> 0]
    PROVE  RangeSound(r, range, len)
<1>1. r.satisfiable = FALSE
  OBVIOUS
<1> QED BY <1>1 DEF RangeSound

\* The answer to a range that asks for some.
LEMMA SpanSound ==
    ASSUME NEW len \in Nat, NEW range, NEW r, NEW from \in Nat, NEW to \in Nat,
           Asked(range, len) = from .. to, from <= to, to < len,
           r = [satisfiable |-> TRUE, from |-> from, to |-> to]
    PROVE  RangeSound(r, range, len)
<1>1. r.satisfiable = TRUE /\ r.from = from /\ r.to = to
  OBVIOUS
<1>2. from \in Asked(range, len)
  OBVIOUS
<1> QED BY <1>1, <1>2 DEF RangeSound

\* The parsed range holds the bytes that the header asks for.
LEMMA RangeIsWhatWasAsked ==
    ASSUME NEW len \in Nat, NEW range,
           range.kind \in {"suffix", "from", "span"}, range.from \in Nat, range.to \in Nat
    PROVE  RangeSound(ParseRange(range, len), range, len)
<1>1. PICK from \in Nat, to \in Nat : from = range.from /\ to = range.to
  OBVIOUS
<1>2. CASE range.kind = "suffix"
  <2> DEFINE first == Clip(len - to)
             last == Clip(len - 1)
  <2>1. ParseRange(range, len)
          = IF to = 0 \/ len = 0 \/ first >= len \/ first > last
              THEN [satisfiable |-> FALSE, from |-> 0, to |-> 0]
              ELSE [satisfiable |-> TRUE, from |-> first, to |-> last]
    BY <1>1, <1>2 DEF ParseRange
  <2>2. Asked(range, len) = {i \in 0 .. len - 1 : i >= len - to}
    <3>1. \A i \in 0 .. len - 1 : i \in Asked(range, len) <=> i >= len - to
      BY <1>1, <1>2 DEF Asked
    <3> QED BY <3>1 DEF Asked
  <2>3. CASE to = 0 \/ len = 0
    <3>1. Asked(range, len) = {}
      BY <2>2, <2>3
    <3> HIDE DEF first, last
    <3>2. ParseRange(range, len) = [satisfiable |-> FALSE, from |-> 0, to |-> 0]
      BY <2>1, <2>3
    <3> QED BY <3>1, <3>2, NoRangeSound
  <2>4. CASE to # 0 /\ len # 0
    <3>1. /\ first \in Nat /\ last \in Nat /\ last = len - 1 /\ first <= last
          /\ \A i \in 0 .. len - 1 : i >= len - to <=> i >= first
      BY <2>4 DEF Clip
    <3> HIDE DEF first, last
    <3>2. Asked(range, len) = first .. last /\ first \in first .. last
      BY <2>2, <3>1
    <3>3. ParseRange(range, len) = [satisfiable |-> TRUE, from |-> first, to |-> last]
      BY <2>1, <2>4, <3>1
    <3> QED BY <3>1, <3>2, <3>3, SpanSound
  <2> QED BY <2>3, <2>4
<1>3. CASE range.kind = "from"
  <2> DEFINE last == Clip(len - 1)
  <2>1. ParseRange(range, len)
          = IF len = 0 \/ from >= len \/ from > last
              THEN [satisfiable |-> FALSE, from |-> 0, to |-> 0]
              ELSE [satisfiable |-> TRUE, from |-> from, to |-> last]
    BY <1>1, <1>3 DEF ParseRange
  <2>2. Asked(range, len) = {i \in 0 .. len - 1 : i >= from}
    <3>1. \A i \in 0 .. len - 1 : i \in Asked(range, len) <=> i >= from
      BY <1>1, <1>3 DEF Asked
    <3> QED BY <3>1 DEF Asked
  <2>3. CASE from >= len
    <3>1. Asked(range, len) = {}
      BY <2>2, <2>3
    <3> HIDE DEF last
    <3>2. ParseRange(range, len) = [satisfiable |-> FALSE, from |-> 0, to |-> 0]
      BY <2>1, <2>3
    <3> QED BY <3>1, <3>2, NoRangeSound
  <2>4. CASE from < len
    <3>1. last \in Nat /\ last = len - 1 /\ from <= last /\ len # 0
      BY <2>4 DEF Clip
    <3> HIDE DEF last
    <3>2. Asked(range, len) = from .. last /\ from \in from .. last
      BY <2>2, <3>1
    <3>3. ParseRange(range, len) = [satisfiable |-> TRUE, from |-> from, to |-> last]
      BY <2>1, <2>4, <3>1
    <3> QED BY <3>1, <3>2, <3>3, SpanSound
  <2> QED BY <2>3, <2>4
<1>4. CASE range.kind = "span"
  <2> DEFINE last == LeastOf(to, Clip(len - 1))
  <2>1. ParseRange(range, len)
          = IF len = 0 \/ from >= len \/ from > last
              THEN [satisfiable |-> FALSE, from |-> 0, to |-> 0]
              ELSE [satisfiable |-> TRUE, from |-> from, to |-> last]
    BY <1>1, <1>4 DEF ParseRange
  <2>2. Asked(range, len) = {i \in 0 .. len - 1 : from <= i /\ i <= to}
    BY <1>1, <1>4 DEF Asked
  <2>3. CASE from >= len \/ from > to
    <3>1. Asked(range, len) = {}
      BY <2>2, <2>3
    <3>2. len = 0 \/ from >= len \/ from > last
      BY <2>3 DEF LeastOf, Clip
    <3> HIDE DEF last
    <3>3. ParseRange(range, len) = [satisfiable |-> FALSE, from |-> 0, to |-> 0]
      BY <2>1, <3>2
    <3> QED BY <3>1, <3>3, NoRangeSound
  <2>4. CASE from < len /\ from <= to
    <3>1. /\ last \in Nat /\ last <= len - 1 /\ last <= to /\ from <= last /\ len # 0
          /\ last < len /\ \A i \in 0 .. len - 1 : i <= to <=> i <= last
      BY <2>4 DEF LeastOf, Clip
    <3> HIDE DEF last
    <3>2. Asked(range, len) = from .. last /\ from \in from .. last
      BY <2>2, <3>1
    <3>3. ParseRange(range, len) = [satisfiable |-> TRUE, from |-> from, to |-> last]
      BY <2>1, <2>4, <3>1
    <3> QED BY <3>1, <3>2, <3>3, SpanSound
  <2> QED BY <2>3, <2>4
<1> QED BY <1>2, <1>3, <1>4

\* A 206 answer carries exactly the bytes that were asked for, and announces as
\* many, when the file that is opened is the one that was measured; a range that
\* names no byte is answered by 416 (transfer.rs).
THEOREM PartIsWhatWasAsked ==
    ASSUME NEW B, NEW canonical, NEW legacy, NEW range,
           LET found == Resolve(canonical, legacy)
           IN found.exists /\ found.bytes \in Seq(B),
           range.kind \in {"suffix", "from", "span"}, range.from \in Nat, range.to \in Nat
    PROVE  LET found == Resolve(canonical, legacy)
               asked == Asked(range, Len(found.bytes))
               reply == GetBlob(canonical, legacy, found, range, FALSE)
           IN /\ reply.status = IF asked = {} THEN 416 ELSE 206
              /\ reply.status = 206 =>
                    /\ Len(reply.body) = reply.length
                    /\ asked = reply.first .. reply.first + reply.length - 1
                    /\ \A i \in asked : reply.body[i - reply.first + 1] = found.bytes[i + 1]
<1>1. PICK found : found = Resolve(canonical, legacy)
  OBVIOUS
<1>2. PICK bytes \in Seq(B) : found.exists /\ bytes = found.bytes
  BY <1>1
<1>3. PICK len \in Nat : len = Len(bytes)
  OBVIOUS
<1>4. PICK r : r = ParseRange(range, len)
  OBVIOUS
<1>5. /\ r.satisfiable <=> (Asked(range, len) # {})
      /\ r.satisfiable => /\ Asked(range, len) = r.from .. r.to
                          /\ r.from \in Nat /\ r.to \in Nat
                          /\ r.from <= r.to /\ r.to < len
  BY <1>4, RangeIsWhatWasAsked DEF RangeSound
<1>6. PICK reply : reply = GetBlob(canonical, legacy, found, range, FALSE)
  OBVIOUS
<1> SUFFICES /\ reply.status = IF Asked(range, len) = {} THEN 416 ELSE 206
             /\ reply.status = 206 =>
                   /\ Len(reply.body) = reply.length
                   /\ Asked(range, len) = reply.first .. reply.first + reply.length - 1
                   /\ \A i \in Asked(range, len) :
                         reply.body[i - reply.first + 1] = bytes[i + 1]
  BY <1>1, <1>2, <1>3, <1>6
<1>7. CASE Asked(range, len) = {}
  <2>1. reply = [status |-> 416]
    BY <1>1, <1>2, <1>3, <1>4, <1>5, <1>6, <1>7 DEF GetBlob
  <2>2. reply.status = 416
    BY <2>1
  <2> QED BY <1>7, <2>2
<1>8. CASE Asked(range, len) # {}
  <2>1. PICK first \in Nat, last \in Nat : first = r.from /\ last = r.to
    BY <1>5, <1>8
  <2>2. first <= last /\ last < len /\ Asked(range, len) = first .. last
    BY <1>5, <1>8, <2>1
  <2>3. PICK size \in Nat : size = last - first + 1
    BY <2>1, <2>2
  <2>4. PICK body : body = SubSeq(bytes, first + 1, LeastOf(first + size, len))
    OBVIOUS
  <2>5. reply = [status |-> 206, length |-> size, first |-> first, body |-> body]
    <3>1. range.kind # "none" /\ r.satisfiable /\ found.exists /\ Len(found.bytes) = len
      BY <1>2, <1>3, <1>5, <1>8
    <3>2. r = ParseRange(range, Len(found.bytes)) /\ found = Resolve(canonical, legacy)
      BY <1>1, <1>4, <3>1
    <3>3. reply = [status |-> 206, length |-> r.to - r.from + 1, first |-> r.from,
                    body |-> SubSeq(found.bytes, r.from + 1,
                                    LeastOf(r.from + (r.to - r.from + 1), Len(found.bytes)))]
      BY <1>6, <3>1, <3>2, ZenonT(40) DEF GetBlob
    <3> QED BY <1>2, <2>1, <2>3, <2>4, <3>1, <3>3
  <2>6. reply.status = 206 /\ reply.length = size /\ reply.first = first /\ reply.body = body
    BY <2>5
  <2>7. PICK p, q : p = first + 1 /\ q = LeastOf(first + size, len)
    OBVIOUS
  <2>8. /\ p \in Int /\ q \in Int /\ q = last + 1 /\ q - p + 1 = size
        /\ p <= q /\ 1 <= p /\ q <= len
    BY <2>2, <2>3, <2>7 DEF LeastOf
  <2>9. \A i \in p .. q : bytes[i] \in B
    BY <1>3, <2>8
  <2>10. /\ Len(body) = size
         /\ \A i \in 1 .. size : body[i] = bytes[p + i - 1]
    <3>1. /\ Len(SubSeq(bytes, p, q)) = IF p <= q THEN q - p + 1 ELSE 0
          /\ \A i \in 1 .. q - p + 1 : SubSeq(bytes, p, q)[i] = bytes[p + i - 1]
      BY <2>8, <2>9, SubSeqProperties
    <3>2. body = SubSeq(bytes, p, q)
      BY <2>4, <2>7
    <3> QED BY <2>8, <3>1, <3>2
  <2>11. ASSUME NEW i \in first .. last
         PROVE  body[i - first + 1] = bytes[i + 1]
    <3>1. PICK j \in Nat : j = (i - first) + 1
      BY <2>1
    <3>2. j \in 1 .. size
      BY <2>2, <2>3, <3>1
    <3>3. p + j - 1 = i + 1
      BY <2>7, <3>1
    <3>4. body[j] = bytes[p + j - 1]
      BY <2>10, <3>2
    <3> QED BY <3>1, <3>3, <3>4
  <2>12. first + size - 1 = last
    BY <2>3
  <2> QED BY <1>8, <2>2, <2>6, <2>10, <2>11, <2>12
<1> QED BY <1>7, <1>8

-----------------------------------------------------------------------------
(* Quotients and remainders *)

\* A number is its quotient times the divisor, and its remainder.
LEMMA DivMod ==
    ASSUME NEW n \in Nat, NEW d \in Nat \ {0}
    PROVE  /\ n \div d \in Nat /\ n % d \in 0 .. d - 1
           /\ n = (n \div d) * d + (n % d)
OBVIOUS

\* Quotient and remainder of a number made of both.
LEMMA DivModUnique ==
    ASSUME NEW q \in Nat, NEW d \in Nat \ {0}, NEW r \in 0 .. d - 1
    PROVE  (q * d + r) \div d = q /\ (q * d + r) % d = r
OBVIOUS

\* Products with the same factor compare as the other factors do.
LEMMA TimesMonotone ==
    ASSUME NEW a \in Nat, NEW b \in Nat, NEW c \in Nat
    PROVE  /\ a * c \in Nat
           /\ a <= b => a * c <= b * c
           /\ a * c < b * c => a < b
OBVIOUS

\* The quotient is below a bound exactly when the number is below its multiple.
LEMMA DivBound ==
    ASSUME NEW n \in Nat, NEW d \in Nat \ {0}, NEW m \in Nat
    PROVE  /\ n < m * d <=> n \div d < m
<1>1. /\ n \div d \in Nat /\ n % d \in 0 .. d - 1
      /\ n = (n \div d) * d + (n % d)
  BY DivMod
<1> DEFINE q == n \div d
           r == n % d
<1> HIDE DEF q, r
<1>2. q \in Nat /\ r \in 0 .. d - 1 /\ n = q * d + r
  BY <1>1 DEF q, r
<1>3. ASSUME n < m * d PROVE q < m
  <2>1. q * d < m * d
    BY <1>2, <1>3, TimesMonotone
  <2> QED BY <1>2, <2>1, TimesMonotone
<1>4. ASSUME q < m PROVE n < m * d
  <2>1. (q + 1) * d <= m * d
    BY <1>2, <1>4, TimesMonotone
  <2>2. (q + 1) * d = q * d + d
    BY <1>2
  <2>3. q * d \in Nat /\ m * d \in Nat
    BY <1>2, TimesMonotone
  <2> QED BY <1>2, <2>1, <2>2, <2>3
<1> QED BY <1>3, <1>4 DEF q

-----------------------------------------------------------------------------
(* Exclusive or *)

\* Exclusive or undoes itself.
LEMMA XorTwice ==
    ASSUME NEW a \in Byte, NEW b \in Byte
    PROVE  XorByte(a, b) \in Byte /\ XorByte(XorByte(a, b), b) = a
<1>1. XorByte(a, b) \in Byte /\ \A i \in BitNumbers : XorByte(a, b)[i] = IF a[i] = b[i] THEN 0 ELSE 1
  BY DEF XorByte, Byte, Bit
<1>2. XorByte(XorByte(a, b), b) \in Byte
  BY DEF XorByte, Byte, Bit
<1>3. \A i \in BitNumbers : XorByte(XorByte(a, b), b)[i] = a[i]
  <2> TAKE i \in BitNumbers
  <2>1. a[i] \in {0, 1} /\ b[i] \in {0, 1}
    BY DEF Byte, Bit
  <2> QED BY <2>1 DEF XorByte
<1> QED BY <1>1, <1>2, <1>3 DEF Byte

-----------------------------------------------------------------------------
(* The work shared among threads *)

\* Together the threads cover every element, and no other.
LEMMA ThreadsCover ==
    ASSUME NEW count \in Nat, NEW threads \in Nat \ {0}, NEW lane \in Nat \ {0}
    PROVE  Covered(count, threads, lane) = Positions(count)
<1> USE CodecConstants
<1>1. CASE count < ParThreshold
  BY <1>1 DEF Covered
<1>2. CASE count >= ParThreshold /\ count = 0
  BY <1>2 DEF Covered, ThreadRange, Positions
<1>3. CASE count >= ParThreshold /\ count > 0
  <2> DEFINE share == (count + threads - 1) \div threads + (lane - 1)
             chunk == ChunkSize(count, threads, lane)
             s0 == (count + threads - 1) \div threads
  <2>1. s0 \in Nat /\ count <= s0 * threads
    <3>1. count + threads - 1 \in Nat
      OBVIOUS
    <3>2. s0 \in Nat
      BY <3>1, DivMod
    <3>3. (count + threads - 1) < (s0 + 1) * threads
      BY <3>1, <3>2, DivBound
    <3> HIDE DEF s0
    <3>4. (s0 + 1) * threads = s0 * threads + threads /\ s0 * threads \in Nat
      BY <3>2
    <3> QED BY <3>2, <3>3, <3>4
  <2>2. chunk \in Nat /\ s0 <= chunk
    <3>1. share \in Nat /\ share = s0 + (lane - 1)
      BY <2>1
    <3>2. share % lane \in 0 .. lane - 1
      BY <3>1, DivMod
    <3>3. chunk = share - (share % lane)
      BY DEF ChunkSize
    <3> HIDE DEF share, s0, chunk
    <3> QED BY <2>1, <3>1, <3>2, <3>3
  <2> HIDE DEF share, s0, chunk
  <2>3. count <= chunk * threads /\ chunk # 0
    <3>1. s0 * threads <= chunk * threads /\ s0 * threads \in Nat /\ chunk * threads \in Nat
      BY <2>1, <2>2, TimesMonotone
    <3> QED BY <1>3, <2>1, <2>2, <3>1
  <2>4. ASSUME NEW e \in Positions(count)
        PROVE  \E t \in 0 .. threads - 1 : e \in ThreadRange(t, count, threads, lane)
    <3>1. e \in Nat /\ e < count
      BY DEF Positions
    <3>2. PICK t : t = e \div chunk
      OBVIOUS
    <3>3. t \in Nat /\ e % chunk \in 0 .. chunk - 1 /\ e = t * chunk + (e % chunk)
      BY <2>2, <2>3, <3>1, <3>2, DivMod
    <3>4. threads * chunk = chunk * threads /\ threads * chunk \in Nat
      BY <2>2
    <3>5. e < threads * chunk
      BY <2>3, <3>1, <3>4
    <3>6. t < threads
      BY <2>2, <2>3, <3>1, <3>2, <3>5, DivBound
    <3>7. t * chunk \in Nat
      BY <2>2, <3>3
    <3>8. t * chunk <= e /\ e < t * chunk + chunk
      BY <2>2, <3>3, <3>7
    <3>9. t \in 0 .. threads - 1
      BY <3>3, <3>6
    <3> QED BY <3>8, <3>9 DEF ThreadRange, chunk
  <2>5. Covered(count, threads, lane)
           = UNION {ThreadRange(t, count, threads, lane) : t \in 0 .. threads - 1}
    BY <1>3 DEF Covered
  <2>6. \A t \in 0 .. threads - 1 : ThreadRange(t, count, threads, lane) \subseteq Positions(count)
    BY DEF ThreadRange
  <2> QED BY <2>4, <2>5, <2>6
<1> QED BY <1>1, <1>2, <1>3

-----------------------------------------------------------------------------
(* Planes *)

\* Where the byte of a position goes: byte k of a buffer of whole elements.
LEMMA PlanePlace ==
    ASSUME NEW count \in Nat, NEW item \in Nat \ {0}, NEW k \in Positions(count * item)
    PROVE  /\ k \div item \in Positions(count) /\ k % item \in 0 .. item - 1
           /\ (k \div item) * item + (k % item) = k
           /\ (k % item) * count + (k \div item) \in Positions(count * item)
           /\ ((k % item) * count + (k \div item)) \div count = k % item
           /\ ((k % item) * count + (k \div item)) % count = k \div item
<1>1. count * item \in Nat /\ k \in Nat /\ k < count * item
  BY DEF Positions
<1>2. /\ k \div item \in Nat /\ k % item \in 0 .. item - 1
      /\ k = (k \div item) * item + (k % item)
  BY <1>1, DivMod
<1>3. k \div item < count
  BY <1>1, DivBound
<1> DEFINE e == k \div item
           b == k % item
<1> HIDE DEF e, b
<1>4. e \in Nat /\ e < count /\ b \in 0 .. item - 1 /\ k = e * item + b /\ count # 0
  BY <1>2, <1>3 DEF e, b
<1>5. (b * count + e) \div count = b /\ (b * count + e) % count = e
  BY <1>4, DivModUnique
<1>6. b * count + e \in Positions(count * item)
  <2>1. (b + 1) * count <= item * count /\ (b + 1) * count = b * count + count
    BY <1>4, TimesMonotone
  <2>2. b * count \in Nat /\ item * count = count * item /\ count * item \in Nat
    BY <1>4
  <2> QED BY <1>4, <2>1, <2>2 DEF Positions
<1> QED BY <1>2, <1>3, <1>4, <1>5, <1>6 DEF e, b, Positions

\* A length without remainder is a whole number of elements.
LEMMA WholeElements ==
    ASSUME NEW n \in Nat, NEW item \in Nat \ {0}, n % item = 0
    PROVE  n \div item \in Nat /\ n = (n \div item) * item
<1>1. /\ n \div item \in Nat /\ n % item \in 0 .. item - 1
      /\ n = (n \div item) * item + (n % item)
  BY DivMod
<1> QED BY <1>1

\* Planes that cover every element are merged to the buffer they were split from.
LEMMA PlanesMerge ==
    ASSUME NEW n \in Nat, NEW item \in Nat \ {0}, n % item = 0,
           NEW target \in Buffer(n), NEW base \in Buffer(n), NEW junk, NEW junk2,
           NEW cover, cover = Positions(n \div item)
    PROVE  MergePlanes(SplitPlanes(target, base, n, item, cover, junk), base, n, item, cover, junk2)
              = target
<1> DEFINE count == n \div item
           planes == SplitPlanes(target, base, n, item, cover, junk)
           merged == MergePlanes(planes, base, n, item, cover, junk2)
<1>1. count \in Nat /\ n = count * item
  BY WholeElements
<1>2. target \in [Positions(n) -> Byte] /\ base \in [Positions(n) -> Byte]
  BY DEF Buffer
<1>3. ASSUME NEW k \in Positions(n) PROVE merged[k] = target[k]
  <2> DEFINE at == (k % item) * count + (k \div item)
  <2>1. /\ k \div item \in Positions(count) /\ k % item \in 0 .. item - 1
        /\ (k \div item) * item + (k % item) = k
        /\ at \in Positions(n) /\ at \div count = k % item /\ at % count = k \div item
    BY <1>1, PlanePlace
  <2>2. count > 0 /\ k \div item < count /\ k \div item \in cover /\ k % item < item
    BY <1>1, <2>1 DEF Positions
  <2> HIDE DEF at
  <2>3. planes[at] = XorByte(target[k], base[k])
    <3>1. at \div count < item /\ at % count \in cover
      BY <2>1, <2>2
    <3>2. (at % count) * item + (at \div count) = k
      BY <2>1
    <3> QED BY <2>1, <2>2, <3>1, <3>2 DEF SplitPlanes
  <2>4. merged[k] = XorByte(planes[at], base[k])
    BY <2>2 DEF MergePlanes, at
  <2> QED BY <1>2, <2>3, <2>4, XorTwice
<1>4. merged = [k \in Positions(n) |-> merged[k]]
  BY DEF MergePlanes
<1> HIDE DEF merged
<1>5. merged = target
  BY <1>2, <1>3, <1>4
<1> QED BY <1>5 DEF merged

-----------------------------------------------------------------------------
(* tensorx *)

\* The hub's codec, in one frame: whatever number of threads split the planes
\* and merge them, and whatever their fresh buffers held, a tensor of whole
\* elements is given back byte for byte (tensorx.rs 375-560).
THEOREM TensorXIsLossless ==
    ASSUME NEW n \in Nat, NEW item \in {2, 4}, n % item = 0,
           NEW target \in Buffer(n), NEW base \in Buffer(n), NEW junk, NEW junk2,
           NEW threads \in Nat \ {0}, NEW threads2 \in Nat \ {0}
    PROVE  DecompressTensorX(CompressTensorX(target, base, n, item, threads, junk),
                             base, n, item, threads2, junk2) = target
<1>1. n \div item \in Nat /\ item \in Nat \ {0} /\ Lane(item) \in Nat \ {0}
  BY WholeElements DEF Lane
<1>2. /\ Covered(n \div item, threads, Lane(item)) = Positions(n \div item)
      /\ Covered(n \div item, threads2, Lane(item)) = Positions(n \div item)
  BY <1>1, ThreadsCover
<1>3. DecompressFused(CompressFused(target, base, n, item, threads, junk),
                      base, n, item, threads2, junk2) = target
  BY <1>1, <1>2, PlanesMerge DEF CompressFused, DecompressFused
<1>4. CompressTensorX(target, base, n, item, threads, junk)
         = Zstd(CompressFused(target, base, n, item, threads, junk))
  BY DEF CompressTensorX
<1> QED BY <1>3, <1>4 DEF DecompressTensorX, Zstd, Unzstd

\* A slice of a buffer is a buffer.
LEMMA SliceIsBuffer ==
    ASSUME NEW n \in Nat, NEW buffer \in Buffer(n), NEW from \in Nat, NEW len \in Nat,
           from + len <= n
    PROVE  Slice(buffer, from, len) \in Buffer(len)
<1>1. \A k \in Positions(len) : from + k \in Positions(n)
  BY DEF Positions
<1> QED BY <1>1 DEF Slice, Buffer

\* The piece a position is in, and its place in that piece.
LEMMA PieceOf ==
    ASSUME NEW n \in Nat, NEW size \in Nat \ {0}, NEW item \in Nat \ {0}, size % item = 0,
           n % item = 0, NEW k \in Positions(n)
    PROVE  LET i == k \div size
               len == PieceLength(i, n, size)
           IN /\ i \in Pieces(n, size) /\ len \in Nat /\ i * size \in Nat
              /\ i * size + len <= n /\ k % size \in Positions(len)
              /\ i * size + (k % size) = k /\ len % item = 0
<1>1. /\ k \in Nat /\ k < n /\ k \div size \in Nat /\ k % size \in 0 .. size - 1
      /\ k = (k \div size) * size + (k % size)
  <2>1. k \in Nat /\ k < n
    BY DEF Positions
  <2> QED BY <2>1, DivMod
<1> DEFINE i == k \div size
           r == k % size
           len == PieceLength(i, n, size)
<1> HIDE DEF i, r
<1>2. /\ i \in Nat /\ r \in 0 .. size - 1 /\ k = i * size + r /\ i * size \in Nat
      /\ (i + 1) * size = i * size + size
  BY <1>1 DEF i, r
<1>3. len \in Nat /\ i * size + len <= n /\ r \in Positions(len)
  <2>1. CASE (i + 1) * size <= n
    BY <1>1, <1>2, <2>1 DEF PieceLength, Positions
  <2>2. CASE ~((i + 1) * size <= n)
    BY <1>1, <1>2, <2>2 DEF PieceLength, Positions
  <2> QED BY <2>1, <2>2
<1>4. i \in Pieces(n, size)
  <2>1. n + size - 1 \in Nat
    OBVIOUS
  <2> DEFINE m == (n + size - 1) \div size
  <2>2. m \in Nat /\ (n + size - 1 < (m + 1) * size)
    <3>1. m \in Nat
      BY <2>1, DivMod
    <3> QED BY <2>1, <3>1, DivBound
  <2> HIDE DEF m
  <2>3. (m + 1) * size = m * size + size /\ m * size \in Nat
    BY <2>2
  <2>4. i * size < m * size
    BY <1>1, <1>2, <2>2, <2>3
  <2>5. i < m
    BY <1>2, <2>2, <2>4, TimesMonotone
  <2> QED BY <1>2, <2>2, <2>5 DEF Pieces, m
<1>5. len % item = 0
  <2>1. PICK a \in Nat : size = a * item
    BY WholeElements
  <2>2. PICK b \in Nat : n = b * item
    BY WholeElements
  <2>3. i * size = (i * a) * item /\ i * a \in Nat
    BY <1>2, <2>1
  <2>4. CASE len = size
    BY <2>4
  <2>5. CASE len = n - i * size
    <3>1. PICK c : c = i * a
      OBVIOUS
    <3>2. len = b * item - c * item /\ c \in Nat /\ len \in Nat
      BY <1>3, <2>2, <2>3, <2>5, <3>1
    <3>3. c <= b
      <4>1. ~(b < c)
        <5>1. ASSUME b < c PROVE FALSE
          <6>1. (b + 1) * item <= c * item /\ (b + 1) * item = b * item + item
            BY <2>2, <3>2, <5>1, TimesMonotone
          <6>2. b * item \in Nat /\ c * item \in Nat
            BY <2>2, <3>2
          <6> QED BY <3>2, <6>1, <6>2
        <5> QED BY <5>1
      <4> QED BY <2>2, <3>2, <4>1
    <3>4. PICK d \in Nat : b = c + d
      <4>1. b - c \in Nat /\ b = c + (b - c)
        BY <2>2, <3>2, <3>3
      <4> QED BY <4>1
    <3>5. b * item = c * item + d * item /\ c * item \in Nat /\ d * item \in Nat
      BY <2>2, <3>2, <3>4
    <3> HIDE DEF len
    <3>6. len = d * item + 0 /\ 0 \in 0 .. item - 1
      BY <3>2, <3>5
    <3>7. (d * item + 0) % item = 0
      BY <3>4, <3>6, DivModUnique
    <3> QED BY <3>6, <3>7
  <2> QED BY <2>4, <2>5 DEF PieceLength
<1> QED BY <1>2, <1>3, <1>4, <1>5 DEF i, r

\* Beyond a sub-chunk the buffer is coded in pieces: each ends between two
\* elements, and together they give back the whole tensor, the last piece
\* being shorter (tensorx.rs 562-730).
THEOREM PiecesAreLossless ==
    ASSUME NEW n \in Nat, NEW item \in {2, 4}, n % item = 0,
           NEW target \in Buffer(n), NEW base \in Buffer(n), NEW junk, NEW junk2,
           NEW threads \in Nat \ {0}, NEW threads2 \in Nat \ {0}
    PROVE  DecompressParallel(CompressParallel(target, base, n, item, threads, junk),
                              base, n, item, threads2, junk2) = target
<1> DEFINE z == CompressParallel(target, base, n, item, threads, junk)
           whole == CompressTensorX(target, base, n, item, threads, junk)
           size == PieceBytes(item)
<1>1. CASE n <= SubChunk
  <2>1. z = whole
    BY <1>1 DEF CompressParallel
  <2>2. "pieces" \notin DOMAIN z
    BY <2>1 DEF CompressTensorX, Zstd
  <2>3. DecompressParallel(z, base, n, item, threads2, junk2)
           = DecompressTensorX(z, base, n, item, threads2, junk2)
    BY <2>2 DEF DecompressParallel
  <2> QED BY <2>1, <2>3, TensorXIsLossless
<1>2. CASE n > SubChunk
  <2> DEFINE len(i) == PieceLength(i, n, size)
             piece(i) == CompressTensorX(Slice(target, i * size, len(i)),
                                         Slice(base, i * size, len(i)),
                                         len(i), item, threads, junk)
             back(i) == DecompressTensorX(piece(i), Slice(base, i * size, len(i)),
                                          len(i), item, threads2, junk2)
  <2>1. size \in Nat \ {0} /\ size % item = 0
    <3>1. SubChunk \in Nat /\ item \in Nat \ {0} /\ SubChunk >= item
      BY CodecConstants
    <3>2. PICK q : q = SubChunk \div item
      OBVIOUS
    <3>3. q \in Nat /\ SubChunk < (q + 1) * item
      BY <3>1, <3>2, DivMod, DivBound
    <3>4. q # 0
      BY <3>1, <3>3
    <3>5. q * item \in Nat /\ q * item # 0
      BY <3>1, <3>3, <3>4
    <3>6. (q * item + 0) % item = 0
      BY <3>1, <3>3, DivModUnique
    <3> QED BY <3>2, <3>5, <3>6 DEF PieceBytes
  <2> HIDE DEF size
  <2>2. z = [total |-> n, pieces |-> [i \in Pieces(n, size) |-> piece(i)]]
    BY <1>2, CodecConstants DEF CompressParallel, size
  <2> HIDE DEF len, piece
  <2>3. "pieces" \in DOMAIN z /\ z.total = n /\ z.pieces = [i \in Pieces(n, size) |-> piece(i)]
    BY <2>2
  <2>4. DecompressParallel(z, base, n, item, threads2, junk2)
           = [k \in Positions(n) |-> [i \in Pieces(n, size) |-> back(i)][k \div size][k % size]]
    <3> HIDE DEF z
    <3>1. \A i \in Pieces(n, size) : z.pieces[i] = piece(i)
      BY <2>3
    <3> QED BY <2>3, <3>1 DEF DecompressParallel, size, len
  <2>5. ASSUME NEW k \in Positions(n)
        PROVE  [i \in Pieces(n, size) |-> back(i)][k \div size][k % size] = target[k]
    <3>1. PICK i : i = k \div size
      OBVIOUS
    <3>2. /\ i \in Pieces(n, size) /\ len(i) \in Nat /\ i * size \in Nat
          /\ i * size + len(i) <= n /\ k % size \in Positions(len(i))
          /\ i * size + (k % size) = k /\ len(i) % item = 0
      <4>1. item \in Nat \ {0}
        OBVIOUS
      <4> HIDE DEF back
      <4> QED BY <2>1, <3>1, <4>1, PieceOf DEF len
    <3>3. /\ Slice(target, i * size, len(i)) \in Buffer(len(i))
          /\ Slice(base, i * size, len(i)) \in Buffer(len(i))
      BY <3>2, SliceIsBuffer
    <3>4. back(i) = Slice(target, i * size, len(i))
      BY <3>2, <3>3, TensorXIsLossless DEF piece
    <3>5. Slice(target, i * size, len(i))[k % size] = target[k]
      BY <3>2 DEF Slice
    <3> HIDE DEF back
    <3> QED BY <3>1, <3>2, <3>4, <3>5
  <2>6. target = [k \in Positions(n) |-> target[k]]
    BY DEF Buffer
  <2> HIDE DEF back
  <2> QED BY <2>4, <2>5, <2>6
<1>3. n <= SubChunk \/ n > SubChunk
  BY CodecConstants
<1> QED BY <1>1, <1>2, <1>3

-----------------------------------------------------------------------------
(* bitx *)

\* The two halves of a word of two bytes give it back.
LEMMA WordOfParts ==
    ASSUME NEW w \in [0 .. 2 * ByteBits - 1 -> Bit]
    PROVE  Word(Exponent(w), SignMantissa(w)) = w
<1>1. ByteBits \in Nat /\ ByteBits >= 1
  BY CodecConstants
<1>2. ASSUME NEW j \in 0 .. 2 * ByteBits - 1
      PROVE  Word(Exponent(w), SignMantissa(w))[j] = w[j]
  <2>1. CASE j = 2 * ByteBits - 1
    BY <1>1, <2>1 DEF Word, SignMantissa, BitNumbers
  <2>2. CASE j # 2 * ByteBits - 1 /\ j >= ByteBits - 1
    <3>1. j - ByteBits + 1 \in BitNumbers /\ (j - ByteBits + 1) + ByteBits - 1 = j
      BY <1>1, <2>2 DEF BitNumbers
    <3> QED BY <2>2, <3>1 DEF Word, Exponent
  <2>3. CASE j < ByteBits - 1
    <3>1. j \in BitNumbers /\ j # ByteBits - 1 /\ j # 2 * ByteBits - 1 /\ ~(j >= ByteBits - 1)
      BY <1>1, <2>3 DEF BitNumbers
    <3> QED BY <3>1 DEF Word, SignMantissa
  <2> QED BY <1>1, <2>1, <2>2, <2>3
<1>3. Word(Exponent(w), SignMantissa(w))
         = [j \in 0 .. 2 * ByteBits - 1 |-> Word(Exponent(w), SignMantissa(w))[j]]
  BY DEF Word
<1>4. w = [j \in 0 .. 2 * ByteBits - 1 |-> w[j]]
  OBVIOUS
<1> QED BY <1>2, <1>3, <1>4

\* Words that cover every element are put together as they were taken apart.
LEMMA WordsUngroup ==
    ASSUME NEW n \in Nat, n % 2 = 0,
           NEW target \in Buffer(n), NEW base \in Buffer(n), NEW junk, NEW junk2,
           NEW cover, cover = Positions(n \div 2)
    PROVE  Ungroup(Regroup(target, base, n, cover, junk), base, n, cover, junk2) = target
<1> DEFINE count == n \div 2
           word(e) == [j \in 0 .. 2 * ByteBits - 1 |->
                         IF WordBit(target, e, j) = WordBit(base, e, j) THEN 0 ELSE 1]
           planes == Regroup(target, base, n, cover, junk)
           merged == Ungroup(planes, base, n, cover, junk2)
<1>1. count \in Nat /\ n = count * 2
  BY WholeElements
<1>2. target \in [Positions(n) -> Byte] /\ base \in [Positions(n) -> Byte]
  BY DEF Buffer
<1>3. ByteBits \in Nat /\ ByteBits >= 1
  BY CodecConstants
<1> HIDE DEF count
<1>4. ASSUME NEW e \in Positions(count)
      PROVE  /\ planes[e] = Exponent(word(e)) /\ planes[count + e] = SignMantissa(word(e))
             /\ 2 * e \in Positions(n) /\ 2 * e + 1 \in Positions(n)
  <2>1. /\ e \in Positions(n) /\ count + e \in Positions(n) /\ e < count /\ e \in cover
        /\ ~(count + e < count) /\ count + e < 2 * count /\ (count + e) - count = e
        /\ count <= count + e
        /\ 2 * e \in Positions(n) /\ 2 * e + 1 \in Positions(n)
    BY <1>1 DEF Positions, count
  <2> HIDE DEF word
  <2>2. planes = [k \in Positions(n) |->
                    IF k < count /\ k \in cover THEN Exponent(word(k))
                    ELSE IF count <= k /\ k < 2 * count /\ k - count \in cover
                      THEN SignMantissa(word(k - count)) ELSE junk]
    BY DEF Regroup, count, word
  <2> HIDE DEF planes
  <2> QED BY <2>1, <2>2
<1>5. ASSUME NEW e \in Positions(count)
      PROVE  /\ LowByte(word(e)) = XorByte(target[2 * e], base[2 * e])
             /\ HighByte(word(e)) = XorByte(target[2 * e + 1], base[2 * e + 1])
  <2>1. \A j \in BitNumbers : /\ j \in 0 .. 2 * ByteBits - 1 /\ j < ByteBits
                              /\ j + ByteBits \in 0 .. 2 * ByteBits - 1
                              /\ ~(j + ByteBits < ByteBits) /\ (j + ByteBits) - ByteBits = j
    BY <1>3 DEF BitNumbers
  <2>2. \A j \in BitNumbers :
           /\ word(e)[j] = IF target[2 * e][j] = base[2 * e][j] THEN 0 ELSE 1
           /\ word(e)[j + ByteBits]
                 = IF target[2 * e + 1][j] = base[2 * e + 1][j] THEN 0 ELSE 1
    BY <2>1 DEF WordBit
  <2> HIDE DEF word
  <2> QED BY <2>2 DEF LowByte, HighByte, XorByte
<1>6. ASSUME NEW k \in Positions(n) PROVE merged[k] = target[k]
  <2>1. PICK e : e = k \div 2
    OBVIOUS
  <2>2. /\ e \in Positions(count) /\ e < count /\ e \in cover
        /\ \/ k % 2 = 0 /\ k = 2 * e
           \/ k % 2 = 1 /\ k = 2 * e + 1
    BY <1>1, <2>1 DEF Positions, count
  <2>3. word(e) \in [0 .. 2 * ByteBits - 1 -> Bit]
    BY DEF Bit
  <2>4. Word(planes[e], planes[count + e]) = word(e)
    <3> HIDE DEF word, planes
    <3> QED BY <1>4, <2>2, <2>3, WordOfParts
  <2>5. merged[k] = XorByte(IF k % 2 = 0 THEN LowByte(word(e)) ELSE HighByte(word(e)), base[k])
    <3> HIDE DEF word, planes
    <3> QED BY <2>1, <2>2, <2>4 DEF Ungroup, count
  <2>6. merged[k] = XorByte(XorByte(target[k], base[k]), base[k])
    <3> HIDE DEF word, merged
    <3> QED BY <1>5, <2>2, <2>5
  <2> QED BY <1>2, <2>6, XorTwice
<1>7. merged = [k \in Positions(n) |-> merged[k]] /\ target = [k \in Positions(n) |-> target[k]]
  BY <1>2 DEF Ungroup
<1> HIDE DEF merged
<1>8. merged = target
  BY <1>6, <1>7
<1> QED BY <1>8 DEF merged

\* bitx gives back every tensor of whole elements: the exponents and the
\* mantissas of 16-bit floats, the bytes of anything else (bitx.rs 38-452).
THEOREM BitxIsLossless ==
    ASSUME NEW n \in Nat, NEW item \in Nat \ {0}, n % item = 0,
           NEW target \in Buffer(n), NEW base \in Buffer(n), NEW junk, NEW junk2,
           NEW threads \in Nat \ {0}, NEW threads2 \in Nat \ {0}
    PROVE  DecompressBitx(CompressBitx(target, base, n, item, threads, junk),
                          base, n, item, threads2, junk2) = target
<1>1. CASE item = 2
  <2>1. n \div 2 \in Nat
    BY <1>1, WholeElements
  <2>2. /\ Covered(n \div 2, threads, 8) = Positions(n \div 2)
        /\ Covered(n \div 2, threads2, 8) = Positions(n \div 2)
    BY <2>1, ThreadsCover
  <2>3. Ungroup(Regroup(target, base, n, Positions(n \div 2), junk),
                base, n, Positions(n \div 2), junk2) = target
    BY <1>1, WordsUngroup
  <2> QED BY <1>1, <2>2, <2>3 DEF CompressBitx, DecompressBitx, Zstd, Unzstd
<1>2. CASE item # 2
  <2>1. UntransposeXor(TransposeXor(target, base, n, item, junk), base, n, item, junk2) = target
    <3>1. PICK cover : cover = Positions(n \div item)
      OBVIOUS
    <3>2. MergePlanes(SplitPlanes(target, base, n, item, cover, junk),
                      base, n, item, cover, junk2) = target
      BY <3>1, PlanesMerge
    <3> QED BY <3>1, <3>2 DEF TransposeXor, UntransposeXor
  <2> QED BY <1>2, <2>1 DEF CompressBitx, DecompressBitx, Zstd, Unzstd
<1> QED BY <1>1, <1>2

-----------------------------------------------------------------------------
(* Transposition without a base, fmpp, zigzag *)

\* A buffer of zeros is a buffer.
LEMMA ZerosAreBytes == ASSUME NEW n \in Nat PROVE Zeros(n) \in Buffer(n)
<1>1. ZeroByte \in Byte
  BY DEF ZeroByte, Byte, Bit
<1> QED BY <1>1 DEF Zeros, Buffer

\* The two rearrangements used by the other codecs undo themselves
\* (transposition.rs 10-130).
THEOREM RearrangementsUndo ==
    ASSUME NEW n \in Nat, NEW data \in Buffer(n)
    PROVE  /\ \A item \in Nat \ {0} : n % item = 0 =>
                 InverseTransposeBytes(TransposeBytes(data, n, item), n, item) = data
           /\ n % 2 = 0 => InverseRegroupBytes(RegroupBytes(data, n), n) = data
<1>1. ASSUME NEW item \in Nat \ {0}, n % item = 0
      PROVE  InverseTransposeBytes(TransposeBytes(data, n, item), n, item) = data
  <2>1. CASE item <= 1 \/ n \div item = 0
    BY <2>1 DEF InverseTransposeBytes, TransposeBytes
  <2>2. CASE ~(item <= 1 \/ n \div item = 0)
    <3>1. MergePlanes(SplitPlanes(data, Zeros(n), n, item, Positions(n \div item), ZeroByte),
                      Zeros(n), n, item, Positions(n \div item), ZeroByte) = data
      BY <1>1, ZerosAreBytes, PlanesMerge
    <3> QED BY <2>2, <3>1 DEF InverseTransposeBytes, TransposeBytes
  <2> QED BY <2>1, <2>2
<1>2. ASSUME n % 2 = 0 PROVE InverseRegroupBytes(RegroupBytes(data, n), n) = data
  <2>1. CASE n < 2
    BY <2>1 DEF InverseRegroupBytes, RegroupBytes
  <2>2. CASE ~(n < 2)
    BY <1>2, <2>2, ZerosAreBytes, WordsUngroup DEF InverseRegroupBytes, RegroupBytes
  <2> QED BY <2>1, <2>2
<1> QED BY <1>1, <1>2

\* fmpp gives back what it does not refuse (fmpp.rs 57-149; the coder of the
\* residuals is external).
THEOREM FmppIsLossless ==
    ASSUME NEW n \in Nat, NEW item \in Nat \ {0},
           NEW target \in Buffer(n), NEW base \in Buffer(n),
           CompressFmpp(target, base, n, item) # Refused
    PROVE  DecompressFmpp(CompressFmpp(target, base, n, item), base, n, item) = target
<1> DEFINE z == [elements |-> n \div 2, residual |-> FmDelta(target, base)]
<1>1. HalfElements(n, item) /\ CompressFmpp(target, base, n, item) = z
  BY DEF CompressFmpp
<1>2. DecompressFmpp(z, base, n, item) = FmDelta(FmDelta(target, base), base)
  BY <1>1 DEF DecompressFmpp
<1>3. target \in [Positions(n) -> Byte] /\ base \in [Positions(n) -> Byte]
  BY DEF Buffer
<1>4. \A k \in Positions(n) : FmDelta(FmDelta(target, base), base)[k] = target[k]
  BY <1>3, XorTwice DEF FmDelta
<1>5. FmDelta(FmDelta(target, base), base) = target
  BY <1>3, <1>4 DEF FmDelta
<1> QED BY <1>1, <1>2, <1>5

\* Zigzag is undone on words of any width, the most negative included
\* (zigzag.rs 8-90).
THEOREM ZigzagUndoes ==
    ASSUME NEW w \in Nat \ {0}, NEW v \in [0 .. w - 1 -> Bit]
    PROVE  ZigzagDecode(ZigzagEncode(v, w), w) = v
<1> DEFINE u == ZigzagEncode(v, w)
<1>1. 0 \in 0 .. w - 1 /\ u[0] = v[w - 1]
  BY DEF ZigzagEncode
<1>2. ASSUME NEW k \in 0 .. w - 1 PROVE ZigzagDecode(u, w)[k] = v[k]
  <2>1. CASE k = w - 1
    BY <1>1, <2>1 DEF ZigzagDecode
  <2>2. CASE k # w - 1
    <3>1. k + 1 \in 0 .. w - 1 /\ k + 1 # 0 /\ (k + 1) - 1 = k /\ w - 1 \in 0 .. w - 1
      BY <2>2
    <3>2. u[k + 1] = Flip(v[k], v[w - 1])
      BY <3>1 DEF ZigzagEncode
    <3>3. v[k] \in {0, 1} /\ v[w - 1] \in {0, 1}
      BY <3>1 DEF Bit
    <3> HIDE DEF u
    <3>4. ZigzagDecode(u, w)[k] = Flip(u[k + 1], u[0])
      BY <2>2 DEF ZigzagDecode
    <3> QED BY <1>1, <3>2, <3>3, <3>4 DEF Flip
  <2> QED BY <2>1, <2>2
<1>3. ZigzagDecode(u, w) = [k \in 0 .. w - 1 |-> ZigzagDecode(u, w)[k]]
  BY DEF ZigzagDecode
<1>4. v = [k \in 0 .. w - 1 |-> v[k]]
  OBVIOUS
<1> HIDE DEF u
<1>5. ZigzagDecode(u, w) = v
  BY <1>2, <1>3, <1>4
<1> QED BY <1>5 DEF u

-----------------------------------------------------------------------------
(* The tasks of Offline: a task of one call is answered by its call. *)

\* Every task keeps its name and its input; only its own actions answer it.
LEMMA OneTask ==
    ASSUME [OfflineNext]_offline
    PROVE  /\ task' = task /\ input' = input
           /\ task = "code" /\ answer' # answer => Encode \/ Decode
           /\ task = "adopt" /\ answer' # answer => Adopt
           /\ task = "flex" /\ answer' # answer => SplitSeries
           /\ task = "batch" /\ answer' # answer => CompressAll \/ CompressAllAgain
           /\ task = "bundle" /\ answer' # answer => CompressBundle
<1>1. CASE UNCHANGED offline
  BY <1>1 DEF offline
<1>2. CASE OfflineNext
  BY <1>2, Zenon DEF OfflineNext, Encode, Decode, SketchPair, FillStore, UseArena, PlanTensors, SplitSeries,
     CompressAll, CompressAllAgain, CompressBundle, Cut, ServeBlob, LoadFiles, Pulling, ReadObject, Adopt,
     Solve, SplitOnce, Search, Simulate, RunCampaign, Download, Answer
<1> QED BY <1>1, <1>2

\* The inputs of a task are of its kind.
LEMMA InputsOf ==
    ASSUME OfflineInit
    PROVE  /\ answer = Nothing
           /\ task = "code" => input \in CodecInputs
           /\ task = "adopt" => input \in AdoptInputs
           /\ task = "flex" => input \in SeriesInputs
           /\ task = "batch" => input \in BatchInputs
           /\ task = "bundle" => input \in BundleInputs
BY DEF OfflineInit, Inputs

\* What holds of a coding task.
CodeInv ==
    task = "code" =>
        /\ input \in CodecInputs
        /\ \/ answer = Nothing
           \/ answer = <<[code |-> Coded(input), decoded |-> FALSE]>>
           \/ /\ answer = <<[decoded |-> TRUE, back |-> Decoded(input, Coded(input))]>>
              /\ Coded(input) # Refused

\* Both of its steps keep it.
LEMMA CodeKept ==
    ASSUME CodeInv, [OfflineNext]_offline
    PROVE  CodeInv'
<1>1. CASE task # "code" \/ answer' = answer
  BY <1>1, OneTask DEF CodeInv
<1>2. CASE task = "code" /\ answer' # answer /\ Encode
  BY <1>2, OneTask DEF CodeInv, Encode, Answer
<1>3. CASE task = "code" /\ answer' # answer /\ Decode
  <2>1. Result.decoded = FALSE /\ Result.code # Refused /\ answer # Nothing
    BY <1>3 DEF Decode, Done
  <2>2. answer # <<[decoded |-> TRUE, back |-> Decoded(input, Coded(input))]>>
    BY <2>1 DEF Result
  <2>3. answer = <<[code |-> Coded(input), decoded |-> FALSE]>>
    BY <1>3, <2>1, <2>2 DEF CodeInv
  <2>4. Result.code = Coded(input)
    BY <2>3 DEF Result
  <2> QED BY <1>3, <2>1, <2>4, OneTask DEF CodeInv, Decode
<1> QED BY <1>1, <1>2, <1>3, OneTask

\* The six codecs as the run drives them.
LEMMA DecodedIsInput ==
    ASSUME NEW i \in CodecInputs, i.n % i.item = 0, Coded(i) # Refused
    PROVE  Decoded(i, Coded(i)) = i.target
<1>1. PICK n, item, threads, dthreads, target, base :
        /\ n = i.n /\ item = i.item /\ threads = i.threads /\ dthreads = i.dthreads
        /\ target = i.target /\ base = i.base
  OBVIOUS
<1>2. /\ n \in Nat /\ item \in Nat \ {0} /\ threads \in Nat \ {0} /\ dthreads \in Nat \ {0}
      /\ target \in Buffer(n) /\ base \in Buffer(n) /\ n % item = 0
      /\ i.codec \in {"tensorx", "bitx", "fmpp", "transpose", "regroup", "zigzag"}
      /\ i.codec = "regroup" => item = 2
  BY <1>1, CodecInputsFit
<1>3. CASE i.codec = "tensorx"
  <2>1. Coded(i) = CompressParallel(target, base, n, item, threads, Ones)
    BY <1>1, <1>3 DEF Coded
  <2>2. item \in {2, 4}
    BY <2>1 DEF CompressParallel
  <2>3. DecompressParallel(CompressParallel(target, base, n, item, threads, Ones),
                           base, n, item, dthreads, ZeroByte) = target
    BY <1>2, <2>2, PiecesAreLossless
  <2> QED BY <1>1, <1>3, <2>1, <2>3 DEF Decoded
<1>4. CASE i.codec = "bitx"
  <2>1. DecompressBitx(CompressBitx(target, base, n, item, threads, Ones),
                           base, n, item, dthreads, ZeroByte) = target
    BY <1>2, BitxIsLossless
  <2> QED BY <1>1, <1>4, <2>1 DEF Coded, Decoded
<1>5. CASE i.codec = "fmpp"
  <2>1. Coded(i) = CompressFmpp(target, base, n, item)
    BY <1>1, <1>5 DEF Coded
  <2>2. DecompressFmpp(CompressFmpp(target, base, n, item), base, n, item) = target
    BY <1>2, <2>1, FmppIsLossless
  <2> QED BY <1>1, <1>5, <2>1, <2>2 DEF Decoded
<1>6. CASE i.codec = "transpose"
  <2>1. InverseTransposeBytes(TransposeBytes(target, n, item), n, item) = target
    BY <1>2, RearrangementsUndo
  <2> QED BY <1>1, <1>6, <2>1 DEF Coded, Decoded
<1>7. CASE i.codec = "regroup"
  <2>1. InverseRegroupBytes(RegroupBytes(target, n), n) = target
    BY <1>2, <1>7, RearrangementsUndo
  <2> QED BY <1>1, <1>7, <2>1 DEF Coded, Decoded
<1>8. CASE i.codec = "zigzag"
  <2>1. target \in [Positions(n) -> [0 .. ByteBits - 1 -> Bit]] /\ ByteBits \in Nat \ {0}
    BY <1>2, CodecConstants DEF Buffer, Byte, BitNumbers
  <2>2. ASSUME NEW k \in Positions(n)
        PROVE  ZigzagDecode(ZigzagEncode(target[k], ByteBits), ByteBits) = target[k]
    <3>1. PICK v \in [0 .. ByteBits - 1 -> Bit] : v = target[k]
      BY <2>1
    <3> QED BY <2>1, <3>1, ZigzagUndoes
  <2>3. Decoded(i, Coded(i))
           = [k \in Positions(n) |-> ZigzagDecode(ZigzagEncode(target[k], ByteBits), ByteBits)]
    BY <1>1, <1>8 DEF Coded, Decoded
  <2> QED BY <1>1, <2>1, <2>2, <2>3
<1> QED BY <1>2, <1>3, <1>4, <1>5, <1>6, <1>7, <1>8

\* Whatever codec a task drives, what is decoded is what was encoded.
THEOREM TasksDecode == OfflineSpec => []CodecsLossless
<1>1. OfflineInit => CodeInv
  BY InputsOf DEF CodeInv
<1>2. CodeInv /\ [OfflineNext]_offline => CodeInv'
  BY CodeKept
<1>3. CodeInv => CodecsLossless
  <2> SUFFICES ASSUME CodeInv, task = "code", Done, Result.decoded, input.n % input.item = 0
               PROVE  Result.back = input.target
    BY DEF CodecsLossless
  <2>1. answer # Nothing /\ answer # <<[code |-> Coded(input), decoded |-> FALSE]>>
    BY DEF Done, Result
  <2>2. /\ input \in CodecInputs /\ Coded(input) # Refused
        /\ answer = <<[decoded |-> TRUE, back |-> Decoded(input, Coded(input))]>>
    BY <2>1 DEF CodeInv
  <2> QED BY <2>2, DecodedIsInput DEF Result
<1> QED BY <1>1, <1>2, <1>3, PTL DEF OfflineSpec

-----------------------------------------------------------------------------
(* The plan that is adopted. *)

\* The maps a replan of tensors of U passes through.
ReplanStates(U, phys) ==
    {w \in [final : UNION {[D -> U] : D \in SUBSET U},
            roles : UNION {[D -> {"target", "base"}] : D \in SUBSET U}] :
        ReplanSound(w) /\ \A t \in DOMAIN w.final : t \in phys /\ w.final[t] \in phys \ {t}}

\* It starts with one of them.
LEMMA ReplanStartsTyped ==
    ASSUME NEW U, NEW theirs, NEW phys, NEW size, DOMAIN theirs \subseteq U, phys \subseteq U
    PROVE  LET cand == Physical(theirs, phys)
               kept == Resolve1(cand, size)
           IN [final |-> [t \in DOMAIN kept |-> kept[t].base], roles |-> RolesOf(cand, kept)]
                \in ReplanStates(U, phys)
<1>1. PICK cand, kept : cand = Physical(theirs, phys) /\ kept = Resolve1(cand, size)
  BY Zenon
<1>2. /\ DOMAIN kept \subseteq DOMAIN cand /\ DOMAIN cand \subseteq U /\ DOMAIN cand \subseteq phys
      /\ \A t \in DOMAIN kept : kept[t].base \in phys \ {t}
  BY <1>1 DEF Physical, Resolve1, Kept
<1>3. PICK final, roles : final = [t \in DOMAIN kept |-> kept[t].base] /\ roles = RolesOf(cand, kept)
  OBVIOUS
<1>4. ReplanSound([final |-> final, roles |-> roles])
  BY <1>1, <1>3, ReplanStartsSound
<1>5. final \in [DOMAIN kept -> U] /\ DOMAIN kept \in SUBSET U
  BY <1>2, <1>3
<1>6. PICK R : R = DOMAIN cand \union {kept[t].base : t \in DOMAIN kept}
  OBVIOUS
<1>7. roles \in [R -> {"target", "base"}] /\ R \in SUBSET U
  BY <1>2, <1>3, <1>6 DEF RolesOf
<1>8. \A t \in DOMAIN final : t \in phys /\ final[t] \in phys \ {t}
  BY <1>2, <1>3
<1> QED BY <1>1, <1>3, <1>4, <1>5, <1>7, <1>8 DEF ReplanStates

\* And a fallback leads to another.
LEMMA FallbackTyped ==
    ASSUME NEW U, NEW phys \in SUBSET U, NEW v1, \A x \in DOMAIN v1 : v1[x] # x,
           NEW w \in ReplanStates(U, phys), NEW t \in phys
    PROVE  Fallback(w, t, v1, phys) \in ReplanStates(U, phys)
<1>1. ReplanSound(w) /\ ReplanSound(Fallback(w, t, v1, phys))
  BY FallbackKeeps DEF ReplanStates
<1>2. PICK F, R, final, roles :
          /\ F \in SUBSET U /\ R \in SUBSET U
          /\ final \in [F -> U] /\ roles \in [R -> {"target", "base"}]
          /\ w = [final |-> final, roles |-> roles] /\ \A x \in F : x \in phys /\ final[x] \in phys \ {x}
  BY DEF ReplanStates
<1>3. w.final = final /\ w.roles = roles
  BY <1>2
<1>4. CASE t \in DOMAIN roles
  BY <1>3, <1>4 DEF Fallback
<1>5. CASE /\ t \notin DOMAIN roles /\ t \in DOMAIN v1 /\ v1[t] \in phys
           /\ RoleIn(roles, v1[t]) = "base" /\ v1[t] \notin DOMAIN final
  <2>1. PICK b \in phys \ {t} : b = v1[t]
    BY <1>5
  <2>2. PICK F2 \in SUBSET U, R2 \in SUBSET U : F2 = F \union {t} /\ R2 = R \union {t, b}
    BY <1>2
  <2>3. PICK final2 : final2 = [x \in F2 |-> IF x = t THEN b ELSE final[x]]
    OBVIOUS
  <2>4. PICK roles2 : roles2 = [x \in R2 |->
            IF x = t THEN "target" ELSE IF x \in R THEN roles[x] ELSE "base"]
    OBVIOUS
  <2>5. Fallback(w, t, v1, phys) = [final |-> final2, roles |-> roles2]
    BY <1>2, <1>3, <1>5, <2>1, <2>2, <2>3, <2>4 DEF Fallback, Claim
  <2>6. final2 \in [F2 -> U] /\ \A x \in F2 : x \in phys /\ final2[x] \in phys \ {x}
    BY <1>2, <2>1, <2>2, <2>3
  <2>7. roles2 \in [R2 -> {"target", "base"}]
    BY <1>2, <2>2, <2>4
  <2> QED BY <1>1, <2>5, <2>6, <2>7 DEF ReplanStates
<1>6. CASE /\ t \notin DOMAIN roles
           /\ ~(/\ t \in DOMAIN v1 /\ v1[t] \in phys
                /\ RoleIn(roles, v1[t]) = "base" /\ v1[t] \notin DOMAIN final)
  <2>1. PICK R2 \in SUBSET U : R2 = R \union {t}
    BY <1>2
  <2>2. PICK roles2 : roles2 = [x \in R2 |-> IF x = t THEN "base" ELSE roles[x]]
    OBVIOUS
  <2>3. Fallback(w, t, v1, phys) = [w EXCEPT !.roles = roles2]
    BY <1>2, <1>3, <1>6, <2>1, <2>2 DEF Fallback
  <2>4. Fallback(w, t, v1, phys) = [final |-> final, roles |-> roles2]
    BY <1>2, <2>3
  <2>5. roles2 \in [R2 -> {"target", "base"}]
    BY <1>2, <2>1, <2>2
  <2> QED BY <1>1, <1>2, <2>4, <2>5 DEF ReplanStates
<1> QED BY <1>4, <1>5, <1>6

\* So whatever the order of the walk, it ends with one.
LEMMA ReplanEnds ==
    ASSUME NEW i \in AdoptInputs
    PROVE  \E w \in ReplanStates(DOMAIN i.size, i.phys) :
              w.final = Replan(i.theirs, i.v1, i.phys, i.size, i.order)
<1>1. PICK U, v1, phys, walk, S :
        U = DOMAIN i.size /\ v1 = i.v1 /\ phys = i.phys /\ walk = i.order /\ S = ReplanStates(U, phys)
  OBVIOUS
<1>2. PICK b : b = LET cand == Physical(i.theirs, phys)
                       kept == Resolve1(cand, i.size)
                   IN [final |-> [t \in DOMAIN kept |-> kept[t].base], roles |-> RolesOf(cand, kept)]
  OBVIOUS
<1>3. phys \in SUBSET U /\ b \in S /\ \A x \in DOMAIN v1 : v1[x] # x
  BY <1>1, <1>2, AdoptInputsFit, ReplanStartsTyped
<1>4. walk \in Seq(phys)
  BY <1>1, AdoptInputsFit
<1>5. PICK n \in Nat : n = Len(walk) /\ DOMAIN walk = 1 .. n /\ \A k \in 1 .. n : walk[k] \in phys
  BY <1>4
<1> DEFINE h == [k \in 1 .. n |-> [w \in S |-> Fallback(w, walk[k], v1, phys)]]
           Fold(it) == it = [s \in SUBSET (1 .. n) |->
                               IF s = {} THEN b
                               ELSE Fallback(it[s \ {Max(s)}], walk[Max(s)], v1, phys)]
           iter == CHOOSE it : Fold(it)
<1>6. Replan(i.theirs, v1, phys, i.size, walk) = iter[1 .. n].final
  BY <1>2, <1>5 DEF Replan, FoldLeft, MapThenFoldSet
<1>7. h \in [1 .. n -> [S -> S]]
  <2>1. ASSUME NEW k \in 1 .. n, NEW w \in S PROVE Fallback(w, walk[k], v1, phys) \in S
    BY <1>1, <1>3, <1>5, FallbackTyped
  <2> QED BY <2>1
<1>8. \E it : Fold(it)
  <2>1. PICK it \in [SUBSET (1 .. n) -> S] : IsFold(it, b, n, h)
    <3> HIDE DEF h
    <3> QED BY <1>3, <1>7, FoldExists
  <2>2. ASSUME NEW s \in SUBSET (1 .. n), s # {}
        PROVE  h[Max(s)][it[s \ {Max(s)}]] = Fallback(it[s \ {Max(s)}], walk[Max(s)], v1, phys)
    <3>1. Max(s) \in 1 .. n /\ it[s \ {Max(s)}] \in S
      BY <2>2, LargestOf
    <3> QED BY <3>1
  <2> HIDE DEF h
  <2>3. Fold(it)
    BY <2>1, <2>2 DEF IsFold
  <2> HIDE DEF Fold
  <2> QED BY <2>3
<1>9. Fold(iter)
  <2> HIDE DEF Fold
  <2> QED BY <1>8
<1>10. Follows(iter, S, b, n, h)
  <2>1. iter[{}] = b
    BY <1>9
  <2>2. ASSUME NEW k \in 1 .. n, iter[1 .. (k - 1)] \in S
        PROVE  iter[1 .. k] = h[k][iter[1 .. (k - 1)]]
    <3>1. 1 .. k \in SUBSET (1 .. n) /\ 1 .. k # {} /\ Max(1 .. k) = k /\ (1 .. k) \ {k} = 1 .. (k - 1)
      BY PrefixOf
    <3>2. iter[1 .. k] = Fallback(iter[1 .. (k - 1)], walk[k], v1, phys)
      <4> HIDE DEF iter
      <4> QED BY <1>9, <3>1
    <3> HIDE DEF iter
    <3> QED BY <2>2, <3>2
  <2> HIDE DEF iter, h
  <2> QED BY <2>1, <2>2 DEF Follows
<1>11. iter[1 .. n] \in S
  <2> HIDE DEF h, iter
  <2>1. PICK f \in [0 .. n -> S] : IsRun(f, b, n, h) /\ iter[1 .. n] = f[n]
    BY <1>3, <1>7, <1>10, FoldIsRun
  <2> QED BY <2>1
<1> HIDE DEF iter
<1> QED BY <1>1, <1>6, <1>11

\* What each tensor takes under the kept pairs.
BytesOfAll(final, size) ==
    [t \in DOMAIN size |-> IF t \in DOMAIN final THEN final[t].bytes ELSE size[t]]

\* Kept pairs of sized tensors, of depth one.
PairsFit(final, size) ==
    /\ size \in [DOMAIN size -> Nat] /\ DOMAIN final \subseteq DOMAIN size
    /\ \A t \in DOMAIN final : /\ final[t].base \in DOMAIN size \ DOMAIN final
                               /\ final[t].bytes \in Nat

\* What is counted is what the tensors that are done come to.
AccountStates(final, size) ==
    {w \in [done : SUBSET DOMAIN size, original : Int, stored : Int] :
        /\ IsFiniteSet(w.done)
        /\ w.original = SumOf(size, w.done)
        /\ w.stored = SumOf(BytesOfAll(final, size), w.done)}

\* One tensor more.
LEMMA DoneGrows ==
    ASSUME NEW final, NEW size, PairsFit(final, size), NEW w \in AccountStates(final, size),
           NEW t \in DOMAIN size, t \notin w.done
    PROVE  [done |-> w.done \union {t}, original |-> w.original + size[t],
            stored |-> w.stored + BytesOfAll(final, size)[t]] \in AccountStates(final, size)
<1>1. PICK bytes : bytes = BytesOfAll(final, size)
  OBVIOUS
<1>2. PICK done \in SUBSET DOMAIN size, original \in Int, stored \in Int :
        /\ w = [done |-> done, original |-> original, stored |-> stored]
        /\ IsFiniteSet(done) /\ original = SumOf(size, done) /\ stored = SumOf(bytes, done)
  BY <1>1 DEF AccountStates
<1>3. w.done = done /\ w.original = original /\ w.stored = stored
  BY <1>2
<1>4. \A x \in DOMAIN size : size[x] \in Int /\ bytes[x] \in Int
  BY <1>1 DEF PairsFit, BytesOfAll
<1>5. Numbers(size, done \union {t}) /\ Numbers(bytes, done \union {t})
  BY <1>4 DEF Numbers
<1>6. /\ SumOf(size, done \union {t}) = SumOf(size, done) + size[t]
      /\ SumOf(bytes, done \union {t}) = SumOf(bytes, done) + bytes[t]
  BY <1>2, <1>3, <1>5, SumGrows
<1>7. IsFiniteSet(done \union {t}) /\ done \union {t} \in SUBSET DOMAIN size
  BY <1>2, FS_AddElement
<1>8. original + size[t] \in Int /\ stored + bytes[t] \in Int
  BY <1>2, <1>4
<1> QED BY <1>1, <1>2, <1>3, <1>6, <1>7, <1>8 DEF AccountStates

\* Counting a tensor keeps the account.
LEMMA CountedKeeps ==
    ASSUME NEW final, NEW size, PairsFit(final, size), NEW w \in AccountStates(final, size),
           NEW t \in DOMAIN size
    PROVE  Counted(w, t, final, size) \in AccountStates(final, size)
<1> DEFINE more(v, x) == [done |-> v.done \union {x}, original |-> v.original + size[x],
                          stored |-> v.stored + BytesOfAll(final, size)[x]]
<1>1. /\ w = [done |-> w.done, original |-> w.original, stored |-> w.stored]
      /\ w.original \in Int /\ w.stored \in Int
  BY DEF AccountStates
<1>2. CASE t \in w.done
  BY <1>2 DEF Counted
<1>3. CASE t \notin w.done /\ t \notin DOMAIN final
  <2>1. more(w, t) \in AccountStates(final, size)
    BY <1>3, DoneGrows
  <2>2. Counted(w, t, final, size) = more(w, t)
    BY <1>3 DEF Counted, BytesOfAll
  <2> QED BY <2>1, <2>2
<1>4. CASE t \notin w.done /\ t \in DOMAIN final
  <2>1. PICK b \in DOMAIN size \ DOMAIN final : b = final[t].base /\ b # t
    BY <1>4 DEF PairsFit
  <2>2. more(w, t) \in AccountStates(final, size)
    BY <1>4, DoneGrows
  <2>3. /\ BytesOfAll(final, size)[t] = final[t].bytes /\ BytesOfAll(final, size)[b] = size[b]
        /\ size[b] \in Nat /\ size[t] \in Nat /\ final[t].bytes \in Nat
    BY <1>4, <2>1 DEF BytesOfAll, PairsFit
  <2>4. CASE b \in w.done
    <3>1. w.done \union {t, b} = w.done \union {t}
      BY <2>4
    <3>2. Counted(w, t, final, size)
             = [done |-> w.done \union {t}, original |-> w.original + size[t] + 0,
                stored |-> w.stored + final[t].bytes + 0]
      BY <1>4, <2>1, <2>4, <3>1 DEF Counted
    <3>3. w.original + size[t] + 0 = w.original + size[t]
          /\ w.stored + final[t].bytes + 0 = w.stored + final[t].bytes
      BY <1>1, <2>3
    <3> QED BY <2>2, <2>3, <3>2, <3>3
  <2>5. CASE b \notin w.done
    <3>1. PICK v \in AccountStates(final, size) : v = more(w, t)
      BY <2>2
    <3>2. /\ v.done = w.done \union {t} /\ v.original = w.original + size[t]
          /\ v.stored = w.stored + final[t].bytes
      BY <2>3, <3>1
    <3>3. more(v, b) \in AccountStates(final, size)
      BY <2>1, <2>5, <3>2, DoneGrows
    <3>4. Counted(w, t, final, size)
             = [done |-> w.done \union {t, b}, original |-> w.original + size[t] + size[b],
                stored |-> w.stored + final[t].bytes + size[b]]
      BY <1>4, <2>1, <2>5 DEF Counted
    <3>5. w.done \union {t, b} = v.done \union {b}
      BY <3>2
    <3> QED BY <2>3, <3>2, <3>3, <3>4, <3>5
  <2> QED BY <2>4, <2>5
<1> QED BY <1>2, <1>3, <1>4

\* So does counting all of a model.
LEMMA ModelKeeps ==
    ASSUME NEW final, NEW size, PairsFit(final, size), NEW w \in AccountStates(final, size),
           NEW model \in Seq(DOMAIN size)
    PROVE  CountedAll(w, model, final, size) \in AccountStates(final, size)
<1>0. PICK S : S = AccountStates(final, size)
  OBVIOUS
<1>1. PICK n \in Nat : n = Len(model) /\ DOMAIN model = 1 .. n /\ \A k \in 1 .. n : model[k] \in DOMAIN size
  OBVIOUS
<1> DEFINE h == [k \in 1 .. n |-> [v \in S |-> Counted(v, model[k], final, size)]]
           Fold(it) == it = [s \in SUBSET (1 .. n) |->
                               IF s = {} THEN w
                               ELSE Counted(it[s \ {Max(s)}], model[Max(s)], final, size)]
           iter == CHOOSE it : Fold(it)
<1>2. CountedAll(w, model, final, size) = iter[1 .. n]
  BY <1>1 DEF CountedAll, FoldLeft, MapThenFoldSet
<1>3. h \in [1 .. n -> [S -> S]]
  <2>1. ASSUME NEW k \in 1 .. n, NEW v \in S PROVE Counted(v, model[k], final, size) \in S
    BY <1>0, <1>1, CountedKeeps
  <2> QED BY <2>1
<1>4. \E it : Fold(it)
  <2>1. PICK it \in [SUBSET (1 .. n) -> S] : IsFold(it, w, n, h)
    <3> HIDE DEF h
    <3> QED BY <1>0, <1>3, FoldExists
  <2>2. ASSUME NEW s \in SUBSET (1 .. n), s # {}
        PROVE  h[Max(s)][it[s \ {Max(s)}]] = Counted(it[s \ {Max(s)}], model[Max(s)], final, size)
    <3>1. Max(s) \in 1 .. n /\ it[s \ {Max(s)}] \in S
      BY <2>2, LargestOf
    <3> QED BY <3>1
  <2> HIDE DEF h
  <2>3. Fold(it)
    BY <2>1, <2>2 DEF IsFold
  <2> HIDE DEF Fold
  <2> QED BY <2>3
<1>5. Fold(iter)
  <2> HIDE DEF Fold
  <2> QED BY <1>4
<1>6. Follows(iter, S, w, n, h)
  <2>1. iter[{}] = w
    BY <1>5
  <2>2. ASSUME NEW k \in 1 .. n, iter[1 .. (k - 1)] \in S
        PROVE  iter[1 .. k] = h[k][iter[1 .. (k - 1)]]
    <3>1. 1 .. k \in SUBSET (1 .. n) /\ 1 .. k # {} /\ Max(1 .. k) = k /\ (1 .. k) \ {k} = 1 .. (k - 1)
      BY PrefixOf
    <3>2. iter[1 .. k] = Counted(iter[1 .. (k - 1)], model[k], final, size)
      <4> HIDE DEF iter
      <4> QED BY <1>5, <3>1
    <3> HIDE DEF iter
    <3> QED BY <2>2, <3>2
  <2> HIDE DEF iter, h
  <2> QED BY <2>1, <2>2 DEF Follows
<1>7. iter[1 .. n] \in S
  <2> HIDE DEF h, iter
  <2>1. w \in S
    BY <1>0
  <2>2. PICK f \in [0 .. n -> S] : IsRun(f, w, n, h) /\ iter[1 .. n] = f[n]
    BY <1>3, <1>6, <2>1, FoldIsRun
  <2> QED BY <2>2
<1> HIDE DEF iter
<1> QED BY <1>0, <1>2, <1>7

\* And counting one model is what the accounting does.
LEMMA OneModel ==
    ASSUME NEW plan, NEW size, PairsFit(Resolve1(plan, size), size), NEW model \in Seq(DOMAIN size)
    PROVE  Accounting(plan, size, <<model>>) \in AccountStates(Resolve1(plan, size), size)
<1>0. PICK final, b, S : /\ final = Resolve1(plan, size) /\ S = AccountStates(final, size)
                         /\ b = [done |-> {}, original |-> 0, stored |-> 0]
  OBVIOUS
<1>1. b \in S
  <2>1. IsFiniteSet({}) /\ Numbers(size, {}) /\ Numbers(BytesOfAll(final, size), {})
    BY FS_EmptySet DEF Numbers
  <2>2. SumOf(size, {}) = 0 /\ SumOf(BytesOfAll(final, size), {}) = 0
    BY <2>1, SumFacts
  <2>3. b.done = {} /\ b.original = 0 /\ b.stored = 0
    BY <1>0
  <2>4. b \in [done : SUBSET DOMAIN size, original : Int, stored : Int]
    BY <1>0
  <2> QED BY <1>0, <2>1, <2>2, <2>3, <2>4 DEF AccountStates
<1> DEFINE h == [k \in 1 .. 1 |-> [w \in S |-> CountedAll(w, <<model>>[k], final, size)]]
           Fold(it) == it = [s \in SUBSET (1 .. 1) |->
                               IF s = {} THEN b
                               ELSE CountedAll(it[s \ {Max(s)}], <<model>>[Max(s)], final, size)]
           iter == CHOOSE it : Fold(it)
<1>2. Accounting(plan, size, <<model>>) = iter[1 .. 1]
  <2>1. DOMAIN <<model>> = 1 .. 1
    OBVIOUS
  <2> QED BY <1>0, <2>1 DEF Accounting, FoldLeft, MapThenFoldSet
<1>3. h \in [1 .. 1 -> [S -> S]]
  <2>1. ASSUME NEW k \in 1 .. 1, NEW w \in S PROVE CountedAll(w, <<model>>[k], final, size) \in S
    <3>1. <<model>>[k] = model
      OBVIOUS
    <3> QED BY <1>0, <3>1, ModelKeeps
  <2> QED BY <2>1
<1>4. \E it : Fold(it)
  <2>1. PICK it \in [SUBSET (1 .. 1) -> S] : IsFold(it, b, 1, h)
    <3> HIDE DEF h
    <3> QED BY <1>1, <1>3, FoldExists
  <2>2. ASSUME NEW s \in SUBSET (1 .. 1), s # {}
        PROVE  h[Max(s)][it[s \ {Max(s)}]] = CountedAll(it[s \ {Max(s)}], <<model>>[Max(s)], final, size)
    <3>1. Max(s) \in 1 .. 1 /\ it[s \ {Max(s)}] \in S
      BY <2>2, LargestOf
    <3> QED BY <3>1
  <2> HIDE DEF h
  <2>3. Fold(it)
    BY <2>1, <2>2 DEF IsFold
  <2> HIDE DEF Fold
  <2> QED BY <2>3
<1>5. Fold(iter)
  <2> HIDE DEF Fold
  <2> QED BY <1>4
<1>6. iter[{}] = b
  BY <1>5
<1>7. 1 .. 1 \in SUBSET (1 .. 1) /\ 1 .. 1 # {} /\ Max(1 .. 1) = 1 /\ (1 .. 1) \ {1} = {}
  <2>1. 1 \in Nat /\ 1 \in 1 .. 1 /\ 1 .. (1 - 1) = {}
    OBVIOUS
  <2>2. /\ 1 .. 1 \in SUBSET (1 .. 1) /\ 1 .. 1 # {} /\ Max(1 .. 1) = 1
        /\ (1 .. 1) \ {1} = 1 .. (1 - 1)
    BY <2>1, PrefixOf
  <2> QED BY <2>1, <2>2
<1>8. iter[1 .. 1] = CountedAll(iter[{}], <<model>>[1], final, size)
  <2> HIDE DEF iter
  <2> QED BY <1>5, <1>7
<1>9. <<model>>[1] = model
  OBVIOUS
<1> HIDE DEF iter
<1> QED BY <1>0, <1>1, <1>2, <1>6, <1>8, <1>9, ModelKeeps

\* The sum that the property states is the one the account keeps.
LEMMA BytesOverIs ==
    ASSUME NEW S, IsFiniteSet(S), NEW f, Numbers(f, S)
    PROVE  BytesOver(f, S) = SumOf(f, S)
BY TotalOf DEF BytesOver

\* What an adopting task finds.
LEMMA AdoptedFits ==
    ASSUME NEW i \in AdoptInputs
    PROVE  LET r == Adopted(i)
               done == r.account.done
               bytes == [t \in done |-> IF t \in DOMAIN r.kept THEN r.kept[t].bytes ELSE i.size[t]]
           IN /\ DepthOne(r.plan) /\ DepthOne([t \in DOMAIN r.kept |-> r.kept[t].base])
              /\ \A t \in DOMAIN r.plan : t \in i.phys /\ r.plan[t] \in i.phys \ {t}
              /\ r.account.original = BytesOver(i.size, done)
              /\ r.account.stored = BytesOver(bytes, done)
<1>1. PICK cand, kept, size, account, r :
        /\ cand = Physical(i.theirs, i.phys) /\ size = i.size /\ kept = Resolve1(cand, size)
        /\ account = Accounting(cand, size, <<i.model>>) /\ r = Adopted(i)
  OBVIOUS
<1>2. r.kept = kept /\ r.account = account /\ r.plan = Replan(i.theirs, i.v1, i.phys, size, i.order)
  BY <1>1 DEF Adopted
<1>3. PICK w \in ReplanStates(DOMAIN size, i.phys) : w.final = r.plan
  BY <1>1, <1>2, ReplanEnds
<1>4. DepthOne(r.plan) /\ \A t \in DOMAIN r.plan : t \in i.phys /\ r.plan[t] \in i.phys \ {t}
  <2>1. PICK final, roles : w.final = final /\ w.roles = roles
    OBVIOUS
  <2>2. \A t \in DOMAIN final : roles[t] = "target" /\ roles[final[t]] = "base"
    BY <2>1 DEF ReplanSound, ReplanStates
  <2>3. \A t \in DOMAIN final : t \in i.phys /\ final[t] \in i.phys \ {t}
    BY <2>1 DEF ReplanStates
  <2> QED BY <1>3, <2>1, <2>2, <2>3 DEF DepthOne
<1>5. DepthOne([t \in DOMAIN kept |-> kept[t].base])
  BY <1>1, KeptPairsDoNotChain
<1>6. PairsFit(kept, size)
  <2>1. /\ size \in [DOMAIN size -> Nat] /\ DOMAIN i.theirs \subseteq DOMAIN size
        /\ \A t \in DOMAIN i.theirs : i.theirs[t].base \in DOMAIN size /\ i.theirs[t].bytes \in Nat
    <3>1. /\ i.size \in [DOMAIN i.size -> Nat] /\ DOMAIN i.theirs \subseteq DOMAIN i.size
          /\ \A t \in DOMAIN i.theirs : i.theirs[t].base \in DOMAIN i.size /\ i.theirs[t].bytes \in Nat
      BY AdoptInputsFit, Zenon
    <3>2. size = i.size
      BY <1>1
    <3> QED BY <3>1, <3>2
  <2>2. /\ DOMAIN kept \subseteq DOMAIN i.theirs
        /\ \A t \in DOMAIN kept : kept[t] = i.theirs[t]
    BY <1>1, Zenon DEF Resolve1, Kept, Physical
  <2>3. \A t \in DOMAIN kept : kept[t].base \notin DOMAIN kept
    BY <1>5 DEF DepthOne
  <2> QED BY <2>1, <2>2, <2>3 DEF PairsFit
<1>7. account \in AccountStates(kept, size)
  <2>1. i.model \in Seq(DOMAIN size)
    BY <1>1, AdoptInputsFit
  <2> QED BY <1>1, <1>6, <2>1, OneModel
<1>8. PICK done, bytes :
        /\ done \in SUBSET DOMAIN size /\ done = account.done /\ IsFiniteSet(done)
        /\ bytes = [t \in done |-> IF t \in DOMAIN kept THEN kept[t].bytes ELSE size[t]]
  BY <1>7 DEF AccountStates
<1>9. Numbers(size, done) /\ Numbers(bytes, done) /\ Agree(bytes, BytesOfAll(kept, size), done)
  BY <1>6, <1>8 DEF Numbers, Agree, BytesOfAll, PairsFit
<1>10. account.original = SumOf(size, done) /\ account.stored = SumOf(bytes, done)
  <2>1. SumOf(bytes, done) = SumOf(BytesOfAll(kept, size), done)
    BY <1>8, <1>9, SumFacts
  <2> QED BY <1>7, <1>8, <2>1 DEF AccountStates
<1>11. BytesOver(size, done) = SumOf(size, done) /\ BytesOver(bytes, done) = SumOf(bytes, done)
  BY <1>8, <1>9, BytesOverIs
<1> QED BY <1>1, <1>2, <1>4, <1>5, <1>8, <1>10, <1>11

\* The answer of an adopting task is that of its call.
AdoptInv ==
    task = "adopt" => input \in AdoptInputs /\ (answer = Nothing \/ answer = <<Adopted(input)>>)

\* A plan that is adopted has depth one and pairs only tensors that exist,
\* whatever the two plans and the order of the walk, and its account is the sum
\* of what is done.
THEOREM AdoptedPlansAreFlat == OfflineSpec => []ReplanDepthOne
<1>1. OfflineInit => AdoptInv
  BY InputsOf DEF AdoptInv
<1>2. ASSUME AdoptInv, [OfflineNext]_offline PROVE AdoptInv'
  <2>1. CASE task # "adopt" \/ answer' = answer
    BY <1>2, <2>1, OneTask DEF AdoptInv
  <2>2. CASE task = "adopt" /\ answer' # answer
    BY <1>2, <2>2, OneTask DEF AdoptInv, Adopt, Answer
  <2> QED BY <2>1, <2>2
<1>3. AdoptInv => ReplanDepthOne
  <2> SUFFICES ASSUME AdoptInv, task = "adopt", Done PROVE ReplanDepthOne
    BY DEF ReplanDepthOne
  <2>1. input \in AdoptInputs /\ Result = Adopted(input)
    BY DEF AdoptInv, Done, Result
  <2>2. PICK r : r = Result
    OBVIOUS
  <2>3. LET done == r.account.done
            bytes == [t \in done |-> IF t \in DOMAIN r.kept THEN r.kept[t].bytes ELSE input.size[t]]
        IN /\ DepthOne(r.plan) /\ DepthOne([t \in DOMAIN r.kept |-> r.kept[t].base])
           /\ \A t \in DOMAIN r.plan : t \in input.phys /\ r.plan[t] \in input.phys \ {t}
           /\ r.account.original = BytesOver(input.size, done)
           /\ r.account.stored = BytesOver(bytes, done)
    BY <2>1, <2>2, AdoptedFits, Zenon
  <2> QED BY <2>2, <2>3, Zenon DEF ReplanDepthOne
<1> QED BY <1>1, <1>2, <1>3, PTL DEF OfflineSpec

-----------------------------------------------------------------------------
(* The batches: what a hub's deltas are, and what one more does to them. *)

\* The deltas of a hub of the tensors D; 0 is "raw".
Deltas(D) == [D -> D \union {0}]

\* b has all the deltas of a.
Extends(a, b) == \A t \in DOMAIN a : a[t] # 0 => b[t] = a[t]

\* f is the walk of compress_pair down from cur.
IsWalk(f, base, cur) ==
    /\ f[0] = cur
    /\ \A h \in 1 .. MaxHops + 1 : f[h] = IF f[h - 1] = 0 THEN 0 ELSE base[f[h - 1]]

\* There is one, and by it the walk tells whether it reaches the target.
LEMMA WalkIs ==
    ASSUME NEW D, 0 \notin D, NEW base \in Deltas(D), NEW cur \in D
    PROVE  \E f \in [0 .. MaxHops + 1 -> D \union {0}] :
              /\ IsWalk(f, base, cur)
              /\ \A target : ReachesTarget(base, cur, target) <=>
                    \E h \in 1 .. MaxHops + 1 : f[h] # 0 /\ (f[h] = target \/ h = MaxHops + 1)
<1>0. PICK n \in Nat : n = MaxHops + 1
  BY PlannerConstants
<1> DEFINE S == D \union {0}
           Down(t) == IF t = 0 THEN 0 ELSE base[t]
           g == [k \in 1 .. n |-> [t \in S |-> Down(t)]]
           Rec(f) == f = [h \in 0 .. n |-> IF h = 0 THEN cur ELSE IF f[h - 1] = 0 THEN 0 ELSE base[f[h - 1]]]
           chain == CHOOSE f : Rec(f)
<1>1. \A t \in S : Down(t) \in S
  BY DEF Deltas
<1>2. PICK f \in [0 .. n -> S] : IsRun(f, cur, n, g)
  <2>1. cur \in S /\ g \in [1 .. n -> [S -> S]]
    BY <1>1
  <2> HIDE DEF S, g
  <2> QED BY <1>0, <2>1, RunExists
<1>3. \A h \in 1 .. n : f[h] = IF f[h - 1] = 0 THEN 0 ELSE base[f[h - 1]]
  <2> SUFFICES ASSUME NEW h \in 1 .. n PROVE f[h] = Down(f[h - 1])
    OBVIOUS
  <2>1. f[h] = g[h][f[h - 1]] /\ f[h - 1] \in S
    <3>1. h - 1 \in 0 .. n
      OBVIOUS
    <3> HIDE DEF g, S
    <3> QED BY <1>2, <3>1 DEF IsRun
  <2> HIDE DEF Down, S
  <2> QED BY <2>1
<1>4. f[0] = cur
  BY <1>2 DEF IsRun
<1>5. Rec(f)
  <2>1. \A h \in 0 .. n : f[h] = IF h = 0 THEN cur ELSE IF f[h - 1] = 0 THEN 0 ELSE base[f[h - 1]]
    <3>1. \A h \in 0 .. n : h = 0 \/ h \in 1 .. n
      OBVIOUS
    <3> QED BY <1>3, <1>4, <3>1
  <2>2. f = [h \in 0 .. n |-> f[h]]
    BY <1>2
  <2> HIDE DEF S
  <2> QED BY <2>1, <2>2, Zenon
<1>6. Rec(chain)
  BY <1>5, Zenon
<1>7. \A h \in 0 .. n : chain[h] = f[h]
  <2> DEFINE T == {h \in 0 .. n : chain[h] = f[h]}
  <2>1. chain[0] = cur /\ \A h \in 1 .. n : chain[h] = IF chain[h - 1] = 0 THEN 0 ELSE base[chain[h - 1]]
    <3> HIDE DEF chain
    <3> QED BY <1>6
  <2> HIDE DEF chain
  <2>2. 0 \in T
    BY <1>4, <2>1
  <2>3. ASSUME NEW h \in 0 .. n - 1, h \in T PROVE h + 1 \in T
    <3>1. h + 1 \in 1 .. n /\ (h + 1) - 1 = h
      OBVIOUS
    <3>2. chain[h] = f[h]
      BY <2>3
    <3>3. /\ chain[h + 1] = IF chain[h] = 0 THEN 0 ELSE base[chain[h]]
          /\ f[h + 1] = IF f[h] = 0 THEN 0 ELSE base[f[h]]
      BY <1>3, <2>1, <3>1
    <3> QED BY <3>1, <3>2, <3>3
  <2>4. 0 .. n \subseteq T
    <3> HIDE DEF T
    <3> QED BY <2>2, <2>3, InductionUpTo
  <2> QED BY <2>4
<1>8. ASSUME NEW target
      PROVE  ReachesTarget(base, cur, target) <=>
                \E h \in 1 .. n : chain[h] # 0 /\ (chain[h] = target \/ h = n)
  BY <1>0 DEF ReachesTarget
<1>9. \A h \in 1 .. n : chain[h] = f[h]
  BY <1>7
<1> HIDE DEF chain, S, g
<1>10. \A target : ReachesTarget(base, cur, target) <=>
          \E h \in 1 .. n : f[h] # 0 /\ (f[h] = target \/ h = n)
  BY <1>8, <1>9
<1> QED BY <1>0, <1>2, <1>3, <1>4, <1>10 DEF IsWalk, S

\* A base whose walk does not reach the target has a set of tensors to itself
\* that its chain does not leave.
LEMMA WalkedClosed ==
    ASSUME NEW D, 0 \notin D, NEW base \in Deltas(D), NEW cur \in D, NEW target \in D, target # cur,
           ~ReachesTarget(base, cur, target)
    PROVE  \E C \in SUBSET D : /\ cur \in C /\ target \notin C
                               /\ \A t \in C : base[t] \in C \union {0}
<1>0. PICK n \in Nat : n = MaxHops + 1 /\ n > 0
  BY PlannerConstants
<1>1. PICK f \in [0 .. n -> D \union {0}] :
        /\ f[0] = cur
        /\ \A h \in 1 .. n : f[h] = IF f[h - 1] = 0 THEN 0 ELSE base[f[h - 1]]
        /\ \A h \in 1 .. n : f[h] = 0 \/ (f[h] # target /\ h # n)
  BY <1>0, WalkIs DEF IsWalk
<1> DEFINE C == {f[h] : h \in 0 .. n} \ {0}
<1>2. C \in SUBSET D /\ cur \in C
  BY <1>1
<1>3. target \notin C
  <2>1. ASSUME NEW h \in 0 .. n, f[h] = target PROVE FALSE
    <3>1. h # 0
      BY <1>1, <2>1
    <3> QED BY <1>1, <2>1, <3>1
  <2> QED BY <2>1
<1>4. ASSUME NEW t \in C PROVE base[t] \in C \union {0}
  <2>1. PICK h \in 0 .. n : t = f[h] /\ f[h] # 0
    OBVIOUS
  <2>2. h # n
    BY <1>0, <1>1, <2>1
  <2>3. h + 1 \in 1 .. n /\ (h + 1) - 1 = h /\ h + 1 \in 0 .. n
    BY <2>2
  <2>4. f[h + 1] = base[t]
    BY <1>1, <2>1, <2>3
  <2> QED BY <2>3, <2>4
<1> HIDE DEF C
<1> QED BY <1>2, <1>3, <1>4

\* A target once reached stays reached, however many deltas are added.
LEMMA StaysReached ==
    ASSUME NEW D, 0 \notin D, NEW base \in Deltas(D), NEW more \in Deltas(D), Extends(base, more),
           NEW cur \in D, NEW target, ReachesTarget(base, cur, target)
    PROVE  ReachesTarget(more, cur, target)
<1>0. PICK n \in Nat : n = MaxHops + 1 /\ n > 0
  BY PlannerConstants
<1>1. PICK f \in [0 .. n -> D \union {0}] :
        /\ f[0] = cur
        /\ \A h \in 1 .. n : f[h] = IF f[h - 1] = 0 THEN 0 ELSE base[f[h - 1]]
        /\ \E h \in 1 .. n : f[h] # 0 /\ (f[h] = target \/ h = n)
  BY <1>0, WalkIs DEF IsWalk
<1>2. PICK g \in [0 .. n -> D \union {0}] :
        /\ g[0] = cur
        /\ \A h \in 1 .. n : g[h] = IF g[h - 1] = 0 THEN 0 ELSE more[g[h - 1]]
        /\ ReachesTarget(more, cur, target) <=>
              \E h \in 1 .. n : g[h] # 0 /\ (g[h] = target \/ h = n)
  BY <1>0, WalkIs DEF IsWalk
<1> DEFINE T == {h \in 0 .. n : f[h] # 0 => g[h] = f[h]}
<1>3. 0 \in T
  BY <1>1, <1>2
<1>4. ASSUME NEW h \in 0 .. n - 1, h \in T PROVE h + 1 \in T
  <2>1. h + 1 \in 1 .. n /\ (h + 1) - 1 = h /\ h + 1 \in 0 .. n /\ h \in 0 .. n
    OBVIOUS
  <2>2. f[h + 1] = (IF f[h] = 0 THEN 0 ELSE base[f[h]]) /\ g[h + 1] = (IF g[h] = 0 THEN 0 ELSE more[g[h]])
    BY <1>1, <1>2, <2>1
  <2>3. ASSUME f[h + 1] # 0 PROVE g[h + 1] = f[h + 1]
    <3>1. f[h] # 0 /\ base[f[h]] # 0 /\ f[h] \in D /\ g[h] = f[h]
      BY <1>4, <2>1, <2>2, <2>3
    <3>2. more[f[h]] = base[f[h]]
      BY <3>1 DEF Extends, Deltas
    <3> QED BY <2>2, <3>1, <3>2
  <2> QED BY <2>1, <2>3
<1>5. 0 .. n \subseteq T
  <2> HIDE DEF T
  <2> QED BY <1>3, <1>4, InductionUpTo
<1>6. PICK h \in 1 .. n : f[h] # 0 /\ (f[h] = target \/ h = n)
  BY <1>1
<1>7. g[h] = f[h]
  BY <1>5, <1>6
<1> QED BY <1>2, <1>6, <1>7

\* Numbers by which deltas can be ranked can be made as small as their number.
LEMMA RankedIsAcyclic ==
    ASSUME NEW D, IsFiniteSet(D), NEW base \in Deltas(D), NEW r \in [D -> Int],
           \A t \in D : base[t] # 0 => r[base[t]] < r[t]
    PROVE  Acyclic(base)
<1> DEFINE Below(t) == {u \in D : r[u] < r[t]}
<1>1. PICK n \in Nat : n = Cardinality(D)
  BY FS_CardinalityType
<1>2. ASSUME NEW t \in D
      PROVE  /\ IsFiniteSet(Below(t)) /\ Cardinality(Below(t)) \in Nat /\ Cardinality(Below(t)) < n
  <2>1. t \notin Below(t) /\ Below(t) \in SUBSET D
    <3>1. r[t] \in Int
      OBVIOUS
    <3> QED BY <3>1
  <2>2. /\ IsFiniteSet(Below(t)) /\ Cardinality(Below(t)) <= n
        /\ (n = Cardinality(Below(t)) => D = Below(t))
    BY <1>1, <2>1, FS_Subset
  <2>3. Cardinality(Below(t)) \in Nat
    BY <2>2, FS_CardinalityType
  <2>4. D # Below(t)
    BY <2>1
  <2> HIDE DEF Below
  <2> QED BY <2>2, <2>3, <2>4
<1>3. ASSUME NEW t \in D, base[t] # 0 PROVE Cardinality(Below(base[t])) < Cardinality(Below(t))
  <2>1. PICK u \in D : u = base[t] /\ r[u] < r[t]
    BY <1>3 DEF Deltas
  <2>2. Below(u) \subseteq Below(t) /\ u \in Below(t) /\ u \notin Below(u)
    <3>1. r[u] \in Int /\ r[t] \in Int /\ \A v \in D : r[v] \in Int
      OBVIOUS
    <3> QED BY <2>1, <3>1
  <2>3. Below(u) \in SUBSET Below(t) /\ Below(u) # Below(t)
    BY <2>2
  <2>4. /\ Cardinality(Below(u)) <= Cardinality(Below(t))
        /\ (Cardinality(Below(t)) = Cardinality(Below(u)) => Below(t) = Below(u))
    BY <1>2, <2>3, FS_Subset
  <2>5. Cardinality(Below(u)) \in Nat /\ Cardinality(Below(t)) \in Nat
    BY <1>2
  <2> HIDE DEF Below
  <2> QED BY <2>1, <2>3, <2>4, <2>5
<1> HIDE DEF Below
<1> DEFINE rank == [t \in D |-> Cardinality(Below(t)) + 1]
<1>4. rank \in [D -> 1 .. n]
  BY <1>2
<1>5. ASSUME NEW t \in D, base[t] # 0 PROVE rank[base[t]] < rank[t]
  <2>1. base[t] \in D
    BY <1>5 DEF Deltas
  <2>2. Cardinality(Below(base[t])) \in Nat /\ Cardinality(Below(t)) \in Nat
    BY <1>2, <2>1
  <2> QED BY <1>3, <1>5, <2>1, <2>2
<1> HIDE DEF rank
<1>6. DOMAIN base = D
  BY DEF Deltas
<1> QED BY <1>1, <1>4, <1>5, <1>6 DEF Acyclic

\* A delta against a base that does not reach its target closes no cycle.
LEMMA OneMoreDelta ==
    ASSUME NEW D, IsFiniteSet(D), 0 \notin D, NEW base \in Deltas(D), Acyclic(base),
           NEW target \in D, NEW cur \in D, target # cur, ~ReachesTarget(base, cur, target)
    PROVE  Acyclic([base EXCEPT ![target] = cur])
<1>0. DOMAIN base = D
  BY DEF Deltas
<1>1. PICK n \in Nat : n = Cardinality(D)
  BY FS_CardinalityType
<1>2. PICK rank \in [D -> 1 .. n] : \A t \in D : base[t] # 0 => rank[base[t]] < rank[t]
  BY <1>0, <1>1 DEF Acyclic
<1>3. PICK C \in SUBSET D : /\ cur \in C /\ target \notin C
                            /\ \A t \in C : base[t] \in C \union {0}
  BY WalkedClosed
<1>4. PICK next \in Deltas(D) : next = [base EXCEPT ![target] = cur]
  BY DEF Deltas
<1>5. PICK r \in [D -> Int] : \A t \in D : r[t] = IF t \in C THEN rank[t] ELSE rank[t] + n
  <2>1. [t \in D |-> IF t \in C THEN rank[t] ELSE rank[t] + n] \in [D -> Int]
    BY <1>2
  <2> QED BY <2>1
<1>6. ASSUME NEW t \in D, next[t] # 0 PROVE r[next[t]] < r[t]
  <2>1. PICK b \in D : b = next[t]
    BY <1>6 DEF Deltas
  <2>2. rank[b] \in 1 .. n /\ rank[t] \in 1 .. n
    BY <1>2
  <2>3. r[b] = (IF b \in C THEN rank[b] ELSE rank[b] + n) /\ r[t] = (IF t \in C THEN rank[t] ELSE rank[t] + n)
    BY <1>5
  <2>4. CASE t = target
    <3>1. b = cur
      BY <1>4, <2>1, <2>4 DEF Deltas
    <3> QED BY <1>3, <2>1, <2>2, <2>3, <2>4, <3>1
  <2>5. CASE t # target
    <3>1. b = base[t] /\ base[t] # 0
      BY <1>4, <1>6, <2>1, <2>5 DEF Deltas
    <3>2. rank[b] < rank[t]
      BY <1>2, <3>1
    <3>3. t \in C => b \in C
      BY <1>3, <1>6, <2>1, <3>1
    <3> QED BY <2>1, <2>2, <2>3, <3>2, <3>3
  <2> QED BY <2>4, <2>5
<1> QED BY <1>4, <1>6, RankedIsAcyclic

-----------------------------------------------------------------------------
(* compress_pair along a batch. *)

RunsTo(f, S, b, n, h, end) == f \in [0 .. n -> S] /\ IsRun(f, b, n, h) /\ end = f[n]

\* FoldIsRun, as the folds cite it.
LEMMA FoldRuns ==
    ASSUME NEW S, NEW b \in S, NEW n \in Nat, NEW h \in [1 .. n -> [S -> S]], NEW it,
           Follows(it, S, b, n, h)
    PROVE  \E f : RunsTo(f, S, b, n, h, it[1 .. n])
<1>1. \E f \in [0 .. n -> S] : IsRun(f, b, n, h) /\ it[1 .. n] = f[n]
  BY FoldIsRun
<1> QED BY <1>1 DEF RunsTo

TriesStay(rows, S, E) ==
    \A v \in S : \A e \in E : TryPair(rows, v, e) \in S

IsTries(f, rows, S, hub, pairs) ==
    /\ f \in [0 .. Len(pairs) -> S] /\ f[0] = hub /\ RunPairs(rows, hub, pairs) = f[Len(pairs)]
    /\ \A k \in 1 .. Len(pairs) : f[k] = TryPair(rows, f[k - 1], pairs[k])

\* A batch is a run of its pairs.
LEMMA PairsRun ==
    ASSUME NEW rows, NEW S, NEW hub \in S, NEW E, NEW pairs \in Seq(E),
           TriesStay(rows, S, E)
    PROVE  \E f : IsTries(f, rows, S, hub, pairs)
<1>0. \A v \in S : \A e \in E : TryPair(rows, v, e) \in S
  BY DEF TriesStay
<1>1. PICK n \in Nat : /\ n = Len(pairs) /\ DOMAIN pairs = 1 .. n
                      /\ \A k \in 1 .. n : pairs[k] \in E
  OBVIOUS
<1> DEFINE h == [k \in 1 .. n |-> [v \in S |-> TryPair(rows, v, pairs[k])]]
           Fold(it) == it = [s \in SUBSET (1 .. n) |->
                               IF s = {} THEN hub
                               ELSE TryPair(rows, it[s \ {Max(s)}], pairs[Max(s)])]
           iter == CHOOSE it : Fold(it)
<1>2. RunPairs(rows, hub, pairs) = iter[1 .. n]
  BY <1>1, Zenon DEF RunPairs, FoldLeft, MapThenFoldSet
<1>3. h \in [1 .. n -> [S -> S]]
  BY <1>0, <1>1
<1>4. Fold(iter)
  <2>1. PICK it \in [SUBSET (1 .. n) -> S] : IsFold(it, hub, n, h)
    <3> HIDE DEF h
    <3> QED BY <1>3, FoldExists
  <2>2. ASSUME NEW s \in SUBSET (1 .. n), s # {}
        PROVE  h[Max(s)][it[s \ {Max(s)}]] = TryPair(rows, it[s \ {Max(s)}], pairs[Max(s)])
    <3>1. Max(s) \in 1 .. n /\ it[s \ {Max(s)}] \in S
      BY <2>2, LargestOf
    <3> QED BY <3>1
  <2> HIDE DEF h
  <2>3. Fold(it)
    BY <2>1, <2>2 DEF IsFold
  <2> HIDE DEF Fold
  <2> QED BY <2>3, Zenon
<1>5. Follows(iter, S, hub, n, h)
  <2>1. iter[{}] = hub
    BY <1>4
  <2>2. ASSUME NEW k \in 1 .. n, iter[1 .. (k - 1)] \in S
        PROVE  iter[1 .. k] = h[k][iter[1 .. (k - 1)]]
    <3>1. 1 .. k \in SUBSET (1 .. n) /\ 1 .. k # {} /\ Max(1 .. k) = k /\ (1 .. k) \ {k} = 1 .. (k - 1)
      BY PrefixOf
    <3>2. iter[1 .. k] = TryPair(rows, iter[1 .. (k - 1)], pairs[k])
      <4> HIDE DEF iter
      <4> QED BY <1>4, <3>1
    <3> HIDE DEF iter
    <3> QED BY <2>2, <3>2
  <2> HIDE DEF iter, h
  <2> QED BY <2>1, <2>2 DEF Follows
<1> HIDE DEF iter, h, Fold
<1>6. PICK f : RunsTo(f, S, hub, n, h, iter[1 .. n])
  <2>1. hub \in S /\ n \in Nat
    OBVIOUS
  <2> QED BY <1>3, <1>5, <2>1, FoldRuns
<1>7. ASSUME NEW k \in 1 .. n PROVE f[k] = TryPair(rows, f[k - 1], pairs[k])
  <2>1. f[k] = h[k][f[k - 1]] /\ f[k - 1] \in S
    <3>1. k - 1 \in 0 .. n
      OBVIOUS
    <3> QED BY <1>6, <3>1 DEF RunsTo, IsRun
  <2> QED BY <2>1 DEF h
<1> QED BY <1>1, <1>2, <1>6, <1>7 DEF RunsTo, IsRun, IsTries

Over(rows, hub, h0, models) ==
    FoldLeft(LAMBDA h, m : CompressModel(rows, hub, h, m), h0, models)

ModelsStay(rows, hub, S, E) ==
    \A v \in S : \A e \in E : CompressModel(rows, hub, v, e) \in S

IsOverModels(f, rows, hub, S, h0, models) ==
    /\ f \in [0 .. Len(models) -> S] /\ f[0] = h0 /\ Over(rows, hub, h0, models) = f[Len(models)]
    /\ \A k \in 1 .. Len(models) : f[k] = CompressModel(rows, hub, f[k - 1], models[k])

\* Compressing all is a run over the models.
LEMMA ModelsRun ==
    ASSUME NEW rows, NEW hub, NEW S, NEW h0 \in S, NEW E, NEW models \in Seq(E),
           ModelsStay(rows, hub, S, E)
    PROVE  \E f : IsOverModels(f, rows, hub, S, h0, models)
<1>0. \A v \in S : \A e \in E : CompressModel(rows, hub, v, e) \in S
  BY DEF ModelsStay
<1>1. PICK n \in Nat : /\ n = Len(models) /\ DOMAIN models = 1 .. n
                      /\ \A k \in 1 .. n : models[k] \in E
  OBVIOUS
<1> DEFINE h == [k \in 1 .. n |-> [v \in S |-> CompressModel(rows, hub, v, models[k])]]
           Fold(it) == it = [s \in SUBSET (1 .. n) |->
                               IF s = {} THEN h0
                               ELSE CompressModel(rows, hub, it[s \ {Max(s)}], models[Max(s)])]
           iter == CHOOSE it : Fold(it)
<1>2. Over(rows, hub, h0, models) = iter[1 .. n]
  BY <1>1, Zenon DEF Over, FoldLeft, MapThenFoldSet
<1>3. h \in [1 .. n -> [S -> S]]
  BY <1>0, <1>1
<1>4. Fold(iter)
  <2>1. PICK it \in [SUBSET (1 .. n) -> S] : IsFold(it, h0, n, h)
    <3> HIDE DEF h
    <3> QED BY <1>3, FoldExists
  <2>2. ASSUME NEW s \in SUBSET (1 .. n), s # {}
        PROVE  h[Max(s)][it[s \ {Max(s)}]] = CompressModel(rows, hub, it[s \ {Max(s)}], models[Max(s)])
    <3>1. Max(s) \in 1 .. n /\ it[s \ {Max(s)}] \in S
      BY <2>2, LargestOf
    <3> QED BY <3>1
  <2> HIDE DEF h
  <2>3. Fold(it)
    BY <2>1, <2>2 DEF IsFold
  <2> HIDE DEF Fold
  <2> QED BY <2>3, Zenon
<1>5. Follows(iter, S, h0, n, h)
  <2>1. iter[{}] = h0
    BY <1>4
  <2>2. ASSUME NEW k \in 1 .. n, iter[1 .. (k - 1)] \in S
        PROVE  iter[1 .. k] = h[k][iter[1 .. (k - 1)]]
    <3>1. 1 .. k \in SUBSET (1 .. n) /\ 1 .. k # {} /\ Max(1 .. k) = k /\ (1 .. k) \ {k} = 1 .. (k - 1)
      BY PrefixOf
    <3>2. iter[1 .. k] = CompressModel(rows, hub, iter[1 .. (k - 1)], models[k])
      <4> HIDE DEF iter
      <4> QED BY <1>4, <3>1
    <3> HIDE DEF iter
    <3> QED BY <2>2, <3>2
  <2> HIDE DEF iter, h
  <2> QED BY <2>1, <2>2 DEF Follows
<1> HIDE DEF iter, h, Fold
<1>6. PICK f : RunsTo(f, S, h0, n, h, iter[1 .. n])
  <2>1. h0 \in S /\ n \in Nat
    OBVIOUS
  <2> QED BY <1>3, <1>5, <2>1, FoldRuns
<1>7. ASSUME NEW k \in 1 .. n PROVE f[k] = CompressModel(rows, hub, f[k - 1], models[k])
  <2>1. f[k] = h[k][f[k - 1]] /\ f[k - 1] \in S
    <3>1. k - 1 \in 0 .. n
      OBVIOUS
    <3> QED BY <1>6, <3>1 DEF RunsTo, IsRun
  <2> QED BY <2>1 DEF h
<1> QED BY <1>1, <1>2, <1>6, <1>7 DEF RunsTo, IsRun, IsOverModels

Statuses == {"ok", "failed", "already_compressed", "base_chain_reaches_target"}

\* The hubs that a batch of pairs of P passes through, from one with the deltas base.
HubStates(D, base, P) ==
    {h \in [base : Deltas(D), results : Seq([pair : P, status : Statuses])] :
        Acyclic(h.base) /\ Extends(base, h.base)}

\* Pairs of tensors of D.
PairsIn(D, P) == \A p \in P : p.target \in D /\ p.base \in D

\* What is refused once is refused ever after.
LEMMA StaysRefused ==
    ASSUME NEW rows, NEW D, 0 \notin D, NEW base \in Deltas(D), NEW more \in Deltas(D),
           Extends(base, more),
           NEW p, p.target \in D, p.base \in D, Outcome(rows, base, p) # "ok"
    PROVE  Outcome(rows, more, p) # "ok"
<1>1. base[p.target] # 0 => more[p.target] # 0
  BY DEF Extends, Deltas
<1>2. ReachesTarget(base, p.base, p.target) => ReachesTarget(more, p.base, p.target)
  BY StaysReached
<1> QED BY <1>1, <1>2, Zenon DEF Outcome

TryKept(rows, D, base, P, h, p, t) ==
    /\ t \in HubStates(D, base, P) /\ Extends(h.base, t.base)
    /\ Outcome(rows, t.base, p) # "ok"
    /\ Outcome(rows, h.base, p) # "ok" =>
          t.base = h.base /\ t.results[Len(t.results)].status # "ok"
    /\ Len(t.results) = Len(h.results) + 1
    /\ \A k \in 1 .. Len(h.results) : t.results[k] = h.results[k]

\* One pair: no cycle, no delta lost, and the pair is not tried with success again.
LEMMA TryKeeps ==
    ASSUME NEW rows, NEW D, IsFiniteSet(D), 0 \notin D, NEW base \in Deltas(D), NEW P, PairsIn(D, P),
           NEW h \in HubStates(D, base, P), NEW p \in P
    PROVE  TryKept(rows, D, base, P, h, p, TryPair(rows, h, p))
<1>1. PICK b \in Deltas(D), results \in Seq([pair : P, status : Statuses]) :
        h = [base |-> b, results |-> results] /\ Acyclic(b) /\ Extends(base, b)
  BY DEF HubStates
<1>2. h.base = b /\ h.results = results
  BY <1>1
<1>3. p.target \in D /\ p.base \in D
  BY DEF PairsIn
<1>4. PICK o \in Statuses : o = Outcome(rows, b, p)
  BY Zenon DEF Outcome, Statuses
<1>5. PICK next : next = IF o = "ok" THEN [b EXCEPT ![p.target] = p.base] ELSE b
  OBVIOUS
<1>6. PICK list : list = Append(results, [pair |-> p, status |-> o])
  OBVIOUS
<1>7. TryPair(rows, h, p) = [base |-> next, results |-> list]
  BY <1>2, <1>4, <1>5, <1>6 DEF TryPair
<1>8. /\ list \in Seq([pair : P, status : Statuses]) /\ Len(list) = Len(results) + 1
      /\ \A k \in 1 .. Len(results) : list[k] = results[k]
      /\ list[Len(list)].status = o
  BY <1>6
<1>9. o = "ok" => /\ p.target # p.base /\ b[p.target] = 0 /\ ~ReachesTarget(b, p.base, p.target)
  BY <1>4, Zenon DEF Outcome
<1>10. next \in Deltas(D) /\ Acyclic(next) /\ Extends(b, next) /\ Extends(base, next)
  <2>1. CASE o # "ok"
    BY <1>1, <1>5, <2>1 DEF Extends
  <2>2. CASE o = "ok"
    <3>1. next = [b EXCEPT ![p.target] = p.base]
      BY <1>5, <2>2
    <3>2. Acyclic(next)
      BY <1>1, <1>3, <1>9, <2>2, <3>1, OneMoreDelta
    <3>3. next \in Deltas(D)
      BY <1>3, <3>1 DEF Deltas
    <3>4. Extends(b, next)
      BY <1>3, <1>9, <2>2, <3>1 DEF Extends, Deltas
    <3>5. Extends(base, next)
      <4> SUFFICES ASSUME NEW t \in DOMAIN base, base[t] # 0 PROVE next[t] = base[t]
        BY DEF Extends
      <4>1. b[t] = base[t] /\ t \in DOMAIN b
        BY <1>1 DEF Extends, Deltas
      <4> QED BY <3>4, <4>1 DEF Extends
    <3> QED BY <3>2, <3>3, <3>4, <3>5
  <2> QED BY <2>1, <2>2
<1>11. Outcome(rows, next, p) # "ok"
  <2>1. CASE o # "ok"
    BY <1>4, <1>5, <2>1
  <2>2. CASE o = "ok"
    <3>1. next[p.target] # 0
      BY <1>3, <1>5, <2>2 DEF Deltas
    <3> QED BY <3>1, Zenon DEF Outcome
  <2> QED BY <2>1, <2>2
<1>12. [base |-> next, results |-> list] \in HubStates(D, base, P)
  BY <1>8, <1>10 DEF HubStates
<1> QED BY <1>2, <1>4, <1>5, <1>7, <1>8, <1>10, <1>11, <1>12 DEF TryKept

\* A delta is kept through any number of batches.
LEMMA ExtendsOn ==
    ASSUME NEW D, NEW a \in Deltas(D), NEW b \in Deltas(D), NEW c, Extends(a, b), Extends(b, c)
    PROVE  Extends(a, c)
BY DEF Extends, Deltas

\* A batch of pairs leaves each of them refused.
LEMMA PairsSettle ==
    ASSUME NEW rows, NEW D, IsFiniteSet(D), 0 \notin D, NEW base \in Deltas(D), NEW P, PairsIn(D, P),
           NEW h \in HubStates(D, base, P), NEW pairs \in Seq(P)
    PROVE  LET r == RunPairs(rows, h, pairs)
           IN /\ r \in HubStates(D, base, P) /\ Extends(h.base, r.base)
              /\ \A k \in DOMAIN pairs : Outcome(rows, r.base, pairs[k]) # "ok"
<1>1. PICK b \in Deltas(D) : b = h.base
  BY DEF HubStates
<1>2. PICK S : S = HubStates(D, b, P)
  OBVIOUS
<1>3. h \in S
  BY <1>1, <1>2 DEF HubStates, Extends
<1>4. TriesStay(rows, S, P)
  <2>1. ASSUME NEW v \in S, NEW p \in P PROVE TryPair(rows, v, p) \in S
    BY <1>2, TryKeeps DEF TryKept
  <2> QED BY <2>1 DEF TriesStay
<1>5. PICK n \in Nat : n = Len(pairs) /\ DOMAIN pairs = 1 .. n /\ \A k \in 1 .. n : pairs[k] \in P
  OBVIOUS
<1>6. PICK f \in [0 .. n -> S] :
        /\ f[0] = h /\ RunPairs(rows, h, pairs) = f[n]
        /\ \A k \in 1 .. n : f[k] = TryPair(rows, f[k - 1], pairs[k])
  <2>1. pairs \in Seq(P)
    OBVIOUS
  <2>2. PICK f : IsTries(f, rows, S, h, pairs)
    BY <1>3, <1>4, <2>1, PairsRun
  <2> QED BY <1>5, <2>2 DEF IsTries
<1> DEFINE T == {k \in 0 .. n : \A j \in 1 .. k : Outcome(rows, f[k].base, pairs[j]) # "ok"}
<1>7. 0 \in T
  OBVIOUS
<1>8. ASSUME NEW k \in 0 .. n - 1, k \in T PROVE k + 1 \in T
  <2>1. PICK l \in 1 .. n : l = k + 1 /\ l - 1 = k
    OBVIOUS
  <2>2. f[k] \in HubStates(D, b, P) /\ f[l] \in HubStates(D, b, P) /\ pairs[l] \in P
    BY <1>2, <1>5, <2>1
  <2>3. f[l] = TryPair(rows, f[k], pairs[l])
    BY <1>6, <2>1
  <2>4. Extends(f[k].base, f[l].base) /\ Outcome(rows, f[l].base, pairs[l]) # "ok"
    <3>1. TryKept(rows, D, b, P, f[k], pairs[l], f[l])
      BY <2>2, <2>3, TryKeeps
    <3> QED BY <3>1 DEF TryKept
  <2>5. ASSUME NEW j \in 1 .. k PROVE Outcome(rows, f[l].base, pairs[j]) # "ok"
    <3>1. Outcome(rows, f[k].base, pairs[j]) # "ok" /\ j \in 1 .. n
      BY <1>8, <2>5
    <3>2. pairs[j].target \in D /\ pairs[j].base \in D
      BY <1>5, <3>1 DEF PairsIn
    <3>3. f[k].base \in Deltas(D) /\ f[l].base \in Deltas(D)
      BY <2>2 DEF HubStates
    <3> QED BY <2>4, <3>1, <3>2, <3>3, StaysRefused
  <2>6. \A j \in 1 .. l : j = l \/ j \in 1 .. k
    BY <2>1
  <2>7. l \in T
    BY <2>1, <2>4, <2>5, <2>6
  <2> QED BY <2>1, <2>7
<1>9. n \in T
  <2>1. 0 .. n \subseteq T
    <3> HIDE DEF T
    <3> QED BY <1>7, <1>8, InductionUpTo
  <2> QED BY <2>1
<1>10. PICK r : r = f[n] /\ r \in HubStates(D, b, P)
  BY <1>2
<1>11. r \in HubStates(D, base, P) /\ Extends(b, r.base)
  <2>1. Extends(base, b)
    BY <1>1 DEF HubStates
  <2>2. r.base \in Deltas(D) /\ Extends(b, r.base)
    BY <1>10 DEF HubStates
  <2>3. Extends(base, r.base)
    BY <2>1, <2>2, ExtendsOn
  <2> QED BY <1>10, <2>2, <2>3 DEF HubStates
<1> QED BY <1>1, <1>5, <1>6, <1>9, <1>10, <1>11

NoneOk(h) == \A k \in 1 .. Len(h.results) : h.results[k].status # "ok"

\* Pairs that are refused already change nothing.
LEMMA PairsRefused ==
    ASSUME NEW rows, NEW D, IsFiniteSet(D), 0 \notin D, NEW base \in Deltas(D), NEW P, PairsIn(D, P),
           NEW h \in HubStates(D, base, P), NoneOk(h), NEW pairs \in Seq(P),
           \A k \in DOMAIN pairs : Outcome(rows, h.base, pairs[k]) # "ok"
    PROVE  LET r == RunPairs(rows, h, pairs)
           IN r \in HubStates(D, base, P) /\ r.base = h.base /\ NoneOk(r)
<1>1. PICK S, E : /\ S = {v \in HubStates(D, base, P) : v.base = h.base /\ NoneOk(v)}
                  /\ E = {p \in P : Outcome(rows, h.base, p) # "ok"}
  OBVIOUS
<1>2. h \in S /\ pairs \in Seq(E)
  BY <1>1
<1>3. ASSUME NEW v \in S, NEW p \in E PROVE TryPair(rows, v, p) \in S
  <2>1. v \in HubStates(D, base, P) /\ p \in P /\ v.base = h.base /\ NoneOk(v) /\ Outcome(rows, v.base, p) # "ok"
    BY <1>1
  <2>2. PICK t : t = TryPair(rows, v, p)
    OBVIOUS
  <2>3. /\ t \in HubStates(D, base, P) /\ t.base = v.base
        /\ t.results[Len(t.results)].status # "ok" /\ Len(t.results) = Len(v.results) + 1
        /\ \A k \in 1 .. Len(v.results) : t.results[k] = v.results[k]
    <3>1. TryKept(rows, D, base, P, v, p, t)
      BY <2>1, <2>2, TryKeeps
    <3> QED BY <2>1, <3>1 DEF TryKept
  <2>4. Len(v.results) \in Nat
    BY <2>1 DEF HubStates
  <2>5. NoneOk(t)
    <3> SUFFICES ASSUME NEW k \in 1 .. Len(t.results) PROVE t.results[k].status # "ok"
      BY DEF NoneOk
    <3>1. k = Len(t.results) \/ k \in 1 .. Len(v.results)
      BY <2>3, <2>4
    <3>2. k \in 1 .. Len(v.results) => t.results[k] = v.results[k] /\ v.results[k].status # "ok"
      BY <2>1, <2>3 DEF NoneOk
    <3> QED BY <2>3, <3>1, <3>2
  <2> QED BY <1>1, <2>1, <2>2, <2>3, <2>5
<1>4. PICK f \in [0 .. Len(pairs) -> S] : RunPairs(rows, h, pairs) = f[Len(pairs)]
  <2>1. TriesStay(rows, S, E)
    BY <1>3 DEF TriesStay
  <2>2. PICK f : IsTries(f, rows, S, h, pairs)
    BY <1>2, <2>1, PairsRun
  <2> QED BY <2>2 DEF IsTries
<1>5. f[Len(pairs)] \in S
  <2>1. Len(pairs) \in 0 .. Len(pairs)
    BY <1>2
  <2> QED BY <2>1
<1> QED BY <1>1, <1>4, <1>5

-----------------------------------------------------------------------------
(* What the planners yield: pairs of tensors of the catalogue. *)

\* What a planner is told of tensors of D.
Told(D, E) == \A e \in E : e.id \in D /\ e.fp \in Int /\ e.bits \in Int

PairsOn(D) == [target : D, base : D, cr : Int]
PlansOn(D, E) == [bases : Seq(D), opened : Seq(E), pairs : Seq(PairsOn(D)), skipped : Seq(D)]

\* A distance is a number, and so is the ratio predicted from it.
LEMMA DistanceIs ==
    ASSUME NEW f \in Int, NEW g \in Int, NEW bits \in Int
    PROVE  Distance(f, g, bits) \in Nat
<1>1. PICK a \in Int : a = f - g
  OBVIOUS
<1>2. PICK x \in Nat : x = a * a
  <2>1. a * a \in Int /\ a * a >= 0
    <3>1. CASE a >= 0
      BY <3>1
    <3>2. CASE a < 0
      <4>1. PICK m \in Nat : a = 0 - m
        BY <3>2
      <4>2. a * a = m * m
        BY <4>1
      <4> QED BY <4>1, <4>2
    <3> QED BY <3>1, <3>2
  <2> QED BY <2>1
<1>3. PICK y \in Nat : y = (IF bits > 1 THEN bits ELSE 1) /\ y > 0
  OBVIOUS
<1>4. x \div y \in Nat
  BY <1>3
<1> QED BY <1>1, <1>2, <1>3, <1>4 DEF Distance

\* So is a ratio that is predicted.
LEMMA PredictIs ==
    ASSUME NEW d \in Nat
    PROVE  Predict(d) \in Nat
BY PlannerConstants DEF Predict

\* There is a first least position.
LEMMA ArgMinIs ==
    ASSUME NEW S, S \subseteq Nat, S # {}, NEW f \in [S -> Nat]
    PROVE  ArgMin(f) \in S /\ \A j \in S : f[ArgMin(f)] <= f[j]
<1> DEFINE V == {f[i] : i \in S}
<1>1. PICK v \in V : \A w \in V : v <= w
  <2>1. V \subseteq Nat /\ V # {}
    OBVIOUS
  <2> HIDE DEF V
  <2> QED BY <2>1, LeastNumber
<1> DEFINE W == {i \in S : f[i] = v}
<1>2. PICK i \in W : \A j \in W : i <= j
  <2>1. W \subseteq Nat /\ W # {}
    OBVIOUS
  <2> HIDE DEF W
  <2> QED BY <2>1, LeastNumber
<1>3. i \in S /\ \A j \in S : f[i] <= f[j] /\ (f[i] = f[j] => i <= j)
  BY <1>1, <1>2
<1>4. \E k \in DOMAIN f : \A j \in DOMAIN f : f[k] <= f[j] /\ (f[k] = f[j] => k <= j)
  BY <1>3
<1>5. ArgMin(f) \in DOMAIN f /\ \A j \in DOMAIN f : f[ArgMin(f)] <= f[j]
  BY <1>4, Zenon DEF ArgMin
<1> QED BY <1>5

\* Attaching keeps a plan a plan.
LEMMA AttachIs ==
    ASSUME NEW D, NEW E, Told(D, E), NEW plan \in PlansOn(D, E), NEW candidates \in Seq(E), NEW e \in E
    PROVE  AttachTo(plan, candidates, e) \in PlansOn(D, E)
<1>1. plan.bases \in Seq(D) /\ plan.opened \in Seq(E) /\ plan.pairs \in Seq(PairsOn(D)) /\ plan.skipped \in Seq(D)
  BY DEF PlansOn
<1>2. e.id \in D /\ e.fp \in Int /\ e.bits \in Int
  BY DEF Told
<1>3. OpenBase(plan, e) \in PlansOn(D, E)
  <2>1. PICK bs \in Seq(D) : bs = Append(plan.bases, e.id)
    <3>1. Append(plan.bases, e.id) \in Seq(D)
      BY <1>1, <1>2
    <3> QED BY <3>1
  <2>2. PICK op \in Seq(E) : op = IF e.fp = NoFp THEN plan.opened ELSE Append(plan.opened, e)
    <3>1. Append(plan.opened, e) \in Seq(E)
      BY <1>1
    <3> QED BY <1>1, <3>1
  <2>3. PICK sk \in Seq(D) : sk = IF e.fp = NoFp THEN Append(plan.skipped, e.id) ELSE plan.skipped
    <3>1. Append(plan.skipped, e.id) \in Seq(D)
      BY <1>1, <1>2
    <3> QED BY <1>1, <3>1
  <2>4. OpenBase(plan, e) = [plan EXCEPT !.bases = bs, !.opened = op, !.skipped = sk]
    BY <2>1, <2>2, <2>3 DEF OpenBase, PlansOn
  <2> QED BY <2>4 DEF PlansOn
<1>4. CASE e.fp = NoFp \/ candidates = <<>>
  BY <1>3, <1>4 DEF AttachTo
<1>5. CASE ~(e.fp = NoFp \/ candidates = <<>>)
  <2>1. PICK n \in Nat : n = Len(candidates) /\ DOMAIN candidates = 1 .. n /\ n > 0
    BY <1>5
  <2>2. PICK dist : dist = [i \in DOMAIN candidates |-> Distance(e.fp, candidates[i].fp, e.bits)]
    OBVIOUS
  <2>3. ASSUME NEW i \in 1 .. n PROVE Distance(e.fp, candidates[i].fp, e.bits) \in Nat
    <3>1. candidates[i] \in E
      BY <2>1
    <3>2. candidates[i].fp \in Int
      BY <3>1 DEF Told
    <3> QED BY <1>2, <3>2, DistanceIs
  <2>4. dist \in [1 .. n -> Nat]
    BY <2>1, <2>2, <2>3
  <2>5. PICK best \in 1 .. n : best = ArgMin(dist)
    <3>1. 1 .. n \subseteq Nat /\ 1 \in 1 .. n
      BY <2>1
    <3> QED BY <2>4, <3>1, ArgMinIs
  <2>6. PICK cr \in Nat : cr = Predict(dist[best])
    BY <2>4, PredictIs
  <2>7. candidates[best].id \in D
    <3>1. candidates[best] \in E
      BY <2>1
    <3> QED BY <3>1 DEF Told
  <2>8. PICK pair : pair = [target |-> e.id, base |-> candidates[best].id, cr |-> cr]
    OBVIOUS
  <2>9. PICK ps \in Seq(PairsOn(D)) : ps = Append(plan.pairs, pair)
    <3>1. pair \in PairsOn(D)
      BY <1>2, <2>7, <2>8 DEF PairsOn
    <3>2. Append(plan.pairs, pair) \in Seq(PairsOn(D))
      BY <1>1, <3>1
    <3> QED BY <3>2
  <2>10. AttachTo(plan, candidates, e) =
           IF cr <= Threshold THEN [plan EXCEPT !.pairs = ps] ELSE OpenBase(plan, e)
    BY <1>5, <2>2, <2>5, <2>6, <2>8, <2>9 DEF AttachTo
  <2>11. [plan EXCEPT !.pairs = ps] \in PlansOn(D, E)
    BY DEF PlansOn
  <2> QED BY <1>3, <2>10, <2>11
<1> QED BY <1>4, <1>5

PlacesOf(list) == [i \in DOMAIN list |-> i]
ChooseStep(list, P, r, i) == IF i \in P THEN Append(r, list[i]) ELSE r
KeyStep(seen, e) == IF e.key \in Range(seen) THEN seen ELSE Append(seen, e.key)

AttachStays(S, E) ==
    \A v \in S : \A e \in E : AttachStep(v, e) \in S

\* The plan of a group is one of those that attaching leads to.
LEMMA GroupRun ==
    ASSUME NEW S, NoPlan \in S, NEW E, NEW entries \in Seq(E),
           AttachStays(S, E)
    PROVE  AttachGroup(entries) \in S
<1>0. \A v \in S : \A e \in E : AttachStep(v, e) \in S
  BY DEF AttachStays
<1>1. PICK n \in Nat : /\ n = Len(entries) /\ DOMAIN entries = 1 .. n
                      /\ \A k \in 1 .. n : entries[k] \in E
  OBVIOUS
<1> DEFINE h == [k \in 1 .. n |-> [v \in S |-> AttachStep(v, entries[k])]]
           Fold(it) == it = [s \in SUBSET (1 .. n) |->
                               IF s = {} THEN NoPlan
                               ELSE AttachStep(it[s \ {Max(s)}], entries[Max(s)])]
           iter == CHOOSE it : Fold(it)
<1>2. AttachGroup(entries) = iter[1 .. n]
  BY <1>1, Zenon DEF AttachGroup, FoldLeft, MapThenFoldSet
<1>3. h \in [1 .. n -> [S -> S]]
  BY <1>0, <1>1
<1>4. Fold(iter)
  <2>1. PICK it \in [SUBSET (1 .. n) -> S] : IsFold(it, NoPlan, n, h)
    <3> HIDE DEF h
    <3> QED BY <1>3, FoldExists
  <2>2. ASSUME NEW s \in SUBSET (1 .. n), s # {}
        PROVE  h[Max(s)][it[s \ {Max(s)}]] = AttachStep(it[s \ {Max(s)}], entries[Max(s)])
    <3>1. Max(s) \in 1 .. n /\ it[s \ {Max(s)}] \in S
      BY <2>2, LargestOf
    <3> QED BY <3>1
  <2> HIDE DEF h
  <2>3. Fold(it)
    BY <2>1, <2>2 DEF IsFold
  <2> HIDE DEF Fold
  <2> QED BY <2>3, Zenon
<1>5. Follows(iter, S, NoPlan, n, h)
  <2>1. iter[{}] = NoPlan
    BY <1>4
  <2>2. ASSUME NEW k \in 1 .. n, iter[1 .. (k - 1)] \in S
        PROVE  iter[1 .. k] = h[k][iter[1 .. (k - 1)]]
    <3>1. 1 .. k \in SUBSET (1 .. n) /\ 1 .. k # {} /\ Max(1 .. k) = k /\ (1 .. k) \ {k} = 1 .. (k - 1)
      BY PrefixOf
    <3>2. iter[1 .. k] = AttachStep(iter[1 .. (k - 1)], entries[k])
      <4> HIDE DEF iter
      <4> QED BY <1>4, <3>1
    <3> HIDE DEF iter
    <3> QED BY <2>2, <3>2
  <2> HIDE DEF iter, h
  <2> QED BY <2>1, <2>2 DEF Follows
<1> HIDE DEF iter, h, Fold
<1>6. PICK f : RunsTo(f, S, NoPlan, n, h, iter[1 .. n])
  <2>1. NoPlan \in S /\ n \in Nat
    OBVIOUS
  <2> QED BY <1>3, <1>5, <2>1, FoldRuns
<1> QED BY <1>2, <1>6 DEF RunsTo

KeysStay(S, E) ==
    \A v \in S : \A e \in E : KeyStep(v, e) \in S

\* So are the keys of the entries.
LEMMA KeysRun ==
    ASSUME NEW S, <<>> \in S, NEW E, NEW entries \in Seq(E),
           KeysStay(S, E)
    PROVE  Keys(entries) \in S
<1>0. \A v \in S : \A e \in E : KeyStep(v, e) \in S
  BY DEF KeysStay
<1>1. PICK n \in Nat : /\ n = Len(entries) /\ DOMAIN entries = 1 .. n
                      /\ \A k \in 1 .. n : entries[k] \in E
  OBVIOUS
<1> DEFINE h == [k \in 1 .. n |-> [v \in S |-> KeyStep(v, entries[k])]]
           Fold(it) == it = [s \in SUBSET (1 .. n) |->
                               IF s = {} THEN <<>>
                               ELSE KeyStep(it[s \ {Max(s)}], entries[Max(s)])]
           iter == CHOOSE it : Fold(it)
<1>2. Keys(entries) = iter[1 .. n]
  BY <1>1, Zenon DEF Keys, KeyStep, FoldLeft, MapThenFoldSet
<1>3. h \in [1 .. n -> [S -> S]]
  BY <1>0, <1>1
<1>4. Fold(iter)
  <2>1. PICK it \in [SUBSET (1 .. n) -> S] : IsFold(it, <<>>, n, h)
    <3> HIDE DEF h
    <3> QED BY <1>3, FoldExists
  <2>2. ASSUME NEW s \in SUBSET (1 .. n), s # {}
        PROVE  h[Max(s)][it[s \ {Max(s)}]] = KeyStep(it[s \ {Max(s)}], entries[Max(s)])
    <3>1. Max(s) \in 1 .. n /\ it[s \ {Max(s)}] \in S
      BY <2>2, LargestOf
    <3> QED BY <3>1
  <2> HIDE DEF h
  <2>3. Fold(it)
    BY <2>1, <2>2 DEF IsFold
  <2> HIDE DEF Fold
  <2> QED BY <2>3, Zenon
<1>5. Follows(iter, S, <<>>, n, h)
  <2>1. iter[{}] = <<>>
    BY <1>4
  <2>2. ASSUME NEW k \in 1 .. n, iter[1 .. (k - 1)] \in S
        PROVE  iter[1 .. k] = h[k][iter[1 .. (k - 1)]]
    <3>1. 1 .. k \in SUBSET (1 .. n) /\ 1 .. k # {} /\ Max(1 .. k) = k /\ (1 .. k) \ {k} = 1 .. (k - 1)
      BY PrefixOf
    <3>2. iter[1 .. k] = KeyStep(iter[1 .. (k - 1)], entries[k])
      <4> HIDE DEF iter
      <4> QED BY <1>4, <3>1
    <3> HIDE DEF iter
    <3> QED BY <2>2, <3>2
  <2> HIDE DEF iter, h
  <2> QED BY <2>1, <2>2 DEF Follows
<1> HIDE DEF iter, h, Fold
<1>6. PICK f : RunsTo(f, S, <<>>, n, h, iter[1 .. n])
  <2>1. <<>> \in S /\ n \in Nat
    OBVIOUS
  <2> QED BY <1>3, <1>5, <2>1, FoldRuns
<1> QED BY <1>2, <1>6 DEF RunsTo

ChoiceStays(list, P, S, E) ==
    \A v \in S : \A e \in E : ChooseStep(list, P, v, e) \in S

\* So are the elements of a list that are chosen.
LEMMA ChosenRun ==
    ASSUME NEW T, NEW P, NEW list \in Seq(T), NEW S, <<>> \in S, NEW E, PlacesOf(list) \in Seq(E),
           ChoiceStays(list, P, S, E)
    PROVE  Chosen(list, P) \in S
<1>0. \A v \in S : \A e \in E : ChooseStep(list, P, v, e) \in S
  BY DEF ChoiceStays
<1>1. PICK n \in Nat : /\ n = Len(PlacesOf(list)) /\ DOMAIN PlacesOf(list) = 1 .. n
                      /\ \A k \in 1 .. n : PlacesOf(list)[k] \in E
  OBVIOUS
<1> DEFINE h == [k \in 1 .. n |-> [v \in S |-> ChooseStep(list, P, v, PlacesOf(list)[k])]]
           Fold(it) == it = [s \in SUBSET (1 .. n) |->
                               IF s = {} THEN <<>>
                               ELSE ChooseStep(list, P, it[s \ {Max(s)}], PlacesOf(list)[Max(s)])]
           iter == CHOOSE it : Fold(it)
<1>2. Chosen(list, P) = iter[1 .. n]
  BY <1>1, Zenon DEF Chosen, ChooseStep, PlacesOf, FoldLeft, MapThenFoldSet
<1>3. h \in [1 .. n -> [S -> S]]
  BY <1>0, <1>1
<1>4. Fold(iter)
  <2>1. PICK it \in [SUBSET (1 .. n) -> S] : IsFold(it, <<>>, n, h)
    <3> HIDE DEF h
    <3> QED BY <1>3, FoldExists
  <2>2. ASSUME NEW s \in SUBSET (1 .. n), s # {}
        PROVE  h[Max(s)][it[s \ {Max(s)}]] = ChooseStep(list, P, it[s \ {Max(s)}], PlacesOf(list)[Max(s)])
    <3>1. Max(s) \in 1 .. n /\ it[s \ {Max(s)}] \in S
      BY <2>2, LargestOf
    <3> QED BY <3>1
  <2> HIDE DEF h
  <2>3. Fold(it)
    BY <2>1, <2>2 DEF IsFold
  <2> HIDE DEF Fold
  <2> QED BY <2>3, Zenon
<1>5. Follows(iter, S, <<>>, n, h)
  <2>1. iter[{}] = <<>>
    BY <1>4
  <2>2. ASSUME NEW k \in 1 .. n, iter[1 .. (k - 1)] \in S
        PROVE  iter[1 .. k] = h[k][iter[1 .. (k - 1)]]
    <3>1. 1 .. k \in SUBSET (1 .. n) /\ 1 .. k # {} /\ Max(1 .. k) = k /\ (1 .. k) \ {k} = 1 .. (k - 1)
      BY PrefixOf
    <3>2. iter[1 .. k] = ChooseStep(list, P, iter[1 .. (k - 1)], PlacesOf(list)[k])
      <4> HIDE DEF iter
      <4> QED BY <1>4, <3>1
    <3> HIDE DEF iter
    <3> QED BY <2>2, <3>2
  <2> HIDE DEF iter, h
  <2> QED BY <2>1, <2>2 DEF Follows
<1> HIDE DEF iter, h, Fold
<1>6. PICK f : RunsTo(f, S, <<>>, n, h, iter[1 .. n])
  <2>1. <<>> \in S /\ n \in Nat
    OBVIOUS
  <2> QED BY <1>3, <1>5, <2>1, FoldRuns
<1> QED BY <1>2, <1>6 DEF RunsTo

JoinStays(S, E) ==
    \A v \in S : \A e \in E : Both(v, e) \in S

\* So is what several plans make.
LEMMA JoinRun ==
    ASSUME NEW S, NoPlan \in S, NEW E, NEW plans \in Seq(E),
           JoinStays(S, E)
    PROVE  Join(plans) \in S
<1>0. \A v \in S : \A e \in E : Both(v, e) \in S
  BY DEF JoinStays
<1>1. PICK n \in Nat : /\ n = Len(plans) /\ DOMAIN plans = 1 .. n
                      /\ \A k \in 1 .. n : plans[k] \in E
  OBVIOUS
<1> DEFINE h == [k \in 1 .. n |-> [v \in S |-> Both(v, plans[k])]]
           Fold(it) == it = [s \in SUBSET (1 .. n) |->
                               IF s = {} THEN NoPlan
                               ELSE Both(it[s \ {Max(s)}], plans[Max(s)])]
           iter == CHOOSE it : Fold(it)
<1>2. Join(plans) = iter[1 .. n]
  BY <1>1, Zenon DEF Join, FoldLeft, MapThenFoldSet
<1>3. h \in [1 .. n -> [S -> S]]
  BY <1>0, <1>1
<1>4. Fold(iter)
  <2>1. PICK it \in [SUBSET (1 .. n) -> S] : IsFold(it, NoPlan, n, h)
    <3> HIDE DEF h
    <3> QED BY <1>3, FoldExists
  <2>2. ASSUME NEW s \in SUBSET (1 .. n), s # {}
        PROVE  h[Max(s)][it[s \ {Max(s)}]] = Both(it[s \ {Max(s)}], plans[Max(s)])
    <3>1. Max(s) \in 1 .. n /\ it[s \ {Max(s)}] \in S
      BY <2>2, LargestOf
    <3> QED BY <3>1
  <2> HIDE DEF h
  <2>3. Fold(it)
    BY <2>1, <2>2 DEF IsFold
  <2> HIDE DEF Fold
  <2> QED BY <2>3, Zenon
<1>5. Follows(iter, S, NoPlan, n, h)
  <2>1. iter[{}] = NoPlan
    BY <1>4
  <2>2. ASSUME NEW k \in 1 .. n, iter[1 .. (k - 1)] \in S
        PROVE  iter[1 .. k] = h[k][iter[1 .. (k - 1)]]
    <3>1. 1 .. k \in SUBSET (1 .. n) /\ 1 .. k # {} /\ Max(1 .. k) = k /\ (1 .. k) \ {k} = 1 .. (k - 1)
      BY PrefixOf
    <3>2. iter[1 .. k] = Both(iter[1 .. (k - 1)], plans[k])
      <4> HIDE DEF iter
      <4> QED BY <1>4, <3>1
    <3> HIDE DEF iter
    <3> QED BY <2>2, <3>2
  <2> HIDE DEF iter, h
  <2> QED BY <2>1, <2>2 DEF Follows
<1> HIDE DEF iter, h, Fold
<1>6. PICK f : RunsTo(f, S, NoPlan, n, h, iter[1 .. n])
  <2>1. NoPlan \in S /\ n \in Nat
    OBVIOUS
  <2> QED BY <1>3, <1>5, <2>1, FoldRuns
<1> QED BY <1>2, <1>6 DEF RunsTo

EntriesStay(rows, byParam, series, S, E) ==
    \A v \in S : \A e \in E : AddEntry(rows, v, byParam, series, e) \in S

\* So are the entries of a model.
LEMMA EntriesRun ==
    ASSUME NEW rows, NEW byParam, NEW series, NEW S, NEW list \in S, NEW E, NEW model \in Seq(E),
           EntriesStay(rows, byParam, series, S, E)
    PROVE  ModelEntries(rows, list, model, byParam, series) \in S
<1>0. \A v \in S : \A e \in E : AddEntry(rows, v, byParam, series, e) \in S
  BY DEF EntriesStay
<1>1. PICK n \in Nat : /\ n = Len(model) /\ DOMAIN model = 1 .. n
                      /\ \A k \in 1 .. n : model[k] \in E
  OBVIOUS
<1> DEFINE h == [k \in 1 .. n |-> [v \in S |-> AddEntry(rows, v, byParam, series, model[k])]]
           Fold(it) == it = [s \in SUBSET (1 .. n) |->
                               IF s = {} THEN list
                               ELSE AddEntry(rows, it[s \ {Max(s)}], byParam, series, model[Max(s)])]
           iter == CHOOSE it : Fold(it)
<1>2. ModelEntries(rows, list, model, byParam, series) = iter[1 .. n]
  BY <1>1, Zenon DEF ModelEntries, FoldLeft, MapThenFoldSet
<1>3. h \in [1 .. n -> [S -> S]]
  BY <1>0, <1>1
<1>4. Fold(iter)
  <2>1. PICK it \in [SUBSET (1 .. n) -> S] : IsFold(it, list, n, h)
    <3> HIDE DEF h
    <3> QED BY <1>3, FoldExists
  <2>2. ASSUME NEW s \in SUBSET (1 .. n), s # {}
        PROVE  h[Max(s)][it[s \ {Max(s)}]] = AddEntry(rows, it[s \ {Max(s)}], byParam, series, model[Max(s)])
    <3>1. Max(s) \in 1 .. n /\ it[s \ {Max(s)}] \in S
      BY <2>2, LargestOf
    <3> QED BY <3>1
  <2> HIDE DEF h
  <2>3. Fold(it)
    BY <2>1, <2>2 DEF IsFold
  <2> HIDE DEF Fold
  <2> QED BY <2>3, Zenon
<1>5. Follows(iter, S, list, n, h)
  <2>1. iter[{}] = list
    BY <1>4
  <2>2. ASSUME NEW k \in 1 .. n, iter[1 .. (k - 1)] \in S
        PROVE  iter[1 .. k] = h[k][iter[1 .. (k - 1)]]
    <3>1. 1 .. k \in SUBSET (1 .. n) /\ 1 .. k # {} /\ Max(1 .. k) = k /\ (1 .. k) \ {k} = 1 .. (k - 1)
      BY PrefixOf
    <3>2. iter[1 .. k] = AddEntry(rows, iter[1 .. (k - 1)], byParam, series, model[k])
      <4> HIDE DEF iter
      <4> QED BY <1>4, <3>1
    <3> HIDE DEF iter
    <3> QED BY <2>2, <3>2
  <2> HIDE DEF iter, h
  <2> QED BY <2>1, <2>2 DEF Follows
<1> HIDE DEF iter, h, Fold
<1>6. PICK f : RunsTo(f, S, list, n, h, iter[1 .. n])
  <2>1. list \in S /\ n \in Nat
    OBVIOUS
  <2> QED BY <1>3, <1>5, <2>1, FoldRuns
<1> QED BY <1>2, <1>6 DEF RunsTo

BundleStays(rows, byParam, series, S, E) ==
    \A v \in S : \A e \in E : ModelEntries(rows, v, e, byParam, series) \in S

\* And those of a bundle.
LEMMA BundleRun ==
    ASSUME NEW rows, NEW byParam, NEW series, NEW S, <<>> \in S, NEW E, NEW models \in Seq(E),
           BundleStays(rows, byParam, series, S, E)
    PROVE  BundleEntries(rows, models, byParam, series) \in S
<1>0. \A v \in S : \A e \in E : ModelEntries(rows, v, e, byParam, series) \in S
  BY DEF BundleStays
<1>1. PICK n \in Nat : /\ n = Len(models) /\ DOMAIN models = 1 .. n
                      /\ \A k \in 1 .. n : models[k] \in E
  OBVIOUS
<1> DEFINE h == [k \in 1 .. n |-> [v \in S |-> ModelEntries(rows, v, models[k], byParam, series)]]
           Fold(it) == it = [s \in SUBSET (1 .. n) |->
                               IF s = {} THEN <<>>
                               ELSE ModelEntries(rows, it[s \ {Max(s)}], models[Max(s)], byParam, series)]
           iter == CHOOSE it : Fold(it)
<1>2. BundleEntries(rows, models, byParam, series) = iter[1 .. n]
  BY <1>1, Zenon DEF BundleEntries, FoldLeft, MapThenFoldSet
<1>3. h \in [1 .. n -> [S -> S]]
  BY <1>0, <1>1
<1>4. Fold(iter)
  <2>1. PICK it \in [SUBSET (1 .. n) -> S] : IsFold(it, <<>>, n, h)
    <3> HIDE DEF h
    <3> QED BY <1>3, FoldExists
  <2>2. ASSUME NEW s \in SUBSET (1 .. n), s # {}
        PROVE  h[Max(s)][it[s \ {Max(s)}]] = ModelEntries(rows, it[s \ {Max(s)}], models[Max(s)], byParam, series)
    <3>1. Max(s) \in 1 .. n /\ it[s \ {Max(s)}] \in S
      BY <2>2, LargestOf
    <3> QED BY <3>1
  <2> HIDE DEF h
  <2>3. Fold(it)
    BY <2>1, <2>2 DEF IsFold
  <2> HIDE DEF Fold
  <2> QED BY <2>3, Zenon
<1>5. Follows(iter, S, <<>>, n, h)
  <2>1. iter[{}] = <<>>
    BY <1>4
  <2>2. ASSUME NEW k \in 1 .. n, iter[1 .. (k - 1)] \in S
        PROVE  iter[1 .. k] = h[k][iter[1 .. (k - 1)]]
    <3>1. 1 .. k \in SUBSET (1 .. n) /\ 1 .. k # {} /\ Max(1 .. k) = k /\ (1 .. k) \ {k} = 1 .. (k - 1)
      BY PrefixOf
    <3>2. iter[1 .. k] = ModelEntries(rows, iter[1 .. (k - 1)], models[k], byParam, series)
      <4> HIDE DEF iter
      <4> QED BY <1>4, <3>1
    <3> HIDE DEF iter
    <3> QED BY <2>2, <3>2
  <2> HIDE DEF iter, h
  <2> QED BY <2>1, <2>2 DEF Follows
<1> HIDE DEF iter, h, Fold
<1>6. PICK f : RunsTo(f, S, <<>>, n, h, iter[1 .. n])
  <2>1. <<>> \in S /\ n \in Nat
    OBVIOUS
  <2> QED BY <1>3, <1>5, <2>1, FoldRuns
<1> QED BY <1>2, <1>6 DEF RunsTo

BestStays(R, members, base, S, E) ==
    \A v \in S : \A e \in E : BetterOpen(R, members, base, v, e) \in S

\* And the best member to open.
LEMMA BestRun ==
    ASSUME NEW R, NEW members, NEW base, NEW S, 0 \in S, NEW E, PlacesOf(R) \in Seq(E),
           BestStays(R, members, base, S, E)
    PROVE  BestOpen(R, members, base) \in S
<1>0. \A v \in S : \A e \in E : BetterOpen(R, members, base, v, e) \in S
  BY DEF BestStays
<1>1. PICK n \in Nat : /\ n = Len(PlacesOf(R)) /\ DOMAIN PlacesOf(R) = 1 .. n
                      /\ \A k \in 1 .. n : PlacesOf(R)[k] \in E
  OBVIOUS
<1> DEFINE h == [k \in 1 .. n |-> [v \in S |-> BetterOpen(R, members, base, v, PlacesOf(R)[k])]]
           Fold(it) == it = [s \in SUBSET (1 .. n) |->
                               IF s = {} THEN 0
                               ELSE BetterOpen(R, members, base, it[s \ {Max(s)}], PlacesOf(R)[Max(s)])]
           iter == CHOOSE it : Fold(it)
<1>2. BestOpen(R, members, base) = iter[1 .. n]
  BY <1>1, Zenon DEF BestOpen, PlacesOf, FoldLeft, MapThenFoldSet
<1>3. h \in [1 .. n -> [S -> S]]
  BY <1>0, <1>1
<1>4. Fold(iter)
  <2>1. PICK it \in [SUBSET (1 .. n) -> S] : IsFold(it, 0, n, h)
    <3> HIDE DEF h
    <3> QED BY <1>3, FoldExists
  <2>2. ASSUME NEW s \in SUBSET (1 .. n), s # {}
        PROVE  h[Max(s)][it[s \ {Max(s)}]] = BetterOpen(R, members, base, it[s \ {Max(s)}], PlacesOf(R)[Max(s)])
    <3>1. Max(s) \in 1 .. n /\ it[s \ {Max(s)}] \in S
      BY <2>2, LargestOf
    <3> QED BY <3>1
  <2> HIDE DEF h
  <2>3. Fold(it)
    BY <2>1, <2>2 DEF IsFold
  <2> HIDE DEF Fold
  <2> QED BY <2>3, Zenon
<1>5. Follows(iter, S, 0, n, h)
  <2>1. iter[{}] = 0
    BY <1>4
  <2>2. ASSUME NEW k \in 1 .. n, iter[1 .. (k - 1)] \in S
        PROVE  iter[1 .. k] = h[k][iter[1 .. (k - 1)]]
    <3>1. 1 .. k \in SUBSET (1 .. n) /\ 1 .. k # {} /\ Max(1 .. k) = k /\ (1 .. k) \ {k} = 1 .. (k - 1)
      BY PrefixOf
    <3>2. iter[1 .. k] = BetterOpen(R, members, base, iter[1 .. (k - 1)], PlacesOf(R)[k])
      <4> HIDE DEF iter
      <4> QED BY <1>4, <3>1
    <3> HIDE DEF iter
    <3> QED BY <2>2, <3>2
  <2> HIDE DEF iter, h
  <2> QED BY <2>1, <2>2 DEF Follows
<1> HIDE DEF iter, h, Fold
<1>6. PICK f : RunsTo(f, S, 0, n, h, iter[1 .. n])
  <2>1. 0 \in S /\ n \in Nat
    OBVIOUS
  <2> QED BY <1>3, <1>5, <2>1, FoldRuns
<1> QED BY <1>2, <1>6 DEF RunsTo

\* The plan of a group is a plan.
LEMMA GroupIs ==
    ASSUME NEW D, NEW E, Told(D, E), NEW entries \in Seq(E)
    PROVE  AttachGroup(entries) \in PlansOn(D, E)
<1>1. NoPlan \in PlansOn(D, E)
  BY DEF NoPlan, PlansOn
<1>2. AttachStays(PlansOn(D, E), E)
  <2>1. ASSUME NEW v \in PlansOn(D, E), NEW e \in E PROVE AttachStep(v, e) \in PlansOn(D, E)
    <3>1. v.opened \in Seq(E)
      BY DEF PlansOn
    <3> QED BY <3>1, AttachIs DEF AttachStep
  <2> QED BY <2>1 DEF AttachStays
<1>3. entries \in Seq(E)
  OBVIOUS
<1> QED BY <1>1, <1>2, <1>3, GroupRun

\* What is chosen from a list is a list of its elements.
LEMMA ChosenIs ==
    ASSUME NEW T, NEW list \in Seq(T), NEW P
    PROVE  Chosen(list, P) \in Seq(T)
<1>1. PICK n \in Nat : n = Len(list) /\ DOMAIN list = 1 .. n /\ \A i \in 1 .. n : list[i] \in T
  OBVIOUS
<1>2. PICK E : E = 1 .. n
  OBVIOUS
<1>3. PlacesOf(list) \in Seq(E)
  BY <1>1, <1>2 DEF PlacesOf
<1>4. ChoiceStays(list, P, Seq(T), E)
  <2>1. ASSUME NEW v \in Seq(T), NEW i \in E PROVE Append(v, list[i]) \in Seq(T)
    BY <1>1, <1>2
  <2> QED BY <2>1 DEF ChoiceStays, ChooseStep
<1>5. <<>> \in Seq(T)
  OBVIOUS
<1> QED BY <1>3, <1>4, <1>5, ChosenRun

\* The keys are keys.
LEMMA KeysIs ==
    ASSUME NEW E, NEW entries \in Seq(E)
    PROVE  Keys(entries) \in Seq({e.key : e \in E})
<1>1. PICK K : K = {e.key : e \in E}
  OBVIOUS
<1>2. KeysStay(Seq(K), E)
  <2>1. ASSUME NEW v \in Seq(K), NEW e \in E PROVE Append(v, e.key) \in Seq(K)
    <3>1. e.key \in K
      BY <1>1
    <3> QED BY <3>1
  <2> QED BY <2>1 DEF KeysStay, KeyStep
<1>3. <<>> \in Seq(K) /\ entries \in Seq(E)
  OBVIOUS
<1> QED BY <1>1, <1>2, <1>3, KeysRun

\* Plans joined are a plan.
LEMMA JoinIs ==
    ASSUME NEW D, NEW E, NEW plans \in Seq(PlansOn(D, E))
    PROVE  Join(plans) \in PlansOn(D, E)
<1>1. NoPlan \in PlansOn(D, E)
  BY DEF NoPlan, PlansOn
<1>2. JoinStays(PlansOn(D, E), PlansOn(D, E))
  <2>1. ASSUME NEW p \in PlansOn(D, E), NEW q \in PlansOn(D, E) PROVE Both(p, q) \in PlansOn(D, E)
    <3>1. /\ p.bases \in Seq(D) /\ p.opened \in Seq(E) /\ p.pairs \in Seq(PairsOn(D)) /\ p.skipped \in Seq(D)
          /\ q.bases \in Seq(D) /\ q.opened \in Seq(E) /\ q.pairs \in Seq(PairsOn(D)) /\ q.skipped \in Seq(D)
      BY DEF PlansOn
    <3>2. p.bases \o q.bases \in Seq(D) /\ p.skipped \o q.skipped \in Seq(D)
      BY <3>1
    <3>3. p.opened \o q.opened \in Seq(E)
      BY <3>1
    <3>4. p.pairs \o q.pairs \in Seq(PairsOn(D))
      BY <3>1
    <3> QED BY <3>2, <3>3, <3>4 DEF Both, PlansOn
  <2> QED BY <2>1 DEF JoinStays
<1>3. plans \in Seq(PlansOn(D, E))
  OBVIOUS
<1> QED BY <1>1, <1>2, <1>3, JoinRun

\* What plan_attach makes of its entries is a plan.
LEMMA AttachPlanIs ==
    ASSUME NEW D, NEW E, Told(D, E), NEW entries \in Seq(E)
    PROVE  PlanAttach(entries) \in PlansOn(D, E)
<1>1. PICK K : K = {e.key : e \in E}
  OBVIOUS
<1>2. PICK keys \in Seq(K) : keys = Keys(entries)
  BY <1>1, KeysIs
<1>3. PICK plans : plans = [k \in DOMAIN keys |-> AttachGroup(Group(entries, keys[k]))]
  OBVIOUS
<1>4. ASSUME NEW k PROVE AttachGroup(Group(entries, k)) \in PlansOn(D, E)
  <2>1. Group(entries, k) \in Seq(E)
    BY ChosenIs DEF Group
  <2> QED BY <2>1, GroupIs
<1>5. plans \in Seq(PlansOn(D, E))
  <2>1. PICK n \in Nat : DOMAIN keys = 1 .. n
    OBVIOUS
  <2>2. plans \in [1 .. n -> PlansOn(D, E)]
    BY <1>3, <1>4, <2>1
  <2> QED BY <2>2
<1>6. Join(plans) \in PlansOn(D, E)
  BY <1>5, JoinIs
<1> QED BY <1>2, <1>3, <1>6 DEF PlanAttach

\* The entries that items <<parameter, tensor>> of X give.
EntriesOf(rows, byParam, X) ==
    {Entry(m[2], BundleKey(rows, byParam, m[1], m[2]), rows[m[2]]) :
        m \in {x \in X : x[2] \in DOMAIN rows}}

RowsFit(rows) == \A t \in DOMAIN rows : rows[t].fp \in Int /\ rows[t].bits \in Int

\* They tell of tensors of the catalogue.
LEMMA EntriesTold ==
    ASSUME NEW rows, RowsFit(rows), NEW byParam, NEW X
    PROVE  Told(DOMAIN rows, EntriesOf(rows, byParam, X))
<1> SUFFICES ASSUME NEW e \in EntriesOf(rows, byParam, X)
             PROVE  e.id \in DOMAIN rows /\ e.fp \in Int /\ e.bits \in Int
  BY DEF Told
<1>1. PICK m \in X : /\ m[2] \in DOMAIN rows
                     /\ e = Entry(m[2], BundleKey(rows, byParam, m[1], m[2]), rows[m[2]])
  BY DEF EntriesOf
<1>2. e.id = m[2] /\ e.fp = rows[m[2]].fp /\ e.bits = rows[m[2]].bits
  BY <1>1 DEF Entry
<1> QED BY <1>1, <1>2 DEF RowsFit

\* Adding an item to the list.
LEMMA AddEntryIs ==
    ASSUME NEW rows, NEW byParam, NEW series, NEW X, NEW list \in Seq(EntriesOf(rows, byParam, X)),
           NEW m \in X
    PROVE  AddEntry(rows, list, byParam, series, m) \in Seq(EntriesOf(rows, byParam, X))
<1>1. PICK e : e = Entry(m[2], BundleKey(rows, byParam, m[1], m[2]), rows[m[2]])
  OBVIOUS
<1>2. CASE Plannable(rows, m[2])
  <2>1. e \in EntriesOf(rows, byParam, X)
    BY <1>1, <1>2 DEF Plannable, EntriesOf
  <2>2. Append(list, e) \in Seq(EntriesOf(rows, byParam, X))
    BY <2>1
  <2>3. AddEntry(rows, list, byParam, series, m) = list \/ AddEntry(rows, list, byParam, series, m) = Append(list, e)
    BY <1>1, Zenon DEF AddEntry
  <2> QED BY <2>2, <2>3
<1>3. CASE ~Plannable(rows, m[2])
  <2>1. AddEntry(rows, list, byParam, series, m) = list
    BY <1>3, Zenon DEF AddEntry
  <2> QED BY <2>1
<1> QED BY <1>2, <1>3

\* The entries of a model, behind others.
LEMMA ModelEntriesAre ==
    ASSUME NEW rows, NEW byParam, NEW series, NEW X, NEW list \in Seq(EntriesOf(rows, byParam, X)),
           NEW model \in Seq(X)
    PROVE  ModelEntries(rows, list, model, byParam, series) \in Seq(EntriesOf(rows, byParam, X))
<1>1. PICK S : S = Seq(EntriesOf(rows, byParam, X))
  OBVIOUS
<1>2. EntriesStay(rows, byParam, series, S, X)
  BY <1>1, AddEntryIs DEF EntriesStay
<1>3. list \in S /\ model \in Seq(X)
  BY <1>1
<1> QED BY <1>1, <1>2, <1>3, EntriesRun

\* The entries of a bundle.
LEMMA BundleEntriesAre ==
    ASSUME NEW rows, NEW byParam, NEW series, NEW X, NEW models \in Seq(Seq(X))
    PROVE  BundleEntries(rows, models, byParam, series) \in Seq(EntriesOf(rows, byParam, X))
<1>1. PICK S : S = Seq(EntriesOf(rows, byParam, X))
  OBVIOUS
<1>2. BundleStays(rows, byParam, series, S, Seq(X))
  BY <1>1, ModelEntriesAre DEF BundleStays
<1>3. <<>> \in S /\ models \in Seq(Seq(X))
  BY <1>1
<1> QED BY <1>1, <1>2, <1>3, BundleRun

\* What a model is to be compressed by are pairs of the catalogue.
LEMMA PlanModelIs ==
    ASSUME NEW rows, RowsFit(rows), NEW hub \in Seq(DOMAIN rows), NEW X, NEW model \in Seq(X)
    PROVE  PlanModel(rows, hub, model) \in Seq(PairsOn(DOMAIN rows))
<1>1. PICK D : D = DOMAIN rows
  OBVIOUS
<1>2. PICK own, others : /\ own = TensorsOf(model)
                         /\ others = Chosen(hub, {i \in DOMAIN hub : hub[i] \notin own})
  OBVIOUS
<1>3. PICK n \in Nat : DOMAIN others = 1 .. n /\ \A i \in 1 .. n : others[i] \in D
  <2>1. others \in Seq(D)
    BY <1>1, <1>2, ChosenIs
  <2> QED BY <2>1
<1>4. PICK Y : Y = X \union {<<0, t>> : t \in D}
  OBVIOUS
<1>5. PICK items \in Seq(Y) : items = [i \in DOMAIN others |-> <<0, others[i]>>]
  <2>1. [i \in DOMAIN others |-> <<0, others[i]>>] \in [1 .. n -> Y]
    BY <1>3, <1>4
  <2>2. [i \in DOMAIN others |-> <<0, others[i]>>] \in Seq(Y)
    BY <2>1
  <2> QED BY <2>2
<1>6. PICK E : E = EntriesOf(rows, FALSE, Y)
  OBVIOUS
<1>7. PICK existing \in Seq(E) : existing = ModelEntries(rows, <<>>, items, FALSE, FALSE)
  <2>1. <<>> \in Seq(EntriesOf(rows, FALSE, Y))
    OBVIOUS
  <2> QED BY <1>6, <2>1, ModelEntriesAre
<1>8. PICK all \in Seq(E) : all = ModelEntries(rows, existing, model, FALSE, FALSE)
  <2>1. model \in Seq(Y)
    <3>1. PICK k \in Nat : model \in [1 .. k -> X]
      OBVIOUS
    <3>2. model \in [1 .. k -> Y]
      BY <1>4, <3>1
    <3> QED BY <3>2
  <2> QED BY <1>6, <2>1, ModelEntriesAre
<1>9. PICK pairs \in Seq(PairsOn(D)) : pairs = PlanAttach(all).pairs
  <2>1. Told(D, E)
    BY <1>1, <1>6, EntriesTold
  <2>2. PlanAttach(all) \in PlansOn(D, E)
    BY <2>1, AttachPlanIs
  <2> QED BY <2>2 DEF PlansOn
<1>10. PlanModel(rows, hub, model) = Chosen(pairs, {i \in DOMAIN pairs : pairs[i].target \in own})
  BY <1>2, <1>5, <1>7, <1>8, <1>9, Zenon DEF PlanModel
<1> QED BY <1>1, <1>9, <1>10, ChosenIs

\* And so are those of a bundle about one base.
LEMMA StarBundleIs ==
    ASSUME NEW rows, RowsFit(rows), NEW byParam, NEW X, NEW models \in Seq(Seq(X))
    PROVE  StarBundle(rows, models, byParam) \in Seq(PairsOn(DOMAIN rows))
<1>1. PICK D, E : D = DOMAIN rows /\ E = EntriesOf(rows, byParam, X)
  OBVIOUS
<1>2. PICK all \in Seq(E) : all = BundleEntries(rows, models, byParam, FALSE)
  BY <1>1, BundleEntriesAre
<1>3. PlanAttach(all) \in PlansOn(D, E)
  <2>1. Told(D, E)
    BY <1>1, EntriesTold
  <2> QED BY <2>1, AttachPlanIs
<1> QED BY <1>1, <1>2, <1>3 DEF StarBundle, PlansOn

-----------------------------------------------------------------------------
(* FlexSplit. *)

Listed(R) == \E n \in Nat : DOMAIN R = 1 .. n

\* The best member to open is a member, or none.
LEMMA BestIs ==
    ASSUME NEW R, Listed(R), NEW members, NEW base
    PROVE  BestOpen(R, members, base) \in {0} \union members
<1>0. PICK n \in Nat : DOMAIN R = 1 .. n
  BY DEF Listed
<1>1. PICK S, E : S = {0} \union members /\ E = 1 .. n
  OBVIOUS
<1>2. BestStays(R, members, base, S, E)
  BY <1>1, Zenon DEF BestStays, BetterOpen
<1>3. 0 \in S /\ PlacesOf(R) \in Seq(E)
  BY <1>0, <1>1 DEF PlacesOf
<1> QED BY <1>1, <1>2, <1>3, BestRun

\* The bases a star is split by, when s tells those of smaller ones.
Opened(R, s, members, base, minPercent) ==
    LET c == BestOpen(R, members, base)
        move == Movers(R, members, base, c)
        stay == members \ (move \union {c})
    IN IF StaysWhole(R, members, base, minPercent) THEN {}
       ELSE {c} \union (IF Cardinality(stay) >= 2 THEN s[stay][base] ELSE {})
                \union (IF Cardinality(move) >= 2 THEN s[move][c] ELSE {})

\* s and t agree on what is smaller than members.
AgreeBelow(s, t, members, B) ==
    \A c \in members, part \in SUBSET members : c \notin part => \A b \in B : s[part][b] = t[part][b]

\* s tells of members of all on what is smaller than members.
TellsBelow(s, all, members, B) ==
    \A c \in members, part \in SUBSET members : c \notin part => \A b \in B : s[part][b] \subseteq all

\* They depend on smaller stars only.
LEMMA OpenedAgrees ==
    ASSUME NEW R, Listed(R), NEW B, NEW members \in SUBSET B, NEW base \in B, NEW minPercent,
           NEW s, NEW t,
           AgreeBelow(s, t, members, B)
    PROVE  Opened(R, s, members, base, minPercent) = Opened(R, t, members, base, minPercent)
<1>1. PICK c : c = BestOpen(R, members, base)
  OBVIOUS
<1>2. PICK move : move = Movers(R, members, base, c)
  OBVIOUS
<1>3. PICK stay : stay = members \ (move \union {c})
  OBVIOUS
<1> DEFINE Made(u) == {c} \union (IF Cardinality(stay) >= 2 THEN u[stay][base] ELSE {})
                          \union (IF Cardinality(move) >= 2 THEN u[move][c] ELSE {})
<1>4. \A u : Opened(R, u, members, base, minPercent) =
               IF StaysWhole(R, members, base, minPercent) THEN {} ELSE Made(u)
  BY <1>1, <1>2, <1>3, Zenon DEF Opened
<1>5. CASE StaysWhole(R, members, base, minPercent)
  BY <1>4, <1>5
<1>6. CASE ~StaysWhole(R, members, base, minPercent)
  <2>1. c \in members
    <3>1. c # 0
      BY <1>1, <1>6, Zenon DEF StaysWhole
    <3> QED BY <1>1, <3>1, BestIs
  <2>2. move \in SUBSET members /\ c \notin move /\ stay \in SUBSET members /\ c \notin stay
    BY <1>2, <1>3 DEF Movers
  <2>3. c \in B
    BY <2>1
  <2>4. s[stay][base] = t[stay][base] /\ s[move][c] = t[move][c]
    BY <2>1, <2>2, <2>3 DEF AgreeBelow
  <2>5. Made(s) = Made(t)
    BY <2>4
  <2> HIDE DEF Made
  <2> QED BY <1>4, <1>6, <2>5
<1> QED BY <1>5, <1>6

\* They are members if those of smaller stars are.
LEMMA OpenedIs ==
    ASSUME NEW R, Listed(R), NEW all, NEW B, all \subseteq B,
           NEW members \in SUBSET all, NEW base \in B, NEW minPercent, NEW s, TellsBelow(s, all,
           members, B)
    PROVE  Opened(R, s, members, base, minPercent) \subseteq all
<1>1. PICK c : c = BestOpen(R, members, base)
  OBVIOUS
<1>2. PICK move : move = Movers(R, members, base, c)
  OBVIOUS
<1>3. PICK stay : stay = members \ (move \union {c})
  OBVIOUS
<1> DEFINE Made(u) == {c} \union (IF Cardinality(stay) >= 2 THEN u[stay][base] ELSE {})
                          \union (IF Cardinality(move) >= 2 THEN u[move][c] ELSE {})
<1>4. \A u : Opened(R, u, members, base, minPercent) =
               IF StaysWhole(R, members, base, minPercent) THEN {} ELSE Made(u)
  BY <1>1, <1>2, <1>3, Zenon DEF Opened
<1>5. CASE StaysWhole(R, members, base, minPercent)
  BY <1>4, <1>5
<1>6. CASE ~StaysWhole(R, members, base, minPercent)
  <2>1. c \in members
    <3>1. c # 0
      BY <1>1, <1>6, Zenon DEF StaysWhole
    <3> QED BY <1>1, <3>1, BestIs
  <2>2. move \in SUBSET members /\ c \notin move /\ stay \in SUBSET members /\ c \notin stay
    BY <1>2, <1>3 DEF Movers
  <2>3. c \in B
    BY <2>1
  <2>4. s[stay][base] \subseteq all /\ s[move][c] \subseteq all
    BY <2>1, <2>2, <2>3 DEF TellsBelow
  <2>5. Made(s) \subseteq all
    BY <2>1, <2>4
  <2> HIDE DEF Made
  <2> QED BY <1>4, <1>6, <2>5
<1> QED BY <1>5, <1>6

\* Taking a member away makes a set smaller.
LEMMA SmallerPart ==
    ASSUME NEW all, IsFiniteSet(all), NEW members \in SUBSET all, NEW c \in members,
           NEW part \in SUBSET members, c \notin part
    PROVE  /\ Cardinality(part) \in Nat /\ Cardinality(members) \in Nat
           /\ Cardinality(part) < Cardinality(members)
<1>1. IsFiniteSet(members)
  BY FS_Subset
<1>2. IsFiniteSet(part) /\ Cardinality(part) <= Cardinality(members) /\ Cardinality(part) # Cardinality(members)
  BY <1>1, FS_Subset
<1> QED BY <1>1, <1>2, FS_CardinalityType

\* s is a function by which Split recurses.
IsSplit(s, R, all, B, minPercent) ==
    s = [members \in SUBSET all |-> [base \in B |-> Opened(R, s, members, base, minPercent)]]

\* There is one: in as many rounds as there are members the bases of all parts are told.
LEMMA SplitExists ==
    ASSUME NEW R, Listed(R), NEW all, IsFiniteSet(all), NEW start, NEW minPercent
    PROVE  \E s : IsSplit(s, R, all, {start} \union all, minPercent)
<1>1. PICK B : B = {start} \union all /\ all \subseteq B
  OBVIOUS
<1>2. PICK m \in Nat : m = Cardinality(all)
  BY FS_CardinalityType
<1>3. PICK F : F = [SUBSET all -> [B -> SUBSET all]]
  OBVIOUS
<1> DEFINE RoundTold(s) == [members \in SUBSET all |-> [base \in B |-> Opened(R, s, members, base, minPercent)]]
<1>4. ASSUME NEW s \in F PROVE RoundTold(s) \in F
  <2>1. ASSUME NEW members \in SUBSET all, NEW base \in B
        PROVE  Opened(R, s, members, base, minPercent) \in SUBSET all
    <3>1. TellsBelow(s, all, members, B)
      BY <1>3 DEF TellsBelow
    <3> QED BY <1>1, <3>1, OpenedIs
  <2> QED BY <1>3, <2>1
<1>5. PICK s0 \in F : s0 = [members \in SUBSET all |-> [base \in B |-> {}]]
  BY <1>3
<1> DEFINE h == [k \in 1 .. m + 2 |-> [s \in F |-> RoundTold(s)]]
<1>6. h \in [1 .. m + 2 -> [F -> F]] /\ m + 2 \in Nat
  <2> HIDE DEF RoundTold
  <2> QED BY <1>4
<1>7. PICK f \in [0 .. m + 2 -> F] : IsRun(f, s0, m + 2, h)
  <2> HIDE DEF h
  <2> QED BY <1>6, RunExists
<1>8. ASSUME NEW k \in 1 .. m + 2 PROVE f[k] = RoundTold(f[k - 1])
  <2>1. k - 1 \in 0 .. m + 2
    OBVIOUS
  <2>2. f[k] = h[k][f[k - 1]] /\ f[k - 1] \in F
    BY <1>7, <2>1 DEF IsRun
  <2> HIDE DEF RoundTold
  <2> QED BY <2>2
<1> DEFINE T == {k \in 0 .. m + 1 :
                   \A members \in SUBSET all : Cardinality(members) < k => f[k + 1][members] = f[k][members]}
<1>9. 0 \in T
  <2>1. ASSUME NEW members \in SUBSET all PROVE ~(Cardinality(members) < 0)
    <3>1. Cardinality(members) \in Nat
      BY FS_Subset, FS_CardinalityType
    <3> QED BY <3>1
  <2> QED BY <2>1
<1>10. ASSUME NEW k \in 0 .. (m + 1) - 1, k \in T PROVE k + 1 \in T
  <2>1. PICK l \in 1 .. m + 1 : l = k + 1 /\ l - 1 = k /\ (l + 1) - 1 = l /\ l + 1 \in 1 .. m + 2 /\ l \in 1 .. m + 2
    OBVIOUS
  <2>2. f[l] = RoundTold(f[k]) /\ f[l + 1] = RoundTold(f[l])
    <3> HIDE DEF RoundTold
    <3>1. f[l] = RoundTold(f[l - 1])
      BY <1>8, <2>1
    <3>2. f[l + 1] = RoundTold(f[(l + 1) - 1])
      BY <1>8, <2>1
    <3> QED BY <2>1, <3>1, <3>2
  <2>3. ASSUME NEW members \in SUBSET all, Cardinality(members) < l
        PROVE  f[l + 1][members] = f[l][members]
    <3>1. AgreeBelow(f[l], f[k], members, B)
      <4> SUFFICES ASSUME NEW c \in members, NEW part \in SUBSET members, c \notin part
                   PROVE  f[l][part] = f[k][part]
        BY DEF AgreeBelow
      <4>1. Cardinality(part) \in Nat /\ Cardinality(members) \in Nat /\ Cardinality(part) < Cardinality(members)
        BY SmallerPart
      <4>2. Cardinality(part) < k /\ part \in SUBSET all
        BY <2>1, <2>3, <4>1
      <4> QED BY <1>10, <2>1, <4>2
    <3>2. ASSUME NEW base \in B
          PROVE  Opened(R, f[l], members, base, minPercent) = Opened(R, f[k], members, base, minPercent)
      <4>1. PICK u, v : u = f[l] /\ v = f[k]
        OBVIOUS
      <4>2. AgreeBelow(u, v, members, B)
        BY <1>1, <3>1, <4>1
      <4>3. Opened(R, u, members, base, minPercent) = Opened(R, v, members, base, minPercent)
        BY <1>1, <4>2, OpenedAgrees
      <4> QED BY <4>1, <4>3
    <3>3. /\ f[l + 1][members] = [base \in B |-> Opened(R, f[l], members, base, minPercent)]
          /\ f[l][members] = [base \in B |-> Opened(R, f[k], members, base, minPercent)]
      BY <2>2, Zenon
    <3> QED BY <3>2, <3>3
  <2> QED BY <2>1, <2>3
<1>11. m + 1 \in T
  <2>1. 0 .. m + 1 \subseteq T /\ m + 1 \in 0 .. m + 1
    <3>1. m + 1 \in Nat
      OBVIOUS
    <3> HIDE DEF T
    <3>2. 0 .. m + 1 \subseteq T
      BY <1>9, <1>10, <3>1, InductionUpTo
    <3> QED BY <3>2
  <2> HIDE DEF T
  <2> QED BY <2>1
<1>12. PICK s \in F : s = f[m + 1]
  <2>1. m + 1 \in 0 .. m + 2
    OBVIOUS
  <2> QED BY <2>1
<1>13. f[m + 2] = s
  <2>1. PICK s2 \in F : s2 = f[m + 2] /\ m + 2 = (m + 1) + 1
    <3>1. m + 2 \in 0 .. m + 2 /\ m + 2 = (m + 1) + 1
      OBVIOUS
    <3> QED BY <3>1
  <2>2. ASSUME NEW members \in SUBSET all PROVE s2[members] = s[members]
    <3>1. Cardinality(members) \in Nat /\ Cardinality(members) <= m
      BY <1>2, FS_Subset, FS_CardinalityType
    <3>2. Cardinality(members) < m + 1
      BY <3>1
    <3> QED BY <1>11, <1>12, <2>1, <3>2
  <2>3. s2 = s
    BY <1>3, <2>2
  <2> QED BY <2>1, <2>3
<1>14. f[m + 2] = RoundTold(s)
  <2>1. m + 2 \in 1 .. m + 2 /\ (m + 2) - 1 = m + 1
    OBVIOUS
  <2> HIDE DEF RoundTold
  <2> QED BY <1>8, <1>12, <2>1
<1>15. IsSplit(s, R, all, B, minPercent)
  BY <1>13, <1>14, Zenon DEF IsSplit
<1> QED BY <1>1, <1>15

\* Split recurses by s.
SplitsBy(s, R, all, start, minPercent) ==
    /\ IsSplit(s, R, all, {start} \union all, minPercent)
    /\ Split(R, all, start, minPercent) = s[all][start]

\* It does by some s.
LEMMA SplitBy ==
    ASSUME NEW R, Listed(R), NEW all, IsFiniteSet(all), NEW start, NEW minPercent
    PROVE  \E s : SplitsBy(s, R, all, start, minPercent)
<1> DEFINE Rec(u) == u = [members \in SUBSET all |->
               [base \in {start} \union all |->
                 LET c == BestOpen(R, members, base)
                     move == Movers(R, members, base, c)
                     stay == members \ (move \union {c})
                 IN IF StaysWhole(R, members, base, minPercent) THEN {}
                    ELSE {c} \union (IF Cardinality(stay) >= 2 THEN u[stay][base] ELSE {})
                             \union (IF Cardinality(move) >= 2 THEN u[move][c] ELSE {})]]
           split == CHOOSE u : Rec(u)
<1>1. Split(R, all, start, minPercent) = split[all][start]
  BY Zenon DEF Split
<1>2. \A u : IsSplit(u, R, all, {start} \union all, minPercent) <=> Rec(u)
  BY Zenon DEF IsSplit, Opened
<1>3. \E u : Rec(u)
  <2> HIDE DEF Rec
  <2> QED BY <1>2, SplitExists
<1>4. Rec(split)
  <2> HIDE DEF Rec
  <2> QED BY <1>3, Zenon
<1> HIDE DEF Rec, split
<1> QED BY <1>1, <1>2, <1>4 DEF SplitsBy

\* The bases a series is split by are its members.
LEMMA SplitIs ==
    ASSUME NEW R, Listed(R), NEW all, IsFiniteSet(all), NEW start, NEW minPercent
    PROVE  Split(R, all, start, minPercent) \subseteq all
<1>1. PICK B : B = {start} \union all /\ all \subseteq B
  OBVIOUS
<1>2. PICK m \in Nat : m = Cardinality(all)
  BY FS_CardinalityType
<1>3. PICK s : IsSplit(s, R, all, B, minPercent) /\ Split(R, all, start, minPercent) = s[all][start]
  <2>1. PICK s : SplitsBy(s, R, all, start, minPercent)
    BY SplitBy
  <2> QED BY <1>1, <2>1, Zenon DEF SplitsBy
<1>4. \A members \in SUBSET all, base \in B : s[members][base] = Opened(R, s, members, base, minPercent)
  <2>1. ASSUME NEW members \in SUBSET all
        PROVE  s[members] = [base \in B |-> Opened(R, s, members, base, minPercent)]
    BY <1>3, Zenon DEF IsSplit
  <2> QED BY <2>1
<1> DEFINE T == {k \in 0 .. m + 1 :
                   \A members \in SUBSET all : Cardinality(members) < k => \A base \in B : s[members][base] \subseteq all}
<1>5. 0 \in T
  <2>1. ASSUME NEW members \in SUBSET all PROVE ~(Cardinality(members) < 0)
    <3>1. Cardinality(members) \in Nat
      BY FS_Subset, FS_CardinalityType
    <3> QED BY <3>1
  <2> QED BY <2>1
<1>6. ASSUME NEW k \in 0 .. (m + 1) - 1, k \in T PROVE k + 1 \in T
  <2>1. ASSUME NEW members \in SUBSET all, Cardinality(members) < k + 1, NEW base \in B
        PROVE  s[members][base] \subseteq all
    <3>1. TellsBelow(s, all, members, B)
      <4> SUFFICES ASSUME NEW c \in members, NEW part \in SUBSET members, c \notin part, NEW b \in B
                   PROVE  s[part][b] \subseteq all
        BY <1>1 DEF TellsBelow
      <4>1. Cardinality(part) \in Nat /\ Cardinality(members) \in Nat /\ Cardinality(part) < Cardinality(members)
        BY SmallerPart
      <4>2. Cardinality(part) < k /\ part \in SUBSET all
        BY <2>1, <4>1
      <4> QED BY <1>6, <4>2
    <3>2. Opened(R, s, members, base, minPercent) \subseteq all
      BY <1>1, <3>1, OpenedIs
    <3> QED BY <1>4, <3>2
  <2>2. k + 1 \in 0 .. m + 1
    OBVIOUS
  <2> QED BY <2>1, <2>2
<1>7. m + 1 \in T
  <2>1. 0 .. m + 1 \subseteq T /\ m + 1 \in 0 .. m + 1
    <3>1. m + 1 \in Nat
      OBVIOUS
    <3> HIDE DEF T
    <3>2. 0 .. m + 1 \subseteq T
      BY <1>5, <1>6, <3>1, InductionUpTo
    <3> QED BY <3>2
  <2> HIDE DEF T
  <2> QED BY <2>1
<1>8. all \in SUBSET all /\ Cardinality(all) < m + 1 /\ start \in B
  BY <1>1, <1>2
<1> QED BY <1>3, <1>7, <1>8

\* The predicted ratios are numbers.
LEMMA RatiosAre ==
    ASSUME NEW n \in Nat, NEW fps \in [1 .. n -> Int], NEW bits \in Int
    PROVE  LET R == PairwiseCr(fps, bits)
           IN  DOMAIN R = 1 .. n /\ \A i \in 1 .. n, j \in 1 .. n : R[i][j] \in Nat
<1>1. PICK R : R = PairwiseCr(fps, bits)
  OBVIOUS
<1>2. DOMAIN R = 1 .. n /\ \A i \in 1 .. n : \A j \in 1 .. n :
         R[i][j] = IF i = j THEN 0 ELSE Predict(Distance(fps[i], fps[j], bits))
  BY <1>1 DEF PairwiseCr
<1>3. ASSUME NEW i \in 1 .. n, NEW j \in 1 .. n PROVE R[i][j] \in Nat
  <2>1. Distance(fps[i], fps[j], bits) \in Nat
    <3>1. fps[i] \in Int /\ fps[j] \in Int
      OBVIOUS
    <3> QED BY <3>1, DistanceIs
  <2>2. Predict(Distance(fps[i], fps[j], bits)) \in Nat
    BY <2>1, PredictIs
  <2> QED BY <1>2, <2>2
<1> QED BY <1>1, <1>2, <1>3

\* The nearest base is one, and none is nearer.
LEMMA NearestIs ==
    ASSUME NEW n \in Nat, NEW R, NEW i \in 1 .. n, \A j \in 1 .. n : R[i][j] \in Nat,
           NEW stars \in SUBSET (1 .. n), stars # {}
    PROVE  Nearest(R, stars, i) \in stars /\ \A b \in stars : R[i][Nearest(R, stars, i)] <= R[i][b]
<1>1. PICK f : f = [b \in stars |-> R[i][b]]
  OBVIOUS
<1>2. f \in [stars -> Nat] /\ stars \subseteq Nat
  BY <1>1
<1>3. PICK a : a = ArgMin(f)
  OBVIOUS
<1>4. a \in stars /\ \A b \in stars : f[a] <= f[b]
  BY <1>2, <1>3, ArgMinIs
<1>5. Nearest(R, stars, i) = a
  BY <1>1, <1>3 DEF Nearest
<1> QED BY <1>1, <1>4, <1>5

Members(n) == [base : 0 .. n, cr : Nat]

\* In the plan of a series every base is a member.
LEMMA FlexPlanIs ==
    ASSUME NEW n \in Nat, NEW fps \in [1 .. n -> Int], NEW bits, n > 1 => bits \in Int, NEW minPercent
    PROVE  FlexPlan(fps, bits, minPercent) \in [1 .. n -> Members(n)]
<1>1. Full \in Nat
  BY PlannerConstants
<1>2. fps \in Seq(Int) /\ Len(fps) = n /\ DOMAIN fps = 1 .. n
  OBVIOUS
<1>3. CASE n <= 1
  <2>1. FlexPlan(fps, bits, minPercent) = [i \in 1 .. n |-> [base |-> 0, cr |-> Full]]
    BY <1>2, <1>3 DEF FlexPlan
  <2> QED BY <1>1, <2>1 DEF Members
<1>4. CASE n > 1
  <2>1. PICK R : R = PairwiseCr(fps, bits)
    OBVIOUS
  <2>2. FlexPlan(fps, bits, minPercent) = SplitStar(R, n, minPercent)
    BY <1>2, <1>4, <2>1 DEF FlexPlan
  <2>3. DOMAIN R = 1 .. n /\ \A i \in 1 .. n, j \in 1 .. n : R[i][j] \in Nat
    BY <1>4, <2>1, RatiosAre
  <2>5. PICK stars : stars = {1} \union Split(R, 2 .. n, 1, minPercent)
    OBVIOUS
  <2>6. stars \subseteq 1 .. n /\ 1 \in stars
    <3>1. Listed(R)
      BY <2>3 DEF Listed
    <3>2. IsFiniteSet(2 .. n)
      BY FS_Interval
    <3>3. Split(R, 2 .. n, 1, minPercent) \subseteq 2 .. n
      BY <3>1, <3>2, SplitIs
    <3> QED BY <1>4, <2>5, <3>3
  <2>7. ASSUME NEW i \in 1 .. n PROVE Nearest(R, stars, i) \in stars
    BY <2>3, <2>6, NearestIs
  <2>8. ASSUME NEW i \in 1 .. n
        PROVE  Reassigned(R, n, stars)[i] \in Members(n)
    <3>1. Nearest(R, stars, i) \in 0 .. n /\ R[i][Nearest(R, stars, i)] \in Nat
      <4>1. PICK b \in 1 .. n : b = Nearest(R, stars, i)
        BY <2>6, <2>7
      <4> QED BY <2>3, <4>1
    <3>2. Reassigned(R, n, stars)[i] = IF i \in stars THEN [base |-> 0, cr |-> Full]
             ELSE [base |-> Nearest(R, stars, i), cr |-> R[i][Nearest(R, stars, i)]]
      BY Zenon DEF Reassigned
    <3>3. [base |-> 0, cr |-> Full] \in Members(n)
      BY <1>1 DEF Members
    <3>4. [base |-> Nearest(R, stars, i), cr |-> R[i][Nearest(R, stars, i)]] \in Members(n)
      BY <3>1 DEF Members
    <3> QED BY <3>2, <3>3, <3>4
  <2>9. SplitStar(R, n, minPercent) = Reassigned(R, n, stars)
    BY <2>5 DEF SplitStar
  <2>10. Reassigned(R, n, stars) \in [1 .. n -> Members(n)]
    <3>1. Reassigned(R, n, stars) = [i \in 1 .. n |-> Reassigned(R, n, stars)[i]]
      BY Zenon DEF Reassigned
    <3> QED BY <2>8, <3>1
  <2> QED BY <2>2, <2>9, <2>10
<1> QED BY <1>3, <1>4

\* What is chosen from a list has been chosen.
LEMMA ChosenAre ==
    ASSUME NEW T, NEW list \in Seq(T), NEW P
    PROVE  Chosen(list, P) \in Seq({list[i] : i \in {j \in DOMAIN list : j \in P}})
<1>1. PICK n \in Nat : n = Len(list) /\ DOMAIN list = 1 .. n
  OBVIOUS
<1>2. PICK E, U : E = 1 .. n /\ U = {list[i] : i \in {j \in DOMAIN list : j \in P}}
  OBVIOUS
<1>3. PlacesOf(list) \in Seq(E)
  BY <1>1, <1>2 DEF PlacesOf
<1>4. ChoiceStays(list, P, Seq(U), E)
  <2>1. ASSUME NEW v \in Seq(U), NEW i \in E, i \in P PROVE Append(v, list[i]) \in Seq(U)
    <3>1. list[i] \in U
      BY <1>1, <1>2, <2>1
    <3> QED BY <3>1
  <2> QED BY <2>1 DEF ChoiceStays, ChooseStep
<1>5. <<>> \in Seq(U)
  OBVIOUS
<1> QED BY <1>2, <1>3, <1>4, <1>5, ChosenRun

\* The pairs of a plan for a series are pairs of its tensors.
LEMMA SeriesPlanIs ==
    ASSUME NEW D, NEW E, Told(D, E), NEW series \in Seq(E), NEW minPercent
    PROVE  SeriesPlan(series, minPercent) \in Seq(PairsOn(D))
<1>1. PICK n \in Nat : n = Len(series) /\ DOMAIN series = 1 .. n
  OBVIOUS
<1>2. ASSUME NEW i \in 1 .. n PROVE series[i].id \in D /\ series[i].fp \in Int /\ series[i].bits \in Int
  <2>1. series[i] \in E
    BY <1>1
  <2> QED BY <2>1 DEF Told
<1>3. PICK plan : plan = FlexPlan([i \in DOMAIN series |-> series[i].fp], series[1].bits, minPercent)
  OBVIOUS
<1>4. plan \in [1 .. n -> Members(n)]
  <2>1. [i \in DOMAIN series |-> series[i].fp] \in [1 .. n -> Int]
    BY <1>1, <1>2
  <2>2. n > 1 => series[1].bits \in Int
    <3>1. n > 1 => 1 \in 1 .. n
      OBVIOUS
    <3> QED BY <1>2, <3>1
  <2> QED BY <1>3, <2>1, <2>2, FlexPlanIs
<1>5. PICK P : P = {i \in DOMAIN series : plan[i].base # 0 /\ plan[i].cr < Threshold}
  OBVIOUS
<1>6. PICK ids : ids = [i \in DOMAIN series |-> i]
  OBVIOUS
<1>7. PICK kept : kept = Chosen(ids, P)
  OBVIOUS
<1>8. kept \in Seq(P)
  <2>1. ids \in Seq(1 .. n)
    BY <1>1, <1>6
  <2>2. kept \in Seq({ids[i] : i \in {j \in DOMAIN ids : j \in P}})
    BY <1>7, <2>1, ChosenAre
  <2>3. {ids[i] : i \in {j \in DOMAIN ids : j \in P}} = P
    BY <1>5, <1>6
  <2> QED BY <2>2, <2>3
<1>9. PICK m \in Nat : DOMAIN kept = 1 .. m /\ \A k \in 1 .. m : kept[k] \in P
  BY <1>8
<1>10. PICK pairs : pairs = [k \in DOMAIN kept |-> [target |-> series[kept[k]].id,
                               base |-> series[plan[kept[k]].base].id, cr |-> plan[kept[k]].cr]]
  OBVIOUS
<1>11. ASSUME NEW k \in 1 .. m PROVE pairs[k] \in PairsOn(D)
  <2>1. PICK i \in 1 .. n : i = kept[k] /\ plan[i].base # 0
    BY <1>1, <1>5, <1>9
  <2>2. plan[i].base \in 1 .. n /\ plan[i].cr \in Int
    BY <1>4, <2>1 DEF Members
  <2>3. series[i].id \in D /\ series[plan[i].base].id \in D
    BY <1>2, <2>2
  <2>4. pairs[k] = [target |-> series[i].id, base |-> series[plan[i].base].id, cr |-> plan[i].cr]
    BY <1>9, <1>10, <2>1
  <2> QED BY <2>2, <2>3, <2>4 DEF PairsOn
<1>12. pairs \in [1 .. m -> PairsOn(D)]
  BY <1>9, <1>10, <1>11
<1>13. SeriesPlan(series, minPercent) = pairs
  BY <1>3, <1>5, <1>6, <1>7, <1>10, Zenon DEF SeriesPlan, SeriesPairs
<1> QED BY <1>12, <1>13

\* And so are those of a bundle cut in stars.
LEMMA FlexBundleIs ==
    ASSUME NEW rows, RowsFit(rows), NEW byParam, NEW X, NEW models \in Seq(Seq(X)), NEW minPercent
    PROVE  FlexBundle(rows, models, byParam, minPercent) \in Seq(PairsOn(DOMAIN rows))
<1>1. PICK D, E : D = DOMAIN rows /\ E = EntriesOf(rows, byParam, X)
  OBVIOUS
<1>2. PICK all \in Seq(E) : all = BundleEntries(rows, models, byParam, TRUE)
  BY <1>1, BundleEntriesAre
<1>3. Told(D, E)
  BY <1>1, EntriesTold
<1>4. PICK K : K = {e.key : e \in E}
  OBVIOUS
<1>5. PICK keys \in Seq(K) : keys = Keys(all)
  BY <1>4, KeysIs
<1>6. ASSUME NEW key
      PROVE  [NoPlan EXCEPT !.pairs = SeriesPlan(Group(all, key), minPercent)] \in PlansOn(D, E)
  <2>1. Group(all, key) \in Seq(E)
    BY ChosenIs DEF Group
  <2>2. SeriesPlan(Group(all, key), minPercent) \in Seq(PairsOn(D))
    BY <1>3, <2>1, SeriesPlanIs
  <2>3. NoPlan \in PlansOn(D, E)
    BY DEF NoPlan, PlansOn
  <2>4. PICK pairs \in Seq(PairsOn(D)) : pairs = SeriesPlan(Group(all, key), minPercent)
    BY <2>2
  <2>5. [NoPlan EXCEPT !.pairs = pairs] \in PlansOn(D, E)
    BY <2>3 DEF PlansOn
  <2> QED BY <2>4, <2>5
<1>7. PICK plans : plans = [k \in DOMAIN keys |->
                [NoPlan EXCEPT !.pairs = SeriesPlan(Group(all, keys[k]), minPercent)]]
  OBVIOUS
<1>8. plans \in Seq(PlansOn(D, E))
  <2>1. PICK n \in Nat : DOMAIN keys = 1 .. n
    OBVIOUS
  <2>2. plans \in [1 .. n -> PlansOn(D, E)]
    BY <1>6, <1>7, <2>1
  <2> QED BY <2>2
<1>9. Join(plans) \in PlansOn(D, E)
  BY <1>8, JoinIs
<1>10. FlexBundle(rows, models, byParam, minPercent) = Join(plans).pairs
  BY <1>2, <1>5, <1>7, Zenon DEF FlexBundle
<1> QED BY <1>1, <1>9, <1>10 DEF PlansOn

-----------------------------------------------------------------------------
(* Whole batches. *)

\* None of the pairs would be compressed.
Settled(rows, base, pairs) == \A k \in DOMAIN pairs : Outcome(rows, base, pairs[k]) # "ok"

ModelSettled(rows, hub, base, m) ==
    m.ready /\ m.map # <<>> => Settled(rows, base, PlanModel(rows, hub, m.map))

\* The models whose plans are pairs of the catalogue.
Plans(rows, hub, m) == PlanModel(rows, hub, m.map) \in Seq(PairsOn(DOMAIN rows))

FitsBatch(rows, base) ==
    /\ IsFiniteSet(DOMAIN rows) /\ 0 \notin DOMAIN rows /\ RowsFit(rows)
    /\ base \in Deltas(DOMAIN rows) /\ Acyclic(base)

FreshHub(base) == [base |-> base, results |-> <<>>]

\* Pairs of the catalogue are pairs in it.
LEMMA PairsOnAre ==
    ASSUME NEW D
    PROVE  PairsIn(D, PairsOn(D))
BY DEF PairsIn, PairsOn

\* A batch starts from one of its states.
LEMMA BatchStarts ==
    ASSUME NEW rows, NEW base, FitsBatch(rows, base)
    PROVE  /\ FreshHub(base) \in HubStates(DOMAIN rows, base, PairsOn(DOMAIN rows))
           /\ NoneOk(FreshHub(base)) /\ FreshHub(base).base = base
<1>1. /\ base \in Deltas(DOMAIN rows) /\ Acyclic(base) /\ Extends(base, base)
  BY DEF FitsBatch, Extends
<1>2. PICK h : h = FreshHub(base)
  OBVIOUS
<1>3. h = [base |-> base, results |-> <<>>] /\ h.base = base /\ h.results = <<>> /\ Len(h.results) = 0
  BY <1>2 DEF FreshHub
<1>4. h \in HubStates(DOMAIN rows, base, PairsOn(DOMAIN rows))
  <2>1. <<>> \in Seq([pair : PairsOn(DOMAIN rows), status : Statuses])
    OBVIOUS
  <2> QED BY <1>1, <1>3, <2>1 DEF HubStates
<1>5. NoneOk(h)
  BY <1>3 DEF NoneOk
<1> QED BY <1>2, <1>3, <1>4, <1>5

ModelKept(rows, hub, base, P, h, m, r) ==
    /\ r \in HubStates(DOMAIN rows, base, P) /\ Extends(h.base, r.base)
    /\ ModelSettled(rows, hub, r.base, m)

\* Compressing a model settles it.
LEMMA ModelSettles ==
    ASSUME NEW rows, NEW base, FitsBatch(rows, base), NEW hub, NEW m, Plans(rows, hub, m),
           NEW h \in HubStates(DOMAIN rows, base, PairsOn(DOMAIN rows))
    PROVE  ModelKept(rows, hub, base, PairsOn(DOMAIN rows), h, m, CompressModel(rows, hub, h, m))
<1>1. PICK D, P, r : D = DOMAIN rows /\ P = PairsOn(D) /\ r = CompressModel(rows, hub, h, m)
  OBVIOUS
<1>2. IsFiniteSet(D) /\ 0 \notin D /\ base \in Deltas(D) /\ PairsIn(D, P) /\ h \in HubStates(D, base, P)
  BY <1>1, PairsOnAre DEF FitsBatch
<1>3. CASE ~m.ready \/ m.map = <<>>
  <2>1. r = h
    BY <1>1, <1>3 DEF CompressModel
  <2> QED BY <1>1, <1>2, <1>3, <2>1 DEF ModelKept, ModelSettled, Extends
<1>4. CASE ~(~m.ready \/ m.map = <<>>)
  <2>1. PICK pairs \in Seq(P) : pairs = PlanModel(rows, hub, m.map)
    BY <1>1 DEF Plans
  <2>2. r = RunPairs(rows, h, pairs)
    BY <1>1, <1>4, <2>1 DEF CompressModel
  <2>3. /\ r \in HubStates(D, base, P) /\ Extends(h.base, r.base)
        /\ \A k \in DOMAIN pairs : Outcome(rows, r.base, pairs[k]) # "ok"
    BY <1>2, <2>1, <2>2, PairsSettle
  <2> QED BY <1>1, <2>1, <2>3 DEF ModelKept, ModelSettled, Settled
<1> QED BY <1>3, <1>4

\* And it stays settled.
LEMMA StaysSettled ==
    ASSUME NEW rows, 0 \notin DOMAIN rows, NEW base \in Deltas(DOMAIN rows),
           NEW more \in Deltas(DOMAIN rows),
           Extends(base, more), NEW hub, NEW m, Plans(rows, hub, m), ModelSettled(rows, hub, base, m)
    PROVE  ModelSettled(rows, hub, more, m)
<1>1. PICK D : D = DOMAIN rows
  OBVIOUS
<1>2. PICK pairs \in Seq(PairsOn(D)) : pairs = PlanModel(rows, hub, m.map)
  BY <1>1 DEF Plans
<1>3. ASSUME Settled(rows, base, pairs) PROVE Settled(rows, more, pairs)
  <2> SUFFICES ASSUME NEW k \in DOMAIN pairs PROVE Outcome(rows, more, pairs[k]) # "ok"
    BY DEF Settled
  <2>1. PICK p : p = pairs[k] /\ p.target \in D /\ p.base \in D
    <3>1. pairs[k] \in PairsOn(D)
      OBVIOUS
    <3> QED BY <3>1 DEF PairsOn
  <2>2. Outcome(rows, base, p) # "ok"
    BY <1>3, <2>1 DEF Settled
  <2> QED BY <1>1, <2>1, <2>2, StaysRefused
<1> QED BY <1>2, <1>3 DEF ModelSettled

AllKept(rows, base, models, hub, r) ==
    /\ r \in HubStates(DOMAIN rows, base, PairsOn(DOMAIN rows))
    /\ \A k \in DOMAIN models : ModelSettled(rows, hub, r.base, models[k])

\* Compressing all settles every model.
LEMMA AllSettle ==
    ASSUME NEW rows, NEW base, FitsBatch(rows, base), NEW hub, NEW E, \A m \in E : Plans(rows, hub, m),
           NEW models \in Seq(E)
    PROVE  AllKept(rows, base, models, hub, AutoCompressAll(rows, base, models, hub))
<1>1. PICK D, P, S, h0 : D = DOMAIN rows /\ P = PairsOn(D) /\ S = HubStates(D, base, P) /\ h0 = FreshHub(base)
  OBVIOUS
<1>2. h0 \in S /\ models \in Seq(E)
  BY <1>1, BatchStarts
<1>3. ASSUME NEW v \in S, NEW m \in E
      PROVE  ModelKept(rows, hub, base, P, v, m, CompressModel(rows, hub, v, m))
  BY <1>1, ModelSettles
<1>4. ModelsStay(rows, hub, S, E)
  BY <1>1, <1>3 DEF ModelsStay, ModelKept
<1>5. PICK f : IsOverModels(f, rows, hub, S, h0, models)
  BY <1>2, <1>4, ModelsRun
<1>6. PICK n \in Nat : n = Len(models) /\ DOMAIN models = 1 .. n /\ \A k \in 1 .. n : models[k] \in E
  OBVIOUS
<1>7. /\ f \in [0 .. n -> S]
      /\ \A k \in 1 .. n : f[k] = CompressModel(rows, hub, f[k - 1], models[k])
  BY <1>5, <1>6 DEF IsOverModels
<1>8. AutoCompressAll(rows, base, models, hub) = f[n]
  BY <1>1, <1>5, <1>6, Zenon DEF IsOverModels, Over, AutoCompressAll, FreshHub
<1> DEFINE T == {k \in 0 .. n : \A j \in 1 .. k : ModelSettled(rows, hub, f[k].base, models[j])}
<1>9. 0 \in T
  OBVIOUS
<1>10. ASSUME NEW k \in 0 .. n - 1, k \in T PROVE k + 1 \in T
  <2>1. PICK l \in 1 .. n : l = k + 1 /\ l - 1 = k
    OBVIOUS
  <2>2. PICK u, v : u = f[k] /\ v = f[l] /\ u \in S /\ v \in S
    BY <1>7, <2>1
  <2>3. ModelKept(rows, hub, base, P, u, models[l], v)
    <3>1. v = CompressModel(rows, hub, u, models[l]) /\ models[l] \in E
      BY <1>6, <1>7, <2>1, <2>2
    <3> QED BY <1>3, <2>2, <3>1
  <2>4. ASSUME NEW j \in 1 .. k PROVE ModelSettled(rows, hub, v.base, models[j])
    <3>1. ModelSettled(rows, hub, u.base, models[j]) /\ j \in 1 .. n
      BY <1>10, <2>2
    <3>2. Plans(rows, hub, models[j])
      BY <1>6, <3>1
    <3>3. u.base \in Deltas(D) /\ v.base \in Deltas(D) /\ Extends(u.base, v.base) /\ 0 \notin D
      BY <1>1, <2>2, <2>3 DEF HubStates, ModelKept, FitsBatch
    <3> QED BY <1>1, <3>1, <3>2, <3>3, StaysSettled
  <2>5. \A j \in 1 .. l : j = l \/ j \in 1 .. k
    BY <2>1
  <2>6. l \in T
    BY <2>1, <2>2, <2>3, <2>4, <2>5 DEF ModelKept
  <2> QED BY <2>1, <2>6
<1>11. n \in T
  <2>1. 0 .. n \subseteq T
    <3> HIDE DEF T
    <3> QED BY <1>9, <1>10, InductionUpTo
  <2> QED BY <2>1
<1>12. f[n] \in S
  BY <1>7
<1> QED BY <1>1, <1>6, <1>8, <1>11, <1>12 DEF AllKept

\* Settled models are compressed to nothing.
LEMMA AllRefused ==
    ASSUME NEW rows, NEW base, FitsBatch(rows, base), NEW hub, NEW E, \A m \in E : Plans(rows, hub, m),
           NEW models \in Seq(E), \A k \in DOMAIN models : ModelSettled(rows, hub, base, models[k])
    PROVE  LET r == AutoCompressAll(rows, base, models, hub)
           IN r \in HubStates(DOMAIN rows, base, PairsOn(DOMAIN rows)) /\ NoneOk(r)
<1>1. PICK D, P, h0 : D = DOMAIN rows /\ P = PairsOn(D) /\ h0 = FreshHub(base)
  OBVIOUS
<1>2. PICK S, Z : /\ S = {v \in HubStates(D, base, P) : v.base = base /\ NoneOk(v)}
                  /\ Z = {m \in E : ModelSettled(rows, hub, base, m)}
  OBVIOUS
<1>3. IsFiniteSet(D) /\ 0 \notin D /\ base \in Deltas(D) /\ PairsIn(D, P)
  BY <1>1, PairsOnAre DEF FitsBatch
<1>4. h0 \in S /\ models \in Seq(Z)
  <2>1. h0 \in S
    BY <1>1, <1>2, BatchStarts
  <2>2. models \in Seq(Z)
    BY <1>2
  <2> QED BY <2>1, <2>2
<1>5. ASSUME NEW v \in S, NEW m \in Z PROVE CompressModel(rows, hub, v, m) \in S
  <2>1. v \in HubStates(D, base, P) /\ v.base = base /\ NoneOk(v)
    BY <1>2
  <2>2. m \in E /\ ModelSettled(rows, hub, base, m) /\ Plans(rows, hub, m)
    BY <1>2
  <2>3. CASE ~m.ready \/ m.map = <<>>
    BY <2>3 DEF CompressModel
  <2>4. CASE ~(~m.ready \/ m.map = <<>>)
    <3>1. PICK pairs \in Seq(P) : pairs = PlanModel(rows, hub, m.map)
      BY <1>1, <2>2 DEF Plans
    <3>2. \A k \in DOMAIN pairs : Outcome(rows, v.base, pairs[k]) # "ok"
      BY <2>1, <2>2, <2>4, <3>1 DEF ModelSettled, Settled
    <3>3. PICK r : r = RunPairs(rows, v, pairs)
      OBVIOUS
    <3>4. r \in HubStates(D, base, P) /\ r.base = v.base /\ NoneOk(r)
      BY <1>3, <2>1, <3>1, <3>2, <3>3, PairsRefused
    <3>5. CompressModel(rows, hub, v, m) = r
      BY <2>4, <3>1, <3>3 DEF CompressModel
    <3> QED BY <1>2, <2>1, <3>4, <3>5
  <2> QED BY <2>3, <2>4
<1>6. ModelsStay(rows, hub, S, Z)
  BY <1>5 DEF ModelsStay
<1>7. PICK f : IsOverModels(f, rows, hub, S, h0, models)
  BY <1>4, <1>6, ModelsRun
<1>8. AutoCompressAll(rows, base, models, hub) = f[Len(models)]
  BY <1>1, <1>7, Zenon DEF IsOverModels, Over, AutoCompressAll, FreshHub
<1>9. f[Len(models)] \in S
  <2>1. Len(models) \in 0 .. Len(models)
    OBVIOUS
  <2> QED BY <1>7, <2>1 DEF IsOverModels
<1> QED BY <1>1, <1>2, <1>8, <1>9

-----------------------------------------------------------------------------
(* The tasks that run batches. *)

Once(i) == AutoCompressAll(i.rows, i.base, i.models, i.hub)
Again(i) == AutoCompressAll(i.rows, Once(i).base, i.models, i.hub)
Bundled(i) ==
    RunPairs(i.rows, FreshHub(i.base),
             IF i.flex THEN FlexBundle(i.rows, i.models, i.byParam, i.minPercent)
                       ELSE StarBundle(i.rows, i.models, i.byParam))

\* The inputs are hubs that batches start from.
LEMMA CatalogueIsHub ==
    ASSUME NEW rows, NEW base, CatalogueFits(rows, base)
    PROVE  FitsBatch(rows, base)
<1>1. RowsFit(rows)
  BY DEF CatalogueFits, RowsFit
<1>2. base \in Deltas(DOMAIN rows)
  BY DEF CatalogueFits, Deltas
<1> QED BY <1>1, <1>2 DEF CatalogueFits, FitsBatch

\* What a hub that a batch passes through is to the one it started from.
LEMMA StateIsHub ==
    ASSUME NEW rows, NEW base, FitsBatch(rows, base), NEW P, NEW h \in HubStates(DOMAIN rows, base, P)
    PROVE  /\ FitsBatch(rows, h.base)
           /\ \A t \in DOMAIN base : base[t] # 0 => h.base[t] = base[t]
BY DEF HubStates, FitsBatch, Extends

\* What a task finds when it compresses all, and does so again.
LEMMA OnceKeeps ==
    ASSUME NEW i \in BatchInputs
    PROVE  /\ Acyclic(Once(i).base)
           /\ \A t \in DOMAIN i.base : i.base[t] # 0 => Once(i).base[t] = i.base[t]
           /\ Compressed(Again(i)) = {}
<1>1. PICK rows, base, hub, models, E :
        rows = i.rows /\ base = i.base /\ hub = i.hub /\ models = i.models /\ E = Range(models)
  OBVIOUS
<1>2. /\ CatalogueFits(rows, base) /\ hub \in Seq(DOMAIN rows) /\ models \in Seq(E)
      /\ \A m \in E : m.map \in Seq(Range(m.map))
  BY <1>1, BatchInputsFit
<1>3. FitsBatch(rows, base)
  BY <1>2, CatalogueIsHub
<1>4. ASSUME NEW m \in E PROVE Plans(rows, hub, m)
  <2>1. PICK model, X : model = m.map /\ X = Range(m.map) /\ model \in Seq(X)
    BY <1>2
  <2>2. PlanModel(rows, hub, model) \in Seq(PairsOn(DOMAIN rows))
    BY <1>2, <1>3, <2>1, PlanModelIs DEF FitsBatch
  <2> QED BY <2>1, <2>2 DEF Plans
<1>5. PICK r : r = AutoCompressAll(rows, base, models, hub)
  OBVIOUS
<1>6. AllKept(rows, base, models, hub, r)
  BY <1>2, <1>3, <1>4, <1>5, AllSettle
<1>7. FitsBatch(rows, r.base) /\ \A t \in DOMAIN base : base[t] # 0 => r.base[t] = base[t]
  BY <1>3, <1>6, StateIsHub DEF AllKept
<1>8. PICK q : q = AutoCompressAll(rows, r.base, models, hub)
  OBVIOUS
<1>9. q \in HubStates(DOMAIN rows, r.base, PairsOn(DOMAIN rows)) /\ NoneOk(q)
  <2>1. \A k \in DOMAIN models : ModelSettled(rows, hub, r.base, models[k])
    BY <1>6 DEF AllKept
  <2> QED BY <1>2, <1>4, <1>7, <1>8, <2>1, AllRefused
<1>10. Compressed(q) = {}
  <2>1. DOMAIN q.results = 1 .. Len(q.results)
    BY <1>9 DEF HubStates
  <2> QED BY <1>9, <2>1 DEF NoneOk, Compressed
<1>11. Once(i) = r /\ Again(i) = q
  BY <1>1, <1>5, <1>8 DEF Once, Again
<1> QED BY <1>1, <1>7, <1>10, <1>11 DEF FitsBatch

\* What a task finds when it compresses a bundle.
LEMMA BundledKeeps ==
    ASSUME NEW i \in BundleInputs
    PROVE  /\ Acyclic(Bundled(i).base)
           /\ \A t \in DOMAIN i.base : i.base[t] # 0 => Bundled(i).base[t] = i.base[t]
<1>1. PICK rows, base, models, E, D, X :
        /\ rows = i.rows /\ base = i.base /\ models = i.models /\ E = Range(models) /\ D = DOMAIN rows
        /\ X = UNION {Range(m) : m \in E}
  OBVIOUS
<1>2. CatalogueFits(rows, base) /\ models \in Seq(E) /\ \A m \in E : m \in Seq(Range(m))
  BY <1>1, BatchInputsFit
<1>3. FitsBatch(rows, base)
  BY <1>2, CatalogueIsHub
<1>4. models \in Seq(Seq(X))
  <2>1. ASSUME NEW m \in E PROVE m \in Seq(X)
    <3>1. PICK n \in Nat : m \in [1 .. n -> Range(m)]
      BY <1>2
    <3>2. Range(m) \subseteq X
      BY <1>1
    <3>3. m \in [1 .. n -> X]
      BY <3>1, <3>2
    <3> QED BY <3>3
  <2>2. PICK k \in Nat : models \in [1 .. k -> E]
    BY <1>2
  <2>3. models \in [1 .. k -> Seq(X)]
    BY <2>1, <2>2
  <2> QED BY <2>3
<1>5. PICK pairs : pairs = IF i.flex THEN FlexBundle(rows, models, i.byParam, i.minPercent)
                                     ELSE StarBundle(rows, models, i.byParam)
  OBVIOUS
<1>6. pairs \in Seq(PairsOn(D))
  <2>1. RowsFit(rows)
    BY <1>3 DEF FitsBatch
  <2>2. FlexBundle(rows, models, i.byParam, i.minPercent) \in Seq(PairsOn(D))
    BY <1>1, <1>4, <2>1, FlexBundleIs
  <2>3. StarBundle(rows, models, i.byParam) \in Seq(PairsOn(D))
    BY <1>1, <1>4, <2>1, StarBundleIs
  <2> QED BY <1>5, <2>2, <2>3
<1>7. PICK h, r : h = FreshHub(base) /\ r = RunPairs(rows, h, pairs)
  OBVIOUS
<1>8. h \in HubStates(D, base, PairsOn(D))
  BY <1>1, <1>3, <1>7, BatchStarts
<1>9. r \in HubStates(D, base, PairsOn(D))
  <2>1. IsFiniteSet(D) /\ 0 \notin D /\ base \in Deltas(D) /\ PairsIn(D, PairsOn(D))
    BY <1>1, <1>3, PairsOnAre DEF FitsBatch
  <2> QED BY <1>6, <1>7, <1>8, <2>1, PairsSettle
<1>10. FitsBatch(rows, r.base) /\ \A t \in DOMAIN base : base[t] # 0 => r.base[t] = base[t]
  BY <1>1, <1>3, <1>9, StateIsHub
<1>11. Bundled(i) = r
  BY <1>1, <1>5, <1>7 DEF Bundled
<1> QED BY <1>1, <1>10, <1>11 DEF FitsBatch

\* The answer of such a task is that of its calls.
BatchInv ==
    /\ task = "batch" =>
          /\ input \in BatchInputs
          /\ \/ answer = Nothing
             \/ answer = <<[once |-> Once(input), again |-> FALSE]>>
             \/ answer = <<[once |-> Once(input), again |-> TRUE, twice |-> Again(input)]>>
    /\ task = "bundle" => input \in BundleInputs /\ (answer = Nothing \/ answer = <<Bundled(input)>>)

\* Each of their steps keeps it.
LEMMA BatchKept ==
    ASSUME BatchInv, [OfflineNext]_offline
    PROVE  BatchInv'
<1>1. CASE task \notin {"batch", "bundle"} \/ answer' = answer
  BY <1>1, OneTask DEF BatchInv
<1>2. CASE task = "batch" /\ answer' # answer /\ CompressAll
  <2>1. answer' = <<[once |-> Once(input), again |-> FALSE]>>
    BY <1>2 DEF CompressAll, Answer, Once
  <2> QED BY <1>2, <2>1, OneTask DEF BatchInv
<1>3. CASE task = "batch" /\ answer' # answer /\ CompressAllAgain
  <2>1. Result.again = FALSE /\ answer # Nothing
    BY <1>3 DEF CompressAllAgain, Done
  <2>2. answer # <<[once |-> Once(input), again |-> TRUE, twice |-> Again(input)]>>
    BY <2>1 DEF Result
  <2>3. Result.once = Once(input)
    BY <1>3, <2>1, <2>2 DEF BatchInv, Result
  <2>4. answer' = <<[once |-> Once(input), again |-> TRUE, twice |-> Again(input)]>>
    BY <1>3, <2>3 DEF CompressAllAgain, Again
  <2> QED BY <1>3, <2>4, OneTask DEF BatchInv
<1>4. CASE task = "bundle" /\ answer' # answer /\ CompressBundle
  <2>1. answer' = <<Bundled(input)>>
    BY <1>4 DEF CompressBundle, Answer, Bundled, FreshHub
  <2> QED BY <1>4, <2>1, OneTask DEF BatchInv
<1> QED BY <1>1, <1>2, <1>3, <1>4, OneTask

\* Whatever the catalogue, the models, their plans and the deltas of the hub, a
\* batch leaves a forest that has all the deltas there were, and the catalogue
\* done again compresses nothing: the pairs of a plan do not depend on the
\* deltas, and a pair that was refused once is refused ever after.
THEOREM BatchesLeaveTrees == OfflineSpec => []BatchLeavesTrees
<1>1. OfflineInit => BatchInv
  BY InputsOf DEF BatchInv
<1>2. BatchInv /\ [OfflineNext]_offline => BatchInv'
  BY BatchKept
<1>3. BatchInv => BatchLeavesTrees
  <2>1. ASSUME BatchInv, task = "batch", Done
        PROVE  /\ Acyclic(Result.once.base)
               /\ \A t \in DOMAIN input.base :
                     input.base[t] # 0 => Result.once.base[t] = input.base[t]
               /\ Result.again => Compressed(Result.twice) = {}
    <3>1. input \in BatchInputs /\ answer # Nothing
      BY <2>1 DEF BatchInv, Done
    <3>2. Result.once = Once(input) /\ (Result.again => Result.twice = Again(input))
      BY <2>1, <3>1 DEF BatchInv, Result
    <3> QED BY <3>1, <3>2, OnceKeeps
  <2>2. ASSUME BatchInv, task = "bundle", Done
        PROVE  /\ Acyclic(Result.base)
               /\ \A t \in DOMAIN input.base : input.base[t] # 0 => Result.base[t] = input.base[t]
    <3>1. input \in BundleInputs /\ Result = Bundled(input)
      BY <2>2 DEF BatchInv, Done, Result
    <3> QED BY <3>1, BundledKeeps
  <2> QED BY <2>1, <2>2 DEF BatchLeavesTrees
<1> QED BY <1>1, <1>2, <1>3, PTL DEF OfflineSpec

-----------------------------------------------------------------------------
(* What a split pays. *)

\* A recursion by which the differences of two columns are summed is a sum.
Differs(f, R, S, b, c) == \A m \in S : f[m] = R[m][b] - R[m][c]

\* The sum of the differences of two columns.
LEMMA DifferencesAre ==
    ASSUME NEW S, IsFiniteSet(S), NEW R, NEW b, NEW c, NEW f, Numbers(f, S), Differs(f, R, S, b, c)
    PROVE  MapThenSumSet(LAMBDA m : R[m][b] - R[m][c], S) = SumOf(f, S)
<1> DEFINE Rec(it) == it = [s \in SUBSET S |-> IF s = {} THEN 0
                        ELSE (R[AnyOf(s)][b] - R[AnyOf(s)][c]) + it[s \ {AnyOf(s)}]]
           iter == CHOOSE it : Rec(it)
<1>1. ASSUME NEW it PROVE IsSum(it, S, f) <=> Rec(it)
  <2>1. ASSUME NEW s \in SUBSET S, s # {}
        PROVE  f[AnyOf(s)] = R[AnyOf(s)][b] - R[AnyOf(s)][c]
    <3>1. AnyOf(s) \in S
      BY <2>1, AnyIsIn
    <3> QED BY <3>1 DEF Differs
  <2>2. [s \in SUBSET S |-> IF s = {} THEN 0 ELSE f[AnyOf(s)] + it[s \ {AnyOf(s)}]]
          = [s \in SUBSET S |-> IF s = {} THEN 0
                        ELSE (R[AnyOf(s)][b] - R[AnyOf(s)][c]) + it[s \ {AnyOf(s)}]]
    BY <2>1
  <2> QED BY <2>2 DEF IsSum
<1>2. \E it : Rec(it)
  <2>1. PICK it \in [SUBSET S -> Int] : IsSum(it, S, f)
    BY SumExists
  <2> HIDE DEF Rec
  <2> QED BY <1>1, <2>1
<1>3. Rec(iter)
  <2> HIDE DEF Rec
  <2> QED BY <1>2, Zenon
<1>4. MapThenSumSet(LAMBDA m : R[m][b] - R[m][c], S) = iter[S]
  BY Zenon DEF MapThenSumSet, MapThenFoldSet, AnyOf
<1> HIDE DEF iter, Rec
<1>5. PICK kt : Sums(kt, S, f) /\ SumOf(f, S) = kt[S]
  BY SumOfIs
<1>6. iter[S] = kt[S]
  BY <1>1, <1>3, <1>5, SumUnique DEF Sums
<1> QED BY <1>4, <1>5, <1>6

\* f reads the column b.
Reads(f, R, S, b) == \A m \in S : f[m] = R[m][b]

\* The sum of a column.
LEMMA ColumnIs ==
    ASSUME NEW S, IsFiniteSet(S), NEW R, NEW b, NEW f, Numbers(f, S), Reads(f, R, S, b)
    PROVE  MapThenSumSet(LAMBDA m : R[m][b], S) = SumOf(f, S)
<1> DEFINE Rec(it) == it = [s \in SUBSET S |-> IF s = {} THEN 0
                        ELSE R[AnyOf(s)][b] + it[s \ {AnyOf(s)}]]
           iter == CHOOSE it : Rec(it)
<1>1. ASSUME NEW it PROVE IsSum(it, S, f) <=> Rec(it)
  <2>1. ASSUME NEW s \in SUBSET S, s # {}
        PROVE  f[AnyOf(s)] = R[AnyOf(s)][b]
    BY <2>1, AnyIsIn DEF Reads
  <2>2. [s \in SUBSET S |-> IF s = {} THEN 0 ELSE f[AnyOf(s)] + it[s \ {AnyOf(s)}]]
          = [s \in SUBSET S |-> IF s = {} THEN 0 ELSE R[AnyOf(s)][b] + it[s \ {AnyOf(s)}]]
    BY <2>1
  <2> QED BY <2>2 DEF IsSum
<1>2. \E it : Rec(it)
  <2>1. PICK it \in [SUBSET S -> Int] : IsSum(it, S, f)
    BY SumExists
  <2> HIDE DEF Rec
  <2> QED BY <1>1, <2>1
<1>3. Rec(iter)
  <2> HIDE DEF Rec
  <2> QED BY <1>2, Zenon
<1>4. MapThenSumSet(LAMBDA m : R[m][b], S) = iter[S]
  BY Zenon DEF MapThenSumSet, MapThenFoldSet, AnyOf
<1> HIDE DEF iter, Rec
<1>5. PICK kt : Sums(kt, S, f) /\ SumOf(f, S) = kt[S]
  BY SumOfIs
<1>6. iter[S] = kt[S]
  BY <1>1, <1>3, <1>5, SumUnique DEF Sums
<1> QED BY <1>4, <1>5, <1>6

\* What the members of a plan cost.
LEMMA CostIs ==
    ASSUME NEW plan, IsFiniteSet(DOMAIN plan), NEW f, Numbers(f, DOMAIN plan),
           \A i \in DOMAIN plan : f[i] = plan[i].cr
    PROVE  PlanCost(plan) = SumOf(f, DOMAIN plan)
<1>0. PICK S : S = DOMAIN plan
  OBVIOUS
<1> DEFINE Rec(it) == it = [s \in SUBSET S |-> IF s = {} THEN 0
                        ELSE plan[AnyOf(s)].cr + it[s \ {AnyOf(s)}]]
           iter == CHOOSE it : Rec(it)
<1>1. ASSUME NEW it PROVE IsSum(it, S, f) <=> Rec(it)
  <2>1. ASSUME NEW s \in SUBSET S, s # {}
        PROVE  f[AnyOf(s)] = plan[AnyOf(s)].cr
    BY <1>0, <2>1, AnyIsIn
  <2>2. [s \in SUBSET S |-> IF s = {} THEN 0 ELSE f[AnyOf(s)] + it[s \ {AnyOf(s)}]]
          = [s \in SUBSET S |-> IF s = {} THEN 0 ELSE plan[AnyOf(s)].cr + it[s \ {AnyOf(s)}]]
    BY <2>1
  <2> QED BY <2>2 DEF IsSum
<1>2. \E it : Rec(it)
  <2>1. PICK it \in [SUBSET S -> Int] : IsSum(it, S, f)
    BY <1>0, SumExists
  <2> HIDE DEF Rec
  <2> QED BY <1>1, <2>1
<1>3. Rec(iter)
  <2> HIDE DEF Rec
  <2> QED BY <1>2, Zenon
<1>4. PlanCost(plan) = iter[S]
  BY <1>0, Zenon DEF PlanCost, MapThenSumSet, MapThenFoldSet, AnyOf
<1> HIDE DEF iter, Rec
<1>5. PICK kt : Sums(kt, S, f) /\ SumOf(f, S) = kt[S]
  BY <1>0, SumOfIs
<1>6. iter[S] = kt[S]
  BY <1>0, <1>1, <1>3, <1>5, SumUnique DEF Sums
<1> QED BY <1>0, <1>4, <1>5, <1>6

\* R has a ratio for each two of n tensors.
Square(R, n) == DOMAIN R = 1 .. n /\ \A i \in 1 .. n, j \in 1 .. n : R[i][j] \in Int

\* The ratios against base b, and what each tensor gains by the base c.
Column(R, n, b) == [i \in 1 .. n |-> R[i][b]]
Rebates(R, n, b, c) == [i \in 1 .. n |-> R[i][b] - R[i][c]]

\* What a new base gains is what its movers save less what it costs.
LEMMA GainIs ==
    ASSUME NEW n \in Nat, NEW R, Square(R, n), NEW members \in SUBSET (1 .. n),
           NEW b \in 1 .. n, NEW c \in 1 .. n
    PROVE  /\ Gain(R, members, b, c)
                = SumOf(Rebates(R, n, b, c), Movers(R, members, b, c)) - (Full - R[c][b])
           /\ Gain(R, members, b, c) \in Int
<1>1. PICK f : f = Rebates(R, n, b, c)
  OBVIOUS
<1>2. PICK S : S = Movers(R, members, b, c)
  OBVIOUS
<1>3. S \in SUBSET (1 .. n)
  BY <1>2 DEF Movers
<1>4. IsFiniteSet(S)
  <2>1. IsFiniteSet(1 .. n)
    BY FS_Interval
  <2> QED BY <1>3, <2>1, FS_Subset
<1>5. Numbers(f, S) /\ Differs(f, R, S, b, c)
  BY <1>1, <1>3 DEF Numbers, Differs, Rebates, Square
<1>6. MapThenSumSet(LAMBDA m : R[m][b] - R[m][c], S) = SumOf(f, S)
  BY <1>4, <1>5, DifferencesAre
<1>7. Gain(R, members, b, c) = MapThenSumSet(LAMBDA m : R[m][b] - R[m][c], S) - (Full - R[c][b])
  BY <1>2, Zenon DEF Gain
<1>8. PICK k \in Int : k = SumOf(f, S)
  BY <1>4, <1>5, SumFacts
<1>9. PICK w \in Int : w = Full - R[c][b]
  <2>1. Full \in Int /\ R[c][b] \in Int
    BY PlannerConstants DEF Square
  <2> QED BY <2>1
<1>10. Gain(R, members, b, c) = k - w /\ SumOf(f, S) - (Full - R[c][b]) = k - w
  BY <1>6, <1>7, <1>8, <1>9
<1> QED BY <1>1, <1>2, <1>10

\* What is opened gains.
LEMMA BestGains ==
    ASSUME NEW n \in Nat, NEW R, Square(R, n), NEW members \in SUBSET (1 .. n), NEW b \in 1 .. n,
           BestOpen(R, members, b) # 0
    PROVE  /\ BestOpen(R, members, b) \in members
           /\ Gain(R, members, b, BestOpen(R, members, b)) > 0
<1>1. PICK S, E : S = {0} \union {c \in members : Gain(R, members, b, c) > 0} /\ E = 1 .. n
  OBVIOUS
<1>2. ASSUME NEW v \in S, NEW e \in E PROVE BetterOpen(R, members, b, v, e) \in S
  <2>1. CASE e \in members /\ Gain(R, members, b, e) > (IF v = 0 THEN 0 ELSE Gain(R, members, b, v))
    <3>1. Gain(R, members, b, e) > 0
      <4>1. PICK x \in Int : x = Gain(R, members, b, e)
        BY <1>1, GainIs
      <4>2. CASE v = 0
        BY <2>1, <4>2
      <4>3. CASE v # 0
        <5>1. v \in members /\ Gain(R, members, b, v) > 0
          BY <1>1, <4>3
        <5>2. PICK y \in Int : y = Gain(R, members, b, v)
          BY <5>1, GainIs
        <5> QED BY <2>1, <4>1, <4>3, <5>1, <5>2
      <4> QED BY <4>2, <4>3
    <3>2. e \in S
      BY <1>1, <2>1, <3>1
    <3>3. BetterOpen(R, members, b, v, e) = e
      BY <2>1, Zenon DEF BetterOpen
    <3> QED BY <3>2, <3>3
  <2>2. CASE ~(e \in members /\ Gain(R, members, b, e) > (IF v = 0 THEN 0 ELSE Gain(R, members, b, v)))
    <3>1. BetterOpen(R, members, b, v, e) = v
      BY <2>2, Zenon DEF BetterOpen
    <3> QED BY <3>1
  <2> QED BY <2>1, <2>2
<1>3. BestStays(R, members, b, S, E)
  BY <1>2 DEF BestStays
<1>4. 0 \in S /\ PlacesOf(R) \in Seq(E)
  BY <1>1 DEF PlacesOf, Square
<1>5. BestOpen(R, members, b) \in S
  BY <1>3, <1>4, BestRun
<1> QED BY <1>1, <1>5

\* A price is paid for each tensor: the whole of a base, and no more for another
\* than it costs against any base.
Charged(price, R, n, A) ==
    /\ price \in [1 .. n -> Int] /\ A \in SUBSET (1 .. n)
    /\ \A i \in 1 .. n : i \in A => price[i] = Full
    /\ \A i \in 1 .. n, a \in A : i \notin A => price[i] <= R[i][a]

\* With the bases O opened in it the star of b costs no more than it did.
NoDearer(R, n, O, members, b) ==
    /\ O \subseteq members
    /\ \A A, price : Charged(price, R, n, A) /\ b \in A /\ A \cap members = O =>
          SumOf(price, members) <= SumOf(Column(R, n, b), members)

\* Prices and ratios are numbers.
LEMMA PricesAre ==
    ASSUME NEW n \in Nat, NEW R, Square(R, n), NEW b \in 1 .. n, NEW S \in SUBSET (1 .. n),
           NEW price \in [1 .. n -> Int]
    PROVE  /\ IsFiniteSet(S) /\ Numbers(price, S) /\ Numbers(Column(R, n, b), S)
           /\ SumOf(price, S) \in Int /\ SumOf(Column(R, n, b), S) \in Int
<1>1. IsFiniteSet(S)
  <2>1. IsFiniteSet(1 .. n)
    BY FS_Interval
  <2> QED BY <2>1, FS_Subset
<1>2. Numbers(price, S) /\ Numbers(Column(R, n, b), S)
  BY DEF Numbers, Column, Square
<1> QED BY <1>1, <1>2, SumFacts

\* Of a star that is not split nothing gets dearer.
LEMMA NoneOpened ==
    ASSUME NEW n \in Nat, NEW R, Square(R, n), NEW members \in SUBSET (1 .. n), NEW b \in 1 .. n
    PROVE  NoDearer(R, n, {}, members, b)
<1>1. ASSUME NEW A, NEW price, Charged(price, R, n, A), b \in A, A \cap members = {}
      PROVE  SumOf(price, members) <= SumOf(Column(R, n, b), members)
  <2>1. price \in [1 .. n -> Int]
    BY <1>1 DEF Charged
  <2>2. PICK f : f = Column(R, n, b)
    OBVIOUS
  <2>3. \A x \in members : price[x] <= f[x]
    BY <1>1, <2>2 DEF Charged, Column
  <2>4. IsFiniteSet(members) /\ Numbers(price, members) /\ Numbers(f, members)
    BY <2>1, <2>2, PricesAre
  <2>5. SumOf(price, members) <= SumOf(f, members)
    BY <2>3, <2>4, SumsCompare
  <2> QED BY <2>2, <2>5
<1> QED BY <1>1, Zenon DEF NoDearer

\* The sum over a star is that of the member opened, of its movers and of the rest.
LEMMA StarSplits ==
    ASSUME NEW members, IsFiniteSet(members), NEW c \in members, NEW move \in SUBSET members, c \notin move
    PROVE  \A f : Numbers(f, members) =>
              SumOf(f, members) = SumOf(f, move) + SumOf(f, members \ (move \union {c})) + f[c]
<1> SUFFICES ASSUME NEW f, Numbers(f, members)
             PROVE  SumOf(f, members) = SumOf(f, move) + SumOf(f, members \ (move \union {c})) + f[c]
  OBVIOUS
<1>0. PICK stay : stay = members \ (move \union {c})
  OBVIOUS
<1>1. IsFiniteSet(move) /\ IsFiniteSet(stay) /\ move \cap stay = {} /\ move \union stay = members \ {c}
  BY <1>0, FS_Subset
<1>2. Numbers(f, move \union stay)
  BY <1>1 DEF Numbers
<1>3. SumOf(f, move \union stay) = SumOf(f, move) + SumOf(f, stay)
  BY <1>1, <1>2, SumSplits
<1>4. SumOf(f, members) = SumOf(f, members \ {c}) + f[c]
  BY SumFacts
<1> QED BY <1>0, <1>1, <1>3, <1>4

\* s opens bases that pay in what is smaller than members.
PaysBelow(R, n, s, members, B) ==
    \A c \in members, part \in SUBSET members : c \notin part =>
        \A b \in B : NoDearer(R, n, s[part][b], part, b)

\* Then so does a split of members: what the new base gains exceeds what it costs.
LEMMA OpenedPays ==
    ASSUME NEW n \in Nat, NEW R, Square(R, n), NEW B \in SUBSET (1 .. n), NEW members \in SUBSET B,
           NEW b \in B, NEW minPercent, NEW s, PaysBelow(R, n, s, members, B)
    PROVE  NoDearer(R, n, Opened(R, s, members, b, minPercent), members, b)
<1>1. PICK c : c = BestOpen(R, members, b)
  OBVIOUS
<1>2. PICK move : move = Movers(R, members, b, c)
  OBVIOUS
<1>3. PICK stay : stay = members \ (move \union {c})
  OBVIOUS
<1>4. PICK X, Y : /\ X = (IF Cardinality(stay) >= 2 THEN s[stay][b] ELSE {})
                  /\ Y = (IF Cardinality(move) >= 2 THEN s[move][c] ELSE {})
  OBVIOUS
<1>5. Opened(R, s, members, b, minPercent) =
         IF StaysWhole(R, members, b, minPercent) THEN {} ELSE {c} \union X \union Y
  BY <1>1, <1>2, <1>3, <1>4, Zenon DEF Opened
<1>6. b \in 1 .. n /\ members \in SUBSET (1 .. n)
  OBVIOUS
<1>7. CASE StaysWhole(R, members, b, minPercent)
  <2>1. Opened(R, s, members, b, minPercent) = {}
    BY <1>5, <1>7
  <2> QED BY <1>6, <2>1, NoneOpened
<1>8. CASE ~StaysWhole(R, members, b, minPercent)
  <2>0. Opened(R, s, members, b, minPercent) = {c} \union X \union Y
    BY <1>5, <1>8
  <2>1. c \in members /\ Gain(R, members, b, c) > 0
    <3>1. c # 0
      BY <1>1, <1>8, Zenon DEF StaysWhole
    <3> QED BY <1>1, <1>6, <3>1, BestGains
  <2>2. move \in SUBSET members /\ c \notin move /\ stay \in SUBSET members /\ c \notin stay
    BY <1>2, <1>3 DEF Movers
  <2>3. c \in B /\ c \in 1 .. n /\ move \in SUBSET (1 .. n) /\ stay \in SUBSET (1 .. n)
    BY <2>1, <2>2
  <2>4. NoDearer(R, n, X, stay, b)
    <3>1. NoDearer(R, n, s[stay][b], stay, b)
      BY <2>1, <2>2 DEF PaysBelow
    <3>2. NoDearer(R, n, {}, stay, b)
      BY <1>6, <2>3, NoneOpened
    <3> QED BY <1>4, <3>1, <3>2
  <2>5. NoDearer(R, n, Y, move, c)
    <3>1. NoDearer(R, n, s[move][c], move, c)
      BY <2>1, <2>2, <2>3 DEF PaysBelow
    <3>2. NoDearer(R, n, {}, move, c)
      BY <2>3, NoneOpened
    <3> QED BY <1>4, <3>1, <3>2
  <2>6. X \subseteq stay /\ Y \subseteq move
    BY <2>4, <2>5 DEF NoDearer
  <2>7. ASSUME NEW A, NEW price, Charged(price, R, n, A), b \in A,
               A \cap members = {c} \union X \union Y
        PROVE  SumOf(price, members) <= SumOf(Column(R, n, b), members)
    <3>1. c \in A /\ A \cap stay = X /\ A \cap move = Y
      BY <1>3, <2>1, <2>2, <2>6, <2>7
    <3>2. SumOf(price, stay) <= SumOf(Column(R, n, b), stay)
      BY <2>4, <2>7, <3>1 DEF NoDearer
    <3>3. SumOf(price, move) <= SumOf(Column(R, n, c), move)
      BY <2>5, <2>7, <3>1 DEF NoDearer
    <3>4. price \in [1 .. n -> Int] /\ price[c] = Full
      BY <2>3, <2>7, <3>1 DEF Charged
    <3>5. PICK f, g, d : f = Column(R, n, b) /\ g = Column(R, n, c) /\ d = Rebates(R, n, b, c)
      OBVIOUS
    <3>6. /\ IsFiniteSet(members) /\ Numbers(price, members) /\ Numbers(f, members)
          /\ SumOf(price, members) \in Int /\ SumOf(f, members) \in Int
      BY <1>6, <3>4, <3>5, PricesAre
    <3>7. /\ IsFiniteSet(move) /\ Numbers(g, move) /\ SumOf(g, move) \in Int
          /\ SumOf(price, move) \in Int /\ SumOf(f, move) \in Int
      BY <1>6, <2>3, <3>4, <3>5, PricesAre
    <3>8. SumOf(price, stay) \in Int /\ SumOf(f, stay) \in Int
      BY <1>6, <2>3, <3>4, <3>5, PricesAre
    <3>9. Numbers(d, move) /\ \A i \in move : f[i] = d[i] + g[i]
      <4>1. ASSUME NEW i \in move PROVE d[i] \in Int /\ f[i] = d[i] + g[i]
        <5>1. PICK x \in Int, y \in Int : x = R[i][b] /\ y = R[i][c]
          BY <1>6, <2>3 DEF Square
        <5>2. f[i] = x /\ g[i] = y /\ d[i] = x - y
          BY <2>3, <3>5, <5>1 DEF Column, Rebates
        <5> QED BY <5>2
      <4> QED BY <4>1 DEF Numbers
    <3>10. SumOf(f, move) = SumOf(d, move) + SumOf(g, move)
      BY <3>7, <3>9, SumsCompare
    <3>11. \A h : Numbers(h, members) => SumOf(h, members) = SumOf(h, move) + SumOf(h, stay) + h[c]
      <4>1. IsFiniteSet(members)
        BY <3>6
      <4>2. \A h : Numbers(h, members) =>
              SumOf(h, members) = SumOf(h, move) + SumOf(h, members \ (move \union {c})) + h[c]
        BY <2>1, <2>2, <4>1, StarSplits
      <4> QED BY <1>3, <4>2
    <3>12. SumOf(price, members) = SumOf(price, move) + SumOf(price, stay) + price[c]
      BY <3>6, <3>11
    <3>13. SumOf(f, members) = SumOf(f, move) + SumOf(f, stay) + f[c]
      BY <3>6, <3>11
    <3>14. SumOf(d, move) \in Int
      BY <3>7, <3>9, SumFacts
    <3>15. PICK x \in Int, whole \in Int : x = R[c][b] /\ whole = Full /\ f[c] = x
      BY <1>6, <2>3, <3>5, PlannerConstants DEF Square, Column
    <3>16. SumOf(d, move) - (whole - x) > 0
      <4>1. Gain(R, members, b, c) = SumOf(d, move) - (Full - R[c][b])
        BY <1>2, <1>6, <2>3, <3>5, GainIs
      <4> QED BY <2>1, <3>15, <4>1
    <3>17. PICK pm \in Int, ps \in Int, fm \in Int, fs \in Int, gm \in Int, dm \in Int :
              /\ pm = SumOf(price, move) /\ ps = SumOf(price, stay) /\ fm = SumOf(f, move)
              /\ fs = SumOf(f, stay) /\ gm = SumOf(g, move) /\ dm = SumOf(d, move)
      BY <3>7, <3>8, <3>14
    <3>18. ps <= fs /\ pm <= gm /\ fm = dm + gm /\ dm - (whole - x) > 0
      BY <3>2, <3>3, <3>5, <3>10, <3>16, <3>17
    <3>19. pm + ps + whole <= fm + fs + x
      BY <3>18
    <3>20. SumOf(price, members) = pm + ps + whole /\ SumOf(f, members) = fm + fs + x
      BY <3>4, <3>12, <3>13, <3>15, <3>17
    <3> QED BY <3>5, <3>19, <3>20
  <2>8. {c} \union X \union Y \subseteq members
    BY <2>1, <2>2, <2>6
  <2> QED BY <2>0, <2>7, <2>8, Zenon DEF NoDearer
<1> QED BY <1>7, <1>8

\* However a star is split, nothing gets dearer.
LEMMA SplitPays ==
    ASSUME NEW n \in Nat, NEW R, Square(R, n), NEW all \in SUBSET (1 .. n), NEW start \in 1 .. n,
           NEW minPercent
    PROVE  NoDearer(R, n, Split(R, all, start, minPercent), all, start)
<1>1. PICK B : B = {start} \union all /\ all \subseteq B /\ B \in SUBSET (1 .. n)
  OBVIOUS
<1>2. IsFiniteSet(all) /\ Listed(R)
  <2>1. IsFiniteSet(1 .. n)
    BY FS_Interval
  <2> QED BY <2>1, FS_Subset DEF Listed, Square
<1>3. PICK m \in Nat : m = Cardinality(all)
  BY <1>2, FS_CardinalityType
<1>4. PICK s : IsSplit(s, R, all, B, minPercent) /\ Split(R, all, start, minPercent) = s[all][start]
  <2>1. PICK s : SplitsBy(s, R, all, start, minPercent)
    BY <1>2, SplitBy
  <2> QED BY <1>1, <2>1, Zenon DEF SplitsBy
<1>5. \A members \in SUBSET all, base \in B : s[members][base] = Opened(R, s, members, base, minPercent)
  <2>1. ASSUME NEW members \in SUBSET all
        PROVE  s[members] = [base \in B |-> Opened(R, s, members, base, minPercent)]
    BY <1>4, Zenon DEF IsSplit
  <2> QED BY <2>1
<1> DEFINE T == {k \in 0 .. m + 1 :
                   \A members \in SUBSET all : Cardinality(members) < k =>
                      \A base \in B : NoDearer(R, n, s[members][base], members, base)}
<1>6. 0 \in T
  <2>1. ASSUME NEW members \in SUBSET all PROVE ~(Cardinality(members) < 0)
    <3>1. Cardinality(members) \in Nat
      BY <1>2, FS_Subset, FS_CardinalityType
    <3> QED BY <3>1
  <2> QED BY <2>1
<1>7. ASSUME NEW k \in 0 .. (m + 1) - 1, k \in T PROVE k + 1 \in T
  <2>1. ASSUME NEW members \in SUBSET all, Cardinality(members) < k + 1, NEW base \in B
        PROVE  NoDearer(R, n, s[members][base], members, base)
    <3>1. PaysBelow(R, n, s, members, B)
      <4> SUFFICES ASSUME NEW c \in members, NEW part \in SUBSET members, c \notin part, NEW b \in B
                   PROVE  NoDearer(R, n, s[part][b], part, b)
        BY DEF PaysBelow
      <4>1. Cardinality(part) \in Nat /\ Cardinality(members) \in Nat /\ Cardinality(part) < Cardinality(members)
        BY <1>2, SmallerPart
      <4>2. Cardinality(part) < k /\ part \in SUBSET all
        BY <2>1, <4>1
      <4> QED BY <1>7, <4>2
    <3>2. NoDearer(R, n, Opened(R, s, members, base, minPercent), members, base)
      <4>1. members \in SUBSET B
        BY <1>1
      <4> HIDE DEF T
      <4> QED BY <1>1, <3>1, <4>1, OpenedPays
    <3> QED BY <1>5, <3>2
  <2>2. k + 1 \in 0 .. m + 1
    OBVIOUS
  <2> QED BY <2>1, <2>2
<1>8. m + 1 \in T
  <2>1. 0 .. m + 1 \subseteq T /\ m + 1 \in 0 .. m + 1
    <3>1. m + 1 \in Nat
      OBVIOUS
    <3> HIDE DEF T
    <3>2. 0 .. m + 1 \subseteq T
      BY <1>6, <1>7, <3>1, InductionUpTo
    <3> QED BY <3>2
  <2> HIDE DEF T
  <2> QED BY <2>1
<1>9. all \in SUBSET all /\ Cardinality(all) < m + 1 /\ start \in B
  BY <1>1, <1>3
<1> QED BY <1>4, <1>8, <1>9

\* The first tensor whole and n - 1 more.
LEMMA StarCostIs ==
    ASSUME NEW n \in Nat \ {0}, NEW R, Square(R, n)
    PROVE  StarCost(R, 2 .. n, 1) = Full + SumOf(Column(R, n, 1), 2 .. n)
<1>1. PICK S, b, f : S = 2 .. n /\ b = 1 /\ f = Column(R, n, b)
  OBVIOUS
<1>2. IsFiniteSet(S) /\ b \in 1 .. n /\ S \subseteq 1 .. n
  BY <1>1, FS_Interval
<1>3. Numbers(f, S) /\ Reads(f, R, S, b)
  BY <1>1, <1>2 DEF Numbers, Reads, Column, Square
<1>4. MapThenSumSet(LAMBDA m : R[m][b], S) = SumOf(f, S)
  BY <1>2, <1>3, ColumnIs
<1>5. StarCost(R, S, b) = Full + MapThenSumSet(LAMBDA m : R[m][b], S)
  BY Zenon DEF StarCost
<1> QED BY <1>1, <1>4, <1>5

\* A plan whose first tensor is kept whole costs that and the others.
LEMMA PlanCostIs ==
    ASSUME NEW n \in Nat \ {0}, NEW plan \in [1 .. n -> Members(n)], plan[1].cr = Full, NEW price,
           price = [i \in 1 .. n |-> plan[i].cr]
    PROVE  PlanCost(plan) = Full + SumOf(price, 2 .. n)
<1>1. PICK S : S = 1 .. n
  OBVIOUS
<1>2. IsFiniteSet(S) /\ DOMAIN plan = S /\ 1 \in S /\ S \ {1} = 2 .. n
  <2>1. IsFiniteSet(S) /\ DOMAIN plan = S /\ 1 \in S
    BY <1>1, FS_Interval
  <2>2. ASSUME NEW i PROVE i \in S \ {1} <=> i \in 2 .. n
    BY <1>1
  <2>3. S \ {1} = 2 .. n
    BY <2>2, Zenon
  <2> QED BY <2>1, <2>3
<1>3. Numbers(price, S) /\ \A i \in S : price[i] = plan[i].cr
  BY <1>1 DEF Numbers, Members
<1>4. PlanCost(plan) = SumOf(price, S)
  BY <1>2, <1>3, CostIs
<1>5. SumOf(price, S) = SumOf(price, S \ {1}) + price[1]
  BY <1>2, <1>3, SumFacts
<1>6. SumOf(price, S \ {1}) \in Int
  <2>1. IsFiniteSet(S \ {1}) /\ Numbers(price, S \ {1})
    BY <1>2, <1>3, FS_Subset DEF Numbers
  <2> QED BY <2>1, SumFacts
<1>7. price[1] = Full /\ Full \in Int
  BY <1>2, <1>3, PlannerConstants
<1>8. PICK rest \in Int : rest = SumOf(price, S \ {1}) /\ rest = SumOf(price, 2 .. n)
  BY <1>2, <1>6
<1>9. PlanCost(plan) = rest + Full
  BY <1>4, <1>5, <1>7, <1>8
<1> QED BY <1>7, <1>8, <1>9

\* The plan of a series costs no more than its star, and its bases are kept.
LEMMA FlexPlanPays ==
    ASSUME NEW n \in Nat, NEW fps \in [1 .. n -> Int], NEW bits \in Int, NEW minPercent
    PROVE  LET plan == FlexPlan(fps, bits, minPercent)
           IN  /\ n > 0 => PlanCost(plan) <= StarCost(PairwiseCr(fps, bits), 2 .. n, 1)
               /\ \A i \in DOMAIN plan : plan[i].base # 0 => plan[plan[i].base].base = 0
<1>1. PICK R, plan : R = PairwiseCr(fps, bits) /\ plan = FlexPlan(fps, bits, minPercent)
  OBVIOUS
<1>2. Full \in Nat /\ fps \in Seq(Int) /\ Len(fps) = n /\ DOMAIN fps = 1 .. n
  BY PlannerConstants
<1>3. DOMAIN R = 1 .. n /\ \A i \in 1 .. n, j \in 1 .. n : R[i][j] \in Nat
  BY <1>1, RatiosAre
<1>4. Square(R, n)
  BY <1>3 DEF Square
<1>5. plan \in [1 .. n -> Members(n)]
  BY <1>1, FlexPlanIs
<1>6. PICK price : price = [i \in 1 .. n |-> plan[i].cr]
  OBVIOUS
<1>7. price \in [1 .. n -> Int]
  BY <1>5, <1>6 DEF Members
<1>8. ASSUME n > 0, plan[1].cr = Full, SumOf(price, 2 .. n) <= SumOf(Column(R, n, 1), 2 .. n)
      PROVE  PlanCost(plan) <= StarCost(R, 2 .. n, 1)
  <2>1. n \in Nat \ {0} /\ 1 \in 1 .. n /\ 2 .. n \in SUBSET (1 .. n)
    BY <1>8
  <2>2. PlanCost(plan) = Full + SumOf(price, 2 .. n)
    BY <1>5, <1>6, <1>8, <2>1, PlanCostIs
  <2>3. StarCost(R, 2 .. n, 1) = Full + SumOf(Column(R, n, 1), 2 .. n)
    BY <1>4, <2>1, StarCostIs
  <2>4. SumOf(price, 2 .. n) \in Int /\ SumOf(Column(R, n, 1), 2 .. n) \in Int
    BY <1>4, <1>7, <2>1, PricesAre
  <2> QED BY <1>2, <1>8, <2>2, <2>3, <2>4
<1>9. CASE n <= 1
  <2>1. plan = [i \in 1 .. n |-> [base |-> 0, cr |-> Full]]
    BY <1>1, <1>2, <1>9 DEF FlexPlan
  <2>2. ASSUME n > 0 PROVE PlanCost(plan) <= StarCost(R, 2 .. n, 1)
    <3>1. 1 \in 1 .. n /\ 2 .. n = {}
      BY <1>9, <2>2
    <3>2. plan[1].cr = Full
      BY <2>1, <3>1
    <3>3. SumOf(price, 2 .. n) = 0 /\ SumOf(Column(R, n, 1), 2 .. n) = 0
      <4>1. IsFiniteSet({}) /\ Numbers(price, {}) /\ Numbers(Column(R, n, 1), {})
        BY FS_EmptySet DEF Numbers
      <4>2. SumOf(price, {}) = 0 /\ SumOf(Column(R, n, 1), {}) = 0
        BY <4>1, SumFacts
      <4> QED BY <3>1, <4>2
    <3> QED BY <1>8, <2>2, <3>2, <3>3
  <2>3. \A i \in DOMAIN plan : plan[i].base = 0
    BY <2>1
  <2> QED BY <1>1, <2>2, <2>3
<1>10. CASE n > 1
  <2>1. plan = SplitStar(R, n, minPercent)
    BY <1>1, <1>2, <1>10 DEF FlexPlan
  <2>2. PICK opened : opened = Split(R, 2 .. n, 1, minPercent)
    OBVIOUS
  <2>3. PICK stars : stars = {1} \union opened
    OBVIOUS
  <2>4. plan = Reassigned(R, n, stars)
    BY <2>1, <2>2, <2>3 DEF SplitStar
  <2>5. NoDearer(R, n, opened, 2 .. n, 1)
    <3>1. 1 \in 1 .. n /\ 2 .. n \in SUBSET (1 .. n)
      BY <1>10
    <3> QED BY <1>4, <2>2, <3>1, SplitPays
  <2>6. stars \in SUBSET (1 .. n) /\ 1 \in stars /\ stars # {} /\ stars \cap (2 .. n) = opened
    <3>1. opened \subseteq 2 .. n
      BY <2>5 DEF NoDearer
    <3>2. stars \in SUBSET (1 .. n) /\ 1 \in stars
      BY <1>10, <2>3, <3>1
    <3>3. 1 \notin 2 .. n
      OBVIOUS
    <3>4. stars \cap (2 .. n) = opened
      BY <2>3, <3>1, <3>3, Zenon
    <3> QED BY <3>2, <3>4
  <2>7. ASSUME NEW i \in 1 .. n
        PROVE  /\ i \in stars => plan[i].base = 0 /\ plan[i].cr = Full
               /\ i \notin stars => plan[i].base \in stars /\ \A b \in stars : plan[i].cr <= R[i][b]
    <3>1. PICK near : near = Nearest(R, stars, i)
      OBVIOUS
    <3>2. near \in stars /\ \A b \in stars : R[i][near] <= R[i][b]
      BY <1>3, <2>6, <3>1, NearestIs
    <3>3. plan[i] = IF i \in stars THEN [base |-> 0, cr |-> Full] ELSE [base |-> near, cr |-> R[i][near]]
      BY <2>4, <3>1, Zenon DEF Reassigned
    <3> QED BY <3>2, <3>3
  <2>8. Charged(price, R, n, stars)
    BY <1>6, <1>7, <2>6, <2>7 DEF Charged
  <2>9. SumOf(price, 2 .. n) <= SumOf(Column(R, n, 1), 2 .. n)
    BY <2>5, <2>6, <2>8 DEF NoDearer
  <2>10. PlanCost(plan) <= StarCost(R, 2 .. n, 1)
    <3>1. plan[1].cr = Full
      BY <1>10, <2>6, <2>7
    <3> QED BY <1>8, <1>10, <2>9, <3>1
  <2>11. \A i \in 1 .. n : plan[i].base # 0 => plan[plan[i].base].base = 0
    BY <2>6, <2>7
  <2> QED BY <1>1, <1>5, <2>10, <2>11
<1> QED BY <1>9, <1>10

\* What holds of a series that is split.
FlexInv ==
    task = "flex" =>
        /\ input \in SeriesInputs
        /\ Done => answer = <<FlexPlan(input.fps, input.bits, input.minPercent)>>

\* However a series is split, its plan costs no more than the star it began as,
\* and no base of it is a delta: a base is opened only for a gain, which is what
\* its movers save less what the base itself then costs, the parts of the star
\* are split without loss in their turn, and the reassignment only lowers a price.
THEOREM SplitsPay == OfflineSpec => []FlexSplitPays
<1>1. OfflineInit => FlexInv
  BY InputsOf DEF FlexInv, Done
<1>2. FlexInv /\ [OfflineNext]_offline => FlexInv'
  <2> SUFFICES ASSUME FlexInv, [OfflineNext]_offline
               PROVE  FlexInv'
    OBVIOUS
  <2>1. CASE task # "flex" \/ answer' = answer
    BY <2>1, OneTask DEF FlexInv, Done
  <2>2. CASE task = "flex" /\ answer' # answer
    <3>1. answer' = <<FlexPlan(input.fps, input.bits, input.minPercent)>>
      BY <2>2, OneTask DEF SplitSeries, Answer
    <3> QED BY <2>2, <3>1, OneTask DEF FlexInv
  <2> QED BY <2>1, <2>2
<1>3. FlexInv => FlexSplitPays
  <2> SUFFICES ASSUME FlexInv, task = "flex", Done
               PROVE  /\ Len(input.fps) > 0 => PlanCost(Result)
                             <= StarCost(PairwiseCr(input.fps, input.bits), 2 .. Len(input.fps), 1)
                      /\ \A i \in DOMAIN Result :
                            Result[i].base # 0 => Result[Result[i].base].base = 0
    BY Zenon DEF FlexSplitPays
  <2>1. input \in SeriesInputs /\ Result = FlexPlan(input.fps, input.bits, input.minPercent)
    BY DEF FlexInv, Result
  <2>2. PICK n \in Nat : n = Len(input.fps) /\ input.fps \in [1 .. n -> Int] /\ input.bits \in Int
    BY <2>1, SeriesInputsFit
  <2> QED BY <2>1, <2>2, FlexPlanPays
<1> QED BY <1>1, <1>2, <1>3, PTL DEF OfflineSpec
=============================================================================
