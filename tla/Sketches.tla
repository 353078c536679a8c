------------------------------- MODULE Sketches -------------------------------
(***************************************************************************)
(* Bit-count sketches (sketch.rs) and the store that keeps them by tensor  *)
(* (fingerprint.rs).  A word is the set of its one bits, the data of a     *)
(* tensor a function from 0 .. n-1 to words.  The hash functions are       *)
(* parameters: they give each row and element a bucket and a sign mask.    *)
(***************************************************************************)
EXTENDS Integers, Sequences, FiniteSets, FiniteSetsExt, SequencesExt

CONSTANTS
    WordBits,          \* bits of a word: 16
    SketchDepth,       \* d, the rows of a sketch
    Width,             \* w, the buckets of a row
    Hash(_, _),        \* row, element -> [bucket, mask]
    SketchParallel,    \* elements from which the sketch is built in parallel
    HammingParallel,   \* elements from which the exact distance is
    WordsPerLong,      \* words in the 64-bit reads of the parallel distance: 4
    LongsPerChunk      \* 64-bit reads per parallel chunk

ASSUME SketchConstants ==
    /\ {WordBits, SketchDepth, Width, WordsPerLong, LongsPerChunk} \subseteq Nat \ {0}
    /\ \A r \in 0 .. SketchDepth - 1, e \in 0 .. 1 : Hash(r, e).bucket \in 0 .. Width - 1

Bits == 0 .. WordBits - 1
Slots == (0 .. SketchDepth - 1) \X (0 .. Width - 1)
SumOver(S, f(_)) == MapThenSumSet(f, S)

-----------------------------------------------------------------------------
(* Each element adds (ones under the mask) - (ones outside it) to one bucket *)
(* of each row; a zero word is skipped.                                      *)
Net(word, mask) == 2 * Cardinality(word \intersect mask) - Cardinality(word)

\* The table of the elements first .. last-1.
Table(data, first, last) ==
    [slot \in Slots |->
        SumOver({e \in first .. last - 1 :
                    data[e] # {} /\ Hash(slot[1], e).bucket = slot[2]},
                LAMBDA e : Net(data[e], Hash(slot[1], e).mask))]

\* Mutant of Chunk: the share of a thread is rounded down.
ChunkDown(count, threads) == count \div threads

Chunk(count, threads) == (count + threads - 1) \div threads
Lesser(a, b) == IF a < b THEN a ELSE b

FromBytesParallel(data, count, threads) ==
    LET chunk == Chunk(count, threads)
        partial == [t \in 0 .. threads - 1 |->
                      Table(data, t * chunk, Lesser(t * chunk + chunk, count))]
    IN [slot \in Slots |-> SumOver(0 .. threads - 1, LAMBDA t : partial[t][slot])]

FromBytes(data, count, threads) ==
    IF count >= SketchParallel
      THEN FromBytesParallel(data, count, threads)
      ELSE Table(data, 0, count)

\* Twice the median over the rows of the squared distance.
EstimateHamming2(a, b) ==
    LET square(r) == SumOver(0 .. Width - 1,
                             LAMBDA c : (a[<<r, c>>] - b[<<r, c>>]) * (a[<<r, c>>] - b[<<r, c>>]))
        row == SortSeq([i \in 1 .. SketchDepth |-> square(i - 1)], LAMBDA x, y : x < y)
        mid == SketchDepth \div 2
    IN IF SketchDepth % 2 = 0 THEN row[mid] + row[mid + 1] ELSE 2 * row[mid + 1]

-----------------------------------------------------------------------------
(* The exact distance: word by word, or by longs in chunks and then the rest. *)
Differing(a, b, e) == Cardinality((a[e] \ b[e]) \union (b[e] \ a[e]))

ExactHamming(a, b, count) ==
    SumOver(0 .. count - 1, LAMBDA e : Differing(a, b, e))

ExactHammingParallel(a, b, count) ==
    IF count < HammingParallel THEN ExactHamming(a, b, count)
    ELSE LET longs == count \div WordsPerLong
             chunks == (longs + LongsPerChunk - 1) \div LongsPerChunk
             long(l) == SumOver(l * WordsPerLong .. (l + 1) * WordsPerLong - 1,
                                LAMBDA e : Differing(a, b, e))
             subtotal(c) == SumOver(c * LongsPerChunk ..
                                      Lesser((c + 1) * LongsPerChunk, longs) - 1, long)
         IN SumOver(0 .. chunks - 1, subtotal)
              + SumOver(longs * WordsPerLong .. count - 1, LAMBDA e : Differing(a, b, e))

-----------------------------------------------------------------------------
(* FingerprintStore: rows of k numbers, one after another in an arena, and *)
(* the index of each id.                                                   *)
EmptyStore == [ids |-> <<>>, index |-> <<>>, arena |-> <<>>]

RowSlice(store, row, k) == SubSeq(store.arena, row * k + 1, (row + 1) * k)

Upsert(store, id, vec) ==
    LET k == Len(vec)
    IN IF id \in DOMAIN store.index
         THEN LET start == store.index[id] * k
              IN [store EXCEPT !.arena =
                    SubSeq(@, 1, start) \o vec \o SubSeq(@, start + k + 1, Len(@))]
         ELSE LET row == Len(store.ids)
              IN [ids   |-> Append(store.ids, id),
                  index |-> [i \in DOMAIN store.index \union {id} |->
                               IF i = id THEN row ELSE store.index[i]],
                  arena |-> store.arena \o vec]

\* A vector of another length than k is refused.
Absorb(store, id, vec, k) == IF Len(vec) = k THEN Upsert(store, id, vec) ELSE store

RowById(store, id, k) ==
    IF id \in DOMAIN store.index THEN RowSlice(store, store.index[id], k) ELSE <<>>

\* get_batch: the rows of some ids, or nothing when one is missing.
GetBatch(store, ids, k) ==
    IF \E i \in DOMAIN ids : ids[i] \notin DOMAIN store.index THEN <<>>
    ELSE [i \in DOMAIN ids |-> RowById(store, ids[i], k)]
-----------------------------------------------------------------------------
(* The engine's use of it: the rows of the catalogue, <<id, vector>> in the  *)
(* order of their creation, the arena that holds some of them, and an        *)
(* archive, which is preferred to the rows once it exists.                   *)
NoArchive == <<>>     \* otherwise <<the rows it holds>>
NewHub == [rows |-> <<>>, archive |-> NoArchive, store |-> EmptyStore]

AbsorbAll(store, rows, k) == FoldLeft(LAMBDA s, row : Absorb(s, row[1], row[2], k), store, rows)

\* An ingest adds the row of a tensor the catalogue does not have.
IngestRow(h, row, k) ==
    IF \E i \in DOMAIN h.rows : h.rows[i][1] = row[1] THEN h
    ELSE [h EXCEPT !.rows = Append(@, row), !.store = Absorb(@, row[1], row[2], k)]

Reload(h, k) == [h EXCEPT !.store = AbsorbAll(EmptyStore, h.rows, k)]

LoadToMemory(h, k) ==
    IF h.archive = NoArchive THEN Reload(h, k)
    ELSE [h EXCEPT !.store = AbsorbAll(EmptyStore, h.archive[1], k)]

\* What the arena has is saved, however little that is.
Export(h, k) ==
    LET full == IF h.store.ids = <<>> THEN Reload(h, k) ELSE h
        saved == [i \in DOMAIN full.store.ids |-> <<full.store.ids[i], RowSlice(full.store, i - 1, k)>>]
    IN [full EXCEPT !.archive = <<saved>>]

LoadSelective(h, ids, k) ==
    LET wanted(row) == row[1] \in Range(ids) \ DOMAIN h.store.index
    IN [h EXCEPT !.store = AbsorbAll(@, SelectSeq(h.rows, wanted), k)]

\* One vector or several: a missing one loads the arena anew, once.
GetFingerprints(h, ids, k) ==
    LET known == \A i \in DOMAIN ids : ids[i] \in DOMAIN h.store.index
        after == IF known THEN h ELSE LoadToMemory(h, k)
    IN [hub |-> after, got |-> GetBatch(after.store, ids, k)]
=============================================================================
