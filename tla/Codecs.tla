------------------------------- MODULE Codecs -------------------------------
(***************************************************************************)
(* The delta kernels: tensorx.rs (the hub's codec), bitx.rs and zigzag.rs. *)
(* A buffer of n bytes is a function on 0 .. n-1; a byte is a function     *)
(* from bit numbers to bits.  The kernels allocate their output without    *)
(* initialising it and write it element by element, in parallel ranges:    *)
(* the operand "junk" is the byte found where nothing was written.  zstd   *)
(* and the FM-Delta coder are external: a frame remembers what it holds.   *)
(***************************************************************************)
EXTENDS Integers

CONSTANTS
    ByteBits,        \* bits of a byte: 8 in the code
    ParThreshold,    \* PAR_THRESHOLD: elements from which threads share the work
    SubChunk         \* SUB_CHUNK_BYTES: bytes beyond which the frame is chunked

ASSUME CodecConstants ==
    /\ ByteBits \in Nat \ {0}
    /\ ParThreshold \in Nat
    /\ SubChunk \in Nat /\ SubChunk >= 4

Bit == {0, 1}
BitNumbers == 0 .. ByteBits - 1
Byte == [BitNumbers -> Bit]
Positions(n) == 0 .. n - 1
Buffer(n) == [Positions(n) -> Byte]
ZeroByte == [i \in BitNumbers |-> 0]

XorByte(a, b) == [i \in BitNumbers |-> IF a[i] = b[i] THEN 0 ELSE 1]

(* The range of elements thread t works on, and the elements all cover. *)
ChunkSize(count, threads, lane) ==
    LET share == (count + threads - 1) \div threads + (lane - 1)
    IN share - (share % lane)

ThreadRange(t, count, threads, lane) ==
    LET chunk == ChunkSize(count, threads, lane)
    IN {e \in Positions(count) : t * chunk <= e /\ e < t * chunk + chunk}

Covered(count, threads, lane) ==
    IF count >= ParThreshold
      THEN UNION {ThreadRange(t, count, threads, lane) : t \in 0 .. threads - 1}
      ELSE Positions(count)

(* Every byte p of every element e goes to position e of plane p. *)
SplitPlanes(target, base, n, item, cover, junk) ==
    LET count == n \div item
    IN [k \in Positions(n) |->
          IF count > 0 /\ k \div count < item /\ k % count \in cover
            THEN LET source == (k % count) * item + k \div count
                 IN XorByte(target[source], base[source])
            ELSE junk]

MergePlanes(planes, base, n, item, cover, junk) ==
    LET count == n \div item
    IN [k \in Positions(n) |->
          IF k \div item < count /\ k \div item \in cover
            THEN XorByte(planes[(k % item) * count + k \div item], base[k])
            ELSE junk]

(* bitx on 16-bit floats: an exponent byte and a sign-and-mantissa byte. *)
WordBit(buffer, e, j) ==
    IF j < ByteBits THEN buffer[2 * e][j] ELSE buffer[2 * e + 1][j - ByteBits]

Exponent(w) == [j \in BitNumbers |-> w[j + ByteBits - 1]]
SignMantissa(w) ==
    [j \in BitNumbers |-> IF j = ByteBits - 1 THEN w[2 * ByteBits - 1] ELSE w[j]]
Word(exponent, sm) ==
    [j \in 0 .. 2 * ByteBits - 1 |->
       IF j = 2 * ByteBits - 1 THEN sm[ByteBits - 1]
       ELSE IF j >= ByteBits - 1 THEN exponent[j - ByteBits + 1]
       ELSE sm[j]]
LowByte(w) == [j \in BitNumbers |-> w[j]]
HighByte(w) == [j \in BitNumbers |-> w[j + ByteBits]]

Regroup(target, base, n, cover, junk) ==
    LET count == n \div 2
        word(e) == [j \in 0 .. 2 * ByteBits - 1 |->
                      IF WordBit(target, e, j) = WordBit(base, e, j) THEN 0 ELSE 1]
    IN [k \in Positions(n) |->
          IF k < count /\ k \in cover THEN Exponent(word(k))
          ELSE IF count <= k /\ k < 2 * count /\ k - count \in cover
            THEN SignMantissa(word(k - count))
            ELSE junk]

Ungroup(planes, base, n, cover, junk) ==
    LET count == n \div 2
        word(e) == Word(planes[e], planes[count + e])
    IN [k \in Positions(n) |->
          IF k \div 2 < count /\ k \div 2 \in cover
            THEN XorByte(IF k % 2 = 0 THEN LowByte(word(k \div 2))
                                      ELSE HighByte(word(k \div 2)), base[k])
            ELSE junk]

(* External: zstd gives back the bytes of the frame it made. *)
Zstd(bytes) == [frame |-> bytes]
Unzstd(z) == z.frame
Refused == [refused |-> TRUE]

Lane(item) == IF item = 2 THEN 8 ELSE 4

CompressFused(target, base, n, item, threads, junk) ==
    SplitPlanes(target, base, n, item, Covered(n \div item, threads, Lane(item)), junk)
DecompressFused(planes, base, n, item, threads, junk) ==
    MergePlanes(planes, base, n, item, Covered(n \div item, threads, Lane(item)), junk)

CompressTensorX(target, base, n, item, threads, junk) ==
    IF item \notin {2, 4} THEN Refused
    ELSE Zstd(CompressFused(target, base, n, item, threads, junk))

DecompressTensorX(z, base, n, item, threads, junk) ==
    DecompressFused(Unzstd(z), base, n, item, threads, junk)

(* bitx: 16-bit items are regrouped, the others transposed byte by byte. *)
TransposeXor(target, base, n, item, junk) ==
    SplitPlanes(target, base, n, item, Positions(n \div item), junk)
UntransposeXor(planes, base, n, item, junk) ==
    MergePlanes(planes, base, n, item, Positions(n \div item), junk)

CompressBitx(target, base, n, item, threads, junk) ==
    Zstd(IF item = 2
           THEN Regroup(target, base, n, Covered(n \div 2, threads, 8), junk)
           ELSE TransposeXor(target, base, n, item, junk))

DecompressBitx(z, base, n, item, threads, junk) ==
    IF item = 2
      THEN Ungroup(Unzstd(z), base, n, Covered(n \div 2, threads, 8), junk)
      ELSE UntransposeXor(Unzstd(z), base, n, item, junk)

(* Beyond SubChunk bytes, tensorx frames one compressed piece per sub-chunk. *)
\* Mutant of PieceBytes: a piece may end inside an element.
PieceUnaligned(item) == SubChunk

PieceBytes(item) == (SubChunk \div item) * item
PieceLength(i, n, size) == IF (i + 1) * size <= n THEN size ELSE n - i * size
Slice(buffer, from, len) == [k \in Positions(len) |-> buffer[from + k]]
Pieces(n, size) == 0 .. (n + size - 1) \div size - 1

CompressParallel(target, base, n, item, threads, junk) ==
    IF item \notin {2, 4} THEN Refused
    ELSE IF n <= SubChunk THEN CompressTensorX(target, base, n, item, threads, junk)
    ELSE LET size == PieceBytes(item)
         IN [total |-> n,
             pieces |-> [i \in Pieces(n, size) |->
                LET len == PieceLength(i, n, size)
                IN CompressTensorX(Slice(target, i * size, len), Slice(base, i * size, len),
                                   len, item, threads, junk)]]

DecompressParallel(z, base, n, item, threads, junk) ==
    IF "pieces" \notin DOMAIN z
      THEN DecompressTensorX(z, base, n, item, threads, junk)
      ELSE LET size == PieceBytes(item)
               piece == [i \in DOMAIN z.pieces |->
                  LET len == PieceLength(i, z.total, size)
                  IN DecompressTensorX(z.pieces[i], Slice(base, i * size, len),
                                       len, item, threads, junk)]
           IN [k \in Positions(z.total) |-> piece[k \div size][k % size]]

(* transposition.rs: the same planes without a base, on a zeroed output. *)
Zeros(n) == [k \in Positions(n) |-> ZeroByte]
TransposeBytes(data, n, item) ==
    IF item <= 1 \/ n \div item = 0 THEN data
    ELSE SplitPlanes(data, Zeros(n), n, item, Positions(n \div item), ZeroByte)
InverseTransposeBytes(data, n, item) ==
    IF item <= 1 \/ n \div item = 0 THEN data
    ELSE MergePlanes(data, Zeros(n), n, item, Positions(n \div item), ZeroByte)
RegroupBytes(data, n) ==
    IF n < 2 THEN data ELSE Regroup(data, Zeros(n), n, Positions(n \div 2), ZeroByte)
InverseRegroupBytes(data, n) ==
    IF n < 2 THEN data ELSE Ungroup(data, Zeros(n), n, Positions(n \div 2), ZeroByte)

(* fmpp.rs: half-precision only, whole elements only, and a header that must *)
(* agree with the base; the residual coder itself is external.              *)
HalfElements(n, item) == item = 2 /\ n > 0 /\ n % item = 0
FmDelta(target, base) == [k \in DOMAIN base |-> XorByte(target[k], base[k])]
CompressFmpp(target, base, n, item) ==
    IF ~HalfElements(n, item) THEN Refused
    ELSE [elements |-> n \div 2, residual |-> FmDelta(target, base)]
DecompressFmpp(z, base, n, item) ==
    IF ~HalfElements(n, item) \/ z.elements # n \div 2 THEN Refused
    ELSE FmDelta(z.residual, base)

(* Zigzag on a word of w bits: (n << 1) ^ (n >> w-1), and (u >> 1) ^ -(u & 1). *)
Flip(bit, by) == IF bit = by THEN 0 ELSE 1
ZigzagEncode(v, w) ==
    [k \in 0 .. w - 1 |-> IF k = 0 THEN v[w - 1] ELSE Flip(v[k - 1], v[w - 1])]
ZigzagDecode(u, w) ==
    [k \in 0 .. w - 1 |-> IF k = w - 1 THEN u[0] ELSE Flip(u[k + 1], u[0])]
=============================================================================
