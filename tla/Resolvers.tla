------------------------------ MODULE Resolvers ------------------------------
(***************************************************************************)
(* How the native code finds a tensor in the files of a hub: the two       *)
(* layouts, the choice of an entry, the checks of shape and width, and the *)
(* batches of loads (rust/resolvers), with two of their users: a pair of   *)
(* the batch executor and the samples a dictionary is trained on.          *)
(*                                                                         *)
(* A file is a sequence of entries; an entry is [own, shape, dtype, data], *)
(* own unless its name begins with an underscore.  A store holds for every *)
(* tensor a file, or NoEntries, in each of the two layouts.                *)
(***************************************************************************)
EXTENDS Transfers

CONSTANTS
    ItemSize,      \* bytes of an element: of the dtypes dtype_name_to_size knows
    OtherItemSize, \* ... and of those that only the safetensors library knows
    XorWord,       \* bytes of a vector of the vectorised XOR (8 words)
    XorChunk       \* bytes of a chunk of the scalar one (1024 words)

NotLoaded == [loaded |-> FALSE]
Loaded(data) == [loaded |-> TRUE, data |-> data]
NoEntries == <<>>

Elements(shape) == FoldLeft(LAMBDA n, d : n * d, 1, shape)

\* Files are looked for two levels deep, then one; objects one level deep.
Located(store, kind, t) ==
    IF kind = "local" /\ store[t].canonical # NoEntries
      THEN store[t].canonical ELSE store[t].legacy

\* Mutant of ShapeFits: the first entry will do.
AnyShape(entry, shape) == entry.own
ShapeFits(entry, shape) == shape = <<>> \/ entry.shape = shape

\* The entry to load: one of the shape if there is one, or else the first.
SelectKey(file, shape) ==
    LET own == SelectSeq(file, LAMBDA e : e.own)
        fit == SelectSeq(own, LAMBDA e : ShapeFits(e, shape))
    IN IF fit # <<>> THEN fit ELSE own

\* One tensor, mapped or downloaded: its width is not looked at.
LoadTensor(store, kind, t, shape) ==
    LET found == SelectKey(Located(store, kind, t), shape)
    IN IF found # <<>> /\ ShapeFits(Head(found), shape)
         THEN Loaded(Head(found).data) ELSE NotLoaded

BulkLoadTensors(store, kind, requests) ==
    LET one(i) == LoadTensor(store, kind, requests[i].t, requests[i].shape)
    IN IF \A i \in DOMAIN requests : one(i).loaded
         THEN Loaded([i \in DOMAIN requests |-> one(i).data]) ELSE NotLoaded

\* The same choice, made again from a header: its dtype must be a known one.
HeaderEntry(file, shape) ==
    LET own == {k \in DOMAIN file : file[k].own}
        fit == {k \in own : shape = <<>> \/ file[k].shape = shape}
        k == Min(IF fit = {} THEN own ELSE fit)
    IN IF own = {} \/ file[k].dtype \notin DOMAIN ItemSize THEN <<>> ELSE <<file[k]>>

\* Into a given range: width, length and shape are those asked for.
LocalSlice(store, q) ==
    LET found == HeaderEntry(Located(store, "local", q.t), q.shape)
        e == Head(found)
    IN IF /\ found # <<>> /\ ItemSize[e.dtype] = q.item
          /\ q.shape # <<>> => e.shape = q.shape
          /\ Len(e.data) = Elements(q.shape) * q.item
         THEN Loaded(e.data) ELSE NotLoaded

S3Slice(store, q) ==
    LET found == SelectKey(Located(store, "s3", q.t), q.shape)
        e == Head(found)
    IN IF /\ found # <<>> /\ ShapeFits(e, q.shape)
          /\ (ItemSize @@ OtherItemSize)[e.dtype] = q.item
          /\ q.shape # <<>> => Len(e.data) = Elements(q.shape) * q.item
         THEN Loaded(e.data) ELSE NotLoaded

Filled(buffer, from, data) ==
    [k \in DOMAIN buffer |-> IF k \in from + 1 .. from + Len(data) THEN data[k - from] ELSE buffer[k]]

\* Every request has its range of the buffer; one that fails refuses all.
BulkLoadSlices(store, kind, requests, buffer) ==
    LET one(q) == IF kind = "local" THEN LocalSlice(store, q) ELSE S3Slice(store, q)
        fits(q) == q.from + Len(one(q).data) <= Len(buffer)
    IN IF \A i \in DOMAIN requests : one(requests[i]).loaded /\ fits(requests[i])
         THEN Loaded(FoldLeft(LAMBDA b, q : Filled(b, q.from, one(q).data), buffer, requests))
         ELSE NotLoaded

\* A pair of the executor: both of the target's shape, and as long.
LoadPair(store, kind, plan) ==
    LET one(t) == LoadTensor(store, kind, t, plan.shape)
    IN IF /\ one(plan.target).loaded /\ one(plan.base).loaded
          /\ Len(one(plan.target).data) = Len(one(plan.base).data)
         THEN Loaded(<<one(plan.target).data, one(plan.base).data>>) ELSE NotLoaded

-----------------------------------------------------------------------------
(* XOR of bytes, each a number below 4: vectors first and a scalar rest,     *)
(* which goes in chunks of its own (kernels/xor.rs).                         *)

XorBit(a, b) == (a + b) % 2
XorOne(a, b) == XorBit(a, b) + 2 * XorBit(a \div 2, b \div 2)
XorWords(target, base, first, count) ==
    [k \in 1 .. count |-> XorOne(target[first + k - 1], base[first + k - 1])]

XorScalar(target, base, first, count) ==
    LET chunks == count \div XorChunk
        chunk(i) == XorWords(target, base, first + (i - 1) * XorChunk, XorChunk)
    IN FlattenSeq([i \in 1 .. chunks |-> chunk(i)])
         \o XorWords(target, base, first + chunks * XorChunk, count % XorChunk)

XorVectors(target, base, count) ==
    LET vectors == count \div XorWord
    IN XorWords(target, base, 1, vectors * XorWord)
         \o XorScalar(target, base, vectors * XorWord + 1, count % XorWord)

ComputeXorBytes(target, base) ==
    IF Len(target) # Len(base) THEN NotLoaded
    ELSE IF Len(target) >= XorWord THEN Loaded(XorVectors(target, base, Len(target)))
    ELSE Loaded(XorScalar(target, base, 1, Len(target)))

-----------------------------------------------------------------------------
(* The samples of a dictionary (utils/zstd_xor_dict.rs): every skip-th plan, *)
(* the XOR of its pair cut to a length; a tensor that fails to load refuses  *)
(* all, a pair of two lengths or of another width is passed over.            *)

SampleOf(store, plan, most) ==
    LET target == LoadTensor(store, "local", plan.target, plan.shape).data
        base == LoadTensor(store, "local", plan.base, plan.shape).data
        xor == IF plan.item = 4 THEN ComputeXorBytes(target, base).data
               ELSE XorWords(target, base, 1, Len(target))
    IN IF plan.item \in {2, 4} /\ Len(target) = Len(base) /\ Len(target) >= plan.item
         THEN SubSeq(xor, 1, LeastOf(Len(xor), most)) ELSE <<>>

TrainingSamples(store, plans, most, skip, cut) ==
    LET both(p) == {LoadTensor(store, "local", t, p.shape).loaded : t \in {p.target, p.base}}
        taken == SelectSeq([i \in DOMAIN plans |-> i], LAMBDA i : (i - 1) % skip = 0)
        next(s, p) ==
            IF s.failed \/ Len(s.samples) >= most THEN s
            ELSE IF both(p) # {TRUE} THEN [s EXCEPT !.failed = TRUE]
            ELSE IF SampleOf(store, p, cut) = <<>> THEN s
            ELSE [s EXCEPT !.samples = Append(@, SampleOf(store, p, cut))]
        all == FoldLeft(LAMBDA s, i : next(s, plans[i]), [failed |-> FALSE, samples |-> <<>>], taken)
    IN IF all.failed \/ all.samples = <<>> THEN NotLoaded ELSE Loaded(all.samples)
=============================================================================
