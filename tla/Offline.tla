------------------------------- MODULE Offline -------------------------------
(***************************************************************************)
(* The work done beside the hub's transactions: coding, sketching,         *)
(* planning, packing, simulating.  Each is a task, chosen at the start     *)
(* with its input.  Most are one call, or a call and the one that undoes   *)
(* or repeats it; the local search, the cache simulator, the campaign and  *)
(* the downloads are machines of their own: only the chosen one moves.     *)
(***************************************************************************)
EXTENDS Codecs, Sketches, Planners, Transfers, Resolvers, Reads, Adoption, FacilitySolvers,
        Campaign, CachePolicies, Downloads

CONSTANTS
    CodecInputs,       \* [codec, n, item, threads, dthreads, target, base]
    SketchInputs,      \* [a, b, count, threads]
    StoreInputs,       \* sequences of <<id, vector>>
    ArenaInputs,       \* sequences of [op, id, vec, ids]
    PlanInputs,        \* sequences of entries
    SeriesInputs,      \* [fps, bits, minPercent]
    BatchInputs,       \* [rows, base, hub, models]
    BundleInputs,      \* [rows, base, models, flex, byParam, minPercent]
    CutInputs,         \* [pairs, size, file, cap, shards, plans, batchSize, max]
    LoadInputs,        \* [truth, delta, store, everywhere, named, requests, buffer,
                       \*  plans, most, skip, cut]
    PullInputs,        \* [hub, status, items, size, max, verify]
    ObjectInputs,      \* [row, shape, uri, atUri, atId, verify]
    BlobInputs,        \* [canonical, legacy, range, matches]
    AdoptInputs,       \* [theirs, v1, phys, size, order, model]
    SolveInputs,       \* problems of GreedyFacility
    SplitInputs,       \* [rows, maxItems, size, meta, maxSplits]
    VectorLength       \* k: the length of a vector of the fingerprint store

\* Buffers of the length they are said to have; only words of 16 bits regroup.
ASSUME CodecInputsFit ==
    \A i \in CodecInputs :
        /\ i.codec \in {"tensorx", "bitx", "fmpp", "transpose", "regroup", "zigzag"}
        /\ i.n \in Nat /\ i.item \in Nat \ {0}
        /\ i.threads \in Nat \ {0} /\ i.dthreads \in Nat \ {0}
        /\ i.target \in Buffer(i.n) /\ i.base \in Buffer(i.n)
        /\ i.codec = "regroup" => i.item = 2

\* Every tensor that is named has a size; those that exist are walked once each;
\* the first plan pairs none with itself.
ASSUME AdoptInputsFit ==
    \A i \in AdoptInputs :
        /\ i.size \in [DOMAIN i.size -> Nat] /\ i.model \in Seq(DOMAIN i.size)
        /\ i.order \in Seq(i.phys) /\ Range(i.order) = i.phys /\ IsInjective(i.order)
        /\ DOMAIN i.theirs \subseteq DOMAIN i.size /\ i.phys \subseteq DOMAIN i.size
        /\ \A t \in DOMAIN i.theirs : i.theirs[t].base \in DOMAIN i.size /\ i.theirs[t].bytes \in Nat
        /\ \A t \in DOMAIN i.v1 : i.v1[t] # t

\* Every tensor of a series has a fingerprint.
ASSUME SeriesInputsFit == \A i \in SeriesInputs : i.fps \in Seq(Int) /\ i.bits \in Int

Acyclic(base) ==
    \E rank \in [DOMAIN base -> 1 .. Cardinality(DOMAIN base)] :
        \A t \in DOMAIN base : base[t] # 0 => rank[base[t]] < rank[t]

CatalogueFits(rows, base) ==
    /\ IsFiniteSet(DOMAIN rows) /\ 0 \notin DOMAIN rows
    /\ \A t \in DOMAIN rows : rows[t].fp \in Int /\ rows[t].bits \in Int
    /\ base \in [DOMAIN rows -> DOMAIN rows \union {0}] /\ Acyclic(base)

\* The hub's deltas are forests on the catalogue; what is hydrated is catalogued,
\* while a model may map what is not.
ASSUME BatchInputsFit ==
    /\ \A i \in BatchInputs :
          /\ CatalogueFits(i.rows, i.base)
          /\ i.hub \in Seq(DOMAIN i.rows) /\ i.models \in Seq(Range(i.models))
          /\ \A m \in Range(i.models) : m.map \in Seq(Range(m.map))
    /\ \A i \in BundleInputs :
          /\ CatalogueFits(i.rows, i.base)
          /\ i.models \in Seq(Range(i.models))
          /\ \A m \in Range(i.models) : m \in Seq(Range(m))

VARIABLES task, input, answer

offline == <<task, input, answer, facility, simulation, campaign, download>>

None == "none"
Nothing == <<>>
Done == answer # Nothing       \* otherwise <<the answer>>
Result == answer[1]

Inputs ==
    [code |-> CodecInputs, sketch |-> SketchInputs, store |-> StoreInputs,
     plan |-> PlanInputs, flex |-> SeriesInputs, batch |-> BatchInputs,
     bundle |-> BundleInputs, cut |-> CutInputs, blob |-> BlobInputs,
     arena |-> ArenaInputs, load |-> LoadInputs, pull |-> PullInputs, object |-> ObjectInputs,
     adopt |-> AdoptInputs, solve |-> SolveInputs, split |-> SplitInputs]

SearchAtRest == problem = None /\ bases = <<>> /\ moves = 0 /\ stage = "greedy"
CacheAtRest ==
    /\ policy = None /\ cap = 0 /\ pins = {} /\ res = {} /\ used = 0
    /\ order = <<>> /\ heap = <<>> /\ pri = <<>> /\ freq = <<>> /\ bfreq = <<>>
    /\ clock = 0 /\ cost = <<>> /\ pull = <<>> /\ fetched = {} /\ pulls = 0

OfflineInit ==
    /\ answer = Nothing
    /\ CampaignInit
    /\ DownloadInit
    /\ \/ \E t \in DOMAIN Inputs :
             task = t /\ input \in Inputs[t] /\ SearchAtRest /\ CacheAtRest
       \/ task = "search" /\ input = None /\ FacilityInit /\ CacheAtRest
       \/ task = "serve" /\ input = None /\ SearchAtRest /\ CacheInit
       \/ task \in {"campaign", "download"} /\ input = None /\ SearchAtRest /\ CacheAtRest

Machines == <<facility, simulation, campaign, download>>
Answer(t, a) ==
    /\ task = t /\ ~Done
    /\ answer' = <<a>>
    /\ UNCHANGED <<task, input, Machines>>

-----------------------------------------------------------------------------
(* The encoder and the decoder have threads of their own, and find bytes of  *)
(* their own in the memory they are given.                                   *)

Ones == [i \in BitNumbers |-> 1]

Coded(i) ==
    CASE i.codec = "tensorx"   -> CompressParallel(i.target, i.base, i.n, i.item, i.threads, Ones)
      [] i.codec = "bitx"      -> CompressBitx(i.target, i.base, i.n, i.item, i.threads, Ones)
      [] i.codec = "fmpp"      -> CompressFmpp(i.target, i.base, i.n, i.item)
      [] i.codec = "transpose" -> [bytes |-> TransposeBytes(i.target, i.n, i.item)]
      [] i.codec = "regroup"   -> [bytes |-> RegroupBytes(i.target, i.n)]
      [] i.codec = "zigzag"    -> [bytes |-> [k \in Positions(i.n) |-> ZigzagEncode(i.target[k], ByteBits)]]

Decoded(i, z) ==
    CASE i.codec = "tensorx"   -> DecompressParallel(z, i.base, i.n, i.item, i.dthreads, ZeroByte)
      [] i.codec = "bitx"      -> DecompressBitx(z, i.base, i.n, i.item, i.dthreads, ZeroByte)
      [] i.codec = "fmpp"      -> DecompressFmpp(z, i.base, i.n, i.item)
      [] i.codec = "transpose" -> InverseTransposeBytes(z.bytes, i.n, i.item)
      [] i.codec = "regroup"   -> InverseRegroupBytes(z.bytes, i.n)
      [] i.codec = "zigzag"    -> [k \in Positions(i.n) |-> ZigzagDecode(z.bytes[k], ByteBits)]

Encode == Answer("code", [code |-> Coded(input), decoded |-> FALSE])

Decode ==
    /\ task = "code" /\ Done /\ ~Result.decoded /\ Result.code # Refused
    /\ answer' = <<[decoded |-> TRUE, back |-> Decoded(input, Result.code)]>>
    /\ UNCHANGED <<task, input, Machines>>

SketchPair ==
    Answer("sketch",
        LET a == FromBytes(input.a, input.count, input.threads)
            b == FromBytes(input.b, input.count, input.threads)
        IN [a |-> a, b |-> b, estimate2 |-> EstimateHamming2(a, b),
            exact |-> ExactHammingParallel(input.a, input.b, input.count)])

FillStore ==
    Answer("store", FoldLeft(LAMBDA s, op : Absorb(s, op[1], op[2], VectorLength), EmptyStore, input))

\* A call on the hub of a process, and what it gives.
Call(h, c) ==
    CASE c.op = "ingest"  -> [hub |-> IngestRow(h, <<c.id, c.vec>>, VectorLength), got |-> <<>>]
      [] c.op = "other"   -> [hub |-> [IngestRow(h, <<c.id, c.vec>>, VectorLength) EXCEPT
                                         !.store = h.store], got |-> <<>>]
      [] c.op = "export"  -> [hub |-> Export(h, VectorLength), got |-> <<>>]
      [] c.op = "restart" -> [hub |-> [h EXCEPT !.store = EmptyStore], got |-> <<>>]
      [] c.op = "hydrate" -> [hub |-> Reload(h, VectorLength), got |-> <<>>]
      [] c.op = "warm"    -> [hub |-> LoadSelective(h, c.ids, VectorLength), got |-> <<>>]
      [] c.op = "get"     -> GetFingerprints(h, c.ids, VectorLength)

\* The states of the hub between the calls, and what each call gave.
UseArena ==
    Answer("arena",
        FoldLeft(LAMBDA s, c : [hubs |-> Append(s.hubs, Call(Last(s.hubs), c).hub),
                                got  |-> Append(s.got, Call(Last(s.hubs), c).got)],
                 [hubs |-> <<NewHub>>, got |-> <<>>], input))

PlanTensors == Answer("plan", [attach |-> PlanAttach(input), hub |-> PlanHub(input)])

SplitSeries == Answer("flex", FlexPlan(input.fps, input.bits, input.minPercent))

CompressAll ==
    Answer("batch", [once |-> AutoCompressAll(input.rows, input.base, input.models, input.hub),
                     again |-> FALSE])

CompressAllAgain ==
    /\ task = "batch" /\ Done /\ ~Result.again
    /\ answer' = <<[once |-> Result.once, again |-> TRUE, twice |->
                     AutoCompressAll(input.rows, Result.once.base, input.models, input.hub)]>>
    /\ UNCHANGED <<task, input, Machines>>

CompressBundle ==
    Answer("bundle",
        RunPairs(input.rows, [base |-> input.base, results |-> <<>>],
                 IF input.flex
                   THEN FlexBundle(input.rows, input.models, input.byParam, input.minPercent)
                   ELSE StarBundle(input.rows, input.models, input.byParam)))

Cut ==
    Answer("cut",
        LET units == Units(input.pairs, input.size, input.cap)
        IN [shards |-> Shards(units, input.size, input.shards),
            batch |-> CompressBatch(input.file, input.plans, input.batchSize, input.max)])

LoadFiles ==
    Answer("load",
        [slices |-> [kind \in {"local", "s3"} |->
                        BulkLoadSlices(input.store, kind, input.requests, input.buffer)],
         whole  |-> [kind \in {"local", "s3"} |->
                        BulkLoadTensors(input.store, kind, input.requests)],
         pairs  |-> [i \in DOMAIN input.plans |-> LoadPair(input.store, "local", input.plans[i])],
         samples |-> TrainingSamples(input.store, input.plans, input.most, input.skip, input.cut)])

Pulling ==
    Answer("pull",
        [model |-> PullModel(input.hub, input.status, input.items, input.size, input.max, input.verify),
         alone |-> [t \in DOMAIN input.size |-> ReadAlone(input.hub, t, input.verify)]])

ReadObject == Answer("object", GetObject(input, 1, input.verify))

ServeBlob ==
    Answer("blob",
        [get |-> GetBlob(input.canonical, input.legacy, Resolve(input.canonical, input.legacy),
                         input.range, input.matches),
         head |-> HeadBlob(input.canonical, input.legacy)])

Adopted(i) ==
    LET cand == Physical(i.theirs, i.phys)
    IN [plan |-> Replan(i.theirs, i.v1, i.phys, i.size, i.order),
        kept |-> Resolve1(cand, i.size),
        account |-> Accounting(cand, i.size, <<i.model>>)]

Adopt == Answer("adopt", Adopted(input))

Solve == Answer("solve", PrimalDual(input))

SplitOnce ==
    Answer("split",
        LET ids == IdsOf(input.rows, input.maxItems)
            ratio == RatioMatrix(input.rows, ids)
            size == [i \in DOMAIN ids |-> input.size[ids[i]]]
        IN [ratio |-> ratio, size |-> size,
            result |-> HeuristicSplit(ratio, size, input.meta, input.maxSplits),
            centers |-> CandidateSets(ratio, Len(ids), 2)])

Search == task = "search" /\ FacilityNext /\ UNCHANGED <<task, input, answer, simulation, campaign, download>>
Simulate == task = "serve" /\ CacheNext /\ UNCHANGED <<task, input, answer, facility, campaign, download>>
RunCampaign ==
    task = "campaign" /\ CampaignNext
    /\ UNCHANGED <<task, input, answer, facility, simulation, download>>
Download ==
    task = "download" /\ DownloadNext
    /\ UNCHANGED <<task, input, answer, facility, simulation, campaign>>

OfflineNext ==
    \/ Encode \/ Decode
    \/ SketchPair \/ FillStore \/ UseArena
    \/ PlanTensors \/ SplitSeries
    \/ CompressAll \/ CompressAllAgain \/ CompressBundle
    \/ Cut \/ ServeBlob \/ LoadFiles \/ Pulling \/ ReadObject
    \/ Adopt
    \/ Solve \/ SplitOnce
    \/ Search \/ Simulate \/ RunCampaign \/ Download

OfflineSpec == OfflineInit /\ [][OfflineNext]_offline
-----------------------------------------------------------------------------
(* Properties *)

\* Whatever the number of threads on either side, wherever the frame is cut in
\* sub-chunks and whatever the fresh buffers held, a tensor of whole elements
\* is given back byte for byte (tensorx.rs 375-730, bitx.rs 38-452, fmpp.rs
\* 57-149, transposition.rs 10-130, zigzag.rs 8-90).
CodecsLossless ==
    (task = "code" /\ Done /\ Result.decoded /\ input.n % input.item = 0)
        => Result.back = input.target

\* The parallel sketch and the parallel distance are those of one thread, for
\* every split of the elements; tensors one bit apart are estimated to be one
\* bit apart; the store keeps one row for each id, the last vector it was
\* given; and whatever was ingested, exported, reloaded or warmed before, a
\* vector that is given back is the one of the tensor's row, and a row that has
\* one is found unless an archive hides it (sketch.rs 86-262, 431-492;
\* fingerprint.rs 36-103, 176-193; engine.py 482-560).
SketchesAgree ==
    /\ (task = "sketch" /\ Done) =>
          /\ Result.a = Table(input.a, 0, input.count)
          /\ Result.exact = ExactHamming(input.a, input.b, input.count)
          /\ Result.exact = 1 => Result.estimate2 = 2
    /\ (task = "store" /\ Done) =>
          LET fits == {k \in DOMAIN input : Len(input[k][2]) = VectorLength}
              ids == {input[k][1] : k \in fits}
          IN /\ Range(Result.ids) = ids /\ Len(Result.ids) = Cardinality(ids)
             /\ Len(Result.arena) = VectorLength * Len(Result.ids)
             /\ \A id \in ids :
                   GetBatch(Result, <<id>>, VectorLength)
                      = <<input[Max({k \in fits : input[k][1] = id})][2]>>
    /\ (task = "arena" /\ Done) =>
          \A k \in DOMAIN input :
              LET hub == Result.hubs[k]
                  after == Result.hubs[k + 1]
                  good == {r \in Range(hub.rows) : Len(r[2]) = VectorLength}
                  hidden(id) == hub.archive # NoArchive /\ id \notin {r[1] : r \in Range(hub.archive[1])}
                  found(r) == RowById(after.store, r[1], VectorLength) = r[2]
              IN /\ input[k].op = "get" =>
                       IF Result.got[k] = <<>>
                         THEN \E id \in Range(input[k].ids) : hidden(id) \/ id \notin {r[1] : r \in good}
                         ELSE \A i \in DOMAIN input[k].ids : <<input[k].ids[i], Result.got[k][i]>> \in good
                 /\ input[k].op = "warm" =>
                       /\ \A r \in good : r[1] \in Range(input[k].ids) => found(r)
                       /\ DOMAIN hub.store.index \subseteq DOMAIN after.store.index

SamePairs(p, q) == Len(p.pairs) = Len(q.pairs) /\ Range(p.pairs) = Range(q.pairs)

\* Every tensor is a base or the target of one pair, never both, so no delta is
\* planned on a delta; a target goes to an earlier base of its own group, none
\* of those being nearer; and the campaign's planner, which compares chunk by
\* chunk, plans the same pairs (planner.rs 150-265; full_hub/planner.py 38-154).
PlansServeOnce ==
    (task = "plan" /\ Done) =>
        LET plan == Result.attach
            at(t) == CHOOSE k \in DOMAIN input : input[k].id = t
            fp(t) == input[at(t)].fp
            earlier(t) == {b \in Range(plan.bases) : at(b) < at(t) /\ fp(b) # NoFp
                              /\ input[at(b)].key = input[at(t)].key}
        IN /\ SamePairs(plan, Result.hub)
           /\ Len(plan.bases) + Len(plan.pairs) = Len(input)
           /\ {e.id : e \in Range(input)}
                 = Range(plan.bases) \union {p.target : p \in Range(plan.pairs)}
           /\ \A p \in Range(plan.pairs) :
                 /\ p.base \in earlier(p.target) /\ p.cr <= Threshold
                 /\ \A b \in earlier(p.target) :
                       LET bits == input[at(p.target)].bits
                       IN Distance(fp(p.target), fp(p.base), bits)
                             <= Distance(fp(p.target), fp(b), bits)

\* However the series is split, the plan costs no more than keeping its first
\* tensor and making every other a delta against it, and every member's base
\* is kept (flexsplit.py 34-117).
FlexSplitPays ==
    (task = "flex" /\ Done) =>
        LET n == Len(input.fps)
            R == PairwiseCr(input.fps, input.bits)
        IN /\ n > 0 => PlanCost(Result) <= StarCost(R, 2 .. n, 1)
           /\ \A i \in DOMAIN Result : Result[i].base # 0 => Result[Result[i].base].base = 0

Compressed(run) == {k \in DOMAIN run.results : run.results[k].status = "ok"}

\* Whatever deltas the hub holds already, compressing the whole catalogue, or a
\* bundle of models, never makes two tensors each other's base at any distance
\* and never replaces a delta; and doing the catalogue again compresses nothing
\* (engine.py 749-836, 1020-1152, 1158-1340; idempotence: 1085-1086).
BatchLeavesTrees ==
    /\ (task = "batch" /\ Done) =>
          /\ Acyclic(Result.once.base)
          /\ \A t \in DOMAIN input.base :
                input.base[t] # 0 => Result.once.base[t] = input.base[t]
          /\ Result.again => Compressed(Result.twice) = {}
    /\ (task = "bundle" /\ Done) =>
          /\ Acyclic(Result.base)
          /\ \A t \in DOMAIN input.base : input.base[t] # 0 => Result.base[t] = input.base[t]

Runs(packed, most) ==
    /\ \A k \in DOMAIN packed : Total(packed[k]) <= most \/ Len(packed[k]) = 1
    /\ \A k \in 1 .. Len(packed) - 1 : Total(packed[k]) + Head(packed[k + 1]) > most

\* The bytes a request for the range names, of a blob of len bytes.
Named(range, len) ==
    CASE range.kind = "none"   -> 0 .. len - 1
      [] range.kind = "suffix" -> {b \in 0 .. len - 1 : b >= len - range.to}
      [] range.kind = "from"   -> {b \in 0 .. len - 1 : b >= range.from}
      [] range.kind = "span"   -> {b \in 0 .. len - 1 : b >= range.from /\ b <= range.to}
      [] OTHER                 -> {}

\* The campaign's shards hold every pair once; the batches of compress_batch hold every plan
\* once within both limits, and each pair counts as done or failed; and a
\* partial response carries exactly the bytes its range names
\* (executor.py 218-247; execute.rs 122-300; transfer.rs 82-205).
CutsLoseNothing ==
    /\ (task = "cut" /\ Done) =>
          /\ LET spread == FlattenSeq(Result.shards)
                 pairs == FlattenSeq([k \in DOMAIN spread |->
                     [i \in DOMAIN spread[k].targets |->
                        <<spread[k].targets[i], spread[k].base>>]])
             IN /\ Len(pairs) = Len(input.pairs)
                /\ Range(pairs) = {<<p.target, p.base>> : p \in Range(input.pairs)}
          /\ ~Result.batch.error =>
                LET b == Result.batch.batches
                    need(run) == FoldLeft(LAMBDA w, i : w + input.plans[i].estimate, 0, run)
                IN /\ FlattenSeq(b) = [i \in DOMAIN input.plans |-> i]
                   /\ \A k \in DOMAIN b :
                         /\ Len(b[k]) \in 1 .. input.batchSize
                         /\ input.max = NoLimit \/ Len(b[k]) = 1 \/ need(b[k]) <= input.max
                   /\ Len(Result.batch.executed) + Result.batch.failed = Len(input.plans)
    /\ (task = "blob" /\ Done) =>
          LET file == Resolve(input.canonical, input.legacy)
              named == Named(input.range, Len(file.bytes))
          IN /\ Result.get.status = 416 => named = {}
             /\ Result.get.status \in {200, 206} =>
                   /\ Result.get.length = Cardinality(named)
                   /\ Result.get.body = [k \in 1 .. Cardinality(named) |->
                                            file.bytes[Result.get.first + k]]
                   /\ named = Result.get.first .. Result.get.first + Result.get.length - 1
             /\ Result.get.status = 200 => Result.get.length = Result.head.length

\* Nothing tells a delta's payload from a tensor but its shape.
ShapesTell ==
    \A t \in input.delta, p \in Range(input.plans) \union Range(input.requests) :
        p.shape # <<>> /\ \A e \in Range(input.store[t].legacy) : e.shape # p.shape

\* What the chain of files from a tensor comes to: its content, undamaged.
Sound(hub) ==
    LET more(S) == S \union {t \in DOMAIN hub.canonical :
                       LET blob == BlobPath(hub, t)
                       IN \/ blob.form = "raw" /\ blob.content = t
                          \/ blob.form = "delta" /\ blob.base \in S}
    IN FoldLeft(LAMBDA S, t : more(S), {}, [t \in DOMAIN hub.canonical |-> t])

\* A load either fails or fills its ranges, and only them, with the bytes of
\* its tensors, from files and from objects alike; a pair is coded from its
\* two tensors, never from a delta's payload; and a dictionary learns from
\* true differences.  What get_tensor decodes is its tensor whenever the files
\* are sound, and with verify never anything else; a pull gives every
\* parameter what get_tensor gives it alone, for all it remembers, in the
\* shard its index names.  Of two sound copies of an object either one suffices
\* (simple.rs 27-430, s3.rs 50-226, execute.rs 375-412, xor.rs 39-151,
\* zstd_xor_dict.rs 42-162; engine.py 305-480, 1385-1505; storage.py 19-295).
ReadsAreExact ==
    /\ (task = "load" /\ Done /\ ShapesTell) =>
          /\ \A kind \in {"local", "s3"} : Result.slices[kind].loaded =>
                LET got == Result.slices[kind].data
                    here(k, q) == k \in q.from + 1 .. q.from + Len(input.truth[q.t])
                IN \A k \in DOMAIN input.buffer :
                      \/ \E q \in Range(input.requests) :
                            here(k, q) /\ got[k] = input.truth[q.t][k - q.from]
                      \/ ~\E q \in Range(input.requests) : here(k, q)
                         /\ got[k] = input.buffer[k]
          /\ input.everywhere /\ input.named =>
                Result.slices["local"].loaded = Result.slices["s3"].loaded
          /\ \A kind \in {"local", "s3"} : Result.whole[kind].loaded =>
                Result.whole[kind].data =
                    [i \in DOMAIN input.requests |-> input.truth[input.requests[i].t]]
          /\ \A i \in DOMAIN input.plans : Result.pairs[i].loaded =>
                Result.pairs[i].data =
                    <<input.truth[input.plans[i].target], input.truth[input.plans[i].base]>>
          /\ Result.samples.loaded =>
                /\ Len(Result.samples.data) \in 1 .. input.most
                /\ \A s \in Range(Result.samples.data) : \E p \in Range(input.plans) :
                      LET a == input.truth[p.target]
                          b == input.truth[p.base]
                      IN s = [k \in 1 .. LeastOf(Len(a), input.cut) |-> XorOne(a[k], b[k])]
    /\ (task = "object" /\ Done) =>
          LET tensors(o) == {e \in Range(o.entries) : e.name = "tensor"}
              sound(o) == /\ o.state = "there" /\ tensors(o) # {}
                          /\ \A e \in tensors(o) : e.content = 1
              copies == {input.atId} \union (IF input.uri = "none" THEN {} ELSE {input.atUri})
              present == {o \in copies : o.state # "missing"}
          IN /\ input.verify /\ ~Result.raised => Result.value = 1
             /\ /\ input.row /\ input.uri # "bad" /\ present # {}
                /\ \A o \in present : sound(o)
                => ~Result.raised /\ Result.value = 1
    /\ (task = "pull" /\ Done) =>
          LET alone(item) == Result.alone[item[2]]
              read == [i \in DOMAIN input.items |-> <<input.items[i][1], alone(input.items[i]).value>>]
              pulled == Result.model
              bytes(run) == [i \in DOMAIN run |->
                  input.size[(CHOOSE m \in Range(input.items) : m[1] = run[i][1])[2]]]
          IN /\ \A t \in DOMAIN Result.alone :
                   LET r == Result.alone[t]
                   IN /\ t \in Sound(input.hub) => ~r.raised /\ r.value = t
                      /\ input.verify /\ ~r.raised => r.value = t
             /\ ~pulled.refused =>
                   /\ pulled.raised <=> \E m \in Range(input.items) : alone(m).raised
                   /\ ~pulled.raised =>
                         /\ FlattenSeq(pulled.written) = read
                         /\ \A e \in Range(pulled.index) :
                               e[1] \in {r[1] : r \in Range(pulled.written[e[2]])}
                         /\ input.max # 0 =>
                               Runs([k \in DOMAIN pulled.written |-> bytes(pulled.written[k])], input.max)

BytesOver(f, S) == MapThenSumSet(LAMBDA t : f[t], S)

\* In whatever order the tensors are walked, the adopted plan and what is kept
\* of it have depth one, and in each of its pairs both tensors exist; each tensor
\* of a model is accounted for once, with its delta if it has one
\* (model_level_reduction.py 668-716; replan_adopt.py 34-120).
ReplanDepthOne ==
    (task = "adopt" /\ Done) =>
        /\ DepthOne(Result.plan)
        /\ DepthOne([t \in DOMAIN Result.kept |-> Result.kept[t].base])
        /\ \A t \in DOMAIN Result.plan :
              t \in input.phys /\ Result.plan[t] \in input.phys \ {t}
        /\ LET done == Result.account.done
               bytes == [t \in done |-> IF t \in DOMAIN Result.kept THEN Result.kept[t].bytes
                                        ELSE input.size[t]]
           IN /\ Result.account.original = BytesOver(input.size, done)
              /\ Result.account.stored = BytesOver(bytes, done)

\* The primal-dual method serves every item from an open base it reaches.  When
\* every item may be a base, its plan costs no more than storing all of them raw,
\* however early a base opened without the clients that wanted it.  It is cheaper
\* than the integer program's only by serving an item from a base that is no
\* candidate, which the program cannot (primal_dual_facility_location.py 122-255;
\* ilp_facility_location.py 160-255).  The one-split heuristic reports what a
\* single base comes to, and whatever it reports, each item is in reach of one of
\* its bases (bench_facility.py 97-360).  Sampling yields as many candidates as
\* asked for (micro_algorithms.py 244-320).
SolversServeEveryTensor ==
    /\ (task = "solve" /\ Done) =>
          /\ \A i \in Items(input) : Result.at[i] \in Result.bases /\ Reaches(input, i, Result.at[i])
          /\ input.cands = Items(input) => Result.objective <= Summed(input.open)
          /\ Result.objective < Optimum(input) =>
                \E i \in Items(input) : Result.at[i] \notin input.cands \union {i}
    /\ (task = "split" /\ Done) =>
          LET r == Result.ratio
              size == Result.size
              b == Result.result.bases
              total == TotalCost(r, size, input.meta, Range(b))
          IN /\ Len(b) = 1 /\ Len(size) > 1 => Result.result.cost = total
             /\ Result.result.cost < Big => total < Big
             /\ \A C \in Result.centers : Cardinality(C) = IF Len(size) < 2 THEN Len(size) ELSE 2
=============================================================================
