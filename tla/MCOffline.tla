------------------------------ MODULE MCOffline ------------------------------
EXTENDS Offline

\* Codecs: bytes of three bits, each position of the target a byte of its own.
Three(v) == [k \in 0 .. 2 |-> (v \div (IF k = 0 THEN 1 ELSE IF k = 1 THEN 2 ELSE 4)) % 2]
Counting(n) == [k \in 0 .. n - 1 |-> Three(k % 8)]
Mixed(n) == [k \in 0 .. n - 1 |-> Three((3 * k + 5) % 8)]
MCCodecInputs ==
    {[codec |-> c, n |-> n, item |-> item, threads |-> t, dthreads |-> d,
      target |-> Counting(n), base |-> Mixed(n)] :
        c \in {"tensorx", "bitx", "fmpp", "transpose", "regroup", "zigzag"},
        n \in 0 .. 9 \union {12, 16}, item \in {1, 2, 4}, t \in 1 .. 3, d \in {1, 3}}
MCCodecs == {i \in MCCodecInputs : i.codec = "regroup" => i.item = 2}

\* Sketches: words of two bits, two rows of two buckets.
MCHash(r, e) == [bucket |-> (e + r * (e \div 2)) % 2, mask |-> {(e + r) % 2}]
Words == {{}, {0}, {1}, {0, 1}}
Flipped(a, k, b) ==
    [a EXCEPT ![k] = IF b \in @ THEN @ \ {b} ELSE @ \union {b}]
Data(n, w) == [e \in 0 .. n - 1 |-> w[(e % 3) + 1]]
MCSketches ==
    {[a |-> Data(n, w), b |-> IF n = 0 THEN Data(n, w) ELSE Flipped(Data(n, v), n - 1, 0),
      count |-> n, threads |-> t] :
        n \in {0, 2, 3, 5, 6, 7}, t \in 1 .. 3,
        w \in [1 .. 3 -> {{}, {1}, {0, 1}}], v \in {<<{}, {1}, {0, 1}>>, <<{0, 1}, {}, {}>>, <<{1}, {1}, {1}>>}}
MCStores == UNION {[1 .. n -> {1, 2} \X {<<1, 2>>, <<3, 4>>, <<5>>}] : n \in 0 .. 3}
\* Calls: an own row, a row of another process, one that does not fit.
CallOf(op, id, vec, ids) == [op |-> op, id |-> id, vec |-> vec, ids |-> ids]
MCCalls ==
    {CallOf("ingest", 1, <<1, 2>>, <<>>), CallOf("other", 2, <<3, 4>>, <<>>),
     CallOf("other", 3, <<5>>, <<>>), CallOf("export", 0, <<>>, <<>>),
     CallOf("restart", 0, <<>>, <<>>), CallOf("hydrate", 0, <<>>, <<>>),
     CallOf("warm", 0, <<>>, <<2, 3>>), CallOf("get", 0, <<>>, <<1>>),
     CallOf("get", 0, <<>>, <<2, 1>>)}
MCArenas == {<<CallOf("ingest", 1, <<1, 2>>, <<>>)>> \o s : s \in [1 .. 4 -> MCCalls]}

\* Plans: fingerprints on a line, two group keys.
MCFps == {-1, 0, 2, 3, 5}
PlanOf(fps, keys) == [i \in DOMAIN fps |-> [id |-> i, key |-> keys[i], fp |-> fps[i], bits |-> 2]]
MCPlans ==
    {PlanOf(fps, <<1, 1, 1, 1>>) : fps \in [1 .. 4 -> MCFps]}
      \union {PlanOf(fps, keys) : fps \in [1 .. 3 -> MCFps], keys \in {<<1, 2, 1>>, <<1, 2, 2>>}}
      \union {PlanOf(fps, <<1, 1, 1, 1, 1, 1>>) : fps \in [1 .. 6 -> {0, 3, 6}]}
MCNoFp == -1
RatioAt == [d \in 0 .. 4 |-> d]
MCSeries ==
    {[fps |-> f, bits |-> 2, minPercent |-> m] :
        f \in UNION {[1 .. n -> {0, 1, 3, 5}] : n \in 0 .. 4}, m \in {0, 50}}

\* Hubs of four tensors, of which some are deltas already.
Row(shape, fp) == [shape |-> shape, fp |-> fp, bits |-> 2]
MCRows == <<Row("a", 0), Row("a", 2), Row("a", 3), Row("b", 2)>>
MCBases == {b \in [1 .. 4 -> {0, 1, 2, 3}] : b[4] = 0 /\ Acyclic(b)}
ListOf(s) == [p \in DOMAIN s |-> <<p, s[p]>>]
Model(ready, s) == [ready |-> ready, map |-> ListOf(s)]
MCModelSets ==
    {<<Model(TRUE, <<x>>), Model(TRUE, <<y, 4>>), Model(ready, <<z>>)>> :
        x \in 1 .. 3, y \in 1 .. 3, z \in 1 .. 3, ready \in BOOLEAN}
MCBatches ==
    {[rows |-> MCRows, base |-> b, hub |-> hub, models |-> ms] :
        b \in MCBases, hub \in {<<1, 2, 3, 4>>, <<3, 2, 4, 1>>}, ms \in MCModelSets}
MCBundles ==
    {[rows |-> MCRows, base |-> b, models |-> <<ListOf(<<x, y>>), ListOf(<<y, z>>)>>, flex |-> f,
      byParam |-> p, minPercent |-> 0] :
        b \in MCBases, x \in 1 .. 4, y \in 1 .. 4, z \in 1 .. 4, f \in BOOLEAN, p \in BOOLEAN}

\* Cuts: up to four targets of two bases, files of two lengths.
MCSize == [t \in 1 .. 6 |-> IF t < 5 THEN t ELSE 1]
PairsOf(s, b) == [i \in DOMAIN s |-> [target |-> s[i], base |-> b[i]]]
PlansOf(e, s, b) == [i \in DOMAIN s |-> [target |-> s[i], base |-> b[i], estimate |-> e[i]]]
MCCuts ==
    {[pairs |-> PairsOf(s, b), size |-> MCSize, file |-> [t \in 2 .. 6 |-> 1 + (t % 2)],
      cap |-> c, shards |-> k, plans |-> PlansOf(e, s, b), batchSize |-> n, max |-> m] :
        s \in {<<>>, <<1, 2, 3>>, <<3, 1, 4, 2>>}, b \in {<<5, 5, 6, 5>>, <<6, 5, 6, 6>>},
        c \in {2, 4}, k \in {1, 2}, e \in {<<1, 2, 1, 2>>, <<4, 2, 2, 1>>, <<1, -1, 1, 1>>},
        n \in 1 .. 3, m \in {-1, 0, 3}}

File(n) == [exists |-> TRUE, bytes |-> [k \in 1 .. n |-> k]]
Range3(kind, a, b) == [kind |-> kind, from |-> a, to |-> b]
MCRanges ==
    {NoRange} \union {Range3(k, a, b) : k \in {"suffix", "from", "span", "bad"}, a \in 0 .. 3, b \in 0 .. 3}
MCBlobs ==
    {[canonical |-> c, legacy |-> l, range |-> r, matches |-> m] :
        c \in {NoFile, File(0), File(3)}, l \in {NoFile, File(2)}, r \in MCRanges, m \in BOOLEAN}

\* Loads: three tensors of one dtype, raw, delta or missing, in two layouts.
MCItem == [d \in {"U8", "BF16", "F32"} |-> CASE d = "U8" -> 1 [] d = "BF16" -> 2 [] d = "F32" -> 4]
MCOtherItem == [d \in {"F8_E4M3"} |-> 1]
Widths == MCItem @@ MCOtherItem
MCBytes == <<<<0, 1, 2, 3>>, <<3, 3, 0, 0>>, <<1, 0, 2, 2>>>>
EntryOf(form, t, dtype, payload) ==
    CASE form = "raw"   -> <<[own |-> TRUE, shape |-> <<4 \div Widths[dtype]>>, dtype |-> dtype,
                              data |-> MCBytes[t]]>>
      [] form = "delta" -> <<[own |-> TRUE, shape |-> <<payload>>, dtype |-> "U8",
                              data |-> [k \in 1 .. payload |-> 1]]>>
      [] form = "none"  -> <<>>
MCLoads ==
    {LET shape == <<4 \div Widths[d]>>
         file(t) == EntryOf(forms[t], t, d, payload)
         plan(t, b) == [target |-> t, base |-> b, shape |-> shape, item |-> Widths[d]]
     IN [truth |-> MCBytes, delta |-> {t \in 1 .. 3 : forms[t] = "delta"},
         store |-> [t \in 1 .. 3 |-> [canonical |-> IF old THEN <<>> ELSE file(t), legacy |-> file(t)]],
         everywhere |-> TRUE, named |-> d \in DOMAIN MCItem,
         requests |-> <<[t |-> 1, from |-> 0, item |-> item, shape |-> shape],
                        [t |-> 2, from |-> gap, item |-> item, shape |-> shape]>>,
         buffer |-> [k \in 1 .. 8 |-> 3], plans |-> <<plan(1, 2), plan(2, 3), plan(3, 1)>>,
         most |-> most, skip |-> most, cut |-> cut] :
        d \in DOMAIN Widths, forms \in [1 .. 3 -> {"raw", "delta", "none"}], payload \in {3, 4},
        old \in BOOLEAN, item \in {1, 2, 4}, gap \in {4, 5}, most \in {1, 2}, cut \in {3, 9}}

\* Pulls: three tensors in any state of their files, one with an older copy.
BlobsFor(t) == {NoBlob, RawBlob(t), RawBlob(Garbage)} \union {DeltaBlob(b) : b \in (1 .. 3) \ {t}}
Never == <<NoBlob, NoBlob, NoBlob>>
MCItems == {<<>>, <<<<"a", 2>>, <<"b", 1>>, <<"c", 2>>>>, <<<<"a", 1>>, <<"b", 3>>>>}
MCPulls ==
    {[hub |-> [canonical |-> <<x, y, z>>, legacy |-> [Never EXCEPT ![1] = o]],
      status |-> s, items |-> i,
      size |-> <<1, 2, 1>>, max |-> m, verify |-> v] :
        x \in BlobsFor(1), y \in BlobsFor(2), z \in BlobsFor(3), o \in {NoBlob, RawBlob(1)},
        s \in {"ready", "ingesting"}, i \in MCItems, m \in {0, 2, 3}, v \in BOOLEAN}

\* Objects: the tensor, a delta of it, an older layout, nothing but a print.
ObjectOf(entries) == [state |-> "there", entries |-> entries]
EntryAs(name, n, c) == [name |-> name, shape |-> <<n>>, content |-> c]
MCObjectFiles ==
    {[state |-> "missing", entries |-> <<>>], [state |-> "refused", entries |-> <<>>], ObjectOf(<<>>),
     ObjectOf(<<EntryAs("_", 2, 3), EntryAs("tensor", 2, 1)>>), ObjectOf(<<EntryAs("tensor", 1, Payload)>>),
     ObjectOf(<<EntryAs("print", 1, 2), EntryAs("other", 3, 4), EntryAs("other", 2, 1)>>),
     ObjectOf(<<EntryAs("_", 2, 3), EntryAs("print", 2, 2)>>)}
MCObjects ==
    {[row |-> r, shape |-> sh, uri |-> u, atUri |-> x, atId |-> y, verify |-> v] :
        r \in BOOLEAN, sh \in {<<>>, <<2>>}, u \in {"none", "s3", "bad"},
        x \in MCObjectFiles, y \in MCObjectFiles, v \in BOOLEAN}

\* Adoption: four tensors, each with a pair or none, of which the last may be gone.
PlanMap(b) == [t \in {t \in 1 .. 4 : b[t] \notin {0, t}} |-> b[t]]
TheirMap(b) == [t \in {t \in 1 .. 4 : b[t] \notin {0, t}} |-> [base |-> b[t], bytes |-> t]]
MCAdopts ==
    {[theirs |-> TheirMap(b), v1 |-> PlanMap(v), phys |-> 1 .. n, size |-> <<2, 3, 4, 5>>,
      order |-> SelectSeq(o, LAMBDA t : t <= n), model |-> o] :
        b \in [1 .. 4 -> 0 .. 4], v \in {<<2, 3, 4, 1>>, <<4, 1, 1, 0>>}, n \in {3, 4},
        o \in {<<1, 2, 3, 4>>, <<3, 1, 4, 2>>}}

\* Facility location: three items, any costs, two sets of candidates.
MCBig == 1000
Three3 == 1 .. 3
Apart == {q \in Three3 \X Three3 : q[1] # q[2]}
MCOpen == <<3, 5, 4>>
ProblemOf(c, cands, pre) ==
    [cost |-> [q \in Three3 \X Three3 |-> IF q[1] = q[2] THEN MCOpen[q[1]] ELSE c[q]],
     open |-> [i \in Three3 |-> IF i \in pre THEN 0 ELSE MCOpen[i]],
     cands |-> cands, pre |-> pre, external |-> [i \in Three3 |-> IF i = 3 THEN 2 ELSE MCBig]]
MCProblems ==
    {ProblemOf(c, cs, pre) : c \in [Apart -> {1, 4, MCBig}], cs \in {Three3, {1, 2}}, pre \in {{}, {1}}}
\* A base so cheap that it opens before the others can reach it.
MCSolves ==
    {[ProblemOf(c, cs, {}) EXCEPT !.open = <<3, 9, 4>>] :
        c \in [Apart -> {1, 4, MCBig}], cs \in {Three3, {1, 2}, {1}}}
Measured == <<<<1, 2>>, <<2, 3>>, <<3, 1>>, <<1, 4>>, <<4, 2>>>>
RowsOf(f) ==
    SelectSeq([k \in 1 .. 5 |-> [target |-> Measured[k][1], base |-> Measured[k][2], ratio |-> f[k]]],
              LAMBDA r : r.ratio # 0)
MCSplits ==
    {[rows |-> RowsOf(f), maxItems |-> m, size |-> <<2, 1, 3, 1>>, meta |-> 1, maxSplits |-> x] :
        f \in [1 .. 5 -> {0, 1, 4}], m \in {0, 3}, x \in {0, 1}}

\* The campaign: two workers, three bases, a pair of two dtypes.
MCShards == <<<<[base |-> 1, targets |-> <<2, 3>>], [base |-> 4, targets |-> <<5>>]>>,
              <<[base |-> 1, targets |-> <<6>>]>>>>
MCDtype == [t \in 1 .. 6 |-> IF t = 3 THEN "f32" ELSE "bf16"]

\* Caches: a raw base with two deltas, and a raw tensor.
MCModels == {<<2, 4>>, <<3, 1>>, <<3, 2>>}
MCCacheSize == <<2, 1, 2, 3>>
MCDeltaSize == <<0, 1, 1, 0>>
MCBaseOf == <<-1, 1, 1, -1>>

\* Downloads: three tensors as a chain, a star or apart; objects that are not
\* what the catalogue says; a cycle; and jobs of the server's client.
MCStored == <<1, 3, 1>>
MCLogical == <<2, 1, 2>>
JobOf(kind, b, h, params, shared) ==
    [kind |-> kind, base |-> b, header |-> h, params |-> params, shared |-> shared]
Chain3 == <<0, 1, 2>>
Star3 == <<0, 1, 1>>
MCJobs ==
    {JobOf("hub", b, b, ps, shared) :
        b \in {Chain3, Star3}, ps \in {<<3, 2, 3>>, <<3>>}, shared \in BOOLEAN}
    \union {JobOf("hub", Chain3, h, <<3>>, TRUE) : h \in {<<0, 0, 2>>, <<0, 1, 1>>}}
    \union {JobOf("hub", <<0, 0, 0>>, <<0, 1, 0>>, <<2, 3>>, FALSE),
            JobOf("hub", <<0, 3, 2>>, <<0, 3, 0>>, <<2>>, FALSE)}
    \union {JobOf("server", Star3, Star3, ps, FALSE) : ps \in {<<3, 1, 3>>, <<2, 1, 3>>}}
=============================================================================
