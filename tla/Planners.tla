------------------------------- MODULE Planners -------------------------------
(***************************************************************************)
(* Which tensor is compressed against which: the attach planner            *)
(* (compression/planner.rs), its chunked twin of the full-hub campaign     *)
(* (full_hub/planner.py), FlexSplit (compression/flexsplit.py), and the    *)
(* engine's drivers that plan for a model, a hub or a bundle and run       *)
(* compress_pair on the result.                                            *)
(*                                                                         *)
(* A fingerprint is one number and a predicted ratio a number of           *)
(* 0 .. Full, looked up by rounded distance: the planners only compare     *)
(* them.  Tensor ids are positive; 0 is "no base".                         *)
(***************************************************************************)
EXTENDS Integers, Sequences, FiniteSets, FiniteSetsExt, SequencesExt

CONSTANTS
    Full,          \* the ratio of a delta that saves nothing (1.0)
    MaxDistance,   \* the distance at which predict_cr clamps (0.5)
    Ratio,         \* predict_cr at each distance 0 .. MaxDistance
    Threshold,     \* cr_threshold
    NoFp,          \* the tensor has no fingerprint
    ChunkRows,     \* CHUNK: rows the campaign's planner takes at a time
    MaxHops        \* compress_pair's bound on the chain walk (64)

ASSUME PlannerConstants ==
    /\ Full \in Nat \ {0} /\ Threshold \in 0 .. Full
    /\ MaxDistance \in Nat /\ Ratio \in [0 .. MaxDistance -> 0 .. Full]
    /\ ChunkRows \in Nat \ {0} /\ MaxHops \in Nat

\* What a planner is told of a tensor: id, group key, fingerprint, size in bits.
Entry(id, key, row) == [id |-> id, key |-> key, fp |-> row.fp, bits |-> row.bits]

Distance(f, g, bits) ==
    ((f - g) * (f - g)) \div (IF bits > 1 THEN bits ELSE 1)
Predict(d) == Ratio[IF d > MaxDistance THEN MaxDistance ELSE d]

\* The first of the positions where f is least.
ArgMin(f) == CHOOSE i \in DOMAIN f :
                 \A j \in DOMAIN f : f[i] <= f[j] /\ (f[i] = f[j] => i <= j)

\* The elements of s at the positions in S, in their order.
Chosen(s, S) ==
    FoldLeft(LAMBDA r, i : IF i \in S THEN Append(r, s[i]) ELSE r, <<>>, [i \in DOMAIN s |-> i])

-----------------------------------------------------------------------------
(* planner.rs *)

NoPlan == [bases |-> <<>>, opened |-> <<>>, pairs |-> <<>>, skipped |-> <<>>]

OpenBase(plan, e) ==
    [plan EXCEPT !.bases = Append(@, e.id),
                 !.opened = IF e.fp = NoFp THEN @ ELSE Append(@, e),
                 !.skipped = IF e.fp = NoFp THEN Append(@, e.id) ELSE @]

\* Attach e to the nearest of the candidates, or make it a base.
AttachTo(plan, candidates, e) ==
    IF e.fp = NoFp \/ candidates = <<>> THEN OpenBase(plan, e)
    ELSE LET dist == [i \in DOMAIN candidates |->
                        Distance(e.fp, candidates[i].fp, e.bits)]
             best == ArgMin(dist)
         IN IF Predict(dist[best]) <= Threshold
              THEN [plan EXCEPT !.pairs =
                      Append(@, [target |-> e.id, base |-> candidates[best].id,
                                 cr |-> Predict(dist[best])])]
              ELSE OpenBase(plan, e)

AttachStep(plan, e) == AttachTo(plan, plan.opened, e)

AttachGroup(entries) == FoldLeft(AttachStep, NoPlan, entries)

\* The keys in the order they are first seen.
Keys(entries) ==
    FoldLeft(LAMBDA seen, e : IF e.key \in Range(seen) THEN seen ELSE Append(seen, e.key),
             <<>>, entries)
Group(entries, key) == Chosen(entries, {i \in DOMAIN entries : entries[i].key = key})

Both(p, q) == [bases |-> p.bases \o q.bases, opened |-> p.opened \o q.opened,
               pairs |-> p.pairs \o q.pairs, skipped |-> p.skipped \o q.skipped]
Join(plans) == FoldLeft(Both, NoPlan, plans)

PlanAttach(entries) ==
    LET keys == Keys(entries)
    IN Join([k \in DOMAIN keys |-> AttachGroup(Group(entries, keys[k]))])

-----------------------------------------------------------------------------
(* full_hub/planner.py: distances to the bases known when a chunk starts come *)
(* from one matrix product, those to bases opened inside it column by column. *)

\* Mutant of Columns: the bases opened inside the chunk are not looked at.
ColumnsKnown(known, fresh) == IF known = <<>> THEN fresh ELSE known

Columns(known, fresh) == known \o fresh

PlanChunk(plan, chunk) ==
    LET known == plan.opened
        fresh(p) == SubSeq(p.opened, Len(known) + 1, Len(p.opened))
    IN FoldLeft(LAMBDA p, e : AttachTo(p, Columns(known, fresh(p)), e), plan, chunk)

PlanGroupChunked(rows) ==
    LET chunkEnd(c) == IF c * ChunkRows < Len(rows) THEN c * ChunkRows ELSE Len(rows)
        chunks == [c \in 1 .. (Len(rows) + ChunkRows - 1) \div ChunkRows |->
                     SubSeq(rows, (c - 1) * ChunkRows + 1, chunkEnd(c))]
    IN FoldLeft(PlanChunk, NoPlan, chunks)

\* The largest groups first; sorted() keeps the order of equally large ones.
PlanHub(entries) ==
    LET keys == Keys(entries)
        size(k) == Len(Group(entries, keys[k]))
        order == SetToSortSeq(DOMAIN keys,
                     LAMBDA i, j : size(i) > size(j) \/ (size(i) = size(j) /\ i < j))
    IN Join([k \in DOMAIN keys |-> PlanGroupChunked(Group(entries, keys[order[k]]))])

-----------------------------------------------------------------------------
(* flexsplit.py: R[i][j] is the ratio of i against base j; members are       *)
(* positions in a series, and so listed from the least on.                   *)

PairwiseCr(fps, bits) ==
    [i \in DOMAIN fps |-> [j \in DOMAIN fps |->
        IF i = j THEN 0 ELSE Predict(Distance(fps[i], fps[j], bits))]]

\* The members that are nearer to c than to their base.
Movers(R, members, base, c) == {m \in members \ {c} : R[m][c] < R[m][base]}

\* Mutant of Gain: what the new base costs is not counted.
GainOnly(R, members, base, c) ==
    MapThenSumSet(LAMBDA m : R[m][base] - R[m][c], Movers(R, members, base, c))

Gain(R, members, base, c) ==
    MapThenSumSet(LAMBDA m : R[m][base] - R[m][c], Movers(R, members, base, c))
      - (Full - R[c][base])

StarCost(R, members, base) ==
    Full + MapThenSumSet(LAMBDA m : R[m][base], members)

\* The better of the best so far and of c; 0 is no member and earns nothing.
BetterOpen(R, members, base, best, c) ==
    IF c \in members /\ Gain(R, members, base, c) >
                            (IF best = 0 THEN 0 ELSE Gain(R, members, base, best))
      THEN c ELSE best

\* The first member that earns most as a base; 0 when none earns anything.
BestOpen(R, members, base) ==
    FoldLeft(LAMBDA best, c : BetterOpen(R, members, base, best, c), 0, [c \in DOMAIN R |-> c])

\* Is no base opened among the members of the star?
StaysWhole(R, members, base, minPercent) ==
    LET c == BestOpen(R, members, base)
    IN \/ members = {} \/ c = 0
       \/ Gain(R, members, base, c) * 100 < minPercent * StarCost(R, members, base)

\* The bases opened among the members of a star, and of the stars it is split in.
Split(R, all, start, minPercent) ==
    LET split[members \in SUBSET all] ==
            [base \in {start} \union all |->
                LET c == BestOpen(R, members, base)
                    move == Movers(R, members, base, c)
                    stay == members \ (move \union {c})
                IN IF StaysWhole(R, members, base, minPercent) THEN {}
                   ELSE {c} \union (IF Cardinality(stay) >= 2 THEN split[stay][base] ELSE {})
                            \union (IF Cardinality(move) >= 2 THEN split[move][c] ELSE {})]
    IN split[all][start]

Nearest(R, bases, i) == ArgMin([b \in bases |-> R[i][b]])

Reassigned(R, n, bases) ==
    [i \in 1 .. n |-> IF i \in bases THEN [base |-> 0, cr |-> Full]
                      ELSE [base |-> Nearest(R, bases, i), cr |-> R[i][Nearest(R, bases, i)]]]

\* Split the star of the first tensor, then attach each member to its nearest base.
SplitStar(R, n, minPercent) ==
    Reassigned(R, n, {1} \union Split(R, 2 .. n, 1, minPercent))

\* The base and ratio of each member of the series; a base has base 0.
FlexPlan(fps, bits, minPercent) ==
    IF Len(fps) <= 1 THEN [i \in DOMAIN fps |-> [base |-> 0, cr |-> Full]]
    ELSE SplitStar(PairwiseCr(fps, bits), Len(fps), minPercent)

PlanCost(plan) == MapThenSumSet(LAMBDA i : plan[i].cr, DOMAIN plan)

-----------------------------------------------------------------------------
(* The engine.  rows gives each catalogued tensor a shape, a fingerprint and *)
(* a size; a model is the list of its <<parameter, tensor>>, in the order of *)
(* the parameters' names.                                                    *)

NoShape == "unknown"
Plannable(rows, t) == t \in DOMAIN rows /\ rows[t].shape # NoShape
TensorsOf(model) == {model[i][2] : i \in DOMAIN model}

\* Tensors are grouped by parameter and shape or by shape alone.
BundleKey(rows, byParam, p, t) ==
    IF byParam THEN <<p, rows[t].shape>> ELSE <<0, rows[t].shape>>

\* Add a tensor to the ordered list unless it is there, for series under the
\* same key, or cannot be planned.
AddEntry(rows, list, byParam, series, m) ==
    IF \/ ~Plannable(rows, m[2])
       \/ \E i \in DOMAIN list :
             list[i].id = m[2] /\ (series => list[i].key = BundleKey(rows, byParam, m[1], m[2]))
      THEN list
    ELSE Append(list, Entry(m[2], BundleKey(rows, byParam, m[1], m[2]), rows[m[2]]))

ModelEntries(rows, list, model, byParam, series) ==
    FoldLeft(LAMBDA l, m : AddEntry(rows, l, byParam, series, m), list, model)

\* plan_attach: hub is the hydrated catalogue when existing bases count.
PlanModel(rows, hub, model) ==
    LET own == TensorsOf(model)
        others == Chosen(hub, {i \in DOMAIN hub : hub[i] \notin own})
        existing == ModelEntries(rows, <<>>, [i \in DOMAIN others |-> <<0, others[i]>>], FALSE, FALSE)
        pairs == PlanAttach(ModelEntries(rows, existing, model, FALSE, FALSE)).pairs
    IN Chosen(pairs, {i \in DOMAIN pairs : pairs[i].target \in own})

\* Mutant of ReachesTarget: only the base's own header is read.
ReadsOneHeader(base, cur, target) == base[cur] = target

\* Does the chain of cur lead to the target (or on for too long)?
ReachesTarget(base, cur, target) ==
    LET chain[h \in 0 .. MaxHops + 1] ==
            IF h = 0 THEN cur ELSE IF chain[h - 1] = 0 THEN 0 ELSE base[chain[h - 1]]
    IN \E h \in 1 .. MaxHops + 1 :
          chain[h] # 0 /\ (chain[h] = target \/ h = MaxHops + 1)

Outcome(rows, base, pair) ==
    IF pair.target = pair.base THEN "failed"
    ELSE IF base[pair.target] # 0 THEN "already_compressed"
    ELSE IF ReachesTarget(base, pair.base, pair.target) THEN "base_chain_reaches_target"
    ELSE IF rows[pair.target].shape # rows[pair.base].shape THEN "failed"
    ELSE "ok"

\* One pair of a batch.
TryPair(rows, h, p) ==
    LET result == Outcome(rows, h.base, p)
    IN [base |-> IF result = "ok" THEN [h.base EXCEPT ![p.target] = p.base] ELSE h.base,
        results |-> Append(h.results, [pair |-> p, status |-> result])]

\* The batch loop of auto_compress and compress_bundle.
RunPairs(rows, hub, pairs) == FoldLeft(LAMBDA h, p : TryPair(rows, h, p), hub, pairs)

\* Models that are not ready, or map nothing, are skipped.
CompressModel(rows, hub, h, m) ==
    IF ~m.ready \/ m.map = <<>> THEN h ELSE RunPairs(rows, h, PlanModel(rows, hub, m.map))

AutoCompressAll(rows, base, models, hub) ==
    FoldLeft(LAMBDA h, m : CompressModel(rows, hub, h, m), [base |-> base, results |-> <<>>], models)

-----------------------------------------------------------------------------
(* compress_bundle: the models in order of creation. *)

BundleEntries(rows, models, byParam, series) ==
    FoldLeft(LAMBDA l, m : ModelEntries(rows, l, m, byParam, series), <<>>, models)

StarBundle(rows, models, byParam) == PlanAttach(BundleEntries(rows, models, byParam, FALSE)).pairs

\* The pairs of a plan for one series; a poor delta is left raw.
SeriesPairs(series, plan) ==
    LET kept == Chosen([i \in DOMAIN series |-> i],
                       {i \in DOMAIN series : plan[i].base # 0 /\ plan[i].cr < Threshold})
    IN [k \in DOMAIN kept |-> [target |-> series[kept[k]].id,
                               base |-> series[plan[kept[k]].base].id,
                               cr |-> plan[kept[k]].cr]]

\* The plan of a series, with the size of its first tensor.
SeriesPlan(series, minPercent) ==
    SeriesPairs(series, FlexPlan([i \in DOMAIN series |-> series[i].fp], series[1].bits, minPercent))

\* The series in the order their keys are first seen.
FlexBundle(rows, models, byParam, minPercent) ==
    LET entries == BundleEntries(rows, models, byParam, TRUE)
        keys == Keys(entries)
    IN Join([k \in DOMAIN keys |->
                [NoPlan EXCEPT !.pairs = SeriesPlan(Group(entries, keys[k]), minPercent)]]).pairs
=============================================================================
