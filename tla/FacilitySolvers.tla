---------------------------- MODULE FacilitySolvers ----------------------------
(***************************************************************************)
(* The other solvers of the benchmark, for the problems of GreedyFacility: *)
(* the primal-dual method (primal_dual_facility_location.py,               *)
(* primal_dual_ratio.py), the integer program (ilp_facility_location.py,   *)
(* ilp_ratio.py), the choice of candidates (micro_algorithms.py), and the  *)
(* problem built from measured ratios with its one-split heuristic         *)
(* (bench_facility.py).                                                    *)
(***************************************************************************)
EXTENDS GreedyFacility

CONSTANT RawRatio     \* the ratio of a tensor stored raw

Reaches(p, i, b) == Connect(p, i, b) < Big
HasCandidate(p, i) == \E b \in p.cands : Reaches(p, i, b)
ForcedBases(p) == {i \in Items(p) : ~HasCandidate(p, i)}

-----------------------------------------------------------------------------
(* Primal-dual: time goes on until the clients a base has reached pay for    *)
(* it.  Times are fractions <<amount, clients>>.                             *)

\* Mutant of Edges: the clients a base cannot reach are not masked out.
EdgesToAll(p, b, left) ==
    SetToSortSeq(left, LAMBDA i, j : \/ Connect(p, i, b) < Connect(p, j, b)
                                     \/ Connect(p, i, b) = Connect(p, j, b) /\ i < j)

Edges(p, b, left) ==
    SetToSortSeq({i \in left : Reaches(p, i, b)},
        LAMBDA i, j : \/ Connect(p, i, b) < Connect(p, j, b)
                      \/ Connect(p, i, b) = Connect(p, j, b) /\ i < j)

\* When the first k clients of e can pay for b.
PayTime(p, b, e, k) ==
    LET due == FoldLeft(LAMBDA x, i : x + Connect(p, i, b), p.open[b], SubSeq(e, 1, k))
    IN IF Connect(p, e[k], b) * k >= due THEN <<Connect(p, e[k], b), 1>> ELSE <<due, k>>

BeforeNext(p, b, e, k, time) == k = Len(e) \/ time[1] <= Connect(p, e[k + 1], b) * time[2]

\* The first clients that can pay before the next one is reached, and when.
EventOf(p, b, e) ==
    LET k == CHOOSE k \in DOMAIN e :
                /\ BeforeNext(p, b, e, k, PayTime(p, b, e, k))
                /\ \A j \in 1 .. k - 1 : ~BeforeNext(p, b, e, j, PayTime(p, b, e, j))
    IN [time |-> PayTime(p, b, e, k), clients |-> Range(SubSeq(e, 1, k)), base |-> b]

Earlier(t, u) == t[1] * u[2] < u[1] * t[2]

FirstEvent(events) ==
    CHOOSE x \in events : \A y \in events :
        ~Earlier(y.time, x.time) /\ (~Earlier(x.time, y.time) => x.base <= y.base)

OpenAt(p, s, event) ==
    [open |-> s.open \union {event.base},
     at |-> [i \in Items(p) |-> IF i \in event.clients THEN event.base ELSE s.at[i]],
     left |-> s.left \ event.clients,
     remaining |-> s.remaining \ {event.base}]

\* Time goes on until the next base is paid for, if any is.
NextOpened(p, s) ==
    LET ready == {b \in s.remaining : Edges(p, b, s.left) # <<>>}
    IN IF ready = {} THEN s
       ELSE OpenAt(p, s, FirstEvent({EventOf(p, b, Edges(p, b, s.left)) : b \in ready}))

RaiseDuals(p, s) ==
    LET after[k \in 0 .. Cardinality(s.remaining)] ==
            IF k = 0 THEN s ELSE LET w == after[k - 1] IN NextOpened(p, w)
    IN after[Cardinality(s.remaining)]

\* A client nobody took goes to the cheapest open base it reaches, or its own.
LeftoverBase(p, open, i) ==
    IF open # {} /\ Reaches(p, i, NearestOf(p, open, i)) THEN NearestOf(p, open, i) ELSE i

WithLeftovers(p, s) ==
    [open |-> s.open \union {i \in s.left : LeftoverBase(p, s.open, i) = i},
     at |-> [i \in Items(p) |-> IF i \in s.left THEN LeftoverBase(p, s.open, i) ELSE s.at[i]]]

Priced(p, s) ==
    [bases |-> s.open, at |-> s.at,
     objective |-> MapThenSumSet(LAMBDA b : p.open[b], s.open)
                     + MapThenSumSet(LAMBDA i : IF Reaches(p, i, s.at[i]) THEN Connect(p, i, s.at[i])
                                                ELSE 0, Items(p))]

\* The items without a candidate are bases from the start.
PrimalDual(p) ==
    LET forced == ForcedBases(p)
    IN Priced(p, WithLeftovers(p, RaiseDuals(p,
            [open |-> forced, at |-> [i \in Items(p) |-> i],
             left |-> Items(p) \ forced, remaining |-> p.cands \ forced])))

-----------------------------------------------------------------------------
(* The integer program, solved to optimality: an item without a candidate is *)
(* its own base and serves no other.                                         *)

Feasible(p, B) ==
    ForcedBases(p) \subseteq B
    /\ \A i \in Items(p) \ ForcedBases(p) : \E b \in B \intersect p.cands : Reaches(p, i, b)

ProgramCost(p, B) ==
    MapThenSumSet(LAMBDA b : p.open[b], B)
      + MapThenSumSet(LAMBDA i : Connect(p, i, NearestOf(p, B \intersect p.cands, i)),
                      Items(p) \ ForcedBases(p))

Optimum(p) ==
    Min({ProgramCost(p, B) : B \in {B \in SUBSET (p.cands \union ForcedBases(p)) : Feasible(p, B)}})

-----------------------------------------------------------------------------
(* k-means++ seeding: every outcome of its sampling.  D is a distance, zero *)
(* between an item and itself.                                               *)

\* An item is drawn by its squared distance from the centers, or like any other
\* if no item is away from them or some item is infinitely far.
NextCenters(D, n, C) ==
    LET left == (1 .. n) \ C
        away == {i \in left : \A c \in C : D[c, i] > 0}
        lost == {i \in left : \A c \in C : D[c, i] >= Big}
    IN IF away = {} \/ lost # {} THEN left ELSE away

GrownCenters(D, n, C, more) ==
    LET grown[k \in 0 .. more] ==
            IF k = 0 THEN {C}
            ELSE UNION {{B \union {c} : c \in NextCenters(D, n, B)} : B \in grown[k - 1]}
    IN grown[more]

CandidateSets(D, n, k) ==
    IF k >= n THEN {1 .. n}
    ELSE UNION {GrownCenters(D, n, {c}, k - 1) : c \in 1 .. n}

-----------------------------------------------------------------------------
(* bench_facility.py.  rows are measured ratios, a later row of a pair        *)
(* replacing an earlier one; both directions of a pair get the better ratio. *)

IdsOf(rows, maxItems) ==
    LET add(s, x) == IF x \in Range(s) THEN s ELSE Append(s, x)
        ids == FoldLeft(LAMBDA s, r : add(add(s, r.target), r.base), <<>>, rows)
    IN IF maxItems > 0 /\ maxItems < Len(ids) THEN SubSeq(ids, 1, maxItems) ELSE ids

LastRatio(rows, t, b) ==
    LET measured == {k \in DOMAIN rows : rows[k].target = t /\ rows[k].base = b}
    IN IF measured = {} THEN Big ELSE rows[Max(measured)].ratio

RatioMatrix(rows, ids) ==
    [q \in (DOMAIN ids) \X (DOMAIN ids) |->
        IF q[1] = q[2] THEN 0
        ELSE Min({LastRatio(rows, ids[q[1]], ids[q[2]]), LastRatio(rows, ids[q[2]], ids[q[1]])})]

\* r is the ratio matrix, size the size of each item, all costs in units of 1/RawRatio.
RawCost(size, meta, b) == (size[b] + meta) * RawRatio
DeltaCost(r, size, i, b) == r[i, b] * size[i]

TotalCost(r, size, meta, B) ==
    IF \E i \in DOMAIN size : \A b \in B : r[i, b] >= Big THEN Big
    ELSE MapThenSumSet(LAMBDA b : RawCost(size, meta, b), B)
           + MapThenSumSet(LAMBDA i : Min({DeltaCost(r, size, i, b) : b \in {b \in B : r[i, b] < Big}}),
                           DOMAIN size)

BestStar(r, size, meta) ==
    FirstLeast([b \in DOMAIN size |-> TotalCost(r, size, meta, {b})])

\* What the items cost under the star of base b.
StarCosts(r, size, meta, b) ==
    [i \in DOMAIN size |-> IF i = b THEN RawCost(size, meta, b) ELSE DeltaCost(r, size, i, b)]

\* The gain of the second base c counts every item it serves for less, the
\* first base among them.
SplitGain(r, size, meta, old, c) ==
    MapThenSumSet(LAMBDA i : IF r[i, c] < Big /\ DeltaCost(r, size, i, c) < old[i]
                               THEN old[i] - DeltaCost(r, size, i, c) ELSE 0,
                  DOMAIN size \ {c})
      - (RawCost(size, meta, c) - old[c])

WorseThanAverage(r, size, b) ==
    LET others == DOMAIN size \ {b}
    IN {i \in others : r[i, b] * Cardinality(others) > MapThenSumSet(LAMBDA j : r[j, b], others)}

HeuristicSplit(r, size, meta, maxSplits) ==
    LET b == BestStar(r, size, meta)
        star == TotalCost(r, size, meta, {b})
        old == StarCosts(r, size, meta, b)
        gain == [c \in WorseThanAverage(r, size, b) |-> SplitGain(r, size, meta, old, c)]
        c == FirstLeast([x \in DOMAIN gain |-> -gain[x]])
    IN IF Len(size) < 2 THEN [bases |-> <<1>>, cost |-> Big]
       ELSE IF star >= Big \/ maxSplits <= 0 \/ DOMAIN gain = {} \/ gain[c] <= 0
         THEN [bases |-> <<b>>, cost |-> star]
         ELSE [bases |-> <<b, c>>, cost |-> star - gain[c]]
=============================================================================
