---------------------------- MODULE GreedyFacility ----------------------------
(***************************************************************************)
(* Greedy facility location with local search                              *)
(* (ae/bench/algorithms/greedy_facility_location.py): which of n items are *)
(* kept raw as bases, each other item being stored as a delta against its  *)
(* nearest base.                                                           *)
(*                                                                         *)
(* Costs are integers; Big stands for an infeasible pair (numpy's inf and  *)
(* the kernels' 1e30), next to which doubles lose what is small.           *)
(***************************************************************************)
EXTENDS Integers, Sequences, FiniteSets, FiniteSetsExt, SequencesExt

CONSTANTS
    Big,           \* INF_VAL
    MaxMoves,      \* local_search_max_swaps
    Problems       \* the problems to solve: [cost, open, cands, pre, external]

Items(p) == DOMAIN p.open

\* Items are numbers; a cost is infinite or small next to Big; a base that is
\* open from the start costs nothing more.
ProblemFits(p) ==
    /\ p.open \in [Items(p) -> 0 .. Big \div 2 - 1]
    /\ IsFiniteSet(Items(p)) /\ Items(p) \subseteq Nat
    /\ p.external \in [Items(p) -> Nat]
    /\ p.cost \in [Items(p) \X Items(p) -> Nat]
    /\ \A q \in DOMAIN p.cost : p.cost[q] < Big \div 2 \/ p.cost[q] >= Big
    /\ p.cands \subseteq Items(p) /\ p.pre \subseteq Items(p)
    /\ \A b \in p.pre : p.open[b] = 0

ASSUME FacilityConstants ==
    /\ Big \in Nat \ {0} /\ Big % 2 = 0 /\ MaxMoves \in Nat
    /\ \A p \in Problems : ProblemFits(p)

VARIABLES
    problem,
    bases,         \* bases_arr: a sequence the search keeps sorted
    moves,         \* moves made so far
    stage          \* "greedy", "refine" or "settled"

facility == <<problem, bases, moves, stage>>

FirstLeast(f) == CHOOSE x \in DOMAIN f : \A y \in DOMAIN f :
                     f[x] < f[y] \/ (f[x] = f[y] /\ x <= y)

Summed(f) == MapThenSumSet(LAMBDA x : f[x], DOMAIN f)

\* The elements of the sequence B from the least on.
InOrder(B) ==
    LET p == CHOOSE p \in Injection(DOMAIN B, DOMAIN B) :
                 \A k, l \in DOMAIN B : k < l => B[p[k]] <= B[p[l]]
    IN [k \in DOMAIN B |-> B[p[k]]]

SortedItems(S) == InOrder(SetToSeq(S))

\* A double of the size of Big keeps no smaller part.
Absorbed(x) ==
    IF x >= Big \div 2 THEN ((x + Big \div 2) \div Big) * Big
    ELSE IF x <= -(Big \div 2) THEN -(((Big \div 2 - x) \div Big) * Big)
    ELSE x

\* What item i costs as a delta against b.
PairCost(p, i, b) == p.cost[i, b]

Connect(p, i, b) == IF i = b THEN 0 ELSE PairCost(p, i, b)

-----------------------------------------------------------------------------
(* The objective and assignment that a set of bases comes to. *)

NearestOf(p, B, i) == FirstLeast([b \in B |-> Connect(p, i, b)])
Objective(p, B) ==
    IF B = {} THEN Summed(p.open)
    ELSE Summed([b \in B |-> p.open[b]])
           + Summed([i \in Items(p) |-> Connect(p, i, NearestOf(p, B, i))])

-----------------------------------------------------------------------------
(* Lazy greedy (CELF): s gives each item its current cost and its base, heap *)
(* the gain last computed for each candidate that is left.                   *)

AsBase(p, i, c) == IF i = c THEN p.open[c] ELSE PairCost(p, i, c)

MarginalGain(p, s, c) ==
    Summed([i \in Items(p) |-> IF AsBase(p, i, c) < s.cost[i]
                                 THEN s.cost[i] - AsBase(p, i, c) ELSE 0])

\* The new base stores itself, and takes whatever it serves for less.
UpdateState(p, s, c) ==
    LET taken(i) == i = c \/ PairCost(p, i, c) < s.cost[i]
    IN [cost |-> [i \in Items(p) |-> IF taken(i) THEN AsBase(p, i, c) ELSE s.cost[i]],
        at   |-> [i \in Items(p) |-> IF taken(i) THEN c ELSE s.at[i]]]

Top(heap) == FirstLeast([c \in DOMAIN heap |-> -heap[c]])

Searching(s, heap) == [s |-> s, heap |-> heap]

\* One round of the loop; it ends with an empty heap.
PopCandidate(p, w) ==
    LET c == Top(w.heap)
        rest == [d \in DOMAIN w.heap \ {c} |-> w.heap[d]]
        gain == MarginalGain(p, w.s, c)
    IN IF DOMAIN w.heap = {} THEN w
       ELSE IF w.heap[c] <= 0 THEN Searching(w.s, <<>>)
       ELSE IF DOMAIN rest # {} /\ gain < rest[Top(rest)]
         THEN Searching(w.s, [w.heap EXCEPT ![c] = gain])
       ELSE IF gain > 0 THEN Searching(UpdateState(p, w.s, c), rest)
       ELSE Searching(w.s, <<>>)

\* Between two openings each candidate is looked at twice at most.
MostRounds(heap) == 2 * (Cardinality(DOMAIN heap) + 1) * (Cardinality(DOMAIN heap) + 1)

LazyGreedy(p, s, heap) ==
    LET after[k \in 0 .. MostRounds(heap)] ==
            IF k = 0 THEN Searching(s, heap)
            ELSE LET w == after[k - 1] IN PopCandidate(p, w)
    IN after[MostRounds(heap)].s

\* Every item stores itself, unless a base that is open already is nearer.
StartState(p) ==
    LET raw == [i \in Items(p) |->
                  IF p.external[i] < p.open[i] THEN p.external[i] ELSE p.open[i]]
        near(i) == FirstLeast([b \in p.pre |-> PairCost(p, i, b)])
        moved(i) == i \notin p.pre /\ p.pre # {} /\ PairCost(p, i, near(i)) < raw[i]
    IN [cost |-> [i \in Items(p) |-> IF i \in p.pre THEN p.open[i]
                                     ELSE IF moved(i) THEN PairCost(p, i, near(i)) ELSE raw[i]],
        at   |-> [i \in Items(p) |-> IF moved(i) THEN near(i) ELSE i]]

GreedyBases(p) ==
    LET start == StartState(p)
        gainful == {c \in p.cands \ p.pre : MarginalGain(p, start, c) > 0}
        s == LazyGreedy(p, start, [c \in gainful |-> MarginalGain(p, start, c)])
    IN SortedItems({i \in Items(p) : s.at[i] = i})

-----------------------------------------------------------------------------
(* Local search.  The state gives each item the position of its nearest base *)
(* (0: none), what that costs, and what the next nearest would.              *)

SearchState(p, B) ==
    [i \in Items(p) |->
       LET cost == [k \in {k \in DOMAIN B : Connect(p, i, B[k]) < Big} |-> Connect(p, i, B[k])]
           at == IF DOMAIN cost = {} THEN 0 ELSE FirstLeast(cost)
       IN [at |-> at,
           cur |-> IF at = 0 THEN Big ELSE cost[at],
           second |-> Min({Big} \union {Connect(p, i, B[k]) : k \in DOMAIN B \ {at}})]]

DropDelta(p, B, st, k) ==
    Absorbed(Absorbed(Summed([i \in {i \in Items(p) : st[i].at = k} |-> st[i].second - st[i].cur]))
               - p.open[B[k]])

AddDelta(p, st, c) ==
    Absorbed(p.open[c] + Absorbed(Summed(
        [i \in {i \in Items(p) : Connect(p, i, c) < st[i].cur} |-> Connect(p, i, c) - st[i].cur])))

\* Mutant of Refuge: the clients of the removed base are left as they were.
RefugeForgotten(p, st, c, i) == st[i].cur

\* Where a client of the removed base goes when the new one is no nearer.
Refuge(p, st, c, i) ==
    IF Connect(p, i, c) < st[i].second THEN Connect(p, i, c) ELSE st[i].second

SwapDelta(p, B, st, add, c, k) ==
    Absorbed(Absorbed(add - p.open[B[k]])
               + Absorbed(Summed(
                    [i \in {i \in Items(p) : st[i].at = k /\ Connect(p, i, c) >= st[i].cur} |->
                        Refuge(p, st, c, i) - st[i].cur])))

\* The best move that opens c: add it, or put it in the place of base k.
Opening(p, B, st, c) ==
    LET add == AddDelta(p, st, c)
        swap == [k \in DOMAIN B |-> SwapDelta(p, B, st, add, c, k)]
        k0 == FirstLeast(swap)
    IN IF B # <<>> /\ swap[k0] < add
         THEN [delta |-> swap[k0], kind |-> "swap", cand |-> c, at |-> k0]
         ELSE [delta |-> add, kind |-> "add", cand |-> c, at |-> 0]

Stay == [delta |-> 0, kind |-> "none", cand |-> 0, at |-> 0]

\* Mutant of Better: without eps, a move that gains nothing is made.
BetterOrEqual(delta, best) == delta <= best

Better(delta, best) == delta < best

\* Drops are looked at first; an opening must be better than the best drop.
BestMove(p, B) ==
    LET st == SearchState(p, B)
        drop == [k \in DOMAIN B |-> DropDelta(p, B, st, k)]
        k0 == FirstLeast(drop)
        dropped == IF B # <<>> /\ drop[k0] < 0
                     THEN [delta |-> drop[k0], kind |-> "drop", cand |-> 0, at |-> k0]
                     ELSE Stay
        opened == [c \in p.cands |-> Opening(p, B, st, c)]
        c0 == FirstLeast([c \in p.cands |-> opened[c].delta])
    IN IF p.cands # {} /\ Better(opened[c0].delta, dropped.delta) THEN opened[c0] ELSE dropped

Moved(B, m) ==
    InOrder(CASE m.kind = "drop" -> RemoveAt(B, m.at)
              [] m.kind = "add"  -> Append(B, m.cand)
              [] m.kind = "swap" -> [B EXCEPT ![m.at] = m.cand]
              [] OTHER           -> B)

-----------------------------------------------------------------------------
FacilityInit ==
    /\ problem \in Problems
    /\ bases = <<>> /\ moves = 0 /\ stage = "greedy"

OpenGreedily ==
    /\ stage = "greedy"
    /\ bases' = GreedyBases(problem)
    /\ stage' = "refine"
    /\ UNCHANGED <<problem, moves>>

Improve ==
    /\ stage = "refine" /\ moves < MaxMoves
    /\ LET m == BestMove(problem, bases)
       IN m.kind # "none" /\ bases' = Moved(bases, m)
    /\ moves' = moves + 1
    /\ UNCHANGED <<problem, stage>>

Settle ==
    /\ stage = "refine"
    /\ moves = MaxMoves \/ BestMove(problem, bases).kind = "none"
    /\ stage' = "settled"
    /\ UNCHANGED <<problem, bases, moves>>

FacilityNext == OpenGreedily \/ Improve \/ Settle

-----------------------------------------------------------------------------
\* Each move of the local search lowers the objective that is computed from the
\* bases alone, an item nobody serves counting as Big, and while every item is
\* served by exactly the delta the incremental kernels predicted
\* (greedy_facility_location.py 129-192, 246-418).
RefinementDescends ==
    [][stage = "refine" /\ bases' # bases =>
         LET before == Objective(problem, Range(bases))
             after == Objective(problem, Range(bases'))
         IN /\ after < before
            /\ before < Big => after = before + BestMove(problem, bases).delta]_facility

\* The bases never hold an item twice, and never lose one that was open from
\* the start; a search that ends by itself over all candidates leaves every
\* item served, for no more than storing everything raw
\* (greedy_facility_location.py 116-117, 182-191, 575-587, 679-710).
RefinedPlansPay ==
    stage # "greedy" =>
        /\ \A k, l \in DOMAIN bases : k < l => bases[k] < bases[l]
        /\ problem.pre \subseteq Range(bases)
        /\ (stage = "settled" /\ moves < MaxMoves /\ problem.cands = Items(problem)) =>
              Objective(problem, Range(bases))
                 <= Summed(problem.open)
=============================================================================
