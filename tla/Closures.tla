------------------------------- MODULE Closures -------------------------------
(***************************************************************************)
(* What must be fetched to serve a model: the manifest (the closure of its *)
(* tensors under "is a delta against"), the plan that leaves out what the  *)
(* client already holds, the chain of one tensor, and the order in which a *)
(* closure is rebuilt.                                                     *)
(*                                                                         *)
(* Tensor ids are positive numbers, so that they can be sorted; 0 is "no   *)
(* base".  A catalogue is a set of rows and a base for each tensor.  Each  *)
(* loop of the code is one operator, its body: ClosurePipeline takes one   *)
(* step per iteration, and the folds here run a loop to its end.           *)
(***************************************************************************)
EXTENDS Naturals, Sequences, FiniteSets, FiniteSetsExt, SequencesExt

CONSTANT MaxTid    \* the largest tensor id

ASSUME MaxTidAssumption == MaxTid \in Nat \ {0}

Tids == 1..MaxTid
Bases == [Tids -> 0..MaxTid]

\* The elements of S, a set of tensor ids, from the smallest to the largest.
Ascending(S) ==
    {s \in [1..Cardinality(S) -> S] :
        /\ S \subseteq {s[i] : i \in 1..Cardinality(S)}
        /\ \A i, j \in 1..Cardinality(S) : i < j => s[i] < s[j]}
Sorted(S) == CHOOSE s \in Ascending(S) : TRUE

Times(Body(_), state) == FoldLeft(LAMBDA w, i : Body(w), state, [i \in Tids |-> i])

-----------------------------------------------------------------------------
(* Reference definitions: least sets closed under "the base of". *)

ClosedUnder(base, stop, S) == \A t \in S : base[t] \in S \union stop \union {0}

\* What must be at hand to decode params for a client that has some already:
\* the chain of each, up to the first tensor the client has.
NeededFor(base, params, have) ==
    {t \in Tids : \A S \in SUBSET Tids :
        params \ have \subseteq S /\ ClosedUnder(base, have, S) => t \in S}

ChainOf(base, t) == NeededFor(base, {t}, {})

\* Every tensor of some set is a delta against a tensor of the set: the depth
\* of none of them is defined.
HasCycle(base, tids) == \E S \in SUBSET tids : S # {} /\ \A t \in S : base[t] \in S

-----------------------------------------------------------------------------
(* build_manifest *)

\* Mutant of NextRound: the loop looks at the bases of the parameters only.
OneRound(base, r) ==
    [blobs |-> r.blobs \union r.frontier \union ({base[t] : t \in r.frontier} \ {0}),
     frontier |-> {}]

\* A round of the frontier loop; a base already in blobs is not visited again.
NextRound(base, r) ==
    LET blobs == r.blobs \union r.frontier
    IN [blobs |-> blobs,
        frontier |-> {base[t] : t \in r.frontier} \ ({0} \union blobs)]

BuildManifest(rows, base, params) ==
    LET r == Times(LAMBDA w : NextRound(base, w), [blobs |-> {}, frontier |-> params])
    IN  IF ~(r.blobs \subseteq rows)
        THEN [error |-> "missing", closure |-> {}]
        ELSE IF HasCycle(base, r.blobs)
        THEN [error |-> "cycle", closure |-> {}]
        ELSE [error |-> "none", closure |-> r.blobs]

-----------------------------------------------------------------------------
(* plan *)

\* The walk up a parameter's chain stops at a tensor the client has or one an
\* earlier parameter needed.
WalkEnds(have, w) == w.cur \in {0} \union have \union w.needed

StepUp(base, w) == [needed |-> w.needed \union {w.cur}, cur |-> base[w.cur]]

WalkUp(base, have, needed, p) ==
    Times(LAMBDA w : IF WalkEnds(have, w) THEN w ELSE StepUp(base, w),
          [needed |-> needed, cur |-> p]).needed

\* Mutant of Fetched: a tensor the client has does not spare its base.
FetchedAll(closure, have, needed) == closure \ have

\* The entries of the manifest that are needed.
Fetched(closure, have, needed) == closure \intersect needed

Plan(base, closure, params, have) ==
    Fetched(closure, have,
            FoldLeft(LAMBDA needed, p : WalkUp(base, have, needed, p), {}, Sorted(params)))

-----------------------------------------------------------------------------
(* dfs_order *)

Children(base, S, t) == {c \in S : base[c] = t}
Roots(base, S) == {t \in S : base[t] \notin S}

\* Mutant of Visit: the children come after everything that waits.
BreadthFirst(base, S, w) ==
    [order |-> Append(w.order, Head(w.stack)),
     stack |-> Tail(w.stack) \o Sorted(Children(base, S, Head(w.stack)))]

\* Pop a tensor, push its children so that the smallest comes next.
Visit(base, S, w) ==
    [order |-> Append(w.order, Head(w.stack)),
     stack |-> Sorted(Children(base, S, Head(w.stack))) \o Tail(w.stack)]

\* A cycle is never reached from a root: the order then misses tensors.
DfsOrder(base, S) ==
    Times(LAMBDA w : IF w.stack = <<>> THEN w ELSE Visit(base, S, w),
          [order |-> <<>>, stack |-> Sorted(Roots(base, S))]).order

=============================================================================
