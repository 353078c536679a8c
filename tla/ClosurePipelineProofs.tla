------------------------- MODULE ClosurePipelineProofs -------------------------
(***************************************************************************)
(* Proofs about ClosurePipeline, for any catalogue, any budget and any     *)
(* number of threads: the planning loops compute what the reference        *)
(* definitions of Closures say, and the run keeps its budget, its store    *)
(* and its promise.                                                        *)
(***************************************************************************)
EXTENDS ClosurePipeline, ClosuresProofs

-----------------------------------------------------------------------------
(* The inductive invariant *)

\* What the plan has to fetch.
Goal == NeededFor(base, params, cached)
Waiting == ToSet(stack)
Ordered == {"ordering"} \union RunPCs
Running == {"next", "result", "decoded"}

\* The frontier loop: nothing is missed but what is below the frontier.
ManifestInv ==
    /\ params \subseteq closure.blobs \union closure.frontier
    /\ \A t \in closure.blobs :
          base[t] \in {0} \union closure.blobs \union closure.frontier
    /\ closure.blobs \union closure.frontier \subseteq NeededFor(base, params, {})
    /\ main # "resolving" => closure.frontier = {}
    /\ main = "refused" => HasCycle(base, closure.blobs)
    /\ main \notin {"resolving", "refused"} => ~HasCycle(base, closure.blobs)

\* The walk: what it needed is needed, and lacks only what it is about to visit.
WalkInv ==
    /\ walk.needed \subseteq Goal
    /\ walk.cur \in {0} \union cached \union Goal
    /\ \A t \in walk.needed : base[t] \in {0, walk.cur} \union cached \union walk.needed
    /\ params \ left \subseteq cached \union walk.needed \union {walk.cur}
    /\ main \in Ordered => Planned = Goal

\* The traversal: each tensor is listed, waits, or is below one that is neither.
OrderInv ==
    /\ main \notin Ordered => order = <<>> /\ stack = <<>>
    /\ main \in RunPCs => stack = <<>>
    /\ Distinct(order) /\ Distinct(stack) /\ Entries \cap Waiting = {}
    /\ Entries \union Waiting \subseteq Goal
    /\ main \in Ordered =>
          \A t \in Goal \ (Entries \union Waiting) : base[t] \in Goal \ Entries
    /\ \A t \in Waiting : base[t] \in Goal => base[t] \in Entries
    /\ \A i \in 1..N : base[order[i]] \in Goal =>
          \E j \in 1..(i - 1) : order[j] = base[order[i]]

\* A base is listed after the k-th tensor, or is in that tensor's chain.
OnPath(b, k) == (\E i \in (k + 1)..N : order[i] = b) \/ b \in ChainOf(base, order[k])

\* Depth first: whatever waits hangs from the path to the tensor listed last.
PathInv ==
    /\ \A i, j \in 1..Len(stack) :
          i < j /\ base[stack[j]] \in Goal => base[stack[j]] \in ChainOf(base, stack[i])
    /\ \A k \in 1..N, t \in Waiting : base[t] \in Goal => OnPath(base[t], k)
    /\ \A k, j \in 1..N : k < j /\ base[order[j]] \in Goal => OnPath(base[order[j]], k)

PlanInv == ManifestInv /\ WalkInv /\ OrderInv /\ PathInv

\* The main thread and the head of the line.
HeadInv ==
    /\ main \in PlanPCs => fetch = <<>> /\ inflight = 0 /\ head = 1 /\ surfaced = <<>>
    /\ main \in RunPCs =>
         /\ Len(surfaced) <= N
         /\ \A i \in 1..Len(surfaced) : surfaced[i] = order[i]
         /\ main # "returned" => N > 0
         /\ N > 0 => head \in 1..N
         /\ \A i \in 1..(head - 1) : fetch[i] = "got"
    /\ main \in {"result", "decoded"} => head = Len(surfaced) + 1 /\ Len(surfaced) < N
    /\ main = "next" => head = IF surfaced = <<>> THEN 1 ELSE Len(surfaced)
    /\ main = "returned" => Len(surfaced) = N
    /\ main \in {"returned", "raised"} => \A i \in 1..N : fetch[i] \in {"got", "failed"}

\* The head of the line has its bytes, and they are no longer reserved.
HeadDone ==
    \/ main = "decoded"
    \/ main = "next" /\ surfaced # <<>>

\* The bytes in flight exceed the budget by the head of the line at most, and
\* only between its reservation and its decoding.
BudgetInv ==
    main \in RunPCs /\ N > 0 =>
        /\ inflight <= Budget + Stored[Current]
        /\ fetch[head] \in {"queued", "waiting"} \/ HeadDone => inflight <= Budget
        /\ HeadDone => fetch[head] = "got"

\* A base that is not of the run, looked up and wanted again.
Rest == Entries \ Done
Looked == Done \union (IF main = "decoded" THEN {Current} ELSE {})
External(b) == b \notin Entries /\ ExtRefs(b) > 1 /\ \E t \in Looked : base[t] = b

Counted(b) ==
    refcount[b] = IF b \in Entries \/ External(b)
                  THEN Cardinality(Children(base, Rest, b)) ELSE 0
Stocked(b) ==
    b \in Kept <=> Children(base, Rest, b) # {} /\ (b \in Done \/ External(b))

\* The reference counts are the deltas to come, and the store holds what they
\* count.
StoreInv ==
    /\ main \in PlanPCs => ram = {} /\ disk = {}
    /\ main \in Running => \A b \in Tids : Counted(b) /\ Stocked(b)

Inv == TypeOK /\ PlanInv /\ HeadInv /\ BudgetInv /\ StoreInv

-----------------------------------------------------------------------------
(* Type correctness *)

\* What the main thread works on is an entry of the plan.
LEMMA CurrentTyped ==
    ASSUME TypeOK, HeadInv, main \in {"result", "decoded"}
    PROVE  /\ head \in 1..N /\ Current \in Tids /\ Current \in Entries
           /\ BaseOf(Current) \in 0..MaxTid
           /\ BaseOf(Current) # 0 => BaseOf(Current) \in Tids
<1>1. head \in 1..N /\ order \in Seq(Tids) /\ N \in Nat
  <2>1. order \in Seq(Tids) /\ N \in Nat
    BY DEF TypeOK, N
  <2> QED BY <2>1 DEF HeadInv, RunPCs
<1>2. Current \in Tids /\ Current \in Entries
  BY <1>1 DEF Current, Entries, ToSet, N
<1> QED BY <1>1, <1>2, MaxTidAssumption DEF TypeOK, Bases, BaseOf, Tids

\* There are no more entries than tensors.
LEMMA OrderFits ==
    ASSUME TypeOK, Distinct(order)
    PROVE  N \in Nat /\ N <= MaxTid
<1>1. Cardinality(Entries) = N /\ Entries \in SUBSET Tids /\ N \in Nat
  <2>1. order \in Seq(Tids)
    BY DEF TypeOK
  <2>2. Cardinality(ToSet(order)) = Len(order)
    BY <2>1, DistinctLength
  <2> QED BY <2>1, <2>2 DEF Entries, N, ToSet
<1>2. IsFiniteSet(Tids) /\ Cardinality(Tids) = MaxTid
  <2>1. 1 \in Int /\ MaxTid \in Int /\ MaxTid >= 1
    BY MaxTidAssumption
  <2>2. IsFiniteSet(Tids) /\ Cardinality(Tids) = IF 1 > MaxTid THEN 0 ELSE MaxTid - 1 + 1
    BY <2>1, FS_Interval DEF Tids
  <2> QED BY <2>1, <2>2
<1>3. Cardinality(Entries) <= Cardinality(Tids)
  BY <1>1, <1>2, FS_Subset
<1> QED BY <1>1, <1>2, <1>3

\* What Put keeps is of the same type as what it was given.
LEMMA PutTyped ==
    ASSUME TypeOK, NEW t \in Tids
    PROVE  /\ Put(t).ram \in SUBSET Tids /\ Put(t).disk \in SUBSET Tids
           /\ Put(t).ram \union Put(t).disk = Kept \union {t}
BY DEF TypeOK, Put, Kept

\* A step of a thread changes the state of its own fetch.
LEMMA FetchStep ==
    ASSUME TypeOK, HeadInv, NEW i \in DOMAIN fetch, Fetcher(i)
    PROVE  /\ main \in RunPCs /\ N \in Nat /\ i \in 1..N /\ order[i] \in Tids
           /\ fetch' \in Seq(FetchStates) /\ Len(fetch') = N
           /\ \A j \in 1..N : j # i => fetch'[j] = fetch[j]
<1>1. /\ order \in Seq(Tids) /\ fetch \in Seq(FetchStates)
      /\ main \in PlanPCs \union RunPCs
  BY DEF TypeOK
<1>2. main \in RunPCs
  BY <1>1 DEF HeadInv
<1>3. N \in Nat /\ DOMAIN fetch = 1..N /\ Len(fetch) = N /\ i \in 1..N
  BY <1>1, <1>2 DEF TypeOK, N
<1>4. order[i] \in Tids
  BY <1>1, <1>3 DEF N
<1>5. PICK v \in FetchStates : fetch' = [fetch EXCEPT ![i] = v]
  BY DEF Fetcher, Start, Reserve, Get, FetchStates
<1> QED BY <1>1, <1>2, <1>3, <1>4, <1>5

\* No step leaves the types.
LEMMA TypeStep == Inv /\ [Next]_vars => TypeOK'
<1> SUFFICES ASSUME Inv, [Next]_vars PROVE TypeOK'
  OBVIOUS
<1> USE PipelineAssumption, MaxTidAssumption
<1>0. /\ TypeOK /\ HeadInv
      /\ base \in [Tids -> 0..MaxTid] /\ params \in SUBSET Tids /\ cached \in SUBSET Tids
      /\ closure \in [blobs : SUBSET Tids, frontier : SUBSET Tids]
      /\ walk \in [needed : SUBSET Tids, cur : 0..MaxTid]
      /\ left \in SUBSET params /\ order \in Seq(Tids) /\ stack \in Seq(Tids)
      /\ fetch \in Seq(FetchStates) /\ refcount \in [Tids -> Int] /\ inflight \in Int
  BY DEF Inv, TypeOK, Bases
<1>1. CASE LookUp
  <2>1. closure' \in [blobs : SUBSET Tids, frontier : SUBSET Tids]
    <3>1. ASSUME NEW t \in closure.frontier PROVE base[t] \in Tids \union {0}
      <4>1. t \in Tids
        BY <1>0
      <4>2. base[t] \in 0..MaxTid
        BY <1>0, <4>1, Zenon
      <4> QED BY <4>2 DEF Tids
    <3>2. closure' = NextRound(base, closure)
      BY <1>1 DEF LookUp
    <3>3. closure.blobs \in SUBSET Tids /\ closure.frontier \in SUBSET Tids
      BY <1>0
    <3> QED BY <3>1, <3>2, <3>3 DEF NextRound
  <2>2. /\ UNCHANGED <<base, params, cached, walk, left, order, stack, fetch, inflight>>
        /\ UNCHANGED <<head, main, refcount, ram, disk, surfaced>> /\ N' = N
    BY <1>1 DEF LookUp, catalogue, pool, store, N
  <2> QED BY <1>0, <2>1, <2>2 DEF TypeOK
<1>2. CASE Resolve
  BY <1>0, <1>2 DEF Resolve, job, catalogue, manifest, pool, store, TypeOK, N,
                    PlanPCs, RunPCs
<1>3. CASE Step
  <2>1. walk' \in [needed : SUBSET Tids, cur : 0..MaxTid]
    <3>1. walk.cur \in Tids
      BY <1>0, <1>3 DEF Step, WalkOver, WalkEnds, Tids
    <3> QED BY <1>0, <1>3, <3>1 DEF Step, StepUp
  <2>2. /\ UNCHANGED <<base, params, cached, closure, left, order, stack, fetch, inflight>>
        /\ UNCHANGED <<head, main, refcount, ram, disk, surfaced>> /\ N' = N
    BY <1>3 DEF Step, catalogue, pool, store, N
  <2> QED BY <1>0, <2>1, <2>2 DEF TypeOK
<1>4. ASSUME NEW p \in left, WalkFrom(p) PROVE TypeOK'
  <2>1. walk' \in [needed : SUBSET Tids, cur : 0..MaxTid]
    <3>1. p \in 0..MaxTid /\ walk.needed \in SUBSET Tids
      BY <1>0 DEF Tids
    <3> QED BY <1>0, <1>4, <3>1 DEF WalkFrom
  <2> QED BY <1>0, <1>4, <2>1 DEF WalkFrom, catalogue, pool, store, TypeOK, N
<1>5. CASE PlanMade
  <2>1. walk' \in [needed : SUBSET Tids, cur : 0..MaxTid]
    <3>1. 0 \in 0..MaxTid /\ walk.needed \in SUBSET Tids
      BY <1>0
    <3> QED BY <1>0, <1>5, <3>1 DEF PlanMade
  <2>2. Roots(base, Planned) \in SUBSET Tids
    BY <1>0 DEF Roots, Planned, Fetched
  <2>3. stack' \in Seq(Tids)
    BY <1>5, <2>2, SortedLists DEF PlanMade
  <2> QED BY <1>0, <1>5, <2>1, <2>3 DEF PlanMade, catalogue, pool, store, TypeOK, N,
                                         PlanPCs, RunPCs
<1>6. CASE Order
  <2>1. Children(base, Planned, Head(stack)) \in SUBSET Tids
    BY <1>0 DEF Children, Planned, Fetched
  <2>2. Sorted(Children(base, Planned, Head(stack))) \in Seq(Tids)
    BY <2>1, SortedLists
  <2>3. Head(stack) \in Tids /\ Tail(stack) \in Seq(Tids)
    BY <1>0, <1>6 DEF Order
  <2>4. order' \in Seq(Tids) /\ stack' \in Seq(Tids)
    BY <1>0, <1>6, <2>2, <2>3 DEF Order, Visit
  <2> QED BY <1>0, <1>6, <2>4 DEF Order, catalogue, manifest, pool, store, TypeOK, N,
                                   RunPCs
<1>7. CASE Begin
  <2>1. N \in Nat /\ fetch' \in Seq(FetchStates) /\ Len(fetch') = N
    BY <1>0, <1>7 DEF Begin, N, FetchStates
  <2>2. refcount' \in [Tids -> Int]
    <3>1. \A t \in Tids : Cardinality(Children(base, Entries, t)) \in Nat
      BY <1>0, TidsFinite DEF Children, Entries, ToSet
    <3> QED BY <1>7, <3>1 DEF Begin
  <2> QED BY <1>0, <1>7, <2>1, <2>2 DEF Begin, job, catalogue, manifest, TypeOK, N,
                                         PlanPCs, RunPCs
<1>8. CASE Advance
  <2>1. head' \in Tids
    <3>1. Distinct(order) /\ Len(surfaced) \in Nat /\ head \in Tids
      BY <1>0 DEF Inv, PlanInv, OrderInv, TypeOK
    <3>2. N \in Nat /\ N <= MaxTid
      BY <1>0, <3>1, OrderFits
    <3>3. Len(surfaced) < N => Len(surfaced) + 1 \in Tids
      BY <3>1, <3>2 DEF Tids
    <3> QED BY <1>8, <3>1, <3>3 DEF Advance
  <2> QED BY <1>0, <1>8, <2>1 DEF Advance, job, catalogue, manifest, store, TypeOK, N,
                                   PlanPCs, RunPCs
<1>9. CASE FetchFailed \/ BaseUnavailable \/ SinkFailed
  BY <1>0, <1>9 DEF FetchFailed, BaseUnavailable, SinkFailed, Raise, job, catalogue,
                    manifest, pool, store, TypeOK, N, PlanPCs, RunPCs
<1>10. CASE Decode
  <2> DEFINE b == BaseOf(Current)
  <2>1. Current \in Tids /\ (b # 0 => b \in Tids)
    BY <1>0, <1>10, CurrentTyped DEF Decode
  <2>2. ram' \in SUBSET Tids /\ disk' \in SUBSET Tids
    BY <1>0, <1>10, <2>1, PutTyped DEF Decode, TypeOK
  <2>3. Cardinality(Children(base, Entries, b)) \in Int
    BY <1>0, TidsFinite DEF Children, Entries, ToSet
  <2>4. refcount' \in [Tids -> Int]
    BY <1>0, <1>10, <2>1, <2>3 DEF Decode, ExtRefs
  <2>5. inflight' \in Int
    BY <1>0, <1>10, <2>1 DEF Decode
  <2> QED BY <1>0, <1>10, <2>2, <2>4, <2>5
          DEF Decode, job, catalogue, manifest, TypeOK, N, PlanPCs, RunPCs
<1>11. CASE Surface
  <2> DEFINE b == BaseOf(Current)
  <2>1. Current \in Tids
    BY <1>0, <1>11, CurrentTyped DEF Surface
  <2>2. ram' \in SUBSET Tids /\ disk' \in SUBSET Tids
    BY <1>0, <1>11, <2>1, PutTyped DEF Surface, TypeOK
  <2>3. refcount' \in [Tids -> Int]
    <3>1. b # 0 => b \in Tids
      BY <1>0, <1>11, CurrentTyped DEF Surface
    <3>2. refcount' = [refcount EXCEPT ![b] = refcount[b] - 1] \/ refcount' = refcount
      BY <1>11 DEF Surface, Released
    <3> QED BY <1>0, <3>1, <3>2
  <2>4. surfaced' \in Seq(Tids)
    BY <1>0, <1>11, <2>1 DEF Surface, TypeOK
  <2> QED BY <1>0, <1>11, <2>2, <2>3, <2>4
          DEF Surface, job, catalogue, manifest, TypeOK, N, PlanPCs, RunPCs
<1>12. CASE Join
  BY <1>0, <1>12 DEF Join, job, catalogue, manifest, TypeOK, N, PlanPCs, RunPCs
<1>13. ASSUME NEW i \in DOMAIN fetch, Fetcher(i) PROVE TypeOK'
  <2>1. fetch' \in Seq(FetchStates) /\ Len(fetch') = N /\ order[i] \in Tids
    BY <1>0, <1>13, FetchStep
  <2>2. inflight' \in Int
    <3>1. inflight' = inflight \/ inflight' = inflight + Stored[order[i]]
      BY <1>13 DEF Fetcher, Start, Reserve, Get
    <3> QED BY <1>0, <2>1, <3>1
  <2>3. UNCHANGED <<job, head, main, store, surfaced>>
    BY <1>13 DEF Fetcher, Start, Reserve, Get
  <2>4. /\ UNCHANGED <<base, params, cached, closure, walk, left, order, stack>>
        /\ UNCHANGED <<head, main, refcount, ram, disk, surfaced>> /\ N' = N
    BY <2>3 DEF job, catalogue, manifest, store, N
  <2> QED BY <1>0, <2>1, <2>2, <2>4 DEF TypeOK
<1>14. CASE UNCHANGED vars
  BY <1>0, <1>14 DEF vars, job, catalogue, manifest, pool, store, TypeOK, N
<1> QED
  BY <1>1, <1>2, <1>3, <1>4, <1>5, <1>6, <1>7, <1>8, <1>9, <1>10, <1>11, <1>12, <1>13,
     <1>14 DEF Next, Planning, Main

-----------------------------------------------------------------------------
(* The planning loops *)

\* Where the traversal has nothing left to visit, it has visited the plan: a
\* tensor left out would lie on a cycle.
LEMMA OrderComplete ==
    ASSUME TypeOK, PlanInv, main \in Ordered, stack = <<>>
    PROVE  Entries = Goal /\ Planned = Goal /\ N = Cardinality(Planned)
<1>1. Entries \subseteq Goal /\ Planned = Goal /\ Distinct(order)
  BY DEF PlanInv, WalkInv, OrderInv
<1>2. order \in Seq(Tids)
  BY DEF TypeOK
<1> DEFINE S == Goal \ Entries
<1>3. \A t \in S : base[t] \in S
  BY DEF PlanInv, OrderInv, Waiting, ToSet
<1>4. S \subseteq closure.blobs
  BY <1>1 DEF Planned, Fetched
<1>5. ~HasCycle(base, closure.blobs)
  BY DEF PlanInv, ManifestInv, Ordered, RunPCs
<1>6. S = {}
  BY <1>3, <1>4, <1>5, NoCycle
<1>7. Cardinality(Entries) = N
  BY <1>1, <1>2, DistinctLength DEF Entries, N
<1>8. Entries = Goal
  BY <1>1, <1>6
<1> QED BY <1>1, <1>7, <1>8

\* From the ordering on, only main, the pool, the store and what the traversal
\* lists change; the plan is not refused any more.
LEMMA MainStep ==
    ASSUME Inv, Main \/ (\E i \in DOMAIN fetch : Fetcher(i))
    PROVE  /\ UNCHANGED <<base, params, cached, closure, walk, left>>
           /\ main \in Ordered /\ main' \in Ordered
           /\ main \in RunPCs => main' \in RunPCs /\ UNCHANGED <<order, stack>>
<1>0. TypeOK /\ PlanInv /\ HeadInv
  BY DEF Inv
<1>1. CASE Order
  BY <1>1 DEF Order, catalogue, manifest, Ordered, RunPCs
<1>2. CASE Begin
  <2>1. main \in Ordered /\ stack = <<>> /\ main \notin RunPCs
    BY <1>2 DEF Begin, Ordered, RunPCs
  <2>2. N = Cardinality(Planned)
    BY <1>0, <2>1, OrderComplete
  <2>3. main' \in RunPCs
    BY <1>2, <2>2 DEF Begin, RunPCs
  <2> QED BY <1>2, <2>1, <2>3 DEF Begin, job, catalogue, manifest, Ordered
<1>3. CASE Advance \/ FetchFailed \/ BaseUnavailable \/ Decode \/ SinkFailed \/ Surface \/ Join
  <2>1. UNCHANGED job /\ main \in RunPCs /\ main' \in RunPCs
    BY <1>3 DEF Advance, FetchFailed, BaseUnavailable, Decode, SinkFailed, Surface,
                Join, Raise, RunPCs
  <2> QED BY <2>1 DEF job, catalogue, manifest, Ordered
<1>4. CASE \E i \in DOMAIN fetch : Fetcher(i)
  <2>1. UNCHANGED job /\ main \in RunPCs /\ main' \in RunPCs
    BY <1>0, <1>4, FetchStep DEF Fetcher, Start, Reserve, Get
  <2> QED BY <2>1 DEF job, catalogue, manifest, Ordered
<1> QED BY <1>1, <1>2, <1>3, <1>4 DEF Main

\* Planning steps do not reach the run.
LEMMA PlanningStep ==
    ASSUME Planning
    PROVE  /\ UNCHANGED <<base, params, cached, order, fetch, inflight, head,
                          refcount, ram, disk, surfaced>>
           /\ main \in {"resolving", "walking"}
           /\ main' \in {"resolving", "refused", "walking", "ordering"}
           /\ main' # "ordering" => UNCHANGED stack
           /\ main' = "ordering" <=> PlanMade
BY DEF Planning, LookUp, Resolve, Step, WalkFrom, PlanMade, job, catalogue, manifest,
       pool, store

\* The rows looked up are needed, and what they lead to is looked up or still to be.
LEMMA ManifestStep == Inv /\ [Next]_vars => ManifestInv'
<1> SUFFICES ASSUME Inv, [Next]_vars PROVE ManifestInv'
  OBVIOUS
<1>0. TypeOK /\ PlanInv /\ ManifestInv
  BY DEF Inv, PlanInv
<1> DEFINE W == NeededFor(base, params, {})
<1>1. CASE LookUp
  <2> DEFINE blobs == closure.blobs \union closure.frontier
  <2>1. /\ closure'.blobs = blobs
        /\ closure'.frontier = {base[t] : t \in closure.frontier} \ ({0} \union blobs)
    BY <1>1 DEF LookUp, NextRound
  <2>2. W \in SUBSET Tids /\ ClosedUnder(base, {}, W)
    BY <1>0, NeededIsClosed DEF TypeOK
  <2>3. blobs \subseteq W
    BY <1>0 DEF ManifestInv
  <2>4. closure'.frontier \subseteq W
    BY <2>1, <2>2, <2>3 DEF ClosedUnder
  <2>5. UNCHANGED <<base, params, main>> /\ main = "resolving"
    BY <1>1 DEF LookUp, catalogue
  <2> QED BY <1>0, <2>1, <2>3, <2>4, <2>5 DEF ManifestInv
<1>2. CASE Resolve
  <2>1. UNCHANGED <<base, params, closure>>
    BY <1>2 DEF Resolve, job, catalogue, manifest
  <2> QED BY <1>0, <1>2, <2>1 DEF Resolve, Refused, ManifestInv
<1>3. CASE Step \/ PlanMade \/ \E p \in left : WalkFrom(p)
  <2>1. UNCHANGED <<base, params, closure>> /\ main = "walking" /\ main' \in {"walking", "ordering"}
    BY <1>3 DEF Step, PlanMade, WalkFrom, catalogue
  <2> QED BY <1>0, <2>1 DEF ManifestInv
<1>4. CASE Main \/ \E i \in DOMAIN fetch : Fetcher(i)
  <2>1. UNCHANGED <<base, params, closure>> /\ main \in Ordered /\ main' \in Ordered
    BY <1>4, MainStep
  <2> QED BY <1>0, <2>1 DEF ManifestInv, Ordered, RunPCs
<1>5. CASE UNCHANGED vars
  BY <1>0, <1>5 DEF vars, job, catalogue, manifest, ManifestInv
<1> QED BY <1>1, <1>2, <1>3, <1>4, <1>5 DEF Next, Planning

\* A walk that is over has found a closed set.
LEMMA WalkIsWhole ==
    ASSUME TypeOK, ManifestInv, WalkInv, main = "walking", WalkOver, left = {}
    PROVE  Planned = Goal
<1>1. base \in Bases /\ params \in SUBSET Tids /\ cached \in SUBSET Tids
  BY DEF TypeOK
<1>2. walk.needed \subseteq Goal /\ walk.cur \in {0} \union cached \union walk.needed
  BY DEF WalkInv, WalkOver, WalkEnds
<1>3. Goal \subseteq walk.needed
  <2>1. params \ cached \subseteq walk.needed
    BY <1>1, <1>2, MaxTidAssumption DEF WalkInv, Tids
  <2>2. ClosedUnder(base, cached, walk.needed)
    BY <1>2 DEF WalkInv, ClosedUnder
  <2>3. walk.needed \in SUBSET Tids
    BY DEF TypeOK
  <2> QED BY <2>1, <2>2, <2>3, NeededIsLeast DEF Goal
<1>4. Goal \subseteq closure.blobs
  <2>1. params \ cached \subseteq closure.blobs /\ ClosedUnder(base, cached, closure.blobs)
    BY DEF ManifestInv, ClosedUnder
  <2>2. closure.blobs \in SUBSET Tids
    BY DEF TypeOK
  <2> QED BY <2>1, <2>2, NeededIsLeast DEF Goal
<1> QED BY <1>2, <1>3, <1>4 DEF Planned, Fetched

\* The walk adds what is needed only, and a base is added, cached or next.
LEMMA WalkStep == Inv /\ [Next]_vars => WalkInv'
<1> SUFFICES ASSUME Inv, [Next]_vars PROVE WalkInv'
  OBVIOUS
<1>0. TypeOK /\ ManifestInv /\ WalkInv
  BY DEF Inv, PlanInv
<1>a. /\ Goal \in SUBSET Tids /\ params \ cached \subseteq Goal
      /\ ClosedUnder(base, cached, Goal)
  BY <1>0, NeededIsClosed DEF TypeOK, Goal
<1>1. CASE LookUp \/ Resolve
  <2>1. UNCHANGED <<base, params, cached, walk, left>> /\ main' \notin Ordered
    BY <1>1 DEF LookUp, Resolve, job, catalogue, manifest, Ordered, RunPCs
  <2> QED BY <1>0, <2>1 DEF WalkInv, Goal
<1>2. CASE Step
  <2>1. /\ UNCHANGED <<base, params, cached, left>> /\ main' \notin Ordered
        /\ walk'.needed = walk.needed \union {walk.cur} /\ walk'.cur = base[walk.cur]
        /\ walk.cur \notin {0} \union cached
    BY <1>2 DEF Step, StepUp, WalkOver, WalkEnds, catalogue, Ordered, RunPCs
  <2>2. Goal' = Goal
    BY <2>1 DEF Goal
  <2>3. walk.cur \in Goal /\ base[walk.cur] \in {0} \union cached \union Goal
    BY <1>0, <1>a, <2>1 DEF WalkInv, ClosedUnder
  <2> QED BY <1>0, <2>1, <2>2, <2>3 DEF WalkInv
<1>3. ASSUME NEW p \in left, WalkFrom(p) PROVE WalkInv'
  <2>1. /\ UNCHANGED <<base, params, cached>> /\ main' \notin Ordered
        /\ left' = left \ {p}
        /\ walk'.needed = walk.needed /\ walk'.cur = p
        /\ walk.cur \in {0} \union cached \union walk.needed
    BY <1>0, <1>3 DEF WalkFrom, WalkOver, WalkEnds, catalogue, Ordered, RunPCs, TypeOK
  <2>2. Goal' = Goal
    BY <2>1 DEF Goal
  <2>3. p \in cached \union Goal /\ params \in SUBSET Tids
    BY <1>0, <1>a DEF TypeOK
  <2>4. 0 \notin params
    BY <2>3, MaxTidAssumption DEF Tids
  <2>5. params \ left' \subseteq cached' \union walk'.needed \union {walk'.cur}
    BY <1>0, <2>1, <2>4 DEF WalkInv
  <2> QED BY <1>0, <2>1, <2>2, <2>3, <2>5 DEF WalkInv
<1>4. CASE PlanMade
  <2>1. /\ UNCHANGED <<base, params, cached, closure, left>>
        /\ main = "walking" /\ WalkOver /\ left = {}
        /\ walk'.needed = walk.needed /\ walk'.cur = 0
        /\ walk.cur \in {0} \union cached \union walk.needed
    BY <1>0, <1>4 DEF PlanMade, WalkOver, WalkEnds, catalogue, TypeOK
  <2>2. Goal' = Goal /\ Planned' = Planned
    BY <2>1 DEF Goal, Planned, Fetched
  <2>3. Planned = Goal
    BY <1>0, <2>1, WalkIsWhole
  <2>4. 0 \notin params
    BY <1>0, MaxTidAssumption DEF TypeOK, Tids
  <2>5. params \ left' \subseteq cached' \union walk'.needed \union {walk'.cur}
    BY <1>0, <2>1, <2>4 DEF WalkInv
  <2> QED BY <1>0, <2>1, <2>2, <2>3, <2>5 DEF WalkInv
<1>5. CASE Main \/ \E i \in DOMAIN fetch : Fetcher(i)
  <2>1. UNCHANGED <<base, params, cached, closure, walk, left>> /\ main \in Ordered
    BY <1>5, MainStep
  <2> QED BY <1>0, <2>1 DEF WalkInv, Goal, Planned
<1>6. CASE UNCHANGED vars
  BY <1>0, <1>6 DEF vars, job, catalogue, manifest, WalkInv, Goal, Planned
<1> QED BY <1>1, <1>2, <1>3, <1>4, <1>5, <1>6 DEF Next, Planning

-----------------------------------------------------------------------------
(* The traversal *)

\* One visit: a waiting tensor is listed, and its children, which have been
\* neither listed nor pushed, wait in front of the others.
LEMMA VisitFacts ==
    ASSUME TypeOK, PlanInv, Order
    PROVE  LET t == Head(stack)
               kids == Sorted(Children(base, Goal, t))
               rest == Tail(stack)
           IN  /\ UNCHANGED <<base, params, cached, main>> /\ main = "ordering"
               /\ Goal' = Goal
               /\ order' = Append(order, t) /\ stack' = kids \o rest
               /\ kids \in Seq(Tids) /\ rest \in Seq(Tids)
               /\ t \in Waiting /\ t \notin Entries /\ t \in Goal /\ t \in Tids
               /\ ToSet(kids) = Children(base, Goal, t) /\ Distinct(kids)
               /\ ToSet(rest) = Waiting \ {t} /\ Distinct(rest)
               /\ Children(base, Goal, t) \cap (Entries \union Waiting) = {}
               /\ Entries' = Entries \union {t} /\ N' = N + 1 /\ N \in Nat
               /\ \A i \in 1..N : order'[i] = order[i]
               /\ order'[N + 1] = t
               /\ Waiting' = Children(base, Goal, t) \union ToSet(rest)
<1> DEFINE t == Head(stack)
           C == Children(base, Goal, t)
           kids == Sorted(C)
           rest == Tail(stack)
<1>1. /\ order \in Seq(Tids) /\ stack \in Seq(Tids) /\ stack # <<>>
      /\ main = "ordering" /\ UNCHANGED <<base, params, cached, main>>
  BY DEF TypeOK, Order, catalogue
<1>2. Planned = Goal /\ OrderInv
  BY <1>1 DEF PlanInv, WalkInv, Ordered
<1>3. order' = Append(order, t) /\ stack' = kids \o rest /\ Goal' = Goal
  BY <1>1, <1>2 DEF Order, Visit, Goal
<1>4. /\ t \in Tids /\ t \in Waiting /\ rest \in Seq(Tids)
      /\ ToSet(rest) = Waiting \ {t} /\ Distinct(rest)
  BY <1>1, <1>2, TailOf DEF OrderInv, Waiting
<1>5. t \notin Entries /\ t \in Goal
  BY <1>2, <1>4 DEF OrderInv
<1>6. C \in SUBSET Tids
  <2>1. Goal \subseteq Tids
    BY DEF Goal, NeededFor
  <2> QED BY <2>1 DEF Children
<1>7. /\ kids \in Seq(Tids) /\ ToSet(kids) = C /\ Distinct(kids)
  BY <1>6, SortedLists
<1>8. C \cap (Entries \union Waiting) = {}
  <2>1. ASSUME NEW c \in C, c \in Waiting PROVE FALSE
    BY <1>2, <1>5, <2>1 DEF OrderInv, Children
  <2>2. ASSUME NEW c \in C, c \in Entries PROVE FALSE
    <3>1. PICK i \in 1..N : order[i] = c
      BY <1>1, <2>2 DEF Entries, ToSet, N
    <3>2. base[order[i]] = t
      BY <3>1 DEF Children
    <3>3. PICK j \in 1..(i - 1) : order[j] = t
      BY <1>2, <1>5, <3>2 DEF OrderInv
    <3>4. j \in DOMAIN order
      BY <1>1, <3>1, <3>3 DEF N
    <3> QED BY <1>5, <3>3, <3>4 DEF Entries, ToSet
  <2> QED BY <2>1, <2>2
<1>9. /\ Entries' = Entries \union {t} /\ N' = N + 1 /\ N \in Nat
      /\ \A i \in 1..N : order'[i] = order[i]
      /\ order'[N + 1] = t
  BY <1>1, <1>3, <1>4, AppendOne DEF Entries, N
<1>10. Waiting' = C \union ToSet(rest)
  <2>1. ToSet(kids \o rest) = ToSet(kids) \union ToSet(rest)
    <3>1. kids \in Seq(Tids) /\ rest \in Seq(Tids)
      BY <1>4, <1>7
    <3> HIDE DEF kids, rest
    <3> QED BY <3>1, ConcatOf
  <2>2. Waiting' = ToSet(kids \o rest)
    BY <1>3 DEF Waiting
  <2> QED BY <1>7, <2>1, <2>2
<1> QED BY <1>1, <1>3, <1>4, <1>5, <1>7, <1>8, <1>9, <1>10

\* The traversal orders each needed tensor once, its base before it.
LEMMA OrderStep == Inv /\ [Next]_vars => OrderInv'
<1> SUFFICES ASSUME Inv, [Next]_vars PROVE OrderInv'
  OBVIOUS
<1>0. TypeOK /\ PlanInv /\ OrderInv
  BY DEF Inv, PlanInv
<1>1. CASE Planning /\ ~PlanMade
  <2>1. /\ UNCHANGED <<base, params, cached, order, stack>>
        /\ main \notin Ordered /\ main' \notin Ordered
    BY <1>1, PlanningStep DEF Ordered, RunPCs
  <2> QED BY <1>0, <2>1 DEF OrderInv, Goal, Entries, Waiting, N, Ordered
<1>2. CASE PlanMade
  <2> DEFINE R == Roots(base, Goal)
  <2>1. /\ UNCHANGED <<base, params, cached, order>> /\ order = <<>>
        /\ main' = "ordering" /\ Planned = Goal
    <3>1. main = "walking" /\ WalkOver /\ left = {} /\ UNCHANGED <<catalogue, order>>
          /\ main' = "ordering"
      BY <1>2 DEF PlanMade
    <3>2. Planned = Goal
      BY <1>0, <3>1, WalkIsWhole DEF PlanInv
    <3> QED BY <1>0, <3>1, <3>2 DEF OrderInv, catalogue, Ordered, RunPCs
  <2>2. Goal' = Goal /\ Goal \subseteq Tids
    BY <2>1 DEF Goal, NeededFor
  <2>3. ToSet(stack') = R /\ Distinct(stack')
    BY <1>2, <2>1, <2>2, SortedLists DEF PlanMade, Roots
  <2>4. Waiting' = R /\ Entries' = {} /\ N' = 0 /\ Distinct(order')
    BY <2>1, <2>3 DEF Waiting, Entries, ToSet, N, Distinct
  <2> QED BY <2>1, <2>2, <2>3, <2>4 DEF OrderInv, Ordered, RunPCs, Roots
<1>3. CASE Order
  <2> DEFINE t == Head(stack)
             C == Children(base, Goal, t)
             kids == Sorted(C)
             rest == Tail(stack)
  <2>1. /\ UNCHANGED <<base, params, cached, main>> /\ main = "ordering"
        /\ Goal' = Goal
        /\ order' = Append(order, t) /\ stack' = kids \o rest
        /\ kids \in Seq(Tids) /\ rest \in Seq(Tids)
        /\ t \in Waiting /\ t \notin Entries /\ t \in Goal /\ t \in Tids
        /\ ToSet(kids) = C /\ Distinct(kids)
        /\ ToSet(rest) = Waiting \ {t} /\ Distinct(rest)
        /\ C \cap (Entries \union Waiting) = {}
        /\ Entries' = Entries \union {t} /\ N' = N + 1 /\ N \in Nat
        /\ \A i \in 1..N : order'[i] = order[i]
        /\ order'[N + 1] = t
        /\ Waiting' = C \union ToSet(rest)
    BY <1>0, <1>3, VisitFacts
  <2>2. \A c \in C : c \in Goal /\ base[c] = t
    BY DEF Children
  <2>3. \A c \in Goal : base[c] = t => c \in C
    BY DEF Children
  <2> HIDE DEF t, C, kids, rest
  <2>4. Distinct(order')
    BY <1>0, <2>1, AppendOne DEF TypeOK, OrderInv, Entries
  <2>5. Distinct(stack')
    BY <2>1, ConcatOf
  <2>6. Entries' \cap Waiting' = {} /\ Entries' \union Waiting' \subseteq Goal
    BY <1>0, <2>1, <2>2 DEF OrderInv
  <2>7. \A u \in Goal \ (Entries' \union Waiting') : base[u] \in Goal \ Entries'
    BY <1>0, <2>1, <2>3 DEF OrderInv, Ordered
  <2>8. \A u \in Waiting' : base[u] \in Goal => base[u] \in Entries'
    BY <1>0, <2>1, <2>2 DEF OrderInv
  <2>9. ASSUME NEW i \in 1..(N + 1), base[order'[i]] \in Goal
        PROVE  \E j \in 1..(i - 1) : order'[j] = base[order'[i]]
    <3>1. CASE i \in 1..N
      <4>1. PICK j \in 1..(i - 1) : order[j] = base[order[i]]
        BY <1>0, <2>1, <2>9, <3>1 DEF OrderInv
      <4>2. j \in 1..N
        BY <2>1, <3>1, <4>1
      <4> QED BY <2>1, <3>1, <4>1, <4>2
    <3>2. CASE i = N + 1
      <4>1. base[t] \in Entries
        BY <1>0, <2>1, <2>9, <3>2 DEF OrderInv
      <4>2. DOMAIN order = 1..N
        BY <1>0 DEF TypeOK, N
      <4>3. PICK j \in 1..N : order[j] = base[t]
        BY <4>1, <4>2 DEF Entries, ToSet
      <4>4. order'[j] = order[j] /\ order'[i] = t
        BY <2>1, <3>2
      <4>5. i - 1 = N
        BY <2>1, <3>2
      <4> QED BY <4>3, <4>4, <4>5
    <3>3. i \in 1..N \/ i = N + 1
      BY <2>1
    <3> QED BY <3>1, <3>2, <3>3
  <2> QED BY <2>1, <2>4, <2>5, <2>6, <2>7, <2>8, <2>9 DEF OrderInv, Ordered, RunPCs
<1>4. CASE Begin
  <2>1. UNCHANGED <<base, params, cached, order, stack>> /\ main = "ordering" /\ stack = <<>>
    BY <1>4 DEF Begin, job, catalogue
  <2>2. main' \in Ordered
    BY <1>4, MainStep DEF Main
  <2> QED BY <1>0, <2>1, <2>2 DEF OrderInv, Goal, Entries, Waiting, N, Ordered
<1>5. CASE (Main /\ ~Order /\ ~Begin) \/ \E i \in DOMAIN fetch : Fetcher(i)
  <2>1. main \in RunPCs
    <3>1. CASE \E i \in DOMAIN fetch : Fetcher(i)
      BY <3>1, FetchStep DEF Inv
    <3>2. CASE Main /\ ~Order /\ ~Begin
      BY <3>2 DEF Main, Advance, FetchFailed, BaseUnavailable, Decode, SinkFailed,
                  Surface, Join, RunPCs
    <3> QED BY <1>5, <3>1, <3>2
  <2>2. UNCHANGED <<base, params, cached, order, stack>> /\ main' \in RunPCs
    BY <1>5, <2>1, MainStep
  <2> QED BY <1>0, <2>1, <2>2 DEF OrderInv, Goal, Entries, Waiting, N, Ordered
<1>6. CASE UNCHANGED vars
  BY <1>0, <1>6 DEF vars, job, catalogue, OrderInv, Goal, Entries, Waiting, N
<1> QED BY <1>1, <1>2, <1>3, <1>4, <1>5, <1>6 DEF Next

\* What waits on the stack stays on the path of what comes before it.
LEMMA PathStep == Inv /\ [Next]_vars => PathInv'
<1> SUFFICES ASSUME Inv, [Next]_vars PROVE PathInv'
  OBVIOUS
<1>0. TypeOK /\ PlanInv /\ OrderInv /\ PathInv
  BY DEF Inv, PlanInv
<1>1. CASE Planning /\ ~PlanMade
  <2>1. UNCHANGED <<base, params, cached, order, stack>>
    BY <1>1, PlanningStep
  <2> QED BY <1>0, <2>1 DEF PathInv, OnPath, Goal, Waiting, N
<1>2. CASE PlanMade
  <2> DEFINE R == Roots(base, Goal)
  <2>1. /\ UNCHANGED <<base, params, cached, order>> /\ order = <<>> /\ Planned = Goal
    <3>1. main = "walking" /\ WalkOver /\ left = {} /\ UNCHANGED <<catalogue, order>>
      BY <1>2 DEF PlanMade
    <3>2. Planned = Goal
      BY <1>0, <3>1, WalkIsWhole DEF PlanInv
    <3> QED BY <1>0, <3>1, <3>2 DEF OrderInv, catalogue, Ordered, RunPCs
  <2>2. Goal' = Goal /\ R \in SUBSET Tids
    BY <2>1 DEF Goal, NeededFor, Roots
  <2>3. ToSet(stack') = R /\ stack' \in Seq(R)
    BY <1>2, <2>1, <2>2, SortedLists DEF PlanMade
  <2>4. \A j \in 1..Len(stack') : base'[stack'[j]] \notin Goal'
    BY <2>1, <2>2, <2>3 DEF Roots
  <2>5. N' = 0
    BY <2>1 DEF N
  <2> QED BY <2>4, <2>5 DEF PathInv
<1>3. CASE Order
  <2> DEFINE t == Head(stack)
             C == Children(base, Goal, t)
             kids == Sorted(C)
             rest == Tail(stack)
             m == Len(kids)
             n == Len(rest)
  <2>1. /\ UNCHANGED <<base, params, cached, main>> /\ main = "ordering"
        /\ Goal' = Goal
        /\ order' = Append(order, t) /\ stack' = kids \o rest
        /\ kids \in Seq(Tids) /\ rest \in Seq(Tids)
        /\ t \in Waiting /\ t \notin Entries /\ t \in Goal /\ t \in Tids
        /\ ToSet(kids) = C /\ Distinct(kids)
        /\ ToSet(rest) = Waiting \ {t} /\ Distinct(rest)
        /\ C \cap (Entries \union Waiting) = {}
        /\ Entries' = Entries \union {t} /\ N' = N + 1 /\ N \in Nat
        /\ \A i \in 1..N : order'[i] = order[i]
        /\ order'[N + 1] = t
        /\ Waiting' = C \union ToSet(rest)
    BY <1>0, <1>3, VisitFacts
  <2>2. /\ stack \in Seq(Tids) /\ stack # <<>> /\ base \in Bases
        /\ Len(stack) \in Nat \ {0} /\ n = Len(stack) - 1 /\ stack[1] = t
        /\ \A j \in 1..n : rest[j] = stack[j + 1]
    BY <1>0, <1>3, TailOf DEF Order, TypeOK
  <2>3. /\ Len(stack') = m + n /\ m \in Nat /\ n \in Nat
        /\ \A i \in 1..m : stack'[i] = kids[i]
        /\ \A i \in 1..n : stack'[m + i] = rest[i]
    <3> HIDE DEF t, kids, rest
    <3> QED BY <2>1, ConcatOf
  <2>4. ASSUME NEW c \in C
        PROVE  /\ base[c] = t /\ t \in ChainOf(base, c)
               /\ ChainOf(base, t) \subseteq ChainOf(base, c)
    <3>1. c \in Tids /\ base[c] = t
      BY DEF Children, Goal, NeededFor
    <3>2. base[c] # 0
      BY <2>1, <3>1, MaxTidAssumption DEF Tids
    <3> QED BY <2>1, <2>2, <3>1, <3>2, ChainOfBase
  <2>5. t \in ChainOf(base, t)
    BY <2>1, <2>2, ChainOfBase
  <2>6. \A i \in 1..m : kids[i] \in C
    BY <2>1 DEF ToSet
  <2> HIDE DEF t, C, kids, rest, m, n
  <2>7. ASSUME NEW j \in 1..n, base[rest[j]] \in Goal
        PROVE  base[rest[j]] \in ChainOf(base, t)
    <3>1. j + 1 \in 1..Len(stack) /\ 1 \in 1..Len(stack) /\ 1 < j + 1
      BY <2>2, <2>3
    <3> QED BY <1>0, <2>2, <2>7, <3>1 DEF PathInv
  <2>8. ASSUME NEW i \in 1..(m + n), NEW j \in 1..(m + n), i < j, base[stack'[j]] \in Goal
        PROVE  base[stack'[j]] \in ChainOf(base, stack'[i])
    <3>1. CASE i \in 1..m /\ j \in 1..m
      BY <2>3, <2>4, <2>6, <3>1
    <3>2. CASE i \in 1..m /\ j - m \in 1..n /\ m + (j - m) = j
      <4>1. stack'[i] \in C /\ stack'[j] = rest[j - m]
        BY <2>3, <2>6, <3>2
      <4> QED BY <2>4, <2>7, <2>8, <3>2, <4>1
    <3>3. CASE i - m \in 1..n /\ m + (i - m) = i /\ j - m \in 1..n /\ m + (j - m) = j
      <4>1. stack'[i] = stack[(i - m) + 1] /\ stack'[j] = stack[(j - m) + 1]
        <5>1. stack'[m + (i - m)] = rest[i - m] /\ stack'[m + (j - m)] = rest[j - m]
          BY <2>3, <3>3
        <5> QED BY <2>2, <3>3, <5>1
      <4>2. /\ (i - m) + 1 \in 1..Len(stack) /\ (j - m) + 1 \in 1..Len(stack)
            /\ (i - m) + 1 < (j - m) + 1
        BY <2>2, <2>3, <2>8, <3>3
      <4>3. PICK x, y : x = (i - m) + 1 /\ y = (j - m) + 1
        OBVIOUS
      <4>4. x \in 1..Len(stack) /\ y \in 1..Len(stack) /\ x < y
            /\ stack'[i] = stack[x] /\ stack'[j] = stack[y]
        BY <4>1, <4>2, <4>3
      <4>5. base[stack[y]] \in Goal
        BY <2>8, <4>4
      <4>6. base[stack[y]] \in ChainOf(base, stack[x])
        BY <1>0, <4>4, <4>5, Zenon DEF PathInv
      <4> QED BY <4>4, <4>6
    <3>4. \/ i \in 1..m /\ j \in 1..m
          \/ i \in 1..m /\ j - m \in 1..n /\ m + (j - m) = j
          \/ i - m \in 1..n /\ m + (i - m) = i /\ j - m \in 1..n /\ m + (j - m) = j
      BY <2>3, <2>8
    <3> QED BY <3>1, <3>2, <3>3, <3>4
  <2>9. ASSUME NEW k \in 1..N, NEW b, OnPath(b, k)
        PROVE  OnPath(b, k)'
    <3>1. CASE b \in ChainOf(base, order[k])
      BY <2>1, <3>1 DEF OnPath
    <3>2. CASE \E i \in (k + 1)..N : order[i] = b
      <4>1. PICK i \in (k + 1)..N : order[i] = b
        BY <3>2
      <4>2. i \in 1..N /\ i \in (k + 1)..(N + 1)
        BY <2>1, <4>1
      <4> QED BY <2>1, <4>1, <4>2 DEF OnPath
    <3> QED BY <2>9, <3>1, <3>2 DEF OnPath
  <2>10. ASSUME NEW k \in 1..(N + 1), NEW u \in Waiting', base[u] \in Goal
         PROVE  OnPath(base[u], k)'
    <3>1. CASE u \in C /\ k = N + 1
      BY <2>1, <2>4, <2>5, <3>1 DEF OnPath
    <3>2. CASE u \in C /\ k \in 1..N
      <4>1. base[u] = t /\ N + 1 \in (k + 1)..(N + 1)
        BY <2>1, <2>4, <3>2
      <4> QED BY <2>1, <4>1 DEF OnPath
    <3>3. CASE u \in ToSet(rest) /\ k = N + 1
      <4>1. DOMAIN rest = 1..n
        BY <2>1 DEF n
      <4>2. PICK j \in 1..n : rest[j] = u
        BY <3>3, <4>1 DEF ToSet
      <4> QED BY <2>1, <2>7, <2>10, <3>3, <4>2 DEF OnPath
    <3>4. CASE u \in ToSet(rest) /\ k \in 1..N
      BY <1>0, <2>1, <2>9, <2>10, <3>4 DEF PathInv
    <3>5. k \in 1..N \/ k = N + 1
      BY <2>1
    <3> QED BY <2>1, <2>10, <3>1, <3>2, <3>3, <3>4, <3>5
  <2>11. ASSUME NEW k \in 1..(N + 1), NEW j \in 1..(N + 1), k < j,
                NEW b \in Goal, b = base[order'[j]]
         PROVE  OnPath(b, k)'
    <3>1. k \in 1..N /\ (j \in 1..N \/ j = N + 1)
      BY <2>1, <2>11
    <3>2. OnPath(b, k)
      <4>1. CASE j \in 1..N
        BY <1>0, <2>1, <2>11, <3>1, <4>1 DEF PathInv
      <4>2. CASE j = N + 1
        BY <1>0, <2>1, <2>11, <3>1, <4>2 DEF PathInv
      <4> QED BY <3>1, <4>1, <4>2
    <3> QED BY <2>9, <3>1, <3>2
  <2>12. ASSUME NEW k \in 1..N', NEW j \in 1..N', k < j, (base[order[j]] \in Goal)'
         PROVE  OnPath(base[order[j]], k)'
    <3>1. PICK b \in Goal : b = base[order'[j]]
      BY <2>1, <2>12
    <3>2. OnPath(b, k)'
      BY <2>1, <2>11, <2>12, <3>1
    <3> QED BY <2>1, <3>1, <3>2 DEF OnPath
  <2>13. ASSUME NEW k \in 1..N', NEW u \in Waiting', (base[u] \in Goal)'
         PROVE  OnPath(base[u], k)'
    BY <2>1, <2>10, <2>13
  <2>14. ASSUME NEW i \in 1..Len(stack'), NEW j \in 1..Len(stack'), i < j,
                (base[stack[j]] \in Goal)'
         PROVE  (base[stack[j]] \in ChainOf(base, stack[i]))'
    BY <2>1, <2>3, <2>8, <2>14
  <2> QED BY <2>12, <2>13, <2>14 DEF PathInv
<1>4. CASE (Main /\ ~Order) \/ \E i \in DOMAIN fetch : Fetcher(i)
  <2>1. UNCHANGED <<base, params, cached, order, stack>>
    <3>1. CASE Begin
      BY <3>1 DEF Begin, job, catalogue
    <3>2. CASE \E i \in DOMAIN fetch : Fetcher(i)
      BY <1>0, <3>2, FetchStep, MainStep DEF Inv
    <3>3. CASE Main /\ ~Order /\ ~Begin
      BY <3>3 DEF Main, Advance, FetchFailed, BaseUnavailable, Decode, SinkFailed,
                  Surface, Join, Raise, job, catalogue
    <3> QED BY <1>4, <3>1, <3>2, <3>3
  <2> QED BY <1>0, <2>1 DEF PathInv, OnPath, Goal, Waiting, N
<1>5. CASE UNCHANGED vars
  BY <1>0, <1>5 DEF vars, job, catalogue, PathInv, OnPath, Goal, Waiting, N
<1> QED BY <1>1, <1>2, <1>3, <1>4, <1>5 DEF Next

-----------------------------------------------------------------------------
(* The head of the line and the budget *)

LEMMA HeadStep == Inv /\ [Next]_vars => HeadInv'
<1> SUFFICES ASSUME Inv, [Next]_vars PROVE HeadInv'
  OBVIOUS
<1>0. /\ TypeOK /\ HeadInv /\ BudgetInv
      /\ N \in Nat /\ Len(surfaced) \in Nat /\ order \in Seq(Tids) /\ surfaced \in Seq(Tids)
      /\ fetch \in Seq(FetchStates)
  BY DEF Inv, TypeOK, N
<1>1. CASE Planning \/ Order
  <2>1. UNCHANGED <<fetch, inflight, head, surfaced>> /\ main' \in PlanPCs /\ main \in PlanPCs
    BY <1>1, PlanningStep DEF Order, pool, PlanPCs
  <2> QED BY <1>0, <2>1 DEF HeadInv, PlanPCs, RunPCs
<1>2. CASE Begin
  <2>1. /\ UNCHANGED <<order, inflight, head, surfaced>> /\ main = "ordering"
        /\ main' = "next" \/ main' = "returned"
        /\ main' = "next" => N > 0
        /\ main' = "returned" => N = 0
    <3>1. N = Cardinality(Planned)
      <4>1. main \in Ordered /\ stack = <<>> /\ PlanInv
        BY <1>2 DEF Begin, Ordered, Inv
      <4> QED BY <1>0, <4>1, OrderComplete
    <3> QED BY <1>0, <1>2, <3>1 DEF Begin, job
  <2>2. surfaced = <<>> /\ head = 1 /\ N' = N
    BY <1>0, <2>1 DEF HeadInv, PlanPCs, N
  <2> QED BY <1>0, <2>1, <2>2 DEF HeadInv, PlanPCs, RunPCs
<1>3. CASE Advance
  <2>1. /\ UNCHANGED <<order, fetch, surfaced>> /\ main = "next" /\ N' = N
        /\ head' = IF Len(surfaced) < N THEN Len(surfaced) + 1 ELSE head
        /\ main' = IF Len(surfaced) < N THEN "result" ELSE "joining"
    BY <1>3 DEF Advance, job, N
  <2>2. /\ Len(surfaced) <= N /\ N > 0 /\ head \in 1..N
        /\ \A i \in 1..Len(surfaced) : surfaced[i] = order[i]
        /\ \A i \in 1..(head - 1) : fetch[i] = "got"
        /\ head = IF surfaced = <<>> THEN 1 ELSE Len(surfaced)
    BY <1>0, <2>1 DEF HeadInv, RunPCs
  <2>3. ASSUME NEW i \in 1..Len(surfaced) PROVE fetch[i] = "got"
    <3>1. surfaced # <<>> /\ head = Len(surfaced)
      BY <1>0, <2>2, <2>3
    <3>2. fetch[head] = "got"
      BY <1>0, <2>1, <2>2, <3>1 DEF BudgetInv, HeadDone, RunPCs
    <3>3. i \in 1..(head - 1) \/ i = head
      BY <1>0, <3>1
    <3> QED BY <2>2, <3>2, <3>3
  <2>4. \A i \in 1..(head' - 1) : fetch'[i] = "got"
    BY <1>0, <2>1, <2>2, <2>3
  <2> QED BY <1>0, <2>1, <2>2, <2>4 DEF HeadInv, PlanPCs, RunPCs
<1>4. CASE FetchFailed \/ BaseUnavailable \/ SinkFailed
  <2>1. UNCHANGED <<order, fetch, head, surfaced>> /\ main \in {"result", "decoded"}
        /\ main' = "joining"
    BY <1>4 DEF FetchFailed, BaseUnavailable, SinkFailed, Raise, job
  <2> QED BY <1>0, <2>1 DEF HeadInv, PlanPCs, RunPCs, N
<1>5. CASE Decode
  <2>1. UNCHANGED <<order, fetch, head, surfaced>> /\ main = "result" /\ main' = "decoded"
    BY <1>5 DEF Decode, job
  <2> QED BY <1>0, <2>1 DEF HeadInv, PlanPCs, RunPCs, N
<1>6. CASE Surface
  <2>1. UNCHANGED <<order, fetch, head>> /\ main = "decoded" /\ main' = "next"
        /\ surfaced' = Append(surfaced, order[head]) /\ N' = N
    BY <1>6 DEF Surface, job, Current, N
  <2>2. /\ head = Len(surfaced) + 1 /\ Len(surfaced) < N /\ N > 0 /\ head \in 1..N
        /\ \A i \in 1..Len(surfaced) : surfaced[i] = order[i]
        /\ \A i \in 1..(head - 1) : fetch[i] = "got"
    BY <1>0, <2>1 DEF HeadInv, RunPCs
  <2>3. /\ order[head] \in Tids
        /\ Len(surfaced') = Len(surfaced) + 1
        /\ \A i \in 1..Len(surfaced) : surfaced'[i] = surfaced[i]
        /\ surfaced'[Len(surfaced) + 1] = order[head]
    <3>1. order[head] \in Tids
      BY <1>0, <2>2 DEF N
    <3> QED BY <1>0, <2>1, <3>1, AppendOne
  <2>4. \A i \in 1..Len(surfaced') : surfaced'[i] = order'[i]
    <3>1. ASSUME NEW i \in 1..Len(surfaced') PROVE surfaced'[i] = order'[i]
      <4>1. i \in 1..Len(surfaced) \/ i = Len(surfaced) + 1
        BY <1>0, <2>3
      <4> QED BY <2>1, <2>2, <2>3, <4>1
    <3> QED BY <3>1
  <2>5. surfaced' # <<>>
    BY <1>0, <2>1
  <2> QED BY <1>0, <2>1, <2>2, <2>3, <2>4, <2>5 DEF HeadInv, PlanPCs, RunPCs
<1>7. CASE Join
  <2>1. UNCHANGED <<order, fetch, head, surfaced>> /\ main = "joining" /\ N' = N
        /\ \A i \in 1..N : fetch[i] \in {"got", "failed"}
        /\ main' = IF Len(surfaced) = N THEN "returned" ELSE "raised"
    BY <1>7 DEF Join, job, N
  <2> QED BY <1>0, <2>1 DEF HeadInv, PlanPCs, RunPCs
<1>8. ASSUME NEW i \in DOMAIN fetch, Fetcher(i) PROVE HeadInv'
  <2>1. /\ UNCHANGED <<order, head, main, surfaced>> /\ N' = N /\ fetch[i] # "got"
        /\ main \in RunPCs /\ main \notin PlanPCs
    BY <1>0, <1>8, FetchStep DEF Fetcher, Start, Reserve, Get, job, N, PlanPCs, RunPCs
  <2>2. \A j \in 1..N : j # i => fetch'[j] = fetch[j]
    BY <1>0, <1>8, FetchStep
  <2>3. ASSUME NEW j \in 1..(head - 1), \A k \in 1..(head - 1) : fetch[k] = "got",
               N > 0 => head \in 1..N, N > 0
        PROVE  fetch'[j] = "got"
    <3>1. j \in 1..N
      BY <1>0, <2>3
    <3>2. j # i
      BY <2>1, <2>3
    <3> QED BY <2>2, <2>3, <3>1, <3>2
  <2>4. main \notin {"returned", "raised"}
    <3>1. Submitted \/ fetch[i] \in {"waiting", "getting"}
      BY <1>8 DEF Fetcher, Start, Reserve, Get
    <3>2. i \in 1..N
      BY <1>0, <1>8, FetchStep
    <3> QED BY <1>0, <3>1, <3>2 DEF HeadInv, RunPCs, Submitted
  <2> QED BY <1>0, <2>1, <2>2, <2>3, <2>4 DEF HeadInv
<1>9. CASE UNCHANGED vars
  BY <1>0, <1>9 DEF vars, job, pool, HeadInv, N
<1> QED BY <1>1, <1>2, <1>3, <1>4, <1>5, <1>6, <1>7, <1>8, <1>9 DEF Next, Main

\* A reservation respects the budget, except at the head of the line.
LEMMA BudgetStep == Inv /\ [Next]_vars => BudgetInv'
<1> SUFFICES ASSUME Inv, [Next]_vars PROVE BudgetInv'
  OBVIOUS
<1>0. /\ TypeOK /\ HeadInv /\ BudgetInv
      /\ N \in Nat /\ Len(surfaced) \in Nat /\ order \in Seq(Tids) /\ inflight \in Int
      /\ Budget \in Nat /\ Stored \in [Tids -> Nat \ {0}]
  <2>1. TypeOK /\ HeadInv /\ BudgetInv
    BY DEF Inv
  <2>2. order \in Seq(Tids) /\ surfaced \in Seq(Tids) /\ inflight \in Int
    BY <2>1 DEF TypeOK
  <2> QED BY <2>1, <2>2, PipelineAssumption DEF N
<1>a. main \in RunPCs /\ N > 0 => head \in 1..N /\ Current \in Tids /\ Stored[Current] \in Nat
  BY <1>0 DEF HeadInv, Current, N
<1>1. CASE Planning \/ Order
  <2>1. main' \notin RunPCs
    BY <1>1, PlanningStep DEF Order, RunPCs
  <2> QED BY <2>1 DEF BudgetInv
<1>2. CASE Begin
  <2>1. /\ UNCHANGED <<order, inflight, head, surfaced>> /\ main = "ordering" /\ N' = N
        /\ main' \in {"refused", "next", "returned"}
        /\ fetch' = [i \in 1..N |-> "queued"]
    BY <1>2 DEF Begin, job, N
  <2>2. surfaced = <<>> /\ head = 1 /\ inflight = 0
    BY <1>0, <2>1 DEF HeadInv, PlanPCs
  <2>3. ASSUME N > 0 PROVE Stored[Current'] \in Nat
    BY <1>0, <2>1, <2>2, <2>3 DEF Current, N
  <2> QED BY <1>0, <2>1, <2>2, <2>3 DEF BudgetInv, HeadDone
<1>3. CASE Advance
  <2>1. /\ UNCHANGED <<order, fetch, inflight, surfaced>> /\ main = "next" /\ N' = N
        /\ head' = IF Len(surfaced) < N THEN Len(surfaced) + 1 ELSE head
        /\ main' \in {"result", "joining"}
    BY <1>3 DEF Advance, job, N
  <2>2. /\ head \in 1..N /\ N > 0 /\ Stored[Current] \in Nat
        /\ head = IF surfaced = <<>> THEN 1 ELSE Len(surfaced)
    BY <1>0, <1>a, <2>1 DEF HeadInv, RunPCs
  <2>3. ~HeadDone'
    BY <2>1 DEF HeadDone
  <2>4. CASE surfaced = <<>>
    <3>1. head' = head /\ Current' = Current
      BY <1>0, <2>1, <2>2, <2>4 DEF Current
    <3> QED BY <1>0, <2>1, <2>2, <2>3, <3>1 DEF BudgetInv, RunPCs
  <2>5. CASE surfaced # <<>>
    <3>1. inflight <= Budget
      BY <1>0, <2>1, <2>2, <2>5 DEF BudgetInv, HeadDone, RunPCs
    <3>2. Stored[Current'] \in Nat
      BY <1>0, <2>1, <2>2 DEF Current, N
    <3> QED BY <1>0, <2>1, <2>3, <3>1, <3>2 DEF BudgetInv
  <2> QED BY <2>4, <2>5
<1>4. CASE FetchFailed \/ BaseUnavailable \/ SinkFailed \/ Join
  <2>1. /\ UNCHANGED <<order, fetch, inflight, head>> /\ main \in RunPCs
        /\ main' \notin {"decoded", "next"}
    BY <1>4 DEF FetchFailed, BaseUnavailable, SinkFailed, Join, Raise, job, RunPCs
  <2> QED BY <1>0, <2>1 DEF BudgetInv, HeadDone, Current, N
<1>5. CASE Decode
  <2>1. /\ UNCHANGED <<order, fetch, head, surfaced>> /\ main = "result" /\ main' = "decoded"
        /\ inflight' = inflight - Stored[Current] /\ fetch[head] = "got"
    BY <1>5 DEF Decode, job
  <2>2. N > 0
    BY <1>0, <2>1 DEF HeadInv
  <2> QED BY <1>0, <1>a, <2>1, <2>2 DEF BudgetInv, HeadDone, Current, N, RunPCs
<1>6. CASE Surface
  <2>1. /\ UNCHANGED <<order, fetch, head, inflight>> /\ main = "decoded" /\ main' = "next"
    BY <1>6 DEF Surface, job
  <2> QED BY <1>0, <2>1 DEF BudgetInv, HeadDone, Current, N, RunPCs
<1>7. ASSUME NEW i \in DOMAIN fetch, Fetcher(i) PROVE BudgetInv'
  <2>1. /\ UNCHANGED <<order, head, main, surfaced>> /\ N' = N /\ Current' = Current
        /\ main \in RunPCs /\ i \in 1..N /\ N > 0 /\ fetch \in Seq(FetchStates)
        /\ DOMAIN fetch = 1..N
        /\ \A j \in 1..N : j # i => fetch'[j] = fetch[j]
    <3>1. UNCHANGED <<order, head, main, surfaced>>
      BY <1>7 DEF Fetcher, Start, Reserve, Get, job
    <3>2. main \in RunPCs /\ i \in 1..N /\ \A j \in 1..N : j # i => fetch'[j] = fetch[j]
      BY <1>0, <1>7, FetchStep
    <3> QED BY <1>0, <3>1, <3>2 DEF N, Current, TypeOK
  <2>2. /\ inflight <= Budget + Stored[Current]
        /\ fetch[head] \in {"queued", "waiting"} \/ HeadDone => inflight <= Budget
        /\ HeadDone => fetch[head] = "got"
        /\ head \in 1..N /\ Stored[Current] \in Nat
        /\ HeadDone' = HeadDone
    BY <1>0, <1>a, <2>1 DEF BudgetInv, HeadDone
  <2>3. CASE Start(i)
    <3>1. inflight' = inflight /\ fetch[i] = "queued" /\ fetch'[i] = "waiting"
      BY <2>1, <2>3 DEF Start
    <3> QED BY <1>0, <2>1, <2>2, <3>1 DEF BudgetInv
  <2>4. CASE Reserve(i)
    <3>1. /\ inflight' = inflight + Stored[order[i]] /\ fetch[i] = "waiting"
          /\ fetch'[i] = "getting" /\ MayReserve(i)
      BY <2>1, <2>4 DEF Reserve
    <3>2. CASE i = head
      <4>1. order[i] = Current /\ fetch'[head] = "getting" /\ fetch[head] = "waiting"
        BY <3>1, <3>2 DEF Current
      <4>2. inflight <= Budget /\ ~HeadDone
        BY <2>2, <4>1
      <4>3. inflight' <= Budget + Stored[Current]
        BY <1>0, <2>2, <3>1, <4>1, <4>2
      <4> HIDE DEF HeadDone
      <4> QED BY <2>1, <2>2, <4>1, <4>2, <4>3 DEF BudgetInv
    <3>3. CASE i # head
      <4>1. ~(i <= head)
        <5>1. main \in RunPCs => \A j \in 1..(head - 1) : fetch[j] = "got"
          BY <1>0 DEF HeadInv
        <5>2. i \in 1..N /\ head \in 1..N /\ N \in Nat /\ fetch[i] # "got"
          BY <1>0, <2>1, <2>2, <3>1
        <5>3. ~(i \in 1..(head - 1))
          BY <2>1, <5>1, <5>2
        <5> QED BY <3>3, <5>2, <5>3
      <4>2. inflight' <= Budget
        BY <3>1, <4>1 DEF MayReserve
      <4>3. fetch'[head] = fetch[head]
        BY <2>1, <2>2, <3>3
      <4>4. inflight' \in Int
        BY <1>0, <1>7, FetchStep, <3>1
      <4>5. inflight' <= Budget + Stored[Current]
        BY <1>0, <2>2, <4>2, <4>4
      <4> HIDE DEF HeadDone
      <4> QED BY <2>1, <2>2, <4>2, <4>3, <4>5 DEF BudgetInv
    <3> QED BY <3>2, <3>3
  <2>5. CASE Get(i)
    <3>1. inflight' = inflight /\ fetch[i] = "getting" /\ fetch'[i] \in {"got", "failed"}
      BY <2>1, <2>5 DEF Get
    <3> QED BY <1>0, <2>1, <2>2, <3>1 DEF BudgetInv
  <2> QED BY <1>7, <2>3, <2>4, <2>5 DEF Fetcher
<1>8. CASE UNCHANGED vars
  BY <1>0, <1>8 DEF vars, job, pool, BudgetInv, HeadDone, Current, N
<1> QED BY <1>1, <1>2, <1>3, <1>4, <1>5, <1>6, <1>7, <1>8 DEF Next, Main

-----------------------------------------------------------------------------
(* The store *)

\* What has surfaced is listed first, and a base of the run surfaces before
\* the tensors that need it.
LEMMA DoneFacts ==
    ASSUME Inv, main \in RunPCs
    PROVE  /\ Done \subseteq Entries /\ Entries \subseteq Tids /\ Entries = Goal
           /\ Done = {order[i] : i \in 1..Len(surfaced)}
           /\ Entries = {order[i] : i \in 1..N} /\ Cardinality(Entries) = N
           /\ main \in {"result", "decoded"} =>
                 /\ Current \in Rest /\ Current \in Tids
                 /\ base[Current] \in Entries => base[Current] \in Done
<1>1. /\ TypeOK /\ PlanInv /\ HeadInv /\ OrderInv /\ main \in RunPCs
      /\ order \in Seq(Tids) /\ surfaced \in Seq(Tids) /\ N \in Nat
      /\ Len(surfaced) \in Nat /\ DOMAIN surfaced = 1..Len(surfaced) /\ DOMAIN order = 1..N
  BY DEF Inv, PlanInv, TypeOK, N
<1>2. Len(surfaced) <= N /\ \A i \in 1..Len(surfaced) : surfaced[i] = order[i]
  BY <1>1 DEF HeadInv
<1>3. Done = {order[i] : i \in 1..Len(surfaced)}
  BY <1>1, <1>2 DEF Done, ToSet
<1>4. Entries = {order[i] : i \in 1..N} /\ Entries \subseteq Tids
  BY <1>1 DEF Entries, ToSet
<1>5. Done \subseteq Entries
  BY <1>1, <1>2, <1>3, <1>4
<1>6. Entries = Goal /\ Cardinality(Entries) = N
  <2>1. stack = <<>> /\ main \in Ordered
    BY <1>1 DEF OrderInv, Ordered
  <2> QED BY <1>1, <2>1, OrderComplete
<1>7. ASSUME main \in {"result", "decoded"}
      PROVE  /\ Current \in Rest /\ Current \in Tids
             /\ base[Current] \in Entries => base[Current] \in Done
  <2>1. head \in 1..N /\ head = Len(surfaced) + 1
    <3>1. head \in 1..N
      BY <1>1, <1>7, CurrentTyped, Zenon
    <3>2. head = Len(surfaced) + 1
      BY <1>1, <1>7, Zenon DEF HeadInv
    <3> QED BY <3>1, <3>2
  <2>2. Current \in Entries /\ Current \in Tids
    BY <1>4, <2>1 DEF Current
  <2>3. Current \notin Done
    <3>1. ASSUME NEW i \in 1..Len(surfaced), order[i] = order[head] PROVE FALSE
      <4>1. i \in 1..Len(order) /\ head \in 1..Len(order) /\ i # head
        BY <1>1, <1>2, <2>1, <3>1 DEF N
      <4> QED BY <1>1, <3>1, <4>1 DEF OrderInv, Distinct
    <3> QED BY <1>3, <3>1 DEF Current
  <2>4. ASSUME base[Current] \in Entries PROVE base[Current] \in Done
    <3>1. PICK j \in 1..(head - 1) : order[j] = base[Current]
      BY <1>1, <1>6, <2>1, <2>4 DEF OrderInv, Current
    <3>2. j \in 1..Len(surfaced)
      BY <1>1, <2>1, <3>1
    <3> QED BY <1>3, <3>1, <3>2
  <2>5. Current \in Rest
    BY <2>2, <2>3 DEF Rest
  <2> QED BY <2>2, <2>4, <2>5
<1> QED BY <1>3, <1>4, <1>5, <1>6, <1>7

\* A base of which no entry has been looked up has all its deltas to come.
LEMMA NoneYet ==
    ASSUME NEW b, \A t \in Done : base[t] # b
    PROVE  Children(base, Rest, b) = Children(base, Entries, b)
BY DEF Children, Rest

\* Counting the deltas to come.
LEMMA CountKids ==
    ASSUME TypeOK, Entries \subseteq Tids, NEW b
    PROVE  LET C == Children(base, Rest, b)
           IN  /\ Cardinality(C) \in Nat /\ (Cardinality(C) > 0 <=> C # {})
               /\ \A t \in C : /\ Cardinality(C \ {t}) = Cardinality(C) - 1
                               /\ Cardinality(C) - 1 = 0 <=> C \ {t} = {}
<1> DEFINE C == Children(base, Rest, b)
<1>1. C \in SUBSET Tids
  BY DEF Children, Rest
<1>2. IsFiniteSet(C) /\ Cardinality(C) \in Nat
  BY <1>1, TidsFinite
<1>3. Cardinality(C) = 0 <=> C = {}
  BY <1>2, FS_EmptySet
<1>4. ASSUME NEW t \in C
      PROVE  /\ Cardinality(C \ {t}) = Cardinality(C) - 1
             /\ Cardinality(C) - 1 = 0 <=> C \ {t} = {}
  <2>1. IsFiniteSet(C \ {t}) /\ Cardinality(C \ {t}) = Cardinality(C) - 1
    BY <1>2, FS_RemoveElement
  <2>2. Cardinality(C \ {t}) = 0 <=> C \ {t} = {}
    BY <2>1, FS_EmptySet
  <2> QED BY <2>1, <2>2
<1> QED BY <1>2, <1>3, <1>4

\* The counts and the kept tensors follow the children still to come.
LEMMA StoreStep == Inv /\ [Next]_vars => StoreInv'
<1> SUFFICES ASSUME Inv, [Next]_vars PROVE StoreInv'
  OBVIOUS
<1>0. /\ TypeOK /\ HeadInv /\ StoreInv /\ PlanInv
      /\ order \in Seq(Tids) /\ surfaced \in Seq(Tids) /\ refcount \in [Tids -> Int]
  BY DEF Inv, TypeOK
<1>1. CASE Planning \/ Order
  <2>1. UNCHANGED <<ram, disk>> /\ main \in PlanPCs /\ main' \in PlanPCs
    BY <1>1, PlanningStep DEF Order, store, PlanPCs
  <2> QED BY <1>0, <2>1 DEF StoreInv, PlanPCs, Running
<1>2. CASE Begin
  <2>1. /\ UNCHANGED <<base, order, surfaced, ram, disk>> /\ main = "ordering"
        /\ refcount' = [t \in Tids |->
              IF t \in Entries THEN Cardinality(Children(base, Entries, t)) ELSE 0]
    BY <1>2 DEF Begin, job, catalogue
  <2>2. main' \in {"next", "returned"}
    <3>1. main' \in Ordered /\ main' # "ordering"
      BY <1>2, MainStep DEF Main, Begin
    <3> QED BY <1>2, <3>1 DEF Begin, Ordered, RunPCs
  <2>3. ram = {} /\ disk = {} /\ surfaced = <<>>
    BY <1>0, <2>1 DEF StoreInv, HeadInv, PlanPCs
  <2>4. Done = {} /\ Rest = Entries
    BY <2>3 DEF Done, ToSet, Rest
  <2>5. ASSUME NEW b \in Tids PROVE (Counted(b) /\ Stocked(b))'
    <3>1. Done' = {} /\ Entries' = Entries /\ Rest' = Entries /\ Kept' = {}
      BY <2>1, <2>3, <2>4 DEF Done, Entries, Rest, Kept
    <3>2. ~External(b)'
      BY <2>2, <3>1 DEF External, Looked
    <3> QED BY <2>1, <3>1, <3>2 DEF Counted, Stocked
  <2> QED BY <2>2, <2>5 DEF StoreInv, PlanPCs
<1>3. CASE Advance
  <2>1. /\ UNCHANGED <<base, order, surfaced, ram, disk, refcount>> /\ main = "next"
        /\ main' \in {"result", "joining"}
    BY <1>3 DEF Advance, job, catalogue, store
  <2>2. ASSUME NEW b \in Tids PROVE (Counted(b) /\ Stocked(b))'
    <3>1. Done' = Done /\ Entries' = Entries /\ Rest' = Rest /\ Kept' = Kept
      BY <2>1 DEF Done, Entries, Rest, Kept
    <3>2. Looked' = Looked
      BY <2>1, <3>1 DEF Looked
    <3>3. External(b)' = External(b)
      BY <2>1, <3>1, <3>2 DEF External, ExtRefs
    <3>4. Counted(b) /\ Stocked(b)
      BY <1>0, <2>1 DEF StoreInv, Running
    <3> QED BY <2>1, <3>1, <3>3, <3>4 DEF Counted, Stocked
  <2> QED BY <2>1, <2>2 DEF StoreInv, PlanPCs
<1>4. CASE FetchFailed \/ BaseUnavailable \/ SinkFailed \/ Join
  <2>1. main' \in {"joining", "returned", "raised"}
    BY <1>4 DEF FetchFailed, BaseUnavailable, SinkFailed, Raise, Join
  <2> QED BY <2>1 DEF StoreInv, PlanPCs, Running
<1>5. CASE Decode
  <2>0. PICK b : b = base[Current]
    OBVIOUS
  <2> DEFINE keep == b # 0 /\ ~InStore(b) /\ ExtRefs(b) > 1
  <2>1. /\ UNCHANGED <<base, order, head, surfaced>> /\ main = "result" /\ main' = "decoded"
        /\ ram' = (IF keep THEN Put(b).ram ELSE ram)
        /\ disk' = (IF keep THEN Put(b).disk ELSE disk)
        /\ refcount' = (IF keep THEN [refcount EXCEPT ![b] = ExtRefs(b)] ELSE refcount)
    BY <1>5, <2>0 DEF Decode, BaseOf, job, catalogue
  <2>2. /\ Done \subseteq Entries /\ Current \in Rest /\ Current \in Tids
        /\ b \in Entries => b \in Done
        /\ Current \in Children(base, Rest, b)
    BY <2>0, <2>1, DoneFacts DEF RunPCs, Children
  <2>3. b # 0 => b \in Tids
    BY <1>0, <2>0, <2>1, CurrentTyped DEF BaseOf
  <2>4. /\ Done' = Done /\ Entries' = Entries /\ Rest' = Rest /\ Current' = Current
        /\ Looked = Done /\ Looked' = Done \union {Current}
    BY <2>1 DEF Done, Entries, Rest, Looked, Current
  <2>5. Kept' = IF keep THEN Kept \union {b} ELSE Kept
    BY <1>0, <2>1, <2>3, PutTyped DEF Kept
  <2> HIDE DEF keep
  <2>6. ASSUME NEW c \in Tids PROVE (Counted(c) /\ Stocked(c))'
    <3>1. Counted(c) /\ Stocked(c) /\ refcount[c] \in Int
      BY <1>0, <2>1 DEF StoreInv, Running
    <3>2. CASE c # b
      <4>1. External(c)' = External(c)
        BY <2>0, <2>1, <2>4, <3>2 DEF External, ExtRefs
      <4>2. refcount'[c] = refcount[c] /\ (c \in Kept' <=> c \in Kept)
        BY <1>0, <2>1, <2>5, <3>2
      <4> QED BY <2>1, <2>4, <3>1, <4>1, <4>2 DEF Counted, Stocked
    <3>3. CASE c = b /\ (b \in Entries \/ External(b))
      <4>1. InStore(b) /\ ~keep
        BY <2>2, <3>1, <3>3 DEF Stocked, InStore, Kept, keep
      <4>2. External(c)' = External(c)
        BY <2>1, <2>4, <3>3 DEF External, ExtRefs
      <4>3. refcount' = refcount /\ Kept' = Kept
        BY <2>1, <2>5, <4>1
      <4>4. Children(base, Rest, c)' = Children(base, Rest, c)
        BY <2>1, <2>4 DEF Children
      <4> QED BY <2>4, <3>1, <4>2, <4>3, <4>4 DEF Counted, Stocked
    <3>4. CASE c = b /\ b \notin Entries /\ ~External(b)
      <4>1. refcount[b] = 0 /\ b \notin Kept /\ b # 0
        BY <2>2, <3>1, <3>4, MaxTidAssumption DEF Counted, Stocked, Tids
      <4>2. CASE ExtRefs(b) > 1
        <5>1. keep
          BY <4>1, <4>2 DEF keep, InStore, Kept
        <5>2. \A t \in Done : base[t] # b
          BY <2>4, <3>4, <4>2 DEF External
        <5>3. Children(base, Rest, b) = Children(base, Entries, b)
          BY <5>2, NoneYet
        <5>4. External(b)'
          <6>1. Current \in Looked' /\ base'[Current] = b
            BY <2>0, <2>1, <2>4
          <6> QED BY <2>1, <2>4, <3>4, <4>2, <6>1 DEF External, ExtRefs
        <5>5. refcount'[b] = Cardinality(Children(base, Rest, b)) /\ b \in Kept'
          BY <1>0, <2>1, <2>5, <3>4, <5>1, <5>3 DEF ExtRefs
        <5> QED BY <2>1, <2>2, <2>4, <3>4, <5>4, <5>5 DEF Counted, Stocked
      <4>3. CASE ~(ExtRefs(b) > 1)
        <5>1. ~External(b)' /\ ~keep
          BY <2>1, <2>4, <4>3 DEF External, ExtRefs, keep
        <5> QED BY <2>1, <2>2, <2>4, <2>5, <3>4, <4>1, <5>1 DEF Counted, Stocked
      <4> QED BY <4>2, <4>3
    <3> QED BY <3>2, <3>3, <3>4
  <2> QED BY <2>1, <2>6 DEF StoreInv, PlanPCs
<1>6. CASE Surface
  <2>0. PICK t, b : t = Current /\ b = base[t]
    OBVIOUS
  <2>1. /\ UNCHANGED <<base, order, head>> /\ main = "decoded" /\ main' = "next"
        /\ surfaced' = Append(surfaced, t)
        /\ ram' = (IF refcount[t] > 0 THEN Put(t).ram ELSE ram) \ Dropped(t)
        /\ disk' = (IF refcount[t] > 0 THEN Put(t).disk ELSE disk) \ Dropped(t)
        /\ refcount' = Released(t)
    BY <1>6, <2>0 DEF Surface, job, catalogue
  <2>2. /\ Done \subseteq Entries /\ Entries \subseteq Tids /\ t \in Rest /\ t \in Tids
        /\ b \in Entries => b \in Done
        /\ t \in Children(base, Rest, b)
    BY <2>0, <2>1, DoneFacts DEF RunPCs, Children
  <2>3. b # 0 <=> b \in Tids
    BY <1>0, <2>0, <2>1, CurrentTyped, MaxTidAssumption DEF BaseOf, Tids
  <2>4. /\ Done' = Done \union {t} /\ Entries' = Entries /\ Rest' = Rest \ {t}
        /\ Looked = Done \union {t} /\ Looked' = Looked
    <3>1. Done' = Done \union {t}
      BY <1>0, <2>1, <2>2, AppendOne DEF Done
    <3>2. Entries' = Entries
      BY <2>1 DEF Entries
    <3> QED BY <2>0, <2>1, <3>1, <3>2 DEF Rest, Looked
  <2>5. Kept' = (IF refcount[t] > 0 THEN Kept \union {t} ELSE Kept) \ Dropped(t)
    BY <1>0, <2>1, <2>2, PutTyped DEF Kept
  <2>6. /\ Dropped(t) = {x \in {b} \ {0} : refcount'[x] = 0}
        /\ refcount' = IF b # 0 /\ (b \in Entries \/ refcount[b] > 0)
                       THEN [refcount EXCEPT ![b] = refcount[b] - 1] ELSE refcount
    BY <2>0, <2>1 DEF Dropped, Released, BaseOf
  <2>7. \A c \in Tids : Counted(c) /\ Stocked(c) /\ refcount[c] \in Int
    BY <1>0, <2>1 DEF StoreInv, Running
  <2>8. b # t
    BY <2>2 DEF Rest
  <2>9. ASSUME NEW c \in Tids PROVE (Counted(c) /\ Stocked(c))'
    <3>1. External(c)' = External(c)
      BY <2>1, <2>4 DEF External, ExtRefs
    <3>2. CASE c # b
      <4>1. Children(base, Rest, c)' = Children(base, Rest, c)
        BY <2>0, <2>1, <2>4, <3>2 DEF Children
      <4>2. refcount'[c] = refcount[c] /\ c \notin Dropped(t)
        BY <1>0, <2>6, <3>2
      <4>3. CASE c # t
        BY <2>4, <2>5, <2>7, <3>1, <4>1, <4>2, <4>3 DEF Counted, Stocked
      <4>4. CASE c = t
        <5>1. ~External(t) /\ t \in Entries /\ t \notin Done
          BY <2>2 DEF External, Rest
        <5>2. t \notin Kept /\ refcount[t] = Cardinality(Children(base, Rest, t))
          BY <2>2, <2>7, <5>1 DEF Counted, Stocked
        <5>3. refcount[t] > 0 <=> Children(base, Rest, t) # {}
          BY <1>0, <2>2, <2>7, <5>2, CountKids
        <5>4. t \in Kept' <=> Children(base, Rest, t) # {}
          BY <2>5, <4>2, <4>4, <5>2, <5>3
        <5> QED BY <2>4, <3>1, <4>1, <4>2, <4>4, <5>1, <5>2, <5>4 DEF Counted, Stocked
      <4> QED BY <4>3, <4>4
    <3>3. CASE c = b
      <4>1. b # 0 /\ b \in Tids
        BY <2>3, <3>3
      <4>2. Children(base, Rest, b)' = Children(base, Rest, b) \ {t}
        BY <2>1, <2>4 DEF Children
      <4>3. CASE b \in Entries \/ External(b)
        <5>1. /\ refcount[b] = Cardinality(Children(base, Rest, b)) /\ b \in Kept
              /\ b \in Done \/ External(b)
          BY <2>2, <2>7, <4>1, <4>3 DEF Counted, Stocked
        <5>2. /\ refcount[b] > 0
              /\ Cardinality(Children(base, Rest, b) \ {t}) = refcount[b] - 1
              /\ refcount[b] - 1 = 0 <=> Children(base, Rest, b) \ {t} = {}
          <6>1. Children(base, Rest, b) # {}
            BY <2>2
          <6>2. LET C == Children(base, Rest, b)
                IN  /\ Cardinality(C) \in Nat /\ (Cardinality(C) > 0 <=> C # {})
                    /\ \A u \in C : /\ Cardinality(C \ {u}) = Cardinality(C) - 1
                                    /\ Cardinality(C) - 1 = 0 <=> C \ {u} = {}
            BY <1>0, <2>2, CountKids
          <6>3. t \in Children(base, Rest, b) /\ refcount[b] = Cardinality(Children(base, Rest, b))
            BY <2>2, <5>1
          <6> QED BY <6>1, <6>2, <6>3
        <5>3. refcount'[b] = refcount[b] - 1
          BY <1>0, <2>6, <4>1, <5>2
        <5>4. b \in Kept' <=> Children(base, Rest, b) \ {t} # {}
          BY <2>5, <2>6, <4>1, <5>1, <5>2, <5>3
        <5> QED BY <2>4, <3>1, <3>3, <4>2, <4>3, <5>1, <5>2, <5>3, <5>4 DEF Counted, Stocked
      <4>4. CASE b \notin Entries /\ ~External(b)
        <5>1. refcount[b] = 0 /\ b \notin Kept /\ b \notin Done
          BY <2>2, <2>7, <4>1, <4>4 DEF Counted, Stocked
        <5>2. refcount'[b] = 0 /\ b \notin Kept' /\ b \notin Done'
          BY <2>4, <2>5, <2>6, <2>8, <4>4, <5>1
        <5> QED BY <2>4, <3>1, <3>3, <4>4, <5>2 DEF Counted, Stocked
      <4> QED BY <4>3, <4>4
    <3> QED BY <3>2, <3>3
  <2> QED BY <2>1, <2>9 DEF StoreInv, PlanPCs
<1>7. CASE \E i \in DOMAIN fetch : Fetcher(i)
  <2>1. /\ UNCHANGED <<base, order, head, surfaced, ram, disk, refcount, main>>
        /\ main \in RunPCs
    BY <1>0, <1>7, FetchStep DEF Fetcher, Start, Reserve, Get, job, catalogue, store
  <2> QED BY <1>0, <2>1 DEF StoreInv, Counted, Stocked, Kept, Done, Rest, Entries,
                            External, ExtRefs, Looked, Current, PlanPCs, RunPCs
<1>8. CASE UNCHANGED vars
  BY <1>0, <1>8 DEF vars, job, catalogue, pool, store, StoreInv, Counted, Stocked, Kept,
                    Done, Rest, Entries, External, ExtRefs, Looked, Current
<1> QED BY <1>1, <1>2, <1>3, <1>4, <1>5, <1>6, <1>7, <1>8 DEF Next, Main

-----------------------------------------------------------------------------
(* Every state *)

LEMMA InvInit == Init => Inv
<1> SUFFICES ASSUME Init PROVE Inv
  OBVIOUS
<1> USE PipelineAssumption, MaxTidAssumption
<1>1. /\ base \in Bases /\ cached \in SUBSET Tids /\ params \in SUBSET Tids
      /\ closure = [blobs |-> {}, frontier |-> params]
      /\ walk = [needed |-> {}, cur |-> 0] /\ left = params
      /\ order = <<>> /\ stack = <<>> /\ fetch = <<>> /\ inflight = 0 /\ head = 1
      /\ main = "resolving" /\ refcount = [t \in Tids |-> 0]
      /\ ram = {} /\ disk = {} /\ surfaced = <<>>
  BY DEF Init
<1>2. TypeOK
  BY <1>1 DEF TypeOK, N, Tids, PlanPCs, RunPCs
<1>3. ManifestInv
  <2>1. params \subseteq NeededFor(base, params, {})
    BY <1>1, NeededIsClosed
  <2> QED BY <1>1, <2>1 DEF ManifestInv
<1>4. WalkInv
  BY <1>1 DEF WalkInv, Ordered, RunPCs
<1>5. OrderInv
  BY <1>1 DEF OrderInv, Ordered, RunPCs, Distinct, Entries, Waiting, ToSet, N
<1>6. PathInv
  BY <1>1 DEF PathInv, N, Waiting, ToSet
<1>7. HeadInv /\ BudgetInv /\ StoreInv
  BY <1>1 DEF HeadInv, BudgetInv, StoreInv, RunPCs, Running
<1> QED BY <1>2, <1>3, <1>4, <1>5, <1>6, <1>7 DEF Inv, PlanInv

\* The invariant holds in every run.
LEMMA AlwaysInv == Spec => []Inv
<1>1. Inv /\ [Next]_vars => Inv'
  BY TypeStep, ManifestStep, WalkStep, OrderStep, PathStep, HeadStep, BudgetStep, StoreStep
  DEF Inv, PlanInv
<1> QED BY <1>1, InvInit, PTL DEF Spec

-----------------------------------------------------------------------------
(* What a warm job may rely on *)

\* The state of the job is of its type: the head of the line is always one of
\* the entries, and there is one fetch for each.
THEOREM PipelineTyped == Spec => []TypeOK
<1>1. Inv => TypeOK
  BY DEF Inv
<1> QED BY <1>1, AlwaysInv, PTL

\* Manifest, plan and traversal fetch the least closed set, base before delta,
\* for any catalogue and any cache; only a delta cycle makes them refuse.
THEOREM PlanStaysExact == Spec => []PlanIsExact
<1>1. Inv => PlanIsExact
  <2> SUFFICES ASSUME Inv PROVE PlanIsExact
    OBVIOUS
  <2>0. TypeOK /\ ManifestInv /\ OrderInv /\ N \in Nat
    BY DEF Inv, PlanInv, TypeOK, N
  <2>1. ASSUME main \in RunPCs
        PROVE  /\ Entries = Goal /\ N = Cardinality(Entries)
               /\ \A i \in 1..N : base[order[i]] \in {order[j] : j \in 1..(i - 1)}
                                                   \union cached \union {0}
    <3>1. Entries = Goal /\ Cardinality(Entries) = N /\ Entries = {order[i] : i \in 1..N}
      BY <2>1, DoneFacts
    <3>2. ClosedUnder(base, cached, Goal)
      BY <2>0, NeededIsClosed DEF TypeOK, Goal
    <3>3. ASSUME NEW i \in 1..N
          PROVE  base[order[i]] \in {order[j] : j \in 1..(i - 1)} \union cached \union {0}
      <4>1. order[i] \in Goal
        BY <3>1
      <4>2. CASE base[order[i]] \in Goal
        BY <2>0, <4>2 DEF OrderInv
      <4>3. CASE base[order[i]] \in cached \union {0}
        BY <4>3
      <4> QED BY <3>2, <4>1, <4>2, <4>3 DEF ClosedUnder
    <3> QED BY <3>1, <3>3
  <2>2. ASSUME main = "refused" PROVE HasCycle(base, NeededFor(base, params, {}))
    BY <2>0, <2>2 DEF ManifestInv, HasCycle
  <2> QED BY <2>1, <2>2 DEF PlanIsExact, Goal
<1> QED BY <1>1, AlwaysInv, PTL

\* Whatever the number of threads and the order in which they run, the bytes in
\* flight exceed the budget by the blob at the head of the line at most.
THEOREM BudgetIsKept == Spec => []OnlyHeadExceedsBudget
<1>1. Inv => OnlyHeadExceedsBudget
  <2> SUFFICES ASSUME Inv, N > 0
               PROVE  inflight <= Budget + IF HeadDone THEN 0 ELSE Stored[Current]
    BY DEF OnlyHeadExceedsBudget, HeadDone
  <2>0. /\ TypeOK /\ HeadInv /\ BudgetInv /\ N \in Nat /\ order \in Seq(Tids)
        /\ inflight \in Int /\ Budget \in Nat /\ Stored \in [Tids -> Nat \ {0}]
        /\ main \in PlanPCs \union RunPCs
    <3>1. TypeOK /\ HeadInv /\ BudgetInv
      BY DEF Inv
    <3>2. order \in Seq(Tids) /\ inflight \in Int /\ main \in PlanPCs \union RunPCs
      BY <3>1 DEF TypeOK
    <3> QED BY <3>1, <3>2, PipelineAssumption DEF N
  <2>1. CASE main \in PlanPCs
    <3>1. inflight = 0 /\ head = 1 /\ ~HeadDone
      BY <2>0, <2>1 DEF HeadInv, HeadDone, PlanPCs
    <3>2. Stored[Current] \in Nat
      BY <2>0, <3>1 DEF Current, N
    <3> QED BY <2>0, <3>1, <3>2
  <2>2. CASE main \in RunPCs
    <3>1. Stored[Current] \in Nat
      BY <2>0, <2>2 DEF HeadInv, Current, N
    <3>2. /\ inflight <= Budget + Stored[Current]
          /\ HeadDone => inflight <= Budget
      BY <2>0, <2>2 DEF BudgetInv
    <3> QED BY <2>0, <3>1, <3>2
  <2> QED BY <2>0, <2>1, <2>2
<1> QED BY <1>1, AlwaysInv, PTL

\* Two members make a set of more than one.
LEMMA TwoMembers ==
    ASSUME NEW S, IsFiniteSet(S), NEW x \in S, NEW y \in S, x # y
    PROVE  Cardinality(S) > 1
<1>1. IsFiniteSet(S \ {x}) /\ Cardinality(S \ {x}) = Cardinality(S) - 1
  BY FS_RemoveElement
<1>2. Cardinality(S \ {x}) # 0
  BY <1>1, FS_EmptySet
<1>3. Cardinality(S) \in Nat /\ Cardinality(S \ {x}) \in Nat
  BY <1>1, FS_CardinalityType
<1> QED BY <1>1, <1>2, <1>3

\* Between two entries the store holds exactly the decoded bases still needed:
\* the reference counts neither lose nor leak one, whatever the closure.
THEOREM NothingLostOrLeaked == Spec => []KeptExactlyWhileNeeded
<1>1. Inv => KeptExactlyWhileNeeded
  <2> SUFFICES ASSUME Inv, main = "next"
               PROVE  Kept = {b \in Tids : /\ Needs(b)
                                           /\ \/ b \in Done
                                              \/ /\ b \notin Entries
                                                 /\ \E t \in Done : base[t] = b}
    BY DEF KeptExactlyWhileNeeded
  <2>1. Done \subseteq Entries /\ Entries \subseteq Tids
    BY DoneFacts DEF RunPCs
  <2>2. Looked = Done
    BY DEF Looked
  <2>3. Kept \subseteq Tids
    BY DEF Inv, TypeOK, Kept
  <2>4. ASSUME NEW b \in Tids
        PROVE  b \in Kept <=> /\ Needs(b)
                              /\ \/ b \in Done
                                 \/ b \notin Entries /\ \E t \in Done : base[t] = b
    <3>1. Stocked(b)
      BY DEF Inv, StoreInv, Running
    <3>2. Needs(b) <=> Children(base, Rest, b) # {}
      BY DEF Needs, Children, Rest
    <3>3. ASSUME Needs(b), b \notin Entries, NEW t \in Done, base[t] = b
          PROVE  External(b)
      <4>1. PICK u \in Entries \ Done : base[u] = b
        BY <3>3 DEF Needs
      <4>2. t \in Children(base, Entries, b) /\ u \in Children(base, Entries, b) /\ t # u
        BY <2>1, <3>3, <4>1 DEF Children
      <4>3. IsFiniteSet(Children(base, Entries, b))
        BY <2>1, TidsFinite DEF Children
      <4>4. ExtRefs(b) > 1
        BY <4>2, <4>3, TwoMembers DEF ExtRefs
      <4> QED BY <2>2, <3>3, <4>4 DEF External
    <3>4. External(b) => b \notin Entries /\ \E t \in Done : base[t] = b
      BY <2>2 DEF External
    <3> QED BY <3>1, <3>2, <3>3, <3>4 DEF Stocked
  <2> QED BY <2>3, <2>4
<1> QED BY <1>1, AlwaysInv, PTL

\* However large the closure, the bases kept in memory lie on the chain of the
\* tensor that surfaced last: the traversal is depth-first.
THEOREM KeptOnOnePath == Spec => []LiveSetIsOnePath
<1>1. Inv => LiveSetIsOnePath
  <2> SUFFICES ASSUME Inv, main = "next", surfaced # <<>>,
                      NEW b \in Kept \intersect Entries
               PROVE  b \in ChainOf(base, Last(surfaced))
    BY DEF LiveSetIsOnePath
  <2> DEFINE k == Len(surfaced)
  <2>0. /\ OrderInv /\ PathInv /\ HeadInv /\ N \in Nat /\ surfaced \in Seq(Tids)
        /\ main \in RunPCs /\ k \in Nat /\ k > 0
    BY DEF Inv, PlanInv, TypeOK, N, RunPCs
  <2>1. /\ Done = {order[i] : i \in 1..k} /\ Entries = {order[i] : i \in 1..N}
        /\ Entries = Goal /\ Entries \subseteq Tids
    BY <2>0, DoneFacts
  <2>2. b \in Done /\ Children(base, Rest, b) # {}
    <3>1. Stocked(b) /\ ~External(b)
      BY <2>1 DEF Inv, StoreInv, Running, External
    <3> QED BY <3>1 DEF Stocked
  <2>3. PICK t \in Entries \ Done : base[t] = b
    BY <2>2 DEF Children, Rest
  <2>4. PICK j \in 1..N : order[j] = t
    BY <2>1
  <2>5. k \in 1..N /\ k < j /\ Last(surfaced) = order[k]
    <3>1. k <= N /\ \A i \in 1..k : surfaced[i] = order[i]
      BY <2>0 DEF HeadInv
    <3>2. j \notin 1..k
      BY <2>1, <2>3, <2>4
    <3> QED BY <2>0, <3>1, <3>2 DEF Last
  <2>6. OnPath(b, k)
    BY <2>0, <2>1, <2>3, <2>4, <2>5 DEF PathInv
  <2>7. ASSUME NEW i \in (k + 1)..N, order[i] = b PROVE FALSE
    <3>1. PICK h \in 1..k : order[h] = b
      BY <2>1, <2>2
    <3>2. i \in 1..N /\ h \in 1..N /\ h # i
      BY <2>0, <2>5, <2>7, <3>1
    <3> QED BY <2>0, <2>7, <3>1, <3>2 DEF OrderInv, Distinct, N
  <2> QED BY <2>5, <2>6, <2>7 DEF OnPath
<1> QED BY <1>1, AlwaysInv, PTL

-----------------------------------------------------------------------------
(* The refinement of Rebuild *)

Outcome ==
    CASE main = "returned" -> "returned"
      [] main = "refused" -> "refused"
      [] main \in {"joining", "raised"} /\ Len(surfaced) < N -> "failed"
      [] OTHER -> "running"
Seen == <<base, cached, Goal, Done, Outcome>>

\* What each place of the main loop means to the caller.
LEMMA OutcomeCases ==
    ASSUME main \in PlanPCs \union RunPCs
    PROVE  /\ Outcome = "returned" <=> main = "returned"
           /\ Outcome = "refused" <=> main = "refused"
           /\ Outcome = "failed" <=> main \in {"joining", "raised"} /\ Len(surfaced) < N
           /\ Outcome = "running" <=>
                 /\ main \notin {"returned", "refused"}
                 /\ ~(main \in {"joining", "raised"} /\ Len(surfaced) < N)
BY DEF Outcome, PlanPCs, RunPCs

\* While the job is being planned, the caller sees nothing, or a refusal.
LEMMA PlanningSeen ==
    ASSUME Inv, Planning \/ Order PROVE [Abstract!Next]_Seen
<1>1. /\ UNCHANGED <<base, params, cached, surfaced>>
      /\ main \in PlanPCs \ {"refused"} /\ main' \in PlanPCs
      /\ main' = "refused" => Resolve /\ Refused
  BY PlanningStep DEF Order, catalogue, PlanPCs, Planning, LookUp, Resolve, Step, PlanMade,
                      WalkFrom
<1>2. Goal' = Goal /\ Done' = Done /\ Done = {}
  BY <1>1 DEF Goal, Done, ToSet, Inv, HeadInv
<1>3. Outcome = "running" /\ Outcome' = (IF main' = "refused" THEN "refused" ELSE "running")
  BY <1>1 DEF Outcome, PlanPCs
<1>4. CASE main' = "refused"
  <2>1. HasCycle(base, closure.blobs) /\ closure.blobs \subseteq Tids /\ DOMAIN base = Tids
    BY <1>1, <1>4 DEF Refused, Inv, TypeOK, Bases
  <2>2. \E S \in SUBSET DOMAIN base \ {{}} : \A t \in S : base[t] \in S
    BY <2>1 DEF HasCycle
  <2>3. Abstract!Refuse
    BY <1>1, <1>2, <1>3, <1>4, <2>2 DEF Abstract!Refuse, Goal, Outcome
  <2> QED BY <2>3 DEF Abstract!Next
<1>5. CASE main' # "refused"
  BY <1>1, <1>2, <1>3, <1>5 DEF Seen
<1> QED BY <1>4, <1>5

\* The run hands over the tensors, fails or returns as Rebuild does.
LEMMA RunSeen ==
    ASSUME Inv, Main /\ ~Order PROVE [Abstract!Next]_Seen
<1>0. UNCHANGED <<base, params, cached>> /\ Goal' = Goal
  BY MainStep DEF Goal
<1>1. CASE Begin
  <2>1. UNCHANGED <<order, surfaced>> /\ main = "ordering"
    BY <1>1 DEF Begin, job
  <2>2. main' \in {"next", "returned"} /\ (main' = "returned" => N = 0)
    <3>1. main' \in Ordered /\ main' # "ordering"
      BY <1>1, MainStep DEF Begin
    <3> QED BY <1>1, <3>1 DEF Begin, Ordered, RunPCs
  <2>3. Done = {} /\ Done' = Done
    BY <2>1 DEF Inv, HeadInv, PlanPCs, Done, ToSet
  <2>4. Outcome = "running" /\ Outcome' = (IF main' = "returned" THEN "returned" ELSE "running")
    BY <2>1, <2>2 DEF Outcome
  <2>5. CASE main' = "returned"
    <3>1. Goal = {}
      <4>1. TypeOK /\ PlanInv /\ main \in Ordered /\ stack = <<>>
        BY <1>1 DEF Inv, Begin, Ordered
      <4>2. Entries = Goal
        BY <4>1, OrderComplete
      <4> QED BY <2>2, <2>5, <4>1, <4>2 DEF TypeOK, N, Entries, ToSet
    <3>2. Abstract!Return
      BY <1>0, <2>3, <2>4, <2>5, <3>1 DEF Abstract!Return, Goal, Outcome
    <3> QED BY <3>2 DEF Abstract!Next
  <2>6. CASE main' # "returned"
    BY <1>0, <2>3, <2>4, <2>6 DEF Seen
  <2> QED BY <2>5, <2>6
<1>2. CASE Advance
  <2>1. /\ UNCHANGED <<order, surfaced>> /\ main = "next" /\ N' = N
        /\ main' = IF Len(surfaced) < N THEN "result" ELSE "joining"
    BY <1>2 DEF Advance, job, N
  <2>2. Done' = Done /\ Outcome' = Outcome
    BY <2>1 DEF Done, Outcome
  <2> QED BY <1>0, <2>2 DEF Seen
<1>3. CASE FetchFailed \/ BaseUnavailable \/ SinkFailed
  <2>1. /\ UNCHANGED <<order, surfaced>> /\ main \in {"result", "decoded"} /\ N' = N
        /\ main' = "joining"
    BY <1>3 DEF FetchFailed, BaseUnavailable, SinkFailed, Raise, job, N
  <2>2. Current \in Rest /\ Entries = Goal /\ Len(surfaced) < N
    BY <2>1, DoneFacts DEF Inv, HeadInv, RunPCs
  <2>3. Done # Goal /\ Done' = Done /\ Outcome = "running" /\ Outcome' = "failed"
    BY <2>1, <2>2 DEF Done, Rest, Outcome
  <2>4. Abstract!Fail
    BY <1>0, <2>3 DEF Abstract!Fail, Goal, Outcome
  <2> QED BY <2>4 DEF Abstract!Next
<1>4. CASE Decode
  <2>1. UNCHANGED <<order, surfaced>> /\ main = "result" /\ main' = "decoded"
    BY <1>4 DEF Decode, job
  <2>2. Done' = Done /\ Outcome' = Outcome
    BY <2>1 DEF Done, Outcome
  <2> QED BY <1>0, <2>2 DEF Seen
<1>5. CASE Surface
  <2>0. PICK t : t = Current
    OBVIOUS
  <2>1. /\ UNCHANGED order /\ main = "decoded" /\ main' = "next"
        /\ surfaced' = Append(surfaced, t)
    BY <1>5, <2>0 DEF Surface, job
  <2>2. /\ t \in Rest /\ t \in Tids /\ Entries = Goal
        /\ base[t] \in Entries => base[t] \in Done
    BY <2>0, <2>1, DoneFacts DEF RunPCs
  <2>3. base[t] \in Goal \union cached \union {0}
    <3>1. ClosedUnder(base, cached, Goal)
      BY NeededIsClosed DEF Inv, TypeOK, Goal
    <3> QED BY <2>2, <3>1 DEF ClosedUnder, Rest
  <2>4. Done' = Done \union {t}
    BY <2>1, <2>2, AppendOne DEF Done, Inv, TypeOK
  <2>5. Outcome = "running" /\ Outcome' = "running"
    BY <2>1 DEF Outcome
  <2>6. t \in Goal /\ Abstract!Surface(t)
    BY <1>0, <2>2, <2>3, <2>4, <2>5 DEF Abstract!Surface, Goal, Outcome, Rest
  <2> QED BY <2>6 DEF Abstract!Next, Goal
<1>6. CASE Join
  <2>1. /\ UNCHANGED <<order, surfaced>> /\ main = "joining" /\ N' = N
        /\ main' = IF Len(surfaced) = N THEN "returned" ELSE "raised"
    BY <1>6 DEF Join, job, N
  <2>2. /\ Len(surfaced) \in Nat /\ N \in Nat /\ Len(surfaced) <= N
        /\ Done = {order[i] : i \in 1..Len(surfaced)} /\ Goal = {order[i] : i \in 1..N}
    <3>1. main \in RunPCs
      BY <2>1 DEF RunPCs
    <3>2. Len(surfaced) <= N /\ order \in Seq(Tids) /\ surfaced \in Seq(Tids)
      BY <3>1 DEF Inv, TypeOK, HeadInv
    <3>3. Entries = Goal /\ Done = {order[i] : i \in 1..Len(surfaced)}
          /\ Entries = {order[i] : i \in 1..N}
      BY <3>1, DoneFacts
    <3> QED BY <3>2, <3>3 DEF N
  <2>3. CASE Len(surfaced) = N
    <3>1. Done = Goal /\ Done' = Done /\ Outcome = "running" /\ Outcome' = "returned"
      BY <2>1, <2>2, <2>3 DEF Outcome, Done
    <3>2. Abstract!Return
      BY <1>0, <3>1 DEF Abstract!Return, Goal, Outcome
    <3> QED BY <3>2 DEF Abstract!Next
  <2>4. CASE Len(surfaced) # N
    <3>1. Done' = Done /\ Outcome = "failed" /\ Outcome' = "failed"
      BY <2>1, <2>2, <2>4 DEF Outcome, Done
    <3> QED BY <1>0, <3>1 DEF Seen
  <2> QED BY <2>3, <2>4
<1> QED BY <1>1, <1>2, <1>3, <1>4, <1>5, <1>6 DEF Main

\* Plan and run implement Rebuild: each tensor the model needs surfaces once,
\* after the tensor it is a delta against, and a run that returns has surfaced
\* all of them, whatever fails on the way.
THEOREM PipelineRebuilds == Spec => Rebuilds
<1>1. Init => Abstract!Init
  <2> SUFFICES ASSUME Init PROVE Done = {} /\ Outcome = "running"
    BY DEF Abstract!Init, Outcome
  <2> QED BY DEF Init, Done, ToSet, Outcome
<1>2. Inv /\ [Next]_vars => [Abstract!Next]_Seen
  <2> SUFFICES ASSUME Inv, [Next]_vars PROVE [Abstract!Next]_Seen
    OBVIOUS
  <2>1. CASE \E i \in DOMAIN fetch : Fetcher(i)
    <3>1. UNCHANGED <<base, params, cached, order, surfaced, main>>
      BY <2>1 DEF Fetcher, Start, Reserve, Get, job, catalogue
    <3> QED BY <3>1 DEF Seen, Goal, Done, Outcome, N
  <2>2. CASE UNCHANGED vars
    BY <2>2 DEF vars, job, catalogue, Seen, Goal, Done, Outcome, N
  <2> QED BY <2>1, <2>2, PlanningSeen, RunSeen DEF Next, Main
<1>3. Inv /\ [Next]_vars => [Abstract!Next]_(Abstract!vars)
  <2>1. Abstract!vars = Seen
    BY DEF Abstract!vars, Seen, Outcome, Goal
  <2>2. (Abstract!vars)' = Seen'
    BY DEF Abstract!vars, Seen, Outcome, Goal
  <2> QED BY <1>2, <2>1, <2>2
<1> QED BY <1>1, <1>3, AlwaysInv, PTL DEF Spec, Rebuilds, Abstract!Spec
=============================================================================
