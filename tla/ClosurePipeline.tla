--------------------------- MODULE ClosurePipeline ---------------------------
(***************************************************************************)
(* A warm job of the serving tier.  The metadata service resolves the      *)
(* model's manifest and plans what to fetch, loop by loop; the pipeline    *)
(* puts the plan in depth-first order.  Fetches are submitted to a thread  *)
(* pool in that order and reserve bytes of a budget; one main thread       *)
(* decodes the blobs in the same order, keeping a decoded base only while  *)
(* deltas that need it are outstanding.                                    *)
(***************************************************************************)
EXTENDS Closures, Integers

CONSTANTS
    Stored,         \* stored_bytes of each blob
    Logical,        \* bytes of each decoded tensor
    Budget,         \* inflight_budget
    RamBudget,      \* base_ram_budget
    MaxWorkers,     \* threads of the pool
    MaxCached,      \* bound: how many tensors the cache holds at the start
    Faults          \* may S3, the cache or the sink fail?

ASSUME PipelineAssumption ==
    /\ Stored \in [Tids -> Nat \ {0}]
    /\ Logical \in [Tids -> Nat \ {0}]
    /\ Budget \in Nat /\ RamBudget \in Nat
    /\ MaxWorkers \in Nat \ {0}
    /\ MaxCached \in Nat
    /\ Faults \in BOOLEAN

VARIABLES
    base,       \* the delta edges of the catalogue
    params,     \* the tensors of the model
    cached,     \* decoded tensors base_lookup finds: the client's "have"
    closure,    \* the manifest: its blobs, and the frontier of the loop
    walk,       \* the plan's walk: the tensors needed, and where it is
    left,       \* parameters the plan has still to walk from
    order,      \* the plan's entries in the order of dfs_order
    stack,      \* its stack
    fetch,      \* the state of each entry's fetch
    inflight,   \* budget["bytes"]
    head,       \* budget["head"]
    main,       \* the main thread
    refcount,   \* deltas still to decode against each base
    ram, disk,  \* the BaseStore
    surfaced    \* tensors handed to on_tensor

catalogue == <<base, params, cached>>
manifest == <<closure, walk, left>>
job == <<catalogue, manifest, order, stack>>
pool == <<fetch, inflight, head>>
store == <<refcount, ram, disk>>
vars == <<job, pool, main, store, surfaced>>

-----------------------------------------------------------------------------
N == Len(order)
Entries == ToSet(order)
Planned == Fetched(closure.blobs, cached, walk.needed)
Bytes(S) == MapThenSumSet(LAMBDA t : Logical[t], S)

\* References from outside the run are counted once the base is looked up.
ExtRefs(b) == Cardinality(Children(base, Entries, b))

FetchStates == {"queued", "waiting", "getting", "got", "failed"}
PlanPCs == {"resolving", "walking", "ordering", "refused"}
RunPCs == {"next", "result", "decoded", "joining", "returned", "raised"}

TypeOK ==
    /\ base \in Bases
    /\ params \subseteq Tids
    /\ cached \subseteq Tids
    /\ closure \in [blobs : SUBSET Tids, frontier : SUBSET Tids]
    /\ walk \in [needed : SUBSET Tids, cur : 0..MaxTid]
    /\ left \subseteq params
    /\ order \in Seq(Tids)
    /\ stack \in Seq(Tids)
    /\ fetch \in Seq(FetchStates)
    /\ main \in RunPCs => Len(fetch) = N
    /\ inflight \in Int
    /\ head \in Tids
    /\ main \in PlanPCs \union RunPCs
    /\ refcount \in [Tids -> Int]
    /\ ram \subseteq Tids /\ disk \subseteq Tids
    /\ surfaced \in Seq(Tids)

-----------------------------------------------------------------------------
(* The metadata service: POST /v1/plan *)

\* A warm job for a cache that holds the tensors in cached.
Init ==
    /\ base \in Bases
    /\ cached \in {S \in SUBSET Tids : Cardinality(S) <= MaxCached}
    /\ params \in SUBSET Tids \ {{}}
    /\ closure = [blobs |-> {}, frontier |-> params]
    /\ walk = [needed |-> {}, cur |-> 0]
    /\ left = params
    /\ order = <<>> /\ stack = <<>>
    /\ fetch = <<>> /\ inflight = 0 /\ head = 1
    /\ main = "resolving"
    /\ refcount = [t \in Tids |-> 0]
    /\ ram = {} /\ disk = {}
    /\ surfaced = <<>>

\* The rows and the bases of the frontier are looked up.
LookUp ==
    /\ main = "resolving" /\ closure.frontier # {}
    /\ closure' = NextRound(base, closure)
    /\ UNCHANGED <<catalogue, walk, left, order, stack, pool, main, store, surfaced>>

Refused == HasCycle(base, closure.blobs)

\* A tensor whose depth is not defined: "delta cycle", and the job fails.
Resolve ==
    /\ main = "resolving" /\ closure.frontier = {}
    /\ main' = IF Refused THEN "refused" ELSE "walking"
    /\ UNCHANGED <<job, pool, store, surfaced>>

WalkOver == WalkEnds(cached, walk)

Step ==
    /\ main = "walking" /\ ~WalkOver
    /\ walk' = StepUp(base, walk)
    /\ UNCHANGED <<catalogue, closure, left, order, stack, pool, main, store, surfaced>>

\* The next parameter: in the order of their names, which says nothing of
\* their tensors.
WalkFrom(p) ==
    /\ main = "walking" /\ WalkOver
    /\ left' = left \ {p}
    /\ walk' = [walk EXCEPT !.cur = p]
    /\ UNCHANGED <<catalogue, closure, order, stack, pool, main, store, surfaced>>

\* The plan is sent, and dfs_order begins with its roots.
PlanMade ==
    /\ main = "walking" /\ WalkOver /\ left = {}
    /\ walk' = [walk EXCEPT !.cur = 0]
    /\ stack' = Sorted(Roots(base, Planned))
    /\ main' = "ordering"
    /\ UNCHANGED <<catalogue, closure, left, order, pool, store, surfaced>>

-----------------------------------------------------------------------------
(* The materializer: dfs_order, and the start of the run *)

Order ==
    /\ main = "ordering" /\ stack # <<>>
    /\ LET w == Visit(base, Planned, [order |-> order, stack |-> stack])
       IN order' = w.order /\ stack' = w.stack
    /\ UNCHANGED <<catalogue, manifest, pool, main, store, surfaced>>

\* "Traversal incomplete", or nothing to do, or every fetch is submitted.
Begin ==
    /\ main = "ordering" /\ stack = <<>>
    /\ main' = IF N # Cardinality(Planned) THEN "refused"
               ELSE IF N = 0 THEN "returned" ELSE "next"
    /\ fetch' = [i \in 1..N |-> "queued"]
    /\ refcount' = [t \in Tids |->
                      IF t \in Entries THEN Cardinality(Children(base, Entries, t)) ELSE 0]
    /\ UNCHANGED <<job, inflight, head, ram, disk, surfaced>>

-----------------------------------------------------------------------------
(* The pool *)

Busy == {i \in 1..N : fetch[i] \in {"waiting", "getting"}}
Submitted == main \in RunPCs \ {"returned", "raised"}

\* A thread takes the next task, in the order of submission.
Start(i) ==
    /\ Submitted
    /\ fetch[i] = "queued"
    /\ \A j \in 1..(i - 1) : fetch[j] # "queued"
    /\ Cardinality(Busy) < MaxWorkers
    /\ fetch' = [fetch EXCEPT ![i] = "waiting"]
    /\ UNCHANGED <<job, inflight, head, main, store, surfaced>>

\* Mutant of MayReserve: nothing but the budget counts.
WithinBudget(i) == inflight + Stored[order[i]] <= Budget
\* Mutant of MayReserve: the entry after the head may exceed the budget too.
NearHead(i) == inflight + Stored[order[i]] <= Budget \/ i <= head + 1
\* Only the head of the line may exceed the budget.
MayReserve(i) == inflight + Stored[order[i]] <= Budget \/ i <= head

Reserve(i) ==
    /\ fetch[i] = "waiting"
    /\ MayReserve(i)
    /\ inflight' = inflight + Stored[order[i]]
    /\ fetch' = [fetch EXCEPT ![i] = "getting"]
    /\ UNCHANGED <<job, head, main, store, surfaced>>

\* The object arrives, or S3 fails or sends too little: the task raises and
\* keeps what it reserved.
Get(i) ==
    /\ fetch[i] = "getting"
    /\ \E r \in {"got"} \union (IF Faults THEN {"failed"} ELSE {}) :
          fetch' = [fetch EXCEPT ![i] = r]
    /\ UNCHANGED <<job, inflight, head, main, store, surfaced>>

-----------------------------------------------------------------------------
(* The main thread *)

\* Mutant of Advance: the head moves past the last entry.
AdvancePastEnd ==
    /\ main = "next"
    /\ head' = Len(surfaced) + 1
    /\ main' = IF Len(surfaced) < N THEN "result" ELSE "joining"
    /\ UNCHANGED <<job, fetch, inflight, store, surfaced>>

Advance ==
    /\ main = "next"
    /\ head' = IF Len(surfaced) < N THEN Len(surfaced) + 1 ELSE head
    /\ main' = IF Len(surfaced) < N THEN "result" ELSE "joining"
    /\ UNCHANGED <<job, fetch, inflight, store, surfaced>>

Current == order[head]
BaseOf(t) == base[t]
InStore(b) == b \in ram \union disk

\* An exception leaves the loop for the pool's __exit__.
Raise ==
    /\ main' = "joining"
    /\ UNCHANGED <<job, fetch, inflight, head, store, surfaced>>

FetchFailed ==
    /\ main = "result" /\ fetch[head] = "failed"
    /\ Raise

\* base_lookup misses a base that is not of this run: "base unavailable".
BaseUnavailable ==
    /\ main = "result" /\ fetch[head] = "got"
    /\ BaseOf(Current) # 0 /\ ~InStore(BaseOf(Current))
    /\ BaseOf(Current) \notin cached \/ Faults
    /\ Raise

\* Where BaseStore.put keeps decoded bytes: in RAM up to the cap, else on disk.
Put(t) ==
    IF Bytes(ram) + Logical[t] <= RamBudget
    THEN [ram |-> ram \union {t}, disk |-> disk]
    ELSE [ram |-> ram, disk |-> disk \union {t}]

\* The blob is decoded and its reservation released; an external base that
\* later entries need again is kept.
Decode ==
    LET b == BaseOf(Current)
        keep == b # 0 /\ ~InStore(b) /\ ExtRefs(b) > 1
    IN  /\ main = "result" /\ fetch[head] = "got"
        /\ b = 0 \/ InStore(b) \/ b \in cached
        /\ ram' = IF keep THEN Put(b).ram ELSE ram
        /\ disk' = IF keep THEN Put(b).disk ELSE disk
        /\ refcount' = IF keep THEN [refcount EXCEPT ![b] = ExtRefs(b)] ELSE refcount
        /\ inflight' = inflight - Stored[Current]
        /\ main' = "decoded"
        /\ UNCHANGED <<job, fetch, head, surfaced>>

\* The hash differs, or on_tensor raises.
SinkFailed ==
    /\ Faults /\ main = "decoded"
    /\ Raise

\* References to the base of t that are left once t is decoded.
Released(t) ==
    LET b == BaseOf(t)
    IN IF b # 0 /\ (b \in Entries \/ refcount[b] > 0)
       THEN [refcount EXCEPT ![b] = @ - 1] ELSE refcount
\* Mutant of Dropped: a base is dropped when its second-last delta is done.
DroppedEarly(t) == {b \in {BaseOf(t)} \ {0} : refcount[b] <= 2}
Dropped(t) == {b \in {BaseOf(t)} \ {0} : Released(t)[b] = 0}

\* on_tensor, then the reference counts: keep t for its deltas, and drop its
\* base after the last of them.
Surface ==
    LET t == Current
        kept == IF refcount[t] > 0 THEN Put(t) ELSE [ram |-> ram, disk |-> disk]
    IN  /\ main = "decoded"
        /\ surfaced' = Append(surfaced, t)
        /\ ram' = kept.ram \ Dropped(t)
        /\ disk' = kept.disk \ Dropped(t)
        /\ refcount' = Released(t)
        /\ main' = "next"
        /\ UNCHANGED <<job, fetch, inflight, head>>

\* shutdown(wait=True): every task submitted must end first; then the store
\* is cleared.
Join ==
    /\ main = "joining"
    /\ \A i \in 1..N : fetch[i] \in {"got", "failed"}
    /\ main' = IF Len(surfaced) = N THEN "returned" ELSE "raised"
    /\ ram' = {} /\ disk' = {}
    /\ UNCHANGED <<job, fetch, inflight, head, refcount, surfaced>>

-----------------------------------------------------------------------------
Planning == LookUp \/ Resolve \/ Step \/ PlanMade \/ \E p \in left : WalkFrom(p)
Main == Order \/ Begin \/ Advance \/ FetchFailed \/ BaseUnavailable \/ Decode
            \/ SinkFailed \/ Surface \/ Join
Fetcher(i) == Start(i) \/ Reserve(i) \/ Get(i)
Next == Planning \/ Main \/ \E i \in DOMAIN fetch : Fetcher(i)

\* The operating system runs every thread; boto3's requests time out, so
\* each one ends.
Fairness ==
    /\ WF_vars(Planning) /\ WF_vars(Main)
    /\ \A i \in Tids : WF_vars(i \in DOMAIN fetch /\ Fetcher(i))

Spec == Init /\ [][Next]_vars /\ Fairness

-----------------------------------------------------------------------------
(* Properties *)

Done == ToSet(surfaced)
Kept == ram \union disk
Needs(b) == \E t \in Entries \ Done : base[t] = b

\* Whatever the fetchers' order, only the blob at the head of the line takes
\* the bytes in flight over the budget (the claim of pipeline.py's heading).
OnlyHeadExceedsBudget ==
    N > 0 =>
        inflight <= Budget + IF \/ main = "decoded"
                                \/ main = "next" /\ surfaced # <<>>
                             THEN 0 ELSE Stored[Current]

\* Between two entries the store holds the decoded bases that an entry still
\* to come needs, and no others: reference counts lose and leak nothing.
KeptExactlyWhileNeeded ==
    main = "next" =>
        Kept = {b \in Tids : /\ Needs(b)
                             /\ \/ b \in Done
                                \/ b \notin Entries /\ \E t \in Done : base[t] = b}

\* The bases of the run that are kept lie on one root-to-leaf path, which
\* bounds the memory of the run whatever the size of the closure.
LiveSetIsOnePath ==
    main = "next" /\ surfaced # <<>> =>
        Kept \intersect Entries \subseteq ChainOf(base, Last(surfaced))

\* Manifest, plan and order together: each tensor that the cache does not
\* spare comes exactly once, a base of the run comes before its deltas, and a
\* base outside the run is in the cache.  Nothing but a delta cycle in the
\* model's own chains makes the job fail before it fetches.
PlanIsExact ==
    /\ main \in RunPCs =>
         /\ Entries = NeededFor(base, params, cached)
         /\ N = Cardinality(Entries)
         /\ \A i \in 1..N : base[order[i]] \in {order[j] : j \in 1..(i - 1)}
                                             \union cached \union {0}
    /\ main = "refused" => HasCycle(base, NeededFor(base, params, {}))

\* Plan and run implement the abstract rebuild: each tensor the model needs
\* surfaces once, after the tensor it is a delta against, and the run returns
\* when all have.
Abstract == INSTANCE Rebuild WITH
    wanted <- NeededFor(base, params, cached),
    surfaced <- Done,
    outcome <- CASE main = "returned" -> "returned"
                 [] main = "refused" -> "refused"
                 [] main \in {"joining", "raised"} /\ Len(surfaced) < N -> "failed"
                 [] OTHER -> "running"
Rebuilds == Abstract!Spec

\* However small the budget and however few the threads, the job ends: the
\* planning loops come to an end, and the run surfaces every entry or reports
\* a failure.
RunEnds == <>(main \in {"returned", "refused"} \/ (main \in {"joining", "raised"} /\ Len(surfaced) < N))

\* get_tensor answers 502 and a warm job its error when run raises: after a
\* failure, too, run must come back.
RunComesBack == <>(main \in {"returned", "refused", "raised"})

=============================================================================
