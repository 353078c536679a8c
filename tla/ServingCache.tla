----------------------------- MODULE ServingCache -----------------------------
(***************************************************************************)
(* The hot cache of the serving tier and the three that share it: threads  *)
(* of the materializer that serve one tensor or warm a model, and the      *)
(* eviction daemon, a process of its own that knows of their work only by  *)
(* the pin files they leave in the cache.                                  *)
(*                                                                         *)
(* A plan is what a model or a tensor needs and the cache lacks, and a run *)
(* one Decode step per entry, in any order that puts bases first: that     *)
(* plans are exact and runs keep to such an order is what ClosurePipeline  *)
(* shows.                                                                  *)
(***************************************************************************)
EXTENDS Closures

CONSTANTS
    Requests,      \* threads of the materializer
    Wants,         \* the tensors each request may ask for
    Models,        \* the models each may warm, as sets of tensors
    Base,          \* the delta edges, by the metadata service
    Size,          \* bytes of each tensor, decoded
    Stored,        \* bytes of each blob
    BigThreshold,  \* BIG_THRESHOLD, in bytes
    DecodeSlots,   \* demand runs at a time of tensors that are not above it
    DemandInflight, WarmInflight,   \* bytes a run may have in flight
    High, Low,     \* watermarks, in bytes
    Policy,        \* "lru" or "dag_value"
    S3Fails,       \* may a fetch fail?
    MaxRequests,   \* bound: requests per thread
    MaxPasses      \* bound: eviction passes

ASSUME ServingAssumption ==
    /\ Wants \in [Requests -> SUBSET Tids]
    /\ Models \in [Requests -> SUBSET SUBSET Tids]
    /\ Base \in Bases /\ ~HasCycle(Base, Tids)
    /\ Size \in [Tids -> Nat \ {0}] /\ Stored \in [Tids -> Nat \ {0}]
    /\ {BigThreshold, DemandInflight, WarmInflight} \subseteq Nat
    /\ DecodeSlots \in Nat \ {0}
    /\ Low \in Nat /\ High \in Nat /\ Low < High
    /\ Policy \in {"lru", "dag_value"}
    /\ S3Fails \in BOOLEAN
    /\ MaxRequests \in Nat /\ MaxPasses \in Nat

VARIABLES
    cache,     \* cached tensors, the one least recently touched first
    young,     \* those touched within the evictor's min-age
    pin,       \* pin files: none, live, or older than PIN_STALE_SECS
    req,       \* what each thread is in the middle of
    evictor,   \* the state of the eviction pass
    shared,    \* ghost: tensors of two runs that overlap
    late,      \* ghost: runs that began after the pass had read the pins
    losses     \* ghost: during a request, evictions of what it may rely on, and
               \* fetches that failed

ghosts == <<shared, late, losses>>
vars == <<cache, young, pin, req, evictor, shared, late, losses>>

-----------------------------------------------------------------------------
\* The metadata service, on this tier's delta edges.
Chain == [t \in Tids |-> ChainOf(Base, t)]

Cached == ToSet(cache)
Position(list, t) == CHOOSE i \in DOMAIN list : list[i] = t
Without(list, t) == IF t \in ToSet(list) THEN RemoveAt(list, Position(list, t)) ELSE list
Touch(t) == Append(Without(cache, t), t)

Idle == [pc |-> "idle", tid |-> 0, model |-> {}, attempt |-> 1, entries |-> {}, todo |-> {},
         held |-> {}, count |-> 0]
RequestPCs == {"idle", "look", "locking", "entering", "running", "closing", "stuck",
               "stat", "served", "error", "warmed"}
Request == [pc : RequestPCs, tid : 0..MaxTid, model : SUBSET Tids, attempt : 1..2,
            entries : SUBSET Tids, todo : SUBSET Tids, held : SUBSET Tids,
            count : 0..MaxRequests]
Waiting(r) == req[r].pc \in {"idle", "served", "error", "warmed"}

\* A pass has listed the cache, and some of it left to visit.
Asleep(n) == [pc |-> "asleep", listed |-> <<>>, left |-> {}, spared |-> {}, dropped |-> {},
              passes |-> n]
Evictor == [pc : {"asleep", "listed", "sweeping"}, listed : Seq(Tids), left : SUBSET Tids,
            spared : SUBSET Tids, dropped : SUBSET Tids, passes : 0..MaxPasses]

TypeOK ==
    /\ cache \in Seq(Tids)
    /\ young \subseteq Cached
    /\ pin \in [Tids -> {"none", "live", "stale"}]
    /\ req \in [Requests -> Request]
    /\ evictor \in Evictor
    /\ shared \subseteq Tids
    /\ late \subseteq Requests
    /\ losses \in [Requests -> Nat]

\* A run is under way until the pool of its fetches is shut down: one that
\* has failed keeps its lock, its place and its pins until then.
Running(r) == req[r].pc \in {"running", "closing", "stuck"}
Stuck(r) == req[r].pc = "stuck"
\* A request for a tensor, not a warm job.
Demand(r) == req[r].tid # 0
HoldsLock(r, t) == req[r].tid = t /\ (req[r].pc = "entering" \/ Running(r))

Init ==
    /\ cache = <<>>
    /\ young = {}
    /\ pin = [t \in Tids |-> "none"]
    /\ req = [r \in Requests |-> Idle]
    /\ evictor = Asleep(0)
    /\ shared = {} /\ late = {}
    /\ losses = [r \in Requests |-> 0]

files == <<cache, young, pin>>
Step(r, rec) == req' = [req EXCEPT ![r] = rec]

-----------------------------------------------------------------------------
(* GET /v1/tensor/{tid} *)

Ask(r, t) ==
    /\ Waiting(r)
    /\ req[r].count < MaxRequests
    /\ Step(r, [Idle EXCEPT !.pc = "look", !.tid = t, !.count = req[r].count + 1])
    /\ losses' = [losses EXCEPT ![r] = 0]
    /\ UNCHANGED <<files, evictor, shared, late>>

\* A hit needs no lock.
Look(r) ==
    /\ req[r].pc = "look"
    /\ Step(r, [req[r] EXCEPT !.pc = IF req[r].tid \in Cached THEN "stat" ELSE "locking"])
    /\ UNCHANGED <<files, evictor, ghosts>>

\* Mutant of ChainPrefix: a raw tensor's "no base" is taken for a tensor.
WalkToNone(t) == NeededFor(Base, {t}, Cached) \union {Base[t]}
\* Mutant of ChainPrefix: the cut looks at the target only.
TargetOnly(t) == {t}
\* The chain, up to the first ancestor that is cached.
ChainPrefix(t) == NeededFor(Base, {t}, Cached)

LockFree(r) == \A q \in Requests : ~HoldsLock(q, req[r].tid)

\* tid_lock, the second look, the closure and the cut at a cached ancestor.
Lock(r) ==
    /\ req[r].pc = "locking"
    /\ LockFree(r)
    /\ Step(r, IF req[r].tid \in Cached THEN [req[r] EXCEPT !.pc = "stat"]
               ELSE [req[r] EXCEPT !.pc = "entering",
                                   !.entries = ChainPrefix(req[r].tid),
                                   !.todo = ChainPrefix(req[r].tid)])
    /\ UNCHANGED <<files, evictor, ghosts>>

Big == {t \in Tids : Size[t] > BigThreshold}
InGate(big) == {q \in Requests : Running(q) /\ Demand(q) /\ (req[q].tid \in Big) = big}

\* Mutant of GateFree: a run that succeeds keeps its slot.
GateKept(r) ==
    Cardinality({q \in Requests : Running(q) \/ req[q].pc \in {"stat", "served"}}) < DecodeSlots
GateFree(r) ==
    IF req[r].tid \in Big THEN InGate(TRUE) = {} ELSE Cardinality(InGate(FALSE)) < DecodeSlots

\* Entries that another run has pinned at the same time.
Overlap(r, S) == {t \in S : \E q \in Requests \ {r} : Running(q) /\ t \in req[q].entries}

Pin(r, S) ==
    /\ pin' = [t \in Tids |-> IF t \in S THEN "live" ELSE pin[t]]
    /\ shared' = shared \union Overlap(r, S)
    /\ late' = IF evictor.pc = "sweeping" THEN late \union {r} ELSE late

\* The gate, then a pin on every entry.
Enter(r) ==
    /\ req[r].pc = "entering"
    /\ GateFree(r)
    /\ Pin(r, req[r].entries)
    /\ Step(r, [req[r] EXCEPT !.pc = "running"])
    /\ UNCHANGED <<cache, young, evictor, losses>>

-----------------------------------------------------------------------------
(* POST /v1/warm: one job per model, and no gate *)

Warm(r, m) ==
    LET entries == NeededFor(Base, m, Cached)
    IN  /\ Waiting(r)
        /\ req[r].count < MaxRequests
        /\ \A q \in Requests : ~(Running(q) /\ ~Demand(q) /\ req[q].model = m)
        /\ Pin(r, entries)
        /\ Step(r, [Idle EXCEPT !.pc = "running", !.model = m,
                                !.entries = entries, !.todo = entries,
                                !.count = req[r].count + 1])
        /\ losses' = [losses EXCEPT ![r] = 0]
        /\ UNCHANGED <<cache, young, evictor>>

-----------------------------------------------------------------------------
(* The run, shared by both *)

\* The entries whose base is not an entry still to do.
NextEntries(r) == Roots(Base, req[r].todo)
HasBase(r, t) == Base[t] \in {0} \union req[r].held \union Cached

\* The next entry is rebuilt and put into the cache, by a rename.
Decode(r, t) ==
    /\ req[r].pc = "running" /\ t \in NextEntries(r)
    /\ HasBase(r, t)
    /\ cache' = Touch(t)
    /\ young' = young \union {t}
    /\ Step(r, [req[r] EXCEPT !.todo = @ \ {t},
                              !.held = @ \union {t} \union ({Base[t]} \ {0})])
    /\ UNCHANGED <<pin, evictor, ghosts>>

\* pinned() unlinks the files it made, whoever else has made them too.
Unpinned(r) == req[r].entries

Leave(r, pc) ==
    /\ pin' = [t \in Tids |-> IF t \in Unpinned(r) THEN "none" ELSE pin[t]]
    /\ Step(r, [req[r] EXCEPT !.pc = pc, !.entries = {}, !.todo = {}, !.held = {}])
    /\ shared' = {t \in shared : \E q \in Requests \ {r} :
                                    Running(q) /\ t \in req[q].entries}
    /\ late' = late \ {r}
    /\ UNCHANGED <<cache, young, evictor, losses>>

Finish(r) ==
    /\ req[r].pc = "running" /\ req[r].todo = {}
    /\ Leave(r, IF Demand(r) THEN "stat" ELSE "warmed")

BytesStored(S) == MapThenSumSet(LAMBDA t : Stored[t], S)
Inflight(r) == IF Demand(r) THEN DemandInflight ELSE WarmInflight

\* How the pool's exit ends when t, the head of what is still to do, has failed:
\* it waits for the fetches behind t, and one that waits for the budget waits
\* for ever, as nothing is given back any more.  Whether those that fit without
\* t were let in before t had its bytes is up to the scheduler.
Endings(r, t) ==
    (IF BytesStored(req[r].todo \ {t}) <= Inflight(r) THEN {"closing"} ELSE {})
    \union (IF BytesStored(req[r].todo) > Inflight(r) /\ req[r].todo # {t}
            THEN {"stuck"} ELSE {})

\* The cached ancestor is gone, or S3 fails.
Fail(r) ==
    /\ req[r].pc = "running"
    /\ \E t \in NextEntries(r) :
          /\ ~HasBase(r, t) \/ S3Fails
          /\ \E pc \in Endings(r, t) :
                Step(r, [req[r] EXCEPT !.pc = pc, !.todo = {}, !.held = {}])
          /\ losses' = [losses EXCEPT ![r] = @ + IF HasBase(r, t) THEN 1 ELSE 0]
    /\ UNCHANGED <<files, evictor, shared, late>>

\* 502, or the warm job's error, once the pool has let the run go.
Close(r) == req[r].pc = "closing" /\ Leave(r, "error")

-----------------------------------------------------------------------------
(* The answer *)

Retry(r) == req[r].attempt = 1

\* getsize: a file that was evicted since is looked for once more.
Stat(r) ==
    /\ req[r].pc = "stat"
    /\ Step(r, IF req[r].tid \in Cached
               THEN [Idle EXCEPT !.pc = "served", !.count = req[r].count]
               ELSE IF Retry(r) THEN [req[r] EXCEPT !.pc = "look", !.attempt = 2]
               ELSE [req[r] EXCEPT !.pc = "error"])
    /\ UNCHANGED <<files, evictor, ghosts>>

-----------------------------------------------------------------------------
(* Time *)

\* Mutant of LivePins: the pins are not read.
NoPins == {}
LivePins == {t \in Tids : pin[t] = "live"}

\* min-age passes, for the entry touched longest ago first.
Age ==
    /\ young # {}
    /\ \E t \in young :
          /\ \A u \in young : Position(cache, t) <= Position(cache, u)
          /\ young' = young \ {t}
    /\ UNCHANGED <<cache, pin, req, evictor, ghosts>>

\* PIN_STALE_SECS pass: the pins of a longer run, or of one that died, are
\* taken for leaked.
PinsStale ==
    /\ LivePins # {}
    /\ pin' = [t \in Tids |-> IF pin[t] = "live" THEN "stale" ELSE pin[t]]
    /\ young' = {}
    /\ UNCHANGED <<cache, req, evictor, ghosts>>

\* The materializer dies: its threads are gone, its files stay.
Crash ==
    /\ \E r \in Requests : ~Waiting(r)
    /\ req' = [r \in Requests |-> [Idle EXCEPT !.count = req[r].count]]
    /\ losses' = [r \in Requests |-> 0]
    /\ shared' = {} /\ late' = {}
    /\ UNCHANGED <<files, evictor>>

-----------------------------------------------------------------------------
(* The eviction daemon *)

Listed == ToSet(evictor.listed)

\* Dependents one hop up that are cached, of a tensor's value under dag_value.
Dependents(t) == Children(Base, Listed, t)

\* To rebuild a tensor: its blob's bytes, and a tenth of a unit per decoded
\* byte.  In tenths; every tensor of the tier is in a manifest.
Cost == [t \in Tids |-> 10 * Stored[t] + Size[t]]
TotalCost(S) == MapThenSumSet(LAMBDA t : Cost[t], S)

\* Mutant of Saved: of an entry alone, as if nothing were a delta against it.
SavedAlone(t) == Cost[t]
\* What rebuilding the entry and its dependents would cost without it.
Saved(t) == Cost[t] + TotalCost(Dependents(t))

\* Value per byte, compared without a division.
Cheaper(a, b) == Saved(a) * Size[b] < Saved(b) * Size[a]

\* Lowest score first; ties go to the one touched longest ago, as the term
\* for recency is too small (1e-12 per second) to do more than break them.
Before(a, b) ==
    \/ Policy = "dag_value" /\ Cheaper(a, b)
    \/ /\ Policy = "lru" \/ ~Cheaper(b, a)
       /\ Position(evictor.listed, a) < Position(evictor.listed, b)

Bytes(S) == MapThenSumSet(LAMBDA t : Size[t], S)

\* Above the high watermark: the entries and their ages are listed.
List ==
    /\ evictor.pc = "asleep"
    /\ Bytes(Cached) >= High
    /\ evictor.passes < MaxPasses
    /\ evictor' = [pc |-> "listed", listed |-> cache, left |-> Cached, spared |-> young,
                   dropped |-> {}, passes |-> evictor.passes + 1]
    /\ UNCHANGED <<files, req, ghosts>>

ReadPins ==
    /\ evictor.pc = "listed"
    /\ evictor' = [evictor EXCEPT !.pc = "sweeping", !.spared = @ \union LivePins]
    /\ UNCHANGED <<files, req, ghosts>>

Victim == CHOOSE t \in evictor.left : \A u \in evictor.left : ~Before(u, t)
\* Until the bytes dropped bring the listed ones to the low watermark.
SweepOn ==
    /\ evictor.pc = "sweeping" /\ evictor.left # {}
    /\ Bytes(evictor.dropped) + Low < Bytes(Listed)
Swept(S) == [evictor EXCEPT !.left = @ \ {Victim}, !.dropped = @ \union S]

Skip ==
    /\ SweepOn
    /\ Victim \in evictor.spared \/ Victim \notin Cached
    /\ evictor' = Swept({})
    /\ UNCHANGED <<files, req, ghosts>>

\* What a request may still have to read: its tensor, and the chain below.
ReliesOn(r, t) ==
    /\ ~Waiting(r)
    /\ t \in UNION {Chain[x] : x \in req[r].entries \union ({req[r].tid} \ {0})}

Evict ==
    /\ SweepOn
    /\ Victim \notin evictor.spared /\ Victim \in Cached
    /\ cache' = Without(cache, Victim)
    /\ young' = young \ {Victim}
    /\ evictor' = Swept({Victim})
    /\ losses' = [r \in Requests |-> losses[r] + IF ReliesOn(r, Victim) THEN 1 ELSE 0]
    /\ UNCHANGED <<pin, req, shared, late>>

Sleep ==
    /\ evictor.pc = "sweeping" /\ ~SweepOn
    /\ evictor' = Asleep(evictor.passes)
    /\ late' = {}
    /\ UNCHANGED <<files, req, shared, losses>>

-----------------------------------------------------------------------------
Work(r) ==
    \/ Look(r) \/ Lock(r) \/ Enter(r) \/ Finish(r) \/ Fail(r) \/ Close(r) \/ Stat(r)
    \/ \E t \in Tids : Decode(r, t)
Daemon == List \/ ReadPins \/ Skip \/ Evict \/ Sleep

Next ==
    \/ \E r \in Requests : Work(r)
    \/ \E r \in Requests : \E t \in Wants[r] : Ask(r, t)
    \/ \E r \in Requests : \E m \in Models[r] : Warm(r, m)
    \/ Age \/ PinsStale
    \/ Crash
    \/ Daemon

\* Threads run.  Nobody has to ask, and time and the daemon may stand still.
Fairness == \A r \in Requests : WF_vars(Work(r))

Spec == Init /\ [][Next]_vars /\ Fairness

-----------------------------------------------------------------------------
(* Properties *)

\* No entry of a run is evicted while it runs, provided that no run shares
\* the entry, that it ends within the hour of its pins, and that the eviction
\* pass read the pins after it had made them.
PinsProtect ==
    [][\A r \in Requests : \A t \in req[r].entries :
          Running(r) /\ t \in Cached /\ t \notin Cached'
             => t \in shared \/ pin[t] = "stale" \/ r \in late]_vars

\* A request fails only if for each of its attempts an eviction took what it
\* relied on or a fetch failed: a cut at a cached ancestor, the pins and the
\* retry leave no other way to a 502.
ErrorsNeedEvictions ==
    \A r \in Requests : req[r].pc = "error" => losses[r] >= req[r].attempt

\* The dag_value policy gives up no tensor that a listed tensor is a delta
\* against before the pass has visited that delta, unless the delta has
\* dependents of its own, or the base is of a wider type: it is value per byte
\* that counts, and either may make the delta worth more.  (Of two tensors that
\* are not base and delta, one with many dependents may well go before one with
\* none.)
DagKeepsBases ==
    [][\A d \in evictor.left :
          Policy = "dag_value" /\ Dependents(d) = {}
             => ~(/\ Base[d] \in Cached /\ Size[Base[d]] <= Size[d]
                  /\ Base[d] \notin Cached')]_vars

\* The run of another request that failed, and never ends, keeps r waiting.
BlockedByStuck(r) ==
    LET before == {q \in Requests : Stuck(q) /\ HoldsLock(q, req[r].tid)}
        inside == {q \in InGate(req[r].tid \in Big) : Stuck(q)}
    IN  \/ req[r].pc = "locking" /\ before # {}
        \/ /\ req[r].pc \in {"locking", "entering"}
           /\ Cardinality(inside) >= IF req[r].tid \in Big THEN 1 ELSE DecodeSlots

\* Locks, gates and retries let every request come to an answer, but for a run
\* that failed and for ever waits for its fetches, and those who wait for the
\* lock or the gate it keeps.
RequestsAnswered ==
    \A r \in Requests : ~Waiting(r) ~> Waiting(r) \/ Stuck(r) \/ BlockedByStuck(r)

\* "Every decoded tensor is pinned against eviction while its chain is in
\* flight" (materializer.py's heading).
PinnedWhileInFlight ==
    \A r \in Requests : Running(r) => \A t \in req[r].entries : pin[t] # "none"

=============================================================================
