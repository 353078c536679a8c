------------------------------- MODULE Campaign -------------------------------
(***************************************************************************)
(* The full-hub campaign (full_hub/executor.py, build_metadata.py): one    *)
(* worker for each shard of the plan compresses its pairs and uploads the  *)
(* deltas.  Each worker appends what it has done to a log of its own; the  *)
(* campaign may be stopped at any point and started again, and the         *)
(* catalogue is built from the logs.                                       *)
(***************************************************************************)
EXTENDS Naturals, Sequences, FiniteSets, FiniteSetsExt, SequencesExt

CONSTANTS
    ShardPlan,     \* shard -> its units: a base and its targets, in order
    Dtype,         \* the dtype of each tensor
    MaxStops,      \* bound: times the campaign is stopped
    MaxErrors      \* bound: requests that fail

Workers == DOMAIN ShardPlan
Pairs(w) == UNION {{[target |-> u.targets[i], base |-> u.base] : i \in DOMAIN u.targets} :
                      u \in Range(ShardPlan[w])}
AllPairs == UNION {Pairs(w) : w \in Workers}
TensorIds == Nat \ {0}

\* The planner gives a tensor one base, and no tensor id is the sentinel.
ASSUME CampaignAssumption ==
    /\ \A w \in Workers : ShardPlan[w] \in Seq([base : TensorIds, targets : Seq(TensorIds)])
    /\ \A p, q \in AllPairs : p.target = q.target => p.base = q.base

Targets == {p.target : p \in AllPairs}
NoBase == 0

VARIABLES
    uploaded,    \* the base of the delta stored for each target, or NoBase
    log,         \* the log of each worker: records, and torn lines
    worker,      \* where each worker is: "off", "base", "target", "put" or "done"
    stops,       \* times the campaign was stopped
    errors,      \* requests that failed
    clean        \* no request has failed since the campaign was last started

campaign == <<uploaded, log, worker, stops, errors, clean>>

Off == [pc |-> "off", unit |-> 0, todo |-> {}, done |-> {}]
Torn == [tid |-> 0, base |-> NoBase, status |-> "torn"]
Record(p, status) == [tid |-> p.target, base |-> p.base, status |-> status]

\* What json can read: the record appended to a torn line is lost with it.
Readable(l) == {l[i] : i \in {i \in DOMAIN l :
                    l[i] # Torn /\ (i = 1 \/ l[i - 1] # Torn)}}

CampaignInit ==
    /\ uploaded = [t \in Targets |-> NoBase]
    /\ log = [w \in Workers |-> <<>>]
    /\ worker = [w \in Workers |-> Off]
    /\ stops = 0 /\ errors = 0 /\ clean = TRUE

\* worker: read the log back, keyed by target, and go to the first unit.
StartWorker(w) ==
    /\ worker[w].pc = "off"
    /\ worker' = [worker EXCEPT ![w] = [pc |-> "base", unit |-> 1, todo |-> {},
                                        done |-> {r.tid : r \in Readable(log[w])}]]
    /\ UNCHANGED <<uploaded, log, stops, errors, clean>>

Unit(w) == ShardPlan[w][worker[w].unit]
\* The places of the targets that are left, and the pair at a place.
Todo(w) == {i \in DOMAIN Unit(w).targets : Unit(w).targets[i] \notin worker[w].done}
PairAt(w, i) == [target |-> Unit(w).targets[i], base |-> Unit(w).base]
Pair(w) == PairAt(w, Min(worker[w].todo))

NextUnit(w) == [worker[w] EXCEPT !.pc = "base", !.unit = @ + 1, !.todo = {}]
NextTarget(w) ==
    LET left == worker[w].todo \ {Min(worker[w].todo)}
    IN IF left = {} THEN NextUnit(w) ELSE [worker[w] EXCEPT !.pc = "target", !.todo = left]

AtUnit(w) == worker[w].pc = "base" /\ worker[w].unit <= Len(ShardPlan[w])

\* Nothing left of the unit, or its base is fetched.
FetchBase(w) ==
    /\ AtUnit(w)
    /\ worker' = [worker EXCEPT ![w] =
            IF Todo(w) = {} THEN NextUnit(w)
            ELSE [@ EXCEPT !.pc = "target", !.todo = Todo(w)]]
    /\ UNCHANGED <<uploaded, log, stops, errors, clean>>

Fails == errors < MaxErrors /\ errors' = errors + 1 /\ clean' = FALSE

\* Mutant of BaseError: the failures go to the log that is read back.
BaseErrorLogged(w) ==
    /\ AtUnit(w) /\ Todo(w) # {}
    /\ Fails
    /\ log' = [log EXCEPT ![w] = Append(@, Record(PairAt(w, Min(Todo(w))), "failed"))]
    /\ worker' = [worker EXCEPT ![w] = NextUnit(w)]
    /\ UNCHANGED <<uploaded, stops>>

\* The base cannot be fetched: the whole unit goes to the error file.
BaseError(w) ==
    /\ AtUnit(w) /\ Todo(w) # {}
    /\ Fails
    /\ worker' = [worker EXCEPT ![w] = NextUnit(w)]
    /\ UNCHANGED <<uploaded, log, stops>>

\* A pair of two dtypes is logged as skipped.
SkipDtype(w) ==
    /\ worker[w].pc = "target"
    /\ Dtype[Pair(w).target] # Dtype[Pair(w).base]
    /\ log' = [log EXCEPT ![w] = Append(@, Record(Pair(w), "skipped"))]
    /\ worker' = [worker EXCEPT ![w] = NextTarget(w)]
    /\ UNCHANGED <<uploaded, stops, errors, clean>>

\* Fetched, compressed, verified against the content hash, and uploaded.
Put(w) ==
    /\ worker[w].pc = "target"
    /\ Dtype[Pair(w).target] = Dtype[Pair(w).base]
    /\ uploaded' = [uploaded EXCEPT ![Pair(w).target] = Pair(w).base]
    /\ worker' = [worker EXCEPT ![w].pc = "put"]
    /\ UNCHANGED <<log, stops, errors, clean>>

\* Mutant of TargetError: the handler does not leave the iteration.
TargetErrorLogged(w) ==
    /\ worker[w].pc = "target"
    /\ Fails
    /\ log' = [log EXCEPT ![w] = Append(@, Record(Pair(w), "ok"))]
    /\ worker' = [worker EXCEPT ![w] = NextTarget(w)]
    /\ UNCHANGED <<uploaded, stops>>

\* The target cannot be fetched, compressed or uploaded: on to the next one.
TargetError(w) ==
    /\ worker[w].pc = "target"
    /\ Fails
    /\ worker' = [worker EXCEPT ![w] = NextTarget(w)]
    /\ UNCHANGED <<uploaded, log, stops>>

LogOk(w) ==
    /\ worker[w].pc = "put"
    /\ log' = [log EXCEPT ![w] = Append(@, Record(Pair(w), "ok"))]
    /\ worker' = [worker EXCEPT ![w] = NextTarget(w)]
    /\ UNCHANGED <<uploaded, stops, errors, clean>>

WorkerExits(w) ==
    /\ worker[w].pc = "base" /\ worker[w].unit > Len(ShardPlan[w])
    /\ worker' = [worker EXCEPT ![w].pc = "done"]
    /\ UNCHANGED <<uploaded, log, stops, errors, clean>>

\* A record is the next thing the worker writes.
Writing(w) ==
    \/ worker[w].pc = "put"
    \/ worker[w].pc = "target" /\ Dtype[Pair(w).target] # Dtype[Pair(w).base]

\* The campaign is stopped, or has ended and is run again; a record being
\* written may be left incomplete.
Stop(torn) ==
    /\ stops < MaxStops
    /\ \E w \in Workers : worker[w].pc # "off"
    /\ torn \subseteq {w \in Workers : Writing(w)}
    /\ log' = [w \in Workers |-> IF w \in torn THEN Append(log[w], Torn) ELSE log[w]]
    /\ worker' = [w \in Workers |-> Off]
    /\ stops' = stops + 1
    /\ clean' = TRUE
    /\ UNCHANGED <<uploaded, errors>>

Work(w) ==
    \/ StartWorker(w) \/ FetchBase(w) \/ BaseError(w) \/ SkipDtype(w)
    \/ Put(w) \/ TargetError(w) \/ LogOk(w) \/ WorkerExits(w)

CampaignNext ==
    \/ \E w \in Workers : Work(w)
    \/ \E torn \in SUBSET Workers : Stop(torn)

CampaignSpec == CampaignInit /\ [][CampaignNext]_campaign

-----------------------------------------------------------------------------
(* build_metadata: any line that does not parse ends it. *)

Builds == \A w \in Workers : Torn \notin Range(log[w])

\* The delta rows: the last record of a target, in the order of the logs.
DeltaRows ==
    [t \in {r.tid : r \in {r \in UNION {Range(log[w]) : w \in Workers} : r.status = "ok"}} |->
        (CHOOSE r \in UNION {Range(log[w]) : w \in Workers} :
            r.tid = t /\ r.status = "ok").base]

-----------------------------------------------------------------------------
\* A record read back stands for an upload: whatever stop or error came in
\* between, a target is left out of a later run only when its delta is stored
\* against the base the log names, and the rows build_metadata would write
\* name the base in the header of the stored delta (executor.py 86-93, 172-183;
\* build_metadata.py 33-41, 60-62).
LoggedIsUploaded ==
    /\ \A w \in Workers : \A r \in Readable(log[w]) :
          r.status = "ok" => uploaded[r.tid] = r.base
    /\ Builds => \A t \in DOMAIN DeltaRows : uploaded[t] = DeltaRows[t]

\* A run in which no request failed leaves no pair behind, however the runs
\* before it were stopped: each is uploaded, or skipped for its dtypes
\* (executor.py 111-199).
CleanRunDelivers ==
    (clean /\ \A w \in Workers : worker[w].pc = "done") =>
        \A p \in AllPairs :
            Dtype[p.target] = Dtype[p.base] => uploaded[p.target] = p.base
=============================================================================
