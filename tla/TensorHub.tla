------------------------------ MODULE TensorHub ------------------------------
(***************************************************************************)
(* The hub: a SQLite catalogue (tensors, model_mappings, model_meta,       *)
(* tensor_deltas) beside a directory of content-addressed blobs.  A blob   *)
(* holds a tensor raw, or as a delta whose header names the base tensor    *)
(* it must be decoded against.                                             *)
(*                                                                         *)
(* Every SQL transaction is one atomic step; a command (ingest, gc,        *)
(* compress_pair) is a sequence of steps of one process, and a process may *)
(* stop between any two of them.  The catalogue and the blobs survive it.  *)
(***************************************************************************)
EXTENDS Naturals, FiniteSets

CONSTANTS
    Tensors,       \* content hashes: the identity of a tensor
    NoTensor,      \* "no tensor": an unset parameter, an absent edge
    Models,        \* model names
    NoModel,       \* "no model" in the state of an idle process
    Params,        \* parameter names
    Writers,       \* processes that run commands on the hub
    Runs,          \* the commands each process runs
    MaxHops,       \* compress_pair's bound on the chain walk (64 in the code)
    LateFailures   \* can save_compressed raise after its os.replace?

Ops == {"ingest", "gc", "compress"}

ASSUME ConstantsAssumption ==
    /\ NoTensor \notin Tensors
    /\ NoModel \notin Models
    /\ Runs \in [Writers -> SUBSET Ops]
    /\ MaxHops \in Nat
    /\ LateFailures \in BOOLEAN

VARIABLES
    tensors,    \* ids with a row in table tensors
    mappings,   \* table model_mappings: model -> parameter -> tensor
    status,     \* table model_meta: the status of each model
    deltas,     \* table tensor_deltas: the delta edge of each tensor
    blob,       \* the blob files
    proc        \* what each process is in the middle of

catalogue == <<tensors, mappings, status, deltas>>
vars == <<tensors, mappings, status, deltas, blob, proc>>

-----------------------------------------------------------------------------
(* Values *)

Slot == Tensors \union {NoTensor}
Content == [Params -> Slot]
Empty == [p \in Params |-> NoTensor]
Wanted(c) == {c[p] : p \in Params} \ {NoTensor}

Statuses == {"none", "ingesting", "ready", "failed"}

\* A file that write_blob has created but not filled is "partial".
Blob == [form : {"absent", "partial", "raw", "delta"}, base : Slot]
Absent == [form |-> "absent", base |-> NoTensor]
Partial == [form |-> "partial", base |-> NoTensor]
Raw == [form |-> "raw", base |-> NoTensor]
\* Mutant of Delta: the header omits the base id.
DeltaWithoutBase(b) == [form |-> "delta", base |-> NoTensor]
Delta(b) == [form |-> "delta", base |-> b]

Idle == [pc |-> "idle", model |-> NoModel, want |-> Empty, fresh |-> {},
         todo |-> {}, open |-> {}, target |-> NoTensor, base |-> NoTensor]

IngestPCs == {"opened", "writing", "batched"}
CompressPCs == {"planned", "edged", "replaced"}

Proc == [pc     : {"idle", "unlinking"} \union IngestPCs \union CompressPCs,
         model  : Models \union {NoModel},
         want   : Content,          \* what the checkpoint files hold
         fresh  : SUBSET Tensors,   \* ids the dedup query did not find
         todo   : SUBSET Tensors,   \* blobs still to write, or to unlink
         open   : SUBSET Tensors,   \* blobs created and not yet filled
         target : Slot,
         base   : Slot]

-----------------------------------------------------------------------------
(* Decoding *)

\* S holds, with each delta of the files B, the base its header names.
ClosedIn(B, S) == \A x \in S : B[x].form = "delta" => B[x].base \in S

\* The blobs that a walk along the base headers visits from t.
ChainIn(B, t) ==
    {x \in Tensors : \A S \in SUBSET Tensors : t \in S /\ ClosedIn(B, S) => x \in S}

\* The walk ends at a raw blob: no cycle, no missing or partial file.
DecodableIn(B, t) == \E x \in ChainIn(B, t) : B[x].form = "raw"

Chain(t) == ChainIn(blob, t)
Decodable(t) == DecodableIn(blob, t)

Referenced == UNION {Wanted(mappings[m]) : m \in Models}
\* Mutant of Bases: gc looks at the mappings only.
NoBases == {}
Bases == {deltas[t] : t \in tensors} \ {NoTensor}
\* Mutant of Orphans: gc looks at the delta graph only.
Unbased == tensors \ Bases
Orphans == tensors \ (Referenced \union Bases)

-----------------------------------------------------------------------------
Init ==
    /\ tensors = {}
    /\ mappings = [m \in Models |-> Empty]
    /\ status = [m \in Models |-> "none"]
    /\ deltas = [t \in Tensors |-> NoTensor]
    /\ blob = [t \in Tensors |-> Absent]
    /\ proc = [w \in Writers |-> Idle]

May(w, op) == op \in Runs[w] /\ proc[w].pc = "idle"

(* Ingest: init_model, dedup query, blob writes, ingest_batch, commit_model. *)

\* init_model: drops the mappings of an earlier ingest of the same name.
IngestInit(w, m) ==
    /\ May(w, "ingest")
    /\ mappings' = [mappings EXCEPT ![m] = Empty]
    /\ status' = [status EXCEPT ![m] = "ingesting"]
    /\ proc' = [proc EXCEPT ![w] = [Idle EXCEPT !.pc = "opened", !.model = m]]
    /\ UNCHANGED <<tensors, deltas, blob>>

\* Mutant of IngestDedup: every tensor of the files is written again.
IngestWithoutDedup(w, c) ==
    /\ proc[w].pc = "opened"
    /\ proc' = [proc EXCEPT ![w].pc = "writing", ![w].want = c,
                            ![w].fresh = Wanted(c), ![w].todo = Wanted(c)]
    /\ UNCHANGED <<catalogue, blob>>

\* Phases 0-2: the files are hashed and the new ids found in one query.
IngestDedup(w, c) ==
    /\ proc[w].pc = "opened"
    /\ proc' = [proc EXCEPT ![w].pc = "writing",
                            ![w].want = c,
                            ![w].fresh = Wanted(c) \ tensors,
                            ![w].todo = Wanted(c) \ tensors]
    /\ UNCHANGED <<catalogue, blob>>

\* write_blob, first half: File::create truncates whatever is at the path.
IngestCreate(w, t) ==
    /\ proc[w].pc = "writing"
    /\ t \in proc[w].todo
    /\ blob' = [blob EXCEPT ![t] = Partial]
    /\ proc' = [proc EXCEPT ![w].todo = @ \ {t}, ![w].open = @ \union {t}]
    /\ UNCHANGED catalogue

\* write_blob, second half: the bytes are written and synced.
IngestFill(w, t) ==
    /\ proc[w].pc = "writing"
    /\ t \in proc[w].open
    /\ blob' = [blob EXCEPT ![t] = Raw]
    /\ proc' = [proc EXCEPT ![w].open = @ \ {t}]
    /\ UNCHANGED catalogue

\* Mutant of IngestBatch: the rows are committed while blobs are being written.
IngestBatchEarly(w) ==
    LET p == proc[w] IN
    /\ p.pc = "writing" /\ p.todo = {}
    /\ Wanted(p.want) \subseteq tensors \union p.fresh
    /\ tensors' = tensors \union p.fresh
    /\ mappings' = [mappings EXCEPT ![p.model] = p.want]
    /\ proc' = [proc EXCEPT ![w].pc = "batched"]
    /\ UNCHANGED <<status, deltas, blob>>

\* ingest_batch: rows and mappings in one transaction.  The foreign key on
\* model_mappings refuses it when a tensor found earlier has lost its row.
IngestBatch(w) ==
    LET p == proc[w] IN
    /\ p.pc = "writing"
    /\ p.todo = {} /\ p.open = {}
    /\ Wanted(p.want) \subseteq tensors \union p.fresh
    /\ tensors' = tensors \union p.fresh
    /\ mappings' = [mappings EXCEPT ![p.model] =
                      [q \in Params |->
                         IF p.want[q] = NoTensor THEN @[q] ELSE p.want[q]]]
    /\ proc' = [proc EXCEPT ![w].pc = "batched"]
    /\ UNCHANGED <<status, deltas, blob>>

IngestCommit(w) ==
    /\ proc[w].pc = "batched"
    /\ status' = [status EXCEPT ![proc[w].model] = "ready"]
    /\ proc' = [proc EXCEPT ![w] = Idle]
    /\ UNCHANGED <<tensors, mappings, deltas, blob>>

\* Any exception of the download, the writes or a transaction: fail_model.
\* Files that were open stay as they are.
IngestFail(w) ==
    /\ proc[w].pc \in IngestPCs
    /\ status' = [status EXCEPT ![proc[w].model] = "failed"]
    /\ proc' = [proc EXCEPT ![w] = Idle]
    /\ UNCHANGED <<tensors, mappings, deltas, blob>>

-----------------------------------------------------------------------------
\* rm: one transaction; tensor rows and blobs are left to gc.
Rm(m) ==
    /\ status[m] # "none"
    /\ mappings' = [mappings EXCEPT ![m] = Empty]
    /\ status' = [status EXCEPT ![m] = "none"]
    /\ UNCHANGED <<tensors, deltas, blob, proc>>

-----------------------------------------------------------------------------
(* Garbage collection *)

\* Mutant of GcOrphans: a connection without PRAGMA foreign_keys.
GcOrphansNoCascade(w) ==
    /\ May(w, "gc")
    /\ Orphans # {}
    /\ tensors' = tensors \ Orphans
    /\ proc' = [proc EXCEPT ![w] = [Idle EXCEPT !.pc = "unlinking",
                                                !.todo = Orphans]]
    /\ UNCHANGED <<deltas, mappings, status, blob>>

\* gc_orphans: deletes rows, and by ON DELETE CASCADE what refers to them.
GcOrphans(w) ==
    /\ May(w, "gc")
    /\ Orphans # {}
    /\ tensors' = tensors \ Orphans
    /\ deltas' = [t \in Tensors |->
                    IF t \in Orphans THEN NoTensor ELSE deltas[t]]
    /\ mappings' = [m \in Models |-> [q \in Params |->
                      IF mappings[m][q] \in Orphans THEN NoTensor
                                                    ELSE mappings[m][q]]]
    /\ proc' = [proc EXCEPT ![w] = [Idle EXCEPT !.pc = "unlinking",
                                                !.todo = Orphans]]
    /\ UNCHANGED <<status, blob>>

GcStep(w, t) ==
    /\ proc[w].pc = "unlinking"
    /\ t \in proc[w].todo
    /\ proc' = [proc EXCEPT ![w] = IF proc[w].todo = {t} THEN Idle
                                   ELSE [proc[w] EXCEPT !.todo = proc[w].todo \ {t}]]
    /\ UNCHANGED catalogue

\* delete_tensor, after the commit; an exception is counted and skipped.
GcUnlink(w, t) == GcStep(w, t) /\ blob' = [blob EXCEPT ![t] = Absent]
GcUnlinkError(w, t) == GcStep(w, t) /\ UNCHANGED blob

-----------------------------------------------------------------------------
(* compress_pair *)

\* Mutant of WalkAllows: the walk does not look for the target.
WalkForgetsTarget(t, b) == Decodable(b)

\* The chain walk met neither the target nor the hop limit, and ended.
WalkAllows(t, b) ==
    /\ t \notin Chain(b)
    /\ Cardinality(Chain(b)) <= MaxHops + 1
    /\ Decodable(b)

\* Checks, decode and encode.  Callers take both ids from the catalogue.
CompressPlan(w, t, b) ==
    /\ May(w, "compress")
    /\ t \in tensors /\ b \in tensors /\ t # b
    /\ blob[t].form = "raw"
    /\ WalkAllows(t, b)
    /\ proc' = [proc EXCEPT ![w] = [Idle EXCEPT !.pc = "planned",
                                                !.target = t, !.base = b]]
    /\ UNCHANGED <<catalogue, blob>>

\* set_tensor_delta; only the target is a foreign key.
CompressEdge(w) ==
    /\ proc[w].pc = "planned"
    /\ proc[w].target \in tensors
    /\ deltas' = [deltas EXCEPT ![proc[w].target] = proc[w].base]
    /\ proc' = [proc EXCEPT ![w].pc = "edged"]
    /\ UNCHANGED <<tensors, mappings, status, blob>>

\* save_compressed up to os.replace.
CompressReplace(w) ==
    /\ proc[w].pc = "edged"
    /\ blob' = [blob EXCEPT ![proc[w].target] = Delta(proc[w].base)]
    /\ proc' = [proc EXCEPT ![w].pc = "replaced"]
    /\ UNCHANGED catalogue

\* update_tensor_storage writes size and uri, which are not modelled.
CompressReturn(w) ==
    /\ proc[w].pc = "replaced"
    /\ proc' = [proc EXCEPT ![w] = Idle]
    /\ UNCHANGED <<catalogue, blob>>

\* Mutant of RewriteRaised: the handler also covers update_tensor_storage.
RewriteOrUpdateRaised(w) == proc[w].pc \in {"edged", "replaced"}

\* save_compressed raised: before os.replace, or after it (the directory
\* sync, the stat, an interrupt) when LateFailures.
RewriteRaised(w) ==
    \/ proc[w].pc = "edged"
    \/ proc[w].pc = "replaced" /\ LateFailures

\* clear_tensor_delta, best effort.
CompressFail(w) ==
    /\ RewriteRaised(w)
    /\ deltas' \in {deltas, [deltas EXCEPT ![proc[w].target] = NoTensor]}
    /\ proc' = [proc EXCEPT ![w] = Idle]
    /\ UNCHANGED <<tensors, mappings, status, blob>>

-----------------------------------------------------------------------------
\* The process stops, or an exception leaves the command, between two steps.
Crash(w) ==
    /\ proc[w].pc # "idle"
    /\ proc' = [proc EXCEPT ![w] = Idle]
    /\ UNCHANGED <<catalogue, blob>>

Next ==
    \/ \E m \in Models : Rm(m)
    \/ \E w \in Writers :
         \/ \E m \in Models : IngestInit(w, m)
         \/ \E c \in Content : IngestDedup(w, c)
         \/ \E t \in Tensors : \/ IngestCreate(w, t)
                               \/ IngestFill(w, t)
                               \/ GcUnlink(w, t)
                               \/ GcUnlinkError(w, t)
         \/ \E t, b \in Tensors : CompressPlan(w, t, b)
         \/ IngestBatch(w)
         \/ IngestCommit(w)
         \/ IngestFail(w)
         \/ GcOrphans(w)
         \/ CompressEdge(w)
         \/ CompressReplace(w)
         \/ CompressReturn(w)
         \/ CompressFail(w)
         \/ Crash(w)

Spec == Init /\ [][Next]_vars

-----------------------------------------------------------------------------
(* Properties *)

\* Shapes of all variables.  An edge that leaves from a tensor without a row,
\* or a delta that names no base, would already be a broken hub.
TypeOK ==
    /\ tensors \subseteq Tensors
    /\ mappings \in [Models -> Content]
    /\ status \in [Models -> Statuses]
    /\ deltas \in [Tensors -> Slot]
    /\ blob \in [Tensors -> Blob]
    /\ \A t \in Tensors : blob[t].form = "delta" <=> blob[t].base # NoTensor
    /\ proc \in [Writers -> Proc]

\* Every tensor of a ready model can be decoded, whatever the hub is in the
\* middle of and wherever a process stopped: what pull promises (engine.py).
ReadyModelsDecodable ==
    \A m \in Models : status[m] = "ready" =>
        \A t \in Wanted(mappings[m]) : t \in tensors /\ Decodable(t)

\* The delta graph in SQL covers the one in the blob headers: the base a
\* catalogued delta is decoded against is the one its edge protects, and it
\* is catalogued too, so gc sees it.  compress_pair's ordering of edge and
\* rewrite and its retraction are there for this.
HeadersHaveEdges ==
    \A t \in tensors : blob[t].form = "delta" =>
        deltas[t] = blob[t].base /\ deltas[t] \in tensors

\* Rows, mappings and edges agree: no mapping and no edge survives the row it
\* refers to.  gc_orphans relies on cascades for the edges, and a mapping
\* swept away by the cascade would silently shrink a model.
NoDanglingReferences ==
    /\ Referenced \subseteq tensors
    /\ \A t \in Tensors : deltas[t] # NoTensor => t \in tensors

\* "Delete tensor rows + blobs that nothing references" (gc): a step that
\* takes a whole blob away - unlink, or the truncation of write_blob - takes
\* none that a catalogued tensor is decoded from.
OnlyUnneededBlobsVanish ==
    [][\A x \in Tensors :
          blob[x].form \in {"raw", "delta"} /\ blob'[x].form \notin {"raw", "delta"}
          => /\ x \notin Referenced
             /\ \A t \in tensors : Decodable(t) => x \notin Chain(t)]_vars

\* A ready model's parameters keep their tensors until the model is removed or
\* ingested anew; no gc, compression or other model's ingest changes them.
ReadyModelsFrozen ==
    [][\A m \in Models : status[m] = "ready" /\ status'[m] = "ready"
          => mappings'[m] = mappings[m]]_vars

\* What save_compressed's caller takes for granted when it retracts an edge:
\* "a failed rewrite left the raw blob intact" (compress_pair).
RetractedEdgeLeavesRaw ==
    [][\A t \in Tensors :
          deltas[t] # NoTensor /\ deltas'[t] = NoTensor /\ t \in tensors'
          => blob[t].form = "raw"]_vars

\* "Delete tensor rows + blobs that nothing references" (gc): no mapping points
\* at a blob when it is unlinked.
UnlinkedBlobsUnreferenced ==
    [][\A x \in Tensors :
          blob[x] # Absent /\ blob'[x] = Absent => x \notin Referenced]_vars

\* Every catalogued tensor decodes, those no model refers to included.
RowsDecodable == \A t \in tensors : Decodable(t)

\* A process is in the middle of a command it runs.
Role(w) ==
    /\ proc[w].pc \in IngestPCs => "ingest" \in Runs[w]
    /\ proc[w].pc = "unlinking" => "gc" \in Runs[w]
    /\ proc[w].pc \in CompressPCs => "compress" \in Runs[w]

\* No row has appeared for an id ingest found new, and its blob is whole
\* unless it is still to be written.
IngestSafe(w) ==
    /\ proc[w].pc = "opened" => proc[w].open = {}
    /\ proc[w].pc = "writing" =>
          /\ proc[w].fresh \cap tensors = {}
          /\ proc[w].todo \union proc[w].open \subseteq proc[w].fresh
          /\ \A x \in proc[w].fresh \ (proc[w].todo \union proc[w].open) :
                blob[x].form = "raw"

\* No row has appeared for a blob gc has still to unlink.
GcSafe(w) == proc[w].pc = "unlinking" => proc[w].todo \cap tensors = {}

\* What compress_pair checked still holds when it rewrites the blob.
CompressSafe(w) ==
    /\ proc[w].pc \in {"planned", "edged"} =>
          /\ proc[w].target \in tensors
          /\ proc[w].base \in tensors
          /\ blob[proc[w].target].form = "raw"
          /\ proc[w].target \notin Chain(proc[w].base)
    /\ proc[w].pc = "edged" => deltas[proc[w].target] = proc[w].base

InFlight(w) == Role(w) /\ IngestSafe(w) /\ GcSafe(w) /\ CompressSafe(w)

\* What a command found out in one step still holds when it acts on it in a
\* later one: ids the dedup query did not find are still new and their blobs
\* whole (ingest), deleted rows have not come back (gc), and the walked chain
\* still avoids the target, which is still raw (compress_pair).
ChecksStillHold == \A w \in Writers : InFlight(w)

\* Of any two processes, one that runs gc has the hub to itself, and there is
\* one that ingests and one that compresses at most.
Serialised ==
    \A v, w \in Writers : v # w =>
        /\ "gc" \in Runs[v] => Runs[w] = {}
        /\ Runs[v] \cap Runs[w] = {}

\* A process that ingests a model is the one that publishes it.
UnpublishedWhileIngested ==
    \A w \in Writers : proc[w].pc \in IngestPCs => status[proc[w].model] # "ready"

-----------------------------------------------------------------------------
(* The hub as its readers see it: a ready model is published, and what can  *)
(* be read is what a catalogued chain decodes to.                           *)
Shelf == [m \in {n \in Models : status[n] = "ready"} |-> mappings[m]]
Readable == {t \in tensors : Decodable(t)}

Promise == INSTANCE PublishedModels WITH shelf <- Shelf, readable <- Readable

\* TensorHub implements PublishedModels: every step of every command is, to a
\* reader, one publication, one withdrawal or a change that spares all that is
\* published.
KeepsPromise == Promise!Spec
=============================================================================
