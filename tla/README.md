# A verification development for TensorDex

TensorDex stores the weights of a model hub tensor by tensor.  A tensor is
identified by a hash of its bytes, equal tensors are stored once, and a tensor
that resembles another is rewritten as a delta against it.  The modules here
model how the hub keeps its promise while it does so: *a model that was
ingested successfully can be rebuilt until it is removed*, whatever commands
run, fail or are interrupted meanwhile; what a pull from another hub adds to it;
how the serving tier rebuilds tensors out of deltas, caches and evicts them; and
the algorithms beside them - codecs, sketches, planners, reads, solvers.

Paths below are relative to the repository: `engine.py` is
`src/tensordex/core/engine.py`, `store.rs` is `src/rust/metadata/store.rs`, and
so on.

## Inventory

| part | state it keeps | operations | interacts with |
| --- | --- | --- | --- |
| Metadata store (`store.rs`, `schema.rs`) | SQLite tables `tensors`, `model_mappings`, `model_meta`, `tensor_deltas`; WAL, foreign keys with cascades | `init_model`, `ingest_batch`, `commit_model`, `fail_model`, `delete_model`, `gc_orphans`, `set_tensor_delta`, `clear_tensor_delta`, `update_tensor_storage`, `backfill_deltas` | called by all commands, from any number of processes |
| Blob files (`blob_writer.rs`, `codec.py`, `storage.py`) | one file per tensor id: raw, or a delta whose header names its base | create and fill in place, replace atomically, unlink, read | shared by all processes of a hub |
| Ingest (`pipeline.rs`, `hf_io.py`) | the files of a checkpoint, ids found new | hash, dedup query, parallel blob writes, one batch, commit or fail | store, blobs |
| Engine (`engine.py`) | an arena of fingerprints | `rm`, `gc`, `compress_pair`, `get_tensor`, `pull`, `backfill_deltas_from_blobs`; planners `plan_attach`, `auto_compress*`, `compress_bundle`; export, load and warming of fingerprints | store, blobs, planners |
| Remote pull (`client/remote.py`, `server/app.py`, `transfer.rs`) | a server hub and a client hub; partial downloads | manifest, range requests, download, registration in four transactions | two stores and two blob directories, over HTTP |
| Serving cache (`server/tensordex_serving`: `cache.py`, `materializer.py`, `evictor.py`) | decoded blobs, pins as files, per-id locks, one lock for big jobs | materialise, warm, pin, evict | several worker processes over one directory |
| Closure pipeline (`pipeline.py`, `manifest.py`, `metadata_server.py`) | a byte budget, results waiting for their turn, decoded bases with use counts | fetch in parallel, decode in depth-first order, release | metadata server, blob store |
| Planners (`planner.rs`, `flexsplit.py`, `execute.rs`, `plan.rs`) | none | choose (target, base) pairs and groups; run batches | engine |
| Codec kernels (`kernels/`, `utils/`) | none | reversible transforms and entropy coding | engine, serving |
| Fingerprints (`fingerprint.rs`, `sketch.rs`) | sketches per tensor, an archive beside the rows | similarity only; they choose bases and decide nothing about correctness | planners |
| Resolvers (`rust/resolvers`) | none | find a tensor's entry in the files or objects of a hub, in batches of parallel loads | codecs, batch executor |
| Full-hub campaign (`eval/scripts/full_hub`) | a log per worker, uploaded objects, a catalogue built from the logs | plan in chunks, pack into shards, compress and upload, resume, replan | planners, object store |
| Cache simulator (`eval/scripts/caching/fig1_sim.py`) | a simulated cache and its heap | replay pulls under `lru`, `gdsf`, `basebias`, `recon` | none |
| Download clients (`eval/src/adapters`: `tensordex.py`, `tensordex_srv.py`) | shards being written, a byte budget, decoded bases kept from one pull to the next | resolve, fetch ahead, decode in order, write | object store, serving cache |
| Facility solvers (`ae/bench`) | none | choose bases as a facility location problem: greedy with local search, primal-dual, integer program | none |

What is hard here:

* **Two stores, no common transaction.**  Rows and edges are in SQLite, bytes in
  files.  Each command writes both, in an order chosen so that stopping between
  any two writes leaves a hub that still works.
* **No lock between processes.**  The repository describes the writer as offline
  and single (`eval/SERVING_IMPLEMENTATION_PLAN.md:160`), and nothing enforces it.
* **Facts used later than they were read.**  The dedup query, the chain walk
  and the rows gc deleted are acted upon several steps afterwards.
* **Protection by a graph that is stored twice.**  Decoding follows blob headers;
  gc follows `tensor_deltas`.  They must agree at every moment gc may look.
* **Downloads that stop half way.**  A pull replaces blobs before the catalogue
  knows of them, from a hub that rewrites its own blobs meanwhile.
* **Pins that are files and not counts**, and an evictor, in another process, that
  works from an old list of them.
* **One budget, consumed in order.**  Fetches run in any order, decoding in one; what
  waits for the budget waits for what comes before it.
* **Parallel kernels on uninitialised buffers.**  Every byte must be written by some
  thread, for every length, width and number of threads.

What makes each part correct: *catalogue and blobs* - every tensor of a ready
model decodes, no reference dangles, no blob still needed is unlinked or
truncated; *ready models* - fixed until removed or ingested anew; *remote pull* -
what the client has registered decodes, whatever the server does meanwhile;
*serving* - no file vanishes between the decision to read it and the reading, and
every admitted request ends; *planners* - a plan has no cycles and the depth it
claims; *codec* - decoding inverts encoding for every length and width.

## Modules

| module | what it is |
| --- | --- |
| `TensorHub` | the hub: catalogue, blobs, and the processes that ingest, remove, collect and compress |
| `PublishedModels` | the abstract specification: a shelf of published models and the set of readable tensors |
| `HubPowerLoss` | `TensorHub` on a machine that loses power |
| `RemotePull` | extends `TensorHub`: pulls from a remote hub that compresses meanwhile |
| `Closures` | manifests, plans and rebuilding order of the serving tier, as operators |
| `Rebuild` | the abstract specification of a rebuild: each wanted tensor once, after its base |
| `ClosurePipeline` | the fetch/decode engine: a thread pool, a byte budget, one decoding thread |
| `ServingCache` | requests, warm jobs and the eviction daemon over one cache directory |
| `Codecs` | the reversible kernels, the split of their work among threads, their framing |
| `Sketches` | sketches, their store, and the engine's arena and archive of fingerprints |
| `Planners` | attach planner and its chunked twin, FlexSplit, the drivers that run `compress_pair` |
| `Transfers` | shards and batches, and the byte ranges of the blob endpoint |
| `Resolvers` | the choice of file and entry, bulk loads, XOR kernels, dictionary samples |
| `Reads` | `get_tensor` on files and objects, `pull` shard by shard |
| `Adoption` | the replanning of a campaign from an earlier plan, and its accounting |
| `Campaign` | workers with logs, stops and restarts, and the catalogue built from the logs |
| `CachePolicies` | the cache simulator with its four policies |
| `Downloads` | the clients that pull a whole model, from the object store or from the serving tier |
| `GreedyFacility`, `FacilitySolvers` | lazy greedy with local search; primal-dual, integer program, one-split heuristic |
| `Offline` | one task of the eleven modules above, with its input; their properties |
| `MCTensorHub`, `MCHubPowerLoss`, `MCRemotePull`, `MCClosurePipeline`, `MCServingCache`, `MCOffline` | instances for TLC |
| `TensorHubProofs`, `RemotePullProofs` | theorems about the hub, and about pulls into it |
| `ClosuresProofs`, `ClosurePipelineProofs` | lemmas about plans, chains, folds and sums; theorems about the pipeline |
| `ServingCacheProofs` | theorems about pins, eviction and retries |
| `EvaluationProofs` | theorems about resumed campaigns, the cache simulator and the local search |
| `DownloadsProofs` | the theorem about whole-model downloads |
| `OperatorProofs` | theorems about the kernels, the arena, batches, ranges and adopted plans |

### TensorHub

The variables `tensors`, `mappings`, `status` and `deltas` are the four SQL tables;
`blob` gives the form of each file (absent, partial, raw, delta) and the base its
header names; `proc` is the local state of each process - the variables of the Python
or Rust function it is in.  Each SQL transaction is one action, each
file operation is one, and a command is a chain of them linked by `pc`:

| command | actions | code |
| --- | --- | --- |
| ingest | `IngestInit`, `IngestDedup`, `IngestCreate`/`IngestFill` per blob in any order, `IngestBatch`, `IngestCommit`; `IngestFail` from any of them | `_run_ingest`, `pipeline.rs`, `write_blob`, `ingest_batch`, `commit_model`, `fail_model` |
| rm | `Rm` | `delete_model` |
| gc | `GcOrphans`, then `GcUnlink` or `GcUnlinkError` per blob | `gc_orphans`, `delete_tensor` |
| compress | `CompressPlan`, `CompressEdge`, `CompressReplace`, `CompressReturn`; `CompressFail` | `compress_pair`, `set_tensor_delta`, `save_compressed`, `clear_tensor_delta` |
| any | `Crash` between any two steps | a killed process, or an exception that leaves the command |

`ChainIn` is the set of files a walk along base headers visits, written as the
least set closed under "base of"; `DecodableIn` says that the walk ends at a raw
file.  In this form cycles, missing files and partial files all make a
tensor undecodable, and no recursion is needed, so the same definition
serves TLC and the proofs.

The constant `Runs` says which commands each process runs, and so which commands may
interleave.  `Serialised` names the discipline under which the hub is correct:
a process that collects garbage has the hub to itself, and at most one process
ingests and at most one compresses; an ingest and a compression may overlap at every
step.  A single writer (`OneWriter`), which the repository assumes, satisfies
it.  `LateFailures` says whether `save_compressed` may raise after its `os.replace`.

Abstractions: sizes, URIs, fingerprints, shapes and the retry of old paths are left
out; a tensor's bytes are its id.  The hop limit 64 is `MaxHops`; since the
walk visits each file of an acyclic chain once, refusing after the 64th hop is
`Cardinality(Chain(b)) <= MaxHops + 1`.  Checks, chain walk, decoding and encoding of
`compress_pair` are one step (`CompressPlan`), and the edge that is written
next is a separate one.  Target and base come from the catalogue, as with all
callers (`cli.py`, the planners).  A download that
fails and a transaction that raises are `IngestFail`.  `IngestBatch` has the
foreign key of `model_mappings` as a guard: a mapping to a row deleted after the
dedup query makes the transaction fail.

### PublishedModels

`shelf` is a function from the published models to their contents; `readable` the
tensors that can be read.  A step publishes a model all of whose tensors are
readable, withdraws one, or changes what is readable while sparing what is on
the shelf.  `TensorHub!Promise` maps the ready models and the decodable catalogued
tensors to them, and `KeepsPromise` is the refinement.  It does not mention
rows, edges, files or processes: it is what a user of `pull` relies on.

### HubPowerLoss

Adds `durable`, the catalogue as of the last commit that reached the disk.
`Writeback` brings it up to date at any moment, as a checkpoint or the system does;
`PowerLoss` rolls the catalogue back to it.  Blobs are kept: both writers sync
the file and its directory.  An unlink is taken to be durable at once.

### RemotePull

The local hub is `TensorHub` itself, its actions in `LocalCommand`.  The remote hub
is reduced to what a client can tell: its edges (`edges`), its files (`file`) and the
tensor whose edge is written and whose blob is not yet (`pending`); `RemoteEdge`,
`RemoteReplace` and `RemoteStop` are its `compress_pair`.  `pull` is the local state of
`pull_remote`:

| action | code |
| --- | --- |
| `PullAsk`, `PullSize` | `manifest_blobs` and the file sizes of `app.py`: the catalogue first, then one `stat` per blob |
| `PullCheck`, `IsCached` | the blobs whose size or header differs from the manifest (`remote.py`) |
| `PullDownload`, `PullDownloadFailed` | a download to a `.part` file, its length check, `os.replace`; in any order, as the thread pool ends them |
| `RegisterInit`, `RegisterBatch`, `RegisterEdges`, `RegisterCommit` | the four transactions of `_register_blobs_locally` |
| `PullStop` | an exception or a kill: nothing is undone |
| `Backfill` | `backfill_deltas_from_blobs` between two pulls |

The length of a blob is abstracted to its form: a delta is shorter than the raw
blob.  Two deltas of one tensor against different bases have the same form and are told
apart by the header only.  A pull and the other local commands do not overlap, which is
the repository's own assumption.  The remote hub collects no garbage.

### Closures, Rebuild, ClosurePipeline

`Closures` holds one round of the loops of `build_manifest` and `plan` (`manifest.py`) and
`dfs_order` (`pipeline.py`), beside reference definitions (`ChainOf`, `NeededFor`) that know of
no loop: least closed sets, written without recursion.
Tensor ids are positive numbers, since the code sorts them; 0 is "no base".

`ClosurePipeline` is a request: first its planning, a step for each round - the frontier of the
manifest, the walk down from each wanted tensor, the stack of the depth-first order -, for any
bases, cycles included, which the manifest refuses (`refused`); then
`ClosurePipeline.run`: `Begin` submits all fetches; `Start`, `Reserve`
and `Get` are the thread pool, one action each for taking a task, passing the
budget's condition and receiving the object; `Advance`, `Decode`, `Surface` are the
main thread's turn for one entry (`head` moves; base found, blob decoded, reservation
released; `on_tensor`, then the reference counts); `FetchFailed`, `BaseUnavailable` and
`SinkFailed` are its exceptions; `Join` is the end of the `with` block, which waits for every task.
`ram` and `disk` are the `BaseStore`.  A failed fetch keeps what it reserved, as in the code.

`Rebuild` says what a caller relies on; `Rebuilds` is the refinement.

### ServingCache

One action per lock, pin, look and unlink of `materializer.py`, `cache.py` and
`evictor.py`.  `cache` is the directory in the order of its access times, `young` the
entries within the evictor's minimal age, `pin` the pin files.  A run of the pipeline is one
`Decode` step per entry; `todo` is the set of those still to decode, and any of its roots may be
next, which includes the depth-first order: that each comes after its base is what
`ClosurePipeline` shows.  An eviction pass (`listed`, `left`) visits what it listed in the order
of its policy: `Victim` is the first of what is left by `Before`.  Tensors have sizes, blobs
sizes of their own, and the watermarks are bytes.  Under `dag_value` an entry is worth what
rebuilding it and its listed dependents would cost (`Saved`: a blob's bytes and a tenth of the
decoded ones), per byte of its own; scores are compared by products, and the term for recency
(1e-12 per second of access time) is taken to break ties only.
A run that fails (`Fail`) leaves through the exit of the pool, which waits for its fetches: it is
`closing` when they fit the budget, or `stuck` for ever when they do not (`Endings`;
`closure_pipeline_failure` shows the same in the pipeline itself), and until then keeps its tensor's
lock, its place in the gate and its pins.  The plan of a warm job and its pins are one step (`Warm`).  `Age` and `PinsStale` are
the passing of the minimal age and of the hour after which a pin is ignored.  `Crash` kills the
materializer and leaves its files; the daemon, another process, goes on.

Three variables are ghosts, for the properties only: `shared` (tensors of two runs that
overlap), `late` (runs that began after the pass had read the pins) and `losses` (evictions
of what a request may rely on, and its failed fetches).

### Offline and its modules

What is done beside the transactions takes an input and gives an answer.  `Offline`
chooses a task and an input at the start; an action computes the answer with the operators
of one module, and where the code undoes or repeats it (decoding, compressing the
catalogue again), a second action does.  Four tasks are machines: `Campaign`,
`CachePolicies`, `GreedyFacility`, `Downloads`.

* **Codecs.**  A byte has few bits and a buffer is a function of positions.  Outputs
  start as junk, a different one for encoder and decoder, because the kernels allocate without
  initialising: a position that no thread writes is visible.  zstd and the residual coder of
  FM-Delta are external, taken to give back what they were given.
* **Sketches.**  Hash functions are parameters.  The arena is the sequence of
  calls on a hub: rows ingested here or by another process, export, restart, hydration,
  warming, lookup.
* **Planners.**  A fingerprint is a number on a line; a ratio a number looked up by
  distance.  The drivers run `compress_pair`'s outcome on a hub with deltas in it already.
* **Resolvers, Reads.**  An entry of a file has a shape, a dtype and data; offsets are
  left out.  In `Reads`, a tensor is the number of its content, and a delta decoded against any
  other value than its base is garbage.  Memory that views share is left out; the parallel
  slice loads write disjoint ranges, so their order does not matter.  A read is a
  single step.
* **Campaign.**  Uploads, log lines and their order are the code's; a stop may leave a
  torn line.  `todo` is the set of places in the unit, taken in order.  That the plan gives a tensor one base
  (`CampaignAssumption`) is what the planner does: a plan is a map from targets, and
  `PlansServeOnce` and `CutsLoseNothing` check that planning and packing keep it so.  `Builds` is the condition under which `build_metadata.py` reads the logs to the end.
* **Downloads.**  A pool fetches ahead within a budget (`Reserve`, `Receive`, `Attempt`) and the
  main thread takes the blobs in order (`TakeNext`, then `DecodeBlob` or `TakeBody`,
  `HashMismatch` or `DeliverTensor`).  The client of the store decodes, gives up at the first
  error and releases a blob's bytes once decoded; that of the server receives whole tensors,
  tries three times and releases them once written.  A job gives the catalogue's edges
  and, apart from them, the bases the objects' headers name, so that the two may
  disagree.  Shards are functions from positions to bytes.  The base cache outlives a pull.
* **CachePolicies, GreedyFacility, FacilitySolvers.**  Floating-point numbers are
  integers or thousandths; `Big` stands for infinity.

## Runs

| run | instance | result |
| --- | --- | --- |
| `hub_serial` | one process, 3 tensors, 2 models of 2 parameters, hop limit 1 | all properties hold |
| `hub_ingest_compress` | one process ingests beside one that compresses, 3 tensors, 2 models of 1 parameter, hop limit 0 | all properties hold |
| `hub_late_failure` | one process, `LateFailures`, 2 tensors | `RetractedEdgeLeavesRaw` is violated |
| `hub_ingest_gc` | one process ingests beside one that collects, 2 tensors | `UnlinkedBlobsUnreferenced` is violated |
| `hub_power_loss` | one process, power losses, 2 tensors | `EdgeDurableBeforeDelta` is violated |
| `remote_pull` | 3 tensors, 2 models, one offered, one remote delta at most; gc, compression and backfill locally | all properties hold |
| `remote_pull_failure` | the same | `EdgesMirrored` is violated |
| `closure_pipeline` | every forest of 3 tensors, every model and every cache content on it; budget 2 with one blob of 3 bytes, one decoded base in RAM, 2 threads, faults | all properties hold |
| `closure_pipeline_failure` | the same with an empty cache | `RunComesBack` is violated |
| `serving_cache` | 2 threads with a request or a warm job each, two bases with a delta each, large and small, of which they want some in common, one small slot, failing fetches, watermarks of 6 and 2 bytes, 2 passes of the evictor, `dag_value` | all properties hold |
| `serving_pins` | the same without an evictor and failing fetches | `PinnedWhileInFlight` is violated |
| `offline` | each task over all inputs of `MCOffline` | all properties hold |

Properties of the hub:

* `ReadyModelsDecodable` - every tensor of a ready model has a row and decodes (in
  `hub_ingest_compress` it is part of `KeepsPromise`).
* `HeadersHaveEdges` - the base a catalogued delta is decoded against is catalogued
  and is the one its edge protects.
* `NoDanglingReferences` - no mapping and no edge survives its row.
* `OnlyUnneededBlobsVanish` - no step unlinks or truncates a file that a catalogued
  tensor is decoded from.
* `ReadyModelsFrozen` - a ready model keeps its mappings until removed or ingested anew.
* `ChecksStillHold` - what a command found out still holds when it acts on it.
* `KeepsPromise` - the hub implements `PublishedModels`.

Bounds of the hub's runs.  Three tensors are a chain of two deltas over a raw base,
the smallest cycle a chain walk could miss, and a base shared by two
targets; two models are one that keeps a tensor alive while another is removed, fails
or is ingested anew; two parameters are a model that shares one tensor and loses
another.  With hop limit 0 the walk refuses every base that is itself a delta,
with 1 none of those that three tensors allow, so both outcomes occur.  The number
of steps is not bounded: the runs explore every reachable state.  Tensors
and models are symmetric sets; no property that is checked is a liveness property.

Properties of the pull:

* `PullIsWhole` - when a pull has mirrored its edges, every tensor of the closure is
  catalogued, decodes, and has the edge its header asks for, whatever pulls that stopped
  left behind; provided the remote hub rewrote no blob between the two halves of the manifest.
* `EdgesTellDamage` - while each catalogued delta has the edge its header asks for, to a
  catalogued base, and the edges close no cycle, every ready model can be read.  Whatever pulls
  that stopped, compressions, gc and backfills have damaged can therefore be told from
  the edges and headers.

Properties of the pipeline:

* `OnlyHeadExceedsBudget` - the claim of `pipeline.py`'s heading about bytes in flight.
* `KeptExactlyWhileNeeded`, `LiveSetIsOnePath` - reference counts keep exactly the bases
  still needed, and those of the run lie on one path, so memory does not grow with the closure.
* `PlanIsExact` - manifest, plan and order together hold each needed tensor once.
* `Rebuilds` - refinement of `Rebuild`.
* `RunEnds` - every run surfaces all entries or meets a failure (liveness).

Properties of the cache:

* `PinsProtect` - an entry of a run, a failed one included, is evicted only if another run shares it, its pin is
  older than an hour, or the pass read the pins before they were made: the three ways
  the design gives away.
* `ErrorsNeedEvictions` - a request fails only if, for each of its attempts, something it relied on
  was evicted or a fetch failed.
* `DagKeepsBases` - `dag_value` evicts no tensor before a delta of it that the pass has listed and
  not visited yet, unless that delta has dependents of its own or the base is the larger one.  No
  more is true: the score is per byte, so a large base with a dependent may go before a small tensor
  with none, and in a chain the middle may be worth more than its base.  (A pair has one shape, but
  `compress_pair` takes a base of a wider type, too.)
* `RequestsAnswered` - every request and every warm job comes to an answer, unless its own run is
  stuck or it waits for the lock or the gate of another that is (liveness).

Properties of `offline`: `CodecsLossless` (decoding inverts encoding for every length, width
and number of threads on either side), `SketchesAgree` (threads and the arena change no
vector), `PlansServeOnce` (depth one, nearest base, chunking changes no pair), `FlexSplitPays`,
`BatchLeavesTrees` (batches and bundles close no cycle; a second batch finds nothing to do), `CutsLoseNothing`,
`ReadsAreExact` (what is read is the tensor asked for), `ReplanDepthOne`,
`SolversServeEveryTensor` (the primal-dual method serves every tensor from a base it reaches and,
if every tensor may be a base, for no more than storing all raw; it beats the integer program
only by a base that the program does not allow; the split leaves no tensor out of reach), `RefinedPlansPay` and `RefinementDescends` (the local search's
estimates are exact and it ends), `CachesFitTheirBudget` (and nothing resident is lost to
eviction), `LoggedIsUploaded` and `CleanRunDelivers` (a stopped campaign resumes without losing
or skipping a pair), `DownloadsDeliver` (a pull that reports success has filled every parameter's
range of the shards with its bytes, fails only after a fault or on a catalogue that disagrees with the
objects, and buffers no more than the budget beyond the head of the line).

Bounds of these runs.  Three tensors are a chain of two deltas and a star of two, so
a base is shared, is an intermediate, and is outside the run.  In `closure_pipeline` one
blob exceeds the budget alone and two others fill it together, so waiting at the head and
behind it both occur; with two threads and three entries, tasks queue.  In
`serving_cache` the threads meet at the lock of tensor 4, at the lock of the big tensors (1 and 2, of
4 bytes each) and at the slot of the small ones (3 and 4, of 1 byte), and a run that is stuck
blocks each of the three; the warm job decodes what r1 wants without a lock.  Blobs of 4
and 3 bytes against 2 in flight make a run stick, as do those of the warm job against its 4.  A pass drops at
least 4 bytes, one large tensor or more, and spares others; two passes let a tensor be evicted, rebuilt and evicted again, one for each
attempt.  In `remote_pull` one remote delta is enough for a closure of two blobs, a raw
blob that becomes a delta under a pull, and, with the local compression, a cycle of two
hubs; pulls are not counted.  The inputs of `offline` contain lengths below, at and above
each threshold (thread count, lane, sub-chunk, vector width), files that are absent, empty
or in the older layout, plans with ties, and hubs that hold deltas of every acyclic form.
Downloads come two in a row, so that the second finds bases of the first in the cache, on a
chain and on a star; one blob exceeds the budget of 2 and one parameter opens a second
shard.

What the violated runs show, each against a sentence of the code:

* **`hub_late_failure`.**  `compress_pair` takes back the delta edge when the rewrite
  raises, since "a failed rewrite left the raw blob intact" (`engine.py:839`).
  `save_compressed` can raise after its `os.replace`: when the directory is opened
  or synced, in the final `stat`, or by an interrupt, which the `BaseException`
  handler catches too.  The edge of a delta is then gone, and a gc that finds its base
  unreferenced deletes it.
* **`hub_ingest_gc`.**  gc promises to delete blobs "that nothing references"
  (`engine.py:671`), and unlinks them after the commit that deleted their rows.  An
  ingest of the same content in between creates the row and the blob anew, and
  gc unlinks the new blob.
* **`hub_power_loss`.**  The edge "must be durable BEFORE the blob becomes a delta"
  (`engine.py:819`), but a commit under `synchronous=NORMAL` (`schema.rs:6`) is not
  durable, while the delta blob is.  A power loss can keep the delta and lose the edge.
* **`remote_pull_failure`.**  "Delta edges MUST be mirrored along with the rows"
  (`remote.py:232`).  The blobs are replaced as they arrive and the edges are recorded at the
  end: a pull that stops in between has turned a raw blob of a local model into a delta
  without an edge, and gc may delete its base.
* **`closure_pipeline_failure`.**  "The submitter blocks until decode consumes earlier blobs"
  (`pipeline.py:9`).  When the fetch at the head fails, nothing consumes any more; a
  fetch that waits for the budget (`pipeline.py:138`) waits for ever, the pool's shutdown
  waits for it, and the error the tests expect is never reported.
* **`serving_pins`.**  "Every decoded tensor is pinned against eviction while its chain is in
  flight" (`materializer.py:24`).  Two chains that share a base share its pin file, and the first
  to end removes it (`cache.py:81`).

Fairness.  None is assumed of the hub and of pulls: commands are started by users and
nothing has to happen eventually.  `ClosurePipeline` assumes weak fairness of the main thread
and of each fetcher: the operating system runs every thread, and each request of boto3
ends by its answer or its timeout.  `ServingCache` assumes it of each request's own
steps only; nobody has to ask, time may stand still, and the daemon may never wake.  A
request that waits for a lock or a gate gets it because whoever holds it ends, or is stuck for
good, not because of a stronger fairness: with the bounds of the run the steps of others are
finitely many.  With an unbounded stream of requests the code's locks, which are
not fair, would not give this.

## What is proved

**The hub** (`TensorHubProofs`), for any tensors, models, parameters, processes and hop limit:

* `TypeCorrect`, `ReferencesHold` - of every hub, whatever runs at the same time;
* `ReadyModelsStayDecodable`, `HeadersAreCovered`, `ChecksHold`, `UnneededBlobs`,
  `ReadyModelsStayFrozen`, `HubKeepsPromise` - of a hub that is `Serialised` and without
  `LateFailures`.

The two assumptions are needed: the runs `hub_ingest_gc` and `hub_late_failure` drop
one each and fail.  The only other assumption is `ConstantsAssumption`, which TLC
evaluates in every run.

The argument.  `ReadyModelsDecodable` is not inductive: a step of gc or of a compression is
harmless only because of what was true when the command began.  `HubInv` adds that
all catalogued tensors decode (`RowsDecodable`: a row no model refers to yet may
get a mapping), that the edges cover the headers (gc goes by edges), that no
reference dangles, and for each process what it has found out (`InFlight`): ids that ingest
found new have no row and, once written, a raw blob; rows gc deleted have not come
back; the target of a compression is raw and not in the chain of its base.
`Exclusion` turns `Serialised` into facts about the other processes' program
counters.  Four lemmas about chains carry the rest.  `ChainIsClosed` and `ChainStaysInside`
say that a chain is the least closed set; `ChainsInsideAgree`, that a file
outside a closed set - the catalogue - decides nothing about the inside, which is why
ingest and gc may write and unlink files without a row;
`RewriteKeepsDecodable`, that replacing a raw file by a delta against a base whose chain
avoids it keeps everything decodable, which is what the walk in `compress_pair` is for.

The action properties follow from `HubInv` step by step.  For the refinement,
`UnpublishedWhileIngested` says that no one else publishes a model that is being
ingested; then a commit is a publication, `rm` and the start of an ingest are
withdrawals, and every other step leaves the ready models as they are
(`OtherStepsKeepReady`; for gc because a referenced tensor is never an orphan).

**The pipeline** (`ClosurePipelineProofs`): `PipelineTyped`, `PlanStaysExact`, `BudgetIsKept`,
`NothingLostOrLeaked`, `KeptOnOnePath` and the refinement `PipelineRebuilds`, for any tensors, bases,
models, cache contents, sizes, budget, RAM limit and number of threads, with failures.  The
invariant `Inv` follows the phases.  `ManifestInv`, `WalkInv` and `OrderInv` say of each
planning loop what it may have missed: the manifest only what is below its frontier, the walk
only what it is about to visit, the order only what waits on the stack or hangs below
something unlisted; when a loop ends nothing is left of the exception, because the set of
missed tensors, having each its base inside itself, would hold a cycle (`NoCycle`).
`PathInv` is depth first search: whatever waits hangs from the path to the tensor listed
last, which is why the store holds one path.  `BudgetInv` ties the reserved bytes to the state of
the head of the line: only when all before it has been decoded does it pass a full budget.
`StoreInv` says that each count is the number of deltas still to come, with its own
case for bases from the caller's cache, which are counted from their first use on only.

**The serving cache** (`ServingCacheProofs`): `ServingTyped`, `PinsDoProtect`, `DagKeeps`,
`FailuresNeedEvictions`, for any tensors and bases, requests, gates, watermarks and policy.  `PinInv` is
the order of the steps in `materialize` and in the evictor: a run that was there when the
pass read the pins is in what it spares; one that came later is `late`; and a pin of a running
request is gone only if another run, which shares the entry, removed it.  `TrustInv` follows a
request through its attempts: what it found out when it looked is still so, or one more
tensor that it relied on was evicted, or one more fetch has failed, than it has used up attempts.
`DagKeeps` needs no invariant of the runs: of a delta without dependents and its base, the base
saves more than the delta in no more bytes, so it comes later in the order
(`VictimComesFirst`); that the order has a first element at all is shown from the ratios
(`FirstInOrder`).

**The pull** (`RemotePullProofs`): `PullTyped`, `PullsAreWhole`, for any closure, number of pulls
and interleaving with the server's compressions, and `DamageShowsInEdges`, for a `Serialised`
client hub.  `RemoteInv` is the discipline of `compress_pair` on the server; `PullInv` says for each
stage of the pull what the manifest has listed and what has arrived.
`ReadyModelsDecodable` alone is no invariant here, as `remote_pull_failure` shows.  `SafeInv` is what
remains of `HubInv` without its edges and headers: references do not dangle, catalogued
blobs are whole, and no command takes a row away that a model refers to.  With the edges in
order, a chain of headers is a chain of edges inside the catalogue, and without a cycle it ends
at a raw blob.

**The campaign** (`EvaluationProofs`): `LogsTellUploads` and `CleanRunsDeliver`, for any plan, workers, stops
and errors.  `CampaignInv` says what each line of a log stands for (`LogsStand`), that what a worker
leaves out is delivered, and that in a run without errors so is everything it has passed.  That
the plan gives a target one base is needed: otherwise a later upload undoes an earlier one.

**The cache simulator** (`EvaluationProofs`): `CachesFit`, for any policy of the four, traces, sizes and
budget.  `CacheInv` says that what is counted as used is the sum of the sizes of what is resident
(`Accounted`), which a step keeps although an eviction round is one fold over a heap with
stale entries in it; each round ends below the budget or with nothing left that may go.

**The local search** (`EvaluationProofs`): `RefinementPays` - the plan that the refinement
ends with costs no more than the greedy plan it began with and opens what was open before, for any
problem whose costs are infinite or below half of `Big` and whose pre-opened bases cost nothing to
open, as the code sets them (`FacilityConstants`).  `FacilityInv` says that the bases stay listed in
order, that what was pre-opened stays, and that a search which stops with moves left
has found none that pays.  The work is in the moves: the running estimates that the code absorbs into one
another give a gain exactly when the sums of costs do, closing a pre-opened base
or opening an open one never gains, and so a state without a paying move serves every item at
its cheapest open base.

**Downloads** (`DownloadsProofs`): `PullsDeliver`, for any closures, headers, shard layouts, budgets, number of
threads, faults and number of pulls.  `DownloadInv` ties the reserved bytes to the tasks
that are fetching or waiting for their turn, says of each decoded blob in the cache that it is the tensor it
stands for, and of the shards that exactly the ranges of the delivered parameters are
filled.

**The kernels** (`OperatorProofs`): `TensorXIsLossless`, `PiecesAreLossless`, `BitxIsLossless`,
`RearrangementsUndo`, `FmppIsLossless`, `ZigzagUndoes`, for every length, element size, content,
byte width, threshold and number of threads, the decoder's and the encoder's being different,
and whatever the buffers held before.  `ThreadsCover` shows that the threads' ranges cover
all elements; the rest is that positions and their images correspond
(`PlanesMerge`, `WordsUngroup`).  The entropy coders are assumed to give back what they took.
`TasksDecode` draws them together: `CodecsLossless` is an invariant of `OfflineSpec`, the
property that the run `offline` checks on small buffers, for any inputs that are buffers of the
length they are said to have (`CodecInputsFit`).

**Operators** (`OperatorProofs`), for inputs of any size: `StoreKeepsTheLast` (one call of the arena, for
any arena built by such calls), `KeptPairsDoNotChain` and `ReplanStaysDepthOne` (that v1 pairs
no tensor with itself is assumed, as its planner guarantees), `BatchKeepsItsLimits` (along any
run of plans offered to a batch), `PartIsWhatWasAsked` (when the file that is opened is the
one that was measured).  They are the inductive steps, and walks of such steps, of
what `SketchesAgree` and `CutsLoseNothing` check.  `AdoptedPlansAreFlat` goes all the way: `ReplanDepthOne` is
an invariant of `OfflineSpec`, for any plans and sizes (`AdoptInputsFit`): no base is a target, and
targets as well as bases exist, since the completion walks the tensors that do (`replan_adopt.py:106`).

**Batches** (`OperatorProofs`): `BatchesLeaveTrees` - `BatchLeavesTrees` is an invariant of `OfflineSpec`, for
any catalogue, deltas that the hub holds already, models, hop limit and either planner
(`BatchInputsFit`: the deltas are a forest on the catalogue, what is hydrated is catalogued).  A
forest is a hub in which some ranking puts every base below its targets.  One more delta keeps it
(`OneMoreDelta`) provided that the base does not decode from the target, and when the walk of
`compress_pair` finds nothing all tensors it passed form a closed set without the target
(`WalkedClosed`): the ranking is shifted for those outside.  For the second batch, plans depend on rows and models
only, not on deltas; every pair of the plan was tried once; and a pair that was refused, or
carried out, is refused again however the forest has grown since (`StaysRefused`), walks only
getting longer.  That FlexSplit's recursion has a plan at all is proved by iterating its rounds
until the members run out (`SplitExists`).

**FlexSplit** (`OperatorProofs`): `SplitsPay` - `FlexSplitPays` is an invariant of `OfflineSpec`, for series of
any length, any ratios within `0 .. Full` and any threshold (`SeriesInputsFit`: every tensor has a
fingerprint).  A star split into parts costs no more than before, whatever is opened beside it (`NoDearer`):
a part that is left whole pays at most its ratios against its base; opening `c` pays
`Full` for it and moves the movers, and what they save is more than that less what `c` cost as a delta
(`BestGains`); the parts are split in their turn (`OpenedPays`, by induction on their size: `SplitPays`).
The reassignment to the nearest base only lowers prices, which is why the lemma is stated for all prices
no higher than the ratio against each open base.

Each of the inductive invariants was checked by TLC on the instance of its component before it
was proved.  The assumptions on constants are those the modules state (`ASSUME`), which TLC
evaluates on the instances.

How folds are reasoned about.  The code's loops are folds here, and a fold is a recursive
function that the library defines by `CHOOSE`.  `ClosuresProofs` shows that such a function exists
(`FoldExists`), and that a fold is the last state of a run of its steps (`FoldIsRun`), so a
loop is proved about as a machine is: by an invariant of its steps.  Each loop needs these lemmas
for its own step, since a lemma with an operator as a parameter cannot be used.

Only model-checked:

* the violations, and liveness under fairness (`RunEnds`, `RequestsAnswered`, `RunComesBack`;
  and `ENABLED` anywhere), which the prover cannot do;
* `RefinementDescends`: it compares sums of costs with `Big`, and would need their number to be
  small against it;
* `SketchesAgree`, `PlansServeOnce`, `CutsLoseNothing`, `ReadsAreExact`,
  `SolversServeEveryTensor`: each goes through many folds of several modules, some with sorting and
  selecting on the way (`SortSeq`, `SelectSeq`), of which the prover knows nothing.

## Not modelled

* Sizes, URIs and list queries of the catalogue; they decide nothing above.
* Two compressors at once and readers that overlap with a rewrite (`load_blob` opens a file
  twice): no document promises that they may overlap, and the single writer is assumed
  throughout.
* The hub's readers of objects in S3 that are deltas: `get_tensor` gives back their payload
  undecoded, and only `verify` tells (`ReadsAreExact` says so by its condition).
* Pairs of two dtypes outside the campaign: `compress_pair` and `get_tensor` convert a base of
  another dtype (`engine.py:800`, 392), while the serving pipeline decodes against its bytes
  as they are (`pipeline.py:229`); in the models of the serving tier a base fits its deltas.
* Metadata server: the manifest files it keeps and its HTTP layer; client disconnects
  and metrics of the materializer; uploads.
* Memory: `pull` keeps every decoded tensor in one cache, although its docstring
  bounds the peak by the largest shard (`engine.py:1418`).
* Entropy coders (libraries), the command line (arguments and printing), charts, traces,
  the evaluation's clients for other systems (raw, ZipNN), its prototype `cache_server.py`, and
  examples.

Where the documents and the code disagree without a run.

* `evictor.py:17` says that a base with resident children "scores far above a leaf nobody
  derives from".  The score is per byte of the base: in the instance of `serving_cache`, tensor 1,
  large and with a cached delta, scores below tensor 4, small and with none, and goes first.
* `bench_facility.py:10` says of the benchmark that "it reports objective cost", and line 241 what
  that is.  The one-split heuristic reports less once it opens a second base: its gain counts the
  first base as if it became a delta of the second (lines 114-125), while it stays in the list of bases
  (line 350).  `SplitGain` does what the code does; `SolversServeEveryTensor` speaks of the reported cost
  for a single base only.
* `run_scaling.py:12` calls the primal-dual solver a "classical 3-approximation".  A client that has not
  been reached when a base opens cannot join it later while time goes on
  (`primal_dual_facility_location.py:196-220`), but waits for a base of its own.  With openings 1, 100 and
  100, 4 from either of the others to the first and 8 between them, `PrimalDual` pays 109 for
  what costs 9.  Line 10 calls the integer program optimal: it gives an item without a candidate no
  clients, and the primal-dual method does, and may be cheaper for it.

Further, `materializer.py:20` says that big
jobs "run exclusively", while a big demand run excludes other big ones only and warm jobs pass no
gate; the model follows the code (`GateFree`).  `engine.py:824` says that an edge which an
interrupted compression leaves behind "only over-protects (the blob is still raw and decodes as
raw)".  That is so for the engine, which goes by headers; `pipeline.py:208` and
`adapters/tensordex.py:436` fall back to the catalogue's base when the header names none, take the raw
blob for a delta, and refuse it by its hash.  `Downloads` models this; `ClosurePipeline` takes headers
and edges as equal.

The fault of `closure_pipeline_failure` is also in both download clients: a pull that fails
while another task waits for the budget never leaves its pool (`tensordex.py:336`,
`tensordex_srv.py:81`).  `Downloads` reaches that state, in which a pull stays `closing`; since no
sentence of the adapters speaks of it, there is no run, and for the same reason `offline` does not
check deadlock (its tasks stop when they are done, too).

## Plan

1. `PlansServeOnce` for inputs of any size; the folds of `Planners` have their lemmas in
   `OperatorProofs` already.
2. Readers that overlap with a rewrite: `get_tensor` as a process of the hub.
