------------------------------ MODULE Downloads ------------------------------
(***************************************************************************)
(* The clients of the evaluation that pull a whole model: from the object  *)
(* store, decoding on their own (eval/src/adapters/tensordex.py), or from  *)
(* the reconstruction server (tensordex_srv.py).  A pool fetches ahead     *)
(* within a budget, the main thread takes the blobs in order and writes    *)
(* each tensor into the preallocated shards; decoded bases may be cached   *)
(* from one pull to the next.                                              *)
(*                                                                         *)
(* A job has kind, catalogue edges (base), the bases that the headers of   *)
(* the objects name (header), params: the tensor of each parameter, and    *)
(* shared: whether it is given the cache.  A value is the tensor whose     *)
(* bytes it has, or Garbled.                                               *)
(***************************************************************************)
EXTENDS Closures, Integers

CONSTANTS
    Jobs,             \* the pulls a client may make
    Stored, Logical,  \* bytes of each object and of each tensor
    InflightBudget,   \* inflight_budget
    MaxShardBytes,    \* max_shard_bytes
    PoolWorkers,      \* max_workers
    FetchTries,       \* attempts of the server's client
    MaxDownloads      \* bound: pulls in a row

ASSUME DownloadsAssumption ==
    /\ Jobs \subseteq [kind : {"hub", "server"}, base : Bases, header : Bases,
                       params : Seq(Tids), shared : BOOLEAN]
    /\ Stored \in [Tids -> Nat \ {0}] /\ Logical \in [Tids -> Nat \ {0}]
    /\ InflightBudget \in Nat /\ MaxShardBytes \in Nat
    /\ PoolWorkers \in Nat \ {0} /\ FetchTries \in Nat \ {0} /\ MaxDownloads \in Nat

VARIABLES
    job,         \* the pull under way
    client,      \* the locals of download
    shardFiles,  \* the bytes of each shard: (shard, offset) -> byte
    baseCache    \* base_cache: decoded values that later pulls find

download == <<job, client, shardFiles, baseCache>>

Garbled == 0
Blank == "blank"
NoJob == "none"

Resting ==
    [pc |-> "resting", order |-> <<>>, fetch |-> <<>>, tries |-> <<>>, spent |-> 0, head |-> 0,
     done |-> 0, out |-> Garbled, refs |-> <<>>, held |-> {}, bytes |-> 0, faulty |-> FALSE,
     runs |-> 0]

DownloadInit ==
    /\ job = NoJob
    /\ client = Resting
    /\ shardFiles = <<>>
    /\ baseCache = <<>>

-----------------------------------------------------------------------------
(* The shards *)

\* A parameter goes behind the last one, or into a new shard if that would
\* exceed the limit.
Placed(slots, t) ==
    LET last == Last(slots)
        next == last.at + last.len
        fits == last.tid = 0 \/ next + Logical[t] <= MaxShardBytes
    IN Append(slots, [tid |-> t, shard |-> IF fits THEN last.shard ELSE last.shard + 1,
                      at |-> IF fits THEN next ELSE 0, len |-> Logical[t]])

Layout(params) ==
    Tail(FoldLeft(Placed, <<[tid |-> 0, shard |-> 1, at |-> 0, len |-> 0]>>, params))

Span(slot) == {<<slot.shard, k>> : k \in slot.at .. slot.at + slot.len - 1}
Preallocated(params) == [b \in UNION {Span(s) : s \in Range(Layout(params))} |-> Blank]
Content(t, k) == <<t, k>>

\* write: the payload goes to every parameter that has the tensor.
Written(files, params, t) ==
    [b \in DOMAIN files |->
        LET at == {s \in Range(Layout(params)) : s.tid = t /\ b \in Span(s)}
        IN IF at = {} THEN files[b] ELSE Content(t, b[2] - (CHOOSE s \in at : TRUE).at)]
Copies(params, t) == Cardinality({i \in DOMAIN params : params[i] = t})

-----------------------------------------------------------------------------
(* resolve *)

Resolved(j) == BuildManifest(Tids, j.base, Range(j.params))
FromHub(j) == j.kind = "hub"
FetchOrder(j) ==
    IF FromHub(j) THEN DfsOrder(j.base, Resolved(j).closure)
                  ELSE Sorted(Range(j.params))
Reserved(j, t) == IF FromHub(j) THEN Stored[t] ELSE Logical[t]
InBaseCache(j, t) == FromHub(j) /\ j.shared /\ t \in DOMAIN baseCache

AtRest == client.pc \in {"resting", "ok", "failed"}

\* A cycle of edges is found before anything is fetched; otherwise the shards
\* are preallocated and every object that is not cached is submitted.
StartDownload(j) ==
    LET order == FetchOrder(j)
        children(t) == Cardinality(Children(j.base, Range(order), t))
    IN  /\ AtRest /\ client.runs < MaxDownloads
        /\ job' = j
        /\ IF FromHub(j) /\ Resolved(j).error # "none"
           THEN /\ client' = [Resting EXCEPT !.pc = "failed", !.runs = client.runs + 1]
                /\ shardFiles' = <<>>
           ELSE /\ client' = [Resting EXCEPT
                      !.pc = "next", !.order = order, !.head = 1, !.runs = client.runs + 1,
                      !.fetch = [i \in DOMAIN order |->
                                   IF InBaseCache(j, order[i]) THEN "cached" ELSE "queued"],
                      !.tries = [i \in DOMAIN order |-> 0],
                      !.refs = [t \in Range(order) |-> IF FromHub(j) THEN children(t) ELSE 0]]
                /\ shardFiles' = Preallocated(j.params)
        /\ UNCHANGED baseCache

-----------------------------------------------------------------------------
(* The pool: tasks are taken in the order of submission. *)

Places == DOMAIN client.order
Bytes(i) == Reserved(job, client.order[i])
Taken(i) ==
    /\ client.fetch[i] = "queued"
    /\ Cardinality({k \in 1 .. i - 1 : client.fetch[k] \in {"queued", "getting"}}) < PoolWorkers

\* Only the head of the line may exceed the budget.
Reserve(i) ==
    /\ i \in Places /\ Taken(i)
    /\ client.spent + Bytes(i) <= InflightBudget \/ i <= client.head
    /\ client' = [client EXCEPT !.fetch[i] = "getting", !.spent = @ + Bytes(i)]
    /\ UNCHANGED <<job, shardFiles, baseCache>>

\* The object arrives, whole or with other bytes than it should have.
Receive(i, result) ==
    /\ i \in Places /\ client.fetch[i] = "getting"
    /\ client' = [client EXCEPT !.fetch[i] = result, !.faulty = @ \/ result # "got"]
    /\ UNCHANGED <<job, shardFiles, baseCache>>

\* An error: the client of the store gives up, that of the server tries again.
Attempt(i) ==
    /\ i \in Places /\ client.fetch[i] = "getting"
    /\ IF ~FromHub(job) /\ client.tries[i] + 1 < FetchTries
       THEN client' = [client EXCEPT !.tries[i] = @ + 1]
       ELSE client' = [client EXCEPT !.fetch[i] = "failed", !.faulty = TRUE]
    /\ UNCHANGED <<job, shardFiles, baseCache>>

-----------------------------------------------------------------------------
(* The main thread *)

Current == client.order[client.head]

TakeNext ==
    /\ client.pc = "next"
    /\ client' = IF client.done = Len(client.order) THEN [client EXCEPT !.pc = "closing"]
                 ELSE [client EXCEPT !.pc = "await", !.head = client.done + 1]
    /\ UNCHANGED <<job, shardFiles, baseCache>>

TakeCached ==
    /\ client.pc = "await" /\ client.fetch[client.head] = "cached"
    /\ client' = [client EXCEPT !.pc = "check", !.out = baseCache[Current]]
    /\ UNCHANGED <<job, shardFiles, baseCache>>

Raise == client' = [client EXCEPT !.pc = "closing"]

FetchRaised ==
    /\ client.pc = "await" /\ client.fetch[client.head] = "failed"
    /\ Raise
    /\ UNCHANGED <<job, shardFiles, baseCache>>

\* The header's base, or else the catalogue's.
BaseFor(t) == IF job.header[t] # 0 THEN job.header[t] ELSE job.base[t]
HasBase(t) == BaseFor(t) \in {0} \union client.held \/ InBaseCache(job, BaseFor(t))

Arrived == client.pc = "await" /\ client.fetch[client.head] \in {"got", "damaged"}

BaseMissing ==
    /\ Arrived /\ FromHub(job) /\ ~HasBase(Current)
    /\ Raise
    /\ UNCHANGED <<job, shardFiles, baseCache>>

\* A raw object that is taken for a delta decodes to other bytes.
DecodedValue(t) ==
    IF client.fetch[client.head] = "damaged" \/ BaseFor(t) # job.header[t] THEN Garbled ELSE t

\* The store's client releases what it reserved once the blob is decoded.
DecodeBlob ==
    /\ Arrived /\ FromHub(job) /\ HasBase(Current)
    /\ client' = [client EXCEPT !.pc = "check", !.out = DecodedValue(Current),
                                !.spent = @ - Bytes(client.head)]
    /\ UNCHANGED <<job, shardFiles, baseCache>>

TakeBody ==
    /\ Arrived /\ ~FromHub(job)
    /\ client' = [client EXCEPT !.pc = "check",
                    !.out = IF client.fetch[client.head] = "damaged" THEN Garbled ELSE Current]
    /\ UNCHANGED <<job, shardFiles, baseCache>>

HashMismatch ==
    /\ client.pc = "check" /\ client.out # Current
    /\ Raise
    /\ UNCHANGED <<job, shardFiles, baseCache>>

\* Mutant of Drops: the base is dropped when one delta is left.
DropsEarly(left) == left <= 1
Drops(left) == left = 0

\* Write, keep the tensor for its deltas, drop its base after the last one.
\* The server's client releases only now.
DeliverTensor ==
    LET t == Current
        b == job.base[t]
        counted == FromHub(job) /\ b \in Range(client.order)
        kept == client.held \union (IF client.refs[t] > 0 THEN {t} ELSE {})
        left == IF counted THEN [client.refs EXCEPT ![b] = @ - 1] ELSE client.refs
    IN  /\ client.pc = "check" /\ client.out = t
        /\ shardFiles' = Written(shardFiles, job.params, t)
        /\ client' = [client EXCEPT
              !.pc = "next", !.done = @ + 1,
              !.bytes = @ + Copies(job.params, t) * Logical[t],
              !.refs = left,
              !.held = IF counted /\ Drops(left[b]) THEN kept \ {b} ELSE kept,
              !.spent = IF FromHub(job) THEN @ ELSE @ - Bytes(client.head)]
        /\ baseCache' = IF job.shared /\ client.refs[t] > 0
                        THEN [x \in DOMAIN baseCache \union {t} |->
                                IF x = t THEN client.out ELSE baseCache[x]]
                        ELSE baseCache
        /\ UNCHANGED job

\* The pool's __exit__ waits for every task.
Close ==
    /\ client.pc = "closing"
    /\ \A i \in Places : client.fetch[i] \notin {"queued", "getting"}
    /\ client' = [client EXCEPT !.pc = IF client.done = Len(client.order) THEN "ok" ELSE "failed"]
    /\ UNCHANGED <<job, shardFiles, baseCache>>

DownloadNext ==
    \/ \E j \in Jobs : StartDownload(j)
    \/ \E i \in Places : Reserve(i) \/ Attempt(i) \/ Receive(i, "got") \/ Receive(i, "damaged")
    \/ TakeNext \/ TakeCached \/ FetchRaised \/ BaseMissing \/ DecodeBlob \/ TakeBody
    \/ HashMismatch \/ DeliverTensor \/ Close

DownloadSpec == DownloadInit /\ [][DownloadNext]_download

-----------------------------------------------------------------------------
\* The catalogue's edges are those of the objects, and none is on a cycle.
Matches(j) == FromHub(j) => Resolved(j).error = "none" /\ \A t \in Resolved(j).closure : j.header[t] = j.base[t]

TotalBytes(params) == FoldLeft(LAMBDA n, t : n + Logical[t], 0, params)

\* A pull that says it is ok has filled every parameter's range, as the shard
\* headers give it, with the bytes of its tensor, whatever was fetched damaged,
\* late or again and whatever earlier pulls left in the cache; it fails only
\* after a fault, or on a catalogue that disagrees with the objects; and what
\* is buffered exceeds the budget by the head of the line at most
\* (tensordex.py 80-142, 327-503; tensordex_srv.py 74-205).
DownloadsDeliver ==
    /\ client.pc = "ok" =>
          /\ \A i \in DOMAIN job.params :
                LET slot == Layout(job.params)[i]
                IN \A k \in 0 .. slot.len - 1 :
                      shardFiles[<<slot.shard, slot.at + k>>] = Content(job.params[i], k)
          /\ client.bytes = TotalBytes(job.params)
    /\ client.pc = "failed" => client.faulty \/ ~Matches(job)
    /\ client.pc \notin {"resting", "ok", "failed"} =>
          client.spent <= InflightBudget
                            + (IF client.head \in Places THEN Bytes(client.head) ELSE 0)
=============================================================================
