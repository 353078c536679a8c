-------------------------------- MODULE Reads --------------------------------
(***************************************************************************)
(* What the engine gives back (core/engine.py): get_tensor, which decodes  *)
(* along the chain of bases and remembers what it decoded, and pull, which *)
(* rebuilds a model shard by shard (core/codec.py, core/storage.py).       *)
(*                                                                         *)
(* A tensor is the number of its content: a value read equals the tensor   *)
(* it was asked for unless a file is damaged.  A delta decodes to its      *)
(* target against the base it was made with, and to Garbage against any    *)
(* other value.                                                            *)
(***************************************************************************)
EXTENDS Transfers

Garbage == 0
Payload == -1     \* the bytes of a delta, taken for a tensor

NoBlob == [form |-> "none", base |-> Garbage, content |-> Garbage]
RawBlob(c) == [form |-> "raw", base |-> Garbage, content |-> c]
DeltaBlob(b) == [form |-> "delta", base |-> b, content |-> Payload]

Raised(why) == [raised |-> TRUE, why |-> why]
Got(value, cache) == [raised |-> FALSE, value |-> value, cache |-> cache]
NoCache == [t \in {} |-> Garbage]
With(cache, t, value) == [u \in DOMAIN cache \union {t} |-> IF u = t THEN value ELSE cache[u]]

\* The canonical file, or else the one of the older layout.
BlobPath(hub, t) ==
    IF hub.canonical[t].form # "none" THEN hub.canonical[t] ELSE hub.legacy[t]

VerifyTensor(t, value) == value = t
DecodeDelta(t, base, value) == IF value = base THEN t ELSE Garbage

\* get_tensor on local files; seen is what the chain has come through.
GetTensor(hub, asked, cache, verify) ==
    LET Blobs == DOMAIN hub.canonical
        got[t \in Blobs, seen \in SUBSET Blobs] ==
            LET blob == BlobPath(hub, t)
                inner == got[blob.base, seen \union {blob.base}]
                checked(value, known) ==
                    IF verify /\ ~VerifyTensor(t, value) THEN Raised("integrity")
                    ELSE Got(value, With(known, t, value))
            IN IF t \in DOMAIN cache THEN Got(cache[t], cache)
               ELSE IF blob.form = "none" THEN Raised("missing")
               ELSE IF blob.form = "raw" THEN checked(blob.content, cache)
               ELSE IF blob.base \in seen THEN Raised("cycle")
               ELSE IF inner.raised THEN inner
               ELSE checked(DecodeDelta(t, blob.base, inner.value), inner.cache)
    IN got[asked, {}]

ReadAlone(hub, t, verify) == GetTensor(hub, t, NoCache, verify)

-----------------------------------------------------------------------------
(* get_tensor on objects: an object is missing, refused or there, and has    *)
(* entries; an entry [name, shape, content] is called "tensor", has a name   *)
(* of its own ("other"), or is a fingerprint ("print") or private ("_").     *)
(* No delta is decoded.                                                      *)

\* The tensor, or an entry of the shape, or the first with a name, or any.
PickTensor(entries, shape) ==
    LET named == SelectSeq(entries, LAMBDA e : e.name = "tensor")
        shaped == SelectSeq(entries, LAMBDA e : shape # <<>> /\ e.name # "_" /\ e.shape = shape)
        payload == SelectSeq(entries, LAMBDA e : e.name = "other")
        order == named \o shaped \o payload \o entries
    IN IF order = <<>> THEN Raised("empty") ELSE Got(Head(order).content, NoCache)

LoadObject(object, shape) ==
    IF object.state = "there" THEN PickTensor(object.entries, shape) ELSE Raised(object.state)

\* The errors after which the object of the row's URI is looked for by the id.
Recoverable == {"missing", "empty"}

\* The shape of the row is known to the second way only.
ByUri(o) == IF o.uri = "bad" THEN Raised("invalid") ELSE LoadObject(o.atUri, <<>>)
ById(o) == LoadObject(o.atId, o.shape)

GetObject(o, t, verify) ==
    LET byUri == ByUri(o)
        byId == ById(o)
        finish(read) ==
            IF ~read.raised /\ verify /\ ~VerifyTensor(t, read.value) THEN Raised("integrity") ELSE read
    IN IF ~o.row THEN Raised("unknown")
       ELSE IF o.uri = "none" THEN finish(byId)
       ELSE IF ~byUri.raised \/ byUri.why \notin Recoverable THEN finish(byUri)
       ELSE IF byId.raised THEN byUri ELSE finish(byId)

-----------------------------------------------------------------------------
(* pull: items is the mapping of a model, in the order of its parameters,    *)
(* each <<parameter, tensor>>; size gives logical bytes, and max the limit   *)
(* of a shard, or 0.                                                         *)

\* Shards of items: a shard is closed when the next item would exceed it.
PulledShards(items, size, max) ==
    LET bytes(run) == [i \in DOMAIN run |-> size[run[i][2]]]
        next(p, item) ==
            IF FitsNext(bytes(p.run), size[item[2]], max)
              THEN [p EXCEPT !.run = Append(@, item)]
              ELSE [done |-> Append(p.done, p.run), run |-> <<item>>]
        p == FoldLeft(next, [done |-> <<>>, run |-> <<>>], items)
    IN IF max = 0 THEN <<items>>
       ELSE IF p.run = <<>> THEN p.done ELSE Append(p.done, p.run)

\* One tensor of a shard; nothing follows an exception.
PullTensor(hub, verify, s, item) ==
    LET read == GetTensor(hub, item[2], s.cache, verify)
    IN IF s.raised THEN s
       ELSE IF read.raised THEN [s EXCEPT !.raised = TRUE]
       ELSE [s EXCEPT !.cache = read.cache, !.shard = Append(@, <<item[1], read.value>>)]

\* A shard is written once all its tensors are there.
PullShard(hub, verify, s, shard) ==
    LET read == FoldLeft(LAMBDA r, item : PullTensor(hub, verify, r, item), s, shard)
    IN IF read.raised THEN read
       ELSE [read EXCEPT !.written = Append(@, read.shard), !.shard = <<>>]

PullModel(hub, status, items, size, max, verify) ==
    LET shards == PulledShards(items, size, max)
        all == FoldLeft(LAMBDA s, shard : PullShard(hub, verify, s, shard),
                        [raised |-> FALSE, cache |-> NoCache, shard |-> <<>>, written |-> <<>>],
                        shards)
    IN IF status \notin {"ready", "unknown"} \/ items = <<>> THEN [refused |-> TRUE]
       ELSE [refused |-> FALSE, raised |-> all.raised, written |-> all.written,
             index |-> [i \in DOMAIN items |->
                          <<items[i][1], CHOOSE k \in DOMAIN shards : items[i] \in Range(shards[k])>>]]
=============================================================================
