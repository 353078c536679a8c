------------------------------ MODULE RemotePull ------------------------------
(***************************************************************************)
(* Pulling a model of a remote hub into the local one (pull_remote).       *)
(*                                                                         *)
(* The local hub is TensorHub; a pull and the other commands on it run one *)
(* at a time.  The remote hub serves a catalogue of delta edges and blob   *)
(* files, and may compress its blobs at any moment.  A pull asks for a     *)
(* manifest, replaces the local blobs that differ from it and only then    *)
(* registers the model, in four transactions.  It may fail or be           *)
(* interrupted at any step, and is simply run again.                       *)
(***************************************************************************)
EXTENDS TensorHub

CONSTANTS
    Offers,        \* the ready models of the remote hub: model -> content
    MaxEdges       \* bound: tensors that the remote hub compresses

ASSUME OffersAssumption ==
    /\ DOMAIN Offers \subseteq Models
    /\ \A m \in DOMAIN Offers : Offers[m] \in Content /\ Wanted(Offers[m]) # {}
    /\ MaxEdges \in Nat

VARIABLES
    edges,      \* remote: the delta edge of each tensor
    file,       \* remote: the blob files
    pending,    \* remote: the tensor whose edge waits for its rewrite
    pull        \* what the pull is in the middle of

remote == <<edges, file, pending>>
hub == <<catalogue, blob, proc>>
pullVars == <<vars, remote, pull>>

\* What a manifest says of a blob: its base, by the catalogue, and its bytes.
Unlisted == [base |-> NoTensor, form |-> "absent"]

(* A pull is "resting", "sizing", "checking", "downloading", "fetched",     *)
(* "opened", "batched" or "mirrored".  Of its model, it has needed (the     *)
(* closure over delta bases), entry (the manifest), and todo: the blobs     *)
(* left to stat or to download, some of which may have failed.              *)
Resting == [pc |-> "resting", model |-> NoModel, needed |-> {},
            entry |-> [t \in Tensors |-> Unlisted], todo |-> {}, failed |-> FALSE]

PullInit ==
    /\ \E m \in Models \ DOMAIN Offers, c \in Content :
          /\ mappings = [n \in Models |-> IF n = m THEN c ELSE Empty]
          /\ status = [n \in Models |-> IF n = m THEN "ready" ELSE "none"]
          /\ tensors = Wanted(c)
          /\ blob = [t \in Tensors |-> IF t \in Wanted(c) THEN Raw ELSE Absent]
    /\ deltas = [t \in Tensors |-> NoTensor]
    /\ proc = [w \in Writers |-> Idle]
    /\ edges = [t \in Tensors |-> NoTensor]
    /\ file = [t \in Tensors |-> Raw]
    /\ pending = NoTensor
    /\ pull = Resting

-----------------------------------------------------------------------------
(* The remote hub compresses: the edge first, then the blob. *)

RemoteEdge(t, b) ==
    /\ Cardinality({x \in Tensors : edges[x] # NoTensor} \union {t}) <= MaxEdges
    /\ pending = NoTensor
    /\ t # b /\ file[t].form = "raw"
    /\ t \notin ChainIn(file, b) /\ DecodableIn(file, b)
    /\ edges' = [edges EXCEPT ![t] = b]
    /\ pending' = t
    /\ UNCHANGED <<hub, file, pull>>

RemoteReplace ==
    /\ pending # NoTensor
    /\ file' = [file EXCEPT ![pending] = Delta(edges[pending])]
    /\ pending' = NoTensor
    /\ UNCHANGED <<hub, edges, pull>>

\* The compressor stops, and leaves an edge for a raw blob.
RemoteStop ==
    /\ pending # NoTensor
    /\ pending' = NoTensor
    /\ UNCHANGED <<hub, edges, file, pull>>

-----------------------------------------------------------------------------
(* The manifest *)

\* manifest_blobs: the closure of the parameters over the delta edges.
Closure(ids) ==
    {x \in Tensors : \A S \in SUBSET Tensors :
        ids \subseteq S /\ (\A y \in S : edges[y] # NoTensor => edges[y] \in S)
        => x \in S}

\* The catalogue's half of the manifest: closure and bases.
PullAsk(m) ==
    LET needed == Closure(Wanted(Offers[m])) IN
    /\ \A w \in Writers : proc[w].pc = "idle"
    /\ pull.pc = "resting"
    /\ pull' = [Resting EXCEPT
                  !.pc = "sizing", !.model = m, !.needed = needed, !.todo = needed,
                  !.entry = [t \in Tensors |-> IF t \in needed
                                THEN [Unlisted EXCEPT !.base = edges[t]]
                                ELSE Unlisted]]
    /\ UNCHANGED <<hub, remote>>

\* The files' half: the byte count of each blob, which tells a raw blob from
\* a compressed one.
PullSize(t) ==
    /\ pull.pc = "sizing"
    /\ t \in pull.todo
    /\ pull' = [pull EXCEPT !.entry[t].form = file[t].form,
                            !.todo = @ \ {t},
                            !.pc = IF pull.todo = {t} THEN "checking" ELSE @]
    /\ UNCHANGED <<hub, remote>>

-----------------------------------------------------------------------------
(* Downloads *)

\* Mutant of IsCached: the header is not compared with the manifest.
AnyBlobIsCached(t) == blob[t] # Absent

\* The size is right, and the header agrees with the catalogue's codec and base.
IsCached(t) ==
    /\ blob[t].form = pull.entry[t].form
    /\ blob[t].form = "delta" <=> pull.entry[t].base # NoTensor
    /\ blob[t].base = pull.entry[t].base

PullCheck ==
    LET missing == {t \in pull.needed : ~IsCached(t)} IN
    /\ pull.pc = "checking"
    /\ pull' = [pull EXCEPT !.todo = missing,
                            !.pc = IF missing = {} THEN "fetched" ELSE "downloading"]
    /\ UNCHANGED <<hub, remote>>

\* Mutant of Downloaded: nobody looks at the result of a download.
DownloadedAnyway(t, ok) ==
    pull' = IF pull.todo # {t} THEN [pull EXCEPT !.todo = @ \ {t}]
            ELSE [pull EXCEPT !.todo = {}, !.pc = "fetched"]

\* One download is over; the last one ends the phase.
Downloaded(t, ok) ==
    LET failed == pull.failed \/ ~ok IN
    pull' = IF pull.todo # {t}
            THEN [pull EXCEPT !.todo = @ \ {t}, !.failed = failed]
            ELSE IF failed THEN Resting
            ELSE [pull EXCEPT !.todo = {}, !.pc = "fetched"]

\* The body is as long as the manifest said: it replaces the local blob.
PullDownload(t) ==
    /\ pull.pc = "downloading"
    /\ t \in pull.todo
    /\ file[t].form = pull.entry[t].form
    /\ blob' = [blob EXCEPT ![t] = file[t]]
    /\ Downloaded(t, TRUE)
    /\ UNCHANGED <<catalogue, proc, remote>>

\* The request fails, or the body has another length.  The other downloads
\* run on, and the pull raises when the last one is over.
PullDownloadFailed(t) ==
    /\ pull.pc = "downloading"
    /\ t \in pull.todo
    /\ Downloaded(t, FALSE)
    /\ UNCHANGED <<hub, remote>>

-----------------------------------------------------------------------------
(* Registration *)

RegisterInit ==
    /\ pull.pc = "fetched"
    /\ mappings' = [mappings EXCEPT ![pull.model] = Empty]
    /\ status' = [status EXCEPT ![pull.model] = "ingesting"]
    /\ pull' = [pull EXCEPT !.pc = "opened"]
    /\ UNCHANGED <<tensors, deltas, blob, proc, remote>>

\* ingest_batch: rows for the whole closure, mappings for the parameters.
RegisterBatch ==
    /\ pull.pc = "opened"
    /\ tensors' = tensors \union pull.needed
    /\ mappings' = [mappings EXCEPT ![pull.model] = Offers[pull.model]]
    /\ pull' = [pull EXCEPT !.pc = "batched"]
    /\ UNCHANGED <<status, deltas, blob, proc, remote>>

\* The blobs the manifest gives a codec and a base.
Mirrored(t) == pull.entry[t].base # NoTensor

\* backfill_deltas: upserts; the stale edge of a blob now raw stays.
RegisterEdges ==
    /\ pull.pc = "batched"
    /\ deltas' = [t \in Tensors |-> IF Mirrored(t) THEN pull.entry[t].base
                                                   ELSE deltas[t]]
    /\ pull' = [pull EXCEPT !.pc = "mirrored"]
    /\ UNCHANGED <<tensors, mappings, status, blob, proc, remote>>

RegisterCommit ==
    /\ pull.pc = "mirrored"
    /\ status' = [status EXCEPT ![pull.model] = "ready"]
    /\ pull' = Resting
    /\ UNCHANGED <<tensors, mappings, deltas, blob, proc, remote>>

\* An exception or a crash: nothing is undone, and no step marks the model
\* failed.
PullStop ==
    /\ pull.pc # "resting"
    /\ pull' = Resting
    /\ UNCHANGED <<hub, remote>>

-----------------------------------------------------------------------------
\* backfill_deltas_from_blobs: an edge for every delta file; one of them
\* without a row refuses all.
Backfill ==
    /\ pull.pc = "resting"
    /\ \A w \in Writers : proc[w].pc = "idle"
    /\ \A t \in Tensors : blob[t].form = "delta" => t \in tensors
    /\ deltas' = [t \in Tensors |-> IF blob[t].form = "delta" THEN blob[t].base ELSE deltas[t]]
    /\ UNCHANGED <<tensors, mappings, status, blob, proc, remote, pull>>

\* The commands of the local hub, between two pulls.
LocalCommand == pull.pc = "resting" /\ Next /\ UNCHANGED <<remote, pull>>

PullNext ==
    \/ LocalCommand
    \/ Backfill
    \/ \E t, b \in Tensors : RemoteEdge(t, b)
    \/ RemoteReplace
    \/ RemoteStop
    \/ \E m \in DOMAIN Offers : PullAsk(m)
    \/ \E t \in Tensors : PullSize(t) \/ PullDownload(t) \/ PullDownloadFailed(t)
    \/ PullCheck
    \/ RegisterInit
    \/ RegisterBatch
    \/ RegisterEdges
    \/ RegisterCommit
    \/ PullStop

PullSpec == PullInit /\ [][PullNext]_pullVars

-----------------------------------------------------------------------------
(* Properties *)

\* No blob was rewritten between the catalogue's half of the manifest and the
\* files' half: what has delta bytes is listed with the base it was made from.
ManifestWhole ==
    \A t \in pull.needed :
        pull.entry[t].form = "delta" => pull.entry[t].base = file[t].base

\* "Now that every blob is on disk": when a pull has registered its model,
\* whatever earlier pulls left behind, every tensor of the closure decodes
\* and gc knows the base it is decoded against - unless the remote hub
\* rewrote a blob while it built the manifest.
PullIsWhole ==
    pull.pc = "mirrored" /\ ManifestWhole =>
        \A t \in pull.needed :
            /\ t \in tensors /\ Decodable(t)
            /\ blob[t].form = "delta" => deltas[t] = blob[t].base

\* Every chain of edges comes to an end.
EdgesAcyclic ==
    \A S \in SUBSET Tensors : S # {} => \E t \in S : deltas[t] \notin S

\* While each catalogued delta has the edge its header asks for, to a catalogued
\* base, and no edges close a cycle, every ready model can be read: whatever
\* failed pulls, gc, compressions and backfills damage shows in the edges.  (The
\* base needs its row: a backfill records edges to bases that a pull which
\* stopped has never brought.)
EdgesTellDamage == HeadersHaveEdges /\ EdgesAcyclic => ReadyModelsDecodable

\* Every catalogued delta has the edge its header asks for.
HeadersMirrored ==
    \A t \in tensors : blob[t].form = "delta" => deltas[t] = blob[t].base

\* "Delta edges MUST be mirrored along with the rows" (_register_blobs_locally):
\* between pulls, gc's edges cover the headers of all catalogued blobs.
EdgesMirrored == pull.pc = "resting" => HeadersMirrored
=============================================================================
