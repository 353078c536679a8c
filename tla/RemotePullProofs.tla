--------------------------- MODULE RemotePullProofs ---------------------------
(***************************************************************************)
(* Proofs about RemotePull, for any number of tensors and models, any      *)
(* commands of the local hub and any offers of the remote one.             *)
(***************************************************************************)
EXTENDS RemotePull, TensorHubProofs

-----------------------------------------------------------------------------
(* Type correctness *)

PullPCs == {"resting", "sizing", "checking", "downloading", "fetched", "opened",
            "batched", "mirrored"}
Listed == [base : Slot, form : {"absent", "raw", "delta"}]
Pull == [pc : PullPCs, model : Models \union {NoModel}, needed : SUBSET Tensors,
         entry : [Tensors -> Listed], todo : SUBSET Tensors, failed : BOOLEAN]

\* The blob of a hub nobody interferes with is whole.
Whole == {B \in [Tensors -> Blob] :
            \A t \in Tensors : /\ B[t].form \in {"raw", "delta"}
                               /\ B[t].form = "delta" <=> B[t].base # NoTensor}

\* Every variable is of its type, the remote hub's included; a pull at work has
\* a model, and the local hub rests meanwhile.
PullTypeOK ==
    /\ TypeInv
    /\ edges \in [Tensors -> Slot]
    /\ file \in Whole
    /\ pending \in Slot
    /\ pending # NoTensor => edges[pending] \in Tensors
    /\ pull \in Pull
    /\ pull.pc # "resting" =>
          /\ pull.model \in DOMAIN Offers
          /\ \A w \in Writers : proc[w].pc = "idle"

\* The record of a puller at rest.
LEMMA RestingTyped == Resting \in Pull /\ Resting.pc = "resting"
BY DEF Resting, Pull, PullPCs, Listed, Unlisted, Slot

\* What the offers hold.
LEMMA OfferTyped ==
    ASSUME NEW m \in DOMAIN Offers
    PROVE  m \in Models /\ Offers[m] \in Content /\ Wanted(Offers[m]) \in SUBSET Tensors
BY OffersAssumption DEF Content, Wanted, Slot

\* No step leaves the types.
LEMMA PullTypeStep == PullTypeOK /\ [PullNext]_pullVars => PullTypeOK'
<1> SUFFICES ASSUME PullTypeOK, [PullNext]_pullVars PROVE PullTypeOK'
  OBVIOUS
<1> USE ConstantsAssumption
<1>0. /\ TypeInv /\ TypeOK /\ ProcTyped
      /\ edges \in [Tensors -> Slot] /\ file \in Whole /\ pending \in Slot /\ pull \in Pull
      /\ tensors \in SUBSET Tensors /\ mappings \in [Models -> Content]
      /\ status \in [Models -> Statuses] /\ deltas \in [Tensors -> Slot]
      /\ blob \in [Tensors -> Blob]
      /\ \A t \in Tensors : blob[t].form = "delta" <=> blob[t].base # NoTensor
      /\ proc \in [Writers -> Proc]
      /\ pending # NoTensor => edges[pending] \in Tensors
      /\ pull.pc # "resting" =>
            pull.model \in DOMAIN Offers /\ \A w \in Writers : proc[w].pc = "idle"
  BY DEF PullTypeOK, TypeInv, TypeOK
<1>a. ASSUME UNCHANGED vars PROVE TypeInv'
  BY <1>0, <1>a DEF vars, TypeInv, TypeOK, ProcTyped
<1>b. ASSUME UNCHANGED hub PROVE TypeInv'
  BY <1>a, <1>b DEF hub, catalogue, vars
<1>1. CASE LocalCommand
  <2>1. TypeInv'
    BY <1>0, <1>1, TypeStep DEF LocalCommand
  <2> QED BY <1>0, <1>1, <2>1 DEF LocalCommand, remote, PullTypeOK
<1>2. CASE Backfill
  <2>1. deltas' \in [Tensors -> Slot]
    BY <1>0, <1>2 DEF Backfill, Blob
  <2>2. TypeInv'
    BY <1>0, <1>2, <2>1 DEF Backfill, TypeInv, TypeOK, ProcTyped
  <2> QED BY <1>0, <1>2, <2>2 DEF Backfill, remote, PullTypeOK
<1>3. ASSUME NEW t \in Tensors, NEW b \in Tensors, RemoteEdge(t, b) PROVE PullTypeOK'
  <2>1. edges' \in [Tensors -> Slot] /\ pending' = t /\ edges'[t] = b
    BY <1>0, <1>3 DEF RemoteEdge, Slot
  <2> QED BY <1>0, <1>3, <1>b, <2>1 DEF RemoteEdge, hub, PullTypeOK, Slot
<1>4. CASE RemoteReplace
  <2>1. file' \in Whole
    <3>1. pending \in Tensors /\ edges[pending] \in Tensors
      BY <1>0, <1>4 DEF RemoteReplace, Slot
    <3>2. Delta(edges[pending]) \in Blob
      BY <3>1 DEF Delta, Blob, Slot
    <3> QED BY <1>0, <1>4, <3>1, <3>2 DEF RemoteReplace, Whole, Delta
  <2> QED BY <1>0, <1>4, <1>b, <2>1 DEF RemoteReplace, hub, PullTypeOK, Slot
<1>5. CASE RemoteStop
  BY <1>0, <1>5, <1>b DEF RemoteStop, hub, PullTypeOK, Slot
<1>6. ASSUME NEW m \in DOMAIN Offers, PullAsk(m) PROVE PullTypeOK'
  <2> DEFINE needed == Closure(Wanted(Offers[m]))
             entry == [t \in Tensors |-> IF t \in needed
                          THEN [Unlisted EXCEPT !.base = edges[t]] ELSE Unlisted]
  <2>1. /\ needed \in SUBSET Tensors /\ m \in Models
        /\ \A w \in Writers : proc[w].pc = "idle"
        /\ UNCHANGED <<hub, remote>>
        /\ pull' = [Resting EXCEPT !.pc = "sizing", !.model = m, !.needed = needed,
                                   !.todo = needed, !.entry = entry]
    BY <1>6, OfferTyped DEF PullAsk, Closure
  <2>2. entry \in [Tensors -> Listed]
    BY <1>0 DEF Unlisted, Listed, Slot
  <2> HIDE DEF needed, entry
  <2>3. pull' \in Pull /\ pull'.model = m
    BY <2>1, <2>2 DEF Resting, Pull, PullPCs
  <2> QED BY <1>0, <1>b, <2>1, <2>3 DEF PullTypeOK, hub, remote
<1>7. ASSUME NEW t \in Tensors, PullSize(t) PROVE PullTypeOK'
  <2> DEFINE entry == [pull.entry EXCEPT ![t] = [pull.entry[t] EXCEPT !.form = file[t].form]]
             pc == IF pull.todo = {t} THEN "checking" ELSE pull.pc
  <2>a. pull.entry \in [Tensors -> Listed] /\ pull.entry[t] \in Listed
    BY <1>0 DEF Pull
  <2>b. file[t].form \in {"raw", "delta"} /\ pull.todo \ {t} \in SUBSET Tensors /\ pc \in PullPCs
    BY <1>0 DEF Whole, Pull, PullPCs
  <2>c. entry \in [Tensors -> Listed]
    BY <2>a, <2>b DEF Listed
  <2>d. pull' = [pull EXCEPT !.entry = entry, !.todo = pull.todo \ {t}, !.pc = pc]
    BY <1>0, <1>7 DEF PullSize, Pull
  <2> HIDE DEF entry, pc
  <2>1. pull' \in Pull /\ pull'.model = pull.model /\ pull.pc # "resting"
    <3>1. PICK q \in Pull, left \in SUBSET Tensors : q = pull /\ left = pull.todo \ {t}
      BY <1>0, <2>b
    <3>2. pull' = [q EXCEPT !.entry = entry, !.todo = left, !.pc = pc]
      BY <2>d, <3>1
    <3>3. pull' \in Pull /\ pull'.model = q.model
      BY <2>b, <2>c, <3>1, <3>2 DEF Pull
    <3>4. pull.pc = "sizing"
      BY <1>7 DEF PullSize
    <3> QED BY <3>1, <3>3, <3>4
  <2> QED BY <1>0, <1>7, <1>b, <2>1 DEF PullSize, PullTypeOK, hub, remote
<1>8. CASE PullCheck
  <2>1. pull' \in Pull /\ pull'.model = pull.model /\ pull.pc # "resting"
    BY <1>0, <1>8 DEF PullCheck, Pull, PullPCs
  <2> QED BY <1>0, <1>8, <1>b, <2>1 DEF PullCheck, PullTypeOK, hub, remote
<1>9. ASSUME NEW t \in Tensors, NEW ok \in BOOLEAN, Downloaded(t, ok),
             pull.pc = "downloading"
      PROVE  pull' \in Pull /\ (pull'.pc # "resting" => pull'.model = pull.model)
  BY <1>0, <1>9, RestingTyped DEF Downloaded, Pull, PullPCs
<1>10. ASSUME NEW t \in Tensors, PullDownload(t) PROVE PullTypeOK'
  <2>1. /\ blob' \in [Tensors -> Blob]
        /\ \A u \in Tensors : blob'[u].form = "delta" <=> blob'[u].base # NoTensor
    BY <1>0, <1>10 DEF PullDownload, Whole
  <2>2. TypeInv'
    BY <1>0, <1>10, <2>1 DEF PullDownload, catalogue, TypeInv, TypeOK, ProcTyped
  <2>3. pull' \in Pull /\ (pull'.pc # "resting" => pull'.model = pull.model)
    BY <1>9, <1>10 DEF PullDownload
  <2>4. pull.pc = "downloading" /\ UNCHANGED <<proc, remote>>
    BY <1>10 DEF PullDownload
  <2> QED BY <1>0, <2>2, <2>3, <2>4 DEF PullTypeOK, remote
<1>11. ASSUME NEW t \in Tensors, PullDownloadFailed(t) PROVE PullTypeOK'
  <2>1. pull' \in Pull /\ (pull'.pc # "resting" => pull'.model = pull.model)
    BY <1>9, <1>11 DEF PullDownloadFailed
  <2>2. pull.pc = "downloading" /\ UNCHANGED <<hub, remote>>
    BY <1>11 DEF PullDownloadFailed
  <2> QED BY <1>0, <1>b, <2>1, <2>2 DEF PullTypeOK, hub, remote
<1>12. CASE RegisterInit \/ RegisterBatch \/ RegisterEdges \/ RegisterCommit
  <2>1. /\ pull.pc # "resting" /\ UNCHANGED <<blob, proc, remote>>
        /\ pull.model \in Models /\ Offers[pull.model] \in Content
    BY <1>0, <1>12, OfferTyped DEF RegisterInit, RegisterBatch, RegisterEdges, RegisterCommit
  <2>2. tensors' \in SUBSET Tensors
    BY <1>0, <1>12 DEF RegisterInit, RegisterBatch, RegisterEdges, RegisterCommit, Pull
  <2>3. mappings' \in [Models -> Content] /\ status' \in [Models -> Statuses]
    BY <1>0, <1>12, <2>1, IdleTyped
    DEF RegisterInit, RegisterBatch, RegisterEdges, RegisterCommit, Statuses
  <2>4. deltas' \in [Tensors -> Slot]
    BY <1>0, <1>12
    DEF RegisterInit, RegisterBatch, RegisterEdges, RegisterCommit, Pull, Listed
  <2>5. TypeInv'
    BY <1>0, <2>1, <2>2, <2>3, <2>4 DEF TypeInv, TypeOK, ProcTyped
  <2>6. pull' \in Pull /\ (pull'.pc # "resting" => pull'.model = pull.model)
    BY <1>0, <1>12, RestingTyped
    DEF RegisterInit, RegisterBatch, RegisterEdges, RegisterCommit, Pull, PullPCs
  <2> QED BY <1>0, <2>1, <2>5, <2>6 DEF PullTypeOK, remote
<1>13. CASE PullStop
  BY <1>0, <1>13, <1>b, RestingTyped DEF PullStop, PullTypeOK, hub, remote
<1>14. CASE UNCHANGED pullVars
  BY <1>0, <1>14, <1>a DEF pullVars, vars, remote, PullTypeOK
<1> QED BY <1>1, <1>2, <1>3, <1>4, <1>5, <1>6, <1>7, <1>8, <1>10, <1>11, <1>12, <1>13,
           <1>14 DEF PullNext

\* The initial states have the types.
LEMMA PullTypeInit == PullInit => PullTypeOK
<1> SUFFICES ASSUME PullInit PROVE PullTypeOK
  OBVIOUS
<1> USE ConstantsAssumption
<1>1. PICK m \in Models \ DOMAIN Offers, c \in Content :
         /\ mappings = [n \in Models |-> IF n = m THEN c ELSE Empty]
         /\ status = [n \in Models |-> IF n = m THEN "ready" ELSE "none"]
         /\ tensors = Wanted(c)
         /\ blob = [t \in Tensors |-> IF t \in Wanted(c) THEN Raw ELSE Absent]
  BY DEF PullInit
<1>2. /\ deltas = [t \in Tensors |-> NoTensor] /\ proc = [w \in Writers |-> Idle]
      /\ edges = [t \in Tensors |-> NoTensor] /\ file = [t \in Tensors |-> Raw]
      /\ pending = NoTensor /\ pull = Resting
  BY DEF PullInit
<1>3. Raw \in Blob /\ Absent \in Blob /\ Raw.form = "raw" /\ Absent.form = "absent"
      /\ Raw.base = NoTensor /\ Absent.base = NoTensor
  BY DEF Raw, Absent, Blob, Slot
<1>4. TypeOK
  <2>1. tensors \in SUBSET Tensors
    BY <1>1 DEF Wanted, Content, Slot
  <2>2. mappings \in [Models -> Content] /\ status \in [Models -> Statuses]
    BY <1>1, IdleTyped DEF Statuses
  <2>3. blob \in [Tensors -> Blob]
        /\ \A t \in Tensors : blob[t].form = "delta" <=> blob[t].base # NoTensor
    BY <1>1, <1>3
  <2> QED BY <1>2, <2>1, <2>2, <2>3, IdleTyped DEF TypeOK, Slot
<1>5. ProcTyped
  BY <1>2, IdleTyped DEF ProcTyped, IngestPCs, CompressPCs
<1>6. edges \in [Tensors -> Slot] /\ file \in Whole
  BY <1>2, <1>3 DEF Whole, Slot
<1>7. pending \in Slot /\ pending = NoTensor /\ pull \in Pull /\ pull.pc = "resting"
  BY <1>2, RestingTyped DEF Slot
<1> QED BY <1>4, <1>5, <1>6, <1>7 DEF PullTypeOK, TypeInv

-----------------------------------------------------------------------------
(* The remote hub *)

\* The edge of a delta is recorded before its rewrite, which closes no cycle.
RemoteInv ==
    /\ \A t \in Tensors : file[t].form = "delta" => edges[t] = file[t].base
    /\ \A t \in Tensors : DecodableIn(file, t)
    /\ pending # NoTensor => /\ file[pending].form = "raw"
                             /\ pending \notin ChainIn(file, edges[pending])

\* The remote hub stays decodable at every step of its own.
LEMMA RemoteStep == PullTypeOK /\ RemoteInv /\ [PullNext]_pullVars => RemoteInv'
<1> SUFFICES ASSUME PullTypeOK, RemoteInv, [PullNext]_pullVars PROVE RemoteInv'
  OBVIOUS
<1> USE ConstantsAssumption
<1>0. /\ file \in Whole /\ edges \in [Tensors -> Slot] /\ pending \in Slot
      /\ pending # NoTensor => edges[pending] \in Tensors
  BY DEF PullTypeOK
<1>1. ASSUME NEW t \in Tensors, NEW b \in Tensors, RemoteEdge(t, b) PROVE RemoteInv'
  <2>1. /\ edges' = [edges EXCEPT ![t] = b] /\ pending' = t /\ UNCHANGED file
        /\ file[t].form = "raw" /\ t \notin ChainIn(file, b)
    BY <1>1 DEF RemoteEdge
  <2>2. edges'[pending'] = b
    BY <1>0, <2>1
  <2>3. \A u \in Tensors : file'[u].form = "delta" => edges'[u] = file'[u].base
    BY <1>0, <2>1 DEF RemoteInv
  <2> QED BY <2>1, <2>2, <2>3 DEF RemoteInv
<1>2. CASE RemoteReplace
  <2> DEFINE b == edges[pending]
  <2>1. /\ pending \in Tensors /\ b \in Tensors /\ UNCHANGED edges /\ pending' = NoTensor
        /\ file' = [file EXCEPT ![pending] = Delta(b)]
    BY <1>0, <1>2 DEF RemoteReplace, Slot
  <2>2. file[pending].form = "raw" /\ pending \notin ChainIn(file, b)
    BY <2>1 DEF RemoteInv
  <2>3. file \in Files /\ file' \in Files
    <3>1. file' \in Whole
      BY PullTypeStep DEF PullTypeOK
    <3> QED BY <1>0, <3>1 DEF Whole, Files, Blob, Slot
  <2>4. ASSUME NEW u \in Tensors PROVE DecodableIn(file', u)
    <3>1. DecodableIn(file, u) /\ DecodableIn(file, b)
      BY <2>1 DEF RemoteInv
    <3> HIDE DEF b
    <3> QED BY <2>1, <2>2, <2>3, <3>1, RewriteKeepsDecodable
  <2>5. \A u \in Tensors : file'[u].form = "delta" => edges'[u] = file'[u].base
    BY <1>0, <2>1 DEF RemoteInv, Delta, Whole
  <2> QED BY <2>1, <2>4, <2>5 DEF RemoteInv
<1>3. CASE RemoteStop
  BY <1>3 DEF RemoteStop, RemoteInv
<1>4. CASE UNCHANGED remote
  BY <1>4 DEF remote, RemoteInv
<1> QED
  BY <1>1, <1>2, <1>3, <1>4, Zenon
  DEF PullNext, LocalCommand, Backfill, PullAsk, PullSize, PullCheck, PullDownload,
      PullDownloadFailed, RegisterInit, RegisterBatch, RegisterEdges, RegisterCommit,
      PullStop, pullVars

\* Nothing the remote hub does takes a delta away.
LEMMA RemoteDeltasStay ==
    ASSUME PullTypeOK, RemoteInv, [PullNext]_pullVars, NEW t \in Tensors,
           file[t].form = "delta"
    PROVE  file'[t] = file[t]
<1>1. CASE RemoteReplace
  <2>1. pending # t
    BY <1>1 DEF RemoteReplace, RemoteInv
  <2> QED BY <1>1, <2>1 DEF RemoteReplace, PullTypeOK, Whole
<1>2. CASE UNCHANGED file
  BY <1>2
<1> QED
  BY <1>1, <1>2, Zenon
  DEF PullNext, LocalCommand, Backfill, RemoteEdge, RemoteStop, PullAsk, PullSize, PullCheck,
      PullDownload, PullDownloadFailed, RegisterInit, RegisterBatch, RegisterEdges,
      RegisterCommit, PullStop, pullVars, remote

-----------------------------------------------------------------------------
(* The pull *)

\* The size of t has been asked for.
Sized(t) == pull.pc = "sizing" => t \notin pull.todo

\* The local blob is what the manifest lists, or what the remote hub has.
Good(t) ==
    /\ blob[t].form = pull.entry[t].form
    /\ blob[t].form = "delta" => blob[t].base \in {pull.entry[t].base, file[t].base}

\* What a pull knows of its closure, and what it has brought of it.
PullInv ==
    pull.pc # "resting" =>
        /\ Wanted(Offers[pull.model]) \subseteq pull.needed
        /\ \A t \in Tensors : pull.entry[t].base # NoTensor =>
              t \in pull.needed /\ pull.entry[t].base \in pull.needed
        /\ \A t \in pull.needed : Sized(t) =>
              /\ pull.entry[t].form \in {"raw", "delta"}
              /\ pull.entry[t].form = "delta" => file[t].form = "delta"
        /\ pull.pc = "downloading" /\ ~pull.failed =>
              \A t \in pull.needed \ pull.todo : Good(t)
        /\ pull.pc \in {"fetched", "opened", "batched", "mirrored"} =>
              \A t \in pull.needed : Good(t)
        /\ pull.pc \in {"batched", "mirrored"} => pull.needed \subseteq tensors
        /\ pull.pc = "mirrored" =>
              \A t \in pull.needed : Mirrored(t) => deltas[t] = pull.entry[t].base

\* A closure holds what it was asked for and, with each tensor, its base.
LEMMA ClosureIsClosed ==
    ASSUME edges \in [Tensors -> Slot], NEW ids \in SUBSET Tensors
    PROVE  /\ Closure(ids) \in SUBSET Tensors /\ ids \subseteq Closure(ids)
           /\ \A t \in Closure(ids) : edges[t] # NoTensor => edges[t] \in Closure(ids)
<1>1. ASSUME NEW t \in Closure(ids), edges[t] # NoTensor PROVE edges[t] \in Closure(ids)
  <2>1. t \in Tensors /\ edges[t] \in Tensors
    BY <1>1 DEF Closure, Slot
  <2>2. ASSUME NEW S \in SUBSET Tensors, ids \subseteq S,
               \A y \in S : edges[y] # NoTensor => edges[y] \in S
        PROVE  edges[t] \in S
    BY <1>1, <2>2 DEF Closure
  <2> QED BY <2>1, <2>2 DEF Closure
<1> QED BY <1>1 DEF Closure

\* A pull holds what it has listed, sized, checked and downloaded so far.
LEMMA PullStep ==
    PullTypeOK /\ RemoteInv /\ PullInv /\ [PullNext]_pullVars => PullInv'
<1> SUFFICES ASSUME PullTypeOK, RemoteInv, PullInv, [PullNext]_pullVars PROVE PullInv'
  OBVIOUS
<1> USE ConstantsAssumption
<1>0. /\ pull \in Pull /\ edges \in [Tensors -> Slot] /\ file \in Whole
      /\ pull.entry \in [Tensors -> Listed] /\ pull.needed \in SUBSET Tensors
      /\ pull.todo \in SUBSET Tensors
      /\ blob \in [Tensors -> Blob] /\ deltas \in [Tensors -> Slot]
      /\ tensors \in SUBSET Tensors
  BY DEF PullTypeOK, TypeInv, TypeOK, Pull
<1>1. CASE pull'.pc = "resting"
  BY <1>1 DEF PullInv
<1>2. ASSUME pull.pc # "resting"
      PROVE  /\ Wanted(Offers[pull.model]) \subseteq pull.needed
             /\ \A t \in Tensors : pull.entry[t].base # NoTensor =>
                   t \in pull.needed /\ pull.entry[t].base \in pull.needed
             /\ \A t \in pull.needed : Sized(t) =>
                   /\ pull.entry[t].form \in {"raw", "delta"}
                   /\ pull.entry[t].form = "delta" => file[t].form = "delta"
  BY <1>2 DEF PullInv
<1>3. \A t \in Tensors : file[t].form = "delta" => file'[t] = file[t]
  BY RemoteDeltasStay
<1>4. ASSUME UNCHANGED <<blob, tensors, deltas, pull>>, pull.pc # "resting" PROVE PullInv'
  <2>1. ASSUME NEW t \in pull.needed, Good(t), Sized(t) PROVE Good(t)'
    <3>1. blob[t].form = "delta" => file'[t] = file[t]
      BY <1>0, <1>2, <1>3, <1>4, <2>1 DEF Good
    <3> QED BY <1>4, <2>1, <3>1 DEF Good
  <2>2. \A t \in pull.needed : Sized(t)' <=> Sized(t)
    BY <1>4 DEF Sized
  <2>3. pull.pc # "sizing" => \A t \in pull.needed : Sized(t)
    BY DEF Sized
  <2>4. \A t \in pull.needed : Sized(t) =>
          (pull.entry[t].form = "delta" => file'[t].form = "delta")
    BY <1>0, <1>2, <1>3, <1>4
  <2> QED BY <1>0, <1>4, <2>1, <2>2, <2>3, <2>4 DEF PullInv, Mirrored
<1>5. ASSUME NEW m \in DOMAIN Offers, PullAsk(m) PROVE PullInv'
  <2> DEFINE needed == Closure(Wanted(Offers[m]))
  <2>1. /\ pull'.pc = "sizing" /\ pull'.model = m /\ pull'.needed = needed
        /\ pull'.todo = needed /\ pull'.failed = FALSE
        /\ pull'.entry = [t \in Tensors |-> IF t \in needed
                                THEN [Unlisted EXCEPT !.base = edges[t]] ELSE Unlisted]
    BY <1>5 DEF PullAsk, Resting
  <2>2. /\ Wanted(Offers[m]) \subseteq needed /\ needed \in SUBSET Tensors
        /\ \A t \in needed : edges[t] # NoTensor => edges[t] \in needed
    BY <1>0, OfferTyped, ClosureIsClosed
  <2> HIDE DEF needed
  <2>3. \A t \in Tensors : pull'.entry[t].base = IF t \in needed THEN edges[t] ELSE NoTensor
    BY <2>1 DEF Unlisted
  <2>4. \A t \in pull'.needed : ~Sized(t)'
    BY <2>1 DEF Sized
  <2> QED BY <2>1, <2>2, <2>3, <2>4 DEF PullInv
<1>6. ASSUME NEW t \in Tensors, PullSize(t) PROVE PullInv'
  <2>1. /\ pull.pc = "sizing" /\ t \in pull.todo /\ UNCHANGED <<tensors, deltas, blob, file>>
        /\ pull'.model = pull.model /\ pull'.needed = pull.needed
        /\ pull'.pc = IF pull.todo = {t} THEN "checking" ELSE "sizing"
        /\ pull'.todo = pull.todo \ {t}
    BY <1>0, <1>6 DEF PullSize, Pull, hub, catalogue, remote
  <2>2. \A u \in Tensors : /\ pull'.entry[u].base = pull.entry[u].base
                           /\ pull'.entry[u].form = IF u = t THEN file[t].form
                                                    ELSE pull.entry[u].form
    <3>1. pull'.entry = [pull.entry EXCEPT ![t] = [pull.entry[t] EXCEPT !.form = file[t].form]]
      BY <1>0, <1>6 DEF PullSize, Pull
    <3> QED BY <1>0, <3>1 DEF Listed
  <2>3. \A u \in pull.needed : Sized(u)' /\ u # t => Sized(u)
    BY <2>1 DEF Sized
  <2>4. file[t].form \in {"raw", "delta"}
    BY <1>0 DEF Whole
  <2> QED BY <1>0, <1>2, <2>1, <2>2, <2>3, <2>4 DEF PullInv
<1>7. CASE PullCheck
  <2> DEFINE missing == {t \in pull.needed : ~IsCached(t)}
  <2>1. /\ pull.pc = "checking" /\ UNCHANGED <<tensors, deltas, blob, file>>
        /\ pull'.model = pull.model /\ pull'.needed = pull.needed
        /\ pull'.entry = pull.entry /\ pull'.todo = missing
        /\ pull'.pc = IF missing = {} THEN "fetched" ELSE "downloading"
    BY <1>0, <1>7 DEF PullCheck, Pull, hub, catalogue, remote
  <2>2. \A t \in pull.needed \ missing : Good(t)'
    BY <2>1 DEF IsCached, Good
  <2>3. \A t \in pull.needed : Sized(t)
    BY <2>1 DEF Sized
  <2> HIDE DEF missing
  <2> QED BY <1>0, <1>2, <2>1, <2>2, <2>3 DEF PullInv
<1>8. ASSUME NEW t \in Tensors, NEW ok \in BOOLEAN, pull.pc = "downloading", t \in pull.todo,
             Downloaded(t, ok), pull'.pc # "resting", UNCHANGED <<tensors, deltas, file>>,
             \A u \in Tensors : u # t => blob'[u] = blob[u],
             ok => Good(t)'
      PROVE  PullInv'
  <2>1. /\ pull'.model = pull.model /\ pull'.needed = pull.needed
        /\ pull'.entry = pull.entry /\ pull'.todo = pull.todo \ {t}
        /\ \/ pull'.pc = "downloading" /\ (~pull'.failed => ~pull.failed /\ ok)
           \/ pull'.pc = "fetched" /\ ~pull.failed /\ ok /\ pull.todo = {t}
    BY <1>0, <1>8 DEF Downloaded, Pull, Resting
  <2>2. ~pull.failed /\ ok => \A u \in pull.needed \ (pull.todo \ {t}) : Good(u)'
    <3>1. ASSUME ~pull.failed, ok, NEW u \in pull.needed \ (pull.todo \ {t}) PROVE Good(u)'
      <4>1. CASE u = t
        BY <1>8, <3>1, <4>1
      <4>2. CASE u # t
        <5>1. Good(u)
          BY <1>8, <3>1, <4>2 DEF PullInv
        <5> QED BY <1>0, <1>8, <2>1, <4>2, <5>1 DEF Good
      <4> QED BY <4>1, <4>2
    <3> QED BY <3>1
  <2>3. \A u \in pull.needed : Sized(u)
    BY <1>8 DEF Sized
  <2> QED BY <1>0, <1>2, <1>8, <2>1, <2>2, <2>3 DEF PullInv
<1>9. ASSUME NEW t \in Tensors, PullDownload(t), pull'.pc # "resting" PROVE PullInv'
  <2>1. /\ pull.pc = "downloading" /\ t \in pull.todo /\ Downloaded(t, TRUE)
        /\ file[t].form = pull.entry[t].form
        /\ blob' = [blob EXCEPT ![t] = file[t]] /\ UNCHANGED <<tensors, deltas, file>>
    BY <1>9 DEF PullDownload, catalogue, remote
  <2>2. pull'.entry = pull.entry
    BY <1>0, <1>9, <2>1 DEF Downloaded, Pull, Resting
  <2>3. Good(t)'
    BY <1>0, <2>1, <2>2 DEF Good
  <2>4. \A u \in Tensors : u # t => blob'[u] = blob[u]
    BY <1>0, <2>1
  <2> QED BY <1>8, <1>9, <2>1, <2>3, <2>4
<1>10. ASSUME NEW t \in Tensors, PullDownloadFailed(t), pull'.pc # "resting" PROVE PullInv'
  BY <1>8, <1>10 DEF PullDownloadFailed, hub, catalogue, remote
<1>11. CASE RegisterInit \/ RegisterBatch \/ RegisterEdges
  <2>1. /\ pull.pc \in {"fetched", "opened", "batched"} /\ UNCHANGED <<blob, file>>
        /\ pull'.model = pull.model /\ pull'.needed = pull.needed
        /\ pull'.entry = pull.entry /\ pull'.todo = pull.todo
        /\ pull'.pc \in {"opened", "batched", "mirrored"}
    BY <1>0, <1>11 DEF RegisterInit, RegisterBatch, RegisterEdges, Pull, remote
  <2>2. \A t \in pull.needed : Sized(t) /\ Good(t) /\ Good(t)'
    BY <2>1 DEF Sized, PullInv, Good
  <2>3. pull'.pc \in {"batched", "mirrored"} => pull'.needed \subseteq tensors'
    BY <1>0, <1>11, <2>1 DEF RegisterInit, RegisterBatch, RegisterEdges, PullInv, Pull
  <2>4. pull'.pc = "mirrored" =>
          \A t \in pull.needed : pull.entry[t].base # NoTensor => deltas'[t] = pull.entry[t].base
    BY <1>0, <1>11 DEF RegisterInit, RegisterBatch, RegisterEdges, Mirrored, Pull
  <2> QED BY <1>0, <1>2, <2>1, <2>2, <2>3, <2>4 DEF PullInv, Mirrored
<1>12. CASE RegisterCommit \/ PullStop \/ LocalCommand \/ Backfill
  <2>1. pull'.pc = "resting"
    BY <1>12, RestingTyped DEF RegisterCommit, PullStop, LocalCommand, Backfill
  <2> QED BY <1>1, <2>1
<1>13. CASE \/ RemoteReplace \/ RemoteStop \/ UNCHANGED pullVars
            \/ \E t, b \in Tensors : RemoteEdge(t, b)
  <2>1. UNCHANGED <<blob, tensors, deltas, pull>>
    BY <1>13 DEF RemoteReplace, RemoteStop, RemoteEdge, pullVars, vars, hub, catalogue
  <2> QED BY <1>1, <1>4, <2>1
<1> QED BY <1>1, <1>5, <1>6, <1>7, <1>9, <1>10, <1>11, <1>12, <1>13 DEF PullNext

-----------------------------------------------------------------------------
(* What always holds *)

LEMMA PullInvInit == PullInit => RemoteInv /\ PullInv
<1> SUFFICES ASSUME PullInit PROVE RemoteInv /\ PullInv
  OBVIOUS
<1> USE ConstantsAssumption
<1>1. file = [t \in Tensors |-> Raw] /\ pending = NoTensor /\ pull.pc = "resting"
  BY RestingTyped DEF PullInit
<1>2. file \in Files /\ \A t \in Tensors : file[t].form = "raw"
  BY <1>1 DEF Files, Raw, Blob, Slot
<1>3. \A t \in Tensors : DecodableIn(file, t)
  BY <1>2, ChainIsClosed DEF DecodableIn
<1> QED BY <1>1, <1>2, <1>3 DEF RemoteInv, PullInv

\* The invariant of a pull holds in every run.
LEMMA AlwaysPullInv == PullSpec => [](PullTypeOK /\ RemoteInv /\ PullInv)
BY PullTypeInit, PullInvInit, PullTypeStep, RemoteStep, PullStep, PTL DEF PullSpec

\* All variables keep their types, the remote hub's and the pull's included; a
\* pull at work has the local hub to itself.
THEOREM PullTyped == PullSpec => []PullTypeOK
BY AlwaysPullInv, PTL

\* A pull that has registered its model has every tensor of the closure, it
\* decodes, and gc knows its base: for any closure, any earlier pulls that
\* stopped halfway and any local command between them, unless a remote blob was
\* rewritten between the two halves of the manifest.
THEOREM PullsAreWhole == PullSpec => []PullIsWhole
<1>1. PullTypeOK /\ RemoteInv /\ PullInv => PullIsWhole
  <2> SUFFICES ASSUME PullTypeOK, RemoteInv, PullInv, pull.pc = "mirrored", ManifestWhole,
                      NEW t \in pull.needed
               PROVE  /\ t \in tensors /\ Decodable(t)
                      /\ blob[t].form = "delta" => deltas[t] = blob[t].base
    BY DEF PullIsWhole
  <2> USE ConstantsAssumption
  <2>0. /\ pull.needed \in SUBSET Tensors /\ blob \in [Tensors -> Blob] /\ file \in Whole
        /\ \A x \in Tensors : blob[x].form = "delta" <=> blob[x].base # NoTensor
    BY DEF PullTypeOK, TypeInv, TypeOK, Pull
  <2>1. blob \in Files /\ file \in Files
    BY <2>0 DEF Files, Whole, Blob, Slot
  \* What a listed blob is: whole, and its header the manifest's and the remote's.
  <2>2. ASSUME NEW x \in pull.needed
        PROVE  /\ x \in tensors /\ blob[x].form \in {"raw", "delta"}
               /\ blob[x].form = "delta" =>
                     /\ file[x].form = "delta" /\ file[x].base = blob[x].base
                     /\ blob[x].base \in pull.needed /\ deltas[x] = blob[x].base
    <3>1. /\ Good(x) /\ x \in tensors /\ pull.entry[x].form \in {"raw", "delta"}
          /\ pull.entry[x].form = "delta" => file[x].form = "delta"
          /\ Mirrored(x) => deltas[x] = pull.entry[x].base /\ pull.entry[x].base \in pull.needed
      BY <2>0, <2>2 DEF PullInv, Sized, Mirrored
    <3>2. pull.entry[x].form = "delta" => pull.entry[x].base = file[x].base
      BY <2>2 DEF ManifestWhole
    <3> QED BY <2>0, <3>1, <3>2 DEF Good, Mirrored
  <2> DEFINE S == Chain(t)
  <2>3. S \in SUBSET Tensors /\ t \in S /\ ClosedIn(blob, S)
    BY <2>0, <2>1, ChainIsClosed DEF Chain
  <2>4. S \subseteq pull.needed
    <3>1. ClosedIn(blob, pull.needed)
      BY <2>2 DEF ClosedIn
    <3> QED BY <2>0, <3>1, ChainStaysInside DEF Chain
  <2>5. \E x \in S : blob[x].form = "raw"
    <3> HIDE DEF S
    <3> SUFFICES ASSUME \A x \in S : blob[x].form # "raw" PROVE FALSE
      OBVIOUS
    <3>1. \A x \in S : blob[x].form = "delta"
      BY <2>2, <2>4
    <3>2. ClosedIn(file, S)
      BY <2>2, <2>3, <2>4, <3>1 DEF ClosedIn
    <3>3. ChainIn(file, t) \subseteq S
      BY <2>3, <3>2, ChainStaysInside
    <3>4. \E x \in S : file[x].form = "raw"
      BY <2>0, <3>3 DEF RemoteInv, DecodableIn
    <3> QED BY <2>2, <2>4, <3>1, <3>4
  <2> QED BY <2>2, <2>5 DEF Decodable, DecodableIn, Chain
<1> QED BY <1>1, AlwaysPullInv, PTL

-----------------------------------------------------------------------------
(***************************************************************************)
(* What damage shows in the edges.  A stopped pull leaves deltas without   *)
(* edges, edges to bases that were never brought, even cycles: HeadersHave-*)
(* Edges and RowsDecodable are gone, and with them most of HubInv.  What   *)
(* stays is that a catalogued blob is whole, and that no command will      *)
(* touch a catalogued blob otherwise than to rewrite it.                   *)
(***************************************************************************)

RowsWhole == \A t \in tensors : blob[t].form \in {"raw", "delta"}

WriterSafe(w) ==
    /\ Role(w) /\ IngestSafe(w) /\ GcSafe(w)
    /\ proc[w].pc \in {"planned", "edged"} => proc[w].target \in tensors

SafeInv == NoDanglingReferences /\ RowsWhole /\ \A w \in Writers : WriterSafe(w)

\* Roles alone keep processes out of each other's way.
LEMMA RolesExclude ==
    ASSUME Serialised, TypeInv, NEW w \in Writers, NEW v \in Writers, v # w, Role(v)
    PROVE  /\ "gc" \in Runs[w] => proc[v].pc = "idle"
           /\ "ingest" \in Runs[w] => proc[v].pc \notin IngestPCs \union {"unlinking"}
           /\ "compress" \in Runs[w] => proc[v].pc \notin CompressPCs \union {"unlinking"}
<1>1. proc[v].pc \in {"idle", "unlinking"} \union IngestPCs \union CompressPCs
  BY DEF TypeInv, TypeOK, Proc
<1>2. Runs[v] \cap Runs[w] = {} /\ ("gc" \in Runs[w] => Runs[v] = {})
      /\ ("gc" \in Runs[v] => Runs[w] = {})
  BY DEF Serialised
<1> QED BY <1>1, <1>2 DEF Role

\* A writer that holds nothing is safe.
LEMMA IdleSafe ==
    ASSUME NEW w \in Writers, proc'[w].pc \in {"idle", "batched", "replaced"}, Role(w)'
    PROVE  WriterSafe(w)'
BY DEF WriterSafe, IngestSafe, GcSafe

\* Steps that change neither rows nor blobs.
LEMMA SafeQuiet ==
    ASSUME SafeInv, NoDanglingReferences', UNCHANGED <<tensors, blob>>,
           \A v \in Writers : proc'[v] = proc[v] \/ WriterSafe(v)'
    PROVE  SafeInv'
<1>1. RowsWhole'
  BY DEF SafeInv, RowsWhole
<1>2. ASSUME NEW v \in Writers PROVE WriterSafe(v)'
  <2>1. WriterSafe(v)
    BY DEF SafeInv
  <2>2. CASE proc'[v] = proc[v]
    BY <2>1, <2>2 DEF WriterSafe, Role, IngestSafe, GcSafe
  <2> QED BY <2>2
<1> QED BY <1>1, <1>2 DEF SafeInv

\* Steps that change one blob without a row.
LEMMA SafeBlobStep ==
    ASSUME SafeInv, TypeInv, NoDanglingReferences', UNCHANGED tensors,
           NEW x \in Tensors, x \notin tensors,
           \A y \in Tensors : y # x => blob'[y] = blob[y],
           NEW w \in Writers, WriterSafe(w)',
           \A v \in Writers : v # w => proc'[v] = proc[v] /\ proc[v].pc # "writing"
    PROVE  SafeInv'
<1>1. RowsWhole'
  BY DEF SafeInv, RowsWhole, TypeInv, TypeOK
<1>2. ASSUME NEW v \in Writers, v # w PROVE WriterSafe(v)'
  BY <1>2 DEF SafeInv, WriterSafe, Role, IngestSafe, GcSafe
<1> QED BY <1>1, <1>2 DEF SafeInv

\* The commands of the local hub keep its blobs safe.
LEMMA LocalSafeStep ==
    ASSUME Serialised PROVE TypeInv /\ SafeInv /\ [Next]_vars => SafeInv'
<1> SUFFICES ASSUME TypeInv, SafeInv, [Next]_vars PROVE SafeInv'
  OBVIOUS
<1>t. NoDanglingReferences'
  BY ReferenceStep DEF SafeInv
<1>p. /\ proc \in [Writers -> Proc] /\ tensors \in SUBSET Tensors
      /\ blob \in [Tensors -> Blob]
  BY DEF TypeInv, TypeOK
<1>f. \A v \in Writers : WriterSafe(v) /\ Role(v)
  BY DEF SafeInv, WriterSafe
<1>1. ASSUME NEW m \in Models, Rm(m) PROVE SafeInv'
  BY <1>1, <1>t, SafeQuiet DEF Rm
<1>2. ASSUME NEW w \in Writers, NEW m \in Models, IngestInit(w, m) PROVE SafeInv'
  <2>1. /\ UNCHANGED <<tensors, blob>>
        /\ \A v \in Writers : v # w => proc'[v] = proc[v]
        /\ proc'[w].pc = "opened" /\ proc'[w].open = {} /\ "ingest" \in Runs[w]
    BY <1>2, <1>p DEF IngestInit, May, Idle
  <2>2. WriterSafe(w)'
    BY <2>1 DEF WriterSafe, Role, IngestSafe, GcSafe, CompressPCs
  <2> QED BY <2>1, <2>2, <1>t, SafeQuiet
<1>3. ASSUME NEW w \in Writers, NEW c \in Content, IngestDedup(w, c) PROVE SafeInv'
  <2>1. /\ UNCHANGED <<tensors, blob>>
        /\ \A v \in Writers : v # w => proc'[v] = proc[v]
        /\ proc[w].pc = "opened" /\ proc'[w].pc = "writing"
        /\ proc'[w].open = proc[w].open
        /\ proc'[w].fresh = Wanted(c) \ tensors
        /\ proc'[w].todo = Wanted(c) \ tensors
    BY <1>3, <1>p DEF IngestDedup, catalogue, Proc
  <2>2. proc[w].open = {} /\ "ingest" \in Runs[w]
    BY <2>1, <1>f DEF WriterSafe, IngestSafe, Role, IngestPCs
  <2>3. WriterSafe(w)'
    BY <2>1, <2>2 DEF WriterSafe, Role, IngestSafe, GcSafe, CompressPCs
  <2> QED BY <2>1, <2>3, <1>t, SafeQuiet
<1>4. ASSUME NEW w \in Writers, NEW t \in Tensors,
             IngestCreate(w, t) \/ IngestFill(w, t)
      PROVE  SafeInv'
  <2>1. /\ UNCHANGED tensors
        /\ \A v \in Writers : v # w => proc'[v] = proc[v]
        /\ \A y \in Tensors : y # t => blob'[y] = blob[y]
        /\ proc[w].pc = "writing" /\ proc'[w].pc = "writing"
        /\ proc'[w].fresh = proc[w].fresh
        /\ t \in proc[w].todo \union proc[w].open
    BY <1>4, <1>p DEF IngestCreate, IngestFill, catalogue, Proc
  <2>2. /\ proc[w].fresh \cap tensors = {}
        /\ proc[w].todo \union proc[w].open \subseteq proc[w].fresh
        /\ \A x \in proc[w].fresh \ (proc[w].todo \union proc[w].open) :
              blob[x].form = "raw"
        /\ proc[w].fresh \in SUBSET Tensors
        /\ "ingest" \in Runs[w]
    BY <2>1, <1>f, <1>p DEF WriterSafe, IngestSafe, Role, IngestPCs, Proc
  <2>3. IngestSafe(w)'
    <3>1. CASE IngestCreate(w, t)
      <4>1. proc'[w].todo \union proc'[w].open = proc[w].todo \union proc[w].open
        BY <3>1, <1>p, <2>1 DEF IngestCreate, Proc
      <4> QED BY <2>1, <2>2, <4>1 DEF IngestSafe
    <3>2. CASE IngestFill(w, t)
      <4>1. proc'[w].todo = proc[w].todo /\ proc'[w].open = proc[w].open \ {t}
        BY <3>2, <1>p DEF IngestFill, Proc
      <4>2. blob'[t].form = "raw"
        BY <3>2, <1>p DEF IngestFill, Raw
      <4> QED BY <2>1, <2>2, <4>1, <4>2 DEF IngestSafe
    <3> QED BY <1>4, <3>1, <3>2
  <2>4. t \notin tensors
    BY <2>1, <2>2
  <2>5. \A v \in Writers : v # w => proc[v].pc # "writing"
    BY <1>f, <2>2, RolesExclude DEF IngestPCs
  <2>6. WriterSafe(w)'
    BY <2>1, <2>2, <2>3 DEF WriterSafe, Role, GcSafe, CompressPCs
  <2> QED BY <2>1, <2>4, <2>5, <2>6, <1>t, SafeBlobStep
<1>5. ASSUME NEW w \in Writers, IngestBatch(w) PROVE SafeInv'
  <2>1. /\ proc[w].pc = "writing" /\ proc'[w].pc = "batched"
        /\ proc[w].todo = {} /\ proc[w].open = {}
        /\ tensors' = tensors \union proc[w].fresh
        /\ UNCHANGED blob
        /\ \A v \in Writers : v # w => proc'[v] = proc[v]
    BY <1>5, <1>p DEF IngestBatch, Proc
  <2>2. /\ "ingest" \in Runs[w]
        /\ \A x \in proc[w].fresh : blob[x].form = "raw"
    BY <2>1, <1>f DEF WriterSafe, IngestSafe, Role, IngestPCs
  <2>3. RowsWhole'
    BY <2>1, <2>2 DEF SafeInv, RowsWhole
  <2>4. WriterSafe(w)'
    BY <2>1, <2>2, IdleSafe DEF Role, IngestPCs, CompressPCs
  <2>5. ASSUME NEW v \in Writers, v # w PROVE WriterSafe(v)'
    <3>1. proc[v].pc \notin IngestPCs \union {"unlinking"}
      BY <1>f, <2>2, <2>5, RolesExclude
    <3> QED BY <1>f, <2>1, <2>5, <3>1 DEF WriterSafe, Role, IngestSafe, GcSafe, IngestPCs
  <2> QED BY <1>t, <2>3, <2>4, <2>5 DEF SafeInv
<1>6. ASSUME NEW w \in Writers,
             \/ IngestCommit(w) \/ IngestFail(w) \/ CompressReturn(w) \/ Crash(w)
             \/ CompressFail(w)
      PROVE  SafeInv'
  <2>1. /\ UNCHANGED <<tensors, blob>>
        /\ \A v \in Writers : v # w => proc'[v] = proc[v]
        /\ proc'[w].pc = "idle"
    BY <1>6, <1>p
    DEF IngestCommit, IngestFail, CompressReturn, CompressFail, Crash, catalogue, Idle
  <2>2. WriterSafe(w)'
    BY <2>1, IdleSafe DEF Role, IngestPCs, CompressPCs
  <2> QED BY <2>1, <2>2, <1>t, SafeQuiet
<1>7. ASSUME NEW w \in Writers, GcOrphans(w) PROVE SafeInv'
  <2>1. /\ tensors' = tensors \ Orphans
        /\ UNCHANGED blob
        /\ \A v \in Writers : v # w => proc'[v] = proc[v]
        /\ proc'[w].pc = "unlinking" /\ proc'[w].todo = Orphans
        /\ "gc" \in Runs[w]
    BY <1>7, <1>p DEF GcOrphans, May, Idle
  <2>2. RowsWhole'
    BY <2>1 DEF SafeInv, RowsWhole
  <2>3. WriterSafe(w)'
    BY <2>1 DEF WriterSafe, Role, IngestSafe, GcSafe, IngestPCs, CompressPCs
  <2>4. ASSUME NEW v \in Writers, v # w PROVE WriterSafe(v)'
    BY <1>f, <2>1, <2>4, RolesExclude, IdleSafe DEF Role, IngestPCs, CompressPCs
  <2> QED BY <1>t, <2>2, <2>3, <2>4 DEF SafeInv
<1>8. ASSUME NEW w \in Writers, NEW t \in Tensors, GcStep(w, t)
      PROVE  /\ UNCHANGED tensors /\ t \notin tensors
             /\ \A v \in Writers : v # w => proc'[v] = proc[v] /\ proc[v].pc # "writing"
             /\ WriterSafe(w)'
  <2>1. /\ UNCHANGED tensors
        /\ \A v \in Writers : v # w => proc'[v] = proc[v]
        /\ proc[w].pc = "unlinking" /\ t \in proc[w].todo
        /\ proc'[w].pc \in {"idle", "unlinking"}
        /\ proc'[w].pc = "unlinking" => proc'[w].todo \subseteq proc[w].todo
    BY <1>8, <1>p DEF GcStep, catalogue, Idle, Proc
  <2>2. "gc" \in Runs[w] /\ proc[w].todo \cap tensors = {}
    BY <1>f, <2>1 DEF WriterSafe, Role, GcSafe
  <2>3. \A v \in Writers : v # w => proc[v].pc # "writing"
    BY <1>f, <2>2, RolesExclude
  <2> QED BY <2>1, <2>2, <2>3 DEF WriterSafe, Role, IngestSafe, GcSafe, IngestPCs, CompressPCs
<1>9. ASSUME NEW w \in Writers, NEW t \in Tensors, GcUnlink(w, t) PROVE SafeInv'
  <2>1. \A y \in Tensors : y # t => blob'[y] = blob[y]
    BY <1>9, <1>p DEF GcUnlink
  <2>2. GcStep(w, t)
    BY <1>9 DEF GcUnlink
  <2> QED BY <1>8, <2>1, <2>2, <1>t, SafeBlobStep
<1>10. ASSUME NEW w \in Writers, NEW t \in Tensors, GcUnlinkError(w, t) PROVE SafeInv'
  BY <1>8, <1>10, <1>t, SafeQuiet DEF GcUnlinkError
<1>11. ASSUME NEW w \in Writers, NEW t \in Tensors, NEW b \in Tensors,
              CompressPlan(w, t, b)
       PROVE  SafeInv'
  <2>1. /\ UNCHANGED <<tensors, blob>> /\ t \in tensors
        /\ \A v \in Writers : v # w => proc'[v] = proc[v]
        /\ proc'[w].pc = "planned" /\ proc'[w].target = t
        /\ "compress" \in Runs[w]
    BY <1>11, <1>p DEF CompressPlan, May, catalogue, Idle
  <2>2. WriterSafe(w)'
    BY <2>1 DEF WriterSafe, Role, IngestSafe, GcSafe, IngestPCs
  <2> QED BY <2>1, <2>2, <1>t, SafeQuiet
<1>12. ASSUME NEW w \in Writers, CompressEdge(w) PROVE SafeInv'
  <2>1. /\ UNCHANGED <<tensors, blob>>
        /\ \A v \in Writers : v # w => proc'[v] = proc[v]
        /\ proc[w].pc = "planned" /\ proc'[w].pc = "edged"
        /\ proc'[w].target = proc[w].target
    BY <1>12, <1>p DEF CompressEdge, Proc
  <2>2. WriterSafe(w)'
    BY <1>f, <2>1 DEF WriterSafe, Role, IngestSafe, GcSafe, IngestPCs, CompressPCs
  <2> QED BY <2>1, <2>2, <1>t, SafeQuiet
<1>13. ASSUME NEW w \in Writers, CompressReplace(w) PROVE SafeInv'
  <2> DEFINE t == proc[w].target
  <2>1. /\ UNCHANGED tensors
        /\ \A x \in Tensors : x # t => blob'[x] = blob[x]
        /\ t \in Tensors => blob'[t].form = "delta"
        /\ \A v \in Writers : v # w => proc'[v] = proc[v]
        /\ proc[w].pc = "edged" /\ proc'[w].pc = "replaced"
    BY <1>13, <1>p DEF CompressReplace, catalogue, Proc, Delta
  <2>2. t \in tensors /\ "compress" \in Runs[w]
    BY <1>f, <2>1 DEF WriterSafe, Role, CompressPCs
  <2> HIDE DEF t
  <2>3. RowsWhole'
    BY <1>p, <2>1, <2>2 DEF SafeInv, RowsWhole
  <2>4. WriterSafe(w)'
    BY <2>1, <2>2, IdleSafe DEF Role, IngestPCs, CompressPCs
  <2>5. ASSUME NEW v \in Writers, v # w PROVE WriterSafe(v)'
    <3>1. proc[v].fresh \in SUBSET Tensors
      BY <1>p DEF Proc
    <3> QED BY <1>f, <2>1, <2>2, <2>5, <3>1 DEF WriterSafe, Role, IngestSafe, GcSafe
  <2> QED BY <1>t, <2>3, <2>4, <2>5 DEF SafeInv
<1>14. CASE UNCHANGED vars
  BY <1>14, <1>t, SafeQuiet DEF vars
<1> QED
  BY <1>1, <1>2, <1>3, <1>4, <1>5, <1>6, <1>7, <1>9, <1>10, <1>11, <1>12, <1>13, <1>14
  DEF Next

\* The steps of a pull: the commands of the local hub wait meanwhile.
LEMMA PullSafeStep ==
    ASSUME Serialised
    PROVE  PullTypeOK /\ RemoteInv /\ PullInv /\ SafeInv /\ [PullNext]_pullVars => SafeInv'
<1> SUFFICES ASSUME PullTypeOK, RemoteInv, PullInv, SafeInv, [PullNext]_pullVars
             PROVE  SafeInv'
  OBVIOUS
<1> USE ConstantsAssumption
<1>p. /\ TypeInv /\ pull \in Pull /\ file \in Whole /\ tensors \in SUBSET Tensors
      /\ blob \in [Tensors -> Blob] /\ mappings \in [Models -> Content]
      /\ deltas \in [Tensors -> Slot] /\ pull.needed \in SUBSET Tensors
      /\ pull.pc # "resting" =>
            /\ pull.model \in Models /\ Offers[pull.model] \in Content
            /\ \A w \in Writers : proc[w].pc = "idle"
  BY OfferTyped DEF PullTypeOK, TypeInv, TypeOK, Pull
<1>d. Referenced \subseteq tensors /\ \A t \in Tensors : deltas[t] # NoTensor => t \in tensors
  BY DEF SafeInv, NoDanglingReferences
<1>m. \A m \in Models, q \in Params : mappings[m][q] # NoTensor => mappings[m][q] \in tensors
  BY <1>p, <1>d, ReferencedElements
<1>1. CASE LocalCommand
  BY <1>1, <1>p, LocalSafeStep DEF LocalCommand
<1>2. ASSUME UNCHANGED hub PROVE SafeInv'
  BY <1>2, SafeQuiet DEF hub, catalogue, SafeInv, NoDanglingReferences, Referenced
<1>3. CASE Backfill
  <2>1. UNCHANGED <<tensors, mappings, blob, proc>>
    BY <1>3 DEF Backfill
  <2>2. NoDanglingReferences'
    BY <1>3, <1>p, <1>d, <2>1 DEF Backfill, NoDanglingReferences, Referenced
  <2> QED BY <2>1, <2>2, SafeQuiet
<1>4. ASSUME NEW t \in Tensors, PullDownload(t) PROVE SafeInv'
  <2>1. /\ UNCHANGED <<tensors, mappings, deltas, proc>> /\ blob' = [blob EXCEPT ![t] = file[t]]
        /\ \A w \in Writers : proc[w].pc = "idle"
    BY <1>4, <1>p DEF PullDownload, catalogue
  <2>2. NoDanglingReferences'
    BY <1>d, <2>1 DEF NoDanglingReferences, Referenced
  <2>3. RowsWhole'
    BY <1>p, <2>1 DEF SafeInv, RowsWhole, Whole
  <2>4. \A w \in Writers : WriterSafe(w)'
    BY <2>1, IdleSafe DEF Role, IngestPCs, CompressPCs
  <2> QED BY <2>2, <2>3, <2>4 DEF SafeInv
<1>5. CASE RegisterInit
  <2>1. UNCHANGED <<tensors, deltas, blob, proc>> /\ pull.pc # "resting"
    BY <1>5 DEF RegisterInit
  <2>2. mappings' = [mappings EXCEPT ![pull.model] = Empty]
    BY <1>5 DEF RegisterInit
  <2>3. Referenced' \subseteq Referenced
    BY <1>p, <2>1, <2>2 DEF Referenced, Wanted, Empty
  <2>4. NoDanglingReferences'
    BY <1>d, <2>1, <2>3 DEF NoDanglingReferences
  <2> QED BY <2>1, <2>4, SafeQuiet
<1>6. CASE RegisterBatch
  <2>1. /\ pull.pc = "opened" /\ UNCHANGED <<deltas, blob, proc>>
        /\ tensors' = tensors \union pull.needed
        /\ mappings' = [mappings EXCEPT ![pull.model] = Offers[pull.model]]
        /\ \A w \in Writers : proc[w].pc = "idle"
    BY <1>6, <1>p DEF RegisterBatch
  <2>2. /\ Wanted(Offers[pull.model]) \subseteq pull.needed
        /\ \A t \in pull.needed : blob[t].form \in {"raw", "delta"}
    BY <2>1 DEF PullInv, Sized, Good
  <2>3. Referenced' \subseteq tensors'
    BY <1>p, <1>d, <2>1, <2>2 DEF Referenced, Wanted
  <2>4. NoDanglingReferences'
    BY <1>d, <2>1, <2>3 DEF NoDanglingReferences
  <2>5. RowsWhole'
    BY <2>1, <2>2 DEF SafeInv, RowsWhole
  <2>6. \A w \in Writers : WriterSafe(w)'
    BY <2>1, IdleSafe DEF Role, IngestPCs, CompressPCs
  <2> QED BY <2>4, <2>5, <2>6 DEF SafeInv
<1>7. CASE RegisterEdges
  <2>1. UNCHANGED <<tensors, mappings, blob, proc>>
    BY <1>7 DEF RegisterEdges
  <2>2. \A t \in Tensors : Mirrored(t) => t \in tensors
    BY <1>7 DEF RegisterEdges, PullInv, Mirrored
  <2>3. NoDanglingReferences'
    BY <1>7, <1>d, <2>1, <2>2 DEF RegisterEdges, NoDanglingReferences, Referenced
  <2> QED BY <2>1, <2>3, SafeQuiet
<1>8. CASE RegisterCommit
  BY <1>8, SafeQuiet DEF RegisterCommit, SafeInv, NoDanglingReferences, Referenced
<1> QED
  BY <1>1, <1>2, <1>3, <1>4, <1>5, <1>6, <1>7, <1>8
  DEF PullNext, RemoteEdge, RemoteReplace, RemoteStop, PullAsk, PullSize, PullCheck,
      PullDownloadFailed, PullStop, pullVars, vars, hub, catalogue

\* The local hub stays safe in every run with pulls.
LEMMA AlwaysSafe == ASSUME Serialised PROVE PullSpec => [](PullTypeOK /\ SafeInv)
<1>1. PullInit => SafeInv
  <2> SUFFICES ASSUME PullInit PROVE SafeInv
    OBVIOUS
  <2>1. PICK m \in Models, c \in Content :
           /\ mappings = [n \in Models |-> IF n = m THEN c ELSE Empty]
           /\ tensors = Wanted(c)
           /\ blob = [t \in Tensors |-> IF t \in Wanted(c) THEN Raw ELSE Absent]
    BY DEF PullInit
  <2>2. deltas = [t \in Tensors |-> NoTensor] /\ proc = [w \in Writers |-> Idle]
    BY DEF PullInit
  <2>3. NoDanglingReferences
    BY <2>1, <2>2 DEF NoDanglingReferences, Referenced, Wanted, Empty
  <2>4. RowsWhole
    BY <2>1 DEF RowsWhole, Raw, Wanted, Content, Slot
  <2>5. \A w \in Writers : WriterSafe(w)
    BY <2>2 DEF WriterSafe, Role, IngestSafe, GcSafe, Idle, IngestPCs, CompressPCs
  <2> QED BY <2>3, <2>4, <2>5 DEF SafeInv
<1> QED
  BY <1>1, PullTypeInit, PullInvInit, PullTypeStep, RemoteStep, PullStep, PullSafeStep, PTL
  DEF PullSpec

\* A ready model that cannot be read has a trace in the catalogue: an edge that is
\* missing, goes to a tensor without a row or closes a cycle.  Whatever pulls stop
\* halfway, and whatever ingests, gcs, compressions and backfills work on what they
\* left, nothing else takes a ready model away.
THEOREM DamageShowsInEdges == ASSUME Serialised PROVE PullSpec => []EdgesTellDamage
<1>1. PullTypeOK /\ SafeInv => EdgesTellDamage
  <2> SUFFICES ASSUME PullTypeOK, SafeInv, HeadersHaveEdges, EdgesAcyclic,
                      NEW m \in Models, NEW t \in Wanted(mappings[m])
               PROVE  t \in tensors /\ Decodable(t)
    BY DEF EdgesTellDamage, ReadyModelsDecodable
  <2> USE ConstantsAssumption
  <2>1. /\ blob \in Files /\ tensors \in SUBSET Tensors
    BY DEF PullTypeOK, TypeInv, TypeOK, Files, Blob, Slot
  <2>2. t \in tensors
    BY DEF SafeInv, NoDanglingReferences, Referenced
  <2> DEFINE S == Chain(t)
  <2>3. S \in SUBSET Tensors /\ t \in S /\ ClosedIn(blob, S)
    BY <2>1, <2>2, ChainIsClosed DEF Chain
  <2>4. S \subseteq tensors
    <3>1. ClosedIn(blob, tensors)
      BY DEF HeadersHaveEdges, ClosedIn
    <3> QED BY <2>1, <2>2, <3>1, ChainStaysInside DEF Chain
  <2>5. \E x \in S : blob[x].form = "raw"
    <3> HIDE DEF S
    <3>1. PICK x \in S : deltas[x] \notin S
      BY <2>3 DEF EdgesAcyclic
    <3>2. blob[x].form # "delta"
      BY <2>3, <2>4, <3>1 DEF HeadersHaveEdges, ClosedIn
    <3> QED BY <2>4, <3>2 DEF SafeInv, RowsWhole
  <2> QED BY <2>2, <2>5 DEF Decodable, DecodableIn, Chain
<1> QED BY <1>1, AlwaysSafe, PTL
=============================================================================
