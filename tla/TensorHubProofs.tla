--------------------------- MODULE TensorHubProofs ---------------------------
(***************************************************************************)
(* Proofs about TensorHub, for any number of tensors, models, parameters   *)
(* and processes.                                                          *)
(***************************************************************************)
EXTENDS TensorHub, TLAPS

-----------------------------------------------------------------------------
(* Chains.  B is a set of files in which every delta names a base. *)

Files == {B \in [Tensors -> Blob] :
            \A t \in Tensors : B[t].form = "delta" => B[t].base \in Tensors}

\* A chain holds its first blob and, with a delta, its base.
LEMMA ChainIsClosed ==
    ASSUME NEW B \in Files, NEW t \in Tensors
    PROVE  /\ ChainIn(B, t) \in SUBSET Tensors
           /\ t \in ChainIn(B, t)
           /\ ClosedIn(B, ChainIn(B, t))
<1>1. ChainIn(B, t) \in SUBSET Tensors /\ t \in ChainIn(B, t)
  BY DEF ChainIn
<1>2. ASSUME NEW x \in ChainIn(B, t), B[x].form = "delta"
      PROVE  B[x].base \in ChainIn(B, t)
  <2>1. x \in Tensors /\ B[x].base \in Tensors
    BY <1>2 DEF ChainIn, Files
  <2>2. ASSUME NEW S \in SUBSET Tensors, t \in S, ClosedIn(B, S)
        PROVE  B[x].base \in S
    BY <1>2, <2>2 DEF ChainIn, ClosedIn
  <2> QED BY <2>1, <2>2 DEF ChainIn
<1> QED BY <1>1, <1>2 DEF ClosedIn

\* A walk does not leave a closed set it starts in.
LEMMA ChainStaysInside ==
    ASSUME NEW B, NEW t, NEW S \in SUBSET Tensors, t \in S, ClosedIn(B, S)
    PROVE  ChainIn(B, t) \subseteq S
BY DEF ChainIn

\* What lies outside a closed set decides nothing about the inside.
LEMMA ChainsInsideAgree ==
    ASSUME NEW B \in Files, NEW C \in Files, NEW R \in SUBSET Tensors,
           ClosedIn(B, R), \A x \in R : C[x] = B[x],
           NEW t \in R
    PROVE  /\ ChainIn(C, t) = ChainIn(B, t)
           /\ DecodableIn(C, t) <=> DecodableIn(B, t)
<1>1. ChainIn(B, t) \subseteq R
  BY ChainStaysInside
<1>2. ClosedIn(C, R)
  BY DEF ClosedIn
<1>3. ChainIn(C, t) \subseteq R
  BY <1>2, ChainStaysInside
<1>4. ClosedIn(C, ChainIn(B, t)) /\ ClosedIn(B, ChainIn(C, t))
  BY <1>1, <1>3, ChainIsClosed DEF ClosedIn
<1>5. ChainIn(C, t) = ChainIn(B, t)
  BY <1>4, ChainIsClosed, ChainStaysInside
<1> QED BY <1>1, <1>5 DEF DecodableIn

\* Rewriting a raw blob as a delta keeps every tensor decodable when the base
\* is decodable without it: this is what compress_pair's walk is for.
LEMMA RewriteKeepsDecodable ==
    ASSUME NEW B \in Files, NEW t \in Tensors, NEW b \in Tensors,
           B[t].form = "raw", t \notin ChainIn(B, b), DecodableIn(B, b),
           NEW C \in Files, C = [B EXCEPT ![t] = Delta(b)],
           NEW u \in Tensors, DecodableIn(B, u)
    PROVE  DecodableIn(C, u)
<1> DEFINE S == ChainIn(C, u)
<1>1. S \in SUBSET Tensors /\ u \in S /\ ClosedIn(C, S)
  BY ChainIsClosed
<1>2. /\ C[t].form = "delta" /\ C[t].base = b
      /\ \A x \in Tensors : x # t => C[x] = B[x]
  BY DEF Files, Delta
<1> HIDE DEF S
<1>3. CASE t \notin S
  <2>1. ClosedIn(B, S)
    BY <1>1, <1>2, <1>3 DEF ClosedIn
  <2>2. ChainIn(B, u) \subseteq S
    BY <1>1, <2>1, ChainStaysInside
  <2> QED BY <1>1, <1>2, <1>3, <2>2 DEF DecodableIn, S
<1>4. CASE t \in S
  <2>1. b \in S
    BY <1>1, <1>2, <1>4 DEF ClosedIn
  <2> DEFINE I == S \cap ChainIn(B, b)
  <2>2. I \in SUBSET Tensors /\ b \in I
    BY <1>1, <2>1, ChainIsClosed
  <2>3. ClosedIn(B, I)
    BY <1>1, <1>2, ChainIsClosed DEF ClosedIn
  <2>4. ChainIn(B, b) \subseteq I
    BY <2>2, <2>3, ChainStaysInside
  <2> QED BY <1>1, <1>2, <2>4 DEF DecodableIn, S
<1> QED BY <1>3, <1>4

-----------------------------------------------------------------------------
(* Type correctness *)

\* What a process holds while it is in the middle of a command.
ProcTyped ==
    \A w \in Writers :
        /\ proc[w].pc \in IngestPCs => proc[w].model \in Models
        /\ proc[w].pc \in CompressPCs =>
              proc[w].target \in Tensors /\ proc[w].base \in Tensors

TypeInv == TypeOK /\ ProcTyped

\* The record of a process that runs no command.
LEMMA IdleTyped == Idle \in Proc /\ Idle.pc = "idle" /\ Empty \in Content
BY DEF Idle, Proc, Empty, Content, Slot, IngestPCs, CompressPCs

\* Steps that give one process a new record, and leave the others alone.
LEMMA ProcStep ==
    ASSUME TypeInv, NEW w \in Writers, NEW r \in Proc,
           proc' = [proc EXCEPT ![w] = r],
           r.pc \in IngestPCs => r.model \in Models,
           r.pc \in CompressPCs => r.target \in Tensors /\ r.base \in Tensors
    PROVE  proc' \in [Writers -> Proc] /\ ProcTyped'
BY DEF TypeInv, TypeOK, ProcTyped

\* No step leaves the types.
LEMMA TypeStep == TypeInv /\ [Next]_vars => TypeInv'
<1> SUFFICES ASSUME TypeInv, [Next]_vars PROVE TypeInv'
  OBVIOUS
<1> USE ConstantsAssumption
<1>0. /\ tensors \in SUBSET Tensors
      /\ mappings \in [Models -> Content]
      /\ status \in [Models -> Statuses]
      /\ deltas \in [Tensors -> Slot]
      /\ blob \in [Tensors -> Blob]
      /\ \A t \in Tensors : blob[t].form = "delta" <=> blob[t].base # NoTensor
      /\ proc \in [Writers -> Proc]
  BY DEF TypeInv, TypeOK
<1>1. ASSUME NEW m \in Models, Rm(m) PROVE TypeInv'
  <2>1. mappings' \in [Models -> Content] /\ status' \in [Models -> Statuses]
    BY <1>0, <1>1, IdleTyped DEF Rm, Statuses
  <2> QED BY <1>0, <1>1, <2>1 DEF Rm, TypeInv, TypeOK, ProcTyped
<1>2. ASSUME NEW w \in Writers, NEW m \in Models, IngestInit(w, m)
      PROVE  TypeInv'
  <2> DEFINE r == [Idle EXCEPT !.pc = "opened", !.model = m]
  <2>1. mappings' \in [Models -> Content] /\ status' \in [Models -> Statuses]
    BY <1>0, <1>2, IdleTyped DEF IngestInit, Statuses
  <2>2. r \in Proc /\ r.pc = "opened" /\ r.model = m
    BY IdleTyped DEF Idle, Proc, IngestPCs
  <2>3. proc' \in [Writers -> Proc] /\ ProcTyped'
    BY <1>2, <2>2, ProcStep DEF IngestInit, CompressPCs
  <2> QED BY <1>0, <1>2, <2>1, <2>3 DEF IngestInit, TypeInv, TypeOK
<1>3. ASSUME NEW w \in Writers, NEW c \in Content, IngestDedup(w, c)
      PROVE  TypeInv'
  <2> DEFINE n == Wanted(c) \ tensors
             r == [proc[w] EXCEPT !.pc = "writing", !.want = c,
                                  !.fresh = n, !.todo = n]
  <2>1. n \in SUBSET Tensors
    BY DEF Wanted, Content, Slot
  <2>2. r \in Proc /\ r.pc = "writing" /\ r.model = proc[w].model
    <3>1. PICK p \in Proc : p = proc[w]
      BY <1>0
    <3>2. r = [p EXCEPT !.pc = "writing", !.want = c, !.fresh = n, !.todo = n]
      BY <3>1
    <3> HIDE DEF n, r
    <3> QED BY <2>1, <3>1, <3>2 DEF Proc, IngestPCs
  <2>3. proc' \in [Writers -> Proc] /\ ProcTyped'
    <3>1. proc' = [proc EXCEPT ![w] = r]
      BY <1>3 DEF IngestDedup
    <3>2. proc[w].model \in Models
      BY <1>3 DEF IngestDedup, TypeInv, ProcTyped, IngestPCs
    <3> QED BY <2>2, <3>1, <3>2, ProcStep DEF CompressPCs
  <2> QED BY <1>0, <1>3, <2>3 DEF IngestDedup, catalogue, TypeInv, TypeOK
<1>4. ASSUME NEW w \in Writers, NEW t \in Tensors, IngestCreate(w, t)
      PROVE  TypeInv'
  <2> DEFINE r == [proc[w] EXCEPT !.todo = @ \ {t}, !.open = @ \union {t}]
  <2>1. r \in Proc /\ r.pc = proc[w].pc /\ r.model = proc[w].model
    <3>1. PICK p \in Proc : p = proc[w]
      BY <1>0
    <3>2. r = [p EXCEPT !.todo = p.todo \ {t}, !.open = p.open \union {t}]
      BY <3>1
    <3> HIDE DEF r
    <3> QED BY <3>1, <3>2 DEF Proc
  <2>2. proc' \in [Writers -> Proc] /\ ProcTyped'
    <3>1. proc' = [proc EXCEPT ![w] = r]
      BY <1>4 DEF IngestCreate
    <3>2. proc[w].pc = "writing" /\ proc[w].model \in Models
      BY <1>4 DEF IngestCreate, TypeInv, ProcTyped, IngestPCs
    <3> QED BY <2>1, <3>1, <3>2, ProcStep DEF CompressPCs
  <2>3. /\ blob' \in [Tensors -> Blob]
        /\ \A u \in Tensors : blob'[u].form = "delta" <=> blob'[u].base # NoTensor
    BY <1>0, <1>4 DEF IngestCreate, Blob, Partial, Slot
  <2> QED BY <1>0, <1>4, <2>2, <2>3 DEF IngestCreate, catalogue, TypeInv, TypeOK
<1>5. ASSUME NEW w \in Writers, NEW t \in Tensors, IngestFill(w, t)
      PROVE  TypeInv'
  <2> DEFINE r == [proc[w] EXCEPT !.open = @ \ {t}]
  <2>1. r \in Proc /\ r.pc = proc[w].pc /\ r.model = proc[w].model
    <3>1. PICK p \in Proc : p = proc[w]
      BY <1>0
    <3>2. r = [p EXCEPT !.open = p.open \ {t}]
      BY <3>1
    <3> HIDE DEF r
    <3> QED BY <3>1, <3>2 DEF Proc
  <2>2. proc' \in [Writers -> Proc] /\ ProcTyped'
    <3>1. proc' = [proc EXCEPT ![w] = r]
      BY <1>5 DEF IngestFill
    <3>2. proc[w].pc = "writing" /\ proc[w].model \in Models
      BY <1>5 DEF IngestFill, TypeInv, ProcTyped, IngestPCs
    <3> QED BY <2>1, <3>1, <3>2, ProcStep DEF CompressPCs
  <2>3. /\ blob' \in [Tensors -> Blob]
        /\ \A u \in Tensors : blob'[u].form = "delta" <=> blob'[u].base # NoTensor
    BY <1>0, <1>5 DEF IngestFill, Blob, Raw, Slot
  <2> QED BY <1>0, <1>5, <2>2, <2>3 DEF IngestFill, catalogue, TypeInv, TypeOK
<1>6. ASSUME NEW w \in Writers, IngestBatch(w) PROVE TypeInv'
  <2> DEFINE r == [proc[w] EXCEPT !.pc = "batched"]
             up == [q \in Params |->
                      IF proc[w].want[q] = NoTensor
                      THEN mappings[proc[w].model][q] ELSE proc[w].want[q]]
  <2>1. r \in Proc /\ r.pc = "batched" /\ r.model = proc[w].model
    <3>1. PICK p \in Proc : p = proc[w]
      BY <1>0
    <3>2. r = [p EXCEPT !.pc = "batched"]
      BY <3>1
    <3> HIDE DEF r
    <3> QED BY <3>1, <3>2 DEF Proc, IngestPCs
  <2>2. proc[w].pc = "writing" /\ proc[w].model \in Models
    BY <1>6 DEF IngestBatch, TypeInv, ProcTyped, IngestPCs
  <2>3. proc' \in [Writers -> Proc] /\ ProcTyped'
    <3>1. proc' = [proc EXCEPT ![w] = r]
      BY <1>6 DEF IngestBatch
    <3> QED BY <2>1, <2>2, <3>1, ProcStep DEF CompressPCs
  <2>4. proc[w].want \in Content /\ proc[w].fresh \in SUBSET Tensors
    BY <1>0 DEF Proc
  <2>5. up \in Content
    BY <1>0, <2>2, <2>4 DEF Content
  <2>6. mappings' = [mappings EXCEPT ![proc[w].model] = up]
    BY <1>0, <1>6, <2>2 DEF IngestBatch
  <2>7. tensors' \in SUBSET Tensors
    BY <1>0, <1>6, <2>4 DEF IngestBatch
  <2> HIDE DEF up
  <2>8. status' = status /\ deltas' = deltas /\ blob' = blob
    BY <1>6 DEF IngestBatch
  <2>9. mappings' \in [Models -> Content]
    BY <1>0, <2>5, <2>6
  <2> QED BY <1>0, <2>3, <2>7, <2>8, <2>9 DEF TypeInv, TypeOK
<1>7. ASSUME NEW w \in Writers, IngestCommit(w) PROVE TypeInv'
  <2>1. proc' \in [Writers -> Proc] /\ ProcTyped'
    BY <1>7, IdleTyped, ProcStep DEF IngestCommit, IngestPCs, CompressPCs
  <2>2. status' \in [Models -> Statuses]
    BY <1>0, <1>7 DEF IngestCommit, Statuses
  <2> QED BY <1>0, <1>7, <2>1, <2>2 DEF IngestCommit, TypeInv, TypeOK
<1>8. ASSUME NEW w \in Writers, IngestFail(w) PROVE TypeInv'
  <2>1. proc' \in [Writers -> Proc] /\ ProcTyped'
    BY <1>8, IdleTyped, ProcStep DEF IngestFail, IngestPCs, CompressPCs
  <2>2. status' \in [Models -> Statuses]
    BY <1>0, <1>8 DEF IngestFail, Statuses
  <2> QED BY <1>0, <1>8, <2>1, <2>2 DEF IngestFail, TypeInv, TypeOK
<1>9. ASSUME NEW w \in Writers, GcOrphans(w) PROVE TypeInv'
  <2> DEFINE r == [Idle EXCEPT !.pc = "unlinking", !.todo = Orphans]
  <2>1. Orphans \in SUBSET Tensors
    BY <1>0 DEF Orphans
  <2>2. r \in Proc /\ r.pc = "unlinking"
    BY <2>1, IdleTyped DEF Idle, Proc
  <2>3. proc' \in [Writers -> Proc] /\ ProcTyped'
    BY <1>9, <2>2, ProcStep DEF GcOrphans, IngestPCs, CompressPCs
  <2>4. tensors' \in SUBSET Tensors /\ deltas' \in [Tensors -> Slot]
    BY <1>0, <1>9 DEF GcOrphans, Slot
  <2>5. mappings' \in [Models -> Content]
    BY <1>0, <1>9 DEF GcOrphans, Content, Slot
  <2> QED BY <1>0, <1>9, <2>3, <2>4, <2>5 DEF GcOrphans, TypeInv, TypeOK
<1>10. ASSUME NEW w \in Writers, NEW t \in Tensors, GcStep(w, t)
       PROVE  proc' \in [Writers -> Proc] /\ ProcTyped'
  <2> DEFINE r == IF proc[w].todo = {t} THEN Idle
                  ELSE [proc[w] EXCEPT !.todo = proc[w].todo \ {t}]
  <2>1. proc' = [proc EXCEPT ![w] = r] /\ proc[w].pc = "unlinking"
    BY <1>0, <1>10 DEF GcStep
  <2>2. r \in Proc /\ r.pc \in {"idle", "unlinking"}
    BY <1>0, <2>1, IdleTyped DEF Proc
  <2> HIDE DEF r
  <2> QED BY <2>1, <2>2, ProcStep DEF IngestPCs, CompressPCs
<1>11. ASSUME NEW w \in Writers, NEW t \in Tensors, GcUnlink(w, t)
       PROVE  TypeInv'
  <2>1. /\ blob' \in [Tensors -> Blob]
        /\ \A u \in Tensors : blob'[u].form = "delta" <=> blob'[u].base # NoTensor
    BY <1>0, <1>11 DEF GcUnlink, Blob, Absent, Slot
  <2> QED BY <1>0, <1>10, <1>11, <2>1 DEF GcUnlink, GcStep, catalogue, TypeInv, TypeOK
<1>12. ASSUME NEW w \in Writers, NEW t \in Tensors, GcUnlinkError(w, t)
       PROVE  TypeInv'
  BY <1>0, <1>10, <1>12 DEF GcUnlinkError, GcStep, catalogue, TypeInv, TypeOK
<1>13. ASSUME NEW w \in Writers, NEW t \in Tensors, NEW b \in Tensors,
              CompressPlan(w, t, b)
       PROVE  TypeInv'
  <2> DEFINE r == [Idle EXCEPT !.pc = "planned", !.target = t, !.base = b]
  <2>1. r \in Proc /\ r.pc = "planned" /\ r.target = t /\ r.base = b
    BY IdleTyped DEF Idle, Proc, Slot, CompressPCs
  <2>2. proc' \in [Writers -> Proc] /\ ProcTyped'
    BY <1>13, <2>1, ProcStep DEF CompressPlan, IngestPCs
  <2> QED BY <1>0, <1>13, <2>2 DEF CompressPlan, catalogue, TypeInv, TypeOK
<1>14. ASSUME NEW w \in Writers, CompressEdge(w) PROVE TypeInv'
  <2> DEFINE r == [proc[w] EXCEPT !.pc = "edged"]
  <2>1. proc[w].target \in Tensors /\ proc[w].base \in Tensors
    BY <1>14 DEF CompressEdge, TypeInv, ProcTyped, CompressPCs
  <2>2. /\ r \in Proc /\ r.pc = "edged"
        /\ r.target = proc[w].target /\ r.base = proc[w].base
    BY <1>0 DEF Proc, CompressPCs
  <2>3. proc' \in [Writers -> Proc] /\ ProcTyped'
    BY <1>14, <2>1, <2>2, ProcStep DEF CompressEdge, IngestPCs
  <2>4. deltas' \in [Tensors -> Slot]
    BY <1>0, <1>14, <2>1 DEF CompressEdge, Slot
  <2> QED BY <1>0, <1>14, <2>3, <2>4 DEF CompressEdge, TypeInv, TypeOK
<1>15. ASSUME NEW w \in Writers, CompressReplace(w) PROVE TypeInv'
  <2> DEFINE r == [proc[w] EXCEPT !.pc = "replaced"]
  <2>1. proc[w].target \in Tensors /\ proc[w].base \in Tensors
    BY <1>15 DEF CompressReplace, TypeInv, ProcTyped, CompressPCs
  <2>2. /\ r \in Proc /\ r.pc = "replaced"
        /\ r.target = proc[w].target /\ r.base = proc[w].base
    BY <1>0 DEF Proc, CompressPCs
  <2>3. proc' \in [Writers -> Proc] /\ ProcTyped'
    BY <1>15, <2>1, <2>2, ProcStep DEF CompressReplace, IngestPCs
  <2>4. /\ blob' \in [Tensors -> Blob]
        /\ \A u \in Tensors : blob'[u].form = "delta" <=> blob'[u].base # NoTensor
    BY <1>0, <1>15, <2>1 DEF CompressReplace, Blob, Delta, Slot
  <2> QED BY <1>0, <1>15, <2>3, <2>4 DEF CompressReplace, catalogue, TypeInv, TypeOK
<1>16. ASSUME NEW w \in Writers, CompressReturn(w) PROVE TypeInv'
  <2>1. proc' \in [Writers -> Proc] /\ ProcTyped'
    BY <1>16, IdleTyped, ProcStep DEF CompressReturn, IngestPCs, CompressPCs
  <2> QED BY <1>0, <1>16, <2>1 DEF CompressReturn, catalogue, TypeInv, TypeOK
<1>17. ASSUME NEW w \in Writers, CompressFail(w) PROVE TypeInv'
  <2>1. proc' \in [Writers -> Proc] /\ ProcTyped'
    BY <1>17, IdleTyped, ProcStep DEF CompressFail, IngestPCs, CompressPCs
  <2>2. deltas' \in [Tensors -> Slot]
    BY <1>0, <1>17 DEF CompressFail, Slot
  <2> QED BY <1>0, <1>17, <2>1, <2>2 DEF CompressFail, TypeInv, TypeOK
<1>18. ASSUME NEW w \in Writers, Crash(w) PROVE TypeInv'
  <2>1. proc' \in [Writers -> Proc] /\ ProcTyped'
    BY <1>18, IdleTyped, ProcStep DEF Crash, IngestPCs, CompressPCs
  <2> QED BY <1>0, <1>18, <2>1 DEF Crash, catalogue, TypeInv, TypeOK
<1>19. CASE UNCHANGED vars
  BY <1>0, <1>19 DEF vars, TypeInv, TypeOK, ProcTyped
<1> QED
  BY <1>1, <1>2, <1>3, <1>4, <1>5, <1>6, <1>7, <1>8, <1>9, <1>11, <1>12, <1>13,
     <1>14, <1>15, <1>16, <1>17, <1>18, <1>19 DEF Next

\* The types hold in every run.
LEMMA AlwaysTypeInv == Spec => []TypeInv
<1>1. Init => TypeInv
  BY ConstantsAssumption, IdleTyped
     DEF Init, TypeInv, TypeOK, ProcTyped, Statuses, Slot, Blob, Absent,
         IngestPCs, CompressPCs
<1> QED BY <1>1, TypeStep, PTL DEF Spec

\* All variables keep their types, whatever the processes run.
THEOREM TypeCorrect == Spec => []TypeOK
<1>1. TypeInv => TypeOK
  BY DEF TypeInv
<1> QED BY <1>1, AlwaysTypeInv, PTL

-----------------------------------------------------------------------------
(* References *)

LEMMA ReferencedElements ==
    ASSUME mappings \in [Models -> Content], NEW x
    PROVE  x \in Referenced <=>
             /\ x # NoTensor
             /\ \E m \in Models, q \in Params : mappings[m][q] = x
BY DEF Referenced, Wanted, Content

\* No step leaves a row that refers to none.
LEMMA ReferenceStep ==
    TypeInv /\ NoDanglingReferences /\ [Next]_vars => NoDanglingReferences'
<1> SUFFICES ASSUME TypeInv, NoDanglingReferences, [Next]_vars
             PROVE  NoDanglingReferences'
  OBVIOUS
<1> DEFINE Mapped(M) == \A m \in Models, q \in Params :
                          M[m][q] # NoTensor => M[m][q] \in tensors
           Mapped2 == \A m \in Models, q \in Params :
                          mappings'[m][q] # NoTensor => mappings'[m][q] \in tensors'
           Edged == \A t \in Tensors : deltas'[t] # NoTensor => t \in tensors'
<1>0. TypeInv'
  BY TypeStep
<1>t. /\ tensors \in SUBSET Tensors
      /\ mappings \in [Models -> Content]
      /\ mappings' \in [Models -> Content]
      /\ deltas \in [Tensors -> Slot]
      /\ proc \in [Writers -> Proc]
  BY <1>0 DEF TypeInv, TypeOK
<1>m. Mapped(mappings)
  BY <1>t, ReferencedElements DEF NoDanglingReferences
<1>e. \A t \in Tensors : deltas[t] # NoTensor => t \in tensors
  BY DEF NoDanglingReferences
<1>s. SUFFICES Mapped2 /\ Edged
  <2>1. ASSUME Mapped2, NEW x \in Referenced' PROVE x \in tensors'
    <3>1. x # NoTensor /\ \E m \in Models, q \in Params : mappings'[m][q] = x
      BY <1>t, <2>1 DEF Referenced, Wanted, Content
    <3> QED BY <2>1, <3>1
  <2> QED BY <2>1 DEF NoDanglingReferences
<1>1. ASSUME NEW m \in Models,
             mappings' = [mappings EXCEPT ![m] = Empty],
             UNCHANGED <<tensors, deltas>>
      PROVE  Mapped2 /\ Edged
  BY <1>1, <1>t, <1>m, <1>e DEF Empty, Content
<1>2. ASSUME NEW w \in Writers, IngestBatch(w) PROVE Mapped2 /\ Edged
  <2>1. proc[w].model \in Models
    BY <1>2 DEF IngestBatch, TypeInv, ProcTyped, IngestPCs
  <2>2. proc[w].want \in Content /\ proc[w].fresh \in SUBSET Tensors
    BY <1>t DEF Proc
  <2>3. \A q \in Params : proc[w].want[q] # NoTensor => proc[w].want[q] \in tensors'
    BY <1>2, <2>2 DEF IngestBatch, Wanted
  <2>4. mappings' = [mappings EXCEPT ![proc[w].model] =
                       [q \in Params |->
                          IF proc[w].want[q] = NoTensor
                          THEN mappings[proc[w].model][q] ELSE proc[w].want[q]]]
    BY <1>2, <1>t, <2>1 DEF IngestBatch
  <2>5. tensors \subseteq tensors' /\ deltas' = deltas
    BY <1>2 DEF IngestBatch
  <2>6. Mapped2
    BY <1>t, <1>m, <2>1, <2>3, <2>4, <2>5
  <2> QED BY <1>e, <2>5, <2>6
<1>3. ASSUME NEW w \in Writers, GcOrphans(w) PROVE Mapped2 /\ Edged
  BY <1>3, <1>t, <1>m, <1>e DEF GcOrphans, Content
<1>4. ASSUME NEW w \in Writers, CompressEdge(w) PROVE Mapped2 /\ Edged
  BY <1>4, <1>t, <1>m, <1>e DEF CompressEdge
<1>5. ASSUME NEW w \in Writers, CompressFail(w) PROVE Mapped2 /\ Edged
  BY <1>5, <1>t, <1>m, <1>e DEF CompressFail
<1>6. ASSUME UNCHANGED <<tensors, mappings, deltas>> PROVE Mapped2 /\ Edged
  BY <1>6, <1>m, <1>e
<1> HIDE DEF Mapped, Mapped2, Edged
<1>7. CASE \E m \in Models : Rm(m) \/ \E w \in Writers : IngestInit(w, m)
  BY <1>1, <1>7 DEF Rm, IngestInit
<1>8. ASSUME NEW w \in Writers,
             \/ \E c \in Content : IngestDedup(w, c)
             \/ \E t \in Tensors : \/ IngestCreate(w, t)
                                   \/ IngestFill(w, t)
                                   \/ GcUnlink(w, t)
                                   \/ GcUnlinkError(w, t)
             \/ \E t, b \in Tensors : CompressPlan(w, t, b)
             \/ IngestCommit(w)
             \/ IngestFail(w)
             \/ CompressReplace(w)
             \/ CompressReturn(w)
             \/ Crash(w)
      PROVE  Mapped2 /\ Edged
  <2>1. UNCHANGED <<tensors, mappings, deltas>>
    BY <1>8 DEF IngestDedup, IngestCreate, IngestFill, GcUnlink, GcUnlinkError,
                GcStep, CompressPlan, IngestCommit, IngestFail, CompressReplace,
                CompressReturn, Crash, catalogue
  <2> QED BY <1>6, <2>1
<1>9. CASE UNCHANGED vars
  BY <1>6, <1>9 DEF vars
<1> QED BY <1>2, <1>3, <1>4, <1>5, <1>7, <1>8, <1>9 DEF Next

\* No mapping and no edge survives the row it refers to, whichever commands the
\* processes run at the same time: the foreign keys and cascades suffice.
THEOREM ReferencesHold == Spec => []NoDanglingReferences
<1>1. Init => NoDanglingReferences
  BY DEF Init, NoDanglingReferences, Referenced, Wanted, Empty
<1> QED BY <1>1, ReferenceStep, AlwaysTypeInv, PTL DEF Spec

-----------------------------------------------------------------------------
(***************************************************************************)
(* The inductive invariant.  ReadyModelsDecodable is too weak to prove by  *)
(* itself: it says nothing of what a process in the middle of a command    *)
(* is about to do, of rows no model refers to yet, nor of how the delta    *)
(* edges relate to the headers, which is what a later gc goes by.          *)
(***************************************************************************)

HubInv ==
    /\ TypeInv
    /\ NoDanglingReferences
    /\ HeadersHaveEdges
    /\ RowsDecodable
    /\ ChecksStillHold

\* HubInv as facts about its parts.
LEMMA HubInvParts ==
    ASSUME HubInv
    PROVE  /\ blob \in Files
           /\ tensors \in SUBSET Tensors
           /\ ClosedIn(blob, tensors)
           /\ deltas \in [Tensors -> Slot]
           /\ mappings \in [Models -> Content]
           /\ proc \in [Writers -> Proc]
           /\ Referenced \subseteq tensors
<1> USE ConstantsAssumption
<1>1. blob \in Files
  BY DEF HubInv, TypeInv, TypeOK, Files, Blob, Slot
<1>2. ClosedIn(blob, tensors)
  BY DEF HubInv, HeadersHaveEdges, ClosedIn
<1> QED BY <1>1, <1>2 DEF HubInv, TypeInv, TypeOK, NoDanglingReferences

\* In a serialised hub, what one process runs excludes the others' commands.
LEMMA Exclusion ==
    ASSUME Serialised, HubInv, NEW w \in Writers, NEW v \in Writers, v # w
    PROVE  /\ "gc" \in Runs[w] => proc[v].pc = "idle"
           /\ "ingest" \in Runs[w] =>
                proc[v].pc \notin IngestPCs \union {"unlinking"}
           /\ "compress" \in Runs[w] =>
                proc[v].pc \notin CompressPCs \union {"unlinking"}
<1>1. Role(v)
  BY DEF HubInv, ChecksStillHold, InFlight
<1>2. proc[v].pc \in {"idle", "unlinking"} \union IngestPCs \union CompressPCs
  BY HubInvParts DEF Proc
<1>3. Runs[v] \cap Runs[w] = {} /\ ("gc" \in Runs[w] => Runs[v] = {})
      /\ ("gc" \in Runs[v] => Runs[w] = {})
  BY DEF Serialised
<1> QED BY <1>1, <1>2, <1>3 DEF Role

-----------------------------------------------------------------------------
(* Steps, by what they change. *)

\* Another process keeps what it found out when a step leaves its record, the
\* rows and the edges alone and changes at most a blob without a row.
LEMMA OutsideWrite ==
    ASSUME HubInv, blob' \in Files,
           UNCHANGED <<tensors, deltas>>,
           \A x \in tensors : blob'[x] = blob[x]
    PROVE  /\ HeadersHaveEdges' /\ RowsDecodable'
           /\ \A v \in Writers : proc'[v] = proc[v] => GcSafe(v)' /\ CompressSafe(v)'
<1>1. /\ blob \in Files /\ tensors \in SUBSET Tensors /\ ClosedIn(blob, tensors)
  BY HubInvParts
<1>2. \A t \in tensors : /\ ChainIn(blob', t) = ChainIn(blob, t)
                         /\ DecodableIn(blob', t) <=> DecodableIn(blob, t)
  BY <1>1, ChainsInsideAgree
<1>3. HeadersHaveEdges'
  BY DEF HubInv, HeadersHaveEdges
<1>4. RowsDecodable'
  BY <1>2 DEF HubInv, RowsDecodable, Decodable
<1>5. ASSUME NEW v \in Writers, proc'[v] = proc[v]
      PROVE  GcSafe(v)' /\ CompressSafe(v)'
  <2>1. GcSafe(v) /\ CompressSafe(v)
    BY DEF HubInv, ChecksStillHold, InFlight
  <2>2. GcSafe(v)'
    BY <1>5, <2>1 DEF GcSafe
  <2>3. CompressSafe(v)'
    BY <1>2, <1>5, <2>1 DEF CompressSafe, Chain
  <2> QED BY <2>2, <2>3
<1> QED BY <1>3, <1>4, <1>5

\* A step that touches neither rows, edges nor blobs disturbs no other process.
LEMMA QuietStep ==
    ASSUME HubInv, TypeInv', NoDanglingReferences',
           UNCHANGED <<tensors, deltas, blob>>,
           \A v \in Writers : proc'[v] = proc[v] \/ InFlight(v)'
    PROVE  HubInv'
<1>1. HeadersHaveEdges' /\ RowsDecodable'
  BY DEF HubInv, HeadersHaveEdges, RowsDecodable, Decodable
<1>2. ASSUME NEW v \in Writers PROVE InFlight(v)'
  <2>1. InFlight(v)
    BY DEF HubInv, ChecksStillHold
  <2>2. CASE proc'[v] = proc[v]
    BY <2>1, <2>2 DEF InFlight, Role, IngestSafe, GcSafe, CompressSafe, Chain
  <2> QED BY <2>2
<1> QED BY <1>1, <1>2 DEF HubInv, ChecksStillHold

\* A process that runs no command has nothing in flight.
LEMMA IdleInFlight ==
    ASSUME NEW w \in Writers, proc'[w].pc \in {"idle", "batched", "replaced"},
           Role(w)'
    PROVE  InFlight(w)'
BY DEF InFlight, IngestSafe, GcSafe, CompressSafe

\* Blobs are written and unlinked without disturbing another process.
LEMMA BlobStep ==
    ASSUME HubInv, TypeInv', NoDanglingReferences',
           UNCHANGED <<tensors, deltas>>,
           NEW x \in Tensors, x \notin tensors,
           \A y \in Tensors : y # x => blob'[y] = blob[y],
           NEW w \in Writers, Role(w)', IngestSafe(w)', GcSafe(w)',
           proc'[w].pc \notin CompressPCs,
           \A v \in Writers : v # w => proc'[v] = proc[v] /\ proc[v].pc # "writing"
    PROVE  HubInv'
<1>1. blob' \in Files
  BY ConstantsAssumption DEF TypeInv, TypeOK, Files, Blob, Slot
<1>2. \A y \in tensors : blob'[y] = blob[y]
  BY HubInvParts
<1>3. /\ HeadersHaveEdges' /\ RowsDecodable'
      /\ \A v \in Writers : proc'[v] = proc[v] => GcSafe(v)' /\ CompressSafe(v)'
  BY <1>1, <1>2, OutsideWrite
<1>4. ASSUME NEW v \in Writers PROVE InFlight(v)'
  <2>1. CASE v = w
    <3>1. CompressSafe(w)'
      BY DEF CompressSafe, CompressPCs
    <3> QED BY <2>1, <3>1 DEF InFlight
  <2>2. CASE v # w
    <3>1. Role(v) /\ IngestSafe(v)
      BY DEF HubInv, ChecksStillHold, InFlight
    <3>2. Role(v)' /\ IngestSafe(v)'
      BY <2>2, <3>1 DEF Role, IngestSafe
    <3> QED BY <1>3, <2>2, <3>2 DEF InFlight
  <2> QED BY <2>1, <2>2
<1> QED BY <1>3, <1>4 DEF HubInv, ChecksStillHold

-----------------------------------------------------------------------------
\* Every step of a serialised hub keeps the invariant, provided a rewrite that
\* raises has left the raw blob in place.
LEMMA HubInvStep ==
    ASSUME Serialised, ~LateFailures
    PROVE  HubInv /\ [Next]_vars => HubInv'
<1> SUFFICES ASSUME HubInv, [Next]_vars PROVE HubInv'
  OBVIOUS
<1>t. TypeInv' /\ NoDanglingReferences'
  BY TypeStep, ReferenceStep DEF HubInv
<1>p. /\ proc \in [Writers -> Proc] /\ tensors \in SUBSET Tensors
      /\ blob \in [Tensors -> Blob] /\ deltas \in [Tensors -> Slot]
  BY DEF HubInv, TypeInv, TypeOK
<1>f. \A v \in Writers : InFlight(v) /\ Role(v)
  BY DEF HubInv, ChecksStillHold, InFlight
<1>1. ASSUME NEW m \in Models, Rm(m) PROVE HubInv'
  <2>1. UNCHANGED <<tensors, deltas, blob, proc>>
    BY <1>1 DEF Rm
  <2> QED BY <2>1, <1>t, QuietStep
<1>2. ASSUME NEW w \in Writers, NEW m \in Models, IngestInit(w, m) PROVE HubInv'
  <2>1. /\ UNCHANGED <<tensors, deltas, blob>>
        /\ \A v \in Writers : v # w => proc'[v] = proc[v]
        /\ proc'[w].pc = "opened" /\ proc'[w].open = {} /\ "ingest" \in Runs[w]
    BY <1>2, <1>p DEF IngestInit, May, Idle
  <2>2. InFlight(w)'
    BY <2>1 DEF InFlight, Role, IngestSafe, GcSafe, CompressSafe, CompressPCs
  <2> QED BY <2>1, <2>2, <1>t, QuietStep
<1>3. ASSUME NEW w \in Writers, NEW c \in Content, IngestDedup(w, c) PROVE HubInv'
  <2>1. /\ UNCHANGED <<tensors, deltas, blob>>
        /\ \A v \in Writers : v # w => proc'[v] = proc[v]
        /\ proc[w].pc = "opened" /\ proc'[w].pc = "writing"
        /\ proc'[w].open = proc[w].open
        /\ proc'[w].fresh = Wanted(c) \ tensors
        /\ proc'[w].todo = Wanted(c) \ tensors
    BY <1>3, <1>p DEF IngestDedup, catalogue, Proc
  <2>2. proc[w].open = {} /\ "ingest" \in Runs[w]
    BY <2>1, <1>f DEF InFlight, IngestSafe, Role, IngestPCs
  <2>3. InFlight(w)'
    BY <2>1, <2>2 DEF InFlight, Role, IngestSafe, GcSafe, CompressSafe, CompressPCs
  <2> QED BY <2>1, <2>3, <1>t, QuietStep
<1>4. ASSUME NEW w \in Writers, NEW t \in Tensors,
             IngestCreate(w, t) \/ IngestFill(w, t)
      PROVE  HubInv'
  <2>1. /\ UNCHANGED <<tensors, deltas>>
        /\ \A v \in Writers : v # w => proc'[v] = proc[v]
        /\ \A y \in Tensors : y # t => blob'[y] = blob[y]
        /\ proc[w].pc = "writing" /\ proc'[w].pc = "writing"
        /\ proc'[w].fresh = proc[w].fresh
        /\ t \in proc[w].todo \union proc[w].open
    BY <1>4, <1>p DEF IngestCreate, IngestFill, catalogue, Proc
  <2>2. /\ proc[w].fresh \cap tensors = {}
        /\ proc[w].todo \union proc[w].open \subseteq proc[w].fresh
        /\ \A x \in proc[w].fresh \ (proc[w].todo \union proc[w].open) :
              blob[x].form = "raw"
        /\ proc[w].fresh \in SUBSET Tensors
        /\ "ingest" \in Runs[w]
    BY <2>1, <1>f, <1>p DEF InFlight, IngestSafe, Role, IngestPCs, Proc
  <2>3. IngestSafe(w)'
    <3>1. CASE IngestCreate(w, t)
      <4>1. proc'[w].todo \union proc'[w].open = proc[w].todo \union proc[w].open
        BY <3>1, <1>p, <2>1 DEF IngestCreate, Proc
      <4> QED BY <2>1, <2>2, <4>1 DEF IngestSafe
    <3>2. CASE IngestFill(w, t)
      <4>1. proc'[w].todo = proc[w].todo /\ proc'[w].open = proc[w].open \ {t}
        BY <3>2, <1>p DEF IngestFill, Proc
      <4>2. blob'[t].form = "raw"
        BY <3>2, <1>p DEF IngestFill, Raw
      <4> QED BY <2>1, <2>2, <4>1, <4>2 DEF IngestSafe
    <3> QED BY <1>4, <3>1, <3>2
  <2>4. t \notin tensors
    BY <2>1, <2>2
  <2>5. \A v \in Writers : v # w => proc[v].pc # "writing"
    BY <2>2, Exclusion DEF IngestPCs
  <2>6. Role(w)' /\ GcSafe(w)' /\ proc'[w].pc \notin CompressPCs
    BY <2>1, <2>2 DEF Role, GcSafe, CompressPCs
  <2> QED BY <2>1, <2>3, <2>4, <2>5, <2>6, <1>t, BlobStep
<1>5. ASSUME NEW w \in Writers, IngestBatch(w) PROVE HubInv'
  <2>1. /\ proc[w].pc = "writing" /\ proc'[w].pc = "batched"
        /\ proc[w].todo = {} /\ proc[w].open = {}
        /\ tensors' = tensors \union proc[w].fresh
        /\ UNCHANGED <<deltas, blob>>
        /\ \A v \in Writers : v # w => proc'[v] = proc[v]
    BY <1>5, <1>p DEF IngestBatch, Proc
  <2>2. /\ "ingest" \in Runs[w]
        /\ proc[w].fresh \in SUBSET Tensors
        /\ \A x \in proc[w].fresh : blob[x].form = "raw"
    BY <2>1, <1>f, <1>p DEF InFlight, IngestSafe, Role, IngestPCs, Proc
  <2>3. HeadersHaveEdges'
    BY <2>1, <2>2 DEF HubInv, HeadersHaveEdges
  <2>4. \A x \in proc[w].fresh : Decodable(x)
    BY <2>2, HubInvParts, ChainIsClosed DEF Decodable, DecodableIn
  <2>5. RowsDecodable'
    BY <2>1, <2>4 DEF HubInv, RowsDecodable, Decodable
  <2>6. InFlight(w)'
    BY <2>1, <2>2, IdleInFlight DEF Role, IngestPCs, CompressPCs
  <2>7. ASSUME NEW v \in Writers, v # w PROVE InFlight(v)'
    <3>1. proc[v].pc \notin IngestPCs \union {"unlinking"}
      BY <2>2, <2>7, Exclusion
    <3>2. Role(v)' /\ IngestSafe(v)' /\ GcSafe(v)'
      BY <1>f, <2>1, <2>7, <3>1 DEF Role, IngestSafe, GcSafe, IngestPCs
    <3>3. CompressSafe(v)'
      BY <1>f, <2>1, <2>7 DEF InFlight, CompressSafe, Chain
    <3> QED BY <3>2, <3>3 DEF InFlight
  <2> QED BY <1>t, <2>3, <2>5, <2>6, <2>7 DEF HubInv, ChecksStillHold
<1>6. ASSUME NEW w \in Writers,
             \/ IngestCommit(w) \/ IngestFail(w) \/ CompressReturn(w) \/ Crash(w)
      PROVE  HubInv'
  <2>1. /\ UNCHANGED <<tensors, deltas, blob>>
        /\ \A v \in Writers : v # w => proc'[v] = proc[v]
        /\ proc'[w].pc = "idle"
    BY <1>6, <1>p DEF IngestCommit, IngestFail, CompressReturn, Crash, catalogue, Idle
  <2>2. InFlight(w)'
    BY <2>1, IdleInFlight DEF Role, IngestPCs, CompressPCs
  <2> QED BY <2>1, <2>2, <1>t, QuietStep
<1>7. ASSUME NEW w \in Writers, GcOrphans(w) PROVE HubInv'
  <2>1. /\ tensors' = tensors \ Orphans
        /\ \A t \in tensors' : deltas'[t] = deltas[t]
        /\ UNCHANGED blob
        /\ \A v \in Writers : v # w => proc'[v] = proc[v]
        /\ proc'[w].pc = "unlinking" /\ proc'[w].todo = Orphans
        /\ "gc" \in Runs[w]
    BY <1>7, <1>p DEF GcOrphans, May, Idle
  <2>2. \A t \in tensors' : deltas[t] \in tensors => deltas[t] \in tensors'
    BY <2>1, <1>p, ConstantsAssumption DEF Orphans, Bases
  <2>3. HeadersHaveEdges'
    BY <2>1, <2>2 DEF HubInv, HeadersHaveEdges
  <2>4. RowsDecodable'
    BY <2>1 DEF HubInv, RowsDecodable, Decodable
  <2>5. InFlight(w)'
    BY <2>1 DEF InFlight, Role, IngestSafe, GcSafe, CompressSafe, IngestPCs, CompressPCs
  <2>6. ASSUME NEW v \in Writers, v # w PROVE InFlight(v)'
    BY <2>1, <2>6, Exclusion, IdleInFlight DEF Role, IngestPCs, CompressPCs
  <2> QED BY <1>t, <2>3, <2>4, <2>5, <2>6 DEF HubInv, ChecksStillHold
<1>8. ASSUME NEW w \in Writers, NEW t \in Tensors, GcStep(w, t)
      PROVE  /\ UNCHANGED <<tensors, deltas>> /\ t \notin tensors
             /\ \A v \in Writers : v # w => proc'[v] = proc[v]
             /\ "gc" \in Runs[w]
             /\ proc'[w].pc \in {"idle", "unlinking"}
             /\ Role(w)' /\ GcSafe(w)'
  <2>1. /\ UNCHANGED <<tensors, deltas>>
        /\ \A v \in Writers : v # w => proc'[v] = proc[v]
        /\ proc[w].pc = "unlinking" /\ t \in proc[w].todo
        /\ proc'[w].pc \in {"idle", "unlinking"}
        /\ proc'[w].pc = "unlinking" => proc'[w].todo \subseteq proc[w].todo
    BY <1>8, <1>p DEF GcStep, catalogue, Idle, Proc
  <2>2. "gc" \in Runs[w] /\ proc[w].todo \cap tensors = {}
    BY <1>f, <2>1 DEF InFlight, Role, GcSafe
  <2> QED BY <2>1, <2>2 DEF Role, GcSafe, IngestPCs, CompressPCs
<1>9. ASSUME NEW w \in Writers, NEW t \in Tensors, GcUnlink(w, t) PROVE HubInv'
  <2>1. \A y \in Tensors : y # t => blob'[y] = blob[y]
    BY <1>9, <1>p DEF GcUnlink
  <2>2. GcStep(w, t)
    BY <1>9 DEF GcUnlink
  <2>3. \A v \in Writers : v # w => proc[v].pc # "writing"
    BY <1>8, <2>2, Exclusion
  <2>4. IngestSafe(w)' /\ proc'[w].pc \notin CompressPCs
    BY <1>8, <2>2 DEF IngestSafe, CompressPCs
  <2> QED BY <1>8, <2>1, <2>2, <2>3, <2>4, <1>t, BlobStep
<1>10. ASSUME NEW w \in Writers, NEW t \in Tensors, GcUnlinkError(w, t)
       PROVE  HubInv'
  <2>1. GcStep(w, t) /\ UNCHANGED blob
    BY <1>10 DEF GcUnlinkError
  <2>2. InFlight(w)'
    BY <1>8, <2>1 DEF InFlight, IngestSafe, CompressSafe
  <2> QED BY <1>8, <2>1, <2>2, <1>t, QuietStep
<1>11. ASSUME NEW w \in Writers, NEW t \in Tensors, NEW b \in Tensors,
              CompressPlan(w, t, b)
       PROVE  HubInv'
  <2>1. /\ UNCHANGED <<tensors, deltas, blob>>
        /\ \A v \in Writers : v # w => proc'[v] = proc[v]
        /\ proc'[w].pc = "planned" /\ proc'[w].target = t /\ proc'[w].base = b
        /\ "compress" \in Runs[w]
    BY <1>11, <1>p DEF CompressPlan, May, catalogue, Idle
  <2>2. t \in tensors /\ b \in tensors /\ blob[t].form = "raw" /\ t \notin Chain(b)
    BY <1>11, HubInvParts DEF CompressPlan, WalkAllows
  <2>3. InFlight(w)'
    BY <2>1, <2>2 DEF InFlight, Role, IngestSafe, GcSafe, CompressSafe, IngestPCs, Chain
  <2> QED BY <2>1, <2>3, <1>t, QuietStep
<1>12. ASSUME NEW w \in Writers, proc[w].pc \in {"planned", "edged"}
       PROVE  /\ "compress" \in Runs[w]
              /\ proc[w].target \in tensors /\ proc[w].base \in tensors
              /\ blob[proc[w].target].form = "raw"
              /\ proc[w].target \notin Chain(proc[w].base)
              /\ proc[w].pc = "edged" => deltas[proc[w].target] = proc[w].base
              /\ \A v \in Writers : v # w =>
                    proc[v].pc \notin CompressPCs \union {"unlinking"}
  BY <1>12, <1>f, Exclusion DEF InFlight, Role, CompressSafe, CompressPCs
<1>13. ASSUME NEW w \in Writers, CompressEdge(w) PROVE HubInv'
  <2>1. /\ UNCHANGED <<tensors, blob>>
        /\ \A x \in Tensors : x # proc[w].target => deltas'[x] = deltas[x]
        /\ deltas'[proc[w].target] = proc[w].base
        /\ \A v \in Writers : v # w => proc'[v] = proc[v]
        /\ proc[w].pc = "planned" /\ proc'[w].pc = "edged"
        /\ proc'[w].target = proc[w].target /\ proc'[w].base = proc[w].base
    BY <1>13, <1>p DEF CompressEdge, Proc
  <2>2. HeadersHaveEdges'
    BY <1>12, <1>p, <2>1 DEF HubInv, HeadersHaveEdges
  <2>3. RowsDecodable'
    BY <2>1 DEF HubInv, RowsDecodable, Decodable
  <2>4. InFlight(w)'
    BY <1>12, <2>1 DEF InFlight, Role, IngestSafe, GcSafe, CompressSafe, IngestPCs, Chain
  <2>5. ASSUME NEW v \in Writers, v # w PROVE InFlight(v)'
    BY <1>12, <1>f, <2>1, <2>5
       DEF InFlight, Role, IngestSafe, GcSafe, CompressSafe, CompressPCs
  <2> QED BY <1>t, <2>2, <2>3, <2>4, <2>5 DEF HubInv, ChecksStillHold
<1>14. ASSUME NEW w \in Writers, CompressReplace(w) PROVE HubInv'
  <2> DEFINE t == proc[w].target
             b == proc[w].base
  <2>1. /\ UNCHANGED <<tensors, deltas>>
        /\ blob' = [blob EXCEPT ![t] = Delta(b)]
        /\ \A v \in Writers : v # w => proc'[v] = proc[v]
        /\ proc[w].pc = "edged" /\ proc'[w].pc = "replaced"
    BY <1>14, <1>p DEF CompressReplace, catalogue, Proc
  <2>2. /\ t \in tensors /\ b \in tensors /\ blob[t].form = "raw"
        /\ t \notin ChainIn(blob, b) /\ deltas[t] = b /\ "compress" \in Runs[w]
    BY <1>12, <2>1 DEF Chain
  <2> HIDE DEF t, b
  <2>3. blob \in Files /\ blob' \in Files
    BY HubInvParts, <1>t, ConstantsAssumption DEF TypeInv, TypeOK, Files, Blob, Slot
  <2>4. /\ blob'[t].form = "delta" /\ blob'[t].base = b
        /\ \A x \in Tensors : x # t => blob'[x] = blob[x]
    BY <1>p, <2>1, <2>2 DEF Delta
  <2>5. HeadersHaveEdges'
    BY <1>p, <2>1, <2>2, <2>4 DEF HubInv, HeadersHaveEdges
  <2>6. ASSUME NEW u \in tensors PROVE DecodableIn(blob', u)
    <3>1. DecodableIn(blob, b) /\ DecodableIn(blob, u)
      BY <2>2 DEF HubInv, RowsDecodable, Decodable
    <3> QED BY <1>p, <2>1, <2>2, <2>3, <3>1, RewriteKeepsDecodable
  <2>7. RowsDecodable'
    BY <2>1, <2>6 DEF RowsDecodable, Decodable
  <2>8. InFlight(w)'
    BY <2>1, <2>2, IdleInFlight DEF Role, IngestPCs, CompressPCs
  <2>9. ASSUME NEW v \in Writers, v # w PROVE InFlight(v)'
    <3>1. proc[v].pc \notin CompressPCs \union {"unlinking"}
      BY <1>12, <2>1, <2>9
    <3>2. proc[v].fresh \in SUBSET Tensors
      BY <1>p DEF Proc
    <3> QED
      BY <1>f, <2>1, <2>2, <2>4, <2>9, <3>1, <3>2
         DEF InFlight, Role, IngestSafe, GcSafe, CompressSafe, CompressPCs
  <2> QED BY <1>t, <2>5, <2>7, <2>8, <2>9 DEF HubInv, ChecksStillHold
<1>15. ASSUME NEW w \in Writers, CompressFail(w) PROVE HubInv'
  <2>1. /\ UNCHANGED <<tensors, blob>>
        /\ \A x \in Tensors : x # proc[w].target => deltas'[x] = deltas[x]
        /\ \A v \in Writers : v # w => proc'[v] = proc[v]
        /\ proc[w].pc = "edged" /\ proc'[w].pc = "idle"
    BY <1>15, <1>p DEF CompressFail, RewriteRaised, Idle
  <2>2. HeadersHaveEdges'
    BY <1>12, <1>p, <2>1 DEF HubInv, HeadersHaveEdges
  <2>3. RowsDecodable'
    BY <2>1 DEF HubInv, RowsDecodable, Decodable
  <2>4. InFlight(w)'
    BY <2>1, IdleInFlight DEF Role, IngestPCs, CompressPCs
  <2>5. ASSUME NEW v \in Writers, v # w PROVE InFlight(v)'
    BY <1>12, <1>f, <2>1, <2>5
       DEF InFlight, Role, IngestSafe, GcSafe, CompressSafe, CompressPCs
  <2> QED BY <1>t, <2>2, <2>3, <2>4, <2>5 DEF HubInv, ChecksStillHold
<1>16. CASE UNCHANGED vars
  BY <1>16, <1>t, QuietStep DEF vars
<1> QED
  BY <1>1, <1>2, <1>3, <1>4, <1>5, <1>6, <1>7, <1>9, <1>10, <1>11, <1>13, <1>14,
     <1>15, <1>16 DEF Next

\* The invariant of the hub holds in every run.
LEMMA AlwaysHubInv ==
    ASSUME Serialised, ~LateFailures
    PROVE  Spec => []HubInv
<1>1. Init => HubInv
  <2>1. Init => TypeInv /\ NoDanglingReferences
    BY ConstantsAssumption, IdleTyped
       DEF Init, TypeInv, TypeOK, ProcTyped, Statuses, Slot, Blob, Absent,
           IngestPCs, CompressPCs, NoDanglingReferences, Referenced, Wanted, Empty
  <2>2. Init => HeadersHaveEdges /\ RowsDecodable
    BY DEF Init, HeadersHaveEdges, RowsDecodable
  <2>3. Init => ChecksStillHold
    BY DEF Init, ChecksStillHold, InFlight, Role, IngestSafe, GcSafe, CompressSafe,
           Idle, IngestPCs, CompressPCs
  <2> QED BY <2>1, <2>2, <2>3 DEF HubInv
<1> QED BY <1>1, HubInvStep, PTL DEF Spec

\* Every tensor of a ready model decodes, in every state of a hub whose
\* commands exclude each other as far as the code needs them to, and however
\* many processes stop in the middle of one: pull can always rebuild the model.
THEOREM ReadyModelsStayDecodable ==
    ASSUME Serialised, ~LateFailures
    PROVE  Spec => []ReadyModelsDecodable
<1>1. HubInv => ReadyModelsDecodable
  <2> SUFFICES ASSUME HubInv, NEW m \in Models, NEW t \in Wanted(mappings[m])
               PROVE  t \in tensors /\ Decodable(t)
    BY DEF ReadyModelsDecodable
  <2>1. t \in tensors
    BY DEF HubInv, NoDanglingReferences, Referenced
  <2> QED BY <2>1 DEF HubInv, RowsDecodable
<1> QED BY <1>1, AlwaysHubInv, PTL

\* The edges gc goes by cover the bases the headers name.
THEOREM HeadersAreCovered ==
    ASSUME Serialised, ~LateFailures
    PROVE  Spec => []HeadersHaveEdges
<1>1. HubInv => HeadersHaveEdges
  BY DEF HubInv
<1> QED BY <1>1, AlwaysHubInv, PTL

\* No command acts on something it found out that has ceased to be so.
THEOREM ChecksHold ==
    ASSUME Serialised, ~LateFailures
    PROVE  Spec => []ChecksStillHold
<1>1. HubInv => ChecksStillHold
  BY DEF HubInv
<1> QED BY <1>1, AlwaysHubInv, PTL

-----------------------------------------------------------------------------
(* What a step may never do *)

\* The chains of catalogued tensors stay inside the catalogue.
LEMMA ChainsAreCatalogued ==
    ASSUME HubInv, NEW t \in tensors PROVE Chain(t) \subseteq tensors
BY HubInvParts, ChainStaysInside DEF Chain

\* No blob that a catalogued tensor is decoded from is unlinked or truncated:
\* gc and ingest only touch files of ids without a row.
THEOREM UnneededBlobs ==
    ASSUME Serialised, ~LateFailures
    PROVE  Spec => OnlyUnneededBlobsVanish
<1> DEFINE Spared == \A x \in Tensors :
             blob[x].form \in {"raw", "delta"} /\ blob'[x].form \notin {"raw", "delta"}
             => /\ x \notin Referenced
                /\ \A t \in tensors : Decodable(t) => x \notin Chain(t)
<1>1. HubInv /\ [Next]_vars => [Spared]_vars
  <2> SUFFICES ASSUME HubInv, Next PROVE Spared
    OBVIOUS
  <2>p. /\ proc \in [Writers -> Proc] /\ blob \in [Tensors -> Blob]
        /\ \A v \in Writers : InFlight(v)
    BY DEF HubInv, TypeInv, TypeOK, ChecksStillHold
  <2>1. ASSUME NEW y \in Tensors, y \notin tensors,
               \A x \in Tensors : x # y => blob'[x] = blob[x]
        PROVE  Spared
    BY <2>1, HubInvParts, ChainsAreCatalogued
  <2>2. ASSUME NEW w \in Writers, NEW t \in Tensors,
               \/ IngestCreate(w, t) \/ IngestFill(w, t)
               \/ GcUnlink(w, t) \/ GcUnlinkError(w, t)
        PROVE  Spared
    <3>1. t \notin tensors
      <4>1. CASE IngestCreate(w, t) \/ IngestFill(w, t)
        BY <2>p, <4>1 DEF IngestCreate, IngestFill, InFlight, IngestSafe
      <4>2. CASE GcUnlink(w, t) \/ GcUnlinkError(w, t)
        BY <2>p, <4>2 DEF GcUnlink, GcUnlinkError, GcStep, InFlight, GcSafe
      <4> QED BY <2>2, <4>1, <4>2
    <3>2. \A x \in Tensors : x # t => blob'[x] = blob[x]
      BY <2>2, <2>p DEF IngestCreate, IngestFill, GcUnlink, GcUnlinkError
    <3> QED BY <2>1, <3>1, <3>2
  <2>3. ASSUME UNCHANGED blob PROVE Spared
    BY <2>3
  <2>4. ASSUME NEW w \in Writers, CompressReplace(w) PROVE Spared
    BY <2>4, <2>p DEF CompressReplace, Delta
  <2> HIDE DEF Spared
  <2>5. ASSUME NEW w \in Writers,
               \/ \E m \in Models : Rm(m) \/ IngestInit(w, m)
               \/ \E c \in Content : IngestDedup(w, c)
               \/ \E t, b \in Tensors : CompressPlan(w, t, b)
               \/ IngestBatch(w) \/ IngestCommit(w) \/ IngestFail(w)
               \/ GcOrphans(w) \/ CompressEdge(w) \/ CompressReturn(w)
               \/ CompressFail(w) \/ Crash(w)
        PROVE  Spared
    <3>1. UNCHANGED blob
      BY <2>5 DEF Rm, IngestInit, IngestDedup, CompressPlan, IngestBatch,
                  IngestCommit, IngestFail, GcOrphans, CompressEdge,
                  CompressReturn, CompressFail, Crash
    <3> QED BY <2>3, <3>1
  <2>6. ASSUME NEW m \in Models, Rm(m) PROVE Spared
    BY <2>3, <2>6 DEF Rm
  <2> QED BY <2>2, <2>4, <2>5, <2>6 DEF Next
<1> HIDE DEF Spared
<1>2. [][Spared]_vars <=> OnlyUnneededBlobsVanish
  BY DEF Spared, OnlyUnneededBlobsVanish
<1> QED BY <1>1, <1>2, AlwaysHubInv, PTL DEF Spec

\* While a process ingests a model, no one else publishes it.
LEMMA UnpublishedStep ==
    ASSUME Serialised, ~LateFailures
    PROVE  HubInv /\ UnpublishedWhileIngested /\ [Next]_vars
             => UnpublishedWhileIngested'
<1> SUFFICES ASSUME HubInv, UnpublishedWhileIngested, [Next]_vars,
                    NEW v \in Writers, proc'[v].pc \in IngestPCs
             PROVE  status'[proc'[v].model] # "ready"
  BY DEF UnpublishedWhileIngested
<1>p. /\ proc \in [Writers -> Proc] /\ status \in [Models -> Statuses]
      /\ \A w \in Writers : Role(w)
      /\ \A w \in Writers : proc[w].pc \in IngestPCs =>
            proc[w].model \in Models /\ status[proc[w].model] # "ready"
  BY DEF HubInv, TypeInv, TypeOK, ProcTyped, ChecksStillHold, InFlight,
         UnpublishedWhileIngested
<1>1. ASSUME NEW m \in Models, Rm(m) PROVE status'[proc'[v].model] # "ready"
  BY <1>1, <1>p DEF Rm
<1>2. ASSUME NEW w \in Writers, NEW m \in Models, IngestInit(w, m)
      PROVE  status'[proc'[v].model] # "ready"
  <2>1. /\ v # w => proc'[v] = proc[v]
        /\ proc'[w].model = m
        /\ status' = [status EXCEPT ![m] = "ingesting"]
    BY <1>2, <1>p DEF IngestInit, Idle
  <2> QED BY <1>p, <2>1
<1>3. ASSUME NEW w \in Writers, IngestCommit(w)
      PROVE  status'[proc'[v].model] # "ready"
  <2>1. /\ v # w => proc'[v] = proc[v]
        /\ proc'[w].pc = "idle" /\ proc[w].pc = "batched"
    BY <1>3, <1>p DEF IngestCommit, Idle
  <2>2. "ingest" \in Runs[w]
    BY <1>p, <2>1 DEF Role, IngestPCs
  <2>3. CASE v = w
    BY <2>1, <2>3 DEF IngestPCs
  <2>4. CASE v # w
    BY <2>1, <2>2, <2>4, Exclusion
  <2> QED BY <2>3, <2>4
<1>4. ASSUME NEW w \in Writers, IngestFail(w)
      PROVE  status'[proc'[v].model] # "ready"
  <2>1. /\ v # w => proc'[v] = proc[v]
        /\ proc'[w].pc = "idle" /\ proc[w].pc \in IngestPCs
        /\ status' = [status EXCEPT ![proc[w].model] = "failed"]
    BY <1>4, <1>p DEF IngestFail, Idle
  <2> QED BY <1>p, <2>1 DEF IngestPCs
<1>5. ASSUME status' = status,
             proc'[v].pc \in IngestPCs =>
               proc[v].pc \in IngestPCs /\ proc'[v].model = proc[v].model
      PROVE  status'[proc'[v].model] # "ready"
  BY <1>5, <1>p
<1>6. ASSUME NEW w \in Writers,
             \/ \E c \in Content : IngestDedup(w, c)
             \/ \E t \in Tensors : IngestCreate(w, t) \/ IngestFill(w, t)
             \/ IngestBatch(w)
      PROVE  status'[proc'[v].model] # "ready"
  <2> DEFINE Goal == /\ status' = status /\ proc[w].pc \in IngestPCs
                     /\ v # w => proc'[v] = proc[v]
                     /\ proc'[w].model = proc[w].model
  <2>1. ASSUME NEW c \in Content, IngestDedup(w, c) PROVE Goal
    BY <2>1, <1>p DEF IngestDedup, catalogue, IngestPCs, Proc
  <2>2. ASSUME NEW t \in Tensors, IngestCreate(w, t) PROVE Goal
    BY <2>2, <1>p DEF IngestCreate, catalogue, IngestPCs, Proc
  <2>3. ASSUME NEW t \in Tensors, IngestFill(w, t) PROVE Goal
    BY <2>3, <1>p DEF IngestFill, catalogue, IngestPCs, Proc
  <2>4. ASSUME IngestBatch(w) PROVE Goal
    BY <2>4, <1>p DEF IngestBatch, IngestPCs, Proc
  <2>5. Goal
    BY <1>6, <2>1, <2>2, <2>3, <2>4
  <2> QED BY <1>5, <2>5
<1>7. ASSUME NEW w \in Writers, status' = status, v # w => proc'[v] = proc[v],
             proc'[w].pc \notin IngestPCs
      PROVE  status'[proc'[v].model] # "ready"
  BY <1>5, <1>7
<1>8. ASSUME NEW w \in Writers,
             \/ GcOrphans(w) \/ CompressReturn(w) \/ CompressFail(w) \/ Crash(w)
             \/ CompressEdge(w) \/ CompressReplace(w)
             \/ \E t, b \in Tensors : CompressPlan(w, t, b)
             \/ \E t \in Tensors : GcUnlink(w, t) \/ GcUnlinkError(w, t)
      PROVE  status'[proc'[v].model] # "ready"
  <2> DEFINE Goal == /\ status' = status
                     /\ v # w => proc'[v] = proc[v]
                     /\ proc'[w].pc \notin IngestPCs
  <2>1. ASSUME GcOrphans(w) \/ CompressReturn(w) \/ CompressFail(w) \/ Crash(w)
        PROVE  Goal
    <3>1. ASSUME NEW r, proc' = [proc EXCEPT ![w] = r], r.pc \notin IngestPCs,
                 UNCHANGED status
          PROVE  Goal
      BY <3>1, <1>p
    <3>2. CASE GcOrphans(w)
      <4> DEFINE r == [Idle EXCEPT !.pc = "unlinking", !.todo = Orphans]
      <4>1. proc' = [proc EXCEPT ![w] = r] /\ r.pc \notin IngestPCs
        BY <3>2 DEF GcOrphans, Idle, IngestPCs
      <4>2. UNCHANGED status
        BY <3>2 DEF GcOrphans
      <4> QED BY <3>1, <4>1, <4>2
    <3>3. CASE CompressReturn(w) \/ CompressFail(w) \/ Crash(w)
      <4>1. /\ proc' = [proc EXCEPT ![w] = Idle]
            /\ UNCHANGED status
        BY <3>3 DEF CompressReturn, CompressFail, Crash, catalogue
      <4>2. Idle.pc \notin IngestPCs
        BY DEF Idle, IngestPCs
      <4> QED BY <3>1, <4>1, <4>2
    <3> QED BY <2>1, <3>2, <3>3
  <2>2. ASSUME CompressEdge(w) \/ CompressReplace(w) PROVE Goal
    BY <2>2, <1>p DEF CompressEdge, CompressReplace, catalogue, IngestPCs, Proc
  <2>3. ASSUME NEW t \in Tensors, NEW b \in Tensors, CompressPlan(w, t, b)
        PROVE  Goal
    BY <2>3, <1>p DEF CompressPlan, catalogue, Idle, IngestPCs
  <2>4. ASSUME NEW t \in Tensors, GcUnlink(w, t) \/ GcUnlinkError(w, t) PROVE Goal
    <3>1. GcStep(w, t)
      BY <2>4 DEF GcUnlink, GcUnlinkError
    <3>2. proc[w] \in Proc /\ proc[w].pc = "unlinking" /\ UNCHANGED status
      BY <3>1, <1>p DEF GcStep, catalogue
    <3>3. [proc[w] EXCEPT !.todo = proc[w].todo \ {t}].pc = "unlinking"
      BY <3>2 DEF Proc
    <3>4. (v # w => proc'[v] = proc[v]) /\ proc'[w].pc \in {"idle", "unlinking"}
      BY <3>1, <3>3, <1>p DEF GcStep, Idle
    <3> QED BY <3>2, <3>4 DEF IngestPCs
  <2>5. Goal
    BY <1>8, <2>1, <2>2, <2>3, <2>4
  <2> QED BY <1>7, <2>5
<1>9. CASE UNCHANGED vars
  BY <1>5, <1>9 DEF vars
<1> QED BY <1>1, <1>2, <1>3, <1>4, <1>6, <1>8, <1>9 DEF Next

\* No run publishes a model while it is being ingested.
LEMMA AlwaysUnpublished ==
    ASSUME Serialised, ~LateFailures
    PROVE  Spec => []UnpublishedWhileIngested
<1>1. Init => UnpublishedWhileIngested
  BY DEF Init, UnpublishedWhileIngested, Idle, IngestPCs
<1> QED BY <1>1, UnpublishedStep, AlwaysHubInv, PTL DEF Spec

\* Steps that leave all the ready models, and what they map, as they are: all
\* but removal, the start of an ingest and its commit.
ReadyKept ==
    \A m \in Models :
        /\ status'[m] = "ready" <=> status[m] = "ready"
        /\ status[m] = "ready" => mappings'[m] = mappings[m]

\* gc's cascade finds no mapping to sweep away.
LEMMA GcKeepsMappings ==
    ASSUME HubInv, NEW w \in Writers, GcOrphans(w) PROVE mappings' = mappings
<1>1. mappings \in [Models -> Content]
  BY HubInvParts
<1>2. ASSUME NEW m \in Models, NEW q \in Params PROVE mappings[m][q] \notin Orphans
  <2>1. mappings[m][q] # NoTensor => mappings[m][q] \in Referenced
    BY <1>1, ReferencedElements
  <2> QED BY <2>1, HubInvParts, ConstantsAssumption DEF Orphans
<1>3. mappings' = [m \in Models |-> [q \in Params |-> mappings[m][q]]]
  BY <1>2 DEF GcOrphans
<1>4. \A m \in Models : [q \in Params |-> mappings[m][q]] = mappings[m]
  BY <1>1 DEF Content
<1> QED BY <1>1, <1>3, <1>4

\* The steps that publish nothing leave the published models alone.
LEMMA OtherStepsKeepReady ==
    ASSUME HubInv, UnpublishedWhileIngested, NEW w \in Writers,
           \/ \E c \in Content : IngestDedup(w, c)
           \/ \E t \in Tensors : \/ IngestCreate(w, t) \/ IngestFill(w, t)
                                 \/ GcUnlink(w, t) \/ GcUnlinkError(w, t)
           \/ \E t, b \in Tensors : CompressPlan(w, t, b)
           \/ IngestBatch(w) \/ IngestFail(w) \/ GcOrphans(w)
           \/ CompressEdge(w) \/ CompressReplace(w) \/ CompressReturn(w)
           \/ CompressFail(w) \/ Crash(w)
    PROVE  ReadyKept
<1>1. /\ mappings \in [Models -> Content] /\ status \in [Models -> Statuses]
      /\ proc[w].pc \in IngestPCs =>
            proc[w].model \in Models /\ status[proc[w].model] # "ready"
  BY DEF HubInv, TypeInv, TypeOK, ProcTyped, UnpublishedWhileIngested
<1>2. CASE IngestBatch(w)
  <2>1. /\ proc[w].pc = "writing" /\ status' = status
        /\ \A m \in Models : m # proc[w].model => mappings'[m] = mappings[m]
    BY <1>1, <1>2 DEF IngestBatch
  <2> QED BY <1>1, <2>1 DEF ReadyKept, IngestPCs
<1>3. CASE IngestFail(w)
  <2>1. /\ proc[w].pc \in IngestPCs /\ mappings' = mappings
        /\ status' = [status EXCEPT ![proc[w].model] = "failed"]
    BY <1>3 DEF IngestFail
  <2> QED BY <1>1, <2>1 DEF ReadyKept
<1>4. CASE GcOrphans(w)
  <2>1. status' = status
    BY <1>4 DEF GcOrphans
  <2> QED BY <1>4, <2>1, GcKeepsMappings DEF ReadyKept
<1>5. CASE \/ \E c \in Content : IngestDedup(w, c)
           \/ \E t \in Tensors : \/ IngestCreate(w, t) \/ IngestFill(w, t)
                                 \/ GcUnlink(w, t) \/ GcUnlinkError(w, t)
           \/ \E t, b \in Tensors : CompressPlan(w, t, b)
           \/ CompressEdge(w) \/ CompressReplace(w) \/ CompressReturn(w)
           \/ CompressFail(w) \/ Crash(w)
  <2>1. UNCHANGED <<mappings, status>>
    BY <1>5, Zenon
       DEF IngestDedup, IngestCreate, IngestFill, GcUnlink, GcUnlinkError, GcStep,
           CompressPlan, CompressEdge, CompressReplace, CompressReturn,
           CompressFail, Crash, catalogue
  <2> QED BY <2>1, Zenon DEF ReadyKept
<1> QED BY <1>2, <1>3, <1>4, <1>5

\* A ready model's parameters keep their tensors until the model is removed or
\* ingested anew: gc's cascades and the ingest of other models spare them.
THEOREM ReadyModelsStayFrozen ==
    ASSUME Serialised, ~LateFailures
    PROVE  Spec => ReadyModelsFrozen
<1> DEFINE Frozen == \A m \in Models : status[m] = "ready" /\ status'[m] = "ready"
                        => mappings'[m] = mappings[m]
<1>1. HubInv /\ UnpublishedWhileIngested /\ [Next]_vars => [Frozen]_vars
  <2> SUFFICES ASSUME HubInv, UnpublishedWhileIngested, Next PROVE Frozen
    OBVIOUS
  <2>p. mappings \in [Models -> Content] /\ status \in [Models -> Statuses]
    BY DEF HubInv, TypeInv, TypeOK
  <2>1. ASSUME NEW m \in Models, Rm(m) PROVE Frozen
    BY <2>1, <2>p DEF Rm
  <2>2. ASSUME NEW w \in Writers, NEW m \in Models, IngestInit(w, m) PROVE Frozen
    BY <2>2, <2>p DEF IngestInit
  <2>3. ASSUME NEW w \in Writers, IngestCommit(w) PROVE Frozen
    BY <2>3 DEF IngestCommit
  <2>4. ReadyKept => Frozen
    BY DEF ReadyKept
  <2> HIDE DEF Frozen
  <2> QED BY <2>1, <2>2, <2>3, <2>4, OtherStepsKeepReady DEF Next
<1> HIDE DEF Frozen
<1>2. [][Frozen]_vars <=> ReadyModelsFrozen
  BY DEF Frozen, ReadyModelsFrozen
<1> QED BY <1>1, <1>2, AlwaysHubInv, AlwaysUnpublished, PTL DEF Spec

-----------------------------------------------------------------------------
(* The hub keeps what PublishedModels promises *)

Ready == {m \in Models : status[m] = "ready"}

\* What a mapping refers to can be read where rows are decodable.
LEMMA ReadyNeedsReadable ==
    ASSUME NoDanglingReferences, RowsDecodable, NEW m \in Models
    PROVE  Wanted(mappings[m]) \subseteq Readable
<1>1. Wanted(mappings[m]) \subseteq tensors
  BY DEF NoDanglingReferences, Referenced
<1> QED BY <1>1 DEF RowsDecodable, Readable

\* A step that keeps the ready models is a restocking.
LEMMA RestockStep ==
    ASSUME HubInv', ReadyKept PROVE Promise!Restock
<1>1. Shelf' = Shelf
  BY DEF ReadyKept, Shelf
<1>2. Readable' \subseteq Tensors
  BY DEF HubInv, TypeInv, TypeOK, Readable
<1>3. ASSUME NEW m \in DOMAIN Shelf PROVE Promise!Needs(Shelf[m]) \subseteq Readable'
  <2>1. m \in Models /\ Shelf'[m] = mappings'[m]
    BY <1>1, <1>3 DEF Shelf
  <2>2. Wanted(mappings'[m]) \subseteq tensors'
    BY <2>1 DEF HubInv, NoDanglingReferences, Referenced
  <2>3. Wanted(mappings'[m]) \subseteq Readable'
    BY <2>2 DEF HubInv, RowsDecodable, Readable
  <2> QED BY <1>1, <2>1, <2>3 DEF Promise!Needs, Wanted
<1> QED BY <1>1, <1>2, <1>3 DEF Promise!Restock, Promise!Published

\* A step that makes one model unready, and changes no row and no blob, is a
\* withdrawal, or nothing at all to a reader.
LEMMA WithdrawStep ==
    ASSUME UNCHANGED <<tensors, blob>>, NEW m \in Models,
           status \in [Models -> Statuses], mappings \in [Models -> Content],
           NEW s, s # "ready", status' = [status EXCEPT ![m] = s],
           NEW c, mappings' = [mappings EXCEPT ![m] = c]
    PROVE  Promise!Withdraw(m)
<1>1. Readable' = Readable
  BY DEF Readable, Decodable
<1>2. Ready' = Ready \ {m}
  BY DEF Ready
<1>3. Shelf' = [n \in Ready \ {m} |-> Shelf[n]]
  <2>1. Shelf' = [n \in Ready' |-> mappings'[n]]
    BY DEF Shelf, Ready
  <2>2. \A n \in Ready \ {m} : mappings'[n] = Shelf[n]
    BY DEF Shelf, Ready
  <2> QED BY <1>2, <2>1, <2>2
<1>4. DOMAIN Shelf = Ready
  BY DEF Shelf, Ready
<1> QED BY <1>1, <1>3, <1>4 DEF Promise!Withdraw, Promise!Published

\* commit_model publishes.
LEMMA PublishStep ==
    ASSUME HubInv, UnpublishedWhileIngested, NEW w \in Writers, IngestCommit(w)
    PROVE  \E m \in Models, c \in Promise!Contents : Promise!Publish(m, c)
<1> DEFINE m == proc[w].model
           c == mappings[m]
<1>1. /\ status \in [Models -> Statuses] /\ mappings \in [Models -> Content]
      /\ m \in Models /\ status[m] # "ready"
      /\ status' = [status EXCEPT ![m] = "ready"]
      /\ UNCHANGED <<tensors, mappings, blob>>
  BY DEF HubInv, TypeInv, TypeOK, ProcTyped, UnpublishedWhileIngested,
         IngestCommit, IngestPCs
<1> HIDE DEF m
<1>2. c \in Promise!Contents
  BY <1>1 DEF Promise!Contents, Content, Slot
<1>3. m \notin Ready /\ Ready' = Ready \union {m} /\ DOMAIN Shelf = Ready
  BY <1>1 DEF Ready, Shelf
<1>4. Shelf' = [n \in Ready \union {m} |-> IF n = m THEN c ELSE Shelf[n]]
  <2>1. Shelf' = [n \in Ready \union {m} |-> mappings[n]]
    BY <1>1, <1>3 DEF Shelf, Ready
  <2>2. \A n \in Ready : mappings[n] = Shelf[n]
    BY DEF Shelf, Ready
  <2> QED BY <1>3, <2>1, <2>2
<1>5. Promise!Needs(c) \subseteq Readable
  BY <1>1, ReadyNeedsReadable DEF HubInv, Promise!Needs, Wanted
<1>6. Readable' = Readable
  BY <1>1 DEF Readable, Decodable
<1>7. Promise!Publish(m, c)
  BY <1>3, <1>4, <1>5, <1>6 DEF Promise!Publish, Promise!Published
<1> QED BY <1>1, <1>2, <1>7

\* The hub implements PublishedModels: a reader sees models published whole,
\* kept as they are and readable, and withdrawn.
THEOREM HubKeepsPromise ==
    ASSUME Serialised, ~LateFailures
    PROVE  Spec => KeepsPromise
<1>1. Init => Promise!Init
  BY DEF Init, Promise!Init, Promise!Published, Shelf, Readable
<1>2. HubInv /\ HubInv' /\ UnpublishedWhileIngested /\ [Next]_vars
        => [Promise!Next]_<<Shelf, Readable>>
  <2> SUFFICES ASSUME HubInv, HubInv', UnpublishedWhileIngested, [Next]_vars
               PROVE  [Promise!Next]_<<Shelf, Readable>>
    OBVIOUS
  <2>p. status \in [Models -> Statuses] /\ mappings \in [Models -> Content]
    BY DEF HubInv, TypeInv, TypeOK
  <2>1. ASSUME NEW m \in Models, Rm(m) PROVE Promise!Next
    <3>1. Promise!Withdraw(m)
      BY <2>1, <2>p, WithdrawStep DEF Rm
    <3> QED BY <3>1 DEF Promise!Next
  <2>2. ASSUME NEW w \in Writers, NEW m \in Models, IngestInit(w, m)
        PROVE  Promise!Next
    <3>1. Promise!Withdraw(m)
      BY <2>2, <2>p, WithdrawStep DEF IngestInit
    <3> QED BY <3>1 DEF Promise!Next
  <2>3. ASSUME NEW w \in Writers, IngestCommit(w) PROVE Promise!Next
    BY <2>3, PublishStep DEF Promise!Next
  <2>4. ReadyKept => Promise!Next
    BY RestockStep DEF Promise!Next
  <2>5. CASE UNCHANGED vars
    BY <2>5 DEF vars, Shelf, Readable, Decodable
  <2> QED BY <2>1, <2>2, <2>3, <2>4, <2>5, OtherStepsKeepReady DEF Next
<1> QED
  BY <1>1, <1>2, AlwaysHubInv, AlwaysUnpublished, PTL
     DEF Spec, KeepsPromise, Promise!Spec
=============================================================================
