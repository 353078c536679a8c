---------------------------- MODULE HubPowerLoss ----------------------------
(***************************************************************************)
(* The hub on a machine that can lose power.  The catalogue is in WAL mode *)
(* with synchronous=NORMAL: a commit is not synced, so a power loss may    *)
(* roll the catalogue back to an earlier commit.  Both blob writers sync   *)
(* the file and its directory before they return, so blobs stay.           *)
(***************************************************************************)
EXTENDS TensorHub

VARIABLE durable    \* the commits that reached the disk

Catalogue == [tensors |-> tensors, mappings |-> mappings,
              status |-> status, deltas |-> deltas]

PowerInit == Init /\ durable = Catalogue

HubStep == Next /\ UNCHANGED durable

\* A checkpoint, or the system's own writeback of the WAL.
Writeback == durable' = Catalogue /\ UNCHANGED vars

PowerLoss ==
    /\ tensors' = durable.tensors
    /\ mappings' = durable.mappings
    /\ status' = durable.status
    /\ deltas' = durable.deltas
    /\ proc' = [w \in Writers |-> Idle]
    /\ UNCHANGED <<blob, durable>>

PowerNext == HubStep \/ Writeback \/ PowerLoss

PowerSpec == PowerInit /\ [][PowerNext]_<<vars, durable>>

-----------------------------------------------------------------------------
\* "The delta edge is what protects the base from gc, so it must be durable
\* BEFORE the blob becomes a delta" (compress_pair): whatever has happened, a
\* catalogued delta has the edge that protects its base.
EdgeDurableBeforeDelta ==
    \A t \in tensors : blob[t].form = "delta" => deltas[t] = blob[t].base
=============================================================================
