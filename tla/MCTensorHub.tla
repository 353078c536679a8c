----------------------------- MODULE MCTensorHub -----------------------------
(* Instances of TensorHub for TLC. *)
EXTENDS TensorHub, TLC

CONSTANTS w1, w2

\* One process runs every command.
OneWriter == w1 :> Ops
\* A process ingests while another compresses, both at any moment.
IngestBesideCompress == (w1 :> {"ingest"}) @@ (w2 :> {"compress"})
\* A process ingests while another collects garbage.
IngestBesideGc == (w1 :> {"ingest"}) @@ (w2 :> {"gc"})

Symmetry == Permutations(Tensors) \union Permutations(Models)
=============================================================================
