--------------------------- MODULE PublishedModels ---------------------------
(***************************************************************************)
(* What a hub promises its readers, without rows, edges, blobs or          *)
(* processes: a published model is a fixed choice of tensors, all of them  *)
(* readable, until its owner withdraws it.                                 *)
(***************************************************************************)
CONSTANTS Tensors, NoTensor, Models, Params

VARIABLES
    shelf,      \* the published models: a function from their names
    readable    \* tensors that can be read back

Contents == [Params -> Tensors \union {NoTensor}]
Needs(c) == {c[p] : p \in Params} \ {NoTensor}
Published == DOMAIN shelf

Init ==
    /\ Published = {}
    /\ readable = {}

Publish(m, c) ==
    /\ m \notin Published
    /\ Needs(c) \subseteq readable
    /\ shelf' = [n \in Published \union {m} |-> IF n = m THEN c ELSE shelf[n]]
    /\ UNCHANGED readable

Withdraw(m) ==
    /\ shelf' = [n \in Published \ {m} |-> shelf[n]]
    /\ UNCHANGED readable

\* The readable tensors may change in any way that spares the published.
Restock ==
    /\ readable' \subseteq Tensors
    /\ \A m \in Published : Needs(shelf[m]) \subseteq readable'
    /\ UNCHANGED shelf

Next ==
    \/ \E m \in Models : Withdraw(m) \/ \E c \in Contents : Publish(m, c)
    \/ Restock

Spec == Init /\ [][Next]_<<shelf, readable>>
=============================================================================
