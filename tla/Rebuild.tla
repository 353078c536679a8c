------------------------------- MODULE Rebuild -------------------------------
(***************************************************************************)
(* What a caller of the pipeline may rely on: of the tensors it asked for, *)
(* each is handed over once, never before the tensor it is a delta         *)
(* against, unless the caller's cache holds that one; a run that returns   *)
(* has handed over all of them.                                            *)
(***************************************************************************)
VARIABLES base, cached, wanted, surfaced, outcome

vars == <<base, cached, wanted, surfaced, outcome>>

Init == surfaced = {} /\ outcome = "running"

Surface(t) ==
    /\ outcome = "running"
    /\ t \in wanted \ surfaced
    /\ base[t] \in surfaced \union cached \union {0}
    /\ surfaced' = surfaced \union {t}
    /\ UNCHANGED <<base, cached, wanted, outcome>>

Return ==
    /\ outcome = "running" /\ surfaced = wanted
    /\ outcome' = "returned"
    /\ UNCHANGED <<base, cached, wanted, surfaced>>

Fail ==
    /\ outcome = "running" /\ surfaced # wanted
    /\ outcome' = "failed"
    /\ UNCHANGED <<base, cached, wanted, surfaced>>

\* A delta cycle: a set of tensors of which each is a delta against another.
Refuse ==
    /\ outcome = "running" /\ surfaced = {}
    /\ \E S \in SUBSET DOMAIN base \ {{}} : \A t \in S : base[t] \in S
    /\ outcome' = "refused"
    /\ UNCHANGED <<base, cached, wanted, surfaced>>

Next == Return \/ Fail \/ Refuse \/ \E t \in wanted : Surface(t)

Spec == Init /\ [][Next]_vars
=============================================================================
