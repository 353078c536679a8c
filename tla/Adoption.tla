------------------------------- MODULE Adoption -------------------------------
(***************************************************************************)
(* Making a plan of depth one out of pairs that chain: the resolution of   *)
(* conflicts of model_level_reduction.py, which replan_adopt.py repeats    *)
(* before it completes the plan from an earlier one.                       *)
(*                                                                         *)
(* A plan maps each target to its base and to the bytes its delta takes;   *)
(* order lists its targets as the dictionary does.                         *)
(***************************************************************************)
EXTENDS Integers, Sequences, FiniteSets, FiniteSetsExt, SequencesExt

Saved(plan, size) ==
    [t \in DOMAIN plan |-> IF plan[t].bytes < size[t] THEN size[t] - plan[t].bytes ELSE 0]

BasesOf(plan) == {plan[t].base : t \in DOMAIN plan}
Conflicts(plan) == DOMAIN plan \intersect BasesOf(plan)

\* The conflicting tensors that save more as a base than as a target.
Forced(plan, size) ==
    LET gains == Saved(plan, size)
        worth(b) == MapThenSumSet(LAMBDA t : gains[t],
                                  {t \in DOMAIN plan : plan[t].base = b})
    IN {b \in Conflicts(plan) : worth(b) > gains[b]}

\* The pairs that are kept: their bases are never targets.
Kept(plan, size) ==
    LET forced == Forced(plan, size)
    IN {t \in DOMAIN plan : t \notin forced
            /\ (plan[t].base \in Conflicts(plan) => plan[t].base \in forced)}

Resolve1(plan, size) == [t \in Kept(plan, size) |-> plan[t]]

\* Tensor t of a model, and the base it brings in as a target, if not yet counted.
Counted(w, t, final, size) ==
    LET b == final[t].base
        extra == IF b \in w.done THEN 0 ELSE size[b]
    IN IF t \in w.done THEN w
       ELSE IF t \notin DOMAIN final
         THEN [done |-> w.done \union {t}, original |-> w.original + size[t],
               stored |-> w.stored + size[t]]
         ELSE [done |-> w.done \union {t, b}, original |-> w.original + size[t] + extra,
               stored |-> w.stored + final[t].bytes + extra]

CountedAll(w, model, final, size) ==
    FoldLeft(LAMBDA v, t : Counted(v, t, final, size), w, model)

\* The stored bytes of the hub under the kept pairs.
Accounting(plan, size, models) ==
    LET final == Resolve1(plan, size)
    IN FoldLeft(LAMBDA w, m : CountedAll(w, m, final, size),
                [done |-> {}, original |-> 0, stored |-> 0], models)

-----------------------------------------------------------------------------
(* replan_adopt *)

\* Rows of the adopted plan whose tensors both exist.
Physical(theirs, phys) ==
    [t \in {t \in DOMAIN theirs \intersect phys : theirs[t].base \in phys \ {t}} |-> theirs[t]]

RolesOf(cand, final) ==
    [t \in DOMAIN cand \union {final[k].base : k \in DOMAIN final} |->
        IF t \in DOMAIN final THEN "target" ELSE "base"]

RoleIn(roles, t) == IF t \in DOMAIN roles THEN roles[t] ELSE "base"

\* Mutant of Claim: the base is not given its role.
ClaimTarget(roles, t, b) ==
    [x \in DOMAIN roles \union {t} |-> IF x = t THEN "target" ELSE roles[x]]

\* setdefault: the base of a fallback pair can no longer become a target.
Claim(roles, t, b) ==
    [x \in DOMAIN roles \union {t, b} |->
        IF x = t THEN "target" ELSE IF x \in DOMAIN roles THEN roles[x] ELSE "base"]

\* An unassigned tensor takes the pair of the first plan, if its base is raw.
Fallback(s, t, v1, phys) ==
    IF t \in DOMAIN s.roles THEN s
    ELSE IF /\ t \in DOMAIN v1
            /\ v1[t] \in phys
            /\ RoleIn(s.roles, v1[t]) = "base"
            /\ v1[t] \notin DOMAIN s.final
      THEN [final |-> [x \in DOMAIN s.final \union {t} |->
                         IF x = t THEN v1[t] ELSE s.final[x]],
            roles |-> Claim(s.roles, t, v1[t])]
      ELSE [s EXCEPT !.roles = [x \in DOMAIN s.roles \union {t} |->
                                  IF x = t THEN "base" ELSE s.roles[x]]]

\* order is the arbitrary order in which the set of the tensors that exist, phys,
\* is walked.
Replan(theirs, v1, phys, size, order) ==
    LET cand == Physical(theirs, phys)
        kept == Resolve1(cand, size)
    IN FoldLeft(LAMBDA s, t : Fallback(s, t, v1, phys),
                [final |-> [t \in DOMAIN kept |-> kept[t].base], roles |-> RolesOf(cand, kept)],
                order).final

DepthOne(final) == \A t \in DOMAIN final : final[t] \notin DOMAIN final
=============================================================================
