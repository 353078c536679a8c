------------------------------ MODULE Transfers ------------------------------
(***************************************************************************)
(* How bytes are cut to be moved or worked on: the work units and shards   *)
(* of the campaign (full_hub/executor.py), the batches of compress_batch   *)
(* (compression/execute.rs), and the byte ranges of the blob endpoint      *)
(* (transfer.rs).                                                          *)
(***************************************************************************)
EXTENDS Integers, Sequences, FiniteSets, FiniteSetsExt, SequencesExt

-----------------------------------------------------------------------------
(* Packing: a run of items is closed when the next one would exceed the cap. *)

Total(items) == FoldLeft(LAMBDA a, b : a + b, 0, items)
FitsNext(run, size, cap) == run = <<>> \/ Total(run) + size <= cap

\* The campaign's units: the targets of each base, in the order of the plan.
Units(pairs, size, cap) ==
    LET bases == FoldLeft(LAMBDA s, p : IF p.base \in Range(s) THEN s ELSE Append(s, p.base),
                          <<>>, pairs)
        targets(b) == LET own == SelectSeq(pairs, LAMBDA p : p.base = b)
                      IN [i \in DOMAIN own |-> own[i].target]
        next(p, b, t) ==
            IF FitsNext([i \in DOMAIN p.run |-> size[p.run[i]]], size[t], cap)
              THEN [p EXCEPT !.run = Append(@, t)]
              ELSE [done |-> Append(p.done, [base |-> b, targets |-> p.run]), run |-> <<t>>]
        cut(b) == LET p == FoldLeft(LAMBDA q, t : next(q, b, t),
                                    [done |-> <<>>, run |-> <<>>], targets(b))
                  IN Append(p.done, [base |-> b, targets |-> p.run])
    IN FoldLeft(LAMBDA all, b : all \o cut(b), <<>>, bases)

UnitWeight(u, size) ==
    size[u.base] + FoldLeft(LAMBDA w, t : w + size[t], 0, u.targets)

\* The heaviest unit first, each to the first of the lightest shards.
Shards(units, size, n) ==
    LET weight(i) == UnitWeight(units[i], size)
        order == SetToSortSeq(DOMAIN units,
                     LAMBDA i, j : weight(i) > weight(j) \/ (weight(i) = weight(j) /\ i < j))
        load(s) == FoldLeft(LAMBDA w, u : w + UnitWeight(u, size), 0, s)
        lightest(shards) == CHOOSE k \in 1 .. n : \A j \in 1 .. n :
            load(shards[k]) <= load(shards[j]) /\ (load(shards[k]) = load(shards[j]) => k <= j)
    IN FoldLeft(LAMBDA shards, i : [shards EXCEPT ![lightest(shards)] = Append(@, units[i])],
                [k \in 1 .. n |-> <<>>], order)

-----------------------------------------------------------------------------
(* compress_batch: the plans are taken in batches bounded in number and in  *)
(* estimated bytes; one plan whose size cannot be estimated refuses all.    *)

NoLimit == -1
NoEstimate == -1     \* an unknown dtype, or an overflow

Exceeds(estimate, max) == max # NoLimit /\ estimate > max
\* Mutant of Overflows: only what a plan needs by itself is compared.
OverflowsAlone(bytes, estimate, max) == Exceeds(estimate, max)

Overflows(bytes, estimate, max) ==
    max # NoLimit /\ ~Exceeds(estimate, max) /\ bytes + estimate > max

\* The inner loop on plan i: closed once a plan is left for the next batch.
TakePlan(b, i, estimate, batchSize, max) ==
    IF \/ b.closed
       \/ Len(b.plans) >= batchSize
       \/ b.plans # <<>> /\ (Exceeds(estimate, max) \/ Overflows(b.bytes, estimate, max))
      THEN [b EXCEPT !.closed = TRUE]
      ELSE [plans |-> Append(b.plans, i), bytes |-> b.bytes + estimate,
            closed |-> \/ Exceeds(estimate, max)
                       \/ max # NoLimit /\ b.bytes + estimate >= max]

Batches(estimates, batchSize, max) ==
    LET n == Len(estimates)
        from[cursor \in 1 .. n + 1] ==
            IF cursor > n THEN <<>>
            ELSE LET b == FoldLeft(LAMBDA s, i : TakePlan(s, i, estimates[i], batchSize, max),
                                   [plans |-> <<>>, bytes |-> 0, closed |-> FALSE],
                                   [k \in 1 .. n - cursor + 1 |-> cursor + k - 1])
                     taken == IF b.plans = <<>> THEN <<cursor>> ELSE b.plans
                 IN <<taken>> \o from[cursor + Len(taken)]
    IN from[1]

\* What a pair of a batch comes to: both files are found and are as long.
ExecutePlan(file, plan) ==
    IF plan.target \notin DOMAIN file \/ plan.base \notin DOMAIN file THEN "failed"
    ELSE IF file[plan.target] # file[plan.base] THEN "failed"
    ELSE "ok"

CompressBatch(file, plans, batchSize, max) ==
    LET estimates == [i \in DOMAIN plans |-> plans[i].estimate]
        batches == Batches(estimates, batchSize, max)
        outcome(i) == IF \E k \in DOMAIN batches : i \in Range(batches[k])
                        THEN ExecutePlan(file, plans[i]) ELSE "failed"
        done == SelectSeq([i \in DOMAIN plans |-> i], LAMBDA i : outcome(i) = "ok")
    IN IF NoEstimate \in Range(estimates) THEN [error |-> TRUE]
       ELSE [error |-> FALSE, batches |-> batches, executed |-> done,
             failed |-> Len(plans) - Len(done),
             original |-> FoldLeft(LAMBDA w, i : w + file[plans[i].target], 0, done)]

-----------------------------------------------------------------------------
(* transfer.rs.  A Range header is absent, does not parse, or gives a        *)
(* suffix, a start, or both ends; a blob is a sequence of bytes.             *)

NoRange == [kind |-> "none", from |-> 0, to |-> 0]

Clip(x) == IF x < 0 THEN 0 ELSE x      \* saturating_sub
LeastOf(a, b) == IF a < b THEN a ELSE b

\* The first and last byte asked for, or "unsatisfiable".
ParseRange(range, len) ==
    LET last == Clip(len - 1)
        r == CASE range.kind = "suffix" -> [from |-> Clip(len - range.to), to |-> last]
               [] range.kind = "from"   -> [from |-> range.from, to |-> last]
               [] range.kind = "span"   -> [from |-> range.from, to |-> LeastOf(range.to, last)]
               [] OTHER                 -> [from |-> 1, to |-> 0]
    IN IF \/ range.kind = "suffix" /\ range.to = 0
          \/ len = 0 \/ r.from >= len \/ r.from > r.to
         THEN [satisfiable |-> FALSE, from |-> 0, to |-> 0]
         ELSE [satisfiable |-> TRUE, from |-> r.from, to |-> r.to]

\* The blob at the canonical path, or else at the legacy one; <<>> is a file too.
NoFile == [exists |-> FALSE, bytes |-> <<>>]
Resolve(canonical, legacy) == IF canonical.exists THEN canonical ELSE legacy

\* The file is measured, then opened: it may have been replaced in between.
GetBlob(canonical, legacy, opened, range, matches) ==
    LET found == Resolve(canonical, legacy)
        len == Len(found.bytes)
        r == ParseRange(range, len)
        from == IF range.kind = "none" THEN 0 ELSE r.from
        size == IF range.kind = "none" THEN len ELSE r.to - r.from + 1
    IN IF ~found.exists THEN [status |-> 404]
       ELSE IF matches THEN [status |-> 304]
       ELSE IF range.kind # "none" /\ ~r.satisfiable THEN [status |-> 416]
       ELSE IF ~opened.exists THEN [status |-> 404]
       ELSE [status |-> IF range.kind = "none" THEN 200 ELSE 206,
             length |-> size, first |-> from,
             body |-> SubSeq(opened.bytes, from + 1, LeastOf(from + size, Len(opened.bytes)))]

HeadBlob(canonical, legacy) ==
    LET found == Resolve(canonical, legacy)
    IN IF found.exists THEN [status |-> 200, length |-> Len(found.bytes)] ELSE [status |-> 404]
=============================================================================
