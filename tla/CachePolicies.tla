---------------------------- MODULE CachePolicies ----------------------------
(***************************************************************************)
(* The simulator of serving caches (eval/scripts/caching/fig1_sim.py): a   *)
(* trace of pulls against a cache of one of four policies.  Decoded        *)
(* tensors are cached; a miss of a delta also needs its base.  Priorities  *)
(* and densities are kept in thousandths.                                  *)
(***************************************************************************)
EXTENDS Integers, Sequences, FiniteSets, FiniteSetsExt, SequencesExt

CONSTANTS
    Models,        \* the manifests a pull may ask for: sequences of tensors
    Size,          \* L: the logical size of each tensor
    DeltaSize,     \* d: the bytes of its delta (0 for raw)
    BaseOf,        \* base: the base of each tensor, or -1 for raw
    Capacities,    \* cap
    Policies,      \* some of "lru", "gdsf", "basebias", "recon"
    MaxPulls       \* bound: the pulls of a trace

Tensors == DOMAIN Size
RawItem == -1
Whole == 1000

ASSUME CacheConstants ==
    /\ Size \in Seq(Nat) /\ MaxPulls \in Nat
    /\ DeltaSize \in [Tensors -> Nat]
    /\ BaseOf \in [Tensors -> Tensors \union {RawItem}] /\ \A i \in Tensors : BaseOf[i] # i
    /\ Models \subseteq Seq(Tensors) /\ Capacities \subseteq Nat
    /\ Policies \subseteq {"lru", "gdsf", "basebias", "recon"}

VARIABLES
    policy, cap,   \* the cell that is simulated
    res,           \* the resident tensors
    used,          \* the bytes counted as used
    order,         \* LRU: least recently used first
    heap,          \* GDSF, Recon: the entries pushed and not popped, a bag as a sequence
    pins,          \* BaseBias: the bases that are never evicted
    pri,           \* GDSF: the current priority of each tensor, or none (-1)
    freq, bfreq,   \* access counts, of tensors and of the families of bases
    clock,         \* GDSF: the priority of the last victim
    cost,          \* GDSF: the cost noted at the last miss, or -1
    pull,          \* what is left of the pull being served
    fetched,       \* bases fetched in this pull
    pulls          \* pulls begun

cache == <<res, used, order, heap, pri, freq, bfreq, clock, cost>>
simulation == <<policy, cap, pins, res, used, order, heap, pri, freq, bfreq, clock, cost,
                pull, fetched, pulls>>

State == [res |-> res, used |-> used, order |-> order, heap |-> heap, pri |-> pri,
          freq |-> freq, bfreq |-> bfreq, clock |-> clock, cost |-> cost]

AtLeast1(x) == IF x < 1 THEN 1 ELSE x
Pushed(s, p, i) == [s EXCEPT !.heap = Append(@, <<p, i>>)]
\* The position heappop takes: the least entry.
Least(h) == CHOOSE k \in DOMAIN h : \A j \in DOMAIN h :
                h[k][1] < h[j][1] \/ (h[k][1] = h[j][1] /\ h[k][2] <= h[j][2])

DropItem(s, i) == [s EXCEPT !.res = @ \ {i}, !.used = @ - Size[i]]

-----------------------------------------------------------------------------
(* evict_one: the state after it, and whether something was evicted.         *)

Popped(s, evicted) == [s |-> s, evicted |-> evicted]

PopOldest(s) ==
    LET v == Head(s.order)
        t == [s EXCEPT !.order = Tail(@)]
    IN IF s.order = <<>> THEN Popped(s, FALSE)
       ELSE IF v \in s.res \ pins THEN Popped(DropItem(t, v), TRUE)
       ELSE Popped(t, FALSE)

PopCheapest(s) ==
    LET k == Least(s.heap)
        p == s.heap[k][1]
        v == s.heap[k][2]
        t == [s EXCEPT !.heap = RemoveAt(@, k)]
    IN IF s.heap = <<>> THEN Popped(s, FALSE)
       ELSE IF v \in s.res /\ s.pri[v] = p
         THEN Popped(DropItem([t EXCEPT !.clock = IF p > @ THEN p ELSE @, !.pri[v] = -1], v), TRUE)
       ELSE Popped(t, FALSE)

\* The density of a raw tensor counts the accesses of the family it is base of.
Density(s, i) ==
    IF BaseOf[i] = RawItem THEN s.bfreq[i] + s.freq[i]
    ELSE (s.freq[i] * AtLeast1(DeltaSize[i])) \div AtLeast1(Size[i])

Grown(cur, p) == cur * 100 > p * 105

PopSparsest(s) ==
    LET k == Least(s.heap)
        v == s.heap[k][2]
        t == [s EXCEPT !.heap = RemoveAt(@, k)]
        cur == Density(s, v)
    IN IF s.heap = <<>> THEN Popped(s, FALSE)
       ELSE IF v \notin s.res THEN Popped(t, FALSE)
       ELSE IF Grown(cur, s.heap[k][1]) THEN Popped(Pushed(t, cur, v), FALSE)
       ELSE Popped(DropItem(t, v), TRUE)

Pop(s) ==
    CASE policy = "gdsf"  -> PopCheapest(s)
      [] policy = "recon" -> PopSparsest(s)
      [] OTHER            -> PopOldest(s)

\* An entry that was filed again is not grown any more: none is popped three times.
MostPops(s) == Len(s.order) + 2 * Len(s.heap)

EvictOne(s) ==
    LET after[k \in 0 .. MostPops(s)] ==
            IF k = 0 THEN Popped(s, FALSE)
            ELSE LET w == after[k - 1] IN IF w.evicted THEN w ELSE Pop(w.s)
    IN after[MostPops(s)]

-----------------------------------------------------------------------------
(* admit, and what each policy does around it *)

Fits(s, size) == s.used + size <= cap

\* Each eviction takes a resident tensor; without one the loop ends.
MakeRoom(s, size) ==
    LET after[k \in 0 .. Cardinality(s.res)] ==
            IF k = 0 THEN s
            ELSE LET w == after[k - 1] IN IF Fits(w, size) THEN w ELSE EvictOne(w).s
    IN after[Cardinality(s.res)]

\* Mutant of Admit: one eviction is taken to be enough.
AdmitAfterOne(s, i) ==
    IF Size[i] > cap THEN s
    ELSE LET room == IF s.used + Size[i] <= cap THEN s ELSE EvictOne(s).s
         IN [room EXCEPT !.res = @ \union {i}, !.used = @ + Size[i]]

Admit(s, i) ==
    IF Size[i] > cap THEN s
    ELSE LET room == MakeRoom(s, Size[i])
         IN IF Fits(room, Size[i]) THEN [room EXCEPT !.res = @ \union {i}, !.used = @ + Size[i]]
            ELSE room

ToEnd(order_, i) == Append(RemoveFirst(order_, i), i)

Reprioritise(s, i) ==
    LET noted == IF s.cost[i] = -1 THEN Size[i] ELSE s.cost[i]
        p == s.clock + s.freq[i] * ((noted * Whole) \div AtLeast1(Size[i]))
    IN Pushed([s EXCEPT !.pri[i] = p], p, i)

Count(s, i) == [s EXCEPT !.freq[i] = @ + 1]

Bump(s, i) ==
    LET decayed(x) == (x * 999) \div 1000 + Whole
        counted == [s EXCEPT !.freq[i] = decayed(@)]
    IN IF BaseOf[i] = RawItem THEN counted
       ELSE [counted EXCEPT !.bfreq[BaseOf[i]] = decayed(@)]

TouchItem(s, i) ==
    CASE policy = "gdsf"  -> IF i \in s.res THEN Reprioritise(Count(s, i), i) ELSE Count(s, i)
      [] policy = "recon" -> Bump(s, i)
      [] OTHER            -> IF i \in Range(s.order) THEN [s EXCEPT !.order = ToEnd(@, i)] ELSE s

OnServe(s, i) ==
    CASE policy = "gdsf"  -> LET t == Count(Admit(s, i), i)
                             IN IF i \in t.res THEN Reprioritise(t, i) ELSE t
      [] policy = "recon" -> LET t == Admit(Bump(s, i), i)
                             IN IF i \in t.res THEN Pushed(t, Density(t, i), i) ELSE t
      [] OTHER            -> LET t == Admit(s, i)
                             IN IF i \in t.res THEN [t EXCEPT !.order = ToEnd(@, i)] ELSE t

OnBaseFetch(s, b) ==
    IF policy # "recon" THEN s
    ELSE LET t == Admit(s, b)
         IN IF b \in t.res THEN Pushed(t, Density(t, b), b) ELSE t

NoteMiss(s, i, bytes) == IF policy = "gdsf" THEN [s EXCEPT !.cost[i] = bytes] ELSE s

-----------------------------------------------------------------------------
(* run_cell *)

Become(s) ==
    /\ res' = s.res /\ used' = s.used /\ order' = s.order /\ heap' = s.heap
    /\ pri' = s.pri /\ freq' = s.freq /\ bfreq' = s.bfreq /\ clock' = s.clock
    /\ cost' = s.cost

\* basebias: the bases the trace needs most, by pulls, in half the capacity.
PinBases(ranked, budget) ==
    FoldLeft(LAMBDA w, b : IF w.used + Size[b] <= budget
                             THEN [set |-> w.set \union {b}, used |-> w.used + Size[b]]
                             ELSE w,
             [set |-> {}, used |-> 0], ranked)

BaseItems == {BaseOf[i] : i \in Tensors} \ {RawItem}

CacheInit ==
    /\ policy \in Policies /\ cap \in Capacities
    /\ \E ranked \in SetToSeqs(BaseItems) :
          LET pinned == IF policy = "basebias" THEN PinBases(ranked, cap \div 2)
                        ELSE [set |-> {}, used |-> 0]
          IN pins = pinned.set /\ res = pinned.set /\ used = pinned.used
    /\ pri = [i \in Tensors |-> -1]
    /\ order = <<>> /\ heap = <<>> /\ clock = 0
    /\ freq = [i \in Tensors |-> 0] /\ bfreq = [i \in Tensors |-> 0]
    /\ cost = [i \in Tensors |-> -1]
    /\ pull = <<>> /\ fetched = {} /\ pulls = 0

BeginPull(m) ==
    /\ pull = <<>> /\ pulls < MaxPulls
    /\ pull' = m /\ fetched' = {} /\ pulls' = pulls + 1
    /\ UNCHANGED <<policy, cap, pins>> /\ UNCHANGED cache

ServeHit ==
    /\ pull # <<>> /\ Head(pull) \in res
    /\ Become(TouchItem(State, Head(pull)))
    /\ pull' = Tail(pull)
    /\ UNCHANGED <<policy, cap, pins, fetched, pulls>>

ServeRaw ==
    /\ pull # <<>> /\ Head(pull) \notin res /\ BaseOf[Head(pull)] = RawItem
    /\ LET i == Head(pull) IN Become(OnServe(NoteMiss(State, i, Size[i]), i))
    /\ pull' = Tail(pull)
    /\ UNCHANGED <<policy, cap, pins, fetched, pulls>>

\* The base is resident, fetched earlier in this pull, or fetched now.
BaseStep(s, b) ==
    IF b \in s.res THEN TouchItem(s, b)
    ELSE IF b \in fetched THEN s ELSE OnBaseFetch(s, b)

ServeDelta ==
    /\ pull # <<>> /\ Head(pull) \notin res /\ BaseOf[Head(pull)] # RawItem
    /\ LET i == Head(pull)
           b == BaseOf[i]
           resident == b \in res \union fetched
           bytes == DeltaSize[i] + (IF resident THEN 0 ELSE Size[b])
       IN /\ Become(OnServe(NoteMiss(BaseStep(State, b), i, bytes), i))
          /\ fetched' = IF resident THEN fetched ELSE fetched \union {b}
    /\ pull' = Tail(pull)
    /\ UNCHANGED <<policy, cap, pins, pulls>>

CacheNext ==
    \/ \E m \in Models : BeginPull(m)
    \/ ServeHit
    \/ ServeRaw
    \/ ServeDelta

CacheSpec == CacheInit /\ [][CacheNext]_simulation

-----------------------------------------------------------------------------
BytesOf(S) == MapThenSumSet(LAMBDA i : Size[i], S)

\* What the eviction of a policy can still find.
Filed ==
    CASE policy = "gdsf"  -> {i \in res : <<pri[i], i>> \in Range(heap)}
      [] policy = "recon" -> {e[2] : e \in Range(heap)}
      [] OTHER            -> Range(order)

\* The bytes counted are those of the resident tensors and never exceed the
\* capacity; and no resident tensor that is not pinned escapes eviction, so
\* that room can always be made (fig1_sim.py 128-138, 161-167, 207-216, 235-241,
\* 287-298).
CachesFitTheirBudget ==
    /\ used = BytesOf(res) /\ used <= cap
    /\ res \ pins \subseteq Filed
=============================================================================
