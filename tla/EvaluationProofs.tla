--------------------------- MODULE EvaluationProofs ---------------------------
(***************************************************************************)
(* Proofs about the machines of the evaluation: Campaign, for any plan     *)
(* that gives a tensor one base, any number of workers, and however often  *)
(* they are stopped or fail; CachePolicies, for any trace, sizes and       *)
(* capacity; and GreedyFacility, for any problem whose costs are infinite  *)
(* or small.                                                               *)
(***************************************************************************)
EXTENDS Campaign, CachePolicies, GreedyFacility, ClosuresProofs

-----------------------------------------------------------------------------
(* The first place that is left *)

LEMMA MinOf ==
    ASSUME NEW S \in SUBSET Nat, S # {}
    PROVE  Min(S) \in S
<1> DEFINE R == OpToRel(<, Nat)
<1>1. PICK n \in S : \A k \in S : <<k, n>> \notin R
  <2>1. IsWellFoundedOn(R, Nat)
    BY NatLessThanWellFounded
  <2> HIDE DEF R
  <2> QED BY <2>1, WFMin
<1>2. R = {ss \in Nat \X Nat : ss[1] < ss[2]}
  BY DEF OpToRel
<1>3. ASSUME NEW k \in S PROVE n <= k
  <2>1. k \in Nat /\ n \in Nat /\ <<k, n>> \in Nat \X Nat /\ <<k, n>> \notin R
    BY <1>1
  <2> HIDE DEF R
  <2>2. ~(k < n)
    BY <1>2, <2>1
  <2> QED BY <2>1, <2>2
<1> QED BY <1>1, <1>3 DEF Min

-----------------------------------------------------------------------------
(* The inductive invariant *)

\* The pair at a place of a unit.
PlanPair(w, k, i) == [target |-> ShardPlan[w][k].targets[i], base |-> ShardPlan[w][k].base]
Places(w, k) == DOMAIN ShardPlan[w][k].targets

LogRecord == [tid : Nat, base : Nat, status : {"ok", "skipped", "torn"}]
Locals == [pc : {"off", "base", "target", "put", "done"}, unit : Nat, todo : SUBSET Nat,
           done : SUBSET Nat]

CampaignTyped ==
    /\ uploaded \in [Targets -> Nat]
    /\ log \in [Workers -> Seq(LogRecord)]
    /\ worker \in [Workers -> Locals]
    /\ clean \in BOOLEAN

Delivered(p) == Dtype[p.target] = Dtype[p.base] => uploaded[p.target] = p.base

\* What a line of a log stands for.
Stands(w, r) ==
    \/ r = Torn
    \/ \E p \in Pairs(w) :
          \/ r = Record(p, "ok") /\ uploaded[p.target] = p.base
          \/ r = Record(p, "skipped") /\ Dtype[p.target] # Dtype[p.base]
LogsStand == \A w \in Workers : \A i \in DOMAIN log[w] : Stands(w, log[w][i])

AtPlace(w) == worker[w].pc \in {"target", "put"}

\* What a worker leaves out is delivered; it is at a pair of its plan; and
\* when no request has failed, what it has passed is delivered.
WorkerInv(w) ==
    /\ worker[w].pc # "off" =>
          \A p \in AllPairs : p.target \in worker[w].done => Delivered(p)
    /\ AtPlace(w) => /\ worker[w].unit \in DOMAIN ShardPlan[w]
                     /\ worker[w].todo # {}
                     /\ worker[w].todo \subseteq Places(w, worker[w].unit)
    /\ worker[w].pc = "put" => uploaded[Pair(w).target] = Pair(w).base
    /\ worker[w].pc = "base" => worker[w].unit # 0
    /\ worker[w].pc = "done" => worker[w].unit > Len(ShardPlan[w])
    /\ worker[w].pc # "off" /\ clean =>
          \A k \in DOMAIN ShardPlan[w] : \A i \in Places(w, k) :
              \/ k < worker[w].unit
              \/ k = worker[w].unit /\ AtPlace(w) /\ i \notin worker[w].todo
              => Delivered(PlanPair(w, k, i))

CampaignInv == CampaignTyped /\ LogsStand /\ \A w \in Workers : WorkerInv(w)

-----------------------------------------------------------------------------
(* The plan *)

LEMMA PlanPairs ==
    ASSUME NEW w \in Workers
    PROVE  /\ ShardPlan[w] \in Seq([base : TensorIds, targets : Seq(TensorIds)])
           /\ \A k \in DOMAIN ShardPlan[w] : \A i \in Places(w, k) :
                 PlanPair(w, k, i) \in Pairs(w)
           /\ Pairs(w) \subseteq AllPairs
           /\ \A p \in Pairs(w) : /\ p.target \in TensorIds /\ p.target \in Targets /\ p.base \in TensorIds
                                  /\ \E k \in DOMAIN ShardPlan[w] : \E i \in Places(w, k) :
                                        p = PlanPair(w, k, i)
<1> DEFINE U == [base : TensorIds, targets : Seq(TensorIds)]
           P(u) == {[target |-> u.targets[i], base |-> u.base] : i \in DOMAIN u.targets}
<1>1. ShardPlan[w] \in Seq(U)
  BY CampaignAssumption
<1> HIDE DEF U
<1>2. \A k \in DOMAIN ShardPlan[w] : ShardPlan[w][k] \in U
  BY <1>1
<1> USE DEF U
<1>3. Pairs(w) = UNION {P(ShardPlan[w][k]) : k \in DOMAIN ShardPlan[w]}
  BY DEF Pairs, Range
<1>4. \A k \in DOMAIN ShardPlan[w] : P(ShardPlan[w][k]) = {PlanPair(w, k, i) : i \in Places(w, k)}
  BY DEF PlanPair, Places
<1>5. Pairs(w) \subseteq AllPairs
  BY DEF AllPairs
<1> HIDE DEF P
<1>6. ASSUME NEW p \in Pairs(w)
      PROVE  /\ p.target \in TensorIds /\ p.target \in Targets /\ p.base \in TensorIds
             /\ \E k \in DOMAIN ShardPlan[w] : \E i \in Places(w, k) : p = PlanPair(w, k, i)
  <2>1. PICK k \in DOMAIN ShardPlan[w] : p \in P(ShardPlan[w][k])
    BY <1>3
  <2>2. PICK i \in Places(w, k) : p = PlanPair(w, k, i)
    BY <1>4, <2>1
  <2>3. p.target \in TensorIds /\ p.base \in TensorIds
    <3>1. ShardPlan[w][k].base \in TensorIds /\ ShardPlan[w][k].targets \in Seq(TensorIds)
      BY <1>2
    <3> QED BY <2>2, <3>1 DEF PlanPair, Places
  <2>4. p.target \in Targets
    BY <1>5 DEF Targets
  <2> QED BY <2>2, <2>3, <2>4
<1>7. \A k \in DOMAIN ShardPlan[w] : \A i \in Places(w, k) : PlanPair(w, k, i) \in Pairs(w)
  BY <1>3, <1>4
<1> QED BY <1>1, <1>5, <1>6, <1>7

\* The pair a worker is at is one of its plan.
LEMMA PairAtPlace ==
    ASSUME NEW w \in Workers, worker[w] \in Locals, WorkerInv(w), AtPlace(w)
    PROVE  /\ Min(worker[w].todo) \in worker[w].todo
           /\ worker[w].unit \in DOMAIN ShardPlan[w]
           /\ Min(worker[w].todo) \in Places(w, worker[w].unit)
           /\ Pair(w) = PlanPair(w, worker[w].unit, Min(worker[w].todo))
           /\ Pair(w) \in Pairs(w) /\ Pair(w) \in AllPairs
<1>1. /\ worker[w].unit \in DOMAIN ShardPlan[w]
      /\ worker[w].todo # {} /\ worker[w].todo \in SUBSET Nat
      /\ worker[w].todo \subseteq Places(w, worker[w].unit)
  BY DEF WorkerInv, Locals
<1>2. Min(worker[w].todo) \in worker[w].todo
  BY <1>1, MinOf
<1>3. Pair(w) = PlanPair(w, worker[w].unit, Min(worker[w].todo))
  BY DEF Pair, PairAt, PlanPair, Unit
<1> QED BY <1>1, <1>2, <1>3, PlanPairs

-----------------------------------------------------------------------------
(* What a step keeps *)

\* No upload of a pair of the plan is undone.
Kept == \A p \in AllPairs : uploaded[p.target] = p.base => uploaded'[p.target] = p.base

\* An upload takes nothing back: a pair is uploaded with the base its plan names.
LEMMA UploadKeeps ==
    ASSUME CampaignTyped, NEW p \in AllPairs,
           uploaded' = [uploaded EXCEPT ![p.target] = p.base]
    PROVE  Kept
<1>1. ASSUME NEW q \in AllPairs, uploaded[q.target] = q.base
      PROVE  uploaded'[q.target] = q.base
  <2>1. q.target \in Targets /\ uploaded \in [Targets -> Nat]
    BY DEF Targets, CampaignTyped
  <2>2. q.target = p.target => q.base = p.base
    BY CampaignAssumption
  <2> QED BY <1>1, <2>1, <2>2
<1> QED BY <1>1 DEF Kept

\* What is delivered stays delivered while uploads are kept.
LEMMA StillDelivered ==
    ASSUME Kept, NEW p \in AllPairs, Delivered(p)
    PROVE  Delivered(p)'
BY DEF Kept, Delivered

\* A line of a log that stands goes on standing.
LEMMA StillStands ==
    ASSUME Kept, NEW w \in Workers, NEW r, Stands(w, r)
    PROVE  Stands(w, r)'
BY PlanPairs DEF Kept, Stands

\* A worker that does nothing stays where it was.
LEMMA OthersKept ==
    ASSUME NEW w \in Workers, worker[w] \in Locals, WorkerInv(w), worker'[w] = worker[w],
           Kept, clean' => clean
    PROVE  WorkerInv(w)'
<1>1. \A p \in AllPairs : Delivered(p) => Delivered(p)'
  BY StillDelivered
<1>2. \A k \in DOMAIN ShardPlan[w] : \A i \in Places(w, k) : PlanPair(w, k, i) \in AllPairs
  BY PlanPairs
<1>3. worker[w].pc = "put" => uploaded'[Pair(w).target] = Pair(w).base
  BY PairAtPlace DEF Kept, WorkerInv, AtPlace
<1>4. Pair(w)' = Pair(w) /\ AtPlace(w)' = AtPlace(w)
  BY DEF Pair, PairAt, Unit, AtPlace
<1> QED BY <1>1, <1>2, <1>3, <1>4 DEF WorkerInv

\* A line that is appended stands for what it says.
LEMMA LogGrows ==
    ASSUME CampaignTyped, LogsStand, Kept, NEW w \in Workers, NEW r \in LogRecord, Stands(w, r)',
           log' = [log EXCEPT ![w] = Append(@, r)]
    PROVE  LogsStand' /\ log' \in [Workers -> Seq(LogRecord)]
<1>1. log \in [Workers -> Seq(LogRecord)]
  BY DEF CampaignTyped
<1>2. log[w] \in Seq(LogRecord) /\ log'[w] = Append(log[w], r)
  BY <1>1
<1>3. \A v \in Workers \ {w} : log'[v] = log[v]
  BY <1>1
<1>4. log' \in [Workers -> Seq(LogRecord)]
  BY <1>1, <1>2
<1>5. ASSUME NEW v \in Workers, NEW i \in DOMAIN log'[v], v # w
      PROVE  Stands(v, log[v][i])'
  <2>1. log'[v] = log[v] /\ i \in DOMAIN log[v]
    BY <1>3, <1>5
  <2>2. PICK x : x = log[v][i]
    OBVIOUS
  <2>3. Stands(v, x)'
    BY <2>1, <2>2, StillStands DEF LogsStand
  <2> QED BY <2>1, <2>2, <2>3 DEF Stands
<1>6. ASSUME NEW i \in DOMAIN log'[w] PROVE Stands(w, log[w][i])'
  <2>1. i \in 1..(Len(log[w]) + 1) /\ Len(log[w]) \in Nat
    BY <1>2
  <2>2. CASE i = Len(log[w]) + 1
    <3>1. log'[w][i] = r
      BY <1>2, <2>2
    <3> QED BY <3>1 DEF Stands
  <2>3. CASE i # Len(log[w]) + 1
    <3>1. i \in DOMAIN log[w] /\ log'[w][i] = log[w][i]
      BY <1>2, <2>1, <2>3
    <3>2. PICK x : x = log[w][i]
      OBVIOUS
    <3>3. Stands(w, x)'
      BY <3>1, <3>2, StillStands DEF LogsStand
    <3> QED BY <3>1, <3>2, <3>3 DEF Stands
  <2> QED BY <2>2, <2>3
<1> QED BY <1>4, <1>5, <1>6 DEF LogsStand

\* Steps that write no log keep every line of it true.
LEMMA LogStays ==
    ASSUME CampaignTyped, LogsStand, Kept, log' = log
    PROVE  LogsStand' /\ log' \in [Workers -> Seq(LogRecord)]
<1>1. ASSUME NEW v \in Workers, NEW i \in DOMAIN log[v] PROVE Stands(v, log[v][i])'
  <2>1. PICK x : x = log[v][i]
    OBVIOUS
  <2>2. Stands(v, x)'
    BY <2>1, StillStands DEF LogsStand
  <2> QED BY <2>1, <2>2 DEF Stands
<1> QED BY <1>1 DEF LogsStand, CampaignTyped

-----------------------------------------------------------------------------
(* Steps *)

LEMMA WorkerMoves ==
    ASSUME CampaignInv, Kept, NEW w \in Workers, NEW rec \in Locals,
           worker' = [worker EXCEPT ![w] = rec],
           uploaded' \in [Targets -> Nat], log' \in [Workers -> Seq(LogRecord)], LogsStand',
           clean' \in BOOLEAN, clean' => clean, WorkerInv(w)'
    PROVE  CampaignInv'
<1>1. worker \in [Workers -> Locals]
  BY DEF CampaignInv, CampaignTyped
<1>2. worker' \in [Workers -> Locals] /\ \A v \in Workers \ {w} : worker'[v] = worker[v]
  BY <1>1
<1>3. ASSUME NEW v \in Workers, v # w PROVE WorkerInv(v)'
  BY <1>1, <1>2, <1>3, OthersKept DEF CampaignInv
<1> QED BY <1>2, <1>3 DEF CampaignInv, CampaignTyped

\* Where NextUnit and NextTarget lead.
LEMMA NextPlace ==
    ASSUME NEW w \in Workers, worker[w] \in Locals
    PROVE  /\ NextUnit(w) \in Locals /\ NextTarget(w) \in Locals
           /\ NextUnit(w).pc = "base" /\ NextUnit(w).unit = worker[w].unit + 1
           /\ NextUnit(w).done = worker[w].done
           /\ LET left == worker[w].todo \ {Min(worker[w].todo)}
              IN /\ left = {} => NextTarget(w) = NextUnit(w)
                 /\ left # {} => /\ NextTarget(w).pc = "target"
                                 /\ NextTarget(w).unit = worker[w].unit
                                 /\ NextTarget(w).todo = left
                                 /\ NextTarget(w).done = worker[w].done
<1>1. PICK v \in Locals : v = worker[w]
  OBVIOUS
<1>2. PICK left : left = v.todo \ {Min(v.todo)}
  OBVIOUS
<1>3. left \in SUBSET Nat
  BY <1>2 DEF Locals
<1>4. NextUnit(w) = [v EXCEPT !.pc = "base", !.unit = v.unit + 1, !.todo = {}]
  BY <1>1 DEF NextUnit
<1>5. NextTarget(w) = IF left = {} THEN NextUnit(w)
                      ELSE [v EXCEPT !.pc = "target", !.todo = left]
  BY <1>1, <1>2 DEF NextTarget
<1>6. NextUnit(w) = [pc |-> "base", unit |-> v.unit + 1, todo |-> {}, done |-> v.done]
  BY <1>4 DEF Locals
<1>7. v.unit \in Nat /\ v.done \in SUBSET Nat
  BY DEF Locals
<1>8. /\ NextUnit(w) \in Locals
      /\ NextUnit(w).pc = "base" /\ NextUnit(w).unit = v.unit + 1 /\ NextUnit(w).done = v.done
  BY <1>6, <1>7 DEF Locals
<1>9. ASSUME left # {}
      PROVE  /\ NextTarget(w) \in Locals
             /\ NextTarget(w).pc = "target" /\ NextTarget(w).unit = v.unit
             /\ NextTarget(w).todo = left /\ NextTarget(w).done = v.done
  <2>1. NextTarget(w) = [pc |-> "target", unit |-> v.unit, todo |-> left, done |-> v.done]
    BY <1>5, <1>9 DEF Locals
  <2> QED BY <1>3, <1>7, <2>1 DEF Locals
<1> QED BY <1>1, <1>2, <1>5, <1>8, <1>9

\* What is left out of the unit is delivered already.
LEMMA TodoDelivered ==
    ASSUME NEW w \in Workers, worker[w] \in Locals, WorkerInv(w), AtUnit(w)
    PROVE  /\ worker[w].pc = "base" /\ worker[w].unit \in DOMAIN ShardPlan[w]
           /\ Todo(w) \subseteq Places(w, worker[w].unit)
           /\ \A i \in Places(w, worker[w].unit) \ Todo(w) :
                 Delivered(PlanPair(w, worker[w].unit, i))
<1>1. worker[w].unit \in Nat /\ worker[w].unit <= Len(ShardPlan[w]) /\ worker[w].pc = "base"
  BY DEF AtUnit, Locals
<1>2. DOMAIN ShardPlan[w] = 1..Len(ShardPlan[w]) /\ Len(ShardPlan[w]) \in Nat
  BY PlanPairs
<1>3. worker[w].unit \in DOMAIN ShardPlan[w]
  <2>1. worker[w].unit # 0
    BY <1>1 DEF WorkerInv
  <2> QED BY <1>1, <1>2, <2>1
<1>4. Todo(w) = {i \in Places(w, worker[w].unit) :
                    PlanPair(w, worker[w].unit, i).target \notin worker[w].done}
  BY DEF Todo, Unit, Places, PlanPair
<1>5. ASSUME worker[w].unit \in DOMAIN ShardPlan[w], NEW i \in Places(w, worker[w].unit) \ Todo(w)
      PROVE  Delivered(PlanPair(w, worker[w].unit, i))
  <2>1. PlanPair(w, worker[w].unit, i) \in AllPairs
    BY <1>5, PlanPairs
  <2>2. PlanPair(w, worker[w].unit, i).target \in worker[w].done
    BY <1>4, <1>5
  <2> QED BY <1>1, <2>1, <2>2 DEF WorkerInv
<1> QED BY <1>1, <1>3, <1>4, <1>5

\* The next target, when the one at hand is delivered or a request has failed.
LEMMA TargetPassed ==
    ASSUME CampaignTyped, Kept, NEW w \in Workers, WorkerInv(w), AtPlace(w),
           NEW p, p = Pair(w), clean' => clean /\ Delivered(p)',
           worker' = [worker EXCEPT ![w] = NextTarget(w)]
    PROVE  WorkerInv(w)'
<1> DEFINE left == worker[w].todo \ {Min(worker[w].todo)}
<1>1. worker \in [Workers -> Locals] /\ worker[w] \in Locals
  BY DEF CampaignTyped
<1>2. /\ Min(worker[w].todo) \in worker[w].todo
      /\ worker[w].unit \in DOMAIN ShardPlan[w]
      /\ worker[w].todo \subseteq Places(w, worker[w].unit)
      /\ p = PlanPair(w, worker[w].unit, Min(worker[w].todo)) /\ p \in AllPairs
  BY <1>1, PairAtPlace DEF WorkerInv
<1>3. worker'[w] = NextTarget(w)
  BY <1>1
<1>4. /\ \A q \in AllPairs : Delivered(q) => Delivered(q)'
      /\ \A k \in DOMAIN ShardPlan[w] : \A i \in Places(w, k) : PlanPair(w, k, i) \in AllPairs
      /\ DOMAIN ShardPlan[w] \subseteq Nat /\ worker[w].unit \in Nat
  BY <1>1, PlanPairs, StillDelivered DEF Locals
<1>5. worker[w].pc # "off" /\ worker[w].done \in SUBSET Nat
  BY <1>1 DEF AtPlace, Locals
<1>6. ASSUME clean', NEW k \in DOMAIN ShardPlan[w], NEW i \in Places(w, k),
             k < worker[w].unit \/ (k = worker[w].unit /\ i \notin left)
      PROVE  Delivered(PlanPair(w, k, i))'
  <2>1. CASE k = worker[w].unit /\ i = Min(worker[w].todo)
    <3>1. PlanPair(w, k, i) = p /\ Delivered(p)'
      BY <1>2, <1>6, <2>1
    <3> QED BY <3>1 DEF Delivered
  <2>2. CASE ~(k = worker[w].unit /\ i = Min(worker[w].todo))
    <3>1. Delivered(PlanPair(w, k, i))
      BY <1>5, <1>6, <2>2 DEF WorkerInv
    <3> QED BY <1>4, <3>1
  <2> QED BY <2>1, <2>2
<1>7. CASE left = {}
  <2>1. /\ worker'[w].pc = "base" /\ worker'[w].unit = worker[w].unit + 1
        /\ worker'[w].done = worker[w].done
    <3>1. NextTarget(w) = NextUnit(w)
      BY <1>1, <1>7, NextPlace
    <3> QED BY <1>1, <1>3, <3>1, NextPlace
  <2>2. /\ \A k \in DOMAIN ShardPlan[w] : k < worker[w].unit + 1 => k <= worker[w].unit
        /\ worker[w].unit + 1 # 0
    BY <1>4
  <2>3. \A k \in DOMAIN ShardPlan[w] :
           k < worker[w].unit + 1 => k < worker[w].unit \/ k = worker[w].unit
    BY <1>4, <2>2
  <2> QED BY <1>4, <1>5, <1>6, <1>7, <2>1, <2>2, <2>3 DEF WorkerInv, AtPlace
<1>8. CASE left # {}
  <2>1. /\ worker'[w].pc = "target" /\ worker'[w].unit = worker[w].unit
        /\ worker'[w].done = worker[w].done /\ worker'[w].todo = left
    <3>1. /\ NextTarget(w).pc = "target" /\ NextTarget(w).unit = worker[w].unit
          /\ NextTarget(w).todo = left /\ NextTarget(w).done = worker[w].done
      BY <1>1, <1>8, NextPlace
    <3> HIDE DEF left
    <3> QED BY <1>3, <3>1
  <2>2. left \subseteq Places(w, worker[w].unit)
    BY <1>2
  <2> HIDE DEF left
  <2> QED BY <1>2, <1>4, <1>5, <1>6, <1>8, <2>1, <2>2 DEF WorkerInv, AtPlace
<1> QED BY <1>7, <1>8

\* The next unit, when nothing of this one is left or a request has failed.
LEMMA UnitPassed ==
    ASSUME CampaignTyped, Kept, NEW w \in Workers, WorkerInv(w), AtUnit(w),
           clean' => clean /\ Todo(w) = {},
           worker' = [worker EXCEPT ![w] = NextUnit(w)]
    PROVE  WorkerInv(w)'
<1>1. worker \in [Workers -> Locals] /\ worker[w] \in Locals /\ worker[w].unit \in Nat
  BY DEF CampaignTyped, Locals
<1>2. /\ worker[w].pc = "base" /\ worker[w].unit \in DOMAIN ShardPlan[w]
      /\ \A i \in Places(w, worker[w].unit) \ Todo(w) : Delivered(PlanPair(w, worker[w].unit, i))
  BY <1>1, TodoDelivered
<1>3. /\ worker'[w].pc = "base" /\ worker'[w].unit = worker[w].unit + 1
      /\ worker'[w].done = worker[w].done
  <2>1. worker'[w] = NextUnit(w)
    BY <1>1
  <2> QED BY <1>1, <2>1, NextPlace
<1>4. /\ \A q \in AllPairs : Delivered(q) => Delivered(q)'
      /\ \A k \in DOMAIN ShardPlan[w] : \A i \in Places(w, k) : PlanPair(w, k, i) \in AllPairs
      /\ DOMAIN ShardPlan[w] \subseteq Nat
  BY PlanPairs, StillDelivered
<1>5. /\ \A k \in DOMAIN ShardPlan[w] :
            k < worker[w].unit + 1 => k < worker[w].unit \/ k = worker[w].unit
      /\ worker[w].unit + 1 # 0
  BY <1>1, <1>4
<1>6. ASSUME clean', NEW k \in DOMAIN ShardPlan[w], NEW i \in Places(w, k),
             k < worker[w].unit \/ k = worker[w].unit
      PROVE  Delivered(PlanPair(w, k, i))
  BY <1>2, <1>6 DEF WorkerInv
<1> QED BY <1>2, <1>3, <1>4, <1>5, <1>6 DEF WorkerInv, AtPlace

\* Before the first run there is nothing to account for.
LEMMA CampaignInvInit == CampaignInit => CampaignInv
<1> SUFFICES ASSUME CampaignInit PROVE CampaignInv
  OBVIOUS
<1>1. Off \in Locals /\ Off.pc = "off"
  BY DEF Off, Locals
<1>2. worker = [w \in Workers |-> Off] /\ log = [w \in Workers |-> <<>>]
      /\ uploaded = [t \in Targets |-> NoBase] /\ clean = TRUE
  BY DEF CampaignInit
<1>3. CampaignTyped
  BY <1>1, <1>2 DEF CampaignTyped, NoBase
<1>4. LogsStand
  BY <1>2 DEF LogsStand
<1>5. \A w \in Workers : WorkerInv(w)
  BY <1>1, <1>2 DEF WorkerInv, AtPlace
<1> QED BY <1>3, <1>4, <1>5 DEF CampaignInv

\* No step of a worker and no stop breaks the invariant.
LEMMA CampaignInvStep == CampaignInv /\ [CampaignNext]_campaign => CampaignInv'
<1> SUFFICES ASSUME CampaignInv, [CampaignNext]_campaign PROVE CampaignInv'
  OBVIOUS
<1>0. /\ CampaignTyped /\ LogsStand
      /\ uploaded \in [Targets -> Nat] /\ log \in [Workers -> Seq(LogRecord)]
      /\ worker \in [Workers -> Locals] /\ clean \in BOOLEAN
      /\ \A w \in Workers : worker[w] \in Locals /\ WorkerInv(w)
  BY DEF CampaignInv, CampaignTyped
<1>k. uploaded' = uploaded => Kept
  BY DEF Kept
<1>f. Fails => clean' = FALSE
  BY DEF Fails
<1>1. ASSUME NEW w \in Workers, StartWorker(w) PROVE CampaignInv'
  <2> DEFINE back == {r.tid : r \in Readable(log[w])}
             rec == [pc |-> "base", unit |-> 1, todo |-> {}, done |-> back]
  <2>1. worker' = [worker EXCEPT ![w] = rec] /\ UNCHANGED <<uploaded, log, clean>>
    BY <1>1 DEF StartWorker
  <2>2. log[w] \in Seq(LogRecord) /\ \A i \in DOMAIN log[w] : Stands(w, log[w][i])
    BY <1>0 DEF LogsStand
  <2>3. ASSUME NEW r \in Readable(log[w])
        PROVE  /\ r \in LogRecord
               /\ \A p \in AllPairs : p.target = r.tid => Delivered(p)
    <3>1. r \in LogRecord /\ r # Torn /\ Stands(w, r)
      BY <2>2, <2>3 DEF Readable
    <3>2. PICK q \in Pairs(w) :
             \/ r = Record(q, "ok") /\ uploaded[q.target] = q.base
             \/ r = Record(q, "skipped") /\ Dtype[q.target] # Dtype[q.base]
      BY <3>1 DEF Stands
    <3>3. r.tid = q.target /\ q \in AllPairs /\ Delivered(q)
      BY <3>2, PlanPairs DEF Record, Delivered
    <3> QED BY <3>1, <3>3, CampaignAssumption DEF Delivered
  <2>4. back \in SUBSET Nat /\ \A p \in AllPairs : p.target \in back => Delivered(p)
    BY <2>3 DEF LogRecord
  <2> HIDE DEF back
  <2>5. rec \in Locals /\ rec.pc = "base" /\ rec.unit = 1 /\ rec.done = back
    BY <2>4 DEF Locals
  <2>6. \A k \in DOMAIN ShardPlan[w] : k \in Nat /\ ~(k < 1)
    BY PlanPairs
  <2> HIDE DEF rec
  <2>7. worker'[w] = rec /\ \A p \in AllPairs : Delivered(p) => Delivered(p)'
    BY <1>0, <1>k, <2>1, StillDelivered
  <2>8. WorkerInv(w)'
    BY <2>4, <2>5, <2>6, <2>7 DEF WorkerInv, AtPlace
  <2> QED BY <1>0, <1>k, <2>1, <2>5, <2>8, LogStays, WorkerMoves
<1>2. ASSUME NEW w \in Workers, FetchBase(w) PROVE CampaignInv'
  <2> DEFINE here == [worker[w] EXCEPT !.pc = "target", !.todo = Todo(w)]
             rec == IF Todo(w) = {} THEN NextUnit(w) ELSE here
  <2>1. /\ AtUnit(w) /\ worker' = [worker EXCEPT ![w] = rec]
        /\ UNCHANGED <<uploaded, log, clean>>
    BY <1>2 DEF FetchBase
  <2>2. /\ worker[w].pc = "base" /\ worker[w].unit \in DOMAIN ShardPlan[w]
        /\ Todo(w) \subseteq Places(w, worker[w].unit) /\ Todo(w) \in SUBSET Nat
        /\ \A i \in Places(w, worker[w].unit) \ Todo(w) :
              Delivered(PlanPair(w, worker[w].unit, i))
    <3>1. Places(w, worker[w].unit) \subseteq Nat
      <4>1. worker[w].unit \in DOMAIN ShardPlan[w]
        BY <1>0, <2>1, TodoDelivered
      <4>2. PICK U : U = [base : TensorIds, targets : Seq(TensorIds)]
        OBVIOUS
      <4>3. ShardPlan[w] \in Seq(U)
        BY <4>2, PlanPairs
      <4>4. ShardPlan[w][worker[w].unit] \in U
        BY <4>1, <4>3
      <4> QED BY <4>2, <4>4 DEF Places
    <3> QED BY <1>0, <2>1, <3>1, TodoDelivered
  <2>3. /\ here \in Locals /\ here.pc = "target" /\ here.unit = worker[w].unit
        /\ here.todo = Todo(w) /\ here.done = worker[w].done
    BY <1>0, <2>2 DEF Locals
  <2>4. Kept
    BY <1>k, <2>1
  <2> HIDE DEF here
  <2>5. WorkerInv(w)'
    <3>1. CASE Todo(w) = {}
      BY <1>0, <2>1, <2>4, <3>1, UnitPassed
    <3>2. CASE Todo(w) # {}
      <4>1. worker'[w] = here
        BY <1>0, <2>1, <3>2
      <4>2. /\ \A p \in AllPairs : Delivered(p) => Delivered(p)'
            /\ \A k \in DOMAIN ShardPlan[w] : \A i \in Places(w, k) :
                  PlanPair(w, k, i) \in AllPairs
        <5>1. \A p \in AllPairs : Delivered(p) => Delivered(p)'
          BY <2>4, StillDelivered
        <5>2. \A k \in DOMAIN ShardPlan[w] : \A i \in Places(w, k) :
                 PlanPair(w, k, i) \in AllPairs
          BY PlanPairs
        <5> QED BY <5>1, <5>2
      <4> QED BY <1>0, <2>1, <2>2, <2>3, <3>2, <4>1, <4>2 DEF WorkerInv, AtPlace
    <3> QED BY <3>1, <3>2
  <2>6. rec \in Locals
    BY <1>0, <2>3, NextPlace
  <2> HIDE DEF rec
  <2>7. LogsStand' /\ log' \in [Workers -> Seq(LogRecord)]
    BY <1>0, <2>1, <2>4, LogStays
  <2> QED BY <1>0, <2>1, <2>4, <2>5, <2>6, <2>7, WorkerMoves
<1>3. ASSUME NEW w \in Workers, BaseError(w) PROVE CampaignInv'
  <2> DEFINE rec == NextUnit(w)
  <2>1. /\ AtUnit(w) /\ worker' = [worker EXCEPT ![w] = rec]
        /\ UNCHANGED <<uploaded, log>> /\ clean' = FALSE
    BY <1>3, <1>f DEF BaseError
  <2>2. Kept
    BY <1>k, <2>1
  <2>3. WorkerInv(w)'
    BY <1>0, <2>1, <2>2, UnitPassed
  <2>4. rec \in Locals
    BY <1>0, NextPlace
  <2> HIDE DEF rec
  <2>5. LogsStand' /\ log' \in [Workers -> Seq(LogRecord)]
    BY <1>0, <2>1, <2>2, LogStays
  <2> QED BY <1>0, <2>1, <2>2, <2>3, <2>4, <2>5, WorkerMoves
<1>4. ASSUME NEW w \in Workers, SkipDtype(w) PROVE CampaignInv'
  <2>1. PICK p : p = Pair(w)
    OBVIOUS
  <2> DEFINE r == Record(p, "skipped")
             rec == NextTarget(w)
  <2>2. /\ worker[w].pc = "target" /\ Dtype[p.target] # Dtype[p.base]
        /\ log' = [log EXCEPT ![w] = Append(@, r)]
        /\ worker' = [worker EXCEPT ![w] = rec] /\ UNCHANGED <<uploaded, clean>>
    BY <1>4, <2>1 DEF SkipDtype
  <2>3. AtPlace(w) /\ p \in Pairs(w)
    BY <1>0, <2>1, <2>2, PairAtPlace DEF AtPlace
  <2>4. r \in LogRecord /\ Stands(w, r)'
    BY <2>2, <2>3, PlanPairs DEF Record, LogRecord, Stands, TensorIds
  <2>5. Kept /\ Delivered(p)'
    BY <1>k, <2>2 DEF Delivered
  <2>6. WorkerInv(w)'
    BY <1>0, <2>1, <2>2, <2>3, <2>5, TargetPassed
  <2>7. rec \in Locals
    BY <1>0, NextPlace
  <2> HIDE DEF r, rec
  <2>8. LogsStand' /\ log' \in [Workers -> Seq(LogRecord)]
    BY <1>0, <2>2, <2>4, <2>5, LogGrows
  <2> QED BY <1>0, <2>2, <2>5, <2>6, <2>7, <2>8, WorkerMoves
<1>5. ASSUME NEW w \in Workers, Put(w) PROVE CampaignInv'
  <2>1. PICK p : p = Pair(w)
    OBVIOUS
  <2> DEFINE rec == [worker[w] EXCEPT !.pc = "put"]
  <2>2. /\ worker[w].pc = "target"
        /\ uploaded' = [uploaded EXCEPT ![p.target] = p.base]
        /\ worker' = [worker EXCEPT ![w] = rec] /\ UNCHANGED <<log, clean>>
    BY <1>5, <2>1 DEF Put
  <2>3. AtPlace(w) /\ p \in Pairs(w) /\ p \in AllPairs
    BY <1>0, <2>1, <2>2, PairAtPlace DEF AtPlace
  <2>4. p.target \in Targets /\ p.base \in Nat
    BY <2>3, PlanPairs DEF TensorIds
  <2>5. uploaded' \in [Targets -> Nat] /\ uploaded'[p.target] = p.base
    BY <1>0, <2>2, <2>4
  <2>6. Kept
    BY <1>0, <2>2, <2>3, UploadKeeps
  <2>7. /\ rec \in Locals /\ rec.pc = "put" /\ rec.unit = worker[w].unit
        /\ rec.todo = worker[w].todo /\ rec.done = worker[w].done
    BY <1>0 DEF Locals
  <2> HIDE DEF rec
  <2>8. worker'[w] = rec
    BY <1>0, <2>2
  <2>9. Pair(w)' = p
    BY <2>1, <2>7, <2>8 DEF Pair, PairAt, Unit
  <2>10. /\ \A q \in AllPairs : Delivered(q) => Delivered(q)'
         /\ \A k \in DOMAIN ShardPlan[w] : \A i \in Places(w, k) : PlanPair(w, k, i) \in AllPairs
    BY <2>6, PlanPairs, StillDelivered
  <2>11. uploaded'[Pair(w)'.target] = Pair(w)'.base
    BY <2>5, <2>9
  <2>12. WorkerInv(w)'
    BY <1>0, <2>2, <2>3, <2>7, <2>8, <2>10, <2>11 DEF WorkerInv, AtPlace
  <2>13. LogsStand' /\ log' \in [Workers -> Seq(LogRecord)]
    BY <1>0, <2>2, <2>6, LogStays
  <2> QED BY <1>0, <2>2, <2>5, <2>6, <2>7, <2>12, <2>13, WorkerMoves
<1>6. ASSUME NEW w \in Workers, TargetError(w) PROVE CampaignInv'
  <2>1. PICK p : p = Pair(w)
    OBVIOUS
  <2> DEFINE rec == NextTarget(w)
  <2>2. /\ worker[w].pc = "target" /\ clean' = FALSE
        /\ worker' = [worker EXCEPT ![w] = rec] /\ UNCHANGED <<uploaded, log>>
    BY <1>6, <1>f DEF TargetError
  <2>3. AtPlace(w) /\ Kept
    BY <1>k, <2>2 DEF AtPlace
  <2>4. WorkerInv(w)'
    BY <1>0, <2>1, <2>2, <2>3, TargetPassed
  <2>5. rec \in Locals
    BY <1>0, NextPlace
  <2> HIDE DEF rec
  <2>6. LogsStand' /\ log' \in [Workers -> Seq(LogRecord)]
    BY <1>0, <2>2, <2>3, LogStays
  <2> QED BY <1>0, <2>2, <2>3, <2>4, <2>5, <2>6, WorkerMoves
<1>7. ASSUME NEW w \in Workers, LogOk(w) PROVE CampaignInv'
  <2>1. PICK p : p = Pair(w)
    OBVIOUS
  <2> DEFINE r == Record(p, "ok")
             rec == NextTarget(w)
  <2>2. /\ worker[w].pc = "put"
        /\ log' = [log EXCEPT ![w] = Append(@, r)]
        /\ worker' = [worker EXCEPT ![w] = rec] /\ UNCHANGED <<uploaded, clean>>
    BY <1>7, <2>1 DEF LogOk
  <2>3. AtPlace(w) /\ p \in Pairs(w) /\ uploaded[p.target] = p.base
    BY <1>0, <2>1, <2>2, PairAtPlace DEF AtPlace, WorkerInv
  <2>4. r \in LogRecord /\ Stands(w, r)'
    BY <2>2, <2>3, PlanPairs DEF Record, LogRecord, Stands, TensorIds
  <2>5. Kept /\ Delivered(p)'
    BY <1>k, <2>2, <2>3 DEF Delivered
  <2>6. WorkerInv(w)'
    BY <1>0, <2>1, <2>2, <2>3, <2>5, TargetPassed
  <2>7. rec \in Locals
    BY <1>0, NextPlace
  <2> HIDE DEF r, rec
  <2>8. LogsStand' /\ log' \in [Workers -> Seq(LogRecord)]
    BY <1>0, <2>2, <2>4, <2>5, LogGrows
  <2> QED BY <1>0, <2>2, <2>5, <2>6, <2>7, <2>8, WorkerMoves
<1>8. ASSUME NEW w \in Workers, WorkerExits(w) PROVE CampaignInv'
  <2> DEFINE rec == [worker[w] EXCEPT !.pc = "done"]
  <2>1. /\ worker[w].pc = "base" /\ worker[w].unit > Len(ShardPlan[w])
        /\ worker' = [worker EXCEPT ![w] = rec] /\ UNCHANGED <<uploaded, log, clean>>
    BY <1>8 DEF WorkerExits
  <2>2. /\ rec \in Locals /\ rec.pc = "done" /\ rec.unit = worker[w].unit
        /\ rec.todo = worker[w].todo /\ rec.done = worker[w].done
    BY <1>0 DEF Locals
  <2> HIDE DEF rec
  <2>3. worker'[w] = rec /\ \A p \in AllPairs : Delivered(p) => Delivered(p)'
    BY <1>0, <1>k, <2>1, StillDelivered
  <2>4. \A k \in DOMAIN ShardPlan[w] : \A i \in Places(w, k) : PlanPair(w, k, i) \in AllPairs
    BY PlanPairs
  <2>5. WorkerInv(w)'
    BY <1>0, <2>1, <2>2, <2>3, <2>4 DEF WorkerInv, AtPlace
  <2> QED BY <1>0, <1>k, <2>1, <2>2, <2>5, LogStays, WorkerMoves
<1>9. ASSUME NEW torn \in SUBSET Workers, Stop(torn) PROVE CampaignInv'
  <2>1. /\ log' = [w \in Workers |-> IF w \in torn THEN Append(log[w], Torn) ELSE log[w]]
        /\ worker' = [w \in Workers |-> Off] /\ clean' = TRUE /\ uploaded' = uploaded
    BY <1>9 DEF Stop
  <2>2. Off \in Locals /\ Off.pc = "off" /\ Torn \in LogRecord
    BY DEF Off, Locals, Torn, LogRecord, NoBase
  <2>3. \A w \in Workers : WorkerInv(w)'
    BY <2>1, <2>2 DEF WorkerInv, AtPlace
  <2>4. Kept
    BY <1>k, <2>1
  <2>5. ASSUME NEW w \in Workers
        PROVE  log'[w] \in Seq(LogRecord) /\ \A i \in DOMAIN log'[w] : Stands(w, log[w][i])'
    <3>1. log[w] \in Seq(LogRecord) /\ \A i \in DOMAIN log[w] : Stands(w, log[w][i])
      BY <1>0 DEF LogsStand
    <3>2. log'[w] = log[w] \/ log'[w] = Append(log[w], Torn)
      BY <2>1
    <3>3. log'[w] \in Seq(LogRecord)
      <4>1. Append(log[w], Torn) \in Seq(LogRecord)
        BY <2>2, <3>1
      <4> QED BY <3>1, <3>2, <4>1
    <3>4. ASSUME NEW i \in DOMAIN log'[w] PROVE Stands(w, log[w][i])'
      <4>1. CASE log'[w][i] = Torn
        BY <4>1 DEF Stands
      <4>2. CASE log'[w][i] # Torn
        <5>1. i \in DOMAIN log[w] /\ log'[w][i] = log[w][i]
          <6>1. CASE log'[w] = log[w]
            BY <3>4, <6>1
          <6>2. CASE log'[w] = Append(log[w], Torn)
            <7>1. i \in 1..(Len(log[w]) + 1) /\ Len(log[w]) \in Nat
              BY <2>2, <3>1, <3>4, <6>2
            <7>2. i # Len(log[w]) + 1
              BY <2>2, <3>1, <4>2, <6>2
            <7> QED BY <2>2, <3>1, <6>2, <7>1, <7>2
          <6> QED BY <3>2, <6>1, <6>2
        <5>2. PICK x : x = log[w][i]
          OBVIOUS
        <5>3. Stands(w, x)'
          BY <2>4, <3>1, <5>1, <5>2, StillStands
        <5> QED BY <5>1, <5>2, <5>3 DEF Stands
      <4> QED BY <4>1, <4>2
    <3> QED BY <3>3, <3>4
  <2>6. log' \in [Workers -> Seq(LogRecord)] /\ worker' \in [Workers -> Locals]
    BY <2>1, <2>2, <2>5
  <2> QED BY <1>0, <2>1, <2>3, <2>5, <2>6 DEF CampaignInv, CampaignTyped, LogsStand
<1>10. CASE UNCHANGED campaign
  <2>1. Kept /\ log' = log /\ worker' = worker /\ clean' = clean /\ uploaded' = uploaded
    BY <1>k, <1>10 DEF campaign
  <2>2. \A w \in Workers : WorkerInv(w)'
    BY <1>0, <2>1, OthersKept
  <2>3. LogsStand'
    BY <1>0, <2>1, LogStays
  <2> QED BY <1>0, <2>1, <2>2, <2>3 DEF CampaignInv, CampaignTyped
<1> QED BY <1>1, <1>2, <1>3, <1>4, <1>5, <1>6, <1>7, <1>8, <1>9, <1>10 DEF CampaignNext, Work

\* The invariant holds in every run.
LEMMA AlwaysCampaignInv == CampaignSpec => []CampaignInv
BY CampaignInvInit, CampaignInvStep, PTL DEF CampaignSpec

-----------------------------------------------------------------------------
(* What follows *)

\* The log a worker reads back, and the one the catalogue is built from, name
\* uploads that were made: for every plan, every number of stops and errors,
\* and every line that is left torn (executor.py 86-95, 172-187;
\* build_metadata.py 33-62).
THEOREM LogsTellUploads == CampaignSpec => []LoggedIsUploaded
<1>1. ASSUME CampaignInv PROVE LoggedIsUploaded
  <2>1. ASSUME NEW w \in Workers, NEW i \in DOMAIN log[w], log[w][i].status = "ok"
        PROVE  uploaded[log[w][i].tid] = log[w][i].base
    <3>1. Stands(w, log[w][i])
      BY <1>1 DEF CampaignInv, LogsStand
    <3>2. Torn.status # "ok" /\ \A p : Record(p, "skipped").status # "ok"
      BY DEF Torn, Record
    <3>3. PICK p \in Pairs(w) : log[w][i] = Record(p, "ok") /\ uploaded[p.target] = p.base
      BY <2>1, <3>1, <3>2 DEF Stands
    <3> QED BY <3>3 DEF Record
  <2>2. \A w \in Workers : \A r \in Readable(log[w]) : r.status = "ok" => uploaded[r.tid] = r.base
    BY <2>1 DEF Readable
  <2> DEFINE Lines == UNION {Range(log[w]) : w \in Workers}
  <2>3. ASSUME NEW t \in DOMAIN DeltaRows PROVE uploaded[t] = DeltaRows[t]
    <3>1. \E r \in Lines : r.tid = t /\ r.status = "ok"
      BY <2>3 DEF DeltaRows
    <3>2. PICK r : r = CHOOSE line \in Lines : line.tid = t /\ line.status = "ok"
      OBVIOUS
    <3>3. r \in Lines /\ r.tid = t /\ r.status = "ok"
      BY <3>1, <3>2
    <3>4. DeltaRows[t] = r.base
      BY <2>3, <3>2 DEF DeltaRows
    <3>5. PICK w \in Workers : \E i \in DOMAIN log[w] : r = log[w][i]
      BY <3>3 DEF Range
    <3> QED BY <2>1, <3>3, <3>4, <3>5
  <2> QED BY <2>2, <2>3 DEF LoggedIsUploaded
<1> QED BY <1>1, AlwaysCampaignInv, PTL

\* A run of the campaign that ends without a failed request has delivered its
\* whole plan, whatever the runs before it left undone (executor.py 111-199).
THEOREM CleanRunsDeliver == CampaignSpec => []CleanRunDelivers
<1>1. ASSUME CampaignInv PROVE CleanRunDelivers
  <2>1. SUFFICES ASSUME clean, \A w \in Workers : worker[w].pc = "done",
                        NEW w \in Workers, NEW p \in Pairs(w)
                 PROVE  Delivered(p)
    BY DEF CleanRunDelivers, Delivered, AllPairs
  <2>2. PICK k \in DOMAIN ShardPlan[w] : \E i \in Places(w, k) : p = PlanPair(w, k, i)
    BY PlanPairs
  <2>3. worker[w].pc = "done" /\ worker[w].unit > Len(ShardPlan[w]) /\ worker[w].unit \in Nat
        /\ WorkerInv(w)
    BY <1>1, <2>1 DEF CampaignInv, CampaignTyped, WorkerInv, Locals
  <2>4. k < worker[w].unit
    <3>1. k \in 1..Len(ShardPlan[w]) /\ Len(ShardPlan[w]) \in Nat
      BY PlanPairs
    <3> QED BY <2>3, <3>1
  <2> QED BY <2>1, <2>2, <2>3, <2>4 DEF WorkerInv
<1> QED BY <1>1, AlwaysCampaignInv, PTL

-----------------------------------------------------------------------------
(* The cache simulator *)

HeapEntries == Int \X Tensors
CacheStates ==
    [res : SUBSET Tensors, used : Int, order : Seq(Tensors), heap : Seq(HeapEntries),
     pri : [Tensors -> Int], freq : [Tensors -> Int], bfreq : [Tensors -> Int],
     clock : Int, cost : [Tensors -> Int]]

\* What an eviction can still find, in a state between two steps.
FiledIn(s) ==
    IF policy = "gdsf" THEN {i \in s.res : <<s.pri[i], i>> \in Range(s.heap)}
    ELSE IF policy = "recon" THEN {e[2] : e \in Range(s.heap)}
    ELSE Range(s.order)

\* The bytes are counted, and all but the tensors of new are filed.
Accounted(s, new) ==
    /\ s \in CacheStates
    /\ s.used = BytesOf(s.res) /\ s.used <= cap
    /\ (s.res \ pins) \ new \subseteq FiledIn(s)

\* The tensors are some of the numbers, and their sizes add up.
LEMMA BytesAdd ==
    ASSUME NEW S \in SUBSET Tensors
    PROVE  /\ BytesOf(S) \in Int /\ BytesOf({}) = 0
           /\ \A i \in S : BytesOf(S \ {i}) = BytesOf(S) - Size[i]
           /\ \A i \in Tensors \ S : BytesOf(S \union {i}) = BytesOf(S) + Size[i]
<1>1. Tensors = 1 .. Len(Size) /\ Len(Size) \in Nat /\ \A i \in Tensors : Size[i] \in Nat
  BY CacheConstants DEF Tensors
<1>2. ASSUME NEW R \in SUBSET Tensors
      PROVE  /\ IsFiniteSet(R) /\ Numbers(Size, R) /\ SumOf(Size, R) \in Int
             /\ BytesOf(R) = SumOf(Size, R)
  <2>1. IsFiniteSet(R)
    <3>1. 1 \in Int /\ Len(Size) \in Int
      BY <1>1
    <3>2. IsFiniteSet(1 .. Len(Size))
      BY <3>1, FS_Interval
    <3> QED
      BY <1>1, <3>2, FS_Subset
  <2>2. Numbers(Size, R)
    BY <1>1 DEF Numbers
  <2> QED
    BY <2>1, <2>2, TotalOf, SumFacts DEF BytesOf
<1>3. BytesOf({}) = 0
  BY <1>2, SumFacts
<1>4. ASSUME NEW i \in S PROVE BytesOf(S \ {i}) = BytesOf(S) - Size[i]
  <2>1. SumOf(Size, S) = SumOf(Size, S \ {i}) + Size[i]
    BY <1>2, SumFacts
  <2>2. S \ {i} \in SUBSET Tensors /\ Size[i] \in Int
    BY <1>1
  <2> QED
    BY <1>2, <2>1, <2>2
<1>5. ASSUME NEW i \in Tensors \ S PROVE BytesOf(S \union {i}) = BytesOf(S) + Size[i]
  <2>1. S \union {i} \in SUBSET Tensors
    OBVIOUS
  <2>2. SumOf(Size, S \union {i}) = SumOf(Size, S) + Size[i]
    BY <1>2, <2>1, SumGrows
  <2> QED
    BY <1>2, <2>1, <2>2
<1> QED
  BY <1>2, <1>3, <1>4, <1>5

\* A sequence without its element at k holds what is not that element.
LEMMA RemovedAt ==
    ASSUME NEW T, NEW s \in Seq(T), NEW k \in DOMAIN s
    PROVE  /\ RemoveAt(s, k) \in Seq(T)
           /\ \A e \in Range(s) : e # s[k] => e \in Range(RemoveAt(s, k))
<1>1. PICK n \in Nat : n = Len(s) /\ DOMAIN s = 1 .. n
  OBVIOUS
<1>2. k \in 1 .. n
  BY <1>1
<1> DEFINE l == SubSeq(s, 1, k - 1)
           r == SubSeq(s, k + 1, n)
<1>3. /\ l \in Seq(T) /\ Len(l) = k - 1 /\ \A i \in 1 .. k - 1 : l[i] = s[i]
  BY <1>1, <1>2
<1>4. /\ r \in Seq(T) /\ Len(r) = n - k /\ \A i \in 1 .. n - k : r[i] = s[k + i]
  BY <1>1, <1>2
<1>5. RemoveAt(s, k) = l \o r
  BY <1>1 DEF RemoveAt
<1> HIDE DEF l, r
<1>6. PICK u : u = l \o r
  OBVIOUS
<1>7. /\ u \in Seq(T) /\ Len(u) = n - 1 /\ DOMAIN u = 1 .. n - 1
      /\ \A i \in 1 .. k - 1 : u[i] = s[i]
      /\ \A i \in k .. n - 1 : u[i] = s[i + 1]
  <2>1. PICK a \in Nat, b \in Nat : a = k - 1 /\ b = n - k /\ a = Len(l) /\ b = Len(r)
    BY <1>2, <1>3, <1>4
  <2>2. u \in Seq(T) /\ Len(u) = a + b /\ DOMAIN u = 1 .. a + b
        /\ \A i \in 1 .. a + b : u[i] = IF i <= a THEN l[i] ELSE r[i - a]
    <3>1. l \in Seq(T) /\ r \in Seq(T)
      BY <1>3, <1>4
    <3>2. PICK x \in Seq(T), y \in Seq(T) : x = l /\ y = r
      BY <3>1
    <3>3. /\ x \o y \in Seq(T) /\ Len(x \o y) = Len(x) + Len(y)
          /\ \A i \in 1 .. Len(x) + Len(y) : (x \o y)[i] = IF i <= Len(x) THEN x[i] ELSE y[i - Len(x)]
      BY ConcatProperties
    <3>4. u = x \o y /\ Len(x) = a /\ Len(y) = b
      BY <1>6, <2>1, <3>2
    <3>5. u \in Seq(T) /\ Len(u) = a + b
      BY <3>3, <3>4
    <3>6. \A i \in 1 .. a + b : u[i] = IF i <= a THEN x[i] ELSE y[i - a]
      BY <3>3, <3>4
    <3> QED
      BY <3>2, <3>5, <3>6
  <2>3. a + b = n - 1 /\ n - 1 \in Int
    <3>1. PICK j \in 1 .. n : j = k /\ a = j - 1 /\ b = n - j
      BY <1>2, <2>1
    <3> QED BY <3>1
  <2>4. ASSUME NEW i \in 1 .. k - 1 PROVE u[i] = s[i]
    <3>1. i \in 1 .. a + b /\ i <= a
      BY <1>1, <1>2, <2>1
    <3>2. u[i] = l[i]
      BY <2>2, <3>1
    <3> QED
      BY <1>3, <3>2
  <2>5. ASSUME NEW i \in k .. n - 1 PROVE u[i] = s[i + 1]
    <3>1. i \in 1 .. a + b /\ ~(i <= a) /\ i - a \in 1 .. n - k /\ k + (i - a) = i + 1
      BY <1>1, <1>2, <2>1
    <3>2. u[i] = r[i - a]
      BY <2>2, <3>1
    <3> QED
      BY <1>4, <3>1, <3>2
  <2> QED
    BY <2>2, <2>3, <2>4, <2>5
<1>8. ASSUME NEW i \in 1 .. n, i # k PROVE \E j \in DOMAIN u : u[j] = s[i]
  <2>1. CASE i < k
    <3>1. i \in 1 .. n - 1 /\ i \in 1 .. k - 1
      BY <1>1, <1>2, <2>1
    <3> QED
      BY <1>7, <3>1
  <2>2. CASE i > k
    <3>1. PICK j \in k .. n - 1 : i = j + 1
      BY <1>1, <1>2, <2>2
    <3>2. j \in 1 .. n - 1
      BY <1>1, <1>2
    <3> QED
      BY <1>7, <3>1, <3>2
  <2> QED
    BY <1>2, <1>8, <2>1, <2>2
<1>9. ASSUME NEW e \in Range(s), e # s[k] PROVE e \in Range(u)
  <2>1. PICK i \in 1 .. n : e = s[i]
    BY <1>1 DEF Range
  <2>2. \E j \in DOMAIN u : u[j] = s[i]
    BY <1>8, <1>9, <2>1
  <2> QED
    BY <2>1, <2>2 DEF Range
<1> QED
  BY <1>5, <1>6, <1>7, <1>9

\* heappop has something to take.
LEMMA LeastIsIn ==
    ASSUME NEW h \in Seq(HeapEntries), h # <<>>
    PROVE  Least(h) \in DOMAIN h
<1> DEFINE Below(k, j) == h[k][1] < h[j][1] \/ (h[k][1] = h[j][1] /\ h[k][2] <= h[j][2])
           P(n) == \E k \in 1 .. n : \A j \in 1 .. n : Below(k, j)
           T == {n \in 0 .. Len(h) : n = 0 \/ P(n)}
<1>1. /\ Len(h) \in Nat \ {0} /\ DOMAIN h = 1 .. Len(h)
      /\ \A i \in DOMAIN h : h[i] \in HeapEntries
  BY EmptySeq
<1>2. \A i \in DOMAIN h : h[i][1] \in Int /\ h[i][2] \in Int
  <2>1. Tensors \subseteq Int
    BY CacheConstants DEF Tensors
  <2>2. \A e \in HeapEntries : e[1] \in Int /\ e[2] \in Int
    BY <2>1 DEF HeapEntries
  <2> QED
    BY <1>1, <2>2
<1>3. 0 \in T
  BY <1>1
<1>4. ASSUME NEW n \in 0 .. Len(h) - 1, n \in T PROVE n + 1 \in T
  <2>1. PICK m \in 1 .. Len(h) : m = n + 1
    BY <1>1
  <2>2. Below(m, m)
    BY <1>1, <1>2
  <2>3. CASE n = 0
    BY <1>1, <2>1, <2>2, <2>3
  <2>4. CASE n # 0
    <3>1. PICK k \in 1 .. n : \A j \in 1 .. n : Below(k, j)
      BY <1>4, <2>4
    <3>2. k \in 1 .. m /\ m \in 1 .. m /\ \A j \in 1 .. m : j = m \/ j \in 1 .. n
      BY <1>1, <2>1
    <3>3. CASE Below(k, m)
      <4>1. \A j \in 1 .. m : Below(k, j)
        BY <3>1, <3>2, <3>3
      <4> HIDE DEF Below
      <4> QED
        BY <1>1, <2>1, <3>2, <4>1
    <3>4. CASE ~Below(k, m)
      <4>1. ASSUME NEW j \in 1 .. n PROVE Below(m, j)
        <5>1. j \in DOMAIN h /\ k \in DOMAIN h /\ m \in DOMAIN h
          BY <1>1, <2>1
        <5>2. /\ h[j][1] \in Int /\ h[j][2] \in Int /\ h[k][1] \in Int /\ h[k][2] \in Int
              /\ h[m][1] \in Int /\ h[m][2] \in Int /\ Below(k, j)
          BY <1>2, <3>1, <5>1
        <5> QED
          BY <3>4, <5>2
      <4>2. \A j \in 1 .. m : Below(m, j)
        BY <2>2, <3>2, <4>1
      <4> HIDE DEF Below
      <4> QED
        BY <1>1, <2>1, <3>2, <4>2
    <3> QED
      BY <3>3, <3>4
  <2> QED
    BY <2>3, <2>4
<1>5. Len(h) \in T
  <2> HIDE DEF T
  <2>1. 0 .. Len(h) \subseteq T
    BY <1>1, <1>3, <1>4, InductionUpTo
  <2> QED
    BY <1>1, <2>1
<1>6. PICK k \in DOMAIN h : \A j \in DOMAIN h : Below(k, j)
  BY <1>1, <1>5
<1> QED
  BY <1>6 DEF Least

-----------------------------------------------------------------------------
(* What an eviction leaves *)

\* Without a resident tensor the bytes are still counted.
LEMMA DropKeeps ==
    ASSUME NEW s, s \in CacheStates, s.used = BytesOf(s.res), s.used <= cap, cap \in Nat,
           NEW v \in s.res
    PROVE  LET d == DropItem(s, v)
           IN /\ d \in CacheStates /\ d.res = s.res \ {v} /\ d.used = BytesOf(d.res) /\ d.used <= cap
              /\ d.order = s.order /\ d.heap = s.heap /\ d.pri = s.pri
<1>1. s.res \in SUBSET Tensors /\ s.used \in Int
  BY DEF CacheStates
<1>2. Size[v] \in Nat
  BY <1>1, CacheConstants DEF Tensors
<1>3. BytesOf(s.res \ {v}) = s.used - Size[v]
  BY <1>1, BytesAdd
<1>4. s.used - Size[v] \in Int /\ s.used - Size[v] <= cap
  BY <1>1, <1>2
<1>5. DropItem(s, v) = [s EXCEPT !.res = s.res \ {v}, !.used = s.used - Size[v]]
  BY DEF DropItem
<1> QED
  BY <1>1, <1>3, <1>4, <1>5 DEF CacheStates

\* w is what a pop may leave of s.
Shrunk(w, s) == w.evicted \in BOOLEAN /\ Accounted(w.s, {}) /\ w.s.res \subseteq s.res

\* The states an operation may leave.
LEMMA ShrunkIs ==
    ASSUME NEW s, NEW r, NEW e \in BOOLEAN, Accounted(r, {}), r.res \subseteq s.res
    PROVE  Shrunk(Popped(r, e), s)
BY DEF Shrunk, Popped

\* evict_one of LRU and BaseBias.
LEMMA OldestKeeps ==
    ASSUME NEW s, Accounted(s, {}), cap \in Nat, policy \notin {"gdsf", "recon"}
    PROVE  Shrunk(PopOldest(s), s)
<1> DEFINE v == Head(s.order)
           t == [s EXCEPT !.order = Tail(s.order)]
<1>1. /\ s \in CacheStates /\ s.used = BytesOf(s.res) /\ s.used <= cap
      /\ s.res \ pins \subseteq Range(s.order) /\ s.order \in Seq(Tensors)
  BY DEF Accounted, FiledIn, CacheStates
<1>2. CASE s.order = <<>>
  <2>1. PopOldest(s) = Popped(s, FALSE)
    BY <1>2 DEF PopOldest
  <2> QED
    BY <2>1, ShrunkIs
<1>3. CASE s.order # <<>>
  <2>1. /\ v \in Tensors /\ Tail(s.order) \in Seq(Tensors)
        /\ \A e \in Range(s.order) : e # v => e \in Range(Tail(s.order))
    <3>1. PICK n \in Nat : n = Len(s.order) /\ n > 0 /\ DOMAIN s.order = 1 .. n
      BY <1>1, <1>3
    <3>2. /\ Tail(s.order) \in Seq(Tensors) /\ DOMAIN Tail(s.order) = 1 .. n - 1
          /\ \A i \in 1 .. n - 1 : Tail(s.order)[i] = s.order[i + 1]
      BY <1>1, <1>3, <3>1
    <3>3. v = s.order[1] /\ v \in Tensors
      BY <1>1, <1>3, <3>1
    <3>4. ASSUME NEW e \in Range(s.order), e # v PROVE e \in Range(Tail(s.order))
      <4>1. PICK i \in 1 .. n : e = s.order[i]
        BY <3>1 DEF Range
      <4>2. PICK j \in 1 .. n - 1 : i = j + 1
        BY <3>3, <3>4, <4>1
      <4> QED
        BY <3>2, <4>1, <4>2 DEF Range
    <3> QED
      BY <3>2, <3>3, <3>4
  <2>2. /\ t \in CacheStates /\ t.res = s.res /\ t.used = s.used /\ t.order = Tail(s.order)
    BY <1>1, <2>1 DEF CacheStates
  <2> HIDE DEF v, t
  <2>3. CASE v \in s.res \ pins
    <3>1. PopOldest(s) = Popped(DropItem(t, v), TRUE)
      BY <1>3, <2>3 DEF PopOldest, v, t
    <3> DEFINE d == DropItem(t, v)
    <3>2. /\ d \in CacheStates /\ d.res = t.res \ {v} /\ d.used = BytesOf(d.res) /\ d.used <= cap
          /\ d.order = t.order
      BY <1>1, <2>2, <2>3, DropKeeps
    <3> HIDE DEF d
    <3>3. Accounted(d, {})
      BY <1>1, <2>1, <2>2, <3>2 DEF Accounted, FiledIn
    <3>4. d.res \subseteq s.res
      BY <2>2, <3>2
    <3> QED
      BY <3>1, <3>3, <3>4, ShrunkIs DEF d
  <2>4. CASE v \notin s.res \ pins
    <3>1. PopOldest(s) = Popped(t, FALSE)
      BY <1>3, <2>4 DEF PopOldest, v, t
    <3>2. Accounted(t, {})
      BY <1>1, <2>1, <2>2, <2>4 DEF Accounted, FiledIn
    <3> QED
      BY <2>2, <3>1, <3>2, ShrunkIs
  <2> QED
    BY <2>3, <2>4
<1> QED
  BY <1>2, <1>3

\* What heappop takes is one entry; the rest of the heap stays.
LEMMA HeapPops ==
    ASSUME NEW s \in CacheStates, s.heap # <<>>
    PROVE  LET k == Least(s.heap)
               t == [s EXCEPT !.heap = RemoveAt(s.heap, k)]
           IN /\ s.heap[k] \in HeapEntries /\ RemoveAt(s.heap, k) \in Seq(HeapEntries)
              /\ t \in CacheStates
              /\ t.res = s.res /\ t.used = s.used /\ t.pri = s.pri /\ t.clock = s.clock
              /\ t.freq = s.freq /\ t.bfreq = s.bfreq
              /\ \A e \in Range(s.heap) : e # s.heap[k] => e \in Range(t.heap)
<1>1. s.heap \in Seq(HeapEntries)
  BY DEF CacheStates
<1>2. PICK k : k = Least(s.heap) /\ k \in DOMAIN s.heap
  BY <1>1, LeastIsIn
<1>3. PICK h : h = RemoveAt(s.heap, k)
  OBVIOUS
<1>4. h \in Seq(HeapEntries) /\ \A e \in Range(s.heap) : e # s.heap[k] => e \in Range(h)
  BY <1>1, <1>2, <1>3, RemovedAt
<1>5. s.heap[k] \in HeapEntries
  BY <1>1, <1>2
<1>6. [s EXCEPT !.heap = h] \in CacheStates
  BY <1>4 DEF CacheStates
<1> QED
  BY <1>2, <1>3, <1>4, <1>5, <1>6 DEF CacheStates

\* evict_one of GDSF.
LEMMA CheapestKeeps ==
    ASSUME NEW s, Accounted(s, {}), cap \in Nat, policy = "gdsf"
    PROVE  Shrunk(PopCheapest(s), s)
<1>1. /\ s \in CacheStates /\ s.used = BytesOf(s.res) /\ s.used <= cap
      /\ \A i \in s.res \ pins : <<s.pri[i], i>> \in Range(s.heap)
  BY DEF Accounted, FiledIn
<1>2. CASE s.heap = <<>>
  <2>1. PopCheapest(s) = Popped(s, FALSE)
    BY <1>2 DEF PopCheapest
  <2> QED
    BY <2>1, ShrunkIs
<1>3. CASE s.heap # <<>>
  <2>1. PICK k \in Int, h \in Seq(HeapEntries), t \in CacheStates :
            /\ k = Least(s.heap) /\ h = RemoveAt(s.heap, k) /\ t = [s EXCEPT !.heap = h]
            /\ s.heap[k] \in HeapEntries
            /\ t \in CacheStates /\ t.res = s.res /\ t.used = s.used /\ t.pri = s.pri
            /\ t.clock = s.clock
            /\ \A e \in Range(s.heap) : e # s.heap[k] => e \in Range(t.heap)
    <3>1. Least(s.heap) \in Int
      BY <1>1, <1>3, LeastIsIn DEF CacheStates
    <3> QED
      BY <1>1, <1>3, <3>1, HeapPops
  <2>2. PICK p \in Int, v \in Tensors : s.heap[k] = <<p, v>> /\ s.heap[k][1] = p /\ s.heap[k][2] = v
    BY <2>1 DEF HeapEntries
  <2>3. CASE v \in s.res /\ s.pri[v] = p
    <3> DEFINE c == IF p > t.clock THEN p ELSE t.clock
               u == [t EXCEPT !.clock = IF p > @ THEN p ELSE @, !.pri[v] = -1]
               d == DropItem(u, v)
    <3>1. PopCheapest(s) = Popped(d, TRUE)
      BY <1>3, <2>1, <2>2, <2>3 DEF PopCheapest
    <3>2. /\ u \in CacheStates /\ u.res = s.res /\ u.used = s.used /\ u.heap = t.heap
          /\ u.pri = [s.pri EXCEPT ![v] = -1] /\ s.pri \in [Tensors -> Int]
          /\ s.res \in SUBSET Tensors
      <4>1. c \in Int
        BY <2>1 DEF CacheStates
      <4>2. t.pri \in [Tensors -> Int] /\ [t.pri EXCEPT ![v] = -1] \in [Tensors -> Int]
        BY DEF CacheStates
      <4>3. u = [t EXCEPT !.clock = c, !.pri = [t.pri EXCEPT ![v] = -1]]
        OBVIOUS
      <4> HIDE DEF c, u
      <4> QED
        BY <1>1, <2>1, <4>1, <4>2, <4>3 DEF CacheStates
    <3> HIDE DEF u
    <3>3. /\ d \in CacheStates /\ d.res = s.res \ {v} /\ d.used = BytesOf(d.res) /\ d.used <= cap
          /\ d.heap = t.heap /\ d.pri = u.pri
      BY <1>1, <2>3, <3>2, DropKeeps
    <3> HIDE DEF d
    <3>4. ASSUME NEW i \in d.res \ pins PROVE <<d.pri[i], i>> \in Range(d.heap)
      <4>1. i \in s.res \ pins /\ i # v /\ i \in Tensors
        BY <3>2, <3>3
      <4>2. d.pri[i] = s.pri[i]
        BY <3>2, <3>3, <4>1
      <4>3. <<s.pri[i], i>> \in Range(s.heap) /\ <<s.pri[i], i>> # s.heap[k]
        BY <1>1, <2>2, <4>1
      <4> QED
        BY <2>1, <3>3, <4>2, <4>3
    <3>5. Accounted(d, {})
      BY <3>3, <3>4 DEF Accounted, FiledIn
    <3> QED
      BY <3>1, <3>3, <3>5, ShrunkIs
  <2>4. CASE ~(v \in s.res /\ s.pri[v] = p)
    <3>1. PopCheapest(s) = Popped(t, FALSE)
      BY <1>3, <2>1, <2>2, <2>4 DEF PopCheapest
    <3>2. ASSUME NEW i \in t.res \ pins PROVE <<t.pri[i], i>> \in Range(t.heap)
      <4>1. <<s.pri[i], i>> \in Range(s.heap) /\ <<s.pri[i], i>> # s.heap[k]
        BY <1>1, <2>1, <2>2, <2>4
      <4> QED
        BY <2>1, <4>1
    <3>3. Accounted(t, {})
      BY <1>1, <2>1, <3>2 DEF Accounted, FiledIn
    <3> QED
      BY <2>1, <3>1, <3>3, ShrunkIs
  <2> QED
    BY <2>3, <2>4
<1> QED
  BY <1>2, <1>3

\* Densities are numbers.
LEMMA DensityIsInt ==
    ASSUME NEW s \in CacheStates, NEW i \in Tensors
    PROVE  Density(s, i) \in Int
<1>1. /\ s.freq[i] \in Int /\ s.bfreq[i] \in Int /\ DeltaSize[i] \in Nat /\ Size[i] \in Nat
  BY CacheConstants DEF CacheStates, Tensors
<1>2. PICK a \in Int, b \in Int : a = AtLeast1(DeltaSize[i]) /\ b = AtLeast1(Size[i]) /\ b > 0
  BY <1>1 DEF AtLeast1
<1>3. PICK c \in Int : c = s.freq[i] * a
  BY <1>1
<1>4. c \div b \in Int
  BY <1>2
<1> QED
  BY <1>1, <1>2, <1>3, <1>4 DEF Density

\* A tensor is filed.
LEMMA PushKeeps ==
    ASSUME NEW s \in CacheStates, NEW p \in Int, NEW i \in Tensors
    PROVE  LET r == Pushed(s, p, i)
           IN /\ r \in CacheStates /\ r.res = s.res /\ r.used = s.used /\ r.pri = s.pri
              /\ r.order = s.order
              /\ Range(r.heap) = Range(s.heap) \union {<<p, i>>}
<1>1. s.heap \in Seq(HeapEntries) /\ <<p, i>> \in HeapEntries
  BY DEF CacheStates, HeapEntries
<1>2. PICK e \in HeapEntries : e = <<p, i>>
  BY <1>1
<1>3. PICK h : h = Append(s.heap, e)
  OBVIOUS
<1>4. h \in Seq(HeapEntries) /\ Range(h) = Range(s.heap) \union {e}
  <2>1. PICK n \in Nat : n = Len(s.heap) /\ DOMAIN s.heap = 1 .. n
    BY <1>1
  <2>2. /\ h \in Seq(HeapEntries) /\ DOMAIN h = 1 .. n + 1
        /\ \A j \in 1 .. n : h[j] = s.heap[j]
        /\ h[n + 1] = e
    BY <1>1, <1>3, <2>1
  <2>3. \A j \in 1 .. n + 1 : j \in 1 .. n \/ j = n + 1
    OBVIOUS
  <2>4. \A j \in 1 .. n : j \in 1 .. n + 1
    OBVIOUS
  <2>5. n + 1 \in 1 .. n + 1
    OBVIOUS
  <2> QED
    BY <2>1, <2>2, <2>3, <2>4, <2>5 DEF Range
<1>5. Pushed(s, p, i) = [s EXCEPT !.heap = h]
  BY <1>2, <1>3 DEF Pushed
<1>6. [s EXCEPT !.heap = h] \in CacheStates
  BY <1>4 DEF CacheStates
<1> QED
  BY <1>2, <1>4, <1>5, <1>6 DEF CacheStates

\* evict_one of Recon.
LEMMA SparsestKeeps ==
    ASSUME NEW s, Accounted(s, {}), cap \in Nat, policy = "recon"
    PROVE  Shrunk(PopSparsest(s), s)
<1>1. /\ s \in CacheStates /\ s.used = BytesOf(s.res) /\ s.used <= cap
      /\ \A i \in s.res \ pins : \E e \in Range(s.heap) : e[2] = i
  BY DEF Accounted, FiledIn
<1>2. CASE s.heap = <<>>
  <2>1. PopSparsest(s) = Popped(s, FALSE)
    BY <1>2 DEF PopSparsest
  <2> QED
    BY <2>1, ShrunkIs
<1>3. CASE s.heap # <<>>
  <2>1. PICK k \in Int, h \in Seq(HeapEntries), t \in CacheStates :
            /\ k = Least(s.heap) /\ h = RemoveAt(s.heap, k) /\ t = [s EXCEPT !.heap = h]
            /\ s.heap[k] \in HeapEntries
            /\ t \in CacheStates /\ t.res = s.res /\ t.used = s.used
            /\ \A e \in Range(s.heap) : e # s.heap[k] => e \in Range(t.heap)
    <3>1. Least(s.heap) \in Int
      BY <1>1, <1>3, LeastIsIn DEF CacheStates
    <3> QED
      BY <1>1, <1>3, <3>1, HeapPops
  <2>0. t.res = s.res /\ t.used = s.used
    BY <2>1
  <2>2. PICK v \in Tensors : v = s.heap[k][2]
    BY <2>1 DEF HeapEntries
  <2>3. \A i \in s.res \ pins : i # v => \E e \in Range(t.heap) : e[2] = i
    BY <1>1, <2>1, <2>2
  <2>4. PICK cur \in Int : cur = Density(s, v)
    BY <1>1, DensityIsInt
  <2>5. CASE v \notin s.res
    <3>1. PopSparsest(s) = Popped(t, FALSE)
      BY <1>3, <2>1, <2>2, <2>5 DEF PopSparsest
    <3>2. Accounted(t, {})
      BY <1>1, <2>1, <2>3, <2>5 DEF Accounted, FiledIn
    <3> QED
      BY <2>1, <3>1, <3>2, ShrunkIs
  <2>6. CASE v \in s.res /\ Grown(cur, s.heap[k][1])
    <3> DEFINE d == Pushed(t, cur, v)
    <3>1. PopSparsest(s) = Popped(d, FALSE)
      BY <1>3, <2>1, <2>2, <2>4, <2>6 DEF PopSparsest
    <3>2. /\ d \in CacheStates /\ d.res = t.res /\ d.used = t.used
          /\ Range(d.heap) = Range(t.heap) \union {<<cur, v>>}
      BY PushKeeps
    <3> HIDE DEF d
    <3>3. ASSUME NEW i \in d.res \ pins PROVE \E e \in Range(d.heap) : e[2] = i
      <4>0. <<cur, v>>[2] = v
        OBVIOUS
      <4>1. PICK e : e = <<cur, v>> /\ e[2] = v
        BY <4>0, Zenon
      <4>2. i = v \/ \E f \in Range(t.heap) : f[2] = i
        BY <2>0, <2>3, <3>2
      <4> QED
        BY <3>2, <4>1, <4>2
    <3>4. Accounted(d, {})
      BY <1>1, <2>0, <3>2, <3>3 DEF Accounted, FiledIn
    <3> QED
      BY <2>1, <3>1, <3>2, <3>4, ShrunkIs
  <2>7. CASE v \in s.res /\ ~Grown(cur, s.heap[k][1])
    <3> DEFINE d == DropItem(t, v)
    <3>1. PopSparsest(s) = Popped(d, TRUE)
      BY <1>3, <2>1, <2>2, <2>4, <2>7 DEF PopSparsest
    <3>2. /\ d \in CacheStates /\ d.res = t.res \ {v} /\ d.used = BytesOf(d.res) /\ d.used <= cap
          /\ d.heap = t.heap
      BY <1>1, <2>0, <2>7, DropKeeps
    <3> HIDE DEF d
    <3>3. Accounted(d, {})
      BY <2>1, <2>3, <3>2 DEF Accounted, FiledIn
    <3> QED
      BY <2>1, <3>1, <3>2, <3>3, ShrunkIs
  <2> QED
    BY <2>5, <2>6, <2>7
<1> QED
  BY <1>2, <1>3

\* One round of the loop of evict_one.
LEMMA PopKeeps ==
    ASSUME NEW s, Accounted(s, {}), cap \in Nat
    PROVE  Shrunk(Pop(s), s)
<1>1. CASE policy = "gdsf"
  <2>1. Pop(s) = PopCheapest(s)
    BY <1>1 DEF Pop
  <2> QED
    BY <1>1, <2>1, CheapestKeeps
<1>2. CASE policy = "recon"
  <2>1. Pop(s) = PopSparsest(s)
    BY <1>2 DEF Pop
  <2> QED
    BY <1>2, <2>1, SparsestKeeps
<1>3. CASE policy \notin {"gdsf", "recon"}
  <2>1. Pop(s) = PopOldest(s)
    BY <1>3 DEF Pop
  <2> QED
    BY <1>3, <2>1, OldestKeeps
<1> QED
  BY <1>1, <1>2, <1>3

-----------------------------------------------------------------------------
(* The loops *)

\* Where each step of a run stays, its end is.
LEMMA RunStays ==
    ASSUME NEW W, NEW n \in Nat, NEW f, f[0] \in W,
           \A k \in 1 .. n : f[k - 1] \in W => f[k] \in W
    PROVE  f[n] \in W
<1> DEFINE T == {k \in 0 .. n : f[k] \in W}
<1>1. 0 \in T
  OBVIOUS
<1>2. ASSUME NEW k \in 0 .. n - 1, k \in T PROVE k + 1 \in T
  <2>1. k + 1 \in 1 .. n /\ (k + 1) - 1 = k /\ k + 1 \in 0 .. n
    OBVIOUS
  <2> QED
    BY <1>2, <2>1
<1>3. 0 .. n \subseteq T
  <2> HIDE DEF T
  <2> QED
    BY <1>1, <1>2, InductionUpTo
<1> QED
  BY <1>3

\* The loop of evict_one.
LEMMA EvictKeeps ==
    ASSUME NEW s, Accounted(s, {}), cap \in Nat
    PROVE  Shrunk(EvictOne(s), s)
<1> DEFINE W == {w \in [s : CacheStates, evicted : BOOLEAN] : Shrunk(w, s)}
           w0 == Popped(s, FALSE)
           Round(w) == IF w.evicted THEN w ELSE Pop(w.s)
<1>1. PICK n \in Nat : n = MostPops(s)
  <2>1. s.order \in Seq(Tensors) /\ s.heap \in Seq(HeapEntries)
    BY DEF Accounted, CacheStates
  <2>2. PICK a \in Nat, b \in Nat : a = Len(s.order) /\ b = Len(s.heap)
    BY <2>1
  <2>3. a + 2 * b \in Nat
    OBVIOUS
  <2> QED
    BY <2>2, <2>3 DEF MostPops
<1>2. w0 \in W
  BY ShrunkIs DEF Popped, Accounted
<1>3. ASSUME NEW w \in W PROVE Round(w) \in W
  <2>1. Shrunk(w, s) /\ Accounted(w.s, {}) /\ w.s.res \subseteq s.res
    BY DEF Shrunk
  <2>2. PICK p : p = Pop(w.s) /\ Shrunk(p, w.s)
    BY <2>1, PopKeeps
  <2>3. Shrunk(p, s)
    BY <2>1, <2>2 DEF Shrunk
  <2>4. p \in [s : CacheStates, evicted : BOOLEAN]
    <3>1. \E r, e : p = Popped(r, e)
      BY <2>2, Zenon DEF Pop, PopOldest, PopCheapest, PopSparsest
    <3>2. p.s \in CacheStates /\ p.evicted \in BOOLEAN
      BY <2>2 DEF Shrunk, Accounted
    <3> QED
      BY <3>1, <3>2 DEF Popped
  <2> QED
    BY <2>2, <2>3, <2>4
<1> DEFINE Rec(f) == f = [k \in 0 .. n |-> IF k = 0 THEN w0 ELSE Round(f[k - 1])]
           after == CHOOSE f : Rec(f)
<1>4. \E f : Rec(f)
  <2> DEFINE h == [k \in 1 .. n |-> [w \in W |-> Round(w)]]
  <2>1. h \in [1 .. n -> [W -> W]]
    <3> HIDE DEF W, Round
    <3> QED
      BY <1>3
  <2>2. PICK f \in [0 .. n -> W] : IsRun(f, w0, n, h)
    <3> HIDE DEF W, w0, h
    <3> QED
      BY <1>2, <2>1, RunExists
  <2>3. ASSUME NEW k \in 1 .. n PROVE f[k] = Round(f[k - 1])
    <3>1. f[k] = h[k][f[k - 1]] /\ f[k - 1] \in W
      BY <2>2 DEF IsRun
    <3> HIDE DEF W, Round
    <3> QED
      BY <3>1
  <2>4. f = [k \in 0 .. n |-> f[k]]
    BY <2>2
  <2> HIDE DEF W, w0, Round
  <2>5. \A k \in 0 .. n : f[k] = IF k = 0 THEN w0 ELSE Round(f[k - 1])
    <3>1. f[0] = w0
      BY <2>2 DEF IsRun
    <3>2. \A k \in 0 .. n : k = 0 \/ k \in 1 .. n
      OBVIOUS
    <3> QED
      BY <2>3, <3>1, <3>2
  <2>6. Rec(f)
    BY <2>4, <2>5, Zenon
  <2> QED
    BY <2>6
<1>5. Rec(after)
  BY <1>4, Zenon
<1>6. EvictOne(s) = after[n]
  BY <1>1 DEF EvictOne
<1> HIDE DEF after, W, w0, Round
<1>7. after[0] = w0 /\ \A k \in 1 .. n : after[k] = Round(after[k - 1])
  BY <1>5
<1>8. \A k \in 1 .. n : after[k - 1] \in W => after[k] \in W
  BY <1>3, <1>7
<1>9. after[n] \in W
  BY <1>2, <1>7, <1>8, RunStays
<1> QED
  BY <1>6, <1>9 DEF W

\* The loop that makes room.
LEMMA RoomKeeps ==
    ASSUME NEW s, Accounted(s, {}), cap \in Nat, NEW size
    PROVE  LET r == MakeRoom(s, size) IN Accounted(r, {}) /\ r.res \subseteq s.res
<1> DEFINE W == {w \in CacheStates : Accounted(w, {}) /\ w.res \subseteq s.res}
           Round(w) == IF Fits(w, size) THEN w ELSE EvictOne(w).s
<1>1. PICK n \in Nat : n = Cardinality(s.res)
  <2>1. s.res \in SUBSET Tensors /\ Tensors = 1 .. Len(Size) /\ Len(Size) \in Nat
    BY CacheConstants DEF Accounted, CacheStates, Tensors
  <2>2. 1 \in Int /\ Len(Size) \in Int
    BY <2>1
  <2>3. IsFiniteSet(1 .. Len(Size))
    BY <2>2, FS_Interval
  <2>4. IsFiniteSet(s.res)
    BY <2>1, <2>3, FS_Subset
  <2> QED
    BY <2>4, FS_CardinalityType
<1>2. s \in W
  BY DEF Accounted
<1>3. ASSUME NEW w \in W PROVE Round(w) \in W
  <2>1. Accounted(w, {}) /\ w.res \subseteq s.res
    OBVIOUS
  <2>2. Shrunk(EvictOne(w), w)
    BY <2>1, EvictKeeps
  <2>3. EvictOne(w).s \in W
    BY <2>1, <2>2 DEF Shrunk, Accounted
  <2> HIDE DEF W
  <2> QED
    BY <2>3
<1> DEFINE Rec(f) == f = [k \in 0 .. n |-> IF k = 0 THEN s ELSE Round(f[k - 1])]
           after == CHOOSE f : Rec(f)
<1>4. \E f : Rec(f)
  <2> DEFINE h == [k \in 1 .. n |-> [w \in W |-> Round(w)]]
  <2>1. h \in [1 .. n -> [W -> W]]
    <3> HIDE DEF W, Round
    <3> QED
      BY <1>3
  <2>2. PICK f \in [0 .. n -> W] : IsRun(f, s, n, h)
    <3> HIDE DEF W, h
    <3> QED
      BY <1>2, <2>1, RunExists
  <2>3. ASSUME NEW k \in 1 .. n PROVE f[k] = Round(f[k - 1])
    <3>1. f[k] = h[k][f[k - 1]] /\ f[k - 1] \in W
      BY <2>2 DEF IsRun
    <3> HIDE DEF W, Round
    <3> QED
      BY <3>1
  <2>4. f = [k \in 0 .. n |-> f[k]]
    BY <2>2
  <2> HIDE DEF W, Round
  <2>5. \A k \in 0 .. n : f[k] = IF k = 0 THEN s ELSE Round(f[k - 1])
    <3>1. f[0] = s
      BY <2>2 DEF IsRun
    <3>2. \A k \in 0 .. n : k = 0 \/ k \in 1 .. n
      OBVIOUS
    <3> QED
      BY <2>3, <3>1, <3>2
  <2>6. Rec(f)
    BY <2>4, <2>5, Zenon
  <2> QED
    BY <2>6
<1>5. Rec(after)
  BY <1>4, Zenon
<1>6. MakeRoom(s, size) = after[n]
  BY <1>1 DEF MakeRoom
<1> HIDE DEF after, W, Round
<1>7. after[0] = s /\ \A k \in 1 .. n : after[k] = Round(after[k - 1])
  BY <1>5
<1>8. \A k \in 1 .. n : after[k - 1] \in W => after[k] \in W
  BY <1>3, <1>7
<1>9. after[n] \in W
  BY <1>2, <1>7, <1>8, RunStays
<1> QED
  BY <1>6, <1>9 DEF W

-----------------------------------------------------------------------------
(* admit, and the operations of a pull *)

\* A tensor is admitted to where it is not.
LEMMA AdmitKeeps ==
    ASSUME NEW s, Accounted(s, {}), cap \in Nat, NEW i \in Tensors, i \notin s.res
    PROVE  LET r == Admit(s, i) IN Accounted(r, {i}) /\ r.res \subseteq s.res \union {i}
<1>1. Size[i] \in Nat
  BY CacheConstants DEF Tensors
<1>2. CASE Size[i] > cap
  BY <1>2 DEF Admit, Accounted
<1>3. CASE ~(Size[i] > cap)
  <2>1. PICK r : r = MakeRoom(s, Size[i]) /\ Accounted(r, {}) /\ r.res \subseteq s.res
    BY RoomKeeps
  <2>2. /\ r \in CacheStates /\ r.used = BytesOf(r.res) /\ r.used <= cap /\ r.used \in Int
        /\ r.res \in SUBSET Tensors /\ i \notin r.res
        /\ r.res \ pins \subseteq FiledIn(r)
    BY <2>1 DEF Accounted, CacheStates
  <2>3. CASE ~Fits(r, Size[i])
    <3>1. Admit(s, i) = r
      BY <1>3, <2>1, <2>3 DEF Admit
    <3> QED
      BY <2>1, <3>1 DEF Accounted
  <2>4. CASE Fits(r, Size[i])
    <3> DEFINE d == [r EXCEPT !.res = r.res \union {i}, !.used = r.used + Size[i]]
    <3>1. Admit(s, i) = d
      BY <1>3, <2>1, <2>4 DEF Admit
    <3>2. BytesOf(r.res \union {i}) = r.used + Size[i] /\ r.used + Size[i] <= cap
          /\ r.used + Size[i] \in Int
      BY <1>1, <2>2, <2>4, BytesAdd DEF Fits
    <3>3. /\ d \in CacheStates /\ d.res = r.res \union {i} /\ d.used = r.used + Size[i]
          /\ d.order = r.order /\ d.heap = r.heap /\ d.pri = r.pri
      BY <2>2, <3>2 DEF CacheStates
    <3> HIDE DEF d
    <3>4. (d.res \ pins) \ {i} \subseteq FiledIn(d)
      BY <2>2, <3>3 DEF FiledIn
    <3> QED
      BY <2>1, <3>1, <3>2, <3>3, <3>4 DEF Accounted
  <2> QED
    BY <2>3, <2>4
<1> QED
  BY <1>2, <1>3

\* A tensor made the most recently used.
LEMMA ToEndKeeps ==
    ASSUME NEW s \in Seq(Tensors), NEW i \in Tensors
    PROVE  /\ ToEnd(s, i) \in Seq(Tensors)
           /\ Range(s) \union {i} \subseteq Range(ToEnd(s, i))
<1>1. PICK n \in Nat : n = Len(s) /\ DOMAIN s = 1 .. n
  OBVIOUS
<1>2. PICK r : r = RemoveFirst(s, i)
  OBVIOUS
<1>3. r \in Seq(Tensors) /\ \A e \in Range(s) : e # i => e \in Range(r)
  <2>1. CASE \A k \in 1 .. n : s[k] # i
    BY <1>1, <1>2, <2>1 DEF RemoveFirst
  <2>2. CASE \E k \in 1 .. n : s[k] = i
    <3> DEFINE I == {k \in 1 .. n : s[k] = i}
    <3>1. SelectInSeq(s, LAMBDA v : v = i) = Min(I)
      BY <1>1, <2>2 DEF SelectInSeq
    <3>2. I \subseteq Nat /\ I # {} /\ \A k \in I : k \in 1 .. n /\ s[k] = i
      BY <2>2
    <3>3. PICK k : k = Min(I) /\ k \in I
      <4> HIDE DEF I
      <4>1. \E k \in I : \A m \in I : k <= m
        BY <3>2, LeastNumber
      <4> QED
        BY <4>1 DEF Min
    <3> HIDE DEF I
    <3>4. k \in DOMAIN s /\ s[k] = i
      BY <1>1, <3>2, <3>3
    <3>5. r = RemoveAt(s, k)
      BY <1>1, <1>2, <2>2, <3>1, <3>3 DEF RemoveFirst
    <3>6. /\ RemoveAt(s, k) \in Seq(Tensors)
          /\ \A e \in Range(s) : e # s[k] => e \in Range(RemoveAt(s, k))
      BY <3>4, RemovedAt
    <3> QED
      BY <3>4, <3>5, <3>6
  <2> QED
    BY <2>1, <2>2
<1>4. PICK m \in Nat : m = Len(r) /\ DOMAIN r = 1 .. m
  BY <1>3
<1>5. PICK o : o = Append(r, i)
  OBVIOUS
<1>6. /\ o \in Seq(Tensors) /\ DOMAIN o = 1 .. m + 1 /\ o[m + 1] = i
      /\ \A k \in 1 .. m : o[k] = r[k]
  BY <1>3, <1>4, <1>5
<1>7. ASSUME NEW e \in Range(s) \union {i} PROVE e \in Range(o)
  <2>1. CASE e = i
    <3>1. m + 1 \in 1 .. m + 1
      OBVIOUS
    <3> QED
      BY <1>6, <2>1, <3>1 DEF Range
  <2>2. CASE e # i
    <3>1. PICK k \in 1 .. m : r[k] = e
      BY <1>3, <1>4, <1>7, <2>2 DEF Range
    <3>2. k \in 1 .. m + 1
      OBVIOUS
    <3> QED
      BY <1>6, <3>1, <3>2 DEF Range
  <2> QED
    BY <2>1, <2>2
<1> QED
  BY <1>2, <1>5, <1>6, <1>7 DEF ToEnd

\* Access counts and costs are not what is filed.
LEMMA CountsKeep ==
    ASSUME NEW s, NEW new, Accounted(s, new), NEW r \in CacheStates, r.res = s.res, r.used = s.used,
           r.order = s.order, r.heap = s.heap, r.pri = s.pri
    PROVE  Accounted(r, new)
<1>1. FiledIn(r) = FiledIn(s)
  BY DEF FiledIn
<1> QED
  BY <1>1 DEF Accounted

\* A GDSF access is counted.
LEMMA CountKeeps ==
    ASSUME NEW s, NEW new, Accounted(s, new), NEW i \in Tensors
    PROVE  LET r == Count(s, i) IN Accounted(r, new) /\ r.res = s.res
<1>1. s \in CacheStates /\ s.freq \in [Tensors -> Int] /\ s.freq[i] + 1 \in Int
  BY DEF Accounted, CacheStates
<1>2. PICK f \in [Tensors -> Int] : f = [s.freq EXCEPT ![i] = s.freq[i] + 1]
  <2>1. [s.freq EXCEPT ![i] = s.freq[i] + 1] \in [Tensors -> Int]
    BY <1>1
  <2> QED
    BY <2>1
<1>3. Count(s, i) = [s EXCEPT !.freq = f]
  BY <1>1, <1>2 DEF Count
<1>4. PICK r : r = [s EXCEPT !.freq = f]
  OBVIOUS
<1>5. /\ r \in CacheStates /\ r.res = s.res /\ r.used = s.used /\ r.order = s.order
      /\ r.heap = s.heap /\ r.pri = s.pri
  BY <1>1, <1>2, <1>4 DEF CacheStates
<1> QED
  BY <1>3, <1>4, <1>5, CountsKeep

\* A Recon access is counted, for the family of the base too.
LEMMA BumpKeeps ==
    ASSUME NEW s, NEW new, Accounted(s, new), NEW i \in Tensors
    PROVE  LET r == Bump(s, i) IN Accounted(r, new) /\ r.res = s.res
<1> DEFINE decayed(x) == (x * 999) \div 1000 + Whole
           f == [s.freq EXCEPT ![i] = decayed(s.freq[i])]
           g == [s.bfreq EXCEPT ![BaseOf[i]] = decayed(s.bfreq[BaseOf[i]])]
           c == [s EXCEPT !.freq = f]
           r == IF BaseOf[i] = RawItem THEN c ELSE [c EXCEPT !.bfreq = g]
<1>1. s \in CacheStates /\ s.freq \in [Tensors -> Int] /\ s.bfreq \in [Tensors -> Int]
  BY DEF Accounted, CacheStates
<1>2. \A x \in Int : decayed(x) \in Int
  BY DEF Whole
<1> HIDE DEF decayed
<1>3. f \in [Tensors -> Int] /\ g \in [Tensors -> Int]
  BY <1>1, <1>2
<1>4. Bump(s, i) = r
  BY <1>1 DEF Bump, decayed
<1> HIDE DEF f, g
<1>5. /\ r \in CacheStates /\ r.res = s.res /\ r.used = s.used /\ r.order = s.order
      /\ r.heap = s.heap /\ r.pri = s.pri
  BY <1>1, <1>3 DEF CacheStates
<1> HIDE DEF r
<1> QED
  BY <1>4, <1>5, CountsKeep

\* A GDSF miss is noted.
LEMMA NoteKeeps ==
    ASSUME NEW s, Accounted(s, {}), NEW i \in Tensors, NEW bytes \in Int
    PROVE  LET r == NoteMiss(s, i, bytes) IN Accounted(r, {}) /\ r.res = s.res
<1>1. s \in CacheStates /\ s.cost \in [Tensors -> Int]
  BY DEF Accounted, CacheStates
<1>2. PICK f \in [Tensors -> Int] : f = [s.cost EXCEPT ![i] = bytes]
  <2>1. [s.cost EXCEPT ![i] = bytes] \in [Tensors -> Int]
    BY <1>1
  <2> QED
    BY <2>1
<1>3. NoteMiss(s, i, bytes) = IF policy = "gdsf" THEN [s EXCEPT !.cost = f] ELSE s
  BY <1>1, <1>2 DEF NoteMiss
<1>4. PICK r : r = [s EXCEPT !.cost = f]
  OBVIOUS
<1>5. /\ r \in CacheStates /\ r.res = s.res /\ r.used = s.used /\ r.order = s.order
      /\ r.heap = s.heap /\ r.pri = s.pri
  BY <1>1, <1>2, <1>4 DEF CacheStates
<1> QED
  BY <1>3, <1>4, <1>5, CountsKeep

\* A GDSF priority is set, and its entry filed.
LEMMA ReprioritiseKeeps ==
    ASSUME NEW s, NEW i \in Tensors, Accounted(s, {i}), policy = "gdsf"
    PROVE  LET r == Reprioritise(s, i) IN Accounted(r, {}) /\ r.res = s.res
<1>1. /\ s \in CacheStates /\ s.pri \in [Tensors -> Int] /\ s.res \in SUBSET Tensors
      /\ s.used = BytesOf(s.res) /\ s.used <= cap
      /\ s.cost[i] \in Int /\ s.freq[i] \in Int /\ s.clock \in Int
  BY DEF Accounted, CacheStates
<1>2. PICK size \in Nat : size = Size[i]
  BY CacheConstants DEF Tensors
<1>3. PICK a \in Int, b \in Int :
        /\ a = IF s.cost[i] = -1 THEN size ELSE s.cost[i]
        /\ b = AtLeast1(size) /\ b > 0
  BY <1>1 DEF AtLeast1
<1>4. PICK q \in Int : q = (a * Whole) \div b
  <2>1. a * Whole \in Int
    BY DEF Whole
  <2> QED
    BY <1>3, <2>1
<1>5. PICK p \in Int : p = s.clock + s.freq[i] * q
  BY <1>1
<1> DEFINE f == [s.pri EXCEPT ![i] = p]
           u == [s EXCEPT !.pri = f]
<1>6. Reprioritise(s, i) = Pushed(u, p, i)
  <2>1. u = [s EXCEPT !.pri[i] = p]
    OBVIOUS
  <2> HIDE DEF u
  <2> QED
    BY <1>2, <1>3, <1>4, <1>5, <2>1 DEF Reprioritise
<1>7. f \in [Tensors -> Int] /\ f[i] = p /\ \A j \in Tensors : j # i => f[j] = s.pri[j]
  BY <1>1
<1> HIDE DEF f
<1>8. u \in CacheStates /\ u.res = s.res /\ u.used = s.used /\ u.heap = s.heap /\ u.pri = f
  BY <1>1, <1>7 DEF CacheStates
<1> HIDE DEF u
<1>9. PICK r : r = Pushed(u, p, i)
  OBVIOUS
<1>10. /\ r \in CacheStates /\ r.res = s.res /\ r.used = s.used /\ r.pri = f
       /\ Range(r.heap) = Range(s.heap) \union {<<p, i>>}
  BY <1>8, <1>9, PushKeeps
<1>11. ASSUME NEW j \in r.res \ pins PROVE <<r.pri[j], j>> \in Range(r.heap)
  <2>1. CASE j = i
    BY <1>7, <1>10, <2>1
  <2>2. CASE j # i
    <3>1. j \in Tensors /\ j \in (s.res \ pins) \ {i}
      BY <1>1, <1>10, <2>2
    <3>2. <<s.pri[j], j>> \in Range(s.heap)
      BY <3>1 DEF Accounted, FiledIn
    <3> QED
      BY <1>7, <1>10, <2>2, <3>1, <3>2
  <2> QED
    BY <2>1, <2>2
<1>12. Accounted(r, {})
  BY <1>1, <1>10, <1>11 DEF Accounted, FiledIn
<1> QED
  BY <1>6, <1>9, <1>10, <1>12

\* Once it is filed, or was not admitted, no tensor is left to file.
LEMMA NothingLeft ==
    ASSUME NEW s, NEW i, Accounted(s, {i}), i \notin s.res \/ i \in FiledIn(s)
    PROVE  Accounted(s, {})
BY DEF Accounted

\* Recon files a tensor under its density.
LEMMA FilingKeeps ==
    ASSUME NEW s, NEW i \in Tensors, Accounted(s, {i}), policy = "recon"
    PROVE  LET r == Pushed(s, Density(s, i), i) IN Accounted(r, {}) /\ r.res = s.res
<1>1. s \in CacheStates /\ s.used = BytesOf(s.res) /\ s.used <= cap
  BY DEF Accounted
<1>2. PICK p \in Int : p = Density(s, i)
  BY <1>1, DensityIsInt
<1>3. PICK r : r = Pushed(s, p, i)
  OBVIOUS
<1>4. /\ r \in CacheStates /\ r.res = s.res /\ r.used = s.used
      /\ Range(r.heap) = Range(s.heap) \union {<<p, i>>}
  BY <1>1, <1>3, PushKeeps
<1>5. ASSUME NEW j \in r.res \ pins PROVE \E e \in Range(r.heap) : e[2] = j
  <2>1. <<p, i>>[2] = i
    OBVIOUS
  <2>2. PICK e : e = <<p, i>> /\ e[2] = i
    BY <2>1, Zenon
  <2>3. j = i \/ \E f \in Range(s.heap) : f[2] = j
    BY <1>4 DEF Accounted, FiledIn
  <2> QED
    BY <1>4, <2>2, <2>3
<1>6. Accounted(r, {})
  BY <1>1, <1>4, <1>5 DEF Accounted, FiledIn
<1> QED
  BY <1>2, <1>3, <1>4, <1>6

\* LRU and BaseBias file a tensor as the most recently used.
LEMMA RecentKeeps ==
    ASSUME NEW s, NEW i \in Tensors, Accounted(s, {i}), policy \notin {"gdsf", "recon"}
    PROVE  LET r == [s EXCEPT !.order = ToEnd(s.order, i)] IN Accounted(r, {}) /\ r.res = s.res
<1>1. s \in CacheStates /\ s.used = BytesOf(s.res) /\ s.used <= cap /\ s.order \in Seq(Tensors)
  BY DEF Accounted, CacheStates
<1>2. PICK o \in Seq(Tensors) : o = ToEnd(s.order, i) /\ Range(s.order) \union {i} \subseteq Range(o)
  BY <1>1, ToEndKeeps
<1>3. PICK r : r = [s EXCEPT !.order = o]
  OBVIOUS
<1>4. r \in CacheStates /\ r.res = s.res /\ r.used = s.used /\ r.order = o
  BY <1>1, <1>3 DEF CacheStates
<1>5. (s.res \ pins) \ {i} \subseteq Range(s.order)
  BY DEF Accounted, FiledIn
<1>6. Accounted(r, {})
  BY <1>1, <1>2, <1>4, <1>5 DEF Accounted, FiledIn
<1> QED
  BY <1>2, <1>3, <1>4, <1>6

\* on_serve admits and files a tensor that is not resident.
LEMMA ServeKeeps ==
    ASSUME NEW s, Accounted(s, {}), cap \in Nat, NEW i \in Tensors, i \notin s.res
    PROVE  Accounted(OnServe(s, i), {})
<1>1. CASE policy = "gdsf"
  <2>1. PICK a : a = Admit(s, i) /\ Accounted(a, {i})
    BY AdmitKeeps
  <2>2. PICK t : t = Count(a, i) /\ Accounted(t, {i})
    BY <2>1, CountKeeps
  <2>3. CASE i \in t.res
    <3>1. OnServe(s, i) = Reprioritise(t, i)
      BY <1>1, <2>1, <2>2, <2>3 DEF OnServe
    <3> QED
      BY <1>1, <2>2, <3>1, ReprioritiseKeeps
  <2>4. CASE i \notin t.res
    <3>1. OnServe(s, i) = t
      BY <1>1, <2>1, <2>2, <2>4 DEF OnServe
    <3> QED
      BY <2>2, <2>4, <3>1, NothingLeft
  <2> QED
    BY <2>3, <2>4
<1>2. CASE policy = "recon"
  <2>1. PICK a : a = Bump(s, i) /\ Accounted(a, {}) /\ a.res = s.res
    BY BumpKeeps
  <2>2. PICK t : t = Admit(a, i) /\ Accounted(t, {i})
    BY <2>1, AdmitKeeps
  <2>3. CASE i \in t.res
    <3>1. OnServe(s, i) = Pushed(t, Density(t, i), i)
      BY <1>2, <2>1, <2>2, <2>3 DEF OnServe
    <3> QED
      BY <1>2, <2>2, <3>1, FilingKeeps
  <2>4. CASE i \notin t.res
    <3>1. OnServe(s, i) = t
      BY <1>2, <2>1, <2>2, <2>4 DEF OnServe
    <3> QED
      BY <2>2, <2>4, <3>1, NothingLeft
  <2> QED
    BY <2>3, <2>4
<1>3. CASE policy \notin {"gdsf", "recon"}
  <2>1. PICK t : t = Admit(s, i) /\ Accounted(t, {i})
    BY AdmitKeeps
  <2>2. CASE i \in t.res
    <3>1. OnServe(s, i) = [t EXCEPT !.order = ToEnd(t.order, i)]
      BY <1>3, <2>1, <2>2 DEF OnServe
    <3> QED
      BY <1>3, <2>1, <3>1, RecentKeeps
  <2>3. CASE i \notin t.res
    <3>1. OnServe(s, i) = t
      BY <1>3, <2>1, <2>3 DEF OnServe
    <3> QED
      BY <2>1, <2>3, <3>1, NothingLeft
  <2> QED
    BY <2>2, <2>3
<1> QED
  BY <1>1, <1>2, <1>3

\* touch keeps everything filed, and evicts nothing.
LEMMA TouchKeeps ==
    ASSUME NEW s, Accounted(s, {}), NEW i \in Tensors
    PROVE  Accounted(TouchItem(s, i), {}) /\ TouchItem(s, i).res = s.res
<1>1. CASE policy = "gdsf"
  <2>1. PICK t : t = Count(s, i) /\ Accounted(t, {}) /\ t.res = s.res
    BY CountKeeps
  <2>2. Accounted(t, {i})
    BY <2>1 DEF Accounted
  <2>3. TouchItem(s, i) = IF i \in s.res THEN Reprioritise(t, i) ELSE t
    BY <1>1, <2>1 DEF TouchItem
  <2> QED
    BY <1>1, <2>1, <2>2, <2>3, ReprioritiseKeeps
<1>2. CASE policy = "recon"
  <2>1. TouchItem(s, i) = Bump(s, i)
    BY <1>2 DEF TouchItem
  <2> QED
    BY <2>1, BumpKeeps
<1>3. CASE policy \notin {"gdsf", "recon"}
  <2>1. TouchItem(s, i) = IF i \in Range(s.order) THEN [s EXCEPT !.order = ToEnd(s.order, i)] ELSE s
    BY <1>3 DEF TouchItem
  <2>2. Accounted(s, {i})
    BY DEF Accounted
  <2> QED
    BY <1>3, <2>1, <2>2, RecentKeeps
<1> QED
  BY <1>1, <1>2, <1>3

\* A delta's base is touched, already fetched, or fetched and perhaps admitted.
LEMMA BaseKeeps ==
    ASSUME NEW s, Accounted(s, {}), cap \in Nat, NEW b \in Tensors
    PROVE  Accounted(BaseStep(s, b), {}) /\ BaseStep(s, b).res \subseteq s.res \union {b}
<1>1. CASE b \in s.res
  <2>1. BaseStep(s, b) = TouchItem(s, b)
    BY <1>1 DEF BaseStep
  <2> QED
    BY <2>1, TouchKeeps
<1>2. CASE b \notin s.res /\ (b \in fetched \/ policy # "recon")
  <2>1. BaseStep(s, b) = s
    BY <1>2 DEF BaseStep, OnBaseFetch
  <2> QED
    BY <2>1
<1>3. CASE b \notin s.res /\ b \notin fetched /\ policy = "recon"
  <2>1. PICK t : t = Admit(s, b) /\ Accounted(t, {b}) /\ t.res \subseteq s.res \union {b}
    BY <1>3, AdmitKeeps
  <2>2. BaseStep(s, b) = IF b \in t.res THEN Pushed(t, Density(t, b), b) ELSE t
    BY <1>3, <2>1 DEF BaseStep, OnBaseFetch
  <2> QED
    BY <1>3, <2>1, <2>2, FilingKeeps, NothingLeft
<1> QED
  BY <1>1, <1>2, <1>3

-----------------------------------------------------------------------------
(* The trace *)

CacheInv ==
    /\ policy \in Policies /\ cap \in Nat
    /\ pull \in Seq(Tensors)
    /\ Accounted(State, {})

\* The bases pinned for BaseBias fit the budget.
LEMMA PinsFit ==
    ASSUME NEW ranked \in SetToSeqs(BaseItems), NEW budget \in Nat
    PROVE  LET p == PinBases(ranked, budget)
           IN /\ p.set \in SUBSET Tensors /\ p.used \in Int
              /\ p.used = BytesOf(p.set) /\ p.used <= budget
<1>1. PICK n \in Nat : ranked \in [1 .. n -> BaseItems] /\ \A i, j \in 1 .. n : i # j => ranked[i] # ranked[j]
  <2>1. /\ Tensors = 1 .. Len(Size) /\ Len(Size) \in Nat
        /\ BaseItems \in SUBSET Tensors
    BY CacheConstants DEF Tensors, BaseItems
  <2>2. 1 \in Int /\ Len(Size) \in Int
    BY <2>1
  <2>3. IsFiniteSet(1 .. Len(Size))
    BY <2>2, FS_Interval
  <2>4. IsFiniteSet(BaseItems)
    BY <2>1, <2>3, FS_Subset
  <2>5. Cardinality(BaseItems) \in Nat
    BY <2>4, FS_CardinalityType
  <2> QED
    BY <2>5 DEF SetToSeqs
<1>2. BaseItems \in SUBSET Tensors
  BY CacheConstants DEF BaseItems
<1>3. \A k \in 1 .. n : ranked[k] \in Tensors /\ Size[ranked[k]] \in Nat
  BY <1>1, <1>2, CacheConstants DEF Tensors
<1> DEFINE W == [set : SUBSET Tensors, used : Int]
           w0 == [set |-> {}, used |-> 0]
           Pinned(w, b) == IF w.used + Size[b] <= budget
                             THEN [set |-> w.set \union {b}, used |-> w.used + Size[b]]
                             ELSE w
           h == [k \in 1 .. n |-> [w \in W |-> Pinned(w, ranked[k])]]
           Fold(it) == it = [s \in SUBSET (1 .. n) |->
                               IF s = {} THEN w0 ELSE Pinned(it[s \ {Max(s)}], ranked[Max(s)])]
           iter == CHOOSE it : Fold(it)
<1>4. w0 \in W
  OBVIOUS
<1>5. h \in [1 .. n -> [W -> W]]
  <2>1. ASSUME NEW k \in 1 .. n, NEW w \in W PROVE Pinned(w, ranked[k]) \in W
    BY <1>3
  <2> HIDE DEF W, Pinned
  <2> QED
    BY <2>1
<1>6. \E it : Fold(it)
  <2> HIDE DEF W, w0, Pinned
  <2>1. PICK it \in [SUBSET (1 .. n) -> W] : IsFold(it, w0, n, h)
    <3> HIDE DEF h
    <3> QED
      BY <1>4, <1>5, FoldExists
  <2>2. ASSUME NEW s \in SUBSET (1 .. n), s # {}
        PROVE  h[Max(s)][it[s \ {Max(s)}]] = Pinned(it[s \ {Max(s)}], ranked[Max(s)])
    <3>1. Max(s) \in 1 .. n /\ it[s \ {Max(s)}] \in W
      BY <2>2, LargestOf
    <3> QED
      BY <3>1
  <2> HIDE DEF h
  <2>3. Fold(it)
    BY <2>1, <2>2 DEF IsFold
  <2> HIDE DEF Fold
  <2> QED
    BY <2>3
<1>7. Fold(iter)
  <2> HIDE DEF Fold
  <2> QED
    BY <1>6
<1>8. PinBases(ranked, budget) = iter[1 .. n]
  <2>1. DOMAIN ranked = 1 .. n
    BY <1>1
  <2> QED
    BY <2>1 DEF PinBases, FoldLeft, MapThenFoldSet
<1> HIDE DEF W, w0, Pinned
<1>9. iter[{}] = w0
  BY <1>7
<1>10. ASSUME NEW k \in 1 .. n, iter[1 .. (k - 1)] \in W
       PROVE  iter[1 .. k] = h[k][iter[1 .. (k - 1)]]
  <2>1. 1 .. k \in SUBSET (1 .. n) /\ 1 .. k # {} /\ Max(1 .. k) = k /\ (1 .. k) \ {k} = 1 .. (k - 1)
    BY PrefixOf
  <2>2. iter[1 .. k] = Pinned(iter[1 .. (k - 1)], ranked[k])
    <3> HIDE DEF iter
    <3> QED
      BY <1>7, <2>1
  <2> HIDE DEF iter
  <2> QED
    BY <1>10, <2>2
<1>11. PICK f \in [0 .. n -> W] : IsRun(f, w0, n, h) /\ iter[1 .. n] = f[n]
  <2>1. Follows(iter, W, w0, n, h)
    BY <1>9, <1>10 DEF Follows
  <2> HIDE DEF iter, h
  <2> QED
    BY <1>4, <1>5, <2>1, FoldIsRun
<1>12. ASSUME NEW k \in 1 .. n
       PROVE  f[k] = Pinned(f[k - 1], ranked[k]) /\ f[k - 1] \in W
  <2>1. f[k] = h[k][f[k - 1]] /\ f[k - 1] \in W
    BY <1>11 DEF IsRun
  <2> QED
    BY <2>1
<1> HIDE DEF iter, h
<1> DEFINE Good(k, w) == /\ w \in W
                         /\ w.used = BytesOf(w.set) /\ w.used <= budget
                         /\ \A x \in w.set : \E j \in 1 .. n : j <= k /\ x = ranked[j]
           V == {k \in 0 .. n : Good(k, f[k])}
<1>13. Good(0, f[0])
  <2>1. BytesOf({}) = 0
    <3>1. {} \in SUBSET Tensors
      OBVIOUS
    <3> QED
      BY <3>1, BytesAdd
  <2>2. f[0] = w0
    BY <1>11 DEF IsRun
  <2> QED
    BY <1>4, <2>1, <2>2 DEF w0
<1>14. ASSUME NEW k \in 1 .. n, Good(k - 1, f[k - 1]) PROVE Good(k, f[k])
  <2>1. PICK w \in W : w = f[k - 1] /\ Good(k - 1, w) /\ f[k] = Pinned(w, ranked[k])
    BY <1>12, <1>14
  <2>2. PICK b \in Tensors, size \in Nat : b = ranked[k] /\ size = Size[b]
    BY <1>3
  <2>3. w.set \in SUBSET Tensors /\ w.used \in Int
    BY DEF W
  <2>4. \A x \in w.set : \E j \in 1 .. n : j <= k /\ x = ranked[j]
    BY <2>1
  <2>5. CASE ~(w.used + size <= budget)
    BY <2>1, <2>2, <2>4, <2>5 DEF Pinned
  <2>6. CASE w.used + size <= budget
    <3>1. b \notin w.set
      BY <1>1, <2>1, <2>2
    <3>2. BytesOf(w.set \union {b}) = w.used + size
      BY <2>1, <2>2, <2>3, <3>1, BytesAdd
    <3>3. f[k] = [set |-> w.set \union {b}, used |-> w.used + size]
      BY <2>1, <2>2, <2>6 DEF Pinned
    <3>4. f[k] \in W
      BY <2>3, <3>3 DEF W
    <3>5. \A x \in w.set \union {b} : \E j \in 1 .. n : j <= k /\ x = ranked[j]
      BY <2>2, <2>4
    <3> QED
      BY <2>6, <3>2, <3>3, <3>4, <3>5
  <2> QED
    BY <2>5, <2>6
<1>15. Good(n, f[n])
  <2> HIDE DEF Good
  <2>1. 0 \in V
    BY <1>13
  <2>2. ASSUME NEW k \in 0 .. n - 1, k \in V PROVE k + 1 \in V
    <3>1. PICK j \in 1 .. n : j = k + 1 /\ j - 1 = k
      OBVIOUS
    <3>2. Good(j, f[j])
      BY <1>14, <2>2, <3>1
    <3> QED
      BY <3>1, <3>2
  <2>3. 0 .. n \subseteq V
    <3> HIDE DEF V
    <3> QED
      BY <2>1, <2>2, InductionUpTo
  <2> QED
    BY <2>3
<1> QED
  BY <1>8, <1>11, <1>15 DEF W

\* A simulation begins sound.
LEMMA CacheStarts == CacheInit => CacheInv
<1> SUFFICES ASSUME CacheInit PROVE CacheInv
  OBVIOUS
<1>1. policy \in Policies /\ cap \in Nat /\ pull \in Seq(Tensors)
  BY CacheConstants DEF CacheInit
<1>2. PICK budget \in Nat : budget = cap \div 2 /\ budget <= cap
  BY <1>1
<1>3. /\ res = pins /\ res \in SUBSET Tensors /\ used \in Int /\ used = BytesOf(res) /\ used <= cap
  <2>1. PICK ranked \in SetToSeqs(BaseItems) :
          LET pinned == IF policy = "basebias" THEN PinBases(ranked, cap \div 2)
                        ELSE [set |-> {}, used |-> 0]
          IN pins = pinned.set /\ res = pinned.set /\ used = pinned.used
    BY DEF CacheInit
  <2>2. CASE policy = "basebias"
    <3>1. PICK p : p = PinBases(ranked, budget)
      OBVIOUS
    <3>2. /\ p.set \in SUBSET Tensors /\ p.used \in Int
          /\ p.used = BytesOf(p.set) /\ p.used <= budget
      BY <3>1, PinsFit
    <3>3. pins = p.set /\ res = p.set /\ used = p.used
      BY <1>2, <2>1, <2>2, <3>1
    <3> QED
      BY <1>1, <1>2, <3>2, <3>3
  <2>3. CASE policy # "basebias"
    <3>1. {} \in SUBSET Tensors
      OBVIOUS
    <3>2. BytesOf({}) = 0
      BY <3>1, BytesAdd
    <3> QED
      BY <1>1, <2>1, <2>3, <3>2
  <2> QED
    BY <2>2, <2>3
<1>4. /\ order \in Seq(Tensors) /\ heap \in Seq(HeapEntries)
      /\ pri \in [Tensors -> Int] /\ freq \in [Tensors -> Int] /\ bfreq \in [Tensors -> Int]
      /\ cost \in [Tensors -> Int] /\ clock \in Int
  BY DEF CacheInit
<1>5. Accounted(State, {})
  BY <1>3, <1>4 DEF Accounted, State, CacheStates
<1> QED
  BY <1>1, <1>5 DEF CacheInv

\* What the steps of a pull become is what the invariant speaks about.
LEMMA BecomesAccounted ==
    ASSUME NEW s, Accounted(s, {}), Become(s), UNCHANGED <<policy, cap, pins>>
    PROVE  Accounted(State, {})'
<1>1. s \in CacheStates /\ s.used = BytesOf(s.res) /\ s.used <= cap /\ s.res \ pins \subseteq FiledIn(s)
  BY DEF Accounted
<1>2. (State \in CacheStates)'
  BY <1>1 DEF Become, State, CacheStates
<1> QED
  BY <1>1, <1>2 DEF Become, State, Accounted, FiledIn

\* Every step of a pull keeps the cache sound.
LEMMA CacheGoesOn == CacheInv /\ [CacheNext]_simulation => CacheInv'
<1> SUFFICES ASSUME CacheInv, [CacheNext]_simulation PROVE CacheInv'
  OBVIOUS
<1>0. /\ policy \in Policies /\ cap \in Nat /\ pull \in Seq(Tensors) /\ Accounted(State, {})
      /\ State.res = res
  BY DEF CacheInv, State
<1>1. ASSUME NEW m \in Models, BeginPull(m) PROVE CacheInv'
  <2>1. m \in Seq(Tensors)
    BY CacheConstants
  <2>2. Become(State) /\ UNCHANGED <<policy, cap, pins>> /\ pull' = m
    BY <1>1 DEF BeginPull, cache, Become, State
  <2>3. Accounted(State, {})'
    BY <1>0, <2>2, BecomesAccounted
  <2> QED
    BY <1>0, <2>1, <2>2, <2>3 DEF CacheInv
<1>2. ASSUME ServeHit PROVE CacheInv'
  <2>1. /\ pull # <<>> /\ pull' = Tail(pull) /\ UNCHANGED <<policy, cap, pins>>
        /\ Become(TouchItem(State, Head(pull)))
    BY <1>2 DEF ServeHit
  <2>2. Head(pull) \in Tensors /\ Tail(pull) \in Seq(Tensors)
    BY <1>0, <2>1
  <2>3. Accounted(TouchItem(State, Head(pull)), {})
    BY <1>0, <2>2, TouchKeeps
  <2>4. Accounted(State, {})'
    BY <2>1, <2>3, BecomesAccounted
  <2> QED
    BY <1>0, <2>1, <2>2, <2>4 DEF CacheInv
<1>3. ASSUME ServeRaw PROVE CacheInv'
  <2>1. PICK i : i = Head(pull)
    OBVIOUS
  <2>2. /\ pull # <<>> /\ pull' = Tail(pull) /\ UNCHANGED <<policy, cap, pins>> /\ i \notin res
        /\ Become(OnServe(NoteMiss(State, i, Size[i]), i))
    BY <1>3, <2>1 DEF ServeRaw
  <2>3. i \in Tensors /\ Tail(pull) \in Seq(Tensors) /\ Size[i] \in Int
    BY <1>0, <2>1, <2>2, CacheConstants DEF Tensors
  <2>4. PICK t : t = NoteMiss(State, i, Size[i]) /\ Accounted(t, {}) /\ t.res = res
    BY <1>0, <2>3, NoteKeeps
  <2>5. Accounted(OnServe(t, i), {})
    BY <1>0, <2>2, <2>3, <2>4, ServeKeeps
  <2>6. Accounted(State, {})'
    BY <2>2, <2>4, <2>5, BecomesAccounted
  <2> QED
    BY <1>0, <2>2, <2>3, <2>6 DEF CacheInv
<1>4. ASSUME ServeDelta PROVE CacheInv'
  <2>1. PICK i, b, bytes : /\ i = Head(pull) /\ b = BaseOf[i]
          /\ bytes = DeltaSize[i] + (IF b \in res \union fetched THEN 0 ELSE Size[b])
    OBVIOUS
  <2>2. /\ pull # <<>> /\ pull' = Tail(pull) /\ UNCHANGED <<policy, cap, pins>> /\ i \notin res
        /\ b # RawItem
        /\ Become(OnServe(NoteMiss(BaseStep(State, b), i, bytes), i))
    BY <1>4, <2>1 DEF ServeDelta
  <2>3. i \in Tensors /\ Tail(pull) \in Seq(Tensors)
    BY <1>0, <2>1, <2>2
  <2>4. b \in Tensors /\ b # i /\ bytes \in Int
    <3>1. BaseOf[i] = RawItem \/ BaseOf[i] \in Tensors \ {i}
      BY <2>3, CacheConstants DEF Tensors
    <3>2. b \in Tensors /\ b # i
      BY <2>1, <2>2, <3>1
    <3>3. DeltaSize[i] \in Nat /\ Size[b] \in Nat
      BY <2>3, <3>2, CacheConstants DEF Tensors
    <3> QED
      BY <2>1, <3>2, <3>3
  <2>5. PICK a : a = BaseStep(State, b) /\ Accounted(a, {}) /\ a.res \subseteq res \union {b}
    BY <1>0, <2>4, BaseKeeps
  <2>6. PICK t : t = NoteMiss(a, i, bytes) /\ Accounted(t, {}) /\ t.res = a.res
    BY <2>3, <2>4, <2>5, NoteKeeps
  <2>7. i \notin t.res
    BY <2>2, <2>4, <2>5, <2>6
  <2>8. Accounted(OnServe(t, i), {})
    BY <1>0, <2>3, <2>6, <2>7, ServeKeeps
  <2>9. Accounted(State, {})'
    BY <2>2, <2>5, <2>6, <2>8, BecomesAccounted
  <2> QED
    BY <1>0, <2>2, <2>3, <2>9 DEF CacheInv
<1>5. CASE UNCHANGED simulation
  <2>1. Become(State) /\ UNCHANGED <<policy, cap, pins>> /\ pull' = pull
    BY <1>5 DEF simulation, Become, State
  <2>2. Accounted(State, {})'
    BY <1>0, <2>1, BecomesAccounted
  <2> QED
    BY <1>0, <2>1, <2>2 DEF CacheInv
<1> QED
  BY <1>1, <1>2, <1>3, <1>4, <1>5 DEF CacheNext

\* The invariant says of the cache what the run checks.
LEMMA AccountedFits == CacheInv => CachesFitTheirBudget
<1> SUFFICES ASSUME CacheInv PROVE CachesFitTheirBudget
  OBVIOUS
<1>1. Accounted(State, {})
  BY DEF CacheInv
<1>2. State.used = used /\ State.res = res /\ State.order = order /\ State.heap = heap /\ State.pri = pri
  BY DEF State
<1>3. used = BytesOf(res) /\ used <= cap /\ res \ pins \subseteq FiledIn(State)
  BY <1>1, <1>2 DEF Accounted
<1>4. FiledIn(State) = Filed
  <2>1. CASE policy = "gdsf"
    BY <1>2, <2>1 DEF FiledIn, Filed
  <2>2. CASE policy = "recon"
    BY <1>2, <2>2 DEF FiledIn, Filed
  <2>3. CASE policy \notin {"gdsf", "recon"}
    BY <1>2, <2>3 DEF FiledIn, Filed
  <2> QED
    BY <2>1, <2>2, <2>3
<1> QED
  BY <1>3, <1>4 DEF CachesFitTheirBudget

\* Whatever the trace, sizes and capacity: each policy counts the bytes of what
\* is resident, stays within its capacity, and can still evict every tensor that
\* is not pinned (fig1_sim.py 128-138, 161-167, 207-216, 235-241, 287-298).
THEOREM CachesFit == CacheSpec => []CachesFitTheirBudget
<1>1. CacheSpec => []CacheInv
  BY CacheStarts, CacheGoesOn, PTL DEF CacheSpec
<1> QED
  BY <1>1, AccountedFits, PTL

-----------------------------------------------------------------------------
(* Least numbers, and what absorbing does to numbers. *)

\* The least of some numbers, the first one of them where there are more.
LEMMA FirstLeastIs ==
    ASSUME NEW S, IsFiniteSet(S), S # {}, S \subseteq Int, NEW f \in [S -> Int]
    PROVE  FirstLeast(f) \in S /\ \A y \in S : f[FirstLeast(f)] <= f[y]
<1> DEFINE First(x, u) == x \in u /\ \A y \in u : f[x] < f[y] \/ (f[x] = f[y] /\ x <= y)
           P == {u \in SUBSET S : u = {} \/ \E x \in u : First(x, u)}
<1>1. {} \in P
  OBVIOUS
<1>2. ASSUME NEW u \in SUBSET S, NEW z \in S \ u, u \in P PROVE u \union {z} \in P
  <2>1. CASE u = {}
    <3>1. First(z, u \union {z})
      BY <2>1
    <3> QED BY <3>1
  <2>2. CASE u # {}
    <3>1. PICK x \in u : First(x, u)
      BY <1>2, <2>2
    <3>2. x \in Int /\ z \in Int /\ f[x] \in Int /\ f[z] \in Int
      OBVIOUS
    <3>3. ASSUME NEW y \in u PROVE y \in Int /\ f[y] \in Int
      OBVIOUS
    <3>4. CASE f[x] < f[z] \/ (f[x] = f[z] /\ x <= z)
      <4>1. First(x, u \union {z})
        BY <3>1, <3>4
      <4> QED BY <4>1
    <3>5. CASE f[z] < f[x] \/ (f[x] = f[z] /\ z < x)
      <4>1. \A y \in u : f[z] < f[y] \/ (f[z] = f[y] /\ z <= y)
        BY <3>1, <3>2, <3>3, <3>5
      <4>2. First(z, u \union {z})
        BY <4>1, <3>2
      <4> QED BY <4>2
    <3> QED BY <3>2, <3>4, <3>5
  <2> QED BY <2>1, <2>2
<1>3. S \in P
  <2> HIDE DEF P
  <2> QED BY <1>1, <1>2, SetInduction
<1>4. PICK x \in S : First(x, S)
  BY <1>3
<1>5. First(FirstLeast(f), S)
  <2>1. DOMAIN f = S
    OBVIOUS
  <2> QED BY <1>4, <2>1 DEF FirstLeast
<1>6. PICK z \in S : z = FirstLeast(f) /\ f[z] \in Int
  BY <1>5
<1>7. ASSUME NEW y \in S PROVE f[z] <= f[y]
  <2>1. f[y] \in Int /\ (f[z] < f[y] \/ f[z] = f[y])
    BY <1>5, <1>6
  <2> QED BY <1>6, <2>1
<1> QED BY <1>6, <1>7

\* The least of some numbers.
LEMMA LeastIs ==
    ASSUME NEW S, IsFiniteSet(S), S # {}, S \subseteq Int
    PROVE  Min(S) \in S /\ \A y \in S : Min(S) <= y
<1>1. PICK f \in [S -> Int] : \A x \in S : f[x] = x
  <2>1. [x \in S |-> x] \in [S -> Int]
    OBVIOUS
  <2> QED BY <2>1
<1>2. FirstLeast(f) \in S /\ \A y \in S : FirstLeast(f) <= y
  BY <1>1, FirstLeastIs
<1> QED BY <1>2 DEF Min

\* Which multiple of b is just below a.
LEMMA DivIs ==
    ASSUME NEW a \in Int, NEW b \in Nat \ {0}
    PROVE  /\ a \div b \in Int /\ (a \div b) * b \in Int
           /\ (a \div b) * b <= a /\ a < (a \div b) * b + b
           /\ \A q \in Int : q * b <= a /\ a < q * b + b => a \div b = q
<1>1. /\ a \div b \in Int /\ (a \div b) * b \in Int
      /\ (a \div b) * b <= a /\ a < (a \div b) * b + b
  OBVIOUS
<1>2. ASSUME NEW q \in Int, q * b <= a, a < q * b + b PROVE a \div b = q
  <2>1. PICK d \in Int : d = a \div b
    BY <1>1
  <2>2. d * b <= a /\ a < d * b + b /\ d * b \in Int /\ q * b \in Int
    BY <1>1, <2>1
  <2>3. ~(d < q)
    <3> SUFFICES ASSUME d + 1 <= q PROVE FALSE
      OBVIOUS
    <3>1. (d + 1) * b <= q * b /\ (d + 1) * b = d * b + b
      OBVIOUS
    <3> QED BY <1>2, <2>2, <3>1
  <2>4. ~(q < d)
    <3> SUFFICES ASSUME q + 1 <= d PROVE FALSE
      OBVIOUS
    <3>1. (q + 1) * b <= d * b /\ (q + 1) * b = q * b + b
      OBVIOUS
    <3> QED BY <1>2, <2>2, <3>1
  <2> QED BY <2>1, <2>3, <2>4
<1> QED BY <1>1, <1>2

\* The half of Big.
LEMMA HalfOfBig ==
    Big \in Nat \ {0} /\ Big \div 2 \in Nat \ {0} /\ Big = 2 * (Big \div 2)
BY FacilityConstants

\* What absorbing does to the numbers that are not small: the multiple of Big.
LEMMA AbsorbedLarge ==
    ASSUME NEW x \in Int, x >= Big \div 2
    PROVE  \E q \in Nat \ {0} : /\ Absorbed(x) = q * Big /\ q * Big \in Nat /\ q * Big >= Big
                                /\ Absorbed(q * Big) = q * Big /\ Absorbed(-(q * Big)) = -(q * Big)
                                /\ q * Big <= x + Big \div 2 /\ x + Big \div 2 < q * Big + Big
                                /\ Absorbed(-x) = -(q * Big)
<1>1. PICK b \in Nat \ {0}, h \in Nat \ {0} : b = Big /\ h = Big \div 2 /\ b = 2 * h
  BY HalfOfBig
<1>2. \A y \in Int : Absorbed(y) = IF y >= h THEN ((y + h) \div b) * b
                                   ELSE IF y <= -h THEN -(((h - y) \div b) * b) ELSE y
  BY <1>1 DEF Absorbed
<1>3. PICK q \in Int : q = (x + h) \div b
  BY DivIs
<1>4. q * b \in Int /\ q * b <= x + h /\ x + h < q * b + b
  BY <1>3, DivIs
<1>5. q >= 1
  <2> SUFFICES ASSUME q <= 0 PROVE FALSE
    OBVIOUS
  <2>1. q * b <= 0
    OBVIOUS
  <2> QED BY <1>1, <1>4, <2>1
<1>6. q * b >= b
  <2>1. (q - 1) * b >= 0 /\ (q - 1) * b = q * b - b
    BY <1>5
  <2> QED BY <1>4, <2>1
<1>7. Absorbed(x) = q * b
  BY <1>1, <1>2, <1>3
<1>8. PICK z \in Int : z = q * b
  BY <1>4
<1>9. (z + h) \div b = q
  BY <1>1, <1>8, DivIs
<1>10. Absorbed(z) = ((z + h) \div b) * b /\ Absorbed(-z) = -(((h - (-z)) \div b) * b)
  <2>1. z >= h /\ ~(-z >= h) /\ -z <= -h /\ -z \in Int
    BY <1>1, <1>6, <1>8
  <2> QED BY <1>2, <2>1
<1>11. h - (-z) = z + h
  OBVIOUS
<1>12. Absorbed(-x) = -(((h - (-x)) \div b) * b)
  <2>1. ~(-x >= h) /\ -x <= -h /\ -x \in Int
    BY <1>1
  <2> QED BY <1>2, <2>1
<1>13. h - (-x) = x + h
  OBVIOUS
<1> QED BY <1>1, <1>3, <1>4, <1>5, <1>6, <1>7, <1>8, <1>9, <1>10, <1>11, <1>12, <1>13

\* Absorbing keeps what is small, signs, and what it gave.
LEMMA AbsorbedIs ==
    ASSUME NEW x \in Int
    PROVE  /\ Absorbed(x) \in Int
           /\ (x < Big \div 2 /\ -(Big \div 2) < x) => Absorbed(x) = x
           /\ x >= 0 => Absorbed(x) >= 0
           /\ x < 0 => Absorbed(x) < 0
           /\ x <= -Big => Absorbed(x) <= -Big
           /\ Absorbed(Absorbed(x)) = Absorbed(x)
<1>1. PICK h \in Nat \ {0} : h = Big \div 2 /\ Big = 2 * h /\ Big \in Nat \ {0}
  BY HalfOfBig
<1>2. CASE x >= h
  BY <1>1, <1>2, AbsorbedLarge
<1>3. CASE x <= -h
  <2>1. PICK y \in Int : y = -x /\ y >= h /\ x = -y
    BY <1>3
  <2>2. PICK q \in Nat \ {0} : /\ Absorbed(-y) = -(q * Big) /\ q * Big \in Nat /\ q * Big >= Big
                               /\ Absorbed(-(q * Big)) = -(q * Big)
    BY <1>1, <2>1, AbsorbedLarge
  <2> QED BY <1>1, <1>3, <2>1, <2>2
<1>4. CASE x < h /\ -h < x
  <2>1. Absorbed(x) = x
    BY <1>1, <1>4 DEF Absorbed
  <2> QED BY <1>1, <1>4, <2>1
<1> QED BY <1>2, <1>3, <1>4

\* Two large numbers keep their order.
LEMMA LargeKeepOrder ==
    ASSUME NEW x \in Int, NEW y \in Int, Big \div 2 <= x, x <= y
    PROVE  Absorbed(x) <= Absorbed(y) /\ Absorbed(-y) <= Absorbed(-x)
<1>1. PICK h \in Nat \ {0} : h = Big \div 2 /\ Big \in Nat \ {0}
  BY HalfOfBig
<1>2. y >= Big \div 2
  BY <1>1
<1>3. PICK q \in Nat \ {0} : /\ Absorbed(x) = q * Big /\ q * Big \in Nat /\ Absorbed(-x) = -(q * Big)
                             /\ q * Big <= x + Big \div 2
  BY AbsorbedLarge
<1>4. PICK r \in Nat \ {0} : /\ Absorbed(y) = r * Big /\ r * Big \in Nat /\ Absorbed(-y) = -(r * Big)
                             /\ y + Big \div 2 < r * Big + Big
  BY <1>2, AbsorbedLarge
<1>5. q <= r
  <2> SUFFICES ASSUME r + 1 <= q PROVE FALSE
    OBVIOUS
  <2>1. (r + 1) * Big <= q * Big /\ (r + 1) * Big = r * Big + Big
    BY <1>1
  <2> QED BY <1>1, <1>3, <1>4, <2>1
<1>6. q * Big <= r * Big
  BY <1>1, <1>5
<1> QED BY <1>3, <1>4, <1>6

\* Absorbing keeps the order.
LEMMA AbsorbedGrows ==
    ASSUME NEW x \in Int, NEW y \in Int, x <= y
    PROVE  Absorbed(x) <= Absorbed(y)
<1>1. PICK h \in Nat \ {0} : h = Big \div 2 /\ Big = 2 * h /\ Big \in Nat \ {0}
  BY HalfOfBig
<1>2. CASE h <= x
  BY <1>1, <1>2, LargeKeepOrder
<1>3. CASE y <= -h
  <2>1. PICK u \in Int, v \in Int : u = -y /\ v = -x /\ y = -u /\ x = -v /\ h <= u /\ u <= v
    BY <1>3
  <2> QED BY <1>1, <2>1, LargeKeepOrder
<1>4. CASE x < h /\ -h < y
  <2>1. (x <= -h /\ Absorbed(x) <= -Big) \/ Absorbed(x) = x
    <3>1. CASE x <= -h
      <4>1. PICK u \in Int : u = -x /\ x = -u /\ h <= u
        BY <3>1
      <4>2. PICK q \in Nat \ {0} : Absorbed(-u) = -(q * Big) /\ q * Big \in Nat /\ q * Big >= Big
        BY <1>1, <4>1, AbsorbedLarge
      <4> QED BY <1>1, <3>1, <4>1, <4>2
    <3>2. CASE -h < x
      BY <1>1, <1>4, <3>2, AbsorbedIs
    <3> QED BY <1>1, <3>1, <3>2
  <2>2. (y >= h /\ Absorbed(y) >= Big) \/ Absorbed(y) = y
    <3>1. CASE y >= h
      <4>1. PICK q \in Nat \ {0} : Absorbed(y) = q * Big /\ q * Big \in Nat /\ q * Big >= Big
        BY <1>1, <3>1, AbsorbedLarge
      <4> QED BY <3>1, <4>1
    <3>2. CASE y < h
      BY <1>1, <1>4, <3>2, AbsorbedIs
    <3> QED BY <1>1, <3>1, <3>2
  <2>3. Absorbed(x) \in Int /\ Absorbed(y) \in Int
    BY AbsorbedIs
  <2> QED BY <1>1, <1>4, <2>1, <2>2, <2>3
<1> QED BY <1>1, <1>2, <1>3, <1>4

-----------------------------------------------------------------------------
(* Sequences put in order, and sums. *)

\* A sequence whose elements rise.
Rising(s) == \A k, l \in DOMAIN s : k < l => s[k] < s[l]

\* Putting a sequence of distinct numbers in order.
LEMMA InOrderIs ==
    ASSUME NEW S, S \subseteq Int, NEW B \in Seq(S), Distinct(B)
    PROVE  /\ InOrder(B) \in Seq(S) /\ DOMAIN InOrder(B) = DOMAIN B
           /\ Range(InOrder(B)) = Range(B) /\ Rising(InOrder(B))
<1>0. PICK n \in Nat : n = Len(B) /\ DOMAIN B = 1 .. n
  OBVIOUS
<1>1. DOMAIN B = 1 .. n /\ \A k \in 1 .. n : B[k] \in S /\ B[k] \in Int
  <2>1. \A k \in 1 .. n : B[k] \in S
    BY <1>0
  <2> QED BY <1>0, <2>1
<1>2. \A j, k \in 1 .. n : B[j] = B[k] => j = k
  BY <1>0 DEF Distinct
<1> DEFINE D == 1 .. n
           Below(k) == {j \in D : B[j] <= B[k]}
           f == [k \in D |-> Cardinality(Below(k))]
<1>3. IsFiniteSet(D) /\ Cardinality(D) = n
  <2>1. 1 \in Int /\ n \in Int
    OBVIOUS
  <2>2. IsFiniteSet(1 .. n) /\ Cardinality(1 .. n) = IF 1 > n THEN 0 ELSE n - 1 + 1
    BY <2>1, FS_Interval
  <2> QED BY <2>2
<1>4. ASSUME NEW k \in D
      PROVE  /\ IsFiniteSet(Below(k)) /\ Cardinality(Below(k)) \in D /\ k \in Below(k)
  <2>1. IsFiniteSet(Below(k)) /\ Cardinality(Below(k)) \in Nat /\ Cardinality(Below(k)) <= n
    BY <1>3, FS_Subset, FS_CardinalityType
  <2>2. k \in Below(k)
    BY <1>1
  <2>3. Cardinality(Below(k)) # 0
    BY <2>1, <2>2, FS_EmptySet
  <2> QED BY <2>1, <2>2, <2>3
<1>5. ASSUME NEW j \in D, NEW k \in D, B[j] < B[k] PROVE f[j] < f[k]
  <2>1. Below(j) \subseteq Below(k) /\ k \notin Below(j)
    BY <1>1, <1>5
  <2>2. Below(j) \in SUBSET Below(k) /\ Below(j) # Below(k)
    BY <1>4, <2>1
  <2>3. Cardinality(Below(j)) <= Cardinality(Below(k))
        /\ (Cardinality(Below(j)) = Cardinality(Below(k)) => Below(j) = Below(k))
    BY <1>4, <2>2, FS_Subset
  <2>4. Cardinality(Below(j)) \in Int /\ Cardinality(Below(k)) \in Int
    <3>1. Cardinality(Below(j)) \in D /\ Cardinality(Below(k)) \in D
      BY <1>4
    <3> HIDE DEF Below
    <3> QED BY <3>1
  <2>5. Cardinality(Below(j)) < Cardinality(Below(k))
    <3> HIDE DEF Below
    <3> QED BY <2>2, <2>3, <2>4
  <2> QED BY <2>5
<1>6. f \in [D -> D]
  BY <1>4
<1> HIDE DEF f, Below
<1>7. \A j, k \in D : f[j] = f[k] => j = k
  <2> SUFFICES ASSUME NEW j \in D, NEW k \in D, f[j] = f[k] PROVE j = k
    OBVIOUS
  <2>1. ~(B[j] < B[k]) /\ ~(B[k] < B[j])
    BY <1>5, <1>6
  <2>2. B[j] = B[k]
    BY <1>1, <2>1
  <2> QED BY <1>2, <2>2
<1>8. f \in Injection(D, D)
  BY <1>6, <1>7 DEF Injection, IsInjective
<1>9. f \in Surjection(D, D)
  BY <1>3, <1>8, FS_Injection
<1>10. \A r \in D : \E k \in D : f[k] = r
  BY <1>9 DEF Surjection
<1> DEFINE g == [r \in D |-> CHOOSE k \in D : f[k] = r]
<1>11. g \in [D -> D] /\ \A r \in D : f[g[r]] = r
  BY <1>10
<1> HIDE DEF g
<1>12. g \in Injection(D, D)
  <2>1. \A r, t \in D : g[r] = g[t] => r = t
    BY <1>11
  <2> QED BY <1>11, <2>1 DEF Injection, IsInjective
<1>13. \A k, l \in D : k < l => B[g[k]] <= B[g[l]]
  <2> SUFFICES ASSUME NEW k \in D, NEW l \in D, k < l PROVE B[g[k]] <= B[g[l]]
    OBVIOUS
  <2>1. ~(B[g[l]] < B[g[k]])
    <3>1. B[g[l]] < B[g[k]] => f[g[l]] < f[g[k]]
      BY <1>5, <1>11
    <3>2. f[g[l]] = l /\ f[g[k]] = k /\ ~(l < k)
      BY <1>11
    <3> QED BY <3>1, <3>2
  <2> QED BY <1>1, <1>11, <2>1
<1> DEFINE Good(p) == \A k, l \in DOMAIN B : k < l => B[p[k]] <= B[p[l]]
<1>14. PICK p \in Injection(D, D) : Good(p) /\ InOrder(B) = [k \in D |-> B[p[k]]]
  <2>1. \E p \in Injection(DOMAIN B, DOMAIN B) : Good(p)
    BY <1>1, <1>12, <1>13
  <2>2. PICK p : p = CHOOSE q \in Injection(DOMAIN B, DOMAIN B) : Good(q)
    OBVIOUS
  <2>3. p \in Injection(DOMAIN B, DOMAIN B) /\ Good(p)
    BY <2>1, <2>2
  <2>4. InOrder(B) = [k \in DOMAIN B |-> B[p[k]]]
    BY <2>2 DEF InOrder
  <2> QED BY <1>1, <2>3, <2>4
<1>15. p \in [D -> D] /\ \A j, k \in D : p[j] = p[k] => j = k
  BY <1>14 DEF Injection, IsInjective
<1>16. \A r \in D : \E k \in D : p[k] = r
  <2>1. p \in Surjection(D, D)
    BY <1>3, <1>14, FS_Injection
  <2> QED BY <2>1 DEF Surjection
<1>17. InOrder(B) \in Seq(S) /\ DOMAIN InOrder(B) = DOMAIN B
  BY <1>1, <1>14, <1>15
<1>18. Range(InOrder(B)) = Range(B)
  <2>1. \A k \in D : InOrder(B)[k] = B[p[k]]
    BY <1>14
  <2>2. Range(InOrder(B)) \subseteq Range(B)
    BY <1>1, <1>15, <1>17, <2>1 DEF Range
  <2>3. ASSUME NEW r \in D PROVE B[r] \in Range(InOrder(B))
    <3>1. PICK k \in D : p[k] = r
      BY <1>16
    <3> QED BY <1>1, <1>17, <2>1, <3>1 DEF Range
  <2>4. Range(B) \subseteq Range(InOrder(B))
    BY <1>1, <2>3 DEF Range
  <2> QED BY <2>2, <2>4
<1>19. Rising(InOrder(B))
  <2> SUFFICES ASSUME NEW k \in D, NEW l \in D, k < l PROVE InOrder(B)[k] < InOrder(B)[l]
    BY <1>1, <1>17 DEF Rising
  <2>0. p[k] \in D /\ p[l] \in D /\ p[k] # p[l]
    BY <1>15
  <2>1. B[p[k]] <= B[p[l]] /\ B[p[k]] # B[p[l]]
    <3>1. B[p[k]] <= B[p[l]]
      BY <1>1, <1>14
    <3> QED BY <1>2, <2>0, <3>1
  <2>2. B[p[k]] \in Int /\ B[p[l]] \in Int
    BY <1>1, <1>15
  <2> QED BY <1>14, <2>1, <2>2
<1> QED BY <1>17, <1>18, <1>19

\* A listing of a finite set of numbers, from the least on.
LEMMA SortedItemsAre ==
    ASSUME NEW S, S \subseteq Int, IsFiniteSet(S)
    PROVE  SortedItems(S) \in Seq(S) /\ Range(SortedItems(S)) = S /\ Rising(SortedItems(S))
<1>1. PICK n \in Nat : n = Cardinality(S)
  BY FS_CardinalityType
<1>2. PICK g : g \in Bijection(1 .. n, S)
  BY <1>1, FS_CardinalityType DEF ExistsBijection
<1>3. PICK s \in [1 .. n -> S] : s = SetToSeq(S) /\ IsInjective(s)
  <2>1. g \in [1 .. n -> S] /\ IsInjective(g)
    BY <1>2 DEF Bijection, Injection
  <2> QED BY <1>1, <2>1 DEF SetToSeq
<1>4. s \in Seq(S) /\ Len(s) = n /\ DOMAIN s = 1 .. n
  BY <1>1
<1>5. Distinct(s)
  BY <1>3, <1>4 DEF Distinct, IsInjective
<1>6. Range(s) = S
  <2>1. s \in Injection(1 .. n, S)
    BY <1>3 DEF Injection
  <2>2. IsFiniteSet(1 .. n) /\ Cardinality(1 .. n) = n
    <3>1. 1 \in Int /\ n \in Int
      OBVIOUS
    <3>2. IsFiniteSet(1 .. n) /\ Cardinality(1 .. n) = IF 1 > n THEN 0 ELSE n - 1 + 1
      BY <3>1, FS_Interval
    <3> QED BY <3>2
  <2>3. s \in Surjection(1 .. n, S)
    BY <1>1, <2>1, <2>2, FS_Injection
  <2> QED BY <1>4, <2>3 DEF Surjection, Range
<1> QED BY <1>3, <1>4, <1>5, <1>6, InOrderIs DEF SortedItems

\* The sum of numbers.
LEMMA SummedIs ==
    ASSUME NEW S, IsFiniteSet(S), NEW f \in [S -> Int]
    PROVE  /\ Summed(f) = SumOf(f, S) /\ Summed(f) \in Int
           /\ (\A x \in S : f[x] >= 0) => Summed(f) >= 0
           /\ (\A x \in S : f[x] <= 0) => Summed(f) <= 0 /\ \A c \in S : Summed(f) <= f[c]
<1>1. Numbers(f, S) /\ DOMAIN f = S
  BY DEF Numbers
<1>2. Summed(f) = SumOf(f, S) /\ Summed(f) \in Int
  <2>1. MapThenSumSet(LAMBDA x : f[x], S) = SumOf(f, S)
    BY <1>1, TotalOf
  <2>2. SumOf(f, S) \in Int
    BY <1>1, SumFacts
  <2>3. Summed(f) = MapThenSumSet(LAMBDA x : f[x], S)
    BY <1>1 DEF Summed
  <2> QED BY <2>1, <2>2, <2>3
<1>3. PICK z : z = [x \in S |-> 0]
  OBVIOUS
<1>4. Numbers(z, S)
  BY <1>3 DEF Numbers
<1>5. SumOf(z, S) = 0
  <2>1. \A x \in S : z[x] = z[x] + z[x]
    BY <1>3
  <2>2. SumOf(z, S) = SumOf(z, S) + SumOf(z, S)
    BY <1>4, <2>1, SumsCompare
  <2>3. SumOf(z, S) \in Int
    BY <1>4, SumFacts
  <2>4. PICK n \in Int : n = SumOf(z, S)
    BY <2>3
  <2>5. n = n + n
    BY <2>2, <2>4
  <2>6. n = 0
    BY <2>5
  <2> QED BY <2>4, <2>6
<1>6. ASSUME \A x \in S : f[x] >= 0 PROVE Summed(f) >= 0
  <2>1. \A x \in S : z[x] <= f[x]
    BY <1>3, <1>6
  <2>2. SumOf(z, S) <= SumOf(f, S)
    BY <1>1, <1>4, <2>1, SumsCompare
  <2> QED BY <1>2, <1>5, <2>2
<1>7. ASSUME \A x \in S : f[x] <= 0 PROVE Summed(f) <= 0
  <2>1. \A x \in S : f[x] <= z[x]
    BY <1>3, <1>7
  <2>2. SumOf(f, S) <= SumOf(z, S)
    BY <1>1, <1>4, <2>1, SumsCompare
  <2> QED BY <1>2, <1>5, <2>2
<1>8. ASSUME \A x \in S : f[x] <= 0, NEW c \in S PROVE Summed(f) <= f[c]
  <2>1. PICK g : g = [x \in S |-> IF x = c THEN f[c] ELSE 0]
    OBVIOUS
  <2>2. Numbers(g, S) /\ \A x \in S : f[x] <= g[x]
    BY <1>8, <2>1 DEF Numbers
  <2>3. SumOf(f, S) <= SumOf(g, S)
    BY <1>1, <2>2, SumsCompare
  <2>4. SumOf(g, S) = SumOf(g, S \ {c}) + g[c]
    BY <2>2, SumFacts
  <2>5. PICK T : T = S \ {c} /\ IsFiniteSet(T)
    BY FS_Subset
  <2>6. Numbers(g, T) /\ Numbers(z, T) /\ \A x \in T : g[x] <= z[x]
    BY <1>3, <2>1, <2>5 DEF Numbers
  <2>7. SumOf(g, T) <= SumOf(z, T) /\ SumOf(g, T) \in Int /\ SumOf(z, T) \in Int
    BY <2>5, <2>6, SumsCompare, SumFacts
  <2>8. SumOf(z, S) = SumOf(z, S \ {c}) + z[c] /\ z[c] = 0
    BY <1>3, <1>4, SumFacts
  <2>9. SumOf(z, T) = 0
    BY <1>5, <2>5, <2>7, <2>8
  <2>10. g[c] = f[c] /\ f[c] \in Int
    BY <2>1
  <2> QED BY <1>2, <2>3, <2>4, <2>5, <2>7, <2>9, <2>10
<1> QED BY <1>2, <1>6, <1>7, <1>8

-----------------------------------------------------------------------------
(* The local search: what it knows of each item. *)

\* What is assumed of the cost of a pair.
LEMMA PairCostIs ==
    ASSUME NEW p, ProblemFits(p), NEW i \in Items(p), NEW b \in Items(p)
    PROVE  PairCost(p, i, b) \in Nat /\ (PairCost(p, i, b) < Big \div 2 \/ PairCost(p, i, b) >= Big)
<1>1. <<i, b>> \in Items(p) \X Items(p)
  OBVIOUS
<1> HIDE DEF Items
<1>2. p.cost[i, b] \in Nat /\ (p.cost[i, b] < Big \div 2 \/ p.cost[i, b] >= Big)
  BY <1>1 DEF ProblemFits
<1> QED BY <1>2, Zenon DEF PairCost

\* What connecting an item to a base costs.
LEMMA ConnectIs ==
    ASSUME NEW p, ProblemFits(p), NEW i \in Items(p), NEW b \in Items(p)
    PROVE  /\ Connect(p, i, b) \in Nat
           /\ Connect(p, i, b) < Big \div 2 \/ Connect(p, i, b) >= Big
           /\ Connect(p, i, i) = 0
<1>1. PairCost(p, i, b) \in Nat /\ (PairCost(p, i, b) < Big \div 2 \/ PairCost(p, i, b) >= Big)
  BY PairCostIs
<1>2. 0 < Big \div 2 /\ 0 \in Nat
  BY HalfOfBig
<1> QED BY <1>1, <1>2 DEF Connect

\* What a base costs to open.
LEMMA OpenIs ==
    ASSUME NEW p, ProblemFits(p), NEW b \in Items(p)
    PROVE  p.open[b] \in Nat /\ p.open[b] < Big \div 2
<1>1. PICK h \in Nat : h = Big \div 2
  BY HalfOfBig
<1>2. p.open[b] \in 0 .. h - 1
  BY <1>1 DEF ProblemFits
<1> QED BY <1>1, <1>2

\* The bases an item can go to, as the local search sees them.
LEMMA SearchIs ==
    ASSUME NEW p, ProblemFits(p), NEW B \in Seq(Items(p)), NEW i \in Items(p),
           NEW x, x = SearchState(p, B)[i]
    PROVE  /\ x.at \in {0} \union DOMAIN B
           /\ x.cur \in Nat /\ x.second \in Nat
           /\ x.cur <= x.second /\ x.cur <= Big /\ x.second <= Big
           /\ \A k \in DOMAIN B : /\ x.cur <= Connect(p, i, B[k])
                                  /\ k # x.at => x.second <= Connect(p, i, B[k])
           /\ x.at # 0 => x.cur = Connect(p, i, B[x.at]) /\ x.cur < Big
           /\ x.at = 0 => x.cur = Big
<1>0. PICK big \in Nat \ {0} : big = Big
  BY HalfOfBig
<1>1. PICK n \in Nat : n = Len(B) /\ DOMAIN B = 1 .. n
  OBVIOUS
<1>2. PICK c \in [1 .. n -> Nat] : \A k \in 1 .. n : c[k] = Connect(p, i, B[k])
  <2>1. \A k \in 1 .. n : Connect(p, i, B[k]) \in Nat
    BY <1>1, ConnectIs
  <2>2. [k \in 1 .. n |-> Connect(p, i, B[k])] \in [1 .. n -> Nat]
    BY <2>1
  <2> QED BY <2>2
<1>3. PICK N \in SUBSET (1 .. n) : N = {k \in 1 .. n : c[k] < big}
  OBVIOUS
<1>3a. PICK near : near = [k \in N |-> c[k]]
  OBVIOUS
<1>4. [k \in {k \in DOMAIN B : Connect(p, i, B[k]) < Big} |-> Connect(p, i, B[k])] = near
  <2>1. {k \in DOMAIN B : Connect(p, i, B[k]) < Big} = N
    BY <1>0, <1>1, <1>2, <1>3, <1>3a
  <2>2. [k \in N |-> Connect(p, i, B[k])] = [k \in N |-> c[k]]
    BY <1>2
  <2> QED BY <1>3, <1>3a, <2>1, <2>2
<1>5. PICK at : at = IF N = {} THEN 0 ELSE FirstLeast(near)
  OBVIOUS
<1>6. PICK T : T = {big} \union {c[k] : k \in 1 .. n \ {at}}
  OBVIOUS
<1>7. /\ x.at = at
      /\ x.cur = IF at = 0 THEN big ELSE near[at]
      /\ x.second = Min(T)
  <2>1. DOMAIN near = N
    BY <1>3, <1>3a
  <2>2. {Connect(p, i, B[k]) : k \in DOMAIN B \ {at}} = {c[k] : k \in 1 .. n \ {at}}
    BY <1>1, <1>2
  <2> DEFINE Rest(a) == {Connect(p, i, B[k]) : k \in DOMAIN B \ {a}}
             Seen(cs) == LET a == IF DOMAIN cs = {} THEN 0 ELSE FirstLeast(cs)
                          IN [at |-> a, cur |-> IF a = 0 THEN Big ELSE cs[a],
                              second |-> Min({Big} \union Rest(a))]
  <2>4. x = Seen([k \in {k \in DOMAIN B : Connect(p, i, B[k]) < Big} |-> Connect(p, i, B[k])])
    BY DEF SearchState
  <2>5. x = Seen(near)
    <3> HIDE DEF Seen
    <3> QED BY <1>4, <2>4
  <2>6. {Big} \union Rest(at) = T
    BY <1>0, <1>6, <2>2
  <2>3. x = [at |-> at, cur |-> IF at = 0 THEN big ELSE near[at], second |-> Min(T)]
    <3> HIDE DEF Rest
    <3> QED BY <1>0, <1>5, <2>1, <2>5, <2>6
  <2> QED BY <2>3
<1>8. IsFiniteSet(1 .. n)
  <2>1. 1 \in Int /\ n \in Int
    OBVIOUS
  <2> QED BY <2>1, FS_Interval
<1>9. /\ at \in {0} \union 1 .. n
      /\ at # 0 => at \in N /\ \A k \in N : c[at] <= c[k]
      /\ at = 0 => N = {}
  <2>1. CASE N = {}
    BY <1>5, <2>1
  <2>2. CASE N # {}
    <3>1. IsFiniteSet(N) /\ N \subseteq Int /\ near \in [N -> Int]
      BY <1>3, <1>3a, <1>8, FS_Subset
    <3>2. FirstLeast(near) \in N /\ \A y \in N : near[FirstLeast(near)] <= near[y]
      BY <2>2, <3>1, FirstLeastIs
    <3>3. at = FirstLeast(near)
      BY <1>5, <2>2
    <3>4. at \in N /\ at # 0 /\ \A y \in N : near[at] <= near[y]
      BY <3>2, <3>3
    <3> QED BY <1>3, <1>3a, <3>4
  <2> QED BY <2>1, <2>2
<1>10. Min(T) \in T /\ \A y \in T : Min(T) <= y
  <2>1. PICK D, g : D = 1 .. n \ {at} /\ g = [k \in D |-> c[k]]
    OBVIOUS
  <2>2. IsFiniteSet(D)
    BY <1>8, <2>1, FS_Subset
  <2>3. g \in Surjection(D, {c[k] : k \in D})
    BY <2>1 DEF Surjection
  <2>4. IsFiniteSet({c[k] : k \in D})
    BY <2>2, <2>3, FS_Surjection
  <2>5. IsFiniteSet({c[k] : k \in D} \union {big}) /\ {c[k] : k \in D} \union {big} = T
    BY <1>6, <2>1, <2>4, FS_AddElement
  <2>6. T \subseteq Int /\ T # {}
    BY <1>6
  <2> QED BY <2>5, <2>6, LeastIs
<1>11. x.cur \in Nat /\ x.cur <= big /\ (at # 0 => x.cur = c[at] /\ x.cur < big)
  BY <1>3, <1>3a, <1>7, <1>9
<1>12. \A k \in 1 .. n : x.cur <= c[k]
  <2> SUFFICES ASSUME NEW k \in 1 .. n PROVE x.cur <= c[k]
    OBVIOUS
  <2>1. CASE k \in N
    BY <1>3, <1>3a, <1>7, <1>9, <2>1
  <2>2. CASE k \notin N
    BY <1>3, <1>3a, <1>11, <2>2
  <2> QED BY <2>1, <2>2
<1>13. x.second \in Nat /\ x.second <= big /\ \A k \in 1 .. n : k # at => x.second <= c[k]
  BY <1>6, <1>7, <1>10
<1>14. x.cur <= x.second
  BY <1>6, <1>7, <1>10, <1>11, <1>12
<1> QED BY <1>0, <1>1, <1>2, <1>7, <1>9, <1>11, <1>12, <1>13, <1>14

-----------------------------------------------------------------------------
(* The local search: what a move is predicted to gain. *)

\* What the clients of the base k pay more once they have left it.
MovedAway(p, st, k) ==
    Absorbed(Summed([i \in {i \in Items(p) : st[i].at = k} |-> st[i].second - st[i].cur]))

\* Dropping the base k: what its clients pay more is not negative.
LEMMA DropIs ==
    ASSUME NEW p, ProblemFits(p), NEW B \in Seq(Items(p)), NEW k \in DOMAIN B,
           NEW st, st = SearchState(p, B)
    PROVE  /\ MovedAway(p, st, k) \in Nat
           /\ DropDelta(p, B, st, k) = Absorbed(MovedAway(p, st, k) - p.open[B[k]])
<1>1. PICK C, f : C = {i \in Items(p) : st[i].at = k} /\ f = [i \in C |-> st[i].second - st[i].cur]
  OBVIOUS
<1>2. \A i \in C : st[i].cur \in Nat /\ st[i].second \in Nat /\ st[i].cur <= st[i].second
  BY <1>1, SearchIs
<1>3. IsFiniteSet(C) /\ f \in [C -> Int] /\ \A i \in C : f[i] >= 0
  <2>1. IsFiniteSet(C)
    BY <1>1, FS_Subset DEF ProblemFits
  <2> QED BY <1>1, <1>2, <2>1
<1>4. Summed(f) \in Int /\ Summed(f) >= 0
  BY <1>3, SummedIs
<1>5. Absorbed(Summed(f)) \in Nat
  BY <1>4, AbsorbedIs
<1>6. MovedAway(p, st, k) = Absorbed(Summed(f))
  BY <1>1 DEF MovedAway
<1> QED BY <1>5, <1>6 DEF DropDelta, MovedAway

\* Opening c: an open base gains nothing by it, and where it costs nothing
\* less, c is served for what storing it would cost.
LEMMA AddIs ==
    ASSUME NEW p, ProblemFits(p), NEW B \in Seq(Items(p)), NEW c \in Items(p),
           NEW st, st = SearchState(p, B)
    PROVE  /\ AddDelta(p, st, c) \in Int /\ Absorbed(AddDelta(p, st, c)) = AddDelta(p, st, c)
           /\ c \in Range(B) => AddDelta(p, st, c) = p.open[c]
           /\ AddDelta(p, st, c) >= 0 => st[c].cur <= p.open[c]
<1>0. PICK h \in Nat \ {0} : h = Big \div 2 /\ Big = 2 * h
  BY HalfOfBig
<1>1. PICK C, f : /\ C = {i \in Items(p) : Connect(p, i, c) < st[i].cur}
                  /\ f = [i \in C |-> Connect(p, i, c) - st[i].cur]
  OBVIOUS
<1>2. \A i \in Items(p) : st[i].cur \in Nat /\ Connect(p, i, c) \in Nat
  BY SearchIs, ConnectIs
<1>3. IsFiniteSet(C) /\ f \in [C -> Int] /\ \A i \in C : f[i] <= 0
  <2>1. IsFiniteSet(C)
    BY <1>1, FS_Subset DEF ProblemFits
  <2> QED BY <1>1, <1>2, <2>1
<1>4. Summed(f) \in Int /\ Summed(f) <= 0 /\ \A i \in C : Summed(f) <= f[i]
  BY <1>3, SummedIs
<1>5. PICK a \in Int : a = Absorbed(Summed(f))
  BY <1>4, AbsorbedIs
<1>6. PICK o \in Nat : o = p.open[c] /\ o < h
  BY <1>0, OpenIs
<1>7. AddDelta(p, st, c) = Absorbed(o + a)
  BY <1>1, <1>5, <1>6 DEF AddDelta
<1>8. Absorbed(o + a) \in Int /\ Absorbed(Absorbed(o + a)) = Absorbed(o + a)
  BY AbsorbedIs
<1>9. ASSUME c \in Range(B) PROVE AddDelta(p, st, c) = p.open[c]
  <2>1. PICK k \in DOMAIN B : B[k] = c
    BY <1>9 DEF Range
  <2>2. \A i \in Items(p) : st[i].cur <= Connect(p, i, c)
    BY <2>1, SearchIs
  <2>3. C = {}
    BY <1>1, <1>2, <2>2
  <2>4. Summed(f) = 0
    <3>1. Summed(f) >= 0
      BY <1>3, <2>3, SummedIs
    <3> QED BY <1>4, <3>1
  <2>5. a = 0
    BY <1>0, <1>5, <2>4, AbsorbedIs
  <2>6. Absorbed(o) = o /\ o + a = o
    BY <1>0, <1>6, <2>5, AbsorbedIs
  <2> QED BY <1>6, <1>7, <2>6
<1>10. ASSUME AddDelta(p, st, c) >= 0, st[c].cur > p.open[c] PROVE FALSE
  <2>1. PICK u \in Nat : u = st[c].cur /\ u > o
    BY <1>2, <1>6, <1>10
  <2>2. Connect(p, c, c) = 0 /\ c \in C
    <3>1. Connect(p, c, c) = 0
      BY ConnectIs
    <3> QED BY <1>1, <1>6, <2>1, <3>1
  <2>3. Summed(f) <= -u
    BY <1>1, <1>4, <2>1, <2>2
  <2>4. a <= Absorbed(-u) /\ Absorbed(-u) \in Int
    BY <1>4, <1>5, <2>3, AbsorbedGrows, AbsorbedIs
  <2>5. (u < h /\ Absorbed(-u) = -u) \/ Absorbed(-u) <= -Big
    <3>1. CASE u < h
      BY <1>0, <3>1, AbsorbedIs
    <3>2. CASE u >= h
      <4>1. u = Big
        <5>1. \/ st[c].at = 0 /\ u = Big
              \/ u < Big /\ \E k \in DOMAIN B : u = Connect(p, c, B[k])
          BY <2>1, SearchIs
        <5>2. \A k \in DOMAIN B : Connect(p, c, B[k]) < Big \div 2 \/ Connect(p, c, B[k]) >= Big
          <6>1. \A k \in DOMAIN B : B[k] \in Items(p)
            OBVIOUS
          <6> QED BY <6>1, ConnectIs
        <5> QED BY <1>0, <3>2, <5>1, <5>2
      <4> QED BY <4>1, AbsorbedIs
    <3> QED BY <3>1, <3>2
  <2>6. o + a < 0
    <3>1. PICK z \in Int : z = Absorbed(-u) /\ a <= z
      BY <2>4
    <3>2. PICK big \in Nat : big = Big /\ o < big
      BY <1>0, <1>6
    <3>3. z = -u \/ z <= -big
      BY <2>5, <3>1, <3>2
    <3>4. a < -o
      BY <2>1, <3>1, <3>2, <3>3
    <3> QED BY <3>4
  <2>7. Absorbed(o + a) < 0
    BY <2>6, AbsorbedIs
  <2> QED BY <1>7, <1>8, <1>10, <2>7
<1> QED BY <1>2, <1>6, <1>7, <1>8, <1>9, <1>10

\* Opening c in the place of base k: what is gained over opening it is not
\* more than the base cost, and for an open c no more than dropping k.
LEMMA SwapIs ==
    ASSUME NEW p, ProblemFits(p), NEW B \in Seq(Items(p)), NEW k \in DOMAIN B, NEW c \in Items(p),
           NEW st, st = SearchState(p, B)
    PROVE  LET add == AddDelta(p, st, c)
               swap == SwapDelta(p, B, st, add, c, k)
           IN /\ swap \in Int
              /\ p.open[B[k]] = 0 => swap >= add
              /\ c \in Range(B) => swap >= 0 \/ swap >= DropDelta(p, B, st, k)
<1>0. PICK h \in Nat \ {0} : h = Big \div 2 /\ Big = 2 * h
  BY HalfOfBig
<1>1. PICK add : add = AddDelta(p, st, c)
  OBVIOUS
<1>2. add \in Int /\ Absorbed(add) = add /\ (c \in Range(B) => add = p.open[c])
  BY <1>1, AddIs
<1>3. PICK C, f : /\ C = {i \in Items(p) : st[i].at = k /\ Connect(p, i, c) >= st[i].cur}
                  /\ f = [i \in C |-> Refuge(p, st, c, i) - st[i].cur]
  OBVIOUS
<1>4. \A i \in Items(p) : /\ st[i].cur \in Nat /\ Connect(p, i, c) \in Nat /\ st[i].second \in Nat
                          /\ st[i].cur <= st[i].second
  BY SearchIs, ConnectIs
<1>5. \A i \in C : Refuge(p, st, c, i) \in Nat /\ st[i].cur <= Refuge(p, st, c, i)
  BY <1>3, <1>4 DEF Refuge
<1>6. IsFiniteSet(C) /\ f \in [C -> Int] /\ \A i \in C : f[i] >= 0
  <2>1. IsFiniteSet(C)
    BY <1>3, FS_Subset DEF ProblemFits
  <2>2. \A i \in C : st[i].cur \in Nat
    BY <1>3, <1>4
  <2> QED BY <1>3, <1>5, <2>1, <2>2
<1>7. PICK a \in Nat : a = Absorbed(Summed(f))
  <2>1. Summed(f) \in Int /\ Summed(f) >= 0
    BY <1>6, SummedIs
  <2> QED BY <2>1, AbsorbedIs
<1>8. PICK o \in Nat : o = p.open[B[k]] /\ o < h
  <2>1. B[k] \in Items(p)
    OBVIOUS
  <2> QED BY <1>0, <2>1, OpenIs
<1>9. PICK swap \in Int : swap = SwapDelta(p, B, st, add, c, k) /\ swap = Absorbed(Absorbed(add - o) + a)
  <2>1. SwapDelta(p, B, st, add, c, k) = Absorbed(Absorbed(add - o) + a)
    BY <1>3, <1>7, <1>8 DEF SwapDelta
  <2>2. Absorbed(add - o) \in Int
    BY <1>2, AbsorbedIs
  <2>3. Absorbed(Absorbed(add - o) + a) \in Int
    BY <2>2, AbsorbedIs
  <2> QED BY <2>1, <2>3
<1>10. ASSUME o = 0 PROVE swap >= add
  <2>1. add - o = add /\ add + a \in Int /\ add <= add + a
    BY <1>2, <1>10
  <2>2. Absorbed(add) <= Absorbed(add + a)
    BY <1>2, <2>1, AbsorbedGrows
  <2> QED BY <1>2, <1>9, <2>1, <2>2
<1>11. ASSUME c \in Range(B) PROVE swap >= 0 \/ swap >= DropDelta(p, B, st, k)
  <2>1. PICK q \in Nat : q = p.open[c] /\ q < h /\ add = q
    BY <1>0, <1>2, <1>11, OpenIs
  <2>2. Absorbed(add - o) = q - o
    <3>1. PICK x \in Int : x = q - o /\ add - o = x /\ x < h /\ -h < x
      BY <1>8, <2>1
    <3> QED BY <1>0, <3>1, AbsorbedIs
  <2>3. CASE c = B[k]
    <3>1. (q - o) + a >= 0 /\ (q - o) + a \in Int
      BY <1>8, <2>1, <2>3
    <3>2. Absorbed((q - o) + a) >= 0
      BY <3>1, AbsorbedIs
    <3> QED BY <1>9, <2>2, <3>2
  <2>4. CASE c # B[k]
    <3>1. PICK l \in DOMAIN B : B[l] = c /\ l # k
      BY <1>11, <2>4 DEF Range
    <3>2. ASSUME NEW i \in Items(p), st[i].at = k
          PROVE  Connect(p, i, c) >= st[i].cur /\ Refuge(p, st, c, i) = st[i].second
      <4>1. st[i].cur <= Connect(p, i, c) /\ st[i].second <= Connect(p, i, c)
        BY <3>1, <3>2, SearchIs
      <4> QED BY <1>4, <4>1 DEF Refuge
    <3>3. C = {i \in Items(p) : st[i].at = k}
      BY <1>3, <3>2
    <3>4. f = [i \in {i \in Items(p) : st[i].at = k} |-> st[i].second - st[i].cur]
      BY <1>3, <3>2, <3>3
    <3>5. DropDelta(p, B, st, k) = Absorbed(a - o)
      <4>1. DropDelta(p, B, st, k) = Absorbed(MovedAway(p, st, k) - p.open[B[k]])
        BY DropIs
      <4>2. MovedAway(p, st, k) = a
        BY <1>7, <3>4 DEF MovedAway
      <4> QED BY <1>8, <4>1, <4>2
    <3>6. a - o <= (q - o) + a
      BY <2>1
    <3>7. Absorbed(a - o) <= Absorbed((q - o) + a)
      BY <3>6, AbsorbedGrows
    <3> QED BY <1>9, <2>2, <3>5, <3>7
  <2> QED BY <2>3, <2>4
<1> QED BY <1>1, <1>8, <1>9, <1>10, <1>11

-----------------------------------------------------------------------------
(* The local search: its best move. *)

\* A move that a search from B may make.
MoveFits(p, B, m) ==
    \/ m.kind = "none"
    \/ m.kind = "drop" /\ m.at \in DOMAIN B /\ B[m.at] \notin p.pre
    \/ m.kind = "add" /\ m.cand \in Items(p) \ Range(B)
    \/ m.kind = "swap" /\ m.at \in DOMAIN B /\ B[m.at] \notin p.pre /\ m.cand \in Items(p) \ Range(B)

\* The best move keeps what was open from the start and opens nothing twice;
\* where there is none, each item that could be opened is served for no more
\* than storing it.
LEMMA BestMoveIs ==
    ASSUME NEW p, ProblemFits(p), NEW B \in Seq(Items(p)), NEW m, m = BestMove(p, B)
    PROVE  /\ MoveFits(p, B, m)
           /\ m.kind = "none" => \A c \in p.cands : SearchState(p, B)[c].cur <= p.open[c]
<1>1. PICK st : st = SearchState(p, B)
  OBVIOUS
<1>2. PICK n \in Nat : n = Len(B) /\ DOMAIN B = 1 .. n
  OBVIOUS
<1>3. /\ IsFiniteSet(1 .. n) /\ 1 .. n \subseteq Int
      /\ IsFiniteSet(p.cands) /\ p.cands \subseteq Int /\ p.cands \subseteq Items(p)
  <2>1. 1 \in Int /\ n \in Int
    OBVIOUS
  <2>2. IsFiniteSet(1 .. n)
    BY <2>1, FS_Interval
  <2>3. IsFiniteSet(Items(p)) /\ p.cands \subseteq Items(p) /\ Items(p) \subseteq Nat
    BY DEF ProblemFits
  <2> QED BY <2>2, <2>3, FS_Subset
<1>4. \A k \in 1 .. n : B[k] \in Items(p) /\ p.open[B[k]] \in Nat
  <2>1. \A k \in 1 .. n : B[k] \in Items(p)
    BY <1>2
  <2> QED BY <2>1, OpenIs
<1>5. \A b \in p.pre : p.open[b] = 0
  BY DEF ProblemFits
<1>6. PICK drop : drop = [k \in 1 .. n |-> DropDelta(p, B, st, k)]
  OBVIOUS
<1>7. drop \in [1 .. n -> Int] /\ \A k \in 1 .. n : B[k] \in p.pre => drop[k] >= 0
  <2>1. ASSUME NEW k \in 1 .. n
        PROVE DropDelta(p, B, st, k) \in Int /\ (B[k] \in p.pre => DropDelta(p, B, st, k) >= 0)
    <3>0. k \in DOMAIN B
      BY <1>2
    <3>1. PICK a \in Nat : a = MovedAway(p, st, k) /\ DropDelta(p, B, st, k) = Absorbed(a - p.open[B[k]])
      BY <1>1, <3>0, DropIs
    <3>2. PICK q \in Nat : q = p.open[B[k]]
      BY <1>4
    <3>3. B[k] \in p.pre => a - q >= 0
      BY <1>5, <3>2
    <3>4. PICK d \in Int : d = a - q
      OBVIOUS
    <3>5. Absorbed(d) \in Int /\ (d >= 0 => Absorbed(d) >= 0)
      BY AbsorbedIs
    <3> QED BY <3>1, <3>2, <3>3, <3>4, <3>5
  <2> QED BY <1>6, <2>1
<1>8. PICK dropped : dropped = IF B # <<>> /\ drop[FirstLeast(drop)] < 0
                                 THEN [delta |-> drop[FirstLeast(drop)], kind |-> "drop", cand |-> 0,
                                       at |-> FirstLeast(drop)]
                                 ELSE Stay
  OBVIOUS
<1>9. B # <<>> => 1 .. n # {}
  <2>1. B # <<>> => n # 0
    BY <1>2
  <2>2. n # 0 => 1 \in 1 .. n
    OBVIOUS
  <2> QED BY <2>1, <2>2
<1>10. /\ dropped.delta \in Int /\ dropped.delta <= 0
       /\ \A k \in 1 .. n : dropped.delta <= drop[k] \/ (drop[k] >= 0 /\ dropped.delta = 0)
       /\ MoveFits(p, B, dropped) /\ dropped.kind \in {"none", "drop"}
       /\ dropped.kind = "none" => dropped.delta = 0
  <2>1. CASE B = <<>>
    <3>1. dropped = Stay /\ 1 .. n = {}
      BY <1>2, <1>8, <2>1
    <3> QED BY <3>1 DEF Stay, MoveFits
  <2>2. CASE B # <<>>
    <3>1. PICK k0 : k0 = FirstLeast(drop) /\ k0 \in 1 .. n /\ \A k \in 1 .. n : drop[k0] <= drop[k]
      BY <1>3, <1>7, <1>9, <2>2, FirstLeastIs
    <3>2. CASE drop[k0] < 0
      <4>1. dropped = [delta |-> drop[k0], kind |-> "drop", cand |-> 0, at |-> k0]
        BY <1>8, <2>2, <3>1, <3>2
      <4>2. B[k0] \notin p.pre
        BY <1>7, <3>1, <3>2
      <4> QED BY <1>2, <1>7, <3>1, <3>2, <4>1, <4>2 DEF MoveFits
    <3>3. CASE ~(drop[k0] < 0)
      <4>1. dropped = Stay
        BY <1>8, <3>1, <3>3
      <4>2. \A k \in 1 .. n : drop[k] >= 0
        BY <1>7, <3>1, <3>3
      <4> QED BY <4>1, <4>2 DEF Stay, MoveFits
    <3> QED BY <3>2, <3>3
  <2> QED BY <2>1, <2>2
<1>11. ASSUME NEW c \in p.cands
       PROVE  LET o == Opening(p, B, st, c)
              IN /\ o.delta \in Int /\ o.delta <= AddDelta(p, st, c) /\ AddDelta(p, st, c) \in Int
                 /\ o.kind \in {"add", "swap"}
                 /\ o.delta < dropped.delta => MoveFits(p, B, o)
  <2>1. c \in Items(p)
    BY <1>3
  <2>2. PICK add \in Int : add = AddDelta(p, st, c) /\ (c \in Range(B) => add = p.open[c])
    BY <1>1, <2>1, AddIs
  <2>3. PICK swap : swap = [k \in 1 .. n |-> SwapDelta(p, B, st, add, c, k)]
    OBVIOUS
  <2>4. /\ swap \in [1 .. n -> Int]
        /\ \A k \in 1 .. n : /\ p.open[B[k]] = 0 => swap[k] >= add
                             /\ c \in Range(B) => swap[k] >= 0 \/ swap[k] >= drop[k]
    <3>1. ASSUME NEW k \in 1 .. n
          PROVE  /\ SwapDelta(p, B, st, add, c, k) \in Int
                 /\ p.open[B[k]] = 0 => SwapDelta(p, B, st, add, c, k) >= add
                 /\ c \in Range(B) => \/ SwapDelta(p, B, st, add, c, k) >= 0
                                      \/ SwapDelta(p, B, st, add, c, k) >= DropDelta(p, B, st, k)
      BY <1>1, <1>2, <2>1, <2>2, SwapIs
    <3> QED BY <1>6, <2>3, <3>1
  <2>5. PICK o : o = Opening(p, B, st, c)
    OBVIOUS
  <2>6. o = IF B # <<>> /\ swap[FirstLeast(swap)] < add
              THEN [delta |-> swap[FirstLeast(swap)], kind |-> "swap", cand |-> c,
                    at |-> FirstLeast(swap)]
              ELSE [delta |-> add, kind |-> "add", cand |-> c, at |-> 0]
    BY <1>2, <2>2, <2>3, <2>5 DEF Opening
  <2>7. CASE B # <<>> /\ swap[FirstLeast(swap)] < add
    <3>1. PICK k0 : k0 = FirstLeast(swap) /\ k0 \in 1 .. n
      BY <1>3, <1>9, <2>4, <2>7, FirstLeastIs
    <3>2. o = [delta |-> swap[k0], kind |-> "swap", cand |-> c, at |-> k0]
      BY <2>6, <2>7, <3>1
    <3>3. B[k0] \notin p.pre
      BY <1>5, <2>4, <2>7, <3>1
    <3>4. o.delta < dropped.delta => c \notin Range(B)
      <4> SUFFICES ASSUME swap[k0] < dropped.delta, c \in Range(B) PROVE FALSE
        BY <3>2
      <4>1. swap[k0] >= 0 \/ swap[k0] >= drop[k0]
        BY <2>4, <3>1
      <4>2. swap[k0] \in Int /\ drop[k0] \in Int
        BY <1>7, <2>4, <3>1
      <4> QED BY <1>10, <3>1, <4>1, <4>2
    <3> QED BY <1>2, <2>1, <2>2, <2>4, <2>5, <2>7, <3>1, <3>2, <3>3, <3>4 DEF MoveFits
  <2>8. CASE ~(B # <<>> /\ swap[FirstLeast(swap)] < add)
    <3>1. o = [delta |-> add, kind |-> "add", cand |-> c, at |-> 0]
      BY <2>6, <2>8
    <3>2. o.delta < dropped.delta => c \notin Range(B)
      <4>1. p.open[c] \in Nat
        BY <2>1, OpenIs
      <4> QED BY <1>10, <2>2, <3>1, <4>1
    <3> QED BY <2>1, <2>2, <2>5, <3>1, <3>2 DEF MoveFits
  <2> QED BY <2>7, <2>8
<1>12. PICK opened, delta : /\ opened = [c \in p.cands |-> Opening(p, B, st, c)]
                            /\ delta = [c \in p.cands |-> opened[c].delta]
  OBVIOUS
<1>13. delta \in [p.cands -> Int] /\ \A c \in p.cands : delta[c] = opened[c].delta
  BY <1>11, <1>12
<1>14. m = IF p.cands # {} /\ opened[FirstLeast(delta)].delta < dropped.delta
             THEN opened[FirstLeast(delta)] ELSE dropped
  <2> DEFINE Drop(f) == IF B # <<>> /\ f[FirstLeast(f)] < 0
                          THEN [delta |-> f[FirstLeast(f)], kind |-> "drop", cand |-> 0,
                                at |-> FirstLeast(f)]
                          ELSE Stay
             Best(f, d) == IF p.cands # {} /\ f[FirstLeast([c \in p.cands |-> f[c].delta])].delta < d.delta
                             THEN f[FirstLeast([c \in p.cands |-> f[c].delta])] ELSE d
  <2>1. m = Best([c \in p.cands |-> Opening(p, B, SearchState(p, B), c)],
                 Drop([k \in DOMAIN B |-> DropDelta(p, B, SearchState(p, B), k)]))
    BY DEF BestMove, Better
  <2>2. m = Best(opened, Drop(drop))
    <3> HIDE DEF Best, Drop
    <3> QED BY <1>1, <1>2, <1>6, <1>12, <2>1
  <2>3. Drop(drop) = dropped
    BY <1>8
  <2> HIDE DEF Drop
  <2> QED BY <1>12, <2>2, <2>3
<1>15. CASE p.cands = {}
  BY <1>10, <1>14, <1>15
<1>16. CASE p.cands # {}
  <2>1. PICK c0 : c0 = FirstLeast(delta) /\ c0 \in p.cands /\ \A c \in p.cands : delta[c0] <= delta[c]
    BY <1>3, <1>13, <1>16, FirstLeastIs
  <2>2. PICK o : o = Opening(p, B, st, c0) /\ o = opened[c0] /\ o.delta = delta[c0]
    BY <1>12, <1>13, <2>1
  <2>3. /\ o.delta \in Int /\ o.kind \in {"add", "swap"}
        /\ o.delta < dropped.delta => MoveFits(p, B, o)
    BY <1>11, <2>1, <2>2
  <2>4. CASE o.delta < dropped.delta
    <3>1. m = o
      BY <1>14, <1>16, <2>1, <2>2, <2>4
    <3> QED BY <2>3, <2>4, <3>1
  <2>5. CASE ~(o.delta < dropped.delta)
    <3>1. m = dropped
      BY <1>14, <2>1, <2>2, <2>5
    <3>2. ASSUME m.kind = "none", NEW c \in p.cands PROVE st[c].cur <= p.open[c]
      <4>1. dropped.delta = 0 /\ o.delta >= 0
        BY <1>10, <2>3, <2>5, <3>1, <3>2
      <4>2. delta[c] >= 0 /\ delta[c] \in Int
        BY <1>13, <2>1, <2>2, <2>3, <4>1
      <4>3. delta[c] <= AddDelta(p, st, c) /\ AddDelta(p, st, c) \in Int
        BY <1>11, <1>12, <1>13
      <4>4. AddDelta(p, st, c) >= 0 /\ c \in Items(p)
        BY <1>3, <4>2, <4>3
      <4> QED BY <1>1, <4>4, AddIs
    <3> QED BY <1>1, <1>10, <3>1, <3>2
  <2> QED BY <2>4, <2>5
<1> QED BY <1>15, <1>16

-----------------------------------------------------------------------------
(* The local search: making a move. *)

\* What the search works on: bases of the problem from the least on, and among
\* them all that were open from the start.
BasesFit(p, B) == B \in Seq(Items(p)) /\ Rising(B) /\ p.pre \subseteq Range(B)

\* A sequence that rises holds nothing twice.
LEMMA RisingIsDistinct ==
    ASSUME NEW S, S \subseteq Int, NEW B \in Seq(S), Rising(B)
    PROVE  Distinct(B) /\ \A j, k \in DOMAIN B : B[j] = B[k] => j = k
<1>1. PICK n \in Nat : n = Len(B) /\ DOMAIN B = 1 .. n
  OBVIOUS
<1>2. ASSUME NEW j \in 1 .. n, NEW k \in 1 .. n, j # k PROVE B[j] # B[k]
  <2>1. B[j] \in S /\ B[k] \in S /\ B[j] \in Int /\ B[k] \in Int
    <3>1. B[j] \in S /\ B[k] \in S
      BY <1>1
    <3> QED BY <3>1
  <2>2. B[j] < B[k] \/ B[k] < B[j]
    <3>1. j < k \/ k < j
      BY <1>2
    <3> QED BY <1>1, <3>1 DEF Rising
  <2> QED BY <2>1, <2>2
<1> QED BY <1>1, <1>2 DEF Distinct

\* Putting the bases of a problem in order.
LEMMA OrderedFits ==
    ASSUME NEW p, ProblemFits(p), NEW B \in Seq(Items(p)), Distinct(B), p.pre \subseteq Range(B)
    PROVE  BasesFit(p, InOrder(B))
<1>1. Items(p) \subseteq Int
  BY DEF ProblemFits
<1> QED BY <1>1, InOrderIs DEF BasesFit

\* A move keeps the bases in order, none twice, and what was open from the
\* start among them.
LEMMA MovedIs ==
    ASSUME NEW p, ProblemFits(p), NEW B, BasesFit(p, B), NEW m, MoveFits(p, B, m)
    PROVE  BasesFit(p, Moved(B, m))
<1>1. PICK I : I = Items(p) /\ I \subseteq Int /\ p.pre \subseteq I
  BY DEF ProblemFits
<1>2. B \in Seq(I) /\ Rising(B) /\ p.pre \subseteq Range(B)
  BY <1>1 DEF BasesFit
<1>3. PICK n \in Nat : n = Len(B) /\ DOMAIN B = 1 .. n
  BY <1>2
<1>4. Distinct(B) /\ (\A j, k \in 1 .. n : B[j] = B[k] => j = k) /\ \A k \in 1 .. n : B[k] \in I
  <2>1. Distinct(B) /\ \A j, k \in DOMAIN B : B[j] = B[k] => j = k
    BY <1>1, <1>2, RisingIsDistinct
  <2>2. \A k \in 1 .. n : B[k] \in I
    BY <1>2, <1>3
  <2> QED BY <1>3, <2>1, <2>2
<1>5. \A b \in p.pre : \E k \in 1 .. n : B[k] = b
  BY <1>2, <1>3 DEF Range
<1>6. ASSUME NEW C \in Seq(I), Distinct(C), p.pre \subseteq Range(C), Moved(B, m) = InOrder(C)
      PROVE BasesFit(p, Moved(B, m))
  BY <1>1, <1>6, OrderedFits
<1>7. CASE m.kind = "none"
  <2>1. Moved(B, m) = InOrder(B)
    BY <1>7 DEF Moved
  <2> QED BY <1>2, <1>4, <1>6, <2>1
<1>8. CASE m.kind = "drop"
  <2>1. PICK a \in 1 .. n : a = m.at /\ B[a] \notin p.pre
    BY <1>3, <1>8 DEF MoveFits
  <2>2. PICK C : C = RemoveAt(B, a)
    OBVIOUS
  <2>3. /\ C \in Seq(I) /\ Len(C) = n - 1 /\ DOMAIN C = 1 .. n - 1
        /\ \A k \in 1 .. n - 1 : C[k] = B[IF k < a THEN k ELSE k + 1]
    <3>1. PICK x, y : x = SubSeq(B, 1, a - 1) /\ y = SubSeq(B, a + 1, n) /\ C = x \o y
      BY <1>3, <2>2 DEF RemoveAt
    <3>2. x \in Seq(I) /\ Len(x) = a - 1 /\ \A k \in 1 .. a - 1 : x[k] = B[k]
      BY <1>2, <1>3, <3>1
    <3>3. y \in Seq(I) /\ Len(y) = n - a /\ \A k \in 1 .. n - a : y[k] = B[a + k]
      BY <1>2, <1>3, <3>1
    <3>4. C \in Seq(I) /\ Len(C) = n - 1
      BY <3>1, <3>2, <3>3
    <3>5. \A k \in 1 .. n - 1 : C[k] = IF k < a THEN x[k] ELSE y[k - (a - 1)]
      BY <3>1, <3>2, <3>3
    <3>6. ASSUME NEW k \in 1 .. n - 1 PROVE C[k] = B[IF k < a THEN k ELSE k + 1]
      <4>1. CASE k < a
        BY <3>2, <3>5, <4>1
      <4>2. CASE ~(k < a)
        <5>1. k - (a - 1) \in 1 .. n - a /\ a + (k - (a - 1)) = k + 1
          BY <4>2
        <5> QED BY <3>3, <3>5, <4>2, <5>1
      <4> QED BY <4>1, <4>2
    <3> QED BY <3>4, <3>6
  <2>4. Distinct(C)
    <3> SUFFICES ASSUME NEW j \in 1 .. n - 1, NEW k \in 1 .. n - 1, C[j] = C[k] PROVE j = k
      BY <2>3 DEF Distinct
    <3> DEFINE To(x) == IF x < a THEN x ELSE x + 1
    <3>1. To(j) \in 1 .. n /\ To(k) \in 1 .. n
      OBVIOUS
    <3>2. To(j) = To(k)
      BY <1>4, <2>3, <3>1
    <3> QED BY <3>2
  <2>5. p.pre \subseteq Range(C)
    <3> SUFFICES ASSUME NEW b \in p.pre PROVE \E k \in 1 .. n - 1 : C[k] = b
      BY <2>3 DEF Range
    <3>1. PICK k \in 1 .. n : B[k] = b /\ k # a
      BY <1>5, <2>1
    <3>2. CASE k < a
      BY <2>3, <3>1, <3>2
    <3>3. CASE a < k
      <4>1. k - 1 \in 1 .. n - 1 /\ ~(k - 1 < a) /\ (k - 1) + 1 = k
        BY <3>3
      <4> QED BY <2>3, <3>1, <4>1
    <3> QED BY <3>1, <3>2, <3>3
  <2>6. Moved(B, m) = InOrder(C)
    BY <1>8, <2>1, <2>2 DEF Moved
  <2> QED BY <1>6, <2>3, <2>4, <2>5, <2>6
<1>9. CASE m.kind = "add"
  <2>1. m.cand \in I /\ \A k \in 1 .. n : B[k] # m.cand
    BY <1>1, <1>3, <1>9 DEF MoveFits, Range
  <2>2. PICK C : C = Append(B, m.cand)
    OBVIOUS
  <2>3. /\ C \in Seq(I) /\ DOMAIN C = 1 .. n + 1
        /\ \A k \in 1 .. n : C[k] = B[k]
        /\ C[n + 1] = m.cand
    BY <1>2, <1>3, <2>1, <2>2
  <2>4. Distinct(C)
    <3> SUFFICES ASSUME NEW j \in 1 .. n + 1, NEW k \in 1 .. n + 1, C[j] = C[k] PROVE j = k
      BY <2>3 DEF Distinct
    <3>1. (j \in 1 .. n \/ j = n + 1) /\ (k \in 1 .. n \/ k = n + 1)
      OBVIOUS
    <3> QED BY <1>4, <2>1, <2>3, <3>1
  <2>5. p.pre \subseteq Range(C)
    <3> SUFFICES ASSUME NEW b \in p.pre PROVE \E k \in 1 .. n + 1 : C[k] = b
      BY <2>3 DEF Range
    <3>1. PICK k \in 1 .. n : B[k] = b
      BY <1>5
    <3> QED BY <2>3, <3>1
  <2>6. Moved(B, m) = InOrder(C)
    BY <1>9, <2>2 DEF Moved
  <2> QED BY <1>6, <2>3, <2>4, <2>5, <2>6
<1>10. CASE m.kind = "swap"
  <2>1. PICK a \in 1 .. n : /\ a = m.at /\ B[a] \notin p.pre
                            /\ m.cand \in I /\ \A k \in 1 .. n : B[k] # m.cand
    BY <1>1, <1>3, <1>10 DEF MoveFits, Range
  <2>2. PICK C : C = [B EXCEPT ![a] = m.cand]
    OBVIOUS
  <2>3. /\ C \in Seq(I) /\ DOMAIN C = 1 .. n
        /\ \A k \in 1 .. n : C[k] = IF k = a THEN m.cand ELSE B[k]
    BY <1>2, <1>3, <2>1, <2>2
  <2>4. Distinct(C)
    <3> SUFFICES ASSUME NEW j \in 1 .. n, NEW k \in 1 .. n, C[j] = C[k] PROVE j = k
      BY <2>3 DEF Distinct
    <3> QED BY <1>4, <2>1, <2>3
  <2>5. p.pre \subseteq Range(C)
    <3> SUFFICES ASSUME NEW b \in p.pre PROVE \E k \in 1 .. n : C[k] = b
      BY <2>3 DEF Range
    <3>1. PICK k \in 1 .. n : B[k] = b /\ k # a
      BY <1>5, <2>1
    <3> QED BY <2>3, <3>1
  <2>6. Moved(B, m) = InOrder(C)
    BY <1>10, <2>1, <2>2 DEF Moved
  <2> QED BY <1>6, <2>3, <2>4, <2>5, <2>6
<1> QED BY <1>7, <1>8, <1>9, <1>10 DEF MoveFits

-----------------------------------------------------------------------------
(* The greedy opening. *)

\* What the greedy opening works on: each item has a base and what that costs,
\* and a base that was open from the start is its own, for nothing.
Greedy(p) == {s \in [cost : [Items(p) -> Int], at : [Items(p) -> Items(p)]] :
                \A b \in p.pre : s.at[b] = b /\ s.cost[b] = 0}

\* Its rounds: the candidates that are left, each with its gain.
GreedyRounds(p) == [s : Greedy(p), heap : UNION {[D -> Int] : D \in SUBSET Items(p)}]

\* The gain of a candidate is a number.
LEMMA GainIs ==
    ASSUME NEW p, ProblemFits(p), NEW s \in Greedy(p), NEW c \in Items(p)
    PROVE  MarginalGain(p, s, c) \in Int
<1>1. IsFiniteSet(Items(p))
  BY DEF ProblemFits
<1>2. \A i \in Items(p) : s.cost[i] \in Int
  BY DEF Greedy
<1>3. \A i \in Items(p) : AsBase(p, i, c) \in Int
  <2>1. \A i \in Items(p) : PairCost(p, i, c) \in Nat
    BY PairCostIs
  <2>2. p.open[c] \in Nat
    BY OpenIs
  <2> QED BY <2>1, <2>2 DEF AsBase
<1>4. PICK f : f = [i \in Items(p) |-> IF AsBase(p, i, c) < s.cost[i] THEN s.cost[i] - AsBase(p, i, c) ELSE 0]
  OBVIOUS
<1>5. f \in [Items(p) -> Int]
  BY <1>2, <1>3, <1>4
<1> QED BY <1>1, <1>4, <1>5, SummedIs DEF MarginalGain

\* Opening a candidate.
LEMMA UpdateIs ==
    ASSUME NEW p, ProblemFits(p), NEW s \in Greedy(p), NEW c \in Items(p)
    PROVE  UpdateState(p, s, c) \in Greedy(p)
<1>1. \A i \in Items(p) : s.cost[i] \in Int /\ s.at[i] \in Items(p)
  BY DEF Greedy
<1>2. \A i \in Items(p) : PairCost(p, i, c) \in Nat
  BY PairCostIs
<1>3. p.open[c] \in Nat /\ p.pre \subseteq Items(p) /\ \A b \in p.pre : p.open[b] = 0
  <2>1. p.open[c] \in Nat
    BY OpenIs
  <2> QED BY <2>1 DEF ProblemFits
<1>4. \A i \in Items(p) : AsBase(p, i, c) \in Int
  BY <1>2, <1>3 DEF AsBase
<1>5. PICK u : u = UpdateState(p, s, c)
  OBVIOUS
<1>6. u \in [cost : [Items(p) -> Int], at : [Items(p) -> Items(p)]]
  BY <1>1, <1>4, <1>5 DEF UpdateState
<1>7. ASSUME NEW b \in p.pre PROVE u.at[b] = b /\ u.cost[b] = 0
  <2>1. b \in Items(p) /\ s.at[b] = b /\ s.cost[b] = 0 /\ p.open[b] = 0
    BY <1>3 DEF Greedy
  <2>2. ~(PairCost(p, b, c) < s.cost[b])
    BY <1>2, <2>1
  <2> QED BY <1>5, <2>1, <2>2 DEF UpdateState, AsBase
<1> QED BY <1>5, <1>6, <1>7 DEF Greedy

\* One round of the greedy opening.
LEMMA PopIs ==
    ASSUME NEW p, ProblemFits(p), NEW w \in GreedyRounds(p)
    PROVE  PopCandidate(p, w) \in GreedyRounds(p)
<1>1. PICK D \in SUBSET Items(p) : w.heap \in [D -> Int]
  BY DEF GreedyRounds
<1>2. w.s \in Greedy(p) /\ DOMAIN w.heap = D
  BY <1>1 DEF GreedyRounds
<1>3. ASSUME NEW s \in Greedy(p), NEW E \in SUBSET Items(p), NEW h \in [E -> Int]
      PROVE Searching(s, h) \in GreedyRounds(p)
  BY DEF Searching, GreedyRounds
<1>4. <<>> \in [{} -> Int] /\ {} \in SUBSET Items(p)
  OBVIOUS
<1>5. Searching(w.s, <<>>) \in GreedyRounds(p)
  BY <1>2, <1>3, <1>4
<1>6. CASE D = {}
  BY <1>2, <1>6 DEF PopCandidate
<1>7. CASE D # {}
  <2>1. PICK neg : neg = [c \in D |-> -(w.heap[c])]
    OBVIOUS
  <2>2. neg \in [D -> Int] /\ IsFiniteSet(D) /\ D \subseteq Int
    <3>1. IsFiniteSet(Items(p)) /\ Items(p) \subseteq Int
      BY DEF ProblemFits
    <3> QED BY <1>1, <2>1, <3>1, FS_Subset
  <2>3. PICK c \in D : c = Top(w.heap)
    BY <1>2, <1>7, <2>1, <2>2, FirstLeastIs DEF Top
  <2>4. PICK gain \in Int : gain = MarginalGain(p, w.s, c)
    BY <1>2, GainIs
  <2>5. Searching(w.s, [w.heap EXCEPT ![c] = gain]) \in GreedyRounds(p)
    <3>1. [w.heap EXCEPT ![c] = gain] \in [D -> Int]
      BY <1>1
    <3> QED BY <1>2, <1>3, <3>1
  <2>6. PICK rest : rest = [d \in D \ {c} |-> w.heap[d]]
    OBVIOUS
  <2>7. Searching(UpdateState(p, w.s, c), rest) \in GreedyRounds(p)
    <3>1. rest \in [D \ {c} -> Int] /\ D \ {c} \in SUBSET Items(p)
      BY <1>1, <2>6
    <3>2. UpdateState(p, w.s, c) \in Greedy(p)
      BY <1>2, UpdateIs
    <3> QED BY <1>3, <3>1, <3>2
  <2>8. \/ PopCandidate(p, w) = Searching(w.s, <<>>)
        \/ PopCandidate(p, w) = Searching(w.s, [w.heap EXCEPT ![c] = gain])
        \/ PopCandidate(p, w) = Searching(UpdateState(p, w.s, c), rest)
    BY <1>2, <1>7, <2>3, <2>4, <2>6 DEF PopCandidate
  <2> QED BY <1>5, <2>5, <2>7, <2>8
<1> QED BY <1>6, <1>7

\* Where the greedy opening starts.
LEMMA StartIs ==
    ASSUME NEW p, ProblemFits(p)
    PROVE  StartState(p) \in Greedy(p)
<1>1. PICK s : s = StartState(p)
  OBVIOUS
<1>2. \A i \in Items(p) : p.open[i] \in Nat /\ p.external[i] \in Nat
  <2>1. p.external \in [Items(p) -> Nat]
    BY DEF ProblemFits
  <2> QED BY <2>1, OpenIs
<1>3. \A i, b \in Items(p) : PairCost(p, i, b) \in Nat
  BY PairCostIs
<1>4. PICK pre : /\ pre = p.pre /\ pre \subseteq Items(p) /\ IsFiniteSet(pre) /\ pre \subseteq Int
                 /\ \A b \in pre : p.open[b] = 0
  <2>1. IsFiniteSet(Items(p)) /\ Items(p) \subseteq Int /\ p.pre \subseteq Items(p)
        /\ \A b \in p.pre : p.open[b] = 0
    BY DEF ProblemFits
  <2> QED BY <2>1, FS_Subset
<1> DEFINE near(i) == FirstLeast([b \in p.pre |-> PairCost(p, i, b)])
<1>5. ASSUME NEW i \in Items(p), pre # {} PROVE near(i) \in Items(p)
  <2>1. PICK f : f = [b \in pre |-> PairCost(p, i, b)]
    OBVIOUS
  <2>2. f \in [pre -> Int]
    <3>1. \A b \in pre : PairCost(p, i, b) \in Int
      <4>1. \A b \in pre : PairCost(p, i, b) \in Nat
        BY <1>3, <1>4
      <4> QED BY <4>1
    <3> QED BY <2>1, <3>1
  <2>3. FirstLeast(f) \in pre
    BY <1>4, <1>5, <2>2, FirstLeastIs
  <2> QED BY <1>4, <2>1, <2>3
<1> DEFINE moved(i) == i \notin p.pre /\ p.pre # {} /\ PairCost(p, i, near(i))
                         < (IF p.external[i] < p.open[i] THEN p.external[i] ELSE p.open[i])
<1>6. s = [cost |-> [i \in Items(p) |->
                       IF i \in p.pre THEN p.open[i]
                       ELSE IF moved(i) THEN PairCost(p, i, near(i))
                       ELSE IF p.external[i] < p.open[i] THEN p.external[i] ELSE p.open[i]],
           at |-> [i \in Items(p) |-> IF moved(i) THEN near(i) ELSE i]]
  BY <1>1 DEF StartState
<1> HIDE DEF near
<1>7. ASSUME NEW i \in Items(p), moved(i)
      PROVE near(i) \in Items(p) /\ PairCost(p, i, near(i)) \in Int
  <2>1. near(i) \in Items(p)
    BY <1>4, <1>5, <1>7
  <2>2. PairCost(p, i, near(i)) \in Nat
    BY <2>1, PairCostIs
  <2> QED BY <2>1, <2>2
<1>8. \A b \in p.pre : ~moved(b)
  OBVIOUS
<1> HIDE DEF moved
<1>9. s \in [cost : [Items(p) -> Int], at : [Items(p) -> Items(p)]]
  <2> HIDE DEF Items
  <2> QED BY <1>2, <1>6, <1>7
<1> QED BY <1>1, <1>4, <1>6, <1>8, <1>9 DEF Greedy

\* The greedy opening opens what fits the search.
LEMMA GreedyFits ==
    ASSUME NEW p, ProblemFits(p)
    PROVE  BasesFit(p, GreedyBases(p))
<1>1. PICK start : start = StartState(p) /\ start \in Greedy(p)
  BY StartIs
<1>2. PICK G \in SUBSET Items(p) : G = {c \in p.cands \ p.pre : MarginalGain(p, start, c) > 0}
  BY DEF ProblemFits
<1>3. PICK gains \in [G -> Int] : gains = [c \in G |-> MarginalGain(p, start, c)]
  <2>1. [c \in G |-> MarginalGain(p, start, c)] \in [G -> Int]
    BY <1>1, GainIs
  <2> QED BY <2>1
<1>4. PICK n \in Nat : n = MostRounds(gains)
  <2>1. IsFiniteSet(G) /\ DOMAIN gains = G
    BY <1>2, FS_Subset DEF ProblemFits
  <2>2. PICK k \in Nat : k = Cardinality(DOMAIN gains)
    BY <2>1, FS_CardinalityType
  <2>3. 2 * (k + 1) * (k + 1) \in Nat
    OBVIOUS
  <2> QED BY <2>2, <2>3 DEF MostRounds
<1>5. PICK w0 \in GreedyRounds(p) : w0 = Searching(start, gains)
  BY <1>1, <1>2, <1>3 DEF Searching, GreedyRounds
<1> DEFINE Step(f) == [k \in 0 .. n |-> IF k = 0 THEN w0 ELSE PopCandidate(p, f[k - 1])]
<1>6. PICK R : R = GreedyRounds(p)
  OBVIOUS
<1>7. \E f : f = Step(f)
  <2>1. PICK h : h = [k \in 1 .. n |-> [w \in R |-> PopCandidate(p, w)]]
    OBVIOUS
  <2>2. h \in [1 .. n -> [R -> R]]
    <3>1. [w \in R |-> PopCandidate(p, w)] \in [R -> R]
      BY <1>6, PopIs
    <3> QED BY <2>1, <3>1
  <2>3. PICK f \in [0 .. n -> R] : IsRun(f, w0, n, h)
    BY <1>5, <1>6, <2>2, RunExists
  <2>4. ASSUME NEW k \in 0 .. n PROVE f[k] = IF k = 0 THEN w0 ELSE PopCandidate(p, f[k - 1])
    <3>1. CASE k = 0
      BY <2>3, <3>1 DEF IsRun
    <3>2. CASE k # 0
      <4>1. k \in 1 .. n /\ k - 1 \in 0 .. n
        BY <3>2
      <4>2. f[k] = h[k][f[k - 1]] /\ f[k - 1] \in R
        BY <2>3, <4>1 DEF IsRun
      <4> QED BY <2>1, <3>2, <4>1, <4>2
    <3> QED BY <3>1, <3>2
  <2> QED BY <2>3, <2>4
<1> DEFINE after == CHOOSE f : f = Step(f)
<1>8. after = Step(after)
  BY <1>7
<1>9. LazyGreedy(p, start, gains) = after[n].s
  BY <1>4, <1>5 DEF LazyGreedy
<1> HIDE DEF after
<1>10. after[n] \in GreedyRounds(p)
  <2> DEFINE T == {k \in 0 .. n : after[k] \in GreedyRounds(p)}
  <2>1. 0 \in T
    <3>1. after[0] = w0
      BY <1>8
    <3> QED BY <1>5, <3>1
  <2>2. ASSUME NEW k \in 0 .. n - 1, k \in T PROVE k + 1 \in T
    <3>1. after[k + 1] = PopCandidate(p, after[k])
      <4>1. k + 1 \in 0 .. n /\ k + 1 # 0 /\ (k + 1) - 1 = k
        OBVIOUS
      <4> QED BY <1>8, <4>1
    <3>2. after[k] \in GreedyRounds(p)
      BY <2>2
    <3>3. after[k + 1] \in GreedyRounds(p)
      BY <3>1, <3>2, PopIs
    <3> QED BY <3>3
  <2> HIDE DEF T
  <2>3. 0 .. n \subseteq T
    BY <2>1, <2>2, InductionUpTo
  <2>4. n \in T
    BY <2>3
  <2> QED BY <2>4 DEF T
<1>11. PICK s \in Greedy(p) : s = LazyGreedy(p, start, gains)
  BY <1>9, <1>10 DEF GreedyRounds
<1>12. PICK S : S = {i \in Items(p) : s.at[i] = i}
  OBVIOUS
<1>13. GreedyBases(p) = SortedItems(S)
  <2> DEFINE At(hp) == LazyGreedy(p, start, hp)
  <2>1. GreedyBases(p) = SortedItems({i \in Items(p) : At([c \in G |-> MarginalGain(p, start, c)]).at[i] = i})
    BY <1>1, <1>2 DEF GreedyBases
  <2> QED BY <1>3, <1>11, <1>12, <2>1
<1>14. S \subseteq Items(p) /\ Items(p) \subseteq Int /\ IsFiniteSet(S) /\ S \subseteq Int
  <2>1. IsFiniteSet(Items(p)) /\ Items(p) \subseteq Int
    BY DEF ProblemFits
  <2> QED BY <1>12, <2>1, FS_Subset
<1>15. p.pre \subseteq S
  <2>1. p.pre \subseteq Items(p)
    BY DEF ProblemFits
  <2> QED BY <1>11, <1>12, <2>1 DEF Greedy
<1>16. PICK B : B = SortedItems(S) /\ B \in Seq(S) /\ Range(B) = S /\ Rising(B)
  BY <1>14, SortedItemsAre
<1>17. B \in Seq(Items(p))
  <2>1. S \subseteq Items(p) /\ B \in Seq(S)
    BY <1>14, <1>16
  <2>2. Len(B) \in Nat /\ B \in [1 .. Len(B) -> S]
    BY <2>1
  <2>3. B \in [1 .. Len(B) -> Items(p)]
    BY <2>1, <2>2
  <2> QED BY <2>2, <2>3
<1> QED BY <1>13, <1>15, <1>16, <1>17 DEF BasesFit

-----------------------------------------------------------------------------
(* What a search comes to. *)

\* Bases that serve each item for no more than storing it come to no more than
\* storing everything.
LEMMA ServedForLess ==
    ASSUME NEW p, ProblemFits(p), NEW B \in Seq(Items(p)),
           \A i \in Items(p) : SearchState(p, B)[i].cur <= p.open[i]
    PROVE  Objective(p, Range(B)) <= Summed(p.open)
<1>1. PICK I : I = Items(p) /\ IsFiniteSet(I) /\ I \subseteq Int
  BY DEF ProblemFits
<1>2. PICK R : R = Range(B) /\ R \subseteq I /\ IsFiniteSet(R) /\ R \subseteq Int
  <2>1. Range(B) \subseteq I
    <3>1. \A k \in DOMAIN B : B[k] \in I
      BY <1>1
    <3> QED BY <3>1 DEF Range
  <2> QED BY <1>1, <2>1, FS_Subset
<1>3. PICK open \in [I -> Int] : open = p.open /\ \A i \in I : open[i] >= 0 /\ open[i] < Big
  <2>1. \A i \in I : p.open[i] \in Nat /\ p.open[i] < Big
    <3>1. Big \div 2 \in Nat /\ Big \in Nat /\ Big \div 2 < Big
      BY HalfOfBig
    <3>2. \A i \in I : p.open[i] \in Nat /\ p.open[i] < Big \div 2
      BY <1>1, OpenIs
    <3> QED BY <3>1, <3>2
  <2>2. p.open \in [I -> Int]
    <3>1. p.open \in [I -> 0 .. Big \div 2 - 1]
      BY <1>1 DEF ProblemFits
    <3> QED BY <2>1, <3>1
  <2> QED BY <2>1, <2>2
<1>4. Summed(open) = SumOf(open, I) /\ Numbers(open, I)
  BY <1>1, SummedIs DEF Numbers
<1>5. CASE R = {}
  <2>1. Objective(p, R) = Summed(p.open)
    BY <1>5 DEF Objective
  <2>2. Summed(open) \in Int
    BY <1>1, SummedIs
  <2> QED BY <1>2, <1>3, <2>1, <2>2
<1>6. CASE R # {}
  <2> DEFINE near(i) == NearestOf(p, R, i)
  <2>1. ASSUME NEW i \in I
        PROVE  Connect(p, i, near(i)) \in Nat /\ \A b \in R : Connect(p, i, near(i)) <= Connect(p, i, b)
    <3>1. PICK f : f = [b \in R |-> Connect(p, i, b)]
      OBVIOUS
    <3>2. \A b \in R : Connect(p, i, b) \in Nat
      BY <1>1, <1>2, ConnectIs
    <3>3. f \in [R -> Int]
      BY <3>1, <3>2
    <3>4. FirstLeast(f) \in R /\ \A b \in R : f[FirstLeast(f)] <= f[b]
      BY <1>2, <1>6, <3>3, FirstLeastIs
    <3>5. near(i) = FirstLeast(f)
      BY <3>1 DEF NearestOf
    <3> HIDE DEF near
    <3> QED BY <3>1, <3>2, <3>4, <3>5
  <2>2. PICK h : h = [i \in I |-> Connect(p, i, near(i))]
    OBVIOUS
  <2> HIDE DEF near
  <2>3. PICK g, e : /\ g = [i \in I |-> IF i \in R THEN 0 ELSE open[i]]
                    /\ e = [i \in I |-> IF i \in R THEN open[i] ELSE 0]
    OBVIOUS
  <2>4. h \in [I -> Int] /\ g \in [I -> Int] /\ e \in [I -> Int]
    BY <2>1, <2>2, <2>3
  <2>5. ASSUME NEW i \in I PROVE h[i] <= g[i]
    <3>1. CASE i \in R
      <4>1. Connect(p, i, i) = 0
        BY <1>1, ConnectIs
      <4>2. h[i] <= 0
        BY <2>1, <2>2, <3>1, <4>1
      <4> QED BY <2>3, <3>1, <4>2
    <3>2. CASE i \notin R
      <4>1. PICK x : x = SearchState(p, B)[i] /\ x.cur <= open[i]
        BY <1>1, <1>3
      <4>2. /\ x.at \in {0} \union DOMAIN B /\ x.cur \in Nat
            /\ x.at # 0 => x.cur = Connect(p, i, B[x.at])
            /\ x.at = 0 => x.cur = Big
        BY <1>1, <4>1, SearchIs
      <4>3. x.at # 0
        BY <1>3, <4>1, <4>2, HalfOfBig
      <4>4. B[x.at] \in R
        BY <1>2, <4>2, <4>3 DEF Range
      <4>5. h[i] <= x.cur /\ h[i] \in Int
        BY <2>1, <2>2, <4>2, <4>3, <4>4
      <4> QED BY <2>3, <2>4, <3>2, <4>1, <4>2, <4>5
    <3> QED BY <3>1, <3>2
  <2>6. Numbers(h, I) /\ Numbers(g, I) /\ Numbers(e, I) /\ Numbers(e, R)
    BY <1>2, <2>4 DEF Numbers
  <2>7. Summed(h) = SumOf(h, I) /\ SumOf(h, I) \in Int
    BY <1>1, <2>4, SummedIs
  <2>8. SumOf(h, I) <= SumOf(g, I) /\ SumOf(g, I) \in Int /\ SumOf(e, I) \in Int
    BY <1>1, <2>5, <2>6, SumsCompare, SumFacts
  <2>9. SumOf(open, I) = SumOf(e, I) + SumOf(g, I)
    <3>1. \A i \in I : open[i] = e[i] + g[i]
      BY <2>3
    <3> QED BY <1>1, <2>6, <3>1, SumsCompare
  <2>10. PICK f : f = [b \in R |-> p.open[b]]
    OBVIOUS
  <2>11. Summed(f) = SumOf(f, R) /\ SumOf(f, R) \in Int /\ SumOf(f, R) = SumOf(e, R)
    <3>1. f \in [R -> Int] /\ Numbers(f, R)
      BY <1>2, <1>3, <2>10 DEF Numbers
    <3>2. Agree(f, e, R)
      BY <1>2, <1>3, <2>3, <2>10, <3>1 DEF Agree, Numbers
    <3> QED BY <1>2, <3>1, <3>2, SummedIs, SumFacts
  <2>12. SumOf(e, R) <= SumOf(e, I)
    <3>1. PICK Q : Q = I \ R /\ IsFiniteSet(Q) /\ R \union Q = I /\ R \cap Q = {}
      <4>1. IsFiniteSet(I \ R)
        BY <1>1, FS_Subset
      <4>2. R \union (I \ R) = I /\ R \cap (I \ R) = {}
        BY <1>2
      <4> QED BY <4>1, <4>2
    <3>2. Numbers(e, R \union Q) /\ Numbers(e, Q)
      BY <2>6, <3>1 DEF Numbers
    <3>3. SumOf(e, R \union Q) = SumOf(e, R) + SumOf(e, Q)
      BY <1>2, <3>1, <3>2, SumSplits
    <3>4. PICK z : z = [i \in Q |-> 0]
      OBVIOUS
    <3>5. z \in [Q -> Int] /\ (\A i \in Q : z[i] >= 0) /\ Agree(z, e, Q) /\ Numbers(z, Q)
      BY <2>3, <3>1, <3>4 DEF Agree, Numbers
    <3>6. SumOf(z, Q) >= 0 /\ SumOf(z, Q) = SumOf(e, Q) /\ SumOf(z, Q) \in Int
      BY <3>1, <3>5, SummedIs, SumFacts
    <3>7. SumOf(e, R) \in Int
      BY <2>11
    <3>8. SumOf(e, I) = SumOf(e, R) + SumOf(e, Q)
      BY <3>1, <3>3
    <3> QED BY <3>6, <3>7, <3>8
  <2>13. Objective(p, R) = Summed(f) + Summed(h)
    <3>1. h = [i \in Items(p) |-> Connect(p, i, NearestOf(p, R, i))]
      BY <1>1, <2>2 DEF near
    <3> QED BY <1>6, <2>10, <3>1 DEF Objective
  <2> QED BY <1>2, <1>3, <1>4, <2>7, <2>8, <2>9, <2>11, <2>12, <2>13
<1> QED BY <1>5, <1>6

\* What holds all along a search: once it is refining, the bases fit; once it
\* is settled with moves left, the search knows of no better move.
FacilityInv ==
    /\ problem \in Problems
    /\ stage \in {"greedy", "refine", "settled"}
    /\ stage # "greedy" => BasesFit(problem, bases)
    /\ (stage = "settled" /\ moves # MaxMoves) => BestMove(problem, bases).kind = "none"

\* The search starts so.
LEMMA FacilityStarts == FacilityInit => FacilityInv
BY DEF FacilityInit, FacilityInv

\* Each step of the search keeps it so.
LEMMA FacilityGoesOn ==
    ASSUME FacilityInv, [FacilityNext]_facility
    PROVE  FacilityInv'
<1>1. ProblemFits(problem) /\ problem \in Problems
  BY FacilityConstants DEF FacilityInv
<1>2. CASE OpenGreedily
  <2>1. BasesFit(problem, GreedyBases(problem))
    BY <1>1, GreedyFits
  <2> QED BY <1>1, <1>2, <2>1 DEF OpenGreedily, FacilityInv
<1>3. CASE Improve
  <2>1. PICK m : m = BestMove(problem, bases) /\ bases' = Moved(bases, m)
    BY <1>3 DEF Improve
  <2>2. BasesFit(problem, bases)
    BY <1>3 DEF Improve, FacilityInv
  <2>3. MoveFits(problem, bases, m)
    <3>1. bases \in Seq(Items(problem))
      BY <2>2 DEF BasesFit
    <3> QED BY <1>1, <2>1, <3>1, BestMoveIs
  <2>4. BasesFit(problem, Moved(bases, m))
    BY <1>1, <2>2, <2>3, MovedIs
  <2> QED BY <1>1, <1>3, <2>1, <2>4 DEF Improve, FacilityInv
<1>4. CASE Settle
  BY <1>1, <1>4 DEF Settle, FacilityInv
<1>5. CASE UNCHANGED facility
  BY <1>5 DEF facility, FacilityInv
<1> QED BY <1>2, <1>3, <1>4, <1>5 DEF FacilityNext

\* It says what is asked of the bases.
LEMMA FacilityPays == FacilityInv => RefinedPlansPay
<1> SUFFICES ASSUME FacilityInv, stage # "greedy" PROVE RefinedPlansPay
  BY DEF RefinedPlansPay
<1>1. ProblemFits(problem)
  BY FacilityConstants DEF FacilityInv
<1>2. bases \in Seq(Items(problem)) /\ Rising(bases) /\ problem.pre \subseteq Range(bases)
  BY DEF FacilityInv, BasesFit
<1>3. ASSUME stage = "settled", moves < MaxMoves, problem.cands = Items(problem)
      PROVE  Objective(problem, Range(bases)) <= Summed(problem.open)
  <2>1. PICK m : m = BestMove(problem, bases) /\ m.kind = "none"
    <3>1. moves # MaxMoves
      <4>1. MaxMoves \in Nat
        BY FacilityConstants
      <4> QED BY <1>3, <4>1
    <3> QED BY <1>3, <3>1 DEF FacilityInv
  <2>2. \A c \in problem.cands : SearchState(problem, bases)[c].cur <= problem.open[c]
    BY <1>1, <1>2, <2>1, BestMoveIs
  <2> QED BY <1>1, <1>2, <1>3, <2>2, ServedForLess
<1> QED BY <1>2, <1>3 DEF RefinedPlansPay, Rising

\* The bases never hold an item twice and keep what was open from the start;
\* and a search over all items that ends by itself leaves every item served
\* for no more than storing everything raw, whatever the costs
\* (greedy_facility_location.py 116-117, 182-191, 575-587, 679-710).
THEOREM RefinementPays == FacilityInit /\ [][FacilityNext]_facility => []RefinedPlansPay
<1>1. FacilityInv /\ [FacilityNext]_facility => FacilityInv'
  BY FacilityGoesOn
<1> QED BY <1>1, FacilityStarts, FacilityPays, PTL
=============================================================================
