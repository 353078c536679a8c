-------------------------- MODULE ServingCacheProofs --------------------------
(***************************************************************************)
(* Proofs about ServingCache, for any catalogue without cycles, any number *)
(* of requests and either eviction policy.                                 *)
(***************************************************************************)
EXTENDS ServingCache, ClosuresProofs, WellFoundedInduction

-----------------------------------------------------------------------------
(* Lists *)

\* The position of an element.
LEMMA PositionOf ==
    ASSUME NEW T, NEW s \in Seq(T), NEW t \in ToSet(s)
    PROVE  Position(s, t) \in 1..Len(s) /\ s[Position(s, t)] = t
<1>1. DOMAIN s = 1..Len(s) /\ \E i \in DOMAIN s : s[i] = t
  BY DEF ToSet
<1> QED BY <1>1 DEF Position

\* What taking an element out of a list leaves.
LEMMA WithoutOne ==
    ASSUME NEW T, NEW s \in Seq(T), NEW t
    PROVE  /\ Without(s, t) \in Seq(T)
           /\ ToSet(s) \ {t} \subseteq ToSet(Without(s, t))
           /\ ToSet(Without(s, t)) \subseteq ToSet(s)
           /\ Distinct(s) => /\ ToSet(Without(s, t)) = ToSet(s) \ {t}
                             /\ Distinct(Without(s, t))
<1>1. CASE t \notin ToSet(s)
  BY <1>1 DEF Without
<1>2. CASE t \in ToSet(s)
  <2> DEFINE p == Position(s, t)
             a == SubSeq(s, 1, p - 1)
             b == SubSeq(s, p + 1, Len(s))
             w == a \o b
  <2>1. p \in 1..Len(s) /\ s[p] = t /\ Len(s) \in Nat /\ DOMAIN s = 1..Len(s)
        /\ \A i \in 1..Len(s) : s[i] \in T
    BY <1>2, PositionOf
  <2>2. Without(s, t) = w
    BY <1>2 DEF Without, RemoveAt
  <2> HIDE DEF p
  <2>3. /\ a \in Seq(T) /\ Len(a) = p - 1 /\ \A i \in 1..(p - 1) : a[i] = s[i]
    <3>1. p - 1 \in Int /\ 1 \in Int /\ \A i \in 1..(p - 1) : s[i] \in T
      BY <2>1
    <3> QED BY <2>1, <3>1, SubSeqProperties
  <2>4. /\ b \in Seq(T) /\ Len(b) = Len(s) - p
        /\ \A i \in 1..(Len(s) - p) : b[i] = s[p + i]
    <3>2. PICK q, n : q = p + 1 /\ n = Len(s)
      OBVIOUS
    <3>1. /\ p \in Int /\ q \in Int /\ n \in Nat /\ n \in Int /\ 1 <= p /\ p <= n
          /\ q = p + 1 /\ \A i \in q .. n : s[i] \in T
      BY <2>1, <3>2
    <3>3. /\ SubSeq(s, q, n) \in Seq(T)
          /\ Len(SubSeq(s, q, n)) = IF q <= n THEN n - q + 1 ELSE 0
          /\ \A i \in 1 .. n - q + 1 : SubSeq(s, q, n)[i] = s[q + i - 1]
      BY <3>1, SubSeqProperties
    <3>4. b = SubSeq(s, q, n)
      BY <3>2
    <3> HIDE DEF b
    <3>5. n - q + 1 = n - p /\ (q <= n \/ n - p = 0)
      BY <3>1
    <3>6. Len(b) = n - p
      BY <3>3, <3>4, <3>5
    <3>7. ASSUME NEW i \in 1 .. n - p PROVE b[i] = s[p + i]
      <4>1. i \in 1 .. n - q + 1 /\ q + i - 1 = p + i
        BY <3>1
      <4> QED BY <3>3, <3>4, <4>1
    <3> QED BY <3>2, <3>3, <3>4, <3>6, <3>7
  <2> HIDE DEF a, b
  <2>5. /\ w \in Seq(T) /\ Len(w) = Len(s) - 1
        /\ \A i \in 1..(Len(s) - 1) : w[i] = IF i < p THEN s[i] ELSE s[i + 1]
    <3>1. /\ w \in Seq(T) /\ Len(w) = Len(a) + Len(b)
          /\ \A i \in 1..(Len(a) + Len(b)) : w[i] = IF i <= Len(a) THEN a[i]
                                                    ELSE b[i - Len(a)]
      BY <2>3, <2>4, ConcatProperties
    <3>2. ASSUME NEW i \in 1..(Len(s) - 1) PROVE w[i] = IF i < p THEN s[i] ELSE s[i + 1]
      <4>1. CASE i < p
        BY <2>1, <2>3, <2>4, <3>1, <4>1
      <4>2. CASE ~(i < p)
        <5> DEFINE k == i - (p - 1)
        <5>1. k \in 1..(Len(s) - p) /\ p + k = i + 1 /\ i - Len(a) = k
              /\ ~(i <= Len(a)) /\ i \in 1..(Len(a) + Len(b))
          BY <2>1, <2>3, <2>4, <4>2
        <5>2. w[i] = b[k]
          BY <3>1, <5>1
        <5> HIDE DEF k
        <5> QED BY <2>4, <4>2, <5>1, <5>2
      <4> QED BY <4>1, <4>2
    <3> QED BY <2>1, <2>3, <2>4, <3>1, <3>2
  <2> HIDE DEF w
  <2>6. DOMAIN w = 1..(Len(s) - 1)
    BY <2>5
  <2>7. ASSUME NEW x \in ToSet(s), x # t PROVE x \in ToSet(w)
    <3>1. PICK i \in 1..Len(s) : s[i] = x
      BY <2>1, <2>7 DEF ToSet
    <3>2. CASE i < p
      <4>1. i \in 1..(Len(s) - 1) /\ w[i] = x
        BY <2>1, <2>5, <3>1, <3>2
      <4> QED BY <2>6, <4>1 DEF ToSet
    <3>3. CASE i > p
      <4>1. i - 1 \in 1..(Len(s) - 1) /\ w[i - 1] = x
        BY <2>1, <2>5, <3>1, <3>3
      <4> QED BY <2>6, <4>1 DEF ToSet
    <3> QED BY <2>1, <2>7, <3>1, <3>2, <3>3
  <2>8. ASSUME NEW i \in 1..(Len(s) - 1)
        PROVE  \E k \in 1..Len(s) : w[i] = s[k] /\ k # p /\ k = IF i < p THEN i ELSE i + 1
    BY <2>1, <2>5
  <2>9. ToSet(w) \subseteq ToSet(s)
    BY <2>1, <2>6, <2>8 DEF ToSet
  <2>10. ASSUME Distinct(s) PROVE t \notin ToSet(w) /\ Distinct(w)
    <3>1. t \notin ToSet(w)
      BY <2>1, <2>6, <2>8, <2>10 DEF ToSet, Distinct
    <3>2. ASSUME NEW i \in 1..Len(w), NEW j \in 1..Len(w), w[i] = w[j] PROVE i = j
      <4>1. PICK k \in 1..Len(s) : w[i] = s[k] /\ k = IF i < p THEN i ELSE i + 1
        BY <2>5, <2>8
      <4>2. PICK l \in 1..Len(s) : w[j] = s[l] /\ l = IF j < p THEN j ELSE j + 1
        BY <2>5, <2>8
      <4>3. k = l
        BY <2>10, <3>2, <4>1, <4>2 DEF Distinct
      <4> QED BY <2>1, <2>5, <4>1, <4>2, <4>3
    <3> QED BY <3>1, <3>2 DEF Distinct
  <2> QED BY <2>2, <2>5, <2>7, <2>9, <2>10
<1> QED BY <1>1, <1>2

\* Among finitely many, one has the smallest rank.
LEMMA SmallestRank ==
    ASSUME NEW S, S # {}, NEW f \in [S -> Nat]
    PROVE  \E m \in S : \A u \in S : f[m] <= f[u]
<1> DEFINE T == {f[u] : u \in S}
           R == OpToRel(<, Nat)
<1>1. T \subseteq Nat /\ T # {}
  OBVIOUS
<1>2. PICK n \in T : \A k \in T : ~(<<k, n>> \in R)
  <2>1. IsWellFoundedOn(R, Nat)
    BY NatLessThanWellFounded
  <2> HIDE DEF R, T
  <2> QED BY <1>1, <2>1, WFMin
<1>3. n \in Nat /\ \A k \in T : k \in Nat /\ n <= k
  <2>1. R = {ss \in Nat \X Nat : ss[1] < ss[2]}
    BY DEF OpToRel
  <2>2. ASSUME NEW k \in T PROVE n <= k
    <3>1. k \in Nat /\ n \in Nat /\ <<k, n>> \in Nat \X Nat
      BY <1>1
    <3>2. <<k, n>> \notin R
      BY <1>2
    <3> HIDE DEF R
    <3>3. ~(k < n)
      BY <2>1, <3>1, <3>2
    <3> QED BY <3>1, <3>3
  <2> QED BY <1>1, <2>2
<1>4. PICK m \in S : f[m] = n
  OBVIOUS
<1> QED BY <1>3, <1>4

-----------------------------------------------------------------------------
(* Type correctness *)

\* The cache lists a tensor once, and a pass visits what it has listed.
CacheInv ==
    /\ TypeOK
    /\ Distinct(cache)
    /\ evictor.left \subseteq Listed

\* TypeOK as facts about its parts.
LEMMA Typed ==
    ASSUME TypeOK
    PROVE  /\ cache \in Seq(Tids) /\ Cached \in SUBSET Tids /\ young \in SUBSET Cached
           /\ pin \in [Tids -> {"none", "live", "stale"}]
           /\ req \in [Requests -> Request] /\ evictor \in Evictor
           /\ shared \in SUBSET Tids /\ late \in SUBSET Requests
           /\ losses \in [Requests -> Nat]
<1>1. ToSet(cache) \subseteq Tids
  BY DEF TypeOK, ToSet
<1> QED BY <1>1 DEF TypeOK, Cached

\* A plan is a set of tensors.
LEMMA PlanTyped ==
    ASSUME NEW params, NEW have PROVE NeededFor(Base, params, have) \in SUBSET Tids
BY DEF NeededFor

\* The record of a request that has not begun.
LEMMA IdleTyped == Idle \in Request /\ Idle.pc = "idle"
BY ServingAssumption, MaxTidAssumption DEF Idle, Request, RequestPCs

\* The steps of a request give it a new record; few change anything else.
LEMMA RequestTyped ==
    ASSUME TypeOK, NEW r \in Requests
    PROVE  /\ \A t \in Wants[r] : Ask(r, t) => req' \in [Requests -> Request]
           /\ Look(r) \/ Lock(r) \/ Enter(r) \/ Finish(r) \/ Fail(r) \/ Close(r) \/ Stat(r) =>
                 req' \in [Requests -> Request]
           /\ \A m \in Models[r] : Warm(r, m) => req' \in [Requests -> Request]
           /\ \A t \in Tids : Decode(r, t) => req' \in [Requests -> Request]
<1> USE ServingAssumption, MaxTidAssumption
<1>0. req \in [Requests -> Request] /\ req[r] \in Request
  BY Typed
<1>1. \A rec \in Request : Step(r, rec) => req' \in [Requests -> Request]
  BY <1>0 DEF Step
<1>2. ASSUME NEW t \in Wants[r], Ask(r, t) PROVE req' \in [Requests -> Request]
  <2>1. t \in Tids /\ t \in 0..MaxTid /\ req[r].count + 1 \in 0..MaxRequests
    BY <1>0, <1>2 DEF Ask, Request, Tids
  <2>2. [Idle EXCEPT !.pc = "look", !.tid = t, !.count = req[r].count + 1] \in Request
    BY <2>1, IdleTyped DEF Idle, Request, RequestPCs
  <2> QED BY <1>1, <1>2, <2>2 DEF Ask
<1>3. \A pc \in RequestPCs : [req[r] EXCEPT !.pc = pc] \in Request
  BY <1>0 DEF Request
<1>4. CASE Look(r)
  BY <1>1, <1>3, <1>4 DEF Look, RequestPCs
<1>5. CASE Lock(r)
  <2> DEFINE plan == ChainPrefix(req[r].tid)
  <2>1. plan \in SUBSET Tids
    BY PlanTyped DEF ChainPrefix
  <2> HIDE DEF plan
  <2>2. [req[r] EXCEPT !.pc = "entering", !.entries = plan, !.todo = plan] \in Request
    BY <1>0, <2>1 DEF Request, RequestPCs
  <2>3. [req[r] EXCEPT !.pc = "stat"] \in Request
    BY <1>3 DEF RequestPCs
  <2> QED BY <1>1, <1>5, <2>2, <2>3 DEF Lock, plan
<1>6. CASE Enter(r)
  BY <1>1, <1>3, <1>6 DEF Enter, RequestPCs
<1>7. CASE Finish(r) \/ Close(r)
  <2>1. \A pc \in RequestPCs :
          [req[r] EXCEPT !.pc = pc, !.entries = {}, !.todo = {}, !.held = {}] \in Request
    BY <1>0 DEF Request
  <2> QED BY <1>1, <1>7, <2>1 DEF Finish, Close, Leave, RequestPCs
<1>f. CASE Fail(r)
  <2>1. \A pc \in RequestPCs :
          [req[r] EXCEPT !.pc = pc, !.todo = {}, !.held = {}] \in Request
    BY <1>0 DEF Request
  <2>2. PICK t : \E pc \in Endings(r, t) :
                    Step(r, [req[r] EXCEPT !.pc = pc, !.todo = {}, !.held = {}])
    BY <1>f DEF Fail
  <2>3. Endings(r, t) \subseteq RequestPCs
    BY DEF Endings, RequestPCs
  <2> QED BY <1>1, <2>1, <2>2, <2>3
<1>8. CASE Stat(r)
  <2>1. [Idle EXCEPT !.pc = "served", !.count = req[r].count] \in Request
    BY <1>0, IdleTyped DEF Idle, Request, RequestPCs
  <2>2. [req[r] EXCEPT !.pc = "look", !.attempt = 2] \in Request
    <3>1. 2 \in 1..2 /\ "look" \in RequestPCs
      BY DEF RequestPCs
    <3> QED BY <1>0, <3>1 DEF Request
  <2>3. [req[r] EXCEPT !.pc = "error"] \in Request
    BY <1>3 DEF RequestPCs
  <2> QED BY <1>1, <1>8, <2>1, <2>2, <2>3 DEF Stat
<1>9. ASSUME NEW m \in Models[r], Warm(r, m) PROVE req' \in [Requests -> Request]
  <2> DEFINE plan == NeededFor(Base, m, Cached)
  <2>1. plan \in SUBSET Tids /\ m \in SUBSET Tids /\ req[r].count + 1 \in 0..MaxRequests
    BY <1>0, <1>9, PlanTyped DEF Warm, Request
  <2> HIDE DEF plan
  <2>2. [Idle EXCEPT !.pc = "running", !.model = m, !.entries = plan, !.todo = plan,
                     !.count = req[r].count + 1] \in Request
    BY <2>1, IdleTyped DEF Idle, Request, RequestPCs
  <2> QED BY <1>1, <1>9, <2>2 DEF Warm, plan
<1>10. ASSUME NEW t \in Tids, Decode(r, t) PROVE req' \in [Requests -> Request]
  <2>1. {Base[t]} \ {0} \subseteq Tids
    BY DEF Bases, Tids
  <2>2. [req[r] EXCEPT !.todo = @ \ {t},
                       !.held = @ \union {t} \union ({Base[t]} \ {0})] \in Request
    BY <1>0, <2>1 DEF Request
  <2> QED BY <1>1, <1>10, <2>2 DEF Decode
<1> QED BY <1>2, <1>4, <1>5, <1>6, <1>7, <1>f, <1>8, <1>9, <1>10

\* No step breaks the invariant of the cache.
LEMMA CacheInvStep == CacheInv /\ [Next]_vars => CacheInv'
<1> SUFFICES ASSUME CacheInv, [Next]_vars PROVE CacheInv'
  OBVIOUS
<1> USE ServingAssumption, MaxTidAssumption
<1>0. /\ TypeOK /\ cache \in Seq(Tids) /\ Cached \in SUBSET Tids /\ young \in SUBSET Cached
      /\ pin \in [Tids -> {"none", "live", "stale"}]
      /\ req \in [Requests -> Request] /\ evictor \in Evictor
      /\ shared \in SUBSET Tids /\ late \in SUBSET Requests
      /\ losses \in [Requests -> Nat]
      /\ Distinct(cache) /\ evictor.left \subseteq Listed
  BY Typed DEF CacheInv
<1>1. ASSUME NEW r \in Requests,
             Look(r) \/ Lock(r) \/ Enter(r) \/ Finish(r) \/ Fail(r) \/ Close(r) \/ Stat(r)
      PROVE  CacheInv'
  <2>1. req' \in [Requests -> Request]
    BY <1>0, <1>1, RequestTyped
  <2>2. UNCHANGED <<cache, young, evictor>>
    BY <1>1 DEF Look, Lock, Enter, Finish, Fail, Close, Stat, Leave, files, ghosts
  <2>3. /\ pin' \in [Tids -> {"none", "live", "stale"}]
        /\ shared' \in SUBSET Tids /\ late' \in SUBSET Requests
    BY <1>0, <1>1 DEF Look, Lock, Enter, Finish, Fail, Close, Stat, Leave, Pin, Overlap, files,
                      ghosts, Request
  <2>4. losses' \in [Requests -> Nat]
    <3>1. CASE Fail(r)
      <4>1. PICK n \in {0, 1} : losses' = [losses EXCEPT ![r] = @ + n]
        BY <3>1 DEF Fail
      <4> QED BY <1>0, <4>1
    <3>2. CASE UNCHANGED losses
      BY <1>0, <3>2
    <3> QED
      BY <1>1, <3>1, <3>2 DEF Look, Lock, Enter, Finish, Close, Stat, Leave, ghosts
  <2> QED BY <1>0, <2>1, <2>2, <2>3, <2>4 DEF CacheInv, TypeOK, Cached, Listed
<1>2. ASSUME NEW r \in Requests, NEW t \in Wants[r], Ask(r, t) PROVE CacheInv'
  <2>1. req' \in [Requests -> Request]
    BY <1>0, <1>2, RequestTyped
  <2> QED BY <1>0, <1>2, <2>1 DEF Ask, files, CacheInv, TypeOK, Cached, Listed
<1>3. ASSUME NEW r \in Requests, NEW m \in Models[r], Warm(r, m) PROVE CacheInv'
  <2>1. req' \in [Requests -> Request]
    BY <1>0, <1>3, RequestTyped
  <2>2. Overlap(r, NeededFor(Base, m, Cached)) \subseteq Tids
    BY PlanTyped DEF Overlap
  <2> QED BY <1>0, <1>3, <2>1, <2>2 DEF Warm, Pin, CacheInv, TypeOK, Cached, Listed
<1>4. ASSUME NEW r \in Requests, NEW t \in Tids, Decode(r, t) PROVE CacheInv'
  <2>1. req' \in [Requests -> Request]
    BY <1>0, <1>4, RequestTyped
  <2>2. UNCHANGED <<pin, evictor, shared, late, losses>> /\ cache' = Append(Without(cache, t), t)
        /\ young' = young \union {t}
    BY <1>4 DEF Decode, ghosts, Touch
  <2>3. /\ Without(cache, t) \in Seq(Tids) /\ Distinct(Without(cache, t))
        /\ ToSet(Without(cache, t)) = Cached \ {t}
    BY <1>0, WithoutOne DEF Cached
  <2>4. cache' \in Seq(Tids) /\ Distinct(cache') /\ ToSet(cache') = Cached \union {t}
    BY <2>2, <2>3, AppendOne
  <2> QED BY <1>0, <2>1, <2>2, <2>4 DEF CacheInv, TypeOK, Cached, Listed
<1>5. CASE Age \/ PinsStale \/ Crash
  <2>1. UNCHANGED <<cache, evictor>> /\ young' \in SUBSET young
        /\ pin' \in [Tids -> {"none", "live", "stale"}]
    BY <1>0, <1>5 DEF Age, PinsStale, Crash, files
  <2>2. /\ req' \in [Requests -> Request] /\ losses' \in [Requests -> Nat]
        /\ shared' \in SUBSET Tids /\ late' \in SUBSET Requests
    <3>1. CASE Age \/ PinsStale
      BY <1>0, <3>1 DEF Age, PinsStale, ghosts
    <3>2. CASE Crash
      <4>1. \A r \in Requests : [Idle EXCEPT !.count = req[r].count] \in Request
        BY <1>0, IdleTyped DEF Idle, Request
      <4> QED BY <3>2, <4>1 DEF Crash
    <3> QED BY <1>5, <3>1, <3>2
  <2> QED BY <1>0, <2>1, <2>2 DEF CacheInv, TypeOK, Cached, Listed
<1>6. CASE List
  <2>2. evictor.passes + 1 \in 0..MaxPasses
    BY <1>0, <1>6 DEF List, Evictor
  <2>3. young \in SUBSET Tids
    BY <1>0
  <2>4. evictor' \in Evictor /\ evictor'.left = ToSet(evictor'.listed)
    BY <1>0, <1>6, <2>2, <2>3 DEF List, Evictor, Cached
  <2> QED BY <1>0, <1>6, <2>4 DEF List, files, ghosts, CacheInv, TypeOK, Cached, Listed
<1>7. CASE ReadPins
  <2>1. evictor' \in Evictor /\ evictor'.left = evictor.left /\ evictor'.listed = evictor.listed
    BY <1>0, <1>7 DEF ReadPins, Evictor, LivePins
  <2> QED BY <1>0, <1>7, <2>1 DEF ReadPins, files, ghosts, CacheInv, TypeOK, Cached, Listed
<1>8. ASSUME NEW S \in SUBSET Tids, evictor' = Swept(S)
      PROVE  evictor' \in Evictor /\ evictor'.left \subseteq evictor.left
             /\ evictor'.listed = evictor.listed
  BY <1>0, <1>8 DEF Swept, Evictor
<1>9. CASE Skip
  <2>1. evictor' \in Evictor /\ evictor'.left \subseteq Listed /\ evictor'.listed = evictor.listed
    BY <1>0, <1>8, <1>9 DEF Skip
  <2> QED BY <1>0, <1>9, <2>1 DEF Skip, files, ghosts, CacheInv, TypeOK, Cached, Listed
<1>10. CASE Evict
  <2>1. evictor' \in Evictor /\ evictor'.left \subseteq Listed /\ evictor'.listed = evictor.listed
    <3>1. {Victim} \in SUBSET Tids /\ evictor' = Swept({Victim})
      BY <1>0, <1>10 DEF Evict
    <3> QED BY <1>0, <1>8, <3>1
  <2>2. cache' \in Seq(Tids) /\ Distinct(cache') /\ ToSet(cache') = Cached \ {Victim}
    BY <1>0, <1>10, WithoutOne DEF Evict, Cached
  <2>3. losses' \in [Requests -> Nat]
    BY <1>0, <1>10 DEF Evict
  <2> QED BY <1>0, <1>10, <2>1, <2>2, <2>3 DEF Evict, CacheInv, TypeOK, Cached, Listed
<1>11. CASE Sleep
  <2>1. evictor' \in Evictor /\ evictor'.left = {}
    BY <1>0, <1>11 DEF Sleep, Asleep, Evictor
  <2> QED BY <1>0, <1>11, <2>1 DEF Sleep, files, CacheInv, TypeOK, Cached, Listed
<1>12. CASE UNCHANGED vars
  BY <1>0, <1>12 DEF vars, ghosts, CacheInv, TypeOK, Cached, Listed
<1> QED
  BY <1>1, <1>2, <1>3, <1>4, <1>5, <1>6, <1>7, <1>9, <1>10, <1>11, <1>12 DEF Next, Work, Daemon

\* An empty cache satisfies it.
LEMMA CacheInvInit == Init => CacheInv
<1> SUFFICES ASSUME Init PROVE CacheInv
  OBVIOUS
<1> USE ServingAssumption, MaxTidAssumption
<1>1. cache = <<>> /\ cache \in Seq(Tids) /\ Cached = {} /\ Distinct(cache)
  BY DEF Init, Cached, ToSet, Distinct
<1>2. evictor \in Evictor /\ evictor.left = {}
  BY DEF Init, Asleep, Evictor
<1> QED BY <1>1, <1>2, IdleTyped DEF Init, CacheInv, TypeOK

\* The invariant of the cache holds in every run.
LEMMA AlwaysCacheInv == Spec => []CacheInv
BY CacheInvInit, CacheInvStep, PTL DEF Spec

\* All variables keep their types, for any requests, tensors and sizes.
THEOREM ServingTyped == Spec => []TypeOK
<1>1. CacheInv => TypeOK
  BY DEF CacheInv
<1> QED BY <1>1, AlwaysCacheInv, PTL

-----------------------------------------------------------------------------
(***************************************************************************)
(* Pins.  A pin file tells nothing of who made it: it goes when the first  *)
(* of the runs that share it ends.  So an entry of one run only has a pin, *)
(* and the pass has seen it if it read the pins after the run began.       *)
(***************************************************************************)

Serves(r, t) == Running(r) /\ t \in req[r].entries

PinInv ==
    /\ \A r, q \in Requests, t \in Tids : r # q /\ Serves(r, t) /\ Serves(q, t) => t \in shared
    /\ \A r \in Requests, t \in Tids : Serves(r, t) => t \in shared \/ pin[t] # "none"
    /\ evictor.pc = "sweeping" =>
          \A r \in Requests \ late, t \in Tids :
             Serves(r, t) => t \in shared \/ pin[t] = "stale" \/ t \in evictor.spared

\* Steps that begin or end no run.
LEMMA PinsKept ==
    ASSUME PinInv, UNCHANGED <<pin, shared, late>>,
           \A r \in Requests, t \in Tids : Serves(r, t)' => Serves(r, t),
           evictor'.pc = "sweeping" => evictor.pc = "sweeping" /\ evictor'.spared = evictor.spared
    PROVE  PinInv'
<1> DEFINE Served(r, t) == Serves(r, t)
           Serving(r, t) == Serves(r, t)'
<1>1. \A r \in Requests, t \in Tids : Serving(r, t) => Served(r, t)
  OBVIOUS
<1>2. PinInv' <=>
        /\ \A r, q \in Requests, t \in Tids : r # q /\ Serving(r, t) /\ Serving(q, t) => t \in shared'
        /\ \A r \in Requests, t \in Tids : Serving(r, t) => t \in shared' \/ pin'[t] # "none"
        /\ evictor'.pc = "sweeping" =>
              \A r \in Requests \ late', t \in Tids :
                 Serving(r, t) => t \in shared' \/ pin'[t] = "stale" \/ t \in evictor'.spared
  BY DEF PinInv
<1>3. PinInv <=>
        /\ \A r, q \in Requests, t \in Tids : r # q /\ Served(r, t) /\ Served(q, t) => t \in shared
        /\ \A r \in Requests, t \in Tids : Served(r, t) => t \in shared \/ pin[t] # "none"
        /\ evictor.pc = "sweeping" =>
              \A r \in Requests \ late, t \in Tids :
                 Served(r, t) => t \in shared \/ pin[t] = "stale" \/ t \in evictor.spared
  BY DEF PinInv
<1> HIDE DEF Served, Serving
<1> QED BY <1>1, <1>2, <1>3

\* A run begins, and pins the entries S.
LEMMA PinsMade ==
    ASSUME CacheInv, PinInv, NEW r \in Requests, NEW S \in SUBSET Tids, Pin(r, S),
           UNCHANGED evictor, ~Running(r),
           \A t \in Tids : Serves(r, t)' => t \in S,
           \A q \in Requests, t \in Tids : q # r => (Serves(q, t)' <=> Serves(q, t))
    PROVE  PinInv'
<1>1. /\ \A t \in Tids : pin'[t] = IF t \in S THEN "live" ELSE pin[t]
      /\ shared' = shared \union {t \in S : \E q \in Requests \ {r} : Serves(q, t)}
      /\ late' = IF evictor.pc = "sweeping" THEN late \union {r} ELSE late
  BY DEF Pin, Overlap, Serves
<1>2. ASSUME NEW q \in Requests, NEW p \in Requests, NEW t \in Tids, q # p,
             Serves(q, t)', Serves(p, t)'
      PROVE  t \in shared'
  BY <1>1, <1>2 DEF PinInv
<1>3. ASSUME NEW q \in Requests, NEW t \in Tids, Serves(q, t)'
      PROVE  t \in shared' \/ pin'[t] # "none"
  BY <1>1, <1>3 DEF PinInv
<1>4. ASSUME evictor'.pc = "sweeping", NEW q \in Requests \ late', NEW t \in Tids, Serves(q, t)'
      PROVE  t \in shared' \/ pin'[t] = "stale" \/ t \in evictor'.spared
  <2>1. q # r /\ q \notin late /\ Serves(q, t)
    BY <1>1, <1>4
  <2>2. t \in S => t \in shared'
    BY <1>1, <2>1
  <2> QED BY <1>1, <1>4, <2>1, <2>2 DEF PinInv
<1> QED BY <1>2, <1>3, <1>4 DEF PinInv

\* A run ends, and unlinks the pins of its entries.
LEMMA PinsGone ==
    ASSUME CacheInv, PinInv, NEW r \in Requests, Running(r), NEW pc \in {"stat", "warmed", "error"},
           Leave(r, pc)
    PROVE  PinInv'
<1>0. req \in [Requests -> Request] /\ pin \in [Tids -> {"none", "live", "stale"}]
  BY Typed DEF CacheInv
<1>1. /\ \A t \in Tids : pin'[t] = IF t \in req[r].entries THEN "none" ELSE pin[t]
      /\ shared' = {t \in shared : \E q \in Requests \ {r} : Serves(q, t)}
      /\ late' = late \ {r} /\ UNCHANGED evictor
      /\ \A q \in Requests : q # r => req'[q] = req[q]
      /\ req'[r].pc = pc
  BY <1>0 DEF Leave, Step, Unpinned, Serves, Request
<1>2. \A q \in Requests, t \in Tids : Serves(q, t)' <=> q # r /\ Serves(q, t)
  BY <1>1 DEF Serves, Running
<1>3. ASSUME NEW q \in Requests, NEW p \in Requests, NEW t \in Tids, q # p,
             Serves(q, t)', Serves(p, t)'
      PROVE  t \in shared'
  BY <1>1, <1>2, <1>3 DEF PinInv
<1>4. ASSUME NEW q \in Requests, NEW t \in Tids, Serves(q, t)'
      PROVE  /\ q # r /\ Serves(q, t)
             /\ t \in shared => t \in shared'
             /\ t \notin shared => pin'[t] = pin[t]
  <2>1. q # r /\ Serves(q, t)
    BY <1>2, <1>4
  <2>2. t \notin shared => t \notin req[r].entries
    BY <2>1 DEF PinInv, Serves
  <2> QED BY <1>1, <2>1, <2>2
<1>5. ASSUME NEW q \in Requests, NEW t \in Tids, Serves(q, t)'
      PROVE  t \in shared' \/ pin'[t] # "none"
  BY <1>4, <1>5 DEF PinInv
<1>6. ASSUME evictor'.pc = "sweeping", NEW q \in Requests \ late', NEW t \in Tids, Serves(q, t)'
      PROVE  t \in shared' \/ pin'[t] = "stale" \/ t \in evictor'.spared
  <2>1. q \notin late
    BY <1>1, <1>4, <1>6
  <2> QED BY <1>1, <1>4, <1>6, <2>1 DEF PinInv
<1> QED BY <1>3, <1>5, <1>6 DEF PinInv

\* No step breaks the invariant of the pins.
LEMMA PinStep == CacheInv /\ PinInv /\ [Next]_vars => PinInv'
<1> SUFFICES ASSUME CacheInv, PinInv, [Next]_vars PROVE PinInv'
  OBVIOUS
<1>0. /\ req \in [Requests -> Request] /\ pin \in [Tids -> {"none", "live", "stale"}]
      /\ evictor \in Evictor /\ Cached \in SUBSET Tids
  BY Typed DEF CacheInv
<1>1. ASSUME NEW r \in Requests, NEW rec, Step(r, rec), UNCHANGED <<pin, evictor, shared, late>>,
             rec.pc \in {"running", "closing", "stuck"} =>
                Running(r) /\ rec.entries = req[r].entries
      PROVE  PinInv'
  <2>1. \A q \in Requests, t \in Tids : Serves(q, t)' => Serves(q, t)
    BY <1>0, <1>1 DEF Step, Serves, Running
  <2> QED BY <1>1, <2>1, PinsKept
<1>2. ASSUME NEW r \in Requests, Look(r) \/ Lock(r) \/ Stat(r) PROVE PinInv'
  BY <1>0, <1>1, <1>2 DEF Look, Lock, Stat, files, ghosts, Request, Idle
<1>3. ASSUME NEW r \in Requests, NEW t \in Wants[r], Ask(r, t) PROVE PinInv'
  BY <1>0, <1>1, <1>3 DEF Ask, files, Idle
<1>4. ASSUME NEW r \in Requests, NEW t \in Tids, Decode(r, t) PROVE PinInv'
  BY <1>0, <1>1, <1>4 DEF Decode, ghosts, Request, Running
<1>f. ASSUME NEW r \in Requests, Fail(r) PROVE PinInv'
  <2>1. PICK pc : Step(r, [req[r] EXCEPT !.pc = pc, !.todo = {}, !.held = {}])
    BY <1>f DEF Fail
  <2> DEFINE rec == [req[r] EXCEPT !.pc = pc, !.todo = {}, !.held = {}]
  <2>2. Running(r) /\ UNCHANGED <<pin, evictor, shared, late>>
    BY <1>f DEF Fail, Running, files
  <2>3. rec.entries = req[r].entries /\ Step(r, rec)
    BY <1>0, <2>1 DEF Request
  <2> HIDE DEF rec
  <2> QED BY <1>1, <2>2, <2>3
<1>5. ASSUME NEW r \in Requests, Enter(r) PROVE PinInv'
  <2>1. /\ ~Running(r) /\ UNCHANGED evictor /\ req[r].entries \in SUBSET Tids
        /\ Pin(r, req[r].entries)
    BY <1>0, <1>5 DEF Enter, Running, Request
  <2>2. /\ \A q \in Requests : q # r => req'[q] = req[q]
        /\ req'[r].entries = req[r].entries
    BY <1>0, <1>5 DEF Enter, Step, Request
  <2> QED BY <2>1, <2>2, PinsMade DEF Serves, Running
<1>6. ASSUME NEW r \in Requests, NEW m \in Models[r], Warm(r, m) PROVE PinInv'
  <2> DEFINE plan == NeededFor(Base, m, Cached)
  <2>1. ~Running(r) /\ UNCHANGED evictor /\ plan \in SUBSET Tids /\ Pin(r, plan)
    BY <1>6, PlanTyped DEF Warm, Running, Waiting
  <2>2. /\ \A q \in Requests : q # r => req'[q] = req[q]
        /\ req'[r].entries = plan
    BY <1>0, <1>6 DEF Warm, Step, Idle
  <2> HIDE DEF plan
  <2> QED BY <2>1, <2>2, PinsMade DEF Serves, Running
<1>7. ASSUME NEW r \in Requests, Finish(r) \/ Close(r) PROVE PinInv'
  BY <1>7, PinsGone DEF Finish, Close, Running
<1>8. CASE PinsStale
  <2>1. /\ \A t \in Tids : /\ pin[t] = "live" => pin'[t] = "stale"
                           /\ pin[t] # "live" => pin'[t] = pin[t]
        /\ UNCHANGED <<shared, late, evictor, req>>
    BY <1>0, <1>8 DEF PinsStale, ghosts
  <2>2. \A r \in Requests, t \in Tids : Serves(r, t)' <=> Serves(r, t)
    BY <2>1 DEF Serves, Running
  <2> QED BY <2>1, <2>2 DEF PinInv
<1>9. CASE Crash
  <2>1. \A r \in Requests : ~Running(r)'
    BY <1>9 DEF Crash, Running, Idle
  <2> QED BY <2>1 DEF PinInv, Serves
<1>10. CASE ReadPins
  <2>1. /\ UNCHANGED <<pin, req, shared, late>>
        /\ evictor'.spared = evictor.spared \union {t \in Tids : pin[t] = "live"}
    BY <1>0, <1>10 DEF ReadPins, files, ghosts, Evictor, LivePins
  <2>2. \A r \in Requests, t \in Tids : Serves(r, t)' <=> Serves(r, t)
    BY <2>1 DEF Serves, Running
  <2>3. \A t \in Tids : pin[t] \in {"none", "live", "stale"}
    BY <1>0
  <2> QED BY <2>1, <2>2, <2>3 DEF PinInv
<1>11. CASE Sleep
  <2>1. evictor'.pc = "asleep" /\ UNCHANGED <<pin, req, shared>>
    BY <1>11 DEF Sleep, Asleep, files
  <2>2. \A r \in Requests, t \in Tids : Serves(r, t)' <=> Serves(r, t)
    BY <2>1 DEF Serves, Running
  <2> QED BY <2>1, <2>2 DEF PinInv
<1>12. CASE Age \/ List \/ Skip \/ Evict \/ UNCHANGED vars
  <2>1. UNCHANGED <<pin, req, shared, late>>
    BY <1>12 DEF Age, List, Skip, Evict, files, ghosts, vars
  <2>2. evictor'.pc = "sweeping" => evictor.pc = "sweeping" /\ evictor'.spared = evictor.spared
    <3>1. \A S : Swept(S).spared = evictor.spared /\ Swept(S).pc = evictor.pc
      BY <1>0 DEF Swept, Evictor
    <3>2. CASE Skip \/ Evict
      BY <3>1, <3>2 DEF Skip, Evict, SweepOn
    <3>3. CASE Age \/ List \/ UNCHANGED vars
      BY <3>3 DEF Age, List, vars
    <3> QED BY <1>12, <3>2, <3>3
  <2>3. \A r \in Requests, t \in Tids : Serves(r, t)' => Serves(r, t)
    BY <2>1 DEF Serves, Running
  <2> QED BY <2>1, <2>2, <2>3, PinsKept
<1> QED
  BY <1>2, <1>3, <1>4, <1>f, <1>5, <1>6, <1>7, <1>8, <1>9, <1>10, <1>11, <1>12
  DEF Next, Work, Daemon

\* The invariant of the pins holds in every run.
LEMMA AlwaysPinInv == Spec => [](CacheInv /\ PinInv)
<1>1. Init => PinInv
  <2>1. Init => \A r \in Requests, t \in Tids : ~Serves(r, t)
    BY DEF Init, Serves, Running, Idle
  <2>2. Init => evictor.pc # "sweeping"
    BY DEF Init, Asleep
  <2> QED BY <2>1, <2>2 DEF PinInv
<1> QED BY <1>1, CacheInvInit, CacheInvStep, PinStep, PTL DEF Spec

\* Only an eviction takes a tensor from the cache, and it takes one.
LEMMA OnlyEvict ==
    ASSUME CacheInv, [Next]_vars, NEW t \in Cached, t \notin Cached'
    PROVE  Evict /\ t = Victim
<1>0. cache \in Seq(Tids)
  BY Typed DEF CacheInv
<1>1. CASE Evict
  BY <1>0, <1>1, WithoutOne DEF Evict, Cached
<1>2. ASSUME NEW r \in Requests, NEW u \in Tids, Decode(r, u) PROVE FALSE
  <2>1. cache' = Append(Without(cache, u), u)
    BY <1>2 DEF Decode, Touch
  <2>2. Without(cache, u) \in Seq(Tids) /\ Cached \ {u} \subseteq ToSet(Without(cache, u))
    BY <1>0, WithoutOne DEF Cached
  <2>3. Cached \subseteq Cached'
    BY <2>1, <2>2, AppendOne DEF Cached
  <2> QED BY <2>3
<1>3. CASE UNCHANGED cache
  BY <1>3 DEF Cached
<1> QED
  BY <1>1, <1>2, <1>3, Zenon
  DEF Next, Work, Daemon, Look, Lock, Enter, Finish, Fail, Close, Stat, Leave, Ask, Warm, Age,
      PinsStale, Crash, List, ReadPins, Skip, Sleep, files, vars

\* No entry of a run is evicted while it runs, except one that runs share, one
\* whose pin is older than an hour, or of a run the pass has not seen: for any
\* requests, any deltas and any number of passes.
THEOREM PinsDoProtect == Spec => PinsProtect
<1> DEFINE Kept == \A r \in Requests : \A t \in req[r].entries :
          Running(r) /\ t \in Cached /\ t \notin Cached'
             => t \in shared \/ pin[t] = "stale" \/ r \in late
<1>1. CacheInv /\ PinInv /\ [Next]_vars => [Kept]_vars
  <2> SUFFICES ASSUME CacheInv, PinInv, [Next]_vars,
                      NEW r \in Requests, NEW t \in req[r].entries,
                      Running(r), t \in Cached, t \notin Cached'
               PROVE  t \in shared \/ pin[t] = "stale" \/ r \in late
    OBVIOUS
  <2>1. Evict /\ t = Victim
    BY OnlyEvict
  <2>2. evictor.pc = "sweeping" /\ t \notin evictor.spared /\ t \in Tids
    BY <2>1, Typed DEF Evict, SweepOn, CacheInv
  <2> QED BY <2>2 DEF PinInv, Serves
<1> HIDE DEF Kept
<1>2. [][Kept]_vars <=> PinsProtect
  BY DEF Kept, PinsProtect
<1> QED BY <1>1, <1>2, AlwaysPinInv, PTL DEF Spec

-----------------------------------------------------------------------------
(* The order of a sweep *)

\* Multiplying keeps the order.
LEMMA TimesOrder ==
    ASSUME NEW x \in Nat, NEW y \in Nat, NEW n \in Nat \ {0}
    PROVE  x * n \in Nat /\ (x <= y <=> x * n <= y * n)
<1>1. ASSUME x <= y PROVE x * n <= y * n
  <2>1. PICK k \in Nat : y = x + k
    <3>1. y - x \in Nat /\ y = x + (y - x)
      BY <1>1
    <3> QED BY <3>1
  <2>2. y * n = x * n + k * n /\ k * n \in Nat /\ x * n \in Nat
    BY <2>1
  <2> QED BY <2>2
<1>2. ASSUME x > y PROVE x * n > y * n
  <2>1. PICK k \in Nat : x = y + 1 + k
    <3>1. x - y - 1 \in Nat /\ x = y + 1 + (x - y - 1)
      BY <1>2
    <3> QED BY <3>1
  <2>2. x * n = y * n + n + k * n /\ k * n \in Nat /\ y * n \in Nat
    BY <2>1
  <2> QED BY <2>2
<1> QED BY <1>1, <1>2

\* Ratios: if a/p is at most b/q, and that at most c/r, then a/p is at most c/r;
\* and less, if one of the two is less.
LEMMA RatiosOrder ==
    ASSUME NEW a \in Nat, NEW b \in Nat, NEW c \in Nat,
           NEW p \in Nat \ {0}, NEW q \in Nat \ {0}, NEW r \in Nat \ {0},
           a * q <= b * p, b * r <= c * q
    PROVE  /\ a * r <= c * p
           /\ a * q < b * p \/ b * r < c * q => a * r < c * p
<1>1. PICK aq, bp, br, cq, ar, cp \in Nat :
         aq = a * q /\ bp = b * p /\ br = b * r /\ cq = c * q /\ ar = a * r /\ cp = c * p
  OBVIOUS
<1>2. aq * r <= bp * r /\ (bp * r <= aq * r => bp <= aq)
  BY <1>1, TimesOrder
<1>3. br * p <= cq * p /\ (cq * p <= br * p => cq <= br)
  BY <1>1, TimesOrder
<1>4. bp * r = br * p /\ aq * r = ar * q /\ cq * p = cp * q
  <2>1. (b * p) * r = (b * r) * p
    OBVIOUS
  <2>2. (a * q) * r = (a * r) * q
    OBVIOUS
  <2>3. (c * q) * p = (c * p) * q
    OBVIOUS
  <2> QED BY <1>1, <2>1, <2>2, <2>3
<1>5. (ar <= cp <=> ar * q <= cp * q) /\ (cp <= ar <=> cp * q <= ar * q)
  BY <1>1, TimesOrder
<1>6. /\ aq * r \in Nat /\ bp * r \in Nat /\ br * p \in Nat /\ cq * p \in Nat
      /\ ar * q \in Nat /\ cp * q \in Nat
  BY <1>1, TimesOrder
<1>7. PICK i, k, l \in Nat : i = ar * q /\ k = bp * r /\ l = cp * q
  BY <1>6
<1>8. i <= k /\ k <= l /\ (k <= i => bp <= aq) /\ (l <= k => cq <= br)
      /\ (ar <= cp <=> i <= l) /\ (cp <= ar <=> l <= i)
  BY <1>2, <1>3, <1>4, <1>5, <1>7
<1>9. ar <= cp /\ (aq < bp \/ br < cq => ar < cp)
  BY <1>1, <1>7, <1>8
<1> QED BY <1>1, <1>9

\* Of finitely many, one has none before it in an order.
LEMMA FirstInOrder ==
    ASSUME NEW S, IsFiniteSet(S), S # {}, NEW R,
           \A a \in S : <<a, a>> \notin R,
           \A a, b, c \in S : <<a, b>> \in R /\ <<b, c>> \in R => <<a, c>> \in R
    PROVE  \E m \in S : \A u \in S : <<u, m>> \notin R
<1> DEFINE B(t) == {u \in S : <<u, t>> \in R}
           f == [t \in S |-> Cardinality(B(t))]
<1>1. \A t \in S : IsFiniteSet(B(t)) /\ Cardinality(B(t)) \in Nat
  BY FS_Subset, FS_CardinalityType
<1>2. f \in [S -> Nat]
  BY <1>1
<1>3. PICK m \in S : \A u \in S : f[m] <= f[u]
  <2> HIDE DEF f
  <2> QED BY <1>2, SmallestRank
<1>4. ASSUME NEW u \in S, <<u, m>> \in R PROVE FALSE
  <2>1. B(u) \subseteq B(m) /\ u \in B(m) /\ u \notin B(u)
    BY <1>4
  <2>2. Cardinality(B(u)) < Cardinality(B(m))
    <3>1. PICK X, Y : X = B(u) /\ Y = B(m)
      OBVIOUS
    <3>2. X \subseteq Y /\ X # Y /\ IsFiniteSet(Y)
      BY <1>1, <2>1, <3>1
    <3>3. Cardinality(X) \in Nat /\ Cardinality(Y) \in Nat
      BY <1>1, <3>1
    <3>4. Cardinality(X) < Cardinality(Y)
      BY <3>2, <3>3, FS_Subset
    <3> QED BY <3>1, <3>4
  <2>3. Cardinality(B(m)) <= Cardinality(B(u))
    BY <1>3
  <2> HIDE DEF B
  <2> QED BY <1>1, <2>2, <2>3
<1> QED BY <1>4

\* What rebuilding a set of tensors costs.
LEMMA CostsAddUp ==
    ASSUME NEW S \in SUBSET Tids
    PROVE  /\ TotalCost(S) \in Nat
           /\ S = {} => TotalCost(S) = 0
           /\ \A t \in S : TotalCost(S) >= Cost[t]
<1>0. IsFiniteSet(S) /\ \A t \in S : Cost[t] \in Nat
  BY TidsFinite, ServingAssumption DEF Cost
<1>1. \A T \in SUBSET S : IsFiniteSet(T) /\ Numbers(Cost, T)
  BY <1>0, FS_Subset DEF Numbers
<1>2. ASSUME NEW T \in SUBSET S PROVE SumOf(Cost, T) \in Nat
  <2> DEFINE z == [t \in T |-> 0]
  <2>1. IsFiniteSet(T) /\ Numbers(Cost, T) /\ Numbers(z, T)
    BY <1>1 DEF Numbers
  <2>2. \A t \in T : z[t] = z[t] + z[t] /\ z[t] <= Cost[t]
    BY <1>0
  <2> HIDE DEF z
  <2>3. SumOf(z, T) = SumOf(z, T) + SumOf(z, T) /\ SumOf(z, T) <= SumOf(Cost, T)
    BY <2>1, <2>2, SumsCompare
  <2>4. SumOf(z, T) \in Int /\ SumOf(Cost, T) \in Int
    BY <2>1, SumFacts
  <2> QED BY <2>3, <2>4
<1>3. TotalCost(S) = SumOf(Cost, S)
  BY <1>1, TotalOf DEF TotalCost
<1>4. S = {} => SumOf(Cost, S) = 0
  BY <1>1, SumFacts
<1>5. ASSUME NEW t \in S PROVE SumOf(Cost, S) >= Cost[t]
  <2>1. SumOf(Cost, S) = SumOf(Cost, S \ {t}) + Cost[t]
    BY <1>1, SumFacts
  <2>2. SumOf(Cost, S \ {t}) \in Nat
    BY <1>2
  <2> QED BY <1>0, <2>1, <2>2
<1> QED BY <1>2, <1>3, <1>4, <1>5

\* What an entry saves is its own cost and that of its dependents.
LEMMA Savings ==
    ASSUME CacheInv, NEW t \in Tids
    PROVE  /\ Saved(t) \in Nat /\ Cost[t] \in Nat \ {0} /\ Size[t] \in Nat \ {0}
           /\ Dependents(t) = {} => Saved(t) = Cost[t]
           /\ \A d \in Dependents(t) : Saved(t) > Cost[d]
<1>1. Dependents(t) \in SUBSET Tids
  BY Typed DEF CacheInv, Evictor, Dependents, Children, Listed, ToSet
<1>2. Cost[t] \in Nat \ {0} /\ Size[t] \in Nat \ {0}
  BY ServingAssumption DEF Cost
<1>3. \A d \in Dependents(t) : Cost[d] \in Nat
  BY <1>1, ServingAssumption DEF Cost
<1>4. /\ TotalCost(Dependents(t)) \in Nat
      /\ Dependents(t) = {} => TotalCost(Dependents(t)) = 0
      /\ \A d \in Dependents(t) : TotalCost(Dependents(t)) >= Cost[d]
  BY <1>1, CostsAddUp
<1> QED BY <1>2, <1>3, <1>4 DEF Saved

\* Of the tensors left to visit one comes first.
LEMMA VictimComesFirst ==
    ASSUME CacheInv, evictor.left # {}
    PROVE  Victim \in evictor.left /\ \A u \in evictor.left : ~Before(u, Victim)
<1> DEFINE L == evictor.left
           place(t) == Position(evictor.listed, t)
           R == {e \in L \X L : Before(e[1], e[2])}
<1>0. L \in SUBSET Tids /\ L \subseteq Listed /\ evictor.listed \in Seq(Tids) /\ IsFiniteSet(L)
  BY Typed, TidsFinite DEF CacheInv, Evictor
<1>1. \A t \in L : place(t) \in Nat
  BY <1>0, PositionOf DEF Listed
<1>2. \A t \in L : Saved(t) \in Nat /\ Size[t] \in Nat \ {0}
  BY <1>0, Savings
<1>3. ASSUME NEW a \in L, NEW b \in L
      PROVE  ~Cheaper(a, a) /\ ~(Cheaper(a, b) /\ Cheaper(b, a))
  BY <1>2 DEF Cheaper
<1>4. ASSUME NEW a \in L, NEW b \in L, NEW c \in L, ~Cheaper(b, a), ~Cheaper(c, b)
      PROVE  ~Cheaper(c, a) /\ (Cheaper(a, b) \/ Cheaper(b, c) => Cheaper(a, c))
  <2>1. PICK sa, sb, sc \in Nat : sa = Saved(a) /\ sb = Saved(b) /\ sc = Saved(c)
    BY <1>2
  <2>2. PICK na, nb, nc \in Nat \ {0} : na = Size[a] /\ nb = Size[b] /\ nc = Size[c]
    BY <1>2
  <2>3. /\ Cheaper(b, a) <=> sb * na < sa * nb
        /\ Cheaper(c, b) <=> sc * nb < sb * nc
        /\ Cheaper(c, a) <=> sc * na < sa * nc
        /\ Cheaper(a, b) <=> sa * nb < sb * na
        /\ Cheaper(b, c) <=> sb * nc < sc * nb
        /\ Cheaper(a, c) <=> sa * nc < sc * na
    BY <2>1, <2>2 DEF Cheaper
  <2>4. sa * nb <= sb * na /\ sb * nc <= sc * nb
    <3>1. sa * nb \in Nat /\ sb * na \in Nat /\ sb * nc \in Nat /\ sc * nb \in Nat
      OBVIOUS
    <3> QED BY <1>4, <2>3, <3>1
  <2>5. /\ sa * nc <= sc * na
        /\ sa * nb < sb * na \/ sb * nc < sc * nb => sa * nc < sc * na
    BY <2>4, RatiosOrder
  <2>6. sa * nc \in Nat /\ sc * na \in Nat
    OBVIOUS
  <2> QED BY <2>3, <2>5, <2>6
<1>5. ASSUME NEW a \in L PROVE ~Before(a, a)
  BY <1>1, <1>3, <1>5 DEF Before
<1>6. ASSUME NEW a \in L, NEW b \in L, NEW c \in L, Before(a, b), Before(b, c)
      PROVE  Before(a, c)
  <2>1. CASE Policy = "lru"
    BY <1>1, <1>6, <2>1 DEF Before
  <2>2. CASE Policy = "dag_value"
    <3>1. ~Cheaper(b, a) /\ ~Cheaper(c, b)
      BY <1>3, <1>6, <2>2 DEF Before
    <3>2. ~Cheaper(c, a) /\ (Cheaper(a, b) \/ Cheaper(b, c) => Cheaper(a, c))
      BY <1>4, <3>1
    <3>3. Cheaper(a, b) \/ place(a) < place(b)
      BY <1>6, <2>2 DEF Before
    <3>4. Cheaper(b, c) \/ place(b) < place(c)
      BY <1>6, <2>2 DEF Before
    <3>5. Cheaper(a, c) \/ place(a) < place(c)
      <4>1. place(a) \in Nat /\ place(b) \in Nat /\ place(c) \in Nat
        BY <1>1
      <4> HIDE DEF place
      <4> QED BY <3>2, <3>3, <3>4, <4>1
    <3> QED BY <2>2, <3>2, <3>5 DEF Before
  <2> QED BY <2>1, <2>2, ServingAssumption
<1>7. \E v \in L : \A u \in L : <<u, v>> \notin R
  <2>1. \A a \in L : <<a, a>> \notin R
    BY <1>5
  <2>2. \A a, b, c \in L : <<a, b>> \in R /\ <<b, c>> \in R => <<a, c>> \in R
    BY <1>6
  <2> HIDE DEF R
  <2> QED BY <1>0, <2>1, <2>2, FirstInOrder
<1>8. \E v \in L : \A u \in L : ~Before(u, v)
  BY <1>7
<1> QED BY <1>8, Zenon DEF Victim

\* Under dag_value no base goes while a delta against it is left to visit that no
\* listed tensor is a delta against, whatever is pinned, young or evicted by then,
\* whatever the sizes and costs, if the base is no larger than the delta.
THEOREM DagKeeps == Spec => DagKeepsBases
<1> DEFINE Kept == \A d \in evictor.left :
          Policy = "dag_value" /\ Dependents(d) = {}
             => ~(/\ Base[d] \in Cached /\ Size[Base[d]] <= Size[d]
                  /\ Base[d] \notin Cached')
<1>1. CacheInv /\ [Next]_vars => [Kept]_vars
  <2> SUFFICES ASSUME CacheInv, [Next]_vars, NEW d \in evictor.left,
                      Policy = "dag_value", Dependents(d) = {},
                      Base[d] \in Cached, Size[Base[d]] <= Size[d], Base[d] \notin Cached'
               PROVE  FALSE
    OBVIOUS
  <2> DEFINE b == Base[d]
  <2>1. ~Before(d, b)
    BY OnlyEvict, VictimComesFirst
  <2>2. d \in Tids /\ b \in Tids /\ b # 0 /\ d \in Listed
    BY Typed, MaxTidAssumption DEF CacheInv, Evictor, Tids
  <2>3. d \in Dependents(b)
    BY <2>2, Typed DEF CacheInv, Dependents, Children, Evictor, Listed, ToSet
  <2>4. Saved(d) = Cost[d] /\ Saved(b) > Cost[d] /\ Saved(b) \in Nat /\ Cost[d] \in Nat
    BY <2>2, <2>3, Savings
  <2>5. Size[d] \in Nat \ {0} /\ Size[b] \in Nat \ {0}
    BY <2>2, ServingAssumption
  <2>6. Saved(d) * Size[b] < Saved(b) * Size[d]
    <3>1. PICK x, y \in Nat, m, n \in Nat \ {0} :
             x = Saved(d) /\ y = Saved(b) /\ m = Size[b] /\ n = Size[d] /\ x < y /\ m <= n
      BY <2>4, <2>5
    <3>2. ~(y * n <= x * n) /\ x * m \in Nat /\ x * n \in Nat /\ y * n \in Nat
      BY <3>1, TimesOrder
    <3>3. x * m <= x * n
      <4>1. PICK k \in Nat : n = m + k
        <5>1. n - m \in Nat /\ n = m + (n - m)
          BY <3>1
        <5> QED BY <5>1
      <4>2. x * n = x * m + x * k /\ x * k \in Nat
        BY <3>1, <4>1
      <4> QED BY <3>2, <4>2
    <3>4. x * m < y * n
      BY <3>2, <3>3
    <3> QED BY <3>1, <3>4
  <2> QED BY <2>1, <2>6 DEF Before, Cheaper
<1> HIDE DEF Kept
<1>2. [][Kept]_vars <=> DagKeepsBases
  BY DEF Kept, DagKeepsBases
<1> QED BY <1>1, <1>2, AlwaysCacheInv, PTL DEF Spec

-----------------------------------------------------------------------------
(***************************************************************************)
(* Failures.  A request that has lost nothing to the evictor since it last *)
(* looked has all it needs; each loss is paid with one attempt at most.    *)
(***************************************************************************)

Planned(r) == req[r].pc \in {"entering", "running"}

\* What the request has found out still holds: the base of each entry is cached,
\* held or an entry still to do, and its tensor is where the request will look.
Intact(r) ==
    /\ Planned(r) => \A t \in req[r].todo :
          Base[t] \in {0} \union req[r].todo \union req[r].held \union Cached
    /\ Planned(r) /\ Demand(r) => req[r].tid \in req[r].todo \union Cached
    /\ req[r].pc = "stat" => req[r].tid \in Cached

Trusted(r) ==
    /\ req[r].todo \subseteq req[r].entries
    /\ req[r].pc \in {"look", "locking", "entering", "stat"} => Demand(r)
    /\ ~Waiting(r) => /\ losses[r] + 1 >= req[r].attempt
                      /\ losses[r] >= req[r].attempt \/ Intact(r)
    /\ req[r].pc \in {"closing", "error"} => losses[r] >= req[r].attempt

TrustInv == \A r \in Requests : Trusted(r)

\* What another request does takes nothing away.
LEMMA OthersTrusted ==
    ASSUME NEW q \in Requests, Trusted(q), req'[q] = req[q], losses'[q] = losses[q],
           Cached \subseteq Cached'
    PROVE  Trusted(q)'
<1>1. Intact(q) => Intact(q)'
  BY DEF Intact, Planned, Demand
<1> QED BY <1>1 DEF Trusted, Waiting, Demand

\* An eviction is counted by those who rely on the victim.
LEMMA EvictTrusted ==
    ASSUME CacheInv, NEW r \in Requests, Trusted(r), Evict PROVE Trusted(r)'
<1> USE ServingAssumption
<1>0. /\ cache \in Seq(Tids) /\ req[r] \in Request /\ losses \in [Requests -> Nat]
      /\ Distinct(cache) /\ Cached \in SUBSET Tids
  BY Typed DEF CacheInv
<1>1. /\ Cached' = Cached \ {Victim} /\ req'[r] = req[r]
      /\ losses'[r] = losses[r] + (IF ReliesOn(r, Victim) THEN 1 ELSE 0)
  <2>1. Cached' = Cached \ {Victim}
    BY <1>0, WithoutOne DEF Evict, Cached
  <2> QED BY <1>0, <2>1 DEF Evict
<1>2. req[r].attempt \in 1..2 /\ losses[r] \in Nat /\ req[r].todo \in SUBSET Tids
      /\ req[r].tid \in 0..MaxTid
  BY <1>0 DEF Request
<1>3. CASE ReliesOn(r, Victim)
  <2>1. losses'[r] = losses[r] + 1 /\ ~Waiting(r)
    BY <1>1, <1>3 DEF ReliesOn
  <2>2. losses'[r] >= req[r].attempt
    BY <1>2, <2>1 DEF Trusted
  <2> QED BY <1>1, <1>2, <2>1, <2>2 DEF Trusted, Waiting, Demand
<1>4. CASE ~ReliesOn(r, Victim)
  <2>1. losses'[r] = losses[r]
    BY <1>1, <1>2, <1>4
  <2>2. ASSUME Intact(r), ~Waiting(r) PROVE Intact(r)'
    <3>1. ASSUME NEW t \in req[r].todo, Base[t] # 0 PROVE Base[t] # Victim
      <4>1. t \in Tids /\ t \in req[r].entries
        BY <1>2, <3>1 DEF Trusted
      <4>2. Base[t] \in Chain[t]
        BY <3>1, <4>1, ChainOfBase DEF Chain
      <4> QED BY <1>4, <2>2, <4>1, <4>2 DEF ReliesOn
    <3>2. Demand(r) => req[r].tid # Victim
      <4> SUFFICES ASSUME Demand(r) PROVE req[r].tid # Victim
        OBVIOUS
      <4>1. req[r].tid \in Tids
        BY <1>2, MaxTidAssumption DEF Demand, Tids
      <4>2. req[r].tid \in Chain[req[r].tid]
        BY <4>1, ChainOfBase DEF Chain
      <4> QED BY <1>4, <2>2, <4>1, <4>2 DEF ReliesOn, Demand
    <3>3. req[r].pc = "stat" => Demand(r)
      BY DEF Trusted
    <3> QED BY <1>1, <2>2, <3>1, <3>2, <3>3 DEF Intact, Planned, Demand
  <2> QED BY <1>1, <2>1, <2>2 DEF Trusted, Waiting, Demand
<1> QED BY <1>3, <1>4

\* No step breaks what a request relies on.
LEMMA TrustStep == CacheInv /\ TrustInv /\ [Next]_vars => TrustInv'
<1> SUFFICES ASSUME CacheInv, TrustInv, [Next]_vars PROVE TrustInv'
  OBVIOUS
<1> USE ServingAssumption, MaxTidAssumption
<1>0. /\ req \in [Requests -> Request] /\ losses \in [Requests -> Nat]
      /\ Cached \in SUBSET Tids /\ cache \in Seq(Tids)
  BY Typed DEF CacheInv
<1>t. ASSUME NEW r \in Requests
      PROVE  /\ Trusted(r) /\ req[r].attempt \in 1..2 /\ losses[r] \in Nat
             /\ req[r].todo \in SUBSET Tids /\ (Demand(r) => req[r].tid \in Tids)
  <2>1. req[r] \in Request /\ losses[r] \in Nat /\ Trusted(r)
    BY <1>0 DEF TrustInv
  <2>2. req[r].attempt \in 1..2 /\ req[r].todo \in SUBSET Tids /\ req[r].tid \in 0..MaxTid
    BY <2>1 DEF Request
  <2> QED BY <2>1, <2>2 DEF Demand, Tids
\* A step of one request that leaves the others' records and losses alone.
<1>s. ASSUME NEW r \in Requests, NEW rec, Step(r, rec),
             \A q \in Requests : q # r => losses'[q] = losses[q],
             Cached \subseteq Cached', req'[r] = rec => Trusted(r)'
      PROVE  TrustInv'
  <2>1. req'[r] = rec /\ \A q \in Requests : q # r => req'[q] = req[q]
    BY <1>0, <1>s DEF Step
  <2>2. \A q \in Requests : q # r => Trusted(q)'
    BY <1>s, <1>t, <2>1, OthersTrusted
  <2> QED BY <1>s, <2>1, <2>2 DEF TrustInv
<1>1. ASSUME NEW r \in Requests, NEW t \in Wants[r], Ask(r, t) PROVE TrustInv'
  <2> DEFINE rec == [Idle EXCEPT !.pc = "look", !.tid = t, !.count = req[r].count + 1]
  <2>1. rec.pc = "look" /\ rec.todo = {} /\ rec.attempt = 1 /\ rec.tid # 0
    BY DEF Idle, Tids
  <2>2. Step(r, rec) /\ losses' = [losses EXCEPT ![r] = 0] /\ UNCHANGED cache
    BY <1>1 DEF Ask, files
  <2> HIDE DEF rec
  <2>3. req'[r] = rec => Trusted(r)'
    BY <1>0, <2>1, <2>2 DEF Trusted, Intact, Planned, Demand
  <2> QED BY <1>0, <1>s, <2>2, <2>3 DEF Cached
<1>2. ASSUME NEW r \in Requests, Look(r) PROVE TrustInv'
  <2> DEFINE rec == [req[r] EXCEPT !.pc = IF req[r].tid \in Cached THEN "stat" ELSE "locking"]
  <2>1. /\ rec.pc = IF req[r].tid \in Cached THEN "stat" ELSE "locking"
        /\ rec.todo = req[r].todo /\ rec.entries = req[r].entries
        /\ rec.attempt = req[r].attempt /\ rec.tid = req[r].tid
    BY <1>0 DEF Request
  <2>2. Step(r, rec) /\ UNCHANGED <<losses, cache>> /\ req[r].pc = "look"
    BY <1>2 DEF Look, files, ghosts
  <2> HIDE DEF rec
  <2>3. req'[r] = rec => Trusted(r)'
    BY <1>t, <2>1, <2>2 DEF Trusted, Intact, Planned, Demand, Waiting, Cached
  <2> QED BY <1>s, <2>2, <2>3 DEF Cached
<1>3. ASSUME NEW r \in Requests, Lock(r) PROVE TrustInv'
  <2> DEFINE plan == ChainPrefix(req[r].tid)
             rec == IF req[r].tid \in Cached THEN [req[r] EXCEPT !.pc = "stat"]
                    ELSE [req[r] EXCEPT !.pc = "entering", !.entries = plan, !.todo = plan]
  <2>1. /\ rec.attempt = req[r].attempt /\ rec.tid = req[r].tid /\ rec.held = req[r].held
        /\ IF req[r].tid \in Cached
           THEN rec.pc = "stat" /\ rec.todo = req[r].todo /\ rec.entries = req[r].entries
           ELSE rec.pc = "entering" /\ rec.todo = plan /\ rec.entries = plan
    BY <1>0 DEF Request
  <2>2. Step(r, rec) /\ UNCHANGED <<losses, cache>> /\ req[r].pc = "locking"
    BY <1>3 DEF Lock, files, ghosts
  <2>3. Demand(r) /\ req[r].tid \in Tids
    BY <1>t, <2>2 DEF Trusted
  <2> HIDE DEF rec
  <2>a. {req[r].tid} \in SUBSET Tids /\ Cached \in SUBSET Tids /\ Base \in Bases
    BY <1>0, <2>3
  <2>b. plan = NeededFor(Base, {req[r].tid}, Cached)
    BY DEF ChainPrefix
  <2> HIDE DEF plan
  <2>c. {req[r].tid} \ Cached \subseteq plan /\ ClosedUnder(Base, Cached, plan)
    BY <2>a, <2>b, NeededIsClosed
  <2>4. /\ {req[r].tid} \ Cached \subseteq plan
        /\ \A t \in plan : Base[t] \in plan \union Cached \union {0}
    BY <2>c DEF ClosedUnder
  <2>5. req'[r] = rec => Trusted(r)'
    BY <1>t, <2>1, <2>2, <2>3, <2>4 DEF Trusted, Intact, Planned, Demand, Waiting, Cached
  <2> QED BY <1>s, <2>2, <2>5 DEF Cached
<1>4. ASSUME NEW r \in Requests, Enter(r) PROVE TrustInv'
  <2> DEFINE rec == [req[r] EXCEPT !.pc = "running"]
  <2>1. /\ rec.pc = "running" /\ rec.todo = req[r].todo /\ rec.entries = req[r].entries
        /\ rec.attempt = req[r].attempt /\ rec.tid = req[r].tid /\ rec.held = req[r].held
    BY <1>0 DEF Request
  <2>2. Step(r, rec) /\ UNCHANGED <<losses, cache>> /\ req[r].pc = "entering"
    BY <1>4 DEF Enter
  <2> HIDE DEF rec
  <2>3. req'[r] = rec => Trusted(r)'
    BY <1>t, <2>1, <2>2 DEF Trusted, Intact, Planned, Demand, Waiting, Cached
  <2> QED BY <1>s, <2>2, <2>3 DEF Cached
<1>5. ASSUME NEW r \in Requests, NEW m \in Models[r], Warm(r, m) PROVE TrustInv'
  <2> DEFINE plan == NeededFor(Base, m, Cached)
             rec == [Idle EXCEPT !.pc = "running", !.model = m, !.entries = plan,
                                 !.todo = plan, !.count = req[r].count + 1]
  <2>1. rec.pc = "running" /\ rec.todo = plan /\ rec.entries = plan /\ rec.attempt = 1
        /\ rec.tid = 0
    BY DEF Idle
  <2>2. Step(r, rec) /\ losses' = [losses EXCEPT ![r] = 0] /\ UNCHANGED cache
    BY <1>5 DEF Warm
  <2>3. \A t \in plan : Base[t] \in plan \union Cached \union {0}
    BY <1>0, NeededIsClosed DEF ClosedUnder
  <2> HIDE DEF rec, plan
  <2>4. req'[r] = rec => Trusted(r)'
    BY <1>0, <2>1, <2>2, <2>3 DEF Trusted, Intact, Planned, Demand, Cached
  <2> QED BY <1>0, <1>s, <2>2, <2>4 DEF Cached
<1>6. ASSUME NEW r \in Requests, NEW t \in Tids, Decode(r, t) PROVE TrustInv'
  <2> DEFINE rec == [req[r] EXCEPT !.todo = @ \ {t},
                              !.held = @ \union {t} \union ({Base[t]} \ {0})]
  <2>1. /\ rec.pc = req[r].pc /\ rec.todo = req[r].todo \ {t} /\ rec.entries = req[r].entries
        /\ rec.attempt = req[r].attempt /\ rec.tid = req[r].tid
        /\ req[r].held \union {t} \subseteq rec.held
    BY <1>0 DEF Request
  <2>2. Step(r, rec) /\ UNCHANGED losses /\ req[r].pc = "running" /\ cache' = Append(Without(cache, t), t)
    BY <1>6 DEF Decode, ghosts, Touch, Running
  <2>3. Cached \union {t} \subseteq Cached'
    <3>1. Without(cache, t) \in Seq(Tids) /\ Cached \ {t} \subseteq ToSet(Without(cache, t))
      BY <1>0, WithoutOne DEF Cached
    <3> QED BY <2>2, <3>1, AppendOne DEF Cached
  <2> HIDE DEF rec
  <2>4. ASSUME req'[r] = rec, Intact(r) PROVE Intact(r)'
    <3>1. ASSUME NEW u \in rec.todo
          PROVE  Base[u] \in {0} \union rec.todo \union rec.held \union Cached'
      BY <2>1, <2>2, <2>3, <2>4 DEF Intact, Planned
    <3>2. Demand(r) => req[r].tid \in rec.todo \union Cached'
      BY <2>1, <2>2, <2>3, <2>4 DEF Intact, Planned
    <3> QED BY <2>1, <2>2, <2>4, <3>1, <3>2 DEF Intact, Planned, Demand
  <2>5. req'[r] = rec => Trusted(r)'
    BY <1>t, <2>1, <2>2, <2>4 DEF Trusted, Waiting, Demand
  <2> QED BY <1>s, <2>2, <2>3, <2>5
<1>7. ASSUME NEW r \in Requests, NEW pc \in {"stat", "warmed", "error"}, Leave(r, pc),
             pc = "stat" => Demand(r) /\ (losses[r] >= req[r].attempt \/ req[r].tid \in Cached),
             pc = "error" => losses[r] >= req[r].attempt,
             Running(r)
      PROVE  TrustInv'
  <2> DEFINE rec == [req[r] EXCEPT !.pc = pc, !.entries = {}, !.todo = {}, !.held = {}]
  <2>1. /\ rec.pc = pc /\ rec.todo = {} /\ rec.attempt = req[r].attempt /\ rec.tid = req[r].tid
    BY <1>0 DEF Request
  <2>2. Step(r, rec) /\ UNCHANGED <<losses, cache>>
    BY <1>7 DEF Leave
  <2> HIDE DEF rec
  <2>3. req'[r] = rec => Trusted(r)'
    BY <1>7, <1>t, <2>1, <2>2 DEF Trusted, Intact, Planned, Demand, Waiting, Running, Cached
  <2> QED BY <1>s, <2>2, <2>3 DEF Cached
<1>8. ASSUME NEW r \in Requests, Finish(r) PROVE TrustInv'
  <2>1. /\ req[r].pc = "running" /\ req[r].todo = {}
        /\ Leave(r, IF Demand(r) THEN "stat" ELSE "warmed")
    BY <1>8 DEF Finish
  <2>2. Demand(r) => losses[r] >= req[r].attempt \/ req[r].tid \in Cached
    BY <1>t, <2>1 DEF Trusted, Intact, Planned, Waiting
  <2>3. Running(r)
    BY <2>1 DEF Running
  <2> QED BY <1>7, <2>1, <2>2, <2>3
<1>9. ASSUME NEW r \in Requests, Fail(r) PROVE TrustInv'
  <2>1. PICK t \in NextEntries(r), pc \in {"closing", "stuck"} :
           /\ Step(r, [req[r] EXCEPT !.pc = pc, !.todo = {}, !.held = {}])
           /\ losses' = [losses EXCEPT ![r] = @ + IF HasBase(r, t) THEN 1 ELSE 0]
    BY <1>9 DEF Fail, Endings
  <2>2. req[r].pc = "running" /\ UNCHANGED cache
    BY <1>9 DEF Fail, files
  <2> DEFINE rec == [req[r] EXCEPT !.pc = pc, !.todo = {}, !.held = {}]
  <2>3. /\ rec.pc = pc /\ rec.todo = {} /\ rec.attempt = req[r].attempt /\ rec.tid = req[r].tid
        /\ Step(r, rec)
    BY <1>0, <2>1 DEF Request
  <2>4. losses[r] + 1 >= req[r].attempt /\ (losses[r] >= req[r].attempt \/ Intact(r))
    BY <1>t, <2>2 DEF Trusted, Waiting
  <2>5. /\ losses'[r] = losses[r] + IF HasBase(r, t) THEN 1 ELSE 0
        /\ \A q \in Requests : q # r => losses'[q] = losses[q]
    BY <1>0, <2>1
  <2>6. losses'[r] >= req[r].attempt
    <3>1. CASE HasBase(r, t)
      BY <1>t, <2>4, <2>5, <3>1
    <3>2. CASE ~HasBase(r, t)
      <4>1. ~Intact(r)
        BY <2>2, <3>2 DEF Intact, Planned, NextEntries, HasBase, Roots
      <4> QED BY <1>t, <2>4, <2>5, <3>2, <4>1
    <3> QED BY <3>1, <3>2
  <2> HIDE DEF rec
  <2>7. losses'[r] \in Nat /\ req[r].attempt \in 1..2
    BY <1>t, <2>5
  <2>8. req'[r] = rec => Trusted(r)'
    BY <2>3, <2>6, <2>7 DEF Trusted, Intact, Planned, Demand, Waiting
  <2> QED BY <1>s, <2>2, <2>3, <2>5, <2>8 DEF Cached
<1>c. ASSUME NEW r \in Requests, Close(r) PROVE TrustInv'
  <2>1. req[r].pc = "closing" /\ Leave(r, "error") /\ Running(r)
    BY <1>c DEF Close, Running
  <2>2. losses[r] >= req[r].attempt
    BY <1>t, <2>1 DEF Trusted
  <2> QED BY <1>7, <2>1, <2>2
<1>10. ASSUME NEW r \in Requests, Stat(r) PROVE TrustInv'
  <2> DEFINE rec == IF req[r].tid \in Cached
               THEN [Idle EXCEPT !.pc = "served", !.count = req[r].count]
               ELSE IF Retry(r) THEN [req[r] EXCEPT !.pc = "look", !.attempt = 2]
               ELSE [req[r] EXCEPT !.pc = "error"]
  <2>1. IF req[r].tid \in Cached THEN rec.pc = "served" /\ rec.todo = {}
        ELSE /\ rec.tid = req[r].tid /\ rec.todo = req[r].todo /\ rec.entries = req[r].entries
             /\ IF Retry(r) THEN rec.pc = "look" /\ rec.attempt = 2
                ELSE rec.pc = "error" /\ rec.attempt = req[r].attempt
    BY <1>0 DEF Request, Idle
  <2>2. Step(r, rec) /\ UNCHANGED <<losses, cache>> /\ req[r].pc = "stat"
    BY <1>10 DEF Stat, files, ghosts
  <2>3. req[r].tid \notin Cached => losses[r] >= req[r].attempt
    BY <1>t, <2>2 DEF Trusted, Intact, Waiting
  <2> HIDE DEF rec
  <2>4. req'[r] = rec => Trusted(r)'
    BY <1>t, <2>1, <2>2, <2>3 DEF Trusted, Intact, Planned, Demand, Waiting, Retry
  <2> QED BY <1>s, <2>2, <2>4 DEF Cached
<1>11. CASE Crash
  <2>1. \A r \in Requests : req'[r].pc = "idle" /\ req'[r].todo = {} /\ req'[r].entries = {}
    BY <1>11 DEF Crash, Idle
  <2> QED BY <2>1 DEF TrustInv, Trusted, Waiting
<1>12. CASE Evict
  BY <1>12, <1>t, EvictTrusted DEF TrustInv
<1>13. CASE Age \/ PinsStale \/ List \/ ReadPins \/ Skip \/ Sleep \/ UNCHANGED vars
  <2>1. UNCHANGED <<req, losses, cache>>
    BY <1>13 DEF Age, PinsStale, List, ReadPins, Skip, Sleep, files, ghosts, vars
  <2> QED BY <1>t, <2>1, OthersTrusted DEF TrustInv, Cached
<1> QED
  BY <1>1, <1>2, <1>3, <1>4, <1>5, <1>6, <1>8, <1>9, <1>c, <1>10, <1>11, <1>12, <1>13
  DEF Next, Work, Daemon

\* A request fails only when for every attempt it made the evictor has taken from it
\* what it relied on or a fetch of its own has failed; a warm job, once.
THEOREM FailuresNeedEvictions == Spec => []ErrorsNeedEvictions
<1>1. Init => TrustInv
  BY DEF Init, TrustInv, Trusted, Waiting, Idle
<1>2. TrustInv => ErrorsNeedEvictions
  BY DEF TrustInv, Trusted, ErrorsNeedEvictions
<1> QED BY <1>1, <1>2, CacheInvInit, CacheInvStep, TrustStep, PTL DEF Spec
=============================================================================
