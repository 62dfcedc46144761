----------------------------- MODULE Ops_proofs -----------------------------
(***************************************************************************)
(* What the caches and the metrics promise, for any threads, keys and      *)
(* capacity, and for any deployment, window and number of permits: the     *)
(* queue of a cache holds exactly the stored keys, once each, a failed     *)
(* build is never stored and only the oldest key of a full cache is        *)
(* evicted; the queue and active levels of a lock are the number of its    *)
(* callers that wait for it and hold it.                                   *)
(***************************************************************************)
EXTENDS FifoCache, Metrics, DataLemmas, FiniteSetTheorems, SequenceTheorems, TLAPS

\* What a step that names no prover is tried with: the translation of a large
\* obligation for the SMT solver may be cut short, and is then repeated.
USE SMTT(15), ZenonT(20), Z3T(15), SMTT(20)

\* The inductive invariant: that the queue is as long as the map is large
\* says, for a proof, that no key is queued twice.
CacheInv ==
    /\ CacheTypeOK /\ QueueMirrorsMap /\ ErrorsNotStored
    /\ IsFiniteSet(map) /\ IsInjective(queue)

\* The new cache satisfies the invariant.
LEMMA InitCacheInv == CacheInit => CacheInv
  <1> SUFFICES ASSUME CacheInit PROVE CacheInv
    OBVIOUS
  <1>1. CacheTypeOK
    BY DEF CacheInit, CacheTypeOK
  <1>2. Range(queue) = {} /\ Len(queue) = 0 /\ IsInjective(queue)
    BY DEF CacheInit, Range, IsInjective
  <1>3. IsFiniteSet(map) /\ Cardinality(map) = 0
    BY FS_EmptySet DEF CacheInit
  <1>4. 0 <= Cap
    BY CacheAssumption
  <1>5. QueueMirrorsMap
    BY <1>2, <1>3, <1>4 DEF CacheInit, QueueMirrorsMap
  <1> QED
    BY <1>1, <1>2, <1>3, <1>5 DEF CacheInv, ErrorsNotStored, CacheInit

\* Storing a key that is not stored, with the eviction that may follow, keeps
\* queue and map in step (the block under the write lock).
LEMMA Stored ==
    ASSUME CacheInv, Cap # 0, NEW k \in Key \ Bad, k \notin map,
           IF Cardinality(map \cup {k}) > Cap
           THEN /\ queue' = Tail(Append(queue, k))
                /\ map' = (map \cup {k}) \ {Head(Append(queue, k))}
           ELSE queue' = Append(queue, k) /\ map' = map \cup {k}
    PROVE  /\ queue' \in Seq(Key) /\ map' \subseteq Key
           /\ QueueMirrorsMap' /\ ErrorsNotStored'
           /\ IsFiniteSet(map') /\ IsInjective(queue')
           /\ \A e \in map \ map' : Len(queue) = Cap /\ e = Head(queue)
  <1> DEFINE q == Append(queue, k)
             S == map \cup {k}
  <1>1. queue \in Seq(Key) /\ IsInjective(queue) /\ map = Range(queue)
        /\ Len(queue) = Cardinality(map) /\ Len(queue) <= Cap
        /\ IsFiniteSet(map) /\ map \subseteq Key /\ map \cap Bad = {}
    BY DEF CacheInv, CacheTypeOK, QueueMirrorsMap, ErrorsNotStored
  <1>0. k \in Key /\ k \notin Range(queue)
    BY <1>1
  <1>2. q \in Seq(Key) /\ Range(q) = S /\ IsInjective(q)
    <2>1. Range(queue) \cup {k} = S
      BY <1>1
    <2>2. /\ Append(queue, k) \in Seq(Key)
          /\ Range(Append(queue, k)) = Range(queue) \cup {k}
          /\ IsInjective(Append(queue, k))
      <3>1. queue \in Seq(Key) /\ IsInjective(queue)
        BY <1>1
      <3> QED
        BY ONLY <1>0, <3>1, AppendQueue
    <2> QED
      BY <2>1, <2>2
  <1>3. Len(q) = Len(queue) + 1 /\ Len(queue) \in Nat /\ q # <<>>
    <2>1. queue \in Seq(Key) /\ k \in Key
      BY <1>0, <1>1
    <2> QED
      BY <2>1
  <1>4. IsFiniteSet(S) /\ Cardinality(S) = Cardinality(map) + 1
    BY <1>1, FS_AddElement, ZenonT(40)
  <1>5. Cardinality(S) = Len(q)
    BY <1>1, <1>3, <1>4, ZenonT(40)
  <1>6. S \subseteq Key /\ S \cap Bad = {}
    BY <1>1
  <1>7. Cap \in Nat
    BY CacheAssumption
  <1>8. CASE Cardinality(S) > Cap
    <2>1. queue' = Tail(q) /\ map' = S \ {Head(q)}
      BY <1>8
    <2>2. Tail(q) \in Seq(Key) /\ Head(q) \in S /\ Range(Tail(q)) = S \ {Head(q)}
          /\ IsInjective(Tail(q))
      BY <1>2, <1>3, TailQueue, ZenonT(40)
    <2>3. IsFiniteSet(S \ {Head(q)}) /\ Cardinality(S \ {Head(q)}) = Cardinality(S) - 1
      BY <1>4, <2>2, FS_RemoveElement, ZenonT(40)
    <2>4. Len(Tail(q)) = Len(q) - 1
      BY <1>2, <1>3
    <2>5. Len(q) > Cap
      BY <1>5, <1>8, ZenonT(40)
    <2>6. Len(queue) = Cap /\ Len(Tail(q)) = Cap
      BY <1>1, <1>3, <1>7, <2>4, <2>5
    <2>7. Cardinality(map') = Len(queue') /\ Len(queue') <= Cap
      <3>1. Cardinality(map') = Len(q) - 1
        BY <1>5, <2>1, <2>3, ZenonT(40)
      <3>2. Cap <= Cap
        BY <1>7
      <3> QED
        BY <2>1, <2>4, <2>6, <3>1, <3>2, ZenonT(40)
    <2>8. queue # <<>>
      BY <1>1, <1>7, <2>6
    <2>9. Head(q) = Head(queue)
      BY <1>1, <2>8
    <2>10. QueueMirrorsMap'
      BY <2>1, <2>2, <2>7, ZenonT(40) DEF QueueMirrorsMap
    <2>11. ErrorsNotStored' /\ map' \subseteq Key
      BY <1>6, <2>1, ZenonT(40) DEF ErrorsNotStored
    <2>12. \A e \in map \ map' : e = Head(queue)
      BY <2>1, <2>9, ZenonT(40)
    <2> QED
      BY <2>1, <2>2, <2>3, <2>6, <2>10, <2>11, <2>12, ZenonT(40)
  <1>9. CASE ~(Cardinality(S) > Cap)
    <2>1. queue' = q /\ map' = S
      BY <1>9
    <2>2. ~(Len(q) > Cap)
      BY <1>5, <1>9, ZenonT(40)
    <2>3. Len(q) <= Cap
      BY <1>3, <1>7, <2>2
    <2>4. QueueMirrorsMap'
      BY <1>2, <1>5, <2>1, <2>3, ZenonT(40) DEF QueueMirrorsMap
    <2>5. ErrorsNotStored' /\ map' \subseteq Key
      BY <1>6, <2>1, ZenonT(40) DEF ErrorsNotStored
    <2>6. map \ map' = {}
      BY <2>1, ZenonT(40)
    <2> QED
      BY <1>2, <1>4, <2>1, <2>4, <2>5, <2>6, ZenonT(40)
  <1> QED
    BY <1>8, <1>9, ZenonT(40)

\* What a thread's step does to the shared state: it leaves it alone, or it
\* stores a key whose build succeeded.
LEMMA NextCacheInv ==
    ASSUME CacheInv, [CacheNext]_cacheVars
    PROVE  /\ CacheInv'
           /\ \A e \in map \ map' : Len(queue) = Cap /\ e = Head(queue)
  <1> DEFINE Kept == UNCHANGED <<map, queue>>
             Locals == /\ want' \in [Thread -> SUBSET Key]
                       /\ reader' \subseteq {t \in Thread : want'[t] = {}}
  <1>1. ASSUME Kept, Locals
        PROVE  CacheInv' /\ map \ map' = {}
    BY <1>1 DEF CacheInv, CacheTypeOK, QueueMirrorsMap, ErrorsNotStored
  <1>2. CASE UNCHANGED cacheVars
    BY <1>1, <1>2 DEF cacheVars, CacheInv, CacheTypeOK
  <1>3. ASSUME NEW t \in Thread, NEW k \in Key, Hit(t, k) PROVE Kept /\ Locals
    BY <1>3 DEF Hit, Idle, CacheInv, CacheTypeOK
  <1>4. ASSUME NEW t \in Thread, NEW k \in Key, Miss(t, k) PROVE Kept /\ Locals
    BY <1>4 DEF Miss, Idle, CacheInv, CacheTypeOK
  <1>5. ASSUME NEW t \in Thread, Use(t) PROVE Kept /\ Locals
    BY <1>5 DEF Use, CacheInv, CacheTypeOK
  <1>6. ASSUME NEW t \in Thread, NotStored(t) PROVE Kept /\ Locals
    BY <1>6 DEF NotStored, CacheInv, CacheTypeOK
  <1>7. ASSUME NEW t \in Thread, Insert(t)
        PROVE  /\ CacheInv'
               /\ \A e \in map \ map' : Len(queue) = Cap /\ e = Head(queue)
    <2>1. Locals
      BY <1>7 DEF Insert, CacheInv, CacheTypeOK
    <2>2. PICK k \in want[t] :
             IF k \in map THEN UNCHANGED <<map, queue>>
             ELSE IF Cardinality(map \cup {k}) > Cap
             THEN /\ queue' = Tail(Append(queue, k))
                  /\ map' = (map \cup {k}) \ {Head(Append(queue, k))}
             ELSE queue' = Append(queue, k) /\ map' = map \cup {k}
      BY <1>7, ZenonT(40) DEF Insert
    <2>3. k \in Key \ Bad /\ Cap # 0
      BY <1>7, <2>2 DEF Insert, CacheInv, CacheTypeOK
    <2>4. CASE k \in map
      BY <1>1, <2>1, <2>2, <2>4, ZenonT(40)
    <2>5. CASE k \notin map
      <3>1. /\ queue' \in Seq(Key) /\ map' \subseteq Key
            /\ QueueMirrorsMap' /\ ErrorsNotStored'
            /\ IsFiniteSet(map') /\ IsInjective(queue')
            /\ \A e \in map \ map' : Len(queue) = Cap /\ e = Head(queue)
        BY <2>2, <2>3, <2>5, Stored, ZenonT(40)
      <3> QED
        BY <2>1, <3>1, ZenonT(40) DEF CacheInv, CacheTypeOK
    <2> QED
      BY <2>4, <2>5, ZenonT(40)
  <1> QED
    BY <1>1, <1>2, <1>3, <1>4, <1>5, <1>6, <1>7, ZenonT(40) DEF CacheNext

\* The invariant holds of every reachable state.
LEMMA CacheInvariant == CacheSpec => []CacheInv
  <1>1. CacheInv /\ [CacheNext]_cacheVars => CacheInv'
    BY NextCacheInv, ZenonT(40)
  <1> QED
    BY <1>1, InitCacheInv, PTL DEF CacheSpec

\* Whatever threads build and insert at once, queue and map agree within the
\* capacity, and a failed build is never stored.
THEOREM CacheSoundHolds == CacheSpec => []CacheSound
  <1>1. CacheInv => CacheSound
    BY DEF CacheInv, CacheSound
  <1> QED
    BY <1>1, CacheInvariant, PTL

\* Only the oldest key of a full cache is evicted.
THEOREM EvictsOldestHolds == CacheSpec => EvictsOldest
  <1>1. CacheInv /\ [CacheNext]_cacheVars
        => [\A k \in map \ map' : Len(queue) = Cap /\ k = Head(queue)]_cacheVars
    BY NextCacheInv, ZenonT(40)
  <1> QED
    BY <1>1, CacheInvariant, PTL DEF CacheSpec, EvictsOldest

-----------------------------------------------------------------------------
(* The levels of the locks and of the pool.                                *)

Pcs == {"idle", "waiting", "granted", "admitted", "held", "released"}
GaugeRecord == [label : STRING, acc : Int, last_value : Int, last_at : Int, touched : BOOLEAN]
LocksOf(f) == {f.source, f.sink, f.storage}

\* Every lock of a flow assembled by the assembly under way has its handle, no
\* two locks share one, and nothing is measured before the flows are assembled.
LockTypes ==
    /\ deployment \in Deployments /\ now \in Nat
    /\ assembling \in 0 .. Len(deployment.flows) /\ serving \in BOOLEAN
    /\ gauges \in [Gauges -> Seq(GaugeRecord)] /\ Len(gauges["queue"]) = Len(gauges["active"])
    /\ \A k \in DOMAIN lock_cache : k \in Components(deployment) /\ lock_cache[k] \in 1 .. Len(gauges["queue"])
    /\ \A k, l \in DOMAIN lock_cache : lock_cache[k] = lock_cache[l] => k = l
    /\ \A i \in 1 .. assembling : LocksOf(deployment.flows[i]) \subseteq DOMAIN lock_cache
    /\ serving => assembling = Len(deployment.flows)
    /\ callers \in [DOMAIN deployment.callers -> [key : Components(deployment), pc : Pcs]]
    /\ spent \in [Gauges -> [Components(deployment) -> Int]]
    /\ ~serving => /\ now = 0 /\ \A c \in DOMAIN callers : callers[c].pc = "idle"
                   /\ \A g \in Gauges : \A k \in Components(deployment) : spent[g][k] = 0

\* What a slot has measured of its level so far.
Measured(slot, t) == slot.acc + slot.last_value * (t - slot.last_at)
Exact(slot, g, k) == slot.last_value = Level(g, k) /\ slot.last_at <= now /\ Measured(slot, now) = spent[g][k]
LockInv ==
    /\ LockTypes
    /\ \A g \in Gauges : \A k \in DOMAIN lock_cache : Exact(gauges[g][lock_cache[k]], g, k)

\* The count a connection is in while its event is handled: it is still in
\* the one it leaves until that update is done, and then in none.
CountedAs(c) ==
    IF updates[c] = <<>> THEN conns[c] ELSE IF updates[c][1].by = -1 THEN updates[c][1].of ELSE "none"
PoolInv ==
    /\ misread = {} /\ deployment \in Deployments
    /\ conns \in [deployment.conns -> {"new", "idle", "active"}]
    /\ DOMAIN updates = deployment.conns
    /\ \A c \in deployment.conns :
          \/ updates[c] = <<>>
          \/ conns[c] # "new" /\ updates[c] = <<Up(conns[c])>>
          \/ conns[c] = "new" /\ \E a \in {"idle", "active"} : updates[c] = <<Down(a)>>
          \/ conns[c] # "new" /\ \E a \in {"idle", "active"} : updates[c] = <<Down(a), Up(conns[c])>>
    /\ counts \in [{"active", "idle"} -> Nat]
    /\ \A a \in {"active", "idle"} : counts[a] = Cardinality({c \in deployment.conns : CountedAs(c) = a})

\* The counts are right as long as no close was misread.
PoolRead == misread # {} \/ PoolInv

Counts(g, pc) == pc \in (IF g = "queue" THEN {"waiting", "granted"} ELSE {"held", "released"})
InLevel(g, k) == {c \in DOMAIN callers : callers[c].key = k /\ Counts(g, callers[c].pc)}

\* A level counts the callers that are in it.
LEMMA LevelIs ==
    ASSUME NEW g \in Gauges, NEW k
    PROVE  Level(g, k) = Cardinality(InLevel(g, k)) /\ Level(g, k)' = Cardinality(InLevel(g, k)')
  <1>1. CASE g = "queue"
    <2>1. Waiting(k) = InLevel(g, k) /\ Waiting(k)' = InLevel(g, k)'
      BY <1>1 DEF Waiting, InLevel, Counts
    <2> QED
      BY <1>1, <2>1 DEF Level
  <1>2. CASE g = "active"
    <2>1. Active(k) = InLevel(g, k) /\ Active(k)' = InLevel(g, k)'
      BY <1>2 DEF Active, InLevel, Counts
    <2> QED
      BY <1>2, <2>1 DEF Level
  <1> QED
    BY <1>1, <1>2 DEF Gauges

\* Integrating a gauge keeps its type.
LEMMA IntegrateType == ASSUME NEW slot \in GaugeRecord, NEW t \in Int PROVE integrate(slot, t) \in GaugeRecord
  <1> DEFINE a == slot.acc + slot.last_value * (t - slot.last_at)
  <1>1. a \in Int
    BY DEF GaugeRecord
  <1>2. integrate(slot, t) = slot \/ integrate(slot, t) = [slot EXCEPT !.acc = a, !.last_at = t]
    BY DEF integrate
  <1> HIDE DEF a
  <1> QED
    BY ZenonT(40), <1>1, <1>2 DEF GaugeRecord

\* A slot that has integrated up to t has measured the same.
LEMMA IntegrateIs ==
    ASSUME NEW slot \in GaugeRecord, NEW t \in Int, slot.last_at <= t
    PROVE  /\ integrate(slot, t) \in GaugeRecord
           /\ integrate(slot, t).last_value = slot.last_value /\ integrate(slot, t).last_at = t
           /\ integrate(slot, t).acc = Measured(slot, t)
  <1>1. /\ slot.acc \in Int /\ slot.last_value \in Int /\ slot.last_at \in Int
        /\ slot.last_value * (t - slot.last_at) \in Int
    BY DEF GaugeRecord
  <1>2. CASE slot.last_at = t
    <2>1. integrate(slot, t) = slot
      BY <1>2, <1>1 DEF integrate
    <2>2. slot.last_value * (t - slot.last_at) = 0
      BY <1>1, <1>2
    <2> QED
      BY <1>1, <1>2, <2>1, <2>2 DEF Measured
  <1>3. CASE slot.last_at < t
    <2> DEFINE a == Measured(slot, t)
    <2>1. a \in Int
      BY <1>1 DEF Measured
    <2>2. integrate(slot, t) = [slot EXCEPT !.acc = a, !.last_at = t]
      <3>1. ~(t <= slot.last_at)
        BY <1>1, <1>3
      <3> QED
        BY <3>1 DEF integrate, Measured
    <2> HIDE DEF a
    <2> QED
      BY ZenonT(40), <2>1, <2>2 DEF GaugeRecord, a
  <1>4. slot.last_at = t \/ slot.last_at < t
    <2>1. slot.last_at \in Int
      BY DEF GaugeRecord
    <2> QED
      BY <2>1
  <1> QED
    BY <1>2, <1>3, <1>4, ZenonT(40)

\* What add does to a gauge.
LEMMA AddIs ==
    ASSUME NEW slot \in GaugeRecord, NEW t \in Int, slot.last_at <= t, NEW delta \in Int
    PROVE  /\ add(slot, delta, t) \in GaugeRecord
           /\ add(slot, delta, t).last_value = slot.last_value + delta
           /\ add(slot, delta, t).last_at = t
           /\ Measured(add(slot, delta, t), t) = Measured(slot, t)
  <1> DEFINE s == integrate(slot, t)
             r == add(slot, delta, t)
  <1>1. /\ s \in GaugeRecord /\ s.last_value = slot.last_value /\ s.last_at = t
        /\ s.acc = Measured(slot, t)
    BY IntegrateIs
  <1> DEFINE v == s.last_value + delta
  <1>2. r = [s EXCEPT !.last_value = v, !.touched = TRUE]
    BY DEF add
  <1>3. v \in Int
    BY <1>1 DEF GaugeRecord
  <1> HIDE DEF s, r, v
  <1>4. /\ r \in GaugeRecord /\ r.last_value = v /\ r.last_at = t /\ r.acc = s.acc
    BY ZenonT(40), <1>1, <1>2, <1>3 DEF GaugeRecord
  <1>5. r.last_value * (t - r.last_at) = 0 /\ r.acc \in Int
    BY <1>4 DEF GaugeRecord
  <1> QED
    BY <1>1, <1>4, <1>5 DEF Measured, r, v

\* Two finite sets that agree but for one element.
LEMMA OneMoves ==
    ASSUME NEW S, NEW T, NEW c, NEW was \in BOOLEAN, NEW is \in BOOLEAN, IsFiniteSet(S), IsFiniteSet(T),
           T \ {c} = S \ {c}, c \in S <=> was, c \in T <=> is
    PROVE  Cardinality(T) = Cardinality(S) + (IF is THEN 1 ELSE 0) - (IF was THEN 1 ELSE 0)
  <1>1. ASSUME NEW U, IsFiniteSet(U)
        PROVE  Cardinality(U) = Cardinality(U \ {c}) + (IF c \in U THEN 1 ELSE 0) /\ Cardinality(U \ {c}) \in Nat
    <2>1. Cardinality(U) \in Nat /\ IsFiniteSet(U \ {c})
      BY <1>1, FS_CardinalityType, FS_RemoveElement
    <2>2. Cardinality(U \ {c}) \in Nat
      BY <2>1, FS_CardinalityType
    <2>3. CASE c \in U
      <3>1. Cardinality(U \ {c}) = Cardinality(U) - 1
        BY ZenonT(40), <1>1, <2>3, FS_RemoveElement
      <3> QED
        BY <2>1, <2>2, <2>3, <3>1
    <2>4. CASE c \notin U
      <3>1. U \ {c} = U
        BY <2>4
      <3> QED
        BY <2>1, <2>4, <3>1
    <2> QED
      BY <2>2, <2>3, <2>4
  <1>2. Cardinality(S) = Cardinality(S \ {c}) + (IF was THEN 1 ELSE 0) /\ Cardinality(S \ {c}) \in Nat
    BY <1>1
  <1>3. Cardinality(T) = Cardinality(S \ {c}) + (IF is THEN 1 ELSE 0)
    BY <1>1
  <1> QED
    BY <1>2, <1>3

\* One caller moves: the levels of its lock follow it.
LEMMA Moves ==
    ASSUME LockTypes, NEW c \in DOMAIN callers, NEW to \in Pcs,
           callers' = [callers EXCEPT ![c].pc = to], UNCHANGED deployment
    PROVE  /\ callers' \in [DOMAIN deployment.callers -> [key : Components(deployment), pc : Pcs]]
           /\ \A g \in Gauges : \A k :
                 Level(g, k)' = Level(g, k)
                    + (IF callers[c].key = k /\ Counts(g, to) THEN 1 ELSE 0)
                    - (IF callers[c].key = k /\ Counts(g, callers[c].pc) THEN 1 ELSE 0)
  <1>1. /\ DOMAIN callers = DOMAIN deployment.callers /\ IsFiniteSet(DOMAIN callers)
        /\ callers[c].key \in Components(deployment)
    BY DeploymentsAssumption DEF LockTypes
  <1>2. /\ DOMAIN callers' = DOMAIN callers
        /\ callers'[c].key = callers[c].key /\ callers'[c].pc = to
        /\ \A d \in DOMAIN callers : d # c => callers'[d] = callers[d]
        /\ callers'[c] = [callers[c] EXCEPT !.pc = to]
    BY DEF LockTypes
  <1>3. callers' \in [DOMAIN deployment.callers -> [key : Components(deployment), pc : Pcs]]
    <2> DEFINE R == [key : Components(deployment), pc : Pcs]
    <2>1. callers \in [DOMAIN callers -> R]
      BY <1>1 DEF LockTypes
    <2>2. callers'[c] \in R
      <3>1. callers[c] \in R
        BY <2>1
      <3> QED
        BY <1>2, <3>1
    <2> HIDE DEF R
    <2>3. callers' = [d \in DOMAIN callers |-> callers'[d]]
      BY ZenonT(40) DEF LockTypes
    <2>4. callers' \in [DOMAIN callers -> R]
      BY <1>2, <2>1, <2>2, <2>3
    <2> QED
      BY <1>1, <2>4 DEF R
  <1>4. ASSUME NEW g \in Gauges, NEW k
        PROVE  Level(g, k)' = Level(g, k)
                    + (IF callers[c].key = k /\ Counts(g, to) THEN 1 ELSE 0)
                    - (IF callers[c].key = k /\ Counts(g, callers[c].pc) THEN 1 ELSE 0)
    <2> DEFINE S == InLevel(g, k)
               T == InLevel(g, k)'
               was == callers[c].key = k /\ Counts(g, callers[c].pc)
               is == callers[c].key = k /\ Counts(g, to)
    <2>1. T \ {c} = S \ {c} /\ (c \in S <=> was) /\ (c \in T <=> is)
      BY <1>2 DEF InLevel, Counts
    <2>2. IsFiniteSet(S) /\ IsFiniteSet(S \ {c})
      BY <1>1, FS_Subset DEF InLevel
    <2>3. IsFiniteSet(T)
      BY <1>1, <1>2, FS_Subset DEF InLevel
    <2>4. Level(g, k) = Cardinality(S) /\ Level(g, k)' = Cardinality(T)
      BY LevelIs
    <2> HIDE DEF S, T, was, is
    <2>5. Cardinality(T) = Cardinality(S) + (IF is THEN 1 ELSE 0) - (IF was THEN 1 ELSE 0)
      BY ZenonT(40), <2>1, <2>2, <2>3, OneMoves
    <2> QED
      BY <2>4, <2>5 DEF was, is
  <1> QED
    BY <1>3, <1>4


-----------------------------------------------------------------------------
(* The slots that are minted.                                              *)

\* What the manager of the locks has minted so far is exact.
Minted(m) ==
    /\ m.gauges \in [Gauges -> Seq(GaugeRecord)] /\ Len(m.gauges["queue"]) = Len(m.gauges["active"])
    /\ \A k \in DOMAIN m.cache : k \in Components(deployment) /\ m.cache[k] \in 1 .. Len(m.gauges["queue"])
    /\ \A k, l \in DOMAIN m.cache : m.cache[k] = m.cache[l] => k = l
    /\ \A g \in Gauges : \A k \in DOMAIN m.cache : Exact(m.gauges[g][m.cache[k]], g, k)

\* Components have names.
LEMMA ComponentNames == ASSUME deployment \in Deployments PROVE Components(deployment) \subseteq STRING
  <1>1. \A f \in FlowsOf(deployment) : f.source \in STRING /\ f.sink \in STRING /\ f.storage \in STRING
    <2> DEFINE F == [name : STRING, source : STRING, sink : STRING, storage : STRING]
    <2>1. deployment.flows \in Seq(F)
      BY DeploymentsAssumption
    <2> HIDE DEF F
    <2>2. \A f \in FlowsOf(deployment) : f \in F
      BY <2>1 DEF FlowsOf
    <2> QED
      BY <2>2 DEF F
  <1> QED
    BY <1>1 DEF Components

\* Before the flows are assembled a new slot is exact.
LEMMA NewSlot ==
    ASSUME LockTypes, ~serving, NEW g \in Gauges, NEW k \in Components(deployment)
    PROVE  GaugeSlot(k, now) \in GaugeRecord /\ Exact(GaugeSlot(k, now), g, k)
  <1>1. Level(g, k) = 0
    <2>1. InLevel(g, k) = {}
      BY ZenonT(40) DEF LockTypes, InLevel, Counts
    <2> QED
      BY <2>1, LevelIs, FS_EmptySet
  <1>2. now = 0 /\ spent[g][k] = 0 /\ k \in STRING
    BY ComponentNames DEF LockTypes
  <1>3. GaugeSlot(k, now) = [label |-> k, acc |-> 0, last_value |-> 0, last_at |-> 0, touched |-> FALSE]
    BY <1>2 DEF GaugeSlot
  <1>4. GaugeSlot(k, now) \in GaugeRecord
    <2>1. ASSUME NEW S, NEW l \in S
          PROVE  [label |-> l, acc |-> 0, last_value |-> 0, last_at |-> 0, touched |-> FALSE]
                 \in [label : S, acc : Int, last_value : Int, last_at : Int, touched : BOOLEAN]
      OBVIOUS
    <2>2. k \in STRING
      BY <1>2, ZenonT(40)
    <2> QED
      BY <1>3, <2>1, <2>2, ZenonT(40) DEF GaugeRecord
  <1>5. Measured(GaugeSlot(k, now), now) = 0
    BY <1>2, <1>3 DEF Measured
  <1> QED
    BY <1>1, <1>2, <1>3, <1>4, <1>5 DEF Exact

\* Minting the handle of a lock gives it a gauge of its own.
LEMMA MintOne ==
    ASSUME LockTypes, ~serving, NEW m, Minted(m), NEW key \in Components(deployment)
    PROVE  /\ Minted(lock_recorder(m, key, now))
           /\ DOMAIN m.cache \cup {key} \subseteq DOMAIN lock_recorder(m, key, now).cache
  <1> DEFINE r == lock_recorder(m, key, now)
             n == Len(m.gauges["queue"]) + 1
  <1>1. CASE key \in DOMAIN m.cache
    BY <1>1 DEF lock_recorder
  <1>2. CASE key \notin DOMAIN m.cache
    <2>1. /\ r.gauges = [g \in Gauges |-> Append(m.gauges[g], GaugeSlot(key, now))]
          /\ r.cache = Insert_handle(m.cache, key, n)
      BY <1>2 DEF lock_recorder
    <2> HIDE DEF r
    <2>2. /\ DOMAIN r.cache = DOMAIN m.cache \cup {key} /\ r.cache[key] = n
          /\ \A k \in DOMAIN m.cache : r.cache[k] = m.cache[k]
      BY <1>2, <2>1 DEF Insert_handle
    <2>3. ASSUME NEW g \in Gauges
          PROVE  /\ r.gauges[g] \in Seq(GaugeRecord) /\ Len(r.gauges[g]) = n
                 /\ r.gauges[g][n] = GaugeSlot(key, now)
                 /\ \A i \in 1 .. (n - 1) : r.gauges[g][i] = m.gauges[g][i]
      <3>1. m.gauges[g] \in Seq(GaugeRecord) /\ Len(m.gauges[g]) = n - 1
        BY DEF Minted, Gauges
      <3>2. GaugeSlot(key, now) \in GaugeRecord
        BY NewSlot
      <3>3. r.gauges[g] = Append(m.gauges[g], GaugeSlot(key, now))
        BY <2>1
      <3> HIDE DEF n
      <3>4. n \in Nat
        BY DEF n, Minted, Gauges
      <3> QED
        BY <3>1, <3>2, <3>3, <3>4
    <2>4. n \in Nat /\ n >= 1 /\ \A k \in DOMAIN m.cache : m.cache[k] \in 1 .. (n - 1)
      BY DEF Minted, Gauges
    <2>5. "queue" \in Gauges /\ "active" \in Gauges
      BY DEF Gauges
    <2> HIDE DEF n
    <2>6. r.gauges \in [Gauges -> Seq(GaugeRecord)] /\ Len(r.gauges["queue"]) = n /\ Len(r.gauges["active"]) = n
      <3>1. r.gauges = [g \in Gauges |-> r.gauges[g]]
        BY <2>1
      <3> QED
        BY <2>3, <2>5, <3>1
    <2>7. \A k \in DOMAIN r.cache : k \in Components(deployment) /\ r.cache[k] \in 1 .. n
      BY <2>2, <2>4 DEF Minted
    <2>8. \A k, l \in DOMAIN r.cache : r.cache[k] = r.cache[l] => k = l
      BY <2>2, <2>4 DEF Minted
    <2>9. ASSUME NEW g \in Gauges, NEW k \in DOMAIN r.cache PROVE Exact(r.gauges[g][r.cache[k]], g, k)
      <3>1. CASE k = key
        BY <2>2, <2>3, <3>1, NewSlot
      <3>2. CASE k # key
        <4>1. k \in DOMAIN m.cache /\ r.gauges[g][r.cache[k]] = m.gauges[g][m.cache[k]]
          BY <2>2, <2>3, <2>4, <3>2
        <4> QED
          BY <4>1 DEF Minted
      <3> QED
        BY <3>1, <3>2
    <2> QED
      BY <2>2, <2>6, <2>7, <2>8, <2>9 DEF Minted, r
  <1> QED
    BY <1>1, <1>2

\* The next flow to assemble is one of the flows.
LEMMA NextUp ==
    ASSUME NEW n \in Nat, NEW a \in 0 .. n, a < n
    PROVE  a + 1 \in 1 .. n
  OBVIOUS

\* Assembling a flow keeps the levels.
LEMMA MintFlowKeeps == ASSUME LockInv, MintFlow PROVE LockInv'
  <1> DEFINE i == assembling + 1
             f == deployment.flows[i]
             m0 == [gauges |-> gauges, cache |-> lock_cache]
             m1 == lock_recorder(m0, f.source, now)
             m2 == lock_recorder(m1, f.sink, now)
             m3 == lock_recorder(m2, f.storage, now)
  <1>1. /\ LockTypes /\ ~serving /\ i \in 1 .. Len(deployment.flows) /\ assembling' = i
        /\ UNCHANGED <<deployment, now, serving, callers, spent>>
    <2>1. LockTypes /\ assembling \in 0 .. Len(deployment.flows) /\ Len(deployment.flows) \in Nat
      <3>1. LockTypes
        BY ZenonT(40) DEF LockInv
      <3>2. deployment \in Deployments /\ assembling \in 0 .. Len(deployment.flows)
        BY ZenonT(40), <3>1 DEF LockTypes
      <3>3. deployment.flows \in Seq([name : STRING, source : STRING, sink : STRING, storage : STRING])
        BY ZenonT(40), <3>2, DeploymentsAssumption
      <3> QED
        BY <3>1, <3>2, <3>3, LenProperties
    <2>2. ~serving /\ assembling < Len(deployment.flows) /\ assembling' = i
      BY ZenonT(40) DEF MintFlow
    <2>3. UNCHANGED <<deployment, now, serving, callers, spent>>
      BY ZenonT(40) DEF MintFlow
    <2>4. i \in 1 .. Len(deployment.flows)
      BY ZenonT(40), <2>1, <2>2, NextUp
    <2> QED
      BY ZenonT(40), <2>1, <2>2, <2>3, <2>4
  <1>2. gauges' = m3.gauges /\ lock_cache' = m3.cache
    BY ZenonT(40) DEF MintFlow
  <1>3. f.source \in Components(deployment) /\ f.sink \in Components(deployment) /\ f.storage \in Components(deployment)
    <2>1. f \in FlowsOf(deployment)
      BY <1>1 DEF FlowsOf
    <2> QED
      BY <2>1 DEF Components
  <1>4. Minted(m0) /\ DOMAIN m0.cache = DOMAIN lock_cache
    BY DEF LockInv, LockTypes, Minted
  <1> HIDE DEF i, f, m0
  <1>5. Minted(m1) /\ DOMAIN m0.cache \cup {f.source} \subseteq DOMAIN m1.cache
    BY <1>1, <1>3, <1>4, MintOne
  <1> HIDE DEF m1
  <1>6. Minted(m2) /\ DOMAIN m1.cache \cup {f.sink} \subseteq DOMAIN m2.cache
    BY <1>1, <1>3, <1>5, MintOne
  <1> HIDE DEF m2
  <1>7. Minted(m3) /\ DOMAIN m2.cache \cup {f.storage} \subseteq DOMAIN m3.cache
    BY <1>1, <1>3, <1>6, MintOne
  <1> HIDE DEF m3
  <1>8. \A j \in 1 .. assembling' : LocksOf(deployment.flows[j]) \subseteq DOMAIN lock_cache'
    <2>1. \A j \in 1 .. assembling : LocksOf(deployment.flows[j]) \subseteq DOMAIN lock_cache
      BY <1>1 DEF LockTypes
    <2>2. LocksOf(deployment.flows[i]) \subseteq DOMAIN lock_cache'
      BY <1>2, <1>5, <1>6, <1>7 DEF LocksOf, f
    <2>3. DOMAIN lock_cache \subseteq DOMAIN lock_cache'
      BY <1>2, <1>4, <1>5, <1>6, <1>7
    <2>4. \A j \in 1 .. assembling' : j \in 1 .. assembling \/ j = i
      BY <1>1 DEF i, LockTypes
    <2> QED
      BY <2>1, <2>2, <2>3, <2>4
  <1>9. \A slot, g, k : Exact(slot, g, k)' <=> Exact(slot, g, k)
    BY <1>1 DEF Exact, Level, Waiting, Active
  <1>10. LockTypes'
    <2>1. /\ deployment' \in Deployments /\ now' \in Nat /\ ~serving' /\ serving' \in BOOLEAN
          /\ callers' \in [DOMAIN deployment'.callers -> [key : Components(deployment'), pc : Pcs]]
          /\ spent' \in [Gauges -> [Components(deployment') -> Int]]
      BY ZenonT(40), <1>1 DEF LockTypes
    <2>2. /\ now' = 0 /\ \A c \in DOMAIN callers' : callers'[c].pc = "idle"
          /\ \A g \in Gauges : \A k \in Components(deployment') : spent'[g][k] = 0
      BY ZenonT(40), <1>1 DEF LockTypes
    <2>3. assembling' \in 0 .. Len(deployment'.flows)
      <3>1. \A n : \A j \in 1 .. n : j \in 0 .. n
        OBVIOUS
      <3> QED
        BY ZenonT(40), <1>1, <3>1
    <2>4. /\ gauges' \in [Gauges -> Seq(GaugeRecord)] /\ Len(gauges'["queue"]) = Len(gauges'["active"])
          /\ \A k \in DOMAIN lock_cache' : k \in Components(deployment') /\ lock_cache'[k] \in 1 .. Len(gauges'["queue"])
          /\ \A k, l \in DOMAIN lock_cache' : lock_cache'[k] = lock_cache'[l] => k = l
      BY ZenonT(40), <1>1, <1>2, <1>7 DEF Minted
    <2> QED
      BY ZenonT(40), <1>1, <1>8, <2>1, <2>2, <2>3, <2>4 DEF LockTypes
  <1> QED
    BY <1>1, <1>2, <1>7, <1>9, <1>10 DEF LockInv, Minted


-----------------------------------------------------------------------------
(* The steps that leave the levels alone, and those that move them.        *)

\* A level changes only with its gauge.
LEMMA LevelStays ==
    ASSUME UNCHANGED callers PROVE \A g, k : Level(g, k)' = Level(g, k)
  BY DEF Level, Waiting, Active

\* A level counts callers.
LEMMA LevelType == ASSUME LockTypes, NEW g \in Gauges, NEW k PROVE Level(g, k) \in Nat
  <1>1. IsFiniteSet(DOMAIN callers)
    BY DeploymentsAssumption DEF LockTypes
  <1>2. IsFiniteSet(InLevel(g, k))
    BY <1>1, FS_Subset DEF InLevel
  <1> QED
    BY <1>2, LevelIs, FS_CardinalityType

\* Once the flows are assembled every component's lock has its handle.
LEMMA AllMinted == ASSUME LockTypes, serving PROVE Components(deployment) \subseteq DOMAIN lock_cache
  <1>1. ASSUME NEW f \in FlowsOf(deployment) PROVE LocksOf(f) \subseteq DOMAIN lock_cache
    BY <1>1 DEF FlowsOf, LockTypes
  <1> QED
    BY <1>1 DEF Components, LocksOf

\* A step that leaves the locks and their gauges alone keeps the levels.
LEMMA LockStutters ==
    ASSUME LockInv, UNCHANGED <<deployment, now, gauges, lock_cache, serving, callers, spent>>,
           assembling' \in {0, assembling}, assembling' = assembling \/ ~serving
    PROVE  LockInv'
  <1>1. LockTypes'
    BY DEF LockInv, LockTypes
  <1>2. \A slot, g, k : Exact(slot, g, k)' <=> Exact(slot, g, k)
    BY LevelStays DEF Exact
  <1> QED
    BY <1>1, <1>2 DEF LockInv

\* Registering the collectors keeps the levels.
LEMMA RegisterKeeps == ASSUME LockInv, Register PROVE LockInv'
  <1>1. LockTypes'
    BY DEF LockInv, LockTypes, Register, slotVars
  <1>2. \A slot, g, k : Exact(slot, g, k)' <=> Exact(slot, g, k)
    BY LevelStays DEF Exact, Register
  <1> QED
    BY <1>1, <1>2 DEF LockInv, Register, slotVars

\* Every lock a caller uses has its gauges.
LEMMA Slots ==
    ASSUME LockInv, NEW g \in Gauges, NEW k \in DOMAIN lock_cache
    PROVE  /\ gauges[g][lock_cache[k]] \in GaugeRecord /\ lock_cache[k] \in 1 .. Len(gauges[g])
           /\ Exact(gauges[g][lock_cache[k]], g, k)
           /\ k \in Components(deployment) /\ spent[g][k] \in Int /\ now \in Nat
  <1>1. /\ gauges \in [Gauges -> Seq(GaugeRecord)] /\ Len(gauges["queue"]) = Len(gauges["active"])
        /\ k \in Components(deployment) /\ lock_cache[k] \in 1 .. Len(gauges["queue"])
        /\ spent \in [Gauges -> [Components(deployment) -> Int]] /\ now \in Nat
    BY DEF LockInv, LockTypes
  <1>2. lock_cache[k] \in 1 .. Len(gauges[g]) /\ gauges[g] \in Seq(GaugeRecord)
    BY <1>1 DEF Gauges
  <1>3. gauges[g][lock_cache[k]] \in GaugeRecord
    BY <1>2
  <1> QED
    BY <1>1, <1>2, <1>3 DEF LockInv

SlotSet(g, i, x) == gauges' = [gauges EXCEPT ![g][i] = x]

\* A slot gives way to one that has measured the same and shows the level
\* after the step; the levels of the other slots stay.
LEMMA SlotChanges ==
    ASSUME LockInv, UNCHANGED <<deployment, now, lock_cache, serving, assembling, spent>>,
           NEW g \in Gauges, NEW i, NEW x \in GaugeRecord,
           SlotSet(g, i, x),
           callers' \in [DOMAIN deployment.callers -> [key : Components(deployment), pc : Pcs]],
           serving \/ callers' = callers,
           \A k \in DOMAIN lock_cache : lock_cache[k] = i =>
              x.last_value = Level(g, k)' /\ x.last_at <= now /\ Measured(x, now) = spent[g][k],
           \A h \in Gauges : \A k \in DOMAIN lock_cache :
              h # g \/ lock_cache[k] # i => Level(h, k)' = Level(h, k)
    PROVE  LockInv'
  <1>1. gauges \in [Gauges -> Seq(GaugeRecord)] /\ Len(gauges["queue"]) = Len(gauges["active"])
    BY DEF LockInv, LockTypes
  <1>2. /\ gauges' = [h \in Gauges |-> IF h = g THEN [gauges[g] EXCEPT ![i] = x] ELSE gauges[h]]
        /\ gauges'[g] = [gauges[g] EXCEPT ![i] = x]
    BY ZenonT(40), <1>1 DEF SlotSet
  <1>3. /\ gauges'[g] \in Seq(GaugeRecord) /\ Len(gauges'[g]) = Len(gauges[g])
        /\ \A j \in 1 .. Len(gauges[g]) : gauges'[g][j] = IF j = i THEN x ELSE gauges[g][j]
    <2> DEFINE s == gauges[g]
               n == Len(s)
    <2>1. s \in Seq(GaugeRecord) /\ s \in [1 .. n -> GaugeRecord] /\ n \in Nat
      <3>1. s \in Seq(GaugeRecord)
        BY ZenonT(40), <1>1
      <3> QED
        BY ZenonT(40), <3>1, LenProperties
    <2> HIDE DEF s, n
    <2>2. [s EXCEPT ![i] = x] \in [1 .. n -> GaugeRecord]
      BY ZenonT(40), <2>1
    <2>3. [s EXCEPT ![i] = x] \in Seq(GaugeRecord) /\ Len([s EXCEPT ![i] = x]) = n
      BY <2>1, <2>2
    <2>4. \A j \in 1 .. n : [s EXCEPT ![i] = x][j] = IF j = i THEN x ELSE s[j]
      BY <2>1
    <2> QED
      BY <1>2, <2>3, <2>4 DEF s, n
  <1>4. \A h \in Gauges : h # g => gauges'[h] = gauges[h]
    BY <1>2
  <1>5. /\ gauges' \in [Gauges -> Seq(GaugeRecord)]
        /\ \A h \in Gauges : Len(gauges'[h]) = Len(gauges[h])
    BY <1>1, <1>2, <1>3, <1>4
  <1>6. LockTypes'
    <2>1. Len(gauges'["queue"]) = Len(gauges["queue"]) /\ Len(gauges'["active"]) = Len(gauges["active"])
      BY <1>5 DEF Gauges
    <2> QED
      BY ZenonT(40), <1>1, <1>5, <2>1 DEF LockInv, LockTypes
  <1>7. ASSUME NEW h \in Gauges, NEW k \in DOMAIN lock_cache'
        PROVE  Exact(gauges[h][lock_cache[k]], h, k)'
    <2>0. PICK j : j = lock_cache[k]
      OBVIOUS
    <2>1. k \in DOMAIN lock_cache /\ lock_cache'[k] = j /\ j \in 1 .. Len(gauges[h]) /\ Exact(gauges[h][j], h, k)
      BY <1>7, <2>0, Slots
    <2>2. CASE h = g /\ j = i
      <3>1. gauges'[h][j] = x
        BY <1>3, <2>1, <2>2
      <3> QED
        BY ZenonT(40), <2>0, <2>1, <2>2, <3>1 DEF Exact
    <2>3. CASE h # g \/ j # i
      <3>1. gauges'[h][j] = gauges[h][j]
        BY <1>3, <1>4, <2>1, <2>3
      <3>2. Level(h, k)' = Level(h, k)
        BY <2>0, <2>1, <2>3
      <3> QED
        BY <2>1, <3>1, <3>2 DEF Exact
    <2> QED
      BY <2>2, <2>3
  <1> QED
    BY ZenonT(40), <1>6, <1>7 DEF LockInv


\* A tick adds the level to the integral of every slot.
LEMMA TickKeeps == ASSUME LockInv, Tick PROVE LockInv'
  <1>1. /\ LockTypes /\ serving /\ now \in Nat /\ now' = now + 1
        /\ UNCHANGED <<deployment, gauges, lock_cache, serving, assembling, callers>>
        /\ spent' = [g \in Gauges |-> [k \in DOMAIN spent[g] |-> spent[g][k] + Level(g, k)]]
    BY ZenonT(40) DEF LockInv, LockTypes, Tick, slotVars
  <1>2. /\ \A g \in Gauges : \A k : Level(g, k) \in Nat
        /\ \A g, k : Level(g, k)' = Level(g, k)
    BY <1>1, LevelType, LevelStays
  <1>3. /\ \A g \in Gauges : \A k \in Components(deployment) : spent'[g][k] = spent[g][k] + Level(g, k)
        /\ spent' \in [Gauges -> [Components(deployment) -> Int]]
    <2>1. \A g \in Gauges : DOMAIN spent[g] = Components(deployment)
      BY <1>1 DEF LockTypes
    <2>2. \A g \in Gauges : \A k \in Components(deployment) : spent[g][k] \in Int /\ spent[g][k] + Level(g, k) \in Int
      <3>1. \A g \in Gauges : \A k \in Components(deployment) : spent[g][k] \in Int
        <4>1. spent \in [Gauges -> [Components(deployment) -> Int]]
          BY ZenonT(40), <1>1 DEF LockTypes
        <4> QED
          BY ZenonT(40), <4>1
      <3>2. \A m \in Int : \A n \in Nat : m + n \in Int
        OBVIOUS
      <3> QED
        BY ZenonT(40), <1>2, <3>1, <3>2
    <2>3. \A g \in Gauges : spent'[g] = [k \in Components(deployment) |-> spent[g][k] + Level(g, k)]
      BY ZenonT(40), <1>1, <2>1
    <2>4. spent' = [g \in Gauges |-> [k \in Components(deployment) |-> spent[g][k] + Level(g, k)]]
      BY ZenonT(40), <1>1, <2>1
    <2> QED
      BY ZenonT(40), <2>2, <2>3, <2>4
  <1>4. LockTypes'
    <2>1. now' \in Nat /\ serving'
      BY <1>1
    <2>2. UNCHANGED Components(deployment)
      BY ZenonT(40), <1>1
    <2> QED
      BY ZenonT(40), <1>1, <1>3, <2>1, <2>2 DEF LockTypes
  <1>5. ASSUME NEW g \in Gauges, NEW k \in DOMAIN lock_cache
        PROVE  Exact(gauges[g][lock_cache[k]], g, k)'
    <2>1. PICK slot : slot = gauges[g][lock_cache[k]]
      OBVIOUS
    <2>2. slot \in GaugeRecord /\ Exact(slot, g, k) /\ k \in Components(deployment) /\ spent[g][k] \in Int
      BY <2>1, Slots
    <2>3. /\ slot.acc \in Int /\ slot.last_value \in Int /\ slot.last_at \in Int /\ slot.last_at <= now
          /\ slot.last_value = Level(g, k) /\ Measured(slot, now) = spent[g][k]
      BY <2>2 DEF GaugeRecord, Exact
    <2>4. ASSUME NEW a \in Int, NEW v \in Int, NEW l \in Int, NEW u \in Int
          PROVE  a + v * ((u + 1) - l) = (a + v * (u - l)) + v
      OBVIOUS
    <2>5. Measured(slot, now + 1) = Measured(slot, now) + slot.last_value
      <3>1. PICK a \in Int, v \in Int, l \in Int, u \in Int :
               a = slot.acc /\ v = slot.last_value /\ l = slot.last_at /\ u = now
        BY <1>1, <2>3
      <3>2. a + v * ((u + 1) - l) = (a + v * (u - l)) + v
        BY <2>4
      <3> QED
        BY <3>1, <3>2, ZenonT(40) DEF Measured
    <2>6. Measured(slot, now') = spent'[g][k] /\ slot.last_at <= now' /\ slot.last_value = Level(g, k)'
      <3>1. Measured(slot, now') = spent[g][k] + Level(g, k)
        BY ZenonT(40), <1>1, <2>3, <2>5
      <3>2. \A m \in Int : \A n \in Nat : m <= n => m <= n + 1
        OBVIOUS
      <3>3. slot.last_at <= now'
        BY ZenonT(40), <1>1, <2>3, <3>2
      <3> QED
        BY ZenonT(40), <1>2, <1>3, <2>2, <2>3, <3>1, <3>3
    <2> QED
      BY <1>1, <2>1, <2>6 DEF Exact
  <1> QED
    BY <1>1, <1>4, <1>5 DEF LockInv

\* A scrape integrates a slot up to now, which changes nothing of what the
\* slot has measured (GaugeSlot::snapshot).
LEMMA VisitGaugeKeeps ==
    ASSUME LockInv, NEW s, NEW v, VisitGauge(s, v) PROVE LockInv'
  <1> DEFINE g == v.of
             i == v.slot
             slot == gauges[g][i]
             x == integrate(slot, now)
  <1>1. /\ g \in Gauges
        /\ UNCHANGED <<deployment, now, lock_cache, assembling, serving, callers, spent>>
    BY ZenonT(40) DEF VisitGauge, Visited
  <1>2. gauges' = gauges \/ gauges' = [gauges EXCEPT ![g][i] = x]
    BY ZenonT(40) DEF VisitGauge
  <1>3. CASE gauges' = [gauges EXCEPT ![g][i] = x] /\ i \in 1 .. Len(gauges[g])
    <2>1. slot \in GaugeRecord /\ now \in Int
      <3>1. gauges[g] \in Seq(GaugeRecord) /\ now \in Nat
        BY ZenonT(40), <1>1 DEF LockInv, LockTypes
      <3>2. Nat \subseteq Int
        OBVIOUS
      <3> QED
        BY ZenonT(40), <1>3, <3>1, <3>2, ElementOfSeq
    <2>2. x \in GaugeRecord
      <3> HIDE DEF slot
      <3> QED
        BY <2>1, IntegrateType
    <2>3. \A h, l : Level(h, l)' = Level(h, l)
      BY <1>1, LevelStays
    <2>4. ASSUME NEW k \in DOMAIN lock_cache, lock_cache[k] = i
          PROVE  x.last_value = Level(g, k)' /\ x.last_at <= now /\ Measured(x, now) = spent[g][k]
      <3>1. Exact(slot, g, k)
        BY <1>1, <2>4, Slots
      <3> HIDE DEF slot
      <3>2. slot.last_at <= now
        BY <3>1 DEF Exact
      <3>3. /\ x.last_value = slot.last_value /\ x.last_at = now /\ x.acc = Measured(slot, now)
        BY <2>1, <3>2, IntegrateIs
      <3> HIDE DEF x
      <3>4. Measured(x, now) = Measured(slot, now)
        <4>1. x.last_value * (now - x.last_at) = 0 /\ x.acc \in Int
          BY <2>1, <2>2, <3>3 DEF GaugeRecord
        <4> QED
          BY <3>3, <4>1 DEF Measured
      <3>5. x.last_at <= now
        BY <2>1, <3>3
      <3> QED
        BY <2>3, <3>1, <3>3, <3>4, <3>5 DEF Exact
    <2>5. callers' \in [DOMAIN deployment.callers -> [key : Components(deployment), pc : Pcs]]
      BY <1>1 DEF LockInv, LockTypes
    <2>6. SlotSet(g, i, x)
      BY <1>3 DEF SlotSet
    <2> HIDE DEF g, i, x
    <2> QED
      <3>1. UNCHANGED <<deployment, now, lock_cache, serving, assembling, spent>>
        BY ZenonT(40), <1>1
      <3>2. \A h \in Gauges : \A k \in DOMAIN lock_cache : h # g \/ lock_cache[k] # i => Level(h, k)' = Level(h, k)
        BY ZenonT(40), <2>3
      <3>3. serving \/ callers' = callers
        BY ZenonT(40), <1>1
      <3> QED
        BY <1>1, <1>3, <2>2, <2>4, <2>5, <2>6, <3>1, <3>2, <3>3, SlotChanges
  <1>4. CASE gauges' = gauges
    BY <1>1, <1>4, LockStutters
  <1>5. CASE gauges' = [gauges EXCEPT ![g][i] = x] /\ i \notin 1 .. Len(gauges[g])
    <2>1. gauges \in [Gauges -> Seq(GaugeRecord)]
      BY DEF LockInv, LockTypes
    <2> HIDE DEF x, g, i
    <2>2. [gauges[g] EXCEPT ![i] = x] = gauges[g]
      BY <1>1, <1>5, <2>1
    <2>3. gauges' = gauges
      BY <1>1, <1>5, <2>1, <2>2
    <2> QED
      BY <1>4, <2>3
  <1> QED
    BY <1>2, <1>3, <1>4, <1>5


\* A caller moves and the gauge it is counted by follows it.
LEMMA GaugeMoves ==
    ASSUME LockInv, NEW c \in DOMAIN callers, NEW from, NEW to \in Pcs, Move(c, from, to),
           NEW g \in Gauges, NEW delta \in {-1, 1}, AddTo(g, callers[c].key, delta), serving,
           Counts(g, to) <=> delta = 1, Counts(g, from) <=> delta = -1,
           \A h \in Gauges : h # g => (Counts(h, to) <=> Counts(h, from))
    PROVE  LockInv'
  <1>0. PICK key : key = callers[c].key
    OBVIOUS
  <1> DEFINE i == lock_cache[key]
             slot == gauges[g][i]
             x == add(slot, delta, now)
  <1>1. /\ LockTypes /\ callers[c].pc = from /\ callers' = [callers EXCEPT ![c].pc = to]
        /\ UNCHANGED <<deployment, now, lock_cache, assembling, serving, spent>>
    BY DEF LockInv, Move
  <1>2. key \in DOMAIN lock_cache
    <2>1. key \in Components(deployment)
      BY <1>0, <1>1 DEF LockTypes
    <2> QED
      BY <1>1, <2>1, AllMinted
  <1>3. slot \in GaugeRecord /\ Exact(slot, g, key) /\ now \in Int /\ delta \in Int
    <2>1. Nat \subseteq Int /\ {-1, 1} \subseteq Int
      OBVIOUS
    <2>2. slot \in GaugeRecord /\ Exact(slot, g, key) /\ now \in Nat
      BY ZenonT(40), <1>2, Slots
    <2> QED
      BY ZenonT(40), <2>1, <2>2
  <1>4. SlotSet(g, i, x)
    BY <1>0, <1>1 DEF AddTo, LockSlot, LockInv, LockTypes, SlotSet
  <1>5. /\ callers' \in [DOMAIN deployment.callers -> [key : Components(deployment), pc : Pcs]]
        /\ \A h \in Gauges : \A k :
              Level(h, k)' = Level(h, k) + (IF callers[c].key = k /\ Counts(h, to) THEN 1 ELSE 0)
                                         - (IF callers[c].key = k /\ Counts(h, callers[c].pc) THEN 1 ELSE 0)
    BY <1>1, Moves, ZenonT(40)
  <1> HIDE DEF slot, i
  <1>6. slot.last_at <= now
    BY <1>3 DEF Exact
  <1>7. /\ x \in GaugeRecord /\ x.last_value = slot.last_value + delta /\ x.last_at = now
        /\ Measured(x, now) = Measured(slot, now)
    BY <1>3, <1>6, AddIs
  <1> HIDE DEF x
  <1>8. \A h \in Gauges : \A k : Level(h, k) \in Nat
    BY <1>1, LevelType
  <1>9. \A k \in DOMAIN lock_cache : lock_cache[k] = i => k = key
    BY <1>1, <1>2 DEF LockTypes, i
  <1>10. Level(g, key)' = Level(g, key) + delta
    <2>1. \/ Counts(g, to) /\ ~Counts(g, from) /\ delta = 1
          \/ ~Counts(g, to) /\ Counts(g, from) /\ delta = -1
      OBVIOUS
    <2>2. Level(g, key) \in Nat
      BY <1>8
    <2>3. Level(g, key)' = Level(g, key) + (IF Counts(g, to) THEN 1 ELSE 0) - (IF Counts(g, from) THEN 1 ELSE 0)
      BY <1>0, <1>1, <1>5
    <2> QED
      BY <2>1, <2>2, <2>3
  <1>11. x.last_value = Level(g, key)' /\ x.last_at <= now /\ Measured(x, now) = spent[g][key]
    BY <1>3, <1>7, <1>10 DEF Exact
  <1>12. ASSUME NEW h \in Gauges, NEW k \in DOMAIN lock_cache, h # g \/ lock_cache[k] # i
         PROVE  Level(h, k)' = Level(h, k)
    <2>1. k # key \/ (Counts(h, to) <=> Counts(h, from))
      BY <1>12 DEF i
    <2>2. Level(h, k) \in Nat
      BY <1>8
    <2> QED
      BY <1>0, <1>1, <1>5, <2>1, <2>2
  <1>13. ASSUME NEW k \in DOMAIN lock_cache, lock_cache[k] = i
         PROVE  x.last_value = Level(g, k)' /\ x.last_at <= now /\ Measured(x, now) = spent[g][k]
    <2>1. k = key
      BY <1>9, <1>13
    <2> QED
      BY <1>11, <2>1
  <1>14. callers' \in [DOMAIN deployment.callers -> [key : Components(deployment), pc : Pcs]]
    BY <1>5
  <1> QED
    BY <1>1, <1>4, <1>7, <1>12, <1>13, <1>14, SlotChanges

\* A caller moves and no gauge counts it differently.
LEMMA NothingMoves ==
    ASSUME LockInv, NEW c \in DOMAIN callers, NEW from, NEW to \in Pcs, Move(c, from, to), UNCHANGED gauges, serving,
           \A h \in Gauges : Counts(h, to) <=> Counts(h, from)
    PROVE  LockInv'
  <1>1. /\ LockTypes /\ callers[c].pc = from /\ callers' = [callers EXCEPT ![c].pc = to]
        /\ UNCHANGED <<deployment, now, gauges, lock_cache, assembling, serving, spent>>
    BY DEF LockInv, Move
  <1>2. /\ callers' \in [DOMAIN deployment.callers -> [key : Components(deployment), pc : Pcs]]
        /\ \A h \in Gauges : \A k :
              Level(h, k)' = Level(h, k) + (IF callers[c].key = k /\ Counts(h, to) THEN 1 ELSE 0)
                                         - (IF callers[c].key = k /\ Counts(h, callers[c].pc) THEN 1 ELSE 0)
    BY <1>1, Moves, ZenonT(40)
  <1>3. \A h \in Gauges : \A k : Level(h, k)' = Level(h, k)
    BY <1>1, <1>2, LevelType
  <1>4. LockTypes'
    BY <1>1, <1>2 DEF LockTypes
  <1>5. \A slot : \A h \in Gauges : \A k : Exact(slot, h, k)' <=> Exact(slot, h, k)
    BY <1>1, <1>3 DEF Exact
  <1> QED
    BY <1>1, <1>4, <1>5 DEF LockInv

\* Each step of a caller moves the levels as it moves the caller.
LEMMA CallerKeeps == ASSUME LockInv, NEW c \in DOMAIN callers, CallerStep(c) PROVE LockInv'
  <1>1. callers[c].pc # "idle" => serving
    BY DEF LockInv, LockTypes
  <1>2. CASE queue_guard(c)
    <2>1. Move(c, "idle", "waiting") /\ AddTo("queue", callers[c].key, 1) /\ serving
      BY <1>2 DEF queue_guard
    <2> QED
      BY <2>1, GaugeMoves DEF Gauges, Counts, Pcs
  <1>3. CASE Granted(c)
    <2>1. Move(c, "waiting", "granted") /\ UNCHANGED gauges /\ serving
      BY <1>1, <1>3 DEF Granted, Move
    <2> QED
      BY <2>1, NothingMoves DEF Gauges, Counts, Pcs
  <1>4. CASE DropQueue(c)
    <2>1. Move(c, "granted", "admitted") /\ AddTo("queue", callers[c].key, -1) /\ serving
      BY <1>1, <1>4 DEF DropQueue, Move
    <2> QED
      BY <2>1, GaugeMoves DEF Gauges, Counts, Pcs
  <1>5. CASE active_guard(c)
    <2>1. Move(c, "admitted", "held") /\ AddTo("active", callers[c].key, 1) /\ serving
      BY <1>1, <1>5 DEF active_guard, Move
    <2> QED
      BY <2>1, GaugeMoves DEF Gauges, Counts, Pcs
  <1>6. CASE DropPermit(c)
    <2>1. Move(c, "held", "released") /\ UNCHANGED gauges /\ serving
      BY <1>1, <1>6 DEF DropPermit, Move
    <2> QED
      BY <2>1, NothingMoves DEF Gauges, Counts, Pcs
  <1>7. CASE DropActive(c)
    <2>1. Move(c, "released", "idle") /\ AddTo("active", callers[c].key, -1) /\ serving
      BY <1>1, <1>7 DEF DropActive, Move
    <2> QED
      BY <2>1, GaugeMoves DEF Gauges, Counts, Pcs
  <1> QED
    BY <1>2, <1>3, <1>4, <1>5, <1>6, <1>7 DEF CallerStep


\* The levels are right when the process starts.
LEMMA LockStarts == MetricsInit => LockInv
  <1> SUFFICES ASSUME MetricsInit PROVE LockInv
    OBVIOUS
  <1>1. DOMAIN lock_cache = {}
    BY DEF MetricsInit
  <1>2. gauges \in [Gauges -> Seq(GaugeRecord)] /\ Len(gauges["queue"]) = 0 /\ Len(gauges["active"]) = 0
    <2>1. gauges = [g \in Gauges |-> <<>>]
      BY ZenonT(40) DEF MetricsInit
    <2>2. <<>> \in Seq(GaugeRecord) /\ Len(<<>>) = 0
      OBVIOUS
    <2>3. "queue" \in Gauges /\ "active" \in Gauges
      BY DEF Gauges
    <2> QED
      BY ZenonT(40), <2>1, <2>2, <2>3
  <1>3. /\ callers \in [DOMAIN deployment.callers -> [key : Components(deployment), pc : Pcs]]
        /\ \A c \in DOMAIN callers : callers[c].pc = "idle"
    <2>1. \A c \in DOMAIN deployment.callers : deployment.callers[c] \in Components(deployment)
      BY ZenonT(40), DeploymentsAssumption DEF MetricsInit
    <2>2. callers = [c \in DOMAIN deployment.callers |-> [key |-> deployment.callers[c], pc |-> "idle"]]
      BY ZenonT(40) DEF MetricsInit
    <2> QED
      BY <2>1, <2>2 DEF Pcs
  <1>4. /\ spent \in [Gauges -> [Components(deployment) -> Int]]
        /\ \A g \in Gauges : \A k \in Components(deployment) : spent[g][k] = 0
    <2>1. spent = [g \in Gauges |-> [k \in Components(deployment) |-> 0]]
      BY ZenonT(40) DEF MetricsInit
    <2>2. 0 \in Int
      OBVIOUS
    <2> QED
      BY ZenonT(40), <2>1, <2>2
  <1>5. assembling \in 0 .. Len(deployment.flows) /\ assembling = 0
    <2>1. deployment \in Deployments /\ assembling = 0
      BY ZenonT(40) DEF MetricsInit
    <2>2. deployment.flows \in Seq([name : STRING, source : STRING, sink : STRING, storage : STRING])
      BY ZenonT(40), <2>1, DeploymentsAssumption
    <2>3. \A n \in Nat : 0 \in 0 .. n
      OBVIOUS
    <2> QED
      BY ZenonT(40), <2>1, <2>2, <2>3, LenProperties
  <1>6. deployment \in Deployments /\ now = 0 /\ ~serving /\ serving \in BOOLEAN
    BY ZenonT(40) DEF MetricsInit
  <1>7. LockTypes
    <2>1. 0 \in Nat /\ 1 .. 0 = {}
      OBVIOUS
    <2> QED
      BY ZenonT(40), <1>1, <1>2, <1>3, <1>4, <1>5, <1>6, <2>1 DEF LockTypes
  <1> QED
    BY <1>1, <1>7 DEF LockInv

\* Every step keeps the levels.
LEMMA LockKeeps == ASSUME LockInv, [MetricsNext]_metricsVars PROVE LockInv'
  <1> DEFINE Aside == UNCHANGED <<deployment, now, gauges, lock_cache, serving, callers, spent, assembling>>
  <1>0. Aside => LockInv'
    BY LockStutters
  <1>1. CASE MintFlow
    BY <1>1, MintFlowKeeps
  <1>2. CASE RegisterFails
    BY <1>2, LockStutters DEF RegisterFails, slotVars
  <1>3. CASE Register
    BY <1>3, RegisterKeeps
  <1>4. CASE Tick
    BY <1>4, TickKeeps
  <1>5. ASSUME NEW f \in DOMAIN flows, FlowStep(f) PROVE LockInv'
    <2>1. Aside
      BY ZenonT(40), <1>5 DEF FlowStep, StartTimer, Fetched, Transformed, Written, Failed, Commit, DropTimer, slotVars
    <2> QED
      BY <1>0, <2>1
  <1>6. ASSUME NEW c \in DOMAIN callers, CallerStep(c) PROVE LockInv'
    BY <1>6, CallerKeeps
  <1>7. ASSUME NEW c \in DOMAIN conns, cmap_handler(c) \/ UpdateAtomic(c) PROVE LockInv'
    BY <1>7, <1>0 DEF cmap_handler, UpdateAtomic, slotVars
  <1>8. ASSUME NEW s \in DOMAIN scrape, ScrapeStarts(s) \/ serve_metrics(s) PROVE LockInv'
    BY <1>8, <1>0 DEF ScrapeStarts, serve_metrics, slotVars
  <1>9. ASSUME NEW s \in DOMAIN scrape, NEW v \in scrape[s].todo, VisitStep(s, v) PROVE LockInv'
    <2>1. CASE VisitGauge(s, v)
      BY <2>1, VisitGaugeKeeps
    <2>2. CASE VisitSummary(s, v)
      BY <1>0, <2>2 DEF VisitSummary, Visited
    <2>3. CASE VisitGlobal(s, v) \/ VisitCounters(s, v) \/ CpuMove(s, v) \/ CpuEmit(s, v) \/ VisitPool(s, v)
      BY <1>0, <2>3 DEF VisitGlobal, VisitCounters, CpuMove, CpuEmit, VisitPool, Visited
    <2>4. CASE CpuRead(s, v)
      BY <1>0, <2>4 DEF CpuRead, slotVars
    <2> QED
      BY <1>9, <2>1, <2>2, <2>3, <2>4 DEF VisitStep
  <1>10. CASE UNCHANGED metricsVars
    BY <1>0, <1>10 DEF metricsVars, slotVars
  <1> QED
    BY ZenonT(40), <1>1, <1>2, <1>3, <1>4, <1>5, <1>6, <1>7, <1>8, <1>9, <1>10 DEF MetricsNext

-----------------------------------------------------------------------------
(* The reader of a pool.                                                   *)

\* One connection changes the count it is in.
LEMMA Recounted ==
    ASSUME PoolInv, deployment' = deployment, NEW c \in deployment.conns,
           \A d \in deployment.conns : d # c => CountedAs(d)' = CountedAs(d), NEW a
    PROVE  Cardinality({d \in deployment.conns : CountedAs(d)' = a})
              = Cardinality({d \in deployment.conns : CountedAs(d) = a})
                + (IF CountedAs(c)' = a THEN 1 ELSE 0) - (IF CountedAs(c) = a THEN 1 ELSE 0)
  <1> DEFINE S == {d \in deployment.conns : CountedAs(d) = a}
             T == {d \in deployment.conns : CountedAs(d)' = a}
             was == CountedAs(c) = a
             is == CountedAs(c)' = a
  <1>1. T \ {c} = S \ {c} /\ (c \in S <=> was) /\ (c \in T <=> is)
    OBVIOUS
  <1>2. IsFiniteSet(S) /\ IsFiniteSet(T)
    <2>1. IsFiniteSet(deployment.conns)
      BY DeploymentsAssumption DEF PoolInv
    <2> QED
      BY <2>1, FS_Subset
  <1> HIDE DEF S, T, was, is
  <1>3. Cardinality(T) = Cardinality(S) + (IF is THEN 1 ELSE 0) - (IF was THEN 1 ELSE 0)
    BY ZenonT(40), <1>1, <1>2, OneMoves
  <1> QED
    BY <1>3 DEF S, T, was, is


CmapKinds(c) ==
    \/ updates[c] = <<>>
    \/ conns[c] # "new" /\ updates[c] = <<Up(conns[c])>>
    \/ conns[c] = "new" /\ \E a \in {"idle", "active"} : updates[c] = <<Down(a)>>
    \/ conns[c] # "new" /\ \E a \in {"idle", "active"} : updates[c] = <<Down(a), Up(conns[c])>>

\* An event makes its handler's updates, and counts nothing yet.
LEMMA HandlerKeeps ==
    ASSUME PoolInv, NEW c \in DOMAIN conns, cmap_handler(c), misread' = {}
    PROVE  PoolInv'
  <1>1. PICK e \in CmapEvents : /\ conns[c] = e.from /\ conns' = [conns EXCEPT ![c] = e.to]
                                /\ updates' = [updates EXCEPT ![c] = e.updates] /\ ~Misread(e)
    BY ZenonT(40) DEF cmap_handler
  <1>2. /\ updates[c] = <<>> /\ UNCHANGED <<deployment, counts>> /\ DOMAIN conns = deployment.conns
        /\ conns \in [deployment.conns -> {"new", "idle", "active"}] /\ DOMAIN updates = deployment.conns
    BY ZenonT(40) DEF cmap_handler, PoolInv
  <1>3. /\ conns'[c] = e.to /\ updates'[c] = e.updates /\ DOMAIN updates' = deployment.conns
        /\ \A d \in deployment.conns : d # c => conns'[d] = conns[d] /\ updates'[d] = updates[d]
    BY <1>1, <1>2
  <1>4. \/ e.from = "new" /\ e.to = "idle" /\ e.updates = <<Up("idle")>>
        \/ e.from = "idle" /\ e.to = "active" /\ e.updates = <<Down("idle"), Up("active")>>
        \/ e.from = "active" /\ e.to = "idle" /\ e.updates = <<Down("active"), Up("idle")>>
        \/ e.from = "idle" /\ e.to = "new" /\ e.updates = <<Down("idle")>>
        \/ e.from = "active" /\ e.to = "new" /\ e.updates = <<Down("active")>>
    BY <1>1 DEF CmapEvents, Misread
  <1>5. CmapKinds(c)' /\ conns'[c] \in {"new", "idle", "active"}
    BY <1>3, <1>4 DEF CmapKinds
  <1>6. CountedAs(c)' = IF e.from = "new" THEN "none" ELSE e.from
    <2>1. e.updates # <<>> /\ e.updates[1] = IF e.from = "new" THEN Up("idle") ELSE Down(e.from)
      BY <1>4
    <2>2. \A a : Down(a).by = -1 /\ Down(a).of = a /\ Up(a).by = 1
      BY DEF Down, Up
    <2> QED
      BY <1>3, <2>1, <2>2 DEF CountedAs
  <1>7. CountedAs(c) = e.from
    BY <1>1, <1>2 DEF CountedAs
  <1>8. \A d \in deployment.conns : d # c => CountedAs(d)' = CountedAs(d)
    BY <1>3 DEF CountedAs
  <1>9. \A d \in deployment.conns : CmapKinds(d)'
    BY <1>3, <1>5 DEF CmapKinds, PoolInv
  <1>10. ASSUME NEW a \in {"active", "idle"}
         PROVE  {d \in deployment.conns : CountedAs(d)' = a} = {d \in deployment.conns : CountedAs(d) = a}
    BY <1>6, <1>7, <1>8
  <1>11. conns' \in [deployment.conns -> {"new", "idle", "active"}]
    BY <1>1, <1>2, <1>3, <1>5
  <1>12. \A a \in {"active", "idle"} : counts'[a] = Cardinality({d \in deployment.conns : CountedAs(d)' = a})
    BY ZenonT(40), <1>2, <1>10 DEF PoolInv
  <1> QED
    BY <1>2, <1>3, <1>9, <1>11, <1>12 DEF PoolInv, CmapKinds

\* Applying a counter update keeps the pool.
LEMMA UpdateKeeps == ASSUME PoolInv, NEW c \in DOMAIN conns, UpdateAtomic(c) PROVE PoolInv'
  <1> DEFINE u == updates[c][1]
             rest == Tail(updates[c])
  <1>1. /\ UNCHANGED <<deployment, conns, misread>> /\ c \in deployment.conns /\ DOMAIN updates = deployment.conns
        /\ updates[c] # <<>> /\ updates' = [updates EXCEPT ![c] = rest]
        /\ counts' = [counts EXCEPT ![u.of] = IF @ + u.by < 0 THEN @ ELSE @ + u.by]
    <2>1. conns \in [deployment.conns -> {"new", "idle", "active"}] /\ DOMAIN updates = deployment.conns
      BY DEF PoolInv
    <2>2. UNCHANGED <<deployment, conns, misread>> /\ updates[c] # <<>> /\ updates' = [updates EXCEPT ![c] = rest]
      BY DEF UpdateAtomic
    <2>3. Head(updates[c]) = u
      OBVIOUS
    <2>4. counts' = [counts EXCEPT ![u.of] = IF @ + u.by < 0 THEN @ ELSE @ + u.by]
      BY <2>3, ZenonT(40) DEF UpdateAtomic
    <2> QED
      BY <2>1, <2>2, <2>4, ZenonT(40)
  <1>2. \/ /\ conns[c] \in {"idle", "active"} /\ u = Up(conns[c]) /\ rest = <<>>
        \/ /\ conns[c] = "new" /\ rest = <<>> /\ \E a \in {"idle", "active"} : u = Down(a)
        \/ /\ conns[c] \in {"idle", "active"} /\ rest = <<Up(conns[c])>>
           /\ \E a \in {"idle", "active"} : u = Down(a)
    <2>1. CmapKinds(c) /\ conns[c] \in {"new", "idle", "active"}
      BY ZenonT(40), <1>1 DEF PoolInv, CmapKinds
    <2>2. \A x, y : <<x>>[1] = x /\ Tail(<<x>>) = <<>> /\ <<x, y>>[1] = x /\ Tail(<<x, y>>) = <<y>>
      OBVIOUS
    <2> HIDE DEF u
    <2>3. CASE conns[c] # "new" /\ updates[c] = <<Up(conns[c])>>
      BY <2>1, <2>2, <2>3 DEF u
    <2>4. CASE conns[c] = "new" /\ \E a \in {"idle", "active"} : updates[c] = <<Down(a)>>
      <3>1. PICK a \in {"idle", "active"} : updates[c] = <<Down(a)>>
        BY ZenonT(40), <2>4
      <3>2. u = Down(a) /\ rest = <<>>
        BY ZenonT(40), <2>2, <3>1 DEF u, rest
      <3> QED
        BY ZenonT(40), <2>4, <3>2
    <2>5. CASE conns[c] # "new" /\ \E a \in {"idle", "active"} : updates[c] = <<Down(a), Up(conns[c])>>
      BY <2>1, <2>2, <2>5 DEF u
    <2> QED
      BY <1>1, <2>1, <2>3, <2>4, <2>5 DEF CmapKinds
  <1> HIDE DEF rest
  <1>3. \A a : Down(a).by = -1 /\ Down(a).of = a /\ Up(a).by = 1 /\ Up(a).of = a
    BY DEF Down, Up
  <1>4. u.of \in {"active", "idle"} /\ (u.by = 1 \/ u.by = -1)
    BY <1>2, <1>3
  <1>5. PICK a \in {"active", "idle"} : a = u.of
    BY <1>4
  <1>6. /\ u.by = 1 => CountedAs(c) = "none" /\ conns[c] = a /\ rest = <<>>
        /\ u.by = -1 => CountedAs(c) = a /\ ((rest = <<>> /\ conns[c] = "new") \/ rest = <<Up(conns[c])>>)
    BY <1>1, <1>2, <1>3, <1>5 DEF CountedAs
  <1>7. /\ updates'[c] = rest /\ DOMAIN updates' = deployment.conns
        /\ \A d \in deployment.conns : d # c => updates'[d] = updates[d]
    BY <1>1
  <1>8. /\ \A d \in deployment.conns : d # c => CountedAs(d)' = CountedAs(d)
        /\ u.by = 1 => CountedAs(c)' = a
        /\ u.by = -1 => CountedAs(c)' \notin {"active", "idle"}
    <2>1. \A d \in deployment.conns : d # c => CountedAs(d)' = CountedAs(d)
      BY <1>1, <1>7 DEF CountedAs
    <2>2. u.by = 1 => CountedAs(c)' = a
      BY <1>1, <1>6, <1>7 DEF CountedAs
    <2>3. u.by = -1 => CountedAs(c)' \notin {"active", "idle"}
      <3>1. <<Up(conns[c])>> # <<>> /\ <<Up(conns[c])>>[1] = Up(conns[c])
        OBVIOUS
      <3> QED
        BY <1>1, <1>3, <1>6, <1>7, <3>1 DEF CountedAs
    <2> QED
      BY <2>1, <2>2, <2>3
  <1> DEFINE N(b) == Cardinality({d \in deployment.conns : CountedAs(d) = b})
             M(b) == Cardinality({d \in deployment.conns : CountedAs(d)' = b})
  <1>9. \A b : M(b) = N(b) + (IF CountedAs(c)' = b THEN 1 ELSE 0) - (IF CountedAs(c) = b THEN 1 ELSE 0)
    BY ZenonT(40), <1>1, <1>8, Recounted
  <1>10. counts \in [{"active", "idle"} -> Nat] /\ \A b \in {"active", "idle"} : counts[b] = N(b)
    BY DEF PoolInv
  <1>11. \A b : M(b) \in Nat
    <2>1. IsFiniteSet(deployment.conns)
      BY ZenonT(40), DeploymentsAssumption DEF PoolInv
    <2>2. \A b : IsFiniteSet({d \in deployment.conns : CountedAs(d)' = b})
      BY ZenonT(40), <2>1, FS_Subset
    <2> QED
      BY ZenonT(40), <2>2, FS_CardinalityType
  <1> HIDE DEF N, M
  <1>12. \A b \in {"active", "idle"} : b # a => M(b) = counts[b]
    <2> SUFFICES ASSUME NEW b \in {"active", "idle"}, b # a PROVE M(b) = counts[b]
      BY ZenonT(40)
    <2>1. CountedAs(c)' # b /\ CountedAs(c) # b
      BY <1>4, <1>6, <1>8
    <2>2. M(b) = N(b) + 0 - 0
      BY ZenonT(40), <1>9, <2>1
    <2>3. counts[b] \in Nat /\ counts[b] = N(b)
      BY ZenonT(40), <1>10
    <2>4. \A n \in Nat : n + 0 - 0 = n
      OBVIOUS
    <2> QED
      BY ZenonT(40), <2>2, <2>3, <2>4
  <1>13. M(a) = counts[a] + u.by
    <2>1. CountedAs(c)' = a <=> u.by = 1
      BY <1>4, <1>8
    <2>2. CountedAs(c) = a <=> u.by = -1
      BY <1>4, <1>6
    <2>3. M(a) = N(a) + (IF u.by = 1 THEN 1 ELSE 0) - (IF u.by = -1 THEN 1 ELSE 0)
      BY <1>9, <2>1, <2>2
    <2> QED
      BY <1>4, <1>10, <2>3
  <1>14. counts' = [counts EXCEPT ![a] = counts[a] + u.by]
    <2>1. ~(counts[a] + u.by < 0)
      BY <1>11, <1>13
    <2> QED
      BY <1>1, <1>5, <2>1
  <1> HIDE DEF u
  <1>15. counts'[a] = M(a) /\ \A b \in {"active", "idle"} : counts'[b] = M(b)
    BY <1>10, <1>12, <1>13, <1>14
  <1>16. counts' \in [{"active", "idle"} -> Nat]
    <2>1. DOMAIN counts' = {"active", "idle"} /\ counts' = [b \in {"active", "idle"} |-> counts'[b]]
      BY ZenonT(40), <1>10, <1>14
    <2> QED
      BY <1>11, <1>15, <2>1
  <1>17. CmapKinds(c)'
    BY <1>1, <1>2, <1>7 DEF CmapKinds
  <1>18. \A d \in deployment.conns : CmapKinds(d)'
    BY ZenonT(40), <1>1, <1>7, <1>17 DEF CmapKinds, PoolInv
  <1>19. \A b \in {"active", "idle"} : counts'[b] = Cardinality({d \in deployment.conns : CountedAs(d)' = b})
    BY <1>15 DEF M
  <1> QED
    BY ZenonT(40), <1>1, <1>7, <1>16, <1>18, <1>19 DEF PoolInv, CmapKinds


\* No connection is open before the first event, and both counts are zero.
LEMMA PoolStarts == ASSUME MetricsInit PROVE PoolInv
  <1>1. /\ deployment \in Deployments /\ conns = [c \in deployment.conns |-> "new"]
        /\ updates = [c \in deployment.conns |-> <<>>] /\ counts = [a \in {"active", "idle"} |-> 0]
        /\ misread = {}
    BY ZenonT(40) DEF MetricsInit
  <1>2. \A c \in deployment.conns : CountedAs(c) = "new"
    BY <1>1 DEF CountedAs
  <1>3. ASSUME NEW a \in {"active", "idle"} PROVE {c \in deployment.conns : CountedAs(c) = a} = {}
    BY <1>2
  <1> QED
    BY ZenonT(40), <1>1, <1>3, FS_EmptySet DEF PoolInv

\* Only the handlers of the pool's events change what it counts.
LEMMA PoolKeeps == ASSUME PoolRead, [MetricsNext]_metricsVars PROVE PoolRead'
  <1> DEFINE Aside == UNCHANGED <<deployment, conns, updates, counts, misread>>
  <1>0. Aside => PoolRead'
    <2>1. Aside /\ PoolInv => PoolInv'
      BY ZenonT(40) DEF PoolInv, CountedAs
    <2> QED
      BY <2>1 DEF PoolRead
  <1>1. CASE MintFlow \/ RegisterFails \/ Register \/ Tick
    BY ZenonT(40), <1>0, <1>1 DEF MintFlow, RegisterFails, Register, Tick, poolVars
  <1>2. ASSUME NEW f \in DOMAIN flows, FlowStep(f) PROVE PoolRead'
    <2>1. Aside
      BY ZenonT(40), <1>2 DEF FlowStep, StartTimer, Fetched, Transformed, Written, Failed, Commit, DropTimer, poolVars
    <2> QED
      BY <1>0, <2>1
  <1>3. ASSUME NEW c \in DOMAIN callers, CallerStep(c) PROVE PoolRead'
    <2>1. Aside
      BY <1>3 DEF CallerStep, queue_guard, Granted, DropQueue, active_guard, DropPermit, DropActive,
                  Move, AddTo, poolVars
    <2> QED
      BY <1>0, <2>1
  <1>4. ASSUME NEW c \in DOMAIN conns, cmap_handler(c) \/ UpdateAtomic(c) PROVE PoolRead'
    <2>1. misread \subseteq misread'
      BY <1>4 DEF cmap_handler, UpdateAtomic
    <2>2. CASE misread' # {}
      BY <2>2 DEF PoolRead
    <2>3. CASE misread' = {}
      <3>1. PoolInv
        BY <2>1, <2>3 DEF PoolRead
      <3>2. PoolInv'
        BY <1>4, <2>3, <3>1, HandlerKeeps, UpdateKeeps
      <3> QED
        BY <3>2 DEF PoolRead
    <2> QED
      BY <2>2, <2>3
  <1>5. ASSUME NEW s \in DOMAIN scrape, ScrapeStarts(s) \/ serve_metrics(s) PROVE PoolRead'
    BY <1>5, <1>0 DEF ScrapeStarts, serve_metrics, poolVars
  <1>6. ASSUME NEW s \in DOMAIN scrape, NEW v \in scrape[s].todo, VisitStep(s, v) PROVE PoolRead'
    <2>1. VisitGauge(s, v) => Aside
      BY DEF VisitGauge, Visited, poolVars
    <2>2. VisitSummary(s, v) => Aside
      BY DEF VisitSummary, Visited, poolVars
    <2>3. VisitGlobal(s, v) \/ VisitCounters(s, v) \/ CpuMove(s, v) \/ CpuEmit(s, v) \/ VisitPool(s, v) => Aside
      BY DEF VisitGlobal, VisitCounters, CpuMove, CpuEmit, VisitPool, Visited, poolVars
    <2>4. CpuRead(s, v) => Aside
      BY DEF CpuRead, poolVars
    <2> QED
      BY ZenonT(40), <1>0, <1>6, <2>1, <2>2, <2>3, <2>4 DEF VisitStep
  <1>7. CASE UNCHANGED metricsVars
    BY <1>0, <1>7 DEF metricsVars, poolVars
  <1> QED
    BY ZenonT(40), <1>1, <1>2, <1>3, <1>4, <1>5, <1>6, <1>7 DEF MetricsNext

\* The gauge of the callers past the lock counts no more of them than hold a
\* permit or have just dropped one.
LEMMA ActiveBounded ==
    ASSUME LockTypes, NEW k
    PROVE  Level("active", k) <= Cardinality(Holding(k))
              + Cardinality({c \in DOMAIN callers : callers[c].key = k /\ callers[c].pc = "released"})
  <1> DEFINE H == Holding(k)
             R == {c \in DOMAIN callers : callers[c].key = k /\ callers[c].pc = "released"}
  <1>1. IsFiniteSet(DOMAIN callers)
    BY DeploymentsAssumption DEF LockTypes
  <1>2. IsFiniteSet(H) /\ IsFiniteSet(R)
    BY <1>1, FS_Subset DEF Holding
  <1>3. Active(k) \subseteq H \cup R
    BY DEF Active, Holding
  <1>4. Level("active", k) = Cardinality(Active(k))
    BY DEF Level
  <1> HIDE DEF H, R
  <1>5. IsFiniteSet(H \cup R) /\ Cardinality(H \cup R) = Cardinality(H) + Cardinality(R) - Cardinality(H \cap R)
    BY <1>2, FS_Union
  <1>6. IsFiniteSet(H \cap R) /\ IsFiniteSet(Active(k)) /\ Cardinality(Active(k)) <= Cardinality(H \cup R)
    BY <1>2, <1>3, <1>5, FS_Intersection, FS_Subset
  <1>7. Cardinality(Active(k)) <= Cardinality(H) + Cardinality(R)
    BY <1>2, <1>5, <1>6, FS_CardinalityType
  <1> QED
    BY <1>4, <1>7 DEF H, R

\* The levels are exact (observability/gauge.rs, concurrency.rs, the pool
\* reader of mongo_connector.rs): for every set of flows, callers and
\* connections, and however the scrapes interleave with them, a gauge's
\* integral is the time its callers spent waiting or past the lock, a permit
\* released before its guard is the only excess, and a pool's two counts are
\* its connections whenever no event handler is under way and no error has
\* closed a connection outside an operation.
THEOREM LevelsExactHolds == MetricsSpec => []LevelsExact
  <1>1. MetricsInit => LockInv /\ PoolRead
    BY LockStarts, PoolStarts DEF PoolRead
  <1>2. LockInv /\ PoolRead /\ [MetricsNext]_metricsVars => (LockInv /\ PoolRead)'
    BY LockKeeps, PoolKeeps
  <1>3. LockInv /\ PoolRead => LevelsExact
    <2> SUFFICES ASSUME LockInv, PoolRead PROVE LevelsExact
      OBVIOUS
    <2>1. LockTypes
      BY DEF LockInv
    <2>2. ASSUME serving, NEW g \in Gauges, NEW k \in Components(deployment)
          PROVE  Exact(gauges[g][LockSlot(k)], g, k)
      BY <2>1, <2>2, AllMinted DEF LockInv, LockSlot
    <2>3. ASSUME serving, NEW k \in Components(deployment)
          PROVE  gauges["active"][LockSlot(k)].last_value <= Cardinality(Holding(k))
                    + Cardinality({c \in DOMAIN callers : callers[c].key = k /\ callers[c].pc = "released"})
      <3>1. gauges["active"][LockSlot(k)].last_value = Level("active", k)
        BY <2>2, <2>3 DEF Exact, Gauges
      <3> QED
        BY <2>1, <3>1, ActiveBounded
    <2>4. ASSUME misread = {}, \A c \in DOMAIN conns : updates[c] = <<>>, NEW a \in {"active", "idle"}
          PROVE  counts[a] = Cardinality({c \in DOMAIN conns : conns[c] = a})
      <3>0. PoolInv
        BY <2>4 DEF PoolRead
      <3>1. DOMAIN conns = deployment.conns
        BY <3>0 DEF PoolInv
      <3>2. {c \in deployment.conns : CountedAs(c) = a} = {c \in DOMAIN conns : conns[c] = a}
        BY <2>4, <3>1 DEF CountedAs
      <3> QED
        BY ZenonT(40), <3>0, <3>2 DEF PoolInv
    <2> QED
      BY ZenonT(40), <2>2, <2>3, <2>4 DEF LevelsExact, Exact, Measured
  <1> QED
    BY <1>1, <1>2, <1>3, PTL DEF MetricsSpec
=============================================================================
