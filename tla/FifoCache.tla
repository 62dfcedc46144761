----------------------------- MODULE FifoCache ------------------------------
(***************************************************************************)
(* The bounded cache (commons/caching/src/fifo_cache.rs) behind the        *)
(* compiled patterns of a flow: whoever holds a clone of it looks up under *)
(* the read lock, builds under no lock, inserts and evicts under the write *)
(* lock.  A value is a pure function of its key, so the map is the set of  *)
(* its keys.                                                               *)
(***************************************************************************)
EXTENDS Naturals, Sequences, FiniteSets, Functions

CONSTANTS
    Thread,
    Key,
    Bad,        \* keys whose build fails
    Cap         \* capacity

ASSUME CacheAssumption == Bad \subseteq Key /\ Cap \in Nat

VARIABLES
    map,        \* the keys of Inner::map
    queue,      \* Inner::queue
    want,       \* per thread, the keys (none or one) it missed and builds
    reader      \* threads that hold the read lock in use_value

cacheVars == <<map, queue, want, reader>>

CacheTypeOK ==
    /\ map \subseteq Key
    /\ queue \in Seq(Key)
    /\ want \in [Thread -> SUBSET Key]
    /\ reader \subseteq {t \in Thread : want[t] = {}}

CacheInit ==
    /\ map = {} /\ queue = <<>>
    /\ want = [t \in Thread |-> {}] /\ reader = {}

Idle(t) == want[t] = {} /\ t \notin reader

\* get_or_try_insert_with clones the value out; with_or_try_insert_with keeps
\* the read lock while it uses it.
Hit(t, k) ==
    /\ Cap # 0 /\ Idle(t) /\ k \in map
    /\ reader' \in {reader, reader \cup {t}}
    /\ UNCHANGED <<map, queue, want>>

\* use_value returns and the read lock is released.
Use(t) ==
    /\ t \in reader
    /\ reader' = reader \ {t}
    /\ UNCHANGED <<map, queue, want>>

Miss(t, k) ==
    /\ Idle(t) /\ (Cap = 0 \/ k \notin map)
    /\ want' = [want EXCEPT ![t] = {k}]
    /\ UNCHANGED <<map, queue, reader>>

\* The error of build is the caller's; with Cap = 0 so is the value.
NotStored(t) ==
    /\ want[t] # {} /\ (Cap = 0 \/ want[t] \subseteq Bad)
    /\ want' = [want EXCEPT ![t] = {}]
    /\ UNCHANGED <<map, queue, reader>>

\* Mutant of Insert: the key is not looked up again under the write lock.
InsertBlind(t) ==
    /\ Cap # 0 /\ want[t] # {} /\ want[t] \cap Bad = {}
    /\ reader = {}
    /\ want' = [want EXCEPT ![t] = {}]
    /\ \E k \in want[t] :
          IF Cardinality(map \cup {k}) > Cap
          THEN /\ queue' = Tail(Append(queue, k))
               /\ map' = (map \cup {k}) \ {Head(Append(queue, k))}
          ELSE queue' = Append(queue, k) /\ map' = map \cup {k}
    /\ UNCHANGED reader

\* Under the write lock: another thread may have stored the key meanwhile.
Insert(t) ==
    /\ Cap # 0 /\ want[t] # {} /\ want[t] \cap Bad = {}
    /\ reader = {}
    /\ want' = [want EXCEPT ![t] = {}]
    /\ \E k \in want[t] :
          IF k \in map THEN UNCHANGED <<map, queue>>
          ELSE IF Cardinality(map \cup {k}) > Cap
          THEN /\ queue' = Tail(Append(queue, k))
               /\ map' = (map \cup {k}) \ {Head(Append(queue, k))}
          ELSE queue' = Append(queue, k) /\ map' = map \cup {k}
    /\ UNCHANGED reader

CacheNext == \E t \in Thread :
    \/ \E k \in Key : Hit(t, k) \/ Miss(t, k)
    \/ Use(t) \/ NotStored(t) \/ Insert(t)

CacheSpec == CacheInit /\ [][CacheNext]_cacheVars

-----------------------------------------------------------------------------
(* Properties.                                                             *)

\* Whatever threads missed the same key at once, the queue holds each stored
\* key once and no other: eviction always finds what to remove, and the cache
\* never outgrows its capacity.
QueueMirrorsMap ==
    /\ map = Range(queue) /\ Len(queue) = Cardinality(map)
    /\ Len(queue) <= Cap

\* A failed build leaves nothing that a later lookup could hit.
ErrorsNotStored == map \cap Bad = {}

\* A key leaves the cache only as the oldest of a full cache, and one at a time.
EvictsOldest ==
    [][\A k \in map \ map' : Len(queue) = Cap /\ k = Head(queue)]_cacheVars

\* The cache is bounded, its queue and map agree, and no failure is stored.
CacheSound == QueueMirrorsMap /\ ErrorsNotStored
=============================================================================
