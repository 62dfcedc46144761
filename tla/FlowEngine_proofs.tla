-------------------------- MODULE FlowEngine_proofs --------------------------
(***************************************************************************)
(* For any number of flows, any components and any max-connections: a flow *)
(* holds at most one permit, permits are conserved, whoever waits waits    *)
(* for a flow that runs, and run() returns the first error.                *)
(***************************************************************************)
EXTENDS FlowEngine, DataLemmas, FiniteSetTheorems, TLAPS

\* What a step that names no prover is tried with: the translation of a large
\* obligation for the SMT solver may be cut short, and is then repeated.
USE SMTT(15), ZenonT(20), Z3T(15), SMTT(20)

\* Nobody is in a queue twice.
QueuedOnce == \A c \in Component : IsInjective(queue[c])

\* The inductive invariant of the locks.
LockInv == EngineTypeOK /\ OnePermit /\ PermitsConserved /\ QueuedOnce

-----------------------------------------------------------------------------
(* Taking and returning a permit.                                          *)

\* The flows that hold a component's permits are finitely many.
LEMMA PermitSets ==
    ASSUME EngineTypeOK, NEW c \in Component
    PROVE  IsFiniteSet(permits[c]) /\ Cardinality(permits[c]) \in Nat
  <1>1. IsFiniteSet(Flow)
    BY FS_Interval, NAssumption DEF Flow
  <1> QED
    BY <1>1, FS_Subset, FS_CardinalityType DEF EngineTypeOK

\* The I/O unit of a flow names a component.
LEMMA TargetType ==
    ASSUME NEW f \in Flow
    PROVE  Target(f) \in Component
  <1>1. KindOf(phase[f]) \in Kind
    BY DEF KindOf, Kind
  <1> QED
    BY <1>1, UsesAssumption DEF Target

\* acquire keeps the invariant, whether it gets the permit or has to queue.
LEMMA AcquireKeeps ==
    ASSUME LockInv, NEW f \in Flow, Acquire(f)
    PROVE  LockInv'
  <1> DEFINE c == Target(f)
  <1>0. c \in Component
    BY TargetType
  <1>1. /\ phase' = phase /\ have' = have /\ stop' = stop
        /\ mode' = mode /\ awaiting' = awaiting /\ firstError' = firstError
        /\ \A g \in Flow : Target(g)' = Target(g)
    BY DEF Acquire, engine, Target
  <1>2. /\ \A d \in Component : f \notin permits[d] /\ f \notin Range(queue[d])
        /\ phase[f] \in Unit
    BY DEF Acquire, Holds, Waits
  <1>3. /\ permits \in [Component -> SUBSET Flow]
        /\ queue \in [Component -> Seq(Flow)]
        /\ free \in [Component -> Nat]
    BY DEF LockInv, EngineTypeOK
  <1> HIDE DEF c
  <1>a. CASE /\ free[c] > 0
             /\ free' = [free EXCEPT ![c] = free[c] - 1]
             /\ permits' = [permits EXCEPT ![c] = permits[c] \cup {f}]
             /\ queue' = queue
    <2>1. EngineTypeOK'
      BY <1>0, <1>1, <1>3, <1>a DEF LockInv, EngineTypeOK
    <2>2. OnePermit'
      <3> SUFFICES ASSUME NEW g \in Flow
                   PROVE  /\ Holds(g)' \cap Waits(g)' = {}
                          /\ Holds(g)' \cup Waits(g)' \subseteq
                                IF phase[g] \in Unit THEN {Target(g)} ELSE {}
        BY <1>1 DEF OnePermit
      <3>1. CASE g = f
        <4>1. Holds(g)' = {c} /\ Waits(g)' = {}
          BY <1>0, <1>2, <1>3, <1>a, <3>1 DEF Holds, Waits
        <4> QED
          BY <1>2, <3>1, <4>1 DEF c
      <3>2. CASE g # f
        <4>1. Holds(g)' = Holds(g) /\ Waits(g)' = Waits(g)
          BY <1>0, <1>3, <1>a, <3>2 DEF Holds, Waits
        <4> QED
          BY <4>1 DEF LockInv, OnePermit
      <3> QED
        BY <3>1, <3>2
    <2>3. PermitsConserved'
      <3> SUFFICES ASSUME NEW d \in Component
                   PROVE  /\ free'[d] + Cardinality(permits'[d]) = MaxConnections[d]
                          /\ queue'[d] # <<>> => free'[d] = 0
        BY DEF PermitsConserved
      <3>1. /\ free[d] + Cardinality(permits[d]) = MaxConnections[d]
            /\ queue[d] # <<>> => free[d] = 0
            /\ Cardinality(permits[d]) \in Nat /\ free[d] \in Nat
        BY <1>3, PermitSets DEF LockInv, PermitsConserved
      <3>2. CASE d = c
        <4>1. Cardinality(permits[c] \cup {f}) = Cardinality(permits[c]) + 1
          BY ZenonT(40), <1>0, <1>2, FS_AddElement, PermitSets DEF LockInv
        <4>2. permits'[c] = permits[c] \cup {f} /\ free'[c] = free[c] - 1
          BY <1>0, <1>3, <1>a
        <4>3. \A k \in Nat, m \in Nat : (m - 1) + (k + 1) = m + k
          OBVIOUS
        <4>4. free'[c] + Cardinality(permits'[c]) = free[c] + Cardinality(permits[c])
          BY <3>1, <3>2, <4>1, <4>2, <4>3
        <4>5. queue'[c] = <<>>
          BY <1>a, <3>1, <3>2
        <4> QED
          BY <3>1, <3>2, <4>4, <4>5
      <3>3. CASE d # c
        BY <1>0, <1>3, <1>a, <3>1, <3>3
      <3> QED
        BY <3>2, <3>3
    <2>4. QueuedOnce'
      BY <1>a DEF LockInv, QueuedOnce
    <2> QED
      BY <2>1, <2>2, <2>3, <2>4 DEF LockInv
  <1>b. CASE /\ free[c] = 0
             /\ queue' = [queue EXCEPT ![c] = Append(queue[c], f)]
             /\ free' = free /\ permits' = permits
    <2>0. /\ Append(queue[c], f) \in Seq(Flow)
          /\ Range(Append(queue[c], f)) = Range(queue[c]) \cup {f}
          /\ IsInjective(Append(queue[c], f))
      BY <1>0, <1>2, <1>3, AppendQueue DEF LockInv, QueuedOnce
    <2>1. EngineTypeOK'
      BY <1>0, <1>1, <1>3, <1>b, <2>0 DEF LockInv, EngineTypeOK
    <2>2. OnePermit'
      <3> SUFFICES ASSUME NEW g \in Flow
                   PROVE  /\ Holds(g)' \cap Waits(g)' = {}
                          /\ Holds(g)' \cup Waits(g)' \subseteq
                                IF phase[g] \in Unit THEN {Target(g)} ELSE {}
        BY <1>1 DEF OnePermit
      <3>0. \A d \in Component : Range(queue'[d]) =
                Range(queue[d]) \cup (IF d = c THEN {f} ELSE {})
        BY <1>0, <1>3, <1>b, <2>0
      <3>1. CASE g = f
        <4>1. Holds(g)' = {} /\ Waits(g)' = {c}
          BY <1>0, <1>2, <1>b, <3>0, <3>1 DEF Holds, Waits
        <4> QED
          BY <1>2, <3>1, <4>1 DEF c
      <3>2. CASE g # f
        <4>1. Holds(g)' = Holds(g) /\ Waits(g)' = Waits(g)
          BY <1>0, <1>b, <3>0, <3>2 DEF Holds, Waits
        <4> QED
          BY <4>1 DEF LockInv, OnePermit
      <3> QED
        BY <3>1, <3>2
    <2>3. PermitsConserved'
      BY <1>0, <1>3, <1>b DEF LockInv, PermitsConserved
    <2>4. QueuedOnce'
      BY <1>0, <1>3, <1>b, <2>0 DEF LockInv, QueuedOnce
    <2> QED
      BY <2>1, <2>2, <2>3, <2>4 DEF LockInv
  <1> QED
    BY <1>a, <1>b DEF Acquire, c

\* Dropping the guard keeps it too, wherever the flow goes from there: the
\* permit is handed to the first waiter or put back.
LEMMA ReleaseKeeps ==
    ASSUME LockInv, NEW f \in Flow, NEW c \in Holds(f), Release(f, c),
           NEW p \in Unit \cup Ended \cup {"sleep"},
           phase' = [phase EXCEPT ![f] = p],
           have' \in [Flow -> SUBSET {"source", "sink", "cursor"}],
           UNCHANGED <<stop, engine>>
    PROVE  LockInv'
  <1>0. c \in Component /\ f \in permits[c]
    BY DEF Holds
  <1>1. /\ permits \in [Component -> SUBSET Flow]
        /\ queue \in [Component -> Seq(Flow)]
        /\ free \in [Component -> Nat]
        /\ phase' \in [Flow -> Unit \cup Ended \cup {"sleep"}]
        /\ mode' \in {"Daemon", "Once"}
        /\ stop' \in BOOLEAN /\ awaiting' \in 1..(N + 1) /\ firstError' \in 0..N
    BY DEF LockInv, EngineTypeOK, engine
  <1>2. \A d \in Component : f \in permits[d] => d = c
    BY <1>0 DEF LockInv, OnePermit, Holds, Waits
  <1>3. \A d \in Component : f \notin Range(queue[d])
    BY <1>0 DEF LockInv, OnePermit, Holds, Waits
  <1>4. \A g \in Flow \ {f} : phase'[g] = phase[g] /\ Target(g)' = Target(g)
    BY DEF LockInv, EngineTypeOK, Target
  <1>5. \A d \in Component :
            /\ free[d] + Cardinality(permits[d]) = MaxConnections[d]
            /\ queue[d] # <<>> => free[d] = 0
            /\ Cardinality(permits[d]) \in Nat /\ IsFiniteSet(permits[d])
    BY PermitSets DEF LockInv, PermitsConserved
  <1>6. /\ IsFiniteSet(permits[c] \ {f})
        /\ Cardinality(permits[c] \ {f}) = Cardinality(permits[c]) - 1
    BY <1>0, <1>5, FS_RemoveElement
  <1>7. \A k \in Nat, m \in Nat : (m + 1) + (k - 1) = m + k /\ (k - 1) + 1 = k
    OBVIOUS
  <1>a. CASE /\ queue[c] = <<>>
             /\ permits' = [permits EXCEPT ![c] = permits[c] \ {f}]
             /\ free' = [free EXCEPT ![c] = free[c] + 1]
             /\ queue' = queue
    <2>1. EngineTypeOK'
      BY <1>0, <1>1, <1>a DEF LockInv, EngineTypeOK
    <2>2. OnePermit'
      <3> SUFFICES ASSUME NEW g \in Flow
                   PROVE  /\ Holds(g)' \cap Waits(g)' = {}
                          /\ Holds(g)' \cup Waits(g)' \subseteq
                                IF phase'[g] \in Unit THEN {Target(g)'} ELSE {}
        BY DEF OnePermit
      <3>1. CASE g = f
        BY <1>0, <1>1, <1>2, <1>3, <1>a, <3>1 DEF Holds, Waits
      <3>2. CASE g # f
        <4>1. Holds(g)' = Holds(g) /\ Waits(g)' = Waits(g)
          BY <1>0, <1>1, <1>a, <3>2 DEF Holds, Waits
        <4> QED
          BY <1>4, <3>2, <4>1 DEF LockInv, OnePermit
      <3> QED
        BY <3>1, <3>2
    <2>3. PermitsConserved'
      <3> SUFFICES ASSUME NEW d \in Component
                   PROVE  /\ free'[d] + Cardinality(permits'[d]) = MaxConnections[d]
                          /\ queue'[d] # <<>> => free'[d] = 0
        BY DEF PermitsConserved
      <3>1. CASE d = c
        <4>1. permits'[c] = permits[c] \ {f} /\ free'[c] = free[c] + 1
          BY <1>0, <1>1, <1>a
        <4>2. free'[c] + Cardinality(permits'[c]) = free[c] + Cardinality(permits[c])
          BY <1>0, <1>1, <1>5, <1>6, <1>7, <4>1
        <4> QED
          BY <1>0, <1>5, <1>a, <3>1, <4>2
      <3>2. CASE d # c
        BY <1>0, <1>1, <1>5, <1>a, <3>2
      <3> QED
        BY <3>1, <3>2
    <2>4. QueuedOnce'
      BY <1>a DEF LockInv, QueuedOnce
    <2> QED
      BY <2>1, <2>2, <2>3, <2>4 DEF LockInv
  <1>b. CASE /\ queue[c] # <<>>
             /\ permits' = [permits EXCEPT ![c] = (permits[c] \ {f}) \cup {Head(queue[c])}]
             /\ queue' = [queue EXCEPT ![c] = Tail(queue[c])]
             /\ free' = free
    <2> DEFINE h == Head(queue[c])
    <2>0. /\ Tail(queue[c]) \in Seq(Flow) /\ h \in Flow
          /\ h \in Range(queue[c])
          /\ Range(Tail(queue[c])) = Range(queue[c]) \ {h}
          /\ IsInjective(Tail(queue[c]))
      BY <1>0, <1>1, <1>b, TailQueue DEF LockInv, QueuedOnce
    <2>1. h # f
      BY <1>0, <1>3, <2>0
    <2>2. /\ \A d \in Component : h \notin permits[d]
          /\ \A d \in Component : h \in Range(queue[d]) => d = c
          /\ phase[h] \in Unit /\ Target(h) = c
      BY <1>0, <2>0 DEF LockInv, OnePermit, Holds, Waits
    <2> HIDE DEF h
    <2>3. /\ permits' = [permits EXCEPT ![c] = (permits[c] \ {f}) \cup {h}]
          /\ \A d \in Component : Range(queue'[d]) =
                 Range(queue[d]) \ (IF d = c THEN {h} ELSE {})
      BY <1>0, <1>1, <1>b, <2>0 DEF h
    <2>4. EngineTypeOK'
      BY <1>0, <1>1, <1>b, <2>0, <2>3 DEF LockInv, EngineTypeOK
    <2>5. OnePermit'
      <3> SUFFICES ASSUME NEW g \in Flow
                   PROVE  /\ Holds(g)' \cap Waits(g)' = {}
                          /\ Holds(g)' \cup Waits(g)' \subseteq
                                IF phase'[g] \in Unit THEN {Target(g)'} ELSE {}
        BY DEF OnePermit
      <3>1. CASE g = f
        BY <1>0, <1>1, <1>2, <1>3, <2>1, <2>3, <3>1 DEF Holds, Waits
      <3>2. CASE g = h
        <4>1. Holds(g)' = {c} /\ Waits(g)' = {}
          BY ZenonT(40), <1>0, <1>1, <2>2, <2>3, <3>2 DEF Holds, Waits
        <4> QED
          BY <1>4, <2>0, <2>1, <2>2, <3>2, <4>1
      <3>3. CASE g # f /\ g # h
        <4>1. Holds(g)' = Holds(g) /\ Waits(g)' = Waits(g)
          BY <1>0, <1>1, <2>3, <3>3 DEF Holds, Waits
        <4> QED
          BY <1>4, <3>3, <4>1 DEF LockInv, OnePermit
      <3> QED
        BY <3>1, <3>2, <3>3
    <2>6. PermitsConserved'
      <3> SUFFICES ASSUME NEW d \in Component
                   PROVE  /\ free'[d] + Cardinality(permits'[d]) = MaxConnections[d]
                          /\ queue'[d] # <<>> => free'[d] = 0
        BY DEF PermitsConserved
      <3>1. CASE d = c
        <4>1. permits'[c] = (permits[c] \ {f}) \cup {h}
          BY <1>0, <1>1, <2>3
        <4>2. h \notin permits[c] \ {f}
          BY <1>0, <2>2
        <4>a. Cardinality((permits[c] \ {f}) \cup {h}) = Cardinality(permits[c] \ {f}) + 1
          BY <1>6, <4>2, FS_AddElement
        <4>3. Cardinality(permits'[c]) = Cardinality(permits[c])
          BY <1>0, <1>5, <1>6, <1>7, <4>1, <4>a
        <4>4. queue[c] # <<>> /\ free'[c] = free[c] /\ free[c] = 0
          BY <1>0, <1>5, <1>b
        <4> QED
          BY <1>0, <1>5, <3>1, <4>3, <4>4
      <3>2. CASE d # c
        BY <1>0, <1>1, <1>5, <1>b, <3>2
      <3> QED
        BY <3>1, <3>2
    <2>7. QueuedOnce'
      BY <1>0, <1>1, <1>b, <2>0 DEF LockInv, QueuedOnce
    <2> QED
      BY <2>4, <2>5, <2>6, <2>7 DEF LockInv
  <1> QED
    BY <1>a, <1>b DEF Release

-----------------------------------------------------------------------------
(* The locks.                                                              *)

\* A unit of a tick leads to another unit, to a sleep or to the end.
LEMMA OutcomesType ==
    ASSUME NEW u \in Unit, NEW h \in SUBSET {"source", "sink", "cursor"},
           NEW o \in Outcomes(u, h)
    PROVE  /\ o[1] \in Unit \cup Ended \cup {"sleep"}
           /\ o[2] \in SUBSET {"source", "sink", "cursor"}
  <1>1. \A x : FirstUnit(x) \in Unit \cup Ended
    BY DEF FirstUnit, Unit, Ended
  <1>2. \A x : AfterTick(x) \subseteq Unit \cup Ended
    BY <1>1 DEF AfterTick, Ended
  <1>a. CASE u = "buildSource"
    BY <1>1, <1>a DEF Outcomes
  <1>b. CASE u = "buildSink"
    BY <1>1, <1>b DEF Outcomes
  <1>c. CASE u = "load"
    BY <1>c DEF Outcomes, Unit
  <1>d. CASE u = "read"
    BY <1>d DEF Outcomes, Unit, Ended
  <1>e. CASE u = "write"
    BY <1>2, <1>e DEF Outcomes, Unit
  <1>f. CASE u = "save"
    BY <1>2, <1>f DEF Outcomes
  <1> QED
    BY <1>a, <1>b, <1>c, <1>d, <1>e, <1>f DEF Unit

\* No permit is taken when the tasks are spawned.
LEMMA LockInit == Init => LockInv
  <1> SUFFICES ASSUME Init PROVE LockInv
    OBVIOUS
  <1>0. N \in Nat /\ N >= 1
    BY NAssumption
  <1>1. EngineTypeOK
    <2>1. /\ phase \in [Flow -> Unit \cup Ended \cup {"sleep"}]
          /\ have \in [Flow -> SUBSET {"source", "sink", "cursor"}]
      BY DEF Init, Unit
    <2>2. /\ permits \in [Component -> SUBSET Flow]
          /\ queue \in [Component -> Seq(Flow)]
          /\ free \in [Component -> Nat]
      BY MaxAssumption DEF Init
    <2>3. /\ mode \in {"Daemon", "Once"}
          /\ stop \in BOOLEAN /\ awaiting \in 1..(N + 1) /\ firstError \in 0..N
      <3>1. 1 \in 1..(N + 1) /\ 0 \in 0..N
        BY <1>0
      <3> QED
        BY <3>1, ZenonT(40) DEF Init
    <2> QED
      BY <2>1, <2>2, <2>3 DEF EngineTypeOK
  <1>2. \A c \in Component : permits[c] = {} /\ queue[c] = <<>> /\ Range(queue[c]) = {}
    BY DEF Init, Range
  <1>3. OnePermit
    BY <1>2 DEF OnePermit, Holds, Waits
  <1>4. PermitsConserved
    <2> SUFFICES ASSUME NEW c \in Component
                 PROVE  free[c] + Cardinality(permits[c]) = MaxConnections[c]
      BY <1>2 DEF PermitsConserved
    <2>1. Cardinality(permits[c]) = 0 /\ free[c] = MaxConnections[c] /\ MaxConnections[c] \in Nat
      BY <1>2, FS_EmptySet, MaxAssumption DEF Init
    <2> QED
      BY <2>1
  <1>5. QueuedOnce
    BY <1>2 DEF QueuedOnce, IsInjective
  <1> QED
    BY <1>1, <1>3, <1>4, <1>5 DEF LockInv

\* A step that leaves the locks and every flow inside a unit alone.
LEMMA SameLocks ==
    ASSUME LockInv, EngineTypeOK', UNCHANGED locks,
           \A g \in Flow : phase[g] \in Unit => phase'[g] = phase[g]
    PROVE  LockInv'
  <1>1. permits' = permits /\ queue' = queue /\ free' = free
    BY DEF locks
  <1>2. \A g \in Flow : Holds(g)' = Holds(g) /\ Waits(g)' = Waits(g)
    BY <1>1 DEF Holds, Waits
  <1>3. OnePermit'
    <2> SUFFICES ASSUME NEW g \in Flow
                 PROVE  /\ Holds(g)' \cap Waits(g)' = {}
                        /\ Holds(g)' \cup Waits(g)' \subseteq
                              IF phase'[g] \in Unit THEN {Target(g)'} ELSE {}
      BY DEF OnePermit
    <2>1. CASE phase[g] \in Unit
      BY <1>2, <2>1 DEF LockInv, OnePermit, Target
    <2>2. CASE phase[g] \notin Unit
      BY <1>2, <2>2 DEF LockInv, OnePermit
    <2> QED
      BY <2>1, <2>2
  <1> QED
    BY <1>1, <1>3 DEF LockInv, PermitsConserved, QueuedOnce

\* No step loses, makes or queues a permit twice.
LEMMA LockStep == LockInv /\ [Next]_vars => LockInv'
  <1> SUFFICES ASSUME LockInv, [Next]_vars PROVE LockInv'
    OBVIOUS
  <1> USE DEF engine
  <1>0. EngineTypeOK
    BY DEF LockInv
  <1>1. ASSUME NEW f \in Flow, Acquire(f) PROVE LockInv'
    BY <1>1, AcquireKeeps
  <1>2. ASSUME NEW f \in Flow, UnitOk(f) PROVE LockInv'
    <2>1. PICK c \in Holds(f) : Release(f, c)
      BY <1>2 DEF UnitOk
    <2>2. PICK o \in Outcomes(phase[f], have[f]) :
              /\ phase' = [phase EXCEPT ![f] = o[1]]
              /\ have' = [have EXCEPT ![f] = o[2]]
      BY ZenonT(40), <1>2 DEF UnitOk
    <2>3. phase[f] \in Unit /\ have[f] \in SUBSET {"source", "sink", "cursor"}
      BY <1>0, <1>2 DEF UnitOk, EngineTypeOK
    <2>4. /\ o[1] \in Unit \cup Ended \cup {"sleep"}
          /\ o[2] \in SUBSET {"source", "sink", "cursor"}
      BY <2>3, OutcomesType
    <2>5. have' \in [Flow -> SUBSET {"source", "sink", "cursor"}]
      BY <1>0, <2>2, <2>4 DEF EngineTypeOK
    <2>6. UNCHANGED <<stop, engine>>
      BY <1>2 DEF UnitOk
    <2> QED
      BY ZenonT(40), <2>1, <2>2, <2>4, <2>5, <2>6, ReleaseKeeps
  <1>3. ASSUME NEW f \in Flow, UnitFails(f) PROVE LockInv'
    <2>1. PICK c \in Holds(f) : Release(f, c)
      BY <1>3 DEF UnitFails
    <2>2. PICK h \in {have[f], have[f] \ {"source", "sink"}}
                  \cup (IF phase[f] = "buildSink" THEN {have[f] \cup {"sink"}} ELSE {}) :
              have' = [have EXCEPT ![f] = h]
      BY ZenonT(40), <1>3 DEF UnitFails
    <2>3. h \in SUBSET {"source", "sink", "cursor"}
      BY <1>0, <2>2 DEF EngineTypeOK
    <2>4. have' \in [Flow -> SUBSET {"source", "sink", "cursor"}]
      BY <1>0, <2>2, <2>3 DEF EngineTypeOK
    <2> DEFINE p == IF mode = "Once" THEN "failed" ELSE "sleep"
    <2>5. p \in Unit \cup Ended \cup {"sleep"}
      BY DEF Ended
    <2>6. phase' = [phase EXCEPT ![f] = p] /\ UNCHANGED <<stop, engine>>
      BY <1>3 DEF UnitFails
    <2> HIDE DEF p
    <2> QED
      BY ZenonT(40), <2>1, <2>4, <2>5, <2>6, ReleaseKeeps
  <1>4. ASSUME NEW f \in Flow, Panic(f) PROVE LockInv'
    <2>1. PICK c \in Holds(f) : Release(f, c)
      BY <1>4 DEF Panic
    <2>2. have' \in [Flow -> SUBSET {"source", "sink", "cursor"}]
      BY <1>0, <1>4 DEF Panic, EngineTypeOK
    <2>3. "panicked" \in Unit \cup Ended \cup {"sleep"}
      BY DEF Ended
    <2>4. phase' = [phase EXCEPT ![f] = "panicked"] /\ UNCHANGED <<stop, engine>>
      BY <1>4 DEF Panic
    <2> QED
      BY ZenonT(40), <2>1, <2>2, <2>3, <2>4, ReleaseKeeps
  <1>5. ASSUME NEW f \in Flow, Wake(f) PROVE LockInv'
    <2>1. \A g \in Flow : phase[g] \in Unit => phase'[g] = phase[g]
      BY <1>0, <1>5 DEF Wake, EngineTypeOK, Unit
    <2>2. (IF stop THEN "done" ELSE FirstUnit(have[f])) \in Unit \cup Ended
      BY DEF FirstUnit, Unit, Ended
    <2>3. phase' \in [Flow -> Unit \cup Ended \cup {"sleep"}]
      BY <1>0, <1>5, <2>2 DEF Wake, EngineTypeOK
    <2>4. EngineTypeOK' /\ UNCHANGED locks
      BY <1>0, <1>5, <2>3 DEF Wake, EngineTypeOK, locks
    <2> QED
      BY <2>1, <2>4, SameLocks
  <1>6. ASSUME Shutdown PROVE LockInv'
    <2>1. EngineTypeOK' /\ UNCHANGED locks /\ phase' = phase
      BY <1>0, <1>6 DEF Shutdown, EngineTypeOK, locks
    <2> QED
      BY <2>1, SameLocks
  <1>7. ASSUME Await PROVE LockInv'
    <2>1. N \in Nat /\ awaiting \in 1..N
      BY <1>0, <1>7, NAssumption DEF Await, EngineTypeOK
    <2>2. awaiting' \in 1..(N + 1) /\ firstError' \in 0..N
      BY <1>0, <1>7, <2>1 DEF Await, EngineTypeOK
    <2>3. EngineTypeOK' /\ UNCHANGED locks /\ phase' = phase
      BY <1>0, <1>7, <2>2 DEF Await, EngineTypeOK, locks
    <2> QED
      BY <2>3, SameLocks
  <1>8. ASSUME UNCHANGED vars PROVE LockInv'
    <2>1. EngineTypeOK' /\ UNCHANGED locks /\ phase' = phase
      BY <1>0, <1>8 DEF vars, EngineTypeOK, locks
    <2> QED
      BY <2>1, SameLocks
  <1> QED
    BY <1>1, <1>2, <1>3, <1>4, <1>5, <1>6, <1>7, <1>8 DEF Next, FlowStep, Finished

\* The permit invariant holds throughout.
LEMMA LocksSafe == Spec => []LockInv
  BY LockInit, LockStep, PTL DEF Spec

\* The type invariant of the engine.
THEOREM EngineTypeCorrect == Spec => []EngineTypeOK
  <1>1. LockInv => EngineTypeOK
    BY DEF LockInv
  <1> QED
    BY <1>1, LocksSafe, PTL

\* The claim of concurrency.rs: no flow ever holds, or waits for, a permit
\* other than that of the component it is using; and success, error and panic
\* alike return it.
THEOREM PermitsSoundHolds == Spec => []PermitsSound
  <1>1. LockInv => PermitsSound
    BY DEF LockInv, PermitsSound
  <1> QED
    BY <1>1, LocksSafe, PTL

\* "Deadlock between flows is structurally impossible": those who wait, wait
\* for flows that wait for nobody.
THEOREM WaitsForRunningHolds == Spec => []WaitsForRunning
  <1>1. ASSUME LockInv PROVE WaitsForRunning
    <2> SUFFICES ASSUME NEW c \in Component, queue[c] # <<>>
                 PROVE  /\ permits[c] # {}
                        /\ \A f \in permits[c] : Waits(f) = {} /\ phase[f] \in Unit
      BY DEF WaitsForRunning
    <2>1. free[c] = 0 /\ free[c] + Cardinality(permits[c]) = MaxConnections[c]
      BY <1>1 DEF LockInv, PermitsConserved
    <2>2. Cardinality(permits[c]) \in Nat /\ MaxConnections[c] \in Nat /\ MaxConnections[c] # 0
      BY <1>1, PermitSets, MaxAssumption DEF LockInv
    <2>3. permits[c] # {}
      <3>0. \A k \in Nat, m \in Nat : 0 + k = m /\ m # 0 => k # 0
        OBVIOUS
      <3>1. Cardinality(permits[c]) # 0
        BY <2>1, <2>2, <3>0, ZenonT(40)
      <3> QED
        BY <3>1, FS_EmptySet, ZenonT(40)
    <2>4. ASSUME NEW f \in permits[c]
          PROVE  Waits(f) = {} /\ phase[f] \in Unit
      <3>1. f \in Flow /\ c \in Holds(f)
        BY <1>1 DEF LockInv, EngineTypeOK, Holds
      <3> QED
        BY <1>1, <3>1 DEF LockInv, OnePermit
    <2> QED
      BY <2>3, <2>4
  <1> QED
    BY <1>1, LocksSafe, PTL

-----------------------------------------------------------------------------
(* The result of run().                                                    *)

\* A flow that has ended takes no more steps, so what run() saw of it stays
\* true.
LEMMA EndedStays ==
    ASSUME EngineTypeOK, [Next]_vars, NEW f \in Flow, phase[f] \in Ended
    PROVE  phase'[f] = phase[f]
  <1>0. phase \in [Flow -> Unit \cup Ended \cup {"sleep"}] /\ phase[f] \notin Unit
        /\ phase[f] # "sleep"
    BY DEF EngineTypeOK, Unit, Ended
  <1>1. ASSUME NEW g \in Flow, FlowStep(g) \/ Panic(g)
        PROVE  phase'[f] = phase[f]
    <2>1. CASE g = f
      BY <1>0, <1>1, <2>1 DEF FlowStep, Acquire, UnitOk, UnitFails, Wake, Panic
    <2>2. CASE g # f
      BY <1>0, <1>1, <2>2 DEF FlowStep, Acquire, UnitOk, UnitFails, Wake, Panic
    <2> QED
      BY <2>1, <2>2
  <1>2. CASE Shutdown \/ Await \/ Finished \/ UNCHANGED vars
    BY <1>2 DEF Shutdown, Await, Finished, vars
  <1> QED
    BY <1>1, <1>2 DEF Next

\* Only Await moves the engine.
LEMMA EngineMoves ==
    ASSUME [Next]_vars, ~Await
    PROVE  awaiting' = awaiting /\ firstError' = firstError
  BY DEF Next, FlowStep, Acquire, UnitOk, UnitFails, Wake, Panic, Shutdown,
         Finished, vars, engine

\* Only the await of the next handle sets the first error.
LEMMA ErrorStep == EngineTypeOK /\ ReturnsFirstError /\ [Next]_vars => ReturnsFirstError'
  <1>a. ASSUME EngineTypeOK, ReturnsFirstError, [Next]_vars
        PROVE  firstError' < awaiting'
    <2>1. /\ awaiting \in Nat /\ firstError \in Nat /\ firstError < awaiting
      BY <1>a, NAssumption DEF EngineTypeOK, ReturnsFirstError
    <2>2. CASE Await
      BY <2>1, <2>2 DEF Await
    <2>3. CASE ~Await
      BY <1>a, <2>1, <2>3, EngineMoves
    <2> QED
      BY <2>2, <2>3
  <1> SUFFICES ASSUME EngineTypeOK, ReturnsFirstError, [Next]_vars,
                      NEW f \in Flow, f < awaiting'
               PROVE  /\ phase'[f] \in Ended
                      /\ phase'[f] # "done" => firstError' \in 1..f
                      /\ firstError' = f => phase'[f] # "done"
    BY <1>a DEF ReturnsFirstError
  <1>0. /\ N \in Nat /\ f \in 1..N
        /\ awaiting \in 1..(N + 1) /\ firstError \in 0..N
    BY NAssumption DEF EngineTypeOK, Flow
  <1>1. CASE f < awaiting
    <2>1. /\ phase[f] \in Ended
          /\ phase[f] # "done" => firstError \in 1..f
          /\ firstError = f => phase[f] # "done"
      BY <1>1 DEF ReturnsFirstError
    <2>2. phase'[f] = phase[f]
      BY <2>1, EndedStays
    <2>3. CASE ~Await
      BY <2>1, <2>2, <2>3, EngineMoves
    <2>4. CASE Await
      <3>1. firstError' = firstError \/ (firstError = 0 /\ firstError' = awaiting)
        BY <2>4 DEF Await
      <3>2. firstError = 0 => phase[f] = "done"
        BY <1>0, <2>1
      <3> QED
        BY <1>0, <1>1, <2>1, <2>2, <3>1, <3>2
    <2> QED
      BY <2>3, <2>4
  <1>2. CASE ~(f < awaiting)
    <2>1. Await
      BY <1>2, EngineMoves
    <2>2. f = awaiting
      BY <1>0, <1>2, <2>1 DEF Await
    <2>3. /\ phase[f] \in Ended /\ phase' = phase
          /\ firstError' = IF phase[f] # "done" /\ firstError = 0 THEN f ELSE firstError
      BY <2>1, <2>2 DEF Await
    <2>4. firstError < awaiting
      BY DEF ReturnsFirstError
    <2> QED
      BY <1>0, <2>2, <2>3, <2>4
  <1> QED
    BY <1>1, <1>2

\* FlowEngine::run returns the error of the first flow, in their order, that
\* failed or panicked, and Ok only when every flow completed.
THEOREM ReturnsFirstErrorHolds == Spec => []ReturnsFirstError
  <1>1. Init => ReturnsFirstError
    BY NAssumption DEF Init, ReturnsFirstError, Flow
  <1> QED
    BY <1>1, ErrorStep, EngineTypeCorrect, PTL DEF Spec
=============================================================================
