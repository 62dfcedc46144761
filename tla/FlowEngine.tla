----------------------------- MODULE FlowEngine -----------------------------
(***************************************************************************)
(* The flows of one process together: FlowEngine::run (flow/engine.rs)     *)
(* spawns a runner per flow and waits for them in order, and the runners   *)
(* share the semaphore of each source, sink and storage through their      *)
(* FlowLockHandle (util/concurrency.rs).                                   *)
(*                                                                         *)
(* Of a runner only the order of its I/O units is kept, and which of them  *)
(* a tick skips; FlowRunner has the rest.  tokio's semaphore serves its    *)
(* waiters first come, first served.                                       *)
(***************************************************************************)
EXTENDS Naturals, Sequences, FiniteSets, Functions

CONSTANTS
    N,               \* number of flows; the handles are awaited in their order
    Component,       \* the declared sources, sinks and storages
    Uses,            \* [flow -> [kind -> component]]
    MaxConnections   \* [component -> max-connections]

Flow == 1..N
Kind == {"source", "sink", "storage"}

ASSUME NAssumption == N \in Nat \ {0}
ASSUME UsesAssumption == Uses \in [Flow -> [Kind -> Component]]
\* PoolSettings refuses max-connections = 0.
ASSUME MaxAssumption == MaxConnections \in [Component -> Nat \ {0}]

VARIABLES
    mode,       \* RunMode: "Daemon" or "Once", the same for every flow
    phase,      \* the I/O unit a flow is at, or where it is between ticks
    have,       \* which of its contexts and its cursor a flow has
    permits,    \* the flows that hold a permit of a component
    queue,      \* the flows that wait for one, in order
    free,       \* Semaphore::available_permits
    stop,       \* the shutdown was signalled
    awaiting,   \* the handle FlowEngine::run waits for
    firstError  \* the flow whose error it keeps, 0 for None

locks == <<permits, queue, free>>
engine == <<mode, awaiting, firstError>>
vars == <<phase, have, locks, stop, engine>>

Unit == {"buildSource", "buildSink", "load", "read", "write", "save"}
Ended == {"done", "failed", "panicked"}

\* The component whose permit an I/O unit takes.
KindOf(u) ==
    IF u \in {"buildSource", "read"} THEN "source"
    ELSE IF u \in {"buildSink", "write"} THEN "sink" ELSE "storage"
Target(f) == Uses[f][KindOf(phase[f])]

Holds(f) == {c \in Component : f \in permits[c]}
Waits(f) == {c \in Component : f \in Range(queue[c])}

EngineTypeOK ==
    /\ mode \in {"Daemon", "Once"}
    /\ phase \in [Flow -> Unit \cup Ended \cup {"sleep"}]
    /\ have \in [Flow -> SUBSET {"source", "sink", "cursor"}]
    /\ permits \in [Component -> SUBSET Flow]
    /\ queue \in [Component -> Seq(Flow)]
    /\ free \in [Component -> Nat]
    /\ stop \in BOOLEAN
    /\ awaiting \in 1..(N + 1)
    /\ firstError \in 0..N

Init ==
    /\ mode \in {"Daemon", "Once"}
    /\ phase = [f \in Flow |-> IF mode = "Daemon" THEN "sleep" ELSE "buildSource"]
    /\ have = [f \in Flow |-> {}]
    /\ permits = [c \in Component |-> {}]
    /\ queue = [c \in Component |-> <<>>]
    /\ free = MaxConnections
    /\ stop = FALSE
    /\ awaiting = 1 /\ firstError = 0

-----------------------------------------------------------------------------
(* FlowLockHandle.                                                         *)

\* acquire: take a free permit, or queue behind those who wait.
Acquire(f) ==
    /\ phase[f] \in Unit /\ Holds(f) = {} /\ Waits(f) = {}
    /\ LET c == Target(f)
       IN  \/ /\ free[c] > 0
              /\ free' = [free EXCEPT ![c] = free[c] - 1]
              /\ permits' = [permits EXCEPT ![c] = permits[c] \cup {f}]
              /\ UNCHANGED queue
           \/ /\ free[c] = 0
              /\ queue' = [queue EXCEPT ![c] = Append(queue[c], f)]
              /\ UNCHANGED <<free, permits>>
    /\ UNCHANGED <<phase, have, stop, engine>>

\* Mutant of Release: a permit with waiters is handed to none of them.
ReleaseLost(f, c) ==
    /\ permits' = [permits EXCEPT ![c] = permits[c] \ {f}]
    /\ IF queue[c] = <<>> THEN free' = [free EXCEPT ![c] = free[c] + 1]
                          ELSE UNCHANGED free
    /\ UNCHANGED queue

\* Mutant of Release: the last waiter is served first.
ReleaseToLast(f, c) ==
    \/ /\ queue[c] = <<>>
       /\ permits' = [permits EXCEPT ![c] = permits[c] \ {f}]
       /\ free' = [free EXCEPT ![c] = free[c] + 1]
       /\ UNCHANGED queue
    \/ /\ queue[c] # <<>>
       /\ LET n == Len(queue[c])
          IN  /\ permits' = [permits EXCEPT ![c] = (permits[c] \ {f}) \cup {queue[c][n]}]
              /\ queue' = [queue EXCEPT ![c] = SubSeq(queue[c], 1, n - 1)]
       /\ UNCHANGED free

\* The guard is dropped: the permit goes to the first waiter, if any.
Release(f, c) ==
    \/ /\ queue[c] = <<>>
       /\ permits' = [permits EXCEPT ![c] = permits[c] \ {f}]
       /\ free' = [free EXCEPT ![c] = free[c] + 1]
       /\ UNCHANGED queue
    \/ /\ queue[c] # <<>>
       /\ permits' = [permits EXCEPT ![c] = (permits[c] \ {f}) \cup {Head(queue[c])}]
       /\ queue' = [queue EXCEPT ![c] = Tail(queue[c])]
       /\ UNCHANGED free

-----------------------------------------------------------------------------
(* The runners.                                                            *)

\* What a tick does first with the contexts and the cursor h: build what is
\* missing, look at the shutdown, load the cursor or read.
FirstUnit(h) ==
    IF "source" \notin h THEN "buildSource"
    ELSE IF "sink" \notin h THEN "buildSink"
    ELSE IF stop THEN "done"
    ELSE IF "cursor" \notin h THEN "load" ELSE "read"

\* A tick is over: the next one starts, or a one-shot run has drained.
AfterTick(h) == {FirstUnit(h)} \cup (IF mode = "Once" THEN {"done"} ELSE {})

\* Where a unit that succeeds leads, with what the flow then has.
Outcomes(u, h) ==
    CASE u = "buildSource" -> {<<FirstUnit(h \cup {"source"}), h \cup {"source"}>>}
      [] u = "buildSink" -> {<<FirstUnit(h \cup {"sink"}), h \cup {"sink"}>>}
      [] u = "load" -> {<<"read", h>>, <<"read", h \cup {"cursor"}>>}
      [] u = "read" -> {<<"write", h>>, <<IF mode = "Once" THEN "done" ELSE "sleep", h>>}
      [] u = "write" -> {<<"save", h>>} \cup (AfterTick(h) \X {h})
      [] u = "save" -> AfterTick(h \cup {"cursor"}) \X {h \cup {"cursor"}}

\* Mutant of UnitOk: the guard of write_batch lives on through save_cursor.
UnitOkHolding(f) ==
    /\ phase[f] \in Unit
    /\ \E c \in Holds(f) :
          IF phase[f] = "write" THEN UNCHANGED locks ELSE Release(f, c)
    /\ \E o \in Outcomes(phase[f], have[f]) :
          /\ phase' = [phase EXCEPT ![f] = o[1]]
          /\ have' = [have EXCEPT ![f] = o[2]]
    /\ UNCHANGED <<stop, engine>>

\* The call under the permit returns and the guard goes out of scope.
UnitOk(f) ==
    /\ phase[f] \in Unit
    /\ \E c \in Holds(f) : Release(f, c)
    /\ \E o \in Outcomes(phase[f], have[f]) :
          /\ phase' = [phase EXCEPT ![f] = o[1]]
          /\ have' = [have EXCEPT ![f] = o[2]]
    /\ UNCHANGED <<stop, engine>>

\* It returns an error: Once gives up, a daemon backs off, with its contexts
\* dropped or not.  rebuild_derived may fail after the sink context is built.
UnitFails(f) ==
    /\ phase[f] \in Unit
    /\ \E c \in Holds(f) : Release(f, c)
    /\ phase' = [phase EXCEPT ![f] = IF mode = "Once" THEN "failed" ELSE "sleep"]
    /\ \E h \in {have[f], have[f] \ {"source", "sink"}}
                  \cup (IF phase[f] = "buildSink" THEN {have[f] \cup {"sink"}} ELSE {}) :
          have' = [have EXCEPT ![f] = h]
    /\ UNCHANGED <<stop, engine>>

\* The task of the flow panics: unwinding drops the guard.
Panic(f) ==
    /\ phase[f] \in Unit
    /\ \E c \in Holds(f) : Release(f, c)
    /\ phase' = [phase EXCEPT ![f] = "panicked"]
    /\ UNCHANGED <<have, stop, engine>>

\* Mutant of Wake: the sleep does not watch the shutdown.
WakeBlind(f) ==
    /\ phase[f] = "sleep"
    /\ phase' = [phase EXCEPT ![f] = FirstUnit(have[f])]
    /\ UNCHANGED <<have, locks, stop, engine>>

\* A sleep (jitter, idle wait, backoff) ends, or the shutdown ends it.
Wake(f) ==
    /\ phase[f] = "sleep"
    /\ phase' = [phase EXCEPT ![f] = IF stop THEN "done" ELSE FirstUnit(have[f])]
    /\ UNCHANGED <<have, locks, stop, engine>>

-----------------------------------------------------------------------------
(* FlowEngine::run waits for the handles in order.                         *)

Shutdown ==
    /\ mode = "Daemon" /\ ~stop
    /\ stop' = TRUE
    /\ UNCHANGED <<phase, have, locks, engine>>

\* Mutant of Await: a later error replaces the one that is kept.
AwaitLast ==
    /\ awaiting <= N
    /\ phase[awaiting] \in Ended
    /\ awaiting' = awaiting + 1
    /\ firstError' = IF phase[awaiting] # "done" THEN awaiting ELSE firstError
    /\ UNCHANGED <<mode, phase, have, locks, stop>>

Await ==
    /\ awaiting <= N
    /\ phase[awaiting] \in Ended
    /\ awaiting' = awaiting + 1
    /\ firstError' = IF phase[awaiting] # "done" /\ firstError = 0
                     THEN awaiting ELSE firstError
    /\ UNCHANGED <<mode, phase, have, locks, stop>>

Returned == awaiting = N + 1

\* run() has returned.
Finished == Returned /\ UNCHANGED vars

FlowStep(f) == Acquire(f) \/ UnitOk(f) \/ UnitFails(f) \/ Wake(f)

Next ==
    \/ \E f \in Flow : FlowStep(f) \/ Panic(f)
    \/ Shutdown
    \/ Await
    \/ Finished

Spec == Init /\ [][Next]_vars

\* Every task that can run is run, and a call under a permit returns: the
\* query timeout bounds it (build_context is trusted to return).
Fairness == (\A f \in Flow : WF_vars(FlowStep(f))) /\ WF_vars(Await)
FairSpec == Spec /\ Fairness

-----------------------------------------------------------------------------
(* Properties.                                                             *)

\* A flow holds or waits for the permit of the component its current I/O unit
\* touches and for no other, and for none between units: the claim of
\* concurrency.rs from which the absence of deadlock follows.
OnePermit ==
    \A f \in Flow :
        /\ Holds(f) \cap Waits(f) = {}
        /\ Holds(f) \cup Waits(f) \subseteq
              IF phase[f] \in Unit THEN {Target(f)} ELSE {}

\* Permits are neither lost nor made, by a success, an error or a panic, and
\* nobody waits for a permit that is free.
PermitsConserved ==
    \A c \in Component :
        /\ free[c] + Cardinality(permits[c]) = MaxConnections[c]
        /\ queue[c] # <<>> => free[c] = 0

\* Whoever waits, waits for flows that run: every queue has a holder of its
\* permit that waits for nothing and is inside its I/O unit.
WaitsForRunning ==
    \A c \in Component : queue[c] # <<>> =>
        /\ permits[c] # {}
        /\ \A f \in permits[c] : Waits(f) = {} /\ phase[f] \in Unit

\* run() keeps the error of the first flow, in the order of the flows, that
\* failed or panicked, and succeeds only if none did.
ReturnsFirstError ==
    /\ firstError < awaiting
    /\ \A f \in Flow : f < awaiting =>
        /\ phase[f] \in Ended
        /\ phase[f] # "done" => firstError \in 1..f
        /\ firstError = f => phase[f] # "done"

\* A flow that waits for a permit gets one, whatever the others do.
Served == \A f \in Flow : (Waits(f) # {}) ~> (Holds(f) # {})

\* After the shutdown every flow ends and run() returns.
ShutdownReturns == stop ~> Returned

\* Permits are sound: none is lost or made, and no flow has more than the one
\* its current I/O unit needs.
PermitsSound == OnePermit /\ PermitsConserved
=============================================================================
