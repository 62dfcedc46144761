------------------------------ MODULE Metrics ------------------------------
(***************************************************************************)
(* The monitoring crate: the recorders that flows and component locks      *)
(* write to, the slots behind them, and the scrapes that read the slots    *)
(* while they are written.                                                 *)
(*                                                                         *)
(* Every slot has a mutex of its own, so a step here is one visit to one   *)
(* slot: a scrape (scrape, below) walks the slots one after the other and  *)
(* anything may be recorded between two visits.  Time is the monotonic     *)
(* clock, in ticks, and every slot reads it after it has taken its mutex.  *)
(*                                                                         *)
(* A deployment fixes what an instance runs: the flows (each with its      *)
(* source, sink and storage), the callers of the locks, the connections of *)
(* a MongoDB pool and the scrapes that may run in parallel; and it bounds  *)
(* the clock (maxTime), the phases of a flow (maxRuns) and the pages of a  *)
(* scraper (maxScrapes).                                                   *)
(***************************************************************************)
EXTENDS Integers, Sequences, FiniteSets, FiniteSetsExt

CONSTANTS
    Deployments,      \* records [flows, callers, conns, scrapers, batches,
                      \*   maxTime, maxRuns, maxScrapes]
    Window,           \* summary.window, in ticks
    Granularity,      \* summary.bucket_granularity
    Permits           \* permits of every component's semaphore

Stages == {"fetch", "transform", "sink"}
Ops == {"upsert", "delete"}
RowStages == {"read", "written", "skipped"}
ErrorStages == Stages \union {"storage"}
Gauges == {"queue", "active"}

FlowsOf(d) == {d.flows[i] : i \in 1 .. Len(d.flows)}
Components(d) == UNION {{f.source, f.sink, f.storage} : f \in FlowsOf(d)}
FlowNames(d) == {f.name : f \in FlowsOf(d)}

\* WindowedSketch::new: neither duration is zero, a bucket fits the window.
ASSUME WindowAssumption ==
    /\ Window \in Nat /\ Granularity \in Nat
    /\ 0 < Granularity /\ Granularity <= Window

\* A caller's lock is a component of the configuration.
ASSUME DeploymentsAssumption ==
    \A d \in Deployments :
       /\ d.flows \in Seq([name : STRING, source : STRING, sink : STRING, storage : STRING])
       /\ \A c \in DOMAIN d.callers : d.callers[c] \in Components(d)
       /\ IsFiniteSet(DOMAIN d.callers) /\ IsFiniteSet(d.conns)
       /\ d.batches \subseteq [Ops -> Nat]

VARIABLES
    deployment,   \* the deployment this behaviour runs (never changes)
    now,          \* Instant::now()
    summaries,    \* per stage: the slots minted so far
    gauges,       \* the slots of the two lock gauges
    flow_cache,   \* the handle minted for a flow: the position of its slots
    lock_cache,   \* the handle minted for a component's lock
    assembling,   \* flows assembled by the assembly under way
    serving,      \* assemble has returned Ok and the metrics server runs
    flows,        \* per flow: its phase, the running Timer, the batch in hand
    rows,         \* per flow, stage and operation: air_elt_rows_total
    errors,       \* per flow and stage: air_elt_errors_total
    callers,      \* per caller: its component and where it is in acquire
    conns,        \* the connections of the pool: new, idle or active
    updates,      \* per connection: what its event's handler has still to do
    counts,       \* the atomics of the pool's reader
    misread,      \* ghost: connections whose close was counted in the wrong atomic
    cpu,          \* cpu_seconds_total and last_cpu_seconds
    scrape,       \* per scraper: what is left to visit, and the page so far
    served,       \* per scraper: its complete pages
    observed,     \* ghost: all observations of a stage and flow
    spent         \* ghost: the true integrals of the lock gauges

slotVars == <<summaries, gauges, flow_cache, lock_cache>>
flowVars == <<flows, rows, errors, observed>>
poolVars == <<conns, updates, counts, misread>>
scrapeVars == <<cpu, scrape, served>>
metricsVars == <<deployment, now, slotVars, assembling, serving, flowVars, callers,
                 poolVars, scrapeVars, spent>>

-----------------------------------------------------------------------------
(***************************************************************************)
(* The sliding window of one summary slot: a queue of buckets, the oldest  *)
(* first.  A sample carries its number and the instant it was recorded at, *)
(* which the code does not keep; a sketch is the set of its samples.       *)
(***************************************************************************)
EvictByStart(buckets, t) ==
    LET live == {i \in 1 .. Len(buckets) : buckets[i].start > t - Window}
    IN IF live = {} THEN <<>> ELSE SubSeq(buckets, Min(live), Len(buckets))

evict(buckets, t) ==
    LET live == {i \in 1 .. Len(buckets) : buckets[i].start + Granularity > t - Window}
    IN IF live = {} THEN <<>> ELSE SubSeq(buckets, Min(live), Len(buckets))

\* The bucket being filled, a new one once it has lasted its granularity.
current_bucket(buckets, t) ==
    IF buckets = <<>> \/ t - buckets[Len(buckets)].start >= Granularity
    THEN Append(buckets, [start |-> t, sketch |-> {}])
    ELSE buckets

record(buckets, sample) ==
    LET filled == current_bucket(evict(buckets, sample.at), sample.at)
    IN [filled EXCEPT ![Len(filled)].sketch = @ \union {sample}]

merge_live(buckets) == UNION {buckets[i].sketch : i \in 1 .. Len(buckets)}

SummarySlot(label) == [label |-> label, buckets |-> <<>>, count |-> 0, sum |-> 0]

observe(slot, sample) ==
    [slot EXCEPT !.buckets = record(@, sample), !.count = @ + 1, !.sum = @ + sample.value]

(***************************************************************************)
(* The time-integrating gauge: acc grows by last_value for every tick.     *)
(***************************************************************************)
GaugeSlot(label, t) ==
    [label |-> label, acc |-> 0, last_value |-> 0, last_at |-> t, touched |-> FALSE]

integrate(slot, t) ==
    IF t <= slot.last_at THEN slot
    ELSE [slot EXCEPT !.acc = @ + slot.last_value * (t - slot.last_at), !.last_at = t]

AddThenIntegrate(slot, delta, t) ==
    integrate([slot EXCEPT !.last_value = @ + delta, !.touched = TRUE], t)

add(slot, delta, t) ==
    [integrate(slot, t) EXCEPT !.last_value = @ + delta, !.touched = TRUE]

-----------------------------------------------------------------------------
(***************************************************************************)
(* Minting, while the flows are assembled.  A handle is the position of    *)
(* its slot; the caches make a second call with the same labels return the *)
(* same handle.                                                            *)
(***************************************************************************)
Insert_handle(cache, key, handle) ==
    [k \in DOMAIN cache \union {key} |-> IF k = key THEN handle ELSE cache[k]]

lock_recorder(m, key, t) ==
    IF key \in DOMAIN m.cache THEN m
    ELSE [gauges |-> [g \in Gauges |-> Append(m.gauges[g], GaugeSlot(key, t))],
          cache |-> Insert_handle(m.cache, key, Len(m.gauges["queue"]) + 1)]

flow_recorder(m, flow) ==
    IF flow \in DOMAIN m.cache THEN m
    ELSE [summaries |-> [st \in Stages |-> Append(m.summaries[st], SummarySlot(flow))],
          cache |-> Insert_handle(m.cache, flow, Len(m.summaries["fetch"]) + 1)]

SlotOf(flow) == flow_cache[flow]
LockSlot(key) == lock_cache[key]

\* assemble reaches its next flow and mints its recorders: the three locks,
\* then the flow's own.
MintFlow ==
    /\ ~serving
    /\ assembling < Len(deployment.flows)
    /\ LET flow == deployment.flows[assembling + 1]
           none == [gauges |-> gauges, cache |-> lock_cache]
           locks == lock_recorder(lock_recorder(lock_recorder(none, flow.source, now),
                                                flow.sink, now), flow.storage, now)
           own == flow_recorder([summaries |-> summaries, cache |-> flow_cache], flow.name)
       IN /\ gauges' = locks.gauges /\ lock_cache' = locks.cache
          /\ summaries' = own.summaries /\ flow_cache' = own.cache
    /\ assembling' = assembling + 1
    /\ UNCHANGED <<deployment, now, serving, flowVars, callers, poolVars, scrapeVars, spent>>

\* assemble stops at a flow it refuses; a later caller starts it again over
\* the same manager.
RegisterFails ==
    /\ ~serving
    /\ assembling < Len(deployment.flows)
    /\ assembling' = 0
    /\ UNCHANGED <<deployment, now, slotVars, serving, flowVars, callers, poolVars,
                   scrapeVars, spent>>

Register ==
    /\ ~serving
    /\ assembling = Len(deployment.flows)
    /\ serving' = TRUE
    /\ UNCHANGED <<deployment, now, slotVars, assembling, flowVars, callers, poolVars,
                   scrapeVars, spent>>

-----------------------------------------------------------------------------
(***************************************************************************)
(* A flow and its recorder.  Each phase runs under a Timer, which observes *)
(* the elapsed time when it is dropped, whatever the phase returned.       *)
(***************************************************************************)
NoRows == [op \in Ops |-> 0]

StartTimer(f) ==
    /\ serving
    /\ ~flows[f].timing
    /\ flows[f].at \in Stages
    /\ flows[f].runs < deployment.maxRuns
    /\ flows' = [flows EXCEPT ![f].timing = TRUE, ![f].since = now, ![f].runs = @ + 1]
    /\ UNCHANGED <<deployment, now, slotVars, assembling, serving, rows, errors, observed,
                   callers, poolVars, scrapeVars, spent>>

\* Timer::drop: the flow leaves its phase for `next` with `batch` in hand.
DropTimer(f, next, batch) ==
    /\ flows[f].timing
    /\ LET st == flows[f].at
           sample == [n |-> Len(observed[st][f]) + 1, at |-> now, value |-> now - flows[f].since]
       IN /\ summaries' = [summaries EXCEPT ![st][SlotOf(f)] = observe(@, sample)]
          /\ observed' = [observed EXCEPT ![st][f] = Append(@, sample)]
    /\ flows' = [flows EXCEPT ![f].timing = FALSE, ![f].at = next, ![f].batch = batch]
    /\ UNCHANGED <<deployment, now, gauges, flow_cache, lock_cache, assembling, serving,
                   callers, poolVars, scrapeVars, spent>>

inc_rows(table, f, stage, n) ==
    [table EXCEPT ![f][stage] = [op \in Ops |-> @[op] + n[op]]]

\* read_batch returned: its rows are counted by operation.
Fetched(f, batch) ==
    /\ flows[f].at = "fetch"
    /\ DropTimer(f, "transform", batch)
    /\ rows' = inc_rows(rows, f, "read", batch)
    /\ UNCHANGED errors

Transformed(f) ==
    /\ flows[f].at = "transform"
    /\ DropTimer(f, IF flows[f].batch = NoRows THEN "fetch" ELSE "sink", flows[f].batch)
    /\ UNCHANGED <<rows, errors>>

\* write_batch returned its report: what it wrote, and the deletes an
\* append-only sink dropped.
Written(f, supports_deletes) ==
    LET batch == flows[f].batch
        skipped == [NoRows EXCEPT !["delete"] = IF supports_deletes THEN 0 ELSE batch["delete"]]
        written == [op \in Ops |-> batch[op] - skipped[op]]
    IN /\ flows[f].at = "sink"
       /\ DropTimer(f, "commit", NoRows)
       /\ rows' = inc_rows(inc_rows(rows, f, "written", written), f, "skipped", skipped)
       /\ UNCHANGED errors

inc_error(f, stage) == errors' = [errors EXCEPT ![f][stage] = @ + 1]

\* The phase failed: the tick ends and the rows in hand are read again.
Failed(f) ==
    /\ flows[f].at # "commit"
    /\ inc_error(f, flows[f].at)
    /\ DropTimer(f, "fetch", NoRows)
    /\ UNCHANGED rows

\* commit_cursor is not timed; its failure counts against the storage.
Commit(f) ==
    /\ flows[f].at = "commit"
    /\ flows' = [flows EXCEPT ![f].at = "fetch"]
    /\ \/ UNCHANGED errors
       \/ inc_error(f, "storage")
    /\ UNCHANGED <<deployment, now, slotVars, assembling, serving, rows, observed, callers,
                   poolVars, scrapeVars, spent>>

-----------------------------------------------------------------------------
(***************************************************************************)
(* A component's lock.  acquire counts the caller in the queue gauge until *)
(* it has its permit, then in the active gauge.  LockGuard drops its       *)
(* fields in order: the permit first, the active guard after it.           *)
(***************************************************************************)
AddTo(g, key, delta) ==
    gauges' = [gauges EXCEPT ![g][LockSlot(key)] = add(@, delta, now)]

Holding(key) ==
    {c \in DOMAIN callers :
        callers[c].key = key /\ callers[c].pc \in {"granted", "admitted", "held"}}

Move(c, from, to) ==
    /\ callers[c].pc = from
    /\ callers' = [callers EXCEPT ![c].pc = to]
    /\ UNCHANGED <<deployment, now, summaries, flow_cache, lock_cache, assembling, serving,
                   flowVars, poolVars, scrapeVars, spent>>

queue_guard(c) ==
    /\ serving
    /\ Move(c, "idle", "waiting")
    /\ AddTo("queue", callers[c].key, 1)

Granted(c) ==
    /\ Cardinality(Holding(callers[c].key)) < Permits
    /\ Move(c, "waiting", "granted")
    /\ UNCHANGED gauges

DropQueue(c) ==
    /\ Move(c, "granted", "admitted")
    /\ AddTo("queue", callers[c].key, -1)

active_guard(c) ==
    /\ Move(c, "admitted", "held")
    /\ AddTo("active", callers[c].key, 1)

DropPermit(c) ==
    /\ Move(c, "held", "released")
    /\ UNCHANGED gauges

DropActive(c) ==
    /\ Move(c, "released", "idle")
    /\ AddTo("active", callers[c].key, -1)

(***************************************************************************)
(* The MongoDB driver's pool (external) and the reader its events drive.   *)
(* A handler is up to two updates of the atomics, each a step of its own;  *)
(* handlers of different connections interleave.  A close with Idle or     *)
(* Stale is counted as one of an idle connection and a close with Error or *)
(* Dropped as one of an active connection, but the driver also closes with *)
(* Error a connection that never became ready, and one that has failed,    *)
(* after its check-in.                                                     *)
(***************************************************************************)
Down(a) == [of |-> a, by |-> -1]
Up(a) == [of |-> a, by |-> 1]

CmapEvents ==
    {[from |-> "new", to |-> "idle", updates |-> <<Up("idle")>>],
     [from |-> "idle", to |-> "active", updates |-> <<Down("idle"), Up("active")>>],
     [from |-> "active", to |-> "idle", updates |-> <<Down("active"), Up("idle")>>],
     [from |-> "idle", to |-> "new", updates |-> <<Down("idle")>>],
     [from |-> "active", to |-> "new", updates |-> <<Down("active")>>],
     [from |-> "idle", to |-> "new", updates |-> <<Down("active")>>],
     [from |-> "new", to |-> "new", updates |-> <<Down("active")>>]}

\* The handler takes the connection off a count it is not in.  The counts drift
\* with every such close, so there is at most one per connection.
Misread(e) == e.updates = <<Down("active")>> /\ e.from # "active"

cmap_handler(c) ==
    /\ updates[c] = <<>>
    /\ \E e \in CmapEvents :
          /\ conns[c] = e.from
          /\ conns' = [conns EXCEPT ![c] = e.to]
          /\ updates' = [updates EXCEPT ![c] = e.updates]
          /\ Misread(e) => c \notin misread
          /\ misread' = IF Misread(e) THEN misread \union {c} ELSE misread
    /\ UNCHANGED <<deployment, now, slotVars, assembling, serving, flowVars, callers, counts,
                   scrapeVars, spent>>

\* One atomic update; checked_sub leaves a zero alone.
UpdateAtomic(c) ==
    /\ updates[c] # <<>>
    /\ LET u == Head(updates[c])
       IN /\ updates' = [updates EXCEPT ![c] = Tail(@)]
          /\ counts' = [counts EXCEPT ![u.of] = IF @ + u.by < 0 THEN @ ELSE @ + u.by]
    /\ UNCHANGED <<deployment, now, slotVars, assembling, serving, flowVars, callers, conns,
                   misread, scrapeVars, spent>>

-----------------------------------------------------------------------------
(***************************************************************************)
(* A scrape: Registry::gather calls the collectors in turn and the summary *)
(* and gauge collectors visit their slots in turn; the last visit of a     *)
(* summary is its rollup.  The registry calls its collectors in no         *)
(* particular order; none reads what another has found, so one order is    *)
(* modelled.  A page is the set of its rows; `samples` is what a summary's *)
(* quantiles are computed from, and `upto` the rollup's totals when the    *)
(* row was added to them.                                                  *)
(***************************************************************************)
Order == [fetch |-> 1, transform |-> 2, sink |-> 3, counters |-> 4, queue |-> 5,
          active |-> 6, cpu |-> 7, pool |-> 8]

VisitsOf(c) ==
    CASE c \in Stages -> Len(summaries[c]) + 1
      [] c \in Gauges -> Len(gauges[c])
      [] c = "cpu" -> 3
      [] OTHER -> 1

Visit(c, i) == [of |-> c, slot |-> i]
Visits == UNION {{Visit(c, i) : i \in 1 .. VisitsOf(c)} : c \in DOMAIN Order}

Earlier(v, w) == Order[v.of] < Order[w.of] \/ (v.of = w.of /\ v.slot < w.slot)

Series(family, of, part, op) == [family |-> family, of |-> of, part |-> part, op |-> op]
Zero == [count |-> 0, sum |-> 0]
Plus(x, y) == [count |-> x.count + y.count, sum |-> x.sum + y.sum]

Row(series, visit, at, count, sum, samples, upto) ==
    [series |-> series, visit |-> visit, at |-> at, count |-> count, sum |-> sum,
     samples |-> samples, upto |-> upto]

Counter(series, visit, count) == Row(series, visit, 0, count, 0, {}, Zero)

NoScrape == [open |-> FALSE, todo |-> {}, page |-> {}, totals |-> [st \in Stages |-> Zero],
             seen |-> 0]

ScrapeStarts(s) ==
    /\ serving
    /\ ~scrape[s].open
    /\ Len(served[s]) < deployment.maxScrapes
    /\ scrape' = [scrape EXCEPT ![s].open = TRUE, ![s].todo = Visits]
    /\ UNCHANGED <<deployment, now, slotVars, assembling, serving, flowVars, callers,
                   poolVars, cpu, served, spent>>

\* The next visit of the walk.
AtVisit(s, v) == v \in scrape[s].todo /\ \A w \in scrape[s].todo : ~Earlier(w, v)

\* The visit is done and found these rows.
Visited(s, v, found) ==
    /\ scrape' = [scrape EXCEPT ![s].todo = @ \ {v}, ![s].page = @ \union found]
    /\ UNCHANGED <<deployment, now, flow_cache, lock_cache, assembling, serving, flowVars,
                   callers, poolVars, served, spent>>

\* A slot nothing was observed in stays off the page.
VisitSummary(s, v) ==
    /\ v.of \in Stages /\ v.slot <= Len(summaries[v.of])
    /\ AtVisit(s, v)
    /\ LET st == v.of
           slot == summaries[st][v.slot]
           live == evict(slot.buckets, now)
           upto == Plus(scrape[s].totals[st], slot)
           row == Row(Series("summary", slot.label, st, ""), v, now, slot.count, slot.sum,
                      merge_live(live), upto)
       IN IF slot.count = 0
          THEN Visited(s, v, {}) /\ UNCHANGED summaries
          ELSE /\ scrape' = [scrape EXCEPT ![s].todo = @ \ {v}, ![s].page = @ \union {row},
                                           ![s].totals[st] = upto]
               /\ summaries' = [summaries EXCEPT ![st][v.slot].buckets = live]
               /\ UNCHANGED <<deployment, now, flow_cache, lock_cache, assembling, serving,
                              flowVars, callers, poolVars, served, spent>>
    /\ UNCHANGED <<gauges, cpu>>

\* The rollup adds up what the walk over the slots has found.
VisitGlobal(s, v) ==
    /\ v.of \in Stages /\ v.slot = Len(summaries[v.of]) + 1
    /\ AtVisit(s, v)
    /\ LET total == scrape[s].totals[v.of]
           row == Row(Series("global", "", v.of, ""), v, 0, total.count, total.sum, {}, total)
       IN Visited(s, v, IF total.count > 0 THEN {row} ELSE {})
    /\ UNCHANGED <<summaries, gauges, cpu>>

\* The counters above zero.  They are atomics of their own; no property
\* relates two of them on a page, so they are read in one step.
VisitCounters(s, v) ==
    /\ v.of = "counters"
    /\ AtVisit(s, v)
    /\ LET row(f, st, op) == Counter(Series("rows", f, st, op), v, rows[f][st][op])
           err(f, st) == Counter(Series("errors", f, st, ""), v, errors[f][st])
           all == {row(f, st, op) : f \in DOMAIN rows, st \in RowStages, op \in Ops}
                  \union {err(f, st) : f \in DOMAIN errors, st \in ErrorStages}
       IN Visited(s, v, {r \in all : r.count > 0})
    /\ UNCHANGED <<summaries, gauges, cpu>>

\* snapshot ticks the integral up to now; an untouched slot stays off the page.
VisitGauge(s, v) ==
    /\ v.of \in Gauges
    /\ AtVisit(s, v)
    /\ LET g == v.of
           slot == integrate(gauges[g][v.slot], now)
       IN IF ~slot.touched
          THEN Visited(s, v, {}) /\ UNCHANGED gauges
          ELSE /\ Visited(s, v, {Counter(Series("gauge", slot.label, g, ""), v, slot.acc)})
               /\ gauges' = [gauges EXCEPT ![g][v.slot] = slot]
    /\ UNCHANGED <<summaries, cpu>>

\* The process's cpu time, zero when it is not found.  The lock on the
\* system is dropped before the counter is moved, and the one on its last
\* value before the counter is read.
CpuRead(s, v) ==
    /\ v = Visit("cpu", 1)
    /\ AtVisit(s, v)
    /\ \E used \in {0, now} :
          scrape' = [scrape EXCEPT ![s].todo = @ \ {v}, ![s].seen = used]
    /\ UNCHANGED <<deployment, now, slotVars, assembling, serving, flowVars, callers,
                   poolVars, cpu, served, spent>>

CpuAdd(c, used) ==
    IF used - c.last > 0 THEN [total |-> c.total + used - c.last, last |-> used] ELSE c

CpuMove(s, v) ==
    /\ v = Visit("cpu", 2)
    /\ AtVisit(s, v)
    /\ cpu' = CpuAdd(cpu, scrape[s].seen)
    /\ Visited(s, v, {})
    /\ UNCHANGED <<summaries, gauges>>

CpuEmit(s, v) ==
    /\ v = Visit("cpu", 3)
    /\ AtVisit(s, v)
    /\ Visited(s, v, {Counter(Series("cpu", "", "", ""), v, cpu.total)})
    /\ UNCHANGED <<summaries, gauges, cpu>>

\* refresh_snapshots: the reader's counts become the gauges.
VisitPool(s, v) ==
    /\ v.of = "pool"
    /\ AtVisit(s, v)
    /\ Visited(s, v, {Counter(Series("pool", "", a, ""), v, counts[a]) : a \in DOMAIN counts})
    /\ UNCHANGED <<summaries, gauges, cpu>>

\* The page is complete and goes out.
serve_metrics(s) ==
    /\ scrape[s].open
    /\ scrape[s].todo = {}
    /\ served' = [served EXCEPT ![s] = Append(@, scrape[s].page)]
    /\ scrape' = [scrape EXCEPT ![s] = NoScrape]
    /\ UNCHANGED <<deployment, now, slotVars, assembling, serving, flowVars, callers,
                   poolVars, cpu, spent>>

-----------------------------------------------------------------------------
Waiting(key) ==
    {c \in DOMAIN callers : callers[c].key = key /\ callers[c].pc \in {"waiting", "granted"}}

Active(key) ==
    {c \in DOMAIN callers : callers[c].key = key /\ callers[c].pc \in {"held", "released"}}

\* Callers the gauge should count at this instant.
Level(g, key) == Cardinality(IF g = "queue" THEN Waiting(key) ELSE Active(key))

\* A tick passes; the ghost integrals grow by the true levels.
Tick ==
    /\ serving
    /\ now < deployment.maxTime
    /\ now' = now + 1
    /\ spent' = [g \in Gauges |-> [k \in DOMAIN spent[g] |-> spent[g][k] + Level(g, k)]]
    /\ UNCHANGED <<deployment, slotVars, assembling, serving, flowVars, callers, poolVars,
                   scrapeVars>>

MetricsInit ==
    /\ deployment \in Deployments
    /\ now = 0
    /\ summaries = [st \in Stages |-> <<>>]
    /\ gauges = [g \in Gauges |-> <<>>]
    /\ flow_cache = [k \in {} |-> 0]
    /\ lock_cache = [k \in {} |-> 0]
    /\ assembling = 0
    /\ serving = FALSE
    /\ flows = [f \in FlowNames(deployment) |->
                  [at |-> "fetch", timing |-> FALSE, since |-> 0, batch |-> NoRows, runs |-> 0]]
    /\ rows = [f \in FlowNames(deployment) |-> [st \in RowStages |-> NoRows]]
    /\ errors = [f \in FlowNames(deployment) |-> [st \in ErrorStages |-> 0]]
    /\ callers = [c \in DOMAIN deployment.callers |-> [key |-> deployment.callers[c], pc |-> "idle"]]
    /\ conns = [c \in deployment.conns |-> "new"]
    /\ updates = [c \in deployment.conns |-> <<>>]
    /\ counts = [a \in {"active", "idle"} |-> 0]
    /\ misread = {}
    /\ cpu = [total |-> 0, last |-> 0]
    /\ scrape = [s \in deployment.scrapers |-> NoScrape]
    /\ served = [s \in deployment.scrapers |-> <<>>]
    /\ observed = [st \in Stages |-> [f \in FlowNames(deployment) |-> <<>>]]
    /\ spent = [g \in Gauges |-> [k \in Components(deployment) |-> 0]]

FlowStep(f) ==
    \/ StartTimer(f)
    \/ \E batch \in deployment.batches : Fetched(f, batch)
    \/ Transformed(f)
    \/ \E supports_deletes \in BOOLEAN : Written(f, supports_deletes)
    \/ Failed(f)
    \/ Commit(f)

CallerStep(c) ==
    \/ queue_guard(c) \/ Granted(c) \/ DropQueue(c)
    \/ active_guard(c) \/ DropPermit(c) \/ DropActive(c)

VisitStep(s, v) ==
    \/ VisitSummary(s, v) \/ VisitGlobal(s, v) \/ VisitCounters(s, v) \/ VisitGauge(s, v)
    \/ CpuRead(s, v) \/ CpuMove(s, v) \/ CpuEmit(s, v) \/ VisitPool(s, v)

MetricsNext ==
    \/ MintFlow
    \/ RegisterFails
    \/ Register
    \/ Tick
    \/ \E f \in DOMAIN flows : FlowStep(f)
    \/ \E c \in DOMAIN callers : CallerStep(c)
    \/ \E c \in DOMAIN conns : cmap_handler(c) \/ UpdateAtomic(c)
    \/ \E s \in DOMAIN scrape : ScrapeStarts(s) \/ serve_metrics(s)
    \/ \E s \in DOMAIN scrape : \E v \in scrape[s].todo : VisitStep(s, v)

MetricsSpec == MetricsInit /\ [][MetricsNext]_metricsVars

-----------------------------------------------------------------------------
(***************************************************************************)
(* Properties.                                                             *)
(***************************************************************************)
SumOf(samples) ==
    LET sum[n \in 0 .. Len(samples)] == IF n = 0 THEN 0 ELSE sum[n - 1] + samples[n].value
    IN sum[Len(samples)]

Pages ==
    UNION {{served[s][n] : n \in 1 .. Len(served[s])} : s \in DOMAIN served} \union
    {scrape[s].page : s \in DOMAIN scrape}

\* The rows of a summary are honest whatever was recorded while the page was
\* being made: the count and sum are those of all the observations made
\* before the visit, the quantiles see every observation of the last window,
\* none that is older than the window and one bucket, and no gap between.
\* (WindowedSketch::evict and current_bucket, SummarySlotInner::observe,
\* Summary::collect.)
SummaryHonest(r) ==
    LET seen == SubSeq(observed[r.series.part][r.series.of], 1, r.count)
    IN /\ r.sum = SumOf(seen)
       /\ \A x \in r.samples :
             /\ x.n \in 1 .. r.count /\ x = seen[x.n]
             /\ x.at > r.at - Window - Granularity
             /\ \A n \in x.n .. r.count : seen[n] \in r.samples
       /\ \A n \in 1 .. r.count : seen[n].at >= r.at - Window => seen[n] \in r.samples

\* Every summary row of every page is honest, and a slot never keeps more
\* buckets than the window holds, plus the one that is filling.
WindowHonest ==
    /\ \A page \in Pages : \A r \in page : r.series.family = "summary" => SummaryHonest(r)
    /\ \A st \in Stages : \A i \in 1 .. Len(summaries[st]) :
          Len(summaries[st][i].buckets) <= (Window + Granularity - 1) \div Granularity + 1

\* What a page shows of a counter may only grow from one page of a scraper
\* to its next, and a series that was on the page stays on it; and no page
\* shows a series twice, though assembly may have been refused half way and
\* started again. (Counter and summary series of Registry::gather, the
\* handle caches of MonitoringManager, the process collector's delta under
\* parallel scrapes.)
AtLeast(q, r) == q.series = r.series /\ q.count >= r.count /\ q.sum >= r.sum
PagesNeverFall ==
    /\ \A page \in Pages : \A r, q \in page : r.series = q.series => r = q
    /\ \A s \in DOMAIN served : \A n \in 1 .. Len(served[s]) - 1 :
          \A r \in served[s][n] : r.series.family # "pool" =>
             \E q \in served[s][n + 1] : AtLeast(q, r)

\* The lock gauges measure what they say: at every instant the accumulated
\* integral, carried on to now, is the time callers have really spent queued
\* or active, and the active level is above the permits in use by no more
\* than the guards that are half dropped (LockGuard drops its permit before
\* its active guard).  The reader of a MongoDB pool agrees with the pool
\* whenever no event handler is under way, as long as no connection was closed
\* with an error but from an operation; cmap_handler counts every such close
\* as one from an operation, and its counts stay wrong from then on.
LevelsExact ==
    /\ serving => \A g \in Gauges : \A k \in Components(deployment) :
          LET slot == gauges[g][LockSlot(k)]
          IN slot.acc + slot.last_value * (now - slot.last_at) = spent[g][k]
    /\ serving => \A k \in Components(deployment) :
          gauges["active"][LockSlot(k)].last_value <=
             Cardinality(Holding(k))
             + Cardinality({c \in DOMAIN callers :
                              callers[c].key = k /\ callers[c].pc = "released"})
    /\ misread = {} /\ (\A c \in DOMAIN conns : updates[c] = <<>>) =>
          \A a \in {"active", "idle"} :
             counts[a] = Cardinality({c \in DOMAIN conns : conns[c] = a})

\* A page is honest and pages agree: summaries show the window they claim, and
\* nothing a scraper has seen of a counter is taken back.
PagesHonest == WindowHonest /\ PagesNeverFall
=============================================================================
