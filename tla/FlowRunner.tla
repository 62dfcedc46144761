----------------------------- MODULE FlowRunner -----------------------------
(***************************************************************************)
(* One flow of the engine: crates/core/src/flow/runner.rs with the source  *)
(* table, the sink table and the cursor storage it talks to.               *)
(*                                                                         *)
(* A pull source is a table of rows, each ordered by the value of its      *)
(* cursor columns.  Changing a row gives it a cursor value above all       *)
(* others (an updated_at column), so a row is fully described by its key   *)
(* and its current position: src[k], with 0 for "no such row".  The sink   *)
(* holds, per key, the position of the version last written to it.         *)
(*                                                                         *)
(* A step of the runner is the code between two awaits.  A call to the     *)
(* source, the sink or the storage takes effect in one step, which is also *)
(* the step that returns; a call that fails may have taken effect, in part *)
(* or in full, and one that is dropped by a timeout or by the shutdown may *)
(* still take effect later: the MongoDB adapters detach their calls.        *)
(***************************************************************************)
EXTENDS Naturals, FiniteSets

CONSTANTS
    Key,        \* conflict keys of the rows
    Limit,      \* batch_limit
    Confs,      \* the configurations of the flow
    Schemas,    \* the sets of columns a source table may have
    Schema0,    \* the one it starts with
    MaxPos,     \* bound: cursor values handed out
    MaxFaults,  \* bound: failing calls
    MaxRuns     \* bound: starts of the process

ASSUME KeyAssumption == IsFiniteSet(Key)
ASSUME LimitAssumption == Limit \in Nat \ {0}
ASSUME ConfAssumption ==
    \A c \in Confs :
        /\ c.mode \in {"Daemon", "Once"}
        /\ c.cursorless => c.insert     \* raw passthrough refuses a conflict key
        /\ c.detaches \subseteq {"sink", "storage"}
        /\ c.schemas \subseteq Schemas
ASSUME SchemaAssumption == Schema0 \in Schemas
ASSUME BoundAssumption == MaxPos \in Nat /\ MaxFaults \in Nat /\ MaxRuns \in Nat

VARIABLES
    conf,       \* the configuration of the flow, which does not change
    src,        \* the source table: Key -> position, 0 if absent
    clock,      \* the highest position handed out
    schema,     \* the columns of the source table
    sink,       \* the sink table: Key -> position of the version it holds
    stored,     \* the persisted cursor, 0 if none
    pc,         \* where the runner is
    cursor,     \* FlowRunner.cursor, 0 for None
    srcCtx,     \* FlowRunner.source_ctx is Some
    ctxCols,    \* the columns that the source context's cached SELECT names
    ctxSchema,  \* the schema that the source context introspected
    sinkCtx,    \* FlowRunner.sink_ctx is Some
    plan,       \* the columns of FlowState.derived
    batch,      \* rows on their way to the sink: Key -> position, 0 if not in it
    next,       \* the batch's next_cursor, 0 for None
    backoff,    \* FlowRunner.backoff, in seconds
    result,     \* what run() returned
    sent,       \* the value of the shutdown watch channel
    seen,       \* the runner's receiver has marked that value as seen
    closed,     \* the sender is gone
    lateWrites, \* detached write_batch calls still to take effect
    lateSaves,  \* detached save_cursor calls still to take effect
    faults,     \* failing calls so far
    runs,       \* starts of the process so far
    horizon     \* history: the clock when the last batch was read

env == <<src, clock, schema>>
ctxs == <<srcCtx, ctxCols, ctxSchema, sinkCtx, plan>>
chan == <<sent, seen, closed>>
late == <<lateWrites, lateSaves>>
vars == <<conf, env, sink, stored, pc, cursor, ctxs, batch, next, backoff, result,
          chan, late, faults, runs, horizon>>

Pos == 0..MaxPos

Mode == conf.mode               \* RunMode: "Daemon" or "Once"
Cursorless == conf.cursorless   \* raw passthrough: read_batch returns no next cursor
Insert == conf.insert           \* no conflict block: a key the sink has is an error
Wildcard == conf.wildcard       \* the mapping is "*" = "*": the plan follows the schema
Identity == conf.identity       \* the transform is the identity and is skipped
Detaches == conf.detaches       \* which of "sink", "storage" may apply a call given up on

NoRows == [k \in Key |-> 0]
BACKOFF_INITIAL == 1
BACKOFF_CAP == 3600
BACKOFF_MULTIPLIER == 4

\* RuntimeError, as far as the runner tells its variants apart.
DropsCtx == {"Backend", "Timeout", "Validation"}

Running == pc \notin {"down", "done"}

TypeOK ==
    /\ conf \in Confs
    /\ src \in [Key -> Pos] /\ sink \in [Key -> Pos] /\ batch \in [Key -> Pos]
    /\ clock \in Pos /\ stored \in Pos /\ cursor \in Pos /\ next \in Pos
    /\ horizon \in Pos
    /\ {schema, plan, ctxCols, ctxSchema} \subseteq Schemas
    /\ pc \in {"down", "jitter", "build", "load", "read", "write", "save",
               "idle", "backoff", "done"}
    /\ srcCtx \in BOOLEAN /\ sinkCtx \in BOOLEAN
    /\ backoff \in BACKOFF_INITIAL..BACKOFF_CAP
    /\ result \in {"none", "ok", "err"}
    /\ sent \in BOOLEAN /\ seen \in BOOLEAN /\ closed \in BOOLEAN
    /\ lateWrites \in SUBSET [Key -> Pos]
    /\ lateSaves \in SUBSET Pos
    /\ faults \in 0..MaxFaults
    /\ runs \in 0..MaxRuns

Init ==
    /\ conf \in Confs
    /\ src = NoRows /\ clock = 0 /\ schema = Schema0
    /\ sink = NoRows /\ stored = 0
    /\ pc = "down" /\ cursor = 0
    /\ srcCtx = FALSE /\ sinkCtx = FALSE
    /\ ctxCols = Schema0 /\ ctxSchema = Schema0 /\ plan = Schema0
    /\ batch = NoRows /\ next = 0
    /\ backoff = BACKOFF_INITIAL /\ result = "none"
    /\ sent = FALSE /\ seen = FALSE /\ closed = FALSE
    /\ lateWrites = {} /\ lateSaves = {}
    /\ faults = 0 /\ runs = 0 /\ horizon = 0

-----------------------------------------------------------------------------
(* The source table changes by itself.                                     *)

\* A row is inserted, or changed where the sink can take a change.
Upsert(k) ==
    /\ clock < MaxPos
    /\ Insert => src[k] = 0
    /\ clock' = clock + 1
    /\ src' = [src EXCEPT ![k] = clock']
    /\ UNCHANGED <<schema, sink, stored, pc, cursor, ctxs, batch, next, backoff,
                   result, chan, late, faults, runs, horizon>>

AlterSchema(s) ==
    /\ s \in conf.schemas \ {schema}
    /\ schema' = s
    /\ UNCHANGED <<src, clock, sink, stored, pc, cursor, ctxs, batch, next,
                   backoff, result, chan, late, faults, runs, horizon>>

-----------------------------------------------------------------------------
(* Calls that the runner gave up on.                                       *)

InBatch == {k \in Key : batch[k] # 0}

\* What a table holds once the rows ks of batch b are written to it.
Written(t, b, ks) == [k \in Key |-> IF k \in ks THEN b[k] ELSE t[k]]

\* write_batch did not report success: any part of the batch may be in the
\* sink, and a call that was dropped may still write the whole of it.
UnknownWrite ==
    \/ \E ks \in SUBSET InBatch :
           /\ sink' = Written(sink, batch, ks)
           /\ UNCHANGED <<stored, late>>
    \/ /\ "sink" \in Detaches
       /\ lateWrites' = lateWrites \cup {batch}
       /\ UNCHANGED <<sink, stored, lateSaves>>

\* save_cursor did not report success.
UnknownSave ==
    \/ /\ stored' \in {stored, next}
       /\ UNCHANGED <<sink, late>>
    \/ /\ "storage" \in Detaches
       /\ lateSaves' = lateSaves \cup {next}
       /\ UNCHANGED <<sink, stored, lateWrites>>

\* What an outside observer can no longer tell when the runner stops in the
\* middle of a call.
Unknown ==
    \/ pc = "write" /\ UnknownWrite
    \/ pc = "save" /\ UnknownSave
    \/ pc \notin {"write", "save"} /\ UNCHANGED <<sink, stored, late>>

DropBatch == batch' = NoRows /\ next' = 0

LateWrite(b) ==
    /\ b \in lateWrites
    /\ sink' = Written(sink, b, {k \in Key : b[k] # 0})
    /\ lateWrites' = lateWrites \ {b}
    /\ UNCHANGED <<env, stored, pc, cursor, ctxs, batch, next, backoff, result,
                   chan, lateSaves, faults, runs, horizon>>

LateSave(p) ==
    /\ p \in lateSaves
    /\ stored' = p
    /\ lateSaves' = lateSaves \ {p}
    /\ UNCHANGED <<env, sink, pc, cursor, ctxs, batch, next, backoff, result,
                   chan, lateWrites, faults, runs, horizon>>

-----------------------------------------------------------------------------
(* The process.                                                            *)

\* The engine spawns the runner of a freshly validated flow, whose plan was
\* derived from the schema that validation saw.
Start ==
    /\ pc \in {"down", "done"}
    /\ runs < MaxRuns
    /\ runs' = runs + 1
    /\ pc' \in IF Mode = "Daemon" THEN {"jitter", "build"} ELSE {"build"}
    /\ cursor' = 0 /\ srcCtx' = FALSE /\ sinkCtx' = FALSE
    /\ plan' = IF Wildcard THEN schema ELSE plan
    /\ UNCHANGED <<ctxCols, ctxSchema>>
    /\ DropBatch
    /\ backoff' = BACKOFF_INITIAL /\ result' = "none"
    /\ sent' = FALSE /\ seen' = FALSE /\ closed' = FALSE
    /\ UNCHANGED <<env, sink, stored, late, faults, horizon>>

Crash ==
    /\ Running
    /\ runs < MaxRuns
    /\ pc' = "down"
    /\ Unknown
    /\ DropBatch
    /\ UNCHANGED <<env, cursor, ctxs, backoff, result, chan, faults, runs,
                   horizon>>

\* SIGTERM: wait_for_shutdown sends true ...
SendShutdown ==
    /\ Running
    /\ Mode = "Daemon" /\ ~sent
    /\ sent' = TRUE
    /\ UNCHANGED <<env, sink, stored, pc, cursor, ctxs, batch, next, backoff,
                   result, seen, closed, late, faults, runs, horizon>>

\* ... and its task, which owns the sender, ends.
CloseChannel ==
    /\ Running
    /\ sent /\ ~closed
    /\ closed' = TRUE
    /\ UNCHANGED <<env, sink, stored, pc, cursor, ctxs, batch, next, backoff,
                   result, sent, seen, late, faults, runs, horizon>>

\* Receiver::changed() resolves: there is an unseen value, or no sender.
Changed ==
    /\ (sent /\ ~seen) \/ closed
    /\ seen' = (seen \/ sent)
    /\ UNCHANGED <<sent, closed>>

\* run() returns.
Exit(r) ==
    /\ pc' = "done"
    /\ result' = r

\* Mutant of Fail: a daemon returns the error as a one-shot run does.
FailReturns(kind) == Exit("err") /\ UNCHANGED ctxs

\* The Err arm of run's loop: Once returns the error, a daemon drops its
\* contexts when should_drop_ctx_on says so and backs off.
Fail(kind) ==
    \/ /\ Mode = "Once"
       /\ Exit("err")
       /\ UNCHANGED ctxs
    \/ /\ Mode = "Daemon"
       /\ pc' = "backoff"
       /\ srcCtx' = (srcCtx /\ kind \notin DropsCtx)
       /\ sinkCtx' = (sinkCtx /\ kind \notin DropsCtx)
       /\ UNCHANGED <<ctxCols, ctxSchema, plan, result>>

\* A call that fails by itself.
Fault ==
    /\ faults < MaxFaults
    /\ faults' = faults + 1

\* The next tick begins at once, with the backoff reset.
Continue ==
    /\ pc' = "build"
    /\ backoff' = BACKOFF_INITIAL
    /\ UNCHANGED result

\* The three sleeps of run: startup jitter, the idle wait for the next grid
\* point, and the backoff, which grows once it is over.
Sleep ==
    /\ pc \in {"jitter", "idle", "backoff"}
    /\ pc' = "build"
    /\ backoff' = IF pc # "backoff" THEN backoff
                  ELSE IF backoff * BACKOFF_MULTIPLIER < BACKOFF_CAP
                       THEN backoff * BACKOFF_MULTIPLIER ELSE BACKOFF_CAP
    /\ UNCHANGED <<env, sink, stored, cursor, ctxs, batch, next, result, chan,
                   late, faults, runs, horizon>>

\* Each of them watches the shutdown.
SleepInterrupted ==
    /\ pc \in {"jitter", "idle", "backoff"}
    /\ Changed
    /\ Exit("ok")
    /\ UNCHANGED <<env, sink, stored, cursor, ctxs, batch, next, backoff, late,
                   faults, runs, horizon>>

-----------------------------------------------------------------------------
(* ensure_built: build_context takes the columns of the current plan and   *)
(* introspects the table; it is not covered by the query timeout.          *)

BuildSource ==
    /\ pc = "build" /\ ~srcCtx
    /\ UNCHANGED <<env, sink, stored, cursor, batch, next, backoff, chan, late,
                   runs, horizon>>
    /\ \/ /\ plan \subseteq schema
          /\ srcCtx' = TRUE /\ ctxCols' = plan /\ ctxSchema' = schema
          /\ UNCHANGED <<pc, sinkCtx, plan, result, faults>>
       \/ /\ ~(plan \subseteq schema)        \* SchemaColumnMissing
          /\ Fail("Other")
          /\ UNCHANGED faults
       \/ Fault /\ \E kind \in {"Backend", "Other"} : Fail(kind)

\* The sink context is the last to be built: rebuild_derived follows.  Its
\* error is a ValidationError, so should_drop_ctx_on drops both contexts again.
BuildSink ==
    /\ pc = "build" /\ srcCtx /\ ~sinkCtx
    /\ UNCHANGED <<env, sink, stored, cursor, batch, next, backoff, chan, late,
                   runs, horizon>>
    /\ \/ /\ sinkCtx' = TRUE
          /\ plan' = IF Wildcard THEN ctxSchema ELSE plan
          /\ UNCHANGED <<pc, srcCtx, ctxCols, ctxSchema, result, faults>>
       \/ Fault /\ \E kind \in {"Backend", "Validation", "Other"} : Fail(kind)

\* Mutant of EnterTick: the shutdown flag is not looked at.
EnterTickBlind ==
    /\ pc = "build" /\ srcCtx /\ sinkCtx
    /\ pc' = IF cursor = 0 THEN "load" ELSE "read"
    /\ UNCHANGED <<env, sink, stored, cursor, ctxs, batch, next, backoff, result,
                   chan, late, faults, runs, horizon>>

\* With both contexts built, tick looks at the shutdown flag, and skips
\* load_cursor when it already has a cursor.
EnterTick ==
    /\ pc = "build" /\ srcCtx /\ sinkCtx
    /\ \/ sent /\ Exit("ok")
       \/ ~sent /\ pc' = (IF cursor = 0 THEN "load" ELSE "read") /\ UNCHANGED result
    /\ UNCHANGED <<env, sink, stored, cursor, ctxs, batch, next, backoff, chan,
                   late, faults, runs, horizon>>

-----------------------------------------------------------------------------
(* The rest of tick: load_cursor, read_batch and the transform, write_batch *)
(* and save_cursor, each inside with_timeout.                              *)

\* with_timeout returns an error: the call's own, its timeout, or Cancelled
\* because the shutdown was signalled.
CallFails ==
    /\ pc \in {"load", "read", "write", "save"}
    /\ \/ Fault /\ UNCHANGED chan
          /\ \E kind \in {"Backend", "Timeout", "Other"} : Fail(kind)
       \/ Changed /\ UNCHANGED faults /\ Fail("Cancelled")
    /\ Unknown
    /\ DropBatch
    /\ UNCHANGED <<env, cursor, backoff, runs, horizon>>

LoadCursor ==
    /\ pc = "load"
    /\ cursor' = stored
    /\ pc' = "read"
    /\ UNCHANGED <<env, sink, stored, ctxs, batch, next, backoff, result, chan,
                   late, faults, runs, horizon>>

\* The rows after the cursor ...
Rows == {k \in Key : src[k] > cursor}
\* Mutant of FirstRows: the SELECT has no ORDER BY.
UnorderedRows(ks) ==
    /\ ks \subseteq Rows
    /\ Cardinality(ks) <= Limit
    /\ ks = Rows \/ Cardinality(ks) = Limit

\* ... and the first Limit of them in cursor order.
FirstRows(ks) ==
    /\ ks \subseteq Rows
    /\ \A k \in ks, r \in Rows \ ks : src[k] < src[r]
    /\ Cardinality(ks) <= Limit
    /\ ks = Rows \/ Cardinality(ks) = Limit

\* The cached SELECT names a column that the table no longer has.
ReadRefused ==
    /\ pc = "read" /\ ~(ctxCols \subseteq schema)
    /\ Fail("Backend")
    /\ UNCHANGED <<env, sink, stored, cursor, batch, next, backoff, chan, late,
                   faults, runs, horizon>>

ReadEmpty ==
    /\ pc = "read" /\ ctxCols \subseteq schema
    /\ Rows = {}
    /\ horizon' = clock
    /\ \/ /\ Mode = "Once"
          /\ Exit("ok")
          /\ UNCHANGED backoff
       \/ /\ Mode = "Daemon"
          /\ pc' = "idle"
          /\ backoff' = BACKOFF_INITIAL
          /\ UNCHANGED result
    /\ UNCHANGED <<env, sink, stored, cursor, ctxs, batch, next, chan, late,
                   faults, runs>>

\* Mutant of TransformRefuses: a missing column is not noticed.
TransformAccepts == FALSE

\* A row as the SELECT returns it lacks a column that the transform takes.
TransformRefuses == ~Identity /\ ~(plan \subseteq ctxCols)

ReadBatch ==
    /\ pc = "read" /\ ctxCols \subseteq schema
    /\ Rows # {}
    /\ horizon' = clock
    /\ \/ /\ TransformRefuses                  \* DerivedPlanInvariant
          /\ Fail("Other")
          /\ UNCHANGED <<batch, next>>
       \/ /\ ~TransformRefuses
          /\ \E ks \in SUBSET Key : \E k \in ks :
                /\ FirstRows(ks)
                /\ \A j \in ks : src[j] <= src[k]
                /\ batch' = Written(NoRows, src, ks)
                /\ next' = IF Cursorless THEN 0 ELSE src[k]
          /\ pc' = "write"
          /\ UNCHANGED <<ctxs, result>>
    /\ UNCHANGED <<env, sink, stored, cursor, backoff, chan, late, faults, runs>>

\* Mutant of FinishTick: a full batch ends a one-shot run too.
FinishTickEarly ==
    /\ \/ Mode = "Once" /\ Exit("ok") /\ UNCHANGED backoff
       \/ Mode # "Once" /\ Continue
    /\ DropBatch

\* finish_tick after a non-empty batch was written and committed.
FinishTick ==
    /\ \/ /\ Mode = "Once" /\ Cardinality(InBatch) < Limit
          /\ Exit("ok")
          /\ UNCHANGED backoff
       \/ /\ ~(Mode = "Once" /\ Cardinality(InBatch) < Limit)
          /\ Continue
    /\ DropBatch

\* Mutant of WriteBatch: success is reported for a part of the batch.
WriteBatchPartly ==
    /\ pc = "write"
    /\ \E ks \in SUBSET InBatch : sink' = Written(sink, batch, ks)
    /\ pc' = "save"
    /\ UNCHANGED <<env, stored, cursor, ctxs, batch, next, backoff, result, chan,
                   late, faults, runs, horizon>>

\* write_batch succeeds; a batch without a next cursor is not committed.
WriteBatch ==
    /\ pc = "write"
    /\ Insert => \A k \in InBatch : sink[k] = 0
    /\ sink' = Written(sink, batch, InBatch)
    /\ \/ /\ next # 0
          /\ pc' = "save"
          /\ UNCHANGED <<batch, next, backoff, result>>
       \/ /\ next = 0
          /\ FinishTick
    /\ UNCHANGED <<env, stored, cursor, ctxs, chan, late, faults, runs, horizon>>

\* A plain insert meets a key that the sink already has: an ordered
\* insertMany keeps what came before it, an INSERT statement nothing.
WriteDuplicate ==
    /\ pc = "write" /\ Insert
    /\ \E dup \in InBatch :
          /\ sink[dup] # 0
          /\ LET before == {k \in InBatch : batch[k] < batch[dup]}
             IN  /\ \A k \in before : sink[k] = 0
                 /\ \E ks \in {{}, before} : sink' = Written(sink, batch, ks)
    /\ Fail("Backend")
    /\ DropBatch
    /\ UNCHANGED <<env, stored, cursor, backoff, chan, late, faults, runs, horizon>>

\* Mutant of SaveCursor: the in-memory cursor is not advanced.
SaveCursorForgets ==
    /\ pc = "save"
    /\ stored' = next
    /\ FinishTick
    /\ UNCHANGED <<env, sink, cursor, ctxs, chan, late, faults, runs, horizon>>

SaveCursor ==
    /\ pc = "save"
    /\ stored' = next
    /\ cursor' = next
    /\ FinishTick
    /\ UNCHANGED <<env, sink, ctxs, chan, late, faults, runs, horizon>>

-----------------------------------------------------------------------------

\* The runner's own steps.
Runner ==
    \/ Sleep \/ SleepInterrupted
    \/ BuildSource \/ BuildSink \/ EnterTick
    \/ CallFails \/ LoadCursor
    \/ ReadRefused \/ ReadEmpty \/ ReadBatch
    \/ WriteBatch \/ WriteDuplicate \/ SaveCursor

Next ==
    /\ \/ Runner
       \/ \E k \in Key : Upsert(k)
       \/ \E s \in Schemas : AlterSchema(s)
       \/ \E b \in lateWrites : LateWrite(b)
       \/ \E p \in lateSaves : LateSave(p)
       \/ Start \/ Crash \/ SendShutdown \/ CloseChannel
    /\ UNCHANGED conf

Spec == Init /\ [][Next]_vars

\* The scheduler runs a task that can run, sleeps end, calls return (every
\* call of tick is bounded by the query timeout), and a process that died is
\* started again.  Nothing is assumed of the source, of the operator, or of
\* the calls that were given up on.
Fairness ==
    /\ WF_vars(Runner /\ UNCHANGED conf)
    /\ WF_vars(pc = "down" /\ Start /\ UNCHANGED conf)
FairSpec == Spec /\ Fairness

-----------------------------------------------------------------------------
(* Properties.                                                             *)

\* Every row up to position p is in the sink in its current version.
DeliveredUpTo(p) == \A k \in Key : src[k] \in 1..p => sink[k] = src[k]

\* The cursor that a restart would resume from never runs ahead of the sink:
\* write_and_commit saves it only after write_batch has reported success, and
\* nothing that fails, is cancelled, or is saved late may break that.  (A sink
\* that may write late breaks it: see NeverMissing.)
NoLoss == "sink" \notin Detaches => DeliveredUpTo(stored)

\* Why NoLoss and OnceDrains hold, as one inductive statement.  Every position
\* the cursor may be moved to was read before the horizon and is behind the
\* sink; a batch on its way holds the rows that separate it from the sink; and
\* a row that changed since the batch was read is beyond the horizon.
Positions == {stored, cursor, next} \cup lateSaves
Bounded ==
    /\ \A k \in Key : src[k] <= clock
    /\ horizon <= clock
    /\ \A p \in Positions : p <= horizon
    /\ pc = "save" => next # 0
    /\ 0 \notin lateSaves
Delivered == \A p \in {stored, cursor} \cup lateSaves : DeliveredUpTo(p)
BatchOK ==
    \A k \in Key : batch[k] # 0 =>
        /\ pc \in {"write", "save"}
        /\ batch[k] <= horizon
        /\ src[k] = batch[k] \/ src[k] > horizon
Reaches(p) == \A k \in Key : src[k] \in (cursor + 1)..p => batch[k] = src[k]
BatchCovers ==
    /\ pc = "write" => Reaches(next)
    /\ pc = "write" /\ Cardinality(InBatch) < Limit => Reaches(horizon)
    /\ pc = "save" => DeliveredUpTo(next)
    /\ pc = "save" /\ Cardinality(InBatch) < Limit => DeliveredUpTo(horizon)
Settled == result # "none" => pc = "done"
CursorInv ==
    /\ Bounded /\ Delivered /\ BatchOK /\ BatchCovers /\ Settled
    /\ lateWrites = {}
CursorSafety == "sink" \notin Detaches => CursorInv

\* A one-shot run that exits with success has drained the source: whatever
\* was in it when the last batch was read is in the sink.
OnceDrains ==
    Mode = "Once" /\ result = "ok" /\ "sink" \notin Detaches
        => DeliveredUpTo(horizon)

\* The loop of a daemon has no way out but the shutdown, whatever fails.
DaemonOutlivesFailure ==
    Mode = "Daemon" /\ pc = "done" => sent /\ result = "ok"

\* A batch read in one shape is never written in another: unless the plan is
\* the identity, a plan that has moved away from the context stops the tick.
NoMixedShapes ==
    pc \in {"write", "save"} /\ ~Identity => ctxCols = plan

\* The runner, its failures, restarts and late calls included, implements the
\* abstract flow: at-least-once delivery with a cursor that is never ahead.
Abs == INSTANCE AtLeastOnce WITH src <- src, clock <- clock, sink <- sink, stored <- stored
ImplementsAtLeastOnce == Abs!AbsSpec

\* When a write that was given up on may land late, a row the cursor has
\* passed may be overwritten by an older version, but it is still there.
NeverMissing == \A k \in Key : src[k] \in 1..stored => sink[k] # 0

\* A daemon whose calls fail finitely often catches up with the source and
\* stays there, unless it was told to stop.
Converges == Mode = "Daemon" => <>[](pc = "done" \/ sink = src)

\* A daemon that was told to stop does stop, wherever it was, and a one-shot
\* run returns.
RunnerExits ==
    /\ sent ~> pc = "done" \/ pc = "down"
    /\ Mode = "Once" => []<>(pc = "done")
=============================================================================
