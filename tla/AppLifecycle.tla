---------------------------- MODULE AppLifecycle ----------------------------
(***************************************************************************)
(* The application: App with its lazily assembled and validated flows, the *)
(* cursor storages behind them, the metrics server and the shutdown signal.*)
(*                                                                         *)
(* The tasks of one process call the methods of one App, in any            *)
(* interleaving of their awaits.  A method is the list of its steps; a     *)
(* step is what runs between two awaits.  Flows do their storage calls     *)
(* here and nothing else: FlowRunner and Validation model the rest.        *)
(*                                                                         *)
(* A setup fixes the storages and the flows on them, whether metrics are   *)
(* configured, and what every task calls.                                  *)
(***************************************************************************)
EXTENDS Integers, Sequences

CONSTANTS
    Setups,                       \* records [storages, flows, order, metrics, programs]
    MAX_ATTEMPTS,                 \* attempts at a CockroachDB statement
    ACCESS_PROBE_RETRY_ATTEMPTS,  \* attempts at an access probe
    MaxFaults                     \* bound on the failures of the backends

\* The methods of App and the two calls of main around them.
Methods ==
    {"assemble", "migrate", "validate", "run_once", "run_daemon", "spawn_metrics", "abort", "join"}
NoTask == "none"
Migrations == 2
\* The sentinel row that the access probe of a MongoDB storage writes and deletes.
Probe == "__air_elt_probe__"

ASSUME AttemptsAssumption ==
    MAX_ATTEMPTS \in Nat \ {0} /\ ACCESS_PROBE_RETRY_ATTEMPTS \in Nat \ {0} /\ MaxFaults \in Nat
\* Every flow is in the order once or more, has a storage and is not named as the
\* probe, and the process starts with no cursor saved.
ASSUME SetupAssumption ==
    \A s \in Setups :
       /\ NoTask \notin DOMAIN s.programs
       /\ \A t \in DOMAIN s.programs : s.programs[t] \in Seq(Methods)
       /\ s.order \in Seq(DOMAIN s.flows) /\ Probe \notin DOMAIN s.flows
       /\ \A f \in DOMAIN s.flows : /\ \E i \in 1..Len(s.order) : s.order[i] = f
                                    /\ s.flows[f].storage \in DOMAIN s.storages
                                    /\ s.flows[f].cdc \in BOOLEAN
       /\ s.storages \in [DOMAIN s.storages -> [kind : STRING, tables : 0..Migrations, create : BOOLEAN,
                                                insert : BOOLEAN, rows : {{}}]]
       /\ s.metrics \in {"enabled", "disabled"}

VARIABLES
    setup,         \* the setup this behaviour runs (never changes)
    assembled,     \* OnceCell<Vec<AssembledFlow>>
    validated,     \* OnceCell<Vec<FlowState>>
    migrated,      \* AtomicBool
    migrate_lock,  \* holder of the tokio mutex, or NoTask
    monitoring,    \* Mutex<Option<MonitoringManager>>
    recorders,     \* whether the assembled flows' recorders are enabled
    tasks,         \* per task: calls left, steps left, attempts made
    storages,      \* per storage: its tables and the cursors in them
    server,        \* the metrics server task
    signal,        \* the task that waits for SIGTERM
    faults,        \* failures so far (bounded by MaxFaults)
    ghost          \* what has been done, for the properties

appVars == <<setup, assembled, validated, migrated, migrate_lock, monitoring, recorders,
          tasks, storages, server, signal, faults, ghost>>

Tasks == DOMAIN setup.programs
Flows == DOMAIN setup.flows

-----------------------------------------------------------------------------
(***************************************************************************)
(* The methods of App, as steps.  A step is <<name>> or <<name, flow>>.    *)
(***************************************************************************)
ForFlows(name) == [i \in 1 .. Len(setup.order) |-> <<name, setup.order[i]>>]

flows_assembled == <<<<"enter_assembled">>, <<"assemble">>>>

migrate ==
    flows_assembled \o <<<<"migrated?">>, <<"migrate_lock">>, <<"migrated?">>>>
    \o ForFlows("migrate") \o <<<<"migrated!">>>>

flows_validated ==
    <<<<"enter_validated">>>> \o flows_assembled
    \o ForFlows("access") \o ForFlows("sample") \o <<<<"validated!">>>>

MethodSteps(method) ==
    CASE method = "assemble" -> flows_assembled
      [] method = "migrate" -> migrate
      [] method = "validate" -> flows_validated
      [] method = "run_once" ->
            migrate \o flows_validated \o ForFlows("load") \o ForFlows("save")
      [] method = "run_daemon" -> flows_validated \o <<<<"daemon">>>>
      [] OTHER -> <<<<method>>>>

Step(t) == tasks[t].steps[1][1]
StepFlow(t) == tasks[t].steps[1][2]
AtStep(t, name) == tasks[t].steps # <<>> /\ Step(t) = name

\* The steps after the next step of this name.
After(steps, name) ==
    LET named == {i \in 1..Len(steps) : steps[i][1] = name}
        first == CHOOSE i \in named : \A j \in named : i <= j
    IN  SubSeq(steps, first + 1, Len(steps))

Go(t, steps) == tasks' = [tasks EXCEPT ![t].steps = steps, ![t].attempts = 0]
Done(t) == Go(t, Tail(tasks[t].steps))

\* A task calls its next method.
Call(t) ==
    /\ tasks[t].steps = <<>>
    /\ tasks[t].calls # <<>>
    /\ tasks' = [tasks EXCEPT ![t].calls = Tail(@), ![t].method = Head(tasks[t].calls),
                              ![t].steps = MethodSteps(Head(tasks[t].calls))]
    /\ UNCHANGED <<setup, assembled, validated, migrated, migrate_lock, monitoring,
                   recorders, storages, server, signal, faults, ghost>>

(***************************************************************************)
(* OnceCell::get_or_try_init: one initialiser at a time; when it fails the *)
(* next waiter initialises.                                                *)
(***************************************************************************)
Unset == [set |-> FALSE, by |-> NoTask]

EnterAssembled(t) ==
    /\ AtStep(t, "enter_assembled")
    /\ \/ /\ assembled.set
          /\ Go(t, After(tasks[t].steps, "assemble"))
          /\ UNCHANGED <<assembled, monitoring, ghost>>
       \/ /\ ~assembled.set /\ assembled.by = NoTask
          /\ assembled' = [assembled EXCEPT !.by = t]
          /\ Done(t)
          \* MonitoringGuard::take
          /\ monitoring' = [slot |-> "none",
                            guard |-> IF monitoring.slot = "none" THEN "disabled"
                                      ELSE monitoring.slot]
          /\ ghost' = [ghost EXCEPT !.spawned_first = server.state # "off"]
    /\ UNCHANGED <<setup, validated, migrated, migrate_lock, recorders, storages, server,
                   signal, faults>>

\* MonitoringGuard::drop
Restored == [slot |-> monitoring.guard, guard |-> "none"]

Assemble(t) ==
    /\ AtStep(t, "assemble")
    /\ assembled' = [set |-> TRUE, by |-> NoTask]
    /\ recorders' = (monitoring.guard = "enabled")
    /\ monitoring' = Restored
    /\ Done(t)
    /\ ghost' = [ghost EXCEPT !.assemblies = @ + 1]
    /\ UNCHANGED <<setup, validated, migrated, migrate_lock, storages, server, signal, faults>>

EnterValidated(t) ==
    /\ AtStep(t, "enter_validated")
    /\ \/ /\ validated.set
          /\ Go(t, After(tasks[t].steps, "validated!"))
          /\ UNCHANGED validated
       \/ /\ ~validated.set /\ validated.by = NoTask
          /\ validated' = [validated EXCEPT !.by = t]
          /\ Done(t)
    /\ UNCHANGED <<setup, assembled, migrated, migrate_lock, monitoring, recorders,
                   storages, server, signal, faults, ghost>>

Validated(t) ==
    /\ AtStep(t, "validated!")
    /\ validated' = [set |-> TRUE, by |-> NoTask]
    /\ Done(t)
    /\ ghost' = [ghost EXCEPT !.validations = @ + 1]
    /\ UNCHANGED <<setup, assembled, migrated, migrate_lock, monitoring, recorders,
                   storages, server, signal, faults>>

(***************************************************************************)
(* migrate: the flag is read before and after the lock is taken.           *)
(***************************************************************************)
CheckOnce(t) ==
    /\ AtStep(t, "migrated?")
    /\ IF migrated /\ migrate_lock # t
       THEN Go(t, After(tasks[t].steps, "migrated!"))
       ELSE Done(t)
    /\ UNCHANGED <<setup, assembled, validated, migrated, migrate_lock, monitoring,
                   recorders, storages, server, signal, faults, ghost>>

CheckMigrated(t) ==
    /\ AtStep(t, "migrated?")
    /\ IF migrated
       THEN /\ Go(t, After(tasks[t].steps, "migrated!"))
            /\ migrate_lock' = IF migrate_lock = t THEN NoTask ELSE migrate_lock
       ELSE Done(t) /\ UNCHANGED migrate_lock
    /\ UNCHANGED <<setup, assembled, validated, migrated, monitoring, recorders, storages,
                   server, signal, faults, ghost>>

MigrateLock(t) ==
    /\ AtStep(t, "migrate_lock")
    /\ migrate_lock = NoTask
    /\ migrate_lock' = t
    /\ Done(t)
    /\ UNCHANGED <<setup, assembled, validated, migrated, monitoring, recorders, storages,
                   server, signal, faults, ghost>>

Migrated(t) ==
    /\ AtStep(t, "migrated!")
    /\ migrated' = TRUE
    /\ migrate_lock' = NoTask
    /\ Done(t)
    /\ ghost' = [ghost EXCEPT !.migrations = @ + 1]
    /\ UNCHANGED <<setup, assembled, validated, monitoring, recorders, storages, server,
                   signal, faults>>

-----------------------------------------------------------------------------
(***************************************************************************)
(* A method returns an error: the cells and the lock the task was inside   *)
(* of are left, and the monitoring guard puts the manager back.  The       *)
(* daemon keeps run_daemon's result for later; every other error ends the  *)
(* program that called.                                                    *)
(***************************************************************************)
Fail(t) ==
    /\ tasks' = [tasks EXCEPT ![t].steps = <<>>, ![t].attempts = 0,
                              ![t].calls = IF tasks[t].method = "run_daemon" THEN @ ELSE <<>>]
    /\ IF assembled.by = t
       THEN assembled' = [assembled EXCEPT !.by = NoTask] /\ monitoring' = Restored
       ELSE UNCHANGED <<assembled, monitoring>>
    /\ validated' = IF validated.by = t THEN [validated EXCEPT !.by = NoTask] ELSE validated
    /\ migrate_lock' = IF migrate_lock = t THEN NoTask ELSE migrate_lock

\* A component cannot be built, or a flow is refused.
AssembleFails(t) ==
    /\ AtStep(t, "assemble")
    /\ faults < MaxFaults
    /\ faults' = faults + 1
    /\ Fail(t)
    /\ UNCHANGED <<setup, migrated, recorders, storages, server, signal, ghost>>

(***************************************************************************)
(* The storages.  tables is the number of migrations applied: the first    *)
(* creates air_elt_cursors, the second air_elt_resume_tokens.  MongoDB     *)
(* creates its collections as they are written to.                         *)
(***************************************************************************)
TableOf(flow) == IF setup.flows[flow].cdc THEN 2 ELSE 1

\* The probes of validate_access: with the table there, that it can be
\* inserted into; without it, on PostgreSQL, that it could be created.
PgAccess(st) ==
    IF st.tables >= 1 THEN IF st.insert THEN "ok" ELSE "other"
    ELSE IF st.create THEN "ok" ELSE "other"

MySqlAccess(st) == IF st.tables >= 1 /\ ~st.insert THEN "backend" ELSE "ok"

MongoAccess(st) == IF st.insert THEN "ok" ELSE "backend"

Answer(possible) == IF possible THEN "ok" ELSE "backend"

\* What a call of the Storage trait that reaches the backend returns there:
\* the loads and saves are those of the cursor, or of the resume token.
PgStorage(st, flow) ==
    [access |-> PgAccess(st),
     load |-> Answer(st.tables >= TableOf(flow)),
     save |-> Answer(st.tables >= TableOf(flow) /\ st.insert),
     migrate |-> Answer(st.tables = Migrations \/ st.create)]

MySqlStorage(st, flow) == [PgStorage(st, flow) EXCEPT !.access = MySqlAccess(st)]

MongoStorage(st, flow) ==
    [access |-> MongoAccess(st), load |-> "ok", save |-> Answer(st.insert), migrate |-> "ok"]

Storage(st, flow) ==
    CASE st.kind = "mysql" -> MySqlStorage(st, flow)
      [] st.kind = "mongodb" -> MongoStorage(st, flow)
      [] OTHER -> PgStorage(st, flow)

\* A migration is a transaction; the migrator goes through those not applied.
migrate_step(st) ==
    IF st.kind = "mongodb" \/ st.tables = Migrations \/ ~st.create THEN st
    ELSE [st EXCEPT !.tables = @ + 1]

StorageOf(flow) == storages[setup.flows[flow].storage]

\* Sampling is a dry run: it loads the cursor and serialises the new one.
Reached(step, st, flow) == Storage(st, flow)[IF step = "sample" THEN "load" ELSE step]

\* The probe of a MongoDB storage upserts its sentinel and deletes it.
Probes(step, st) == step = "access" /\ st.kind = "mongodb" /\ st.insert

SampleSaves(step, st, flow) ==
    CASE step \in {"save", "sample"} -> [st EXCEPT !.rows = @ \union {flow}]
      [] step = "migrate" -> migrate_step(st)
      [] OTHER -> st

Effect(step, st, flow) ==
    CASE step = "save" -> [st EXCEPT !.rows = @ \union {flow}]
      [] step = "migrate" -> migrate_step(st)
      [] Probes(step, st) -> [st EXCEPT !.rows = @ \ {Probe}]
      [] OTHER -> st

\* What a call may leave: one that failed between the two writes of a probe
\* leaves the sentinel.
Leaves(step, st, flow, done) ==
    IF done THEN {Effect(step, st, flow)}
    ELSE IF Probes(step, st) THEN {st, [st EXCEPT !.rows = @ \union {Probe}]}
    ELSE {st}

(***************************************************************************)
(* The two retry loops: access probes against any transient backend error, *)
(* statements on CockroachDB against serialization failures.               *)
(***************************************************************************)
retry_transient(result, attempts) ==
    result # "other" /\ attempts + 1 < ACCESS_PROBE_RETRY_ATTEMPTS

with_serialization_retry(st, result, attempts) ==
    st.kind = "cockroachdb" /\ result = "serialization" /\ attempts + 1 < MAX_ATTEMPTS

Retried(step, st, result, attempts) ==
    CASE step = "access" -> retry_transient(result, attempts)
      [] step = "migrate" -> FALSE
      [] OTHER -> with_serialization_retry(st, result, attempts)

StorageSteps == {"migrate", "access", "sample", "load", "save"}

\* One attempt at the storage step a task is at.  The backend may fail it,
\* refuse to serialise it, or do it and lose the answer.
Attempt(t) ==
    /\ tasks[t].steps # <<>>
    /\ Step(t) \in StorageSteps
    /\ \E result \in {"reached", "lost", "backend", "serialization"} :
          LET step == Step(t)
              flow == StepFlow(t)
              name == setup.flows[flow].storage
              st == storages[name]
              outcome == IF result = "reached" THEN Reached(step, st, flow)
                         ELSE IF result = "lost" THEN "backend" ELSE result
              done == \/ result = "reached" /\ outcome = "ok"
                      \/ result = "lost" /\ Reached(step, st, flow) = "ok"
              unfinished == /\ step = "migrate" /\ st.kind # "mongodb"
                            /\ st.tables < Migrations - 1
          IN /\ result # "reached" => faults < MaxFaults
             /\ result = "serialization" => st.kind = "cockroachdb"
             /\ faults' = IF result = "reached" THEN faults ELSE faults + 1
             /\ \E left \in Leaves(step, st, flow, done) :
                   storages' = [storages EXCEPT ![name] = left]
             /\ IF outcome = "ok"
                THEN /\ IF unfinished THEN UNCHANGED tasks ELSE Done(t)
                     /\ ghost' = IF step = "save" THEN [ghost EXCEPT !.acked = @ \union {flow}]
                                 ELSE ghost
                     /\ UNCHANGED <<assembled, monitoring, validated, migrate_lock>>
                ELSE IF Retried(step, st, outcome, tasks[t].attempts)
                THEN /\ tasks' = [tasks EXCEPT ![t].attempts = @ + 1]
                     /\ UNCHANGED <<assembled, monitoring, validated, migrate_lock, ghost>>
                ELSE /\ Fail(t)
                     /\ ghost' = [ghost EXCEPT !.surfaced = @ \union
                           {[step |-> step, kind |-> st.kind, outcome |-> outcome,
                             attempts |-> tasks[t].attempts + 1, method |-> tasks[t].method,
                             missing |-> Reached("load", st, flow) # "ok"]}]
    /\ UNCHANGED <<setup, migrated, recorders, server, signal>>

-----------------------------------------------------------------------------
(***************************************************************************)
(* The metrics server and the shutdown signal.  The daemon's main spawns   *)
(* both, keeps the result of run_daemon, aborts the signal task and waits  *)
(* for the server.  The server stops when the shutdown channel changes or  *)
(* its sender is gone, and only after the requests it has are answered.    *)
(***************************************************************************)
spawn_metrics(t) ==
    /\ AtStep(t, "spawn_metrics")
    /\ monitoring' = [monitoring EXCEPT !.slot = "none"]
    /\ server' = IF monitoring.slot = "enabled" THEN [server EXCEPT !.state = "starting"]
                 ELSE server
    /\ Done(t)
    /\ UNCHANGED <<setup, assembled, validated, migrated, migrate_lock, recorders, storages,
                   signal, faults, ghost>>

\* Bind the port; when it is taken the task ends.
serve ==
    /\ server.state = "starting"
    /\ \E bound \in BOOLEAN :
          server' = [server EXCEPT !.state = IF bound THEN "serving" ELSE "done"]
    /\ UNCHANGED <<setup, assembled, validated, migrated, migrate_lock, monitoring,
                   recorders, tasks, storages, signal, faults, ghost>>

Request ==
    /\ server.state = "serving"
    /\ server.requests = 0
    /\ server' = [server EXCEPT !.requests = 1]
    /\ UNCHANGED <<setup, assembled, validated, migrated, migrate_lock, monitoring,
                   recorders, tasks, storages, signal, faults, ghost>>

Respond ==
    /\ server.requests = 1
    /\ server' = [server EXCEPT !.requests = 0]
    /\ UNCHANGED <<setup, assembled, validated, migrated, migrate_lock, monitoring,
                   recorders, tasks, storages, signal, faults, ghost>>

ShutdownSent == signal = "sent"

ShutdownChanged == signal # "waiting"

serve_on_listener ==
    /\ \/ /\ server.state = "serving" /\ ShutdownChanged
          /\ server' = [server EXCEPT !.state = "stopping"]
       \/ /\ server.state = "stopping" /\ server.requests = 0
          /\ server' = [server EXCEPT !.state = "done"]
    /\ UNCHANGED <<setup, assembled, validated, migrated, migrate_lock, monitoring,
                   recorders, tasks, storages, signal, faults, ghost>>

wait_for_shutdown ==
    /\ signal = "waiting"
    /\ signal' = "sent"
    /\ UNCHANGED <<setup, assembled, validated, migrated, migrate_lock, monitoring,
                   recorders, tasks, storages, server, faults, ghost>>

\* The engine's daemon returns once the channel says so (FlowEngine).
Daemon(t) ==
    /\ AtStep(t, "daemon")
    /\ signal = "sent"
    /\ Done(t)
    /\ UNCHANGED <<setup, assembled, validated, migrated, migrate_lock, monitoring,
                   recorders, storages, server, signal, faults, ghost>>

Abort(t) ==
    /\ AtStep(t, "abort")
    /\ signal' = IF signal = "waiting" THEN "aborted" ELSE signal
    /\ Done(t)
    /\ UNCHANGED <<setup, assembled, validated, migrated, migrate_lock, monitoring,
                   recorders, storages, server, faults, ghost>>

Join(t) ==
    /\ AtStep(t, "join")
    /\ server.state \in {"off", "done"}
    /\ Done(t)
    /\ UNCHANGED <<setup, assembled, validated, migrated, migrate_lock, monitoring,
                   recorders, storages, server, signal, faults, ghost>>

-----------------------------------------------------------------------------
AppInit ==
    /\ setup \in Setups
    /\ assembled = Unset
    /\ validated = Unset
    /\ migrated = FALSE
    /\ migrate_lock = NoTask
    /\ monitoring = [slot |-> setup.metrics, guard |-> "none"]
    /\ recorders = FALSE
    /\ tasks = [t \in Tasks |-> [calls |-> setup.programs[t], method |-> "none",
                                  steps |-> <<>>, attempts |-> 0]]
    /\ storages = setup.storages
    /\ server = [state |-> "off", requests |-> 0]
    /\ signal = IF setup.daemon THEN "waiting" ELSE "none"
    /\ faults = 0
    /\ ghost = [assemblies |-> 0, validations |-> 0, migrations |-> 0,
                spawned_first |-> FALSE, acked |-> {}, surfaced |-> {}]

TaskStep(t) ==
    \/ Call(t) \/ EnterAssembled(t) \/ Assemble(t) \/ AssembleFails(t)
    \/ EnterValidated(t) \/ Validated(t)
    \/ CheckMigrated(t) \/ MigrateLock(t) \/ Migrated(t)
    \/ Attempt(t) \/ spawn_metrics(t) \/ Daemon(t) \/ Abort(t) \/ Join(t)

AppNext ==
    \/ \E t \in Tasks : TaskStep(t)
    \/ serve \/ Request \/ Respond \/ serve_on_listener
    \/ wait_for_shutdown

\* Tokio polls every task that can go on, and a client reads its answer.
Fairness ==
    /\ \A t \in UNION {DOMAIN s.programs : s \in Setups} :
          WF_appVars(t \in Tasks /\ TaskStep(t))
    /\ WF_appVars(serve) /\ WF_appVars(Respond) /\ WF_appVars(serve_on_listener)

AppSpec == AppInit /\ [][AppNext]_appVars /\ Fairness

-----------------------------------------------------------------------------
(***************************************************************************)
(* Properties.                                                             *)
(***************************************************************************)

\* However the tasks interleave and whatever fails in between, the flows
\* are assembled once, validated once and their storages migrated in one
\* complete pass; the migrated flag means that every storage has all its
\* tables; and a run_once, which migrates first, never meets a missing one.
\* (App::flows_assembled, flows_validated, migrate, run_once.)
StartedOnce ==
    /\ ghost.assemblies <= 1 /\ ghost.validations <= 1 /\ ghost.migrations <= 1
    /\ migrated => \A f \in Flows : StorageOf(f).kind = "mongodb"
                                    \/ StorageOf(f).tables = Migrations
    /\ \A e \in ghost.surfaced :
          e.method = "run_once" /\ e.step \in {"sample", "load", "save"} => ~e.missing

\* An enabled metrics manager is never lost: it is in its slot, lent to the
\* assembly under way, or served; and the flows that were assembled have
\* live recorders unless the server had been spawned before, no matter how
\* many assemblies failed. (MonitoringGuard, App::spawn_metrics.)
HoldsManager(h) ==
    IF h = "server" THEN server.state # "off" ELSE monitoring[h] = "enabled"
MetricsKept ==
    setup.metrics = "enabled" =>
       /\ \E h \in {"slot", "guard", "server"} :
             \A g \in {"slot", "guard", "server"} : HoldsManager(g) <=> g = h
       /\ assembled.set => recorders \/ ghost.spawned_first

\* A save the flow was told of is in the storage and sampling saves nothing:
\* before the flows are validated no row appears but the sentinel of an access
\* probe that failed, and no probe deletes a cursor.  A transient error
\* reaches the caller only when the last attempt allowed has failed.
\* (Storage::save_cursor with dry_run, retry_transient,
\* with_serialization_retry.)
StorageHonest ==
    /\ \A f \in ghost.acked : f \in StorageOf(f).rows
    /\ ~validated.set => \A f \in Flows : StorageOf(f).rows \subseteq {Probe}
    /\ \A e \in ghost.surfaced :
          /\ e.step = "access" /\ e.outcome # "other" =>
                e.attempts = ACCESS_PROBE_RETRY_ATTEMPTS
          /\ e.outcome = "serialization" /\ e.step \in {"sample", "load", "save"} =>
                e.attempts = MAX_ATTEMPTS

Finished == \A t \in Tasks : tasks[t].steps = <<>> /\ tasks[t].calls = <<>>

\* The process ends: at once when no daemon was asked for, and otherwise
\* after the signal or after the daemon failed to start, when the signal
\* task is aborted instead; the metrics server does not keep it alive.
\* (main.rs run, server.rs serve_on_listener, signal.rs.)
Exits == (signal # "waiting") ~> Finished

\* Concurrent commands share one start: the work is done once, and the metrics
\* manager that assembly borrows outlives assemblies that fail.
StartShared == StartedOnce /\ MetricsKept
=============================================================================
