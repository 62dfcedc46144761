----------------------------- MODULE Validation ------------------------------
(* A configuration is loaded (ConfigLoad), then, in                          *)
(* crates/core/src/validation/pipeline.rs: `assemble` wires the flows of a    *)
(* configuration to their components, `validate` probes and plans all of them *)
(* at once, and the first tick of each flow derives its plan again from the   *)
(* schemas its contexts hold (flow/runner.rs, ensure_built) and maps rows.    *)
EXTENDS ConfigLoad

CONSTANTS
    FileSystems,    \* the files a configuration may be loaded from
    Rows(_),        \* the rows a source may hold, by its schema
    MaxFaults       \* calls that may fail in one behaviour

ACCESS_PROBE_RETRY_ATTEMPTS == 3

VARIABLES
    files,          \* the file system at hand
    root,           \* what loading it returned
    assembled,      \* the assembled flows, in configuration order
    started,        \* flows whose future has been polled
    flow,           \* the validation of each flow
    any_error,      \* whether some flow has failed
    errors,         \* [idx, error] in the order the flows failed
    results,        \* [idx, derived] in the order the flows passed
    outcome,        \* what validate returned; <<>> while it runs
    live,           \* the plan each flow derived at its first tick
    fed,            \* the last row mapped: [idx, row, cells]
    faults          \* calls that have failed
vars == <<files, root, assembled, started, flow, any_error, errors, results, outcome, live, fed, faults>>

(***************************************************************************)
(* Assembling                                                              *)
(***************************************************************************)
Fresh == [todo |-> <<>>, attempt |-> 1, holds |-> None, src |-> None, dst |-> None, expanded |-> None, derived |-> None]
ShortStar(entry) == entry = <<WILDCARD_MARKER, <<"Short", WILDCARD_MARKER>>>>
RawEligible(f, source, sink) ==
    source.schemaless /\ sink.schemaless /\ \E i \in 1..Len(f.mapping) : ShortStar(f.mapping[i])
\* Pull sources need a cursor, change streams refuse one and need a key.
CursorShape(f, source, sink) ==
    IF source.kind = "mongo-cdc"
    THEN IF f.cursor_fields # <<>> THEN Err("does not accept user cursors")
         ELSE Checked(f.conflict = None /\ sink.supports_deletes, "requires a conflict block", Ok(f))
    ELSE Checked(f.cursor_fields = <<>> /\ ~RawEligible(f, source, sink), "requires cursor.fields", Ok(f))
Names(components) == {components[i].name : i \in 1..Len(components)}
\* The index keeps the last of several components of one name.
Indexed(components, name) == components[Max({i \in 1..Len(components) : components[i].name = name})].kind
ref_name(ref) == ref[2]
ref_options(ref) == IF ref[1] = "Bare" THEN <<>> ELSE ref[3]
KnownNames(f, r) ==
    IF ref_name(f.source) \notin Names(r.sources) THEN Err("UnknownSource")
    ELSE IF ref_name(f.sink) \notin Names(r.sinks) THEN Err("UnknownSink")
    ELSE Checked(f.storage \notin Names(r.storages), "UnknownStorage", Ok(f))
\* Components no flow refers to are not built.  The kind of a component is the
\* connector registered for it, if any.
BuildComponents(r, fs) ==
    Checked(\E i \in 1..Len(fs) : \/ Indexed(r.sources, ref_name(fs[i].source)) = None
                                \/ Indexed(r.sinks, ref_name(fs[i].sink)) = None
                                \/ Indexed(r.storages, fs[i].storage) = None,
            "AccessFailed", Ok(fs))
JITTER_DEFAULT_CAP == 300
effective_jitter(f) == OrElse(f.jitter, Min({f.interval, JITTER_DEFAULT_CAP}))
AssembleFlow(f, source, sink) ==
    AndThen(CursorShape(f, source, sink), LAMBDA g :
    AndThen(Checked(ref_options(f.sink) # <<>> /\ ~sink.accepts_options, "sink options", build(f)), LAMBDA rules :
        Ok([source |-> source, sink |-> sink, rules |-> rules,
            at |-> [source |-> <<"source", ref_name(f.source)>>, sink |-> <<"sink", ref_name(f.sink)>>, storage |-> <<"storage", f.storage>>],
            cursor_fields |-> f.cursor_fields, conflict |-> f.conflict, limit |-> f.limit, jitter |-> effective_jitter(f),
            access |-> f.access, fields |-> f.fields, inserts |-> f.inserts,
            sampling |-> resolve(f.sampling, source.sampling_default) # Disabled])))
\* Every reference is looked up before any component is built.
FlowsOf(r) == LET names == SetToSortSeq(DOMAIN r.flow, LAMBDA x, y : x < y) IN [i \in 1..Len(names) |-> r.flow[names[i]]]
AssembleFlows(r, flows) ==
    AndThen(Collect([i \in 1..Len(flows) |-> KnownNames(flows[i], r)]), LAMBDA fs :
    AndThen(BuildComponents(r, fs), LAMBDA gs :
        Collect([i \in 1..Len(gs) |->
            AssembleFlow(gs[i], Indexed(r.sources, ref_name(gs[i].source))[1], Indexed(r.sinks, ref_name(gs[i].sink))[1])])))
assemble(r) == AssembleFlows(r, FlowsOf(r))

(***************************************************************************)
(* The steps of one flow                                                   *)
(***************************************************************************)
NeedsSchemas(f) ==
    /\ f.fields
    /\ HasRule(f.rules, "Wildcard") \/ HasRule(f.rules, "Body")
    /\ ~(HasRule(f.rules, "Wildcard") /\ f.source.schemaless /\ f.sink.schemaless)
SourceFirst(f) == NeedsSchemas(f) /\ (~f.source.schemaless \/ HasRule(f.rules, "Body"))
SinkFirst(f) == NeedsSchemas(f) /\ ~f.sink.schemaless
If(cond, steps) == IF cond THEN steps ELSE <<>>
validate_flow(f) ==
    If(SourceFirst(f), <<"source_schema">>) \o If(SinkFirst(f), <<"sink_schema">>) \o <<"expand">>
    \o If(f.access, <<"storage_probe", "source_probe">>)
    \o If(f.inserts, <<"sink_probe">>)
    \o If(f.inserts /\ f.source.emits_deletes /\ f.conflict # None /\ f.sink.supports_deletes, <<"delete_probe">>)
    \o If(f.fields /\ ~SourceFirst(f), <<"source_schema">>)
    \o If(f.fields /\ ~SinkFirst(f) /\ ~f.sink.schemaless, <<"sink_schema">>)
    \o <<"plan">> \o If(f.sampling, <<"sample">>)
Component(f, step) ==
    CASE step \in {"source_schema", "source_probe", "sample"} -> f.at.source
      [] step \in {"sink_schema", "sink_probe", "delete_probe"} -> f.at.sink
      [] step = "storage_probe" -> f.at.storage
Probes == {"storage_probe", "source_probe", "sink_probe", "delete_probe"}
Pure == {"expand", "plan"}

Running(i) == i <= started /\ flow[i].todo # <<>>
Step(i) == Head(flow[i].todo)
Free(c) == \A i \in 1..Len(assembled) : flow[i].holds # Some(c)
\* The sink's permit is kept from its probe to the probe of deletes.
Kept(i) == IF Len(flow[i].todo) > 1 /\ flow[i].todo[2] = "delete_probe" THEN flow[i].holds ELSE None
\* The step is done; after the last one the flow has passed.
Passed(i, w) ==
    /\ flow' = [flow EXCEPT ![i] = [w EXCEPT !.todo = Tail(w.todo), !.attempt = 1, !.holds = Kept(i)]]
    /\ results' = IF Len(w.todo) = 1 THEN Append(results, [idx |-> i, derived |-> w.derived[1]]) ELSE results
    /\ UNCHANGED <<any_error, errors>>
\* A flow that fails gives its permit back and raises the flag.
Failed(i, error) ==
    /\ flow' = [flow EXCEPT ![i].todo = <<>>, ![i].holds = None]
    /\ any_error' = TRUE
    /\ errors' = Append(errors, [idx |-> i, error |-> error])
    /\ UNCHANGED results
Outcome(i, r, w) == IF IsOk(r) THEN Passed(i, w) ELSE Failed(i, r[2])

ExpandStates(f, w) ==
    expand(f.rules,
           IF w.src = None THEN Schemaless ELSE IF f.source.schemaless THEN SchemalessWithSample(w.src[1].fields) ELSE w.src[1],
           IF w.dst = None THEN Schemaless ELSE w.dst[1], f.source.schemaless, f.sink.schemaless)
Expanded(i, r) == Outcome(i, r, [flow[i] EXCEPT !.expanded = IF IsOk(r) THEN Some(r[2]) ELSE None])
PlanOf(f, w) ==
    IF f.fields THEN FieldsPlan(f, w.expanded[1], w.src[1], OrElse(w.dst, FixedSchema(<<>>)))
    ELSE PassthroughPlan(f, w.expanded[1])
Planned(i, r) == Outcome(i, r, [flow[i] EXCEPT !.derived = IF IsOk(r) THEN Some(r[2]) ELSE None])
\* A row as the source delivers it for a plan: its columns, and a body if asked.
Cells(plan, schema, row) == [k \in 1..Len(plan.read_columns) |-> column(schema, row, plan.read_columns[k])]
Document(schema, row) ==
    <<"Custom", "mongodb.bson_object",
      <<"obj", [k \in 1..Len(row) |-> <<schema.fields[k].name, JsonOrNull(row[k])>>]>>>>
BodyFor(f, plan, cells, row) ==
    IF ~plan.needs_body THEN Ok(None)
    ELSE IF f.source.schemaless THEN Ok(Some(Document(f.source.schema, row)))
    ELSE AndThen(build_body_json(cells, plan.read_columns), LAMBDA b : Ok(Some(b)))
MapCells(f, plan, cells, row) ==
    AndThen(BodyFor(f, plan, cells, row), LAMBDA body : apply(plan.transform, [values |-> cells, body |-> body]))
MapRow(f, plan, row) == MapCells(f, plan, Cells(plan, f.source.schema, row), row)
(***************************************************************************)
(* Actions                                                                 *)
(***************************************************************************)
Assembled(a) ==
    /\ started = 0 /\ any_error = FALSE /\ errors = <<>> /\ results = <<>> /\ faults = 0
    /\ assembled = IF IsOk(a) THEN a[2] ELSE <<>>
    /\ outcome = IF IsOk(a) THEN None ELSE Some(Err([idx |-> 0, error |-> a[2]]))
    /\ flow = [i \in 1..Len(assembled) |-> Fresh]
    /\ live = [i \in 1..Len(assembled) |-> None] /\ fed = None
Init ==
    /\ files \in FileSystems
    /\ \E r \in {load(files)} : root = r /\ \E a \in {AndThen(r, assemble)} : Assembled(a)

\* The stream hands out the flows in order; one that starts after a failure stops.
Start ==
    /\ started < Len(assembled)
    /\ started' = started + 1
    /\ flow' = [flow EXCEPT ![started + 1].todo = IF any_error THEN <<>> ELSE validate_flow(assembled[started + 1])]
    /\ UNCHANGED <<files, root, assembled, any_error, errors, results, outcome, live, fed, faults>>
Acquire(i) ==
    /\ Running(i) /\ Step(i) \notin Pure /\ flow[i].holds = None
    /\ Free(Component(assembled[i], Step(i)))
    /\ flow' = [flow EXCEPT ![i].holds = Some(Component(assembled[i], Step(i)))]
    /\ UNCHANGED <<files, root, assembled, started, any_error, errors, results, outcome, live, fed, faults>>
Waits(i) == Running(i) /\ flow[i].holds # None
Answer(i) ==
    /\ Waits(i) /\ Step(i) # "sample"
    /\ Passed(i, CASE Step(i) = "source_schema" -> [flow[i] EXCEPT !.src = Some(assembled[i].source.schema)]
                   [] Step(i) = "sink_schema" -> [flow[i] EXCEPT !.dst = Some(assembled[i].sink.schema)]
                   [] OTHER -> flow[i])
    /\ UNCHANGED <<files, root, assembled, started, outcome, live, fed, faults>>
\* Only a backend error of a probe is tried again, and the permit is kept.
Fault(i, backend) ==
    /\ Waits(i) /\ faults < MaxFaults
    /\ faults' = faults + 1
    /\ IF backend /\ Step(i) \in Probes /\ flow[i].attempt < ACCESS_PROBE_RETRY_ATTEMPTS
       THEN flow' = [flow EXCEPT ![i].attempt = @ + 1] /\ UNCHANGED <<any_error, errors, results>>
       ELSE Failed(i, "AccessFailed")
    /\ UNCHANGED <<files, root, assembled, started, outcome, live, fed>>
RootChecked(i, r) == Expanded(i, AndThen(r, LAMBDA x : RootChecks(assembled[i], x)))
Expand(i) ==
    /\ Running(i) /\ Step(i) = "expand"
    /\ RootChecked(i, ExpandStates(assembled[i], flow[i]))
    /\ UNCHANGED <<files, root, assembled, started, outcome, live, fed, faults>>
PlanFlow(i) ==
    /\ Running(i) /\ Step(i) = "plan"
    /\ Planned(i, PlanOf(assembled[i], flow[i]))
    /\ UNCHANGED <<files, root, assembled, started, outcome, live, fed, faults>>

ByIndex(s) == SortSeq(s, LAMBDA a, b : a.idx < b.idx)
Returned(errs, oks) ==
    IF errs # <<>> THEN Err(ByIndex(errs)[1]) ELSE Ok(ByIndex(oks))
Return ==
    /\ outcome = None /\ started = Len(assembled)
    /\ \A i \in 1..started : flow[i].todo = <<>>
    /\ outcome' = Some(Returned(errors, results))
    /\ UNCHANGED <<files, root, assembled, started, flow, any_error, errors, results, live, fed, faults>>

Validated == outcome # None /\ IsOk(outcome[1])
Sampling(i) == Waits(i) /\ Step(i) = "sample"
\* ensure_built, at the first tick and at the dry run that samples the source.
FirstTick(i) ==
    /\ Validated \/ Sampling(i)
    /\ live[i] = None
    /\ live' = [live EXCEPT ![i] = Some(rebuild_derived(assembled[i], assembled[i].source.schema, assembled[i].sink.schema))]
    /\ UNCHANGED <<files, root, assembled, started, flow, any_error, errors, results, outcome, fed, faults>>
MapOne(i) ==
    /\ Validated \/ (Sampling(i) /\ fed = None)
    /\ live[i] # None /\ IsOk(live[i][1])
    /\ \E row \in Rows(assembled[i].source.schema) :
           fed' = Some([idx |-> i, row |-> row, cells |-> MapRow(assembled[i], live[i][1][2], row)])
    /\ UNCHANGED <<files, root, assembled, started, flow, any_error, errors, results, outcome, live, faults>>
\* The dry run ends, and its runner with it; a source without rows passes.
Sample(i) ==
    /\ Sampling(i) /\ live[i] # None
    /\ Outcome(i, IF ~IsOk(live[i][1]) \/ fed = None THEN live[i][1] ELSE fed[1].cells, flow[i])
    /\ live' = [live EXCEPT ![i] = None]
    /\ fed' = None
    /\ UNCHANGED <<files, root, assembled, started, outcome, faults>>
\* A configuration that is refused ends the program; a tick that cannot derive
\* its plan fails.
Stopped ==
    /\ outcome # None
    /\ IsOk(outcome[1]) => \A i \in 1..Len(live) : live[i] # None /\ ~IsOk(live[i][1])
    /\ UNCHANGED vars
Next ==
    \/ Start \/ Return \/ Stopped
    \/ \E i \in 1..Len(assembled) :
           \/ Acquire(i) \/ Answer(i) \/ Fault(i, TRUE) \/ Fault(i, FALSE) \/ Sample(i) \/ Expand(i) \/ PlanFlow(i)
           \/ FirstTick(i) \/ MapOne(i)
Spec == Init /\ [][Next]_vars

(***************************************************************************)
(* Properties                                                              *)
(***************************************************************************)
\* Whatever the order in which the probes of the flows answer, validate returns
\* the error of the first flow in the configuration that does not pass: every
\* flow before it ran and passed, although flows that start after a failure are
\* skipped.  When all pass the states come back in configuration order
\* (pipeline.rs, validate: "Output ordering is deterministic").
DeterministicVerdict ==
    outcome # None =>
        IF IsOk(outcome[1])
        THEN Len(outcome[1][2]) = Len(assembled) /\ \A i \in 1..Len(assembled) : outcome[1][2][i].idx = i
        ELSE \A i \in 1..(outcome[1][2].idx - 1) : \E k \in 1..Len(results) : results[k].idx = i
\* The first tick derives the plan that validation checked, as long as the
\* schemas are the same and a sample saw at least one field (flow_state.rs,
\* build_conversions: "a rebuild produces the same plans the pipeline did").
\* A flow with `validation.fields = false` is exempt: validation gives it plans
\* that convert nothing (passthrough_plans), and its first tick others.
Informed(f) == ~f.source.schemaless \/ f.source.schema.fields # <<>>
RebuildKeepsPlan ==
    \A i \in 1..Len(live) :
        live[i] # None /\ assembled[i].fields /\ Informed(assembled[i]) => live[i][1] = Ok(flow[i].derived[1])
\* Every op of a mapped row sees the row as it was read: moving a value out of
\* its slot at the last reference takes it from no other column, and no
\* invariant of the plan breaks at run time (transform.rs, apply).
MovesTakeNothing ==
    fed # None =>
        LET f == assembled[fed[1].idx]
            plan == live[fed[1].idx][1][2]
            cells == Cells(plan, f.source.schema, fed[1].row)
            body == BodyFor(f, plan, cells, fed[1].row)
            row == [values |-> cells, body |-> body[2]]
        IN  /\ fed[1].cells # Invariant
            /\ IsOk(body) => \A c \in 1..Len(plan.transform.cols) :
                   Seen(plan.transform, row)[c] = EvalLeaf(plan.transform, Leaf(plan.transform.cols[c]), row)
\* Between typed sides a validated flow writes no NULL to a column that refuses
\* it; a computed column is not held to this (checks.rs, check_mapping;
\* flow_state.rs, SwitchMissingDefaultForNotNullSink).
NotNullKept ==
    fed # None /\ IsOk(fed[1].cells) =>
        LET f == assembled[fed[1].idx]
            plan == live[fed[1].idx][1][2]
            direct == flow[fed[1].idx].expanded[1].direct
            to(c) == find(f.sink.schema, plan.write_columns[c])
            computed(c) == c <= Len(direct) /\ direct[c].compute # None
        IN  f.fields /\ ~f.source.schemaless /\ ~f.sink.schemaless =>
                \A c \in 1..Len(fed[1].cells[2]) :
                    to(c)[1].nullable \/ computed(c) \/ fed[1].cells[2][c] # Null
\* The files and documents that make up a configuration: those of the root and
\* of its includes, each real file once.
Visited(fs) ==
    LET root_docs == fs.files[canonicalize(fs, fs.root)].docs
        included == UNION {UNION {Range(ConfigFiles(fs, root_docs[d].include[i].path)) : i \in 1..Len(root_docs[d].include)} :
                               d \in 1..Len(root_docs)}
    IN  {canonicalize(fs, p) : p \in included \cup {fs.root}} \cap DOMAIN fs.files
Documents_of(fs) == UNION {{<<p, d>> : d \in 1..Len(fs.files[p].docs)} : p \in Visited(fs)}
Defined(doc, kind) ==
    CASE kind \in {"sources", "sinks", "storages"} -> {<<i, doc[kind][i].name>> : i \in 1..Len(doc[kind])}
      [] kind \in {"flow", "secrets"} -> {<<0, n>> : n \in DOMAIN doc[kind]}
      [] kind = "prometheus" -> {<<0, i>> : i \in 1..Len(doc[kind])}
Definitions(fs, kind) ==
    UNION {{<<x, def>> : def \in Defined(fs.files[x[1]].docs[x[2]], kind)} : x \in Documents_of(fs)}
InTomlRoot(fs, x) == x[1][1] = canonicalize(fs, fs.root) /\ fs.files[x[1][1]].format = "toml"
DefinedTwice(fs, kind) ==
    \E x, y \in Definitions(fs, kind) :
        x # y /\ x[2][2] = y[2][2] /\ ~(InTomlRoot(fs, x) /\ InTomlRoot(fs, y))
\* A configuration that loads defines no source, sink, storage, flow, secret or
\* Prometheus section twice, whatever files and documents it is spread over
\* (the list of a TOML root itself is not looked at); and a file that is reached
\* by several includes, directories or links counts once, so that a duplicate is
\* reported only when there are two definitions (loader.rs, merge_extra_into and
\* PathCycleDetector: "each real file at most once").
OneDefinition ==
    started > 0 \/
    IF IsOk(root)
    THEN \A kind \in {"sources", "sinks", "storages", "flow", "secrets", "prometheus"} : ~DefinedTwice(files, kind)
    ELSE root[2] \in {"DuplicateFlow", "DuplicateName", "DuplicateSecret", "prometheus declared twice"} =>
             \E kind \in {"sources", "sinks", "storages", "flow", "secrets", "prometheus"} : DefinedTwice(files, kind)
\* Every text in the settings of a component that is an expression is evaluated
\* exactly once, what it gives is not evaluated again, and nothing else changes but
\* references, in TOML and in YAML files alike (loader.rs, parse_and_patch;
\* patcher.rs, walk_table and patch_subtree).  Whether a text is an expression is
\* decided after references are expanded: a secret that looks like one is
\* evaluated, and a `$${K}` that was written to stand for itself is interpolated.
\* Loading fails on an expression only if one of them fails.
RECURSIVE Leaves(_)
Leaves(t) ==
    IF t[1] \notin {"table", "array"} THEN {<<<<>>, t>>}
    ELSE UNION {{<<<<i>> \o leaf[1], leaf[2]>> : leaf \in Leaves(Subtrees(t)[i])} : i \in 1..Len(Subtrees(t))}
SecretsOfRoot(fs) == extract_secrets(fs.files[canonicalize(fs, fs.root)])[2]
\* The leaves of t whose references resolve, expanded.
ExpandedLeaves(t, fs) ==
    LET Resolve(x) == ExpandTree(x, fs.env, SecretsOfRoot(fs))
    IN  {<<leaf[1], Resolve(leaf[2])[2]>> : leaf \in {l \in Leaves(t) : IsOk(Resolve(l[2]))}}
EvaluatedOnce(t, fs) ==
    UNION {IF is_expr(leaf[2]) THEN {<<leaf[1] \o l[1], l[2]>> : l \in Leaves(Evaluated[Words(leaf[2])][2])} ELSE {leaf} :
               leaf \in ExpandedLeaves(t, fs)}
ConfigsOf(fs) ==
    UNION {{[kind |-> kind, name |-> fs.files[x[1]].docs[x[2]][kind][i].name, config |-> fs.files[x[1]].docs[x[2]][kind][i].config] :
                i \in 1..Len(fs.files[x[1]].docs[x[2]][kind])} : x \in Documents_of(fs), kind \in {"sources", "sinks", "storages"}}
ScriptsEvaluatedOnce ==
    started > 0 \/
    IF IsOk(root)
    THEN \A c \in ConfigsOf(files) :
             \E k \in 1..Len(root[2][c.kind]) :
                 root[2][c.kind][k].name = c.name /\ Leaves(root[2][c.kind][k].config) = EvaluatedOnce(c.config, files)
    ELSE root[2] = "EvalError" =>
             \E c \in ConfigsOf(files) : \E leaf \in ExpandedLeaves(c.config, files) :
                 is_expr(leaf[2]) /\ Evaluated[Words(leaf[2])] = root
\* A flow that passes reads its cursor columns, writes its key columns and binds
\* no more cells than a statement takes, whether the loader checked it or left
\* it to the expansion of a wildcard, and with schemas or without (loader.rs,
\* validate_post_merge; pipeline.rs, validate_flow).
SubsetsHold ==
    \A k \in 1..Len(results) :
        LET f == assembled[results[k].idx]
            plan == results[k].derived
        IN  /\ Range(f.cursor_fields) \subseteq Range(plan.read_columns)
            /\ f.conflict # None => Range(f.conflict[1]) \subseteq Range(plan.write_columns)
            /\ f.limit * Len(plan.write_columns) <= MaxCells

\* A configuration that loads was read whole and once: every definition is
\* there under one name, and every script of its settings was evaluated once.
LoadedFaithfully == OneDefinition /\ ScriptsEvaluatedOnce

\* What validation established of a flow holds when the flow runs: the verdict
\* does not depend on the order of the probes, the plan is the one that was
\* checked, its columns cover cursor and key, and the rows mapped by it lose no
\* value and bring no NULL where the sink refuses it.
ValidatedHolds ==
    /\ DeterministicVerdict /\ RebuildKeepsPlan /\ SubsetsHold
    /\ MovesTakeNothing /\ NotNullKept
=============================================================================
