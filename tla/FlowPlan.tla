------------------------------ MODULE FlowPlan -------------------------------
(* crates/core/src/model/flow_state.rs and crates/core/src/validation: what a *)
(* flow derives from its rules and the schemas of its two sides, and the      *)
(* checks that come before it runs.                                           *)
(*                                                                            *)
(* An assembled flow is [name, source, sink, rules, cursor_fields, conflict,  *)
(* limit, ...]; its connectors are records of what they advertise.            *)
EXTENDS Transform

CONSTANT MaxCells  \* 60000: the most cells of a batch

(***************************************************************************)
(* Conversion plans                                                        *)
(***************************************************************************)
resolve_default_literal(literal, sink_dt) == AndThen(literal, LAMBDA v : ensure_sink_compatible(v, sink_dt))
\* The default of a column, in its type: an option inside a result.
ParsedDefault(r) == IF IsOk(r) THEN Ok(Some(r[2])) ELSE Err("DefaultEval")
DefaultFor(d, sink_dt) ==
    IF d.default = None THEN Ok(None) ELSE ParsedDefault(resolve_default_literal(d.default[1], sink_dt))
TypeOr(field, t) == IF field = None THEN t ELSE field[1].type
SourceType(flow, field, sink_dt) == IF flow.source.schemaless THEN None ELSE Some(TypeOr(field, sink_dt))
\* A column's plan, how its script lowers, and the script itself.
ColumnPlan(plan, lowering, scripts) == [plan |-> plan, lowering |-> lowering, scripts |-> scripts]

SwitchFor(flow, d, field, sink_dt) ==
    IF d.switch = None THEN Ok(None)
    ELSE AndThen(compile_switch(d.switch[1], d.default, TypeOr(field, sink_dt), sink_dt, flow.sink.schemaless),
                 LAMBDA table : Ok(Some(table)))
DirectPlan(flow, d, field, sink_dt, default) ==
    AndThen(SwitchFor(flow, d, field, sink_dt), LAMBDA table :
    AndThen(IF d.switch # None THEN Ok(None) ELSE default, LAMBDA o :
            Ok(ColumnPlan(Plan(SourceType(flow, field, sink_dt), sink_dt, d.truncate, o, table), NoLowering, <<>>))))
\* A typed source must know the column; a sampled one may not.
build_direct(flow, d, src, field, target, default) ==
    IF ~flow.source.schemaless /\ src = None THEN Err("AccessFailed")
    ELSE IF ~flow.source.schemaless /\ field = None THEN Err("MissingField")
    ELSE IF target = None THEN Err("MissingField")
    ELSE IF d.default # None /\ d.switch = None /\ ~flow.source.schemaless /\ ~field[1].nullable
         THEN Err("DefaultOnNotNullSource")
    ELSE IF d.switch # None /\ d.default = None /\ ~flow.sink.schemaless /\ ~target[1].nullable
         THEN Err("SwitchMissingDefaultForNotNullSink")
    ELSE DirectPlan(flow, d, field, target[1].type, default)

\* A constant is brought to the column's type once, here.
ConstValue(d, v, sink, default) ==
    IF sink = None THEN Ok(v)
    ELSE IF v = Null THEN AndThen(default, LAMBDA o : Ok(OrElse(o, Null)))
    ELSE coerce(v, sink[1], d.truncate)
ConstOutput(v, sink) == IF sink # None THEN sink[1] ELSE IF v = Null THEN <<"Json">> ELSE data_type(v)
ConstColumn(p, v, output) ==
    Ok(ColumnPlan(identity(output), [form |-> "Const", value |-> v, output |-> output], <<p>>))
\* field("c") is lowered as a column of that name would be.
build_identity_compute_plan(flow, d, p, field, sink_dt, default) ==
    AndThen(default, LAMBDA o :
        Ok(ColumnPlan(Plan(SourceType(flow, field, sink_dt), sink_dt, d.truncate, o, None),
                      [form |-> "Identity", column |-> p.needs[1]], <<p>>)))
ComputeColumn(d, p, sink, default) ==
    IF sink = None
    THEN Ok(ColumnPlan(identity(<<"Json">>), [form |-> "Compute", program |-> p, wrap |-> FALSE], <<p>>))
    ELSE AndThen(default, LAMBDA o :
                 Ok(ColumnPlan(Plan(None, sink[1], d.truncate, o, None),
                               [form |-> "Compute", program |-> p, wrap |-> TRUE], <<p>>)))
Lowered(flow, d, p, field, sink, sink_dt, default) ==
    CASE p.form = "const" ->
            AndThen(ConstValue(d, p.value, sink, default), LAMBDA v : ConstColumn(p, v, ConstOutput(v, sink)))
      [] p.form = "identity" -> build_identity_compute_plan(flow, d, p, field, sink_dt, default)
      [] OTHER -> ComputeColumn(d, p, sink, default)
CompileColumn(flow, d, src, field, sink, sink_dt, default) ==
    AndThen(compile_runtime(d.compute[1], IF flow.source.schemaless THEN None ELSE src,
                            IF sink = None THEN None ELSE Some([type |-> sink[1], truncate |-> d.truncate])),
            LAMBDA p : Lowered(flow, d, p, field, sink, sink_dt, default))
build_compute_lowering(flow, d, src, field, target, sink_dt, default) ==
    IF ~flow.sink.schemaless /\ target = None THEN Err("MissingField")
    ELSE CompileColumn(flow, d, src, field, IF flow.sink.schemaless THEN None ELSE Some(sink_dt), sink_dt, default)
\* The column a rule reads: its own, or the one its script hands on.
Origin(d) == IF d.compute # None /\ d.compute[1].needs # <<>> THEN d.compute[1].needs[1] ELSE d.from
TargetType(flow, d, field, target) ==
    IF target # None /\ (d.compute = None \/ ~flow.sink.schemaless) THEN target[1].type ELSE TypeOr(field, <<"Json">>)
BuildColumn(flow, d, src, field, target, sink_dt, default) ==
    IF d.compute # None THEN build_compute_lowering(flow, d, src, field, target, sink_dt, default)
    ELSE build_direct(flow, d, src, field, target, default)
BuildTyped(flow, d, src, field, target, sink_dt) ==
    BuildColumn(flow, d, src, field, target, sink_dt, DefaultFor(d, sink_dt))
BuildFor(flow, d, src, field, target) == BuildTyped(flow, d, src, field, target, TargetType(flow, d, field, target))
build_conversions(flow, x, src, dst) ==
    Collect([i \in 1..Len(x.direct) |->
                BuildFor(flow, x.direct[i], src, FindIn(src, Origin(x.direct[i])), FindIn(dst, x.direct[i].to))])
build_body_conversions(flow, x, dst, dst_schemaless) ==
    Collect([i \in 1..Len(BodyTargets(x)) |->
        LET target == FindIn(dst, BodyTargets(x)[i])
            plan(t) == Ok(Plan(Some(flow.source.body_type), t, FALSE, None, None))
        IN  IF target # None THEN plan(target[1].type)
            ELSE IF dst_schemaless THEN plan(flow.source.body_type) ELSE Err("MissingField")])

(***************************************************************************)
(* Derived plans                                                           *)
(***************************************************************************)
\* The shape of a schemaless sink is that of the source columns written to it.
derive_schemaless_sink_schema(src, x) ==
    LET known == SelectSeq(x.direct, LAMBDA d : find(src, d.from) # None)
    IN  FixedSchema([i \in 1..Len(known) |-> Field(known[i].to, find(src, known[i].from)[1].type, TRUE)])
build_read_schema(columns, src) ==
    FixedSchema([i \in 1..Len(columns) |->
        LET f == FindIn(src, columns[i])
        IN  IF f # None THEN f[1] ELSE Field(columns[i], <<"Json">>, TRUE)])
Scripts(built) == FoldLeft(LAMBDA acc, b : acc \o b.scripts, <<>>, built)
ScriptColumns(built) == FoldLeft(LAMBDA acc, p : acc \o p.needs, <<>>, Scripts(built))
\* The projection: mapped columns, the columns of scripts, all of them for fields("*").
Projection(x, built, src) ==
    FoldLeft(AddNew, read_columns(x),
             ScriptColumns(built)
             \o IF src # None /\ \E i \in 1..Len(Scripts(built)) : reads_all_columns(Scripts(built)[i])
                THEN FieldNames(src[1]) ELSE <<>>)
Specs(flow, x, columns, transform) ==
    [read_columns |-> columns, cursor_fields |-> flow.cursor_fields, needs_body |-> x.body # None,
     write_columns |-> write_columns(x), conflict |-> flow.conflict, transform |-> transform]
Assemble(flow, x, src, built, body_plans, columns) ==
    AndThen(compile_to_transform(x, flow.source.body_type, [i \in 1..Len(built) |-> built[i].plan], body_plans, columns,
                flow.source.schemaless, [i \in 1..Len(built) |-> built[i].lowering],
                IF \E i \in 1..Len(built) : built[i].lowering.form = "Compute"
                THEN Some(build_read_schema(columns, src)) ELSE None),
            LAMBDA t : Ok(Specs(flow, x, columns, t)))
EffectiveSink(x, src, dst, dst_schemaless) ==
    IF dst = None /\ dst_schemaless /\ src # None THEN Some(derive_schemaless_sink_schema(src[1], x)) ELSE dst
DerivedFrom(flow, x, src, dst, dst_schemaless) ==
    AndThen(build_conversions(flow, x, src, dst), LAMBDA built :
    AndThen(build_body_conversions(flow, x, dst, dst_schemaless), LAMBDA body_plans :
            Assemble(flow, x, src, built, body_plans, Projection(x, built, src))))
build_derived_plans_from_expanded(flow, x, src, dst, dst_schemaless) ==
    DerivedFrom(flow, x, src, EffectiveSink(x, src, dst, dst_schemaless), dst_schemaless)
build_derived_plans(flow, src, dst) ==
    AndThen(expand(flow.rules, src, dst, flow.source.schemaless, flow.sink.schemaless), LAMBDA x :
            build_derived_plans_from_expanded(flow, x, schema_with_fields(src), schema_with_fields(dst), is_schemaless(dst)))
\* ensure_built: the schemas the contexts hold; an empty sample is no schema.
CtxSchema(schemaless, s) ==
    IF ~schemaless THEN s ELSE IF s.fields = <<>> THEN Schemaless ELSE SchemalessWithSample(s.fields)
rebuild_derived(flow, src, dst) ==
    build_derived_plans(flow, CtxSchema(flow.source.schemaless, src), CtxSchema(flow.sink.schemaless, dst))
\* Without schemas every column is carried as JSON.
passthrough_plans(direct) ==
    Collect([i \in 1..Len(direct) |->
        IF direct[i].compute # None THEN Err("ComputeRequiresFields")
        ELSE IF direct[i].default # None THEN Err("DefaultRequiresFields")
        ELSE Checked(direct[i].switch # None, "SwitchRequiresFields", Ok(identity(<<"Json">>)))])
PassthroughPlan(flow, x) ==
    AndThen(passthrough_plans(x.direct), LAMBDA plans :
    AndThen(compile_to_transform(x, flow.source.body_type, plans, <<>>, read_columns(x), flow.source.schemaless, <<>>, None),
            LAMBDA t : Ok(Specs(flow, x, read_columns(x), t))))

(***************************************************************************)
(* Checks                                                                  *)
(***************************************************************************)
MappingFault(d, src, dst) ==
    LET from == find(src, d.from)
        to == find(dst, d.to)
    IN  IF d.compute # None THEN Ok(d)
        ELSE IF from = None \/ to = None THEN Err("MissingField")
        ELSE IF from[1].nullable /\ ~to[1].nullable /\ d.default = None THEN Err("NullabilityMismatch")
        ELSE Checked(/\ from[1].type[1] \in FloatTags /\ to[1].type[1] = "Bool" /\ d.truncate
                     /\ ~to[1].nullable /\ d.default = None, "LossyConversionRequiresNullableOrDefault", Ok(d))
check_mapping(src, dst, direct) == Collect([i \in 1..Len(direct) |-> MappingFault(direct[i], src, dst)])
check_mapping_sources_exist(src, direct) ==
    Checked(\E i \in 1..Len(direct) : direct[i].compute = None /\ find(src, direct[i].from) = None,
            "MissingField", Ok(direct))
check_cursor(src, fields) == Checked(\E i \in 1..Len(fields) : find(src, fields[i]) = None, "MissingCursorField", Ok(fields))
CursorTypes(src, fields) ==
    Checked(\E i \in 1..Len(fields) : ~cursor_compatible(find(src, fields[i])[1].type), "CursorTypeUnsupported", Ok(fields))
BodyFits(flow, x, dst) ==
    Collect([i \in 1..Len(BodyTargets(x)) |->
        LET f == find(dst, BodyTargets(x)[i])
        IN  IF f = None THEN Err("MissingField")
            ELSE Checked(~is_compatible(flow.source.body_type, f[1].type), "IncompatibleTypes", Ok(f))])
CompatibleColumn(t, c, type, dst, name) ==
    LET f == find(dst, name)
    IN  IF f = None THEN Err("MissingField")
        ELSE Checked(~Fits(type, f[1].type, truncate_flag(t.cols[c])), "IncompatibleTypes", Ok(f))
\* CompatibilityValidator: each op's output against the column it feeds.
validate_types(flow, t, src, dst, columns) ==
    AndThen(resolve_types(t, src, flow.source.body_type), LAMBDA types :
        IF flow.sink.schemaless THEN Ok(types)
        ELSE IF Len(types) # Len(columns) THEN Invariant
        ELSE Collect([c \in 1..Len(types) |-> CompatibleColumn(t, c, types[c], dst, columns[c])]))

\* A conflict key must be written; a cursor column must be read by a mapping.
is_root_passthrough(x) == x.direct = <<>> /\ BodyTargets(x) = <<ROOT_BODY_TARGET>>
RootChecks(flow, x) ==
    IF ~is_root_passthrough(x) THEN Ok(x)
    ELSE IF flow.cursor_fields # <<>> THEN Err("CursorRequiresExplicitFields")
    ELSE Checked(flow.conflict # None /\ flow.conflict[1] # <<>>, "ConflictKeyNotInMapping", Ok(x))
SubsetChecks(flow, x) ==
    IF \E i \in 1..Len(flow.cursor_fields) : \A j \in 1..Len(x.direct) : x.direct[j].from # flow.cursor_fields[i]
    THEN Err("MissingCursorField")
    ELSE Checked(flow.conflict # None /\ ~(Range(flow.conflict[1]) \subseteq Range(write_columns(x))),
                 "ConflictKeyNotInMapping", Ok(x))
SideChecks(flow, x, src, dst) ==
    IF ~flow.sink.schemaless /\ ~flow.source.schemaless THEN check_mapping(src, dst, x.direct)
    ELSE IF flow.source.schemaless /\ src.fields # <<>> THEN check_mapping_sources_exist(src, x.direct)
    ELSE Ok(x)
MappingChecks(flow, x, src, dst) ==
    IF is_root_passthrough(x) THEN Ok(x)
    ELSE AndThen(SideChecks(flow, x, src, dst), LAMBDA a :
         AndThen(IF flow.sink.schemaless THEN Ok(x) ELSE BodyFits(flow, x, dst), LAMBDA b : SubsetChecks(flow, x)))
\* With schemas: the checks, the plan, and the types of its columns.
FieldsPlan(flow, x, src, dst) ==
    AndThen(check_cursor(src, flow.cursor_fields), LAMBDA a :
    AndThen(CursorTypes(src, flow.cursor_fields), LAMBDA b :
    AndThen(MappingChecks(flow, x, src, dst), LAMBDA c :
    AndThen(Checked(flow.limit * Len(write_columns(x)) > MaxCells, "AccessFailed", Ok(x)), LAMBDA d :
    AndThen(build_derived_plans_from_expanded(flow, x, Some(src), IF flow.sink.schemaless THEN None ELSE Some(dst),
                                              flow.sink.schemaless), LAMBDA plans :
    AndThen(validate_types(flow, plans.transform, src, dst, write_columns(x)), LAMBDA e : Ok(plans)))))))
=============================================================================
