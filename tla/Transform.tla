----------------------------- MODULE Transform ------------------------------
(* crates/core/src/mapping and crates/types/src/schema.rs: the `[mapping]`    *)
(* and `[compute-mapping]` tables of a flow, normalised into rules and        *)
(* expanded against the schemas of the two sides.                             *)
(*                                                                            *)
(* A text that names a column is the sequence of its dotted segments; a       *)
(* segment " " stands for white space.  A script is a record (FlowPlan), the  *)
(* blank one is <<>>.  An option is <<>> or <<x>>.                            *)
EXTENDS Conversion

CONSTANTS
    Identifiers,            \* the segments that are bare identifiers
    WILDCARD_UNIVERSE_CAP   \* the most columns a mapping may expand to

None == <<>>
Some(x) == <<x>>
OrElse(o, x) == IF o = None THEN x ELSE o[1]
AndThen(r, F(_)) == IF IsOk(r) THEN F(r[2]) ELSE r
\* The result r, unless the check failed.
Checked(bad, error, r) == IF bad THEN Err(error) ELSE r

(***************************************************************************)
(* Schemas                                                                 *)
(***************************************************************************)
Field(name, type, nullable) == [name |-> name, type |-> type, nullable |-> nullable]
FixedSchema(fields) == [kind |-> "Fixed", fields |-> fields]
Schemaless == [kind |-> "Schemaless", fields |-> <<>>]
SchemalessWithSample(fields) == [kind |-> "SchemalessWithSample", fields |-> fields]
is_schemaless(s) == s.kind # "Fixed"
\* The index keeps the last of several fields of one name; 0 is no field.
index_of(s, name) == Max({0} \cup {i \in 1..Len(s.fields) : s.fields[i].name = name})
FieldAt(s, i) == IF i = 0 THEN None ELSE Some(s.fields[i])
find(s, name) == FieldAt(s, index_of(s, name))
\* Look a name up in a schema that may be unknown.
FindIn(o, name) == IF o = None THEN None ELSE find(o[1], name)
schema_with_fields(s) == IF s.kind = "Schemaless" THEN None ELSE Some(s)

(***************************************************************************)
(* Rules                                                                   *)
(***************************************************************************)
WILDCARD_MARKER == <<"*">>
HasSpace(text) == \E i \in 1..Len(text) : text[i] = " "
Direct(from, to, truncate, default, switch, compute) ==
    [rule |-> "Direct", from |-> from, to |-> to, truncate |-> truncate, default |-> default,
     switch |-> switch, compute |-> compute]
Wildcard == [rule |-> "Wildcard"]
BodyPack(to) == [rule |-> "Body", to |-> to]

validate_key(key) == key # <<>> /\ ~HasSpace(key)
normalise_short(key, rhs) ==
    IF rhs = <<>> \/ HasSpace(rhs) THEN Err("Value")
    ELSE IF key = WILDCARD_MARKER
         THEN IF rhs = WILDCARD_MARKER THEN Ok(Wildcard) ELSE Err("WildcardValue")
         ELSE IF rhs = WILDCARD_MARKER THEN Ok(BodyPack(key))
         ELSE Ok(Direct(rhs, key, FALSE, None, None, None))
\* A full entry is [from, truncate, default, switch, compute].
normalise_full(key, e) ==
    IF key = WILDCARD_MARKER THEN Err("WildcardEntry")
    ELSE IF e.compute # None
         THEN Checked(e.from # <<>> \/ e.switch # None \/ e.compute[1] = <<>>, "Compute",
                      Ok(Direct(<<>>, key, e.truncate, e.default, None, e.compute)))
    ELSE Checked(e.from \in {<<>>, WILDCARD_MARKER} \/ e.switch = Some(<<>>), "Entry",
                 Ok(Direct(e.from, key, e.truncate, e.default, e.switch, None)))
normalise_entry(key, rhs) == IF rhs[1] = "Short" THEN normalise_short(key, rhs[2]) ELSE normalise_full(key, rhs[2])

\* Two wildcards, or a wildcard next to a body, are refused at the later one.
Exclusive(r, earlier) ==
    Checked(IsOk(r) /\ \/ r[2].rule = "Wildcard" /\ earlier \cap {"Wildcard", "Body"} # {}
                       \/ r[2].rule = "Body" /\ "Wildcard" \in earlier, "Wildcards", r)
MainRule(entry) == Checked(~validate_key(entry[1]), "Key", normalise_entry(entry[1], entry[2]))
RuleKinds(rs) == {rs[j][2].rule : j \in {i \in 1..Len(rs) : IsOk(rs[i])}}
MainRules(rs) == [i \in 1..Len(rs) |-> Exclusive(rs[i], RuleKinds(SubSeq(rs, 1, i - 1)))]
ComputeRule(entry, mainKeys) ==
    Checked(\/ ~validate_key(entry[1]) \/ entry[1] = WILDCARD_MARKER
            \/ entry[1] \in mainKeys \/ entry[2][1] # "Short" \/ entry[2][2] = <<>>, "ComputeMapping",
            Ok(Direct(<<>>, entry[1], FALSE, None, None, Some(entry[2][2]))))
Keys(table) == {table[i][1] : i \in 1..Len(table)}
build(flow) ==
    IF flow.mapping = <<>> /\ flow.compute_mapping = <<>> THEN Err("EmptyMapping")
    ELSE Collect(MainRules([i \in 1..Len(flow.mapping) |-> MainRule(flow.mapping[i])])
                 \o [i \in 1..Len(flow.compute_mapping) |->
                        ComputeRule(flow.compute_mapping[i], Keys(flow.mapping))])

(***************************************************************************)
(* Expansion                                                               *)
(***************************************************************************)
validate_segment(seg) == seg \in Identifiers
FieldPath(raw) == Checked(raw = <<>> \/ \E i \in 1..Len(raw) : ~validate_segment(raw[i]), "InvalidFieldPath", Ok(raw))
is_nested(path) == Len(path) > 1
is_prefix_or_equal(a, b) == IsPrefix(a, b)
Overlap(a, b) ==
    \/ a = b
    \/ (is_nested(a) \/ is_nested(b)) /\ (is_prefix_or_equal(a, b) \/ is_prefix_or_equal(b, a))
check_sink_uniqueness(columns) ==
    AndThen(Collect([i \in 1..Len(columns) |-> FieldPath(columns[i])]),
            LAMBDA paths : Checked(\E i \in 1..Len(paths) : \E j \in 1..(i - 1) : Overlap(paths[j], paths[i]),
                                   "DuplicateSinkField", Ok(paths)))

HasRule(rules, kind) == \E i \in 1..Len(rules) : rules[i].rule = kind
SelectRules(rules, kind) == SelectSeq(rules, LAMBDA r : r.rule = kind)
\* The rule for a column takes the slot of the same target, or a new one.
Override(direct, rule) ==
    LET at == {i \in 1..Len(direct) : direct[i].to = rule.to}
    IN  IF at = {} THEN Append(direct, rule) ELSE [direct EXCEPT ![Min(at)] = rule]
AddNew(seq, x) == IF x \in Range(seq) THEN seq ELSE Append(seq, x)
FieldNames(s) == [i \in 1..Len(s.fields) |-> s.fields[i].name]
FromColumns(direct) == LET read == SelectSeq(direct, LAMBDA d : d.compute = None)
                       IN  [i \in 1..Len(read) |-> read[i].from]

\* A sink column without a source column of its name is left out, or refused
\* when it must have a value.
Lacks(f, src) == src # None /\ find(src[1], f.name) = None
FanOut(universe, src) ==
    IF Len(universe.fields) > WILDCARD_UNIVERSE_CAP THEN Err("WildcardUniverseTooLarge")
    ELSE IF \E i \in 1..Len(universe.fields) : Lacks(universe.fields[i], src) /\ ~universe.fields[i].nullable
         THEN Err("WildcardMissingNonNullableSource")
    ELSE LET fields == SelectSeq(universe.fields, LAMBDA f : ~Lacks(f, src))
         IN  Ok([i \in 1..Len(fields) |-> Direct(fields[i].name, fields[i].name, FALSE, None, None, None)])
WildcardColumns(rules, src, dst) ==
    IF ~HasRule(rules, "Wildcard") THEN Ok(<<>>)
    ELSE IF dst # None THEN FanOut(dst[1], src)
    ELSE IF src # None THEN FanOut(src[1], None)
    ELSE Err("WildcardWithoutSchema")
BodyOf(rules, direct, src) ==
    LET packs == SelectRules(rules, "Body")
    IN  IF packs = <<>> THEN Ok(None)
        ELSE IF src = None THEN Err("WildcardWithoutSchema")
        ELSE Ok(Some([source_columns |-> FoldLeft(AddNew, <<>>, FromColumns(direct) \o FieldNames(src[1])),
                      targets |-> [i \in 1..Len(packs) |-> packs[i].to]]))
BodyTargets(x) == IF x.body = None THEN <<>> ELSE x.body[1].targets
write_columns(x) == [i \in 1..Len(x.direct) |-> x.direct[i].to] \o BodyTargets(x)
\* Columns are read once per direct column, and the rest of a body once each.
read_columns(x) ==
    FromColumns(x.direct)
    \o IF x.body = None THEN <<>>
       ELSE SelectSeq(x.body[1].source_columns, LAMBDA c : c \notin Range(FromColumns(x.direct)))
Finished(x) ==
    IF Len(write_columns(x)) > WILDCARD_UNIVERSE_CAP THEN Err("WildcardUniverseTooLarge")
    ELSE AndThen(check_sink_uniqueness(write_columns(x)), LAMBDA ps : Ok(x))

ROOT_BODY_TARGET == <<"_root">>
RootPassthrough == [direct |-> <<>>, body |-> Some([source_columns |-> <<>>, targets |-> <<ROOT_BODY_TARGET>>])]
ExpandColumns(rules, src, dst) ==
    AndThen(WildcardColumns(rules, src, dst),
      LAMBDA fanned : LET direct == FoldLeft(Override, fanned, SelectRules(rules, "Direct")) IN
        AndThen(BodyOf(rules, direct, src), LAMBDA body : Finished([direct |-> direct, body |-> body])))
expand(rules, src, dst, source_schemaless, sink_schemaless) ==
    IF Len(rules) = 1 /\ HasRule(rules, "Wildcard") /\ source_schemaless /\ sink_schemaless THEN Ok(RootPassthrough)
    ELSE ExpandColumns(rules, schema_with_fields(src), schema_with_fields(dst))

-----------------------------------------------------------------------------
(* crates/core/src/transform: the per-row program of a flow.  Each sink       *)
(* column is one op; the last op that reads a slot of the row moves the value *)
(* out of it.  switch.rs builds the lookup tables, compile.rs the ops.        *)
(*                                                                            *)
(* A script (crates/expr/runtime/src/program.rs, compiled and checked by the  *)
(* Expr modules) is [form, needs, names, value]: "const" folded to a value,   *)
(* "identity" is field("c"), "increment" is field("c") + 1, "pack" is         *)
(* fields("a,b"), "star" is fields("*"), "broken" does not compile.           *)

(***************************************************************************)
(* Scripts                                                                 *)
(***************************************************************************)
reads_all_columns(p) == p.form = "star"
SmallestInt(n) == CHOOSE t \in {"Int8", "Int16", "Int32", "Int64"} :
                      InRange(t, n) /\ \A u \in {"Int8", "Int16", "Int32", "Int64"} :
                                           InRange(u, n) => IntBits(t) <= IntBits(u)
ConstType(v) ==
    IF v = Null THEN <<"Bool">> ELSE IF v[1] = "Int64" THEN <<SmallestInt(v[2])>> ELSE data_type(v)
\* What the type checker makes of the result; <<>> when it is not known.
ScriptType(p, schema) ==
    CASE p.form = "const" -> Some(ConstType(p.value))
      [] p.form = "identity" -> LET f == FindIn(schema, p.needs[1]) IN IF f = None THEN None ELSE Some(f[1].type)
      [] p.form = "increment" -> IF schema = None THEN None ELSE Some(<<"Int64">>)
      [] OTHER -> Some(<<"Object">>)
Fits(type, sink, truncate) == IF truncate THEN is_compatible_with_truncate(type, sink) ELSE is_compatible(type, sink)
OutputMatches(type, expected) == type = None \/ expected = None \/ Fits(type[1], expected[1].type, expected[1].truncate)
compile_runtime(p, schema, expected) ==
    IF \/ p.form = "broken"
       \/ schema # None /\ \E i \in 1..Len(p.needs) : find(schema[1], p.needs[i]) = None
       \/ ~OutputMatches(ScriptType(p, schema), expected)
    THEN Err("ComputeCompile") ELSE Ok(p)

ValueAt(row, i) == IF i \in 1..Len(row) THEN row[i] ELSE Null
column(schema, row, name) == ValueAt(row, index_of(schema, name))
Incremented(v) ==
    IF v = Null THEN Ok(Null)
    ELSE IF ~IsInt(v) \/ ~InRange("Int64", v[2] + 1) THEN Err("ComputeEval") ELSE Ok(<<"Int64", v[2] + 1>>)
evaluate_row(p, schema, row) ==
    CASE p.form = "const" -> Ok(p.value)
      [] p.form = "identity" -> Ok(column(schema, row, p.needs[1]))
      [] p.form = "increment" -> Incremented(column(schema, row, p.needs[1]))
      [] p.form = "pack" -> Ok(<<"Object", [i \in 1..Len(p.needs) |-> <<p.needs[i], column(schema, row, p.needs[i])>>]>>)
      [] p.form = "star" -> Ok(<<"Object", [i \in 1..Len(schema.fields) |-> <<schema.fields[i].name, ValueAt(row, i)>>]>>)

(***************************************************************************)
(* Switch tables                                                           *)
(***************************************************************************)
is_switchable_source(t) == t[1] \notin {"Json", "Xml", "Object", "Interval", "Array", "Union", "Custom"}
parse_int_key(key, tag) ==
    LET n == ParseInt(key) IN IF IsOk(n) /\ InRange(tag, n[2]) THEN Ok(<<tag, n[2]>>) ELSE Err("out of range")
\* Keys of floats are whole numbers or halves.
ParseHalves(key) == AndThen(ParseDecimal(key), LAMBDA d : Ok((2 * d[2]) \div (10 ^ d[3])))
HexPrefix == <<104, 101, 120, 58>>
Utf8Prefix == <<117, 116, 102, 56, 58>>
parse_bytes_key(key) ==
    IF IsPrefix(HexPrefix, key)
    THEN LET h == SubSeq(key, 5, Len(key))
         IN  IF \A i \in 1..Len(h) : IsHex(h[i]) THEN Ok(<<"Bytes", FromHex(h)>>) ELSE Err("invalid hex")
    ELSE Ok(<<"Bytes", IF IsPrefix(Utf8Prefix, key) THEN SubSeq(key, 6, Len(key)) ELSE key>>)
parse_key_text(key, t) ==
    CASE t[1] = "Bool" -> IF key = BoolText(TRUE) THEN Ok(<<"Bool", TRUE>>)
                          ELSE IF key = BoolText(FALSE) THEN Ok(<<"Bool", FALSE>>) ELSE Err("expected true/false")
      [] t[1] \in IntTags -> parse_int_key(key, t[1])
      [] t[1] = "Float32" -> AndThen(ParseHalves(key), LAMBDA h : Ok(<<"Float32", ToF32(h)>>))
      [] t[1] = "Float64" -> AndThen(ParseHalves(key), LAMBDA h : Ok(<<"Float64", ToF64(h)>>))
      [] t[1] = "Text" -> Checked(t[2] # NoSize /\ Len(key) > t[2], "exceeds size", Ok(<<"Text", key>>))
      [] t[1] = "Bytes" -> parse_bytes_key(key)
      [] OTHER -> decode(t[1], Str(key))

\* A literal of the configuration is the result of evaluating it.
SwitchValue(literal, sink_dt, schemaless) ==
    AndThen(literal, LAMBDA v : IF schemaless THEN Ok(v) ELSE ensure_sink_compatible(v, sink_dt))
LiteralType(v) == IF v = Null THEN <<"Text", NoSize>> ELSE data_type(v)
SameKey(a, b) == KeyHash(a) = KeyHash(b) /\ KeyEq(a, b)
CaseEntry(case, source_dt, sink_dt, schemaless) ==
    AndThen(parse_key_text(case.key, source_dt), LAMBDA k :
    AndThen(KeyOf(<<k>>), LAMBDA key :
    AndThen(SwitchValue(case.value, sink_dt, schemaless), LAMBDA v : Ok([key |-> key, value |-> v]))))
Repeated(entries) == \E i \in 1..Len(entries) : \E j \in 1..(i - 1) : SameKey(entries[i].key, entries[j].key)
SwitchTable(entries, default, sink_dt, schemaless) ==
    IF Repeated(entries) THEN Err("SwitchDuplicateKey")
    ELSE Ok([cases |-> entries, default |-> default,
             output_type |-> IF ~schemaless THEN sink_dt
                             ELSE LET vs == [i \in 1..Len(entries) |-> entries[i].value] \o default
                                  IN  collapse_union([i \in 1..Len(vs) |-> LiteralType(vs[i])])])
compile_switch(cases, default, source_dt, sink_dt, schemaless) ==
    IF ~is_switchable_source(source_dt) THEN Err("SwitchUnsupportedSource")
    ELSE AndThen(Collect([i \in 1..Len(cases) |-> CaseEntry(cases[i], source_dt, sink_dt, schemaless)]), LAMBDA entries :
         AndThen(Collect([i \in 1..Len(default) |-> SwitchValue(default[i], sink_dt, schemaless)]), LAMBDA d :
                 SwitchTable(entries, d, sink_dt, schemaless)))

(***************************************************************************)
(* Ops                                                                     *)
(***************************************************************************)
\* A ColumnConversionPlan; source is <<>> when each cell shows its own type.
Plan(source, sink, truncate, default, switch) ==
    [source |-> source, sink |-> sink, truncate |-> truncate, default |-> default, switch |-> switch]
identity(t) == Plan(Some(t), t, FALSE, None, None)
is_identity(plan) ==
    /\ plan.source # None /\ TypeEq(plan.source[1], plan.sink)
    /\ ~plan.truncate /\ plan.default = None /\ plan.switch = None
Take(i) == [op |-> "Take", index |-> i]
BodyOp == [op |-> "Body"]
ConvertOp(input, plan) == [op |-> "Convert", input |-> input, plan |-> plan, truncate |-> plan.truncate]
SwitchOp(input, table, truncate) == [op |-> "Switch", input |-> input, table |-> table, truncate |-> truncate]
ConstOp(value, output) == [op |-> "Const", value |-> value, output |-> output]
ComputeOp(p, needed, sink, truncate, default) ==
    [op |-> "Compute", program |-> p, needed |-> needed, sink |-> sink, truncate |-> truncate, default |-> default]
\* A Convert or a Switch wraps one op.
Leaf(o) == IF o.op \in {"Convert", "Switch"} THEN o.input ELSE o

output_type(o, input) ==
    CASE o.op = "Convert" -> Ok(o.plan.sink)
      [] o.op = "Switch" -> Checked(~is_switchable_source(input), "SwitchUnsupportedSource", Ok(o.table.output_type))
      [] OTHER -> Ok(input)
truncate_flag(o) == o.op \in {"Convert", "Switch", "Compute"} /\ o.truncate
LeafType(o, schema, body_type, names) ==
    CASE o.op = "Take" -> LET f == find(schema, names[o.index]) IN IF f = None THEN Err("MissingField") ELSE Ok(f[1].type)
      [] o.op = "Body" -> Ok(body_type)
      [] o.op = "Const" -> Ok(o.output)
      [] o.op = "Compute" -> Ok(OrElse(o.sink, <<"Json">>))
resolve_op(o, schema, body_type, names) ==
    IF o.op = "Convert" /\ o.plan.source = None THEN Ok(o.plan.sink)
    ELSE AndThen(LeafType(Leaf(o), schema, body_type, names), LAMBDA t : output_type(o, t))
resolve_types(t, schema, body_type) ==
    Collect([c \in 1..Len(t.cols) |-> resolve_op(t.cols[c], schema, body_type, t.read_columns)])

References(o) == CASE o.op = "Take" -> {o.index} [] o.op = "Compute" -> Range(o.needed) [] OTHER -> {}
\* Mutant: a script is not counted as a reader of its columns.
TakesOnly(cols, names, schema) ==
    [cols |-> cols, read_columns |-> names, read_schema |-> schema,
     last_take_for |-> [i \in 1..Len(names) |->
                            Max({0} \cup {c \in 1..Len(cols) : Leaf(cols[c]).op = "Take" /\ Leaf(cols[c]).index = i})],
     last_body |-> Max({0} \cup {c \in 1..Len(cols) : Leaf(cols[c]).op = "Body"}),
     is_identity |-> \A c \in 1..Len(cols) : cols[c] = Take(c)]
NewTransform(cols, names, schema) ==
    [cols |-> cols, read_columns |-> names, read_schema |-> schema,
     last_take_for |-> [i \in 1..Len(names) |->
                            Max({0} \cup {c \in 1..Len(cols) : i \in References(Leaf(cols[c]))})],
     last_body |-> Max({0} \cup {c \in 1..Len(cols) : Leaf(cols[c]).op = "Body"}),
     is_identity |-> \A c \in 1..Len(cols) : cols[c] = Take(c)]

(***************************************************************************)
(* Applying the program to a row                                           *)
(***************************************************************************)
Invariant == Err("DerivedPlanInvariant")
\* What an op reads of a row, or of what is left of it.
EvalLeaf(t, o, s) ==
    CASE o.op = "Take" -> IF o.index > Len(s.values) THEN Invariant ELSE Ok(s.values[o.index])
      [] o.op = "Body" -> IF s.body = None THEN Invariant ELSE Ok(s.body[1])
      [] o.op = "Const" -> Ok(o.value)
      [] o.op = "Compute" ->
            IF t.read_schema = None THEN Invariant ELSE evaluate_row(o.program, t.read_schema[1], s.values)
coerce_compute(v, o) ==
    IF v = Null THEN Ok(OrElse(o.default, Null)) ELSE IF o.sink = None THEN Ok(v) ELSE coerce(v, o.sink[1], o.truncate)
ConvertCell(v, plan) ==
    convert(v, IF plan.source # None THEN plan.source[1] ELSE IF v = Null THEN plan.sink ELSE data_type(v),
            plan.sink, [truncate |-> plan.truncate, default |-> OrElse(plan.default, Null)])
Looked(table, key) ==
    LET hit == {i \in 1..Len(table.cases) : SameKey(table.cases[i].key, key)}
    IN  IF hit # {} THEN table.cases[Min(hit)].value ELSE OrElse(table.default, Null)
SwitchCell(v, table) ==
    IF v = Null THEN Ok(OrElse(table.default, Null))
    ELSE LET key == KeyOf(<<v>>) IN IF IsOk(key) THEN Ok(Looked(table, key[2])) ELSE Invariant
EvalOp(o, r) ==
    CASE o.op = "Convert" -> AndThen(r, LAMBDA v : ConvertCell(v, o.plan))
      [] o.op = "Switch" -> AndThen(r, LAMBDA v : SwitchCell(v, o.table))
      [] o.op = "Compute" -> AndThen(r, LAMBDA v : coerce_compute(v, o))
      [] OTHER -> r
\* The last reader of a slot leaves Null in it, the last reader of the body none.
Moved(t, c, o, s) ==
    [values |-> IF o.op = "Take" /\ t.last_take_for[o.index] = c THEN [s.values EXCEPT ![o.index] = Null] ELSE s.values,
     body |-> IF o.op = "Body" /\ t.last_body = c THEN None ELSE s.body]
ReadColumn(t, c, leaf, s, r) ==
    LET m == IF IsOk(r) THEN Moved(t, c, leaf, s) ELSE s
    IN  [values |-> m.values, body |-> m.body, seen |-> Append(s.seen, r)]
ReadNext(t, c, leaf, s) == ReadColumn(t, c, leaf, s, EvalLeaf(t, leaf, s))
\* What each op sees, in the order of the columns.
Seen(t, row) ==
    FoldLeft(LAMBDA s, c : ReadNext(t, c, Leaf(t.cols[c]), s), [values |-> row.values, body |-> row.body, seen |-> <<>>],
             [c \in 1..Len(t.cols) |-> c]).seen
eval_op(t, seen) == Collect([c \in 1..Len(t.cols) |-> EvalOp(t.cols[c], seen[c])])
apply(t, row) == IF t.is_identity /\ row.body = None THEN Ok(row.values) ELSE eval_op(t, Seen(t, row))
\* The body a relational source attaches: one member per column it read.
build_body_json(values, names) ==
    AndThen(Collect([i \in 1..Len(values) |-> value_to_json(values[i])]), LAMBDA js :
            Ok(<<"Json", <<"obj", FoldLeft(AddNew, <<>>, [i \in 1..Len(js) |-> <<names[i], js[i]>>])>>>>))

(***************************************************************************)
(* Compiling the ops                                                       *)
(***************************************************************************)
resolve_source_index(name, names) ==
    LET at == {i \in 1..Len(names) : names[i] = name} IN IF at = {} THEN Invariant ELSE Ok(Min(at))
lower_take(take, plan, source_schemaless) ==
    IF plan.switch # None THEN SwitchOp(take, plan.switch[1], plan.truncate)
    ELSE IF source_schemaless THEN ConvertOp(take, [plan EXCEPT !.source = None])
    ELSE IF is_identity(plan) THEN take ELSE ConvertOp(take, plan)
LowerTake(name, names, plan, source_schemaless) ==
    AndThen(resolve_source_index(name, names), LAMBDA i : Ok(lower_take(Take(i), plan, source_schemaless)))
NeededIndices(p, names) ==
    IF reads_all_columns(p) THEN Ok([i \in 1..Len(names) |-> i])
    ELSE Collect([i \in 1..Len(p.needs) |-> resolve_source_index(p.needs[i], names)])
\* A ComputeLowering is [form, column | value, output | program].
LowerColumn(d, plan, lowering, names, source_schemaless) ==
    CASE lowering.form = "None" -> LowerTake(d.from, names, plan, source_schemaless)
      [] lowering.form = "Const" -> Ok(ConstOp(lowering.value, lowering.output))
      [] lowering.form = "Identity" -> LowerTake(lowering.column, names, plan, source_schemaless)
      [] lowering.form = "Compute" ->
            AndThen(NeededIndices(lowering.program, names), LAMBDA needed :
                    Ok(IF lowering.wrap THEN ComputeOp(lowering.program, needed, Some(plan.sink), plan.truncate, plan.default)
                       ELSE ComputeOp(lowering.program, needed, None, FALSE, None)))
BodyColumn(plan) == IF is_identity(plan) THEN BodyOp ELSE ConvertOp(BodyOp, plan)
NoLowering == [form |-> "None"]
LoweringAt(lowerings, i) == IF i <= Len(lowerings) THEN lowerings[i] ELSE NoLowering
compile_to_transform(x, body_type, plans, body_plans, names, source_schemaless, lowerings, read_schema) ==
    IF Len(plans) # Len(x.direct) \/ Len(body_plans) # Len(BodyTargets(x)) THEN Invariant
    ELSE IF BodyTargets(x) # <<>> /\ ~is_object(body_type) THEN Invariant
    ELSE AndThen(Collect([i \in 1..Len(plans) |->
                             LowerColumn(x.direct[i], plans[i], LoweringAt(lowerings, i), names, source_schemaless)]),
           LAMBDA cols : Ok(NewTransform(cols \o [j \in 1..Len(body_plans) |-> BodyColumn(body_plans[j])], names, read_schema)))
=============================================================================
