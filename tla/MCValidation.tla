---------------------------- MODULE MCValidation -----------------------------
(* Small configurations for Validation: every pair of typed and schemaless    *)
(* sides under a table of mappings, one flow at a time, and three flows that  *)
(* share their components.                                                    *)
EXTENDS Validation

id == <<"id">>
a == <<"a">>
b == <<"b">>
j == <<"j">>
nested == <<"j", "x">>
MCIdentifiers == {"id", "a", "b", "j", "x", "_root"}
Int32 == <<"Int32">>
Int64 == <<"Int64">>
Text == <<"Text", NoSize>>
Json == <<"Json">>
Letter(n) == <<"Text", <<96 + n>>>>

\* Sources: relational with and without nullable columns, documents with a
\* sample, without one, and a change stream.
Relational(fields) ==
    [kind |-> "postgres", schemaless |-> FALSE, body_type |-> Json, emits_deletes |-> FALSE, schema |-> FixedSchema(fields),
     sampling_default |-> Disabled]
Documents(kind, fields) ==
    [kind |-> kind, schemaless |-> TRUE, body_type |-> <<"Custom", "mongodb.bson_object", <<>>>>,
     emits_deletes |-> kind = "mongo-cdc", schema |-> FixedSchema(fields),
     sampling_default |-> IF kind = "mongodb" THEN Enabled(DEFAULT_SAMPLING_SIZE) ELSE Disabled]
Strict == <<Field(id, Int32, FALSE), Field(a, <<"Text", 2>>, FALSE), Field(b, Int32, FALSE)>>
Loose == <<Field(id, Int32, FALSE), Field(a, <<"Text", 2>>, TRUE), Field(b, <<"Float64">>, TRUE)>>
MCSources == {Relational(Strict), Relational(Loose), Documents("mongodb", Strict), Documents("mongodb", <<>>)}
Table(fields) == [schemaless |-> FALSE, supports_deletes |-> TRUE, accepts_options |-> FALSE, schema |-> FixedSchema(fields)]
Collection == [schemaless |-> TRUE, supports_deletes |-> TRUE, accepts_options |-> TRUE, schema |-> Schemaless]
Wide == <<Field(id, Int64, FALSE), Field(a, Text, TRUE), Field(b, Int64, TRUE), Field(j, Json, TRUE)>>
Narrow == <<Field(id, Int32, FALSE), Field(a, <<"Text", 1>>, FALSE), Field(b, <<"Bool">>, FALSE)>>
MCSinks == {Table(Wide), Table(Narrow), Collection}

Short(text) == <<"Short", text>>
Full(from, truncate, default, switch, compute) ==
    <<"Full", [from |-> from, truncate |-> truncate, default |-> default, switch |-> switch, compute |-> compute]>>
Script(form, needs, value) == [form |-> form, needs |-> needs, value |-> value]
Computed(p) == Full(<<>>, FALSE, None, None, Some(p))
Case(key, value) == [key |-> key, value |-> Ok(value)]
TwoCases == Some(<<Case(<<49>>, Letter(1)), Case(<<50>>, Letter(2))>>)
Star == <<WILDCARD_MARKER, Short(WILDCARD_MARKER)>>
OwnId == <<id, Short(id)>>
Increment(name) == Script("increment", <<name>>, Null)
PlainTables ==
    {<<OwnId, <<a, Short(a)>>>>, <<OwnId, <<b, Short(b)>>>>, <<Star>>, <<OwnId, Star, <<b, Short(id)>>>>,
     <<OwnId, <<j, Short(WILDCARD_MARKER)>>>>, <<<<j, Short(WILDCARD_MARKER)>>, OwnId, <<b, Short(id)>>, <<a, Short(a)>>>>,
     <<<<b, Short(id)>>, OwnId, <<a, Computed(Script("identity", <<a>>, Null))>>>>}
LongTables ==
    {<<OwnId, <<b, Full(b, TRUE, Some(Ok(<<"Bool", TRUE>>)), None, None)>>>>,
     <<OwnId, <<b, Full(b, TRUE, None, None, None)>>, <<a, Full(a, TRUE, Some(Ok(Letter(3))), None, None)>>>>,
     <<OwnId, <<a, Full(b, FALSE, Some(Ok(Letter(3))), TwoCases, None)>>>>,
     <<OwnId, <<a, Full(b, FALSE, None, TwoCases, None)>>>>,
     <<OwnId, <<b, Computed(Script("const", <<>>, <<"Int64", 3>>))>>>>,
     <<OwnId, <<j, Computed(Increment(id))>>, <<b, Short(id)>>>>,
     <<OwnId, <<b, Computed(Increment(id))>>, <<a, Short(a)>>>>,
     <<OwnId, <<a, Short(a)>>, <<j, Computed(Script("star", <<>>, Null))>>>>,
     <<OwnId, <<a, Short(a)>>, <<j, Computed(Script("pack", <<a, b>>, Null))>>>>}
WrongTables ==
    {<<>>, <<Star, <<j, Short(WILDCARD_MARKER)>>>>, <<OwnId, <<j, Short(a)>>, <<nested, Short(b)>>>>,
     <<<<id, Full(WILDCARD_MARKER, FALSE, None, None, None)>>>>, <<OwnId, <<b, Computed(Script("broken", <<>>, Null))>>>>}
Bare(name) == <<"Bare", name>>
Flow(sink, table, extra, fields, cursor) ==
    [source |-> Bare("s"), sink |-> sink, storage |-> "st", mapping |-> table, compute_mapping |-> extra,
     cursor_fields |-> cursor, conflict |-> Some(<<id>>), limit |-> 2, interval |-> 4, jitter |-> None, query_timeout |-> None,
     access |-> FALSE, inserts |-> FALSE, fields |-> fields, sampling |-> None]
Plain(name, kind) == [name |-> name, kind |-> Some(kind), config |-> <<"table", <<>>>>]
Doc(sources, sinks, storages, flows) ==
    [EmptyRoot EXCEPT !.sources = sources, !.sinks = sinks, !.storages = storages, !.flow = flows]
Alone(doc) ==
    [root |-> <<"r", "toml">>, files |-> (<<"r", "toml">> :> [format |-> "toml", size |-> 1, docs |-> <<doc>>]),
     links |-> <<>>, dirs |-> <<>>, env |-> <<>>]
Store == <<Plain("st", "storage")>>
One(source, sink, f) == Alone(Doc(<<Plain("s", source)>>, <<Plain("k", sink)>>, Store, <<f>>))
SingleFlows(table, extra) ==
    {One(s, k, [Flow(Bare("k"), table, extra, on, <<id>>) EXCEPT !.sampling = IF on THEN None ELSE Some(<<"bool", FALSE>>)]) :
        s \in MCSources, k \in MCSinks, on \in BOOLEAN}
RawFlows == {One(Documents(kind, fs), Collection, [Flow(Bare("k"), <<Star>>, <<>>, on, <<>>) EXCEPT !.conflict = key]) :
                 kind \in {"mongodb", "mongo-cdc"}, fs \in {Strict, <<>>}, on \in BOOLEAN, key \in {None, Some(<<id>>)}}
AppendFlows == {One(s, [Table(Wide) EXCEPT !.supports_deletes = d], f) :
                 s \in {Relational(Strict), Documents("mongo-cdc", Strict)}, d \in BOOLEAN,
                 f \in {[Flow(ref, <<OwnId>>, t, TRUE, cur) EXCEPT !.inserts = TRUE] :
                          ref \in {Bare("k"), Bare("x"), <<"Detailed", "k", <<"mode">>>>}, cur \in {<<>>, <<id>>},
                          t \in {<<>>, <<<<b, Short(Increment(id))>>>>, <<<<id, Short(Increment(id))>>>>}}}
\* Three flows over one relational source and one table.
Three(f, g, h) == Alone(Doc(<<Plain("s", Relational(Strict))>>, <<Plain("k", Table(Wide))>>, Store, <<f, g, h>>))
Probed(table, fields) == [Flow(Bare("k"), table, <<>>, fields, <<id>>) EXCEPT !.access = TRUE]
Together ==
    {Three(Probed(<<OwnId>>, FALSE), [Probed(<<OwnId, Star>>, TRUE) EXCEPT !.limit = big], Probed(t, FALSE)) :
        big \in {2, 30}, t \in {<<OwnId>>, <<OwnId, <<j, Short(a)>>, <<nested, Short(b)>>>>}}

\* Sections that loading refuses, or that only one of two checks would refuse.
Base(f) == Doc(<<Plain("s", Relational(Strict))>>, <<Plain("k", Table(Wide))>>, Store, <<f>>)
Simple == [Flow(Bare("k"), <<OwnId>>, <<>>, FALSE, <<id>>) EXCEPT !.conflict = None]
Sections ==
    {[Simple EXCEPT !.cursor_fields = c, !.conflict = k, !.limit = n, !.fields = on] :
        c \in {<<id>>, <<a>>}, k \in {None, Some(<<>>), Some(<<<<>>>>), Some(<<id>>), Some(<<b>>)}, n \in {0, 2, 61}, on \in BOOLEAN}
    \cup {[Simple EXCEPT !.interval = 4, !.jitter = k, !.query_timeout = t] : k \in {None, Some(0), Some(5)}, t \in {None, Some(0)}}
    \cup {[Simple EXCEPT !.sampling = Some(<<"map", m>>)] :
              m \in {<<>>, <<<<"size", 0>>>>, <<<<"enabled", FALSE>>>>, <<<<"enabled", FALSE>>, <<"size", 2>>>>,
                     <<<<"enabled", TRUE>>, <<"enabled", TRUE>>>>, <<<<"other", 1>>>>, <<<<"size", 2>>, <<"enabled", TRUE>>>>}}
    \cup {[Simple EXCEPT !.mapping = <<OwnId, OwnId>>],
          [Simple EXCEPT !.mapping = <<OwnId, <<a, Full(b, FALSE, None, Some(<<Case(<<49>>, Letter(1)), Case(<<49>>, Letter(2))>>), None)>>>>]}
Metrics(port, prefix, granularity, quantiles) ==
    [port |-> port, prefix |-> prefix, summary |-> [window |-> 5, bucket_granularity |-> granularity, quantiles |-> quantiles]]
GoodMetrics == Metrics(80, <<"/", "m">>, 1, <<50, 90>>)
BadMetrics == {Metrics(0, <<"/">>, 1, <<50>>), Metrics(80, <<"m">>, 1, <<50>>), Metrics(80, <<"/", "{">>, 1, <<50>>),
               Metrics(80, <<"/">>, 6, <<50>>), Metrics(80, <<"/">>, 1, <<>>), Metrics(80, <<"/">>, 1, <<90, 50>>)}
Refused == {Alone(Base(f)) : f \in Sections} \cup {Alone([Base(Simple) EXCEPT !.prometheus = Some(p)]) : p \in BadMetrics \cup {GoodMetrics}}
           \cup {Alone([Base(Simple) EXCEPT !.sources[1].kind = None])}

\* Several files: a root that includes some of two files, by name, through a
\* directory or through a link.
Lit(text) == <<"lit", text>>
Ref(default) == <<"ref", "K", default>>
Leaf_text(pieces) == <<"text", pieces>>
Key(k, t) == <<"table", <<<<k, t>>>>>>
LikeScript == Leaf_text(<<Lit("f()")>>)
\* [1] and v=w stand for secrets that look like expressions; the last text was
\* written $${K}.
MCEvaluated ==
    (<<"f()">> :> Ok(<<"num", 1>>)) @@ (<<"g()">> :> Ok(LikeScript)) @@ (<<"fail()">> :> Err("EvalError"))
    @@ (<<"[1]">> :> Ok(<<"array", <<<<"num", 1>>>>>>)) @@ (<<"v=w">> :> Err("EvalError")) @@ (<<"$", "{K}">> :> Err("EvalError"))
MCSettings ==
    {Key("url", Leaf_text(<<Lit("x"), Ref(d), <<"dollar">>>>)) : d \in {None, Some(""), Some("d")}}
    \cup {Key("url", Leaf_text(<<Lit(text)>>)) : text \in {"f()", "g()", "fail()"}}
    \cup {Key("list", <<"array", <<Leaf_text(<<Ref(Some("f()"))>>), <<"num", 3>>, Leaf_text(<<Ref(Some("d"))>>)>>>>)}
    \cup {Key("url", Leaf_text(<<<<"dollar">>, Lit("{K}")>>))}
    \cup {Key("list", <<"array", <<Key("x", LikeScript), <<"num", 3>>, LikeScript>>>>), Key("p", Key("q", Key("r", LikeScript)))}
With(kind, components) == [EmptyRoot EXCEPT ![kind] = components]
Extra ==
    {EmptyRoot, With("sources", <<Plain("s", Relational(Strict))>>), With("sinks", <<Plain("k2", Collection), Plain("k2", Collection)>>),
     With("storages", <<[Plain("st2", "storage") EXCEPT !.config = Key("url", LikeScript)]>>), With("flow", 1 :> Simple), With("flow", 2 :> Simple),
     With("secrets", "K" :> "v"), With("prometheus", Some(GoodMetrics)), [EmptyRoot EXCEPT !.include = <<[path |-> <<"c", "toml">>, absolute |-> FALSE]>>]}
A == <<"a", "toml">>
B == <<"b", "yaml">>
L == <<"l", "yml">>
D == <<"d", "">>
Inc(p) == [path |-> p, absolute |-> FALSE]
BothFiles == {<<Inc(A), Inc(B)>>, <<Inc(D)>>}
OddIncludes ==
    {<<Inc(B), Inc(L), Inc(D)>>, <<Inc(<<"r", "toml">>), Inc(<<"r", "yaml">>)>>, <<[path |-> A, absolute |-> TRUE]>>,
     <<Inc(<<"n", "txt">>)>>, <<Inc(<<"m", "toml">>)>>, <<Inc(<<"l", "toml">>)>>}
Spread(format, docs, includes, in_a, in_b, env) ==
    LET path == <<"r", format>>
        file(f, ds) == [format |-> f, size |-> 1, docs |-> ds]
    IN  [root |-> path,
         files |-> (path :> file(format, [docs EXCEPT ![1].include = includes])) @@ (A :> file("toml", <<in_a>>)) @@ (B :> file("yaml", in_b))
                   @@ (<<"n", "txt">> :> file("toml", <<EmptyRoot>>)),
         links |-> (L :> B) @@ (<<"l", "toml">> :> B), dirs |-> (D :> <<A, B, L, <<"n", "txt">>>>), env |-> env]
Settled_in(t) == [Base(Simple) EXCEPT !.sources[1].config = t]
ManyFiles ==
    {Spread(format, <<Base(Simple)>>, inc, x, <<y>>, <<>>) : format \in {"toml", "yaml"}, inc \in BothFiles, x \in Extra, y \in Extra}
    \cup {Spread(format, <<Base(Simple)>>, inc, x, <<x>>, <<>>) : format \in {"toml", "yaml"}, inc \in OddIncludes, x \in Extra}
    \cup {Spread("yaml", <<Base(Simple), x>>, <<Inc(B)>>, EmptyRoot, <<x, y>>, <<>>) : x \in Extra, y \in Extra}
    \cup {Spread(format, <<[Settled_in(t) EXCEPT !.secrets = s]>>, <<Inc(A)>>, With("secrets", k), <<>>, env) :
              format \in {"toml", "yaml"}, t \in MCSettings, s \in {<<>>, "K" :> "v", "K" :> "[1]", "K" :> "v=w"}, k \in {<<>>, "K" :> "w"}, env \in {<<>>, "K" :> "e", "K" :> "f()"}}
    \cup {[Alone(Base(Simple)) EXCEPT !.files[<<"r", "toml">>].size = 11]}
MCFileSystems ==
    UNION {SingleFlows(t, <<>>) : t \in PlainTables \cup LongTables \cup WrongTables}
    \cup RawFlows \cup AppendFlows \cup Together \cup Refused \cup ManyFiles

Samples(t) ==
    CASE t[1] = "Int32" -> {<<"Int32", n>> : n \in {1, 3}}
      [] t[1] = "Text" -> {<<"Text", <<97>>>>, <<"Text", <<97, 98>>>>}
      [] t[1] = "Float64" -> {<<"Float64", 0>>, <<"Float64", NaN>>}
MCRows(s) == {r \in [1..Len(s.fields) -> UNION {Samples(s.fields[i].type) \cup {Null} : i \in 1..Len(s.fields)}] :
                 \A i \in 1..Len(s.fields) : r[i] \in Samples(s.fields[i].type) \cup (IF s.fields[i].nullable THEN {Null} ELSE {})}
=============================================================================
