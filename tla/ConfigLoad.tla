----------------------------- MODULE ConfigLoad ------------------------------
(* crates/core/src/config: loading a configuration from a root file and the   *)
(* files it includes, crates/expr/runtime/src/patcher.rs: evaluating the      *)
(* scripts inside component settings.                                         *)
(*                                                                            *)
(* A file system fs is a record: root (the path loaded), files (what the real *)
(* files hold), links (paths that lead to another real file), dirs (the       *)
(* entries of each directory in name order), env (the process environment).   *)
(* A path is <<name, extension>>.  A file is a format, a size and documents.  *)
(* Settings are a tree: <<"table", <<<<key, tree>>...>>>>, <<"array", trees>>,*)
(* <<"text", pieces>> or <<"num", n>>.                                        *)
EXTENDS FlowPlan

CONSTANTS
    MAX_CONFIG_BYTES,       \* the largest configuration file
    MaxNesting,             \* MAX_EXPR_DEPTH: the deepest settings
    Evaluated               \* the texts Parser::is_expr takes for expressions, with what they give

Subtrees(t) ==
    CASE t[1] = "table" -> [i \in 1..Len(t[2]) |-> t[2][i][2]]
      [] t[1] = "array" -> t[2]
      [] OTHER -> <<>>
WithSubtrees(t, subtrees) ==
    CASE t[1] = "table" -> <<"table", [i \in 1..Len(t[2]) |-> <<t[2][i][1], subtrees[i]>>]>>
      [] t[1] = "array" -> <<"array", subtrees>>
      [] OTHER -> t
Rebuilt(t, results) == AndThen(Collect(results), LAMBDA ts : Ok(WithSubtrees(t, ts)))

(***************************************************************************)
(* References to the environment and to secrets                            *)
(***************************************************************************)
Lookup(name, env, secrets) ==
    CASE name \in DOMAIN env -> Some(env[name])
      [] name \notin DOMAIN env /\ name \in DOMAIN secrets -> Some(secrets[name])
      [] OTHER -> None
\* A piece is <<"lit", text>>, <<"dollar">> (written $$) or <<"ref", name, default>>.
ExpandPiece(piece, env, secrets) ==
    CASE piece[1] = "lit" -> Ok(piece)
      [] piece[1] = "dollar" -> Ok(<<"lit", "$">>)
      [] piece[1] = "ref" ->
             LET found == Lookup(piece[2], env, secrets)
             IN  IF found # None THEN Ok(<<"lit", found[1]>>)
                 ELSE IF piece[3] \notin {None, Some("")} THEN Ok(<<"lit", piece[3][1]>>)
                 ELSE Err("UnresolvedReference")
\* References are expanded in the text of a file, before it is parsed: what has
\* taken their place is text like any other from then on.
RECURSIVE ExpandTree(_, _, _)
ExpandTree(t, env, secrets) ==
    IF t[1] = "text"
    THEN AndThen(Collect([i \in 1..Len(t[2]) |-> ExpandPiece(t[2][i], env, secrets)]), LAMBDA ps : Ok(<<"text", ps>>))
    ELSE Rebuilt(t, [i \in 1..Len(Subtrees(t)) |-> ExpandTree(Subtrees(t)[i], env, secrets)])

\* The settings of every component of a document, rewritten.
WithConfigs(components, F(_)) ==
    Collect([i \in 1..Len(components) |->
        AndThen(F(components[i].config), LAMBDA t : Ok([components[i] EXCEPT !.config = t]))])
OnConfigs(doc, F(_)) ==
    AndThen(WithConfigs(doc.sources, F), LAMBDA sources :
    AndThen(WithConfigs(doc.sinks, F), LAMBDA sinks :
    AndThen(WithConfigs(doc.storages, F), LAMBDA storages :
        Ok([doc EXCEPT !.sources = sources, !.sinks = sinks, !.storages = storages]))))
expand_refs(docs, env, secrets) ==
    Collect([i \in 1..Len(docs) |-> OnConfigs(docs[i], LAMBDA t : ExpandTree(t, env, secrets))])

(***************************************************************************)
(* The patcher: a trie of patterns, and the subtrees it leads to           *)
(***************************************************************************)
AnyKey == "*"
AnyIndex == "[*]"
Patterns == <<<<"sinks", AnyIndex, "config">>, <<"sources", AnyIndex, "config">>, <<"storages", AnyIndex, "config">>>>
EmptyNode == [exact |-> <<>>, wildcard |-> None, array_wildcard |-> None, terminal |-> FALSE]
RECURSIVE insert_segments(_, _)
insert_segments(node, segments) ==
    IF segments = <<>> THEN [node EXCEPT !.terminal = TRUE]
    ELSE LET into(o) == insert_segments(OrElse(o, EmptyNode), Tail(segments))
             name == Head(segments)
         IN  CASE name = AnyKey -> [node EXCEPT !.wildcard = Some(into(node.wildcard))]
               [] name = AnyIndex -> [node EXCEPT !.array_wildcard = Some(into(node.array_wildcard))]
               [] OTHER -> [node EXCEPT !.exact = (name :> into(IF name \in DOMAIN @ THEN Some(@[name]) ELSE None)) @@ @]
PatternTrie == FoldLeft(insert_segments, EmptyNode, Patterns)

\* The words of an expanded text.
Words(t) == [i \in 1..Len(t[2]) |-> t[2][i][2]]
is_expr(t) == t[1] = "text" /\ Words(t) \in DOMAIN Evaluated
RECURSIVE patch_subtree(_, _)
patch_subtree(t, depth) ==
    IF depth > MaxNesting THEN Err("InvalidPattern")
    ELSE IF is_expr(t) THEN Evaluated[Words(t)]
    ELSE Rebuilt(t, [i \in 1..Len(Subtrees(t)) |-> patch_subtree(Subtrees(t)[i], depth + 1)])
ChildFor(node, key) == IF key \in DOMAIN node.exact THEN Some(node.exact[key]) ELSE node.wildcard
RECURSIVE walk_value(_, _)
\* An exact child hides the wildcard one.
walk_table(node, t) ==
    Rebuilt(t, [i \in 1..Len(t[2]) |->
        LET child == ChildFor(node, t[2][i][1])
        IN  IF child = None THEN Ok(t[2][i][2])
            ELSE IF child[1].terminal THEN patch_subtree(t[2][i][2], 0)
            ELSE walk_value(child[1], t[2][i][2])])
walk_value(node, t) ==
    CASE t[1] = "table" -> walk_table(node, t)
      [] t[1] = "array" /\ node.array_wildcard # None ->
             Rebuilt(t, [i \in 1..Len(t[2]) |->
                 IF node.array_wildcard[1].terminal THEN patch_subtree(t[2][i], 0)
                 ELSE IF t[2][i][1] = "table" THEN walk_table(node.array_wildcard[1], t[2][i])
                 ELSE Ok(t[2][i])])
      [] OTHER -> Ok(t)
\* A TOML document is walked whole, from the root of the trie.
Components(doc, kind) ==
    <<kind, <<"array", [i \in 1..Len(doc[kind]) |-> <<"table", <<<<"config", doc[kind][i].config>>>>>>]>>>>
DocTree(doc) == <<"table", <<Components(doc, "sources"), Components(doc, "sinks"), Components(doc, "storages")>>>>
Settings(t, k, doc, kind) ==
    [i \in 1..Len(doc[kind]) |-> [doc[kind][i] EXCEPT !.config = t[2][k][2][2][i][2][1][2]]]
patch(doc) ==
    AndThen(walk_table(PatternTrie, DocTree(doc)), LAMBDA t :
        Ok([doc EXCEPT !.sources = Settings(t, 1, doc, "sources"), !.sinks = Settings(t, 2, doc, "sinks"),
                       !.storages = Settings(t, 3, doc, "storages")]))
\* A YAML document is typed first, and its settings are patched one by one.
patch_component_configs(doc) == OnConfigs(doc, LAMBDA t : patch_subtree(t, 0))

(***************************************************************************)
(* Typed sections                                                          *)
(***************************************************************************)
Disabled == <<"Disabled">>
Enabled(size) == <<"Enabled", size>>
DEFAULT_SAMPLING_SIZE == 100
\* sampling: absent, <<"bool", b>> or <<"map", entries>> of `enabled` and `size`.
Given(entries, key) == {i \in 1..Len(entries) : entries[i][1] = key}
SamplingTable(entries) ==
    LET one(key) == CHOOSE i \in Given(entries, key) : TRUE
        size == IF Given(entries, "size") = {} THEN None ELSE Some(entries[one("size")][2])
    IN  IF \E i \in 1..Len(entries) : entries[i][1] \notin {"enabled", "size"} THEN Err("unknown field")
        ELSE IF \E key \in {"enabled", "size"} : Cardinality(Given(entries, key)) > 1 THEN Err("duplicate field")
        ELSE IF size = Some(0) THEN Err("size must be >= 1")
        ELSE IF Given(entries, "enabled") = {} THEN Err("missing field")
        ELSE IF entries[one("enabled")][2] THEN Ok(Some(Enabled(OrElse(size, DEFAULT_SAMPLING_SIZE))))
        ELSE Checked(size # None, "size is meaningless", Ok(Some(Disabled)))
SamplingOf(raw) ==
    IF raw = None THEN Ok(None)
    ELSE IF raw[1][1] = "bool" THEN Ok(Some(IF raw[1][2] THEN Enabled(DEFAULT_SAMPLING_SIZE) ELSE Disabled))
    ELSE SamplingTable(raw[1][2])
\* What the flow says, else what the kind of its source does.
resolve(sampling, default) == OrElse(sampling, default)

RepeatedKey(keys) == \E i, k \in 1..Len(keys) : i < k /\ keys[i] = keys[k]
SwitchOfEntry(entry) == IF entry[2][1] = "Full" THEN OrElse(entry[2][2].switch, <<>>) ELSE <<>>
MappingMap(entries) ==
    IF RepeatedKey([i \in 1..Len(entries) |-> entries[i][1]]) THEN Err("duplicate mapping key")
    ELSE Checked(\E i \in 1..Len(entries) : LET cases == SwitchOfEntry(entries[i]) IN RepeatedKey([k \in 1..Len(cases) |-> cases[k].key]),
                 "duplicate switch key", Ok(entries))
\* Reading a flow section; scripts and columns are checked when it is assembled.
TypedFlow(f) ==
    AndThen(MappingMap(f.mapping), LAMBDA m :
    AndThen(SamplingOf(f.sampling), LAMBDA s : Ok([f EXCEPT !.sampling = s])))
TypedDoc(doc) ==
    LET names == SetToSortSeq(DOMAIN doc.flow, LAMBDA x, y : x < y)
    IN  AndThen(Collect([i \in 1..Len(names) |-> TypedFlow(doc.flow[names[i]])]), LAMBDA fs :
            Ok([doc EXCEPT !.flow = [n \in DOMAIN doc.flow |-> fs[CHOOSE i \in 1..Len(names) : names[i] = n]]]))

(***************************************************************************)
(* Merging: one definition per name                                        *)
(***************************************************************************)
\* A name of the new list is one of the old, or an earlier one of its own.
NamedTwice(old, new) == \E k \in 1..Len(new) : \E i \in 1..(Len(old) + k - 1) : (old \o new)[i].name = new[k].name
\* The keys of root.secrets are those whose origin is recorded.  The includes
\* of the extra file are kept, and not followed.
merge_extra_into(root, extra) ==
    IF DOMAIN root.flow \cap DOMAIN extra.flow # {} THEN Err("DuplicateFlow")
    ELSE IF \E kind \in {"sources", "sinks", "storages"} : NamedTwice(root[kind], extra[kind]) THEN Err("DuplicateName")
    ELSE IF root.prometheus # None /\ extra.prometheus # None THEN Err("prometheus declared twice")
    ELSE IF DOMAIN root.secrets \cap DOMAIN extra.secrets # {} THEN Err("DuplicateSecret")
    ELSE Ok([flow |-> root.flow @@ extra.flow, sources |-> root.sources \o extra.sources,
             sinks |-> root.sinks \o extra.sinks, storages |-> root.storages \o extra.storages,
             include |-> root.include \o extra.include, secrets |-> root.secrets @@ extra.secrets,
             prometheus |-> root.prometheus \o extra.prometheus])
EmptyRoot ==
    [flow |-> <<>>, sources |-> <<>>, sinks |-> <<>>, storages |-> <<>>, include |-> <<>>, secrets |-> <<>>, prometheus |-> None]
\* The documents of a YAML file are merged like files.
parse_yaml_root(docs) ==
    FoldLeft(LAMBDA r, doc : AndThen(r, LAMBDA root : AndThen(TypedDoc(doc), LAMBDA d : merge_extra_into(root, d))),
             Ok(EmptyRoot), docs)
parse_and_patch(docs, format) ==
    IF format = "toml" THEN AndThen(patch(docs[1]), TypedDoc)
    ELSE AndThen(parse_yaml_root(docs), patch_component_configs)

(***************************************************************************)
(* Reading files                                                           *)
(***************************************************************************)
Formats == [toml |-> "toml", yml |-> "yaml", yaml |-> "yaml"]
detect_format(path) == IF path[2] \in DOMAIN Formats THEN Ok(Formats[path[2]]) ELSE Err("UnknownConfigExtension")
canonicalize(fs, path) == IF path \in DOMAIN fs.links THEN fs.links[path] ELSE path
read_single(fs, path) ==
    LET real == canonicalize(fs, path)
    IN  IF real \notin DOMAIN fs.files THEN Err("Io")
        ELSE Checked(fs.files[real].size > MAX_CONFIG_BYTES, "ConfigTooLarge", Ok(fs.files[real]))
\* A file is text of its own format whatever its path says.
ConfigText(fs, path) ==
    AndThen(detect_format(path), LAMBDA format :
    AndThen(read_single(fs, path), LAMBDA file : Checked(file.format # format, "parse error", Ok(file))))
extract_secrets(file) ==
    FoldLeft(LAMBDA r, doc : AndThen(r, LAMBDA s :
                 Checked(DOMAIN s \cap DOMAIN doc.secrets # {}, "DuplicateSecret", Ok(s @@ doc.secrets))),
             Ok(<<>>), file.docs)
Content(fs, file, secrets) ==
    AndThen(expand_refs(file.docs, fs.env, secrets), LAMBDA docs : parse_and_patch(docs, file.format))

\* st is [root, visited]: the configuration so far and the real files it holds.
\* Mutant: files are told apart by the path that named them.
SeenByPath(fs, st, path) == path \in st.visited
seen(fs, st, path) == canonicalize(fs, path) \in st.visited
mark(fs, st, path) ==
    IF canonicalize(fs, path) \in DOMAIN fs.files THEN [st EXCEPT !.visited = @ \cup {canonicalize(fs, path)}] ELSE st
merge_file(fs, secrets, st, path) ==
    AndThen(ConfigText(fs, path), LAMBDA file :
    AndThen(Content(fs, file, secrets), LAMBDA extra :
    AndThen(merge_extra_into(st.root, extra), LAMBDA root : Ok([mark(fs, st, path) EXCEPT !.root = root]))))
ConfigFiles(fs, path) ==
    IF path \in DOMAIN fs.dirs THEN SelectSeq(fs.dirs[path], LAMBDA p : p[2] \in DOMAIN Formats) ELSE <<path>>
merge_include(fs, secrets, st, path) ==
    FoldLeft(LAMBDA r, p : AndThen(r, LAMBDA s : IF seen(fs, s, p) THEN Ok(s) ELSE merge_file(fs, secrets, s, p)),
             Ok(st), ConfigFiles(fs, path))

(***************************************************************************)
(* Checks after merging                                                    *)
(***************************************************************************)
FromOf(rhs) == IF rhs[1] = "Short" THEN rhs[2] ELSE rhs[2].from
mapping_defers_subset_checks(mapping) == \E i \in 1..Len(mapping) : FromOf(mapping[i][2]) = WILDCARD_MARKER
TimesWrong(f) ==
    \/ f.limit = 0 \/ f.interval = 0
    \/ f.jitter # None /\ f.jitter[1] > f.interval
    \/ f.query_timeout = Some(0)
SubsetsWrong(f) ==
    \/ f.limit * Len(f.mapping) > MaxCells
    \/ \E i \in 1..Len(f.cursor_fields) : \A k \in 1..Len(f.mapping) : FromOf(f.mapping[k][2]) # f.cursor_fields[i]
KeyMissing(f) == \E i \in 1..Len(f.conflict[1]) : \A k \in 1..Len(f.mapping) : f.mapping[k][1] # f.conflict[1][i]
conflict_invalid(key) == key = <<>> \/ \E i \in 1..Len(key) : key[i] = <<>>
FlowInvalid(f, deferred) ==
    \/ TimesWrong(f)
    \/ ~deferred /\ SubsetsWrong(f)
    \/ f.conflict # None /\ (conflict_invalid(f.conflict[1]) \/ (~deferred /\ KeyMissing(f)))
SummaryInvalid(s) ==
    \/ s.window = 0 \/ s.bucket_granularity = 0 \/ s.bucket_granularity > s.window
    \/ s.quantiles = <<>>
    \/ \E i \in 1..Len(s.quantiles) : s.quantiles[i] \notin 1..99
    \/ \E i \in 2..Len(s.quantiles) : s.quantiles[i] <= s.quantiles[i - 1]
\* prefix: the characters of the path; quantiles in hundredths.
PrometheusInvalid(p) ==
    \/ p.port = 0 \/ p.prefix = <<>> \/ Head(p.prefix) # "/" \/ Range(p.prefix) \cap {" ", "{", "}"} # {}
    \/ SummaryInvalid(p.summary)
validate_post_merge(root) ==
    IF \E n \in DOMAIN root.flow : FlowInvalid(root.flow[n], mapping_defers_subset_checks(root.flow[n].mapping)) THEN Err("Invalid")
    ELSE Checked(root.prometheus # None /\ PrometheusInvalid(root.prometheus[1]), "Invalid", Ok(root))

\* Only the includes of the root are followed, with the secrets of the root.
Includes(fs, root, secrets) ==
    FoldLeft(LAMBDA r, inc : AndThen(r, LAMBDA s :
                 IF inc.absolute THEN Err("AbsoluteIncludeNotAllowed") ELSE merge_include(fs, secrets, s, inc.path)),
             Ok(mark(fs, [root |-> [root EXCEPT !.include = <<>>], visited |-> {}], fs.root)), root.include)
load(fs) ==
    AndThen(ConfigText(fs, fs.root), LAMBDA file :
    AndThen(extract_secrets(file), LAMBDA secrets :
    AndThen(Content(fs, file, secrets), LAMBDA root :
    AndThen(Includes(fs, root, secrets), LAMBDA st : validate_post_merge(st.root)))))
=============================================================================
