------------------------------ MODULE ExprEval ------------------------------
(* crates/expr/optimize, what an expression is and what it evaluates to.      *)
(*                                                                            *)
(* An expression is <<op, arg, kids>>: the variant, what it holds besides     *)
(* expressions, and its subexpressions in the order they are written.         *)
(*   const v, reg r, take r, src name, fields selector, var name    no kids   *)
(*   field, if, multiif, ifnull, nullif, and, or, interp, array     no arg    *)
(*   call f, object keys                                                      *)
(*   switch <<n, keys>>     n inputs, a branch for each key, the default      *)
(*   assert <<class, y>>    y is <<>> (the operand) or <<v>> (a constant)     *)
(*   block registers        a value for each register, then the result        *)
(* The node ids of the code are left out: they take no part in equality.      *)
EXTENDS FuncRegistry

CONSTANTS
    Builtin(_, _, _, _),    \* Builtin(f, q, xs, ctx): the registered functions in use
    Arity,                  \* how many arguments each takes
    PureFns, TotalFns,      \* those that are pure, those that cannot fail
    MaxDepth                \* MAX_EXPR_DEPTH, scaled

Anything == <<Null, Null, Null>>
ASSUME ContractsAgree ==
    \A f \in DOMAIN Arity :
        /\ Arity[f] = Builtin(f, "arity", Anything, [now |-> 0, draw |-> 0])
        /\ (f \in PureFns) = Builtin(f, "pure", Anything, [now |-> 0, draw |-> 0])
        /\ (f \notin TotalFns) = Builtin(f, "can_fail", Anything, [now |-> 0, draw |-> 0])

E(op, arg, kids) == <<op, arg, kids>>
Op(e) == e[1]
Kids(e) == e[3]
Const(v) == E("const", v, <<>>)
Bool(b) == <<"Bool", b>>
AsConst(e) == IF Op(e) = "const" THEN <<e[2]>> ELSE <<>>
IsConst(e, v) == Op(e) = "const" /\ e[2] = v
IsCallOf(e, f) == Op(e) = "call" /\ e[2] = f
AllConst(es) == \A i \in 1..Len(es) : Op(es[i]) = "const"
ConstValues(es) == [i \in 1..Len(es) |-> es[i][2]]
MapSeq(s, F(_)) == [i \in 1..Len(s) |-> F(s[i])]
MapKids(e, F(_)) == E(e[1], e[2], MapSeq(e[3], F))

\* for_each_recursive: every node of a tree, parents first.
RECURSIVE Nodes(_)
Nodes(e) == <<e>> \o FlattenSeq(MapSeq(Kids(e), Nodes))
SomeNode(e, P(_)) == LET ns == Nodes(e) IN \E i \in 1..Len(ns) : P(ns[i])
node_count(e) == Len(Nodes(e))

contains_block(e) == SomeNode(e, LAMBDA n : Op(n) = "block")
is_pure(e) == ~SomeNode(e, LAMBDA n : Op(n) = "call" /\ n[2] \notin PureFns)
can_fail(e) ==
    SomeNode(e, LAMBDA n : (Op(n) = "call" /\ n[2] \notin TotalFns) \/ Op(n) \in {"interp", "assert"})
\* An operand that reads the same value wherever it stands.
IsFrozen(e) == Op(e) \in {"reg", "src"}

\* PartialEq: structural, except that two constants are equal as values are.
RECURSIVE Same(_, _)
Same(a, b) ==
    /\ Op(a) = Op(b) /\ Len(Kids(a)) = Len(Kids(b))
    /\ IF Op(a) = "const" THEN values_equal(a[2], b[2]) ELSE a[2] = b[2]
    /\ \A i \in 1..Len(Kids(a)) : Same(Kids(a)[i], Kids(b)[i])

TypeClasses == [String |-> "Text", Bool |-> "Bool", Bytes |-> "Bytes"]
accepts(class, v) == Tag(v) = TypeClasses[class]
TypeAssert(class, inner) == E("assert", <<class, <<>>>>, <<inner>>)

(***************************************************************************)
(* A program binds registers in order and then gives a result.             *)
(***************************************************************************)
Values_of(p) == [i \in 1..Len(p.stmts) |-> p.stmts[i][2]]
MapProgram(p, F(_)) ==
    [p EXCEPT !.stmts = [i \in 1..Len(@) |-> <<@[i][1], F(@[i][2])>>], !.result = F(@)]
Trees(p) == Append(Values_of(p), p.result)
count_program_items(p) ==
    FoldLeft(LAMBDA n, e : n + node_count(e), Len(p.stmts), Trees(p))

(***************************************************************************)
(* Evaluation order.  `done` holds <<kid, value>> for the kids evaluated   *)
(* so far; NextKid is the one to evaluate next, 0 when there is none.      *)
(***************************************************************************)
Truths == {Bool(TRUE), Bool(FALSE), Null}
IsCondition(e, n, k) ==
    IF Op(e) \in {"if", "multiif"} THEN k % 2 = 1 /\ k < n ELSE Op(e) \in {"and", "or"}
\* Arguments that eval_call leaves to the argument window.
Windowed == {"const", "reg", "take"}
Rendered(done) ==
    FoldLeft(LAMBDA t, d : t \o (IF Tag(d[2]) = "Text" THEN d[2][2] ELSE value_to_string(d[2])), <<>>, done)
\* The branch of a switch for these inputs; the default when no key matches.
Lookup(keys, inputs) ==
    LET k == KeyOf(inputs)
        hits == {i \in 1..Len(keys) : IsOk(k) /\ KeyEq(KeyOf(keys[i])[2], k[2])}
    IN  IF hits = {} THEN Len(keys) + 1 ELSE Min(hits)
LastValue(done) == done[Len(done)][2]
Stuck(e, n, done) ==
    done # <<>> /\ IsCondition(e, n, done[Len(done)][1]) /\ LastValue(done) \notin Truths
Decided(e, v) == v = Bool(Op(e) = "or")
NextKid(e, n, done, eager) ==
    LET k == IF done = <<>> THEN 0 ELSE done[Len(done)][1]
        v == LastValue(done)
        yes == v = Bool(TRUE)
        more == IF k < n THEN k + 1 ELSE 0
    IN  CASE Op(e) = "call" ->
                LET left == {i \in eager : i > k} IN IF left = {} THEN 0 ELSE Min(left)
          [] Op(e) \in {"field", "take"} -> 0
          [] Op(e) = "interp" -> IF Len(Rendered(done)) > MaxStringBytes THEN 0 ELSE more
          [] Op(e) = "switch" ->
                IF k < e[2][1] THEN k + 1
                ELSE IF k > e[2][1] THEN 0
                ELSE e[2][1] + Lookup(e[2][2], [i \in 1..k |-> done[i][2]])
          [] Op(e) \in {"if", "multiif", "ifnull", "and", "or"} ->
                IF k = 0 THEN 1
                ELSE IF Stuck(e, n, done) THEN 0
                ELSE CASE Op(e) \in {"if", "multiif"} ->
                            IF ~IsCondition(e, n, k) THEN 0 ELSE IF yes THEN k + 1 ELSE k + 2
                       [] Op(e) = "ifnull" -> IF k = 1 /\ v = Null THEN 2 ELSE 0
                       [] OTHER -> IF k = 1 /\ ~Decided(e, v) THEN 2 ELSE 0
          [] OTHER -> more

\* and, or on their operands; the second is there unless the first decided.
eval_and_or(e, done) ==
    LET vs == {done[i][2] : i \in 1..Len(done)}
    IN  IF Bool(Op(e) = "or") \in vs THEN Bool(Op(e) = "or")
        ELSE IF Null \in vs THEN Null ELSE LastValue(done)
eval_type_assert(e, v) ==
    IF v = Null THEN Ok(Null)
    ELSE IF ~accepts(e[2][1], v) THEN Err("TypeAssert")
    ELSE Ok(IF e[2][2] = <<>> THEN v ELSE e[2][2][1])
\* What a node that is not a leaf, a call or a block gives once its kids are done.
Combine(e, n, done) ==
    CASE Stuck(e, n, done) -> Err("ExpectedBool")
      [] Op(e) \in {"and", "or"} -> Ok(eval_and_or(e, done))
      [] Op(e) = "nullif" -> Ok(IF values_equal(done[1][2], done[2][2]) THEN Null ELSE done[1][2])
      [] Op(e) = "interp" ->
            IF Len(Rendered(done)) > MaxStringBytes THEN Err("StringTooLarge") ELSE Ok(<<"Text", Rendered(done)>>)
      [] Op(e) = "array" -> Ok(<<"Array", [i \in 1..n |-> done[i][2]]>>)
      [] Op(e) = "object" -> Ok(<<"Object", [i \in 1..n |-> <<e[2][i], done[i][2]>>]>>)
      [] Op(e) = "assert" -> eval_type_assert(e, LastValue(done))
      [] OTHER -> Ok(LastValue(done))

-----------------------------------------------------------------------------
(* The way from a parsed program to a row's value: lowering to registers      *)
(* (engines/opt_program_converter.rs), the heap evaluator that serves as its  *)
(* oracle (crates/expr/runtime), compaction into an arena, the marking of     *)
(* last reads as moves, and the evaluator that runs the result.               *)

CONSTANT MaxArena           \* the largest index of an arena, u16::MAX, scaled

Indices(s) == [i \in 1..Len(s) |-> i]
Has(m, k) == k \in DOMAIN m
get_ref(f, n) == Has(Arity, f) /\ admits(Arity[f], n)

(***************************************************************************)
(* Lowering.  env maps the names in scope to registers; `next` is the      *)
(* first free one.  A block's names are in scope only inside it.           *)
(***************************************************************************)
RECURSIVE lower_expr(_, _, _, _)
LoweredTo(e, i, acc, o, binds) ==
    [r |-> Then2(o.r, LAMBDA x : Ok(Append(acc.r[2], x))),
     next |-> IF binds THEN o.next + 1 ELSE o.next,
     env |-> IF binds THEN (e[2][i] :> o.next) @@ acc.env ELSE acc.env,
     regs |-> IF binds THEN Append(acc.regs, o.next) ELSE acc.regs]
LowerKid(e, i, acc, d) ==
    IF ~IsOk(acc.r) THEN acc
    ELSE LoweredTo(e, i, acc, lower_expr(Kids(e)[i], acc.env, acc.next,
                                         IF Op(e) = "interp" /\ Op(Kids(e)[i]) = "const" THEN d ELSE d + 1),
                   Op(e) = "block" /\ i < Len(Kids(e)))
Refusal(e, env, d) ==
    CASE d > MaxDepth -> Err("NestingTooDeep")
      [] Op(e) = "var" /\ ~Has(env, e[2]) -> Err("UndefinedVariable")
      [] Op(e) = "call" /\ ~get_ref(e[2], Len(Kids(e))) -> Err("UnknownFunction")
      [] Op(e) = "object" /\ ~IsInjective(e[2]) -> Err("DuplicateObjectKey")
      [] OTHER -> Ok(<<>>)
lower_expr(e, env, next, d) ==
    LET acc == FoldLeft(LAMBDA a, i : LowerKid(e, i, a, d),
                        [r |-> Refusal(e, env, d), next |-> next, env |-> env, regs |-> <<>>], Indices(Kids(e)))
    IN  [r |-> IF Op(e) = "var" /\ IsOk(acc.r) THEN Ok(E("reg", env[e[2]], <<>>))
               ELSE Then2(acc.r, LAMBDA ks : Ok(E(Op(e), IF Op(e) = "block" THEN acc.regs ELSE e[2], ks))),
         next |-> acc.next]
\* The program is lowered as a block is, at a depth of its own.
convert_program(ast) ==
    LET names == [i \in 1..Len(ast.stmts) |-> ast.stmts[i][1]]
        e == lower_expr(E("block", names, Trees(ast)), <<>>, 1, 0)
    IN  Then2(e.r, LAMBDA b :
            Ok([stmts |-> [i \in 1..Len(names) |-> <<b[2][i], Kids(b)[i]>>],
                result |-> Kids(b)[Len(Kids(b))], nregs |-> e.next - 1]))

(***************************************************************************)
(* The heap evaluator.  `draws` counts the values taken from generators,   *)
(* so that two calls of one give different values.                         *)
(***************************************************************************)
Ctx(clock, draws) == [now |-> clock, draw |-> draws % 2]
DrawnAfter(f, draws) == IF f \in PureFns THEN draws ELSE draws + 1
Nested == {"call", "if", "multiif", "ifnull", "nullif", "and", "or"}
RECURSIVE eval_expr(_, _, _, _)
RECURSIVE AstKids(_, _, _, _, _)
AstDone(e, done, env, draws) ==
    CASE Op(e) = "const" -> Ok(e[2])
      [] Op(e) = "var" -> IF Has(env, e[2]) THEN Ok(env[e[2]]) ELSE Err("UndefinedVariable")
      [] Op(e) \in {"field", "fields"} -> Err("FieldOutsideTransform")
      [] Op(e) = "call" ->
            IF ~get_ref(e[2], Len(Kids(e))) THEN Err("UnknownFunction")
            ELSE Builtin(e[2], "value", [i \in 1..Len(done) |-> done[i][2]], Ctx(1, draws))
      [] OTHER -> Combine(e, Len(Kids(e)), done)
AfterAst(e, k, done, env, d, o) ==
    IF ~IsOk(o.r) THEN o
    ELSE AstKids(e, Append(done, <<k, o.r[2]>>),
                 IF Op(e) = "block" /\ k < Len(Kids(e)) THEN (e[2][k] :> o.r[2]) @@ env ELSE env, o.draws, d)
AstKids(e, done, env, draws, d) ==
    LET k == NextKid(e, Len(Kids(e)), done, 1..Len(Kids(e)))
    IN  IF k = 0
        THEN [r |-> AstDone(e, done, env, draws), draws |-> IF Op(e) = "call" THEN DrawnAfter(e[2], draws) ELSE draws]
        ELSE AfterAst(e, k, done, env, d, eval_expr(Kids(e)[k], env, draws, d))
eval_expr(e, env, draws, d) ==
    IF Op(e) \in Nested /\ d = MaxDepth THEN [r |-> Err("NestingTooDeep"), draws |-> draws]
    ELSE AstKids(e, <<>>, env, draws, IF Op(e) \in Nested THEN d + 1 ELSE d)
eval_program(ast) ==
    eval_expr(E("block", [i \in 1..Len(ast.stmts) |-> ast.stmts[i][1]], Trees(ast)), <<>>, 0, 0).r

(***************************************************************************)
(* Compaction.  A node of the arena has references for kids; a block       *)
(* becomes nested bind nodes and a constant its place in the pool.         *)
(***************************************************************************)
exact_dedup_key(v) == IF IsFloat(v) \/ Tag(v) = "Decimal" THEN Err("None") ELSE KeyOf(<<v>>)
SameConst(consts, v) ==
    {i \in 1..Len(consts) : /\ Tag(consts[i]) = Tag(v) /\ IsOk(exact_dedup_key(v))
                            /\ KeyEq(exact_dedup_key(consts[i])[2], exact_dedup_key(v)[2])}
Interned(a, v, hits) ==
    IF hits # {} THEN [a EXCEPT !.at = Min(hits)]
    ELSE [a EXCEPT !.consts = Append(@, v), !.at = Len(a.consts) + 1]
intern_const(a, v) == Interned(a, v, SameConst(a.consts, v))
Alloc(a, node) == [a EXCEPT !.nodes = Append(@, node), !.at = Len(a.nodes) + 1]
Binds(e) ==
    IF Op(e) # "block" THEN e
    ELSE FoldRight(LAMBDA i, body : E("bind", e[2][i], <<Kids(e)[i], body>>), Indices(e[2]), Last(Kids(e)))
\* The order in which the kids of a node enter the arena.
CompactOrder(e) ==
    CASE Op(e) = "bind" -> <<2, 1>>
      [] Op(e) = "switch" -> [i \in 1..Len(Kids(e)) |-> 1 + ((i + e[2][1] - 1) % Len(Kids(e)))]
      [] OTHER -> Indices(Kids(e))
RECURSIVE compact_expr(_, _)
Full(a) == Len(a.nodes) > MaxArena + 1 \/ Len(a.consts) > MaxArena + 1
Placed(acc, i, a) == [a |-> a, refs |-> [acc.refs EXCEPT ![i] = a.at]]
CompactKid(acc, e, i) == IF Full(acc.a) THEN acc ELSE Placed(acc, i, compact_expr(acc.a, Kids(e)[i]))
CompactKids(a, e, order) ==
    FoldLeft(LAMBDA x, i : CompactKid(x, e, i), [a |-> a, refs |-> Indices(Kids(e))], order)
\* A constant, and the one an assertion yields, is a place in the pool.
Pooled(e, refs, a) ==
    Alloc(a, IF Op(e) = "const" THEN E("const", a.at, refs) ELSE E("assert", <<e[2][1], <<a.at>>>>, refs))
CompactNode(e, acc) ==
    IF Op(e) = "const" \/ (Op(e) = "assert" /\ e[2][2] # <<>>)
    THEN Pooled(e, acc.refs, intern_const(acc.a, IF Op(e) = "const" THEN e[2] ELSE e[2][2][1]))
    ELSE Alloc(acc.a, E(Op(e), e[2], acc.refs))
CompactTree(a, e) == CompactNode(e, CompactKids(a, e, CompactOrder(e)))
compact_expr(a, e) == CompactTree(a, Binds(e))
Compacted(p, end) ==
    IF Full(end.a) THEN Err("Overflow")
    ELSE Ok([nodes |-> end.a.nodes, consts |-> end.a.consts, nregs |-> p.nregs, result |-> Last(end.refs),
             stmts |-> [i \in 1..Len(p.stmts) |-> <<p.stmts[i][1], end.refs[i]>>]])
compact(p) ==
    Compacted(p, CompactKids([nodes |-> <<>>, consts |-> <<>>, at |-> 0], E("array", <<>>, Trees(p)), Indices(Trees(p))))
All == <<<<>>>>             \* FieldsSelector::All; a named selector lists non-empty names
source_fields(c) ==
    LET NamesOf(n) == CASE Op(n) = "src" -> <<n[2]>>
                        [] Op(n) = "fields" /\ n[2] # All -> n[2]
                        [] OTHER -> <<>>
    IN  FlattenSeq(MapSeq(c.nodes, NamesOf))
reads_all_fields(c) == \E i \in 1..Len(c.nodes) : Op(c.nodes[i]) = "fields" /\ c.nodes[i][2] = All

(***************************************************************************)
(* Move annotation: liveness against the order of evaluation.  A read of a *)
(* register that no path reads again takes the value and leaves null.      *)
(***************************************************************************)
RECURSIVE Below(_, _)
Below(c, ref) == {ref} \cup UNION {Below(c, k) : k \in {Kids(c.nodes[ref])[i] : i \in 1..Len(Kids(c.nodes[ref]))}}
IsRead(n, r) == Op(n) \in {"reg", "take"} /\ n[2] = r
count_register_reads(c, ref, r) == Cardinality({k \in Below(c, ref) : IsRead(c.nodes[k], r)})
\* Registers a call reads directly and more than once: the function reads its
\* window in an order of its own, so none of those reads may move.
Aliased(c, node) ==
    {r \in 1..c.nregs :
        /\ \E i \in 1..Len(Kids(node)) : IsRead(c.nodes[Kids(node)[i]], r)
        /\ 2 <= FoldLeft(LAMBDA n, k : n + count_register_reads(c, k, r), 0, Kids(node))}
\* The kids that may run next after kid i; none when the node is finished.
Successors(node, i) ==
    LET n == Len(Kids(node)) IN
    CASE Op(node) \in {"if", "multiif"} -> IF IsCondition(node, n, i) THEN {i + 1, i + 2} ELSE {}
      [] Op(node) = "switch" ->
            IF i < node[2][1] THEN {i + 1} ELSE IF i = node[2][1] THEN i + 1..n ELSE {}
      [] OTHER -> IF i < n THEN {i + 1} ELSE {}
analyze_call_args(c, node, live) == IF Op(node) = "call" THEN live \cup Aliased(c, node) ELSE live
RECURSIVE analyze(_, _, _)
AnalyzeKid(c, node, live, acc, i) ==
    LET next == Successors(node, i)
        after == IF next = {} THEN live ELSE UNION {acc.before[j] : j \in next}
        o == analyze(c, Kids(node)[i], IF Op(node) = "bind" /\ i = 1 THEN after \ {node[2]} ELSE after)
    IN  [before |-> [acc.before EXCEPT ![i] = o.live], take |-> acc.take \cup o.take]
AnalyzeNode(c, ref, node, live) ==
    LET acc == FoldRight(LAMBDA i, a : AnalyzeKid(c, node, live, a, i), Indices(Kids(node)),
                         [before |-> Indices(Kids(node)), take |-> {}])
    IN  CASE Op(node) = "reg" ->
                [live |-> live \cup {node[2]}, take |-> IF node[2] \in live THEN {} ELSE {ref}]
          [] Op(node) = "take" -> [live |-> live \cup {node[2]}, take |-> {}]
          [] Kids(node) = <<>> -> [live |-> live, take |-> {}]
          [] OTHER -> [live |-> acc.before[1], take |-> acc.take]
analyze(c, ref, live) ==
    AnalyzeNode(c, ref, c.nodes[ref], analyze_call_args(c, c.nodes[ref], live))
annotate(c) ==
    LET roots == Append(c.stmts, <<0, c.result>>)
        Back(root, acc) == LET o == analyze(c, root[2], acc.live)
                           IN  [live |-> o.live \ {root[1]}, take |-> acc.take \cup o.take]
        marks == FoldRight(Back, roots, [live |-> {}, take |-> {}]).take
    IN  [c EXCEPT !.nodes = [i \in 1..Len(@) |-> IF i \in marks THEN E("take", @[i][2], <<>>) ELSE @[i]]]

(***************************************************************************)
(* The evaluator.  s is [regs, row, draws]; the row is a sequence of       *)
(* <<name, value>> and a column it does not have reads as null.            *)
(***************************************************************************)
RowField(row, name) ==
    LET at == {i \in 1..Len(row) : row[i][1] = name} IN IF at = {} THEN Null ELSE row[Min(at)][2]
RowFields(row, selector) ==
    <<"Object", IF selector = All THEN row ELSE MapSeq(selector, LAMBDA name : <<name, RowField(row, name)>>)>>
\* Arguments through the window: a value the call evaluated, or a constant or
\* register read when the function asks for it.
WindowArg(c, node, done, acc, i) ==
    LET kid == c.nodes[Kids(node)[i]]
        v == CASE Op(kid) = "const" -> c.consts[kid[2]]
               [] Op(kid) \in {"reg", "take"} -> acc.regs[kid[2]]
               [] OTHER -> done[CHOOSE j \in 1..Len(done) : done[j][1] = i][2]
    IN  [xs |-> Append(acc.xs, v), regs |-> IF Op(kid) = "take" THEN [acc.regs EXCEPT ![kid[2]] = Null] ELSE acc.regs]
Outcome(r, s) == [r |-> r, regs |-> s.regs, draws |-> s.draws]
eval_call(c, node, done, s) ==
    LET w == FoldLeft(LAMBDA acc, i : WindowArg(c, node, done, acc, i), [xs |-> <<>>, regs |-> s.regs],
                      Indices(Kids(node)))
    IN  [r |-> Builtin(node[2], "value", w.xs, Ctx(1, s.draws)), regs |-> w.regs, draws |-> DrawnAfter(node[2], s.draws)]
Resolved(c, node) ==
    IF Op(node) = "assert" /\ node[2][2] # <<>> THEN E("assert", <<node[2][1], <<c.consts[node[2][2][1]]>>>>, node[3])
    ELSE node
NodeDone(c, node, done, s) ==
    CASE Op(node) = "const" -> Outcome(Ok(c.consts[node[2]]), s)
      [] Op(node) = "reg" -> Outcome(Ok(s.regs[node[2]]), s)
      [] Op(node) = "take" -> Outcome(Ok(s.regs[node[2]]), [s EXCEPT !.regs[node[2]] = Null])
      [] Op(node) = "src" -> Outcome(Ok(RowField(s.row, node[2])), s)
      [] Op(node) = "fields" -> Outcome(Ok(RowFields(s.row, node[2])), s)
      [] Op(node) = "field" -> Outcome(Err("FieldNotBound"), s)
      [] Op(node) = "call" -> eval_call(c, node, done, s)
      [] OTHER -> Outcome(Combine(Resolved(c, node), Len(Kids(node)), done), s)
RECURSIVE eval_node(_, _, _, _)
RECURSIVE NodeKids(_, _, _, _, _)
Store(regs, r, v) == IF r = 0 THEN regs ELSE [regs EXCEPT ![r] = v]
AfterNode(c, node, k, done, s, d, o) ==
    IF ~IsOk(o.r) THEN o
    ELSE NodeKids(c, node, Append(done, <<k, o.r[2]>>),
                  [s EXCEPT !.draws = o.draws,
                            !.regs = Store(o.regs, IF Op(node) = "bind" /\ k = 1 THEN node[2] ELSE 0, o.r[2])], d)
VisitKid(c, node, k, done, s, d) ==
    IF k = 0 THEN NodeDone(c, node, done, s)
    ELSE AfterNode(c, node, k, done, s, d, eval_node(c, Kids(node)[k], s, d + 1))
NodeKids(c, node, done, s, d) ==
    VisitKid(c, node, NextKid(node, Len(Kids(node)), done,
                              {i \in 1..Len(Kids(node)) : Op(c.nodes[Kids(node)[i]]) \notin Windowed}), done, s, d)
eval_node(c, ref, s, d) ==
    IF d > MaxDepth THEN Outcome(Err("NestingTooDeep"), s) ELSE NodeKids(c, c.nodes[ref], <<>>, s, d)
Bound(o, r) == IF IsOk(o.r) THEN [o EXCEPT !.regs = Store(@, r, o.r[2])] ELSE o
RunRoot(c, row, o, root) ==
    IF ~IsOk(o.r) THEN o ELSE Bound(eval_node(c, root[2], [regs |-> o.regs, row |-> row, draws |-> o.draws], 0), root[1])
evaluate_row(c, row) ==
    FoldLeft(LAMBDA o, root : RunRoot(c, row, o, root),
             [r |-> Ok(Null), regs |-> [i \in 1..c.nregs |-> Null], draws |-> 0], Append(c.stmts, <<0, c.result>>)).r
=============================================================================
