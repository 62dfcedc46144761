--------------------------- MODULE ExprOptimizer ----------------------------
(* crates/expr/optimize: guard propagation, the passes over a whole program   *)
(* (second_pass_rules/) and the static checks (check/).                       *)
EXTENDS ExprTyped

(***************************************************************************)
(* Guard propagation.  env maps operands to the value a guard pins them to *)
(* on the path being rewritten.                                            *)
(***************************************************************************)
is_substitutable(v) == Tag(v) \in {"Null", "Text", "Bool"}
\* <<operand, constant>> of a comparison of the two, <<>> of any other.
operand_and_const(args) ==
    CASE IsFrozen(args[1]) /\ Op(args[2]) = "const" -> <<args[1], args[2][2]>>
      [] Op(args[1]) = "const" /\ IsFrozen(args[2]) -> <<args[2], args[1][2]>>
      [] OTHER -> <<>>
pinned_value(e, truth) ==
    CASE Op(e) # "call" -> <<>>
      [] Op(e) = "call" /\ e[2] \in {"isNull", "isNotNull"} ->
            IF (e[2] = "isNull") = truth /\ IsFrozen(Kids(e)[1]) THEN <<Kids(e)[1], Null>> ELSE <<>>
      [] Op(e) = "call" /\ ((e[2] = "equals" /\ truth) \/ (e[2] = "notEquals" /\ ~truth)) ->
            LET pin == operand_and_const(Kids(e)) IN IF pin # <<>> /\ is_substitutable(pin[2]) THEN pin ELSE <<>>
      [] OTHER -> <<>>
With(env, pin) == IF pin = <<>> THEN env ELSE (pin[1] :> pin[2]) @@ env
extend(env, condition, truth) == With(env, pinned_value(condition, truth))
IsArm(e, i) == Op(e) \in {"if", "multiif"} /\ i % 2 = 0
KidEnv(e, acc, i) ==
    CASE IsArm(e, i) \/ (Op(e) = "and" /\ i = 2) -> extend(acc.env, acc.kids[i - 1], TRUE)
      [] Op(e) = "ifnull" /\ i = 2 -> IF IsFrozen(acc.kids[1]) THEN With(acc.env, <<acc.kids[1], Null>>) ELSE acc.env
      [] OTHER -> acc.env
RECURSIVE propagate(_, _)
PropagateKid(e, acc, i) ==
    [kids |-> Append(acc.kids, propagate(Kids(e)[i], KidEnv(e, acc, i))),
     env |-> IF IsArm(e, i) THEN extend(acc.env, acc.kids[i - 1], FALSE) ELSE acc.env]
propagate(e, env) ==
    IF IsFrozen(e) THEN IF Has(env, e) THEN Const(env[e]) ELSE e
    ELSE E(e[1], e[2], FoldLeft(LAMBDA acc, i : PropagateKid(e, acc, i), [kids |-> <<>>, env |-> env], Indices(Kids(e))).kids)
guard_propagation(p) == MapProgram(p, LAMBDA e : propagate(e, <<>>))

(***************************************************************************)
(* Programs as blocks, for the passes that thread something through one.   *)
(***************************************************************************)
AsBlock(p) == E("block", [i \in 1..Len(p.stmts) |-> p.stmts[i][1]], Trees(p))
AsProgram(p, b) ==
    [p EXCEPT !.stmts = [i \in 1..Len(b[2]) |-> <<b[2][i], Kids(b)[i]>>], !.result = Last(Kids(b))]

\* ConstantInliner: a binding to a constant goes away and its reads become it.
RECURSIVE substitute(_, _)
InlineKid(e, acc, i) ==
    LET o == substitute(Kids(e)[i], acc.consts)
        bound == Op(e) = "block" /\ i < Len(Kids(e))
        gone == bound /\ Op(o.e) = "const"
    IN  [kids |-> IF gone THEN acc.kids ELSE Append(acc.kids, o.e),
         regs |-> IF bound /\ ~gone THEN Append(acc.regs, e[2][i]) ELSE acc.regs,
         consts |-> IF gone THEN (e[2][i] :> o.e[2]) @@ o.consts ELSE o.consts]
InlineNode(e, acc) == [e |-> E(e[1], IF Op(e) = "block" THEN acc.regs ELSE e[2], acc.kids), consts |-> acc.consts]
substitute(e, consts) ==
    IF Op(e) = "reg" THEN [e |-> IF Has(consts, e[2]) THEN Const(consts[e[2]]) ELSE e, consts |-> consts]
    ELSE InlineNode(e, FoldLeft(LAMBDA acc, i : InlineKid(e, acc, i),
                                [kids |-> <<>>, regs |-> <<>>, consts |-> consts], Indices(Kids(e))))
ConstantInliner(p) == AsProgram(p, substitute(AsBlock(p), <<>>).e)

\* RegisterPruner: a binding nothing reads goes away unless it can fail.
UsedRegisters(e) == {n[2] : n \in {m \in ToSet(Nodes(e)) : Op(m) = "reg"}}
PruneBlock(b, used) ==
    LET kept == SelectSeq(Indices(b[2]), LAMBDA i : b[2][i] \in used \/ can_fail(Kids(b)[i]))
    IN  E("block", MapSeq(kept, LAMBDA i : b[2][i]), Append(MapSeq(kept, LAMBDA i : Kids(b)[i]), Last(Kids(b))))
Collapsed(b) == IF b[2] = <<>> THEN Kids(b)[1] ELSE b
RECURSIVE prune_blocks(_, _)
Pruned(e, used) == IF Op(e) = "block" THEN Collapsed(PruneBlock(e, used)) ELSE e
\* A node over its pruned children.
for_each_child_mut(e, used) == MapKids(e, LAMBDA k : prune_blocks(k, used))
prune_blocks(e, used) == Pruned(for_each_child_mut(e, used), used)
RECURSIVE RegisterPruner(_)
AfterPrune(p, q) == IF q = p THEN p ELSE RegisterPruner(q)
PruneProgram(p, used) ==
    MapProgram(AsProgram(p, PruneBlock(AsBlock(p), used)), LAMBDA e : prune_blocks(e, used))
RegisterPruner(p) == AfterPrune(p, PruneProgram(p, UsedRegisters(AsBlock(p))))
second_pass_optimize(p) == RegisterPruner(ConstantInliner(p))

\* FieldHoister, a finalizer: a column read twice or more is read once, into
\* a register of its own, while there are registers left.
FieldReads(p) == SelectSeq(Nodes(AsBlock(p)), LAMBDA n : Op(n) = "src")
Targets(p, reads) ==
    LET First(i) == \A j \in 1..i - 1 : reads[j] # reads[i]
        Again(i) == \E j \in i + 1..Len(reads) : reads[j] = reads[i]
        names == MapSeq(SelectSeq(Indices(reads), LAMBDA i : First(i) /\ Again(i)), LAMBDA i : reads[i][2])
    IN  SubSeq(names, 1, Min({Len(names), Max({MaxArena - p.nregs, 0})}))
RECURSIVE rewrite_fields(_, _)
rewrite_fields(e, regs) ==
    IF Op(e) = "src" THEN (IF Has(regs, e[2]) THEN E("reg", regs[e[2]], <<>>) ELSE e)
    ELSE MapKids(e, LAMBDA k : rewrite_fields(k, regs))
Hoisted(p, names) ==
    LET regs == [name \in ToSet(names) |-> p.nregs + (CHOOSE i \in 1..Len(names) : names[i] = name)]
        q == MapProgram(p, LAMBDA e : rewrite_fields(e, regs))
    IN  [q EXCEPT !.stmts = MapSeq(names, LAMBDA name : <<regs[name], E("src", name, <<>>)>>) \o @,
                  !.nregs = p.nregs + Len(names)]
FieldHoister(p) == Hoisted(p, Targets(p, FieldReads(p)))

(***************************************************************************)
(* Static checks, on every node with whether it runs for every row.        *)
(***************************************************************************)
EagerKid(e, i) ==
    CASE Op(e) \in {"if", "multiif", "ifnull", "and", "or"} -> i = 1
      [] Op(e) = "switch" -> i <= e[2][1]
      [] OTHER -> TRUE
RECURSIVE Walk(_, _)
Walk(e, eager) ==
    <<<<e, eager>>>> \o FlattenSeq([i \in 1..Len(Kids(e)) |-> Walk(Kids(e)[i], eager /\ EagerKid(e, i))])
EagerConstEval(e, eager) ==
    IF ~eager \/ Op(e) # "call" THEN Ok(Null)
    ELSE LET r == Folded(e[2], Kids(e)) IN IF IsOk(r) \/ r = Err("NotConstant") THEN Ok(Null) ELSE r
ConstArgsValidation(e) == IF Op(e) = "call" THEN validate_const_args(e[2], MapSeq(Kids(e), AsConst)) ELSE Ok(Null)
FieldArgCheck(e) == IF Op(e) = "field" THEN Err("NonConstFieldArg") ELSE Ok(Null)
\* Two asserts of one conjunction that ask one operand to be of two classes.
ConjunctionInfeasibility(e) ==
    LET asserts == SelectSeq(Leaves("and", e), LAMBDA c : Op(c) = "assert")
        Clash(a, b) == IsFrozen(Kids(a)[1]) /\ Kids(a) = Kids(b) /\ a[2][1] # b[2][1]
    IN  IF Op(e) = "and" /\ \E i, j \in 1..Len(asserts) : Clash(asserts[i], asserts[j])
        THEN Err("InfeasibleConjunction") ELSE Ok(Null)
CheckNode(e, eager) ==
    Collect(<<EagerConstEval(e, eager), ConstArgsValidation(e), FieldArgCheck(e), ConjunctionInfeasibility(e)>>)
static_check(p) ==
    Then2(Collect(MapSeq(FlattenSeq(MapSeq(Trees(p), LAMBDA e : Walk(e, TRUE))), LAMBDA n : CheckNode(n[1], n[2]))),
          LAMBDA oks : Ok(p))

-----------------------------------------------------------------------------
(* crates/expr/optimize/src/optimizer.rs: the compilation of an expression,   *)
(* one action per pass.  After each of them Observe runs the program as it    *)
(* stands on every row, next to what the program gave before any rewriting.   *)

CONSTANTS
    Jobs            \* [ast, cx, expected, rows]: a parsed program, its schema, the column it feeds, rows

MAX_PROGRAM_ITERS == 16

VARIABLES
    job,            \* the compilation at hand
    phase,          \* the pass to run next; "refused" or "done" at the end
    observed,       \* whether the program has been run since it last changed
    prog,           \* the OptProgram; from compaction on the CompactProgram
    round,          \* rounds of the fixpoint so far
    before,         \* count_program_items at the start of the round
    typed_changed,  \* whether a typed rule rewrote something in this round
    error,          \* why the compilation was refused
    base,           \* what the lowered program gives for each row
    now_gives       \* what the program gives for each row as it stands
vars == <<job, phase, observed, prog, round, before, typed_changed, error, base, now_gives>>

NoProgram == [stmts |-> <<>>, result |-> Const(Null), nregs |-> 0]
OptInit ==
    /\ job \in Jobs
    /\ phase = "lower" /\ observed = TRUE /\ prog = NoProgram /\ round = 0 /\ before = 0
    /\ typed_changed = FALSE /\ error = "" /\ base = <<>> /\ now_gives = <<>>

Becomes(p, next) == prog' = p /\ phase' = next /\ observed' = FALSE
\* Go on with the program of r, or stop with its error.
Continue(r, next) ==
    IF IsOk(r) THEN Becomes(r[2], next) /\ UNCHANGED error
    ELSE phase' = "refused" /\ error' = r[2] /\ UNCHANGED <<prog, observed>>
At_phase(name) == phase = name /\ observed

\* Tolerant derivation of the types comes before the typed rules.
DeriveTypes(p, cx) == Then2(type_program(p, [cx EXCEPT !.tolerant = TRUE]), LAMBDA t : Ok(typed_run(p, t)))
StrictTypes(p, cx, expected) == Then2(type_check(p, cx, expected), LAMBDA t : Ok(p))
RECURSIVE NamedColumns(_)
NamedColumns(e) == FieldCollapse(MapKids(e, NamedColumns))
Runs(c, rows) == IF IsOk(c) THEN [i \in 1..Len(rows) |-> evaluate_row(c[2], rows[i])] ELSE <<c>>

LowerProgram ==
    /\ At_phase("lower")
    /\ Continue(convert_program(job.ast), "guard")
    /\ UNCHANGED <<job, round, before, typed_changed, base, now_gives>>
Guard ==
    /\ At_phase("guard")
    /\ Becomes(guard_propagation(prog), "rewrite")
    /\ before' = count_program_items(prog) /\ round' = round + 1
    /\ UNCHANGED <<job, typed_changed, error, base, now_gives>>
Rewrite ==
    /\ At_phase("rewrite")
    /\ Becomes(rewrite_optimize(prog), "second")
    /\ UNCHANGED <<job, round, before, typed_changed, error, base, now_gives>>
SecondPass ==
    /\ At_phase("second")
    /\ Becomes(second_pass_optimize(prog), "typed")
    /\ UNCHANGED <<job, round, before, typed_changed, error, base, now_gives>>
TypedStep(r) == Continue(r, "more") /\ typed_changed' = (IsOk(r) /\ r[2] # prog)
TypedPass ==
    /\ At_phase("typed")
    /\ TypedStep(IF job.cx.known THEN DeriveTypes(prog, job.cx) ELSE Ok(prog))
    /\ UNCHANGED <<job, round, before, base, now_gives>>
\* The fixpoint ends with a round that shrank nothing and typed nothing away.
Converged == count_program_items(prog) >= before /\ ~typed_changed
More ==
    /\ At_phase("more")
    /\ phase' = IF Converged \/ round = MAX_PROGRAM_ITERS THEN "finalize" ELSE "guard"
    /\ UNCHANGED <<job, observed, prog, round, before, typed_changed, error, base, now_gives>>
FinalizeRewrite ==
    /\ At_phase("finalize")
    /\ Becomes(rewrite_finalize(prog), "hoist")
    /\ UNCHANGED <<job, round, before, typed_changed, error, base, now_gives>>
FinalizeHoist ==
    /\ At_phase("hoist")
    /\ Becomes(FieldHoister(prog), "check")
    /\ UNCHANGED <<job, round, before, typed_changed, error, base, now_gives>>
StaticCheck ==
    /\ At_phase("check")
    /\ Continue(static_check(prog), "types")
    /\ UNCHANGED <<job, round, before, typed_changed, base, now_gives>>
TypeCheck ==
    /\ At_phase("types")
    /\ Continue(IF job.cx.known \/ job.expected # <<>> THEN StrictTypes(prog, job.cx, job.expected) ELSE Ok(prog),
                "compact")
    /\ UNCHANGED <<job, round, before, typed_changed, base, now_gives>>
Compact ==
    /\ At_phase("compact")
    /\ Continue(compact(prog), "annotate")
    /\ UNCHANGED <<job, round, before, typed_changed, base, now_gives>>
Annotate ==
    /\ At_phase("annotate")
    /\ Becomes(annotate(prog), "done")
    /\ UNCHANGED <<job, round, before, typed_changed, error, base, now_gives>>
\* A program that is not yet compact is run as it would be without more passes;
\* a column it still reads by a constant name is that column.
Observe ==
    /\ ~observed
    /\ observed' = TRUE
    /\ now_gives' = Runs(IF phase \in {"annotate", "done"} THEN Ok(prog) ELSE compact(MapProgram(prog, NamedColumns)), job.rows)
    /\ base' = IF round = 0 THEN now_gives' ELSE base
    /\ UNCHANGED <<job, phase, prog, round, before, typed_changed, error>>
OptNext ==
    \/ LowerProgram \/ Guard \/ Rewrite \/ SecondPass \/ TypedPass \/ More \/ FinalizeRewrite \/ FinalizeHoist
    \/ StaticCheck \/ TypeCheck \/ Compact \/ Annotate \/ Observe
OptSpec == OptInit /\ [][OptNext]_vars

(***************************************************************************)
(* Properties                                                              *)
(***************************************************************************)
\* The nodes of the program as it was written.
SourceNodes == ToSet(FlattenSeq(MapSeq(Trees(job.ast), Nodes)))
\* Two things change what a program does on a row.  A function that says it
\* cannot fail still fails on values of the wrong type, or of two number types,
\* and with the call its error goes away when nothing reads it ("only functions
\* that are total for every well-typed input", signature.rs).  And a test of
\* two keys that becomes a lookup evaluates the second key also where the first
\* one does not match (or_membership.rs, switch_lower.rs).
ErrorUnread(i) ==
    base[i] = Err("TypeMismatch") /\ \E n \in SourceNodes : Op(n) = "call" /\ n[2] \in TotalFns
BothKeys(n) == Op(n) = "and" /\ IsOk(parse_clause(n)) /\ \E j \in 2..Len(parse_clause(n)[2]) : can_fail(parse_clause(n)[2][j][1])
KeyEvaluated(i) == ~IsOk(now_gives[i]) /\ \E n \in SourceNodes : BothKeys(n)
\* Every pass is observation-neutral but for these: on every row the program
\* gives the value the lowered program gives, and fails where it fails
\* (optimizer.rs, every rule's module comment).
PassesPreserveMeaning ==
    observed /\ base # <<>> =>
        \A i \in 1..Len(base) :
            IF IsOk(base[i]) THEN now_gives[i] = base[i] \/ KeyEvaluated(i) ELSE ~IsOk(now_gives[i]) \/ ErrorUnread(i)
\* The compiled program, in registers and an arena, gives for a row what the
\* heap evaluator gives for the parsed one with the row's values in the place
\* of its columns (crates/expr/runtime/src/evaluator.rs, the reference).
RECURSIVE Filled(_, _)
Filled(e, row) ==
    CASE Op(e) = "src" -> Const(RowField(row, e[2]))
      [] Op(e) = "fields" -> Const(RowFields(row, e[2]))
      [] OTHER -> MapKids(e, LAMBDA k : Filled(k, row))
Agree(r, o) == IsOk(r) = IsOk(o) /\ (IsOk(r) => r = o)
LoweringFaithful ==
    observed /\ round = 0 /\ base # <<>> =>
        \A i \in 1..Len(base) :
            Agree(base[i], eval_program(MapProgram(job.ast, LAMBDA e : Filled(NamedColumns(e), job.rows[i]))))
\* The static checks refuse for a constant call only a program that fails on
\* every row (check/eager_const.rs).
RefusedAlwaysFails ==
    phase = "refused" /\ error \in {"EvalFailed", "DivisionByZero"} => \A i \in 1..Len(base) : ~IsOk(base[i])
\* Inside the fixpoint no pass makes the program larger, so a round that shrank
\* nothing has converged (optimizer.rs, count_program_items).  Only the lowering
\* of conditionals to a lookup may: it copies the value of a branch to each of the
\* keys its condition joins by `or` (switch_lower.rs), and does so once.
InFixpoint == phase \in {"guard", "rewrite", "second", "typed"} /\ phase' # "refused"
Lookups(p) == Len(SelectSeq(FlattenSeq(MapSeq(Trees(p), Nodes)), LAMBDA n : Op(n) = "switch"))
SpreadsValues(n) == Op(n) \in {"if", "multiif"} /\ \E i \in 1..Len(Kids(n)) - 1 : i % 2 = 1 /\ Op(Kids(n)[i]) = "or"
Spread == \E n \in ToSet(FlattenSeq(MapSeq(Trees(prog), Nodes))) : SpreadsValues(n)
NeverGrows ==
    [][InFixpoint => \/ count_program_items(prog') <= count_program_items(prog)
                     \/ phase = "rewrite" /\ Spread /\ Lookups(prog') > Lookups(prog)]_vars
\* A program the type checker let through for a column gives only values that
\* the column accepts (engines/type_check.rs, check_output).
OutputFits ==
    phase = "done" /\ observed /\ job.cx.known /\ job.expected # <<>> =>
        \A i \in 1..Len(now_gives) :
            IsOk(now_gives[i]) /\ now_gives[i][2] # Null => is_compatible(data_type(now_gives[i][2]), job.expected[1].type)

\* The compiled program means what was written, pass by pass: it gives what the
\* heap evaluator gives, is refused only if it always fails, and what the type
\* checker let through fits the column.
CompilerFaithful ==
    PassesPreserveMeaning /\ LoweringFaithful /\ RefusedAlwaysFails /\ OutputFits
=============================================================================
