----------------------------- MODULE ExprRules -----------------------------
(* crates/expr/optimize/src/rules: the rewrite rules that need no types, in   *)
(* the order RuleSet::create lists them, and the driver that applies them to  *)
(* a fixpoint.  A rule gives the node it was handed when it does not apply.   *)
EXTENDS ExprEval

CONSTANTS
    MIN_SWITCH_BRANCHES, MIN_MEMBERSHIP_ENTRIES     \* both 6 in the code, scaled

MAX_COLLAPSE_BRANCHES == 2
MAX_LOCAL_ITERS == 32

Text(s) == <<"Text", s>>
Empty == Text(<<>>)
CallOf(f, args) == E("call", f, args)
IsFalse(e) == IsConst(e, Bool(FALSE)) \/ IsConst(e, Null)
IsTrue(e) == IsConst(e, Bool(TRUE))
IsTruth(e) == Op(e) = "const" /\ e[2] \in Truths
IsText(e) == Op(e) = "const" /\ Tag(e[2]) = "Text"
OnCallOf(e, f, rewritten) == IF IsCallOf(e, f) THEN rewritten ELSE e
\* outer(inner(x)), both with one argument.
IsNested(e, outer, inner) ==
    IsCallOf(e, outer) /\ Len(Kids(e)) = 1 /\ IsCallOf(Kids(e)[1], inner) /\ Len(Kids(Kids(e)[1])) = 1
Operand(e) == Kids(Kids(e)[1])[1]
\* The arguments with those of a nested call of the same function in its place.
splice_same(args, f) == FlattenSeq(MapSeq(args, LAMBDA a : IF IsCallOf(a, f) THEN Kids(a) ELSE <<a>>))

(***************************************************************************)
(* Constants                                                               *)
(***************************************************************************)
FieldCollapse(e) ==
    IF Op(e) # "field" THEN e
    ELSE IF IsText(Kids(e)[1]) THEN E("src", Kids(e)[1][2][2], <<>>)
    ELSE IF Op(Kids(e)[1]) = "src" THEN Kids(e)[1] ELSE e
\* The value of a call known at compile time, an error when it is not known.
Folded(f, args) ==
    IF AllConst(args) /\ purity(f, f \in PureFns, MapSeq(args, LAMBDA a : TRUE))
    THEN Builtin(f, "value", ConstValues(args), Ctx(0, 0)) ELSE Err("NotConstant")
ConstFold(e) ==
    LET r == IF Op(e) = "call" THEN Folded(e[2], Kids(e)) ELSE Err("NotConstant")
    IN  IF IsOk(r) THEN Const(r[2]) ELSE e
\* InterpolationFold, ObjectFold, ArrayFold: the node on its constants, unless
\* the rendered text is too long.
LiteralFold(e) ==
    LET r == IF Op(e) \in {"interp", "object", "array"} /\ AllConst(Kids(e))
             THEN Combine(e, Len(Kids(e)), [i \in 1..Len(Kids(e)) |-> <<i, Kids(e)[i][2]>>])
             ELSE Err("NotConstant")
    IN  IF IsOk(r) THEN Const(r[2]) ELSE e

(***************************************************************************)
(* Access to an object or array literal                                    *)
(***************************************************************************)
NoneFails(es, but) == \A i \in 1..Len(es) : i = but \/ ~can_fail(es[i])
const_text_key(args) == Len(args) = 2 /\ IsText(args[2])
KeyAt(object, key) == {i \in 1..Len(object[2]) : object[2][i] = key}
fold_object_get(e, object, key) ==
    LET at == KeyAt(object, key) IN
    IF ~NoneFails(Kids(object), IF at = {} THEN 0 ELSE Min(at)) THEN e
    ELSE IF at = {} THEN Const(Null) ELSE Kids(object)[Min(at)]
fold_object_has_key(e, object, key) ==
    IF ~NoneFails(Kids(object), 0) THEN e ELSE Const(Bool(KeyAt(object, key) # {}))
fold_len(e, literal) == IF ~NoneFails(Kids(literal), 0) THEN e ELSE Const(<<"Int64", Len(Kids(literal))>>)
ObjectAccessFold(e) ==
    IF Op(e) # "call" \/ Kids(e) = <<>> \/ Op(Kids(e)[1]) \notin {"object", "array"} THEN e
    ELSE LET first == Kids(e)[1]
             keyed == Op(first) = "object" /\ const_text_key(Kids(e))
         IN  CASE e[2] = "objectGet" /\ keyed -> fold_object_get(e, first, Kids(e)[2][2][2])
               [] e[2] = "objectHasKey" /\ keyed -> fold_object_has_key(e, first, Kids(e)[2][2][2])
               [] e[2] = "len" -> fold_len(e, first)
               [] OTHER -> e

(***************************************************************************)
(* Conditionals.  The kids of if and multiif are conditions and values in  *)
(* turn, and the default.                                                  *)
(***************************************************************************)
FlattenConditionals(e) ==
    IF Op(e) \in {"if", "multiif"} /\ Op(Last(Kids(e))) \in {"if", "multiif"}
    THEN E("multiif", <<>>, Front(Kids(e)) \o Kids(Last(Kids(e)))) ELSE e
Branches(e) == [i \in 1..(Len(Kids(e)) \div 2) |-> <<Kids(e)[2 * i - 1], Kids(e)[2 * i]>>]
prune_if(e) ==
    IF IsTrue(Kids(e)[1]) THEN Kids(e)[2] ELSE IF IsFalse(Kids(e)[1]) THEN Kids(e)[3] ELSE e
\* Mutant: the branches after one that always holds are kept in front of it.
PruneKeepsLater(e) ==
    LET bs == Branches(e)
        sure == {i \in 1..Len(bs) : IsTrue(bs[i][1])}
        kept == SelectSeq(bs, LAMBDA b : ~IsFalse(b[1]) /\ ~IsTrue(b[1]))
        default == IF sure = {} THEN Last(Kids(e)) ELSE bs[Min(sure)][2]
    IN  IF kept = <<>> THEN default ELSE E("multiif", <<>>, Append(FlattenSeq(kept), default))
prune_multi_if(e) ==
    LET bs == Branches(e)
        sure == {i \in 1..Len(bs) : IsTrue(bs[i][1])}
        kept == SelectSeq(SubSeq(bs, 1, Min(sure \cup {Len(bs) + 1}) - 1), LAMBDA b : ~IsFalse(b[1]))
        default == IF sure = {} THEN Last(Kids(e)) ELSE bs[Min(sure)][2]
    IN  IF kept = <<>> THEN default ELSE E("multiif", <<>>, Append(FlattenSeq(kept), default))
prune_if_null(e) ==
    LET v == Kids(e)[1] IN
    IF IsConst(Kids(e)[2], Null) \/ (Op(v) = "const" /\ v[2] # Null) THEN v
    ELSE IF IsConst(v, Null) THEN Kids(e)[2] ELSE e
prune_null_if(e) ==
    IF ~AllConst(Kids(e)) THEN e
    ELSE IF values_equal(Kids(e)[1][2], Kids(e)[2][2]) THEN Const(Null) ELSE Kids(e)[1]
prune_switch(e) ==
    LET inputs == SubSeq(Kids(e), 1, e[2][1]) IN
    IF AllConst(inputs) THEN Kids(e)[e[2][1] + Lookup(e[2][2], ConstValues(inputs))] ELSE e
\* prune_and, prune_or: `unit` leaves the other operand, its negation decides.
prune_bool(e) ==
    LET unit == Bool(Op(e) = "and")
        decides == Bool(Op(e) = "or")
        left == Kids(e)[1]
        right == Kids(e)[2]
    IN  CASE IsConst(left, decides) -> left
          [] IsConst(left, unit) -> IF IsTruth(right) THEN right ELSE TypeAssert("Bool", right)
          [] IsConst(left, Null) /\ IsTruth(right) -> IF IsConst(right, decides) THEN right ELSE left
          [] OTHER -> e
BranchPrune(e) ==
    CASE Op(e) = "if" -> prune_if(e) [] Op(e) = "multiif" -> prune_multi_if(e)
      [] Op(e) = "ifnull" -> prune_if_null(e) [] Op(e) = "nullif" -> prune_null_if(e)
      [] Op(e) = "switch" -> prune_switch(e) [] Op(e) \in {"and", "or"} -> prune_bool(e)
      [] OTHER -> e
\* Finalizer: a short multiif back into nested ifs.
MultiIfCollapse(e) ==
    IF Op(e) # "multiif" \/ Len(Branches(e)) > MAX_COLLAPSE_BRANCHES THEN e
    ELSE FoldRight(LAMBDA b, rest : E("if", <<>>, b \o <<rest>>), Branches(e), Last(Kids(e)))

(***************************************************************************)
(* Tests of one key against constants become a lookup.  A clause is a      *)
(* sequence of <<expression, constant>>, all of which must match.          *)
(***************************************************************************)
RECURSIVE Leaves(_, _)
Leaves(op, e) == IF Op(e) = op THEN FlattenSeq(MapSeq(Kids(e), LAMBDA k : Leaves(op, k))) ELSE <<e>>
is_switchable_const(v) == IsInt(v) \/ Tag(v) \in {"BigInt", "Text", "Bool", "Uuid"}
EqualsConst(e) ==
    LET a == Kids(e)[1]
        b == Kids(e)[2]
    IN  CASE ~IsCallOf(e, "equals") -> Err("None")
          [] Op(a) # "const" /\ Op(b) = "const" -> IF is_switchable_const(b[2]) THEN Ok(<<a, b[2]>>) ELSE Err("None")
          [] Op(a) = "const" /\ Op(b) # "const" -> IF is_switchable_const(a[2]) THEN Ok(<<b, a[2]>>) ELSE Err("None")
          [] OTHER -> Err("None")
parse_clause(e) == Collect(MapSeq(Leaves("and", e), EqualsConst))
parse_condition(e) == Collect(MapSeq(Leaves("or", e), parse_clause))
\* The constants of a clause in the order of the key's expressions.
clause_to_key(clause, exprs) ==
    LET places == [i \in 1..Len(exprs) |-> {j \in 1..Len(clause) : Same(clause[j][1], exprs[i])}] IN
    IF Len(clause) # Len(exprs) \/ \E i \in 1..Len(exprs) : places[i] = {} THEN Err("None")
    ELSE LET cs == [i \in 1..Len(exprs) |-> clause[Min(places[i])][2]]
         IN  IF IsOk(KeyOf(cs)) THEN Ok(cs) ELSE Err("None")
KeyExprs(clause) ==
    IF Len(clause) > 2 \/ (Len(clause) = 2 /\ Same(clause[1][1], clause[2][1])) THEN Err("None")
    ELSE Ok([i \in 1..Len(clause) |-> clause[i][1]])
SameKey(a, b) == KeyEq(KeyOf(a)[2], KeyOf(b)[2])
\* The first branch with a key wins.
AddEntry(table, entry) ==
    IF \E i \in 1..Len(table) : SameKey(table[i][1], entry[1]) THEN table ELSE Append(table, entry)
\* rows is a sequence of <<condition, value>>; gives the key and its table.
TableOf(key, entries) == [key |-> key, table |-> FoldLeft(AddEntry, <<>>, entries)]
Entries(key, clauses) ==
    Collect(MapSeq(clauses, LAMBDA c : Then2(clause_to_key(c[1], key), LAMBDA k : Ok(<<k, c[2]>>))))
Clauses(rows) ==
    Then2(Collect(MapSeq(rows, LAMBDA r : Then2(parse_condition(r[1]),
                    LAMBDA cs : Ok(MapSeq(cs, LAMBDA c : <<c, r[2]>>))))),
          LAMBDA css : Ok(FlattenSeq(css)))
try_lower(rows) ==
    Then2(Clauses(rows), LAMBDA cs :
        Then2(KeyExprs(cs[1][1]), LAMBDA key :
            IF \E i \in 1..Len(key) : ~is_pure(key[i]) THEN Err("None")
            ELSE Then2(Entries(key, cs), LAMBDA es : Ok(TableOf(key, es)))))
SwitchOf(key, table, default) ==
    E("switch", <<Len(key), MapSeq(table, LAMBDA t : t[1])>>, key \o MapSeq(table, LAMBDA t : t[2]) \o <<default>>)
Lowered(e, least, lowered, default) ==
    IF ~IsOk(lowered) THEN e
    ELSE IF Len(lowered[2].table) < least THEN e
    ELSE SwitchOf(lowered[2].key, lowered[2].table, default)
NoBlockIn(lowered) ==
    Then2(lowered, LAMBDA t : IF \E i \in 1..Len(t.key) : contains_block(t.key[i]) THEN Err("None") ELSE Ok(t))
SwitchLower(e) ==
    IF Op(e) # "multiif" THEN e
    ELSE IF Len(Branches(e)) < MIN_SWITCH_BRANCHES THEN e
    ELSE IF \E i \in 1..Len(Branches(e)) : contains_block(Branches(e)[i][2]) THEN e
    ELSE Lowered(e, 1, NoBlockIn(try_lower(Branches(e))), Last(Kids(e)))
Inputs(e) == SubSeq(Kids(e), 1, e[2][1])
TableIn(e) == [i \in 1..Len(e[2][2]) |-> <<e[2][2][i], Kids(e)[e[2][1] + i]>>]
SameInputs(a, b) == Same(E("array", <<>>, Inputs(a)), E("array", <<>>, Inputs(b)))
\* A switch whose default switches on the same key takes over its entries.
SwitchCollapse(e) ==
    IF Op(e) # "switch" THEN e
    ELSE LET inner == Last(Kids(e)) IN
         IF Op(inner) # "switch" THEN e
         ELSE IF ~SameInputs(e, inner) \/ \E i \in 1..e[2][1] : ~is_pure(Kids(e)[i]) THEN e
         ELSE SwitchOf(Inputs(e), FoldLeft(AddEntry, TableIn(e), TableIn(inner)), Last(Kids(inner)))
\* Finalizer: a long disjunction of equalities is a membership test.
OrMembership(e) ==
    IF Op(e) # "or" THEN e
    ELSE IF Len(Leaves("or", e)) < MIN_MEMBERSHIP_ENTRIES THEN e
    ELSE Lowered(e, MIN_MEMBERSHIP_ENTRIES, try_lower(<<<<e, Const(Bool(TRUE))>>>>), Const(Bool(FALSE)))

(***************************************************************************)
(* Negations, inverses and text                                            *)
(***************************************************************************)
IsNot(e) == IsCallOf(e, "not") /\ Len(Kids(e)) = 1
\* Mutant: the negation of a connective is pushed to its operands.
PushNotIn(e) ==
    IF IsNot(e) /\ Op(Kids(e)[1]) \in {"and", "or"}
    THEN E(IF Op(Kids(e)[1]) = "and" THEN "or" ELSE "and", <<>>, MapSeq(Kids(Kids(e)[1]), LAMBDA k : CallOf("not", <<k>>)))
    ELSE e
DeMorgan(e) ==
    IF Op(e) \notin {"and", "or"} THEN e
    ELSE IF ~IsNot(Kids(e)[1]) \/ ~IsNot(Kids(e)[2]) THEN e
    ELSE CallOf("not", <<E(IF Op(e) = "and" THEN "or" ELSE "and", <<>>, MapSeq(Kids(e), LAMBDA k : Kids(k)[1]))>>)
IdempotentCollapse(e) ==
    IF \E f \in {"upper", "lower", "trim"} : IsNested(e, f, f) THEN Kids(e)[1] ELSE e
ROUND_TRIPS ==
    {<<"reverse", "reverse", "String">>, <<"not", "not", "Bool">>,
     <<"bytesFromHex", "hex", "Bytes">>, <<"bytesFromBase64", "base64", "Bytes">>}
RoundTripCollapse(e) ==
    LET hits == {t \in ROUND_TRIPS : IsNested(e, t[1], t[2])} IN
    IF hits = {} THEN e ELSE TypeAssert((CHOOSE t \in hits : TRUE)[3], Operand(e))
ROUND_TRIP_ALGORITHMS == {HexLabel, Base64Label, Base64UrlLabel}
EncodeRoundTrip(e) ==
    IF ~IsCallOf(e, "decode") THEN e
    ELSE LET inner == Kids(e)[1] IN
         IF /\ IsText(Kids(e)[2]) /\ IsCallOf(inner, "encode")
         THEN IF Kids(e)[2][2][2] \in ROUND_TRIP_ALGORITHMS /\ IsConst(Kids(inner)[2], Kids(e)[2][2])
              THEN TypeAssert("Bytes", Kids(inner)[1]) ELSE e
         ELSE e
EmptyNeedle(e) ==
    IF \E f \in {"contains", "startsWith", "endsWith"} : IsCallOf(e, f) /\ IsConst(Kids(e)[2], Empty)
    THEN E("assert", <<"String", <<Bool(TRUE)>>>>, <<Kids(e)[1]>>) ELSE e
Flatten(e) == OnCallOf(e, "concat", CallOf("concat", splice_same(Kids(e), "concat")))
ExtremumNullDrop(e) ==
    LET kept == SelectSeq(Kids(e), LAMBDA k : ~IsConst(k, Null)) IN
    IF Op(e) # "call" \/ e[2] \notin {"min", "max"} \/ Len(kept) = Len(Kids(e)) THEN e
    ELSE IF kept = <<>> THEN Const(Null) ELSE IF Len(kept) = 1 THEN kept[1] ELSE CallOf(e[2], kept)
ConcatCollapse(e) ==
    LET kept == SelectSeq(Kids(e), LAMBDA k : ~IsConst(k, Empty)) IN
    IF ~IsCallOf(e, "concat") THEN e
    ELSE IF kept = <<>> THEN Const(Empty)
    ELSE IF Len(kept) = 1 /\ Op(kept[1]) # "const" THEN TypeAssert("String", kept[1])
    ELSE CallOf("concat", kept)
\* A constant without its leading (trailing) spaces; no argument when nothing is left.
Cut(arg, start) ==
    LET s == arg[2][2]
        keep == {i \in 1..Len(s) : ~IsSpace(s[i])}
    IN  IF keep = {} THEN <<>>
        ELSE <<Const(Text(IF start THEN SubSeq(s, Min(keep), Len(s)) ELSE SubSeq(s, 1, Max(keep))))>>
RECURSIVE StripStart(_)
StripStart(args) ==
    IF args = <<>> THEN args
    ELSE IF ~IsText(args[1]) THEN args
    ELSE IF Cut(args[1], TRUE) = <<>> THEN StripStart(Tail(args)) ELSE Cut(args[1], TRUE) \o Tail(args)
RECURSIVE StripEnd(_)
StripEnd(args) ==
    IF args = <<>> THEN args
    ELSE IF ~IsText(Last(args)) THEN args
    ELSE IF Cut(Last(args), FALSE) = <<>> THEN StripEnd(Front(args)) ELSE Front(args) \o Cut(Last(args), FALSE)
strip_whitespace_edges(args) == StripEnd(StripStart(args))
TrimConcat(e) ==
    IF ~IsCallOf(e, "trim") THEN e
    ELSE IF ~IsCallOf(Kids(e)[1], "concat") THEN e
    ELSE LET args == strip_whitespace_edges(Kids(Kids(e)[1]))
         IN  IF args = <<>> THEN Const(Empty) ELSE CallOf("trim", <<CallOf("concat", args)>>)
TypeAssertCollapse(e) ==
    IF Op(e) # "assert" THEN e
    ELSE IF Op(Kids(e)[1]) # "assert" THEN e
    ELSE IF Kids(e)[1][2] = <<e[2][1], <<>>>> THEN E("assert", e[2], Kids(Kids(e)[1])) ELSE e

(***************************************************************************)
(* The driver: children first, then every rule in turn until a sweep over  *)
(* them changes nothing.  A rewritten node's children are done again.      *)
(***************************************************************************)
FixpointRules ==
    <<"FieldCollapse", "ConstFold", "LiteralFold", "ObjectAccessFold", "FlattenConditionals", "BranchPrune",
      "SwitchLower", "SwitchCollapse", "DeMorgan", "IdempotentCollapse", "RoundTripCollapse", "EncodeRoundTrip",
      "EmptyNeedle", "Flatten", "ExtremumNullDrop", "ConcatCollapse", "TrimConcat", "TypeAssertCollapse">>
FinalizeRules == <<"MultiIfCollapse", "OrMembership">>
Apply(rule, e) ==
    CASE rule = "FieldCollapse" -> FieldCollapse(e) [] rule = "ConstFold" -> ConstFold(e)
      [] rule = "LiteralFold" -> LiteralFold(e) [] rule = "ObjectAccessFold" -> ObjectAccessFold(e)
      [] rule = "FlattenConditionals" -> FlattenConditionals(e) [] rule = "BranchPrune" -> BranchPrune(e)
      [] rule = "SwitchLower" -> SwitchLower(e) [] rule = "SwitchCollapse" -> SwitchCollapse(e)
      [] rule = "DeMorgan" -> DeMorgan(e) [] rule = "IdempotentCollapse" -> IdempotentCollapse(e)
      [] rule = "RoundTripCollapse" -> RoundTripCollapse(e) [] rule = "EncodeRoundTrip" -> EncodeRoundTrip(e)
      [] rule = "EmptyNeedle" -> EmptyNeedle(e) [] rule = "Flatten" -> Flatten(e)
      [] rule = "ExtremumNullDrop" -> ExtremumNullDrop(e) [] rule = "ConcatCollapse" -> ConcatCollapse(e)
      [] rule = "TrimConcat" -> TrimConcat(e) [] rule = "TypeAssertCollapse" -> TypeAssertCollapse(e)
      [] rule = "MultiIfCollapse" -> MultiIfCollapse(e) [] OTHER -> OrMembership(e)
RECURSIVE optimize_expr(_)
\* A node over its optimized children.
map_children(e) == MapKids(e, optimize_expr)
RECURSIVE Sweep(_, _)
\* The rules from the i-th on: the first that changes the node, then those after it.
FirstHit(e, hits) ==
    IF hits = {} THEN e ELSE Sweep(map_children(Apply(FixpointRules[Min(hits)], e)), Min(hits) + 1)
Sweep(e, i) == FirstHit(e, {j \in i..Len(FixpointRules) : Apply(FixpointRules[j], e) # e})
RECURSIVE Sweeps(_, _)
AfterSweep(before, after, left) == IF after = before \/ left = 1 THEN after ELSE Sweeps(after, left - 1)
Sweeps(e, left) == AfterSweep(e, Sweep(e, 1), left)
local_fixpoint(e) == Sweeps(e, MAX_LOCAL_ITERS)
optimize_expr(e) == local_fixpoint(map_children(e))
RECURSIVE finalize_expr(_)
finalize_expr(e) == FoldLeft(LAMBDA x, rule : Apply(rule, x), MapKids(e, finalize_expr), FinalizeRules)
rewrite_optimize(p) == MapProgram(p, optimize_expr)
rewrite_finalize(p) == MapProgram(p, finalize_expr)
=============================================================================
