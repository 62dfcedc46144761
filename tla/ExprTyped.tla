----------------------------- MODULE ExprTyped -----------------------------
(* crates/expr/optimize: the type checker (engines/type_check.rs) and the     *)
(* rules that rely on the types it finds (typed/).                            *)
(*                                                                            *)
(* A typed node is <<op, arg, kids, type>> with typed kids; the type is       *)
(* <<net>>, or <<>> when it is not known.  cx is [known, schemaless, schema,  *)
(* tolerant]: whether there is a schema, its columns <<name, type, nullable>>,*)
(* and whether what cannot be typed is left untyped instead of refused.       *)
EXTENDS ExprRules

Unknown == <<>>
TypeIn(n) == n[4]
IsKnown(n) == TypeIn(n) # Unknown
DataTypeIn(n) == TypeIn(n)[1].t
AllKnown(ns) == \A i \in 1..Len(ns) : IsKnown(ns[i])
Nets(ns) == [i \in 1..Len(ns) |-> TypeIn(ns[i])[1]]
SomeNullable(ns) == \E i \in 1..Len(ns) : ~IsKnown(ns[i]) \/ TypeIn(ns[i])[1].null

(***************************************************************************)
(* Type synthesis                                                          *)
(***************************************************************************)
\* The bits of a signed integer's magnitude.
int_bound(v) == CHOOSE b \in 1..I64 : Abs(v[2]) < 2 ^ b /\ (b = 1 \/ 2 ^ (b - 1) <= Abs(v[2]))
type_of_const(v) ==
    CASE v = Null -> Net(TBool, TRUE)
      [] Tag(v) \in SignedInts -> int_with_bound(data_type(v), int_bound(v))
      [] OTHER -> non_null(data_type(v))
type_class_data_type(class) == CASE class = "String" -> TText [] class = "Bool" -> TBool [] OTHER -> TBytes
type_of_source_field(name, cx) ==
    LET at == {i \in 1..Len(cx.schema) : cx.schema[i][1] = name} IN
    CASE at # {} -> Ok(<<Net(cx.schema[Min(at)][2], cx.schema[Min(at)][3])>>)
      [] at = {} /\ (~cx.known \/ cx.schemaless \/ cx.tolerant) -> Ok(Unknown)
      [] OTHER -> Err("FieldNotInSchema")
Resolved_type(r, cx) == IF IsOk(r) THEN Ok(<<r[2]>>) ELSE IF cx.tolerant THEN Ok(Unknown) ELSE r
type_of_call(f, args, cx) ==
    IF AllKnown(args) THEN Resolved_type(Builtin(f, "type", Nets(args), Ctx(0, 0)), cx) ELSE Ok(Unknown)
\* merge_branches, type_of_branches: the type of the first, null if one can be.
type_of_branches(values) ==
    IF AllKnown(values) THEN Ok(<<Net(DataTypeIn(values[1]), SomeNullable(values))>>) ELSE Ok(Unknown)
Arms(e, kids) ==
    LET n == Len(kids) IN
    IF Op(e) = "switch" THEN SubSeq(kids, e[2][1] + 1, n)
    ELSE [i \in 1..(n \div 2) + 1 |-> IF 2 * i <= n THEN kids[2 * i] ELSE kids[n]]
JoinItem(acc, item) ==
    IF ~IsOk(acc) \/ ~IsKnown(item) \/ IsConst(item, Null) THEN acc
    ELSE array_element_join(acc[2], materialized_data_type(TypeIn(item)[1]))
type_of_array(items) ==
    Then2(FoldLeft(JoinItem, Ok(NoElem), items), LAMBDA el : Ok(<<ArrayType(el, SomeNullable(items), FALSE)>>))
synthesize(e, kids, regs, cx) ==
    CASE Op(e) = "const" -> Ok(<<type_of_const(e[2])>>)
      [] Op(e) = "reg" -> Ok(regs[e[2]])
      [] Op(e) = "src" -> type_of_source_field(e[2], cx)
      [] Op(e) = "field" -> IF cx.tolerant THEN Ok(Unknown) ELSE Err("NonConstFieldArg")
      [] Op(e) \in {"fields", "object"} -> Ok(<<non_null(<<"Object">>)>>)
      [] Op(e) = "call" -> type_of_call(e[2], kids, cx)
      [] Op(e) \in {"if", "multiif", "switch"} -> type_of_branches(Arms(e, kids))
      [] Op(e) = "ifnull" -> Ok(IF IsKnown(kids[1]) THEN <<Net(DataTypeIn(kids[1]), SomeNullable(<<kids[2]>>))>> ELSE Unknown)
      [] Op(e) = "nullif" -> Ok(IF IsKnown(kids[1]) THEN <<Net(DataTypeIn(kids[1]), TRUE)>> ELSE Unknown)
      [] Op(e) \in {"and", "or"} -> Ok(<<Net(TBool, SomeNullable(kids))>>)
      [] Op(e) = "interp" -> Ok(<<non_null(TText)>>)
      [] Op(e) = "array" -> type_of_array(kids)
      [] Op(e) = "assert" -> Ok(<<IF e[2][2] = <<>> THEN Net(type_class_data_type(e[2][1]), TRUE) ELSE type_of_const(e[2][2][1])>>)
      [] OTHER -> Ok(TypeIn(Last(kids)))
RECURSIVE type_of(_, _, _)
TypeKid(e, acc, i, cx) ==
    IF ~IsOk(acc.r) THEN acc
    ELSE LET o == type_of(Kids(e)[i], acc.regs, cx) IN
         [r |-> Then2(o.r, LAMBDA t : Ok(Append(acc.r[2], t))),
          regs |-> IF IsOk(o.r) /\ Op(e) = "block" /\ i < Len(Kids(e)) THEN [o.regs EXCEPT ![e[2][i]] = TypeIn(o.r[2])]
                   ELSE o.regs]
TypedNode(e, acc, cx) ==
    [acc EXCEPT !.r = Then2(@, LAMBDA kids :
        Then2(synthesize(e, kids, acc.regs, cx), LAMBDA t : Ok(<<e[1], e[2], kids, t>>)))]
RECURSIVE Bare(_)
Bare(e) == <<e[1], e[2], MapSeq(Kids(e), Bare), Unknown>>
\* Under a dynamic field name nothing is typed.
type_of(e, regs, cx) ==
    IF Op(e) = "field" THEN TypedNode(e, [r |-> Ok(Kids(Bare(e))), regs |-> regs], cx)
    ELSE TypedNode(e, FoldLeft(LAMBDA acc, i : TypeKid(e, acc, i, cx), [r |-> Ok(<<>>), regs |-> regs], Indices(Kids(e))), cx)
\* The program as one typed block, its bindings and then its result.
type_program(p, cx) ==
    type_of(E("block", [i \in 1..Len(p.stmts) |-> p.stmts[i][1]], Trees(p)), [r \in 1..p.nregs |-> Unknown], cx).r
check_output(typed, expected) ==
    IF expected = <<>> \/ ~IsKnown(typed) THEN Ok(typed)
    ELSE LET source == materialized_data_type(TypeIn(typed)[1])
             target == expected[1].type
         IN  IF IF expected[1].truncate THEN is_compatible_with_truncate(source, target) ELSE is_compatible(source, target)
             THEN Ok(typed) ELSE Err("OutputTypeMismatch")
type_check(p, cx, expected) == Then2(type_program(p, cx), LAMBDA t : check_output(t, expected))

(***************************************************************************)
(* What the types of operands allow                                        *)
(***************************************************************************)
is_integer_or_bigint(t) == t[1] \in IntTags \/ t[1] = "BigInt"
IsType(n, P(_)) == IsKnown(n) /\ P(DataTypeIn(n))
satisfies(t, class) == t[1] = TypeClasses[class]
is_integer_zero(e) == Op(e) = "const" /\ IsInt(e[2]) /\ e[2][2] = 0
\* Floats are counted in halves.
is_numeric_one(e) ==
    Op(e) = "const" /\ ((IsInt(e[2]) /\ e[2][2] = 1) \/ (IsFloat(e[2]) /\ e[2][2] = 2))
is_droppable(n) == IsKnown(n) /\ ~TypeIn(n)[1].null /\ ~can_fail(n) /\ is_pure(n)
types_match(call, operand) == IsKnown(call) /\ IsKnown(operand) /\ TypeEq(DataTypeIn(call), DataTypeIn(operand))
TConst(v) == <<"const", v, <<>>, Unknown>>
WithKids(n, f, kids) == <<"call", f, kids, TypeIn(n)>>

AssertStrip(n) ==
    LET inner == Kids(n)[1] IN
    IF Op(n) # "assert" THEN n
    ELSE IF ~IsType(inner, LAMBDA t : satisfies(t, n[2][1])) THEN n
    ELSE IF n[2][2] = <<>> THEN inner ELSE IF is_droppable(inner) THEN TConst(n[2][2][1]) ELSE n
\* The casts that leave a value of the given type as it is.
CastTargets ==
    [f \in {"toInt8", "toInt16", "toInt32", "toInt64", "toUInt8", "toUInt16", "toUInt32", "toUInt64", "toFloat32",
            "toFloat64", "toBool", "toDate", "toTimestamp", "toUuid", "toBigInt", "toString", "toStringCast"} |->
        CASE f = "toInt8" -> "Int8" [] f = "toInt16" -> "Int16" [] f = "toInt32" -> "Int32" [] f = "toInt64" -> "Int64"
          [] f = "toUInt8" -> "UInt8" [] f = "toUInt16" -> "UInt16" [] f = "toUInt32" -> "UInt32"
          [] f = "toUInt64" -> "UInt64" [] f = "toFloat32" -> "Float32" [] f = "toFloat64" -> "Float64"
          [] f = "toBool" -> "Bool" [] f = "toDate" -> "Date" [] f = "toTimestamp" -> "Timestamp"
          [] f = "toUuid" -> "Uuid" [] f = "toBigInt" -> "BigInt" [] OTHER -> "Text"]
MatchesTarget(f, t) == t[1] = CastTargets[f] /\ (t[1] = "BigInt" => t[2] = NoSize)
CastStrip(n) ==
    IF Op(n) = "call" /\ Has(CastTargets, n[2]) /\ Len(Kids(n)) = 1 /\ IsType(Kids(n)[1], LAMBDA t : MatchesTarget(n[2], t))
    THEN Kids(n)[1] ELSE n

(***************************************************************************)
(* TypedFlatten                                                            *)
(***************************************************************************)
extremum_safe(ts) ==
    \/ \A i \in 1..Len(ts) - 1 : TypeEq(ts[i], ts[i + 1])
    \/ \A i \in 1..Len(ts) : is_integer_or_bigint(ts[i])
    \/ \A i \in 1..Len(ts) : is_float(ts[i])
HasNested(n) == \E i \in 1..Len(Kids(n)) : IsCallOf(Kids(n)[i], n[2])
flatten_extremum(n, args) ==
    IF AllKnown(args) /\ extremum_safe(MapSeq(args, DataTypeIn)) THEN WithKids(n, n[2], args) ELSE n
add_to_concat(n) ==
    IF \A i \in 1..Len(Kids(n)) : IsType(Kids(n)[i], LAMBDA t : t[1] = "Text")
    THEN WithKids(n, "concat", splice_same(Kids(n), "concat")) ELSE n
TypedFlatten(n) ==
    CASE Op(n) # "call" -> n
      [] Op(n) = "call" /\ n[2] = "add" -> add_to_concat(n)
      [] Op(n) = "call" /\ n[2] \in {"min", "max"} /\ HasNested(n) -> flatten_extremum(n, splice_same(Kids(n), n[2]))
      [] Op(n) = "call" /\ n[2] = "concat" /\ HasNested(n) -> WithKids(n, n[2], splice_same(Kids(n), n[2]))
      [] OTHER -> n

(***************************************************************************)
(* AlgebraicIdentities                                                     *)
(***************************************************************************)
\* The operand left when the other is a unit of the operation (units: the operands that are), 0 if there is none.
matched_operand(units, either) == IF 2 \in units THEN 1 ELSE IF either /\ 1 \in units THEN 2 ELSE 0
Zeros(n) == {i \in 1..2 : is_integer_zero(Kids(n)[i])}
Ones(n) == {i \in 1..2 : is_numeric_one(Kids(n)[i])}
keep_if(n, units, either) ==
    LET kept == matched_operand(units, either) IN
    IF kept = 0 THEN 0 ELSE IF types_match(n, Kids(n)[kept]) THEN kept ELSE 0
keep_int_if(n, either) ==
    LET kept == keep_if(n, Zeros(n), either) IN
    IF kept = 0 THEN 0 ELSE IF IsType(Kids(n)[kept], is_integer_or_bigint) THEN kept ELSE 0
is_int64(n) == IsType(n, LAMBDA t : t = TInt64)
annihilates(args) ==
    \/ is_integer_zero(args[2]) /\ is_int64(args[1]) /\ is_droppable(args[1])
    \/ ~is_integer_zero(args[2]) /\ is_integer_zero(args[1]) /\ is_int64(args[2]) /\ is_droppable(args[2])
self_inverse(args) == Same(args[1], args[2]) /\ is_int64(args[1]) /\ is_droppable(args[1])
all_same_frozen(args) == IsFrozen(args[1]) /\ \A i \in 1..Len(args) : Same(args[i], args[1])
integer_bound(t, sign) == <<t[1], IF sign > 0 THEN IntMax(t[1]) ELSE IntMin(t[1])>>
\* The constant no value of the operand's type can pass.
SaturatesAt(n, const, operand, sign) ==
    /\ Op(Kids(n)[const]) = "const" /\ IsType(Kids(n)[operand], LAMBDA t : t[1] \in IntTags)
    /\ compare_values(Kids(n)[const][2], integer_bound(DataTypeIn(Kids(n)[operand]), sign)) \in {0, sign}
    /\ types_match(n, Kids(n)[const]) /\ ~can_fail(Kids(n)[operand])
saturates(n, sign) == IF SaturatesAt(n, 2, 1, sign) THEN 2 ELSE IF SaturatesAt(n, 1, 2, sign) THEN 1 ELSE 0
KeptOperand(n) ==
    LET f == n[2] IN
    CASE f \in {"min", "max"} -> saturates(n, IF f = "max" THEN 1 ELSE -1)
      [] f \in {"multiply", "divide"} -> keep_if(n, Ones(n), f = "multiply")
      [] f \in {"add", "subtract"} -> keep_int_if(n, f = "add")
      [] f \in {"bitOr", "bitXor"} -> keep_if(n, Zeros(n), TRUE)
      [] f \in {"bitShiftLeft", "bitShiftRight"} -> keep_if(n, Zeros(n), FALSE)
      [] OTHER -> 0
GivesZero(n) ==
    \/ n[2] \in {"multiply", "bitAnd"} /\ annihilates(Kids(n))
    \/ n[2] \in {"subtract", "bitXor"} /\ self_inverse(Kids(n))
rewrite_binary(n, kept) == IF kept # 0 THEN Kids(n)[kept] ELSE IF GivesZero(n) THEN TConst(<<"Int64", 0>>) ELSE n
rewrite_call(n) ==
    CASE n[2] \in {"min", "max"} /\ all_same_frozen(Kids(n)) -> Kids(n)[1]
      [] ~(n[2] \in {"min", "max"} /\ all_same_frozen(Kids(n))) /\ Len(Kids(n)) = 2 -> rewrite_binary(n, KeptOperand(n))
      [] OTHER -> n
rewrite_bool(n) ==
    LET unit == Bool(Op(n) = "and")
        absorb == Bool(Op(n) = "or")
    IN  IF IsConst(Kids(n)[2], unit) THEN Kids(n)[1]
        ELSE IF IsConst(Kids(n)[1], unit) THEN Kids(n)[2]
        ELSE IF IsConst(Kids(n)[1], absorb) \/ (IsConst(Kids(n)[2], absorb) /\ is_droppable(Kids(n)[1])) THEN TConst(absorb)
        ELSE n
AlgebraicIdentities(n) ==
    IF Op(n) = "call" /\ Kids(n) # <<>> THEN rewrite_call(n) ELSE IF Op(n) \in {"and", "or"} THEN rewrite_bool(n) ELSE n

(***************************************************************************)
(* PowerReduce, SelfCompare, UnaryReduce                                   *)
(***************************************************************************)
\* 0 or 1 when the exponent is that, -1 otherwise.
unit_exponent(v) ==
    CASE Tag(v) \in SignedInts /\ v[2] \in 0..1 -> v[2]
      [] IsFloat(v) /\ v[2] \in {0, 2} -> v[2] \div 2
      [] OTHER -> -1
PowerReduce(n) ==
    IF ~IsCallOf(n, "power") THEN n
    ELSE IF Op(Kids(n)[2]) # "const" \/ ~IsType(Kids(n)[1], LAMBDA t : t = TFloat64) THEN n
    ELSE CASE unit_exponent(Kids(n)[2][2]) = 1 -> Kids(n)[1]
           [] unit_exponent(Kids(n)[2][2]) = 0 /\ is_droppable(Kids(n)[1]) -> TConst(<<"Float64", 2>>)
           [] OTHER -> n
Comparisons == {"equals", "notEquals", "greater", "less", "greaterOrEquals", "lessOrEquals"}
SelfCompare(n) ==
    IF Op(n) # "call" \/ n[2] \notin Comparisons THEN n
    ELSE LET x == Kids(n)[1]
             exact == IsType(x, LAMBDA t : ~is_float(t))
         IN  IF ~Same(x, Kids(n)[2]) \/ ~is_pure(x) \/ can_fail(x) THEN n
             ELSE CASE n[2] \in {"greater", "less"} -> TConst(Bool(FALSE))
                    [] n[2] \in {"equals", "notEquals"} /\ exact -> TConst(Bool(n[2] = "equals"))
                    [] n[2] \in {"greaterOrEquals", "lessOrEquals"} /\ exact ->
                            IF TypeIn(x)[1].null THEN n ELSE TConst(Bool(TRUE))
                    [] OTHER -> n
UnaryReduce(n) ==
    IF Op(n) # "call" \/ Len(Kids(n)) # 1 THEN n
    ELSE LET x == Kids(n)[1]
             finite == \/ n[2] = "isNaN" /\ IsType(x, is_integer_or_bigint)
                       \/ n[2] = "isInfinite" /\ IsType(x, is_integer)
             positive == n[2] = "abs" /\ IsType(x, LAMBDA t : t[1] \in UnsignedInts) /\ types_match(n, x)
         IN  IF finite /\ is_droppable(x) THEN TConst(Bool(FALSE)) ELSE IF positive THEN x ELSE n

(***************************************************************************)
(* The driver: children first, then the first rule that applies.  What a   *)
(* node becomes has the node's type.                                       *)
(***************************************************************************)
TypedRules ==
    <<"AssertStrip", "CastStrip", "TypedFlatten", "AlgebraicIdentities", "PowerReduce", "SelfCompare", "UnaryReduce">>
ApplyTyped(rule, n) ==
    CASE rule = "AssertStrip" -> AssertStrip(n) [] rule = "CastStrip" -> CastStrip(n)
      [] rule = "TypedFlatten" -> TypedFlatten(n) [] rule = "AlgebraicIdentities" -> AlgebraicIdentities(n)
      [] rule = "PowerReduce" -> PowerReduce(n) [] rule = "SelfCompare" -> SelfCompare(n)
      [] OTHER -> UnaryReduce(n)
Retyped(new, old) == <<new[1], new[2], new[3], IF IsKnown(old) THEN TypeIn(old) ELSE TypeIn(new)>>
ApplyFirst(n) == FoldLeft(LAMBDA x, rule : IF x # n THEN x ELSE ApplyTyped(rule, x), n, TypedRules)
RewriteNode(n) == Retyped(ApplyFirst(n), n)
RECURSIVE typed_rewrite(_)
typed_rewrite(n) == RewriteNode(<<n[1], n[2], MapSeq(Kids(n), typed_rewrite), n[4]>>)
RECURSIVE Untyped(_)
Untyped(n) == E(n[1], n[2], MapSeq(Kids(n), Untyped))
TypedProgram(p, block) ==
    [p EXCEPT !.stmts = [i \in 1..Len(p.stmts) |-> <<p.stmts[i][1], Untyped(Kids(block)[i])>>],
              !.result = Untyped(Last(Kids(block)))]
typed_run(p, typed) == TypedProgram(p, typed_rewrite(typed))
=============================================================================
