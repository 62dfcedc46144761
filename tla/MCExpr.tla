------------------------------- MODULE MCExpr -------------------------------
(***************************************************************************)
(* Expressions for TLC, in two halves: sources through the parser, and     *)
(* programs through every pass of the compiler and over rows.  The halves  *)
(* share no state; in a behaviour about one of them the other rests.       *)
(***************************************************************************)
EXTENDS ExprOptimizer, ExprParser

VARIABLE half   \* "parse" or "optimize" (never changes)

exprVars == <<half, vars, parseVars>>

(***************************************************************************)
(* Expressions over a few columns, with and without a schema, and rows     *)
(* with nulls, a NaN and mistyped values.                                  *)
(***************************************************************************)

MCBuiltin(f, q, xs, ctx) ==
    CASE f = "add" -> Add(q, xs) [] f = "subtract" -> Subtract(q, xs) [] f = "multiply" -> Multiply(q, xs)
      [] f = "divide" -> Divide(q, xs) [] f = "min" -> MinFunc(q, xs) [] f = "max" -> MaxFunc(q, xs)
      [] f = "power" -> Power(q, xs) [] f = "abs" -> AbsFunc(q, xs) [] f = "len" -> LenFunc(q, xs)
      [] f = "objectGet" -> ObjectGet(q, xs) [] f = "objectHasKey" -> ObjectHasKey(q, xs)
      [] f = "bitAnd" -> BitAnd(q, xs) [] f = "bitXor" -> BitXor(q, xs) [] f = "bitShiftLeft" -> BitShiftLeft(q, xs)
      [] f = "bytesFromHex" -> BytesFromHex(q, xs) [] f = "hex" -> HexFunc(q, xs)
      [] f = "encode" -> Encode(q, xs) [] f = "decode" -> Decode(q, xs)
      [] f = "toString" -> ToString1(q, xs)
      [] f = "equals" -> Equals(q, xs) [] f = "notEquals" -> NotEquals(q, xs)
      [] f = "greater" -> Greater(q, xs) [] f = "greaterOrEquals" -> GreaterOrEquals(q, xs)
      [] f = "isNull" -> IsNull(q, xs) [] f = "isNotNull" -> IsNotNull(q, xs)
      [] f = "now" -> NowFunc(q, xs, ctx) [] f = "randomInt" -> RandomInt(q, xs, ctx)
      [] f = "not" -> Not(q, xs) [] f = "isNaN" -> IsNan(q, xs) [] f = "isInfinite" -> IsInfinite(q, xs)
      [] f = "concat" -> Concat(q, xs) [] f = "upper" -> UpperFunc(q, xs) [] f = "trim" -> TrimFunc(q, xs)
      [] f = "startsWith" -> StartsWith(q, xs) [] f = "reverse" -> ReverseFunc(q, xs)
Unary == {"abs", "len", "bytesFromHex", "hex", "toString", "isNull", "isNotNull", "not", "isNaN",
          "isInfinite", "upper", "trim", "reverse"}
MCArity ==
    [f \in Unary |-> <<1, 1>>]
    @@ [f \in {"min", "max", "concat"} |-> <<1, NoMax>>] @@ ("now" :> <<0, 0>>) @@ ("randomInt" :> <<2, 3>>)
    @@ [f \in {"add", "subtract", "multiply", "divide", "power", "objectGet", "objectHasKey", "bitAnd", "bitXor",
               "bitShiftLeft", "encode", "decode", "equals", "notEquals", "greater", "greaterOrEquals",
               "startsWith"} |-> <<2, 2>>]
MCPureFns == DOMAIN MCArity \ {"randomInt"}
MCTotalFns ==
    {"add", "subtract", "multiply", "min", "max", "equals", "notEquals", "greater", "greaterOrEquals"}

(***************************************************************************)
(* Columns: num Int64 or null, int Int64, text Text or null, flag Bool or  *)
(* null, real Float64, raw Bytes.                                          *)
(***************************************************************************)
Col(name) == E("field", <<>>, <<Const(Text(<<name>>))>>)
num == Col(97)
int == Col(100)
text == Col(116)
flag == Col(99)
real == Col(102)
raw == Col(121)
I(n) == Const(<<"Int64", n>>)
S(s) == Const(Text(s))
Nil == Const(Null)
True == Const(Bool(TRUE))
False == Const(Bool(FALSE))
One(f, x) == CallOf(f, <<x>>)
Two(f, x, z) == CallOf(f, <<x, z>>)
If(x, v, w) == E("if", <<>>, <<x, v, w>>)
Both(op, x, z) == E(op, <<>>, <<x, z>>)
Var(name) == E("var", name, <<>>)
Random == Two("randomInt", I(0), I(3))
Halved(x) == Two("divide", I(4), x)

Ints == {num, int, I(0), I(1), Nil}
Strings == {text, S(<<>>), S(<<32>>), S(<<120>>), num}
Bools == {flag, True, False, Nil, Two("equals", num, I(0)), One("isNull", num)}
Arithmetic ==
    {Two(f, x, z) : f \in {"add", "subtract", "multiply", "divide", "bitAnd", "bitXor", "bitShiftLeft", "min", "max",
                           "equals", "greater", "greaterOrEquals"}, x \in Ints, z \in Ints}
    \cup {Two(f, x, z) : f \in {"add", "equals", "power", "greaterOrEquals"}, x \in {real, int},
                         z \in {real, I(0), I(1), Const(<<"Float64", 2>>)}}
    \cup {One(f, x) : f \in {"abs", "isNaN", "isInfinite", "toString"}, x \in {num, int, real, text}}
Logic ==
    {Both(op, x, z) : op \in {"and", "or"}, x \in Bools, z \in Bools}
    \cup {Both(op, One("not", x), One("not", z)) : op \in {"and", "or"}, x \in {flag, num}, z \in {flag, True}}
    \cup {One("not", One("not", x)) : x \in {num, flag, Nil}}
    \cup {One("not", Both(op, flag, One("isNull", num))) : op \in {"and", "or"}}
    \cup {If(x, v, w) : x \in Bools, v \in {num, I(1)}, w \in {num, Halved(I(0))}}
    \cup {E(op, <<>>, <<x, z>>) : op \in {"ifnull", "nullif"}, x \in Ints, z \in {num, I(1), Nil, Halved(int)}}
Words ==
    {Two(f, x, z) : f \in {"concat", "add"}, x \in Strings, z \in Strings}
    \cup {One("trim", CallOf("concat", <<x, text, z>>)) : x \in Strings, z \in Strings}
    \cup {Two("concat", Two("concat", x, text), S(<<120>>)) : x \in Strings}
    \cup {Two("startsWith", x, z) : x \in Strings, z \in {S(<<>>), S(<<120>>)}}
    \cup {One(f, One(f, x)) : f \in {"reverse", "upper", "trim"}, x \in Strings}
    \cup {One("bytesFromHex", One("hex", x)) : x \in {raw, text, Nil}}
    \cup {Two("decode", Two("encode", x, S(HexLabel)), S(z)) : x \in {raw, text}, z \in ENCODE_ALGORITHMS}
    \cup {E("interp", <<>>, <<S(<<120>>), x>>) : x \in {text, num, I(1)}}
Cases(ns, key(_), v(_)) == FlattenSeq([i \in 1..Len(ns) |-> <<key(ns[i]), v(ns[i])>>])
NumIs(n) == Two("equals", num, I(n))
PairIs(n) == Both("and", NumIs(n), Two("equals", I(n + 1), int))
\* Keys of two expressions, one of which may divide by zero.
ThenHalf(n) == Both("and", NumIs(n), Two("equals", Halved(int), I(n)))
HalfThen(n) == Both("and", Two("equals", Halved(int), I(n)), NumIs(n))
Some == <<0, 5, 0>>
AnyOf(key(_), ns) == FoldRight(LAMBDA n, e : Both("or", key(n), e), Tail(ns), key(ns[1]))
Object(v, w) == E("object", <<<<97>>, <<98>>>>, <<v, w>>)
NumIn(n) == AnyOf(NumIs, <<n, n + 1, n + 2>>)
Long(n) == Two("add", Two("add", Two("multiply", num, int), Two("add", int, I(n))), Two("add", int, num))
Chain(x, z) == E("multiif", <<>>, <<x, I(1), z, I(2), num>>)
Structures ==
    {E("multiif", <<>>, Append(Cases(Some, NumIs, LAMBDA n : I(n + 1)), x)) :
            x \in {I(9), num, E("multiif", <<>>, Append(Cases(<<5, 1, 2>>, NumIs, LAMBDA n : I(n)), Nil))}}
    \cup {E("multiif", <<>>, Append(Cases(Some, PairIs, LAMBDA n : I(n + 1)), Halved(num)))}
    \cup {AnyOf(NumIs, <<0, 1, 5>>), AnyOf(PairIs, <<0, 1, 5>>), AnyOf(ThenHalf, <<0, 1, 5>>), AnyOf(HalfThen, <<0, 1, 5>>)}
    \cup {E("multiif", <<>>, Append(Cases(Some, ThenHalf, LAMBDA n : I(n + 1)), I(9))),
          E("multiif", <<>>, Append(Cases(Some, HalfThen, LAMBDA n : I(n + 1)), I(9)))}
    \cup {E("multiif", <<>>, Append(Cases(<<0, 3, 6>>, NumIn, LAMBDA n : IF long THEN Long(n) ELSE I(n)), Nil)) : long \in BOOLEAN}
    \cup {If(NumIn(0), Long(0), If(NumIn(3), Long(3), If(NumIn(6), Long(6), num)))}
    \cup {Chain(x, z) : x \in Bools, z \in Bools}
    \cup {If(x, num, Chain(z, x)) : x \in {flag, False}, z \in {flag, True}}
    \cup {Two(f, Object(v, w), S(k)) : f \in {"objectGet", "objectHasKey"}, v \in {num, I(1)}, w \in {text, Halved(num), Two("add", num, I(1))},
                                       k \in {<<97>>, <<98>>, <<99>>}}
    \cup {One("len", E("array", <<>>, <<v, w>>)) : v \in {num, I(1)}, w \in {int, Halved(num)}}
    \cup {If(Two(f, x, z), Two("concat", x, S(<<120>>)), x) : f \in {"equals", "notEquals"}, x \in {text}, z \in {S(<<120>>), Nil}}
    \cup {If(Two("equals", real, I(1)), One("toString", real), S(<<>>)), If(Two("equals", num, I(1)), One("toString", num), text)}
    \cup {If(One(f, num), Two("add", num, I(1)), num) : f \in {"isNull", "isNotNull"}}
    \cup {CallOf(f, <<Two(f, num, int), x>>) : f \in {"min", "max"}, x \in {Nil, int, real}}
    \cup {E("fields", All, <<>>), E("fields", <<<<97>>, <<120>>>>, <<>>), E("field", <<>>, <<text>>)}
    \cup {CallOf("now", <<>>), Random, CallOf("randomInt", <<I(0), I(3), I(1)>>), Two("subtract", Random, Random),
          Two("equals", Random, Random), Two("bitShiftLeft", num, I(70)), If(flag, Halved(I(0)), I(1))}
Single(e) == [stmts |-> <<>>, result |-> e]
XVar == <<120>>
ZVar == <<122>>
Programs ==
    {Single(e) : e \in Arithmetic \cup Logic \cup Words \cup Structures}
    \cup {[stmts |-> <<<<XVar, v>>>>, result |-> e] :
            v \in {num, I(2), Random, Halved(num), Two("add", num, I(1)), Two("add", int, real), Two("concat", text, S(<<120>>))},
            e \in {I(1), Var(XVar), Two("add", Var(XVar), Var(XVar)), If(flag, Var(XVar), Two("max", Var(XVar), I(3))),
                   One("not", Both("and", Var(XVar), Var(XVar))),
                   Two("subtract", Var(XVar), num), If(Two("equals", Var(XVar), I(3)), Two("add", Var(XVar), I(1)), Var(XVar))}}
    \cup {[stmts |-> <<<<XVar, v>>, <<ZVar, w>>>>, result |-> e] :
            v \in {num, I(1)}, w \in {Var(XVar), Two("add", Var(XVar), I(1)), Halved(Var(XVar))},
            e \in {Var(ZVar), Two("add", Var(ZVar), Var(XVar)),
                   E("block", <<XVar>>, <<Two("add", Var(XVar), Var(ZVar)), Two("multiply", Var(XVar), Var(XVar))>>),
                   If(flag, E("block", <<ZVar>>, <<Halved(num), Var(ZVar)>>), Var(XVar)), Var(<<121>>)}}

Columns(nullable) ==
    <<<<<<97>>, TInt64, nullable>>, <<<<100>>, TInt64, FALSE>>, <<<<116>>, TText, nullable>>, <<<<99>>, TBool, nullable>>,
      <<<<102>>, TFloat64, FALSE>>, <<<<121>>, TBytes, FALSE>>>>
Row(n, i, s, b, r) ==
    <<<<<<97>>, n>>, <<<<100>>, <<"Int64", i>>>>, <<<<116>>, s>>, <<<<99>>, b>>, <<<<102>>, <<"Float64", r>>>>,
      <<<<121>>, <<"Bytes", <<120>>>>>>>>
Whole64(n) == <<"Int64", n>>
Typed == <<Row(Whole64(0), 1, Empty, Bool(TRUE), 2), Row(Whole64(5), 0, Text(<<120>>), Bool(FALSE), NaN),
           Row(Whole64(IntMax("Int64")), 6, Text(<<32, 121>>), Bool(FALSE), Inf), Row(Whole64(7), 0, Empty, Bool(TRUE), 1)>>
WithNulls == Append(Typed, Row(Null, 1, Null, Null, 3))
Untidy == <<Row(Text(<<49>>), 1, Whole64(1), Whole64(0), 2), Row(Bool(TRUE), 2, Null, Text(<<>>), 3)>>
Cx(known, schema) == [known |-> known, schemaless |-> FALSE, schema |-> schema, tolerant |-> FALSE]
Job(ast, cx, expected, rows) == [ast |-> ast, cx |-> cx, expected |-> expected, rows |-> rows]
MCJobs ==
    {Job(p, Cx(FALSE, <<>>), <<>>, WithNulls \o Untidy) : p \in Programs}
    \cup {Job(p, Cx(TRUE, Columns(TRUE)), <<>>, WithNulls) : p \in Programs}
    \cup {Job(p, Cx(TRUE, Columns(FALSE)), <<[type |-> TInt64, truncate |-> FALSE]>>, Typed) : p \in Programs}
MCCastChars == [float |-> 5, date |-> 4, instant |-> 4]
MCMonthDays == <<3, 2, 3>>
MCEnv == <<97>> :> <<120>>
MCFiles == <<97>> :> <<121>>

(***************************************************************************)
(* Inputs for the parser: operator chains, trees written out in full,     *)
(* texts in every kind of quotes, nestings around the limits, sources,    *)
(* TOML values and every short run of tokens.                             *)
(***************************************************************************)
MCNames == {<<<<120>>, "x">>, <<<<121>>, "y">>}
X == Ast("var", "x", <<>>)
OneLit == Lit(<<"Int64", 1>>)
TextLit(t) == Lit(<<"Text", t>>)
Prog(e) == Ok(Scope("program", <<>>, e))

In(form, of, expect) == [form |-> form, comptime |-> FALSE, of |-> of, expect |-> expect]
K(kind) == Tok(kind, <<>>, 1)
Id(name) == Tok("Ident", name, 1)
Num(n) == Tok("Int", n, 1)
Closed(toks) == Append(toks, K("Eof"))
Tokens(toks, expect) == In("tokens", Closed(toks), expect)

(***************************************************************************)
(* Chains of operators, grouped by level: the loosest operator of a chain  *)
(* is its root, the last of its level, or the first when the level groups  *)
(* to the right; two comparisons on a level have no meaning.               *)
(***************************************************************************)
Levels ==
    <<{"||"}, {"&&"}, {"|"}, {"^"}, {"&"}, {"==", "!=", "<", ">", "<=", ">=", "in"}, {"<<", ">>"}, {"+", "-"},
      {"*", "/", "%"}, {"**"}>>
Level(op) == CHOOSE l \in 1..Len(Levels) : op \in Levels[l]
RECURSIVE Grouped(_, _)
Grouped(ops, leaves) ==
    LET level == Min({Level(ops[i]) : i \in 1..Len(ops)})
        spots == {i \in 1..Len(ops) : Level(ops[i]) = level}
        root == IF level = 10 THEN Min(spots) ELSE Max(spots)
        left == Grouped(SubSeq(ops, 1, root - 1), SubSeq(leaves, 1, root))
        right == Grouped(SubSeq(ops, root + 1, Len(ops)), SubSeq(leaves, root + 1, Len(leaves)))
    IN  IF ops = <<>> THEN Ok(leaves[1])
        ELSE IF (level = 6 /\ Cardinality(spots) > 1) \/ ~IsOk(left) \/ ~IsOk(right) THEN Err("Parse")
        ELSE Ok(build(for_token[ops[root]], left[2], right[2]))
Leaf(i) == Ast("var", <<"a", "b", "c", "d">>[i], <<>>)
Meaning(r) == IF IsOk(r) THEN Prog(r[2]) ELSE r
ChainOps == {"||", "&&", "|", "==", "in", "<<", "+", "-", "*", "**"}
\* Operand k carries a sign when k = signed.
OpChain(ops, signed) ==
    LET n == Len(ops) + 1
        leaf(i) == IF i = signed THEN CallTo("negate", <<Leaf(i)>>) ELSE Leaf(i)
        operand(i) == IF i = signed THEN <<K("-"), Id(Leaf(i)[2])>> ELSE <<Id(Leaf(i)[2])>>
    IN  Tokens(FlattenSeq([i \in 1..n |-> operand(i) \o (IF i < n THEN <<K(ops[i])>> ELSE <<>>)]),
               Meaning(Grouped(ops, [i \in 1..n |-> leaf(i)])))
Chains3 == {OpChain(ops, 0) : ops \in [1..3 -> ChainOps]}
SignedChains == {OpChain(ops, k) : ops \in [1..2 -> ChainOps], k \in 1..3}

(***************************************************************************)
(* Trees written out in full.  Style 1 writes a conditional as a function, *)
(* 2 as an expression, 3 as multiIf.                                       *)
(***************************************************************************)
RECURSIVE Written(_, _)
Atom(e, st) == IF e[1] \in {"var", "const"} THEN Written(e, st) ELSE <<K("(")>> \o Written(e, st) \o <<K(")")>>
Commas(es, st) == FlattenSeq([i \in 1..Len(es) |-> (IF i = 1 THEN <<>> ELSE <<K(",")>>) \o Atom(es[i], st)])
CallText(name, es, st) == <<Id(name), K("(")>> \o Commas(es, st) \o <<K(")")>>
Branch(e, st) ==
    IF e[1] = "block"
    THEN <<K("{"), Id(e[2][1]), K("=")>> \o Written(e[3][1], st) \o <<K(";")>> \o Written(e[3][2], st) \o <<K("}")>>
    ELSE IF e[1] = "object" THEN Written(e, st) ELSE Atom(e, st)
Link(e, i, st) ==
    IF st = 1 THEN <<K("if"), K("(")>> \o Atom(e[3][i], st) \o <<K(",")>> \o Atom(e[3][i + 1], st) \o <<K(",")>>
    ELSE <<K("if"), K("(")>> \o Atom(e[3][i], st) \o <<K(")")>> \o Branch(e[3][i + 1], st) \o <<K("else")>>
IfText(e, st) ==
    LET links == (Len(e[3]) - 1) \div 2
    IN  FlattenSeq([i \in 1..links |-> Link(e, 2 * i - 1, st)]) \o Branch(e[3][Len(e[3])], st)
        \o (IF st = 1 THEN [i \in 1..links |-> K(")")] ELSE <<>>)
Infix == {"add", "equals", "power"}
SpellingOf(f) == CHOOSE k \in DOMAIN for_token : for_token[k][1] = f
LiteralText(v) ==
    CASE v = Null -> <<K("Null")>> [] v[1] = "Int64" -> <<Num(v[2])>> [] v[1] = "Bool" -> <<Tok("Bool", v[2], 1)>>
      [] OTHER -> <<Tok("Raw", v[2], 1)>>
Written(e, st) ==
    CASE e[1] = "var" -> <<Id(e[2])>>
      [] e[1] = "const" -> LiteralText(e[2])
      [] e[1] = "call" /\ e[2] \in Infix -> Atom(e[3][1], st) \o <<K(SpellingOf(e[2]))>> \o Atom(e[3][2], st)
      [] e[1] \in {"and", "or"} -> Atom(e[3][1], st) \o <<K(SpellingOf(e[1]))>> \o Atom(e[3][2], st)
      [] e[1] = "call" /\ e[2] = "negate" -> <<K("-")>> \o Atom(e[3][1], st)
      [] e[1] = "call" /\ e[2] = "element" -> Atom(e[3][1], st) \o <<K("[")>> \o Written(e[3][2], st) \o <<K("]")>>
      [] e[1] = "call" /\ e[2] = "slice" ->
            Atom(e[3][1], st) \o <<K("[")>> \o (IF e[3][2] = Lit(Null) THEN <<>> ELSE Written(e[3][2], st))
            \o <<K(":")>> \o (IF e[3][3] = Lit(Null) THEN <<>> ELSE Written(e[3][3], st)) \o <<K("]")>>
      [] e[1] = "call" /\ e[2] \notin Infix \cup {"negate", "element", "slice"} -> CallText(e[2], e[3], st)
      [] e[1] = "if" -> IfText(e, IF st = 3 THEN 2 ELSE st)
      [] e[1] = "multiif" -> IF st = 3 THEN CallText("multiIf", e[3], st) ELSE IfText(e, st)
      [] e[1] = "ifnull" -> CallText(IF st = 1 THEN "ifNull" ELSE "coalesce", e[3], st)
      [] e[1] = "nullif" -> CallText("nullIf", e[3], st)
      [] e[1] = "field" ->
            IF e[3][1][1] = "const" /\ e[3][1][2][1] = "Text" /\ st = 1 THEN <<Tok("Field", e[3][1][2][2], 1)>> ELSE CallText("field", e[3], st)
      [] e[1] = "fields" ->
            <<Id("fields"), K("("), Tok("Raw", IF e[2] = <<"All">> THEN <<42>> ELSE <<97, 44, 32, 98>>, 1), K(")")>>
      [] e[1] = "array" -> <<K("[")>> \o Commas(e[3], st) \o (IF st = 2 THEN <<K(","), K("]")>> ELSE <<K("]")>>)
      [] OTHER -> <<K("{")>> \o FlattenSeq([i \in 1..Len(e[3]) |->
                      <<Tok("Raw", e[2][i], 1), K("=")>> \o Atom(e[3][i], st) \o <<K(",")>>]) \o <<K("}")>>
LeafTrees == {X, OneLit, TextLit(<<97>>), Lit(Null)}
TrueLit == Lit(<<"Bool", TRUE>>)
Forms(e) ==
    {CallTo(f, <<e, X>>) : f \in Infix \cup {"f", "element"}} \cup {CallTo("negate", <<e>>), CallTo("f", <<>>)}
    \cup {CallTo("slice", <<X, lo, hi>>) : lo \in {Lit(Null), e}, hi \in {Lit(Null), OneLit}}
    \cup {Ast(op, <<>>, <<X, e>>) : op \in {"and", "or", "ifnull", "nullif"}}
    \cup {Ast("if", <<>>, <<TrueLit, e, X>>), Ast("if", <<>>, <<e, X, OneLit>>), Ast("if", <<>>, <<X, OneLit, e>>)}
    \cup {Ast("multiif", <<>>, <<X, OneLit, TrueLit, e, X>>), Ast("field", <<>>, <<e>>)}
    \cup {Ast("array", <<>>, <<e, X>>), Ast("object", <<<<107>>>>, <<e>>)}
    \cup {Ast("fields", sel, <<>>) : sel \in {<<"All">>, <<"Named", <<<<97>>, <<98>>>>>>}}
Blocks == {Ast("if", <<>>, <<TrueLit, Scope("block", <<<<"y", e>>>>, X), Scope("block", <<<<"x", OneLit>>>>, e)>>)
               : e \in LeafTrees}
FormTrees == UNION {Forms(e) : e \in UNION {Forms(l) : l \in {X, TextLit(<<97>>)}} \cup LeafTrees}
WrittenTrees ==
    {Tokens(Written(e, st), Prog(e)) : e \in FormTrees, st \in 1..3} \cup {Tokens(Written(e, 2), Prog(e)) : e \in Blocks}
\* A function-style link chained to an expression-style one, and the converse.
MixedChains ==
    LET want == Prog(Ast("multiif", <<>>, <<X, OneLit, X, OneLit, X>>))
        legacy == <<K("if"), K("("), Id("x"), K(","), Num(1), K(",")>>
        plain == <<K("if"), K("("), Id("x"), K(")"), Num(1), K("else")>>
    IN  {Tokens(legacy \o plain \o <<Id("x"), K(")")>>, want), Tokens(plain \o legacy \o <<Id("x"), K(")")>>, want)}

(***************************************************************************)
(* Texts in quotes, in a template, and as a plain configuration value.     *)
(***************************************************************************)
TextChars == {97, 34, 39, 92, 123, 125, 10, 233}
QuotedTexts == UNION {[1..n -> TextChars] : n \in 0..3}
Encoded(t, special) == FlattenSeq([i \in 1..Len(t) |-> IF t[i] \in DOMAIN special THEN special[t[i]] ELSE <<t[i]>>])
Quoted(t) == <<34>> \o Encoded(t, 34 :> <<92, 34>> @@ 92 :> <<92, 92>> @@ 123 :> <<123, 123>>) \o <<34>>
Escaped(t) == <<34>> \o Encoded(t, 34 :> <<92, 34>> @@ 92 :> <<92, 92>> @@ 123 :> <<92, 123>> @@ 10 :> <<92, 110>>) \o <<34>>
SingleQuoted(t) == <<39>> \o Encoded(t, 39 :> <<92, 39>> @@ 92 :> <<92, 92>>) \o <<39>>
Template(t) == Encoded(t, 123 :> <<123, 123>> @@ 125 :> <<125, 125>>) \o <<123, 120, 125>>
Shown(e) == CallTo("toString", <<e>>)
TextInputs ==
    {In("source", Quoted(t), Prog(TextLit(t))) : t \in QuotedTexts}
    \cup {In("source", Escaped(t), Prog(TextLit(t))) : t \in QuotedTexts}
    \cup {In("source", SingleQuoted(t), Prog(TextLit(t))) : t \in QuotedTexts}
    \cup {In("source", <<96>> \o t \o <<96>>, Prog(Ast("field", <<>>, <<TextLit(t)>>))) : t \in QuotedTexts}
    \cup {In("value", Template(t), Prog(Ast("interp", <<>>, (IF t = <<>> THEN <<>> ELSE <<TextLit(t)>>) \o <<Shown(X)>>)))
               : t \in QuotedTexts}
    \cup {In("value", t, Prog(TextLit(t))) : t \in {u \in QuotedTexts : \A i \in 1..Len(u) : u[i] # 123}}

(***************************************************************************)
(* Nestings and counts around the limits.                                  *)
(***************************************************************************)
Times(n, toks) == FlattenSeq([i \in 1..n |-> toks])
RECURSIVE Nest(_, _, _)
Nest(n, F(_), e) == IF n = 0 THEN e ELSE F(Nest(n - 1, F, e))
AtMost(n, limit, why, e) == IF n <= limit THEN Prog(e) ELSE Err(why)
Depths == 1..MaxExprDepth + 1
Limits ==
    {Tokens(Times(n, <<K("(")>>) \o <<Id("x")>> \o Times(n, <<K(")")>>), AtMost(n + 1, MaxExprDepth, "NestingTooDeep", X))
        : n \in Depths}
    \cup {Tokens(Times(n, <<K("~")>>) \o <<Id("x")>>,
                 AtMost(n + 1, MaxExprDepth, "NestingTooDeep", Nest(n, LAMBDA e : CallTo("bitNot", <<e>>), X))) : n \in Depths}
    \cup {Tokens(<<Id("x")>> \o Times(n, <<K("+"), Id("x")>>),
                 AtMost(n + 1, MaxExprDepth, "NestingTooDeep", Nest(n, LAMBDA e : CallTo("add", <<e, X>>), X))) : n \in Depths}
    \cup {Tokens(<<Id("x")>> \o Times(n, <<K("**"), Id("x")>>),
                 AtMost(n + 1, MaxExprDepth, "NestingTooDeep", Nest(n, LAMBDA e : CallTo("power", <<X, e>>), X))) : n \in Depths}
    \cup {Tokens(<<Id("x")>> \o Times(n, <<K("["), Num(1), K("]")>>),
                 AtMost(n + 2, MaxExprDepth, "NestingTooDeep", Nest(n, LAMBDA e : CallTo("element", <<e, OneLit>>), X))) : n \in Depths}
    \cup {Tokens(<<Id("coalesce"), K("("), Id("x")>> \o Times(n, <<K(","), Id("x")>>) \o <<K(")")>>,
                 AtMost(n + 1, MaxExprDepth, "NestingTooDeep", Nest(n, LAMBDA e : Ast("ifnull", <<>>, <<X, e>>), X))) : n \in Depths}
    \cup {Tokens(Times(n, <<K("if"), K("("), Id("x"), K(","), Num(1), K(",")>>) \o <<Id("x")>> \o Times(n, <<K(")")>>),
                 AtMost(2 * n + 2, MaxAstNodes, "TooManyNodes",
                        Ast(IF n = 1 THEN "if" ELSE "multiif", <<>>, Times(n, <<X, OneLit>>) \o <<X>>))) : n \in Depths}
    \cup {Tokens(<<K("[")>> \o Times(n, <<Id("x"), K(",")>>) \o <<K("]")>>,
                 AtMost(n + 1, MaxAstNodes, "TooManyNodes", Ast("array", <<>>, Times(n, <<X>>)))) : n \in {1, 5, MaxAstNodes}}
    \cup {Tokens(Times(n, <<Id("y"), K("="), Num(1), K(";")>>) \o <<Id("x")>>,
                 IF n <= MaxVariables THEN Ok(Scope("program", Times(n, <<<<"y", OneLit>>>>), X)) ELSE Err("TooManyVariables"))
        : n \in 1..MaxVariables + 1}
    \cup {Tokens(<<Id("f"), K("(")>> \o Times(n, <<Id("x"), K(",")>>) \o <<K(")")>>,
                 AtMost(n, MaxFunctionArgs, "Parse", CallTo("f", Times(n, <<X>>)))) : n \in 1..MaxFunctionArgs + 1}

(***************************************************************************)
(* Sources, with the tokens that take more than one character to read.     *)
(***************************************************************************)
XIs1 == Ok(Scope("program", <<<<"x", OneLit>>>>, Ast("var", "y", <<>>)))
Obj == Ast("object", <<>>, <<>>)
Sources ==
    {<<<<120, 61, 49, 59, 121>>, XIs1>>,                                        \* x=1;y
     <<<<120, 61, 49, 10, 121>>, XIs1>>,                                        \* x=1 and y on the next line
     <<<<120, 61, 49, 35, 59, 10, 32, 121>>, XIs1>>,                            \* x=1#; and y on the next line
     <<<<120, 61, 49, 32, 121>>, Err("Parse")>>,                                \* x=1 y
     <<<<120, 61, 34, 10, 34, 121>>, Ok(Scope("program", <<<<"x", TextLit(<<10>>)>>>>, Ast("var", "y", <<>>)))>>,
     <<<<48, 120, 49, 70>>, Prog(Lit(<<"Int64", 31>>))>>,                       \* 0x1F
     <<<<48, 120>>, Err("NoHexDigits")>>,
     <<<<49, 46, 53>>, Prog(Lit(<<"Float64", 3>>))>>,                           \* 1.5
     <<<<49, 104, 51, 48, 109>>, Prog(Lit(<<"Interval", 5400000>>))>>,          \* 1h30m
     <<<<51, 48, 109, 49, 104>>, Err("Parse")>>,                                \* 30m1h
     <<<<80, 84, 49, 77>>, Prog(Lit(<<"Interval", 60000>>))>>,                  \* PT1M
     <<<<80, 49, 68>>, Prog(Lit(<<"Interval", 86400000>>))>>,                   \* P1D
     <<<<80, 120>>, Prog(Ast("var", "other", <<>>))>>,                          \* Px
     <<<<120, 60, 60, 121>>, Prog(CallTo("bitShiftLeft", <<X, Ast("var", "y", <<>>)>>))>>,
     <<<<120, 60, 61, 121>>, Prog(CallTo("lessOrEquals", <<X, Ast("var", "y", <<>>)>>))>>,
     <<<<120, 42, 42, 121>>, Prog(CallTo("power", <<X, Ast("var", "y", <<>>)>>))>>,
     <<<<110, 117, 108, 108>>, Prog(Lit(Null))>>,
     <<<<34, 123, 34, 125, 34, 125, 34>>, Prog(Ast("interp", <<>>, <<Shown(TextLit(<<125>>))>>))>>,   \* "{"}"}"
     <<<<34, 123, 39, 125, 39, 125, 34>>, Prog(Ast("interp", <<>>, <<Shown(TextLit(<<125>>))>>))>>,   \* "{'}'}"
     <<<<34, 123, 32, 123, 125, 125, 34>>, Prog(Ast("interp", <<>>, <<Shown(Obj)>>))>>,               \* "{ {}}"
     <<<<34, 123, 120>>, Err("UnterminatedInterpolation")>>,
     <<<<34, 120>>, Err("UnterminatedString")>>, <<<<34, 92, 233, 34>>, Prog(TextLit(<<233>>))>>,
     <<<<64>>, Err("UnexpectedCharacter")>>,
     <<[i \in 1..MaxSourceLen + 1 |-> 32], Err("ExpressionTooLong")>>}
Config == {<<<<120, 40, 41>>, Prog(CallTo("x", <<>>))>>, <<<<91, 49, 93>>, Prog(Ast("array", <<>>, <<OneLit>>))>>,
           <<<<40, 120>>, Prog(TextLit(<<40, 120>>))>>, <<<<123, 123>>, Prog(TextLit(<<123, 123>>))>>,
           <<<<123, 96, 120, 96, 125>>, Prog(Ast("interp", <<>>, <<Shown(Ast("field", <<>>, <<TextLit(<<120>>)>>))>>))>>}
\* A string whose interpolation is such a string, n times: "{"{x}"}" for n = 2.
RECURSIVE InStrings(_, _)
InStrings(n, src) == IF n = 0 THEN src ELSE <<34, 123>> \o InStrings(n - 1, src) \o <<125, 34>>
Interpolated(e) == Ast("interp", <<>>, <<Shown(e)>>)
NestedStrings ==
    {In("source", InStrings(n, <<120>>), Prog(Nest(n, Interpolated, X))) : n \in 1..MaxExprDepth + 1}
    \cup {In("source", <<40, 40>> \o InStrings(n, <<40, 120, 41>>) \o <<41, 41>>, Prog(Nest(n, Interpolated, X))) : n \in 1..3}
\* Field references are refused when a configuration is patched.
Refusing(form, of) == [form |-> form, comptime |-> TRUE, of |-> of, expect |-> Err("Parse")]
Comptime ==
    {Refusing("tokens", Closed(toks))
        : toks \in {Written(e, st) : e \in Forms(TextLit(<<97>>)) \cap {f \in FormTrees : f[1] \in {"field", "fields"}}, st \in 1..2}}
    \cup {Refusing("source", src) : src \in {<<96, 97, 96>>, InStrings(1, <<96, 97, 96>>), InStrings(2, <<96, 97, 96>>)}}
TomlInputs ==
    LET tstr == <<"String", <<120, 40, 41>>>>
        leaf == CallTo("x", <<>>)
        table(v) == <<"Table", <<<<107>>, <<97>>>>, <<v, <<"Integer", 1>>>>>>
    IN  {In("toml", <<"Array", <<>>, <<tstr, table(tstr)>>>>,
            Ok(Ast("array", <<>>, <<leaf, Ast("object", <<<<107>>, <<97>>>>, <<leaf, OneLit>>)>>)))}
        \cup {In("toml", Nest(n, LAMBDA v : <<"Array", <<>>, <<v>>>>, tstr),
                 IF n <= MaxExprDepth THEN Ok(Nest(n, LAMBDA e : Ast("array", <<>>, <<e>>), leaf)) ELSE Err("NestingTooDeep"))
                 : n \in Depths}

(***************************************************************************)
(* Every short run of tokens.                                              *)
(***************************************************************************)
Alphabet ==
    {K(k) : k \in {"+", "<", "-", "(", ")", "[", "]", "{", "}", ",", "=", ":", ";", "if", "else"}}
    \cup {Id("x"), Num(1), Tok("Str", <<<<"Literal", <<97>>>>>>, 1)}
Shorts == {Tokens(toks, <<"any">>) : toks \in [1..3 -> Alphabet]}
After(toks) == {Tokens(toks \o more, <<"any">>) : more \in [1..2 -> Alphabet]}
MCInputs ==
    Chains3 \cup SignedChains \cup WrittenTrees \cup MixedChains \cup TextInputs \cup Limits \cup NestedStrings \cup Comptime
    \cup TomlInputs
    \cup {In("source", s[1], s[2]) : s \in Sources} \cup {In("value", s[1], s[2]) : s \in Config}
    \cup Shorts \cup After(<<K("if"), K("("), Id("x"), K(")"), K("{")>>) \cup After(<<K("if"), K("("), Id("x"), K(",")>>)
    \cup After(<<Id("f"), K("("), Id("x")>>) \cup After(<<Id("x"), K("["), Num(1)>>)

(***************************************************************************)
(* One half at a time.                                                     *)
(***************************************************************************)
IdleJob == Job(Single(Nil), Cx(FALSE, <<>>), <<>>, <<>>)
IdleInput == Tokens(<<Id("x")>>, Prog(X))
ExprJobs == MCJobs \cup {IdleJob}
ExprParses == MCInputs \cup {IdleInput}

ExprInit ==
    \/ half = "parse" /\ job = IdleJob /\ OptInit /\ ParseInit
    \/ half = "optimize" /\ input = IdleInput /\ ParseInit /\ OptInit

Compiled == phase \in {"done", "refused"} /\ UNCHANGED vars

ExprNext ==
    \/ half = "optimize" /\ (OptNext \/ Compiled) /\ UNCHANGED <<half, parseVars>>
    \/ half = "parse" /\ ParseNext /\ UNCHANGED <<half, vars>>

ExprSpec == ExprInit /\ [][ExprNext]_exprVars
=============================================================================
