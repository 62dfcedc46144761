---------------------------- MODULE FuncsNumeric ----------------------------
(* crates/expr/funcs, what the builtins share: the ExprFunction contract, the *)
(* types of expressions (crates/expr/types) and the arithmetic on types.      *)
(*                                                                            *)
(* A builtin is one operator F(q, xs) that answers the trait's questions: q   *)
(* is "arity", "pure", "can_fail", "type" (xs are the arguments' types) or    *)
(* "value" (xs are their values).  A type is [t, null, bound]: a data type,   *)
(* whether it may be null, and the significant bits of an integer if known.   *)
EXTENDS Conversion

CONSTANTS
    MaxBigintWidth,   \* MAX_BIGINT_WIDTH, scaled
    MaxStringBytes,   \* MAX_EXPR_STRING_BYTES, scaled
    MaxArrayLen       \* MAX_ARRAY_LEN, scaled

Net(t, nullable) == [t |-> t, null |-> nullable, bound |-> NoSize]
non_null(t) == Net(t, FALSE)
int_with_bound(t, bits) == [t |-> t, null |-> FALSE, bound |-> bits]
ArrayType(elem, elemNullable, nullable) == Net(<<"Array", elem, elemNullable>>, nullable)
TText == <<"Text", NoSize>>
TBytes == <<"Bytes", NoSize>>
TBool == <<"Bool">>
TInt64 == <<"Int64">>
TFloat64 == <<"Float64">>
TDecimal == <<"Decimal", NoSize, NoSize>>
TypeMismatch == Err("TypeMismatch")
InvalidArgument == Err("InvalidArgument")

(***************************************************************************)
(* The contract.  NoMax is a variadic function's max_args.                 *)
(***************************************************************************)
NoMax == -1
Fn(q, arity, pure, fallible, type, value) ==
    CASE q = "arity" -> arity
      [] q = "pure" -> pure
      [] q = "can_fail" -> fallible
      [] q = "type" -> type
      [] q = "value" -> value
\* A function of exactly n arguments that depends on nothing else.
Pure(q, n, type, value) == Fn(q, <<n, n>>, TRUE, TRUE, type, value)
\* One that also never fails on well-typed arguments.
Total(q, n, type, value) == Fn(q, <<n, n>>, TRUE, FALSE, type, value)
AnyNullable(ts) == \E i \in 1..Len(ts) : ts[i].null
HasNull(xs) == \E i \in 1..Len(xs) : xs[i] = Null
\* Null in, null out; `result` otherwise.
NullOr(xs, result) == IF HasNull(xs) THEN Ok(Null) ELSE result
Nullable(xs, t) == Ok(Net(t, AnyNullable(xs)))
Then2(r, Next2(_)) == IF IsOk(r) THEN Next2(r[2]) ELSE r

admits(arity, n) == arity[1] <= n /\ (arity[2] = NoMax \/ n <= arity[2])
arity_ranges_overlap(a, b) ==
    (b[2] = NoMax \/ a[1] <= b[2]) /\ (a[2] = NoMax \/ b[1] <= a[2])

extract_text(v) == IF Tag(v) = "Text" THEN Ok(v[2]) ELSE TypeMismatch
extract_bytes(v) == IF Tag(v) = "Bytes" THEN Ok(v[2]) ELSE TypeMismatch
extract_int64(v) == IF Tag(v) = "Int64" THEN Ok(v[2]) ELSE TypeMismatch
validate_text_arg(t) == t.t[1] = "Text"

(***************************************************************************)
(* arithmetic_utils.rs.                                                    *)
(***************************************************************************)
is_integer(t) == t[1] \in IntTags
is_float(t) == t[1] \in FloatTags
is_numeric(t) == is_integer(t) \/ is_float(t) \/ t[1] \in {"BigInt", "Decimal"}

value_to_f64(v) ==
    CASE IsInt(v) \/ Tag(v) = "BigInt" -> Ok(IntToF64(v[2]))
      [] IsFloat(v) -> Ok(v[2])
      [] Tag(v) = "Decimal" -> Ok(ToF64(DecimalHalves(v)))
      [] OTHER -> TypeMismatch

\* The decimal digits 2^bits needs, and one more.
bits_to_decimal_digits(bits) == Len(Digits(2 ^ bits)) + 1
bits_to_int_type(bits) ==
    CASE bits <= I8 -> Ok(<<"Int8">>)
      [] I8 < bits /\ bits <= I16 -> Ok(<<"Int16">>)
      [] I16 < bits /\ bits <= I32 -> Ok(<<"Int32">>)
      [] I32 < bits /\ bits <= I64 -> Ok(<<"Int64">>)
      [] OTHER -> IF bits_to_decimal_digits(bits) > MaxBigintWidth THEN TypeMismatch
                  ELSE Ok(<<"BigInt", bits_to_decimal_digits(bits)>>)
\* The smallest type an integer bound allows.
materialized_data_type(n) == IF n.bound = NoSize THEN n.t ELSE bits_to_int_type(n.bound)[2]

\* How the width of a result follows from those of its operands.
ResultWidth(op, l, r) ==
    CASE op \in {"add", "subtract"} -> Max({l, r}) + 1
      [] op = "multiply" -> l + r
      [] op = "divide" -> l
      [] op = "modulo" -> Min({l, r})
WidthOr(w) == IF w = NoSize THEN MaxBigintWidth ELSE w
scalar_arithmetic(op, l, r) ==
    LET Mixed(int, big) ==
            Ok(<<"BigInt", Min({Max({bits_to_decimal_digits(IntBits(int[1])), WidthOr(big[2])}) + 1,
                                MaxBigintWidth})>>)
    IN  CASE is_integer(l) /\ is_integer(r) ->
                bits_to_int_type(ResultWidth(op, IntBits(l[1]), IntBits(r[1])))
          [] is_float(l) /\ is_float(r) ->
                Ok(IF {l[1], r[1]} = {"Float32"} THEN l ELSE TFloat64)
          [] (is_integer(l) /\ is_float(r)) \/ (is_float(l) /\ is_integer(r)) -> Ok(TFloat64)
          [] l[1] = "BigInt" /\ r[1] = "BigInt" ->
                Ok(<<"BigInt", Min({ResultWidth(op, WidthOr(l[2]), WidthOr(r[2])), MaxBigintWidth})>>)
          [] is_integer(l) /\ r[1] = "BigInt" -> Mixed(l, r)
          [] l[1] = "BigInt" /\ is_integer(r) -> Mixed(r, l)
          [] "Decimal" \in {l[1], r[1]} /\ is_numeric(l) /\ is_numeric(r) -> Ok(TDecimal)
          [] OTHER -> TypeMismatch

\* Two known integer bounds give a bound; otherwise the declared types decide.
arithmetic_result_type(op, l, r) ==
    LET nullable == l.null \/ r.null
        bits == ResultWidth(op, l.bound, r.bound)
        s == scalar_arithmetic(op, l.t, r.t)
    IN  IF NoSize \notin {l.bound, r.bound}
        THEN IF bits <= I64 THEN Ok([t |-> TInt64, null |-> nullable, bound |-> bits])
             ELSE IF bits_to_decimal_digits(bits) > MaxBigintWidth THEN TypeMismatch
             ELSE Ok(Net(<<"BigInt", bits_to_decimal_digits(bits)>>, nullable))
        ELSE Then2(s, LAMBDA t : Ok(Net(t, nullable)))

numeric_join(l, r) ==
    CASE is_integer(l) /\ is_integer(r) -> bits_to_int_type(Max({IntBits(l[1]), IntBits(r[1])}))
      [] is_float(l) /\ is_float(r) -> Ok(IF {l[1], r[1]} = {"Float32"} THEN l ELSE TFloat64)
      [] (is_integer(l) /\ is_float(r)) \/ (is_float(l) /\ is_integer(r)) -> Ok(TFloat64)
      [] {l[1], r[1]} \subseteq IntTags \cup {"BigInt"} /\ "BigInt" \in {l[1], r[1]} ->
            Ok(<<"BigInt", NoSize>>)
      [] "Decimal" \in {l[1], r[1]} -> Ok(TDecimal)
      [] OTHER -> TypeMismatch
join_comparable(l, r) ==
    IF TypeEq(l, r) THEN Ok(l)
    ELSE IF is_numeric(l) /\ is_numeric(r) THEN numeric_join(l, r)
    ELSE IF l[1] = r[1] /\ l[1] \in {"Text", "Bytes"} THEN Ok(<<l[1], NoSize>>)
    ELSE TypeMismatch
\* The type min and max give; null only when every argument may be.
comparable_join(ts) ==
    LET j == FoldLeft(LAMBDA acc, x : Then2(acc, LAMBDA t : join_comparable(t, x.t)),
                      Ok(ts[1].t), Tail(ts))
    IN  Then2(j, LAMBDA t : Ok(Net(t, \A i \in 1..Len(ts) : ts[i].null)))

concat_result_type(ts) ==
    IF \E i \in 1..Len(ts) : ts[i][1] # "Text" THEN TypeMismatch
    ELSE Ok(<<"Text", IF \E i \in 1..Len(ts) : ts[i][2] = NoSize THEN NoSize
                      ELSE FoldLeft(LAMBDA acc, t : acc + t[2], 0, ts)>>)

\* The element of two arrays joined: whichever the other converts into.
array_element_join(l, r) ==
    CASE r = NoElem -> Ok(l)
      [] l = NoElem /\ r # NoElem -> Ok(r)
      [] OTHER -> IF TypeEq(l, r) THEN Ok(l)
                  ELSE IF is_compatible(l, r) THEN Ok(r)
                  ELSE IF is_compatible(r, l) THEN Ok(l) ELSE TypeMismatch

-----------------------------------------------------------------------------
(* The numeric, comparison and logical builtins: builtins/arithmetic.rs,      *)
(* math.rs, bitwise.rs, comparison.rs, logical.rs and conditional.rs.         *)
(* Floats have no negative zero here.                                         *)

(***************************************************************************)
(* IEEE arithmetic on halves.                                              *)
(***************************************************************************)
FNeg(x) == IF x = NaN THEN NaN ELSE -x
FAbs(x) == IF x = NaN THEN NaN ELSE Abs(x)
FAdd(x, y) ==
    CASE NaN \in {x, y} \/ (x = FNeg(y) /\ ~IsFinite(x)) -> NaN
      [] OTHER -> IF ~IsFinite(x) THEN x ELSE IF ~IsFinite(y) THEN y ELSE ToF64(x + y)
FSub(x, y) == FAdd(x, FNeg(y))
\* a / b to the nearest integer, ties to even.
Nearest(a, b) ==
    LET q == Abs(a) \div Abs(b)
        r == Abs(a) % Abs(b)
    IN  Sgn(a) * Sgn(b) * (IF 2 * r > Abs(b) \/ (2 * r = Abs(b) /\ q % 2 = 1) THEN q + 1 ELSE q)
FMul(x, y) ==
    CASE NaN \in {x, y} \/ (0 \in {x, y} /\ ~(IsFinite(x) /\ IsFinite(y))) -> NaN
      [] 0 \in {x, y} /\ IsFinite(x) /\ IsFinite(y) -> 0
      [] OTHER -> IF ~IsFinite(x) \/ ~IsFinite(y) \/ Abs(x) > 1000000000 \div Abs(y)
                  THEN Sgn(x) * Sgn(y) * Inf ELSE ToF64(Nearest(x * y, 2))
\* The divisor is not zero.
FDiv(x, y) ==
    CASE NaN \in {x, y} \/ (~IsFinite(x) /\ ~IsFinite(y)) -> NaN
      [] IsFinite(x) /\ ~IsFinite(y) /\ y # NaN -> 0
      [] OTHER -> IF ~IsFinite(x) THEN Sgn(x) * Sgn(y) * Inf ELSE ToF64(Nearest(2 * x, y))
FRem(x, y) ==
    IF NaN \in {x, y} \/ ~IsFinite(x) THEN NaN ELSE IF ~IsFinite(y) THEN x ELSE Rem(x, y)

(***************************************************************************)
(* arithmetic.rs.                                                          *)
(***************************************************************************)
widen_numeric(v) ==
    CASE IsInt(v) -> IF InRange("Int64", v[2]) THEN <<"Int64", v[2]>> ELSE <<"BigInt", v[2]>>
      [] Tag(v) = "Float32" -> <<"Float64", v[2]>>
      [] OTHER -> v
validate_numeric_args(l, r) == is_numeric(l.t) /\ is_numeric(r.t)

\* Two decimals at one scale.
Aligned(a, b) ==
    LET s == Max({a[3], b[3]}) IN <<WithScale(a, s)[2], WithScale(b, s)[2], s>>
AsDecimal(v) == IF Tag(v) = "Decimal" THEN v ELSE <<"Decimal", v[2], 0>>
DecimalAdd(a, b) == LET c == Aligned(a, b) IN <<"Decimal", c[1] + c[2], c[3]>>
DecimalSub(a, b) == LET c == Aligned(a, b) IN <<"Decimal", c[1] - c[2], c[3]>>
DecimalMul(a, b) == <<"Decimal", a[2] * b[2], a[3] + b[3]>>
\* BigDecimal carries a quotient on past the operands' scale; here by DivDigits.
DivDigits == 2
DecimalDiv(a, b) ==
    LET c == Aligned(a, b) IN <<"Decimal", Quot(c[1] * 10 ^ DivDigits, c[2]), DivDigits>>
DecimalRem(a, b) == LET c == Aligned(a, b) IN <<"Decimal", Rem(c[1], c[2]), c[3]>>

Whole(v) == Tag(v) \in {"Int64", "BigInt"}
IntOrBig(n) == IF InRange("Int64", n) THEN <<"Int64", n>> ELSE <<"BigInt", n>>
\* The pairs every operator computes on once narrow operands are widened: an
\* Int64 result that overflows becomes a BigInt; a float meets only a float.
OnNumbers(x, y, whole(_, _), float(_, _), decimal(_, _)) ==
    LET a == widen_numeric(x)
        b == widen_numeric(y)
    IN  CASE Whole(a) /\ Whole(b) ->
                Ok(IF "BigInt" \in {Tag(a), Tag(b)} THEN <<"BigInt", whole(a[2], b[2])>>
                   ELSE IntOrBig(whole(a[2], b[2])))
          [] Tag(a) = "Float64" /\ Tag(b) = "Float64" -> Ok(<<"Float64", float(a[2], b[2])>>)
          [] /\ {Tag(a), Tag(b)} \subseteq {"Int64", "Decimal"}
             /\ "Decimal" \in {Tag(a), Tag(b)} -> Ok(decimal(AsDecimal(a), AsDecimal(b)))
          [] OTHER -> TypeMismatch
IsZero(v) == Tag(v) \in IntTags \cup FloatTags \cup {"BigInt", "Decimal"} /\ v[2] = 0
\* A zero divisor is refused once the pair is one the operator computes on.
OnDivisor(x, y, whole(_, _), float(_, _), decimal(_, _)) ==
    IF IsZero(y)
    THEN LET r == OnNumbers(x, y, LAMBDA a, b : 0, LAMBDA a, b : 0, LAMBDA a, b : a)
         IN  IF IsOk(r) THEN Err("DivisionByZero") ELSE r
    ELSE OnNumbers(x, y, whole, float, decimal)
NumericType(op, ts) ==
    IF validate_numeric_args(ts[1], ts[2]) THEN arithmetic_result_type(op, ts[1], ts[2])
    ELSE TypeMismatch

concat_arrays(a, b) ==
    IF Len(a) + Len(b) > MaxArrayLen THEN InvalidArgument ELSE Ok(<<"Array", a \o b>>)
add_array_result_type(ts) ==
    Then2(array_element_join(ts[1].t[2], ts[2].t[2]),
          LAMBDA e : Ok(ArrayType(e, ts[1].t[3] \/ ts[2].t[3], AnyNullable(ts))))

Add(q, xs) ==
    Total(q, 2,
        CASE xs[1].t[1] = "Array" /\ xs[2].t[1] = "Array" -> add_array_result_type(xs)
          [] xs[1].t[1] = "Text" /\ xs[2].t[1] = "Text" ->
                Then2(concat_result_type(<<xs[1].t, xs[2].t>>), LAMBDA t : Nullable(xs, t))
          [] OTHER -> NumericType("add", xs),
        NullOr(xs,
            CASE Tag(xs[1]) = "Array" ->
                    IF Tag(xs[2]) = "Array" THEN concat_arrays(xs[1][2], xs[2][2]) ELSE TypeMismatch
              [] Tag(xs[1]) = "Text" ->
                    IF Tag(xs[2]) = "Text" THEN Ok(<<"Text", xs[1][2] \o xs[2][2]>>) ELSE TypeMismatch
              [] OTHER -> OnNumbers(xs[1], xs[2], LAMBDA a, b : a + b, FAdd, DecimalAdd)))
Subtract(q, xs) ==
    Total(q, 2, NumericType("subtract", xs),
          NullOr(xs, OnNumbers(xs[1], xs[2], LAMBDA a, b : a - b, FSub, DecimalSub)))
Multiply(q, xs) ==
    Total(q, 2, NumericType("multiply", xs),
          NullOr(xs, OnNumbers(xs[1], xs[2], LAMBDA a, b : a * b, FMul, DecimalMul)))
Divide(q, xs) ==
    Pure(q, 2, NumericType("divide", xs),
         NullOr(xs, OnDivisor(xs[1], xs[2], Quot, FDiv, DecimalDiv)))
\* i64::MIN % -1 overflows too, and is the BigInt 0.
Modulo(q, xs) ==
    Pure(q, 2, NumericType("modulo", xs),
         NullOr(xs,
            IF xs[1] = <<"Int64", IntMin("Int64")>> /\ Whole(widen_numeric(xs[2])) /\ xs[2][2] = -1
            THEN Ok(<<"BigInt", 0>>)
            ELSE OnDivisor(xs[1], xs[2], Rem, FRem, DecimalRem)))

\* A signed result that does not fit its own width is a BigInt.
SameWidthOrBig(tag, n) == IF InRange(tag, n) THEN <<tag, n>> ELSE <<"BigInt", n>>
Negate(q, xs) ==
    Pure(q, 1,
        Ok(CASE xs[1].t[1] \in {"UInt8", "UInt16", "UInt32"} -> Net(TInt64, xs[1].null)
             [] xs[1].t[1] = "UInt64" -> Net(<<"BigInt", NoSize>>, xs[1].null)
             [] OTHER -> xs[1]),
        NullOr(xs,
            CASE Tag(xs[1]) \in SignedInts -> Ok(SameWidthOrBig(Tag(xs[1]), -xs[1][2]))
              [] Tag(xs[1]) \in {"UInt8", "UInt16", "UInt32"} -> Ok(<<"Int64", -xs[1][2]>>)
              [] Tag(xs[1]) \in {"UInt64", "BigInt"} -> Ok(<<"BigInt", -xs[1][2]>>)
              [] IsFloat(xs[1]) -> Ok(<<Tag(xs[1]), FNeg(xs[1][2])>>)
              [] Tag(xs[1]) = "Decimal" -> Ok([xs[1] EXCEPT ![2] = -@])
              [] OTHER -> TypeMismatch))
AbsFunc(q, xs) ==
    Pure(q, 1, Ok(xs[1]),
        NullOr(xs,
            CASE Tag(xs[1]) \in SignedInts -> Ok(SameWidthOrBig(Tag(xs[1]), Abs(xs[1][2])))
              [] Tag(xs[1]) \in UnsignedInts -> Ok(xs[1])
              [] IsFloat(xs[1]) -> Ok(<<Tag(xs[1]), FAbs(xs[1][2])>>)
              [] Tag(xs[1]) \in {"BigInt", "Decimal"} -> Ok([xs[1] EXCEPT ![2] = Abs(@)])
              [] OTHER -> TypeMismatch))

\* n / d rounded by mode; the integers are floored by \div.
Rounded(n, d, mode) ==
    CASE mode = "ceil" -> -((-n) \div d)
      [] mode = "floor" -> n \div d
      [] mode = "round" -> Sgn(n) * ((2 * Abs(n) + d) \div (2 * d))
\* Exact for integers and decimals, checked against the range of i64; NaN is 0.
round_to_int64(v, mode) ==
    LET n == CASE IsInt(v) \/ Tag(v) = "BigInt" -> v[2]
               [] Tag(v) = "Decimal" -> Rounded(v[2], 10 ^ v[3], mode)
               [] OTHER -> IF v[2] = NaN THEN 0 ELSE Rounded(v[2], 2, mode)
    IN  IF ~is_numeric(data_type(v)) THEN TypeMismatch
        ELSE IF InRange("Int64", n) THEN Ok(<<"Int64", n>>) ELSE Err("IntegerOverflow")
Ceil(q, xs) == Pure(q, 1, Nullable(xs, TInt64), NullOr(xs, round_to_int64(xs[1], "ceil")))
Floor(q, xs) == Pure(q, 1, Nullable(xs, TInt64), NullOr(xs, round_to_int64(xs[1], "floor")))
Round(q, xs) == Pure(q, 1, Nullable(xs, TInt64), NullOr(xs, round_to_int64(xs[1], "round")))

is_nan(v) == IsFloat(v) /\ v[2] = NaN
\* Nulls are skipped, the first of equals is kept, NaN swallows everything.
fold_extremum(xs, winning) ==
    LET Step(acc, v) ==
            IF ~IsOk(acc) \/ v = Null THEN acc
            ELSE IF acc[2] = Null THEN Ok(v)
            ELSE LET o == compare_values(v, acc[2])
                 IN  IF o = winning THEN Ok(v) ELSE IF o # NoOrder THEN acc
                     ELSE IF is_nan(v) \/ is_nan(acc[2]) THEN Ok(<<"Float64", NaN>>)
                     ELSE TypeMismatch
    IN  FoldLeft(Step, Ok(Null), xs)
MinFunc(q, xs) == Fn(q, <<1, NoMax>>, TRUE, FALSE, comparable_join(xs), fold_extremum(xs, -1))
MaxFunc(q, xs) == Fn(q, <<1, NoMax>>, TRUE, FALSE, comparable_join(xs), fold_extremum(xs, 1))

Signum(n) == IF n > 0 THEN 1 ELSE IF n < 0 THEN -1 ELSE 0
float_sign(x) == IF x = NaN THEN 0 ELSE Signum(x)
SignFunc(q, xs) ==
    Pure(q, 1, Nullable(xs, TInt64),
        NullOr(xs, IF ~is_numeric(data_type(xs[1])) THEN TypeMismatch
                   ELSE Ok(<<"Int64", IF IsFloat(xs[1]) THEN float_sign(xs[1][2])
                                      ELSE Signum(xs[1][2])>>)))

(***************************************************************************)
(* math.rs.  Of the functions of libm and the statistics crates only the   *)
(* domain is kept: outside it NaN, inside some float.                      *)
(***************************************************************************)
LibmDomain(f, x) ==
    CASE f \in {"asin", "acos", "atanh"} -> Abs(x) <= 2
      [] f = "acosh" -> x >= 2
      [] f \in {"log", "log2", "log10", "lnGamma"} -> x > 0
      [] f \in {"lambertW", "powf"} -> x >= 0
      [] f \in {"sin", "cos", "tan"} -> IsFinite(x)
      [] OTHER -> TRUE
Libm(f, x) == IF x = NaN \/ ~LibmDomain(f, x) THEN NaN ELSE CHOOSE y \in -2..2 : TRUE
Sqrt(x) ==
    IF x = NaN \/ x < 0 THEN NaN ELSE IF x = Inf THEN Inf
    ELSE Max({y \in 0..1024 : y * y <= 2 * x})
\* Exact for the small whole exponents.
RECURSIVE Powf(_, _)
Powf(b, e) ==
    CASE e = 0 -> 2
      [] e \in 1..16 /\ e % 2 = 0 -> FMul(b, Powf(b, e - 2))
      [] -e \in 1..16 /\ e % 2 = 0 -> LET p == Powf(b, -e) IN IF p = 0 THEN Inf ELSE FDiv(2, p)
      [] OTHER -> Libm("powf", b)

OnFloats(xs, Body(_)) ==
    LET fs == Collect([i \in 1..Len(xs) |-> value_to_f64(xs[i])]) IN NullOr(xs, Then2(fs, Body))
FloatFn(q, xs, f(_)) ==
    Pure(q, 1, Nullable(xs, TFloat64), OnFloats(xs, LAMBDA a : Ok(<<"Float64", f(a[1])>>)))
FloatFn2(q, xs, f(_, _)) ==
    Pure(q, 2, Nullable(xs, TFloat64), OnFloats(xs, LAMBDA a : Ok(<<"Float64", f(a[1], a[2])>>)))
FloatConst(q, halves) == Pure(q, 0, Ok(non_null(TFloat64)), Ok(<<"Float64", halves>>))

Power(q, xs) == FloatFn2(q, xs, Powf)
SqrtFunc(q, xs) == FloatFn(q, xs, Sqrt)
Sin(q, xs) == FloatFn(q, xs, LAMBDA x : Libm("sin", x))
Cos(q, xs) == FloatFn(q, xs, LAMBDA x : Libm("cos", x))
Tan(q, xs) == FloatFn(q, xs, LAMBDA x : Libm("tan", x))
Asin(q, xs) == FloatFn(q, xs, LAMBDA x : Libm("asin", x))
Acos(q, xs) == FloatFn(q, xs, LAMBDA x : Libm("acos", x))
Atan(q, xs) == FloatFn(q, xs, LAMBDA x : Libm("atan", x))
Atan2(q, xs) == FloatFn2(q, xs, LAMBDA y, x : IF NaN \in {x, y} THEN NaN ELSE Libm("atan2", 0))
Log(q, xs) == FloatFn(q, xs, LAMBDA x : Libm("log", x))
Log2(q, xs) == FloatFn(q, xs, LAMBDA x : Libm("log2", x))
Log10(q, xs) == FloatFn(q, xs, LAMBDA x : Libm("log10", x))
Exp(q, xs) == FloatFn(q, xs, LAMBDA x : Libm("exp", x))
Cbrt(q, xs) == FloatFn(q, xs, LAMBDA x : Libm("cbrt", x))
Pi(q, xs) == FloatConst(q, 6)
Euler(q, xs) == FloatConst(q, 5)
Phi(q, xs) == FloatConst(q, 3)
Tau(q, xs) == FloatConst(q, 13)
Erf(q, xs) == FloatFn(q, xs, LAMBDA x : Libm("erf", x))
Erfc(q, xs) == FloatFn(q, xs, LAMBDA x : Libm("erfc", x))
Gamma(q, xs) == FloatFn(q, xs, LAMBDA x : Libm("gamma", x))
LnGamma(q, xs) == FloatFn(q, xs, LAMBDA x : Libm("lnGamma", x))
\* statrs panics where beta is not defined.
Beta(q, xs) ==
    Pure(q, 2, Nullable(xs, TFloat64),
        OnFloats(xs, LAMBDA a : IF NaN \in {a[1], a[2]} \/ a[1] <= 0 \/ a[2] <= 0 THEN <<"panic", "beta">>
                                ELSE Ok(<<"Float64", Libm("beta", a[1])>>)))
LambertW(q, xs) == FloatFn(q, xs, LAMBDA x : Libm("lambertW", x))
Sinh(q, xs) == FloatFn(q, xs, LAMBDA x : Libm("sinh", x))
Cosh(q, xs) == FloatFn(q, xs, LAMBDA x : Libm("cosh", x))
Tanh(q, xs) == FloatFn(q, xs, LAMBDA x : Libm("tanh", x))
Asinh(q, xs) == FloatFn(q, xs, LAMBDA x : Libm("asinh", x))
Acosh(q, xs) == FloatFn(q, xs, LAMBDA x : Libm("acosh", x))
Atanh(q, xs) == FloatFn(q, xs, LAMBDA x : Libm("atanh", x))
IsNan(q, xs) ==
    Pure(q, 1, Nullable(xs, TBool), OnFloats(xs, LAMBDA a : Ok(<<"Bool", a[1] = NaN>>)))
IsInfinite(q, xs) ==
    Pure(q, 1, Nullable(xs, TBool), OnFloats(xs, LAMBDA a : Ok(<<"Bool", Abs(a[1]) = Inf>>)))
\* f64::clamp panics on bounds that are not in order.
ClampFunc(q, xs) ==
    Pure(q, 3, Nullable(xs, TFloat64),
        OnFloats(xs, LAMBDA a :
            IF NaN \in {a[2], a[3]} \/ a[2] > a[3] THEN <<"panic", "clamp">>
            ELSE Ok(<<"Float64", IF a[1] = NaN THEN NaN ELSE Clamp(a[1], a[2], a[3])>>)))

(***************************************************************************)
(* bitwise.rs, on the two's complement of I64 bits.                        *)
(***************************************************************************)
Bits(n) == [i \in 0..I64 - 1 |-> ((n % 2 ^ I64) \div 2 ^ i) % 2 = 1]
FromBits(b) ==
    LET u == FoldLeft(LAMBDA acc, i : 2 * acc + (IF b[I64 - i] THEN 1 ELSE 0), 0, [i \in 1..I64 |-> i])
    IN  IF b[I64 - 1] THEN u - 2 ^ I64 ELSE u
BitFn(q, xs, n, f(_)) ==
    Pure(q, n, Nullable(xs, TInt64),
        NullOr(xs, Then2(Collect([i \in 1..Len(xs) |-> extract_int64(xs[i])]), f)))
OnBits(a, f(_, _)) ==
    Ok(<<"Int64", FromBits([i \in 0..I64 - 1 |-> f(Bits(a[1])[i], Bits(a[2])[i])])>>)
BitAnd(q, xs) == BitFn(q, xs, 2, LAMBDA a : OnBits(a, LAMBDA x, y : x /\ y))
BitOr(q, xs) == BitFn(q, xs, 2, LAMBDA a : OnBits(a, LAMBDA x, y : x \/ y))
BitXor(q, xs) == BitFn(q, xs, 2, LAMBDA a : OnBits(a, LAMBDA x, y : x # y))
BitNot(q, xs) == BitFn(q, xs, 1, LAMBDA a : Ok(<<"Int64", -a[1] - 1>>))
validate_shift_amount(n) == n \in 0..I64 - 1
BitShiftLeft(q, xs) ==
    BitFn(q, xs, 2, LAMBDA a :
        IF validate_shift_amount(a[2])
        THEN Ok(<<"Int64", FromBits([i \in 0..I64 - 1 |-> i >= a[2] /\ Bits(a[1])[i - a[2]]])>>)
        ELSE InvalidArgument)
BitShiftRight(q, xs) ==
    BitFn(q, xs, 2, LAMBDA a :
        IF validate_shift_amount(a[2]) THEN Ok(<<"Int64", a[1] \div 2 ^ a[2]>>) ELSE InvalidArgument)
BitCount(q, xs) ==
    BitFn(q, xs, 1, LAMBDA a : Ok(<<"Int64", Cardinality({i \in 0..I64 - 1 : Bits(a[1])[i]})>>))

(***************************************************************************)
(* comparison.rs, logical.rs and conditional.rs.                           *)
(***************************************************************************)
type_category(t) ==
    CASE is_numeric(t) -> "numeric"
      [] t[1] \in {"Text", "Bool", "Date", "Timestamp", "Uuid", "Object"} -> t[1]
      [] OTHER -> "other"
Comparison(q, xs, holds) ==
    Total(q, 2, IF type_category(xs[1].t) = type_category(xs[2].t) THEN Ok(non_null(TBool))
                ELSE TypeMismatch,
          Ok(<<"Bool", holds>>))
\* Null equals null and nothing else.
SameValue(a, b) == IF Null \in {a, b} THEN a = b ELSE ValuesEqual(a, b)
\* An ordering is false beside a null and between values that do not compare.
Ordered(a, b, orders) == Null \notin {a, b} /\ compare_values(a, b) \in orders
Equals(q, xs) == Comparison(q, xs, SameValue(xs[1], xs[2]))
NotEquals(q, xs) == Comparison(q, xs, ~SameValue(xs[1], xs[2]))
Greater(q, xs) == Comparison(q, xs, Ordered(xs[1], xs[2], {1}))
Less(q, xs) == Comparison(q, xs, Ordered(xs[1], xs[2], {-1}))
GreaterOrEquals(q, xs) == Comparison(q, xs, Ordered(xs[1], xs[2], {0, 1}))
LessOrEquals(q, xs) == Comparison(q, xs, Ordered(xs[1], xs[2], {-1, 0}))
Not(q, xs) ==
    Pure(q, 1, Nullable(xs, TBool),
        NullOr(xs, IF Tag(xs[1]) = "Bool" THEN Ok(<<"Bool", ~xs[1][2]>>) ELSE TypeMismatch))
IsNull(q, xs) == Pure(q, 1, Ok(non_null(TBool)), Ok(<<"Bool", xs[1] = Null>>))
IsNotNull(q, xs) == Pure(q, 1, Ok(non_null(TBool)), Ok(<<"Bool", xs[1] # Null>>))
=============================================================================
