---------------------------- MODULE FuncRegistry ----------------------------
(* The builtins that change a value's type, those on dates and instants, and  *)
(* those that read the evaluation context or draw at random: builtins/        *)
(* cast.rs, datetime.rs, env.rs and random.rs.  An instant is a number of     *)
(* ticks; the calendar is a year of Len(MonthDays) months without leap years. *)
EXTENDS FuncsData

CONSTANTS
    MinuteTicks, HourTicks,   \* ticks per minute and per hour
    MonthDays,                \* the days of each month of a year
    MaxInstant,               \* the last instant chrono represents
    Env, Files,               \* what the two resolvers hold: text to text
    MaxRandomLength,          \* MAX_STRING_LENGTH and MAX_BYTES_LENGTH, scaled
    CastChars                 \* the 24, 10 and 32 characters of a float, a day and an instant, scaled

EvalFailed == Err("EvalFailed")
InstantResult(n) == IF n \in -MaxInstant..MaxInstant THEN Ok(<<"Timestamp", n>>) ELSE EvalFailed

(***************************************************************************)
(* cast.rs.  A cast consents to every lossy conversion.                    *)
(***************************************************************************)
cast_context == [truncate |-> TRUE, default |-> Null]
convert_error_to_func_error(r) == IF IsOk(r) THEN r ELSE EvalFailed
\* convert, with a pair the matrix does not know told from a failure.
ConvertOutcome(r) == IF r = Unsupported THEN TypeMismatch ELSE convert_error_to_func_error(r)
CastTo(v, dst) == ConvertOutcome(convert(v, data_type(v), dst, cast_context))
\* The type each cast asks convert for; below, `via` is what convert answers.
CastTarget(f) ==
    CASE f = "toUInt64" -> <<"UInt64">>
      [] f = "toFloat32" -> <<"Float32">>
      [] f = "toDate" -> <<"Date">>
      [] f = "toUuid" -> <<"Uuid">>
      [] f = "toBigInt" -> <<"BigInt", NoSize>>
      [] OTHER -> TInt64
Parsed(tag, r) == convert_error_to_func_error(Wrap(tag, r))
Cast(q, xs, dst, value) == Pure(q, 1, Ok(Net(dst, xs[1].null)), NullOr(xs, value))
\* The text of an integer is longest at an end of its range: 4 for an Int8, 20
\* for a UInt64, and so on for the widths of this model.
StringCastSize(t) ==
    CASE t[1] = "Text" -> t[2]
      [] t[1] \in SignedInts -> Len(IntText(IntMin(t[1])))
      [] t[1] \in UnsignedInts -> Len(IntText(IntMax(t[1])))
      [] t[1] \in FloatTags -> CastChars.float
      [] t[1] = "Date" -> CastChars.date
      [] t[1] = "Timestamp" -> CastChars.instant
      [] t[1] = "Bool" -> 5
      [] t[1] = "Uuid" -> 36
      [] t[1] = "Ipv4" -> 15
      [] t[1] = "Ipv6" -> 45
      [] OTHER -> NoSize
ToStringCast(q, xs) ==
    Pure(q, 1, Ok(Net(<<"Text", StringCastSize(xs[1].t)>>, xs[1].null)), NullOr(xs, TextResult(value_to_string(xs[1]))))
ParseInt64(s) ==
    Then2(convert_error_to_func_error(ParseInt(Trim(s))), LAMBDA n : IF InRange("Int64", n) THEN Ok(n) ELSE EvalFailed)
to_i64_via_convert(v, via) ==
    CASE Tag(v) = "Int64" -> Ok(v[2])
      [] Tag(v) = "Text" -> ParseInt64(v[2])
      [] OTHER -> Then2(via, LAMBDA r : IF Tag(r) = "Int64" THEN Ok(r[2]) ELSE EvalFailed)
NarrowTo(v, tag, via) ==
    Then2(to_i64_via_convert(v, via), LAMBDA n : IF InRange(tag, n) THEN Ok(<<tag, n>>) ELSE EvalFailed)
ToInt8(q, xs, via) == Cast(q, xs, <<"Int8">>, NarrowTo(xs[1], "Int8", via))
ToInt16(q, xs, via) == Cast(q, xs, <<"Int16">>, NarrowTo(xs[1], "Int16", via))
ToInt32(q, xs, via) == Cast(q, xs, <<"Int32">>, NarrowTo(xs[1], "Int32", via))
ToInt64(q, xs, via) == Cast(q, xs, TInt64, Wrap("Int64", to_i64_via_convert(xs[1], via)))
ToUInt8(q, xs, via) == Cast(q, xs, <<"UInt8">>, NarrowTo(xs[1], "UInt8", via))
ToUInt16(q, xs, via) == Cast(q, xs, <<"UInt16">>, NarrowTo(xs[1], "UInt16", via))
ToUInt32(q, xs, via) == Cast(q, xs, <<"UInt32">>, NarrowTo(xs[1], "UInt32", via))
ToUInt64(q, xs, via) ==
    Cast(q, xs, <<"UInt64">>,
        CASE Tag(xs[1]) = "UInt64" -> Ok(xs[1])
          [] Tag(xs[1]) = "Int64" -> IF xs[1][2] < 0 THEN EvalFailed ELSE Ok(<<"UInt64", xs[1][2]>>)
          [] Tag(xs[1]) = "Float64" -> IF xs[1][2] < 0 THEN EvalFailed ELSE via
          [] Tag(xs[1]) = "Bool" -> via
          [] Tag(xs[1]) = "Text" ->
                Then2(Parsed("UInt64", ParseInt(Trim(xs[1][2]))),
                      LAMBDA v : IF InRange("UInt64", v[2]) THEN Ok(v) ELSE EvalFailed)
          [] OTHER -> TypeMismatch)
\* The nearest float a decimal text names.
ParseFloat(s) ==
    CASE s = FloatText(NaN) -> Ok(NaN)
      [] s \in {FloatText(Inf), FloatText(-Inf)} -> Ok(IF s[1] = 45 THEN -Inf ELSE Inf)
      [] OTHER -> Then2(ParseDecimal(s), LAMBDA d : Ok(ToF64(DecimalHalves(d))))
ToFloat32(q, xs, via) ==
    Cast(q, xs, <<"Float32">>,
        CASE Tag(xs[1]) = "Float32" -> Ok(xs[1])
          [] Tag(xs[1]) = "Float64" -> via
          [] Tag(xs[1]) = "Int64" -> Ok(<<"Float32", ToF32(2 * xs[1][2])>>)
          [] Tag(xs[1]) = "Text" ->
                Then2(convert_error_to_func_error(ParseFloat(Trim(xs[1][2]))), LAMBDA x : Ok(<<"Float32", ToF32(x)>>))
          [] OTHER -> TypeMismatch)
ToFloat64(q, xs) ==
    Cast(q, xs, TFloat64,
        CASE Tag(xs[1]) = "Float64" -> Ok(xs[1])
          [] Tag(xs[1]) = "Int64" -> Ok(<<"Float64", IntToF64(xs[1][2])>>)
          [] Tag(xs[1]) = "Text" -> Parsed("Float64", ParseFloat(Trim(xs[1][2])))
          [] OTHER -> TypeMismatch)
\* A text that names no truth value is true, an empty one false.
ToBoolFunc(q, xs) ==
    Cast(q, xs, TBool,
        CASE Tag(xs[1]) = "Bool" -> Ok(xs[1])
          [] Tag(xs[1]) = "Int64" -> BoolResult(xs[1][2] # 0)
          [] Tag(xs[1]) = "Text" ->
                LET s == Trim(xs[1][2])
                IN  BoolResult(s # <<>> /\ (parse_bool(s) # <<>> => parse_bool(s)[1]))
          [] OTHER -> TypeMismatch)
ToDate(q, xs, via) ==
    Cast(q, xs, <<"Date">>,
        CASE Tag(xs[1]) = "Date" -> Ok(xs[1])
          [] Tag(xs[1]) = "Timestamp" -> via
          [] Tag(xs[1]) = "Text" -> convert_error_to_func_error(Prefixed("Date", 100, Trim(xs[1][2])))
          [] OTHER -> TypeMismatch)
ToTimestamp(q, xs) ==
    Cast(q, xs, <<"Timestamp">>,
        CASE Tag(xs[1]) = "Timestamp" -> Ok(xs[1])
          [] Tag(xs[1]) = "Int64" -> InstantResult(xs[1][2] * SecondTicks)
          [] Tag(xs[1]) = "Date" -> Ok(<<"Timestamp", xs[1][2] * DayTicks>>)
          [] Tag(xs[1]) = "Text" -> convert_error_to_func_error(Prefixed("Timestamp", 116, Trim(xs[1][2])))
          [] OTHER -> TypeMismatch)
ToUuid(q, xs, via) == Cast(q, xs, <<"Uuid">>, via)
ToBigInt(q, xs, via) ==
    Cast(q, xs, <<"BigInt", NoSize>>,
        IF Tag(xs[1]) = "Text" THEN Parsed("BigInt", ParseInt(Trim(xs[1][2])))
        ELSE via)
extract_u32(v) == Then2(extract_int64(v), LAMBDA n : IF InRange("UInt32", n) THEN Ok(n) ELSE EvalFailed)
DecimalOf(v) ==
    CASE Tag(v) = "Decimal" -> Ok(v)
      [] Tag(v) = "Int64" -> Ok(<<"Decimal", v[2], 0>>)
      [] Tag(v) = "Float64" -> convert_error_to_func_error(ParseDecimal(FloatText(v[2])))
      [] Tag(v) = "Text" -> convert_error_to_func_error(ParseDecimal(Trim(v[2])))
      [] OTHER -> TypeMismatch
\* The value alone decides whether the result is null.
ToDecimal(q, xs) ==
    Pure(q, 3, Ok(Net(TDecimal, xs[1].null)),
        IF xs[1] = Null THEN Ok(Null)
        ELSE Then2(extract_u32(xs[2]), LAMBDA precision : Then2(extract_u32(xs[3]), LAMBDA scale :
             IF scale > precision THEN EvalFailed
             ELSE Then2(DecimalOf(xs[1]), LAMBDA d :
                  IF decimal_value_int_digits(WithScale(d, scale)) > precision - scale THEN EvalFailed
                  ELSE Ok(WithScale(d, scale))))))

(***************************************************************************)
(* datetime.rs.  What chrono does of the calendar comes first.             *)
(***************************************************************************)
DaysBefore(month) == FoldLeft(+, 0, SubSeq(MonthDays, 1, month - 1))
YearDays == DaysBefore(Len(MonthDays) + 1)
DateYear(d) == d \div YearDays
DateOrdinal(d) == (d % YearDays) + 1
DateMonth(d) == Max({m \in 1..Len(MonthDays) : DaysBefore(m) < DateOrdinal(d)})
DateDay(d) == DateOrdinal(d) - DaysBefore(DateMonth(d))
\* Day 0 of the epoch is a Thursday.
Weekday(d) == ((d + 3) % 7) + 1
\* The same day and time n months away, or the last day of a shorter month.
AddMonthsTo(t, n) ==
    LET d == t \div DayTicks
        months == DateYear(d) * Len(MonthDays) + DateMonth(d) - 1 + n
        month == (months % Len(MonthDays)) + 1
        day == (months \div Len(MonthDays)) * YearDays + DaysBefore(month)
               + Min({DateDay(d), MonthDays[month]}) - 1
    IN  day * DayTicks + (t % DayTicks)
\* A mask of one % is an error, one letter prints the instant, any other
\* mask stands for itself.
StrftimeValid(mask) == mask # <<37>>
Strftime(t, mask) == IF mask = <<116>> THEN InstantText(t) ELSE mask

extract_timestamp(v) ==
    CASE Tag(v) = "Timestamp" -> Ok(v[2])
      [] Tag(v) = "Date" -> Ok(v[2] * DayTicks)
      [] OTHER -> TypeMismatch
timestamp_input_type(xs, t) ==
    IF xs[1].t[1] \in {"Timestamp", "Date"} THEN Nullable(xs, t) ELSE TypeMismatch
\* now and today are fixed within an evaluation, so `is_pure`, yet never folded.
NowFunc(q, xs, ctx) == Fn(q, <<0, 0>>, TRUE, TRUE, Ok(non_null(<<"Timestamp">>)), Ok(<<"Timestamp", ctx.now>>))
Today(q, xs, ctx) == Fn(q, <<0, 0>>, TRUE, TRUE, Ok(non_null(<<"Date">>)), Ok(<<"Date", ctx.now \div DayTicks>>))
\* The component a function of this family takes of an instant.
ComponentOf(part, t) ==
    CASE part = "second" -> (t % MinuteTicks) \div SecondTicks
      [] part = "minute" -> (t % HourTicks) \div MinuteTicks
      [] part = "hour" -> (t % DayTicks) \div HourTicks
      [] part = "day" -> DateDay(t \div DayTicks)
      [] part = "month" -> DateMonth(t \div DayTicks)
      [] part = "year" -> DateYear(t \div DayTicks)
      [] part = "millisecond" -> (t % SecondTicks) \div MilliTicks
      [] part = "dayOfWeek" -> Weekday(t \div DayTicks)
      [] part = "dayOfYear" -> DateOrdinal(t \div DayTicks)
      [] part = "toSeconds" -> t \div SecondTicks
      [] OTHER -> t \div MilliTicks
extract_component_func(q, xs, part) ==
    Pure(q, 1, timestamp_input_type(xs, TInt64),
        NullOr(xs, Then2(extract_timestamp(xs[1]), LAMBDA t : IntResult(ComponentOf(part, t)))))
SecondFunc(q, xs) == extract_component_func(q, xs, "second")
MinuteFunc(q, xs) == extract_component_func(q, xs, "minute")
HourFunc(q, xs) == extract_component_func(q, xs, "hour")
DayFunc(q, xs) == extract_component_func(q, xs, "day")
MonthFunc(q, xs) == extract_component_func(q, xs, "month")
YearFunc(q, xs) == extract_component_func(q, xs, "year")
MillisecondFunc(q, xs) == extract_component_func(q, xs, "millisecond")
DayOfWeek(q, xs) == extract_component_func(q, xs, "dayOfWeek")
DayOfYear(q, xs) == extract_component_func(q, xs, "dayOfYear")
ToSeconds(q, xs) == extract_component_func(q, xs, "toSeconds")
ToMillis(q, xs) == extract_component_func(q, xs, "toMillis")
FromUnit(q, xs, ticks) ==
    Pure(q, 1, Nullable(xs, <<"Timestamp">>),
        NullOr(xs, Then2(extract_int64(xs[1]), LAMBDA n : InstantResult(n * ticks))))
FromSeconds(q, xs) == FromUnit(q, xs, SecondTicks)
FromMillis(q, xs) == FromUnit(q, xs, MilliTicks)
\* An instant moved by a number; `move` gives the instant or fails.
Shifted(q, xs, move(_, _)) ==
    Pure(q, 2, timestamp_input_type(xs, <<"Timestamp">>),
        NullOr(xs, Then2(extract_timestamp(xs[1]), LAMBDA t : Then2(extract_int64(xs[2]), LAMBDA n : move(t, n)))))
duration_arithmetic_func(q, xs, ticks) == Shifted(q, xs, LAMBDA t, n : InstantResult(t + n * ticks))
duration_subtract_func(q, xs, ticks) == Shifted(q, xs, LAMBDA t, n : InstantResult(t - n * ticks))
AddDays(q, xs) == duration_arithmetic_func(q, xs, DayTicks)
AddHours(q, xs) == duration_arithmetic_func(q, xs, HourTicks)
AddMinutes(q, xs) == duration_arithmetic_func(q, xs, MinuteTicks)
AddSeconds(q, xs) == duration_arithmetic_func(q, xs, SecondTicks)
AddMilliseconds(q, xs) == duration_arithmetic_func(q, xs, MilliTicks)
SubtractDays(q, xs) == duration_subtract_func(q, xs, DayTicks)
SubtractHours(q, xs) == duration_subtract_func(q, xs, HourTicks)
SubtractMinutes(q, xs) == duration_subtract_func(q, xs, MinuteTicks)
SubtractSeconds(q, xs) == duration_subtract_func(q, xs, SecondTicks)
SubtractMilliseconds(q, xs) == duration_subtract_func(q, xs, MilliTicks)
\* The number of months is an unsigned 32-bit one on either side of zero.
add_months_to_dt(t, n) == IF InRange("UInt32", Abs(n)) THEN InstantResult(AddMonthsTo(t, n)) ELSE EvalFailed
subtract_months_from_dt(t, n) == IF InRange("UInt32", Abs(n)) THEN InstantResult(AddMonthsTo(t, -n)) ELSE EvalFailed
InMonths(t, n, move(_, _)) ==
    IF InRange("Int64", n * Len(MonthDays)) THEN move(t, n * Len(MonthDays)) ELSE EvalFailed
AddMonths(q, xs) == Shifted(q, xs, add_months_to_dt)
SubtractMonths(q, xs) == Shifted(q, xs, subtract_months_from_dt)
AddYears(q, xs) == Shifted(q, xs, LAMBDA t, n : InMonths(t, n, add_months_to_dt))
SubtractYears(q, xs) == Shifted(q, xs, LAMBDA t, n : InMonths(t, n, subtract_months_from_dt))
\* Units by their first letter; whole units, toward zero.
UnitTicks == <<115>> :> SecondTicks @@ <<109>> :> MinuteTicks @@ <<104>> :> HourTicks @@ <<100>> :> DayTicks
DateDiff(q, xs) ==
    Pure(q, 3, Nullable(xs, TInt64),
        NullOr(xs, Then2(extract_text(xs[1]), LAMBDA unit : Then2(extract_timestamp(xs[2]), LAMBDA a :
            Then2(extract_timestamp(xs[3]), LAMBDA b :
                IF unit \in DOMAIN UnitTicks THEN IntResult(Quot(b - a, UnitTicks[unit])) ELSE EvalFailed)))))
validate_strftime_mask(mask) == IF StrftimeValid(mask) THEN Ok(mask) ELSE EvalFailed
FormatDateTime(q, xs) ==
    Pure(q, 2, Nullable(xs, TText),
        NullOr(xs, Then2(extract_timestamp(xs[1]), LAMBDA t : Then2(extract_text(xs[2]), LAMBDA mask :
            Then2(validate_strftime_mask(mask), LAMBDA m : TextResult(Strftime(t, m)))))))

(***************************************************************************)
(* env.rs.  The context counts as fixed, so these are pure.                *)
(***************************************************************************)
EnvOneArg(q, xs) ==
    Pure(q, 1, TypedArgs(xs, "Text", {1}, Net(TText, TRUE)),
        NullOr(xs, Then2(extract_text(xs[1]), LAMBDA k : IF k \in DOMAIN Env THEN TextResult(Env[k]) ELSE Ok(Null))))
EnvTwoArg(q, xs) ==
    Pure(q, 2, TypedArgs(xs, "Text", {1, 2}, non_null(TText)),
        IF xs[1] = Null THEN Ok(xs[2])
        ELSE Then2(extract_text(xs[1]), LAMBDA k : IF k \in DOMAIN Env THEN TextResult(Env[k]) ELSE Ok(xs[2])))
FileFunc(q, xs) ==
    Pure(q, 1, TypedArgs(xs, "Text", {1}, non_null(TText)),
        NullOr(xs, Then2(extract_text(xs[1]), LAMBDA p :
            IF p \in DOMAIN Files THEN TextResult(Files[p]) ELSE Err("FileReadError"))))

(***************************************************************************)
(* random.rs.  ctx.draw is what an unseeded generator gives; a seed fixes *)
(***************************************************************************)
Drawn(xs, base, ctx) == IF Len(xs) = base + 1 /\ xs[base + 1] # Null THEN Abs(xs[base + 1][2]) ELSE ctx.draw
take_seed(xs, base) ==
    IF Len(xs) <= base \/ Tag(xs[base + 1]) \in {"Int64", "Null"} THEN Ok(Null) ELSE TypeMismatch
\* The arguments are checked even when a null seed makes the result null.
Seeded(q, xs, base, t, args, value) ==
    Fn(q, <<base, base + 1>>, FALSE, TRUE, Ok(non_null(t)),
        IF ~IsOk(take_seed(xs, base)) THEN TypeMismatch
        ELSE IF ~IsOk(args) THEN args
        ELSE IF Len(xs) = base + 1 /\ xs[base + 1] = Null THEN Ok(Null) ELSE value)
reject_min_gt_max(min, max) == IF compare_values(min, max) = 1 THEN EvalFailed ELSE Ok(Null)
reject_length_out_of_range(n) == IF n \in 0..MaxRandomLength THEN Ok(n) ELSE EvalFailed
extract_length(v) == Then2(extract_int64(v), reject_length_out_of_range)
extract_f64(v) ==
    IF Tag(v) = "Float64" THEN Ok(v[2]) ELSE IF Tag(v) = "Int64" THEN Ok(IntToF64(v[2])) ELSE TypeMismatch
RandomUuid(q, xs, ctx) ==
    Seeded(q, xs, 0, <<"Uuid">>, Ok(Null), Ok(<<"Uuid", [i \in 1..16 |-> (Drawn(xs, 0, ctx) + i) % 256]>>))
RandomInt(q, xs, ctx) ==
    Seeded(q, xs, 2, TInt64,
        Then2(extract_int64(xs[1]), LAMBDA a : Then2(extract_int64(xs[2]), LAMBDA b : reject_min_gt_max(xs[1], xs[2]))),
        IntResult(xs[1][2] + (Drawn(xs, 2, ctx) % (xs[2][2] - xs[1][2] + 1))))
\* The half-open range of floats must not be empty, nor its ends infinite.
RandomFloat(q, xs, ctx) ==
    Seeded(q, xs, 2, TFloat64,
        Then2(extract_f64(xs[1]), LAMBDA a : Then2(extract_f64(xs[2]), LAMBDA b : reject_min_gt_max(xs[1], xs[2]))),
        LET a == extract_f64(xs[1])[2]
            b == extract_f64(xs[2])[2]
        IN  IF a >= b \/ ~IsFinite(a) \/ ~IsFinite(b) THEN <<"panic", "empty range">>
            ELSE Ok(<<"Float64", a + (Drawn(xs, 2, ctx) % (b - a))>>))
RandomText(q, xs, ctx, letters) ==
    Seeded(q, xs, 1, TText, extract_length(xs[1]),
        TextResult([i \in 1..xs[1][2] |-> letters[((Drawn(xs, 1, ctx) + i) % Len(letters)) + 1]]))
RandomAlphanumeric(q, xs, ctx) == RandomText(q, xs, ctx, <<48, 57, 65, 90, 97, 122>>)
RandomHex(q, xs, ctx) == RandomText(q, xs, ctx, [i \in 1..16 |-> HexDigit(i - 1)])
RandomBytes(q, xs, ctx) ==
    Seeded(q, xs, 1, TBytes, extract_length(xs[1]), BytesResult([i \in 1..xs[1][2] |-> (Drawn(xs, 1, ctx) + i) % 256]))
RandomChoice(q, xs, ctx) ==
    Fn(q, <<1, NoMax>>, FALSE, TRUE, Nullable(xs, xs[1].t), Ok(xs[(ctx.draw % Len(xs)) + 1]))

-----------------------------------------------------------------------------
(* registry.rs and builtins/register.rs: the functions by name, and the parts *)
(* of the contract that read constant arguments.  ctx is [now, draw]: the     *)
(* batch clock, and what a generator without a seed gives.                    *)

(***************************************************************************)
(* One operator per file that registers functions; a reference is a        *)
(* function's name, env2 the overload of env with a default.               *)
(***************************************************************************)
Call_string(f, q, xs, ctx) ==
    CASE f = "concat" -> Concat(q, xs) [] f = "charAt" -> CharAt(q, xs)
      [] f = "upper" -> UpperFunc(q, xs) [] f = "lower" -> LowerFunc(q, xs)
      [] f = "trim" -> TrimFunc(q, xs) [] f = "replace" -> Replace(q, xs)
      [] f = "startsWith" -> StartsWith(q, xs) [] f = "endsWith" -> EndsWith(q, xs)
      [] f = "contains" -> ContainsFunc(q, xs) [] f = "indexOf" -> IndexOf(q, xs)
      [] f = "format" -> Format(q, xs) [] f = "toString" -> ToString1(q, xs)
      [] f = "reverse" -> ReverseFunc(q, xs) [] f = "repeat" -> Repeat(q, xs)
      [] f = "leftPad" -> LeftPad(q, xs) [] f = "rightPad" -> RightPad(q, xs)
Call_regex(f, q, xs, ctx) ==
    CASE f = "regexMatch" -> RegexMatch(q, xs) [] f = "regexReplace" -> RegexReplace(q, xs)
      [] OTHER -> Call_string(f, q, xs, ctx)
Call_random(f, q, xs, ctx) ==
    CASE f = "randomUuid" -> RandomUuid(q, xs, ctx) [] f = "randomInt" -> RandomInt(q, xs, ctx)
      [] f = "randomFloat" -> RandomFloat(q, xs, ctx)
      [] f = "randomAlphanumeric" -> RandomAlphanumeric(q, xs, ctx)
      [] f = "randomHex" -> RandomHex(q, xs, ctx) [] f = "randomBytes" -> RandomBytes(q, xs, ctx)
      [] f = "randomChoice" -> RandomChoice(q, xs, ctx)
      [] OTHER -> Call_regex(f, q, xs, ctx)
Call_object(f, q, xs, ctx) ==
    CASE f = "objectKeys" -> ObjectKeys(q, xs) [] f = "objectValues" -> ObjectValues(q, xs)
      [] f = "objectHasKey" -> ObjectHasKey(q, xs) [] f = "objectGet" -> ObjectGet(q, xs)
      [] OTHER -> Call_random(f, q, xs, ctx)
Call_misc(f, q, xs, ctx) ==
    CASE f = "typeof" -> TypeOf(q, xs)
      [] OTHER -> Call_object(f, q, xs, ctx)
Call_math(f, q, xs, ctx) ==
    CASE f = "sin" -> Sin(q, xs) [] f = "cos" -> Cos(q, xs) [] f = "tan" -> Tan(q, xs)
      [] f = "asin" -> Asin(q, xs) [] f = "acos" -> Acos(q, xs) [] f = "atan" -> Atan(q, xs)
      [] f = "atan2" -> Atan2(q, xs) [] f = "log" -> Log(q, xs) [] f = "log2" -> Log2(q, xs)
      [] f = "log10" -> Log10(q, xs) [] f = "exp" -> Exp(q, xs) [] f = "cbrt" -> Cbrt(q, xs)
      [] f = "pi" -> Pi(q, xs) [] f = "e" -> Euler(q, xs) [] f = "phi" -> Phi(q, xs)
      [] f = "tau" -> Tau(q, xs) [] f = "erf" -> Erf(q, xs) [] f = "erfc" -> Erfc(q, xs)
      [] f = "gamma" -> Gamma(q, xs) [] f = "lnGamma" -> LnGamma(q, xs) [] f = "beta" -> Beta(q, xs)
      [] f = "lambertW" -> LambertW(q, xs) [] f = "sinh" -> Sinh(q, xs) [] f = "cosh" -> Cosh(q, xs)
      [] f = "tanh" -> Tanh(q, xs) [] f = "asinh" -> Asinh(q, xs) [] f = "acosh" -> Acosh(q, xs)
      [] f = "atanh" -> Atanh(q, xs) [] f = "isNaN" -> IsNan(q, xs)
      [] f = "isInfinite" -> IsInfinite(q, xs) [] f = "clamp" -> ClampFunc(q, xs)
      [] OTHER -> Call_misc(f, q, xs, ctx)
Call_logical(f, q, xs, ctx) ==
    CASE f = "not" -> Not(q, xs)
      [] OTHER -> Call_math(f, q, xs, ctx)
Call_json(f, q, xs, ctx) ==
    CASE f = "parseJson" -> ParseJson(q, xs) [] f = "toJson" -> ToJson(q, xs)
      [] f = "jsPath" -> JsPath(q, xs) [] f = "jsPathString" -> JsPathString(q, xs)
      [] f = "jsPathInt" -> JsPathInt(q, xs) [] f = "jsPathFloat" -> JsPathFloat(q, xs)
      [] f = "jsPathBool" -> JsPathBool(q, xs)
      [] OTHER -> Call_logical(f, q, xs, ctx)
Call_env(f, q, xs, ctx) ==
    CASE f = "env" -> EnvOneArg(q, xs) [] f = "env2" -> EnvTwoArg(q, xs)
      [] f = "file" -> FileFunc(q, xs)
      [] OTHER -> Call_json(f, q, xs, ctx)
Call_encoding(f, q, xs, ctx) ==
    CASE f = "encode" -> Encode(q, xs) [] f = "decode" -> Decode(q, xs)
      [] f = "encodeText" -> EncodeText(q, xs) [] f = "decodeText" -> DecodeText(q, xs)
      [] OTHER -> Call_env(f, q, xs, ctx)
Call_datetime(f, q, xs, ctx) ==
    CASE f = "now" -> NowFunc(q, xs, ctx) [] f = "today" -> Today(q, xs, ctx)
      [] f = "second" -> SecondFunc(q, xs) [] f = "minute" -> MinuteFunc(q, xs)
      [] f = "hour" -> HourFunc(q, xs) [] f = "day" -> DayFunc(q, xs)
      [] f = "month" -> MonthFunc(q, xs) [] f = "year" -> YearFunc(q, xs)
      [] f = "millisecond" -> MillisecondFunc(q, xs) [] f = "dayOfWeek" -> DayOfWeek(q, xs)
      [] f = "dayOfYear" -> DayOfYear(q, xs) [] f = "toSeconds" -> ToSeconds(q, xs)
      [] f = "toMillis" -> ToMillis(q, xs) [] f = "fromSeconds" -> FromSeconds(q, xs)
      [] f = "fromMillis" -> FromMillis(q, xs) [] f = "addDays" -> AddDays(q, xs)
      [] f = "addHours" -> AddHours(q, xs) [] f = "addMinutes" -> AddMinutes(q, xs)
      [] f = "addSeconds" -> AddSeconds(q, xs) [] f = "addMilliseconds" -> AddMilliseconds(q, xs)
      [] f = "subtractDays" -> SubtractDays(q, xs) [] f = "subtractHours" -> SubtractHours(q, xs)
      [] f = "subtractMinutes" -> SubtractMinutes(q, xs)
      [] f = "subtractSeconds" -> SubtractSeconds(q, xs)
      [] f = "subtractMilliseconds" -> SubtractMilliseconds(q, xs)
      [] f = "addMonths" -> AddMonths(q, xs) [] f = "subtractMonths" -> SubtractMonths(q, xs)
      [] f = "addYears" -> AddYears(q, xs) [] f = "subtractYears" -> SubtractYears(q, xs)
      [] f = "dateDiff" -> DateDiff(q, xs) [] f = "formatDateTime" -> FormatDateTime(q, xs)
      [] OTHER -> Call_encoding(f, q, xs, ctx)
Call_crypto(f, q, xs, ctx) ==
    CASE f = "md5" -> Md5(q, xs) [] f = "sha1" -> Sha1(q, xs) [] f = "sha256" -> Sha256(q, xs)
      [] f = "sha512" -> Sha512(q, xs) [] f = "xxHash64" -> XxHash64(q, xs)
      [] f = "xxHash32" -> XxHash32(q, xs) [] f = "hmac" -> Hmac(q, xs)
      [] f = "cityHash64" -> CityHash64(q, xs) [] f = "sipHash64" -> SipHash64(q, xs)
      [] f = "fnv1a64" -> Fnv1a64(q, xs)
      [] OTHER -> Call_datetime(f, q, xs, ctx)
Call_conditional(f, q, xs, ctx) ==
    CASE f = "isNull" -> IsNull(q, xs) [] f = "isNotNull" -> IsNotNull(q, xs)
      [] OTHER -> Call_crypto(f, q, xs, ctx)
Call_comparison(f, q, xs, ctx) ==
    CASE f = "equals" -> Equals(q, xs) [] f = "notEquals" -> NotEquals(q, xs)
      [] f = "greater" -> Greater(q, xs) [] f = "less" -> Less(q, xs)
      [] f = "greaterOrEquals" -> GreaterOrEquals(q, xs)
      [] f = "lessOrEquals" -> LessOrEquals(q, xs)
      [] OTHER -> Call_conditional(f, q, xs, ctx)
Call_cast(f, q, xs, ctx, via) ==
    CASE f = "toStringCast" -> ToStringCast(q, xs) [] f = "toInt8" -> ToInt8(q, xs, via)
      [] f = "toInt16" -> ToInt16(q, xs, via) [] f = "toInt32" -> ToInt32(q, xs, via)
      [] f = "toInt64" -> ToInt64(q, xs, via) [] f = "toUInt8" -> ToUInt8(q, xs, via)
      [] f = "toUInt16" -> ToUInt16(q, xs, via) [] f = "toUInt32" -> ToUInt32(q, xs, via)
      [] f = "toUInt64" -> ToUInt64(q, xs, via) [] f = "toFloat32" -> ToFloat32(q, xs, via)
      [] f = "toFloat64" -> ToFloat64(q, xs) [] f = "toBool" -> ToBoolFunc(q, xs)
      [] f = "toDate" -> ToDate(q, xs, via) [] f = "toTimestamp" -> ToTimestamp(q, xs)
      [] f = "toUuid" -> ToUuid(q, xs, via) [] f = "toBigInt" -> ToBigInt(q, xs, via)
      [] f = "toDecimal" -> ToDecimal(q, xs)
      [] OTHER -> Call_comparison(f, q, xs, ctx)
Call_bytes(f, q, xs, ctx) ==
    CASE f = "byteLength" -> ByteLength(q, xs) [] f = "byteAt" -> ByteAt(q, xs)
      [] f = "bytesFromHex" -> BytesFromHex(q, xs)
      [] f = "bytesFromBase64" -> BytesFromBase64(q, xs)
      [] f = "bytesFromUtf8" -> BytesFromUtf8(q, xs) [] f = "hex" -> HexFunc(q, xs)
      [] f = "base64" -> Base64Func(q, xs) [] f = "base64Url" -> Base64UrlFunc(q, xs)
      [] f = "bytesEqual" -> BytesEqual(q, xs) [] f = "urlEncode" -> UrlEncode(q, xs)
      [] f = "urlDecode" -> UrlDecode(q, xs)
      [] OTHER -> Call_cast(f, q, xs, ctx, CastTo(xs[1], CastTarget(f)))
Call_bitwise(f, q, xs, ctx) ==
    CASE f = "bitAnd" -> BitAnd(q, xs) [] f = "bitOr" -> BitOr(q, xs)
      [] f = "bitXor" -> BitXor(q, xs) [] f = "bitNot" -> BitNot(q, xs)
      [] f = "bitShiftLeft" -> BitShiftLeft(q, xs) [] f = "bitShiftRight" -> BitShiftRight(q, xs)
      [] f = "bitCount" -> BitCount(q, xs)
      [] OTHER -> Call_bytes(f, q, xs, ctx)
Call_array(f, q, xs, ctx) ==
    CASE f = "len" -> LenFunc(q, xs) [] f = "element" -> Element(q, xs)
      [] f = "arrayGet" -> ArrayGet(q, xs) [] f = "slice" -> Slice(q, xs)
      [] f = "split" -> Split(q, xs) [] f = "join" -> Join(q, xs) [] f = "isEmpty" -> IsEmpty(q, xs)
      [] f = "filterNotNull" -> FilterNotNull(q, xs)
      [] OTHER -> Call_bitwise(f, q, xs, ctx)
Call_arithmetic(f, q, xs, ctx) ==
    CASE f = "add" -> Add(q, xs) [] f = "subtract" -> Subtract(q, xs)
      [] f = "multiply" -> Multiply(q, xs) [] f = "divide" -> Divide(q, xs)
      [] f = "modulo" -> Modulo(q, xs) [] f = "negate" -> Negate(q, xs)
      [] f = "abs" -> AbsFunc(q, xs) [] f = "ceil" -> Ceil(q, xs) [] f = "floor" -> Floor(q, xs)
      [] f = "round" -> Round(q, xs) [] f = "min" -> MinFunc(q, xs) [] f = "max" -> MaxFunc(q, xs)
      [] f = "sign" -> SignFunc(q, xs) [] f = "power" -> Power(q, xs)
      [] f = "sqrt" -> SqrtFunc(q, xs)
      [] OTHER -> Call_array(f, q, xs, ctx)
Call(f, q, xs, ctx) == Call_arithmetic(f, q, xs, ctx)

(***************************************************************************)
(* purity: whether a call with these constant positions may be folded.     *)
(***************************************************************************)
SeedPosition ==
    [f \in {"randomUuid", "randomInt", "randomFloat", "randomAlphanumeric", "randomHex", "randomBytes"} |->
        CASE f = "randomUuid" -> 1 [] f \in {"randomInt", "randomFloat"} -> 3 [] OTHER -> 2]
seeded_purity(consts, seed) == Len(consts) = seed /\ consts[seed]
\* Mutant: the default, which asks only whether the function is pure.
PurityIsPure(f, pure, consts) == pure
purity(f, pure, consts) ==
    CASE f \in {"now", "today"} -> FALSE
      [] f \in DOMAIN SeedPosition -> seeded_purity(consts, SeedPosition[f])
      [] OTHER -> pure

(***************************************************************************)
(* validate_const_args: `cs` holds <<v>> for a constant v and <<>> for an  *)
(* argument known only at run time.                                        *)
(***************************************************************************)
ConstIs(cs, i, tag) == i <= Len(cs) /\ cs[i] # <<>> /\ Tag(cs[i][1]) = tag
WhenConst(cs, i, tag, r(_)) == IF ConstIs(cs, i, tag) THEN r(cs[i][1][2]) ELSE Ok(Null)
Listed(x, names, e) == IF x \in names THEN Ok(Null) ELSE Err(e)
validate_encode_algorithm_const(cs) ==
    WhenConst(cs, 2, "Text", LAMBDA s : Listed(s, ENCODE_ALGORITHMS, "EncodingError"))
validate_label_const(cs) == WhenConst(cs, 2, "Text", LAMBDA s : Listed(s, TextLabels, "EncodingError"))
validate_shift_const(cs) ==
    WhenConst(cs, 2, "Int64", LAMBDA n : IF validate_shift_amount(n) THEN Ok(Null) ELSE InvalidArgument)
validate_path_const(cs) == WhenConst(cs, 2, "Text", LAMBDA p : with_json_path_cached(p, Ok(Null)))
validate_pattern_const(cs) == WhenConst(cs, 2, "Text", LAMBDA p : with_regex_cached(p, Ok(Null)))
validate_length_const(cs) == WhenConst(cs, 1, "Int64", reject_length_out_of_range)
validate_min_max_const(cs) ==
    IF cs[1] # <<>> /\ cs[2] # <<>> THEN reject_min_gt_max(cs[1][1], cs[2][1]) ELSE Ok(Null)
validate_seed_const(cs, seed) ==
    IF Len(cs) < seed \/ cs[seed] = <<>> THEN Ok(Null) ELSE take_seed([i \in 1..seed |-> cs[seed][1]], seed - 1)
JsPathNames == {"jsPath", "jsPathString", "jsPathInt", "jsPathFloat", "jsPathBool"}
validate_const_args(f, cs) ==
    CASE f = "bytesFromHex" -> WhenConst(cs, 1, "Text", HexDecode)
      [] f = "bytesFromBase64" -> WhenConst(cs, 1, "Text", LAMBDA s : Base64Decode(98, s))
      [] f \in {"encode", "decode"} -> validate_encode_algorithm_const(cs)
      [] f \in {"encodeText", "decodeText"} -> validate_label_const(cs)
      [] f \in {"bitShiftLeft", "bitShiftRight"} -> validate_shift_const(cs)
      [] f \in JsPathNames -> validate_path_const(cs)
      [] f \in {"regexMatch", "regexReplace"} -> validate_pattern_const(cs)
      [] f = "hmac" -> WhenConst(cs, 1, "Text", LAMBDA s : Listed(s, HMAC_ALGORITHMS, "EvalFailed"))
      [] f = "formatDateTime" -> WhenConst(cs, 2, "Text", validate_strftime_mask)
      [] f = "randomUuid" -> validate_seed_const(cs, SeedPosition[f])
      [] f \in {"randomInt", "randomFloat"} ->
            Then2(validate_min_max_const(cs), LAMBDA r : validate_seed_const(cs, SeedPosition[f]))
      [] f \in {"randomAlphanumeric", "randomHex", "randomBytes"} ->
            Then2(validate_length_const(cs), LAMBDA r : validate_seed_const(cs, SeedPosition[f]))
      [] OTHER -> Ok(Null)
=============================================================================
