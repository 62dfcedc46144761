---------------------------- MODULE Conversion ------------------------------
(* crates/types, convert/: one value of a source column made a value of the   *)
(* sink column, and the cursor's own JSON codec (value.rs).  ctx is           *)
(* [truncate, default]: consent to lossy conversions, and the sink value that *)
(* stands for null (Null when there is none).                                 *)
EXTENDS DataTypes

(***************************************************************************)
(* saturate.rs and the narrowing modules.                                  *)
(***************************************************************************)
\* Mutant: an `as` cast, which wraps.
WrapInt(n, tag) == IntMin(tag) + ((n - IntMin(tag)) % (IntMax(tag) - IntMin(tag) + 1))
SatInt(n, tag) == Clamp(n, IntMin(tag), IntMax(tag))
sat_bigint_to_width(n, w) == Clamp(n, -(10 ^ w - 1), 10 ^ w - 1)
SatWidth(n, w) == IF w = NoSize THEN n ELSE sat_bigint_to_width(n, w)
sat_f64_to_f32(x) ==
    IF x = NaN THEN NaN ELSE IF x > FMax32 THEN FMax32 ELSE IF x < -FMax32 THEN -FMax32 ELSE ToF32(x)
\* Toward zero, and to the ends of the range past them; NaN has no integer.
sat_f64_to_int(x, tag) ==
    IF x = NaN THEN Err("Overflow")
    ELSE IF 2 * Trunc(x) >= IntToF64(IntMax(tag)) THEN Ok(<<tag, IntMax(tag)>>)
    ELSE IF 2 * Trunc(x) <= IntToF64(IntMin(tag)) THEN Ok(<<tag, IntMin(tag)>>)
    ELSE Ok(<<tag, Trunc(x)>>)
\* The unsigned ones go through u64.
sat_f64_to_uint(x, tag) ==
    LET r == sat_f64_to_int(x, "UInt64")
    IN  IF IsOk(r) THEN Ok(<<tag, Min({r[2][2], IntMax(tag)})>>) ELSE r

int_narrow(v, dst) == Ok(<<dst[1], SatInt(v[2], dst[1])>>)
bigint_narrow(v, dst) ==
    IF dst[1] = "BigInt" THEN Ok(<<"BigInt", SatWidth(v[2], dst[2])>>)
    ELSE Ok(<<dst[1], SatInt(v[2], dst[1])>>)
float_narrow(v, dst) ==
    IF dst[1] = "Float32" THEN Ok(<<"Float32", sat_f64_to_f32(v[2])>>)
    ELSE IF dst[1] \in SignedInts THEN sat_f64_to_int(v[2], dst[1])
    ELSE sat_f64_to_uint(v[2], dst[1])

\* with_scale_round(s, Down).
WithScale(d, s) ==
    <<"Decimal", IF s >= d[3] THEN d[2] * 10 ^ (s - d[3]) ELSE Quot(d[2], 10 ^ (d[3] - s)), s>>
narrow_decimal(d, precision, scale) ==
    IF precision = NoSize /\ scale = NoSize THEN d
    ELSE LET r == WithScale(d, OrZero(scale))
         IN  <<"Decimal", SatWidth(r[2], precision), r[3]>>
decimal_narrow(v, dst) ==
    LET n == WithScale(v, 0)[2]
    IN  CASE dst[1] = "Decimal" -> Ok(narrow_decimal(v, dst[2], dst[3]))
          [] dst[1] = "BigInt" -> Ok(<<"BigInt", SatWidth(n, dst[2])>>)
          [] dst[1] \in IntTags -> Ok(<<dst[1], SatInt(n, dst[1])>>)
\* The half nearest to the decimal, then rounded to the float's bits.
DecimalHalves(v) ==
    LET p == 10 ^ v[3]
        q == Abs(2 * v[2]) \div p
        r == Abs(2 * v[2]) % p
    IN  Sgn(v[2]) * (IF 2 * r > p \/ (2 * r = p /\ q % 2 = 1) THEN q + 1 ELSE q)
decimal_to_float(v, dst, truncate) ==
    LET x == ToF64(DecimalHalves(v))
        y == IF dst[1] = "Float32" THEN ToF32(x) ELSE x
    IN  IF IsFinite(y) THEN Ok(<<dst[1], y>>)
        ELSE IF truncate THEN Ok(<<dst[1], Sgn(v[2]) * Inf>>) ELSE Err("Overflow")

(***************************************************************************)
(* convert.                                                                *)
(***************************************************************************)
Shaped(v, src, r) == IF Tag(v) = src[1] THEN r ELSE Mismatch
require_truncate(ctx, r) == IF ctx.truncate THEN r ELSE Unsupported
identity_or_forbid(v, src, ctx) ==
    IF ctx.truncate /\ src[1] \in {"Json", "Xml"} THEN Err("TruncationForbidden") ELSE Ok(v)

decimal_value_scale(d) == Max({0, Normalized(d[2], d[3])[2]})
decimal_value_int_digits(d) ==
    LET n == WithScale(d, 0)[2] IN IF n = 0 THEN 0 ELSE Len(Digits(Abs(n)))
\* Decided by the value where the declared types cannot.
convert_decimal_to_decimal(v, src, dst, ctx) ==
    IF (dst[2] = NoSize /\ dst[3] = NoSize) \/ decimal_fits_decimal(src, dst) THEN Ok(v)
    ELSE Shaped(v, src,
         IF /\ OrZero(dst[3]) >= decimal_value_scale(v)
            /\ NatDiff(dst[2], OrZero(dst[3])) >= decimal_value_int_digits(v)
         THEN Ok(WithScale(v, OrZero(dst[3])))
         ELSE require_truncate(ctx, decimal_narrow(v, dst)))
identity_or_narrow_numeric(v, src, dst, ctx) ==
    IF src[1] = "Decimal" THEN convert_decimal_to_decimal(v, src, dst, ctx)
    ELSE IF fits_size(src[2], dst[2]) THEN Ok(v)
    ELSE require_truncate(ctx, Shaped(v, src, bigint_narrow(v, dst)))

ToBool(v, src, ctx) ==
    CASE src[1] \in IntTags -> Shaped(v, src, Ok(<<"Bool", v[2] # 0>>))
      [] src[1] \in {"BigInt", "Decimal"} ->
            require_truncate(ctx, Shaped(v, src, Ok(<<"Bool", v[2] # 0>>)))
      [] src[1] \in FloatTags ->
            require_truncate(ctx, Shaped(v, src,
                IF v[2] = NaN THEN Ok(ctx.default) ELSE Ok(<<"Bool", v[2] # 0>>)))
      [] src[1] = "Text" ->
            Shaped(v, src, LET b == parse_bool(v[2])
                           IN  IF b = <<>> THEN Err("InvalidBool") ELSE Ok(<<"Bool", b[1]>>))
      [] OTHER -> Unsupported

\* An integer of any kind into a type that holds it.
WholeTo(n, dst) ==
    CASE dst[1] \in IntTags \cup {"BigInt"} -> Ok(<<dst[1], n>>)
      [] dst[1] = "Decimal" -> Ok(<<"Decimal", n, 0>>)
      [] dst[1] = "Float32" -> Ok(<<"Float32", ToF32(2 * n)>>)
      [] dst[1] = "Float64" -> Ok(<<"Float64", ToF64(2 * n)>>)
FromBool(v, src, dst) ==
    IF dst[1] \in IntTags \cup FloatTags \cup {"BigInt", "Decimal"}
    THEN Shaped(v, src, WholeTo(IF v[2] THEN 1 ELSE 0, dst))
    ELSE Unsupported
\* Widening is unconditional, narrowing needs consent, and some pairs
\* (a 64-bit integer into a float) have no arm at all.
FromInt(v, src, dst, ctx) ==
    CASE dst[1] \in IntTags ->
            IF IntWidens(src[1], dst[1]) THEN Shaped(v, src, WholeTo(v[2], dst))
            ELSE require_truncate(ctx, Shaped(v, src, int_narrow(v, dst)))
      [] dst[1] \in FloatTags ->
            IF SignedLossless(src, dst) THEN Shaped(v, src, WholeTo(v[2], dst)) ELSE Unsupported
      [] dst[1] \in {"BigInt", "Decimal"} -> Shaped(v, src, WholeTo(v[2], dst))
      [] OTHER -> Unsupported
FromFloat(v, src, dst, ctx) ==
    IF src[1] = "Float32" /\ dst[1] = "Float64" THEN Shaped(v, src, Ok(<<"Float64", v[2]>>))
    ELSE IF dst[1] \in IntTags \cup {"Float32"}
    THEN require_truncate(ctx, Shaped(v, src, float_narrow(v, dst)))
    ELSE Unsupported
FromWide(v, src, dst, ctx) ==
    CASE src[1] = dst[1] -> identity_or_narrow_numeric(v, src, dst, ctx)
      [] src[1] = "BigInt" /\ dst[1] = "Decimal" -> Shaped(v, src, WholeTo(v[2], dst))
      [] src[1] = "BigInt" /\ dst[1] \in IntTags ->
            require_truncate(ctx, Shaped(v, src, bigint_narrow(v, dst)))
      [] src[1] = "Decimal" /\ dst[1] \in FloatTags ->
            Shaped(v, src, decimal_to_float(v, dst, ctx.truncate))
      [] src[1] = "Decimal" /\ dst[1] \in IntTags \cup {"BigInt"} ->
            require_truncate(ctx, Shaped(v, src, decimal_narrow(v, dst)))
      [] OTHER -> Unsupported

\* Uuid and address round trips.
FromBinary(v, src, dst, ctx) ==
    CASE src[1] \in {"Uuid", "Ipv4", "Ipv6"} /\ dst[1] = "Bytes" -> Shaped(v, src, Ok(<<"Bytes", v[2]>>))
      [] src[1] = "Bytes" /\ dst[1] = "Uuid" -> Shaped(v, src, uuid_from_bytes(v[2]))
      [] src[1] = "Bytes" /\ dst[1] \in {"Ipv4", "Ipv6"} -> Shaped(v, src, ip_from_bytes(dst[1], v[2]))
      [] src[1] = "Text" /\ dst[1] = "Uuid" -> Shaped(v, src, parse_uuid(v[2]))
      [] src[1] = "Text" /\ dst[1] = "Ipv4" -> Shaped(v, src, parse_v4(v[2]))
      [] src[1] = "Text" /\ dst[1] = "Ipv6" -> Shaped(v, src, parse_v6(v[2]))
      [] src[1] = "Ipv4" /\ dst[1] = "Ipv6" -> Shaped(v, src, Ok(<<"Ipv6", Ipv4Mapped(v[2])>>))
      [] src[1] = "Ipv6" /\ dst[1] = "Ipv4" ->
            require_truncate(ctx, Shaped(v, src, v6_to_v4_if_mapped(v[2])))
      [] OTHER -> Unsupported

SizedToSized(v, src, dst, ctx) ==
    IF fits_size(src[2], dst[2]) THEN Ok(v)
    ELSE IF src[1] = "Text" THEN Ok(ToText(v, dst[2]))
    ELSE require_truncate(ctx, Shaped(v, src, Ok(<<"Bytes", truncate_to_chars(v[2], dst[2])>>)))
OrCustom(r) == IF IsOk(r) THEN r ELSE Err("Custom")
ContainerToJson(v, src) ==
    Shaped(v, src,
        Wrap("Json", OrCustom(ComposedOf(v, Collect([i \in 1..Len(v[2]) |-> value_to_json(Parts(v)[i])])))))
JsonToObject(v, src, ctx) ==
    require_truncate(ctx, Shaped(v, src,
        IF v[2][1] = "obj"
        THEN Ok(<<"Object", [i \in 1..Len(v[2][2]) |-> <<v[2][2][i][1], <<"Json", v[2][2][i][2]>>>>]>>)
        ELSE Mismatch))
TextToXml(v, src) == Shaped(v, src, IF xml_validate(v[2]) THEN Ok(v) ELSE Err("InvalidXml"))
TimestampToDate(v, src, ctx) ==
    require_truncate(ctx, Shaped(v, src, Ok(<<"Date", v[2] \div DayTicks>>)))

RECURSIVE convert(_, _, _, _)
\* A non-null element drops the null members; an unknown sink element takes
\* the members as they are.
ArrayToArray(v, src, dst, ctx) ==
    Shaped(v, src,
        LET items == IF dst[3] THEN v[2] ELSE SelectSeq(v[2], LAMBDA x : x # Null)
            Item(x) ==
                IF x = Null THEN Ok(Null)
                ELSE convert(x, IF src[2] = NoElem THEN data_type(x) ELSE src[2], dst[2], ctx)
        IN  IF dst[2] = NoElem THEN Ok(<<"Array", items>>)
            ELSE Wrap("Array", Collect([i \in 1..Len(items) |-> Item(items[i])])))

\* The arms of the big match.
ConvertCanonical(v, src, dst, ctx) ==
    CASE src[1] = dst[1] /\ src[1] \in {"Text", "Bytes"} -> SizedToSized(v, src, dst, ctx)
      [] src[1] = "Array" /\ dst[1] = "Array" -> ArrayToArray(v, src, dst, ctx)
      [] dst[1] = "Text" /\ src[1] # "Text" -> Ok(ToText(v, dst[2]))
      [] dst[1] = "Bool" -> ToBool(v, src, ctx)
      [] src[1] = "Bool" /\ dst[1] # "Text" -> FromBool(v, src, dst)
      [] src[1] \in IntTags /\ dst[1] \notin {"Bool", "Text"} -> FromInt(v, src, dst, ctx)
      [] src[1] \in FloatTags /\ dst[1] \notin {"Bool", "Text"} -> FromFloat(v, src, dst, ctx)
      [] src[1] \in {"BigInt", "Decimal"} /\ dst[1] \notin {"Bool", "Text"} ->
            FromWide(v, src, dst, ctx)
      [] src[1] \in {"Object", "Array"} /\ dst[1] = "Json" -> ContainerToJson(v, src)
      [] src[1] = "Json" /\ dst[1] = "Object" -> JsonToObject(v, src, ctx)
      [] src[1] = "Text" /\ dst[1] = "Xml" -> TextToXml(v, src)
      [] src[1] = "Timestamp" /\ dst[1] = "Date" -> TimestampToDate(v, src, ctx)
      [] OTHER -> FromBinary(v, src, dst, ctx)

\* A union is dispatched again on the value's own type, which is never a union.
ConvertFrom(src, v, dst, ctx) ==
    CASE src[1] = "Custom" /\ dst[1] = "Custom" -> IF TypeEq(src, dst) THEN Ok(v) ELSE Unsupported
      [] src[1] = "Custom" /\ dst[1] # "Custom" -> CustomConvert(src, v, dst, ctx.truncate)
      [] src[1] # "Custom" /\ dst[1] = "Custom" -> CustomConstruct(dst, v, src)
      [] OTHER -> IF TypeEq(src, dst) THEN identity_or_forbid(v, src, ctx)
                  ELSE ConvertCanonical(v, src, dst, ctx)
convert(v, declared, dst, ctx) ==
    IF v = Null THEN Ok(ctx.default)
    ELSE ConvertFrom(IF declared[1] = "Union" THEN data_type(v) ELSE declared, v, dst, ctx)

(***************************************************************************)
(* The cursor codec: a value and its JSON, and back.                       *)
(***************************************************************************)
\* Mutant: a cursor value is written as value_to_json writes a cell.
SerializeAsCell(v) == value_to_json(v)
\* A float serialises as a number, or as null when JSON has none.
SerializeValue(v) ==
    CASE Tag(v) = "Null" -> Ok(<<"null">>)
      [] Tag(v) = "Custom" ->
            IF v[2] \in CursorKinds THEN value_to_json(v) ELSE Err("not cursor_compatible")
      [] Tag(v) \in {"Object", "Array"} -> Ok(JsonOrNull(v))
      [] Tag(v) = "Bytes" -> Ok(<<"arr", [i \in 1..Len(v[2]) |-> <<"num", v[2][i]>>]>>)
      [] Tag(v) \in IntTags -> Ok(<<"num", v[2]>>)
      [] Tag(v) \in {"Timestamp", "Interval"} -> Ok(Str(InstantText(v[2])))
      [] OTHER -> value_to_json(v)
Envelope(v, r) ==
    IF IsOk(r) THEN Ok([type |-> Tag(v), kind |-> IF Tag(v) = "Custom" THEN v[2] ELSE "", value |-> r[2]]) ELSE r
Serialize(v) ==
    Envelope(v, SerializeValue(v))

\* The texts of numbers, days and instants parse back to what they print.
ParseInt(s) ==
    LET neg == s # <<>> /\ s[1] = 45
        d == IF neg THEN Tail(s) ELSE s
        n == FoldLeft(LAMBDA acc, c : 10 * acc + c - 48, 0, d)
    IN  IF d # <<>> /\ \A i \in 1..Len(d) : d[i] \in 48..57 THEN Ok(IF neg THEN -n ELSE n)
        ELSE Err("invalid digit")
ParseDecimal(s) ==
    LET dots == {i \in 1..Len(s) : s[i] = 46}
        at == IF dots = {} THEN Len(s) + 1 ELSE Min(dots)
        whole == ParseInt(SelectSeq(s, LAMBDA c : c # 46))
    IN  IF IsOk(whole) /\ Cardinality(dots) <= 1
        THEN Ok(<<"Decimal", whole[2], NatDiff(Len(s), at)>>) ELSE Err("invalid decimal")
Prefixed(tag, mark, s) ==
    IF s # <<>> /\ s[1] = mark THEN Wrap(tag, ParseInt(Tail(s))) ELSE Err("invalid text")
decode(tag, j) ==
    CASE tag = "Bool" -> IF j[1] = "bool" THEN Ok(<<tag, j[2]>>) ELSE Err("invalid type")
      [] tag \in IntTags ->
            IF j[1] = "num" /\ InRange(tag, j[2]) THEN Ok(<<tag, j[2]>>) ELSE Err("invalid value")
      [] tag \in FloatTags -> IF j[1] = "flt" THEN Ok(<<tag, j[2]>>) ELSE Err("invalid type")
      [] tag = "Bytes" ->
            IF j[1] = "arr" THEN Ok(<<tag, [i \in 1..Len(j[2]) |-> j[2][i][2]]>>) ELSE Err("invalid type")
      [] OTHER ->
            IF j[1] # "str" THEN Err("invalid type")
            ELSE CASE tag = "BigInt" -> Wrap(tag, ParseInt(j[2]))
                   [] tag = "Decimal" -> ParseDecimal(j[2])
                   [] tag = "Text" -> Ok(<<tag, j[2]>>)
                   [] tag = "Date" -> Prefixed(tag, 100, j[2])
                   [] tag \in {"Timestamp", "Interval"} -> Prefixed(tag, 116, j[2])
                   [] tag = "Uuid" -> parse_uuid(j[2])
                   [] tag = "Ipv4" -> parse_v4(j[2])
                   [] tag = "Ipv6" -> parse_v6(j[2])
\* The members of an object or an array come back as JSON.
Deserialize(e) ==
    CASE e.type = "Null" -> Ok(Null)
      [] e.type = "Json" -> Ok(<<"Json", e.value>>)
      [] e.type = "Object" ->
            IF e.value[1] # "obj" THEN Err("must be an object")
            ELSE Ok(<<"Object", [i \in 1..Len(e.value[2]) |->
                                  <<e.value[2][i][1], <<"Json", e.value[2][i][2]>>>>]>>)
      [] e.type = "Array" ->
            IF e.value[1] # "arr" THEN Err("must be an array")
            ELSE Ok(<<"Array", [i \in 1..Len(e.value[2]) |-> <<"Json", e.value[2][i]>>]>>)
      [] e.type = "Custom" -> Err("custom envelope")
      [] OTHER -> decode(e.type, e.value)
\* The declared type of the cursor field picks the decoder of a custom value.
decode_cursor_json(t, e) ==
    IF t[1] # "Custom" THEN Deserialize(e)
    ELSE IF e.type # "Custom" THEN Err("tag does not match")
    ELSE IF e.kind # t[2] THEN Err("kind does not match")
    ELSE decode_cursor_value(t[2], e.value)

(***************************************************************************)
(* sink_compat.rs: a literal or a computed value in the type of its column.*)
(***************************************************************************)
\* <<>> when the pair is no numeric narrowing.
try_narrow_numeric(v, t) ==
    CASE v[1] \in {"Int64", "Float64"} /\ t[1] = "Float32" ->
            <<Ok(<<"Float32", ToF32(IF v[1] = "Int64" THEN 2 * v[2] ELSE v[2])>>)>>
      [] v[1] = "Int64" /\ t[1] = "Float64" -> <<Ok(<<"Float64", IntToF64(v[2])>>)>>
      [] v[1] = "Int64" /\ t[1] \in IntTags \ {"Int64"} ->
            <<IF InRange(t[1], v[2]) THEN Ok(<<t[1], v[2]>>) ELSE Err("out of range")>>
      [] OTHER -> <<>>
\* The pairs settled without the conversion matrix.
Settled(v, t) ==
    IF v = Null \/ TypeEq(data_type(v), t) THEN <<Ok(v)>>
    ELSE IF t[1] \in {"Text", "Bytes"} /\ v[1] = t[1] /\ t[2] # NoSize
         THEN <<IF Len(v[2]) > t[2] THEN Err("exceeds sink size") ELSE Ok(v)>>
    ELSE try_narrow_numeric(v, t)
\* With consent to truncate a value goes straight to the matrix.
Coerced(v, t, truncate, settled) ==
    IF ~truncate /\ settled # <<>> THEN settled[1]
    ELSE convert(v, data_type(v), t, [truncate |-> truncate, default |-> Null])
coerce(v, t, truncate) == Coerced(v, t, truncate, Settled(v, t))
ensure_sink_compatible(v, t) == coerce(v, t, FALSE)
=============================================================================
