----------------------------- MODULE DataTypes ------------------------------
(* The connectors' own types (DynType, crates/commons): which canonical types *)
(* each one converts to and is built from, and both conversions.              *)
(* A type is a tuple with its variant first: <<"Int8">>, <<"Text", size>>,    *)
(* <<"Bytes", size>>, <<"BigInt", width>>, <<"Decimal", precision, scale>>,   *)
(* <<"Array", element, nullable>> (element <<"None">> when unknown),          *)
(* <<"Union", members>>, <<"Custom", kind, params>>; NoSize is None.          *)
EXTENDS Values

CONSTANT SecondTicks  \* ticks per second

Mismatch == Err("ValueShapeMismatch")
Unsupported == Err("Unsupported")
Custom(kind, p) == Ok(<<"Custom", kind, p>>)
IsA(t, tag) == t[1] = tag
SizeIs(t, n) == t[2] \in {NoSize, n}
SizeAtLeast(t, n) == t[2] = NoSize \/ t[2] >= n

(***************************************************************************)
(* PostgreSQL inet: <<family, octets..., prefix>>.                         *)
(***************************************************************************)
InetCanConvert(dst, truncate) ==
    \/ IsA(dst, "Text") /\ SizeAtLeast(dst, 43)
    \/ dst[1] \in {"Ipv4", "Ipv6"} /\ truncate
InetCanConstruct(src) == src[1] \in {"Text", "Ipv4", "Ipv6"}
InetAddress(p) == SubSeq(p, 2, Len(p) - 1)
InetConvert(v, dst, truncate) ==
    CASE IsA(dst, "Text") -> Ok(<<"Text", custom_to_string(v)>>)
      [] IsA(dst, "Ipv4") /\ truncate ->
            IF v[3][1] = 4 THEN Ok(<<"Ipv4", InetAddress(v[3])>>) ELSE Mismatch
      [] IsA(dst, "Ipv6") /\ truncate ->
            Ok(<<"Ipv6", IF v[3][1] = 4 THEN Ipv4Mapped(InetAddress(v[3])) ELSE InetAddress(v[3])>>)
      [] OTHER -> Unsupported
\* An address, with a prefix length or alone.
PrefixOf(s, width) ==
    LET ns == {n \in 0..width : Digits(n) = s} IN IF ns = {} THEN Err("InvalidIp") ELSE Ok(CHOOSE n \in ns : TRUE)
WithPrefix(family, a, p) ==
    IF IsOk(p) THEN Custom("postgresql.inet", <<family>> \o a[2][2] \o <<p[2]>>) ELSE p
InetOf(a4, a6, suffix) ==
    IF IsOk(a4) THEN WithPrefix(4, a4, IF suffix = <<>> THEN Ok(32) ELSE PrefixOf(Tail(suffix), 32))
    ELSE IF IsOk(a6) THEN WithPrefix(6, a6, IF suffix = <<>> THEN Ok(128) ELSE PrefixOf(Tail(suffix), 128))
    ELSE Err("InvalidIp")
InetAt(t, at) == InetOf(parse_v4(SubSeq(t, 1, at - 1)), parse_v6(SubSeq(t, 1, at - 1)), SubSeq(t, at, Len(t)))
parse_inet(text) == LET t == Trim(text) IN InetAt(t, Min({i \in 1..Len(t) : t[i] = 47} \cup {Len(t) + 1}))
InetConstruct(v, src) ==
    CASE Tag(v) = "Text" /\ IsA(src, "Text") -> parse_inet(v[2])
      [] Tag(v) = "Ipv4" /\ IsA(src, "Ipv4") -> Custom("postgresql.inet", <<4>> \o v[2] \o <<32>>)
      [] Tag(v) = "Ipv6" /\ IsA(src, "Ipv6") -> Custom("postgresql.inet", <<6>> \o v[2] \o <<128>>)
      [] OTHER -> Unsupported
InetDecodeCursor(j) == IF j[1] = "str" THEN parse_inet(j[2]) ELSE Err("expected string")

(***************************************************************************)
(* MongoDB ObjectId (12 bytes, the first four a time in seconds),          *)
(* JavaScript and BSON objects.                                            *)
(***************************************************************************)
parse_hex_24(s) ==
    IF Len(s) = 24 /\ \A i \in 1..24 : IsHex(s[i]) THEN Custom("mongodb.object_id", FromHex(s))
    ELSE Unsupported
ObjectIdCanConvert(dst, truncate) ==
    \/ IsA(dst, "Bytes") /\ SizeIs(dst, 12)
    \/ IsA(dst, "Text") /\ SizeIs(dst, 24)
    \/ dst[1] \in {"Timestamp", "Date"} /\ truncate
ObjectIdCanConstruct(src) ==
    \/ IsA(src, "Bytes") /\ SizeIs(src, 12)
    \/ IsA(src, "Text") /\ SizeIs(src, 24)
ObjectIdTime(p) == (((p[1] * 256 + p[2]) * 256 + p[3]) * 256 + p[4]) * SecondTicks
ObjectIdConvert(v, dst) ==
    CASE IsA(dst, "Bytes") -> Ok(<<"Bytes", v[3]>>)
      [] IsA(dst, "Text") -> Ok(<<"Text", bytes_to_hex(v[3])>>)
      [] IsA(dst, "Timestamp") -> Ok(<<"Timestamp", ObjectIdTime(v[3])>>)
      [] IsA(dst, "Date") -> Ok(<<"Date", ObjectIdTime(v[3]) \div DayTicks>>)
      [] OTHER -> Unsupported
ObjectIdConstruct(v, src) ==
    CASE Tag(v) = "Bytes" /\ IsA(src, "Bytes") ->
            IF Len(v[2]) = 12 THEN Custom("mongodb.object_id", v[2]) ELSE Unsupported
      [] Tag(v) = "Text" /\ IsA(src, "Text") -> parse_hex_24(v[2])
      [] OTHER -> Unsupported
ObjectIdDecodeCursor(j) == IF j[1] = "str" THEN parse_hex_24(j[2]) ELSE Err("expected hex string")

JsCanConvert(dst) == dst[1] \in {"Text", "Bytes"} /\ dst[2] = NoSize
JsCanConstruct(src) == src[1] \in {"Text", "Bytes"}
JsConvert(v, dst) == IF dst[1] \in {"Text", "Bytes"} THEN Ok(<<dst[1], v[3]>>) ELSE Unsupported
\* Bytes above 127 on their own are not UTF-8.
JsConstruct(v, src) ==
    IF Tag(v) = src[1] /\ Tag(v) \in {"Text", "Bytes"} /\ \A i \in 1..Len(v[2]) : v[2][i] < 128
    THEN Custom("mongodb.javascript", v[2])
    ELSE Unsupported

BsonObjectCanConvert(dst) == dst[1] \in {"Json", "Text"}
BsonObjectCanConstruct(src) == IsA(src, "Json")
\* The text is cut to the column's size whatever truncate says.
BsonObjectConvert(v, dst) ==
    CASE IsA(dst, "Json") -> Ok(<<"Json", v[3]>>)
      [] IsA(dst, "Text") ->
            Ok(<<"Text", CutTo(JsonText(v[3]), dst[2])>>)
      [] OTHER -> Unsupported
BsonObjectConstruct(v, src) ==
    IF ~IsA(src, "Json") THEN Unsupported
    ELSE IF Tag(v) = "Json" /\ v[2][1] = "obj" THEN Custom("mongodb.bson_object", v[2])
    ELSE Mismatch

(***************************************************************************)
(* QuestDB symbols and ClickHouse enums, text under another name.          *)
(***************************************************************************)
SymbolConvert(v, dst) == IF IsA(dst, "Text") THEN Ok(<<"Text", v[3]>>) ELSE Unsupported
SymbolConstruct(v, src) ==
    IF ~IsA(src, "Text") THEN Unsupported
    ELSE IF Tag(v) = "Text" THEN Custom("questdb.symbol", v[2]) ELSE Mismatch
\* One value carries both enums; asked for its type it answers enum8.
EnumConvert(v, dst) == IF IsA(dst, "Text") THEN Ok(<<"Text", v[3][1]>>) ELSE Unsupported
EnumConstruct(t, v, src) ==
    LET known == {i \in 1..Len(t[3]) : t[3][i][1] = v[2]}
    IN  IF ~IsA(src, "Text") THEN Unsupported
        ELSE IF Tag(v) # "Text" THEN Mismatch
        ELSE IF known = {} THEN Unsupported
        ELSE Custom("clickhouse.enum8", <<v[2], t[3][Min(known)][2]>>)

FixedStringFits(t, other) == IsA(other, "Bytes") /\ SizeIs(other, t[3])
FixedStringConvert(v, dst) == IF IsA(dst, "Bytes") THEN Ok(<<"Bytes", v[3]>>) ELSE Unsupported
FixedStringConstruct(t, v, src) ==
    IF ~IsA(src, "Bytes") THEN Unsupported
    ELSE IF Tag(v) # "Bytes" THEN Mismatch
    ELSE IF Len(v[2]) # t[3] THEN Err("Length") ELSE Custom(t[2], v[2])

(***************************************************************************)
(* ClickHouse 128- and 256-bit integers.                                   *)
(***************************************************************************)
WideKinds == {"clickhouse.int128", "clickhouse.uint128", "clickhouse.int256", "clickhouse.uint256"}
WideConvert(v, dst) == IF IsA(dst, "BigInt") THEN Ok(<<"BigInt", v[3]>>) ELSE Unsupported
WideFrom(kind, v, src, lo, hi, outside) ==
    IF ~IsA(src, "BigInt") THEN Unsupported
    ELSE IF Tag(v) # "BigInt" THEN Mismatch
    ELSE IF lo <= v[2] /\ v[2] <= hi THEN Custom(kind, v[2]) ELSE outside
Int128Construct(v, src) ==
    WideFrom("clickhouse.int128", v, src, -(2 ^ (I128 - 1)), 2 ^ (I128 - 1) - 1, Unsupported)
UInt128Construct(v, src) ==
    WideFrom("clickhouse.uint128", v, src, 0, 2 ^ I128 - 1, Unsupported)
Int256Construct(v, src) ==
    WideFrom("clickhouse.int256", v, src, -(2 ^ (I256 - 1)), 2 ^ (I256 - 1) - 1, Err("Overflow"))
UInt256Construct(v, src) ==
    WideFrom("clickhouse.uint256", v, src, 0, 2 ^ I256 - 1,
             IF Tag(v) = "BigInt" /\ v[2] < 0 THEN Unsupported ELSE Err("Overflow"))

(***************************************************************************)
(* ClickHouse arrays, tuples and maps: JSON arrays, typed on the way in.   *)
(* A type's members are pairs <<type, nullable>>.                          *)
(***************************************************************************)
DebugDoc(m) == IF Tag(m) = "Json" THEN m[2] ELSE Str(<<63>> \o value_to_string(m))
RECURSIVE json_to_typed_value(_, _)
json_to_typed_value(j, target) ==
    CASE j[1] = "null" -> Ok(Null)
      [] j[1] = "bool" -> Ok(<<"Bool", j[2]>>)
      [] j[1] \in {"num", "flt"} /\ target[1] \in IntTags ->
            IF j[1] = "num" /\ InRange(target[1], j[2]) THEN Ok(<<target[1], j[2]>>)
            ELSE Err("Overflow")
      [] j[1] \in {"num", "flt"} /\ target[1] \in FloatTags ->
            LET x == IF j[1] = "num" THEN IntToF64(j[2]) ELSE j[2]
            IN  Ok(<<target[1], IF target[1] = "Float32" THEN ToF32(x) ELSE x>>)
      [] j[1] = "num" /\ target[1] \notin IntTags \cup FloatTags ->
            Ok(IF InRange("Int32", j[2]) THEN <<"Int32", j[2]>>
               ELSE IF InRange("Int64", j[2]) THEN <<"Int64", j[2]>>
               ELSE <<"Float64", IntToF64(j[2])>>)
      [] j[1] = "flt" /\ target[1] \notin IntTags \cup FloatTags -> Ok(<<"Float64", j[2]>>)
      [] j[1] = "str" -> Ok(<<"Text", j[2]>>)
      [] j[1] = "arr" ->
            \* A member that is not itself JSON is kept as the text of its debug form.
            Ok(<<"Json", <<"arr", [i \in 1..Len(j[2]) |->
                    DebugDoc(json_to_typed_value(j[2][i], <<"Json">>)[2])]>>>>)
      [] j[1] = "obj" -> Ok(<<"Json", j>>)

OrUnsupported(r) == IF IsOk(r) THEN r ELSE Unsupported
ToJsonOnly(v, dst) ==
    IF ~IsA(dst, "Json") THEN Unsupported
    ELSE Wrap("Json", OrUnsupported(value_to_json(v)))
ChArrayConvert(v, dst) == ToJsonOnly(v, dst)
ChTupleConvert(v, dst) == ToJsonOnly(v, dst)
ChMapConvert(v, dst) == ToJsonOnly(v, dst)
Built(kind, r) == IF IsOk(r) THEN Custom(kind, r[2]) ELSE r
IsJsonArray(v) == Tag(v) = "Json" /\ v[2][1] = "arr"
ChArrayConstruct(t, v, src) ==
    IF ~IsA(src, "Json") THEN Unsupported
    ELSE IF ~IsJsonArray(v) THEN Mismatch
    ELSE Built(t[2], Collect([i \in 1..Len(v[2][2]) |-> json_to_typed_value(v[2][2][i], t[3][1])]))
ChTupleConstruct(t, v, src) ==
    IF ~IsA(src, "Json") THEN Unsupported
    ELSE IF ~IsJsonArray(v) THEN Mismatch
    ELSE IF Len(v[2][2]) # Len(t[3]) THEN Mismatch
    ELSE Built(t[2], Collect([i \in 1..Len(t[3]) |-> json_to_typed_value(v[2][2][i], t[3][i][1])]))
\* The value of an entry is decoded before its key.
ValueFirst(r) == IF IsOk(r) THEN Ok(<<r[2][2], r[2][1]>>) ELSE r
ChMapConstruct(t, v, src) ==
    LET Pair(p) ==
            IF p[1] = "arr" /\ Len(p[2]) = 2
            THEN ValueFirst(Collect([i \in 1..2 |-> json_to_typed_value(p[2][3 - i], t[3][3 - i][1])]))
            ELSE Mismatch
    IN  IF ~IsA(src, "Json") THEN Unsupported
        ELSE IF ~IsJsonArray(v) THEN Mismatch
        ELSE Built(t[2], Collect([i \in 1..Len(v[2][2]) |-> Pair(v[2][2][i])]))

(***************************************************************************)
(* The trait.  The kinds not named below (hll, aggregate states, long256,  *)
(* geohash) convert to and from nothing but themselves.                    *)
(***************************************************************************)
EnumKinds == {"clickhouse.enum8", "clickhouse.enum16"}
can_convert_to(t, dst, truncate) ==
    CASE t[2] = "postgresql.inet" -> InetCanConvert(dst, truncate)
      [] t[2] = "mongodb.object_id" -> ObjectIdCanConvert(dst, truncate)
      [] t[2] = "mongodb.javascript" -> JsCanConvert(dst)
      [] t[2] = "mongodb.bson_object" -> BsonObjectCanConvert(dst)
      [] t[2] \in EnumKinds \cup {"questdb.symbol"} -> IsA(dst, "Text")
      [] t[2] = "clickhouse.fixed_string" -> FixedStringFits(t, dst)
      [] t[2] \in WideKinds -> IsA(dst, "BigInt")
      [] t[2] \in JsonKinds -> IsA(dst, "Json")
      [] OTHER -> FALSE
can_construct_from(t, src) ==
    CASE t[2] = "postgresql.inet" -> InetCanConstruct(src)
      [] t[2] = "mongodb.object_id" -> ObjectIdCanConstruct(src)
      [] t[2] = "mongodb.javascript" -> JsCanConstruct(src)
      [] t[2] = "mongodb.bson_object" -> BsonObjectCanConstruct(src)
      [] t[2] \in EnumKinds \cup {"questdb.symbol"} -> IsA(src, "Text")
      [] t[2] = "clickhouse.fixed_string" -> FixedStringFits(t, src)
      [] t[2] \in WideKinds -> IsA(src, "BigInt")
      [] t[2] \in JsonKinds -> IsA(src, "Json")
      [] OTHER -> FALSE
CustomConvert(t, v, dst, truncate) ==
    IF Tag(v) # "Custom" THEN Mismatch
    ELSE CASE t[2] = "postgresql.inet" -> InetConvert(v, dst, truncate)
           [] t[2] = "mongodb.object_id" -> ObjectIdConvert(v, dst)
           [] t[2] = "mongodb.javascript" -> JsConvert(v, dst)
           [] t[2] = "mongodb.bson_object" -> BsonObjectConvert(v, dst)
           [] t[2] = "questdb.symbol" -> SymbolConvert(v, dst)
           [] t[2] \in EnumKinds -> EnumConvert(v, dst)
           [] t[2] = "clickhouse.fixed_string" -> FixedStringConvert(v, dst)
           [] t[2] \in WideKinds -> WideConvert(v, dst)
           [] t[2] = "clickhouse.array" -> ChArrayConvert(v, dst)
           [] t[2] = "clickhouse.tuple" -> ChTupleConvert(v, dst)
           [] t[2] = "clickhouse.map" -> ChMapConvert(v, dst)
           [] OTHER -> Unsupported
CustomConstruct(t, v, src) ==
    CASE t[2] = "postgresql.inet" -> InetConstruct(v, src)
      [] t[2] = "mongodb.object_id" -> ObjectIdConstruct(v, src)
      [] t[2] = "mongodb.javascript" -> JsConstruct(v, src)
      [] t[2] = "mongodb.bson_object" -> BsonObjectConstruct(v, src)
      [] t[2] = "questdb.symbol" -> SymbolConstruct(v, src)
      [] t[2] \in EnumKinds -> EnumConstruct(t, v, src)
      [] t[2] = "clickhouse.fixed_string" -> FixedStringConstruct(t, v, src)
      [] t[2] = "clickhouse.int128" -> Int128Construct(v, src)
      [] t[2] = "clickhouse.uint128" -> UInt128Construct(v, src)
      [] t[2] = "clickhouse.int256" -> Int256Construct(v, src)
      [] t[2] = "clickhouse.uint256" -> UInt256Construct(v, src)
      [] t[2] = "clickhouse.array" -> ChArrayConstruct(t, v, src)
      [] t[2] = "clickhouse.tuple" -> ChTupleConstruct(t, v, src)
      [] t[2] = "clickhouse.map" -> ChMapConstruct(t, v, src)
      [] OTHER -> Unsupported
decode_cursor_value(kind, j) ==
    CASE kind = "postgresql.inet" -> InetDecodeCursor(j)
      [] kind = "mongodb.object_id" -> ObjectIdDecodeCursor(j)

-----------------------------------------------------------------------------
(* crates/types, data_type.rs, matrix.rs and union_types.rs: equality and     *)
(* order of types, which source type may feed which sink type, and the type   *)
(* that covers a set of observed ones.                                        *)

NoElem == <<"None">>
Sized == {"Text", "Bytes", "BigInt"}

\* Equality of custom types is by kind, of geohashes by their bits as well.
RECURSIVE Erased(_)
Erased(t) ==
    CASE t[1] = "Array" -> <<"Array", Erased(t[2]), t[3]>>
      [] t[1] = "Union" -> <<"Union", [i \in 1..Len(t[2]) |-> Erased(t[2][i])]>>
      [] t[1] = "Custom" /\ t[2] # "questdb.geohash" -> <<"Custom", t[2]>>
      [] OTHER -> t
TypeEq(a, b) == Erased(a) = Erased(b)

cursor_compatible(t) ==
    IF t[1] = "Custom" THEN t[2] \in CursorKinds
    ELSE t[1] \notin {"Json", "Xml", "Object", "Interval", "Array", "Union"}
is_object(t) ==
    t[1] \in {"Json", "Object"} \/ (t[1] = "Custom" /\ t[2] = "mongodb.bson_object")

(***************************************************************************)
(* The order in which a union keeps its members.                           *)
(***************************************************************************)
VariantOrder ==
    <<"Bool", "Int8", "Int16", "Int32", "Int64", "UInt8", "UInt16", "UInt32", "UInt64",
      "Float32", "Float64", "BigInt", "Decimal", "Text", "Bytes", "Date", "Timestamp", "Uuid",
      "Ipv4", "Ipv6", "Json", "Xml", "Object", "Union", "Custom", "Interval", "Array">>
\* None precedes every Some.
variant_order(t) == IF t = NoElem THEN 0 ELSE CHOOSE i \in 1..Len(VariantOrder) : VariantOrder[i] = t[1]
KindOrder ==
    <<"clickhouse.aggregate", "clickhouse.array", "clickhouse.enum16", "clickhouse.enum8",
      "clickhouse.fixed_string", "clickhouse.int128", "clickhouse.int256", "clickhouse.map",
      "clickhouse.tuple", "clickhouse.uint128", "clickhouse.uint256", "mongodb.bson_object",
      "mongodb.javascript", "mongodb.object_id", "postgresql.hll", "postgresql.inet",
      "questdb.geohash", "questdb.long256", "questdb.symbol">>
kind_order(k) == CHOOSE i \in 1..Len(KindOrder) : KindOrder[i] = k
Then(o, p) == IF o # 0 THEN o ELSE p
RECURSIVE TypeCmp(_, _)
TypeCmp(a, b) ==
    LET o == Cmp(variant_order(a), variant_order(b))
        Members(s, t) ==
            LET D == {i \in 1..Min({Len(s), Len(t)}) : TypeCmp(s[i], t[i]) # 0}
            IN  IF D = {} THEN Cmp(Len(s), Len(t)) ELSE TypeCmp(s[Min(D)], t[Min(D)])
    IN  CASE o # 0 -> o
          [] o = 0 /\ a[1] \in Sized -> Cmp(a[2], b[2])
          [] o = 0 /\ a[1] = "Decimal" -> Then(Cmp(a[2], b[2]), Cmp(a[3], b[3]))
          [] o = 0 /\ a[1] = "Union" -> Members(a[2], b[2])
          [] o = 0 /\ a[1] = "Array" ->
                Then(TypeCmp(a[2], b[2]), Cmp(IF a[3] THEN 1 ELSE 0, IF b[3] THEN 1 ELSE 0))
          [] o = 0 /\ a[1] = "Custom" -> Cmp(kind_order(a[2]), kind_order(b[2]))
          [] OTHER -> 0

(***************************************************************************)
(* is_compatible: the conversions that need no consent.                    *)
(***************************************************************************)
\* decimal digits of an integer type's largest value (3, 5, 10, 19 and 20).
IntDigits(tag) == Len(Digits(IntMax(tag)))
NatDiff(a, b) == IF a > b THEN a - b ELSE 0
OrZero(n) == IF n = NoSize THEN 0 ELSE n
fits_size(a, b) == b = NoSize \/ (a # NoSize /\ a <= b)
decimal_fits_int_digits(t, digits) ==
    t[2] = NoSize \/ NatDiff(t[2], OrZero(t[3])) >= digits
decimal_fits_bigint(width, t) ==
    t[2] = NoSize \/ (width # NoSize /\ NatDiff(t[2], OrZero(t[3])) >= width)
decimal_fits_decimal(a, b) ==
    \/ b[2] = NoSize
    \/ /\ a[2] # NoSize
       /\ OrZero(b[3]) >= OrZero(a[3])
       /\ NatDiff(b[2], OrZero(b[3])) >= NatDiff(a[2], OrZero(a[3]))

\* Same signedness and wider, or unsigned into a wider signed type.
IntWidens(a, b) == IntBits(a) < IntBits(b) /\ (a \in SignedInts => b \in SignedInts)
SignedLossless(a, b) ==
    \/ a[1] \in SignedInts /\ b[1] \in SignedInts /\ IntWidens(a[1], b[1])
    \/ a[1] = "Float32" /\ b[1] = "Float64"
    \/ a[1] \in {"Int8", "Int16"} /\ b[1] = "Float32"
    \/ a[1] \in {"Int8", "Int16", "Int32"} /\ b[1] = "Float64"
SizedLossless(a, b) ==
    \/ a[1] = b[1] /\ a[1] \in {"Text", "Bytes"} /\ fits_size(a[2], b[2])
    \/ a[1] = "Uuid" /\ b[1] = "Text" /\ SizeAtLeast(b, 36)
    \/ a[1] = "Text" /\ b[1] = "Uuid" /\ SizeAtLeast(a, 36)
    \/ a[1] = "Uuid" /\ b[1] = "Bytes" /\ SizeAtLeast(b, 16)
    \/ a[1] = "Bytes" /\ b[1] = "Uuid" /\ SizeAtLeast(a, 16)
BoolLossless(a, b) ==
    \/ a[1] \in IntTags /\ b[1] = "Bool"
    \/ a[1] = "Bool" /\ b[1] \in IntTags \cup FloatTags \cup {"BigInt"}
    \/ a[1] = "Bool" /\ b[1] = "Decimal" /\ decimal_fits_int_digits(b, 1)
UnsignedLossless(a, b) ==
    a[1] \in UnsignedInts
    /\ \/ b[1] \in IntTags /\ IntWidens(a[1], b[1])
       \/ b[1] = "BigInt"
       \/ b[1] = "Decimal" /\ decimal_fits_int_digits(b, IntDigits(a[1]))
WideLossless(a, b) ==
    \/ a[1] \in SignedInts /\ b[1] = "BigInt"
    \/ a[1] = "BigInt" /\ b[1] = "BigInt" /\ fits_size(a[2], b[2])
    \/ a[1] \in SignedInts /\ b[1] = "Decimal" /\ decimal_fits_int_digits(b, IntDigits(a[1]))
    \/ a[1] = "BigInt" /\ b[1] = "Decimal" /\ decimal_fits_bigint(a[2], b)
    \/ a[1] = "Decimal" /\ b[1] = "Decimal" /\ decimal_fits_decimal(a, b)
TextualLossless(a, b) ==
    \/ a[1] \in {"Xml", "Json"} /\ b = <<"Text", NoSize>>
    \/ a[1] = "Text" /\ b[1] \in {"Xml", "Bool"}
    \/ a[1] = "Ipv4" /\ b[1] = "Ipv6"
    \/ a[1] = "Ipv4" /\ b[1] = "Text" /\ SizeAtLeast(b, 15)
    \/ a[1] = "Text" /\ b[1] = "Ipv4" /\ SizeAtLeast(a, 7)
    \/ a[1] = "Ipv6" /\ b[1] = "Text" /\ SizeAtLeast(b, 39)
    \/ a[1] = "Text" /\ b[1] = "Ipv6" /\ SizeAtLeast(a, 2)
    \/ a[1] = "Ipv4" /\ b[1] = "Bytes" /\ SizeAtLeast(b, 4)
    \/ a[1] = "Bytes" /\ b[1] = "Ipv4" /\ SizeAtLeast(a, 4)
    \/ a[1] = "Ipv6" /\ b[1] = "Bytes" /\ SizeAtLeast(b, 16)
    \/ a[1] = "Bytes" /\ b[1] = "Ipv6" /\ SizeAtLeast(a, 16)
RenderedTags == {"Bool", "BigInt", "Decimal", "Date", "Timestamp", "Bytes"} \cup IntTags \cup FloatTags
RenderedLossless(a, b) ==
    b = <<"Text", NoSize>> /\ a[1] \in RenderedTags \cup {"Object", "Array"}

RECURSIVE is_compatible(_, _)
RECURSIVE is_compatible_with_truncate(_, _)
\* An unknown element is a wildcard; a null member needs a nullable sink or consent.
array_element_compatible(a, b, truncate) ==
    /\ a[3] /\ ~b[3] => truncate
    /\ \/ a[2] = NoElem
       \/ b[2] = NoElem
       \/ IF truncate THEN is_compatible_with_truncate(a[2], b[2]) ELSE is_compatible(a[2], b[2])

is_compatible(a, b) ==
    CASE TypeEq(a, b) -> TRUE
      [] ~TypeEq(a, b) /\ a[1] = "Union" -> \A i \in 1..Len(a[2]) : is_compatible(a[2][i], b)
      [] ~TypeEq(a, b) /\ a[1] # "Union" /\ b[1] = "Union" -> FALSE
      [] a[1] = "Custom" /\ b[1] = "Custom" /\ ~TypeEq(a, b) -> FALSE
      [] a[1] = "Custom" /\ b[1] \notin {"Custom", "Union"} -> can_convert_to(a, b, FALSE)
      [] b[1] = "Custom" /\ a[1] \notin {"Custom", "Union"} -> can_construct_from(b, a)
      [] OTHER ->
            \/ SignedLossless(a, b)
            \/ SizedLossless(a, b)
            \/ BoolLossless(a, b)
            \/ UnsignedLossless(a, b)
            \/ WideLossless(a, b)
            \/ TextualLossless(a, b)
            \/ a[1] \in {"Object", "Array"} /\ b[1] = "Json"
            \/ a[1] = "Array" /\ b[1] = "Array" /\ array_element_compatible(a, b, FALSE)
            \/ RenderedLossless(a, b)

(***************************************************************************)
(* is_compatible_with_truncate: what consent unlocks as well.              *)
(***************************************************************************)
NumericNarrowing(a, b) ==
    \/ a[1] \in IntTags /\ b[1] \in IntTags /\ a[1] # b[1]
    \/ a[1] = "Float64" /\ b[1] = "Float32"
    \/ a[1] \in FloatTags /\ b[1] \in IntTags
    \/ a[1] = "BigInt" /\ b[1] \in IntTags \cup {"BigInt", "Bool"}
    \/ a[1] = "Decimal" /\ b[1] \in IntTags \cup {"Decimal", "BigInt", "Bool"} \cup FloatTags
    \/ a[1] \in FloatTags /\ b[1] = "Bool"
StructureNarrowing(a, b) ==
    \/ a[1] = "Timestamp" /\ b[1] = "Date"
    \/ a[1] = "Ipv6" /\ b[1] = "Ipv4"
    \/ a[1] = "Json" /\ b[1] = "Object"
    \/ a[1] = "Array" /\ b[1] = "Array" /\ array_element_compatible(a, b, TRUE)
TextNarrowing(a, b) ==
    \/ a[1] = b[1] /\ a[1] \in {"Text", "Bytes"}
    \/ b[1] = "Text" /\ b[2] # NoSize /\ a[1] \in RenderedTags \cup {"Json", "Xml", "Object", "Array"}

is_compatible_with_truncate(a, b) ==
    CASE a[1] = "Union" -> \A i \in 1..Len(a[2]) : is_compatible_with_truncate(a[2][i], b)
      [] a[1] # "Union" /\ b[1] = "Union" -> FALSE
      [] a[1] = "Custom" /\ b[1] = "Custom" -> TypeEq(a, b)
      [] a[1] = "Custom" /\ b[1] \notin {"Custom", "Union"} -> can_convert_to(a, b, TRUE)
      [] b[1] = "Custom" /\ a[1] \notin {"Custom", "Union"} -> can_construct_from(b, a)
      [] OTHER ->
            \/ is_compatible(a, b)
            \/ NumericNarrowing(a, b)
            \/ StructureNarrowing(a, b)
            \/ TextNarrowing(a, b)

\* is_narrowing picks the error the validator reports for a pair that is not
\* compatible: "enable truncate" or "unsupported cast".
RECURSIVE is_narrowing(_, _)
is_narrowing(a, b) ==
    CASE a[1] = "Union" -> \A i \in 1..Len(a[2]) : is_narrowing(a[2][i], b)
      [] a[1] # "Union" /\ (b[1] \in {"Union", "Custom"} \/ a[1] = "Custom") -> FALSE
      [] a[1] = b[1] /\ a[1] \in {"Text", "Bytes"} -> ~fits_size(a[2], b[2])
      [] a[1] = "Array" /\ b[1] = "Array" ->
            \/ a[3] /\ ~b[3]
            \/ NoElem \notin {a[2], b[2]} /\ is_narrowing(a[2], b[2])
      [] OTHER ->
            \/ a[1] = "Decimal" /\ b[1] \in FloatTags
            \/ a[1] \in SignedInts /\ b[1] \in SignedInts /\ IntBits(a[1]) > IntBits(b[1])
            \/ a[1] \in UnsignedInts /\ b[1] \in UnsignedInts /\ IntBits(a[1]) > IntBits(b[1])
            \/ a[1] = "Float64" /\ b[1] = "Float32"
            \/ a[1] \in FloatTags /\ b[1] \in IntTags
            \/ a[1] \in SignedInts /\ b[1] \in UnsignedInts
            \/ a[1] = "UInt8" /\ b[1] = "Int8"
            \/ a[1] = "Ipv6" /\ b[1] = "Ipv4"

(***************************************************************************)
(* collapse_union.                                                         *)
(***************************************************************************)
into_leaves(ts) ==
    FlattenSeq([i \in 1..Len(ts) |-> IF ts[i][1] = "Union" THEN ts[i][2] ELSE <<ts[i]>>])
WiderSize(a, b) == IF NoSize \in {a, b} THEN NoSize ELSE Max({a, b})
\* One type that covers both, or none.
try_widen(a, b) ==
    CASE TypeEq(a, b) -> Ok(a)
      [] ~TypeEq(a, b) /\ ({a[1], b[1]} \subseteq SignedInts \/ {a[1], b[1]} \subseteq UnsignedInts) ->
            Ok(IF IntBits(a[1]) >= IntBits(b[1]) THEN a ELSE b)
      [] ~TypeEq(a, b) /\ {a[1], b[1]} \subseteq FloatTags -> Ok(<<"Float64">>)
      [] ~TypeEq(a, b) /\ a[1] = b[1] /\ a[1] \in {"Text", "Bytes"} ->
            Ok(<<a[1], WiderSize(a[2], b[2])>>)
      [] OTHER -> Err("heterogeneous")

Deduped(ts) ==
    FoldLeft(LAMBDA acc, t : IF acc # <<>> /\ TypeEq(Last(acc), t) THEN acc ELSE Append(acc, t),
             <<>>, ts)
\* Mutant: neighbours are widened in the order they were seen.
FallbackUnsorted(ts) ==
    IF Len(Deduped(ts)) = 1 THEN ts[1] ELSE <<"Union", Deduped(ts)>>
\* Sorting brings the members of a family together, so one pass over
\* neighbours finishes the widening.
fallback(ts) ==
    LET Step(acc, t) ==
            IF acc = <<>> THEN <<t>>
            ELSE LET w == try_widen(Last(acc), t)
                 IN  IF IsOk(w) THEN Append(Front(acc), w[2]) ELSE Append(acc, t)
        reduced == FoldLeft(Step, <<>>, Deduped(SortSeq(ts, LAMBDA a, b : TypeCmp(a, b) < 0)))
    IN  IF Len(reduced) = 1 THEN reduced[1] ELSE <<"Union", reduced>>

collapse_union(types) ==
    LET leaves == into_leaves(types)
        \* The running type after each leaf; an error once two do not widen.
        acc[i \in 1..Len(leaves)] ==
            IF i = 1 THEN Ok(leaves[1])
            ELSE IF IsOk(acc[i - 1]) THEN try_widen(acc[i - 1][2], leaves[i])
            ELSE acc[i - 1]
        failed == {i \in 1..Len(leaves) : ~IsOk(acc[i])}
    IN  IF leaves = <<>> THEN <<"Union", <<>>>>
        ELSE IF failed = {} THEN acc[Len(leaves)][2]
        ELSE fallback(into_leaves(<<acc[Min(failed) - 1][2]>> \o SubSeq(leaves, Min(failed), Len(leaves))))

\* The type a value shows on its own, without the bounds its column declared.
RECURSIVE data_type(_)
data_type(v) ==
    CASE Tag(v) \in Sized -> <<Tag(v), NoSize>>
      [] Tag(v) = "Decimal" -> <<"Decimal", NoSize, NoSize>>
      [] Tag(v) = "Array" ->
            LET items == SelectSeq(v[2], LAMBDA x : Tag(x) # "Null")
            IN  <<"Array",
                  IF items = <<>> THEN NoElem
                  ELSE collapse_union([i \in 1..Len(items) |-> data_type(items[i])]),
                  Len(items) < Len(v[2])>>
      [] Tag(v) = "Custom" -> <<"Custom", v[2], IF v[2] = "questdb.geohash" THEN v[3][1] ELSE <<>>>>
      [] OTHER -> <<Tag(v)>>
=============================================================================
