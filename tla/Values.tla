------------------------------- MODULE Values -------------------------------
(* crates/types: the value that flows between every source and sink, its     *)
(* cross-numeric comparison, and Key, its hashable and ordered projection.   *)
(*                                                                           *)
(* A value is a tuple with its variant first: <<"Null">>, <<"Int8", n>>,     *)
(* <<"Text", chars>>, <<"Bytes", bytes>>, <<"Decimal", mantissa, scale>>,    *)
(* <<"Object", <<<<key, value>>, ...>>>>, <<"Array", <<v, ...>>>>,           *)
(* <<"Custom", kind, payload>>.  A character is its code point.  A float is  *)
(* an integer number of halves; NaN and the infinities are three codes.      *)
(* Widths are constants: TLC's integers are 32 bits wide, so an instance     *)
(* scales them and keeps their order (8 < 16 < 24 < 32 < 53 < 64 < 128).     *)
EXTENDS Integers, Sequences, FiniteSets, SequencesExt

CONSTANTS
    I8, I16, I32, I64, I128, I256,  \* bits of the integer types
    F32, F64,                       \* significant bits of the two floats
    FMax32, FMax64                  \* their largest finite magnitudes, in halves

ASSUME WidthOrder ==
    /\ {I8, I16, I32, I64, I128, I256, F32, F64, FMax32, FMax64} \subseteq Nat
    /\ 1 < I8 /\ I8 < I16 /\ I16 <= F32 /\ F32 < I32 /\ I32 <= F64
    /\ F64 < I64 /\ I64 < I128 /\ I128 < I256
    /\ 2 ^ (I256 + 1) < FMax32 /\ FMax32 < FMax64

SignedInts == {"Int8", "Int16", "Int32", "Int64"}
UnsignedInts == {"UInt8", "UInt16", "UInt32", "UInt64"}
IntTags == SignedInts \cup UnsignedInts
FloatTags == {"Float32", "Float64"}

IntBits(tag) ==
    CASE tag \in {"Int8", "UInt8"} -> I8
      [] tag \in {"Int16", "UInt16"} -> I16
      [] tag \in {"Int32", "UInt32"} -> I32
      [] tag \in {"Int64", "UInt64"} -> I64
IntMin(tag) == IF tag \in SignedInts THEN -(2 ^ (IntBits(tag) - 1)) ELSE 0
IntMax(tag) == 2 ^ (IF tag \in SignedInts THEN IntBits(tag) - 1 ELSE IntBits(tag)) - 1
InRange(tag, n) == IntMin(tag) <= n /\ n <= IntMax(tag)

Abs(n) == IF n < 0 THEN -n ELSE n
Sgn(n) == IF n < 0 THEN -1 ELSE 1
Clamp(n, lo, hi) == IF n < lo THEN lo ELSE IF n > hi THEN hi ELSE n
\* Division and remainder that truncate toward zero, as Rust's do.
Quot(a, b) == Sgn(a) * Sgn(b) * (Abs(a) \div Abs(b))
Rem(a, b) == a - b * Quot(a, b)

(***************************************************************************)
(* Floats.                                                                 *)
(***************************************************************************)
Inf == 1000000000
NaN == 1500000000
IsFinite(x) == Abs(x) < Inf

\* x rounded to the given number of significant bits, ties to even: the unit is
\* the weight of the last bit that is kept.
LastBit(bits, a) ==
    IF a < 2 ^ bits THEN 1
    ELSE 2 ^ (CHOOSE e \in 1..31 : 2 ^ (bits - 1) <= a \div 2 ^ e /\ a \div 2 ^ e < 2 ^ bits)
HalfEven(q, twice, unit) == IF twice > unit \/ (twice = unit /\ q % 2 = 1) THEN q + 1 ELSE q
RoundTo(unit, a) == unit * HalfEven(a \div unit, 2 * (a % unit), unit)
RoundSig(bits, x) == Sgn(x) * RoundTo(LastBit(bits, Abs(x)), Abs(x))

\* The float nearest to x halves; past the largest finite one it is infinite.
Overflowed(max, y) == IF Abs(y) > max THEN Sgn(y) * Inf ELSE y
ToFloat(bits, max, x) ==
    IF IsFinite(x) THEN Overflowed(max, RoundSig(bits, x)) ELSE x
ToF64(x) == ToFloat(F64, FMax64, x)
ToF32(x) == ToFloat(F32, FMax32, x)
\* `n as f64` of an integer.
IntToF64(n) == ToF64(2 * n)
\* The integer part of a finite float, toward zero.
Trunc(x) == Quot(x, 2)

(***************************************************************************)
(* Variants.                                                               *)
(***************************************************************************)
Null == <<"Null">>
Tag(v) == v[1]
IsInt(v) == Tag(v) \in IntTags
IsFloat(v) == Tag(v) \in FloatTags
Ok(v) == <<"ok", v>>
Err(why) == <<"err", why>>
IsOk(r) == r[1] = "ok"
Wrap(tag, r) == IF IsOk(r) THEN Ok(<<tag, r[2]>>) ELSE r

(***************************************************************************)
(* compare_values: -1, 0, 1, or NoOrder for None.                          *)
(***************************************************************************)
NoOrder == 2
Cmp(a, b) == IF a < b THEN -1 ELSE IF a = b THEN 0 ELSE 1
FloatCmp(a, b) == IF NaN \in {a, b} THEN NoOrder ELSE Cmp(a, b)
LexAt(s, t, D) == IF D = {} THEN Cmp(Len(s), Len(t)) ELSE Cmp(s[Min(D)], t[Min(D)])
LexCmp(s, t) == LexAt(s, t, {i \in 1..Min({Len(s), Len(t)}) : s[i] # t[i]})

Ipv4Mapped(octets) == <<0, 0, 0, 0, 0, 0, 0, 0, 0, 0, 255, 255>> \o octets

\* The promotions compare_values applies before it compares numbers.
Promoted(v) ==
    CASE Tag(v) \in IntTags \ {"UInt64"} -> <<"Int64", v[2]>>
      [] Tag(v) = "UInt64" -> <<"BigInt", v[2]>>
      [] Tag(v) = "Float32" -> <<"Float64", v[2]>>
      [] OTHER -> v

\* The ordering a custom type gives two of its own values; only the types that
\* may be a cursor define one.
CursorKinds == {"postgresql.inet", "mongodb.object_id"}
CustomCmp(a, b) ==
    IF a[2] = b[2] /\ a[2] \in CursorKinds THEN LexCmp(a[3], b[3])
    ELSE IF a = b THEN 0 ELSE NoOrder

RECURSIVE ValuesEqual(_, _)
WholeTags == {"Int64", "BigInt"}
AsFloat(v) == IF Tag(v) = "Float64" THEN v[2] ELSE IntToF64(v[2])
Octets(v) == IF Tag(v) = "Ipv4" THEN Ipv4Mapped(v[2]) ELSE v[2]
ComparePromoted(a, b, tags) ==
    CASE tags = {"Null"} -> 0
      [] tags \subseteq WholeTags \/ tags \in {{"Date"}, {"Timestamp"}, {"Interval"}} -> Cmp(a[2], b[2])
      [] tags \subseteq WholeTags \cup {"Float64"} /\ "Float64" \in tags -> FloatCmp(AsFloat(a), AsFloat(b))
      [] tags = {"Decimal"} -> Cmp(a[2] * 10 ^ b[3], b[2] * 10 ^ a[3])
      [] tags = {"Bool"} -> IF a[2] = b[2] THEN 0 ELSE IF b[2] THEN -1 ELSE 1
      [] tags \in {{"Text"}, {"Bytes"}, {"Uuid"}} \/ tags \subseteq {"Ipv4", "Ipv6"} -> LexCmp(Octets(a), Octets(b))
      [] tags = {"Json"} -> IF a = b THEN 0 ELSE NoOrder
      [] tags \in {{"Object"}, {"Array"}} -> IF ValuesEqual(a, b) THEN 0 ELSE NoOrder
      [] tags = {"Custom"} -> CustomCmp(a, b)
      [] OTHER -> NoOrder
CompareIn(a, b) == ComparePromoted(a, b, {Tag(a), Tag(b)})
compare_values(x, y) == CompareIn(Promoted(x), Promoted(y))

\* values_equal; containers compare their members in order.
ValuesEqual(a, b) ==
    IF Tag(a) = "Array" /\ Tag(b) = "Array"
    THEN Len(a[2]) = Len(b[2]) /\ \A i \in 1..Len(a[2]) : ValuesEqual(a[2][i], b[2][i])
    ELSE IF Tag(a) = "Object" /\ Tag(b) = "Object"
    THEN /\ Len(a[2]) = Len(b[2])
         /\ \A i \in 1..Len(a[2]) :
                a[2][i][1] = b[2][i][1] /\ ValuesEqual(a[2][i][2], b[2][i][2])
    ELSE compare_values(a, b) = 0
values_equal(a, b) == ValuesEqual(a, b)

(***************************************************************************)
(* Key: what switch dispatch, batch deduplication and cursors compare.     *)
(***************************************************************************)
canonicalise(v) ==
    CASE Tag(v) \in {"Null", "Json", "Object", "Array", "Interval"} -> Err("UnsupportedType")
      [] Tag(v) = "Custom" ->
            IF v[2] \in CursorKinds THEN Ok(v) ELSE Err("UnsupportedType")
      [] Tag(v) \in IntTags ->
            Ok(IF InRange("Int64", v[2]) THEN <<"Int64", v[2]>> ELSE <<"BigInt", v[2]>>)
      [] Tag(v) = "Float32" -> Ok(<<"Float64", v[2]>>)
      [] OTHER -> Ok(v)

\* Key::composite: every element must be accepted, and there must be one.
KeyOf(vs) ==
    LET c == [i \in 1..Len(vs) |-> canonicalise(vs[i])]
    IN  IF vs = <<>> \/ \E i \in 1..Len(vs) : ~IsOk(c[i]) THEN Err("UnsupportedType")
        ELSE Ok([i \in 1..Len(vs) |-> c[i][2]])

\* A decimal without its trailing zeros.
RECURSIVE Normalized(_, _)
Normalized(m, s) ==
    IF m = 0 THEN <<0, 0>> ELSE IF m % 10 = 0 THEN Normalized(Quot(m, 10), s - 1) ELSE <<m, s>>

\* What hash_element feeds the hasher: numbers by their float, so that numbers
\* that compare equal across variants share a bucket.
hash_element(v) ==
    CASE Tag(v) \in {"Int64", "BigInt"} -> <<0, IntToF64(v[2])>>
      [] Tag(v) = "Float64" -> <<0, v[2]>>
      [] Tag(v) = "Bool" -> <<1, v[2]>>
      [] Tag(v) = "Text" -> <<3, v[2]>>
      [] Tag(v) = "Bytes" -> <<4, v[2]>>
      [] Tag(v) = "Date" -> <<5, v[2]>>
      [] Tag(v) = "Timestamp" -> <<6, v[2]>>
      [] Tag(v) = "Uuid" -> <<7, v[2]>>
      [] Tag(v) = "Decimal" -> <<8, Normalized(v[2], v[3])>>
      [] Tag(v) = "Ipv4" -> <<9, Ipv4Mapped(v[2])>>
      [] Tag(v) = "Ipv6" -> <<9, v[2]>>
      [] Tag(v) = "Custom" -> <<11, v[2], v[3]>>
KeyHash(k) == <<Len(k), [i \in 1..Len(k) |-> hash_element(k[i])]>>

type_order(v) ==
    CASE Tag(v) = "Bool" -> 0
      [] Tag(v) \in {"Int64", "BigInt"} -> 1
      [] Tag(v) = "Float64" -> 2
      [] Tag(v) = "Decimal" -> 3
      [] Tag(v) = "Text" -> 4
      [] Tag(v) = "Bytes" -> 5
      [] Tag(v) = "Date" -> 6
      [] Tag(v) = "Timestamp" -> 7
      [] Tag(v) = "Uuid" -> 8
      [] Tag(v) \in {"Ipv4", "Ipv6"} -> 9
      [] Tag(v) = "Custom" -> 10

\* NaN equals itself and follows every other float; variants that do not
\* compare are ordered by type_order.
OrderOr(o, otherwise) == IF o # NoOrder THEN o ELSE otherwise
cmp_element(a, b) ==
    OrderOr(compare_values(a, b),
            IF Tag(a) = "Float64" /\ Tag(b) = "Float64"
            THEN Cmp(IF a[2] = NaN THEN 1 ELSE 0, IF b[2] = NaN THEN 1 ELSE 0)
            ELSE Cmp(type_order(a), type_order(b)))

eq_element(a, b) ==
    OrderOr(compare_values(a, b),
            IF Tag(a) = "Float64" /\ Tag(b) = "Float64" /\ a[2] = NaN /\ b[2] = NaN THEN 0 ELSE NoOrder) = 0

FirstOrder(orders, otherwise) ==
    IF \E i \in DOMAIN orders : orders[i] # 0 THEN orders[Min({i \in DOMAIN orders : orders[i] # 0})] ELSE otherwise
KeyEq(k, l) == Len(k) = Len(l) /\ \A i \in 1..Len(k) : eq_element(k[i], l[i])
KeyCmp(k, l) ==
    LET orders == [i \in 1..Min({Len(k), Len(l)}) |-> cmp_element(k[i], l[i])]
    IN  FirstOrder(orders, Cmp(Len(k), Len(l)))

-----------------------------------------------------------------------------
(* crates/types, json_encode.rs and convert/{to_text,uuid,ip,utils,xml}.rs:  *)
(* the JSON and the text of a value, and the texts that parse back.          *)
(* A JSON document is <<"null">>, <<"bool", b>>, <<"num", n>>,               *)
(* <<"flt", halves>>, <<"str", chars>>, <<"arr", docs>> or                   *)
(* <<"obj", <<<<key, doc>>, ...>>>>.                                         *)

CONSTANTS
    MaxJsonDepth,  \* MAX_JSON_DEPTH, scaled
    MilliTicks,    \* ticks of a timestamp per millisecond
    DayTicks       \* ticks per day

AllOk(rs) == \A i \in 1..Len(rs) : IsOk(rs[i])
FirstErr(rs) == rs[Min({i \in 1..Len(rs) : ~IsOk(rs[i])})]
Payloads(rs) == [i \in 1..Len(rs) |-> rs[i][2]]
Collect(rs) == IF AllOk(rs) THEN Ok(Payloads(rs)) ELSE FirstErr(rs)

RECURSIVE Digits(_)
Digits(n) == IF n < 10 THEN <<48 + n>> ELSE Append(Digits(n \div 10), 48 + (n % 10))
IntText(n) == IF n < 0 THEN <<45>> \o Digits(-n) ELSE Digits(n)
BoolText(b) == IF b THEN <<116, 114, 117, 101>> ELSE <<102, 97, 108, 115, 101>>
FloatText(x) ==
    CASE x = NaN -> <<78, 97, 78>>
      [] x = Inf -> <<105, 110, 102>>
      [] x = -Inf -> <<45, 105, 110, 102>>
      [] OTHER -> (IF x < 0 THEN <<45>> ELSE <<>>) \o Digits(Abs(x) \div 2)
                  \o (IF Abs(x) % 2 = 1 THEN <<46, 53>> ELSE <<>>)
DecimalText(m, s) ==
    (IF m < 0 THEN <<45>> ELSE <<>>) \o Digits(Abs(m) \div 10 ^ s)
    \o (IF s = 0 THEN <<>> ELSE <<46>> \o Tail(Digits(10 ^ s + (Abs(m) % 10 ^ s))))
\* chrono's texts of a day and of an instant.
DateText(d) == <<100>> \o IntText(d)
InstantText(t) == <<116>> \o IntText(t)

HexDigit(n) == IF n < 10 THEN 48 + n ELSE 87 + n
bytes_to_hex(b) ==
    [i \in 1..2 * Len(b) |->
        HexDigit(IF i % 2 = 1 THEN b[(i + 1) \div 2] \div 16 ELSE b[i \div 2] % 16)]
IsHex(c) == c \in 48..57 \/ c \in 97..102 \/ c \in 65..70
Nibble(c) == IF c <= 57 THEN c - 48 ELSE IF c <= 70 THEN c - 55 ELSE c - 87
FromHex(h) == [i \in 1..Len(h) \div 2 |-> 16 * Nibble(h[2 * i - 1]) + Nibble(h[2 * i])]
\* The base64 of bytes: some other injective text.
Base64(b) == <<98>> \o bytes_to_hex(b)

IsSpace(c) == c \in {9, 10, 13, 32}
Trim(s) ==
    LET K == {i \in 1..Len(s) : ~IsSpace(s[i])}
    IN  IF K = {} THEN <<>> ELSE SubSeq(s, Min(K), Max(K))

(***************************************************************************)
(* Uuid and addresses.                                                     *)
(***************************************************************************)
UuidText(b) ==
    LET h == bytes_to_hex(b)
    IN  SubSeq(h, 1, 8) \o <<45>> \o SubSeq(h, 9, 12) \o <<45>> \o SubSeq(h, 13, 16)
        \o <<45>> \o SubSeq(h, 17, 20) \o <<45>> \o SubSeq(h, 21, 32)

\* Spaces around, one pair of braces and any dashes are accepted; what is left
\* must be 32 hex digits in at most 36 characters.
parse_uuid(text) ==
    LET t == Trim(text)
        s == IF Len(t) >= 2 /\ t[1] = 123 /\ t[Len(t)] = 125 THEN SubSeq(t, 2, Len(t) - 1) ELSE t
        h == SelectSeq(s, LAMBDA c : c # 45)
    IN  IF Len(s) > 36 THEN Err("InvalidUuid")
        ELSE IF \E i \in 1..Len(h) : ~IsHex(h[i]) THEN Err("InvalidHex")
        ELSE IF Len(h) # 32 THEN Err("InvalidUuid")
        ELSE Ok(<<"Uuid", FromHex(h)>>)
uuid_from_bytes(b) == IF Len(b) = 16 THEN Ok(<<"Uuid", b>>) ELSE Err("Length")

Ipv4Text(a) ==
    Digits(a[1]) \o <<46>> \o Digits(a[2]) \o <<46>> \o Digits(a[3]) \o <<46>> \o Digits(a[4])
\* The text of an IPv6 address: eight groups of four hex digits, or "::" for
\* the unspecified address.
Ipv6Text(a) ==
    IF \A i \in 1..16 : a[i] = 0 THEN <<58, 58>>
    ELSE LET h == bytes_to_hex(a)
         IN  [i \in 1..39 |-> IF i % 5 = 0 THEN 58 ELSE h[i - i \div 5]]
\* Parsing inverts the text: dotted bytes, or groups of hex digits.
parse_v4(text) ==
    LET t == Trim(text)
        cut == {0, Len(t) + 1} \cup {i \in 1..Len(t) : t[i] = 46}
        Next1(i) == Min({j \in cut : j > i})
        fields == [i \in cut \ {Len(t) + 1} |-> SubSeq(t, i + 1, Next1(i) - 1)]
        octets == {<<i, o>> \in (DOMAIN fields) \X (0..255) : fields[i] = Digits(o)}
        order == SetToSortSeq(octets, LAMBDA x, y : x[1] < y[1])
    IN  IF Cardinality(cut) = 5 /\ Len(order) = 4
        THEN Ok(<<"Ipv4", [i \in 1..4 |-> order[i][2]]>>)
        ELSE Err("InvalidIp")
parse_v6(text) ==
    LET t == Trim(text)
        h == SelectSeq(t, LAMBDA c : c # 58)
    IN  IF t = <<58, 58>> THEN Ok(<<"Ipv6", [i \in 1..16 |-> 0]>>)
        ELSE IF Len(h) = 32 /\ (\A i \in 1..32 : IsHex(h[i])) /\ t = Ipv6Text(FromHex(h))
        THEN Ok(<<"Ipv6", FromHex(h)>>)
        ELSE Err("InvalidIp")
v6_to_v4_if_mapped(a) ==
    IF SubSeq(a, 1, 12) = Ipv4Mapped(<<>>) THEN Ok(<<"Ipv4", SubSeq(a, 13, 16)>>)
    ELSE Err("IpV6NotMappable")
ip_from_bytes(tag, b) ==
    IF Len(b) = (IF tag = "Ipv4" THEN 4 ELSE 16) THEN Ok(<<tag, b>>) ELSE Err("Length")

Lower(s) == [i \in 1..Len(s) |-> IF s[i] \in 65..90 THEN s[i] + 32 ELSE s[i]]
\* y t 1 true yes / n f 0 false no, in any case.
parse_bool(s) ==
    LET w == Lower(s)
    IN  IF w \in {<<121>>, <<116>>, <<49>>, BoolText(TRUE), <<121, 101, 115>>} THEN <<TRUE>>
        ELSE IF w \in {<<110>>, <<102>>, <<48>>, BoolText(FALSE), <<110, 111>>} THEN <<FALSE>>
        ELSE <<>>

\* A document is a run of tags: 60 opens an element, 62 closes one, 47 is an
\* element that is empty; anything else is character data.
xml_validate(s) ==
    LET depth[i \in 0..Len(s)] ==
            IF i = 0 THEN 0
            ELSE depth[i - 1] + (IF s[i] = 60 THEN 1 ELSE IF s[i] = 62 THEN -1 ELSE 0)
        roots == {i \in 1..Len(s) : s[i] \in {60, 47} /\ depth[i - 1] = 0}
    IN  /\ \A i \in 1..Len(s) : depth[i] >= 0
        /\ depth[Len(s)] = 0
        /\ Cardinality(roots) = 1

(***************************************************************************)
(* value_to_json.                                                          *)
(***************************************************************************)
Str(s) == <<"str", s>>
float_to_json(x) == IF IsFinite(x) THEN <<"flt", x>> ELSE <<"null">>
\* A JSON document inside a value still counts its own depth.
RECURSIVE JsonDepth(_)
JsonDepth(j) ==
    IF j[1] \in {"arr", "obj"} /\ j[2] # <<>>
    THEN 1 + Max({JsonDepth(IF j[1] = "arr" THEN j[2][i] ELSE j[2][i][2]) : i \in 1..Len(j[2])})
    ELSE 0

\* The members of a container, and the document made of theirs.
Parts(v) ==
    CASE Tag(v) = "Array" -> v[2]
      [] Tag(v) = "Object" -> [i \in 1..Len(v[2]) |-> v[2][i][2]]
      [] Tag(v) = "Custom" -> IF v[2] = "clickhouse.map" THEN FlattenSeq(v[3]) ELSE v[3]
Composed(v, docs) ==
    CASE Tag(v) = "Object" -> <<"obj", [i \in 1..Len(docs) |-> <<v[2][i][1], docs[i]>>]>>
      [] Tag(v) = "Custom" /\ v[2] = "clickhouse.map" ->
            <<"arr", [i \in 1..Len(v[3]) |-> <<"arr", <<docs[2 * i - 1], docs[2 * i]>>>>]>>
      [] OTHER -> <<"arr", docs>>
ComposedOf(v, r) == IF IsOk(r) THEN Ok(Composed(v, r[2])) ELSE r
JsonKinds == {"clickhouse.array", "clickhouse.tuple", "clickhouse.map"}

\* to_json of the custom types that have no members.
CustomToJson(kind, p) ==
    CASE kind \in {"mongodb.javascript", "questdb.symbol"} -> Ok(Str(p))
      [] kind = "mongodb.object_id" -> Ok(Str(bytes_to_hex(p)))
      [] kind = "mongodb.bson_object" -> Ok(p)
      [] kind = "postgresql.inet" ->
            Ok(Str((IF p[1] = 4 THEN Ipv4Text(SubSeq(p, 2, 5)) ELSE Ipv6Text(SubSeq(p, 2, 17)))
                   \o <<47>> \o Digits(p[Len(p)])))
      [] kind \in {"postgresql.hll", "clickhouse.fixed_string"} -> Ok(Str(Base64(p)))
      [] kind = "questdb.long256" -> Ok(Str(<<48, 120>> \o bytes_to_hex(Reverse(p))))
      [] kind = "questdb.geohash" -> Ok(Str(<<103>> \o IntText(p[1]) \o <<46>> \o IntText(p[2])))
      [] kind \in {"clickhouse.enum8", "clickhouse.enum16"} -> Ok(Str(p[1]))
      [] kind \in {"clickhouse.int128", "clickhouse.uint128", "clickhouse.int256",
                   "clickhouse.uint256"} -> Ok(Str(IntText(p)))
      [] kind = "clickhouse.aggregate" -> Ok(Str(Base64(p)))

\* The members of a custom value start again at depth 0.
RECURSIVE encode_value_at_depth(_, _)
encode_value_at_depth(v, depth) ==
    IF depth > MaxJsonDepth THEN Err("DepthExceeded")
    ELSE CASE Tag(v) = "Null" -> Ok(<<"null">>)
           [] Tag(v) = "Bool" -> Ok(<<"bool", v[2]>>)
           [] Tag(v) = "UInt64" /\ v[2] >= 2 ^ F64 -> Ok(Str(IntText(v[2])))
           [] Tag(v) \in IntTags -> Ok(<<"num", v[2]>>)
           [] Tag(v) \in FloatTags -> Ok(float_to_json(v[2]))
           [] Tag(v) = "BigInt" -> Ok(Str(IntText(v[2])))
           [] Tag(v) = "Decimal" -> Ok(Str(DecimalText(v[2], v[3])))
           [] Tag(v) = "Text" -> Ok(Str(v[2]))
           [] Tag(v) = "Bytes" -> Ok(Str(bytes_to_hex(v[2])))
           [] Tag(v) = "Date" -> Ok(Str(DateText(v[2])))
           [] Tag(v) = "Timestamp" ->
                 Ok(Str(InstantText((v[2] \div MilliTicks) * MilliTicks)))
           [] Tag(v) = "Uuid" -> Ok(Str(UuidText(v[2])))
           [] Tag(v) = "Ipv4" -> Ok(Str(Ipv4Text(v[2])))
           [] Tag(v) = "Ipv6" -> Ok(Str(Ipv6Text(v[2])))
           [] Tag(v) = "Json" ->
                 IF depth + 1 + JsonDepth(v[2]) > MaxJsonDepth THEN Err("DepthExceeded") ELSE Ok(v[2])
           [] Tag(v) \in {"Array", "Object"} \/ (Tag(v) = "Custom" /\ v[2] \in JsonKinds) ->
                 LET inner == IF Tag(v) = "Custom" THEN 0 ELSE depth + 1
                 IN  ComposedOf(v, Collect([i \in 1..Len(Parts(v)) |->
                                              encode_value_at_depth(Parts(v)[i], inner)]))
           [] Tag(v) = "Custom" /\ v[2] \notin JsonKinds -> CustomToJson(v[2], v[3])
           [] Tag(v) = "Interval" -> Err("Variant")
value_to_json(v) == encode_value_at_depth(v, 0)
\* What value_to_string and the cursor codec use: an encoding error is null.
OrNull(r) == IF IsOk(r) THEN r[2] ELSE <<"null">>
JsonOrNull(v) == OrNull(value_to_json(v))

(***************************************************************************)
(* value_to_string.                                                        *)
(***************************************************************************)
Joined(ss) == IF ss = <<>> THEN <<>> ELSE FoldLeft(LAMBDA x, y : x \o <<44>> \o y, ss[1], Tail(ss))
RECURSIVE JsonText(_)
JsonText(j) ==
    CASE j[1] = "null" -> <<110, 117, 108, 108>>
      [] j[1] = "bool" -> BoolText(j[2])
      [] j[1] = "num" -> IntText(j[2])
      [] j[1] = "flt" -> FloatText(j[2])
      [] j[1] = "str" -> <<34>> \o j[2] \o <<34>>
      [] j[1] = "arr" -> <<91>> \o Joined([i \in 1..Len(j[2]) |-> JsonText(j[2][i])]) \o <<93>>
      [] j[1] = "obj" ->
            <<123>> \o Joined([i \in 1..Len(j[2]) |->
                                <<34>> \o j[2][i][1] \o <<34, 58>> \o JsonText(j[2][i][2])])
            \o <<125>>

\* A custom value reads as its JSON, a JSON string as its content.
DocumentText(r) == IF ~IsOk(r) THEN <<63>> ELSE IF r[2][1] = "str" THEN r[2][2] ELSE JsonText(r[2])
custom_to_string(v) == DocumentText(value_to_json(v))

value_to_string(v) ==
    CASE Tag(v) = "Null" -> <<>>
      [] Tag(v) = "Bool" -> BoolText(v[2])
      [] Tag(v) \in IntTags \cup {"BigInt"} -> IntText(v[2])
      [] Tag(v) \in FloatTags -> FloatText(v[2])
      [] Tag(v) = "Text" -> v[2]
      [] Tag(v) = "Decimal" -> DecimalText(v[2], v[3])
      [] Tag(v) = "Uuid" -> UuidText(v[2])
      [] Tag(v) = "Date" -> DateText(v[2])
      [] Tag(v) \in {"Timestamp", "Interval"} -> InstantText(v[2])
      [] Tag(v) = "Bytes" -> bytes_to_hex(v[2])
      [] Tag(v) = "Ipv4" -> Ipv4Text(v[2])
      [] Tag(v) = "Ipv6" -> Ipv6Text(v[2])
      [] Tag(v) = "Json" -> JsonText(v[2])
      [] Tag(v) = "Custom" -> custom_to_string(v)
      [] Tag(v) = "Object" ->
            JsonText(<<"obj", [i \in 1..Len(v[2]) |-> <<v[2][i][1], JsonOrNull(v[2][i][2])>>]>>)
      [] Tag(v) = "Array" -> JsonText(<<"arr", [i \in 1..Len(v[2]) |-> JsonOrNull(v[2][i])]>>)

truncate_to_chars(s, n) == SubSeq(s, 1, Min({n, Len(s)}))
NoSize == -1
CutTo(s, size) == IF size = NoSize THEN s ELSE truncate_to_chars(s, size)
\* to_text::convert.
ToText(v, size) ==
    <<"Text", CutTo(value_to_string(v), size)>>
=============================================================================
