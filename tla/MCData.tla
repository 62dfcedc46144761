------------------------------- MODULE MCData -------------------------------
(***************************************************************************)
(* Values for TLC: columns and their conversion, keys, cursors and merged  *)
(* types, and every registered function.  Widths are scaled to 4, 5, 7,    *)
(* 10, 11 and 12 bits.  A behaviour follows one column, key batch, cursor, *)
(* sample or call site.                                                    *)
(***************************************************************************)
EXTENDS TypeSystem, FuncCalls

dataVars == <<tvars, callVars>>

(***************************************************************************)
(* At least one type of every variant, and values at the ends of every     *)
(* range.                                                                  *)
(***************************************************************************)

Custom0(kind) == <<"Custom", kind, <<>>>>
A16 == [i \in 1..16 |-> i]
Mapped == Ipv4Mapped(<<10, 0, 0, 1>>)
ObjectIdBytes == <<0, 0, 1, 0, 1, 2, 3, 4, 5, 6, 7, 8>>

Scalars ==
    {<<t>> : t \in IntTags \cup FloatTags \cup
        {"Bool", "Date", "Timestamp", "Uuid", "Ipv4", "Ipv6", "Json", "Xml"}}
    \cup {<<"BigInt", NoSize>>, <<"BigInt", 2>>,
          <<"Decimal", NoSize, NoSize>>, <<"Decimal", 2, 1>>, <<"Decimal", 4, 1>>,
          <<"Text", NoSize>>, <<"Text", 2>>, <<"Text", 36>>,
          <<"Bytes", NoSize>>, <<"Bytes", 3>>, <<"Bytes", 16>>}
Containers ==
    {<<"Object">>, <<"Array", <<"Int16">>, TRUE>>, <<"Array", <<"Int8">>, FALSE>>,
     <<"Array", NoElem, TRUE>>}
Customs ==
    {Custom0(k) : k \in {"postgresql.inet", "mongodb.object_id", "mongodb.javascript",
        "mongodb.bson_object", "questdb.symbol", "clickhouse.int128", "clickhouse.uint256"}}
    \cup {<<"Custom", "clickhouse.enum8", <<<<<<97>>, 1>>>>>>, <<"Custom", "clickhouse.fixed_string", 3>>,
          <<"Custom", "clickhouse.array", <<<<"Int8">>, TRUE>>>>, <<"Custom", "clickhouse.tuple", <<<<<<"Int8">>, FALSE>>>>>>,
          <<"Custom", "clickhouse.map", <<<<<<"Text", NoSize>>, FALSE>>, <<<<"Int8">>, TRUE>>>>>>, <<"Custom", "questdb.geohash", 5>>}
Unions == {<<"Union", <<<<"Int8">>, <<"Int64">>>>>>, <<"Union", <<<<"Float64">>, <<"Text", NoSize>>>>>>}
MCSourceTypes == Scalars \cup Containers \cup Customs \cup Unions
MCSinkTypes == Scalars \cup Containers \cup Customs

Doc == <<"obj", <<<<<<97>>, <<"num", 1>>>>>>>>
MCSamples(t) ==
    CASE t[1] \in IntTags ->
            {<<t[1], n>> : n \in {m \in {IntMin(t[1]), -1, 0, 1, IntMax(t[1])} : InRange(t[1], m)}}
      [] t[1] \in FloatTags -> {<<t[1], x>> : x \in {-FMax32, -3, 0, 1, 2, 63, FMax32, Inf, NaN}}
      [] t[1] = "Bool" -> {<<"Bool", b>> : b \in BOOLEAN}
      [] t[1] = "BigInt" -> {<<"BigInt", n>> : n \in IF t[2] = NoSize THEN {-4096, 0, 7, 300, 4096} ELSE {-99, 1, 99}}
      [] t = <<"Decimal", NoSize, NoSize>> ->
            {<<"Decimal", m, s>> : m \in {-2050, 0, 15, 1000}, s \in {0, 2}}
      [] t[1] = "Decimal" -> {<<"Decimal", m, 1>> : m \in IF t[2] = 2 THEN {-95, 0, 45} ELSE {-9995, 15, 9990}}
      [] t[1] = "Text" ->
            {<<"Text", s>> : s \in {u \in {<<>>, <<49>>, <<120, 121, 122>>, BoolText(TRUE), UuidText(A16),
                                           Ipv4Text(<<10, 0, 0, 1>>)} : t[2] = NoSize \/ Len(u) <= t[2]}}
      [] t[1] = "Bytes" ->
            {<<"Bytes", s>> : s \in {u \in {<<>>, <<1, 2>>, <<10, 0, 0, 1>>, ObjectIdBytes, A16} :
                                     t[2] = NoSize \/ Len(u) <= t[2]}}
      [] t[1] = "Date" -> {<<"Date", d>> : d \in {-1, 0, 3}}
      [] t[1] = "Timestamp" -> {<<"Timestamp", d>> : d \in {-1, 0, 1, 49}}
      [] t[1] = "Uuid" -> {<<"Uuid", A16>>, <<"Uuid", [i \in 1..16 |-> 0]>>}
      [] t[1] = "Ipv4" -> {<<"Ipv4", <<10, 0, 0, 1>>>>, <<"Ipv4", <<0, 0, 0, 0>>>>}
      [] t[1] = "Ipv6" -> {<<"Ipv6", a>> : a \in {Mapped, A16, [i \in 1..16 |-> 0]}}
      [] t[1] = "Json" -> {<<"Json", j>> : j \in {<<"null">>, <<"num", 1>>, Doc, <<"arr", <<<<"num", 3>>>>>>}}
      [] t[1] = "Xml" -> {<<"Text", s>> : s \in {<<47>>, <<60, 120, 62>>}}
      [] t[1] = "Object" -> {<<"Object", <<<<<<97>>, v>>>>>> : v \in {Null, <<"Int8", 1>>, <<"Text", <<98>>>>}}
      [] t[1] = "Array" ->
            LET e == IF t[2] = NoElem THEN "Int8" ELSE t[2][1]
            IN  {<<"Array", s>> : s \in {<<>>, <<<<e, 1>>>>, <<<<e, IntMax(e)>>, <<e, -1>>>>}
                                         \cup (IF t[3] THEN {<<<<e, 7>>, Null>>} ELSE {})}
      [] t[1] = "Union" -> UNION {CASE t[2][i][1] = "Int8" -> {<<"Int8", -8>>, <<"Int8", 7>>}
                                    [] t[2][i][1] = "Int64" -> {<<"Int64", 511>>}
                                    [] t[2][i][1] = "Float64" -> {<<"Float64", 3>>}
                                    [] OTHER -> {<<"Text", <<49>>>>} : i \in 1..Len(t[2])}
      [] t[1] = "Custom" ->
            {<<"Custom", t[2], p>> : p \in
                CASE t[2] = "postgresql.inet" -> {<<4, 10, 0, 0, 1, 24>>, <<6>> \o A16 \o <<64>>}
                  [] t[2] = "mongodb.object_id" -> {ObjectIdBytes, [ObjectIdBytes EXCEPT ![12] = 9]}
                  [] t[2] \in {"mongodb.javascript", "questdb.symbol"} -> {<<97>>, <<120, 121, 122>>}
                  [] t[2] = "mongodb.bson_object" -> {Doc}
                  [] t[2] \in WideKinds -> {0, 1023}
                  [] t[2] = "clickhouse.enum8" -> {<<<<97>>, 1>>}
                  [] t[2] = "clickhouse.fixed_string" -> {<<1, 2, 3>>}
                  [] t[2] = "clickhouse.array" -> {<<>>, <<<<"Int8", 3>>>>}
                  [] t[2] = "clickhouse.tuple" -> {<<<<"Int8", 3>>>>}
                  [] t[2] = "clickhouse.map" -> {<<<<<<"Text", <<97>>>>, <<"Int8", 3>>>>>>}
                  [] t[2] = "questdb.geohash" -> {<<5, 9>>}}
MCSamplesOrNull(t) == MCSamples(t) \cup {Null}

\* Of the integers 256 and 257, and of 1022 and 1023, a float of 8 bits equals one
\* (256.0) or none (1024.0).
MCKeyValues ==
    {<<"Int8", 1>>, <<"Int64", -512>>, <<"Int64", 256>>, <<"Int64", 257>>, <<"Float64", 512>>,
     <<"BigInt", 1022>>, <<"UInt64", 1023>>, <<"Float64", 2048>>, <<"UInt8", 1>>, <<"BigInt", 1>>,
     <<"Float32", 2>>, <<"Float64", 2>>, <<"Float64", 3>>, <<"Float64", NaN>>, <<"Float32", NaN>>,
     <<"Float64", Inf>>, <<"Decimal", 10, 1>>, <<"Decimal", 1, 0>>, <<"Decimal", 100, 2>>,
     <<"Bool", TRUE>>, <<"Bool", FALSE>>, <<"Text", <<49>>>>, <<"Bytes", <<49>>>>, <<"Date", 1>>,
     <<"Timestamp", 1>>, <<"Uuid", A16>>, <<"Ipv4", <<10, 0, 0, 1>>>>, <<"Ipv6", Mapped>>, <<"Ipv6", A16>>,
     <<"Custom", "mongodb.object_id", ObjectIdBytes>>, <<"Json", <<"null">>>>, Null}
MCObservedTypes ==
    {<<"Int8">>, <<"Int32">>, <<"UInt16">>, <<"UInt8">>, <<"Float32">>, <<"Float64">>, <<"Text", 2>>,
     <<"Text", NoSize>>, <<"Bytes", 3>>, <<"Bytes", 16>>, <<"Bool">>, <<"Decimal", 2, 1>>, <<"Decimal", 4, 1>>,
     <<"BigInt", 2>>, <<"Array", <<"Int8">>, FALSE>>, <<"Array", <<"Int8">>, TRUE>>, Custom0("mongodb.object_id"),
     <<"Union", <<<<"Int16">>, <<"Text", 36>>>>>>}

(***************************************************************************)
(* Every registered builtin, on arguments at the ends of their ranges.     *)
(***************************************************************************)
MCFunctions ==
    {"add", "subtract", "multiply", "divide", "modulo", "negate", "abs", "ceil", "floor", 
     "round", "min", "max", "sign", "power", "sqrt", "len", "element", "arrayGet", "slice", 
     "split", "join", "isEmpty", "filterNotNull", "bitAnd", "bitOr", "bitXor", "bitNot", 
     "bitShiftLeft", "bitShiftRight", "bitCount", "byteLength", "byteAt", "bytesFromHex", 
     "bytesFromBase64", "bytesFromUtf8", "hex", "base64", "base64Url", "bytesEqual", 
     "urlEncode", "urlDecode", "toStringCast", "toInt8", "toInt16", "toInt32", "toInt64", 
     "toUInt8", "toUInt16", "toUInt32", "toUInt64", "toFloat32", "toFloat64", "toBool", 
     "toDate", "toTimestamp", "toUuid", "toBigInt", "toDecimal", "equals", "notEquals", 
     "greater", "less", "greaterOrEquals", "lessOrEquals", "isNull", "isNotNull", "md5", 
     "sha1", "sha256", "sha512", "xxHash64", "xxHash32", "hmac", "cityHash64", "sipHash64", 
     "fnv1a64", "now", "today", "second", "minute", "hour", "day", "month", "year", 
     "millisecond", "dayOfWeek", "dayOfYear", "toSeconds", "toMillis", "fromSeconds", 
     "fromMillis", "addDays", "addHours", "addMinutes", "addSeconds", "addMilliseconds", 
     "subtractDays", "subtractHours", "subtractMinutes", "subtractSeconds", 
     "subtractMilliseconds", "addMonths", "subtractMonths", "addYears", "subtractYears", 
     "dateDiff", "formatDateTime", "encode", "decode", "encodeText", "decodeText", "env", 
     "env2", "file", "parseJson", "toJson", "jsPath", "jsPathString", "jsPathInt", 
     "jsPathFloat", "jsPathBool", "not", "sin", "cos", "tan", "asin", "acos", "atan", "atan2", 
     "log", "log2", "log10", "exp", "cbrt", "pi", "e", "phi", "tau", "erf", "erfc", "gamma", 
     "lnGamma", "beta", "lambertW", "sinh", "cosh", "tanh", "asinh", "acosh", "atanh", 
     "isNaN", "isInfinite", "clamp", "typeof", "objectKeys", "objectValues", "objectHasKey", 
     "objectGet", "randomUuid", "randomInt", "randomFloat", "randomAlphanumeric", "randomHex", 
     "randomBytes", "randomChoice", "regexMatch", "regexReplace", "concat", "charAt", "upper", 
     "lower", "trim", "replace", "startsWith", "endsWith", "contains", "indexOf", "format", 
     "toString", "reverse", "repeat", "leftPad", "rightPad"}
Arg(v, nullable) == [net |-> Net(data_type(v), nullable), v |-> v]
NullArg(t) == [net |-> Net(t, TRUE), v |-> Null]
Text(s) == <<"Text", s>>
Core ==
    {Arg(v, FALSE) : v \in
        {<<"Int64", IntMin("Int64")>>, <<"Int64", 0>>, <<"Int64", 2>>, <<"Float64", 3>>, <<"Decimal", 15, 1>>,
         Text(<<97>>), <<"Bytes", <<97, 98>>>>, <<"Timestamp", 49>>,
         <<"Array", <<<<"Int64", 1>>, <<"Int64", 2>>>>>>, <<"Object", <<<<<<97>>, <<"Int64", 1>>>>>>>>,
         <<"Json", Doc>>}}
    \cup {NullArg(TText), NullArg(TInt64)}
Wide ==
    Core \cup
    {Arg(v, FALSE) : v \in
        {<<"Int8", IntMin("Int8")>>, <<"UInt64", IntMax("UInt64")>>, <<"Int64", 6>>, <<"BigInt", 300>>, <<"Float64", NaN>>,
         <<"Float64", -7>>, <<"Float64", FMax64>>, <<"Float32", 1>>, <<"Bool", TRUE>>, Text(<<>>), Text(<<32, 49>>), Text(<<54, 49>>),
         Text(<<98, 54, 49>>), Text(<<255, 37>>), <<"Date", 3>>, <<"Date", -100>>,
         <<"Timestamp", -MaxInstant>>, <<"Uuid", A16>>, <<"Ipv4", <<10, 0, 0, 1>>>>, <<"Array", <<<<"Int64", 1>>, Null>>>>, <<"Json", <<"num", 1>>>>}}
Few ==
    {Arg(<<"Int64", 0>>, FALSE), Arg(<<"Int64", 2>>, FALSE), Arg(Text(<<97>>), FALSE), Arg(Text(<<50>>), FALSE),
     Arg(<<"Timestamp", 49>>, FALSE), Arg(<<"Array", <<<<"Int64", 2>>>>>>, FALSE), NullArg(TInt64)}
Labels == {Arg(Text(s), FALSE) : s \in {<<104>>, <<49>>, <<36>>, <<40>>, <<37>>}}
MCArgs == (0 :> {}) @@ (1 :> Wide) @@ (2 :> Core \cup Labels) @@ (3 :> Few)
Validating ==
    {"bytesFromHex", "bytesFromBase64", "encode", "decode", "encodeText", "decodeText", "bitShiftLeft",
     "bitShiftRight", "regexMatch", "regexReplace", "hmac", "formatDateTime"} \cup JsPathNames \cup DOMAIN SeedPosition
MCLits(f, n) == IF f \in Validating THEN SUBSET (1..n) ELSE {1..n}
MCCastChars == [float |-> 5, date |-> 4, instant |-> 4]
MCMonthDays == <<3, 2, 3>>
MCEnv == <<97>> :> <<120>>
MCFiles == <<97>> :> <<121>>

(***************************************************************************)
(* One part at a time.                                                     *)
(***************************************************************************)
NoSite == [f |-> "now", n |-> 0, args |-> <<>>, lits |-> {}]
NoTypes ==
    /\ part = "call" /\ col = NoCol /\ verdict = "unchecked"
    /\ cells = <<>> /\ keys = <<>> /\ cursor = <<>>
    /\ merged = [types |-> <<>>, union |-> <<"Union", <<>>>>]

DataInit ==
    \/ TypesInit /\ site = NoSite /\ answers = <<>>
    \/ CallInit /\ NoTypes

DataNext ==
    \/ part # "call" /\ TypesNext /\ UNCHANGED callVars
    \/ part = "call" /\ CallNext /\ UNCHANGED tvars

DataSpec == DataInit /\ [][DataNext]_dataVars
=============================================================================
