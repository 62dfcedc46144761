----------------------------- MODULE FuncsData ------------------------------
(* The builtins on texts and bytes: builtins/string.rs, bytes.rs,             *)
(* encoding.rs, regex.rs and crypto.rs.  A character below 128 is one byte of *)
(* UTF-8, one below 256 is two.                                               *)
EXTENDS FuncsNumeric

(***************************************************************************)
(* What the standard library and the codec crates do.                      *)
(***************************************************************************)
Occurs(p, s, i) == SubSeq(s, i, i + Len(p) - 1) = p
\* The 0-based offset of the first occurrence of p in s, or -1.
FindText(p, s) ==
    LET at == {i \in 1..Len(s) + 1 - Len(p) : Occurs(p, s, i)} IN IF at = {} THEN -1 ELSE Min(at) - 1
\* Occurrences are taken from the left; an empty one stands before every
\* character and at the end.
RECURSIVE ReplaceText(_, _, _)
ReplaceText(s, p, r) ==
    LET k == FindText(p, s)
    IN  IF k = -1 THEN s
        ELSE IF p # <<>>
        THEN SubSeq(s, 1, k) \o r \o ReplaceText(SubSeq(s, k + Len(p) + 1, Len(s)), p, r)
        ELSE IF s = <<>> THEN r ELSE r \o <<s[1]>> \o ReplaceText(Tail(s), p, r)
RepeatText(s, n) == FlattenSeq([i \in 1..n |-> s])
Utf8(s) ==
    FlattenSeq([i \in 1..Len(s) |->
        IF s[i] < 128 THEN <<s[i]>> ELSE <<192 + s[i] \div 64, 128 + (s[i] % 64)>>])
RECURSIVE FromUtf8(_)
FromUtf8(b) ==
    CASE b = <<>> -> Ok(<<>>)
      [] b # <<>> /\ b[1] < 128 -> Then2(FromUtf8(Tail(b)), LAMBDA s : Ok(<<b[1]>> \o s))
      [] Len(b) > 1 /\ b[1] \in 194..195 /\ b[2] \in 128..191 ->
            Then2(FromUtf8(SubSeq(b, 3, Len(b))),
                  LAMBDA s : Ok(<<(b[1] - 192) * 64 + b[2] - 128>> \o s))
      [] OTHER -> Err("EncodingError")
Upper(s) == [i \in 1..Len(s) |-> IF s[i] \in 97..122 THEN s[i] - 32 ELSE s[i]]
HexDecode(s) ==
    IF Len(s) % 2 = 0 /\ \A i \in 1..Len(s) : IsHex(s[i]) THEN Ok(FromHex(s)) ELSE Err("EncodingError")
Base64Url(b) == <<117>> \o bytes_to_hex(b)
\* Both base64 alphabets decode what they encode, and nothing else.
Base64Decode(mark, s) ==
    IF s # <<>> /\ s[1] = mark /\ Lower(Tail(s)) = Tail(s) THEN HexDecode(Tail(s))
    ELSE Err("EncodingError")
Unreserved(c) == c \in 48..57 \/ c \in 65..90 \/ c \in 97..122 \/ c \in {45, 46, 95, 126}
UrlEncoded(s) ==
    FlattenSeq([i \in 1..Len(Utf8(s)) |->
        LET c == Utf8(s)[i] IN IF Unreserved(c) THEN <<c>> ELSE <<37>> \o Upper(bytes_to_hex(<<c>>))])
\* A percent sign that two hex digits do not follow stands for itself.
RECURSIVE UrlDecoded(_)
UrlDecoded(s) ==
    CASE s = <<>> -> <<>>
      [] Len(s) > 2 /\ s[1] = 37 /\ IsHex(s[2]) /\ IsHex(s[3]) ->
            FromHex(SubSeq(s, 2, 3)) \o UrlDecoded(SubSeq(s, 4, Len(s)))
      [] OTHER -> <<s[1]>> \o UrlDecoded(Tail(s))
\* Labels and algorithm names are one character here.
Utf8Label == <<56>>
Latin1Label == <<49>>
HexLabel == <<104>>
Base64Label == <<98>>
Base64UrlLabel == <<117>>
\* An open group does not compile; every other pattern stands for itself.
RegexCompiles(p) == 40 \notin {p[i] : i \in 1..Len(p)}
\* Some digest of n characters, and some 64-bit hash.
DigestText(b, n) == [i \in 1..n |-> HexDigit((FoldLeft(+, Len(b), b) + i) % 16)]
HashOf(b) == IntMin("Int64") + FoldLeft(+, Len(b), b)

(***************************************************************************)
(* string.rs.                                                              *)
(***************************************************************************)
Texts(xs) == Collect([i \in 1..Len(xs) |-> extract_text(xs[i])])
TextResult(s) == Ok(<<"Text", s>>)
BoolResult(b) == Ok(<<"Bool", b>>)
IntResult(n) == Ok(<<"Int64", n>>)
BytesResult(b) == Ok(<<"Bytes", b>>)
WithinLimit(s) == IF Len(Utf8(s)) > MaxStringBytes THEN Err("StringTooLarge") ELSE TextResult(s)
\* The declared type, once the arguments named are texts (or bytes).
TypedArgs(xs, tag, is, t) == IF \E i \in is : xs[i].t[1] # tag THEN TypeMismatch ELSE Ok(t)
text_size(t) == IF t[1] = "Text" THEN t[2] ELSE NoSize

concat_arrays_resolve_type(ts) ==
    LET e == FoldLeft(LAMBDA acc, x : Then2(acc, LAMBDA l : array_element_join(l, x.t[2])), Ok(NoElem), ts)
    IN  Then2(e, LAMBDA t : Ok(ArrayType(t, \E i \in 1..Len(ts) : ts[i].t[3], AnyNullable(ts))))
concat_arrays_eval(xs) ==
    LET Step(acc, v) ==
            Then2(acc, LAMBDA a : IF Tag(v) = "Array" THEN concat_arrays(a[2], v[2]) ELSE TypeMismatch)
    IN  NullOr(xs, FoldLeft(Step, Ok(xs[1]), Tail(xs)))
\* Read from the left: a null ends the scan before a later argument's error.
Concat(q, xs) ==
    Fn(q, <<1, NoMax>>, TRUE, TRUE,
        IF \A i \in 1..Len(xs) : xs[i].t[1] = "Array" THEN concat_arrays_resolve_type(xs)
        ELSE Then2(concat_result_type([i \in 1..Len(xs) |-> xs[i].t]), LAMBDA t : Nullable(xs, t)),
        IF Tag(xs[1]) = "Array" THEN concat_arrays_eval(xs)
        ELSE LET odd == {i \in 1..Len(xs) : Tag(xs[i]) # "Text"}
             IN  IF odd = {} THEN TextResult(FlattenSeq(Payloads(xs)))
                 ELSE IF xs[Min(odd)] = Null THEN Ok(Null) ELSE TypeMismatch)
CharAt(q, xs) ==
    Pure(q, 2, TypedArgs(xs, "Text", {1}, Net(<<"Text", 1>>, TRUE)),
        NullOr(xs, Then2(extract_text(xs[1]), LAMBDA s : Then2(extract_int64(xs[2]), LAMBDA n :
            IF n \in 0..Len(s) - 1 THEN TextResult(<<s[n + 1]>>) ELSE Ok(Null)))))
OnText(q, xs, f(_)) ==
    Pure(q, 1, TypedArgs(xs, "Text", {1}, Net(xs[1].t, xs[1].null)),
        NullOr(xs, Then2(extract_text(xs[1]), LAMBDA s : TextResult(f(s)))))
UpperFunc(q, xs) == OnText(q, xs, Upper)
LowerFunc(q, xs) == OnText(q, xs, Lower)
TrimFunc(q, xs) == OnText(q, xs, Trim)
Replace(q, xs) ==
    Pure(q, 3, Nullable(xs, TText),
        NullOr(xs, Then2(Texts(xs), LAMBDA a : TextResult(ReplaceText(a[1], a[2], a[3])))))
StartsWith(q, xs) ==
    Pure(q, 2, Nullable(xs, TBool), NullOr(xs, Then2(Texts(xs), LAMBDA a : BoolResult(IsPrefix(a[2], a[1])))))
EndsWith(q, xs) ==
    Pure(q, 2, Nullable(xs, TBool), NullOr(xs, Then2(Texts(xs), LAMBDA a : BoolResult(IsSuffix(a[2], a[1])))))
Keys(entries) == {entries[i][1] : i \in 1..Len(entries)}
array_position(items, needle) ==
    LET at == {i \in 1..Len(items) : values_equal(items[i], needle)} IN IF at = {} THEN -1 ELSE Min(at) - 1
HasKey(entries, key) == Then2(extract_text(key), LAMBDA k : BoolResult(k \in Keys(entries)))
ContainsFunc(q, xs) ==
    Pure(q, 2, Nullable(xs, TBool),
        NullOr(xs,
            CASE Tag(xs[1]) = "Text" -> Then2(extract_text(xs[2]), LAMBDA p : BoolResult(FindText(p, xs[1][2]) # -1))
              [] Tag(xs[1]) = "Array" -> BoolResult(array_position(xs[1][2], xs[2]) # -1)
              [] Tag(xs[1]) = "Object" -> HasKey(xs[1][2], xs[2])
              [] Tag(xs[1]) = "Json" /\ xs[1][2][1] = "arr" ->
                    Then2(value_to_json(xs[2]), LAMBDA j : BoolResult(Contains(xs[1][2][2], j)))
              [] Tag(xs[1]) = "Json" /\ xs[1][2][1] = "obj" -> HasKey(xs[1][2][2], xs[2])
              [] OTHER -> TypeMismatch))
SignificantBits(n) == Cardinality({i \in 0..I64 - 1 : n >= 2 ^ i})
IndexOf(q, xs) ==
    Pure(q, 2,
        Ok([t |-> TInt64, null |-> AnyNullable(xs),
            bound |-> IF text_size(xs[1].t) = NoSize THEN NoSize ELSE SignificantBits(text_size(xs[1].t))]),
        NullOr(xs,
            CASE Tag(xs[1]) = "Array" -> IntResult(array_position(xs[1][2], xs[2]))
              [] Tag(xs[1]) = "Text" -> Then2(extract_text(xs[2]), LAMBDA p : IntResult(FindText(p, xs[1][2])))
              [] OTHER -> TypeMismatch))
\* As value_to_string, but bytes read as a list and a custom value as its JSON.
format_value(v) ==
    CASE Tag(v) = "Bytes" -> <<91>> \o Joined([i \in 1..Len(v[2]) |-> Digits(v[2][i])]) \o <<93>>
      [] Tag(v) = "Custom" -> JsonText(JsonOrNull(v))
      [] OTHER -> value_to_string(v)
\* The arguments go in one after the other, into what the earlier ones left.
Format(q, xs) ==
    Fn(q, <<1, NoMax>>, TRUE, TRUE, Nullable(xs, TText),
        IF xs[1] = Null THEN Ok(Null)
        ELSE Then2(extract_text(xs[1]), LAMBDA template :
                NullOr(xs, TextResult(FoldLeft(
                    LAMBDA s, i : ReplaceText(s, <<123>> \o Digits(i - 1) \o <<125>>, format_value(xs[i + 1])),
                    template, [i \in 1..Len(xs) - 1 |-> i])))))
ToString1(q, xs) == Pure(q, 1, Nullable(xs, TText), NullOr(xs, TextResult(format_value(xs[1]))))
ReverseFunc(q, xs) ==
    Pure(q, 1, IF xs[1].t[1] \in {"Text", "Array"} THEN Ok(Net(xs[1].t, xs[1].null)) ELSE TypeMismatch,
        NullOr(xs, IF Tag(xs[1]) \in {"Text", "Array"} THEN Ok(<<Tag(xs[1]), Reverse(xs[1][2])>>)
                   ELSE TypeMismatch))
Repeat(q, xs) ==
    Pure(q, 2, Nullable(xs, TText),
        NullOr(xs, Then2(extract_int64(xs[2]), LAMBDA n :
            IF n < 0 THEN TextResult(<<>>)
            ELSE Then2(extract_text(xs[1]), LAMBDA s : WithinLimit(RepeatText(s, n))))))
\* Padded to n characters with the first one of the third argument, or a space.
Pad(q, xs, Joint(_, _)) ==
    Fn(q, <<2, 3>>, TRUE, TRUE, Nullable(xs, TText),
        NullOr(xs, Then2(extract_int64(xs[2]), LAMBDA n :
            Then2(IF Len(xs) = 3 THEN extract_text(xs[3]) ELSE Ok(<<>>), LAMBDA p :
            Then2(extract_text(xs[1]), LAMBDA s :
                IF Len(s) >= n THEN TextResult(s)
                ELSE WithinLimit(Joint(s, RepeatText(IF p = <<>> THEN <<32>> ELSE <<p[1]>>, n - Len(s)))))))))
LeftPad(q, xs) == Pad(q, xs, LAMBDA s, p : p \o s)
RightPad(q, xs) == Pad(q, xs, LAMBDA s, p : s \o p)

(***************************************************************************)
(* bytes.rs.                                                               *)
(***************************************************************************)
\* One argument of a tag, checked when types resolve and again on the value.
OnOne(q, xs, tag, t, f(_)) ==
    Pure(q, 1, TypedArgs(xs, tag, {1}, Net(t, xs[1].null)),
        NullOr(xs, IF Tag(xs[1]) = tag THEN f(xs[1][2]) ELSE TypeMismatch))
ByteLength(q, xs) == OnOne(q, xs, "Bytes", TInt64, LAMBDA b : IntResult(Len(b)))
ByteAt(q, xs) ==
    Pure(q, 2, TypedArgs(xs, "Bytes", {1}, Net(TInt64, TRUE)),
        NullOr(xs, Then2(extract_int64(xs[2]), LAMBDA n : Then2(extract_bytes(xs[1]), LAMBDA b :
            IF n \in 0..Len(b) - 1 THEN IntResult(b[n + 1]) ELSE Ok(Null)))))
BytesFromHex(q, xs) == OnOne(q, xs, "Text", TBytes, LAMBDA s : Wrap("Bytes", HexDecode(s)))
BytesFromBase64(q, xs) == OnOne(q, xs, "Text", TBytes, LAMBDA s : Wrap("Bytes", Base64Decode(98, s)))
BytesFromUtf8(q, xs) == OnOne(q, xs, "Text", TBytes, LAMBDA s : BytesResult(Utf8(s)))
HexFunc(q, xs) == OnOne(q, xs, "Bytes", TText, LAMBDA b : TextResult(bytes_to_hex(b)))
Base64Func(q, xs) == OnOne(q, xs, "Bytes", TText, LAMBDA b : TextResult(Base64(b)))
Base64UrlFunc(q, xs) == OnOne(q, xs, "Bytes", TText, LAMBDA b : TextResult(Base64Url(b)))
BytesEqual(q, xs) ==
    Pure(q, 2, TypedArgs(xs, "Bytes", {1, 2}, Net(TBool, AnyNullable(xs))),
        NullOr(xs, Then2(extract_bytes(xs[1]), LAMBDA a :
            Then2(extract_bytes(xs[2]), LAMBDA b : BoolResult(a = b)))))
UrlEncode(q, xs) == OnOne(q, xs, "Text", TText, LAMBDA s : TextResult(UrlEncoded(s)))
UrlDecode(q, xs) == OnOne(q, xs, "Text", TText, LAMBDA s : Wrap("Text", FromUtf8(UrlDecoded(Utf8(s)))))

(***************************************************************************)
(* encoding.rs.                                                            *)
(***************************************************************************)
ENCODE_ALGORITHMS == {HexLabel, Base64Label, Base64UrlLabel}
TextLabels == {Utf8Label, Latin1Label}
\* The two argument codecs: the data, then the name of the codec.
Codec(q, xs, tag, t, names, f(_, _)) ==
    Pure(q, 2, TypedArgs(xs, tag, {1}, Net(t, AnyNullable(xs))),
        NullOr(xs, IF Tag(xs[1]) # tag THEN TypeMismatch
                   ELSE Then2(extract_text(xs[2]), LAMBDA name :
                            IF name \in names THEN f(name, xs[1][2]) ELSE Err("EncodingError"))))
Encode(q, xs) ==
    Codec(q, xs, "Bytes", TText, ENCODE_ALGORITHMS, LAMBDA name, b :
        TextResult(CASE name = HexLabel -> bytes_to_hex(b)
                     [] name = Base64Label -> Base64(b)
                     [] name = Base64UrlLabel -> Base64Url(b)))
Decode(q, xs) ==
    Codec(q, xs, "Text", TBytes, ENCODE_ALGORITHMS, LAMBDA name, s :
        Wrap("Bytes", CASE name = HexLabel -> HexDecode(s)
                        [] name = Base64Label -> Base64Decode(98, s)
                        [] name = Base64UrlLabel -> Base64Decode(117, s)))
EncodeText(q, xs) ==
    Codec(q, xs, "Text", TBytes, TextLabels, LAMBDA name, s :
        IF name = Utf8Label THEN BytesResult(Utf8(s))
        ELSE IF \A i \in 1..Len(s) : s[i] < 256 THEN BytesResult(s) ELSE Err("EncodingError"))
DecodeText(q, xs) ==
    Codec(q, xs, "Bytes", TText, TextLabels, LAMBDA name, b :
        IF name = Utf8Label THEN Wrap("Text", FromUtf8(b)) ELSE TextResult(b))

(***************************************************************************)
(* regex.rs.                                                               *)
(***************************************************************************)
with_regex_cached(p, r) == IF RegexCompiles(p) THEN r ELSE Err("RegexCompileFailed")
RegexMatch(q, xs) ==
    Pure(q, 2, Nullable(xs, TBool),
        NullOr(xs, Then2(Texts(xs), LAMBDA a :
            with_regex_cached(a[2], BoolResult(FindText(a[2], a[1]) # -1)))))
RegexReplace(q, xs) ==
    Pure(q, 3, Nullable(xs, TText),
        NullOr(xs, Then2(Texts(xs), LAMBDA a :
            with_regex_cached(a[2], TextResult(ReplaceText(a[1], a[2], a[3]))))))

(***************************************************************************)
(* crypto.rs.                                                              *)
(***************************************************************************)
extract_bytes_ref(v) ==
    CASE Tag(v) = "Text" -> Ok(Utf8(v[2]))
      [] Tag(v) = "Bytes" -> Ok(v[2])
      [] OTHER -> TypeMismatch
Hashing(q, xs, t, f(_)) ==
    Pure(q, 1, Nullable(xs, t), NullOr(xs, Then2(extract_bytes_ref(xs[1]), f)))
\* A digest of n bytes in hex.
hash_to_hex(q, xs, n) == Hashing(q, xs, <<"Text", 2 * n>>, LAMBDA b : TextResult(DigestText(b, 2 * n)))
Md5(q, xs) == hash_to_hex(q, xs, 16)
Sha1(q, xs) == hash_to_hex(q, xs, 20)
Sha256(q, xs) == hash_to_hex(q, xs, 32)
Sha512(q, xs) == hash_to_hex(q, xs, 64)
\* A 64-bit hash is read as an i64; a 32-bit one is never negative.
XxHash64(q, xs) == Hashing(q, xs, TInt64, LAMBDA b : IntResult(HashOf(b)))
XxHash32(q, xs) == Hashing(q, xs, TInt64, LAMBDA b : IntResult(HashOf(b) % 2 ^ I32))
CityHash64(q, xs) == Hashing(q, xs, TInt64, LAMBDA b : IntResult(HashOf(b)))
SipHash64(q, xs) == Hashing(q, xs, TInt64, LAMBDA b : IntResult(HashOf(b)))
\* Offset and prime scaled to the width of the instance.
Fnv1a(b) ==
    FoldLeft(LAMBDA h, c : (FromBits([i \in 0..I64 - 1 |-> Bits(h)[i] # Bits(c)[i]]) * 19) % 2 ^ I64, 37, b)
Fnv1a64(q, xs) == Hashing(q, xs, TInt64, LAMBDA b : IntResult(WrapInt(Fnv1a(b), "Int64")))
Sha256Label == <<50>>
Sha512Label == <<53>>
HMAC_ALGORITHMS == {Sha256Label, Sha512Label}
Hmac(q, xs) ==
    Pure(q, 3, Nullable(xs, TText),
        NullOr(xs, Then2(extract_text(xs[1]), LAMBDA alg :
            Then2(extract_bytes_ref(xs[2]), LAMBDA m : Then2(extract_bytes_ref(xs[3]), LAMBDA k :
                IF alg \notin HMAC_ALGORITHMS THEN Err("EvalFailed")
                ELSE TextResult(DigestText(k \o m, IF alg = Sha256Label THEN 64 ELSE 128)))))))

-----------------------------------------------------------------------------
(* The builtins on collections, documents and types: builtins/array.rs,       *)
(* json.rs, object.rs, cast.rs and misc.rs.                                   *)

TJson == <<"Json">>

(***************************************************************************)
(* array.rs.                                                               *)
(***************************************************************************)
CollectionTypes == {"Text", "Bytes", "Array", "Object", "Json"}
is_collection_type(t) == t[1] \in CollectionTypes
\* A JSON scalar has no length, and no type tells it from a JSON array.
collection_len(v) ==
    CASE Tag(v) \in CollectionTypes \ {"Json"} -> Ok(Len(v[2]))
      [] Tag(v) = "Json" -> IF v[2][1] \in {"arr", "obj"} THEN Ok(Len(v[2][2])) ELSE Err("EvalFailed")
      [] OTHER -> TypeMismatch
\* The 1-based position a possibly negative index names, or 0.
resolve_index(i, len) ==
    LET e == IF i < 0 THEN i + len ELSE i IN IF e \in 0..len - 1 THEN e + 1 ELSE 0
\* A UInt64 past the range of Int64 saturates: it is out of any range.
extract_index(v) == IF IsInt(v) THEN Ok(Clamp(v[2], IntMin("Int64"), IntMax("Int64"))) ELSE TypeMismatch
clamp_bound(raw, len) == Clamp(IF raw < 0 THEN raw + len ELSE raw, 0, len)
\* Null, and what is not an integer, leave the bound open.
resolve_slice_bound(v, len, default) ==
    LET i == extract_index(v) IN IF IsOk(i) THEN clamp_bound(i[2], len) ELSE default
LenFunc(q, xs) ==
    Pure(q, 1, IF is_collection_type(xs[1].t) THEN Nullable(xs, TInt64) ELSE TypeMismatch,
        NullOr(xs, Then2(collection_len(xs[1]), IntResult)))
\* An index names a member; the type of an unknown member is JSON.
ElementType(x) ==
    CASE x.t[1] = "Array" ->
            IF x.t[2] = NoElem THEN Ok(Net(TJson, TRUE)) ELSE Ok(Net(x.t[2], x.t[3] \/ x.null))
      [] x.t[1] = "Text" -> Ok(Net(<<"Text", 1>>, x.null))
      [] x.t[1] \in {"Object", "Json"} -> Ok(Net(TJson, TRUE))
      [] OTHER -> TypeMismatch
At(items, index, r(_)) ==
    Then2(extract_index(index), LAMBDA i :
        LET k == resolve_index(i, Len(items)) IN IF k = 0 THEN InvalidArgument ELSE Ok(r(items[k])))
EntryOf(entries, key) == entries[Min({i \in 1..Len(entries) : entries[i][1] = key})][2]
AtKey(entries, key, r(_)) ==
    Then2(extract_text(key), LAMBDA k :
        IF k \in Keys(entries) THEN Ok(r(EntryOf(entries, k))) ELSE InvalidArgument)
AsJson(j) == <<"Json", j>>
element_json(j, index) ==
    CASE j[1] = "arr" -> At(j[2], index, AsJson)
      [] j[1] = "obj" -> AtKey(j[2], index, AsJson)
      [] OTHER -> TypeMismatch
Element(q, xs) ==
    Pure(q, 2, ElementType(xs[1]),
        NullOr(xs,
            CASE Tag(xs[1]) = "Array" -> At(xs[1][2], xs[2], LAMBDA v : v)
              [] Tag(xs[1]) = "Text" -> At(xs[1][2], xs[2], LAMBDA c : <<"Text", <<c>>>>)
              [] Tag(xs[1]) = "Object" -> AtKey(xs[1][2], xs[2], LAMBDA v : v)
              [] Tag(xs[1]) = "Json" -> element_json(xs[1][2], xs[2])
              [] OTHER -> TypeMismatch))
\* A null index, like one out of range, gives the default.
ArrayGet(q, xs) ==
    Pure(q, 3, IF xs[1].t[1] = "Array" THEN ElementType(xs[1]) ELSE TypeMismatch,
        IF xs[1] = Null THEN Ok(Null)
        ELSE IF xs[2] = Null THEN Ok(xs[3])
        ELSE IF Tag(xs[1]) # "Array" THEN TypeMismatch
        ELSE Then2(extract_index(xs[2]), LAMBDA i :
                LET k == resolve_index(i, Len(xs[1][2])) IN Ok(IF k = 0 THEN xs[3] ELSE xs[1][2][k])))
SliceTypes == {"Text", "Bytes", "Array"}
Slice(q, xs) ==
    Pure(q, 3, IF xs[1].t[1] \in SliceTypes THEN Ok(Net(xs[1].t, xs[1].null)) ELSE TypeMismatch,
        IF xs[1] = Null THEN Ok(Null)
        ELSE IF Tag(xs[1]) \notin SliceTypes THEN TypeMismatch
        ELSE LET len == Len(xs[1][2])
             IN  Ok(<<Tag(xs[1]), SubSeq(xs[1][2], resolve_slice_bound(xs[2], len, 0) + 1,
                                         resolve_slice_bound(xs[3], len, len))>>))
RECURSIVE SplitText(_, _)
SplitText(s, p) ==
    LET k == FindText(p, s)
    IN  IF k = -1 THEN <<s>> ELSE <<SubSeq(s, 1, k)>> \o SplitText(SubSeq(s, k + Len(p) + 1, Len(s)), p)
\* An empty separator splits into characters.
Split(q, xs) ==
    Pure(q, 2, Ok(ArrayType(TText, FALSE, AnyNullable(xs))),
        NullOr(xs, Then2(Texts(xs), LAMBDA a :
            LET parts == IF a[2] = <<>> THEN [i \in 1..Len(a[1]) |-> <<a[1][i]>>] ELSE SplitText(a[1], a[2])
            IN  IF Len(parts) > MaxArrayLen THEN InvalidArgument
                ELSE Ok(<<"Array", [i \in 1..Len(parts) |-> <<"Text", parts[i]>>]>>))))
Join(q, xs) ==
    Pure(q, 2, Nullable(xs, TText),
        NullOr(xs, IF Tag(xs[1]) # "Array" THEN TypeMismatch
                   ELSE Then2(extract_text(xs[2]), LAMBDA sep :
                     WithinLimit(FlattenSeq([i \in 1..Len(xs[1][2]) |->
                        (IF i = 1 THEN <<>> ELSE sep) \o value_to_string(xs[1][2][i])])))))
IsEmpty(q, xs) ==
    Pure(q, 1, IF is_collection_type(xs[1].t) THEN Nullable(xs, TBool) ELSE TypeMismatch,
        NullOr(xs, Then2(collection_len(xs[1]), LAMBDA n : BoolResult(n = 0))))
\* Mutant: the type promises no nulls and the nulls stay.
FilterKeepsNull(q, xs) ==
    Pure(q, 1, IF xs[1].t[1] = "Array" THEN Ok(ArrayType(xs[1].t[2], FALSE, xs[1].null)) ELSE TypeMismatch, Ok(xs[1]))
FilterNotNull(q, xs) ==
    Pure(q, 1, IF xs[1].t[1] = "Array" THEN Ok(ArrayType(xs[1].t[2], FALSE, xs[1].null)) ELSE TypeMismatch,
        NullOr(xs, IF Tag(xs[1]) = "Array" THEN Ok(<<"Array", SelectSeq(xs[1][2], LAMBDA v : v # Null)>>)
                   ELSE TypeMismatch))

(***************************************************************************)
(* json.rs.  Of JSON text the documents without members are parsed; a path *)
(* is $ for the document or $k for a member of one character.              *)
(***************************************************************************)
JsonFromStr(s) ==
    CASE s \in {BoolText(TRUE), BoolText(FALSE)} -> Ok(<<"bool", s = BoolText(TRUE)>>)
      [] s = JsonText(<<"null">>) -> Ok(<<"null">>)
      [] s = <<91, 93>> -> Ok(<<"arr", <<>>>>)
      [] s = <<123, 125>> -> Ok(<<"obj", <<>>>>)
      [] Len(s) >= 2 /\ s[1] = 34 /\ s[Len(s)] = 34 -> Ok(Str(SubSeq(s, 2, Len(s) - 1)))
      [] OTHER -> IF IsOk(ParseInt(s)) THEN Ok(<<"num", ParseInt(s)[2]>>) ELSE Err("EvalFailed")
PathCompiles(p) == Len(p) \in 1..2 /\ p[1] = 36
JsonPathFind(j, p) ==
    IF Len(p) = 1 THEN <<j>>
    ELSE IF j[1] = "obj" /\ Tail(p) \in Keys(j[2]) THEN <<EntryOf(j[2], Tail(p))>> ELSE <<>>
with_json_path_cached(p, r) == IF PathCompiles(p) THEN r ELSE Err("JsonPathError")
extract_first_json_path(j, p) == with_json_path_cached(p, Ok(JsonPathFind(j, p)))
\* A member of an object that has no JSON becomes null.
value_to_serde_json(v) ==
    CASE Tag(v) = "Json" -> Ok(v[2])
      [] Tag(v) = "Object" ->
            Ok(<<"obj", [i \in 1..Len(v[2]) |-> <<v[2][i][1], JsonOrNull(v[2][i][2])>>]>>)
      [] OTHER -> value_to_json(v)
ParseJson(q, xs) ==
    Pure(q, 1, Nullable(xs, TJson),
        NullOr(xs, Then2(extract_text(xs[1]), LAMBDA s : Wrap("Json", JsonFromStr(s)))))
ToJson(q, xs) == Pure(q, 1, Nullable(xs, TJson), NullOr(xs, Wrap("Json", value_to_serde_json(xs[1]))))
\* What a path finds first, as the value the function wants of it, or null.
JsPathFunc(q, xs, t, pick(_)) ==
    Pure(q, 2, Ok(Net(t, TRUE)),
        NullOr(xs, Then2(value_to_serde_json(xs[1]), LAMBDA j :
            Then2(extract_text(xs[2]), LAMBDA p :
            Then2(extract_first_json_path(j, p), LAMBDA found :
                Ok(IF found = <<>> THEN Null ELSE pick(found[1])))))))
JsPath(q, xs) == JsPathFunc(q, xs, TJson, AsJson)
JsPathString(q, xs) == JsPathFunc(q, xs, TText, LAMBDA j : IF j[1] = "str" THEN <<"Text", j[2]>> ELSE Null)
JsPathInt(q, xs) ==
    JsPathFunc(q, xs, TInt64, LAMBDA j :
        IF j[1] = "num" /\ InRange("Int64", j[2]) THEN <<"Int64", j[2]>> ELSE Null)
JsPathFloat(q, xs) ==
    JsPathFunc(q, xs, TFloat64, LAMBDA j :
        CASE j[1] = "num" -> <<"Float64", IntToF64(j[2])>>
          [] j[1] = "flt" -> <<"Float64", j[2]>>
          [] OTHER -> Null)
JsPathBool(q, xs) == JsPathFunc(q, xs, TBool, LAMBDA j : IF j[1] = "bool" THEN <<"Bool", j[2]>> ELSE Null)

(***************************************************************************)
(* object.rs and misc.rs.                                                  *)
(***************************************************************************)
extract_object_ref(v) == IF Tag(v) = "Object" THEN Ok(v[2]) ELSE TypeMismatch
Entry(xs, part) ==
    NullOr(xs, Then2(extract_object_ref(xs[1]), LAMBDA es : Then2(extract_int64(xs[2]), LAMBDA n :
        Ok(IF n \notin 0..Len(es) - 1 THEN Null
           ELSE IF part = "key" THEN <<"Text", es[n + 1][1]>> ELSE es[n + 1][2]))))
ObjectKeys(q, xs) == Pure(q, 2, Ok(Net(TText, TRUE)), Entry(xs, "key"))
ObjectValues(q, xs) == Pure(q, 2, Ok(Net(TJson, TRUE)), Entry(xs, "value"))
ObjectHasKey(q, xs) ==
    Pure(q, 2, Nullable(xs, TBool), NullOr(xs, Then2(extract_object_ref(xs[1]), LAMBDA es : HasKey(es, xs[2]))))
ObjectGet(q, xs) ==
    Pure(q, 2, Ok(Net(TJson, TRUE)),
        NullOr(xs, Then2(extract_object_ref(xs[1]), LAMBDA es : Then2(extract_text(xs[2]), LAMBDA k :
            Ok(IF k \in Keys(es) THEN EntryOf(es, k) ELSE Null)))))
\* The name of a variant, or of a custom value's kind: one letter each.
variant_name(v) ==
    CASE v = Null -> <<64>>
      [] Tag(v) = "Custom" -> <<96 + kind_order(v[2])>>
      [] OTHER -> <<64 + variant_order(v)>>
TypeOf(q, xs) == Pure(q, 1, Ok(non_null(TText)), TextResult(variant_name(xs[1])))
=============================================================================
