----------------------------- MODULE TypeSystem -----------------------------
(* How the pipeline uses crates/types over the life of a column: a column is  *)
(* declared and validated against the matrix, its rows are converted, keys    *)
(* are compared and hashed, cursor values are saved and read back, and the    *)
(* types a schemaless source shows are merged.  A behaviour follows one of    *)
(* the four, which part names.                                                *)
EXTENDS Conversion

CONSTANTS
    SourceTypes, SinkTypes,  \* the types a column may declare
    Samples(_),              \* values a column of a type may hold
    KeyValues,               \* values that reach a key
    ObservedTypes,           \* types a sampled document may show
    MaxRows, MaxSeen         \* rows, and keys or types, one behaviour follows

VARIABLES
    part,     \* "column", "key", "cursor" or "union"
    col,      \* [src, dst, ctx], the declared column
    verdict,  \* what validation said of it
    cells,    \* the rows converted so far, <<value, result, truncate>>
    keys,     \* the keys seen so far
    cursor,   \* the value last saved and the value read back
    merged    \* the types observed so far and the running collapse

tvars == <<part, col, verdict, cells, keys, cursor, merged>>

NoCol == [src |-> NoElem, dst |-> NoElem, ctx |-> [truncate |-> FALSE, default |-> Null]]
Ctx(truncate) == [truncate |-> truncate, default |-> Null]

TypesInit ==
    /\ part \in {"column", "key", "cursor", "union"}
    /\ col \in IF part = "column"
               THEN [src : SourceTypes, dst : SinkTypes, ctx : {Ctx(b) : b \in BOOLEAN}]
               ELSE IF part = "cursor"
               THEN {[NoCol EXCEPT !.src = t] : t \in {u \in SourceTypes : cursor_compatible(u)}}
               ELSE {NoCol}
    /\ verdict = "unchecked"
    /\ cells = <<>>
    /\ keys = <<>>
    /\ cursor = <<>>
    /\ merged = [types |-> <<>>, union |-> <<"Union", <<>>>>]

\* The column check of CompatibilityValidator::validate.
Verdict(src, dst, truncate) ==
    IF IF truncate THEN is_compatible_with_truncate(src, dst) ELSE is_compatible(src, dst)
    THEN "accepted"
    ELSE IF is_narrowing(src, dst) THEN "NarrowingNotAllowed" ELSE "UnsupportedCast"

Validate ==
    /\ part = "column"
    /\ verdict = "unchecked"
    /\ verdict' = Verdict(col.src, col.dst, col.ctx.truncate)
    /\ UNCHANGED <<part, col, cells, keys, cursor, merged>>

\* TransformOp::Convert on one row of an accepted column.
ConvertRow(v) ==
    /\ verdict = "accepted"
    /\ Len(cells) < MaxRows
    /\ cells' = Append(cells, <<v, convert(v, col.src, col.dst, col.ctx), col.ctx.truncate>>)
    /\ UNCHANGED <<part, col, verdict, keys, cursor, merged>>

\* The column is given truncate = true in the configuration and the flow is
\* started, and so validated, again.
Consent ==
    /\ verdict = "accepted"
    /\ ~col.ctx.truncate
    /\ col' = [col EXCEPT !.ctx.truncate = TRUE]
    /\ verdict' = "unchecked"
    /\ UNCHANGED <<part, cells, keys, cursor, merged>>

\* A row's key joins the keys of its batch.
TakeKey(v) ==
    /\ part = "key"
    /\ Len(keys) < MaxSeen
    /\ IsOk(KeyOf(<<v>>))
    /\ keys' = Append(keys, KeyOf(<<v>>)[2])
    /\ UNCHANGED <<part, col, verdict, cells, cursor, merged>>

\* A cursor value is written to storage and decoded at the next start.
SaveAndLoad(v) ==
    /\ part = "cursor"
    /\ IsOk(Serialize(v))
    /\ cursor' = <<v, decode_cursor_json(col.src, Serialize(v)[2])>>
    /\ UNCHANGED <<part, col, verdict, cells, keys, merged>>

\* One more sampled document shows the field with type t.
Observe(t) ==
    /\ part = "union"
    /\ Len(merged.types) < MaxSeen
    /\ merged' = [types |-> Append(merged.types, t),
                  union |-> IF merged.types = <<>> THEN collapse_union(<<t>>)
                            ELSE collapse_union(<<merged.union, t>>)]
    /\ UNCHANGED <<part, col, verdict, cells, keys, cursor>>

TypesNext ==
    \/ Validate
    \/ Consent
    \/ part = "column" /\ \E v \in Samples(col.src) : ConvertRow(v)
    \/ \E v \in KeyValues : TakeKey(v)
    \/ part = "cursor" /\ \E v \in Samples(col.src) : SaveAndLoad(v)
    \/ \E t \in ObservedTypes : Observe(t)

TypesSpec == TypesInit /\ [][TypesNext]_tvars

-----------------------------------------------------------------------------
(* Properties.                                                               *)

\* A value is one the declared type admits, its bounds included.
RECURSIVE Conforms(_, _)
Conforms(v, t) ==
    \/ v = Null
    \/ /\ t[1] = "Union"
       /\ \E i \in 1..Len(t[2]) : Conforms(v, t[2][i])
    \/ /\ t[1] = "Xml" /\ Tag(v) = "Text"
    \/ /\ Tag(v) = t[1]
       /\ CASE t[1] \in IntTags -> InRange(t[1], v[2])
            [] t[1] \in {"Text", "Bytes"} -> t[2] = NoSize \/ Len(v[2]) <= t[2]
            [] t[1] = "BigInt" -> t[2] = NoSize \/ Abs(v[2]) < 10 ^ t[2]
            [] t[1] = "Decimal" ->
                  t[2] = NoSize
                  \/ (decimal_value_scale(v) <= OrZero(t[3])
                      /\ decimal_value_int_digits(v) <= NatDiff(t[2], OrZero(t[3])))
            [] t[1] = "Array" ->
                  \A i \in 1..Len(v[2]) :
                      IF v[2][i] = Null THEN t[3]
                      ELSE t[2] = NoElem \/ Conforms(v[2][i], t[2])
            [] t[1] = "Custom" -> v[2] = t[2] \/ {v[2], t[2]} \subseteq EnumKinds
            [] OTHER -> TRUE

\* What a conversion may still refuse: a text or bytes that does not parse, a
\* document too deep, an address with no IPv4 form, a NaN with no integer.
DataErrors ==
    {"InvalidUuid", "InvalidHex", "InvalidIp", "Length", "InvalidBool", "InvalidXml",
     "IpV6NotMappable", "Custom", "Overflow"}
\* A union's member is read back from the value, without the size its column
\* declared, so sized members of a union are outside the matrix's promise; so
\* is a JSON or XML column that asks for truncation it does not need, a text
\* that must spell an ObjectId, an enum or a script, and a JSON that is not of
\* the shape a container needs.
RECURSIVE Sizes(_)
Sizes(t) == IF t[1] = "Union" THEN \E i \in 1..Len(t[2]) : Sizes(t[2][i])
            ELSE t[1] \in {"Bytes", "BigInt"} /\ t[2] # NoSize
OutsidePromise(c) ==
    \/ c.src[1] = "Union" /\ Sizes(c.src)
    \/ c.ctx.truncate /\ c.src[1] \in {"Json", "Xml"}
    \/ c.dst[1] = "Custom" /\ c.src[1] \in {"Text", "Bytes", "Json", "BigInt"}
    \/ c.src[1] = "Custom" /\ c.src[2] = "postgresql.inet" /\ c.dst[1] = "Ipv4"

\* What the matrix accepts, convert can do: no row of an accepted column fails
\* because the pair of types has no conversion or meets the wrong variant
\* (matrix.rs is_compatible and is_compatible_with_truncate, dispatch.rs convert).
AcceptedConverts ==
    \A i \in 1..Len(cells) :
        \/ IsOk(cells[i][2])
        \/ cells[i][2][2] \in DataErrors
        \/ OutsidePromise(col)

\* Pairs the matrix calls lossless although the sink's bound is not looked at:
\* an integer into a narrow BigInt, a symbol or an enum into a short text, and
\* two parameterisations of one custom kind.
BoundIgnored(c) ==
    \/ c.src[1] \in IntTags \cup {"Bool"} /\ c.dst[1] = "BigInt"
    \/ c.src[1] = "Custom" /\ c.dst[1] \in {"Text", "BigInt", "Custom"}
    \/ c.src[1] = "Decimal" /\ c.dst[1] = "Decimal" /\ c.dst[2] = NoSize
    \/ c.src[1] = "Union"
\* Every converted value fits the type its sink column declares, whatever the
\* source held and whether or not truncation was consented to.
SinkBoundsKept ==
    \A i \in 1..Len(cells) :
        IsOk(cells[i][2]) => Conforms(cells[i][2][2], col.dst) \/ BoundIgnored(col)

Numeric(t) == t[1] \in IntTags \cup FloatTags \cup {"BigInt", "Decimal"}
\* Without consent to truncate, a number that is converted to a numeric sink is
\* still the same number (the lossless matrix and the widening arms of convert).
AsHalves(v) == IF Tag(v) = "Decimal" THEN DecimalHalves(v) ELSE IF IsFloat(v) THEN v[2] ELSE 2 * v[2]
LosslessKeepsNumber ==
    \A i \in 1..Len(cells) :
        (/\ ~cells[i][3] /\ Numeric(col.src) /\ Numeric(col.dst)
         /\ cells[i][1] # Null /\ IsOk(cells[i][2]))
        => AsHalves(cells[i][2][2]) = AsHalves(cells[i][1])

\* Without consent to truncate, two values of a column that differ stay apart
\* in the sink: nothing merges two rows' values silently.  Columns that parse a
\* text, answer a yes/no question or cut a rendering are not injective by
\* nature.
LosslessKeepsApart ==
    \A i, j \in 1..Len(cells) :
        (/\ ~cells[i][3] /\ ~cells[j][3] /\ IsOk(cells[i][2]) /\ IsOk(cells[j][2])
         /\ col.dst[1] # "Bool"
         /\ col.src[1] # "Text" \/ col.dst[1] = "Text"
         /\ ~(col.src[1] \in {"Union", "Object", "Array"})
         /\ ~(col.src[1] = "Custom" /\ col.dst[1] \in {"Text", "Json"})
         /\ compare_values(cells[i][1], cells[j][1]) # 0
         /\ cells[i][1] # cells[j][1])
        => cells[i][2] # cells[j][2]

\* Truncation saturates and rounds toward zero, so it never swaps two numbers:
\* the larger source number is never the smaller sink number (saturate.rs).
TruncationKeepsOrder ==
    \A i, j \in 1..Len(cells) :
        (/\ Numeric(col.src) /\ Numeric(col.dst)
         /\ IsOk(cells[i][2]) /\ IsOk(cells[j][2])
         /\ Null \notin {cells[i][1], cells[j][1]}
         /\ NaN \notin {cells[i][1][2], cells[j][1][2]}
         /\ compare_values(cells[i][1], cells[j][1]) = -1)
        => AsHalves(cells[i][2][2]) <= AsHalves(cells[j][2][2])

\* Consenting to truncation changes nothing where none is needed: a column
\* accepted without it is accepted with it, and every row converts to the same
\* value (compatibility.rs: "I accept lossy narrowing if any happens"), outside
\* JSON and XML columns, which refuse the flag.
ConsentIsNotDemand ==
    (/\ col.src[1] \notin {"Json", "Xml", "Union"}
     /\ \E i \in 1..Len(cells) : ~cells[i][3])
    => /\ verdict \in {"accepted", "unchecked"}
       /\ \A i, j \in 1..Len(cells) : cells[i][1] = cells[j][1] => cells[i][2] = cells[j][2]

\* "enable truncate" is said only when truncating would indeed make the column
\* valid (is_narrowing against is_compatible_with_truncate).
HintIsHonest ==
    (verdict = "NarrowingNotAllowed" /\ ~col.ctx.truncate)
    => is_compatible_with_truncate(col.src, col.dst)

\* Between an integer and a float the comparison rounds the integer, between two
\* integers it does not: three keys of which one is an integer that no float
\* equals and another is a float.
FloatInexact(k) == Tag(k[1]) \in WholeTags /\ AsFloat(k[1]) # 2 * k[1][2]
MeetInexact(ks) == (\E k \in ks : FloatInexact(k)) /\ \E k \in ks : Tag(k[1]) = "Float64"
IsNumber(k) == Tag(k[1]) \in WholeTags \/ (Tag(k[1]) = "Float64" /\ k[1][2] # NaN)

\* Keys are what HashMap and sorting need: equality agrees with the order, equal
\* keys share a hash, and the order is antisymmetric and transitive over any
\* three keys of a batch (key.rs: Hash, Eq and Ord).  Where an integer is rounded
\* to meet a float the order is not transitive, two different integers being
\* equal to one float; what remains is that no order goes against the floats.
KeyLaws ==
    \A i, j, k \in 1..Len(keys) :
        /\ KeyEq(keys[i], keys[j]) <=> KeyCmp(keys[i], keys[j]) = 0
        /\ KeyEq(keys[i], keys[j]) => KeyHash(keys[i]) = KeyHash(keys[j])
        /\ KeyCmp(keys[i], keys[j]) = -KeyCmp(keys[j], keys[i])
        /\ (KeyCmp(keys[i], keys[j]) <= 0 /\ KeyCmp(keys[j], keys[k]) <= 0)
           => KeyCmp(keys[i], keys[k]) <= 0 \/ MeetInexact({keys[i], keys[j], keys[k]})
        /\ (IsNumber(keys[i]) /\ IsNumber(keys[j]) /\ KeyCmp(keys[i], keys[j]) <= 0)
           => AsFloat(keys[i][1]) <= AsFloat(keys[j][1])

\* The cursor read back after a restart is the cursor that was saved, variant
\* and all, for every type a cursor may have.  Two values are read back as an
\* error, never as another value: a float that is not finite, which has no JSON
\* number, and the null of a column of a connector's own type.
CursorSurvivesRestart ==
    cursor # <<>> =>
        \/ cursor[2] = Ok(cursor[1])
        \/ /\ ~IsOk(cursor[2])
           /\ \/ IsFloat(cursor[1]) /\ ~IsFinite(cursor[1][2])
              \/ cursor[1] = Null /\ col.src[1] = "Custom"

Permuted(ts) ==
    {[i \in 1..Len(ts) |-> ts[f[i]]] : f \in Permutations(1..Len(ts))}
\* Merging the types of sampled documents does not depend on the order the
\* documents came in, nor on whether they were merged one by one
\* (collapse_union).
UnionOrderFree ==
    \A ts \in Permuted(merged.types) :
        merged.types = <<>> \/ TypeEq(collapse_union(ts), merged.union)

\* The merged type still covers every document: each observed type is the
\* merged type or a member of it, or widens into one of them without loss.
UnionCovers ==
    \A i \in 1..Len(merged.types) :
        LET t == merged.types[i]
            members == IF merged.union[1] = "Union" THEN merged.union[2] ELSE <<merged.union>>
            leaves == into_leaves(<<t>>)
        IN  \A l \in 1..Len(leaves) :
                \E k \in 1..Len(members) : is_compatible(leaves[l], members[k])

\* What the compatibility matrix promises of a column, its rows keep
\* (matrix.rs, dispatch.rs, saturate.rs): an accepted pair converts, within the
\* bounds of the sink's type; without consent to truncate, numbers are kept and
\* values stay apart; with it, their order is; and consent is neither a demand
\* nor suggested in vain.
ColumnLaws ==
    /\ AcceptedConverts /\ SinkBoundsKept
    /\ LosslessKeepsNumber /\ LosslessKeepsApart
    /\ TruncationKeepsOrder /\ ConsentIsNotDemand /\ HintIsHonest

\* What stands for a row keeps its meaning: keys order, equate and hash a batch
\* consistently, and a saved cursor is read back as it was (key.rs, cursor.rs).
KeysKept == KeyLaws /\ CursorSurvivesRestart

\* The type inferred for a sampled field is a union that covers every type that
\* was seen, in whatever order (union.rs).
UnionLaws == UnionOrderFree /\ UnionCovers
=============================================================================
