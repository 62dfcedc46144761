----------------------------- MODULE ExprParser -----------------------------
(* crates/expr/parse, lexer.rs, token.rs and detect.rs, with the durations   *)
(* of crates/commons/lib/src/interval.rs.  A source text is a sequence of    *)
(* code points.  A token is <<kind, payload, line>>: the kind of an operator *)
(* or a delimiter is its spelling, and a string token holds its parts        *)
(* <<"Literal", text>> and <<"Expr", source>>.                               *)
EXTENDS Values

CONSTANT Names    \* <<spelling, name>>: the words the sources use, and what stands for each

Named(word) == IF \E n \in Names : n[1] = word THEN (CHOOSE n \in Names : n[1] = word)[2] ELSE "other"
OnOk(r, F(_)) == IF IsOk(r) THEN F(r[2]) ELSE r
Tok(kind, payload, line) == <<kind, payload, line>>
Lexed(kind, payload, pos, line) == [ok |-> TRUE, kind |-> kind, payload |-> payload, pos |-> pos, line |-> line]
Refused(why, pos, line) == [ok |-> FALSE, kind |-> why, payload |-> <<>>, pos |-> pos, line |-> line]
SourceAt(src, p) == IF p \in 1..Len(src) THEN src[p] ELSE 0
IsDigit(c) == c \in 48..57
IsLetter(c) == c \in 65..90 \cup 97..122
IsWord(c) == IsDigit(c) \/ IsLetter(c) \/ c = 95
\* Where the longest run of characters of a class that starts at p ends.
RunEnd(src, p, In(_)) ==
    CHOOSE q \in p..Len(src) + 1 : /\ \A i \in p..q - 1 : In(src[i])
                                   /\ q = Len(src) + 1 \/ ~In(src[q])
Newlines(s) == Len(SelectSeq(s, LAMBDA c : c = 10))

(***************************************************************************)
(* Durations, in milliseconds: numbers with units, each smaller than the   *)
(* one before.  A unit is known here by its short spelling.                *)
(***************************************************************************)
Units == [w |-> <<6, 604800000>>, d |-> <<5, 86400000>>, h |-> <<4, 3600000>>, m |-> <<3, 60000>>,
          s |-> <<2, 1000>>, ms |-> <<1, 1>>]
UnitOf(text) ==
    LET t == Lower(text)
    IN  CASE t = <<119>> -> "w" [] t = <<100>> -> "d" [] t = <<104>> -> "h" [] t = <<109>> -> "m"
          [] t = <<109, 115>> -> "ms" [] t \in {<<115>>, <<>>} -> "s" [] OTHER -> "unknown"
Dots(text) == Len(SelectSeq(text, LAMBDA c : c = 46))
RECURSIVE Numeral(_)
Numeral(s) == IF s = <<>> THEN 0 ELSE 10 * Numeral(Front(s)) + s[Len(s)] - 48
\* parse_u64 and parse_f64: whole units take no fraction.
Scaled(whole, part, ms) == Ok(Numeral(whole) * ms + (Numeral(part) * ms) \div 10 ^ Len(part))
AroundDot(number, dot, ms) ==
    IF dot = 0 THEN Scaled(number, <<>>, ms)
    ELSE Scaled(SubSeq(number, 1, dot - 1), SubSeq(number, dot + 1, Len(number)), ms)
Amount(number, unit) ==
    IF unit \notin DOMAIN Units \/ Dots(number) > (IF unit \in {"s", "ms"} THEN 1 ELSE 0) \/ number = <<46>>
    THEN Err("BadAmount")
    ELSE AroundDot(number, SelectInSeq(number, LAMBDA c : c = 46), Units[unit][2])
RECURSIVE parse_human(_, _, _, _)
\* A number that ends before n with the unit from u to e.
Group(s, p, n, u, e, last, total) ==
    LET unit == UnitOf(SubSeq(s, u, e - 1))
    IN  OnOk(Amount(SubSeq(s, p, n - 1), unit), LAMBDA ms :
            IF Units[unit][1] >= last THEN Err("UnitOrder")
            ELSE parse_human(s, e, Units[unit][1], total + ms))
UnitFrom(s, p, n, u, last, total) == Group(s, p, n, u, RunEnd(s, u, IsLetter), last, total)
NumberTo(s, p, n, last, total) ==
    IF n = p THEN Err("NoNumber") ELSE UnitFrom(s, p, n, RunEnd(s, n, LAMBDA c : c = 32), last, total)
parse_human(s, p, last, total) ==
    IF SourceAt(s, p) = 32 THEN parse_human(s, p + 1, last, total)
    ELSE IF p > Len(s) THEN IF total = 0 THEN Err("Zero") ELSE Ok(total)
    ELSE NumberTo(s, p, RunEnd(s, p, LAMBDA c : IsDigit(c) \/ c = 46), last, total)
\* iso8601_duration: days before a T, hours, minutes and seconds after it.
IsoPart(s, units) ==
    IF s = <<>> THEN Ok(0)
    ELSE IF IsDigit(s[Len(s)]) \/ \E i \in 1..Len(s) : IsLetter(s[i]) /\ Lower(s)[i] \notin units THEN Err("BadIso")
    ELSE parse_human(s, 1, 9, 0)
IsoParts(date, time) ==
    OnOk(IsoPart(date, {100, 119}), LAMBDA d :
        OnOk(IsoPart(time, {104, 109, 115}), LAMBDA t : IF d + t = 0 THEN Err("Zero") ELSE Ok(d + t)))
IsoAt(s, t) ==
    IF t = 0 THEN IsoParts(Tail(s), <<>>) ELSE IsoParts(SubSeq(s, 2, t - 1), SubSeq(s, t + 1, Len(s)))
parse_iso(s) == IsoAt(s, SelectInSeq(s, LAMBDA c : c \in {84, 116}))
ParseTrimmed(s) ==
    IF s = <<>> THEN Err("Empty") ELSE IF s[1] \in {80, 112} THEN parse_iso(s) ELSE parse_human(s, 1, 9, 0)
parse_interval(raw) == ParseTrimmed(Trim(raw))

(***************************************************************************)
(* Tokens.                                                                 *)
(***************************************************************************)
Symbols ==
    {<<<<43>>, "+">>, <<<<45>>, "-">>, <<<<42>>, "*">>, <<<<42, 42>>, "**">>, <<<<47>>, "/">>, <<<<37>>, "%">>,
     <<<<40>>, "(">>, <<<<41>>, ")">>, <<<<123>>, "{">>, <<<<125>>, "}">>, <<<<91>>, "[">>, <<<<93>>, "]">>,
     <<<<44>>, ",">>, <<<<58>>, ":">>, <<<<59>>, ";">>, <<<<94>>, "^">>, <<<<126>>, "~">>,
     <<<<33>>, "!">>, <<<<33, 61>>, "!=">>, <<<<61>>, "=">>, <<<<61, 61>>, "==">>,
     <<<<60>>, "<">>, <<<<60, 60>>, "<<">>, <<<<60, 61>>, "<=">>,
     <<<<62>>, ">">>, <<<<62, 62>>, ">>">>, <<<<62, 61>>, ">=">>,
     <<<<38>>, "&">>, <<<<38, 38>>, "&&">>, <<<<124>>, "|">>, <<<<124, 124>>, "||">>}
Words_reserved ==
    {<<<<116, 114, 117, 101>>, "Bool", TRUE>>, <<<<102, 97, 108, 115, 101>>, "Bool", FALSE>>,
     <<<<110, 117, 108, 108>>, "Null", <<>>>>, <<<<105, 102>>, "if", <<>>>>, <<<<101, 108, 115, 101>>, "else", <<>>>>,
     <<<<105, 110>>, "in", <<>>>>}

\* skip_trivia: blanks and comments; a comment leaves its newline in place.
RECURSIVE skip_trivia(_, _)
skip_trivia(src, p) ==
    IF SourceAt(src, p) \in {9, 10, 12, 13, 32} THEN skip_trivia(src, p + 1)
    ELSE IF SourceAt(src, p) = 35 THEN skip_trivia(src, RunEnd(src, p, LAMBDA c : c # 10))
    ELSE p

\* A place in the text: <<position, line>>.
Onward(src, at) == <<at[1] + 1, at[2] + (IF SourceAt(src, at[1]) = 10 THEN 1 ELSE 0)>>
\* Past a string nested in an interpolation, or past a text that never closes
\* it.  A newline that follows a backslash is not counted.
RECURSIVE NestedEnd(_, _, _)
NestedEnd(src, at, quote) ==
    LET c == SourceAt(src, at[1])
    IN  IF at[1] > Len(src) \/ c = quote THEN Onward(src, at)
        ELSE IF c = 92 /\ quote = 34 THEN NestedEnd(src, <<at[1] + 2, at[2]>>, quote)
        ELSE NestedEnd(src, Onward(src, at), quote)
\* Where the brace that closes an interpolation is; past the text when none is.
RECURSIVE read_interpolation_body(_, _, _)
read_interpolation_body(src, at, depth) ==
    LET c == SourceAt(src, at[1])
    IN  CASE at[1] > Len(src) \/ (c = 125 /\ depth = 1) -> at
          [] c \in {34, 39} -> read_interpolation_body(src, NestedEnd(src, Onward(src, at), c), depth)
          [] c \in {123, 125} ->
                read_interpolation_body(src, Onward(src, at), IF c = 123 THEN depth + 1 ELSE depth - 1)
          [] OTHER -> read_interpolation_body(src, Onward(src, at), depth)

Escapes == [c \in 0..127 |-> CASE c = 110 -> 10 [] c = 116 -> 9 [] c = 114 -> 13 [] OTHER -> c]
WithLiteral(parts, lit) == IF lit = <<>> THEN parts ELSE Append(parts, <<"Literal", lit>>)
\* The body of a double-quoted string, or of a template when not `quoted`.  An
\* escaped character outside ASCII is cut in the middle, and the next read of
\* the text panics.
RECURSIVE read_string_body(_, _, _, _, _, _)
read_string_body(src, p, line, quoted, lit, parts) ==
    LET c == SourceAt(src, p)
        next == SourceAt(src, p + 1)
        shut == read_interpolation_body(src, <<p + 1, line>>, 1)
    IN  CASE p > Len(src) ->
                IF quoted THEN Refused("UnterminatedString", p, line)
                ELSE Lexed("Str", WithLiteral(parts, lit), p, line)
          [] c = 34 /\ quoted -> Lexed("Str", WithLiteral(parts, lit), p + 1, line)
          [] c = 92 /\ quoted ->
                IF p = Len(src) THEN Refused("UnterminatedString", p, line)
                ELSE IF next > 127 THEN Refused("Panic", p, line)
                ELSE read_string_body(src, p + 2, line, quoted, Append(lit, Escapes[next]), parts)
          [] c = 123 /\ next = 123 -> read_string_body(src, p + 2, line, quoted, Append(lit, 123), parts)
          [] c = 123 ->
                IF shut[1] > Len(src) THEN Refused("UnterminatedInterpolation", p, line)
                ELSE read_string_body(src, shut[1] + 1, shut[2], quoted, <<>>,
                         Append(WithLiteral(parts, lit), <<"Expr", SubSeq(src, p + 1, shut[1] - 1)>>))
          [] c = 125 /\ next = 125 /\ ~quoted -> read_string_body(src, p + 2, line, quoted, Append(lit, 125), parts)
          [] OTHER -> read_string_body(src, p + 1, line + (IF c = 10 THEN 1 ELSE 0), quoted, Append(lit, c), parts)
\* Only a quote and a backslash are escaped in a single-quoted string.
RawEscape(c) == IF c \in {39, 92} THEN <<c>> ELSE <<92, c>>
RECURSIVE read_single_quoted_string(_, _, _, _)
read_single_quoted_string(src, p, line, content) ==
    LET c == SourceAt(src, p)
        next == SourceAt(src, p + 1)
    IN  IF p > Len(src) \/ (c = 92 /\ p = Len(src)) THEN Refused("UnterminatedString", p, line)
        ELSE IF c = 39 THEN Lexed("Raw", content, p + 1, line)
        ELSE IF c # 92
             THEN read_single_quoted_string(src, p + 1, line + (IF c = 10 THEN 1 ELSE 0), Append(content, c))
        ELSE IF next > 127 THEN Refused("Panic", p, line)
        ELSE read_single_quoted_string(src, p + 2, line, content \o RawEscape(next))
read_field_literal(src, p, line) ==
    LET q == RunEnd(src, p, LAMBDA c : c # 96)
        name == SubSeq(src, p, q - 1)
    IN  IF q > Len(src) THEN Refused("UnterminatedString", p, line)
        ELSE Lexed("Field", name, q + 1, line + Newlines(name))

RECURSIVE HexValue(_)
HexValue(s) == IF s = <<>> THEN 0 ELSE 16 * HexValue(Front(s)) + Nibble(s[Len(s)])
IntToken(n, q, line) == IF n > IntMax("Int64") THEN Refused("InvalidInteger", q, line) ELSE Lexed("Int", n, q, line)
read_number(src, p, line) ==
    LET q == RunEnd(src, p, IsDigit)
        r == RunEnd(src, q + 1, IsDigit)
        halves == 2 * Numeral(SubSeq(src, p, q - 1)) + (IF SourceAt(src, q + 1) \in 53..57 THEN 1 ELSE 0)
    IN  IF SourceAt(src, q) = 46 THEN Lexed("Float", halves, r, line)
        ELSE IntToken(Numeral(SubSeq(src, p, q - 1)), q, line)
read_number_or_hex(src, p, line) ==
    LET q == RunEnd(src, p + 2, IsHex)
    IN  IF src[p] # 48 \/ SourceAt(src, p + 1) \notin {88, 120} THEN read_number(src, p, line)
        ELSE IF q = p + 2 THEN Refused("NoHexDigits", q, line)
        ELSE IntToken(HexValue(SubSeq(src, p + 2, q - 1)), q, line)
Duration(r, q, line, Else(_)) == IF IsOk(r) THEN Lexed("Duration", r[2], q, line) ELSE Else(q)
TryDuration(word) ==
    IF \A i \in 1..Len(word) : ~IsLetter(word[i]) THEN Err("NoUnit") ELSE parse_interval(word)
DurationTo(src, p, q, line) ==
    Duration(TryDuration(SubSeq(src, p, q - 1)), q, line, LAMBDA x : read_number_or_hex(src, p, line))
try_read_human_duration(src, p, line) ==
    DurationTo(src, p, RunEnd(src, p, LAMBDA c : IsDigit(c) \/ IsLetter(c) \/ c = 46), line)
parse_iso_duration_ident(word) ==
    IF Len(word) > 1 /\ word[1] \in {80, 112} /\ (IsDigit(word[2]) \/ word[2] \in {84, 116})
    THEN parse_interval(word) ELSE Err("NotIso")
Word(word, q, line) ==
    IF \E k \in Words_reserved : k[1] = word
    THEN LET k == CHOOSE x \in Words_reserved : x[1] = word IN Lexed(k[2], k[3], q, line)
    ELSE Duration(parse_iso_duration_ident(word), q, line, LAMBDA x : Lexed("Ident", Named(word), q, line))
WordTo(src, p, q, line) == Word(SubSeq(src, p, q - 1), q, line)
read_ident_or_keyword(src, p, line) == WordTo(src, p, RunEnd(src, p, IsWord), line)

SymbolsAt(src, p) ==
    {s \in Symbols : p + Len(s[1]) - 1 <= Len(src) /\ SubSeq(src, p, p + Len(s[1]) - 1) = s[1]}
LongestSymbol(hits) == CHOOSE s \in hits : \A t \in hits : Len(s[1]) >= Len(t[1])
SymbolToken(hits, p, line) ==
    IF hits = {} THEN Refused("UnexpectedCharacter", p, line)
    ELSE LET s == LongestSymbol(hits) IN Lexed(s[2], <<>>, p + Len(s[1]), line)
next_token(src, p, line) ==
    LET c == src[p]
    IN  CASE c = 34 -> read_string_body(src, p + 1, line, TRUE, <<>>, <<>>)
          [] c = 39 -> read_single_quoted_string(src, p + 1, line, <<>>)
          [] c = 96 -> read_field_literal(src, p + 1, line)
          [] IsDigit(c) -> try_read_human_duration(src, p, line)
          [] IsWord(c) /\ ~IsDigit(c) -> read_ident_or_keyword(src, p, line)
          [] OTHER -> SymbolToken(SymbolsAt(src, p), p, line)
RECURSIVE TokensFrom(_, _, _, _)
Taken(src, t, line, toks) ==
    IF t.ok THEN TokensFrom(src, t.pos, t.line, Append(toks, Tok(t.kind, t.payload, line))) ELSE Err(t.kind)
TokensAt(src, start, line, toks) ==
    IF start > Len(src) THEN Ok(Append(toks, Tok("Eof", <<>>, line)))
    ELSE Taken(src, next_token(src, start, line), line, toks)
TokensFrom(src, p, line, toks) ==
    LET start == skip_trivia(src, p)
    IN  TokensAt(src, start, line + Newlines(SubSeq(src, p, start - 1)), toks)
tokenize(src) == TokensFrom(src, 1, 1, <<>>)
tokenize_as_interpolation(src) ==
    LET t == read_string_body(src, 1, 1, FALSE, <<>>, <<>>)
    IN  IF t.ok THEN Ok(<<Tok("Str", t.payload, t.line), Tok("Eof", <<>>, t.line)>>) ELSE Err(t.kind)

(***************************************************************************)
(* Which configuration values are expressions.                             *)
(***************************************************************************)
statement_looks_like_expression(s) ==
    LET stop == SelectInSeq(s, LAMBDA c : c \in {40, 61, 91})
        end == RunEnd(s, 1, IsWord)
    IN  \/ s[1] = 91
        \/ stop > 1 /\ IsLetter(s[1]) /\ \A i \in end..stop - 1 : IsSpace(s[i])
\* The pieces of a text between any two of the separators.
Pieces(s, Sep(_)) ==
    LET cuts == {0, Len(s) + 1} \cup {i \in 1..Len(s) : Sep(s[i])}
    IN  {SubSeq(s, a + 1, Min({b \in cuts : b > a}) - 1) : a \in cuts \ {Len(s) + 1}}
is_expression(s) ==
    \E piece \in Pieces(s, LAMBDA c : c \in {59, 10}) :
        Trim(piece) # <<>> /\ statement_looks_like_expression(Trim(piece))
RECURSIVE InterpolationFrom(_, _)
InterpolationFrom(s, i) ==
    i <= Len(s) /\ (IF s[i] # 123 THEN InterpolationFrom(s, i + 1)
                    ELSE SourceAt(s, i + 1) # 123 \/ InterpolationFrom(s, i + 2))
has_interpolation(s) == InterpolationFrom(s, 1)

-----------------------------------------------------------------------------
(* crates/expr/parse, parser.rs and pratt_operator.rs: the recursive descent *)
(* parser as a machine with an explicit stack.  A frame is a function of the *)
(* parser, or the rest of one that waits for the expression it asked for;    *)
(* `ret` is what the last function gave.  A tree is <<op, arg, kids>>, as in *)
(* ExprEval.                                                                 *)

CONSTANTS
    MaxExprDepth, MaxAstNodes, MaxVariables, MaxFunctionArgs, MaxSourceLen,   \* the limits of limits.rs, scaled
    Parses     \* what is parsed: [form, comptime, of, expect]

VARIABLES
    input,    \* the member of Parses
    ps,       \* ParseState: [toks, pos, depth, nodes, vars, comptime]
    stack,    \* the calls under way, innermost last
    ret,      \* <<>>, or <<v>> when the innermost call has returned v
    outcome   \* <<"running">>, Ok(tree) or Err(kind)
parseVars == <<input, ps, stack, ret, outcome>>

Ast(op, arg, kids) == <<op, arg, kids>>
Lit(v) == Ast("const", v, <<>>)
CallTo(f, kids) == Ast("call", f, kids)
\* Statements and the expression that ends them.
Scope(op, stmts, result) ==
    Ast(op, [i \in 1..Len(stmts) |-> stmts[i][1]], Append([i \in 1..Len(stmts) |-> stmts[i][2]], result))

FreshState(toks, comptime) ==
    [toks |-> toks, pos |-> 1, depth |-> 0, nodes |-> 0, vars |-> 0, comptime |-> comptime]
TokenAt(p, k) == IF p.pos + k <= Len(p.toks) THEN p.toks[p.pos + k] ELSE Tok("Eof", <<>>, 0)
PeekAt(p, k) == TokenAt(p, k)[1]
Peek(p) == PeekAt(p, 0)
Advance(p, k) == [p EXCEPT !.pos = @ + k]
increment_depth(p) == [p EXCEPT !.depth = @ + 1]
\* Mutant: a call that holds several units gives one back.
ReleaseOne(p, k) == [p EXCEPT !.depth = @ - (IF k = 0 THEN 0 ELSE 1)]
Release(p, k) == [p EXCEPT !.depth = @ - k]
count_node(p) == [p EXCEPT !.nodes = @ + 1]

Running == outcome = <<"running">>
Top == stack[Len(stack)]
Calling(f) == Running /\ ret = <<>> /\ Top[1] = f
Resuming(f) == Running /\ ret # <<>> /\ stack # <<>> /\ Top[1] = f
Value == ret[1]
Fail(why) ==
    /\ outcome' = Err(why) /\ ret' = <<>> /\ stack' = <<>>
    /\ UNCHANGED <<input, ps>>
\* The innermost frame gives way to `frames`, unless a limit has been passed.
Move(p, frames, r) ==
    IF p.depth > MaxExprDepth THEN Fail("NestingTooDeep")
    ELSE IF p.nodes > MaxAstNodes THEN Fail("TooManyNodes")
    ELSE IF p.vars > MaxVariables THEN Fail("TooManyVariables")
    ELSE /\ ps' = p /\ ret' = r
         /\ stack' = Front(stack) \o frames
         /\ UNCHANGED <<input, outcome>>
Give(p, v) == Move(p, <<>>, <<v>>)
Ask(p, frames) == Move(p, frames, <<>>)
\* expect(kind) and then Done, or a parse error.
Expecting(kind, p, Done(_)) == IF Peek(p) = kind THEN Done(Advance(p, 1)) ELSE Fail("Parse")

(***************************************************************************)
(* Operators.                                                              *)
(***************************************************************************)
for_token ==
    ("||" :> <<"or", 1, "left">>) @@ ("&&" :> <<"and", 2, "left">>) @@ ("|" :> <<"bitOr", 3, "left">>)
    @@ ("^" :> <<"bitXor", 4, "left">>) @@ ("&" :> <<"bitAnd", 5, "left">>)
    @@ ("==" :> <<"equals", 6, "none">>) @@ ("!=" :> <<"notEquals", 6, "none">>) @@ ("<" :> <<"less", 6, "none">>)
    @@ (">" :> <<"greater", 6, "none">>) @@ ("<=" :> <<"lessOrEquals", 6, "none">>)
    @@ (">=" :> <<"greaterOrEquals", 6, "none">>) @@ ("in" :> <<"contains", 6, "none">>)
    @@ ("<<" :> <<"bitShiftLeft", 7, "left">>) @@ (">>" :> <<"bitShiftRight", 7, "left">>)
    @@ ("+" :> <<"add", 8, "left">>) @@ ("-" :> <<"subtract", 8, "left">>) @@ ("*" :> <<"multiply", 9, "left">>)
    @@ ("/" :> <<"divide", 9, "left">>) @@ ("%" :> <<"modulo", 9, "left">>) @@ ("**" :> <<"power", 10, "right">>)
IsOperator(kind) == kind \in DOMAIN for_token
NonAssociative(kind) == IsOperator(kind) /\ for_token[kind][3] = "none"
binding_powers(op) == IF op[3] = "right" THEN <<2 * op[2] + 1, 2 * op[2]>> ELSE <<2 * op[2], 2 * op[2] + 1>>
build(op, left, right) ==
    CASE op[1] \in {"and", "or"} -> Ast(op[1], <<>>, <<left, right>>)
      [] op[1] = "contains" -> CallTo("contains", <<right, left>>)
      [] OTHER -> CallTo(op[1], <<left, right>>)

parse_expr == Calling("expr") /\ Ask(increment_depth(ps), <<<<"expr_end">>, <<"binary", 0>>>>)
parse_expr_end == Resuming("expr_end") /\ Give(Release(ps, 1), Value)
parse_binary_expr == Calling("binary") /\ Ask(ps, <<<<"fold", Top[2], 0>>, <<"unary">>>>)
\* fold_binary_chain, with the left side in hand; it holds a depth unit for
\* each operator it has consumed.
fold_binary_chain ==
    /\ Resuming("fold")
    /\ LET op == for_token[Peek(ps)]
           power == binding_powers(op)
       IN  IF ~IsOperator(Peek(ps)) \/ power[1] < Top[2] THEN Give(Release(ps, Top[3]), Value)
           ELSE Ask(increment_depth(Advance(ps, 1)),
                    <<<<"fold_right", Top[2], Top[3] + 1, Value, Peek(ps)>>, <<"binary", power[2]>>>>)
Chains(kind, next) == NonAssociative(kind) /\ NonAssociative(next)
fold_right ==
    /\ Resuming("fold_right")
    /\ IF ps.nodes < MaxAstNodes /\ Chains(Top[5], Peek(ps)) THEN Fail("Parse")
       ELSE Move(count_node(ps), <<<<"fold", Top[2], Top[3]>>>>, <<build(for_token[Top[5]], Top[4], Value)>>)

PrefixOps == ("-" :> "negate") @@ ("!" :> "not") @@ ("~" :> "bitNot")
parse_unary_expr ==
    /\ Calling("unary")
    /\ IF Peek(ps) \in DOMAIN PrefixOps
       THEN Ask(increment_depth(Advance(ps, 1)), <<<<"unary_end", PrefixOps[Peek(ps)]>>, <<"unary">>>>)
       ELSE Ask(ps, <<<<"postfix", 0>>, <<"call">>>>)
parse_unary_end == Resuming("unary_end") /\ Give(count_node(Release(ps, 1)), CallTo(Top[2], <<Value>>))

(***************************************************************************)
(* Subscripts, calls and conditionals.                                     *)
(***************************************************************************)
\* With the colon next: the end of a slice is the bracket or an expression.
SliceFrom(p, holds, base, start) ==
    IF PeekAt(p, 1) = "]"
    THEN Move(count_node(Advance(p, 2)), <<<<"postfix", holds>>>>, <<CallTo("slice", <<base, start, Lit(Null)>>)>>)
    ELSE Ask(Advance(p, 1), <<<<"slice", holds, base, start>>, <<"expr">>>>)
parse_postfix_expr ==
    /\ Resuming("postfix")
    /\ LET p == increment_depth(Advance(ps, 1))
       IN  IF Peek(ps) # "[" THEN Give(Release(ps, Top[2]), Value)
           ELSE IF p.depth > MaxExprDepth THEN Fail("NestingTooDeep")
           ELSE IF Peek(p) = "]" THEN Fail("Parse")
           ELSE IF Peek(p) = ":" THEN SliceFrom(p, Top[2] + 1, Value, Lit(Null))
           ELSE Ask(p, <<<<"index", Top[2] + 1, Value>>, <<"expr">>>>)
parse_subscript ==
    /\ Resuming("index")
    /\ IF Peek(ps) = ":" THEN SliceFrom(ps, Top[2], Top[3], Value)
       ELSE Expecting("]", ps, LAMBDA p :
                Move(count_node(p), <<<<"postfix", Top[2]>>>>, <<CallTo("element", <<Top[3], Value>>)>>))
parse_slice_end ==
    /\ Resuming("slice")
    /\ Expecting("]", ps, LAMBDA p :
           Move(count_node(p), <<<<"postfix", Top[2]>>>>, <<CallTo("slice", <<Top[3], Top[4], Value>>)>>))

\* The text of a string token without interpolations, and of a selector.
HasExpr(parts) == \E i \in 1..Len(parts) : parts[i][1] = "Expr"
PlainText(parts) == FlattenSeq([i \in 1..Len(parts) |-> parts[i][2]])
SplitNames(text) ==
    LET cuts == SetToSortSeq({0, Len(text) + 1} \cup {i \in 1..Len(text) : text[i] = 44}, <)
    IN  [i \in 1..Len(cuts) - 1 |-> Trim(SubSeq(text, cuts[i] + 1, cuts[i + 1] - 1))]
parse_fields ==
    LET t == TokenAt(ps, 2)
        text == IF t[1] = "Raw" THEN t[2] ELSE PlainText(t[2])
        selector == IF text = <<42>> THEN <<"All">> ELSE <<"Named", SplitNames(text)>>
    IN  IF \/ ps.comptime \/ t[1] \notin {"Raw", "Str"}
           \/ t[1] = "Str" /\ (Len(t[2]) # 1 \/ HasExpr(t[2]))
           \/ \E i \in 1..Len(SplitNames(text)) : SplitNames(text)[i] = <<>>
        THEN Fail("Parse")
        ELSE Expecting(")", Advance(ps, 3), LAMBDA p : Give(count_node(p), Ast("fields", selector, <<>>)))

\* A list of expressions with commas between them, one of which may trail.
ListOf(kind, items) == <<<<"list", kind, items>>, <<"expr">>>>
Closer(kind) == IF kind = <<"array">> THEN "]" ELSE ")"
parse_call_expr ==
    /\ Calling("call")
    /\ LET name == TokenAt(ps, 0)[2]
           call == Peek(ps) = "Ident" /\ PeekAt(ps, 1) = "("
           inside == Advance(ps, 2)
       IN  CASE Peek(ps) = "if" -> Ask(ps, <<<<"if", <<>>, 0>>>>)
             [] call /\ name \in {"multiIf", "coalesce"} -> Ask(inside, ListOf(<<name>>, <<>>))
             [] call /\ name \in {"ifNull", "nullIf"} -> Ask(inside, <<<<"pair", name, <<>>>>, <<"expr">>>>)
             [] call /\ name = "field" ->
                    IF ps.comptime THEN Fail("Parse") ELSE Ask(inside, <<<<"field_end">>, <<"expr">>>>)
             [] call /\ name = "fields" -> parse_fields
             [] call /\ name \notin {"multiIf", "coalesce", "ifNull", "nullIf", "field", "fields"} ->
                    IF Peek(inside) = ")" THEN Give(count_node(Advance(inside, 1)), CallTo(name, <<>>))
                    ELSE Ask(inside, ListOf(<<"call", name>>, <<>>))
             [] OTHER -> Ask(ps, <<<<"primary">>>>)

\* coalesce(a, b, c) is ifNull(a, ifNull(b, c)); each wrap costs a node and,
\* while the chain is built, a depth unit.
parse_coalesce_conditional(p, args) ==
    LET wraps == Len(args) - 1
        nodes == MaxAstNodes - p.nodes
        units == MaxExprDepth - p.depth
    IN  IF wraps > nodes /\ nodes <= units THEN Fail("TooManyNodes")
        ELSE IF wraps > units THEN Fail("NestingTooDeep")
        ELSE Give([p EXCEPT !.nodes = @ + wraps],
                  FoldRight(LAMBDA a, t : Ast("ifnull", <<>>, <<a, t>>), Front(args), args[Len(args)]))
ListItems(p, kind, items) ==
    CASE kind = <<"array">> -> Give(p, Ast("array", <<>>, items))
      [] kind = <<"multiIf">> ->
            IF Len(items) < 3 \/ Len(items) % 2 = 0 THEN Fail("Parse")
            ELSE Give(count_node(p), Ast("multiif", <<>>, items))
      [] kind = <<"coalesce">> -> parse_coalesce_conditional(p, items)
      [] OTHER -> Give(count_node(p), CallTo(kind[2], items))
parse_args ==
    /\ Resuming("list")
    /\ LET items == Append(Top[3], Value)
           kind == Top[2]
           more == Peek(ps) = "," /\ PeekAt(ps, 1) # Closer(kind)
           end == IF Peek(ps) = "," THEN Advance(ps, 1) ELSE ps
       IN  IF more THEN Ask(Advance(ps, 1), ListOf(kind, items))
           ELSE IF kind[1] = "call" /\ Len(items) > MaxFunctionArgs THEN Fail("Parse")
           ELSE Expecting(Closer(kind), end, LAMBDA p : ListItems(p, kind, items))
\* ifNull and nullIf.
parse_pair ==
    /\ Resuming("pair")
    /\ IF Top[3] = <<>>
       THEN Expecting(",", ps, LAMBDA p : Ask(p, <<<<"pair", Top[2], <<Value>>>>, <<"expr">>>>))
       ELSE Expecting(")", ps, LAMBDA p :
                Give(count_node(p), Ast(IF Top[2] = "ifNull" THEN "ifnull" ELSE "nullif", <<>>, Append(Top[3], Value))))
parse_field ==
    /\ Resuming("field_end")
    /\ Expecting(")", ps, LAMBDA p : Give(count_node(p), Ast("field", <<>>, <<Value>>)))

\* An if in either form, and the ifs chained to its else; `parens` are the
\* brackets of function-style links still open.
parse_if_expression ==
    /\ Calling("if")
    /\ IF PeekAt(ps, 1) # "(" THEN Fail("Parse")
       ELSE Ask(Advance(ps, 2), <<<<"if_cond", Top[2], Top[3]>>, <<"expr">>>>)
parse_if_condition ==
    /\ Resuming("if_cond")
    /\ IF Peek(ps) \notin {",", ")"} THEN Fail("Parse")
       ELSE Ask(Advance(ps, 1),
                IF Peek(ps) = "," THEN <<<<"if_value", Top[2], Top[3], Value>>, <<"expr">>>>
                ELSE <<<<"if_then", Top[2], Top[3], Value>>, <<"branch">>>>)
parse_if_value ==
    /\ Resuming("if_value")
    /\ LET branches == Top[2] \o <<Top[4], Value>>
       IN  Expecting(",", ps, LAMBDA p :
               Ask(p, IF Peek(p) = "if" /\ PeekAt(p, 1) = "(" THEN <<<<"if", branches, Top[3] + 1>>>>
                      ELSE <<<<"if_default", branches, Top[3] + 1>>, <<"expr">>>>))
parse_if_then ==
    /\ Resuming("if_then")
    /\ LET branches == Top[2] \o <<Top[4], Value>>
       IN  Expecting("else", ps, LAMBDA p :
               Ask(p, IF Peek(p) = "if" THEN <<<<"if", branches, Top[3]>>>>
                      ELSE <<<<"if_default", branches, Top[3]>>, <<"branch">>>>))
Owed(branches, parens) == parens
parse_if_default ==
    /\ Resuming("if_default")
    /\ LET owed == Owed(Top[2], Top[3])
           kids == Append(Top[2], Value)
       IN  IF \E k \in 0..owed - 1 : PeekAt(ps, k) # ")" THEN Fail("Parse")
           ELSE Give(count_node(Advance(ps, owed)), Ast(IF Len(kids) = 3 THEN "if" ELSE "multiif", <<>>, kids))
parse_branch ==
    /\ Calling("branch")
    /\ LET object == \/ PeekAt(ps, 1) = "}"
                     \/ PeekAt(ps, 1) \in {"Str", "Raw"} /\ PeekAt(ps, 2) = "="
       IN  IF Peek(ps) # "{" THEN Ask(ps, <<<<"expr">>>>)
           ELSE Ask(count_node(Advance(ps, 1)), IF object THEN <<<<"object", <<>>, <<>>>>>> ELSE <<<<"block", <<>>>>>>)

(***************************************************************************)
(* Statements, blocks and programs.                                        *)
(***************************************************************************)
is_statement_start == Peek(ps) = "Ident" /\ PeekAt(ps, 1) = "="
Statements(stmts) == <<<<"statement", TokenAt(ps, 0)[2], stmts, Top[1]>>, <<"expr">>>>
Assigned == [Advance(ps, 2) EXCEPT !.vars = @ + 1]
parse_block ==
    /\ Calling("block")
    /\ IF is_statement_start THEN Ask(Assigned, Statements(Top[2]))
       ELSE IF Peek(ps) \in {"}", "Eof"} THEN Fail("Parse")
       ELSE Ask(ps, <<<<"block_end", Top[2]>>, <<"expr">>>>)
parse_block_end ==
    /\ Resuming("block_end")
    /\ Expecting("}", ps, LAMBDA p : Give(p, IF Top[2] = <<>> THEN Value ELSE Scope("block", Top[2], Value)))
parse_program ==
    /\ Calling("program")
    /\ IF is_statement_start THEN Ask(Assigned, Statements(Top[2]))
       ELSE Ask(ps, <<<<"program_end", Top[2]>>, <<"expr">>>>)
parse_program_end ==
    /\ Resuming("program_end")
    /\ IF Peek(ps) # "Eof" THEN Fail("Parse") ELSE Give(ps, Scope("program", Top[2], Value))
\* A statement ends at a semicolon, or at a token on another line than the one
\* its last token begins on.
parse_statement ==
    /\ Resuming("statement")
    /\ LET after == IF Peek(ps) = ";" THEN Advance(ps, 1) ELSE ps
       IN  IF Peek(ps) \notin {";", "Eof"} /\ TokenAt(ps, 0)[3] = TokenAt(ps, -1)[3] THEN Fail("Parse")
           ELSE Ask(after, <<<<Top[4], Append(Top[3], <<Top[2], Value>>)>>>>)

(***************************************************************************)
(* Literals.                                                               *)
(***************************************************************************)
Literals == [Int |-> "Int64", Float |-> "Float64", Raw |-> "Text", Bool |-> "Bool", Duration |-> "Interval"]
parse_primary ==
    /\ Calling("primary")
    /\ LET t == TokenAt(ps, 0)
           one == count_node(Advance(ps, 1))
       IN  CASE t[1] \in DOMAIN Literals -> Give(one, Lit(<<Literals[t[1]], t[2]>>))
             [] t[1] = "Null" -> Give(one, Lit(Null))
             [] t[1] = "Ident" -> Give(one, Ast("var", t[2], <<>>))
             [] t[1] = "Str" ->
                    IF HasExpr(t[2]) THEN Ask(one, <<<<"interp", t[2], <<>>>>>>)
                    ELSE Give(one, Lit(<<"Text", PlainText(t[2])>>))
             [] t[1] = "Field" ->
                    IF ps.comptime THEN Fail("Parse")
                    ELSE Give(one, Ast("field", <<>>, <<Lit(<<"Text", t[2]>>)>>))
             [] t[1] = "(" -> Ask(Advance(ps, 1), <<<<"paren">>, <<"expr">>>>)
             [] t[1] = "{" -> Ask(one, <<<<"object", <<>>, <<>>>>>>)
             [] t[1] = "[" ->
                    IF Peek(one) = "]" THEN Give(Advance(one, 1), Ast("array", <<>>, <<>>))
                    ELSE Ask(one, ListOf(<<"array">>, <<>>))
             [] OTHER -> Fail("Parse")
parse_paren == Resuming("paren") /\ Expecting(")", ps, LAMBDA p : Give(p, Value))
\* Past the brace, a comma or the last entry of an object.
parse_object ==
    /\ Calling("object")
    /\ LET t == TokenAt(ps, 0)
           key == IF t[1] = "Raw" THEN t[2] ELSE PlainText(t[2])
       IN  IF t[1] = "}" THEN Give(Advance(ps, 1), Ast("object", Top[2], Top[3]))
           ELSE IF t[1] \notin {"Str", "Raw"} \/ (t[1] = "Str" /\ HasExpr(t[2])) THEN Fail("Parse")
           ELSE Expecting("=", Advance(ps, 1), LAMBDA p :
                    Ask(p, <<<<"entry", Append(Top[2], key), Top[3]>>, <<"expr">>>>))
parse_object_entry ==
    /\ Resuming("entry")
    /\ IF Peek(ps) \notin {",", "}"} THEN Fail("Parse")
       ELSE Ask(IF Peek(ps) = "," THEN Advance(ps, 1) ELSE ps, <<<<"object", Top[2], Append(Top[3], Value)>>>>)

\* build_string_expr: each interpolated source is parsed on its own, with
\* counters of its own and the runtime grammar.
build_string_expr ==
    /\ Calling("interp")
    /\ IF Top[2] = <<>> THEN Give(ps, Ast("interp", <<>>, Top[3]))
       ELSE LET part == Head(Top[2])
            IN  Ask(ps, IF part[1] = "Literal"
                        THEN <<<<"interp", Tail(Top[2]), Append(Top[3], Lit(<<"Text", part[2]>>))>>>>
                        ELSE <<<<"interp_expr", Tail(Top[2]), Top[3], ps>>, <<"source", part[2], FALSE>>>>)
ResultOf(program) == program[3][Len(program[3])]
build_interpolated ==
    /\ Resuming("interp_expr")
    /\ Ask(Top[4], <<<<"interp", Top[2], Append(Top[3], CallTo("toString", <<ResultOf(Value)>>))>>>>)

(***************************************************************************)
(* Sources, configuration values and TOML.                                 *)
(***************************************************************************)
ParseTokens(toks, comptime) ==
    IF IsOk(toks) THEN Ask(FreshState(toks[2], comptime), <<<<"program", <<>>>>>>) ELSE Fail(toks[2])
Within(text, toks) == IF Len(text) > MaxSourceLen THEN Err("ExpressionTooLong") ELSE toks
parse_inner == Calling("source") /\ ParseTokens(Within(Top[2], tokenize(Top[2])), Top[3])
\* Parser::parse.
parse ==
    /\ Calling("value")
    /\ IF is_expression(Top[2]) THEN ParseTokens(Within(Top[2], tokenize(Top[2])), Top[3])
       ELSE IF has_interpolation(Top[2])
            THEN ParseTokens(Within(Top[2], tokenize_as_interpolation(Top[2])), Top[3])
       ELSE Give(ps, Scope("program", <<>>, Lit(<<"Text", Top[2]>>)))
TomlScalars == [Integer |-> "Int64", Float |-> "Float64", Boolean |-> "Bool"]
parse_toml_expr ==
    /\ Calling("toml")
    /\ LET v == Top[2]
       IN  IF Top[3] > MaxExprDepth THEN Fail("NestingTooDeep")
           ELSE IF v[1] = "String" THEN Ask(ps, <<<<"toml_text">>, <<"value", v[2], input.comptime>>>>)
           ELSE IF v[1] \in DOMAIN TomlScalars THEN Give(ps, Lit(<<TomlScalars[v[1]], v[2]>>))
           ELSE Ask(ps, <<<<"toml_items", v, <<>>, Top[3]>>>>)
parse_toml_items ==
    /\ Calling("toml_items")
    /\ LET v == Top[2]
           done == Top[3]
       IN  IF Len(done) = Len(v[3]) THEN Give(ps, Ast(IF v[1] = "Table" THEN "object" ELSE "array", v[2], done))
           ELSE Ask(ps, <<<<"toml_item", v, done, Top[4]>>, <<"toml", v[3][Len(done) + 1], Top[4] + 1>>>>)
parse_toml_item == Resuming("toml_item") /\ Ask(ps, <<<<"toml_items", Top[2], Append(Top[3], Value), Top[4]>>>>)
parse_toml_text == Resuming("toml_text") /\ Give(ps, ResultOf(Value))

EntryFrame(i) ==
    CASE i.form = "tokens" -> <<"program", <<>>>>
      [] i.form = "toml" -> <<"toml", i.of, 0>>
      [] OTHER -> <<i.form, i.of, i.comptime>>
ParseInit ==
    /\ input \in Parses
    /\ ps = FreshState(IF input.form = "tokens" THEN input.of ELSE <<>>, input.comptime)
    /\ stack = <<EntryFrame(input)>>
    /\ ret = <<>> /\ outcome = <<"running">>
Finish ==
    /\ Running /\ stack = <<>> /\ outcome' = Ok(Value)
    /\ ret' = <<>> /\ UNCHANGED <<input, ps, stack>>
Rested == ~Running /\ UNCHANGED parseVars
Step ==
    \/ parse_expr \/ parse_expr_end \/ parse_binary_expr \/ fold_binary_chain \/ fold_right
    \/ parse_unary_expr \/ parse_unary_end \/ parse_postfix_expr \/ parse_subscript \/ parse_slice_end
    \/ parse_call_expr \/ parse_args \/ parse_pair \/ parse_field
    \/ parse_if_expression \/ parse_if_condition \/ parse_if_value \/ parse_if_then \/ parse_if_default
    \/ parse_branch \/ parse_block \/ parse_block_end \/ parse_statement \/ parse_program \/ parse_program_end
    \/ parse_primary \/ parse_paren \/ parse_object \/ parse_object_entry
    \/ build_string_expr \/ build_interpolated \/ parse_inner \/ parse
    \/ parse_toml_expr \/ parse_toml_items \/ parse_toml_item \/ parse_toml_text \/ Finish
ParseNext == Step \/ Rested
ParseSpec == ParseInit /\ [][ParseNext]_parseVars

(***************************************************************************)
(* What the parser promises.                                               *)
(***************************************************************************)
\* Where the parser is known to do otherwise.  A backslash before a character
\* outside ASCII cuts it in two, and reading on panics; and an interpolated
\* source is parsed with the runtime grammar also where a configuration is
\* patched, so that its field references are let through.
CutsCharacter(text) == \E i \in 1..Len(text) - 1 : text[i] = 92 /\ text[i + 1] > 127
Interpolates(toks) == IsOk(toks) /\ \E i \in 1..Len(toks[2]) : toks[2][i][1] = "Str" /\ HasExpr(toks[2][i][2])
KnownOtherwise ==
    /\ input.form = "source"
    /\ \/ outcome = Err("Panic") /\ CutsCharacter(input.of)
       \/ input.comptime /\ IsOk(outcome) /\ Interpolates(tokenize(input.of))
\* An input whose meaning is known without this parser (an operator chain
\* grouped by the precedence levels, a tree written out with brackets, a text
\* inside quotes or a template, a nesting at a limit) is parsed to exactly that
\* tree, and refused exactly when it has none; a configuration has no row, so
\* that field references have no meaning there (parser.rs, Parser).
ParsedAsMeant == ~Running /\ input.expect # <<"any">> => outcome = input.expect \/ KnownOtherwise

\* A parse may be nested in others: each interpolated source, and each text of a
\* TOML value, is parsed by a call inside them with a depth counter of its own.
\* Cuts are the frames that wait for such a parse, and CallsTo(i) the frames of
\* the parse that waits in, or ends at, frame i.
NestedParse == {"interp_expr", "toml_text", "toml_item"}
Cuts == {i \in 1..Len(stack) : stack[i][1] \in NestedParse}
CallsTo(i) == SubSeq(stack, Max({0} \cup {j \in Cuts : j < i}) + 1, i)
DepthAt(i) ==
    IF i \notin Cuts THEN ps.depth ELSE IF stack[i][1] = "interp_expr" THEN stack[i][4].depth ELSE 0
UnitsHeld(f) ==
    CASE f[1] \in {"expr_end", "unary_end"} -> 1
      [] f[1] \in {"fold", "fold_right"} -> f[3]
      [] f[1] \in {"postfix", "index", "slice"} -> f[2]
      [] OTHER -> 0
Interpolating == {i \in Cuts : stack[i][1] = "interp_expr"}
\* The depth guard stands for the native stack ("keeps the native parse stack
\* shallow (a handful of frames per level, not ~13)"): in each of the parses
\* under way the depth is at all times the units held by its calls, none of them
\* given back early or kept after its call, and no level of it holds more than
\* six calls.  The guard does not see how deep parses are nested: what bounds the
\* whole stack there is the length of the source, of which each interpolation in
\* an interpolation takes four characters.
FramesPerLevel == 6
GuardCoversStack ==
    Running /\ (stack = <<>> \/ Top[1] \notin {"source", "value"}) =>
        /\ \A i \in Cuts \cup {Len(stack)} :
              /\ DepthAt(i) = FoldLeft(LAMBDA n, f : n + UnitsHeld(f), 0, CallsTo(i))
              /\ Len(CallsTo(i)) <= FramesPerLevel * (DepthAt(i) + 1)
        /\ 4 * (Cardinality(Interpolating) - 1) <= MaxSourceLen
        /\ Cardinality(Cuts \ Interpolating) <= MaxExprDepth + 1

\* The parser gives the tree that was meant, within the stack its guard promises.
ParserSound == ParsedAsMeant /\ GuardCoversStack
=============================================================================
