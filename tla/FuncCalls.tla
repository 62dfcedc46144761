----------------------------- MODULE FuncCalls ------------------------------
(* The life of one call site: the registry finds the function, the compiler   *)
(* asks its contract about the arguments' types and constants, and rows       *)
(* evaluate it: two in one batch and one in a later batch.                    *)
EXTENDS FuncRegistry

CONSTANTS
    Functions,      \* references of registered functions
    Args,           \* Args[n]: arguments of a call of n, as [net, v]
    Lits(_, _)      \* the sets of positions that may be constants

VARIABLES
    site,           \* [f, n, args, lits]; args and lits once the call is bound
    answers         \* what the function said so far

callVars == <<site, answers>>

Questions == <<"arity", "type", "pure", "can_fail", "value", "value", "value">>
Row(k) == [now |-> IF k = 7 THEN DayTicks ELSE 0, draw |-> IF k = 5 THEN 0 ELSE 1]
Bound == site.args # <<>> \/ (site.n = 0 /\ Len(answers) > 0)
Nets == [i \in 1..site.n |-> site.args[i].net]
Vals == [i \in 1..site.n |-> site.args[i].v]
Consts == [i \in 1..site.n |-> IF i \in site.lits THEN <<site.args[i].v>> ELSE <<>>]

CallInit ==
    /\ \E f \in Functions, n \in DOMAIN Args : site = [f |-> f, n |-> n, args |-> <<>>, lits |-> {}]
    /\ answers = <<>>

\* get_ref: an overload that admits the number of arguments, or no call.
GetRef ==
    /\ Len(answers) = 1 /\ ~Bound
    /\ admits(answers[1], site.n)
    /\ \E args \in [1..site.n -> Args[site.n]], lits \in Lits(site.f, site.n) :
          site' = [site EXCEPT !.args = args, !.lits = lits]
    /\ UNCHANGED answers

\* A type the function refuses ends compilation.
Ask ==
    LET k == Len(answers) + 1
    IN  /\ k <= Len(Questions)
        /\ k > 1 => Bound /\ admits(answers[1], site.n)
        /\ k > 2 => IsOk(answers[2])
        /\ answers' = Append(answers,
              Call(site.f, Questions[k], IF k = 1 THEN <<>> ELSE IF k = 2 THEN Nets ELSE Vals, Row(k)))
        /\ UNCHANGED site

CallNext == GetRef \/ Ask
CallSpec == CallInit /\ [][CallNext]_callVars

(***************************************************************************)
(* Properties.                                                             *)
(***************************************************************************)
Answered == Len(answers) = Len(Questions)
\* A whole number may stand for a wider number: sums and products stay Int64
\* while they fit one, and min and max return an operand as it is.
Stands(v, t) == Tag(v) = "Int64" /\ t[1] \in {"BigInt", "Float64", "Decimal"}
InSize(n, size) == size = NoSize \/ n <= size
RECURSIVE Fits(_, _)
Fits(v, t) ==
    CASE Stands(v, t) -> TRUE
      [] Tag(v) # t[1] -> FALSE
      [] t[1] \in {"Text", "Bytes"} -> InSize(Len(v[2]), t[2])
      [] t[1] = "BigInt" -> InSize(Len(Digits(Abs(v[2]))), t[2])
      [] t[1] = "Array" ->
            \A i \in 1..Len(v[2]) :
                IF v[2][i] = Null THEN t[3] ELSE t[2] = NoElem \/ Fits(v[2][i], t[2])
      [] OTHER -> TRUE

\* Where the code is known to promise too much: a null seed, path, key or index
\* makes the result null; a member is returned as it is stored; three functions
\* hand the standard library a range it refuses with a panic; the size of the
\* text of a float, a day or an instant is that of a usual one; and the least
\* integer has no opposite of its own width.
NullAnyway ==
    {"randomUuid", "randomInt", "randomFloat", "randomAlphanumeric", "randomHex", "randomBytes", "file", "env2",
     "element", "arrayGet"}
KindAnyway == {"objectValues", "objectGet", "arrayGet", "element"}
PanicAnyway == {"clamp", "beta", "randomFloat"}
LongAnyway(v) ==
    site.f = "toStringCast" /\ Tag(v) = "Text" /\ Tag(Vals[1]) \in FloatTags \cup {"Date", "Timestamp"}
WideAnyway(v, t) ==
    site.f \in {"abs", "negate"} /\ t[1] \in SignedInts /\ v = <<"BigInt", -IntMin(t[1])>>
\* What a call evaluates to has the type resolve_type promised for the types
\* of its arguments (signature.rs): null only when nullable, of the declared
\* variant or a whole number that stands for it, its text, bytes or digits
\* within the declared size, its elements of the declared type; and no call
\* panics.
ResultConforms ==
    Answered =>
        LET r == answers[5]
            promised == answers[2][2]
        IN  IF ~IsOk(r) THEN r[1] = "panic" => site.f \in PanicAnyway
            ELSE IF r[2] = Null THEN promised.null \/ site.f \in NullAnyway
            ELSE \/ Fits(r[2], promised.t)
                 \/ site.f \in KindAnyway \/ LongAnyway(r[2]) \/ WideAnyway(r[2], promised.t)

\* A function that says it is pure gives every row of a batch the same value
\* for the same arguments, and a call the optimizer may fold at compile time
\* gives that value in any later batch too.
PurityIsHonest ==
    Answered =>
        /\ answers[3] => answers[5] = answers[6]
        /\ site.lits = 1..site.n /\ purity(site.f, answers[3], [i \in 1..site.n |-> TRUE])
             => answers[5] = answers[7]

\* validate_const_args refuses a program only for constants with which no
\* row could get a value from the call.
RefusedConstNeverWorks ==
    Answered /\ ~IsOk(validate_const_args(site.f, Consts)) => ~IsOk(answers[5]) \/ answers[5][2] = Null

\* resolve_type accepts two numbers of different variants, and two arrays of any
\* length, for which the function has no arm or no room.
FailsAnyway ==
    /\ site.f \in {"add", "subtract", "multiply", "min", "max"}
    /\ Tag(Vals[1]) # Tag(Vals[2]) \/ Tag(Vals[1]) = "Array"
\* A function that says it cannot fail gives every row whose arguments have the
\* accepted types a value: the optimizer drops an unread call by that word.
InfallibleIsHonest == Answered /\ ~answers[4] => IsOk(answers[5]) \/ FailsAnyway

\* What the compiler asks of a function before any row is there holds for every
\* row: it folds and shares by the purity that is declared, drops by the
\* fallibility, and refuses a program by the constants of a call (signature.rs
\* purity, can_fail and validate_const_args).
CompileTimeHonest == PurityIsHonest /\ RefusedConstNeverWorks /\ InfallibleIsHonest
=============================================================================
