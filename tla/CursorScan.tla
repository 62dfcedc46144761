----------------------------- MODULE CursorScan -----------------------------
(***************************************************************************)
(* How a pull source pages through a table: the predicate that "everything *)
(* after the cursor" is compiled to, under the NULL rules of the backend,  *)
(* the sort, the limit and the cursor taken from the last row              *)
(* (sources/postgres and sources/mysql sql_statements.rs, sources/mongodb  *)
(* mongo_source.rs).                                                       *)
(*                                                                         *)
(* A row is its cursor key, a tuple of integers in which 0 stands for      *)
(* NULL: the project's rule is that NULL is the minimum.  Keys are unique. *)
(***************************************************************************)
EXTENDS Naturals, FiniteSets

CONSTANTS
    Flows,      \* the flows: [dialect, order, width, nullable]
    MaxVal,     \* non-null values are 1..MaxVal
    Limit       \* batch limit

NULL == 0
Dialect == {"postgres", "mysql", "mongodb"}

ASSUME ScanAssumption ==
    /\ \A f \in Flows : /\ f.dialect \in Dialect
                        /\ f.order \in {"asc", "desc"}
                        /\ f.width \in Nat \ {0}
                        /\ f.nullable \subseteq 1..f.width
    /\ MaxVal \in Nat /\ Limit \in Nat \ {0}

VARIABLES
    flow,       \* the flow that scans
    table,      \* the keys of the rows of its table
    cursor,     \* {} before the first batch, {key} after
    read,       \* the keys read so far
    drained     \* the last read returned no row

vars == <<flow, table, cursor, read, drained>>

Pos == 1..flow.width
Keys(f) == {k \in [1..f.width -> NULL..MaxVal] :
                \A i \in 1..f.width : k[i] = NULL => i \in f.nullable}

-----------------------------------------------------------------------------
(* SQL's three-valued logic: the set of truth values of the operands.      *)

Truth(b) == IF b THEN "true" ELSE "false"
And3(S) == IF "false" \in S THEN "false"
           ELSE IF "unknown" \in S THEN "unknown" ELSE "true"
Or3(S) == IF "true" \in S THEN "true"
          ELSE IF "unknown" \in S THEN "unknown" ELSE "false"

Compare3(a, b, holds) ==
    IF a = NULL \/ b = NULL THEN "unknown" ELSE Truth(holds)
\* `a > b` under an ascending cursor, `a < b` under a descending one.
Cmp3(a, b) == Compare3(a, b, IF flow.order = "asc" THEN a > b ELSE a < b)
Eq3(a, b) == Compare3(a, b, a = b)

-----------------------------------------------------------------------------
(* The predicates.                                                         *)

\* (c1, c2) > ($1, $2)
PlainTupleCompare(r, c) ==
    Or3({And3({Eq3(r[i], c[i]) : i \in 1..(k - 1)} \cup {Cmp3(r[k], c[k])}) : k \in Pos})

\* IS NOT DISTINCT FROM, <=>, IS NULL.
NullableEq(r, c, k) == {Truth(r[i] = c[i]) : i \in 1..(k - 1)}

\* The positions whose clause is kept: a descending NULL compares as empty.
Kept(c) == {k \in Pos : flow.order = "asc" \/ c[k] # NULL}

\* Mutant of Clause: an ascending NULL is not passed over.
ClauseNullAgain(r, c, k) ==
    LET eq == NullableEq(r, c, k)
    IN  IF c[k] = NULL THEN And3(eq)
        ELSE IF flow.order = "asc" THEN And3(eq \cup {Cmp3(r[k], c[k])})
        ELSE Or3({And3(eq \cup {Truth(r[k] = NULL)}), Cmp3(r[k], c[k])})

\* One clause, "(" + parts.join(" AND ") + ")".  The last part of a descending
\* one is "c IS NULL OR c < $n" without parentheses, and AND binds tighter.
Clause(r, c, k) ==
    LET eq == NullableEq(r, c, k)
    IN  IF c[k] = NULL THEN And3(eq \cup {Truth(r[k] # NULL)})
        ELSE IF flow.order = "asc" THEN And3(eq \cup {Cmp3(r[k], c[k])})
        ELSE Or3({And3(eq \cup {Truth(r[k] = NULL)}), Cmp3(r[k], c[k])})

NullAwareGt(r, c) == Or3({Clause(r, c, k) : k \in Kept(c)})

\* Mutant of NeedsNullAware: the nullable columns are not looked at.
NeedsNullAwareCursorOnly(c) == \E i \in Pos : c[i] = NULL

NeedsNullAware(c) ==
    \/ \E i \in Pos : c[i] = NULL
    \/ flow.order = "desc" /\ flow.nullable # {}

\* The $or cascade: {f: null} matches null, $gt and $lt only match values of
\* the type of their operand and so never null.
MongoBranch(r, c, k) ==
    /\ \A i \in 1..(k - 1) : r[i] = c[i]
    /\ IF c[k] = NULL THEN r[k] # NULL ELSE Cmp3(r[k], c[k]) = "true"

Matches(r) ==
    \A c \in cursor :
        CASE flow.dialect = "mongodb" -> \E k \in Kept(c) : MongoBranch(r, c, k)
          [] flow.dialect # "mongodb" /\ NeedsNullAware(c) -> NullAwareGt(r, c) = "true"
          [] OTHER -> PlainTupleCompare(r, c) = "true"

\* Mutant of Pushed: NULL positions take a bind slot too.
PushedNulls(c) == {x \in Pos \X Pos : x[2] <= x[1]}

\* bind_order: every value that nullable_eq and nullable_cmp push, <<clause,
\* position>>; and the `?` of the clauses that reach the statement.
Pushed(c) == {x \in Pos \X Pos : x[2] <= x[1] /\ c[x[2]] # NULL}
Placeholders(c) == {x \in Kept(c) \X Pos : x[2] <= x[1] /\ c[x[2]] # NULL}
\* MySQL refuses a statement with fewer `?` than values; the `$n` of Postgres
\* carry their number.
Accepted ==
    flow.dialect = "mysql" =>
        \A c \in cursor : NeedsNullAware(c) => Placeholders(c) = Pushed(c)

-----------------------------------------------------------------------------
(* Sort and limit.                                                         *)

\* Mutant of Before: the sort ignores the order of the cursor.
BeforeAscending(a, b) ==
    \E k \in Pos : (\A i \in 1..(k - 1) : a[i] = b[i]) /\ a[k] < b[k]

\* a comes before b: NULLS FIRST ascending, NULLS LAST descending.
Before(a, b) ==
    \E k \in Pos : /\ \A i \in 1..(k - 1) : a[i] = b[i]
                   /\ IF flow.order = "asc" THEN a[k] < b[k] ELSE a[k] > b[k]

Selected == {r \in table : Matches(r)}
Batch == {r \in Selected : Cardinality({s \in Selected : Before(s, r)}) < Limit}
LastOf(B) == CHOOSE r \in B : \A s \in B : s = r \/ Before(s, r)

TypeOK ==
    /\ flow \in Flows
    /\ table \subseteq Keys(flow)
    /\ read \subseteq table
    /\ Cardinality(cursor) <= 1 /\ cursor \subseteq table
    /\ drained \in BOOLEAN

Init ==
    /\ flow \in Flows
    /\ table \in SUBSET Keys(flow)
    /\ cursor = {} /\ read = {} /\ drained = FALSE

ReadBatch ==
    /\ Accepted /\ Batch # {}
    /\ read' = read \cup Batch
    /\ cursor' = {LastOf(Batch)}
    /\ drained' = FALSE
    /\ UNCHANGED <<flow, table>>

ReadEmpty ==
    /\ Accepted /\ Batch = {}
    /\ drained' = TRUE
    /\ UNCHANGED <<flow, table, cursor, read>>

\* The statement is refused; the runner will send it again.
ReadRefused ==
    /\ ~Accepted
    /\ UNCHANGED vars

Next == ReadBatch \/ ReadEmpty \/ ReadRefused
Spec == Init /\ [][Next]_vars
\* The runner ticks again after every batch.
FairSpec == Spec /\ WF_vars(Next)

-----------------------------------------------------------------------------
(* Properties.                                                             *)

\* Where the rule "NULL is the minimum" is kept exactly: ascending, over NOT
\* NULL columns, or over a single SQL column.
Exact ==
    \/ flow.order = "asc" \/ flow.nullable = {}
    \/ flow.width = 1 /\ flow.dialect # "mongodb"

\* A descending MongoDB cursor over a nullable field is left out: $lt never
\* matches null, so the rows the sort puts last are passed over.
Covers == flow.dialect = "mongodb" /\ flow.order = "desc" => flow.nullable = {}

After(c) == {r \in table : Before(c, r)}

\* The WHERE clause selects exactly the rows that the sort puts after the
\* cursor, with NULL as the minimum and equal to itself.
FilterExact == \A c \in cursor : Selected = After(c)

\* As many values are bound as the statement of an exact flow has places for.
BindsMatch == Exact => Accepted

\* The WHERE clause of every covered flow selects the rows that the sort puts
\* after the cursor, and of an exact flow no other, with a value for each of
\* its places.
FilterSound ==
    /\ \A c \in cursor :
          /\ Covers => After(c) \subseteq Selected
          /\ Exact => Selected \subseteq After(c)
    /\ BindsMatch

\* Every row at or before the cursor of a covered flow has been read, also by
\* the descending scans that read rows again, and after an empty batch every
\* row of the table.
NothingSkipped ==
    Covers => /\ \A c \in cursor : table \ After(c) \subseteq read
              /\ drained => read = table

\* The cursor of an exact flow only moves forward.
CursorAdvances ==
    [][Exact => \A c \in cursor, d \in cursor' : c = d \/ Before(c, d)]_vars

\* The scan of an exact flow reaches the end of the table.
Drains == Exact => <>drained
=============================================================================
