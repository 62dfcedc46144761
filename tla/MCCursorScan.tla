---------------------------- MODULE MCCursorScan ----------------------------
(* TLC instances of CursorScan: the cursors a flow may be declared with.   *)
EXTENDS CursorScan

Cursor(d, o, w, n) == [dialect |-> d, order |-> o, width |-> w, nullable |-> n]

\* One and two columns, nullable or not, in both orders.
AllFlows ==
    {Cursor(d, o, 2, n) : d \in Dialect, o \in {"asc", "desc"}, n \in SUBSET {1, 2}}
    \cup {Cursor(d, o, 1, {1}) : d \in Dialect, o \in {"asc", "desc"}}

\* A descending cursor over a nullable column and a key.
DescPostgres == {Cursor("postgres", "desc", 2, {1})}
=============================================================================
