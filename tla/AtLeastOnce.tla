----------------------------- MODULE AtLeastOnce -----------------------------
(***************************************************************************)
(* What a flow promises to someone who sees only the source table, the     *)
(* sink table and the persisted cursor: rows reach the sink at least once, *)
(* the cursor is moved only over rows that have, and what the cursor has   *)
(* moved over is never taken back.                                         *)
(***************************************************************************)
EXTENDS Naturals

CONSTANTS Key, MaxPos

VARIABLES src, clock, sink, stored

absVars == <<src, clock, sink, stored>>

Current(p) == {k \in Key : src[k] \in 1..p}

AbsInit ==
    /\ src = [k \in Key |-> 0] /\ clock = 0
    /\ sink = [k \in Key |-> 0] /\ stored = 0

\* A row of the source changes and moves behind all others.
Change ==
    /\ clock' \in 1..MaxPos /\ clock' > clock
    /\ \E k \in Key : src' = [src EXCEPT ![k] = clock']
    /\ UNCHANGED <<sink, stored>>

\* The sink takes versions of rows, one that the source once had for each,
\* and keeps the current version of every row the cursor has passed.
Deliver ==
    /\ \A k \in Key : sink'[k] = sink[k] \/ sink'[k] \in 1..src[k]
    /\ \A k \in Current(stored) : sink'[k] = sink[k]
    /\ UNCHANGED <<src, clock, stored>>

\* The cursor moves, forwards or (a save that arrives late) backwards, to a
\* position up to which everything has been delivered.
Commit ==
    /\ stored' \in 1..clock
    /\ \A k \in Current(stored') : sink[k] = src[k]
    /\ UNCHANGED <<src, clock, sink>>

AbsNext == Change \/ Deliver \/ Commit
AbsSpec == AbsInit /\ [][AbsNext]_absVars
=============================================================================
