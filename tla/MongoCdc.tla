------------------------------ MODULE MongoCdc ------------------------------
(***************************************************************************)
(* The change-stream source (sources/mongo-cdc/src/source.rs) under the    *)
(* runner's tick: open the stream at the resume token, drain events until  *)
(* the limit or the deadline, drop all but the last event of a document,   *)
(* look up the documents of updates, write the rows, save the token.       *)
(*                                                                         *)
(* A resume token is a position in the log of changes; the version of a    *)
(* document is the position of the change that made it, 0 when there is no *)
(* such document.  Optional values are sets of at most one element.        *)
(*                                                                         *)
(* The MongoDB sink and storage make their calls in tasks of their own     *)
(* (detached), which go on when the runner gives up on them: such a call   *)
(* lands at any later time, after newer ones or never.                     *)
(***************************************************************************)
EXTENDS Naturals, Sequences, FiniteSets, FiniteSetsExt

CONSTANTS
    Key,            \* _ids
    Limit,          \* batch limit
    UpdateModes,    \* of "PostImage" and "LookupOnUpdate"
    Detaching,      \* of SUBSET {"sink", "storage"}: whose calls may land late
    Bootstrapped,   \* whether a token is stored before the first change: TRUE, FALSE or both
    MayDrop,        \* the collection may be dropped
    MaxLog,         \* bound: changes
    MaxFaults       \* bound: failed calls and crashes

ASSUME CdcAssumption ==
    /\ Limit \in Nat \ {0}
    /\ UpdateModes \subseteq {"PostImage", "LookupOnUpdate"}
    /\ Detaching \subseteq SUBSET {"sink", "storage"}
    /\ Bootstrapped \subseteq BOOLEAN /\ MayDrop \in BOOLEAN
    /\ MaxLog \in Nat /\ MaxFaults \in Nat

VARIABLES
    mode,       \* how updates get their document
    detaches,   \* the parts of this flow whose calls may land late
    log,        \* the changes of the collection, [op, keys]
    docs,       \* the collection: version of each document
    sink,       \* the sink: version of each row
    stored,     \* the resume token in the storage
    token,      \* the runner's cursor
    pc,         \* "idle", "opened", "drained", "write", "save"
    from,       \* where the open stream starts
    events,     \* the positions of the events of the batch
    rows,       \* its rows, <<key, version>>, version 0 for a delete
    next,       \* Batch::next_cursor
    lateWrites, \* writes given up on that may still land, [rows, end]
    lateSaves,  \* the tokens of saves given up on that may still land
    start,      \* history: where the stream of the first token was opened
    regressed,  \* history: keys last written by an overtaken batch
    faults

flow == <<mode, detaches>>
source == <<log, docs>>
tick == <<pc, from, events, rows, next>>
late == <<lateWrites, lateSaves>>
flowVars == <<sink, stored, token, tick, late, start, regressed, faults>>
vars == <<flow, source, flowVars>>

Version == 0..MaxLog
Position(s) == Cardinality(s) <= 1 /\ s \subseteq Version

TypeOK ==
    /\ mode \in UpdateModes /\ detaches \in Detaching /\ regressed \subseteq Key
    /\ log \in Seq([op : {"insert", "update", "delete", "drop"}, keys : SUBSET Key])
    /\ docs \in [Key -> Version] /\ sink \in [Key -> Version]
    /\ Position(stored) /\ Position(token) /\ Position(next) /\ Position(start)
    /\ pc \in {"idle", "opened", "drained", "write", "save"}
    /\ from \in 0..Len(log) /\ events \subseteq (from + 1)..Len(log)
    /\ rows \subseteq Key \X Version
    /\ lateWrites \subseteq [rows : SUBSET (Key \X Version), end : Version]
    /\ lateSaves \subseteq Version
    /\ faults \in 0..MaxFaults

Init ==
    /\ mode \in UpdateModes /\ detaches \in Detaching
    /\ log = <<>>
    /\ docs = [k \in Key |-> 0] /\ sink = [k \in Key |-> 0]
    /\ stored \in {IF b THEN {0} ELSE {} : b \in Bootstrapped} /\ token = stored
    /\ pc = "idle" /\ from = 0 /\ events = {} /\ rows = {} /\ next = {}
    /\ lateWrites = {} /\ lateSaves = {}
    /\ start = stored /\ regressed = {} /\ faults = 0

-----------------------------------------------------------------------------
(* The collection and its oplog.                                           *)

Dropped == \E i \in DOMAIN log : log[i].op = "drop"

Change(op, k, exists) ==
    /\ Len(log) < MaxLog /\ ~Dropped
    /\ (docs[k] # 0) = exists
    /\ log' = Append(log, [op |-> op, keys |-> {k}])
    /\ docs' = [docs EXCEPT ![k] = IF op = "delete" THEN 0 ELSE Len(log) + 1]
    /\ UNCHANGED <<flow, flowVars>>

Drop ==
    /\ MayDrop /\ ~Dropped /\ Len(log) < MaxLog
    /\ log' = Append(log, [op |-> "drop", keys |-> {}])
    /\ docs' = [k \in Key |-> 0]
    /\ UNCHANGED <<flow, flowVars>>

-----------------------------------------------------------------------------
(* read_batch.                                                             *)

\* The tick is over, and its locals with it.
EndTick == pc' = "idle" /\ from' = 0 /\ events' = {} /\ rows' = {} /\ next' = {}

\* watch() with resume_after, or from now on without a token.
OpenStream ==
    /\ pc = "idle"
    /\ from' = IF token = {} THEN Len(log) ELSE Max(token)
    /\ start' = IF token = {} THEN {from'} ELSE start
    /\ pc' = "opened"
    /\ UNCHANGED <<flow, source, sink, stored, token, events, rows, next, late, regressed, faults>>

\* Only the last event of a document survives.
Dedup(E) == {i \in E : ~ \E j \in E : j > i /\ log[i].keys \cap log[j].keys # {}}

\* Mutant of DrainStream: the token of the end of the stream is taken, not
\* that of the last event delivered.
DrainStreamPast ==
    /\ pc = "opened"
    /\ \E n \in 0..Limit :
          /\ from + n <= Len(log) /\ (n = 0 => from = Len(log))
          /\ events' = Dedup((from + 1)..(from + n))
    /\ next' = {Len(log)}
    /\ pc' = "drained"
    /\ UNCHANGED <<flow, source, sink, stored, token, from, rows, late, start, regressed, faults>>

\* Up to limit events, fewer when the deadline comes first.  With none there is
\* a token only if the server ended the stream (the post-batch resume token).
DrainStream ==
    /\ pc = "opened"
    /\ \E n \in 0..Limit :
          /\ from + n <= Len(log) /\ (n = 0 => from = Len(log))
          /\ events' = Dedup((from + 1)..(from + n))
          /\ next' \in IF n = 0 THEN {{}, {Len(log)}} ELSE {{from + n}}
    /\ pc' = "drained"
    /\ UNCHANGED <<flow, source, sink, stored, token, from, rows, late, start, regressed, faults>>

\* The row of an event; an update whose document is gone is skipped.
RowsOf(i) ==
    {<<k, IF log[i].op = "delete" THEN 0
          ELSE IF mode = "PostImage" \/ log[i].op = "insert" THEN i
          ELSE docs[k]>> :
        k \in {x \in log[i].keys : mode = "LookupOnUpdate" /\ log[i].op = "update"
                                       => docs[x] # 0}}

\* The lookup, the rows, and finish_tick, which commits nothing when there is
\* no row.
BuildRows ==
    /\ pc = "drained"
    /\ \A i \in events : log[i].op # "drop"
    /\ LET R == UNION {RowsOf(i) : i \in events}
       IN  \/ R = {} /\ EndTick
           \/ R # {} /\ rows' = R /\ pc' = "write" /\ UNCHANGED <<from, events, next>>
    /\ UNCHANGED <<flow, source, sink, stored, token, late, start, regressed, faults>>

\* Mutant of StreamInvalidated: the event is passed over.
StreamIgnored ==
    /\ pc = "drained"
    /\ \E i \in events : log[i].op = "drop"
    /\ token' = next /\ stored' = next
    /\ EndTick
    /\ UNCHANGED <<flow, source, sink, late, start, regressed, faults>>

\* A collection-level event fails the read, now and on every retry.
StreamInvalidated ==
    /\ pc = "drained"
    /\ \E i \in events : log[i].op = "drop"
    /\ EndTick
    /\ UNCHANGED <<flow, source, sink, stored, token, late, start, regressed, faults>>

-----------------------------------------------------------------------------
(* The sink and the storage.                                               *)

\* Upserts in their order, then deletes.
Apply(R) ==
    [k \in Key |->
        LET V == {r[2] : r \in {x \in R : x[1] = k}}
        IN  IF V = {} THEN sink[k] ELSE IF 0 \in V THEN 0 ELSE Max(V)]

\* The tokens that are in force, may come in force, or are about to be saved.
Reached == stored \cup token \cup lateSaves \cup (IF pc = "save" THEN next ELSE {})

\* Rows R of a batch that ended at n are applied: an overtaken batch takes its
\* keys back to what they were.
Land(R, n) ==
    LET keys == {r[1] : r \in R}
    IN  /\ sink' = Apply(R)
        /\ regressed' = IF \E t \in Reached : n < t THEN regressed \cup keys
                                                    ELSE regressed \ keys

\* A tick that writes has drained an event, and has its token.
End == Max(next)

WriteBatch ==
    /\ pc = "write"
    /\ Land(rows, End)
    /\ pc' = "save"
    /\ UNCHANGED <<flow, source, stored, token, from, events, rows, next, late, start, faults>>

\* Mutant of SaveToken: the runner keeps its old cursor.
SaveTokenForgets ==
    /\ pc = "save"
    /\ stored' = next /\ token' = token
    /\ EndTick
    /\ UNCHANGED <<flow, source, sink, late, start, regressed, faults>>

SaveToken ==
    /\ pc = "save"
    /\ stored' = next /\ token' = next
    /\ EndTick
    /\ UNCHANGED <<flow, source, sink, late, start, regressed, faults>>

\* One more call has failed and ends its tick.
Fails ==
    /\ faults < MaxFaults
    /\ faults' = faults + 1
    /\ EndTick
    /\ UNCHANGED <<flow, source, token, start>>

CallFails ==
    /\ pc \in {"opened", "drained"}
    /\ Fails
    /\ UNCHANGED <<sink, stored, late, regressed>>

\* A write fails or times out: any part of it may have been applied, and in a
\* task of its own the rest may follow.
WriteFails ==
    /\ pc = "write"
    /\ Fails
    /\ \E R \in SUBSET rows :
          /\ Land(R, End)
          /\ lateWrites' = IF "sink" \in detaches /\ R # rows
                           THEN lateWrites \cup {[rows |-> rows \ R, end |-> End]}
                           ELSE lateWrites
    /\ UNCHANGED <<stored, lateSaves>>

\* A save fails or times out, and has taken effect, has not, or will.
SaveFails ==
    /\ pc = "save"
    /\ Fails
    /\ \/ stored' \in {stored, next} /\ UNCHANGED lateSaves
       \/ "storage" \in detaches /\ lateSaves' = lateSaves \cup next /\ UNCHANGED stored
    /\ UNCHANGED <<sink, lateWrites, regressed>>

\* A part of a write that was given up on lands, the upserts or the deletes.
LateWrite ==
    /\ \E w \in lateWrites : \E R \in SUBSET w.rows :
          /\ R # {}
          /\ Land(R, w.end)
          /\ lateWrites' = (lateWrites \ {w}) \cup
                           (IF R = w.rows THEN {} ELSE {[rows |-> w.rows \ R, end |-> w.end]})
    /\ UNCHANGED <<flow, source, stored, token, tick, lateSaves, start, faults>>

LateSave ==
    /\ \E t \in lateSaves : stored' = {t} /\ lateSaves' = lateSaves \ {t}
    /\ UNCHANGED <<flow, source, sink, token, tick, lateWrites, start, regressed, faults>>

\* The process stops, and starts again from the stored token.
Crash ==
    /\ faults < MaxFaults
    /\ faults' = faults + 1
    /\ token' = stored
    /\ EndTick
    /\ UNCHANGED <<flow, source, sink, stored, late, start, regressed>>

Tick == \/ OpenStream \/ DrainStream \/ BuildRows \/ StreamInvalidated
        \/ WriteBatch \/ SaveToken
Env == \/ \E k \in Key : Change("insert", k, FALSE) \/ Change("update", k, TRUE)
                             \/ Change("delete", k, TRUE)
       \/ Drop
Fault == CallFails \/ WriteFails \/ SaveFails \/ LateWrite \/ LateSave \/ Crash
Next == Tick \/ Fault \/ Env

Spec == Init /\ [][Next]_vars
\* The runner keeps ticking; an open stream returns events that are there.
FairSpec == Spec /\ WF_vars(Tick)

-----------------------------------------------------------------------------
(* Properties.                                                             *)

\* The last change of k, 0 when it has none.
LastChange(k) ==
    Max({0} \cup {i \in DOMAIN log : k \in log[i].keys \/ log[i].op = "drop"})

\* A document whose last change lies between the opening of the stream that
\* gave the first token and a token that is in memory or stored is in the sink
\* as it is in the collection: no change is passed over, whatever was
\* deduplicated, looked up, retried, replayed or restarted.  The exception is
\* narrow: a key whose last write came from a batch that ends before a token
\* already reached.  Two things make such a write, a call that lands late and
\* the replay after a save that took effect though it was reported as failed;
\* the key is right again when a batch up to the token is written.
ChangesDelivered ==
    \A s \in start, t \in stored \cup token, k \in Key \ regressed :
        LastChange(k) \in (s + 1)..t => sink[k] = docs[k]

\* The token never passes the drop of the collection: what comes after is for
\* the operator to decide.
DropStops == \A t \in stored \cup token, i \in DOMAIN log : log[i].op = "drop" => t < i

\* When the changes end the sink becomes equal to the collection.
SinkCatchesUp == <>[](sink = docs)

\* With post-images every key does, unless the collection was dropped, the
\* flow began without a token, or an overtaken batch wrote the key last.
PostImagesCatchUp ==
    mode = "PostImage" /\ token # {} =>
        <>[](Dropped \/ \A k \in Key \ regressed : sink[k] = docs[k])
=============================================================================
