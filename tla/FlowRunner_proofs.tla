-------------------------- MODULE FlowRunner_proofs --------------------------
(***************************************************************************)
(* Proofs about FlowRunner for every set of keys, every batch limit, every *)
(* bound and every configuration of the flow.                              *)
(***************************************************************************)
EXTENDS FlowRunner, TLAPS

\* What a step that names no prover is tried with: the translation of a large
\* obligation for the SMT solver may be cut short, and is then repeated.
USE SMTT(15), ZenonT(20), Z3T(15), SMTT(20)

\* The actions of Next that are not steps of the runner's loop.
Outside ==
    \/ \E k \in Key : Upsert(k)
    \/ \E s \in Schemas : AlterSchema(s)
    \/ \E b \in lateWrites : LateWrite(b)
    \/ \E p \in lateSaves : LateSave(p)
    \/ Start \/ Crash \/ SendShutdown \/ CloseChannel

-----------------------------------------------------------------------------
(* Type correctness.                                                       *)

\* A table stays a table when rows of a batch are written to it.
LEMMA WrittenType ==
    ASSUME NEW t \in [Key -> Pos], NEW b \in [Key -> Pos], NEW ks
    PROVE  Written(t, b, ks) \in [Key -> Pos]
  BY DEF Written

\* The empty batch and the absent cursor.
LEMMA NoRowsType == NoRows \in [Key -> Pos] /\ 0 \in Pos
  <1>1. 0 \in Pos
    BY BoundAssumption DEF Pos
  <1> QED  BY <1>1 DEF NoRows

\* The first backoff is in the range of the backoffs.
LEMMA BackoffRange ==
    /\ BACKOFF_INITIAL \in BACKOFF_INITIAL..BACKOFF_CAP
    /\ BACKOFF_INITIAL \in Nat /\ BACKOFF_CAP \in Nat /\ BACKOFF_INITIAL <= BACKOFF_CAP
  BY DEF BACKOFF_INITIAL, BACKOFF_CAP

\* The delay stays between its first value and its cap while it is multiplied.
LEMMA BackoffGrows ==
    ASSUME NEW lo \in Nat, NEW hi \in Nat, lo <= hi, NEW d \in lo..hi, NEW e,
           e = d \/ (d * 4 < hi /\ e = d * 4) \/ e = hi
    PROVE  e \in lo..hi
  OBVIOUS

\* An outcome that is not known keeps the types.
LEMMA UnknownType ==
    ASSUME TypeOK, Unknown
    PROVE  /\ sink' \in [Key -> Pos] /\ stored' \in Pos
           /\ lateWrites' \in SUBSET [Key -> Pos] /\ lateSaves' \in SUBSET Pos
  <1>1. CASE UnknownWrite
    BY <1>1, WrittenType DEF UnknownWrite, TypeOK, late
  <1>2. CASE UnknownSave
    BY <1>2 DEF UnknownSave, TypeOK, late
  <1>3. CASE UNCHANGED <<sink, stored, late>>
    BY <1>3 DEF TypeOK, late
  <1> QED  BY <1>1, <1>2, <1>3 DEF Unknown

\* What the constants promise of the flow's configuration.
LEMMA ConfType ==
    ASSUME TypeOK
    PROVE  Mode \in {"Daemon", "Once"}
  BY ConfAssumption DEF TypeOK, Mode

\* A failed tick keeps the types.
LEMMA FailType ==
    ASSUME TypeOK, NEW kind, Fail(kind)
    PROVE  /\ pc' \in {"done", "backoff"}
           /\ result' \in {"none", "ok", "err"}
           /\ {plan', ctxCols', ctxSchema'} \subseteq Schemas
           /\ srcCtx' \in BOOLEAN /\ sinkCtx' \in BOOLEAN
  <1>1. CASE Mode = "Once"
    BY <1>1 DEF Fail, Exit, TypeOK, ctxs
  <1>2. CASE Mode = "Daemon"
    BY <1>2 DEF Fail, TypeOK
  <1> QED  BY <1>1, <1>2, ConfType

\* The end of a tick keeps the types.
LEMMA FinishTickType ==
    ASSUME TypeOK, FinishTick
    PROVE  /\ pc' \in {"done", "build"}
           /\ result' \in {"none", "ok", "err"}
           /\ backoff' \in BACKOFF_INITIAL..BACKOFF_CAP
           /\ batch' \in [Key -> Pos] /\ next' \in Pos
  <1>1. batch' \in [Key -> Pos] /\ next' \in Pos
    BY NoRowsType DEF FinishTick, DropBatch
  <1>2. CASE Mode = "Once" /\ Cardinality(InBatch) < Limit
    BY <1>1, <1>2 DEF FinishTick, Exit, TypeOK
  <1>3. CASE ~(Mode = "Once" /\ Cardinality(InBatch) < Limit)
    BY <1>1, <1>3, BackoffRange DEF FinishTick, Continue, TypeOK
  <1> QED  BY <1>2, <1>3

\* The steps of the runner's loop keep the types.
LEMMA RunnerType ==
    ASSUME TypeOK, Runner, UNCHANGED conf
    PROVE  TypeOK'
  <1> USE DEF env, ctxs, chan, late
  <1>1. CASE Sleep
    <2>1. backoff' \in BACKOFF_INITIAL..BACKOFF_CAP
      <3>1. backoff \in BACKOFF_INITIAL..BACKOFF_CAP
        BY ZenonT(40) DEF TypeOK
      <3>2. \/ backoff' = backoff
            \/ backoff * 4 < BACKOFF_CAP /\ backoff' = backoff * 4
            \/ backoff' = BACKOFF_CAP
        BY <1>1 DEF Sleep, BACKOFF_MULTIPLIER
      <3> QED  BY ZenonT(40), <3>1, <3>2, BackoffRange, BackoffGrows
    <2> QED  BY <1>1, <2>1 DEF Sleep, TypeOK
  <1>2. CASE SleepInterrupted
    BY <1>2 DEF SleepInterrupted, Changed, Exit, TypeOK
  <1>3. CASE BuildSource
    <2>1. CASE /\ srcCtx' = TRUE /\ ctxCols' = plan /\ ctxSchema' = schema
               /\ UNCHANGED <<pc, sinkCtx, plan, result, faults>>
      BY <1>3, <2>1 DEF BuildSource, TypeOK
    <2>2. CASE Fail("Other") /\ UNCHANGED faults
      BY <1>3, <2>2, FailType DEF BuildSource, TypeOK
    <2>3. CASE Fault /\ \E kind \in {"Backend", "Other"} : Fail(kind)
      BY <1>3, <2>3, FailType, BoundAssumption DEF BuildSource, Fault, TypeOK
    <2> QED  BY ZenonT(40), <1>3, <2>1, <2>2, <2>3 DEF BuildSource
  <1>4. CASE BuildSink
    <2>1. CASE /\ sinkCtx' = TRUE
               /\ plan' = IF Wildcard THEN ctxSchema ELSE plan
               /\ UNCHANGED <<pc, srcCtx, ctxCols, ctxSchema, result, faults>>
      BY <1>4, <2>1 DEF BuildSink, TypeOK
    <2>2. CASE Fault /\ \E kind \in {"Backend", "Validation", "Other"} : Fail(kind)
      BY <1>4, <2>2, FailType, BoundAssumption DEF BuildSink, Fault, TypeOK
    <2> QED  BY ZenonT(40), <1>4, <2>1, <2>2 DEF BuildSink
  <1>5. CASE EnterTick
    BY <1>5 DEF EnterTick, Exit, TypeOK
  <1>6. CASE CallFails
    <2>1. /\ sink' \in [Key -> Pos] /\ stored' \in Pos
          /\ lateWrites' \in SUBSET [Key -> Pos] /\ lateSaves' \in SUBSET Pos
          /\ batch' \in [Key -> Pos] /\ next' \in Pos
      BY <1>6, UnknownType, NoRowsType DEF CallFails, DropBatch
    <2>2. CASE /\ Fault /\ UNCHANGED chan
               /\ \E kind \in {"Backend", "Timeout", "Other"} : Fail(kind)
      BY <1>6, <2>1, <2>2, FailType, BoundAssumption DEF CallFails, Fault, TypeOK
    <2>3. CASE Changed /\ UNCHANGED faults /\ Fail("Cancelled")
      BY <1>6, <2>1, <2>3, FailType DEF CallFails, Changed, TypeOK
    <2> QED  BY <1>6, <2>2, <2>3 DEF CallFails
  <1>7. CASE LoadCursor
    BY <1>7 DEF LoadCursor, TypeOK
  <1>8. CASE ReadRefused
    BY <1>8, FailType DEF ReadRefused, TypeOK
  <1>9. CASE ReadEmpty
    BY <1>9, BackoffRange DEF ReadEmpty, Exit, TypeOK
  <1>10. CASE ReadBatch
    <2>1. CASE Fail("Other") /\ UNCHANGED <<batch, next>>
      BY <1>10, <2>1, FailType DEF ReadBatch, TypeOK
    <2>2. CASE ~TransformRefuses
      <3>1. batch' \in [Key -> Pos] /\ next' \in Pos
        BY <1>10, <2>2, NoRowsType, WrittenType DEF ReadBatch, TypeOK
      <3> QED  BY <1>10, <2>2, <3>1 DEF ReadBatch, TypeOK
    <2> QED  BY <1>10, <2>1, <2>2 DEF ReadBatch
  <1>11. CASE WriteBatch
    <2>1. sink' \in [Key -> Pos]
      BY <1>11, WrittenType DEF WriteBatch, TypeOK
    <2>2. CASE pc' = "save" /\ UNCHANGED <<batch, next, backoff, result>>
      BY <1>11, <2>1, <2>2 DEF WriteBatch, TypeOK
    <2>3. CASE FinishTick
      BY <1>11, <2>1, <2>3, FinishTickType DEF WriteBatch, TypeOK
    <2> QED  BY <1>11, <2>2, <2>3 DEF WriteBatch
  <1>12. CASE WriteDuplicate
    <2>1. sink' \in [Key -> Pos]
      BY <1>12, WrittenType DEF WriteDuplicate, TypeOK
    <2> QED  BY <1>12, <2>1, FailType, NoRowsType DEF WriteDuplicate, DropBatch, TypeOK
  <1>13. CASE SaveCursor
    BY <1>13, FinishTickType DEF SaveCursor, TypeOK
  <1> QED
    BY <1>1, <1>2, <1>3, <1>4, <1>5, <1>6, <1>7, <1>8, <1>9, <1>10, <1>11, <1>12, <1>13
       DEF Runner

\* So do the steps around it: the source, late calls, the process.
LEMMA OutsideType ==
    ASSUME TypeOK, Outside, UNCHANGED conf
    PROVE  TypeOK'
  <1> USE DEF env, ctxs, chan, late
  <1>1. CASE \E k \in Key : Upsert(k)
    <2>1. clock' \in Pos
      BY <1>1, BoundAssumption DEF Upsert, TypeOK, Pos
    <2> QED  BY <1>1, <2>1 DEF Upsert, TypeOK
  <1>2. CASE \E s \in Schemas : AlterSchema(s)
    BY <1>2 DEF AlterSchema, TypeOK
  <1>3. CASE \E b \in lateWrites : LateWrite(b)
    BY <1>3, WrittenType DEF LateWrite, TypeOK
  <1>4. CASE \E p \in lateSaves : LateSave(p)
    BY <1>4 DEF LateSave, TypeOK
  <1>5. CASE Start
    <2>1. pc' \in {"jitter", "build"}
      BY <1>5 DEF Start
    <2>2. runs' \in 0..MaxRuns
      BY <1>5, BoundAssumption DEF Start, TypeOK
    <2> QED  BY ZenonT(40), <1>5, <2>1, <2>2, NoRowsType, BackoffRange DEF Start, DropBatch, TypeOK
  <1>6. CASE Crash
    BY <1>6, UnknownType, NoRowsType DEF Crash, DropBatch, TypeOK
  <1>7. CASE SendShutdown
    BY <1>7 DEF SendShutdown, TypeOK
  <1>8. CASE CloseChannel
    BY <1>8 DEF CloseChannel, TypeOK
  <1> QED
    BY <1>1, <1>2, <1>3, <1>4, <1>5, <1>6, <1>7, <1>8 DEF Outside

\* Every variable of the runner keeps its type: the backoff stays between its
\* first value and its cap, cursors and rows are positions of the source.
THEOREM TypeCorrect == Spec => []TypeOK
  <1>1. Init => TypeOK
    <2>1. 0 \in 0..MaxFaults /\ 0 \in 0..MaxRuns
      BY BoundAssumption
    <2>2. {} \in SUBSET [Key -> Pos] /\ {} \in SUBSET Pos
      OBVIOUS
    <2> QED  BY ZenonT(40), <2>1, <2>2, NoRowsType, BackoffRange, SchemaAssumption DEF Init, TypeOK
  <1>2. TypeOK /\ [Next]_vars => TypeOK'
    <2>1. TypeOK /\ UNCHANGED vars => TypeOK'
      BY DEF TypeOK, vars, env, ctxs, chan, late
    <2> QED  BY <2>1, RunnerType, OutsideType DEF Next, Outside
  <1> QED  BY <1>1, <1>2, PTL DEF Spec

-----------------------------------------------------------------------------
(* The cursor never runs ahead of the sink.                                *)

\* Positions are natural numbers.
LEMMA Numbers ==
    ASSUME TypeOK
    PROVE  /\ src \in [Key -> Nat] /\ lateSaves \in SUBSET Nat
           /\ clock \in Nat /\ stored \in Nat /\ cursor \in Nat /\ next \in Nat /\ horizon \in Nat
  <1>1. Pos \subseteq Nat
    BY BoundAssumption DEF Pos
  <1> QED  BY ZenonT(40), <1>1 DEF TypeOK

\* A row that either stayed or moved beyond the horizon, and is found at or
\* before a position behind the horizon, stayed.
LEMMA Stayed ==
    ASSUME NEW a, NEW b \in Nat, NEW h \in Nat, NEW p \in Nat, NEW l \in Nat,
           b = a \/ b > h, p <= h, b \in l..p
    PROVE  b = a
  OBVIOUS

\* The clock passes the horizon with every change of the source.
LEMMA Beyond ==
    ASSUME NEW h \in Nat, NEW c \in Nat, h <= c
    PROVE  c + 1 > h /\ h <= c + 1 /\ c + 1 <= c + 1 /\ \A a \in Nat : a <= c => a <= c + 1
  OBVIOUS

\* What is behind a number is behind a later one.
LEMMA Later ==
    ASSUME NEW h \in Nat, NEW g \in Nat, h <= g
    PROVE  0 <= g /\ 0 <= h /\ g <= g /\ h <= h /\ \A a \in Nat : a <= h => a <= g
  OBVIOUS

\* A position found after one and up to another.
LEMMA Between ==
    ASSUME NEW a \in Nat, NEW c \in Nat, NEW n \in Nat, a \in (c + 1)..n
    PROVE  a > c /\ a # 0 /\ a <= n /\ n # 0
  OBVIOUS

\* The positions stay behind the horizon when the source does not move and the
\* horizon stays or moves up to the clock.
LEMMA BoundedKept ==
    ASSUME TypeOK, Bounded, UNCHANGED <<src, clock>>, horizon' \in {horizon, clock},
           \A p \in Positions' : p \in Positions \cup {0} \/ p <= horizon',
           pc' = "save" => next' # 0,
           0 \notin lateSaves'
    PROVE  Bounded'
  <1>1. clock \in Nat /\ horizon \in Nat /\ Positions \subseteq Nat
    BY ZenonT(40), Numbers DEF Positions
  <1>2. horizon <= clock /\ \A p \in Positions : p <= horizon
    BY ZenonT(40) DEF Bounded
  <1>3. horizon' \in Nat /\ horizon' <= clock /\ 0 <= horizon' /\ \A a \in Nat : a <= horizon => a <= horizon'
    BY ZenonT(40), <1>1, <1>2, Later
  <1>4. \A p \in Positions' : p <= horizon'
    BY ZenonT(40), <1>1, <1>2, <1>3
  <1> QED  BY ZenonT(40), <1>3, <1>4 DEF Bounded

\* A change of the source stamps its row beyond every position read so far.
LEMMA Fresh ==
    ASSUME TypeOK, Bounded, NEW k \in Key, Upsert(k)
    PROVE  /\ \A j \in Key : src'[j] = src[j] \/ src'[j] > horizon
           /\ \A j \in Key : src'[j] <= clock'
           /\ Bounded'
  <1>1. /\ src' = [src EXCEPT ![k] = clock + 1] /\ clock' = clock + 1
        /\ UNCHANGED <<stored, pc, cursor, next, lateSaves, horizon>>
    BY ZenonT(40) DEF Upsert, late
  <1>2. /\ src \in [Key -> Nat] /\ clock \in Nat /\ horizon \in Nat
    BY ZenonT(40), Numbers
  <1>3. horizon <= clock /\ \A j \in Key : src[j] <= clock
    BY ZenonT(40) DEF Bounded
  <1>4. clock + 1 > horizon /\ horizon <= clock + 1 /\ clock + 1 <= clock + 1 /\ \A a \in Nat : a <= clock => a <= clock + 1
    BY ZenonT(40), <1>2, <1>3, Beyond
  <1>5. \A j \in Key : src'[j] = src[j] \/ src'[j] = clock + 1
    BY ZenonT(40), <1>1, <1>2
  <1>6. \A j \in Key : src[j] \in Nat
    BY ZenonT(40), <1>2
  <1>7. \A j \in Key : src'[j] = src[j] \/ src'[j] > horizon
    BY ZenonT(40), <1>4, <1>5
  <1>8. \A j \in Key : src'[j] <= clock'
    BY ZenonT(40), <1>1, <1>3, <1>4, <1>5, <1>6
  <1>9. Bounded'
    BY ZenonT(40), <1>1, <1>4, <1>8 DEF Bounded, Positions
  <1> QED  BY ZenonT(40), <1>7, <1>8, <1>9

\* Nothing that CursorInv speaks of moves, no call is under way.
LEMMA SafeQuiet ==
    ASSUME TypeOK, TypeOK', CursorInv,
           UNCHANGED <<src, clock, sink, stored, late, horizon>>,
           cursor' = cursor \/ cursor' = stored \/ cursor' = 0,
           (UNCHANGED <<batch, next>> /\ pc \notin {"write", "save"}) \/ DropBatch,
           pc' \notin {"write", "save"},
           result' # "none" => pc' = "done"
    PROVE  CursorInv'
  <1> USE DEF late
  <1>1. Bounded'
    BY DEF CursorInv, Bounded, Positions, DropBatch, TypeOK, Pos
  <1>2. Delivered'
    BY DEF CursorInv, Delivered, DeliveredUpTo, TypeOK, Pos
  <1>3. BatchOK'
    BY DEF CursorInv, BatchOK, DropBatch, NoRows
  <1> QED  BY <1>1, <1>2, <1>3 DEF CursorInv, BatchCovers, Settled

\* A part of the batch reaches the sink: what was behind the sink stays there,
\* because a row of the batch at or before the horizon has not changed since.
LEMMA SafeWritten ==
    ASSUME TypeOK, CursorInv, NEW ks \in SUBSET InBatch,
           NEW p \in Pos, p <= horizon, DeliveredUpTo(p)
    PROVE  \A k \in Key : src[k] \in 1..p => Written(sink, batch, ks)[k] = src[k]
  BY DEF CursorInv, BatchOK, InBatch, DeliveredUpTo, Written, TypeOK, Pos

\* A call whose outcome is unknown is over, and its batch is dropped.
LEMMA SafeUnknown ==
    ASSUME TypeOK, TypeOK', CursorInv, "sink" \notin Detaches,
           Unknown, DropBatch, UNCHANGED <<src, clock, cursor, horizon>>,
           pc' \notin {"write", "save"},
           result' # "none" => pc' = "done"
    PROVE  CursorInv'
  <1> USE DEF late
  <1>1. CASE pc = "write" /\ UnknownWrite
    <2>1. PICK ks \in SUBSET InBatch :
              sink' = Written(sink, batch, ks) /\ UNCHANGED <<stored, late>>
      BY <1>1 DEF UnknownWrite
    <2>2. Bounded'
      BY <2>1 DEF CursorInv, Bounded, Positions, DropBatch, TypeOK, Pos
    <2>3. ASSUME NEW p \in {stored, cursor} \cup lateSaves
          PROVE  \A k \in Key : src[k] \in 1..p => sink'[k] = src[k]
      <3>1. p \in Pos /\ p <= horizon /\ DeliveredUpTo(p)
        BY DEF CursorInv, Bounded, Positions, Delivered, TypeOK
      <3> QED  BY <2>1, <3>1, SafeWritten
    <2>4. Delivered'
      BY <2>1, <2>3 DEF Delivered, DeliveredUpTo
    <2>5. BatchOK'
      BY DEF BatchOK, DropBatch, NoRows
    <2> QED  BY <2>1, <2>2, <2>4, <2>5 DEF CursorInv, BatchCovers, Settled
  <1>2. CASE pc = "save" /\ UnknownSave
    <2>1. /\ UNCHANGED <<sink, lateWrites>>
          /\ stored' \in {stored, next}
          /\ lateSaves' \subseteq lateSaves \cup {next}
      BY <1>2 DEF UnknownSave
    <2>2. Bounded'
      BY <1>2, <2>1 DEF CursorInv, Bounded, Positions, DropBatch, TypeOK, Pos
    <2>3. Delivered'
      BY <1>2, <2>1 DEF CursorInv, Delivered, DeliveredUpTo, BatchCovers
    <2>4. BatchOK'
      BY DEF BatchOK, DropBatch, NoRows
    <2> QED  BY <2>1, <2>2, <2>3, <2>4 DEF CursorInv, BatchCovers, Settled
  <1>3. CASE pc \notin {"write", "save"} /\ UNCHANGED <<sink, stored, late>>
    BY <1>3, SafeQuiet
  <1> QED  BY <1>1, <1>2, <1>3 DEF Unknown

\* After a failed call the runner is neither writing nor saving.
LEMMA FailSettles ==
    ASSUME TypeOK, Settled, pc # "done", NEW kind, Fail(kind)
    PROVE  pc' \notin {"write", "save"} /\ (result' # "none" => pc' = "done")
  <1>1. CASE Mode = "Once"
    BY <1>1 DEF Fail, Exit
  <1>2. CASE Mode = "Daemon"
    BY <1>2 DEF Fail, Settled
  <1> QED  BY <1>1, <1>2, ConfType

\* A batch is read: it holds the rows between the cursor and its last row,
\* and all rows when it is short.
LEMMA SafeRead ==
    ASSUME TypeOK, TypeOK', CursorInv, ReadBatch, ~TransformRefuses
    PROVE  CursorInv'
  <1> USE DEF env, ctxs, chan, late
  <1>1. PICK ks \in SUBSET Key, k \in Key :
            /\ k \in ks /\ FirstRows(ks)
            /\ \A j \in ks : src[j] <= src[k]
            /\ batch' = Written(NoRows, src, ks)
            /\ next' = IF Cursorless THEN 0 ELSE src[k]
    BY DEF ReadBatch
  <1>2. /\ pc = "read" /\ pc' = "write" /\ horizon' = clock
        /\ UNCHANGED <<src, clock, sink, stored, cursor, late, result>>
    BY DEF ReadBatch
  <1>3. \A j \in Key : batch'[j] = IF j \in ks THEN src[j] ELSE 0
    BY <1>1 DEF Written, NoRows
  <1>4. \A j \in ks : src[j] > cursor
    BY <1>1 DEF FirstRows, Rows
  <1>5. Bounded'
    BY <1>1, <1>2 DEF TypeOK, Pos, CursorInv, Bounded, Positions
  <1>6. Delivered'
    BY <1>2 DEF CursorInv, Delivered, DeliveredUpTo
  <1>7. BatchOK'
    BY <1>2, <1>3 DEF BatchOK, CursorInv, Bounded
  <1>8. Reaches(next)'
    <2> SUFFICES ASSUME NEW j \in Key, src[j] \in (cursor + 1)..next'
                 PROVE  j \in ks
      BY <1>2, <1>3 DEF Reaches
    <2>1. j \in Rows
      BY DEF Rows, TypeOK, Pos
    <2>2. src[j] <= src[k]
      BY <1>1 DEF TypeOK, Pos
    <2> QED  BY <1>1, <2>1, <2>2 DEF FirstRows, TypeOK, Pos
  <1>9. Cardinality(InBatch') < Limit => Reaches(horizon)'
    <2> SUFFICES ASSUME Cardinality(InBatch') < Limit,
                        NEW j \in Key, src[j] \in (cursor + 1)..clock
                 PROVE  j \in ks
      BY <1>2, <1>3 DEF Reaches
    <2>1. InBatch' = ks
      BY <1>3, <1>4 DEF InBatch, TypeOK, Pos
    <2>2. ks = Rows
      BY <1>1, <2>1, LimitAssumption DEF FirstRows
    <2> QED  BY <2>2 DEF Rows, TypeOK, Pos
  <1> QED
    BY <1>2, <1>5, <1>6, <1>7, <1>8, <1>9 DEF CursorInv, BatchCovers, Settled

\* The whole batch is in the sink: everything up to its next cursor is, and
\* everything up to the horizon when it was short.
LEMMA WholeBatch ==
    ASSUME TypeOK, CursorInv, NEW p \in Pos, p <= horizon, Reaches(p),
           NEW k \in Key, src[k] \in 1..p
    PROVE  Written(sink, batch, InBatch)[k] = src[k]
  <1>1. CASE src[k] <= cursor
    <2>1. cursor \in Pos /\ cursor <= horizon /\ DeliveredUpTo(cursor)
      BY DEF CursorInv, Bounded, Positions, Delivered, TypeOK
    <2>2. src[k] \in 1..cursor
      BY <1>1, <2>1 DEF TypeOK, Pos
    <2> QED  BY <2>1, <2>2, SafeWritten
  <1>2. CASE src[k] > cursor
    <2>1. src[k] \in (cursor + 1)..p
      BY <1>2 DEF TypeOK, Pos
    <2>2. batch[k] = src[k] /\ src[k] # 0
      BY <2>1 DEF Reaches, TypeOK, Pos
    <2> QED  BY <2>2 DEF Written, InBatch
  <1> QED  BY <1>1, <1>2 DEF TypeOK, Pos

\* write_batch succeeds.
LEMMA SafeWrite ==
    ASSUME TypeOK, TypeOK', CursorInv, WriteBatch
    PROVE  CursorInv' /\ (Cardinality(InBatch) < Limit => DeliveredUpTo(horizon)')
  <1> USE DEF env, ctxs, chan, late
  <1>1. /\ pc = "write" /\ sink' = Written(sink, batch, InBatch)
        /\ UNCHANGED <<src, clock, stored, cursor, late, horizon>>
    BY DEF WriteBatch
  <1>2. ASSUME NEW p \in {stored, cursor} \cup lateSaves
        PROVE  \A k \in Key : src[k] \in 1..p => sink'[k] = src[k]
    <2>1. p \in Pos /\ p <= horizon /\ DeliveredUpTo(p)
      BY DEF CursorInv, Bounded, Positions, Delivered, TypeOK
    <2> QED  BY <1>1, <2>1, SafeWritten
  <1>3. Delivered'
    BY <1>1, <1>2 DEF Delivered, DeliveredUpTo
  <1>4. next \in Pos /\ next <= horizon /\ horizon \in Pos /\ horizon <= horizon
    BY DEF CursorInv, Bounded, Positions, TypeOK, Pos
  <1>5. \A k \in Key : src[k] \in 1..next => sink'[k] = src[k]
    BY <1>1, <1>4, WholeBatch DEF CursorInv, BatchCovers
  <1>6. Cardinality(InBatch) < Limit =>
            \A k \in Key : src[k] \in 1..horizon => sink'[k] = src[k]
    BY <1>1, <1>4, WholeBatch DEF CursorInv, BatchCovers
  <1>7. Cardinality(InBatch) < Limit => DeliveredUpTo(horizon)'
    BY <1>1, <1>6 DEF DeliveredUpTo
  <1>8. CASE next # 0 /\ pc' = "save" /\ UNCHANGED <<batch, next, backoff, result>>
    <2>1. Bounded'
      BY <1>1, <1>8 DEF CursorInv, Bounded, Positions
    <2>2. BatchOK'
      BY <1>1, <1>8 DEF CursorInv, BatchOK
    <2>3. DeliveredUpTo(next)'
      BY <1>1, <1>5, <1>8 DEF DeliveredUpTo
    <2>4. InBatch' = InBatch
      BY <1>8 DEF InBatch
    <2> QED
      BY <1>1, <1>3, <1>7, <1>8, <2>1, <2>2, <2>3, <2>4
         DEF CursorInv, BatchCovers, Settled
  <1>9. CASE FinishTick
    <2>1. pc' \notin {"write", "save"} /\ (result' # "none" => pc' = "done")
      BY <1>1, <1>9 DEF FinishTick, Exit, Continue, CursorInv, Settled
    <2>2. Bounded'
      <3>1. Bounded /\ 0 \notin lateSaves'
        BY ZenonT(40), <1>1 DEF CursorInv, Bounded, late
      <3>2. \A p \in Positions' : p \in Positions \cup {0}
        BY ZenonT(40), <1>1, <1>9 DEF Positions, FinishTick, DropBatch, late
      <3> QED  BY ZenonT(40), <1>1, <2>1, <3>1, <3>2, BoundedKept
    <2>3. BatchOK'
      BY <1>9 DEF BatchOK, FinishTick, DropBatch, NoRows
    <2> QED
      BY <1>1, <1>3, <1>7, <2>1, <2>2, <2>3 DEF CursorInv, BatchCovers, Settled
  <1> QED  BY <1>8, <1>9 DEF WriteBatch

\* save_cursor succeeds.
LEMMA SafeSave ==
    ASSUME TypeOK, TypeOK', CursorInv, SaveCursor
    PROVE  CursorInv' /\ (Cardinality(InBatch) < Limit => DeliveredUpTo(horizon)')
  <1> USE DEF env, ctxs, chan, late
  <1>1. /\ pc = "save" /\ stored' = next /\ cursor' = next /\ FinishTick
        /\ UNCHANGED <<src, clock, sink, late, horizon>>
    BY DEF SaveCursor
  <1>2. pc' \notin {"write", "save"} /\ (result' # "none" => pc' = "done")
    BY <1>1 DEF FinishTick, Exit, Continue, CursorInv, Settled
  <1>3. Bounded'
    BY <1>1, <1>2 DEF FinishTick, DropBatch, CursorInv, Bounded, Positions, TypeOK, Pos
  <1>4. Delivered'
    BY <1>1 DEF CursorInv, BatchCovers, Delivered, DeliveredUpTo
  <1>5. BatchOK'
    BY <1>1 DEF BatchOK, FinishTick, DropBatch, NoRows
  <1>6. Cardinality(InBatch) < Limit => DeliveredUpTo(horizon)'
    BY <1>1 DEF CursorInv, BatchCovers, DeliveredUpTo
  <1> QED  BY <1>1, <1>2, <1>3, <1>4, <1>5, <1>6 DEF CursorInv, BatchCovers, Settled

\* A plain insert that stops at a duplicate is a write of a part of the batch.
LEMMA DuplicateIsUnknown ==
    ASSUME WriteDuplicate
    PROVE  Unknown
  <1> USE DEF late
  <1>1. \E ks \in SUBSET InBatch : sink' = Written(sink, batch, ks)
    BY DEF WriteDuplicate
  <1> QED  BY <1>1 DEF WriteDuplicate, Unknown, UnknownWrite

\* The configuration of a flow does not change.
LEMMA ConfFixed ==
    ASSUME [Next]_vars
    PROVE  Detaches' = Detaches /\ Mode' = Mode
  BY DEF Next, vars, Detaches, Mode

\* Each step of the runner keeps the cursor behind the sink.
LEMMA SafeRunner ==
    ASSUME TypeOK, TypeOK', CursorInv, "sink" \notin Detaches, Runner
    PROVE  CursorInv'
  <1> USE DEF env, ctxs, chan, late
  <1>s. Settled
    BY DEF CursorInv
  <1>1. CASE Sleep
    BY <1>1, <1>s, SafeQuiet DEF Sleep, Settled
  <1>2. CASE SleepInterrupted
    BY <1>2, SafeQuiet DEF SleepInterrupted, Exit
  <1>3. CASE BuildSource
    <2>1. pc' \notin {"write", "save"} /\ (result' # "none" => pc' = "done")
      BY <1>3, <1>s, FailSettles DEF BuildSource, Settled
    <2> QED  BY <1>3, <2>1, SafeQuiet DEF BuildSource
  <1>4. CASE BuildSink
    <2>1. pc' \notin {"write", "save"} /\ (result' # "none" => pc' = "done")
      BY ZenonT(40), <1>4, <1>s, FailSettles DEF BuildSink, Settled
    <2> QED  BY <1>4, <2>1, SafeQuiet DEF BuildSink
  <1>5. CASE EnterTick
    BY <1>5, <1>s, SafeQuiet DEF EnterTick, Exit, Settled
  <1>6. CASE CallFails
    <2>1. pc' \notin {"write", "save"} /\ (result' # "none" => pc' = "done")
      BY <1>6, <1>s, FailSettles DEF CallFails
    <2> QED  BY <1>6, <2>1, SafeUnknown DEF CallFails
  <1>7. CASE LoadCursor
    BY <1>7, <1>s, SafeQuiet DEF LoadCursor, Settled
  <1>8. CASE ReadRefused
    <2>1. pc' \notin {"write", "save"} /\ (result' # "none" => pc' = "done")
      BY <1>8, <1>s, FailSettles DEF ReadRefused
    <2> QED  BY <1>8, <2>1, SafeQuiet DEF ReadRefused
  <1>9. ASSUME pc = "read", horizon' = clock, pc' \notin {"write", "save"},
               result' # "none" => pc' = "done",
               UNCHANGED <<env, sink, stored, cursor, batch, next, late>>
        PROVE  CursorInv'
    <2>1. Bounded'
      <3>1. Bounded /\ 0 \notin lateSaves
        BY ZenonT(40) DEF CursorInv, Bounded
      <3>2. \A p \in Positions' : p \in Positions
        BY ZenonT(40), <1>9 DEF Positions
      <3> QED  BY ZenonT(40), <1>9, <3>1, <3>2, BoundedKept
    <2>2. Delivered'
      BY <1>9 DEF CursorInv, Delivered, DeliveredUpTo
    <2>3. BatchOK'
      BY <1>9 DEF CursorInv, BatchOK
    <2> QED  BY <1>9, <2>1, <2>2, <2>3 DEF CursorInv, BatchCovers, Settled
  <1>10. CASE ReadEmpty
    BY <1>9, <1>10, <1>s DEF ReadEmpty, Exit, Settled
  <1>11. CASE ReadBatch
    <2>1. CASE TransformRefuses
      <3>1. pc' \notin {"write", "save"} /\ (result' # "none" => pc' = "done")
        BY <1>11, <2>1, <1>s, FailSettles DEF ReadBatch
      <3> QED  BY <1>9, <1>11, <2>1, <3>1 DEF ReadBatch
    <2> QED  BY <1>11, <2>1, SafeRead
  <1>12. CASE WriteBatch
    BY <1>12, SafeWrite
  <1>13. CASE WriteDuplicate
    <2>1. pc' \notin {"write", "save"} /\ (result' # "none" => pc' = "done")
      BY ZenonT(40), <1>13, <1>s, FailSettles DEF WriteDuplicate
    <2> QED  BY ZenonT(40), <1>13, <2>1, DuplicateIsUnknown, SafeUnknown DEF WriteDuplicate
  <1>14. CASE SaveCursor
    BY <1>14, SafeSave
  <1> QED
    BY <1>1, <1>2, <1>3, <1>4, <1>5, <1>6, <1>7, <1>8, <1>10, <1>11, <1>12, <1>13, <1>14
       DEF Runner

\* So does each step of its environment.
LEMMA SafeOutside ==
    ASSUME TypeOK, TypeOK', CursorInv, "sink" \notin Detaches, Outside
    PROVE  CursorInv'
  <1> USE DEF env, ctxs, chan, late
  <1>1. CASE \E k \in Key : Upsert(k)
    <2>1. PICK k \in Key : Upsert(k)
      BY <1>1
    <2>2. /\ src' = [src EXCEPT ![k] = clock + 1] /\ clock' = clock + 1
          /\ UNCHANGED <<sink, stored, pc, cursor, batch, next, late, result, horizon>>
      BY <2>1 DEF Upsert
    <2>3. /\ \A j \in Key : src'[j] = src[j] \/ src'[j] > horizon
          /\ \A j \in Key : src'[j] <= clock'
          /\ Bounded'
      BY ZenonT(40), <2>1, Fresh DEF CursorInv
    <2>4. /\ \A j \in Key : src'[j] \in Nat
          /\ horizon \in Nat /\ cursor + 1 \in Nat /\ 1 \in Nat
          /\ Pos \subseteq Nat
      <3>1. cursor \in Nat /\ horizon \in Nat
        BY ZenonT(40), Numbers
      <3>2. Pos \subseteq Nat
        BY BoundAssumption DEF Pos
      <3>3. \A j \in Key : src'[j] \in Nat
        BY ZenonT(40), <3>2 DEF TypeOK
      <3> QED  BY <3>1, <3>2, <3>3
    <2>5. ASSUME NEW p \in Pos, p <= horizon, DeliveredUpTo(p)
          PROVE  \A j \in Key : src'[j] \in 1..p => sink'[j] = src'[j]
      <3> SUFFICES ASSUME NEW j \in Key, src'[j] \in 1..p PROVE sink'[j] = src'[j]
        BY ZenonT(40)
      <3>1. src'[j] = src[j]
        BY ZenonT(40), <2>3, <2>4, <2>5, Stayed
      <3> QED  BY ZenonT(40), <2>2, <2>5, <3>1 DEF DeliveredUpTo
    <2>6. \A p \in Positions : p \in Pos /\ p <= horizon
      BY DEF Positions, CursorInv, Bounded, TypeOK
    <2>7. Delivered'
      BY <2>2, <2>5, <2>6 DEF CursorInv, Delivered, DeliveredUpTo, Positions
    <2>8. BatchOK'
      BY <2>2, <2>3 DEF CursorInv, BatchOK
    <2>9. InBatch' = InBatch
      BY <2>2 DEF InBatch
    <2>10. ASSUME NEW p \in Pos, p <= horizon, Reaches(p)
           PROVE  \A j \in Key : src'[j] \in (cursor' + 1)..p => batch'[j] = src'[j]
      <3> SUFFICES ASSUME NEW j \in Key, src'[j] \in (cursor' + 1)..p PROVE batch'[j] = src'[j]
        BY ZenonT(40)
      <3>1. src'[j] \in (cursor + 1)..p
        BY ZenonT(40), <2>2
      <3>2. src'[j] = src[j]
        BY ZenonT(40), <2>3, <2>4, <2>10, <3>1, Stayed
      <3> QED  BY ZenonT(40), <2>2, <2>10, <3>1, <3>2 DEF Reaches
    <2>11. next \in Positions /\ horizon \in Pos /\ horizon <= horizon
      BY DEF Positions, TypeOK, Pos
    <2>12. pc' = "write" => Reaches(next)'
      BY <2>2, <2>6, <2>10, <2>11 DEF CursorInv, BatchCovers, Reaches
    <2>13. pc' = "write" /\ Cardinality(InBatch') < Limit => Reaches(horizon)'
      BY <2>2, <2>9, <2>10, <2>11 DEF CursorInv, BatchCovers, Reaches
    <2>14. pc' = "save" => DeliveredUpTo(next)'
      BY <2>2, <2>5, <2>6, <2>11 DEF CursorInv, BatchCovers, DeliveredUpTo
    <2>15. pc' = "save" /\ Cardinality(InBatch') < Limit => DeliveredUpTo(horizon)'
      BY <2>2, <2>5, <2>9, <2>11 DEF CursorInv, BatchCovers, DeliveredUpTo
    <2> QED
      BY <2>2, <2>3, <2>7, <2>8, <2>12, <2>13, <2>14, <2>15
         DEF CursorInv, BatchCovers, Settled
  <1>2. ASSUME UNCHANGED <<src, clock, sink, pc, cursor, batch, next, result, horizon>>,
               stored' \in {stored} \cup lateSaves, lateSaves' \subseteq lateSaves,
               UNCHANGED lateWrites
        PROVE  CursorInv'
    <2>1. Bounded'
      BY <1>2 DEF CursorInv, Bounded, Positions
    <2>2. Delivered'
      BY <1>2 DEF CursorInv, Delivered, DeliveredUpTo
    <2>3. BatchOK'
      BY <1>2 DEF CursorInv, BatchOK
    <2>4. BatchCovers'
      BY <1>2 DEF CursorInv, BatchCovers, Reaches, DeliveredUpTo, InBatch
    <2> QED  BY <1>2, <2>1, <2>2, <2>3, <2>4 DEF CursorInv, Settled
  <1>3. CASE \E s \in Schemas : AlterSchema(s)
    BY ZenonT(40), <1>2, <1>3 DEF AlterSchema
  <1>4. CASE \E b \in lateWrites : LateWrite(b)
    BY <1>4 DEF CursorInv
  <1>5. CASE \E p \in lateSaves : LateSave(p)
    BY <1>2, <1>5 DEF LateSave
  <1>6. CASE Start
    <2>1. pc' \in {"jitter", "build"} /\ result' = "none"
      BY <1>6 DEF Start
    <2> QED  BY <1>6, <2>1, SafeQuiet DEF Start
  <1>7. CASE Crash
    BY <1>7, SafeUnknown DEF Crash, Running, CursorInv, Settled
  <1>8. CASE SendShutdown
    BY <1>2, <1>8 DEF SendShutdown
  <1>9. CASE CloseChannel
    BY <1>2, <1>9 DEF CloseChannel
  <1> QED
    BY <1>1, <1>3, <1>4, <1>5, <1>6, <1>7, <1>8, <1>9 DEF Outside

\* CursorInv is inductive as long as the sink applies no call after the
\* runner gave up on it, which its configuration decides once and for all.
THEOREM CursorSafetyHolds == Spec => []CursorSafety
  <1>1. Init => CursorSafety
    BY NoRowsType DEF Init, CursorSafety, CursorInv, Bounded, Positions, Delivered,
       DeliveredUpTo, BatchOK, BatchCovers, Settled, NoRows
  <1>2. TypeOK /\ TypeOK' /\ CursorSafety /\ [Next]_vars => CursorSafety'
    <2> SUFFICES ASSUME TypeOK, TypeOK', CursorInv, "sink" \notin Detaches, [Next]_vars
                 PROVE  CursorInv'
      BY ConfFixed DEF CursorSafety
    <2>1. UNCHANGED vars => CursorInv'
      BY ZenonT(40) DEF CursorInv, Bounded, Positions, Delivered, DeliveredUpTo, BatchOK,
         BatchCovers, Reaches, InBatch, Settled, vars, env, ctxs, chan, late
    <2> QED  BY <2>1, SafeRunner, SafeOutside DEF Next, Outside
  <1> QED  BY <1>1, <1>2, TypeCorrect, PTL DEF Spec

\* The persisted cursor never runs ahead of the sink, whatever fails, crashes,
\* is cancelled or is saved late: a restart from it loses no row.
THEOREM NoLossHolds == Spec => []NoLoss
  <1>1. CursorSafety => NoLoss
    BY DEF CursorSafety, CursorInv, Delivered, NoLoss
  <1> QED  BY <1>1, CursorSafetyHolds, PTL

-----------------------------------------------------------------------------
(* The exits of the loop.                                                  *)

\* The channel is used by the signal task of a daemon only.
Signals == (closed => sent) /\ (Mode = "Once" => ~sent)

\* Every step keeps what the signals say.
LEMMA SignalsStep ==
    ASSUME Signals, [Next]_vars
    PROVE  Signals'
  <1> USE ConfFixed DEF env, ctxs, chan, late, Signals
  <1>1. CASE UNCHANGED chan
    BY <1>1
  <1>2. CASE Changed
    BY <1>2 DEF Changed
  <1>3. CASE SendShutdown
    BY <1>3 DEF SendShutdown
  <1>4. CASE CloseChannel
    BY <1>4 DEF CloseChannel
  <1>5. CASE Start
    BY <1>5 DEF Start
  <1>6. CASE Runner
    BY ZenonT(40), <1>1, <1>2, <1>6 DEF Runner, Sleep, SleepInterrupted, BuildSource, BuildSink,
       EnterTick, CallFails, LoadCursor, ReadRefused, ReadEmpty, ReadBatch, WriteBatch,
       WriteDuplicate, SaveCursor
  <1> QED
    BY ZenonT(40), <1>1, <1>3, <1>4, <1>5, <1>6 DEF Next, Upsert, AlterSchema, LateWrite, LateSave,
       Crash, vars

\* A daemon does not return because something failed.
LEMMA DaemonStep ==
    ASSUME Signals, DaemonOutlivesFailure, [Next]_vars
    PROVE  DaemonOutlivesFailure'
  <1> SUFFICES ASSUME Mode = "Daemon", pc' = "done"
               PROVE  sent' /\ result' = "ok"
    BY ConfFixed DEF DaemonOutlivesFailure
  <1> USE DEF env, ctxs, chan, late
  <1>1. CASE UNCHANGED <<pc, result, sent>>
    BY <1>1 DEF DaemonOutlivesFailure
  <1>2. ASSUME NEW kind, Fail(kind) PROVE FALSE
    BY <1>2 DEF Fail
  <1>3. CASE SleepInterrupted
    BY <1>3 DEF SleepInterrupted, Changed, Exit, Signals
  <1>4. CASE EnterTick
    BY <1>4 DEF EnterTick, Exit
  <1>5. CASE BuildSource \/ BuildSink
    BY <1>2, <1>5 DEF BuildSource, BuildSink
  <1>6. CASE CallFails \/ ReadRefused \/ WriteDuplicate
    BY <1>2, <1>6 DEF CallFails, ReadRefused, WriteDuplicate
  <1>7. CASE Sleep \/ LoadCursor \/ ReadEmpty \/ Crash \/ Start
    BY <1>7 DEF Sleep, LoadCursor, ReadEmpty, Crash, Start
  <1>8. CASE ReadBatch
    BY ZenonT(40), <1>2, <1>8 DEF ReadBatch
  <1>9. CASE WriteBatch \/ SaveCursor
    BY <1>9 DEF WriteBatch, SaveCursor, FinishTick, Continue
  <1>10. CASE SendShutdown
    BY <1>10 DEF SendShutdown, Running
  <1> QED
    BY ZenonT(40), <1>1, <1>3, <1>4, <1>5, <1>6, <1>7, <1>8, <1>9, <1>10
       DEF Next, Runner, Upsert, AlterSchema, LateWrite, LateSave, CloseChannel, vars

\* No error makes the loop of a daemon return: it ends with success, after a
\* shutdown.
THEOREM DaemonOutlivesFailureHolds == Spec => []DaemonOutlivesFailure
  <1>1. Init => Signals /\ DaemonOutlivesFailure
    BY DEF Init, Signals, DaemonOutlivesFailure
  <1>2. Signals /\ DaemonOutlivesFailure /\ [Next]_vars
            => Signals' /\ DaemonOutlivesFailure'
    BY SignalsStep, DaemonStep
  <1> QED  BY <1>1, <1>2, PTL DEF Spec

\* A one-shot run returns success only from a batch that was short.
LEMMA OnceStep ==
    ASSUME TypeOK, TypeOK', CursorSafety, Signals, OnceDrains, [Next]_vars
    PROVE  OnceDrains'
  <1> SUFFICES ASSUME Mode = "Once", result' = "ok", "sink" \notin Detaches
               PROVE  DeliveredUpTo(horizon)'
    BY ConfFixed DEF OnceDrains
  <1>0. CursorInv
    BY DEF CursorSafety
  <1> USE DEF env, ctxs, chan, late
  <1>s. /\ ~sent /\ ~closed
        /\ result # "none" => pc = "done"
    BY <1>0 DEF Signals, CursorInv, Settled
  <1>1. CASE UNCHANGED <<src, sink, result, horizon>>
    BY <1>1 DEF OnceDrains, DeliveredUpTo
  <1>2. ASSUME NEW kind, Fail(kind) PROVE FALSE
    BY <1>2 DEF Fail, Exit
  <1>3. CASE SleepInterrupted \/ EnterTick
    BY <1>3, <1>1, <1>s DEF SleepInterrupted, Changed, EnterTick, Exit
  <1>4. CASE BuildSource \/ BuildSink
    BY <1>1, <1>2, <1>4 DEF BuildSource, BuildSink
  <1>5. CASE CallFails \/ ReadRefused \/ WriteDuplicate
    BY <1>2, <1>5 DEF CallFails, ReadRefused, WriteDuplicate
  <1>6. CASE ReadEmpty
    <2>1. \A k \in Key : src[k] \in Pos /\ src[k] <= cursor /\ cursor \in Pos
      <3>1. \A k \in Key : src[k] \in Nat /\ cursor \in Nat /\ ~(src[k] > cursor)
        BY ZenonT(40), <1>6, Numbers DEF ReadEmpty, Rows
      <3>2. \A k \in Key : src[k] <= cursor
        BY <3>1
      <3> QED  BY ZenonT(40), <3>2 DEF TypeOK
    <2>2. \A k \in Key : src[k] \in 1..cursor => sink[k] = src[k]
      BY <1>0 DEF CursorInv, Delivered, DeliveredUpTo
    <2>3. UNCHANGED <<src, sink>>
      BY <1>6 DEF ReadEmpty
    <2>4. \A k \in Key : \A h : src[k] \in 1..h => src[k] \in 1..cursor
      <3>1. \A k \in Key : src[k] \in Nat /\ cursor \in Nat
        BY ZenonT(40), Numbers
      <3>2. \A a, c \in Nat : \A h : a <= c /\ a \in 1..h => a \in 1..c
        OBVIOUS
      <3> QED  BY ZenonT(40), <2>1, <3>1, <3>2
    <2> QED  BY ZenonT(40), <2>2, <2>3, <2>4 DEF DeliveredUpTo
  <1>7. CASE ReadBatch
    BY ZenonT(40), <1>2, <1>7, <1>s DEF ReadBatch
  <1>8. CASE WriteBatch
    <2>1. CASE UNCHANGED result
      BY <1>8, <1>s, <2>1 DEF WriteBatch
    <2>2. CASE FinishTick
      BY ZenonT(40), <1>0, <1>8, <1>s, <2>2, SafeWrite DEF WriteBatch, FinishTick, Continue
    <2> QED  BY <1>8, <2>1, <2>2 DEF WriteBatch
  <1>9. CASE SaveCursor
    BY <1>0, <1>9, <1>s, SafeSave DEF SaveCursor, FinishTick, Continue
  <1>10. CASE \E k \in Key : Upsert(k)
    <2>1. \A k \in Key : src'[k] = src[k] \/ src'[k] > horizon
      BY ZenonT(40), <1>0, <1>10, Fresh DEF CursorInv
    <2>2. UNCHANGED <<sink, result, horizon>>
      BY <1>10 DEF Upsert
    <2>3. horizon \in Nat /\ horizon <= horizon /\ 1 \in Nat
      <3>1. horizon \in Nat
        BY ZenonT(40), Numbers
      <3> QED  BY <3>1
    <2>4. \A k \in Key : src'[k] \in Nat
      <3>1. Pos \subseteq Nat
        BY BoundAssumption DEF Pos
      <3> QED  BY ZenonT(40), <3>1 DEF TypeOK
    <2>5. DeliveredUpTo(horizon) => DeliveredUpTo(horizon)'
      BY ZenonT(40), <2>1, <2>2, <2>3, <2>4, Stayed DEF DeliveredUpTo
    <2> QED  BY ZenonT(40), <2>2, <2>5 DEF OnceDrains
  <1>11. CASE Start \/ Crash
    BY <1>11, <1>s DEF Start, Crash, Running
  <1>12. CASE \E b \in lateWrites : LateWrite(b)
    BY <1>0, <1>12 DEF CursorInv
  <1> QED
    BY ZenonT(40), <1>1, <1>3, <1>4, <1>5, <1>6, <1>7, <1>8, <1>9, <1>10, <1>11, <1>12
       DEF Next, Runner, Sleep, LoadCursor, AlterSchema, LateSave, SendShutdown,
           CloseChannel, vars

\* A one-shot run that reports success has delivered every row that was in
\* the source when it last read it.
THEOREM OnceDrainsHolds == Spec => []OnceDrains
  <1>1. Init => Signals /\ OnceDrains
    BY DEF Init, Signals, OnceDrains
  <1>2. TypeOK /\ TypeOK' /\ CursorSafety /\ Signals /\ OnceDrains /\ [Next]_vars
            => Signals' /\ OnceDrains'
    BY SignalsStep, OnceStep
  <1> QED  BY <1>1, <1>2, TypeCorrect, CursorSafetyHolds, PTL DEF Spec

-----------------------------------------------------------------------------
(* The runner implements at-least-once delivery.                           *)

\* A part of the batch reaching the sink is a delivery.
LEMMA WriteDelivers ==
    ASSUME TypeOK, CursorInv, NEW ks \in SUBSET InBatch,
           sink' = Written(sink, batch, ks), UNCHANGED <<src, clock, stored>>
    PROVE  Abs!Deliver
  <1>1. ASSUME NEW k \in Key
        PROVE  sink'[k] = sink[k] \/ sink'[k] \in 1..src[k]
    <2>1. CASE k \in ks
      <3>1. sink'[k] = batch[k] /\ batch[k] # 0
        BY ZenonT(40), <2>1 DEF Written, InBatch
      <3>2. batch[k] <= horizon /\ (src[k] = batch[k] \/ src[k] > horizon)
        BY <3>1 DEF CursorInv, BatchOK
      <3> QED  BY <3>1, <3>2 DEF TypeOK, Pos
    <2>2. CASE k \notin ks
      BY <2>2 DEF Written
    <2> QED  BY <2>1, <2>2
  <1>2. ASSUME NEW k \in Key, src[k] \in 1..stored
        PROVE  sink'[k] = sink[k]
    <2>1. stored \in Pos /\ stored <= horizon /\ DeliveredUpTo(stored)
      BY DEF CursorInv, Bounded, Positions, Delivered, TypeOK
    <2>2. Written(sink, batch, ks)[k] = src[k]
      BY <1>2, <2>1, SafeWritten
    <2> QED  BY <1>2, <2>1, <2>2 DEF DeliveredUpTo
  <1> QED  BY <1>1, <1>2 DEF Abs!Deliver, Abs!Current

\* Moving the cursor to a position behind the sink is a commit.
LEMMA SaveCommits ==
    ASSUME TypeOK, CursorInv, NEW p \in Pos, p # 0, p <= horizon, DeliveredUpTo(p),
           stored' = p, UNCHANGED <<src, clock, sink>>
    PROVE  Abs!Commit
  <1>1. p \in 1..clock
    BY DEF CursorInv, Bounded, TypeOK, Pos
  <1> QED  BY <1>1 DEF DeliveredUpTo, Abs!Commit, Abs!Current

\* A call with an unknown outcome is one of the two, or neither.
LEMMA UnknownRefines ==
    ASSUME TypeOK, CursorInv, "sink" \notin Detaches, Unknown, UNCHANGED <<src, clock>>
    PROVE  [Abs!AbsNext]_(Abs!absVars)
  <1> USE DEF late
  <1>1. CASE pc = "write" /\ UnknownWrite
    BY <1>1, WriteDelivers DEF UnknownWrite, Abs!AbsNext
  <1>2. CASE pc = "save" /\ UnknownSave
    <2>1. UNCHANGED sink /\ stored' \in {stored, next}
      BY <1>2 DEF UnknownSave
    <2>2. next \in Pos /\ next # 0 /\ next <= horizon /\ DeliveredUpTo(next)
      BY <1>2 DEF CursorInv, Bounded, Positions, BatchCovers, TypeOK
    <2> QED  BY <2>1, <2>2, SaveCommits DEF Abs!AbsNext, Abs!absVars
  <1>3. CASE UNCHANGED <<sink, stored>>
    BY <1>3 DEF Abs!absVars
  <1> QED  BY <1>1, <1>2, <1>3 DEF Unknown

\* Every step of the runner is a step of the abstract flow, or leaves the
\* tables and the persisted cursor alone.
LEMMA StepRefines ==
    ASSUME TypeOK, TypeOK', CursorInv, "sink" \notin Detaches, [Next]_vars
    PROVE  [Abs!AbsNext]_(Abs!absVars)
  <1> USE DEF env, ctxs, chan, late
  <1>1. CASE UNCHANGED <<src, clock, sink, stored>>
    BY <1>1 DEF Abs!absVars
  <1>2. CASE \E k \in Key : Upsert(k)
    <2>1. clock' \in 1..MaxPos /\ clock' > clock
      <3>1. clock < MaxPos /\ clock' = clock + 1
        BY ZenonT(40), <1>2 DEF Upsert
      <3>2. clock \in Nat
        BY ZenonT(40), Numbers
      <3> QED  BY <3>1, <3>2, BoundAssumption
    <2> QED  BY ZenonT(40), <1>2, <2>1 DEF Upsert, Abs!Change, Abs!AbsNext
  <1>3. CASE \E p \in lateSaves : LateSave(p)
    <2>1. PICK p \in lateSaves : LateSave(p)
      BY <1>3
    <2>2. p \in Pos /\ p # 0 /\ p <= horizon /\ DeliveredUpTo(p)
      BY DEF CursorInv, Bounded, Positions, Delivered, TypeOK
    <2> QED  BY <2>1, <2>2, SaveCommits DEF LateSave, Abs!AbsNext
  <1>4. CASE Crash
    BY <1>4, UnknownRefines DEF Crash
  <1>5. CASE CallFails
    BY <1>5, UnknownRefines DEF CallFails
  <1>6. CASE WriteDuplicate
    BY ZenonT(40), <1>6, DuplicateIsUnknown, UnknownRefines DEF WriteDuplicate
  <1>7. CASE WriteBatch
    BY <1>7, WriteDelivers DEF WriteBatch, Abs!AbsNext
  <1>8. CASE SaveCursor
    <2>1. next \in Pos /\ next # 0 /\ next <= horizon /\ DeliveredUpTo(next)
      BY <1>8 DEF SaveCursor, CursorInv, Bounded, Positions, BatchCovers, TypeOK
    <2> QED  BY <1>8, <2>1, SaveCommits DEF SaveCursor, Abs!AbsNext
  <1>9. CASE \E b \in lateWrites : LateWrite(b)
    BY <1>9 DEF CursorInv
  <1> QED
    BY ZenonT(40), <1>1, <1>2, <1>3, <1>4, <1>5, <1>6, <1>7, <1>8, <1>9
       DEF Next, Runner, Sleep, SleepInterrupted, BuildSource, BuildSink, EnterTick,
           LoadCursor, ReadRefused, ReadEmpty, ReadBatch, AlterSchema, Start,
           SendShutdown, CloseChannel, vars

\* The runner implements AtLeastOnce, for every configuration in which the
\* sink applies no call that was given up on.
THEOREM Refinement ==
    ASSUME \A c \in Confs : "sink" \notin c.detaches
    PROVE  Spec => ImplementsAtLeastOnce
  <1>1. Init => Abs!AbsInit
    BY DEF Init, NoRows, Abs!AbsInit
  <1>2. TypeOK /\ TypeOK' /\ CursorSafety /\ [Next]_vars
            => [Abs!AbsNext]_(Abs!absVars)
    <2>1. TypeOK => "sink" \notin Detaches
      BY DEF TypeOK, Detaches
    <2> QED  BY <2>1, StepRefines DEF CursorSafety
  <1> QED
    BY <1>1, <1>2, TypeCorrect, CursorSafetyHolds, PTL
       DEF Spec, ImplementsAtLeastOnce, Abs!AbsSpec

-----------------------------------------------------------------------------
(* Batches are read and written in one shape.                              *)

\* The SELECT of a context names no column that its plan has not, a tick runs
\* on built contexts, and a batch was transformed by the plan of its SELECT.
ShapeInv ==
    /\ srcCtx => ctxCols \subseteq ctxSchema /\ ctxCols \subseteq plan
    /\ pc \in {"load", "read", "write", "save"} => srcCtx /\ sinkCtx
    /\ pc \in {"write", "save"} /\ ~Identity => plan \subseteq ctxCols

\* A failed call stops the tick, and builds nothing.
LEMMA ShapeFail ==
    ASSUME ShapeInv, NEW kind, Fail(kind)
    PROVE  ShapeInv'
  <1>1. pc' \in {"done", "backoff"} /\ UNCHANGED <<ctxCols, ctxSchema, plan>>
    BY DEF Fail, Exit, ctxs
  <1>2. srcCtx' = srcCtx \/ srcCtx' = (srcCtx /\ kind \notin DropsCtx)
    BY DEF Fail, ctxs
  <1>3. srcCtx' => srcCtx
    BY <1>2, ZenonT(40)
  <1> QED  BY <1>1, <1>3 DEF ShapeInv

\* Each step of the runner keeps the shapes of the rows.
LEMMA ShapeRunner ==
    ASSUME ShapeInv, Runner, UNCHANGED conf
    PROVE  ShapeInv'
  <1> USE DEF ctxs
  <1>0. Identity' = Identity
    BY DEF Identity
  <1>1. ASSUME UNCHANGED ctxs, pc' \notin {"load", "read", "write", "save"}
        PROVE  ShapeInv'
    BY <1>1 DEF ShapeInv
  <1>2. CASE Sleep \/ SleepInterrupted \/ ReadEmpty
    BY <1>1, <1>2 DEF Sleep, SleepInterrupted, ReadEmpty, Exit
  <1>3. CASE BuildSource
    <2>1. CASE \E kind \in {"Backend", "Other"} : Fail(kind)
      BY <2>1, ShapeFail
    <2>2. CASE /\ plan \subseteq schema /\ srcCtx' = TRUE /\ ctxCols' = plan /\ ctxSchema' = schema
               /\ UNCHANGED <<pc, plan>>
      BY <1>3, <2>2 DEF ShapeInv, BuildSource
    <2> QED  BY ZenonT(40), <1>3, <2>1, <2>2 DEF BuildSource
  <1>4. CASE BuildSink
    <2>1. CASE \E kind \in {"Backend", "Validation", "Other"} : Fail(kind)
      BY <2>1, ShapeFail
    <2>2. CASE /\ plan' = (IF Wildcard THEN ctxSchema ELSE plan)
               /\ UNCHANGED <<pc, srcCtx, ctxCols, ctxSchema>>
      BY <1>4, <2>2 DEF ShapeInv, BuildSink
    <2> QED  BY ZenonT(40), <1>4, <2>1, <2>2 DEF BuildSink
  <1>5. CASE EnterTick
    BY <1>5 DEF EnterTick, Exit, ShapeInv
  <1>6. CASE LoadCursor
    BY <1>6 DEF LoadCursor, ShapeInv
  <1>7. CASE CallFails \/ ReadRefused \/ WriteDuplicate
    BY <1>7, ShapeFail DEF CallFails, ReadRefused, WriteDuplicate
  <1>8. CASE ReadBatch
    <2>1. CASE TransformRefuses
      BY ZenonT(40), <1>8, <2>1, ShapeFail DEF ReadBatch
    <2>2. CASE ~TransformRefuses
      <3>1. pc = "read" /\ pc' = "write" /\ UNCHANGED ctxs
        BY ZenonT(40), <1>8, <2>2 DEF ReadBatch
      <3>2. ~Identity => plan \subseteq ctxCols
        BY <2>2 DEF TransformRefuses
      <3> QED  BY <1>0, <3>1, <3>2 DEF ShapeInv
    <2> QED  BY <2>1, <2>2
  <1>9. CASE WriteBatch \/ SaveCursor
    <2>1. pc \in {"write", "save"} /\ pc' \in {"save", "done", "build"} /\ UNCHANGED ctxs
      BY <1>9 DEF WriteBatch, SaveCursor, FinishTick, Continue, Exit
    <2> QED  BY <1>0, <2>1 DEF ShapeInv
  <1> QED
    BY <1>2, <1>3, <1>4, <1>5, <1>6, <1>7, <1>8, <1>9 DEF Runner

\* Every step keeps the shapes of the rows.
LEMMA ShapeStep == ShapeInv /\ [Next]_vars => ShapeInv'
  <1> SUFFICES ASSUME ShapeInv, [Next]_vars PROVE ShapeInv'
    OBVIOUS
  <1> USE DEF ctxs
  <1>1. UNCHANGED conf
    BY DEF Next, vars
  <1>2. CASE UNCHANGED <<pc, ctxs>>
    BY <1>1, <1>2 DEF ShapeInv, Identity
  <1>3. CASE Runner
    BY <1>1, <1>3, ShapeRunner
  <1>4. CASE Start
    <2>1. srcCtx' = FALSE /\ pc' \in {"jitter", "build"}
      BY <1>4 DEF Start
    <2> QED  BY <2>1 DEF ShapeInv
  <1>5. CASE Crash
    BY <1>5 DEF Crash, ShapeInv
  <1> QED
    BY ZenonT(40), <1>2, <1>3, <1>4, <1>5 DEF Next, Upsert, AlterSchema, LateWrite, LateSave,
       SendShutdown, CloseChannel, vars

\* Whatever drifts, fails and is rebuilt, the rows of a batch on its way to the
\* sink have the columns of the plan that transforms them, unless the plan is
\* the identity.
THEOREM NoMixedShapesHolds == Spec => []NoMixedShapes
  <1>1. Init => ShapeInv
    BY DEF Init, ShapeInv
  <1>2. ShapeInv => NoMixedShapes
    BY DEF ShapeInv, NoMixedShapes
  <1> QED  BY <1>1, <1>2, ShapeStep, PTL DEF Spec

-----------------------------------------------------------------------------
(* A row the cursor has passed is in the sink, whoever writes late.        *)

PresentUpTo(p) == \A k \in Key : src[k] \in 1..p => sink[k] # 0

\* Every row up to a position the cursor may be moved to is in the sink in
\* some version, and a batch on its way brings those up to its next cursor.
PresentInv ==
    /\ Bounded
    /\ \A p \in {stored, cursor} \cup lateSaves : PresentUpTo(p)
    /\ pc = "write" => \A k \in Key : src[k] \in (cursor + 1)..next => batch[k] # 0
    /\ pc = "save" => PresentUpTo(next)

\* No call takes a row out of the sink.
LEMMA RowsStay ==
    ASSUME TypeOK, NEW b \in [Key -> Pos], NEW ks \in SUBSET {k \in Key : b[k] # 0}, NEW k \in Key,
           sink[k] # 0
    PROVE  Written(sink, b, ks)[k] # 0
  BY DEF Written, TypeOK

\* The sink keeps its rows, the source does not move, and the cursors move to
\* positions that were known.
LEMMA PresentKept ==
    ASSUME TypeOK, TypeOK', PresentInv,
           UNCHANGED <<src, clock>>,
           horizon' \in {horizon, clock},
           \A k \in Key : sink[k] # 0 => sink'[k] # 0,
           {stored', cursor'} \cup lateSaves' \subseteq
               {0, stored, cursor} \cup lateSaves \cup (IF pc = "save" THEN {next} ELSE {}),
           0 \notin lateSaves',
           pc' \notin {"write", "save"},
           next' \in {0, next}
    PROVE  PresentInv'
  <1>1. Bounded'
    <2>1. Bounded
      BY ZenonT(40) DEF PresentInv
    <2>2. \A p \in Positions' : p \in Positions \cup {0}
      BY ZenonT(40) DEF Positions
    <2> QED  BY ZenonT(40), <2>1, <2>2, BoundedKept
  <1>2. ASSUME NEW p \in {0, stored, cursor} \cup lateSaves \cup (IF pc = "save" THEN {next} ELSE {})
        PROVE  \A k \in Key : src[k] \in 1..p => sink'[k] # 0
    <2>1. 1..0 = {}
      OBVIOUS
    <2>2. p = 0 \/ PresentUpTo(p)
      BY ZenonT(40), <1>2 DEF PresentInv
    <2> QED  BY ZenonT(40), <2>1, <2>2 DEF PresentUpTo
  <1>3. \A p \in {stored', cursor'} \cup lateSaves' : PresentUpTo(p)'
    BY ZenonT(40), <1>2 DEF PresentUpTo
  <1> QED  BY <1>1, <1>3 DEF PresentInv

\* A call whose outcome is unknown is over.
LEMMA PresentUnknown ==
    ASSUME TypeOK, TypeOK', PresentInv, Unknown, DropBatch,
           UNCHANGED <<src, clock, cursor, horizon>>,
           pc' \notin {"write", "save"}
    PROVE  PresentInv'
  <1> USE DEF late
  <1>0. next' \in {0, next} /\ 0 \notin lateSaves /\ (pc = "save" => next # 0)
    BY DEF DropBatch, PresentInv, Bounded
  <1>1. \A k \in Key : sink[k] # 0 => sink'[k] # 0
    <2>1. CASE pc = "write" /\ UnknownWrite
      <3>1. sink' = sink \/ \E ks \in SUBSET InBatch : sink' = Written(sink, batch, ks)
        BY <2>1 DEF UnknownWrite
      <3> QED  BY ZenonT(40), <3>1, RowsStay DEF InBatch, TypeOK
    <2>2. CASE sink' = sink
      BY <2>2
    <2> QED  BY <2>1, <2>2 DEF Unknown, UnknownSave
  <1>2. /\ {stored', cursor'} \cup lateSaves' \subseteq
               {0, stored, cursor} \cup lateSaves \cup (IF pc = "save" THEN {next} ELSE {})
        /\ 0 \notin lateSaves'
    <2>1. CASE pc = "save" /\ UnknownSave
      <3>1. stored' \in {stored, next} /\ lateSaves' \subseteq lateSaves \cup {next}
        BY <2>1 DEF UnknownSave
      <3> QED  BY <1>0, <2>1, <3>1
    <2>2. CASE UNCHANGED <<stored, lateSaves>>
      BY <1>0, <2>2
    <2> QED  BY <2>1, <2>2 DEF Unknown, UnknownWrite
  <1> QED  BY <1>0, <1>1, <1>2, PresentKept

\* A batch is read: it has every row between the cursor and its last.
LEMMA PresentRead ==
    ASSUME TypeOK, TypeOK', PresentInv, ReadBatch, ~TransformRefuses
    PROVE  PresentInv'
  <1> USE DEF env, ctxs, chan, late
  <1>1. PICK ks \in SUBSET Key, k \in Key :
            /\ k \in ks /\ FirstRows(ks)
            /\ \A j \in ks : src[j] <= src[k]
            /\ batch' = Written(NoRows, src, ks)
            /\ next' = IF Cursorless THEN 0 ELSE src[k]
    BY DEF ReadBatch
  <1>2. /\ pc' = "write" /\ horizon' = clock
        /\ UNCHANGED <<src, clock, sink, stored, cursor, late>>
    BY ZenonT(40) DEF ReadBatch
  <1>3. Bounded'
    <2>1. Bounded /\ 0 \notin lateSaves /\ src[k] <= clock
      BY ZenonT(40) DEF PresentInv, Bounded
    <2>2. \A p \in Positions' : p \in Positions \cup {0} \/ p <= horizon'
      BY ZenonT(40), <1>1, <1>2, <2>1 DEF Positions
    <2> QED  BY ZenonT(40), <1>2, <2>1, <2>2, BoundedKept
  <1>4. \A p \in {stored', cursor'} \cup lateSaves' : PresentUpTo(p)'
    BY ZenonT(40), <1>2 DEF PresentInv, PresentUpTo
  <1>5. ASSUME NEW j \in Key, src[j] \in (cursor + 1)..next'
        PROVE  batch'[j] # 0
    <2>0. src[j] \in Nat /\ src[k] \in Nat /\ cursor \in Nat
      BY ZenonT(40), Numbers
    <2>a. next' \in Nat /\ (next' = src[k] \/ next' = 0)
      BY ZenonT(40), <1>1, <2>0
    <2>b. src[j] > cursor /\ src[j] # 0 /\ src[j] <= next' /\ next' # 0
      BY ZenonT(40), <1>5, <2>0, <2>a, Between
    <2>1. j \in Rows /\ src[j] # 0 /\ src[j] <= src[k]
      BY ZenonT(40), <2>a, <2>b DEF Rows
    <2>2. j \in ks
      <3>1. ~(src[k] < src[j])
        BY <2>0, <2>1
      <3> QED  BY ZenonT(40), <1>1, <2>1, <3>1 DEF FirstRows
    <2> QED  BY <1>1, <2>1, <2>2 DEF Written, NoRows
  <1> QED  BY <1>2, <1>3, <1>4, <1>5 DEF PresentInv

\* A write keeps the rows present and adds those of the batch.
LEMMA PresentWrite ==
    ASSUME TypeOK, TypeOK', PresentInv, WriteBatch
    PROVE  PresentInv'
  <1> USE DEF env, ctxs, chan, late
  <1>1. /\ pc = "write" /\ sink' = Written(sink, batch, InBatch)
        /\ UNCHANGED <<src, clock, stored, cursor, late, horizon>>
    BY DEF WriteBatch
  <1>2. \A k \in Key : sink[k] # 0 => sink'[k] # 0
    BY ZenonT(40), <1>1, RowsStay DEF InBatch, TypeOK
  <1>3. \A k \in Key : batch[k] # 0 => sink'[k] # 0
    BY <1>1 DEF Written, InBatch
  <1>4. CASE next # 0
    <2>1. pc' = "save" /\ next' = next
      BY <1>1, <1>4 DEF WriteBatch
    <2>2. Bounded'
      BY <1>1, <1>4, <2>1 DEF PresentInv, Bounded, Positions
    <2>3. \A p \in {stored', cursor'} \cup lateSaves' : PresentUpTo(p)'
      BY ZenonT(40), <1>1, <1>2 DEF PresentInv, PresentUpTo
    <2>4. ASSUME NEW k \in Key, src[k] \in 1..next
          PROVE  sink'[k] # 0
      <3>1. CASE src[k] \in 1..cursor
        BY <1>2, <3>1 DEF PresentInv, PresentUpTo
      <3>2. CASE src[k] \in (cursor + 1)..next
        BY <1>1, <1>3, <3>2 DEF PresentInv
      <3>3. src[k] \in Nat /\ cursor \in Nat /\ next \in Nat
        BY ZenonT(40), Numbers
      <3>4. src[k] \in 1..cursor \/ src[k] \in (cursor + 1)..next
        BY <2>4, <3>3
      <3> QED  BY ZenonT(40), <3>1, <3>2, <3>4
    <2> QED  BY ZenonT(40), <1>1, <2>1, <2>2, <2>3, <2>4 DEF PresentInv, PresentUpTo
  <1>5. CASE next = 0
    <2>1. pc' \in {"build", "done"} /\ next' = 0
      BY ZenonT(40), <1>5 DEF WriteBatch, FinishTick, DropBatch, Continue, Exit
    <2>2. 0 \notin lateSaves
      BY DEF PresentInv, Bounded
    <2> QED  BY <1>1, <1>2, <2>1, <2>2, PresentKept
  <1> QED  BY <1>4, <1>5

\* Each step of the runner keeps the rows present.
LEMMA PresentRunner ==
    ASSUME TypeOK, TypeOK', PresentInv, Runner
    PROVE  PresentInv'
  <1> USE DEF env, ctxs, chan, late
  <1>0. 0 \notin lateSaves
    BY DEF PresentInv, Bounded
  <1>1. ASSUME UNCHANGED <<src, clock, sink, stored, late, next>>, horizon' \in {horizon, clock},
               cursor' \in {cursor, stored}, pc' \notin {"write", "save"}
        PROVE  PresentInv'
    BY <1>0, <1>1, PresentKept
  <1>2. ASSUME NEW kind, Fail(kind) PROVE pc' \notin {"write", "save"}
    BY <1>2 DEF Fail, Exit
  <1>3. CASE Sleep \/ SleepInterrupted \/ EnterTick \/ LoadCursor
    BY ZenonT(40), <1>1, <1>3 DEF Sleep, SleepInterrupted, EnterTick, LoadCursor, Exit
  <1>4. CASE BuildSource
    <2>1. pc' \notin {"write", "save"}
      BY <1>2, <1>4 DEF BuildSource
    <2> QED  BY <1>1, <1>4, <2>1 DEF BuildSource
  <1>5. CASE BuildSink
    <2>1. pc' \notin {"write", "save"}
      BY ZenonT(40), <1>2, <1>5 DEF BuildSink
    <2> QED  BY <1>1, <1>5, <2>1 DEF BuildSink
  <1>6. CASE CallFails
    <2>1. pc' \notin {"write", "save"}
      BY <1>2, <1>6 DEF CallFails
    <2> QED  BY <1>6, <2>1, PresentUnknown DEF CallFails
  <1>7. CASE ReadRefused
    <2>1. pc' \notin {"write", "save"}
      BY <1>2, <1>7 DEF ReadRefused
    <2> QED  BY <1>1, <1>7, <2>1 DEF ReadRefused
  <1>8. CASE ReadEmpty
    BY <1>1, <1>8 DEF ReadEmpty, Exit
  <1>9. CASE ReadBatch
    <2>1. CASE TransformRefuses
      <3>1. pc' \notin {"write", "save"}
        BY ZenonT(40), <1>2, <1>9, <2>1 DEF ReadBatch
      <3> QED  BY ZenonT(40), <1>1, <1>9, <2>1, <3>1 DEF ReadBatch
    <2> QED  BY <1>9, <2>1, PresentRead
  <1>10. CASE WriteBatch
    BY <1>10, PresentWrite
  <1>11. CASE WriteDuplicate
    <2>1. pc' \notin {"write", "save"}
      BY ZenonT(40), <1>2, <1>11 DEF WriteDuplicate
    <2> QED  BY ZenonT(40), <1>11, <2>1, DuplicateIsUnknown, PresentUnknown DEF WriteDuplicate
  <1>12. CASE SaveCursor
    <2>1. pc = "save" /\ stored' = next /\ cursor' = next /\ UNCHANGED <<src, clock, sink, late, horizon>>
      BY <1>12 DEF SaveCursor
    <2>2. pc' \in {"build", "done"} /\ next' = 0
      BY <1>12 DEF SaveCursor, FinishTick, DropBatch, Continue, Exit
    <2> QED  BY <1>0, <2>1, <2>2, PresentKept
  <1> QED
    BY <1>3, <1>4, <1>5, <1>6, <1>7, <1>8, <1>9, <1>10, <1>11, <1>12 DEF Runner

\* So does each step of its environment.
LEMMA PresentOutside ==
    ASSUME TypeOK, TypeOK', PresentInv, Outside
    PROVE  PresentInv'
  <1> USE DEF env, ctxs, chan, late
  <1>0. 0 \notin lateSaves
    BY DEF PresentInv, Bounded
  <1>1. CASE \E k \in Key : Upsert(k)
    <2>1. PICK k \in Key : Upsert(k)
      BY <1>1
    <2>2. /\ src' = [src EXCEPT ![k] = clock + 1] /\ clock' = clock + 1
          /\ UNCHANGED <<sink, stored, pc, cursor, batch, next, late, horizon>>
      BY <2>1 DEF Upsert
    <2>3. /\ \A j \in Key : src'[j] = src[j] \/ src'[j] > horizon
          /\ \A j \in Key : src'[j] <= clock'
          /\ Bounded'
      BY ZenonT(40), <2>1, Fresh DEF PresentInv
    <2>4. /\ \A j \in Key : src'[j] \in Nat
          /\ horizon \in Nat /\ cursor + 1 \in Nat /\ 1 \in Nat
          /\ Pos \subseteq Nat
      <3>1. cursor \in Nat /\ horizon \in Nat
        BY ZenonT(40), Numbers
      <3>2. Pos \subseteq Nat
        BY BoundAssumption DEF Pos
      <3>3. \A j \in Key : src'[j] \in Nat
        BY ZenonT(40), <3>2 DEF TypeOK
      <3> QED  BY <3>1, <3>2, <3>3
    <2>5. ASSUME NEW p \in Pos, p <= horizon, NEW l \in Nat, NEW j \in Key, src'[j] \in l..p
          PROVE  src[j] \in l..p
      <3>1. src'[j] = src[j]
        BY ZenonT(40), <2>3, <2>4, <2>5, Stayed
      <3> QED  BY ZenonT(40), <2>5, <3>1
    <2>6. \A p \in Positions : p \in Pos /\ p <= horizon
      BY ZenonT(40) DEF Positions, PresentInv, Bounded, TypeOK
    <2>7. \A p \in Positions : PresentUpTo(p) => PresentUpTo(p)'
      BY <2>2, <2>5, <2>6 DEF PresentUpTo
    <2>8. \A p \in {stored', cursor'} \cup lateSaves' : PresentUpTo(p)'
      BY <2>2, <2>7 DEF PresentInv, Positions, PresentUpTo
    <2>9. ASSUME pc' = "write", NEW j \in Key, src'[j] \in (cursor' + 1)..next'
          PROVE  batch'[j] # 0
      <3>1. cursor + 1 \in Nat /\ next \in Positions
        BY ZenonT(40), <2>4 DEF Positions
      <3>2. src[j] \in (cursor + 1)..next
        BY <2>2, <2>5, <2>6, <2>9, <3>1
      <3> QED  BY <2>2, <2>9, <3>2 DEF PresentInv
    <2>10. pc' = "save" => PresentUpTo(next)'
      BY <2>2, <2>7 DEF PresentInv, Positions, PresentUpTo
    <2> QED  BY ZenonT(40), <2>3, <2>8, <2>9, <2>10 DEF PresentInv
  <1>2. ASSUME UNCHANGED <<src, clock, pc, cursor, batch, next, horizon>>,
               \A k \in Key : sink[k] # 0 => sink'[k] # 0,
               stored' \in {stored} \cup lateSaves, lateSaves' \subseteq lateSaves
        PROVE  PresentInv'
    <2>1. Bounded'
      BY ZenonT(40), <1>2 DEF PresentInv, Bounded, Positions
    <2> QED  BY <1>2, <2>1 DEF PresentInv, PresentUpTo
  <1>3. CASE \E s \in Schemas : AlterSchema(s)
    BY <1>2, <1>3 DEF AlterSchema
  <1>4. CASE \E b \in lateWrites : LateWrite(b)
    <2>1. PICK b \in lateWrites : LateWrite(b)
      BY <1>4
    <2>2. \A k \in Key : sink[k] # 0 => sink'[k] # 0
      BY ZenonT(40), <2>1, RowsStay DEF LateWrite, TypeOK
    <2> QED  BY ZenonT(40), <1>2, <2>1, <2>2 DEF LateWrite
  <1>5. CASE \E p \in lateSaves : LateSave(p)
    BY <1>2, <1>5 DEF LateSave
  <1>6. CASE Start
    <2>1. pc' \in {"jitter", "build"} /\ next' = 0 /\ cursor' = 0
      BY <1>6 DEF Start, DropBatch
    <2> QED  BY <1>0, <1>6, <2>1, PresentKept DEF Start
  <1>7. CASE Crash
    BY <1>7, PresentUnknown DEF Crash
  <1>8. CASE SendShutdown \/ CloseChannel
    BY <1>2, <1>8 DEF SendShutdown, CloseChannel
  <1> QED
    BY <1>1, <1>3, <1>4, <1>5, <1>6, <1>7, <1>8 DEF Outside

\* A row that the persisted cursor has passed is in the sink, even where a call
\* the runner gave up on writes an older version over it.
THEOREM NeverMissingHolds == Spec => []NeverMissing
  <1>1. Init => PresentInv
    BY NoRowsType DEF Init, PresentInv, Bounded, Positions, PresentUpTo, NoRows
  <1>2. TypeOK /\ TypeOK' /\ PresentInv /\ [Next]_vars => PresentInv'
    <2>1. PresentInv /\ UNCHANGED vars => PresentInv'
      BY ZenonT(40) DEF PresentInv, Bounded, Positions, PresentUpTo, vars, env, ctxs, chan, late
    <2> QED  BY <2>1, PresentRunner, PresentOutside DEF Next, Outside
  <1>3. PresentInv => NeverMissing
    BY DEF PresentInv, PresentUpTo, NeverMissing
  <1> QED  BY <1>1, <1>2, <1>3, TypeCorrect, PTL DEF Spec
=============================================================================
