----------------------------- MODULE SinkWrite ------------------------------
(***************************************************************************)
(* Sink::write_batch of the connectors under crates/sinks: which           *)
(* statements a batch becomes, what each leaves in the table, what a       *)
(* failure between or inside them leaves behind, and the next tick writing *)
(* the same batch again.                                                   *)
(*                                                                         *)
(* A table with a key maps a key to its row: 0 when absent, 1 for a row    *)
(* older than the batch, i + 1 for the row of the batch's element i.  A    *)
(* table without one counts how often each element was appended.           *)
(***************************************************************************)
EXTENDS Naturals, Sequences, FiniteSets, FiniteSetsExt

CONSTANTS
    Key,
    Confs,      \* the flows: [kind, strategy, cdc]
    ChunkRows,  \* QDB_PG_MAX_BIND_PARAMS / columns
    MaxRows,    \* bound: rows of a batch
    MaxFaults   \* bound: failed statements

Kind == {"postgres", "mysql", "mongodb", "clickhouse", "questdb",
         "redis-kv", "redis-kv-delete", "redis-list"}
Strategy == {"none", "ignore", "overwrite"}

ASSUME SinkAssumption ==
    /\ Confs \subseteq [kind : Kind, strategy : Strategy, cdc : BOOLEAN]
    /\ ChunkRows \in Nat \ {0} /\ MaxRows \in Nat /\ MaxFaults \in Nat

VARIABLES
    conf,       \* the flow
    batch,      \* its rows, [op, key]
    before,     \* history: the table before the batch
    table,      \* row of each key
    log,        \* times each element was appended
    pc,         \* "upsert", "delete", "failed", "done"
    sent,       \* upserts of this attempt already sent
    report,     \* WriteReport
    faults

vars == <<conf, batch, before, table, log, pc, sent, report, faults>>

Ups == {i \in DOMAIN batch : batch[i].op = "upsert"}
Dels == {i \in DOMAIN batch : batch[i].op = "delete"}
RowsOf(S, k) == {i \in S : batch[i].key = k}

TypeOK ==
    /\ conf \in Confs
    /\ batch \in Seq([op : {"upsert", "delete"}, key : Key])
    /\ before \in [Key -> {0, 1}] /\ table \in [Key -> 0..(MaxRows + 1)]
    /\ log \in [DOMAIN batch -> 0..(MaxFaults + 1)]
    /\ pc \in {"upsert", "delete", "failed", "done"}
    /\ sent \subseteq Ups
    /\ report \in [upserts : Nat, deletes : Nat, skipped : Nat]
    /\ faults \in 0..MaxFaults

-----------------------------------------------------------------------------
(* The flows the program runs.                                             *)

\* Sink::supports_deletes.
SupportsDeletes(c) == c.kind \notin {"clickhouse", "questdb"}

\* reject_conflict_block.
RejectsConflict(c) ==
    c.kind \in {"questdb", "redis-kv", "redis-kv-delete", "redis-list"}

\* What the pipeline and build_context let through.
Accepted(c) ==
    /\ c.cdc /\ SupportsDeletes(c) => c.strategy # "none"
    /\ RejectsConflict(c) => c.strategy = "none"

\* Only a change stream has deletes; it keeps one event of a document.
BatchOf(c, b) ==
    /\ ~c.cdc => \A i \in DOMAIN b : b[i].op = "upsert"
    /\ c.cdc => \A i, j \in DOMAIN b : b[i].key = b[j].key => i = j

Batches == UNION {[1..n -> [op : {"upsert", "delete"}, key : Key]] : n \in 1..MaxRows}

NoReport == [upserts |-> 0, deletes |-> 0, skipped |-> 0]

Init ==
    /\ conf \in {c \in Confs : Accepted(c)}
    /\ batch \in {b \in Batches : BatchOf(conf, b)}
    /\ before \in [Key -> {0, 1}] /\ table = before
    /\ log = [i \in DOMAIN batch |-> 0]
    /\ pc = "upsert" /\ sent = {} /\ report = NoReport /\ faults = 0

-----------------------------------------------------------------------------
(* Statements.                                                             *)

\* The rows go to a table with a key; otherwise each is appended.
Keyed ==
    \/ conf.kind \in {"redis-kv", "redis-kv-delete"}
    \/ conf.kind \in {"postgres", "mysql", "mongodb"} /\ conf.strategy # "none"

\* Mutant of Statement: the first row of a chunk is left out of it.
StatementSkips ==
    IF conf.kind = "questdb"
    THEN {i \in Ups \ sent : Cardinality({j \in Ups \ sent : j < i}) \in 1..ChunkRows}
    ELSE Ups \ sent

\* The rows of the next statement: QuestDB's are sent in chunks.
Statement ==
    IF conf.kind = "questdb"
    THEN {i \in Ups \ sent : Cardinality({j \in Ups \ sent : j < i}) < ChunkRows}
    ELSE Ups \ sent

\* Postgres refuses an ON CONFLICT DO UPDATE that meets a key twice.
Refused(S) ==
    /\ conf.kind = "postgres" /\ conf.strategy = "overwrite"
    /\ \E i, j \in S : i # j /\ batch[i].key = batch[j].key

\* The rows of key k that the rows S may leave.  ON CONFLICT DO NOTHING and
\* DO UPDATE.
PgRow(S, k) ==
    IF conf.strategy = "overwrite" THEN {Max(RowsOf(S, k)) + 1}
    ELSE IF table[k] = 0 THEN {Min(RowsOf(S, k)) + 1} ELSE {table[k]}

\* INSERT IGNORE and ON DUPLICATE KEY UPDATE, row after row.
MySqlRow(S, k) ==
    IF conf.strategy = "ignore" /\ table[k] # 0 THEN {table[k]}
    ELSE LET R == RowsOf(S, k)
         IN  {(IF conf.strategy = "ignore" THEN Min(R) ELSE Max(R)) + 1}

\* insertMany with duplicates dropped, and replaceOne with upsert, both unordered.
MongoRow(S, k) ==
    IF conf.strategy = "ignore" /\ table[k] # 0 THEN {table[k]}
    ELSE {i + 1 : i \in RowsOf(S, k)}

\* SET, or DEL in mode kv-delete, in the order of the pipeline.
RedisRow(S, k) == IF conf.kind = "redis-kv-delete" THEN {0} ELSE {Max(RowsOf(S, k)) + 1}

RowAfter(S, k) ==
    IF RowsOf(S, k) = {} THEN {table[k]}
    ELSE CASE conf.kind = "postgres" -> PgRow(S, k)
           [] conf.kind = "mysql"    -> MySqlRow(S, k)
           [] conf.kind = "mongodb"  -> MongoRow(S, k)
           [] OTHER                  -> RedisRow(S, k)

Upserted(S) ==
    {t \in [Key -> 0..(MaxRows + 1)] : \A k \in Key : t[k] \in RowAfter(S, k)}

Deleted(S) == [k \in Key |-> IF RowsOf(S, k) = {} THEN table[k] ELSE 0]

Put(S) ==
    IF Keyed THEN table' \in Upserted(S) /\ log' = log
    ELSE table' = table /\ log' = [i \in DOMAIN log |-> IF i \in S THEN log[i] + 1 ELSE log[i]]

\* rows_affected: rows inserted or updated.
PgCount(S) ==
    IF conf.strategy = "ignore" THEN Cardinality({k \in Key : RowsOf(S, k) # {} /\ table[k] = 0})
    ELSE Cardinality(S)

\* The same, but an updated row counts twice.
MySqlCount(S) ==
    IF conf.strategy = "overwrite"
    THEN 2 * Cardinality(S) - Cardinality({k \in Key : RowsOf(S, k) # {} /\ table[k] = 0})
    ELSE PgCount(S)

\* Inserted rows are those sent less the duplicate key errors; of an
\* overwrite, matched and upserted rows.
MongoCount(S) ==
    LET dups == {i \in S : table[batch[i].key] # 0 \/ \E j \in S : j < i /\ batch[j].key = batch[i].key}
    IN  Cardinality(S) - IF conf.strategy = "ignore" THEN Cardinality(dups) ELSE 0

Counted(S) ==
    CASE conf.kind = "postgres" -> PgCount(S)
      [] conf.kind = "mysql"    -> MySqlCount(S)
      [] conf.kind = "mongodb"  -> MongoCount(S)
      [] conf.kind = "redis-kv-delete" -> 0
      [] OTHER -> Cardinality(S)

-----------------------------------------------------------------------------
(* write_batch.                                                            *)

Upsert ==
    /\ pc = "upsert" /\ ~Refused(Statement)
    /\ Put(Statement)
    /\ sent' = sent \cup Statement
    /\ pc' = IF sent' = Ups THEN "delete" ELSE "upsert"
    /\ report' = [report EXCEPT
           !.upserts = @ + Counted(Statement),
           !.deletes = IF conf.kind = "redis-kv-delete" THEN Cardinality(Statement) ELSE 0]
    /\ UNCHANGED <<conf, batch, before, faults>>

UpsertRefused ==
    /\ pc = "upsert" /\ Refused(Statement)
    /\ pc' = "failed"
    /\ UNCHANGED <<conf, batch, before, table, log, sent, report, faults>>

\* One statement is atomic; a bulk write or a pipeline is not, and the prefix an
\* ordered one stops after is one of the subsets.
Partial(S) == IF conf.kind \in {"mongodb", "redis-kv", "redis-kv-delete", "redis-list"}
              THEN SUBSET S ELSE {{}, S}

UpsertFails ==
    /\ pc = "upsert" /\ ~Refused(Statement) /\ Statement # {} /\ faults < MaxFaults
    /\ \E S \in Partial(Statement) : Put(S)
    /\ pc' = "failed" /\ faults' = faults + 1
    /\ UNCHANGED <<conf, batch, before, sent, report>>

\* A sink that takes deletes needs the key of a conflict block, MongoDB that of
\* an overwrite plan.
NoDeletePlan ==
    /\ Dels # {} /\ SupportsDeletes(conf)
    /\ conf.strategy \in IF conf.kind = "mongodb" THEN {"none", "ignore"} ELSE {"none"}

\* Mutant of Delete: an append-only sink counts its skipped deletes as written.
DeleteCounts ==
    /\ pc = "delete" /\ ~NoDeletePlan
    /\ table' = IF SupportsDeletes(conf) THEN Deleted(Dels) ELSE table
    /\ report' = [report EXCEPT !.deletes = @ + Cardinality(Dels),
                                !.skipped = @ + Cardinality(Dels)]
    /\ pc' = "done"
    /\ UNCHANGED <<conf, batch, before, log, sent, faults>>

Delete ==
    /\ pc = "delete" /\ ~NoDeletePlan
    /\ table' = IF SupportsDeletes(conf) THEN Deleted(Dels) ELSE table
    /\ report' = IF SupportsDeletes(conf)
                 THEN [report EXCEPT !.deletes =
                           @ + Cardinality({k \in Key : table[k] # 0 /\ table'[k] = 0})]
                 ELSE [report EXCEPT !.skipped = Cardinality(Dels)]
    /\ pc' = "done"
    /\ UNCHANGED <<conf, batch, before, log, sent, faults>>

DeleteRefused ==
    /\ pc = "delete" /\ NoDeletePlan
    /\ pc' = "failed"
    /\ UNCHANGED <<conf, batch, before, table, log, sent, report, faults>>

DeleteFails ==
    /\ pc = "delete" /\ ~NoDeletePlan /\ SupportsDeletes(conf) /\ Dels # {}
    /\ faults < MaxFaults
    /\ \E S \in Partial(Dels) : table' = Deleted(S)
    /\ pc' = "failed" /\ faults' = faults + 1
    /\ UNCHANGED <<conf, batch, before, log, sent, report>>

\* Mutant of Retry: what the failed attempt sent is not sent again.
RetryResumes ==
    /\ pc = "failed"
    /\ pc' = "upsert" /\ sent' = Ups /\ report' = NoReport
    /\ UNCHANGED <<conf, batch, before, table, log, faults>>

\* The cursor has not moved: the next tick reads and writes the batch again.
Retry ==
    /\ pc = "failed"
    /\ pc' = "upsert" /\ sent' = {} /\ report' = NoReport
    /\ UNCHANGED <<conf, batch, before, table, log, faults>>

\* The runner saves the cursor; the batch is over.
Done == pc = "done" /\ UNCHANGED vars

Write == Upsert \/ UpsertRefused \/ Delete \/ DeleteRefused \/ Retry
Next == Write \/ UpsertFails \/ DeleteFails \/ Done

Spec == Init /\ [][Next]_vars
\* The runner ticks again after a failure, and calls return.
FairSpec == Spec /\ WF_vars(Write)

-----------------------------------------------------------------------------
(* Properties.                                                             *)

\* What row of k the batch may leave: that of its rows applied in their order;
\* of several rows MongoDB's unordered bulk writes may leave any.
Outcomes(k) ==
    LET R == RowsOf(DOMAIN batch, k)
    IN  CASE R = {} -> {before[k]}
          [] R # {} /\ (batch[Max(R)].op = "delete" \/ conf.kind = "redis-kv-delete") -> {0}
          [] OTHER -> IF conf.strategy = "ignore" /\ before[k] # 0 THEN {before[k]}
                      ELSE IF conf.kind = "mongodb" THEN {i + 1 : i \in R}
                      ELSE {(IF conf.strategy = "ignore" THEN Min(R) ELSE Max(R)) + 1}

\* A keyed table has a batch written to it when it is what the batch's rows
\* leave in their order: splitting upserts from deletes, failing midway and
\* writing again change nothing.
KeyedApplied == pc = "done" /\ Keyed => \A k \in Key : table[k] \in Outcomes(k)

\* A sink that appends has every upsert of a written batch at least once, no
\* more often than it was tried, and never a delete: a chunk of QuestDB that
\* was committed before a failure is only repeated.
Appended ==
    pc = "done" /\ ~Keyed =>
        /\ \A i \in Ups : log[i] \in 1..(faults + 1)
        /\ \A i \in Dels : log[i] = 0

\* A batch that was reported as written is in the table, keyed or appended.
Applied == KeyedApplied /\ Appended

\* write_batch accounts for each row once: what it reports as written and
\* skipped is no more than the batch, and all of it where rows are appended.
\* MySQL counts a row twice that it overwrites.
Reported ==
    pc = "done" =>
        LET n == report.upserts + report.deletes + report.skipped
            twice == conf.kind = "mysql" /\ conf.strategy = "overwrite"
        IN  /\ n <= (IF twice THEN 2 ELSE 1) * Len(batch)
            /\ ~Keyed => n = Len(batch)

\* Once statements stop failing the batch is written and the flow moves on,
\* unless the server or the sink refuses the batch as such.
Written == Refused(Ups) \/ NoDeletePlan \/ <>(pc = "done")
=============================================================================
