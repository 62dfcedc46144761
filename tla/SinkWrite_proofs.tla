-------------------------- MODULE SinkWrite_proofs --------------------------
(***************************************************************************)
(* Proofs about SinkWrite, for any keys, batches, chunk size and number of *)
(* failures and for every kind of sink.                                    *)
(*                                                                         *)
(* A failed attempt leaves a table that is neither the old one nor the     *)
(* outcome.  The invariant says what it may be, key by key: the row before *)
(* the batch, the outcome, or, where a pipeline of SETs stopped midway,    *)
(* some row of the batch; and that a whole write from there ends in the    *)
(* outcome.                                                                *)
(***************************************************************************)
EXTENDS SinkWrite, DataLemmas

\* What a step that names no prover is tried with: the translation of a large
\* obligation for the SMT solver may be cut short, and is then repeated.
USE SMTT(15), ZenonT(20), Z3T(15), SMTT(20)

Elements == [op : {"upsert", "delete"}, key : Key]

SinkTypes ==
    /\ conf \in [kind : Kind, strategy : Strategy, cdc : BOOLEAN] /\ Accepted(conf)
    /\ batch \in Seq(Elements) /\ BatchOf(conf, batch)
    /\ before \in [Key -> Nat] /\ table \in [Key -> Nat]
    /\ log \in [DOMAIN batch -> Nat]
    /\ pc \in {"upsert", "delete", "failed", "done"}
    /\ sent \subseteq Ups /\ faults \in Nat

\* The statements of QuestDB apart, the upserts are sent all at once.
SentInv ==
    /\ pc = "upsert" /\ conf.kind # "questdb" => sent = {}
    /\ pc \in {"delete", "done"} => sent = Ups

\* What a key may hold while the batch is being written.
Interim(k) ==
    {before[k]} \cup Outcomes(k)
        \cup (IF conf.kind = "redis-kv" THEN {i + 1 : i \in RowsOf(DOMAIN batch, k)} ELSE {})

KeyedInv ==
    Keyed => \A k \in Key :
        /\ table[k] \in Interim(k)
        /\ pc = "delete" /\ RowsOf(Ups, k) # {} => table[k] \in Outcomes(k)
        /\ pc = "done" => table[k] \in Outcomes(k)

\* An element is appended at most once by each attempt.
AppendInv ==
    ~Keyed =>
        /\ \A i \in Dels : log[i] = 0
        /\ \A i \in Ups : log[i] <= faults + (IF i \in sent THEN 1 ELSE 0)
        /\ pc = "failed" => \A i \in Ups : log[i] <= faults
        /\ pc # "failed" => \A i \in sent : log[i] >= 1

SinkInv == SinkTypes /\ SentInv /\ KeyedInv /\ AppendInv

-----------------------------------------------------------------------------
(* The batch.                                                              *)

\* The rows of a batch: upserts and deletes, one per key for a change stream.
LEMMA BatchFacts ==
    ASSUME SinkTypes
    PROVE  /\ Len(batch) \in Nat /\ DOMAIN batch = 1..Len(batch)
           /\ \A i \in DOMAIN batch : batch[i].key \in Key /\ batch[i].op \in {"upsert", "delete"}
           /\ Ups \cup Dels = DOMAIN batch /\ Ups \cap Dels = {}
           /\ ~conf.cdc => Dels = {}
           /\ conf.cdc => \A i, j \in DOMAIN batch : batch[i].key = batch[j].key => i = j
  <1>1. batch \in Seq(Elements)
    BY DEF SinkTypes
  <1>2. Len(batch) \in Nat /\ DOMAIN batch = 1..Len(batch) /\ \A i \in DOMAIN batch : batch[i] \in Elements
    BY <1>1
  <1>3. \A i \in DOMAIN batch : batch[i].key \in Key /\ batch[i].op \in {"upsert", "delete"}
    BY <1>2 DEF Elements
  <1>4. Ups \cup Dels = DOMAIN batch /\ Ups \cap Dels = {}
    BY <1>3 DEF Ups, Dels
  <1>5. /\ ~conf.cdc => Dels = {}
        /\ conf.cdc => \A i, j \in DOMAIN batch : batch[i].key = batch[j].key => i = j
    BY DEF SinkTypes, BatchOf, Dels
  <1> QED
    BY <1>2, <1>3, <1>4, <1>5

\* A key with an upsert has no delete: only a change stream has deletes, and it
\* keeps one event of a document.
LEMMA OneSide ==
    ASSUME SinkTypes, NEW k \in Key
    PROVE  /\ RowsOf(Ups, k) # {} => RowsOf(Dels, k) = {} /\ RowsOf(DOMAIN batch, k) = RowsOf(Ups, k)
           /\ RowsOf(Dels, k) # {} => RowsOf(Ups, k) = {} /\ RowsOf(DOMAIN batch, k) = RowsOf(Dels, k)
           /\ RowsOf(Dels, k) = {} /\ RowsOf(Ups, k) = {} => RowsOf(DOMAIN batch, k) = {}
  <1>1. RowsOf(DOMAIN batch, k) = RowsOf(Ups, k) \cup RowsOf(Dels, k)
    BY BatchFacts, ZenonT(40) DEF RowsOf
  <1>2. ASSUME NEW i \in RowsOf(Ups, k), NEW j \in RowsOf(Dels, k) PROVE FALSE
    <2>1. i \in Ups /\ j \in Dels /\ batch[i].key = batch[j].key
      BY DEF RowsOf
    <2>2. conf.cdc /\ i \in DOMAIN batch /\ j \in DOMAIN batch
      BY <2>1, BatchFacts
    <2>3. i = j
      BY <2>1, <2>2, BatchFacts
    <2> QED
      BY <2>1, <2>3, BatchFacts
  <1> QED
    BY <1>1, <1>2

\* The first and the last row of a key.
LEMMA RowEnds ==
    ASSUME SinkTypes, NEW S \in SUBSET DOMAIN batch, NEW k \in Key, RowsOf(S, k) # {}
    PROVE  Max(RowsOf(S, k)) \in RowsOf(S, k) /\ Min(RowsOf(S, k)) \in RowsOf(S, k)
  <1>1. Len(batch) \in Nat /\ DOMAIN batch = 1..Len(batch)
    BY BatchFacts
  <1>2. RowsOf(S, k) \in SUBSET (0..Len(batch)) /\ RowsOf(S, k) \in SUBSET Nat
    BY <1>1 DEF RowsOf
  <1> QED
    BY <1>1, <1>2, MaxOf, MinOf

\* What the batch leaves of a key, by what it has for it.
LEMMA OutcomesAre ==
    ASSUME SinkTypes, NEW k \in Key
    PROVE  /\ RowsOf(DOMAIN batch, k) = {} => Outcomes(k) = {before[k]}
           /\ RowsOf(Dels, k) # {} => Outcomes(k) = {0}
           /\ RowsOf(Ups, k) # {} => Outcomes(k) =
                 IF conf.kind = "redis-kv-delete" THEN {0}
                 ELSE IF conf.strategy = "ignore" /\ before[k] # 0 THEN {before[k]}
                 ELSE IF conf.kind = "mongodb" THEN {i + 1 : i \in RowsOf(Ups, k)}
                 ELSE {(IF conf.strategy = "ignore" THEN Min(RowsOf(Ups, k)) ELSE Max(RowsOf(Ups, k))) + 1}
  <1>1. RowsOf(DOMAIN batch, k) = {} => Outcomes(k) = {before[k]}
    BY DEF Outcomes
  <1>2. Ups \in SUBSET DOMAIN batch /\ Dels \in SUBSET DOMAIN batch
    BY DEF Ups, Dels
  <1>3. ASSUME RowsOf(Dels, k) # {} PROVE Outcomes(k) = {0}
    <2>1. RowsOf(DOMAIN batch, k) = RowsOf(Dels, k)
      BY <1>3, OneSide
    <2>2. Max(RowsOf(Dels, k)) \in Dels
      BY <1>2, <1>3, RowEnds DEF RowsOf
    <2>3. batch[Max(RowsOf(DOMAIN batch, k))].op = "delete"
      BY <2>1, <2>2 DEF Dels
    <2> QED
      BY <1>3, <2>1, <2>3 DEF Outcomes
  <1>4. ASSUME RowsOf(Ups, k) # {}
        PROVE  Outcomes(k) =
                 IF conf.kind = "redis-kv-delete" THEN {0}
                 ELSE IF conf.strategy = "ignore" /\ before[k] # 0 THEN {before[k]}
                 ELSE IF conf.kind = "mongodb" THEN {i + 1 : i \in RowsOf(Ups, k)}
                 ELSE {(IF conf.strategy = "ignore" THEN Min(RowsOf(Ups, k)) ELSE Max(RowsOf(Ups, k))) + 1}
    <2>1. RowsOf(DOMAIN batch, k) = RowsOf(Ups, k)
      BY <1>4, OneSide
    <2>2. Max(RowsOf(Ups, k)) \in Ups
      BY <1>2, <1>4, RowEnds DEF RowsOf
    <2>3. batch[Max(RowsOf(DOMAIN batch, k))].op # "delete"
      BY <2>1, <2>2 DEF Ups
    <2> QED
      BY <1>4, <2>1, <2>3 DEF Outcomes
  <1> QED
    BY <1>1, <1>3, <1>4

-----------------------------------------------------------------------------
(* One key.                                                                *)

\* The sinks and strategies that write by key.
LEMMA KeyedFlows ==
    ASSUME SinkTypes, Keyed
    PROVE  /\ \/ conf.kind \in {"postgres", "mysql", "mongodb"} /\ conf.strategy \in {"ignore", "overwrite"}
              \/ conf.kind \in {"redis-kv", "redis-kv-delete"} /\ conf.strategy = "none" /\ ~conf.cdc
           /\ conf.kind # "questdb" /\ SupportsDeletes(conf)
  <1>1. conf.kind \in Kind /\ conf.strategy \in Strategy /\ conf.cdc \in BOOLEAN /\ Accepted(conf)
    BY DEF SinkTypes
  <1> QED
    BY <1>1 DEF Keyed, Accepted, Kind, Strategy, RejectsConflict, SupportsDeletes

\* All upserts of the batch, from any table an earlier attempt may have left,
\* lead to the outcome.
LEMMA WholeWrite ==
    ASSUME SinkTypes, Keyed, NEW k \in Key, RowsOf(Ups, k) # {}, table[k] \in Interim(k),
           NEW v \in RowAfter(Ups, k)
    PROVE  v \in Outcomes(k)
  <1> DEFINE R == RowsOf(Ups, k)
  <1>1. Outcomes(k) = IF conf.kind = "redis-kv-delete" THEN {0}
                 ELSE IF conf.strategy = "ignore" /\ before[k] # 0 THEN {before[k]}
                 ELSE IF conf.kind = "mongodb" THEN {i + 1 : i \in R}
                 ELSE {(IF conf.strategy = "ignore" THEN Min(R) ELSE Max(R)) + 1}
    BY OutcomesAre
  <1>2. R # {}
    OBVIOUS
  <1>3. conf.kind # "redis-kv" => table[k] \in {before[k]} \cup Outcomes(k)
    BY DEF Interim
  <1> DEFINE first == Min(R)
             final == Max(R)
  <1>4. CASE conf.kind = "postgres" /\ conf.strategy \in {"ignore", "overwrite"}
    <2>1. v \in IF conf.strategy = "overwrite" THEN {final + 1}
                ELSE IF table[k] = 0 THEN {first + 1} ELSE {table[k]}
      BY <1>2, <1>4 DEF RowAfter, PgRow
    <2> HIDE DEF first, final, R
    <2> QED
      BY <1>1, <1>3, <1>4, <2>1 DEF first, final
  <1>5. CASE conf.kind = "mysql" /\ conf.strategy \in {"ignore", "overwrite"}
    <2>1. v \in IF conf.strategy = "ignore" /\ table[k] # 0 THEN {table[k]}
                ELSE {(IF conf.strategy = "ignore" THEN first ELSE final) + 1}
      BY <1>2, <1>5 DEF RowAfter, MySqlRow
    <2> HIDE DEF first, final, R
    <2> QED
      BY <1>1, <1>3, <1>5, <2>1 DEF first, final
  <1>6. CASE conf.kind = "mongodb" /\ conf.strategy \in {"ignore", "overwrite"}
    <2>1. v \in IF conf.strategy = "ignore" /\ table[k] # 0 THEN {table[k]} ELSE {i + 1 : i \in R}
      BY <1>2, <1>6 DEF RowAfter, MongoRow
    <2> HIDE DEF first, final, R
    <2> QED
      BY <1>1, <1>3, <1>6, <2>1
  <1>7. CASE conf.kind \in {"redis-kv", "redis-kv-delete"} /\ conf.strategy = "none"
    <2>1. v \in IF conf.kind = "redis-kv-delete" THEN {0} ELSE {final + 1}
      BY <1>2, <1>7 DEF RowAfter, RedisRow
    <2> HIDE DEF first, final, R
    <2> QED
      BY <1>1, <1>7, <2>1 DEF final
  <1> QED
    BY <1>4, <1>5, <1>6, <1>7, KeyedFlows

\* A part of them leaves what may be there meanwhile.
LEMMA PartWrite ==
    ASSUME SinkTypes, Keyed, NEW k \in Key, table[k] \in Interim(k),
           NEW S \in SUBSET Ups, S \in Partial(Ups), NEW v \in RowAfter(S, k)
    PROVE  v \in Interim(k)
  <1> DEFINE R == RowsOf(Ups, k)
             Q == RowsOf(S, k)
  <1>1. CASE Q = {}
    <2>1. v = table[k]
      BY <1>1 DEF RowAfter
    <2> QED
      BY <2>1
  <1>2. Q \subseteq R /\ R \subseteq RowsOf(DOMAIN batch, k)
    BY DEF RowsOf, Ups
  <1>3. CASE Q # {} /\ S = Ups
    <2>1. v \in Outcomes(k)
      BY <1>3, WholeWrite
    <2> QED
      BY <2>1 DEF Interim
  <1>4. CASE Q # {} /\ S # Ups
    <2>1. S # {}
      BY <1>4 DEF RowsOf
    <2>2. conf.kind \in {"mongodb", "redis-kv", "redis-kv-delete"}
      BY <1>4, <2>1, KeyedFlows DEF Partial
    <2>3. R # {}
      BY <1>2, <1>4
    <2>4. Outcomes(k) = IF conf.kind = "redis-kv-delete" THEN {0}
                 ELSE IF conf.strategy = "ignore" /\ before[k] # 0 THEN {before[k]}
                 ELSE IF conf.kind = "mongodb" THEN {i + 1 : i \in R}
                 ELSE {(IF conf.strategy = "ignore" THEN Min(R) ELSE Max(R)) + 1}
      BY <2>3, OutcomesAre
    <2>5. CASE conf.kind = "mongodb"
      <3>1. v \in IF conf.strategy = "ignore" /\ table[k] # 0 THEN {table[k]} ELSE {i + 1 : i \in Q}
        BY <1>4, <2>5 DEF RowAfter, MongoRow
      <3>2. table[k] \in {before[k]} \cup Outcomes(k)
        BY <2>5 DEF Interim
      <3> HIDE DEF Q, R
      <3>3. v \in {before[k]} \cup Outcomes(k)
        BY <1>2, <2>4, <2>5, <3>1, <3>2
      <3> QED
        BY <3>3 DEF Interim
    <2>6. CASE conf.kind = "redis-kv"
      <3>1. v = Max(Q) + 1
        BY <1>4, <2>6 DEF RowAfter, RedisRow
      <3>2. Max(Q) \in Q
        BY <1>4, RowEnds DEF Ups
      <3>3. Max(Q) \in RowsOf(DOMAIN batch, k)
        BY <1>2, <3>2
      <3> HIDE DEF Q, R
      <3> QED
        BY <2>6, <3>1, <3>3 DEF Interim
    <2>7. CASE conf.kind = "redis-kv-delete"
      <3>1. v = 0
        BY <1>4, <2>7 DEF RowAfter, RedisRow
      <3> QED
        BY <2>4, <2>7, <3>1 DEF Interim
    <2> QED
      BY <2>2, <2>5, <2>6, <2>7
  <1> QED
    BY <1>1, <1>3, <1>4

-----------------------------------------------------------------------------
(* The steps.                                                              *)

\* What no step changes.
LEMMA FrameKept ==
    ASSUME UNCHANGED <<conf, batch, before>>
    PROVE  /\ Ups' = Ups /\ Dels' = Dels /\ (Keyed <=> Keyed')
           /\ \A k \in Key : Outcomes(k)' = Outcomes(k) /\ Interim(k)' = Interim(k)
           /\ \A S, k : RowsOf(S, k)' = RowsOf(S, k)
  BY DEF Ups, Dels, Keyed, RowsOf, Outcomes, Interim

\* The invariant holds for a batch not yet begun.
LEMMA SinkInit == Init => SinkInv
  <1> SUFFICES ASSUME Init PROVE SinkInv
    OBVIOUS
  <1>1. conf \in [kind : Kind, strategy : Strategy, cdc : BOOLEAN] /\ Accepted(conf)
    BY SinkAssumption DEF Init
  <1>2. batch \in Batches /\ BatchOf(conf, batch)
    BY DEF Init
  <1>3. PICK n \in 1..MaxRows : batch \in [1..n -> Elements]
    BY <1>2 DEF Batches, Elements
  <1>4. n \in Nat
    BY SinkAssumption
  <1>5. batch \in Seq(Elements)
    BY <1>3, <1>4
  <1>6. before \in [Key -> Nat] /\ table = before
    BY DEF Init
  <1>7. log \in [DOMAIN batch -> Nat] /\ \A i \in DOMAIN batch : log[i] = 0
    BY DEF Init
  <1>8. pc = "upsert" /\ sent = {} /\ faults = 0
    BY DEF Init
  <1>9. SinkTypes
    BY <1>1, <1>2, <1>5, <1>6, <1>7, <1>8 DEF SinkTypes
  <1>10. SentInv
    BY <1>8 DEF SentInv
  <1>11. KeyedInv
    BY <1>6, <1>8 DEF KeyedInv, Interim
  <1>12. AppendInv
    BY <1>7, <1>8 DEF AppendInv, Ups, Dels
  <1> QED
    BY <1>9, <1>10, <1>11, <1>12 DEF SinkInv

\* A statement sends rows not yet sent, all of them where rows have keys.
LEMMA StatementIs ==
    ASSUME SinkInv, pc = "upsert"
    PROVE  Statement \subseteq Ups \ sent /\ (Keyed => Statement = Ups)
  <1>1. Statement \subseteq Ups \ sent /\ (conf.kind # "questdb" => Statement = Ups \ sent)
    BY DEF Statement
  <1>2. Keyed => conf.kind # "questdb"
    BY KeyedFlows DEF SinkInv
  <1>3. conf.kind # "questdb" => sent = {}
    BY DEF SinkInv, SentInv
  <1> QED
    BY <1>1, <1>2, <1>3

\* Rows put into the table or appended keep the types.
LEMMA PutTypes ==
    ASSUME SinkInv, NEW S \in SUBSET Ups, Put(S)
    PROVE  /\ table' \in [Key -> Nat] /\ log' \in [DOMAIN batch -> Nat]
           /\ Keyed => log' = log /\ \A k \in Key : table'[k] \in RowAfter(S, k)
           /\ ~Keyed => /\ table' = table
                        /\ \A i \in DOMAIN batch : log'[i] = IF i \in S THEN log[i] + 1 ELSE log[i]
  <1>1. table \in [Key -> Nat] /\ log \in [DOMAIN batch -> Nat]
    BY DEF SinkInv, SinkTypes
  <1>2. CASE Keyed
    <2>1. table' \in Upserted(S) /\ log' = log
      BY <1>2 DEF Put
    <2>2. 0..(MaxRows + 1) \subseteq Nat
      BY SinkAssumption
    <2>3. table' \in [Key -> Nat] /\ \A k \in Key : table'[k] \in RowAfter(S, k)
      BY <2>1, <2>2 DEF Upserted
    <2> QED
      BY <1>1, <1>2, <2>1, <2>3
  <1>3. CASE ~Keyed
    <2>1. table' = table /\ log' = [i \in DOMAIN log |-> IF i \in S THEN log[i] + 1 ELSE log[i]]
      BY <1>3 DEF Put
    <2>2. DOMAIN log = DOMAIN batch
      BY <1>1
    <2>3. log' \in [DOMAIN batch -> Nat]
      BY <1>1, <2>1, <2>2
    <2> QED
      BY <1>1, <1>3, <2>1, <2>2, <2>3
  <1> QED
    BY <1>2, <1>3

\* A statement of upserts that succeeds.
LEMMA SinkUpserts == ASSUME SinkInv, Upsert PROVE SinkInv'
  <1>1. /\ pc = "upsert" /\ Put(Statement) /\ sent' = sent \cup Statement
        /\ pc' = (IF sent' = Ups THEN "delete" ELSE "upsert")
        /\ UNCHANGED <<conf, batch, before>> /\ faults' = faults
    BY DEF Upsert
  <1>2. Statement \subseteq Ups \ sent /\ (Keyed => Statement = Ups)
    BY <1>1, StatementIs
  <1>3. /\ table' \in [Key -> Nat] /\ log' \in [DOMAIN batch -> Nat]
        /\ Keyed => log' = log /\ \A k \in Key : table'[k] \in RowAfter(Statement, k)
        /\ ~Keyed => /\ table' = table
                     /\ \A i \in DOMAIN batch :
                           log'[i] = IF i \in Statement THEN log[i] + 1 ELSE log[i]
    BY <1>1, <1>2, PutTypes
  <1>4. /\ Ups' = Ups /\ Dels' = Dels /\ (Keyed <=> Keyed')
        /\ \A k \in Key : Outcomes(k)' = Outcomes(k) /\ Interim(k)' = Interim(k)
        /\ \A S, k : RowsOf(S, k)' = RowsOf(S, k)
    BY <1>1, FrameKept
  <1>5. sent' \subseteq Ups
    BY <1>1, <1>2 DEF SinkInv, SinkTypes
  <1>6. SinkTypes'
    BY <1>1, <1>3, <1>4, <1>5 DEF SinkInv, SinkTypes, Accepted, BatchOf, SupportsDeletes, RejectsConflict
  <1>7. SentInv'
    <2>1. conf.kind # "questdb" => sent = {} /\ Statement = Ups
      BY <1>1 DEF SinkInv, SentInv, Statement
    <2> QED
      BY <1>1, <1>4, <2>1 DEF SentInv
  <1>8. KeyedInv'
    <2> SUFFICES ASSUME Keyed, NEW k \in Key
                 PROVE  /\ table'[k] \in Interim(k)
                        /\ RowsOf(Ups, k) # {} => table'[k] \in Outcomes(k)
                        /\ pc' # "done"
      BY <1>4 DEF KeyedInv
    <2>1. table[k] \in Interim(k) /\ table'[k] \in RowAfter(Ups, k)
      BY <1>2, <1>3 DEF SinkInv, KeyedInv
    <2>2. CASE RowsOf(Ups, k) = {}
      BY <1>1, <2>1, <2>2 DEF RowAfter
    <2>3. CASE RowsOf(Ups, k) # {}
      <3>1. table'[k] \in Outcomes(k)
        BY <2>1, <2>3, WholeWrite DEF SinkInv
      <3> QED
        BY <1>1, <3>1 DEF Interim
    <2> QED
      BY <2>2, <2>3
  <1>9. AppendInv'
    <2> SUFFICES ASSUME ~Keyed
                 PROVE  /\ \A i \in Dels : log'[i] = 0
                        /\ \A i \in Ups : log'[i] <= faults + (IF i \in sent' THEN 1 ELSE 0)
                        /\ \A i \in sent' : log'[i] >= 1
                        /\ pc' # "failed"
      BY <1>1, <1>4 DEF AppendInv
    <2>1. /\ \A i \in Dels : log[i] = 0
          /\ \A i \in Ups : log[i] <= faults + (IF i \in sent THEN 1 ELSE 0)
          /\ \A i \in sent : log[i] >= 1
      BY <1>1 DEF SinkInv, AppendInv
    <2>2. \A i \in DOMAIN batch : log'[i] = IF i \in Statement THEN log[i] + 1 ELSE log[i]
      BY <1>3
    <2>3. /\ Ups \subseteq DOMAIN batch /\ Dels \subseteq DOMAIN batch
          /\ \A i \in Dels : i \notin Statement
          /\ \A i \in DOMAIN batch : log[i] \in Nat
          /\ faults \in Nat /\ sent \subseteq Ups
      BY <1>2, BatchFacts DEF SinkInv, SinkTypes
    <2>4. \A i \in Dels : log'[i] = 0
      BY <2>1, <2>2, <2>3
    <2>5. ASSUME NEW i \in Ups
          PROVE  log'[i] <= faults + (IF i \in sent' THEN 1 ELSE 0)
      <3>1. log[i] <= faults + (IF i \in sent THEN 1 ELSE 0) /\ log[i] \in Nat /\ faults \in Nat
        BY <2>1, <2>3
      <3>2. CASE i \in Statement
        BY <1>1, <1>2, <2>2, <2>3, <3>1, <3>2
      <3>3. CASE i \notin Statement
        BY <1>1, <2>2, <2>3, <3>1, <3>3
      <3> QED
        BY <3>2, <3>3
    <2>6. ASSUME NEW i \in sent'
          PROVE  log'[i] >= 1
      <3>1. i \in DOMAIN batch /\ log[i] \in Nat
        BY <1>5, <2>3
      <3>2. CASE i \in Statement
        BY <2>2, <3>1, <3>2
      <3>3. CASE i \notin Statement
        BY <1>1, <2>1, <2>2, <3>1, <3>3
      <3> QED
        BY <3>2, <3>3
    <2> QED
      BY <1>1, <2>4, <2>5, <2>6
  <1> QED
    BY <1>6, <1>7, <1>8, <1>9 DEF SinkInv

\* A sink that appends refuses nothing, and has deletes only to skip them.
LEMMA AppendingFlows ==
    ASSUME SinkTypes, ~Keyed
    PROVE  /\ SupportsDeletes(conf) => Dels = {}
           /\ ~NoDeletePlan /\ \A S : ~Refused(S)
  <1>1. conf.kind \in Kind /\ conf.strategy \in Strategy /\ conf.cdc \in BOOLEAN /\ Accepted(conf)
    BY DEF SinkTypes
  <1>2. SupportsDeletes(conf) => ~conf.cdc
    BY <1>1 DEF Keyed, Accepted, Kind, Strategy, RejectsConflict, SupportsDeletes
  <1>3. SupportsDeletes(conf) => Dels = {}
    BY <1>1, <1>2, BatchFacts
  <1>4. ~NoDeletePlan
    BY <1>3 DEF NoDeletePlan
  <1>5. \A S : ~Refused(S)
    BY DEF Refused, Keyed
  <1> QED
    BY <1>3, <1>4, <1>5

\* A statement that fails, after any part of it.
LEMMA SinkUpsertFails == ASSUME SinkInv, UpsertFails PROVE SinkInv'
  <1>1. /\ pc = "upsert" /\ pc' = "failed" /\ faults' = faults + 1
        /\ UNCHANGED <<conf, batch, before, sent>>
    BY DEF UpsertFails
  <1>2. PICK S \in Partial(Statement) : Put(S)
    BY DEF UpsertFails
  <1>3. Statement \subseteq Ups \ sent /\ (Keyed => Statement = Ups) /\ S \subseteq Statement
    BY <1>1, <1>2, StatementIs DEF Partial
  <1>4. /\ table' \in [Key -> Nat] /\ log' \in [DOMAIN batch -> Nat]
        /\ Keyed => log' = log /\ \A k \in Key : table'[k] \in RowAfter(S, k)
        /\ ~Keyed => /\ table' = table
                     /\ \A i \in DOMAIN batch : log'[i] = IF i \in S THEN log[i] + 1 ELSE log[i]
    BY <1>2, <1>3, PutTypes
  <1>5. /\ Ups' = Ups /\ Dels' = Dels /\ (Keyed <=> Keyed')
        /\ \A k \in Key : Outcomes(k)' = Outcomes(k) /\ Interim(k)' = Interim(k)
    BY <1>1, FrameKept
  <1>6. faults' \in Nat /\ faults \in Nat /\ sent \subseteq Ups
    BY <1>1 DEF SinkInv, SinkTypes
  <1>7. SinkTypes'
    BY <1>1, <1>4, <1>5, <1>6 DEF SinkInv, SinkTypes, Accepted, BatchOf, SupportsDeletes, RejectsConflict
  <1>8. SentInv'
    BY <1>1 DEF SentInv
  <1>9. KeyedInv'
    <2> SUFFICES ASSUME Keyed, NEW k \in Key PROVE table'[k] \in Interim(k)
      BY <1>1, <1>5 DEF KeyedInv
    <2>1. table[k] \in Interim(k) /\ table'[k] \in RowAfter(S, k) /\ S \in Partial(Ups)
      BY <1>2, <1>3, <1>4 DEF SinkInv, KeyedInv
    <2> QED
      BY <1>3, <2>1, PartWrite DEF SinkInv
  <1>10. AppendInv'
    <2>0. \A i \in Ups : log'[i] \in Nat
      BY <1>4 DEF Ups
    <2> SUFFICES ASSUME ~Keyed
                 PROVE  /\ \A i \in Dels : log'[i] = 0
                        /\ \A i \in Ups : log'[i] <= faults + 1
      <3>1. \A m, n \in Nat : m <= n + 1 => m <= (n + 1) + 1 /\ m <= (n + 1) + 0
        OBVIOUS
      <3> QED
        BY <1>1, <1>5, <1>6, <2>0, <3>1 DEF AppendInv
    <2>1. /\ \A i \in Dels : log[i] = 0
          /\ \A i \in Ups : log[i] <= faults + (IF i \in sent THEN 1 ELSE 0)
      BY DEF SinkInv, AppendInv
    <2>2. /\ Ups \subseteq DOMAIN batch /\ Dels \subseteq DOMAIN batch
          /\ \A i \in Dels : i \notin S
          /\ \A i \in DOMAIN batch : log[i] \in Nat
      BY <1>3, BatchFacts DEF SinkInv, SinkTypes
    <2>3. \A i \in Dels : log'[i] = 0
      BY <1>4, <2>1, <2>2
    <2>4. ASSUME NEW i \in Ups PROVE log'[i] <= faults + 1
      <3>1. log[i] <= faults + (IF i \in sent THEN 1 ELSE 0) /\ log[i] \in Nat /\ i \in DOMAIN batch
        BY <2>1, <2>2
      <3>2. i \in S => i \notin sent
        BY <1>3
      <3> QED
        BY <1>4, <1>6, <3>1, <3>2
    <2> QED
      BY <2>3, <2>4
  <1> QED
    BY <1>7, <1>8, <1>9, <1>10 DEF SinkInv

\* Deletes, whole or in part.
LEMMA DeletedRows ==
    ASSUME SinkInv, pc = "delete", NEW S \in SUBSET Dels, NEW k \in Key
    PROVE  /\ Deleted(S) \in [Key -> Nat]
           /\ Keyed => /\ Deleted(S)[k] \in Interim(k)
                       /\ S = Dels => Deleted(S)[k] \in Outcomes(k)
  <1>1. table \in [Key -> Nat]
    BY DEF SinkInv, SinkTypes
  <1>2. Deleted(S) \in [Key -> Nat] /\ Deleted(S)[k] = IF RowsOf(S, k) = {} THEN table[k] ELSE 0
    BY <1>1 DEF Deleted
  <1> SUFFICES ASSUME Keyed
               PROVE  /\ Deleted(S)[k] \in Interim(k)
                      /\ S = Dels => Deleted(S)[k] \in Outcomes(k)
    BY <1>2
  <1>3. table[k] \in Interim(k) /\ (RowsOf(Ups, k) # {} => table[k] \in Outcomes(k))
    BY DEF SinkInv, KeyedInv
  <1>4. RowsOf(S, k) \subseteq RowsOf(Dels, k)
    BY DEF RowsOf
  <1>5. CASE RowsOf(S, k) # {}
    <2>1. Outcomes(k) = {0}
      BY <1>4, <1>5, OutcomesAre DEF SinkInv
    <2> QED
      BY <1>2, <1>5, <2>1 DEF Interim
  <1>6. CASE RowsOf(S, k) = {} /\ RowsOf(Ups, k) # {}
    BY <1>2, <1>3, <1>6
  <1>7. CASE RowsOf(S, k) = {} /\ RowsOf(Ups, k) = {}
    <2>1. ASSUME S = Dels PROVE Deleted(S)[k] \in Outcomes(k)
      <3>1. RowsOf(DOMAIN batch, k) = {}
        BY <1>7, <2>1, OneSide DEF SinkInv
      <3>2. Outcomes(k) = {before[k]}
        BY <3>1, OutcomesAre DEF SinkInv
      <3>3. Interim(k) = {before[k]}
        BY <3>1, <3>2 DEF Interim
      <3> QED
        BY <1>2, <1>3, <1>7, <3>2, <3>3
    <2> QED
      BY <1>2, <1>3, <1>7, <2>1
  <1> QED
    BY <1>5, <1>6, <1>7

\* A statement of deletes that succeeds.
LEMMA SinkDeletes == ASSUME SinkInv, Delete PROVE SinkInv'
  <1>1. /\ pc = "delete" /\ pc' = "done"
        /\ table' = (IF SupportsDeletes(conf) THEN Deleted(Dels) ELSE table)
        /\ UNCHANGED <<conf, batch, before, log, sent, faults>>
    BY DEF Delete
  <1>2. /\ Ups' = Ups /\ Dels' = Dels /\ (Keyed <=> Keyed')
        /\ \A k \in Key : Outcomes(k)' = Outcomes(k) /\ Interim(k)' = Interim(k)
    BY <1>1, FrameKept
  <1>3. table \in [Key -> Nat]
    BY DEF SinkInv, SinkTypes
  <1>4. table' \in [Key -> Nat]
    <2>1. Deleted(Dels) \in [Key -> Nat]
      BY <1>3 DEF Deleted
    <2> QED
      BY <1>1, <1>3, <2>1
  <1>5. SinkTypes'
    BY <1>1, <1>2, <1>4 DEF SinkInv, SinkTypes, Accepted, BatchOf, SupportsDeletes, RejectsConflict
  <1>6. SentInv'
    BY <1>1, <1>2 DEF SinkInv, SentInv
  <1>7. KeyedInv'
    <2> SUFFICES ASSUME Keyed, NEW k \in Key
                 PROVE  table'[k] \in Interim(k) /\ table'[k] \in Outcomes(k)
      BY <1>1, <1>2 DEF KeyedInv
    <2>1. table' = Deleted(Dels)
      BY <1>1, KeyedFlows DEF SinkInv
    <2> QED
      BY <1>1, <2>1, DeletedRows
  <1>8. AppendInv'
    BY <1>1, <1>2 DEF SinkInv, AppendInv
  <1> QED
    BY <1>5, <1>6, <1>7, <1>8 DEF SinkInv

\* A statement of deletes that fails part of the way.
LEMMA SinkDeleteFails == ASSUME SinkInv, DeleteFails PROVE SinkInv'
  <1>1. /\ pc = "delete" /\ pc' = "failed" /\ faults' = faults + 1
        /\ SupportsDeletes(conf) /\ Dels # {}
        /\ UNCHANGED <<conf, batch, before, log, sent>>
    BY DEF DeleteFails
  <1>2. PICK S \in Partial(Dels) : table' = Deleted(S)
    BY DEF DeleteFails
  <1>3. S \subseteq Dels
    BY DEF Partial
  <1>4. /\ Ups' = Ups /\ Dels' = Dels /\ (Keyed <=> Keyed')
        /\ \A k \in Key : Outcomes(k)' = Outcomes(k) /\ Interim(k)' = Interim(k)
    BY <1>1, FrameKept
  <1>5. table' \in [Key -> Nat] /\ faults' \in Nat
    BY <1>1, <1>2 DEF SinkInv, SinkTypes, Deleted
  <1>6. SinkTypes'
    BY <1>1, <1>4, <1>5 DEF SinkInv, SinkTypes, Accepted, BatchOf, SupportsDeletes, RejectsConflict
  <1>7. SentInv'
    BY <1>1 DEF SentInv
  <1>8. KeyedInv'
    <2> SUFFICES ASSUME Keyed, NEW k \in Key PROVE table'[k] \in Interim(k)
      BY <1>1, <1>4 DEF KeyedInv
    <2> QED
      BY <1>1, <1>2, <1>3, DeletedRows
  <1>9. Keyed
    BY <1>1, AppendingFlows DEF SinkInv
  <1>10. AppendInv'
    BY <1>4, <1>9 DEF AppendInv
  <1> QED
    BY <1>6, <1>7, <1>8, <1>10 DEF SinkInv

\* The server or the sink refuses the batch: only where there is a key.
LEMMA SinkRefused == ASSUME SinkInv, UpsertRefused \/ DeleteRefused PROVE SinkInv'
  <1>1. /\ pc' = "failed" /\ (Refused(Statement) \/ NoDeletePlan)
        /\ UNCHANGED <<conf, batch, before, table, log, sent, faults>>
    BY DEF UpsertRefused, DeleteRefused
  <1>2. /\ Ups' = Ups /\ Dels' = Dels /\ (Keyed <=> Keyed')
        /\ \A k \in Key : Outcomes(k)' = Outcomes(k) /\ Interim(k)' = Interim(k)
    BY <1>1, FrameKept
  <1>3. SinkTypes'
    BY <1>1, <1>2 DEF SinkInv, SinkTypes, Accepted, BatchOf, SupportsDeletes, RejectsConflict
  <1>4. Keyed
    BY <1>1, AppendingFlows DEF SinkInv
  <1>5. SentInv' /\ KeyedInv' /\ AppendInv'
    BY <1>1, <1>2, <1>4 DEF SinkInv, SentInv, KeyedInv, AppendInv
  <1> QED
    BY <1>3, <1>5 DEF SinkInv

\* The next tick writes the batch from the beginning.
LEMMA SinkRetries == ASSUME SinkInv, Retry PROVE SinkInv'
  <1>1. /\ pc = "failed" /\ pc' = "upsert" /\ sent' = {}
        /\ UNCHANGED <<conf, batch, before, table, log, faults>>
    BY DEF Retry
  <1>2. /\ Ups' = Ups /\ Dels' = Dels /\ (Keyed <=> Keyed')
        /\ \A k \in Key : Outcomes(k)' = Outcomes(k) /\ Interim(k)' = Interim(k)
    BY <1>1, FrameKept
  <1>3. SinkTypes'
    BY <1>1, <1>2 DEF SinkInv, SinkTypes, Accepted, BatchOf, SupportsDeletes, RejectsConflict
  <1>4. SentInv' /\ KeyedInv'
    BY <1>1, <1>2 DEF SinkInv, SentInv, KeyedInv
  <1>5. AppendInv'
    <2> SUFFICES ASSUME ~Keyed
                 PROVE  (\A i \in Dels : log[i] = 0) /\ \A i \in Ups : log[i] <= faults + 0
      BY <1>1, <1>2 DEF AppendInv
    <2>1. faults + 0 = faults
      BY DEF SinkInv, SinkTypes
    <2> QED
      BY <1>1, <2>1 DEF SinkInv, AppendInv
  <1> QED
    BY <1>3, <1>4, <1>5 DEF SinkInv

\* Every step keeps the invariant.
LEMMA SinkStep == SinkInv /\ [Next]_vars => SinkInv'
  <1> SUFFICES ASSUME SinkInv, [Next]_vars PROVE SinkInv'
    OBVIOUS
  <1>1. CASE Next /\ ~Done
    BY <1>1, SinkUpserts, SinkUpsertFails, SinkDeletes, SinkDeleteFails, SinkRefused, SinkRetries
       DEF Next, Write
  <1>2. CASE UNCHANGED vars
    <2>1. UNCHANGED <<conf, batch, before, table, log, pc, sent, faults>>
      BY <1>2 DEF vars
    <2>2. /\ Ups' = Ups /\ Dels' = Dels /\ (Keyed <=> Keyed')
          /\ \A k \in Key : Outcomes(k)' = Outcomes(k) /\ Interim(k)' = Interim(k)
          /\ \A S, k : RowsOf(S, k)' = RowsOf(S, k)
      BY <2>1, FrameKept
    <2>3. SinkTypes'
      BY <2>1, <2>2 DEF SinkInv, SinkTypes, Accepted, BatchOf, SupportsDeletes, RejectsConflict
    <2>4. SentInv' /\ KeyedInv' /\ AppendInv'
      BY <2>1, <2>2 DEF SinkInv, SentInv, KeyedInv, AppendInv
    <2> QED
      BY <2>3, <2>4 DEF SinkInv
  <1> QED
    BY <1>1, <1>2 DEF Done

\* The invariant holds throughout.
LEMMA SinkSafe == Spec => []SinkInv
  BY SinkInit, SinkStep, PTL DEF Spec

-----------------------------------------------------------------------------
(* The results.                                                            *)

\* A batch that write_batch reported as written is in the table: with a key,
\* as its rows leave it in their order, whatever earlier attempts wrote of it;
\* without one, every upsert at least once and at most once an attempt.
THEOREM AppliedHolds == Spec => []Applied
  <1>1. SinkInv => Applied
    <2> SUFFICES ASSUME SinkInv, pc = "done" PROVE Applied
      BY DEF Applied, KeyedApplied, Appended
    <2>1. KeyedApplied
      BY DEF SinkInv, KeyedInv, KeyedApplied
    <2>2. Appended
      <3> SUFFICES ASSUME ~Keyed
                   PROVE  (\A i \in Ups : log[i] \in 1..(faults + 1)) /\ \A i \in Dels : log[i] = 0
        BY DEF Appended
      <3>1. sent = Ups /\ faults \in Nat /\ \A i \in Ups : log[i] \in Nat
        BY DEF SinkInv, SentInv, SinkTypes, Ups
      <3>2. /\ \A i \in Dels : log[i] = 0
            /\ \A i \in Ups : log[i] <= faults + 1
            /\ \A i \in Ups : log[i] >= 1
        BY <3>1 DEF SinkInv, AppendInv
      <3> QED
        BY <3>1, <3>2
    <2> QED
      BY <2>1, <2>2 DEF Applied
  <1> QED
    BY <1>1, SinkSafe, PTL

-----------------------------------------------------------------------------
(* The report.                                                             *)

\* MySQL counts a row twice that it overwrites.
Factor == IF conf.kind = "mysql" /\ conf.strategy = "overwrite" THEN 2 ELSE 1

\* What has been counted when the upserts are under way, sent, and over.
ReportInv ==
    /\ report \in [upserts : Nat, deletes : Nat, skipped : Nat]
    /\ pc \in {"upsert", "delete"} => report.skipped = 0
    /\ pc = "upsert" => report.upserts = Cardinality(sent) /\ report.deletes = 0
    /\ pc = "delete" => /\ report.upserts + report.deletes <= Factor * Cardinality(Ups)
                        /\ ~Keyed => report.upserts = Cardinality(Ups) /\ report.deletes = 0
    /\ Reported

\* The batch is its upserts and its deletes.
LEMMA BatchSize ==
    ASSUME SinkTypes
    PROVE  /\ \A S \in SUBSET DOMAIN batch : IsFiniteSet(S) /\ Cardinality(S) \in Nat
           /\ Cardinality(Ups) \in Nat /\ Cardinality(Dels) \in Nat
           /\ Cardinality(Ups) + Cardinality(Dels) = Len(batch)
  <1>1. Len(batch) \in Nat /\ DOMAIN batch = 1..Len(batch) /\ Ups \cup Dels = DOMAIN batch /\ Ups \cap Dels = {}
    BY BatchFacts
  <1>2. IsFiniteSet(DOMAIN batch) /\ Cardinality(DOMAIN batch) = Len(batch)
    <2>1. /\ IsFiniteSet(1..Len(batch))
          /\ Cardinality(1..Len(batch)) = IF 1 > Len(batch) THEN 0 ELSE Len(batch) - 1 + 1
      BY <1>1, FS_Interval
    <2> QED
      BY <1>1, <2>1
  <1>3. \A S \in SUBSET DOMAIN batch : IsFiniteSet(S) /\ Cardinality(S) \in Nat
    BY <1>2, FS_Subset, FS_CardinalityType
  <1>4. IsFiniteSet(Ups) /\ IsFiniteSet(Dels) /\ Cardinality(Ups) \in Nat /\ Cardinality(Dels) \in Nat
    BY <1>1, <1>3
  <1>5. Cardinality(Ups \cup Dels) = Cardinality(Ups) + Cardinality(Dels) - Cardinality(Ups \cap Dels)
    BY <1>4, FS_Union
  <1>6. Cardinality(Ups \cap Dels) = 0 /\ Cardinality(Ups \cup Dels) = Len(batch)
    BY ZenonT(40), <1>1, <1>2, FS_EmptySet
  <1>7. Cardinality(Ups) + Cardinality(Dels) = Len(batch)
    BY <1>1, <1>4, <1>5, <1>6
  <1> QED
    BY <1>3, <1>4, <1>7

\* Rows have no more keys than there are of them.
LEMMA KeyCount ==
    ASSUME SinkTypes, NEW S \in SUBSET DOMAIN batch, NEW T \in SUBSET Key,
           \A k \in T : RowsOf(S, k) # {}
    PROVE  Cardinality(T) \in Nat /\ Cardinality(T) <= Cardinality(S)
  <1>1. IsFiniteSet(S)
    BY BatchSize
  <1> DEFINE f == [k \in T |-> CHOOSE i \in RowsOf(S, k) : TRUE]
  <1>2. \A k \in T : f[k] \in RowsOf(S, k)
    OBVIOUS
  <1>3. \A k \in T : f[k] \in S /\ batch[f[k]].key = k
    BY <1>2 DEF RowsOf
  <1>4. f \in [T -> S]
    BY <1>3
  <1>5. \A j, k \in T : f[j] = f[k] => j = k
    <2> HIDE DEF f
    <2> QED
      BY <1>3, ZenonT(40)
  <1> HIDE DEF f
  <1>6. f \in Injection(T, S)
    BY <1>4, <1>5 DEF Injection, IsInjective
  <1>7. IsFiniteSet(T) /\ Cardinality(T) <= Cardinality(S)
    BY <1>1, <1>6, FS_Injection
  <1> QED
    BY <1>7, FS_CardinalityType

\* What the sinks report of the rows S.
LEMMA CountedIs ==
    ASSUME SinkTypes, NEW S \in SUBSET Ups
    PROVE  /\ Counted(S) \in Nat /\ Counted(S) <= Factor * Cardinality(S)
           /\ ~Keyed => Counted(S) = Cardinality(S)
           /\ conf.kind = "redis-kv-delete" => Counted(S) = 0
  <1> DEFINE c == Cardinality(S)
             new == Cardinality({k \in Key : RowsOf(S, k) # {} /\ table[k] = 0})
             dups == {i \in S : table[batch[i].key] # 0 \/ \E j \in S : j < i /\ batch[j].key = batch[i].key}
             d == Cardinality(dups)
  <1>1. conf.kind \in Kind /\ conf.strategy \in Strategy
    BY DEF SinkTypes
  <1>2. S \in SUBSET DOMAIN batch /\ c \in Nat /\ IsFiniteSet(S)
    BY BatchSize DEF Ups
  <1>3. new \in Nat /\ new <= c
    BY <1>2, KeyCount
  <1>4. d \in Nat /\ d <= c
    BY <1>2, FS_Subset, FS_CardinalityType, dups \in SUBSET S
  <1>5. Keyed <=> \/ conf.kind \in {"redis-kv", "redis-kv-delete"}
                  \/ conf.kind \in {"postgres", "mysql", "mongodb"} /\ conf.strategy # "none"
    BY DEF Keyed
  <1>6. PgCount(S) = IF conf.strategy = "ignore" THEN new ELSE c
    BY DEF PgCount
  <1>7. MySqlCount(S) = IF conf.strategy = "overwrite" THEN 2 * c - new ELSE PgCount(S)
    BY DEF MySqlCount
  <1>8. MongoCount(S) = c - (IF conf.strategy = "ignore" THEN d ELSE 0)
    BY DEF MongoCount
  <1>9. Factor = IF conf.kind = "mysql" /\ conf.strategy = "overwrite" THEN 2 ELSE 1
    BY DEF Factor
  <1>10. \A n \in Nat : 1 * n = n
    OBVIOUS
  <1> HIDE DEF c, new, d, dups
  <1>11. CASE conf.kind = "postgres"
    <2>1. Counted(S) = PgCount(S)
      BY <1>11 DEF Counted
    <2> QED
      BY <1>1, <1>2, <1>3, <1>5, <1>6, <1>9, <1>11, <2>1 DEF c
  <1>12. CASE conf.kind = "mysql"
    <2>1. Counted(S) = MySqlCount(S)
      BY <1>12 DEF Counted
    <2>2. Counted(S) \in Nat /\ Counted(S) <= Factor * c
      BY <1>1, <1>2, <1>3, <1>6, <1>7, <1>9, <1>12, <2>1
    <2>3. ~Keyed => Counted(S) = c
      BY <1>1, <1>2, <1>5, <1>6, <1>7, <1>12, <2>1 DEF Strategy
    <2> QED
      BY <1>12, <2>2, <2>3 DEF c
  <1>13. CASE conf.kind = "mongodb"
    <2>1. Counted(S) = MongoCount(S)
      BY <1>13 DEF Counted
    <2> QED
      BY <1>1, <1>2, <1>4, <1>5, <1>8, <1>9, <1>13, <2>1 DEF c
  <1>14. CASE conf.kind = "redis-kv-delete"
    <2>1. Counted(S) = 0
      BY <1>14 DEF Counted
    <2> QED
      BY <1>2, <1>5, <1>9, <1>14, <2>1 DEF c
  <1>15. CASE conf.kind \notin {"postgres", "mysql", "mongodb", "redis-kv-delete"}
    <2>1. Counted(S) = c
      BY <1>15 DEF Counted, c
    <2> QED
      BY <1>2, <1>9, <1>15, <2>1 DEF c
  <1> QED
    BY <1>11, <1>12, <1>13, <1>14, <1>15

\* Nothing is reported before the first statement.
LEMMA ReportInit == Init => ReportInv
  <1> SUFFICES ASSUME Init PROVE ReportInv
    OBVIOUS
  <1>1. report = [upserts |-> 0, deletes |-> 0, skipped |-> 0] /\ pc = "upsert" /\ sent = {}
    BY DEF Init, NoReport
  <1> QED
    BY <1>1, FS_EmptySet DEF ReportInv, Reported

\* A statement of upserts adds its rows to the report once.
LEMMA ReportUpserts == ASSUME SinkInv, ReportInv, Upsert PROVE ReportInv'
  <1>1. /\ pc = "upsert" /\ sent' = sent \cup Statement
        /\ pc' = (IF sent' = Ups THEN "delete" ELSE "upsert")
        /\ report' = [report EXCEPT
               !.upserts = @ + Counted(Statement),
               !.deletes = IF conf.kind = "redis-kv-delete" THEN Cardinality(Statement) ELSE 0]
        /\ UNCHANGED <<conf, batch, before>>
    BY DEF Upsert
  <1>2. Statement \subseteq Ups \ sent /\ (Keyed => Statement = Ups)
    BY <1>1, StatementIs
  <1>3. SinkTypes /\ sent \subseteq Ups /\ Ups \subseteq DOMAIN batch
    BY DEF SinkInv, SinkTypes, Ups
  <1> DEFINE c == Counted(Statement)
             n == Cardinality(Statement)
             m == Cardinality(sent)
             u == Cardinality(Ups)
  <1>4. c \in Nat /\ c <= Factor * n /\ (~Keyed => c = n) /\ (conf.kind = "redis-kv-delete" => c = 0)
    BY <1>2, <1>3, CountedIs
  <1>5. n \in Nat /\ m \in Nat /\ u \in Nat /\ IsFiniteSet(Statement) /\ IsFiniteSet(sent)
    BY <1>2, <1>3, BatchSize
  <1>6. Cardinality(sent') = m + n
    <2>1. sent \cap Statement = {}
      BY <1>2
    <2>2. Cardinality(sent \cup Statement) = m + n - Cardinality(sent \cap Statement)
      BY <1>5, FS_Union
    <2>3. Cardinality(sent \cap Statement) = 0
      BY <2>1, FS_EmptySet
    <2> QED
      BY <1>1, <1>5, <2>2, <2>3
  <1>7. report \in [upserts : Nat, deletes : Nat, skipped : Nat]
        /\ report.upserts = m /\ report.deletes = 0 /\ report.skipped = 0
    BY <1>1 DEF ReportInv
  <1>8. Factor' = Factor /\ Ups' = Ups /\ (Keyed <=> Keyed')
    BY <1>1, FrameKept DEF Factor
  <1>r. report' = [report EXCEPT !.upserts = report.upserts + c,
                                 !.deletes = IF conf.kind = "redis-kv-delete" THEN n ELSE 0]
    BY <1>1
  <1> HIDE DEF c, n, m, u
  <1>9. /\ report' \in [upserts : Nat, deletes : Nat, skipped : Nat]
        /\ report'.upserts = m + c /\ report'.skipped = 0
        /\ report'.deletes = IF conf.kind = "redis-kv-delete" THEN n ELSE 0
    <2> DEFINE e == IF conf.kind = "redis-kv-delete" THEN n ELSE 0
    <2>1. e \in Nat /\ m + c \in Nat
      BY <1>4, <1>5
    <2>2. report' = [report EXCEPT !.upserts = m + c, !.deletes = e]
      BY <1>r, <1>7
    <2> HIDE DEF e
    <2>3. report' \in [upserts : Nat, deletes : Nat, skipped : Nat]
      BY ZenonT(40), <1>7, <2>1, <2>2
    <2>4. report'.upserts = m + c /\ report'.deletes = e /\ report'.skipped = 0
      BY <1>7, <2>1, <2>2
    <2> QED
      BY <2>3, <2>4 DEF e
  <1>10. Keyed => m = 0 /\ n = u
    <2>1. Keyed => conf.kind # "questdb"
      BY <1>3, KeyedFlows
    <2>2. Keyed => sent = {}
      BY <1>1, <2>1 DEF SinkInv, SentInv
    <2> QED
      BY <1>2, <2>2, FS_EmptySet DEF m, n, u
  <1>11. ~Keyed => conf.kind # "redis-kv-delete"
    BY DEF Keyed
  <1>12. ASSUME pc' = "upsert"
         PROVE  report'.upserts = Cardinality(sent') /\ report'.deletes = 0
    <2>1. sent' # Ups
      BY <1>1, <1>12
    <2>2. ~Keyed
      BY <1>1, <1>2, <1>3, <2>1
    <2> QED
      BY <1>4, <1>6, <1>9, <1>11, <2>2
  <1>13. ASSUME pc' = "delete"
         PROVE  /\ report'.upserts + report'.deletes <= Factor * u
                /\ ~Keyed => report'.upserts = u /\ report'.deletes = 0
    <2>1. sent' = Ups
      BY <1>1, <1>13
    <2>2. u = m + n
      BY <1>6, <2>1 DEF u
    <2>3. Factor \in {1, 2} /\ (conf.kind = "redis-kv-delete" => Factor = 1)
      BY DEF Factor
    <2>4. CASE ~Keyed
      <3>1. report'.upserts = u /\ report'.deletes = 0
        BY <1>4, <1>9, <1>11, <2>2, <2>4
      <3> QED
        BY <1>5, <2>3, <2>4, <3>1
    <2>5. CASE Keyed /\ conf.kind = "redis-kv-delete"
      BY <1>4, <1>5, <1>9, <1>10, <2>3, <2>5
    <2>6. CASE Keyed /\ conf.kind # "redis-kv-delete"
      BY <1>4, <1>5, <1>9, <1>10, <2>3, <2>6
    <2> QED
      BY <2>4, <2>5, <2>6
  <1>14. pc' \in {"upsert", "delete"}
    BY <1>1
  <1>15. Reported'
    BY <1>14 DEF Reported
  <1> QED
    BY <1>8, <1>9, <1>12, <1>13, <1>14, <1>15 DEF ReportInv, u

\* A statement of deletes adds its rows to the report once.
LEMMA ReportDeletes == ASSUME SinkInv, ReportInv, Delete PROVE ReportInv'
  <1>1. /\ pc = "delete" /\ pc' = "done"
        /\ table' = (IF SupportsDeletes(conf) THEN Deleted(Dels) ELSE table)
        /\ report' = (IF SupportsDeletes(conf)
                      THEN [report EXCEPT !.deletes =
                                @ + Cardinality({k \in Key : table[k] # 0 /\ table'[k] = 0})]
                      ELSE [report EXCEPT !.skipped = Cardinality(Dels)])
        /\ UNCHANGED <<conf, batch, before>>
    BY DEF Delete
  <1> DEFINE T == {k \in Key : table[k] # 0 /\ table'[k] = 0}
             g == Cardinality(T)
             u == Cardinality(Ups)
             d == Cardinality(Dels)
  <1>2. SinkTypes /\ Dels \in SUBSET DOMAIN batch
    BY DEF SinkInv, Dels
  <1>3. u \in Nat /\ d \in Nat /\ u + d = Len(batch) /\ Len(batch) \in Nat
    BY <1>2, BatchSize, BatchFacts
  <1>4. SupportsDeletes(conf) => g \in Nat /\ g <= d /\ (Dels = {} => g = 0)
    <2> SUFFICES ASSUME SupportsDeletes(conf) PROVE g \in Nat /\ g <= d /\ (Dels = {} => g = 0)
      OBVIOUS
    <2>1. \A k \in T : RowsOf(Dels, k) # {}
      BY <1>1 DEF Deleted
    <2>2. T \in SUBSET Key
      OBVIOUS
    <2>3. g \in Nat /\ g <= d
      <3> HIDE DEF T
      <3> QED
        BY <1>2, <2>1, <2>2, KeyCount
    <2>4. Dels = {} => T = {}
      BY <2>1 DEF RowsOf
    <2> QED
      BY <2>3, <2>4, FS_EmptySet
  <1>5. /\ report \in [upserts : Nat, deletes : Nat, skipped : Nat] /\ report.skipped = 0
        /\ report.upserts + report.deletes <= Factor * u
        /\ ~Keyed => report.upserts = u /\ report.deletes = 0
    BY <1>1 DEF ReportInv
  <1>6. (SupportsDeletes(conf) /\ ~Keyed) => Dels = {}
    BY <1>2, AppendingFlows
  <1>7. ~SupportsDeletes(conf) => ~Keyed
    BY <1>2, KeyedFlows
  <1>8. Factor \in {1, 2} /\ (Keyed <=> Keyed')
    BY <1>1, FrameKept DEF Factor
  <1>9. Dels = {} => d = 0
    BY FS_EmptySet
  <1>10. IF SupportsDeletes(conf) THEN report' = [report EXCEPT !.deletes = @ + g]
         ELSE report' = [report EXCEPT !.skipped = d]
    BY <1>1
  <1> DEFINE n == report'.upserts + report'.deletes + report'.skipped
  <1> HIDE DEF T, g, u, d
  <1>11. CASE SupportsDeletes(conf)
    <2>1. /\ report' \in [upserts : Nat, deletes : Nat, skipped : Nat]
          /\ report'.upserts = report.upserts /\ report'.deletes = report.deletes + g
          /\ report'.skipped = 0
      BY <1>4, <1>5, <1>10, <1>11
    <2>2. report.upserts \in Nat /\ report.deletes \in Nat
      BY <1>5
    <2>3. n <= Factor * Len(batch)
      <3>1. n = report.upserts + report.deletes + g
        BY <1>4, <1>11, <2>1, <2>2
      <3>2. CASE Factor = 1
        BY <1>3, <1>4, <1>5, <1>11, <2>2, <3>1, <3>2
      <3>3. CASE Factor = 2
        BY <1>3, <1>4, <1>5, <1>11, <2>2, <3>1, <3>3
      <3> QED
        BY <1>8, <3>2, <3>3
    <2>4. ~Keyed => n = Len(batch)
      BY <1>3, <1>4, <1>5, <1>6, <1>9, <1>11, <2>1
    <2> QED
      BY <1>1, <1>8, <2>1, <2>3, <2>4 DEF ReportInv, Reported, Factor
  <1>12. CASE ~SupportsDeletes(conf)
    <2>1. /\ report' \in [upserts : Nat, deletes : Nat, skipped : Nat]
          /\ report'.upserts = u /\ report'.deletes = 0 /\ report'.skipped = d
      BY ZenonT(40), <1>3, <1>5, <1>7, <1>10, <1>12
    <2>2. n = Len(batch)
      BY <1>3, <2>1
    <2>3. n <= Factor * Len(batch)
      BY <1>3, <1>8, <2>2
    <2> QED
      BY <1>1, <1>8, <2>1, <2>2, <2>3 DEF ReportInv, Reported, Factor
  <1> QED
    BY <1>11, <1>12

\* A failure leaves the report as it is.
LEMMA ReportStops ==
    ASSUME SinkInv, ReportInv, UpsertRefused \/ UpsertFails \/ DeleteRefused \/ DeleteFails
    PROVE  ReportInv'
  <1>1. pc' = "failed" /\ report' = report
    BY DEF UpsertRefused, UpsertFails, DeleteRefused, DeleteFails
  <1> QED
    BY <1>1 DEF ReportInv, Reported

\* Writing again starts a new report.
LEMMA ReportRetries == ASSUME SinkInv, ReportInv, Retry PROVE ReportInv'
  <1>1. report' = [upserts |-> 0, deletes |-> 0, skipped |-> 0] /\ pc' = "upsert" /\ sent' = {}
    BY DEF Retry, NoReport
  <1> QED
    BY <1>1, FS_EmptySet DEF ReportInv, Reported

\* Every step keeps what the report accounts for.
LEMMA ReportStep == SinkInv /\ ReportInv /\ [Next]_vars => ReportInv'
  <1> SUFFICES ASSUME SinkInv, ReportInv, [Next]_vars PROVE ReportInv'
    OBVIOUS
  <1>1. CASE Upsert
    BY <1>1, ReportUpserts
  <1>2. CASE Delete
    BY <1>2, ReportDeletes
  <1>3. CASE UpsertRefused \/ UpsertFails \/ DeleteRefused \/ DeleteFails
    BY <1>3, ReportStops
  <1>4. CASE Retry
    BY <1>4, ReportRetries
  <1>5. CASE Done \/ UNCHANGED vars
    <2>1. UNCHANGED vars
      BY <1>5 DEF Done
    <2> QED
      BY <2>1 DEF vars, ReportInv, Reported, Factor, Ups, Keyed
  <1> QED
    BY <1>1, <1>2, <1>3, <1>4, <1>5 DEF Next, Write

\* What write_batch reports as upserted, deleted and skipped accounts for each
\* row of the batch once (a row MySQL overwrites twice), for every sink, every
\* conflict strategy and every size of the batch.
THEOREM ReportedHolds == Spec => []Reported
  <1>1. Init => ReportInv
    BY ReportInit
  <1>2. SinkInv /\ ReportInv /\ [Next]_vars => ReportInv'
    BY ReportStep
  <1>3. ReportInv => Reported
    BY DEF ReportInv
  <1> QED
    BY <1>1, <1>2, <1>3, SinkSafe, PTL DEF Spec
=============================================================================
